SPECIFICATION Spec
CONSTANTS
  order = order
  line = line
  node = node
  Order = Order
  Line = Line
  Line2 = Line2
  Node = Node
  Color = Color
  Types = {order, line, node}
  Root = order
  Models = {Order, Line, Line2, Node}
  Enums = {Color}
  Programs <- MCPrograms
  MAX_INSTANCES = 2
  None = None
CHECK_DEADLOCK FALSE
INVARIANTS
  BoundAsAnnotated
  BuildsAsPydantic
PROPERTY BindingEnds
