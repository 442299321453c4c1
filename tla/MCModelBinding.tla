--------------------------- MODULE MCModelBinding ---------------------------
(***************************************************************************)
(* ModelBinding on an order with a line, a node that holds itself, and an  *)
(* enum, bound to models that declare their fields in various ways.        *)
(***************************************************************************)
EXTENDS ModelBinding

CONSTANTS order, line, node, Order, Line, Line2, Node, Color

Field(key, is, type, many, presence) ==
  [key |-> key, is |-> is, type |-> type, many |-> many, presence |-> presence]
Id == Field("id", "other", None, FALSE, FALSE)
Main == Field("main", "message", line, FALSE, TRUE)
Lines == Field("lines", "message", line, TRUE, FALSE)
Tint == Field("tint", "enum", None, FALSE, FALSE)
Note == Field("note", "other", None, FALSE, TRUE)
Top == Field("top", "message", node, FALSE, TRUE)
Same == Field("id", "other", None, FALSE, TRUE)   \* renamed to a name in use
Child == Field("child", "message", node, FALSE, TRUE)
Back == Field("back", "message", line, FALSE, TRUE)

MCFields ==
  {[t \in Types |-> CASE t = order -> f [] t = line -> <<Id, Tint>> [] t = node -> <<Child, Back>>] :
     f \in {<<Id, Main, Lines>>, <<Id, Tint, Note>>, <<Top, Main>>, <<Id, Note, Same>>}}

Declared(name, shape, leaf, default) ==
  [name |-> name, annotation |-> [shape |-> shape, leaf |-> leaf], default |-> default]
DefaultOf(shape, value) == [shape |-> shape, value |-> value]
Required == DefaultOf(<<>>, "undefined")
Plain == DefaultOf(<<>>, "scalar")
Listed == DefaultOf(<<"list">>, "scalar")
Inside == DefaultOf(<<"tuple", "list">>, "scalar")
Bag == DefaultOf(<<"set">>, "scalar")
Frozen == DefaultOf(<<"tuple", "frozenset">>, "scalar")
Instance == DefaultOf(<<>>, "object")
Factory == DefaultOf(<<>>, "factory")
Reader == DefaultOf(<<>>, "factory_of_data")

DeclId == Declared("id", <<>>, "other", Required)
DeclMain(leaf) == Declared("main", <<"optional">>, leaf, Plain)
DeclLines(leaf, default) == Declared("lines", <<"list">>, leaf, default)
DeclTint(leaf) == Declared("tint", <<>>, leaf, Plain)
DeclNote(default) == Declared("note", <<"optional">>, "other", default)

(* In the order of the message or not, more fields or fewer, each kind of  *)
(* default, two models for one message, and classes of the wrong kind.     *)
Orders ==
  {<<DeclId, DeclMain(Line), DeclLines(Line, Listed)>>,
   <<DeclNote(Inside), DeclLines(Line, Factory), DeclMain(Line), DeclId>>,
   <<DeclId, DeclMain(Line), DeclLines(Line2, Listed)>>,
   <<DeclId, DeclTint(Color), DeclNote(Inside)>>,
   <<DeclNote(Frozen), DeclTint(Color)>>,
   <<DeclNote(Reader), DeclId>>,
   <<Declared("main", <<"union">>, Line, Instance), DeclTint("other"), DeclId>>,
   <<DeclMain(Color), DeclTint(Line), DeclId>>,
   <<DeclId, Declared("main", <<"optional", "frozenset">>, Line, Bag),
     Declared("lines", <<"tuple", "set">>, Line, Frozen)>>,
   <<Declared("top", <<"optional">>, Node, Plain), DeclMain(Line2)>>}

ModelFields(root, back) ==
  [m \in Models |->
     CASE m = Order -> root
       [] m = Line -> <<DeclId, DeclTint(Color)>>
       [] m = Line2 -> <<DeclTint("other"), DeclId>>
       [] m = Node -> <<Declared("child", <<"optional">>, Node, Plain),
                        Declared("back", <<"optional">>, back, Plain)>>]

MCPrograms ==
  {[fields |-> f, model |-> Order, model_fields |-> ModelFields(root, back), slow |-> how[1],
    extra |-> how[2], members |-> [e \in Enums |-> {1}], open |-> how[3]] :
     f \in MCFields, root \in Orders, back \in {Line, Line2, "other"},
     how \in {<<{}, {}, {}>>, <<{Order}, {Order}, {Color}>>}}
=============================================================================
