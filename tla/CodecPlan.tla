------------------------------ MODULE CodecPlan ------------------------------
(***************************************************************************)
(* CodecPlan::build of src/native/plan.rs: every message and enum type     *)
(* that a root message type reaches gets one flat plan.  The builder walks *)
(* the descriptors depth first; types may contain one another, so a plan   *)
(* gets its index before the plans of its fields exist.                    *)
(*                                                                         *)
(* The recursive calls of Builder::message are frames of a stack, and one  *)
(* step plans one field or completes one plan.  Descriptors come from      *)
(* prost_reflect and are given.  Indices and positions count from 1 here,  *)
(* from 0 in the code.  The kinds of scalars, which no step looks at, are  *)
(* one value, Scalar.                                                      *)
(***************************************************************************)
EXTENDS Naturals, Sequences, Subsequences

CONSTANTS
  Messages,   \* full names of ordinary message types
  WellKnown,  \* full names WellKnown::from_full_name knows
  Enums,      \* full names of enum types
  Scalar,     \* any other type of a field
  Groups,     \* names of oneof groups
  NoGroup,    \* the group of a field outside any
  Schemas,    \* functions from message types to descriptors
  DenseLimit  \* DENSE_LIMIT

Types == Messages \cup WellKnown
Kinds == {"single", "repeated", "map"}
ABSENT == 65535
U16 == 65536

(* A field of a message type, as declared: what is in value is the type of *)
(* the field, of its elements or of the values of its map.                 *)
FieldDescriptors ==
  [number : Nat \ {0}, kind : Kinds, value : Types \cup Enums \cup {Scalar},
   group : Groups \cup {NoGroup}]
Descriptors ==
  [fields : Seq(FieldDescriptors), groups : Seq([name : Groups, synthetic : BOOLEAN])]

ASSUME SchemasAssumption == Schemas \subseteq [Types -> Descriptors]
(* prost_reflect refuses a message type two fields of which share a number *)
(* or two groups a name.                                                   *)
ASSUME DistinctAssumption ==
  \A s \in Schemas : \A m \in Types :
    LET d == s[m]
    IN  /\ \A i, j \in 1 .. Len(d.fields) : d.fields[i].number = d.fields[j].number => i = j
        /\ \A g, h \in 1 .. Len(d.groups) : d.groups[g].name = d.groups[h].name => g = h
ASSUME NamesAssumption ==
  Messages \cap WellKnown = {} /\ Types \cap (Enums \cup {Scalar}) = {} /\ Scalar \notin Enums
(* Positions up to DENSE_LIMIT fit the entries of the dense table.         *)
ASSUME DenseLimitAssumption == DenseLimit \in Nat /\ DenseLimit <= ABSENT

VARIABLES
  schema,       \* the descriptors, constant
  root,         \* the type to build a codec for, constant
  messages,     \* Builder.messages: the full names of the plans
  plans,        \*   and the rest of them
  indices,      \* Builder.indices; NoIndex for a name that is not in it
  enums,        \* Builder.enums, by name
  enum_indices, \* Builder.enum_indices
  stack         \* the calls of Builder::message in progress, innermost last

vars == <<schema, root, messages, plans, indices, enums, enum_indices, stack>>

NoIndex == 0

-----------------------------------------------------------------------------
(* Operators on plans.                                                     *)

Image(f) == {f[i] : i \in DOMAIN f}

(* fields.sort_by_key(number); the numbers of a message's fields differ.   *)
SortByNumber(fields) ==
  LET numbers == {f.number : f \in Image(fields)}
  IN  [k \in 1 .. Len(fields) |-> CHOOSE f \in Image(fields) : f.number = Nth(numbers, k)]

RealGroups(d) == Subsequence(d.groups, {g \in 1 .. Len(d.groups) : ~d.groups[g].synthetic})

(* Mutant of GroupOf: synthetic groups count.                              *)
GroupOfAny(d, f) ==
  IF \E g \in 1 .. Len(d.groups) : d.groups[g].name = f.group
  THEN CHOOSE g \in 1 .. Len(d.groups) : d.groups[g].name = f.group
  ELSE NoIndex

(* Position of the group of field f among the real groups, if it has one.  *)
GroupOf(d, f) ==
  LET real == RealGroups(d)
  IN  IF \E g \in 1 .. Len(real) : real[g].name = f.group
      THEN CHOOSE g \in 1 .. Len(real) : real[g].name = f.group
      ELSE NoIndex

FieldPlan(d, f, index) ==
  [number |-> f.number, kind |-> f.kind, value |-> f.value, index |-> index,
   group |-> GroupOf(d, f)]

(* Mutant of NumberIndex: the dense table lacks its last entry.            *)
NumberIndexShort(fields) ==
  LET max == IF fields = <<>> THEN 0 ELSE fields[Len(fields)].number
      at(n) == CHOOSE i \in 1 .. Len(fields) : fields[i].number = n
      numbers == {fields[i].number : i \in 1 .. Len(fields)}
  IN  IF max < DenseLimit
      THEN [dense |-> TRUE,
            table |-> [n \in 0 .. max - 1 |-> IF n \in numbers THEN at(n) % U16 ELSE ABSENT]]
      ELSE [dense |-> FALSE, table |-> [n \in numbers |-> at(n)]]

(* The index of the sorted fields by number: a table of u16 if the largest *)
(* number, that of the last field, is small; a map otherwise.              *)
NumberIndex(fields) ==
  LET max == IF fields = <<>> THEN 0 ELSE fields[Len(fields)].number
      at(n) == CHOOSE i \in 1 .. Len(fields) : fields[i].number = n
      numbers == {fields[i].number : i \in 1 .. Len(fields)}
  IN  IF max < DenseLimit
      THEN [dense |-> TRUE,
            table |-> [n \in 0 .. max |-> IF n \in numbers THEN at(n) % U16 ELSE ABSENT]]
      ELSE [dense |-> FALSE, table |-> [n \in numbers |-> at(n)]]

(* MessagePlan::field_index: the position of the field with a number, or   *)
(* NoIndex.                                                                *)
field_index(plan, n) ==
  LET index == plan.by_number
  IN  IF n \in DOMAIN index.table /\ (index.dense => index.table[n] # ABSENT)
      THEN index.table[n] ELSE NoIndex

(* Mutant of Complete: the members of groups are listed before the sort.   *)
CompleteUnsortedGroups(d, planned) ==
  LET fields == SortByNumber(planned)
  IN  [fields |-> fields,
       oneofs |-> [g \in 1 .. Len(RealGroups(d)) |->
                     [name |-> RealGroups(d)[g].name,
                      fields |-> {i \in 1 .. Len(planned) : planned[i].group = g}]],
       by_number |-> NumberIndex(fields)]

(* What becomes of the plan of a type once all its fields are planned.     *)
Complete(d, planned) ==
  LET fields == SortByNumber(planned)
  IN  [fields |-> fields,
       oneofs |-> [g \in 1 .. Len(RealGroups(d)) |->
                     [name |-> RealGroups(d)[g].name,
                      fields |-> {i \in 1 .. Len(fields) : fields[i].group = g}]],
       by_number |-> NumberIndex(fields)]

Placeholder ==
  [fields |-> <<>>, oneofs |-> <<>>, by_number |-> [dense |-> FALSE, table |-> <<>>]]

-----------------------------------------------------------------------------
(* The innermost call.                                                     *)
Top == stack[Len(stack)]
Building == stack # <<>>
Descriptor == schema[Top.name]
AllPlanned == Len(Top.fields) = Len(Descriptor.fields)
NextField == Descriptor.fields[Len(Top.fields) + 1]

(* frames with the field f of the last one planned.                        *)
Planned(frames, f, index) ==
  LET top == frames[Len(frames)]
      plan == FieldPlan(schema[top.name], f, index)
  IN  [frames EXCEPT ![Len(frames)].fields = Append(top.fields, plan)]

(* Mutant of Reserve: the name is not entered before its fields.           *)
ReserveLate(m) ==
  /\ messages' = Append(messages, m)
  /\ plans' = Append(plans, Placeholder)
  /\ stack' = Append(stack, [name |-> m, index |-> Len(messages) + 1, fields |-> <<>>])
  /\ UNCHANGED <<schema, root, indices, enums, enum_indices>>

(* Mutant of Reserve: the index is taken after the push.                   *)
ReserveAfterPush(m) ==
  /\ messages' = Append(messages, m)
  /\ plans' = Append(plans, Placeholder)
  /\ indices' = [indices EXCEPT ![m] = Len(messages) + 2]
  /\ stack' = Append(stack, [name |-> m, index |-> Len(messages) + 1, fields |-> <<>>])
  /\ UNCHANGED <<schema, root, enums, enum_indices>>

(* Builder::message(m) for a new m: the index is taken, then the fields    *)
(* are gone through.                                                       *)
Reserve(m) ==
  /\ messages' = Append(messages, m)
  /\ plans' = Append(plans, Placeholder)
  /\ indices' = [indices EXCEPT ![m] = Len(messages) + 1]
  /\ stack' = Append(stack, [name |-> m, index |-> Len(messages) + 1, fields |-> <<>>])
  /\ UNCHANGED <<schema, root, enums, enum_indices>>

Init ==
  /\ schema \in Schemas
  /\ root \in Types
  /\ messages = <<>>
  /\ plans = <<>>
  /\ indices = [m \in Types |-> NoIndex]
  /\ enums = <<>>
  /\ enum_indices = [e \in Enums |-> NoIndex]
  /\ stack = <<>>

(* CodecPlan::build(root).  The root is planned as an ordinary message     *)
(* even if it is a well-known type.                                        *)
Build ==
  /\ messages = <<>>
  /\ Reserve(root)

(* A field of a scalar or well-known type refers to no plan.               *)
PlanLeaf ==
  /\ Building /\ ~AllPlanned
  /\ NextField.value \in WellKnown \cup {Scalar}
  /\ stack' = Planned(stack, NextField, NoIndex)
  /\ UNCHANGED <<schema, root, messages, plans, indices, enums, enum_indices>>

(* A field of an enum type, which Builder::enumeration plans when new.     *)
PlanEnum ==
  LET e == NextField.value
      new == enum_indices[e] = NoIndex
      index == IF new THEN Len(enums) + 1 ELSE enum_indices[e]
  IN  /\ Building /\ ~AllPlanned
      /\ e \in Enums
      /\ enums' = IF new THEN Append(enums, e) ELSE enums
      /\ enum_indices' = [enum_indices EXCEPT ![e] = index]
      /\ stack' = Planned(stack, NextField, index)
      /\ UNCHANGED <<schema, root, messages, plans, indices>>

(* Mutant of PlanKnown: only complete plans are referred to.               *)
PlanKnownComplete ==
  /\ Building /\ ~AllPlanned
  /\ NextField.value \in Messages
  /\ indices[NextField.value] # NoIndex
  /\ \A i \in 1 .. Len(stack) : stack[i].name # NextField.value
  /\ stack' = Planned(stack, NextField, indices[NextField.value])
  /\ UNCHANGED <<schema, root, messages, plans, indices, enums, enum_indices>>

(* A field of a message type that has an index, complete or not.           *)
PlanKnown ==
  /\ Building /\ ~AllPlanned
  /\ NextField.value \in Messages
  /\ indices[NextField.value] # NoIndex
  /\ stack' = Planned(stack, NextField, indices[NextField.value])
  /\ UNCHANGED <<schema, root, messages, plans, indices, enums, enum_indices>>

(* Mutant of PlanNew: plans the messages of well-known types too.          *)
PlanNewOfAnyType ==
  /\ Building /\ ~AllPlanned
  /\ NextField.value \in Types
  /\ indices[NextField.value] = NoIndex
  /\ Reserve(NextField.value)

(* A field of a message type met for the first time: the recursive call.   *)
PlanNew ==
  /\ Building /\ ~AllPlanned
  /\ NextField.value \in Messages
  /\ indices[NextField.value] = NoIndex
  /\ Reserve(NextField.value)

(* Mutant of Finish: the caller is given the index of the newest plan.     *)
FinishNewest ==
  LET below == SubSeq(stack, 1, Len(stack) - 1)
      caller == below[Len(below)]
      f == schema[caller.name].fields[Len(caller.fields) + 1]
  IN  /\ Building /\ AllPlanned
      /\ plans' = [plans EXCEPT ![Top.index] = Complete(Descriptor, Top.fields)]
      /\ stack' = IF below = <<>> THEN below ELSE Planned(below, f, Len(messages))
      /\ UNCHANGED <<schema, root, messages, indices, enums, enum_indices>>

(* All fields are planned: the plan is completed and its index returned to *)
(* the call that is planning a field of this type.                         *)
Finish ==
  LET below == SubSeq(stack, 1, Len(stack) - 1)
      caller == below[Len(below)]
      f == schema[caller.name].fields[Len(caller.fields) + 1]
  IN  /\ Building /\ AllPlanned
      /\ plans' = [plans EXCEPT ![Top.index] = Complete(Descriptor, Top.fields)]
      /\ stack' = IF below = <<>> THEN below ELSE Planned(below, f, Top.index)
      /\ UNCHANGED <<schema, root, messages, indices, enums, enum_indices>>

Built == messages # <<>> /\ ~Building

(* The plan is complete; nothing changes it any more.                      *)
Terminated == Built /\ UNCHANGED vars

Step == Build \/ PlanLeaf \/ PlanEnum \/ PlanKnown \/ PlanNew \/ Finish
Next == Step \/ Terminated

Spec == Init /\ [][Next]_vars

(* build is one sequential call that nothing interrupts.                   *)
FairSpec == Spec /\ WF_vars(Step)

-----------------------------------------------------------------------------
Indices == 1 .. Len(messages)
InProgress == {stack[i].index : i \in 1 .. Len(stack)}
Names == {messages[i] : i \in Indices}

(* A call in progress: its type, its plan's index and the fields planned.  *)
FieldPlans ==
  [number : Nat \ {0}, kind : Kinds, value : Types \cup Enums \cup {Scalar},
   index : Nat, group : Nat]
Frames == [name : Types, index : Indices, fields : Seq(FieldPlans)]

(* The variables have the types their comments say; no index in use points *)
(* past the end of its table.                                              *)
TypeOK ==
  /\ schema \in [Types -> Descriptors]
  /\ root \in Types
  /\ messages \in Seq(Types)
  /\ indices \in [Types -> 0 .. Len(messages)]
  /\ enums \in Seq(Enums)
  /\ enum_indices \in [Enums -> 0 .. Len(enums)]
  /\ stack \in Seq(Frames)

(* Every type has at most one plan, at its index, and at most one call in  *)
(* progress, so recursion ends and is never deeper than there are types;   *)
(* the plan of the root is the first.                                      *)
OnePlanPerType ==
  /\ \A i \in Indices : indices[messages[i]] = i
  /\ \A i, j \in 1 .. Len(stack) : stack[i].name = stack[j].name => i = j
  /\ \A i \in 1 .. Len(stack) : messages[stack[i].index] = stack[i].name
  /\ messages # <<>> => messages[1] = root

(* A set of types that contains the message types of its members' fields.  *)
Closed(S) ==
  \A m \in S : \A i \in 1 .. Len(schema[m].fields) :
    schema[m].fields[i].value \in Messages => schema[m].fields[i].value \in S

(* Exactly the message types that can be reached from the root are         *)
(* planned: the builder enters no other, and in the end it missed none.    *)
PlansExactlyReachable ==
  /\ \A S \in SUBSET Types : root \in S /\ Closed(S) => Names \subseteq S
  /\ Built => root \in Names /\ Closed(Names)

(* The complete plan of message type m has the declared fields in order of *)
(* their numbers, and each refers to the plan of its own type, although    *)
(* the plans it refers to may still be placeholders.                       *)
Follows(plan, m) ==
  LET declared == schema[m].fields
  IN  /\ Len(plan.fields) = Len(declared)
      /\ \A i, j \in 1 .. Len(plan.fields) :
           i < j => plan.fields[i].number < plan.fields[j].number
      /\ \A f \in Image(declared) : \E g \in Image(plan.fields) :
           /\ g.number = f.number /\ g.kind = f.kind /\ g.value = f.value
           /\ f.value \in Messages =>
                g.index \in Indices /\ messages[g.index] = f.value
           /\ f.value \in Enums => g.index \in 1 .. Len(enums) /\ enums[g.index] = f.value

CompletePlansFollowDescriptors ==
  \A i \in Indices \ InProgress : Follows(plans[i], messages[i])

(* field_index finds each declared number at the position of its field and *)
(* no other number, by table or by map.                                    *)
FieldIndexExact ==
  \A i \in Indices \ InProgress :
    LET plan == plans[i]
    IN  \A n \in 0 .. DenseLimit + 2 :
          LET at == field_index(plan, n)
          IN  IF \E f \in Image(schema[messages[i]].fields) : f.number = n
              THEN at \in 1 .. Len(plan.fields) /\ plan.fields[at].number = n
              ELSE at = NoIndex

(* A oneof of a plan lists the positions, after the sort, of exactly the   *)
(* fields declared in it; the groups that proto3 makes up for optional     *)
(* fields are not among them.                                              *)
OneofsHaveTheirMembers ==
  \A i \in Indices \ InProgress :
    LET plan == plans[i]
        d == schema[messages[i]]
    IN  /\ {plan.oneofs[g].name : g \in 1 .. Len(plan.oneofs)} =
             {g.name : g \in {h \in Image(d.groups) : ~h.synthetic}}
        /\ \A g \in 1 .. Len(plan.oneofs) :
             {plan.fields[p].number : p \in plan.oneofs[g].fields} =
               {f.number : f \in {h \in Image(d.fields) : h.group = plan.oneofs[g].name}}
        /\ \A p \in 1 .. Len(plan.fields), g \in 1 .. Len(plan.oneofs) :
             plan.fields[p].group = g <=> p \in plan.oneofs[g].fields

(* Building ends for every schema, recursive ones included.                *)
BuildEnds == <>Built
=============================================================================
