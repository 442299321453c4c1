--------------------------- MODULE CodecPlanProofs ---------------------------
(***************************************************************************)
(* Proofs about CodecPlan for every set of types and every schema,         *)
(* recursive or not: each type gets one plan, recursion is bounded,        *)
(* exactly the types that can be reached are planned, and each plan is     *)
(* that of its descriptor.                                                 *)
(***************************************************************************)
EXTENDS CodecPlan, Lemmas

(* An index that is not NoIndex is the place of the name.                  *)
IndexInv ==
  \A m \in Types : indices[m] # NoIndex =>
    indices[m] \in 1 .. Len(messages) /\ messages[indices[m]] = m

(* A call below the innermost one is at the field whose type is being      *)
(* planned by the call above it.                                           *)
CallsInv ==
  /\ messages = <<>> => stack = <<>>
  /\ \A i \in 1 .. Len(stack) :
       Len(stack[i].fields) <= Len(schema[stack[i].name].fields)
  /\ \A i \in 1 .. Len(stack) : i < Len(stack) =>
       /\ Len(stack[i].fields) < Len(schema[stack[i].name].fields)
       /\ schema[stack[i].name].fields[Len(stack[i].fields) + 1].value = stack[i + 1].name

(* What the fields planned so far refer to has a plan, be it a placeholder.*)
FieldsInv ==
  /\ \A i \in 1 .. Len(stack) : \A j \in 1 .. Len(stack[i].fields) :
       schema[stack[i].name].fields[j].value \in Messages =>
         schema[stack[i].name].fields[j].value \in Names
  /\ \A m \in Names : (\A i \in 1 .. Len(stack) : stack[i].name # m) =>
       \A j \in 1 .. Len(schema[m].fields) :
         schema[m].fields[j].value \in Messages => schema[m].fields[j].value \in Names

(* Only types that can be reached are planned.                             *)
ReachInv == \A S \in SUBSET Types : root \in S /\ Closed(S) => Names \subseteq S

Inv == TypeOK /\ OnePlanPerType /\ IndexInv /\ CallsInv /\ FieldsInv /\ ReachInv

-----------------------------------------------------------------------------
(* The fields of a described message are a sequence of descriptors.        *)
LEMMA SchemaFacts ==
  ASSUME TypeOK, NEW m \in Types
  PROVE  /\ schema[m].fields \in Seq(FieldDescriptors)
         /\ Len(schema[m].fields) \in Nat
         /\ \A j \in 1 .. Len(schema[m].fields) : schema[m].fields[j] \in FieldDescriptors
<1>1. schema[m] \in Descriptors
  BY DEF TypeOK
<1>2. schema[m].fields \in Seq(FieldDescriptors)
  BY <1>1 DEF Descriptors
<1> QED BY <1>2, LenProperties, ElementOfSeq

(* Planning a field lengthens the fields of the last frame by one and      *)
(* changes nothing else.                                                   *)
LEMMA PlannedFacts ==
  ASSUME TypeOK,
         NEW frames \in Seq(Frames), frames # <<>>,
         NEW f \in FieldDescriptors, NEW index \in Nat
  PROVE  /\ Planned(frames, f, index) \in Seq(Frames)
         /\ Len(Planned(frames, f, index)) = Len(frames)
         /\ \A i \in 1 .. Len(frames) :
              /\ Planned(frames, f, index)[i].name = frames[i].name
              /\ Planned(frames, f, index)[i].index = frames[i].index
              /\ i < Len(frames) => Planned(frames, f, index)[i].fields = frames[i].fields
              /\ i = Len(frames) =>
                   Len(Planned(frames, f, index)[i].fields) = Len(frames[i].fields) + 1
<1> DEFINE n == Len(frames)
<1> DEFINE plan == FieldPlan(schema[frames[n].name], f, index)
<1> DEFINE longer == Append(frames[n].fields, plan)
<1> DEFINE P == Planned(frames, f, index)
<1>1. n \in Nat \ {0} /\ n \in 1 .. n
  BY EmptySeq, LenProperties
<1>2. frames[n] \in Frames
  BY <1>1, ElementOfSeq
<1>3. frames[n].fields \in Seq(FieldPlans) /\ frames[n].name \in Types
  BY <1>2 DEF Frames
<1>4. plan \in FieldPlans
  <2>1. GroupOf(schema[frames[n].name], f) \in Nat
    BY DEF GroupOf, NoIndex
  <2> QED BY <2>1 DEF FieldPlan, FieldPlans, FieldDescriptors
<1> HIDE DEF plan
<1>5. longer \in Seq(FieldPlans) /\ Len(longer) = Len(frames[n].fields) + 1
  BY <1>3, <1>4, AppendProperties
<1>6. P = [frames EXCEPT ![n] = [frames[n] EXCEPT !.fields = longer]]
  BY DEF Planned, plan
<1> HIDE DEF longer, P
<1>7. [frames[n] EXCEPT !.fields = longer] \in Frames
  BY <1>2, <1>5 DEF Frames
<1>8. P \in Seq(Frames) /\ Len(P) = n
  BY <1>1, <1>6, <1>7, ExceptSeq
<1>9. ASSUME NEW i \in 1 .. n
      PROVE  /\ P[i].name = frames[i].name
             /\ P[i].index = frames[i].index
             /\ i < n => P[i].fields = frames[i].fields
             /\ i = n => Len(P[i].fields) = Len(frames[i].fields) + 1
  <2>1. CASE i = n
    <3>1. P[i] = [frames[n] EXCEPT !.fields = longer]
      BY <1>6, <2>1, LenProperties
    <3> QED BY <1>2, <1>5, <2>1, <3>1 DEF Frames
  <2>2. CASE i # n
    <3>1. P[i] = frames[i]
      BY <1>6, <2>2, LenProperties
    <3> QED BY <2>2, <3>1
  <2> QED BY <2>1, <2>2
<1> QED BY <1>8, <1>9 DEF P

(* The innermost call and the field it is at.                              *)
LEMMA TopFacts ==
  ASSUME Inv, Building
  PROVE  /\ Len(stack) \in Nat \ {0}
         /\ Len(stack) \in 1 .. Len(stack)
         /\ Top \in Frames
         /\ Top.name \in Names
         /\ Len(Top.fields) \in Nat
         /\ Len(Descriptor.fields) \in Nat
         /\ Len(Top.fields) <= Len(Descriptor.fields)
         /\ ~AllPlanned => NextField \in FieldDescriptors
<1> USE DEF Inv
<1>1. stack \in Seq(Frames)
  BY DEF TypeOK
<1>2. Len(stack) \in Nat \ {0} /\ Len(stack) \in 1 .. Len(stack)
  BY <1>1, EmptySeq, LenProperties DEF Building
<1>3. Top \in Frames
  BY <1>1, <1>2, ElementOfSeq DEF Top
<1>4. Top.name \in Types /\ Top.index \in Indices /\ Top.fields \in Seq(FieldPlans)
  BY <1>3 DEF Frames
<1>5. Len(Top.fields) \in Nat
  BY <1>4, LenProperties
<1>6. /\ Len(Descriptor.fields) \in Nat
      /\ \A j \in 1 .. Len(Descriptor.fields) : Descriptor.fields[j] \in FieldDescriptors
  BY <1>4, SchemaFacts DEF Descriptor
<1>7. Len(Top.fields) <= Len(Descriptor.fields)
  BY <1>2 DEF CallsInv, Top, Descriptor
<1>8. ~AllPlanned => NextField \in FieldDescriptors
  BY <1>5, <1>6, <1>7 DEF AllPlanned, NextField
<1>9. Top.name \in Names
  BY <1>2, <1>4 DEF OnePlanPerType, Top, Names
<1> QED BY <1>2, <1>3, <1>5, <1>6, <1>7, <1>8, <1>9

-----------------------------------------------------------------------------
(* Before the first call there is nothing to violate the invariant.        *)
LEMMA InitInv == Init => Inv
<1> SUFFICES ASSUME Init PROVE Inv
  OBVIOUS
<1>1. schema \in [Types -> Descriptors]
  BY SchemasAssumption DEF Init
<1>2. TypeOK
  BY <1>1 DEF Init, TypeOK, NoIndex
<1> QED BY <1>2 DEF Init, Inv, OnePlanPerType, IndexInv, CallsInv, FieldsInv, ReachInv,
           Names, Indices

(* A new message type is entered: it gets the next index and a call with   *)
(* no field planned.                                                       *)
LEMMA ReserveStep ==
  ASSUME Inv, NEW m \in Types, indices[m] = NoIndex, Reserve(m),
         messages = <<>> => m = root,
         messages # <<>> => Building /\ ~AllPlanned /\ NextField.value = m /\ m \in Messages
  PROVE  Inv'
<1> USE DEF Inv
<1> DEFINE n == Len(messages)
<1> DEFINE d == Len(stack)
<1> DEFINE frame == [name |-> m, index |-> n + 1, fields |-> <<>>]
<1>1. /\ messages' = Append(messages, m)
      /\ indices' = [indices EXCEPT ![m] = n + 1]
      /\ stack' = Append(stack, frame)
      /\ UNCHANGED <<schema, root, enums, enum_indices>>
  BY DEF Reserve
<1>2. /\ messages \in Seq(Types) /\ n \in Nat
      /\ stack \in Seq(Frames) /\ d \in Nat
  BY LenProperties DEF TypeOK
<1>3. /\ messages' \in Seq(Types)
      /\ Len(messages') = n + 1
      /\ \A i \in 1 .. n : messages'[i] = messages[i]
      /\ messages'[n + 1] = m
  BY <1>1, <1>2, AppendProperties
<1>4. \A i \in 1 .. d : stack[i] \in Frames
  BY <1>2, ElementOfSeq
<1>5. Indices \subseteq Indices' /\ n + 1 \in Indices'
  BY <1>2, <1>3 DEF Indices
<1>6. Frames \subseteq Frames' /\ frame \in Frames'
  <2>1. <<>> \in Seq(FieldPlans)
    BY EmptySeq
  <2> QED BY <1>5, <2>1 DEF Frames, FieldPlans, Types
<1> HIDE DEF frame
<1>7. stack \in Seq(Frames')
  BY <1>2, <1>6, SeqMonotonic, Zenon
<1>8. /\ stack' \in Seq(Frames')
      /\ Len(stack') = d + 1
      /\ \A i \in 1 .. d : stack'[i] = stack[i]
      /\ stack'[d + 1] = frame
  BY <1>1, <1>2, <1>6, <1>7, AppendProperties
<1>9. /\ frame.name = m
      /\ frame.index = n + 1
      /\ Len(frame.fields) = 0
  BY EmptySeq DEF frame
<1>10. m \notin Names
  BY <1>2 DEF Names, Indices, OnePlanPerType, NoIndex, TypeOK
<1>11. Names' = Names \cup {m}
  BY <1>2, <1>3 DEF Names, Indices
<1>12. \A i \in 1 .. d : stack[i].name \in Names
  BY <1>4 DEF OnePlanPerType, Names, Frames
<1>13. TypeOK'
  <2>1. indices' \in [Types -> 0 .. Len(messages')]
    BY <1>1, <1>2, <1>3 DEF TypeOK
  <2> QED BY <1>1, <1>3, <1>8, <2>1 DEF TypeOK
<1>14. OnePlanPerType'
  <2>1. \A i \in Indices' : indices'[messages'[i]] = i
    <3>1. \A i \in 1 .. n : messages[i] \in Names /\ messages[i] \in Types
      BY <1>2, ElementOfSeq DEF Names, Indices
    <3> QED BY <1>1, <1>2, <1>3, <1>10, <3>1 DEF Indices, OnePlanPerType, TypeOK
  <2>2. \A i, j \in 1 .. Len(stack') : stack'[i].name = stack'[j].name => i = j
    BY <1>2, <1>8, <1>9, <1>10, <1>12, SMTT(30) DEF OnePlanPerType
  <2>3. \A i \in 1 .. Len(stack') : messages'[stack'[i].index] = stack'[i].name
    <3>1. \A i \in 1 .. d : stack[i].index \in 1 .. n
      BY <1>4 DEF Frames, Indices
    <3> QED BY <1>2, <1>3, <1>8, <1>9, <3>1, SMTT(30) DEF OnePlanPerType
  <2>4. messages'[1] = root'
    BY <1>1, <1>2, <1>3, EmptySeq DEF OnePlanPerType
  <2> QED BY <2>1, <2>2, <2>3, <2>4 DEF OnePlanPerType
<1>15. IndexInv'
  BY <1>1, <1>2, <1>3 DEF IndexInv, TypeOK
<1>16. CallsInv'
  <2>1. messages' # <<>>
    BY <1>2, <1>3, EmptySeq
  <2>2. Len(schema[m].fields) \in Nat
    BY SchemaFacts
  <2>3. \A i \in 1 .. Len(stack') :
          Len(stack'[i].fields) <= Len(schema'[stack'[i].name].fields)
    BY <1>1, <1>2, <1>8, <1>9, <2>2 DEF CallsInv
  <2>4. ASSUME NEW i \in 1 .. Len(stack'), i < Len(stack')
        PROVE  /\ Len(stack'[i].fields) < Len(schema'[stack'[i].name].fields)
               /\ schema'[stack'[i].name].fields[Len(stack'[i].fields) + 1].value = stack'[i + 1].name
    <3>1. i \in 1 .. d /\ stack'[i] = stack[i]
      BY <1>2, <1>8, <2>4
    <3>2. CASE i = d
      <4>1. Building
        BY <1>2, <3>1, EmptySeq DEF Building
      <4>2. messages # <<>>
        BY <4>1 DEF CallsInv, Building
      <4>3. /\ Len(Top.fields) \in Nat /\ Len(Descriptor.fields) \in Nat
            /\ Len(Top.fields) <= Len(Descriptor.fields)
        BY <4>1, TopFacts
      <4>4. Len(Top.fields) < Len(Descriptor.fields)
        BY <4>2, <4>3 DEF AllPlanned
      <4>5. Descriptor.fields[Len(Top.fields) + 1].value = m
        BY <4>2 DEF NextField
      <4> QED BY <1>1, <1>8, <1>9, <3>1, <3>2, <4>4, <4>5 DEF Top, Descriptor
    <3>3. CASE i # d
      <4>1. i < d /\ i + 1 \in 1 .. d
        BY <1>2, <3>1, <3>3
      <4>2. stack'[i + 1] = stack[i + 1]
        BY <1>8, <4>1
      <4> QED BY <1>1, <3>1, <4>1, <4>2 DEF CallsInv
    <3> QED BY <3>2, <3>3
  <2> QED BY <2>1, <2>3, <2>4 DEF CallsInv
<1>17. FieldsInv'
  <2>1. \A i \in 1 .. Len(stack') : \A j \in 1 .. Len(stack'[i].fields) :
          schema'[stack'[i].name].fields[j].value \in Messages =>
            schema'[stack'[i].name].fields[j].value \in Names'
    BY <1>1, <1>2, <1>8, <1>9, <1>11 DEF FieldsInv
  <2>2. ASSUME NEW q \in Names', \A i \in 1 .. Len(stack') : stack'[i].name # q,
               NEW j \in 1 .. Len(schema'[q].fields), schema'[q].fields[j].value \in Messages
        PROVE  schema'[q].fields[j].value \in Names'
    <3>1. q # m
      BY <1>2, <1>8, <1>9, <2>2
    <3>2. q \in Names /\ \A i \in 1 .. d : stack[i].name # q
      BY <1>2, <1>8, <1>11, <2>2, <3>1
    <3> QED BY <1>1, <1>11, <2>2, <3>2 DEF FieldsInv
  <2> QED BY <2>1, <2>2 DEF FieldsInv
<1>18. ReachInv'
  <2> SUFFICES ASSUME NEW S \in SUBSET Types, root \in S, Closed(S)
               PROVE  m \in S /\ Names \subseteq S
    BY <1>1, <1>11 DEF ReachInv, Closed
  <2>1. Names \subseteq S
    BY DEF ReachInv
  <2>2. CASE messages = <<>>
    BY <2>1, <2>2
  <2>3. CASE messages # <<>>
    <3>1. /\ Top.name \in S
          /\ Len(Top.fields) \in Nat /\ Len(Descriptor.fields) \in Nat
          /\ Len(Top.fields) <= Len(Descriptor.fields)
      BY <2>1, <2>3, TopFacts
    <3>2. Len(Top.fields) + 1 \in 1 .. Len(Descriptor.fields)
      BY <2>3, <3>1 DEF AllPlanned
    <3> QED BY <2>1, <2>3, <3>1, <3>2 DEF Closed, Descriptor, NextField
  <2> QED BY <2>2, <2>3
<1> QED BY <1>13, <1>14, <1>15, <1>16, <1>17, <1>18

(* A field of the innermost call, or of its caller as it returns, has been *)
(* planned.                                                                *)
LEMMA AdvanceStep ==
  ASSUME Inv,
         NEW e \in 1 .. Len(stack),
         e = Len(stack) \/ (e = Len(stack) - 1 /\ AllPlanned),
         Len(stack[e].fields) < Len(schema[stack[e].name].fields),
         LET value == schema[stack[e].name].fields[Len(stack[e].fields) + 1].value
         IN  value \in Messages => value \in Names,
         stack' \in Seq(Frames), Len(stack') = e,
         \A i \in 1 .. e : /\ stack'[i].name = stack[i].name
                           /\ stack'[i].index = stack[i].index
                           /\ i < e => stack'[i].fields = stack[i].fields
                           /\ i = e => Len(stack'[i].fields) = Len(stack[i].fields) + 1,
         schema' = schema, root' = root, messages' = messages, indices' = indices,
         enums' \in Seq(Enums), enum_indices' \in [Enums -> 0 .. Len(enums')]
  PROVE  Inv'
<1> USE DEF Inv
<1> DEFINE d == Len(stack)
<1>1. stack \in Seq(Frames) /\ d \in Nat /\ e \in Nat
  BY LenProperties DEF TypeOK
<1>2. \A i \in 1 .. d : /\ stack[i].name \in Types
                        /\ stack[i].fields \in Seq(FieldPlans)
                        /\ Len(stack[i].fields) \in Nat
  <2>1. \A i \in 1 .. d : stack[i] \in Frames
    BY <1>1, ElementOfSeq
  <2>2. \A i \in 1 .. d : stack[i].name \in Types /\ stack[i].fields \in Seq(FieldPlans)
    BY <2>1 DEF Frames
  <2> QED BY <2>2, LenProperties
<1>6. /\ stack' \in Seq(Frames)
      /\ Len(stack') = e
      /\ \A i \in 1 .. e :
           /\ stack'[i].name = stack[i].name
           /\ stack'[i].index = stack[i].index
           /\ i < e => stack'[i].fields = stack[i].fields
           /\ i = e => Len(stack'[i].fields) = Len(stack[i].fields) + 1
  OBVIOUS
<1>7. Names' = Names /\ Indices' = Indices /\ Frames' = Frames
  BY DEF Names, Indices, Frames
<1>8. TypeOK'
  BY <1>6, <1>7 DEF TypeOK
<1>9. OnePlanPerType'
  <2>1. \A i \in Indices' : indices'[messages'[i]] = i
    BY <1>7 DEF OnePlanPerType
  <2>2. \A i, j \in 1 .. Len(stack') : stack'[i].name = stack'[j].name => i = j
    <3>1. \A i \in 1 .. e : i \in 1 .. d
      BY <1>1
    <3> QED BY <1>6, <3>1 DEF OnePlanPerType
  <2>3. \A i \in 1 .. Len(stack') : messages'[stack'[i].index] = stack'[i].name
    <3>1. ASSUME NEW i \in 1 .. e PROVE messages[stack'[i].index] = stack'[i].name
      <4>1. i \in 1 .. d
        BY <1>1
      <4>2. stack'[i].index = stack[i].index /\ stack'[i].name = stack[i].name
        BY <1>6
      <4> QED BY <4>1, <4>2 DEF OnePlanPerType
    <3> QED BY <1>6, <3>1
  <2> QED BY <2>1, <2>2, <2>3 DEF OnePlanPerType
<1>10. IndexInv'
  BY DEF IndexInv
<1>11. CallsInv'
  <2>1. messages' # <<>>
    BY <1>1, EmptySeq DEF CallsInv
  <2>2. ASSUME NEW i \in 1 .. Len(stack')
        PROVE  Len(stack'[i].fields) <= Len(schema'[stack'[i].name].fields)
    <3>1. i \in 1 .. d /\ Len(stack[i].fields) \in Nat /\ stack'[i].name = stack[i].name
      BY <1>1, <1>2, <1>6
    <3>2. Len(schema[stack[i].name].fields) \in Nat
      BY <1>2, <3>1, SchemaFacts
    <3>3. Len(stack[i].fields) <= Len(schema[stack[i].name].fields)
      BY <3>1 DEF CallsInv
    <3>4. CASE i = e
      BY <1>6, <3>1, <3>2, <3>4
    <3>5. CASE i # e
      BY <1>1, <1>6, <3>1, <3>3, <3>5
    <3> QED BY <3>4, <3>5
  <2>3. ASSUME NEW i \in 1 .. Len(stack'), i < Len(stack')
        PROVE  /\ Len(stack'[i].fields) < Len(schema'[stack'[i].name].fields)
               /\ schema'[stack'[i].name].fields[Len(stack'[i].fields) + 1].value = stack'[i + 1].name
    <3>1. i \in 1 .. d /\ i < d /\ i + 1 \in 1 .. e
      BY <1>1, <1>6, <2>3
    <3>2. /\ Len(stack[i].fields) < Len(schema[stack[i].name].fields)
          /\ schema[stack[i].name].fields[Len(stack[i].fields) + 1].value = stack[i + 1].name
      BY <3>1 DEF CallsInv
    <3>3. i \in 1 .. e /\ i < e
      BY <1>1, <1>6, <2>3
    <3>4. /\ stack'[i].name = stack[i].name /\ stack'[i].fields = stack[i].fields
          /\ stack'[i + 1].name = stack[i + 1].name
      BY <1>6, <3>1, <3>3
    <3> QED BY <3>2, <3>4
  <2> QED BY <2>1, <2>2, <2>3 DEF CallsInv
<1>12. FieldsInv'
  <2>1. ASSUME NEW i \in 1 .. Len(stack'), NEW j \in 1 .. Len(stack'[i].fields),
               schema'[stack'[i].name].fields[j].value \in Messages
        PROVE  schema'[stack'[i].name].fields[j].value \in Names'
    <3>1. i \in 1 .. d /\ stack'[i].name = stack[i].name
      BY <1>1, <1>6, SMTT(30)
    <3>2. CASE j \in 1 .. Len(stack[i].fields)
      BY <1>7, <2>1, <3>1, <3>2 DEF FieldsInv
    <3>3. CASE i = e /\ j = Len(stack[e].fields) + 1
      BY <1>7, <2>1, <3>1, <3>3
    <3>4. j \in 1 .. Len(stack[i].fields) \/ (i = e /\ j = Len(stack[e].fields) + 1)
      <4>1. i < e \/ i = e
        BY <1>1, <1>6
      <4>2. CASE i < e
        BY <1>6, <2>1, <4>2
      <4>3. CASE i = e
        <5>1. Len(stack[e].fields) \in Nat /\ j \in 1 .. Len(stack[e].fields) + 1
          BY <1>2, <1>6, <2>1, <4>3
        <5> QED BY <4>3, <5>1
      <4> QED BY <4>1, <4>2, <4>3
    <3> QED BY <3>2, <3>3, <3>4
  <2>2. ASSUME NEW q \in Names', \A i \in 1 .. Len(stack') : stack'[i].name # q,
               NEW j \in 1 .. Len(schema'[q].fields), schema'[q].fields[j].value \in Messages
        PROVE  schema'[q].fields[j].value \in Names'
    <3>1. q \in Names /\ \A i \in 1 .. e : stack[i].name # q
      BY <1>6, <1>7, <2>2
    <3>2. CASE \A i \in 1 .. d : stack[i].name # q
      BY <1>7, <2>2, <3>1, <3>2 DEF FieldsInv
    <3>3. CASE e = d - 1 /\ stack[d].name = q
      <4>1. AllPlanned /\ d \in 1 .. d
        BY <1>1, <3>3
      <4>2. Len(stack[d].fields) = Len(schema[q].fields)
        BY <3>3, <4>1 DEF AllPlanned, Top, Descriptor
      <4> QED BY <1>7, <2>2, <3>3, <4>1, <4>2 DEF FieldsInv
    <3> QED BY <1>1, <3>1, <3>2, <3>3
  <2> QED BY <2>1, <2>2 DEF FieldsInv
<1>13. ReachInv'
  BY <1>7 DEF ReachInv, Closed
<1> QED BY <1>8, <1>9, <1>10, <1>11, <1>12, <1>13

(* A field that needs no new plan keeps the invariant.                     *)
LEMMA FieldStep ==
  ASSUME Inv, PlanLeaf \/ PlanEnum \/ PlanKnown
  PROVE  Inv'
<1> DEFINE d == Len(stack)
<1>1. Building /\ ~AllPlanned
  BY DEF PlanLeaf, PlanEnum, PlanKnown
<1>2. /\ d \in 1 .. Len(stack)
      /\ Len(Top.fields) \in Nat /\ Len(Descriptor.fields) \in Nat
      /\ Len(Top.fields) <= Len(Descriptor.fields)
  BY <1>1, TopFacts
<1>3. Len(stack[d].fields) < Len(schema[stack[d].name].fields)
  BY <1>1, <1>2 DEF AllPlanned, Top, Descriptor
<1>4. NextField = schema[stack[d].name].fields[Len(stack[d].fields) + 1]
  BY DEF NextField, Top, Descriptor
<1>5. stack \in Seq(Frames)
  BY DEF Inv, TypeOK
<1>6. NextField.value \in Messages => NextField.value \in Names
  BY NamesAssumption
     DEF PlanLeaf, PlanEnum, PlanKnown, Types, Inv, IndexInv, Names, Indices
<1>7. PICK index \in Nat : stack' = Planned(stack, NextField, index)
  BY LenProperties DEF PlanLeaf, PlanEnum, PlanKnown, NoIndex, Inv, TypeOK, Types
<1>8. schema' = schema /\ root' = root /\ messages' = messages /\ indices' = indices
  BY DEF PlanLeaf, PlanEnum, PlanKnown
<1>9. enums' \in Seq(Enums) /\ enum_indices' \in [Enums -> 0 .. Len(enums')]
  <2>1. CASE UNCHANGED <<enums, enum_indices>>
    BY <2>1 DEF Inv, TypeOK
  <2>2. CASE PlanEnum
    <3>1. enums \in Seq(Enums) /\ Len(enums) \in Nat /\ enum_indices \in [Enums -> 0 .. Len(enums)]
      BY LenProperties DEF Inv, TypeOK
    <3>2. NextField.value \in Enums
      BY <2>2 DEF PlanEnum
    <3>3. CASE enum_indices[NextField.value] = NoIndex
      <4>1. /\ enums' = Append(enums, NextField.value)
            /\ enum_indices' = [enum_indices EXCEPT ![NextField.value] = Len(enums) + 1]
        BY <2>2, <3>3 DEF PlanEnum
      <4>2. enums' \in Seq(Enums) /\ Len(enums') = Len(enums) + 1
        BY <3>1, <3>2, <4>1, AppendProperties
      <4> QED BY <3>1, <4>1, <4>2
    <3>4. CASE enum_indices[NextField.value] # NoIndex
      BY <2>2, <3>1, <3>2, <3>4 DEF PlanEnum
    <3> QED BY <3>3, <3>4
  <2> QED BY <2>1, <2>2 DEF PlanLeaf, PlanKnown
<1>10. TypeOK /\ NextField \in FieldDescriptors /\ stack # <<>>
  BY <1>1, TopFacts DEF Inv, Building
<1>11. /\ Planned(stack, NextField, index) \in Seq(Frames)
       /\ Len(Planned(stack, NextField, index)) = Len(stack)
       /\ \A i \in 1 .. Len(stack) :
            /\ Planned(stack, NextField, index)[i].name = stack[i].name
            /\ Planned(stack, NextField, index)[i].index = stack[i].index
            /\ i < Len(stack) => Planned(stack, NextField, index)[i].fields = stack[i].fields
            /\ i = Len(stack) =>
                 Len(Planned(stack, NextField, index)[i].fields) = Len(stack[i].fields) + 1
  BY <1>5, <1>10, PlannedFacts, Zenon
<1> QED BY <1>2, <1>3, <1>4, <1>6, <1>7, <1>8, <1>9, <1>11, AdvanceStep

(* The field a call waits for is one of its type's descriptors.            *)
LEMMA CalledField ==
  ASSUME TypeOK, NEW call \in Frames,
         Len(call.fields) < Len(schema[call.name].fields)
  PROVE  schema[call.name].fields[Len(call.fields) + 1] \in FieldDescriptors
<1> DEFINE k == Len(call.fields)
           n == Len(schema[call.name].fields)
<1>1. call.name \in Types /\ k \in Nat
  BY LenProperties DEF Frames
<1>2. n \in Nat /\ \A j \in 1 .. n : schema[call.name].fields[j] \in FieldDescriptors
  BY <1>1, SchemaFacts
<1>3. k < n
  OBVIOUS
<1> HIDE DEF k, n
<1>4. k + 1 \in 1 .. n
  BY <1>1, <1>2, <1>3
<1> QED BY <1>2, <1>4 DEF k

(* So does completing a plan at the index taken for it.                    *)
LEMMA FinishStep ==
  ASSUME Inv, Finish
  PROVE  Inv'
<1> DEFINE d == Len(stack)
<1> DEFINE below == SubSeq(stack, 1, d - 1)
<1> DEFINE f == schema[below[Len(below)].name].fields[Len(below[Len(below)].fields) + 1]
<1>1. /\ Building /\ AllPlanned
      /\ stack' = IF below = <<>> THEN below ELSE Planned(below, f, Top.index)
      /\ UNCHANGED <<schema, root, messages, indices, enums, enum_indices>>
  BY DEF Finish
<1>2. d \in Nat \ {0} /\ d \in 1 .. d
  BY <1>1, TopFacts
<1>3. stack \in Seq(Frames)
  BY DEF Inv, TypeOK
<1>4. /\ below \in Seq(Frames)
      /\ Len(below) = d - 1
      /\ \A i \in 1 .. d - 1 : below[i] = stack[i]
  <2> DEFINE b == d - 1
  <2>1. b \in Nat
    BY <1>2
  <2>2. \A i \in 1 .. b : stack[i] \in Frames
    BY <1>2, <1>3, ElementOfSeq
  <2> HIDE DEF b
  <2>3. /\ SubSeq(stack, 1, b) \in Seq(Frames)
        /\ Len(SubSeq(stack, 1, b)) = b
        /\ \A i \in 1 .. b : SubSeq(stack, 1, b)[i] = stack[i]
    BY <1>3, <2>1, <2>2, SubSeqProperties, SMT
  <2> QED BY <2>3 DEF b
<1>5. enums' \in Seq(Enums) /\ enum_indices' \in [Enums -> 0 .. Len(enums')]
  BY <1>1 DEF Inv, TypeOK
<1>6. CASE d = 1
  <2> HIDE DEF below
  <2>1. stack' = <<>> /\ Len(stack') = 0
    <3>1. below = <<>>
      BY <1>4, <1>6, EmptySeq
    <3> QED BY <1>1, <3>1, EmptySeq
  <2>2. Names' = Names /\ Indices' = Indices /\ Frames' = Frames
    BY <1>1 DEF Names, Indices, Frames
  <2>3. TypeOK'
    BY <1>1, <2>1, <2>2, EmptySeq DEF Inv, TypeOK
  <2> DEFINE calls == 1 .. Len(stack')
  <2>8. calls = {}
    BY <2>1
  <2>9. schema' = schema /\ root' = root /\ messages' = messages /\ indices' = indices
    BY <1>1
  <2> HIDE DEF calls
  <2>4. OnePlanPerType'
    <3>1. \A i \in Indices' : indices'[messages'[i]] = i
      BY <2>2, <2>9 DEF Inv, OnePlanPerType
    <3>2. messages' # <<>> => messages'[1] = root'
      BY <2>9 DEF Inv, OnePlanPerType
    <3>3. \A i \in calls : messages'[stack'[i].index] = stack'[i].name
      BY <2>8
    <3>4. \A i, j \in calls : stack'[i].name = stack'[j].name => i = j
      BY <2>8
    <3> QED BY <3>1, <3>2, <3>3, <3>4 DEF OnePlanPerType, calls
  <2>5. IndexInv' /\ CallsInv'
    <3>1. IndexInv'
      BY <2>9 DEF Inv, IndexInv
    <3>2. \A i \in calls :
            /\ Len(stack'[i].fields) <= Len(schema'[stack'[i].name].fields)
            /\ i < Len(stack') =>
                 /\ Len(stack'[i].fields) < Len(schema'[stack'[i].name].fields)
                 /\ schema'[stack'[i].name].fields[Len(stack'[i].fields) + 1].value =
                      stack'[i + 1].name
      BY <2>8
    <3> QED BY <2>1, <3>1, <3>2 DEF CallsInv, calls
  <2>6. FieldsInv'
    <3> SUFFICES ASSUME NEW q \in Names, NEW j \in 1 .. Len(schema[q].fields),
                        schema[q].fields[j].value \in Messages
                 PROVE  schema[q].fields[j].value \in Names
      <4>1. \A i \in calls : \A j \in 1 .. Len(stack'[i].fields) :
              schema'[stack'[i].name].fields[j].value \in Messages =>
                schema'[stack'[i].name].fields[j].value \in Names'
        BY <2>8
      <4> QED BY <2>2, <2>9, <4>1 DEF FieldsInv, calls
    <3>1. CASE stack[1].name = q
      <4>1. Len(stack[1].fields) = Len(schema[q].fields)
        BY <1>1, <1>6, <3>1 DEF AllPlanned, Top, Descriptor
      <4> QED BY <1>2, <1>6, <3>1, <4>1 DEF Inv, FieldsInv
    <3>2. CASE stack[1].name # q
      BY <1>6, <3>2 DEF Inv, FieldsInv
    <3> QED BY <3>1, <3>2
  <2>7. ReachInv'
    BY <1>1, <2>2 DEF Inv, ReachInv, Closed
  <2> QED BY <2>3, <2>4, <2>5, <2>6, <2>7 DEF Inv
<1>7. CASE d # 1
  <2> DEFINE e == d - 1
  <2>1. e \in 1 .. d /\ e < d /\ e = Len(stack) - 1 /\ Len(below) = e
    BY <1>2, <1>4, <1>7
  <2>2. below[e] = stack[e]
    BY <1>2, <1>4, <1>7
  <2>3. f = schema[stack[e].name].fields[Len(stack[e].fields) + 1]
    BY <2>1, <2>2
  <2>4. /\ Len(stack[e].fields) < Len(schema[stack[e].name].fields)
        /\ f.value = stack[d].name
    BY <1>2, <2>1, <2>3 DEF Inv, CallsInv
  <2>5. f.value \in Names
    BY <1>1, <2>4, TopFacts DEF Top
  <2>6. below # <<>>
    <3> HIDE DEF below
    <3> QED BY <1>2, <1>4, <1>7, EmptySeq
  <2>7. stack' = Planned(below, f, Top.index)
    BY <1>1, <2>6
  <2>8. TypeOK /\ Top.index \in Nat
    BY <1>1, TopFacts DEF Frames, Indices, Inv
  <2>9. f \in FieldDescriptors
    <3>1. stack[e] \in Frames
      BY <1>3, <2>1, ElementOfSeq
    <3> HIDE DEF d, e, below, f
    <3> QED BY <2>3, <2>4, <2>8, <3>1, CalledField
  <2>10. below \in Seq(Frames) /\ \A i \in 1 .. e : below[i] = stack[i]
    BY <1>4
  <2> HIDE DEF below, f
  <2>11. /\ Planned(below, f, Top.index) \in Seq(Frames)
         /\ Len(Planned(below, f, Top.index)) = Len(below)
         /\ \A i \in 1 .. Len(below) :
              /\ Planned(below, f, Top.index)[i].name = below[i].name
              /\ Planned(below, f, Top.index)[i].index = below[i].index
              /\ i < Len(below) => Planned(below, f, Top.index)[i].fields = below[i].fields
              /\ i = Len(below) =>
                   Len(Planned(below, f, Top.index)[i].fields) = Len(below[i].fields) + 1
    BY <2>6, <2>8, <2>9, <2>10, PlannedFacts, Zenon
  <2> HIDE DEF e
  <2>12. /\ stack' \in Seq(Frames)
         /\ Len(stack') = e
         /\ \A i \in 1 .. e : /\ stack'[i].name = stack[i].name
                              /\ stack'[i].index = stack[i].index
                              /\ i < e => stack'[i].fields = stack[i].fields
                              /\ i = e => Len(stack'[i].fields) = Len(stack[i].fields) + 1
    BY <2>1, <2>7, <2>10, <2>11
  <2> QED BY <1>1, <1>5, <2>1, <2>3, <2>4, <2>5, <2>12, AdvanceStep
<1> QED BY <1>6, <1>7

(* The invariant is inductive.                                             *)
LEMMA NextInv == Inv /\ [Next]_vars => Inv'
<1> SUFFICES ASSUME Inv, [Next]_vars PROVE Inv'
  OBVIOUS
<1>1. CASE UNCHANGED vars
  <2>1. /\ schema' = schema /\ root' = root /\ messages' = messages /\ indices' = indices
        /\ enums' = enums /\ enum_indices' = enum_indices /\ stack' = stack
    BY <1>1 DEF vars
  <2>2. Names' = Names /\ Indices' = Indices /\ Frames' = Frames
    BY <2>1 DEF Names, Indices, Frames
  <2>3. TypeOK'
    BY <2>1, <2>2 DEF Inv, TypeOK
  <2>4. OnePlanPerType' /\ IndexInv'
    BY <2>1, <2>2 DEF Inv, OnePlanPerType, IndexInv
  <2>5. CallsInv'
    BY <2>1 DEF Inv, CallsInv
  <2>6. FieldsInv'
    BY <2>1, <2>2 DEF Inv, FieldsInv
  <2>7. ReachInv'
    BY <2>1, <2>2 DEF Inv, ReachInv, Closed
  <2> QED BY <2>3, <2>4, <2>5, <2>6, <2>7 DEF Inv
<1>2. CASE Build
  <2>1. indices[root] = NoIndex /\ root \in Types
    BY <1>2, EmptySeq DEF Build, Inv, IndexInv, TypeOK
  <2> QED BY <1>2, <2>1, ReserveStep DEF Build
<1>3. CASE PlanNew
  <2>1. messages # <<>>
    BY <1>3 DEF PlanNew, Building, Inv, CallsInv
  <2> QED BY <1>3, <2>1, ReserveStep DEF PlanNew, Types
<1>4. CASE PlanLeaf \/ PlanEnum \/ PlanKnown
  BY <1>4, FieldStep
<1>5. CASE Finish
  BY <1>5, FinishStep
<1> QED BY <1>1, <1>2, <1>3, <1>4, <1>5 DEF Next, Step, Terminated

(* The plan builder keeps its invariant, for every schema (plan.rs,        *)
(* Builder).                                                               *)
THEOREM Invariance == Spec => []Inv
BY InitInv, NextInv, PTL DEF Spec

(* No index of the builder ever points past the end of its table.          *)
THEOREM TypeCorrect == Spec => []TypeOK
<1>1. Inv => TypeOK
  BY DEF Inv
<1> QED BY <1>1, Invariance, PTL

(* A type is planned once and is on the stack at most once: recursion is   *)
(* bounded for every schema.                                               *)
THEOREM PlannedOnce == Spec => []OnePlanPerType
<1>1. Inv => OnePlanPerType
  BY DEF Inv
<1> QED BY <1>1, Invariance, PTL

(* The types planned are those the root reaches, no more and no less.      *)
THEOREM ReachableArePlanned == Spec => []PlansExactlyReachable
<1>1. Inv => PlansExactlyReachable
  <2> SUFFICES ASSUME Inv, Built PROVE root \in Names /\ Closed(Names)
    BY DEF Inv, ReachInv, PlansExactlyReachable
  <2>1. 1 \in Indices
    <3>1. messages \in Seq(Types) /\ messages # <<>>
      BY DEF Inv, TypeOK, Built
    <3> QED BY <3>1, EmptySeq, LenProperties DEF Indices
  <2>2. root \in Names
    BY <2>1 DEF Names, Inv, OnePlanPerType, Built
  <2>3. Len(stack) = 0
    BY EmptySeq DEF Built, Building
  <2> QED BY <2>2, <2>3 DEF Inv, FieldsInv, Closed
<1> QED BY <1>1, Invariance, PTL

-----------------------------------------------------------------------------
(* Positive numbers in strictly increasing order: there are no more of     *)
(* them than the last one says.                                            *)
LEMMA AtMostLast ==
  ASSUME NEW fields \in Seq(FieldPlans), fields # <<>>,
         \A i, j \in 1 .. Len(fields) : i < j => fields[i].number < fields[j].number
  PROVE  /\ fields[Len(fields)].number \in Nat
         /\ Len(fields) \in Nat \ {0}
         /\ Len(fields) <= fields[Len(fields)].number
         /\ \A i \in 1 .. Len(fields) : fields[i].number \in 1 .. fields[Len(fields)].number
<1> DEFINE n == Len(fields)
<1> DEFINE max == fields[n].number
<1>1. n \in Nat \ {0}
  BY EmptySeq
<1>2. \A i \in 1 .. n : fields[i].number \in Nat \ {0}
  <2>1. \A i \in 1 .. n : fields[i] \in FieldPlans
    BY ElementOfSeq
  <2> QED BY <2>1 DEF FieldPlans
<1>3. max \in Nat \ {0}
  BY <1>1, <1>2
<1>4. \A i \in 1 .. n : fields[i].number \in 1 .. max
  BY <1>1, <1>2, <1>3
<1>5. \A i, j \in 1 .. n : fields[i].number = fields[j].number => i = j
  BY <1>1, <1>2
<1> HIDE DEF n, max
<1> DEFINE f == [i \in 1 .. n |-> fields[i].number]
<1>6. f \in Injection(1 .. n, 1 .. max)
  BY <1>4, <1>5 DEF Injection, IsInjective
<1> HIDE DEF f
<1>7. /\ IsFiniteSet(1 .. n) /\ Cardinality(1 .. n) = n
      /\ IsFiniteSet(1 .. max) /\ Cardinality(1 .. max) = max
  BY <1>1, <1>3, FS_Interval
<1>8. Cardinality(1 .. n) <= Cardinality(1 .. max)
  BY <1>6, <1>7, FS_Injection, Zenon
<1>9. n <= max
  BY <1>7, <1>8
<1> QED BY <1>1, <1>3, <1>4, <1>9 DEF n, max

(* Looking a field number up in the index of any sorted list of fields     *)
(* gives its position; in particular no position in a dense table is cut   *)
(* off or mistaken for ABSENT.                                             *)
THEOREM FieldIndexFinds ==
  ASSUME NEW fields \in Seq(FieldPlans),
         \A i, j \in 1 .. Len(fields) : i < j => fields[i].number < fields[j].number,
         NEW plan, plan.by_number = NumberIndex(fields),
         NEW i \in 1 .. Len(fields)
  PROVE  field_index(plan, fields[i].number) = i
<1> DEFINE n == Len(fields)
<1> DEFINE max == fields[n].number
<1> DEFINE numbers == {fields[j].number : j \in 1 .. n}
<1> DEFINE at(m) == CHOOSE j \in 1 .. n : fields[j].number = m
<1>1. fields # <<>>
  BY EmptySeq
<1>2. /\ max \in Nat /\ n \in Nat \ {0} /\ n <= max
      /\ \A j \in 1 .. n : fields[j].number \in 1 .. max
  BY <1>1, AtMostLast
<1>3. at(fields[i].number) = i
  <2>1. \A j \in 1 .. n : fields[j].number = fields[i].number => j = i
    BY <1>2
  <2> QED BY <2>1
<1>4. fields[i].number \in numbers
  OBVIOUS
<1>5. CASE max < DenseLimit
  <2>1. plan.by_number =
          [dense |-> TRUE,
           table |-> [m \in 0 .. max |-> IF m \in numbers THEN at(m) % U16 ELSE ABSENT]]
    BY <1>1, <1>5 DEF NumberIndex
  <2> HIDE DEF numbers, max, at
  <2>2. fields[i].number \in 0 .. max
    BY <1>2
  <2>3. plan.by_number.table[fields[i].number] = i % U16
    BY <1>3, <1>4, <2>1, <2>2
  <2>4. i % U16 = i /\ i # ABSENT
    BY <1>2, <1>5, DenseLimitAssumption DEF U16, ABSENT
  <2>5. fields[i].number \in DOMAIN plan.by_number.table
    BY <2>1, <2>2
  <2> QED BY <2>3, <2>4, <2>5 DEF field_index
<1>6. CASE ~(max < DenseLimit)
  <2>1. plan.by_number = [dense |-> FALSE, table |-> [m \in numbers |-> at(m)]]
    BY <1>1, <1>6 DEF NumberIndex
  <2> HIDE DEF numbers, max, at
  <2>2. plan.by_number.table[fields[i].number] = i
    BY <1>3, <1>4, <2>1
  <2> QED BY <1>4, <2>1, <2>2 DEF field_index
<1> QED BY <1>5, <1>6

(* A number that no field has is found neither in the table nor in the map.*)
THEOREM FieldIndexRefuses ==
  ASSUME NEW fields \in Seq(FieldPlans), NEW plan, plan.by_number = NumberIndex(fields),
         NEW n \in Nat, \A i \in 1 .. Len(fields) : fields[i].number # n
  PROVE  field_index(plan, n) = NoIndex
BY DEF NumberIndex, field_index

-----------------------------------------------------------------------------
(* Field plan p refers to the declared field f of d: what it says of f, and *)
(* that its index is that of the type of f, among the message types msgs or *)
(* the enum types ens.                                                     *)
Matches(msgs, ens, p, d, f) ==
  /\ p.number = f.number /\ p.kind = f.kind /\ p.value = f.value
  /\ p.group = GroupOf(d, f)
  /\ f.value \in Messages => p.index \in 1 .. Len(msgs) /\ msgs[p.index] = f.value
  /\ f.value \in Enums => p.index \in 1 .. Len(ens) /\ ens[p.index] = f.value

(* The fields planned are the first ones declared, in their order.         *)
MatchAll(msgs, ens, planned, d) ==
  \A j \in 1 .. Len(planned) : Matches(msgs, ens, planned[j], d, d.fields[j])

(* Each enum type that has an index is at that index.                      *)
EnumsPlaced ==
  \A e \in Enums : enum_indices[e] # NoIndex =>
    enum_indices[e] \in 1 .. Len(enums) /\ enums[enum_indices[e]] = e

(* There is a plan for each message type that has an index.                *)
TablesInv ==
  /\ schema \in Schemas
  /\ plans \in Seq(Image(plans)) /\ Len(plans) = Len(messages)
  /\ EnumsPlaced

(* What the calls in progress have planned follows the descriptors.        *)
StackMatches ==
  \A i \in 1 .. Len(stack) : MatchAll(messages, enums, stack[i].fields, schema[stack[i].name])

(* So does what each other plan was completed from.                        *)
PlansComplete ==
  \A i \in Indices \ InProgress : \E planned \in Seq(FieldPlans) :
    /\ Len(planned) = Len(schema[messages[i]].fields)
    /\ MatchAll(messages, enums, planned, schema[messages[i]])
    /\ plans[i] = Complete(schema[messages[i]], planned)

PlansInv == TablesInv /\ StackMatches /\ PlansComplete

(* A sequence is one of its own elements.                                  *)
LEMMA OwnElements ==
  ASSUME NEW T, NEW s \in Seq(T)
  PROVE  s \in Seq(Image(s))
<1>1. s \in [1 .. Len(s) -> Image(s)] /\ Len(s) \in Nat
  BY DEF Image
<1> QED BY <1>1

(* s is what t begins with.                                                *)
Grows(s, t) ==
  /\ Len(s) \in Nat /\ Len(t) \in Nat /\ Len(s) <= Len(t)
  /\ \A i \in 1 .. Len(s) : t[i] = s[i]

(* References stay right when the tables grow.                             *)
LEMMA MatchGrows ==
  ASSUME NEW msgs, NEW msgs2, Grows(msgs, msgs2), NEW ens, NEW ens2, Grows(ens, ens2),
         NEW planned, NEW d, MatchAll(msgs, ens, planned, d)
  PROVE  MatchAll(msgs2, ens2, planned, d)
<1>1. 1 .. Len(msgs) \subseteq 1 .. Len(msgs2) /\ 1 .. Len(ens) \subseteq 1 .. Len(ens2)
  BY DEF Grows
<1>2. /\ \A i \in 1 .. Len(msgs) : msgs2[i] = msgs[i]
      /\ \A i \in 1 .. Len(ens) : ens2[i] = ens[i]
  BY DEF Grows
<1> QED BY <1>1, <1>2, Zenon DEF MatchAll, Matches

(* The field that Planned adds to the last frame.                          *)
LEMMA PlannedField ==
  ASSUME TypeOK, NEW frames \in Seq(Frames), frames # <<>>,
         NEW f \in FieldDescriptors, NEW index \in Nat
  PROVE  LET n == Len(frames)
             fields == frames[n].fields
         IN  /\ n \in 1 .. n
             /\ fields \in Seq(FieldPlans)
             /\ Planned(frames, f, index)[n].fields =
                  Append(fields, FieldPlan(schema[frames[n].name], f, index))
             /\ FieldPlan(schema[frames[n].name], f, index) \in FieldPlans
<1> DEFINE n == Len(frames)
<1> DEFINE plan == FieldPlan(schema[frames[n].name], f, index)
<1>1. n \in Nat \ {0} /\ n \in 1 .. n
  BY EmptySeq, LenProperties
<1>2. frames[n] \in Frames
  BY <1>1, ElementOfSeq
<1>3. frames[n].fields \in Seq(FieldPlans)
  BY <1>2 DEF Frames
<1>4. plan \in FieldPlans
  <2>1. GroupOf(schema[frames[n].name], f) \in Nat
    BY DEF GroupOf, NoIndex
  <2> QED BY <2>1 DEF FieldPlan, FieldPlans, FieldDescriptors
<1>5. Planned(frames, f, index) =
        [frames EXCEPT ![n] = [frames[n] EXCEPT !.fields = Append(frames[n].fields, plan)]]
  BY DEF Planned
<1> HIDE DEF plan
<1>6. Planned(frames, f, index)[n] = [frames[n] EXCEPT !.fields = Append(frames[n].fields, plan)]
  BY <1>1, <1>5, LenProperties
<1>7. Planned(frames, f, index)[n].fields = Append(frames[n].fields, plan)
  BY <1>2, <1>6 DEF Frames
<1> QED BY <1>1, <1>3, <1>4, <1>7 DEF plan

(* Planning the next field declared keeps the frames right, if its index   *)
(* is that of its type.                                                    *)
LEMMA PlannedMatches ==
  ASSUME TypeOK, NEW frames \in Seq(Frames), frames # <<>>,
         NEW f \in FieldDescriptors, NEW index \in Nat, NEW msgs, NEW ens,
         \A i \in 1 .. Len(frames) : MatchAll(msgs, ens, frames[i].fields, schema[frames[i].name]),
         f = schema[frames[Len(frames)].name].fields[Len(frames[Len(frames)].fields) + 1],
         f.value \in Messages => index \in 1 .. Len(msgs) /\ msgs[index] = f.value,
         f.value \in Enums => index \in 1 .. Len(ens) /\ ens[index] = f.value
  PROVE  /\ Len(Planned(frames, f, index)) = Len(frames)
         /\ \A i \in 1 .. Len(frames) :
              /\ Planned(frames, f, index)[i].index = frames[i].index
              /\ MatchAll(msgs, ens, Planned(frames, f, index)[i].fields,
                          schema[Planned(frames, f, index)[i].name])
<1> DEFINE n == Len(frames)
           P == Planned(frames, f, index)
           fields == frames[n].fields
           d == schema[frames[n].name]
           plan == FieldPlan(d, f, index)
<1>1. /\ P \in Seq(Frames)
      /\ Len(P) = n
      /\ \A i \in 1 .. n :
           /\ P[i].name = frames[i].name
           /\ P[i].index = frames[i].index
           /\ i < n => P[i].fields = frames[i].fields
           /\ i = n => Len(P[i].fields) = Len(frames[i].fields) + 1
  BY PlannedFacts, ZenonT(60)
<1>2. /\ n \in 1 .. n
      /\ fields \in Seq(FieldPlans)
      /\ P[n].fields = Append(fields, plan)
      /\ plan \in FieldPlans
  BY PlannedField, Zenon
<1>3. Matches(msgs, ens, plan, d, f)
  BY DEF Matches, FieldPlan
<1>4. MatchAll(msgs, ens, fields, d) /\ f = d.fields[Len(fields) + 1]
  BY <1>2
<1>5. n \in Nat
  BY LenProperties
<1> HIDE DEF plan, fields, P, d
<1>6. MatchAll(msgs, ens, P[n].fields, d)
  <2>1. /\ Len(fields) \in Nat /\ Len(P[n].fields) = Len(fields) + 1
        /\ \A j \in 1 .. Len(fields) : P[n].fields[j] = fields[j]
        /\ P[n].fields[Len(fields) + 1] = plan
    <3>1. Len(fields) \in Nat
      BY <1>2, LenProperties
    <3>2. /\ Len(Append(fields, plan)) = Len(fields) + 1
          /\ \A j \in 1 .. Len(fields) : Append(fields, plan)[j] = fields[j]
          /\ Append(fields, plan)[Len(fields) + 1] = plan
      BY <1>2, AppendProperties
    <3> QED BY <1>2, <3>1, <3>2
  <2>2. ASSUME NEW j \in 1 .. Len(P[n].fields) PROVE Matches(msgs, ens, P[n].fields[j], d, d.fields[j])
    <3>1. CASE j = Len(fields) + 1
      BY <1>3, <1>4, <2>1, <3>1
    <3>2. CASE j # Len(fields) + 1
      <4>1. j \in 1 .. Len(fields)
        BY <2>1, <2>2, <3>2, SMTT(30)
      <4> QED BY <1>4, <2>1, <4>1, Zenon DEF MatchAll
    <3> QED BY <3>1, <3>2
  <2> QED BY <2>2, Zenon DEF MatchAll
<1>7. ASSUME NEW i \in 1 .. n PROVE MatchAll(msgs, ens, P[i].fields, schema[P[i].name])
  <2>1. CASE i = n
    BY <1>1, <1>6, <2>1 DEF d
  <2>2. CASE i # n
    <3>1. i < n
      BY <1>5, <2>2, SMTT(30)
    <3> QED BY <1>1, <3>1
  <2> QED BY <2>1, <2>2
<1> QED BY <1>1, <1>7 DEF P

-----------------------------------------------------------------------------
(* Before the build there are no tables and no calls.                      *)
LEMMA PlansInit == Init => PlansInv
<1> SUFFICES ASSUME Init PROVE PlansInv
  OBVIOUS
<1>1. plans = <<>> /\ messages = <<>> /\ enums = <<>> /\ stack = <<>>
  BY DEF Init
<1>2. Len(plans) = 0 /\ Len(messages) = 0 /\ Len(stack) = 0
  BY <1>1, EmptySeq
<1>3. plans \in Seq(Image(plans))
  BY <1>1, EmptySeq
<1>4. TablesInv
  BY <1>2, <1>3 DEF Init, TablesInv, EnumsPlaced, NoIndex
<1>5. StackMatches
  BY <1>2 DEF StackMatches
<1>6. PlansComplete
  BY <1>2 DEF PlansComplete, Indices
<1> QED BY <1>4, <1>5, <1>6 DEF PlansInv

(* Reserve pushes a placeholder: what the fields already planned refer to  *)
(* keeps its index, and the new call has planned nothing.                  *)
LEMMA ReservePlans ==
  ASSUME Inv, PlansInv, NEW m \in Types, Reserve(m)
  PROVE  PlansInv'
<1> DEFINE n == Len(messages)
           d == Len(stack)
           frame == [name |-> m, index |-> n + 1, fields |-> <<>>]
<1>1. /\ messages' = Append(messages, m) /\ plans' = Append(plans, Placeholder)
      /\ stack' = Append(stack, frame)
      /\ schema' = schema /\ enums' = enums /\ enum_indices' = enum_indices
  BY DEF Reserve
<1>2. /\ messages \in Seq(Types) /\ n \in Nat
      /\ stack \in Seq(Frames) /\ d \in Nat
      /\ enums \in Seq(Enums) /\ Len(enums) \in Nat
  BY LenProperties DEF Inv, TypeOK
<1>3. /\ Len(messages') = n + 1
      /\ \A i \in 1 .. n : messages'[i] = messages[i]
  BY <1>1, <1>2, AppendProperties
<1>4. /\ Len(stack') = d + 1
      /\ \A i \in 1 .. d : stack'[i] = stack[i]
      /\ stack'[d + 1] = frame
  <2>1. stack \in Seq(Frames \cup {frame})
    BY <1>2, SeqMonotonic, Zenon
  <2>2. frame \in Frames \cup {frame}
    OBVIOUS
  <2> DEFINE F == Frames \cup {frame}
  <2> HIDE DEF frame, F
  <2> QED BY <1>1, <2>1, <2>2, AppendProperties DEF F
<1>5. frame.index = n + 1 /\ Len(frame.fields) = 0
  BY EmptySeq
<1> HIDE DEF frame
<1>6. /\ plans' \in Seq(Image(plans')) /\ Len(plans') = n + 1
      /\ \A i \in 1 .. n : plans'[i] = plans[i]
  <2> DEFINE T == Image(plans) \cup {Placeholder}
  <2>1. plans \in Seq(Image(plans)) /\ Len(plans) = n
    BY DEF PlansInv, TablesInv
  <2>2. plans \in Seq(T)
    BY <2>1, SeqMonotonic, Zenon
  <2>3. Placeholder \in T
    OBVIOUS
  <2> HIDE DEF T
  <2>4. /\ plans' \in Seq(T) /\ Len(plans') = n + 1
        /\ \A i \in 1 .. n : plans'[i] = plans[i]
    BY <1>1, <2>1, <2>2, <2>3, AppendProperties
  <2> QED BY <2>4, OwnElements
<1>7. ASSUME NEW planned, NEW desc, MatchAll(messages, enums, planned, desc)
      PROVE  MatchAll(messages', enums', planned, desc)
  <2>1. Grows(messages, messages') /\ Grows(enums, enums')
    BY <1>1, <1>2, <1>3 DEF Grows
  <2> QED BY <1>7, <2>1, MatchGrows, Zenon
<1>8. TablesInv'
  BY <1>1, <1>3, <1>6 DEF PlansInv, TablesInv, EnumsPlaced
<1>9. StackMatches'
  <2> SUFFICES ASSUME NEW i \in 1 .. Len(stack')
               PROVE  MatchAll(messages', enums', stack'[i].fields, schema'[stack'[i].name])
    BY DEF StackMatches
  <2>1. CASE i \in 1 .. d
    BY <1>1, <1>4, <1>7, <2>1 DEF PlansInv, StackMatches
  <2>2. CASE i = d + 1
    <3>1. Len(stack'[i].fields) = 0
      BY <1>4, <1>5, <2>2
    <3> QED BY <3>1 DEF MatchAll
  <2> QED BY <1>2, <1>4, <2>1, <2>2
<1>10. PlansComplete'
  <2> SUFFICES ASSUME NEW i \in (Indices \ InProgress)'
               PROVE  \E planned \in Seq(FieldPlans) :
                        /\ Len(planned) = Len(schema[messages[i]].fields)'
                        /\ MatchAll(messages', enums', planned, schema[messages[i]]')
                        /\ plans'[i] = Complete(schema[messages[i]]', planned)
    BY DEF PlansComplete
  <2>1. n + 1 \in InProgress' /\ InProgress \subseteq InProgress'
    <3>1. d + 1 \in 1 .. Len(stack') /\ 1 .. d \subseteq 1 .. Len(stack')
      BY <1>2, <1>4
    <3> QED BY <1>4, <1>5, <3>1 DEF InProgress
  <2>2. i \in 1 .. n /\ i \in Indices \ InProgress
    BY <1>2, <1>3, <2>1 DEF Indices
  <2>3. PICK planned \in Seq(FieldPlans) :
          /\ Len(planned) = Len(schema[messages[i]].fields)
          /\ MatchAll(messages, enums, planned, schema[messages[i]])
          /\ plans[i] = Complete(schema[messages[i]], planned)
    BY <2>2 DEF PlansInv, PlansComplete
  <2> QED BY <1>1, <1>3, <1>6, <1>7, <2>2, <2>3
<1> QED BY <1>8, <1>9, <1>10 DEF PlansInv

(* A step that plans a field, and perhaps adds an enum type.               *)
LEMMA AdvancePlans ==
  ASSUME Inv, PlansInv, Building, ~AllPlanned, NEW index \in Nat,
         stack' = Planned(stack, NextField, index),
         UNCHANGED <<schema, messages, plans>>,
         NextField.value \in Messages =>
           index \in 1 .. Len(messages) /\ messages[index] = NextField.value,
         NextField.value \in Enums =>
           index \in 1 .. Len(enums') /\ enums'[index] = NextField.value,
         Grows(enums, enums'), EnumsPlaced'
  PROVE  PlansInv'
<1> DEFINE d == Len(stack)
<1>1. /\ messages \in Seq(Types) /\ Len(messages) \in Nat
      /\ stack \in Seq(Frames) /\ d \in Nat
      /\ enums \in Seq(Enums) /\ Len(enums) \in Nat
  BY LenProperties DEF Inv, TypeOK
<1>2. ASSUME NEW planned, NEW desc, MatchAll(messages, enums, planned, desc)
      PROVE  MatchAll(messages, enums', planned, desc)
  <2>1. Grows(messages, messages)
    BY <1>1 DEF Grows
  <2> QED BY <1>2, <2>1, MatchGrows, Zenon
<1>3. TablesInv'
  BY DEF PlansInv, TablesInv
<1>4. TypeOK /\ NextField \in FieldDescriptors /\ stack # <<>>
  BY TopFacts DEF Inv, Building
<1>5. \A i \in 1 .. d : MatchAll(messages, enums', stack[i].fields, schema[stack[i].name])
  <2>1. \A i \in 1 .. d : MatchAll(messages, enums, stack[i].fields, schema[stack[i].name])
    BY DEF PlansInv, StackMatches
  <2> QED BY <1>2, <2>1
<1>6. NextField = schema[stack[d].name].fields[Len(stack[d].fields) + 1]
  BY DEF NextField, Top, Descriptor
<1>7. /\ Len(stack') = d
      /\ \A i \in 1 .. d :
           /\ stack'[i].index = stack[i].index
           /\ MatchAll(messages, enums', stack'[i].fields, schema[stack'[i].name])
  <2> DEFINE P == Planned(stack, NextField, index)
  <2>1. /\ Len(P) = Len(stack)
        /\ \A i \in 1 .. Len(stack) :
             /\ P[i].index = stack[i].index
             /\ MatchAll(messages, enums', P[i].fields, schema[P[i].name])
    <3> HIDE DEF P
    <3>1. stack \in Seq(Frames) /\ stack # <<>> /\ TypeOK /\ NextField \in FieldDescriptors
      BY <1>1, <1>4
    <3>2. \A i \in 1 .. Len(stack) : MatchAll(messages, enums', stack[i].fields, schema[stack[i].name])
      BY <1>5
    <3>3. NextField = schema[stack[Len(stack)].name].fields[Len(stack[Len(stack)].fields) + 1]
      BY <1>6
    <3>4. NextField.value \in Messages => index \in 1 .. Len(messages) /\ messages[index] = NextField.value
      OBVIOUS
    <3>5. NextField.value \in Enums => index \in 1 .. Len(enums') /\ enums'[index] = NextField.value
      OBVIOUS
    <3>6. Len(Planned(stack, NextField, index)) = Len(stack)
         /\ \A i \in 1 .. Len(stack) :
             /\ Planned(stack, NextField, index)[i].index = stack[i].index
             /\ MatchAll(messages, enums', Planned(stack, NextField, index)[i].fields, schema[Planned(stack, NextField, index)[i].name])
      BY <3>1, <3>2, <3>3, <3>4, <3>5, PlannedMatches, ZenonT(60)
    <3> QED BY <3>6 DEF P
  <2>2. stack' = P
    OBVIOUS
  <2> HIDE DEF P
  <2> QED BY <2>1, <2>2
<1>8. StackMatches'
  BY <1>7 DEF StackMatches
<1>9. InProgress' = InProgress /\ Indices' = Indices
  BY <1>7 DEF InProgress, Indices
<1>10. PlansComplete'
  <2> SUFFICES ASSUME NEW i \in Indices \ InProgress
               PROVE  \E planned \in Seq(FieldPlans) :
                        /\ Len(planned) = Len(schema[messages[i]].fields)
                        /\ MatchAll(messages, enums', planned, schema[messages[i]])
                        /\ plans[i] = Complete(schema[messages[i]], planned)
    BY <1>9 DEF PlansComplete
  <2>1. PICK planned \in Seq(FieldPlans) :
          /\ Len(planned) = Len(schema[messages[i]].fields)
          /\ MatchAll(messages, enums, planned, schema[messages[i]])
          /\ plans[i] = Complete(schema[messages[i]], planned)
    BY DEF PlansInv, PlansComplete
  <2> QED BY <1>2, <2>1
<1> QED BY <1>3, <1>8, <1>10 DEF PlansInv

(* A field whose type needs no further plan is planned as its descriptor   *)
(* says: a leaf, an enum that may be new, or a type with an index.         *)
LEMMA FieldPlansStep ==
  ASSUME Inv, PlansInv, PlanLeaf \/ PlanEnum \/ PlanKnown
  PROVE  PlansInv'
<1>1. Building /\ ~AllPlanned /\ UNCHANGED <<schema, messages, plans>>
  BY DEF PlanLeaf, PlanEnum, PlanKnown
<1>2. /\ enums \in Seq(Enums) /\ Len(enums) \in Nat /\ indices \in [Types -> 0 .. Len(messages)]
      /\ enum_indices \in [Enums -> 0 .. Len(enums)] /\ Len(messages) \in Nat
  BY LenProperties DEF Inv, TypeOK
<1>3. EnumsPlaced
  BY DEF PlansInv, TablesInv
<1>4. CASE PlanLeaf
  <2>1. NextField.value \notin Messages /\ NextField.value \notin Enums /\ NoIndex \in Nat
    BY <1>4, NamesAssumption DEF PlanLeaf, Types, NoIndex
  <2>2. stack' = Planned(stack, NextField, NoIndex) /\ enums' = enums /\ enum_indices' = enum_indices
    BY <1>4 DEF PlanLeaf
  <2>3. Grows(enums, enums') /\ EnumsPlaced'
    BY <1>2, <1>3, <2>2 DEF Grows, EnumsPlaced
  <2> QED BY <1>1, <2>1, <2>2, <2>3, AdvancePlans
<1>5. CASE PlanKnown
  <2> DEFINE index == indices[NextField.value]
  <2>1. NextField.value \in Messages /\ index # NoIndex /\ NextField.value \notin Enums
    BY <1>5, NamesAssumption DEF PlanKnown, Types
  <2>2. stack' = Planned(stack, NextField, index) /\ enums' = enums /\ enum_indices' = enum_indices
    BY <1>5 DEF PlanKnown
  <2>3. index \in 1 .. Len(messages) /\ messages[index] = NextField.value /\ index \in Nat
    BY <1>2, <2>1 DEF Inv, IndexInv, Types
  <2>4. Grows(enums, enums') /\ EnumsPlaced'
    BY <1>2, <1>3, <2>2 DEF Grows, EnumsPlaced
  <2> HIDE DEF index
  <2> QED BY <1>1, <2>1, <2>2, <2>3, <2>4, AdvancePlans
<1>6. CASE PlanEnum
  <2> DEFINE e == NextField.value
             index == IF enum_indices[e] = NoIndex THEN Len(enums) + 1 ELSE enum_indices[e]
  <2>1. /\ e \in Enums /\ e \notin Messages
        /\ enums' = IF enum_indices[e] = NoIndex THEN Append(enums, e) ELSE enums
        /\ enum_indices' = [enum_indices EXCEPT ![e] = index]
        /\ stack' = Planned(stack, NextField, index)
    BY <1>6, NamesAssumption DEF PlanEnum, Types
  <2>2. /\ Grows(enums, enums')
        /\ index \in 1 .. Len(enums') /\ enums'[index] = e
    <3>1. CASE enum_indices[e] = NoIndex
      <4>1. /\ Len(enums') = Len(enums) + 1
            /\ \A i \in 1 .. Len(enums) : enums'[i] = enums[i]
            /\ enums'[Len(enums) + 1] = e
        BY <1>2, <2>1, <3>1, AppendProperties
      <4> QED BY <1>2, <3>1, <4>1 DEF Grows
    <3>2. CASE enum_indices[e] # NoIndex
      BY <1>2, <1>3, <2>1, <3>2 DEF Grows, EnumsPlaced
    <3> QED BY <3>1, <3>2
  <2>3. EnumsPlaced'
    <3> SUFFICES ASSUME NEW x \in Enums, enum_indices'[x] # NoIndex
                 PROVE  enum_indices'[x] \in 1 .. Len(enums') /\ enums'[enum_indices'[x]] = x
      BY DEF EnumsPlaced
    <3>1. CASE x = e
      BY <1>2, <2>1, <2>2, <3>1
    <3>2. CASE x # e
      <4>1. enum_indices'[x] = enum_indices[x]
        BY <1>2, <2>1, <3>2
      <4> QED BY <1>2, <1>3, <2>2, <4>1, SMTT(30) DEF Grows, EnumsPlaced
    <3> QED BY <3>1, <3>2
  <2>4. index \in Nat
    BY <2>2
  <2> HIDE DEF index
  <2> QED BY <1>1, <2>1, <2>2, <2>3, <2>4, AdvancePlans
<1> QED BY <1>4, <1>5, <1>6

(* Finish replaces the placeholder by the complete plan of its own type,   *)
(* and the caller's field gets the index of that type.                     *)
LEMMA FinishPlans ==
  ASSUME Inv, PlansInv, Finish
  PROVE  PlansInv'
<1> DEFINE d == Len(stack)
           e == d - 1
           below == SubSeq(stack, 1, e)
           f == schema[below[Len(below)].name].fields[Len(below[Len(below)].fields) + 1]
<1>1. /\ Building /\ AllPlanned
      /\ plans' = [plans EXCEPT ![Top.index] = Complete(Descriptor, Top.fields)]
      /\ stack' = IF below = <<>> THEN below ELSE Planned(below, f, Top.index)
      /\ UNCHANGED <<schema, root, messages, indices, enums, enum_indices>>
  BY DEF Finish
<1>2. d \in Nat \ {0} /\ d \in 1 .. d /\ Top \in Frames
  BY <1>1, TopFacts
<1>3. /\ stack \in Seq(Frames) /\ messages \in Seq(Types) /\ Len(messages) \in Nat
      /\ enums \in Seq(Enums) /\ Len(enums) \in Nat
  BY LenProperties DEF Inv, TypeOK
<1>4. /\ below \in Seq(Frames)
      /\ Len(below) = e
      /\ \A i \in 1 .. e : below[i] = stack[i]
  <2>1. e \in Nat
    BY <1>2
  <2>2. \A i \in 1 .. e : stack[i] \in Frames
    BY <1>2, <1>3, ElementOfSeq
  <2> HIDE DEF e
  <2>3. /\ SubSeq(stack, 1, e) \in Seq(Frames)
        /\ Len(SubSeq(stack, 1, e)) = e
        /\ \A i \in 1 .. e : SubSeq(stack, 1, e)[i] = stack[i]
    BY <1>3, <2>1, <2>2, SubSeqProperties, SMT
  <2> QED BY <2>3
<1>5. Top.index \in Indices /\ Top.fields \in Seq(FieldPlans) /\ Top = stack[d]
      /\ messages[Top.index] = Top.name /\ Top.name \in Types
  BY <1>2 DEF Frames, Inv, OnePlanPerType, Top
<1>6. /\ Len(stack') = e
      /\ \A i \in 1 .. e :
           /\ stack'[i].index = stack[i].index
           /\ MatchAll(messages, enums, stack'[i].fields, schema[stack'[i].name])
  <2>1. CASE d = 1
    <3> HIDE DEF below
    <3>1. below = <<>>
      BY <1>4, <2>1, EmptySeq
    <3>2. Len(stack') = e
      BY <1>1, <1>4, <3>1
    <3>3. 1 .. e = {}
      BY <2>1
    <3> QED BY <3>2, <3>3
  <2>2. CASE d # 1
    <3>1. e \in 1 .. d /\ e \in 1 .. e /\ e < d /\ 1 .. e \subseteq 1 .. d /\ e + 1 = d
      <4> HIDE DEF d, below, f
      <4>1. d \in Nat /\ d >= 2
        BY <1>2, <2>2
      <4> QED BY <4>1
    <3>2. f = schema[stack[e].name].fields[Len(stack[e].fields) + 1]
      BY <1>4, <3>1
    <3>3. /\ Len(stack[e].fields) < Len(schema[stack[e].name].fields)
          /\ f.value = Top.name
      BY <1>5, <3>1, <3>2 DEF Inv, CallsInv
    <3>4. f \in FieldDescriptors
      <4>1. stack[e] \in Frames
        BY <1>3, <3>1, ElementOfSeq
      <4>2. TypeOK
        BY DEF Inv
      <4> HIDE DEF d, e, below, f
      <4> QED BY <3>2, <3>3, <4>1, <4>2, CalledField
    <3>5. TypeOK /\ Top.index \in Nat /\ Top.index \in 1 .. Len(messages)
      BY <1>5 DEF Inv, Indices
    <3>6. \A i \in 1 .. e : MatchAll(messages, enums, below[i].fields, schema[below[i].name])
      BY <1>4, <3>1 DEF PlansInv, StackMatches
    <3>7. f = schema[below[e].name].fields[Len(below[e].fields) + 1]
      BY <1>4
    <3>8. f.value \notin Enums
      BY <1>5, <3>3, NamesAssumption
    <3>9. below # <<>>
      <4> HIDE DEF below
      <4> QED BY <1>4, <3>1, EmptySeq
    <3>10. stack' = Planned(below, f, Top.index)
      BY <1>1, <3>9
    <3> HIDE DEF below, f, e
    <3>11. /\ below \in Seq(Frames)
           /\ \A i \in 1 .. Len(below) : MatchAll(messages, enums, below[i].fields, schema[below[i].name])
           /\ f = schema[below[Len(below)].name].fields[Len(below[Len(below)].fields) + 1]
           /\ f.value \in Messages =>
                Top.index \in 1 .. Len(messages) /\ messages[Top.index] = f.value
           /\ f.value \in Enums => Top.index \in 1 .. Len(enums) /\ enums[Top.index] = f.value
      BY <1>4, <1>5, <3>3, <3>5, <3>6, <3>7, <3>8
    <3>12. /\ Len(Planned(below, f, Top.index)) = Len(below)
           /\ \A i \in 1 .. Len(below) :
              /\ Planned(below, f, Top.index)[i].index = below[i].index
              /\ MatchAll(messages, enums, Planned(below, f, Top.index)[i].fields,
                          schema[Planned(below, f, Top.index)[i].name])
      BY <3>4, <3>5, <3>9, <3>11, PlannedMatches, ZenonT(60)
    <3> QED BY <1>4, <3>10, <3>12
  <2> QED BY <2>1, <2>2
<1>7. StackMatches'
  BY <1>1, <1>6 DEF StackMatches
<1>8. /\ plans \in Seq(Image(plans)) /\ Len(plans) = Len(messages)
      /\ plans' \in Seq(Image(plans')) /\ Len(plans') = Len(messages)
      /\ plans'[Top.index] = Complete(Descriptor, Top.fields)
      /\ \A i \in Indices : i # Top.index => plans'[i] = plans[i]
  <2> DEFINE c == Complete(Descriptor, Top.fields)
             T == Image(plans) \cup {c}
  <2>1. plans \in Seq(Image(plans)) /\ Len(plans) = Len(messages)
    BY DEF PlansInv, TablesInv
  <2>2. plans \in Seq(T)
    BY <2>1, SeqMonotonic, Zenon
  <2>3. c \in T
    OBVIOUS
  <2>4. plans' = [plans EXCEPT ![Top.index] = c] /\ Top.index \in 1 .. Len(plans)
    BY <1>1, <1>5, <2>1 DEF Indices
  <2> HIDE DEF T, c
  <2>5. plans' \in Seq(T) /\ Len(plans') = Len(plans)
    BY <2>2, <2>3, <2>4, ExceptSeq
  <2>6. plans'[Top.index] = c /\ \A i \in 1 .. Len(plans) : i # Top.index => plans'[i] = plans[i]
    BY <2>2, <2>4, LenProperties
  <2>7. plans' \in Seq(Image(plans'))
    BY <2>5, OwnElements
  <2> QED BY <2>1, <2>5, <2>6, <2>7 DEF c, Indices
<1>9. TablesInv'
  BY <1>1, <1>8 DEF PlansInv, TablesInv, EnumsPlaced
<1>10. PlansComplete'
  <2> SUFFICES ASSUME NEW i \in Indices, i \notin InProgress'
               PROVE  \E planned \in Seq(FieldPlans) :
                        /\ Len(planned) = Len(schema[messages[i]].fields)
                        /\ MatchAll(messages, enums, planned, schema[messages[i]])
                        /\ plans'[i] = Complete(schema[messages[i]], planned)
    BY <1>1 DEF PlansComplete, Indices
  <2>1. CASE i = Top.index
    <3>1. messages[i] = Top.name
      BY <1>5, <2>1
    <3>2. Len(Top.fields) = Len(schema[messages[i]].fields)
      BY <1>1, <3>1 DEF AllPlanned, Descriptor
    <3>3. MatchAll(messages, enums, Top.fields, schema[messages[i]])
      BY <1>2, <1>5, <3>1 DEF PlansInv, StackMatches
    <3>4. plans'[i] = Complete(schema[messages[i]], Top.fields)
      BY <1>8, <2>1, <3>1 DEF Descriptor
    <3> QED BY <1>5, <3>2, <3>3, <3>4
  <2>2. CASE i # Top.index
    <3>1. i \notin InProgress
      <4> SUFFICES ASSUME NEW j \in 1 .. d PROVE stack[j].index # i
        BY DEF InProgress
      <4>1. CASE j = d
        BY <1>5, <2>2, <4>1
      <4>2. CASE j # d
        <5>1. j \in 1 .. e /\ j \in 1 .. Len(stack')
          BY <1>2, <1>6, <4>2
        <5> QED BY <1>6, <5>1 DEF InProgress
      <4> QED BY <4>1, <4>2
    <3>2. PICK planned \in Seq(FieldPlans) :
            /\ Len(planned) = Len(schema[messages[i]].fields)
            /\ MatchAll(messages, enums, planned, schema[messages[i]])
            /\ plans[i] = Complete(schema[messages[i]], planned)
      BY <3>1 DEF PlansInv, PlansComplete
    <3>3. plans'[i] = plans[i]
      BY <1>8, <2>2
    <3> QED BY <3>2, <3>3
  <2> QED BY <2>1, <2>2
<1> QED BY <1>7, <1>9, <1>10 DEF PlansInv

(* The invariant of the plans is inductive relative to Inv.                *)
LEMMA PlansStep == Inv /\ PlansInv /\ [Next]_vars => PlansInv'
<1> SUFFICES ASSUME Inv, PlansInv, [Next]_vars PROVE PlansInv'
  OBVIOUS
<1>1. CASE UNCHANGED vars
  <2>1. /\ schema' = schema /\ messages' = messages /\ plans' = plans
        /\ enums' = enums /\ enum_indices' = enum_indices /\ stack' = stack
    BY <1>1 DEF vars
  <2>2. Indices' = Indices /\ InProgress' = InProgress
    BY <2>1 DEF Indices, InProgress
  <2>3. TablesInv'
    BY <2>1 DEF PlansInv, TablesInv, EnumsPlaced
  <2>4. StackMatches'
    BY <2>1 DEF PlansInv, StackMatches
  <2>5. PlansComplete'
    BY <2>1, <2>2 DEF PlansInv, PlansComplete
  <2> QED BY <2>3, <2>4, <2>5 DEF PlansInv
<1>2. CASE Build
  <2>1. root \in Types
    BY DEF Inv, TypeOK
  <2> QED BY <1>2, <2>1, ReservePlans DEF Build
<1>3. CASE PlanNew
  BY <1>3, ReservePlans DEF PlanNew, Types
<1>4. CASE PlanLeaf \/ PlanEnum \/ PlanKnown
  BY <1>4, FieldPlansStep
<1>5. CASE Finish
  BY <1>5, FinishPlans
<1> QED BY <1>1, <1>2, <1>3, <1>4, <1>5 DEF Next, Step, Terminated

(* The plans of the types and the tables keep their invariant.             *)
THEOREM PlansInvariance == Spec => [](Inv /\ PlansInv)
<1>1. Init => Inv /\ PlansInv
  BY InitInv, PlansInit
<1>2. Inv /\ PlansInv /\ [Next]_vars => (Inv /\ PlansInv)'
  BY NextInv, PlansStep
<1> QED BY <1>1, <1>2, PTL DEF Spec

-----------------------------------------------------------------------------
(* Sorting fields whose numbers differ puts the same fields in order.      *)
LEMMA SortProperties ==
  ASSUME NEW fields \in Seq(FieldPlans),
         \A i, j \in 1 .. Len(fields) : fields[i].number = fields[j].number => i = j
  PROVE  /\ SortByNumber(fields) \in Seq(FieldPlans)
         /\ Len(SortByNumber(fields)) = Len(fields)
         /\ \A i, j \in 1 .. Len(fields) :
              i < j => SortByNumber(fields)[i].number < SortByNumber(fields)[j].number
         /\ \A i \in 1 .. Len(fields) : \E j \in 1 .. Len(fields) : SortByNumber(fields)[i] = fields[j]
         /\ \A j \in 1 .. Len(fields) : \E i \in 1 .. Len(fields) : SortByNumber(fields)[i] = fields[j]
<1> DEFINE n == Len(fields)
           numbers == {f.number : f \in Image(fields)}
           number == [i \in 1 .. n |-> fields[i].number]
           sorted == SortByNumber(fields)
<1>1. n \in Nat /\ \A i \in 1 .. n : fields[i] \in FieldPlans /\ fields[i].number \in Nat
  <2>1. \A i \in 1 .. n : fields[i] \in FieldPlans
    BY ElementOfSeq
  <2> QED BY <2>1, LenProperties DEF FieldPlans
<1>2. Image(fields) = {fields[i] : i \in 1 .. n}
  BY LenProperties DEF Image
<1>3. numbers = {fields[i].number : i \in 1 .. n} /\ numbers \subseteq Nat
  BY <1>1, <1>2
<1>4. number \in Surjection(1 .. n, numbers) /\ number \in Injection(1 .. n, numbers)
  <2>1. number \in Surjection(1 .. n, numbers)
    BY <1>3 DEF Surjection
  <2> QED BY <2>1 DEF Injection, IsInjective, Surjection
<1>5. IsFiniteSet(numbers) /\ Cardinality(numbers) = n
  <2> HIDE DEF n, numbers, number
  <2>1. IsFiniteSet(1 .. n) /\ Cardinality(1 .. n) = n
    <3>1. IsFiniteSet(1 .. n) /\ Cardinality(1 .. n) = IF 1 > n THEN 0 ELSE n - 1 + 1
      BY <1>1, FS_Interval
    <3> QED BY <1>1, <3>1
  <2> QED BY <1>4, <2>1, FS_Surjection
<1>6. /\ \A k \in 1 .. n : Nth(numbers, k) \in numbers
      /\ \A k, l \in 1 .. n : k < l => Nth(numbers, k) < Nth(numbers, l)
      /\ \A i \in numbers : \E k \in 1 .. n : Nth(numbers, k) = i
  <2> HIDE DEF n, numbers
  <2> QED BY <1>3, <1>5, NthProperties
<1>7. sorted = [k \in 1 .. n |-> CHOOSE f \in Image(fields) : f.number = Nth(numbers, k)]
  BY DEF SortByNumber
<1>8. ASSUME NEW k \in 1 .. n
      PROVE  sorted[k].number = Nth(numbers, k) /\ \E j \in 1 .. n : sorted[k] = fields[j]
  <2>1. PICK j \in 1 .. n : fields[j].number = Nth(numbers, k)
    <3>1. Nth(numbers, k) \in numbers
      BY <1>6
    <3> HIDE DEF sorted, number, n
    <3> QED BY <1>3, <3>1
  <2>2. \E f \in Image(fields) : f.number = Nth(numbers, k)
    BY <1>2, <2>1
  <2> HIDE DEF sorted, numbers
  <2>3. sorted[k] \in Image(fields) /\ sorted[k].number = Nth(numbers, k)
    BY <1>7, <2>2
  <2> QED BY <1>2, <2>3
<1>9. ASSUME NEW j \in 1 .. n PROVE \E k \in 1 .. n : sorted[k] = fields[j]
  <2>1. PICK k \in 1 .. n : Nth(numbers, k) = fields[j].number
    BY <1>3, <1>6
  <2>2. PICK i \in 1 .. n : sorted[k] = fields[i]
    BY <1>8
  <2>3. fields[i].number = fields[j].number
    BY <1>8, <2>1, <2>2
  <2>4. i = j
    BY <2>3
  <2> QED BY <2>2, <2>4
<1>10. sorted \in [1 .. n -> FieldPlans]
  <2> HIDE DEF sorted, numbers
  <2>1. \A k \in 1 .. n : sorted[k] \in FieldPlans
    BY <1>1, <1>8
  <2> QED BY <1>7, <2>1
<1>11. sorted \in Seq(FieldPlans) /\ Len(sorted) = n
  <2> HIDE DEF sorted
  <2> QED BY <1>1, <1>10
<1> HIDE DEF sorted, numbers
<1>12. ASSUME NEW i \in 1 .. n, NEW j \in 1 .. n, i < j PROVE sorted[i].number < sorted[j].number
  <2>1. sorted[i].number = Nth(numbers, i) /\ sorted[j].number = Nth(numbers, j)
    BY <1>8
  <2> QED BY <1>6, <1>12, <2>1
<1> QED BY <1>8, <1>9, <1>11, <1>12 DEF sorted

(* What is known of a complete plan: its fields are the declared ones in   *)
(* order of their numbers.                                                 *)
LEMMA PlanFacts ==
  ASSUME Inv, PlansInv, NEW i \in Indices \ InProgress
  PROVE  LET m == messages[i]
             d == schema[m]
             fields == plans[i].fields
             n == Len(d.fields)
         IN  /\ m \in Types /\ n \in Nat
             /\ fields \in Seq(FieldPlans) /\ Len(fields) = n
             /\ \A k, l \in 1 .. n : k < l => fields[k].number < fields[l].number
             /\ \A k \in 1 .. n : \E j \in 1 .. n :
                  Matches(messages, enums, fields[k], d, d.fields[j])
             /\ \A j \in 1 .. n : \E k \in 1 .. n :
                  Matches(messages, enums, fields[k], d, d.fields[j])
             /\ plans[i].by_number = NumberIndex(fields)
             /\ plans[i].oneofs = [g \in 1 .. Len(RealGroups(d)) |->
                     [name |-> RealGroups(d)[g].name,
                      fields |-> {k \in 1 .. n : fields[k].group = g}]]
<1> DEFINE m == messages[i]
           d == schema[m]
           fields == plans[i].fields
           n == Len(d.fields)
<1>1. m \in Types
  <2>1. messages \in Seq(Types) /\ i \in 1 .. Len(messages)
    BY DEF Inv, TypeOK, Indices
  <2> QED BY <2>1, ElementOfSeq
<1>2. n \in Nat
  BY <1>1, SchemaFacts DEF Inv
<1>3. PICK planned \in Seq(FieldPlans) :
        Len(planned) = n /\ MatchAll(messages, enums, planned, d) /\ plans[i] = Complete(d, planned)
  BY DEF PlansInv, PlansComplete
<1> DEFINE sorted == SortByNumber(planned)
<1>4. \A j \in 1 .. n : Matches(messages, enums, planned[j], d, d.fields[j])
  BY <1>3 DEF MatchAll
<1>5. \A j, k \in 1 .. n : planned[j].number = planned[k].number => j = k
  <2>1. schema \in Schemas
    BY DEF PlansInv, TablesInv
  <2>2. \A j, k \in 1 .. n : d.fields[j].number = d.fields[k].number => j = k
    BY <1>1, <2>1, DistinctAssumption
  <2>3. \A j \in 1 .. n : planned[j].number = d.fields[j].number
    BY <1>4, Zenon DEF Matches
  <2> HIDE DEF d, n
  <2> QED BY <2>2, <2>3
<1>6. /\ sorted \in Seq(FieldPlans)
      /\ Len(sorted) = n
      /\ \A k, l \in 1 .. n : k < l => sorted[k].number < sorted[l].number
      /\ \A k \in 1 .. n : \E j \in 1 .. n : sorted[k] = planned[j]
      /\ \A j \in 1 .. n : \E k \in 1 .. n : sorted[k] = planned[j]
  <2> HIDE DEF d, n
  <2> QED BY <1>3, <1>5, SortProperties
<1>7. /\ plans[i].fields = sorted
      /\ plans[i].by_number = NumberIndex(sorted)
      /\ plans[i].oneofs = [g \in 1 .. Len(RealGroups(d)) |->
                     [name |-> RealGroups(d)[g].name,
                      fields |-> {k \in 1 .. n : sorted[k].group = g}]]
  BY <1>3, <1>6 DEF Complete
<1> HIDE DEF sorted, d, n
<1>8. ASSUME NEW k \in 1 .. n PROVE \E j \in 1 .. n : Matches(messages, enums, sorted[k], d, d.fields[j])
  <2>1. PICK j \in 1 .. n : sorted[k] = planned[j]
    BY <1>6
  <2> QED BY <1>4, <2>1
<1>9. ASSUME NEW j \in 1 .. n PROVE \E k \in 1 .. n : Matches(messages, enums, sorted[k], d, d.fields[j])
  <2>1. PICK k \in 1 .. n : sorted[k] = planned[j]
    BY <1>6
  <2> QED BY <1>4, <2>1
<1> QED BY <1>1, <1>2, <1>6, <1>7, <1>8, <1>9 DEF d, n

(* A complete plan has the declared fields, in order of their numbers, and *)
(* each refers to the plan of its own type, for every schema.              *)
THEOREM PlansFollow == Spec => []CompletePlansFollowDescriptors
<1>1. Inv /\ PlansInv => CompletePlansFollowDescriptors
  <2> SUFFICES ASSUME Inv, PlansInv, NEW i \in Indices \ InProgress
               PROVE  Follows(plans[i], messages[i])
    BY DEF CompletePlansFollowDescriptors
  <2> DEFINE d == schema[messages[i]]
             fields == plans[i].fields
             n == Len(d.fields)
  <2>1. /\ messages[i] \in Types /\ n \in Nat
        /\ fields \in Seq(FieldPlans) /\ Len(fields) = n
        /\ \A k, l \in 1 .. n : k < l => fields[k].number < fields[l].number
        /\ \A j \in 1 .. n : \E k \in 1 .. n :
                  Matches(messages, enums, fields[k], d, d.fields[j])
    BY PlanFacts
  <2>2. ASSUME NEW f \in Image(d.fields)
        PROVE  \E g \in Image(fields) :
                 /\ g.number = f.number /\ g.kind = f.kind /\ g.value = f.value
                 /\ f.value \in Messages => g.index \in Indices /\ messages[g.index] = f.value
                 /\ f.value \in Enums => g.index \in 1 .. Len(enums) /\ enums[g.index] = f.value
    <3>1. d.fields \in Seq(FieldDescriptors)
      BY <2>1, SchemaFacts DEF Inv
    <3>2. PICK j \in 1 .. n : f = d.fields[j]
      BY <3>1, LenProperties DEF Image
    <3>3. PICK k \in 1 .. n : Matches(messages, enums, fields[k], d, f)
      BY <2>1, <3>2
    <3>4. fields[k] \in Image(fields)
      BY <2>1, LenProperties DEF Image
    <3> QED BY <3>3, <3>4 DEF Matches, Indices
  <2> QED BY <2>1, <2>2 DEF Follows
<1> QED BY <1>1, PlansInvariance, PTL

(* field_index of a complete plan finds exactly the declared numbers.      *)
THEOREM NumbersAreFound == Spec => []FieldIndexExact
<1>1. Inv /\ PlansInv => FieldIndexExact
  <2> SUFFICES ASSUME Inv, PlansInv, NEW i \in Indices \ InProgress, NEW number \in 0 .. DenseLimit + 2
               PROVE  IF \E f \in Image(schema[messages[i]].fields) : f.number = number
                      THEN /\ field_index(plans[i], number) \in 1 .. Len(plans[i].fields)
                           /\ plans[i].fields[field_index(plans[i], number)].number = number
                      ELSE field_index(plans[i], number) = NoIndex
    BY DEF FieldIndexExact
  <2> DEFINE d == schema[messages[i]]
             fields == plans[i].fields
             n == Len(d.fields)
  <2>1. /\ messages[i] \in Types /\ n \in Nat
        /\ fields \in Seq(FieldPlans) /\ Len(fields) = n
        /\ \A k, l \in 1 .. n : k < l => fields[k].number < fields[l].number
        /\ \A k \in 1 .. n : \E j \in 1 .. n :
                  Matches(messages, enums, fields[k], d, d.fields[j])
        /\ \A j \in 1 .. n : \E k \in 1 .. n :
                  Matches(messages, enums, fields[k], d, d.fields[j])
        /\ plans[i].by_number = NumberIndex(fields)
    BY PlanFacts
  <2>2. d.fields \in Seq(FieldDescriptors)
    BY <2>1, SchemaFacts DEF Inv
  <2>3. number \in Nat
    BY DenseLimitAssumption
  <2>4. CASE \E f \in Image(d.fields) : f.number = number
    <3>1. PICK j \in 1 .. n : d.fields[j].number = number
      BY <2>2, <2>4, LenProperties DEF Image
    <3>2. PICK k \in 1 .. n : fields[k].number = number
      BY <2>1, <3>1 DEF Matches
    <3> DEFINE plan == plans[i]
    <3>3. field_index(plan, fields[k].number) = k
      <4> HIDE DEF fields, d, n, plan
      <4>1. plan.by_number = NumberIndex(fields)
        BY <2>1 DEF plan
      <4> QED BY <2>1, <4>1, FieldIndexFinds
    <3> QED BY <2>1, <2>4, <3>2, <3>3
  <2>5. CASE ~ \E f \in Image(d.fields) : f.number = number
    <3>1. \A k \in 1 .. n : fields[k].number # number
      <4> SUFFICES ASSUME NEW k \in 1 .. n, fields[k].number = number PROVE FALSE
        OBVIOUS
      <4>1. PICK j \in 1 .. n : d.fields[j].number = number
        BY <2>1 DEF Matches
      <4> QED BY <2>2, <2>5, <4>1, LenProperties DEF Image
    <3> DEFINE plan == plans[i]
    <3>2. field_index(plan, number) = NoIndex
      <4>1. plan.by_number = NumberIndex(fields)
        BY <2>1
      <4> HIDE DEF fields, d, n, plan
      <4> QED BY <2>1, <2>3, <3>1, <4>1, FieldIndexRefuses
    <3> QED BY <2>5, <3>2
  <2> QED BY <2>4, <2>5
<1> QED BY <1>1, PlansInvariance, PTL

(* The real groups of a descriptor are those not synthetic, each once.     *)
LEMMA GroupFacts ==
  ASSUME PlansInv, NEW m \in Types
  PROVE  LET d == schema[m]
             real == RealGroups(d)
         IN  /\ \A g, h \in 1 .. Len(real) : real[g].name = real[h].name => g = h
             /\ {real[g].name : g \in 1 .. Len(real)} =
                  {g.name : g \in {h \in Image(d.groups) : ~h.synthetic}}
<1> DEFINE d == schema[m]
           real == RealGroups(d)
           G == [name : Groups, synthetic : BOOLEAN]
           I == {g \in 1 .. Len(d.groups) : ~d.groups[g].synthetic}
<1>1. schema \in Schemas
  BY DEF PlansInv, TablesInv
<1>2. d \in Descriptors
  BY <1>1, SchemasAssumption
<1>3. d.groups \in Seq(G)
  BY <1>2 DEF Descriptors
<1>4. \A g, h \in 1 .. Len(d.groups) : d.groups[g].name = d.groups[h].name => g = h
  BY <1>1, DistinctAssumption
<1>5. real = Subsequence(d.groups, I) /\ I \in SUBSET (1 .. Len(d.groups))
  BY DEF RealGroups
<1> HIDE DEF real, G
<1>6. /\ real \in Seq(G)
      /\ Len(real) = Cardinality(I)
      /\ \A k \in 1 .. Cardinality(I) : Nth(I, k) \in I /\ real[k] = d.groups[Nth(I, k)]
      /\ \A k, l \in 1 .. Cardinality(I) : k < l => Nth(I, k) < Nth(I, l)
      /\ \A g \in I : \E k \in 1 .. Cardinality(I) : Nth(I, k) = g
  <2> HIDE DEF d, I
  <2> QED BY <1>3, <1>5, SubsequenceProperties
<1>7. \A g, h \in 1 .. Len(real) : real[g].name = real[h].name => g = h
  <2> SUFFICES ASSUME NEW g \in 1 .. Len(real), NEW h \in 1 .. Len(real), real[g].name = real[h].name
               PROVE  g = h
    OBVIOUS
  <2>1. Nth(I, g) \in 1 .. Len(d.groups) /\ Nth(I, h) \in 1 .. Len(d.groups)
    BY <1>6
  <2>2. Nth(I, g) = Nth(I, h)
    <3> HIDE DEF I, d
    <3> QED BY <1>4, <1>6, <2>1
  <2>3. ~(g < h) /\ ~(h < g)
    <3> HIDE DEF I, d
    <3>1. Nth(I, g) \in Nat /\ Nth(I, h) \in Nat
      BY <2>1
    <3> QED BY <1>6, <2>2, <3>1
  <2> QED BY <2>3
<1>8. Image(d.groups) = {d.groups[g] : g \in 1 .. Len(d.groups)}
  BY <1>3, LenProperties DEF Image
<1>9. ASSUME NEW g \in 1 .. Len(real)
      PROVE  \E h \in Image(d.groups) : ~h.synthetic /\ h.name = real[g].name
  <2>1. Nth(I, g) \in I /\ real[g] = d.groups[Nth(I, g)]
    BY <1>6
  <2> QED BY <1>8, <2>1
<1>10. ASSUME NEW h \in Image(d.groups), ~h.synthetic
       PROVE  \E g \in 1 .. Len(real) : real[g].name = h.name
  <2>1. PICK x \in I : h = d.groups[x]
    BY <1>8, <1>10
  <2>2. PICK g \in 1 .. Len(real) : Nth(I, g) = x
    BY <1>6
  <2> QED BY <1>6, <2>1, <2>2
<1>11. {real[g].name : g \in 1 .. Len(real)} = {g.name : g \in {h \in Image(d.groups) : ~h.synthetic}}
  <2> HIDE DEF I, d
  <2> QED BY <1>9, <1>10
<1> QED BY <1>7, <1>11 DEF real

(* The oneofs of a complete plan have exactly their declared members.      *)
THEOREM MembersAreListed == Spec => []OneofsHaveTheirMembers
<1>1. Inv /\ PlansInv => OneofsHaveTheirMembers
  <2> SUFFICES ASSUME Inv, PlansInv, NEW i \in Indices \ InProgress
               PROVE  LET plan == plans[i]
                          d == schema[messages[i]]
                      IN  /\ {plan.oneofs[g].name : g \in 1 .. Len(plan.oneofs)} =
                               {g.name : g \in {h \in Image(d.groups) : ~h.synthetic}}
                          /\ \A g \in 1 .. Len(plan.oneofs) :
                               {plan.fields[p].number : p \in plan.oneofs[g].fields} =
                                 {f.number : f \in {h \in Image(d.fields) : h.group = plan.oneofs[g].name}}
                          /\ \A p \in 1 .. Len(plan.fields), g \in 1 .. Len(plan.oneofs) :
                               plan.fields[p].group = g <=> p \in plan.oneofs[g].fields
    BY DEF OneofsHaveTheirMembers
  <2> DEFINE d == schema[messages[i]]
             fields == plans[i].fields
             oneofs == plans[i].oneofs
             n == Len(d.fields)
             real == RealGroups(d)
             r == Len(real)
  <2>1. /\ messages[i] \in Types /\ n \in Nat
        /\ fields \in Seq(FieldPlans) /\ Len(fields) = n
        /\ \A k \in 1 .. n : \E j \in 1 .. n :
                  Matches(messages, enums, fields[k], d, d.fields[j])
        /\ \A j \in 1 .. n : \E k \in 1 .. n :
                  Matches(messages, enums, fields[k], d, d.fields[j])
        /\ oneofs = [g \in 1 .. r |->
                     [name |-> real[g].name, fields |-> {k \in 1 .. n : fields[k].group = g}]]
    BY PlanFacts
  <2>2. /\ \A g, h \in 1 .. r : real[g].name = real[h].name => g = h
        /\ {real[g].name : g \in 1 .. r} =
                  {g.name : g \in {h \in Image(d.groups) : ~h.synthetic}}
    BY <2>1, GroupFacts
  <2>3. r \in Nat /\ Len(oneofs) = r
    <3>1. d.groups \in Seq([name : Groups, synthetic : BOOLEAN])
      <4>1. d \in Descriptors
        BY <2>1 DEF Inv, TypeOK
      <4> QED BY <4>1 DEF Descriptors
    <3>2. real \in Seq([name : Groups, synthetic : BOOLEAN])
      BY <3>1, SubsequenceProperties DEF RealGroups
    <3>3. r \in Nat
      BY <3>2, LenProperties
    <3> HIDE DEF r, oneofs, fields
    <3> QED BY <2>1, <3>3
  <2>4. Image(d.fields) = {d.fields[j] : j \in 1 .. n}
    <3>1. d.fields \in Seq(FieldDescriptors)
      BY <2>1, SchemaFacts DEF Inv
    <3> QED BY <3>1, LenProperties DEF Image
  <2> HIDE DEF oneofs, fields, n, r, real
  <2>5. \A g \in 1 .. r : /\ oneofs[g].name = real[g].name
                          /\ oneofs[g].fields = {k \in 1 .. n : fields[k].group = g}
    BY <2>1
  <2>6. \A f : GroupOf(d, f) = IF \E g \in 1 .. r : real[g].name = f.group
                               THEN CHOOSE g \in 1 .. r : real[g].name = f.group ELSE NoIndex
    BY DEF GroupOf, real, r
  <2>7. ASSUME NEW f, NEW g \in 1 .. r PROVE GroupOf(d, f) = g <=> real[g].name = f.group
    <3>1. CASE \E h \in 1 .. r : real[h].name = f.group
      <4>1. GroupOf(d, f) \in 1 .. r /\ real[GroupOf(d, f)].name = f.group
        BY <2>6, <3>1
      <4> QED BY <2>2, <4>1
    <3>2. CASE ~ \E h \in 1 .. r : real[h].name = f.group
      <4>1. GroupOf(d, f) = 0
        BY <2>6, <3>2 DEF NoIndex
      <4> QED BY <3>2, <4>1
    <3> QED BY <3>1, <3>2
  <2>8. ASSUME NEW g \in 1 .. r
        PROVE  {fields[p].number : p \in oneofs[g].fields} =
                 {f.number : f \in {h \in Image(d.fields) : h.group = oneofs[g].name}}
    <3>1. ASSUME NEW p \in oneofs[g].fields
          PROVE  \E f \in Image(d.fields) : f.group = oneofs[g].name /\ f.number = fields[p].number
      <4>1. p \in 1 .. n /\ fields[p].group = g
        BY <2>5
      <4>2. PICK j \in 1 .. n : Matches(messages, enums, fields[p], d, d.fields[j])
        BY <2>1, <4>1
      <4>3. fields[p].number = d.fields[j].number /\ GroupOf(d, d.fields[j]) = g
        BY <4>1, <4>2 DEF Matches
      <4>4. real[g].name = d.fields[j].group
        BY <2>7, <4>3
      <4> QED BY <2>4, <2>5, <4>3, <4>4
    <3>2. ASSUME NEW f \in Image(d.fields), f.group = oneofs[g].name
          PROVE  \E p \in oneofs[g].fields : fields[p].number = f.number
      <4>1. PICK j \in 1 .. n : f = d.fields[j]
        BY <2>4
      <4>2. PICK p \in 1 .. n : Matches(messages, enums, fields[p], d, f)
        BY <2>1, <4>1
      <4>3. GroupOf(d, f) = g
        BY <2>5, <2>7, <3>2
      <4>4. fields[p].number = f.number /\ fields[p].group = g
        BY <4>2, <4>3 DEF Matches
      <4> QED BY <2>5, <4>4
    <3> QED BY <3>1, <3>2
  <2>9. {oneofs[g].name : g \in 1 .. r} = {real[g].name : g \in 1 .. r}
    BY <2>5
  <2>10. ASSUME NEW p \in 1 .. n, NEW g \in 1 .. r
         PROVE  fields[p].group = g <=> p \in oneofs[g].fields
    BY <2>5
  <2> QED BY <2>1, <2>2, <2>3, <2>8, <2>9, <2>10 DEF oneofs, fields
<1> QED BY <1>1, PlansInvariance, PTL
=============================================================================
