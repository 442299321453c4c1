------------------------------- MODULE Encode -------------------------------
(***************************************************************************)
(* NativeCodec::encode of src/python_native.rs: nested dicts, or the       *)
(* __dict__s of model instances, become wire tokens.  Each nested message  *)
(* is a call of encode_message, a frame of a stack; a step is at a field   *)
(* of the plan, at one of its elements, or the return of a call.  The      *)
(* bytes a nested call writes become the payload of one token.             *)
(***************************************************************************)
EXTENDS MessageValues, SequencesExt

CONSTANTS
  Names,    \* Names[s]: the number of the enum value named s
  Objects   \* the objects to encode

VARIABLES
  strict,   \* strict_enums, constant
  object,   \* the argument of encode, constant
  writing,  \* calls of encode_message, innermost last
  output    \* what encode returns, or Running

vars == <<strict, object, writing, output>>

Tokens(s) == [tokens |-> s]

Is(what, v) == what \in DOMAIN v

-----------------------------------------------------------------------------
(* encode_scalar.  An enum is a number or a declared name; in strict mode  *)
(* the number has to be declared.                                          *)
Named(scalar, v) == scalar = "enum" /\ Is("name", v) /\ v.name \in DOMAIN Names
NumberOf(scalar, v) == IF Named(scalar, v) THEN Names[v.name] ELSE v.number
Encodes(scalar, v) ==
  /\ Is("number", v) \/ Named(scalar, v)
  /\ scalar = "enum" /\ strict => NumberOf(scalar, v) \in Declared

ScalarToken(n, scalar, v) ==
  IF scalar = "str" THEN Text(n, NumberOf(scalar, v)) ELSE Varint(n, NumberOf(scalar, v))

(* write_seconds_nanos leaves out what is zero.                            *)
PairTokens(v) ==
  SelectSeq(<<Varint(1, v.seconds), Varint(2, v.nanos)>>, LAMBDA t : t.value # 0)

(* Mutant of Entry: an entry without its key.                              *)
EntryBare(f, k, token) == IF f.kind = "map" THEN Delimited(f.number, <<token>>) ELSE token

(* The token of an element of field f, in a map inside an entry.           *)
Entry(f, k, token) ==
  IF f.kind = "map" THEN Delimited(f.number, <<Varint(1, k), token>>) ELSE token
ElementNumber(f) == IF f.kind = "map" THEN 2 ELSE f.number

-----------------------------------------------------------------------------
(* A call of encode_message: "field" is the last field it looked at, todo  *)
(* its elements that are still to be written, set the groups of which a    *)
(* member was set, and out what it has written.                            *)
Call(m, slots, depth) ==
  [of |-> m, slots |-> slots, depth |-> depth, field |-> 0, todo |-> <<>>, set |-> {},
   out |-> <<>>]

Init ==
  /\ strict \in BOOLEAN
  /\ object \in Objects
  /\ writing = <<Call(Root, object.dict, 0)>>
  /\ output = Running

Top == writing[Len(writing)]
Busy == writing # <<>>
Field == Plan[Top.of][Top.field]
Item == Head(Top.todo).value
Constant == UNCHANGED <<strict, object>>

(* At the next field of the plan, with all elements of the last written.   *)
Next_ == Top.field + 1
AtField == Busy /\ Top.todo = <<>> /\ Top.field < Len(Plan[Top.of])
NextField == Plan[Top.of][Next_]
Given == Top.slots[Next_]
Present == Given \notin {Absent, None}

(* At an element of the current one.                                       *)
AtItem == Busy /\ Top.todo # <<>>

Fail == writing' = <<>> /\ output' = Error /\ Constant
Continue(frame) ==
  /\ writing' = [writing EXCEPT ![Len(writing)] = frame]
  /\ UNCHANGED output
  /\ Constant

(* frame, with the first element of its field written as token.            *)
Written(frame, token) ==
  [frame EXCEPT !.todo = Tail(@),
                !.out = Append(@, Entry(Plan[frame.of][frame.field], Head(frame.todo).key, token))]

-----------------------------------------------------------------------------
(* A field that the dict does not have, or None.                           *)
SkipField ==
  /\ AtField /\ ~Present
  /\ Continue([Top EXCEPT !.field = Next_])

(* Mutant of SecondMember: members of oneofs are not counted.              *)
SecondMemberIgnored == FALSE

(* Another member of the field's oneof is set already.                     *)
SecondMember == NextField.group # 0 /\ NextField.group \in Top.set

RefuseSecondMember ==
  /\ AtField /\ Present
  /\ SecondMember
  /\ Fail

(* What value.try_iter or cast::<PyDict> gives.                            *)
Iterable ==
  CASE NextField.kind = "single" -> TRUE
    [] NextField.kind = "repeated" -> Is("list", Given)
    [] NextField.kind = "map" -> Is("map", Given)

(* The elements, in the orders they may have: that of a dict is the order  *)
(* its keys were inserted in.                                              *)
Items ==
  CASE NextField.kind = "single" -> {<<[key |-> 0, value |-> Given]>>}
    [] NextField.kind = "repeated" ->
         {[i \in 1 .. Len(Given.list) |-> [key |-> 0, value |-> Given.list[i]]]}
    [] NextField.kind = "map" ->
         {[i \in 1 .. Len(keys) |-> [key |-> keys[i], value |-> Given.map[keys[i]]]] :
            keys \in SetToSeqs(DOMAIN Given.map)}

PackedField == NextField.packed /\ NextField.value \in Scalars /\ Packable(NextField.value)

(* Goes on to the elements of the next field.                              *)
Visited == [Top EXCEPT !.field = Next_, !.set = @ \cup ({NextField.group} \ {0})]
VisitField ==
  /\ AtField /\ Present
  /\ ~SecondMember /\ ~PackedField
  /\ IF Iterable
     THEN \E items \in Items : Continue([Visited EXCEPT !.todo = items])
     ELSE Fail

(* A packed field is written as one token, or not at all if it is empty.   *)
WritePacked ==
  /\ AtField /\ Present
  /\ PackedField
  /\ IF Iterable /\ \A i \in DOMAIN Given.list : Encodes(NextField.value, Given.list[i])
     THEN LET numbers == [i \in DOMAIN Given.list |-> NumberOf(NextField.value, Given.list[i])]
          IN  Continue([Visited EXCEPT
                !.out = IF numbers = <<>> THEN @ ELSE Append(@, Packed(NextField.number, numbers))])
     ELSE Fail

(* Mutant of Omitted: zeros are written.                                   *)
OmittedNever(f, n) == FALSE

(* A singular scalar without presence is left out if it is zero.           *)
Omitted(f, n) == f.kind = "single" /\ ~f.presence /\ n = 0

WriteScalar ==
  /\ AtItem /\ Field.value \in Scalars
  /\ IF Encodes(Field.value, Item)
     THEN Continue(IF Omitted(Field, NumberOf(Field.value, Item))
                   THEN [Top EXCEPT !.todo = Tail(@)]
                   ELSE Written(Top, ScalarToken(ElementNumber(Field), Field.value, Item)))
     ELSE Fail

(* encode_message and encode_wkt refuse to be one level deeper.            *)
TooDeep == Top.depth + 1 > MAX_DEPTH

(* encode_wkt, for a pair.                                                 *)
WritePair ==
  /\ AtItem /\ Field.value = "pair"
  /\ IF ~TooDeep /\ Is("seconds", Item) /\ InRange(Item.nanos)
     THEN Continue(Written(Top, Delimited(ElementNumber(Field), PairTokens(Item))))
     ELSE Fail

(* The call of encode_message for an element.                              *)
EnterMessage ==
  /\ AtItem /\ Field.value \in Messages
  /\ IF ~TooDeep /\ Is("dict", Item)
     THEN /\ writing' = Append(writing, Call(Field.value, Item.dict, Top.depth + 1))
          /\ UNCHANGED output
          /\ Constant
     ELSE Fail

(* The innermost call has gone through all fields and returns.             *)
Return ==
  LET below == SubSeq(writing, 1, Len(writing) - 1)
      caller == below[Len(below)]
      f == Plan[caller.of][caller.field]
  IN  /\ Busy /\ Top.todo = <<>> /\ Top.field = Len(Plan[Top.of])
      /\ IF below = <<>>
         THEN writing' = <<>> /\ output' = Tokens(Top.out)
         ELSE /\ writing' = [below EXCEPT ![Len(below)] =
                               Written(@, Delimited(ElementNumber(f), Top.out))]
              /\ UNCHANGED output
      /\ Constant

Step ==
  \/ SkipField \/ RefuseSecondMember \/ VisitField \/ WritePacked
  \/ WriteScalar \/ WritePair \/ EnterMessage \/ Return
=============================================================================
