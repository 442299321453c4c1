----------------------------- MODULE RoundTrip -----------------------------
(***************************************************************************)
(* A codec's encode followed by its decode_dict: what Encode writes is the *)
(* input of Decode.                                                        *)
(***************************************************************************)
EXTENDS MessageValues

CONSTANTS Names, Objects

VARIABLES
  strict,                  \* of the codec
  object, writing, output, \* the variables of Encode
  input, stack, result, reads \* the variables of Decode

E == INSTANCE Encode
D == INSTANCE Decode WITH Inputs <- {}

decoder == <<input, stack, result, reads>>
vars == <<strict, object, writing, output, decoder>>

Init ==
  /\ E!Init
  /\ input = <<>>
  /\ stack = <<>>
  /\ result = Running
  /\ reads = 0

EncodeStep == E!Step /\ UNCHANGED decoder

Encoded == output \notin {Running, Error}

(* The bytes are given to the same codec.                                  *)
DecodeOutput ==
  /\ Encoded
  /\ stack = <<>> /\ result = Running
  /\ input' = output.tokens
  /\ stack' = <<D!MessageFrame(Root, output.tokens, 0, 0)>>
  /\ UNCHANGED <<strict, object, writing, output, result, reads>>

DecodeStep == D!Step /\ UNCHANGED <<object, writing, output>>

Terminated == (output = Error \/ result # Running) /\ UNCHANGED vars

Next == EncodeStep \/ DecodeOutput \/ DecodeStep \/ Terminated

Spec == Init /\ [][Next]_vars

-----------------------------------------------------------------------------
RECURSIVE Normal(_, _), Encodable(_, _, _)

Given(v) == v \notin {Absent, None}

(* The value that v becomes: names become numbers, None and absent become  *)
(* the zero value.                                                         *)
Normal(value, v) ==
  CASE value \in Scalars -> Number(E!NumberOf(value, v))
    [] value = "pair" -> v
    [] value \in Messages ->
         DictOf(value, [i \in DOMAIN v.dict |->
           LET f == Plan[value][i]
               w == v.dict[i]
           IN  CASE ~Given(w) -> Absent
                 [] Given(w) /\ f.kind = "single" -> Normal(f.value, w)
                 [] Given(w) /\ f.kind = "repeated" ->
                      List([j \in DOMAIN w.list |-> Normal(f.value, w.list[j])])
                 [] Given(w) /\ f.kind = "map" ->
                      Map([k \in DOMAIN w.map |-> Normal(f.value, w.map[k])])])

(* The values that can be encoded, as a message at this depth if they are  *)
(* one: they have the type of their field and are in range, at most one    *)
(* member of a oneof is given, and nothing is nested too deep.             *)
Encodable(value, v, depth) ==
  CASE value \in Scalars -> E!Encodes(value, v)
    [] value = "pair" -> depth <= MAX_DEPTH /\ E!Is("seconds", v) /\ InRange(v.nanos)
    [] value \in Messages ->
         /\ depth <= MAX_DEPTH
         /\ E!Is("dict", v)
         /\ LET fields == {i \in DOMAIN v.dict : Given(v.dict[i])}
            IN  /\ \A i, j \in fields :
                     Plan[value][i].group = Plan[value][j].group
                     => i = j \/ Plan[value][i].group = 0
                /\ \A i \in fields :
                     LET f == Plan[value][i]
                         w == v.dict[i]
                     IN  CASE f.kind = "single" -> Encodable(f.value, w, depth + 1)
                           [] f.kind = "repeated" ->
                                /\ E!Is("list", w)
                                /\ \A j \in DOMAIN w.list : Encodable(f.value, w.list[j], depth + 1)
                           [] f.kind = "map" ->
                                /\ E!Is("map", w)
                                /\ \A k \in DOMAIN w.map : Encodable(f.value, w.map[k], depth + 1)

(* What was encoded decodes, with the same settings, to the same values:   *)
(* the limits of the encoder are those of the decoder, absent fields are   *)
(* filled in, and nothing that counts is left out.                         *)
RoundTrips ==
  result # Running => result = Normal(Root, object)

(* encode refuses exactly what cannot be encoded, two members of a oneof   *)
(* among them, wherever in the object it is.                               *)
RefusesExactly ==
  output # Running => (output = Error <=> ~Encodable(Root, object, 0))

(* The fields of a message are written in order of their numbers, singular *)
(* ones once, and zeros of fields without presence not at all: equal       *)
(* objects have equal bytes, up to the order of the entries of a map.      *)
RECURSIVE Canonical(_, _)
Canonical(m, tokens) ==
  /\ \A i, j \in 1 .. Len(tokens) : i < j =>
       \/ tokens[i].number < tokens[j].number
       \/ /\ tokens[i].number = tokens[j].number
          /\ \A f \in {Plan[m][p] : p \in 1 .. Len(Plan[m])} :
               f.number = tokens[i].number => f.kind # "single"
  /\ \A i \in 1 .. Len(tokens) : \E p \in 1 .. Len(Plan[m]) :
       LET f == Plan[m][p]
           t == tokens[i]
       IN  /\ f.number = t.number
           /\ f.kind = "single" /\ f.value \in Scalars /\ ~f.presence => t.value # 0
           /\ f.kind # "map" /\ f.value \in Messages => Canonical(f.value, t.payload)
CanonicalOutput == Encoded => Canonical(Root, output.tokens)
=============================================================================
