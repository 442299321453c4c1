---------------------------- MODULE MessageValues ----------------------------
(***************************************************************************)
(* Schemas, Python values and wire tokens, as the decoder and the encoder  *)
(* of src/python_native.rs see them.                                       *)
(*                                                                         *)
(* A token is a tag with what follows it.  The bytes of a length-delimited *)
(* field are tokens, packed numbers or a string, whatever the schema says  *)
(* they are.  The plan is the one CodecPlan builds: fields in order of     *)
(* their numbers.                                                          *)
(***************************************************************************)
EXTENDS Integers, Sequences, FiniteSets

CONSTANTS
  Messages,     \* message types of the schema
  Plan,         \* Plan[m]: the fields of message type m
  Declared,     \* numbers of the enum type
  Root,         \* the type to decode and encode
  MAX_DEPTH

(* A field's value is a scalar, the one well-known type "pair" (the        *)
(* seconds and nanos of Timestamp and Duration), or a message type.  The   *)
(* group of a field outside a oneof is 0.                                  *)
Scalars == {"int", "enum", "str"}
FieldPlans == [number : Nat, kind : {"single", "repeated", "map"}, packed : BOOLEAN,
               value : Scalars \cup {"pair"} \cup Messages, group : Nat, presence : BOOLEAN]

ASSUME PlanAssumption == Root \in Messages /\ Plan \in [Messages -> Seq(FieldPlans)]
ASSUME DepthAssumption == MAX_DEPTH \in Nat

(* A repeated field or a map is in no oneof.                               *)
ASSUME OneofAssumption ==
  \A m \in Messages : \A i \in 1 .. Len(Plan[m]) :
    Plan[m][i].group # 0 => Plan[m][i].kind = "single"

IsMessage(value) == value \notin Scalars

-----------------------------------------------------------------------------
(* Values.  A dict has a slot for each field of its type.                  *)
Number(n) == [number |-> n]
List(s) == [list |-> s]
Map(f) == [map |-> f]
Dict(slots) == [dict |-> slots]
Pair(s, n) == [seconds |-> s, nanos |-> n]
Absent == [absent |-> TRUE]

(* Further objects a caller may pass: None, an enum by name, and anything  *)
(* of a type no field takes.                                               *)
None == [none |-> TRUE]
Name(s) == [name |-> s]
Other == [other |-> TRUE]

(* What a call returns: nothing yet, or an exception.                      *)
Running == [running |-> TRUE]
Error == [error |-> TRUE]

(* PyDict::set_item.                                                       *)
Insert(f, k, v) == [x \in DOMAIN f \cup {k} |-> IF x = k THEN v ELSE f[x]]

(* A field without presence has a zero value if it is absent.              *)
Zero(f) ==
  CASE f.kind = "repeated" -> List(<<>>)
    [] f.kind = "map" -> Map(<<>>)
    [] f.kind = "single" /\ f.value \in Scalars /\ ~f.presence -> Number(0)
    [] OTHER -> Absent

(* present_value: the dict of a message whose fields were read.            *)
DictOf(m, slots) ==
  Dict([i \in 1 .. Len(Plan[m]) |-> IF slots[i] = Absent THEN Zero(Plan[m][i]) ELSE slots[i]])

-----------------------------------------------------------------------------
(* Wire tokens.  One that read_tag, read_len or a scalar's reader refuses  *)
(* (truncated, group, bad number, bad UTF-8) has the wire type "bad".      *)
Varint(n, v) ==
  [number |-> n, wire |-> "varint", value |-> v, packed |-> <<>>, payload |-> <<>>]
Delimited(n, tokens) == [Varint(n, 0) EXCEPT !.wire = "len", !.payload = tokens]
Text(n, v) == [Varint(n, v) EXCEPT !.wire = "len"]
Packed(n, s) == [Varint(n, 0) EXCEPT !.wire = "len", !.packed = s]

WireType(scalar) == IF scalar = "str" THEN "len" ELSE "varint"
Packable(scalar) == scalar # "str"

(* read_seconds_nanos: the last of each counts.                            *)
LastOf(tokens, n) ==
  LET at == {i \in 1 .. Len(tokens) : tokens[i].number = n /\ tokens[i].wire = "varint"}
  IN  IF at = {} THEN 0 ELSE tokens[CHOOSE i \in at : \A j \in at : j <= i].value
PairOf(tokens) == Pair(LastOf(tokens, 1), LastOf(tokens, 2))

(* check_timestamp: nanoseconds are not negative.                          *)
InRange(nanos) == nanos >= 0
=============================================================================
