-------------------------------- MODULE Wire --------------------------------
(***************************************************************************)
(* Reading the wire format, src/native/wire.rs: the loop every decoder of  *)
(* src/python_native.rs has, read_tag and then the field behind it, here   *)
(* skipped as skip_field does.  A step of read_varint reads one byte.      *)
(*                                                                         *)
(* A byte is a digit of base Base plus Base if another one follows.  The   *)
(* code has Base = 2^7, and 9 = Groups digits and a bit make up a u64.     *)
(***************************************************************************)
EXTENDS Integers, Sequences

CONSTANTS
  Base,               \* 2^7
  Groups,             \* 63 / 7, the digits before the last bit of a u64
  Weight,             \* Weight[k] = Base^k
  MAX_FIELD_NUMBER,   \* 2^29 - 1
  Fixed32, Fixed64,   \* 4 and 8, their sizes in bytes
  Inputs              \* the byte strings to read

ASSUME BaseAssumption == Base \in Nat /\ Base >= 2 /\ Groups \in Nat
ASSUME WeightAssumption ==
  /\ Weight \in [0 .. Groups -> Nat \ {0}]
  /\ Weight[0] = 1
  /\ \A k \in 0 .. Groups - 1 : Weight[k + 1] = Base * Weight[k]
  /\ \A k \in 0 .. Groups : Weight[k] <= Weight[Groups]
ASSUME SizeAssumption ==
  Fixed32 \in Nat \ {0} /\ Fixed64 \in Nat \ {0} /\ MAX_FIELD_NUMBER \in Nat
ASSUME InputsAssumption == Inputs \subseteq Seq(0 .. 2 * Base - 1)

U64 == 2 * Weight[Groups]

INSTANCE WireGrammar

VARIABLES
  data,    \* the bytes to read, constant
  pos,     \* how many are read
  phase,   \* "tag", "varint", "fixed32", "fixed64" or "len" while reading, "end", "error"
  k,       \* digits of the current varint that are read: shift / 7
  result,  \* their value, in a u64
  exact    \* history: their value, in the integers

vars == <<data, pos, phase, k, result, exact>>

Init ==
  /\ data \in Inputs
  /\ pos = 0
  /\ phase = IF data = <<>> THEN "end" ELSE "tag"
  /\ k = 0
  /\ result = 0
  /\ exact = 0

InVarint == phase \in {"tag", "varint", "len"}
Byte == data[pos + 1]

(* The low 7 bits, and where they go.                                      *)
Digit == Byte % Base
Sum == (result + Digit * Weight[k]) % U64
IsLast == Byte < Base

(* Starts to read something else, from position p.                         *)
Start(p, what) ==
  /\ pos' = p
  /\ phase' = what
  /\ k' = 0
  /\ result' = 0
  /\ exact' = 0
  /\ UNCHANGED data

(* The field ends at p: the next one is read, if there is one.             *)
NextField(p) == Start(p, IF p = Len(data) THEN "end" ELSE "tag")
Fail(p) == Start(p, "error")

(* Mutant of TooLarge: the tenth byte may have any bits.                   *)
TooLargeUnchecked == FALSE

(* Only one bit is left for the tenth byte of a varint.                    *)
TooLarge == k = Groups /\ Byte > 1

Truncated ==
  /\ InVarint
  /\ pos = Len(data)
  /\ Fail(pos)

(* "varint overflows 64 bits".                                             *)
Overflow ==
  /\ InVarint /\ pos < Len(data)
  /\ TooLarge
  /\ Fail(pos + 1)

(* Another byte follows.  "varint too long" is behind the test of          *)
(* Overflow, which refuses a continued tenth byte first.                   *)
Continue ==
  /\ InVarint /\ pos < Len(data)
  /\ ~TooLarge /\ ~IsLast
  /\ IF k = Groups
     THEN Fail(pos + 1)
     ELSE /\ pos' = pos + 1
          /\ k' = k + 1
          /\ result' = Sum
          /\ exact' = exact + Digit * Weight[k]
          /\ UNCHANGED <<data, phase>>

(* The last byte of a varint.                                              *)
Complete == InVarint /\ pos < Len(data) /\ ~TooLarge /\ IsLast

(* What read_tag makes of a varint, and what is read next.                 *)
TagNumber == Sum \div 8
WireType == Sum % 8
After(wire) ==
  CASE wire = WIRE_VARINT -> "varint"
    [] wire = WIRE_I64 -> "fixed64"
    [] wire = WIRE_LEN -> "len"
    [] wire = WIRE_I32 -> "fixed32"

(* Mutant of ValidTag: only the 32 low bits of the number are looked at.   *)
ValidTagTruncated ==
  /\ TagNumber % (MAX_FIELD_NUMBER + 1) # 0
  /\ WireType \in {WIRE_VARINT, WIRE_I64, WIRE_LEN, WIRE_I32}

ValidTag ==
  /\ TagNumber # 0 /\ TagNumber <= MAX_FIELD_NUMBER
  /\ WireType \in {WIRE_VARINT, WIRE_I64, WIRE_LEN, WIRE_I32}

read_tag ==
  /\ phase = "tag" /\ Complete
  /\ IF ValidTag THEN Start(pos + 1, After(WireType)) ELSE Fail(pos + 1)

(* read_varint of a field, for its value.                                  *)
read_value ==
  /\ phase = "varint" /\ Complete
  /\ NextField(pos + 1)

(* Reads n bytes from p on, or fails if they are not there.                *)
Take(p, n) == IF p + n <= Len(data) THEN NextField(p + n) ELSE Fail(p)

(* Mutant of read_len: the length includes its prefix.                     *)
read_len_from_start ==
  /\ phase = "len" /\ Complete
  /\ Take(pos - k, Sum)

read_len ==
  /\ phase = "len" /\ Complete
  /\ Take(pos + 1, Sum)

read_fixed ==
  \/ phase = "fixed32" /\ Take(pos, Fixed32)
  \/ phase = "fixed64" /\ Take(pos, Fixed64)

Terminated == phase \in {"end", "error"} /\ UNCHANGED vars

Step ==
  \/ Truncated \/ Overflow \/ Continue
  \/ read_tag \/ read_value \/ read_len \/ read_fixed
Next == Step \/ Terminated

Spec == Init /\ [][Next]_vars

-----------------------------------------------------------------------------
(* Types; nothing is read behind the end of the input.                     *)
TypeOK ==
  /\ data \in Seq(0 .. 2 * Base - 1)
  /\ pos \in 0 .. Len(data)
  /\ phase \in {"tag", "varint", "len", "fixed32", "fixed64", "end", "error"}
  /\ k \in 0 .. Groups
  /\ result \in 0 .. U64 - 1
  /\ exact \in Nat

(* The value of a varint is that of its digits: no bit is shifted out of   *)
(* the u64, since whatever does not fit is refused first.                  *)
NoBitsLost ==
  /\ result = exact
  /\ Complete => Sum = exact + Digit * Weight[k]

(* The reader accepts exactly the sequences of fields of WireGrammar:      *)
(* valid numbers, no groups, varints of 64 bits, lengths that fit.         *)
ReadsTheGrammar ==
  /\ phase = "end" => IsMessage(data)
  /\ phase = "error" => ~IsMessage(data)

(* Each step reads something or ends the reading, so no input makes the    *)
(* loops of the decoders spin.                                             *)
EachStepReads == [][pos' > pos \/ phase' \in {"end", "error"}]_vars
=============================================================================
