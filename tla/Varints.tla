------------------------------ MODULE Varints ------------------------------
(***************************************************************************)
(* Varints as src/native/wire.rs writes them, and what encode_field writes *)
(* with them.  A byte is a digit of Bits bits, plus Base if another one    *)
(* follows.                                                                *)
(***************************************************************************)
EXTENDS Integers, Sequences

CONSTANTS
  Bits,      \* 7, the bits of a digit
  Width,     \* 64, the bits of a u64
  Power,     \* Power[n] = 2^n
  Numbers,   \* field numbers
  Values     \* the values to write, as Encoded has them

Shifts == 0 .. Width \div Bits

ASSUME BitsAssumption == Bits \in Nat \ {0} /\ Width \in Nat \ {0} /\ Bits <= Width
ASSUME PowerAssumption ==
  /\ Power \in [0 .. Width + Bits -> Nat \ {0}]
  /\ Power[0] = 1 /\ Power[1] = 2
  /\ \A m, n \in 0 .. Width : m + n <= Width + Bits => Power[m + n] = Power[m] * Power[n]

Base == Power[Bits]
Bytes == 0 .. 2 * Base - 1
U64 == Power[Width]

WIRE_VARINT == 0
WIRE_LEN == 2

(* A value has a wire type and, as that wants it, a number or bytes.       *)
ASSUME ValuesAssumption ==
  /\ Values \subseteq [wire : 0 .. 7, number : 0 .. U64 - 1, bytes : Seq(Bytes)]
  /\ \A e \in Values : Len(e.bytes) < U64
  /\ Numbers \subseteq Nat
  /\ \A n \in Numbers : 8 * n + 7 < U64

-----------------------------------------------------------------------------
Shifted(v, i) == v \div Power[Bits * i]
Digit(v, i) == Shifted(v, i) % Base

(* How often write_varint shifts until the rest is one digit.              *)
Rounds(v) ==
  CHOOSE i \in Shifts : Shifted(v, i) < Base /\ \A j \in Shifts : j < i => Shifted(v, j) >= Base
write_varint(v) ==
  [i \in 1 .. Rounds(v) + 1 |-> Digit(v, i - 1) + (IF i <= Rounds(v) THEN Base ELSE 0)]

(* 64 - leading_zeros.                                                     *)
Significant(v) ==
  CHOOSE n \in 0 .. Width : v < Power[n] /\ \A m \in 0 .. Width : m < n => v >= Power[m]
DivCeil(n, d) == (n + d - 1) \div d

(* v with its lowest bit set has as many digits as v, and zero has one.    *)
varint_len(v) == DivCeil(Significant(IF v % 2 = 0 THEN v + 1 ELSE v), Bits)

(* The wire type is in the three lowest bits.                              *)
encode_tag(number, wire) == 8 * number + wire
write_tag(number, wire) == write_varint(encode_tag(number, wire))

(* Encoded::write.                                                         *)
Written(e) ==
  IF e.wire = WIRE_VARINT THEN write_varint(e.number)
  ELSE IF e.wire = WIRE_LEN THEN write_varint(Len(e.bytes)) \o e.bytes
  ELSE e.bytes
=============================================================================
