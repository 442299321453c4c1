--------------------------- MODULE MCLengthPrefix ---------------------------
(***************************************************************************)
(* LengthPrefix with digits of two bits: payloads of 4 bytes need a prefix *)
(* of two bytes, those of 16 one of three.                                 *)
(***************************************************************************)
EXTENDS LengthPrefix

MCPower == [n \in 0 .. Width + Bits |-> 2^n]

V(wire, number, bytes) == [wire |-> wire, number |-> number, bytes |-> bytes]
MCValues == {V(0, 5, <<>>), V(2, 0, <<7, 7, 7, 7>>), V(5, 0, <<4>>)}
=============================================================================
