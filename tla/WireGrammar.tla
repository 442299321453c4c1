----------------------------- MODULE WireGrammar -----------------------------
(***************************************************************************)
(* The wire format as a grammar, without a position that moves or a loop:  *)
(* which strings of bytes are messages.  A part of a string s is given by  *)
(* the numbers of bytes i before it and j up to its end.                   *)
(***************************************************************************)
EXTENDS Integers, Sequences

CONSTANTS
  Base, Groups, U64,   \* a varint has at most Groups + 1 digits, and a value below U64
  MAX_FIELD_NUMBER, Fixed32, Fixed64

WIRE_VARINT == 0
WIRE_I64 == 1
WIRE_LEN == 2
WIRE_I32 == 5

(* The first digit is the lowest.                                          *)
Value(s, i, j) ==
  LET value[b \in 0 .. j] == IF b = j THEN 0 ELSE (s[b + 1] % Base) + Base * value[b + 1]
  IN  value[i]

(* Varints need not be the shortest.                                       *)
IsVarint(s, i, j) ==
  /\ j - i \in 1 .. Groups + 1
  /\ \A b \in i + 1 .. j : s[b] < Base <=> b = j
  /\ Value(s, i, j) < U64

IsTag(s, i, j, wire) ==
  /\ IsVarint(s, i, j)
  /\ Value(s, i, j) \div 8 \in 1 .. MAX_FIELD_NUMBER
  /\ Value(s, i, j) % 8 = wire

IsLengthDelimited(s, i, j) ==
  \E l \in i + 1 .. j : IsVarint(s, i, l) /\ Value(s, i, l) = j - l

IsBody(s, i, j, wire) ==
  \/ wire = WIRE_VARINT /\ IsVarint(s, i, j)
  \/ wire = WIRE_I32 /\ j - i = Fixed32
  \/ wire = WIRE_I64 /\ j - i = Fixed64
  \/ wire = WIRE_LEN /\ IsLengthDelimited(s, i, j)

WireTypes == {WIRE_VARINT, WIRE_I64, WIRE_LEN, WIRE_I32}
IsField(s, i, j) ==
  \E t \in i + 1 .. j, wire \in WireTypes : IsTag(s, i, t, wire) /\ IsBody(s, t, j, wire)

IsMessage(s) ==
  LET rest[i \in 0 .. Len(s)] ==
        i = Len(s) \/ \E j \in i + 1 .. Len(s) : IsField(s, i, j) /\ rest[j]
  IN  rest[0]
=============================================================================
