------------------------------ MODULE MCDecode ------------------------------
(***************************************************************************)
(* Decode on a recursive message type with a field of each kind.           *)
(***************************************************************************)
EXTENDS DecodeReference

CONSTANT Node

F(n, kind, value, group, presence) ==
  [number |-> n, kind |-> kind, packed |-> FALSE, value |-> value, group |-> group,
   presence |-> presence]

MCPlan == [m \in {Node} |-> <<
  F(1, "single", "int", 0, FALSE),
  F(2, "repeated", "enum", 0, FALSE),
  F(3, "single", Node, 0, TRUE),
  F(4, "single", "int", 1, TRUE),
  F(5, "single", Node, 1, TRUE),
  F(6, "map", Node, 0, FALSE),
  F(7, "repeated", Node, 0, FALSE),
  F(8, "single", "enum", 0, FALSE),
  F(9, "single", "pair", 0, TRUE),
  F(10, "single", "str", 0, TRUE),
  F(11, "repeated", "pair", 0, TRUE),
  F(12, "map", "pair", 0, FALSE),
  F(13, "map", "enum", 0, FALSE)>>]

Bad == [Varint(15, 0) EXCEPT !.wire = "bad"]
Unknown == Varint(15, 0)

(* Payloads of messages, the last three nested, malformed and too deep.    *)
Small == {<<>>, <<Varint(1, 1)>>, <<Varint(2, 1), Varint(4, 1)>>, <<Delimited(5, <<Varint(1, 2)>>)>>}
Payloads == Small \cup
  {<<Delimited(3, <<Varint(2, 2)>>), Varint(1, 2)>>, <<Bad>>,
   <<Delimited(3, <<Delimited(3, <<>>)>>)>>}
Entries ==
  {<<>>, <<Varint(1, 1)>>, <<Varint(2, 1)>>, <<Varint(1, 1), Unknown, Varint(1, 2)>>}
  \cup {<<Varint(1, 1), Delimited(2, p)>> : p \in Payloads}
TwoValues == {<<Delimited(2, p), Delimited(2, q)>> : p, q \in Small}

(* Payloads of a time, the last one out of range.                          *)
Pairs_ == {<<Varint(1, 5)>>, <<Varint(2, 3), Unknown>>, <<Varint(2, -1)>>}

Tokens ==
  {Varint(1, 1), Varint(1, 2), Varint(2, 1), Packed(2, <<1, 2>>), Packed(1, <<1>>), Varint(3, 1),
   Varint(4, 1), Varint(6, 1), Varint(8, 1), Varint(8, 7), Packed(10, <<>>), Unknown, Bad,
   Delimited(7, <<Delimited(9, <<Varint(2, -1)>>)>>)}
  \cup {Delimited(n, p) : n \in {9, 11}, p \in Pairs_}
  \cup {Delimited(12, <<Varint(1, 1), Delimited(2, p)>>) : p \in Pairs_}
  \cup {Delimited(12, <<>>), Delimited(12, <<Varint(2, 1)>>), Delimited(13, <<Varint(2, 1)>>),
        Delimited(13, <<Varint(2, 7), Varint(1, 1)>>)}
  \cup {Delimited(n, p) : n \in {3, 5, 7}, p \in Payloads}
  \cup {Delimited(6, e) : e \in Entries}

(* Tokens of which every sequence of three is tried.                       *)
Central ==
  {Varint(1, 2), Varint(2, 1), Varint(4, 1), Delimited(9, <<Varint(2, -1)>>),
   Delimited(9, <<Varint(2, 3), Unknown>>), Delimited(6, <<Varint(1, 1)>>)}
  \cup {Delimited(n, p) : n \in {3, 5}, p \in Small}

Strings(n, S) == UNION {[1 .. k -> S] : k \in 0 .. n}

MCInputs == Strings(2, Tokens) \cup Strings(3, Central)
DiscardedInputs == Strings(2, Central \cup {Delimited(5, <<Bad>>)})
TwoValueInputs == Strings(1, Tokens \cup {Delimited(6, e) : e \in TwoValues})
=============================================================================
