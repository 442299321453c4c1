----------------------------- MODULE MCRoundTrip -----------------------------
(***************************************************************************)
(* RoundTrip on a recursive message type with a field of each kind.        *)
(***************************************************************************)
EXTENDS RoundTrip

CONSTANTS Node, Zero_, One, Seven

F(n, kind, packed, value, group, presence) ==
  [number |-> n, kind |-> kind, packed |-> packed, value |-> value, group |-> group,
   presence |-> presence]

MCPlan == [m \in {Node} |-> <<
  F(1, "single", FALSE, "int", 0, FALSE),
  F(2, "repeated", TRUE, "enum", 0, FALSE),
  F(3, "single", FALSE, Node, 0, TRUE),
  F(4, "single", FALSE, "int", 1, TRUE),
  F(5, "single", FALSE, Node, 1, TRUE),
  F(6, "map", FALSE, Node, 0, FALSE),
  F(7, "repeated", FALSE, Node, 0, FALSE),
  F(8, "single", FALSE, "enum", 0, FALSE),
  F(9, "single", FALSE, "pair", 1, TRUE),
  F(10, "repeated", FALSE, "str", 0, FALSE),
  F(11, "map", FALSE, "enum", 0, FALSE),
  F(12, "repeated", FALSE, "pair", 0, FALSE)>>]

(* The names of two declared numbers and an undeclared one of an enum with *)
(* aliases.                                                                *)
MCNames == [s \in {Zero_, One, Seven} |-> IF s = Zero_ THEN 0 ELSE IF s = One THEN 1 ELSE 7]

Empty == [i \in 1 .. 12 |-> Absent]
With(slots, i, v) == [slots EXCEPT ![i] = v]

Enums_ == {Number(0), Number(7), Name(One), Name(Node)}
Pairs_ == {Pair(0, 0), Pair(5, 3), Pair(1, -1)}

(* The values tried for each field, given the objects for the messages in  *)
(* it.                                                                     *)
Values(objects) ==
  {<<1, v>> : v \in {Number(0), Number(1), None, Other}}
  \cup {<<2, List(s)>> : s \in {<<>>, <<Number(0)>>, <<Number(1), Name(Zero_)>>, <<Number(7)>>, <<Other>>}}
  \cup {<<i, v>> : i \in {3, 5}, v \in objects \cup {None}}
  \cup {<<4, Number(0)>>, <<4, None>>}
  \cup {<<6, Map([k \in {2} |-> v])>> : v \in objects}
  \cup {<<7, List(<<v>>)>> : v \in objects}
  \cup {<<8, v>> : v \in Enums_}
  \cup {<<9, v>> : v \in Pairs_ \cup {Number(1)}}
  \cup {<<10, List(<<Number(0), Number(1)>>)>>, <<10, Number(1)>>}
  \cup {<<11, v>> : v \in {Map(<<Number(0), Name(One)>>), Map([k \in {0} |-> None]), List(<<>>)}}
  \cup {<<12, List(<<v>>)>> : v \in Pairs_}

WithOne(inner) == {Dict(With(Empty, f[1], f[2])) : f \in Values(inner)}
WithTwo(inner) ==
  {Dict(With(With(Empty, f[1], f[2]), g[1], g[2])) : f, g \in Values(inner)}

Leaves == {Dict(Empty), Dict(With(Empty, 1, Number(1)))}
Shallow == Leaves \cup WithOne(Leaves) \cup {None, Other}
(* Up to three messages in one another, one more than can be encoded.      *)
Deep == WithOne(Shallow)
Deeper == WithOne(Deep)
Lists ==
  {Dict(With(Empty, 7, List(<<v, w>>))) : v \in Shallow, w \in Leaves}
  \cup {Dict(With(Empty, 6, Map(<<v, w>>))) : v \in Leaves, w \in Shallow}
MCObjects == Leaves \cup WithTwo(Leaves) \cup Lists \cup Deeper
=============================================================================
