------------------------- MODULE MCDescriptorResolver -------------------------
(***************************************************************************)
(* A finite instance of DescriptorResolver for TLC: two descriptor sets    *)
(* that both define the name common and differ in the name only, and one   *)
(* that cannot be decoded.                                                 *)
(***************************************************************************)
EXTENDS DescriptorResolver

CONSTANTS a, b, bad, common, only

MCKeys == {a, b, bad}
MCDecodable == {a, b}
MCMessages == [k \in MCDecodable |-> IF k = a THEN {common, only} ELSE {common}]
MCNames == {common, only}
=============================================================================
