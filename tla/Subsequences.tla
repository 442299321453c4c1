---------------------------- MODULE Subsequences ----------------------------
(***************************************************************************)
(* Parts of sequences, chosen by position.                                 *)
(***************************************************************************)
EXTENDS Naturals, Sequences, FiniteSets

(* The k-th smallest number of the finite set I.                           *)
Nth(I, k) == CHOOSE i \in I : Cardinality({j \in I : j < i}) = k - 1

(* The elements of s at the positions in I, in the order of s.             *)
Subsequence(s, I) == [k \in 1 .. Cardinality(I) |-> s[Nth(I, k)]]
=============================================================================
