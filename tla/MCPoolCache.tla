----------------------------- MODULE MCPoolCache -----------------------------
(***************************************************************************)
(* Finite instances of PoolCache for TLC.                                  *)
(***************************************************************************)
EXTENDS PoolCache, TLC

CONSTANTS a, b, c, bad

MCKeys == {a, b, c, bad}
MCDecodable == {a, b, c}

ThreadSymmetry == Permutations(Threads)
=============================================================================
