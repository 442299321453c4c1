-------------------------------- MODULE MCWire --------------------------------
(***************************************************************************)
(* Wire with digits of 3 bits and varints of 7, so that three bytes        *)
(* overflow as ten do in the code.                                         *)
(***************************************************************************)
EXTENDS Wire

MCWeight == <<8, 64>>
Weights == [i \in 0 .. Groups |-> IF i = 0 THEN 1 ELSE MCWeight[i]]

(* Small values, tags of the fields 1 and 2 (8 + 5 continued by 1 is 13),  *)
(* the largest digit, each with and without continuation.                  *)
Bytes == {0, 1, 2, 5, 7, 8, 9, 10, 13, 15}
MCInputs == UNION {[1 .. n -> Bytes] : n \in 0 .. 5}
=============================================================================
