--------------------------- MODULE DecodeProgress ---------------------------
(***************************************************************************)
(* That decoding ends, and reads its input once: the tokens of an input    *)
(* counted, with those that are nested in them.                            *)
(***************************************************************************)
EXTENDS Decode

CONSTANT MaxNesting  \* bound: the inputs are nested no deeper

(* Sequences of tokens whose payloads are nested at most n deep.           *)
Nested[n \in 0 .. MaxNesting] ==
  IF n = 0 THEN {<<>>}
  ELSE Seq([number : Int, wire : {"varint", "len", "bad"}, value : Int, packed : Seq(Int),
            payload : Nested[n - 1]])
TokenStrings == Nested[MaxNesting]

ASSUME InputsAssumption == MaxNesting \in Nat /\ Inputs \subseteq TokenStrings

(* f[1] + ... + f[n].                                                      *)
Total(f, n) ==
  LET sum[i \in 0 .. n] == IF i = 0 THEN 0 ELSE sum[i - 1] + f[i]
  IN  sum[n]

(* The number of tokens, those in payloads included.                       *)
Size[tokens \in TokenStrings] ==
  Total([i \in 1 .. Len(tokens) |-> 1 + Size[tokens[i].payload]], Len(tokens))

-----------------------------------------------------------------------------
(* What is left to do: the tokens to be read, the payloads that wait and   *)
(* the calls to return from, an entry's default value among them.          *)
WorkOf(tokens) == 4 * Size[tokens]
Waiting(pending) ==
  Total([p \in 1 .. Len(pending) |-> 2 + WorkOf(pending[p].tokens)], Len(pending))
Left(frame, innermost) ==
  1 + WorkOf(frame.data) +
  IF frame.call = "message" THEN Waiting(frame.pending)
  ELSE IF frame.value = Absent /\ innermost THEN 2 ELSE 0
WorkLeft == Total([i \in 1 .. Len(stack) |-> Left(stack[i], i = Len(stack))], Len(stack))

(* Decoding ends, whatever calls and payloads are nested: each step leaves *)
(* less to do (and there is one as long as nothing is returned).           *)
EachStepNearsTheEnd == [][WorkLeft' < WorkLeft]_vars

(* Each token is read once, however often a field is repeated: decoding is *)
(* linear in the size of the input.                                        *)
EachTokenReadOnce == reads <= Size[input]
=============================================================================
