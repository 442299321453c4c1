------------------------------ MODULE PoolMemo ------------------------------
(***************************************************************************)
(* What load_descriptor_pool_cached (src/pool_cache.rs) promises to its    *)
(* callers, with the mutex, the decoding and the LRU order left out: a     *)
(* memo table of bounded size in which every call takes effect at one      *)
(* instant between its invocation and its return.                          *)
(*   - A call for a remembered key gets the remembered pool.               *)
(*   - A call for a key that is not remembered gets a pool nobody was      *)
(*     given before, and from then on the key is remembered.               *)
(*   - The memo forgets a key only to remember another one, and only when  *)
(*     it is full.                                                         *)
(*   - A call fails exactly when its key cannot be decoded, and leaves the *)
(*     memo alone.                                                         *)
(***************************************************************************)
EXTENDS Naturals, FiniteSets

CONSTANTS
  Threads,    \* callers
  Keys,       \* the byte strings callers may pass
  Decodable,  \* the keys that are well-formed descriptor sets
  NoKey,      \* stands for no key at all
  Capacity,   \* how many keys the memo can hold
  MaxPools    \* bound on the number of pools ever handed out

NoPool == 0
Pools == 1 .. MaxPools

VARIABLES
  memo,    \* memo[k] is the pool remembered for k, or NoPool
  status,  \* status[t]: "idle", "busy", "returned" or "failed"
  asked,   \* asked[t]: the key of t's current call, or NoKey when idle
  answer,  \* answer[t]: the pool t's call returned, or NoPool
  used     \* every pool that was ever handed out

vars == <<memo, status, asked, answer, used>>

Remembered(m) == {k \in Keys : m[k] # NoPool}

Init ==
  /\ memo = [k \in Keys |-> NoPool]
  /\ status = [t \in Threads |-> "idle"]
  /\ asked = [t \in Threads |-> NoKey]
  /\ answer = [t \in Threads |-> NoPool]
  /\ used = {}

Call(t, k) ==
  /\ status[t] = "idle"
  /\ status' = [status EXCEPT ![t] = "busy"]
  /\ asked' = [asked EXCEPT ![t] = k]
  /\ UNCHANGED <<memo, answer, used>>

Return(t, p) ==
  /\ status[t] = "busy"
  /\ status' = [status EXCEPT ![t] = "returned"]
  /\ answer' = [answer EXCEPT ![t] = p]
  /\ UNCHANGED asked

Recall(t, k) ==
  /\ asked[t] = k
  /\ memo[k] # NoPool
  /\ Return(t, memo[k])
  /\ UNCHANGED <<memo, used>>

(* The forgotten keys: none while there is room, exactly one when full.     *)
Remember(t, k) ==
  /\ asked[t] = k
  /\ memo[k] = NoPool
  /\ k \in Decodable
  /\ \E p \in Pools \ used, victims \in SUBSET Remembered(memo) :
       /\ Return(t, p)
       /\ used' = used \cup {p}
       /\ Cardinality(victims) =
            IF Cardinality(Remembered(memo)) < Capacity THEN 0 ELSE 1
       /\ memo' = [j \in Keys |-> IF j = k THEN p
                                  ELSE IF j \in victims THEN NoPool
                                  ELSE memo[j]]

Fail(t, k) ==
  /\ status[t] = "busy"
  /\ asked[t] = k
  /\ k \notin Decodable
  /\ status' = [status EXCEPT ![t] = "failed"]
  /\ UNCHANGED <<memo, asked, answer, used>>

(* The caller drops what the call returned.                                *)
Release(t) ==
  /\ status[t] \in {"returned", "failed"}
  /\ status' = [status EXCEPT ![t] = "idle"]
  /\ asked' = [asked EXCEPT ![t] = NoKey]
  /\ answer' = [answer EXCEPT ![t] = NoPool]
  /\ UNCHANGED <<memo, used>>

Next ==
  \E t \in Threads :
    \/ \E k \in Keys : Call(t, k) \/ Recall(t, k) \/ Remember(t, k) \/ Fail(t, k)
    \/ Release(t)

Spec == Init /\ [][Next]_vars
=============================================================================
