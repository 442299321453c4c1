------------------------------ MODULE PoolCache ------------------------------
(***************************************************************************)
(* The process-wide cache of decoded descriptor pools, src/pool_cache.rs,  *)
(* and the threads that call load_descriptor_pool_cached.  The Python      *)
(* binding releases the GIL around the calls, so they really run at once.  *)
(*                                                                         *)
(* A call takes the mutex, looks the key up and, in the case of a miss,    *)
(* lets the mutex go, decodes, takes it again, looks the key up again and  *)
(* only then inserts.  Each of those is an action here.  A key stands for  *)
(* the bytes of a descriptor set; a pool is the identity of one            *)
(* Arc<DescriptorPool> allocation, numbered in order of creation.          *)
(***************************************************************************)
EXTENDS Naturals, Sequences, FiniteSets

CONSTANTS
  Threads,    \* threads of the host program
  Keys,       \* the byte strings they pass
  Decodable,  \* the keys DescriptorPool::decode accepts
  NoThread,   \* holder of a free mutex
  NoKey,      \* argument of a thread outside any call
  Capacity,   \* MAX_POOL_CACHE_ENTRIES
  MaxCalls    \* bound on the number of calls

ASSUME CapacityAssumption == Capacity \in Nat \ {0}
ASSUME KeysAssumption == Decodable \subseteq Keys /\ NoKey \notin Keys
ASSUME ThreadsAssumption == NoThread \notin Threads
ASSUME BoundAssumption == MaxCalls \in Nat

VARIABLES
  cache,     \* POOL_CACHE: [key, pool] records, most recently used first
  lock,      \* the thread holding the mutex guard of POOL_CACHE, or NoThread
  pc,        \* where each thread is in load_descriptor_pool_cached
  bytes,     \* its argument
  pool,      \* its pool: the decoded one, then the returned one; NoPool before
  made,      \* made[p] is the key that pool p was decoded from
  calls,     \* number of calls so far
  handed,    \* history: the pools returned so far for each key
  evictions, \* history: how often each key was evicted
  touched    \* history: all keys ever cached, most recently used first

vars == <<cache, lock, pc, bytes, pool, made, calls, handed, evictions, touched>>
history == <<handed, evictions, touched>>

NoPool == 0

(* Where the guard of the first lookup is taken and used, where the        *)
(* decoder runs, and where the guard of the insertion is taken and used.   *)
Locking == {"lock_lookup", "lock_insert"}
Locked == {"lookup", "insert"}
InCall == Locking \cup Locked \cup {"decode"}
Finished == {"returned", "failed"}

-----------------------------------------------------------------------------
(* The lru crate, as far as pool_cache.rs uses it.                         *)

(* Moves the i-th element of s to the front.                               *)
Promote(s, i) ==
  [j \in 1 .. Len(s) |-> IF j = 1 THEN s[i] ELSE IF j <= i THEN s[j - 1] ELSE s[j]]

(* Puts e in front of s and keeps at most n elements.                      *)
PushFront(s, e, n) ==
  [j \in 1 .. (IF Len(s) < n THEN Len(s) + 1 ELSE n) |-> IF j = 1 THEN e ELSE s[j - 1]]

CachedKeys(c) == {c[i].key : i \in 1 .. Len(c)}
Position(c, k) == CHOOSE i \in 1 .. Len(c) : c[i].key = k

(* LruCache::get: a hit becomes the most recently used entry.              *)
Get(c, k) == Promote(c, Position(c, k))

(* LruCache::put: replaces the value of a present key, otherwise inserts,  *)
(* evicting the least recently used entry of a full cache.                 *)
Put(c, k, p) ==
  IF k \in CachedKeys(c)
  THEN [Get(c, k) EXCEPT ![1] = [key |-> k, pool |-> p]]
  ELSE PushFront(c, [key |-> k, pool |-> p], Capacity)

(* Keys in order of their last use, without any capacity.                  *)
KeyPosition(s, k) == CHOOSE i \in 1 .. Len(s) : s[i] = k
Touch(s, k) ==
  IF \E i \in 1 .. Len(s) : s[i] = k
  THEN Promote(s, KeyPosition(s, k))
  ELSE PushFront(s, k, Len(s) + 1)

-----------------------------------------------------------------------------
Init ==
  /\ cache = <<>>
  /\ lock = NoThread
  /\ pc = [t \in Threads |-> "idle"]
  /\ bytes = [t \in Threads |-> NoKey]
  /\ pool = [t \in Threads |-> NoPool]
  /\ made = <<>>
  /\ calls = 0
  /\ handed = [k \in Keys |-> {}]
  /\ evictions = [k \in Keys |-> 0]
  /\ touched = <<>>

Goto(t, to) == pc' = [pc EXCEPT ![t] = to]

(* A thread calls load_descriptor_pool_cached(k).                          *)
Call(t, k) ==
  /\ pc[t] = "idle"
  /\ calls < MaxCalls
  /\ calls' = calls + 1
  /\ bytes' = [bytes EXCEPT ![t] = k]
  /\ Goto(t, "lock_lookup")
  /\ UNCHANGED <<cache, lock, pool, made, history>>

(* POOL_CACHE.lock(), before the lookup and before the insertion.          *)
Lock(t) ==
  /\ pc[t] \in Locking
  /\ lock = NoThread
  /\ lock' = t
  /\ Goto(t, IF pc[t] = "lock_lookup" THEN "lookup" ELSE "insert")
  /\ UNCHANGED <<cache, bytes, pool, made, calls, history>>

(* Mutant of Found: looks the entry up without promoting it.              *)
FoundPeeking(t) ==
  LET k == bytes[t]
      p == cache[Position(cache, k)].pool
  IN  /\ k \in CachedKeys(cache)
      /\ pool' = [pool EXCEPT ![t] = p]
      /\ lock' = NoThread
      /\ Goto(t, "returned")
      /\ handed' = [handed EXCEPT ![k] = @ \cup {p}]
      /\ touched' = Touch(touched, k)
      /\ UNCHANGED <<cache, bytes, made, calls, evictions>>

(* Mutant of Found: reads the pool of the front entry.                     *)
FoundInFront(t) ==
  LET k == bytes[t]
      p == cache[1].pool
  IN  /\ k \in CachedKeys(cache)
      /\ cache' = Get(cache, k)
      /\ pool' = [pool EXCEPT ![t] = p]
      /\ lock' = NoThread
      /\ Goto(t, "returned")
      /\ handed' = [handed EXCEPT ![k] = @ \cup {p}]
      /\ touched' = Touch(touched, k)
      /\ UNCHANGED <<bytes, made, calls, evictions>>

(* Some(entry) of cache.get: the entry is promoted and its pool returned;  *)
(* the guard is dropped.  Both lookups end this way.                       *)
Found(t) ==
  LET k == bytes[t]
      p == cache[Position(cache, k)].pool
  IN  /\ k \in CachedKeys(cache)
      /\ cache' = Get(cache, k)
      /\ pool' = [pool EXCEPT ![t] = p]
      /\ lock' = NoThread
      /\ Goto(t, "returned")
      /\ handed' = [handed EXCEPT ![k] = @ \cup {p}]
      /\ touched' = Touch(touched, k)
      /\ UNCHANGED <<bytes, made, calls, evictions>>

Hit(t) ==
  /\ pc[t] = "lookup"
  /\ Found(t)

(* Mutant of Miss: the guard lives on during the decoding.                 *)
MissHoldingLock(t) ==
  /\ pc[t] = "lookup"
  /\ bytes[t] \notin CachedKeys(cache)
  /\ Goto(t, "decode")
  /\ UNCHANGED <<cache, lock, bytes, pool, made, calls, history>>

(* None of the first get: the guard is dropped before the decoding.        *)
Miss(t) ==
  /\ pc[t] = "lookup"
  /\ bytes[t] \notin CachedKeys(cache)
  /\ lock' = NoThread
  /\ Goto(t, "decode")
  /\ UNCHANGED <<cache, bytes, pool, made, calls, history>>

(* Mutant of Decode: a failed decoding is not noticed.                     *)
DecodeUnchecked(t) ==
  /\ pc[t] = "decode"
  /\ made' = Append(made, bytes[t])
  /\ pool' = [pool EXCEPT ![t] = Len(made) + 1]
  /\ Goto(t, "lock_insert")
  /\ UNCHANGED <<cache, lock, bytes, calls, history>>

(* Arc::new(DescriptorPool::decode(bytes)?), without the mutex.            *)
Decode(t) ==
  /\ pc[t] = "decode"
  /\ bytes[t] \in Decodable
  /\ made' = Append(made, bytes[t])
  /\ pool' = [pool EXCEPT ![t] = Len(made) + 1]
  /\ Goto(t, "lock_insert")
  /\ UNCHANGED <<cache, lock, bytes, calls, history>>

DecodeError(t) ==
  /\ pc[t] = "decode"
  /\ bytes[t] \notin Decodable
  /\ Goto(t, "failed")
  /\ UNCHANGED <<cache, lock, bytes, pool, made, calls, history>>

(* Mutant of LostRace: returns its own pool although another is cached.    *)
LostRaceKeepsOwnPool(t) ==
  /\ pc[t] = "insert"
  /\ bytes[t] \in CachedKeys(cache)
  /\ lock' = NoThread
  /\ Goto(t, "returned")
  /\ handed' = [handed EXCEPT ![bytes[t]] = @ \cup {pool[t]}]
  /\ UNCHANGED <<cache, bytes, pool, made, calls, evictions, touched>>

(* Another caller inserted the key meanwhile: its pool is returned and the *)
(* one decoded here is dropped.                                            *)
LostRace(t) ==
  /\ pc[t] = "insert"
  /\ Found(t)

(* Mutant of Insert: the cache is full only after one pool too many.       *)
InsertBeyondCapacity(t) ==
  LET k == bytes[t]
      updated == PushFront(cache, [key |-> k, pool |-> pool[t]], Capacity + 1)
  IN  /\ pc[t] = "insert"
      /\ k \notin CachedKeys(cache)
      /\ cache' = updated
      /\ lock' = NoThread
      /\ Goto(t, "returned")
      /\ handed' = [handed EXCEPT ![k] = @ \cup {pool[t]}]
      /\ evictions' = [j \in Keys |-> IF j \in CachedKeys(cache) \ CachedKeys(updated)
                                      THEN evictions[j] + 1 ELSE evictions[j]]
      /\ touched' = Touch(touched, k)
      /\ UNCHANGED <<bytes, pool, made, calls>>

Insert(t) ==
  LET k == bytes[t]
      updated == Put(cache, k, pool[t])
  IN  /\ pc[t] = "insert"
      /\ k \notin CachedKeys(cache)
      /\ cache' = updated
      /\ lock' = NoThread
      /\ Goto(t, "returned")
      /\ handed' = [handed EXCEPT ![k] = @ \cup {pool[t]}]
      /\ evictions' = [j \in Keys |-> IF j \in CachedKeys(cache) \ CachedKeys(updated)
                                      THEN evictions[j] + 1 ELSE evictions[j]]
      /\ touched' = Touch(touched, k)
      /\ UNCHANGED <<bytes, pool, made, calls>>

(* The caller drops the Arc, or the error, it was given.                   *)
Release(t) ==
  /\ pc[t] \in Finished
  /\ Goto(t, "idle")
  /\ bytes' = [bytes EXCEPT ![t] = NoKey]
  /\ pool' = [pool EXCEPT ![t] = NoPool]
  /\ UNCHANGED <<cache, lock, made, calls, history>>

(* Every call the bound allows was made and answered.                      *)
Terminated ==
  /\ calls = MaxCalls
  /\ \A t \in Threads : pc[t] = "idle"
  /\ UNCHANGED vars

Lookup(t) == Hit(t) \/ Miss(t) \/ LostRace(t) \/ Insert(t)
Decoding(t) == Decode(t) \/ DecodeError(t)
Step(t) == (\E k \in Keys : Call(t, k)) \/ Lock(t) \/ Lookup(t) \/ Decoding(t) \/ Release(t)

Next == (\E t \in Threads : Step(t)) \/ Terminated

Spec == Init /\ [][Next]_vars

-----------------------------------------------------------------------------
(* The variables have the types their comments say, and the cache never    *)
(* holds more than MAX_POOL_CACHE_ENTRIES pools.                           *)
TypeOK ==
  /\ made \in Seq(Decodable)
  /\ cache \in Seq([key : Keys, pool : 1 .. Len(made)])
  /\ Len(cache) <= Capacity
  /\ lock \in Threads \cup {NoThread}
  /\ pc \in [Threads -> {"idle"} \cup InCall \cup Finished]
  /\ bytes \in [Threads -> Keys \cup {NoKey}]
  /\ pool \in [Threads -> 0 .. Len(made)]
  /\ calls \in Nat
  /\ handed \in [Keys -> SUBSET (1 .. Len(made))]
  /\ evictions \in [Keys -> Nat]
  /\ touched \in Seq(Keys)

(* The pool a call returns, and every pool the cache would return, was     *)
(* decoded from exactly the bytes asked for, whatever was inserted,        *)
(* evicted or promoted while the call was not holding the mutex.           *)
PoolOfOwnBytes ==
  /\ \A i \in 1 .. Len(cache) : made[cache[i].pool] = cache[i].key
  /\ \A t \in Threads : pc[t] = "returned" =>
       pool[t] # NoPool /\ made[pool[t]] = bytes[t]

(* Threads that miss at the same time share one pool: callers of a key     *)
(* were given as many different pools as there were periods in which the   *)
(* key was cached, so a second pool of the same bytes exists only after an *)
(* eviction.                                                               *)
OnePoolPerResidence ==
  \A k \in Keys :
    Cardinality(handed[k]) = evictions[k] + (IF k \in CachedKeys(cache) THEN 1 ELSE 0)

(* The cache holds the Capacity most recently requested keys, in order of  *)
(* their last request: a hit counts as a use, eviction takes the key that  *)
(* went unused longest, and no key is lost while there is room.            *)
MostRecentlyUsedKept ==
  /\ Len(cache) = IF Len(touched) < Capacity THEN Len(touched) ELSE Capacity
  /\ \A i \in 1 .. Len(cache) : cache[i].key = touched[i]

(* A failed decode leaves no trace in the cache, and a call fails only if  *)
(* its bytes cannot be decoded.                                            *)
FailuresNotCached ==
  /\ CachedKeys(cache) \subseteq Decodable
  /\ \A t \in Threads : pc[t] = "failed" => bytes[t] \notin Decodable /\ pool[t] = NoPool

(* As long as a key stays cached its pool stays the same: a late decoder   *)
(* never replaces the pool that others already share.                      *)
NeverReplaced ==
  [][\A i \in 1 .. Len(cache), j \in 1 .. Len(cache') :
       cache[i].key = cache'[j].key => cache[i].pool = cache'[j].pool]_cache

(* No call waits for the decoding of another: even if every decoder hung,  *)
(* a call would get through both its critical sections.                    *)
DecodersBlockNobody ==
  \A t \in Threads :
    /\ pc[t] \in {"lock_lookup", "lookup"} ~> pc[t] \in {"returned", "decode"}
    /\ pc[t] \in {"lock_insert", "insert"} ~> pc[t] = "returned"

(* What a caller sees of the cache: the pool each key has, the progress    *)
(* and the result of each call, and all pools returned so far.             *)
Memory(c) ==
  [k \in Keys |-> IF k \in CachedKeys(c) THEN c[Position(c, k)].pool ELSE NoPool]
Statuses == [t \in Threads |-> IF pc[t] \in InCall THEN "busy" ELSE pc[t]]
Answers == [t \in Threads |-> IF pc[t] = "returned" THEN pool[t] ELSE NoPool]
PoolsHanded == UNION {handed[k] : k \in Keys}

(* The cache implements the memo table: a call takes effect when it finds  *)
(* or inserts its key under the mutex.                                     *)
Memo == INSTANCE PoolMemo WITH
  MaxPools <- MaxCalls,
  memo <- Memory(cache),
  status <- Statuses,
  asked <- bytes,
  answer <- Answers,
  used <- PoolsHanded

RefinesMemo == Memo!Spec
=============================================================================
