-------------------------- MODULE DescriptorProofs --------------------------
(***************************************************************************)
(* Proofs about PoolCache, that it implements PoolMemo, and about          *)
(* DescriptorResolver, for any number of threads, keys and resolvers, any  *)
(* capacity and any number of calls.                                       *)
(***************************************************************************)
EXTENDS DescriptorResolver, FiniteSetTheorems, SequenceTheorems, TLAPS

(* No key is cached twice.                                                 *)
DistinctKeys(c) ==
  \A i, j \in 1 .. Len(c) : c[i].key = c[j].key => i = j

Distinct(s) == \A i, j \in 1 .. Len(s) : s[i] = s[j] => i = j

(* The mutex is held exactly in the critical sections.                     *)
LockInv == \A t \in Threads : pc[t] \in Locked <=> lock = t

(* What a thread's variables hold in each phase of a call.                 *)
PhaseInv ==
  \A t \in Threads :
    /\ pc[t] = "idle" <=> bytes[t] = NoKey
    /\ pc[t] \in {"idle", "lock_lookup", "lookup", "decode", "failed"} => pool[t] = NoPool
    /\ pc[t] = "failed" => bytes[t] \notin Decodable
    /\ pc[t] \in {"lock_insert", "insert", "returned"} =>
         /\ pool[t] # NoPool
         /\ made[pool[t]] = bytes[t]

(* A pool that is about to be inserted was given to nobody yet, and no     *)
(* other thread holds it.                                                  *)
FreshInv ==
  \A t \in Threads : pc[t] \in {"lock_insert", "insert"} =>
    /\ \A k \in Keys : pool[t] \notin handed[k]
    /\ \A u \in Threads \ {t} : pool[u] # pool[t]

(* Every cached pool belongs to its key and was handed out for it.         *)
EntryInv ==
  /\ DistinctKeys(cache)
  /\ \A i \in 1 .. Len(cache) :
       /\ made[cache[i].pool] = cache[i].key
       /\ cache[i].pool \in handed[cache[i].key]
  /\ \A k \in Keys : \A p \in handed[k] : made[p] = k

RecencyInv ==
  /\ Distinct(touched)
  /\ MostRecentlyUsedKept

ResidenceInv ==
  /\ \A k \in Keys : IsFiniteSet(handed[k])
  /\ OnePoolPerResidence

(* u is s with its i-th element first.                                     *)
Promoted(u, s, i, S) ==
  /\ u \in Seq(S)
  /\ Len(u) = Len(s)
  /\ \A j \in 1 .. Len(s) : u[j] = IF j = 1 THEN s[i] ELSE IF j <= i THEN s[j - 1] ELSE s[j]
  /\ \A j \in 1 .. Len(s) : \E m \in 1 .. Len(s) : u[m] = s[j]
  /\ \A j \in 1 .. Len(s) : \E m \in 1 .. Len(s) : u[j] = s[m]

Inv == TypeOK /\ LockInv /\ PhaseInv /\ FreshInv /\ EntryInv
-----------------------------------------------------------------------------
(* Moving an element to the front permutes the sequence.                   *)
LEMMA PromoteProperties ==
  ASSUME NEW S, NEW s \in Seq(S), NEW i \in 1 .. Len(s)
  PROVE  Promoted(Promote(s, i), s, i, S)
<1> DEFINE P == Promote(s, i)
<1>1. Len(s) \in Nat /\ \A j \in 1 .. Len(s) : s[j] \in S
  BY ElementOfSeq, LenProperties
<1>2. \A j \in 1 .. Len(s) : P[j] = IF j = 1 THEN s[i] ELSE IF j <= i THEN s[j - 1] ELSE s[j]
  BY DEF Promote
<1>3. P \in [1 .. Len(s) -> S]
  BY <1>1 DEF Promote
<1>4. P \in Seq(S) /\ Len(P) = Len(s)
  BY <1>1, <1>3
<1>5. ASSUME NEW j \in 1 .. Len(s)
      PROVE  \E m \in 1 .. Len(s) : P[m] = s[j]
  <2>1. CASE j = i
    BY <1>1, <1>2, <2>1
  <2>2. CASE j < i
    <3>1. j + 1 \in 1 .. Len(s) /\ P[j + 1] = s[j]
      BY <1>1, <1>2, <2>2
    <3> QED BY <3>1
  <2>3. CASE j > i
    BY <1>1, <1>2, <2>3
  <2> QED BY <1>1, <2>1, <2>2, <2>3
<1>6. ASSUME NEW j \in 1 .. Len(s)
      PROVE  \E m \in 1 .. Len(s) : P[j] = s[m]
  <2>1. CASE j = 1
    BY <1>1, <1>2, <2>1
  <2>2. CASE j # 1 /\ j <= i
    <3>1. j - 1 \in 1 .. Len(s) /\ P[j] = s[j - 1]
      BY <1>1, <1>2, <2>2
    <3> QED BY <3>1
  <2>3. CASE j > i
    BY <1>1, <1>2, <2>3
  <2> QED BY <1>1, <2>1, <2>2, <2>3
<1> QED BY <1>2, <1>4, <1>5, <1>6 DEF Promoted

(* p is s with e in front, cut to n elements.                              *)
Pushed(p, s, e, n) ==
  /\ Len(s) < n => Len(p) = Len(s) + 1
  /\ Len(s) = n => Len(p) = n
  /\ Len(p) \in 1 .. n
  /\ p[1] = e
  /\ \A j \in 2 .. Len(p) : p[j] = s[j - 1]

(* Pushing an element in front of at most n elements keeps the first n.    *)
LEMMA PushFrontProperties ==
  ASSUME NEW S, NEW s \in Seq(S), NEW e \in S, NEW n \in Nat \ {0}, Len(s) <= n
  PROVE  /\ PushFront(s, e, n) \in Seq(S)
         /\ Pushed(PushFront(s, e, n), s, e, n)
<1> DEFINE P == PushFront(s, e, n)
<1> DEFINE l == IF Len(s) < n THEN Len(s) + 1 ELSE n
<1>1. Len(s) \in Nat /\ \A j \in 1 .. Len(s) : s[j] \in S
  BY ElementOfSeq, LenProperties
<1>2. l \in Nat /\ l \in 1 .. n /\ l <= Len(s) + 1
  BY <1>1
<1>3. \A j \in 1 .. l : P[j] = IF j = 1 THEN e ELSE s[j - 1]
  BY DEF PushFront
<1>4. P \in [1 .. l -> S]
  BY <1>1, <1>2 DEF PushFront
<1>5. P \in Seq(S) /\ Len(P) = l
  BY <1>2, <1>4
<1> QED BY <1>2, <1>3, <1>5 DEF Pushed

Entries(K, P) == [key : K, pool : P]

(* A cached key has a position.                                            *)
LEMMA PositionProperties ==
  ASSUME NEW c, NEW k \in CachedKeys(c)
  PROVE  Position(c, k) \in 1 .. Len(c) /\ c[Position(c, k)].key = k
BY DEF CachedKeys, Position

(* A hit keeps every entry and only changes their order.                   *)
LEMMA GetProperties ==
  ASSUME NEW K, NEW P, NEW c \in Seq(Entries(K, P)), NEW k \in CachedKeys(c)
  PROVE  /\ Get(c, k) \in Seq(Entries(K, P))
         /\ Len(Get(c, k)) = Len(c)
         /\ \A j \in 1 .. Len(c) : \E m \in 1 .. Len(c) : Get(c, k)[j] = c[m]
         /\ CachedKeys(Get(c, k)) = CachedKeys(c)
         /\ DistinctKeys(c) => DistinctKeys(Get(c, k))
<1> DEFINE i == Position(c, k)
<1> DEFINE g == Get(c, k)
<1>1. i \in 1 .. Len(c)
  BY PositionProperties
<1>2. Len(c) \in Nat
  BY LenProperties
<1>3. g = Promote(c, i)
  BY DEF Get
<1>4. /\ g \in Seq(Entries(K, P))
      /\ Len(g) = Len(c)
      /\ \A j \in 1 .. Len(c) : g[j] = IF j = 1 THEN c[i] ELSE IF j <= i THEN c[j - 1] ELSE c[j]
      /\ \A j \in 1 .. Len(c) : \E m \in 1 .. Len(c) : g[m] = c[j]
      /\ \A j \in 1 .. Len(c) : \E m \in 1 .. Len(c) : g[j] = c[m]
  <2> DEFINE S == Entries(K, P)
  <2>1. c \in Seq(S) /\ i \in 1 .. Len(c)
    BY <1>1
  <2> HIDE DEF S, i
  <2>2. Promoted(Promote(c, i), c, i, S)
    BY <2>1, PromoteProperties
  <2> QED BY <1>3, <2>2 DEF Promoted, S
<1> HIDE DEF i, g
<1>5. CachedKeys(g) = CachedKeys(c)
  <2>1. ASSUME NEW x \in CachedKeys(g) PROVE x \in CachedKeys(c)
    <3>1. PICK j \in 1 .. Len(c) : x = g[j].key
      BY <1>4 DEF CachedKeys
    <3>2. PICK m \in 1 .. Len(c) : g[j] = c[m]
      BY <1>4
    <3> QED BY <3>1, <3>2 DEF CachedKeys
  <2>2. ASSUME NEW x \in CachedKeys(c) PROVE x \in CachedKeys(g)
    <3>1. PICK j \in 1 .. Len(c) : x = c[j].key
      BY DEF CachedKeys
    <3>2. PICK m \in 1 .. Len(c) : g[m] = c[j]
      BY <1>4
    <3> QED BY <1>4, <3>1, <3>2 DEF CachedKeys
  <2> QED BY <2>1, <2>2
<1>6. ASSUME DistinctKeys(c) PROVE DistinctKeys(g)
  <2> DEFINE from(j) == IF j = 1 THEN i ELSE IF j <= i THEN j - 1 ELSE j
  <2>1. ASSUME NEW j \in 1 .. Len(c)
        PROVE  from(j) \in 1 .. Len(c) /\ g[j] = c[from(j)]
    <3>1. g[j] = IF j = 1 THEN c[i] ELSE IF j <= i THEN c[j - 1] ELSE c[j]
      BY <1>4
    <3> QED BY <1>1, <1>2, <3>1
  <2>2. SUFFICES ASSUME NEW j \in 1 .. Len(c), NEW m \in 1 .. Len(c), g[j].key = g[m].key
                 PROVE  j = m
    BY <1>4 DEF DistinctKeys
  <2>3. from(j) = from(m)
    BY <1>6, <2>1, <2>2 DEF DistinctKeys
  <2> QED BY <1>1, <1>2, <2>3
<1> QED BY <1>4, <1>5, <1>6 DEF g

(* Inserting a new key evicts the last entry, if the cache is full, and    *)
(* no other.                                                               *)
LEMMA PutProperties ==
  ASSUME NEW K, NEW P, NEW c \in Seq(Entries(K, P)), Len(c) <= Capacity,
         NEW k \in K, k \notin CachedKeys(c), NEW p \in P
  PROVE  /\ Put(c, k, p) \in Seq(Entries(K, P))
         /\ Len(c) < Capacity => Len(Put(c, k, p)) = Len(c) + 1
         /\ Len(c) = Capacity => Len(Put(c, k, p)) = Capacity
         /\ Len(Put(c, k, p)) \in 1 .. Capacity
         /\ Put(c, k, p)[1] = [key |-> k, pool |-> p]
         /\ \A j \in 2 .. Len(Put(c, k, p)) : j - 1 \in 1 .. Len(c) /\ Put(c, k, p)[j] = c[j - 1]
         /\ DistinctKeys(c) => DistinctKeys(Put(c, k, p))
         /\ k \in CachedKeys(Put(c, k, p))
         /\ CachedKeys(Put(c, k, p)) \subseteq CachedKeys(c) \cup {k}
         /\ DistinctKeys(c) => CachedKeys(c) \ CachedKeys(Put(c, k, p)) =
                               IF Len(c) < Capacity THEN {} ELSE {c[Capacity].key}
<1> DEFINE e == [key |-> k, pool |-> p]
<1> DEFINE u == Put(c, k, p)
<1>1. Len(c) \in Nat /\ Capacity \in Nat \ {0}
  BY LenProperties, CapacityAssumption
<1>2. e \in Entries(K, P)
  BY DEF Entries
<1>3. u = PushFront(c, e, Capacity)
  BY DEF Put
<1>4. /\ u \in Seq(Entries(K, P))
      /\ Len(c) < Capacity => Len(u) = Len(c) + 1
      /\ Len(c) = Capacity => Len(u) = Capacity
      /\ Len(u) \in 1 .. Capacity
      /\ u[1] = e
      /\ \A j \in 2 .. Len(u) : u[j] = c[j - 1]
  <2> DEFINE S == Entries(K, P)
  <2>1. c \in Seq(S)
    OBVIOUS
  <2>2. e \in S
    BY <1>2
  <2> HIDE DEF S, e, u
  <2>3. Capacity \in Nat \ {0}
    BY <1>1
  <2>4. /\ PushFront(c, e, Capacity) \in Seq(S)
        /\ Pushed(PushFront(c, e, Capacity), c, e, Capacity)
    BY <2>1, <2>2, <2>3, PushFrontProperties, Zenon
  <2> QED BY <1>3, <2>4 DEF S, Pushed
<1> HIDE DEF u
<1>5. \A j \in 1 .. Len(u) : j = 1 \/ (j - 1 \in 1 .. Len(c) /\ u[j] = c[j - 1])
  BY <1>1, <1>4
<1>6. k \in CachedKeys(u)
  <2>1. 1 \in 1 .. Len(u) /\ u[1].key = k
    BY <1>1, <1>4
  <2> QED BY <2>1 DEF CachedKeys
<1>7. CachedKeys(u) \subseteq CachedKeys(c) \cup {k}
  <2>1. SUFFICES ASSUME NEW j \in 1 .. Len(u), j # 1 PROVE u[j].key \in CachedKeys(c)
    <3>1. u[1].key = k
      BY <1>4
    <3> QED BY <3>1 DEF CachedKeys
  <2>2. j - 1 \in 1 .. Len(c) /\ u[j] = c[j - 1]
    BY <1>4, <1>5, <2>1
  <2> QED BY <2>2 DEF CachedKeys
<1>8. ASSUME DistinctKeys(c) PROVE DistinctKeys(u)
  <2>1. SUFFICES ASSUME NEW j \in 1 .. Len(u), NEW m \in 1 .. Len(u), u[j].key = u[m].key
                 PROVE  j = m
    BY DEF DistinctKeys
  <2>2. ASSUME NEW n \in 1 .. Len(u), n # 1 PROVE u[n].key # k
    <3>1. n - 1 \in 1 .. Len(c) /\ u[n] = c[n - 1]
      BY <1>4, <1>5, <2>2
    <3> QED BY <3>1 DEF CachedKeys
  <2>3. CASE j = 1 \/ m = 1
    BY <1>4, <2>1, <2>2, <2>3
  <2>4. CASE j # 1 /\ m # 1
    <3>1. j - 1 \in 1 .. Len(c) /\ m - 1 \in 1 .. Len(c)
      BY <1>5, <2>4
    <3>2. u[j] = c[j - 1] /\ u[m] = c[m - 1]
      BY <1>4, <2>4
    <3>3. j - 1 = m - 1
      BY <1>8, <2>1, <3>1, <3>2 DEF DistinctKeys
    <3> QED BY <1>1, <1>4, <3>3
  <2> QED BY <2>3, <2>4
<1>9. ASSUME DistinctKeys(c)
      PROVE  CachedKeys(c) \ CachedKeys(u) =
               IF Len(c) < Capacity THEN {} ELSE {c[Capacity].key}
  <2>1. \A j \in 1 .. Len(c) : j < Capacity => c[j].key \in CachedKeys(u)
    <3>1. SUFFICES ASSUME NEW j \in 1 .. Len(c), j < Capacity
                   PROVE  c[j].key \in CachedKeys(u)
      OBVIOUS
    <3>2. j + 1 \in 1 .. Len(u) /\ u[j + 1] = c[j]
      BY <1>1, <1>4, <3>1
    <3> QED BY <3>2 DEF CachedKeys
  <2>2. CASE Len(c) < Capacity
    <3>1. \A j \in 1 .. Len(c) : j < Capacity
      BY <1>1, <2>2
    <3> QED BY <2>1, <2>2, <3>1 DEF CachedKeys
  <2>3. CASE ~(Len(c) < Capacity)
    <3>1. Len(c) = Capacity /\ Capacity \in 1 .. Len(c)
      BY <1>1, <2>3
    <3>2. c[Capacity].key \notin CachedKeys(u)
      <4>1. SUFFICES ASSUME NEW j \in 1 .. Len(u), u[j].key = c[Capacity].key PROVE FALSE
        BY DEF CachedKeys
      <4>2. CASE j = 1
        BY <1>4, <3>1, <4>1, <4>2 DEF CachedKeys
      <4>3. CASE j # 1
        <5>1. j - 1 \in 1 .. Len(c) /\ j - 1 # Capacity /\ u[j] = c[j - 1]
          BY <1>1, <1>4, <1>5, <4>3
        <5> QED BY <1>9, <3>1, <4>1, <5>1 DEF DistinctKeys
      <4> QED BY <4>2, <4>3
    <3>3. \A j \in 1 .. Len(c) : j = Capacity \/ j < Capacity
      BY <1>1, <3>1
    <3> QED BY <2>1, <2>3, <3>1, <3>2, <3>3 DEF CachedKeys
  <2> QED BY <2>2, <2>3
<1> QED BY <1>4, <1>5, <1>6, <1>7, <1>8, <1>9 DEF u

(* Touch moves a key to the front, or puts it there.                       *)
LEMMA TouchProperties ==
  ASSUME NEW s \in Seq(Keys), NEW k \in Keys
  PROVE  Touch(s, k) \in Seq(Keys)
<1>1. CASE \E i \in 1 .. Len(s) : s[i] = k
  <2>1. KeyPosition(s, k) \in 1 .. Len(s)
    BY <1>1 DEF KeyPosition
  <2> QED BY <1>1, <2>1, PromoteProperties DEF Touch, Promoted
<1>2. CASE ~\E i \in 1 .. Len(s) : s[i] = k
  <2>1. Len(s) + 1 \in Nat \ {0} /\ Len(s) <= Len(s) + 1
    BY LenProperties
  <2>2. Touch(s, k) = PushFront(s, k, Len(s) + 1)
    BY <1>2 DEF Touch
  <2> QED BY <2>1, <2>2, PushFrontProperties, Zenon
<1> QED BY <1>1, <1>2

-----------------------------------------------------------------------------
(* An empty cache and no call satisfy the invariant.                       *)
LEMMA InitInv == Init => Inv
<1> SUFFICES ASSUME Init PROVE Inv
  OBVIOUS
<1>1. TypeOK
  <2>1. Capacity \in Nat
    BY CapacityAssumption
  <2> QED BY <2>1 DEF Init, TypeOK, NoPool, InCall, Locking, Locked, Finished
<1>2. LockInv /\ PhaseInv /\ FreshInv
  BY KeysAssumption, ThreadsAssumption DEF Init, LockInv, PhaseInv, FreshInv, Locked
<1>3. EntryInv
  BY DEF Init, EntryInv, DistinctKeys
<1> QED BY <1>1, <1>2, <1>3 DEF Inv

(* Steps that leave the cache, the pools and what was handed out alone.    *)
LEMMA BookkeepingStep ==
  ASSUME Inv, NEW t \in Threads,
         (\E k \in Keys : Call(t, k)) \/ Lock(t) \/ Miss(t) \/ DecodeError(t) \/ Release(t)
  PROVE  Inv'
<1> USE DEF Inv
<1> DEFINE PC == {"idle"} \cup InCall \cup Finished
<1>0. /\ UNCHANGED <<cache, made, handed, evictions, touched>>
      /\ lock' \in Threads \cup {NoThread}
      /\ calls' \in Nat
      /\ bytes' \in [Threads -> Keys \cup {NoKey}]
      /\ pool' = pool \/ pool' = [pool EXCEPT ![t] = NoPool]
      /\ \E q \in PC : pc' = [pc EXCEPT ![t] = q]
  <2>1. CASE \E k \in Keys : Call(t, k)
    <3>1. PICK k \in Keys : Call(t, k)
      BY <2>1
    <3>2. "lock_lookup" \in PC /\ pc' = [pc EXCEPT ![t] = "lock_lookup"]
      BY <3>1 DEF Call, Goto, InCall, Locking
    <3>3. calls' \in Nat /\ bytes' \in [Threads -> Keys \cup {NoKey}]
      BY <3>1 DEF Call, TypeOK
    <3> QED BY <3>1, <3>2, <3>3 DEF Call, TypeOK, history
  <2>2. CASE Lock(t)
    <3>1. \/ pc' = [pc EXCEPT ![t] = "lookup"]
          \/ pc' = [pc EXCEPT ![t] = "insert"]
      BY <2>2 DEF Lock, Goto, Locking
    <3>2. "lookup" \in PC /\ "insert" \in PC
      BY DEF InCall, Locked
    <3>3. \E q \in PC : pc' = [pc EXCEPT ![t] = q]
      BY <3>1, <3>2
    <3> QED BY <2>2, <3>3 DEF Lock, TypeOK, history
  <2>3. CASE Miss(t)
    <3>1. "decode" \in PC /\ pc' = [pc EXCEPT ![t] = "decode"]
      BY <2>3 DEF Miss, Goto, InCall
    <3> QED BY <2>3, <3>1 DEF Miss, TypeOK, history
  <2>4. CASE DecodeError(t)
    BY <2>4 DEF DecodeError, Goto, TypeOK, history, Finished
  <2>5. CASE Release(t)
    BY <2>5 DEF Release, Goto, TypeOK, history
  <2> QED BY <2>1, <2>2, <2>3, <2>4, <2>5
<1>1. TypeOK'
  <2>1. pc' \in [Threads -> PC]
    BY <1>0 DEF TypeOK
  <2>2. pool' \in [Threads -> 0 .. Len(made)]
    <3>1. pool \in [Threads -> 0 .. Len(made)] /\ Len(made) \in Nat
      BY LenProperties DEF TypeOK
    <3> QED BY <1>0, <3>1 DEF NoPool
  <2> QED BY <1>0, <2>1, <2>2 DEF TypeOK
<1>2. LockInv'
  BY ThreadsAssumption
  DEF TypeOK, LockInv, Call, Lock, Miss, DecodeError, Release, Goto, history,
      Locking, Locked, Finished
<1>3. PhaseInv'
  BY KeysAssumption
  DEF TypeOK, PhaseInv, Call, Lock, Miss, DecodeError, Release, Goto, history,
      Locking, Finished, NoPool
<1>4. FreshInv'
  <2>1. SUFFICES ASSUME NEW v \in Threads, pc'[v] \in {"lock_insert", "insert"}
                 PROVE  /\ \A k \in Keys : pool'[v] \notin handed'[k]
                        /\ \A u \in Threads \ {v} : pool'[u] # pool'[v]
    BY DEF FreshInv
  <2>2. pc[v] \in {"lock_insert", "insert"} /\ pool'[v] = pool[v]
    BY <2>1 DEF TypeOK, Call, Lock, Miss, DecodeError, Release, Goto, Locking, Finished
  <2>3. pool[v] # NoPool
    BY <2>2 DEF PhaseInv
  <2>4. \A u \in Threads : pool'[u] \in {pool[u], NoPool}
    BY <1>0 DEF TypeOK
  <2> QED BY <1>0, <2>2, <2>3, <2>4 DEF FreshInv
<1>5. EntryInv'
  BY DEF EntryInv, DistinctKeys, Call, Lock, Miss, DecodeError, Release, history
<1> QED BY <1>1, <1>2, <1>3, <1>4, <1>5

(* Either lookup under the mutex finds the key.                            *)
LEMMA FoundStep ==
  ASSUME Inv, NEW t \in Threads, pc[t] \in Locked, Found(t)
  PROVE  Inv'
<1> USE DEF Inv
<1> DEFINE k == bytes[t]
<1> DEFINE P == 1 .. Len(made)
<1> DEFINE i == Position(cache, k)
<1> DEFINE p == cache[i].pool
<1>1. k \in CachedKeys(cache) /\ cache' = Get(cache, k)
  BY DEF Found
<1>2. i \in 1 .. Len(cache) /\ cache[i].key = k
  BY <1>1, PositionProperties
<1>3. cache \in Seq(Entries(Keys, P)) /\ Len(cache) \in Nat /\ Len(made) \in Nat
  BY LenProperties DEF TypeOK, Entries
<1>4. cache[i] \in Entries(Keys, P)
  BY <1>2, <1>3, ElementOfSeq
<1>5. k \in Keys /\ p \in P
  BY <1>2, <1>4 DEF Entries
<1>6. /\ cache' \in Seq(Entries(Keys, P))
      /\ Len(cache') = Len(cache)
      /\ \A j \in 1 .. Len(cache) : \E m \in 1 .. Len(cache) : cache'[j] = cache[m]
      /\ CachedKeys(cache') = CachedKeys(cache)
      /\ DistinctKeys(cache')
  <2> HIDE DEF P, k
  <2>1. cache \in Seq(Entries(Keys, P))
    BY <1>3
  <2>2. /\ Get(cache, k) \in Seq(Entries(Keys, P))
        /\ Len(Get(cache, k)) = Len(cache)
        /\ \A j \in 1 .. Len(cache) : \E m \in 1 .. Len(cache) : Get(cache, k)[j] = cache[m]
        /\ CachedKeys(Get(cache, k)) = CachedKeys(cache)
        /\ DistinctKeys(cache) => DistinctKeys(Get(cache, k))
    BY <1>1, <2>1, GetProperties, Zenon
  <2> QED BY <1>1, <2>2 DEF EntryInv
<1>7. made[p] = k /\ p \in handed[k]
  BY <1>2 DEF EntryInv
<1>8. handed' = handed
  BY <1>7 DEF Found, TypeOK
<1>9. /\ pc' = [pc EXCEPT ![t] = "returned"]
      /\ pool' = [pool EXCEPT ![t] = p]
      /\ lock' = NoThread
      /\ UNCHANGED <<bytes, made, calls, evictions>>
  BY DEF Found, Goto
<1> HIDE DEF i, p
<1>10. TypeOK'
  <2>1. touched' \in Seq(Keys)
    <3>1. touched' = Touch(touched, k)
      BY DEF Found
    <3> QED BY <3>1, <1>5, TouchProperties DEF TypeOK
  <2>2. Len(cache') <= Capacity
    BY <1>6 DEF TypeOK
  <2>3. pc' \in [Threads -> {"idle"} \cup InCall \cup Finished]
    BY <1>9 DEF TypeOK, Finished
  <2>4. pool' \in [Threads -> 0 .. Len(made)]
    BY <1>3, <1>5, <1>9 DEF TypeOK
  <2> QED BY <1>6, <1>8, <1>9, <2>1, <2>2, <2>3, <2>4 DEF TypeOK, Entries
<1>11. LockInv'
  BY <1>9, ThreadsAssumption DEF TypeOK, LockInv, Locked
<1>12. PhaseInv'
  BY <1>3, <1>5, <1>7, <1>9 DEF TypeOK, PhaseInv, NoPool, Locked
<1>13. FreshInv'
  <2>1. SUFFICES ASSUME NEW v \in Threads, pc'[v] \in {"lock_insert", "insert"}
                 PROVE  /\ \A j \in Keys : pool'[v] \notin handed'[j]
                        /\ \A u \in Threads \ {v} : pool'[u] # pool'[v]
    BY DEF FreshInv
  <2>2. v # t /\ pc[v] \in {"lock_insert", "insert"} /\ pool'[v] = pool[v]
    BY <1>9, <2>1 DEF TypeOK
  <2>3. pool[v] # p
    BY <1>5, <1>7, <2>2 DEF FreshInv
  <2> QED BY <1>8, <1>9, <2>2, <2>3 DEF FreshInv, TypeOK
<1>14. EntryInv'
  <2>1. ASSUME NEW n \in 1 .. Len(cache')
        PROVE  made[cache'[n].pool] = cache'[n].key /\ cache'[n].pool \in handed[cache'[n].key]
    BY <1>6 DEF EntryInv
  <2>2. \A j \in Keys : \A q \in handed[j] : made[q] = j
    BY DEF EntryInv
  <2>3. EntryInv' <=> /\ DistinctKeys(cache')
                      /\ \A n \in 1 .. Len(cache') :
                           /\ made'[cache'[n].pool] = cache'[n].key
                           /\ cache'[n].pool \in handed'[cache'[n].key]
                      /\ \A j \in Keys : \A q \in handed'[j] : made'[q] = j
    BY DEF EntryInv
  <2> QED BY <1>6, <1>8, <1>9, <2>1, <2>2, <2>3
<1> QED BY <1>10, <1>11, <1>12, <1>13, <1>14

(* Decoding, outside the mutex, keeps the invariant.                       *)
LEMMA DecodeStep ==
  ASSUME Inv, NEW t \in Threads, Decode(t)
  PROVE  Inv'
<1> USE DEF Inv
<1> DEFINE k == bytes[t]
<1> DEFINE n == Len(made) + 1
<1>1. /\ pc[t] = "decode" /\ k \in Decodable
      /\ made' = Append(made, k)
      /\ pool' = [pool EXCEPT ![t] = n]
      /\ pc' = [pc EXCEPT ![t] = "lock_insert"]
      /\ UNCHANGED <<cache, lock, bytes, calls, handed, evictions, touched>>
  BY DEF Decode, Goto, history
<1>2. /\ made \in Seq(Decodable) /\ Len(made) \in Nat
      /\ made' \in Seq(Decodable) /\ Len(made') = n
      /\ made'[n] = k
      /\ \A p \in 1 .. Len(made) : p \in 1 .. Len(made') /\ p # n /\ made'[p] = made[p]
  BY <1>1, LenProperties DEF TypeOK
<1>3. 1 .. Len(made) \subseteq 1 .. Len(made') /\ n \in 1 .. Len(made')
  BY <1>2
<1>4. TypeOK'
  <2>1. cache \in Seq(Entries(Keys, 1 .. Len(made')))
    <3>1. Entries(Keys, 1 .. Len(made)) \subseteq Entries(Keys, 1 .. Len(made'))
      BY <1>3 DEF Entries
    <3>2. cache \in Seq(Entries(Keys, 1 .. Len(made)))
      BY DEF TypeOK, Entries
    <3> QED BY <3>1, <3>2, SeqMonotonic, Zenon
  <2>2. pool' \in [Threads -> 0 .. Len(made')]
    BY <1>1, <1>2 DEF TypeOK
  <2>3. pc' \in [Threads -> {"idle"} \cup InCall \cup Finished]
    BY <1>1 DEF TypeOK, InCall, Locking
  <2>4. handed' \in [Keys -> SUBSET (1 .. Len(made'))]
    BY <1>1, <1>3 DEF TypeOK
  <2> QED BY <1>1, <1>2, <2>1, <2>2, <2>3, <2>4 DEF TypeOK, Entries
<1>5. LockInv'
  BY <1>1, ThreadsAssumption DEF TypeOK, LockInv, Locked
<1>6. PhaseInv'
  <2>1. SUFFICES ASSUME NEW u \in Threads
                 PROVE  /\ pc'[u] = "idle" <=> bytes'[u] = NoKey
                        /\ pc'[u] \in {"idle", "lock_lookup", "lookup", "decode", "failed"}
                             => pool'[u] = NoPool
                        /\ pc'[u] = "failed" => bytes'[u] \notin Decodable
                        /\ pc'[u] \in {"lock_insert", "insert", "returned"} =>
                             pool'[u] # NoPool /\ made'[pool'[u]] = bytes'[u]
    BY DEF PhaseInv
  <2>2. CASE u = t
    <3>1. pc'[t] = "lock_insert" /\ pool'[t] = n /\ bytes'[t] = k
      BY <1>1 DEF TypeOK
    <3>2. k # NoKey /\ n # NoPool
      BY <1>1, <1>2, KeysAssumption DEF NoPool
    <3> QED BY <1>2, <2>2, <3>1, <3>2
  <2>3. CASE u # t
    <3>1. pc'[u] = pc[u] /\ pool'[u] = pool[u] /\ bytes'[u] = bytes[u]
      BY <1>1, <2>3 DEF TypeOK
    <3>2. pool[u] \in 0 .. Len(made)
      BY DEF TypeOK
    <3>3. pool[u] # NoPool => made'[pool[u]] = made[pool[u]]
      BY <1>2, <3>2 DEF NoPool
    <3> QED BY <3>1, <3>3 DEF PhaseInv
  <2> QED BY <2>2, <2>3
<1>7. FreshInv'
  <2>1. SUFFICES ASSUME NEW v \in Threads, pc'[v] \in {"lock_insert", "insert"}
                 PROVE  /\ \A j \in Keys : pool'[v] \notin handed'[j]
                        /\ \A u \in Threads \ {v} : pool'[u] # pool'[v]
    BY DEF FreshInv
  <2>2. \A j \in Keys : n \notin handed[j]
    BY <1>2 DEF TypeOK
  <2>3. \A u \in Threads : pool[u] # n
    BY <1>2 DEF TypeOK
  <2>4. CASE v = t
    BY <1>1, <2>2, <2>3, <2>4 DEF TypeOK
  <2>5. CASE v # t
    <3>1. pc[v] \in {"lock_insert", "insert"} /\ pool'[v] = pool[v]
      BY <1>1, <2>1, <2>5 DEF TypeOK
    <3> QED BY <1>1, <2>3, <3>1 DEF FreshInv, TypeOK
  <2> QED BY <2>4, <2>5
<1>8. EntryInv'
  <2>1. \A i \in 1 .. Len(cache) : cache[i] \in Entries(Keys, 1 .. Len(made))
    BY ElementOfSeq DEF TypeOK, Entries
  <2>2. \A i \in 1 .. Len(cache) : made'[cache[i].pool] = made[cache[i].pool]
    BY <1>2, <2>1 DEF Entries
  <2>3. \A j \in Keys : \A p \in handed[j] : made'[p] = made[p]
    BY <1>2 DEF TypeOK
  <2> QED BY <1>1, <2>2, <2>3 DEF EntryInv, DistinctKeys
<1> QED BY <1>4, <1>5, <1>6, <1>7, <1>8

(* So does inserting what no other thread has inserted meanwhile.          *)
LEMMA InsertStep ==
  ASSUME Inv, NEW t \in Threads, Insert(t)
  PROVE  Inv'
<1> USE DEF Inv
<1> DEFINE k == bytes[t]
<1> DEFINE p == pool[t]
<1> DEFINE P == 1 .. Len(made)
<1> DEFINE c == Put(cache, k, p)
<1>1. /\ pc[t] = "insert" /\ k \notin CachedKeys(cache)
      /\ cache' = c
      /\ lock' = NoThread
      /\ pc' = [pc EXCEPT ![t] = "returned"]
      /\ handed' = [handed EXCEPT ![k] = @ \cup {p}]
      /\ evictions' = [j \in Keys |-> IF j \in CachedKeys(cache) \ CachedKeys(c)
                                      THEN evictions[j] + 1 ELSE evictions[j]]
      /\ touched' = Touch(touched, k)
      /\ UNCHANGED <<bytes, pool, made, calls>>
  BY DEF Insert, Goto
<1>2. /\ p # NoPool /\ made[p] = k /\ k # NoKey
      /\ \A j \in Keys : p \notin handed[j]
      /\ \A u \in Threads \ {t} : pool[u] # p
  BY <1>1 DEF PhaseInv, FreshInv
<1>3. k \in Keys /\ p \in P /\ Len(made) \in Nat
  BY <1>2, LenProperties DEF TypeOK, NoPool
<1> HIDE DEF k, p
<1>4. /\ c \in Seq(Entries(Keys, P))
      /\ Len(c) \in 1 .. Capacity
      /\ c[1] = [key |-> k, pool |-> p]
      /\ \A j \in 2 .. Len(c) : j - 1 \in 1 .. Len(cache) /\ c[j] = cache[j - 1]
      /\ DistinctKeys(c)
  <2> HIDE DEF P
  <2>1. cache \in Seq(Entries(Keys, P))
    BY DEF TypeOK, Entries, P
  <2>2. Len(cache) <= Capacity
    BY DEF TypeOK
  <2>3. /\ Put(cache, k, p) \in Seq(Entries(Keys, P))
        /\ Len(Put(cache, k, p)) \in 1 .. Capacity
        /\ Put(cache, k, p)[1] = [key |-> k, pool |-> p]
        /\ \A j \in 2 .. Len(Put(cache, k, p)) :
             j - 1 \in 1 .. Len(cache) /\ Put(cache, k, p)[j] = cache[j - 1]
        /\ DistinctKeys(cache) => DistinctKeys(Put(cache, k, p))
    BY <1>1, <1>3, <2>1, <2>2, PutProperties
  <2> QED BY <2>3 DEF EntryInv
<1> HIDE DEF c
<1>5. TypeOK'
  <2>1. touched' \in Seq(Keys)
    BY <1>1, <1>3, TouchProperties DEF TypeOK
  <2>2. pc' \in [Threads -> {"idle"} \cup InCall \cup Finished]
    BY <1>1 DEF TypeOK, Finished
  <2>3. handed' \in [Keys -> SUBSET P]
    BY <1>1, <1>3 DEF TypeOK
  <2>4. evictions' \in [Keys -> Nat]
    BY <1>1 DEF TypeOK
  <2>5. Len(cache') <= Capacity
    BY <1>1, <1>4, CapacityAssumption
  <2> QED BY <1>1, <1>4, <2>1, <2>2, <2>3, <2>4, <2>5 DEF TypeOK, Entries
<1>6. LockInv'
  BY <1>1, ThreadsAssumption DEF TypeOK, LockInv, Locked
<1>7. PhaseInv'
  BY <1>1, <1>2 DEF TypeOK, PhaseInv, k, p
<1>8. FreshInv'
  <2>1. SUFFICES ASSUME NEW v \in Threads, pc'[v] \in {"lock_insert", "insert"}
                 PROVE  /\ \A j \in Keys : pool'[v] \notin handed'[j]
                        /\ \A u \in Threads \ {v} : pool'[u] # pool'[v]
    BY DEF FreshInv
  <2>2. v # t /\ pc[v] \in {"lock_insert", "insert"} /\ pool'[v] = pool[v]
    BY <1>1, <2>1 DEF TypeOK
  <2>3. \A j \in Keys : handed'[j] \subseteq handed[j] \cup {p}
    BY <1>1 DEF TypeOK
  <2> QED BY <1>1, <1>2, <2>2, <2>3 DEF FreshInv
<1>9. EntryInv'
  <2>1. \A j \in Keys : handed[j] \subseteq handed'[j]
    BY <1>1 DEF TypeOK
  <2>2. p \in handed'[k]
    BY <1>1, <1>3 DEF TypeOK
  <2>3. \A j \in Keys : \A q \in handed'[j] : made'[q] = j
    BY <1>1, <1>2 DEF TypeOK, EntryInv
  <2>4. \A j \in 1 .. Len(cache) : cache[j].key \in Keys
    <3>1. cache \in Seq(Entries(Keys, P))
      BY DEF TypeOK, Entries
    <3>2. \A j \in 1 .. Len(cache) : cache[j] \in Entries(Keys, P)
      BY <3>1, ElementOfSeq
    <3> QED BY <3>2 DEF Entries
  <2>5. ASSUME NEW j \in 1 .. Len(c)
        PROVE  made'[c[j].pool] = c[j].key /\ c[j].pool \in handed'[c[j].key]
    <3>1. CASE j = 1
      BY <1>1, <1>2, <1>4, <2>2, <3>1
    <3>2. CASE j # 1
      <4>1. j - 1 \in 1 .. Len(cache) /\ c[j] = cache[j - 1]
        BY <1>4, <3>2
      <4> QED BY <1>1, <2>1, <2>4, <4>1 DEF EntryInv
    <3> QED BY <3>1, <3>2
  <2> QED BY <1>1, <1>4, <2>3, <2>5 DEF EntryInv
<1> QED BY <1>5, <1>6, <1>7, <1>8, <1>9

(* The invariant is inductive.                                             *)
LEMMA NextInv == Inv /\ [Next]_vars => Inv'
<1> SUFFICES ASSUME Inv, [Next]_vars PROVE Inv'
  OBVIOUS
<1>1. CASE UNCHANGED vars
  BY <1>1 DEF vars, Inv, TypeOK, LockInv, PhaseInv, FreshInv, EntryInv, DistinctKeys
<1>2. CASE Terminated
  BY <1>2 DEF Terminated, vars, Inv, TypeOK, LockInv, PhaseInv, FreshInv, EntryInv, DistinctKeys
<1>3. ASSUME NEW t \in Threads, Step(t) PROVE Inv'
  <2>1. CASE (\E k \in Keys : Call(t, k)) \/ Lock(t) \/ Miss(t) \/ DecodeError(t) \/ Release(t)
    BY <2>1, BookkeepingStep
  <2>2. CASE Hit(t) \/ LostRace(t)
    <3>1. pc[t] \in Locked /\ Found(t)
      BY <2>2 DEF Hit, LostRace, Locked
    <3> QED BY <3>1, FoundStep
  <2>3. CASE Decode(t)
    BY <2>3, DecodeStep
  <2>4. CASE Insert(t)
    BY <2>4, InsertStep
  <2> QED BY <1>3, <2>1, <2>2, <2>3, <2>4 DEF Step, Lookup, Decoding
<1> QED BY <1>1, <1>2, <1>3 DEF Next

(* The cache keeps its invariant, for all threads and keys                 *)
(* (pool_cache.rs).                                                        *)
THEOREM Invariance == Spec => []Inv
BY InitInv, NextInv, PTL DEF Spec

(* TypeOK, with the bound on the cache's size, holds for every number of   *)
(* threads and keys and every capacity.                                    *)
THEOREM TypeCorrect == Spec => []TypeOK
<1>1. Inv => TypeOK
  BY DEF Inv
<1> QED BY <1>1, Invariance, PTL

(* A call never returns a pool decoded from other bytes than its own.      *)
THEOREM OwnPool == Spec => []PoolOfOwnBytes
<1>1. Inv => PoolOfOwnBytes
  BY DEF Inv, PhaseInv, EntryInv, PoolOfOwnBytes
<1> QED BY <1>1, Invariance, PTL

(* A failed decode leaves nothing behind.                                  *)
THEOREM FailuresLeaveNoTrace == Spec => []FailuresNotCached
<1>1. Inv => FailuresNotCached
  <2> SUFFICES ASSUME Inv PROVE FailuresNotCached
    OBVIOUS
  <2>1. ASSUME NEW i \in 1 .. Len(cache) PROVE cache[i].key \in Decodable
    <3>1. cache \in Seq(Entries(Keys, 1 .. Len(made)))
      BY DEF Inv, TypeOK, Entries
    <3>2. cache[i] \in Entries(Keys, 1 .. Len(made))
      BY <3>1, ElementOfSeq
    <3>3. cache[i].pool \in 1 .. Len(made)
      BY <3>2 DEF Entries
    <3>4. made[cache[i].pool] \in Decodable
      BY <3>3, ElementOfSeq DEF Inv, TypeOK
    <3> QED BY <3>4 DEF Inv, EntryInv
  <2> QED BY <2>1 DEF FailuresNotCached, CachedKeys, Inv, PhaseInv
<1> QED BY <1>1, Invariance, PTL

-----------------------------------------------------------------------------
(* What one step does to the cache: nothing, a reordering, or an insertion *)
(* of a key that is not cached.                                            *)
LEMMA CacheSteps ==
  ASSUME [Next]_vars
  PROVE  \/ UNCHANGED <<cache, handed, evictions, touched>>
         \/ \E t \in Threads : Found(t)
         \/ \E t \in Threads : Insert(t)
<1>1. CASE UNCHANGED vars
  BY <1>1 DEF vars
<1>2. CASE Terminated
  BY <1>2 DEF Terminated, vars
<1>3. ASSUME NEW t \in Threads, Step(t)
      PROVE  \/ UNCHANGED <<cache, handed, evictions, touched>>
             \/ Found(t) \/ Insert(t)
  BY <1>3 DEF Step, Lookup, Decoding, Call, Lock, Miss, Hit, LostRace, Decode,
              DecodeError, Release, history
<1> QED BY <1>1, <1>2, <1>3 DEF Next

-----------------------------------------------------------------------------
(* What Found and Insert do, as facts about the cache alone.               *)
LEMMA FoundFacts ==
  ASSUME Inv, NEW t \in Threads, Found(t)
  PROVE  /\ bytes[t] \in CachedKeys(cache)
         /\ cache' = Get(cache, bytes[t])
         /\ Len(cache') = Len(cache)
         /\ \A n \in 1 .. Len(cache) : \E m \in 1 .. Len(cache) : cache'[n] = cache[m]
         /\ CachedKeys(cache') = CachedKeys(cache)
         /\ handed' = handed
         /\ evictions' = evictions
         /\ touched' = Touch(touched, bytes[t])
<1> USE DEF Inv
<1> DEFINE K == bytes[t]
<1> DEFINE P == 1 .. Len(made)
<1>1. K \in CachedKeys(cache) /\ cache' = Get(cache, K)
  BY DEF Found
<1>2. cache \in Seq(Entries(Keys, P))
  BY DEF TypeOK, Entries
<1> HIDE DEF P
<1>3. /\ Len(cache') = Len(cache)
      /\ \A n \in 1 .. Len(cache) : \E m \in 1 .. Len(cache) : cache'[n] = cache[m]
      /\ CachedKeys(cache') = CachedKeys(cache)
  <2> HIDE DEF K
  <2>1. /\ Get(cache, K) \in Seq(Entries(Keys, P))
        /\ Len(Get(cache, K)) = Len(cache)
        /\ \A n \in 1 .. Len(cache) : \E m \in 1 .. Len(cache) : Get(cache, K)[n] = cache[m]
        /\ CachedKeys(Get(cache, K)) = CachedKeys(cache)
        /\ DistinctKeys(cache) => DistinctKeys(Get(cache, K))
    BY <1>1, <1>2, GetProperties, Zenon
  <2> QED BY <1>1, <2>1
<1>4. handed' = handed
  <2>1. Position(cache, K) \in 1 .. Len(cache) /\ cache[Position(cache, K)].key = K
    BY <1>1, PositionProperties
  <2>2. cache[Position(cache, K)].pool \in handed[K]
    BY <2>1 DEF EntryInv
  <2> QED BY <2>2 DEF Found, TypeOK
<1> QED BY <1>1, <1>3, <1>4 DEF Found

(* What is inserted is new, in the cache and as a pool.                    *)
LEMMA InsertFacts ==
  ASSUME Inv, NEW t \in Threads, Insert(t)
  PROVE  /\ bytes[t] \in Keys \ CachedKeys(cache)
         /\ pool[t] \notin handed[bytes[t]]
         /\ cache' = Put(cache, bytes[t], pool[t])
         /\ Len(cache) < Capacity => Len(cache') = Len(cache) + 1
         /\ Len(cache) = Capacity => Len(cache') = Capacity
         /\ Len(cache') \in 1 .. Capacity
         /\ cache'[1] = [key |-> bytes[t], pool |-> pool[t]]
         /\ cache'[1].key = bytes[t]
         /\ DistinctKeys(cache')
         /\ \A j \in 2 .. Len(cache') : j - 1 \in 1 .. Len(cache) /\ cache'[j] = cache[j - 1]
         /\ bytes[t] \in CachedKeys(cache')
         /\ CachedKeys(cache') \subseteq CachedKeys(cache) \cup {bytes[t]}
         /\ CachedKeys(cache) \ CachedKeys(cache') =
              IF Len(cache) < Capacity THEN {} ELSE {cache[Capacity].key}
<1> USE DEF Inv
<1> DEFINE k == bytes[t]
<1> DEFINE p == pool[t]
<1> DEFINE P == 0 .. Len(made)
<1>1. k \notin CachedKeys(cache) /\ cache' = Put(cache, k, p)
  BY DEF Insert
<1>2. k \in Keys /\ p \notin handed[k]
  BY DEF Insert, PhaseInv, FreshInv, TypeOK
<1>3. p \in P
  BY DEF TypeOK
<1>4. cache \in Seq(Entries(Keys, P))
  <2>1. Entries(Keys, 1 .. Len(made)) \subseteq Entries(Keys, P)
    BY DEF Entries
  <2>2. cache \in Seq(Entries(Keys, 1 .. Len(made)))
    BY DEF TypeOK, Entries
  <2> QED BY <2>1, <2>2, SeqMonotonic, Zenon
<1>5. Len(cache) <= Capacity
  BY DEF TypeOK
<1> HIDE DEF k, p, P
<1>6. /\ Put(cache, k, p) \in Seq(Entries(Keys, P))
      /\ Len(cache) < Capacity => Len(Put(cache, k, p)) = Len(cache) + 1
      /\ Len(cache) = Capacity => Len(Put(cache, k, p)) = Capacity
      /\ Len(Put(cache, k, p)) \in 1 .. Capacity
      /\ Put(cache, k, p)[1] = [key |-> k, pool |-> p]
      /\ \A j \in 2 .. Len(Put(cache, k, p)) :
           j - 1 \in 1 .. Len(cache) /\ Put(cache, k, p)[j] = cache[j - 1]
      /\ DistinctKeys(cache) => DistinctKeys(Put(cache, k, p))
      /\ k \in CachedKeys(Put(cache, k, p))
      /\ CachedKeys(Put(cache, k, p)) \subseteq CachedKeys(cache) \cup {k}
      /\ DistinctKeys(cache) => CachedKeys(cache) \ CachedKeys(Put(cache, k, p)) =
                                IF Len(cache) < Capacity THEN {} ELSE {cache[Capacity].key}
  BY <1>1, <1>2, <1>3, <1>4, <1>5, PutProperties
<1>7. DistinctKeys(cache)
  BY DEF EntryInv
<1> QED BY <1>1, <1>2, <1>6, <1>7 DEF k, p

-----------------------------------------------------------------------------
(* While a key stays cached, it keeps its pool.                            *)
THEOREM PoolsStay == Spec => NeverReplaced
<1> DEFINE Kept == \A i \in 1 .. Len(cache), j \in 1 .. Len(cache') :
                     cache[i].key = cache'[j].key => cache[i].pool = cache'[j].pool
<1>1. Inv /\ [Next]_vars => [Kept]_cache
  <2> SUFFICES ASSUME Inv, [Next]_vars,
                      NEW i \in 1 .. Len(cache), NEW j \in 1 .. Len(cache'),
                      cache[i].key = cache'[j].key, cache' # cache
               PROVE  cache[i].pool = cache'[j].pool
    OBVIOUS
  <2>1. DistinctKeys(cache)
    BY DEF Inv, EntryInv
  <2>2. ASSUME NEW t \in Threads, Found(t) PROVE cache[i].pool = cache'[j].pool
    <3>1. PICK m \in 1 .. Len(cache) : cache'[j] = cache[m]
      BY <2>2, FoundFacts
    <3> QED BY <2>1, <3>1 DEF DistinctKeys
  <2>3. ASSUME NEW t \in Threads, Insert(t) PROVE cache[i].pool = cache'[j].pool
    <3>1. /\ bytes[t] \notin CachedKeys(cache) /\ cache'[1].key = bytes[t]
          /\ \A n \in 2 .. Len(cache') : n - 1 \in 1 .. Len(cache) /\ cache'[n] = cache[n - 1]
      BY <2>3, InsertFacts, Zenon
    <3>2. j # 1
      BY <3>1 DEF CachedKeys
    <3>3. j \in 2 .. Len(cache')
      BY <3>2
    <3>4. j - 1 \in 1 .. Len(cache) /\ cache'[j] = cache[j - 1]
      BY <3>1, <3>3
    <3> QED BY <2>1, <3>4 DEF DistinctKeys
  <2> QED BY <2>2, <2>3, CacheSteps
<1> QED BY <1>1, Invariance, PTL DEF Spec, NeverReplaced

-----------------------------------------------------------------------------
(* At first no key has been in the cache.                                  *)
LEMMA ResidenceInit == Init => ResidenceInv
BY FS_EmptySet DEF Init, ResidenceInv, OnePoolPerResidence, CachedKeys

(* A key gets a pool only as it enters the cache.                          *)
LEMMA ResidenceStep == Inv /\ ResidenceInv /\ [Next]_vars => ResidenceInv'
<1> SUFFICES ASSUME Inv, ResidenceInv, [Next]_vars, NEW j \in Keys
             PROVE  /\ IsFiniteSet(handed'[j])
                    /\ Cardinality(handed'[j]) =
                         evictions'[j] + (IF j \in CachedKeys(cache') THEN 1 ELSE 0)
  BY DEF ResidenceInv, OnePoolPerResidence
<1>1. /\ IsFiniteSet(handed[j])
      /\ Cardinality(handed[j]) =
           evictions[j] + (IF j \in CachedKeys(cache) THEN 1 ELSE 0)
  BY DEF ResidenceInv, OnePoolPerResidence
<1>2. CASE UNCHANGED <<cache, handed, evictions, touched>>
  BY <1>1, <1>2
<1>3. ASSUME NEW t \in Threads, Found(t)
      PROVE  /\ IsFiniteSet(handed'[j])
             /\ Cardinality(handed'[j]) =
                  evictions'[j] + (IF j \in CachedKeys(cache') THEN 1 ELSE 0)
  BY <1>1, <1>3, FoundFacts
<1>4. ASSUME NEW t \in Threads, Insert(t)
      PROVE  /\ IsFiniteSet(handed'[j])
             /\ Cardinality(handed'[j]) =
                  evictions'[j] + (IF j \in CachedKeys(cache') THEN 1 ELSE 0)
  <2> DEFINE k == bytes[t]
  <2>1. /\ k \in Keys \ CachedKeys(cache)
        /\ pool[t] \notin handed[k]
        /\ k \in CachedKeys(cache')
        /\ CachedKeys(cache') \subseteq CachedKeys(cache) \cup {k}
    BY <1>4, InsertFacts
  <2>2. handed' = [handed EXCEPT ![k] = @ \cup {pool[t]}]
    BY <1>4 DEF Insert
  <2>3. evictions'[j] = IF j \in CachedKeys(cache) \ CachedKeys(cache')
                        THEN evictions[j] + 1 ELSE evictions[j]
    BY <1>4 DEF Insert
  <2>4. evictions[j] \in Nat
    BY DEF Inv, TypeOK
  <2>5. CASE j = k
    <3>1. handed'[j] = handed[j] \cup {pool[t]}
      BY <2>2, <2>5 DEF Inv, TypeOK
    <3>2. pool[t] \notin handed[j]
      BY <2>1, <2>5
    <3>3. IsFiniteSet(handed[j])
      BY <1>1
    <3>4. /\ IsFiniteSet(handed[j] \cup {pool[t]})
          /\ Cardinality(handed[j] \cup {pool[t]}) = Cardinality(handed[j]) + 1
      BY <3>2, <3>3, FS_AddElement
    <3> QED BY <1>1, <2>1, <2>3, <2>4, <2>5, <3>1, <3>4
  <2>6. CASE j # k
    <3>1. handed'[j] = handed[j]
      BY <2>2, <2>6 DEF Inv, TypeOK
    <3> QED BY <1>1, <2>1, <2>3, <2>4, <2>6, <3>1
  <2> QED BY <2>5, <2>6
<1> QED BY <1>2, <1>3, <1>4, CacheSteps

(* Callers of one key get one pool for each period in which it is cached.  *)
THEOREM SharedPools == Spec => []OnePoolPerResidence
<1>1. ResidenceInv => OnePoolPerResidence
  BY DEF ResidenceInv
<1> QED BY <1>1, ResidenceInit, ResidenceStep, Invariance, PTL DEF Spec

-----------------------------------------------------------------------------
(* Promotion does not duplicate an element.                                *)
LEMMA PromoteDistinct ==
  ASSUME NEW S, NEW s \in Seq(S), NEW i \in 1 .. Len(s), Distinct(s)
  PROVE  Distinct(Promote(s, i))
<1> DEFINE P == Promote(s, i)
<1> DEFINE from(j) == IF j = 1 THEN i ELSE IF j <= i THEN j - 1 ELSE j
<1>1. Len(s) \in Nat
  BY LenProperties
<1>2. Len(P) = Len(s)
  BY PromoteProperties DEF Promoted
<1>3. ASSUME NEW j \in 1 .. Len(s)
      PROVE  from(j) \in 1 .. Len(s) /\ P[j] = s[from(j)]
  BY <1>1 DEF Promote
<1>4. SUFFICES ASSUME NEW j \in 1 .. Len(s), NEW m \in 1 .. Len(s), P[j] = P[m]
               PROVE  j = m
  BY <1>2 DEF Distinct
<1>5. from(j) = from(m)
  BY <1>3, <1>4 DEF Distinct
<1> QED BY <1>1, <1>5

(* At first no key has been used.                                          *)
LEMMA RecencyInit == Init => RecencyInv
BY CapacityAssumption DEF Init, RecencyInv, Distinct, MostRecentlyUsedKept

(* A hit puts its key first, in the cache and in the order of use.         *)
LEMMA RecencyFound ==
  ASSUME Inv, RecencyInv, NEW t \in Threads, Found(t)
  PROVE  RecencyInv'
<1> DEFINE k == bytes[t]
<1> DEFINE i == Position(cache, k)
<1>1. /\ k \in CachedKeys(cache)
      /\ cache' = Promote(cache, i)
      /\ touched' = Touch(touched, k)
  BY FoundFacts DEF Get
<1>2. i \in 1 .. Len(cache) /\ cache[i].key = k
  BY <1>1, PositionProperties
<1>3. /\ Len(touched) \in Nat /\ Len(cache) \in Nat /\ Capacity \in Nat
      /\ Len(cache) <= Len(touched)
      /\ \A j \in 1 .. Len(cache) : cache[j].key = touched[j]
  BY LenProperties, CapacityAssumption DEF Inv, TypeOK, RecencyInv, MostRecentlyUsedKept
<1>4. i \in 1 .. Len(touched) /\ touched[i] = k
  BY <1>2, <1>3
<1>5. touched' = Promote(touched, i)
  <2>1. KeyPosition(touched, k) = i
    BY <1>4 DEF KeyPosition, RecencyInv, Distinct
  <2> QED BY <1>1, <1>4, <2>1 DEF Touch
<1> HIDE DEF i, k
<1>6. touched \in Seq(Keys)
  BY DEF Inv, TypeOK
<1>7. Len(touched') = Len(touched) /\ Distinct(touched')
  <2>1. Distinct(touched)
    BY DEF RecencyInv
  <2> QED BY <1>4, <1>5, <1>6, <2>1, PromoteProperties, PromoteDistinct DEF Promoted
<1>8. Len(cache') = Len(cache)
  BY FoundFacts
<1>9. ASSUME NEW j \in 1 .. Len(cache) PROVE cache'[j].key = touched'[j]
  BY <1>1, <1>2, <1>3, <1>4, <1>5 DEF Promote
<1> QED BY <1>7, <1>8, <1>9 DEF RecencyInv, MostRecentlyUsedKept

(* An insertion evicts the key used longest ago.                           *)
LEMMA RecencyInsert ==
  ASSUME Inv, RecencyInv, NEW t \in Threads, Insert(t)
  PROVE  RecencyInv'
<1> DEFINE k == bytes[t]
<1>1. /\ k \in Keys /\ k \notin CachedKeys(cache)
      /\ Len(cache) < Capacity => Len(cache') = Len(cache) + 1
      /\ Len(cache) = Capacity => Len(cache') = Capacity
      /\ cache'[1].key = k
      /\ \A j \in 2 .. Len(cache') : j - 1 \in 1 .. Len(cache) /\ cache'[j] = cache[j - 1]
  BY InsertFacts
<1>2. touched' = Touch(touched, k)
  BY DEF Insert
<1> HIDE DEF k
<1>3. /\ Len(touched) \in Nat /\ Len(cache) \in Nat /\ Capacity \in Nat \ {0}
      /\ Len(touched) < Capacity => Len(cache) = Len(touched)
      /\ Len(touched) >= Capacity => Len(cache) = Capacity
      /\ \A j \in 1 .. Len(cache) : cache[j].key = touched[j]
  BY LenProperties, CapacityAssumption, SMTT(30) DEF Inv, TypeOK, RecencyInv, MostRecentlyUsedKept
<1>4. \A j \in 1 .. Len(cache) : touched[j] # k
  BY <1>1, <1>3 DEF CachedKeys
<1>5. touched \in Seq(Keys) /\ Distinct(touched)
  BY DEF Inv, TypeOK, RecencyInv
<1>6. CASE \E i \in 1 .. Len(touched) : touched[i] = k
  <2> DEFINE i == KeyPosition(touched, k)
  <2>1. i \in 1 .. Len(touched) /\ touched[i] = k
    BY <1>6 DEF KeyPosition
  <2>2. touched' = Promote(touched, i)
    BY <1>2, <1>6 DEF Touch
  <2> HIDE DEF i
  <2>3. Len(touched') = Len(touched) /\ Distinct(touched')
    BY <1>5, <2>1, <2>2, PromoteProperties, PromoteDistinct DEF Promoted
  <2>4. Len(cache) = Capacity /\ Len(cache') = Capacity /\ Capacity < i /\ Len(touched) >= Capacity
    BY <1>1, <1>3, <1>4, <2>1
  <2>5. ASSUME NEW j \in 1 .. Len(cache') PROVE cache'[j].key = touched'[j]
    <3>1. touched'[j] = IF j = 1 THEN touched[i] ELSE IF j <= i THEN touched[j - 1] ELSE touched[j]
      BY <1>3, <2>1, <2>2, <2>4 DEF Promote
    <3>2. CASE j = 1
      BY <1>1, <2>1, <3>1, <3>2
    <3>3. CASE j # 1
      <4>1. j - 1 \in 1 .. Len(cache) /\ cache'[j] = cache[j - 1]
        BY <1>1, <3>3
      <4>2. touched'[j] = touched[j - 1]
        BY <1>3, <2>1, <2>4, <3>1, <3>3
      <4> QED BY <1>3, <4>1, <4>2
    <3> QED BY <3>2, <3>3
  <2> QED BY <1>3, <2>3, <2>4, <2>5 DEF RecencyInv, MostRecentlyUsedKept
<1>7. CASE ~\E i \in 1 .. Len(touched) : touched[i] = k
  <2> DEFINE n == Len(touched) + 1
  <2>1. touched' = [j \in 1 .. n |-> IF j = 1 THEN k ELSE touched[j - 1]]
    BY <1>2, <1>3, <1>7 DEF Touch, PushFront
  <2>2. touched' \in Seq(Keys)
    BY <1>1, <1>2, <1>5, TouchProperties
  <2>3. Len(touched') = n
    BY <1>3, <2>1, <2>2
  <2>4. Distinct(touched')
    BY <1>3, <1>5, <1>7, <2>1, <2>3 DEF Distinct
  <2>5. ASSUME NEW j \in 1 .. Len(cache') PROVE cache'[j].key = touched'[j]
    <3>1. CASE j = 1
      BY <1>1, <1>3, <2>1, <3>1
    <3>2. CASE j # 1
      <4>1. j - 1 \in 1 .. Len(cache) /\ cache'[j] = cache[j - 1]
        BY <1>1, <3>2
      <4>2. touched'[j] = touched[j - 1]
        BY <1>3, <2>1, <3>2, <4>1
      <4> QED BY <1>3, <4>1, <4>2
    <3> QED BY <3>1, <3>2
  <2>6. Len(cache') = IF Len(touched') < Capacity THEN Len(touched') ELSE Capacity
    BY <1>1, <1>3, <2>3
  <2> QED BY <2>4, <2>5, <2>6 DEF RecencyInv, MostRecentlyUsedKept
<1> QED BY <1>6, <1>7

(* The cache stays in order of use.                                        *)
LEMMA RecencyStep == Inv /\ RecencyInv /\ [Next]_vars => RecencyInv'
<1> SUFFICES ASSUME Inv, RecencyInv, [Next]_vars PROVE RecencyInv'
  OBVIOUS
<1>1. CASE UNCHANGED <<cache, handed, evictions, touched>>
  BY <1>1 DEF RecencyInv, Distinct, MostRecentlyUsedKept
<1> QED BY <1>1, RecencyFound, RecencyInsert, CacheSteps

(* The cache is the front of the list of all keys ever cached, ordered by  *)
(* last use.                                                               *)
THEOREM LeastRecentlyUsedEvicted == Spec => []MostRecentlyUsedKept
<1>1. RecencyInv => MostRecentlyUsedKept
  BY DEF RecencyInv
<1> QED BY <1>1, RecencyInit, RecencyStep, Invariance, PTL DEF Spec

-----------------------------------------------------------------------------
(* Calls whose bytes are not decoded yet.                                  *)
Undecoded == {t \in Threads : pc[t] \in {"lock_lookup", "lookup", "decode"}}

(* Each pool was made by a call of its own.                                *)
CountInv ==
  /\ IsFiniteSet(Undecoded)
  /\ Len(made) + Cardinality(Undecoded) <= calls
  /\ calls <= MaxCalls

(* At first there is no call.                                              *)
LEMMA CountInit == Init => CountInv
<1> SUFFICES ASSUME Init PROVE CountInv
  OBVIOUS
<1>1. Undecoded = {}
  BY DEF Init, Undecoded
<1>2. Len(made) = 0 /\ calls = 0 /\ MaxCalls \in Nat
  BY BoundAssumption DEF Init
<1> QED BY <1>1, <1>2, FS_EmptySet DEF CountInv

(* A call makes at most one pool.                                          *)
LEMMA CountStep == Inv /\ CountInv /\ [Next]_vars => CountInv'
<1> SUFFICES ASSUME Inv, CountInv, [Next]_vars PROVE CountInv'
  OBVIOUS
<1>1. /\ pc \in [Threads -> {"idle"} \cup InCall \cup Finished]
      /\ Len(made) \in Nat /\ calls \in Nat /\ MaxCalls \in Nat
      /\ IsFiniteSet(Undecoded) /\ Cardinality(Undecoded) \in Nat
      /\ Len(made) + Cardinality(Undecoded) <= calls /\ calls <= MaxCalls
  BY LenProperties, BoundAssumption, FS_CardinalityType DEF Inv, TypeOK, CountInv
<1>2. CASE UNCHANGED <<pc, made, calls>>
  BY <1>2 DEF CountInv, Undecoded
<1>3. ASSUME NEW t \in Threads, Step(t) PROVE CountInv'
  <2>1. CASE \E k \in Keys : Call(t, k)
    <3>1. calls < MaxCalls /\ calls' = calls + 1 /\ made' = made
          /\ pc' = [pc EXCEPT ![t] = "lock_lookup"] /\ pc[t] = "idle"
      BY <2>1 DEF Call, Goto
    <3>2. Undecoded' = Undecoded \cup {t}
      BY <1>1, <3>1 DEF Undecoded
    <3>3. IsFiniteSet(Undecoded') /\ Cardinality(Undecoded') <= Cardinality(Undecoded) + 1
          /\ Cardinality(Undecoded') \in Nat
      BY <1>1, <3>2, FS_AddElement
    <3> QED BY <1>1, <3>1, <3>3 DEF CountInv
  <2>2. CASE Lock(t) \/ Miss(t)
    <3>1. Undecoded' = Undecoded
      BY <1>1, <2>2 DEF Undecoded, Lock, Miss, Goto, Locking
    <3> QED BY <1>1, <2>2, <3>1 DEF CountInv, Lock, Miss
  <2>3. CASE Decode(t)
    <3>1. /\ calls' = calls /\ Len(made') = Len(made) + 1
          /\ pc' = [pc EXCEPT ![t] = "lock_insert"] /\ pc[t] = "decode"
      BY <2>3 DEF Decode, Goto, Inv, TypeOK
    <3>2. t \in Undecoded /\ Undecoded' = Undecoded \ {t}
      BY <1>1, <3>1 DEF Undecoded
    <3>3. IsFiniteSet(Undecoded') /\ Cardinality(Undecoded') = Cardinality(Undecoded) - 1
      BY <1>1, <3>2, FS_RemoveElement
    <3> QED BY <1>1, <3>1, <3>3 DEF CountInv
  <2>4. CASE Hit(t) \/ LostRace(t) \/ DecodeError(t) \/ Insert(t) \/ Release(t)
    <3>1. UNCHANGED <<made, calls>>
      BY <2>4 DEF Hit, LostRace, Found, DecodeError, Insert, Release
    <3>2. \E to \in {"returned", "failed", "idle"} : pc' = [pc EXCEPT ![t] = to]
      BY <2>4 DEF Hit, LostRace, Found, DecodeError, Insert, Release, Goto
    <3>3. Undecoded' = Undecoded \ {t}
      BY <1>1, <3>2 DEF Undecoded
    <3>4. IsFiniteSet(Undecoded') /\ Cardinality(Undecoded') <= Cardinality(Undecoded)
          /\ Cardinality(Undecoded') \in Nat
      <4>1. IsFiniteSet(Undecoded \ {t}) /\ Cardinality(Undecoded \ {t}) <= Cardinality(Undecoded)
        BY <1>1, FS_Subset
      <4> QED BY <3>3, <4>1, FS_CardinalityType
    <3> QED BY <1>1, <3>1, <3>4 DEF CountInv
  <2> QED BY <1>3, <2>1, <2>2, <2>3, <2>4 DEF Step, Lookup, Decoding
<1> QED BY <1>2, <1>3 DEF Next, Terminated, vars

(* The pool of a key is the one of its only entry.                         *)
LEMMA MemoryOf ==
  ASSUME NEW c, DistinctKeys(c), NEW i \in 1 .. Len(c), c[i].key \in Keys
  PROVE  Memory(c)[c[i].key] = c[i].pool
<1>1. c[i].key \in CachedKeys(c)
  BY DEF CachedKeys
<1>2. Position(c, c[i].key) \in 1 .. Len(c) /\ c[Position(c, c[i].key)].key = c[i].key
  BY <1>1, PositionProperties
<1>3. Position(c, c[i].key) = i
  BY <1>2 DEF DistinctKeys
<1> QED BY <1>1, <1>3 DEF Memory

(* The keys of a cache are as many as its entries.                         *)
LEMMA KeyCount ==
  ASSUME NEW c, Len(c) \in Nat, DistinctKeys(c)
  PROVE  IsFiniteSet(CachedKeys(c)) /\ Cardinality(CachedKeys(c)) = Len(c)
<1> DEFINE f == [i \in 1 .. Len(c) |-> c[i].key]
<1>1. f \in Surjection(1 .. Len(c), CachedKeys(c))
  BY DEF CachedKeys, Surjection
<1>2. f \in Injection(1 .. Len(c), CachedKeys(c))
  BY <1>1 DEF Injection, IsInjective, Surjection, DistinctKeys
<1>3. IsFiniteSet(1 .. Len(c)) /\ Cardinality(1 .. Len(c)) = Len(c)
  <2> DEFINE n == Len(c)
  <2>1. n \in Nat
    OBVIOUS
  <2> HIDE DEF n
  <2>2. IsFiniteSet(1 .. n) /\ Cardinality(1 .. n) = IF 1 > n THEN 0 ELSE n - 1 + 1
    BY <2>1, FS_Interval
  <2>3. IsFiniteSet(1 .. n) /\ Cardinality(1 .. n) = n
    BY <2>1, <2>2
  <2> QED BY <2>3 DEF n
<1> HIDE DEF f
<1> QED BY <1>1, <1>2, <1>3, FS_Surjection

(* Each cached pool is one of the pools made.                              *)
LEMMA CachedPools ==
  ASSUME Inv
  PROVE  /\ \A i \in 1 .. Len(cache) : cache[i].key \in Keys /\ cache[i].pool \in 1 .. Len(made)
         /\ \A k \in Keys : Memory(cache)[k] # NoPool <=> k \in CachedKeys(cache)
<1>1. ASSUME NEW i \in 1 .. Len(cache)
      PROVE  cache[i].key \in Keys /\ cache[i].pool \in 1 .. Len(made)
  <2>1. cache[i] \in Entries(Keys, 1 .. Len(made))
    BY ElementOfSeq DEF Inv, TypeOK, Entries
  <2> QED BY <2>1 DEF Entries
<1>2. ASSUME NEW k \in Keys
      PROVE  Memory(cache)[k] # NoPool <=> k \in CachedKeys(cache)
  <2>1. CASE k \in CachedKeys(cache)
    <3>1. Position(cache, k) \in 1 .. Len(cache)
      BY <2>1, PositionProperties
    <3>2. cache[Position(cache, k)].pool # 0
      <4>1. Len(made) \in Nat
        BY LenProperties DEF Inv, TypeOK
      <4> QED BY <1>1, <3>1, <4>1
    <3> QED BY <2>1, <3>2 DEF Memory, NoPool
  <2>2. CASE k \notin CachedKeys(cache)
    BY <2>2 DEF Memory
  <2> QED BY <2>1, <2>2
<1> QED BY <1>1, <1>2

(* Hits change no pool.                                                    *)
LEMMA FoundMemory ==
  ASSUME Inv, NEW t \in Threads, Found(t)
  PROVE  Memory(cache') = Memory(cache) /\ PoolsHanded' = PoolsHanded
<1>1. /\ Len(cache') = Len(cache)
      /\ \A n \in 1 .. Len(cache) : \E m \in 1 .. Len(cache) : cache'[n] = cache[m]
      /\ CachedKeys(cache') = CachedKeys(cache)
      /\ handed' = handed
  BY FoundFacts
<1>2. DistinctKeys(cache)
  BY DEF Inv, EntryInv
<1>3. ASSUME NEW k \in CachedKeys(cache)
      PROVE  cache'[Position(cache', k)].pool = cache[Position(cache, k)].pool
  <2>1. Position(cache, k) \in 1 .. Len(cache) /\ cache[Position(cache, k)].key = k
    BY PositionProperties
  <2>2. Position(cache', k) \in 1 .. Len(cache) /\ cache'[Position(cache', k)].key = k
    BY <1>1, PositionProperties
  <2>3. PICK m \in 1 .. Len(cache) : cache'[Position(cache', k)] = cache[m]
    BY <1>1, <2>2
  <2>4. m = Position(cache, k)
    BY <1>2, <2>1, <2>2, <2>3 DEF DistinctKeys
  <2> QED BY <2>3, <2>4
<1> QED BY <1>1, <1>3 DEF Memory, PoolsHanded

(* An insertion remembers its key and forgets at most one.                 *)
LEMMA InsertMemory ==
  ASSUME Inv, NEW t \in Threads, Insert(t)
  PROVE  LET victims == CachedKeys(cache) \ CachedKeys(cache')
         IN  /\ Cardinality(victims) = IF Len(cache) < Capacity THEN 0 ELSE 1
             /\ Memory(cache') = [j \in Keys |-> IF j = bytes[t] THEN pool[t]
                                               ELSE IF j \in victims THEN NoPool
                                               ELSE Memory(cache)[j]]
<1> DEFINE k == bytes[t]
<1>1. /\ k \in Keys \ CachedKeys(cache)
      /\ cache' = Put(cache, k, pool[t])
      /\ \A j \in 2 .. Len(cache') : j - 1 \in 1 .. Len(cache) /\ cache'[j] = cache[j - 1]
      /\ k \in CachedKeys(cache')
      /\ CachedKeys(cache') \subseteq CachedKeys(cache) \cup {k}
  BY InsertFacts
<1>2. /\ cache'[1] = [key |-> k, pool |-> pool[t]]
      /\ Len(cache') \in 1 .. Capacity
      /\ DistinctKeys(cache')
      /\ CachedKeys(cache) \ CachedKeys(cache') =
           IF Len(cache) < Capacity THEN {} ELSE {cache[Capacity].key}
  BY InsertFacts
<1> HIDE DEF k
<1>3. Cardinality(CachedKeys(cache) \ CachedKeys(cache')) = IF Len(cache) < Capacity THEN 0 ELSE 1
  BY <1>2, FS_EmptySet, FS_Singleton
<1>4. Len(cache') \in Nat /\ 1 \in 1 .. Len(cache')
  BY <1>2, CapacityAssumption
<1>5. Memory(cache')[k] = pool[t]
  <2>1. 1 \in 1 .. Len(cache') /\ cache'[1].key = k /\ cache'[1].pool = pool[t] /\ k \in Keys
    BY <1>1, <1>2, <1>4
  <2> QED BY <1>2, <2>1, MemoryOf
<1>6. ASSUME NEW j \in Keys, j # k, j \in CachedKeys(cache')
      PROVE  Memory(cache')[j] = Memory(cache)[j]
  <2>1. PICK n \in 1 .. Len(cache') : cache'[n].key = j
    BY <1>6 DEF CachedKeys
  <2>2. n # 1
    BY <1>2, <1>6, <2>1
  <2>3. n - 1 \in 1 .. Len(cache) /\ cache'[n] = cache[n - 1]
    BY <1>1, <1>4, <2>2
  <2>4. Memory(cache')[j] = cache'[n].pool
    BY <1>2, <2>1, MemoryOf
  <2>5. Memory(cache)[j] = cache[n - 1].pool
    <3>1. DistinctKeys(cache)
      BY DEF Inv, EntryInv
    <3>2. cache[n - 1].key = j
      BY <2>1, <2>3
    <3> HIDE DEF k
    <3>3. PICK m \in 1 .. Len(cache) : m = n - 1
      BY <2>3
    <3> QED BY <3>1, <3>2, <3>3, MemoryOf
  <2> QED BY <2>3, <2>4, <2>5
<1>7. ASSUME NEW j \in Keys, j \notin CachedKeys(cache') PROVE Memory(cache')[j] = NoPool
  BY <1>7 DEF Memory
<1>8. ASSUME NEW j \in Keys, j \notin CachedKeys(cache) PROVE Memory(cache)[j] = NoPool
  BY <1>8 DEF Memory
<1>9. \A j \in Keys : Memory(cache')[j] = IF j = k THEN pool[t]
                                        ELSE IF j \in CachedKeys(cache) \ CachedKeys(cache') THEN NoPool
                                        ELSE Memory(cache)[j]
  BY <1>1, <1>5, <1>6, <1>7, <1>8
<1>10. Memory(cache') = [j \in Keys |-> Memory(cache')[j]]
  BY DEF Memory
<1>11. Memory(cache') = [j \in Keys |-> IF j = k THEN pool[t]
                                       ELSE IF j \in CachedKeys(cache) \ CachedKeys(cache') THEN NoPool
                                       ELSE Memory(cache)[j]]
  BY <1>9, <1>10, Zenon
<1> QED BY <1>3, <1>11, Zenon DEF k

-----------------------------------------------------------------------------
(* An empty cache is an empty memo.                                        *)
LEMMA MemoInit == Init => Memo!Init
<1> SUFFICES ASSUME Init PROVE Memo!Init
  OBVIOUS
<1>1. CachedKeys(cache) = {} /\ PoolsHanded = {}
  BY DEF Init, CachedKeys, PoolsHanded
<1>2. Memory(cache) = [k \in Keys |-> NoPool]
  BY <1>1 DEF Memory
<1>3. Statuses = [t \in Threads |-> "idle"]
  BY DEF Init, Statuses, InCall, Locking, Locked
<1>4. Answers = [t \in Threads |-> NoPool]
  BY DEF Init, Answers
<1>5. bytes = [t \in Threads |-> NoKey]
  BY DEF Init
<1> QED BY <1>1, <1>2, <1>3, <1>4, <1>5 DEF Memo!Init, Memo!NoPool, NoPool

(* The memo counts as the cache does.                                      *)
LEMMA SameCardinality == \A S : Memo!Cardinality(S) = Cardinality(S)
<1>1. \A S : Memo!IsFiniteSet(S) <=> IsFiniteSet(S)
  BY Zenon DEF Memo!IsFiniteSet, IsFiniteSet
<1> QED BY <1>1, Zenon DEF Memo!Cardinality, Cardinality

(* How one thread's step changes what callers see of its call.             *)
LEMMA StatusStep ==
  ASSUME Inv, NEW t \in Threads, NEW to, Goto(t, to)
  PROVE  Statuses' = [Statuses EXCEPT ![t] = IF to \in InCall THEN "busy" ELSE to]
BY DEF Inv, TypeOK, Goto, Statuses

(* Every step of the cache is a step of the memo, or invisible in it.      *)
LEMMA MemoStep ==
  ASSUME Inv, CountInv, CountInv', [Next]_vars
  PROVE  [Memo!Next]_(Memo!vars)
<1>1. /\ pc \in [Threads -> {"idle"} \cup InCall \cup Finished]
      /\ pool \in [Threads -> 0 .. Len(made)]
      /\ bytes \in [Threads -> Keys \cup {NoKey}]
      /\ InCall = {"lock_lookup", "lookup", "decode", "lock_insert", "insert"}
      /\ \A t \in Threads : pc[t] = "idle" <=> bytes[t] = NoKey
      /\ Memo!NoPool = NoPool
  BY DEF Inv, TypeOK, PhaseInv, InCall, Locking, Locked, Memo!NoPool, NoPool
<1>2. ASSUME NEW t \in Threads, NEW k \in Keys, Call(t, k) PROVE Memo!Call(t, k)
  <2>1. Statuses[t] = "idle" /\ Statuses' = [Statuses EXCEPT ![t] = "busy"]
    BY <1>1, <1>2, StatusStep DEF Call, Statuses
  <2>2. Answers' = Answers
    BY <1>1, <1>2 DEF Answers, Call, Goto
  <2>3. Memory(cache)' = Memory(cache) /\ PoolsHanded' = PoolsHanded
    BY <1>2 DEF Call, history, PoolsHanded
  <2> QED BY <1>2, <2>1, <2>2, <2>3 DEF Memo!Call, Call
<1>3. ASSUME NEW t \in Threads, Lock(t) \/ Miss(t) \/ Decode(t) PROVE UNCHANGED Memo!vars
  <2>1. Statuses' = Statuses
    BY <1>1, <1>3 DEF Statuses, Lock, Miss, Decode, Goto, Locking
  <2>2. Answers' = Answers
    BY <1>1, <1>3 DEF Answers, Lock, Miss, Decode, Goto, Locking
  <2>3. Memory(cache)' = Memory(cache) /\ PoolsHanded' = PoolsHanded /\ bytes' = bytes
    BY <1>3 DEF Lock, Miss, Decode, history, PoolsHanded
  <2> QED BY <2>1, <2>2, <2>3 DEF Memo!vars
<1>4. ASSUME NEW t \in Threads, DecodeError(t) PROVE Memo!Fail(t, bytes[t]) /\ bytes[t] \in Keys
  <2>1. Statuses[t] = "busy" /\ Statuses' = [Statuses EXCEPT ![t] = "failed"]
    BY <1>1, <1>4, StatusStep DEF DecodeError, Statuses
  <2>2. Answers' = Answers
    BY <1>1, <1>4 DEF Answers, DecodeError, Goto
  <2>3. Memory(cache)' = Memory(cache) /\ PoolsHanded' = PoolsHanded
    BY <1>4 DEF DecodeError, history, PoolsHanded
  <2>4. bytes[t] \in Keys
    BY <1>1, <1>4 DEF DecodeError
  <2> QED BY <1>4, <2>1, <2>2, <2>3, <2>4 DEF Memo!Fail, DecodeError
<1>5. ASSUME NEW t \in Threads, Hit(t) \/ LostRace(t)
      PROVE  Memo!Recall(t, bytes[t]) /\ bytes[t] \in Keys
  <2> DEFINE k == bytes[t]
  <2>1. Found(t) /\ pc[t] \in {"lookup", "insert"}
    BY <1>5 DEF Hit, LostRace
  <2>2. Statuses[t] = "busy" /\ Statuses' = [Statuses EXCEPT ![t] = "returned"]
    BY <1>1, <2>1, StatusStep DEF Found, Statuses
  <2>3. Memory(cache)' = Memory(cache) /\ PoolsHanded' = PoolsHanded
    BY <2>1, FoundMemory
  <2>4. k \in Keys /\ k \in CachedKeys(cache)
    BY <1>1, <2>1, FoundFacts
  <2>5. Memory(cache)[k] # NoPool /\ Memory(cache)[k] = cache[Position(cache, k)].pool
    BY <2>4, CachedPools DEF Memory
  <2>6. Answers' = [Answers EXCEPT ![t] = Memory(cache)[k]]
    <3>1. pc' = [pc EXCEPT ![t] = "returned"] /\ pool' = [pool EXCEPT ![t] = Memory(cache)[k]]
      BY <2>1, <2>5 DEF Found, Goto
    <3> QED BY <1>1, <3>1 DEF Answers
  <2>7. bytes' = bytes
    BY <2>1 DEF Found
  <2> QED BY <1>1, <2>2, <2>3, <2>4, <2>5, <2>6, <2>7 DEF Memo!Recall, Memo!Return
<1>6. ASSUME NEW t \in Threads, Insert(t)
      PROVE  Memo!Remember(t, bytes[t]) /\ bytes[t] \in Keys
  <2> DEFINE k == bytes[t]
  <2> DEFINE victims == CachedKeys(cache) \ CachedKeys(cache')
  <2>1. Statuses[t] = "busy" /\ Statuses' = [Statuses EXCEPT ![t] = "returned"]
    BY <1>1, <1>6, StatusStep DEF Insert, Statuses
  <2>2. Answers' = [Answers EXCEPT ![t] = pool[t]]
    BY <1>1, <1>6 DEF Insert, Answers, Goto
  <2>3. k \in Keys \ CachedKeys(cache)
    BY <1>6, InsertFacts
  <2>4. Memory(cache)[k] = NoPool
    BY <2>3, CachedPools
  <2>5. pool[t] \in 1 .. Len(made) /\ made[pool[t]] = k /\ \A j \in Keys : pool[t] \notin handed[j]
    <3>1. pool[t] # NoPool /\ made[pool[t]] = k /\ \A j \in Keys : pool[t] \notin handed[j]
      BY <1>6 DEF Insert, Inv, PhaseInv, FreshInv
    <3>2. Len(made) \in Nat
      BY LenProperties DEF Inv, TypeOK
    <3> QED BY <1>1, <3>1, <3>2 DEF NoPool
  <2>6. k \in Decodable
    BY <2>5, ElementOfSeq DEF Inv, TypeOK
  <2>7. pool[t] \in Memo!Pools \ PoolsHanded
    <3>1. Len(made) \in Nat /\ calls \in Nat /\ MaxCalls \in Nat /\ Cardinality(Undecoded) \in Nat
          /\ Len(made) + Cardinality(Undecoded) <= calls /\ calls <= MaxCalls
      BY LenProperties, BoundAssumption, FS_CardinalityType DEF Inv, TypeOK, CountInv
    <3>2. pool[t] \in 1 .. MaxCalls
      BY <2>5, <3>1
    <3> QED BY <2>5, <3>2 DEF Memo!Pools, PoolsHanded
  <2>8. PoolsHanded' = PoolsHanded \cup {pool[t]}
    <3>1. handed' = [handed EXCEPT ![k] = @ \cup {pool[t]}] /\ handed \in [Keys -> SUBSET (1 .. Len(made))]
      BY <1>6 DEF Insert, Inv, TypeOK
    <3> HIDE DEF k
    <3>2. \A j \in Keys : handed'[j] = IF j = k THEN handed[j] \cup {pool[t]} ELSE handed[j]
      BY <3>1
    <3> QED BY <2>3, <3>2 DEF PoolsHanded
  <2>9. /\ Cardinality(victims) = IF Len(cache) < Capacity THEN 0 ELSE 1
        /\ Memory(cache)' = [j \in Keys |-> IF j = k THEN pool[t]
                                         ELSE IF j \in victims THEN NoPool
                                         ELSE Memory(cache)[j]]
    BY <1>6, InsertMemory
  <2>10. Memo!Remembered(Memory(cache)) = CachedKeys(cache)
    <3>1. CachedKeys(cache) \subseteq Keys
      BY CachedPools DEF CachedKeys
    <3> QED BY <1>1, <3>1, CachedPools DEF Memo!Remembered
  <2>11. Cardinality(CachedKeys(cache)) = Len(cache)
    <3>1. Len(cache) \in Nat /\ DistinctKeys(cache)
      BY LenProperties DEF Inv, TypeOK, EntryInv
    <3> QED BY <3>1, KeyCount
  <2>12. victims \in SUBSET Memo!Remembered(Memory(cache))
    BY <2>10
  <2>13. bytes' = bytes
    BY <1>6 DEF Insert
  <2>14. Memo!Cardinality(victims) =
           IF Memo!Cardinality(Memo!Remembered(Memory(cache))) < Capacity THEN 0 ELSE 1
    BY <2>9, <2>10, <2>11, SameCardinality
  <2>15. Memo!Return(t, pool[t])
    BY <2>1, <2>2, <2>13 DEF Memo!Return
  <2> HIDE DEF victims
  <2> QED BY <1>1, <2>3, <2>4, <2>6, <2>7, <2>8, <2>9, <2>12, <2>14, <2>15 DEF Memo!Remember
<1>7. ASSUME NEW t \in Threads, Release(t) PROVE Memo!Release(t)
  <2>1. Statuses[t] \in {"returned", "failed"} /\ Statuses' = [Statuses EXCEPT ![t] = "idle"]
    BY <1>1, <1>7, StatusStep DEF Release, Statuses, Finished
  <2>2. Answers' = [Answers EXCEPT ![t] = NoPool]
    BY <1>1, <1>7 DEF Answers, Release, Goto
  <2>3. Memory(cache)' = Memory(cache) /\ PoolsHanded' = PoolsHanded
    BY <1>7 DEF Release, history, PoolsHanded
  <2> QED BY <1>1, <1>7, <2>1, <2>2, <2>3 DEF Memo!Release, Release
<1>8. ASSUME Terminated \/ UNCHANGED vars PROVE UNCHANGED Memo!vars
  BY <1>8 DEF Terminated, vars, Memo!vars, Statuses, Answers, PoolsHanded
<1>9. ASSUME NEW t \in Threads, Step(t) PROVE Memo!Next \/ UNCHANGED Memo!vars
  BY <1>2, <1>3, <1>4, <1>5, <1>6, <1>7, <1>9 DEF Step, Lookup, Decoding, Memo!Next
<1> QED BY <1>8, <1>9 DEF Next

(* The cache is a memo table with one pool for each remembered key, whose  *)
(* calls take effect one after the other (load_descriptor_pool_cached).    *)
THEOREM Memoizes == Spec => RefinesMemo
<1>1. Spec => []CountInv
  BY CountInit, CountStep, Invariance, PTL DEF Spec
<1>2. Inv /\ CountInv /\ CountInv' /\ [Next]_vars => [Memo!Next]_(Memo!vars)
  BY MemoStep
<1> QED BY <1>1, <1>2, Invariance, MemoInit, PTL DEF Spec, RefinesMemo, Memo!Spec

-----------------------------------------------------------------------------
(* Threads that create and share resolvers use the cache as any threads do.*)
LEMMA ResolverInitCache == ResolverInit => Init
BY DEF ResolverInit

(* A step of the resolvers is one of the cache, or leaves the cache alone. *)
LEMMA ResolverStepCache == [ResolverNext]_allVars => [Next]_vars
<1> SUFFICES ASSUME [ResolverNext]_allVars PROVE [Next]_vars
  OBVIOUS
<1>1. UNCHANGED poolVars => UNCHANGED vars
  BY DEF poolVars, vars, history
<1>2. UNCHANGED allVars => UNCHANGED vars
  BY DEF allVars, poolVars, vars, history
<1>3. ASSUME NEW t \in Threads, Load(t) PROVE Next
  BY <1>3 DEF Load, Next, Step
<1>4. ASSUME NEW t \in Threads, Release(t) PROVE Next
  BY <1>4 DEF Next, Step
<1>5. ASSUME NEW t \in Threads,
             \/ Load(t) \/ LoadFailed(t) \/ FromDescriptorBytes(t)
             \/ \E n \in Names : ConvertOnce(t, n) \/ \E r \in Resolvers : Resolve(t, r, n)
             \/ TakeRead(t) \/ TakeWrite(t) \/ Guarded(t)
      PROVE  Next \/ UNCHANGED poolVars
  BY <1>3, <1>4, <1>5 DEF LoadFailed, FromDescriptorBytes, ConvertOnce, Resolve, TakeRead, TakeWrite,
     Guarded, ReadHit, ReadMiss, WriteHit, Memoize, NotFound, DropWrite
<1>6. Done => UNCHANGED allVars
  BY DEF Done
<1> QED BY <1>1, <1>2, <1>5, <1>6 DEF ResolverNext

(* The composition is a behaviour of the cache: what is proved of the      *)
(* cache holds beneath resolvers (descriptor_resolver.rs).                 *)
THEOREM ResolversUseTheCache == ResolverSpec => Spec /\ []Inv
BY ResolverInitCache, ResolverStepCache, Invariance, PTL DEF ResolverSpec, Spec

-----------------------------------------------------------------------------
(* Each resolver has its own map, guards and history.                      *)
ResolverType ==
  /\ resolvers \in Seq([pool : 1 .. Len(made), bytes : Decodable])
  /\ known \in Seq(SUBSET Names)
  /\ lookups \in Seq([Names -> Nat])
  /\ Len(known) = Len(resolvers)
  /\ Len(lookups) = Len(resolvers)
  /\ at \in [Threads -> {"outside", "want_read", "reading", "want_write", "writing"}]
  /\ on \in [Threads -> Nat]
  /\ name \in [Threads -> Names \cup {NoName}]
  /\ \A t \in Threads : at[t] # "outside" => on[t] \in Resolvers /\ name[t] \in Names

(* A resolver keeps the pool of its bytes, and knows names of those only.  *)
KnownInv ==
  \A r \in Resolvers :
    /\ made[resolvers[r].pool] = resolvers[r].bytes
    /\ known[r] \subseteq Messages[resolvers[r].bytes]

ResolverInv == ResolverType /\ KnownInv /\ AnswersDependOnBytes /\ LookedUpOnce

(* At first there is no resolver.                                          *)
LEMMA ResolverInvInit == ResolverInit => ResolverInv
<1> SUFFICES ASSUME ResolverInit PROVE ResolverInv
  OBVIOUS
<1>1. /\ resolvers = <<>> /\ known = <<>> /\ lookups = <<>> /\ answers = {}
      /\ at = [t \in Threads |-> "outside"] /\ on = [t \in Threads |-> 0]
      /\ name = [t \in Threads |-> NoName]
  BY DEF ResolverInit
<1>2. Resolvers = {}
  BY <1>1 DEF Resolvers
<1>3. ResolverType
  BY <1>1 DEF ResolverType
<1> QED BY <1>1, <1>2, <1>3 DEF ResolverInv, KnownInv, AnswersDependOnBytes, LookedUpOnce

(* Pools keep the bytes they were made from.                               *)
LEMMA MadeGrows ==
  ASSUME Inv, Inv', [Next]_vars
  PROVE  /\ Len(made) \in Nat /\ Len(made') \in Nat /\ Len(made) <= Len(made')
         /\ \A p \in 1 .. Len(made) : made'[p] = made[p]
<1>1. made \in Seq(Decodable) /\ Len(made) \in Nat
  BY LenProperties DEF Inv, TypeOK
<1>2. CASE made' = made
  BY <1>1, <1>2
<1>3. ASSUME NEW t \in Threads, Decode(t)
      PROVE  /\ Len(made') \in Nat /\ Len(made) <= Len(made')
             /\ \A p \in 1 .. Len(made) : made'[p] = made[p]
  BY <1>1, <1>3 DEF Decode
<1>4. made' = made \/ \E t \in Threads : Decode(t)
  BY DEF Next, Step, Lookup, Decoding, Call, Lock, Hit, Miss, LostRace, Found, Insert, DecodeError,
         Release, Terminated, vars
<1> QED BY <1>1, <1>2, <1>3, <1>4

(* A thread in the cache leaves the resolvers alone.                       *)
LEMMA ResolverUnchanged ==
  ASSUME Inv, Inv', ResolverInv, [Next]_vars, UNCHANGED resolverVars
  PROVE  ResolverInv'
<1>1. UNCHANGED <<resolvers, known, lookups, at, on, name, answers>>
  BY DEF resolverVars
<1>2. /\ Len(made) \in Nat /\ Len(made') \in Nat /\ Len(made) <= Len(made')
      /\ \A p \in 1 .. Len(made) : made'[p] = made[p]
  BY MadeGrows
<1>3. Resolvers' = Resolvers
  BY <1>1 DEF Resolvers
<1>4. resolvers \in Seq([pool : 1 .. Len(made'), bytes : Decodable])
  <2>1. [pool : 1 .. Len(made), bytes : Decodable] \subseteq [pool : 1 .. Len(made'), bytes : Decodable]
    BY <1>2
  <2> QED BY <2>1, SeqMonotonic DEF ResolverInv, ResolverType
<1>5. ResolverType'
  BY <1>1, <1>3, <1>4 DEF ResolverInv, ResolverType
<1>6. KnownInv'
  <2>1. ASSUME NEW r \in Resolvers PROVE resolvers[r].pool \in 1 .. Len(made)
    <3>1. resolvers[r] \in [pool : 1 .. Len(made), bytes : Decodable]
      BY ElementOfSeq DEF ResolverInv, ResolverType, Resolvers
    <3> QED BY <3>1
  <2> QED BY <1>1, <1>2, <1>3, <2>1 DEF ResolverInv, KnownInv
<1>7. (AnswersDependOnBytes /\ LookedUpOnce)'
  BY <1>1, <1>3 DEF ResolverInv, AnswersDependOnBytes, LookedUpOnce
<1> QED BY <1>5, <1>6, <1>7 DEF ResolverInv

(* A new resolver knows no name.                                           *)
LEMMA CreateStep ==
  ASSUME Inv, ResolverInv, NEW t \in Threads, FromDescriptorBytes(t)
  PROVE  ResolverInv'
<1> DEFINE new == [pool |-> pool[t], bytes |-> bytes[t]]
<1> DEFINE none == [n \in Names |-> 0]
<1>1. /\ pc[t] = "returned" /\ made' = made
      /\ resolvers' = Append(resolvers, new)
      /\ known' = Append(known, {})
      /\ lookups' = Append(lookups, none)
      /\ UNCHANGED <<at, on, name, answers>>
  BY DEF FromDescriptorBytes, Release
<1>2. pool[t] \in 1 .. Len(made) /\ made[pool[t]] = bytes[t] /\ bytes[t] \in Decodable
  <2>1. pool[t] # NoPool /\ made[pool[t]] = bytes[t] /\ pool[t] \in 0 .. Len(made)
    BY <1>1 DEF Inv, PhaseInv, TypeOK
  <2>2. Len(made) \in Nat /\ made \in Seq(Decodable)
    BY LenProperties DEF Inv, TypeOK
  <2>3. pool[t] \in 1 .. Len(made)
    BY <2>1, <2>2 DEF NoPool
  <2> QED BY <2>1, <2>2, <2>3, ElementOfSeq
<1>3. /\ new \in [pool : 1 .. Len(made), bytes : Decodable]
      /\ new.pool = pool[t] /\ new.bytes = bytes[t]
      /\ none \in [Names -> Nat]
  BY <1>2
<1> HIDE DEF new, none
<1>4. /\ resolvers \in Seq([pool : 1 .. Len(made), bytes : Decodable])
      /\ known \in Seq(SUBSET Names) /\ lookups \in Seq([Names -> Nat])
      /\ Len(resolvers) \in Nat /\ Len(known) = Len(resolvers) /\ Len(lookups) = Len(resolvers)
  BY LenProperties DEF ResolverInv, ResolverType
<1>5. /\ resolvers' \in Seq([pool : 1 .. Len(made), bytes : Decodable])
      /\ Len(resolvers') = Len(resolvers) + 1
      /\ resolvers'[Len(resolvers) + 1] = new
      /\ \A r \in Resolvers : resolvers'[r] = resolvers[r]
  BY <1>1, <1>3, <1>4, AppendProperties DEF Resolvers
<1>6. /\ known' \in Seq(SUBSET Names)
      /\ Len(known') = Len(resolvers) + 1
      /\ known'[Len(resolvers) + 1] = {}
      /\ \A r \in Resolvers : known'[r] = known[r]
  <2>1. {} \in SUBSET Names
    OBVIOUS
  <2> QED BY <1>1, <1>4, <2>1, AppendProperties DEF Resolvers
<1>7. /\ lookups' \in Seq([Names -> Nat])
      /\ Len(lookups') = Len(resolvers) + 1
      /\ lookups'[Len(resolvers) + 1] = none
      /\ \A r \in Resolvers : lookups'[r] = lookups[r]
  BY <1>1, <1>3, <1>4, AppendProperties DEF Resolvers
<1>8. Resolvers' = Resolvers \cup {Len(resolvers) + 1}
  BY <1>4, <1>5 DEF Resolvers
<1>9. ResolverType'
  BY <1>1, <1>5, <1>6, <1>7, <1>8 DEF ResolverInv, ResolverType
<1>10. KnownInv'
  <2>1. ASSUME NEW r \in Resolvers'
        PROVE  made[resolvers'[r].pool] = resolvers'[r].bytes
               /\ known'[r] \subseteq Messages[resolvers'[r].bytes]
    <3>1. CASE r \in Resolvers
      BY <1>5, <1>6, <3>1 DEF ResolverInv, KnownInv
    <3>2. CASE r = Len(resolvers) + 1
      BY <1>2, <1>3, <1>5, <1>6, <3>2
    <3> QED BY <1>8, <3>1, <3>2
  <2> QED BY <1>1, <2>1 DEF KnownInv
<1>11. LookedUpOnce'
  BY <1>6, <1>7, <1>8 DEF ResolverInv, LookedUpOnce, none
<1>12. AnswersDependOnBytes'
  BY <1>1 DEF ResolverInv, AnswersDependOnBytes
<1> QED BY <1>9, <1>10, <1>11, <1>12 DEF ResolverInv

(* A free function answers from a pool of its own bytes.                   *)
LEMMA ConvertStep ==
  ASSUME Inv, ResolverInv, NEW t \in Threads, NEW n \in Names, ConvertOnce(t, n)
  PROVE  ResolverInv'
<1>1. /\ pc[t] = "returned" /\ made' = made
      /\ answers' = answers \cup {[bytes |-> bytes[t], name |-> n, found |-> Has(pool[t], n)]}
      /\ UNCHANGED <<resolvers, known, lookups, at, on, name>>
  BY DEF ConvertOnce, Release
<1>2. made[pool[t]] = bytes[t]
  BY <1>1 DEF Inv, PhaseInv
<1>3. AnswersDependOnBytes'
  <2>1. ASSUME NEW x \in answers' PROVE x.found <=> x.name \in Messages[x.bytes]
    <3>1. CASE x \in answers
      BY <3>1 DEF ResolverInv, AnswersDependOnBytes
    <3>2. CASE x = [bytes |-> bytes[t], name |-> n, found |-> Has(pool[t], n)]
      BY <1>2, <3>2, Zenon DEF Has
    <3> QED BY <1>1, <3>1, <3>2
  <2> QED BY <2>1 DEF AnswersDependOnBytes
<1>4. Resolvers' = Resolvers
  BY <1>1 DEF Resolvers
<1> QED BY <1>1, <1>3, <1>4 DEF ResolverInv, ResolverType, KnownInv, LookedUpOnce

(* Waiting for a guard and taking it answers nothing.                      *)
LEMMA GuardStep ==
  ASSUME ResolverInv, NEW t \in Threads,
         \/ \E n \in Names : \E r \in Resolvers : Resolve(t, r, n)
         \/ TakeRead(t) \/ TakeWrite(t) \/ ReadMiss(t)
  PROVE  ResolverInv'
<1>1. UNCHANGED <<made, resolvers, known, lookups, answers>>
  BY DEF Resolve, TakeRead, TakeWrite, ReadMiss, poolVars
<1>2. Resolvers' = Resolvers /\ \A r \in Resolvers : r \in Nat
  BY <1>1 DEF Resolvers
<1>3. ResolverType'
  <2>1. /\ at \in [Threads -> {"outside", "want_read", "reading", "want_write", "writing"}]
        /\ on \in [Threads -> Nat] /\ name \in [Threads -> Names \cup {NoName}]
        /\ \A u \in Threads : at[u] # "outside" => on[u] \in Resolvers /\ name[u] \in Names
    BY DEF ResolverInv, ResolverType
  <2>2. PICK place \in {"want_read", "reading", "want_write", "writing"} :
          at' = [at EXCEPT ![t] = place]
    BY DEF Resolve, TakeRead, TakeWrite, ReadMiss, Move
  <2>3. PICK r \in Resolvers, n \in Names :
          on' = [on EXCEPT ![t] = r] /\ name' = [name EXCEPT ![t] = n]
    <3>1. CASE \E n \in Names : \E r \in Resolvers : Resolve(t, r, n)
      BY <3>1 DEF Resolve
    <3>2. CASE TakeRead(t) \/ TakeWrite(t) \/ ReadMiss(t)
      <4>1. at[t] # "outside" /\ on' = on /\ name' = name
        BY <3>2 DEF TakeRead, TakeWrite, ReadMiss
      <4> QED BY <2>1, <4>1
    <3> QED BY <3>1, <3>2
  <2>4. /\ at' \in [Threads -> {"outside", "want_read", "reading", "want_write", "writing"}]
        /\ on' \in [Threads -> Nat] /\ name' \in [Threads -> Names \cup {NoName}]
        /\ \A u \in Threads : at'[u] # "outside" => on'[u] \in Resolvers /\ name'[u] \in Names
    BY <1>2, <2>1, <2>2, <2>3
  <2> QED BY <1>1, <1>2, <2>4 DEF ResolverInv, ResolverType
<1> QED BY <1>1, <1>2, <1>3 DEF ResolverInv, KnownInv, LookedUpOnce, AnswersDependOnBytes

(* A thread that leaves resolve is outside.                                *)
LEMMA AnswerType ==
  ASSUME ResolverInv, NEW t \in Threads, NEW found, Answer(t, found),
         UNCHANGED <<resolvers, made>>,
         known' \in Seq(SUBSET Names), lookups' \in Seq([Names -> Nat]),
         Len(known') = Len(known), Len(lookups') = Len(lookups)
  PROVE  ResolverType'
BY DEF Answer, Move, Resolvers, ResolverInv, ResolverType

(* An answer is about the bytes of the resolver.                           *)
LEMMA AnswerRight ==
  ASSUME ResolverInv, NEW t \in Threads, NEW found, Answer(t, found),
         found <=> name[t] \in Messages[resolvers[on[t]].bytes]
  PROVE  AnswersDependOnBytes'
BY DEF Answer, ResolverInv, AnswersDependOnBytes

(* A memoized name was found before.                                       *)
LEMMA HitStep ==
  ASSUME ResolverInv, NEW t \in Threads, ReadHit(t) \/ WriteHit(t)
  PROVE  ResolverInv'
<1>1. /\ at[t] # "outside" /\ name[t] \in known[on[t]] /\ Answer(t, TRUE)
      /\ UNCHANGED <<made, resolvers, known, lookups>>
  BY DEF ReadHit, WriteHit, DropWrite, poolVars
<1>2. Resolvers' = Resolvers /\ on[t] \in Resolvers
  BY <1>1 DEF Resolvers, ResolverInv, ResolverType
<1>3. ResolverType'
  BY <1>1, AnswerType DEF ResolverInv, ResolverType
<1>4. AnswersDependOnBytes'
  BY <1>1, <1>2, AnswerRight DEF ResolverInv, KnownInv
<1> QED BY <1>1, <1>2, <1>3, <1>4 DEF ResolverInv, KnownInv, LookedUpOnce

(* A name the pool does not have is answered, not kept.                    *)
LEMMA NotFoundStep ==
  ASSUME ResolverInv, NEW t \in Threads, NotFound(t)
  PROVE  ResolverInv'
<1>1. /\ at[t] # "outside" /\ ~Has(resolvers[on[t]].pool, name[t]) /\ Answer(t, FALSE)
      /\ UNCHANGED <<made, resolvers, known, lookups>>
  BY DEF NotFound, DropWrite, poolVars
<1>2. Resolvers' = Resolvers /\ on[t] \in Resolvers
  BY <1>1 DEF Resolvers, ResolverInv, ResolverType
<1>3. ResolverType'
  BY <1>1, AnswerType DEF ResolverInv, ResolverType
<1>4. AnswersDependOnBytes'
  BY <1>1, <1>2, AnswerRight DEF ResolverInv, KnownInv, Has
<1> QED BY <1>1, <1>2, <1>3, <1>4 DEF ResolverInv, KnownInv, LookedUpOnce

(* A name is memoized when its one search finds it.                        *)
LEMMA MemoizeStep ==
  ASSUME ResolverInv, NEW t \in Threads, Memoize(t)
  PROVE  ResolverInv'
<1> DEFINE r == on[t]
<1> DEFINE n == name[t]
<1>1. /\ at[t] # "outside" /\ n \notin known[r] /\ Has(resolvers[r].pool, n) /\ Answer(t, TRUE)
      /\ known' = [known EXCEPT ![r] = @ \cup {n}]
      /\ lookups' = [lookups EXCEPT ![r][n] = @ + 1]
      /\ UNCHANGED <<made, resolvers>>
  BY DEF Memoize, DropWrite, poolVars
<1>2. r \in Resolvers /\ n \in Names
  BY <1>1 DEF ResolverInv, ResolverType
<1>3. Resolvers' = Resolvers
  BY <1>1 DEF Resolvers
<1>4. n \in Messages[resolvers[r].bytes]
  BY <1>1, <1>2 DEF Has, ResolverInv, KnownInv
<1>5. AnswersDependOnBytes'
  BY <1>1, <1>4, AnswerRight
<1> HIDE DEF r, n
<1>6. /\ known \in Seq(SUBSET Names) /\ lookups \in Seq([Names -> Nat])
      /\ Resolvers = 1 .. Len(known) /\ Resolvers = 1 .. Len(lookups)
      /\ Len(known) \in Nat /\ Len(lookups) \in Nat
  BY LenProperties DEF ResolverInv, ResolverType, Resolvers
<1>7. /\ known' \in Seq(SUBSET Names) /\ Len(known') = Len(known)
      /\ \A q \in Resolvers : known'[q] = IF q = r THEN known[q] \cup {n} ELSE known[q]
  <2> DEFINE more == known[r] \cup {n}
  <2>1. more \in SUBSET Names
    BY <1>2, <1>6, ElementOfSeq
  <2>2. known' = [known EXCEPT ![r] = more]
    BY <1>1
  <2>3. \A q \in Resolvers : q = r => known[q] \cup {n} = more
    OBVIOUS
  <2> HIDE DEF more
  <2> DEFINE S == SUBSET Names
  <2>4. more \in S /\ known \in Seq(S) /\ r \in 1 .. Len(known)
    BY <1>2, <1>6, <2>1
  <2> HIDE DEF S
  <2>5. known' \in Seq(S) /\ Len(known') = Len(known)
        /\ \A q \in 1 .. Len(known) : known'[q] = IF q = r THEN more ELSE known[q]
    BY <2>2, <2>4, ExceptSeq
  <2> QED BY <1>6, <2>3, <2>5 DEF S
<1>8. /\ lookups' \in Seq([Names -> Nat]) /\ Len(lookups') = Len(lookups)
      /\ \A q \in Resolvers, m \in Names :
           lookups'[q][m] = IF q = r /\ m = n THEN lookups[q][m] + 1 ELSE lookups[q][m]
  <2> DEFINE row == [lookups[r] EXCEPT ![n] = @ + 1]
  <2>1. \A q \in Resolvers : lookups[q] \in [Names -> Nat]
    BY <1>6, ElementOfSeq
  <2>2. row \in [Names -> Nat] /\ \A m \in Names : row[m] = IF m = n THEN lookups[r][m] + 1 ELSE lookups[r][m]
    BY <1>2, <2>1
  <2>3. lookups' = [lookups EXCEPT ![r] = row]
    BY <1>1
  <2> HIDE DEF row
  <2>4. lookups' \in Seq([Names -> Nat]) /\ Len(lookups') = Len(lookups)
        /\ \A q \in Resolvers : lookups'[q] = IF q = r THEN row ELSE lookups[q]
    BY <1>2, <1>6, <2>2, <2>3, ExceptSeq
  <2> QED BY <2>2, <2>4
<1>9. ResolverType'
  BY <1>1, <1>7, <1>8, AnswerType
<1>10. KnownInv'
  BY <1>1, <1>3, <1>4, <1>7 DEF ResolverInv, KnownInv
<1>11. LookedUpOnce'
  <2>1. SUFFICES ASSUME NEW q \in Resolvers, NEW m \in Names
                 PROVE  lookups'[q][m] = IF m \in known'[q] THEN 1 ELSE 0
    BY <1>3 DEF LookedUpOnce
  <2>2. lookups[q][m] = IF m \in known[q] THEN 1 ELSE 0
    BY DEF ResolverInv, LookedUpOnce
  <2>3. n \notin known[r]
    BY <1>1 DEF n, r
  <2>4. known'[q] = IF q = r THEN known[q] \cup {n} ELSE known[q]
    BY <1>7
  <2>5. lookups'[q][m] = IF q = r /\ m = n THEN lookups[q][m] + 1 ELSE lookups[q][m]
    BY <1>8
  <2>6. CASE q = r /\ m = n
    BY <2>2, <2>3, <2>4, <2>5, <2>6
  <2>7. CASE ~(q = r /\ m = n)
    <3>1. m \in known'[q] <=> m \in known[q]
      BY <2>4, <2>7
    <3> QED BY <2>2, <2>5, <2>7, <3>1
  <2> QED BY <2>6, <2>7
<1> QED BY <1>5, <1>9, <1>10, <1>11 DEF ResolverInv

(* The resolvers' invariant is inductive, given that of the cache.         *)
LEMMA ResolverInvStep == Inv /\ Inv' /\ ResolverInv /\ [ResolverNext]_allVars => ResolverInv'
<1> SUFFICES ASSUME Inv, Inv', ResolverInv, [ResolverNext]_allVars PROVE ResolverInv'
  OBVIOUS
<1>1. [Next]_vars
  BY ResolverStepCache
<1>2. CASE UNCHANGED resolverVars
  BY <1>1, <1>2, ResolverUnchanged
<1>3. ASSUME NEW t \in Threads,
             \/ Load(t) \/ LoadFailed(t) \/ FromDescriptorBytes(t)
             \/ \E n \in Names : ConvertOnce(t, n) \/ \E r \in Resolvers : Resolve(t, r, n)
             \/ TakeRead(t) \/ TakeWrite(t) \/ Guarded(t)
      PROVE  ResolverInv'
  <2>1. CASE Load(t) \/ LoadFailed(t)
    BY <1>2, <2>1 DEF Load, LoadFailed
  <2>2. CASE FromDescriptorBytes(t)
    BY <2>2, CreateStep
  <2>3. CASE \E n \in Names : ConvertOnce(t, n)
    BY <2>3, ConvertStep
  <2>4. CASE \/ \E n \in Names : \E r \in Resolvers : Resolve(t, r, n)
             \/ TakeRead(t) \/ TakeWrite(t) \/ ReadMiss(t)
    BY <2>4, GuardStep
  <2>5. CASE ReadHit(t) \/ WriteHit(t)
    BY <2>5, HitStep
  <2>6. CASE Memoize(t)
    BY <2>6, MemoizeStep
  <2>7. CASE NotFound(t)
    BY <2>7, NotFoundStep
  <2> QED BY <1>3, <2>1, <2>2, <2>3, <2>4, <2>5, <2>6, <2>7 DEF Guarded
<1> QED BY <1>2, <1>3 DEF ResolverNext, Done, allVars

(* The invariant of the resolvers holds, for all threads and descriptors.  *)
THEOREM ResolverInvariance == ResolverSpec => []ResolverInv
<1>1. ResolverSpec => [][ResolverNext]_allVars
  BY PTL DEF ResolverSpec
<1> QED BY <1>1, ResolverInvInit, ResolverInvStep, ResolversUseTheCache, PTL DEF ResolverSpec

(* A resolver answers from its own bytes, after its pool was evicted too   *)
(* (DescriptorResolver::resolve).                                          *)
THEOREM AnswersOwnBytes == ResolverSpec => []AnswersDependOnBytes
<1>1. ResolverInv => AnswersDependOnBytes
  BY DEF ResolverInv
<1> QED BY <1>1, ResolverInvariance, PTL

(* However many threads ask first, one of them searches the pool.          *)
THEOREM SearchedOnce == ResolverSpec => []LookedUpOnce
<1>1. ResolverInv => LookedUpOnce
  BY DEF ResolverInv
<1> QED BY <1>1, ResolverInvariance, PTL
=============================================================================
