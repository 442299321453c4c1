-------------------------- MODULE DescriptorResolver --------------------------
(***************************************************************************)
(* src/descriptor_resolver.rs composed with the pool cache: threads create *)
(* DescriptorResolvers from descriptor bytes, share them, and resolve      *)
(* message names on them, while other threads use the free functions of    *)
(* src/core.rs, which take a pool from the cache for one conversion.       *)
(*                                                                         *)
(* A resolver is numbered in order of creation.  What a lookup in a pool   *)
(* finds depends only on the bytes the pool was decoded from: Messages.    *)
(***************************************************************************)
EXTENDS PoolCache

CONSTANTS
  NoName,       \* argument of a thread outside resolve
  Names,        \* message names callers ask for
  Messages,     \* Messages[k]: the names defined by descriptor set k
  MaxResolves   \* bound on the number of calls of resolve

ASSUME MessagesAssumption == Messages \in [Decodable -> SUBSET Names]
ASSUME NamesAssumption == NoName \notin Names
ASSUME ResolvesAssumption == MaxResolves \in Nat

VARIABLES
  resolvers,  \* resolvers[r]: the Arc of its pool and the bytes it was made from
  known,      \* known[r]: the names its descriptors map holds
  readers,    \* readers[r]: the threads holding its read guard
  writer,     \* writer[r]: the thread holding its write guard, or NoThread
  at,         \* where each thread is in resolve
  on,         \* the resolver it is in
  name,       \* the name it asks for
  resolves,   \* number of calls of resolve so far
  lookups,    \* history: lookups[r][n], how often r's pool was searched for n and had it
  answers     \* history: every answer given, as [bytes, name, found]

poolVars == <<cache, lock, pc, bytes, pool, made, calls, history>>
resolverVars ==
  <<resolvers, known, readers, writer, at, on, name, resolves, lookups, answers>>
allVars == <<poolVars, resolverVars>>

Resolvers == 1 .. Len(resolvers)

(* core::get_message_descriptor succeeds on pool p.                        *)
Has(p, n) == n \in Messages[made[p]]

ResolverInit ==
  /\ Init
  /\ resolvers = <<>>
  /\ known = <<>>
  /\ readers = <<>>
  /\ writer = <<>>
  /\ at = [t \in Threads |-> "outside"]
  /\ on = [t \in Threads |-> 0]
  /\ name = [t \in Threads |-> NoName]
  /\ resolves = 0
  /\ lookups = <<>>
  /\ answers = {}

Move(t, to) == at' = [at EXCEPT ![t] = to]

(* resolve returns: Ok or Err.                                             *)
Answer(t, found) ==
  /\ answers' = answers \cup
       {[bytes |-> resolvers[on[t]].bytes, name |-> name[t], found |-> found]}
  /\ Move(t, "outside")
  /\ on' = [on EXCEPT ![t] = 0]
  /\ name' = [name EXCEPT ![t] = NoName]

(* A step inside load_descriptor_pool_cached.                              *)
Load(t) ==
  /\ at[t] = "outside"
  /\ (\E k \in Keys : Call(t, k)) \/ Lock(t) \/ Lookup(t) \/ Decoding(t)
  /\ UNCHANGED resolverVars

(* The error of a load, of a resolver or of a free function, is passed on. *)
LoadFailed(t) ==
  /\ pc[t] = "failed"
  /\ Release(t)
  /\ UNCHANGED resolverVars

(* from_descriptor_bytes wraps the pool it loaded.                         *)
FromDescriptorBytes(t) ==
  /\ pc[t] = "returned"
  /\ resolvers' = Append(resolvers, [pool |-> pool[t], bytes |-> bytes[t]])
  /\ known' = Append(known, {})
  /\ readers' = Append(readers, {})
  /\ writer' = Append(writer, NoThread)
  /\ lookups' = Append(lookups, [n \in Names |-> 0])
  /\ Release(t)
  /\ UNCHANGED <<at, on, name, resolves, answers>>

(* json_to_protobuf_bytes and protobuf_to_json_string look one name up in  *)
(* the pool they loaded and drop the pool when they return.                *)
ConvertOnce(t, n) ==
  /\ pc[t] = "returned"
  /\ answers' = answers \cup {[bytes |-> bytes[t], name |-> n, found |-> Has(pool[t], n)]}
  /\ Release(t)
  /\ UNCHANGED <<resolvers, known, readers, writer, at, on, name, resolves, lookups>>

Resolve(t, r, n) ==
  /\ pc[t] = "idle"
  /\ at[t] = "outside"
  /\ resolves < MaxResolves
  /\ resolves' = resolves + 1
  /\ on' = [on EXCEPT ![t] = r]
  /\ name' = [name EXCEPT ![t] = n]
  /\ Move(t, "want_read")
  /\ UNCHANGED <<poolVars, resolvers, known, readers, writer, lookups, answers>>

TakeRead(t) ==
  /\ at[t] = "want_read"
  /\ writer[on[t]] = NoThread
  /\ readers' = [readers EXCEPT ![on[t]] = @ \cup {t}]
  /\ Move(t, "reading")
  /\ UNCHANGED <<poolVars, resolvers, known, writer, on, name, resolves, lookups, answers>>

(* The read guard lives only as long as the if-let that reads the map.     *)
ReadHit(t) ==
  /\ at[t] = "reading"
  /\ name[t] \in known[on[t]]
  /\ readers' = [readers EXCEPT ![on[t]] = @ \ {t}]
  /\ Answer(t, TRUE)
  /\ UNCHANGED <<poolVars, resolvers, known, writer, resolves, lookups>>

(* Mutant of ReadMiss: the read guard is held while waiting to write.      *)
ReadMissHoldingGuard(t) ==
  /\ at[t] = "reading"
  /\ name[t] \notin known[on[t]]
  /\ Move(t, "want_write")
  /\ UNCHANGED <<poolVars, resolvers, known, readers, writer, on, name, resolves, lookups, answers>>

ReadMiss(t) ==
  /\ at[t] = "reading"
  /\ name[t] \notin known[on[t]]
  /\ readers' = [readers EXCEPT ![on[t]] = @ \ {t}]
  /\ Move(t, "want_write")
  /\ UNCHANGED <<poolVars, resolvers, known, writer, on, name, resolves, lookups, answers>>

TakeWrite(t) ==
  /\ at[t] = "want_write"
  /\ writer[on[t]] = NoThread
  /\ readers[on[t]] = {}
  /\ writer' = [writer EXCEPT ![on[t]] = t]
  /\ Move(t, "writing")
  /\ UNCHANGED <<poolVars, resolvers, known, readers, on, name, resolves, lookups, answers>>

DropWrite(t, found) ==
  /\ writer' = [writer EXCEPT ![on[t]] = NoThread]
  /\ Answer(t, found)
  /\ UNCHANGED <<poolVars, resolvers, readers, resolves>>

(* Another thread inserted the name between the two guards.                *)
WriteHit(t) ==
  /\ at[t] = "writing"
  /\ name[t] \in known[on[t]]
  /\ DropWrite(t, TRUE)
  /\ UNCHANGED <<known, lookups>>

(* Mutants of Memoize: no second look under the write guard; a map of      *)
(* descriptors shared by all resolvers.                                    *)
MemoizeWithoutRecheck(t) ==
  LET r == on[t]
      n == name[t]
  IN  /\ at[t] = "writing"
      /\ Has(resolvers[r].pool, n)
      /\ known' = [known EXCEPT ![r] = @ \cup {n}]
      /\ lookups' = [lookups EXCEPT ![r][n] = @ + 1]
      /\ DropWrite(t, TRUE)

MemoizeForAll(t) ==
  LET r == on[t]
      n == name[t]
  IN  /\ at[t] = "writing"
      /\ n \notin known[r]
      /\ Has(resolvers[r].pool, n)
      /\ known' = [q \in Resolvers |-> known[q] \cup {n}]
      /\ lookups' = [lookups EXCEPT ![r][n] = @ + 1]
      /\ DropWrite(t, TRUE)

Memoize(t) ==
  LET r == on[t]
      n == name[t]
  IN  /\ at[t] = "writing"
      /\ n \notin known[r]
      /\ Has(resolvers[r].pool, n)
      /\ known' = [known EXCEPT ![r] = @ \cup {n}]
      /\ lookups' = [lookups EXCEPT ![r][n] = @ + 1]
      /\ DropWrite(t, TRUE)

NotFound(t) ==
  /\ at[t] = "writing"
  /\ name[t] \notin known[on[t]]
  /\ ~Has(resolvers[on[t]].pool, name[t])
  /\ DropWrite(t, FALSE)
  /\ UNCHANGED <<known, lookups>>

Guarded(t) == ReadHit(t) \/ ReadMiss(t) \/ WriteHit(t) \/ Memoize(t) \/ NotFound(t)

Done ==
  /\ calls = MaxCalls
  /\ \A t \in Threads : pc[t] = "idle" /\ at[t] = "outside"
  /\ UNCHANGED allVars

ResolverNext ==
  \/ \E t \in Threads :
       \/ Load(t) \/ LoadFailed(t) \/ FromDescriptorBytes(t)
       \/ \E n \in Names : ConvertOnce(t, n) \/ \E r \in Resolvers : Resolve(t, r, n)
       \/ TakeRead(t) \/ TakeWrite(t) \/ Guarded(t)
  \/ Done

(* A thread leaves a critical section and drops its guard.  parking_lot's  *)
(* locks are eventually fair: a thread that waits for one while it is      *)
(* freed again and again gets it, so strong fairness.  Nothing is assumed  *)
(* of callers, who may keep a pool forever, nor of the decoder.            *)
ResolverSpec ==
  /\ ResolverInit
  /\ [][ResolverNext]_allVars
  /\ \A t \in Threads :
       /\ WF_allVars(Guarded(t)) /\ SF_allVars(TakeRead(t)) /\ SF_allVars(TakeWrite(t))
       /\ WF_vars(Lookup(t)) /\ SF_vars(Lock(t))

-----------------------------------------------------------------------------
(* Whether a name is found depends only on the descriptor bytes the caller *)
(* gave, by whichever route it asked: through a resolver that outlived the *)
(* eviction of its pool, through a memoized answer, or through a free      *)
(* function on the cached pool.                                            *)
AnswersDependOnBytes ==
  \A x \in answers : x.found <=> x.name \in Messages[x.bytes]

(* Concurrent first requests of one name search the pool once, and the     *)
(* memo never holds a name that was not searched for successfully, so      *)
(* unknown names, however many, do not make it grow.                       *)
LookedUpOnce ==
  \A r \in Resolvers, n \in Names :
    lookups[r][n] = IF n \in known[r] THEN 1 ELSE 0

(* No call of resolve hangs, whatever the threads inside the pool cache    *)
(* do: no thread waits for the write guard while it holds the read guard.  *)
EveryResolveReturns ==
  \A t \in Threads : at[t] # "outside" ~> at[t] = "outside"
=============================================================================
