---------------------------- MODULE DecodeProofs ----------------------------
(***************************************************************************)
(* What Decode does for every schema and every input: oneofs stay          *)
(* exclusive, the calls nest no deeper than they may, each token is read   *)
(* once, and each step is nearer to the end.                               *)
(***************************************************************************)
EXTENDS DecodeProgress, Lemmas

(* The fields of a message being read that are set or wait to be.          *)
Given(frame) ==
  {j \in 1 .. Len(Plan[frame.of]) :
     \/ frame.slots[j] # Absent
     \/ \E p \in 1 .. Len(frame.pending) : frame.pending[p].field = j}

(* No two of the fields are in one oneof.                                  *)
Exclusive(m, fields) ==
  \A j, k \in fields : Plan[m][j].group = Plan[m][k].group /\ Plan[m][j].group # 0 => j = k

(* Payloads wait for singular fields.                                      *)
Singular(m) == {j \in 1 .. Len(Plan[m]) : Plan[m][j].kind = "single"}
Waits(m, p) ==
  /\ DOMAIN p = {"field", "tokens"}
  /\ p.field \in Singular(m)
  /\ IsMessage(Plan[m][p.field].value)

MessageShape(frame) ==
  /\ frame.call = "message"
  /\ DOMAIN frame = {"call", "of", "data", "depth", "at", "slots", "pending"}
  /\ frame.of \in Messages
  /\ DOMAIN frame.slots = 1 .. Len(Plan[frame.of])
  /\ IsSequence(frame.pending)
  /\ \A p \in 1 .. Len(frame.pending) : Waits(frame.of, frame.pending[p])
EntryShape(frame) ==
  /\ frame.call = "entry"
  /\ DOMAIN frame = {"call", "of", "data", "depth", "at", "key", "value"}
  /\ frame.of \in FieldPlans
Shape(frame) ==
  /\ frame.depth \in 0 .. MAX_DEPTH
  /\ MessageShape(frame) \/ EntryShape(frame)

FrameInv(frame) ==
  Shape(frame) /\ (frame.call = "message" => Exclusive(frame.of, Given(frame)))

(* The frame can take a value for its field at.                            *)
Wants(frame, at) ==
  frame.call = "message" =>
    at \in 1 .. Len(Plan[frame.of]) /\ Exclusive(frame.of, Given(frame) \cup {at})

(* The frame child is called by the frame caller.                          *)
Calls(caller, child) ==
  /\ Wants(caller, child.at)
  /\ child.call = "message" => child.depth = caller.depth + 1
  /\ child.call = "entry" => caller.call = "message" /\ child.depth = caller.depth

(* The calls of decode_message among the first i.                          *)
MessagesOf(s, i) == {j \in 1 .. i : s[j].call = "message"}

Counted(s, i) ==
  /\ Cardinality(MessagesOf(s, i)) = s[i].depth + 1
  /\ i <= 2 * s[i].depth + IF s[i].call = "message" THEN 1 ELSE 2

StackInv(s) ==
  /\ IsSequence(s)
  /\ \A i \in 1 .. Len(s) : FrameInv(s[i])
  /\ \A i \in 1 .. Len(s) - 1 : Calls(s[i], s[i + 1])
  /\ \A i \in 1 .. Len(s) : Counted(s, i)
  /\ s # <<>> => s[1].call = "message"

(* The inductive invariant.                                                *)
DecodeInv == StackInv(stack)

-----------------------------------------------------------------------------
(* Frames.  Fewer fields are exclusive if more are.                        *)
LEMMA ExclusiveSubset ==
  ASSUME NEW m, NEW A, NEW B, A \subseteq B, Exclusive(m, B)
  PROVE  Exclusive(m, A)
BY DEF Exclusive

(* A field outside oneofs is exclusive with any others.                    *)
LEMMA ExclusiveAlone ==
  ASSUME NEW m, NEW A, Exclusive(m, A), NEW i, Plan[m][i].group = 0
  PROVE  Exclusive(m, A \cup {i})
BY DEF Exclusive

(* The identity of a call does not change while it runs.                   *)
Same(f, g) == g.call = f.call /\ g.of = f.of /\ g.depth = f.depth /\ g.at = f.at

(* Its data may.                                                           *)
LEMMA DataKeeps ==
  ASSUME NEW f, Shape(f), NEW d
  PROVE  LET g == [f EXCEPT !.data = d]
         IN  /\ Shape(g) /\ Same(f, g) /\ Given(g) = Given(f)
             /\ f.call = "message" => g.slots = f.slots /\ g.pending = f.pending
BY DEF Shape, MessageShape, EntryShape, Same, Given

(* A field is set in a message frame.                                      *)
LEMMA SetKeeps ==
  ASSUME NEW f, Shape(f), f.call = "message", NEW i \in 1 .. Len(Plan[f.of]), NEW v
  PROVE  LET g == Set(f, i, v)
         IN  Shape(g) /\ Same(f, g) /\ Given(g) \subseteq Given(f) \cup {i}
<1> DEFINE g == Set(f, i, v)
<1>1. /\ MessageShape(f) /\ f.depth \in 0 .. MAX_DEPTH
      /\ DOMAIN f = {"call", "of", "data", "depth", "at", "slots", "pending"}
  BY DEF Shape, MessageShape, EntryShape
<1>2. /\ DOMAIN g = DOMAIN f
      /\ g.call = f.call /\ g.of = f.of /\ g.depth = f.depth /\ g.at = f.at /\ g.pending = f.pending
      /\ DOMAIN g.slots = DOMAIN f.slots
      /\ \A j \in DOMAIN f.slots : j # i => g.slots[j] = f.slots[j]
  BY <1>1 DEF Set
<1> HIDE DEF g
<1>3. Shape(g)
  BY <1>1, <1>2 DEF Shape, MessageShape
<1>4. Given(g) \subseteq Given(f) \cup {i}
  BY <1>1, <1>2 DEF Given, MessageShape
<1>5. Same(f, g)
  BY <1>2 DEF Same
<1> QED BY <1>3, <1>4, <1>5 DEF g

(* A list of waiting payloads is replaced.                                 *)
LEMMA PendingKeeps ==
  ASSUME NEW f, Shape(f), f.call = "message", NEW pending, IsSequence(pending),
         \A p \in 1 .. Len(pending) : Waits(f.of, pending[p])
  PROVE  LET g == [f EXCEPT !.pending = pending]
         IN  Shape(g) /\ Same(f, g) /\ g.slots = f.slots /\ g.pending = pending /\ g.data = f.data
BY DEF Shape, MessageShape, EntryShape, Same

(* A payload waits, after those that wait already.                         *)
LEMMA PendKeeps ==
  ASSUME NEW f, Shape(f), f.call = "message", NEW i \in Singular(f.of),
         IsMessage(Plan[f.of][i].value), NEW tokens
  PROVE  LET g == [f EXCEPT !.pending = Pend(f.pending, i, tokens)]
         IN  Shape(g) /\ Same(f, g) /\ Given(g) \subseteq Given(f) \cup {i}
<1> DEFINE pending == f.pending
           new == Pend(pending, i, tokens)
           g == [f EXCEPT !.pending = new]
<1>1. IsSequence(pending) /\ \A p \in 1 .. Len(pending) : Waits(f.of, pending[p])
  BY DEF Shape, MessageShape, EntryShape
<1>2. /\ IsSequence(new)
      /\ \A p \in 1 .. Len(new) : Waits(f.of, new[p])
      /\ \A p \in 1 .. Len(new) :
           new[p].field = i \/ \E q \in 1 .. Len(pending) : pending[q].field = new[p].field
  <2>1. Len(pending) \in Nat
    BY <1>1, SequenceLength
  <2>2. CASE \E p \in 1 .. Len(pending) : pending[p].field = i
    <3> DEFINE entry(p) == IF pending[p].field = i
                           THEN [pending[p] EXCEPT !.tokens = @ \o tokens] ELSE pending[p]
               T == {entry(p) : p \in 1 .. Len(pending)}
    <3>1. new = [p \in 1 .. Len(pending) |-> entry(p)]
      BY <2>2 DEF Pend
    <3>2. \A p \in 1 .. Len(pending) : entry(p).field = pending[p].field /\ Waits(f.of, entry(p))
      BY <1>1 DEF Waits
    <3> HIDE DEF entry, pending, new
    <3>3. new \in Seq(T) /\ Len(new) = Len(pending)
      BY <2>1, <3>1
    <3>4. IsSequence(new)
      BY <3>3, SequenceOf
    <3> QED BY <3>1, <3>2, <3>3, <3>4
  <2>3. CASE ~ \E p \in 1 .. Len(pending) : pending[p].field = i
    <3> DEFINE e == [field |-> i, tokens |-> tokens]
    <3>1. new = Append(pending, e)
      BY <2>3 DEF Pend
    <3>2. e.field = i /\ Waits(f.of, e)
      BY DEF Waits
    <3> HIDE DEF e, pending, new
    <3>3. /\ IsSequence(new) /\ Len(new) = Len(pending) + 1
          /\ \A p \in 1 .. Len(pending) : new[p] = pending[p]
          /\ new[Len(pending) + 1] = e
      BY <1>1, <3>1, SequenceAppend
    <3>4. \A p \in 1 .. Len(new) : p \in 1 .. Len(pending) \/ p = Len(pending) + 1
      BY <2>1, <3>3
    <3> QED BY <1>1, <3>2, <3>3, <3>4
  <2> QED BY <2>2, <2>3
<1> HIDE DEF new
<1>3. Shape(g) /\ Same(f, g) /\ g.slots = f.slots /\ g.pending = new
  BY <1>2, PendingKeeps
<1> HIDE DEF g
<1>4. g.of = f.of
  BY <1>3 DEF Same
<1>5. i \in 1 .. Len(Plan[f.of])
  BY DEF Singular
<1>6. Given(g) \subseteq Given(f) \cup {i}
  BY <1>2, <1>3, <1>4, <1>5, SMTT(30) DEF Given
<1> QED BY <1>3, <1>6 DEF g, new

(* The first payload is taken.                                             *)
LEMMA TakeKeeps ==
  ASSUME NEW f, Shape(f), f.call = "message", f.pending # <<>>
  PROVE  LET g == [f EXCEPT !.pending = Tail(@)]
             p == Head(f.pending)
         IN  /\ Shape(g) /\ Same(f, g) /\ Given(g) \subseteq Given(f)
             /\ Waits(f.of, p) /\ p.field \in Given(f)
<1> DEFINE pending == f.pending
           new == Tail(pending)
           g == [f EXCEPT !.pending = new]
<1>1. IsSequence(pending) /\ \A p \in 1 .. Len(pending) : Waits(f.of, pending[p])
  BY DEF Shape, MessageShape, EntryShape
<1> HIDE DEF pending
<1>2. Len(pending) \in Nat /\ Len(pending) # 0
  BY <1>1, SequenceLength DEF pending
<1>3. /\ IsSequence(new) /\ Len(new) = Len(pending) - 1 /\ Head(pending) = pending[1]
      /\ \A i \in 1 .. Len(pending) - 1 : new[i] = pending[i + 1]
  BY <1>1, SequenceTail DEF pending
<1> HIDE DEF new
<1>4. \A p \in 1 .. Len(new) : p + 1 \in 1 .. Len(pending) /\ new[p] = pending[p + 1]
  BY <1>2, <1>3
<1>5. Shape(g) /\ Same(f, g) /\ g.slots = f.slots /\ g.pending = new
  BY <1>1, <1>3, <1>4, PendingKeeps
<1> HIDE DEF g
<1>6. Given(g) \subseteq Given(f)
  BY <1>4, <1>5 DEF Given, Same, pending
<1>7. 1 \in 1 .. Len(pending)
  BY <1>2
<1>8. Waits(f.of, Head(pending)) /\ Head(pending).field \in Given(f)
  BY <1>1, <1>3, <1>7 DEF Waits, Given, Singular, pending
<1> QED BY <1>5, <1>6, <1>8 DEF g, new, pending

(* The other members of the oneof of a field that was given are unset.     *)
LEMMA ClearKeeps ==
  ASSUME NEW f, Shape(f), f.call = "message", NEW i \in 1 .. Len(Plan[f.of]),
         Exclusive(f.of, Given(f) \ {i})
  PROVE  FrameInv(ClearOneof(f, i)) /\ Same(f, ClearOneof(f, i))
<1> DEFINE fields == Plan[f.of]
           others == {j \in 1 .. Len(fields) \ {i} : fields[j].group = fields[i].group}
           kept == {p \in 1 .. Len(f.pending) : f.pending[p].field \notin others}
           slots == [j \in DOMAIN f.slots |-> IF j \in others THEN Absent ELSE f.slots[j]]
           pending == Subsequence(f.pending, kept)
           g == [f EXCEPT !.slots = slots, !.pending = pending]
<1>1. CASE fields[i].group = 0
  <2>1. ClearOneof(f, i) = f
    BY <1>1 DEF ClearOneof
  <2>2. Exclusive(f.of, (Given(f) \ {i}) \cup {i})
    BY <1>1, ExclusiveAlone
  <2>3. Exclusive(f.of, Given(f))
    BY <2>2, ExclusiveSubset
  <2> QED BY <2>1, <2>3 DEF FrameInv, Same
<1>2. CASE fields[i].group # 0
  <2>1. ClearOneof(f, i) = g
    BY <1>2 DEF ClearOneof
  <2>2. IsSequence(f.pending) /\ DOMAIN f.slots = 1 .. Len(fields)
        /\ \A p \in 1 .. Len(f.pending) : Waits(f.of, f.pending[p])
    BY DEF Shape, MessageShape, EntryShape
  <2>3. /\ IsSequence(pending)
        /\ \A k \in 1 .. Len(pending) : \E p \in kept : pending[k] = f.pending[p]
    <3> DEFINE T == Elements(f.pending)
               s == f.pending
    <3>1. s \in Seq(T)
      BY <2>2 DEF IsSequence
    <3>2. kept \in SUBSET (1 .. Len(s))
      OBVIOUS
    <3> HIDE DEF T, s, kept
    <3>3. /\ Subsequence(s, kept) \in Seq(T)
          /\ Len(Subsequence(s, kept)) = Cardinality(kept)
          /\ \A k \in 1 .. Cardinality(kept) :
               Nth(kept, k) \in kept /\ Subsequence(s, kept)[k] = s[Nth(kept, k)]
      BY <3>1, <3>2, SubsequenceProperties
    <3>4. IsSequence(Subsequence(s, kept))
      BY <3>3, SequenceOf
    <3> QED BY <3>3, <3>4 DEF s
  <2> HIDE DEF pending
  <2>4. \A k \in 1 .. Len(pending) :
          /\ Waits(f.of, pending[k]) /\ pending[k].field \notin others
          /\ \E p \in 1 .. Len(f.pending) : f.pending[p].field = pending[k].field
    BY <2>2, <2>3
  <2> HIDE DEF others, kept
  <2>5. /\ DOMAIN f = {"call", "of", "data", "depth", "at", "slots", "pending"}
        /\ f.of \in Messages /\ f.depth \in 0 .. MAX_DEPTH
    BY DEF Shape, MessageShape, EntryShape
  <2>6. /\ DOMAIN g = DOMAIN f /\ g.slots = slots /\ g.pending = pending
        /\ g.call = f.call /\ g.of = f.of /\ g.depth = f.depth /\ g.at = f.at
    <3> HIDE DEF slots
    <3> QED BY <2>5
  <2>7. /\ DOMAIN slots = 1 .. Len(fields)
        /\ \A j \in 1 .. Len(fields) :
             slots[j] = IF j \in others THEN Absent ELSE f.slots[j]
    BY <2>2
  <2> HIDE DEF slots, g
  <2>8. Shape(g) /\ Same(f, g)
    BY <2>3, <2>4, <2>5, <2>6, <2>7 DEF Shape, MessageShape, Same
  <2>9. Given(g) \subseteq Given(f) \ others
    <3> SUFFICES ASSUME NEW j \in Given(g) PROVE j \in Given(f) \ others
      OBVIOUS
    <3>1. /\ j \in 1 .. Len(fields)
          /\ slots[j] # Absent \/ \E k \in 1 .. Len(pending) : pending[k].field = j
      BY <2>6 DEF Given
    <3>2. CASE slots[j] # Absent
      BY <2>7, <3>1, <3>2 DEF Given
    <3>3. CASE \E k \in 1 .. Len(pending) : pending[k].field = j
      BY <2>4, <3>1, <3>3 DEF Given
    <3> QED BY <3>1, <3>2, <3>3
  <2>10. Exclusive(f.of, Given(g))
    BY <2>9 DEF Exclusive, others, Given
  <2>11. FrameInv(g)
    BY <2>6, <2>8, <2>10 DEF FrameInv
  <2> QED BY <2>1, <2>8, <2>11
<1> QED BY <1>1, <1>2

(* A frame can take a value it wants.                                      *)
LEMMA DeliveredKeeps ==
  ASSUME NEW f, FrameInv(f), NEW at, Wants(f, at), NEW v
  PROVE  FrameInv(Delivered(f, at, v)) /\ Same(f, Delivered(f, at, v))
<1> DEFINE g == Delivered(f, at, v)
<1>1. Shape(f)
  BY DEF FrameInv
<1>2. CASE f.call = "entry"
  <2>1. g = [f EXCEPT !.value = v]
    BY <1>2 DEF Delivered
  <2>2. f.depth \in 0 .. MAX_DEPTH /\ EntryShape(f)
    BY <1>1, <1>2 DEF Shape, MessageShape
  <2>3. DOMAIN g = DOMAIN f /\ Same(f, g)
    BY <2>1, <2>2 DEF EntryShape, Same
  <2> HIDE DEF g
  <2>4. Shape(g)
    BY <2>2, <2>3 DEF Shape, EntryShape, Same
  <2> QED BY <1>2, <2>3, <2>4 DEF FrameInv, Same, g
<1>3. CASE f.call = "message"
  <2>1. at \in 1 .. Len(Plan[f.of]) /\ Exclusive(f.of, Given(f) \cup {at})
    BY <1>3 DEF Wants
  <2>2. \E x : g = Set(f, at, x)
    BY <1>3 DEF Delivered
  <2>3. PICK x : g = Set(f, at, x)
    BY <2>2
  <2> HIDE DEF g
  <2>4. Shape(g) /\ Same(f, g) /\ Given(g) \subseteq Given(f) \cup {at}
    BY <1>1, <1>3, <2>1, <2>3, SetKeeps
  <2>5. Exclusive(f.of, Given(g))
    BY <2>1, <2>4, ExclusiveSubset
  <2>6. FrameInv(g)
    BY <2>4, <2>5 DEF FrameInv, Same
  <2> QED BY <2>4, <2>6 DEF g
<1> QED BY <1>1, <1>2, <1>3 DEF Shape, MessageShape, EntryShape

-----------------------------------------------------------------------------
(* Stacks.  The counts of calls are the same if the calls are.             *)
LEMMA CountedSame ==
  ASSUME NEW s, NEW t, NEW i \in Nat \ {0}, Counted(s, i),
         \A j \in 1 .. i : t[j].call = s[j].call /\ t[j].depth = s[j].depth
  PROVE  Counted(t, i)
<1>1. MessagesOf(t, i) = MessagesOf(s, i)
  BY DEF MessagesOf
<1>2. t[i].call = s[i].call /\ t[i].depth = s[i].depth
  OBVIOUS
<1> QED BY <1>1, <1>2 DEF Counted

(* The innermost call goes on.                                             *)
LEMMA ReplaceKeeps ==
  ASSUME NEW s, StackInv(s), s # <<>>, NEW g, FrameInv(g), Same(s[Len(s)], g)
  PROVE  StackInv([s EXCEPT ![Len(s)] = g])
<1> DEFINE n == Len(s)
           t == [s EXCEPT ![n] = g]
<1>1. IsSequence(s)
  BY DEF StackInv
<1>2. n \in Nat /\ n # 0
  BY <1>1, SequenceLength
<1>3. n \in 1 .. Len(s)
  BY <1>2
<1>4. /\ IsSequence(t) /\ Len(t) = n /\ t[n] = g
      /\ \A i \in 1 .. n : i # n => t[i] = s[i]
  <2> HIDE DEF n
  <2>1. /\ IsSequence([s EXCEPT ![n] = g]) /\ Len([s EXCEPT ![n] = g]) = Len(s)
        /\ [s EXCEPT ![n] = g][n] = g
        /\ \A i \in 1 .. Len(s) : i # n => [s EXCEPT ![n] = g][i] = s[i]
    BY <1>1, <1>3, SequenceExcept
  <2> QED BY <2>1 DEF n
<1> HIDE DEF t
<1>5. \A i \in 1 .. n : Same(s[i], t[i]) /\ FrameInv(t[i])
  BY <1>4 DEF StackInv, Same
<1>6. \A i \in 1 .. n - 1 : t[i] = s[i] /\ i + 1 \in 1 .. n /\ i \in 1 .. n
  BY <1>2, <1>4
<1>7. ASSUME NEW i \in 1 .. n - 1 PROVE Calls(t[i], t[i + 1])
  <2>1. t[i] = s[i] /\ Same(s[i + 1], t[i + 1]) /\ Calls(s[i], s[i + 1])
    BY <1>5, <1>6 DEF StackInv
  <2> QED BY <2>1, Zenon DEF Calls, Same
<1>8. ASSUME NEW i \in 1 .. n PROVE Counted(t, i)
  <2>1. Counted(s, i)
    BY DEF StackInv
  <2>2. \A j \in 1 .. i : t[j].call = s[j].call /\ t[j].depth = s[j].depth
    BY <1>2, <1>5 DEF Same
  <2>3. i \in Nat \ {0}
    BY <1>2
  <2> QED BY <2>1, <2>2, <2>3, CountedSame
<1>9. t[1].call = "message"
  <2>1. 1 \in 1 .. n
    BY <1>2
  <2> QED BY <1>5, <2>1 DEF StackInv, Same
<1> QED BY <1>4, <1>5, <1>7, <1>8, <1>9 DEF StackInv, t

(* The innermost call makes another one.                                   *)
LEMMA PushKeeps ==
  ASSUME NEW s, StackInv(s), s # <<>>, NEW g, FrameInv(g), Calls(s[Len(s)], g)
  PROVE  StackInv(Append(s, g))
<1> DEFINE n == Len(s)
           t == Append(s, g)
<1>1. IsSequence(s)
  BY DEF StackInv
<1>2. n \in Nat /\ n # 0
  BY <1>1, SequenceLength
<1>3. /\ IsSequence(t) /\ Len(t) = n + 1 /\ t[n + 1] = g
      /\ \A i \in 1 .. n : t[i] = s[i]
  BY <1>1, SequenceAppend
<1> HIDE DEF t
<1>4. \A i \in 1 .. n + 1 : i \in 1 .. n \/ i = n + 1
  BY <1>2
<1>5. \A i \in 1 .. n + 1 : FrameInv(t[i])
  BY <1>3, <1>4 DEF StackInv
<1>6. ASSUME NEW i \in 1 .. n PROVE Calls(t[i], t[i + 1])
  <2>1. CASE i = n
    BY <1>3, <2>1
  <2>2. CASE i # n
    <3>1. i \in 1 .. n - 1 /\ i + 1 \in 1 .. n
      BY <1>2, <2>2
    <3> QED BY <1>3, <3>1 DEF StackInv
  <2> QED BY <2>1, <2>2
<1>7. ASSUME NEW i \in 1 .. n PROVE Counted(t, i)
  <2>1. Counted(s, i)
    BY DEF StackInv
  <2>2. \A j \in 1 .. i : j \in 1 .. n
    BY <1>2
  <2>3. \A j \in 1 .. i : t[j].call = s[j].call /\ t[j].depth = s[j].depth
    BY <1>3, <2>2
  <2>4. i \in Nat \ {0}
    BY <1>2
  <2> QED BY <2>1, <2>3, <2>4, CountedSame
<1>8. Counted(t, n + 1)
  <2> DEFINE A == MessagesOf(t, n)
             d == s[n].depth
  <2>1. Counted(t, n) /\ n \in 1 .. n
    BY <1>2, <1>7
  <2>2. t[n] = s[n] /\ t[n + 1] = g
    BY <1>3, <2>1
  <2>3. Cardinality(A) = d + 1 /\ n <= 2 * d + IF s[n].call = "message" THEN 1 ELSE 2
    BY <2>1, <2>2 DEF Counted
  <2>4. IsFiniteSet(A) /\ n + 1 \notin A
    <3>1. IsFiniteSet(1 .. n)
      BY <1>2, FS_Interval
    <3>2. A \subseteq 1 .. n
      BY DEF MessagesOf
    <3>3. n + 1 \notin 1 .. n
      BY <1>2
    <3> HIDE DEF A
    <3> QED BY <3>1, <3>2, <3>3, FS_Subset
  <2>5. FrameInv(s[n])
    BY <2>1 DEF StackInv
  <2>6. d \in Nat
    BY <2>5, DepthAssumption DEF FrameInv, Shape
  <2>7. CASE g.call = "message"
    <3>1. MessagesOf(t, n + 1) = A \cup {n + 1}
      BY <1>2, <1>4, <2>2, <2>7 DEF MessagesOf
    <3> HIDE DEF A
    <3>2. Cardinality(A \cup {n + 1}) = Cardinality(A) + 1
      BY <2>4, FS_AddElement
    <3>3. g.depth = d + 1
      BY <2>7 DEF Calls
    <3> HIDE DEF d
    <3>4. n + 1 <= 2 * (d + 1) + 1
      BY <1>2, <2>3, <2>6
    <3> QED BY <2>2, <2>3, <2>7, <3>1, <3>2, <3>3, <3>4 DEF Counted
  <2>8. CASE g.call = "entry"
    <3>1. MessagesOf(t, n + 1) = A
      BY <1>2, <1>4, <2>2, <2>8 DEF MessagesOf
    <3>2. g.depth = d /\ s[n].call = "message"
      BY <2>8 DEF Calls
    <3> HIDE DEF A, d
    <3>3. n + 1 <= 2 * d + 2
      BY <1>2, <2>3, <2>6, <3>2
    <3> QED BY <2>2, <2>3, <2>8, <3>1, <3>2, <3>3 DEF Counted
  <2> QED BY <2>7, <2>8 DEF FrameInv, Shape, MessageShape, EntryShape
<1>9. t[1].call = "message"
  <2>1. 1 \in 1 .. n
    BY <1>2
  <2> QED BY <1>3, <2>1 DEF StackInv
<1>10. (n + 1) - 1 = n
  BY <1>2
<1>11. \A i \in 1 .. n + 1 : Counted(t, i)
  BY <1>4, <1>7, <1>8
<1> QED BY <1>3, <1>5, <1>6, <1>9, <1>10, <1>11 DEF StackInv, t

(* The innermost call returns.                                             *)
LEMMA PopKeeps ==
  ASSUME NEW s, StackInv(s), s # <<>>
  PROVE  StackInv(SubSeq(s, 1, Len(s) - 1))
<1> DEFINE n == Len(s) - 1
           t == SubSeq(s, 1, n)
<1>1. IsSequence(s)
  BY DEF StackInv
<1>2. n \in Nat /\ Len(s) = n + 1
  BY <1>1, SequenceLength
<1>3. IsSequence(t) /\ Len(t) = n /\ \A i \in 1 .. n : t[i] = s[i]
  BY <1>1, SequenceFront
<1> HIDE DEF t
<1>4. \A i \in 1 .. n : i \in 1 .. Len(s)
  BY <1>2
<1>5. \A i \in 1 .. n : FrameInv(t[i])
  BY <1>3, <1>4 DEF StackInv
<1>6. ASSUME NEW i \in 1 .. n - 1 PROVE Calls(t[i], t[i + 1])
  <2>1. i \in 1 .. n /\ i + 1 \in 1 .. n /\ i \in 1 .. Len(s) - 1
    BY <1>2
  <2> QED BY <1>3, <2>1 DEF StackInv
<1>7. ASSUME NEW i \in 1 .. n PROVE Counted(t, i)
  <2>1. Counted(s, i)
    BY <1>4 DEF StackInv
  <2>2. \A j \in 1 .. i : j \in 1 .. n
    BY <1>2
  <2>3. \A j \in 1 .. i : t[j].call = s[j].call /\ t[j].depth = s[j].depth
    BY <1>3, <2>2
  <2>4. i \in Nat \ {0}
    BY <1>2
  <2> QED BY <2>1, <2>3, <2>4, CountedSame
<1>8. t # <<>> => t[1].call = "message"
  <2> SUFFICES ASSUME t # <<>> PROVE t[1].call = "message"
    OBVIOUS
  <2>1. Len(t) # 0
    BY <1>3, SequenceLength
  <2>2. 1 \in 1 .. n
    BY <1>2, <1>3, <2>1
  <2> QED BY <1>3, <2>2 DEF StackInv
<1> QED BY <1>3, <1>5, <1>6, <1>7, <1>8 DEF StackInv, t

(* The caller of the innermost call gets a value from it.                  *)
LEMMA ReturnKeeps ==
  ASSUME NEW s, StackInv(s), s # <<>>, NEW below, below = SubSeq(s, 1, Len(s) - 1),
         below # <<>>, NEW v
  PROVE  LET caller == below[Len(below)]
             at == s[Len(s)].at
         IN  /\ Calls(caller, s[Len(s)])
             /\ FrameInv(caller)
             /\ StackInv([below EXCEPT ![Len(below)] = Delivered(caller, at, v)])
<1> DEFINE n == Len(s) - 1
           caller == below[Len(below)]
           at == s[Len(s)].at
           g == Delivered(caller, at, v)
<1>1. IsSequence(s)
  BY DEF StackInv
<1>2. n \in Nat /\ Len(s) = n + 1
  BY <1>1, SequenceLength
<1>3. IsSequence(below) /\ Len(below) = n /\ \A i \in 1 .. n : below[i] = s[i]
  BY <1>1, SequenceFront
<1>4. n # 0
  BY <1>3, SequenceLength
<1>5. n \in 1 .. n /\ n \in 1 .. Len(s) /\ n \in 1 .. Len(s) - 1
  BY <1>2, <1>4
<1>6. caller = s[n]
  BY <1>3, <1>5
<1>7. FrameInv(caller) /\ Calls(caller, s[Len(s)])
  BY <1>2, <1>5, <1>6 DEF StackInv
<1>8. StackInv(below)
  BY PopKeeps
<1>9. FrameInv(g) /\ Same(caller, g)
  <2>1. Wants(caller, at)
    BY <1>7 DEF Calls
  <2> HIDE DEF caller, at
  <2> QED BY <1>7, <2>1, DeliveredKeeps
<1> HIDE DEF g
<1>10. StackInv([below EXCEPT ![Len(below)] = g])
  BY <1>8, <1>9, ReplaceKeeps
<1> QED BY <1>7, <1>10 DEF g

-----------------------------------------------------------------------------
(* Calls.  A new call of decode_message has read nothing.                  *)
LEMMA NewMessage ==
  ASSUME NEW m \in Messages, NEW tokens, NEW depth \in 0 .. MAX_DEPTH, NEW at
  PROVE  LET g == MessageFrame(m, tokens, depth, at)
         IN  FrameInv(g) /\ g.call = "message" /\ g.of = m /\ g.depth = depth /\ g.at = at
<1> DEFINE g == MessageFrame(m, tokens, depth, at)
<1>1. /\ DOMAIN g = {"call", "of", "data", "depth", "at", "slots", "pending"}
      /\ g.call = "message" /\ g.of = m /\ g.depth = depth /\ g.at = at /\ g.pending = <<>>
      /\ DOMAIN g.slots = 1 .. Len(Plan[m])
      /\ \A i \in 1 .. Len(Plan[m]) : g.slots[i] = Absent
  BY DEF MessageFrame
<1> HIDE DEF g
<1>2. IsSequence(<<>>) /\ Len(<<>>) = 0
  BY DEF IsSequence, Elements
<1>3. \A p \in 1 .. Len(g.pending) : FALSE
  BY <1>1, <1>2
<1>4. Shape(g)
  BY <1>1, <1>2, <1>3 DEF Shape, MessageShape
<1>5. Given(g) = {}
  BY <1>1, <1>3 DEF Given
<1>6. FrameInv(g)
  BY <1>4, <1>5 DEF FrameInv, Exclusive
<1> QED BY <1>1, <1>6 DEF g

(* So has a new call of read_map_entry.                                    *)
LEMMA NewEntry ==
  ASSUME NEW f \in FieldPlans, NEW tokens, NEW depth \in 0 .. MAX_DEPTH, NEW at
  PROVE  LET g == EntryFrame(f, tokens, depth, at)
         IN  FrameInv(g) /\ g.call = "entry" /\ g.depth = depth /\ g.at = at
BY DEF EntryFrame, FrameInv, Shape, EntryShape

(* The empty stack.                                                        *)
LEMMA EmptyStack == StackInv(<<>>)
<1>1. IsSequence(<<>>) /\ Len(<<>>) = 0
  BY DEF IsSequence, Elements
<1> QED BY <1>1 DEF StackInv

(* The stack that a call starts with.                                      *)
LEMMA FirstCall ==
  ASSUME NEW tokens
  PROVE  StackInv(<<MessageFrame(Root, tokens, 0, 0)>>)
<1> DEFINE g == MessageFrame(Root, tokens, 0, 0)
           s == <<g>>
<1>1. FrameInv(g) /\ g.call = "message" /\ g.depth = 0
  BY NewMessage, PlanAssumption, DepthAssumption
<1> HIDE DEF g
<1>2. Len(s) = 1 /\ s[1] = g /\ s \in Seq({g})
  OBVIOUS
<1>3. IsSequence(s)
  BY <1>2, SequenceOf
<1> HIDE DEF s
<1>4. MessagesOf(s, 1) = {1}
  BY <1>1, <1>2 DEF MessagesOf
<1>5. Cardinality({1}) = 1
  BY FS_Singleton
<1>6. Counted(s, 1)
  <2>1. s[1].depth = 0 /\ s[1].call = "message"
    BY <1>1, <1>2
  <2>2. Cardinality(MessagesOf(s, 1)) = s[1].depth + 1
    BY <1>4, <1>5, <2>1
  <2>3. 1 <= 2 * s[1].depth + 1
    BY <2>1
  <2> QED BY <2>1, <2>2, <2>3 DEF Counted
<1>7. (\A i \in 1 .. Len(s) : i = 1) /\ (\A i \in 1 .. Len(s) - 1 : FALSE)
  BY <1>2
<1>8. StackInv(s)
  BY <1>1, <1>2, <1>3, <1>6, <1>7 DEF StackInv
<1> QED BY <1>8 DEF s, g

(* What holds of the call that is reading.                                 *)
LEMMA TopInv ==
  ASSUME DecodeInv, stack # <<>>
  PROVE  FrameInv(Top)
<1>1. IsSequence(stack)
  BY DEF DecodeInv, StackInv
<1>2. Len(stack) \in 1 .. Len(stack)
  BY <1>1, SequenceLength
<1> QED BY <1>2 DEF DecodeInv, StackInv, Top

(* The fields of a message type.                                           *)
LEMMA FieldType ==
  ASSUME NEW m \in Messages, NEW i \in 1 .. Len(Plan[m])
  PROVE  /\ Plan[m][i] \in FieldPlans
         /\ Plan[m][i].group # 0 => Plan[m][i].kind = "single"
<1>1. Plan[m] \in Seq(FieldPlans)
  BY PlanAssumption
<1>2. Plan[m][i] \in FieldPlans
  BY <1>1, ElementOfSeq
<1> QED BY <1>2, OneofAssumption

(* A value that is not a scalar is a message or a pair.                    *)
LEMMA MessageValue ==
  ASSUME NEW f \in FieldPlans, IsMessage(f.value), f.value # "pair"
  PROVE  f.value \in Messages
BY DEF FieldPlans, IsMessage

(* The field of a token, in the call with the token read.                  *)
LEMMA AtFieldFacts ==
  ASSUME DecodeInv, AtField
  PROVE  /\ stack # <<>> /\ Top.call = "message" /\ Top.of \in Messages
         /\ Index \in 1 .. Len(Plan[Top.of]) /\ Field = Plan[Top.of][Index]
         /\ Field \in FieldPlans
         /\ Shape(Advanced) /\ Same(Top, Advanced)
         /\ Advanced.call = "message" /\ Advanced.of = Top.of
         /\ Advanced.slots = Top.slots /\ Advanced.pending = Top.pending
         /\ Exclusive(Top.of, Given(Advanced))
<1>1. stack # <<>> /\ Top.call = "message"
  BY DEF AtField, InMessage
<1>2. FrameInv(Top)
  BY <1>1, TopInv
<1>3. Shape(Top) /\ Exclusive(Top.of, Given(Top))
  BY <1>1, <1>2 DEF FrameInv
<1>4. Top.of \in Messages
  BY <1>1, <1>3 DEF Shape, MessageShape, EntryShape
<1>5. Index \in 1 .. Len(Plan[Top.of])
  <2>1. \E i \in 1 .. Len(Fields) : Fields[i].number = Token.number
    BY DEF AtField, Index
  <2> QED BY <2>1 DEF Index, Fields
<1>6. /\ Shape(Advanced) /\ Same(Top, Advanced) /\ Given(Advanced) = Given(Top)
      /\ Advanced.slots = Top.slots /\ Advanced.pending = Top.pending
  BY <1>1, <1>3, DataKeeps DEF Advanced
<1>7. Field = Plan[Top.of][Index]
  BY DEF Field, Fields
<1>8. Field \in FieldPlans
  BY <1>4, <1>5, <1>7, FieldType
<1> QED BY <1>1, <1>3, <1>4, <1>5, <1>6, <1>7, <1>8 DEF Same

(* The call that is reading goes on.                                       *)
LEMMA ContinueKeeps ==
  ASSUME DecodeInv, stack # <<>>, NEW f, FrameInv(f), Same(Top, f), Continue(f)
  PROVE  DecodeInv'
<1>1. stack' = [stack EXCEPT ![Len(stack)] = f]
  BY DEF Continue, Replace
<1>2. StackInv(stack) /\ Same(stack[Len(stack)], f)
  BY DEF DecodeInv, Top
<1>3. StackInv([stack EXCEPT ![Len(stack)] = f])
  BY <1>2, ReplaceKeeps
<1> QED BY <1>1, <1>3 DEF DecodeInv

(* An exception ends all calls.                                            *)
LEMMA FailKeeps == ASSUME Fail PROVE DecodeInv'
BY EmptyStack DEF Fail, DecodeInv

(* The call that is reading calls another one.                             *)
LEMMA CallKeeps ==
  ASSUME DecodeInv, stack # <<>>, NEW f, FrameInv(f), Same(Top, f),
         NEW g, FrameInv(g), Calls(f, g),
         stack' = Append([stack EXCEPT ![Len(stack)] = f], g)
  PROVE  DecodeInv'
<1> DEFINE s == [stack EXCEPT ![Len(stack)] = f]
<1>1. IsSequence(stack) /\ StackInv(stack) /\ Same(stack[Len(stack)], f)
  BY DEF DecodeInv, StackInv, Top
<1>2. Len(stack) \in 1 .. Len(stack)
  BY <1>1, SequenceLength
<1>3. StackInv(s)
  BY <1>1, ReplaceKeeps
<1>4. IsSequence(s) /\ Len(s) = Len(stack) /\ s[Len(stack)] = f
  BY <1>1, <1>2, SequenceExcept, SMTT(30)
<1> HIDE DEF s
<1>5. s # <<>> /\ s[Len(s)] = f
  BY <1>2, <1>4, SequenceLength
<1>6. StackInv(Append(s, g))
  BY <1>3, <1>5, PushKeeps
<1> QED BY <1>6 DEF DecodeInv, s

(* A payload is read for a field of the call that is reading.              *)
LEMMA PayloadKeeps ==
  ASSUME DecodeInv, stack # <<>>, NEW f, FrameInv(f), Same(Top, f), NEW value,
         value # "pair" => value \in Messages, NEW tokens, NEW at, Wants(f, at),
         ReadPayload(f, value, tokens, at)
  PROVE  DecodeInv'
<1>1. CASE f.depth + 1 > MAX_DEPTH
  <2>1. Fail
    BY <1>1 DEF ReadPayload
  <2> QED BY <2>1, FailKeeps
<1>2. CASE ~(f.depth + 1 > MAX_DEPTH) /\ value = "pair"
  <2> DEFINE v == PairOf(tokens)
  <2>1. Fail \/ Continue(Delivered(f, at, v))
    BY <1>2 DEF ReadPayload
  <2>2. FrameInv(Delivered(f, at, v)) /\ Same(Top, Delivered(f, at, v))
    <3> HIDE DEF v
    <3>1. FrameInv(Delivered(f, at, v)) /\ Same(f, Delivered(f, at, v))
      BY DeliveredKeeps
    <3> QED BY <3>1 DEF Same
  <2> HIDE DEF v
  <2> QED BY <2>1, <2>2, ContinueKeeps, FailKeeps
<1>3. CASE ~(f.depth + 1 > MAX_DEPTH) /\ value # "pair"
  <2> DEFINE g == MessageFrame(value, tokens, f.depth + 1, at)
  <2>1. stack' = Append([stack EXCEPT ![Len(stack)] = f], g)
    BY <1>3 DEF ReadPayload
  <2>2. f.depth \in 0 .. MAX_DEPTH
    BY DEF FrameInv, Shape
  <2>3. f.depth + 1 \in 0 .. MAX_DEPTH
    BY <1>3, <2>2, DepthAssumption
  <2>4. FrameInv(g) /\ g.call = "message" /\ g.depth = f.depth + 1 /\ g.at = at
    BY <1>3, <2>3, NewMessage
  <2> HIDE DEF g
  <2>5. Calls(f, g)
    BY <2>4 DEF Calls
  <2> QED BY <2>1, <2>4, <2>5, CallKeeps
<1> QED BY <1>1, <1>2, <1>3

-----------------------------------------------------------------------------
(* Steps.  A field that is in no oneof is set.                             *)
LEMMA SetAlone ==
  ASSUME DecodeInv, AtField, Field.group = 0, NEW v, Continue(Set(Advanced, Index, v))
  PROVE  DecodeInv'
<1> DEFINE f == Advanced
           g == Set(f, Index, v)
<1>1. /\ stack # <<>> /\ Same(Top, f) /\ Shape(f) /\ f.call = "message" /\ f.of = Top.of
      /\ Index \in 1 .. Len(Plan[f.of]) /\ Plan[f.of][Index].group = 0
      /\ Exclusive(f.of, Given(f))
  BY AtFieldFacts
<1> HIDE DEF f
<1>2. Shape(g) /\ Same(f, g) /\ Given(g) \subseteq Given(f) \cup {Index}
  BY <1>1, SetKeeps
<1>3. Exclusive(f.of, Given(f) \cup {Index})
  BY <1>1, ExclusiveAlone
<1>4. Exclusive(f.of, Given(g))
  BY <1>2, <1>3, ExclusiveSubset
<1>5. FrameInv(g) /\ Same(Top, g)
  BY <1>1, <1>2, <1>4 DEF FrameInv, Same
<1>6. Continue(g)
  BY DEF f
<1> HIDE DEF g
<1> QED BY <1>1, <1>5, <1>6, ContinueKeeps

(* A field is given, and the others of its oneof are unset.                *)
LEMMA SetChosen ==
  ASSUME DecodeInv, AtField, NEW g, Shape(g), Same(Advanced, g),
         Given(g) \subseteq Given(Advanced) \cup {Index},
         Continue(ClearOneof(g, Index))
  PROVE  DecodeInv'
<1> DEFINE f == Advanced
           h == ClearOneof(g, Index)
<1>1. /\ stack # <<>> /\ Same(Top, f) /\ f.call = "message" /\ f.of = Top.of
      /\ Index \in 1 .. Len(Plan[f.of]) /\ Exclusive(f.of, Given(f))
  BY AtFieldFacts
<1> HIDE DEF f
<1>2. g.call = "message" /\ g.of = f.of
  BY <1>1 DEF Same, f
<1>3. Given(g) \ {Index} \subseteq Given(f)
  BY DEF f
<1>4. Exclusive(g.of, Given(g) \ {Index})
  BY <1>1, <1>2, <1>3, ExclusiveSubset
<1>5. FrameInv(h) /\ Same(g, h)
  BY <1>1, <1>2, <1>4, ClearKeeps
<1> HIDE DEF h
<1>6. Same(Top, h)
  BY <1>1, <1>5 DEF Same, f
<1> QED BY <1>1, <1>5, <1>6, ContinueKeeps DEF h

(* Postpone and ReadSingle: a singular field is given.                     *)
LEMMA PostponeKeeps == ASSUME DecodeInv, Postpone PROVE DecodeInv'
<1> DEFINE f == Advanced
           g == [f EXCEPT !.pending = Pend(f.pending, Index, Token.payload)]
<1>1. AtField /\ Field.kind = "single" /\ IsMessage(Field.value) /\ Continue(ClearOneof(g, Index))
  BY DEF Postpone
<1>2. /\ Shape(f) /\ f.call = "message" /\ f.of = Top.of
      /\ Index \in 1 .. Len(Plan[f.of]) /\ Field = Plan[f.of][Index]
  BY <1>1, AtFieldFacts
<1>3. Index \in Singular(f.of) /\ IsMessage(Plan[f.of][Index].value)
  BY <1>1, <1>2 DEF Singular
<1> HIDE DEF f
<1>4. Shape(g) /\ Same(f, g) /\ Given(g) \subseteq Given(f) \cup {Index}
  BY <1>2, <1>3, PendKeeps
<1> HIDE DEF g
<1> QED BY <1>1, <1>4, SetChosen DEF f

(* A value of a singular field replaces the one before and unsets the      *)
(* other members of its oneof.                                             *)
LEMMA ReadSingleKeeps == ASSUME DecodeInv, ReadSingle PROVE DecodeInv'
<1> DEFINE f == Advanced
           g == Set(f, Index, Number(Token.value))
<1>1. AtField /\ Continue(ClearOneof(g, Index))
  BY DEF ReadSingle
<1>2. Shape(f) /\ f.call = "message" /\ f.of = Top.of /\ Index \in 1 .. Len(Plan[f.of])
  BY <1>1, AtFieldFacts
<1> HIDE DEF f
<1>3. Shape(g) /\ Same(f, g) /\ Given(g) \subseteq Given(f) \cup {Index}
  BY <1>2, SetKeeps
<1> HIDE DEF g
<1> QED BY <1>1, <1>3, SetChosen DEF f

(* A repeated field or a map is in no oneof.                               *)
LEMMA NotInOneof ==
  ASSUME DecodeInv, AtField, Field.kind # "single"
  PROVE  Field.group = 0
<1>1. /\ Top.of \in Messages /\ Index \in 1 .. Len(Plan[Top.of])
      /\ Field = Plan[Top.of][Index]
  BY AtFieldFacts
<1> QED BY <1>1, FieldType

(* A repeated field or a map can take a value at any time.                 *)
LEMMA WantsElement ==
  ASSUME DecodeInv, AtField, Field.kind # "single"
  PROVE  FrameInv(Advanced) /\ Same(Top, Advanced) /\ Wants(Advanced, Index)
<1> DEFINE f == Advanced
<1>1. /\ Same(Top, f) /\ Shape(f) /\ f.call = "message" /\ f.of = Top.of
      /\ Index \in 1 .. Len(Plan[f.of]) /\ Field = Plan[f.of][Index]
      /\ Exclusive(f.of, Given(f))
  BY AtFieldFacts
<1>2. Plan[f.of][Index].group = 0
  BY <1>1, NotInOneof
<1> HIDE DEF f
<1>3. Exclusive(f.of, Given(f) \cup {Index})
  BY <1>1, <1>2, ExclusiveAlone
<1> QED BY <1>1, <1>3 DEF FrameInv, Wants, f

(* An element of a repeated field is read.                                 *)
LEMMA ReadElementKeeps == ASSUME DecodeInv, ReadElement PROVE DecodeInv'
<1>1. /\ AtField /\ Field.kind # "single"
      /\ Continue(Set(Advanced, Index, Added(Top.slots[Index], Number(Token.value))))
  BY DEF ReadElement
<1> QED BY <1>1, NotInOneof, SetAlone

(* A packed run adds to a repeated field, or fails.                        *)
LEMMA ReadPackedKeeps == ASSUME DecodeInv, ReadPacked PROVE DecodeInv'
<1>1. /\ AtField /\ Field.kind # "single"
      /\ Fail \/ \E v : Continue(Set(Advanced, Index, v))
  BY DEF ReadPacked
<1> QED BY <1>1, NotInOneof, SetAlone, FailKeeps

(* A message in a repeated field is decoded in a frame of its own that     *)
(* returns to that field.                                                  *)
LEMMA ReadMessageElementKeeps == ASSUME DecodeInv, ReadMessageElement PROVE DecodeInv'
<1>1. /\ AtField /\ Field.kind # "single" /\ IsMessage(Field.value)
      /\ ReadPayload(Advanced, Field.value, Token.payload, Index)
  BY DEF ReadMessageElement
<1>2. stack # <<>> /\ Field \in FieldPlans
  BY <1>1, AtFieldFacts
<1>3. Field.value # "pair" => Field.value \in Messages
  BY <1>1, <1>2, MessageValue
<1> QED BY <1>1, <1>2, <1>3, WantsElement, PayloadKeeps

(* A map entry is decoded in a frame of its own that returns to the map.   *)
LEMMA ReadEntryKeeps == ASSUME DecodeInv, ReadEntry PROVE DecodeInv'
<1> DEFINE f == Advanced
           g == EntryFrame(Field, Token.payload, Top.depth, Index)
<1>1. /\ AtField /\ Field.kind # "single"
      /\ stack' = Append([stack EXCEPT ![Len(stack)] = f], g)
  BY DEF ReadEntry
<1>2. stack # <<>> /\ Field \in FieldPlans /\ f.call = "message"
  BY <1>1, AtFieldFacts
<1>3. FrameInv(f) /\ Same(Top, f) /\ Wants(f, Index)
  BY <1>1, WantsElement
<1>4. Top.depth = f.depth /\ Top.depth \in 0 .. MAX_DEPTH
  BY <1>3 DEF Same, FrameInv, Shape
<1>5. FrameInv(g) /\ g.call = "entry" /\ g.depth = Top.depth /\ g.at = Index
  BY <1>2, <1>4, NewEntry
<1> HIDE DEF f, g
<1>6. Calls(f, g)
  BY <1>2, <1>3, <1>4, <1>5 DEF Calls
<1> QED BY <1>1, <1>2, <1>3, <1>5, <1>6, CallKeeps

(* An entry takes whatever it reads.                                       *)
LEMMA EntryFacts ==
  ASSUME DecodeInv, InEntry
  PROVE  /\ stack # <<>> /\ Top.of \in FieldPlans
         /\ FrameInv(Top) /\ FrameInv(Advanced)
         /\ Same(Top, Top) /\ Same(Top, Advanced)
         /\ Wants(Top, 2) /\ Wants(Advanced, 2)
         /\ \A x : /\ FrameInv([Advanced EXCEPT !.key = x]) /\ Same(Top, [Advanced EXCEPT !.key = x])
                   /\ FrameInv([Advanced EXCEPT !.value = x])
                   /\ Same(Top, [Advanced EXCEPT !.value = x])
                   /\ FrameInv([Top EXCEPT !.value = x]) /\ Same(Top, [Top EXCEPT !.value = x])
<1>1. stack # <<>> /\ Top.call = "entry"
  BY DEF InEntry
<1>2. FrameInv(Top)
  BY <1>1, TopInv
<1>3. EntryShape(Top) /\ Top.depth \in 0 .. MAX_DEPTH
  BY <1>1, <1>2 DEF FrameInv, Shape, MessageShape
<1>4. FrameInv(Advanced) /\ Same(Top, Advanced) /\ EntryShape(Advanced)
  BY <1>3 DEF FrameInv, Shape, EntryShape, Advanced, Same
<1>5. ASSUME NEW f, FrameInv(f), EntryShape(f), Same(Top, f), NEW x
      PROVE  /\ FrameInv([f EXCEPT !.key = x]) /\ Same(Top, [f EXCEPT !.key = x])
             /\ FrameInv([f EXCEPT !.value = x]) /\ Same(Top, [f EXCEPT !.value = x])
  BY <1>5 DEF FrameInv, Shape, EntryShape, Same
<1>6. Same(Top, Top)
  BY DEF Same
<1>7. Wants(Top, 2) /\ Wants(Advanced, 2)
  BY <1>3, <1>4 DEF EntryShape, Wants
<1>8. Top.of \in FieldPlans
  BY <1>3 DEF EntryShape
<1> QED BY <1>1, <1>2, <1>3, <1>4, <1>5, <1>6, <1>7, <1>8

(* A call returns to its caller.                                           *)
LEMMA FinishEntryKeeps == ASSUME DecodeInv, FinishEntry PROVE DecodeInv'
<1> DEFINE below == SubSeq(stack, 1, Len(stack) - 1)
           caller == below[Len(below)]
<1>1. /\ stack # <<>> /\ Top.call = "entry"
      /\ \E v : stack' = [below EXCEPT ![Len(below)] = Set(caller, Top.at, v)]
  BY DEF FinishEntry, InEntry
<1>2. PICK v : stack' = [below EXCEPT ![Len(below)] = Set(caller, Top.at, v)]
  BY <1>1
<1>3. IsSequence(stack) /\ StackInv(stack) /\ Top = stack[Len(stack)]
  BY DEF DecodeInv, StackInv, Top
<1>4. IsSequence(below) /\ Len(below) = Len(stack) - 1
  BY <1>1, <1>3, SequenceFront
<1>5. StackInv(below)
  BY <1>1, <1>3, PopKeeps
<1>6. Len(stack) \in Nat /\ Len(stack) # 0
  BY <1>1, <1>3, SequenceLength
<1>7. Len(stack) # 1
  BY <1>1, <1>3 DEF StackInv
<1>8. below # <<>> /\ Len(below) \in 1 .. Len(stack) - 1 /\ Len(below) \in 1 .. Len(below)
  BY <1>4, <1>6, <1>7, SequenceLength, SMTT(30)
<1>9. Calls(caller, Top) /\ FrameInv(caller)
  BY <1>1, <1>3, <1>8, ReturnKeeps
<1>10. caller.call = "message" /\ Wants(caller, Top.at)
  BY <1>1, <1>9 DEF Calls
<1>11. FrameInv(Set(caller, Top.at, v)) /\ Same(caller, Set(caller, Top.at, v))
  <2> HIDE DEF caller
  <2> DEFINE g == Set(caller, Top.at, v)
  <2>1. Shape(caller)
    BY <1>9 DEF FrameInv
  <2>2. Top.at \in 1 .. Len(Plan[caller.of]) /\ Exclusive(caller.of, Given(caller) \cup {Top.at})
    BY <1>10 DEF Wants
  <2>3. Shape(g) /\ Same(caller, g) /\ Given(g) \subseteq Given(caller) \cup {Top.at}
    BY <1>10, <2>1, <2>2, SetKeeps
  <2> HIDE DEF g
  <2>4. Exclusive(caller.of, Given(g))
    BY <2>2, <2>3, ExclusiveSubset
  <2>5. FrameInv(g)
    BY <2>3, <2>4 DEF FrameInv, Same
  <2> QED BY <2>3, <2>5 DEF g
<1> HIDE DEF below
<1>12. StackInv([below EXCEPT ![Len(below)] = Set(caller, Top.at, v)])
  BY <1>5, <1>8, <1>11, ReplaceKeeps
<1> QED BY <1>2, <1>12 DEF DecodeInv

(* A message that is complete is the result, or the value its caller waits *)
(* for.                                                                    *)
LEMMA FinishMessageKeeps == ASSUME DecodeInv, FinishMessage PROVE DecodeInv'
<1> DEFINE below == SubSeq(stack, 1, Len(stack) - 1)
           v == DictOf(Top.of, Top.slots)
<1>1. /\ stack # <<>>
      /\ \/ stack' = <<>>
         \/ below # <<>> /\ stack' = [below EXCEPT ![Len(below)] = Delivered(@, Top.at, v)]
  BY DEF FinishMessage, InMessage
<1>2. CASE stack' = <<>>
  BY <1>2, EmptyStack DEF DecodeInv
<1>3. CASE below # <<>> /\ stack' = [below EXCEPT ![Len(below)] = Delivered(@, Top.at, v)]
  <2>1. IsSequence(stack) /\ StackInv(stack) /\ Top = stack[Len(stack)]
    BY DEF DecodeInv, StackInv, Top
  <2>2. IsSequence(below)
    BY <1>1, <2>1, SequenceFront
  <2>3. StackInv([below EXCEPT ![Len(below)] = Delivered(below[Len(below)], Top.at, v)])
    <3> HIDE DEF v
    <3> QED BY <1>1, <1>3, <2>1, ReturnKeeps
  <2>4. Len(below) \in DOMAIN below
    BY <1>3, <2>2, SequenceLength
  <2> HIDE DEF below, v
  <2>5. stack' = [below EXCEPT ![Len(below)] = Delivered(below[Len(below)], Top.at, v)]
    BY <1>3, <2>4
  <2> QED BY <2>3, <2>5 DEF DecodeInv
<1> QED BY <1>1, <1>2, <1>3

(* The message is read; a payload that waits is taken and decoded.         *)
LEMMA DecodePendingKeeps == ASSUME DecodeInv, DecodePending PROVE DecodeInv'
<1> DEFINE g == [Top EXCEPT !.pending = Tail(@)]
           p == Head(Top.pending)
<1>1. /\ stack # <<>> /\ Top.call = "message" /\ Top.pending # <<>>
      /\ ReadPayload(g, Fields[p.field].value, p.tokens, p.field)
  BY DEF DecodePending, InMessage
<1>2. FrameInv(Top)
  BY <1>1, TopInv
<1>3. Shape(Top) /\ Exclusive(Top.of, Given(Top))
  BY <1>1, <1>2 DEF FrameInv
<1>4. /\ Shape(g) /\ Same(Top, g) /\ Given(g) \subseteq Given(Top)
      /\ Waits(Top.of, p) /\ p.field \in Given(Top)
  BY <1>1, <1>3, TakeKeeps
<1> HIDE DEF g, p
<1>5. Top.of \in Messages /\ p.field \in 1 .. Len(Plan[Top.of])
  BY <1>1, <1>3, <1>4 DEF Shape, MessageShape, EntryShape, Given
<1>6. Plan[Top.of][p.field] \in FieldPlans
  BY <1>5, FieldType
<1>7. Fields[p.field].value # "pair" => Fields[p.field].value \in Messages
  BY <1>4, <1>6, MessageValue DEF Waits, Fields
<1>8. g.of = Top.of
  BY <1>4 DEF Same
<1>9. Given(g) \cup {p.field} \subseteq Given(Top)
  BY <1>4
<1>10. Exclusive(g.of, Given(g)) /\ Exclusive(g.of, Given(g) \cup {p.field})
  BY <1>3, <1>4, <1>8, <1>9, ExclusiveSubset
<1>11. FrameInv(g) /\ Wants(g, p.field)
  BY <1>4, <1>5, <1>8, <1>10 DEF FrameInv, Wants
<1> QED BY <1>1, <1>4, <1>7, <1>11, PayloadKeeps

(* The steps of an entry.                                                  *)
LEMMA EntryKeeps ==
  ASSUME DecodeInv,
         SkipInEntry \/ ReadKey \/ ReadEntryScalar \/ ReadEntryMessage \/ DefaultEntryValue
  PROVE  DecodeInv'
<1>1. InEntry
  BY DEF SkipInEntry, ReadKey, ReadEntryScalar, ReadEntryMessage, DefaultEntryValue, AtEntryField
<1>2. /\ stack # <<>> /\ Top.of \in FieldPlans
      /\ FrameInv(Top) /\ FrameInv(Advanced)
      /\ Same(Top, Top) /\ Same(Top, Advanced)
      /\ Wants(Top, 2) /\ Wants(Advanced, 2)
      /\ \A x : /\ FrameInv([Advanced EXCEPT !.key = x]) /\ Same(Top, [Advanced EXCEPT !.key = x])
                /\ FrameInv([Advanced EXCEPT !.value = x])
                /\ Same(Top, [Advanced EXCEPT !.value = x])
                /\ FrameInv([Top EXCEPT !.value = x]) /\ Same(Top, [Top EXCEPT !.value = x])
  BY <1>1, EntryFacts
<1>3. CASE SkipInEntry
  <2>1. Continue(Advanced)
    BY <1>3 DEF SkipInEntry
  <2> QED BY <1>2, <2>1, ContinueKeeps
<1>4. CASE ReadKey
  <2>1. Fail \/ \E x : Continue([Advanced EXCEPT !.key = x])
    BY <1>4 DEF ReadKey
  <2> QED BY <1>2, <2>1, ContinueKeeps, FailKeeps
<1>5. CASE ReadEntryScalar
  <2>1. Fail \/ \E x : Continue([Advanced EXCEPT !.value = x])
    BY <1>5 DEF ReadEntryScalar
  <2> QED BY <1>2, <2>1, ContinueKeeps, FailKeeps
<1>6. ASSUME IsMessage(Top.of.value)
      PROVE  Top.of.value # "pair" => Top.of.value \in Messages
  BY <1>2, <1>6, MessageValue
<1>7. CASE ReadEntryMessage
  <2>1. /\ IsMessage(Top.of.value)
        /\ Fail \/ ReadPayload(Advanced, Top.of.value, Token.payload, 2)
    BY <1>7 DEF ReadEntryMessage
  <2> QED BY <1>2, <1>6, <2>1, PayloadKeeps, FailKeeps
<1>8. CASE DefaultEntryValue
  <2>1. \/ IsMessage(Top.of.value) /\ ReadPayload(Top, Top.of.value, <<>>, 2)
        \/ \E x : Continue([Top EXCEPT !.value = x])
    BY <1>8 DEF DefaultEntryValue
  <2> QED BY <1>2, <1>6, <2>1, PayloadKeeps, ContinueKeeps
<1> QED BY <1>3, <1>4, <1>5, <1>7, <1>8

(* No step breaks the invariant.                                           *)
LEMMA StepKeeps == ASSUME DecodeInv, [Next]_vars PROVE DecodeInv'
<1>1. CASE BadToken
  BY <1>1, FailKeeps DEF BadToken
<1>2. CASE SkipUnknown
  <2>1. stack # <<>> /\ Top.call = "message" /\ Continue(Advanced)
    BY <1>2 DEF SkipUnknown, InMessage
  <2>2. FrameInv(Top)
    BY <2>1, TopInv
  <2>3. /\ Shape(Advanced) /\ Same(Top, Advanced) /\ Given(Advanced) = Given(Top)
    BY <2>2, DataKeeps DEF Advanced, FrameInv
  <2>4. FrameInv(Advanced)
    BY <2>2, <2>3 DEF FrameInv, Same
  <2> QED BY <2>1, <2>3, <2>4, ContinueKeeps
<1>3. CASE RefuseField
  BY <1>3, FailKeeps DEF RefuseField
<1>4. CASE UNCHANGED vars
  BY <1>4 DEF vars, DecodeInv
<1>5. CASE Terminated
  BY <1>4, <1>5 DEF Terminated
<1>6. CASE Step
  BY <1>1, <1>2, <1>3, <1>6, PostponeKeeps, ReadSingleKeeps, ReadElementKeeps, ReadPackedKeeps,
     ReadMessageElementKeeps, ReadEntryKeeps, EntryKeeps, FinishEntryKeeps,
     DecodePendingKeeps, FinishMessageKeeps DEF Step
<1> QED BY <1>4, <1>5, <1>6 DEF Next

(* In every state the stack of calls is well formed: the frames have their *)
(* shapes, each call was made by the one below it for a field of it, and   *)
(* its depth counts the messages it is in.                                 *)
THEOREM DecodeInvariance == Spec => []DecodeInv
<1>1. Init => DecodeInv
  BY FirstCall DEF Init, DecodeInv
<1>2. DecodeInv /\ [Next]_vars => DecodeInv'
  BY StepKeeps
<1> QED BY <1>1, <1>2, PTL DEF Spec

(* At most one member of a oneof is set or waits to be, in every message   *)
(* being read: clear_oneof forgets slots and payloads alike, and decoding  *)
(* a payload that waited, maybe in many steps that nest other calls, meets *)
(* no member that came later.                                              *)
THEOREM OneofsAreExclusive == Spec => []OneofExclusive
<1>1. ASSUME DecodeInv PROVE OneofExclusive
  <2>1. \A i \in 1 .. Len(stack) : stack[i].call = "message" =>
          Exclusive(stack[i].of, Given(stack[i]))
    BY <1>1 DEF DecodeInv, StackInv, FrameInv
  <2> QED BY <2>1 DEF OneofExclusive, Exclusive, Given
<1> QED BY <1>1, DecodeInvariance, PTL

(* However deep its input is nested, the decoder calls itself only so      *)
(* deep.                                                                   *)
THEOREM RecursionIsBounded == Spec => []RecursionBounded
<1>1. ASSUME DecodeInv PROVE RecursionBounded
  <2> DEFINE n == Len(stack)
             messages == {i \in 1 .. n : stack[i].call = "message"}
  <2>1. IsSequence(stack)
    BY <1>1 DEF DecodeInv, StackInv
  <2>2. n \in Nat
    BY <2>1, SequenceLength
  <2>3. CASE n = 0
    <3>1. messages = {}
      BY <2>3
    <3>2. Cardinality(messages) = 0
      BY <3>1, FS_EmptySet
    <3> QED BY <2>3, <3>2, DepthAssumption DEF RecursionBounded
  <2>4. CASE n # 0
    <3>1. n \in 1 .. n
      BY <2>2, <2>4
    <3>2. FrameInv(stack[n]) /\ Counted(stack, n)
      BY <1>1, <3>1 DEF DecodeInv, StackInv
    <3>3. stack[n].depth \in 0 .. MAX_DEPTH
      BY <3>2 DEF FrameInv, Shape
    <3>4. Cardinality(messages) = stack[n].depth + 1
      BY <3>2 DEF Counted, MessagesOf
    <3>5. n <= 2 * stack[n].depth + 2
      BY <2>2, <3>2, <3>3, DepthAssumption DEF Counted
    <3> HIDE DEF n, messages
    <3>6. Cardinality(messages) <= MAX_DEPTH + 1 /\ n <= 2 * (MAX_DEPTH + 1)
      BY <2>2, <3>3, <3>4, <3>5, DepthAssumption
    <3> QED BY <3>6 DEF RecursionBounded, n, messages
  <2> QED BY <2>3, <2>4
<1> QED BY <1>1, DecodeInvariance, PTL

-----------------------------------------------------------------------------
(***************************************************************************)
(* Sums.                                                                   *)
(***************************************************************************)
(* s[i] is f[1] + ... + f[i].                                              *)
Sums(s, f, n) ==
  /\ s \in [0 .. n -> Nat]
  /\ s[0] = 0
  /\ \A i \in 1 .. n : s[i] = s[i - 1] + f[i]

LEMMA SumsExist ==
  ASSUME NEW n \in Nat, NEW f, \A i \in 1 .. n : f[i] \in Nat
  PROVE  \E s : Sums(s, f, n)
<1> DEFINE step == [x \in (1 .. n) \X Nat |-> x[2] + f[x[1]]]
<1>1. step \in [(1 .. n) \X Nat -> Nat]
  OBVIOUS
<1>2. PICK s : Runs(s, n, Nat, 0, step)
  <2> HIDE DEF step
  <2> QED BY <1>1, Loop
<1>3. s \in [0 .. n -> Nat] /\ s[0] = 0 /\ \A i \in 1 .. n : s[i] = step[<<i, s[i - 1]>>]
  BY <1>2 DEF Runs
<1>4. ASSUME NEW i \in 1 .. n PROVE s[i] = s[i - 1] + f[i]
  <2>1. s[i - 1] \in Nat
    BY <1>3
  <2>2. step[<<i, s[i - 1]>>] = s[i - 1] + f[i]
    BY <2>1
  <2> QED BY <1>3, <2>2
<1> HIDE DEF step
<1>5. Sums(s, f, n)
  BY <1>3, <1>4 DEF Sums
<1> QED BY <1>5

(* Total is the last of them.                                              *)
LEMMA TotalIs ==
  ASSUME NEW n \in Nat, NEW f, NEW s, Sums(s, f, n)
  PROVE  Total(f, n) = s[n]
<1> DEFINE Sum(sum, i) == IF i = 0 THEN 0 ELSE sum[i - 1] + f[i]
           IsSum(sum) == sum = [i \in 0 .. n |-> Sum(sum, i)]
           t == CHOOSE sum : IsSum(sum)
<1>1. Total(f, n) = t[n]
  BY DEF Total
<1>2. IsSum(s)
  <2>1. ASSUME NEW i \in 0 .. n PROVE s[i] = Sum(s, i)
    <3>1. i = 0 \/ i \in 1 .. n
      OBVIOUS
    <3> QED BY <3>1 DEF Sums
  <2>2. s = [i \in 0 .. n |-> s[i]]
    BY DEF Sums
  <2> HIDE DEF Sum
  <2> QED BY <2>1, <2>2
<1>3. IsSum(t)
  <2> HIDE DEF IsSum
  <2> QED BY <1>2
<1>4. \A i \in 0 .. n : t[i] = Sum(t, i)
  <2> HIDE DEF Sum, t
  <2> QED BY <1>3
<1> DEFINE S == {i \in 0 .. n : t[i] = s[i]}
<1> HIDE DEF t
<1>5. 0 \in S
  BY <1>4 DEF Sums
<1>6. ASSUME NEW i \in 1 .. n, i - 1 \in S PROVE i \in S
  <2>1. t[i] = t[i - 1] + f[i] /\ s[i] = s[i - 1] + f[i]
    BY <1>4 DEF Sums
  <2> QED BY <1>6, <2>1
<1> HIDE DEF S
<1>7. n \in S
  <2>1. \A i \in 0 .. n : i \in S
    BY <1>5, <1>6, UpTo
  <2> QED BY <2>1
<1> QED BY <1>1, <1>7 DEF S

(* What a total is, and one number more.                                   *)
LEMMA TotalFacts ==
  ASSUME NEW n \in Nat, NEW f, \A i \in 1 .. n : f[i] \in Nat
  PROVE  /\ Total(f, 0) = 0
         /\ Total(f, n) \in Nat
         /\ n # 0 => Total(f, n - 1) \in Nat /\ Total(f, n) = Total(f, n - 1) + f[n]
<1>1. PICK s : Sums(s, f, n)
  BY SumsExist
<1>2. ASSUME NEW k \in 0 .. n PROVE Total(f, k) = s[k]
  <2> DEFINE r == [i \in 0 .. k |-> s[i]]
  <2>1. Sums(r, f, k)
    BY <1>1 DEF Sums
  <2>2. r[k] = s[k]
    OBVIOUS
  <2> HIDE DEF r
  <2> QED BY <2>1, <2>2, TotalIs
<1> QED BY <1>1, <1>2 DEF Sums

(* Numbers that are no greater have no greater sum.                        *)
LEMMA TotalAtMost ==
  ASSUME NEW n \in Nat, NEW f, NEW g,
         \A i \in 1 .. n : f[i] \in Nat /\ g[i] \in Nat /\ f[i] <= g[i]
  PROVE  Total(f, n) <= Total(g, n)
<1> DEFINE S == {i \in 0 .. n : Total(f, i) <= Total(g, i)}
<1>1. 0 \in S
  BY TotalFacts
<1>2. ASSUME NEW i \in 1 .. n, i - 1 \in S PROVE i \in S
  <2>1. /\ i \in Nat /\ i # 0
        /\ \A j \in 1 .. i : f[j] \in Nat /\ g[j] \in Nat /\ f[i] <= g[i]
    OBVIOUS
  <2>2. /\ Total(f, i - 1) \in Nat /\ Total(f, i) = Total(f, i - 1) + f[i]
        /\ Total(g, i - 1) \in Nat /\ Total(g, i) = Total(g, i - 1) + g[i]
    BY <2>1, TotalFacts
  <2> QED BY <1>2, <2>1, <2>2
<1> HIDE DEF S
<1>3. n \in S
  <2>1. \A i \in 0 .. n : i \in S
    BY <1>1, <1>2, UpTo
  <2> QED BY <2>1
<1> QED BY <1>3 DEF S

(* Equal numbers have one sum.                                             *)
LEMMA TotalSame ==
  ASSUME NEW n \in Nat, NEW f, NEW g, \A i \in 1 .. n : f[i] \in Nat /\ f[i] = g[i]
  PROVE  Total(f, n) = Total(g, n)
<1>1. Total(f, n) <= Total(g, n) /\ Total(g, n) <= Total(f, n)
  BY TotalAtMost
<1>2. Total(f, n) \in Nat /\ Total(g, n) \in Nat
  BY TotalFacts
<1> QED BY <1>1, <1>2

(* A sum in two parts.                                                     *)
LEMMA TotalSplit ==
  ASSUME NEW m \in Nat, NEW n \in Nat, NEW f, NEW g,
         \A i \in 1 .. m + n : f[i] \in Nat, \A i \in 1 .. n : g[i] = f[m + i]
  PROVE  Total(f, m + n) = Total(f, m) + Total(g, n)
<1> DEFINE S == {i \in 0 .. n : Total(f, m + i) = Total(f, m) + Total(g, i)}
<1>1. Total(f, m) \in Nat
  BY TotalFacts
<1>2. 0 \in S
  BY <1>1, TotalFacts
<1>3. ASSUME NEW i \in 1 .. n, i - 1 \in S PROVE i \in S
  <2>1. /\ i \in Nat /\ i # 0 /\ m + i \in Nat /\ m + i # 0 /\ (m + i) - 1 = m + (i - 1)
        /\ m + i \in 1 .. m + n
        /\ \A j \in 1 .. m + i : f[j] \in Nat
        /\ \A j \in 1 .. i : g[j] \in Nat
    <3>1. \A j \in 1 .. i : m + j \in 1 .. m + n /\ j \in 1 .. n
      OBVIOUS
    <3> QED BY <3>1
  <2>2. /\ Total(f, m + (i - 1)) \in Nat /\ Total(f, m + i) = Total(f, m + (i - 1)) + f[m + i]
        /\ Total(g, i - 1) \in Nat /\ Total(g, i) = Total(g, i - 1) + g[i]
    BY <2>1, TotalFacts
  <2>3. f[m + i] \in Nat /\ g[i] = f[m + i]
    BY <2>1
  <2> QED BY <1>1, <1>3, <2>2, <2>3
<1> HIDE DEF S
<1>4. n \in S
  <2>1. \A i \in 0 .. n : i \in S
    BY <1>2, <1>3, UpTo
  <2> QED BY <2>1
<1> QED BY <1>4 DEF S

(* Some of the numbers, in their order, have no greater sum.               *)
LEMMA TotalPart ==
  ASSUME NEW m \in Nat, NEW n \in Nat, NEW f, NEW g, NEW at,
         \A i \in 1 .. n : f[i] \in Nat,
         \A k \in 1 .. m : at[k] \in 1 .. n /\ g[k] = f[at[k]],
         \A k, l \in 1 .. m : k < l => at[k] < at[l]
  PROVE  Total(g, m) <= Total(f, n)
<1> DEFINE S == {k \in 0 .. m : \A i \in 0 .. n :
                   (k # 0 => at[k] <= i) => Total(g, k) <= Total(f, i)}
<1>1. \A i \in 0 .. n : Total(f, i) \in Nat /\ Total(f, 0) = 0
  BY TotalFacts
<1>2. \A k \in 0 .. m : Total(g, k) \in Nat /\ Total(g, 0) = 0
  BY TotalFacts
<1>3. 0 \in S
  BY <1>1, <1>2
<1>4. ASSUME NEW k \in 1 .. m, k - 1 \in S PROVE k \in S
  <2> SUFFICES ASSUME NEW i \in 0 .. n, at[k] <= i PROVE Total(g, k) <= Total(f, i)
    OBVIOUS
  <2>1. at[k] \in 1 .. n /\ at[k] - 1 \in 0 .. n /\ g[k] = f[at[k]] /\ f[at[k]] \in Nat
    OBVIOUS
  <2>2. k - 1 # 0 => at[k - 1] <= at[k] - 1
    <3> SUFFICES ASSUME k - 1 # 0 PROVE at[k - 1] <= at[k] - 1
      OBVIOUS
    <3>1. k - 1 \in 1 .. m /\ k - 1 < k
      OBVIOUS
    <3>2. at[k - 1] < at[k] /\ at[k - 1] \in 1 .. n
      BY <3>1
    <3> QED BY <2>1, <3>2
  <2>3. Total(g, k - 1) <= Total(f, at[k] - 1)
    BY <1>4, <2>1, <2>2
  <2>4. Total(g, k) = Total(g, k - 1) + g[k]
    BY TotalFacts
  <2>5. Total(f, at[k]) = Total(f, at[k] - 1) + f[at[k]]
    BY <2>1, TotalFacts
  <2>6. Total(f, at[k]) <= Total(f, i)
    <3> DEFINE rest == [j \in 1 .. i - at[k] |-> f[at[k] + j]]
    <3>1. i - at[k] \in Nat /\ at[k] \in Nat /\ at[k] + (i - at[k]) = i
      BY <2>1
    <3>2. \A j \in 1 .. i - at[k] : rest[j] = f[at[k] + j] /\ rest[j] \in Nat
      <4>1. \A j \in 1 .. i - at[k] : at[k] + j \in 1 .. n
        BY <2>1
      <4> QED BY <4>1
    <3> HIDE DEF rest
    <3>3. Total(f, at[k] + (i - at[k])) = Total(f, at[k]) + Total(rest, i - at[k])
      BY <3>1, <3>2, TotalSplit, SMTT(30)
    <3>4. Total(rest, i - at[k]) \in Nat
      BY <3>1, <3>2, TotalFacts
    <3>5. Total(f, at[k]) \in Nat
      BY <1>1, <2>1
    <3> QED BY <3>1, <3>3, <3>4, <3>5
  <2>7. Total(g, k - 1) \in Nat /\ Total(f, at[k] - 1) \in Nat /\ Total(f, i) \in Nat
    BY <1>1, <1>2, <2>1
  <2> QED BY <2>1, <2>3, <2>4, <2>5, <2>6, <2>7
<1> HIDE DEF S
<1>5. m \in S
  <2>1. \A k \in 0 .. m : k \in S
    BY <1>3, <1>4, UpTo
  <2> QED BY <2>1
<1>6. (m # 0 => at[m] <= n) /\ n \in 0 .. n
  OBVIOUS
<1> QED BY <1>5, <1>6 DEF S

(***************************************************************************)
(* Tokens.                                                                 *)
(***************************************************************************)
TokensOver(S) ==
  [number : Int, wire : {"varint", "len", "bad"}, value : Int, packed : Seq(Int), payload : S]

(* The strings of tokens, by how deep they are nested.                     *)
LEMMA NestedIs ==
  /\ Nested[0] = {<<>>}
  /\ \A n \in 1 .. MaxNesting : Nested[n] = Seq(TokensOver(Nested[n - 1]))
<1> DEFINE Level(nested, n) == IF n = 0 THEN {<<>>} ELSE Seq(TokensOver(nested[n - 1]))
           IsNested(nested, k) == nested = [n \in 0 .. k |-> Level(nested, n)]
           S == {k \in 0 .. MaxNesting : \E nested : IsNested(nested, k)}
<1>1. MaxNesting \in Nat
  BY InputsAssumption
<1>2. 0 \in S
  <2> DEFINE nested == [n \in 0 .. 0 |-> {<<>>}]
  <2>1. \A n \in 0 .. 0 : Level(nested, n) = {<<>>}
    OBVIOUS
  <2> HIDE DEF Level
  <2>2. nested = [n \in 0 .. 0 |-> Level(nested, n)]
    BY <2>1
  <2>3. 0 \in 0 .. MaxNesting
    BY <1>1
  <2> QED BY <2>2, <2>3
<1>3. ASSUME NEW k \in 1 .. MaxNesting, k - 1 \in S PROVE k \in S
  <2>1. PICK below : IsNested(below, k - 1)
    BY <1>3
  <2> DEFINE nested == [n \in 0 .. k |-> IF n = k THEN Level(below, k) ELSE below[n]]
  <2>2. \A n \in 0 .. k - 1 : below[n] = Level(below, n)
    <3> HIDE DEF Level
    <3> QED BY <2>1
  <2>3. \A n \in 0 .. k - 1 : nested[n] = below[n]
    OBVIOUS
  <2>4. nested[k] = Level(below, k)
    OBVIOUS
  <2>5. ASSUME NEW n \in 0 .. k PROVE nested[n] = Level(nested, n)
    <3>1. n = 0 \/ n - 1 \in 0 .. k - 1
      OBVIOUS
    <3>2. n = k \/ n \in 0 .. k - 1
      OBVIOUS
    <3>3. Level(nested, n) = Level(below, n)
      <4> HIDE DEF nested
      <4> QED BY <2>3, <3>1
    <3> HIDE DEF nested, Level
    <3> QED BY <2>2, <2>3, <2>4, <3>2, <3>3
  <2>6. nested = [n \in 0 .. k |-> nested[n]]
    OBVIOUS
  <2> HIDE DEF Level, nested
  <2>7. IsNested(nested, k)
    BY <2>5, <2>6
  <2> QED BY <2>7
<1> HIDE DEF S
<1>4. MaxNesting \in S
  <2>1. \A n \in 0 .. MaxNesting : n \in S
    BY <1>1, <1>2, <1>3, UpTo
  <2> QED BY <1>1, <2>1
<1>5. PICK nested : IsNested(nested, MaxNesting)
  BY <1>4 DEF S
<1>6. Nested = CHOOSE x : IsNested(x, MaxNesting)
  BY DEF Nested, TokensOver
<1>7. IsNested(Nested, MaxNesting)
  <2> HIDE DEF IsNested
  <2> QED BY <1>5, <1>6, Zenon
<1>8. \A n \in 0 .. MaxNesting : Nested[n] = Level(Nested, n)
  <2> HIDE DEF Level
  <2> QED BY <1>7
<1> QED BY <1>1, <1>8

(* What is nested less deep is among them.                                 *)
LEMMA NestedGrows ==
  \A n \in 1 .. MaxNesting : Nested[n - 1] \subseteq Nested[n]
<1> DEFINE S == {n \in 0 .. MaxNesting : n # 0 => Nested[n - 1] \subseteq Nested[n]}
<1>1. MaxNesting \in Nat
  BY InputsAssumption
<1>2. 0 \in S
  BY <1>1
<1>3. ASSUME NEW n \in 1 .. MaxNesting, n - 1 \in S PROVE n \in S
  <2> SUFFICES Nested[n - 1] \subseteq Nested[n]
    OBVIOUS
  <2>1. Nested[n] = Seq(TokensOver(Nested[n - 1]))
    BY NestedIs
  <2>2. CASE n - 1 = 0
    <3>1. Nested[n - 1] = {<<>>}
      BY <2>2, NestedIs
    <3>2. <<>> \in Seq(TokensOver(Nested[n - 1]))
      BY EmptySeq
    <3> QED BY <2>1, <3>1, <3>2
  <2>3. CASE n - 1 # 0
    <3>1. n - 1 \in 1 .. MaxNesting
      BY <1>1, <2>3
    <3>2. /\ Nested[n - 1] = Seq(TokensOver(Nested[(n - 1) - 1]))
          /\ Nested[(n - 1) - 1] \subseteq Nested[n - 1]
      BY <1>3, <2>3, <3>1, NestedIs
    <3>3. TokensOver(Nested[(n - 1) - 1]) \subseteq TokensOver(Nested[n - 1])
      BY <3>2 DEF TokensOver
    <3>4. Seq(TokensOver(Nested[(n - 1) - 1])) \subseteq Seq(TokensOver(Nested[n - 1]))
      BY <3>3
    <3> QED BY <2>1, <3>2, <3>4
  <2> QED BY <2>2, <2>3
<1> HIDE DEF S
<1>4. \A n \in 0 .. MaxNesting : n \in S
  BY <1>1, <1>2, <1>3, UpTo
<1> QED BY <1>4 DEF S

-----------------------------------------------------------------------------
(* They are the strings over some set of tokens, with payloads among them. *)
LEMMA NestedStrings ==
  ASSUME NEW n \in 0 .. MaxNesting
  PROVE  \E T : T \subseteq TokensOver(Nested[n]) /\ Nested[n] = Seq(T)
<1>1. CASE n = 0
  <2>1. Nested[n] = {<<>>}
    BY <1>1, NestedIs
  <2>2. ASSUME NEW s \in Seq({}) PROVE s = <<>>
    <3>1. \A i \in 1 .. Len(s) : s[i] \in {}
      BY ElementOfSeq
    <3>2. Len(s) = 0
      BY <3>1
    <3> QED BY <3>2, EmptySeq
  <2>3. <<>> \in Seq({})
    BY EmptySeq
  <2>4. Nested[n] = Seq({})
    BY <2>1, <2>2, <2>3
  <2> QED BY <2>4
<1>2. CASE n # 0
  <2>1. n \in 1 .. MaxNesting
    BY <1>2, InputsAssumption
  <2>2. Nested[n] = Seq(TokensOver(Nested[n - 1])) /\ Nested[n - 1] \subseteq Nested[n]
    BY <2>1, NestedIs, NestedGrows
  <2>3. TokensOver(Nested[n - 1]) \subseteq TokensOver(Nested[n])
    BY <2>2 DEF TokensOver
  <2> QED BY <2>2, <2>3
<1> QED BY <1>1, <1>2

(* A payload is nested less deep.                                          *)
LEMMA PayloadNested ==
  ASSUME NEW n \in 0 .. MaxNesting, NEW s \in Nested[n], NEW i \in 1 .. Len(s)
  PROVE  n # 0 /\ n - 1 \in 0 .. MaxNesting /\ s[i].payload \in Nested[n - 1]
<1>1. MaxNesting \in Nat
  BY InputsAssumption
<1>2. n # 0
  <2> SUFFICES ASSUME n = 0 PROVE FALSE
    OBVIOUS
  <2>1. s = <<>>
    BY NestedIs
  <2>2. Len(s) = 0
    BY <2>1
  <2> QED BY <2>2
<1>3. n \in 1 .. MaxNesting /\ n - 1 \in 0 .. MaxNesting
  BY <1>1, <1>2
<1>4. s \in Seq(TokensOver(Nested[n - 1]))
  BY <1>3, NestedIs
<1>5. s[i] \in TokensOver(Nested[n - 1])
  BY <1>4, ElementOfSeq
<1> QED BY <1>2, <1>3, <1>5 DEF TokensOver

(* The size of s, given those of its payloads.                             *)
SizeBy(f, s) == Total([i \in 1 .. Len(s) |-> 1 + f[s[i].payload]], Len(s))
Sizes(f, D) ==
  /\ f \in [D -> Nat]
  /\ \A s \in D : f[s] = SizeBy(f, s)

LEMMA SizeBySame ==
  ASSUME NEW n \in 0 .. MaxNesting, NEW s \in Nested[n], NEW f, NEW g,
         n # 0 => \A p \in Nested[n - 1] : f[p] \in Nat /\ g[p] = f[p]
  PROVE  SizeBy(f, s) \in Nat /\ SizeBy(g, s) = SizeBy(f, s)
<1> DEFINE a == [i \in 1 .. Len(s) |-> 1 + f[s[i].payload]]
           b == [i \in 1 .. Len(s) |-> 1 + g[s[i].payload]]
<1>1. Len(s) \in Nat
  BY NestedStrings, LenProperties
<1>2. \A i \in 1 .. Len(s) : a[i] \in Nat /\ a[i] = b[i]
  BY PayloadNested
<1>3. SizeBy(f, s) = Total(a, Len(s)) /\ SizeBy(g, s) = Total(b, Len(s))
  BY DEF SizeBy
<1> HIDE DEF a, b
<1> QED BY <1>1, <1>2, <1>3, TotalFacts, TotalSame

(* Sizes exist, level by level.                                            *)
LEMMA SizesExist ==
  \E f : Sizes(f, TokenStrings)
<1> DEFINE S == {n \in 0 .. MaxNesting : \E f : Sizes(f, Nested[n])}
<1>1. MaxNesting \in Nat
  BY InputsAssumption
<1>2. ASSUME NEW n \in 0 .. MaxNesting, NEW f, n # 0 => Sizes(f, Nested[n - 1])
      PROVE  \E g : Sizes(g, Nested[n])
  <2> DEFINE g == [s \in Nested[n] |-> SizeBy(f, s)]
  <2>1. n # 0 => \A p \in Nested[n - 1] : f[p] \in Nat
    BY <1>2 DEF Sizes
  <2>2. g \in [Nested[n] -> Nat]
    BY <2>1, SizeBySame
  <2>3. ASSUME n # 0, NEW p \in Nested[n - 1] PROVE g[p] = f[p]
    <3>1. p \in Nested[n]
      BY <1>1, <2>3, NestedGrows
    <3>2. f[p] = SizeBy(f, p)
      BY <1>2, <2>3 DEF Sizes
    <3> QED BY <3>1, <3>2
  <2> HIDE DEF g
  <2>4. ASSUME NEW s \in Nested[n] PROVE g[s] = SizeBy(g, s)
    <3>1. g[s] = SizeBy(f, s)
      BY DEF g
    <3>2. SizeBy(g, s) = SizeBy(f, s)
      BY <2>1, <2>3, SizeBySame
    <3> QED BY <3>1, <3>2
  <2>5. Sizes(g, Nested[n])
    BY <2>2, <2>4 DEF Sizes
  <2> QED BY <2>5
<1>3. 0 \in S
  BY <1>1, <1>2
<1>4. ASSUME NEW n \in 1 .. MaxNesting, n - 1 \in S PROVE n \in S
  BY <1>1, <1>2, <1>4
<1> HIDE DEF S
<1>5. \A n \in 0 .. MaxNesting : n \in S
  BY <1>1, <1>3, <1>4, UpTo
<1> QED BY <1>1, <1>5 DEF S, TokenStrings

(* Size counts.                                                            *)
LEMMA SizeIs ==
  Sizes(Size, TokenStrings)
<1> DEFINE IsSize(f) == f = [s \in TokenStrings |-> SizeBy(f, s)]
<1>1. PICK f : Sizes(f, TokenStrings)
  BY SizesExist
<1>2. IsSize(f)
  <2>1. f = [s \in TokenStrings |-> f[s]]
    BY <1>1 DEF Sizes
  <2> QED BY <1>1, <2>1 DEF Sizes
<1>3. Size = CHOOSE g : IsSize(g)
  BY DEF Size, SizeBy
<1>4. IsSize(Size)
  <2> HIDE DEF IsSize
  <2> QED BY <1>2, <1>3, Zenon
<1>5. \A s \in TokenStrings : Size[s] = SizeBy(Size, s)
  <2> HIDE DEF IsSize
  <2>1. Size = [s \in TokenStrings |-> SizeBy(Size, s)]
    BY <1>4 DEF IsSize
  <2> QED BY <2>1
<1> DEFINE S == {n \in 0 .. MaxNesting : \A s \in Nested[n] : s \in TokenStrings /\ Size[s] \in Nat}
           G == {n \in 0 .. MaxNesting : Nested[n] \subseteq TokenStrings}
<1>6. MaxNesting \in Nat
  BY InputsAssumption
<1>7. \A n \in 0 .. MaxNesting : n \in G
  <2>1. MaxNesting \in G
    BY <1>6 DEF TokenStrings
  <2>2. ASSUME NEW n \in 0 .. MaxNesting - 1, n + 1 \in G PROVE n \in G
    <3>1. n + 1 \in 1 .. MaxNesting /\ (n + 1) - 1 = n /\ n \in 0 .. MaxNesting
      BY <1>6
    <3>2. Nested[n] \subseteq Nested[n + 1]
      BY <3>1, NestedGrows
    <3> QED BY <2>2, <3>1, <3>2
  <2> HIDE DEF G
  <2> QED BY <1>6, <2>1, <2>2, DownTo
<1>8. ASSUME NEW n \in 0 .. MaxNesting, n # 0 => n - 1 \in S PROVE n \in S
  <2> SUFFICES ASSUME NEW s \in Nested[n] PROVE s \in TokenStrings /\ Size[s] \in Nat
    OBVIOUS
  <2>1. s \in TokenStrings
    BY <1>7
  <2>2. n # 0 => \A p \in Nested[n - 1] : Size[p] \in Nat
    BY <1>8
  <2>3. SizeBy(Size, s) \in Nat
    BY <2>2, SizeBySame
  <2> QED BY <1>5, <2>1, <2>3
<1> HIDE DEF S
<1>9. \A n \in 0 .. MaxNesting : n \in S
  <2>1. 0 \in S
    BY <1>6, <1>8
  <2>2. \A n \in 1 .. MaxNesting : n - 1 \in S => n \in S
    BY <1>6, <1>8
  <2> QED BY <1>6, <2>1, <2>2, UpTo
<1>10. \A s \in TokenStrings : Size[s] \in Nat
  <2>1. MaxNesting \in 0 .. MaxNesting
    BY <1>6
  <2> QED BY <1>9, <2>1 DEF S, TokenStrings
<1>11. Size \in [TokenStrings -> Nat]
  <2>1. Size = [s \in TokenStrings |-> Size[s]]
    BY <1>4
  <2> QED BY <1>10, <2>1
<1> QED BY <1>5, <1>11 DEF Sizes

(* Strings of tokens.                                                      *)
LEMMA TokenStringsAre ==
  \E T : T \subseteq TokensOver(TokenStrings) /\ TokenStrings = Seq(T)
<1>1. MaxNesting \in 0 .. MaxNesting
  BY InputsAssumption
<1> QED BY <1>1, NestedStrings DEF TokenStrings

LEMMA SizeFacts ==
  /\ <<>> \in TokenStrings /\ Size[<<>>] = 0
  /\ \A s \in TokenStrings : Size[s] \in Nat /\ Len(s) \in Nat /\ Len(s) <= Size[s] /\ IsSequence(s)
<1>1. PICK T : T \subseteq TokensOver(TokenStrings) /\ TokenStrings = Seq(T)
  BY TokenStringsAre
<1>2. <<>> \in TokenStrings
  BY <1>1
<1>3. ASSUME NEW s \in TokenStrings
      PROVE  /\ Size[s] \in Nat /\ Len(s) \in Nat /\ Len(s) <= Size[s] /\ IsSequence(s)
             /\ Len(s) = 0 => Size[s] = 0
  <2> DEFINE n == Len(s)
             one == [i \in 1 .. n |-> 1]
             sizes == [i \in 1 .. n |-> 1 + Size[s[i].payload]]
             S == {k \in 0 .. n : Total(one, k) = k}
  <2>1. s \in Seq(T)
    BY <1>1
  <2>2. n \in Nat /\ IsSequence(s)
    BY <2>1, LenProperties, SequenceOf
  <2>3. \A i \in 1 .. n : s[i].payload \in TokenStrings
    <3>1. \A i \in 1 .. n : s[i] \in T
      BY <2>1, ElementOfSeq
    <3>2. \A x \in T : x.payload \in TokenStrings
      BY <1>1 DEF TokensOver
    <3> QED BY <3>1, <3>2
  <2>4. \A i \in 1 .. n : one[i] \in Nat /\ one[i] = 1 /\ sizes[i] \in Nat /\ one[i] <= sizes[i]
    BY <2>3, SizeIs DEF Sizes
  <2>5. Size[s] = Total(sizes, n) /\ Size[s] \in Nat
    BY SizeIs DEF Sizes, SizeBy
  <2> HIDE DEF one, sizes
  <2>6. Total(one, n) <= Total(sizes, n)
    <3> HIDE DEF n
    <3> QED BY <2>2, <2>4, TotalAtMost
  <2>7. 0 \in S
    <3>1. Total(one, 0) = 0
      BY TotalFacts
    <3> QED BY <2>2, <3>1
  <2>8. ASSUME NEW k \in 1 .. n, k - 1 \in S PROVE k \in S
    <3>1. k \in Nat /\ k # 0 /\ \A i \in 1 .. k : one[i] \in Nat
      BY <2>4
    <3>2. Total(one, k) = Total(one, k - 1) + one[k]
      BY <3>1, TotalFacts
    <3> QED BY <2>4, <2>8, <3>2
  <2>9. n \in S
    <3> HIDE DEF S, n
    <3>1. \A k \in 0 .. n : k \in S
      BY <2>2, <2>7, <2>8, UpTo
    <3> QED BY <2>2, <3>1
  <2>10. n = 0 => Total(sizes, n) = 0
    BY TotalFacts
  <2> QED BY <2>2, <2>5, <2>6, <2>9, <2>10
<1> QED BY <1>2, <1>3

(* The tokens of a string of them.                                         *)
LEMMA TokenType ==
  ASSUME NEW s \in TokenStrings, NEW i \in 1 .. Len(s)
  PROVE  s[i].payload \in TokenStrings
<1>1. PICK T : T \subseteq TokensOver(TokenStrings) /\ TokenStrings = Seq(T)
  BY TokenStringsAre
<1>2. s[i] \in T
  BY <1>1, ElementOfSeq
<1> QED BY <1>1, <1>2 DEF TokensOver

(* The sizes of two strings add up.                                        *)
LEMMA SizeConcat ==
  ASSUME NEW s \in TokenStrings, NEW t \in TokenStrings
  PROVE  s \o t \in TokenStrings /\ Size[s \o t] = Size[s] + Size[t]
<1> DEFINE u == s \o t
           m == Len(s)
           n == Len(t)
           f(x) == [i \in 1 .. Len(x) |-> 1 + Size[x[i].payload]]
<1>1. PICK T : T \subseteq TokensOver(TokenStrings) /\ TokenStrings = Seq(T)
  BY TokenStringsAre
<1>2. /\ u \in Seq(T) /\ Len(u) = m + n
      /\ \A i \in 1 .. m : u[i] = s[i]
      /\ \A i \in 1 .. n : u[m + i] = t[i]
  <2>1. s \in Seq(T) /\ t \in Seq(T)
    BY <1>1
  <2> QED BY <2>1
<1>3. m \in Nat /\ n \in Nat
  BY <1>1, LenProperties
<1>4. u \in TokenStrings
  BY <1>1, <1>2
<1>5. \A x \in TokenStrings : Size[x] = Total(f(x), Len(x)) /\ \A i \in 1 .. Len(x) : f(x)[i] \in Nat
  BY SizeIs, TokenType DEF Sizes, SizeBy
<1>6. /\ \A i \in 1 .. m : f(u)[i] = f(s)[i]
      /\ \A i \in 1 .. n : f(t)[i] = f(u)[m + i]
  <2>1. \A i \in 1 .. m : i \in 1 .. Len(u)
    BY <1>2, <1>3
  <2>2. \A i \in 1 .. n : m + i \in 1 .. Len(u)
    BY <1>2, <1>3
  <2> HIDE DEF u
  <2> QED BY <1>2, <2>1, <2>2
<1>7. \A i \in 1 .. m + n : f(u)[i] \in Nat
  BY <1>2, <1>4, <1>5
<1>8. \A i \in 1 .. m : f(u)[i] \in Nat
  BY <1>3, <1>7
<1> HIDE DEF u, m, n, f
<1>9. Total(f(u), m + n) = Total(f(u), m) + Total(f(t), n)
  BY <1>3, <1>6, <1>7, TotalSplit
<1>10. Total(f(u), m) = Total(f(s), m)
  BY <1>3, <1>6, <1>8, TotalSame
<1>11. Size[u] = Size[s] + Size[t]
  <2>1. Size[u] = Total(f(u), m + n) /\ Size[s] = Total(f(s), m) /\ Size[t] = Total(f(t), n)
    BY <1>2, <1>4, <1>5 DEF m, n
  <2> QED BY <1>9, <1>10, <2>1
<1> QED BY <1>4, <1>11 DEF u

(* One token less.                                                         *)
LEMMA SizeTail ==
  ASSUME NEW s \in TokenStrings, s # <<>>
  PROVE  /\ Head(s).payload \in TokenStrings /\ Tail(s) \in TokenStrings
         /\ Size[s] = 1 + Size[Head(s).payload] + Size[Tail(s)]
<1> DEFINE h == <<Head(s)>>
           t == Tail(s)
           f == [i \in 1 .. Len(h) |-> 1 + Size[h[i].payload]]
<1>1. PICK T : T \subseteq TokensOver(TokenStrings) /\ TokenStrings = Seq(T)
  BY TokenStringsAre
<1>2. s \in Seq(T)
  BY <1>1
<1>3. /\ Head(s) \in T /\ h \in Seq(T) /\ t \in Seq(T) /\ s = h \o t
      /\ Len(h) = 1 /\ h[1] = Head(s)
  BY <1>2, HeadTailProperties
<1>4. h \in TokenStrings /\ t \in TokenStrings
  BY <1>1, <1>3
<1>5. Head(s).payload \in TokenStrings /\ Size[Head(s).payload] \in Nat
  BY <1>1, <1>3, SizeFacts DEF TokensOver
<1> HIDE DEF h, t
<1>6. Size[h] = Total(f, 1) /\ f[1] = 1 + Size[Head(s).payload]
  <2>1. Size[h] = Total(f, Len(h))
    BY <1>4, SizeIs DEF Sizes, SizeBy
  <2>2. f[1] = 1 + Size[h[1].payload]
    BY <1>3
  <2> HIDE DEF f
  <2> QED BY <1>3, <2>1, <2>2
<1> HIDE DEF f
<1>7. Total(f, 1) = f[1]
  <2>1. 1 \in Nat /\ 1 # 0 /\ 1 - 1 = 0 /\ \A i \in 1 .. 1 : f[i] \in Nat
    BY <1>5, <1>6
  <2>2. Total(f, 0) = 0 /\ Total(f, 1) = Total(f, 1 - 1) + f[1] /\ f[1] \in Nat
    BY <2>1, TotalFacts
  <2> QED BY <2>2
<1>8. Size[s] = Size[h] + Size[t]
  BY <1>3, <1>4, SizeConcat
<1> QED BY <1>4, <1>5, <1>6, <1>7, <1>8 DEF t

(* One number is greater by d at most: so is the sum.                      *)
LEMMA TotalChanged ==
  ASSUME NEW n \in Nat, NEW f, NEW g, NEW d \in Nat, NEW p \in 1 .. n,
         \A i \in 1 .. n : f[i] \in Nat /\ g[i] \in Nat /\ (i # p => g[i] = f[i]),
         g[p] <= f[p] + d
  PROVE  Total(g, n) <= Total(f, n) + d
<1> DEFINE S == {k \in 0 .. n : Total(g, k) <= Total(f, k) + IF p <= k THEN d ELSE 0}
<1>1. 0 \in S
  BY TotalFacts
<1>2. ASSUME NEW k \in 1 .. n, k - 1 \in S PROVE k \in S
  <2>1. /\ k \in Nat /\ k # 0
        /\ \A i \in 1 .. k : f[i] \in Nat /\ g[i] \in Nat
    OBVIOUS
  <2>2. /\ Total(f, k - 1) \in Nat /\ Total(f, k) = Total(f, k - 1) + f[k]
        /\ Total(g, k - 1) \in Nat /\ Total(g, k) = Total(g, k - 1) + g[k]
    BY <2>1, TotalFacts
  <2>3. f[k] \in Nat /\ g[k] \in Nat
    OBVIOUS
  <2>4. CASE k < p
    <3>1. g[k] = f[k]
      BY <2>4
    <3>2. Total(g, k - 1) <= Total(f, k - 1)
      BY <1>2, <2>2, <2>4
    <3>3. Total(g, k) <= Total(f, k)
      BY <2>2, <2>3, <3>1, <3>2
    <3> QED BY <2>2, <2>3, <2>4, <3>3
  <2>5. CASE k = p
    <3>1. Total(g, k - 1) <= Total(f, k - 1)
      BY <1>2, <2>2, <2>5
    <3>2. Total(g, k) <= Total(f, k) + d
      BY <2>2, <2>3, <2>5, <3>1
    <3> QED BY <2>2, <2>3, <2>5, <3>2
  <2>6. CASE k > p
    <3>1. g[k] = f[k]
      BY <2>6
    <3>2. Total(g, k - 1) <= Total(f, k - 1) + d
      BY <1>2, <2>2, <2>6
    <3>3. Total(g, k) <= Total(f, k) + d
      BY <2>2, <2>3, <3>1, <3>2
    <3> QED BY <2>2, <2>3, <2>6, <3>3
  <2> QED BY <2>4, <2>5, <2>6
<1> HIDE DEF S
<1>3. n \in S
  <2>1. \A k \in 0 .. n : k \in S
    BY <1>1, <1>2, UpTo
  <2> QED BY <2>1
<1> QED BY <1>3 DEF S

(***************************************************************************)
(* Payloads that wait.  What c says they cost, when two together cost no   *)
(* more than each of them.                                                 *)
(***************************************************************************)
IsCost(c) ==
  /\ c \in [TokenStrings -> Nat]
  /\ \A s, t \in TokenStrings : c[s \o t] <= c[s] + c[t]
Costs(pending, c) == [p \in 1 .. Len(pending) |-> c[pending[p].tokens]]
Cost(pending, c) == Total(Costs(pending, c), Len(pending))

Waiter(p) == DOMAIN p = {"field", "tokens"} /\ p.tokens \in TokenStrings
Queue(pending) ==
  /\ IsSequence(pending)
  /\ \A p \in 1 .. Len(pending) : Waiter(pending[p])
  /\ \A p, q \in 1 .. Len(pending) : pending[p].field = pending[q].field => p = q

LEMMA CostFacts ==
  ASSUME NEW pending, Queue(pending), NEW c, IsCost(c)
  PROVE  /\ Len(pending) \in Nat /\ Cost(pending, c) \in Nat
         /\ \A p \in 1 .. Len(pending) :
              Costs(pending, c)[p] = c[pending[p].tokens] /\ c[pending[p].tokens] \in Nat
<1>1. Len(pending) \in Nat
  BY SequenceLength DEF Queue
<1>2. \A p \in 1 .. Len(pending) :
        Costs(pending, c)[p] = c[pending[p].tokens] /\ c[pending[p].tokens] \in Nat
  BY DEF Costs, Queue, Waiter, IsCost
<1>3. Cost(pending, c) \in Nat
  <2>1. \A p \in 1 .. Len(pending) : Costs(pending, c)[p] \in Nat
    BY <1>2
  <2> QED BY <1>1, <2>1, TotalFacts DEF Cost
<1> QED BY <1>1, <1>2, <1>3

(* One more payload waits.                                                 *)
LEMMA CostPend ==
  ASSUME NEW pending, Queue(pending), NEW i, NEW tokens \in TokenStrings
  PROVE  /\ Queue(Pend(pending, i, tokens))
         /\ \A c : IsCost(c) => Cost(Pend(pending, i, tokens), c) <= Cost(pending, c) + c[tokens]
<1> DEFINE new == Pend(pending, i, tokens)
           n == Len(pending)
<1>1. n \in Nat /\ IsSequence(pending)
  BY SequenceLength DEF Queue
<1>2. CASE \E p \in 1 .. n : pending[p].field = i
  <2> DEFINE entry(p) == IF pending[p].field = i
                         THEN [pending[p] EXCEPT !.tokens = @ \o tokens] ELSE pending[p]
             T == {entry(p) : p \in 1 .. n}
  <2>1. new = [p \in 1 .. n |-> entry(p)]
    BY <1>2 DEF Pend
  <2>2. \A p \in 1 .. n : Waiter(pending[p])
    BY DEF Queue
  <2>3. ASSUME NEW p \in 1 .. n
        PROVE  /\ Waiter(entry(p)) /\ entry(p).field = pending[p].field
               /\ entry(p).tokens = IF pending[p].field = i THEN pending[p].tokens \o tokens
                                    ELSE pending[p].tokens
    <3>1. Waiter(pending[p]) /\ pending[p].tokens \o tokens \in TokenStrings
      BY <2>2, SizeConcat DEF Waiter
    <3> QED BY <3>1 DEF Waiter
  <2> HIDE DEF entry, new
  <2>4. new \in Seq(T) /\ Len(new) = n
    <3>1. \A p \in 1 .. n : entry(p) \in T
      OBVIOUS
    <3> HIDE DEF T, n
    <3>2. new \in [1 .. n -> T]
      BY <2>1, <3>1
    <3> QED BY <1>1, <3>2
  <2>5. IsSequence(new) /\ \A p \in 1 .. n : new[p] = entry(p)
    BY <2>1, <2>4, SequenceOf
  <2>6. Queue(new)
    <3>1. \A p \in 1 .. n : Waiter(new[p]) /\ new[p].field = pending[p].field
      BY <2>3, <2>5
    <3>2. \A p, q \in 1 .. n : new[p].field = new[q].field => p = q
      BY <3>1 DEF Queue
    <3> QED BY <2>4, <2>5, <3>1, <3>2 DEF Queue
  <2>7. ASSUME NEW c, IsCost(c) PROVE Cost(new, c) <= Cost(pending, c) + c[tokens]
    <3> DEFINE f == Costs(pending, c)
               g == Costs(new, c)
    <3>1. PICK p \in 1 .. n : pending[p].field = i
      BY <1>2
    <3>2. /\ \A q \in 1 .. n : f[q] = c[pending[q].tokens] /\ c[pending[q].tokens] \in Nat
          /\ \A q \in 1 .. n : g[q] = c[new[q].tokens] /\ c[new[q].tokens] \in Nat
      BY <2>4, <2>6, <2>7, CostFacts
    <3>3. \A q \in 1 .. n : q # p => g[q] = f[q]
      <4>1. \A q \in 1 .. n : pending[q].field = i => q = p
        BY <3>1 DEF Queue
      <4> QED BY <2>3, <2>5, <3>2, <4>1
    <3>4. g[p] <= f[p] + c[tokens]
      <4>1. new[p].tokens = pending[p].tokens \o tokens /\ pending[p].tokens \in TokenStrings
        BY <2>2, <2>3, <2>5, <3>1 DEF Waiter
      <4>2. c[pending[p].tokens \o tokens] <= c[pending[p].tokens] + c[tokens]
        BY <2>7, <4>1 DEF IsCost
      <4> QED BY <3>2, <4>1, <4>2
    <3>5. c[tokens] \in Nat
      BY <2>7 DEF IsCost
    <3>6. \A q \in 1 .. n : f[q] \in Nat /\ g[q] \in Nat /\ (q # p => g[q] = f[q])
      BY <3>2, <3>3
    <3> HIDE DEF f, g, n
    <3>7. Total(g, n) <= Total(f, n) + c[tokens]
      BY <1>1, <3>4, <3>5, <3>6, TotalChanged
    <3> QED BY <2>4, <3>7 DEF Cost, f, g, n
  <2> QED BY <2>6, <2>7 DEF new
<1>3. CASE ~ \E p \in 1 .. n : pending[p].field = i
  <2> DEFINE e == [field |-> i, tokens |-> tokens]
  <2>1. new = Append(pending, e)
    BY <1>3 DEF Pend
  <2>2. Waiter(e) /\ e.field = i /\ e.tokens = tokens
    BY DEF Waiter
  <2> HIDE DEF e, new
  <2>3. /\ IsSequence(new) /\ Len(new) = n + 1
        /\ \A p \in 1 .. n : new[p] = pending[p]
        /\ new[n + 1] = e
    BY <1>1, <2>1, SequenceAppend
  <2>4. \A p \in 1 .. n + 1 : p \in 1 .. n \/ p = n + 1
    BY <1>1
  <2>5. Queue(new)
    <3>1. \A p \in 1 .. n + 1 : Waiter(new[p])
      BY <2>2, <2>3, <2>4 DEF Queue
    <3>2. ASSUME NEW p \in 1 .. n + 1, NEW q \in 1 .. n + 1, new[p].field = new[q].field PROVE p = q
      <4>1. CASE p \in 1 .. n /\ q \in 1 .. n
        BY <2>3, <3>2, <4>1 DEF Queue
      <4>2. CASE p \in 1 .. n /\ q = n + 1
        BY <1>3, <2>2, <2>3, <3>2, <4>2
      <4>3. CASE p = n + 1 /\ q \in 1 .. n
        BY <1>3, <2>2, <2>3, <3>2, <4>3
      <4> QED BY <2>4, <4>1, <4>2, <4>3
    <3> QED BY <2>3, <3>1, <3>2 DEF Queue
  <2>6. ASSUME NEW c, IsCost(c) PROVE Cost(new, c) <= Cost(pending, c) + c[tokens]
    <3> DEFINE f == Costs(pending, c)
               g == Costs(new, c)
    <3>1. /\ \A q \in 1 .. n : f[q] = c[pending[q].tokens] /\ c[pending[q].tokens] \in Nat
          /\ \A q \in 1 .. n + 1 : g[q] = c[new[q].tokens] /\ c[new[q].tokens] \in Nat
      BY <2>3, <2>5, <2>6, CostFacts
    <3>2. \A q \in 1 .. n : f[q] \in Nat /\ f[q] = g[q]
      <4>1. \A q \in 1 .. n : q \in 1 .. n + 1
        BY <1>1
      <4> QED BY <2>3, <3>1, <4>1
    <3>3. n + 1 \in 1 .. n + 1
      BY <1>1
    <3>4. g[n + 1] = c[tokens] /\ c[tokens] \in Nat
      BY <2>2, <2>3, <3>1, <3>3
    <3>5. \A q \in 1 .. n + 1 : g[q] \in Nat
      BY <3>1
    <3> HIDE DEF f, g, n
    <3>6. Total(f, n) = Total(g, n) /\ Total(f, n) \in Nat
      BY <1>1, <3>2, TotalSame, TotalFacts
    <3>7. Total(g, n + 1) = Total(g, (n + 1) - 1) + g[n + 1]
      <4>1. n + 1 \in Nat /\ n + 1 # 0
        BY <1>1
      <4> QED BY <3>5, <4>1, TotalFacts
    <3>8. Total(g, n + 1) <= Total(f, n) + c[tokens]
      <4>1. (n + 1) - 1 = n
        BY <1>1
      <4> QED BY <3>4, <3>6, <3>7, <4>1
    <3> QED BY <2>3, <3>8 DEF Cost, f, g, n
  <2> QED BY <2>5, <2>6 DEF new
<1> QED BY <1>2, <1>3

(* Some wait no more.                                                      *)
LEMMA CostSubsequence ==
  ASSUME NEW pending, Queue(pending), NEW kept \in SUBSET (1 .. Len(pending))
  PROVE  /\ Queue(Subsequence(pending, kept))
         /\ \A c : IsCost(c) => Cost(Subsequence(pending, kept), c) <= Cost(pending, c)
<1> DEFINE new == Subsequence(pending, kept)
           m == Cardinality(kept)
           n == Len(pending)
           T == Elements(pending)
           at == [k \in 1 .. m |-> Nth(kept, k)]
<1>1. n \in Nat /\ pending \in Seq(T)
  BY SequenceLength DEF Queue, IsSequence
<1>2. /\ new \in Seq(T) /\ Len(new) = m
      /\ \A k \in 1 .. m : Nth(kept, k) \in kept /\ new[k] = pending[Nth(kept, k)]
      /\ \A k, l \in 1 .. m : k < l => Nth(kept, k) < Nth(kept, l)
  <2> HIDE DEF T
  <2> QED BY <1>1, SubsequenceProperties
<1>3. /\ \A k \in 1 .. m : at[k] \in 1 .. n /\ new[k] = pending[at[k]]
      /\ \A k, l \in 1 .. m : k < l => at[k] < at[l]
  BY <1>2
<1>4. m \in Nat /\ IsSequence(new)
  BY <1>2, LenProperties, SequenceOf
<1> HIDE DEF at, new, m
<1>5. \A k, l \in 1 .. m : at[k] = at[l] => k = l
  <2> SUFFICES ASSUME NEW k \in 1 .. m, NEW l \in 1 .. m, at[k] = at[l] PROVE k = l
    OBVIOUS
  <2>1. at[k] \in 1 .. n /\ at[l] \in 1 .. n
    BY <1>3
  <2>2. ~(at[k] < at[l]) /\ ~(at[l] < at[k])
    BY <2>1
  <2> QED BY <1>3, <2>2
<1>6. Queue(new)
  <2>1. \A k \in 1 .. m : Waiter(new[k])
    BY <1>3 DEF Queue
  <2>2. ASSUME NEW k \in 1 .. m, NEW l \in 1 .. m, new[k].field = new[l].field PROVE k = l
    <3>1. at[k] = at[l]
      BY <1>3, <2>2 DEF Queue
    <3> QED BY <1>5, <3>1
  <2> QED BY <1>2, <1>4, <2>1, <2>2 DEF Queue
<1>7. ASSUME NEW c, IsCost(c) PROVE Cost(new, c) <= Cost(pending, c)
  <2> DEFINE f == Costs(pending, c)
             g == Costs(new, c)
  <2>1. /\ \A q \in 1 .. n : f[q] = c[pending[q].tokens] /\ f[q] \in Nat
        /\ \A k \in 1 .. m : g[k] = c[new[k].tokens]
    BY <1>2, <1>6, <1>7, CostFacts
  <2>2. \A k \in 1 .. m : at[k] \in 1 .. n /\ g[k] = f[at[k]]
    BY <1>3, <2>1
  <2>3. \A q \in 1 .. n : f[q] \in Nat
    BY <2>1
  <2> HIDE DEF f, g, n
  <2>4. Total(g, m) <= Total(f, n)
    BY <1>1, <1>3, <1>4, <2>2, <2>3, TotalPart
  <2> QED BY <1>2, <2>4 DEF Cost, f, g, n
<1> QED BY <1>6, <1>7 DEF new

(* The first one is taken.                                                 *)
LEMMA CostTail ==
  ASSUME NEW pending, Queue(pending), pending # <<>>
  PROVE  /\ Queue(Tail(pending)) /\ Head(pending).tokens \in TokenStrings
         /\ \A c : IsCost(c) =>
              Cost(pending, c) = c[Head(pending).tokens] + Cost(Tail(pending), c)
<1> DEFINE new == Tail(pending)
           n == Len(pending)
<1>1. n \in Nat /\ n # 0 /\ IsSequence(pending)
  BY SequenceLength DEF Queue
<1>2. /\ IsSequence(new) /\ Len(new) = n - 1 /\ Head(pending) = pending[1]
      /\ \A i \in 1 .. n - 1 : new[i] = pending[i + 1]
  BY <1>1, SequenceTail
<1> HIDE DEF new
<1>3. 1 \in 1 .. n /\ n - 1 \in Nat /\ \A i \in 1 .. n - 1 : i + 1 \in 1 .. n
  BY <1>1
<1>4. Queue(new)
  <2>1. \A p, q \in 1 .. n - 1 : new[p].field = new[q].field => p + 1 = q + 1
    BY <1>2, <1>3, SMTT(30) DEF Queue
  <2>2. \A p, q \in 1 .. n - 1 : p + 1 = q + 1 => p = q
    BY <1>1
  <2> QED BY <1>2, <1>3, <2>1, <2>2 DEF Queue
<1>5. Waiter(Head(pending))
  BY <1>2, <1>3 DEF Queue
<1>6. ASSUME NEW c, IsCost(c)
      PROVE  Cost(pending, c) = c[Head(pending).tokens] + Cost(new, c)
  <2> DEFINE f == Costs(pending, c)
             g == Costs(new, c)
  <2>1. /\ \A q \in 1 .. n : f[q] = c[pending[q].tokens] /\ f[q] \in Nat
        /\ \A k \in 1 .. n - 1 : g[k] = c[new[k].tokens]
    BY <1>2, <1>4, <1>6, CostFacts, SMTT(30)
  <2>2. \A k \in 1 .. n - 1 : g[k] = f[1 + k]
    BY <1>2, <1>3, <2>1
  <2>3. /\ 1 + (n - 1) = n /\ 1 \in Nat
        /\ \A q \in 1 .. 1 + (n - 1) : f[q] \in Nat
    BY <1>1, <2>1
  <2>4. f[1] = c[Head(pending).tokens] /\ f[1] \in Nat
    BY <1>2, <1>3, <2>1
  <2> HIDE DEF f, g, n
  <2>5. Total(f, 1 + (n - 1)) = Total(f, 1) + Total(g, n - 1)
    BY <1>3, <2>2, <2>3, TotalSplit
  <2>6. Total(f, 1) = f[1]
    <3>1. 1 # 0 /\ 1 - 1 = 0 /\ \A i \in 1 .. 1 : f[i] \in Nat
      BY <2>4
    <3>2. Total(f, 0) = 0 /\ Total(f, 1) = Total(f, 1 - 1) + f[1]
      BY <3>1, TotalFacts
    <3> QED BY <2>4, <3>1, <3>2
  <2>7. Total(f, n) = c[Head(pending).tokens] + Total(g, n - 1)
    BY <2>3, <2>4, <2>5, <2>6
  <2> QED BY <1>2, <2>7 DEF Cost, f, g, n
<1> QED BY <1>4, <1>5, <1>6 DEF new, Waiter

-----------------------------------------------------------------------------
(***************************************************************************)
(* Frames.  The tokens a frame has yet to read, in its data and in the     *)
(* payloads that wait.                                                     *)
(***************************************************************************)
Unread(frame) ==
  Size[frame.data] + IF frame.call = "message" THEN Cost(frame.pending, Size) ELSE 0

(* What it reads is tokens.                                                *)
Feeds(frame) ==
  /\ frame.data \in TokenStrings
  /\ frame.call = "message" => Queue(frame.pending)

(* Waiting and Unread count payloads in their own ways.                    *)
Work == [s \in TokenStrings |-> 2 + WorkOf(s)]
LEMMA CostsAre ==
  /\ IsCost(Size) /\ IsCost(Work)
  /\ \A s \in TokenStrings : Size[s] \in Nat /\ Work[s] = 2 + 4 * Size[s]
  /\ \A pending : Queue(pending) => Waiting(pending) = Cost(pending, Work)
<1>1. \A s \in TokenStrings : Size[s] \in Nat /\ Work[s] = 2 + 4 * Size[s]
  BY SizeFacts DEF Work, WorkOf
<1>2. IsCost(Size)
  <2>1. Size \in [TokenStrings -> Nat]
    BY SizeIs DEF Sizes
  <2>2. \A s, t \in TokenStrings : Size[s \o t] <= Size[s] + Size[t]
    BY <1>1, SizeConcat
  <2> QED BY <2>1, <2>2 DEF IsCost
<1>3. IsCost(Work)
  <2>1. Work \in [TokenStrings -> Nat]
    BY <1>1 DEF Work, WorkOf
  <2>2. ASSUME NEW s \in TokenStrings, NEW t \in TokenStrings
        PROVE  Work[s \o t] <= Work[s] + Work[t]
    <3>1. s \o t \in TokenStrings /\ Size[s \o t] = Size[s] + Size[t]
      BY SizeConcat
    <3>2. Work[s \o t] = 2 + 4 * Size[s \o t]
      BY <1>1, <3>1
    <3> QED BY <1>1, <3>1, <3>2
  <2> QED BY <2>1, <2>2 DEF IsCost
<1>4. ASSUME NEW pending, Queue(pending) PROVE Waiting(pending) = Cost(pending, Work)
  <2> DEFINE f == [p \in 1 .. Len(pending) |-> 2 + WorkOf(pending[p].tokens)]
             g == Costs(pending, Work)
  <2>1. \A p \in 1 .. Len(pending) : pending[p].tokens \in TokenStrings
    BY <1>4 DEF Queue, Waiter
  <2>2. \A p \in 1 .. Len(pending) : f[p] = g[p] /\ f[p] \in Nat
    BY <1>1, <2>1 DEF Costs, Work
  <2>3. Len(pending) \in Nat
    BY <1>4, SequenceLength DEF Queue
  <2>4. Waiting(pending) = Total(f, Len(pending)) /\ Cost(pending, Work) = Total(g, Len(pending))
    BY DEF Waiting, Cost
  <2> HIDE DEF f, g
  <2> QED BY <2>2, <2>3, <2>4, TotalSame
<1> QED BY <1>1, <1>2, <1>3, <1>4

(* A frame counts.                                                         *)
LEMMA FrameNumbers ==
  ASSUME NEW f, Feeds(f)
  PROVE  /\ Size[f.data] \in Nat
         /\ f.call = "message" => Cost(f.pending, Work) \in Nat /\ Cost(f.pending, Size) \in Nat
         /\ \A b \in BOOLEAN :
              Left(f, b) = 1 + 4 * Size[f.data] +
                IF f.call = "message" THEN Cost(f.pending, Work)
                ELSE IF f.value = Absent /\ b THEN 2 ELSE 0
         /\ \A b \in BOOLEAN : Left(f, b) \in Nat /\ Left(f, b) >= 1
         /\ Unread(f) \in Nat
<1>1. Size[f.data] \in Nat
  BY SizeFacts DEF Feeds
<1>2. f.call = "message" =>
        /\ Cost(f.pending, Work) \in Nat /\ Cost(f.pending, Size) \in Nat
        /\ Waiting(f.pending) = Cost(f.pending, Work)
  BY CostsAre, CostFacts DEF Feeds
<1>3. \A b \in BOOLEAN :
        Left(f, b) = 1 + 4 * Size[f.data] +
          IF f.call = "message" THEN Cost(f.pending, Work)
          ELSE IF f.value = Absent /\ b THEN 2 ELSE 0
  BY <1>2 DEF Left, WorkOf
<1>4. \A b \in BOOLEAN : Left(f, b) \in Nat /\ Left(f, b) >= 1
  BY <1>1, <1>2, <1>3
<1>5. Unread(f) \in Nat
  BY <1>1, <1>2 DEF Unread
<1> QED BY <1>1, <1>2, <1>3, <1>4, <1>5

(* Frames with the same data and payloads count the same, but for what an  *)
(* entry has yet to default.                                               *)
LEMMA SameNumbers ==
  ASSUME NEW f, Feeds(f), NEW g, g.call = f.call, g.data = f.data,
         f.call = "message" => g.pending = f.pending
  PROVE  /\ Feeds(g) /\ Unread(g) = Unread(f)
         /\ f.call = "message" \/ g.value = f.value => \A b \in BOOLEAN : Left(g, b) = Left(f, b)
         /\ f.call = "message" \/ g.value # Absent => Left(g, TRUE) = Left(f, FALSE)
<1>1. Feeds(g) /\ Unread(g) = Unread(f)
  BY DEF Feeds, Unread
<1> QED BY <1>1, FrameNumbers

(* A token is taken from the data.                                         *)
LEMMA AdvanceNumbers ==
  ASSUME NEW f, Shape(f), Feeds(f), f.data # <<>>
  PROVE  LET g == [f EXCEPT !.data = Tail(@)]
             p == Head(f.data).payload
         IN  /\ Feeds(g) /\ g.call = f.call
             /\ f.call = "message" => g.pending = f.pending
             /\ f.call = "entry" => g.value = f.value
             /\ p \in TokenStrings /\ Size[p] \in Nat
             /\ \A b \in BOOLEAN : Left(f, b) = Left(g, b) + 4 + 4 * Size[p]
             /\ Unread(f) = Unread(g) + 1 + Size[p]
<1> DEFINE g == [f EXCEPT !.data = Tail(@)]
           p == Head(f.data).payload
<1>1. f.call \in {"message", "entry"}
  BY DEF Shape, MessageShape, EntryShape
<1>2. /\ g.call = f.call /\ g.data = Tail(f.data)
      /\ f.call = "message" => g.pending = f.pending
      /\ f.call = "entry" => g.value = f.value
  BY DEF Shape, MessageShape, EntryShape
<1>3. /\ p \in TokenStrings /\ Tail(f.data) \in TokenStrings
      /\ Size[f.data] = 1 + Size[p] + Size[Tail(f.data)]
  BY SizeTail DEF Feeds
<1>4. Size[p] \in Nat /\ Size[Tail(f.data)] \in Nat
  BY <1>3, SizeFacts
<1> HIDE DEF g, p
<1>5. Feeds(g)
  BY <1>2, <1>3 DEF Feeds
<1>6. \A b \in BOOLEAN : Left(f, b) = Left(g, b) + 4 + 4 * Size[p]
  <2> SUFFICES ASSUME NEW b \in BOOLEAN PROVE Left(f, b) = Left(g, b) + 4 + 4 * Size[p]
    OBVIOUS
  <2> DEFINE rest == IF f.call = "message" THEN Cost(f.pending, Work)
                     ELSE IF f.value = Absent /\ b THEN 2 ELSE 0
  <2>1. rest \in Nat
    BY FrameNumbers
  <2>2. Left(f, b) = 1 + 4 * Size[f.data] + rest
    BY FrameNumbers
  <2>3. Left(g, b) = 1 + 4 * Size[Tail(f.data)] + rest
    BY <1>1, <1>2, <1>5, FrameNumbers
  <2> HIDE DEF rest
  <2>4. \A a, c, r \in Nat : 1 + 4 * (1 + a + c) + r = 1 + 4 * c + r + 4 + 4 * a
    OBVIOUS
  <2>5. Left(f, b) = 1 + 4 * (1 + Size[p] + Size[Tail(f.data)]) + rest
    BY <1>3, <2>2
  <2> DEFINE x == Left(f, b)
             y == Left(g, b)
  <2>6. /\ x = 1 + 4 * (1 + Size[p] + Size[Tail(f.data)]) + rest
        /\ y = 1 + 4 * Size[Tail(f.data)] + rest
    BY <2>3, <2>5
  <2> HIDE DEF x, y
  <2>7. x = y + 4 + 4 * Size[p]
    BY <1>4, <2>1, <2>4, <2>6
  <2> QED BY <2>7 DEF x, y
<1>7. Unread(f) = Unread(g) + 1 + Size[p]
  <2> DEFINE rest == IF f.call = "message" THEN Cost(f.pending, Size) ELSE 0
  <2>1. rest \in Nat
    BY FrameNumbers
  <2>2. Unread(f) = Size[f.data] + rest /\ Unread(g) = Size[Tail(f.data)] + rest
    BY <1>2 DEF Unread
  <2> HIDE DEF rest
  <2> QED BY <1>3, <1>4, <2>1, <2>2, SMTT(30)
<1> QED BY <1>2, <1>3, <1>4, <1>5, <1>6, <1>7 DEF g, p

(* Payloads that wait in place of others.                                  *)
LEMMA QueueNumbers ==
  ASSUME NEW f, Feeds(f), f.call = "message", NEW g, g.call = "message", g.data = f.data,
         Queue(g.pending), NEW n \in Nat, NEW m \in Nat,
         Cost(g.pending, Work) <= Cost(f.pending, Work) + n,
         Cost(g.pending, Size) <= Cost(f.pending, Size) + m
  PROVE  /\ Feeds(g) /\ Unread(g) <= Unread(f) + m
         /\ \A b \in BOOLEAN : Left(g, b) <= Left(f, b) + n
<1>1. Feeds(g)
  BY DEF Feeds
<1>2. /\ Cost(g.pending, Work) \in Nat /\ Cost(f.pending, Work) \in Nat
      /\ Cost(g.pending, Size) \in Nat /\ Cost(f.pending, Size) \in Nat
      /\ Size[f.data] \in Nat
  BY <1>1, FrameNumbers
<1>3. Unread(g) <= Unread(f) + m
  BY <1>2 DEF Unread
<1>4. \A b \in BOOLEAN : /\ Left(g, b) = 1 + 4 * Size[f.data] + Cost(g.pending, Work)
                         /\ Left(f, b) = 1 + 4 * Size[f.data] + Cost(f.pending, Work)
  BY <1>1, FrameNumbers
<1>5. \A b \in BOOLEAN : Left(g, b) <= Left(f, b) + n
  BY <1>2, <1>4
<1> QED BY <1>1, <1>3, <1>5

(* A payload waits.                                                        *)
LEMMA PendNumbers ==
  ASSUME NEW f, Shape(f), Feeds(f), f.call = "message", NEW i, NEW tokens \in TokenStrings
  PROVE  LET g == [f EXCEPT !.pending = Pend(f.pending, i, tokens)]
         IN  /\ Feeds(g) /\ g.call = "message"
             /\ Unread(g) <= Unread(f) + Size[tokens]
             /\ \A b \in BOOLEAN : Left(g, b) <= Left(f, b) + 2 + 4 * Size[tokens]
<1> DEFINE new == Pend(f.pending, i, tokens)
           g == [f EXCEPT !.pending = new]
<1>1. Queue(f.pending)
  BY DEF Feeds
<1>2. /\ Queue(new)
      /\ Cost(new, Size) <= Cost(f.pending, Size) + Size[tokens]
      /\ Cost(new, Work) <= Cost(f.pending, Work) + Work[tokens]
  BY <1>1, CostPend, CostsAre
<1>3. Size[tokens] \in Nat /\ Work[tokens] = 2 + 4 * Size[tokens] /\ 2 + 4 * Size[tokens] \in Nat
  BY CostsAre
<1> HIDE DEF new
<1>4. g.call = "message" /\ g.data = f.data /\ g.pending = new
  BY DEF Shape, MessageShape, EntryShape
<1> HIDE DEF g
<1>5. /\ Feeds(g) /\ Unread(g) <= Unread(f) + Size[tokens]
      /\ \A b \in BOOLEAN : Left(g, b) <= Left(f, b) + (2 + 4 * Size[tokens])
  BY <1>2, <1>3, <1>4, QueueNumbers
<1>6. \A b \in BOOLEAN : Left(f, b) \in Nat
  BY FrameNumbers
<1>7. \A b \in BOOLEAN : Left(g, b) <= Left(f, b) + 2 + 4 * Size[tokens]
  BY <1>3, <1>5, <1>6, FrameNumbers
<1> QED BY <1>4, <1>5, <1>7 DEF g, new

(* The other members of a oneof are unset.                                 *)
LEMMA ClearNumbers ==
  ASSUME NEW f, Shape(f), Feeds(f), f.call = "message", NEW i
  PROVE  LET g == ClearOneof(f, i)
         IN  /\ Feeds(g) /\ g.call = "message"
             /\ Unread(g) <= Unread(f)
             /\ \A b \in BOOLEAN : Left(g, b) <= Left(f, b)
<1> DEFINE fields == Plan[f.of]
           others == {j \in 1 .. Len(fields) \ {i} : fields[j].group = fields[i].group}
           kept == {p \in 1 .. Len(f.pending) : f.pending[p].field \notin others}
           slots == [j \in DOMAIN f.slots |-> IF j \in others THEN Absent ELSE f.slots[j]]
           new == Subsequence(f.pending, kept)
           g == [f EXCEPT !.slots = slots, !.pending = new]
<1>1. Unread(f) \in Nat /\ \A b \in BOOLEAN : Left(f, b) \in Nat
  BY FrameNumbers
<1>2. CASE fields[i].group = 0
  <2>1. ClearOneof(f, i) = f
    BY <1>2 DEF ClearOneof
  <2> QED BY <1>1, <2>1
<1>3. CASE fields[i].group # 0
  <2>1. ClearOneof(f, i) = g
    BY <1>3 DEF ClearOneof
  <2>2. Queue(f.pending) /\ kept \in SUBSET (1 .. Len(f.pending))
    BY DEF Feeds
  <2> HIDE DEF kept
  <2>3. /\ Queue(new)
        /\ Cost(new, Size) <= Cost(f.pending, Size)
        /\ Cost(new, Work) <= Cost(f.pending, Work)
    BY <2>2, CostSubsequence, CostsAre
  <2> HIDE DEF new, slots
  <2>4. g.call = "message" /\ g.data = f.data /\ g.pending = new
    BY DEF Shape, MessageShape, EntryShape
  <2> HIDE DEF g
  <2>5. /\ Cost(new, Size) <= Cost(f.pending, Size) + 0
        /\ Cost(new, Work) <= Cost(f.pending, Work) + 0
    <3>1. Cost(f.pending, Size) \in Nat /\ Cost(f.pending, Work) \in Nat
      BY FrameNumbers
    <3> QED BY <2>3, <3>1
  <2>6. /\ Feeds(g) /\ Unread(g) <= Unread(f) + 0
        /\ \A b \in BOOLEAN : Left(g, b) <= Left(f, b) + 0
    BY <2>3, <2>4, <2>5, QueueNumbers
  <2> QED BY <1>1, <2>1, <2>4, <2>6
<1> QED BY <1>2, <1>3

(* A payload is taken from those that wait.                                *)
LEMMA TakeNumbers ==
  ASSUME NEW f, Shape(f), Feeds(f), f.call = "message", f.pending # <<>>
  PROVE  LET g == [f EXCEPT !.pending = Tail(@)]
             tokens == Head(f.pending).tokens
         IN  /\ Feeds(g) /\ g.call = "message"
             /\ tokens \in TokenStrings /\ Size[tokens] \in Nat
             /\ Unread(f) = Unread(g) + Size[tokens]
             /\ \A b \in BOOLEAN : Left(f, b) = Left(g, b) + 2 + 4 * Size[tokens]
<1> DEFINE new == Tail(f.pending)
           tokens == Head(f.pending).tokens
           g == [f EXCEPT !.pending = new]
<1>1. Queue(f.pending)
  BY DEF Feeds
<1>2. /\ Queue(new) /\ tokens \in TokenStrings
      /\ Cost(f.pending, Size) = Size[tokens] + Cost(new, Size)
      /\ Cost(f.pending, Work) = Work[tokens] + Cost(new, Work)
  BY <1>1, CostTail, CostsAre
<1>3. Size[tokens] \in Nat /\ Work[tokens] = 2 + 4 * Size[tokens]
  BY <1>2, CostsAre
<1> HIDE DEF new, tokens
<1>4. g.call = "message" /\ g.data = f.data /\ g.pending = new
  BY DEF Shape, MessageShape, EntryShape
<1>5. g = [f EXCEPT !.pending = Tail(@)]
  BY DEF new
<1> HIDE DEF g
<1>6. Feeds(g)
  BY <1>2, <1>4 DEF Feeds
<1>7. /\ Cost(new, Work) \in Nat /\ Cost(new, Size) \in Nat /\ Size[f.data] \in Nat
      /\ \A b \in BOOLEAN : /\ Left(g, b) = 1 + 4 * Size[f.data] + Cost(new, Work)
                            /\ Left(f, b) = 1 + 4 * Size[f.data] + Cost(f.pending, Work)
  BY <1>4, <1>6, FrameNumbers
<1>8. \A b \in BOOLEAN : Left(f, b) = Left(g, b) + 2 + 4 * Size[tokens]
  <2> SUFFICES ASSUME NEW b \in BOOLEAN PROVE Left(f, b) = Left(g, b) + 2 + 4 * Size[tokens]
    OBVIOUS
  <2>1. /\ Left(g, b) = 1 + 4 * Size[f.data] + Cost(new, Work)
        /\ Left(f, b) = 1 + 4 * Size[f.data] + Cost(f.pending, Work)
    BY <1>7
  <2>2. Cost(f.pending, Work) = 2 + 4 * Size[tokens] + Cost(new, Work)
    BY <1>2, <1>3
  <2>3. \A a, c, d \in Nat : 1 + 4 * a + (2 + 4 * c + d) = 1 + 4 * a + d + 2 + 4 * c
    OBVIOUS
  <2>4. Left(f, b) = 1 + 4 * Size[f.data] + (2 + 4 * Size[tokens] + Cost(new, Work))
    BY <2>1, <2>2
  <2> DEFINE x == Left(f, b)
             y == Left(g, b)
  <2>5. /\ x = 1 + 4 * Size[f.data] + (2 + 4 * Size[tokens] + Cost(new, Work))
        /\ y = 1 + 4 * Size[f.data] + Cost(new, Work)
    BY <2>1, <2>4
  <2> HIDE DEF x, y
  <2>6. x = y + 2 + 4 * Size[tokens]
    BY <1>3, <1>7, <2>3, <2>5
  <2> QED BY <2>6 DEF x, y
<1>9. Unread(f) = Unread(g) + Size[tokens]
  BY <1>2, <1>3, <1>4, <1>7, SMTT(30) DEF Unread
<1> QED BY <1>2, <1>3, <1>4, <1>5, <1>6, <1>8, <1>9 DEF tokens

(* New frames.                                                             *)
LEMMA NewNumbers ==
  ASSUME NEW tokens \in TokenStrings
  PROVE  /\ \A m, depth, at :
              LET g == MessageFrame(m, tokens, depth, at)
              IN  /\ Feeds(g) /\ Unread(g) = Size[tokens]
                  /\ \A b \in BOOLEAN : Left(g, b) = 1 + 4 * Size[tokens]
         /\ \A f, depth, at :
              LET g == EntryFrame(f, tokens, depth, at)
              IN  /\ Feeds(g) /\ Unread(g) = Size[tokens]
                  /\ Left(g, TRUE) = 3 + 4 * Size[tokens]
<1>1. Size[tokens] \in Nat
  BY SizeFacts
<1>2. ASSUME NEW m, NEW depth, NEW at
      PROVE  LET g == MessageFrame(m, tokens, depth, at)
             IN  /\ Feeds(g) /\ Unread(g) = Size[tokens]
                 /\ \A b \in BOOLEAN : Left(g, b) = 1 + 4 * Size[tokens]
  <2> DEFINE g == MessageFrame(m, tokens, depth, at)
  <2>1. g.call = "message" /\ g.data = tokens /\ g.pending = <<>>
    BY DEF MessageFrame
  <2> HIDE DEF g
  <2>2. IsSequence(<<>>) /\ Len(<<>>) = 0
    BY DEF IsSequence, Elements
  <2>3. Queue(<<>>)
    BY <2>2 DEF Queue
  <2>4. Feeds(g)
    BY <2>1, <2>3 DEF Feeds
  <2>5. Cost(<<>>, Size) = 0 /\ Cost(<<>>, Work) = 0
    BY <2>2, TotalFacts DEF Cost
  <2>6. Unread(g) = Size[tokens]
    BY <1>1, <2>1, <2>5 DEF Unread
  <2>7. \A b \in BOOLEAN : Left(g, b) = 1 + 4 * Size[tokens] + Cost(<<>>, Work)
    BY <2>1, <2>4, FrameNumbers
  <2>8. \A b \in BOOLEAN : Left(g, b) = 1 + 4 * Size[tokens]
    BY <1>1, <2>5, <2>7
  <2> QED BY <2>4, <2>6, <2>8 DEF g
<1>3. ASSUME NEW f, NEW depth, NEW at
      PROVE  LET g == EntryFrame(f, tokens, depth, at)
             IN  /\ Feeds(g) /\ Unread(g) = Size[tokens]
                 /\ Left(g, TRUE) = 3 + 4 * Size[tokens]
  <2> DEFINE g == EntryFrame(f, tokens, depth, at)
  <2>1. g.call = "entry" /\ g.data = tokens /\ g.value = Absent
    BY DEF EntryFrame
  <2> HIDE DEF g
  <2>2. Feeds(g)
    BY <2>1 DEF Feeds
  <2>3. Unread(g) = Size[tokens]
    BY <1>1, <2>1 DEF Unread
  <2>4. Left(g, TRUE) = 1 + 4 * Size[tokens] + 2
    BY <2>1, <2>2, FrameNumbers
  <2>5. Left(g, TRUE) = 3 + 4 * Size[tokens]
    <3>1. \A n \in Nat : 1 + 4 * n + 2 = 3 + 4 * n
      OBVIOUS
    <3> QED BY <1>1, <2>4, <3>1
  <2> QED BY <2>2, <2>3, <2>5 DEF g
<1> QED BY <1>2, <1>3

(* A value is delivered.                                                   *)
LEMMA DeliveredNumbers ==
  ASSUME NEW f, Shape(f), Feeds(f), NEW at, NEW v, v # Absent
  PROVE  LET g == Delivered(f, at, v)
         IN  Feeds(g) /\ Unread(g) = Unread(f) /\ Left(g, TRUE) = Left(f, FALSE)
<1> DEFINE g == Delivered(f, at, v)
<1>1. CASE f.call = "entry"
  <2>1. g = [f EXCEPT !.value = v]
    BY <1>1 DEF Delivered
  <2>2. g.call = "entry" /\ g.data = f.data /\ g.value = v
    BY <1>1, <2>1 DEF Shape, MessageShape, EntryShape
  <2> HIDE DEF g
  <2>3. g.value # Absent
    BY <2>2
  <2> QED BY <1>1, <2>2, <2>3, SameNumbers DEF g
<1>2. CASE f.call = "message"
  <2>1. \E x : g = Set(f, at, x)
    BY <1>2 DEF Delivered
  <2>2. PICK x : g = Set(f, at, x)
    BY <2>1
  <2> HIDE DEF g
  <2>3. g.call = "message" /\ g.data = f.data /\ g.pending = f.pending
    BY <1>2, <2>2 DEF Set, Shape, MessageShape, EntryShape
  <2> QED BY <1>2, <2>3, SameNumbers DEF g
<1> QED BY <1>1, <1>2 DEF Shape, MessageShape, EntryShape

-----------------------------------------------------------------------------
(* What is left of the innermost call, and of one that waits for another.  *)
LeftTop(frame) == Left(frame, TRUE)
LeftWaiting(frame) == Left(frame, FALSE)

LEMMA LeftNumbers ==
  ASSUME NEW f, Feeds(f)
  PROVE  /\ LeftTop(f) \in Nat /\ LeftTop(f) >= 1
         /\ LeftWaiting(f) \in Nat /\ LeftWaiting(f) >= 1
         /\ Unread(f) \in Nat
<1>1. \A b \in BOOLEAN : Left(f, b) \in Nat /\ Left(f, b) >= 1
  BY FrameNumbers
<1>2. /\ Left(f, TRUE) \in Nat /\ Left(f, TRUE) >= 1
      /\ Left(f, FALSE) \in Nat /\ Left(f, FALSE) >= 1
  BY <1>1, Zenon
<1> QED BY <1>2, FrameNumbers DEF LeftTop, LeftWaiting

(* A call that waits has no more to do than when it is the innermost: an   *)
(* entry that has no value is about to get one.                            *)
LEMMA WaitingNumbers ==
  ASSUME NEW f, Feeds(f)
  PROVE  /\ LeftWaiting(f) <= LeftTop(f)
         /\ f.call = "message" => LeftTop(f) = LeftWaiting(f)
         /\ f.call # "message" /\ f.value = Absent => LeftTop(f) = LeftWaiting(f) + 2
<1> DEFINE rest == IF f.call = "message" THEN Cost(f.pending, Work) ELSE 0
           default == IF f.call # "message" /\ f.value = Absent THEN 2 ELSE 0
           size == Size[f.data]
<1>1. size \in Nat /\ rest \in Nat
  BY FrameNumbers
<1>2. \A b \in BOOLEAN :
        Left(f, b) = 1 + 4 * Size[f.data] +
          IF f.call = "message" THEN Cost(f.pending, Work)
          ELSE IF f.value = Absent /\ b THEN 2 ELSE 0
  BY FrameNumbers
<1>3. /\ LeftTop(f) = 1 + 4 * Size[f.data] +
           IF f.call = "message" THEN Cost(f.pending, Work)
           ELSE IF f.value = Absent /\ TRUE THEN 2 ELSE 0
      /\ LeftWaiting(f) = 1 + 4 * Size[f.data] +
           IF f.call = "message" THEN Cost(f.pending, Work)
           ELSE IF f.value = Absent /\ FALSE THEN 2 ELSE 0
  BY <1>2, Zenon DEF LeftTop, LeftWaiting
<1>4. LeftTop(f) = 1 + 4 * size + (rest + default) /\ LeftWaiting(f) = 1 + 4 * size + rest
  BY <1>1, <1>3
<1>5. default \in {0, 2} /\ (f.call = "message" => default = 0)
      /\ (f.call # "message" /\ f.value = Absent => default = 2)
  OBVIOUS
<1> HIDE DEF rest, default, size
<1> QED BY <1>1, <1>4, <1>5

(* The innermost element of a stack is replaced.                           *)
LEMMA ExceptLast ==
  ASSUME NEW s, IsSequence(s), s # <<>>, NEW g
  PROVE  LET t == [s EXCEPT ![Len(s)] = g]
         IN  /\ IsSequence(t) /\ Len(t) = Len(s) /\ t[Len(s)] = g
             /\ \A i \in 1 .. Len(s) : i # Len(s) => t[i] = s[i]
<1> DEFINE n == Len(s)
<1>1. n \in 1 .. Len(s)
  BY SequenceLength
<1> HIDE DEF n
<1>2. /\ IsSequence([s EXCEPT ![n] = g]) /\ Len([s EXCEPT ![n] = g]) = Len(s)
      /\ [s EXCEPT ![n] = g][n] = g
      /\ \A i \in 1 .. Len(s) : i # n => [s EXCEPT ![n] = g][i] = s[i]
  BY <1>1, SequenceExcept
<1> QED BY <1>2 DEF n

(***************************************************************************)
(* Stacks.  Calls that read tokens; what is left to do in the first k of   *)
(* them, which wait for others, and in all; what they have yet to read.    *)
(***************************************************************************)
Fed(s) == IsSequence(s) /\ \A i \in 1 .. Len(s) : Feeds(s[i])
LeftBelow(s, k) == Total([i \in 1 .. k |-> LeftWaiting(s[i])], k)
LeftIn(s) == Total([i \in 1 .. Len(s) |-> Left(s[i], i = Len(s))], Len(s))
UnreadIn(s, k) == Total([i \in 1 .. k |-> Unread(s[i])], k)

(* What they have yet to read is a number.                                 *)
LEMMA UnreadNumber ==
  ASSUME NEW s, Fed(s)
  PROVE  UnreadIn(s, Len(s)) \in Nat
<1> DEFINE f == [i \in 1 .. Len(s) |-> Unread(s[i])]
<1>1. Len(s) \in Nat
  BY SequenceLength DEF Fed
<1>2. \A i \in 1 .. Len(s) : f[i] \in Nat
  BY LeftNumbers DEF Fed
<1> HIDE DEF f
<1>3. Total(f, Len(s)) \in Nat
  BY <1>1, <1>2, TotalFacts
<1> QED BY <1>3 DEF UnreadIn, f

(* The innermost call, and those below it.                                 *)
LEMMA StackNumbers ==
  ASSUME NEW s, Fed(s), NEW n \in Nat, Len(s) = n + 1
  PROVE  /\ Feeds(s[n + 1])
         /\ LeftBelow(s, n) \in Nat /\ UnreadIn(s, n) \in Nat
         /\ LeftIn(s) = LeftBelow(s, n) + LeftTop(s[n + 1])
         /\ UnreadIn(s, n + 1) = UnreadIn(s, n) + Unread(s[n + 1])
<1> DEFINE all == [i \in 1 .. n + 1 |-> Left(s[i], i = n + 1)]
           below == [i \in 1 .. n |-> LeftWaiting(s[i])]
           every == [i \in 1 .. n + 1 |-> Unread(s[i])]
           first == [i \in 1 .. n |-> Unread(s[i])]
<1>1. /\ n + 1 \in 1 .. n + 1 /\ n + 1 \in Nat /\ n + 1 # 0 /\ (n + 1) - 1 = n
      /\ \A i \in 1 .. n : i \in 1 .. n + 1 /\ i # n + 1
  OBVIOUS
<1>2. \A i \in 1 .. n + 1 : Feeds(s[i])
  BY DEF Fed
<1>3. ASSUME NEW i \in 1 .. n + 1
      PROVE  all[i] \in Nat /\ every[i] \in Nat /\ LeftWaiting(s[i]) \in Nat
  <2>1. Feeds(s[i]) /\ (i = n + 1) \in BOOLEAN
    BY <1>2
  <2>2. (\A b \in BOOLEAN : Left(s[i], b) \in Nat) /\ Unread(s[i]) \in Nat
    BY <2>1, FrameNumbers
  <2>3. LeftWaiting(s[i]) \in Nat
    BY <2>1, LeftNumbers
  <2> QED BY <2>1, <2>2, <2>3
<1>4. ASSUME NEW i \in 1 .. n
      PROVE  /\ below[i] \in Nat /\ below[i] = all[i]
             /\ first[i] \in Nat /\ first[i] = every[i]
  <2>1. i \in 1 .. n + 1 /\ (i = n + 1) = FALSE
    BY <1>1
  <2>2. all[i] = LeftWaiting(s[i]) /\ below[i] = LeftWaiting(s[i])
    BY <2>1 DEF LeftWaiting
  <2>3. every[i] = first[i]
    BY <2>1
  <2> QED BY <1>3, <2>1, <2>2, <2>3
<1>5. all[n + 1] = LeftTop(s[n + 1]) /\ every[n + 1] = Unread(s[n + 1])
  <2>1. (n + 1 = n + 1) = TRUE
    OBVIOUS
  <2> QED BY <1>1, <2>1 DEF LeftTop
<1> HIDE DEF all, below, every, first
<1>6. Total(below, n) = Total(all, n) /\ Total(below, n) \in Nat
  BY <1>4, TotalSame, TotalFacts
<1>7. Total(first, n) = Total(every, n) /\ Total(first, n) \in Nat
  BY <1>4, TotalSame, TotalFacts
<1>8. /\ Total(all, n + 1) = Total(all, n) + all[n + 1]
      /\ Total(every, n + 1) = Total(every, n) + every[n + 1]
  <2>1. \A i \in 1 .. n + 1 : all[i] \in Nat /\ every[i] \in Nat
    BY <1>3
  <2>2. /\ Total(all, n + 1) = Total(all, (n + 1) - 1) + all[n + 1]
        /\ Total(every, n + 1) = Total(every, (n + 1) - 1) + every[n + 1]
    BY <1>1, <2>1, TotalFacts
  <2> QED BY <1>1, <2>2
<1>9. /\ LeftIn(s) = Total(all, n + 1) /\ LeftBelow(s, n) = Total(below, n)
      /\ UnreadIn(s, n) = Total(first, n) /\ UnreadIn(s, n + 1) = Total(every, n + 1)
  BY DEF LeftIn, LeftBelow, UnreadIn, all, below, every, first
<1> QED BY <1>1, <1>2, <1>5, <1>6, <1>7, <1>8, <1>9

(* Calls that wait count one after the other.                              *)
LEMMA BelowNumbers ==
  ASSUME NEW s, NEW n \in Nat, \A i \in 1 .. n + 1 : Feeds(s[i])
  PROVE  /\ LeftBelow(s, n) \in Nat /\ UnreadIn(s, n) \in Nat
         /\ LeftBelow(s, n + 1) = LeftBelow(s, n) + LeftWaiting(s[n + 1])
         /\ UnreadIn(s, n + 1) = UnreadIn(s, n) + Unread(s[n + 1])
<1> DEFINE below(k) == [i \in 1 .. k |-> LeftWaiting(s[i])]
           first(k) == [i \in 1 .. k |-> Unread(s[i])]
<1>1. /\ n + 1 \in 1 .. n + 1 /\ n + 1 \in Nat /\ n + 1 # 0 /\ (n + 1) - 1 = n
      /\ \A i \in 1 .. n : i \in 1 .. n + 1
  OBVIOUS
<1>2. ASSUME NEW i \in 1 .. n + 1
      PROVE  LeftWaiting(s[i]) \in Nat /\ Unread(s[i]) \in Nat
  BY LeftNumbers
<1>3. \A i \in 1 .. n + 1 : below(n + 1)[i] \in Nat /\ first(n + 1)[i] \in Nat
  BY <1>2
<1>4. \A i \in 1 .. n : /\ below(n)[i] \in Nat /\ below(n)[i] = below(n + 1)[i]
                        /\ first(n)[i] \in Nat /\ first(n)[i] = first(n + 1)[i]
  BY <1>1, <1>2
<1>5. below(n + 1)[n + 1] = LeftWaiting(s[n + 1]) /\ first(n + 1)[n + 1] = Unread(s[n + 1])
  BY <1>1
<1>6. /\ LeftBelow(s, n) = Total(below(n), n) /\ LeftBelow(s, n + 1) = Total(below(n + 1), n + 1)
      /\ UnreadIn(s, n) = Total(first(n), n) /\ UnreadIn(s, n + 1) = Total(first(n + 1), n + 1)
  BY DEF LeftBelow, UnreadIn
<1> HIDE DEF below, first
<1>7. /\ Total(below(n), n) = Total(below(n + 1), n) /\ Total(below(n), n) \in Nat
      /\ Total(first(n), n) = Total(first(n + 1), n) /\ Total(first(n), n) \in Nat
  BY <1>4, TotalSame, TotalFacts
<1>8. /\ Total(below(n + 1), n + 1) = Total(below(n + 1), (n + 1) - 1) + below(n + 1)[n + 1]
      /\ Total(first(n + 1), n + 1) = Total(first(n + 1), (n + 1) - 1) + first(n + 1)[n + 1]
  BY <1>1, <1>3, TotalFacts
<1> QED BY <1>1, <1>5, <1>6, <1>7, <1>8

(* Calls that both stacks have.                                            *)
LEMMA SharedNumbers ==
  ASSUME NEW s, NEW t, NEW n \in Nat, \A i \in 1 .. n : Feeds(s[i]) /\ t[i] = s[i]
  PROVE  LeftBelow(t, n) = LeftBelow(s, n) /\ UnreadIn(t, n) = UnreadIn(s, n)
<1>1. [i \in 1 .. n |-> LeftWaiting(t[i])] = [i \in 1 .. n |-> LeftWaiting(s[i])]
  OBVIOUS
<1>2. [i \in 1 .. n |-> Unread(t[i])] = [i \in 1 .. n |-> Unread(s[i])]
  OBVIOUS
<1> QED BY <1>1, <1>2, Zenon DEF LeftBelow, UnreadIn

(* There is less to do for the calls t than for s, and what they have yet  *)
(* to read is less by what was read.                                       *)
Nearer(s, t, read) ==
  Fed(t) /\ LeftIn(t) < LeftIn(s) /\ UnreadIn(t, Len(t)) + read <= UnreadIn(s, Len(s))

(* All calls end.                                                          *)
LEMMA NearerNone ==
  ASSUME NEW s, Fed(s), s # <<>>, NEW read \in Nat, read <= Unread(s[Len(s)])
  PROVE  Nearer(s, <<>>, read)
<1> DEFINE n == Len(s) - 1
<1>1. n \in Nat /\ Len(s) = n + 1
  BY SequenceLength DEF Fed
<1> HIDE DEF n
<1>2. /\ Feeds(s[n + 1]) /\ LeftBelow(s, n) \in Nat /\ UnreadIn(s, n) \in Nat
      /\ LeftIn(s) = LeftBelow(s, n) + LeftTop(s[n + 1])
      /\ UnreadIn(s, n + 1) = UnreadIn(s, n) + Unread(s[n + 1])
  BY <1>1, StackNumbers
<1>3. LeftTop(s[n + 1]) \in Nat /\ LeftTop(s[n + 1]) >= 1 /\ Unread(s[n + 1]) \in Nat
  BY <1>2, LeftNumbers
<1>4. IsSequence(<<>>) /\ Len(<<>>) = 0
  BY DEF IsSequence, Elements
<1>5. LeftIn(<<>>) = 0 /\ UnreadIn(<<>>, 0) = 0
  BY <1>4, TotalFacts DEF LeftIn, UnreadIn
<1>6. Fed(<<>>)
  BY <1>4 DEF Fed
<1>7. LeftIn(<<>>) < LeftIn(s)
  BY <1>2, <1>3, <1>5
<1>8. UnreadIn(<<>>, Len(<<>>)) + read <= UnreadIn(s, Len(s))
  BY <1>1, <1>2, <1>3, <1>4, <1>5
<1> QED BY <1>6, <1>7, <1>8 DEF Nearer

(* The innermost call goes on as g.                                        *)
LEMMA NearerReplaced ==
  ASSUME NEW s, Fed(s), s # <<>>, NEW g, Feeds(g), NEW read \in Nat,
         LeftTop(g) < LeftTop(s[Len(s)]), Unread(g) + read <= Unread(s[Len(s)])
  PROVE  Nearer(s, [s EXCEPT ![Len(s)] = g], read)
<1> DEFINE n == Len(s) - 1
           t == [s EXCEPT ![Len(s)] = g]
<1>1. n \in Nat /\ Len(s) = n + 1 /\ IsSequence(s)
  BY SequenceLength DEF Fed
<1>2. Len(s) \in 1 .. Len(s)
  BY <1>1
<1>3. /\ IsSequence(t) /\ Len(t) = Len(s) /\ t[Len(s)] = g
      /\ \A i \in 1 .. Len(s) : i # Len(s) => t[i] = s[i]
  BY <1>1, ExceptLast
<1> HIDE DEF n, t
<1>4. \A i \in 1 .. n : Feeds(s[i]) /\ t[i] = s[i]
  BY <1>1, <1>3 DEF Fed
<1>5. Fed(t)
  BY <1>3 DEF Fed
<1>6. /\ Feeds(s[n + 1]) /\ LeftBelow(s, n) \in Nat /\ UnreadIn(s, n) \in Nat
      /\ LeftIn(s) = LeftBelow(s, n) + LeftTop(s[n + 1])
      /\ UnreadIn(s, n + 1) = UnreadIn(s, n) + Unread(s[n + 1])
  BY <1>1, StackNumbers
<1>7. /\ LeftIn(t) = LeftBelow(t, n) + LeftTop(t[n + 1])
      /\ UnreadIn(t, n + 1) = UnreadIn(t, n) + Unread(t[n + 1])
  BY <1>1, <1>3, <1>5, StackNumbers
<1>8. LeftBelow(t, n) = LeftBelow(s, n) /\ UnreadIn(t, n) = UnreadIn(s, n)
  BY <1>1, <1>4, SharedNumbers
<1>9. /\ LeftTop(g) \in Nat /\ LeftTop(s[n + 1]) \in Nat
      /\ Unread(g) \in Nat /\ Unread(s[n + 1]) \in Nat
  BY <1>6, LeftNumbers
<1>10. LeftIn(t) < LeftIn(s)
  BY <1>1, <1>3, <1>6, <1>7, <1>8, <1>9
<1>11. UnreadIn(t, n + 1) + read <= UnreadIn(s, n + 1)
  BY <1>1, <1>3, <1>6, <1>7, <1>8, <1>9
<1> QED BY <1>1, <1>3, <1>5, <1>10, <1>11 DEF Nearer, t

(* It goes on as f and calls g.                                            *)
LEMMA NearerCalled ==
  ASSUME NEW s, Fed(s), s # <<>>, NEW f, Feeds(f), NEW g, Feeds(g), NEW read \in Nat,
         LeftWaiting(f) + LeftTop(g) < LeftTop(s[Len(s)]),
         Unread(f) + Unread(g) + read <= Unread(s[Len(s)])
  PROVE  Nearer(s, Append([s EXCEPT ![Len(s)] = f], g), read)
<1> DEFINE n == Len(s) - 1
           r == [s EXCEPT ![Len(s)] = f]
           t == Append(r, g)
<1>1. n \in Nat /\ Len(s) = n + 1 /\ IsSequence(s)
  BY SequenceLength DEF Fed
<1>2. Len(s) \in 1 .. Len(s)
  BY <1>1
<1>3. /\ IsSequence(r) /\ Len(r) = Len(s) /\ r[Len(s)] = f
      /\ \A i \in 1 .. Len(s) : i # Len(s) => r[i] = s[i]
  BY <1>1, ExceptLast
<1> HIDE DEF n, r
<1>4. /\ IsSequence(t) /\ Len(t) = Len(s) + 1 /\ t[Len(s) + 1] = g
      /\ \A i \in 1 .. Len(s) : t[i] = r[i]
  BY <1>3, SequenceAppend
<1> HIDE DEF t
<1>5. \A i \in 1 .. n : Feeds(s[i]) /\ t[i] = s[i]
  BY <1>1, <1>3, <1>4 DEF Fed
<1>6. t[n + 1] = f /\ t[(n + 1) + 1] = g
  BY <1>1, <1>2, <1>3, <1>4
<1>7. Fed(t)
  <2>1. \A i \in 1 .. (n + 1) + 1 : i \in 1 .. n \/ i = n + 1 \/ i = (n + 1) + 1
    BY <1>1
  <2> QED BY <1>1, <1>4, <1>5, <1>6, <2>1 DEF Fed
<1>8. /\ Feeds(s[n + 1]) /\ LeftBelow(s, n) \in Nat /\ UnreadIn(s, n) \in Nat
      /\ LeftIn(s) = LeftBelow(s, n) + LeftTop(s[n + 1])
      /\ UnreadIn(s, n + 1) = UnreadIn(s, n) + Unread(s[n + 1])
  BY <1>1, StackNumbers
<1>9. /\ LeftIn(t) = LeftBelow(t, n + 1) + LeftTop(t[(n + 1) + 1])
      /\ UnreadIn(t, (n + 1) + 1) = UnreadIn(t, n + 1) + Unread(t[(n + 1) + 1])
  <2>1. n + 1 \in Nat
    BY <1>1
  <2> QED BY <1>1, <1>4, <1>7, <2>1, StackNumbers
<1>10. LeftBelow(t, n) = LeftBelow(s, n) /\ UnreadIn(t, n) = UnreadIn(s, n)
  BY <1>1, <1>5, SharedNumbers
<1>11. /\ LeftTop(g) \in Nat /\ LeftWaiting(f) \in Nat /\ LeftTop(s[n + 1]) \in Nat
       /\ Unread(g) \in Nat /\ Unread(f) \in Nat /\ Unread(s[n + 1]) \in Nat
  BY <1>8, LeftNumbers
<1>12. /\ LeftBelow(t, n + 1) = LeftBelow(t, n) + LeftWaiting(f)
       /\ UnreadIn(t, n + 1) = UnreadIn(t, n) + Unread(f)
  <2>1. \A i \in 1 .. n + 1 : i \in 1 .. n \/ i = n + 1
    BY <1>1
  <2>2. \A i \in 1 .. n + 1 : Feeds(t[i])
    BY <1>5, <1>6, <2>1
  <2> QED BY <1>1, <1>6, <2>2, BelowNumbers
<1>13. LeftIn(t) < LeftIn(s)
  <2>1. LeftIn(t) = LeftBelow(s, n) + LeftWaiting(f) + LeftTop(g)
    BY <1>6, <1>9, <1>10, <1>12
  <2>2. LeftWaiting(f) + LeftTop(g) < LeftTop(s[n + 1])
    BY <1>1
  <2>3. \A a, b, c, d \in Nat : b + c < d => a + b + c < a + d
    OBVIOUS
  <2> QED BY <1>8, <1>11, <2>1, <2>2, <2>3, SMTT(30)
<1>14. UnreadIn(t, (n + 1) + 1) + read <= UnreadIn(s, n + 1)
  <2>1. UnreadIn(t, (n + 1) + 1) = UnreadIn(s, n) + Unread(f) + Unread(g)
    BY <1>6, <1>9, <1>10, <1>12
  <2>2. Unread(f) + Unread(g) + read <= Unread(s[n + 1])
    BY <1>1
  <2> DEFINE a == UnreadIn(s, n)
             b == Unread(f)
             c == Unread(g)
             d == Unread(s[n + 1])
  <2>3. /\ a \in Nat /\ b \in Nat /\ c \in Nat /\ d \in Nat /\ b + c + read <= d
        /\ UnreadIn(t, (n + 1) + 1) = a + b + c /\ UnreadIn(s, n + 1) = a + d
    BY <1>8, <1>11, <2>1, <2>2
  <2> HIDE DEF a, b, c, d
  <2>4. a + b + c + read <= a + d
    BY <2>3
  <2> QED BY <2>3, <2>4
<1> QED BY <1>1, <1>4, <1>7, <1>13, <1>14 DEF Nearer, t, r

(* It returns to the call below it, which goes on as g.                    *)
LEMMA NearerReturned ==
  ASSUME NEW s, Fed(s), s # <<>>, NEW below, below # <<>>, IsSequence(below),
         Len(below) = Len(s) - 1, \A i \in 1 .. Len(s) - 1 : below[i] = s[i],
         NEW g, Feeds(g),
         LeftTop(g) <= LeftWaiting(below[Len(below)]), Unread(g) <= Unread(below[Len(below)])
  PROVE  Nearer(s, [below EXCEPT ![Len(below)] = g], 0)
<1> DEFINE n == Len(below) - 1
           m == Len(below)
           t == [below EXCEPT ![Len(below)] = g]
<1>1. IsSequence(s) /\ Len(s) \in Nat
  BY SequenceLength DEF Fed
<1>2. IsSequence(below) /\ m = Len(s) - 1 /\ \A i \in 1 .. Len(s) - 1 : below[i] = s[i]
  OBVIOUS
<1>3. n \in Nat /\ m = n + 1 /\ Len(s) = (n + 1) + 1
  BY <1>1, <1>2, SequenceLength
<1>4. m \in 1 .. m
  BY <1>3
<1>5. /\ IsSequence(t) /\ Len(t) = m /\ t[m] = g
      /\ \A i \in 1 .. m : i # m => t[i] = below[i]
  BY <1>2, ExceptLast
<1> HIDE DEF n, m, t
<1>6. \A i \in 1 .. m : Feeds(s[i]) /\ below[i] = s[i]
  BY <1>2, <1>3 DEF Fed
<1>7. \A i \in 1 .. n : Feeds(s[i]) /\ t[i] = s[i]
  BY <1>3, <1>5, <1>6
<1>8. Fed(t)
  BY <1>5, <1>6 DEF Fed
<1>9. /\ Feeds(s[(n + 1) + 1]) /\ LeftIn(s) = LeftBelow(s, n + 1) + LeftTop(s[(n + 1) + 1])
      /\ UnreadIn(s, (n + 1) + 1) = UnreadIn(s, n + 1) + Unread(s[(n + 1) + 1])
  <2>1. n + 1 \in Nat
    BY <1>3
  <2> QED BY <1>3, <2>1, StackNumbers
<1>10. /\ LeftBelow(s, n) \in Nat /\ UnreadIn(s, n) \in Nat
       /\ LeftBelow(s, n + 1) = LeftBelow(s, n) + LeftWaiting(s[n + 1])
       /\ UnreadIn(s, n + 1) = UnreadIn(s, n) + Unread(s[n + 1])
  BY <1>3, <1>6, BelowNumbers
<1>11. /\ LeftIn(t) = LeftBelow(t, n) + LeftTop(t[n + 1])
       /\ UnreadIn(t, n + 1) = UnreadIn(t, n) + Unread(t[n + 1])
  BY <1>3, <1>5, <1>8, StackNumbers
<1>12. LeftBelow(t, n) = LeftBelow(s, n) /\ UnreadIn(t, n) = UnreadIn(s, n)
  BY <1>3, <1>7, SharedNumbers
<1>13. below[m] = s[n + 1] /\ Feeds(s[n + 1]) /\ t[n + 1] = g
  BY <1>3, <1>4, <1>5, <1>6
<1>14. /\ LeftTop(g) \in Nat /\ LeftWaiting(s[n + 1]) \in Nat
       /\ Unread(g) \in Nat /\ Unread(s[n + 1]) \in Nat
       /\ LeftTop(s[(n + 1) + 1]) \in Nat /\ LeftTop(s[(n + 1) + 1]) >= 1
       /\ Unread(s[(n + 1) + 1]) \in Nat
  BY <1>9, <1>13, LeftNumbers
<1>15. LeftTop(g) <= LeftWaiting(s[n + 1]) /\ Unread(g) <= Unread(s[n + 1])
  BY <1>13 DEF m
<1>16. LeftIn(t) < LeftIn(s)
  <2>1. LeftIn(s) = LeftBelow(s, n) + LeftWaiting(s[n + 1]) + LeftTop(s[(n + 1) + 1])
    BY <1>9, <1>10
  <2>2. LeftIn(t) = LeftBelow(s, n) + LeftTop(g)
    BY <1>11, <1>12, <1>13
  <2>3. \A a, b, c, d \in Nat : b <= c /\ d >= 1 => a + b < a + c + d
    OBVIOUS
  <2> QED BY <1>10, <1>14, <1>15, <2>1, <2>2, <2>3
<1>17. UnreadIn(t, n + 1) + 0 <= UnreadIn(s, (n + 1) + 1)
  <2>1. UnreadIn(s, (n + 1) + 1) = UnreadIn(s, n) + Unread(s[n + 1]) + Unread(s[(n + 1) + 1])
    BY <1>9, <1>10
  <2>2. UnreadIn(t, n + 1) = UnreadIn(s, n) + Unread(g)
    BY <1>11, <1>12, <1>13
  <2>3. \A a, b, c, d \in Nat : b <= c => (a + b) + 0 <= a + c + d
    OBVIOUS
  <2> QED BY <1>10, <1>14, <1>15, <2>1, <2>2, <2>3
<1> QED BY <1>3, <1>5, <1>8, <1>16, <1>17 DEF Nearer, t, m

-----------------------------------------------------------------------------
(***************************************************************************)
(* Steps.  The tokens read and those yet to be read are no more than the   *)
(* input has.                                                              *)
(***************************************************************************)
ProgressInv ==
  /\ DecodeInv
  /\ Fed(stack)
  /\ input \in TokenStrings
  /\ reads \in Nat
  /\ reads + UnreadIn(stack, Len(stack)) <= Size[input]

(* A step reads tokens that were yet to be read, and leaves less to do.    *)
Progresses ==
  \E read \in Nat : reads' = reads + read /\ Nearer(stack, stack', read)

(* Such a step keeps the invariant.                                        *)
LEMMA ProgressKeeps ==
  ASSUME ProgressInv, DecodeInv', input' = input, Progresses
  PROVE  ProgressInv' /\ WorkLeft' < WorkLeft
<1>1. PICK read \in Nat : reads' = reads + read /\ Nearer(stack, stack', read)
  BY DEF Progresses
<1>2. Fed(stack') /\ LeftIn(stack') < LeftIn(stack)
  BY <1>1 DEF Nearer
<1>3. UnreadIn(stack', Len(stack')) + read <= UnreadIn(stack, Len(stack))
  BY <1>1 DEF Nearer
<1>4. WorkLeft = LeftIn(stack) /\ WorkLeft' = LeftIn(stack')
  BY DEF WorkLeft, LeftIn
<1>5. UnreadIn(stack, Len(stack)) \in Nat /\ UnreadIn(stack', Len(stack')) \in Nat
  BY <1>2, UnreadNumber DEF ProgressInv
<1>6. Size[input] \in Nat
  BY SizeFacts DEF ProgressInv
<1>7. reads' \in Nat /\ reads' + UnreadIn(stack', Len(stack')) <= Size[input]
  BY <1>1, <1>3, <1>5, <1>6 DEF ProgressInv
<1> QED BY <1>2, <1>4, <1>7 DEF ProgressInv

(* What holds of the call that is reading.                                 *)
LEMMA TopNumbers ==
  ASSUME ProgressInv, stack # <<>>
  PROVE  /\ Fed(stack) /\ Top = stack[Len(stack)] /\ reads \in Nat
         /\ Shape(Top) /\ Feeds(Top)
<1>1. Fed(stack) /\ DecodeInv /\ reads \in Nat
  BY DEF ProgressInv
<1>2. Len(stack) \in 1 .. Len(stack)
  BY <1>1, SequenceLength DEF Fed
<1>3. Shape(Top)
  BY <1>1, TopInv DEF FrameInv
<1> QED BY <1>1, <1>2, <1>3 DEF Top, Fed

(* An exception is raised.                                                 *)
LEMMA FailProgresses ==
  ASSUME ProgressInv, stack # <<>>, Fail,
         NEW read \in Nat, reads' = reads + read, read <= Unread(Top)
  PROVE  Progresses
<1>1. stack' = <<>>
  BY DEF Fail
<1>2. Nearer(stack, <<>>, read)
  BY TopNumbers, NearerNone
<1> QED BY <1>1, <1>2 DEF Progresses

(* The call that is reading goes on.                                       *)
LEMMA ContinueProgresses ==
  ASSUME ProgressInv, stack # <<>>, NEW g, Feeds(g), Continue(g),
         NEW read \in Nat, reads' = reads + read,
         LeftTop(g) < LeftTop(Top), Unread(g) + read <= Unread(Top)
  PROVE  Progresses
<1>1. stack' = [stack EXCEPT ![Len(stack)] = g]
  BY DEF Continue, Replace
<1>2. Top = stack[Len(stack)] /\ Fed(stack)
  BY TopNumbers
<1>3. Nearer(stack, [stack EXCEPT ![Len(stack)] = g], read)
  BY <1>2, NearerReplaced
<1> QED BY <1>1, <1>3 DEF Progresses

(* It calls another one.                                                   *)
LEMMA CallProgresses ==
  ASSUME ProgressInv, stack # <<>>, NEW f, Feeds(f), NEW g, Feeds(g),
         stack' = Append([stack EXCEPT ![Len(stack)] = f], g),
         NEW read \in Nat, reads' = reads + read,
         LeftWaiting(f) + LeftTop(g) < LeftTop(Top), Unread(f) + Unread(g) + read <= Unread(Top)
  PROVE  Progresses
<1>1. Top = stack[Len(stack)] /\ Fed(stack)
  BY TopNumbers
<1>2. Nearer(stack, Append([stack EXCEPT ![Len(stack)] = f], g), read)
  BY <1>1, NearerCalled
<1> QED BY <1>2 DEF Progresses

(* A payload is read, after n tokens.                                      *)
LEMMA PayloadProgresses ==
  ASSUME ProgressInv, stack # <<>>, NEW f, Shape(f), Feeds(f), NEW value,
         NEW tokens \in TokenStrings, NEW at, NEW n \in Nat,
         LeftWaiting(f) + 1 + 4 * Size[tokens] < LeftTop(Top),
         Unread(f) + Size[tokens] + n <= Unread(Top),
         ReadPayload(f, value, tokens, at), reads' = reads + n + Pairs(value, tokens)
  PROVE  Progresses
<1> DEFINE read == n + Pairs(value, tokens)
<1>1. Size[tokens] \in Nat /\ Len(tokens) \in Nat /\ Len(tokens) <= Size[tokens]
  BY SizeFacts
<1>2. Pairs(value, tokens) \in Nat /\ Pairs(value, tokens) <= Size[tokens]
  BY <1>1 DEF Pairs
<1>3. LeftWaiting(f) \in Nat /\ Unread(f) \in Nat
  BY LeftNumbers
<1>4. LeftTop(Top) \in Nat /\ Unread(Top) \in Nat /\ reads \in Nat
  BY TopNumbers, LeftNumbers
<1>5. read \in Nat /\ reads' = reads + read
  BY <1>2, <1>4
<1>6. Unread(f) + read <= Unread(Top)
  <2>1. \A a, b, c, d, e \in Nat : c <= b /\ a + b + d <= e => a + (d + c) <= e
    OBVIOUS
  <2> QED BY <1>1, <1>2, <1>3, <1>4, <2>1
<1>7. value # "pair" => read = n
  BY DEF Pairs
<1> HIDE DEF read
<1>8. CASE Fail
  <2>1. read <= Unread(Top)
    BY <1>3, <1>4, <1>5, <1>6
  <2> QED BY <1>5, <1>8, <2>1, FailProgresses
<1>9. CASE Continue(Delivered(f, at, PairOf(tokens)))
  <2> DEFINE v == PairOf(tokens)
             g == Delivered(f, at, v)
  <2>1. v # Absent
    <3>1. DOMAIN v = {"seconds", "nanos"} /\ DOMAIN Absent = {"absent"}
      BY DEF PairOf, Pair, Absent
    <3> QED BY <3>1
  <2> HIDE DEF v
  <2>2. Feeds(g) /\ Unread(g) = Unread(f) /\ Left(g, TRUE) = Left(f, FALSE)
    BY <2>1, DeliveredNumbers
  <2> HIDE DEF g
  <2>3. LeftTop(g) = LeftWaiting(f)
    BY <2>2, Zenon DEF LeftTop, LeftWaiting
  <2>4. LeftTop(g) < LeftTop(Top)
    <3>1. \A a, b, c \in Nat : a + 1 + 4 * b < c => a < c
      OBVIOUS
    <3> QED BY <1>1, <1>3, <1>4, <2>3, <3>1
  <2>5. Continue(g)
    BY <1>9 DEF g, v
  <2> QED BY <1>5, <1>6, <2>2, <2>4, <2>5, ContinueProgresses
<1>10. CASE /\ value # "pair"
            /\ stack' = Append([stack EXCEPT ![Len(stack)] = f],
                               MessageFrame(value, tokens, f.depth + 1, at))
  <2> DEFINE g == MessageFrame(value, tokens, f.depth + 1, at)
  <2>1. Feeds(g) /\ Unread(g) = Size[tokens] /\ \A b \in BOOLEAN : Left(g, b) = 1 + 4 * Size[tokens]
    BY NewNumbers
  <2>2. stack' = Append([stack EXCEPT ![Len(stack)] = f], g)
    BY <1>10
  <2> HIDE DEF g
  <2>3. LeftTop(g) = 1 + 4 * Size[tokens]
    BY <2>1, Zenon DEF LeftTop
  <2>4. LeftWaiting(f) + LeftTop(g) < LeftTop(Top)
    <3>1. \A a, b, c \in Nat : a + 1 + 4 * b < c => a + (1 + 4 * b) < c
      OBVIOUS
    <3> QED BY <1>1, <1>3, <1>4, <2>3, <3>1
  <2>5. Unread(f) + Unread(g) + n <= Unread(Top)
    BY <1>1, <1>3, <2>1
  <2>6. reads' = reads + n
    BY <1>5, <1>7, <1>10
  <2> QED BY <2>1, <2>2, <2>4, <2>5, <2>6, CallProgresses
<1>11. \/ Fail \/ Continue(Delivered(f, at, PairOf(tokens)))
       \/ /\ value # "pair"
          /\ stack' = Append([stack EXCEPT ![Len(stack)] = f],
                             MessageFrame(value, tokens, f.depth + 1, at))
  BY DEF ReadPayload
<1> QED BY <1>8, <1>9, <1>10, <1>11

(* A token has been read.                                                  *)
LEMMA AdvancedNumbers ==
  ASSUME ProgressInv, stack # <<>>, Reading
  PROVE  /\ Shape(Advanced) /\ Feeds(Advanced) /\ Advanced.call = Top.call
         /\ Token.payload \in TokenStrings /\ Size[Token.payload] \in Nat
         /\ LeftTop(Top) = LeftTop(Advanced) + 4 + 4 * Size[Token.payload]
         /\ LeftWaiting(Advanced) <= LeftTop(Advanced)
         /\ Unread(Top) = Unread(Advanced) + 1 + Size[Token.payload]
<1> DEFINE p == Head(Top.data).payload
           f == [Top EXCEPT !.data = Tail(@)]
<1>1. Shape(Top) /\ Feeds(Top) /\ Top.data # <<>>
  BY TopNumbers DEF Reading
<1>2. /\ Feeds(f) /\ f.call = Top.call
      /\ p \in TokenStrings /\ Size[p] \in Nat
      /\ \A b \in BOOLEAN : Left(Top, b) = Left(f, b) + 4 + 4 * Size[p]
      /\ Unread(Top) = Unread(f) + 1 + Size[p]
  BY <1>1, AdvanceNumbers
<1>3. f = Advanced /\ p = Token.payload
  BY DEF Advanced, Token
<1>4. Shape(f)
  BY <1>1, DataKeeps
<1> HIDE DEF f, p
<1>5. LeftTop(Top) = LeftTop(f) + 4 + 4 * Size[p]
  BY <1>2, Zenon DEF LeftTop
<1>6. LeftWaiting(f) <= LeftTop(f)
  BY <1>2, WaitingNumbers
<1> QED BY <1>2, <1>3, <1>4, <1>5, <1>6

(* The call that is reading goes on, with a token read and no more to do   *)
(* than that.                                                              *)
LEMMA ReadProgresses ==
  ASSUME ProgressInv, stack # <<>>, Reading, reads' = reads + 1,
         NEW g, Feeds(g), Continue(g),
         LeftTop(g) <= LeftTop(Advanced), Unread(g) <= Unread(Advanced)
  PROVE  Progresses
<1>1. /\ Feeds(Advanced) /\ Size[Token.payload] \in Nat
      /\ LeftTop(Top) = LeftTop(Advanced) + 4 + 4 * Size[Token.payload]
      /\ Unread(Top) = Unread(Advanced) + 1 + Size[Token.payload]
  BY AdvancedNumbers
<1>2. /\ LeftTop(Advanced) \in Nat /\ Unread(Advanced) \in Nat
      /\ LeftTop(g) \in Nat /\ Unread(g) \in Nat
  BY <1>1, LeftNumbers
<1>3. LeftTop(g) < LeftTop(Top)
  BY <1>1, <1>2
<1>4. Unread(g) + 1 <= Unread(Top)
  BY <1>1, <1>2
<1> QED BY <1>3, <1>4, ContinueProgresses

(* A token is read, and an exception is raised.                            *)
LEMMA RefuseProgresses ==
  ASSUME ProgressInv, stack # <<>>, Reading, reads' = reads + 1, Fail
  PROVE  Progresses
<1>1. /\ Feeds(Advanced) /\ Size[Token.payload] \in Nat
      /\ Unread(Top) = Unread(Advanced) + 1 + Size[Token.payload]
  BY AdvancedNumbers
<1>2. Unread(Advanced) \in Nat
  BY <1>1, LeftNumbers
<1>3. 1 <= Unread(Top)
  BY <1>1, <1>2
<1> QED BY <1>3, FailProgresses

(* A value differs from the mark of a field that was not read.             *)
LEMMA NotAbsent ==
  /\ \A n : Number(n) # Absent
  /\ \A m, slots : DictOf(m, slots) # Absent
<1>1. DOMAIN Absent = {"absent"}
  BY DEF Absent
<1>2. ASSUME NEW n PROVE Number(n) # Absent
  <2>1. DOMAIN Number(n) = {"number"}
    BY DEF Number
  <2> QED BY <1>1, <2>1
<1>3. ASSUME NEW m, NEW slots PROVE DictOf(m, slots) # Absent
  <2>1. DOMAIN DictOf(m, slots) = {"dict"}
    BY DEF DictOf, Dict
  <2> QED BY <1>1, <2>1
<1> QED BY <1>2, <1>3

(* Slots do not count.                                                     *)
LEMMA SetNumbers ==
  ASSUME NEW f, Shape(f), Feeds(f), f.call = "message", NEW i, NEW v
  PROVE  LET g == Set(f, i, v)
         IN  /\ Feeds(g) /\ g.call = "message" /\ Unread(g) = Unread(f)
             /\ LeftTop(g) = LeftTop(f) /\ LeftTop(g) = LeftWaiting(f)
<1> DEFINE g == Set(f, i, v)
<1>1. g.call = "message" /\ g.data = f.data /\ g.pending = f.pending
  BY DEF Set, Shape, MessageShape, EntryShape
<1> HIDE DEF g
<1>2. /\ Feeds(g) /\ Unread(g) = Unread(f)
      /\ \A b \in BOOLEAN : Left(g, b) = Left(f, b)
      /\ Left(g, TRUE) = Left(f, FALSE)
  BY <1>1, SameNumbers
<1>3. LeftTop(g) = LeftTop(f) /\ LeftTop(g) = LeftWaiting(f)
  BY <1>2, Zenon DEF LeftTop, LeftWaiting
<1> QED BY <1>1, <1>2, <1>3 DEF g

(* Clearing a oneof leaves no more to do.                                  *)
LEMMA ClearedNumbers ==
  ASSUME NEW f, Shape(f), Feeds(f), f.call = "message", NEW i
  PROVE  LET g == ClearOneof(f, i)
         IN  Feeds(g) /\ Unread(g) <= Unread(f) /\ LeftTop(g) <= LeftTop(f)
<1>1. \A b \in BOOLEAN : Left(ClearOneof(f, i), b) <= Left(f, b)
  BY ClearNumbers
<1>2. LeftTop(ClearOneof(f, i)) <= LeftTop(f)
  BY <1>1, Zenon DEF LeftTop
<1> QED BY <1>2, ClearNumbers

(* A message field is at its token.                                        *)
LEMMA AtFieldNumbers ==
  ASSUME ProgressInv, AtField
  PROVE  /\ stack # <<>> /\ Reading /\ Top.call = "message" /\ Advanced.call = "message"
         /\ Shape(Advanced) /\ Feeds(Advanced)
         /\ LeftTop(Advanced) \in Nat /\ LeftWaiting(Advanced) \in Nat /\ Unread(Advanced) \in Nat
         /\ Token.payload \in TokenStrings /\ Size[Token.payload] \in Nat
         /\ LeftTop(Top) = LeftTop(Advanced) + 4 + 4 * Size[Token.payload]
         /\ LeftWaiting(Advanced) = LeftTop(Advanced)
         /\ Unread(Top) = Unread(Advanced) + 1 + Size[Token.payload]
<1>1. stack # <<>> /\ Reading /\ Top.call = "message"
  BY DEF AtField, InMessage
<1> QED BY <1>1, AdvancedNumbers, WaitingNumbers, LeftNumbers

(* A field is set, once its token is read, and its oneof cleared.          *)
LEMMA SetProgresses ==
  ASSUME ProgressInv, AtField, NEW v, reads' = reads + 1,
         \/ Continue(Set(Advanced, Index, v))
         \/ Continue(ClearOneof(Set(Advanced, Index, v), Index))
  PROVE  Progresses
<1> DEFINE f == Advanced
           g == Set(f, Index, v)
           h == ClearOneof(g, Index)
<1>1. /\ stack # <<>> /\ Reading /\ f.call = "message" /\ Shape(f) /\ Feeds(f)
      /\ LeftTop(f) \in Nat /\ Unread(f) \in Nat
  BY AtFieldNumbers
<1>2. Index \in 1 .. Len(Plan[f.of])
  BY AtFieldFacts DEF ProgressInv
<1> HIDE DEF f
<1>3. Feeds(g) /\ g.call = "message" /\ Unread(g) = Unread(f) /\ LeftTop(g) = LeftTop(f)
  BY <1>1, SetNumbers
<1>4. Shape(g)
  BY <1>1, <1>2, SetKeeps
<1> HIDE DEF g
<1>5. Feeds(h) /\ Unread(h) <= Unread(g) /\ LeftTop(h) <= LeftTop(g)
  BY <1>3, <1>4, ClearedNumbers
<1> HIDE DEF h
<1>6. CASE Continue(g)
  <2>1. LeftTop(g) <= LeftTop(f) /\ Unread(g) <= Unread(f)
    BY <1>1, <1>3
  <2> QED BY <1>1, <1>3, <1>6, <2>1, ReadProgresses DEF f
<1>7. CASE Continue(h)
  <2>1. LeftTop(h) <= LeftTop(f) /\ Unread(h) <= Unread(f)
    BY <1>3, <1>5
  <2> QED BY <1>1, <1>5, <1>7, <2>1, ReadProgresses DEF f
<1> QED BY <1>6, <1>7 DEF f, g, h

(* A message field waits with its payload, which was yet to be read and    *)
(* still is.                                                               *)
LEMMA PostponeProgresses == ASSUME ProgressInv, Postpone PROVE Progresses
<1> DEFINE f == Advanced
           p == Token.payload
           g == [f EXCEPT !.pending = Pend(f.pending, Index, p)]
           h == ClearOneof(g, Index)
<1>1. AtField /\ Field.kind = "single" /\ IsMessage(Field.value) /\ reads' = reads + 1
  BY DEF Postpone, Read
<1>2. /\ stack # <<>> /\ Reading /\ f.call = "message" /\ Shape(f) /\ Feeds(f)
      /\ LeftTop(f) \in Nat /\ Unread(f) \in Nat
      /\ p \in TokenStrings /\ Size[p] \in Nat
      /\ LeftTop(Top) = LeftTop(f) + 4 + 4 * Size[p]
      /\ Unread(Top) = Unread(f) + 1 + Size[p]
  BY <1>1, AtFieldNumbers
<1>3. /\ f.of = Top.of /\ Index \in 1 .. Len(Plan[f.of]) /\ Field = Plan[f.of][Index]
  BY <1>1, AtFieldFacts DEF ProgressInv
<1>4. Continue(h)
  <2>1. DOMAIN f = {"call", "of", "data", "depth", "at", "slots", "pending"}
    BY <1>2 DEF Shape, MessageShape, EntryShape
  <2> HIDE DEF f
  <2>2. [f EXCEPT !.pending = Pend(@, Index, p)] = g
    BY <2>1
  <2>3. Continue(ClearOneof([f EXCEPT !.pending = Pend(@, Index, p)], Index))
    BY DEF Postpone, f
  <2> QED BY <2>2, <2>3
<1>5. Index \in Singular(f.of) /\ IsMessage(Plan[f.of][Index].value)
  BY <1>1, <1>3 DEF Singular
<1> HIDE DEF f, p
<1>6. /\ Feeds(g) /\ g.call = "message" /\ Unread(g) <= Unread(f) + Size[p]
      /\ \A b \in BOOLEAN : Left(g, b) <= Left(f, b) + 2 + 4 * Size[p]
  BY <1>2, PendNumbers
<1>7. Shape(g)
  BY <1>2, <1>5, PendKeeps
<1> HIDE DEF g
<1>8. LeftTop(g) <= LeftTop(f) + 2 + 4 * Size[p]
  BY <1>6, Zenon DEF LeftTop
<1>9. Feeds(h) /\ Unread(h) <= Unread(g) /\ LeftTop(h) <= LeftTop(g)
  BY <1>6, <1>7, ClearedNumbers
<1> HIDE DEF h
<1>10. LeftTop(g) \in Nat /\ Unread(g) \in Nat /\ LeftTop(h) \in Nat /\ Unread(h) \in Nat
  BY <1>6, <1>9, LeftNumbers
<1>11. LeftTop(h) < LeftTop(Top)
  <2>1. \A a, b, c, d \in Nat : a <= b /\ b <= c + 2 + 4 * d => a < c + 4 + 4 * d
    OBVIOUS
  <2> QED BY <1>2, <1>8, <1>9, <1>10, <2>1
<1>12. Unread(h) + 1 <= Unread(Top)
  BY <1>2, <1>6, <1>9, <1>10, SMTT(30)
<1> QED BY <1>1, <1>2, <1>4, <1>9, <1>11, <1>12, ContinueProgresses

(* A payload is read for the field of a token.                             *)
LEMMA TokenPayloadProgresses ==
  ASSUME ProgressInv, stack # <<>>, Reading, NEW value, NEW at,
         ReadPayload(Advanced, value, Token.payload, at),
         reads' = reads + 1 + Pairs(value, Token.payload)
  PROVE  Progresses
<1> DEFINE f == Advanced
           p == Token.payload
<1>1. /\ Shape(f) /\ Feeds(f) /\ p \in TokenStrings /\ Size[p] \in Nat
      /\ LeftTop(Top) = LeftTop(f) + 4 + 4 * Size[p]
      /\ LeftWaiting(f) <= LeftTop(f)
      /\ Unread(Top) = Unread(f) + 1 + Size[p]
  BY AdvancedNumbers
<1> HIDE DEF f, p
<1>2. LeftTop(f) \in Nat /\ LeftWaiting(f) \in Nat /\ Unread(f) \in Nat
  BY <1>1, LeftNumbers
<1>3. LeftWaiting(f) + 1 + 4 * Size[p] < LeftTop(Top)
  <2>1. \A a, b, c \in Nat : a <= b => a + 1 + 4 * c < b + 4 + 4 * c
    OBVIOUS
  <2> QED BY <1>1, <1>2, <2>1
<1>4. Unread(f) + Size[p] + 1 <= Unread(Top)
  BY <1>1, <1>2
<1>5. 1 \in Nat
  OBVIOUS
<1> QED BY <1>1, <1>3, <1>4, <1>5, PayloadProgresses DEF f, p

(* A map entry is decoded by a call of its own.                            *)
LEMMA ReadEntryProgresses == ASSUME ProgressInv, ReadEntry PROVE Progresses
<1> DEFINE f == Advanced
           p == Token.payload
           g == EntryFrame(Field, p, Top.depth, Index)
<1>1. AtField /\ stack' = Append([stack EXCEPT ![Len(stack)] = f], g) /\ reads' = reads + 1
  BY DEF ReadEntry, Read
<1>2. /\ stack # <<>> /\ Feeds(f) /\ p \in TokenStrings /\ Size[p] \in Nat
      /\ LeftTop(f) \in Nat /\ Unread(f) \in Nat
      /\ LeftTop(Top) = LeftTop(f) + 4 + 4 * Size[p]
      /\ LeftWaiting(f) = LeftTop(f)
      /\ Unread(Top) = Unread(f) + 1 + Size[p]
  BY <1>1, AtFieldNumbers
<1> HIDE DEF f, p
<1>3. Feeds(g) /\ Unread(g) = Size[p] /\ Left(g, TRUE) = 3 + 4 * Size[p]
  BY <1>2, NewNumbers
<1> HIDE DEF g
<1>4. LeftTop(g) = 3 + 4 * Size[p]
  BY <1>3, Zenon DEF LeftTop
<1>5. LeftWaiting(f) + LeftTop(g) < LeftTop(Top)
  <2>1. \A a, c \in Nat : a + (3 + 4 * c) < a + 4 + 4 * c
    OBVIOUS
  <2> QED BY <1>2, <1>4, <2>1
<1>6. Unread(f) + Unread(g) + 1 <= Unread(Top)
  BY <1>2, <1>3
<1>7. 1 \in Nat
  OBVIOUS
<1> QED BY <1>1, <1>2, <1>3, <1>5, <1>6, <1>7, CallProgresses

(* A value for an entry is the last thing it has to get.                   *)
LEMMA ValueNumbers ==
  ASSUME NEW f, EntryShape(f), Feeds(f), NEW v, v # Absent
  PROVE  LET g == [f EXCEPT !.value = v]
         IN  Feeds(g) /\ Unread(g) = Unread(f) /\ LeftTop(g) = LeftWaiting(f)
<1> DEFINE g == [f EXCEPT !.value = v]
<1>1. g.call = "entry" /\ f.call = "entry" /\ g.data = f.data /\ g.value = v
  BY DEF EntryShape
<1> HIDE DEF g
<1>2. Feeds(g) /\ Unread(g) = Unread(f) /\ Left(g, TRUE) = Left(f, FALSE)
  BY <1>1, SameNumbers
<1>3. LeftTop(g) = LeftWaiting(f)
  BY <1>2, Zenon DEF LeftTop, LeftWaiting
<1> QED BY <1>2, <1>3 DEF g

(* An entry is at a token.                                                 *)
LEMMA EntryNumbers ==
  ASSUME ProgressInv, InEntry
  PROVE  /\ stack # <<>> /\ Shape(Top) /\ EntryShape(Top) /\ Feeds(Top)
         /\ Reading => /\ EntryShape(Advanced) /\ Feeds(Advanced)
                       /\ LeftWaiting(Advanced) <= LeftTop(Advanced)
                       /\ LeftTop(Advanced) \in Nat /\ Unread(Advanced) \in Nat
<1>1. stack # <<>> /\ Top.call = "entry"
  BY DEF InEntry
<1>2. Shape(Top) /\ Feeds(Top)
  BY <1>1, TopNumbers
<1>3. EntryShape(Top)
  BY <1>1, <1>2 DEF Shape, MessageShape
<1>4. ASSUME Reading
      PROVE  /\ EntryShape(Advanced) /\ Feeds(Advanced)
             /\ LeftWaiting(Advanced) <= LeftTop(Advanced)
             /\ LeftTop(Advanced) \in Nat /\ Unread(Advanced) \in Nat
  <2>1. /\ Shape(Advanced) /\ Feeds(Advanced) /\ Advanced.call = "entry"
        /\ LeftWaiting(Advanced) <= LeftTop(Advanced)
    BY <1>1, <1>4, AdvancedNumbers
  <2>2. EntryShape(Advanced)
    BY <2>1 DEF Shape, MessageShape
  <2> QED BY <2>1, <2>2, LeftNumbers
<1> QED BY <1>1, <1>2, <1>3, <1>4

(* An entry skips a token.                                                 *)
LEMMA SkipInEntryProgresses == ASSUME ProgressInv, SkipInEntry PROVE Progresses
<1>1. InEntry /\ Reading /\ Continue(Advanced) /\ reads' = reads + 1
  BY DEF SkipInEntry, Read
<1>2. /\ stack # <<>> /\ Feeds(Advanced)
      /\ LeftTop(Advanced) \in Nat /\ Unread(Advanced) \in Nat
  BY <1>1, EntryNumbers
<1>3. LeftTop(Advanced) <= LeftTop(Advanced) /\ Unread(Advanced) <= Unread(Advanced)
  BY <1>2
<1> QED BY <1>1, <1>2, <1>3, ReadProgresses

(* It reads its key.                                                       *)
LEMMA ReadKeyProgresses == ASSUME ProgressInv, ReadKey PROVE Progresses
<1> DEFINE f == Advanced
           g == [f EXCEPT !.key = Number(Token.value)]
<1>1. InEntry /\ Reading /\ reads' = reads + 1 /\ (Continue(g) \/ Fail)
  BY DEF ReadKey, AtEntryField, Read
<1>2. stack # <<>> /\ EntryShape(f) /\ Feeds(f) /\ LeftTop(f) \in Nat /\ Unread(f) \in Nat
  BY <1>1, EntryNumbers
<1> HIDE DEF f
<1>3. g.call = "entry" /\ f.call = "entry" /\ g.data = f.data /\ g.value = f.value
  BY <1>2 DEF EntryShape
<1> HIDE DEF g
<1>4. Feeds(g) /\ Unread(g) = Unread(f) /\ \A b \in BOOLEAN : Left(g, b) = Left(f, b)
  BY <1>2, <1>3, SameNumbers
<1>5. LeftTop(g) = LeftTop(f)
  BY <1>4, Zenon DEF LeftTop
<1>6. LeftTop(g) <= LeftTop(f) /\ Unread(g) <= Unread(f)
  BY <1>2, <1>4, <1>5
<1>7. CASE Fail
  BY <1>1, <1>2, <1>7, RefuseProgresses
<1>8. CASE Continue(g)
  BY <1>1, <1>2, <1>4, <1>6, <1>8, ReadProgresses DEF f
<1> QED BY <1>1, <1>7, <1>8

(* It reads a scalar value.                                                *)
LEMMA ReadEntryScalarProgresses == ASSUME ProgressInv, ReadEntryScalar PROVE Progresses
<1> DEFINE f == Advanced
           v == Number(Token.value)
           g == [f EXCEPT !.value = v]
<1>1. InEntry /\ Reading /\ reads' = reads + 1 /\ (Continue(g) \/ Fail)
  BY DEF ReadEntryScalar, AtEntryField, Read
<1>2. /\ stack # <<>> /\ EntryShape(f) /\ Feeds(f)
      /\ LeftWaiting(f) <= LeftTop(f) /\ LeftTop(f) \in Nat /\ Unread(f) \in Nat
  BY <1>1, EntryNumbers
<1>3. v # Absent
  BY NotAbsent
<1> HIDE DEF f, v
<1>4. Feeds(g) /\ Unread(g) = Unread(f) /\ LeftTop(g) = LeftWaiting(f)
  BY <1>2, <1>3, ValueNumbers
<1> HIDE DEF g
<1>5. LeftTop(g) <= LeftTop(f) /\ Unread(g) <= Unread(f)
  BY <1>2, <1>4
<1>6. CASE Fail
  BY <1>1, <1>2, <1>6, RefuseProgresses
<1>7. CASE Continue(g)
  BY <1>1, <1>2, <1>4, <1>5, <1>7, ReadProgresses DEF f
<1> QED BY <1>1, <1>6, <1>7

(* It decodes a message, or refuses a token that holds none.               *)
LEMMA ReadEntryMessageProgresses == ASSUME ProgressInv, ReadEntryMessage PROVE Progresses
<1> DEFINE p == Token.payload
           value == Top.of.value
<1>1. /\ InEntry /\ Reading /\ reads' = reads + 1 + Pairs(value, p)
      /\ ReadPayload(Advanced, value, p, 2) \/ Fail
  BY DEF ReadEntryMessage, AtEntryField
<1>2. stack # <<>>
  BY <1>1 DEF InEntry
<1>3. CASE ReadPayload(Advanced, value, p, 2)
  BY <1>1, <1>2, <1>3, TokenPayloadProgresses
<1>4. CASE Fail
  <2>1. /\ Feeds(Advanced) /\ p \in TokenStrings /\ Size[p] \in Nat
        /\ Unread(Top) = Unread(Advanced) + 1 + Size[p]
    BY <1>1, <1>2, AdvancedNumbers
  <2>2. Len(p) \in Nat /\ Len(p) <= Size[p]
    BY <2>1, SizeFacts
  <2> HIDE DEF p, value
  <2>3. Pairs(value, p) \in Nat /\ Pairs(value, p) <= Size[p]
    BY <2>1, <2>2 DEF Pairs
  <2>4. Unread(Advanced) \in Nat /\ reads \in Nat
    BY <2>1, LeftNumbers DEF ProgressInv
  <2> DEFINE read == 1 + Pairs(value, p)
  <2>5. read \in Nat /\ reads' = reads + read
    BY <1>1, <2>3, <2>4
  <2>6. read <= Unread(Top)
    BY <2>1, <2>3, <2>4
  <2> HIDE DEF read
  <2> QED BY <1>2, <1>4, <2>5, <2>6, FailProgresses
<1> QED BY <1>1, <1>3, <1>4

(* It has no value: the default one is made.                               *)
LEMMA DefaultProgresses == ASSUME ProgressInv, DefaultEntryValue PROVE Progresses
<1> DEFINE f == Top
           value == Top.of.value
           v == Number(0)
           g == [f EXCEPT !.value = v]
<1>1. /\ InEntry /\ f.value = Absent /\ reads' = reads
      /\ ReadPayload(f, value, <<>>, 2) \/ Continue(g)
  BY DEF DefaultEntryValue
<1>2. stack # <<>> /\ Shape(f) /\ EntryShape(f) /\ Feeds(f)
  BY <1>1, EntryNumbers
<1>3. v # Absent
  BY NotAbsent
<1>4. reads \in Nat
  BY DEF ProgressInv
<1> HIDE DEF f, v
<1>5. f.call # "message"
  BY <1>2 DEF EntryShape
<1>6. LeftTop(f) = LeftWaiting(f) + 2
  BY <1>1, <1>2, <1>5, WaitingNumbers
<1>7. LeftWaiting(f) \in Nat /\ LeftTop(f) \in Nat /\ Unread(f) \in Nat
  BY <1>2, LeftNumbers
<1>8. CASE ReadPayload(f, value, <<>>, 2)
  <2> DEFINE none == <<>>
  <2>1. none \in TokenStrings /\ Size[none] = 0 /\ Len(none) = 0
    BY SizeFacts
  <2>2. Pairs(value, none) = 0
    BY <2>1 DEF Pairs
  <2>3. ReadPayload(f, value, none, 2)
    BY <1>8
  <2> HIDE DEF none, value
  <2>4. LeftWaiting(f) + 1 + 4 * Size[none] < LeftTop(f)
    BY <1>6, <1>7, <2>1
  <2>5. Unread(f) + Size[none] + 0 <= Unread(f)
    BY <1>7, <2>1
  <2>6. reads' = reads + 0 + Pairs(value, none) /\ 0 \in Nat
    BY <1>1, <1>4, <2>2
  <2> QED BY <1>2, <2>1, <2>3, <2>4, <2>5, <2>6, PayloadProgresses DEF f
<1>9. CASE Continue(g)
  <2>1. Feeds(g) /\ Unread(g) = Unread(f) /\ LeftTop(g) = LeftWaiting(f)
    BY <1>2, <1>3, ValueNumbers
  <2> HIDE DEF g
  <2>2. LeftTop(g) < LeftTop(f) /\ Unread(g) + 0 <= Unread(f)
    BY <1>6, <1>7, <2>1
  <2>3. reads' = reads + 0 /\ 0 \in Nat
    BY <1>1, <1>4
  <2> QED BY <1>2, <1>9, <2>1, <2>2, <2>3, ContinueProgresses DEF f
<1> QED BY <1>1, <1>8, <1>9

(* A call returns to the one below it.                                     *)
LEMMA ReturnProgresses ==
  ASSUME ProgressInv, stack # <<>>, reads' = reads,
         NEW below, below = SubSeq(stack, 1, Len(stack) - 1), below # <<>>,
         NEW g, Feeds(g), stack' = [below EXCEPT ![Len(below)] = g],
         LeftTop(g) <= LeftWaiting(below[Len(below)]), Unread(g) <= Unread(below[Len(below)])
  PROVE  Progresses
<1>1. Fed(stack) /\ reads \in Nat
  BY DEF ProgressInv
<1>2. /\ IsSequence(below) /\ Len(below) = Len(stack) - 1
      /\ \A i \in 1 .. Len(stack) - 1 : below[i] = stack[i]
  BY <1>1, SequenceFront DEF Fed
<1>3. Nearer(stack, [below EXCEPT ![Len(below)] = g], 0)
  BY <1>1, <1>2, NearerReturned
<1>4. reads' = reads + 0 /\ 0 \in Nat
  BY <1>1
<1>5. Nearer(stack, stack', 0)
  BY <1>3
<1> QED BY <1>4, <1>5 DEF Progresses

(* The call below the innermost one.                                       *)
LEMMA CallerNumbers ==
  ASSUME ProgressInv, stack # <<>>,
         NEW below, below = SubSeq(stack, 1, Len(stack) - 1), below # <<>>
  PROVE  LET caller == below[Len(below)]
         IN  /\ Calls(caller, Top) /\ Shape(caller) /\ Feeds(caller)
             /\ LeftWaiting(caller) \in Nat /\ Unread(caller) \in Nat
<1> DEFINE caller == below[Len(below)]
<1>1. Fed(stack) /\ StackInv(stack) /\ Top = stack[Len(stack)]
  BY DEF ProgressInv, DecodeInv, Top
<1>2. /\ IsSequence(below) /\ Len(below) = Len(stack) - 1
      /\ \A i \in 1 .. Len(stack) - 1 : below[i] = stack[i]
  BY <1>1, SequenceFront DEF Fed
<1>3. /\ Len(below) \in 1 .. Len(stack) - 1 /\ Len(below) \in 1 .. Len(stack)
      /\ Len(below) + 1 = Len(stack)
  BY <1>1, <1>2, SequenceLength DEF Fed
<1>4. caller = stack[Len(below)]
  BY <1>2, <1>3
<1>5. Calls(caller, Top) /\ FrameInv(caller)
  BY <1>1, <1>3, <1>4 DEF StackInv
<1>6. Feeds(caller)
  BY <1>1, <1>3, <1>4 DEF Fed
<1> HIDE DEF caller
<1>7. LeftWaiting(caller) \in Nat /\ Unread(caller) \in Nat
  BY <1>6, LeftNumbers
<1> QED BY <1>5, <1>6, <1>7 DEF FrameInv, caller

(* An entry is stored in its map.                                          *)
LEMMA FinishEntryProgresses == ASSUME ProgressInv, FinishEntry PROVE Progresses
<1> DEFINE below == SubSeq(stack, 1, Len(stack) - 1)
           caller == below[Len(below)]
<1>1. /\ stack # <<>> /\ Top.call = "entry" /\ reads' = reads
      /\ \E v : stack' = [below EXCEPT ![Len(below)] = Set(caller, Top.at, v)]
  BY DEF FinishEntry, InEntry
<1>2. PICK v : stack' = [below EXCEPT ![Len(below)] = Set(caller, Top.at, v)]
  BY <1>1
<1>3. StackInv(stack) /\ IsSequence(stack) /\ Top = stack[Len(stack)]
  BY DEF ProgressInv, DecodeInv, StackInv, Top
<1>4. below # <<>>
  <2>1. Len(stack) \in Nat /\ Len(stack) # 0
    BY <1>1, <1>3, SequenceLength
  <2>2. Len(stack) # 1
    BY <1>1, <1>3 DEF StackInv
  <2>3. IsSequence(below) /\ Len(below) = Len(stack) - 1
    BY <1>1, <1>3, SequenceFront
  <2> HIDE DEF below
  <2>4. Len(below) # 0
    BY <2>1, <2>2, <2>3
  <2> QED BY <2>3, <2>4, SequenceLength
<1> HIDE DEF below
<1>5. /\ Calls(caller, Top) /\ Shape(caller) /\ Feeds(caller)
      /\ LeftWaiting(caller) \in Nat /\ Unread(caller) \in Nat
  BY <1>1, <1>4, CallerNumbers DEF below
<1>6. caller.call = "message"
  BY <1>1, <1>5 DEF Calls
<1> DEFINE g == Set(caller, Top.at, v)
<1>7. /\ Feeds(g) /\ Unread(g) = Unread(caller) /\ LeftTop(g) = LeftWaiting(caller)
  <2> HIDE DEF caller
  <2> QED BY <1>5, <1>6, SetNumbers
<1>8. stack' = [below EXCEPT ![Len(below)] = g]
  BY <1>2
<1> HIDE DEF g
<1>9. LeftTop(g) <= LeftWaiting(caller) /\ Unread(g) <= Unread(caller)
  BY <1>5, <1>7
<1> QED BY <1>1, <1>4, <1>7, <1>8, <1>9, ReturnProgresses DEF below

(* A message is returned.                                                  *)
LEMMA FinishMessageProgresses == ASSUME ProgressInv, FinishMessage PROVE Progresses
<1> DEFINE below == SubSeq(stack, 1, Len(stack) - 1)
           caller == below[Len(below)]
           v == DictOf(Top.of, Top.slots)
<1>1. /\ stack # <<>> /\ reads' = reads
      /\ \/ stack' = <<>>
         \/ below # <<>> /\ stack' = [below EXCEPT ![Len(below)] = Delivered(@, Top.at, v)]
  BY DEF FinishMessage, InMessage
<1>2. v # Absent
  BY NotAbsent
<1>3. CASE stack' = <<>>
  <2>1. Fed(stack) /\ Top = stack[Len(stack)] /\ reads \in Nat /\ Feeds(Top)
    BY <1>1, TopNumbers
  <2>2. 0 \in Nat /\ 0 <= Unread(stack[Len(stack)]) /\ reads' = reads + 0
    BY <1>1, <2>1, LeftNumbers
  <2>3. Nearer(stack, <<>>, 0)
    BY <1>1, <2>1, <2>2, NearerNone
  <2> QED BY <1>3, <2>2, <2>3 DEF Progresses
<1>4. CASE below # <<>> /\ stack' = [below EXCEPT ![Len(below)] = Delivered(@, Top.at, v)]
  <2> DEFINE g == Delivered(caller, Top.at, v)
  <2>1. /\ Shape(caller) /\ Feeds(caller)
        /\ LeftWaiting(caller) \in Nat /\ Unread(caller) \in Nat
    <3> HIDE DEF v
    <3> QED BY <1>1, <1>4, CallerNumbers
  <2>2. Feeds(g) /\ Unread(g) = Unread(caller) /\ Left(g, TRUE) = Left(caller, FALSE)
    <3> HIDE DEF caller, v
    <3> QED BY <1>2, <2>1, DeliveredNumbers
  <2>3. stack' = [below EXCEPT ![Len(below)] = g]
    <3>1. IsSequence(stack)
      BY DEF ProgressInv, Fed
    <3>2. IsSequence(below)
      BY <1>1, <3>1, SequenceFront
    <3>3. Len(below) \in DOMAIN below
      BY <1>4, <3>2, SequenceLength
    <3> HIDE DEF below, v
    <3> QED BY <1>4, <3>3
  <2> HIDE DEF g
  <2>4. LeftTop(g) = LeftWaiting(caller)
    BY <2>2, Zenon DEF LeftTop, LeftWaiting
  <2>5. LeftTop(g) <= LeftWaiting(caller) /\ Unread(g) <= Unread(caller)
    <3> HIDE DEF caller, v
    <3> QED BY <2>1, <2>2, <2>4
  <2> HIDE DEF v
  <2>6. below # <<>>
    BY <1>4
  <2> HIDE DEF below
  <2> QED BY <1>1, <2>2, <2>3, <2>5, <2>6, ReturnProgresses DEF below
<1> QED BY <1>1, <1>3, <1>4

(* A payload that waited is taken and decoded.                             *)
LEMMA DecodePendingProgresses == ASSUME ProgressInv, DecodePending PROVE Progresses
<1> DEFINE g == [Top EXCEPT !.pending = Tail(@)]
           p == Head(Top.pending)
           value == Fields[p.field].value
           tokens == p.tokens
           at == p.field
<1>1. /\ stack # <<>> /\ Top.call = "message" /\ Top.pending # <<>>
      /\ ReadPayload(g, value, tokens, at) /\ reads' = reads + Pairs(value, tokens)
  BY DEF DecodePending, InMessage
<1>2. Shape(Top) /\ Feeds(Top) /\ reads \in Nat
  BY <1>1, TopNumbers
<1>3. /\ Feeds(g) /\ tokens \in TokenStrings /\ Size[tokens] \in Nat
      /\ Unread(Top) = Unread(g) + Size[tokens]
      /\ \A b \in BOOLEAN : Left(Top, b) = Left(g, b) + 2 + 4 * Size[tokens]
      /\ g.call = "message"
  BY <1>1, <1>2, TakeNumbers
<1>4. Shape(g)
  BY <1>1, <1>2, TakeKeeps
<1>5. Len(tokens) \in Nat
  BY <1>3, SizeFacts
<1> HIDE DEF g, value, tokens, at
<1>6. LeftTop(Top) = LeftTop(g) + 2 + 4 * Size[tokens]
  BY <1>3, Zenon DEF LeftTop
<1>7. LeftTop(g) = LeftWaiting(g) /\ LeftTop(g) \in Nat /\ Unread(g) \in Nat
  BY <1>3, WaitingNumbers, LeftNumbers
<1>8. LeftWaiting(g) + 1 + 4 * Size[tokens] < LeftTop(Top)
  <2>1. \A a, c \in Nat : a + 1 + 4 * c < a + 2 + 4 * c
    OBVIOUS
  <2> QED BY <1>3, <1>6, <1>7, <2>1
<1>9. Unread(g) + Size[tokens] + 0 <= Unread(Top) /\ 0 \in Nat
  BY <1>3, <1>7
<1>10. reads' = reads + 0 + Pairs(value, tokens)
  BY <1>1, <1>2
<1> QED BY <1>1, <1>3, <1>4, <1>8, <1>9, <1>10, PayloadProgresses

(* Every step of the decoder progresses.                                   *)
LEMMA StepProgresses == ASSUME ProgressInv, Step PROVE Progresses
<1>1. CASE BadToken \/ RefuseField
  <2>1. stack # <<>> /\ Reading /\ Fail /\ reads' = reads + 1
    BY <1>1 DEF BadToken, RefuseField, AtField, InMessage, Read
  <2> QED BY <2>1, RefuseProgresses
<1>2. CASE SkipUnknown
  <2>1. stack # <<>> /\ Reading /\ Continue(Advanced) /\ reads' = reads + 1
    BY <1>2 DEF SkipUnknown, InMessage, Read
  <2>2. Feeds(Advanced)
    BY <2>1, AdvancedNumbers
  <2>3. LeftTop(Advanced) <= LeftTop(Advanced) /\ Unread(Advanced) <= Unread(Advanced)
    BY <2>2, LeftNumbers
  <2> QED BY <2>1, <2>2, <2>3, ReadProgresses
<1>3. CASE ReadSingle \/ ReadElement
  BY <1>3, SetProgresses DEF ReadSingle, ReadElement, Read
<1>4. CASE ReadPacked
  <2>1. AtField /\ reads' = reads + 1 /\ (Fail \/ \E v : Continue(Set(Advanced, Index, v)))
    BY <1>4 DEF ReadPacked, Read
  <2>2. stack # <<>> /\ Reading
    BY <2>1 DEF AtField, InMessage
  <2> QED BY <2>1, <2>2, SetProgresses, RefuseProgresses
<1>5. CASE ReadMessageElement
  <2>1. /\ AtField /\ reads' = reads + 1 + Pairs(Field.value, Token.payload)
        /\ ReadPayload(Advanced, Field.value, Token.payload, Index)
    BY <1>5 DEF ReadMessageElement
  <2>2. stack # <<>> /\ Reading
    BY <2>1 DEF AtField, InMessage
  <2> QED BY <2>1, <2>2, TokenPayloadProgresses
<1> QED BY <1>1, <1>2, <1>3, <1>4, <1>5, PostponeProgresses, ReadEntryProgresses,
     SkipInEntryProgresses, ReadKeyProgresses, ReadEntryScalarProgresses,
     ReadEntryMessageProgresses, DefaultProgresses, FinishEntryProgresses,
     DecodePendingProgresses, FinishMessageProgresses DEF Step

(* A step of the decoder keeps its input.                                  *)
LEMMA StepConstant == ASSUME Step PROVE UNCHANGED input
BY DEF Step, BadToken, SkipUnknown, Postpone, ReadSingle, ReadElement, ReadPacked, RefuseField,
   ReadMessageElement, ReadEntry, SkipInEntry, ReadKey, ReadEntryScalar, ReadEntryMessage,
   DefaultEntryValue, FinishEntry, DecodePending, FinishMessage, ReadPayload, Continue, Fail,
   Constant

(* The first call is yet to read the whole input.                          *)
LEMMA ProgressInit == ASSUME Init PROVE ProgressInv
<1> DEFINE g == MessageFrame(Root, input, 0, 0)
           s == <<g>>
<1>1. input \in TokenStrings /\ reads = 0 /\ stack = s
  BY InputsAssumption DEF Init
<1>2. DecodeInv
  BY <1>1, FirstCall DEF DecodeInv
<1>3. Feeds(g) /\ Unread(g) = Size[input]
  BY <1>1, NewNumbers
<1> HIDE DEF g
<1>4. Len(s) = 1 /\ s[1] = g /\ s \in Seq({g})
  OBVIOUS
<1>5. IsSequence(s)
  BY <1>4, SequenceOf
<1> HIDE DEF s
<1>6. Fed(s)
  <2>1. \A i \in 1 .. Len(s) : i = 1
    BY <1>4
  <2> QED BY <1>3, <1>4, <1>5, <2>1 DEF Fed
<1>7. UnreadIn(s, 1) = Size[input]
  <2>1. 0 \in Nat /\ Len(s) = 0 + 1
    BY <1>4
  <2>2. UnreadIn(s, 0 + 1) = UnreadIn(s, 0) + Unread(s[0 + 1])
    BY <1>6, <2>1, StackNumbers
  <2>3. UnreadIn(s, 0) = 0
    BY TotalFacts DEF UnreadIn
  <2>4. Size[input] \in Nat
    BY <1>1, SizeFacts
  <2> QED BY <1>3, <1>4, <2>2, <2>3, <2>4
<1>8. reads + UnreadIn(stack, Len(stack)) <= Size[input]
  <2>1. Size[input] \in Nat
    BY <1>1, SizeFacts
  <2> QED BY <1>1, <1>4, <1>7, <2>1
<1> QED BY <1>1, <1>2, <1>6, <1>8 DEF ProgressInv

(* In every state the tokens that were read and those that are yet to be,  *)
(* in the data of every call and in the payloads that wait, are no more    *)
(* than the input has.                                                     *)
THEOREM ProgressInvariance == Spec => []ProgressInv
<1>1. Init => ProgressInv
  BY ProgressInit
<1>2. ProgressInv /\ [Next]_vars => ProgressInv'
  <2> SUFFICES ASSUME ProgressInv, [Next]_vars PROVE ProgressInv'
    OBVIOUS
  <2>1. CASE Step
    <3>1. DecodeInv'
      BY <2>1, StepKeeps DEF ProgressInv, Next
    <3> QED BY <2>1, <3>1, StepConstant, StepProgresses, ProgressKeeps
  <2>2. CASE UNCHANGED vars
    BY <2>2 DEF vars, ProgressInv, DecodeInv
  <2> QED BY <2>1, <2>2 DEF Next, Terminated
<1> QED BY <1>1, <1>2, PTL DEF Spec

(* Whatever is nested in an input, in messages, map entries and default    *)
(* values, and however often its fields are repeated, each step of the     *)
(* decoder leaves less to do: no input makes it run for ever.              *)
THEOREM EachStepIsNearer == Spec => EachStepNearsTheEnd
<1>1. ProgressInv /\ [Next]_vars => [WorkLeft' < WorkLeft]_vars
  <2> SUFFICES ASSUME ProgressInv, [Next]_vars PROVE WorkLeft' < WorkLeft \/ UNCHANGED vars
    OBVIOUS
  <2>1. CASE Step
    <3>1. DecodeInv'
      BY <2>1, StepKeeps DEF ProgressInv, Next
    <3> QED BY <2>1, <3>1, StepConstant, StepProgresses, ProgressKeeps
  <2> QED BY <2>1 DEF Next, Terminated
<1> QED BY <1>1, ProgressInvariance, PTL DEF Spec, EachStepNearsTheEnd

(* No token is read twice, also of a field whose payloads are put together *)
(* as they repeat: clear_oneof and read_map_entry drop some, and none is   *)
(* added.                                                                  *)
THEOREM TokensAreReadOnce == Spec => []EachTokenReadOnce
<1>1. ASSUME ProgressInv PROVE EachTokenReadOnce
  <2>1. UnreadIn(stack, Len(stack)) \in Nat /\ Size[input] \in Nat
    BY <1>1, UnreadNumber, SizeFacts DEF ProgressInv
  <2> QED BY <1>1, <2>1 DEF ProgressInv, EachTokenReadOnce
<1> QED BY <1>1, ProgressInvariance, PTL
=============================================================================
