------------------------------- MODULE Lemmas -------------------------------
(***************************************************************************)
(* Lemmas the proofs of several components need: the quotient and the      *)
(* remainder of a division by a number that is not known, least elements,  *)
(* the sequences that Subsequences makes, induction over numbers for sets  *)
(* of them, and the recursive functions that this gives: what a loop       *)
(* leaves, what steps lead to, and numbers from their digits.              *)
(***************************************************************************)
EXTENDS Subsequences, Integers, FiniteSetTheorems, SequenceTheorems, NaturalsInduction,
        WellFoundedInduction, TLAPS

(* The division of Integers, for any divisor.                              *)
LEMMA DivMod == ASSUME NEW a \in Int, NEW b \in Int, b > 0
  PROVE /\ a \div b \in Int /\ a % b \in Int /\ 0 <= a % b /\ a % b < b /\ a = b * (a \div b) + (a % b)
  OBVIOUS

(* A multiple of b that is nearer to zero than b is zero.                  *)
LEMMA Small == ASSUME NEW a \in Int, NEW b \in Int, b > 0, a < b, a > -b
  PROVE a = 0 \/ ~ \E k \in Int : a = b * k
<1> SUFFICES ASSUME NEW k \in Int, a = b * k PROVE a = 0
  OBVIOUS
<1>1. CASE k >= 1
  <2>1. b * k >= b
    BY <1>1
  <2> QED BY <2>1
<1>2. CASE k <= -1
  <2>1. b * k <= -b
    BY <1>2
  <2> QED BY <2>1
<1>3. CASE k = 0 BY <1>3
<1> QED BY <1>1, <1>2, <1>3

(* A positive factor can be cancelled from zero.                           *)
LEMMA NoFactor == ASSUME NEW b \in Int, b > 0, NEW k \in Int, b * k = 0
  PROVE k = 0
<1>1. CASE k >= 1
  <2>1. b * k >= b
    BY <1>1
  <2> QED BY <2>1
<1>2. CASE k <= -1
  <2>1. b * k <= -b
    BY <1>2
  <2> QED BY <2>1
<1> QED BY <1>1, <1>2

(* a is q times b and a remainder.                                         *)
Division(a, b, q, r) ==
  a \in Int /\ b \in Int /\ b > 0 /\ q \in Int /\ r \in Int /\ 0 <= r /\ r < b /\ a = b * q + r

(* There is one such quotient and one such remainder.                      *)
LEMMA ModUnique == ASSUME NEW a, NEW b, NEW q, NEW r, Division(a, b, q, r)
  PROVE a % b = r /\ a \div b = q
<1>1. a \in Int /\ b \in Int /\ b > 0 /\ q \in Int /\ r \in Int /\ 0 <= r /\ r < b /\ a = b * q + r
  BY DEF Division
<1>2. PICK p \in Int, s \in Int : p = a \div b /\ s = a % b /\ 0 <= s /\ s < b /\ a = b * p + s
  BY <1>1, DivMod
<1>3. PICK k \in Int : k = p - q
  BY <1>1
<1>4. r - s = b * k
  <2>1. b * k = b * p - b * q
    BY <1>1, <1>3
  <2> QED BY <1>1, <1>2, <2>1
<1>5. r - s = 0
  <2>1. r - s \in Int /\ r - s < b /\ r - s > -b
    BY <1>1, <1>2
  <2> QED BY <1>1, <1>4, <2>1, Small
<1>6. k = 0
  BY <1>1, <1>4, <1>5, NoFactor
<1> QED BY <1>1, <1>2, <1>3, <1>5, <1>6

-----------------------------------------------------------------------------
(* A set of naturals that is not empty has a least element.                *)
LEMMA LeastElement ==
  ASSUME NEW T, T \subseteq Nat, T # {}
  PROVE  \E x \in T : \A y \in T : x <= y
<1> DEFINE R == {ss \in Nat \X Nat : ss[1] < ss[2]}
<1>1. IsWellFoundedOn(R, Nat)
  BY NatLessThanWellFounded, Zenon DEF OpToRel
<1>2. PICK x \in T : \A y \in T : ~(<<y, x>> \in R)
  <2> HIDE DEF R
  <2> QED BY <1>1, WFMin, Zenon
<1>3. ASSUME NEW y \in T PROVE x <= y
  <2>1. ~(<<y, x>> \in R)
    BY <1>2
  <2> QED BY <2>1
<1> QED BY <1>3

(* One that is bounded has a greatest.                                     *)
LEMMA GreatestElement ==
  ASSUME NEW n \in Nat, NEW T, T \subseteq 1 .. n, T # {}
  PROVE  \E x \in T : \A y \in T : y <= x
<1> DEFINE D == {n - x : x \in T}
<1>1. D \subseteq Nat /\ D # {}
  <2>1. \A x \in T : n - x \in Nat
    OBVIOUS
  <2>2. \A x \in T : n - x \in D
    OBVIOUS
  <2> QED BY <2>1, <2>2
<1>2. PICK d \in D : \A y \in D : d <= y
  <2> HIDE DEF D
  <2> QED BY <1>1, LeastElement
<1>3. PICK x \in T : d = n - x
  BY <1>2
<1>4. ASSUME NEW y \in T PROVE y <= x
  <2>1. n - y \in D
    OBVIOUS
  <2>2. n - x <= n - y
    BY <1>2, <1>3, <2>1
  <2>3. x \in Nat /\ y \in Nat
    OBVIOUS
  <2> HIDE DEF D
  <2> QED BY <2>2, <2>3
<1> QED BY <1>4

-----------------------------------------------------------------------------
(* The number of smaller numbers in I.                                     *)
Below(I, i) == Cardinality({j \in I : j < i})

(* Numbers of a set have ranks below its size, in their own order.         *)
LEMMA RankProperties ==
  ASSUME NEW I, I \subseteq Nat, IsFiniteSet(I)
  PROVE  /\ \A i \in I : Below(I, i) \in 0 .. Cardinality(I) - 1
         /\ \A i, j \in I : i < j => Below(I, i) < Below(I, j)
<1>1. ASSUME NEW i \in I
      PROVE  /\ IsFiniteSet({j \in I : j < i})
             /\ Below(I, i) \in Nat
             /\ Below(I, i) <= Cardinality(I) - 1
  <2>1. {j \in I : j < i} \subseteq I \ {i}
    OBVIOUS
  <2>2. IsFiniteSet(I \ {i}) /\ Cardinality(I \ {i}) = Cardinality(I) - 1
    BY FS_RemoveElement
  <2>3. IsFiniteSet({j \in I : j < i}) /\ Cardinality({j \in I : j < i}) <= Cardinality(I \ {i})
    BY <2>1, <2>2, FS_Subset
  <2> QED BY <2>2, <2>3, FS_CardinalityType DEF Below
<1>2. ASSUME NEW i \in I, NEW j \in I, i < j PROVE Below(I, i) < Below(I, j)
  <2> DEFINE A == {x \in I : x < i}
             B == {x \in I : x < j}
  <2>1. IsFiniteSet(A) /\ IsFiniteSet(B) /\ Cardinality(A) \in Nat /\ Cardinality(B) \in Nat
    BY <1>1, FS_CardinalityType
  <2>2. i \notin A /\ A \cup {i} \subseteq B
    <3>1. \A x \in I : x \in Nat
      OBVIOUS
    <3>2. ~(i < i) /\ \A x \in I : x < i => x < j
      BY <1>2, <3>1
    <3> QED BY <1>2, <3>2
  <2> HIDE DEF A, B
  <2>3. IsFiniteSet(A \cup {i}) /\ Cardinality(A \cup {i}) = Cardinality(A) + 1
    BY <2>1, <2>2, FS_AddElement
  <2>4. Cardinality(A \cup {i}) <= Cardinality(B)
    BY <2>1, <2>2, FS_Subset
  <2>5. Cardinality(A) < Cardinality(B)
    BY <2>1, <2>3, <2>4
  <2> QED BY <2>5 DEF Below, A, B
<1>3. Cardinality(I) \in Nat
  BY FS_CardinalityType
<1>4. ASSUME NEW i \in I PROVE Below(I, i) \in 0 .. Cardinality(I) - 1
  <2> DEFINE b == Below(I, i)
             n == Cardinality(I)
  <2>1. b \in Nat /\ b <= n - 1 /\ n \in Nat
    BY <1>1, <1>3
  <2> HIDE DEF b, n
  <2>2. b \in 0 .. n - 1
    BY <2>1
  <2> QED BY <2>2 DEF b, n
<1> QED BY <1>2, <1>4

(* The k-th smallest number of a finite set: there is one for each k, they *)
(* are in order, and they are all numbers of the set.                      *)
LEMMA NthProperties ==
  ASSUME NEW I, I \subseteq Nat, IsFiniteSet(I)
  PROVE  /\ \A k \in 1 .. Cardinality(I) : Nth(I, k) \in I
         /\ \A k, l \in 1 .. Cardinality(I) : k < l => Nth(I, k) < Nth(I, l)
         /\ \A i \in I : \E k \in 1 .. Cardinality(I) : Nth(I, k) = i
<1> DEFINE n == Cardinality(I)
           R == 0 .. n - 1
           rank == [i \in I |-> Below(I, i)]
<1>1. n \in Nat
  BY FS_CardinalityType
<1>2. /\ \A i \in I : Below(I, i) \in R
      /\ \A i, j \in I : i < j => Below(I, i) < Below(I, j)
  BY RankProperties
<1>3. \A i, j \in I : Below(I, i) = Below(I, j) => i = j
  <2> SUFFICES ASSUME NEW i \in I, NEW j \in I, Below(I, i) = Below(I, j) PROVE i = j
    OBVIOUS
  <2>1. ~(i < j) /\ ~(j < i)
    BY <1>2
  <2> QED BY <2>1
<1>4. rank \in Injection(I, R)
  BY <1>2, <1>3 DEF Injection, IsInjective
<1>5. IsFiniteSet(R) /\ Cardinality(R) = n
  <2>1. 0 \in Int /\ n - 1 \in Int
    BY <1>1
  <2> HIDE DEF n
  <2>2. IsFiniteSet(R) /\ Cardinality(R) = IF 0 > n - 1 THEN 0 ELSE (n - 1) - 0 + 1
    BY <2>1, FS_Interval
  <2> QED BY <1>1, <2>2
<1>6. rank \in Surjection(I, R)
  <2> HIDE DEF rank, R
  <2> QED BY <1>4, <1>5, FS_Injection
<1>7. \A r \in R : \E i \in I : Below(I, i) = r
  BY <1>6 DEF Surjection
<1>8. ASSUME NEW k \in 1 .. n PROVE Nth(I, k) \in I /\ Below(I, Nth(I, k)) = k - 1
  <2>1. k - 1 \in R
    BY <1>1
  <2>2. \E i \in I : Below(I, i) = k - 1
    BY <1>7, <2>1
  <2> QED BY <2>2 DEF Nth, Below
<1>9. ASSUME NEW k \in 1 .. n, NEW l \in 1 .. n, k < l PROVE Nth(I, k) < Nth(I, l)
  <2>1. Nth(I, k) \in Nat /\ Nth(I, l) \in Nat
    BY <1>8
  <2>2. Nth(I, l) \in I /\ Nth(I, k) \in I
    BY <1>8
  <2>3. Below(I, Nth(I, k)) = k - 1 /\ Below(I, Nth(I, l)) = l - 1
    BY <1>8
  <2>4. ~(Nth(I, l) < Nth(I, k)) /\ Nth(I, l) # Nth(I, k)
    <3>1. CASE Nth(I, l) < Nth(I, k)
      <4>1. Below(I, Nth(I, l)) < Below(I, Nth(I, k))
        BY <1>2, <2>2, <3>1
      <4>2. l - 1 < k - 1
        BY <2>3, <4>1
      <4> QED BY <1>1, <1>9, <4>2
    <3>2. CASE Nth(I, l) = Nth(I, k)
      <4>1. l - 1 = k - 1
        BY <2>3, <3>2, Zenon
      <4> QED BY <1>1, <1>9, <4>1
    <3> QED BY <3>1, <3>2
  <2> QED BY <2>1, <2>4
<1>10. ASSUME NEW i \in I PROVE \E k \in 1 .. n : Nth(I, k) = i
  <2>1. Below(I, i) + 1 \in 1 .. n /\ Below(I, i) = (Below(I, i) + 1) - 1
    BY <1>1, <1>2
  <2>2. Nth(I, Below(I, i) + 1) = i
    BY <1>3, <1>8, <2>1
  <2> QED BY <2>1, <2>2
<1> QED BY <1>8, <1>9, <1>10

(* A subsequence has the elements at the chosen positions, in their order. *)
LEMMA SubsequenceProperties ==
  ASSUME NEW S, NEW s \in Seq(S), NEW I \in SUBSET (1 .. Len(s))
  PROVE  /\ Subsequence(s, I) \in Seq(S)
         /\ Len(Subsequence(s, I)) = Cardinality(I)
         /\ \A k \in 1 .. Cardinality(I) : Nth(I, k) \in I /\ Subsequence(s, I)[k] = s[Nth(I, k)]
         /\ \A k, l \in 1 .. Cardinality(I) : k < l => Nth(I, k) < Nth(I, l)
         /\ \A i \in I : \E k \in 1 .. Cardinality(I) : Nth(I, k) = i
<1>1. IsFiniteSet(I) /\ I \subseteq Nat /\ Cardinality(I) \in Nat
  <2>1. Len(s) \in Nat
    BY LenProperties
  <2>2. IsFiniteSet(1 .. Len(s))
    BY <2>1, FS_Interval
  <2>3. IsFiniteSet(I)
    BY <2>2, FS_Subset
  <2>4. I \subseteq Nat
    OBVIOUS
  <2> QED BY <2>3, <2>4, FS_CardinalityType
<1>2. /\ \A k \in 1 .. Cardinality(I) : Nth(I, k) \in I
      /\ \A k, l \in 1 .. Cardinality(I) : k < l => Nth(I, k) < Nth(I, l)
      /\ \A i \in I : \E k \in 1 .. Cardinality(I) : Nth(I, k) = i
  BY <1>1, NthProperties
<1>3. \A k \in 1 .. Cardinality(I) : s[Nth(I, k)] \in S
  BY <1>2, ElementOfSeq
<1>4. Subsequence(s, I) \in [1 .. Cardinality(I) -> S]
  BY <1>3 DEF Subsequence
<1>5. Subsequence(s, I) \in Seq(S) /\ Len(Subsequence(s, I)) = Cardinality(I)
  BY <1>1, <1>4
<1> QED BY <1>2, <1>5 DEF Subsequence

-----------------------------------------------------------------------------
Elements(s) == {s[i] : i \in 1 .. Len(s)}

(* A sequence of anything.                                                 *)
IsSequence(s) == s \in Seq(Elements(s))

(* What is a sequence of some type is one of anything.                     *)
LEMMA SequenceOf == ASSUME NEW T, NEW s \in Seq(T)
  PROVE IsSequence(s)
<1>1. s \in [1 .. Len(s) -> Elements(s)] /\ Len(s) \in Nat
  BY DEF Elements
<1>2. s \in Seq(Elements(s))
  BY <1>1
<1> QED BY <1>2 DEF IsSequence

(* The length of such a sequence.                                          *)
LEMMA SequenceLength == ASSUME NEW s, IsSequence(s)
  PROVE Len(s) \in Nat /\ DOMAIN s = 1 .. Len(s) /\ (s = <<>> <=> Len(s) = 0)
<1>1. s \in Seq(Elements(s))
  BY DEF IsSequence
<1> QED BY <1>1, LenProperties, EmptySeq

(* One more element.                                                       *)
LEMMA SequenceAppend == ASSUME NEW s, IsSequence(s), NEW e
  PROVE /\ IsSequence(Append(s, e)) /\ Len(Append(s, e)) = Len(s) + 1
        /\ \A i \in 1 .. Len(s) : Append(s, e)[i] = s[i]
        /\ Append(s, e)[Len(s) + 1] = e
<1> DEFINE T == Elements(s) \cup {e}
           t == Append(s, e)
<1>1. s \in Seq(Elements(s))
  BY DEF IsSequence
<1>2. s \in Seq(T)
  BY <1>1, SeqMonotonic, Zenon
<1>3. e \in T
  OBVIOUS
<1> HIDE DEF T
<1>4. /\ t \in Seq(T) /\ Len(t) = Len(s) + 1
      /\ \A i \in 1 .. Len(s) : t[i] = s[i]
      /\ t[Len(s) + 1] = e
  BY <1>2, <1>3, AppendProperties
<1> HIDE DEF t
<1>5. IsSequence(t)
  BY <1>4, SequenceOf
<1> QED BY <1>4, <1>5 DEF t

(* Another element in place of one.                                        *)
LEMMA SequenceExcept == ASSUME NEW s, IsSequence(s), NEW n \in 1 .. Len(s), NEW e
  PROVE /\ IsSequence([s EXCEPT ![n] = e]) /\ Len([s EXCEPT ![n] = e]) = Len(s)
        /\ [s EXCEPT ![n] = e][n] = e
        /\ \A i \in 1 .. Len(s) : i # n => [s EXCEPT ![n] = e][i] = s[i]
<1> DEFINE T == Elements(s) \cup {e}
           t == [s EXCEPT ![n] = e]
<1>1. s \in Seq(Elements(s))
  BY DEF IsSequence
<1>2. s \in Seq(T)
  BY <1>1, SeqMonotonic, Zenon
<1>3. e \in T
  OBVIOUS
<1> HIDE DEF T
<1>4. t \in Seq(T) /\ Len(t) = Len(s)
  BY <1>2, <1>3, ExceptSeq
<1>5. t[n] = e /\ \A i \in 1 .. Len(s) : i # n => t[i] = s[i]
  BY <1>2, LenProperties
<1> HIDE DEF t
<1>6. IsSequence(t)
  BY <1>4, SequenceOf
<1> QED BY <1>4, <1>5, <1>6 DEF t

(* All elements but the last one.                                          *)
LEMMA SequenceFront == ASSUME NEW s, IsSequence(s), s # <<>>
  PROVE /\ IsSequence(SubSeq(s, 1, Len(s) - 1)) /\ Len(SubSeq(s, 1, Len(s) - 1)) = Len(s) - 1
        /\ \A i \in 1 .. Len(s) - 1 : SubSeq(s, 1, Len(s) - 1)[i] = s[i]
<1> DEFINE T == Elements(s)
           n == Len(s) - 1
           t == SubSeq(s, 1, n)
<1>1. s \in Seq(T)
  BY DEF IsSequence
<1>2. n \in Nat
  BY SequenceLength
<1>3. \A i \in 1 .. n : s[i] \in T
  BY <1>1, ElementOfSeq
<1> HIDE DEF T, n
<1>4. t \in Seq(T) /\ Len(t) = n /\ \A i \in 1 .. n : t[i] = s[i]
  BY <1>1, <1>2, <1>3, SubSeqProperties, SMT
<1> HIDE DEF t
<1>5. IsSequence(t)
  BY <1>4, SequenceOf
<1> QED BY <1>4, <1>5 DEF t, n

(* All elements but the first one.                                         *)
LEMMA SequenceTail == ASSUME NEW s, IsSequence(s), s # <<>>
  PROVE /\ IsSequence(Tail(s)) /\ Len(Tail(s)) = Len(s) - 1 /\ Head(s) = s[1]
        /\ \A i \in 1 .. Len(s) - 1 : Tail(s)[i] = s[i + 1]
<1> DEFINE T == Elements(s)
           t == Tail(s)
<1>1. s \in Seq(T)
  BY DEF IsSequence
<1> HIDE DEF T
<1>2. t \in Seq(T) /\ Len(t) = Len(s) - 1 /\ Head(s) = s[1]
      /\ \A i \in 1 .. Len(s) - 1 : t[i] = s[i + 1]
  BY <1>1, HeadTailProperties
<1> HIDE DEF t
<1>3. IsSequence(t)
  BY <1>2, SequenceOf
<1> QED BY <1>2, <1>3 DEF t

-----------------------------------------------------------------------------
(* Induction up to n, for a set of numbers.                                *)
LEMMA UpTo ==
  ASSUME NEW n \in Nat, NEW S, 0 \in S, \A i \in 1 .. n : i - 1 \in S => i \in S
  PROVE  \A i \in 0 .. n : i \in S
<1> DEFINE T == {i \in 0 .. n : i \notin S}
<1> SUFFICES ASSUME T # {} PROVE FALSE
  OBVIOUS
<1>1. T \subseteq Nat
  OBVIOUS
<1> HIDE DEF T
<1>2. PICK x \in T : \A y \in T : x <= y
  BY <1>1, LeastElement
<1>3. x \in 1 .. n /\ x \notin S
  BY <1>2 DEF T
<1>4. x - 1 \in 0 .. n /\ ~(x <= x - 1)
  BY <1>3
<1>5. x - 1 \in S
  BY <1>2, <1>4 DEF T
<1> QED BY <1>3, <1>5

(* A loop of k steps, each a function of its number and what the one       *)
(* before it left.                                                         *)
Runs(f, k, V, start, step) ==
  /\ f \in [0 .. k -> V]
  /\ f[0] = start
  /\ \A i \in 1 .. k : f[i] = step[<<i, f[i - 1]>>]

(* There is what it leaves after each step.                                *)
LEMMA Loop ==
  ASSUME NEW V, NEW n \in Nat, NEW start \in V, NEW step \in [(1 .. n) \X V -> V]
  PROVE  \E f : Runs(f, n, V, start, step)
<1> DEFINE S == {k \in 0 .. n : \E f : Runs(f, k, V, start, step)}
<1>1. 0 \in S
  <2> DEFINE f == [i \in 0 .. 0 |-> start]
  <2>1. f \in [0 .. 0 -> V] /\ f[0] = start
    OBVIOUS
  <2>2. 1 .. 0 = {}
    OBVIOUS
  <2>3. Runs(f, 0, V, start, step)
    BY <2>1, <2>2 DEF Runs
  <2> HIDE DEF f
  <2>4. \E g : Runs(g, 0, V, start, step)
    BY <2>3
  <2> QED BY <2>4
<1>2. ASSUME NEW k \in 1 .. n, k - 1 \in S PROVE k \in S
  <2>1. PICK f : Runs(f, k - 1, V, start, step)
    BY <1>2
  <2> DEFINE g == [i \in 0 .. k |-> IF i = k THEN step[<<k, f[k - 1]>>] ELSE f[i]]
  <2>2. f[k - 1] \in V
    BY <2>1 DEF Runs
  <2>3. step[<<k, f[k - 1]>>] \in V
    BY <2>2
  <2>4. \A i \in 0 .. k : i # k => i \in 0 .. k - 1
    OBVIOUS
  <2>5. g \in [0 .. k -> V]
    BY <2>1, <2>3, <2>4 DEF Runs
  <2>6. \A i \in 1 .. k : g[i] = step[<<i, g[i - 1]>>]
    <3>1. \A i \in 0 .. k - 1 : g[i] = f[i]
      OBVIOUS
    <3>2. g[k] = step[<<k, f[k - 1]>>]
      OBVIOUS
    <3> HIDE DEF g
    <3> SUFFICES ASSUME NEW i \in 1 .. k PROVE g[i] = step[<<i, g[i - 1]>>]
      OBVIOUS
    <3>3. g[i - 1] = f[i - 1]
      BY <3>1
    <3>4. CASE i = k
      BY <3>2, <3>3, <3>4
    <3>5. CASE i # k
      <4>1. i \in 1 .. k - 1
        BY <3>5
      <4>2. f[i] = step[<<i, f[i - 1]>>] /\ g[i] = f[i]
        BY <2>1, <3>1, <4>1 DEF Runs
      <4> QED BY <3>3, <4>2
    <3> QED BY <3>4, <3>5
  <2>7. g[0] = start
    BY <2>1 DEF Runs
  <2> HIDE DEF g
  <2>8. Runs(g, k, V, start, step)
    BY <2>5, <2>6, <2>7 DEF Runs
  <2>9. \E h : Runs(h, k, V, start, step)
    BY <2>8
  <2> QED BY <1>2, <2>9
<1> HIDE DEF S
<1>3. n \in S
  <2>1. \A i \in 0 .. n : i \in S
    BY <1>1, <1>2, UpTo
  <2> QED BY <2>1
<1> QED BY <1>3 DEF S

(* Induction downwards.                                                    *)
LEMMA DownTo ==
  ASSUME NEW n \in Nat, NEW S, n \in S, \A i \in 0 .. n - 1 : i + 1 \in S => i \in S
  PROVE  \A i \in 0 .. n : i \in S
<1> DEFINE T == {i \in 0 .. n : n - i \in S}
<1>1. 0 \in T
  OBVIOUS
<1>2. ASSUME NEW i \in 1 .. n, i - 1 \in T PROVE i \in T
  <2>1. n - i \in 0 .. n - 1 /\ (n - i) + 1 = n - (i - 1)
    OBVIOUS
  <2> QED BY <1>2, <2>1
<1> HIDE DEF T
<1>3. \A i \in 0 .. n : i \in T
  BY <1>1, <1>2, UpTo
<1>4. ASSUME NEW i \in 0 .. n PROVE i \in S
  <2>1. n - i \in T /\ n - (n - i) = i
    BY <1>3
  <2> QED BY <2>1 DEF T
<1> QED BY <1>4

(* f[i] is what is left after the steps n .. i + 1 of a loop downwards.    *)
RunsDown(f, n, V, start, step) ==
  /\ f \in [0 .. n -> V]
  /\ f[n] = start
  /\ \A i \in 0 .. n - 1 : f[i] = step[<<i + 1, f[i + 1]>>]

(* There is what such a loop leaves.                                       *)
LEMMA LoopDown ==
  ASSUME NEW V, NEW n \in Nat, NEW start \in V, NEW step \in [(1 .. n) \X V -> V]
  PROVE  \E f : RunsDown(f, n, V, start, step)
<1> DEFINE up == [x \in (1 .. n) \X V |-> step[<<n - x[1] + 1, x[2]>>]]
<1>1. ASSUME NEW m \in 1 .. n, NEW y \in V
      PROVE  <<m, y>> \in (1 .. n) \X V /\ up[<<m, y>>] = step[<<n - m + 1, y>>] /\ up[<<m, y>>] \in V
  <2>1. n - m + 1 \in 1 .. n
    OBVIOUS
  <2> QED BY <2>1
<1>2. up \in [(1 .. n) \X V -> V]
  <2>1. ASSUME NEW x \in (1 .. n) \X V PROVE up[x] \in V
    <3>1. PICK m \in 1 .. n, y \in V : x = <<m, y>>
      OBVIOUS
    <3> HIDE DEF up
    <3> QED BY <1>1, <3>1
  <2>2. up = [x \in (1 .. n) \X V |-> up[x]]
    OBVIOUS
  <2> HIDE DEF up
  <2> QED BY <2>1, <2>2
<1> HIDE DEF up
<1>3. PICK f : Runs(f, n, V, start, up)
  BY <1>2, Loop
<1>4. /\ f \in [0 .. n -> V] /\ f[0] = start
      /\ \A m \in 1 .. n : f[m] = up[<<m, f[m - 1]>>]
  BY <1>3 DEF Runs
<1> DEFINE g == [i \in 0 .. n |-> f[n - i]]
<1>5. g \in [0 .. n -> V] /\ g[n] = start
  <2>1. n - n = 0 /\ n \in 0 .. n /\ \A i \in 0 .. n : n - i \in 0 .. n
    OBVIOUS
  <2> QED BY <1>4, <2>1
<1>6. ASSUME NEW i \in 0 .. n - 1 PROVE g[i] = step[<<i + 1, g[i + 1]>>]
  <2> DEFINE m == n - i
  <2>1. m \in 1 .. n /\ m - 1 = n - (i + 1) /\ n - m + 1 = i + 1 /\ i + 1 \in 0 .. n /\ m - 1 \in 0 .. n
    OBVIOUS
  <2>2. g[i] = f[m] /\ g[i + 1] = f[m - 1]
    BY <2>1
  <2> HIDE DEF m, g
  <2>3. f[m] = up[<<m, f[m - 1]>>] /\ f[m - 1] \in V
    BY <1>4, <2>1
  <2>4. up[<<m, f[m - 1]>>] = step[<<n - m + 1, f[m - 1]>>]
    BY <1>1, <2>1, <2>3
  <2> QED BY <2>1, <2>2, <2>3, <2>4
<1> HIDE DEF g
<1>7. RunsDown(g, n, V, start, step)
  BY <1>5, <1>6 DEF RunsDown
<1> QED BY <1>7

-----------------------------------------------------------------------------
(* Steps of R lead upwards from i to n.                                    *)
Leads(R, n, i) ==
  \E C \in SUBSET (0 .. n) :
    i \in C /\ \A c \in C : c = n \/ \E j \in C : j > c /\ <<c, j>> \in R

(* This is so at n, and otherwise if there is a step to where it is so.    *)
LEMMA LeadsByStep ==
  ASSUME NEW R, NEW n \in Nat, NEW i \in 0 .. n
  PROVE  Leads(R, n, i) <=> (i = n \/ \E j \in i + 1 .. n : <<i, j>> \in R /\ Leads(R, n, j))
<1>1. ASSUME Leads(R, n, i), i # n
      PROVE  \E j \in i + 1 .. n : <<i, j>> \in R /\ Leads(R, n, j)
  <2>1. PICK C \in SUBSET (0 .. n) :
          i \in C /\ \A c \in C : c = n \/ \E j \in C : j > c /\ <<c, j>> \in R
    BY <1>1 DEF Leads
  <2>2. PICK j \in C : j > i /\ <<i, j>> \in R
    BY <1>1, <2>1
  <2>3. Leads(R, n, j)
    BY <2>1 DEF Leads
  <2>4. j \in i + 1 .. n
    BY <2>1, <2>2
  <2> QED BY <2>2, <2>3, <2>4
<1>2. ASSUME i = n PROVE Leads(R, n, i)
  <2>1. {i} \in SUBSET (0 .. n) /\ i \in {i} /\ \A c \in {i} : c = n
    BY <1>2
  <2> QED BY <2>1 DEF Leads
<1>3. ASSUME NEW j \in i + 1 .. n, <<i, j>> \in R, Leads(R, n, j)
      PROVE  Leads(R, n, i)
  <2>1. PICK C \in SUBSET (0 .. n) :
          j \in C /\ \A c \in C : c = n \/ \E l \in C : l > c /\ <<c, l>> \in R
    BY <1>3 DEF Leads
  <2>2. C \cup {i} \in SUBSET (0 .. n) /\ i \in C \cup {i} /\ j > i
    BY <1>3
  <2>3. \A c \in C \cup {i} : c = n \/ \E l \in C \cup {i} : l > c /\ <<c, l>> \in R
    BY <1>3, <2>1, <2>2
  <2> QED BY <2>2, <2>3 DEF Leads
<1> QED BY <1>1, <1>2, <1>3

(* One more step at the end.                                               *)
LEMMA LeadsFurther ==
  ASSUME NEW R, NEW n \in Nat, NEW m \in Nat, n < m, NEW i \in 0 .. n,
         Leads(R, n, i), <<n, m>> \in R
  PROVE  Leads(R, m, i)
<1>1. PICK C \in SUBSET (0 .. n) :
        i \in C /\ \A c \in C : c = n \/ \E j \in C : j > c /\ <<c, j>> \in R
  BY DEF Leads
<1>2. C \cup {m} \in SUBSET (0 .. m) /\ i \in C \cup {m}
  BY <1>1
<1>3. \A c \in C \cup {m} : c = m \/ \E j \in C \cup {m} : j > c /\ <<c, j>> \in R
  BY <1>1
<1> QED BY <1>2, <1>3 DEF Leads

(* Whatever is so at n, and elsewhere if and only if a step leads to where *)
(* it is so, is this.                                                      *)
LEMMA LeadsOnly ==
  ASSUME NEW R, NEW n \in Nat, NEW r,
         \A i \in 0 .. n : r[i] <=> (i = n \/ \E j \in i + 1 .. n : <<i, j>> \in R /\ r[j])
  PROVE  \A i \in 0 .. n : r[i] <=> Leads(R, n, i)
<1> DEFINE S == {m \in 0 .. n : \A i \in m .. n : r[i] <=> Leads(R, n, i)}
<1>1. n \in S
  <2>1. n \in 0 .. n /\ n .. n = {n}
    OBVIOUS
  <2>2. r[n] <=> Leads(R, n, n)
    BY <2>1, LeadsByStep, Zenon
  <2> QED BY <2>1, <2>2, Zenon
<1>2. ASSUME NEW m \in 0 .. n - 1, m + 1 \in S PROVE m \in S
  <2>1. m \in 0 .. n /\ m .. n = {m} \cup (m + 1 .. n)
    OBVIOUS
  <2>2. \A i \in m + 1 .. n : r[i] <=> Leads(R, n, i)
    BY <1>2
  <2>3. r[m] <=> Leads(R, n, m)
    BY <2>1, <2>2, LeadsByStep, Zenon
  <2> QED BY <2>1, <2>2, <2>3
<1> HIDE DEF S
<1>3. ASSUME NEW i \in 0 .. n PROVE r[i] <=> Leads(R, n, i)
  <2>1. i \in S
    BY <1>1, <1>2, DownTo
  <2>2. i \in i .. n
    OBVIOUS
  <2> QED BY <2>1, <2>2 DEF S
<1> QED BY <1>3

-----------------------------------------------------------------------------
(* The numbers with the j-th digit of s as the last one, by their first.   *)
Horner(s, base, j) ==
  LET value[b \in 0 .. j] == IF b = j THEN 0 ELSE (s[b + 1] % base) + base * value[b + 1]
  IN  value

Horners(v, s, b, j) ==
  /\ v \in [0 .. j -> Nat]
  /\ v[j] = 0
  /\ \A i \in 0 .. j - 1 : v[i] = (s[i + 1] % b) + b * v[i + 1]

(* There are such numbers.                                                 *)
LEMMA HornerIs ==
  ASSUME NEW b \in Nat \ {0}, NEW s, NEW j \in Nat, \A i \in 1 .. j : s[i] \in Nat,
         NEW v, v = Horner(s, b, j)
  PROVE  Horners(v, s, b, j)
<1> DEFINE Digits(value, i) == IF i = j THEN 0 ELSE (s[i + 1] % b) + b * value[i + 1]
           IsValue(value) == value = [i \in 0 .. j |-> Digits(value, i)]
           step == [x \in (1 .. j) \X Nat |-> (s[x[1]] % b) + b * x[2]]
<1>1. ASSUME NEW i \in 1 .. j, NEW y \in Nat
      PROVE  /\ <<i, y>> \in (1 .. j) \X Nat
             /\ step[<<i, y>>] = (s[i] % b) + b * y /\ step[<<i, y>>] \in Nat
  <2>1. s[i] % b \in Nat
    <3>1. s[i] \in Int /\ b \in Int /\ b > 0
      OBVIOUS
    <3> QED BY <3>1, DivMod
  <2>2. b * y \in Nat
    OBVIOUS
  <2>3. (s[i] % b) + b * y \in Nat
    BY <2>1, <2>2
  <2> QED BY <2>3
<1>2. step \in [(1 .. j) \X Nat -> Nat]
  <2>1. ASSUME NEW x \in (1 .. j) \X Nat PROVE step[x] \in Nat
    <3>1. PICK i \in 1 .. j, y \in Nat : x = <<i, y>>
      OBVIOUS
    <3> HIDE DEF step
    <3> QED BY <1>1, <3>1
  <2>2. step = [x \in (1 .. j) \X Nat |-> step[x]]
    OBVIOUS
  <2> HIDE DEF step
  <2> QED BY <2>1, <2>2
<1> HIDE DEF step
<1>3. PICK f : RunsDown(f, j, Nat, 0, step)
  BY <1>2, LoopDown
<1>4. /\ f \in [0 .. j -> Nat] /\ f[j] = 0
      /\ \A i \in 0 .. j - 1 : f[i] = (s[i + 1] % b) + b * f[i + 1]
  <2>1. /\ f \in [0 .. j -> Nat] /\ f[j] = 0
        /\ \A i \in 0 .. j - 1 : f[i] = step[<<i + 1, f[i + 1]>>]
    BY <1>3 DEF RunsDown
  <2>2. ASSUME NEW i \in 0 .. j - 1 PROVE f[i] = (s[i + 1] % b) + b * f[i + 1]
    <3>1. i + 1 \in 1 .. j /\ i + 1 \in 0 .. j
      OBVIOUS
    <3>2. f[i + 1] \in Nat
      BY <2>1, <3>1
    <3>3. step[<<i + 1, f[i + 1]>>] = (s[i + 1] % b) + b * f[i + 1]
      BY <1>1, <3>1, <3>2
    <3> QED BY <2>1, <3>3
  <2> QED BY <2>1, <2>2
<1>5. IsValue(f)
  <2>1. ASSUME NEW i \in 0 .. j PROVE f[i] = Digits(f, i)
    <3>1. CASE i = j
      BY <1>4, <3>1
    <3>2. CASE i # j
      <4>1. i \in 0 .. j - 1
        BY <3>2
      <4> QED BY <1>4, <3>2, <4>1
    <3> QED BY <3>1, <3>2
  <2>2. f = [i \in 0 .. j |-> f[i]]
    BY <1>4
  <2> HIDE DEF Digits
  <2> QED BY <2>1, <2>2
<1>6. IsValue(v)
  <2>1. v = CHOOSE value : IsValue(value)
    BY DEF Horner
  <2> HIDE DEF IsValue
  <2> QED BY <1>5, <2>1, Zenon
<1>7. \A i \in 0 .. j : v[i] = Digits(v, i)
  <2> HIDE DEF Digits
  <2> QED BY <1>6
<1>8. v[j] = 0
  BY <1>7
<1>9. ASSUME NEW i \in 0 .. j - 1 PROVE v[i] = (s[i + 1] % b) + b * v[i + 1]
  BY <1>7
<1>10. \A i \in 0 .. j : v[i] \in Nat
  <2> DEFINE S == {i \in 0 .. j : v[i] \in Nat}
  <2>1. j \in S
    BY <1>8
  <2>2. ASSUME NEW i \in 0 .. j - 1, i + 1 \in S PROVE i \in S
    <3>1. i + 1 \in 1 .. j /\ i \in 0 .. j /\ v[i + 1] \in Nat
      BY <2>2
    <3>2. (s[i + 1] % b) + b * v[i + 1] \in Nat
      BY <1>1, <3>1
    <3> QED BY <1>9, <3>1, <3>2
  <2> HIDE DEF S
  <2>3. \A i \in 0 .. j : i \in S
    BY <2>1, <2>2, DownTo
  <2> QED BY <2>3 DEF S
<1>11. v = [i \in 0 .. j |-> v[i]]
  BY <1>6
<1>12. v \in [0 .. j -> Nat]
  BY <1>10, <1>11
<1> QED BY <1>8, <1>9, <1>12 DEF Horners
=============================================================================
