----------------------------- MODULE WireProofs -----------------------------
(***************************************************************************)
(* Proofs about Wire, for every base, every width of a varint and every    *)
(* input: nothing is read behind the end, no bit of a varint is lost, each *)
(* step gets closer to the end, and what is accepted is what the grammar   *)
(* calls a message; and about the arithmetic of the values: Scalars, for   *)
(* words of any width, and WktArithmetic, for every day, every date and    *)
(* any units of time.                                                      *)
(***************************************************************************)
EXTENDS Wire, Scalars, WktArithmetic, SequenceTheorems, Lemmas

(* r has the digits below weight w, d is the next one: r + d*w has no more *)
(* than those below Base*w.                                                *)
LEMMA DigitFits ==
  ASSUME NEW w \in Nat \ {0}, NEW r \in 0 .. w - 1, NEW d \in 0 .. Base - 1
  PROVE  r + d * w \in Nat /\ r + d * w < Base * w /\ d * w \in Nat
<1> USE BaseAssumption
<1>1. d * w \in Nat /\ Base * w \in Nat
  OBVIOUS
<1>2. (Base - 1 - d) * w \in Nat
  <2>1. Base - 1 - d \in Nat
    OBVIOUS
  <2> QED BY <2>1
<1>3. (Base - 1 - d) * w = Base * w - w - d * w
  OBVIOUS
<1> QED BY <1>1, <1>2, <1>3

(* Weights are positive and grow.                                          *)
LEMMA WeightType ==
  ASSUME NEW i \in 0 .. Groups
  PROVE  Weight[i] \in Nat \ {0} /\ Weight[i] <= Weight[Groups] /\ U64 \in Nat \ {0}
<1>1. Groups \in 0 .. Groups
  BY BaseAssumption
<1> QED BY <1>1, BaseAssumption, WeightAssumption DEF U64

(* One reader position inside the input sees a byte.                       *)
LEMMA ByteType ==
  ASSUME TypeOK, pos < Len(data)
  PROVE  Byte \in 0 .. 2 * Base - 1 /\ pos + 1 \in 1 .. Len(data)
<1>1. pos + 1 \in 1 .. Len(data)
  BY DEF TypeOK
<1>2. data[pos + 1] \in 0 .. 2 * Base - 1
  <2>1. data \in Seq(0 .. 2 * Base - 1)
    BY DEF TypeOK
  <2> QED BY <1>1, <2>1, ElementOfSeq
<1> QED BY <1>1, <1>2 DEF Byte

(* A digit is below the base.                                              *)
LEMMA DigitType ==
  ASSUME TypeOK, pos < Len(data)
  PROVE  Digit \in 0 .. Base - 1
<1>1. Byte \in 0 .. 2 * Base - 1
  BY ByteType
<1> QED BY <1>1, BaseAssumption DEF Digit

(* What the reader knows of a varint after k digits.                       *)
DigitsInv == result = exact /\ result < Weight[k]

Inv == TypeOK /\ DigitsInv

(* Within the limit Overflow leaves, the next byte fits in a u64.          *)
LEMMA SumIsExact ==
  ASSUME Inv, pos < Len(data), ~TooLarge, k < Groups \/ IsLast
  PROVE  /\ Sum = exact + Digit * Weight[k]
         /\ Sum \in 0 .. U64 - 1
         /\ k < Groups => Sum < Weight[k + 1]
<1> DEFINE d == Digit
           w == Weight[k]
           r == result
           b == Byte
<1>1. k \in 0 .. Groups /\ r \in Nat /\ exact \in Nat
  BY BaseAssumption DEF Inv, TypeOK
<1>2. w \in Nat \ {0} /\ w <= Weight[Groups] /\ U64 \in Nat \ {0}
  BY <1>1, WeightType
<1>3. Weight[Groups] \in Nat \ {0}
  BY BaseAssumption, WeightAssumption
<1>4. r \in 0 .. w - 1 /\ r = exact
  BY <1>1, <1>2 DEF Inv, DigitsInv
<1>5. d \in 0 .. Base - 1
  BY DigitType DEF Inv
<1>6. r + d * w \in Nat /\ r + d * w < Base * w /\ d * w \in Nat
  <2> HIDE DEF d, w, r
  <2> QED BY <1>2, <1>4, <1>5, DigitFits
<1>7. CASE k < Groups
  <2>1. k \in 0 .. Groups - 1 /\ k + 1 \in 0 .. Groups
    BY <1>1, <1>7, BaseAssumption
  <2>2. Weight[k + 1] = Base * w
    BY <2>1, WeightAssumption
  <2>3. Weight[k + 1] \in Nat /\ Weight[k + 1] <= Weight[Groups]
    BY <2>1, WeightType
  <2>4. U64 = 2 * Weight[Groups]
    BY DEF U64
  <2>5. r + d * w < Weight[k + 1] /\ r + d * w < U64
    <3> HIDE DEF d, w, r
    <3> QED BY <1>3, <1>6, <2>2, <2>3, <2>4
  <2>6. (r + d * w) % U64 = r + d * w
    <3> HIDE DEF d, w, r
    <3> QED BY <1>2, <1>6, <2>5
  <2>7. Sum = r + d * w
    BY <2>6 DEF Sum
  <2> QED
    <3>1. Sum \in 0 .. U64 - 1
      <4> HIDE DEF d, w, r
      <4> QED BY <1>2, <1>6, <2>5, <2>7
    <3>2. Sum = exact + Digit * Weight[k]
      BY <1>4, <2>7
    <3>3. Sum < Weight[k + 1]
      BY <2>5, <2>7
    <3> QED BY <3>1, <3>2, <3>3
<1>8. CASE k = Groups
  <2>1. b <= 1 /\ b < Base /\ b \in Nat
    <3>1. b \in 0 .. 2 * Base - 1
      BY ByteType DEF Inv
    <3> QED BY <3>1, <1>8, BaseAssumption DEF TooLarge, IsLast
  <2>2. d \in 0 .. 1
    <3>1. d = b % Base
      BY DEF Digit
    <3> HIDE DEF d, b
    <3> QED BY <2>1, <3>1, BaseAssumption
  <2>3. U64 = 2 * w
    BY <1>8 DEF U64
  <2>4. r + d * w < U64
    <3> HIDE DEF d, w, r
    <3>1. CASE d = 0
      BY <3>1, <1>2, <1>4, <2>3
    <3>2. CASE d = 1
      BY <3>2, <1>2, <1>4, <2>3
    <3> QED BY <2>2, <3>1, <3>2
  <2>5. (r + d * w) % U64 = r + d * w
    <3> HIDE DEF d, w, r
    <3> QED BY <1>2, <1>6, <2>4
  <2>6. Sum = r + d * w
    BY <2>5 DEF Sum
  <2>7. Sum \in 0 .. U64 - 1
    <3> HIDE DEF d, w, r
    <3> QED BY <1>2, <1>6, <2>4, <2>6
  <2>8. Sum = exact + Digit * Weight[k]
    BY <1>4, <2>6
  <2> QED BY <1>8, <2>7, <2>8, BaseAssumption
<1> QED BY <1>1, <1>7, <1>8, BaseAssumption

-----------------------------------------------------------------------------
Phases == {"tag", "varint", "len", "fixed32", "fixed64", "end", "error"}

(* A reader at the start satisfies the invariant.                          *)
LEMMA InvInit == Init => Inv
<1> SUFFICES ASSUME Init PROVE Inv
  OBVIOUS
<1>1. 0 \in 0 .. Groups /\ Weight[0] = 1
  BY BaseAssumption, WeightAssumption
<1>2. U64 \in Nat \ {0}
  BY <1>1, WeightType
<1>3. data \in Seq(0 .. 2 * Base - 1)
  BY InputsAssumption DEF Init
<1>4. Len(data) \in Nat
  BY <1>3
<1>5. TypeOK
  BY <1>1, <1>2, <1>3, <1>4 DEF Init, TypeOK
<1>6. DigitsInv
  BY <1>1 DEF Init, DigitsInv
<1> QED BY <1>5, <1>6 DEF Inv

(* What starts anew has no digits, and the invariant.                      *)
LEMMA StartKeepsInv ==
  ASSUME Inv, NEW p \in 0 .. Len(data), NEW what \in Phases, Start(p, what)
  PROVE  Inv'
<1>1. 0 \in 0 .. Groups /\ Weight[0] = 1
  BY BaseAssumption, WeightAssumption
<1>2. U64 \in Nat \ {0}
  BY <1>1, WeightType
<1>3. pos' = p /\ phase' = what /\ k' = 0 /\ result' = 0 /\ exact' = 0 /\ data' = data
  BY DEF Start
<1>4. TypeOK'
  BY <1>1, <1>2, <1>3 DEF Inv, TypeOK, Phases, U64
<1>5. DigitsInv'
  BY <1>1, <1>3 DEF DigitsInv
<1> QED BY <1>4, <1>5 DEF Inv

(* An error keeps it.                                                      *)
LEMMA FailKeepsInv ==
  ASSUME Inv, NEW p \in 0 .. Len(data), Fail(p)
  PROVE  Inv'
<1>1. "error" \in Phases /\ Start(p, "error")
  BY DEF Phases, Fail
<1> QED BY <1>1, StartKeepsInv

(* So does going on to the next field.                                     *)
LEMMA NextFieldKeepsInv ==
  ASSUME Inv, NEW p \in 0 .. Len(data), NextField(p)
  PROVE  Inv'
<1>1. PICK what \in {"end", "tag"} : Start(p, what)
  BY DEF NextField
<1>2. what \in Phases
  BY DEF Phases
<1> QED BY <1>1, <1>2, StartKeepsInv

(* So does taking bytes, if they are there.                                *)
LEMMA TakeKeepsInv ==
  ASSUME Inv, NEW p \in 0 .. Len(data), NEW n \in Nat, Take(p, n)
  PROVE  Inv'
<1>1. Len(data) \in Nat
  BY DEF Inv, TypeOK
<1>2. CASE p + n <= Len(data)
  <2>1. p + n \in 0 .. Len(data) /\ NextField(p + n)
    BY <1>1, <1>2 DEF Take
  <2> QED BY <2>1, NextFieldKeepsInv
<1>3. CASE ~(p + n <= Len(data))
  <2>1. Fail(p)
    BY <1>3 DEF Take
  <2> QED BY <2>1, FailKeepsInv
<1> QED BY <1>2, <1>3

(* The invariant is inductive.                                             *)
LEMMA InvStep == Inv /\ [Next]_vars => Inv'
<1> SUFFICES ASSUME Inv, [Next]_vars PROVE Inv'
  OBVIOUS
<1>1. Len(data) \in Nat /\ pos \in 0 .. Len(data)
  BY DEF Inv, TypeOK
<1>2. ASSUME pos < Len(data) PROVE pos + 1 \in 0 .. Len(data)
  BY <1>1, <1>2
<1>3. CASE Truncated
  <2>1. Fail(pos)
    BY <1>3 DEF Truncated
  <2> QED BY <1>1, <2>1, FailKeepsInv
<1>4. CASE Overflow
  <2>1. Fail(pos + 1) /\ pos + 1 \in 0 .. Len(data)
    BY <1>2, <1>4 DEF Overflow
  <2> QED BY <2>1, FailKeepsInv
<1>5. CASE Continue
  <2>1. pos < Len(data) /\ ~TooLarge
    BY <1>5 DEF Continue
  <2>2. CASE k = Groups
    <3>1. Fail(pos + 1) /\ pos + 1 \in 0 .. Len(data)
      BY <1>2, <1>5, <2>2 DEF Continue
    <3> QED BY <3>1, FailKeepsInv
  <2>3. CASE k # Groups
    <3>1. k \in 0 .. Groups /\ k < Groups /\ k + 1 \in 0 .. Groups
      BY <2>3, BaseAssumption DEF Inv, TypeOK
    <3>2. /\ Sum = exact + Digit * Weight[k]
          /\ Sum \in 0 .. U64 - 1
          /\ Sum < Weight[k + 1]
      BY <2>1, <3>1, SumIsExact
    <3>3. /\ pos' = pos + 1 /\ k' = k + 1 /\ result' = Sum
          /\ exact' = exact + Digit * Weight[k]
          /\ data' = data /\ phase' = phase
      BY <1>5, <2>3 DEF Continue
    <3>4. exact' \in Nat
      BY <3>2, <3>3, WeightType, <3>1
    <3>5. pos' \in 0 .. Len(data)
      BY <1>2, <2>1, <3>3
    <3>6. (U64)' = U64
      BY DEF U64
    <3>7. TypeOK'
      BY <3>1, <3>2, <3>3, <3>4, <3>5, <3>6 DEF Inv, TypeOK
    <3>8. DigitsInv'
      BY <3>2, <3>3 DEF DigitsInv
    <3> QED BY <3>7, <3>8 DEF Inv
  <2> QED BY <2>2, <2>3
<1>6. CASE read_tag
  <2>1. pos + 1 \in 0 .. Len(data)
    BY <1>2, <1>6 DEF read_tag, Complete
  <2>2. CASE ValidTag
    <3>1. Start(pos + 1, After(WireType))
      BY <1>6, <2>2 DEF read_tag
    <3>2. After(WireType) \in Phases
      <4>1. WireType \in {WIRE_VARINT, WIRE_I64, WIRE_LEN, WIRE_I32}
        BY <2>2 DEF ValidTag
      <4> QED BY <4>1 DEF After, Phases, WIRE_VARINT, WIRE_I64, WIRE_LEN, WIRE_I32
    <3> QED BY <2>1, <3>1, <3>2, StartKeepsInv
  <2>3. CASE ~ValidTag
    <3>1. Fail(pos + 1)
      BY <1>6, <2>3 DEF read_tag
    <3> QED BY <2>1, <3>1, FailKeepsInv
  <2> QED BY <2>2, <2>3
<1>7. CASE read_value
  <2>1. NextField(pos + 1) /\ pos + 1 \in 0 .. Len(data)
    BY <1>2, <1>7 DEF read_value, Complete
  <2> QED BY <2>1, NextFieldKeepsInv
<1>8. CASE read_len
  <2>1. Take(pos + 1, Sum) /\ pos + 1 \in 0 .. Len(data)
    BY <1>2, <1>8 DEF read_len, Complete
  <2>2. Sum \in Nat
    <3>1. pos < Len(data) /\ ~TooLarge /\ IsLast
      BY <1>8 DEF read_len, Complete
    <3>2. Sum \in 0 .. U64 - 1
      BY <3>1, SumIsExact
    <3> QED BY <3>2
  <2> QED BY <2>1, <2>2, TakeKeepsInv
<1>9. CASE read_fixed
  <2>1. PICK n \in {Fixed32, Fixed64} : Take(pos, n)
    BY <1>9 DEF read_fixed
  <2>2. n \in Nat
    BY SizeAssumption
  <2> QED BY <1>1, <2>1, <2>2, TakeKeepsInv
<1>10. CASE UNCHANGED vars
  <2>1. /\ data' = data /\ pos' = pos /\ phase' = phase
        /\ k' = k /\ result' = result /\ exact' = exact
    BY <1>10 DEF vars
  <2> QED BY <2>1 DEF Inv, TypeOK, DigitsInv, U64
<1> QED BY <1>3, <1>4, <1>5, <1>6, <1>7, <1>8, <1>9, <1>10 DEF Next, Step, Terminated

(* The reader keeps its invariant.                                         *)
THEOREM SpecInv == Spec => []Inv
BY InvInit, InvStep, PTL DEF Spec

(* The reader of wire.rs never reads behind the end of its input, and a    *)
(* varint never takes more digits than a u64 has, for inputs of any bytes. *)
THEOREM ReaderTypes == Spec => []TypeOK
<1>1. Inv => TypeOK
  BY DEF Inv
<1> QED BY <1>1, SpecInv, PTL

(* read_varint computes the value of the digits, for every base and width: *)
(* the shift loses no bit, because the bytes that do not fit are refused.  *)
THEOREM VarintsAreExact == Spec => []NoBitsLost
<1>1. Inv => NoBitsLost
  <2> SUFFICES ASSUME Inv PROVE NoBitsLost
    OBVIOUS
  <2>1. result = exact
    BY DEF Inv, DigitsInv
  <2>2. ASSUME Complete PROVE Sum = exact + Digit * Weight[k]
    <3>1. pos < Len(data) /\ ~TooLarge /\ IsLast
      BY <2>2 DEF Complete
    <3> QED BY <3>1, SumIsExact
  <2> QED BY <2>1, <2>2 DEF NoBitsLost
<1> QED BY <1>1, SpecInv, PTL

Reads == pos' > pos \/ phase' \in {"end", "error"}

(* Taking moves on or is an error.                                         *)
LEMMA TakeReads ==
  ASSUME Inv, NEW p \in Nat, NEW n \in Nat, p + n > pos, Take(p, n)
  PROVE  Reads
<1>1. CASE p + n <= Len(data)
  <2>1. pos' = p + n
    BY <1>1 DEF Take, NextField, Start
  <2> QED BY <2>1 DEF Reads
<1>2. CASE ~(p + n <= Len(data))
  <2>1. phase' = "error"
    BY <1>2 DEF Take, Fail, Start
  <2> QED BY <2>1 DEF Reads
<1> QED BY <1>1, <1>2

(* Every step of the loop reads a byte or ends the reading, whatever the   *)
(* input: the decoders cannot spin on one.                                 *)
THEOREM StepsRead == Spec => EachStepReads
<1>1. Inv /\ [Next]_vars => [Reads]_vars
  <2> SUFFICES ASSUME Inv, Next, vars' # vars PROVE Reads
    OBVIOUS
  <2>1. pos \in Nat
    BY DEF Inv, TypeOK
  <2>2. CASE Truncated
    <3>1. phase' = "error"
      BY <2>2 DEF Truncated, Fail, Start
    <3> QED BY <3>1 DEF Reads
  <2>3. CASE Overflow
    <3>1. phase' = "error"
      BY <2>3 DEF Overflow, Fail, Start
    <3> QED BY <3>1 DEF Reads
  <2>4. CASE Continue
    <3>1. pos' = pos + 1
      BY <2>4 DEF Continue, Fail, Start
    <3> QED BY <2>1, <3>1 DEF Reads
  <2>5. CASE read_tag
    <3>1. pos' = pos + 1
      BY <2>5 DEF read_tag, Fail, Start
    <3> QED BY <2>1, <3>1 DEF Reads
  <2>6. CASE read_value
    <3>1. pos' = pos + 1
      BY <2>6 DEF read_value, NextField, Start
    <3> QED BY <2>1, <3>1 DEF Reads
  <2>7. CASE read_len
    <3>1. pos < Len(data) /\ ~TooLarge /\ IsLast /\ Take(pos + 1, Sum)
      BY <2>7 DEF read_len, Complete
    <3>2. Sum \in 0 .. U64 - 1
      BY <3>1, SumIsExact
    <3>3. pos + 1 \in Nat /\ Sum \in Nat /\ pos + 1 + Sum > pos
      BY <2>1, <3>2
    <3> QED BY <3>1, <3>3, TakeReads
  <2>8. CASE read_fixed
    <3>1. PICK n \in {Fixed32, Fixed64} : Take(pos, n)
      BY <2>8 DEF read_fixed
    <3>2. n \in Nat /\ pos + n > pos
      BY <2>1, SizeAssumption
    <3> QED BY <2>1, <3>1, <3>2, TakeReads
  <2>9. ~Terminated
    BY DEF Terminated
  <2> QED BY <2>2, <2>3, <2>4, <2>5, <2>6, <2>7, <2>8, <2>9 DEF Next, Step
<1>2. [Reads]_vars <=> [pos' > pos \/ phase' \in {"end", "error"}]_vars
  BY DEF Reads
<1> QED BY <1>1, <1>2, SpecInv, PTL DEF Spec, EachStepReads

-----------------------------------------------------------------------------
(* The grammar.                                                            *)

Bytes == 0 .. 2 * Base - 1

(* What the digits of a part say, as read from its first one on.           *)
LEMMA ValueByDigits ==
  ASSUME NEW s \in Seq(Bytes), NEW j \in 0 .. Len(s)
  PROVE  /\ \A i \in 0 .. j : Value(s, i, j) \in Nat
         /\ Value(s, j, j) = 0
         /\ \A i \in 0 .. j - 1 : Value(s, i, j) = (s[i + 1] % Base) + Base * Value(s, i + 1, j)
<1>1. j \in Nat /\ Base \in Nat \ {0}
  BY BaseAssumption
<1>2. \A i \in 1 .. j : s[i] \in Nat
  <2>1. ASSUME NEW i \in 1 .. j PROVE s[i] \in Nat
    <3>1. i \in 1 .. Len(s)
      OBVIOUS
    <3>2. s[i] \in Bytes
      BY <3>1, ElementOfSeq
    <3> QED BY <3>2, <1>1 DEF Bytes
  <2> QED BY <2>1
<1>3. PICK v : v = Horner(s, Base, j)
  OBVIOUS
<1>4. \A i : Value(s, i, j) = v[i]
  BY <1>3, Zenon DEF Value, Horner
<1>5. /\ v \in [0 .. j -> Nat]
      /\ v[j] = 0
      /\ \A i \in 0 .. j - 1 : v[i] = (s[i + 1] % Base) + Base * v[i + 1]
  <2>1. Horners(v, s, Base, j)
    BY <1>1, <1>2, <1>3, HornerIs
  <2> QED BY <2>1 DEF Horners
<1> QED BY <1>4, <1>5

(* One more digit counts for its weight, as the loop of read_varint adds   *)
(* it up.                                                                  *)
LEMMA ValueOfDigits ==
  ASSUME NEW s \in Seq(Bytes), NEW n \in 0 .. Groups, NEW i \in Nat, i + n < Len(s)
  PROVE  Value(s, i, i + n + 1) = Value(s, i, i + n) + (s[i + n + 1] % Base) * Weight[n]
<1> USE BaseAssumption
<1> DEFINE p == i + n
           d == s[p + 1] % Base
           S == {m \in 0 .. n : Value(s, p - m, p + 1) = Value(s, p - m, p) + d * Weight[m]}
<1>1. /\ p \in 0 .. Len(s) /\ p + 1 \in 0 .. Len(s) /\ p \in 0 .. (p + 1) - 1 /\ n \in Nat
      /\ Len(s) \in Nat
  OBVIOUS
<1>2. d \in Nat
  <2>1. s[p + 1] \in Bytes
    <3>1. p + 1 \in 1 .. Len(s)
      BY <1>1
    <3> QED BY <3>1, ElementOfSeq
  <2>2. s[p + 1] \in Int
    BY <2>1 DEF Bytes
  <2> QED BY <2>2, DivMod
<1> HIDE DEF p, d
<1>3. 0 \in S
  <2>1. Value(s, p, p) = 0 /\ Value(s, p + 1, p + 1) = 0
    BY <1>1, ValueByDigits
  <2>2. Value(s, p, p + 1) = d + Base * Value(s, p + 1, p + 1)
    BY <1>1, ValueByDigits DEF d
  <2>3. p - 0 = p /\ Weight[0] = 1
    BY <1>1, WeightAssumption
  <2>4. Value(s, p - 0, p + 1) = Value(s, p - 0, p) + d * Weight[0]
    BY <1>2, <2>1, <2>2, <2>3
  <2> QED BY <1>1, <2>4
<1>4. ASSUME NEW m \in 1 .. n, m - 1 \in S PROVE m \in S
  <2> DEFINE b == p - m
             x == s[b + 1] % Base
             y == Value(s, b + 1, p)
             w == Weight[m - 1]
  <2>1. /\ b \in 0 .. p - 1 /\ b \in 0 .. (p + 1) - 1 /\ b + 1 \in 0 .. p
        /\ b + 1 = p - (m - 1) /\ m - 1 \in 0 .. Groups - 1 /\ m - 1 \in 0 .. Groups
        /\ (m - 1) + 1 = m
    BY <1>1 DEF p
  <2>2. y \in Nat /\ w \in Nat
    BY <1>1, <2>1, ValueByDigits, WeightType
  <2>3. x \in Nat
    <3>1. b + 1 \in 1 .. Len(s)
      BY <1>1, <2>1
    <3>2. s[b + 1] \in Bytes
      BY <3>1, ElementOfSeq
    <3>3. s[b + 1] \in Int
      BY <3>2 DEF Bytes
    <3> QED BY <3>3, DivMod
  <2>4. Value(s, b, p) = x + Base * y
    BY <1>1, <2>1, ValueByDigits
  <2>5. Value(s, b, p + 1) = x + Base * Value(s, b + 1, p + 1)
    BY <1>1, <2>1, ValueByDigits
  <2>6. Value(s, b + 1, p + 1) = y + d * w
    BY <1>4, <2>1
  <2>7. Weight[m] = Base * w
    <3>1. Weight[(m - 1) + 1] = Base * Weight[m - 1]
      BY <2>1, WeightAssumption
    <3> QED BY <2>1, <3>1
  <2> HIDE DEF x, y, w
  <2>8. d * (Base * w) = Base * (d * w)
    BY <1>2, <2>2
  <2>9. Base * (y + d * w) = Base * y + Base * (d * w)
    BY <1>2, <2>2
  <2>10. d * w \in Nat /\ Base * (d * w) \in Nat /\ Base * y \in Nat
    BY <1>2, <2>2
  <2>11. Value(s, b, p + 1) = Value(s, b, p) + d * Weight[m]
    BY <2>3, <2>4, <2>5, <2>6, <2>7, <2>8, <2>9, <2>10
  <2> QED BY <2>11
<1> HIDE DEF S
<1>5. n \in S
  <2>1. \A m \in 0 .. n : m \in S
    BY <1>1, <1>3, <1>4, UpTo
  <2> QED BY <1>1, <2>1
<1>6. p - n = i
  BY DEF p
<1> QED BY <1>5, <1>6 DEF S, p, d

(* From i on there are fields up to the end.                               *)
FieldsOf(s) == {x \in (0 .. Len(s)) \X (0 .. Len(s)) : IsField(s, x[1], x[2])}
FieldsFrom(s, i) == Leads(FieldsOf(s), Len(s), i)

(* This is so at the end, and otherwise if there is a field with fields    *)
(* behind it.                                                              *)
LEMMA FieldsByField ==
  ASSUME NEW s, Len(s) \in Nat, NEW i \in 0 .. Len(s)
  PROVE  FieldsFrom(s, i)
           <=> (i = Len(s) \/ \E j \in i + 1 .. Len(s) : IsField(s, i, j) /\ FieldsFrom(s, j))
<1>1. FieldsFrom(s, i)
        <=> (i = Len(s) \/ \E j \in i + 1 .. Len(s) : <<i, j>> \in FieldsOf(s) /\ FieldsFrom(s, j))
  BY LeadsByStep DEF FieldsFrom
<1>2. \A j \in i + 1 .. Len(s) : <<i, j>> \in FieldsOf(s) <=> IsField(s, i, j)
  BY DEF FieldsOf
<1> QED BY <1>1, <1>2

(* This is what a message is.                                              *)
LEMMA MessageIsFields ==
  ASSUME NEW s, Len(s) \in Nat
  PROVE  IsMessage(s) <=> FieldsFrom(s, 0)
<1> DEFINE Rest(rest, i) ==
             i = Len(s) \/ \E j \in i + 1 .. Len(s) : IsField(s, i, j) /\ rest[j]
           IsRest(rest) == rest = [i \in 0 .. Len(s) |-> Rest(rest, i)]
           g == [i \in 0 .. Len(s) |-> FieldsFrom(s, i)]
           r == CHOOSE rest : IsRest(rest)
<1>1. ASSUME NEW i \in 0 .. Len(s) PROVE FieldsFrom(s, i) = Rest(g, i)
  <2>1. \A j \in i + 1 .. Len(s) : j \in 0 .. Len(s) /\ g[j] = FieldsFrom(s, j)
    OBVIOUS
  <2> HIDE DEF g
  <2>2. FieldsFrom(s, i) <=> Rest(g, i)
    BY <2>1, FieldsByField, Zenon
  <2> QED BY <2>2, Zenon DEF FieldsFrom, Leads
<1>2. IsRest(g)
  <2> HIDE DEF Rest
  <2> QED BY <1>1, Zenon
<1> HIDE DEF g
<1>3. IsRest(r)
  <2> HIDE DEF IsRest
  <2> QED BY <1>2, Zenon
<1>4. IsMessage(s) <=> r[0]
  BY DEF IsMessage
<1> HIDE DEF r
<1>5. ASSUME NEW i \in 0 .. Len(s) PROVE r[i] = Rest(r, i)
  <2> HIDE DEF Rest
  <2> QED BY <1>3, Zenon
<1>6. \A i \in 0 .. Len(s) : \A j \in i + 1 .. Len(s) : <<i, j>> \in FieldsOf(s) <=> IsField(s, i, j)
  BY DEF FieldsOf
<1>7. \A i \in 0 .. Len(s) :
        r[i] <=> (i = Len(s) \/ \E j \in i + 1 .. Len(s) : <<i, j>> \in FieldsOf(s) /\ r[j])
  BY <1>5, <1>6, Zenon
<1>8. r[0] <=> FieldsFrom(s, 0)
  <2>1. 0 \in 0 .. Len(s)
    OBVIOUS
  <2> QED BY <1>7, <2>1, LeadsOnly, Zenon DEF FieldsFrom
<1> QED BY <1>4, <1>8, Zenon

(* No varint is the beginning of another.                                  *)
LEMMA OneVarint ==
  ASSUME NEW s, NEW i \in Nat, NEW j \in Int, NEW l \in Int, IsVarint(s, i, j), IsVarint(s, i, l)
  PROVE  j = l
<1> USE BaseAssumption
<1>1. /\ j - i >= 1 /\ \A b \in i + 1 .. j : s[b] < Base <=> b = j
      /\ l - i >= 1 /\ \A b \in i + 1 .. l : s[b] < Base <=> b = l
  BY DEF IsVarint
<1>2. ASSUME j < l PROVE FALSE
  <2>1. j \in i + 1 .. l /\ j \in i + 1 .. j
    BY <1>1, <1>2
  <2> QED BY <1>1, <1>2, <2>1
<1>3. ASSUME l < j PROVE FALSE
  <2>1. l \in i + 1 .. j /\ l \in i + 1 .. l
    BY <1>1, <1>3
  <2> QED BY <1>1, <1>3, <2>1
<1> QED BY <1>2, <1>3

(* Behind a tag there is one body of its type at most.                     *)
LEMMA OneBody ==
  ASSUME NEW s, NEW i \in Nat, NEW j \in Int, NEW l \in Int, NEW wire \in WireTypes,
         IsBody(s, i, j, wire), IsBody(s, i, l, wire)
  PROVE  j = l /\ i < j
<1> USE DEF WIRE_VARINT, WIRE_I64, WIRE_LEN, WIRE_I32
<1>1. CASE wire = WIRE_VARINT
  <2>1. IsVarint(s, i, j) /\ IsVarint(s, i, l)
    BY <1>1 DEF IsBody
  <2>2. j = l
    BY <2>1, OneVarint
  <2>3. j - i \in 1 .. Groups + 1
    BY <2>1 DEF IsVarint
  <2> QED BY <2>2, <2>3, BaseAssumption
<1>2. CASE wire = WIRE_I32
  BY <1>2, SizeAssumption DEF IsBody
<1>3. CASE wire = WIRE_I64
  BY <1>3, SizeAssumption DEF IsBody
<1>4. CASE wire = WIRE_LEN
  <2>1. PICK m \in i + 1 .. j : IsVarint(s, i, m) /\ Value(s, i, m) = j - m
    BY <1>4 DEF IsBody, IsLengthDelimited
  <2>2. PICK n \in i + 1 .. l : IsVarint(s, i, n) /\ Value(s, i, n) = l - n
    BY <1>4 DEF IsBody, IsLengthDelimited
  <2>3. m = n
    BY <2>1, <2>2, OneVarint
  <2>4. j - m = l - m
    BY <2>1, <2>2, <2>3
  <2>5. m \in Int /\ i < m /\ m <= j
    OBVIOUS
  <2> QED BY <2>4, <2>5
<1> QED BY <1>1, <1>2, <1>3, <1>4 DEF WireTypes

(* A field that begins with a tag is that tag and its body.                *)
LEMMA FieldOfTag ==
  ASSUME NEW s, NEW i \in Nat, NEW t \in Int, NEW wire \in WireTypes, IsTag(s, i, t, wire),
         NEW j \in Int
  PROVE  IsField(s, i, j) <=> IsBody(s, t, j, wire)
<1>1. IsVarint(s, i, t) /\ Value(s, i, t) % 8 = wire
  BY DEF IsTag
<1>2. t > i /\ t \in Nat
  <2>1. t - i \in 1 .. Groups + 1
    BY <1>1 DEF IsVarint
  <2> QED BY <2>1, BaseAssumption
<1>3. ASSUME IsField(s, i, j) PROVE IsBody(s, t, j, wire)
  <2>1. PICK u \in i + 1 .. j, kind \in WireTypes : IsTag(s, i, u, kind) /\ IsBody(s, u, j, kind)
    BY <1>3 DEF IsField
  <2>2. IsVarint(s, i, u) /\ Value(s, i, u) % 8 = kind
    BY <2>1 DEF IsTag
  <2>3. u = t
    BY <1>1, <2>2, OneVarint
  <2>4. kind = wire
    BY <1>1, <2>2, <2>3, Zenon
  <2> QED BY <2>1, <2>3, <2>4, Zenon
<1>4. ASSUME IsBody(s, t, j, wire) PROVE IsField(s, i, j)
  <2>1. t < j
    BY <1>2, <1>4, OneBody
  <2>2. t \in i + 1 .. j
    BY <1>2, <2>1
  <2> QED BY <1>4, <2>2 DEF IsField
<1> QED BY <1>3, <1>4

(* The reader is at p in the string s, and its phase is what: in a varint  *)
(* that begins behind i, it has read digits that are continued and has     *)
(* their value; and the fields of s are complete up to the field it is in. *)
Reading(s, i, p, value, what) ==
  /\ \A b \in i + 1 .. p : s[b] >= Base
  /\ value = Value(s, i, p)
  /\ what = "end" => IsMessage(s)
  /\ what = "error" => ~IsMessage(s)
  /\ what = "tag" => i < Len(s) /\ (IsMessage(s) <=> FieldsFrom(s, i))
  /\ \A wire \in WireTypes : what = After(wire) =>
       \E c \in 0 .. i : (IsMessage(s) <=> FieldsFrom(s, c)) /\ IsTag(s, c, i, wire)
  /\ what \in {"fixed32", "fixed64"} => i = p

GrammarInv ==
  \A s \in {data}, i \in {pos - k}, p \in {pos}, value \in {exact}, what \in {phase} :
    i \in Nat /\ Reading(s, i, p, value, what)

(* It is at p, where something begins.                                     *)
LEMMA ReadingStart ==
  ASSUME NEW s \in Seq(Bytes), NEW p \in 0 .. Len(s)
  PROVE  0 = Value(s, p, p) /\ \A b \in p + 1 .. p : s[b] >= Base
<1>1. p + 1 .. p = {}
  OBVIOUS
<1> QED BY <1>1, ValueByDigits

(* Where a varint must be and none is, there is no message.                *)
LEMMA NoVarintNoMessage ==
  ASSUME NEW s \in Seq(Bytes), NEW i \in 0 .. Len(s), NEW p, NEW value,
         NEW what \in {"tag", "varint", "len"}, Reading(s, i, p, value, what),
         \A j \in i + 1 .. Len(s) : ~IsVarint(s, i, j)
  PROVE  ~IsMessage(s)
<1>1. Len(s) \in Nat /\ i \in Nat
  OBVIOUS
<1>2. CASE what = "tag"
  <2>1. i < Len(s) /\ (IsMessage(s) <=> FieldsFrom(s, i))
    BY <1>2 DEF Reading
  <2>2. ASSUME NEW j \in i + 1 .. Len(s), IsField(s, i, j) PROVE FALSE
    <3>1. PICK t \in i + 1 .. j, wire \in WireTypes : IsTag(s, i, t, wire)
      BY <2>2 DEF IsField
    <3>2. t \in i + 1 .. Len(s)
      BY <1>1
    <3>3. IsVarint(s, i, t)
      BY <3>1 DEF IsTag
    <3> QED BY <3>2, <3>3
  <2>3. ~FieldsFrom(s, i)
    BY <1>1, <2>1, <2>2, FieldsByField
  <2> QED BY <2>1, <2>3
<1>3. CASE what \in {"varint", "len"}
  <2> USE DEF WIRE_VARINT, WIRE_I64, WIRE_LEN, WIRE_I32
  <2>1. PICK wire \in WireTypes : what = After(wire) /\ wire \in {WIRE_VARINT, WIRE_LEN}
    BY <1>3 DEF WireTypes, After
  <2>2. PICK c \in 0 .. i : (IsMessage(s) <=> FieldsFrom(s, c)) /\ IsTag(s, c, i, wire)
    BY <2>1 DEF Reading
  <2>3. ASSUME NEW j \in c + 1 .. Len(s), IsField(s, c, j) PROVE FALSE
    <3>1. IsBody(s, i, j, wire)
      BY <1>1, <2>2, <2>3, FieldOfTag
    <3>2. i < j
      BY <1>1, <3>1, OneBody
    <3>3. \E l \in i + 1 .. j : IsVarint(s, i, l)
      <4>1. CASE wire = WIRE_VARINT
        <5>1. IsVarint(s, i, j)
          BY <3>1, <4>1 DEF IsBody
        <5> QED BY <1>1, <3>2, <5>1
      <4>2. CASE wire = WIRE_LEN
        BY <3>1, <4>2 DEF IsBody, IsLengthDelimited
      <4> QED BY <2>1, <4>1, <4>2
    <3> QED BY <1>1, <3>3
  <2>4. c # Len(s)
    <3>1. i - c \in 1 .. Groups + 1
      BY <2>2 DEF IsTag, IsVarint
    <3> QED BY <1>1, <3>1, BaseAssumption
  <2>5. ~FieldsFrom(s, c)
    BY <1>1, <2>3, <2>4, FieldsByField
  <2> QED BY <2>2, <2>5
<1> QED BY <1>2, <1>3

(* Behind the body of a field, the rest decides; without one, there is no  *)
(* message.                                                                *)
LEMMA BodyDecides ==
  ASSUME NEW s \in Seq(Bytes), NEW i \in 0 .. Len(s), NEW p, NEW value,
         NEW wire \in WireTypes, Reading(s, i, p, value, After(wire))
  PROVE  /\ \A j \in 0 .. Len(s) :
              IsBody(s, i, j, wire) => (IsMessage(s) <=> FieldsFrom(s, j))
         /\ (\A j \in 0 .. Len(s) : ~IsBody(s, i, j, wire)) => ~IsMessage(s)
<1>1. Len(s) \in Nat /\ i \in Nat
  OBVIOUS
<1>2. PICK c \in 0 .. i : (IsMessage(s) <=> FieldsFrom(s, c)) /\ IsTag(s, c, i, wire)
  BY DEF Reading
<1>3. c < i
  <2>1. i - c \in 1 .. Groups + 1
    BY <1>2 DEF IsTag, IsVarint
  <2> QED BY <1>1, <2>1, BaseAssumption
<1>4. c # Len(s) /\ c \in 0 .. Len(s) /\ c \in Nat
  BY <1>1, <1>3
<1>5. \A j \in Int : IsField(s, c, j) <=> IsBody(s, i, j, wire)
  BY <1>1, <1>2, <1>4, FieldOfTag
<1>6. FieldsFrom(s, c) <=> \E j \in c + 1 .. Len(s) : IsField(s, c, j) /\ FieldsFrom(s, j)
  BY <1>1, <1>4, FieldsByField
<1>7. ASSUME NEW j \in 0 .. Len(s), IsBody(s, i, j, wire)
      PROVE  IsMessage(s) <=> FieldsFrom(s, j)
  <2>1. \A l \in c + 1 .. Len(s) : IsField(s, c, l) => l = j
    <3>1. ASSUME NEW l \in c + 1 .. Len(s), IsField(s, c, l) PROVE l = j
      <4>1. IsBody(s, i, l, wire)
        BY <1>1, <1>5, <3>1
      <4> QED BY <1>1, <1>7, <4>1, OneBody
    <3> QED BY <3>1
  <2>2. j \in c + 1 .. Len(s) /\ IsField(s, c, j)
    <3>1. i < j
      BY <1>1, <1>7, OneBody
    <3> QED BY <1>1, <1>3, <1>5, <1>7, <3>1
  <2> QED BY <1>2, <1>6, <2>1, <2>2
<1>8. ASSUME \A j \in 0 .. Len(s) : ~IsBody(s, i, j, wire)
      PROVE  ~IsMessage(s)
  <2>1. \A j \in c + 1 .. Len(s) : j \in 0 .. Len(s) /\ j \in Int
    BY <1>1
  <2> QED BY <1>2, <1>5, <1>6, <1>8, <2>1
<1> QED BY <1>7, <1>8

(* What the invariant says of where the reader is.                         *)
LEMMA GrammarNow ==
  ASSUME GrammarInv
  PROVE  pos - k \in Nat /\ Reading(data, pos - k, pos, exact, phase)
  BY DEF GrammarInv

(* It holds where the reader gets, if that is known.                       *)
LEMMA GrammarNext ==
  ASSUME NEW s, NEW i \in Nat, NEW p, NEW value, NEW what,
         data' = s, pos' - k' = i, pos' = p, exact' = value, phase' = what,
         Reading(s, i, p, value, what)
  PROVE  GrammarInv'
  BY DEF GrammarInv

(* ... such as the beginning of something.                                 *)
LEMMA GrammarStart ==
  ASSUME Inv, NEW p \in 0 .. Len(data), NEW what, Start(p, what),
         Reading(data, p, p, 0, what)
  PROVE  GrammarInv'
<1>1. data' = data /\ pos' = p /\ k' = 0 /\ exact' = 0 /\ phase' = what
  BY DEF Start
<1>2. PICK s : s = data
  OBVIOUS
<1>3. p \in Nat /\ pos' - k' = p
  BY <1>1
<1> QED BY <1>1, <1>2, <1>3, GrammarNext

(* What is no message fails.                                               *)
LEMMA GrammarFail ==
  ASSUME Inv, NEW p \in 0 .. Len(data), Fail(p), ~IsMessage(data)
  PROVE  GrammarInv'
<1>1. data \in Seq(Bytes)
  BY DEF Inv, TypeOK, Bytes
<1>2. \A wire \in WireTypes : "error" # After(wire)
  BY DEF After, WireTypes, WIRE_VARINT, WIRE_I64, WIRE_LEN, WIRE_I32
<1>3. Reading(data, p, p, 0, "error")
  BY <1>1, <1>2, ReadingStart DEF Reading
<1> QED BY <1>3, GrammarStart DEF Fail

(* What goes on with fields goes on.                                       *)
LEMMA GrammarField ==
  ASSUME Inv, NEW p \in 0 .. Len(data), NextField(p), IsMessage(data) <=> FieldsFrom(data, p)
  PROVE  GrammarInv'
<1>1. data \in Seq(Bytes) /\ Len(data) \in Nat
  BY DEF Inv, TypeOK, Bytes
<1>2. PICK what : what = (IF p = Len(data) THEN "end" ELSE "tag") /\ Start(p, what)
  BY DEF NextField
<1>3. \A wire \in WireTypes : what # After(wire)
  BY <1>2 DEF After, WireTypes, WIRE_VARINT, WIRE_I64, WIRE_LEN, WIRE_I32
<1>4. p = Len(data) => IsMessage(data)
  BY <1>1, FieldsByField
<1>5. Reading(data, p, p, 0, what)
  BY <1>1, <1>2, <1>3, <1>4, ReadingStart DEF Reading
<1> QED BY <1>2, <1>5, GrammarStart

(* So does a body that ends ...                                            *)
LEMMA GrammarBody ==
  ASSUME Inv, GrammarInv, NEW wire \in WireTypes, phase = After(wire),
         NEW p \in 0 .. Len(data), NextField(p), IsBody(data, pos - k, p, wire)
  PROVE  GrammarInv'
<1>1. data \in Seq(Bytes) /\ Len(data) \in Nat /\ pos \in 0 .. Len(data) /\ k \in Nat
  BY BaseAssumption DEF Inv, TypeOK, Bytes
<1>2. Reading(data, pos - k, pos, exact, After(wire)) /\ pos - k \in 0 .. Len(data)
  BY <1>1, GrammarNow
<1>3. IsMessage(data) <=> FieldsFrom(data, p)
  BY <1>1, <1>2, BodyDecides
<1> QED BY <1>3, GrammarField

(* ... and one that is not there fails.                                    *)
LEMMA GrammarNoBody ==
  ASSUME Inv, GrammarInv, NEW wire \in WireTypes, phase = After(wire),
         NEW p \in 0 .. Len(data), Fail(p),
         \A j \in 0 .. Len(data) : ~IsBody(data, pos - k, j, wire)
  PROVE  GrammarInv'
<1>1. data \in Seq(Bytes) /\ Len(data) \in Nat /\ pos \in 0 .. Len(data) /\ k \in Nat
  BY BaseAssumption DEF Inv, TypeOK, Bytes
<1>2. Reading(data, pos - k, pos, exact, After(wire)) /\ pos - k \in 0 .. Len(data)
  BY <1>1, GrammarNow
<1>3. ~IsMessage(data)
  BY <1>1, <1>2, BodyDecides
<1> QED BY <1>3, GrammarFail

(* What is read of a varint, with the next byte.                           *)
LEMMA VarintSoFar ==
  ASSUME Inv, GrammarInv, InVarint, pos < Len(data)
  PROVE  /\ \A j \in pos - k + 1 .. Len(data) :
              IsVarint(data, pos - k, j) => j > pos /\ (IsLast => j = pos + 1)
         /\ Value(data, pos - k, pos + 1) = exact + Digit * Weight[k]
         /\ pos - k \in Nat /\ data \in Seq(Bytes) /\ Len(data) \in Nat
         /\ pos \in Nat /\ pos + 1 \in 0 .. Len(data) /\ k \in 0 .. Groups /\ k \in Nat
<1>1. /\ data \in Seq(Bytes) /\ Len(data) \in Nat /\ pos \in 0 .. Len(data)
      /\ k \in 0 .. Groups /\ k \in Nat /\ pos - k \in Nat
      /\ pos \in Nat /\ pos + 1 \in 0 .. Len(data)
  BY GrammarNow, BaseAssumption DEF Inv, TypeOK, Bytes
<1>2. /\ \A b \in pos - k + 1 .. pos : data[b] >= Base
      /\ exact = Value(data, pos - k, pos)
  BY GrammarNow DEF Reading
<1>3. ASSUME NEW j \in pos - k + 1 .. Len(data), IsVarint(data, pos - k, j)
      PROVE  j > pos /\ (IsLast => j = pos + 1)
  <2>1. \A b \in pos - k + 1 .. j : data[b] < Base <=> b = j
    BY <1>3 DEF IsVarint
  <2>2. ASSUME j <= pos PROVE FALSE
    <3>1. j \in pos - k + 1 .. pos /\ j \in pos - k + 1 .. j
      BY <1>1, <2>2
    <3>2. data[j] < Base /\ data[j] >= Base
      BY <1>2, <2>1, <3>1
    <3>3. data[j] \in Int /\ Base \in Int
      <4>1. j \in 1 .. Len(data)
        BY <1>1
      <4>2. data[j] \in Bytes
        BY <1>1, <4>1, ElementOfSeq
      <4> QED BY <4>2, BaseAssumption DEF Bytes
    <3> QED BY <3>2, <3>3
  <2>3. j > pos
    BY <1>1, <2>2
  <2>4. pos + 1 \in pos - k + 1 .. j
    BY <1>1, <2>3
  <2> QED BY <2>1, <2>3, <2>4 DEF IsLast, Byte
<1>4. Value(data, pos - k, pos + 1) = exact + Digit * Weight[k]
  <2>1. (pos - k) + k = pos /\ (pos - k) + k < Len(data)
    BY <1>1
  <2>2. Value(data, pos - k, (pos - k) + k + 1)
          = Value(data, pos - k, (pos - k) + k) + (data[(pos - k) + k + 1] % Base) * Weight[k]
    BY <1>1, <2>1, ValueOfDigits
  <2> QED BY <1>2, <2>1, <2>2 DEF Digit, Byte
<1> QED BY <1>1, <1>3, <1>4

(* A varint that is complete is one, and the only one that begins there.   *)
LEMMA VarintRead ==
  ASSUME Inv, GrammarInv, Complete
  PROVE  /\ IsVarint(data, pos - k, pos + 1) /\ Value(data, pos - k, pos + 1) = Sum
         /\ \A j \in Int : IsVarint(data, pos - k, j) => j = pos + 1
         /\ pos - k \in Nat /\ pos + 1 \in 0 .. Len(data) /\ Sum \in Nat
<1>1. InVarint /\ pos < Len(data) /\ ~TooLarge /\ IsLast
  BY DEF Complete
<1>2. /\ Value(data, pos - k, pos + 1) = exact + Digit * Weight[k]
      /\ pos - k \in Nat /\ Len(data) \in Nat /\ pos \in Nat /\ pos + 1 \in 0 .. Len(data)
      /\ k \in 0 .. Groups /\ k \in Nat /\ data \in Seq(Bytes)
  BY <1>1, VarintSoFar
<1>3. Sum = exact + Digit * Weight[k] /\ Sum \in 0 .. U64 - 1
  BY <1>1, SumIsExact
<1>4. U64 \in Int
  BY <1>2, WeightType
<1>5. IsVarint(data, pos - k, pos + 1)
  <2>1. (pos + 1) - (pos - k) \in 1 .. Groups + 1
    BY <1>2, BaseAssumption
  <2>2. ASSUME NEW b \in pos - k + 1 .. pos + 1 PROVE data[b] < Base <=> b = pos + 1
    <3>1. CASE b = pos + 1
      BY <1>1, <3>1 DEF IsLast, Byte
    <3>2. CASE b # pos + 1
      <4>1. b \in pos - k + 1 .. pos /\ b \in 1 .. Len(data)
        BY <1>2, <3>2
      <4>2. data[b] >= Base
        BY <4>1, GrammarNow DEF Reading
      <4>3. data[b] \in Bytes
        BY <1>2, <4>1, ElementOfSeq
      <4> QED BY <3>2, <4>2, <4>3, BaseAssumption DEF Bytes
    <3> QED BY <3>1, <3>2
  <2>3. Value(data, pos - k, pos + 1) < U64
    BY <1>2, <1>3, <1>4
  <2> QED BY <2>1, <2>2, <2>3 DEF IsVarint
<1>6. \A j \in Int : IsVarint(data, pos - k, j) => j = pos + 1
  BY <1>2, <1>5, OneVarint
<1> QED BY <1>2, <1>3, <1>5, <1>6

(* What follows each tag is told apart by its type.                        *)
LEMMA AfterInjective ==
  ASSUME NEW wire \in WireTypes, NEW kind \in WireTypes, After(wire) = After(kind)
  PROVE  wire = kind
  BY DEF After, WireTypes, WIRE_VARINT, WIRE_I64, WIRE_LEN, WIRE_I32

(* A tag is followed by what its type says, or refused.                    *)
LEMMA GrammarTag ==
  ASSUME Inv, GrammarInv, read_tag
  PROVE  GrammarInv'
<1>1. phase = "tag" /\ Complete
  BY DEF read_tag
<1>2. /\ IsVarint(data, pos - k, pos + 1) /\ Value(data, pos - k, pos + 1) = Sum
      /\ \A j \in Int : IsVarint(data, pos - k, j) => j = pos + 1
      /\ pos - k \in Nat /\ pos + 1 \in 0 .. Len(data) /\ Sum \in Nat
  BY <1>1, VarintRead
<1>3. /\ data \in Seq(Bytes) /\ Len(data) \in Nat /\ k \in Nat /\ pos \in Nat
  BY BaseAssumption DEF Inv, TypeOK, Bytes
<1>4. pos - k < Len(data) /\ (IsMessage(data) <=> FieldsFrom(data, pos - k))
  BY <1>1, GrammarNow DEF Reading
<1>5. Sum \div 8 \in Nat
  <2>1. PICK n \in Nat : n = Sum
    BY <1>2
  <2> QED BY <2>1
<1>6. CASE ValidTag
  <2>1. PICK wire \in WireTypes : wire = WireType
    BY <1>6 DEF ValidTag, WireTypes
  <2>2. PICK p \in 0 .. Len(data) : p = pos + 1
    BY <1>2
  <2>3. PICK what : what = After(wire)
    OBVIOUS
  <2>4. Start(p, what)
    BY <1>6, <2>1, <2>2, <2>3 DEF read_tag
  <2>5. IsTag(data, pos - k, p, wire)
    <3>1. Sum \div 8 \in 1 .. MAX_FIELD_NUMBER
      BY <1>5, <1>6, SizeAssumption DEF ValidTag, TagNumber
    <3>2. Sum % 8 = wire
      BY <2>1 DEF WireType
    <3> QED BY <1>2, <2>2, <3>1, <3>2 DEF IsTag
  <2>6. pos - k \in 0 .. p
    BY <1>2, <1>3, <2>2
  <2>7. ASSUME NEW kind \in WireTypes, what = After(kind)
        PROVE  \E c \in 0 .. p : (IsMessage(data) <=> FieldsFrom(data, c)) /\ IsTag(data, c, p, kind)
    <3>1. kind = wire
      BY <2>3, <2>7, AfterInjective
    <3> QED BY <1>4, <2>5, <2>6, <3>1
  <2>8. what \notin {"end", "error", "tag"}
    BY <2>3 DEF After, WireTypes, WIRE_VARINT, WIRE_I64, WIRE_LEN, WIRE_I32
  <2>9. Reading(data, p, p, 0, what)
    BY <1>3, <2>7, <2>8, ReadingStart DEF Reading
  <2> QED BY <2>4, <2>9, GrammarStart
<1>7. CASE ~ValidTag
  <2>1. Fail(pos + 1)
    BY <1>7 DEF read_tag
  <2>2. ASSUME NEW j \in (pos - k) + 1 .. Len(data), IsField(data, pos - k, j) PROVE FALSE
    <3>1. PICK t \in (pos - k) + 1 .. j, wire \in WireTypes : IsTag(data, pos - k, t, wire)
      BY <2>2 DEF IsField
    <3>2. t = pos + 1
      BY <1>2, <3>1 DEF IsTag
    <3>3. Sum \div 8 \in 1 .. MAX_FIELD_NUMBER /\ Sum % 8 = wire
      BY <1>2, <3>1, <3>2 DEF IsTag
    <3>4. TagNumber # 0 /\ TagNumber <= MAX_FIELD_NUMBER
      BY <3>3 DEF TagNumber
    <3>5. WireType \in WireTypes
      BY <3>3 DEF WireType
    <3> QED BY <1>7, <3>4, <3>5 DEF ValidTag, WireTypes
  <2>3. pos - k \in 0 .. Len(data) /\ pos - k # Len(data)
    BY <1>2, <1>3, <1>4
  <2>4. ~IsMessage(data)
    BY <1>3, <1>4, <2>2, <2>3, FieldsByField
  <2> QED BY <1>2, <2>1, <2>4, GrammarFail
<1> QED BY <1>6, <1>7

(* A length and the bytes behind it.                                       *)
LEMMA GrammarLen ==
  ASSUME Inv, GrammarInv, read_len
  PROVE  GrammarInv'
<1> USE DEF WIRE_VARINT, WIRE_I64, WIRE_LEN, WIRE_I32
<1>1. phase = "len" /\ Complete /\ Take(pos + 1, Sum)
  BY DEF read_len
<1>2. /\ IsVarint(data, pos - k, pos + 1) /\ Value(data, pos - k, pos + 1) = Sum
      /\ \A j \in Int : IsVarint(data, pos - k, j) => j = pos + 1
      /\ pos - k \in Nat /\ pos + 1 \in 0 .. Len(data) /\ Sum \in Nat
  BY <1>1, VarintRead
<1>3. Len(data) \in Nat /\ k \in Nat /\ pos \in Nat
  BY BaseAssumption DEF Inv, TypeOK
<1>4. WIRE_LEN \in WireTypes /\ phase = After(WIRE_LEN)
  BY <1>1 DEF WireTypes, After
<1> HIDE DEF WIRE_LEN
<1>5. CASE pos + 1 + Sum <= Len(data)
  <2>1. PICK p \in 0 .. Len(data) : p = pos + 1 + Sum
    BY <1>2, <1>3, <1>5
  <2>2. NextField(p)
    BY <1>1, <1>5, <2>1 DEF Take
  <2>3. pos + 1 \in pos - k + 1 .. p /\ Sum = p - (pos + 1)
    BY <1>2, <1>3, <2>1
  <2>4. IsLengthDelimited(data, pos - k, p)
    BY <1>2, <2>3 DEF IsLengthDelimited
  <2>5. IsBody(data, pos - k, p, WIRE_LEN)
    BY <2>4 DEF IsBody
  <2> QED BY <1>4, <2>2, <2>5, GrammarBody
<1>6. CASE ~(pos + 1 + Sum <= Len(data))
  <2>1. Fail(pos + 1)
    BY <1>1, <1>6 DEF Take
  <2>2. ASSUME NEW j \in 0 .. Len(data), IsBody(data, pos - k, j, WIRE_LEN) PROVE FALSE
    <3>1. IsLengthDelimited(data, pos - k, j)
      BY <2>2 DEF IsBody, WIRE_LEN
    <3>2. PICK l \in pos - k + 1 .. j : IsVarint(data, pos - k, l) /\ Value(data, pos - k, l) = j - l
      BY <3>1 DEF IsLengthDelimited
    <3>3. l = pos + 1
      BY <1>2, <3>2
    <3>4. Sum = j - (pos + 1)
      BY <1>2, <3>2, <3>3
    <3> QED BY <1>2, <1>3, <1>6, <3>4
  <2> QED BY <1>2, <1>4, <2>1, <2>2, GrammarNoBody
<1> QED BY <1>5, <1>6

(* Four or eight bytes.                                                    *)
LEMMA GrammarFixed ==
  ASSUME Inv, GrammarInv, NEW n \in Nat, NEW wire \in WireTypes, phase = After(wire),
         phase \in {"fixed32", "fixed64"}, Take(pos, n),
         \A j : IsBody(data, pos, j, wire) <=> j - pos = n
  PROVE  GrammarInv'
<1>1. Len(data) \in Nat /\ k \in Nat /\ pos \in 0 .. Len(data)
  BY BaseAssumption DEF Inv, TypeOK
<1>2. pos - k = pos
  BY GrammarNow DEF Reading
<1>3. CASE pos + n <= Len(data)
  <2>1. PICK p \in 0 .. Len(data) : p = pos + n
    BY <1>1, <1>3
  <2>2. NextField(p)
    BY <1>3, <2>1 DEF Take
  <2>3. p - pos = n
    BY <1>1, <2>1
  <2>4. IsBody(data, pos - k, p, wire)
    BY <1>2, <2>3
  <2> QED BY <2>2, <2>4, GrammarBody
<1>4. CASE ~(pos + n <= Len(data))
  <2>1. Fail(pos)
    BY <1>4 DEF Take
  <2>2. ASSUME NEW j \in 0 .. Len(data), IsBody(data, pos - k, j, wire) PROVE FALSE
    <3>1. j - pos = n
      BY <1>2, <2>2
    <3> QED BY <1>1, <1>4, <3>1
  <2> QED BY <1>1, <2>1, <2>2, GrammarNoBody
<1> QED BY <1>3, <1>4

(* Reading keeps to the grammar.                                           *)
LEMMA GrammarStep == Inv /\ GrammarInv /\ [Next]_vars => GrammarInv'
<1> SUFFICES ASSUME Inv, GrammarInv, [Next]_vars PROVE GrammarInv'
  OBVIOUS
<1> USE DEF WIRE_VARINT, WIRE_I64, WIRE_LEN, WIRE_I32
<1>1. /\ data \in Seq(Bytes) /\ Len(data) \in Nat /\ pos \in 0 .. Len(data) /\ k \in Nat
      /\ k \in 0 .. Groups
  BY BaseAssumption DEF Inv, TypeOK, Bytes
<1>2. pos - k \in 0 .. Len(data) /\ Reading(data, pos - k, pos, exact, phase)
  BY <1>1, GrammarNow
<1>3. ASSUME InVarint, \A j \in pos - k + 1 .. Len(data) : ~IsVarint(data, pos - k, j)
      PROVE  ~IsMessage(data)
  BY <1>1, <1>2, <1>3, NoVarintNoMessage DEF InVarint
<1>4. CASE Truncated
  <2>1. InVarint /\ pos = Len(data) /\ Fail(pos)
    BY <1>4 DEF Truncated
  <2>2. ASSUME NEW j \in pos - k + 1 .. Len(data), IsVarint(data, pos - k, j) PROVE FALSE
    <3>1. j \in pos - k + 1 .. j /\ j \in 1 .. Len(data)
      BY <1>1, <1>2
    <3>2. data[j] < Base
      BY <2>2, <3>1 DEF IsVarint
    <3>3. data[j] >= Base
      BY <1>2, <2>1 DEF Reading
    <3>4. data[j] \in Bytes
      BY <1>1, <3>1, ElementOfSeq
    <3> QED BY <3>2, <3>3, <3>4, BaseAssumption DEF Bytes
  <2> QED BY <1>1, <1>3, <2>1, <2>2, GrammarFail
<1>5. CASE Overflow
  <2>1. InVarint /\ pos < Len(data) /\ k = Groups /\ Byte > 1 /\ Fail(pos + 1)
    BY <1>5 DEF Overflow, TooLarge
  <2>2. pos + 1 \in 0 .. Len(data)
    BY <1>1, <2>1
  <2>3. ASSUME NEW j \in pos - k + 1 .. Len(data), IsVarint(data, pos - k, j) PROVE FALSE
    <3>1. j > pos
      BY <2>1, <2>3, VarintSoFar
    <3>2. j - (pos - k) <= Groups + 1 /\ Value(data, pos - k, j) < U64
      BY <2>3, <1>1, BaseAssumption DEF IsVarint
    <3>3. j = pos + 1
      BY <1>1, <2>1, <3>1, <3>2, BaseAssumption
    <3>4. Byte < Base
      <4>1. j \in pos - k + 1 .. j
        OBVIOUS
      <4>2. data[j] < Base
        BY <2>3, <4>1 DEF IsVarint
      <4> QED BY <3>3, <4>2 DEF Byte
    <3>5. Digit = Byte /\ Digit \in Nat /\ Digit >= 2
      <4>1. Byte \in Nat
        BY <2>1, ByteType, BaseAssumption DEF Inv
      <4> QED BY <2>1, <3>4, <4>1, BaseAssumption DEF Digit
    <3>6. Value(data, pos - k, pos + 1) = exact + Digit * Weight[Groups]
      BY <2>1, VarintSoFar
    <3>7. exact \in Nat /\ Weight[Groups] \in Nat
      BY <1>1, <2>1, WeightType DEF Inv, TypeOK
    <3>8. exact + Digit * Weight[Groups] >= 2 * Weight[Groups]
      <4>1. PICK d \in Nat, w \in Nat, e \in Nat :
              d = Digit /\ w = Weight[Groups] /\ e = exact /\ d >= 2
        BY <3>5, <3>7
      <4>2. d * w = 2 * w + (d - 2) * w /\ (d - 2) * w \in Nat
        <5>1. d - 2 \in Nat
          BY <4>1
        <5> QED BY <5>1
      <4>3. d * w \in Nat
        BY <4>2
      <4>4. e + d * w >= 2 * w
        BY <4>2, <4>3
      <4> QED BY <4>1, <4>4
    <3>9. exact + Digit * Weight[Groups] \in Nat /\ 2 * Weight[Groups] \in Nat
      BY <3>5, <3>7
    <3> QED BY <3>2, <3>3, <3>6, <3>8, <3>9 DEF U64
  <2> QED BY <1>3, <2>1, <2>2, <2>3, GrammarFail
<1>6. CASE Continue
  <2>1. InVarint /\ pos < Len(data) /\ ~TooLarge /\ ~IsLast
    BY <1>6 DEF Continue
  <2>2. Byte \in 0 .. 2 * Base - 1 /\ Byte >= Base
    BY <2>1, ByteType, BaseAssumption DEF Inv, IsLast
  <2>3. k # Groups
    BY <2>1, <2>2, BaseAssumption DEF TooLarge
  <2>4. /\ pos' = pos + 1 /\ k' = k + 1 /\ exact' = exact + Digit * Weight[k]
        /\ data' = data /\ phase' = phase
    BY <1>6, <2>3 DEF Continue
  <2>5. PICK s, i, p, v, what :
          /\ s = data /\ i = pos - k /\ p = pos + 1 /\ v = exact + Digit * Weight[k] /\ what = phase
    OBVIOUS
  <2>6. pos' - k' = i /\ i \in Nat
    BY <1>1, <1>2, <2>4, <2>5
  <2>7. v = Value(s, i, p)
    BY <2>1, <2>5, VarintSoFar
  <2>8. ASSUME NEW b \in i + 1 .. p PROVE s[b] >= Base
    <3>1. CASE b = p
      BY <2>2, <2>5, <3>1 DEF Byte
    <3>2. CASE b # p
      <4>1. b \in pos - k + 1 .. pos
        BY <1>1, <2>5, <3>2
      <4> QED BY <1>2, <2>5, <4>1 DEF Reading
    <3> QED BY <3>1, <3>2
  <2>9. what \notin {"fixed32", "fixed64"}
    BY <2>1, <2>5 DEF InVarint
  <2>10. Reading(s, i, pos, exact, what)
    BY <1>2, <2>5
  <2>11. Reading(s, i, p, v, what)
    BY <2>7, <2>8, <2>9, <2>10 DEF Reading
  <2> QED BY <2>4, <2>5, <2>6, <2>11, GrammarNext
<1>7. CASE read_tag
  BY <1>7, GrammarTag
<1>8. CASE read_value
  <2>1. phase = "varint" /\ Complete /\ NextField(pos + 1)
    BY <1>8 DEF read_value
  <2>2. IsVarint(data, pos - k, pos + 1) /\ pos + 1 \in 0 .. Len(data)
    BY <2>1, VarintRead
  <2>3. WIRE_VARINT \in WireTypes /\ phase = After(WIRE_VARINT)
    BY <2>1 DEF WireTypes, After
  <2>4. IsBody(data, pos - k, pos + 1, WIRE_VARINT)
    BY <2>2 DEF IsBody
  <2> HIDE DEF WIRE_VARINT
  <2> QED BY <2>1, <2>2, <2>3, <2>4, GrammarBody
<1>9. CASE read_len
  BY <1>9, GrammarLen
<1>10. CASE read_fixed
  <2>1. CASE phase = "fixed32" /\ Take(pos, Fixed32)
    <3>1. WIRE_I32 \in WireTypes /\ phase = After(WIRE_I32)
      BY <2>1 DEF WireTypes, After
    <3>2. \A j : IsBody(data, pos, j, WIRE_I32) <=> j - pos = Fixed32
      BY DEF IsBody
    <3> HIDE DEF WIRE_I32
    <3> QED BY <2>1, <3>1, <3>2, SizeAssumption, GrammarFixed
  <2>2. CASE phase = "fixed64" /\ Take(pos, Fixed64)
    <3>1. WIRE_I64 \in WireTypes /\ phase = After(WIRE_I64)
      BY <2>2 DEF WireTypes, After
    <3>2. \A j : IsBody(data, pos, j, WIRE_I64) <=> j - pos = Fixed64
      BY DEF IsBody
    <3> HIDE DEF WIRE_I64
    <3> QED BY <2>2, <3>1, <3>2, SizeAssumption, GrammarFixed
  <2> QED BY <1>10, <2>1, <2>2 DEF read_fixed
<1>11. CASE UNCHANGED vars
  <2>1. data' = data /\ pos' = pos /\ phase' = phase /\ k' = k /\ exact' = exact
    BY <1>11 DEF vars
  <2>2. PICK s, i, p, v, what :
          s = data /\ i = pos - k /\ p = pos /\ v = exact /\ what = phase
    OBVIOUS
  <2>3. pos' - k' = i /\ i \in Nat
    BY <1>2, <2>1, <2>2
  <2>4. Reading(s, i, p, v, what)
    BY <1>2, <2>2
  <2> QED BY <2>1, <2>2, <2>3, <2>4, GrammarNext
<1> QED BY <1>4, <1>5, <1>6, <1>7, <1>8, <1>9, <1>10, <1>11 DEF Next, Step, Terminated

(* A reader at the start has everything to come.                           *)
LEMMA GrammarInit == Init => GrammarInv
<1> SUFFICES ASSUME Init PROVE GrammarInv
  OBVIOUS
<1>1. /\ data \in Seq(Bytes) /\ pos = 0 /\ k = 0 /\ exact = 0
      /\ phase = (IF data = <<>> THEN "end" ELSE "tag")
  BY InputsAssumption DEF Init, Bytes
<1>2. Len(data) \in Nat /\ (data = <<>> <=> Len(data) = 0)
  BY <1>1, LenProperties, EmptySeq
<1>3. IsMessage(data) <=> FieldsFrom(data, 0)
  BY <1>2, MessageIsFields
<1>4. Len(data) = 0 => IsMessage(data)
  BY <1>2, <1>3, FieldsByField
<1>5. \A wire \in WireTypes : phase # After(wire)
  BY <1>1 DEF After, WireTypes, WIRE_VARINT, WIRE_I64, WIRE_LEN, WIRE_I32
<1>6. Reading(data, 0, 0, 0, phase)
  BY <1>1, <1>2, <1>3, <1>4, <1>5, ReadingStart DEF Reading
<1> QED BY <1>1, <1>6 DEF GrammarInv

(* The reader accepts a string of bytes if and only if it is a message of  *)
(* the grammar, for every base, width and input: read_varint and its tests *)
(* for 64 bits, read_tag, read_len and the fixed sizes let nothing else    *)
(* through and refuse nothing that is well-formed.                         *)
THEOREM ReaderReadsTheGrammar == Spec => []ReadsTheGrammar
<1>1. Inv /\ GrammarInv => ReadsTheGrammar
  BY GrammarNow DEF Reading, ReadsTheGrammar
<1> QED BY <1>1, GrammarInit, GrammarStep, SpecInv, PTL DEF Spec

-----------------------------------------------------------------------------
(* The integers of Scalars, for words of any width.                        *)

(* zigzag (wire.rs) is a number of no sign, and is undone by unzigzag.     *)
LEMMA ZigzagInverse == ASSUME NEW n \in Int
  PROVE zigzag(n) \in Nat /\ unzigzag(zigzag(n)) = n
  BY DEF zigzag, unzigzag

(* The words of 64 bits are a multiple of those of 32.                     *)
LEMMA Words == /\ W32 \in Int /\ W32 >= 2 /\ W32 \div 2 \in Int /\ W32 = 2 * (W32 \div 2) /\ W32 \div 2 >= 1
               /\ W64 \in Int /\ W64 >= W32 /\ \E m \in Int : m >= 1 /\ W64 = W32 * m
<1>1. /\ W32 \in Int /\ W32 >= 2 /\ W32 \div 2 \in Int /\ W32 = 2 * (W32 \div 2) /\ W32 \div 2 >= 1
  BY WordAssumption
<1>2. W64 \in Int /\ W64 >= 1 /\ W64 % W32 = 0
  BY WordAssumption
<1>3. W64 = W32 * (W64 \div W32) /\ W64 \div W32 \in Int
  BY <1>1, <1>2, DivMod
<1>4. W64 \div W32 >= 1
  <2>1. CASE W64 \div W32 <= 0
    <3>1. W32 * (W64 \div W32) <= 0
      BY <1>1, <1>3, <2>1
    <3> QED BY <1>2, <1>3, <3>1
  <2> QED BY <1>3, <2>1
<1>5. W32 * (W64 \div W32) >= W32
  BY <1>1, <1>3, <1>4
<1> QED BY <1>1, <1>2, <1>3, <1>4, <1>5

(* A signed number of half the words of w is read back from a word of a    *)
(* multiple of w.                                                          *)
LEMMA HalfWord ==
  ASSUME NEW w \in Int, w % 2 = 0, w >= 2, NEW W \in Int, \E m \in Int : m >= 1 /\ W = w * m,
         NEW n \in Int, -(w \div 2) <= n, n <= w \div 2 - 1
  PROVE  AsSigned(n % W, w) = n
<1>1. PICK m \in Int : m >= 1 /\ W = w * m
  OBVIOUS
<1>2. PICK h \in Int : h = w \div 2 /\ w = 2 * h /\ -h <= n /\ n <= h - 1
  OBVIOUS
<1>3. W >= w
  BY <1>1
<1>4. \E j \in Int : n % W = n + w * j
  <2>1. CASE n >= 0
    <3>1. Division(n, W, 0, n)
      BY <1>2, <1>3, <2>1 DEF Division
    <3>2. n % W = n + w * 0
      BY <3>1, ModUnique
    <3> QED BY <3>2
  <2>2. CASE n < 0
    <3>1. Division(n, W, -1, n + W)
      BY <1>2, <1>3, <2>2 DEF Division
    <3>2. n % W = n + w * m
      BY <1>1, <3>1, ModUnique
    <3> QED BY <3>2
  <2> QED BY <2>1, <2>2
<1>5. PICK j \in Int : n % W = n + w * j
  BY <1>4
<1>6. Division(n + w * j + h, w, j, n + h)
  BY <1>2 DEF Division
<1>7. ((n % W) + h) % w = n + h
  BY <1>5, <1>6, ModUnique
<1> QED BY <1>2, <1>7 DEF AsSigned

(* Every integer of a type is read back from what is written for it.       *)
THEOREM IntegersRoundTrip ==
  ASSUME NEW scalar \in Integral, NEW n \in Ints(scalar)
  PROVE  WordInt(scalar, IntWord(scalar, n)) = n
<1> USE DEF Signed32, Signed64, Unsigned32, Unsigned64
<1>1. /\ W32 \in Int /\ W32 % 2 = 0 /\ W32 >= 2 /\ W32 = 2 * (W32 \div 2) /\ W32 \div 2 \in Int
      /\ W64 \in Int /\ W64 % 2 = 0 /\ W64 >= 2 /\ W64 = 2 * (W64 \div 2) /\ W64 \div 2 \in Int
      /\ \E m \in Int : m >= 1 /\ W64 = W32 * m
  <2>1. PICK m \in Int : m >= 1 /\ W64 = W32 * m
    BY Words
  <2>2. W64 = 2 * ((W32 \div 2) * m) /\ (W32 \div 2) * m \in Int
    BY <2>1, Words
  <2> QED BY <2>1, <2>2, Words
<1>2. CASE scalar \in {"Int32", "Sfixed32"}
  <2>1. n \in Int /\ -(W32 \div 2) <= n /\ n <= W32 \div 2 - 1
    BY <1>1, <1>2 DEF Ints
  <2>2. AsSigned(n % W64, W32) = n
    BY <1>1, <2>1, HalfWord
  <2>3. AsSigned(n % W32, W32) = n
    <3>1. 1 \in Int /\ 1 >= 1 /\ W32 = W32 * 1
      BY <1>1
    <3> QED BY <1>1, <2>1, <3>1, HalfWord
  <2> QED BY <1>2, <2>2, <2>3 DEF IntWord, WordInt
<1>3. CASE scalar \in {"Int64", "Sfixed64"}
  <2>1. n \in Int /\ -(W64 \div 2) <= n /\ n <= W64 \div 2 - 1
    BY <1>1, <1>3 DEF Ints
  <2>2. AsSigned(n % W64, W64) = n
    <3>1. 1 \in Int /\ 1 >= 1 /\ W64 = W64 * 1
      BY <1>1
    <3> QED BY <1>1, <2>1, <3>1, HalfWord
  <2> QED BY <1>3, <2>2 DEF IntWord, WordInt
<1>4. CASE scalar = "Sint32"
  <2>1. n \in Int /\ -(W32 \div 2) <= n /\ n <= W32 \div 2 - 1
    BY <1>1, <1>4 DEF Ints
  <2>2. zigzag(n) \in Int /\ 0 <= zigzag(n) /\ zigzag(n) < W32
    BY <1>1, <2>1 DEF zigzag
  <2>3. Division(zigzag(n), W32, 0, zigzag(n))
    BY <1>1, <2>2 DEF Division
  <2> QED BY <1>4, <2>1, <2>3, ModUnique, ZigzagInverse DEF IntWord, WordInt
<1>5. CASE scalar = "Sint64"
  <2>1. n \in Int
    BY <1>1, <1>5 DEF Ints
  <2> QED BY <1>5, <2>1, ZigzagInverse DEF IntWord, WordInt
<1>6. CASE scalar = "Uint32"
  <2>1. n \in Int /\ 0 <= n /\ n < W32
    BY <1>1, <1>6 DEF Ints
  <2>2. Division(n, W32, 0, n)
    BY <1>1, <2>1 DEF Division
  <2> QED BY <1>6, <2>2, ModUnique DEF IntWord, WordInt
<1>7. CASE scalar \in {"Fixed32", "Uint64", "Fixed64"}
  BY <1>7 DEF IntWord, WordInt
<1> QED BY <1>2, <1>3, <1>4, <1>5, <1>6, <1>7 DEF Integral

-----------------------------------------------------------------------------
(* WktArithmetic, for every day, every date and any units of time.         *)

(* The parts of a day number: eras of 400 years, then of a day of an era   *)
(* the centuries, cycles of four years and years, of which the last of     *)
(* each kind may have a day more.                                          *)
LEMMA ByEra == ASSUME NEW n \in Int
  PROVE n = 146097 * (n \div 146097) + (n % 146097) /\ 0 <= n % 146097 /\ n % 146097 <= 146096
        /\ n \div 146097 \in Int /\ n % 146097 \in Int
  OBVIOUS

(* A day of an era is in one of its centuries; the last has a day more.    *)
LEMMA ByCentury == ASSUME NEW d \in Int, 0 <= d, d <= 146096
  PROVE \E c \in 0 .. 3, r \in Int : d = 36524 * c + r /\ 0 <= r /\ r <= 36524 /\ (c < 3 => r < 36524)
<1>1. CASE d = 146096
  <2>1. d = 36524 * 3 + 36524 
    BY <1>1
  <2> QED BY <2>1
<1>2. CASE d # 146096
  <2>1. d = 36524 * (d \div 36524) + (d % 36524) /\ 0 <= d % 36524 /\ d % 36524 < 36524
    OBVIOUS
  <2>2. d \div 36524 \in 0 .. 3
    BY <1>2
  <2> QED BY <2>1, <2>2
<1> QED BY <1>1, <1>2

(* A day of a century is in one of its spans of four years.                *)
LEMMA ByFour == ASSUME NEW r \in Int, 0 <= r, r <= 36524
  PROVE \E q \in 0 .. 24, s \in Int : r = 1461 * q + s /\ 0 <= s /\ s <= 1460
<1>1. r = 1461 * (r \div 1461) + (r % 1461) /\ 0 <= r % 1461 /\ r % 1461 <= 1460
  OBVIOUS
<1>2. r \div 1461 \in 0 .. 24
  OBVIOUS
<1> QED BY <1>1, <1>2

(* A day of such a span is in one of its years.                            *)
LEMMA ByYear == ASSUME NEW s \in Int, 0 <= s, s <= 1460
  PROVE \E y \in 0 .. 3, t \in Int : s = 365 * y + t /\ 0 <= t /\ t <= 365 /\ (y < 3 => t < 365)
<1>1. CASE s = 1460
  <2>1. s = 365 * 3 + 365 
    BY <1>1
  <2> QED BY <2>1
<1>2. CASE s # 1460
  <2>1. s = 365 * (s \div 365) + (s % 365) /\ 0 <= s % 365 /\ s % 365 < 365
    OBVIOUS
  <2>2. s \div 365 \in 0 .. 3
    BY <1>2
  <2> QED BY <2>1, <2>2
<1> QED BY <1>1, <1>2

(* A day of an era in centuries c, cycles q, years x and days t.           *)
Split(d, c, q, x, t) ==
  /\ c \in 0 .. 3 /\ q \in 0 .. 24 /\ x \in 0 .. 3 /\ t \in Int /\ 0 <= t /\ t <= 365
  /\ t = 365 => x = 3 /\ (q < 24 \/ c = 3)
  /\ d = 36524 * c + 1461 * q + 365 * x + t

(* YearOfEra finds the year of such a day, whatever leap days are before   *)
(* it.                                                                     *)
LEMMA YearOfSplit ==
  ASSUME NEW d, NEW c, NEW q, NEW x, NEW t, Split(d, c, q, x, t)
  PROVE  /\ YearOfEra(d) = 100 * c + 4 * q + x
         /\ YearDays(100 * c + 4 * q + x) = 36524 * c + 1461 * q + 365 * x
         /\ 0 <= d /\ d <= 146096
<1> USE DEF Split
<1>1. d \in Int /\ 0 <= d /\ d <= 146096
  OBVIOUS
<1>2. d \div 1460 = 25 * c + q + (IF 24 * c + q + 365 * x + t >= 1460 THEN 1 ELSE 0)
  OBVIOUS
<1>3. d \div 36524 = c + (IF d = 146096 THEN 1 ELSE 0)
  OBVIOUS
<1>4. d \div 146096 = IF d = 146096 THEN 1 ELSE 0
  BY <1>1
<1>5. \E carry \in 0 .. 1 :
        /\ d - d \div 1460 + d \div 36524 - d \div 146096 = 365 * (100 * c + 4 * q + x) + (t - carry)
        /\ 0 <= t - carry /\ t - carry <= 364
  <2>1. CASE 24 * c + q + 365 * x + t >= 1460
    <3>1. d - d \div 1460 + d \div 36524 - d \div 146096 = 365 * (100 * c + 4 * q + x) + (t - 1)
      BY <1>1, <1>2, <1>3, <1>4, <2>1
    <3>2. t >= 1
      BY <2>1
    <3> QED BY <3>1, <3>2
  <2>2. CASE ~(24 * c + q + 365 * x + t >= 1460)
    <3>1. d - d \div 1460 + d \div 36524 - d \div 146096 = 365 * (100 * c + 4 * q + x) + t
      BY <1>1, <1>2, <1>3, <1>4, <2>2
    <3>2. t < 365
      BY <2>2
    <3> QED BY <3>1, <3>2
  <2> QED BY <2>1, <2>2
<1>6. YearOfEra(d) = 100 * c + 4 * q + x
  <2>1. PICK carry \in 0 .. 1 :
        /\ d - d \div 1460 + d \div 36524 - d \div 146096 = 365 * (100 * c + 4 * q + x) + (t - carry)
        /\ 0 <= t - carry /\ t - carry <= 364
    BY <1>5
  <2> QED BY <2>1 DEF YearOfEra
<1>7. (100 * c + 4 * q + x) \div 4 = 25 * c + q /\ (100 * c + 4 * q + x) \div 100 = c
  OBVIOUS
<1>8. YearDays(100 * c + 4 * q + x) = 36524 * c + 1461 * q + 365 * x
  BY <1>7 DEF YearDays
<1> QED BY <1>1, <1>6, <1>8

(* Every day of an era has a year of it, and is a day of that year.        *)
LEMMA YearBounds ==
  ASSUME NEW d \in Int, 0 <= d, d <= 146096
  PROVE  /\ YearOfEra(d) \in Int /\ 0 <= YearOfEra(d) /\ YearOfEra(d) <= 399
         /\ YearDays(YearOfEra(d)) \in Int
         /\ 0 <= d - YearDays(YearOfEra(d)) /\ d - YearDays(YearOfEra(d)) <= 365
<1>1. PICK c \in 0 .. 3, r \in Int : d = 36524 * c + r /\ 0 <= r /\ r <= 36524 /\ (c < 3 => r < 36524)
  BY ByCentury
<1>2. PICK q \in 0 .. 24, s \in Int : r = 1461 * q + s /\ 0 <= s /\ s <= 1460
  BY <1>1, ByFour
<1>3. PICK x \in 0 .. 3, t \in Int : s = 365 * x + t /\ 0 <= t /\ t <= 365 /\ (x < 3 => t < 365)
  BY <1>2, ByYear
<1>4. t = 365 => x = 3 /\ (q < 24 \/ c = 3)
  BY <1>1, <1>2, <1>3
<1>5. d = 36524 * c + 1461 * q + 365 * x + t
  BY <1>1, <1>2, <1>3
<1>6. /\ YearOfEra(d) = 100 * c + 4 * q + x
      /\ YearDays(100 * c + 4 * q + x) = 36524 * c + 1461 * q + 365 * x
  <2>1. Split(d, c, q, x, t)
    BY <1>3, <1>4, <1>5 DEF Split
  <2> QED BY <2>1, YearOfSplit
<1>7. 100 * c + 4 * q + x \in Int /\ 0 <= 100 * c + 4 * q + x /\ 100 * c + 4 * q + x <= 399
  OBVIOUS
<1> QED BY <1>3, <1>5, <1>6, <1>7

(* Every day of a year has a month, and is a day of that month.            *)
LEMMA MonthBounds ==
  ASSUME NEW d \in Int, 0 <= d, d <= 365
  PROVE  LET m == (5 * d + 2) \div 153
         IN  m \in 0 .. 11 /\ MonthDays(m) \in Int /\ 0 <= d - MonthDays(m) /\ d - MonthDays(m) <= 30
  BY DEF MonthDays

(* The month and the year of the calendar, from March.                     *)
MonthOf(m) == IF m < 10 THEN m + 3 ELSE m - 9
YearOf(era, y, m) == y + era * 400 + (IF MonthOf(m) <= 2 THEN 1 ELSE 0)

(* The month of an index, and the index of a month.                        *)
LEMMA MonthIndex == ASSUME NEW m \in 0 .. 11
  PROVE MonthOf(m) \in 1 .. 12 /\ (MonthOf(m) + 9) % 12 = m /\ (MonthOf(m) <= 2 <=> m >= 10)
  BY DEF MonthOf

(* Years of an era, and months of a year.                                  *)
InCalendar(era, y, m, day) ==
  era \in Int /\ y \in Int /\ 0 <= y /\ y <= 399 /\ m \in 0 .. 11 /\ day \in Int

(* The day number of a date given by its era, year and month.              *)
LEMMA DaysOfCivil ==
  ASSUME NEW era, NEW y, NEW m, NEW day, InCalendar(era, y, m, day)
  PROVE  days_from_civil(YearOf(era, y, m), MonthOf(m), day)
           = era * 146097 + YearDays(y) + MonthDays(m) + day - 1 - 719468
<1> USE DEF InCalendar
<1>1. MonthOf(m) \in 1 .. 12 /\ (MonthOf(m) + 9) % 12 = m
  BY MonthIndex
<1>2. /\ YearOf(era, y, m) \in Int
      /\ (IF MonthOf(m) <= 2 THEN YearOf(era, y, m) - 1 ELSE YearOf(era, y, m)) = y + era * 400
  BY <1>1 DEF YearOf
<1>3. (y + era * 400) \div 400 = era /\ y + era * 400 - era * 400 = y
  OBVIOUS
<1>4. days_from_civil(YearOf(era, y, m), MonthOf(m), day)
        = LET year == IF MonthOf(m) <= 2 THEN YearOf(era, y, m) - 1 ELSE YearOf(era, y, m)
          IN  (year \div 400) * 146097 + YearDays(year - (year \div 400) * 400)
              + MonthDays((MonthOf(m) + 9) % 12) + day - 1 - 719468
  BY DEF days_from_civil
<1> QED BY <1>1, <1>2, <1>3, <1>4

(* The parts that civil_from_days computes.                                *)
Decomposed(n, era, d, y, doy, m) ==
  /\ era = (n + 719468) \div 146097 /\ d = (n + 719468) % 146097
  /\ y = YearOfEra(d) /\ doy = d - YearDays(y) /\ m = (5 * doy + 2) \div 153

(* civil_from_days in the parts that it computes.                          *)
LEMMA CivilOfDays ==
  ASSUME NEW n \in Int, NEW era, NEW d, NEW y, NEW doy, NEW m, Decomposed(n, era, d, y, doy, m)
  PROVE  civil_from_days(n) = <<YearOf(era, y, m), MonthOf(m), doy - MonthDays(m) + 1>>
  BY DEF civil_from_days, YearOf, MonthOf, Decomposed

(* Every day number is that of the date civil_from_days gives for it       *)
(* (wkt.rs): no two days have one date.                                    *)
THEOREM CivilInverse ==
  ASSUME NEW n \in Int
  PROVE  LET date == civil_from_days(n) IN days_from_civil(date[1], date[2], date[3]) = n
<1> DEFINE era == (n + 719468) \div 146097
           d == (n + 719468) % 146097
           y == YearOfEra(d)
           doy == d - YearDays(y)
           m == (5 * doy + 2) \div 153
           day == doy - MonthDays(m) + 1
<1>1. civil_from_days(n) = <<YearOf(era, y, m), MonthOf(m), day>>
  <2>1. Decomposed(n, era, d, y, doy, m)
    BY DEF Decomposed
  <2> QED BY <2>1, CivilOfDays
<1> HIDE DEF day, m, doy, y, d, era
<1>2. /\ n + 719468 = 146097 * era + d /\ 0 <= d /\ d <= 146096
      /\ era \in Int /\ d \in Int
  BY ByEra DEF era, d
<1>3. /\ y \in Int /\ 0 <= y /\ y <= 399 /\ YearDays(y) \in Int
      /\ 0 <= d - YearDays(y) /\ d - YearDays(y) <= 365
  BY <1>2, YearBounds DEF y
<1>4. doy = d - YearDays(y) /\ doy \in Int /\ 0 <= doy /\ doy <= 365
  BY <1>2, <1>3 DEF doy
<1>5. /\ m \in 0 .. 11 /\ MonthDays(m) \in Int
      /\ day \in Int /\ day = doy - MonthDays(m) + 1
  <2>1. m \in 0 .. 11 /\ MonthDays(m) \in Int
    BY <1>4, MonthBounds DEF m
  <2> QED BY <1>4, <2>1 DEF day
<1>6. days_from_civil(YearOf(era, y, m), MonthOf(m), day)
        = era * 146097 + YearDays(y) + MonthDays(m) + day - 1 - 719468
  <2>1. InCalendar(era, y, m, day)
    BY <1>2, <1>3, <1>5 DEF InCalendar
  <2> QED BY <2>1, DaysOfCivil
<1>7. era * 146097 + YearDays(y) + MonthDays(m) + day - 1 - 719468 = n
  BY <1>2, <1>3, <1>4, <1>5
<1> QED BY <1>1, <1>6, <1>7

(* The day of a year that begins in March: the 366th only before a leap    *)
(* day.                                                                    *)
LEMMA YearOfDay ==
  ASSUME NEW y \in Int, 0 <= y, y <= 399, NEW doy \in Int, 0 <= doy, doy <= 365,
         doy = 365 => LeapYear(y + 1)
  PROVE  /\ YearDays(y) \in Int /\ 0 <= YearDays(y) + doy /\ YearDays(y) + doy <= 146096
         /\ YearOfEra(YearDays(y) + doy) = y
<1>1. PICK c \in 0 .. 3, q \in 0 .. 24, x \in 0 .. 3 : y = 100 * c + 4 * q + x
  <2>1. y \div 100 \in 0 .. 3 /\ (y % 100) \div 4 \in 0 .. 24 /\ y % 4 \in 0 .. 3
    OBVIOUS
  <2>2. y = 100 * (y \div 100) + 4 * ((y % 100) \div 4) + (y % 4)
    OBVIOUS
  <2> QED BY <2>1, <2>2
<1>2. YearDays(y) = 36524 * c + 1461 * q + 365 * x
  <2>1. y \div 4 = 25 * c + q /\ y \div 100 = c
    BY <1>1
  <2> QED BY <1>1, <2>1 DEF YearDays
<1>3. doy = 365 => x = 3 /\ (q < 24 \/ c = 3)
  <2>1. CASE doy = 365
    <3>1. (y + 1) % 4 = 0 /\ ((y + 1) % 100 # 0 \/ (y + 1) % 400 = 0)
      BY <2>1 DEF LeapYear
    <3>2. x = 3
      BY <1>1, <3>1
    <3>3. q = 24 => (y + 1) % 100 = 0
      BY <1>1, <3>2
    <3>4. q = 24 /\ (y + 1) % 400 = 0 => c = 3
      BY <1>1, <3>2
    <3> QED BY <3>1, <3>2, <3>3, <3>4
  <2> QED BY <2>1
<1>4. 100 * c + 4 * q + x = y
  BY <1>1
<1>5. PICK d : d = 36524 * c + 1461 * q + 365 * x + doy
  OBVIOUS
<1>6. YearOfEra(d) = 100 * c + 4 * q + x /\ 0 <= d /\ d <= 146096
  <2>1. Split(d, c, q, x, doy)
    BY <1>3, <1>5 DEF Split
  <2> QED BY <2>1, YearOfSplit
<1>7. YearDays(y) + doy = d /\ YearDays(y) \in Int
  BY <1>2, <1>5
<1> QED BY <1>4, <1>6, <1>7

(* The leap years repeat every 400 years.                                  *)
LEMMA LeapPeriod == ASSUME NEW a \in Int, NEW b \in Int, a % 400 = b % 400
  PROVE LeapYear(a) <=> LeapYear(b)
<1>1. a % 4 = b % 4 /\ a % 100 = b % 100
  OBVIOUS
<1> QED BY <1>1 DEF LeapYear

(* The place of a day of a month in its year, and back.                    *)
LEMMA DayOfMonth ==
  ASSUME NEW leap \in BOOLEAN, NEW month \in 1 .. 12, NEW day \in Int, 1 <= day,
         day <= (IF month = 2 THEN (IF leap THEN 29 ELSE 28)
                 ELSE IF month \in {4, 6, 9, 11} THEN 30 ELSE 31)
  PROVE  LET m == (month + 9) % 12
             doy == MonthDays(m) + day - 1
         IN  /\ m \in 0 .. 11 /\ MonthOf(m) = month /\ MonthDays(m) \in Int
             /\ 0 <= doy /\ doy <= 365 /\ (5 * doy + 2) \div 153 = m
             /\ doy = 365 => leap /\ month = 2
<1> DEFINE m == (month + 9) % 12
<1>1. m = IF month <= 2 THEN month + 9 ELSE month - 3
  OBVIOUS
<1>2. m \in 0 .. 11 /\ MonthOf(m) = month
  BY <1>1 DEF MonthOf
<1> HIDE DEF m
<1>3. MonthDays(m) \in Int
  BY <1>2 DEF MonthDays
<1>4. PICK doy \in Int : doy = MonthDays(m) + day - 1
  BY <1>3
<1>5. 0 <= doy /\ doy <= 365 /\ (5 * doy + 2) \div 153 = m /\ (doy = 365 => leap /\ month = 2)
  <2>1. CASE m = 0 BY <2>1, <1>1, <1>4 DEF MonthDays
  <2>2. CASE m = 1 BY <2>2, <1>1, <1>4 DEF MonthDays
  <2>3. CASE m = 2 BY <2>3, <1>1, <1>4 DEF MonthDays
  <2>4. CASE m = 3 BY <2>4, <1>1, <1>4 DEF MonthDays
  <2>5. CASE m = 4 BY <2>5, <1>1, <1>4 DEF MonthDays
  <2>6. CASE m = 5 BY <2>6, <1>1, <1>4 DEF MonthDays
  <2>7. CASE m = 6 BY <2>7, <1>1, <1>4 DEF MonthDays
  <2>8. CASE m = 7 BY <2>8, <1>1, <1>4 DEF MonthDays
  <2>9. CASE m = 8 BY <2>9, <1>1, <1>4 DEF MonthDays
  <2>10. CASE m = 9 BY <2>10, <1>1, <1>4 DEF MonthDays
  <2>11. CASE m = 10 BY <2>11, <1>1, <1>4 DEF MonthDays
  <2>12. CASE m = 11 BY <2>12, <1>1, <1>4 DEF MonthDays
  <2> QED BY <1>2, <2>1, <2>2, <2>3, <2>4, <2>5, <2>6, <2>7, <2>8, <2>9, <2>10, <2>11, <2>12
<1> QED BY <1>2, <1>3, <1>4, <1>5 DEF m

(* Every date of the calendar, of any year, is the one civil_from_days     *)
(* gives for its day number (wkt.rs).                                      *)
THEOREM DaysInverse ==
  ASSUME NEW year \in Int, NEW month \in 1 .. 12, NEW day \in 1 .. MonthLength(year, month)
  PROVE  /\ days_from_civil(year, month, day) \in Int
         /\ civil_from_days(days_from_civil(year, month, day)) = <<year, month, day>>
<1> DEFINE yy == IF month <= 2 THEN year - 1 ELSE year
           era == yy \div 400
           y == yy % 400
           m == (month + 9) % 12
           doy == MonthDays(m) + day - 1
           d == YearDays(y) + doy
           leap == LeapYear(year)
<1>1. /\ yy = y + era * 400 /\ yy \in Int /\ era \in Int /\ y \in Int /\ 0 <= y /\ y <= 399
  OBVIOUS
<1>2. /\ leap \in BOOLEAN /\ day \in Int /\ 1 <= day
      /\ day <= (IF month = 2 THEN (IF leap THEN 29 ELSE 28)
                 ELSE IF month \in {4, 6, 9, 11} THEN 30 ELSE 31)
  BY DEF MonthLength, LeapYear
<1>3. month = 2 /\ leap => LeapYear(y + 1)
  <2>1. month = 2 => year % 400 = (y + 1) % 400
    OBVIOUS
  <2> HIDE DEF y
  <2> QED BY <1>1, <2>1, LeapPeriod
<1>4. yy - era * 400 = y
  BY <1>1
<1>5. days_from_civil(year, month, day) = era * 146097 + YearDays(y) + MonthDays(m) + day - 1 - 719468
  BY <1>4 DEF days_from_civil
<1>6. year = YearOf(era, y, m) /\ month = MonthOf(m)
  <2>1. MonthOf(m) = month
    BY MonthIndex DEF MonthOf
  <2> HIDE DEF y, era, m
  <2> QED BY <1>1, <2>1 DEF YearOf
<1> HIDE DEF leap
<1>7. /\ m \in 0 .. 11 /\ MonthDays(m) \in Int
      /\ doy \in Int /\ 0 <= doy /\ doy <= 365 /\ (5 * doy + 2) \div 153 = m
      /\ doy = 365 => leap /\ month = 2
  BY <1>2, DayOfMonth
<1> HIDE DEF doy, m, y, era, yy
<1>8. /\ YearDays(y) \in Int /\ d \in Int /\ 0 <= d /\ d <= 146096
      /\ YearOfEra(d) = y /\ d - YearDays(y) = doy
  BY <1>1, <1>3, <1>7, YearOfDay
<1>9. PICK n \in Int : n = days_from_civil(year, month, day) /\ n + 719468 = 146097 * era + d
  <2>1. days_from_civil(year, month, day) = era * 146097 + YearDays(y) + (doy - 719468)
    BY <1>1, <1>2, <1>5, <1>7, <1>8 DEF doy
  <2> QED BY <1>1, <1>7, <1>8, <2>1 DEF d
<1> HIDE DEF d
<1>10. (n + 719468) \div 146097 = era /\ (n + 719468) % 146097 = d
  BY <1>1, <1>8, <1>9
<1>11. civil_from_days(n) = <<YearOf(era, y, m), MonthOf(m), doy - MonthDays(m) + 1>>
  <2>1. Decomposed(n, era, d, y, doy, m)
    BY <1>7, <1>8, <1>10 DEF Decomposed
  <2> QED BY <2>1, CivilOfDays
<1>12. doy - MonthDays(m) + 1 = day
  BY <1>2, <1>7 DEF doy
<1> QED BY <1>6, <1>9, <1>11, <1>12

(* What the units of time have in common.                                  *)
LEMMA Units ==
  /\ SecondsPerHour \in Int /\ SecondsPerHour > 0 /\ SecondsPerDay \in Int /\ SecondsPerDay > 0
  /\ MicrosPerSecond \in Int /\ MicrosPerSecond > 0 /\ NanosPerMicro \in Int /\ NanosPerMicro > 0
  /\ MicrosPerDay \in Int /\ MicrosPerDay > 0 /\ NanosPerSecond \in Int
  /\ SecondsPerDay = HoursPerDay * SecondsPerHour /\ HoursPerDay \in Int
  /\ SecondsPerHour = MinutesPerHour * SecondsPerMinute
  /\ MinutesPerHour \in Int /\ SecondsPerMinute \in Int /\ SecondsPerMinute > 0
  /\ MicrosPerDay = SecondsPerDay * MicrosPerSecond
  /\ NanosPerSecond = MicrosPerSecond * NanosPerMicro
<1>1. ASSUME NEW x \in Int, NEW y \in Int, x > 0, y > 0 PROVE x * y \in Int /\ x * y > 0
  <2>1. x * y >= x
    BY <1>1
  <2> QED BY <1>1, <2>1
<1>2. SecondsPerHour \in Int /\ SecondsPerHour > 0
  BY <1>1, UnitsAssumption DEF SecondsPerHour
<1>3. SecondsPerDay \in Int /\ SecondsPerDay > 0
  BY <1>1, <1>2, UnitsAssumption DEF SecondsPerDay
<1>4. MicrosPerDay \in Int /\ MicrosPerDay > 0
  BY <1>1, <1>3, UnitsAssumption DEF MicrosPerDay
<1> QED BY <1>2, <1>3, <1>4, UnitsAssumption
        DEF NanosPerSecond, SecondsPerDay, SecondsPerHour, MicrosPerDay

(* A number of fewer than b whole and fewer than c parts of each.          *)
LEMMA Parts == ASSUME NEW b \in Int, NEW c \in Int, b > 0, c > 0, NEW x \in Int, 0 <= x, x < b,
                      NEW y \in Int, 0 <= y, y < c
  PROVE x * c + y \in Int /\ 0 <= x * c + y /\ x * c + y < b * c
<1>1. x * c >= 0
  OBVIOUS
<1>2. (b - x) * c >= c
  <2>1. PICK m \in Int : m = b - x /\ m >= 1
    OBVIOUS
  <2>2. m * c >= c
    BY <2>1
  <2> QED BY <2>1, <2>2
<1>3. (b - x) * c = b * c - x * c
  OBVIOUS
<1> QED BY <1>1, <1>2, <1>3

(* Rust's division: the remainder has the sign of what is divided.         *)
LEMMA TruncatedQuotient == ASSUME NEW a \in Int, NEW b \in Int, b > 0
  PROVE /\ Quotient(a, b) \in Int /\ Remainder(a, b) \in Int
        /\ a = b * Quotient(a, b) + Remainder(a, b)
        /\ -b < Remainder(a, b) /\ Remainder(a, b) < b
        /\ Quotient(a, b) > 0 => Remainder(a, b) >= 0
        /\ Quotient(a, b) < 0 => Remainder(a, b) <= 0
<1>1. CASE a >= 0
  <2>1. PICK q \in Int, r \in Int : q = a \div b /\ r = a % b /\ 0 <= r /\ r < b /\ a = b * q + r
    BY DivMod
  <2>2. Quotient(a, b) = q /\ Remainder(a, b) = r
    BY <1>1, <2>1 DEF Quotient, Remainder
  <2>3. q >= 0
    <3>1. CASE q <= -1
      <4>1. b * q <= -b
        BY <3>1
      <4> QED BY <1>1, <2>1, <4>1
    <3> QED BY <3>1
  <2> QED BY <2>1, <2>2, <2>3
<1>2. CASE a < 0
  <2>1. PICK q \in Int, r \in Int : q = (-a) \div b /\ r = (-a) % b /\ 0 <= r /\ r < b /\ -a = b * q + r
    BY DivMod
  <2>2. Quotient(a, b) = -q
    BY <1>2, <2>1 DEF Quotient
  <2>3. b * (-q) = -(b * q)
    OBVIOUS
  <2>4. Remainder(a, b) = -r
    BY <2>1, <2>2, <2>3 DEF Remainder
  <2>5. q >= 0
    <3>1. CASE q <= -1
      <4>1. b * q <= -b
        BY <3>1
      <4> QED BY <1>2, <2>1, <4>1
    <3> QED BY <3>1
  <2> QED BY <2>1, <2>2, <2>3, <2>4, <2>5
<1> QED BY <1>1, <1>2

(* Division undoes multiplication, towards zero as well.                   *)
LEMMA QuotientOfProduct == ASSUME NEW r \in Int, NEW b \in Int, b > 0
  PROVE Quotient(r * b, b) = r
<1>1. CASE r >= 0
  <2>1. r * b >= 0 /\ r * b \in Int
    BY <1>1
  <2>2. Division(r * b, b, r, 0)
    BY DEF Division
  <2> QED BY <2>1, <2>2, ModUnique DEF Quotient
<1>2. CASE r < 0
  <2>1. r * b < 0 /\ r * b \in Int
    <3>1. (-r) * b >= b
      BY <1>2
    <3> QED BY <3>1
  <2>2. Division(-(r * b), b, -r, 0)
    BY DEF Division
  <2>3. (-(r * b)) \div b = -r
    BY <2>2, ModUnique
  <2> QED BY <2>1, <2>3 DEF Quotient
<1> QED BY <1>1, <1>2

(* duration_from_parts and duration_to_parts (wkt.rs): for every units of  *)
(* time, a timedelta becomes a Duration whose parts have one sign, as      *)
(* check_duration demands, and comes back as it was.                       *)
THEOREM DurationOfTimedelta ==
  ASSUME NEW days \in Int, NEW seconds \in 0 .. SecondsPerDay - 1,
         NEW microseconds \in 0 .. MicrosPerSecond - 1
  PROVE  LET pair == duration_from_parts(days, seconds, microseconds)
         IN  /\ pair[1] > 0 => pair[2] >= 0
             /\ pair[1] < 0 => pair[2] <= 0
             /\ duration_to_parts(pair[1], pair[2]) = <<days, seconds, microseconds>>
<1>0. /\ seconds \in Int /\ 0 <= seconds /\ seconds < SecondsPerDay
      /\ microseconds \in Int /\ 0 <= microseconds /\ microseconds < MicrosPerSecond
  BY Units
<1>1. PICK rest \in Int : rest = seconds * MicrosPerSecond + microseconds /\ 0 <= rest /\ rest < MicrosPerDay
  BY <1>0, Parts, Units
<1>2. PICK total \in Int : total = days * MicrosPerDay + rest
  BY <1>1, Units
<1>3. total = days * MicrosPerDay + seconds * MicrosPerSecond + microseconds
  BY <1>0, <1>1, <1>2, Units
<1>4. PICK q \in Int, r \in Int :
        /\ q = Quotient(total, MicrosPerSecond) /\ r = Remainder(total, MicrosPerSecond)
        /\ total = MicrosPerSecond * q + r
        /\ (q > 0 => r >= 0) /\ (q < 0 => r <= 0)
  BY TruncatedQuotient, Units
<1>5. duration_from_parts(days, seconds, microseconds) = <<q, r * NanosPerMicro>>
  BY <1>3, <1>4 DEF duration_from_parts
<1>6. (r >= 0 => r * NanosPerMicro >= 0) /\ (r <= 0 => r * NanosPerMicro <= 0)
  BY Units
<1>7. q * MicrosPerSecond + Quotient(r * NanosPerMicro, NanosPerMicro) = total
  <2>1. Quotient(r * NanosPerMicro, NanosPerMicro) = r
    BY QuotientOfProduct, Units
  <2> QED BY <1>4, <2>1, Units
<1>8. total \div MicrosPerDay = days /\ total % MicrosPerDay = rest
  <2>1. Division(total, MicrosPerDay, days, rest)
    BY <1>1, <1>2, Units DEF Division
  <2> QED BY <2>1, ModUnique
<1>9. rest \div MicrosPerSecond = seconds /\ rest % MicrosPerSecond = microseconds
  <2>1. Division(rest, MicrosPerSecond, seconds, microseconds)
    BY <1>0, <1>1, Units DEF Division
  <2> QED BY <2>1, ModUnique
<1>10. duration_to_parts(q, r * NanosPerMicro) = <<days, seconds, microseconds>>
  BY <1>7, <1>8, <1>9 DEF duration_to_parts
<1>11. PICK nanos :
         nanos = r * NanosPerMicro /\ (q > 0 => nanos >= 0) /\ (q < 0 => nanos <= 0)
  BY <1>4, <1>6
<1> QED BY <1>5, <1>10, <1>11

(* civil_to_timestamp and timestamp_to_civil (wkt.rs): for every units of  *)
(* time, the date, the time and the microsecond of a datetime in UTC come  *)
(* back as they were.                                                      *)
THEOREM TimestampOfDatetime ==
  ASSUME NEW year \in Int, NEW month \in 1 .. 12, NEW day \in 1 .. MonthLength(year, month),
         NEW hour \in 0 .. HoursPerDay - 1, NEW minute \in 0 .. MinutesPerHour - 1,
         NEW second \in 0 .. SecondsPerMinute - 1, NEW microsecond \in 0 .. MicrosPerSecond - 1
  PROVE  LET pair == civil_to_timestamp(<<year, month, day>>, <<hour, minute, second>>, microsecond, 0)
         IN  /\ timestamp_to_civil(pair[1])
                  = [date |-> <<year, month, day>>, time |-> <<hour, minute, second>>]
             /\ pair[2] \div NanosPerMicro = microsecond
<1>0. /\ hour \in Int /\ 0 <= hour /\ hour < HoursPerDay
      /\ minute \in Int /\ 0 <= minute /\ minute < MinutesPerHour
      /\ second \in Int /\ 0 <= second /\ second < SecondsPerMinute
      /\ microsecond \in Int /\ 0 <= microsecond /\ microsecond < MicrosPerSecond
  BY Units
<1>1. PICK days \in Int :
        /\ days = days_from_civil(year, month, day)
        /\ civil_from_days(days) = <<year, month, day>>
  BY DaysInverse
<1>2. PICK of_hour \in Int :
        of_hour = minute * SecondsPerMinute + second /\ 0 <= of_hour /\ of_hour < SecondsPerHour
  BY <1>0, Parts, Units
<1>3. PICK of_day \in Int :
        of_day = hour * SecondsPerHour + of_hour /\ 0 <= of_day /\ of_day < SecondsPerDay
  BY <1>0, <1>2, Parts, Units
<1>4. PICK seconds \in Int : seconds = days * SecondsPerDay + of_day
  BY <1>1, <1>3, Units
<1>5. seconds = days * SecondsPerDay + hour * SecondsPerHour + minute * SecondsPerMinute + second
  BY <1>0, <1>1, <1>2, <1>3, <1>4, Units
<1>6. PICK total \in Int : total = seconds * MicrosPerSecond + microsecond - 0
  BY <1>0, <1>4, Units
<1>7. total \div MicrosPerSecond = seconds /\ total % MicrosPerSecond = microsecond
  <2>1. Division(total, MicrosPerSecond, seconds, microsecond)
    BY <1>0, <1>6, Units DEF Division
  <2> QED BY <2>1, ModUnique
<1>8. civil_to_timestamp(<<year, month, day>>, <<hour, minute, second>>, microsecond, 0)
        = <<seconds, microsecond * NanosPerMicro>>
  BY <1>1, <1>5, <1>6, <1>7 DEF civil_to_timestamp
<1>9. seconds \div SecondsPerDay = days /\ seconds % SecondsPerDay = of_day
  <2>1. Division(seconds, SecondsPerDay, days, of_day)
    BY <1>1, <1>3, <1>4, Units DEF Division
  <2> QED BY <2>1, ModUnique
<1>10. of_day \div SecondsPerHour = hour /\ of_day % SecondsPerHour = of_hour
  <2>1. Division(of_day, SecondsPerHour, hour, of_hour)
    BY <1>0, <1>2, <1>3, Units DEF Division
  <2> QED BY <2>1, ModUnique
<1>11. of_hour \div SecondsPerMinute = minute
  <2>1. Division(of_hour, SecondsPerMinute, minute, second)
    BY <1>0, <1>2, Units DEF Division
  <2> QED BY <2>1, ModUnique
<1>12. of_day % SecondsPerMinute = second
  <2>1. Division(of_day, SecondsPerMinute, hour * MinutesPerHour + minute, second)
    <3>1. (hour * MinutesPerHour + minute) \in Int
      BY <1>0, Units
    <3>2. of_day = SecondsPerMinute * (hour * MinutesPerHour + minute) + second
      BY <1>0, <1>2, <1>3, Units
    <3> QED BY <1>0, <3>1, <3>2, Units DEF Division
  <2> QED BY <2>1, ModUnique
<1>13. (microsecond * NanosPerMicro) \div NanosPerMicro = microsecond
  <2>1. Division(microsecond * NanosPerMicro, NanosPerMicro, microsecond, 0)
    BY <1>0, Units DEF Division
  <2> QED BY <2>1, ModUnique
<1>14. timestamp_to_civil(seconds) = [date |-> <<year, month, day>>, time |-> <<hour, minute, second>>]
  BY <1>1, <1>9, <1>10, <1>11, <1>12 DEF timestamp_to_civil
<1> QED BY <1>8, <1>13, <1>14
=============================================================================
