------------------------- MODULE LengthPrefixProofs -------------------------
(***************************************************************************)
(* Proofs about LengthPrefix, for every size of digits and words, every    *)
(* set of fields and values, and buffers of every length: varint_len       *)
(* agrees with write_varint, lengths that are written in place are those   *)
(* one would write knowing them, and what is written is a message for the  *)
(* reader.                                                                 *)
(***************************************************************************)
EXTENDS LengthPrefix, Lemmas

(***************************************************************************)
(* Numbers.                                                                *)
(***************************************************************************)

(* A quotient is below c if and only if the dividend is below c times the  *)
(* divisor.                                                                *)
LEMMA DivBound ==
  ASSUME NEW a \in Nat, NEW b \in Nat \ {0}, NEW c \in Nat
  PROVE  a \div b \in Nat /\ (a \div b < c <=> a < b * c)
<1> DEFINE q == a \div b
<1>1. q \in Nat /\ b * q <= a /\ a < b * q + b
  OBVIOUS
<1>2. ASSUME q < c PROVE a < b * c
  <2>1. c - q - 1 \in Nat
    BY <1>1, <1>2
  <2>2. b * (c - q - 1) \in Nat
    BY <2>1
  <2>3. b * (c - q - 1) = b * c - b * q - b
    BY <1>1
  <2> QED BY <1>1, <2>2, <2>3
<1>3. ASSUME q >= c PROVE a >= b * c
  <2>1. q - c \in Nat
    BY <1>1, <1>3
  <2>2. b * (q - c) \in Nat
    BY <2>1
  <2>3. b * (q - c) = b * q - b * c
    BY <1>1
  <2> QED BY <1>1, <2>2, <2>3
<1>4. b * c \in Nat
  OBVIOUS
<1> QED BY <1>1, <1>2, <1>3, <1>4

(* What rounds up to p + 1.                                                *)
LEMMA DivCeilIs ==
  ASSUME NEW d \in Nat \ {0}, NEW p \in Nat, NEW n \in Nat,
         d * p < n, n <= d * (p + 1)
  PROVE  DivCeil(n, d) = p + 1
<1> DEFINE a == n + d - 1
<1>1. a \in Nat
  OBVIOUS
<1>2. d * (p + 1) \in Nat /\ d * (p + 2) \in Nat
  OBVIOUS
<1>3. d * (p + 1) = d * p + d /\ d * (p + 2) = d * p + d + d /\ d * p \in Nat
  OBVIOUS
<1>4. a < d * (p + 2) /\ a >= d * (p + 1)
  BY <1>2, <1>3
<1>5. a \div d < p + 2 /\ a \div d \in Nat
  <2>1. p + 2 \in Nat
    OBVIOUS
  <2> QED BY <1>1, <1>4, <2>1, DivBound
<1>6. ~(a \div d < p + 1)
  <2>1. p + 1 \in Nat
    OBVIOUS
  <2>2. ~(a < d * (p + 1))
    BY <1>1, <1>2, <1>4
  <2> QED BY <1>1, <2>1, <2>2, DivBound
<1> QED BY <1>5, <1>6 DEF DivCeil

(* Powers of two multiply as their exponents add.                          *)
LEMMA PowerProduct ==
  ASSUME NEW m \in 0 .. Width, NEW n \in 0 .. Width, m + n <= Width + Bits
  PROVE  /\ Power[m + n] = Power[m] * Power[n]
         /\ Power[m] \in Nat \ {0} /\ Power[n] \in Nat \ {0}
<1>1. m \in 0 .. Width + Bits /\ n \in 0 .. Width + Bits
  BY BitsAssumption
<1> QED BY <1>1, PowerAssumption

(* They grow with the exponent.                                            *)
LEMMA PowerMonotonic ==
  ASSUME NEW m \in 0 .. Width, NEW n \in 0 .. Width + Bits, m <= n, n - m <= Width
  PROVE  Power[m] <= Power[n] /\ Power[m] \in Nat \ {0} /\ Power[n] \in Nat \ {0}
<1> DEFINE d == n - m
<1>1. d \in 0 .. Width /\ m + d = n /\ m + d <= Width + Bits
  BY BitsAssumption
<1>2. Power[n] = Power[m] * Power[d] /\ Power[m] \in Nat \ {0} /\ Power[d] \in Nat \ {0}
  <2> HIDE DEF d
  <2>1. Power[m + d] = Power[m] * Power[d] /\ Power[m] \in Nat \ {0} /\ Power[d] \in Nat \ {0}
    BY <1>1, PowerProduct
  <2> QED BY <1>1, <2>1
<1>3. ASSUME NEW x \in Nat \ {0}, NEW y \in Nat \ {0} PROVE x <= x * y /\ x * y \in Nat \ {0}
  <2>1. x * (y - 1) \in Nat /\ x * (y - 1) = x * y - x
    <3>1. y - 1 \in Nat
      BY <1>3
    <3> QED BY <3>1, <1>3
  <2> QED BY <2>1, <1>3
<1> QED BY <1>2, <1>3

(* A byte has more than one digit.                                         *)
LEMMA BaseType == Base \in Nat \ {0} /\ Base >= 2
<1>1. 1 \in 0 .. Width /\ Bits \in 0 .. Width + Bits /\ 1 <= Bits /\ Bits - 1 <= Width
  BY BitsAssumption
<1>2. Power[1] <= Power[Bits] /\ Power[Bits] \in Nat \ {0}
  BY <1>1, PowerMonotonic
<1> QED BY <1>2, PowerAssumption DEF Base

(* A shift stays inside the word.                                          *)
LEMMA ShiftBounds ==
  ASSUME NEW i \in Shifts
  PROVE  i \in Nat /\ Bits * i \in 0 .. Width
<1> DEFINE q == Width \div Bits
<1>1. q \in Nat /\ Bits * q <= Width
  BY BitsAssumption
<1>2. i \in Nat /\ q - i \in Nat
  BY <1>1 DEF Shifts
<1>3. Bits * (q - i) \in Nat /\ Bits * i \in Nat
  BY <1>2, BitsAssumption
<1>4. Bits * (q - i) = Bits * q - Bits * i
  BY <1>1, <1>2, BitsAssumption
<1>5. Bits * i <= Bits * q /\ Width \in Nat
  BY <1>1, <1>3, <1>4, BitsAssumption
<1> HIDE DEF q
<1> QED BY <1>1, <1>2, <1>3, <1>5, BitsAssumption

(* What is left after i shifts is one digit if the value has no higher     *)
(* bits.                                                                   *)
LEMMA ShiftedBelow ==
  ASSUME NEW v \in Nat, NEW i \in Shifts
  PROVE  /\ Shifted(v, i) \in Nat
         /\ Bits * i + Bits \in 0 .. Width + Bits
         /\ Shifted(v, i) < Base <=> v < Power[Bits * i + Bits]
<1> DEFINE m == Bits * i
           w == Power[m]
<1>1. m \in 0 .. Width
  BY ShiftBounds
<1>2. Bits \in 0 .. Width /\ m + Bits <= Width + Bits /\ m + Bits \in 0 .. Width + Bits
  BY <1>1, BitsAssumption
<1>3. Power[m + Bits] = w * Base /\ w \in Nat \ {0} /\ Base \in Nat
  <2> HIDE DEF m
  <2> QED BY <1>1, <1>2, PowerProduct DEF Base
<1>4. v \div w \in Nat /\ (v \div w < Base <=> v < w * Base)
  <2> HIDE DEF w
  <2> QED BY <1>3, DivBound
<1>5. Shifted(v, i) = v \div w
  BY DEF Shifted
<1> HIDE DEF m, w
<1>6. Shifted(v, i) \in Nat /\ (Shifted(v, i) < Base <=> v < Power[m + Bits])
  BY <1>3, <1>4, <1>5
<1> QED BY <1>2, <1>6 DEF m

(* write_varint goes round until one digit is left, and no longer.         *)
LEMMA RoundsProperties ==
  ASSUME NEW v \in 0 .. U64 - 1
  PROVE  /\ Rounds(v) \in Shifts
         /\ Shifted(v, Rounds(v)) < Base
         /\ \A j \in Shifts : j < Rounds(v) => Shifted(v, j) >= Base
<1> DEFINE P(i) == Shifted(v, i) < Base /\ \A j \in Shifts : j < i => Shifted(v, j) >= Base
           T == {i \in Shifts : Shifted(v, i) < Base}
           q == Width \div Bits
<1>1. q \in Nat /\ Bits * q <= Width /\ Width < Bits * q + Bits /\ Bits * q \in Nat
  BY BitsAssumption
<1>2. q \in Shifts
  BY <1>1 DEF Shifts
<1>3. v \in Nat /\ v < Power[Width]
  <2>1. Width \in 0 .. Width + Bits
    BY BitsAssumption
  <2>2. Power[Width] \in Nat
    BY <2>1, PowerAssumption
  <2> QED BY <2>2 DEF U64
<1>4. Shifted(v, q) < Base
  <2> DEFINE n == Bits * q + Bits
  <2>1. Width \in 0 .. Width /\ n \in 0 .. Width + Bits /\ Width <= n /\ n - Width <= Width
    BY <1>1, BitsAssumption
  <2>2. Power[Width] <= Power[n] /\ Power[Width] \in Nat /\ Power[n] \in Nat
    <3> HIDE DEF n
    <3> QED BY <2>1, PowerMonotonic
  <2>3. v < Power[n]
    BY <1>3, <2>2
  <2> QED BY <1>2, <1>3, <2>3, ShiftedBelow
<1>5. \A i \in Shifts : i \in Nat /\ Shifted(v, i) \in Nat /\ Base \in Nat
  BY <1>3, ShiftBounds, ShiftedBelow, BaseType
<1>6. PICK i \in T : \A j \in T : i <= j
  <2>1. T \subseteq Nat /\ T # {}
    BY <1>2, <1>4, <1>5
  <2> HIDE DEF T
  <2> QED BY <2>1, LeastElement
<1>7. i \in Shifts /\ P(i)
  BY <1>5, <1>6
<1>8. Rounds(v) = CHOOSE x \in Shifts : P(x)
  BY DEF Rounds
<1> HIDE DEF P
<1>9. Rounds(v) \in Shifts /\ P(Rounds(v))
  BY <1>7, <1>8, Zenon
<1> QED BY <1>9 DEF P

(* The significant bits of a value are those it needs.                     *)
LEMMA SignificantProperties ==
  ASSUME NEW v \in 0 .. U64 - 1
  PROVE  /\ Significant(v) \in 0 .. Width
         /\ v < Power[Significant(v)]
         /\ \A m \in 0 .. Width : m < Significant(v) => v >= Power[m]
<1> DEFINE P(n) == v < Power[n] /\ \A m \in 0 .. Width : m < n => v >= Power[m]
           T == {n \in 0 .. Width : v < Power[n]}
<1>1. \A n \in 0 .. Width : Power[n] \in Nat
  <2>1. \A n \in 0 .. Width : n \in 0 .. Width + Bits
    BY BitsAssumption
  <2> QED BY <2>1, PowerAssumption
<1>2. v \in Nat /\ v < Power[Width] /\ Width \in 0 .. Width
  BY <1>1, BitsAssumption DEF U64
<1>3. PICK n \in T : \A m \in T : n <= m
  <2>1. T \subseteq Nat /\ T # {}
    BY <1>2, BitsAssumption
  <2> HIDE DEF T
  <2> QED BY <2>1, LeastElement
<1>4. n \in 0 .. Width /\ P(n)
  BY <1>1, <1>2, <1>3
<1>5. Significant(v) = CHOOSE x \in 0 .. Width : P(x)
  BY DEF Significant
<1> HIDE DEF P
<1>6. Significant(v) \in 0 .. Width /\ P(Significant(v))
  BY <1>4, <1>5, Zenon
<1> QED BY <1>6 DEF P

(* varint_len counts what write_varint writes.                             *)
THEOREM VarintLengths ==
  \A v \in 0 .. U64 - 1 : varint_len(v) = Rounds(v) + 1 /\ Len(write_varint(v)) = Rounds(v) + 1
<1> SUFFICES ASSUME NEW v \in 0 .. U64 - 1
             PROVE  varint_len(v) = Rounds(v) + 1 /\ Len(write_varint(v)) = Rounds(v) + 1
  OBVIOUS
<1> DEFINE w == IF v % 2 = 0 THEN v + 1 ELSE v
           p == Rounds(v)
           n == Significant(w)
<1>1. U64 \in Nat /\ U64 % 2 = 0 /\ v \in Nat
  <2>1. Width - 1 \in 0 .. Width /\ 1 \in 0 .. Width /\ 1 + (Width - 1) = Width
        /\ 1 + (Width - 1) <= Width + Bits
    BY BitsAssumption
  <2>2. Power[1 + (Width - 1)] = Power[1] * Power[Width - 1] /\ Power[Width - 1] \in Nat
    BY <2>1, PowerProduct
  <2>3. U64 = 2 * Power[Width - 1]
    BY <2>1, <2>2, PowerAssumption DEF U64
  <2> QED BY <2>2, <2>3
<1>2. w \in 0 .. U64 - 1 /\ v <= w /\ w % 2 = 1
      /\ \A x \in Nat : x % 2 = 0 /\ v < x => w < x
  BY <1>1
<1>3. p \in Shifts /\ Shifted(v, p) < Base /\ \A j \in Shifts : j < p => Shifted(v, j) >= Base
  BY RoundsProperties
<1>4. n \in 0 .. Width /\ w < Power[n] /\ \A m \in 0 .. Width : m < n => w >= Power[m]
  <2> HIDE DEF w
  <2> QED BY <1>2, SignificantProperties
<1>5. p \in Nat /\ Bits * p \in 0 .. Width
  BY <1>3, ShiftBounds
<1>6. v < Power[Bits * p + Bits] /\ Bits * p + Bits \in 0 .. Width + Bits
  BY <1>1, <1>3, ShiftedBelow
(* It has no more bits than p + 1 digits.                                  *)
<1>7. n <= Bits * p + Bits
  <2>1. CASE Bits * p + Bits > Width
    BY <2>1, <1>4, <1>5, BitsAssumption
  <2>2. CASE Bits * p + Bits <= Width
    <3> DEFINE m == Bits * p + Bits
    <3>1. m \in 0 .. Width /\ m >= 1
      BY <2>2, <1>5, <1>6, BitsAssumption
    <3>2. Power[m] \in Nat /\ Power[m] % 2 = 0
      <4>1. m - 1 \in 0 .. Width /\ 1 \in 0 .. Width /\ 1 + (m - 1) = m /\ 1 + (m - 1) <= Width + Bits
        BY <3>1, BitsAssumption
      <4> HIDE DEF m
      <4>2. Power[1 + (m - 1)] = Power[1] * Power[m - 1] /\ Power[m - 1] \in Nat
        BY <4>1, PowerProduct
      <4>3. Power[m] = 2 * Power[m - 1]
        BY <4>1, <4>2, PowerAssumption
      <4> QED BY <4>2, <4>3
    <3>3. w < Power[m]
      <4>1. v < Power[m]
        BY <1>6
      <4> HIDE DEF m, w
      <4> QED BY <1>2, <3>2, <4>1
    <3>4. ~(m < n)
      <4>1. w \in Nat
        BY <1>1, <1>2
      <4> HIDE DEF m, w, n
      <4> QED BY <1>4, <3>1, <3>2, <3>3, <4>1
    <3> QED BY <1>4, <3>1, <3>4
  <2> QED BY <2>1, <2>2, <1>5, <1>6, BitsAssumption
(* It has more bits than p digits.                                         *)
<1>8. Bits * p < n
  <2>1. w >= Power[Bits * p]
    <3>1. CASE p = 0
      <4>1. Bits * p = 0 /\ w >= 1
        BY <3>1, <1>1, <1>2, BitsAssumption
      <4> QED BY <4>1, PowerAssumption
    <3>2. CASE p > 0
      <4> DEFINE j == p - 1
      <4>1. j \in Shifts /\ j < p
        <5> DEFINE q == Width \div Bits
        <5>1. q \in Nat /\ Shifts = 0 .. q
          BY BitsAssumption DEF Shifts
        <5> HIDE DEF q
        <5> QED BY <5>1, <3>2, <1>3, <1>5
      <4>2. Shifted(v, j) >= Base
        BY <4>1, <1>3
      <4>3. Bits * j + Bits = Bits * p
        BY <1>5, BitsAssumption
      <4>4. Shifted(v, j) \in Nat /\ (Shifted(v, j) < Base <=> v < Power[Bits * j + Bits])
        <5> HIDE DEF j
        <5> QED BY <1>1, <4>1, ShiftedBelow
      <4>5. ~(v < Power[Bits * p])
        <5> HIDE DEF j
        <5> QED BY <4>2, <4>3, <4>4, BaseType
      <4>6. Power[Bits * p] \in Nat
        <5>1. Bits * p \in 0 .. Width + Bits
          BY <1>5, BitsAssumption
        <5> QED BY <5>1, PowerAssumption
      <4> HIDE DEF w
      <4> QED BY <1>1, <1>2, <4>5, <4>6
    <3> QED BY <3>1, <3>2, <1>5
  <2>2. ASSUME n <= Bits * p PROVE FALSE
    <3>1. Bits * p \in 0 .. Width + Bits /\ Bits * p - n <= Width
      BY <1>4, <1>5, BitsAssumption
    <3>2. Power[n] <= Power[Bits * p] /\ Power[n] \in Nat /\ Power[Bits * p] \in Nat
      <4> HIDE DEF n
      <4> QED BY <1>4, <2>2, <3>1, PowerMonotonic
    <3>3. w \in Nat
      BY <1>1, <1>2
    <3> HIDE DEF w, n
    <3> QED BY <1>4, <2>1, <3>2, <3>3
  <2> HIDE DEF n
  <2> QED BY <2>2, <1>4, <1>5
<1>9. DivCeil(n, Bits) = p + 1
  <2>1. Bits * (p + 1) = Bits * p + Bits /\ n \in Nat
    BY <1>4, <1>5, BitsAssumption
  <2> HIDE DEF n, p
  <2> QED BY <1>5, <1>7, <1>8, <2>1, BitsAssumption, DivCeilIs
<1>10. varint_len(v) = p + 1
  BY <1>9 DEF varint_len
<1>11. Len(write_varint(v)) = p + 1
  BY <1>5 DEF write_varint
<1> QED BY <1>10, <1>11

(***************************************************************************)
(* Bytes.                                                                  *)
(***************************************************************************)

(* The bound of the words is a number.                                     *)
LEMMA U64Type == U64 \in Nat
<1>1. Width \in 0 .. Width + Bits
  BY BitsAssumption
<1> QED BY <1>1, PowerAssumption DEF U64

(* A digit is a byte, with and without its continuation bit.               *)
LEMMA DigitBytes ==
  ASSUME NEW v \in Nat, NEW i \in Shifts
  PROVE  Digit(v, i) \in 0 .. Base - 1 /\ Digit(v, i) \in Bytes /\ Digit(v, i) + Base \in Bytes
<1>1. Shifted(v, i) \in Nat
  BY ShiftedBelow
<1>2. Digit(v, i) \in 0 .. Base - 1
  BY <1>1, BaseType DEF Digit
<1> QED BY <1>2, BaseType DEF Bytes

(* A varint is one byte for each round and the last.                       *)
LEMMA VarintBytes ==
  ASSUME NEW v \in 0 .. U64 - 1
  PROVE  /\ write_varint(v) \in Seq(Bytes)
         /\ Len(write_varint(v)) = Rounds(v) + 1
         /\ Rounds(v) \in Nat
<1> DEFINE p == Rounds(v)
<1>1. p \in Shifts /\ p \in Nat
  BY RoundsProperties, ShiftBounds
<1>2. v \in Nat
  BY U64Type
<1>3. \A i \in 1 .. p + 1 : i - 1 \in Shifts
  <2> DEFINE q == Width \div Bits
  <2>1. q \in Nat /\ Shifts = 0 .. q
    BY BitsAssumption DEF Shifts
  <2> HIDE DEF q, p
  <2> QED BY <2>1, <1>1
<1>4. \A i \in 1 .. p + 1 : write_varint(v)[i] \in Bytes
  <2> SUFFICES ASSUME NEW i \in 1 .. p + 1 PROVE write_varint(v)[i] \in Bytes
    OBVIOUS
  <2>1. Digit(v, i - 1) \in Bytes /\ Digit(v, i - 1) + Base \in Bytes
        /\ Digit(v, i - 1) \in 0 .. Base - 1
    BY <1>2, <1>3, DigitBytes
  <2>2. write_varint(v)[i] = Digit(v, i - 1) + (IF i <= p THEN Base ELSE 0)
    BY DEF write_varint
  <2>3. CASE i <= p
    BY <2>1, <2>2, <2>3
  <2>4. CASE ~(i <= p)
    <3>1. write_varint(v)[i] = Digit(v, i - 1) + 0
      BY <2>2, <2>4
    <3>2. Digit(v, i - 1) \in Int
      BY <2>1
    <3> QED BY <2>1, <3>1, <3>2
  <2> QED BY <2>3, <2>4
<1>5. write_varint(v) \in [1 .. p + 1 -> Bytes]
  <2>1. write_varint(v) = [i \in 1 .. p + 1 |-> write_varint(v)[i]]
    BY DEF write_varint
  <2> QED BY <2>1, <1>4
<1>6. Len(write_varint(v)) = p + 1
  BY <1>1 DEF write_varint
<1> QED BY <1>1, <1>5, <1>6

(* A tag is some bytes.                                                    *)
LEMMA TagBytes ==
  ASSUME NEW n \in Numbers, NEW wire \in 0 .. 7
  PROVE  write_tag(n, wire) \in Seq(Bytes)
<1>1. n \in Nat /\ 8 * n + 7 < U64
  BY ValuesAssumption
<1>2. U64 \in Nat
  BY U64Type
<1>3. encode_tag(n, wire) \in 0 .. U64 - 1
  BY <1>1, <1>2 DEF encode_tag
<1> QED BY <1>3, VarintBytes DEF write_tag

(* So is a value.                                                          *)
LEMMA WrittenBytes ==
  ASSUME NEW e \in Values
  PROVE  Written(e) \in Seq(Bytes) /\ e.wire \in 0 .. 7
<1>1. /\ e.wire \in 0 .. 7
      /\ e.number \in 0 .. U64 - 1
      /\ e.bytes \in Seq(Bytes)
      /\ Len(e.bytes) < U64
  BY ValuesAssumption
<1>2. U64 \in Nat
  BY U64Type
<1>3. Len(e.bytes) \in 0 .. U64 - 1
  BY <1>1, <1>2, LenProperties
<1>4. write_varint(e.number) \in Seq(Bytes) /\ write_varint(Len(e.bytes)) \in Seq(Bytes)
  BY <1>1, <1>3, VarintBytes
<1>5. write_varint(Len(e.bytes)) \o e.bytes \in Seq(Bytes)
  BY <1>1, <1>4, ConcatProperties
<1> QED BY <1>1, <1>4, <1>5 DEF Written

(* What the end of write_len_delimited leaves in the buffer.               *)
InPlace(b, start, len) ==
  LET prefix == varint_len(len)
  IN  IF prefix = 1
      THEN [b EXCEPT ![start] = len % (2 * Base)]
      ELSE Patch(Splice(b, start, prefix - 1), start, prefix, len)

(* It is the varint of the length, between what was there before.          *)
LEMMA InPlaceIs ==
  ASSUME NEW b \in Seq(Bytes), NEW start \in 1 .. Len(b), Len(b) - start < U64
  PROVE  LET v == write_varint(Len(b) - start)
         IN  InPlace(b, start, Len(b) - start)
               = [i \in 1 .. Len(b) + Len(v) - 1 |->
                    IF i < start THEN b[i]
                    ELSE IF i < start + Len(v) THEN v[i - start + 1]
                    ELSE b[i - (Len(v) - 1)]]
<1> DEFINE len == Len(b) - start
           v == write_varint(len)
           p == Rounds(len)
           New == [i \in 1 .. Len(b) + Len(v) - 1 |->
                     IF i < start THEN b[i]
                     ELSE IF i < start + Len(v) THEN v[i - start + 1]
                     ELSE b[i - (Len(v) - 1)]]
<1>1. Len(b) \in Nat /\ DOMAIN b = 1 .. Len(b) /\ b = [i \in 1 .. Len(b) |-> b[i]]
  BY LenProperties
<1>2. len \in 0 .. U64 - 1 /\ len \in Nat
  BY <1>1, U64Type
<1>3. Len(v) = p + 1 /\ p \in Nat /\ varint_len(len) = p + 1
  <2> HIDE DEF len
  <2> QED BY <1>2, VarintBytes, VarintLengths
<1>4. \A i \in 1 .. p + 1 : v[i] = Digit(len, i - 1) + (IF i <= p THEN Base ELSE 0)
  BY DEF write_varint
<1>5. \A i \in 1 .. p + 1 : Digit(len, i - 1) \in Int
  <2>1. p \in Shifts
    <3> HIDE DEF len
    <3> QED BY <1>2, RoundsProperties
  <2>2. \A i \in 1 .. p + 1 : i - 1 \in Shifts
    <3> DEFINE q == Width \div Bits
    <3>1. q \in Nat /\ Shifts = 0 .. q
      BY BitsAssumption DEF Shifts
    <3> HIDE DEF q, p
    <3> QED BY <2>1, <3>1
  <2> HIDE DEF len, p
  <2> QED BY <1>2, <2>2, DigitBytes
<1>6. CASE p = 0
  <2>1. v[1] = len
    <3>1. Shifted(len, 0) = len
      <4>1. Bits * 0 = 0
        BY BitsAssumption
      <4> HIDE DEF len
      <4> QED BY <1>2, <4>1, PowerAssumption DEF Shifted
    <3>2. len < Base
      <4> HIDE DEF len
      <4> QED BY <1>2, <1>6, <3>1, RoundsProperties
    <3>3. v[1] = Digit(len, 0) + 0
      BY <1>4, <1>6
    <3>4. Digit(len, 0) = len
      <4> HIDE DEF len
      <4> QED BY <1>2, <3>1, <3>2, BaseType DEF Digit
    <3> HIDE DEF len, v
    <3> QED BY <1>2, <3>3, <3>4
  <2>2. len % (2 * Base) = len
    <3>1. Shifted(len, 0) = len
      <4>1. Bits * 0 = 0
        BY BitsAssumption
      <4> HIDE DEF len
      <4> QED BY <1>2, <4>1, PowerAssumption DEF Shifted
    <3>2. len < Base
      <4> HIDE DEF len
      <4> QED BY <1>2, <1>6, <3>1, RoundsProperties
    <3> HIDE DEF len
    <3> QED BY <1>2, <3>2, BaseType
  <2>3. InPlace(b, start, len) = [b EXCEPT ![start] = len]
    <3>1. varint_len(len) = 1
      <4> HIDE DEF len, p
      <4> QED BY <1>3, <1>6
    <3> HIDE DEF len
    <3> QED BY <2>2, <3>1 DEF InPlace
  <2>4. Len(v) = 1
    <3> HIDE DEF v, len, p
    <3> QED BY <1>3, <1>6
  <2>5. New = [i \in 1 .. Len(b) |-> IF i = start THEN len ELSE b[i]]
    <3>1. New = [i \in 1 .. Len(b) |-> IF i < start THEN b[i]
                                       ELSE IF i < start + 1 THEN v[i - start + 1] ELSE b[i]]
      <4> HIDE DEF v, len
      <4> QED BY <1>1, <2>4
    <3> HIDE DEF v, len, New
    <3> QED BY <1>1, <2>1, <3>1
  <2>6. [b EXCEPT ![start] = len] = [i \in 1 .. Len(b) |-> IF i = start THEN len ELSE b[i]]
    <3> HIDE DEF len
    <3> QED BY <1>1
  <2> QED BY <2>3, <2>5, <2>6
<1>7. CASE p > 0
  <2> DEFINE s == Splice(b, start, p)
             t == Patch(s, start, p + 1, len)
  <2>1. InPlace(b, start, len) = t
    <3>1. varint_len(len) # 1 /\ varint_len(len) - 1 = p
      <4> HIDE DEF len, p
      <4> QED BY <1>3, <1>7
    <3>2. InPlace(b, start, len) = Patch(Splice(b, start, varint_len(len) - 1), start, varint_len(len), len)
      <4> HIDE DEF len
      <4> QED BY <3>1 DEF InPlace
    <3> QED BY <3>1, <3>2, <1>3
  <2>2. s = [i \in 1 .. Len(b) + p |-> IF i <= start THEN b[i] ELSE IF i <= start + p THEN 0 ELSE b[i - p]]
        /\ Len(s) = Len(b) + p
    <3> HIDE DEF len, p
    <3> QED BY <1>1, <1>3 DEF Splice
  <2>3. t = [i \in 1 .. Len(b) + p |->
               IF i \in start .. start + p - 1 THEN Digit(len, i - start) + Base
               ELSE IF i = start + p THEN Digit(len, i - start)
               ELSE s[i]]
    <3> HIDE DEF len, p, s
    <3>1. start + (p + 1) - 2 = start + p - 1 /\ start + (p + 1) - 1 = start + p
      BY <1>3
    <3> QED BY <2>2, <3>1 DEF Patch
  <2>4. New = [i \in 1 .. Len(b) + p |->
                 IF i < start THEN b[i]
                 ELSE IF i < start + (p + 1) THEN v[i - start + 1]
                 ELSE b[i - p]]
    <3>1. Len(v) = p + 1 /\ Len(b) + Len(v) - 1 = Len(b) + p /\ Len(v) - 1 = p
      <4> HIDE DEF v, len, p
      <4> QED BY <1>1, <1>3
    <3> HIDE DEF v, len, p
    <3> QED BY <3>1
  <2>5. ASSUME NEW i \in 1 .. Len(b) + p PROVE t[i] = New[i]
    <3> HIDE DEF v, len, p, s, t, New
    <3>1. i \in Nat /\ start \in Nat
      BY <1>1, <1>3
    <3>2. CASE i < start
      <4>1. New[i] = b[i]
        BY <2>4, <3>2
      <4>2. t[i] = s[i]
        BY <1>3, <2>3, <3>1, <3>2
      <4>3. s[i] = b[i]
        BY <2>2, <3>1, <3>2
      <4> QED BY <4>1, <4>2, <4>3
    <3>3. CASE i >= start /\ i < start + p
      <4>1. i - start + 1 \in 1 .. p + 1 /\ i - start + 1 <= p /\ i - start + 1 - 1 = i - start
        BY <1>3, <3>1, <3>3
      <4>2. v[i - start + 1] = Digit(len, i - start) + Base
        BY <1>4, <4>1
      <4>3. New[i] = v[i - start + 1]
        BY <1>3, <2>4, <3>1, <3>3
      <4>4. t[i] = Digit(len, i - start) + Base
        BY <1>3, <2>3, <3>1, <3>3
      <4> QED BY <4>2, <4>3, <4>4
    <3>4. CASE i = start + p
      <4>1. i - start + 1 \in 1 .. p + 1 /\ ~(i - start + 1 <= p) /\ i - start + 1 - 1 = i - start
        BY <1>3, <3>1, <3>4
      <4>2. v[i - start + 1] = Digit(len, i - start) + 0 /\ Digit(len, i - start) \in Int
        BY <1>4, <1>5, <4>1
      <4>3. New[i] = v[i - start + 1]
        BY <1>3, <2>4, <3>1, <3>4
      <4>4. t[i] = Digit(len, i - start)
        BY <1>3, <2>3, <3>1, <3>4
      <4> QED BY <4>2, <4>3, <4>4
    <3>5. CASE i > start + p
      <4>1. New[i] = b[i - p]
        BY <1>3, <2>4, <3>1, <3>5
      <4>2. t[i] = s[i]
        BY <1>3, <2>3, <3>1, <3>5
      <4>3. s[i] = b[i - p]
        BY <1>3, <2>2, <3>1, <3>5
      <4> QED BY <4>1, <4>2, <4>3
    <3> QED BY <3>1, <3>2, <3>3, <3>4, <3>5, <1>3
  <2>6. t = New
    <3> HIDE DEF v, len, p, s
    <3> QED BY <2>3, <2>4, <2>5
  <2> QED BY <2>1, <2>6
<1>8. InPlace(b, start, len) = New
  <2>1. p = 0 \/ p > 0
    <3> HIDE DEF p
    <3> QED BY <1>3
  <2> QED BY <2>1, <1>6, <1>7, Zenon
<1> QED BY <1>8

(***************************************************************************)
(* Slices of sequences.                                                    *)
(***************************************************************************)

(* What SubSeq takes, for positions in range.                              *)
LEMMA Slice ==
  ASSUME NEW S, NEW s \in Seq(S), NEW a \in 1 .. Len(s) + 1, NEW b \in a - 1 .. Len(s)
  PROVE  /\ SubSeq(s, a, b) \in Seq(S)
         /\ Len(SubSeq(s, a, b)) = b - a + 1
         /\ \A i \in 1 .. b - a + 1 : SubSeq(s, a, b)[i] = s[a + i - 1]
<1>1. Len(s) \in Nat /\ a \in Int /\ b \in Int
  BY LenProperties
<1>2. \A i \in a .. b : s[i] \in S
  <2>1. \A i \in a .. b : i \in 1 .. Len(s)
    BY <1>1
  <2> QED BY <2>1, ElementOfSeq
<1>3. /\ SubSeq(s, a, b) \in Seq(S)
      /\ Len(SubSeq(s, a, b)) = IF a <= b THEN b - a + 1 ELSE 0
      /\ \A i \in 1 .. b - a + 1 : SubSeq(s, a, b)[i] = s[a + i - 1]
  BY <1>1, <1>2, SubSeqProperties
<1>4. (IF a <= b THEN b - a + 1 ELSE 0) = b - a + 1
  BY <1>1
<1> QED BY <1>3, <1>4

(* Sequences that agree from a to b have the same slice.                   *)
LEMMA SliceAgrees ==
  ASSUME NEW S, NEW s \in Seq(S), NEW t \in Seq(S),
         NEW a \in Nat \ {0}, NEW b \in Nat, a <= b + 1, b <= Len(s), b <= Len(t),
         \A i \in a .. b : s[i] = t[i]
  PROVE  SubSeq(s, a, b) = SubSeq(t, a, b)
<1> DEFINE u == SubSeq(s, a, b)
           w == SubSeq(t, a, b)
<1>1. Len(s) \in Nat /\ Len(t) \in Nat
  BY LenProperties
<1>2. a \in 1 .. Len(s) + 1 /\ b \in a - 1 .. Len(s) /\ a \in 1 .. Len(t) + 1 /\ b \in a - 1 .. Len(t)
  BY <1>1
<1>3. u \in Seq(S) /\ Len(u) = b - a + 1 /\ \A i \in 1 .. b - a + 1 : u[i] = s[a + i - 1]
  BY <1>2, Slice
<1>4. w \in Seq(S) /\ Len(w) = b - a + 1 /\ \A i \in 1 .. b - a + 1 : w[i] = t[a + i - 1]
  BY <1>2, Slice
<1>5. \A i \in 1 .. b - a + 1 : s[a + i - 1] = t[a + i - 1]
  <2>1. \A i \in 1 .. b - a + 1 : a + i - 1 \in a .. b
    OBVIOUS
  <2> QED BY <2>1
<1> HIDE DEF u, w
<1>6. Len(u) = Len(w) /\ \A i \in 1 .. Len(u) : u[i] = w[i]
  BY <1>3, <1>4, <1>5
<1>7. u = w
  BY <1>3, <1>4, <1>6, SeqEqual
<1> QED BY <1>7 DEF u, w

(* The same for a common prefix.                                           *)
LEMMA PrefixAgrees ==
  ASSUME NEW S, NEW s \in Seq(S), NEW t \in Seq(S), NEW n \in Nat, n <= Len(s), n <= Len(t),
         \A i \in 1 .. n : s[i] = t[i],
         NEW a \in Nat \ {0}, a <= n + 1
  PROVE  SubSeq(s, a, n) = SubSeq(t, a, n)
<1>1. \A i \in a .. n : s[i] = t[i]
  <2>1. \A i \in a .. n : i \in 1 .. n
    OBVIOUS
  <2> QED BY <2>1
<1> QED BY <1>1, SliceAgrees

(* The tail of a concatenation.                                            *)
LEMMA SliceOfConcat ==
  ASSUME NEW S, NEW s \in Seq(S), NEW t \in Seq(S), NEW a \in 1 .. Len(s) + 1
  PROVE  SubSeq(s \o t, a, Len(s) + Len(t)) = SubSeq(s, a, Len(s)) \o t
<1> DEFINE st == s \o t
           u == SubSeq(st, a, Len(s) + Len(t))
           v == SubSeq(s, a, Len(s))
           w == v \o t
           n == Len(s) - a + 1
<1>1. Len(s) \in Nat /\ Len(t) \in Nat /\ n \in Nat
  BY LenProperties
<1>2. /\ st \in Seq(S)
      /\ Len(st) = Len(s) + Len(t)
      /\ \A i \in 1 .. Len(s) + Len(t) : st[i] = IF i <= Len(s) THEN s[i] ELSE t[i - Len(s)]
  BY ConcatProperties
<1>3. /\ v \in Seq(S)
      /\ Len(v) = n
      /\ \A i \in 1 .. n : v[i] = s[a + i - 1]
  <2>1. Len(s) \in a - 1 .. Len(s)
    BY <1>1
  <2> QED BY <2>1, Slice
<1>4. /\ w \in Seq(S)
      /\ Len(w) = n + Len(t)
      /\ \A i \in 1 .. n + Len(t) : w[i] = IF i <= n THEN v[i] ELSE t[i - n]
  <2> HIDE DEF v, n
  <2>1. \A i \in 1 .. Len(v) + Len(t) : w[i] = IF i <= Len(v) THEN v[i] ELSE t[i - Len(v)]
    BY <1>3, ConcatProperties
  <2>2. w \in Seq(S) /\ Len(w) = Len(v) + Len(t)
    BY <1>3, ConcatProperties
  <2> QED BY <1>3, <2>1, <2>2
<1>5. /\ u \in Seq(S)
      /\ Len(u) = n + Len(t)
      /\ \A i \in 1 .. n + Len(t) : u[i] = st[a + i - 1]
  <2>1. a \in 1 .. Len(st) + 1 /\ Len(s) + Len(t) \in a - 1 .. Len(st)
    BY <1>1, <1>2
  <2>2. Len(s) + Len(t) - a + 1 = n + Len(t)
    BY <1>1
  <2> HIDE DEF st, n
  <2> QED BY <1>2, <2>1, <2>2, Slice
<1>6. ASSUME NEW i \in 1 .. n + Len(t) PROVE u[i] = w[i]
  <2>1. a + i - 1 \in 1 .. Len(s) + Len(t)
    BY <1>1
  <2> HIDE DEF u, v, w, st
  <2>2. CASE i <= n
    <3>1. i \in 1 .. n /\ a + i - 1 <= Len(s)
      BY <2>2, <1>1
    <3>2. u[i] = s[a + i - 1]
      BY <1>2, <1>5, <2>1, <3>1
    <3>3. w[i] = v[i] /\ v[i] = s[a + i - 1]
      <4> HIDE DEF n
      <4> QED BY <1>3, <1>4, <2>2, <3>1
    <3> QED BY <3>2, <3>3
  <2>3. CASE i > n
    <3>1. ~(a + i - 1 <= Len(s)) /\ a + i - 1 - Len(s) = i - n
      BY <2>3, <1>1
    <3>2. u[i] = t[i - n]
      <4> HIDE DEF n
      <4>1. u[i] = st[a + i - 1]
        BY <1>5
      <4>2. st[a + i - 1] = t[a + i - 1 - Len(s)]
        BY <1>2, <2>1, <3>1
      <4> QED BY <3>1, <4>1, <4>2
    <3>3. w[i] = t[i - n]
      <4>1. ~(i <= n)
        BY <2>3, <1>1
      <4> HIDE DEF n
      <4> QED BY <1>4, <4>1
    <3> QED BY <3>2, <3>3
  <2> QED BY <2>2, <2>3, <1>1
<1> HIDE DEF u, v, w, st, n
<1>7. u = w
  <2>1. Len(u) = Len(w) /\ \A i \in 1 .. Len(u) : u[i] = w[i]
    BY <1>4, <1>5, <1>6
  <2> QED BY <1>4, <1>5, <2>1, SeqEqual
<1> QED BY <1>7 DEF u, v, w, st

(***************************************************************************)
(* The payloads in the buffer.                                             *)
(***************************************************************************)

(* Each open call has its length byte in the buffer.                       *)
LEMMA FramePositions ==
  ASSUME TypeOK
  PROVE  /\ Depth \in Nat
         /\ \A i \in 1 .. Depth : /\ frames[i].start \in 1 .. Len(buf)
                                  /\ frames[i].packed \in BOOLEAN
                                  /\ frames[i] = Frame(frames[i].start, frames[i].packed)
         /\ \A i, j \in 1 .. Depth : i < j => frames[i].start < frames[j].start
<1> DEFINE F == [start : 1 .. Len(buf), packed : BOOLEAN]
<1>1. frames \in Seq(F)
  BY DEF TypeOK
<1>2. Depth \in Nat
  <2> HIDE DEF F
  <2> QED BY <1>1, LenProperties DEF Depth
<1>3. \A i \in 1 .. Depth : frames[i] \in F
  <2> HIDE DEF F
  <2> QED BY <1>1, ElementOfSeq DEF Depth
<1>4. \A i \in 1 .. Depth : /\ frames[i].start \in 1 .. Len(buf)
                            /\ frames[i].packed \in BOOLEAN
                            /\ frames[i] = Frame(frames[i].start, frames[i].packed)
  BY <1>3 DEF Frame
<1> QED BY <1>2, <1>4 DEF TypeOK

(* The payload of a level lies in the buffer.                              *)
LEMMA PayloadPositions ==
  ASSUME TypeOK, NEW i \in 1 .. Depth + 1
  PROVE  /\ First(i) \in 1 .. Len(buf) + 1
         /\ Last(i) \in First(i) - 1 .. Len(buf)
<1>1. Len(buf) \in Nat
  BY LenProperties DEF TypeOK
<1>2. Depth \in Nat /\ i \in Nat
  BY FramePositions
<1>3. First(i) \in 1 .. Len(buf) + 1
  <2>1. CASE i = 1
    BY <2>1, <1>1 DEF First
  <2>2. CASE i # 1
    <3>1. i - 1 \in 1 .. Depth
      BY <2>2, <1>2
    <3>2. frames[i - 1].start \in 1 .. Len(buf)
      BY <3>1, FramePositions
    <3>3. First(i) = frames[i - 1].start + 1
      BY <2>2 DEF First
    <3> QED BY <3>2, <3>3, <1>1
  <2> QED BY <2>1, <2>2
<1>4. Last(i) \in First(i) - 1 .. Len(buf)
  <2>1. CASE i = Depth + 1
    <3>1. Last(i) = Len(buf)
      BY <2>1 DEF Last
    <3> QED BY <3>1, <1>1, <1>3
  <2>2. CASE i # Depth + 1
    <3>1. i \in 1 .. Depth
      BY <2>2, <1>2
    <3>2. frames[i].start \in 1 .. Len(buf)
      BY <3>1, FramePositions
    <3>3. Last(i) = frames[i].start - 1
      BY <2>2 DEF Last
    <3>4. First(i) <= frames[i].start
      <4>1. CASE i = 1
        BY <4>1, <3>2, <1>1 DEF First
      <4>2. CASE i # 1
        <5>1. i - 1 \in 1 .. Depth /\ i - 1 < i
          BY <4>2, <3>1, <1>2
        <5>2. frames[i - 1].start < frames[i].start
          BY <3>1, <5>1, FramePositions
        <5>3. First(i) = frames[i - 1].start + 1
          BY <4>2 DEF First
        <5>4. frames[i - 1].start \in Nat
          BY <5>1, FramePositions
        <5> QED BY <5>2, <5>3, <5>4, <3>2
      <4> QED BY <4>1, <4>2
    <3> QED BY <1>1, <1>3, <3>2, <3>3, <3>4
  <2> QED BY <2>1, <2>2
<1> QED BY <1>3, <1>4

(* It is a sequence of bytes.                                              *)
LEMMA PayloadBytes ==
  ASSUME TypeOK, NEW i \in 1 .. Depth + 1
  PROVE  Payload(i) \in Seq(Bytes) /\ Len(Payload(i)) = Last(i) - First(i) + 1
<1>1. First(i) \in 1 .. Len(buf) + 1 /\ Last(i) \in First(i) - 1 .. Len(buf)
  BY PayloadPositions
<1>2. buf \in Seq(Bytes)
  BY DEF TypeOK
<1> QED BY <1>1, <1>2, Slice DEF Payload

(* A step that leaves the first d calls alone, and what is before their    *)
(* reserved bytes, leaves their payloads alone.                            *)
LEMMA LevelsBelow ==
  ASSUME TypeOK, TypeOK', NEW d \in Nat, d <= Depth, d <= Len(frames'),
         \A i \in 1 .. d : frames'[i] = frames[i],
         \A i \in 1 .. d : \A j \in 1 .. frames[i].start - 1 : buf'[j] = buf[j]
  PROVE  /\ \A i \in 1 .. d + 1 : /\ First(i)' = First(i)
                                  /\ Packed(i)' = Packed(i)
         /\ \A i \in 1 .. d : Levels'[i] = Levels[i]
<1>1. Depth \in Nat /\ Depth' = Len(frames') /\ Len(frames') \in Nat
  <2>1. Depth \in Nat
    BY FramePositions
  <2>2. frames' \in Seq([start : 1 .. Len(buf'), packed : BOOLEAN])
    BY DEF TypeOK
  <2>3. Depth' = Len(frames') /\ Len(frames') \in Nat
    BY <2>2, LenProperties DEF Depth
  <2> QED BY <2>1, <2>3
<1>2. ASSUME NEW i \in 1 .. d + 1
      PROVE  First(i)' = First(i)
             /\ Packed(i)' = Packed(i)
  <2>1. CASE i = 1
    BY <2>1 DEF First, Packed
  <2>2. CASE i # 1
    <3>1. i - 1 \in 1 .. d
      BY <2>2
    <3>2. frames'[i - 1] = frames[i - 1]
      BY <3>1
    <3> QED BY <2>2, <3>2 DEF First, Packed
  <2> QED BY <2>1, <2>2
<1>3. ASSUME NEW i \in 1 .. d PROVE Levels'[i] = Levels[i]
  <2>1. i \in 1 .. Depth /\ i \in 1 .. Depth + 1 /\ i # Depth + 1
    BY <1>1
  <2>2. /\ i \in 1 .. Len(frames') /\ i \in 1 .. Len(frames') + 1 /\ i # Len(frames') + 1
        /\ i \in 1 .. d + 1
    BY <1>1
  <2>3. Last(i) = frames[i].start - 1 /\ Last(i)' = frames[i].start - 1
    BY <2>1, <2>2, <1>1 DEF Last
  <2>4. First(i)' = First(i)
    BY <1>2, <2>2
  <2>5. buf \in Seq(Bytes) /\ buf' \in Seq(Bytes)
    BY DEF TypeOK
  <2>6. First(i) \in 1 .. Len(buf) + 1 /\ Last(i) \in First(i) - 1 .. Len(buf)
    BY <2>1, PayloadPositions
  <2>7. frames[i].start \in 1 .. Len(buf) /\ frames[i].start \in 1 .. Len(buf')
    <3>1. frames[i].start \in 1 .. Len(buf)
      BY <2>1, FramePositions
    <3>2. frames'[i] \in [start : 1 .. Len(buf'), packed : BOOLEAN]
      <4>1. frames' \in Seq([start : 1 .. Len(buf'), packed : BOOLEAN])
        BY DEF TypeOK
      <4>2. i \in 1 .. Len(frames')
        BY <2>2
      <4> QED BY <4>1, <4>2, ElementOfSeq
    <3>3. frames'[i] = frames[i]
      OBVIOUS
    <3> QED BY <3>1, <3>2, <3>3
  <2>8. Payload(i)' = Payload(i)
    <3> DEFINE a == First(i)
               b == frames[i].start - 1
    <3>1. Len(buf) \in Nat /\ Len(buf') \in Nat
      BY <2>5, LenProperties
    <3>2. a \in Nat \ {0} /\ b \in Nat /\ a <= b + 1 /\ b <= Len(buf) /\ b <= Len(buf')
      BY <2>3, <2>6, <2>7, <3>1, SMTT(30)
    <3>3. \A j \in a .. b : buf'[j] = buf[j]
      <4>1. \A j \in a .. b : j \in 1 .. frames[i].start - 1
        BY <2>6, <2>7
      <4> QED BY <4>1
    <3>4. SubSeq(buf', a, b) = SubSeq(buf, a, b)
      <4> HIDE DEF a, b
      <4> QED BY <2>5, <3>2, <3>3, SliceAgrees
    <3> QED BY <2>3, <2>4, <3>4 DEF Payload
  <2>9. Packed(i)' = Packed(i)
    BY <1>2, <2>2
  <2>10. Levels[i] = [packed |-> Packed(i), bytes |-> Payload(i)]
    BY <2>1 DEF Levels
  <2>11. Levels'[i] = [packed |-> Packed(i)',
                       bytes |-> Payload(i)']
    BY <2>2, <1>1 DEF Levels
  <2> QED BY <2>8, <2>9, <2>10, <2>11
<1> QED BY <1>2, <1>3

(* One level for the message and one for each open call.                   *)
LEMMA LevelsLength ==
  ASSUME TypeOK
  PROVE  /\ Len(Levels) = Depth + 1
         /\ \A i \in 1 .. Depth + 1 : Levels[i] = Nested!Level(Packed(i), Payload(i))
         /\ Levels[Depth + 1].packed <=> InPacked
<1>1. Depth \in Nat
  BY FramePositions
<1>2. Len(Levels) = Depth + 1
  BY <1>1 DEF Levels
<1>3. \A i \in 1 .. Depth + 1 : Levels[i] = Nested!Level(Packed(i), Payload(i))
  BY DEF Levels, Nested!Level
<1>4. Levels[Depth + 1].packed <=> InPacked
  <2>1. Levels[Depth + 1].packed = Packed(Depth + 1)
    <3>1. Depth + 1 \in 1 .. Depth + 1
      BY <1>1
    <3> QED BY <3>1 DEF Levels
  <2>2. Packed(Depth + 1) <=> InPacked
    <3> DEFINE e == Depth
    <3>1. e + 1 > 1 <=> e > 0
      BY <1>1
    <3>2. (e + 1) - 1 = e
      BY <1>1
    <3>3. Packed(e + 1) <=> (e + 1 > 1 /\ frames[(e + 1) - 1].packed)
      BY DEF Packed
    <3>4. InPacked <=> (e > 0 /\ frames[e].packed)
      BY DEF InPacked
    <3> HIDE DEF e
    <3>5. frames[(e + 1) - 1] = frames[e]
      BY <3>2
    <3>6. Packed(e + 1) <=> InPacked
      BY <3>1, <3>3, <3>4, <3>5, Zenon
    <3> QED BY <3>6 DEF e
  <2> QED BY <2>1, <2>2
<1> QED BY <1>2, <1>3, <1>4

(* What scalar fields and elements do: s is written behind the buffer.     *)
LEMMA ExtendTypes ==
  ASSUME TypeOK, NEW s \in Seq(Bytes), buf' = buf \o s, UNCHANGED <<frames, status>>
  PROVE  TypeOK'
<1>1. buf \in Seq(Bytes) /\ frames \in Seq([start : 1 .. Len(buf), packed : BOOLEAN])
  BY DEF TypeOK
<1>2. /\ buf' \in Seq(Bytes)
      /\ Len(buf') = Len(buf) + Len(s)
      /\ \A i \in 1 .. Len(buf) + Len(s) :
           buf'[i] = IF i <= Len(buf) THEN buf[i] ELSE s[i - Len(buf)]
  BY <1>1, ConcatProperties
<1>3. Len(buf) \in Nat /\ Len(s) \in Nat
  BY <1>1, LenProperties
<1>4. frames' \in Seq([start : 1 .. Len(buf'), packed : BOOLEAN])
  <2> DEFINE S == [start : 1 .. Len(buf), packed : BOOLEAN]
             T == [start : 1 .. Len(buf'), packed : BOOLEAN]
  <2>1. S \subseteq T
    BY <1>2, <1>3
  <2>2. frames \in Seq(T)
    <3>1. frames \in Seq(S)
      BY <1>1
    <3> HIDE DEF S, T
    <3> QED BY <2>1, <3>1, SeqMonotonic
  <2> QED BY <2>2
<1>5. \A i \in 1 .. Depth : buf'[frames[i].start] = 0
  <2> SUFFICES ASSUME NEW i \in 1 .. Depth PROVE buf'[frames[i].start] = 0
    OBVIOUS
  <2>1. frames[i].start \in 1 .. Len(buf) /\ buf[frames[i].start] = 0
    BY FramePositions DEF TypeOK
  <2> QED BY <2>1, <1>2, <1>3
<1>6. Depth' = Depth
  BY DEF Depth
<1> QED BY <1>2, <1>4, <1>5, <1>6 DEF TypeOK

(* Writing to the buffer writes to the innermost level only.               *)
LEMMA ExtendLevels ==
  ASSUME TypeOK, NEW s \in Seq(Bytes), buf' = buf \o s, UNCHANGED <<frames, status>>
  PROVE  Levels' = [Levels EXCEPT ![Nested!Top] = Nested!Level(@.packed, @.bytes \o s)]
<1>1. TypeOK'
  BY ExtendTypes
<1>2. buf \in Seq(Bytes) /\ Depth \in Nat /\ Depth' = Depth /\ Len(buf) \in Nat /\ Len(s) \in Nat
  BY FramePositions, LenProperties DEF TypeOK, Depth
<1>3. \A i \in 1 .. Len(buf) : buf'[i] = buf[i]
  <2>1. \A i \in 1 .. Len(buf) + Len(s) :
           buf'[i] = IF i <= Len(buf) THEN buf[i] ELSE s[i - Len(buf)]
    BY <1>2, ConcatProperties
  <2> QED BY <1>2, <2>1
<1>4. /\ \A i \in 1 .. Depth + 1 : First(i)' = First(i) /\ Packed(i)' = Packed(i)
      /\ \A i \in 1 .. Depth : Levels'[i] = Levels[i]
  <2>1. Depth <= Len(frames')
    BY <1>2 DEF Depth
  <2>2. \A i \in 1 .. Depth : \A j \in 1 .. frames[i].start - 1 : buf'[j] = buf[j]
    <3>1. \A i \in 1 .. Depth : frames[i].start \in 1 .. Len(buf)
      BY FramePositions
    <3> QED BY <1>2, <1>3, <3>1
  <2>3. \A i \in 1 .. Depth : frames'[i] = frames[i]
    OBVIOUS
  <2>4. Depth <= Depth
    BY <1>2
  <2> QED BY <1>1, <1>2, <2>1, <2>2, <2>3, <2>4, LevelsBelow
<1> DEFINE d == Depth + 1
<1>5. Payload(d)' = Payload(d) \o s
  <2>1. First(d)' = First(d) /\ First(d) \in 1 .. Len(buf) + 1
    BY <1>2, <1>4, PayloadPositions
  <2>2. Last(d) = Len(buf) /\ Last(d)' = Len(buf) + Len(s)
    <3>1. Last(d) = Len(buf)
      BY DEF Last
    <3>2. Last(d)' = Len(buf')
      BY <1>2 DEF Last
    <3>3. Len(buf') = Len(buf) + Len(s)
      BY <1>2, ConcatProperties
    <3> QED BY <3>1, <3>2, <3>3
  <2>3. SubSeq(buf \o s, First(d), Len(buf) + Len(s)) = SubSeq(buf, First(d), Len(buf)) \o s
    <3> DEFINE a == First(d)
    <3> HIDE DEF a
    <3>1. a \in 1 .. Len(buf) + 1
      BY <2>1 DEF a
    <3>2. SubSeq(buf \o s, a, Len(buf) + Len(s)) = SubSeq(buf, a, Len(buf)) \o s
      BY <1>2, <3>1, SliceOfConcat
    <3> QED BY <3>2 DEF a
  <2> QED BY <2>1, <2>2, <2>3 DEF Payload
<1>6. d \in 1 .. Depth + 1 /\ Len(Levels) = d /\ DOMAIN Levels = 1 .. d
  BY <1>2, LevelsLength DEF Levels
<1>7. Levels[d].packed = Packed(d) /\ Levels[d].bytes = Payload(d)
  BY <1>6 DEF Levels
<1>8. Levels'[d] = Nested!Level(Packed(d), Payload(d) \o s)
  <2>1. Levels'[d] = [packed |-> Packed(d)', bytes |-> Payload(d)']
    BY <1>2, <1>6 DEF Levels
  <2>2. Packed(d)' = Packed(d)
    BY <1>2, <1>4, <1>6
  <2> QED BY <1>5, <2>1, <2>2 DEF Nested!Level
<1>9. Levels' = [i \in 1 .. d |-> Levels'[i]]
  BY <1>2 DEF Levels
<1>10. Nested!Top = d
  BY <1>6 DEF Nested!Top
<1>11. ASSUME NEW i \in 1 .. d
       PROVE  Levels'[i] = [Levels EXCEPT ![d] = Nested!Level(@.packed, @.bytes \o s)][i]
  <2>1. CASE i = d
    BY <1>6, <1>7, <1>8, <2>1
  <2>2. CASE i # d
    <3>1. i \in 1 .. Depth
      BY <1>2, <2>2
    <3>2. [Levels EXCEPT ![d] = Nested!Level(@.packed, @.bytes \o s)][i] = Levels[i]
      BY <1>6, <2>2
    <3> QED BY <1>4, <3>1, <3>2
  <2> QED BY <2>1, <2>2
<1> HIDE DEF d
<1>12. [Levels EXCEPT ![d] = Nested!Level(@.packed, @.bytes \o s)]
         = [i \in 1 .. d |-> [Levels EXCEPT ![d] = Nested!Level(@.packed, @.bytes \o s)][i]]
  BY <1>6
<1> QED BY <1>9, <1>10, <1>11, <1>12

(* What begins a payload: s is written behind the buffer, and a byte is    *)
(* reserved.                                                               *)
LEMMA OpenTypes ==
  ASSUME TypeOK, status = "writing", ~InPacked, NEW s \in Seq(Bytes), NEW packed \in BOOLEAN,
         buf' = buf \o s \o << 0 >>,
         frames' = Append(frames, Frame(Len(buf) + Len(s) + 1, packed)),
         status' = status
  PROVE  /\ TypeOK'
         /\ Len(buf') = Len(buf) + Len(s) + 1
         /\ \A i \in 1 .. Len(buf) + Len(s) : buf'[i] = (buf \o s)[i]
         /\ \A i \in 1 .. Len(buf) : buf'[i] = buf[i]
         /\ Len(frames') = Depth + 1
         /\ \A i \in 1 .. Depth : frames'[i] = frames[i]
         /\ frames'[Depth + 1] = Frame(Len(buf) + Len(s) + 1, packed)
<1> DEFINE n == Len(buf) + Len(s)
           f == Frame(n + 1, packed)
           S == [start : 1 .. Len(buf), packed : BOOLEAN]
           T == [start : 1 .. Len(buf'), packed : BOOLEAN]
<1>1. buf \in Seq(Bytes) /\ frames \in Seq(S)
  BY DEF TypeOK
<1>2. Len(buf) \in Nat /\ Len(s) \in Nat /\ n \in Nat
  BY <1>1, LenProperties
<1>3. /\ buf \o s \in Seq(Bytes)
      /\ Len(buf \o s) = n
      /\ \A i \in 1 .. n : (buf \o s)[i] = IF i <= Len(buf) THEN buf[i] ELSE s[i - Len(buf)]
  BY <1>1, ConcatProperties
<1>4. 0 \in Bytes
  BY BaseType DEF Bytes
<1>5. /\ buf' \in Seq(Bytes)
      /\ Len(buf') = n + 1
      /\ \A i \in 1 .. n : buf'[i] = (buf \o s)[i]
      /\ buf'[n + 1] = 0
  <2> DEFINE bs == buf \o s
  <2>1. buf' = Append(bs, 0)
    <3>1. bs \in Seq(Bytes)
      BY <1>3
    <3> HIDE DEF bs
    <3>2. Append(bs, 0) = bs \o <<0>>
      BY <1>4, <3>1, AppendIsConcat
    <3> QED BY <3>2 DEF bs
  <2>2. bs \in Seq(Bytes) /\ Len(bs) = n
    BY <1>3
  <2> HIDE DEF bs, n
  <2>3. /\ Append(bs, 0) \in Seq(Bytes) /\ Len(Append(bs, 0)) = n + 1
        /\ (\A i \in 1 .. n : Append(bs, 0)[i] = bs[i]) /\ Append(bs, 0)[n + 1] = 0
    BY <1>4, <2>2, AppendProperties
  <2> QED BY <2>1, <2>3 DEF bs
<1>6. \A i \in 1 .. Len(buf) : buf'[i] = buf[i]
  <2>1. \A i \in 1 .. Len(buf) : i \in 1 .. n /\ i <= Len(buf)
    BY <1>2
  <2> QED BY <1>3, <1>5, <2>1
<1>7. f \in T /\ frames \in Seq(T)
  <2>1. f \in T
    BY <1>2, <1>5 DEF Frame
  <2>2. S \subseteq T
    BY <1>2, <1>5
  <2> HIDE DEF S, T, f
  <2> QED BY <1>1, <2>1, <2>2, SeqMonotonic
<1>8. /\ frames' \in Seq(T)
      /\ Len(frames') = Depth + 1
      /\ \A i \in 1 .. Depth : frames'[i] = frames[i]
      /\ frames'[Depth + 1] = f
  <2> HIDE DEF T
  <2>1. frames' = Append(frames, f)
    OBVIOUS
  <2> HIDE DEF f
  <2> QED BY <1>7, <2>1, AppendProperties DEF Depth
<1>8a. f.start = n + 1
  BY DEF Frame
<1> PICK d : d = Depth
  OBVIOUS
<1>9. d \in Nat /\ Depth' = d + 1 /\ \A i \in 1 .. d : frames[i].start \in 1 .. Len(buf)
  BY <1>8, FramePositions DEF Depth
<1>10. ASSUME NEW i \in 1 .. d + 1, NEW j \in 1 .. d + 1, i < j
       PROVE  frames'[i].start < frames'[j].start /\ ~frames'[i].packed
  <2>1. i \in 1 .. d /\ frames'[i] = frames[i]
    BY <1>8, <1>9, <1>10
  <2>2. CASE j \in 1 .. d
    BY <2>1, <2>2, <1>8, <1>10 DEF TypeOK
  <2>3. CASE j = d + 1
    <3>1. frames'[j].start = n + 1
      <4>1. frames'[j] = f
        BY <1>8, <2>3
      <4> HIDE DEF f, n
      <4> QED BY <4>1, <1>8a, Zenon
    <3>2. frames[i].start < n + 1
      <4>1. frames[i].start \in 1 .. Len(buf)
        BY <1>9, <2>1
      <4> QED BY <4>1, <1>2
    <3>3. ~frames[i].packed
      <4>1. CASE i = d
        <5>1. d > 0
          BY <2>1, <4>1
        <5> QED BY <4>1, <5>1 DEF InPacked
      <4>2. CASE i # d
        <5>1. d \in 1 .. d /\ i < d
          BY <1>9, <2>1, <4>2
        <5> QED BY <2>1, <5>1 DEF TypeOK
      <4> QED BY <4>1, <4>2
    <3> HIDE DEF n
    <3> QED BY <2>1, <3>1, <3>2, <3>3, Zenon
  <2>4. j = d + 1 \/ j \in 1 .. d
    BY <1>9
  <2> QED BY <2>2, <2>3, <2>4, Zenon
<1>11. ASSUME NEW i \in 1 .. d + 1 PROVE buf'[frames'[i].start] = 0
  <2>1. CASE i = d + 1
    <3>1. frames'[i] = f
      BY <1>8, <2>1
    <3> HIDE DEF f, n
    <3> QED BY <3>1, <1>5, <1>8a, Zenon
  <2>2. CASE i \in 1 .. d
    <3>1. frames'[i] = frames[i] /\ buf[frames[i].start] = 0
      BY <1>8, <2>2 DEF TypeOK
    <3>2. buf'[frames[i].start] = buf[frames[i].start]
      BY <1>6, <1>9, <2>2
    <3> QED BY <3>1, <3>2, Zenon
  <2>3. i = d + 1 \/ i \in 1 .. d
    BY <1>9
  <2> QED BY <2>1, <2>2, <2>3, Zenon
<1>12. TypeOK'
  <2>1. status' \in {"writing", "done", "failed"} /\ status' # "done"
    OBVIOUS
  <2> HIDE DEF n, f
  <2> QED BY <1>5, <1>8, <1>9, <1>10, <1>11, <2>1 DEF TypeOK
<1> QED BY <1>5, <1>6, <1>8, <1>12

(* Opening a call adds an empty level.                                     *)
LEMMA OpenLevels ==
  ASSUME TypeOK, status = "writing", ~InPacked, NEW s \in Seq(Bytes), NEW packed \in BOOLEAN,
         buf' = buf \o s \o << 0 >>,
         frames' = Append(frames, Frame(Len(buf) + Len(s) + 1, packed)),
         status' = status
  PROVE  Levels' = [i \in 1 .. Nested!Top + 1 |->
                      IF i = Nested!Top + 1 THEN Nested!Level(packed, <<>>)
                      ELSE IF i = Nested!Top
                      THEN Nested!Level(Levels[i].packed, Levels[i].bytes \o s)
                      ELSE Levels[i]]
<1> DEFINE n == Len(buf) + Len(s)
<1>1. /\ TypeOK'
      /\ Len(buf') = n + 1
      /\ \A i \in 1 .. n : buf'[i] = (buf \o s)[i]
      /\ \A i \in 1 .. Len(buf) : buf'[i] = buf[i]
      /\ Len(frames') = Depth + 1
      /\ \A i \in 1 .. Depth : frames'[i] = frames[i]
      /\ frames'[Depth + 1] = Frame(n + 1, packed)
  BY OpenTypes
<1>2. buf \in Seq(Bytes) /\ buf' \in Seq(Bytes) /\ Len(buf) \in Nat /\ Len(s) \in Nat /\ n \in Nat
  <2>1. buf \in Seq(Bytes) /\ buf' \in Seq(Bytes)
    BY <1>1 DEF TypeOK
  <2> QED BY <2>1, LenProperties
<1> PICK d : d = Depth + 1
  OBVIOUS
<1>3. d \in Nat \ {0} /\ Depth = d - 1 /\ Depth' = d /\ Len(frames') = d
  BY <1>1, FramePositions DEF Depth
<1>4. /\ \A i \in 1 .. d : First(i)' = First(i) /\ Packed(i)' = Packed(i)
      /\ \A i \in 1 .. d - 1 : Levels'[i] = Levels[i]
  <2> PICK e : e = d - 1
    OBVIOUS
  <2>1. e \in Nat /\ e <= Depth /\ e <= Len(frames') /\ e + 1 = d /\ Depth = e
    BY <1>3
  <2>2. \A i \in 1 .. e : frames'[i] = frames[i]
    BY <1>1, <2>1
  <2>3. \A i \in 1 .. e : \A j \in 1 .. frames[i].start - 1 : buf'[j] = buf[j]
    <3>1. \A i \in 1 .. e : frames[i].start \in 1 .. Len(buf)
      BY <2>1, FramePositions
    <3> QED BY <1>1, <1>2, <3>1
  <2> HIDE DEF n
  <2>4. /\ \A i \in 1 .. e + 1 : First(i)' = First(i) /\ Packed(i)' = Packed(i)
        /\ \A i \in 1 .. e : Levels'[i] = Levels[i]
    BY <1>1, <2>1, <2>2, <2>3, LevelsBelow
  <2> QED BY <2>1, <2>4
<1>5. Payload(d)' = Payload(d) \o s
  <2> PICK a : a = First(d)
    OBVIOUS
  <2>1. a \in 1 .. Len(buf) + 1
    <3>1. d \in 1 .. Depth + 1
      BY <1>3
    <3> QED BY <3>1, PayloadPositions
  <2>2. Payload(d) = SubSeq(buf, a, Len(buf))
    BY DEF Payload, Last
  <2>3. Payload(d)' = SubSeq(buf', a, n)
    <3>1. First(d)' = a
      BY <1>3, <1>4
    <3>2. frames'[d].start = n + 1
      BY <1>1 DEF Frame
    <3>3. Last(d)' = n
      <4>1. d # Depth' + 1
        BY <1>3
      <4>2. Last(d)' = frames'[d].start - 1
        BY <4>1 DEF Last
      <4> HIDE DEF n
      <4>3. Last(d)' = (n + 1) - 1
        BY <3>2, <4>2, Zenon
      <4> QED BY <1>2, <4>3
    <3> QED BY <3>1, <3>3 DEF Payload
  <2>4. SubSeq(buf', a, n) = SubSeq(buf \o s, a, n)
    <3>1. buf \o s \in Seq(Bytes) /\ Len(buf \o s) = n
      BY <1>2, ConcatProperties
    <3>2. a \in Nat \ {0} /\ a <= n + 1 /\ n <= Len(buf') /\ n <= Len(buf \o s)
      BY <1>1, <1>2, <2>1, <3>1
    <3>3. \A i \in 1 .. n : buf'[i] = (buf \o s)[i]
      BY <1>1
    <3> HIDE DEF n
    <3>4. n \in Nat /\ a \in Nat \ {0} /\ a <= n + 1
      BY <1>2, <3>2
    <3>5. \A x, y \in Seq(Bytes) :
            n <= Len(x) /\ n <= Len(y) /\ (\A i \in 1 .. n : x[i] = y[i])
              => SubSeq(x, a, n) = SubSeq(y, a, n)
      <4> SUFFICES ASSUME NEW x \in Seq(Bytes), NEW y \in Seq(Bytes),
                          n <= Len(x), n <= Len(y), \A i \in 1 .. n : x[i] = y[i]
                   PROVE  SubSeq(x, a, n) = SubSeq(y, a, n)
        OBVIOUS
      <4> QED BY <3>4, PrefixAgrees, ZenonT(120)
    <3> QED BY <1>2, <3>1, <3>2, <3>3, <3>5, Zenon
  <2>5. SubSeq(buf \o s, a, n) = SubSeq(buf, a, Len(buf)) \o s
    BY <1>2, <2>1, SliceOfConcat
  <2> QED BY <2>2, <2>3, <2>4, <2>5
<1>6. Payload(d + 1)' = <<>>
  <2>1. First(d + 1)' = n + 2
    <3>1. d + 1 # 1 /\ (d + 1) - 1 = d
      BY <1>3
    <3>2. First(d + 1)' = frames'[d].start + 1
      BY <3>1 DEF First
    <3>3. frames'[d].start = n + 1
      BY <1>1 DEF Frame
    <3>4. First(d + 1)' = (n + 1) + 1
      BY <3>2, <3>3, Zenon
    <3> HIDE DEF n
    <3> QED BY <1>2, <3>4
  <2>2. Last(d + 1)' = n + 1
    BY <1>1, <1>3 DEF Last
  <2>3. Payload(d + 1)' = SubSeq(buf', n + 2, n + 1)
    BY <2>1, <2>2 DEF Payload
  <2> HIDE DEF n
  <2>4. n + 2 \in Int /\ n + 1 \in Int /\ n + 1 < n + 2
    BY <1>2
  <2> QED BY <2>3, <2>4, SubSeqEmpty
<1>7. Packed(d + 1)' = packed
  <2>1. d + 1 > 1 /\ (d + 1) - 1 = d
    BY <1>3
  <2>2. Packed(d + 1)' = (d + 1 > 1 /\ frames'[(d + 1) - 1].packed)
    BY DEF Packed
  <2>3. frames'[d].packed = packed
    BY <1>1 DEF Frame
  <2>4. frames'[(d + 1) - 1] = frames'[d]
    BY <2>1
  <2> QED BY <2>1, <2>2, <2>3, <2>4, Zenon
<1>8. Nested!Top = d /\ DOMAIN Levels = 1 .. d /\ d \in 1 .. d
      /\ Levels[d].packed = Packed(d) /\ Levels[d].bytes = Payload(d)
  <2>1. Levels = [i \in 1 .. d |-> [packed |-> Packed(i), bytes |-> Payload(i)]]
    BY <1>3 DEF Levels
  <2>2. Nested!Top = d
    BY LevelsLength DEF Nested!Top
  <2> QED BY <1>3, <2>1, <2>2
<1>9. Levels' = [i \in 1 .. d + 1 |-> [packed |-> Packed(i)', bytes |-> Payload(i)']]
  BY <1>3 DEF Levels
<1>10. Levels'[d] = Nested!Level(Levels[d].packed, Levels[d].bytes \o s)
  <2>1. d \in 1 .. d + 1 /\ d \in 1 .. d
    BY <1>3
  <2>2. Packed(d)' = Packed(d)
    BY <1>4, <2>1
  <2> QED BY <1>5, <1>8, <1>9, <2>1, <2>2 DEF Nested!Level
<1>11. Levels'[d + 1] = Nested!Level(packed, <<>>)
  <2>1. d + 1 \in 1 .. d + 1
    BY <1>3
  <2> QED BY <1>6, <1>7, <1>9, <2>1 DEF Nested!Level
<1>12. ASSUME NEW i \in 1 .. d + 1
       PROVE  Levels'[i] = IF i = d + 1 THEN Nested!Level(packed, <<>>)
                           ELSE IF i = d
                           THEN Nested!Level(Levels[i].packed, Levels[i].bytes \o s)
                           ELSE Levels[i]
  <2>1. CASE i = d + 1
    BY <1>11, <2>1
  <2>2. CASE i = d
    <3>1. i # d + 1
      BY <1>3, <2>2
    <3> QED BY <1>10, <2>2, <3>1
  <2>3. CASE i # d /\ i # d + 1
    <3>1. i \in 1 .. d - 1
      BY <1>3, <2>3
    <3> QED BY <1>4, <2>3, <3>1
  <2> QED BY <2>1, <2>2, <2>3
<1>13. Levels' = [i \in 1 .. d + 1 |-> Levels'[i]]
  BY <1>9
<1> QED BY <1>8, <1>12, <1>13

(* The same as InPlaceIs, with sequences.                                  *)
LEMMA InPlaceConcat ==
  ASSUME NEW b \in Seq(Bytes), NEW start \in 1 .. Len(b), Len(b) - start < U64
  PROVE  LET v == write_varint(Len(b) - start)
             w == SubSeq(b, start + 1, Len(b))
         IN  /\ v \in Seq(Bytes) /\ Len(v) >= 1 /\ w \in Seq(Bytes) /\ Len(w) = Len(b) - start
             /\ SubSeq(b, 1, start - 1) \in Seq(Bytes)
             /\ Len(SubSeq(b, 1, start - 1)) = start - 1
             /\ InPlace(b, start, Len(b) - start) = SubSeq(b, 1, start - 1) \o (v \o w)
<1> DEFINE len == Len(b) - start
           v == write_varint(len)
           w == SubSeq(b, start + 1, Len(b))
           u == SubSeq(b, 1, start - 1)
           m == Len(b) + Len(v) - 1
           New == [i \in 1 .. m |->
                     IF i < start THEN b[i]
                     ELSE IF i < start + Len(v) THEN v[i - start + 1]
                     ELSE b[i - (Len(v) - 1)]]
<1>1. Len(b) \in Nat /\ start \in Nat /\ len \in 0 .. U64 - 1
  BY LenProperties, U64Type
<1>2. InPlace(b, start, len) = New
  BY InPlaceIs
<1>3. v \in Seq(Bytes) /\ Len(v) \in Nat \ {0}
  <2> HIDE DEF len
  <2>1. v \in Seq(Bytes) /\ Len(v) = Rounds(len) + 1 /\ Rounds(len) \in Nat
    BY <1>1, VarintBytes
  <2> HIDE DEF v
  <2> QED BY <2>1
<1>4. /\ w \in Seq(Bytes) /\ Len(w) = len
      /\ \A i \in 1 .. len : w[i] = b[start + i]
  <2> DEFINE a == start + 1
  <2>1. a \in 1 .. Len(b) + 1 /\ Len(b) \in a - 1 .. Len(b) /\ Len(b) - a + 1 = len
        /\ \A i \in 1 .. len : a + i - 1 = start + i
    BY <1>1
  <2>2. /\ SubSeq(b, a, Len(b)) \in Seq(Bytes)
        /\ Len(SubSeq(b, a, Len(b))) = Len(b) - a + 1
        /\ \A i \in 1 .. Len(b) - a + 1 : SubSeq(b, a, Len(b))[i] = b[a + i - 1]
    <3> HIDE DEF a
    <3> QED BY <2>1, Slice
  <2> HIDE DEF a, len
  <2> QED BY <2>1, <2>2 DEF a
<1>5. /\ u \in Seq(Bytes) /\ Len(u) = start - 1
      /\ \A i \in 1 .. start - 1 : u[i] = b[i]
  <2> DEFINE e == start - 1
  <2>1. 1 \in 1 .. Len(b) + 1 /\ e \in 1 - 1 .. Len(b) /\ e - 1 + 1 = e
        /\ \A i \in 1 .. e : 1 + i - 1 = i
    BY <1>1
  <2>2. /\ SubSeq(b, 1, e) \in Seq(Bytes)
        /\ Len(SubSeq(b, 1, e)) = e - 1 + 1
        /\ \A i \in 1 .. e - 1 + 1 : SubSeq(b, 1, e)[i] = b[1 + i - 1]
    <3> HIDE DEF e
    <3> QED BY <2>1, Slice
  <2> HIDE DEF e
  <2>3. SubSeq(b, 1, e) \in Seq(Bytes) /\ Len(SubSeq(b, 1, e)) = e
        /\ \A i \in 1 .. e : SubSeq(b, 1, e)[i] = b[i]
    BY <2>1, <2>2
  <2> QED BY <2>3 DEF e
<1> PICK l : l = Len(v)
  OBVIOUS
<1>6. /\ v \o w \in Seq(Bytes) /\ Len(v \o w) = l + len
      /\ \A i \in 1 .. l + len : (v \o w)[i] = IF i <= l THEN v[i] ELSE w[i - l]
  <2> HIDE DEF v, w, len
  <2> QED BY <1>3, <1>4, ConcatProperties, ZenonT(60)
<1>7. /\ u \o (v \o w) \in Seq(Bytes) /\ Len(u \o (v \o w)) = m
      /\ \A i \in 1 .. m : (u \o (v \o w))[i] = IF i <= start - 1 THEN b[i]
                                                ELSE (v \o w)[i - (start - 1)]
  <2> DEFINE vw == v \o w
  <2>1. vw \in Seq(Bytes) /\ Len(vw) = l + len
    BY <1>6
  <2> HIDE DEF vw, u
  <2>2. /\ u \o vw \in Seq(Bytes) /\ Len(u \o vw) = start - 1 + (l + len)
        /\ \A i \in 1 .. start - 1 + (l + len) :
             (u \o vw)[i] = IF i <= start - 1 THEN u[i] ELSE vw[i - (start - 1)]
    <3>1. u \in Seq(Bytes) /\ Len(u) = start - 1
      BY <1>5
    <3>2. /\ u \o vw \in Seq(Bytes) /\ Len(u \o vw) = Len(u) + Len(vw)
          /\ \A i \in 1 .. Len(u) + Len(vw) :
               (u \o vw)[i] = IF i <= Len(u) THEN u[i] ELSE vw[i - Len(u)]
      BY <2>1, <3>1, ConcatProperties
    <3> QED BY <2>1, <3>1, <3>2, Zenon
  <2>3. start - 1 + (l + len) = m
    <3> HIDE DEF v
    <3> QED BY <1>1, <1>3
  <2> HIDE DEF m, len
  <2>4. \A i \in 1 .. m : i <= start - 1 => u[i] = b[i]
    <3>1. \A i \in 1 .. m : i <= start - 1 => i \in 1 .. start - 1
      BY <1>1
    <3> QED BY <1>5, <3>1
  <2>5. /\ u \o vw \in Seq(Bytes) /\ Len(u \o vw) = m
        /\ \A i \in 1 .. m : (u \o vw)[i] = IF i <= start - 1 THEN b[i] ELSE vw[i - (start - 1)]
    BY <2>2, <2>3, <2>4
  <2> QED BY <2>5 DEF vw
<1>8. ASSUME NEW i \in 1 .. m PROVE New[i] = (u \o (v \o w))[i]
  <2> HIDE DEF u, v, w
  <2>0. l \in Nat \ {0} /\ m = Len(b) + l - 1 /\ m \in Nat /\ i \in Nat /\ len = Len(b) - start
    BY <1>1, <1>3
  <2>1. CASE i < start
    <3>1. New[i] = b[i]
      BY <2>1
    <3>2. i <= start - 1
      BY <2>1, <1>1, <2>0
    <3> QED BY <1>7, <3>1, <3>2
  <2>2. CASE i >= start /\ i < start + l
    <3>1. ~(i < start) /\ i < start + Len(v) /\ ~(i <= start - 1)
      BY <2>2, <1>1, <2>0
    <3>2. New[i] = v[i - start + 1]
      BY <3>1
    <3>3. i - (start - 1) = i - start + 1 /\ i - start + 1 \in 1 .. l + len /\ i - start + 1 <= l
      BY <2>2, <1>1, <2>0
    <3>4. (u \o (v \o w))[i] = (v \o w)[i - (start - 1)]
      BY <1>7, <3>1
    <3>5. (v \o w)[i - start + 1] = v[i - start + 1]
      <4> HIDE DEF len
      <4> QED BY <1>6, <3>3
    <3> QED BY <3>2, <3>3, <3>4, <3>5
  <2>3. CASE i >= start + l
    <3>1. ~(i < start) /\ ~(i < start + Len(v)) /\ ~(i <= start - 1)
      BY <2>3, <1>1, <2>0
    <3>2. New[i] = b[i - (Len(v) - 1)]
      BY <3>1
    <3>3. /\ i - (start - 1) = i - start + 1 /\ i - start + 1 \in 1 .. l + len
          /\ ~(i - start + 1 <= l)
          /\ (i - start + 1) - l \in 1 .. len
          /\ start + ((i - start + 1) - l) = i - (l - 1)
      BY <2>3, <1>1, <2>0
    <3>4. (u \o (v \o w))[i] = (v \o w)[i - (start - 1)]
      BY <1>7, <3>1
    <3>5. (v \o w)[i - start + 1] = w[(i - start + 1) - l]
      <4> HIDE DEF len
      <4> QED BY <1>6, <3>3
    <3>6. w[(i - start + 1) - l] = b[i - (l - 1)]
      <4> HIDE DEF len
      <4> QED BY <1>4, <3>3
    <3>7. b[i - (Len(v) - 1)] = b[i - (l - 1)]
      OBVIOUS
    <3> QED BY <3>2, <3>3, <3>4, <3>5, <3>6, <3>7
  <2>4. i < start \/ (i >= start /\ i < start + l) \/ i >= start + l
    BY <1>1, <2>0
  <2> HIDE DEF New
  <2> QED BY <2>1, <2>2, <2>3, <2>4, Zenon
<1>9. New = u \o (v \o w)
  <2> DEFINE uvw == u \o (v \o w)
  <2>1. uvw \in Seq(Bytes) /\ Len(uvw) = m
    BY <1>7
  <2>2. uvw = [i \in 1 .. m |-> uvw[i]]
    <3> HIDE DEF uvw, m
    <3> QED BY <2>1, LenProperties
  <2>3. \A i \in 1 .. m : New[i] = uvw[i]
    BY <1>8
  <2>4. New = [i \in 1 .. m |-> New[i]]
    OBVIOUS
  <2> HIDE DEF uvw, m, New
  <2>5. New = uvw
    BY <2>2, <2>3, <2>4
  <2> QED BY <2>5 DEF uvw
<1>10. Len(v) >= 1
  <2> HIDE DEF v
  <2> QED BY <1>3
<1> QED BY <1>2, <1>3, <1>4, <1>5, <1>9, <1>10

(* Concatenation is associative.                                           *)
LEMMA Associative ==
  \A x, y, z \in Seq(Bytes) : (x \o y) \o z = x \o (y \o z)
BY ConcatAssociative

(* c is b with the length of what follows instead of the byte at start.    *)
Prefixed(b, start, c) ==
  LET w == SubSeq(b, start + 1, Len(b))
  IN  /\ c \in Seq(Bytes) /\ Len(c) \in Nat /\ Len(c) >= Len(b)
      /\ \A i \in 1 .. start - 1 : c[i] = b[i]
      /\ Len(w) = Len(b) - start
      /\ \A a \in 1 .. start :
           SubSeq(c, a, Len(c)) = SubSeq(b, a, start - 1) \o write_varint(Len(b) - start) \o w

(* What is before the reserved byte stays, and what is behind it follows   *)
(* its length.                                                             *)
LEMMA InPlaceEffect ==
  ASSUME NEW b \in Seq(Bytes), NEW start \in 1 .. Len(b), Len(b) - start < U64
  PROVE  Prefixed(b, start, InPlace(b, start, Len(b) - start))
<1>1. PICK c : c = InPlace(b, start, Len(b) - start)
  OBVIOUS
<1>2. PICK v : v = write_varint(Len(b) - start)
  OBVIOUS
<1>3. PICK w : w = SubSeq(b, start + 1, Len(b))
  OBVIOUS
<1>4. PICK e : e = start - 1
  OBVIOUS
<1>5. PICK u : u = SubSeq(b, 1, e)
  OBVIOUS
<1>6. PICK vw : vw = v \o w
  OBVIOUS
<1>7. Len(b) \in Nat /\ e \in Nat /\ e < Len(b)
  BY <1>4, LenProperties
<1>8. /\ v \in Seq(Bytes) /\ Len(v) >= 1 /\ w \in Seq(Bytes) /\ Len(w) = Len(b) - (e + 1)
      /\ u \in Seq(Bytes) /\ Len(u) = e
      /\ c = u \o vw
  <2>1. /\ v \in Seq(Bytes) /\ Len(v) >= 1 /\ w \in Seq(Bytes) /\ Len(w) = Len(b) - start
        /\ u \in Seq(Bytes) /\ Len(u) = start - 1
        /\ c = u \o (v \o w)
    BY <1>1, <1>2, <1>3, <1>4, <1>5, InPlaceConcat
  <2> QED BY <1>4, <1>6, <1>7, <2>1
<1>9. vw \in Seq(Bytes) /\ Len(vw) \in Nat /\ Len(vw) >= Len(b) - e
  <2>1. vw \in Seq(Bytes) /\ Len(vw) = Len(v) + Len(w) /\ Len(v) \in Nat
    BY <1>6, <1>8, ConcatProperties, LenProperties
  <2> QED BY <1>7, <1>8, <2>1
<1>10. /\ c \in Seq(Bytes) /\ Len(c) = e + Len(vw)
       /\ \A i \in 1 .. e : c[i] = u[i]
  <2>1. /\ c \in Seq(Bytes) /\ Len(c) = Len(u) + Len(vw)
        /\ \A i \in 1 .. Len(u) + Len(vw) : c[i] = IF i <= Len(u) THEN u[i] ELSE vw[i - Len(u)]
    BY <1>8, <1>9, ConcatProperties
  <2>2. \A i \in 1 .. e : i \in 1 .. Len(u) + Len(vw) /\ i <= Len(u)
    BY <1>7, <1>8, <1>9
  <2> QED BY <1>8, <2>1, <2>2
<1>11. \A i \in 1 .. e : u[i] = b[i]
  <2>1. 1 \in 1 .. Len(b) + 1 /\ e \in 1 - 1 .. Len(b) /\ e - 1 + 1 = e
        /\ \A i \in 1 .. e : 1 + i - 1 = i
    BY <1>7
  <2>2. \A i \in 1 .. e - 1 + 1 : SubSeq(b, 1, e)[i] = b[1 + i - 1]
    BY <2>1, Slice
  <2> QED BY <1>5, <2>1, <2>2
<1>12. ASSUME NEW a \in 1 .. e + 1
       PROVE  SubSeq(c, a, Len(c)) = SubSeq(b, a, e) \o v \o w
  <2>1. a \in Nat \ {0} /\ a <= e + 1 /\ a \in 1 .. Len(u) + 1 /\ e <= Len(u) /\ e <= Len(b)
    BY <1>7, <1>8
  <2>2. SubSeq(c, a, Len(c)) = SubSeq(u, a, Len(u)) \o vw
    <3>1. SubSeq(u \o vw, a, Len(u) + Len(vw)) = SubSeq(u, a, Len(u)) \o vw
      BY <1>8, <1>9, <2>1, SliceOfConcat
    <3> QED BY <1>8, <1>10, <3>1
  <2>3. PICK x : x = SubSeq(b, a, e)
    OBVIOUS
  <2>4. SubSeq(u, a, Len(u)) = x
    <3>1. SubSeq(u, a, e) = SubSeq(b, a, e)
      BY <1>7, <1>8, <1>11, <2>1, PrefixAgrees
    <3> QED BY <1>8, <2>3, <3>1
  <2>5. x \in Seq(Bytes)
    <3>1. a \in 1 .. Len(b) + 1 /\ e \in a - 1 .. Len(b)
      BY <1>7, <2>1
    <3> QED BY <2>3, <3>1, Slice
  <2>6. (x \o v) \o w = x \o (v \o w)
    <3>1. v \in Seq(Bytes) /\ w \in Seq(Bytes)
      BY <1>8
    <3> QED BY <2>5, <3>1, Associative, Zenon
  <2> QED BY <1>6, <2>2, <2>3, <2>4, <2>6
<1>13. e + 1 = start /\ Len(w) = Len(b) - start /\ Len(c) \in Nat /\ Len(c) >= Len(b)
  BY <1>4, <1>7, <1>8, <1>9, <1>10
<1>14. /\ \A i \in 1 .. start - 1 : c[i] = b[i]
       /\ \A a \in 1 .. start : SubSeq(c, a, Len(c)) = SubSeq(b, a, start - 1) \o v \o w
  <2>1. \A i \in 1 .. e : c[i] = b[i]
    BY <1>10, <1>11
  <2> QED BY <1>4, <1>12, <1>13, <2>1
<1>15. /\ w = SubSeq(b, start + 1, Len(b))
       /\ Len(w) = Len(b) - start
       /\ \A x \in 1 .. start :
            SubSeq(c, x, Len(c)) = SubSeq(b, x, start - 1) \o write_varint(Len(b) - start) \o w
  BY <1>2, <1>3, <1>13, <1>14
<1>16. Prefixed(b, start, c)
  BY <1>10, <1>13, <1>14, <1>15 DEF Prefixed
<1> QED BY <1>1, <1>16

(* What completes a payload.                                               *)
LEMMA CloseTypes ==
  ASSUME TypeOK, status = "writing", NEW d \in Nat \ {0}, d = Depth,
         NEW start, start = frames[d].start, Len(buf) - start < U64,
         buf' = InPlace(buf, start, Len(buf) - start),
         frames' = SubSeq(frames, 1, d - 1),
         status' = status
  PROVE  /\ TypeOK'
         /\ start \in 1 .. Len(buf)
         /\ \A i \in 1 .. start - 1 : buf'[i] = buf[i]
         /\ Len(frames') = d - 1
         /\ \A i \in 1 .. d - 1 : frames'[i] = frames[i]
<1> DEFINE S == [start : 1 .. Len(buf), packed : BOOLEAN]
           T == [start : 1 .. Len(buf'), packed : BOOLEAN]
<1>1. buf \in Seq(Bytes) /\ frames \in Seq(S)
  BY DEF TypeOK
<1>2. Len(buf) \in Nat /\ start \in 1 .. Len(buf)
  <2>1. d \in 1 .. Depth
    OBVIOUS
  <2>2. frames[d].start \in 1 .. Len(buf)
    BY <2>1, FramePositions
  <2> QED BY <1>1, <2>2, LenProperties
<1>3. Prefixed(buf, start, buf')
  BY <1>1, <1>2, InPlaceEffect
<1>4. buf' \in Seq(Bytes) /\ Len(buf') \in Nat /\ Len(buf') >= Len(buf)
  BY <1>3 DEF Prefixed
<1>5. \A i \in 1 .. start - 1 : buf'[i] = buf[i]
  BY <1>3 DEF Prefixed
<1>6. /\ frames' \in Seq(T)
      /\ Len(frames') = d - 1
      /\ \A i \in 1 .. d - 1 : frames'[i] = frames[i]
  <2>1. frames \in Seq(T)
    <3>1. S \subseteq T
      BY <1>2, <1>4
    <3> HIDE DEF S, T
    <3> QED BY <1>1, <3>1, SeqMonotonic
  <2>2. Len(frames) = d
    BY DEF Depth
  <2> HIDE DEF T
  <2> PICK e : e = d - 1
    OBVIOUS
  <2>3. 1 \in 1 .. Len(frames) + 1 /\ e \in 1 - 1 .. Len(frames) /\ e - 1 + 1 = e
        /\ \A i \in 1 .. e : 1 + i - 1 = i
    BY <2>2
  <2>4. /\ SubSeq(frames, 1, e) \in Seq(T)
        /\ Len(SubSeq(frames, 1, e)) = e - 1 + 1
        /\ \A i \in 1 .. e - 1 + 1 : SubSeq(frames, 1, e)[i] = frames[1 + i - 1]
    BY <2>1, <2>3, Slice
  <2>5. frames' = SubSeq(frames, 1, e)
    OBVIOUS
  <2>6. /\ SubSeq(frames, 1, e) \in Seq(T)
        /\ Len(SubSeq(frames, 1, e)) = e
        /\ \A i \in 1 .. e : SubSeq(frames, 1, e)[i] = frames[i]
    BY <2>3, <2>4
  <2>7. frames' \in Seq(T) /\ Len(frames') = e /\ \A i \in 1 .. e : frames'[i] = frames[i]
    BY <2>5, <2>6, Zenon
  <2> QED BY <2>7
<1>7. Depth' = d - 1 /\ \A i \in 1 .. d - 1 : i \in 1 .. d
  BY <1>6 DEF Depth
<1>8. ASSUME NEW i \in 1 .. d - 1, NEW j \in 1 .. d - 1, i < j
      PROVE  frames'[i].start < frames'[j].start /\ ~frames'[i].packed
  <2>1. frames[i].start < frames[j].start /\ ~frames[i].packed
    BY <1>7, <1>8 DEF TypeOK
  <2>2. frames'[i] = frames[i] /\ frames'[j] = frames[j]
    BY <1>6
  <2> QED BY <2>1, <2>2, Zenon
<1>9. ASSUME NEW i \in 1 .. d - 1 PROVE buf'[frames'[i].start] = 0
  <2>1. i \in 1 .. Depth /\ d \in 1 .. Depth /\ i < d
    BY <1>7
  <2>2. frames[i].start \in 1 .. Len(buf) /\ frames[i].start < frames[d].start
    BY <2>1, FramePositions
  <2>3. frames[i].start \in 1 .. start - 1
    BY <1>2, <2>2
  <2>4. buf[frames[i].start] = 0
    BY <2>1 DEF TypeOK
  <2>5. buf'[frames[i].start] = buf[frames[i].start]
    BY <1>5, <2>3
  <2>6. frames'[i] = frames[i]
    BY <1>6
  <2> QED BY <2>4, <2>5, <2>6, Zenon
<1>10. TypeOK'
  <2>1. status' \in {"writing", "done", "failed"} /\ status' # "done"
    OBVIOUS
  <2> QED BY <1>4, <1>6, <1>7, <1>8, <1>9, <2>1 DEF TypeOK
<1> QED BY <1>2, <1>5, <1>6, <1>10

(* Closing a call writes its prefix and payload to the level around it.    *)
LEMMA CloseLevels ==
  ASSUME TypeOK, status = "writing", NEW d \in Nat \ {0}, d = Depth,
         NEW start, start = frames[d].start, Len(buf) - start < U64,
         buf' = InPlace(buf, start, Len(buf) - start),
         frames' = SubSeq(frames, 1, d - 1),
         status' = status
  PROVE  LET payload == Levels[Nested!Top].bytes
         IN  Levels' = [i \in 1 .. Nested!Top - 1 |->
                          IF i = Nested!Top - 1
                          THEN Nested!Level(Levels[i].packed,
                                            Levels[i].bytes \o write_varint(Len(payload)) \o payload)
                          ELSE Levels[i]]
<1> DEFINE len == Len(buf) - start
           v == write_varint(len)
           w == SubSeq(buf, start + 1, Len(buf))
<1>1. /\ TypeOK'
      /\ start \in 1 .. Len(buf)
      /\ \A i \in 1 .. start - 1 : buf'[i] = buf[i]
      /\ Len(frames') = d - 1
      /\ \A i \in 1 .. d - 1 : frames'[i] = frames[i]
  BY CloseTypes
<1>2. buf \in Seq(Bytes) /\ buf' \in Seq(Bytes) /\ Len(buf) \in Nat
  <2>1. buf \in Seq(Bytes) /\ buf' \in Seq(Bytes)
    BY <1>1 DEF TypeOK
  <2> QED BY <2>1, LenProperties
<1>3. /\ Len(w) = len
      /\ \A a \in 1 .. start : SubSeq(buf', a, Len(buf')) = SubSeq(buf, a, start - 1) \o v \o w
  <2>1. Len(buf) - start < U64 /\ buf' = InPlace(buf, start, Len(buf) - start)
    OBVIOUS
  <2>2. Prefixed(buf, start, buf')
    BY <1>1, <1>2, <2>1, InPlaceEffect
  <2>3. /\ Len(SubSeq(buf, start + 1, Len(buf))) = Len(buf) - start
        /\ \A a \in 1 .. start :
             SubSeq(buf', a, Len(buf')) = SubSeq(buf, a, start - 1) \o write_varint(Len(buf) - start)
                                            \o SubSeq(buf, start + 1, Len(buf))
    BY <2>2 DEF Prefixed
  <2> QED BY <2>3, Zenon
<1>4. Depth' = d - 1 /\ d \in 1 .. Depth + 1
  BY <1>1 DEF Depth
<1>5. /\ \A i \in 1 .. d : First(i)' = First(i) /\ Packed(i)' = Packed(i)
      /\ \A i \in 1 .. d - 1 : Levels'[i] = Levels[i]
  <2> PICK e : e = d - 1
    OBVIOUS
  <2>1. e \in Nat /\ e <= Depth /\ e <= Len(frames') /\ e + 1 = d
    BY <1>1
  <2>2. \A i \in 1 .. e : frames'[i] = frames[i]
    BY <1>1
  <2>3. \A i \in 1 .. e : \A j \in 1 .. frames[i].start - 1 : buf'[j] = buf[j]
    <3> SUFFICES ASSUME NEW i \in 1 .. e, NEW j \in 1 .. frames[i].start - 1 PROVE buf'[j] = buf[j]
      OBVIOUS
    <3>1. i \in 1 .. Depth /\ d \in 1 .. Depth /\ i < d
      BY <2>1
    <3>2. frames[i].start \in 1 .. Len(buf) /\ frames[i].start < frames[d].start
      BY <3>1, FramePositions
    <3>3. j \in 1 .. start - 1
      BY <1>1, <3>2
    <3> QED BY <1>1, <3>3
  <2>4. /\ \A i \in 1 .. e + 1 : First(i)' = First(i) /\ Packed(i)' = Packed(i)
        /\ \A i \in 1 .. e : Levels'[i] = Levels[i]
    BY <1>1, <2>1, <2>2, <2>3, LevelsBelow
  <2> QED BY <2>1, <2>4
<1>6. Payload(d + 1) = w /\ Len(Payload(d + 1)) = len
  <2>1. First(d + 1) = start + 1
    <3>1. d + 1 # 1 /\ (d + 1) - 1 = d
      OBVIOUS
    <3> QED BY <3>1 DEF First
  <2>2. Last(d + 1) = Len(buf)
    BY DEF Last
  <2> QED BY <1>3, <2>1, <2>2 DEF Payload
<1>7. Payload(d)' = Payload(d) \o v \o w
  <2> PICK a : a = First(d)
    OBVIOUS
  <2>1. Last(d) = start - 1
    <3>1. d # Depth + 1
      OBVIOUS
    <3> QED BY <3>1 DEF Last
  <2>2. a \in 1 .. start
    <3>1. a \in 1 .. Len(buf) + 1 /\ start - 1 >= a - 1
      BY <1>4, <2>1, PayloadPositions
    <3> QED BY <1>1, <1>2, <3>1
  <2>3. Payload(d) = SubSeq(buf, a, start - 1)
    BY <2>1 DEF Payload
  <2>4. Payload(d)' = SubSeq(buf', a, Len(buf'))
    <3>1. First(d)' = a
      BY <1>5
    <3>2. Last(d)' = Len(buf')
      BY <1>4 DEF Last
    <3> QED BY <3>1, <3>2 DEF Payload
  <2> HIDE DEF v, w
  <2> QED BY <1>3, <2>2, <2>3, <2>4
<1>8. /\ Nested!Top = d + 1 /\ Nested!Top - 1 = d
      /\ Levels[d + 1].bytes = Payload(d + 1)
      /\ Levels[d].packed = Packed(d) /\ Levels[d].bytes = Payload(d)
  <2>1. Levels = [i \in 1 .. d + 1 |-> [packed |-> Packed(i), bytes |-> Payload(i)]]
    BY DEF Levels
  <2>2. Nested!Top = d + 1
    BY LevelsLength DEF Nested!Top
  <2>3. d \in 1 .. d + 1 /\ d + 1 \in 1 .. d + 1
    OBVIOUS
  <2> QED BY <2>1, <2>2, <2>3
<1> DEFINE P == Levels[d + 1].bytes
           N == Nested!Level(Levels[d].packed, Levels[d].bytes \o write_varint(Len(P)) \o P)
<1>9. Levels' = [i \in 1 .. d |-> [packed |-> Packed(i)', bytes |-> Payload(i)']]
  <2>1. Depth' + 1 = d
    BY <1>4
  <2> QED BY <2>1 DEF Levels
<1>10. Levels'[d] = N
  <2>1. P = w /\ write_varint(Len(P)) = v
    <3>1. P = Payload(d + 1)
      BY <1>8
    <3> QED BY <1>6, <3>1
  <2>2. N = [packed |-> Packed(d), bytes |-> Payload(d) \o v \o w]
    <3> HIDE DEF P, v, w
    <3> QED BY <1>8, <2>1 DEF Nested!Level
  <2>3. d \in 1 .. d
    OBVIOUS
  <2>4. Levels'[d] = [packed |-> Packed(d)', bytes |-> Payload(d)']
    BY <1>9, <2>3
  <2>5. Packed(d)' = Packed(d)
    BY <1>5, <2>3
  <2> HIDE DEF N, v, w
  <2> QED BY <1>7, <2>2, <2>4, <2>5, Zenon
<1>11. ASSUME NEW i \in 1 .. d
       PROVE  Levels'[i] = IF i = d
                           THEN Nested!Level(Levels[i].packed, Levels[i].bytes \o write_varint(Len(P)) \o P)
                           ELSE Levels[i]
  <2> HIDE DEF P
  <2>1. CASE i = d
    BY <1>10, <2>1
  <2>2. CASE i # d
    <3>1. i \in 1 .. d - 1
      BY <2>2
    <3> QED BY <1>5, <2>2, <3>1
  <2> QED BY <2>1, <2>2
<1>12. Levels' = [i \in 1 .. d |-> Levels'[i]]
  BY <1>9
<1>13. Levels' = [i \in 1 .. d |->
                    IF i = d
                    THEN Nested!Level(Levels[i].packed, Levels[i].bytes \o write_varint(Len(P)) \o P)
                    ELSE Levels[i]]
  <2> HIDE DEF P
  <2> QED BY <1>11, <1>12
<1> QED BY <1>8, <1>13

(***************************************************************************)
(* The specification.                                                      *)
(***************************************************************************)

(* An empty buffer has its type.                                           *)
LEMMA InitType == Init => TypeOK
<1> SUFFICES ASSUME Init PROVE TypeOK
  OBVIOUS
<1> DEFINE F == [start : 1 .. Len(buf), packed : BOOLEAN]
<1>1. buf = <<>> /\ frames = <<>> /\ status = "writing"
  BY DEF Init
<1>2. buf \in Seq(Bytes) /\ frames \in Seq(F) /\ Depth = 0
  <2> HIDE DEF F
  <2> QED BY <1>1, EmptySeq DEF Depth
<1> QED BY <1>1, <1>2 DEF TypeOK

(* What a field writes: a tag and a value.                                 *)
LEMMA FieldBytes ==
  ASSUME NEW n \in Numbers, NEW e \in Values, buf \in Seq(Bytes)
  PROVE  LET s == write_tag(n, e.wire) \o Written(e)
         IN  s \in Seq(Bytes) /\ buf \o write_tag(n, e.wire) \o Written(e) = buf \o s
<1>1. write_tag(n, e.wire) \in Seq(Bytes) /\ Written(e) \in Seq(Bytes)
  BY WrittenBytes, TagBytes
<1>2. write_tag(n, e.wire) \o Written(e) \in Seq(Bytes)
  BY <1>1, ConcatProperties
<1>3. buf \o write_tag(n, e.wire) \o Written(e) = buf \o (write_tag(n, e.wire) \o Written(e))
  BY <1>1, Associative, Zenon
<1> QED BY <1>2, <1>3

(* What Close assumes of the innermost call.                               *)
LEMMA CloseIs ==
  ASSUME TypeOK, Close
  PROVE  \E d \in Nat \ {0}, start \in Nat :
           /\ d = Depth /\ start = frames[d].start /\ Len(buf) - start < U64
           /\ buf' = InPlace(buf, start, Len(buf) - start)
           /\ frames' = SubSeq(frames, 1, d - 1)
<1>1. Depth \in Nat \ {0} /\ frames[Depth].start \in Nat
  <2>1. Depth \in Nat /\ Depth > 0
    BY FramePositions DEF Close
  <2>2. frames[Depth].start \in 1 .. Len(buf)
    BY <2>1, FramePositions
  <2> QED BY <2>1, <2>2
<1>2. /\ Len(buf) - frames[Depth].start < U64
      /\ buf' = InPlace(buf, frames[Depth].start, Len(buf) - frames[Depth].start)
      /\ frames' = SubSeq(frames, 1, Depth - 1)
  BY DEF Close, InPlace
<1> QED BY <1>1, <1>2

(* Every step keeps the types.                                             *)
LEMMA StepType == TypeOK /\ [Next]_vars => TypeOK'
<1> SUFFICES ASSUME TypeOK, [Next]_vars PROVE TypeOK'
  OBVIOUS
<1>1. buf \in Seq(Bytes)
  BY DEF TypeOK
<1>2. ASSUME NEW n \in Numbers, NEW e \in Values, WriteField(n, e) PROVE TypeOK'
  <2>1. PICK s \in Seq(Bytes) : buf' = buf \o s
    BY <1>1, <1>2, FieldBytes DEF WriteField
  <2> QED BY <1>2, <2>1, ExtendTypes DEF WriteField
<1>3. ASSUME NEW e \in Values, WriteElement(e) PROVE TypeOK'
  <2>1. Written(e) \in Seq(Bytes)
    BY WrittenBytes
  <2> QED BY <1>3, <2>1, ExtendTypes DEF WriteElement
<1>4. ASSUME NEW n \in Numbers, NEW packed \in BOOLEAN, Open(n, packed) PROVE TypeOK'
  <2>1. PICK s \in Seq(Bytes) : s = write_tag(n, WIRE_LEN)
    BY TagBytes DEF WIRE_LEN
  <2> QED BY <1>4, <2>1, OpenTypes DEF Open, Writing
<1>5. ASSUME Close PROVE TypeOK'
  <2>1. PICK d \in Nat \ {0}, start \in Nat :
           /\ d = Depth /\ start = frames[d].start /\ Len(buf) - start < U64
           /\ buf' = InPlace(buf, start, Len(buf) - start)
           /\ frames' = SubSeq(frames, 1, d - 1)
    BY <1>5, CloseIs
  <2>2. status = "writing" /\ status' = status
    BY <1>5 DEF Close, Writing
  <2> QED BY <2>1, <2>2, CloseTypes
<1>6. ASSUME Finish PROVE TypeOK'
  <2>1. Depth = 0 /\ Len(frames) = 0
    BY <1>6 DEF Finish, Depth
  <2>2. frames = <<>>
    <3> DEFINE F == [start : 1 .. Len(buf), packed : BOOLEAN]
    <3>1. frames \in Seq(F)
      BY DEF TypeOK
    <3> HIDE DEF F
    <3> QED BY <2>1, <3>1, EmptySeq
  <2> QED BY <1>6, <2>2 DEF Finish, TypeOK, Depth
<1>7. ASSUME Fail \/ Terminated \/ UNCHANGED vars PROVE TypeOK'
  <2>1. buf' = buf /\ frames' = frames /\ Depth' = Depth
    BY <1>7 DEF Fail, Terminated, vars, Depth
  <2>2. status' = "failed" \/ status' = status
    BY <1>7 DEF Fail, Terminated, vars
  <2>3. status' \in {"writing", "done", "failed"} /\ (status' = "done" => frames' = <<>>)
    BY <2>1, <2>2 DEF TypeOK
  <2> QED BY <2>1, <2>3, Zenon DEF TypeOK
<1>8. \/ \E n \in Numbers, e \in Values : WriteField(n, e)
      \/ \E e \in Values : WriteElement(e)
      \/ \E n \in Numbers, packed \in BOOLEAN : Open(n, packed)
      \/ Close \/ Finish \/ Fail \/ Terminated \/ UNCHANGED vars
  BY DEF Next
<1>9. CASE \E n \in Numbers, e \in Values : WriteField(n, e)
  BY <1>2, <1>9
<1>10. CASE \E e \in Values : WriteElement(e)
  BY <1>3, <1>10
<1>11. CASE \E n \in Numbers, packed \in BOOLEAN : Open(n, packed)
  BY <1>4, <1>11
<1> QED BY <1>5, <1>6, <1>7, <1>8, <1>9, <1>10, <1>11

(* The buffer always has the bytes that TypeOK says of it: a reserved byte *)
(* is in the buffer, in order, and zero until its length is known.         *)
THEOREM TypeCorrect == Spec => []TypeOK
<1>1. Init => TypeOK
  BY InitType
<1>2. TypeOK /\ [Next]_vars => TypeOK'
  BY StepType
<1> QED BY <1>1, <1>2, PTL DEF Spec

(* An empty buffer is an empty writer.                                     *)
LEMMA InitRefines == Init => Nested!Init
<1> SUFFICES ASSUME Init PROVE Nested!Init
  OBVIOUS
<1>1. buf = <<>> /\ frames = <<>> /\ status = "writing"
  BY DEF Init
<1>2. Len(buf) = 0 /\ Depth = 0
  BY <1>1 DEF Depth
<1>3. Packed(1) = FALSE
  BY DEF Packed
<1>4. Payload(1) = <<>>
  <2>1. First(1) = 1 /\ Last(1) = 0
    BY <1>2 DEF First, Last
  <2>2. SubSeq(buf, 1, 0) = <<>>
    BY SubSeqEmpty
  <2> QED BY <2>1, <2>2 DEF Payload
<1>5. Levels = [i \in 1 .. 1 |-> [packed |-> Packed(i), bytes |-> Payload(i)]]
  <2>1. Depth + 1 = 1
    BY <1>2
  <2> QED BY <2>1 DEF Levels
<1>6. Levels = [i \in 1 .. 1 |-> [packed |-> FALSE, bytes |-> <<>>]]
  <2>1. \A i \in 1 .. 1 : [packed |-> Packed(i), bytes |-> Payload(i)] = [packed |-> FALSE, bytes |-> <<>>]
    <3>1. \A i \in 1 .. 1 : i = 1
      OBVIOUS
    <3> QED BY <1>3, <1>4, <3>1, Zenon
  <2> QED BY <1>5, <2>1
<1>7. Levels = <<[packed |-> FALSE, bytes |-> <<>>]>>
  <2>1. \A x : [i \in 1 .. 1 |-> x] = <<x>>
    OBVIOUS
  <2> QED BY <1>6, <2>1, Zenon
<1> QED BY <1>1, <1>7 DEF Nested!Init, Nested!Level

(* NestedWriter writes the same varints.                                   *)
LEMMA SameVarints ==
  /\ Nested!WIRE_LEN = WIRE_LEN
  /\ \A v : Nested!write_varint(v) = write_varint(v)
  /\ \A n, wire : Nested!write_tag(n, wire) = write_tag(n, wire)
  /\ \A e : Nested!Written(e) = Written(e)
<1>1. Nested!Base = Base /\ Nested!Shifts = Shifts /\ Nested!WIRE_LEN = WIRE_LEN
      /\ Nested!WIRE_VARINT = WIRE_VARINT
  BY Zenon DEF Base, Shifts, WIRE_LEN, WIRE_VARINT,
               Nested!Base, Nested!Shifts, Nested!WIRE_LEN, Nested!WIRE_VARINT
<1>2. \A v, i : Nested!Shifted(v, i) = Shifted(v, i)
  BY Zenon DEF Shifted, Nested!Shifted
<1>3. \A v, i : Nested!Digit(v, i) = Digit(v, i)
  BY <1>1, <1>2, Zenon DEF Digit, Nested!Digit
<1>4. \A v : Nested!Rounds(v) = Rounds(v)
  BY <1>1, <1>2, Zenon DEF Rounds, Nested!Rounds
<1>5. \A v : Nested!write_varint(v) = write_varint(v)
  BY <1>1, <1>3, <1>4, Zenon DEF write_varint, Nested!write_varint
<1>6. \A n, wire : Nested!write_tag(n, wire) = write_tag(n, wire)
  BY <1>5, Zenon DEF write_tag, Nested!write_tag, encode_tag, Nested!encode_tag
<1>7. \A e : Nested!Written(e) = Written(e)
  BY <1>1, <1>5, Zenon DEF Written, Nested!Written
<1> QED BY <1>1, <1>5, <1>6, <1>7, Zenon

(* The two writers can do the same steps.                                  *)
LEMMA Guards ==
  ASSUME TypeOK
  PROVE  /\ Levels[Nested!Top].packed <=> InPacked
         /\ Nested!Top > 1 <=> Depth > 0
         /\ Nested!Top = 1 <=> Depth = 0
<1>1. Nested!Top = Depth + 1 /\ Depth \in Nat
  BY LevelsLength, FramePositions DEF Nested!Top
<1>2. Levels[Nested!Top].packed <=> InPacked
  <2>1. Levels[Depth + 1].packed <=> InPacked
    BY LevelsLength
  <2> QED BY <1>1, <2>1, Zenon
<1> QED BY <1>1, <1>2

(* Every step on the buffer is one of the writer that knows the lengths.   *)
LEMMA StepRefines == TypeOK /\ [Next]_vars => [Nested!Next]_(Nested!vars)
<1> SUFFICES ASSUME TypeOK, [Next]_vars PROVE [Nested!Next]_(Nested!vars)
  OBVIOUS
<1>1. buf \in Seq(Bytes)
  BY DEF TypeOK
<1>2. ASSUME NEW n \in Numbers, NEW e \in Values, WriteField(n, e) PROVE Nested!WriteField(n, e)
  <2>1. PICK s \in Seq(Bytes) : s = write_tag(n, e.wire) \o Written(e) /\ buf' = buf \o s
    BY <1>1, <1>2, FieldBytes DEF WriteField
  <2>2. UNCHANGED <<frames, status>> /\ status = "writing" /\ ~InPacked
    BY <1>2 DEF WriteField, Writing
  <2>3. Levels' = [Levels EXCEPT ![Nested!Top] = Nested!Level(@.packed, @.bytes \o s)]
    BY <2>1, <2>2, ExtendLevels
  <2>4. ~Levels[Nested!Top].packed
    BY <2>2, Guards
  <2>5. s = write_tag(n, e.wire) \o Written(e) /\ status' = status
    BY <2>1, <2>2
  <2> QED BY <2>2, <2>3, <2>4, <2>5, SameVarints DEF Nested!WriteField, Nested!Append_
<1>3. ASSUME NEW e \in Values, WriteElement(e) PROVE Nested!WriteElement(e)
  <2>1. PICK s \in Seq(Bytes) : s = Written(e)
    BY WrittenBytes
  <2>2. /\ UNCHANGED <<frames, status>> /\ status = "writing" /\ InPacked /\ e.wire # WIRE_LEN
        /\ buf' = buf \o s
    BY <1>3, <2>1 DEF WriteElement, Writing
  <2>3. Levels' = [Levels EXCEPT ![Nested!Top] = Nested!Level(@.packed, @.bytes \o s)]
    BY <2>2, ExtendLevels
  <2>4. Levels[Nested!Top].packed /\ status' = status
    BY <2>2, Guards
  <2> QED BY <2>1, <2>2, <2>3, <2>4, SameVarints DEF Nested!WriteElement, Nested!Append_
<1>4. ASSUME NEW n \in Numbers, NEW packed \in BOOLEAN, Open(n, packed)
      PROVE  Nested!Open(n, packed)
  <2>1. PICK s \in Seq(Bytes) : s = write_tag(n, WIRE_LEN)
    BY TagBytes DEF WIRE_LEN
  <2>2. /\ status' = status /\ status = "writing" /\ ~InPacked
        /\ buf' = buf \o s \o <<0>>
        /\ frames' = Append(frames, Frame(Len(buf) + Len(s) + 1, packed))
    BY <1>4, <2>1 DEF Open, Writing
  <2>3. Levels' = [i \in 1 .. Nested!Top + 1 |->
                      IF i = Nested!Top + 1 THEN Nested!Level(packed, <<>>)
                      ELSE IF i = Nested!Top
                      THEN Nested!Level(Levels[i].packed, Levels[i].bytes \o s)
                      ELSE Levels[i]]
    BY <2>2, OpenLevels
  <2>4. ~Levels[Nested!Top].packed
    BY <2>2, Guards
  <2> QED BY <2>1, <2>2, <2>3, <2>4, SameVarints DEF Nested!Open
<1>5. ASSUME Close PROVE Nested!Close
  <2>1. PICK d \in Nat \ {0}, start \in Nat :
           /\ d = Depth /\ start = frames[d].start /\ Len(buf) - start < U64
           /\ buf' = InPlace(buf, start, Len(buf) - start)
           /\ frames' = SubSeq(frames, 1, d - 1)
    BY <1>5, CloseIs
  <2>2. status = "writing" /\ status' = status /\ Depth > 0
    BY <1>5 DEF Close, Writing
  <2>3. LET payload == Levels[Nested!Top].bytes
        IN  Levels' = [i \in 1 .. Nested!Top - 1 |->
                         IF i = Nested!Top - 1
                         THEN Nested!Level(Levels[i].packed,
                                           Levels[i].bytes \o write_varint(Len(payload)) \o payload)
                         ELSE Levels[i]]
    BY <2>1, <2>2, CloseLevels
  <2>4. Nested!Top > 1
    BY <2>2, Guards
  <2> QED BY <2>2, <2>3, <2>4, SameVarints DEF Nested!Close
<1>6. ASSUME UNCHANGED <<buf, frames>> PROVE Levels' = Levels
  <2>1. Depth' = Depth
    BY <1>6 DEF Depth
  <2>2. \A i \in 1 .. Depth + 1 : Packed(i)' = Packed(i) /\ Payload(i)' = Payload(i)
    BY <1>6, <2>1 DEF Packed, Payload, First, Last
  <2> QED BY <2>1, <2>2 DEF Levels
<1>7. ASSUME Finish PROVE Nested!Finish
  <2>1. Levels' = Levels /\ status = "writing" /\ status' = "done" /\ Nested!Top = 1
    BY <1>6, <1>7, Guards DEF Finish, Writing
  <2> QED BY <2>1, Zenon DEF Nested!Finish
<1>8. ASSUME Fail PROVE Nested!Fail
  <2>1. Levels' = Levels /\ status = "writing" /\ status' = "failed"
    BY <1>6, <1>8 DEF Fail, Writing
  <2> QED BY <2>1, Zenon DEF Nested!Fail
<1>9. ASSUME Terminated \/ UNCHANGED vars PROVE UNCHANGED Nested!vars
  <2>1. Levels' = Levels /\ status' = status
    BY <1>6, <1>9 DEF Terminated, vars
  <2> QED BY <2>1, Zenon DEF Nested!vars
<1> QED BY <1>2, <1>3, <1>4, <1>5, <1>7, <1>8, <1>9, Zenon DEF Next, Nested!Next

(* encode writes lengths in place, and writes what one writes that knows   *)
(* every payload before its length.                                        *)
THEOREM Refinement == Spec => WritesPrefixed
<1>1. Init => Nested!Init
  BY InitRefines
<1>2. TypeOK /\ [Next]_vars => [Nested!Next]_(Nested!vars)
  BY StepRefines
<1>3. Spec => []TypeOK
  BY TypeCorrect
<1> QED BY <1>1, <1>2, <1>3, PTL DEF Spec, WritesPrefixed, Nested!Spec

(***************************************************************************)
(* What is written is a message.                                           *)
(***************************************************************************)

(* A byte is a number.                                                     *)
LEMMA ByteNumbers ==
  ASSUME NEW s \in Seq(Bytes), NEW i \in 1 .. Len(s)
  PROVE  s[i] \in Nat /\ s[i] % Base \in Nat
<1>1. s[i] \in Bytes
  BY ElementOfSeq
<1>2. s[i] \in Nat /\ Base \in Nat \ {0}
  BY <1>1, BaseType DEF Bytes
<1> QED BY <1>2, DivMod

(* What the digits of a part say, as read from its first one on.           *)
LEMMA ValueByDigits ==
  ASSUME NEW s \in Seq(Bytes), NEW j \in 0 .. Len(s)
  PROVE  /\ \A i \in 0 .. j : Read!Value(s, i, j) \in Nat
         /\ Read!Value(s, j, j) = 0
         /\ \A i \in 0 .. j - 1 :
              Read!Value(s, i, j) = (s[i + 1] % Base) + Base * Read!Value(s, i + 1, j)
<1>1. j \in Nat /\ Base \in Nat \ {0}
  BY BaseType
<1>2. \A i \in 1 .. j : s[i] \in Nat
  <2>1. \A i \in 1 .. j : i \in 1 .. Len(s)
    OBVIOUS
  <2> QED BY <2>1, ByteNumbers
<1>3. PICK v : v = Horner(s, Base, j)
  OBVIOUS
<1>4. \A i : Read!Value(s, i, j) = v[i]
  BY <1>3, Zenon DEF Read!Value, Horner
<1>5. Horners(v, s, Base, j)
  BY <1>1, <1>2, <1>3, HornerIs
<1> QED BY <1>4, <1>5 DEF Horners

(* m is the beginning of s.                                                *)
Begins(m, s) ==
  /\ m \in Seq(Bytes) /\ s \in Seq(Bytes) /\ Len(m) \in Nat /\ Len(m) <= Len(s) /\ Len(s) \in Nat
  /\ \A i \in 1 .. Len(m) : s[i] = m[i]

(* A part of it has the same value in both.                                *)
LEMMA SameValue ==
  ASSUME NEW m, NEW s, Begins(m, s), NEW j \in 0 .. Len(m), NEW i \in 0 .. j
  PROVE  Read!Value(m, i, j) = Read!Value(s, i, j)
<1> DEFINE S == {b \in 0 .. j : Read!Value(m, b, j) = Read!Value(s, b, j)}
<1>1. m \in Seq(Bytes) /\ s \in Seq(Bytes) /\ j \in 0 .. Len(s) /\ j \in Nat
      /\ \A b \in 1 .. Len(m) : s[b] = m[b]
  BY DEF Begins
<1>2. j \in S
  <2>1. Read!Value(m, j, j) = 0 /\ Read!Value(s, j, j) = 0
    BY <1>1, ValueByDigits
  <2> QED BY <1>1, <2>1
<1>3. ASSUME NEW b \in 0 .. j - 1, b + 1 \in S PROVE b \in S
  <2>1. b + 1 \in 1 .. Len(m) /\ b \in 0 .. j
    BY <1>1
  <2>2. Read!Value(m, b, j) = (m[b + 1] % Base) + Base * Read!Value(m, b + 1, j)
    BY <1>1, ValueByDigits
  <2>3. Read!Value(s, b, j) = (s[b + 1] % Base) + Base * Read!Value(s, b + 1, j)
    BY <1>1, ValueByDigits
  <2>4. m[b + 1] = s[b + 1] /\ Read!Value(m, b + 1, j) = Read!Value(s, b + 1, j)
    BY <1>1, <1>3, <2>1
  <2>5. Read!Value(m, b, j) = Read!Value(s, b, j)
    BY <2>2, <2>3, <2>4, Zenon
  <2> QED BY <2>1, <2>5
<1> HIDE DEF S
<1>4. i \in S
  BY <1>1, <1>2, <1>3, DownTo
<1> QED BY <1>4 DEF S

(* So a varint in it is one in both.                                       *)
LEMMA SameVarint ==
  ASSUME NEW m, NEW s, Begins(m, s), NEW j \in 0 .. Len(m), NEW i \in 0 .. j, Read!IsVarint(m, i, j)
  PROVE  Read!IsVarint(s, i, j)
<1>1. Read!Value(m, i, j) = Read!Value(s, i, j)
  BY SameValue
<1>2. \A b \in i + 1 .. j : s[b] = m[b]
  <2>1. \A b \in i + 1 .. j : b \in 1 .. Len(m)
    BY DEF Begins
  <2> QED BY <2>1 DEF Begins
<1> QED BY <1>1, <1>2 DEF Read!IsVarint

(* And so is a field.                                                      *)
LEMMA SameField ==
  ASSUME NEW m, NEW s, Begins(m, s), NEW j \in 0 .. Len(m), NEW i \in 0 .. j, Read!IsField(m, i, j)
  PROVE  Read!IsField(s, i, j)
<1>1. PICK t \in i + 1 .. j, wire \in Read!WireTypes : Read!IsTag(m, i, t, wire) /\ Read!IsBody(m, t, j, wire)
  BY DEF Read!IsField
<1>2. t \in 0 .. Len(m) /\ i \in 0 .. t /\ t \in 0 .. j
  BY DEF Begins
<1>3. Read!IsTag(s, i, t, wire)
  <2>1. Read!IsVarint(m, i, t)
    BY <1>1 DEF Read!IsTag
  <2>2. Read!IsVarint(s, i, t) /\ Read!Value(m, i, t) = Read!Value(s, i, t)
    BY <1>2, <2>1, SameVarint, SameValue
  <2> QED BY <1>1, <2>2 DEF Read!IsTag
<1>4. ASSUME Read!IsVarint(m, t, j) PROVE Read!IsVarint(s, t, j)
  BY <1>2, <1>4, SameVarint
<1>5. ASSUME Read!IsLengthDelimited(m, t, j) PROVE Read!IsLengthDelimited(s, t, j)
  <2>1. PICK l \in t + 1 .. j : Read!IsVarint(m, t, l) /\ Read!Value(m, t, l) = j - l
    BY <1>5 DEF Read!IsLengthDelimited
  <2>2. l \in 0 .. Len(m) /\ t \in 0 .. l
    BY <1>2
  <2>3. Read!IsVarint(s, t, l) /\ Read!Value(s, t, l) = j - l
    BY <2>1, <2>2, SameVarint, SameValue
  <2> QED BY <2>3 DEF Read!IsLengthDelimited
<1>6. Read!IsBody(s, t, j, wire)
  BY <1>1, <1>4, <1>5, Zenon DEF Read!IsBody
<1> QED BY <1>3, <1>6 DEF Read!IsField

(* One shift more takes one digit off.                                     *)
LEMMA NextShifted ==
  ASSUME NEW v \in Nat, NEW i \in Nat, i + 1 \in Shifts
  PROVE  /\ i \in Shifts
         /\ Shifted(v, i) = Digit(v, i) + Base * Shifted(v, i + 1)
<1> DEFINE q == Width \div Bits
           w == Power[Bits * i]
           x == v \div w
           r == v % w
           y == x \div Base
           d == x % Base
<1>1. i \in Shifts
  <2>1. q \in Nat /\ Shifts = 0 .. q
    BY BitsAssumption DEF Shifts
  <2> HIDE DEF q
  <2> QED BY <2>1
<1>2. Bits * i \in 0 .. Width /\ Bits \in 0 .. Width /\ Bits * i + Bits = Bits * (i + 1)
      /\ Bits * i + Bits <= Width + Bits
  <2>1. Bits * i \in 0 .. Width
    BY <1>1, ShiftBounds
  <2> QED BY <2>1, BitsAssumption
<1>3. Power[Bits * (i + 1)] = w * Base /\ w \in Nat \ {0} /\ Base \in Nat \ {0}
  <2> DEFINE n == Bits * i
  <2> HIDE DEF n
  <2>1. n \in 0 .. Width /\ n + Bits = Bits * (i + 1)
    BY <1>2 DEF n
  <2>2. Power[n + Bits] = Power[n] * Power[Bits] /\ Power[n] \in Nat \ {0} /\ Power[Bits] \in Nat \ {0}
    BY <1>2, <2>1, PowerProduct
  <2> QED BY <2>1, <2>2 DEF n, Base
<1> HIDE DEF w
<1>4. x \in Int /\ r \in Int /\ 0 <= r /\ r < w /\ v = w * x + r
  BY <1>3, DivMod
<1>5. x \in Nat
  BY <1>3, <1>4, DivBound
<1> HIDE DEF x, r
<1>6. y \in Int /\ d \in Int /\ 0 <= d /\ d < Base /\ x = Base * y + d
  BY <1>3, <1>5, DivMod
<1> HIDE DEF y, d
<1>7. v \div (w * Base) = y
  <2> DEFINE e == w * d + r
             b == w * Base
  <2>1. w * d \in Int /\ w * d >= 0 /\ b \in Int /\ b > 0
    <3>1. \A f, g \in Nat : f * g \in Nat
      OBVIOUS
    <3>2. d \in Nat /\ w \in Nat
      BY <1>3, <1>6
    <3>3. \A f, g \in Nat \ {0} : f * g > 0
      OBVIOUS
    <3> QED BY <1>3, <3>1, <3>2, <3>3
  <2>2. w * (Base - 1 - d) >= 0 /\ w * (Base - 1 - d) = w * Base - w - w * d
    <3>1. Base - 1 - d \in Nat /\ w \in Nat
      BY <1>3, <1>6
    <3>2. w * (Base - 1 - d) \in Nat
      BY <3>1
    <3>3. w * (Base - 1 - d) = w * Base - w - w * d
      BY <1>3, <1>6
    <3> QED BY <3>2, <3>3
  <2>3. v = b * y + e
    <3>1. w * (Base * y + d) = (w * Base) * y + w * d
      BY <1>3, <1>6
    <3>2. (w * Base) * y \in Int
      BY <1>3, <1>6
    <3> QED BY <1>4, <1>6, <2>1, <3>1, <3>2
  <2>4. e \in Int /\ 0 <= e /\ e < b
    BY <1>3, <1>4, <2>1, <2>2
  <2> HIDE DEF e, b
  <2>5. Division(v, b, y, e)
    BY <1>6, <2>1, <2>3, <2>4 DEF Division
  <2>6. v \div b = y
    BY <2>5, ModUnique
  <2> QED BY <2>6 DEF b
<1>8. Shifted(v, i) = x /\ Shifted(v, i + 1) = y /\ Digit(v, i) = d
  <2>1. Shifted(v, i) = x
    BY DEF Shifted, x, w
  <2>2. Shifted(v, i + 1) = y
    BY <1>3, <1>7, Zenon DEF Shifted
  <2> QED BY <2>1, <2>2, Zenon DEF Digit, d
<1> QED BY <1>1, <1>3, <1>6, <1>8

(* The digits of a varint, and which of them is the last one.              *)
LEMMA WrittenDigits ==
  ASSUME NEW v \in 0 .. U64 - 1, NEW k \in 1 .. Rounds(v) + 1
  PROVE  /\ write_varint(v)[k] % Base = Digit(v, k - 1)
         /\ write_varint(v)[k] < Base <=> k = Rounds(v) + 1
<1> DEFINE p == Rounds(v)
           w == write_varint(v)
           d == Digit(v, k - 1)
<1>1. p \in Shifts /\ p \in Nat /\ v \in Nat
  BY RoundsProperties, ShiftBounds, U64Type
<1>2. k - 1 \in Shifts
  <2> DEFINE q == Width \div Bits
  <2>1. q \in Nat /\ Shifts = 0 .. q
    BY BitsAssumption DEF Shifts
  <2> HIDE DEF q
  <2> QED BY <2>1, <1>1
<1>3. d \in 0 .. Base - 1 /\ Base \in Nat \ {0}
  BY <1>1, <1>2, DigitBytes, BaseType
<1>4. w[k] = d + (IF k <= p THEN Base ELSE 0)
  BY DEF write_varint
<1> HIDE DEF d, w, p
<1>5. k \in Int /\ (k <= p <=> k # p + 1)
  BY <1>1 DEF p
<1>6. CASE k = p + 1
  <2>1. w[k] = d
    BY <1>3, <1>4, <1>5, <1>6
  <2>2. Division(d, Base, 0, d)
    BY <1>3 DEF Division
  <2>3. d % Base = d
    BY <2>2, ModUnique
  <2>4. w[k] < Base
    BY <1>3, <2>1
  <2> QED BY <1>6, <2>1, <2>3, <2>4 DEF d, w, p
<1>7. CASE k # p + 1
  <2>1. w[k] = d + Base
    BY <1>4, <1>5, <1>7
  <2>2. Division(d + Base, Base, 1, d)
    BY <1>3 DEF Division
  <2>3. (d + Base) % Base = d
    BY <2>2, ModUnique
  <2>4. ~(w[k] < Base)
    BY <1>3, <2>1
  <2> QED BY <1>7, <2>1, <2>3, <2>4 DEF d, w, p
<1> QED BY <1>6, <1>7

(* w is in s, behind i bytes.                                              *)
At(s, i, w) == i + Len(w) <= Len(s) /\ \A k \in 1 .. Len(w) : s[i + k] = w[k]

(* The reader reads the varint that is written, and the number it is of.   *)
LEMMA VarintAt ==
  ASSUME NEW s \in Seq(Bytes), NEW i \in Nat, NEW v \in 0 .. U64 - 1, At(s, i, write_varint(v))
  PROVE  LET j == i + Len(write_varint(v))
         IN  /\ j \in i + 1 .. Len(s)
             /\ Read!IsVarint(s, i, j)
             /\ Read!Value(s, i, j) = v
<1> DEFINE p == Rounds(v)
           w == write_varint(v)
           j == i + p + 1
           S == {m \in 0 .. p : Read!Value(s, i + m, j) = Shifted(v, m)}
<1>1. p \in Shifts /\ p \in Nat /\ v \in Nat /\ Len(w) = p + 1 /\ Len(s) \in Nat /\ Base \in Nat \ {0}
  BY RoundsProperties, VarintBytes, U64Type, BaseType, LenProperties
<1>2. j \in i + 1 .. Len(s) /\ j \in 0 .. Len(s)
  BY <1>1 DEF At
<1>3. ASSUME NEW k \in 1 .. p + 1
      PROVE  s[i + k] % Base = Digit(v, k - 1) /\ (s[i + k] < Base <=> k = p + 1)
  <2>1. s[i + k] = w[k]
    BY <1>1 DEF At
  <2>2. w[k] % Base = Digit(v, k - 1) /\ (w[k] < Base <=> k = p + 1)
    BY WrittenDigits
  <2> QED BY <2>1, <2>2
<1>4. ASSUME NEW m \in 0 .. p
      PROVE  /\ Read!Value(s, i + m, j) = Digit(v, m) + Base * Read!Value(s, i + m + 1, j)
             /\ m \in Shifts
  <2>1. i + m \in 0 .. j - 1 /\ m + 1 \in 1 .. p + 1 /\ (m + 1) - 1 = m /\ i + (m + 1) = i + m + 1
    BY <1>1
  <2>2. Read!Value(s, i + m, j) = (s[i + m + 1] % Base) + Base * Read!Value(s, i + m + 1, j)
    BY <1>2, <2>1, ValueByDigits
  <2>3. s[i + m + 1] % Base = Digit(v, m)
    BY <1>3, <2>1
  <2>4. m \in Shifts
    <3> DEFINE q == Width \div Bits
    <3>1. q \in Nat /\ Shifts = 0 .. q
      BY BitsAssumption DEF Shifts
    <3> HIDE DEF q, p
    <3> QED BY <3>1, <1>1
  <2> QED BY <2>2, <2>3, <2>4
<1>5. p \in S
  <2>1. Read!Value(s, i + p + 1, j) = 0
    BY <1>2, ValueByDigits
  <2>2. Read!Value(s, i + p, j) = Digit(v, p) + Base * 0
    BY <1>1, <1>4, <2>1
  <2>3. Shifted(v, p) < Base /\ Shifted(v, p) \in Nat
    BY <1>1, RoundsProperties, ShiftedBelow
  <2>4. Digit(v, p) = Shifted(v, p)
    <3>1. Division(Shifted(v, p), Base, 0, Shifted(v, p))
      BY <1>1, <2>3 DEF Division
    <3> QED BY <3>1, ModUnique DEF Digit
  <2>5. Read!Value(s, i + p, j) = Shifted(v, p)
    BY <1>1, <2>2, <2>3, <2>4
  <2> QED BY <1>1, <2>5
<1>6. ASSUME NEW m \in 0 .. p - 1, m + 1 \in S PROVE m \in S
  <2>1. m \in 0 .. p /\ m + 1 \in 0 .. p /\ m \in Nat
    BY <1>1
  <2>2. m + 1 \in Shifts
    BY <1>4, <2>1
  <2>3. Shifted(v, m) = Digit(v, m) + Base * Shifted(v, m + 1)
    BY <1>1, <2>1, <2>2, NextShifted
  <2>4. i + m + 1 = i + (m + 1)
    BY <1>1, <2>1
  <2>5. Read!Value(s, i + m + 1, j) = Shifted(v, m + 1)
    BY <1>6, <2>4
  <2>6. Read!Value(s, i + m, j) = Digit(v, m) + Base * Read!Value(s, i + m + 1, j)
    BY <1>4, <2>1
  <2>7. Read!Value(s, i + m, j) = Shifted(v, m)
    BY <2>3, <2>5, <2>6
  <2> QED BY <2>1, <2>7
<1> HIDE DEF S
<1>7. 0 \in S
  BY <1>1, <1>5, <1>6, DownTo
<1>8. Read!Value(s, i, j) = v
  <2>1. Read!Value(s, i + 0, j) = Shifted(v, 0) /\ i + 0 = i
    BY <1>7 DEF S
  <2>2. Bits * 0 = 0
    BY BitsAssumption
  <2>3. Shifted(v, 0) = v
    BY <1>1, <2>2, PowerAssumption DEF Shifted
  <2> QED BY <2>1, <2>3
<1>9. \A b \in i + 1 .. j : s[b] < Base <=> b = j
  <2> SUFFICES ASSUME NEW b \in i + 1 .. j PROVE s[b] < Base <=> b = j
    OBVIOUS
  <2>1. PICK k \in 1 .. p + 1 : k = b - i
    BY <1>1
  <2>2. i + k = b /\ (k = p + 1 <=> b = j)
    BY <1>1, <2>1
  <2> QED BY <1>3, <2>2
<1>10. j - i \in 1 .. (Width \div Bits) + 1
  <2> DEFINE q == Width \div Bits
  <2>1. q \in Nat /\ Shifts = 0 .. q
    BY BitsAssumption DEF Shifts
  <2> HIDE DEF q
  <2>2. p + 1 \in 1 .. q + 1
    BY <1>1, <2>1
  <2>3. j - i = p + 1
    BY <1>1
  <2> QED BY <2>2, <2>3 DEF q
<1>11. v < U64
  BY U64Type
<1>12. Read!IsVarint(s, i, j)
  BY <1>8, <1>9, <1>10, <1>11 DEF Read!IsVarint
<1>13. j = i + Len(w)
  BY <1>1
<1> QED BY <1>2, <1>8, <1>12, <1>13

(* It reads the tag that is written.                                       *)
LEMMA TagAt ==
  ASSUME NEW s \in Seq(Bytes), NEW i \in Nat, NEW n \in Numbers, NEW wire \in Read!WireTypes,
         At(s, i, write_tag(n, wire))
  PROVE  LET j == i + Len(write_tag(n, wire))
         IN  j \in i + 1 .. Len(s) /\ Read!IsTag(s, i, j, wire)
<1> DEFINE v == encode_tag(n, wire)
           j == i + Len(write_tag(n, wire))
<1>1. n \in Nat /\ 8 * n + 7 < U64 /\ U64 \in Nat /\ n \in 1 .. MAX_FIELD_NUMBER
  BY ValuesAssumption, SizeAssumption, U64Type
<1>2. wire \in 0 .. 7
  BY DEF Read!WireTypes, Read!WIRE_VARINT, Read!WIRE_I64, Read!WIRE_LEN, Read!WIRE_I32
<1>3. v = 8 * n + wire /\ v \in 0 .. U64 - 1
  BY <1>1, <1>2 DEF encode_tag
<1>4. v \div 8 = n /\ v % 8 = wire
  BY <1>1, <1>2, <1>3
<1> HIDE DEF v
<1>5. write_tag(n, wire) = write_varint(v)
  BY DEF write_tag, v
<1>6. j \in i + 1 .. Len(s) /\ Read!IsVarint(s, i, j) /\ Read!Value(s, i, j) = v
  BY <1>3, <1>5, VarintAt
<1> QED BY <1>1, <1>4, <1>6 DEF Read!IsTag

(* Fields, one behind the other, are all there is in m.                    *)
FieldsOf(s) == {x \in (0 .. Len(s)) \X (0 .. Len(s)) : Read!IsField(s, x[1], x[2])}
Message(m) == m \in Seq(Bytes) /\ Leads(FieldsOf(m), Len(m), 0)

(* Such a string is a message for the reader.                              *)
LEMMA MessageIsRead ==
  ASSUME NEW s, Message(s)
  PROVE  Read!IsMessage(s)
<1> DEFINE n == Len(s)
           R == FieldsOf(s)
           Rest(rest, i) == i = n \/ \E j \in i + 1 .. n : Read!IsField(s, i, j) /\ rest[j]
           IsRest(rest) == rest = [i \in 0 .. n |-> Rest(rest, i)]
           g == [i \in 0 .. n |-> Leads(R, n, i)]
           r == CHOOSE rest : IsRest(rest)
<1>1. n \in Nat
  BY LenProperties DEF Message
<1>2. ASSUME NEW i \in 0 .. n
      PROVE  Leads(R, n, i) <=> (i = n \/ \E j \in i + 1 .. n : <<i, j>> \in R /\ Leads(R, n, j))
  <2> HIDE DEF n, R
  <2> QED BY <1>1, LeadsByStep
<1>3. \A i \in 0 .. n : \A j \in i + 1 .. n : j \in 0 .. n /\ (<<i, j>> \in R <=> Read!IsField(s, i, j))
  <2>1. \A i \in 0 .. n : \A j \in i + 1 .. n : j \in 0 .. n
    BY <1>1
  <2> QED BY <2>1 DEF FieldsOf
<1> HIDE DEF n, R
<1>4. ASSUME NEW i \in 0 .. n PROVE Leads(R, n, i) = Rest(g, i)
  <2>1. \A j \in i + 1 .. n : g[j] = Leads(R, n, j)
    BY <1>3
  <2> HIDE DEF g
  <2>2. Leads(R, n, i) <=> Rest(g, i)
    BY <1>2, <1>3, <2>1, Zenon
  <2> QED BY <2>2, Zenon DEF Leads
<1>5. IsRest(g)
  <2> HIDE DEF Rest
  <2> QED BY <1>4, Zenon
<1> HIDE DEF g
<1>6. IsRest(r)
  <2> HIDE DEF IsRest
  <2> QED BY <1>5, Zenon
<1>7. Read!IsMessage(s) <=> r[0]
  BY DEF Read!IsMessage, n
<1> HIDE DEF r
<1>8. ASSUME NEW i \in 0 .. n PROVE r[i] = Rest(r, i)
  <2> HIDE DEF Rest
  <2> QED BY <1>6, Zenon
<1>9. \A i \in 0 .. n : r[i] <=> (i = n \/ \E j \in i + 1 .. n : <<i, j>> \in R /\ r[j])
  BY <1>3, <1>8, Zenon
<1>10. r[0] <=> Leads(R, n, 0)
  <2>1. 0 \in 0 .. n
    BY <1>1
  <2> QED BY <1>1, <1>9, <2>1, LeadsOnly, Zenon
<1> QED BY <1>7, <1>10, Zenon DEF Message, n, R

(* Nothing is a message.                                                   *)
LEMMA EmptyMessage == Message(<<>>)
<1>1. <<>> \in Seq(Bytes) /\ Len(<<>>) = 0
  BY EmptySeq
<1>2. Leads(FieldsOf(<<>>), 0, 0)
  <2>1. 0 \in Nat /\ 0 \in 0 .. 0
    OBVIOUS
  <2> QED BY <2>1, LeadsByStep
<1> QED BY <1>1, <1>2, Zenon DEF Message

(* What is written behind a tag of a wire type.                            *)
Body(b, wire) ==
  \/ wire = Read!WIRE_VARINT /\ \E v \in 0 .. U64 - 1 : b = write_varint(v)
  \/ wire = Read!WIRE_I32 /\ Len(b) = Fixed32
  \/ wire = Read!WIRE_I64 /\ Len(b) = Fixed64
  \/ wire = Read!WIRE_LEN /\ \E c \in Seq(Bytes) : Len(c) < U64 /\ b = write_varint(Len(c)) \o c

(* The reader reads it where it ends a string.                             *)
LEMMA BodyAt ==
  ASSUME NEW s \in Seq(Bytes), NEW i \in 0 .. Len(s), NEW b \in Seq(Bytes), NEW wire \in Read!WireTypes,
         At(s, i, b), i + Len(b) = Len(s), Body(b, wire)
  PROVE  i < Len(s) /\ Read!IsBody(s, i, Len(s), wire)
<1> DEFINE j == Len(s)
<1>1. j \in Nat /\ i \in Nat /\ Len(b) \in Nat /\ U64 \in Nat /\ i + Len(b) = j
  BY LenProperties, U64Type
<1>2. ASSUME NEW v \in 0 .. U64 - 1, b = write_varint(v) PROVE i < j /\ Read!IsVarint(s, i, j)
  <2>1. i + Len(b) \in i + 1 .. Len(s) /\ Read!IsVarint(s, i, i + Len(b))
    BY <1>1, <1>2, VarintAt
  <2>2. Read!IsVarint(s, i, j)
    BY <1>1, <2>1, Zenon
  <2> QED BY <1>1, <2>1, <2>2
<1>3. ASSUME NEW c \in Seq(Bytes), Len(c) < U64, b = write_varint(Len(c)) \o c
      PROVE  i < j /\ Read!IsLengthDelimited(s, i, j)
  <2> DEFINE w == write_varint(Len(c))
             l == i + Len(w)
  <2>1. Len(c) \in 0 .. U64 - 1 /\ Len(c) \in Nat
    BY <1>1, <1>3, LenProperties
  <2>2. w \in Seq(Bytes) /\ Len(w) \in Nat
    <3>1. w \in Seq(Bytes)
      BY <2>1, VarintBytes
    <3> QED BY <3>1, LenProperties
  <2>3. Len(b) = Len(w) + Len(c) /\ \A k \in 1 .. Len(w) : b[k] = w[k]
    <3> HIDE DEF w
    <3>1. b = w \o c
      BY <1>3 DEF w
    <3>2. Len(w \o c) = Len(w) + Len(c)
          /\ \A k \in 1 .. Len(w) + Len(c) : (w \o c)[k] = IF k <= Len(w) THEN w[k] ELSE c[k - Len(w)]
      BY <2>2, ConcatProperties
    <3> QED BY <2>1, <2>2, <3>1, <3>2
  <2>4. At(s, i, w)
    <3> HIDE DEF w
    <3>1. i + Len(w) <= Len(s)
      BY <1>1, <2>1, <2>2, <2>3
    <3>2. \A k \in 1 .. Len(w) : k \in 1 .. Len(b)
      BY <1>1, <2>1, <2>2, <2>3
    <3>3. \A k \in 1 .. Len(w) : s[i + k] = w[k]
      BY <2>3, <3>2 DEF At
    <3> QED BY <3>1, <3>3 DEF At
  <2>5. l \in i + 1 .. j /\ Read!IsVarint(s, i, l) /\ Read!Value(s, i, l) = Len(c)
    BY <1>1, <2>1, <2>4, VarintAt
  <2>6. j - l = Len(c)
    <3> HIDE DEF w
    <3> QED BY <1>1, <2>1, <2>2, <2>3
  <2> HIDE DEF l
  <2> QED BY <1>1, <2>5, <2>6 DEF Read!IsLengthDelimited
<1>4. ASSUME Len(b) = Fixed32 \/ Len(b) = Fixed64 PROVE i < j /\ j - i = Len(b)
  BY <1>1, <1>4, SizeAssumption
<1> HIDE DEF j
<1>5. CASE wire = Read!WIRE_VARINT /\ \E v \in 0 .. U64 - 1 : b = write_varint(v)
  BY <1>2, <1>5 DEF Read!IsBody, j
<1>6. CASE wire = Read!WIRE_I32 /\ Len(b) = Fixed32
  BY <1>4, <1>6 DEF Read!IsBody, j
<1>7. CASE wire = Read!WIRE_I64 /\ Len(b) = Fixed64
  BY <1>4, <1>7 DEF Read!IsBody, j
<1>8. CASE wire = Read!WIRE_LEN /\ \E c \in Seq(Bytes) : Len(c) < U64 /\ b = write_varint(Len(c)) \o c
  BY <1>3, <1>8 DEF Read!IsBody, j
<1> QED BY <1>5, <1>6, <1>7, <1>8 DEF Body

(* Behind a message, a tag and what belongs to it make a longer message.   *)
LEMMA OneMoreField ==
  ASSUME NEW m, Message(m), NEW n \in Numbers, NEW wire \in Read!WireTypes,
         NEW b \in Seq(Bytes), Body(b, wire)
  PROVE  Message(m \o write_tag(n, wire) \o b)
<1>1. PICK t \in Seq(Bytes) : t = write_tag(n, wire)
  <2>1. wire \in 0 .. 7
    BY DEF Read!WireTypes, Read!WIRE_VARINT, Read!WIRE_I64, Read!WIRE_LEN, Read!WIRE_I32
  <2> QED BY <2>1, TagBytes
<1>2. m \in Seq(Bytes) /\ Leads(FieldsOf(m), Len(m), 0)
  BY DEF Message
<1>3. m \o t \in Seq(Bytes) /\ Len(m \o t) = Len(m) + Len(t)
      /\ \A k \in 1 .. Len(m) + Len(t) : (m \o t)[k] = IF k <= Len(m) THEN m[k] ELSE t[k - Len(m)]
  BY <1>2, ConcatProperties
<1>4. PICK s \in Seq(Bytes) : s = m \o t \o b
  BY <1>3, ConcatProperties
<1>5. Len(s) = Len(m) + Len(t) + Len(b)
      /\ \A k \in 1 .. Len(m) + Len(t) + Len(b) :
           s[k] = IF k <= Len(m) + Len(t) THEN (m \o t)[k] ELSE b[k - (Len(m) + Len(t))]
  BY <1>3, <1>4, ConcatProperties
<1>6. Len(m) \in Nat /\ Len(t) \in Nat /\ Len(b) \in Nat /\ Len(s) \in Nat
  BY <1>2, LenProperties
<1>7. Begins(m, s)
  <2>1. \A k \in 1 .. Len(m) : s[k] = m[k]
    BY <1>3, <1>5, <1>6
  <2> QED BY <1>2, <1>5, <1>6, <2>1 DEF Begins
<1>8. At(s, Len(m), t)
  <2>1. ASSUME NEW k \in 1 .. Len(t) PROVE s[Len(m) + k] = t[k]
    <3>1. Len(m) + k \in 1 .. Len(m) + Len(t) /\ ~(Len(m) + k <= Len(m)) /\ (Len(m) + k) - Len(m) = k
          /\ Len(m) + k \in 1 .. Len(m) + Len(t) + Len(b) /\ Len(m) + k <= Len(m) + Len(t)
      BY <1>6
    <3> QED BY <1>3, <1>5, <3>1
  <2> QED BY <1>5, <1>6, <2>1 DEF At
<1>9. At(s, Len(m) + Len(t), b)
  <2> DEFINE l == Len(m) + Len(t)
  <2>1. ASSUME NEW k \in 1 .. Len(b) PROVE s[l + k] = b[k]
    <3>1. l + k \in 1 .. Len(m) + Len(t) + Len(b) /\ ~(l + k <= Len(m) + Len(t))
          /\ (l + k) - (Len(m) + Len(t)) = k
      BY <1>6
    <3> QED BY <1>5, <3>1
  <2> QED BY <1>5, <1>6, <2>1 DEF At
<1>10. Read!IsField(s, Len(m), Len(s)) /\ Len(m) < Len(s)
  <2> DEFINE l == Len(m) + Len(t)
  <2>1. l \in Len(m) + 1 .. Len(s) /\ Read!IsTag(s, Len(m), l, wire)
    BY <1>1, <1>6, <1>8, TagAt
  <2>2. l \in 0 .. Len(s) /\ l + Len(b) = Len(s)
    BY <1>5, <1>6
  <2>3. Read!IsBody(s, l, Len(s), wire)
    <3> HIDE DEF l
    <3>1. At(s, l, b)
      BY <1>9 DEF l
    <3> QED BY <2>2, <3>1, BodyAt
  <2>4. Len(m) < Len(s)
    BY <1>6, <2>1
  <2> HIDE DEF l
  <2> QED BY <2>1, <2>3, <2>4 DEF Read!IsField
<1>11. Leads(FieldsOf(s), Len(m), 0)
  <2>1. PICK C \in SUBSET (0 .. Len(m)) :
          0 \in C /\ \A c \in C : c = Len(m) \/ \E j \in C : j > c /\ <<c, j>> \in FieldsOf(m)
    BY <1>2 DEF Leads
  <2>2. ASSUME NEW c \in C, NEW j \in C, j > c, <<c, j>> \in FieldsOf(m)
        PROVE  <<c, j>> \in FieldsOf(s)
    <3>1. j \in 0 .. Len(m) /\ c \in 0 .. j /\ c \in 0 .. Len(s) /\ j \in 0 .. Len(s)
      BY <1>5, <1>6, <2>2
    <3>2. Read!IsField(m, c, j)
      BY <2>2 DEF FieldsOf
    <3>3. Read!IsField(s, c, j)
      BY <1>7, <3>1, <3>2, SameField
    <3> QED BY <3>1, <3>3 DEF FieldsOf
  <2>3. \A c \in C : c = Len(m) \/ \E j \in C : j > c /\ <<c, j>> \in FieldsOf(s)
    BY <2>1, <2>2
  <2> QED BY <2>1, <2>3 DEF Leads
<1>12. <<Len(m), Len(s)>> \in FieldsOf(s)
  <2>1. Len(m) \in 0 .. Len(s) /\ Len(s) \in 0 .. Len(s)
    BY <1>6, <1>10
  <2> QED BY <1>10, <2>1 DEF FieldsOf
<1>13. Leads(FieldsOf(s), Len(s), 0)
  <2>1. 0 \in 0 .. Len(m)
    BY <1>6
  <2> QED BY <1>6, <1>10, <1>11, <1>12, <2>1, LeadsFurther
<1>14. Message(s)
  BY <1>13 DEF Message
<1> QED BY <1>1, <1>4, <1>14

(* What is written of a value belongs behind a tag of its wire type.       *)
LEMMA WrittenBody ==
  ASSUME NEW e \in Values
  PROVE  e.wire \in Read!WireTypes /\ Written(e) \in Seq(Bytes) /\ Body(Written(e), e.wire)
<1> USE DEF Read!WIRE_VARINT, Read!WIRE_I64, Read!WIRE_LEN, Read!WIRE_I32, WIRE_VARINT, WIRE_LEN
<1>1. /\ e.number \in 0 .. U64 - 1 /\ e.bytes \in Seq(Bytes) /\ Len(e.bytes) < U64
      /\ e.wire \in Read!WireTypes
      /\ e.wire = Read!WIRE_I32 => Len(e.bytes) = Fixed32
      /\ e.wire = Read!WIRE_I64 => Len(e.bytes) = Fixed64
  BY ValuesAssumption, SizeAssumption, Zenon
<1>2. ASSUME e.wire = WIRE_VARINT PROVE Body(Written(e), e.wire)
  <2>1. Written(e) = write_varint(e.number)
    BY <1>2 DEF Written
  <2>2. \E v \in 0 .. U64 - 1 : Written(e) = write_varint(v)
    BY <1>1, <2>1, Zenon
  <2> QED BY <1>2, <2>2, Zenon DEF Body
<1>3. ASSUME e.wire = WIRE_LEN PROVE Body(Written(e), e.wire)
  <2>1. Written(e) = write_varint(Len(e.bytes)) \o e.bytes
    <3>1. e.wire # WIRE_VARINT
      BY <1>3
    <3> QED BY <1>3, <3>1, Zenon DEF Written
  <2>2. \E c \in Seq(Bytes) : Len(c) < U64 /\ Written(e) = write_varint(Len(c)) \o c
    BY <1>1, <2>1, Zenon
  <2> QED BY <1>3, <2>2, Zenon DEF Body
<1>4. ASSUME e.wire # WIRE_VARINT, e.wire # WIRE_LEN PROVE Body(Written(e), e.wire)
  <2>1. Written(e) = e.bytes
    BY <1>4 DEF Written
  <2>2. e.wire = Read!WIRE_I32 \/ e.wire = Read!WIRE_I64
    BY <1>1, <1>4 DEF Read!WireTypes
  <2> QED BY <1>1, <2>1, <2>2 DEF Body
<1>5. Body(Written(e), e.wire)
  BY <1>2, <1>3, <1>4
<1> QED BY <1>1, <1>5, WrittenBytes

(* A message, and the tag of the field that is being written in it.        *)
Begun(s) == \E m \in Seq(Bytes), n \in Numbers : Message(m) /\ s = m \o write_tag(n, WIRE_LEN)

(* A payload of fields is a message, but for the field that is not closed. *)
WellNested(L, top) ==
  /\ \A i \in 1 .. top - 1 : Begun(L[i].bytes)
  /\ ~L[top].packed => Message(L[top].bytes)

MessageInv == WellNested(Levels, Depth + 1)

(* The levels as a function of their numbers.                              *)
LEMMA LevelsAre ==
  ASSUME TypeOK
  PROVE  /\ Depth \in Nat
         /\ Levels = [i \in 1 .. Depth + 1 |-> Levels[i]]
         /\ Nested!Top = Depth + 1
         /\ \A i \in 1 .. Depth + 1 : /\ Levels[i].bytes = Payload(i)
                                      /\ Levels[i].bytes \in Seq(Bytes)
<1>1. Depth \in Nat /\ Nested!Top = Depth + 1
  BY FramePositions, LevelsLength DEF Nested!Top
<1>2. ASSUME NEW i \in 1 .. Depth + 1 PROVE Levels[i].bytes = Payload(i) /\ Levels[i].bytes \in Seq(Bytes)
  <2>1. Levels[i].bytes = Payload(i)
    BY DEF Levels
  <2> QED BY <2>1, PayloadBytes
<1> QED BY <1>1, <1>2 DEF Levels

(* A scalar field is one more field of the message.                        *)
LEMMA FieldWritten ==
  ASSUME TypeOK, MessageInv, NEW n \in Numbers, NEW e \in Values, WriteField(n, e)
  PROVE  MessageInv'
<1> DEFINE top == Depth + 1
           old == Levels[top].bytes
<1>1. buf \in Seq(Bytes) /\ write_tag(n, e.wire) \in Seq(Bytes)
  BY WrittenBytes, TagBytes DEF TypeOK
<1>2. PICK s \in Seq(Bytes) : s = write_tag(n, e.wire) \o Written(e) /\ buf' = buf \o s
  BY <1>1, FieldBytes DEF WriteField
<1>3. Levels' = [Levels EXCEPT ![top] = Nested!Level(@.packed, @.bytes \o s)] /\ Depth' = Depth
  BY <1>2, ExtendLevels, LevelsAre DEF WriteField, Depth
<1>4. Levels'[top].bytes = old \o s /\ \A i \in 1 .. top - 1 : Levels'[i] = Levels[i]
  <2>1. top \in 1 .. top /\ \A i \in 1 .. top - 1 : i # top /\ i \in 1 .. top
    BY LevelsAre
  <2> HIDE DEF top
  <2>2. Levels = [i \in 1 .. top |-> Levels[i]]
    BY LevelsAre DEF top
  <2> QED BY <1>3, <2>1, <2>2 DEF Nested!Level
<1>5. Message(old) /\ old \in Seq(Bytes)
  <2>1. ~Levels[top].packed
    BY LevelsLength DEF WriteField
  <2> QED BY <2>1 DEF MessageInv, WellNested, Message
<1>6. Message(old \o s)
  <2>1. Message(old \o write_tag(n, e.wire) \o Written(e))
    <3> HIDE DEF old
    <3> QED BY <1>5, WrittenBody, OneMoreField
  <2>2. old \o write_tag(n, e.wire) \o Written(e) = old \o s
    <3> HIDE DEF old
    <3>1. PICK t \in Seq(Bytes) : t = write_tag(n, e.wire)
      BY <1>1
    <3>2. PICK w \in Seq(Bytes) : w = Written(e)
      BY WrittenBytes
    <3>3. PICK o \in Seq(Bytes) : o = old
      BY <1>5
    <3>4. (o \o t) \o w = o \o (t \o w)
      BY Associative
    <3>5. s = t \o w
      BY <1>2, <3>1, <3>2
    <3> QED BY <3>1, <3>2, <3>3, <3>4, <3>5
  <2> QED BY <2>1, <2>2
<1>7. WellNested(Levels', top)
  BY <1>4, <1>6 DEF MessageInv, WellNested
<1> QED BY <1>3, <1>7 DEF MessageInv

(* An element is not written in a message.                                 *)
LEMMA ElementWritten ==
  ASSUME TypeOK, MessageInv, NEW e \in Values, WriteElement(e)
  PROVE  MessageInv'
<1> DEFINE top == Depth + 1
<1>1. PICK s \in Seq(Bytes) : s = Written(e)
  BY WrittenBytes
<1>2. Levels' = [Levels EXCEPT ![top] = Nested!Level(@.packed, @.bytes \o s)] /\ Depth' = Depth
  BY <1>1, ExtendLevels, LevelsAre DEF WriteElement, Depth
<1>3. Levels[top].packed
  BY LevelsLength DEF WriteElement
<1>4. Levels'[top].packed /\ \A i \in 1 .. top - 1 : Levels'[i] = Levels[i]
  <2>1. top \in 1 .. top /\ \A i \in 1 .. top - 1 : i # top /\ i \in 1 .. top
    BY LevelsAre
  <2> HIDE DEF top
  <2>2. Levels = [i \in 1 .. top |-> Levels[i]]
    BY LevelsAre DEF top
  <2>3. Levels'[top].packed = Levels[top].packed
    BY <1>2, <2>1, <2>2 DEF Nested!Level
  <2> QED BY <1>2, <1>3, <2>1, <2>2, <2>3
<1>5. WellNested(Levels', top)
  BY <1>4 DEF MessageInv, WellNested
<1> QED BY <1>2, <1>5 DEF MessageInv

(* Behind the tag of a field that is opened, nothing is a message.         *)
LEMMA FieldOpened ==
  ASSUME TypeOK, MessageInv, NEW n \in Numbers, NEW packed \in BOOLEAN, Open(n, packed)
  PROVE  MessageInv'
<1> DEFINE top == Depth + 1
           old == Levels[top].bytes
<1>1. PICK s \in Seq(Bytes) : s = write_tag(n, WIRE_LEN)
  BY TagBytes DEF WIRE_LEN
<1>2. /\ status' = status /\ status = "writing" /\ ~InPacked
      /\ buf' = buf \o s \o <<0>>
      /\ frames' = Append(frames, Frame(Len(buf) + Len(s) + 1, packed))
  BY <1>1 DEF Open, Writing
<1>3. Levels' = [i \in 1 .. top + 1 |->
                   IF i = top + 1 THEN Nested!Level(packed, <<>>)
                   ELSE IF i = top THEN Nested!Level(Levels[i].packed, Levels[i].bytes \o s)
                   ELSE Levels[i]]
  <2>1. Nested!Top = top
    BY LevelsAre
  <2>2. Levels' = [i \in 1 .. Nested!Top + 1 |->
                      IF i = Nested!Top + 1 THEN Nested!Level(packed, <<>>)
                      ELSE IF i = Nested!Top
                      THEN Nested!Level(Levels[i].packed, Levels[i].bytes \o s)
                      ELSE Levels[i]]
    BY <1>2, OpenLevels
  <2> QED BY <2>1, <2>2, Zenon
<1>4. Depth' + 1 = top + 1
  <2>1. Len(frames') = Depth + 1
    BY <1>2, OpenTypes
  <2> QED BY <2>1 DEF Depth
<1>5. /\ Levels'[top + 1].bytes = <<>> /\ Levels'[top].bytes = old \o s
      /\ \A i \in 1 .. top - 1 : Levels'[i] = Levels[i]
  <2>1. top + 1 \in 1 .. top + 1 /\ top \in 1 .. top + 1 /\ top # top + 1
        /\ \A i \in 1 .. top - 1 : i \in 1 .. top + 1 /\ i # top + 1 /\ i # top
    BY LevelsAre
  <2> HIDE DEF top
  <2> QED BY <1>3, <2>1 DEF Nested!Level
<1>6. Message(old) /\ old \in Seq(Bytes)
  <2>1. ~Levels[top].packed
    BY <1>2, LevelsLength
  <2> QED BY <2>1 DEF MessageInv, WellNested, Message
<1>7. Begun(old \o s)
  <2> HIDE DEF old
  <2> QED BY <1>1, <1>6 DEF Begun
<1>8. \A i \in 1 .. (top + 1) - 1 : Begun(Levels'[i].bytes)
  <2>1. \A i \in 1 .. (top + 1) - 1 : i = top \/ i \in 1 .. top - 1
    BY LevelsAre
  <2> HIDE DEF top, old
  <2>2. \A i \in 1 .. top - 1 : Begun(Levels[i].bytes)
    BY DEF MessageInv, WellNested, top
  <2> QED BY <1>5, <1>7, <2>1, <2>2
<1>9. WellNested(Levels', top + 1)
  BY <1>5, <1>8, EmptyMessage DEF WellNested
<1> QED BY <1>4, <1>9 DEF MessageInv

(* A field that is closed is one more field of the message around it.      *)
LEMMA FieldClosed ==
  ASSUME TypeOK, MessageInv, Close
  PROVE  MessageInv'
<1> DEFINE top == Depth + 1
           payload == Levels[top].bytes
           w == write_varint(Len(payload))
<1>1. PICK d \in Nat \ {0}, start \in Nat :
        /\ d = Depth /\ start = frames[d].start /\ Len(buf) - start < U64
        /\ buf' = InPlace(buf, start, Len(buf) - start)
        /\ frames' = SubSeq(frames, 1, d - 1)
  BY CloseIs
<1>2. status = "writing" /\ status' = status
  BY DEF Close, Writing
<1>3. top - 1 = d /\ top \in 1 .. Depth + 1 /\ d \in 1 .. Depth + 1 /\ d \in 1 .. top - 1
  BY <1>1, LevelsAre
<1>4. payload \in Seq(Bytes) /\ Len(payload) \in 0 .. U64 - 1 /\ w \in Seq(Bytes)
  <2>1. payload = Payload(top) /\ payload \in Seq(Bytes)
    BY <1>3, LevelsAre
  <2>2. Len(Payload(top)) = Last(top) - First(top) + 1
    BY <1>3, PayloadBytes
  <2>3. Last(top) = Len(buf) /\ First(top) = start + 1
    <3>1. top # 1
      BY <1>1
    <3> QED BY <1>1, <1>3, <3>1 DEF First, Last
  <2>4. start \in Int /\ Len(buf) \in Int
    BY <1>1, LenProperties DEF TypeOK
  <2> HIDE DEF payload
  <2>5. Len(payload) = Len(buf) - start
    <3>1. Last(top) - First(top) + 1 = Len(buf) - start
      <4> HIDE DEF top
      <4> QED BY <2>3, <2>4
    <3> QED BY <2>1, <2>2, <3>1
  <2>6. Len(payload) \in 0 .. U64 - 1
    <3>1. Len(payload) \in Nat
      BY <2>1, LenProperties
    <3>2. Len(payload) < U64
      BY <1>1, <2>5
    <3> QED BY <3>1, <3>2, U64Type
  <2> QED BY <2>1, <2>6, VarintBytes
<1>5. Levels' = [i \in 1 .. top - 1 |->
                   IF i = top - 1 THEN Nested!Level(Levels[i].packed, Levels[i].bytes \o w \o payload)
                   ELSE Levels[i]]
  <2>1. Nested!Top = top
    BY LevelsAre
  <2>2. LET p == Levels[Nested!Top].bytes
        IN  Levels' = [i \in 1 .. Nested!Top - 1 |->
                         IF i = Nested!Top - 1
                         THEN Nested!Level(Levels[i].packed,
                                           Levels[i].bytes \o write_varint(Len(p)) \o p)
                         ELSE Levels[i]]
    BY <1>1, <1>2, CloseLevels
  <2> QED BY <2>1, <2>2, Zenon
<1>6. Depth' + 1 = d
  <2>1. Len(frames') = d - 1
    BY <1>1, <1>2, CloseTypes
  <2> QED BY <2>1 DEF Depth
<1>7. Begun(Levels[d].bytes)
  BY <1>3 DEF MessageInv, WellNested
<1>8. PICK m \in Seq(Bytes), n \in Numbers : Message(m) /\ Levels[d].bytes = m \o write_tag(n, WIRE_LEN)
  BY <1>7 DEF Begun
<1>9. PICK t \in Seq(Bytes) : t = write_tag(n, WIRE_LEN)
  BY TagBytes DEF WIRE_LEN
<1> HIDE DEF payload, w
<1>10. Message(Levels[d].bytes \o w \o payload)
  <2>1. w \o payload \in Seq(Bytes)
    BY <1>4, ConcatProperties
  <2>2. Body(w \o payload, WIRE_LEN)
    <3>1. payload \in Seq(Bytes) /\ Len(payload) < U64
      BY <1>4, U64Type
    <3> QED BY <3>1, Zenon DEF Body, w, WIRE_LEN, Read!WIRE_LEN
  <2>3. WIRE_LEN \in Read!WireTypes
    BY DEF WIRE_LEN, Read!WireTypes, Read!WIRE_LEN
  <2>4. Message(m \o write_tag(n, WIRE_LEN) \o (w \o payload))
    BY <1>8, <2>1, <2>2, <2>3, OneMoreField
  <2>5. m \o t \in Seq(Bytes)
    BY <1>8, <1>9, ConcatProperties
  <2>6. (m \o t) \o w \o payload = (m \o t) \o (w \o payload)
    BY <1>4, <2>5, Associative, Zenon
  <2>7. Levels[d].bytes = m \o t
    BY <1>8, <1>9
  <2> QED BY <1>9, <2>4, <2>6, <2>7, Zenon
<1>11. Levels'[d].bytes = Levels[d].bytes \o w \o payload
       /\ \A i \in 1 .. d - 1 : Levels'[i] = Levels[i]
  <2>1. d \in 1 .. top - 1 /\ \A i \in 1 .. d - 1 : i \in 1 .. top - 1 /\ i # top - 1
    BY <1>3
  <2> HIDE DEF top
  <2> QED BY <1>3, <1>5, <2>1 DEF Nested!Level
<1>12. \A i \in 1 .. d - 1 : Begun(Levels'[i].bytes)
  <2>1. \A i \in 1 .. d - 1 : i \in 1 .. top - 1
    BY <1>3
  <2> HIDE DEF top
  <2>2. \A i \in 1 .. top - 1 : Begun(Levels[i].bytes)
    BY DEF MessageInv, WellNested, top
  <2> QED BY <1>11, <2>1, <2>2
<1>13. WellNested(Levels', d)
  BY <1>10, <1>11, <1>12 DEF WellNested
<1> QED BY <1>6, <1>13 DEF MessageInv

(* The levels depend on the buffer and the calls.                          *)
LEMMA LevelsUnchanged == UNCHANGED <<buf, frames>> => Levels' = Levels /\ Depth' = Depth
<1> SUFFICES ASSUME UNCHANGED <<buf, frames>> PROVE Levels' = Levels /\ Depth' = Depth
  OBVIOUS
<1>1. Depth' = Depth
  BY DEF Depth
<1>2. \A i \in 1 .. Depth + 1 : Packed(i)' = Packed(i) /\ Payload(i)' = Payload(i)
  BY <1>1 DEF Packed, Payload, First, Last
<1> QED BY <1>1, <1>2 DEF Levels

(* Every step keeps payloads that are messages.                            *)
LEMMA StepMessage == TypeOK /\ MessageInv /\ [Next]_vars => MessageInv'
<1> SUFFICES ASSUME TypeOK, MessageInv, [Next]_vars PROVE MessageInv'
  OBVIOUS
<1>1. CASE \E n \in Numbers, e \in Values : WriteField(n, e)
  BY <1>1, FieldWritten
<1>2. CASE \E e \in Values : WriteElement(e)
  BY <1>2, ElementWritten
<1>3. CASE \E n \in Numbers, packed \in BOOLEAN : Open(n, packed)
  BY <1>3, FieldOpened
<1>4. CASE Close
  BY <1>4, FieldClosed
<1>5. CASE Finish \/ Fail \/ Terminated \/ UNCHANGED vars
  <2>1. UNCHANGED <<buf, frames>>
    BY <1>5 DEF Finish, Fail, Terminated, vars
  <2> QED BY <2>1, LevelsUnchanged DEF MessageInv
<1> QED BY <1>1, <1>2, <1>3, <1>4, <1>5 DEF Next

(* An empty payload is a message.                                          *)
LEMMA InitMessage == Init => MessageInv
<1> SUFFICES ASSUME Init PROVE MessageInv
  OBVIOUS
<1>1. Levels = <<Nested!Level(FALSE, <<>>)>>
  BY InitRefines DEF Nested!Init
<1>2. Levels[1].bytes = <<>>
  BY <1>1 DEF Nested!Level
<1>3. Depth + 1 = 1
  BY DEF Init, Depth
<1>4. WellNested(Levels, 1)
  BY <1>2, EmptyMessage DEF WellNested
<1> QED BY <1>3, <1>4 DEF MessageInv

(* encode writes nothing but messages: whatever fields it writes and       *)
(* however they are nested, with lengths that are put in later, the reader *)
(* finds tags of the numbers that were written, the varints, the fixed     *)
(* sizes and the lengths where it looks for them.                          *)
THEOREM WritesMessages == Spec => []Readable
<1>1. TypeOK /\ MessageInv => Readable
  <2> SUFFICES ASSUME TypeOK, MessageInv, ~InPacked PROVE Read!IsMessage(Payload(Depth + 1))
    BY DEF Readable
  <2>1. Message(Levels[Depth + 1].bytes)
    BY LevelsLength DEF MessageInv, WellNested
  <2>2. Levels[Depth + 1].bytes = Payload(Depth + 1)
    <3>1. Depth + 1 \in 1 .. Depth + 1
      BY LevelsAre
    <3> QED BY <3>1, LevelsAre
  <2> QED BY <2>1, <2>2, MessageIsRead
<1>2. Init => MessageInv
  BY InitMessage
<1>3. TypeOK /\ MessageInv /\ [Next]_vars => MessageInv'
  BY StepMessage
<1>4. Spec => []TypeOK
  BY TypeCorrect
<1> QED BY <1>1, <1>2, <1>3, <1>4, PTL DEF Spec
=============================================================================
