---------------------------- MODULE ChannelProofs ----------------------------
(***************************************************************************)
(* What a Selected Channel uploads is the channel, what a scan leaves is   *)
(* what the user set, and what a bake writes is what going to each frame   *)
(* would show: for all strips, frame rates, curves, chunks and rows.       *)
(*                                                                         *)
(* Folds are followed with induction over a set of numbers, and a sum over *)
(* clips is counted as the elements of a set.                              *)
(***************************************************************************)
EXTENDS ChannelProperties, FiniteSetTheorems, NaturalsInduction,
        SequenceTheorems, TLAPS
-----------------------------------------------------------------------------
(* Numbers *)

\* UpTo: induction up to a bound, of a property given as the set of numbers
\* that have it.
LEMMA UpTo ==
  ASSUME NEW n \in Nat, NEW S, 0 \in S, \A k \in 0..(n - 1) : k \in S => k + 1 \in S
  PROVE  0..n \subseteq S
<1> DEFINE R == OpToRel(<, Nat)
           wrong == {k \in Nat : k <= n /\ k \notin S}
<1>1. IsWellFoundedOn(R, Nat)
  BY NatLessThanWellFounded
<1>2. \A x, y \in Nat : x < y => <<x, y>> \in R
  BY DEF OpToRel
<1> HIDE DEF R
<1>3. wrong = {}
  <2> SUFFICES ASSUME wrong # {} PROVE FALSE
    OBVIOUS
  <2>1. wrong \in SUBSET Nat
    OBVIOUS
  <2> HIDE DEF wrong
  <2>2. PICK k \in wrong : \A m \in wrong : ~(<<m, k>> \in R)
    BY <1>1, <2>1, WFMin
  <2>3. \A m \in wrong : ~(m < k)
    BY <1>2, <2>1, <2>2
  <2>4. k \in Nat /\ k <= n /\ k \notin S
    BY <2>2 DEF wrong
  <2>5. k - 1 \in wrong
    BY <2>4 DEF wrong
  <2> QED
    BY <2>3, <2>4, <2>5
<1> QED
  BY <1>3

\* IntervalHasLast: of the numbers of an interval that are in a set there is
\* a greatest.
LEMMA IntervalHasLast ==
  ASSUME NEW S, NEW n \in Nat, \E k \in S : k \in 0..n, S \subseteq Int
  PROVE  \E k \in S : k \in 0..n /\ \A m \in S : m <= n => m <= k
<1> DEFINE T == {m \in Nat : (\E k \in S : k \in 0..m) =>
                               \E k \in S : k \in 0..m /\ \A i \in S : i <= m => i <= k}
<1>1. 0 \in T
  OBVIOUS
<1>2. ASSUME NEW m \in 0..(n - 1), m \in T PROVE m + 1 \in T
  <2>1. CASE m + 1 \in S
    BY <2>1
  <2>2. CASE m + 1 \notin S
    <3> SUFFICES ASSUME \E k \in S : k \in 0..m + 1
                 PROVE  \E k \in S : k \in 0..m + 1 /\ \A i \in S : i <= m + 1 => i <= k
      OBVIOUS
    <3>1. \E k \in S : k \in 0..m
      BY <2>2
    <3>2. PICK k \in S : k \in 0..m /\ \A i \in S : i <= m => i <= k
      BY <1>2, <3>1
    <3>3. \A i \in S : i <= m + 1 => i <= m
      BY <2>2
    <3> QED
      BY <3>2, <3>3
  <2> QED
    BY <2>1, <2>2
<1> HIDE DEF T
<1>3. n \in T
  BY <1>1, <1>2, UpTo
<1> QED
  BY <1>3 DEF T

\* FiniteHasMax: a finite set of integers has a greatest and a least.
LEMMA FiniteHasMax ==
  ASSUME NEW S, IsFiniteSet(S), S # {}, S \subseteq Int
  PROVE  /\ Max(S) \in S /\ \A y \in S : y <= Max(S)
         /\ Min(S) \in S /\ \A y \in S : Min(S) <= y
<1>0. PICK n \in Nat : \E f \in [1..n -> S] : \A x \in S : \E k \in 1..n : f[k] = x
  <2>1. \E n \in Nat : Surjection(1..n, S) # {}
    BY FS_NatSurjection DEF ExistsSurjection
  <2> QED
    BY <2>1 DEF Surjection
<1>1. PICK f : /\ f \in [1..n -> S]
               /\ \A x \in S : \E k \in 1..n : f[k] = x
  BY <1>0
<1> DEFINE T == {k \in 0..n : k = 0 \/ \E x, y \in S : \A m \in 1..k : f[m] <= x /\ f[m] >= y}
<1>2. n \in T
  <2>1. 0 \in T
    OBVIOUS
  <2>2. ASSUME NEW k \in 0..(n - 1), k \in T PROVE k + 1 \in T
    <3>0. k + 1 \in 1..n
      BY <1>0
    <3>1. f[k + 1] \in S /\ f[k + 1] \in Int /\ k + 1 \in 0..n
      <4>1. f[k + 1] \in S
        BY <1>1, <3>0
      <4>2. k + 1 \in 0..n
        BY <1>0, <3>0
      <4> QED
        BY <4>1, <4>2
    <3>2. CASE k = 0
      <4>1. \A m \in 1..k + 1 : m = k + 1
        BY <3>2
      <4>2. \A m \in 1..k + 1 : f[m] <= f[k + 1] /\ f[m] >= f[k + 1]
        BY <3>1, <4>1
      <4> QED
        BY <3>1, <4>2
    <3>3. CASE k # 0
      <4>1. PICK x, y \in S : \A m \in 1..k : f[m] <= x /\ f[m] >= y
        BY <2>2, <3>3
      <4>2. x \in Int /\ y \in Int
        OBVIOUS
      <4> DEFINE u == IF f[k + 1] > x THEN f[k + 1] ELSE x
                 v == IF f[k + 1] < y THEN f[k + 1] ELSE y
      <4>3. u \in S /\ v \in S
        BY <3>1
      <4>4. ASSUME NEW m \in 1..k + 1 PROVE f[m] <= u /\ f[m] >= v
        <5>1. CASE m = k + 1
          BY <3>1, <4>2, <5>1
        <5>2. CASE m # k + 1
          <6>0. m \in 1..k /\ m \in 1..n
            BY <1>0, <5>2
          <6>1. m \in 1..k /\ f[m] \in Int
            BY <1>1, <6>0
          <6> QED
            BY <3>1, <4>1, <4>2, <6>1
        <5> QED
          BY <5>1, <5>2
      <4> HIDE DEF u, v
      <4> QED
        BY <3>1, <4>3, <4>4
    <3> QED
      BY <3>2, <3>3
  <2> HIDE DEF T
  <2>3. 0..n \subseteq T
    BY <1>0, <2>1, <2>2, UpTo
  <2> QED
    BY <1>0, <2>3
<1>3. n # 0
  <2>1. PICK x \in S : TRUE
    OBVIOUS
  <2>2. PICK k \in 1..n : f[k] = x
    BY <1>1, <2>1
  <2> QED
    BY <1>0, <2>2
<1>4. PICK x, y \in S : \A m \in 1..n : f[m] <= x /\ f[m] >= y
  BY <1>2, <1>3
<1>5. \A z \in S : z <= x /\ z >= y
  BY <1>1, <1>4
<1> QED
  BY <1>5 DEF Max, Min

\* PairMax: the greater and the lesser of two integers.
LEMMA PairMax ==
  ASSUME NEW a \in Int, NEW b \in Int
  PROVE  /\ Max({a, b}) = IF a < b THEN b ELSE a
         /\ Min({a, b}) = IF a < b THEN a ELSE b
<1> DEFINE x == IF a < b THEN b ELSE a
           y == IF a < b THEN a ELSE b
<1>1. Max({a, b}) = x
  <2>1. x \in {a, b} /\ \A z \in {a, b} : x >= z
    OBVIOUS
  <2>2. \A w \in {a, b} : (\A z \in {a, b} : w >= z) => w = x
    OBVIOUS
  <2> HIDE DEF x
  <2> QED
    BY <2>1, <2>2 DEF Max
<1>2. Min({a, b}) = y
  <2>1. y \in {a, b} /\ \A z \in {a, b} : y <= z
    OBVIOUS
  <2>2. \A w \in {a, b} : (\A z \in {a, b} : w <= z) => w = y
    OBVIOUS
  <2> HIDE DEF y
  <2> QED
    BY <2>1, <2>2 DEF Min
<1> QED
  BY <1>1, <1>2

\* WithinIs: a value is left alone inside of its bounds.
LEMMA WithinIs ==
  ASSUME NEW low \in Int, NEW value \in Int, NEW high \in Int
  PROVE  /\ Within(low, value, high) \in Int
         /\ Within(low, value, high)
              = IF (IF low < value THEN value ELSE low) < high
                THEN IF low < value THEN value ELSE low ELSE high
<1> DEFINE m == IF low < value THEN value ELSE low
<1>1. Max({low, value}) = m /\ m \in Int
  BY PairMax
<1> HIDE DEF m
<1>2. Min({m, high}) = IF m < high THEN m ELSE high
  BY <1>1, PairMax
<1>3. Within(low, value, high) = IF m < high THEN m ELSE high
  BY <1>1, <1>2 DEF Within
<1> QED
  BY <1>1, <1>3 DEF m

\* HalvesAre: rounding yields integers.
LEMMA HalvesAre ==
  ASSUME NEW t \in Int
  PROVE  RoundEven(t) \in Int /\ RoundAway(t) \in Int
<1>1. t \div 2 \in Int /\ t % 2 \in 0..1 /\ t = 2 * (t \div 2) + (t % 2)
  OBVIOUS
<1>2. RoundEven(t) \in Int
  <2>1. \E n \in {t \div 2, t \div 2 + 1} : n % 2 = 0
    BY <1>1
  <2> QED
    BY <1>1, <2>1 DEF RoundEven
<1>3. (t + 1) \div 2 \in Int /\ (1 - t) \div 2 \in Int
  OBVIOUS
<1>4. RoundAway(t) \in Int
  BY <1>3 DEF RoundAway
<1> QED
  BY <1>2, <1>4
-----------------------------------------------------------------------------
(* Sums over sets: what the fold adds up, in an order nobody knows, is the   *)
(* number of units of its terms, the negative ones subtracted.               *)

\* The units of the positive terms, one by one.
Units(f, S) == UNION {{x} \X (1..f[x]) : x \in S}
Debts(f, S) == UNION {{x} \X (1..(0 - f[x])) : x \in S}

Terms(f, S) == IsFiniteSet(S) /\ \A x \in S : f[x] \in Int

Balance(f, S) == Cardinality(Units(f, S)) - Cardinality(Debts(f, S))

\* UnitsCount: each term adds its units.
LEMMA UnitsCount ==
  ASSUME NEW f, NEW S, Terms(f, S)
  PROVE  /\ IsFiniteSet(Units(f, S)) /\ Cardinality(Units(f, S)) \in Nat
         /\ \A x \in S : Cardinality(Units(f, S))
                           = (IF f[x] > 0 THEN f[x] ELSE 0)
                               + Cardinality(Units(f, S \ {x}))
<1> DEFINE One(x) == {x} \X (1..f[x])
           Size(x) == IF f[x] > 0 THEN f[x] ELSE 0
           Ones == {One(x) : x \in S}
<1>1. ASSUME NEW x \in S
      PROVE  IsFiniteSet(One(x)) /\ Cardinality(One(x)) = Size(x)
  <2>1. IsFiniteSet({x}) /\ Cardinality({x}) = 1
    BY FS_Singleton
  <2>2. f[x] \in Int
    BY DEF Terms
  <2>3. IsFiniteSet(1..f[x]) /\ Cardinality(1..f[x]) = Size(x)
    <3> DEFINE n == f[x]
    <3>1. n \in Int
      BY <2>2
    <3> HIDE DEF n
    <3>2. IsFiniteSet(1..n) /\ Cardinality(1..n) = IF n > 0 THEN n ELSE 0
      BY <3>1, FS_Interval
    <3> QED
      BY <3>2 DEF n
  <2> DEFINE A == {x}  B == 1..f[x]
  <2>4. Cardinality(B) \in Nat
    BY <2>3, FS_CardinalityType
  <2> HIDE DEF A, B, Size
  <2>5. IsFiniteSet(A \X B) /\ Cardinality(A \X B) = Cardinality(A) * Cardinality(B)
    BY <2>1, <2>3, FS_Product DEF A, B
  <2>6. Cardinality(A) * Cardinality(B) = Cardinality(B)
    BY <2>1, <2>4 DEF A
  <2> QED
    BY <2>3, <2>5, <2>6 DEF A, B
<1>2. IsFiniteSet(Ones)
  <2> DEFINE g == [x \in S |-> One(x)]
  <2> HIDE DEF One
  <2>1. g \in Surjection(S, Ones)
    BY DEF Surjection
  <2> HIDE DEF g, Ones
  <2> QED
    BY <2>1, FS_Surjection DEF Terms
<1>3. \A T \in Ones : IsFiniteSet(T)
  BY <1>1
<1>4. IsFiniteSet(UNION Ones)
  <2> HIDE DEF Ones
  <2> QED
    BY <1>2, <1>3, FS_UNION
<1>5. IsFiniteSet(Units(f, S)) /\ Cardinality(Units(f, S)) \in Nat
  BY <1>4, FS_CardinalityType DEF Units
<1>6. ASSUME NEW x \in S
      PROVE  Cardinality(Units(f, S)) = Size(x) + Cardinality(Units(f, S \ {x}))
  <2> DEFINE A == One(x)  B == Units(f, S \ {x})
  <2>1. Units(f, S) = A \cup B /\ A \cap B = {}
    BY DEF Units
  <2>2. B \in SUBSET Units(f, S)
    BY <2>1
  <2>3. IsFiniteSet(A) /\ Cardinality(A) = Size(x)
    BY <1>1
  <2>4. IsFiniteSet(B)
    BY <2>2, <1>5, FS_Subset
  <2> HIDE DEF A, B, Size
  <2>5. Cardinality(A \cup B) = Cardinality(A) + Cardinality(B) - Cardinality(A \cap B)
    BY <2>3, <2>4, FS_Union
  <2>6. Cardinality(A \cap B) = 0
    BY <2>1, FS_EmptySet
  <2>7. Cardinality(A) \in Nat /\ Cardinality(B) \in Nat
    BY <2>3, <2>4, FS_CardinalityType
  <2> QED
    BY <2>1, <2>3, <2>5, <2>6, <2>7 DEF B
<1> QED
  BY <1>5, <1>6

\* BalanceAdds: each term counts once.
LEMMA BalanceAdds ==
  ASSUME NEW f, NEW S, Terms(f, S)
  PROVE  /\ Balance(f, S) \in Int /\ Balance(f, {}) = 0
         /\ \A x \in S : Balance(f, S) = f[x] + Balance(f, S \ {x})
<1> DEFINE g == [x \in S |-> 0 - f[x]]
<1>1. Terms(g, S) /\ \A x \in S : g[x] = 0 - f[x] /\ f[x] \in Int
  BY DEF Terms
<1>2. \A T \in SUBSET S : Units(g, T) = Debts(f, T)
  BY <1>1 DEF Units, Debts
<1> HIDE DEF g
<1>3. Balance(f, {}) = 0
  <2>1. Units(f, {}) = {} /\ Debts(f, {}) = {}
    BY DEF Units, Debts
  <2> QED
    BY <2>1, FS_EmptySet DEF Balance
<1>4. /\ Cardinality(Units(f, S)) \in Nat /\ Cardinality(Debts(f, S)) \in Nat
  BY <1>1, <1>2, UnitsCount
<1>5. ASSUME NEW x \in S
      PROVE  Balance(f, S) = f[x] + Balance(f, S \ {x})
  <2> DEFINE T == S \ {x}
  <2>1. Terms(f, T) /\ Terms(g, T)
    BY <1>1, FS_Subset DEF Terms
  <2>2. /\ Cardinality(Units(f, T)) \in Nat /\ Cardinality(Debts(f, T)) \in Nat
    BY <1>2, <2>1, UnitsCount
  <2>3. Cardinality(Units(f, S))
          = (IF f[x] > 0 THEN f[x] ELSE 0) + Cardinality(Units(f, T))
    BY UnitsCount
  <2>4. Cardinality(Units(g, S))
          = (IF g[x] > 0 THEN g[x] ELSE 0) + Cardinality(Units(g, T))
    BY <1>1, UnitsCount
  <2>5. Units(g, S) = Debts(f, S) /\ Units(g, T) = Debts(f, T)
    BY <1>2
  <2> HIDE DEF T
  <2>6. Balance(f, S) = f[x] + Balance(f, T)
    BY <1>1, <1>4, <2>2, <2>3, <2>4, <2>5 DEF Balance
  <2> QED
    BY <2>6 DEF T
<1> QED
  BY <1>3, <1>4, <1>5 DEF Balance

\* SumIsBalance: a function that adds up the terms of every subset, in
\* whatever order, yields their balance.
LEMMA SumIsBalance ==
  ASSUME NEW f, NEW S, Terms(f, S), NEW it,
         \A s \in SUBSET S :
           it[s] = IF s = {} THEN 0
                   ELSE f[CHOOSE x \in s : TRUE] + it[s \ {CHOOSE x \in s : TRUE}]
  PROVE  it[S] = Balance(f, S)
<1> DEFINE good == {k \in Nat : \A s \in SUBSET S :
                                  Cardinality(s) = k => it[s] = Balance(f, s)}
<1>1. \A s \in SUBSET S : Terms(f, s) /\ Cardinality(s) \in Nat
  BY FS_Subset, FS_CardinalityType DEF Terms
<1>2. 0 \in good
  <2> SUFFICES ASSUME NEW s \in SUBSET S, Cardinality(s) = 0
               PROVE  it[s] = Balance(f, s)
    OBVIOUS
  <2>1. s = {}
    BY <1>1, FS_EmptySet DEF Terms
  <2>2. it[{}] = 0
    OBVIOUS
  <2> QED
    BY <2>1, <2>2, BalanceAdds
<1>3. ASSUME NEW k \in Nat, k \in good PROVE k + 1 \in good
  <2>0. k + 1 \in Nat
    OBVIOUS
  <2> SUFFICES ASSUME NEW s \in SUBSET S, Cardinality(s) = k + 1
               PROVE  it[s] = Balance(f, s)
    BY <2>0
  <2> DEFINE x == CHOOSE x \in s : TRUE
  <2>1. s # {}
    BY FS_EmptySet
  <2>2. x \in s
    BY <2>1
  <2>3. it[s] = f[x] + it[s \ {x}]
    BY <2>1
  <2> HIDE DEF x
  <2>4. Cardinality(s \ {x}) = k
    BY <1>1, <2>2, FS_RemoveElement DEF Terms
  <2>5. it[s \ {x}] = Balance(f, s \ {x})
    BY <1>3, <2>4
  <2> QED
    BY <1>1, <2>2, <2>3, <2>5, BalanceAdds
<1> DEFINE n == Cardinality(S)
<1>4. n \in Nat
  BY <1>1
<1> HIDE DEF good, n
<1>5. n \in good
  BY <1>2, <1>3, <1>4, UpTo
<1> QED
  BY <1>5 DEF good, n
-----------------------------------------------------------------------------
(* What is heard: a clip as it is read, and the channel as it is mixed.      *)

Clips == [start : Int, stop : Int, volume : Int, muted : BOOLEAN,
          sound : DOMAIN Recorded, from : Int]

Sources == [channel : Int, ticks : Int, clips : SUBSET Clips, first : Int, last : Int]

\* A clip's samples are all clipped to the full scale.
LEMMA DecodedTyped ==
  ASSUME NEW sound \in DOMAIN Recorded, NEW n \in Nat
  PROVE  Decoded(sound, n) \in Int
<1>1. Recorded[sound] \in Seq(Int) /\ FullScale \in Nat /\ -FullScale \in Int
  BY TimelineAssumption
<1>2. CASE n < Len(Recorded[sound])
  <2>1. Recorded[sound][n + 1] \in Int
    <3> DEFINE r == Recorded[sound]
    <3>1. r \in Seq(Int)
      BY <1>1
    <3>2. n + 1 \in 1..Len(r)
      BY <1>2, LenProperties, <3>1
    <3> HIDE DEF r
    <3>3. r[n + 1] \in Int
      BY <3>1, <3>2, ElementOfSeq
    <3> QED
      BY <3>3 DEF r
  <2>2. Within(-FullScale, Recorded[sound][n + 1], FullScale) \in Int
    <3> DEFINE x == Recorded[sound][n + 1]
               low == -FullScale
    <3>1. x \in Int /\ low \in Int /\ FullScale \in Int
      BY <1>1, <2>1
    <3> HIDE DEF x, low
    <3>2. Within(low, x, FullScale) \in Int
      BY <3>1, WithinIs
    <3> QED
      BY <3>2 DEF x, low
  <2> QED
    BY <1>2, <2>2 DEF Decoded
<1>3. CASE ~(n < Len(Recorded[sound]))
  BY <1>3 DEF Decoded
<1> QED
  BY <1>2, <1>3

\* HeardTyped: what is heard of a clip is a number.
LEMMA HeardTyped ==
  ASSUME NEW clip \in Clips, NEW position \in Int
  PROVE  Heard(clip, position) \in Int
<1>1. clip.sound \in DOMAIN Recorded
  BY DEF Clips
<1>2. CASE position < 0
  BY <1>2 DEF Heard
<1>3. CASE ~(position < 0)
  <2>1. position \div 2 \in Nat /\ (position + 1) \div 2 \in Nat
    BY <1>3
  <2>2. /\ Decoded(clip.sound, position \div 2) \in Int
        /\ Decoded(clip.sound, (position + 1) \div 2) \in Int
    BY <1>1, <2>1, DecodedTyped
  <2> QED
    BY <1>3, <2>2 DEF Heard
<1> QED
  BY <1>2, <1>3

\* Mean: halfway between two samples or at the first, in halves.
LEMMA Mean ==
  ASSUME NEW a \in Int, NEW b \in Int, NEW half \in {0, 1}
  PROVE  a * (2 - half) + b * half = IF half = 0 THEN a + a ELSE a + b
  OBVIOUS

\* ReadIsHeard: reading a clip from a position on yields what is heard there,
\* with silence where the sound has not begun.
LEMMA ReadIsHeard ==
  ASSUME NEW clip \in Clips, NEW position \in Int, NEW count \in Nat,
         NEW n \in 1..count
  PROVE  ReadClip(clip, position, count)[n] = Heard(clip, position + 2 * (n - 1))
<1> DEFINE q == (1 - position) \div 2
           late == IF 0 < q THEN q ELSE 0
           silence == IF count < late THEN count ELSE late
           p == position + 2 * (n - 1)
           point == position + 2 * silence
           index == point \div 2 + n - 1 - silence
           half == point % 2
<1>1. q \in Int /\ late \in Int /\ silence \in Int /\ p \in Int /\ point \in Int
  OBVIOUS
<1>2. Min({count, Max({0, q})}) = silence
  <2>1. Max({0, q}) = late
    BY <1>1, PairMax
  <2> HIDE DEF q, late
  <2>2. Min({count, late}) = silence
    BY <1>1, PairMax
  <2> QED
    BY <2>1, <2>2
<1>3. ReadClip(clip, position, count)[n]
        = IF n <= silence THEN 0
          ELSE Decoded(clip.sound, index) * (2 - half)
                 + Decoded(clip.sound, index + 1) * half
  <2> HIDE DEF silence
  <2> QED
    BY <1>2 DEF ReadClip
<1>4. n \in Nat /\ n >= 1 /\ n <= count /\ 2 * q <= 1 - position /\ 1 - position <= 2 * q + 1
  OBVIOUS
<1>5. CASE n <= silence
  <2>1. p < 0
    BY <1>1, <1>4, <1>5
  <2> QED
    BY <1>3, <1>5, <2>1 DEF Heard
<1>6. CASE ~(n <= silence)
  <2>1. silence = late /\ p >= 0 /\ point >= 0
    BY <1>1, <1>4, <1>6
  <2>2. p = point + 2 * (n - 1 - silence)
    BY <1>1
  <2> HIDE DEF silence, point, late, q
  <2>3. index = p \div 2 /\ half = p % 2
    BY <1>1, <1>4, <2>1, <2>2
  <2>4. /\ p \div 2 \in Nat /\ p \div 2 + 1 \in Nat /\ p % 2 \in {0, 1}
        /\ p % 2 = 0 => (p + 1) \div 2 = p \div 2
        /\ p % 2 = 1 => (p + 1) \div 2 = p \div 2 + 1
    BY <1>1, <2>1
  <2> DEFINE a == Decoded(clip.sound, p \div 2)
             b == Decoded(clip.sound, p \div 2 + 1)
             c == Decoded(clip.sound, (p + 1) \div 2)
  <2>5. a \in Int /\ b \in Int
    BY <2>4, DecodedTyped DEF Clips
  <2>6. c = IF half = 0 THEN a ELSE b
    BY <2>3, <2>4
  <2>7. Heard(clip, p) = a + c
    BY <1>1, <2>1 DEF Heard
  <2>8. ReadClip(clip, position, count)[n] = a * (2 - half) + b * half
    BY <1>3, <1>6, <2>3
  <2>9. half \in {0, 1}
    BY <2>3, <2>4
  <2> HIDE DEF a, b, c, half, p
  <2> QED
    BY <2>5, <2>6, <2>7, <2>8, <2>9, Mean DEF p
<1> QED
  BY <1>5, <1>6

\* What one clip sounds like at a sample of the channel.
Voice(source, clip, n) ==
  clip.volume * Heard(clip, clip.from + 2 * (n - Span(source, clip).left))

\* The clips there.
Playing(source, n) ==
  {clip \in source.clips : /\ Audible(clip)
                           /\ Span(source, clip).left <= n
                           /\ n < Span(source, clip).right}

\* SpanTyped: a clip sounds in an interval of samples.
LEMMA SpanTyped ==
  ASSUME NEW source \in Sources, NEW clip \in source.clips
  PROVE  /\ clip \in Clips
         /\ Span(source, clip).left \in Int /\ Span(source, clip).right \in Int
<1>1. clip \in Clips /\ source.first \in Int /\ source.ticks \in Int
  BY DEF Sources
<1>2. clip.start \in Int /\ clip.stop \in Int
  BY <1>1 DEF Clips
<1> DEFINE l == (clip.start - source.first) * source.ticks
           r == (clip.stop - source.first) * source.ticks
<1>3. l \in Int /\ r \in Int
  BY <1>1, <1>2
<1> HIDE DEF l, r
<1>4. RoundEven(l) \in Int /\ RoundEven(r) \in Int
  BY <1>3, HalvesAre
<1>5. Span(source, clip) = [left |-> RoundEven(l), right |-> RoundEven(r)]
  BY DEF Span, l, r
<1> QED
  BY <1>1, <1>4, <1>5

\* VoiceTyped: a voice is a number.
LEMMA VoiceTyped ==
  ASSUME NEW source \in Sources, NEW clip \in source.clips, NEW n \in Int
  PROVE  Voice(source, clip, n) \in Int
<1>1. clip \in Clips /\ Span(source, clip).left \in Int
  BY SpanTyped
<1>2. clip.from \in Int /\ clip.volume \in Int
  BY <1>1 DEF Clips
<1> DEFINE at == clip.from + 2 * (n - Span(source, clip).left)
<1>3. at \in Int
  BY <1>1, <1>2
<1> HIDE DEF at
<1>4. Heard(clip, at) \in Int
  BY <1>1, <1>3, HeardTyped
<1>5. Voice(source, clip, n) = clip.volume * Heard(clip, at)
  BY DEF Voice, at
<1> QED
  BY <1>2, <1>4, <1>5

\* ContributionIsVoice: what a clip adds to a chunk is its voice, where it plays.
LEMMA ContributionIsVoice ==
  ASSUME NEW source \in Sources, NEW start \in Int, NEW count \in Nat,
         NEW n \in 1..count, NEW clip \in Sounding(source, start, count)
  PROVE  Contribution(source, clip, start, count)[n]
           = IF clip \in Playing(source, start + n - 1)
             THEN Voice(source, clip, start + n - 1) ELSE 0
<1> DEFINE left == Span(source, clip).left
           right == Span(source, clip).right
           begin == IF start < left THEN left ELSE start
           end == IF start + count < right THEN start + count ELSE right
           from == ReadFrom(source, clip, begin)
           m == start + n - 1
           k == n - (begin - start)
<1>1. /\ clip \in source.clips /\ clip \in Clips /\ Audible(clip)
      /\ left \in Int /\ right \in Int
  BY SpanTyped DEF Sounding
<1>2. /\ Max({start, left}) = begin /\ Min({start + count, right}) = end
      /\ begin \in Int /\ end \in Int
  <2> HIDE DEF left, right
  <2> QED
    BY <1>1, PairMax
<1>3. end > begin
  BY <1>2 DEF Sounding
<1>4. Contribution(source, clip, start, count)[n]
        = IF n > begin - start /\ n <= end - start
          THEN ReadClip(clip, from, end - begin)[k] * clip.volume ELSE 0
  <2> HIDE DEF begin, end
  <2> QED
    BY <1>2 DEF Contribution
<1>5. /\ clip.from \in Int /\ clip.volume \in Int /\ n \in Nat /\ m \in Int
      /\ from = clip.from + 2 * (begin - left) /\ from \in Int
  <2>1. clip.from \in Int /\ clip.volume \in Int
    BY <1>1 DEF Clips
  <2> QED
    BY <1>1, <1>2, <2>1 DEF ReadFrom
<1>6. n > begin - start /\ n <= end - start <=> left <= m /\ m < right
  <2> HIDE DEF left, right
  <2> QED
    BY <1>1
<1>7. clip \in Playing(source, m) <=> n > begin - start /\ n <= end - start
  <2> HIDE DEF begin, end, m
  <2> QED
    BY <1>1, <1>6 DEF Playing
<1>8. CASE ~(n > begin - start /\ n <= end - start)
  BY <1>4, <1>7, <1>8
<1>9. CASE n > begin - start /\ n <= end - start
  <2> DEFINE d == end - begin
  <2>1. d \in Nat /\ k \in 1..d
    <3> HIDE DEF begin, end
    <3> QED
      BY <1>2, <1>3, <1>5, <1>9
  <2>2. from + 2 * (k - 1) = clip.from + 2 * (m - left)
    <3> HIDE DEF begin, left, from
    <3> QED
      BY <1>1, <1>2, <1>5
  <2>3. Contribution(source, clip, start, count)[n] = ReadClip(clip, from, d)[k] * clip.volume
    BY <1>4, <1>9
  <2> HIDE DEF d, k, begin, end, from
  <2>4. ReadClip(clip, from, d)[k] = Heard(clip, from + 2 * (k - 1))
    BY <1>1, <1>5, <2>1, ReadIsHeard
  <2>5. Voice(source, clip, m) = clip.volume * Heard(clip, from + 2 * (k - 1))
    BY <2>2 DEF Voice
  <2>6. Heard(clip, from + 2 * (k - 1)) \in Int
    BY <1>1, <1>5, <2>1, HeardTyped
  <2>7. clip \in Playing(source, m)
    BY <1>7, <1>9
  <2> HIDE DEF m
  <2> QED
    BY <1>5, <2>3, <2>4, <2>5, <2>6, <2>7 DEF m
<1> QED
  BY <1>8, <1>9

\* VoicesAdd: the sum of the voices of the clips that play is their balance.
LEMMA VoicesAdd ==
  ASSUME NEW source \in Sources, IsFiniteSet(source.clips), NEW n \in Int,
         NEW f, f = [clip \in Playing(source, n) |-> Voice(source, clip, n)]
  PROVE  /\ Terms(f, Playing(source, n))
         /\ Channel(source, n)
              = Within(-2 * FullScale, Balance(f, Playing(source, n)), 2 * FullScale)
<1> DEFINE S == Playing(source, n)
           voice(clip) == clip.volume * Heard(clip, clip.from + 2 * (n - Span(source, clip).left))
           Eqn(g) == g = [s \in SUBSET S |->
                            IF s = {} THEN 0
                            ELSE voice(CHOOSE x \in s : TRUE) + g[s \ {CHOOSE x \in s : TRUE}]]
           it == CHOOSE g : Eqn(g)
           sum == [s \in SUBSET S |-> Balance(f, s)]
<1>1. Terms(f, S)
  <2>1. S \subseteq source.clips
    BY DEF Playing
  <2>2. IsFiniteSet(S)
    BY <2>1, FS_Subset
  <2>3. \A clip \in S : f[clip] = Voice(source, clip, n) /\ Voice(source, clip, n) \in Int
    BY <2>1, VoiceTyped
  <2> HIDE DEF S
  <2> QED
    BY <2>2, <2>3 DEF Terms
<1>2. \A clip \in S : f[clip] = voice(clip)
  BY DEF Voice
<1> HIDE DEF S, voice
<1>3. \A s \in SUBSET S : Terms(f, s)
  BY <1>1, FS_Subset DEF Terms
<1>4. Eqn(sum)
  <2>1. ASSUME NEW s \in SUBSET S
        PROVE  sum[s] = IF s = {} THEN 0
                        ELSE voice(CHOOSE x \in s : TRUE) + sum[s \ {CHOOSE x \in s : TRUE}]
    <3>1. CASE s = {}
      BY <1>3, <3>1, BalanceAdds
    <3>2. CASE s # {}
      <4> DEFINE x == CHOOSE x \in s : TRUE
      <4>1. x \in s
        BY <3>2
      <4> HIDE DEF x
      <4>2. Balance(f, s) = f[x] + Balance(f, s \ {x})
        BY <1>3, <4>1, BalanceAdds
      <4>3. sum[s] = voice(x) + sum[s \ {x}]
        BY <1>2, <4>1, <4>2
      <4> QED
        BY <3>2, <4>3 DEF x
    <3> QED
      BY <3>1, <3>2
  <2> QED
    BY <2>1
<1>5. Eqn(it)
  <2> HIDE DEF Eqn
  <2> QED
    BY <1>4
<1>6. ASSUME NEW s \in SUBSET S
      PROVE  it[s] = IF s = {} THEN 0
                     ELSE f[CHOOSE x \in s : TRUE] + it[s \ {CHOOSE x \in s : TRUE}]
  <2> DEFINE x == CHOOSE x \in s : TRUE
  <2> HIDE DEF it
  <2>1. it[s] = IF s = {} THEN 0 ELSE voice(x) + it[s \ {x}]
    BY <1>5
  <2>2. s # {} => x \in s
    OBVIOUS
  <2> HIDE DEF x
  <2>3. it[s] = IF s = {} THEN 0 ELSE f[x] + it[s \ {x}]
    BY <1>2, <2>1, <2>2
  <2> QED
    BY <2>3 DEF x
<1>7. Channel(source, n) = Within(-2 * FullScale, it[S], 2 * FullScale)
  BY DEF Channel, MapThenSumSet, MapThenFoldSet, Playing, S, voice
<1> HIDE DEF it
<1>8. it[S] = Balance(f, S)
  BY <1>1, <1>6, SumIsBalance
<1> QED
  BY <1>1, <1>7, <1>8 DEF S

\* ContributionsAdd: so is the sum of a sample of a chunk.
LEMMA ContributionsAdd ==
  ASSUME NEW source \in Sources, IsFiniteSet(source.clips), NEW start \in Int,
         NEW count \in Nat, NEW n \in 1..count,
         NEW f, f = [clip \in Sounding(source, start, count) |->
                       Contribution(source, clip, start, count)[n]]
  PROVE  /\ Terms(f, Sounding(source, start, count))
         /\ Mixed(source, start, count)[n]
              = Within(-2 * FullScale, Balance(f, Sounding(source, start, count)),
                       2 * FullScale)
<1> DEFINE S == Sounding(source, start, count)
           voice(clip) == Contribution(source, clip, start, count)[n]
           Eqn(g) == g = [s \in SUBSET S |->
                            IF s = {} THEN 0
                            ELSE voice(CHOOSE x \in s : TRUE) + g[s \ {CHOOSE x \in s : TRUE}]]
           it == CHOOSE g : Eqn(g)
           sum == [s \in SUBSET S |-> Balance(f, s)]
<1>1. Terms(f, S)
  <2>1. S \subseteq source.clips
    BY DEF Sounding
  <2>2. IsFiniteSet(S)
    BY <2>1, FS_Subset
  <2>3. start + n - 1 \in Int
    OBVIOUS
  <2>4. ASSUME NEW clip \in S PROVE f[clip] \in Int
    <3> DEFINE m == start + n - 1
    <3>1. f[clip] = IF clip \in Playing(source, m) THEN Voice(source, clip, m) ELSE 0
      BY ContributionIsVoice
    <3>2. clip \in source.clips
      BY <2>1
    <3> HIDE DEF m
    <3>3. Voice(source, clip, m) \in Int
      BY <2>3, <3>2, VoiceTyped DEF m
    <3> QED
      BY <3>1, <3>3
  <2> HIDE DEF S
  <2> QED
    BY <2>2, <2>4 DEF Terms
<1>2. \A clip \in S : f[clip] = voice(clip)
  OBVIOUS
<1>7. Mixed(source, start, count)[n] = Within(-2 * FullScale, it[S], 2 * FullScale)
  BY DEF Mixed, MapThenSumSet, MapThenFoldSet
<1> HIDE DEF S, voice
<1>3. \A s \in SUBSET S : Terms(f, s)
  BY <1>1, FS_Subset DEF Terms
<1>4. Eqn(sum)
  <2>1. ASSUME NEW s \in SUBSET S
        PROVE  sum[s] = IF s = {} THEN 0
                        ELSE voice(CHOOSE x \in s : TRUE) + sum[s \ {CHOOSE x \in s : TRUE}]
    <3>1. CASE s = {}
      BY <1>3, <3>1, BalanceAdds
    <3>2. CASE s # {}
      <4> DEFINE x == CHOOSE x \in s : TRUE
      <4>1. x \in s
        BY <3>2
      <4> HIDE DEF x
      <4>2. Balance(f, s) = f[x] + Balance(f, s \ {x})
        BY <1>3, <4>1, BalanceAdds
      <4>3. sum[s] = voice(x) + sum[s \ {x}]
        BY <1>2, <4>1, <4>2
      <4> QED
        BY <3>2, <4>3 DEF x
    <3> QED
      BY <3>1, <3>2
  <2> QED
    BY <2>1
<1>5. Eqn(it)
  <2> HIDE DEF Eqn
  <2> QED
    BY <1>4
<1>6. ASSUME NEW s \in SUBSET S
      PROVE  it[s] = IF s = {} THEN 0
                     ELSE f[CHOOSE x \in s : TRUE] + it[s \ {CHOOSE x \in s : TRUE}]
  <2> DEFINE x == CHOOSE x \in s : TRUE
  <2> HIDE DEF it
  <2>1. it[s] = IF s = {} THEN 0 ELSE voice(x) + it[s \ {x}]
    BY <1>5
  <2>2. s # {} => x \in s
    OBVIOUS
  <2> HIDE DEF x
  <2>3. it[s] = IF s = {} THEN 0 ELSE f[x] + it[s \ {x}]
    BY <1>2, <2>1, <2>2
  <2> QED
    BY <2>3 DEF x
<1> HIDE DEF it
<1>8. it[S] = Balance(f, S)
  BY <1>1, <1>6, SumIsBalance
<1> QED
  BY <1>1, <1>7, <1>8 DEF S

\* ChunkIsChannel: a chunk is the channel, from its start on.
LEMMA ChunkIsChannel ==
  ASSUME NEW source \in Sources, IsFiniteSet(source.clips), NEW start \in Int,
         NEW count \in Nat
  PROVE  /\ Mixed(source, start, count) \in Seq(Int)
         /\ Len(Mixed(source, start, count)) = count
         /\ \A n \in 1..count :
              Mixed(source, start, count)[n] = Channel(source, start + n - 1)
<1>1. ASSUME NEW n \in 1..count
      PROVE  /\ Mixed(source, start, count)[n] = Channel(source, start + n - 1)
             /\ Mixed(source, start, count)[n] \in Int
  <2> DEFINE S == Sounding(source, start, count)
             m == start + n - 1
             T == Playing(source, m)
             f == [clip \in S |-> Contribution(source, clip, start, count)[n]]
             g == [clip \in T |-> Voice(source, clip, m)]
  <2>1. /\ Terms(f, S)
        /\ Mixed(source, start, count)[n]
             = Within(-2 * FullScale, Balance(f, S), 2 * FullScale)
    BY ContributionsAdd
  <2>2. m \in Int
    OBVIOUS
  <2>3. /\ Terms(g, T)
        /\ Channel(source, m) = Within(-2 * FullScale, Balance(g, T), 2 * FullScale)
    <3> HIDE DEF m
    <3> QED
      BY <2>2, VoicesAdd
  <2>4. \A clip \in S : f[clip] = IF clip \in T THEN g[clip] ELSE 0
    BY ContributionIsVoice
  <2>5. T \subseteq S
    <3> SUFFICES ASSUME NEW clip \in T PROVE clip \in S
      OBVIOUS
    <3> DEFINE left == Span(source, clip).left
               right == Span(source, clip).right
    <3>1. clip \in source.clips /\ Audible(clip) /\ left <= m /\ m < right
      BY DEF Playing
    <3>2. left \in Int /\ right \in Int
      BY <3>1, SpanTyped
    <3> DEFINE until == start + count
    <3> HIDE DEF left, right
    <3>3. /\ Max({start, left}) = IF start < left THEN left ELSE start
          /\ Min({until, right}) = IF until < right THEN until ELSE right
      <4>1. until \in Int
        OBVIOUS
      <4> HIDE DEF until
      <4> QED
        BY <3>2, <4>1, PairMax
    <3>4. Min({start + count, right}) > Max({start, left})
      BY <3>1, <3>2, <3>3
    <3> QED
      BY <3>1, <3>4 DEF Sounding, left, right
  <2> HIDE DEF f, g, S, T
  <2>6. /\ \A clip \in T : f[clip] = g[clip]
        /\ \A clip \in S \ T : f[clip] = 0
    BY <2>4, <2>5
  <2>7. \A clip \in S \ T : 1..f[clip] = {} /\ 1..(0 - f[clip]) = {}
    BY <2>6
  <2>8. Units(f, S) = Units(g, T) /\ Debts(f, S) = Debts(g, T)
    BY <2>5, <2>6, <2>7 DEF Units, Debts
  <2>9. Balance(f, S) = Balance(g, T)
    BY <2>8 DEF Balance
  <2>10. Balance(f, S) \in Int
    BY <2>1, BalanceAdds
  <2>11. Within(-2 * FullScale, Balance(f, S), 2 * FullScale) \in Int
    <3> DEFINE low == -2 * FullScale  high == 2 * FullScale
    <3>1. low \in Int /\ high \in Int
      BY TimelineAssumption
    <3> HIDE DEF low, high
    <3>2. Within(low, Balance(f, S), high) \in Int
      BY <2>10, <3>1, WithinIs
    <3> QED
      BY <3>2 DEF low, high
  <2> QED
    BY <2>1, <2>3, <2>9, <2>11 DEF m
<1> DEFINE x == Mixed(source, start, count)
<1>3. DOMAIN x = 1..count /\ x = [n \in 1..count |-> x[n]]
  BY DEF Mixed
<1>4. \A n \in 1..count : x[n] \in Int
  BY <1>1
<1> HIDE DEF x
<1>5. x \in [1..count -> Int]
  BY <1>3, <1>4
<1>6. x \in Seq(Int) /\ Len(x) = count
  BY <1>5, SeqDef
<1> QED
  BY <1>1, <1>6 DEF x
-----------------------------------------------------------------------------
(* Folds over sequences: a fold runs from the left, one entry at a time.     *)

PositionSets(n) == SUBSET (1..n)

\* A function that folds every set of positions of a sequence.
FoldsTo(g, step, base, seq) ==
  \A s \in PositionSets(Len(seq)) :
    g[s] = IF s = {} THEN base ELSE step[<<g[s \ {Max(s)}], seq[Max(s)]>>]

\* What a fold computes of the first entries.
RunsTo(run, step, base, seq) ==
  /\ run[0] = base
  /\ \A k \in 0..(Len(seq) - 1) : run[k + 1] = step[<<run[k], seq[k + 1]>>]

\* Two functions that go on alike.
Alike(g, h, n) ==
  /\ g[{}] = h[{}]
  /\ \A s \in PositionSets(n) : s # {} /\ g[s \ {Max(s)}] = h[s \ {Max(s)}] => g[s] = h[s]

\* LastOf: the greatest of a set of positions.
LEMMA LastOf ==
  ASSUME NEW n \in Nat, NEW s \in PositionSets(n), s # {}
  PROVE  /\ Max(s) \in s /\ Max(s) \in 1..n /\ \A k \in s : k <= Max(s)
         /\ s \subseteq 1..Max(s) /\ s \ {Max(s)} \in PositionSets(n)
         /\ Max(s) \notin s \ {Max(s)}
<1>1. IsFiniteSet(1..n)
  BY FS_Interval
<1>2. s \in SUBSET (1..n) /\ s \subseteq Int
  BY DEF PositionSets
<1>3. IsFiniteSet(s)
  BY <1>1, <1>2, FS_Subset
<1>4. Max(s) \in s /\ \A k \in s : k <= Max(s)
  BY <1>2, <1>3, FiniteHasMax
<1> DEFINE m == Max(s)
<1>5. m \in s /\ \A k \in s : k <= m
  BY <1>4
<1> HIDE DEF m
<1>6. m \in 1..n /\ s \subseteq 1..m /\ s \ {m} \in PositionSets(n) /\ m \notin s \ {m}
  BY <1>2, <1>5 DEF PositionSets
<1> QED
  BY <1>5, <1>6 DEF m

\* Until: of the first k positions, and one more.
LEMMA Until ==
  ASSUME NEW k \in Nat
  PROVE  /\ Max(1..k + 1) = k + 1 /\ (1..k + 1) \ {k + 1} = 1..k /\ 1..k + 1 # {}
         /\ PositionSets(0) = {{}}
         /\ \A s \in PositionSets(k + 1) :
              /\ k + 1 \notin s => s \in PositionSets(k)
              /\ k + 1 \in s => Max(s) = k + 1 /\ s \ {k + 1} \in PositionSets(k)
<1>1. \A s \in PositionSets(k + 1) : k + 1 \in s => Max(s) = k + 1
  <2> SUFFICES ASSUME NEW s \in PositionSets(k + 1), k + 1 \in s PROVE Max(s) = k + 1
    OBVIOUS
  <2>1. k + 1 \in Nat /\ s # {}
    OBVIOUS
  <2>2. Max(s) \in 1..k + 1 /\ k + 1 <= Max(s)
    BY <2>1, LastOf
  <2> QED
    BY <2>2
<1>2. 1..k + 1 \in PositionSets(k + 1) /\ k + 1 \in 1..k + 1
  BY DEF PositionSets
<1>3. /\ (1..k + 1) \ {k + 1} = 1..k
      /\ \A s \in PositionSets(k + 1) : k + 1 \notin s => s \in PositionSets(k)
      /\ \A s \in PositionSets(k + 1) : s \ {k + 1} \in PositionSets(k)
  BY DEF PositionSets
<1>4. PositionSets(0) = {{}}
  BY DEF PositionSets
<1> QED
  BY <1>1, <1>2, <1>3, <1>4

\* FoldExists: there is a function that folds every set of positions.
LEMMA FoldExists ==
  ASSUME NEW T, NEW E, NEW step \in [T \X E -> T], NEW base \in T,
         NEW seq \in Seq(E)
  PROVE  \E g \in [PositionSets(Len(seq)) -> T] : FoldsTo(g, step, base, seq)
<1> DEFINE n == Len(seq)
           Folds(g, k) == \A s \in PositionSets(k) :
             g[s] = IF s = {} THEN base ELSE step[<<g[s \ {Max(s)}], seq[Max(s)]>>]
           S == {k \in Nat : k <= n => \E g \in [PositionSets(k) -> T] : Folds(g, k)}
<1>1. n \in Nat /\ \A k \in 1..n : seq[k] \in E
  BY LenProperties, ElementOfSeq
<1>2. 0 \in S
  <2> DEFINE g == [s \in PositionSets(0) |-> base]
  <2>1. Folds(g, 0) /\ g \in [PositionSets(0) -> T]
    BY Until
  <2> HIDE DEF g, Folds
  <2> QED
    BY <2>1
<1>3. ASSUME NEW k \in 0..(n - 1), k \in S PROVE k + 1 \in S
  <2>1. k \in Nat /\ k <= n /\ k + 1 \in 1..n
    BY <1>1
  <2>2. PICK g \in [PositionSets(k) -> T] : Folds(g, k)
    BY <1>3, <2>1
  <2> DEFINE h == [s \in PositionSets(k + 1) |->
                     IF k + 1 \in s THEN step[<<g[s \ {k + 1}], seq[k + 1]>>] ELSE g[s]]
  <2>3. ASSUME NEW s \in PositionSets(k + 1)
        PROVE  h[s] \in T /\ h[s] = IF s = {} THEN base
                                    ELSE step[<<h[s \ {Max(s)}], seq[Max(s)]>>]
    <3>1. CASE k + 1 \in s
      <4>1. Max(s) = k + 1 /\ s \ {k + 1} \in PositionSets(k)
        BY <2>1, <3>1, Until
      <4>2. h[s] = step[<<g[s \ {k + 1}], seq[k + 1]>>]
        BY <3>1
      <4>3. g[s \ {k + 1}] \in T /\ seq[k + 1] \in E
        BY <1>1, <2>1, <4>1
      <4>4. s \ {k + 1} \in PositionSets(k + 1) /\ k + 1 \notin s \ {k + 1}
        BY DEF PositionSets
      <4>5. h[s \ {k + 1}] = g[s \ {k + 1}]
        BY <4>4
      <4> HIDE DEF h
      <4> QED
        BY <3>1, <4>1, <4>2, <4>3, <4>5
    <3>2. CASE k + 1 \notin s
      <4>1. s \in PositionSets(k)
        BY <2>1, <3>2, Until
      <4>2. h[s] = g[s]
        BY <3>2
      <4>3. CASE s = {}
        BY <2>2, <4>1, <4>2, <4>3
      <4>4. CASE s # {}
        <5>1. s \ {Max(s)} \in PositionSets(k)
          BY <2>1, <4>1, <4>4, LastOf
        <5>2. k + 1 \notin s \ {Max(s)} /\ s \ {Max(s)} \in PositionSets(k + 1)
          BY <3>2 DEF PositionSets
        <5>3. h[s \ {Max(s)}] = g[s \ {Max(s)}]
          BY <5>2
        <5> HIDE DEF h
        <5> QED
          BY <2>2, <4>1, <4>2, <4>4, <5>3
      <4> QED
        BY <4>3, <4>4
    <3> QED
      BY <3>1, <3>2
  <2>4. h \in [PositionSets(k + 1) -> T]
    BY <2>3
  <2>5. Folds(h, k + 1)
    <3> HIDE DEF h
    <3> QED
      BY <2>3
  <2> HIDE DEF h, Folds
  <2> QED
    BY <2>1, <2>4, <2>5
<1>4. n \in S
  <2> HIDE DEF S, n
  <2>1. 0..n \subseteq S
    BY <1>1, <1>2, <1>3, UpTo
  <2> QED
    BY <1>1, <2>1
<1> HIDE DEF n, Folds
<1>5. \E g \in [PositionSets(n) -> T] : Folds(g, n)
  BY <1>1, <1>4
<1> QED
  BY <1>5 DEF n, Folds, FoldsTo

\* FoldUnique: there is one only.
LEMMA FoldUnique ==
  ASSUME NEW n \in Nat, NEW g, NEW h, Alike(g, h, n)
  PROVE  \A s \in PositionSets(n) : g[s] = h[s]
<1> USE DEF Alike
<1> DEFINE S == {k \in Nat : k <= n => \A s \in PositionSets(k) : g[s] = h[s]}
<1>1. 0 \in S
  BY Until
<1>2. ASSUME NEW k \in 0..(n - 1), k \in S PROVE k + 1 \in S
  <2>1. k \in Nat /\ k <= n /\ k + 1 <= n
    OBVIOUS
  <2>2. ASSUME NEW s \in PositionSets(k + 1) PROVE g[s] = h[s]
    <3>1. CASE k + 1 \in s
      <4>1. Max(s) = k + 1 /\ s \ {k + 1} \in PositionSets(k)
        BY <2>1, <3>1, Until
      <4>2. g[s \ {k + 1}] = h[s \ {k + 1}]
        BY <1>2, <2>1, <4>1
      <4>3. s \in PositionSets(n)
        BY <2>1 DEF PositionSets
      <4> QED
        BY <3>1, <4>1, <4>2, <4>3
    <3>2. CASE k + 1 \notin s
      BY <1>2, <2>1, <3>2, Until
    <3> QED
      BY <3>1, <3>2
  <2> QED
    BY <2>1, <2>2
<1>3. 0..n \subseteq S
  <2> HIDE DEF S
  <2> QED
    BY <1>1, <1>2, UpTo
<1> QED
  BY <1>3

\* Folding: a function that folds every set of positions, and what that
\* means for the sequence entry by entry.
Folding(g, T, step, base, seq) ==
  /\ FoldsTo(g, step, base, seq)
  /\ \E run \in [0..Len(seq) -> T] :
       RunsTo(run, step, base, seq) /\ run[Len(seq)] = g[1..Len(seq)]

\* FoldGoes: there is such a function.
LEMMA FoldGoes ==
  ASSUME NEW T, NEW E, NEW step \in [T \X E -> T], NEW base \in T,
         NEW seq \in Seq(E)
  PROVE  \E g \in [PositionSets(Len(seq)) -> T] : Folding(g, T, step, base, seq)
<1>1. PICK g \in [PositionSets(Len(seq)) -> T] : FoldsTo(g, step, base, seq)
  BY FoldExists
<1>2. \E run \in [0..Len(seq) -> T] :
        RunsTo(run, step, base, seq) /\ run[Len(seq)] = g[1..Len(seq)]
  <2> USE <1>1 DEF FoldsTo
  <2> DEFINE n == Len(seq)
             run == [k \in 0..n |-> g[1..k]]
  <2>1. n \in Nat
    BY LenProperties
  <2> HIDE DEF n
  <2>2. \A k \in 0..n : 1..k \in PositionSets(n)
    BY <2>1 DEF PositionSets
  <2>3. run \in [0..n -> T]
    BY <2>2 DEF n
  <2>4. run[0] = base
    <3>1. 1..0 = {} /\ 0 \in 0..n
      BY <2>1
    <3>2. run[0] = g[{}] /\ {} \in PositionSets(n)
      BY <3>1 DEF PositionSets
    <3> QED
      BY <3>2 DEF n
  <2>5. ASSUME NEW k \in 0..(n - 1) PROVE run[k + 1] = step[<<run[k], seq[k + 1]>>]
    <3>1. k \in Nat /\ k \in 0..n /\ k + 1 \in 0..n
      BY <2>1
    <3>2. run[k + 1] = g[1..k + 1] /\ run[k] = g[1..k] /\ 1..k + 1 \in PositionSets(n)
      BY <2>2, <3>1
    <3>3. Max(1..k + 1) = k + 1 /\ (1..k + 1) \ {k + 1} = 1..k /\ 1..k + 1 # {}
      BY <3>1, Until
    <3> HIDE DEF run
    <3>4. g[1..k + 1] = step[<<g[(1..k + 1) \ {Max(1..k + 1)}], seq[Max(1..k + 1)]>>]
      BY <3>2, <3>3 DEF n
    <3> QED
      BY <3>2, <3>3, <3>4
  <2>6. run[n] = g[1..n]
    BY <2>1
  <2> HIDE DEF run
  <2> QED
    BY <2>3, <2>4, <2>5, <2>6 DEF n, RunsTo
<1> QED
  BY <1>1, <1>2 DEF Folding
-----------------------------------------------------------------------------
(* Settings over time *)

Settings == [Leaves -> Int]
Entries == [sample : Nat, settings : Settings]
Patches == UNION {[names -> Int] : names \in SUBSET Leaves}
Patching == [sample : Nat, settings : Patches]
Timelines == [payload : Seq(Patching), snapshots : Seq(Entries) \ {<<>>}]

\* Later entries have later samples.
Ascending(entries) ==
  \A i, j \in 1..Len(entries) : i < j => entries[i].sample < entries[j].sample

\* A patch leads from one settings to the next.
LEMMA PatchLeads ==
  ASSUME NEW old \in Settings, NEW new \in Settings
  PROVE  /\ ObjectPatch(old, new) \in Patches
         /\ Patched(old, ObjectPatch(old, new)) = new
         /\ DOMAIN ObjectPatch(old, new) = {} => old = new
<1> DEFINE names == {n \in DOMAIN new : new[n] # old[n]}
<1>1. DOMAIN new = Leaves /\ DOMAIN old = Leaves /\ \A n \in Leaves : new[n] \in Int
  BY DEF Settings
<1>2. names \in SUBSET Leaves
  BY <1>1
<1>3. /\ ObjectPatch(old, new) = [name \in names |-> new[name]]
      /\ DOMAIN ObjectPatch(old, new) = names
  <2>1. \A n : new[n] # old[n] <=> old[n] # new[n]
    OBVIOUS
  <2> QED
    BY <2>1 DEF ObjectPatch
<1>4. ObjectPatch(old, new) \in [names -> Int]
  BY <1>1, <1>2, <1>3
<1>5. ObjectPatch(old, new) \in Patches
  <2> HIDE DEF names
  <2> QED
    BY <1>2, <1>4 DEF Patches
<1>6. \A n \in Leaves : Patched(old, ObjectPatch(old, new))[n] = new[n]
  BY <1>1, <1>3 DEF Patched
<1>7. Patched(old, ObjectPatch(old, new)) = new
  <2>1. DOMAIN Patched(old, ObjectPatch(old, new)) = Leaves
        /\ Patched(old, ObjectPatch(old, new))
             = [n \in Leaves |-> Patched(old, ObjectPatch(old, new))[n]]
    BY <1>1 DEF Patched
  <2>2. new = [n \in Leaves |-> new[n]]
    BY DEF Settings
  <2> QED
    BY <1>6, <2>1, <2>2
<1>8. names = {} => old = new
  <2>1. new = [n \in Leaves |-> new[n]] /\ old = [n \in Leaves |-> old[n]]
    BY DEF Settings
  <2> QED
    BY <1>1, <2>1
<1> QED
  BY <1>3, <1>5, <1>7, <1>8

\* PatchTyped: patched settings are settings.
LEMMA PatchTyped ==
  ASSUME NEW old \in Settings, NEW patch \in Patches
  PROVE  Patched(old, patch) \in Settings
<1>1. PICK names \in SUBSET Leaves : patch \in [names -> Int]
  BY DEF Patches
<1>2. DOMAIN old = Leaves /\ \A n \in Leaves : old[n] \in Int
  BY DEF Settings
<1>3. \A n \in Leaves : (IF n \in DOMAIN patch THEN patch[n] ELSE old[n]) \in Int
  BY <1>1, <1>2
<1>4. Patched(old, patch) \in [Leaves -> Int]
  BY <1>2, <1>3 DEF Patched
<1> QED
  BY <1>4 DEF Settings

\* KeepLastTyped: one step of the fold over the snapshots.
LEMMA KeepLastTyped ==
  ASSUME NEW unique \in Seq(Entries), NEW entry \in Entries
  PROVE  /\ KeepLast(unique, entry) \in Seq(Entries) \ {<<>>}
         /\ IF unique # <<>> /\ Last(unique).sample = entry.sample
            THEN /\ Len(KeepLast(unique, entry)) = Len(unique) /\ Len(unique) > 0
                 /\ \A i \in 1..(Len(unique) - 1) : KeepLast(unique, entry)[i] = unique[i]
                 /\ KeepLast(unique, entry)[Len(unique)] = entry
            ELSE /\ Len(KeepLast(unique, entry)) = Len(unique) + 1
                 /\ \A i \in 1..Len(unique) : KeepLast(unique, entry)[i] = unique[i]
                 /\ KeepLast(unique, entry)[Len(unique) + 1] = entry
<1>1. Len(unique) \in Nat
  BY LenProperties
<1>2. CASE unique # <<>> /\ Last(unique).sample = entry.sample
  <2>1. Len(unique) > 0
    BY <1>1, <1>2, EmptySeq
  <2> DEFINE front == SubSeq(unique, 1, Len(unique) - 1)
  <2>2. /\ front \in Seq(Entries) /\ Len(front) = Len(unique) - 1
        /\ \A i \in 1..(Len(unique) - 1) : front[i] = unique[i]
    <3> DEFINE m == Len(unique) - 1
    <3>1. m \in Nat /\ m <= Len(unique)
      BY <1>1, <2>1
    <3> HIDE DEF m
    <3>2. /\ SubSeq(unique, 1, m) \in Seq(Entries) /\ Len(SubSeq(unique, 1, m)) = m
          /\ \A i \in 1..m : SubSeq(unique, 1, m)[i] = unique[i]
      BY <1>1, <3>1, SubSeqProperties
    <3> QED
      BY <3>2 DEF m
  <2>3. KeepLast(unique, entry) = Append(front, entry)
    BY <1>2 DEF KeepLast, Front
  <2> HIDE DEF front
  <2>4. /\ Append(front, entry) \in Seq(Entries) /\ Append(front, entry) # <<>>
        /\ Len(Append(front, entry)) = Len(front) + 1
        /\ \A i \in 1..Len(front) : Append(front, entry)[i] = front[i]
        /\ Append(front, entry)[Len(front) + 1] = entry
    BY <2>2, AppendProperties
  <2> QED
    BY <1>1, <1>2, <2>1, <2>2, <2>3, <2>4
<1>3. CASE ~(unique # <<>> /\ Last(unique).sample = entry.sample)
  <2>1. KeepLast(unique, entry) = Append(unique, entry)
    BY <1>3 DEF KeepLast
  <2>2. /\ Append(unique, entry) \in Seq(Entries) /\ Append(unique, entry) # <<>>
        /\ Len(Append(unique, entry)) = Len(unique) + 1
        /\ \A i \in 1..Len(unique) : Append(unique, entry)[i] = unique[i]
        /\ Append(unique, entry)[Len(unique) + 1] = entry
    BY AppendProperties
  <2> QED
    BY <1>3, <2>1, <2>2
<1> QED
  BY <1>2, <1>3

\* KeepLastReplaces: an entry replaces one of its sample.
LEMMA KeepLastReplaces ==
  ASSUME NEW unique \in Seq(Entries), NEW entry \in Entries, Len(unique) > 0,
         unique[Len(unique)].sample = entry.sample
  PROVE  /\ KeepLast(unique, entry) \in Seq(Entries)
         /\ Len(KeepLast(unique, entry)) = Len(unique)
         /\ \A i \in 1..(Len(unique) - 1) : KeepLast(unique, entry)[i] = unique[i]
         /\ KeepLast(unique, entry)[Len(unique)] = entry
<1>1. unique # <<>> /\ Last(unique).sample = entry.sample
  BY EmptySeq DEF Last
<1> QED
  BY <1>1, KeepLastTyped

\* KeepLastAdds: an entry of another sample is added.
LEMMA KeepLastAdds ==
  ASSUME NEW unique \in Seq(Entries), NEW entry \in Entries,
         Len(unique) = 0 \/ unique[Len(unique)].sample # entry.sample
  PROVE  /\ KeepLast(unique, entry) \in Seq(Entries)
         /\ Len(KeepLast(unique, entry)) = Len(unique) + 1
         /\ \A i \in 1..Len(unique) : KeepLast(unique, entry)[i] = unique[i]
         /\ KeepLast(unique, entry)[Len(unique) + 1] = entry
<1>1. ~(unique # <<>> /\ Last(unique).sample = entry.sample)
  BY EmptySeq DEF Last
<1>2. KeepLast(unique, entry) = Append(unique, entry)
  BY <1>1 DEF KeepLast
<1> QED
  BY <1>2, AppendProperties

\* KeepLastRuns: the fold over the snapshots of a scan, step by step.
LEMMA KeepLastRuns ==
  ASSUME NEW entries \in Seq(Entries)
  PROVE  \E run \in [0..Len(entries) -> Seq(Entries)] :
           /\ run[0] = <<>>
           /\ \A k \in 0..(Len(entries) - 1) : run[k + 1] = KeepLast(run[k], entries[k + 1])
           /\ FoldLeft(KeepLast, <<>>, entries) = run[Len(entries)]
<1> DEFINE n == Len(entries)
           T == Seq(Entries)
           base == <<>>
           step == [p \in T \X Entries |-> KeepLast(p[1], p[2])]
           Eqn(g) == g = [s \in SUBSET DOMAIN entries |->
                            IF s = {} THEN base
                            ELSE KeepLast(g[s \ {Max(s)}], entries[Max(s)])]
           it == CHOOSE g : Eqn(g)
<1>1. /\ n \in Nat /\ \A k \in 1..n : entries[k] \in Entries
      /\ DOMAIN entries = 1..n /\ base \in T
  BY LenProperties, ElementOfSeq
<1>2. step \in [T \X Entries -> T]
  <2>1. \A u \in T, e \in Entries : KeepLast(u, e) \in T
    BY KeepLastTyped
  <2> HIDE DEF T
  <2> QED
    BY <2>1
<1>3. \A u \in T, e \in Entries : step[<<u, e>>] = KeepLast(u, e)
  OBVIOUS
<1>4. FoldLeft(KeepLast, <<>>, entries) = it[DOMAIN entries]
  BY DEF FoldLeft, MapThenFoldSet
<1> HIDE DEF step, T, base
<1>0. PICK g \in [PositionSets(n) -> T] : Folding(g, T, step, base, entries)
  BY <1>1, <1>2, FoldGoes
<1>5. g \in [PositionSets(n) -> T] /\ FoldsTo(g, step, base, entries)
  BY <1>0 DEF Folding
<1>6. \A s \in PositionSets(n) :
        g[s] = IF s = {} THEN base ELSE KeepLast(g[s \ {Max(s)}], entries[Max(s)])
  <2> SUFFICES ASSUME NEW s \in PositionSets(n), s # {}
               PROVE  g[s] = KeepLast(g[s \ {Max(s)}], entries[Max(s)])
    BY <1>5 DEF FoldsTo
  <2>1. Max(s) \in 1..n /\ s \ {Max(s)} \in PositionSets(n)
    BY <1>1, LastOf
  <2>2. g[s \ {Max(s)}] \in T /\ entries[Max(s)] \in Entries
    BY <1>1, <2>1
  <2> QED
    BY <1>3, <1>5, <2>2 DEF FoldsTo
<1>7. Eqn(g)
  <2> HIDE DEF n
  <2> QED
    BY <1>1, <1>6 DEF PositionSets
<1>8. Eqn(it)
  <2> HIDE DEF Eqn
  <2> QED
    BY <1>7
<1>9. it[1..n] = g[1..n]
  <2>1. \A s \in PositionSets(n) :
          it[s] = IF s = {} THEN base ELSE KeepLast(it[s \ {Max(s)}], entries[Max(s)])
    <3> HIDE DEF it, n
    <3> QED
      BY <1>1, <1>8 DEF PositionSets
  <2> HIDE DEF it, n
  <2>2. {} \in PositionSets(n) /\ 1..n \in PositionSets(n)
    BY DEF PositionSets
  <2>3. Alike(it, g, n)
    BY <1>6, <2>1, <2>2 DEF Alike
  <2>4. \A s \in PositionSets(n) : it[s] = g[s]
    BY <1>1, <2>3, FoldUnique
  <2> QED
    BY <2>2, <2>4
<1> HIDE DEF it
<1>10. PICK run \in [0..n -> T] : RunsTo(run, step, base, entries) /\ run[n] = g[1..n]
  BY <1>0 DEF Folding
<1>11. \A k \in 0..(n - 1) : run[k + 1] = KeepLast(run[k], entries[k + 1])
  <2> SUFFICES ASSUME NEW k \in 0..(n - 1) PROVE run[k + 1] = KeepLast(run[k], entries[k + 1])
    OBVIOUS
  <2>1. k \in 0..n /\ k + 1 \in 1..n
    BY <1>1
  <2>2. run[k] \in T /\ entries[k + 1] \in Entries
    BY <1>1, <1>10, <2>1
  <2> QED
    BY <1>3, <1>10, <2>2 DEF RunsTo
<1> QED
  BY <1>1, <1>4, <1>9, <1>10, <1>11 DEF T, base, RunsTo

\* EncodeTyped: an entry that changes nothing is not recorded.
LEMMA EncodeTyped ==
  ASSUME NEW t \in Timelines, NEW entry \in Entries
  PROVE  /\ Encode(t, entry) \in Timelines
         /\ LET n == Len(t.snapshots)
                m == Len(t.payload)
                patch == ObjectPatch(t.snapshots[n].settings, entry.settings) IN
            /\ t.snapshots[n].settings \in Settings
            /\ patch \in Patches
            /\ IF DOMAIN patch = {} THEN Encode(t, entry) = t
               ELSE /\ Len(Encode(t, entry).snapshots) = n + 1
                    /\ Len(Encode(t, entry).payload) = m + 1
                    /\ \A i \in 1..n : Encode(t, entry).snapshots[i] = t.snapshots[i]
                    /\ \A i \in 1..m : Encode(t, entry).payload[i] = t.payload[i]
                    /\ Encode(t, entry).snapshots[n + 1] = entry
                    /\ Encode(t, entry).payload[m + 1]
                         = [sample |-> entry.sample, settings |-> patch]
<1> DEFINE p == t.payload
           q == t.snapshots
           n == Len(q)
           m == Len(p)
           patch == ObjectPatch(q[n].settings, entry.settings)
           new == [sample |-> entry.sample, settings |-> patch]
<1>1. p \in Seq(Patching) /\ q \in Seq(Entries) /\ q # <<>>
  BY DEF Timelines
<1>2. m \in Nat /\ n \in Nat /\ n > 0
  <2> HIDE DEF p, q
  <2> QED
    BY <1>1, LenProperties, EmptySeq
<1>3. q[n] \in Entries
  <2> HIDE DEF p, q
  <2>1. n \in 1..Len(q)
    BY <1>2
  <2> HIDE DEF n
  <2> QED
    BY <1>1, <2>1, ElementOfSeq
<1>4. q[n].settings \in Settings /\ entry.settings \in Settings /\ entry.sample \in Nat
  BY <1>3 DEF Entries
<1>5. patch \in Patches
  <2> DEFINE old == q[n].settings
  <2>1. old \in Settings
    BY <1>4
  <2> HIDE DEF old
  <2>2. ObjectPatch(old, entry.settings) \in Patches
    BY <1>4, <2>1, PatchLeads
  <2> QED
    BY <2>2 DEF old
<1>6. Encode(t, entry) = IF DOMAIN patch = {} THEN t
                         ELSE [payload |-> Append(p, new), snapshots |-> Append(q, entry)]
  BY DEF Encode, Last
<1>7. new \in Patching
  BY <1>4, <1>5 DEF Patching
<1> HIDE DEF p, q, new, patch, n, m
<1>8. /\ Append(p, new) \in Seq(Patching) /\ Len(Append(p, new)) = m + 1
      /\ \A i \in 1..m : Append(p, new)[i] = p[i]
      /\ Append(p, new)[m + 1] = new
  BY <1>1, <1>7, AppendProperties DEF m
<1>9. /\ Append(q, entry) \in Seq(Entries) /\ Len(Append(q, entry)) = n + 1
      /\ Append(q, entry) # <<>>
      /\ \A i \in 1..n : Append(q, entry)[i] = q[i]
      /\ Append(q, entry)[n + 1] = entry
  BY <1>1, AppendProperties DEF n
<1>10. CASE DOMAIN patch = {}
  BY <1>4, <1>5, <1>6, <1>10 DEF p, q, n, m, patch
<1>11. CASE DOMAIN patch # {}
  <2>1. /\ Encode(t, entry) = [payload |-> Append(p, new), snapshots |-> Append(q, entry)]
        /\ Encode(t, entry).payload = Append(p, new)
        /\ Encode(t, entry).snapshots = Append(q, entry)
    BY <1>6, <1>11
  <2>2. Encode(t, entry) \in Timelines
    BY <1>8, <1>9, <2>1 DEF Timelines
  <2> QED
    BY <1>4, <1>5, <1>8, <1>9, <1>11, <2>1, <2>2 DEF p, q, n, m, new, patch
<1> QED
  BY <1>10, <1>11

\* EncodeRuns: the fold over the entries that are kept, step by step.
LEMMA EncodeRuns ==
  ASSUME NEW entries \in Seq(Entries), NEW base \in Timelines
  PROVE  \E run \in [0..Len(entries) -> Timelines] :
           /\ run[0] = base
           /\ \A k \in 0..(Len(entries) - 1) : run[k + 1] = Encode(run[k], entries[k + 1])
           /\ FoldLeft(Encode, base, entries) = run[Len(entries)]
<1> DEFINE n == Len(entries)
           T == Timelines
           step == [p \in T \X Entries |-> Encode(p[1], p[2])]
           Eqn(g) == g = [s \in SUBSET DOMAIN entries |->
                            IF s = {} THEN base
                            ELSE Encode(g[s \ {Max(s)}], entries[Max(s)])]
           it == CHOOSE g : Eqn(g)
<1>1. /\ n \in Nat /\ \A k \in 1..n : entries[k] \in Entries
      /\ DOMAIN entries = 1..n /\ base \in T
  BY LenProperties, ElementOfSeq
<1>2. step \in [T \X Entries -> T]
  <2>1. \A u \in T, e \in Entries : Encode(u, e) \in T
    BY EncodeTyped
  <2> HIDE DEF T
  <2> QED
    BY <2>1
<1>3. \A u \in T, e \in Entries : step[<<u, e>>] = Encode(u, e)
  OBVIOUS
<1>4. FoldLeft(Encode, base, entries) = it[DOMAIN entries]
  BY DEF FoldLeft, MapThenFoldSet
<1> HIDE DEF step, T
<1>0. PICK g \in [PositionSets(n) -> T] : Folding(g, T, step, base, entries)
  BY <1>1, <1>2, FoldGoes
<1>5. g \in [PositionSets(n) -> T] /\ FoldsTo(g, step, base, entries)
  BY <1>0 DEF Folding
<1>6. \A s \in PositionSets(n) :
        g[s] = IF s = {} THEN base ELSE Encode(g[s \ {Max(s)}], entries[Max(s)])
  <2> SUFFICES ASSUME NEW s \in PositionSets(n), s # {}
               PROVE  g[s] = Encode(g[s \ {Max(s)}], entries[Max(s)])
    BY <1>5 DEF FoldsTo
  <2>1. Max(s) \in 1..n /\ s \ {Max(s)} \in PositionSets(n)
    BY <1>1, LastOf
  <2>2. g[s \ {Max(s)}] \in T /\ entries[Max(s)] \in Entries
    BY <1>1, <2>1
  <2> QED
    BY <1>3, <1>5, <2>2 DEF FoldsTo
<1>7. Eqn(g)
  <2> HIDE DEF n
  <2> QED
    BY <1>1, <1>6 DEF PositionSets
<1>8. Eqn(it)
  <2> HIDE DEF Eqn
  <2> QED
    BY <1>7
<1>9. it[1..n] = g[1..n]
  <2>1. \A s \in PositionSets(n) :
          it[s] = IF s = {} THEN base ELSE Encode(it[s \ {Max(s)}], entries[Max(s)])
    <3> HIDE DEF it, n
    <3> QED
      BY <1>1, <1>8 DEF PositionSets
  <2> HIDE DEF it, n
  <2>2. {} \in PositionSets(n) /\ 1..n \in PositionSets(n)
    BY DEF PositionSets
  <2>3. Alike(it, g, n)
    BY <1>6, <2>1, <2>2 DEF Alike
  <2>4. \A s \in PositionSets(n) : it[s] = g[s]
    BY <1>1, <2>3, FoldUnique
  <2> QED
    BY <2>2, <2>4
<1> HIDE DEF it
<1>10. PICK run \in [0..n -> T] : RunsTo(run, step, base, entries) /\ run[n] = g[1..n]
  BY <1>0 DEF Folding
<1>11. \A k \in 0..(n - 1) : run[k + 1] = Encode(run[k], entries[k + 1])
  <2> SUFFICES ASSUME NEW k \in 0..(n - 1) PROVE run[k + 1] = Encode(run[k], entries[k + 1])
    OBVIOUS
  <2>1. k \in 0..n /\ k + 1 \in 1..n
    BY <1>1
  <2>2. run[k] \in T /\ entries[k + 1] \in Entries
    BY <1>1, <1>10, <2>1
  <2> QED
    BY <1>3, <1>10, <2>2 DEF RunsTo
<1> QED
  BY <1>1, <1>4, <1>9, <1>10, <1>11 DEF T, RunsTo

\* A patch that is not later than a sample is added.
PatchAt(sample, settings, entry) ==
  IF entry.sample > sample THEN settings ELSE Patched(settings, entry.settings)

\* WorkerRuns: the patches the worker adds up, step by step.
LEMMA WorkerRuns ==
  ASSUME NEW entries \in Seq(Patching), NEW base \in Settings, NEW sample \in Int
  PROVE  \E run \in [0..Len(entries) -> Settings] :
           /\ run[0] = base
           /\ \A k \in 0..(Len(entries) - 1) : run[k + 1] = PatchAt(sample, run[k], entries[k + 1])
           /\ FoldLeft(LAMBDA settings, entry : IF entry.sample > sample THEN settings
                                                  ELSE Patched(settings, entry.settings),
                       base, entries) = run[Len(entries)]
<1> DEFINE n == Len(entries)
           T == Settings
           step == [p \in T \X Patching |-> PatchAt(sample, p[1], p[2])]
           Eqn(g) == g = [s \in SUBSET DOMAIN entries |->
                            IF s = {} THEN base
                            ELSE PatchAt(sample, g[s \ {Max(s)}], entries[Max(s)])]
           it == CHOOSE g : Eqn(g)
<1>1. /\ n \in Nat /\ \A k \in 1..n : entries[k] \in Patching
      /\ DOMAIN entries = 1..n /\ base \in T
  BY LenProperties, ElementOfSeq
<1>2. step \in [T \X Patching -> T]
  <2>1. \A u \in T, e \in Patching : PatchAt(sample, u, e) \in T
    BY PatchTyped DEF PatchAt, Patching
  <2> HIDE DEF T
  <2> QED
    BY <2>1
<1>3. \A u \in T, e \in Patching : step[<<u, e>>] = PatchAt(sample, u, e)
  OBVIOUS
<1>4. FoldLeft(LAMBDA settings, entry : IF entry.sample > sample THEN settings
                                                ELSE Patched(settings, entry.settings),
                     base, entries) = it[DOMAIN entries]
  BY DEF FoldLeft, MapThenFoldSet, PatchAt
<1> HIDE DEF step, T
<1>0. PICK g \in [PositionSets(n) -> T] : Folding(g, T, step, base, entries)
  BY <1>1, <1>2, FoldGoes
<1>5. g \in [PositionSets(n) -> T] /\ FoldsTo(g, step, base, entries)
  BY <1>0 DEF Folding
<1>6. \A s \in PositionSets(n) :
        g[s] = IF s = {} THEN base ELSE PatchAt(sample, g[s \ {Max(s)}], entries[Max(s)])
  <2> SUFFICES ASSUME NEW s \in PositionSets(n), s # {}
               PROVE  g[s] = PatchAt(sample, g[s \ {Max(s)}], entries[Max(s)])
    BY <1>5 DEF FoldsTo
  <2>1. Max(s) \in 1..n /\ s \ {Max(s)} \in PositionSets(n)
    BY <1>1, LastOf
  <2>2. g[s \ {Max(s)}] \in T /\ entries[Max(s)] \in Patching
    BY <1>1, <2>1
  <2> QED
    BY <1>3, <1>5, <2>2 DEF FoldsTo
<1>7. Eqn(g)
  <2> HIDE DEF n
  <2> QED
    BY <1>1, <1>6 DEF PositionSets
<1>8. Eqn(it)
  <2> HIDE DEF Eqn
  <2> QED
    BY <1>7
<1>9. it[1..n] = g[1..n]
  <2>1. \A s \in PositionSets(n) :
          it[s] = IF s = {} THEN base ELSE PatchAt(sample, it[s \ {Max(s)}], entries[Max(s)])
    <3> HIDE DEF it, n
    <3> QED
      BY <1>1, <1>8 DEF PositionSets
  <2> HIDE DEF it, n
  <2>2. {} \in PositionSets(n) /\ 1..n \in PositionSets(n)
    BY DEF PositionSets
  <2>3. Alike(it, g, n)
    BY <1>6, <2>1, <2>2 DEF Alike
  <2>4. \A s \in PositionSets(n) : it[s] = g[s]
    BY <1>1, <2>3, FoldUnique
  <2> QED
    BY <2>2, <2>4
<1> HIDE DEF it
<1>10. PICK run \in [0..n -> T] : RunsTo(run, step, base, entries) /\ run[n] = g[1..n]
  BY <1>0 DEF Folding
<1>11. \A k \in 0..(n - 1) : run[k + 1] = PatchAt(sample, run[k], entries[k + 1])
  <2> SUFFICES ASSUME NEW k \in 0..(n - 1) PROVE run[k + 1] = PatchAt(sample, run[k], entries[k + 1])
    OBVIOUS
  <2>1. k \in 0..n /\ k + 1 \in 1..n
    BY <1>1
  <2>2. run[k] \in T /\ entries[k + 1] \in Patching
    BY <1>1, <1>10, <2>1
  <2> QED
    BY <1>3, <1>10, <2>2 DEF RunsTo
<1> QED
  BY <1>1, <1>4, <1>9, <1>10, <1>11 DEF T, RunsTo

\* What is kept of the first k entries: the last one of each sample.
Kept(unique, entries, k) ==
  /\ unique \in Seq(Entries) /\ Len(unique) > 0 /\ Ascending(unique)
  /\ unique[1].sample = entries[1].sample
  /\ unique[Len(unique)] = entries[k]
  /\ \A j \in 1..k : (j < k => entries[j + 1].sample # entries[j].sample) =>
       \E i \in 1..Len(unique) : unique[i] = entries[j]

InOrder(entries) ==
  \A i, j \in 1..Len(entries) : i <= j => entries[i].sample <= entries[j].sample

\* KeptGoesOn: one more entry replaces the last of its sample, or is added.
LEMMA KeptGoesOn ==
  ASSUME NEW entries \in Seq(Entries), InOrder(entries), NEW k \in 1..(Len(entries) - 1),
         NEW u, Kept(u, entries, k)
  PROVE  Kept(KeepLast(u, entries[k + 1]), entries, k + 1)
<1> DEFINE e == entries[k + 1]
           v == KeepLast(u, e)
           n == Len(u)
<1>1. /\ Len(entries) \in Nat /\ k \in Nat /\ k \in 1..Len(entries)
      /\ k + 1 \in 1..Len(entries) /\ \A j \in 1..k : j \in 1..Len(entries)
  BY LenProperties
<1>2. \A j \in 1..Len(entries) : entries[j] \in Entries /\ entries[j].sample \in Nat
  <2>1. \A j \in 1..Len(entries) : entries[j] \in Entries
    BY ElementOfSeq
  <2> QED
    BY <2>1 DEF Entries
<1>3. /\ u \in Seq(Entries) /\ n \in Nat /\ n > 0 /\ Ascending(u)
      /\ u[1].sample = entries[1].sample /\ u[n] = entries[k] /\ u # <<>>
  BY LenProperties, EmptySeq DEF Kept
<1>4. \A i \in 1..n : u[i] \in Entries /\ u[i].sample \in Nat
  <2>1. \A i \in 1..n : u[i] \in Entries
    BY <1>3, ElementOfSeq
  <2> QED
    BY <2>1 DEF Entries
<1>5. e \in Entries /\ e.sample \in Nat /\ entries[k].sample <= e.sample
  BY <1>1, <1>2 DEF InOrder
<1>6. \A j \in 1..k : (j < k => entries[j + 1].sample # entries[j].sample) =>
        \E i \in 1..n : u[i] = entries[j]
  BY DEF Kept
<1> HIDE DEF v, e
<1>7. CASE u[n].sample = e.sample
  <2>1. /\ v \in Seq(Entries) /\ Len(v) = n /\ v[n] = e
        /\ \A i \in 1..(n - 1) : v[i] = u[i]
    BY <1>3, <1>5, <1>7, KeepLastReplaces DEF v
  <2>2. \A i \in 1..n : v[i].sample = u[i].sample
    BY <1>3, <1>7, <2>1
  <2>3. Ascending(v)
    BY <1>3, <2>1, <2>2 DEF Ascending
  <2>4. ASSUME NEW j \in 1..k + 1, j < k + 1 => entries[j + 1].sample # entries[j].sample
        PROVE  \E i \in 1..n : v[i] = entries[j]
    <3>1. CASE j = k + 1
      BY <1>3, <2>1, <3>1 DEF e
    <3>2. CASE j # k + 1
      <4>1. j \in 1..k /\ j + 1 \in 1..k + 1 /\ entries[j + 1].sample # entries[j].sample
        BY <1>1, <2>4, <3>2
      <4>2. j # k
        BY <1>3, <1>7, <4>1 DEF e
      <4>3. PICK i \in 1..n : u[i] = entries[j]
        BY <1>6, <4>1
      <4>4. /\ entries[j].sample <= entries[j + 1].sample
            /\ entries[j + 1].sample <= entries[k].sample
            /\ entries[j].sample \in Nat /\ entries[j + 1].sample \in Nat
            /\ entries[k].sample \in Nat
        <5>1. j \in 1..Len(entries) /\ j + 1 \in 1..Len(entries) /\ j + 1 <= k
          BY <1>1, <4>1, <4>2
        <5> QED
          BY <1>1, <1>2, <5>1 DEF InOrder
      <4>5. i # n
        BY <1>3, <4>1, <4>3, <4>4
      <4>6. i \in 1..(n - 1)
        BY <1>3, <4>5
      <4> QED
        BY <2>1, <4>3, <4>6
    <3> QED
      BY <3>1, <3>2
  <2>5. v[1].sample = entries[1].sample
    BY <1>3, <2>2
  <2> QED
    BY <1>3, <2>1, <2>3, <2>4, <2>5 DEF Kept, v, e
<1>8. CASE u[n].sample # e.sample
  <2>1. /\ v \in Seq(Entries) /\ Len(v) = n + 1 /\ v[n + 1] = e
        /\ \A i \in 1..n : v[i] = u[i]
    BY <1>3, <1>5, <1>8, KeepLastAdds DEF v
  <2>2. \A i \in 1..n : u[i].sample < e.sample
    <3> SUFFICES ASSUME NEW i \in 1..n PROVE u[i].sample < e.sample
      OBVIOUS
    <3>1. u[n].sample < e.sample /\ u[n].sample \in Nat /\ u[i].sample \in Nat
      BY <1>3, <1>4, <1>5, <1>8
    <3>2. i < n => u[i].sample < u[n].sample
      BY <1>3 DEF Ascending
    <3> QED
      BY <1>3, <1>5, <3>1, <3>2
  <2>3. Ascending(v)
    <3> SUFFICES ASSUME NEW i \in 1..n + 1, NEW j \in 1..n + 1, i < j
                 PROVE  v[i].sample < v[j].sample
      BY <1>3, <2>1 DEF Ascending
    <3>1. i \in 1..n
      BY <1>3
    <3>2. CASE j = n + 1
      BY <2>1, <2>2, <3>1, <3>2
    <3>3. CASE j # n + 1
      <4>1. j \in 1..n
        BY <1>3, <3>3
      <4> QED
        BY <1>3, <2>1, <3>1, <4>1 DEF Ascending
    <3> QED
      BY <3>2, <3>3
  <2>4. ASSUME NEW j \in 1..k + 1, j < k + 1 => entries[j + 1].sample # entries[j].sample
        PROVE  \E i \in 1..n + 1 : v[i] = entries[j]
    <3>1. CASE j = k + 1
      BY <1>3, <2>1, <3>1 DEF e
    <3>2. CASE j # k + 1
      <4>1. j \in 1..k /\ entries[j + 1].sample # entries[j].sample
        BY <1>1, <2>4, <3>2
      <4>2. PICK i \in 1..n : u[i] = entries[j]
        BY <1>6, <4>1
      <4>3. i \in 1..n + 1
        BY <1>3
      <4> QED
        BY <2>1, <4>2, <4>3
    <3> QED
      BY <3>1, <3>2
  <2>5. v[1].sample = entries[1].sample
    BY <1>3, <2>1
  <2> QED
    BY <1>3, <2>1, <2>3, <2>4, <2>5 DEF Kept, v, e
<1> QED
  BY <1>7, <1>8

\* KeepsLast: what the fold keeps of a scan.
LEMMA KeepsLast ==
  ASSUME NEW entries \in Seq(Entries), InOrder(entries), Len(entries) > 0
  PROVE  Kept(FoldLeft(KeepLast, <<>>, entries), entries, Len(entries))
<1> DEFINE n == Len(entries)
<1>1. n \in Nat /\ n > 0
  BY LenProperties
<1>2. PICK run \in [0..n -> Seq(Entries)] :
        /\ run[0] = <<>>
        /\ \A k \in 0..(n - 1) : run[k + 1] = KeepLast(run[k], entries[k + 1])
        /\ FoldLeft(KeepLast, <<>>, entries) = run[n]
  BY KeepLastRuns
<1> DEFINE S == {k \in 0..n : k = 0 \/ Kept(run[k], entries, k)}
<1>3. 0 \in S
  BY <1>1
<1>4. ASSUME NEW k \in 0..(n - 1), k \in S PROVE k + 1 \in S
  <2>1. k + 1 \in 0..n /\ run[k + 1] = KeepLast(run[k], entries[k + 1])
    BY <1>1, <1>2
  <2>2. CASE k = 0
    <3> DEFINE e == entries[1]
               u == KeepLast(<<>>, e)
    <3>1. e \in Entries
      BY <1>1, ElementOfSeq
    <3>2. <<>> \in Seq(Entries) /\ Len(<<>>) = 0
      OBVIOUS
    <3>3. u \in Seq(Entries) /\ Len(u) = 1 /\ u[1] = e
      <4> HIDE DEF e
      <4> QED
        BY <3>1, <3>2, KeepLastAdds, SMTT(30)
    <3>4. run[k + 1] = u
      BY <1>2, <2>1, <2>2
    <3> HIDE DEF u
    <3>5. Kept(u, entries, 1)
      BY <3>3 DEF Kept, Ascending
    <3> QED
      BY <2>1, <2>2, <3>4, <3>5
  <2>3. CASE k # 0
    <3>1. k \in 1..(n - 1) /\ Kept(run[k], entries, k)
      BY <1>1, <1>4, <2>3
    <3>2. Kept(KeepLast(run[k], entries[k + 1]), entries, k + 1)
      BY <3>1, KeptGoesOn
    <3> QED
      BY <2>1, <3>2
  <2> QED
    BY <2>2, <2>3
<1> HIDE DEF S, n
<1>5. 0..n \subseteq S
  BY <1>1, <1>3, <1>4, UpTo
<1>6. n \in S
  BY <1>1, <1>5
<1> QED
  BY <1>1, <1>2, <1>6 DEF S, n

\* A timeline of the worker and its snapshots say the same.
WellFormed(t) ==
  /\ t \in Timelines /\ Len(t.payload) = Len(t.snapshots)
  /\ t.snapshots[1].sample = 0 /\ Ascending(t.snapshots)
  /\ t.payload[1] = t.snapshots[1]
  /\ \A i \in 1..Len(t.snapshots) : t.payload[i].sample = t.snapshots[i].sample
  /\ \A i \in 1..(Len(t.snapshots) - 1) :
       t.payload[i + 1].settings
         = ObjectPatch(t.snapshots[i].settings, t.snapshots[i + 1].settings)

\* The settings of the entry i hold at a sample.
InForce(entries, i, sample) ==
  /\ entries[i].sample <= sample
  /\ i < Len(entries) => sample < entries[i + 1].sample

\* What is recorded of the first k entries that were kept.
Records(t, unique, k) ==
  /\ WellFormed(t)
  /\ t.snapshots[Len(t.snapshots)].sample <= unique[k].sample
  /\ t.snapshots[Len(t.snapshots)].settings = unique[k].settings
  /\ \A j \in 1..k : \E i \in 1..Len(t.snapshots) :
       /\ InForce(t.snapshots, i, unique[j].sample)
       /\ t.snapshots[i].settings = unique[j].settings

\* RecordsGoesOn: one more entry is recorded, if it changes anything.
LEMMA RecordsGoesOn ==
  ASSUME NEW unique \in Seq(Entries), Ascending(unique),
         NEW k \in 1..(Len(unique) - 1), NEW t, Records(t, unique, k)
  PROVE  Records(Encode(t, unique[k + 1]), unique, k + 1)
<1> DEFINE e == unique[k + 1]
           next == Encode(t, e)
           q == t.snapshots
           p == t.payload
           n == Len(q)
           patch == ObjectPatch(q[n].settings, e.settings)
<1>1. /\ Len(unique) \in Nat /\ k \in Nat /\ k \in 1..Len(unique)
      /\ k + 1 \in 1..Len(unique) /\ \A j \in 1..k : j \in 1..Len(unique) /\ j < k + 1
  BY LenProperties
<1>2. \A j \in 1..Len(unique) : /\ unique[j] \in Entries /\ unique[j].sample \in Nat
                                /\ unique[j].settings \in Settings
  <2>1. \A j \in 1..Len(unique) : unique[j] \in Entries
    BY ElementOfSeq
  <2> QED
    BY <2>1 DEF Entries
<1>3. e \in Entries /\ e.sample \in Nat /\ e.settings \in Settings
      /\ \A j \in 1..k : unique[j].sample < e.sample /\ unique[j].sample \in Nat
  BY <1>1, <1>2 DEF Ascending
<1>4. /\ t \in Timelines /\ Len(p) = n /\ q[1].sample = 0 /\ Ascending(q) /\ p[1] = q[1]
      /\ \A i \in 1..n : p[i].sample = q[i].sample
      /\ \A i \in 1..(n - 1) : p[i + 1].settings = ObjectPatch(q[i].settings, q[i + 1].settings)
  BY DEF Records, WellFormed
<1>5. q \in Seq(Entries) /\ q # <<>>
  BY <1>4 DEF Timelines
<1>6. n \in Nat /\ n > 0 /\ \A i \in 1..n : q[i] \in Entries
  <2> HIDE DEF q
  <2> QED
    BY <1>5, LenProperties, EmptySeq, ElementOfSeq
<1>7. \A i \in 1..n : q[i].sample \in Nat /\ q[i].settings \in Settings
  BY <1>6 DEF Entries
<1>8. /\ q[n].sample <= unique[k].sample /\ q[n].settings = unique[k].settings
      /\ \A j \in 1..k : \E i \in 1..n : InForce(q, i, unique[j].sample)
                                        /\ q[i].settings = unique[j].settings
  BY DEF Records
<1>9. \A i \in 1..n : q[i].sample < e.sample
  <2> SUFFICES ASSUME NEW i \in 1..n PROVE q[i].sample < e.sample
    OBVIOUS
  <2>1. n \in 1..n /\ k \in 1..k
    BY <1>1, <1>6
  <2>2. q[n].sample < e.sample /\ q[n].sample \in Nat /\ q[i].sample \in Nat
    BY <1>1, <1>2, <1>3, <1>7, <1>8, <2>1, SMTT(30)
  <2>3. i < n => q[i].sample < q[n].sample
    BY <1>4, <2>1 DEF Ascending
  <2> HIDE DEF q, e, n
  <2> QED
    BY <1>3, <1>6, <2>2, <2>3
<1>10. /\ next \in Timelines /\ q[n].settings \in Settings
       /\ IF DOMAIN patch = {} THEN next = t
          ELSE /\ Len(next.snapshots) = n + 1 /\ Len(next.payload) = n + 1
               /\ \A i \in 1..n : next.snapshots[i] = q[i]
               /\ \A i \in 1..n : next.payload[i] = p[i]
               /\ next.snapshots[n + 1] = e
               /\ next.payload[n + 1] = [sample |-> e.sample, settings |-> patch]
  <2> HIDE DEF e
  <2> QED
    BY <1>3, <1>4, EncodeTyped
<1>11. CASE DOMAIN patch = {}
  <2>1. q[n].settings = e.settings
    <3> DEFINE old == q[n].settings
               new == e.settings
    <3>1. old \in Settings /\ new \in Settings /\ DOMAIN ObjectPatch(old, new) = {}
      BY <1>3, <1>10, <1>11
    <3> HIDE DEF old, new
    <3>2. old = new
      BY <3>1, PatchLeads
    <3> QED
      BY <3>2 DEF old, new
  <2>2. next = t
    BY <1>10, <1>11
  <2>3. n \in 1..n /\ InForce(q, n, e.sample)
    <3>1. n \in 1..n
      BY <1>6
    <3>2. q[n].sample <= e.sample
      BY <1>3, <1>7, <1>9, <3>1
    <3> QED
      BY <1>6, <3>1, <3>2 DEF InForce
  <2>4. ASSUME NEW j \in 1..k + 1
        PROVE  \E i \in 1..n : InForce(q, i, unique[j].sample)
                               /\ q[i].settings = unique[j].settings
    <3>1. CASE j = k + 1
      BY <2>1, <2>3, <3>1
    <3>2. CASE j # k + 1
      <4>1. j \in 1..k
        BY <1>1, <3>2
      <4> QED
        BY <1>8, <4>1
    <3> QED
      BY <3>1, <3>2
  <2>5. q[n].sample <= e.sample
    BY <2>3 DEF InForce
  <2>6. WellFormed(t)
    BY DEF Records
  <2> QED
    BY <2>1, <2>2, <2>4, <2>5, <2>6 DEF Records
<1>12. CASE DOMAIN patch # {}
  <2> DEFINE q2 == next.snapshots
             p2 == next.payload
  <2>1. /\ next \in Timelines /\ Len(q2) = n + 1 /\ Len(p2) = n + 1
        /\ \A i \in 1..n : q2[i] = q[i]
        /\ \A i \in 1..n : p2[i] = p[i]
        /\ q2[n + 1] = e /\ p2[n + 1].sample = e.sample /\ p2[n + 1].settings = patch
    BY <1>10, <1>12
  <2> HIDE DEF q, p, e, patch, n, next, q2, p2
  <2>2. Ascending(q2)
    <3> SUFFICES ASSUME NEW i \in 1..n + 1, NEW j \in 1..n + 1, i < j
                 PROVE  q2[i].sample < q2[j].sample
      BY <1>6, <2>1 DEF Ascending
    <3>1. i \in 1..n
      BY <1>6
    <3>2. CASE j = n + 1
      BY <1>9, <2>1, <3>1, <3>2
    <3>3. CASE j # n + 1
      <4>1. j \in 1..n
        BY <1>6, <3>3
      <4> QED
        BY <1>4, <2>1, <3>1, <4>1 DEF Ascending, n
    <3> QED
      BY <3>2, <3>3
  <2>3. 1 \in 1..n /\ q2[1].sample = 0 /\ p2[1] = q2[1]
    BY <1>4, <1>6, <2>1
  <2>4. \A i \in 1..n + 1 : p2[i].sample = q2[i].sample
    <3> SUFFICES ASSUME NEW i \in 1..n + 1 PROVE p2[i].sample = q2[i].sample
      OBVIOUS
    <3>1. i = n + 1 \/ i \in 1..n
      BY <1>6
    <3> QED
      BY <1>4, <2>1, <3>1
  <2>5. \A i \in 1..n : p2[i + 1].settings = ObjectPatch(q2[i].settings, q2[i + 1].settings)
    <3> SUFFICES ASSUME NEW i \in 1..n
                 PROVE  p2[i + 1].settings = ObjectPatch(q2[i].settings, q2[i + 1].settings)
      OBVIOUS
    <3>1. CASE i = n
      BY <2>1, <3>1 DEF patch
    <3>2. CASE i # n
      <4>1. i \in 1..(n - 1) /\ i + 1 \in 1..n
        BY <1>6, <3>2
      <4> QED
        BY <1>4, <2>1, <4>1
    <3> QED
      BY <3>1, <3>2
  <2>6. WellFormed(next)
    <3>1. (n + 1) - 1 = n
      BY <1>6
    <3> QED
      BY <2>1, <2>2, <2>3, <2>4, <2>5, <3>1 DEF WellFormed, q2, p2
  <2>7. ASSUME NEW j \in 1..k + 1
        PROVE  \E i \in 1..n + 1 : InForce(q2, i, unique[j].sample)
                                   /\ q2[i].settings = unique[j].settings
    <3>1. CASE j = k + 1
      <4>1. n + 1 \in 1..n + 1 /\ unique[j] = e
        BY <1>6, <3>1 DEF e
      <4>2. InForce(q2, n + 1, e.sample)
        BY <1>3, <1>6, <2>1 DEF InForce
      <4> QED
        BY <2>1, <4>1, <4>2
    <3>2. CASE j # k + 1
      <4>1. j \in 1..k
        BY <1>1, <3>2
      <4>2. PICK i \in 1..n : InForce(q, i, unique[j].sample) /\ q[i].settings = unique[j].settings
        BY <1>8, <4>1
      <4>3. q2[i] = q[i] /\ i \in 1..n + 1 /\ (i < n => i + 1 \in 1..n)
        BY <1>6, <2>1
      <4>4. InForce(q2, i, unique[j].sample)
        <5>1. CASE i = n
          BY <1>3, <1>6, <2>1, <4>1, <4>2, <4>3, <5>1 DEF InForce
        <5>2. CASE i # n
          <6>1. i < n /\ i + 1 \in 1..n
            BY <1>6, <5>2
          <6> QED
            BY <1>6, <2>1, <4>2, <4>3, <6>1 DEF InForce, n
        <5> QED
          BY <5>1, <5>2
      <4> QED
        BY <4>2, <4>3, <4>4
    <3> QED
      BY <3>1, <3>2
  <2> QED
    BY <1>3, <2>1, <2>6, <2>7 DEF Records, q2, e, next
<1> QED
  BY <1>11, <1>12
\* EntryOf: an entry of a sequence of settings.
LEMMA EntryOf ==
  ASSUME NEW q \in Seq(Entries)
  PROVE  /\ Len(q) \in Nat /\ DOMAIN q = 1..Len(q)
         /\ \A i \in 1..Len(q) : /\ q[i] \in Entries /\ q[i].sample \in Nat
                                 /\ q[i].settings \in Settings
                                 /\ q[i] = [sample |-> q[i].sample,
                                            settings |-> q[i].settings]
<1>1. Len(q) \in Nat /\ DOMAIN q = 1..Len(q)
  BY LenProperties
<1>2. \A i \in 1..Len(q) : q[i] \in Entries
  BY ElementOfSeq
<1>3. \A e \in Entries : /\ e.sample \in Nat /\ e.settings \in Settings
                         /\ e = [sample |-> e.sample, settings |-> e.settings]
  BY DEF Entries
<1> QED
  BY <1>1, <1>2, <1>3

\* FirstRecorded: the timeline begins with the first entry that was kept.
LEMMA FirstRecorded ==
  ASSUME NEW unique \in Seq(Entries), Len(unique) > 0, unique[1].sample = 0,
         NEW first, first = [sample |-> 0, settings |-> unique[1].settings],
         NEW base, base = [payload |-> <<first>>, snapshots |-> <<first>>]
  PROVE  base \in Timelines /\ Records(base, unique, 1)
<1>1. 1 \in 1..Len(unique)
  BY EntryOf
<1>2. unique[1] \in Entries /\ unique[1].settings \in Settings /\ first = unique[1]
  BY <1>1, EntryOf
<1>3. first \in Entries /\ first.sample = 0
  BY <1>2
<1>4. first \in Patching
  <2>1. unique[1].settings \in Patches
    BY <1>2 DEF Settings, Patches
  <2> QED
    BY <2>1 DEF Patching
<1> DEFINE one == <<first>>
<1>5. /\ one \in Seq(Entries) \ {<<>>} /\ one \in Seq(Patching) /\ Len(one) = 1
      /\ one[1] = first
  BY <1>3, <1>4
<1>6. base.payload = one /\ base.snapshots = one /\ base = [payload |-> one, snapshots |-> one]
  OBVIOUS
<1> HIDE DEF one
<1>7. base \in Timelines
  BY <1>5, <1>6 DEF Timelines
<1>8. /\ 1..Len(one) = {1} /\ 1..(Len(one) - 1) = {} /\ 1..1 = {1}
      /\ Len(base.snapshots) = 1 /\ Len(base.payload) = 1
  BY <1>5, <1>6
<1>9. Ascending(one)
  BY <1>8 DEF Ascending
<1>10. WellFormed(base)
  BY <1>3, <1>5, <1>6, <1>7, <1>8, <1>9 DEF WellFormed
<1>11. InForce(one, 1, unique[1].sample)
  BY <1>2, <1>3, <1>5 DEF InForce
<1> QED
  BY <1>2, <1>3, <1>5, <1>6, <1>7, <1>8, <1>10, <1>11 DEF Records

\* TimelineRecords: the timeline of a scan says what the entries say, the
\* last of those that share a sample.
LEMMA TimelineRecords ==
  ASSUME NEW entries \in Seq(Entries), InOrder(entries), Len(entries) > 0,
         entries[1].sample = 0,
         NEW t, t = SettingsTimeline(entries)
  PROVE  /\ WellFormed(t)
         /\ t.snapshots[Len(t.snapshots)].sample <= entries[Len(entries)].sample
         /\ \A j \in 1..Len(entries) :
              (j < Len(entries) => entries[j + 1].sample # entries[j].sample) =>
                \E i \in 1..Len(t.snapshots) :
                  /\ InForce(t.snapshots, i, entries[j].sample)
                  /\ t.snapshots[i].settings = entries[j].settings
<1> DEFINE u == FoldLeft(KeepLast, <<>>, entries)
           n == Len(entries)
           m == Len(u)
           first == [sample |-> 0, settings |-> u[1].settings]
           base == [payload |-> <<first>>, snapshots |-> <<first>>]
<1>1. Kept(u, entries, n)
  BY KeepsLast
<1>2. /\ u \in Seq(Entries) /\ m > 0 /\ Ascending(u) /\ u[1].sample = 0 /\ u[m] = entries[n]
      /\ \A j \in 1..n : (j < n => entries[j + 1].sample # entries[j].sample) =>
           \E i \in 1..m : u[i] = entries[j]
  BY <1>1 DEF Kept
<1>3. t = FoldLeft(Encode, base, Tail(u))
  BY DEF SettingsTimeline
<1> HIDE DEF u, n
<1>4. m \in Nat /\ n \in Nat
  BY <1>2, EntryOf DEF n
<1>5. base \in Timelines /\ Records(base, u, 1)
  BY <1>2, FirstRecorded
<1> HIDE DEF base, first
<1>6. Tail(u) \in Seq(Entries) /\ Len(Tail(u)) = m - 1
      /\ \A k \in 1..(m - 1) : Tail(u)[k] = u[k + 1]
  <2>1. u # <<>>
    BY <1>2
  <2>2. Tail(u) \in Seq(Entries) /\ Len(Tail(u)) = m - 1
        /\ \A k \in 1..Len(Tail(u)) : Tail(u)[k] = u[k + 1]
    BY <1>2, <2>1, HeadTailProperties
  <2> QED
    BY <2>2
<1> DEFINE rest == Tail(u)
<1>7. PICK run \in [0..Len(rest) -> Timelines] :
        /\ run[0] = base
        /\ \A k \in 0..(Len(rest) - 1) : run[k + 1] = Encode(run[k], rest[k + 1])
        /\ FoldLeft(Encode, base, rest) = run[Len(rest)]
  <2> HIDE DEF rest
  <2>1. rest \in Seq(Entries)
    BY <1>6 DEF rest
  <2> QED
    BY <1>5, <2>1, EncodeRuns
<1> HIDE DEF m
<1> DEFINE S == {k \in 0..(m - 1) : Records(run[k], u, k + 1)}
<1>8. 0 \in S
  <2>1. 0 \in 0..(m - 1) /\ 0 + 1 = 1
    BY <1>2, <1>4 DEF m
  <2> QED
    BY <1>5, <1>7, <2>1
<1>9. ASSUME NEW k \in 0..((m - 1) - 1), k \in S PROVE k + 1 \in S
  <2>1. k + 1 \in 0..(m - 1) /\ k + 1 \in 1..(m - 1) /\ k \in 0..(Len(rest) - 1)
    BY <1>4, <1>6 DEF m
  <2>2. run[k + 1] = Encode(run[k], u[(k + 1) + 1])
    BY <1>6, <1>7, <2>1
  <2>3. Records(run[k], u, k + 1)
    BY <1>9
  <2>4. k + 1 \in 1..(Len(u) - 1)
    BY <2>1 DEF m
  <2> DEFINE r == run[k]
             j == k + 1
  <2> HIDE DEF r, j
  <2>5. Records(Encode(r, u[j + 1]), u, j + 1)
    <3>1. j \in 1..(Len(u) - 1) /\ Records(r, u, j)
      BY <2>3, <2>4 DEF r, j
    <3> QED
      BY <1>2, <3>1, RecordsGoesOn
  <2> QED
    BY <2>1, <2>2, <2>5 DEF r, j
<1> HIDE DEF S
<1>10. m - 1 \in Nat
  BY <1>2, <1>4 DEF m
<1>11. 0..(m - 1) \subseteq S
  <2> DEFINE l == m - 1
  <2>1. \A k \in 0..(l - 1) : k \in S => k + 1 \in S
    BY <1>9
  <2>2. l \in Nat
    BY <1>10
  <2> HIDE DEF l
  <2>3. 0..l \subseteq S
    BY <1>8, <2>1, <2>2, UpTo
  <2> QED
    BY <2>3 DEF l
<1>12. Records(t, u, m)
  <2>1. m - 1 \in S
    BY <1>10, <1>11
  <2>2. Records(run[m - 1], u, (m - 1) + 1) /\ (m - 1) + 1 = m
    BY <1>4, <2>1 DEF S
  <2>3. t = run[m - 1]
    BY <1>3, <1>6, <1>7 DEF m
  <2> QED
    BY <2>2, <2>3
<1> DEFINE q == t.snapshots
<1>13. /\ WellFormed(t)
       /\ q[Len(q)].sample <= u[m].sample
       /\ \A j \in 1..m : \E i \in 1..Len(q) :
            /\ InForce(q, i, u[j].sample)
            /\ q[i].settings = u[j].settings
  BY <1>12 DEF Records
<1> HIDE DEF q
<1>14. ASSUME NEW j \in 1..n, j < n => entries[j + 1].sample # entries[j].sample
       PROVE  \E i \in 1..Len(q) : /\ InForce(q, i, entries[j].sample)
                                   /\ q[i].settings = entries[j].settings
  <2>1. PICK i \in 1..m : u[i] = entries[j]
    BY <1>2, <1>14 DEF m
  <2> QED
    BY <1>13, <2>1
<1>15. u[m] = entries[n]
  BY <1>2 DEF m
<1> QED
  BY <1>13, <1>14, <1>15 DEF q, n

\* LookedUp: there is one entry in force at every sample, and the search
\* finds it.
LEMMA LookedUp ==
  ASSUME NEW q \in Seq(Entries), Ascending(q), Len(q) > 0, q[1].sample = 0,
         NEW sample \in Nat
  PROVE  /\ \E i \in 1..Len(q) : InForce(q, i, sample)
         /\ \A i \in 1..Len(q) : InForce(q, i, sample) =>
              /\ Max({k \in DOMAIN q : q[k].sample <= sample}) = i
              /\ q[i].settings \in Settings
              /\ \A k \in 1..Len(q) : q[k].sample <= sample <=> k <= i
<1> DEFINE n == Len(q)
           A == {k \in DOMAIN q : q[k].sample <= sample}
<1>1. n \in Nat /\ DOMAIN q = 1..n /\ 1 \in 1..n
      /\ \A i \in 1..n : q[i].sample \in Nat /\ q[i].settings \in Settings
  <2>1. /\ Len(q) \in Nat /\ DOMAIN q = 1..Len(q)
        /\ \A i \in 1..Len(q) : q[i].sample \in Nat /\ q[i].settings \in Settings
    BY EntryOf
  <2> QED
    BY <2>1
<1>2. \A i, j \in 1..n : i < j => q[i].sample < q[j].sample
  BY DEF Ascending
<1>3. \A k : k \in A <=> k \in 1..n /\ q[k].sample <= sample
  BY <1>1
<1> HIDE DEF A, n
<1>4. \E i \in 1..n : InForce(q, i, sample)
  <2>1. 1 \in A /\ 1 \in 0..n /\ A \subseteq Int
    BY <1>1, <1>3
  <2>2. PICK i \in A : i \in 0..n /\ \A m \in A : m <= n => m <= i
    <3>1. n \in Nat
      BY <1>1
    <3>2. \E k \in A : k \in 0..n
      BY <2>1
    <3>3. \E k \in A : k \in 0..n /\ \A m \in A : m <= n => m <= k
      BY <2>1, <3>1, <3>2, IntervalHasLast
    <3> QED
      BY <3>3
  <2>3. i \in 1..n /\ q[i].sample <= sample
    BY <1>3, <2>2
  <2>4. ASSUME i < n PROVE sample < q[i + 1].sample
    <3>1. i + 1 \in 1..n /\ i + 1 <= n /\ ~(i + 1 <= i)
      BY <1>1, <2>3, <2>4
    <3>2. i + 1 \notin A
      BY <2>2, <3>1
    <3> QED
      BY <1>1, <1>3, <3>1, <3>2
  <2> QED
    BY <2>3, <2>4 DEF InForce, n
<1>5. ASSUME NEW i \in 1..n, InForce(q, i, sample), NEW k \in 1..n
      PROVE  q[k].sample <= sample <=> k <= i
  <2>1. q[i].sample <= sample /\ (i < n => sample < q[i + 1].sample)
    BY <1>5 DEF InForce, n
  <2>2. ASSUME k <= i PROVE q[k].sample <= sample
    <3>1. k = i \/ k < i
      BY <2>2
    <3>2. k < i => q[k].sample < q[i].sample
      BY <1>2
    <3> QED
      BY <1>1, <2>1, <3>1, <3>2
  <2>3. ASSUME ~(k <= i) PROVE ~(q[k].sample <= sample)
    <3>1. i < n /\ i + 1 \in 1..n /\ (k = i + 1 \/ i + 1 < k)
      BY <1>1, <2>3
    <3>2. i + 1 < k => q[i + 1].sample < q[k].sample
      BY <1>2, <3>1
    <3>3. q[i + 1].sample \in Nat /\ q[k].sample \in Nat /\ sample < q[i + 1].sample
      BY <1>1, <2>1, <3>1
    <3> QED
      BY <3>1, <3>2, <3>3
  <2> QED
    BY <2>2, <2>3
<1>6. ASSUME NEW i \in 1..n, InForce(q, i, sample)
      PROVE  Max(A) = i
  <2>1. i \in A /\ \A k \in A : i >= k
    <3>1. \A k \in A : k \in 1..n /\ k <= i
      BY <1>3, <1>5, <1>6
    <3>2. i <= i
      OBVIOUS
    <3>3. i \in A
      BY <1>3, <1>5, <1>6, <3>2
    <3> QED
      BY <3>1, <3>3
  <2>2. \A x \in A : (\A k \in A : x >= k) => x = i
    <3> SUFFICES ASSUME NEW x \in A, \A k \in A : x >= k PROVE x = i
      OBVIOUS
    <3>1. x \in Int /\ i \in Int /\ x >= i /\ i >= x
      BY <1>3, <2>1
    <3> QED
      BY <3>1
  <2> QED
    BY <2>1, <2>2 DEF Max
<1> QED
  BY <1>1, <1>4, <1>5, <1>6 DEF A, n

\* WorkerAgrees: the patches of the worker add up to the settings the client
\* finds, at every sample.
LEMMA WorkerAgrees ==
  ASSUME NEW t, WellFormed(t), NEW sample \in Nat
  PROVE  /\ WorkerSettings(t, sample) = SettingsAtSample(t, sample)
         /\ WorkerSettings(t, sample) \in Settings
         /\ \A i \in 1..Len(t.snapshots) : InForce(t.snapshots, i, sample) =>
              SettingsAtSample(t, sample) = t.snapshots[i].settings
<1> DEFINE q == t.snapshots
           p == t.payload
           n == Len(q)
<1>1. /\ t \in Timelines /\ Len(p) = n /\ q[1].sample = 0 /\ Ascending(q) /\ p[1] = q[1]
      /\ \A i \in 1..n : p[i].sample = q[i].sample
      /\ \A i \in 1..(n - 1) : p[i + 1].settings = ObjectPatch(q[i].settings, q[i + 1].settings)
  BY DEF WellFormed
<1>2. q \in Seq(Entries) /\ q # <<>> /\ p \in Seq(Patching)
  BY <1>1 DEF Timelines
<1>3. SettingsAtSample(t, sample) = q[Max({k \in DOMAIN q : q[k].sample <= sample})].settings
  BY DEF SettingsAtSample
<1>4. WorkerSettings(t, sample)
        = FoldLeft(LAMBDA settings, entry : IF entry.sample > sample THEN settings
                                            ELSE Patched(settings, entry.settings),
                   p[1].settings, Tail(p))
  BY DEF WorkerSettings
<1> HIDE DEF q, p
<1>5. n \in Nat /\ n > 0 /\ 1 \in 1..n /\ DOMAIN q = 1..n
      /\ \A i \in 1..n : q[i].sample \in Nat /\ q[i].settings \in Settings
  <2>1. n # 0
    BY <1>2, EmptySeq
  <2>2. /\ Len(q) \in Nat /\ DOMAIN q = 1..Len(q)
        /\ \A i \in 1..Len(q) : q[i].sample \in Nat /\ q[i].settings \in Settings
    BY <1>2, EntryOf
  <2> QED
    BY <2>1, <2>2
<1>6. PICK i \in 1..n : InForce(q, i, sample)
  BY <1>1, <1>2, <1>5, LookedUp
<1>7. /\ SettingsAtSample(t, sample) = q[i].settings
      /\ \A k \in 1..n : q[k].sample <= sample <=> k <= i
  <2>1. /\ Max({k \in DOMAIN q : q[k].sample <= sample}) = i
        /\ \A k \in 1..n : q[k].sample <= sample <=> k <= i
    BY <1>1, <1>2, <1>5, <1>6, LookedUp
  <2> QED
    BY <1>3, <2>1
<1> DEFINE rest == Tail(p)
           base == p[1].settings
<1>8. rest \in Seq(Patching) /\ Len(rest) = n - 1
      /\ \A k \in 1..(n - 1) : rest[k] = p[k + 1]
  <2>1. p # <<>>
    BY <1>1, <1>5
  <2>2. Tail(p) \in Seq(Patching) /\ Len(Tail(p)) = n - 1
        /\ \A k \in 1..Len(Tail(p)) : Tail(p)[k] = p[k + 1]
    BY <1>1, <1>2, <2>1, HeadTailProperties
  <2> QED
    BY <2>2
<1>9. base = q[1].settings /\ base \in Settings
  BY <1>1, <1>5
<1> HIDE DEF rest, base
<1>10. PICK run \in [0..Len(rest) -> Settings] :
         /\ run[0] = base
         /\ \A k \in 0..(Len(rest) - 1) : run[k + 1] = PatchAt(sample, run[k], rest[k + 1])
         /\ FoldLeft(LAMBDA settings, entry : IF entry.sample > sample THEN settings
                                              ELSE Patched(settings, entry.settings),
                     base, rest) = run[Len(rest)]
  <2>1. sample \in Int
    OBVIOUS
  <2> QED
    BY <1>8, <1>9, <2>1, WorkerRuns
<1> HIDE DEF n
<1> DEFINE at(k) == IF k + 1 <= i THEN k + 1 ELSE i
           S == {k \in 0..(n - 1) : run[k] = q[at(k)].settings}
<1>11. 0 \in S
  <2>1. at(0) = 1 /\ 0 \in 0..(n - 1)
    BY <1>5, <1>6
  <2> HIDE DEF at
  <2> QED
    BY <1>9, <1>10, <2>1
<1>12. ASSUME NEW k \in 0..((n - 1) - 1), k \in S PROVE k + 1 \in S
  <2>1. k + 1 \in 0..(n - 1) /\ k + 1 \in 1..(n - 1) /\ k \in 0..(Len(rest) - 1)
        /\ k + 1 \in 1..n /\ k + 2 \in 1..n /\ (k + 1) + 1 = k + 2
    BY <1>5, <1>8
  <2>2. run[k + 1] = PatchAt(sample, run[k], p[k + 2])
    BY <1>8, <1>10, <2>1
  <2>3. run[k] = q[at(k)].settings
    BY <1>12
  <2>4. /\ p[k + 2].sample = q[k + 2].sample
        /\ p[k + 2].settings = ObjectPatch(q[k + 1].settings, q[k + 2].settings)
    <3>1. p[(k + 1) + 1].settings = ObjectPatch(q[k + 1].settings, q[(k + 1) + 1].settings)
      BY <1>1, <2>1 DEF n
    <3>2. p[k + 2].sample = q[k + 2].sample
      BY <1>1, <2>1 DEF n
    <3> QED
      BY <2>1, <3>1, <3>2
  <2>5. run[k + 1] = q[at(k + 1)].settings
    <3>1. CASE k + 2 <= i
      <4>1. at(k) = k + 1 /\ at(k + 1) = k + 2
        BY <2>1, <3>1
      <4>2. ~(q[k + 2].sample > sample)
        <5>1. q[k + 2].sample <= sample /\ q[k + 2].sample \in Nat
          BY <1>5, <1>7, <2>1, <3>1
        <5> QED
          BY <5>1
      <4> DEFINE old == q[k + 1].settings
                 new == q[k + 2].settings
      <4>3. old \in Settings /\ new \in Settings
        BY <1>5, <2>1
      <4> HIDE DEF at
      <4>4. run[k] = old /\ p[k + 2].settings = ObjectPatch(old, new)
        BY <2>3, <2>4, <4>1
      <4> HIDE DEF old, new
      <4>5. Patched(old, ObjectPatch(old, new)) = new
        BY <4>3, PatchLeads
      <4>6. run[k + 1] = new
        BY <2>2, <2>4, <4>2, <4>4, <4>5 DEF PatchAt
      <4> QED
        BY <4>1, <4>6 DEF new
    <3>2. CASE ~(k + 2 <= i)
      <4>1. at(k) = i /\ at(k + 1) = i
        BY <1>6, <2>1, <3>2
      <4>2. q[k + 2].sample > sample
        <5>1. ~(q[k + 2].sample <= sample) /\ q[k + 2].sample \in Nat
          BY <1>5, <1>7, <2>1, <3>2
        <5> QED
          BY <5>1
      <4> HIDE DEF at
      <4> QED
        BY <2>2, <2>3, <2>4, <4>1, <4>2 DEF PatchAt
    <3> QED
      BY <3>1, <3>2
  <2> HIDE DEF at
  <2> QED
    BY <2>1, <2>5
<1>13. n - 1 \in S
  <2> HIDE DEF S, at
  <2> DEFINE l == n - 1
  <2>1. l \in Nat /\ l \in 0..l
    BY <1>5
  <2>2. \A k \in 0..(l - 1) : k \in S => k + 1 \in S
    BY <1>12
  <2> HIDE DEF l
  <2>3. 0..l \subseteq S
    BY <1>11, <2>1, <2>2, UpTo
  <2>4. l \in S
    BY <2>1, <2>3
  <2> QED
    BY <2>4 DEF l
<1>14. run[n - 1] = q[i].settings
  <2>1. at(n - 1) = i
    BY <1>5, <1>6
  <2>2. run[n - 1] = q[at(n - 1)].settings
    BY <1>13
  <2> HIDE DEF at
  <2> QED
    BY <2>1, <2>2
<1>15. WorkerSettings(t, sample) = q[i].settings
  BY <1>4, <1>8, <1>10, <1>14 DEF rest, base
<1>16. \A j \in 1..n : InForce(q, j, sample) => SettingsAtSample(t, sample) = q[j].settings
  <2> SUFFICES ASSUME NEW j \in 1..n, InForce(q, j, sample)
               PROVE  SettingsAtSample(t, sample) = q[j].settings
    OBVIOUS
  <2>1. Max({k \in DOMAIN q : q[k].sample <= sample}) = j
    BY <1>1, <1>2, <1>5, LookedUp DEF n
  <2> QED
    BY <1>3, <2>1
<1> QED
  BY <1>5, <1>7, <1>15, <1>16 DEF n, q
-----------------------------------------------------------------------------
(* The scene, the channel it holds, and the samples of its frames *)

Scenes == [first : {0}, last : {1}, channel : {1}, strips : Layouts,
           ticks : Rates, curves : Curves, cursor : Int, values : [Fields -> Int]]

\* A source that can be uploaded, whose settings are known at every frame.
Spanned(source) ==
  /\ source \in Sources /\ source.ticks \in Nat \ {0} /\ IsFiniteSet(source.clips)
  /\ source.first <= 0 /\ 1 <= source.last
  /\ \A curves \in Curves : \A name \in DOMAIN curves :
       \A frame \in source.first..source.last : 2 * frame \in DOMAIN curves[name]

\* TimesGrows: a product grows with its factor.
LEMMA TimesGrows ==
  ASSUME NEW a \in Int, NEW b \in Int, a <= b, NEW t \in Nat
  PROVE  a * t <= b * t
<1> DEFINE d == b - a
<1>1. d \in Nat /\ b = a + d
  OBVIOUS
<1> HIDE DEF d
<1>2. d * t \in Nat /\ a * t \in Int
  BY <1>1
<1>3. (a + d) * t = a * t + d * t
  BY <1>1
<1> DEFINE x == a * t
           y == d * t
           z == (a + d) * t
<1>4. x \in Int /\ y \in Nat /\ z = x + y
  BY <1>2, <1>3
<1> HIDE DEF x, y, z
<1>5. x <= z
  BY <1>4
<1> QED
  BY <1>1, <1>5 DEF x, z

\* RoundAwayGrows: rounding keeps the order.
LEMMA RoundAwayGrows ==
  ASSUME NEW a \in Int, NEW b \in Int, a <= b
  PROVE  RoundAway(a) <= RoundAway(b)
<1>1. CASE a >= 0
  <2>1. b >= 0 /\ (a + 1) \div 2 <= (b + 1) \div 2
    BY <1>1
  <2> QED
    BY <1>1, <2>1 DEF RoundAway
<1>2. CASE ~(a >= 0) /\ b >= 0
  <2>1. -((1 - a) \div 2) <= (b + 1) \div 2
    BY <1>2
  <2> QED
    BY <1>2, <2>1 DEF RoundAway
<1>3. CASE ~(b >= 0)
  <2>1. ~(a >= 0) /\ -((1 - a) \div 2) <= -((1 - b) \div 2)
    BY <1>3
  <2> QED
    BY <1>3, <2>1 DEF RoundAway
<1> QED
  BY <1>1, <1>2, <1>3

\* SamplesTyped: a channel has at least one sample.
LEMMA SamplesTyped ==
  ASSUME NEW source \in Sources
  PROVE  Samples(source) \in Nat \ {0}
<1> DEFINE t == (source.last + 1 - source.first) * source.ticks
           r == RoundEven(t)
<1>1. t \in Int
  BY DEF Sources
<1> HIDE DEF t
<1>2. r \in Int
  BY <1>1, HalvesAre
<1> HIDE DEF r
<1>3. Max({1, r}) = IF 1 < r THEN r ELSE 1
  BY <1>2, PairMax
<1>4. Samples(source) = Max({1, r})
  BY DEF Samples, r, t
<1> QED
  BY <1>2, <1>3, <1>4

\* FrameSample: a frame's sample lies in the channel.
LEMMA FrameSample ==
  ASSUME NEW source \in Sources, NEW frame \in Int, NEW delay \in Int
  PROVE  FrameToSample(source, frame, delay) \in 0..Samples(source) - 1
<1> DEFINE t == (frame - source.first) * source.ticks + delay
           r == RoundAway(t)
           h == Samples(source) - 1
<1>1. t \in Int
  BY DEF Sources
<1> HIDE DEF t
<1>2. r \in Int
  BY <1>1, HalvesAre
<1>3. h \in Nat
  BY SamplesTyped
<1> HIDE DEF r, h
<1>4. Within(0, r, h) \in 0..h
  <2>1. Within(0, r, h) = IF (IF 0 < r THEN r ELSE 0) < h THEN IF 0 < r THEN r ELSE 0 ELSE h
    BY <1>2, <1>3, WithinIs
  <2> QED
    BY <1>2, <1>3, <2>1
<1> QED
  BY <1>4 DEF FrameToSample, t, r, h

\* FramesGrow: without a delay the first frame is at the first sample, and a
\* later frame is not before an earlier one.
LEMMA FramesGrow ==
  ASSUME NEW source \in Sources, source.ticks \in Nat,
         NEW a \in Int, NEW b \in Int, a <= b
  PROVE  /\ FrameToSample(source, source.first, 0) = 0
         /\ FrameToSample(source, a, 0) <= FrameToSample(source, b, 0)
<1> DEFINE h == Samples(source) - 1
           at(frame) == (frame - source.first) * source.ticks + 0
<1>1. h \in Nat
  BY SamplesTyped
<1>2. \A frame : FrameToSample(source, frame, 0) = Within(0, RoundAway(at(frame)), h)
  BY DEF FrameToSample
<1>3. source.first \in Int /\ source.ticks \in Nat
  BY DEF Sources
<1> HIDE DEF h
<1>4. \A r \in Int : Within(0, r, h)
        = IF (IF 0 < r THEN r ELSE 0) < h THEN IF 0 < r THEN r ELSE 0 ELSE h
  <2>1. 0 \in Int /\ h \in Int
    BY <1>1
  <2> QED
    BY <2>1, WithinIs
<1>5. FrameToSample(source, source.first, 0) = 0
  <2>1. at(source.first) = 0
    BY <1>3
  <2>2. RoundAway(0) = 0
    BY DEF RoundAway
  <2> HIDE DEF at
  <2>3. Within(0, 0, h) = 0
    BY <1>1, <1>4
  <2> QED
    BY <1>2, <2>1, <2>2, <2>3
<1>6. FrameToSample(source, a, 0) <= FrameToSample(source, b, 0)
  <2> DEFINE c == a - source.first
             d == b - source.first
             x == c * source.ticks
             y == d * source.ticks
  <2>1. c \in Int /\ d \in Int /\ c <= d
    BY <1>3
  <2>2. at(a) = x + 0 /\ at(b) = y + 0
    OBVIOUS
  <2> HIDE DEF c, d
  <2>3. x \in Int /\ y \in Int /\ x <= y
    BY <1>3, <2>1, TimesGrows
  <2> HIDE DEF x, y, at
  <2>4. at(a) = x /\ at(b) = y
    BY <2>2, <2>3
  <2> DEFINE p == RoundAway(x)
             q == RoundAway(y)
  <2>5. p \in Int /\ q \in Int /\ p <= q
    BY <2>3, HalvesAre, RoundAwayGrows
  <2>6. FrameToSample(source, a, 0) = Within(0, p, h)
        /\ FrameToSample(source, b, 0) = Within(0, q, h)
    BY <1>2, <2>4
  <2> HIDE DEF p, q
  <2>7. Within(0, p, h) <= Within(0, q, h)
    BY <1>1, <1>4, <2>5
  <2> QED
    BY <2>6, <2>7
<1> QED
  BY <1>5, <1>6

\* SnapshotTyped: what a scene's channel holds can be uploaded.
LEMMA SnapshotTyped ==
  ASSUME NEW s \in Scenes
  PROVE  Spanned(Snapshot(s))
<1> DEFINE strips == {x \in ChannelStrips(s) : x.stop > x.start}
           starts == {0} \cup {x.start : x \in strips}
           ends == {1} \cup {x.stop - 1 : x \in strips}
           clips == {Clip(x, s.ticks) : x \in strips}
           source == Snapshot(s)
<1>1. /\ s.strips \in Layouts /\ s.ticks \in Rates /\ s.first = 0 /\ s.last = 1
      /\ s.channel = 1
  BY DEF Scenes
<1>2. /\ IsFiniteSet(s.strips) /\ \A x \in s.strips : x \in Strips
      /\ s.ticks \in Nat \ {0}
  BY <1>1, ChannelAssumption
<1>3. strips \subseteq s.strips
  BY DEF ChannelStrips
<1>4. source = [channel |-> 1, ticks |-> s.ticks, clips |-> clips,
                first |-> Min(starts), last |-> Max(ends)]
  BY <1>1 DEF Snapshot
<1> HIDE DEF strips, source
<1>5. IsFiniteSet(strips)
  BY <1>2, <1>3, FS_Subset
<1>6. \A x \in strips : /\ x \in Strips /\ x \in s.strips
                        /\ x.start \in Int /\ x.stop \in Int
  BY <1>2, <1>3 DEF Strips
<1>7. IsFiniteSet({x.start : x \in strips}) /\ IsFiniteSet({x.stop - 1 : x \in strips})
      /\ IsFiniteSet(clips)
  <2> DEFINE f == [x \in strips |-> x.start]
             g == [x \in strips |-> x.stop - 1]
             h == [x \in strips |-> Clip(x, s.ticks)]
  <2>1. /\ f \in Surjection(strips, {x.start : x \in strips})
        /\ g \in Surjection(strips, {x.stop - 1 : x \in strips})
        /\ h \in Surjection(strips, clips)
    BY DEF Surjection
  <2> QED
    BY <1>5, <2>1, FS_Surjection
<1>8. IsFiniteSet(starts) /\ IsFiniteSet(ends)
  BY <1>7, FS_Singleton, FS_Union
<1>9. starts \subseteq Int /\ ends \subseteq Int /\ 0 \in starts /\ 1 \in ends
  BY <1>6
<1>10. clips \in SUBSET Clips
  <2> SUFFICES ASSUME NEW x \in strips PROVE Clip(x, s.ticks) \in Clips
    OBVIOUS
  <2>1. /\ x.start \in Int /\ x.stop \in Int /\ x.volume \in Int /\ x.muted \in BOOLEAN
        /\ x.sound \in DOMAIN Recorded /\ x.origin \in Int /\ x.trim \in Int
        /\ x.offset \in Int
    BY <1>6 DEF Strips
  <2>2. (x.start - x.origin + x.trim) * s.ticks - x.offset \in Int
    BY <1>2, <2>1
  <2> QED
    BY <2>1, <2>2 DEF Clip, Clips
<1> DEFINE first == Min(starts)
           last == Max(ends)
<1>11. first \in starts /\ last \in ends /\ first <= 0 /\ 1 <= last
  BY <1>8, <1>9, FiniteHasMax
<1>12. /\ first \in Int /\ last \in Int
       /\ 2 * first \in ReadAt(s.strips) /\ 2 * last \in ReadAt(s.strips)
  <2>1. first = 0 \/ \E x \in s.strips : first = x.start
    BY <1>6, <1>11
  <2>2. last = 1 \/ \E x \in s.strips : last = x.stop - 1
    BY <1>6, <1>11
  <2> HIDE DEF first, last
  <2>3. 2 * first \in ReadAt(s.strips) /\ 2 * last \in ReadAt(s.strips)
    BY <2>1, <2>2 DEF ReadAt
  <2> QED
    BY <1>9, <1>11, <2>3 DEF first, last
<1> HIDE DEF first, last, starts, ends, clips
<1>13. source \in Sources
  BY <1>2, <1>4, <1>10, <1>12 DEF Sources, first, last
<1>14. ASSUME NEW curves \in Curves, NEW name \in DOMAIN curves, NEW frame \in first..last
       PROVE  2 * frame \in DOMAIN curves[name]
  <2> DEFINE times == DOMAIN curves[name]
             u == 2 * first
             v == 2 * last
  <2>1. ReadAt(s.strips) \subseteq times /\ \A at, until \in times : at..until \subseteq times
    BY <1>1, ChannelAssumption
  <2>2. u \in times /\ v \in times
    BY <1>12, <2>1
  <2>3. 2 * frame \in u..v
    BY <1>12
  <2> HIDE DEF times, u, v
  <2>4. u..v \subseteq times
    BY <2>1, <2>2
  <2> QED
    BY <2>3, <2>4 DEF times
<1>15. /\ source.ticks = s.ticks /\ source.clips = clips /\ source.first = first
       /\ source.last = last
  BY <1>4 DEF first, last
<1> QED
  BY <1>2, <1>7, <1>11, <1>13, <1>14, <1>15 DEF Spanned, source

\* EvaluatedTyped: the settings at a frame are numbers, and depend on what
\* was set by hand only where there is no curve.
LEMMA EvaluatedTyped ==
  ASSUME NEW curves \in Curves, NEW values \in [Fields -> Int], NEW at,
         \A name \in DOMAIN curves : at \in DOMAIN curves[name]
  PROVE  /\ Evaluated(curves, values, at) \in [Fields -> Int]
         /\ \A name \in Fields \ DOMAIN curves :
              Evaluated(curves, values, at)[name] = values[name]
         /\ \A other \in [Fields -> Int] :
              (\A name \in Fields \ DOMAIN curves : other[name] = values[name])
                => Evaluated(curves, other, at) = Evaluated(curves, values, at)
<1>1. \A name \in DOMAIN curves : curves[name][at] \in Int
  BY ChannelAssumption
<1> QED
  BY <1>1 DEF Evaluated
-----------------------------------------------------------------------------
(* The invariant *)

Phases == {"none", "uploading", "preparing", "prepared", "canceling"}

\* A timeline that was told to the worker, or none.
Telling(t) == t = Nothing \/ WellFormed(t)

\* Rows of numbers, the first one at the first sample.
IsRows(rows) ==
  rows = <<>> \/ /\ IsFiniteSet(DOMAIN rows) /\ 0 \in DOMAIN rows
                 /\ DOMAIN rows \subseteq Nat /\ rows \in [DOMAIN rows -> [Channels -> Int]]

IsTrack(t) ==
  /\ t = [phase |-> t.phase, source |-> t.source, start |-> t.start,
          opened |-> t.opened, audio |-> t.audio, wanted |-> t.wanted,
          published |-> t.published, rows |-> t.rows]
  /\ t.phase \in Phases /\ t.source \in Sources
  /\ t.opened \in Seq(Clips) /\ t.audio \in Seq(Int)
  /\ Telling(t.wanted) /\ Telling(t.published) /\ IsRows(t.rows)
  /\ t.phase # "none" => Spanned(t.source) /\ ~Endless(t.source)

\* What was uploaded is the channel so far.
Uploaded(t) ==
  /\ t.start = Len(t.audio)
  /\ t.phase # "none" => t.start <= Samples(t.source)
  /\ t.phase \in {"preparing", "prepared"} => t.start = Samples(t.source)
  /\ \A n \in 1..Len(t.audio) : t.audio[n] = Channel(t.source, n - 1)

\* A file is open from the chunk its clip is first heard in to its last one.
Reading(t, open) ==
  /\ open \subseteq t.source.clips
  /\ t.phase \in {"none", "preparing", "prepared"} => open = {}
  /\ \A i, j \in 1..Len(t.opened) : t.opened[i] = t.opened[j] => i = j
  /\ t.phase = "uploading" =>
       /\ \A clip \in open :
            /\ Audible(clip) /\ Span(t.source, clip).left < Span(t.source, clip).right
            /\ Span(t.source, clip).left < t.start
            /\ t.start < Span(t.source, clip).right
       /\ \A i \in 1..Len(t.opened) :
            t.opened[i] \in open \/ Span(t.source, t.opened[i]).right <= t.start

TrackOK == IsTrack(track) /\ Uploaded(track) /\ Reading(track, files)

SceneOK == scene \in Scenes /\ (pc # "scan" => scene.cursor \in Cursors)

MeshesOK ==
  meshes \in [Meshes -> [there : BOOLEAN, keys : Named \cup {{}},
                         shown : [Channels -> Int], action : {Absent} \cup DOMAIN actions]]

\* The frames of the channel, and those of them that were scanned.
Frames(source) == source.last + 1 - source.first
FrameAt(source, k) == source.first + k - 1

\* The samples at which the frames are seen, and the settings that begin there.
Seen(source, saved, samples, n) ==
  /\ Len(samples) = n
  /\ \A k \in 1..n : samples[k] = FrameToSample(source, FrameAt(source, k),
                                    Intended(saved, FrameAt(source, k))["delay"])

Entered(source, saved, entries, n) ==
  /\ Len(entries) = n
  /\ \A k \in 1..n : entries[k] =
       [sample |-> FrameToSample(source, FrameAt(source, k), 0),
        settings |-> Restrict(Intended(saved, FrameAt(source, k)), Leaves)]

IsScan(s) ==
  /\ s = [purpose |-> s.purpose, frame |-> s.frame, entries |-> s.entries,
          samples |-> s.samples, timeline |-> s.timeline, saved |-> s.saved]
  /\ s.entries \in Seq(Entries) /\ s.samples \in Seq(Int) /\ Telling(s.timeline)
  /\ s.saved.scene \in Scenes /\ s.saved.scene.cursor \in Cursors

Scanning == pc \in {"scan", "scanned", "raised"}

\* A scan goes on while nobody else does.
Alone ==
  /\ track.phase \notin {"none", "canceling"}
  /\ scan.purpose \in {"bake", "render"} /\ bake.phase # "waiting"
  /\ \A m \in Meshes : meshes[m].shown = scan.saved.shown[m]

\* The scene of a scan differs from the one it found in its cursor, and in
\* the values that have curves.
Visited(s, saved) ==
  /\ s = [saved EXCEPT !.cursor = s.cursor, !.values = s.values]
  /\ \A name \in Fields \ DOMAIN saved.curves : s.values[name] = saved.values[name]

\* What a scan has seen so far.
Visiting ==
  LET n == Len(scan.entries) IN
  /\ scan.frame = track.source.first + n /\ n <= Frames(track.source)
  /\ Visited(scene, scan.saved.scene)
  /\ Seen(track.source, scan.saved.scene, scan.samples, n)
  /\ Entered(track.source, scan.saved.scene, scan.entries, n)

ScanOK ==
  /\ IsScan(scan)
  /\ Scanning => Alone
  /\ pc = "scan" => Visiting
  /\ pc = "scanned" => /\ WellFormed(scan.timeline)
                       /\ Seen(track.source, scan.saved.scene, scan.samples,
                               Frames(track.source))

IsBake(b) ==
  /\ b = [phase |-> b.phase, targets |-> b.targets, todo |-> b.todo,
          timeline |-> b.timeline, samples |-> b.samples]
  /\ b.phase \in {"none", "planned", "waiting", "done"} /\ Telling(b.timeline)
  /\ DOMAIN b.targets \subseteq Meshes /\ b.todo \subseteq DOMAIN b.targets
  /\ b.phase \in {"planned", "waiting"} => DOMAIN b.targets # {}

BakeOK ==
  /\ IsBake(bake)
  /\ pc = "write" <=> bake.todo # {}
  /\ pc = "write" => bake.phase = "waiting"
  /\ bake.phase = "planned" <=> Scanning /\ scan.purpose = "bake"
  /\ bake.phase = "waiting" =>
       /\ track.phase \notin {"none", "canceling"}
       /\ Seen(track.source, scan.saved.scene, bake.samples, Frames(track.source))

\* The Actions a bake may still add.
Pending ==
  IF bake.phase \notin {"planned", "waiting"} THEN {}
  ELSE IF pc = "write" THEN bake.todo ELSE DOMAIN bake.targets

ActionsOK ==
  /\ Len(actions) \in Nat /\ DOMAIN actions = 1..Len(actions)
  /\ actions = [k \in 1..Len(actions) |-> actions[k]]
  /\ Len(actions) + Cardinality(Pending) <= MaxActions

\* What was written of a bake stays until another datablock of the bake that
\* shares the Action is written.
WrittenOK ==
  pc = "write" =>
    \A m \in DOMAIN bake.targets \ bake.todo :
      /\ meshes[m].action \in DOMAIN actions
      /\ \/ actions[meshes[m].action] = [owned |-> TRUE, curves |-> m :> Baked(m)]
         \/ \E n \in DOMAIN bake.targets \ bake.todo :
              n # m /\ meshes[n].action = meshes[m].action

ChannelInv ==
  /\ pc \in {"idle", "scan", "scanned", "raised", "write"} /\ used \in 0..MaxUsed
  /\ SceneOK /\ MeshesOK /\ TrackOK /\ ScanOK /\ BakeOK /\ ActionsOK /\ WrittenOK
  /\ TimelineIsAuthored
-----------------------------------------------------------------------------
(* What is shown *)

MeshSet(ids) == [there : BOOLEAN, keys : Named \cup {{}}, shown : [Channels -> Int],
                 action : ids]

\* ShowTyped: what is shown are numbers.
LEMMA ShowTyped ==
  ASSUME NEW ids, NEW ms \in [Meshes -> MeshSet(ids)], NEW weights \in [Channels -> Int]
  PROVE  Show(ms, weights) \in [Meshes -> MeshSet(ids)]
<1> DEFINE mixed(m) == [c \in Channels |-> IF c \in ms[m].keys THEN weights[c]
                                           ELSE ms[m].shown[c]]
<1>1. ASSUME NEW m \in Meshes
      PROVE  [ms[m] EXCEPT !.shown = mixed(m)] \in MeshSet(ids)
  <2>1. ms[m] \in MeshSet(ids)
    OBVIOUS
  <2>2. ms[m].shown \in [Channels -> Int]
    BY <2>1 DEF MeshSet
  <2>3. mixed(m) \in [Channels -> Int]
    BY <2>2
  <2> HIDE DEF mixed
  <2> QED
    BY <2>1, <2>3 DEF MeshSet
<1>2. Show(ms, weights) = [m \in Meshes |-> [ms[m] EXCEPT !.shown = mixed(m)]]
  BY DEF Show
<1> HIDE DEF mixed
<1> QED
  BY <1>1, <1>2

\* LinearTyped: what is read between rows of numbers is a number.
LEMMA LinearTyped ==
  ASSUME NEW rows, IsRows(rows), rows # <<>>, NEW sample \in Nat
  PROVE  SampleLinear(rows, sample) \in [Channels -> Int]
<1> DEFINE D == DOMAIN rows
           before == {t \in DOMAIN rows : t <= sample}
           later == {t \in DOMAIN rows : t > sample}
           lower == Max(before)
           next == Min(later)
<1>1. IsFiniteSet(D) /\ 0 \in D /\ D \subseteq Nat /\ rows \in [D -> [Channels -> Int]]
  BY DEF IsRows
<1>2. before \subseteq D /\ later \subseteq D /\ 0 \in before
  BY <1>1
<1>3. IsFiniteSet(before) /\ IsFiniteSet(later)
  BY <1>1, <1>2, FS_Subset
<1>4. before \subseteq Int /\ later \subseteq Int
  BY <1>1, <1>2
<1>5. lower \in before
  BY <1>2, <1>3, <1>4, FiniteHasMax
<1>6. later # {} => next \in later
  BY <1>3, <1>4, FiniteHasMax
<1>7. SampleLinear(rows, sample) =
        [c \in {"jaw", "brow"} |->
           IF later = {} THEN rows[lower][c] * Hop
           ELSE rows[lower][c] * (next - sample) + rows[next][c] * (sample - lower)]
  BY DEF SampleLinear
<1> HIDE DEF lower, next
<1>8. /\ lower \in Int /\ \A c \in Channels : rows[lower][c] \in Int
      /\ later # {} => next \in Int /\ \A c \in Channels : rows[next][c] \in Int
  <2>1. lower \in D /\ (later # {} => next \in D)
    BY <1>2, <1>5, <1>6
  <2> HIDE DEF D, later, before
  <2>2. \A k \in D : k \in Int /\ rows[k] \in [Channels -> Int]
    BY <1>1
  <2>3. \A k \in D : \A c \in Channels : rows[k][c] \in Int
    BY <2>2
  <2> QED
    BY <2>1, <2>2, <2>3
<1> HIDE DEF before, later, D
<1>9. Hop \in Int
  BY TimelineAssumption
<1>10. ASSUME NEW c \in Channels
       PROVE  (IF later = {} THEN rows[lower][c] * Hop
               ELSE rows[lower][c] * (next - sample) + rows[next][c] * (sample - lower)) \in Int
  <2>1. CASE later = {}
    BY <1>8, <1>9, <2>1
  <2>2. CASE later # {}
    <3> DEFINE a == rows[lower][c]
               b == rows[next][c]
               d == next - sample
               e == sample - lower
    <3>1. a \in Int /\ b \in Int /\ d \in Int /\ e \in Int
      BY <1>8, <2>2
    <3> HIDE DEF a, b, d, e
    <3>2. a * d + b * e \in Int
      BY <3>1
    <3> QED
      BY <2>2, <3>2 DEF a, b, d, e
  <2> QED
    BY <2>1, <2>2
<1> QED
  BY <1>7, <1>10 DEF Channels

\* RenderTyped: rows that were rendered are numbers, and there is a first one.
LEMMA RenderTyped ==
  ASSUME NEW audio \in Seq(Int), Len(audio) > 0, NEW t, WellFormed(t)
  PROVE  IsRows(Render(audio, t)) /\ Render(audio, t) # <<>>
<1> DEFINE D == {n \in 0..Len(audio) - 1 : n % Hop = 0}
           row(k) == [jaw |-> audio[k + 1] * WorkerSettings(t, k).strength,
                      brow |-> WorkerSettings(t, k).emotion]
<1>1. Render(audio, t) = [k \in D |-> row(k)]
  BY DEF Render
<1>2. Len(audio) \in Nat /\ Hop \in Nat /\ Hop > 0
  BY LenProperties, TimelineAssumption
<1>3. 0 \in D
  <2>1. 0 % Hop = 0
    BY <1>2
  <2> QED
    BY <1>2, <2>1
<1>4. D \subseteq 0..Len(audio) - 1
  OBVIOUS
<1>5. D \subseteq Nat /\ IsFiniteSet(D)
  <2>1. IsFiniteSet(0..Len(audio) - 1)
    BY <1>2, FS_Interval
  <2> HIDE DEF D
  <2>2. IsFiniteSet(D)
    BY <1>4, <2>1, FS_Subset
  <2>3. D \subseteq Nat
    BY <1>4
  <2> QED
    BY <2>2, <2>3
<1>6. ASSUME NEW k \in D PROVE row(k) \in [Channels -> Int]
  <2> DEFINE settings == WorkerSettings(t, k)
  <2>1. k \in Nat /\ k + 1 \in 1..Len(audio)
    BY <1>2
  <2>2. settings \in Settings
    BY <2>1, WorkerAgrees
  <2> HIDE DEF settings
  <2>3. settings["strength"] \in Int /\ settings["emotion"] \in Int
    BY <2>2 DEF Settings, Leaves
  <2>4. audio[k + 1] \in Int
    BY <2>1, ElementOfSeq
  <2> DEFINE a == audio[k + 1] * settings["strength"]
             b == settings["emotion"]
  <2>5. a \in Int /\ b \in Int
    BY <2>3, <2>4
  <2>6. row(k) = [jaw |-> a, brow |-> b]
    BY DEF settings
  <2> HIDE DEF a, b, row
  <2>7. [jaw |-> a, brow |-> b] \in [{"jaw", "brow"} -> Int]
    BY <2>5
  <2> QED
    BY <2>6, <2>7 DEF Channels
<1> HIDE DEF D, row
<1>7. /\ DOMAIN Render(audio, t) = D
      /\ Render(audio, t) \in [D -> [Channels -> Int]]
  BY <1>1, <1>6
<1>8. Render(audio, t) # <<>>
  <2>1. DOMAIN <<>> = {}
    OBVIOUS
  <2> QED
    BY <1>3, <1>7, <2>1
<1> QED
  BY <1>3, <1>5, <1>7, <1>8 DEF IsRows

\* ShownTyped: what a track shows are numbers.
LEMMA ShownTyped ==
  ASSUME NEW t, IsTrack(t), NEW s \in Scenes, NEW ids,
         NEW ms \in [Meshes -> MeshSet(ids)]
  PROVE  RequestFrame(t, s, ms) \in [Meshes -> MeshSet(ids)]
<1>1. Neutral \in [Channels -> Int]
  BY DEF Neutral
<1>2. Show(ms, Neutral) \in [Meshes -> MeshSet(ids)]
  BY <1>1, ShowTyped
<1> DEFINE sample == FrameToSample(t.source, Frame(s), s.values["delay"])
           weights == SampleLinear(t.rows, sample)
<1>3. t.rows # <<>> => Show(ms, weights) \in [Meshes -> MeshSet(ids)]
  <2> SUFFICES ASSUME t.rows # <<>> PROVE Show(ms, weights) \in [Meshes -> MeshSet(ids)]
    OBVIOUS
  <2>1. t.source \in Sources /\ IsRows(t.rows)
    BY DEF IsTrack
  <2>2. Frame(s) \in Int
    <3>1. s.cursor \in Int
      BY DEF Scenes
    <3> QED
      BY <3>1 DEF Frame
  <2>3. s.values["delay"] \in Int
    <3>1. s.values \in [Fields -> Int]
      BY DEF Scenes
    <3> QED
      BY <3>1 DEF Fields
  <2>4. sample \in 0..Samples(t.source) - 1
    BY <2>1, <2>2, <2>3, FrameSample
  <2>5. sample \in Nat
    <3>1. Samples(t.source) \in Nat
      BY <2>1, SamplesTyped
    <3> HIDE DEF sample
    <3> QED
      BY <2>4, <3>1
  <2> HIDE DEF sample
  <2>6. weights \in [Channels -> Int]
    BY <2>1, <2>5, LinearTyped
  <2> HIDE DEF weights
  <2> QED
    BY <2>6, ShowTyped
<1>4. ApplyCache(t, s, ms) \in {ms, Show(ms, Neutral), Show(ms, weights)}
      /\ (t.rows = <<>> => ApplyCache(t, s, ms) \in {ms, Show(ms, Neutral)})
  BY DEF ApplyCache
<1>5. RequestFrame(t, s, ms) \in {ms, ApplyCache(t, s, ms)}
  BY DEF RequestFrame
<1> HIDE DEF weights, sample
<1> QED
  BY <1>2, <1>3, <1>4, <1>5
-----------------------------------------------------------------------------
(* The scene *)

\* SceneSet: a scene may be shown at another frame, with other values.
LEMMA SceneSet ==
  ASSUME NEW s \in Scenes, NEW cursor \in Int, NEW values \in [Fields -> Int]
  PROVE  /\ [s EXCEPT !.cursor = cursor, !.values = values] \in Scenes
         /\ [s EXCEPT !.values = values] \in Scenes
         /\ s.cursor \in Int /\ s.values \in [Fields -> Int] /\ s.curves \in Curves
         /\ s.strips \in Layouts /\ s.ticks \in Rates
BY DEF Scenes

\* RestoredIs: what a scan changes of a scene is restored.
LEMMA RestoredIs ==
  ASSUME NEW saved \in Scenes, NEW s, Visited(s, saved)
  PROVE  Restored(s, saved) = saved
<1>1. s = [saved EXCEPT !.cursor = s.cursor, !.values = s.values]
  BY DEF Visited
<1>2. saved = [first |-> saved.first, last |-> saved.last, channel |-> saved.channel,
               strips |-> saved.strips, ticks |-> saved.ticks, curves |-> saved.curves,
               cursor |-> saved.cursor, values |-> saved.values]
  BY DEF Scenes
<1> DEFINE c == s.cursor
           v == s.values
           x == saved.cursor
           y == saved.values
<1>3. s = [saved EXCEPT !.cursor = c, !.values = v]
  BY <1>1
<1>4. Restored(s, saved) = [s EXCEPT !.cursor = x, !.values = y]
  BY DEF Restored
<1> HIDE DEF c, v, x, y
<1>5. s = [first |-> saved.first, last |-> saved.last, channel |-> saved.channel,
           strips |-> saved.strips, ticks |-> saved.ticks, curves |-> saved.curves,
           cursor |-> c, values |-> v]
  BY <1>2, <1>3
<1>6. Restored(s, saved)
        = [first |-> saved.first, last |-> saved.last, channel |-> saved.channel,
           strips |-> saved.strips, ticks |-> saved.ticks, curves |-> saved.curves,
           cursor |-> x, values |-> y]
  BY <1>4, <1>5
<1> QED
  BY <1>2, <1>6 DEF x, y

\* CursorKnown: the settings are known wherever the cursor may be.
LEMMA CursorKnown ==
  ASSUME NEW s \in Scenes, NEW curves \in Curves, NEW at \in Cursors
  PROVE  at \in Int /\ \A name \in DOMAIN curves : at \in DOMAIN curves[name]
<1>1. s.strips \in Layouts
  BY DEF Scenes
<1>2. at \in ReadAt(s.strips)
  BY DEF ReadAt
<1>3. at \in Int
  BY ChannelAssumption
<1>4. \A name \in DOMAIN curves : ReadAt(s.strips) \subseteq DOMAIN curves[name]
  BY <1>1, ChannelAssumption
<1> QED
  BY <1>2, <1>3, <1>4

\* SceneKept: the scene stays one.
LEMMA SceneKept ==
  ASSUME ChannelInv, Next
  PROVE  SceneOK'
<1>1. /\ scene \in Scenes /\ (pc # "scan" => scene.cursor \in Cursors)
      /\ IsTrack(track) /\ IsScan(scan) /\ (pc = "scan" => Alone /\ Visiting)
  BY DEF ChannelInv, SceneOK, TrackOK, ScanOK, Scanning
<1>2. /\ scene.cursor \in Int /\ scene.values \in [Fields -> Int]
      /\ scene.curves \in Curves
  BY <1>1 DEF Scenes
<1>3. CASE ScanFrame
  <2> DEFINE frame == scan.frame
             at == 2 * frame
             values == Evaluated(scene.curves, scene.values, at)
  <2>1. pc = "scan" /\ pc' = pc /\ frame <= track.source.last
        /\ scene' = [scene EXCEPT !.cursor = at, !.values = values]
    BY <1>3 DEF ScanFrame
  <2>2. Spanned(track.source)
    BY <1>1, <2>1 DEF IsTrack, Alone
  <2>3. /\ track.source.first \in Int /\ track.source.last \in Int
        /\ frame = track.source.first + Len(scan.entries)
        /\ Len(scan.entries) \in Nat
    <3>1. track.source \in Sources /\ scan.entries \in Seq(Entries)
      BY <1>1, <2>2 DEF Spanned, IsScan
    <3> QED
      BY <1>1, <2>1, <3>1, EntryOf DEF Visiting, Sources
  <2>4. frame \in track.source.first..track.source.last
    BY <2>1, <2>3
  <2>5. at \in Int /\ \A name \in DOMAIN scene.curves : at \in DOMAIN scene.curves[name]
    BY <1>2, <2>2, <2>3, <2>4 DEF Spanned
  <2> HIDE DEF at, frame
  <2>6. values \in [Fields -> Int]
    BY <1>2, <2>5, EvaluatedTyped
  <2> HIDE DEF values
  <2>7. scene' \in Scenes
    BY <1>1, <2>1, <2>5, <2>6, SceneSet
  <2> QED
    BY <2>1, <2>7 DEF SceneOK
<1>4. CASE ScanEnds \/ ScanRaises
  <2>1. pc = "scan" /\ scene' = Restored(scene, scan.saved.scene)
    BY <1>4 DEF ScanEnds, ScanRaises, ScanStops
  <2>2. scan.saved.scene \in Scenes /\ scan.saved.scene.cursor \in Cursors
        /\ Visited(scene, scan.saved.scene)
    BY <1>1, <2>1 DEF IsScan, Visiting
  <2>3. scene' = scan.saved.scene
    BY <2>1, <2>2, RestoredIs
  <2> QED
    BY <2>2, <2>3 DEF SceneOK
<1>5. CASE EditTimeline
  <2>1. pc = "idle" /\ pc' = pc
    BY <1>5 DEF EditTimeline, User
  <2>2. CASE \E strips \in Layouts : scene' = [scene EXCEPT !.strips = strips]
    <3>1. scene' \in Scenes /\ scene'.cursor = scene.cursor
      BY <1>1, <2>2 DEF Scenes
    <3> QED
      BY <1>1, <2>1, <3>1 DEF SceneOK
  <2>3. CASE \E ticks \in Rates : scene' = [scene EXCEPT !.ticks = ticks]
    <3>1. scene' \in Scenes /\ scene'.cursor = scene.cursor
      BY <1>1, <2>3 DEF Scenes
    <3> QED
      BY <1>1, <2>1, <3>1 DEF SceneOK
  <2> QED
    BY <1>5, <2>2, <2>3 DEF EditTimeline
<1>6. CASE EditValue
  <2>1. pc = "idle" /\ pc' = pc
    BY <1>6 DEF EditValue, User
  <2>2. PICK name \in Fields, value \in Edited : scene' = [scene EXCEPT !.values[name] = value]
    BY <1>6 DEF EditValue
  <2>3. value \in Int
    BY ChannelAssumption
  <2> DEFINE values == [scene.values EXCEPT ![name] = value]
  <2>4. values \in [Fields -> Int]
    BY <1>2, <2>3
  <2>5. scene' = [scene EXCEPT !.values = values]
    BY <1>1, <2>2 DEF Scenes
  <2> HIDE DEF values
  <2>6. scene' \in Scenes /\ scene'.cursor = scene.cursor
    BY <1>1, <2>4, <2>5 DEF Scenes
  <2> QED
    BY <1>1, <2>1, <2>6 DEF SceneOK
<1>7. CASE EditCurves
  <2>1. pc = "idle" /\ pc' = pc
    BY <1>7 DEF EditCurves, User
  <2>2. PICK curves \in Curves :
          scene' = [scene EXCEPT !.curves = curves,
                      !.values = Evaluated(curves, scene.values, scene.cursor)]
    BY <1>7 DEF EditCurves
  <2> DEFINE values == Evaluated(curves, scene.values, scene.cursor)
  <2>3. values \in [Fields -> Int]
    <3>1. \A name \in DOMAIN curves : scene.cursor \in DOMAIN curves[name]
      BY <1>1, <2>1, CursorKnown
    <3> QED
      BY <1>2, <3>1, EvaluatedTyped
  <2> HIDE DEF values
  <2>4. scene' \in Scenes /\ scene'.cursor = scene.cursor
    BY <1>1, <2>2, <2>3 DEF Scenes, values
  <2> QED
    BY <1>1, <2>1, <2>4 DEF SceneOK
<1>8. CASE MoveCursor
  <2>1. pc = "idle" /\ pc' = pc
    BY <1>8 DEF MoveCursor, User
  <2>2. PICK at \in Cursors :
          scene' = [scene EXCEPT !.cursor = at,
                      !.values = Evaluated(scene.curves, scene.values, at)]
    BY <1>8 DEF MoveCursor
  <2> DEFINE values == Evaluated(scene.curves, scene.values, at)
  <2>3. at \in Int /\ values \in [Fields -> Int]
    <3>1. at \in Int /\ \A name \in DOMAIN scene.curves : at \in DOMAIN scene.curves[name]
      BY <1>1, <1>2, CursorKnown
    <3> QED
      BY <1>2, <3>1, EvaluatedTyped
  <2> HIDE DEF values
  <2>4. scene' \in Scenes /\ scene'.cursor = at
    BY <1>1, <2>2, <2>3 DEF Scenes, values
  <2> QED
    BY <2>4 DEF SceneOK
<1>9. CASE \/ StartTrack \/ NextChunk \/ DecodeFails \/ UploadEnds \/ TrackPrepared
           \/ CancelCompleted \/ ScanForRender \/ ScanForBake \/ ScanFailed
           \/ RequestRender \/ StartBake \/ Publish \/ WriteTarget \/ CancelBake
           \/ EditMesh
  <2>1. pc # "scan" /\ scene' = scene
    BY <1>9 DEF StartTrack, NextChunk, DecodeFails, UploadEnds, TrackPrepared,
       CancelCompleted, ScanForRender, ScanForBake, BeginScan, ScanFailed,
       RequestRender, StartBake, Publish, WriteTarget, CancelBake, EditMesh, User,
       Uploading
  <2> QED
    BY <1>1, <2>1 DEF SceneOK
<1> QED
  BY <1>3, <1>4, <1>5, <1>6, <1>7, <1>8, <1>9 DEF Next
-----------------------------------------------------------------------------
(* The audio *)

\* SetToSeqIs: a finite set as a sequence, each of its members once.
LEMMA SetToSeqIs ==
  ASSUME NEW S, NEW T, T \subseteq S, IsFiniteSet(T)
  PROVE  /\ SetToSeq(T) \in Seq(S)
         /\ \A i \in 1..Len(SetToSeq(T)) : SetToSeq(T)[i] \in T
         /\ \A i, j \in 1..Len(SetToSeq(T)) : SetToSeq(T)[i] = SetToSeq(T)[j] => i = j
<1> DEFINE n == Cardinality(T)
           f == SetToSeq(T)
<1>1. n \in Nat
  BY FS_CardinalityType
<1>2. \E g \in [1..n -> T] : IsInjective(g)
  <2>1. ExistsBijection(1..n, T)
    BY FS_CountingElements, FS_NatBijection
  <2>2. PICK g : g \in Bijection(1..n, T)
    BY <2>1 DEF ExistsBijection
  <2>3. g \in [1..n -> T] /\ \A a, b \in 1..n : g[a] = g[b] => a = b
    BY <2>2 DEF Bijection, Injection, IsInjective
  <2> QED
    BY <2>3 DEF IsInjective
<1>3. f \in [1..n -> T] /\ IsInjective(f)
  BY <1>2 DEF SetToSeq
<1> HIDE DEF f, n
<1>4. f \in [1..n -> S] /\ \A i \in 1..n : f[i] \in T
  BY <1>3
<1>5. f \in Seq(S) /\ Len(f) = n
  BY <1>1, <1>4, SeqDef
<1>6. \A i, j \in 1..n : f[i] = f[j] => i = j
  BY <1>3 DEF IsInjective
<1> QED
  BY <1>4, <1>5, <1>6 DEF f

\* SoundingIs: the clips of a chunk begin before its end, and end after its
\* beginning.
LEMMA SoundingIs ==
  ASSUME NEW source \in Sources, NEW start \in Int, NEW count \in Nat \ {0},
         NEW clip \in source.clips
  PROVE  clip \in Sounding(source, start, count) <=>
           /\ Audible(clip)
           /\ Span(source, clip).left < Span(source, clip).right
           /\ Span(source, clip).left < start + count
           /\ start < Span(source, clip).right
<1> DEFINE left == Span(source, clip).left
           right == Span(source, clip).right
           until == start + count
<1>1. left \in Int /\ right \in Int /\ until \in Int
  BY SpanTyped
<1>2. clip \in Sounding(source, start, count) <=>
        Audible(clip) /\ Min({until, right}) > Max({start, left})
  BY DEF Sounding
<1>3. start < until
  OBVIOUS
<1> HIDE DEF left, right, until
<1>4. /\ Min({until, right}) = IF until < right THEN until ELSE right
      /\ Max({start, left}) = IF start < left THEN left ELSE start
  BY <1>1, PairMax
<1> QED
  BY <1>1, <1>2, <1>3, <1>4 DEF left, right, until

\* NoTrackOK: there is no track at first.
LEMMA NoTrackOK ==
  IsTrack(NoTrack) /\ Uploaded(NoTrack) /\ Reading(NoTrack, {})
<1>1. NoSource \in Sources
  BY DEF NoSource, Sources
<1>2. <<>> \in Seq(Clips) /\ <<>> \in Seq(Int) /\ Len(<<>>) = 0
  OBVIOUS
<1>3. 1..0 = {}
  OBVIOUS
<1> QED
  BY <1>1, <1>2, <1>3 DEF NoTrack, IsTrack, Uploaded, Reading, Phases, Telling, IsRows

\* StartedOK: a track that starts has nothing uploaded.
LEMMA StartedOK ==
  ASSUME NEW s \in Scenes
  PROVE  /\ IsTrack(Started(s)) /\ Uploaded(Started(s)) /\ Reading(Started(s), {})
         /\ Started(s).phase \in {"none", "uploading"}
<1>1. CASE Started(s) = NoTrack
  <2>1. NoTrack.phase = "none"
    BY DEF NoTrack
  <2> QED
    BY <1>1, <2>1, NoTrackOK
<1>2. CASE Started(s) # NoTrack
  <2> DEFINE source == Snapshot(s)
             t == Started(s)
  <2>1. ~Endless(source) /\ t = [NoTrack EXCEPT !.phase = "uploading", !.source = source]
    BY <1>2 DEF Started
  <2>2. Spanned(source)
    BY SnapshotTyped
  <2>3. source \in Sources
    BY <2>2 DEF Spanned
  <2> HIDE DEF source, t
  <2>4. t = [phase |-> "uploading", source |-> source, start |-> 0,
             opened |-> <<>>, audio |-> <<>>, wanted |-> Nothing,
             published |-> Nothing, rows |-> <<>>]
    BY <2>1 DEF NoTrack
  <2>5. <<>> \in Seq(Clips) /\ <<>> \in Seq(Int) /\ Len(<<>>) = 0 /\ 1..0 = {}
    OBVIOUS
  <2>6. IsTrack(t)
    <3>1. /\ t.phase = "uploading" /\ t.source = source /\ t.start = 0 /\ t.opened = <<>>
          /\ t.audio = <<>> /\ t.wanted = Nothing /\ t.published = Nothing
          /\ t.rows = <<>>
      BY <2>4
    <3>2. Telling(Nothing) /\ IsRows(<<>>) /\ "uploading" \in Phases
      BY DEF Telling, IsRows, Phases
    <3> QED
      BY <2>1, <2>2, <2>3, <2>4, <2>5, <3>1, <3>2 DEF IsTrack
  <2>7. 0 <= Samples(source)
    <3>1. Samples(source) \in Nat
      BY <2>3, SamplesTyped
    <3> QED
      BY <3>1
  <2>8. Uploaded(t)
    BY <2>4, <2>5, <2>7 DEF Uploaded
  <2>9. Reading(t, {})
    BY <2>4, <2>5 DEF Reading
  <2> QED
    BY <2>4, <2>6, <2>8, <2>9 DEF t
<1> QED
  BY <1>1, <1>2

\* ChunkKeeps: one more chunk is uploaded.
LEMMA ChunkKeeps ==
  ASSUME TrackOK, NextChunk
  PROVE  TrackOK'
<1> DEFINE source == track.source
           start == track.start
           audio == track.audio
           opened == track.opened
           count == Count
           sounding == Sounding(source, start, count)
           new == SetToSeq(sounding \ files)
           chunk == Mixed(source, start, count)
           left(clip) == Span(source, clip).left
           right(clip) == Span(source, clip).right
<1>1. /\ IsTrack(track) /\ Uploaded(track) /\ Reading(track, files)
      /\ track.phase = "uploading" /\ start < Samples(source)
      /\ track' = [track EXCEPT !.start = start + count, !.opened = opened \o new,
                                !.audio = audio \o chunk]
      /\ files' = (files \cup sounding) \ {clip \in sounding : right(clip) <= start + count}
  BY DEF TrackOK, NextChunk, Uploading, Finished
<1>2. /\ Spanned(source) /\ source \in Sources /\ IsFiniteSet(source.clips)
      /\ opened \in Seq(Clips) /\ audio \in Seq(Int) /\ start = Len(audio)
  BY <1>1 DEF IsTrack, Spanned, Uploaded
<1>3. start \in Nat /\ Samples(source) \in Nat
  BY <1>2, SamplesTyped
<1>4. count \in Nat \ {0} /\ start + count <= Samples(source)
  <2> DEFINE room == Samples(source) - start
  <2>1. ChunkSamples \in Nat \ {0} /\ room \in Nat \ {0}
    BY <1>1, <1>3, TimelineAssumption
  <2>2. count = Min({ChunkSamples, room})
    BY DEF Count
  <2> HIDE DEF room, count
  <2>3. count = IF ChunkSamples < room THEN ChunkSamples ELSE room
    BY <2>1, <2>2, PairMax
  <2>4. count \in Nat \ {0} /\ count <= room
    BY <2>1, <2>3
  <2> QED
    BY <1>3, <2>4 DEF room
<1> HIDE DEF count, source, start, audio, opened
<1>5. /\ chunk \in Seq(Int) /\ Len(chunk) = count
      /\ \A n \in 1..count : chunk[n] = Channel(source, start + n - 1)
  BY <1>2, <1>3, <1>4, ChunkIsChannel
<1>6. /\ \A clip \in source.clips : left(clip) \in Int /\ right(clip) \in Int
      /\ source.clips \subseteq Clips
  BY <1>2, SpanTyped DEF Sources
<1>7. \A clip \in source.clips : clip \in sounding <=>
        Audible(clip) /\ left(clip) < right(clip) /\ left(clip) < start + count
          /\ start < right(clip)
  <2> SUFFICES ASSUME NEW clip \in source.clips
               PROVE  clip \in sounding <=>
                        Audible(clip) /\ left(clip) < right(clip)
                          /\ left(clip) < start + count /\ start < right(clip)
    OBVIOUS
  <2>1. start \in Int
    BY <1>3
  <2> QED
    BY <1>2, <1>4, <2>1, SoundingIs
<1>8. sounding \subseteq source.clips
  BY DEF Sounding
<1> HIDE DEF left, right, sounding
<1>9. /\ new \in Seq(Clips)
      /\ \A i \in 1..Len(new) : new[i] \in sounding \ files
      /\ \A i, j \in 1..Len(new) : new[i] = new[j] => i = j
  <2> DEFINE T == sounding \ files
  <2>1. T \subseteq Clips /\ T \subseteq source.clips
    BY <1>6, <1>8
  <2>2. IsFiniteSet(T)
    BY <1>2, <2>1, FS_Subset
  <2> HIDE DEF T
  <2>3. /\ SetToSeq(T) \in Seq(Clips)
        /\ \A i \in 1..Len(SetToSeq(T)) : SetToSeq(T)[i] \in T
        /\ \A i, j \in 1..Len(SetToSeq(T)) : SetToSeq(T)[i] = SetToSeq(T)[j] => i = j
    BY <2>1, <2>2, SetToSeqIs
  <2> QED
    BY <2>3 DEF T
<1> HIDE DEF new, chunk
<1> DEFINE opened2 == opened \o new
           audio2 == audio \o chunk
           start2 == start + count
<1>10. /\ opened2 \in Seq(Clips) /\ Len(opened2) = Len(opened) + Len(new)
       /\ \A i \in 1..Len(opened) + Len(new) :
            opened2[i] = IF i <= Len(opened) THEN opened[i] ELSE new[i - Len(opened)]
  BY <1>2, <1>9, ConcatProperties
<1>11. /\ audio2 \in Seq(Int) /\ Len(audio2) = Len(audio) + Len(chunk)
       /\ \A i \in 1..Len(audio) + Len(chunk) :
            audio2[i] = IF i <= Len(audio) THEN audio[i] ELSE chunk[i - Len(audio)]
  BY <1>2, <1>5, ConcatProperties
<1>12. Len(opened) \in Nat /\ Len(new) \in Nat
  BY <1>2, <1>9, LenProperties
<1>13. track = [phase |-> "uploading", source |-> source, start |-> start,
                opened |-> opened, audio |-> audio, wanted |-> track.wanted,
                published |-> track.published, rows |-> track.rows]
  BY <1>1 DEF IsTrack, source, start, opened, audio
<1>14. track' = [track EXCEPT !.start = start2, !.opened = opened2, !.audio = audio2]
  BY <1>1
<1> HIDE DEF opened2, audio2, start2
<1>15. track' = [phase |-> "uploading", source |-> source, start |-> start2,
                 opened |-> opened2, audio |-> audio2, wanted |-> track.wanted,
                 published |-> track.published, rows |-> track.rows]
  <2> DEFINE w == track.wanted
             p == track.published
             r == track.rows
  <2>1. track = [phase |-> "uploading", source |-> source, start |-> start,
                 opened |-> opened, audio |-> audio, wanted |-> w, published |-> p,
                 rows |-> r]
    BY <1>13
  <2> HIDE DEF w, p, r
  <2>2. track' = [phase |-> "uploading", source |-> source, start |-> start2,
                  opened |-> opened2, audio |-> audio2, wanted |-> w, published |-> p,
                  rows |-> r]
    BY <1>14, <2>1
  <2> QED
    BY <2>2 DEF w, p, r
<1>16. /\ track'.phase = "uploading" /\ track'.source = source /\ track'.start = start2
       /\ track'.opened = opened2 /\ track'.audio = audio2
       /\ track'.wanted = track.wanted /\ track'.published = track.published
       /\ track'.rows = track.rows
  BY <1>15
<1>17. IsTrack(track')
  <2>1. /\ Telling(track.wanted) /\ Telling(track.published) /\ IsRows(track.rows)
        /\ Spanned(source) /\ ~Endless(source)
    BY <1>1 DEF IsTrack, source
  <2>2. "uploading" \in Phases
    BY DEF Phases
  <2> QED
    BY <1>2, <1>10, <1>11, <1>15, <1>16, <2>1, <2>2 DEF IsTrack
<1>18. Uploaded(track')
  <2>1. Len(audio2) = start2 /\ start2 <= Samples(source)
    BY <1>2, <1>4, <1>5, <1>11 DEF start2
  <2>2. ASSUME NEW n \in 1..Len(audio2) PROVE audio2[n] = Channel(source, n - 1)
    <3>1. n \in 1..start + count /\ n \in 1..Len(audio) + Len(chunk)
      BY <1>2, <1>5, <1>11, <2>2
    <3>2. CASE n <= start
      <4>1. n \in 1..Len(audio)
        BY <1>2, <1>3, <3>1, <3>2
      <4>2. audio[n] = Channel(source, n - 1)
        BY <1>1, <4>1 DEF Uploaded, audio, source
      <4> QED
        BY <1>2, <1>11, <3>1, <3>2, <4>2
    <3>3. CASE ~(n <= start)
      <4>1. n - start \in 1..count /\ start + (n - start) - 1 = n - 1
        BY <1>3, <1>4, <3>1, <3>3
      <4>2. chunk[n - start] = Channel(source, start + (n - start) - 1)
        BY <1>5, <4>1
      <4>3. audio2[n] = chunk[n - start]
        BY <1>2, <1>11, <3>1, <3>3
      <4> QED
        BY <4>1, <4>2, <4>3
    <3> QED
      BY <3>2, <3>3
  <2> QED
    BY <1>16, <2>1, <2>2 DEF Uploaded
<1>19. Reading(track', files')
  <2>1. /\ files \subseteq source.clips
        /\ \A i, j \in 1..Len(opened) : opened[i] = opened[j] => i = j
        /\ \A clip \in files : /\ Audible(clip) /\ left(clip) < right(clip)
                               /\ left(clip) < start /\ start < right(clip)
        /\ \A i \in 1..Len(opened) : opened[i] \in files \/ right(opened[i]) <= start
    BY <1>1 DEF Reading, source, start, opened, left, right
  <2>2. files' \subseteq source.clips
    BY <1>1, <1>8, <2>1
  <2>3. files \subseteq sounding
    <3> SUFFICES ASSUME NEW clip \in files PROVE clip \in sounding
      OBVIOUS
    <3>1. clip \in source.clips /\ left(clip) \in Int /\ right(clip) \in Int
      BY <1>6, <2>1
    <3>2. left(clip) < start + count
      BY <1>3, <1>4, <2>1, <3>1
    <3> QED
      BY <1>7, <2>1, <3>1, <3>2
  <2>4. \A clip : clip \in files' <=> clip \in sounding /\ ~(right(clip) <= start + count)
    BY <1>1, <2>3
  <2>5. ASSUME NEW i \in 1..Len(opened2), NEW j \in 1..Len(opened2),
               opened2[i] = opened2[j]
        PROVE  i = j
    <3>1. ASSUME NEW a \in 1..Len(opened), NEW b \in 1..Len(new)
          PROVE  opened[a] # new[b]
      <4>1. new[b] \in sounding /\ new[b] \notin files /\ new[b] \in source.clips
        BY <1>8, <1>9
      <4>2. start < right(new[b]) /\ right(new[b]) \in Int
        BY <1>6, <1>7, <4>1
      <4>3. ~(right(new[b]) <= start)
        BY <1>3, <4>2
      <4> QED
        BY <2>1, <4>1, <4>3
    <3>2. \A k \in 1..Len(opened2) :
            \/ k \in 1..Len(opened) /\ opened2[k] = opened[k]
            \/ k - Len(opened) \in 1..Len(new) /\ opened2[k] = new[k - Len(opened)]
      BY <1>10, <1>12
    <3>3. CASE i \in 1..Len(opened) /\ j \in 1..Len(opened)
      <4>1. opened2[i] = opened[i] /\ opened2[j] = opened[j]
        BY <1>10, <1>12, <3>3
      <4> QED
        BY <2>1, <2>5, <3>3, <4>1
    <3>4. CASE i \notin 1..Len(opened) /\ j \notin 1..Len(opened)
      <4>1. /\ i - Len(opened) \in 1..Len(new) /\ opened2[i] = new[i - Len(opened)]
            /\ j - Len(opened) \in 1..Len(new) /\ opened2[j] = new[j - Len(opened)]
        BY <3>2, <3>4
      <4>2. i - Len(opened) = j - Len(opened)
        BY <1>9, <2>5, <4>1
      <4> QED
        BY <1>10, <1>12, <4>2
    <3> QED
      BY <2>5, <3>1, <3>2, <3>3, <3>4
  <2>6. ASSUME NEW clip \in files'
        PROVE  /\ Audible(clip) /\ left(clip) < right(clip)
               /\ left(clip) < start2 /\ start2 < right(clip)
    <3>1. clip \in sounding /\ ~(right(clip) <= start + count) /\ clip \in source.clips
      BY <1>8, <2>4
    <3>2. right(clip) \in Int /\ start + count \in Int
      BY <1>3, <1>4, <1>6, <3>1
    <3>3. start + count < right(clip)
      BY <3>1, <3>2
    <3> QED
      BY <1>7, <3>1, <3>3 DEF start2
  <2>7. ASSUME NEW i \in 1..Len(opened2)
        PROVE  opened2[i] \in files' \/ right(opened2[i]) <= start2
    <3>1. CASE i \in 1..Len(opened)
      <4>1. opened2[i] = opened[i]
        BY <1>10, <1>12, <3>1
      <4>2. CASE opened[i] \in files
        BY <2>3, <2>4, <4>1, <4>2 DEF start2
      <4>3. CASE right(opened[i]) <= start /\ opened[i] \notin files
        <5>0. opened[i] \in Clips
          BY <1>2, <3>1, ElementOfSeq
        <5>1. right(opened[i]) \in Int
          <6> DEFINE clip == opened[i]
          <6>1. (clip.stop - source.first) * source.ticks \in Int
            BY <1>2, <5>0, SMTT(30) DEF Clips, Sources
          <6>2. right(clip) = RoundEven((clip.stop - source.first) * source.ticks)
            BY DEF right, Span
          <6> HIDE DEF clip
          <6> QED
            BY <6>1, <6>2, HalvesAre DEF clip
        <5> QED
          BY <1>3, <1>4, <4>1, <4>3, <5>1 DEF start2
      <4> QED
        BY <2>1, <3>1, <4>2, <4>3
    <3>2. CASE i \notin 1..Len(opened)
      <4>1. i - Len(opened) \in 1..Len(new) /\ opened2[i] = new[i - Len(opened)]
        BY <1>10, <1>12, <3>2
      <4>2. opened2[i] \in sounding
        BY <1>9, <4>1
      <4> QED
        BY <2>4, <4>2 DEF start2
    <3> QED
      BY <3>1, <3>2
  <2> QED
    BY <1>16, <2>2, <2>5, <2>6, <2>7 DEF Reading, left, right
<1> QED
  BY <1>17, <1>18, <1>19 DEF TrackOK
\* The phase of a track is set, or the render that is wanted, or both.
SetsTrack(next, t, phase, wanted) ==
  \/ next = [t EXCEPT !.phase = phase, !.wanted = wanted]
  \/ next = [t EXCEPT !.phase = phase] /\ wanted = t.wanted
  \/ next = [t EXCEPT !.wanted = wanted] /\ phase = t.phase

\* TrackSet: a track goes on to another phase, or another render is wanted.
LEMMA TrackSet ==
  ASSUME NEW t, IsTrack(t), t.phase # "none", NEW wanted, Telling(wanted),
         NEW phase \in Phases \ {"none"}
  PROVE  \A next : SetsTrack(next, t, phase, wanted) =>
           /\ IsTrack(next) /\ next.phase = phase /\ next.source = t.source
           /\ next.start = t.start /\ next.opened = t.opened /\ next.audio = t.audio
<1> DEFINE source == t.source
           start == t.start
           opened == t.opened
           audio == t.audio
           published == t.published
           rows == t.rows
           old == t.phase
           was == t.wanted
<1>1. /\ t = [phase |-> old, source |-> source, start |-> start, opened |-> opened,
              audio |-> audio, wanted |-> was, published |-> published, rows |-> rows]
      /\ source \in Sources /\ opened \in Seq(Clips) /\ audio \in Seq(Int)
      /\ Telling(published) /\ IsRows(rows) /\ Spanned(source) /\ ~Endless(source)
  BY DEF IsTrack
<1> SUFFICES ASSUME NEW next, SetsTrack(next, t, phase, wanted)
             PROVE  /\ IsTrack(next) /\ next.phase = phase /\ next.source = source
                    /\ next.start = start /\ next.opened = opened
                    /\ next.audio = audio
  OBVIOUS
<1>2. \/ next = [t EXCEPT !.phase = phase, !.wanted = wanted]
      \/ next = [t EXCEPT !.phase = phase] /\ wanted = was
      \/ next = [t EXCEPT !.wanted = wanted] /\ phase = old
  BY DEF SetsTrack
<1> HIDE DEF source, start, opened, audio, published, rows, old, was
<1>3. next = [phase |-> phase, source |-> source, start |-> start, opened |-> opened,
              audio |-> audio, wanted |-> wanted, published |-> published, rows |-> rows]
  <2>1. CASE next = [t EXCEPT !.phase = phase, !.wanted = wanted]
    BY <1>1, <2>1
  <2>2. CASE next = [t EXCEPT !.phase = phase] /\ wanted = was
    BY <1>1, <2>2
  <2>3. CASE next = [t EXCEPT !.wanted = wanted] /\ phase = old
    BY <1>1, <2>3
  <2> QED
    BY <1>2, <2>1, <2>2, <2>3
<1>4. /\ next.phase = phase /\ next.source = source /\ next.start = start
      /\ next.opened = opened /\ next.audio = audio /\ next.wanted = wanted
      /\ next.published = published /\ next.rows = rows
  BY <1>3
<1>5. IsTrack(next)
  BY <1>1, <1>3, <1>4 DEF IsTrack
<1> QED
  BY <1>4, <1>5

\* StaysOK: what was uploaded stays, whatever becomes of the track.
LEMMA StaysOK ==
  ASSUME NEW t, Uploaded(t), t.phase # "none", NEW open, Reading(t, open),
         NEW next, NEW open2 \in {{}, open},
         next.source = t.source, next.start = t.start, next.opened = t.opened,
         next.audio = t.audio,
         \/ next.phase = "canceling"
         \/ next.phase = t.phase /\ open2 = open
         \/ /\ next.phase \in {"preparing", "prepared"} /\ open2 = {}
            /\ t.start = Samples(t.source)
  PROVE  Uploaded(next) /\ Reading(next, open2)
<1>1. Uploaded(next)
  BY DEF Uploaded
<1>2. Reading(next, open2)
  <2>1. next.phase = "canceling" => Reading(next, open2)
    BY DEF Reading
  <2>2. next.phase = t.phase /\ open2 = open => Reading(next, open2)
    BY DEF Reading
  <2>3. next.phase \in {"preparing", "prepared"} /\ open2 = {} => Reading(next, open2)
    BY DEF Reading
  <2> QED
    BY <2>1, <2>2, <2>3
<1> QED
  BY <1>1, <1>2

\* TrackKept: the track stays one, and what it holds is the channel.
LEMMA TrackKept ==
  ASSUME ChannelInv, Next
  PROVE  TrackOK'
<1>1. /\ IsTrack(track) /\ Uploaded(track) /\ Reading(track, files) /\ TrackOK
      /\ IsScan(scan) /\ IsBake(bake) /\ scene \in Scenes
      /\ (pc \in {"scan", "scanned", "raised"} => Alone)
      /\ (pc = "scanned" => WellFormed(scan.timeline))
  BY DEF ChannelInv, SceneOK, TrackOK, ScanOK, BakeOK, Scanning
<1>2. /\ Telling(track.wanted) /\ Telling(scan.timeline) /\ Telling(bake.timeline)
      /\ track.phase \in Phases
  BY <1>1 DEF IsTrack, IsScan, IsBake
<1>3. track.phase = "none" => files = {}
  BY <1>1 DEF Reading
<1>4. scene' \in Scenes
  BY SceneKept DEF SceneOK
<1>5. ASSUME NEW phase \in Phases \ {"none"}, NEW wanted, Telling(wanted),
             track.phase # "none", SetsTrack(track', track, phase, wanted),
             files' \in {{}, files},
             \/ phase = "canceling"
             \/ phase = track.phase /\ files' = files
             \/ /\ phase \in {"preparing", "prepared"} /\ files' = {}
                /\ track.start = Samples(track.source)
      PROVE  TrackOK'
  <2> DEFINE next == track'
             open == files'
  <2>1. /\ IsTrack(next) /\ next.phase = phase /\ next.source = track.source
        /\ next.start = track.start /\ next.opened = track.opened
        /\ next.audio = track.audio
    <3>1. SetsTrack(next, track, phase, wanted)
      BY <1>5
    <3> HIDE DEF next
    <3> QED
      BY <1>1, <1>5, <3>1, TrackSet
  <2>2. /\ open \in {{}, files}
        /\ \/ next.phase = "canceling"
           \/ next.phase = track.phase /\ open = files
           \/ /\ next.phase \in {"preparing", "prepared"} /\ open = {}
              /\ track.start = Samples(track.source)
    BY <1>5, <2>1
  <2> HIDE DEF next, open
  <2>3. Uploaded(next) /\ Reading(next, open)
    BY <1>1, <1>5, <2>1, <2>2, StaysOK
  <2> QED
    BY <2>1, <2>3 DEF TrackOK, next, open
<1>6. ASSUME NEW s \in Scenes, track' = Started(s), files' = {}
      PROVE  TrackOK'
  BY <1>6, StartedOK DEF TrackOK
<1>7. CASE UNCHANGED <<track, files>>
  BY <1>1, <1>7 DEF TrackOK
<1>8. \A phase, wanted :
        /\ track' = [track EXCEPT !.phase = phase, !.wanted = wanted]
             => SetsTrack(track', track, phase, wanted)
        /\ track' = [track EXCEPT !.phase = phase]
             => SetsTrack(track', track, phase, track.wanted)
        /\ track' = [track EXCEPT !.wanted = wanted]
             => SetsTrack(track', track, track.phase, wanted)
  BY DEF SetsTrack
<1>9. CASE StartTrack
  BY <1>1, <1>3, <1>6, <1>9 DEF StartTrack
<1>10. CASE NextChunk
  BY <1>1, <1>10, ChunkKeeps
<1>11. CASE DecodeFails
  <2>1. track.phase = "uploading" /\ files' = {}
        /\ track' = [track EXCEPT !.phase = "canceling"]
    BY <1>11 DEF DecodeFails, Uploading
  <2>2. SetsTrack(track', track, "canceling", track.wanted)
    BY <1>8, <2>1
  <2> QED
    BY <1>2, <1>5, <2>1, <2>2 DEF Phases
<1>12. CASE UploadEnds
  <2> DEFINE phase == IF track.start = Samples(track.source) THEN "preparing"
                      ELSE "canceling"
  <2>1. track.phase = "uploading" /\ files' = {}
        /\ track' = [track EXCEPT !.phase = phase]
    BY <1>12 DEF UploadEnds, Uploading
  <2>2. /\ phase \in Phases \ {"none"}
        /\ \/ phase = "canceling"
           \/ phase = "preparing" /\ track.start = Samples(track.source)
    BY DEF Phases
  <2> HIDE DEF phase
  <2>3. SetsTrack(track', track, phase, track.wanted)
    BY <1>8, <2>1
  <2> QED
    BY <1>2, <1>5, <2>1, <2>2, <2>3
<1>13. CASE TrackPrepared
  <2> DEFINE wanted == IF bake.phase = "waiting" THEN bake.timeline ELSE track.wanted
  <2>1. track.phase = "preparing" /\ files' = files
        /\ track' = [track EXCEPT !.phase = "prepared", !.wanted = wanted]
    BY <1>13 DEF TrackPrepared
  <2>2. Telling(wanted)
    BY <1>2
  <2>3. files = {} /\ track.start = Samples(track.source)
    BY <1>1, <2>1 DEF Reading, Uploaded
  <2> HIDE DEF wanted
  <2>4. SetsTrack(track', track, "prepared", wanted)
    BY <1>8, <2>1
  <2> QED
    BY <1>5, <2>1, <2>2, <2>3, <2>4 DEF Phases
<1>14. CASE CancelCompleted
  <2>1. track' \in {NoTrack, Started(scene)} /\ files' = {}
    BY <1>14 DEF CancelCompleted, CloseSource
  <2> QED
    BY <1>1, <1>6, <2>1, NoTrackOK DEF TrackOK
<1>15. CASE ScanForBake
  <2>1. track' \in {track, Started(scene)} /\ files' = files
        /\ (track' = track \/ track.phase = "none")
    BY <1>15 DEF ScanForBake, BeginScan
  <2> QED
    BY <1>1, <1>3, <1>6, <1>7, <2>1
<1>16. CASE RequestRender
  <2>1. track' = [track EXCEPT !.wanted = scan.timeline] /\ files' = files /\ pc = "scanned"
    BY <1>16 DEF RequestRender
  <2>2. SetsTrack(track', track, track.phase, scan.timeline)
    BY <1>8, <2>1
  <2>3. track.phase # "none"
    BY <1>1, <2>1 DEF Alone
  <2> QED
    BY <1>2, <1>5, <2>1, <2>2, <2>3
<1>17. CASE StartBake
  <2> DEFINE wanted == IF track.published # scan.timeline /\ track.phase = "prepared"
                       THEN scan.timeline ELSE track.wanted
  <2>1. track' = [track EXCEPT !.wanted = wanted] /\ files' = files /\ pc = "scanned"
    BY <1>17 DEF StartBake
  <2>2. Telling(wanted)
    BY <1>2
  <2> HIDE DEF wanted
  <2>3. SetsTrack(track', track, track.phase, wanted)
    BY <1>8, <2>1
  <2>4. track.phase # "none"
    BY <1>1, <2>1 DEF Alone
  <2> QED
    BY <1>2, <1>5, <2>1, <2>2, <2>3, <2>4
<1>18. CASE Publish
  <2> DEFINE rows == Render(track.audio, track.wanted)
             wanted == track.wanted
             source == track.source
             start == track.start
             opened == track.opened
             audio == track.audio
  <2>1. /\ track.phase = "prepared" /\ wanted # Nothing /\ files' = files
        /\ track' = [track EXCEPT !.published = wanted, !.rows = rows]
    BY <1>18 DEF Publish
  <2>2. WellFormed(wanted)
    BY <1>2, <2>1 DEF Telling
  <2>3. audio \in Seq(Int) /\ Len(audio) > 0
    <3>1. /\ Samples(source) \in Nat \ {0} /\ Len(audio) = Samples(source)
          /\ audio \in Seq(Int)
      BY <1>1, <2>1, SamplesTyped DEF IsTrack, Uploaded
    <3> QED
      BY <3>1
  <2> HIDE DEF audio, wanted
  <2>4. IsRows(rows)
    BY <2>2, <2>3, RenderTyped DEF audio, wanted
  <2> DEFINE published == track.published
             old == track.rows
  <2>5. track = [phase |-> "prepared", source |-> source, start |-> start,
                 opened |-> opened, audio |-> audio, wanted |-> wanted,
                 published |-> published, rows |-> old]
    BY <1>1, <2>1 DEF IsTrack, audio, wanted
  <2> HIDE DEF rows, source, start, opened, published, old
  <2>6. track' = [phase |-> "prepared", source |-> source, start |-> start,
                  opened |-> opened, audio |-> audio, wanted |-> wanted,
                  published |-> wanted, rows |-> rows]
    BY <2>1, <2>5
  <2> DEFINE next == track'
  <2>7. /\ next.phase = "prepared" /\ next.source = source /\ next.start = start
        /\ next.opened = opened /\ next.audio = audio /\ next.wanted = wanted
        /\ next.published = wanted /\ next.rows = rows
    BY <2>6
  <2>8. /\ opened \in Seq(Clips) /\ source \in Sources /\ Spanned(source)
        /\ ~Endless(source) /\ Telling(wanted)
    BY <1>1, <2>1 DEF IsTrack, opened, source, wanted
  <2>9. IsTrack(next)
    <3>1. next = [phase |-> next.phase, source |-> next.source, start |-> next.start,
                  opened |-> next.opened, audio |-> next.audio, wanted |-> next.wanted,
                  published |-> next.published, rows |-> next.rows]
      BY <2>6
    <3> HIDE DEF next
    <3>2. "prepared" \in Phases
      BY DEF Phases
    <3> QED
      BY <2>3, <2>4, <2>7, <2>8, <3>1, <3>2 DEF IsTrack
  <2> HIDE DEF next
  <2>10. Uploaded(next) /\ Reading(next, files)
    <3>1. track.source = source /\ track.start = start /\ track.opened = opened
          /\ track.audio = audio
      BY DEF source, start, opened, audio
    <3>2. Uploaded(next)
      BY <1>1, <2>1, <2>7, <3>1 DEF Uploaded
    <3>3. Reading(next, files)
      BY <1>1, <2>1, <2>7, <3>1 DEF Reading
    <3> QED
      BY <3>2, <3>3
  <2> QED
    BY <2>1, <2>9, <2>10 DEF TrackOK, next
<1>19. CASE EditTimeline
  <2>1. files' = files /\ track' = Refreshed(track, scene')
    BY <1>19 DEF EditTimeline
  <2>2. CASE track.phase = "none"
    <3>1. track' = Started(scene')
      BY <2>1, <2>2 DEF Refreshed
    <3> QED
      BY <1>3, <1>4, <1>6, <2>1, <2>2, <3>1
  <2>3. CASE track.phase # "none"
    <3>1. track' \in {track, [track EXCEPT !.phase = "canceling"]}
      BY <2>1, <2>3 DEF Refreshed
    <3>2. CASE track' = [track EXCEPT !.phase = "canceling"]
      <4>1. SetsTrack(track', track, "canceling", track.wanted)
        BY <1>8, <3>2
      <4> QED
        BY <1>2, <1>5, <2>1, <2>3, <4>1 DEF Phases
    <3> QED
      BY <1>7, <2>1, <3>1, <3>2
  <2> QED
    BY <2>2, <2>3
<1>20. CASE \/ ScanForRender \/ ScanFrame \/ ScanEnds \/ ScanRaises \/ ScanFailed
            \/ WriteTarget \/ CancelBake \/ EditValue \/ EditCurves \/ MoveCursor
            \/ EditMesh
  BY <1>7, <1>20 DEF ScanForRender, BeginScan, ScanFrame, ScanEnds, ScanRaises,
     ScanStops, ScanFailed, WriteTarget, CancelBake, EditValue, EditCurves,
     MoveCursor, EditMesh
<1> QED
  BY <1>9, <1>10, <1>11, <1>12, <1>13, <1>14, <1>15, <1>16, <1>17, <1>18, <1>19,
     <1>20 DEF Next
-----------------------------------------------------------------------------
(* The datablocks *)

\* MeshesKept: what is shown are numbers, and the Actions that are used exist.
LEMMA MeshesKept ==
  ASSUME ChannelInv, Next
  PROVE  MeshesOK'
<1> DEFINE ids == {Absent} \cup DOMAIN actions
<1>1. /\ meshes \in [Meshes -> MeshSet(ids)] /\ IsTrack(track) /\ scene \in Scenes
      /\ DOMAIN bake.targets \subseteq Meshes /\ bake.todo \subseteq DOMAIN bake.targets
  BY DEF ChannelInv, MeshesOK, MeshSet, TrackOK, SceneOK, BakeOK, IsBake
<1>2. scene' \in Scenes /\ IsTrack(track')
  BY SceneKept, TrackKept DEF SceneOK, TrackOK
<1>3. ASSUME NEW ms \in [Meshes -> MeshSet(ids)], meshes' = ms, actions' = actions
      PROVE  MeshesOK'
  BY <1>3 DEF MeshesOK, MeshSet
<1>4. ASSUME NEW t, IsTrack(t), NEW s \in Scenes
      PROVE  RequestFrame(t, s, meshes) \in [Meshes -> MeshSet(ids)]
  <2> HIDE DEF ids
  <2> QED
    BY <1>1, <1>4, ShownTyped
<1> HIDE DEF ids
<1>5. CASE UNCHANGED <<meshes, actions>>
  BY <1>1, <1>3, <1>5
<1>6. CASE ScanFrame \/ ScanEnds \/ ScanRaises
  <2>1. /\ pc = "scan" /\ actions' = actions
        /\ meshes' = FrameHandler(track, scene', meshes)
    BY <1>6 DEF ScanFrame, ScanEnds, ScanRaises, ScanStops
  <2>2. meshes' = meshes
    BY <2>1 DEF FrameHandler
  <2> QED
    BY <1>5, <2>1, <2>2
<1>7. CASE MoveCursor
  <2>1. meshes' = FrameHandler(track, scene', meshes) /\ actions' = actions
    BY <1>7 DEF MoveCursor
  <2>2. meshes' \in {meshes, RequestFrame(track, scene', meshes)}
    BY <2>1 DEF FrameHandler
  <2> QED
    BY <1>1, <1>2, <1>3, <1>4, <2>1, <2>2
<1>8. CASE ScanFailed \/ RequestRender
  <2>1. meshes' \in {meshes, RequestFrame(track, scene, meshes)} /\ actions' = actions
    BY <1>8 DEF ScanFailed, RequestRender
  <2> QED
    BY <1>1, <1>3, <1>4, <2>1
<1>9. CASE Publish
  <2>1. meshes' \in {meshes, RequestFrame(track', scene, meshes)} /\ actions' = actions
    BY <1>9 DEF Publish
  <2> QED
    BY <1>1, <1>2, <1>3, <1>4, <2>1
<1>10. CASE WriteTarget
  <2>1. PICK m \in bake.todo : WriteAction(m) \/ WriteFails(m)
    BY <1>10 DEF WriteTarget
  <2>2. CASE WriteFails(m)
    BY <1>5, <2>2 DEF WriteFails
  <2>3. CASE WriteAction(m)
    <3> DEFINE id == IF Reused(m) THEN meshes[m].action ELSE Len(actions) + 1
    <3>1. /\ meshes' = [meshes EXCEPT ![m].action = id]
          /\ DOMAIN actions' = DOMAIN actions \cup {id}
      BY <2>3 DEF WriteAction
    <3>2. m \in Meshes
      BY <1>1
    <3> HIDE DEF id
    <3>3. \A n \in Meshes : meshes[n] \in MeshSet({Absent} \cup DOMAIN actions')
      BY <1>1, <3>1 DEF MeshSet, ids
    <3>4. meshes' \in [Meshes -> MeshSet({Absent} \cup DOMAIN actions')]
      <4> DEFINE more == {Absent} \cup DOMAIN actions'
      <4>1. id \in more /\ \A n \in Meshes : meshes[n] \in MeshSet(more)
        BY <3>1, <3>3
      <4>2. DOMAIN meshes = Meshes /\ meshes = [n \in Meshes |-> meshes[n]]
        BY <1>1
      <4> HIDE DEF more
      <4>3. meshes \in [Meshes -> MeshSet(more)]
        BY <4>1, <4>2
      <4>4. [meshes[m] EXCEPT !.action = id] \in MeshSet(more)
        BY <3>2, <4>1 DEF MeshSet
      <4>5. meshes' \in [Meshes -> MeshSet(more)]
        BY <3>1, <3>2, <4>3, <4>4
      <4> QED
        BY <4>5 DEF more
    <3> QED
      BY <3>4 DEF MeshesOK, MeshSet
  <2> QED
    BY <2>1, <2>2, <2>3
<1>11. CASE EditMesh
  <2>1. PICK m \in Meshes :
          \/ \E id \in ids : meshes' = [meshes EXCEPT ![m].action = id]
          \/ \E keys \in Named : meshes' = [meshes EXCEPT ![m].keys = keys]
          \/ meshes' = [meshes EXCEPT ![m].there = FALSE, ![m].keys = {}]
    BY <1>11 DEF EditMesh, ids
  <2>2. actions' = actions
    BY <1>11 DEF EditMesh
  <2>3. CASE \E id \in ids : meshes' = [meshes EXCEPT ![m].action = id]
    <3>1. PICK id \in ids : meshes' = [meshes EXCEPT ![m].action = id]
      BY <2>3
    <3>2. [meshes[m] EXCEPT !.action = id] \in MeshSet(ids)
      BY <1>1 DEF MeshSet
    <3>3. meshes' \in [Meshes -> MeshSet(ids)]
      BY <1>1, <3>1, <3>2
    <3> QED
      BY <1>3, <2>2, <3>3
  <2>4. CASE \E keys \in Named : meshes' = [meshes EXCEPT ![m].keys = keys]
    <3>1. PICK keys \in Named : meshes' = [meshes EXCEPT ![m].keys = keys]
      BY <2>4
    <3>2. [meshes[m] EXCEPT !.keys = keys] \in MeshSet(ids)
      BY <1>1 DEF MeshSet
    <3>3. meshes' \in [Meshes -> MeshSet(ids)]
      BY <1>1, <3>1, <3>2
    <3> QED
      BY <1>3, <2>2, <3>3
  <2>5. CASE meshes' = [meshes EXCEPT ![m].there = FALSE, ![m].keys = {}]
    <3>1. [[meshes[m] EXCEPT !.there = FALSE] EXCEPT !.keys = {}] \in MeshSet(ids)
      BY <1>1 DEF MeshSet
    <3>2. meshes' \in [Meshes -> MeshSet(ids)]
      BY <1>1, <2>5, <3>1
    <3> QED
      BY <1>3, <2>2, <3>2
  <2> QED
    BY <2>1, <2>3, <2>4, <2>5
<1>12. CASE \/ StartTrack \/ NextChunk \/ DecodeFails \/ UploadEnds \/ TrackPrepared
            \/ CancelCompleted \/ ScanForRender \/ ScanForBake \/ StartBake
            \/ CancelBake \/ EditTimeline \/ EditValue \/ EditCurves
  BY <1>5, <1>12 DEF StartTrack, NextChunk, DecodeFails, UploadEnds, TrackPrepared,
     CancelCompleted, ScanForRender, ScanForBake, BeginScan, StartBake, CancelBake,
     EditTimeline, EditValue, EditCurves
<1> QED
  BY <1>6, <1>7, <1>8, <1>9, <1>10, <1>11, <1>12 DEF Next
-----------------------------------------------------------------------------
(* The scan *)

\* The scene is shown at another half frame.
GoesTo(next, s, cursor, values) ==
  next = [s EXCEPT !.cursor = cursor, !.values = values]

\* VisitedGoes: the scene of a scan is shown at one frame after the other.
LEMMA VisitedGoes ==
  ASSUME NEW saved \in Scenes, NEW s, Visited(s, saved), NEW cursor, NEW values,
         \A name \in Fields \ DOMAIN saved.curves : values[name] = saved.values[name]
  PROVE  /\ s.curves = saved.curves
         /\ \A next : GoesTo(next, s, cursor, values) =>
              Visited(next, saved) /\ next.values = values
<1> DEFINE c == s.cursor
           v == s.values
           f1 == saved.first
           f2 == saved.last
           f3 == saved.channel
           f4 == saved.strips
           f5 == saved.ticks
           f6 == saved.curves
           f7 == saved.cursor
           f8 == saved.values
<1>1. s = [saved EXCEPT !.cursor = c, !.values = v]
  BY DEF Visited
<1>2. saved = [first |-> f1, last |-> f2, channel |-> f3, strips |-> f4, ticks |-> f5,
               curves |-> f6, cursor |-> f7, values |-> f8]
  BY DEF Scenes
<1> HIDE DEF c, v, f1, f2, f3, f4, f5, f6, f7, f8
<1>3. s = [first |-> f1, last |-> f2, channel |-> f3, strips |-> f4, ticks |-> f5,
           curves |-> f6, cursor |-> c, values |-> v]
  BY <1>1, <1>2
<1>4. s.curves = f6
  BY <1>3
<1> SUFFICES ASSUME NEW next, next = [s EXCEPT !.cursor = cursor, !.values = values]
             PROVE  Visited(next, saved) /\ next.values = values
  BY <1>4 DEF f6, GoesTo
<1>5. next = [first |-> f1, last |-> f2, channel |-> f3, strips |-> f4, ticks |-> f5,
              curves |-> f6, cursor |-> cursor, values |-> values]
  BY <1>3
<1>6. next.cursor = cursor /\ next.values = values
  BY <1>5
<1>7. \A x : x = [saved EXCEPT !.cursor = cursor, !.values = values] => x = next
  <2> SUFFICES ASSUME NEW x, x = [saved EXCEPT !.cursor = cursor, !.values = values]
               PROVE  x = next
    OBVIOUS
  <2>1. x = [first |-> f1, last |-> f2, channel |-> f3, strips |-> f4, ticks |-> f5,
             curves |-> f6, cursor |-> cursor, values |-> values]
    BY <1>2
  <2> QED
    BY <1>5, <2>1
<1>8. next = [saved EXCEPT !.cursor = cursor, !.values = values]
  BY <1>7
<1> QED
  BY <1>6, <1>8 DEF Visited, f6

\* VisitedFirst: a scan begins with the scene as it is.
LEMMA VisitedFirst ==
  ASSUME NEW s \in Scenes
  PROVE  Visited(s, s)
<1> DEFINE f1 == s.first
           f2 == s.last
           f3 == s.channel
           f4 == s.strips
           f5 == s.ticks
           f6 == s.curves
           f7 == s.cursor
           f8 == s.values
<1>1. s = [first |-> f1, last |-> f2, channel |-> f3, strips |-> f4, ticks |-> f5,
           curves |-> f6, cursor |-> f7, values |-> f8]
  BY DEF Scenes
<1> HIDE DEF f1, f2, f3, f4, f5, f6, f7, f8
<1>2. \A x : x = [s EXCEPT !.cursor = f7, !.values = f8] => x = s
  <2> SUFFICES ASSUME NEW x, x = [s EXCEPT !.cursor = f7, !.values = f8] PROVE x = s
    OBVIOUS
  <2>1. x = [first |-> f1, last |-> f2, channel |-> f3, strips |-> f4, ticks |-> f5,
             curves |-> f6, cursor |-> f7, values |-> f8]
    BY <1>1
  <2> QED
    BY <1>1, <2>1
<1>3. s = [s EXCEPT !.cursor = f7, !.values = f8]
  BY <1>2
<1> QED
  BY <1>3 DEF Visited, f7, f8

\* Begun: a scan begins.
LEMMA Begun ==
  ASSUME ChannelInv, ScanForRender \/ ScanForBake, IsTrack(track')
  PROVE  ScanOK' /\ TimelineIsAuthored'
<1>1. /\ scene \in Scenes /\ (pc # "scan" => scene.cursor \in Cursors)
  BY DEF ChannelInv, SceneOK
<1>2. \E purpose \in {"bake", "render"} : BeginScan(purpose, track'.source)
  BY DEF ScanForRender, ScanForBake
<1>3. track'.phase \notin {"none", "canceling"} /\ bake'.phase # "waiting"
  BY DEF ScanForRender, ScanForBake, NoBake
<1>4. PICK purpose \in {"bake", "render"} :
        /\ pc = "idle" /\ pc' = "scan" /\ scene' = scene /\ meshes' = meshes
        /\ scan' = [purpose |-> purpose, frame |-> track'.source.first, entries |-> <<>>,
                    samples |-> <<>>, timeline |-> Nothing,
                    saved |-> [scene |-> scene,
                               shown |-> [m \in Meshes |-> meshes[m].shown]]]
  BY <1>2 DEF BeginScan
<1> DEFINE next == scan'
           source == track'.source
           was == scene
           shown == [m \in Meshes |-> meshes[m].shown]
           saved == [scene |-> was, shown |-> shown]
<1>5. source \in Sources /\ source.first <= 0 /\ 1 <= source.last
  BY <1>3 DEF IsTrack, Spanned
<1>6. source.first \in Int /\ source.last \in Int
  BY <1>5 DEF Sources
<1> HIDE DEF source, was, shown
<1>7. saved.scene = was /\ \A m \in Meshes : saved.shown[m] = shown[m]
  OBVIOUS
<1>8. next = [purpose |-> purpose, frame |-> source.first, entries |-> <<>>,
              samples |-> <<>>, timeline |-> Nothing, saved |-> saved]
  BY <1>4 DEF source, was, shown
<1> HIDE DEF next, saved
<1>9. /\ next.purpose = purpose /\ next.frame = source.first /\ next.entries = <<>>
      /\ next.samples = <<>> /\ next.timeline = Nothing /\ next.saved = saved
  BY <1>8
<1>10. IsScan(next)
  <2>1. <<>> \in Seq(Entries) /\ <<>> \in Seq(Int)
    OBVIOUS
  <2>2. next.saved.scene \in Scenes /\ next.saved.scene.cursor \in Cursors
    BY <1>1, <1>4, <1>7, <1>9 DEF was
  <2>3. Telling(Nothing)
    BY DEF Telling
  <2>4. next = [purpose |-> next.purpose, frame |-> next.frame, entries |-> next.entries,
                samples |-> next.samples, timeline |-> next.timeline, saved |-> next.saved]
    BY <1>8
  <2> QED
    BY <1>9, <2>1, <2>2, <2>3, <2>4 DEF IsScan
<1>11. Alone'
  <2>1. \A m \in Meshes : meshes'[m].shown = scan'.saved.shown[m]
    BY <1>4, <1>7, <1>9 DEF shown, next
  <2>2. scan'.purpose \in {"bake", "render"}
    BY <1>9 DEF next
  <2> QED
    BY <1>3, <2>1, <2>2 DEF Alone
<1>12. Visiting'
  <2>1. Visited(scene', scan'.saved.scene)
    <3>1. Visited(was, was)
      BY <1>1, VisitedFirst DEF was
    <3> QED
      BY <1>4, <1>7, <1>9, <3>1 DEF was, next
  <2>2. Len(<<>>) = 0 /\ 1..0 = {}
    OBVIOUS
  <2>3. /\ Len(scan'.entries) = 0 /\ Len(scan'.samples) = 0
        /\ scan'.frame = track'.source.first + 0
    BY <1>6, <1>9, <2>2 DEF next, source
  <2>4. /\ Seen(track'.source, scan'.saved.scene, scan'.samples, 0)
        /\ Entered(track'.source, scan'.saved.scene, scan'.entries, 0)
    BY <2>2, <2>3 DEF Seen, Entered
  <2>5. 0 <= Frames(track'.source)
    <3>1. 0 <= source.last + 1 - source.first
      BY <1>5, <1>6
    <3> QED
      BY <3>1 DEF Frames, source
  <2> QED
    BY <2>1, <2>3, <2>4, <2>5 DEF Visiting
<1> QED
  BY <1>4, <1>10, <1>11, <1>12 DEF ScanOK, Scanning, TimelineIsAuthored, next

\* IntendedTyped: the settings the user meant are numbers.
LEMMA IntendedTyped ==
  ASSUME NEW saved \in Scenes, NEW frame \in Int,
         \A name \in DOMAIN saved.curves : 2 * frame \in DOMAIN saved.curves[name]
  PROVE  Intended(saved, frame) \in [Fields -> Int]
<1>1. saved.values \in [Fields -> Int] /\ saved.curves \in Curves
  BY DEF Scenes
<1> DEFINE at == 2 * frame
<1>2. \A name \in DOMAIN saved.curves : at \in DOMAIN saved.curves[name]
  OBVIOUS
<1>3. Intended(saved, frame) \in {saved.values, Evaluated(saved.curves, saved.values, at)}
  BY DEF Intended
<1> HIDE DEF at
<1>4. Evaluated(saved.curves, saved.values, at) \in [Fields -> Int]
  BY <1>1, <1>2, EvaluatedTyped
<1> QED
  BY <1>1, <1>3, <1>4

\* Added: an entry is added to a sequence.
LEMMA Added ==
  ASSUME NEW S, NEW q \in Seq(S), NEW e \in S
  PROVE  /\ Append(q, e) \in Seq(S) /\ Len(Append(q, e)) = Len(q) + 1 /\ Len(q) \in Nat
         /\ \A i \in 1..Len(q) : Append(q, e)[i] = q[i]
         /\ Append(q, e)[Len(q) + 1] = e
BY AppendProperties, LenProperties

\* Visits: a scan goes on to its next frame.
LEMMA Visits ==
  ASSUME ChannelInv, ScanFrame
  PROVE  ScanOK' /\ TimelineIsAuthored'
<1> DEFINE source == track.source
           saved == scan.saved.scene
           n == Len(scan.entries)
           frame == scan.frame
           at == 2 * frame
           shown == Evaluated(scene.curves, scene.values, at)
           values == Authored(saved, frame, scene'.values)
           entry == [sample |-> FrameToSample(source, frame, 0),
                     settings |-> Restrict(values, Leaves)]
           sample == FrameToSample(source, frame, values["delay"])
<1>1. /\ pc = "scan" /\ pc' = "scan" /\ track' = track /\ bake' = bake
      /\ frame <= source.last
      /\ scene' = [scene EXCEPT !.cursor = at, !.values = shown]
      /\ meshes' = FrameHandler(track, scene', meshes)
      /\ scan' = [scan EXCEPT !.frame = frame + 1, !.entries = Append(scan.entries, entry),
                              !.samples = Append(scan.samples, sample)]
  BY DEF ScanFrame
<1>2. /\ scene \in Scenes /\ IsTrack(track) /\ IsScan(scan) /\ Alone /\ Visiting
  BY <1>1 DEF ChannelInv, SceneOK, TrackOK, ScanOK, Scanning
<1>3. Spanned(source) /\ source \in Sources
  BY <1>2 DEF IsTrack, Alone, Spanned
<1>4. /\ frame = source.first + n /\ n <= Frames(source)
      /\ Visited(scene, saved)
      /\ Seen(source, saved, scan.samples, n) /\ Entered(source, saved, scan.entries, n)
  BY <1>2 DEF Visiting
<1>5. /\ saved \in Scenes /\ scan.entries \in Seq(Entries) /\ scan.samples \in Seq(Int)
      /\ saved.curves \in Curves /\ saved.values \in [Fields -> Int]
      /\ scene.values \in [Fields -> Int]
  BY <1>2 DEF IsScan, Scenes
<1>6. n \in Nat /\ source.first \in Int /\ source.last \in Int
  <2>1. n \in Nat
    BY <1>5, LenProperties
  <2> QED
    BY <1>3, <2>1 DEF Sources
<1>7. /\ frame \in Int /\ frame = FrameAt(source, n + 1) /\ n + 1 <= Frames(source)
      /\ frame \in source.first..source.last
  <2> HIDE DEF source, n, frame
  <2> QED
    BY <1>1, <1>4, <1>6 DEF FrameAt, Frames
<1>8. \A name \in DOMAIN saved.curves : at \in DOMAIN saved.curves[name]
  BY <1>3, <1>5, <1>7 DEF Spanned
<1>9. scene.curves = saved.curves
  <2> DEFINE c == scene.cursor
             v == scene.values
             cs == saved.curves
  <2>1. scene = [saved EXCEPT !.cursor = c, !.values = v]
    BY <1>4 DEF Visited
  <2>2. saved = [first |-> saved.first, last |-> saved.last, channel |-> saved.channel,
                 strips |-> saved.strips, ticks |-> saved.ticks, curves |-> cs,
                 cursor |-> saved.cursor, values |-> saved.values]
    BY <1>5 DEF Scenes
  <2> HIDE DEF c, v, cs
  <2>3. scene.curves = cs
    BY <2>1, <2>2
  <2> QED
    BY <2>3 DEF cs
<1>10. /\ \A name \in Fields \ DOMAIN saved.curves : scene.values[name] = saved.values[name]
  BY <1>4 DEF Visited
<1> HIDE DEF at, saved
<1>11. /\ shown \in [Fields -> Int]
       /\ \A name \in Fields \ DOMAIN saved.curves : shown[name] = saved.values[name]
       /\ shown = Evaluated(saved.curves, saved.values, at)
  <2>1. /\ Evaluated(saved.curves, saved.values, at) \in [Fields -> Int]
        /\ \A name \in Fields \ DOMAIN saved.curves :
             Evaluated(saved.curves, saved.values, at)[name] = saved.values[name]
        /\ \A other \in [Fields -> Int] :
             (\A name \in Fields \ DOMAIN saved.curves : other[name] = saved.values[name])
               => Evaluated(saved.curves, other, at) = Evaluated(saved.curves, saved.values, at)
    <3> DEFINE cs == saved.curves
               vs == saved.values
    <3>1. cs \in Curves /\ vs \in [Fields -> Int]
          /\ \A name \in DOMAIN cs : at \in DOMAIN cs[name]
      BY <1>5, <1>8
    <3> HIDE DEF cs, vs
    <3>2. /\ Evaluated(cs, vs, at) \in [Fields -> Int]
          /\ \A name \in Fields \ DOMAIN cs : Evaluated(cs, vs, at)[name] = vs[name]
          /\ \A other \in [Fields -> Int] :
               (\A name \in Fields \ DOMAIN cs : other[name] = vs[name])
                 => Evaluated(cs, other, at) = Evaluated(cs, vs, at)
      BY <3>1, EvaluatedTyped
    <3> QED
      BY <3>2 DEF cs, vs
  <2> DEFINE other == scene.values
  <2>2. shown = Evaluated(saved.curves, other, at)
    BY <1>9
  <2>3. /\ other \in [Fields -> Int]
        /\ \A name \in Fields \ DOMAIN saved.curves : other[name] = saved.values[name]
    BY <1>5, <1>10
  <2> HIDE DEF other, shown
  <2>4. Evaluated(saved.curves, other, at) = Evaluated(saved.curves, saved.values, at)
    BY <2>1, <2>3
  <2> QED
    BY <2>1, <2>2, <2>4
<1> HIDE DEF shown
<1>12. Visited(scene', saved) /\ scene'.values = shown
  <2> DEFINE next == scene'
             s == scene
  <2>1. GoesTo(next, s, at, shown)
    BY <1>1 DEF GoesTo
  <2>2. Visited(s, saved)
    BY <1>4
  <2> HIDE DEF next, s
  <2>3. Visited(next, saved) /\ next.values = shown
    BY <1>5, <1>11, <2>1, <2>2, VisitedGoes
  <2> QED
    BY <2>3 DEF next
<1>13. values = Intended(saved, frame)
  BY <1>11, <1>12 DEF Authored, Intended, at
<1>14. values \in [Fields -> Int]
  <2>1. \A name \in DOMAIN saved.curves : 2 * frame \in DOMAIN saved.curves[name]
    BY <1>8 DEF at
  <2> HIDE DEF frame, values
  <2> QED
    BY <1>5, <1>7, <1>13, <2>1, IntendedTyped
<1> HIDE DEF values
<1>15. entry \in Entries /\ sample \in Int
  <2>0. values["delay"] \in Int
    BY <1>14 DEF Fields
  <2>1. 0 \in Int
    OBVIOUS
  <2>2. /\ FrameToSample(source, frame, 0) \in 0..Samples(source) - 1
        /\ FrameToSample(source, frame, values["delay"]) \in 0..Samples(source) - 1
    <3> HIDE DEF source, frame
    <3> QED
      BY <1>3, <1>7, <2>0, <2>1, FrameSample DEF source
  <2>3. Samples(source) \in Nat
    BY <1>3, SamplesTyped
  <2>4. FrameToSample(source, frame, 0) \in Nat /\ sample \in Int
    BY <2>2, <2>3
  <2>5. Restrict(values, Leaves) \in Settings
    BY <1>14 DEF Restrict, Leaves, Fields, Settings
  <2> QED
    BY <2>4, <2>5 DEF Entries
<1>16. entry = [sample |-> FrameToSample(source, FrameAt(source, n + 1), 0),
                settings |-> Restrict(Intended(saved, FrameAt(source, n + 1)), Leaves)]
       /\ sample = FrameToSample(source, FrameAt(source, n + 1),
                                 Intended(saved, FrameAt(source, n + 1))["delay"])
  BY <1>7, <1>13
<1> HIDE DEF entry, sample, source, n, frame
<1> DEFINE entries == scan.entries
           samples == scan.samples
           entries2 == Append(entries, entry)
           samples2 == Append(samples, sample)
           next == scan'
<1>17. /\ entries2 \in Seq(Entries) /\ Len(entries2) = n + 1
       /\ \A i \in 1..n : entries2[i] = entries[i]
       /\ entries2[n + 1] = entry
  <2> HIDE DEF entries
  <2> QED
    BY <1>5, <1>15, Added DEF entries, n
<1>18. /\ samples2 \in Seq(Int) /\ Len(samples2) = n + 1
       /\ \A i \in 1..n : samples2[i] = samples[i]
       /\ samples2[n + 1] = sample
  <2>1. Len(samples) = n
    BY <1>4 DEF Seen
  <2> HIDE DEF samples
  <2> QED
    BY <1>5, <1>15, <2>1, Added DEF samples
<1> HIDE DEF entries2, samples2
<1>19. /\ next.purpose = scan.purpose /\ next.frame = frame + 1 /\ next.entries = entries2
       /\ next.samples = samples2 /\ next.timeline = scan.timeline /\ next.saved = scan.saved
       /\ next = [purpose |-> next.purpose, frame |-> next.frame, entries |-> next.entries,
                  samples |-> next.samples, timeline |-> next.timeline, saved |-> next.saved]
  <2> DEFINE p == scan.purpose
             t == scan.timeline
             v == scan.saved
             f == scan.frame
  <2>1. scan = [purpose |-> p, frame |-> f, entries |-> entries, samples |-> samples,
                timeline |-> t, saved |-> v]
    BY <1>2 DEF IsScan
  <2>2. next = [scan EXCEPT !.frame = frame + 1, !.entries = entries2, !.samples = samples2]
    BY <1>1 DEF entries2, samples2
  <2> HIDE DEF p, t, v, f, next, entries, samples
  <2>3. next = [purpose |-> p, frame |-> frame + 1, entries |-> entries2,
                samples |-> samples2, timeline |-> t, saved |-> v]
    BY <2>1, <2>2
  <2>4. /\ next.purpose = p /\ next.frame = frame + 1 /\ next.entries = entries2
        /\ next.samples = samples2 /\ next.timeline = t /\ next.saved = v
    BY <2>3
  <2> QED
    BY <2>3, <2>4 DEF p, t, v
<1>20. IsScan(next)
  <2>1. Telling(scan.timeline) /\ scan.saved.scene \in Scenes
        /\ scan.saved.scene.cursor \in Cursors
    BY <1>2 DEF IsScan
  <2> HIDE DEF next
  <2> QED
    BY <1>17, <1>18, <1>19, <2>1 DEF IsScan
<1>21. Alone'
  <2>1. meshes' = meshes
    BY <1>1 DEF FrameHandler
  <2> QED
    BY <1>1, <1>2, <1>19, <2>1 DEF Alone
<1>22. Visiting'
  <2>1. Seen(source, saved, samples2, n + 1)
    <3> SUFFICES ASSUME NEW k \in 1..n + 1
                 PROVE  samples2[k] = FrameToSample(source, FrameAt(source, k),
                                        Intended(saved, FrameAt(source, k))["delay"])
      BY <1>18 DEF Seen
    <3>1. CASE k = n + 1
      BY <1>16, <1>18, <3>1
    <3>2. CASE k # n + 1
      <4>1. k \in 1..n
        BY <1>6, <3>2
      <4> QED
        BY <1>4, <1>18, <4>1 DEF Seen
    <3> QED
      BY <3>1, <3>2
  <2>2. Entered(source, saved, entries2, n + 1)
    <3> SUFFICES ASSUME NEW k \in 1..n + 1
                 PROVE  entries2[k] =
                          [sample |-> FrameToSample(source, FrameAt(source, k), 0),
                           settings |-> Restrict(Intended(saved, FrameAt(source, k)), Leaves)]
      BY <1>17 DEF Entered
    <3>1. CASE k = n + 1
      BY <1>16, <1>17, <3>1
    <3>2. CASE k # n + 1
      <4>1. k \in 1..n
        BY <1>6, <3>2
      <4> QED
        BY <1>4, <1>17, <4>1 DEF Entered
    <3> QED
      BY <3>1, <3>2
  <2>3. Len(scan'.entries) = n + 1
    BY <1>17, <1>19
  <2>4. scan'.frame = source.first + (n + 1)
    BY <1>4, <1>6, <1>19
  <2>5. /\ track'.source = source /\ scan'.saved.scene = saved /\ scan'.entries = entries2
        /\ scan'.samples = samples2
    BY <1>1, <1>19 DEF source, saved
  <2> QED
    BY <1>7, <1>12, <2>1, <2>2, <2>3, <2>4, <2>5 DEF Visiting
<1> QED
  BY <1>1, <1>20, <1>21, <1>22 DEF ScanOK, Scanning, TimelineIsAuthored, next

\* ScannedIs: the timeline of a scan of all frames says what was meant at
\* each of them, to the worker as to the client.
LEMMA ScannedIs ==
  ASSUME NEW source, Spanned(source), NEW saved, NEW entries \in Seq(Entries),
         Entered(source, saved, entries, Frames(source)),
         NEW t, t = SettingsTimeline(entries)
  PROVE  /\ WellFormed(t)
         /\ \A k \in DOMAIN t.payload :
              /\ t.payload[k].sample < Samples(source)
              /\ k > 1 => t.payload[k - 1].sample < t.payload[k].sample
         /\ \A frame \in source.first..source.last :
              \/ /\ frame < source.last
                 /\ FrameToSample(source, frame + 1, 0) = FrameToSample(source, frame, 0)
              \/ SettingsAtSample(t, FrameToSample(source, frame, 0))
                   = Restrict(Intended(saved, frame), Leaves)
         /\ \A n \in 0..Samples(source) - 1 :
              WorkerSettings(t, n) = SettingsAtSample(t, n)
<1> DEFINE n == Frames(source)
           a == source.first
           at(frame) == FrameToSample(source, frame, 0)
           meant(frame) == Restrict(Intended(saved, frame), Leaves)
           h == Samples(source)
<1>1. source \in Sources /\ source.ticks \in Nat /\ a \in Int /\ source.last \in Int
      /\ a <= 0 /\ 1 <= source.last
  <2>1. source \in Sources /\ source.ticks \in Nat /\ a <= 0 /\ 1 <= source.last
    BY DEF Spanned
  <2> QED
    BY <2>1 DEF Sources
<1>2. n \in Nat /\ n > 0 /\ source.last = a + n - 1
  BY <1>1, SMTT(30) DEF Frames
<1>3. Len(entries) = n /\ \A k \in 1..n : entries[k] = [sample |-> at(a + k - 1),
                                                        settings |-> meant(a + k - 1)]
  BY DEF Entered, FrameAt
<1>4. h \in Nat /\ \A frame \in Int : at(frame) \in 0..h - 1
  <2>1. h \in Nat
    BY <1>1, SamplesTyped
  <2>2. 0 \in Int
    OBVIOUS
  <2> QED
    BY <1>1, <2>1, <2>2, FrameSample
<1>5. at(a) = 0 /\ \A i, j \in Int : i <= j => at(i) <= at(j)
  BY <1>1, FramesGrow
<1> HIDE DEF n, a, at, meant, h
<1>6. \A k \in 1..n : entries[k].sample = at(a + k - 1)
                      /\ entries[k].settings = meant(a + k - 1)
  BY <1>3
<1>7. InOrder(entries)
  <2>1. \A i, j \in 1..n : i <= j => at(a + i - 1) <= at(a + j - 1)
    BY <1>1, <1>2, <1>5
  <2> QED
    BY <1>3, <1>6, <2>1 DEF InOrder
<1>8. entries[1].sample = 0
  <2>1. 1 \in 1..n /\ a + 1 - 1 = a
    BY <1>1, <1>2
  <2> QED
    BY <1>5, <1>6, <2>1
<1>9. entries[n].sample < h
  <2>1. n \in 1..n /\ a + n - 1 \in Int
    BY <1>1, <1>2
  <2>2. at(a + n - 1) < h
    BY <1>4, <2>1, SMTT(30)
  <2> QED
    BY <1>6, <2>1, <2>2
<1> DEFINE q == t.snapshots
           p == t.payload
           m == Len(q)
<1>10. /\ WellFormed(t)
       /\ q[m].sample <= entries[n].sample
       /\ \A j \in 1..n : (j < n => entries[j + 1].sample # entries[j].sample) =>
            \E i \in 1..m : InForce(q, i, entries[j].sample)
                            /\ q[i].settings = entries[j].settings
  <2>1. Len(entries) = n
    BY <1>3
  <2>2. Len(entries) > 0
    BY <1>2, <2>1
  <2>3. /\ WellFormed(t)
        /\ t.snapshots[Len(t.snapshots)].sample <= entries[Len(entries)].sample
        /\ \A j \in 1..Len(entries) :
             (j < Len(entries) => entries[j + 1].sample # entries[j].sample) =>
               \E i \in 1..Len(t.snapshots) :
                 /\ InForce(t.snapshots, i, entries[j].sample)
                 /\ t.snapshots[i].settings = entries[j].settings
    BY <1>7, <1>8, <2>2, TimelineRecords
  <2> QED
    BY <2>1, <2>3
<1>11. /\ Len(p) = m /\ Ascending(q) /\ p \in Seq(Patching) /\ q \in Seq(Entries)
       /\ \A i \in 1..m : p[i].sample = q[i].sample
  BY <1>10 DEF WellFormed, Timelines
<1>12. m \in Nat /\ DOMAIN p = 1..m
  BY <1>11, LenProperties
<1>13. \A i \in 1..m : q[i].sample \in Nat
  BY <1>11, EntryOf
<1> HIDE DEF q, p, m
<1>14. ASSUME NEW k \in 1..m
       PROVE  p[k].sample < h /\ (k > 1 => p[k - 1].sample < p[k].sample)
  <2>1. k < m => q[k].sample < q[m].sample
    <3>1. m \in 1..m
      BY <1>12
    <3> QED
      BY <1>11, <3>1 DEF Ascending, m
  <2>2. q[k].sample <= q[m].sample
    <3>1. m \in 1..m
      BY <1>12
    <3> QED
      BY <1>12, <1>13, <2>1, <3>1
  <2>3. q[k].sample \in Nat /\ q[m].sample \in Nat /\ entries[n].sample \in Nat
    <3>1. m \in 1..m /\ n \in 1..n /\ a + n - 1 \in Int
      BY <1>1, <1>2, <1>12
    <3>2. at(a + n - 1) \in Nat
      BY <1>4, <3>1
    <3> QED
      BY <1>6, <1>13, <3>1, <3>2
  <2>4. q[k].sample < h
    <3>1. q[m].sample <= entries[n].sample /\ h \in Nat
      BY <1>4, <1>10
    <3> DEFINE x == q[k].sample
               y == q[m].sample
               z == entries[n].sample
    <3>2. x \in Nat /\ y \in Nat /\ z \in Nat /\ x <= y /\ y <= z /\ z < h
      BY <1>9, <2>2, <2>3, <3>1
    <3> HIDE DEF x, y, z
    <3>3. x < h
      BY <3>1, <3>2
    <3> QED
      BY <3>3 DEF x
  <2>5. k > 1 => k - 1 \in 1..m /\ k - 1 < k
    BY <1>12
  <2>6. k > 1 => q[k - 1].sample < q[k].sample
    BY <1>11, <2>5 DEF Ascending, m
  <2> QED
    BY <1>11, <2>4, <2>5, <2>6
<1>15. ASSUME NEW frame \in source.first..source.last
       PROVE  \/ frame < source.last /\ at(frame + 1) = at(frame)
              \/ SettingsAtSample(t, at(frame)) = meant(frame)
  <2> DEFINE j == frame + 1 - a
  <2>0. frame \in a..source.last
    BY DEF a
  <2>1. j \in 1..n /\ frame = a + j - 1 /\ frame \in Int /\ frame + 1 = a + (j + 1) - 1
    <3> DEFINE b == source.last
    <3>1. frame \in a..b /\ a \in Int /\ b \in Int /\ n \in Nat /\ b = a + n - 1
      BY <1>1, <1>2, <2>0
    <3> HIDE DEF b
    <3> QED
      BY <3>1
  <2>2. j < n <=> frame < source.last
    BY <1>1, <1>2, <2>1
  <2>3. j < n => j + 1 \in 1..n
    BY <1>2, <2>1
  <2> HIDE DEF j
  <2>4. entries[j].sample = at(frame) /\ entries[j].settings = meant(frame)
    BY <1>6, <2>1
  <2>5. j < n => entries[j + 1].sample = at(frame + 1)
    BY <1>6, <2>1, <2>3
  <2>6. CASE j < n /\ entries[j + 1].sample = entries[j].sample
    BY <2>2, <2>4, <2>5, <2>6
  <2>7. CASE ~(j < n /\ entries[j + 1].sample = entries[j].sample)
    <3>1. PICK i \in 1..m : InForce(q, i, at(frame)) /\ q[i].settings = meant(frame)
      BY <1>10, <2>1, <2>4, <2>7
    <3>2. at(frame) \in Nat
      BY <1>4, <2>1
    <3>3. SettingsAtSample(t, at(frame)) = q[i].settings
      BY <1>10, <3>1, <3>2, WorkerAgrees DEF q, m
    <3> QED
      BY <3>1, <3>3
  <2> QED
    BY <2>6, <2>7
<1>16. ASSUME NEW k \in 0..Samples(source) - 1
       PROVE  WorkerSettings(t, k) = SettingsAtSample(t, k)
  <2>1. k \in Nat
    BY <1>4 DEF h
  <2> QED
    BY <1>10, <2>1, WorkerAgrees
<1> QED
  BY <1>10, <1>12, <1>14, <1>15, <1>16 DEF p, h, at, meant

\* Stopped: a scan leaves the scene as it found it.
LEMMA Stopped ==
  ASSUME ChannelInv, ScanEnds \/ ScanRaises
  PROVE  /\ scene' = scan.saved.scene /\ meshes' = meshes /\ track' = track
         /\ bake' = bake /\ pc = "scan"
<1>1. /\ pc = "scan" /\ track' = track /\ bake' = bake
      /\ scene' = Restored(scene, scan.saved.scene)
      /\ meshes' = FrameHandler(track, scene', meshes)
  BY DEF ScanEnds, ScanRaises, ScanStops
<1>2. IsScan(scan) /\ Visiting
  BY <1>1 DEF ChannelInv, ScanOK
<1>3. scan.saved.scene \in Scenes /\ Visited(scene, scan.saved.scene)
  BY <1>2 DEF IsScan, Visiting
<1>4. Restored(scene, scan.saved.scene) = scan.saved.scene
  BY <1>3, RestoredIs
<1> QED
  BY <1>1, <1>4 DEF FrameHandler

\* Ends: a scan ends, and leaves the timeline that was meant.
LEMMA Ends ==
  ASSUME ChannelInv, ScanEnds
  PROVE  ScanOK' /\ TimelineIsAuthored'
<1> DEFINE source == track.source
           saved == scan.saved.scene
           entries == scan.entries
           samples == scan.samples
           n == Len(entries)
           t == SettingsTimeline(entries)
           next == scan'
<1>1. /\ pc' = "scanned" /\ scan.frame > source.last /\ next = [scan EXCEPT !.timeline = t]
  BY DEF ScanEnds, ScanStops
<1>2. scene' = saved /\ meshes' = meshes /\ track' = track /\ bake' = bake /\ pc = "scan"
  BY Stopped
<1>3. IsTrack(track) /\ IsScan(scan) /\ Alone /\ Visiting
  BY <1>2 DEF ChannelInv, TrackOK, ScanOK, Scanning
<1>4. Spanned(source)
  BY <1>3 DEF IsTrack, Alone
<1>5. /\ entries \in Seq(Entries) /\ scan.frame = source.first + n /\ n <= Frames(source)
      /\ Seen(source, saved, samples, n) /\ Entered(source, saved, entries, n)
  BY <1>3 DEF IsScan, Visiting
<1>6. n = Frames(source)
  <2>1. n \in Nat
    BY <1>5, LenProperties
  <2>2. source.first \in Int /\ source.last \in Int
    BY <1>4 DEF Spanned, Sources
  <2> DEFINE a == source.first
             b == source.last
             f == scan.frame
  <2>3. /\ a \in Int /\ b \in Int /\ f = a + n /\ f > b /\ n <= b + 1 - a
    BY <1>1, <1>5, <2>2 DEF Frames
  <2> HIDE DEF a, b, f, n
  <2>4. n = b + 1 - a
    BY <2>1, <2>3
  <2> QED
    BY <2>4 DEF Frames, a, b
<1>7. /\ WellFormed(t)
      /\ \A k \in DOMAIN t.payload :
           /\ t.payload[k].sample < Samples(source)
           /\ k > 1 => t.payload[k - 1].sample < t.payload[k].sample
      /\ \A frame \in source.first..source.last :
           \/ /\ frame < source.last
              /\ FrameToSample(source, frame + 1, 0) = FrameToSample(source, frame, 0)
           \/ SettingsAtSample(t, FrameToSample(source, frame, 0))
                = Restrict(Intended(saved, frame), Leaves)
      /\ \A k \in 0..Samples(source) - 1 :
           WorkerSettings(t, k) = SettingsAtSample(t, k)
  <2>1. Entered(source, saved, entries, Frames(source))
    BY <1>5, <1>6
  <2> HIDE DEF source, saved, entries
  <2> QED
    BY <1>4, <1>5, <2>1, ScannedIs
<1>8. /\ next = [purpose |-> next.purpose, frame |-> next.frame, entries |-> next.entries,
                 samples |-> next.samples, timeline |-> next.timeline, saved |-> next.saved]
      /\ next.purpose = scan.purpose /\ next.entries = entries /\ next.samples = samples
      /\ next.timeline = t /\ next.saved = scan.saved
  <2> DEFINE p == scan.purpose
             was == scan.timeline
             v == scan.saved
             f == scan.frame
  <2>1. scan = [purpose |-> p, frame |-> f, entries |-> entries, samples |-> samples,
                timeline |-> was, saved |-> v]
    BY <1>3 DEF IsScan
  <2>2. next = [scan EXCEPT !.timeline = t]
    BY <1>1
  <2> HIDE DEF p, was, v, f, next, entries, samples, t
  <2>3. next = [purpose |-> p, frame |-> f, entries |-> entries,
                samples |-> samples, timeline |-> t, saved |-> v]
    BY <2>1, <2>2
  <2>4. /\ next.purpose = p /\ next.frame = f /\ next.entries = entries
        /\ next.samples = samples /\ next.timeline = t /\ next.saved = v
    BY <2>3
  <2> QED
    BY <2>3, <2>4 DEF p, v
<1> HIDE DEF t
<1>9. IsScan(next)
  <2>1. /\ samples \in Seq(Int) /\ saved \in Scenes /\ saved.cursor \in Cursors
    BY <1>3 DEF IsScan
  <2>2. Telling(t)
    BY <1>7 DEF Telling
  <2> HIDE DEF next
  <2> QED
    BY <1>5, <1>8, <2>1, <2>2 DEF IsScan
<1>10. Alone'
  BY <1>2, <1>3, <1>8 DEF Alone
<1>11. ScanOK'
  <2>1. WellFormed(scan'.timeline)
    BY <1>7, <1>8
  <2>2. Seen(track'.source, scan'.saved.scene, scan'.samples, Frames(track'.source))
    BY <1>2, <1>5, <1>6, <1>8
  <2> QED
    BY <1>1, <1>9, <1>10, <2>1, <2>2 DEF ScanOK
<1>12. TimelineIsAuthored'
  <2>1. scan'.saved.scene = saved /\ scan'.timeline = t /\ track'.source = source
    BY <1>2, <1>8
  <2>2. scene' = scan'.saved.scene
        /\ \A m \in Meshes : meshes'[m].shown = scan'.saved.shown[m]
    BY <1>2, <1>10, <2>1 DEF Alone
  <2> HIDE DEF saved, source, next
  <2> QED
    BY <1>7, <2>1, <2>2 DEF TimelineIsAuthored
<1> QED
  BY <1>11, <1>12

\* ScanKept: the scan, and the timeline it leaves, stay what they are.
LEMMA ScanKept ==
  ASSUME ChannelInv, Next
  PROVE  ScanOK' /\ TimelineIsAuthored'
<1>1. ScanOK /\ IsScan(scan)
  BY DEF ChannelInv, ScanOK
<1>2. IsTrack(track')
  BY TrackKept DEF TrackOK
<1>3. CASE ScanForRender \/ ScanForBake
  BY <1>2, <1>3, Begun
<1>4. CASE ScanFrame
  BY <1>4, Visits
<1>5. CASE ScanEnds
  BY <1>5, Ends
<1>6. CASE ScanRaises
  <2>1. /\ scene' = scan.saved.scene /\ meshes' = meshes /\ track' = track
        /\ bake' = bake /\ pc = "scan"
    BY <1>6, Stopped
  <2>2. pc' = "raised" /\ scan' = scan
    BY <1>6 DEF ScanRaises, ScanStops
  <2>3. Alone
    BY <1>1, <2>1 DEF ScanOK, Scanning
  <2>4. Alone'
    BY <2>1, <2>2, <2>3 DEF Alone
  <2>5. \A m \in Meshes : meshes'[m].shown = scan'.saved.shown[m]
    BY <2>4 DEF Alone
  <2> QED
    BY <1>1, <2>1, <2>2, <2>4, <2>5 DEF ScanOK, TimelineIsAuthored
<1>7. CASE scan' = scan /\ pc' \in {"idle", "write"}
  BY <1>1, <1>7 DEF ScanOK, Scanning, TimelineIsAuthored
<1>8. CASE StartTrack \/ NextChunk \/ DecodeFails \/ UploadEnds \/ TrackPrepared
           \/ CancelCompleted \/ ScanFailed \/ RequestRender
  BY <1>7, <1>8 DEF StartTrack, NextChunk, Uploading, DecodeFails, UploadEnds,
     TrackPrepared, CancelCompleted, ScanFailed, RequestRender
<1>9. CASE StartBake \/ Publish \/ CancelBake
  BY <1>7, <1>9 DEF StartBake, Publish, CancelBake
<1>10. CASE WriteTarget
  <2>1. scan' = scan /\ \E m \in bake.todo : WriteAction(m) \/ WriteFails(m)
    BY <1>10 DEF WriteTarget
  <2>2. pc' \in {"idle", "write"}
    BY <2>1 DEF WriteAction, WriteFails
  <2> QED
    BY <1>7, <2>1, <2>2
<1>11. CASE EditTimeline \/ EditValue \/ EditCurves \/ MoveCursor \/ EditMesh
  BY <1>7, <1>11 DEF EditTimeline, EditValue, EditCurves, MoveCursor, EditMesh, User
<1> QED
  BY <1>3, <1>4, <1>5, <1>6, <1>8, <1>9, <1>10, <1>11 DEF Next
-----------------------------------------------------------------------------
(* The bake *)

\* A bake goes on: its phase, what is left to write, or what it waits for.
SetsBake(next, b, phase, todo, timeline, samples) ==
  \/ /\ next = [b EXCEPT !.phase = phase, !.timeline = timeline, !.samples = samples]
     /\ todo = b.todo
  \/ /\ next = [b EXCEPT !.todo = todo]
     /\ phase = b.phase /\ timeline = b.timeline /\ samples = b.samples
  \/ /\ next = [b EXCEPT !.todo = todo, !.phase = phase]
     /\ timeline = b.timeline /\ samples = b.samples

\* BakeSet: a bake that goes on is a bake.
LEMMA BakeSet ==
  ASSUME NEW b, IsBake(b), NEW phase \in {"none", "planned", "waiting", "done"},
         phase \in {"planned", "waiting"} => DOMAIN b.targets # {},
         NEW todo \in SUBSET DOMAIN b.targets, NEW timeline, Telling(timeline),
         NEW samples
  PROVE  \A next : SetsBake(next, b, phase, todo, timeline, samples) =>
           /\ IsBake(next) /\ next.phase = phase /\ next.targets = b.targets
           /\ next.todo = todo /\ next.timeline = timeline /\ next.samples = samples
<1> DEFINE p == b.phase
           g == b.targets
           d == b.todo
           t == b.timeline
           s == b.samples
<1>1. b = [phase |-> p, targets |-> g, todo |-> d, timeline |-> t, samples |-> s]
      /\ DOMAIN g \subseteq Meshes
  BY DEF IsBake
<1> SUFFICES ASSUME NEW next, SetsBake(next, b, phase, todo, timeline, samples)
             PROVE  /\ IsBake(next) /\ next.phase = phase /\ next.targets = g
                    /\ next.todo = todo /\ next.timeline = timeline
                    /\ next.samples = samples
  OBVIOUS
<1>2. \/ /\ next = [b EXCEPT !.phase = phase, !.timeline = timeline, !.samples = samples]
         /\ todo = d
      \/ /\ next = [b EXCEPT !.todo = todo]
         /\ phase = p /\ timeline = t /\ samples = s
      \/ /\ next = [b EXCEPT !.todo = todo, !.phase = phase]
         /\ timeline = t /\ samples = s
  BY DEF SetsBake
<1>3. todo \subseteq DOMAIN g /\ (phase \in {"planned", "waiting"} => DOMAIN g # {})
  OBVIOUS
<1> HIDE DEF p, g, d, t, s
<1>4. next = [phase |-> phase, targets |-> g, todo |-> todo, timeline |-> timeline,
              samples |-> samples]
  <2>1. CASE /\ next = [b EXCEPT !.phase = phase, !.timeline = timeline,
                                 !.samples = samples]
             /\ todo = d
    BY <1>1, <2>1
  <2>2. CASE /\ next = [b EXCEPT !.todo = todo]
             /\ phase = p /\ timeline = t /\ samples = s
    BY <1>1, <2>2
  <2>3. CASE /\ next = [b EXCEPT !.todo = todo, !.phase = phase]
             /\ timeline = t /\ samples = s
    BY <1>1, <2>3
  <2> QED
    BY <1>2, <2>1, <2>2, <2>3
<1>5. /\ next.phase = phase /\ next.targets = g /\ next.todo = todo
      /\ next.timeline = timeline /\ next.samples = samples
  BY <1>4
<1>6. IsBake(next)
  BY <1>1, <1>3, <1>4, <1>5 DEF IsBake
<1> QED
  BY <1>5, <1>6

\* NoBakeIs: no bake is one that is over.
LEMMA NoBakeIs ==
  /\ IsBake(NoBake) /\ NoBake.phase = "none" /\ NoBake.todo = {}
  /\ NoBake.targets = <<>> /\ DOMAIN NoBake.targets = {}
<1>1. /\ NoBake.phase = "none" /\ NoBake.todo = {} /\ NoBake.targets = <<>>
      /\ NoBake.timeline = Nothing /\ NoBake.samples = <<>>
  BY DEF NoBake
<1>2. DOMAIN NoBake.targets = {}
  BY <1>1
<1>3. Telling(NoBake.timeline)
  BY <1>1 DEF Telling
<1>4. NoBake = [phase |-> NoBake.phase, targets |-> NoBake.targets, todo |-> NoBake.todo,
                timeline |-> NoBake.timeline, samples |-> NoBake.samples]
  BY <1>1 DEF NoBake
<1> QED
  BY <1>1, <1>2, <1>3, <1>4 DEF IsBake

\* Planned: the bake that is planned has datablocks of the scene to write.
LEMMA Planned ==
  ASSUME NEW targets, DOMAIN targets \subseteq Meshes, DOMAIN targets # {}
  PROVE  \A next : next = [NoBake EXCEPT !.phase = "planned", !.targets = targets] =>
           IsBake(next) /\ next.phase = "planned" /\ next.todo = {}
             /\ next.targets = targets
<1> DEFINE t == Nothing
           none == <<>>
           nobody == {}
<1>1. NoBake = [phase |-> "none", targets |-> none, todo |-> nobody, timeline |-> t,
                samples |-> none]
  BY DEF NoBake
<1>2. Telling(t) /\ nobody \subseteq DOMAIN targets
  BY DEF Telling
<1> HIDE DEF t, none, nobody
<1>3. ASSUME NEW next,
             next = [phase |-> "planned", targets |-> targets, todo |-> nobody,
                     timeline |-> t, samples |-> none]
      PROVE  IsBake(next) /\ next.phase = "planned" /\ next.todo = nobody
               /\ next.targets = targets
  <2>1. /\ next.phase = "planned" /\ next.targets = targets /\ next.todo = nobody
        /\ next.timeline = t /\ next.samples = none
    BY <1>3
  <2> QED
    BY <1>2, <1>3, <2>1 DEF IsBake
<1> SUFFICES ASSUME NEW next,
                    next = [NoBake EXCEPT !.phase = "planned", !.targets = targets]
             PROVE  IsBake(next) /\ next.phase = "planned" /\ next.todo = nobody
                      /\ next.targets = targets
  BY DEF nobody
<1>4. next = [phase |-> "planned", targets |-> targets, todo |-> nobody, timeline |-> t,
              samples |-> none]
  BY <1>1
<1> QED
  BY <1>3, <1>4

\* BakeKept: the bake that is planned, waited for or written stays one.
LEMMA BakeKept ==
  ASSUME ChannelInv, Next
  PROVE  BakeOK'
<1>1. /\ IsBake(bake) /\ (pc = "write" <=> bake.todo # {})
      /\ (pc = "write" => bake.phase = "waiting")
      /\ (bake.phase = "planned" <=> Scanning /\ scan.purpose = "bake")
      /\ (bake.phase = "waiting" =>
            /\ track.phase \notin {"none", "canceling"}
            /\ Seen(track.source, scan.saved.scene, bake.samples, Frames(track.source)))
      /\ IsTrack(track) /\ IsScan(scan) /\ (Scanning => Alone)
      /\ (pc = "scanned" => /\ WellFormed(scan.timeline)
                            /\ Seen(track.source, scan.saved.scene, scan.samples,
                                    Frames(track.source)))
  BY DEF ChannelInv, BakeOK, TrackOK, ScanOK
<1>2. /\ bake.phase \in {"none", "planned", "waiting", "done"} /\ Telling(bake.timeline)
      /\ DOMAIN bake.targets \subseteq Meshes /\ bake.todo \subseteq DOMAIN bake.targets
      /\ (bake.phase \in {"planned", "waiting"} => DOMAIN bake.targets # {})
      /\ Telling(scan.timeline) /\ track.phase \in Phases
  BY <1>1 DEF IsBake, IsScan, IsTrack
<1>3. CASE pc' = "idle" /\ bake' = NoBake
  BY <1>3, NoBakeIs DEF BakeOK, Scanning
<1>4. CASE /\ pc = "idle" /\ pc' = "idle" /\ bake' = bake /\ scan' = scan
           /\ bake.phase = "waiting" =>
                track'.source = track.source /\ track'.phase \notin {"none", "canceling"}
  BY <1>1, <1>4 DEF BakeOK, Scanning
<1>5. CASE StartTrack \/ CancelCompleted
  <2>1. track.phase \in {"none", "canceling"} /\ pc = "idle" /\ pc' = "idle"
        /\ bake' = bake /\ scan' = scan
    BY <1>5 DEF StartTrack, CancelCompleted
  <2> QED
    BY <1>1, <1>4, <2>1
<1>6. CASE NextChunk \/ TrackPrepared
  <2>1. /\ pc = "idle" /\ pc' = "idle" /\ bake' = bake /\ scan' = scan
        /\ track'.source = track.source /\ track'.phase \in {"uploading", "prepared"}
    <3>1. CASE NextChunk
      <4>1. /\ pc = "idle" /\ pc' = "idle" /\ bake' = bake /\ scan' = scan
            /\ track.phase = "uploading"
        BY <3>1 DEF NextChunk, Uploading
      <4>2. track'.phase = track.phase /\ track'.source = track.source
        <5> DEFINE p == track.phase
                   s == track.source
        <5>1. track = [phase |-> p, source |-> s, start |-> track.start,
                       opened |-> track.opened, audio |-> track.audio,
                       wanted |-> track.wanted, published |-> track.published,
                       rows |-> track.rows]
          BY <1>1 DEF IsTrack
        <5>2. PICK a, b, c : track' = [track EXCEPT !.start = a, !.opened = b, !.audio = c]
          BY <3>1 DEF NextChunk
        <5> QED
          BY <5>1, <5>2
      <4> QED
        BY <4>1, <4>2
    <3>2. CASE TrackPrepared
      <4>1. PICK wanted : track' = [track EXCEPT !.phase = "prepared", !.wanted = wanted]
        BY <3>2 DEF TrackPrepared
      <4>2. track'.phase = "prepared" /\ track'.source = track.source
        <5>1. track = [phase |-> track.phase, source |-> track.source,
                       start |-> track.start,
                       opened |-> track.opened, audio |-> track.audio,
                       wanted |-> track.wanted, published |-> track.published,
                       rows |-> track.rows]
          BY <1>1 DEF IsTrack
        <5> QED
          BY <4>1, <5>1
      <4> QED
        BY <3>2, <4>2 DEF TrackPrepared
    <3> QED
      BY <1>6, <3>1, <3>2
  <2> QED
    BY <1>4, <2>1
<1>7. CASE UploadEnds
  <2>1. /\ pc = "idle" /\ pc' = "idle" /\ scan' = scan /\ bake' = Released(bake, track')
        /\ \E phase \in {"preparing", "canceling"} :
             track' = [track EXCEPT !.phase = phase]
    BY <1>7 DEF UploadEnds, Uploading
  <2>2. PICK phase \in {"preparing", "canceling"} : track' = [track EXCEPT !.phase = phase]
    BY <2>1
  <2>3. track'.phase = phase /\ track'.source = track.source
    <3>1. track = [phase |-> track.phase, source |-> track.source, start |-> track.start,
                   opened |-> track.opened, audio |-> track.audio,
                   wanted |-> track.wanted, published |-> track.published,
                   rows |-> track.rows]
      BY <1>1 DEF IsTrack
    <3> QED
      BY <2>2, <3>1
  <2>4. IF phase = "canceling" THEN bake' = NoBake ELSE bake' = bake
    BY <2>1, <2>3 DEF Released
  <2>5. CASE phase = "canceling"
    BY <1>3, <2>1, <2>4, <2>5
  <2>6. CASE phase = "preparing"
    BY <1>4, <2>1, <2>3, <2>4, <2>6
  <2> QED
    BY <2>2, <2>5, <2>6
<1>8. CASE DecodeFails \/ CancelBake
  BY <1>3, <1>8 DEF DecodeFails, CancelBake, Uploading
<1>9. CASE ScanForRender
  <2>1. /\ pc = "idle" /\ pc' = "scan" /\ bake' = bake /\ bake.phase # "waiting"
        /\ scan'.purpose = "render"
    BY <1>9 DEF ScanForRender, BeginScan
  <2> QED
    BY <1>1, <2>1 DEF BakeOK, Scanning
<1>10. CASE ScanForBake
  <2> DEFINE targets == Plan(meshes)
             next == bake'
  <2>1. /\ pc' = "scan" /\ scan'.purpose = "bake" /\ DOMAIN targets # {}
        /\ next = [NoBake EXCEPT !.phase = "planned", !.targets = targets]
    BY <1>10 DEF ScanForBake, BeginScan
  <2>2. DOMAIN targets \subseteq Meshes
    BY DEF Plan
  <2> HIDE DEF targets, next
  <2>3. IsBake(next) /\ next.phase = "planned" /\ next.todo = {}
    BY <2>1, <2>2, Planned
  <2> QED
    BY <2>1, <2>3 DEF BakeOK, Scanning, next
<1>11. CASE ScanFrame \/ ScanEnds \/ ScanRaises
  <2>1. /\ pc = "scan" /\ pc' \in {"scan", "scanned", "raised"} /\ bake' = bake
        /\ scan'.purpose = scan.purpose
    <3>1. CASE ScanFrame
      <4>1. PICK a, b, c : scan' = [scan EXCEPT !.frame = a, !.entries = b, !.samples = c]
        BY <3>1 DEF ScanFrame
      <4>2. scan = [purpose |-> scan.purpose, frame |-> scan.frame,
                    entries |-> scan.entries, samples |-> scan.samples,
                    timeline |-> scan.timeline, saved |-> scan.saved]
        BY <1>1 DEF IsScan
      <4>3. scan'.purpose = scan.purpose
        BY <4>1, <4>2
      <4> QED
        BY <3>1, <4>3 DEF ScanFrame
    <3>2. CASE ScanEnds
      <4>1. PICK a : scan' = [scan EXCEPT !.timeline = a]
        BY <3>2 DEF ScanEnds
      <4>2. scan = [purpose |-> scan.purpose, frame |-> scan.frame,
                    entries |-> scan.entries, samples |-> scan.samples,
                    timeline |-> scan.timeline, saved |-> scan.saved]
        BY <1>1 DEF IsScan
      <4>3. scan'.purpose = scan.purpose
        BY <4>1, <4>2
      <4> QED
        BY <3>2, <4>3 DEF ScanEnds, ScanStops
    <3>3. CASE ScanRaises
      BY <3>3 DEF ScanRaises, ScanStops
    <3> QED
      BY <1>11, <3>1, <3>2, <3>3
  <2>2. bake.phase # "waiting"
    BY <1>1, <2>1 DEF Scanning, Alone
  <2> QED
    BY <1>1, <2>1, <2>2 DEF BakeOK, Scanning
<1>12. CASE ScanFailed
  <2>1. /\ pc = "raised" /\ pc' = "idle" /\ bake' \in {NoBake, bake}
        /\ (scan.purpose # "bake" => bake' = bake) /\ (scan.purpose = "bake" => bake' = NoBake)
    BY <1>12 DEF ScanFailed
  <2>2. CASE scan.purpose = "bake"
    BY <1>3, <2>1, <2>2
  <2>3. CASE scan.purpose # "bake"
    <3>1. bake.phase \notin {"planned", "waiting"}
      BY <1>1, <2>1, <2>3 DEF Scanning, Alone
    <3> QED
      BY <1>1, <2>1, <2>3, <3>1 DEF BakeOK, Scanning
  <2> QED
    BY <2>2, <2>3
<1>13. CASE RequestRender
  <2>1. pc = "scanned" /\ pc' = "idle" /\ bake' = bake /\ scan.purpose = "render"
    BY <1>13 DEF RequestRender
  <2>2. bake.phase \notin {"planned", "waiting"}
    BY <1>1, <2>1 DEF Scanning, Alone
  <2> QED
    BY <1>1, <2>1, <2>2 DEF BakeOK, Scanning
<1>14. CASE StartBake
  <2> DEFINE timeline == scan.timeline
             samples == scan.samples
             begun == [bake EXCEPT !.phase = "waiting", !.timeline = timeline,
                                   !.samples = samples]
             rendered == track.published = timeline
             next == bake'
  <2>1. /\ pc = "scanned" /\ scan.purpose = "bake" /\ scan' = scan
        /\ pc' = (IF rendered THEN "write" ELSE "idle")
        /\ next = (IF rendered THEN Writing(begun) ELSE begun)
        /\ \E wanted : track' = [track EXCEPT !.wanted = wanted]
    BY <1>14 DEF StartBake
  <2>2. bake.phase = "planned" /\ track.phase \notin {"none", "canceling"}
        /\ Seen(track.source, scan.saved.scene, samples, Frames(track.source))
    BY <1>1, <2>1 DEF Scanning, Alone
  <2>3. track'.phase = track.phase /\ track'.source = track.source
    <3>1. PICK wanted : track' = [track EXCEPT !.wanted = wanted]
      BY <2>1
    <3>2. track = [phase |-> track.phase, source |-> track.source, start |-> track.start,
                   opened |-> track.opened, audio |-> track.audio,
                   wanted |-> track.wanted, published |-> track.published,
                   rows |-> track.rows]
      BY <1>1 DEF IsTrack
    <3> QED
      BY <3>1, <3>2
  <2>4. /\ IsBake(begun) /\ begun.phase = "waiting" /\ begun.targets = bake.targets
        /\ begun.todo = bake.todo /\ begun.timeline = timeline /\ begun.samples = samples
    <3> DEFINE b == begun
               todo == bake.todo
    <3>1. SetsBake(b, bake, "waiting", todo, timeline, samples)
      BY DEF SetsBake
    <3>2. todo \in SUBSET DOMAIN bake.targets /\ DOMAIN bake.targets # {}
      BY <1>2, <2>2
    <3> HIDE DEF b, todo, timeline, samples
    <3>3. Telling(timeline)
      BY <1>2 DEF timeline
    <3>4. /\ IsBake(b) /\ b.phase = "waiting" /\ b.targets = bake.targets
          /\ b.todo = todo /\ b.timeline = timeline /\ b.samples = samples
      BY <1>1, <3>1, <3>2, <3>3, BakeSet
    <3> QED
      BY <3>4 DEF b, todo
  <2> HIDE DEF begun
  <2>5. CASE ~rendered
    <3>1. bake.todo = {}
      BY <1>1, <2>1
    <3> QED
      BY <2>1, <2>2, <2>3, <2>4, <2>5, <3>1 DEF BakeOK, Scanning
  <2>6. CASE rendered
    <3> DEFINE todo == DOMAIN bake.targets
    <3>1. SetsBake(next, begun, "waiting", todo, timeline, samples)
      BY <2>1, <2>4, <2>6 DEF SetsBake, Writing
    <3>2. todo \in SUBSET DOMAIN begun.targets /\ DOMAIN begun.targets # {} /\ todo # {}
      BY <1>2, <2>2, <2>4
    <3> HIDE DEF next, todo, timeline, samples
    <3>3. Telling(timeline)
      BY <1>2 DEF timeline
    <3>4. /\ IsBake(next) /\ next.phase = "waiting" /\ next.todo = todo
          /\ next.samples = samples
      BY <2>4, <3>1, <3>2, <3>3, BakeSet
    <3> QED
      BY <2>1, <2>2, <2>3, <2>6, <3>2, <3>4 DEF BakeOK, Scanning, next
  <2> QED
    BY <2>5, <2>6
<1>15. CASE Publish
  <2> DEFINE baking == bake.phase = "waiting" /\ bake.timeline = track.wanted
             next == bake'
  <2>1. /\ pc = "idle" /\ scan' = scan /\ track.phase = "prepared"
        /\ pc' = (IF baking THEN "write" ELSE "idle")
        /\ next = (IF baking THEN Writing(bake) ELSE bake)
        /\ \E a, b : track' = [track EXCEPT !.published = a, !.rows = b]
    BY <1>15 DEF Publish
  <2>2. track'.phase = track.phase /\ track'.source = track.source
    <3>1. PICK a, b : track' = [track EXCEPT !.published = a, !.rows = b]
      BY <2>1
    <3>2. track = [phase |-> track.phase, source |-> track.source, start |-> track.start,
                   opened |-> track.opened, audio |-> track.audio,
                   wanted |-> track.wanted, published |-> track.published,
                   rows |-> track.rows]
      BY <1>1 DEF IsTrack
    <3> QED
      BY <3>1, <3>2
  <2>3. CASE ~baking
    BY <1>4, <2>1, <2>2, <2>3
  <2>4. CASE baking
    <3> DEFINE todo == DOMAIN bake.targets
               timeline == bake.timeline
               samples == bake.samples
    <3>1. SetsBake(next, bake, "waiting", todo, timeline, samples)
      BY <2>1, <2>4 DEF SetsBake, Writing
    <3>2. todo \in SUBSET DOMAIN bake.targets /\ DOMAIN bake.targets # {} /\ todo # {}
      BY <1>2, <2>4
    <3> HIDE DEF next, todo, timeline, samples
    <3>3. Telling(timeline)
      BY <1>2 DEF timeline
    <3>4. /\ IsBake(next) /\ next.phase = "waiting" /\ next.todo = todo
          /\ next.samples = samples
      BY <1>1, <3>1, <3>2, <3>3, BakeSet
    <3>5. Seen(track.source, scan.saved.scene, samples, Frames(track.source))
      BY <1>1, <2>4 DEF samples
    <3> QED
      BY <2>1, <2>2, <2>4, <3>2, <3>4, <3>5 DEF BakeOK, Scanning, next
  <2> QED
    BY <2>3, <2>4
<1>16. CASE WriteTarget
  <2>1. /\ pc = "write" /\ track' = track /\ scan' = scan
        /\ \E m \in bake.todo : WriteAction(m) \/ WriteFails(m)
    BY <1>16 DEF WriteTarget
  <2>2. PICK m \in bake.todo : WriteAction(m) \/ WriteFails(m)
    BY <2>1
  <2>3. CASE WriteFails(m)
    BY <1>3, <2>3 DEF WriteFails
  <2>4. CASE WriteAction(m)
    <3> DEFINE last == bake.todo = {m}
               phase == IF last THEN "done" ELSE bake.phase
               todo == bake.todo \ {m}
               timeline == bake.timeline
               samples == bake.samples
               next == bake'
    <3>1. /\ next = [bake EXCEPT !.todo = todo, !.phase = phase]
          /\ pc' = (IF last THEN "idle" ELSE "write")
      BY <2>4 DEF WriteAction
    <3>2. SetsBake(next, bake, phase, todo, timeline, samples)
      BY <3>1 DEF SetsBake
    <3>3. bake.phase = "waiting" /\ DOMAIN bake.targets # {}
      BY <1>1, <1>2, <2>1
    <3>4. /\ phase \in {"none", "planned", "waiting", "done"}
          /\ todo \in SUBSET DOMAIN bake.targets /\ (last <=> todo = {})
          /\ (phase = "done" <=> last) /\ (~last => phase = "waiting")
      BY <1>2, <2>2, <3>3
    <3> HIDE DEF next, todo, timeline, samples, phase, last
    <3>5. Telling(timeline)
      BY <1>2 DEF timeline
    <3>6. /\ IsBake(next) /\ next.phase = phase /\ next.todo = todo
          /\ next.samples = samples
      BY <1>1, <3>2, <3>3, <3>4, <3>5, BakeSet
    <3>7. /\ track.phase \notin {"none", "canceling"}
          /\ Seen(track.source, scan.saved.scene, samples, Frames(track.source))
      BY <1>1, <3>3 DEF samples
    <3>8. CASE last
      BY <2>1, <3>1, <3>4, <3>6, <3>8 DEF BakeOK, Scanning, next
    <3>9. CASE ~last
      BY <2>1, <3>1, <3>4, <3>6, <3>7, <3>9 DEF BakeOK, Scanning, next
    <3> QED
      BY <3>8, <3>9
  <2> QED
    BY <2>2, <2>3, <2>4
<1>17. CASE EditTimeline
  <2>1. /\ pc = "idle" /\ pc' = "idle" /\ scan' = scan /\ bake' = Released(bake, track')
        /\ track' = Refreshed(track, scene')
    BY <1>17 DEF EditTimeline, User
  <2>2. CASE track'.phase = "canceling"
    BY <1>3, <2>1, <2>2 DEF Released
  <2>3. CASE track'.phase # "canceling"
    <3>1. bake' = bake
      BY <2>1, <2>3 DEF Released
    <3>2. track.phase = "none" \/ track' = track
          \/ track' = [track EXCEPT !.phase = "canceling"]
      BY <2>1 DEF Refreshed
    <3>3. track' = [track EXCEPT !.phase = "canceling"] => track'.phase = "canceling"
      <4>1. track = [phase |-> track.phase, source |-> track.source,
                     start |-> track.start,
                     opened |-> track.opened, audio |-> track.audio,
                     wanted |-> track.wanted, published |-> track.published,
                     rows |-> track.rows]
        BY <1>1 DEF IsTrack
      <4> QED
        BY <4>1
    <3>4. track.phase = "none" \/ track' = track
      BY <2>3, <3>2, <3>3
    <3> QED
      BY <1>1, <1>4, <2>1, <3>1, <3>4
  <2> QED
    BY <2>2, <2>3
<1>18. CASE EditValue \/ EditCurves \/ MoveCursor \/ EditMesh
  <2>1. /\ pc = "idle" /\ pc' = "idle" /\ bake' = bake /\ scan' = scan /\ track' = track
    BY <1>18 DEF EditValue, EditCurves, MoveCursor, EditMesh, User
  <2> QED
    BY <1>1, <1>4, <2>1
<1> QED
  BY <1>5, <1>6, <1>7, <1>8, <1>9, <1>10, <1>11, <1>12, <1>13, <1>14, <1>15, <1>16,
     <1>17, <1>18 DEF Next
-----------------------------------------------------------------------------
(* The Actions *)

\* SequenceIs: a function on the numbers up to n is a sequence of length n.
LEMMA SequenceIs ==
  ASSUME NEW n \in Nat, NEW f, f = [k \in 1..n |-> f[k]]
  PROVE  Len(f) = n /\ DOMAIN f = 1..n
<1> DEFINE R == {f[k] : k \in 1..n}
<1>1. f \in [1..n -> R]
  OBVIOUS
<1>2. f \in Seq(R)
  BY <1>1, SeqDef
<1>3. DOMAIN f = 1..n
  BY <1>1
<1> HIDE DEF R
<1>4. Len(f) \in Nat /\ DOMAIN f = 1..Len(f)
  BY <1>2, LenProperties
<1>5. Len(f) = n
  BY <1>3, <1>4
<1> QED
  BY <1>3, <1>5

\* The Actions are numbered from 1 on.
Numbered(as) == DOMAIN as = 1..Len(as) /\ as = [k \in 1..Len(as) |-> as[k]]

\* One Action is written, or added.
Writes(next, as, id, action) ==
  next = [k \in DOMAIN as \cup {id} |-> IF k = id THEN action ELSE as[k]]

\* WritesTo: the Action of a datablock is written: one there is, or the next.
LEMMA WritesTo ==
  ASSUME NEW as, Len(as) \in Nat, DOMAIN as = 1..Len(as)
  PROVE  \A next, id, action : Writes(next, as, id, action) /\ id \in 1..(Len(as) + 1) =>
           /\ Numbered(next)
           /\ Len(next) = (IF id = Len(as) + 1 THEN Len(as) + 1 ELSE Len(as))
           /\ next[id] = action /\ id \in DOMAIN next
           /\ \A k \in 1..Len(as) : k # id => next[k] = as[k]
           /\ 1..Len(as) \subseteq DOMAIN next
<1> DEFINE n == Len(as)
<1>0. n \in Nat /\ DOMAIN as = 1..n
  OBVIOUS
<1> SUFFICES ASSUME NEW next, NEW id, NEW action, Writes(next, as, id, action),
                    id \in 1..(n + 1)
             PROVE  /\ Numbered(next)
                    /\ Len(next) = (IF id = n + 1 THEN n + 1 ELSE n)
                    /\ next[id] = action /\ id \in DOMAIN next
                    /\ \A k \in 1..n : k # id => next[k] = as[k]
                    /\ 1..n \subseteq DOMAIN next
  OBVIOUS
<1> HIDE DEF n
<1> DEFINE m == IF id = n + 1 THEN n + 1 ELSE n
<1>1. m \in Nat /\ 1..n \cup {id} = 1..m /\ id \in 1..m /\ 1..n \subseteq 1..m
  BY <1>0, SMTT(30)
<1>2. DOMAIN next = 1..m /\ next = [k \in 1..m |-> next[k]]
      /\ \A k \in 1..m : next[k] = (IF k = id THEN action ELSE as[k])
  <2> HIDE DEF m
  <2> QED
    BY <1>0, <1>1 DEF Writes
<1>3. Len(next) = m
  <2> HIDE DEF m
  <2> QED
    BY <1>1, <1>2, SequenceIs
<1>4. Numbered(next)
  BY <1>2, <1>3 DEF Numbered
<1> QED
  BY <1>1, <1>2, <1>3, <1>4

\* PendingFalls: what a bake may still add only falls, but when it is planned
\* or written.
LEMMA PendingFalls ==
  ASSUME ChannelInv, Next, ~ScanForBake, ~WriteTarget
  PROVE  actions' = actions /\ Pending' \subseteq Pending /\ pc # "write"
<1>1. /\ IsBake(bake) /\ IsBake(bake')
      /\ (bake.phase = "planned" <=> Scanning /\ scan.purpose = "bake")
  BY BakeKept DEF ChannelInv, BakeOK
<1>2. bake'.todo \subseteq DOMAIN bake'.targets
  BY <1>1 DEF IsBake
<1>3. CASE actions' = actions /\ pc # "write" /\ bake' = NoBake
  BY <1>3, NoBakeIs DEF Pending
<1>4. CASE /\ actions' = actions /\ pc # "write" /\ bake'.targets = bake.targets
           /\ bake'.phase \in {"planned", "waiting"} => bake.phase \in {"planned", "waiting"}
  BY <1>2, <1>4 DEF Pending
<1>5. CASE /\ actions' = actions /\ pc # "write" /\ bake' = bake
  BY <1>4, <1>5
<1>6. CASE StartTrack \/ NextChunk \/ DecodeFails \/ UploadEnds \/ TrackPrepared
           \/ CancelCompleted
  BY <1>3, <1>5, <1>6 DEF StartTrack, NextChunk, DecodeFails, UploadEnds, TrackPrepared,
     CancelCompleted, Uploading, Released
<1>7. CASE ScanForRender \/ ScanFrame \/ ScanEnds \/ ScanRaises \/ ScanFailed
           \/ RequestRender
  BY <1>3, <1>5, <1>7 DEF ScanForRender, BeginScan, ScanFrame, ScanEnds, ScanRaises,
     ScanStops, ScanFailed, RequestRender
<1>8. CASE CancelBake \/ EditTimeline \/ EditValue \/ EditCurves \/ MoveCursor \/ EditMesh
  BY <1>3, <1>5, <1>8 DEF CancelBake, EditTimeline, EditValue, EditCurves, MoveCursor,
     EditMesh, User, Released
<1> DEFINE p == bake.phase
           g == bake.targets
           d == bake.todo
           t == bake.timeline
           s == bake.samples
<1>9. bake = [phase |-> p, targets |-> g, todo |-> d, timeline |-> t, samples |-> s]
  BY <1>1 DEF IsBake
<1>10. CASE StartBake
  <2>1. PICK timeline, samples :
          LET begun == [bake EXCEPT !.phase = "waiting", !.timeline = timeline,
                                    !.samples = samples] IN
          bake' \in {begun, [begun EXCEPT !.todo = DOMAIN begun.targets]}
    BY <1>10 DEF StartBake, Writing
  <2> DEFINE begun == [bake EXCEPT !.phase = "waiting", !.timeline = timeline,
                                   !.samples = samples]
  <2>2. begun = [phase |-> "waiting", targets |-> g, todo |-> d, timeline |-> timeline,
                 samples |-> samples]
    <3> DEFINE x == begun
    <3>1. x = [bake EXCEPT !.phase = "waiting", !.timeline = timeline,
                           !.samples = samples]
      OBVIOUS
    <3> HIDE DEF p, g, d, t, s, x
    <3>2. x = [phase |-> "waiting", targets |-> g, todo |-> d, timeline |-> timeline,
               samples |-> samples]
      BY <1>9, <3>1
    <3> QED
      BY <3>2 DEF x
  <2>3. bake' \in {begun, [begun EXCEPT !.todo = DOMAIN begun.targets]}
    BY <2>1
  <2> HIDE DEF g, begun
  <2>4. bake'.targets = g
    BY <2>2, <2>3
  <2>5. actions' = actions /\ pc = "scanned" /\ bake.phase = "planned"
    BY <1>1, <1>10 DEF StartBake, Scanning
  <2> QED
    BY <1>4, <2>4, <2>5 DEF g
<1>11. CASE Publish
  <2>1. /\ actions' = actions /\ pc = "idle"
        /\ \/ bake' = bake
           \/ bake' = [bake EXCEPT !.todo = DOMAIN g] /\ p = "waiting"
    BY <1>11 DEF Publish, Writing
  <2>2. bake' = [bake EXCEPT !.todo = DOMAIN g] => bake'.targets = g
    <3> HIDE DEF p, g, d, t, s
    <3> QED
      BY <1>9
  <2> QED
    BY <1>4, <1>5, <2>1, <2>2
<1> QED
  BY <1>6, <1>7, <1>8, <1>10, <1>11 DEF Next

\* Written: one Action is written, and one datablock less is left.
LEMMA Written ==
  ASSUME ChannelInv, NEW m \in bake.todo, WriteAction(m), pc = "write"
  PROVE  /\ pc = "write" /\ bake.phase = "waiting" /\ m \in Meshes
         /\ ActionsOK' /\ 1..Len(actions) \subseteq DOMAIN actions'
         /\ \E id \in DOMAIN actions' :
              /\ id = (IF Reused(m) THEN meshes[m].action ELSE Len(actions) + 1)
              /\ meshes' = [meshes EXCEPT ![m].action = id]
              /\ actions'[id] = [owned |-> TRUE, curves |-> m :> Baked(m)]
              /\ \A k \in 1..Len(actions) : k # id => actions'[k] = actions[k]
<1> DEFINE n == Len(actions)
           id == IF Reused(m) THEN meshes[m].action ELSE n + 1
           action == [owned |-> TRUE, curves |-> m :> Baked(m)]
           next == actions'
           todo == bake.todo
<1>1. /\ n \in Nat /\ DOMAIN actions = 1..n
      /\ n + Cardinality(Pending) <= MaxActions
  BY DEF ChannelInv, ActionsOK
<1>2. /\ meshes \in [Meshes -> MeshSet({Absent} \cup DOMAIN actions)]
      /\ IsBake(bake) /\ bake.phase = "waiting"
  BY DEF ChannelInv, MeshesOK, MeshSet, BakeOK
<1>3. m \in Meshes /\ todo \subseteq Meshes
  BY <1>2 DEF IsBake
<1>4. id \in 1..(n + 1)
  <2>1. meshes[m].action \in {Absent} \cup DOMAIN actions
    BY <1>2, <1>3 DEF MeshSet
  <2>2. Reused(m) => meshes[m].action \in 1..n
    BY <1>1, <2>1 DEF Reused
  <2>3. n + 1 \in 1..(n + 1) /\ 1..n \subseteq 1..(n + 1)
    BY <1>1
  <2> HIDE DEF n
  <2> QED
    BY <2>2, <2>3
<1>5. /\ next = [k \in DOMAIN actions \cup {id} |-> IF k = id THEN action ELSE actions[k]]
      /\ meshes' = [meshes EXCEPT ![m].action = id]
      /\ bake' = [bake EXCEPT !.todo = todo \ {m},
                              !.phase = IF todo = {m} THEN "done" ELSE @]
      /\ pc' = (IF todo = {m} THEN "idle" ELSE "write")
  BY DEF WriteAction
<1> HIDE DEF id, action
<1>6. /\ Numbered(next)
      /\ Len(next) = (IF id = n + 1 THEN n + 1 ELSE n)
      /\ next[id] = action /\ id \in DOMAIN next
      /\ \A k \in 1..n : k # id => next[k] = actions[k]
      /\ 1..n \subseteq DOMAIN next
  <2> DEFINE as == actions
  <2>1. Writes(next, as, id, action)
    BY <1>1, <1>5 DEF Writes
  <2>2. Len(as) \in Nat /\ DOMAIN as = 1..Len(as) /\ id \in 1..(Len(as) + 1)
    BY <1>1, <1>4
  <2> HIDE DEF next, as
  <2>3. \A x, i, e : Writes(x, as, i, e) /\ i \in 1..(Len(as) + 1) =>
          /\ Numbered(x)
          /\ Len(x) = (IF i = Len(as) + 1 THEN Len(as) + 1 ELSE Len(as))
          /\ x[i] = e /\ i \in DOMAIN x
          /\ \A k \in 1..Len(as) : k # i => x[k] = as[k]
          /\ 1..Len(as) \subseteq DOMAIN x
    BY <2>2, WritesTo
  <2>4. /\ Numbered(next)
        /\ Len(next) = (IF id = Len(as) + 1 THEN Len(as) + 1 ELSE Len(as))
        /\ next[id] = action /\ id \in DOMAIN next
        /\ \A k \in 1..Len(as) : k # id => next[k] = as[k]
        /\ 1..Len(as) \subseteq DOMAIN next
    BY <2>1, <2>2, <2>3
  <2> QED
    BY <2>4 DEF as
<1>7. Pending = todo /\ Pending' = todo \ {m}
  <2>1. Pending = todo
    BY <1>2 DEF Pending
  <2>2. /\ bake'.todo = todo \ {m}
        /\ bake'.phase = (IF todo = {m} THEN "done" ELSE "waiting")
    <3> DEFINE p == bake.phase
               g == bake.targets
               t == bake.timeline
               s == bake.samples
               f == IF todo = {m} THEN "done" ELSE bake.phase
               left == todo \ {m}
    <3>1. bake = [phase |-> p, targets |-> g, todo |-> todo, timeline |-> t, samples |-> s]
      BY <1>2 DEF IsBake
    <3>2. bake' = [bake EXCEPT !.todo = left, !.phase = f]
      BY <1>5
    <3> HIDE DEF p, g, t, s, f, left, todo
    <3>3. bake'.todo = left /\ bake'.phase = f
      BY <3>1, <3>2
    <3> QED
      BY <1>2, <3>3 DEF f, left
  <2>3. CASE todo = {m}
    BY <2>1, <2>2, <2>3 DEF Pending
  <2>4. CASE todo # {m}
    BY <1>5, <2>1, <2>2, <2>4 DEF Pending
  <2> QED
    BY <2>3, <2>4
<1>8. IsFiniteSet(todo) /\ Cardinality(todo \ {m}) = Cardinality(todo) - 1
      /\ Cardinality(todo) \in Nat
  <2>1. IsFiniteSet(Meshes)
    BY ChannelAssumption
  <2>2. IsFiniteSet(todo) /\ m \in todo
    BY <1>3, <2>1, FS_Subset
  <2> QED
    BY <2>2, FS_RemoveElement, FS_CardinalityType
<1>9. Len(next) \in Nat /\ Len(next) + Cardinality(Pending') <= MaxActions
  <2> DEFINE c == Cardinality(todo)
             l == Len(next)
  <2>1. c \in Nat /\ l \in {n, n + 1} /\ Cardinality(Pending') = c - 1 /\ n + c <= MaxActions
    BY <1>1, <1>6, <1>7, <1>8
  <2>2. MaxActions \in Nat
    BY ChannelAssumption
  <2> HIDE DEF c, l, n, next
  <2>3. l \in Nat /\ l + (c - 1) <= MaxActions
    BY <1>1, <2>1, <2>2
  <2> QED
    BY <2>1, <2>3 DEF l
<1>10. ActionsOK'
  BY <1>6, <1>9 DEF ActionsOK, Numbered
<1> QED
  BY <1>2, <1>3, <1>5, <1>6, <1>10 DEF id, action

\* ActionsKept: there are never more Actions than were counted on.
LEMMA ActionsKept ==
  ASSUME ChannelInv, Next
  PROVE  ActionsOK'
<1>1. ActionsOK /\ IsBake(bake) /\ IsBake(bake')
  BY BakeKept DEF ChannelInv, BakeOK
<1>2. IsFiniteSet(Meshes) /\ MaxActions \in Nat
  BY ChannelAssumption
<1>3. ASSUME NEW S, NEW T \in SUBSET S, S \subseteq Meshes
      PROVE  Cardinality(S) \in Nat /\ Cardinality(T) \in Nat
             /\ Cardinality(T) <= Cardinality(S)
  BY <1>2, <1>3, FS_Subset, FS_CardinalityType
<1>4. ASSUME NEW b, IsBake(b)
      PROVE  b.todo \subseteq Meshes /\ DOMAIN b.targets \subseteq Meshes
  BY <1>4 DEF IsBake
<1>5. Pending \subseteq Meshes /\ Pending' \subseteq Meshes
  <2>1. /\ bake.todo \subseteq Meshes /\ DOMAIN bake.targets \subseteq Meshes
        /\ bake'.todo \subseteq Meshes /\ DOMAIN bake'.targets \subseteq Meshes
    BY <1>1, <1>4
  <2> QED
    BY <2>1 DEF Pending
<1>6. ASSUME actions' = actions, Len(actions) + Cardinality(Pending') <= MaxActions
      PROVE  ActionsOK'
  BY <1>1, <1>6 DEF ActionsOK
<1> DEFINE n == Len(actions)
           c == Cardinality(Pending)
           after == Cardinality(Pending')
<1>7. n \in Nat /\ n + c <= MaxActions
  BY <1>1 DEF ActionsOK
<1>8. CASE ~ScanForBake /\ ~WriteTarget
  <2>1. actions' = actions /\ Pending' \subseteq Pending
    BY <1>8, PendingFalls
  <2>2. c \in Nat /\ after \in Nat /\ after <= c
    BY <1>3, <1>5, <2>1
  <2> HIDE DEF n, c, after
  <2>3. n + after <= MaxActions
    BY <1>2, <1>7, <2>2
  <2> QED
    BY <1>6, <2>1, <2>3 DEF n, after
<1>9. CASE ScanForBake
  <2> DEFINE all == Cardinality(Meshes)
  <2>1. actions' = actions /\ n + all <= MaxActions
    BY <1>9 DEF ScanForBake, BeginScan
  <2>2. all \in Nat /\ after \in Nat /\ after <= all
    BY <1>3, <1>5
  <2> HIDE DEF n, all, after
  <2>3. n + after <= MaxActions
    BY <1>2, <1>7, <2>1, <2>2
  <2> QED
    BY <1>6, <2>1, <2>3 DEF n, after
<1>10. CASE WriteTarget
  <2>1. PICK m \in bake.todo : WriteAction(m) \/ WriteFails(m)
    BY <1>10 DEF WriteTarget
  <2>2. pc = "write"
    BY <1>10 DEF WriteTarget
  <2>3. CASE WriteAction(m)
    BY <2>2, <2>3, Written
  <2>4. CASE WriteFails(m)
    <3>1. actions' = actions /\ Pending' = {}
      BY <2>4, NoBakeIs DEF WriteFails, Pending
    <3>2. c \in Nat /\ after \in Nat /\ after <= c
      BY <1>3, <1>5, <3>1
    <3> HIDE DEF n, c, after
    <3>3. n + after <= MaxActions
      BY <1>2, <1>7, <3>2
    <3> QED
      BY <1>6, <3>1, <3>3 DEF n, after
  <2> QED
    BY <2>1, <2>3, <2>4
<1> QED
  BY <1>8, <1>9, <1>10

\* The curves of one datablock, of what they are made of.
Curved(targets, samples, t, m) ==
  [c \in targets[m] |->
     [frame \in t.source.first..t.source.last |->
        SampleLinear(t.rows, samples[frame - t.source.first + 1])[c]]]

\* BakedIs: what is baked depends on the track and the bake alone.
LEMMA BakedIs ==
  ASSUME bake'.targets = bake.targets, bake'.samples = bake.samples, track' = track
  PROVE  \A m : Baked(m)' = Baked(m)
<1> TAKE m
<1>1. Baked(m) = Curved(bake.targets, bake.samples, track, m)
  BY DEF Baked, BakedSample, Curved
<1>2. Baked(m)' = Curved(bake'.targets, bake'.samples, track', m)
  BY DEF Baked, BakedSample, Curved
<1> QED
  BY <1>1, <1>2

\* WriteLeads: a datablock that is written joins those that were.
LEMMA WriteLeads ==
  ASSUME ChannelInv, NEW m2 \in bake.todo, WriteAction(m2), pc = "write"
  PROVE  \A m \in DOMAIN bake.targets \ (bake.todo \ {m2}) :
           /\ meshes'[m].action \in DOMAIN actions'
           /\ \/ actions'[meshes'[m].action] = [owned |-> TRUE, curves |-> m :> Baked(m)]
              \/ \E n \in DOMAIN bake.targets \ (bake.todo \ {m2}) :
                   n # m /\ meshes'[n].action = meshes'[m].action
<1> DEFINE G == DOMAIN bake.targets
           held(m) == [owned |-> TRUE, curves |-> m :> Baked(m)]
           num == Len(actions)
<1>1. PICK id \in DOMAIN actions' :
        /\ meshes' = [meshes EXCEPT ![m2].action = id]
        /\ actions'[id] = held(m2)
        /\ \A k \in 1..num : k # id => actions'[k] = actions[k]
  BY Written
<1>2. m2 \in Meshes /\ 1..num \subseteq DOMAIN actions'
  BY Written
<1>3. /\ \A m \in G \ bake.todo :
           /\ meshes[m].action \in DOMAIN actions
           /\ \/ actions[meshes[m].action] = held(m)
              \/ \E n \in G \ bake.todo : n # m /\ meshes[n].action = meshes[m].action
      /\ DOMAIN actions = 1..num /\ G \subseteq Meshes
      /\ meshes \in [Meshes -> MeshSet({Absent} \cup DOMAIN actions)]
  BY DEF ChannelInv, WrittenOK, ActionsOK, BakeOK, IsBake, MeshesOK, MeshSet
<1> HIDE DEF num, held
<1>4. meshes'[m2].action = id /\ \A m \in Meshes : m # m2 => meshes'[m] = meshes[m]
  <2>1. \A m \in Meshes : m # m2 => meshes'[m] = meshes[m]
    BY <1>1, <1>2, <1>3
  <2>2. meshes'[m2] = [meshes[m2] EXCEPT !.action = id]
    BY <1>1, <1>2, <1>3
  <2>3. meshes[m2] \in MeshSet({Absent} \cup DOMAIN actions)
    BY <1>2, <1>3
  <2>4. meshes'[m2].action = id
    BY <2>2, <2>3 DEF MeshSet
  <2> QED
    BY <2>1, <2>4
<1> DEFINE a(m) == meshes[m].action
           b(m) == meshes'[m].action
<1>5. b(m2) = id /\ \A m \in Meshes : m # m2 => b(m) = a(m)
  BY <1>4
<1> SUFFICES ASSUME NEW m \in G \ (bake.todo \ {m2})
             PROVE  /\ b(m) \in DOMAIN actions'
                    /\ \/ actions'[b(m)] = held(m)
                       \/ \E n \in G \ (bake.todo \ {m2}) : n # m /\ b(n) = b(m)
  BY DEF held
<1>6. CASE m = m2
  BY <1>1, <1>5, <1>6
<1>7. CASE m # m2
  <2>1. m \in G \ bake.todo /\ m \in Meshes /\ b(m) = a(m) /\ a(m) \in 1..num
    BY <1>3, <1>5, <1>7
  <2>2. b(m) \in DOMAIN actions'
    BY <1>2, <2>1
  <2>3. CASE a(m) = id
    <3>1. m2 \in G
      BY DEF ChannelInv, BakeOK, IsBake
    <3>2. m2 \in G \ (bake.todo \ {m2}) /\ m2 # m /\ b(m2) = b(m)
      BY <1>5, <1>7, <2>1, <2>3, <3>1
    <3> HIDE DEF G, a, b
    <3> QED
      BY <2>2, <3>2
  <2>4. CASE a(m) # id
    <3>1. actions'[b(m)] = actions[a(m)]
      BY <1>1, <2>1, <2>4
    <3>2. CASE actions[a(m)] = held(m)
      BY <2>2, <3>1, <3>2
    <3>3. CASE \E n \in G \ bake.todo : n # m /\ a(n) = a(m)
      <4>1. PICK n \in G \ bake.todo : n # m /\ a(n) = a(m)
        BY <3>3
      <4>2. n # m2 /\ n \in Meshes
        BY <1>3
      <4>3. b(n) = b(m)
        BY <1>5, <2>1, <4>1, <4>2
      <4>4. n \in G \ (bake.todo \ {m2})
        BY <4>1
      <4> HIDE DEF G, a, b
      <4> QED
        BY <2>2, <4>1, <4>3, <4>4
    <3> QED
      BY <1>3, <2>1, <3>2, <3>3
  <2> QED
    BY <2>3, <2>4
<1> QED
  BY <1>6, <1>7

\* WrittenKept: what was written of a bake stays.
LEMMA WrittenKept ==
  ASSUME ChannelInv, Next
  PROVE  WrittenOK'
<1>1. IsBake(bake)
  BY DEF ChannelInv, BakeOK
<1>2. CASE pc' # "write"
  BY <1>2 DEF WrittenOK
<1>3. CASE bake'.todo = DOMAIN bake'.targets
  BY <1>3 DEF WrittenOK
<1> DEFINE p == bake.phase
           g == bake.targets
           d == bake.todo
           t == bake.timeline
           s == bake.samples
<1>4. bake = [phase |-> p, targets |-> g, todo |-> d, timeline |-> t, samples |-> s]
  BY <1>1 DEF IsBake
<1>5. CASE StartBake
  <2>1. PICK timeline, samples :
          LET begun == [bake EXCEPT !.phase = "waiting", !.timeline = timeline,
                                    !.samples = samples] IN
          \/ pc' = "idle"
          \/ bake' = [begun EXCEPT !.todo = DOMAIN begun.targets]
    BY <1>5 DEF StartBake, Writing
  <2> DEFINE x == [bake EXCEPT !.phase = "waiting", !.timeline = timeline,
                               !.samples = samples]
  <2>2. pc' = "idle" \/ bake' = [x EXCEPT !.todo = DOMAIN x.targets]
    BY <2>1
  <2>3. x = [bake EXCEPT !.phase = "waiting", !.timeline = timeline, !.samples = samples]
    OBVIOUS
  <2> HIDE DEF p, g, d, t, s, x
  <2>4. x = [phase |-> "waiting", targets |-> g, todo |-> d, timeline |-> timeline,
             samples |-> samples]
    BY <1>4, <2>3
  <2> DEFINE h == DOMAIN x.targets
  <2>5. h = DOMAIN g
    BY <2>4
  <2>6. pc' = "idle" \/ bake' = [x EXCEPT !.todo = h]
    BY <2>2
  <2> HIDE DEF h
  <2>7. pc' = "idle" \/ (bake'.todo = h /\ bake'.targets = g)
    BY <2>4, <2>6
  <2> QED
    BY <1>2, <1>3, <2>5, <2>7
<1>6. CASE Publish
  <2> DEFINE h == DOMAIN g
  <2>1. pc' = "idle" \/ bake' = [bake EXCEPT !.todo = h]
    BY <1>6 DEF Publish, Writing
  <2> HIDE DEF p, d, t, s, g, h
  <2>2. pc' = "idle" \/ (bake'.todo = h /\ bake'.targets = g)
    BY <1>4, <2>1
  <2> QED
    BY <1>2, <1>3, <2>2 DEF h
<1>7. CASE WriteTarget
  <2>1. /\ pc = "write" /\ track' = track
        /\ \E m \in bake.todo : WriteAction(m) \/ WriteFails(m)
    BY <1>7 DEF WriteTarget
  <2>2. PICK m2 \in bake.todo : WriteAction(m2) \/ WriteFails(m2)
    BY <2>1
  <2>3. CASE WriteFails(m2)
    BY <1>2, <2>3 DEF WriteFails
  <2>4. CASE WriteAction(m2)
    <3> DEFINE left == d \ {m2}
               phase == IF d = {m2} THEN "done" ELSE p
    <3>1. bake' = [bake EXCEPT !.todo = left, !.phase = phase]
      BY <2>4 DEF WriteAction
    <3>2. bake'.todo = left /\ bake'.targets = g /\ bake'.samples = s
      <4> HIDE DEF p, g, d, t, s, left, phase
      <4> QED
        BY <1>4, <3>1
    <3>3. \A m : Baked(m)' = Baked(m)
      BY <2>1, <3>2, BakedIs
    <3>4. \A m \in DOMAIN g \ left :
            /\ meshes'[m].action \in DOMAIN actions'
            /\ \/ actions'[meshes'[m].action] = [owned |-> TRUE, curves |-> m :> Baked(m)]
               \/ \E n \in DOMAIN g \ left :
                    n # m /\ meshes'[n].action = meshes'[m].action
      BY <2>1, <2>4, WriteLeads
    <3> HIDE DEF g, left
    <3>5. \A m \in DOMAIN bake'.targets \ bake'.todo :
            /\ meshes'[m].action \in DOMAIN actions'
            /\ \/ actions'[meshes'[m].action] = [owned |-> TRUE, curves |-> m :> Baked(m)']
               \/ \E n \in DOMAIN bake'.targets \ bake'.todo :
                    n # m /\ meshes'[n].action = meshes'[m].action
      BY <3>2, <3>3, <3>4
    <3> QED
      BY <3>5 DEF WrittenOK
  <2> QED
    BY <2>2, <2>3, <2>4
<1>8. CASE StartTrack \/ NextChunk \/ DecodeFails \/ UploadEnds \/ TrackPrepared
           \/ CancelCompleted
  BY <1>2, <1>8 DEF StartTrack, NextChunk, Uploading, DecodeFails, UploadEnds,
     TrackPrepared, CancelCompleted
<1>9. CASE ScanForRender \/ ScanForBake \/ ScanFrame \/ ScanEnds \/ ScanRaises
           \/ ScanFailed \/ RequestRender
  BY <1>2, <1>9 DEF ScanForRender, ScanForBake, BeginScan, ScanFrame, ScanEnds,
     ScanRaises, ScanStops, ScanFailed, RequestRender
<1>10. CASE CancelBake \/ EditTimeline \/ EditValue \/ EditCurves \/ MoveCursor \/ EditMesh
  BY <1>2, <1>10 DEF CancelBake, EditTimeline, EditValue, EditCurves, MoveCursor,
     EditMesh, User
<1> QED
  BY <1>5, <1>6, <1>7, <1>8, <1>9, <1>10 DEF Next
-----------------------------------------------------------------------------
(* The theorems *)

\* EditsCounted: the main thread goes on with something it knows, and the
\* edits stay within their bound.
LEMMA EditsCounted ==
  ASSUME ChannelInv, Next
  PROVE  pc' \in {"idle", "scan", "scanned", "raised", "write"} /\ used' \in 0..MaxUsed
<1>1. /\ pc \in {"idle", "scan", "scanned", "raised", "write"} /\ used \in 0..MaxUsed
      /\ MaxUsed \in Nat
  BY ChannelAssumption DEF ChannelInv
<1>2. used < MaxUsed /\ used' = used + 1 => used' \in 0..MaxUsed
  BY <1>1
<1>3. CASE StartTrack \/ NextChunk \/ DecodeFails \/ UploadEnds \/ TrackPrepared
           \/ CancelCompleted
  BY <1>1, <1>2, <1>3 DEF StartTrack, NextChunk, Uploading, DecodeFails, UploadEnds,
     TrackPrepared, CancelCompleted
<1>4. CASE ScanForRender \/ ScanForBake \/ ScanFrame \/ ScanEnds \/ ScanRaises
           \/ ScanFailed \/ RequestRender
  BY <1>1, <1>2, <1>4 DEF ScanForRender, ScanForBake, BeginScan, ScanFrame, ScanEnds,
     ScanRaises, ScanStops, ScanFailed, RequestRender
<1>5. CASE StartBake \/ Publish \/ WriteTarget \/ CancelBake
  BY <1>1, <1>2, <1>5 DEF StartBake, Publish, WriteTarget, WriteAction, WriteFails,
     CancelBake
<1>6. CASE EditTimeline \/ EditValue \/ EditCurves \/ MoveCursor \/ EditMesh
  BY <1>1, <1>2, <1>6 DEF EditTimeline, EditValue, EditCurves, MoveCursor, EditMesh, User
<1> QED
  BY <1>3, <1>4, <1>5, <1>6 DEF Next

\* ChannelStarts: the invariant holds at first.
LEMMA ChannelStarts ==
  ASSUME Init
  PROVE  ChannelInv
<1>1. /\ pc = "idle" /\ track = NoTrack /\ files = {} /\ bake = NoBake /\ used = 0
      /\ actions = <<[owned |-> FALSE, curves |-> <<>>]>>
      /\ scan.purpose = "none" /\ scan.saved.scene = scene
  BY DEF Init
<1>2. scene \in Scenes /\ scene.cursor \in Cursors
  <2>1. PICK strips \in Layouts, ticks \in Rates, curves \in Curves, cursor \in Cursors :
          scene = [first |-> 0, last |-> 1, channel |-> 1, strips |-> strips,
                   ticks |-> ticks, curves |-> curves, cursor |-> cursor,
                   values |-> Evaluated(curves, [n \in Fields |-> 1], cursor)]
    BY DEF Init
  <2> DEFINE ones == [n \in Fields |-> 1]
             values == Evaluated(curves, ones, cursor)
  <2>2. cursor \in ReadAt(strips) /\ cursor \in Int
    BY ChannelAssumption DEF ReadAt
  <2>3. \A name \in DOMAIN curves : ReadAt(strips) \subseteq DOMAIN curves[name]
    BY ChannelAssumption
  <2>4. \A name \in DOMAIN curves : cursor \in DOMAIN curves[name]
    BY <2>2, <2>3
  <2>5. ones \in [Fields -> Int]
    OBVIOUS
  <2>6. scene = [first |-> 0, last |-> 1, channel |-> 1, strips |-> strips,
                 ticks |-> ticks, curves |-> curves, cursor |-> cursor, values |-> values]
    BY <2>1
  <2> HIDE DEF ones
  <2>7. values \in [Fields -> Int]
    BY <2>4, <2>5, EvaluatedTyped
  <2> HIDE DEF values
  <2> QED
    BY <2>2, <2>6, <2>7 DEF Scenes
<1>3. SceneOK
  BY <1>2 DEF SceneOK
<1>4. actions \in Seq({[owned |-> FALSE, curves |-> <<>>]}) /\ Len(actions) = 1
      /\ DOMAIN actions = {1} /\ 1..1 = {1}
  BY <1>1
<1>5. MeshesOK
  <2>1. PICK keys \in Named :
          meshes = [m \in Meshes |-> [there |-> TRUE, keys |-> keys,
                                      shown |-> Neutral, action |-> 1]]
    BY DEF Init
  <2>2. Neutral \in [Channels -> Int]
    BY DEF Neutral
  <2>3. 1 \in {Absent} \cup DOMAIN actions
    BY <1>4
  <2> QED
    BY <2>1, <2>2, <2>3 DEF MeshesOK
<1>6. TrackOK
  BY <1>1, NoTrackOK DEF TrackOK
<1>7. ScanOK
  <2> DEFINE was == [scene |-> scene, shown |-> <<>>]
             v == scan.saved
  <2>1. /\ scan = [purpose |-> "none", frame |-> 0, entries |-> <<>>, samples |-> <<>>,
                   timeline |-> Nothing, saved |-> v]
        /\ v.scene = scene
    BY DEF Init
  <2>2. Telling(Nothing) /\ <<>> \in Seq(Entries) /\ <<>> \in Seq(Int)
    BY DEF Telling
  <2> DEFINE t == Nothing
             none == <<>>
  <2>3. /\ scan = [purpose |-> "none", frame |-> 0, entries |-> none, samples |-> none,
                   timeline |-> t, saved |-> v]
        /\ Telling(t) /\ none \in Seq(Entries) /\ none \in Seq(Int)
    BY <2>1, <2>2
  <2> HIDE DEF v, t, none
  <2>4. scan.entries = none /\ scan.samples = none /\ scan.timeline = t /\ scan.saved = v
        /\ scan = [purpose |-> scan.purpose, frame |-> scan.frame,
                   entries |-> scan.entries, samples |-> scan.samples,
                   timeline |-> scan.timeline, saved |-> scan.saved]
    BY <2>3
  <2>5. IsScan(scan)
    BY <1>1, <1>2, <2>3, <2>4 DEF IsScan
  <2> QED
    BY <1>1, <2>5 DEF ScanOK, Scanning
<1>8. BakeOK
  BY <1>1, NoBakeIs DEF BakeOK, Scanning
<1>9. ActionsOK
  <2>1. Pending = {}
    BY <1>1, NoBakeIs DEF Pending
  <2>2. Cardinality(Pending) = 0
    BY <2>1, FS_EmptySet
  <2>3. MaxActions \in Nat \ {0}
    BY ChannelAssumption
  <2>4. Len(actions) + Cardinality(Pending) <= MaxActions
    BY <1>4, <2>2, <2>3
  <2>5. actions = [k \in 1..Len(actions) |-> actions[k]]
    BY <1>4, LenProperties
  <2> QED
    BY <1>4, <2>4, <2>5 DEF ActionsOK
<1>10. WrittenOK
  BY <1>1 DEF WrittenOK
<1>11. TimelineIsAuthored
  BY <1>1 DEF TimelineIsAuthored
<1>12. used \in 0..MaxUsed
  BY <1>1, ChannelAssumption
<1> QED
  BY <1>1, <1>3, <1>5, <1>6, <1>7, <1>8, <1>9, <1>10, <1>11, <1>12 DEF ChannelInv

\* ChannelStutters: what nobody touches stays.
LEMMA ChannelStutters ==
  ASSUME ChannelInv, UNCHANGED vars
  PROVE  ChannelInv'
<1>1. /\ pc' = pc /\ scene' = scene /\ meshes' = meshes /\ actions' = actions
      /\ track' = track /\ files' = files /\ scan' = scan /\ bake' = bake /\ used' = used
  BY DEF vars
<1>2. SceneOK' /\ MeshesOK' /\ TrackOK'
  BY <1>1 DEF ChannelInv, SceneOK, MeshesOK, TrackOK
<1>3. ScanOK'
  BY <1>1 DEF ChannelInv, ScanOK, Scanning, Alone, Visiting
<1>4. BakeOK' /\ ActionsOK'
  BY <1>1 DEF ChannelInv, BakeOK, Scanning, ActionsOK, Pending
<1>5. WrittenOK'
  <2>1. \A m : Baked(m)' = Baked(m)
    BY <1>1, BakedIs
  <2> QED
    BY <1>1, <2>1 DEF ChannelInv, WrittenOK
<1>6. TimelineIsAuthored'
  BY <1>1 DEF ChannelInv, TimelineIsAuthored
<1> QED
  BY <1>1, <1>2, <1>3, <1>4, <1>5, <1>6 DEF ChannelInv

\* ChannelInvariant: the invariant holds whatever is edited, and however the
\* scans, the renders and the bakes follow each other.
THEOREM ChannelInvariant == Spec => []ChannelInv
<1>1. Init => ChannelInv
  BY ChannelStarts
<1>2. ChannelInv /\ [Next]_vars => ChannelInv'
  <2>1. CASE ChannelInv /\ Next
    BY <2>1, EditsCounted, SceneKept, MeshesKept, TrackKept, ScanKept, BakeKept,
       ActionsKept, WrittenKept DEF ChannelInv
  <2>2. CASE ChannelInv /\ UNCHANGED vars
    BY <2>2, ChannelStutters
  <2> QED
    BY <2>1, <2>2
<1> QED
  BY <1>1, <1>2, PTL DEF Spec

\* ChannelTypeOK: the track, the datablocks, their Actions and the bake stay
\* what the code takes them for, and no more Actions are made than fit.
THEOREM ChannelTypeOK == Spec => []TypeOK
<1>1. ChannelInv => TypeOK
  <2> SUFFICES ASSUME ChannelInv PROVE TypeOK
    OBVIOUS
  <2>1. /\ pc \in {"idle", "scan", "scanned", "raised", "write"} /\ used \in 0..MaxUsed
        /\ scene \in Scenes /\ MeshesOK /\ IsTrack(track) /\ Reading(track, files)
        /\ BakeOK /\ IsBake(bake) /\ ActionsOK
    BY DEF ChannelInv, SceneOK, TrackOK, BakeOK
  <2>2. /\ scene.strips \in Layouts /\ scene.curves \in Curves
        /\ scene.values \in [Fields -> Int]
    BY <2>1 DEF Scenes
  <2>3. Len(actions) <= MaxActions
    <3>1. Pending \subseteq Meshes /\ IsFiniteSet(Meshes) /\ MaxActions \in Nat
      BY <2>1, ChannelAssumption DEF Pending, IsBake
    <3>2. Cardinality(Pending) \in Nat
      BY <3>1, FS_Subset, FS_CardinalityType
    <3> QED
      BY <2>1, <3>1, <3>2 DEF ActionsOK
  <2>4. /\ track.phase \in Phases /\ files \subseteq track.source.clips
        /\ track.phase # "none" => ~Endless(track.source)
    BY <2>1 DEF IsTrack, Reading
  <2>5. /\ bake.phase \in {"none", "planned", "waiting", "done"}
        /\ bake.todo \subseteq DOMAIN bake.targets /\ (pc = "write" <=> bake.todo # {})
    BY <2>1 DEF BakeOK, IsBake
  <2> QED
    BY <2>1, <2>2, <2>3, <2>4, <2>5 DEF TypeOK, MeshesOK, Phases
<1> QED
  BY <1>1, ChannelInvariant, PTL

\* ChannelHeard: whatever the strips, the frame rate and the chunks, what is
\* uploaded is the channel sample by sample, all of it before it is prepared.
THEOREM ChannelHeard == Spec => []WholeChannelHeard
<1>1. ChannelInv => WholeChannelHeard
  <2> SUFFICES ASSUME ChannelInv PROVE WholeChannelHeard
    OBVIOUS
  <2>1. IsTrack(track) /\ Uploaded(track) /\ Reading(track, files)
    BY DEF ChannelInv, TrackOK
  <2>2. track.audio \in Seq(Int) /\ track.opened \in Seq(Clips)
    BY <2>1 DEF IsTrack
  <2>3. DOMAIN track.audio = 1..Len(track.audio) /\ DOMAIN track.opened = 1..Len(track.opened)
    BY <2>2, LenProperties
  <2>4. IsInjective(track.opened)
    BY <2>1, <2>3 DEF Reading, IsInjective
  <2> QED
    BY <2>1, <2>3, <2>4 DEF Uploaded, Reading, WholeChannelHeard
<1> QED
  BY <1>1, ChannelInvariant, PTL

\* SettingsAreAuthored: a scan leaves the scene as it found it, and its
\* timeline says at every frame, to the worker as to the client, what the
\* user set, whatever the curves, the cursor and the number of frames.
THEOREM SettingsAreAuthored == Spec => []TimelineIsAuthored
<1>1. ChannelInv => TimelineIsAuthored
  BY DEF ChannelInv
<1> QED
  BY <1>1, ChannelInvariant, PTL

\* OthersStay: an Action of an artist's is never written.
LEMMA OthersStay ==
  ASSUME ChannelInv, Next
  PROVE  \A id \in DOMAIN actions : ~actions[id].owned => actions'[id] = actions[id]
<1>1. CASE ~WriteTarget
  <2>1. actions' = actions
    <3>1. ScanForBake => actions' = actions
      BY DEF ScanForBake, BeginScan
    <3> QED
      BY <1>1, <3>1, PendingFalls
  <2> QED
    BY <2>1
<1>2. CASE WriteTarget
  <2>1. PICK m \in bake.todo : WriteAction(m) \/ WriteFails(m)
    BY <1>2 DEF WriteTarget
  <2>2. pc = "write"
    BY <1>2 DEF WriteTarget
  <2>3. CASE WriteFails(m)
    BY <2>3 DEF WriteFails
  <2>4. CASE WriteAction(m)
    <3> DEFINE n == Len(actions)
    <3>1. PICK to \in DOMAIN actions' :
            /\ to = (IF Reused(m) THEN meshes[m].action ELSE n + 1)
            /\ \A k \in 1..n : k # to => actions'[k] = actions[k]
      BY <2>2, <2>4, Written
    <3>2. DOMAIN actions = 1..n /\ n \in Nat
      BY DEF ChannelInv, ActionsOK
    <3> SUFFICES ASSUME NEW id \in DOMAIN actions, ~actions[id].owned
                 PROVE  actions'[id] = actions[id]
      OBVIOUS
    <3>3. id # to
      <4>1. CASE Reused(m)
        BY <3>1, <4>1 DEF Reused
      <4>2. CASE ~Reused(m)
        <5>1. to = n + 1 /\ id \in 1..n
          BY <3>1, <3>2, <4>2
        <5> HIDE DEF n
        <5> QED
          BY <3>2, <5>1
      <4> QED
        BY <4>1, <4>2
    <3> QED
      BY <3>1, <3>2, <3>3
  <2> QED
    BY <2>1, <2>3, <2>4
<1> QED
  BY <1>1, <1>2

\* BakedGoes: what is baked is what going to each frame would show.
LEMMA BakedGoes ==
  ASSUME ChannelInv, bake.phase = "waiting", NEW m
  PROVE  Baked(m) =
           [c \in bake.targets[m] |->
              [frame \in track.source.first..track.source.last |->
                 SampleLinear(track.rows,
                   FrameToSample(track.source, frame,
                     Intended(scan.saved.scene, frame)["delay"]))[c]]]
<1> DEFINE source == track.source
           saved == scan.saved.scene
           a == source.first
           b == source.last
           samples == bake.samples
<1>1. /\ Seen(source, saved, samples, Frames(source))
      /\ track.phase \notin {"none", "canceling"} /\ IsTrack(track)
  BY DEF ChannelInv, BakeOK, TrackOK
<1>2. source \in Sources
  BY <1>1 DEF IsTrack
<1>3. a \in Int /\ b \in Int /\ Frames(source) = b + 1 - a
  BY <1>2 DEF Sources, Frames
<1>4. ASSUME NEW frame \in a..b
      PROVE  BakedSample(frame)
               = FrameToSample(source, frame, Intended(saved, frame)["delay"])
  <2> DEFINE k == frame - a + 1
             n == Frames(source)
  <2>1. \A j \in 1..n : samples[j] = FrameToSample(source, FrameAt(source, j),
                                       Intended(saved, FrameAt(source, j))["delay"])
    BY <1>1 DEF Seen
  <2>2. FrameAt(source, k) = a + k - 1 /\ BakedSample(frame) = samples[k]
    BY DEF FrameAt, BakedSample
  <2>3. k \in 1..n /\ a + k - 1 = frame
    <3>1. a \in Int /\ b \in Int /\ n = b + 1 - a /\ frame \in a..b
      BY <1>3
    <3> HIDE DEF a, b, n
    <3> QED
      BY <3>1
  <2> HIDE DEF k, n, source, saved, samples, a
  <2> QED
    BY <2>1, <2>2, <2>3
<1>5. Baked(m) = [c \in bake.targets[m] |->
                    [frame \in a..b |-> SampleLinear(track.rows, BakedSample(frame))[c]]]
  BY DEF Baked
<1> DEFINE to(frame) == FrameToSample(source, frame, Intended(saved, frame)["delay"])
<1> HIDE DEF to, a, b
<1>6. \A frame \in a..b : BakedSample(frame) = to(frame)
  BY <1>4 DEF to
<1>7. \A c : [frame \in a..b |-> SampleLinear(track.rows, BakedSample(frame))[c]]
               = [frame \in a..b |-> SampleLinear(track.rows, to(frame))[c]]
  BY <1>6
<1>8. Baked(m) = [c \in bake.targets[m] |->
                    [frame \in a..b |-> SampleLinear(track.rows, to(frame))[c]]]
  BY <1>5, <1>7
<1> QED
  BY <1>8 DEF to, a, b

\* Completes: the bake ends with the last of its datablocks.
LEMMA Completes ==
  ASSUME ChannelInv, Next, pc = "write", bake'.phase = "done"
  PROVE  \A m \in DOMAIN bake.targets : Shared(m) \/
           actions'[meshes'[m].action] = [owned |-> TRUE, curves |-> m :> Baked(m)]
<1>1. WriteTarget
  <2>1. ~ScanForBake
    BY DEF ScanForBake, BeginScan
  <2> QED
    BY <2>1, PendingFalls
<1>2. PICK m2 \in bake.todo : WriteAction(m2) \/ WriteFails(m2)
  BY <1>1 DEF WriteTarget
<1>3. WriteAction(m2)
  <2>1. WriteFails(m2) => bake'.phase = "none"
    BY NoBakeIs DEF WriteFails
  <2> QED
    BY <1>2, <2>1
<1>4. bake.todo = {m2}
  <2>1. IsBake(bake) /\ bake.phase = "waiting"
    BY DEF ChannelInv, BakeOK
  <2> DEFINE p == bake.phase
             g == bake.targets
             d == bake.todo
             t == bake.timeline
             s == bake.samples
             f == IF d = {m2} THEN "done" ELSE p
             left == d \ {m2}
  <2>2. bake = [phase |-> p, targets |-> g, todo |-> d, timeline |-> t, samples |-> s]
    BY <2>1 DEF IsBake
  <2>3. bake' = [bake EXCEPT !.todo = left, !.phase = f]
    BY <1>3 DEF WriteAction
  <2> HIDE DEF p, g, d, t, s, f, left
  <2>4. bake'.phase = f
    BY <2>2, <2>3
  <2> QED
    BY <2>1, <2>4 DEF f, p, d
<1>5. \A m \in DOMAIN bake.targets :
        \/ actions'[meshes'[m].action] = [owned |-> TRUE, curves |-> m :> Baked(m)]
        \/ \E n \in DOMAIN bake.targets : n # m /\ meshes'[n].action = meshes'[m].action
  BY <1>3, <1>4, WriteLeads
<1> QED
  BY <1>5 DEF Shared

\* BakesAreWhole: whatever is edited around it, a bake leaves the Actions of
\* artists alone, and the Actions it completes hold at every frame what going
\* there would show.
THEOREM BakesAreWhole == Spec => BakeIsWhole
<1> DEFINE going(m) ==
             [c \in bake.targets[m] |->
                [frame \in track.source.first..track.source.last |->
                   SampleLinear(track.rows,
                     FrameToSample(track.source, frame,
                       Intended(scan.saved.scene, frame)["delay"]))[c]]]
           unwritten ==
             \A id \in DOMAIN actions : ~actions[id].owned => actions'[id] = actions[id]
           whole ==
             (pc = "write" /\ bake'.phase = "done") =>
               \A m \in DOMAIN bake.targets : Shared(m) \/
                 actions'[meshes'[m].action] = [owned |-> TRUE, curves |-> m :> going(m)]
<1>1. ChannelInv /\ Next => unwritten
  BY OthersStay
<1>2. ChannelInv /\ Next => whole
  <2> SUFFICES ASSUME ChannelInv, Next, pc = "write", bake'.phase = "done",
                      NEW m \in DOMAIN bake.targets
               PROVE  Shared(m) \/ actions'[meshes'[m].action]
                                     = [owned |-> TRUE, curves |-> m :> going(m)]
    OBVIOUS
  <2>1. bake.phase = "waiting"
    BY DEF ChannelInv, BakeOK
  <2>2. Baked(m) = going(m)
    BY <2>1, BakedGoes
  <2>3. Shared(m) \/ actions'[meshes'[m].action]
                       = [owned |-> TRUE, curves |-> m :> Baked(m)]
    BY Completes
  <2> HIDE DEF going
  <2> QED
    BY <2>2, <2>3
<1>3. ChannelInv /\ [Next]_vars => [unwritten /\ whole]_vars
  BY <1>1, <1>2
<1> QED
  BY <1>3, ChannelInvariant, PTL DEF Spec, BakeIsWhole
=============================================================================
