--------------------------- MODULE SequenceProofs ---------------------------
(***************************************************************************)
(* What the transforms of a sequence layer give (SequenceOps), for every   *)
(* list of notes: notes where a note can be.  First the operators they are *)
(* built from, on numbers, lists and orders; then each transform.          *)
(***************************************************************************)
EXTENDS SequenceOps, FiniteSetTheorems, SequenceTheorems, TLAPS

\* The greater of two numbers, as the bounds have it.
LEMMA MaxOfTwo == ASSUME NEW a \in Int, NEW b \in Int PROVE Max({a, b}) = IF a >= b THEN a ELSE b
<1>1. PICK m : m = IF a >= b THEN a ELSE b
  OBVIOUS
<1>2. m \in {a, b} /\ \A y \in {a, b} : m >= y
  BY <1>1
<1>3. \A x \in {a, b} : (\A y \in {a, b} : x >= y) => x = m
  BY <1>1
<1> QED
  BY <1>1, <1>2, <1>3, Zenon DEF Max

\* The smaller of two numbers, as the bounds have it.
LEMMA MinOfTwo == ASSUME NEW a \in Int, NEW b \in Int PROVE Min({a, b}) = IF a <= b THEN a ELSE b
<1>1. PICK m : m = IF a <= b THEN a ELSE b
  OBVIOUS
<1>2. m \in {a, b} /\ \A y \in {a, b} : m =< y
  BY <1>1
<1>3. \A x \in {a, b} : (\A y \in {a, b} : x =< y) => x = m
  BY <1>1
<1> QED
  BY <1>1, <1>2, <1>3, Zenon DEF Min

\* Clamping puts a number between its bounds.
LEMMA ClampFacts ==
    ASSUME NEW x \in Int, NEW low \in Int, NEW high \in Int, low <= high
    PROVE  Clamp(x, low, high) = IF x < low THEN low ELSE IF x > high THEN high ELSE x
<1>1. PICK m \in Int : m = Min({x, high}) /\ m = IF x <= high THEN x ELSE high
  BY MinOfTwo
<1>2. Clamp(x, low, high) = Max({low, m})
  BY <1>1, Zenon DEF Clamp
<1> QED
  BY <1>1, <1>2, MaxOfTwo
-----------------------------------------------------------------------------
(* Lists and numbers.                                                      *)

\* A note where a note can be.
PlayNote == [pitch : 0..MaxPitch, start : Nat, dur : Nat \ {0}, vel : 0..MaxVelocity]
Sorted(notes) == \A i, j \in DOMAIN notes : i < j => notes[i].start <= notes[j].start

\* A function on an interval is a list of its values.
LEMMA TabulatedList ==
    ASSUME NEW n \in Nat, NEW D, NEW list, list = [i \in 1..n |-> list[i]], \A i \in 1..n : list[i] \in D
    PROVE  list \in Seq(D) /\ Len(list) = n /\ DOMAIN list = 1..n
<1>1. list \in [1..n -> D] /\ DOMAIN list = 1..n
  OBVIOUS
<1>2. list \in Seq(D)
  BY <1>1, SeqDef, Zenon
<1> QED
  BY <1>1, <1>2

\* And a list is a function on an interval.
LEMMA ListTabulated ==
    ASSUME NEW D, NEW list \in Seq(D)
    PROVE  \E n \in Nat : /\ n = Len(list) /\ DOMAIN list = 1..n /\ list = [i \in 1..n |-> list[i]]
                          /\ \A i \in 1..n : list[i] \in D
OBVIOUS

\* Without one of its elements a list is the rest of it, moved up.
LEMMA Removed ==
    ASSUME NEW D, NEW list \in Seq(D), NEW k \in DOMAIN list
    PROVE  /\ RemoveAt(list, k) \in Seq(D) /\ Len(RemoveAt(list, k)) = Len(list) - 1
           /\ DOMAIN RemoveAt(list, k) = 1..Len(list) - 1
           /\ \A i \in 1..Len(list) - 1 : RemoveAt(list, k)[i] = IF i < k THEN list[i] ELSE list[i + 1]
<1>1. PICK n \in Nat : n = Len(list) /\ DOMAIN list = 1..n
  OBVIOUS
<1>2. PICK a, b : a = SubSeq(list, 1, k - 1) /\ b = SubSeq(list, k + 1, n)
  OBVIOUS
<1>3. /\ a \in Seq(D) /\ Len(a) = k - 1 /\ \A i \in 1..k - 1 : a[i] = list[i]
      /\ b \in Seq(D) /\ Len(b) = n - k /\ \A i \in 1..n - k : b[i] = list[k + i]
  <2>1. k \in 1..n /\ k \in Int /\ n = Len(list) /\ list \in [1..n -> D]
    BY <1>1
  <2>2. a \in Seq(D) /\ Len(a) = k - 1
    BY <1>2, <2>1
  <2>3. b \in Seq(D) /\ Len(b) = n - k
    <3>1. k + 1 \in Int /\ n \in Int /\ \A i \in k + 1..n : list[i] \in D
      BY <2>1
    <3>2. PICK length : length = IF k + 1 <= n THEN n - (k + 1) + 1 ELSE 0
      OBVIOUS
    <3>3. b \in Seq(D) /\ Len(b) = length
      BY <1>2, <3>1, <3>2, SubSeqProperties, Zenon
    <3>4. length = n - k
      <4>1. k \in Int /\ k <= n
        BY <2>1
      <4> QED
        BY <3>2, <4>1
    <3> QED
      BY <3>3, <3>4, Zenon
  <2>4. \A i \in 1..k - 1 : a[i] = list[i]
    BY <1>2, <2>1
  <2>5. \A i \in 1..n - k : b[i] = list[k + i]
    BY <1>2, <2>1
  <2> QED
    BY <2>2, <2>3, <2>4, <2>5
<1>4. PICK rest : rest = RemoveAt(list, k)
  OBVIOUS
<1>5. rest = a \o b
  BY <1>1, <1>2, <1>4 DEF RemoveAt
<1>6. rest \in Seq(D) /\ Len(rest) = n - 1 /\ \A i \in 1..n - 1 : rest[i] = IF i <= k - 1 THEN a[i] ELSE b[i - (k - 1)]
  BY <1>1, <1>3, <1>5, SMTT(60)
<1>7. \A i \in 1..n - 1 : rest[i] = IF i < k THEN list[i] ELSE list[i + 1]
  <2> SUFFICES ASSUME NEW i \in 1..n - 1 PROVE rest[i] = IF i < k THEN list[i] ELSE list[i + 1]
    OBVIOUS
  <2>1. CASE i < k
    <3>1. i \in 1..k - 1 /\ i <= k - 1
      BY <1>1, <2>1
    <3>2. rest[i] = a[i]
      BY <1>6, <3>1, Zenon
    <3>3. a[i] = list[i]
      BY <1>3, <3>1, Zenon
    <3> QED
      BY <2>1, <3>2, <3>3
  <2>2. CASE ~(i < k)
    <3>1. PICK j : j = i - (k - 1)
      OBVIOUS
    <3>2. j \in 1..n - k /\ k + j = i + 1 /\ ~(i <= k - 1)
      BY <1>1, <2>2, <3>1
    <3>3. rest[i] = b[j]
      BY <1>6, <3>1, <3>2, Zenon
    <3>4. b[j] = list[k + j]
      BY <1>3, <3>2, Zenon
    <3> QED
      BY <2>2, <3>2, <3>3, <3>4
  <2> QED
    BY <2>1, <2>2
<1> QED
  BY <1>1, <1>4, <1>6, <1>7

\* With one element more, those from its place on are moved down.
LEMMA Inserted ==
    ASSUME NEW D, NEW list \in Seq(D), NEW k \in 1..Len(list) + 1, NEW x \in D
    PROVE  /\ InsertAt(list, k, x) \in Seq(D) /\ Len(InsertAt(list, k, x)) = Len(list) + 1
           /\ DOMAIN InsertAt(list, k, x) = 1..Len(list) + 1
           /\ \A i \in 1..Len(list) + 1 :
                InsertAt(list, k, x)[i] = IF i < k THEN list[i] ELSE IF i = k THEN x ELSE list[i - 1]
<1>1. PICK n \in Nat : n = Len(list) /\ DOMAIN list = 1..n
  OBVIOUS
<1>2. PICK a, b, c : a = SubSeq(list, 1, k - 1) /\ b = SubSeq(list, k, n) /\ c = <<x>>
  OBVIOUS
<1>3. /\ a \in Seq(D) /\ Len(a) = k - 1 /\ \A i \in 1..k - 1 : a[i] = list[i]
      /\ b \in Seq(D) /\ Len(b) = n + 1 - k /\ \A i \in 1..n + 1 - k : b[i] = list[k - 1 + i]
      /\ c \in Seq(D) /\ Len(c) = 1 /\ c[1] = x
  BY <1>1, <1>2
<1>4. PICK more, ac : more = InsertAt(list, k, x) /\ ac = a \o c
  OBVIOUS
<1>5. more = ac \o b
  BY <1>1, <1>2, <1>4 DEF InsertAt
<1>6. ac \in Seq(D) /\ Len(ac) = k /\ \A i \in 1..k : ac[i] = IF i < k THEN list[i] ELSE x
  <2>1. PICK m \in Nat : m = k - 1 /\ k = m + 1
    BY <1>1
  <2>2. PICK l \in Nat : l = 1
    OBVIOUS
  <2>3. a \in Seq(D) /\ Len(a) = m /\ c \in Seq(D) /\ Len(c) = l /\ ac = a \o c
    BY <1>3, <1>4, <2>1, <2>2
  <2>4. ac \in Seq(D) /\ Len(ac) = m + l
    <3>1. Len(ac) = Len(a) + Len(c) /\ ac \in Seq(D)
      BY <2>3, ConcatProperties, Zenon
    <3> QED
      BY <2>3, <3>1
  <2>6. \A i \in 1..(m + l) : ac[i] = IF i <= m THEN a[i] ELSE c[i - m]
    BY <2>3
  <2>5. ASSUME NEW i \in 1..k PROVE ac[i] = IF i < k THEN list[i] ELSE x
    <3>1. ac[i] = IF i <= m THEN a[i] ELSE c[i - m]
      BY <2>1, <2>2, <2>5, <2>6
    <3>2. CASE i <= m
      <4>1. a[i] = list[i]
        BY <1>3, <2>1, <3>2
      <4> QED
        BY <2>1, <3>1, <3>2, <4>1
    <3>3. CASE ~(i <= m)
      <4>1. i - m = 1 /\ ~(i < k)
        BY <2>1, <3>3
      <4> QED
        BY <1>3, <3>1, <3>3, <4>1
    <3> QED
      BY <3>2, <3>3
  <2> QED
    BY <2>1, <2>2, <2>4, <2>5
<1>7. more \in Seq(D) /\ Len(more) = n + 1 /\ \A i \in 1..n + 1 : more[i] = IF i <= k THEN ac[i] ELSE b[i - k]
  <2>1. PICK m \in Nat : m = n + 1 - k /\ k \in Nat /\ n + 1 = k + m
    BY <1>1
  <2>2. ac \in Seq(D) /\ Len(ac) = k /\ b \in Seq(D) /\ Len(b) = m
    BY <1>3, <1>6, <2>1
  <2>3. more \in Seq(D) /\ Len(more) = k + m
    BY <1>5, <2>1, <2>2
  <2>4. \A i \in 1..(k + m) : more[i] = IF i <= k THEN ac[i] ELSE b[i - k]
    BY <1>5, <2>1, <2>2
  <2> QED
    BY <2>1, <2>3, <2>4
<1>8. \A i \in 1..n + 1 : more[i] = IF i < k THEN list[i] ELSE IF i = k THEN x ELSE list[i - 1]
  <2> SUFFICES ASSUME NEW i \in 1..n + 1 PROVE more[i] = IF i < k THEN list[i] ELSE IF i = k THEN x ELSE list[i - 1]
    OBVIOUS
  <2>1. CASE i <= k
    <3>1. i \in 1..k /\ (i < k \/ i = k)
      BY <2>1
    <3>2. more[i] = ac[i]
      BY <1>7, <2>1
    <3>3. ac[i] = IF i < k THEN list[i] ELSE x
      BY <1>6, <3>1
    <3> QED
      BY <3>1, <3>2, <3>3
  <2>2. CASE i > k
    <3>1. PICK j : j = i - k
      OBVIOUS
    <3>2. j \in 1..n + 1 - k /\ k - 1 + j = i - 1 /\ ~(i <= k) /\ ~(i < k) /\ i # k
      BY <1>1, <2>2, <3>1
    <3>3. more[i] = b[j]
      BY <1>7, <3>1, <3>2, Zenon
    <3>4. b[j] = list[k - 1 + j]
      BY <1>3, <3>2, Zenon
    <3> QED
      BY <3>2, <3>3, <3>4
  <2> QED
    BY <2>1, <2>2
<1> QED
  BY <1>1, <1>4, <1>7, <1>8

\* The parts of a division.
LEMMA Divided ==
    ASSUME NEW a \in Int, NEW b \in Nat, b > 0
    PROVE  /\ a \div b \in Int /\ b * (a \div b) <= a /\ a < b * (a \div b) + b
<1>1. a \div b \in Int /\ a % b \in 0..b - 1 /\ a = b * (a \div b) + (a % b)
  OBVIOUS
<1>2. b * (a \div b) \in Int
  BY <1>1
<1> QED
  BY <1>1, <1>2

LEMMA Multiplied == ASSUME NEW a \in Int, NEW b \in Int, NEW c \in Nat, a <= b PROVE c * a <= c * b /\ c * a \in Int /\ c * b \in Int
OBVIOUS

\* A number that is rounded is one.
LEMMA Rounded == ASSUME NEW a \in Int, NEW b \in Nat, b > 0 PROVE Round(a, b) \in Int
<1>1. PICK c \in Nat, x \in Int, y \in Int : c = 2 * b /\ c > 0 /\ x = 2 * a + b /\ y = b - 2 * a
  OBVIOUS
<1>2. x \div c \in Int /\ y \div c \in Int
  BY <1>1, Divided
<1>3. Round(a, b) = IF a >= 0 THEN x \div c ELSE -(y \div c)
  BY <1>1 DEF Round
<1> QED
  BY <1>2, <1>3

\* The mean of numbers up to a bound is within it.
LEMMA MeanBound ==
    ASSUME NEW sum \in Nat, NEW n \in Nat, n > 0, sum <= MaxVelocity * n
    PROVE  Round(sum, n) \in 0..MaxVelocity
<1>1. PICK c \in Nat, x \in Nat, q \in Int : c = 2 * n /\ c > 0 /\ x = 2 * sum + n /\ q = x \div c
  <2>1. PICK c \in Nat : c = 2 * n /\ c > 0
    OBVIOUS
  <2>2. PICK x \in Nat : x = 2 * sum + n
    OBVIOUS
  <2>3. PICK q \in Int : q = x \div c
    BY <2>1, Divided
  <2> QED
    BY <2>1, <2>2, <2>3, Zenon
<1>2. Round(sum, n) = q
  BY <1>1 DEF Round
<1>3. c * q <= x /\ x < c * q + c
  BY <1>1, Divided
<1>4. q >= 0
  <2>1. SUFFICES ASSUME q <= -1 PROVE FALSE
    BY <1>1
  <2>2. c * q <= c * (-1) /\ c * q \in Int
    BY <1>1, <2>1, Multiplied
  <2> QED
    BY <1>1, <1>3, <2>2
<1>5. q <= 127
  <2>1. SUFFICES ASSUME 128 <= q PROVE FALSE
    BY <1>1
  <2>2. c * 128 <= c * q /\ c * q \in Int
    BY <1>1, <2>1, Multiplied
  <2>3. x <= 255 * n
    BY <1>1 DEF MaxVelocity
  <2> QED
    BY <1>1, <1>3, <2>2, <2>3
<1> QED
  BY <1>2, <1>4, <1>5 DEF MaxVelocity

-----------------------------------------------------------------------------
(* Ranks in an order.                                                     *)

\* What std::erase_if leaves of a list: elements that were in it and are in the set, one at
\* least if there was one, and in the order of time if they were.
SieveStep(ctx, kept, x) == IF x \in ctx THEN Append(kept, x) ELSE kept
SieveHolds(ctx, done, kept) ==
    /\ kept \in Seq(Range(done) \cap ctx) /\ Range(kept) \subseteq Range(done) \cap ctx
    /\ Range(done) \cap ctx # {} => kept # <<>>
    /\ Sorted(done) => Sorted(kept)
Sieve == INSTANCE FoldLemmas WITH Step <- SieveStep, Holds <- SieveHolds

\* The first and the last of some numbers.
LEMMA LeastOf == ASSUME NEW S, S \subseteq Nat, S # {} PROVE Min(S) \in S /\ \A y \in S : Min(S) <= y
<1>1. \E x \in S : \A y \in S : x <= y
  BY Sieve!LeastElement
<1> QED
  BY <1>1, Zenon DEF Min

LEMMA GreatestOf ==
    ASSUME NEW S, S \subseteq Nat, S # {}, NEW b \in Nat, \A y \in S : y <= b
    PROVE  Max(S) \in S /\ \A y \in S : y <= Max(S)
<1> DEFINE T == {k \in Nat : \A y \in S : y <= k}
<1>1. b \in T
  OBVIOUS
<1>2. PICK k \in T : \A j \in T : k <= j
  <2>1. T \subseteq Nat /\ T # {}
    BY <1>1
  <2> QED
    BY <2>1, Sieve!LeastElement, Zenon
<1>3. k \in S
  <2>1. SUFFICES ASSUME k \notin S PROVE FALSE
    OBVIOUS
  <2>2. PICK z \in S : TRUE
    OBVIOUS
  <2>3. \A y \in S : y \in Nat /\ y <= k /\ y # k
    BY <1>2, <2>1
  <2>4. k \in Nat /\ z \in Nat /\ z < k
    BY <1>2, <2>3
  <2>5. k - 1 \in T
    BY <2>3, <2>4
  <2> QED
    BY <1>2, <2>4, <2>5
<1>4. \E x \in S : \A y \in S : x >= y
  <2>1. \A y \in S : k >= y
    BY <1>2
  <2> QED
    BY <1>3, <2>1
<1>5. Max(S) \in S /\ \A y \in S : Max(S) >= y
  BY <1>4, Zenon DEF Max
<1> QED
  BY <1>5

\* Finitely many numbers have a bound.
LEMMA Bounded ==
    ASSUME NEW n \in Nat, NEW f, \A i \in 1..n : f[i] \in Nat
    PROVE  \E b \in Nat : \A i \in 1..n : f[i] <= b
<1> DEFINE Has(m, b) == \A i \in 1..m : f[i] <= b
<1> DEFINE T == {m \in Nat : m <= n /\ ~\E b \in Nat : Has(m, b)}
<1>1. T = {}
  <2>1. SUFFICES ASSUME T # {} PROVE FALSE
    OBVIOUS
  <2>2. PICK m \in T : \A k \in T : m <= k
    <3>1. T \subseteq Nat
      OBVIOUS
    <3> QED
      BY <2>1, <3>1, Sieve!LeastElement, Zenon
  <2>3. m \in Nat /\ m <= n /\ m # 0
    <3>1. Has(0, 0)
      OBVIOUS
    <3> QED
      BY <2>2, <3>1
  <2>4. m - 1 \in Nat /\ m - 1 <= n /\ m - 1 \notin T
    <3>1. m - 1 \in Nat /\ m - 1 <= n /\ ~(m <= m - 1)
      BY <2>3
    <3>2. m - 1 \notin T
      BY <2>2, <3>1, Zenon
    <3> QED
      BY <3>1, <3>2
  <2>5. PICK b \in Nat : Has(m - 1, b)
    BY <2>4
  <2>6. PICK x \in Nat : x = f[m]
    BY <2>3
  <2>7. PICK c \in Nat : c >= b /\ c >= x
    <3>1. b + x \in Nat /\ b + x >= b /\ b + x >= x
      OBVIOUS
    <3> QED
      BY <3>1
  <2>8. ASSUME NEW i \in 1..m PROVE f[i] <= c
    <3>1. CASE i = m
      BY <2>6, <2>7, <3>1
    <3>2. CASE i # m
      <4>1. i \in 1..m - 1 /\ i \in 1..n
        BY <2>3, <2>8, <3>2
      <4>2. f[i] <= b /\ f[i] \in Nat
        BY <2>5, <4>1
      <4> QED
        BY <2>7, <4>2
    <3> QED
      BY <3>1, <3>2
  <2>9. Has(m, c)
    BY <2>8
  <2> QED
    BY <2>2, <2>9, Zenon
<1>2. n \notin T
  BY <1>1
<1> QED
  BY <1>2

\* A set of the first places, all of them up to the last.
LEMMA FirstPlaces ==
    ASSUME NEW n \in Nat, NEW S, S \subseteq 1..n, \A i \in S : \A j \in 1..i : j \in S
    PROVE  S = 1..Cardinality(S) /\ Cardinality(S) \in 0..n
<1> DEFINE T == {m \in Nat : m + 1 \notin S}
<1>1. n \in T
  BY SMT
<1>2. PICK m \in T : \A k \in T : m <= k
  <2>1. T \subseteq Nat /\ T # {}
    BY <1>1
  <2> QED
    BY <2>1, Sieve!LeastElement, Zenon
<1>3. m \in Nat /\ m <= n
  BY <1>1, <1>2
<1>4. S = 1..m
  <2>1. ASSUME NEW i \in S PROVE i \in 1..m
    <3>1. i \in 1..n
      OBVIOUS
    <3>2. SUFFICES ASSUME i > m PROVE FALSE
      BY <1>3, <3>1
    <3>3. m + 1 \in 1..i
      BY <1>3, <3>1, <3>2
    <3> QED
      BY <1>2, <3>3
  <2>2. ASSUME NEW i \in 1..m PROVE i \in S
    <3>1. i - 1 \in Nat /\ i - 1 < m /\ (i - 1) + 1 = i
      BY <1>3
    <3>2. i - 1 \notin T
      BY <1>2, <1>3, <3>1
    <3> QED
      BY <3>1, <3>2
  <2> QED
    BY <2>1, <2>2
<1>5. Cardinality(1..m) = m
  <2>1. Cardinality(1..m) = IF 1 > m THEN 0 ELSE m - 1 + 1
    BY <1>3, FS_Interval
  <2> QED
    BY <1>3, <2>1
<1> QED
  BY <1>3, <1>4, <1>5

\* In a total order each of a set's elements has a place of its own, from 0, told by how
\* many are before it, and no place is left out.
Ordering(R, S) ==
    /\ \A x \in S : <<x, x>> \notin R
    /\ \A x, y, z \in S : <<x, y>> \in R /\ <<y, z>> \in R => <<x, z>> \in R
    /\ \A x, y \in S : x # y => <<x, y>> \in R \/ <<y, x>> \in R
Ranks(R, S) == [x \in S |-> Cardinality({y \in S : <<y, x>> \in R})]
Ranked(R, S, rank, n) ==
    /\ \A x \in S : rank[x] \in 0..n - 1
    /\ \A x, y \in S : <<x, y>> \in R => rank[x] < rank[y]
    /\ \A r \in 0..n - 1 : \E x \in S : rank[x] = r

LEMMA RankOnto ==
    ASSUME NEW S, IsFiniteSet(S), NEW R, Ordering(R, S)
    PROVE  Ranked(R, S, Ranks(R, S), Cardinality(S))
<1> DEFINE Below(x) == {y \in S : <<y, x>> \in R}
<1>0. PICK rank, n : rank = Ranks(R, S) /\ n = Cardinality(S)
  OBVIOUS
<1>1. n \in Nat
  BY <1>0, FS_CardinalityType
<1>2. \A x \in S : rank[x] = Cardinality(Below(x))
  BY <1>0 DEF Ranks
<1>3. \A x \in S : Below(x) \in SUBSET S /\ x \notin Below(x)
  BY DEF Ordering
<1>4. ASSUME NEW x \in S, NEW y \in S, <<x, y>> \in R PROVE Below(x) \in SUBSET Below(y) /\ x \in Below(y)
  BY <1>4 DEF Ordering
<1> HIDE DEF Below
<1>5. \A x \in S : IsFiniteSet(Below(x)) /\ Cardinality(Below(x)) \in Nat
  BY <1>3, FS_Subset, FS_CardinalityType, Zenon
<1>6. ASSUME NEW x \in S PROVE rank[x] \in 0..n - 1
  <2>1. Cardinality(Below(x)) <= n /\ (n = Cardinality(Below(x)) => S = Below(x))
    BY <1>0, <1>3, FS_Subset, Zenon
  <2>2. Cardinality(Below(x)) # n
    BY <1>3, <2>1, Zenon
  <2> QED
    BY <1>1, <1>2, <1>5, <2>1, <2>2
<1>7. ASSUME NEW x \in S, NEW y \in S, <<x, y>> \in R PROVE rank[x] < rank[y]
  <2>1. Below(x) \in SUBSET Below(y) /\ x \in Below(y) /\ x \notin Below(x)
    BY <1>3, <1>4, <1>7, Zenon
  <2>2. Cardinality(Below(x)) <= Cardinality(Below(y)) /\ (Cardinality(Below(y)) = Cardinality(Below(x)) => Below(y) = Below(x))
    BY <1>5, <2>1, FS_Subset, Zenon
  <2>3. Cardinality(Below(x)) # Cardinality(Below(y))
    BY <2>1, <2>2, Zenon
  <2>4. PICK a \in Nat, b \in Nat : a = Cardinality(Below(x)) /\ b = Cardinality(Below(y)) /\ rank[x] = a /\ rank[y] = b
    BY <1>2, <1>5, Zenon
  <2> QED
    BY <2>2, <2>3, <2>4
<1>8. \A r \in 0..n - 1 : \E x \in S : rank[x] = r
  <2>1. IsFiniteSet(0..n - 1) /\ Cardinality(0..n - 1) = n
    <3>1. 0 \in Int /\ n - 1 \in Int
      BY <1>1
    <3>2. IsFiniteSet(0..n - 1) /\ Cardinality(0..n - 1) = IF 0 > n - 1 THEN 0 ELSE n - 1 - 0 + 1
      BY <3>1, FS_Interval, Zenon
    <3> QED
      BY <1>1, <3>2
  <2>2. rank \in [S -> 0..n - 1]
    BY <1>0, <1>6 DEF Ranks
  <2>3. \A x, y \in S : rank[x] = rank[y] => x = y
    <3>1. ASSUME NEW x \in S, NEW y \in S, x # y PROVE rank[x] # rank[y]
      <4>1. rank[x] \in Int /\ rank[y] \in Int
        BY <1>1, <1>6
      <4>2. rank[x] < rank[y] \/ rank[y] < rank[x]
        BY <1>7, <3>1, Zenon DEF Ordering
      <4> QED
        BY <4>1, <4>2
    <3> QED
      BY <3>1, Zenon
  <2>4. rank \in Injection(S, 0..n - 1)
    BY <2>2, <2>3, Zenon DEF Injection, IsInjective
  <2>5. rank \in Surjection(S, 0..n - 1)
    BY <1>0, <2>1, <2>4, FS_Injection, Zenon
  <2> QED
    BY <2>5, Zenon DEF Surjection
<1> QED
  BY <1>0, <1>6, <1>7, <1>8, Zenon DEF Ranked

LEMMA NoteTypes ==
    \A x \in PlayNote : /\ x.start \in Nat /\ x.dur \in Nat /\ x.dur >= 1
                       /\ x.pitch \in 0..MaxPitch /\ x.vel \in 0..MaxVelocity
BY DEF PlayNote

\* Which of two notes is first.
Before(notes, i, j) == notes[i].start < notes[j].start \/ (notes[i].start = notes[j].start /\ i < j)

\* So the places in time are those of the list.
LEMMA RankFacts ==
    ASSUME NEW notes \in Seq(PlayNote), NEW n, n = Len(notes)
    PROVE  /\ \A i \in 1..n : Rank(notes, i) \in 0..n - 1
           /\ \A i, j \in 1..n : Before(notes, i, j) => Rank(notes, i) < Rank(notes, j)
           /\ \A r \in 0..n - 1 : \E i \in 1..n : Rank(notes, i) = r
<1>1. n \in Nat /\ DOMAIN notes = 1..n /\ \A i \in 1..n : notes[i].start \in Nat
  <2>1. n \in Nat /\ DOMAIN notes = 1..n /\ \A i \in 1..n : notes[i] \in PlayNote
    OBVIOUS
  <2> QED
    BY <2>1, NoteTypes, Zenon
<1>0. PICK S : S = 1..n
  OBVIOUS
<1>2. PICK R : R = {p \in (1..n) \X (1..n) : Before(notes, p[1], p[2])}
  OBVIOUS
<1>3. \A i, j \in 1..n : <<i, j>> \in R <=> Before(notes, i, j)
  BY <1>2
<1>4. IsFiniteSet(1..n) /\ n = Cardinality(1..n)
  <2>1. 1 \in Int /\ n \in Int
    BY <1>1
  <2>2. IsFiniteSet(1..n) /\ Cardinality(1..n) = IF 1 > n THEN 0 ELSE n - 1 + 1
    BY <2>1, FS_Interval, Zenon
  <2> QED
    BY <1>1, <2>2
<1>5. PICK start : start = [i \in 1..n |-> notes[i].start]
  OBVIOUS
<1>6. /\ \A i \in 1..n : start[i] \in Nat
      /\ \A i, j \in 1..n : Before(notes, i, j) <=> start[i] < start[j] \/ (start[i] = start[j] /\ i < j)
  BY <1>1, <1>5 DEF Before
<1>7. \A x \in 1..n : <<x, x>> \notin R
  BY <1>3, <1>6
<1>8. \A x, y, z \in 1..n : <<x, y>> \in R /\ <<y, z>> \in R => <<x, z>> \in R
  BY <1>3, <1>6, SMTT(60)
<1>9. \A x, y \in 1..n : x # y => <<x, y>> \in R \/ <<y, x>> \in R
  BY <1>3, <1>6
<1>10. PICK rank : rank = Ranks(R, 1..n)
  OBVIOUS
<1>11. /\ \A x \in 1..n : rank[x] \in 0..n - 1
       /\ \A x, y \in 1..n : <<x, y>> \in R => rank[x] < rank[y]
       /\ \A r \in 0..n - 1 : \E x \in 1..n : rank[x] = r
  <2>1. IsFiniteSet(S) /\ n = Cardinality(S) /\ rank = Ranks(R, S)
    BY <1>0, <1>4, <1>10, Zenon
  <2>2. Ordering(R, S)
    BY <1>0, <1>7, <1>8, <1>9, ZenonT(60) DEF Ordering
  <2>3. Ranked(R, S, rank, n)
    BY <2>1, <2>2, RankOnto, Zenon
  <2> QED
    BY <1>0, <2>3, Zenon DEF Ranked
<1>12. ASSUME NEW i \in 1..n PROVE Rank(notes, i) = rank[i]
  <2>1. {y \in 1..n : <<y, i>> \in R} = {y \in 1..n : notes[y].start < notes[i].start \/ (notes[y].start = notes[i].start /\ y < i)}
    BY <1>3 DEF Before
  <2> QED
    BY <1>1, <1>10, <2>1, Zenon DEF Rank, Ranks
<1> QED
  BY <1>3, <1>11, <1>12, ZenonT(60)

\* One element is looked at.
LEMMA SieveOne ==
    ASSUME NEW ctx, NEW D, NEW done \in Seq(D), NEW x \in D, NEW kept, SieveHolds(ctx, done, kept)
    PROVE  SieveHolds(ctx, Append(done, x), SieveStep(ctx, kept, x))
<1>1. PICK n \in Nat : n = Len(done) /\ DOMAIN done = 1..n
  OBVIOUS
<1>2. PICK more : more = Append(done, x)
  OBVIOUS
<1>3. more \in Seq(D) /\ Len(more) = n + 1 /\ DOMAIN more = 1..n + 1 /\ more[n + 1] = x /\ \A i \in 1..n : more[i] = done[i]
  BY <1>1, <1>2
<1>4. Range(more) = Range(done) \cup {x}
  <2>1. \A y : y \in Range(done) <=> \E i \in 1..n : y = done[i]
    BY <1>1 DEF Range
  <2>2. \A y : y \in Range(more) <=> \E i \in 1..n + 1 : y = more[i]
    BY <1>3 DEF Range
  <2>3. ASSUME NEW y \in Range(more) PROVE y \in Range(done) \cup {x}
    BY <1>3, <2>1, <2>2
  <2>4. ASSUME NEW y \in Range(done) PROVE y \in Range(more)
    BY <1>3, <2>1, <2>2
  <2>5. x \in Range(more)
    BY <1>3, <2>2
  <2> QED
    BY <2>3, <2>4, <2>5
<1>5. Sorted(more) => Sorted(done) /\ \A y \in Range(done) : y.start <= x.start
  <2>1. SUFFICES ASSUME Sorted(more) PROVE Sorted(done) /\ \A y \in Range(done) : y.start <= x.start
    OBVIOUS
  <2>2. \A i, j \in 1..n + 1 : i < j => more[i].start <= more[j].start
    BY <1>3, <2>1, Zenon DEF Sorted
  <2>3. \A i, j \in 1..n : i < j => done[i].start <= done[j].start
    BY <1>3, <2>2
  <2>4. ASSUME NEW i \in 1..n PROVE done[i].start <= x.start
    <3>1. i \in 1..n + 1 /\ n + 1 \in 1..n + 1 /\ i < n + 1
      OBVIOUS
    <3>2. more[i].start <= more[n + 1].start
      BY <2>2, <3>1, Zenon
    <3> QED
      BY <1>3, <3>2, Zenon
  <2>5. \A y \in Range(done) : y.start <= x.start
    BY <1>1, <2>4, Zenon DEF Range
  <2> QED
    BY <1>1, <2>3, <2>5, Zenon DEF Sorted
<1>6. PICK E : E = Range(more) \cap ctx
  OBVIOUS
<1>7. kept \in Seq(E) /\ Range(kept) \subseteq Range(done) \cap ctx /\ (Sorted(done) => Sorted(kept))
  <2>1. kept \in Seq(Range(done) \cap ctx) /\ Range(done) \cap ctx \subseteq E
    BY <1>4, <1>6 DEF SieveHolds
  <2>2. kept \in Seq(E)
    BY <2>1, SeqMonotonic, Zenon
  <2> QED
    BY <2>2, Zenon DEF SieveHolds
<1>8. CASE x \in ctx
  <2>1. PICK longer : longer = Append(kept, x)
    OBVIOUS
  <2>2. PICK m \in Nat : m = Len(kept) /\ DOMAIN kept = 1..m
    BY <1>7
  <2>3. x \in E
    BY <1>4, <1>6, <1>8
  <2>4. /\ longer \in Seq(E) /\ Len(longer) = m + 1 /\ DOMAIN longer = 1..m + 1
        /\ longer[m + 1] = x /\ \A i \in 1..m : longer[i] = kept[i]
    BY <1>7, <2>1, <2>2, <2>3
  <2>5. \A i \in 1..m + 1 : longer[i] \in E
    BY <2>4
  <2>6. Range(longer) \subseteq E /\ longer # <<>>
    BY <2>4, <2>5 DEF Range
  <2>7. Sorted(more) => Sorted(longer)
    <3>1. SUFFICES ASSUME Sorted(more) PROVE Sorted(longer)
      OBVIOUS
    <3>2. \A i, j \in 1..m : i < j => kept[i].start <= kept[j].start
      BY <1>5, <1>7, <2>2, <3>1, Zenon DEF Sorted
    <3>3. ASSUME NEW i \in 1..m PROVE kept[i].start <= x.start
      <4>1. kept[i] \in Range(done)
        BY <1>7, <2>2 DEF Range
      <4> QED
        BY <1>5, <3>1, <4>1, Zenon
    <3>4. ASSUME NEW i \in 1..m + 1, NEW j \in 1..m + 1, i < j PROVE longer[i].start <= longer[j].start
      <4>1. i \in 1..m
        BY <3>4
      <4>2. CASE j = m + 1
        BY <2>4, <3>3, <4>1, <4>2, Zenon
      <4>3. CASE j # m + 1
        <5>1. j \in 1..m
          BY <4>3
        <5> QED
          BY <2>4, <3>2, <3>4, <4>1, <5>1, Zenon
      <4> QED
        BY <4>2, <4>3
    <3> QED
      BY <2>4, <3>4, Zenon DEF Sorted
  <2>8. SieveStep(ctx, kept, x) = longer
    BY <1>8, <2>1 DEF SieveStep
  <2> QED
    BY <1>2, <1>6, <2>4, <2>6, <2>7, <2>8, Zenon DEF SieveHolds
<1>9. CASE x \notin ctx
  <2>1. E = Range(done) \cap ctx
    BY <1>4, <1>6, <1>9
  <2>2. SieveStep(ctx, kept, x) = kept
    BY <1>9 DEF SieveStep
  <2>3. E # {} => kept # <<>>
    BY <2>1, Zenon DEF SieveHolds
  <2> QED
    BY <1>2, <1>5, <1>6, <1>7, <2>1, <2>2, <2>3, Zenon DEF SieveHolds
<1> QED
  BY <1>8, <1>9

LEMMA SieveFacts ==
    ASSUME NEW D, NEW list \in Seq(D), NEW set
    PROVE  /\ Within(list, set) \in Seq(Range(list) \cap set)
           /\ Range(list) \cap set # {} => Within(list, set) # <<>>
           /\ Sorted(list) => Sorted(Within(list, set))
<1>1. SieveHolds(set, <<>>, <<>>)
  BY DEF SieveHolds, Range, Sorted
<1>2. \A done \in Seq(D), x \in D : \A kept :
        SieveHolds(set, done, kept) => SieveHolds(set, Append(done, x), SieveStep(set, kept, x))
  BY SieveOne, Zenon
<1>3. SieveHolds(set, list, Sieve!Fold(set, <<>>, list))
  BY <1>1, <1>2, Sieve!FoldHolds, Zenon
<1>4. Within(list, set) = Sieve!Fold(set, <<>>, list)
  BY ZenonT(60) DEF Within, Sieve!Fold, SieveStep, FoldLeft, MapThenFoldSet, Sieve!FoldLeft, Sieve!MapThenFoldSet, Max, Sieve!Max
<1> QED
  BY <1>3, <1>4, Zenon DEF SieveHolds

-----------------------------------------------------------------------------
(* The tools of the piano roll.                                            *)

\* A note that is changed is one, if what is put in it can be there.
LEMMA NoteChanged ==
    ASSUME NEW n \in PlayNote, NEW p \in 0..MaxPitch, NEW s \in Nat, NEW d \in Nat \ {0}, NEW v \in 0..MaxVelocity
    PROVE  /\ [n EXCEPT !.pitch = p] \in PlayNote /\ [n EXCEPT !.start = s] \in PlayNote
           /\ [n EXCEPT !.dur = d] \in PlayNote /\ [n EXCEPT !.vel = v] \in PlayNote
           /\ [n EXCEPT !.start = s, !.dur = d] \in PlayNote
           /\ [n EXCEPT !.start = s, !.vel = v, !.dur = d] \in PlayNote
BY DEF PlayNote

\* One field at a time.
LEMMA PitchChanged ==
    ASSUME NEW n \in PlayNote, NEW p \in 0..MaxPitch PROVE [n EXCEPT !.pitch = p] \in PlayNote
BY DEF PlayNote
LEMMA StartChanged ==
    ASSUME NEW n \in PlayNote, NEW s \in Nat PROVE [n EXCEPT !.start = s] \in PlayNote
BY DEF PlayNote
LEMMA DurationChanged ==
    ASSUME NEW n \in PlayNote, NEW d \in Nat \ {0} PROVE [n EXCEPT !.dur = d] \in PlayNote
BY DEF PlayNote
LEMMA VelocityChanged ==
    ASSUME NEW n \in PlayNote, NEW v \in 0..MaxVelocity PROVE [n EXCEPT !.vel = v] \in PlayNote
BY DEF PlayNote

LEMMA MidiBounds ==
    /\ 0 \in Int /\ 1 \in Int /\ MaxPitch \in Int /\ 0 <= MaxPitch
    /\ MaxVelocity \in Int /\ 0 <= MaxVelocity /\ 1 <= MaxVelocity
BY DEF MaxPitch, MaxVelocity

LEMMA InBounds ==
    ASSUME NEW x \in Int, NEW low \in Int, NEW high \in Int, low <= high
    PROVE  Clamp(x, low, high) \in low..high
BY ClampFacts

LEMMA Listed ==
    ASSUME NEW E, NEW notes \in Seq(E), NEW D, NEW list, list = [i \in DOMAIN notes |-> list[i]],
           \A i \in DOMAIN notes : list[i] \in D
    PROVE  list \in Seq(D)
<1>1. PICK n \in Nat : DOMAIN notes = 1..n
  OBVIOUS
<1> QED
  BY <1>1, TabulatedList, Zenon

LEMMA AtLeastFacts == ASSUME NEW low \in Int, NEW x \in Int PROVE AtLeast(low, x) = IF low >= x THEN low ELSE x
BY MaxOfTwo, Zenon DEF AtLeast

\* quantize
LEMMA GridFacts == ASSUME NEW v \in Int, NEW q \in Nat, q > 0 PROVE Grid(v, q) \in Nat \ {0}
<1>1. AtLeast(1, q) = q
  BY AtLeastFacts
<1>2. v \div q \in Int
  BY Divided
<1> QED
  BY <1>1, <1>2, AtLeastFacts DEF Grid

LEMMA QuantizeFacts ==
    ASSUME NEW notes \in Seq(PlayNote), NEW v \in Int, NEW q \in Nat, q > 0
    PROVE  Quantize(notes, v, q, 100, FALSE) \in Seq(PlayNote)
<1>1. PICK out : out = Quantize(notes, v, q, 100, FALSE)
  OBVIOUS
<1>0. PICK grid \in Nat \ {0} : grid = Grid(v, q)
  BY GridFacts
<1> DEFINE To(t) == AtLeast(0, Towards(t, Round(t, grid) * grid, 100))
           Long(t) == AtLeast(1, Towards(t, AtLeast(grid, Round(t, grid) * grid), 100))
<1>2. out = [i \in DOMAIN notes |-> [notes[i] EXCEPT !.start = To(notes[i].start),
                                                     !.dur = IF FALSE THEN Long(notes[i].dur) ELSE notes[i].dur]]
  BY <1>0, <1>1, Zenon DEF Quantize, Each
<1>3. ASSUME NEW t \in Nat PROVE To(t) \in Nat
  <2>1. PICK r \in Int : r = Round(t, grid)
    BY Rounded
  <2>2. PICK g \in Int : g = r * grid
    OBVIOUS
  <2>3. Clamp(100, 0, 100) = 100
    BY ClampFacts
  <2>4. PICK x \in Int : x = 100 * t + (g - t) * 100
    OBVIOUS
  <2>5. Round(x, 100) \in Int
    BY Rounded
  <2>6. Towards(t, g, 100) = Round(x, 100)
    BY <2>3, <2>4, Zenon DEF Towards
  <2>7. AtLeast(0, Towards(t, g, 100)) \in Nat
    BY <2>5, <2>6, AtLeastFacts
  <2> QED
    BY <2>1, <2>2, <2>7, Zenon
<1>4. out = [i \in DOMAIN notes |-> out[i]]
  BY <1>2
<1>5. ASSUME NEW i \in DOMAIN notes PROVE out[i] \in PlayNote
  <2>1. PICK n \in PlayNote : n = notes[i]
    OBVIOUS
  <2>2. n.start \in Nat /\ n.dur \in Nat \ {0}
    BY NoteTypes
  <2>3. PICK s \in Nat : s = To(n.start)
    BY <1>3, <2>2, Zenon
  <2>4. PICK d \in Nat \ {0} : d = IF FALSE THEN Long(n.dur) ELSE n.dur
    BY <2>2
  <2>5. out[i] = [n EXCEPT !.start = s, !.dur = d]
    BY <1>2, <2>1, <2>3, <2>4, Zenon
  <2>6. 0 \in 0..MaxPitch /\ 0 \in 0..MaxVelocity
    BY DEF MaxPitch, MaxVelocity
  <2>7. [n EXCEPT !.start = s, !.dur = d] \in PlayNote
    BY <2>6, NoteChanged
  <2> QED
    BY <2>5, <2>7, Zenon
<1> QED
  BY <1>1, <1>4, <1>5, Listed, ZenonT(60)

\* humanize
LEMMA HumanizeFacts ==
    ASSUME NEW notes \in Seq(PlayNote), NEW t \in Int, NEW v \in Int, NEW d \in Int
    PROVE  Humanize(notes, t, v, d) \in Seq(PlayNote)
<1>1. PICK out : out = Humanize(notes, t, v, d)
  OBVIOUS
<1>2. out = [i \in DOMAIN notes |-> [notes[i] EXCEPT !.start = AtLeast(0, notes[i].start + t),
                                                     !.vel = Clamp(notes[i].vel + v, 1, MaxVelocity),
                                                     !.dur = AtLeast(1, notes[i].dur + d)]]
  BY <1>1, Zenon DEF Humanize, Each
<1>3. out = [i \in DOMAIN notes |-> out[i]]
  BY <1>2
<1>4. ASSUME NEW i \in DOMAIN notes PROVE out[i] \in PlayNote
  <2>1. PICK n \in PlayNote : n = notes[i]
    OBVIOUS
  <2>2. n.start \in Nat /\ n.dur \in Nat /\ n.vel \in Int
    BY NoteTypes
  <2>3. PICK x \in Int, y \in Int, z \in Int : x = n.start + t /\ y = n.vel + v /\ z = n.dur + d
    <3>1. n.start + t \in Int /\ n.vel + v \in Int /\ n.dur + d \in Int
      BY <2>2
    <3> QED
      BY <3>1, Zenon
  <2>4. AtLeast(0, x) \in Nat /\ AtLeast(1, z) \in Nat \ {0}
    BY AtLeastFacts
  <2>5. Clamp(y, 1, MaxVelocity) \in 0..MaxVelocity
    <3>1. Clamp(y, 1, MaxVelocity) \in 1..MaxVelocity
      BY InBounds, MidiBounds, Zenon
    <3> QED
      BY <3>1, MidiBounds
  <2>6. PICK s \in Nat, w \in 0..MaxVelocity, e \in Nat \ {0} : s = AtLeast(0, x) /\ w = Clamp(y, 1, MaxVelocity) /\ e = AtLeast(1, z)
    BY <2>4, <2>5, Zenon
  <2>7. out[i] = [n EXCEPT !.start = s, !.vel = w, !.dur = e]
    BY <1>2, <2>1, <2>3, <2>6, Zenon
  <2>8. 0 \in 0..MaxPitch
    BY DEF MaxPitch
  <2>9. [n EXCEPT !.start = s, !.vel = w, !.dur = e] \in PlayNote
    BY <2>8, NoteChanged
  <2> QED
    BY <2>7, <2>9, Zenon
<1> QED
  BY <1>1, <1>3, <1>4, Listed, Zenon

\* transpose
LEMMA TransposeFacts ==
    ASSUME NEW notes \in Seq(PlayNote), NEW by \in Int
    PROVE  Transpose(notes, by) \in Seq(PlayNote)
<1>1. PICK out : out = Transpose(notes, by)
  OBVIOUS
<1>2. out = [i \in DOMAIN notes |-> [notes[i] EXCEPT !.pitch = Clamp(notes[i].pitch + by, 0, MaxPitch)]]
  BY <1>1, Zenon DEF Transpose, Each
<1>3. out = [i \in DOMAIN notes |-> out[i]]
  BY <1>2
<1>4. ASSUME NEW i \in DOMAIN notes PROVE out[i] \in PlayNote
  <2>1. PICK n \in PlayNote : n = notes[i]
    OBVIOUS
  <2>2. n.pitch \in Int
    BY NoteTypes
  <2>3. PICK x \in Int : x = n.pitch + by
    BY <2>2
  <2>4. Clamp(x, 0, MaxPitch) \in 0..MaxPitch
    BY InBounds, MidiBounds, Zenon
  <2>5. PICK p \in 0..MaxPitch : p = Clamp(x, 0, MaxPitch)
    BY <2>4, Zenon
  <2>6. out[i] = [n EXCEPT !.pitch = p]
    BY <1>2, <2>1, <2>3, <2>5, Zenon
  <2>7. [n EXCEPT !.pitch = p] \in PlayNote
    BY PitchChanged
  <2> QED
    BY <2>6, <2>7, Zenon
<1> QED
  BY <1>1, <1>3, <1>4, Listed, Zenon

\* The span of the notes begins with the first and ends after the last.
LEMMA SpanFacts ==
    ASSUME NEW notes \in Seq(PlayNote), notes # <<>>
    PROVE  /\ SpanBegin(notes) \in Nat /\ SpanEnd(notes) \in Nat
           /\ \A i \in DOMAIN notes : SpanBegin(notes) <= notes[i].start /\ notes[i].start + notes[i].dur <= SpanEnd(notes)
<1>1. PICK n \in Nat : n = Len(notes) /\ DOMAIN notes = 1..n /\ n > 0
  OBVIOUS
<1>2. \A i \in 1..n : notes[i].start \in Nat /\ notes[i].dur \in Nat
  <2>1. \A i \in 1..n : notes[i] \in PlayNote
    BY <1>1
  <2> QED
    BY <2>1, NoteTypes, Zenon
<1>3. PICK starts : starts = {notes[i].start : i \in DOMAIN notes}
  OBVIOUS
<1>4. PICK begin : begin = SpanBegin(notes)
  OBVIOUS
<1>5. begin \in starts /\ \A y \in starts : begin <= y
  <2>1. starts \subseteq Nat /\ starts # {}
    BY <1>1, <1>2, <1>3
  <2> QED
    BY <1>3, <1>4, <2>1, LeastOf, Zenon DEF SpanBegin
<1>6. begin \in Nat /\ \A i \in 1..n : begin <= notes[i].start
  BY <1>1, <1>2, <1>3, <1>5
<1>7. PICK until : until = [i \in 1..n |-> notes[i].start + notes[i].dur]
  OBVIOUS
<1>8. \A i \in 1..n : until[i] = notes[i].start + notes[i].dur /\ until[i] \in Nat
  BY <1>2, <1>7
<1>9. PICK b \in Nat : \A i \in 1..n : until[i] <= b
  BY <1>8, Bounded, Zenon
<1>10. PICK ends : ends = {notes[i].start + notes[i].dur : i \in DOMAIN notes} \cup {begin}
  OBVIOUS
<1>11. ends \subseteq Nat /\ ends # {} /\ \A i \in 1..n : until[i] \in ends
  BY <1>1, <1>2, <1>6, <1>8, <1>10
<1>12. \A y \in ends : y <= b + begin
  BY <1>1, <1>2, <1>6, <1>8, <1>9, <1>10
<1>13. PICK end : end = SpanEnd(notes)
  OBVIOUS
<1>14. end \in ends /\ \A y \in ends : y <= end
  <2>1. b + begin \in Nat
    BY <1>6
  <2>2. end = Max(ends)
    BY <1>4, <1>10, <1>13, Zenon DEF SpanEnd
  <2> QED
    BY <1>11, <1>12, <2>1, <2>2, GreatestOf, Zenon
<1>15. end \in Nat /\ \A i \in 1..n : notes[i].start + notes[i].dur <= end
  BY <1>8, <1>11, <1>14
<1> QED
  BY <1>1, <1>4, <1>6, <1>13, <1>15

\* reverse
LEMMA BackwardsFacts ==
    ASSUME NEW notes \in Seq(PlayNote), notes # <<>>
    PROVE  Backwards(notes) \in Seq(PlayNote)
<1>1. PICK out : out = Backwards(notes)
  OBVIOUS
<1>0. PICK begin \in Nat, end \in Nat : begin = SpanBegin(notes) /\ end = SpanEnd(notes)
  BY SpanFacts
<1>2. SUFFICES ASSUME ~(Len(notes) <= 1) PROVE out \in Seq(PlayNote)
  BY <1>1 DEF Backwards
<1>3. out = [i \in DOMAIN notes |-> [notes[i] EXCEPT !.start = end - (notes[i].start - begin) - notes[i].dur]]
  BY <1>0, <1>1, <1>2, Zenon DEF Backwards, Each
<1>4. out = [i \in DOMAIN notes |-> out[i]]
  BY <1>3
<1>5. ASSUME NEW i \in DOMAIN notes PROVE out[i] \in PlayNote
  <2>1. PICK n \in PlayNote : n = notes[i]
    OBVIOUS
  <2>2. n.start \in Nat /\ n.dur \in Nat
    BY NoteTypes
  <2>3. n.start + n.dur <= end
    BY <1>0, <2>1, SpanFacts, Zenon
  <2>4. PICK s \in Nat : s = end - (n.start - begin) - n.dur
    BY <2>2, <2>3
  <2>5. out[i] = [n EXCEPT !.start = s]
    BY <1>3, <2>1, <2>4, Zenon
  <2>6. [n EXCEPT !.start = s] \in PlayNote
    BY StartChanged
  <2> QED
    BY <2>5, <2>6, Zenon
<1> QED
  BY <1>4, <1>5, Listed, Zenon

\* invert
LEMMA UpturnedFacts ==
    ASSUME NEW notes \in Seq(PlayNote), notes # <<>>
    PROVE  Upturned(notes) \in Seq(PlayNote)
<1>1. PICK out : out = Upturned(notes)
  OBVIOUS
<1>2. PICK pitches : pitches = {notes[i].pitch : i \in DOMAIN notes}
  OBVIOUS
<1>3. pitches \subseteq Nat /\ pitches # {} /\ \A p \in pitches : p <= MaxPitch
  <2>1. PICK n \in Nat : DOMAIN notes = 1..n /\ n > 0
    OBVIOUS
  <2>2. \A i \in 1..n : notes[i] \in PlayNote
    BY <2>1
  <2>3. \A i \in 1..n : notes[i].pitch \in 0..MaxPitch
    BY <2>2, NoteTypes, Zenon
  <2> QED
    BY <1>2, <2>1, <2>3, MidiBounds
<1>4. PICK low \in Nat, high \in Nat : low = Min(pitches) /\ high = Max(pitches)
  <2>1. Min(pitches) \in pitches
    BY <1>3, LeastOf, Zenon
  <2>2. MaxPitch \in Nat
    BY MidiBounds
  <2>3. Max(pitches) \in pitches
    BY <1>3, <2>2, GreatestOf, Zenon
  <2> QED
    BY <1>3, <2>1, <2>3
<1>5. PICK twice \in Int : twice = 2 * Round(low + high, 2)
  <2>1. low + high \in Int
    OBVIOUS
  <2>2. Round(low + high, 2) \in Int
    BY <2>1, Rounded
  <2> QED
    BY <2>2
<1>6. SUFFICES ASSUME ~(Len(notes) <= 1) PROVE out \in Seq(PlayNote)
  BY <1>1 DEF Upturned
<1>7. out = [i \in DOMAIN notes |-> [notes[i] EXCEPT !.pitch = Clamp(twice - notes[i].pitch, 0, MaxPitch)]]
  BY <1>1, <1>2, <1>4, <1>5, <1>6, Zenon DEF Upturned, Each
<1>8. out = [i \in DOMAIN notes |-> out[i]]
  BY <1>7
<1>9. ASSUME NEW i \in DOMAIN notes PROVE out[i] \in PlayNote
  <2>1. PICK n \in PlayNote : n = notes[i]
    OBVIOUS
  <2>2. n.pitch \in Int
    BY NoteTypes
  <2>3. PICK x \in Int : x = twice - n.pitch
    BY <2>2
  <2>4. Clamp(x, 0, MaxPitch) \in 0..MaxPitch
    BY InBounds, MidiBounds, Zenon
  <2>5. PICK p \in 0..MaxPitch : p = Clamp(x, 0, MaxPitch)
    BY <2>4, Zenon
  <2>6. out[i] = [n EXCEPT !.pitch = p]
    BY <1>7, <2>1, <2>3, <2>5, Zenon
  <2>7. [n EXCEPT !.pitch = p] \in PlayNote
    BY PitchChanged
  <2> QED
    BY <2>6, <2>7, Zenon
<1> QED
  BY <1>8, <1>9, Listed, Zenon

\* Pitches, each once, from the lowest.
LEMMA AscendingFacts ==
    ASSUME NEW set, set \subseteq 0..MaxPitch, set # {}
    PROVE  Ascending(set) \in Seq(0..MaxPitch) /\ Ascending(set) # <<>>
<1>1. IsFiniteSet(set) /\ \A p \in set : p \in Int
  <2>1. IsFiniteSet(0..MaxPitch)
    BY FS_Interval, MidiBounds, Zenon
  <2>2. IsFiniteSet(set)
    BY <2>1, FS_Subset, Zenon
  <2>3. \A p \in set : p \in Int
    BY MidiBounds
  <2> QED
    BY <2>2, <2>3
<1>2. PICK n \in Nat : n = Cardinality(set) /\ n > 0
  <2>1. Cardinality(set) \in Nat
    BY <1>1, FS_CardinalityType
  <2>2. Cardinality(set) # 0
    BY <1>1, FS_EmptySet
  <2> QED
    BY <2>1, <2>2
<1>3. PICK R : R = {p \in set \X set : p[1] < p[2]}
  OBVIOUS
<1>4. \A p, q \in set : <<p, q>> \in R <=> p < q
  BY <1>3
<1>5. Ordering(R, set)
  <2>1. \A x \in set : <<x, x>> \notin R
    BY <1>1, <1>4
  <2>2. \A x, y, z \in set : <<x, y>> \in R /\ <<y, z>> \in R => <<x, z>> \in R
    BY <1>1, <1>4
  <2>3. \A x, y \in set : x # y => <<x, y>> \in R \/ <<y, x>> \in R
    BY <1>1, <1>4
  <2> QED
    BY <2>1, <2>2, <2>3, Zenon DEF Ordering
<1>6. PICK rank : rank = Ranks(R, set)
  OBVIOUS
<1>7. Ranked(R, set, rank, n)
  BY <1>1, <1>2, <1>5, <1>6, RankOnto, Zenon
<1>8. ASSUME NEW x \in set PROVE Cardinality({q \in set : q < x}) = rank[x]
  <2>1. {q \in set : <<q, x>> \in R} = {q \in set : q < x}
    BY <1>4
  <2> QED
    BY <1>6, <2>1, Zenon DEF Ranks
<1>9. PICK list : list = Ascending(set)
  OBVIOUS
<1>10. ASSUME NEW r \in 1..n PROVE (CHOOSE p \in set : Cardinality({q \in set : q < p}) = r - 1) \in 0..MaxPitch
  <2>1. r - 1 \in 0..n - 1
    BY <1>2
  <2>2. \E x \in set : rank[x] = r - 1
    BY <1>7, <2>1, Zenon DEF Ranked
  <2>3. \E x \in set : Cardinality({q \in set : q < x}) = r - 1
    BY <1>8, <2>2, Zenon
  <2>4. (CHOOSE p \in set : Cardinality({q \in set : q < p}) = r - 1) \in set
    BY <2>3, Zenon
  <2> QED
    BY <2>4
<1>11. list \in [1..n -> 0..MaxPitch]
  BY <1>2, <1>9, <1>10, Zenon DEF Ascending
<1>12. list \in Seq(0..MaxPitch) /\ Len(list) = n
  <2>1. PICK D : D = 0..MaxPitch
    OBVIOUS
  <2>2. list \in [1..n -> D]
    BY <1>11, <2>1, Zenon
  <2>3. list \in Seq(D)
    BY <2>2, SeqDef, Zenon
  <2> QED
    BY <2>1, <2>2, <2>3
<1> QED
  BY <1>2, <1>9, <1>12

LEMMA NothingDivided == ASSUME NEW n \in Nat, n > 0 PROVE 0 % n = 0 /\ 0 \div n = 0
<1>1. PICK q \in Int : q = 0 \div n
  BY Divided
<1>2. n * q <= 0 /\ 0 < n * q + n
  BY <1>1, Divided
<1>3. q = 0
  <2>1. ASSUME 1 <= q PROVE FALSE
    <3>1. n * 1 <= n * q /\ n * q \in Int
      BY <2>1, Multiplied
    <3> QED
      BY <1>2, <3>1
  <2>2. ASSUME q <= -1 PROVE FALSE
    <3>1. n * q <= n * (-1) /\ n * q \in Int
      BY <2>2, Multiplied
    <3> QED
      BY <1>2, <3>1
  <2> QED
    BY <2>1, <2>2
<1>4. 0 % n \in 0..n - 1 /\ 0 = n * (0 \div n) + (0 % n)
  OBVIOUS
<1> QED
  BY <1>1, <1>3, <1>4

\* In the octaves they reach.
LEMMA FannedFacts ==
    ASSUME NEW notes \in Seq(PlayNote), notes # <<>>
    PROVE  Fanned(notes, 2) \in Seq(0..MaxPitch) /\ Fanned(notes, 2) # <<>>
<1>1. PICK set : set = {notes[i].pitch : i \in DOMAIN notes}
  OBVIOUS
<1>2. set \subseteq 0..MaxPitch /\ set # {}
  <2>1. PICK m \in Nat : DOMAIN notes = 1..m /\ m > 0
    OBVIOUS
  <2>2. \A i \in 1..m : notes[i] \in PlayNote
    BY <2>1
  <2>3. \A i \in 1..m : notes[i].pitch \in 0..MaxPitch
    BY <2>2, NoteTypes, Zenon
  <2> QED
    BY <1>1, <2>1, <2>3
<1>3. PICK pitches : pitches = Ascending(set)
  OBVIOUS
<1>4. pitches \in Seq(0..MaxPitch) /\ pitches # <<>>
  BY <1>2, <1>3, AscendingFacts, Zenon
<1>5. PICK n \in Nat : n = Len(pitches) /\ n > 0 /\ \A i \in 1..n : pitches[i] \in 0..MaxPitch
  <2>1. PICK D : D = 0..MaxPitch
    OBVIOUS
  <2>2. pitches \in Seq(D)
    BY <1>4, <2>1, Zenon
  <2>3. Len(pitches) \in Nat /\ Len(pitches) > 0 /\ \A i \in 1..Len(pitches) : pitches[i] \in D
    BY <1>4, <2>2
  <2> QED
    BY <2>1, <2>3, Zenon
<1>6. PICK fan : fan = [i \in 1..(AtLeast(1, 2) * n) |-> pitches[((i - 1) % n) + 1] + 12 * ((i - 1) \div n)]
  OBVIOUS
<1>7. PICK m \in Nat : m = AtLeast(1, 2) * n /\ m > 0
  <2>1. AtLeast(1, 2) = 2
    BY AtLeastFacts
  <2> QED
    BY <1>5, <2>1
<1>8. ASSUME NEW i \in 1..m PROVE fan[i] \in Int
  <2>1. PICK a \in Nat, r, q \in Int : a = i - 1 /\ q = a \div n /\ r = a % n
    <3>1. i - 1 \in Nat /\ (i - 1) % n \in Int /\ (i - 1) \div n \in Int
      BY <1>5
    <3> QED
      BY <3>1, Zenon
  <2>2. r \in 0..n - 1
    BY <1>5, <2>1
  <2>3. pitches[r + 1] \in Int
    BY <1>5, <2>2, MidiBounds
  <2>4. fan[i] = pitches[r + 1] + 12 * q
    BY <1>6, <1>7, <2>1, Zenon
  <2> QED
    BY <2>1, <2>3, <2>4
<1>9. fan \in Seq(Int) /\ DOMAIN fan = 1..m
  <2>1. fan = [i \in 1..m |-> fan[i]]
    BY <1>6, <1>7
  <2> QED
    BY <1>8, <2>1, TabulatedList, Zenon
<1>10. fan[1] \in Range(fan) \cap (0..MaxPitch)
  <2>1. 1 \in 1..m /\ 1 - 1 = 0
    BY <1>7
  <2>2. fan[1] = pitches[((1 - 1) % n) + 1] + 12 * ((1 - 1) \div n)
    BY <1>6, <1>7, <2>1, Zenon
  <2>3. fan[1] = pitches[0 + 1] + 12 * 0
    BY <1>5, <2>1, <2>2, NothingDivided, Zenon
  <2>4. pitches[1] \in 0..MaxPitch
    BY <1>5
  <2>5. fan[1] = pitches[1]
    BY <2>3, <2>4, MidiBounds
  <2>6. fan[1] \in Range(fan)
    BY <1>9, <2>1 DEF Range
  <2> QED
    BY <2>4, <2>5, <2>6
<1>11. PICK left : left = Within(fan, 0..MaxPitch)
  OBVIOUS
<1>12. left \in Seq(Range(fan) \cap (0..MaxPitch)) /\ left # <<>>
  <2>1. Range(fan) \cap (0..MaxPitch) # {}
    BY <1>10
  <2> QED
    BY <1>9, <1>11, <2>1, SieveFacts, Zenon
<1>13. left \in Seq(0..MaxPitch)
  <2>1. Range(fan) \cap (0..MaxPitch) \subseteq 0..MaxPitch
    OBVIOUS
  <2> QED
    BY <1>12, <2>1, SeqMonotonic, Zenon
<1>14. Fanned(notes, 2) = left
  BY <1>1, <1>3, <1>5, <1>6, <1>11, Zenon DEF Fanned
<1> QED
  BY <1>12, <1>13, <1>14

\* In whatever direction.
LEMMA CyclesFacts ==
    ASSUME NEW D, NEW pitches \in Seq(D), pitches # <<>>, NEW direction \in {"up", "down", "updown", "random"},
           NEW cycle \in Cycles(pitches, direction)
    PROVE  cycle \in Seq(D) /\ cycle # <<>>
<1>1. PICK n \in Nat : n = Len(pitches) /\ n > 0 /\ DOMAIN pitches = 1..n
  OBVIOUS
<1>2. ASSUME NEW m \in Nat, NEW list \in Seq(D), m = Len(list) PROVE Reverse(list) \in Seq(D) /\ Len(Reverse(list)) = m
  <2>1. PICK back : back = Reverse(list)
    OBVIOUS
  <2>2. back = [i \in 1..m |-> list[(m - i) + 1]]
    BY <1>2, <2>1, Zenon DEF Reverse
  <2>3. \A i \in 1..m : back[i] \in D
    BY <1>2, <2>2
  <2>4. back = [i \in 1..m |-> back[i]]
    BY <2>2
  <2> QED
    BY <2>1, <2>3, <2>4, TabulatedList, Zenon
<1>3. CASE direction = "up"
  BY <1>3 DEF Cycles
<1>4. CASE direction = "down"
  <2>1. cycle = Reverse(pitches)
    BY <1>4 DEF Cycles
  <2>2. cycle \in Seq(D) /\ Len(cycle) = n
    BY <1>1, <1>2, <2>1, Zenon
  <2> QED
    BY <1>1, <2>2
<1>5. CASE direction = "updown"
  <2>1. PICK middle : middle = SubSeq(pitches, 2, n - 1)
    OBVIOUS
  <2>2. cycle = pitches \o Reverse(middle)
    BY <1>1, <1>5, <2>1 DEF Cycles
  <2>3. middle \in Seq(D)
    BY <1>1, <2>1
  <2>4. PICK m \in Nat : m = Len(middle)
    BY <2>3
  <2>5. Reverse(middle) \in Seq(D) /\ Len(Reverse(middle)) = m
    BY <1>2, <2>3, <2>4, Zenon
  <2>6. cycle \in Seq(D) /\ Len(cycle) = Len(pitches) + Len(Reverse(middle))
    BY <2>2, <2>5, ConcatProperties, Zenon
  <2> QED
    BY <1>1, <2>5, <2>6
<1>6. CASE direction = "random"
  <2>1. PICK p \in [1..n -> 1..n] : cycle = [i \in 1..n |-> pitches[p[i]]]
    BY <1>1, <1>6 DEF Cycles
  <2>2. \A i \in 1..n : cycle[i] \in D
    BY <1>1, <2>1, SMTT(60)
  <2>3. cycle = [i \in 1..n |-> cycle[i]]
    BY <2>1
  <2>4. cycle \in Seq(D) /\ Len(cycle) = n
    BY <1>1, <2>2, <2>3, TabulatedList, Zenon
  <2> QED
    BY <1>1, <2>4
<1> QED
  BY <1>3, <1>4, <1>5, <1>6

\* The velocities add up to no more than the greatest for each note.
SumStep(ctx, sum, n) == sum + n.vel
SumHolds(ctx, done, sum) == done \in Seq(PlayNote) => sum \in Nat /\ sum <= MaxVelocity * Len(done)
Summing == INSTANCE FoldLemmas WITH Step <- SumStep, Holds <- SumHolds

LEMMA MeanFacts ==
    ASSUME NEW notes \in Seq(PlayNote), notes # <<>>
    PROVE  MeanVelocity(notes) \in 0..MaxVelocity
<1>1. SumHolds(0, <<>>, 0)
  BY MidiBounds DEF SumHolds
<1>2. ASSUME NEW done \in Seq(PlayNote), NEW x \in PlayNote, NEW sum, SumHolds(0, done, sum)
      PROVE  SumHolds(0, Append(done, x), SumStep(0, sum, x))
  <2>1. sum \in Nat /\ sum <= MaxVelocity * Len(done)
    BY <1>2, Zenon DEF SumHolds
  <2>2. PICK n \in Nat : n = Len(done) /\ Len(Append(done, x)) = n + 1
    OBVIOUS
  <2>3. PICK v \in Nat : v = x.vel /\ v <= 127
    <3>1. PICK v : v = x.vel
      OBVIOUS
    <3>2. v \in 0..MaxVelocity
      BY <3>1, NoteTypes, Zenon
    <3>3. v \in Nat /\ v <= 127
      BY <3>2 DEF MaxVelocity
    <3> QED
      BY <3>1, <3>3, Zenon
  <2>4. sum + v \in Nat /\ sum + v <= 127 * (n + 1)
    BY <2>1, <2>2, <2>3 DEF MaxVelocity
  <2> QED
    BY <2>2, <2>3, <2>4, Zenon DEF SumHolds, SumStep, MaxVelocity
<1>3. SumHolds(0, notes, Summing!Fold(0, 0, notes))
  BY <1>1, <1>2, Summing!FoldHolds, Zenon
<1>4. FoldLeft(LAMBDA sum, n : sum + n.vel, 0, notes) = Summing!Fold(0, 0, notes)
  BY ZenonT(60) DEF Summing!Fold, SumStep, FoldLeft, MapThenFoldSet, Summing!FoldLeft, Summing!MapThenFoldSet, Max, Summing!Max
<1>5. PICK n \in Nat : n = Len(notes) /\ n > 0
  OBVIOUS
<1>6. PICK sum \in Nat : sum = FoldLeft(LAMBDA s, x : s + x.vel, 0, notes) /\ sum <= MaxVelocity * n
  BY <1>3, <1>4, <1>5, Zenon DEF SumHolds
<1>7. Round(sum, n) \in 0..MaxVelocity
  BY <1>5, <1>6, MeanBound, Zenon
<1> QED
  BY <1>5, <1>6, <1>7, Zenon DEF MeanVelocity

\* arpeggiate: a run of notes that starts within the span, none past its end.
LEMMA OneStepLess == ASSUME NEW a \in Int, NEW b \in Int PROVE (a - 1) * b = b * a - b /\ b * a \in Int
OBVIOUS

LEMMA ArpeggioFacts ==
    ASSUME NEW notes \in Seq(PlayNote), notes # <<>>, NEW cycle \in Seq(0..MaxPitch), cycle # <<>>,
           NEW step \in Nat \ {0}, NEW gate \in Nat \ {0}
    PROVE  Arpeggio(notes, cycle, step, gate) \in Seq(PlayNote)
<1>1. PICK out : out = Arpeggio(notes, cycle, step, gate)
  OBVIOUS
<1>2. PICK begin \in Nat, end \in Nat : begin = SpanBegin(notes) /\ end = SpanEnd(notes) /\ begin <= end
  <2>1. SpanBegin(notes) \in Nat /\ SpanEnd(notes) \in Nat /\ 1 \in DOMAIN notes
    BY SpanFacts
  <2>2. SpanBegin(notes) <= notes[1].start /\ notes[1].start + notes[1].dur <= SpanEnd(notes)
    BY <2>1, SpanFacts, Zenon
  <2>3. notes[1].start \in Nat /\ notes[1].dur \in Nat
    <3>1. notes[1] \in PlayNote
      BY <2>1
    <3> QED
      BY <3>1, NoteTypes, Zenon
  <2> QED
    BY <2>1, <2>2, <2>3
<1>3. PICK v \in 0..MaxVelocity : v = MeanVelocity(notes)
  BY MeanFacts, Zenon
<1>4. PICK x \in Nat : x = end - begin + step - 1
  BY <1>2
<1>5. PICK count \in Nat : count = x \div step
  <2>1. x \div step \in Int /\ x < step * (x \div step) + step
    BY Divided
  <2>2. PICK q \in Int : q = x \div step
    BY <2>1
  <2>3. q >= 0
    <3>1. SUFFICES ASSUME q <= -1 PROVE FALSE
      OBVIOUS
    <3>2. step * q <= step * (-1) /\ step * q \in Int
      BY <3>1, Multiplied
    <3> QED
      BY <2>1, <2>2, <3>2
  <2> QED
    BY <2>2, <2>3
<1>6. step * count <= x /\ step * count \in Int
  BY <1>5, Divided, OneStepLess
<1>7. PICK n \in Nat : n = Len(cycle) /\ n > 0
  OBVIOUS
<1>8. out = [i \in 1..count |-> SeqNote(cycle[((i - 1) % n) + 1], begin + (i - 1) * step,
                                        Min({gate, end - (begin + (i - 1) * step)}), v)]
  BY <1>1, <1>2, <1>3, <1>4, <1>5, <1>7, Zenon DEF Arpeggio
<1>9. ASSUME NEW i \in 1..count PROVE out[i] \in PlayNote
  <2>1. PICK s \in Int : s = begin + (i - 1) * step
    OBVIOUS
  <2>2. step * i <= step * count /\ step * i \in Int
    BY Multiplied
  <2>3. (i - 1) * step = step * i - step
    BY OneStepLess
  <2>4. s < end
    BY <1>4, <1>6, <2>1, <2>2, <2>3
  <2>5. s \in Nat
    <3>1. step * 1 <= step * i
      BY Multiplied
    <3> QED
      BY <2>1, <2>2, <2>3, <3>1
  <2>6. PICK d \in Nat \ {0} : d = Min({gate, end - s})
    <3>1. PICK left \in Int : left = end - s /\ left > 0
      BY <2>4, <2>5
    <3> QED
      BY <3>1, MinOfTwo
  <2>7. PICK p \in 0..MaxPitch : p = cycle[((i - 1) % n) + 1]
    <3>1. (i - 1) % n \in 0..n - 1
      BY <1>7
    <3>2. PICK k \in 1..n : k = ((i - 1) % n) + 1
      BY <1>7, <3>1
    <3>3. PICK D : D = 0..MaxPitch
      OBVIOUS
    <3>4. cycle \in Seq(D)
      BY <3>3, Zenon
    <3>5. cycle[k] \in D
      BY <1>7, <3>4
    <3> QED
      BY <3>2, <3>3, <3>5, Zenon
  <2>8. out[i] = SeqNote(p, s, d, v)
    BY <1>8, <2>1, <2>6, <2>7, Zenon
  <2> QED
    BY <2>5, <2>8 DEF SeqNote, PlayNote
<1>10. out = [i \in 1..count |-> out[i]]
  BY <1>8
<1>11. out \in Seq(PlayNote) /\ Len(out) = count
  BY <1>9, <1>10, TabulatedList, Zenon
<1> QED
  BY <1>1, <1>11

LEMMA ArpeggiateFacts ==
    ASSUME NEW notes \in Seq(PlayNote), notes # <<>>, NEW v \in Int, NEW cycle \in Seq(0..MaxPitch), cycle # <<>>
    PROVE  Arpeggiate(notes, v, cycle, 2, 80) \in Seq(PlayNote)
<1>1. AtLeast(1, 2) = 2
  BY AtLeastFacts
<1>2. PICK step \in Nat \ {0} : step = AtLeast(1, v \div AtLeast(1, 2))
  <2>1. PICK q \in Int : q = v \div 2
    BY Divided
  <2>2. AtLeast(1, q) \in Nat \ {0}
    BY AtLeastFacts
  <2> QED
    BY <1>1, <2>1, <2>2, Zenon
<1>3. PICK gate \in Nat \ {0} : gate = AtLeast(1, (step * 80) \div 100)
  <2>1. PICK y \in Int : y = step * 80
    OBVIOUS
  <2>2. PICK q \in Int : q = y \div 100
    BY Divided
  <2>3. AtLeast(1, q) \in Nat \ {0}
    BY AtLeastFacts
  <2> QED
    BY <2>1, <2>2, <2>3, Zenon
<1>4. Arpeggiate(notes, v, cycle, 2, 80) = Arpeggio(notes, cycle, step, gate)
  BY <1>2, <1>3, Zenon DEF Arpeggiate
<1> QED
  BY <1>4, ArpeggioFacts, Zenon

\* velocity_curve
LEMMA CurveFacts ==
    ASSUME NEW shape \in {"crescendo", "decrescendo", "accent", "flat"}, NEW rank \in Nat, NEW last \in Nat,
           NEW low \in Nat, NEW high \in Nat
    PROVE  CurveAt(shape, rank, last, low, high) \in Int
<1>1. PICK a \in Int, b \in Int, c \in Int :
        a = low + high /\ b = low * last + rank * (high - low) /\ c = high * last - rank * (high - low)
  <2>1. PICK x \in Int, y \in Int, z \in Int : x = low * last /\ y = rank * (high - low) /\ z = high * last
    OBVIOUS
  <2>2. x + y \in Int /\ z - y \in Int /\ low + high \in Int
    BY <2>1
  <2> QED
    BY <2>1, <2>2
<1>2. Round(a, 2) \in Int /\ (last > 0 => Round(b, last) \in Int /\ Round(c, last) \in Int)
  BY Rounded
<1>3. CASE shape = "crescendo"
  <2>1. CurveAt(shape, rank, last, low, high) = IF last = 0 THEN Round(a, 2) ELSE Round(b, last)
    BY <1>1, <1>3 DEF CurveAt
  <2> QED
    BY <1>2, <2>1
<1>4. CASE shape = "decrescendo"
  <2>1. CurveAt(shape, rank, last, low, high) = IF last = 0 THEN Round(a, 2) ELSE Round(c, last)
    BY <1>1, <1>4 DEF CurveAt
  <2> QED
    BY <1>2, <2>1
<1>5. CASE shape = "accent"
  BY <1>5 DEF CurveAt
<1>6. CASE shape = "flat"
  BY <1>1, <1>2, <1>6 DEF CurveAt
<1> QED
  BY <1>3, <1>4, <1>5, <1>6

LEMMA VelocityCurveFacts ==
    ASSUME NEW notes \in Seq(PlayNote), NEW shape \in {"crescendo", "decrescendo", "accent", "flat"},
           NEW low \in Nat, NEW high \in Nat
    PROVE  VelocityCurve(notes, shape, low, high) \in Seq(PlayNote)
<1>1. PICK out : out = VelocityCurve(notes, shape, low, high)
  OBVIOUS
<1>2. PICK n \in Nat : n = Len(notes) /\ DOMAIN notes = 1..n
  OBVIOUS
<1>3. out = [i \in DOMAIN notes |->
                [notes[i] EXCEPT !.vel = Clamp(CurveAt(shape, Rank(notes, i), n - 1, low, high), 1, MaxVelocity)]]
  BY <1>1, <1>2, Zenon DEF VelocityCurve
<1>4. out = [i \in DOMAIN notes |-> out[i]]
  BY <1>3
<1>5. ASSUME NEW i \in DOMAIN notes PROVE out[i] \in PlayNote
  <2>1. PICK note \in PlayNote : note = notes[i]
    OBVIOUS
  <2>2. PICK rank \in Nat, last \in Nat : rank = Rank(notes, i) /\ last = n - 1
    <3>1. Rank(notes, i) \in 0..n - 1
      BY <1>2, RankFacts, Zenon
    <3>2. n - 1 \in Nat
      BY <1>2
    <3> QED
      BY <3>1, <3>2
  <2>3. PICK x \in Int : x = CurveAt(shape, rank, last, low, high)
    BY CurveFacts, Zenon
  <2>4. Clamp(x, 1, MaxVelocity) \in 0..MaxVelocity
    <3>1. Clamp(x, 1, MaxVelocity) \in 1..MaxVelocity
      BY InBounds, MidiBounds, Zenon
    <3> QED
      BY <3>1, MidiBounds
  <2>5. PICK v \in 0..MaxVelocity : v = Clamp(x, 1, MaxVelocity)
    BY <2>4, Zenon
  <2>6. out[i] = [note EXCEPT !.vel = v]
    BY <1>3, <2>1, <2>2, <2>3, <2>5, Zenon
  <2>7. [note EXCEPT !.vel = v] \in PlayNote
    BY VelocityChanged
  <2> QED
    BY <2>6, <2>7, Zenon
<1> QED
  BY <1>1, <1>4, <1>5, Listed, Zenon

\* gate_length
LEMMA GateFacts ==
    ASSUME NEW notes \in Seq(PlayNote), NEW percent \in Int
    PROVE  GateLength(notes, percent) \in Seq(PlayNote)
<1>1. PICK out : out = GateLength(notes, percent)
  OBVIOUS
<1> DEFINE Later(i) == {notes[j].start : j \in {k \in DOMAIN notes : notes[k].start > notes[i].start}}
           Reach(i) == IF percent < 100 \/ Later(i) = {} THEN notes[i].dur ELSE Min(Later(i)) - notes[i].start
<1>2. out = [i \in DOMAIN notes |-> [notes[i] EXCEPT !.dur = AtLeast(1, Round(Reach(i) * percent, 100))]]
  BY <1>1, Zenon DEF GateLength
<1>3. \A i \in DOMAIN notes : notes[i].start \in Nat /\ notes[i].dur \in Nat
  <2>1. \A i \in DOMAIN notes : notes[i] \in PlayNote
    OBVIOUS
  <2> QED
    BY <2>1, NoteTypes, Zenon
<1>4. ASSUME NEW i \in DOMAIN notes PROVE Reach(i) \in Int
  <2>1. PICK later : later = Later(i)
    OBVIOUS
  <2>2. later \subseteq Nat
    BY <1>3, <2>1
  <2>3. later # {} => Min(later) \in later
    BY <2>2, LeastOf, Zenon
  <2>4. PICK m : m = Min(later)
    OBVIOUS
  <2>7. PICK s \in Nat : s = notes[i].start
    BY <1>3, Zenon
  <2>5. CASE percent < 100 \/ later = {}
    BY <1>3, <2>1, <2>5
  <2>6. CASE ~(percent < 100 \/ later = {})
    <3>1. m \in Nat
      BY <2>2, <2>3, <2>4, <2>6
    <3>2. m - s \in Int
      BY <2>7, <3>1
    <3> QED
      BY <2>1, <2>4, <2>6, <2>7, <3>2, Zenon
  <2> QED
    BY <2>5, <2>6
<1> HIDE DEF Reach
<1>5. out = [i \in DOMAIN notes |-> out[i]]
  BY <1>2
<1>6. ASSUME NEW i \in DOMAIN notes PROVE out[i] \in PlayNote
  <2>1. PICK n \in PlayNote : n = notes[i]
    OBVIOUS
  <2>2. PICK x \in Int : x = Reach(i) * percent
    BY <1>4
  <2>3. PICK y \in Int : y = Round(x, 100)
    BY Rounded
  <2>4. AtLeast(1, y) \in Nat \ {0}
    BY AtLeastFacts
  <2>5. PICK d \in Nat \ {0} : d = AtLeast(1, y)
    BY <2>4, Zenon
  <2>6. out[i] = [n EXCEPT !.dur = d]
    BY <1>2, <2>1, <2>2, <2>3, <2>5, Zenon
  <2>7. [n EXCEPT !.dur = d] \in PlayNote
    BY DurationChanged
  <2> QED
    BY <2>6, <2>7, Zenon
<1> QED
  BY <1>1, <1>5, <1>6, Listed, Zenon
=============================================================================
