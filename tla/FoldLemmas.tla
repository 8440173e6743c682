----------------------------- MODULE FoldLemmas -----------------------------
(***************************************************************************)
(* Induction over a sequence. Step is what a fold does with each element,  *)
(* Holds what is to be shown of the result and of the elements done; a     *)
(* module with folds to reason about instantiates this one with its own,   *)
(* handing what both depend on through ctx.                                *)
(***************************************************************************)
EXTENDS Integers, SequencesExt, FiniteSetTheorems, WellFoundedInduction, TLAPS

CONSTANTS Step(_, _, _),  \* Step(ctx, result so far, element)
          Holds(_, _, _)  \* Holds(ctx, elements done, result so far)

\* The numbers are well founded.
LEMMA LessIsWF == IsWellFoundedOn({ss \in Nat \X Nat : ss[1] < ss[2]}, Nat)
BY NatLessThanWellFounded DEF OpToRel

\* A set of numbers that is not empty has a least.
LEMMA LeastElement == ASSUME NEW T, T \subseteq Nat, T # {} PROVE \E x \in T : \A y \in T : x <= y
<1>1. PICK x \in T : \A y \in T : ~ (<<y, x>> \in {ss \in Nat \X Nat : ss[1] < ss[2]})
  BY LessIsWF, WFMin
<1>2. ASSUME NEW y \in T PROVE x <= y
  <2>1. x \in Nat /\ y \in Nat
    OBVIOUS
  <2>2. ~(y < x)
    BY <1>1, <2>1
  <2> QED
    BY <2>1, <2>2
<1> QED
  BY <1>2

\* The fold of a sequence, with what its step needs to know of the rest in ctx.
Fold(ctx, base, seq) == FoldLeft(LAMBDA a, x : Step(ctx, a, x), base, seq)

\* it is the table of the fold: the result over each set of the first n positions.
Table(ctx, base, seq, n, it) ==
  it = [s \in SUBSET (1..n) |-> IF s = {} THEN base ELSE Step(ctx, it[s \ {Max(s)}], seq[Max(s)])]

\* The greatest of the first numbers, as the fold names it.
LEMMA MaxOf ==
    ASSUME NEW n \in Nat, NEW s \in SUBSET (1..n), s # {}
    PROVE  Max(s) \in s /\ \A y \in s : Max(s) >= y
<1> DEFINE T == {k \in Nat : \A y \in s : k >= y}
<1>1. n \in T
  OBVIOUS
<1>2. PICK k \in T : \A j \in T : k <= j
  BY <1>1, LeastElement
<1>3. k \in s
  <2>1. SUFFICES ASSUME k \notin s PROVE FALSE
    OBVIOUS
  <2>2. \A y \in s : y \in Nat /\ y >= 1 /\ k >= y /\ k # y
    BY <1>2, <2>1
  <2>3. PICK z \in s : TRUE
    OBVIOUS
  <2>4. k \in Nat /\ k >= 1
    BY <2>2, <2>3, <1>2
  <2>5. k - 1 \in Nat
    BY <2>4
  <2>6. \A y \in s : k - 1 >= y
    BY <2>2, <2>4
  <2>7. k - 1 \in T
    BY <2>5, <2>6
  <2> QED
    BY <2>7, <2>4, <1>2
<1>4. \E x \in s : \A y \in s : x >= y
  BY <1>2, <1>3
<1> QED
  BY <1>4, Zenon DEF Max

\* The fold is computable: the table of its results exists for every length.
\* It is built up from the empty set, one number at a time.
LEMMA FoldTable ==
  ASSUME NEW ctx, NEW base, NEW seq
  PROVE  \A n \in Nat : \E it : Table(ctx, base, seq, n, it)
<1> DEFINE T == {n \in Nat : ~ \E it : Table(ctx, base, seq, n, it)}
<1>1. SUFFICES ASSUME T # {} PROVE FALSE
  OBVIOUS
<1>2. PICK n \in T : \A m \in T : n <= m
  BY <1>1, LeastElement
<1>3. n # 0
  <2>1. SUFFICES ASSUME n = 0 PROVE FALSE
    OBVIOUS
  <2>2. SUBSET (1..0) = {{}}
    OBVIOUS
  <2>3. Table(ctx, base, seq, 0, [s \in SUBSET (1..0) |-> base])
    BY <2>2 DEF Table
  <2> QED
    BY <2>3, <2>1, <1>2
<1> DEFINE m == n - 1
<1>4. m \in Nat /\ n = m + 1 /\ n \in Nat
  BY <1>2, <1>3
<1>5. m \notin T
  BY <1>2, <1>4
<1>6. PICK it : Table(ctx, base, seq, m, it)
  BY <1>4, <1>5, Zenon
<1> HIDE DEF m
<1> DEFINE wide == [s \in SUBSET (1..n) |-> IF n \in s THEN Step(ctx, it[s \ {n}], seq[n]) ELSE it[s]]
<1>7. ASSUME NEW s \in SUBSET (1..n)
      PROVE wide[s] = IF s = {} THEN base ELSE Step(ctx, wide[s \ {Max(s)}], seq[Max(s)])
  <2>1. CASE n \in s
    <3>1. Max(s) = n
      <4>1. Max(s) \in s /\ Max(s) >= n
        BY <2>1, <1>4, MaxOf
      <4>2. Max(s) \in 1..n
        BY <4>1
      <4>3. Max(s) \in Nat /\ Max(s) <= n
        BY <4>2, <1>4
      <4> QED
        BY <4>1, <4>3, <1>4
    <3>2. s \ {n} \in SUBSET (1..n) /\ n \notin s \ {n} /\ s # {}
      BY <2>1
    <3>3. wide[s \ {n}] = it[s \ {n}]
      BY <3>2
    <3>4. wide[s] = Step(ctx, it[s \ {n}], seq[n])
      BY <2>1
    <3> QED
      BY <3>1, <3>2, <3>3, <3>4
  <2>2. CASE n \notin s
    <3>1. s \in SUBSET (1..m)
      BY <2>2, <1>4
    <3>2. wide[s] = it[s]
      BY <2>2
    <3>3. it[s] = IF s = {} THEN base ELSE Step(ctx, it[s \ {Max(s)}], seq[Max(s)])
      BY <3>1, <1>6, Zenon DEF Table
    <3>4. CASE s = {}
      BY <3>2, <3>3, <3>4
    <3>5. CASE s # {}
      <4>1. s \ {Max(s)} \in SUBSET (1..n) /\ n \notin s \ {Max(s)}
        BY <2>2
      <4>2. wide[s \ {Max(s)}] = it[s \ {Max(s)}]
        BY <4>1
      <4> QED
        BY <4>2, <3>2, <3>3
    <3> QED
      BY <3>4, <3>5
  <2> QED
    BY <2>1, <2>2
<1>8. Table(ctx, base, seq, n, wide)
  <2>1. wide = [s \in SUBSET (1..n) |-> wide[s]]
    OBVIOUS
  <2> HIDE DEF wide
  <2>2. wide = [s \in SUBSET (1..n) |-> IF s = {} THEN base ELSE Step(ctx, wide[s \ {Max(s)}], seq[Max(s)])]
    BY <2>1, <1>7, Zenon
  <2> QED
    BY <2>2, Zenon DEF Table
<1>9. n \notin T
  BY <1>8, Zenon
<1> QED
  BY <1>9, <1>2

\* What a fold over a sequence is: the last entry of such a table.
LEMMA Unfold ==
  ASSUME NEW ctx, NEW base, NEW D, NEW seq \in Seq(D)
  PROVE  \E it : Table(ctx, base, seq, Len(seq), it) /\ Fold(ctx, base, seq) = it[1..Len(seq)]
<1> DEFINE Eq(it) == it = [s \in SUBSET (1..Len(seq)) |-> IF s = {} THEN base ELSE Step(ctx, it[s \ {Max(s)}], seq[Max(s)])]
<1>0. Len(seq) \in Nat
  OBVIOUS
<1>1. \E it : Eq(it) 
  <2>1. \E it : Table(ctx, base, seq, Len(seq), it)
    BY FoldTable, <1>0
  <2> QED
    BY <2>1, Zenon DEF Table
<1>2. Eq(CHOOSE it : Eq(it))
  BY <1>1, Zenon
<1>3. DOMAIN seq = 1..Len(seq)
  OBVIOUS
<1>4. Fold(ctx, base, seq) = (CHOOSE it : Eq(it))[1..Len(seq)]
  BY <1>3, Zenon DEF Fold, FoldLeft, MapThenFoldSet
<1> QED
  BY <1>2, <1>4, Zenon DEF Table

\* The entries of it for the first k positions, one after another.
Filled(ctx, base, seq, n, it) ==
  it[1..0] = base /\ \A k \in 1..n : it[1..k] = Step(ctx, it[1..(k - 1)], seq[k])

\* So they are in such a table.
LEMMA TableAt ==
  ASSUME NEW ctx, NEW base, NEW seq, NEW n \in Nat, NEW it, Table(ctx, base, seq, n, it)
  PROVE  Filled(ctx, base, seq, n, it)
<1>1. \A s \in SUBSET (1..n) : it[s] = IF s = {} THEN base ELSE Step(ctx, it[s \ {Max(s)}], seq[Max(s)])
  BY Zenon DEF Table
<1>2. it[1..0] = base
  <2>1. 1..0 = {} /\ {} \in SUBSET (1..n)
    OBVIOUS
  <2> QED
    BY <1>1, <2>1, Zenon
<1>3. ASSUME NEW k \in 1..n PROVE it[1..k] = Step(ctx, it[1..(k - 1)], seq[k])
  <2>1. 1..k \in SUBSET (1..n) /\ 1..k # {} /\ k \in 1..k
    OBVIOUS
  <2>2. Max(1..k) \in 1..k /\ Max(1..k) >= k
    BY <2>1, MaxOf
  <2>3. Max(1..k) = k
    BY <2>2
  <2>4. (1..k) \ {k} = 1..(k - 1)
    <3>1. ASSUME NEW j \in (1..k) \ {k} PROVE j \in 1..(k - 1)
      OBVIOUS
    <3>2. ASSUME NEW j \in 1..(k - 1) PROVE j \in (1..k) \ {k}
      OBVIOUS
    <3> QED
      BY <3>1, <3>2
  <2> QED
    BY <1>1, <2>1, <2>3, <2>4, Zenon
<1> QED
  BY <1>2, <1>3, Zenon DEF Filled

\* Of nothing the fold makes the base; of one element more, a step more.
LEMMA FoldGrows ==
  ASSUME NEW ctx, NEW base, NEW D, NEW seq \in Seq(D), NEW x
  PROVE  /\ Fold(ctx, base, <<>>) = base
         /\ Fold(ctx, base, Append(seq, x)) = Step(ctx, Fold(ctx, base, seq), x)
<1>1. PICK m \in Nat : m = Len(seq)
  OBVIOUS
<1>2. PICK more : more = Append(seq, x)
  OBVIOUS
<1>3. more \in Seq(D \cup {x}) /\ Len(more) = m + 1 /\ more[m + 1] = x /\ \A k \in 1..m : more[k] = seq[k]
  <2>1. seq \in [1..m -> D \cup {x}]
    BY <1>1
  <2>2. seq \in Seq(D \cup {x})
    BY <2>1, <1>1
  <2> QED
    BY <2>2, <1>1, <1>2
<1>4. PICK it : Table(ctx, base, seq, m, it) /\ Fold(ctx, base, seq) = it[1..m]
  BY <1>1, Unfold, Zenon
<1>5. PICK wide : Table(ctx, base, more, m + 1, wide) /\ Fold(ctx, base, more) = wide[1..(m + 1)]
  BY <1>3, Unfold, Zenon
<1>6. it[1..0] = base /\ \A k \in 1..m : it[1..k] = Step(ctx, it[1..(k - 1)], seq[k])
  <2>1. Filled(ctx, base, seq, m, it)
    BY <1>1, <1>4, TableAt
  <2> QED
    BY <2>1, Zenon DEF Filled
<1>7. wide[1..0] = base /\ \A k \in 1..(m + 1) : wide[1..k] = Step(ctx, wide[1..(k - 1)], more[k])
  <2>1. m + 1 \in Nat
    BY <1>1
  <2>2. Filled(ctx, base, more, m + 1, wide)
    BY <2>1, <1>5, TableAt
  <2> QED
    BY <2>2, Zenon DEF Filled
<1> DEFINE T == {n \in Nat : n <= m /\ wide[1..n] # it[1..n]}
<1>8. T = {}
  <2>1. SUFFICES ASSUME T # {} PROVE FALSE
    OBVIOUS
  <2>2. PICK n \in T : \A k \in T : n <= k
    BY <2>1, LeastElement
  <2>3. n # 0
    BY <2>2, <1>6, <1>7
  <2>4. n \in 1..m /\ n \in 1..(m + 1) /\ n - 1 \in Nat /\ n - 1 \notin T /\ n - 1 <= m
    BY <2>2, <2>3
  <2>5. wide[1..(n - 1)] = it[1..(n - 1)]
    BY <2>4
  <2>6. wide[1..n] = it[1..n]
    BY <2>4, <2>5, <1>3, <1>6, <1>7, Zenon
  <2> QED
    BY <2>2, <2>6
<1>9. wide[1..m] = it[1..m]
  BY <1>8
<1>10. wide[1..(m + 1)] = Step(ctx, wide[1..m], x)
  <2>1. m + 1 \in 1..(m + 1) /\ (m + 1) - 1 = m
    OBVIOUS
  <2> QED
    BY <2>1, <1>3, <1>7, Zenon
<1>11. Fold(ctx, base, <<>>) = base
  <2>1. <<>> \in Seq({}) /\ Len(<<>>) = 0
    OBVIOUS
  <2>2. PICK none : Table(ctx, base, <<>>, 0, none) /\ Fold(ctx, base, <<>>) = none[1..0]
    BY <2>1, Unfold, Zenon
  <2>3. none[1..0] = base
    BY <2>2, SMT DEF Table
  <2> QED
    BY <2>2, <2>3
<1> QED
  BY <1>2, <1>4, <1>5, <1>9, <1>10, <1>11, Zenon

\* What holds of the base, and of one step more whenever it holds so far, holds of
\* the fold: induction over the sequence.
LEMMA FoldHolds ==
   \A ctx, base, D : \A seq \in Seq(D) :
     (/\ Holds(ctx, <<>>, base) 
      /\ \A done \in Seq(D), x \in D : \A a : Holds(ctx, done, a) => Holds(ctx, Append(done, x), Step(ctx, a, x)))
     => Holds(ctx, seq, Fold(ctx, base, seq))
<1> SUFFICES ASSUME NEW ctx, NEW base, NEW D, NEW seq \in Seq(D), Holds(ctx, <<>>, base),
       \A done \in Seq(D), x \in D : \A a : Holds(ctx, done, a) => Holds(ctx, Append(done, x), Step(ctx, a, x))
     PROVE Holds(ctx, seq, Fold(ctx, base, seq))
  OBVIOUS
<1>1. PICK it : Table(ctx, base, seq, Len(seq), it) /\ Fold(ctx, base, seq) = it[1..Len(seq)]
  BY Unfold
<1> DEFINE T == {n \in Nat : n <= Len(seq) /\ ~ Holds(ctx, SubSeq(seq, 1, n), it[1..n])}
<1>2. T = {}
  <2>1. SUFFICES ASSUME T # {} PROVE FALSE
    OBVIOUS
  <2>2. PICK n \in T : \A k \in T : n <= k
    BY <2>1, LeastElement
  <2>3. n \in Nat /\ n <= Len(seq) /\ Len(seq) \in Nat
    BY <2>2
  <2>5. it[1..0] = base /\ \A k \in 1..Len(seq) : it[1..k] = Step(ctx, it[1..(k - 1)], seq[k])
    <3>1. Filled(ctx, base, seq, Len(seq), it)
      BY <1>1, <2>3, TableAt
    <3> QED
      BY <3>1, Zenon DEF Filled
  <2>6. CASE n = 0
    <3>1. 1..n = 1..0 /\ SubSeq(seq, 1, n) = <<>>
      BY <2>6
    <3> QED
      BY <3>1, <2>5, <2>2
  <2>7. CASE n # 0
    <3>1. n - 1 \in Nat /\ n - 1 <= Len(seq) /\ n - 1 \notin T
      BY <2>7, <2>2, <2>3
    <3>2. Holds(ctx, SubSeq(seq, 1, n - 1), it[1..(n - 1)])
      BY <3>1
    <3>5. it[1..n] = Step(ctx, it[1..(n-1)], seq[n])
      <4>1. n \in 1..Len(seq)
        BY <2>3, <2>7
      <4> QED
        BY <4>1, <2>5
    <3>6. SubSeq(seq, 1, n) = Append(SubSeq(seq, 1, n - 1), seq[n]) /\ SubSeq(seq, 1, n-1) \in Seq(D) /\ seq[n] \in D
      <4>1. seq[n] \in D /\ SubSeq(seq, 1, n - 1) \in Seq(D) /\ Len(SubSeq(seq, 1, n - 1)) = n - 1
        BY <2>3, <2>7
      <4>2. SubSeq(seq, 1, n) \in Seq(D) /\ Len(SubSeq(seq, 1, n)) = n
        BY <2>3
      <4>3. \A i \in 1..n : SubSeq(seq, 1, n)[i] = Append(SubSeq(seq, 1, n - 1), seq[n])[i]
        BY <2>3, <4>1
      <4> QED
        BY <2>3, <4>1, <4>2, <4>3, SMTT(60)
    <3>7. Holds(ctx, SubSeq(seq, 1, n), it[1..n])
      BY <3>2, <3>5, <3>6
    <3> QED
      BY <3>7, <2>2
  <2> QED
    BY <2>6, <2>7
<1>3. Len(seq) \in Nat /\ Len(seq) \notin T /\ SubSeq(seq, 1, Len(seq)) = seq
  BY <1>2
<1>4. Holds(ctx, SubSeq(seq, 1, Len(seq)), it[1..Len(seq)])
  BY <1>3
<1> QED
  BY <1>4, <1>3, <1>1
=============================================================================
