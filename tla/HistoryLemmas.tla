---------------------------- MODULE HistoryLemmas ----------------------------
(***************************************************************************)
(* What an undo stack keeps, whatever its edits are. A scene is what the   *)
(* edits change; Links says that an edit made one scene of another, Shows  *)
(* that a state is one of a scene. If the entries of a history lead from   *)
(* scene to scene up to the present one, then so they do after any push,   *)
(* drop of the oldest, undo and redo; and undoing them, one by one, or     *)
(* making them again, shows the scenes they lead through.                  *)
(***************************************************************************)
EXTENDS UndoHistory, SequenceTheorems, TLAPS

CONSTANTS Links(_, _, _),   \* Links(edit, before, after): between two scenes
          Shows(_, _),      \* Shows(state, scene)
          Back(_, _),       \* Back(state, edit): the edit undone
          Forth(_, _)       \* Forth(state, edit): the edit made again

\* The edits of list lead from s to t; the entries of a past lead to the present scene, those
\* of a future, of which the last is the next to be made, away from it.
Trail(list, S) == \A i \in 1..Len(list) : Links(list[i], S[i - 1], S[i])
Path(list, s, t) == \E D, S : list \in Seq(D) /\ S[0] = s /\ S[Len(list)] = t /\ Trail(list, S)
PastTrail(past, A) == \A k \in 1..Len(past) : Path(past[k].edits, A[k - 1], A[k])
Past(past, here) == \E D, A : past \in Seq(D) /\ A[Len(past)] = here /\ PastTrail(past, A)
FutureTrail(future, B) == \A k \in 1..Len(future) : Path(future[k].edits, B[k], B[k - 1])
Future(future, here) == \E D, B : future \in Seq(D) /\ B[Len(future)] = here /\ FutureTrail(future, B)

----------------------------------------------------------------------------
(* Paths.                                                                  *)

\* A sequence of elements of a set is one of those of a larger set.
LEMMA Wider == ASSUME NEW D, NEW E, D \subseteq E, NEW list \in Seq(D) PROVE list \in Seq(E)
<1>1. list \in [1..Len(list) -> D] /\ Len(list) \in Nat
  OBVIOUS
<1>2. list \in [1..Len(list) -> E]
  BY <1>1
<1> QED
  BY <1>1, <1>2

\* No edit leads nowhere.
LEMMA PathNone == ASSUME NEW s PROVE Path(<<>>, s, s)
<1> DEFINE S == [i \in {0} |-> s]
<1>1. <<>> \in Seq({}) /\ Len(<<>>) = 0
  OBVIOUS
<1>2. S[0] = s /\ Trail(<<>>, S)
  BY <1>1 DEF Trail
<1> QED
  BY <1>1, <1>2, Zenon DEF Path

\* Two paths make one.
LEMMA PathJoins ==
    ASSUME NEW list, NEW more, NEW s, NEW t, NEW u, Path(list, s, t), Path(more, t, u)
    PROVE  Path(list \o more, s, u)
<1>1. PICK D, S : list \in Seq(D) /\ S[0] = s /\ S[Len(list)] = t /\ Trail(list, S)
  BY Zenon DEF Path
<1>2. PICK E, T : more \in Seq(E) /\ T[0] = t /\ T[Len(more)] = u /\ Trail(more, T)
  BY Zenon DEF Path
<1>3. list \in Seq(D \cup E) /\ more \in Seq(D \cup E)
  BY <1>1, <1>2, Wider
<1>4. PICK n \in Nat, m \in Nat : n = Len(list) /\ m = Len(more)
  BY <1>3
<1>10. PICK U : U = [i \in 0..(n + m) |-> IF i <= n THEN S[i] ELSE T[i - n]]
  OBVIOUS
<1>5. /\ list \o more \in Seq(D \cup E) /\ Len(list \o more) = n + m
      /\ \A i \in 1..n : (list \o more)[i] = list[i]
      /\ \A i \in n + 1..n + m : (list \o more)[i] = more[i - n]
  BY <1>3, <1>4
<1>6. U[0] = s
  BY <1>1, <1>4, <1>10
<1>7. U[n + m] = u
  <2>1. CASE m = 0
    BY <2>1, <1>1, <1>2, <1>4, <1>10
  <2>2. CASE m > 0
    BY <2>2, <1>2, <1>4, <1>10
  <2> QED
    BY <2>1, <2>2
<1>8. ASSUME NEW i \in 1..n + m PROVE Links((list \o more)[i], U[i - 1], U[i])
  <2>1. CASE i <= n
    <3>1. i \in 1..n /\ U[i] = S[i] /\ U[i - 1] = S[i - 1]
      BY <2>1, <1>10
    <3> QED
      BY <3>1, <1>1, <1>4, <1>5 DEF Trail
  <2>2. CASE i > n
    <3>1. i - n \in 1..m /\ i \in n + 1..n + m /\ U[i] = T[i - n]
      BY <2>2, <1>10
    <3>2. U[i - 1] = T[(i - n) - 1]
      <4>1. CASE i - 1 = n
        BY <4>1, <1>1, <1>2, <1>4, <1>10
      <4>2. CASE i - 1 > n
        <5>1. U[i - 1] = T[(i - 1) - n] /\ (i - 1) - n = (i - n) - 1
          BY <4>2, <1>10
        <5> QED
          BY <5>1
      <4> QED
        BY <2>2, <4>1, <4>2
    <3>3. Links(more[i - n], T[(i - n) - 1], T[i - n])
      BY <3>1, <1>2, <1>4 DEF Trail
    <3>4. (list \o more)[i] = more[i - n]
      BY <3>1, <1>5
    <3> QED
      BY <3>1, <3>2, <3>3, <3>4, Zenon
  <2>3. i <= n \/ i > n
    OBVIOUS
  <2> QED
    BY <2>1, <2>2, <2>3, Zenon
<1>9. Trail(list \o more, U)
  BY <1>5, <1>8 DEF Trail
<1> QED
  BY <1>5, <1>6, <1>7, <1>9, Zenon DEF Path

\* An edit is a path.
LEMMA PathOfOne == ASSUME NEW e, NEW s, NEW t, Links(e, s, t) PROVE Path(<<e>>, s, t)
<1> DEFINE S == [i \in 0..1 |-> IF i = 0 THEN s ELSE t]
<1>1. <<e>> \in Seq({e}) /\ Len(<<e>>) = 1 /\ <<e>>[1] = e
  OBVIOUS
<1>2. S[0] = s /\ S[1] = t
  OBVIOUS
<1>3. Trail(<<e>>, S)
  <2> SUFFICES ASSUME NEW i \in 1..1 PROVE Links(<<e>>[i], S[i - 1], S[i])
    BY <1>1 DEF Trail
  <2>1. i = 1 /\ i - 1 = 0
    OBVIOUS
  <2> QED
    BY <1>1, <1>2, <2>1
<1> QED
  BY <1>1, <1>2, <1>3, Zenon DEF Path

\* A path goes on with an edit.
LEMMA PathGoesOn ==
    ASSUME NEW list, NEW e, NEW s, NEW t, NEW u, Path(list, s, t), Links(e, t, u)
    PROVE  Path(Append(list, e), s, u)
<1>1. PICK D : list \in Seq(D)
  BY Zenon DEF Path
<1>2. list \in Seq(D \cup {e}) /\ e \in D \cup {e}
  BY <1>1, Wider
<1>3. Append(list, e) = list \o <<e>>
  BY <1>2
<1>4. Path(<<e>>, t, u)
  BY PathOfOne
<1> QED
  BY <1>3, <1>4, PathJoins

----------------------------------------------------------------------------
(* The past and the future.                                                *)

\* A history with nothing in it leads nowhere.
LEMMA NoneBefore == ASSUME NEW s PROVE Past(<<>>, s) /\ Future(<<>>, s)
<1>1. PICK A : A = [k \in {0} |-> s]
  OBVIOUS
<1>2. <<>> \in Seq({}) /\ Len(<<>>) = 0 /\ A[0] = s
  BY <1>1
<1>3. PastTrail(<<>>, A) /\ FutureTrail(<<>>, A)
  BY <1>2 DEF PastTrail, FutureTrail
<1> QED
  BY <1>2, <1>3, Zenon DEF Past, Future

\* An entry that leads from the present scene to another makes the past of that one.
LEMMA PastGrows ==
    ASSUME NEW past, NEW entry, NEW s, NEW t, Past(past, s), Path(entry.edits, s, t)
    PROVE  Past(Append(past, entry), t)
<1>1. PICK D, A : past \in Seq(D) /\ A[Len(past)] = s /\ PastTrail(past, A)
  BY Zenon DEF Past
<1>2. PICK n \in Nat : n = Len(past)
  BY <1>1
<1>3. past \in Seq(D \cup {entry})
  BY <1>1, Wider
<1>4. PICK all : all = Append(past, entry)
  OBVIOUS
<1>5. /\ all \in Seq(D \cup {entry}) /\ Len(all) = n + 1 /\ all[n + 1] = entry
      /\ \A k \in 1..n : all[k] = past[k]
  BY <1>2, <1>3, <1>4
<1>6. PICK B : B = [k \in 0..n + 1 |-> IF k <= n THEN A[k] ELSE t]
  OBVIOUS
<1>7. B[n] = s /\ B[n + 1] = t
  BY <1>1, <1>2, <1>6
<1>8. ASSUME NEW k \in 1..n + 1 PROVE Path(all[k].edits, B[k - 1], B[k])
  <2>1. CASE k <= n
    <3>1. k \in 1..n /\ B[k] = A[k] /\ B[k - 1] = A[k - 1]
      BY <2>1, <1>6
    <3>2. Path(past[k].edits, A[k - 1], A[k]) /\ all[k] = past[k]
      BY <3>1, <1>1, <1>2, <1>5 DEF PastTrail
    <3> QED
      BY <3>1, <3>2, Zenon
  <2>2. CASE k = n + 1
    <3>1. k - 1 = n
      BY <2>2
    <3> QED
      BY <2>2, <3>1, <1>5, <1>7, Zenon
  <2>3. k <= n \/ k = n + 1
    OBVIOUS
  <2> QED
    BY <2>1, <2>2, <2>3, Zenon
<1>9. PastTrail(all, B)
  BY <1>5, <1>8 DEF PastTrail
<1> QED
  BY <1>4, <1>5, <1>7, <1>9, Zenon DEF Past

\* What is left of a past when its oldest entries go is one.
LEMMA PastShrinks ==
    ASSUME NEW past, NEW s, Past(past, s), NEW first \in 0..Len(past)
    PROVE  Past(SubSeq(past, first + 1, Len(past)), s)
<1>1. PICK D, A : past \in Seq(D) /\ A[Len(past)] = s /\ PastTrail(past, A)
  BY Zenon DEF Past
<1>2. PICK n \in Nat : n = Len(past)
  BY <1>1
<1>3. PICK rest : rest = SubSeq(past, first + 1, n)
  OBVIOUS
<1>4. /\ rest \in Seq(D) /\ Len(rest) = n - first
      /\ \A k \in 1..n - first : rest[k] = past[first + k]
  BY <1>1, <1>2, <1>3
<1>5. PICK B : B = [k \in 0..n - first |-> A[first + k]]
  OBVIOUS
<1>6. B[n - first] = s
  BY <1>1, <1>2, <1>5
<1>7. ASSUME NEW k \in 1..n - first PROVE Path(rest[k].edits, B[k - 1], B[k])
  <2>1. first + k \in 1..n /\ B[k] = A[first + k] /\ rest[k] = past[first + k]
    BY <1>2, <1>4, <1>5
  <2>2. B[k - 1] = A[(first + k) - 1]
    <3>1. B[k - 1] = A[first + (k - 1)] /\ first + (k - 1) = (first + k) - 1
      BY <1>2, <1>5
    <3> QED
      BY <3>1
  <2>3. Path(past[first + k].edits, A[(first + k) - 1], A[first + k])
    BY <1>1, <1>2, <2>1 DEF PastTrail
  <2> QED
    BY <2>1, <2>2, <2>3, Zenon
<1>8. PastTrail(rest, B)
  BY <1>4, <1>7 DEF PastTrail
<1> QED
  BY <1>2, <1>3, <1>4, <1>6, <1>8, Zenon DEF Past

\* The newest entry leads from the scene the rest leads to.
LEMMA PastLast ==
    ASSUME NEW past, NEW t, Past(past, t), past # <<>>
    PROVE  \E s : Past(Front(past), s) /\ Path(Last(past).edits, s, t)
<1>1. PICK D, A : past \in Seq(D) /\ A[Len(past)] = t /\ PastTrail(past, A)
  BY Zenon DEF Past
<1>2. PICK n \in Nat : n = Len(past)
  BY <1>1
<1>3. n > 0
  BY <1>1, <1>2
<1>4. PICK front : front = Front(past)
  OBVIOUS
<1>5. front \in Seq(D) /\ Len(front) = n - 1 /\ \A k \in 1..n - 1 : front[k] = past[k]
  BY <1>1, <1>2, <1>3, <1>4 DEF Front
<1>6. PastTrail(front, A)
  BY <1>1, <1>2, <1>5 DEF PastTrail
<1>7. Past(front, A[n - 1])
  BY <1>5, <1>6, Zenon DEF Past
<1>8. Path(Last(past).edits, A[n - 1], t)
  BY <1>1, <1>2, <1>3 DEF PastTrail, Last
<1> QED
  BY <1>4, <1>7, <1>8, Zenon

\* An entry undone is the next of the future.
LEMMA FutureGrows ==
    ASSUME NEW future, NEW entry, NEW s, NEW t, Future(future, t), Path(entry.edits, s, t)
    PROVE  Future(Append(future, entry), s)
<1>1. PICK D, B : future \in Seq(D) /\ B[Len(future)] = t /\ FutureTrail(future, B)
  BY Zenon DEF Future
<1>2. PICK n \in Nat : n = Len(future)
  BY <1>1
<1>3. future \in Seq(D \cup {entry})
  BY <1>1, Wider
<1>4. PICK all : all = Append(future, entry)
  OBVIOUS
<1>5. /\ all \in Seq(D \cup {entry}) /\ Len(all) = n + 1 /\ all[n + 1] = entry
      /\ \A k \in 1..n : all[k] = future[k]
  BY <1>2, <1>3, <1>4
<1>6. PICK A : A = [k \in 0..n + 1 |-> IF k <= n THEN B[k] ELSE s]
  OBVIOUS
<1>7. A[n] = t /\ A[n + 1] = s
  BY <1>1, <1>2, <1>6
<1>8. ASSUME NEW k \in 1..n + 1 PROVE Path(all[k].edits, A[k], A[k - 1])
  <2>1. CASE k <= n
    <3>1. k \in 1..n /\ A[k] = B[k] /\ A[k - 1] = B[k - 1]
      BY <2>1, <1>6
    <3>2. Path(future[k].edits, B[k], B[k - 1]) /\ all[k] = future[k]
      BY <3>1, <1>1, <1>2, <1>5 DEF FutureTrail
    <3> QED
      BY <3>1, <3>2, Zenon
  <2>2. CASE k = n + 1
    <3>1. k - 1 = n
      BY <2>2
    <3> QED
      BY <2>2, <3>1, <1>5, <1>7, Zenon
  <2>3. k <= n \/ k = n + 1
    OBVIOUS
  <2> QED
    BY <2>1, <2>2, <2>3, Zenon
<1>9. FutureTrail(all, A)
  BY <1>5, <1>8 DEF FutureTrail
<1> QED
  BY <1>4, <1>5, <1>7, <1>9, Zenon DEF Future

\* The next entry of a future leads on from here to the scene the rest starts from.
LEMMA FutureLast ==
    ASSUME NEW future, NEW s, Future(future, s), future # <<>>
    PROVE  \E t : Future(Front(future), t) /\ Path(Last(future).edits, s, t)
<1>1. PICK D, B : future \in Seq(D) /\ B[Len(future)] = s /\ FutureTrail(future, B)
  BY Zenon DEF Future
<1>2. PICK n \in Nat : n = Len(future)
  BY <1>1
<1>3. n > 0
  BY <1>1, <1>2
<1>4. PICK front : front = Front(future)
  OBVIOUS
<1>5. front \in Seq(D) /\ Len(front) = n - 1 /\ \A k \in 1..n - 1 : front[k] = future[k]
  BY <1>1, <1>2, <1>3, <1>4 DEF Front
<1>6. FutureTrail(front, B)
  BY <1>1, <1>2, <1>5 DEF FutureTrail
<1>7. Future(front, B[n - 1])
  BY <1>5, <1>6, Zenon DEF Future
<1>8. Path(Last(future).edits, s, B[n - 1])
  BY <1>1, <1>2, <1>3 DEF FutureTrail, Last
<1> QED
  BY <1>4, <1>7, <1>8, Zenon

----------------------------------------------------------------------------
(* Undoing and redoing the edits of a path.                                *)

\* Each edit undone shows the scene before it, each one made again the scene after.
BackShows == \A e, s, t, a : Links(e, s, t) /\ Shows(a, t) => Shows(Back(a, e), s)
ForthShows == \A e, s, t, a : Links(e, s, t) /\ Shows(a, s) => Shows(Forth(a, e), t)

\* The edits of a list undone, the last one first, and made again.
Unmade(a, list) == FoldLeft(LAMBDA b, e : Back(b, e), a, Reverse(list))
Remade(a, list) == FoldLeft(LAMBDA b, e : Forth(b, e), a, list)

\* done are the first elements of all; ctx is all and the scenes the fold leads through.
Begins(done, all) == Len(done) <= Len(all) /\ \A i \in 1..Len(done) : done[i] = all[i]
BackStep(ctx, a, e) == Back(a, e)
ForthStep(ctx, a, e) == Forth(a, e)
ShowsSoFar(ctx, done, a) == Begins(done, ctx[1]) => Shows(a, ctx[2][Len(done)])
Undoing == INSTANCE FoldLemmas WITH Step <- BackStep, Holds <- ShowsSoFar
Redoing == INSTANCE FoldLemmas WITH Step <- ForthStep, Holds <- ShowsSoFar

\* What begins with one more element began with it.
LEMMA BeginsOneMore ==
    ASSUME NEW D, NEW done \in Seq(D), NEW x \in D, NEW all \in Seq(D), Begins(Append(done, x), all)
    PROVE  Begins(done, all) /\ Len(done) + 1 \in 1..Len(all) /\ x = all[Len(done) + 1]
<1>1. PICK n \in Nat, m \in Nat : n = Len(done) /\ m = Len(all)
  OBVIOUS
<1>2. PICK more : more = Append(done, x)
  OBVIOUS
<1>3. Len(more) = n + 1 /\ more[n + 1] = x /\ \A i \in 1..n : more[i] = done[i]
  BY <1>1, <1>2
<1>4. n + 1 <= m /\ \A i \in 1..n + 1 : more[i] = all[i]
  BY <1>1, <1>2, <1>3 DEF Begins
<1>5. \A i \in 1..n : done[i] = all[i]
  BY <1>1, <1>3, <1>4
<1> QED
  BY <1>1, <1>3, <1>4, <1>5 DEF Begins

\* Making the edits of a path again shows the scene it leads to.
LEMMA ForthAlong ==
    ASSUME ForthShows, NEW list, NEW s, NEW t, Path(list, s, t), NEW a, Shows(a, s)
    PROVE  Shows(Remade(a, list), t)
<1>1. PICK D, S : list \in Seq(D) /\ S[0] = s /\ S[Len(list)] = t /\ Trail(list, S)
  BY Zenon DEF Path
<1>2. PICK ctx : ctx = <<list, S>>
  OBVIOUS
<1>3. ctx[1] = list /\ ctx[2] = S
  BY <1>2
<1>4. ShowsSoFar(ctx, <<>>, a)
  BY <1>1, <1>3 DEF ShowsSoFar
<1>5. ASSUME NEW done \in Seq(D), NEW x \in D, NEW b, ShowsSoFar(ctx, done, b)
      PROVE  ShowsSoFar(ctx, Append(done, x), ForthStep(ctx, b, x))
  <2> SUFFICES ASSUME Begins(Append(done, x), list) PROVE Shows(Forth(b, x), S[Len(Append(done, x))])
    BY <1>3 DEF ShowsSoFar, ForthStep
  <2>1. Begins(done, list) /\ Len(done) + 1 \in 1..Len(list) /\ x = list[Len(done) + 1]
    BY <1>1, BeginsOneMore
  <2>2. Shows(b, S[Len(done)])
    BY <1>3, <1>5, <2>1 DEF ShowsSoFar
  <2>3. PICK n \in Nat : n = Len(done)
    OBVIOUS
  <2>4. Links(x, S[n], S[n + 1])
    <3>1. Links(list[n + 1], S[(n + 1) - 1], S[n + 1])
      BY <1>1, <2>1, <2>3 DEF Trail
    <3>2. (n + 1) - 1 = n
      OBVIOUS
    <3> QED
      BY <3>1, <3>2, <2>1, <2>3, Zenon
  <2>5. Len(Append(done, x)) = n + 1
    BY <2>3
  <2> QED
    BY <2>2, <2>3, <2>4, <2>5, Zenon DEF ForthShows
<1>6. ShowsSoFar(ctx, list, Redoing!Fold(ctx, a, list))
  BY <1>1, <1>4, <1>5, Redoing!FoldHolds
<1>7. Remade(a, list) = Redoing!Fold(ctx, a, list)
  BY ZenonT(60) DEF Remade, Redoing!Fold, ForthStep, FoldLeft, MapThenFoldSet, Redoing!FoldLeft, Redoing!MapThenFoldSet, Max, Redoing!Max
<1>8. Begins(list, list)
  BY <1>1 DEF Begins
<1> QED
  BY <1>1, <1>3, <1>6, <1>7, <1>8, Zenon DEF ShowsSoFar

\* The first edit undone is the last one made.
LEMMA ReverseFacts ==
    ASSUME NEW D, NEW list \in Seq(D)
    PROVE  /\ Reverse(list) \in Seq(D) /\ Len(Reverse(list)) = Len(list)
           /\ \A i \in 1..Len(list) : Reverse(list)[i] = list[(Len(list) - i) + 1]
<1>1. PICK n \in Nat : n = Len(list)
  OBVIOUS
<1>2. Reverse(list) = [i \in 1..n |-> list[(n - i) + 1]]
  BY <1>1, Zenon DEF Reverse
<1>3. \A i \in 1..n : list[(n - i) + 1] \in D
  BY <1>1
<1>4. PICK back : back = [i \in 1..n |-> list[(n - i) + 1]]
  OBVIOUS
<1>5. back \in [1..n -> D]
  BY <1>3, <1>4
<1>6. back \in Seq(D) /\ Len(back) = n
  BY <1>5
<1> QED
  BY <1>1, <1>2, <1>4, <1>6

\* Undoing the edits of a path, the last one first, shows the scene it came from.
LEMMA BackAlong ==
    ASSUME BackShows, NEW list, NEW s, NEW t, Path(list, s, t), NEW a, Shows(a, t)
    PROVE  Shows(Unmade(a, list), s)
<1>1. PICK D, S : list \in Seq(D) /\ S[0] = s /\ S[Len(list)] = t /\ Trail(list, S)
  BY Zenon DEF Path
<1>2. PICK n \in Nat : n = Len(list)
  BY <1>1
<1>3. PICK rev : rev = Reverse(list)
  OBVIOUS
<1>4. rev \in Seq(D) /\ Len(rev) = n /\ \A i \in 1..n : rev[i] = list[(n - i) + 1]
  BY <1>1, <1>2, <1>3, ReverseFacts
<1>5. PICK R : R = [i \in 0..n |-> S[n - i]]
  OBVIOUS
<1>6. R[0] = t /\ R[n] = s
  BY <1>1, <1>2, <1>5
<1>7. PICK ctx : ctx = <<rev, R>>
  OBVIOUS
<1>8. ctx[1] = rev /\ ctx[2] = R
  BY <1>7
<1>9. ShowsSoFar(ctx, <<>>, a)
  BY <1>6, <1>8 DEF ShowsSoFar
<1>10. ASSUME NEW done \in Seq(D), NEW x \in D, NEW b, ShowsSoFar(ctx, done, b)
      PROVE  ShowsSoFar(ctx, Append(done, x), BackStep(ctx, b, x))
  <2> SUFFICES ASSUME Begins(Append(done, x), rev) PROVE Shows(Back(b, x), R[Len(Append(done, x))])
    BY <1>8 DEF ShowsSoFar, BackStep
  <2>1. Begins(done, rev) /\ Len(done) + 1 \in 1..Len(rev) /\ x = rev[Len(done) + 1]
    BY <1>4, BeginsOneMore
  <2>2. Shows(b, R[Len(done)])
    BY <1>8, <1>10, <2>1 DEF ShowsSoFar
  <2>3. PICK m \in Nat : m = Len(done)
    OBVIOUS
  <2>4. Links(x, R[m + 1], R[m])
    <3>1. m + 1 \in 1..n /\ n - m \in 1..n /\ (n - (m + 1)) + 1 = n - m /\ (n - m) - 1 = n - (m + 1)
      BY <2>1, <2>3, <1>4
    <3>2. Links(list[n - m], S[(n - m) - 1], S[n - m])
      BY <3>1, <1>1, <1>2 DEF Trail
    <3>3. x = list[n - m]
      BY <3>1, <2>1, <2>3, <1>4
    <3>4. R[m + 1] = S[(n - m) - 1] /\ R[m] = S[n - m]
      BY <3>1, <1>5
    <3> QED
      BY <3>2, <3>3, <3>4, Zenon
  <2>5. Len(Append(done, x)) = m + 1
    BY <2>3
  <2> QED
    BY <2>2, <2>3, <2>4, <2>5, Zenon DEF BackShows
<1>11. ShowsSoFar(ctx, rev, Undoing!Fold(ctx, a, rev))
  BY <1>4, <1>9, <1>10, Undoing!FoldHolds
<1>12. Unmade(a, list) = Undoing!Fold(ctx, a, rev)
  BY <1>3, ZenonT(60) DEF Unmade, Undoing!Fold, BackStep, FoldLeft, MapThenFoldSet, Undoing!FoldLeft, Undoing!MapThenFoldSet, Max, Undoing!Max
<1>13. Begins(rev, rev)
  BY <1>4 DEF Begins
<1> QED
  BY <1>4, <1>6, <1>8, <1>11, <1>12, <1>13, Zenon DEF ShowsSoFar

----------------------------------------------------------------------------
(* All edits of a past are one path.                                       *)

\* The edits of the entries, one after another.
EditsOf(past) == FoldLeft(LAMBDA all, e : all \o e.edits, <<>>, past)

\* What the fold over the first entries has come to leads to the scene they lead to.
JoinStep(ctx, all, entry) == all \o entry.edits
LeadsSoFar(ctx, done, all) == \A t : Past(done, t) => \E s : Path(all, s, t)
Joining == INSTANCE FoldLemmas WITH Step <- JoinStep, Holds <- LeadsSoFar

\* The edits of a past lead to the scene it leads to.
LEMMA PastIsPath ==
    ASSUME NEW past, NEW t, Past(past, t)
    PROVE  \E s : Path(EditsOf(past), s, t)
<1>1. PICK D : past \in Seq(D)
  BY Zenon DEF Past
<1>2. LeadsSoFar(0, <<>>, <<>>)
  BY PathNone, Zenon DEF LeadsSoFar
<1>3. ASSUME NEW done \in Seq(D), NEW x \in D, NEW all, LeadsSoFar(0, done, all)
      PROVE  LeadsSoFar(0, Append(done, x), JoinStep(0, all, x))
  <2> SUFFICES ASSUME NEW u, Past(Append(done, x), u) PROVE \E s : Path(all \o x.edits, s, u)
    BY Zenon DEF LeadsSoFar, JoinStep
  <2>1. PICK more : more = Append(done, x)
    OBVIOUS
  <2>2. more # <<>> /\ Front(more) = done /\ Last(more) = x
    BY <2>1 DEF Front, Last
  <2>3. PICK v : Past(done, v) /\ Path(x.edits, v, u)
    BY <2>1, <2>2, PastLast, Zenon
  <2>4. PICK s : Path(all, s, v)
    BY <1>3, <2>3, Zenon DEF LeadsSoFar
  <2> QED
    BY <2>3, <2>4, PathJoins, Zenon
<1>4. LeadsSoFar(0, past, Joining!Fold(0, <<>>, past))
  BY <1>1, <1>2, <1>3, Joining!FoldHolds
<1>5. EditsOf(past) = Joining!Fold(0, <<>>, past)
  BY ZenonT(60) DEF EditsOf, Joining!Fold, JoinStep, FoldLeft, MapThenFoldSet, Joining!FoldLeft, Joining!MapThenFoldSet,
                    Max, Joining!Max
<1> QED
  BY <1>4, <1>5, Zenon DEF LeadsSoFar

----------------------------------------------------------------------------
(* The undo stack.                                                         *)

\* A history whose past leads to the present scene, by the open group if there is one, and
\* whose future leads away from it.
IsHistory(h) ==
    /\ h = [past |-> h.past, future |-> h.future, group |-> h.group, depth |-> h.depth, wiped |-> h.wiped]
    /\ h.depth \in Nat
HistoryOf(h, here) ==
    /\ IsHistory(h) /\ (h.depth = 0 => h.group = <<>>) /\ Future(h.future, here)
    /\ \E mid : Past(h.past, mid) /\ Path(h.group, mid, here)

\* Outside a group the past leads here.
LEMMA OutsideGroup ==
    ASSUME NEW h, NEW s, HistoryOf(h, s), h.group = <<>>
    PROVE  Past(h.past, s)
<1>1. PICK mid : Past(h.past, mid) /\ Path(<<>>, mid, s)
  BY Zenon DEF HistoryOf
<1>2. mid = s
  <2>1. PICK S : S[0] = mid /\ S[Len(<<>>)] = s
    BY <1>1, Zenon DEF Path
  <2>2. Len(<<>>) = 0
    OBVIOUS
  <2> QED
    BY <2>1, <2>2, Zenon
<1> QED
  BY <1>1, <1>2, Zenon

\* A history that was wiped is one of any scene.
LEMMA WipedIsHistory ==
    ASSUME NEW h, NEW s
    PROVE  HistoryOf(NoHistory, s) /\ HistoryOf(Clear(h), s) /\ HistoryOf(Reset(h), s)
<1>1. PICK none, wiped : none = NoHistory /\ wiped = Clear(h)
  OBVIOUS
<1>2. none = [past |-> <<>>, future |-> <<>>, group |-> <<>>, depth |-> 0, wiped |-> FALSE]
  BY <1>1 DEF NoHistory
<1>3. wiped = [past |-> <<>>, future |-> <<>>, group |-> <<>>, depth |-> 0, wiped |-> TRUE]
  BY <1>1 DEF Clear, NoHistory
<1>4. HistoryOf(none, s)
  BY <1>2, NoneBefore, PathNone DEF HistoryOf, IsHistory
<1>5. HistoryOf(wiped, s)
  BY <1>3, NoneBefore, PathNone DEF HistoryOf, IsHistory
<1> QED
  BY <1>1, <1>4, <1>5 DEF Reset

\* What is over a limit goes from the old end.
LEMMA Truncates ==
    ASSUME NEW past, NEW s, Past(past, s)
    PROVE  Past(Truncate(past), s) /\ (past # <<>> => Past(Tail(past), s))
<1>1. PICK D : past \in Seq(D)
  BY Zenon DEF Past
<1>2. PICK n \in Nat : n = Len(past)
  BY <1>1
<1>3. past # <<>> => Past(Tail(past), s)
  <2> SUFFICES ASSUME past # <<>> PROVE Past(Tail(past), s)
    OBVIOUS
  <2>1. 1 \in 0..Len(past) /\ Tail(past) = SubSeq(past, 1 + 1, Len(past))
    BY <1>1, <1>2
  <2> QED
    BY <2>1, PastShrinks
<1>4. Past(Truncate(past), s)
  <2>1. PICK I : I = {i \in 1..n : past[i].sampleOp}
    OBVIOUS
  <2>2. SelectInSeq(past, LAMBDA e : e.sampleOp) = IF I # {} THEN Min(I) ELSE 0
    BY <1>2, <2>1, Zenon DEF SelectInSeq
  <2>3. I # {} => Min(I) \in 0..n
    <3> SUFFICES ASSUME I # {} PROVE Min(I) \in 0..n
      OBVIOUS
    <3>1. I \subseteq Nat
      BY <2>1
    <3>2. PICK x \in I : \A y \in I : x <= y
      BY <3>1, Undoing!LeastElement
    <3>3. Min(I) \in I
      BY <3>2, Zenon DEF Min
    <3> QED
      BY <2>1, <3>3
  <2>4. PICK first : first = IF I # {} THEN Min(I) ELSE 0
    OBVIOUS
  <2>5. first \in 0..n
    BY <2>3, <2>4
  <2>6. Truncate(past) = SubSeq(past, first + 1, n)
    BY <1>2, <2>2, <2>4, Zenon DEF Truncate
  <2> QED
    BY <1>2, <2>5, <2>6, PastShrinks
<1> QED
  BY <1>3, <1>4

\* The newest entry is dropped by no limit, unless it is the sample operation that is one too
\* many.
LEMMA NewestStays ==
    ASSUME NEW h, IsHistory(h), NEW D, h.past \in Seq(D), NEW entry, entry.sampleOp = FALSE
    PROVE  Commit(h, entry).past # <<>> /\ Last(Commit(h, entry).past) = entry
<1>1. PICK all : all = Append(h.past, entry)
  OBVIOUS
<1>2. all \in Seq(D \cup {entry}) /\ Len(all) > 0 /\ all[Len(all)] = entry
  <2>1. h.past \in Seq(D \cup {entry})
    BY Wider
  <2> QED
    BY <1>1, <2>1
<1>3. PICK kept : kept = IF Len(all) > HistoryLimit THEN Tail(all) ELSE all
  OBVIOUS
<1>4. kept \in Seq(D \cup {entry}) /\ Len(kept) > 0 /\ kept[Len(kept)] = entry
  <2>1. CASE Len(all) > HistoryLimit
    <3>1. Len(all) > 1
      BY <1>2, <2>1, HistoryAssumption
    <3>2. /\ Tail(all) \in Seq(D \cup {entry}) /\ Len(Tail(all)) = Len(all) - 1
          /\ \A i \in 1..Len(Tail(all)) : Tail(all)[i] = all[i + 1]
      BY <1>2
    <3> QED
      BY <1>2, <1>3, <2>1, <3>1, <3>2
  <2>2. CASE ~(Len(all) > HistoryLimit)
    BY <1>2, <1>3, <2>2
  <2> QED
    BY <2>1, <2>2
<1>5. PICK n \in Nat : n = Len(kept)
  BY <1>4
<1>6. PICK I : I = {i \in 1..n : kept[i].sampleOp}
  OBVIOUS
<1>7. PICK first : first = IF I # {} THEN Min(I) ELSE 0
  OBVIOUS
<1>8. SelectInSeq(kept, LAMBDA e : e.sampleOp) = first
  BY <1>5, <1>6, <1>7, Zenon DEF SelectInSeq
<1>9. first \in 0..(n - 1)
  <2>1. CASE I = {}
    BY <1>4, <1>5, <1>7, <2>1
  <2>2. CASE I # {}
    <3>1. I \subseteq Nat /\ \A i \in I : i \in 1..n /\ i # n
      BY <1>4, <1>5, <1>6
    <3>2. PICK x \in I : \A y \in I : x <= y
      BY <2>2, <3>1, Undoing!LeastElement
    <3>3. Min(I) \in I
      BY <3>2, Zenon DEF Min
    <3>4. first \in 1..n /\ first # n
      BY <1>7, <2>2, <3>1, <3>3, Zenon
    <3> QED
      BY <3>4
  <2> QED
    BY <2>1, <2>2
<1>10. PICK left : left = IF SampleOps(kept) > SampleOpLimit THEN Truncate(kept) ELSE kept
  OBVIOUS
<1>11. left # <<>> /\ Last(left) = entry
  <2>1. CASE left = kept
    BY <1>4, <2>1 DEF Last
  <2>2. CASE left = Truncate(kept)
    <3>1. PICK cut : cut = SubSeq(kept, first + 1, n)
      OBVIOUS
    <3>2. left = cut
      BY <1>5, <1>8, <2>2, <3>1, Zenon DEF Truncate
    <3>3. cut \in Seq(D \cup {entry}) /\ Len(cut) = n - first /\ cut[n - first] = kept[n]
      BY <1>4, <1>5, <1>9, <3>1
    <3>4. Len(cut) > 0 /\ cut[Len(cut)] = entry
      BY <1>4, <1>5, <1>9, <3>3
    <3> QED
      BY <3>2, <3>3, <3>4 DEF Last
  <2> QED
    BY <1>10, <2>1, <2>2
<1>12. Commit(h, entry) = [h EXCEPT !.past = left, !.future = <<>>, !.wiped = FALSE]
  BY <1>1, <1>3, <1>10, Zenon DEF Commit
<1>13. PICK g : g = [h EXCEPT !.past = left, !.future = <<>>, !.wiped = FALSE]
  OBVIOUS
<1>14. g.past = left
  BY <1>13 DEF IsHistory
<1> QED
  BY <1>11, <1>12, <1>13, <1>14, Zenon

\* An entry that is committed leads on from where the past led, whatever the limits drop.
LEMMA CommitLeads ==
    ASSUME NEW h, IsHistory(h), NEW entry, NEW s, NEW t, Past(h.past, s), Path(entry.edits, s, t)
    PROVE  /\ IsHistory(Commit(h, entry)) /\ Past(Commit(h, entry).past, t) /\ Commit(h, entry).future = <<>>
           /\ Commit(h, entry).group = h.group /\ Commit(h, entry).depth = h.depth
<1>1. PICK all : all = Append(h.past, entry)
  OBVIOUS
<1>2. Past(all, t) /\ all # <<>>
  <2>1. PICK D : h.past \in Seq(D)
    BY Zenon DEF Past
  <2>2. h.past \in Seq(D \cup {entry})
    BY <2>1, Wider
  <2>3. all # <<>>
    BY <1>1, <2>2
  <2> QED
    BY <1>1, <2>3, PastGrows
<1>3. PICK kept : kept = IF Len(all) > HistoryLimit THEN Tail(all) ELSE all
  OBVIOUS
<1>4. Past(kept, t)
  BY <1>2, <1>3, Truncates
<1>5. PICK left : left = IF SampleOps(kept) > SampleOpLimit THEN Truncate(kept) ELSE kept
  OBVIOUS
<1>6. Past(left, t)
  BY <1>4, <1>5, Truncates
<1>7. Commit(h, entry) = [h EXCEPT !.past = left, !.future = <<>>, !.wiped = FALSE]
  BY <1>1, <1>3, <1>5, Zenon DEF Commit
<1>8. PICK g : g = [h EXCEPT !.past = left, !.future = <<>>, !.wiped = FALSE]
  OBVIOUS
<1>9. IsHistory(g) /\ g.past = left /\ g.future = <<>> /\ g.group = h.group /\ g.depth = h.depth
  BY <1>8 DEF IsHistory
<1> QED
  BY <1>6, <1>7, <1>8, <1>9, Zenon

\* An edit that is pushed, alone or into a group, makes the history of the scene it leads to.
LEMMA PushLeads ==
    ASSUME NEW h, NEW e, NEW s, NEW t, HistoryOf(h, s), Links(e, s, t)
    PROVE  /\ HistoryOf(Push(h, e), t) /\ HistoryOf(PushSampleOp(h, e), t)
           /\ Push(h, e).depth = h.depth /\ PushSampleOp(h, e).depth = h.depth
           /\ h.depth > 0 => Push(h, e).group = Append(h.group, e)
<1>1. IsHistory(h) /\ h.depth \in Nat
  BY DEF HistoryOf, IsHistory
<1>2. CASE h.depth > 0
  <2>1. PICK g : g = [h EXCEPT !.group = Append(h.group, e), !.future = <<>>, !.wiped = FALSE]
    OBVIOUS
  <2>2. Push(h, e) = g /\ PushSampleOp(h, e) = g
    BY <1>2, <2>1 DEF Push, PushSampleOp
  <2>3. IsHistory(g) /\ g.past = h.past /\ g.future = <<>> /\ g.group = Append(h.group, e) /\ g.depth = h.depth
    BY <1>1, <2>1 DEF IsHistory
  <2>4. PICK mid : Past(h.past, mid) /\ Path(h.group, mid, s)
    BY Zenon DEF HistoryOf
  <2>5. Path(Append(h.group, e), mid, t)
    BY <2>4, PathGoesOn
  <2>6. Future(<<>>, t)
    BY NoneBefore
  <2>7. g.depth # 0
    BY <1>2, <2>3
  <2>8. HistoryOf(g, t)
    BY <2>3, <2>4, <2>5, <2>6, <2>7, Zenon DEF HistoryOf
  <2> QED
    BY <2>2, <2>3, <2>8
<1>3. CASE h.depth = 0
  <2>1. h.group = <<>>
    BY <1>3 DEF HistoryOf
  <2>2. Past(h.past, s)
    BY <2>1, OutsideGroup
  <2>3. ASSUME NEW op PROVE HistoryOf(Commit(h, Entry(<<e>>, op)), t) /\ Commit(h, Entry(<<e>>, op)).depth = h.depth
    <3>1. PICK entry : entry = Entry(<<e>>, op)
      OBVIOUS
    <3>2. Path(entry.edits, s, t)
      BY <3>1, PathOfOne DEF Entry
    <3>3. PICK g : g = Commit(h, entry)
      OBVIOUS
    <3>4. IsHistory(g) /\ Past(g.past, t) /\ g.future = <<>> /\ g.group = <<>> /\ g.depth = h.depth
      BY <1>1, <2>1, <2>2, <3>2, <3>3, CommitLeads
    <3>5. Future(<<>>, t) /\ Path(<<>>, t, t)
      BY NoneBefore, PathNone
    <3>6. HistoryOf(g, t)
      BY <3>4, <3>5, Zenon DEF HistoryOf
    <3> QED
      BY <3>1, <3>3, <3>4, <3>6, Zenon
  <2>4. Push(h, e) = Commit(h, Entry(<<e>>, FALSE)) /\ PushSampleOp(h, e) = Commit(h, Entry(<<e>>, TRUE))
    BY <1>3 DEF Push, PushSampleOp
  <2>5. ~(h.depth > 0)
    BY <1>3
  <2> QED
    BY <2>3, <2>4, <2>5, Zenon
<1> QED
  BY <1>1, <1>2, <1>3

\* Opening and closing groups changes no scene.
LEMMA GroupsLead ==
    ASSUME NEW h, NEW s, HistoryOf(h, s)
    PROVE  /\ HistoryOf(BeginGroup(h), s) /\ BeginGroup(h).depth = h.depth + 1
           /\ BeginGroup(h).group = h.group
           /\ HistoryOf(EndGroup(h), s) /\ EndGroup(h).depth = IF h.depth = 0 THEN 0 ELSE h.depth - 1
           /\ h.depth = 1 /\ h.group # <<>> => EndGroup(h).past # <<>> /\ Last(EndGroup(h).past).edits = h.group
<1>1. IsHistory(h) /\ h.depth \in Nat
  BY DEF HistoryOf, IsHistory
<1>2. PICK mid : Past(h.past, mid) /\ Path(h.group, mid, s)
  BY Zenon DEF HistoryOf
<1>3. HistoryOf(BeginGroup(h), s) /\ BeginGroup(h).depth = h.depth + 1 /\ BeginGroup(h).group = h.group
  <2>1. PICK g : g = [h EXCEPT !.depth = h.depth + 1]
    OBVIOUS
  <2>2. IsHistory(g) /\ g.past = h.past /\ g.future = h.future /\ g.group = h.group /\ g.depth = h.depth + 1 /\ g.depth # 0
    BY <1>1, <2>1 DEF IsHistory
  <2>3. HistoryOf(g, s)
    BY <1>2, <2>2, Zenon DEF HistoryOf
  <2> QED
    BY <2>1, <2>2, <2>3 DEF BeginGroup
<1>4. CASE h.depth = 0
  BY <1>3, <1>4 DEF EndGroup
<1>5. CASE h.depth > 1
  <2>1. PICK g : g = [h EXCEPT !.depth = h.depth - 1]
    OBVIOUS
  <2>2. IsHistory(g) /\ g.past = h.past /\ g.future = h.future /\ g.group = h.group /\ g.depth = h.depth - 1 /\ g.depth # 0
    BY <1>1, <1>5, <2>1 DEF IsHistory
  <2>3. HistoryOf(g, s)
    BY <1>2, <2>2, Zenon DEF HistoryOf
  <2>4. EndGroup(h) = g
    <3>1. ~(h.depth = 0) /\ ~(h.depth = 1)
      BY <1>5
    <3> QED
      BY <3>1, <1>5, <2>1, Zenon DEF EndGroup
  <2> QED
    BY <1>3, <1>5, <2>2, <2>3, <2>4
<1>6. CASE h.depth = 1
  <2>1. PICK g : g = [h EXCEPT !.depth = 0, !.group = <<>>]
    OBVIOUS
  <2>2. IsHistory(g) /\ g.past = h.past /\ g.future = h.future /\ g.group = <<>> /\ g.depth = 0
    BY <1>1, <2>1 DEF IsHistory
  <2>3. CASE h.group = <<>>
    <3>1. Past(h.past, s) /\ Path(<<>>, s, s)
      BY <2>3, OutsideGroup, PathNone
    <3>2. HistoryOf(g, s)
      BY <2>2, <3>1, Zenon DEF HistoryOf
    <3>3. EndGroup(h) = g
      <4>1. ~(h.depth = 0) /\ ~(h.depth > 1)
        BY <1>6
      <4> QED
        BY <4>1, <1>6, <2>1, <2>3, Zenon DEF EndGroup
    <3> QED
      BY <1>3, <1>6, <2>2, <2>3, <3>2, <3>3
  <2>4. CASE h.group # <<>>
    <3>1. PICK entry : entry = Entry(h.group, FALSE)
      OBVIOUS
    <3>2. Path(entry.edits, mid, s)
      BY <1>2, <3>1 DEF Entry
    <3>3. PICK c : c = Commit(g, entry)
      OBVIOUS
    <3>4. IsHistory(c) /\ Past(c.past, s) /\ c.future = <<>> /\ c.group = <<>> /\ c.depth = 0
      BY <1>2, <2>2, <3>2, <3>3, CommitLeads
    <3>5. Future(<<>>, s) /\ Path(<<>>, s, s)
      BY NoneBefore, PathNone
    <3>6. HistoryOf(c, s)
      BY <3>4, <3>5, Zenon DEF HistoryOf
    <3>7. EndGroup(h) = c
      BY <1>6, <2>1, <2>4, <3>1, <3>3 DEF EndGroup
    <3>8. entry.sampleOp = FALSE /\ entry.edits = h.group
      BY <3>1 DEF Entry
    <3>9. PICK D : g.past \in Seq(D)
      BY <1>2, <2>2, Zenon DEF Past
    <3>10. c.past # <<>> /\ Last(c.past) = entry
      BY <2>2, <3>3, <3>8, <3>9, NewestStays
    <3> QED
      BY <1>3, <1>6, <3>4, <3>6, <3>7, <3>8, <3>10
  <2> QED
    BY <2>3, <2>4
<1> QED
  BY <1>1, <1>3, <1>4, <1>5, <1>6

\* Undoing takes the newest entry, whose edits lead here from the scene undoing goes back to.
LEMMA UndoLeads ==
    ASSUME NEW h, NEW s, HistoryOf(h, s), h.depth = 0, CanUndo(h)
    PROVE  \E t : Path(Last(h.past).edits, t, s) /\ HistoryOf(Undone(h), t) /\ Undone(h).depth = 0
<1>1. IsHistory(h) /\ h.group = <<>> /\ Future(h.future, s)
  BY DEF HistoryOf
<1>2. Past(h.past, s)
  BY <1>1, OutsideGroup
<1>3. PICK t : Past(Front(h.past), t) /\ Path(Last(h.past).edits, t, s)
  BY <1>2, PastLast, Zenon DEF CanUndo
<1>4. PICK g : g = [h EXCEPT !.past = Front(h.past), !.future = Append(h.future, Last(h.past))]
  OBVIOUS
<1>5. /\ IsHistory(g) /\ g.past = Front(h.past) /\ g.future = Append(h.future, Last(h.past))
      /\ g.group = <<>> /\ g.depth = 0
  BY <1>1, <1>4 DEF IsHistory
<1>6. Future(Append(h.future, Last(h.past)), t) /\ Path(<<>>, t, t)
  BY <1>1, <1>3, FutureGrows, PathNone
<1>7. HistoryOf(g, t)
  BY <1>3, <1>5, <1>6, Zenon DEF HistoryOf
<1>8. Undone(h) = g
  BY <1>4, Zenon DEF Undone
<1> QED
  BY <1>3, <1>5, <1>7, <1>8, Zenon

\* Redoing takes the last entry undone, whose edits lead on from here.
LEMMA RedoLeads ==
    ASSUME NEW h, NEW s, HistoryOf(h, s), h.depth = 0, CanRedo(h)
    PROVE  \E t : Path(Last(h.future).edits, s, t) /\ HistoryOf(Redone(h), t) /\ Redone(h).depth = 0
<1>1. IsHistory(h) /\ h.group = <<>> /\ Future(h.future, s)
  BY DEF HistoryOf
<1>2. Past(h.past, s)
  BY <1>1, OutsideGroup
<1>3. PICK t : Future(Front(h.future), t) /\ Path(Last(h.future).edits, s, t)
  BY <1>1, FutureLast, Zenon DEF CanRedo
<1>4. PICK g : g = [h EXCEPT !.future = Front(h.future), !.past = Append(h.past, Last(h.future))]
  OBVIOUS
<1>5. /\ IsHistory(g) /\ g.future = Front(h.future) /\ g.past = Append(h.past, Last(h.future))
      /\ g.group = <<>> /\ g.depth = 0
  BY <1>1, <1>4 DEF IsHistory
<1>6. Past(Append(h.past, Last(h.future)), t) /\ Path(<<>>, t, t)
  BY <1>2, <1>3, PastGrows, PathNone
<1>7. HistoryOf(g, t)
  BY <1>3, <1>5, <1>6, Zenon DEF HistoryOf
<1>8. Redone(h) = g
  BY <1>4, Zenon DEF Redone
<1> QED
  BY <1>3, <1>5, <1>7, <1>8, Zenon

\* Edits pushed one after another, into a group or not.
Pushed(h, list) == FoldLeft(LAMBDA g, e : Push(g, e), h, list)
PushStep(ctx, h, e) == Push(h, e)
PushedSoFar(ctx, done, h) ==
    Begins(done, ctx[1]) => /\ HistoryOf(h, ctx[2][Len(done)]) /\ h.depth = ctx[3]
                            /\ ctx[3] > 0 => h.group = ctx[4] \o done
Pushing == INSTANCE FoldLemmas WITH Step <- PushStep, Holds <- PushedSoFar

OneMoreJoins(a, b, x) == Append(a \o b, x) = a \o Append(b, x)

\* One more at the end of what is joined.
LEMMA JoinsOneMore ==
    ASSUME NEW F, NEW a \in Seq(F), NEW b \in Seq(F), NEW x \in F
    PROVE  OneMoreJoins(a, b, x)
<1>1. a \o b \in Seq(F)
  BY ConcatProperties
<1>2. Append(a \o b, x) = (a \o b) \o <<x>> /\ Append(b, x) = b \o <<x>>
  BY <1>1, AppendIsConcat
<1>3. ASSUME NEW y \in Seq(F) PROVE (a \o b) \o y = a \o (b \o y)
  BY ConcatAssociative, SMT
<1>4. <<x>> \in Seq(F)
  OBVIOUS
<1> QED
  BY <1>2, <1>3, <1>4, Zenon DEF OneMoreJoins

\* The edits of a path pushed make the history of the scene it leads to.
LEMMA PushesLead ==
    ASSUME NEW h, NEW list, NEW s, NEW t, HistoryOf(h, s), Path(list, s, t)
    PROVE  /\ HistoryOf(Pushed(h, list), t) /\ Pushed(h, list).depth = h.depth
           /\ h.depth > 0 => Pushed(h, list).group = h.group \o list
<1>1. PICK D, S : list \in Seq(D) /\ S[0] = s /\ S[Len(list)] = t /\ Trail(list, S)
  BY Zenon DEF Path
<1>2. PICK ctx : ctx = <<list, S, h.depth, h.group>>
  OBVIOUS
<1>3. ctx[1] = list /\ ctx[2] = S /\ ctx[3] = h.depth /\ ctx[4] = h.group
  BY <1>2
<1>0. PICK E : h.group \in Seq(E)
  BY Zenon DEF HistoryOf, Path
<1>4. PushedSoFar(ctx, <<>>, h)
  BY <1>0, <1>1, <1>3 DEF PushedSoFar
<1>5. ASSUME NEW done \in Seq(D), NEW x \in D, NEW g, PushedSoFar(ctx, done, g)
      PROVE  PushedSoFar(ctx, Append(done, x), PushStep(ctx, g, x))
  <2> SUFFICES ASSUME Begins(Append(done, x), list)
               PROVE  /\ HistoryOf(Push(g, x), S[Len(Append(done, x))]) /\ Push(g, x).depth = h.depth
                      /\ h.depth > 0 => Push(g, x).group = h.group \o Append(done, x)
    BY <1>3, Zenon DEF PushedSoFar, PushStep
  <2>1. Begins(done, list) /\ Len(done) + 1 \in 1..Len(list) /\ x = list[Len(done) + 1]
    BY <1>1, BeginsOneMore
  <2>2. HistoryOf(g, S[Len(done)]) /\ g.depth = h.depth /\ (h.depth > 0 => g.group = h.group \o done)
    BY <1>3, <1>5, <2>1, Zenon DEF PushedSoFar
  <2>3. PICK n \in Nat : n = Len(done)
    OBVIOUS
  <2>4. Links(x, S[n], S[n + 1])
    <3>1. Links(list[n + 1], S[(n + 1) - 1], S[n + 1])
      BY <1>1, <2>1, <2>3 DEF Trail
    <3>2. (n + 1) - 1 = n
      OBVIOUS
    <3> QED
      BY <3>1, <3>2, <2>1, <2>3, Zenon
  <2>5. Len(Append(done, x)) = n + 1
    BY <2>3
  <2>6. /\ HistoryOf(Push(g, x), S[n + 1]) /\ Push(g, x).depth = g.depth
        /\ g.depth > 0 => Push(g, x).group = Append(g.group, x)
    BY <2>2, <2>3, <2>4, PushLeads
  <2>7. Append(h.group \o done, x) = h.group \o Append(done, x)
    <3>1. PICK F, a : a = h.group /\ a \in Seq(F) /\ done \in Seq(F) /\ x \in F
      <4>1. h.group \in Seq(D \cup E) /\ done \in Seq(D \cup E) /\ x \in D \cup E
        BY <1>0, Wider
      <4> QED
        BY <4>1
    <3>2. OneMoreJoins(a, done, x)
      BY <3>1, JoinsOneMore
    <3> QED
      BY <3>1, <3>2, Zenon DEF OneMoreJoins
  <2> QED
    BY <2>2, <2>5, <2>6, <2>7, Zenon
<1>6. PushedSoFar(ctx, list, Pushing!Fold(ctx, h, list))
  BY <1>1, <1>4, <1>5, Pushing!FoldHolds
<1>7. Pushed(h, list) = Pushing!Fold(ctx, h, list)
  BY ZenonT(60) DEF Pushed, Pushing!Fold, PushStep, FoldLeft, MapThenFoldSet, Pushing!FoldLeft, Pushing!MapThenFoldSet,
                    Max, Pushing!Max
<1>8. Begins(list, list)
  BY <1>1 DEF Begins
<1> QED
  BY <1>1, <1>3, <1>6, <1>7, <1>8, Zenon DEF PushedSoFar

\* A block of edits made as one group.
LEMMA GroupLeads ==
    ASSUME NEW h, NEW list, NEW s, NEW t, HistoryOf(h, s), Path(list, s, t)
    PROVE  /\ HistoryOf(EndGroup(Pushed(BeginGroup(h), list)), t)
           /\ EndGroup(Pushed(BeginGroup(h), list)).depth = h.depth
<1>1. PICK open : open = BeginGroup(h)
  OBVIOUS
<1>2. HistoryOf(open, s) /\ open.depth = h.depth + 1
  BY <1>1, GroupsLead
<1>3. PICK full : full = Pushed(open, list)
  OBVIOUS
<1>4. HistoryOf(full, t) /\ full.depth = h.depth + 1
  BY <1>2, <1>3, PushesLead
<1>5. h.depth \in Nat
  BY DEF HistoryOf, IsHistory
<1>6. HistoryOf(EndGroup(full), t) /\ EndGroup(full).depth = h.depth
  BY <1>4, <1>5, GroupsLead
<1> QED
  BY <1>1, <1>3, <1>6, Zenon
=============================================================================
