------------------------------ MODULE SongProofs ------------------------------
(***************************************************************************)
(* The song's history is true to the song (SongEdits): each of its entries *)
(* leads from what was there before the edit to what the edit left, and    *)
(* the last of them to the song as it is.  First what one edit leads from  *)
(* and to, and how undoing and redoing it take it back and forth; then the *)
(* edits of a block as a path of such; then each operation.  And it stays  *)
(* one the engine can play: that every list goes with the patterns.        *)
(***************************************************************************)
EXTENDS SongEdits, SequenceProofs

-----------------------------------------------------------------------------
(***************************************************************************)
(* The song and its history. A scene is what undoing changes: the patterns *)
(* and the sample, and the speed the local API tells the history of. The   *)
(* invariant: the history leads from scene to scene up to the present one. *)
(***************************************************************************)

IsRow(row) == row = [c \in 1..SongChannels |-> row[c]]
IsPattern(p) ==
    /\ p = [id |-> p.id, born |-> p.born, rows |-> p.rows]
    /\ (\E D : p.rows \in Seq(D)) /\ p.rows # <<>> /\ \A r \in DOMAIN p.rows : IsRow(p.rows[r])
ArePatterns(ps) == (\E D : ps \in Seq(D)) /\ \A k \in DOMAIN ps : IsPattern(ps[k])
IsSample(x) == x = [props |-> x.props, data |-> x.data, buffer |-> x.buffer] /\ x.data = x.buffer
IsScene(s) ==
    /\ s = [patterns |-> s.patterns, sample |-> s.sample, speed |-> s.speed]
    /\ ArePatterns(s.patterns) /\ IsSample(s.sample)

\* A place in the patterns, and the cell there.
Inside(ps, at) == at[1] \in DOMAIN ps /\ at[2] \in DOMAIN ps[at[1]].rows /\ at[3] \in 1..SongChannels
CellOf(ps, at) == ps[at[1]].rows[at[2]][at[3]]
SamePlace(a, b) == a[1] = b[1] /\ a[2] = b[2] /\ a[3] = b[3]

\* The same patterns, whatever their cells.
Alike(ps, qs) ==
    /\ Len(ps) = Len(qs) /\ DOMAIN ps = DOMAIN qs
    /\ \A k \in DOMAIN ps : ps[k].id = qs[k].id /\ ps[k].born = qs[k].born /\ Len(ps[k].rows) = Len(qs[k].rows)

\* What an edit leads from and to.
CellLinks(e, s, t) ==
    /\ e.what = "cell" /\ Inside(s.patterns, e.at) /\ e.before = CellOf(s.patterns, e.at)
    /\ t.patterns = Put(s.patterns, e.at, e.after) /\ t.sample = s.sample /\ t.speed = s.speed
SoundLinks(e, s, t) ==
    /\ e.what \in {"props", "audio"} /\ e.before = s.sample /\ e.after = t.sample
    /\ e.what = "props" => t.sample.buffer = s.sample.buffer
    /\ t.patterns = s.patterns /\ t.speed = s.speed
SpeedLinks(e, s, t) ==
    /\ e.what = "speed" /\ e.before \in Int /\ e.after \in Int
    /\ t.patterns = s.patterns /\ t.sample = s.sample
EditLinks(e, s, t) ==
    IsScene(s) /\ IsScene(t) /\ (CellLinks(e, s, t) \/ SoundLinks(e, s, t) \/ SpeedLinks(e, s, t))

\* Putting a cell changes that one, and putting back what was there gives the patterns back.
LEMMA PutFacts ==
    ASSUME NEW ps, ArePatterns(ps), NEW at, Inside(ps, at), NEW x
    PROVE  /\ ArePatterns(Put(ps, at, x)) /\ Put(Put(ps, at, x), at, CellOf(ps, at)) = ps
           /\ Alike(ps, Put(ps, at, x))
           /\ \A b : Inside(Put(ps, at, x), b) <=> Inside(ps, b)
           /\ CellOf(Put(ps, at, x), at) = x
           /\ \A b : Inside(ps, b) /\ ~SamePlace(b, at) => CellOf(Put(ps, at, x), b) = CellOf(ps, b)
<1>1. PICK k, r, c : k = at[1] /\ r = at[2] /\ c = at[3]
  OBVIOUS
<1>2. PICK p : p = ps[k]
  OBVIOUS
<1>3. PICK row : row = p.rows[r]
  OBVIOUS
<1>4. k \in DOMAIN ps /\ r \in DOMAIN p.rows /\ c \in 1..SongChannels
  BY <1>1, <1>2, Zenon DEF Inside
<1>5. IsPattern(p) /\ IsRow(row)
  BY <1>2, <1>3, <1>4, Zenon DEF ArePatterns, IsPattern
<1>6. PICK D : ps \in Seq(D)
  BY Zenon DEF ArePatterns
<1>7. PICK row2 : row2 = [row EXCEPT ![c] = x]
  OBVIOUS
<1>8. PICK rows2 : rows2 = [p.rows EXCEPT ![r] = row2]
  OBVIOUS
<1>9. PICK p2 : p2 = [p EXCEPT !.rows = rows2]
  OBVIOUS
<1>10. PICK ps2 : ps2 = [ps EXCEPT ![k] = p2]
  OBVIOUS
<1>11. Put(ps, at, x) = ps2
  BY <1>1, <1>2, <1>3, <1>7, <1>8, <1>9, <1>10, Zenon DEF Put
<1>12. IsRow(row2) /\ row2[c] = x /\ \A d \in 1..SongChannels : d # c => row2[d] = row[d]
  BY <1>4, <1>5, <1>7 DEF IsRow
<1>13. /\ (\E E : rows2 \in Seq(E)) /\ rows2 # <<>> /\ DOMAIN rows2 = DOMAIN p.rows
       /\ rows2[r] = row2 /\ \A q \in DOMAIN p.rows : q # r => rows2[q] = p.rows[q]
  <2>1. PICK E : p.rows \in Seq(E)
    BY <1>5, Zenon DEF IsPattern
  <2>2. rows2 \in Seq(E \cup {row2})
    BY <1>4, <1>8, <2>1
  <2>3. DOMAIN rows2 = DOMAIN p.rows /\ rows2[r] = row2 /\ \A q \in DOMAIN p.rows : q # r => rows2[q] = p.rows[q]
    BY <1>4, <1>8, <2>1
  <2>4. rows2 # <<>>
    BY <1>4, <2>3
  <2> QED
    BY <2>2, <2>3, <2>4, Zenon
<1>14. \A q \in DOMAIN rows2 : IsRow(rows2[q])
  BY <1>5, <1>12, <1>13, Zenon DEF IsPattern
<1>15. p2 = [id |-> p.id, born |-> p.born, rows |-> rows2]
  BY <1>5, <1>9 DEF IsPattern
<1>16. IsPattern(p2)
  BY <1>13, <1>14, <1>15 DEF IsPattern
<1>17. /\ ps2 \in Seq(D \cup {p2}) /\ DOMAIN ps2 = DOMAIN ps /\ ps2[k] = p2
       /\ \A j \in DOMAIN ps : j # k => ps2[j] = ps[j]
  BY <1>4, <1>6, <1>10
<1>18. ArePatterns(ps2)
  BY <1>16, <1>17, Zenon DEF ArePatterns
<1>19. \A b : Inside(ps2, b) <=> Inside(ps, b)
  <2>1. \A j \in DOMAIN ps : DOMAIN ps2[j].rows = DOMAIN ps[j].rows
    BY <1>2, <1>13, <1>15, <1>17
  <2> QED
    BY <1>17, <2>1, Zenon DEF Inside
<1>20. CellOf(ps2, at) = x
  BY <1>1, <1>12, <1>13, <1>15, <1>17 DEF CellOf
<1>21. ASSUME NEW b, Inside(ps, b), ~SamePlace(b, at) PROVE CellOf(ps2, b) = CellOf(ps, b)
  <2>1. CASE b[1] # k
    BY <1>17, <1>21, <2>1, Zenon DEF CellOf, Inside
  <2>2. CASE b[1] = k
    <3>1. p2.rows = rows2
      BY <1>15
    <3>2. CASE b[2] # r
      BY <1>2, <1>13, <1>17, <1>21, <2>2, <3>1, <3>2, Zenon DEF CellOf, Inside
    <3>3. CASE b[2] = r
      <4>1. b[3] # c /\ b[3] \in 1..SongChannels
        BY <1>1, <1>21, <2>2, <3>3, Zenon DEF SamePlace, Inside
      <4> QED
        BY <1>2, <1>3, <1>12, <1>13, <1>17, <2>2, <3>1, <3>3, <4>1, Zenon DEF CellOf
    <3> QED
      BY <3>2, <3>3
  <2> QED
    BY <2>1, <2>2
<1>22. Put(ps2, at, CellOf(ps, at)) = ps
  <2>1. PICK row3 : row3 = [row2 EXCEPT ![c] = row[c]]
    OBVIOUS
  <2>2. row3 = row
    BY <1>4, <1>5, <1>12, <2>1 DEF IsRow
  <2>3. PICK rows3 : rows3 = [rows2 EXCEPT ![r] = row]
    OBVIOUS
  <2>4. rows3 = p.rows
    <3>1. p.rows = [q \in DOMAIN p.rows |-> p.rows[q]]
      <4>1. PICK E : p.rows \in Seq(E)
        BY <1>5, Zenon DEF IsPattern
      <4> QED
        BY <4>1
    <3>2. rows3 = [q \in DOMAIN p.rows |-> rows3[q]]
      BY <1>13, <2>3
    <3>3. \A q \in DOMAIN p.rows : rows3[q] = p.rows[q]
      BY <1>3, <1>13, <2>3
    <3> QED
      BY <3>1, <3>2, <3>3
  <2>5. PICK p3 : p3 = [p2 EXCEPT !.rows = p.rows]
    OBVIOUS
  <2>6. p3 = p
    BY <1>5, <1>15, <2>5 DEF IsPattern
  <2>7. [ps2 EXCEPT ![k] = p] = ps
    BY <1>2, <1>4, <1>6, <1>17
  <2>8. CellOf(ps, at) = row[c]
    BY <1>1, <1>2, <1>3, Zenon DEF CellOf
  <2>9. p2.rows = rows2
    BY <1>15
  <2>10. [p2 EXCEPT !.rows = [p2.rows EXCEPT ![r] = [p2.rows[r] EXCEPT ![c] = row[c]]]] = p
    BY <1>13, <2>1, <2>2, <2>3, <2>4, <2>5, <2>6, <2>9, Zenon
  <2>11. Put(ps2, at, row[c]) = [ps2 EXCEPT ![k] = [ps2[k] EXCEPT !.rows = [ps2[k].rows EXCEPT ![r] = [ps2[k].rows[r] EXCEPT ![c] = row[c]]]]]
    BY <1>1, Zenon DEF Put
  <2> QED
    BY <1>17, <2>7, <2>8, <2>10, <2>11, Zenon
<1>23. Alike(ps, ps2)
  <2>1. Len(rows2) = Len(p.rows) /\ Len(ps2) = Len(ps)
    <3>1. PICK E, F : p.rows \in Seq(E) /\ rows2 \in Seq(F)
      BY <1>5, <1>13, Zenon DEF IsPattern
    <3> QED
      BY <1>6, <1>13, <1>17, <3>1
  <2>2. p2.id = p.id /\ p2.born = p.born /\ p2.rows = rows2
    BY <1>15
  <2> QED
    BY <1>2, <1>17, <2>1, <2>2, Zenon DEF Alike
<1> QED
  BY <1>11, <1>18, <1>19, <1>20, <1>21, <1>22, <1>23, Zenon

\* A song that shows a scene, whatever its speed.
SongLooks(a, s) == IsScene(s) /\ a = [patterns |-> s.patterns, sample |-> s.sample, speed |-> a.speed]
SongShows(a, s) == SongLooks(a, s) /\ a.speed \in Int
Unwrite(a, e) == Write(a, e, e.before)
Rewrite(a, e) == Write(a, e, e.after)

\* Undoing an edit shows the scene before it.
LEMMA LooksUnwritten ==
    ASSUME NEW e, NEW s, NEW t, NEW a, EditLinks(e, s, t), SongLooks(a, t)
    PROVE  SongLooks(Unwrite(a, e), s) /\ (a.speed \in Int => Unwrite(a, e).speed \in Int)
<1>1. PICK v : IsScene(s) /\ IsScene(t) /\ a = [patterns |-> t.patterns, sample |-> t.sample, speed |-> v]
  BY Zenon DEF EditLinks, SongLooks
<1>2. PICK b : b = Unwrite(a, e)
  OBVIOUS
<1>6. a.speed = v
  BY <1>1
<1>3. CASE CellLinks(e, s, t)
  <2>1. Put(t.patterns, e.at, e.before) = s.patterns /\ t.sample = s.sample
    <3>1. ArePatterns(s.patterns) /\ Inside(s.patterns, e.at)
      BY <1>1, <1>3, Zenon DEF CellLinks, IsScene
    <3> QED
      BY <1>3, <3>1, PutFacts DEF CellLinks
  <2>2. b = [a EXCEPT !.patterns = Put(@, e.at, e.before)]
    BY <1>2, <1>3, Zenon DEF Unwrite, Write, CellLinks
  <2>3. (v \in Int => b.speed \in Int) /\ b = [patterns |-> s.patterns, sample |-> s.sample, speed |-> b.speed]
    BY <1>1, <2>1, <2>2
  <2> QED
    BY <1>1, <1>2, <1>6, <2>3, Zenon DEF SongLooks
<1>4. CASE SoundLinks(e, s, t)
  <2>1. e.before = s.sample /\ IsSample(s.sample) /\ IsSample(t.sample) /\ t.patterns = s.patterns
    BY <1>1, <1>4, Zenon DEF SoundLinks, IsScene
  <2>2. CASE e.what = "props"
    <3>1. b = [a EXCEPT !.sample.props = s.sample.props, !.sample.data = s.sample.data]
      BY <1>2, <2>1, <2>2, Zenon DEF Unwrite, Write
    <3>2. t.sample.buffer = s.sample.buffer
      BY <1>4, <2>2, Zenon DEF SoundLinks
    <3>3. b.sample = s.sample
      BY <1>1, <2>1, <3>1, <3>2 DEF IsSample
    <3>4. (v \in Int => b.speed \in Int) /\ b = [patterns |-> s.patterns, sample |-> s.sample, speed |-> b.speed]
      BY <1>1, <2>1, <3>1, <3>3
    <3> QED
      BY <1>1, <1>2, <1>6, <3>4, Zenon DEF SongLooks
  <2>3. CASE e.what = "audio"
    <3>1. b = [a EXCEPT !.sample = s.sample]
      BY <1>2, <2>1, <2>3, Zenon DEF Unwrite, Write
    <3>2. (v \in Int => b.speed \in Int) /\ b = [patterns |-> s.patterns, sample |-> s.sample, speed |-> b.speed]
      BY <1>1, <2>1, <3>1
    <3> QED
      BY <1>1, <1>2, <1>6, <3>2, Zenon DEF SongLooks
  <2> QED
    BY <1>4, <2>2, <2>3, Zenon DEF SoundLinks
<1>5. CASE SpeedLinks(e, s, t)
  <2>1. b = [a EXCEPT !.speed = e.before] /\ e.before \in Int
    BY <1>2, <1>5, Zenon DEF Unwrite, Write, SpeedLinks
  <2>2. (v \in Int => b.speed \in Int) /\ b = [patterns |-> s.patterns, sample |-> s.sample, speed |-> b.speed]
    BY <1>1, <1>5, <2>1 DEF SpeedLinks
  <2> QED
    BY <1>1, <1>2, <1>6, <2>2, Zenon DEF SongLooks
<1> QED
  BY <1>3, <1>4, <1>5, Zenon DEF EditLinks

LEMMA Unwrites ==
    ASSUME NEW e, NEW s, NEW t, NEW a, EditLinks(e, s, t), SongShows(a, t)
    PROVE  SongShows(Unwrite(a, e), s)
BY LooksUnwritten DEF SongShows

\* Making it again shows the scene after.
LEMMA Rewrites ==
    ASSUME NEW e, NEW s, NEW t, NEW a, EditLinks(e, s, t), SongShows(a, s)
    PROVE  SongShows(Rewrite(a, e), t)
<1>1. PICK v \in Int : IsScene(s) /\ IsScene(t) /\ a = [patterns |-> s.patterns, sample |-> s.sample, speed |-> v]
  BY Zenon DEF EditLinks, SongShows, SongLooks
<1>2. PICK b : b = Rewrite(a, e)
  OBVIOUS
<1>3. CASE CellLinks(e, s, t)
  <2>1. t.patterns = Put(s.patterns, e.at, e.after) /\ t.sample = s.sample
    BY <1>3, Zenon DEF CellLinks
  <2>2. b = [a EXCEPT !.patterns = Put(@, e.at, e.after)]
    BY <1>2, <1>3, Zenon DEF Rewrite, Write, CellLinks
  <2>3. b.speed \in Int /\ b = [patterns |-> t.patterns, sample |-> t.sample, speed |-> b.speed]
    BY <1>1, <2>1, <2>2
  <2> QED
    BY <1>1, <1>2, <2>3, Zenon DEF SongShows, SongLooks
<1>4. CASE SoundLinks(e, s, t)
  <2>1. e.after = t.sample /\ IsSample(s.sample) /\ IsSample(t.sample) /\ t.patterns = s.patterns
    BY <1>1, <1>4, Zenon DEF SoundLinks, IsScene
  <2>2. CASE e.what = "props"
    <3>1. b = [a EXCEPT !.sample.props = t.sample.props, !.sample.data = t.sample.data]
      BY <1>2, <2>1, <2>2, Zenon DEF Rewrite, Write
    <3>2. t.sample.buffer = s.sample.buffer
      BY <1>4, <2>2, Zenon DEF SoundLinks
    <3>3. b.sample = t.sample
      BY <1>1, <2>1, <3>1, <3>2 DEF IsSample
    <3>4. b.speed \in Int /\ b = [patterns |-> t.patterns, sample |-> t.sample, speed |-> b.speed]
      BY <1>1, <2>1, <3>1, <3>3
    <3> QED
      BY <1>1, <1>2, <3>4, Zenon DEF SongShows, SongLooks
  <2>3. CASE e.what = "audio"
    <3>1. b = [a EXCEPT !.sample = t.sample]
      BY <1>2, <2>1, <2>3, Zenon DEF Rewrite, Write
    <3>2. b.speed \in Int /\ b = [patterns |-> t.patterns, sample |-> t.sample, speed |-> b.speed]
      BY <1>1, <2>1, <3>1
    <3> QED
      BY <1>1, <1>2, <3>2, Zenon DEF SongShows, SongLooks
  <2> QED
    BY <1>4, <2>2, <2>3, Zenon DEF SoundLinks
<1>5. CASE SpeedLinks(e, s, t)
  <2>1. b = [a EXCEPT !.speed = e.after] /\ e.after \in Int
    BY <1>2, <1>5, Zenon DEF Rewrite, Write, SpeedLinks
  <2>2. b.speed \in Int /\ b = [patterns |-> t.patterns, sample |-> t.sample, speed |-> b.speed]
    BY <1>1, <1>5, <2>1 DEF SpeedLinks
  <2> QED
    BY <1>1, <1>2, <2>2, Zenon DEF SongShows, SongLooks
<1> QED
  BY <1>3, <1>4, <1>5, Zenon DEF EditLinks

\* What UndoFindsItsEdit folds, as long as everything was found.
FoundShows(a, s) == a = [song |-> a.song, ok |-> TRUE] /\ SongShows(a.song, s)

\* Undoing an edit finds in the scene after it what it left there.
LEMMA Unwinds ==
    ASSUME NEW e, NEW s, NEW t, NEW a, EditLinks(e, s, t), FoundShows(a, t)
    PROVE  FoundShows(Unwind(a, e), s)
<1>1. PICK song : a = [song |-> song, ok |-> TRUE] /\ SongShows(song, t)
  BY Zenon DEF FoundShows
<1>2. SongShows(Unwrite(song, e), s)
  BY <1>1, Unwrites, Zenon
<1>3. a.ok /\ a.song = song /\ song.patterns = t.patterns /\ song.sample = t.sample
  BY <1>1 DEF SongShows, SongLooks
<1>4. Found(song, e)
  <2>1. CASE CellLinks(e, s, t)
    <3>1. ArePatterns(s.patterns) /\ Inside(s.patterns, e.at) /\ t.patterns = Put(s.patterns, e.at, e.after)
      BY <2>1, Zenon DEF EditLinks, CellLinks, IsScene
    <3>2. Inside(t.patterns, e.at) /\ CellOf(t.patterns, e.at) = e.after
      BY <3>1, PutFacts
    <3>3. e.what = "cell"
      BY <2>1, Zenon DEF CellLinks
    <3> QED
      BY <1>3, <3>2, <3>3, Zenon DEF Found, Inside, CellOf
  <2>2. CASE SoundLinks(e, s, t)
    <3>1. e.what \in {"props", "audio"} /\ e.what # "cell" /\ e.what # "speed" /\ e.after = t.sample
      BY <2>2 DEF SoundLinks
    <3> QED
      BY <1>3, <3>1, Zenon DEF Found
  <2>3. CASE SpeedLinks(e, s, t)
    <3>1. e.what = "speed" /\ e.what # "cell" /\ e.what \notin {"props", "audio"}
      BY <2>3 DEF SpeedLinks
    <3> QED
      BY <3>1, Zenon DEF Found
  <2> QED
    BY <2>1, <2>2, <2>3, Zenon DEF EditLinks
<1>5. PICK c : c = Unwrite(song, e)
  OBVIOUS
<1>6. Unwind(a, e) = [a EXCEPT !.song = c]
  BY <1>3, <1>4, <1>5, Zenon DEF Unwind, Unwrite
<1>7. Unwind(a, e).song = c /\ Unwind(a, e) = [song |-> c, ok |-> TRUE]
  BY <1>1, <1>6
<1> QED
  BY <1>2, <1>5, <1>7, Zenon DEF FoundShows

-----------------------------------------------------------------------------
(* The cells of a block.                                                   *)

\* No place twice.
Distinct(places) == \A i, j \in 1..Len(places) : i # j => ~SamePlace(places[i], places[j])

\* A number is told by its quotient and its remainder.
LEMMA QuotientAndRemainder ==
    ASSUME NEW a \in Nat, NEW b \in Nat, NEW w \in Nat, w > 0, a \div w = b \div w, a % w = b % w
    PROVE  a = b
<1>1. a = (w * (a \div w)) + (a % w) /\ b = (w * (b \div w)) + (b % w)
  OBVIOUS
<1> QED
  BY <1>1

\* The places of a block of n cells, row by row from its first.
PlaceFrom(p, row, channel, width, i) == <<p, row + ((i - 1) \div width), channel + ((i - 1) % width)>>
PlacesFrom(p, row, channel, width, n) == [i \in 1..n |-> PlaceFrom(p, row, channel, width, i)]

\* They are different places.
LEMMA RowByRow ==
    ASSUME NEW p, NEW row \in Int, NEW channel \in Int, NEW width \in Nat, NEW n \in Nat, n > 0 => width > 0
    PROVE  /\ \E D : PlacesFrom(p, row, channel, width, n) \in Seq(D)
           /\ Distinct(PlacesFrom(p, row, channel, width, n))
<1>0. PICK places : places = [i \in 1..n |-> PlaceFrom(p, row, channel, width, i)]
  OBVIOUS
<1>1. PICK D : D = {places[i] : i \in 1..n}
  OBVIOUS
<1>2. places \in Seq(D)
  <2>1. places \in [1..n -> D]
    BY <1>0, <1>1
  <2> QED
    BY <2>1, SeqDef, Zenon
<1>3. Len(places) = n /\ \A i \in 1..n : places[i] = PlaceFrom(p, row, channel, width, i)
  BY <1>0
<1>4. ASSUME NEW i \in 1..n, NEW j \in 1..n, SamePlace(PlaceFrom(p, row, channel, width, i), PlaceFrom(p, row, channel, width, j))
      PROVE  i = j
  <2>1. i - 1 \in Nat /\ j - 1 \in Nat /\ width > 0
    OBVIOUS
  <2>2. /\ (i - 1) \div width \in Int /\ (j - 1) \div width \in Int
        /\ (i - 1) % width \in Int /\ (j - 1) % width \in Int
    BY <2>1
  <2>3. /\ row + ((i - 1) \div width) = row + ((j - 1) \div width)
        /\ channel + ((i - 1) % width) = channel + ((j - 1) % width)
    BY <1>4 DEF SamePlace, PlaceFrom
  <2>4. (i - 1) \div width = (j - 1) \div width /\ (i - 1) % width = (j - 1) % width
    BY <2>2, <2>3
  <2>5. i - 1 = j - 1
    BY <2>1, <2>4, QuotientAndRemainder
  <2> QED
    BY <2>5
<1>5. Distinct(places)
  BY <1>3, <1>4, Zenon DEF Distinct
<1> QED
  BY <1>0, <1>2, <1>5, Zenon DEF PlacesFrom

\* A selection that lies in its pattern.
Selected(s) ==
    /\ s.p \in DOMAIN patterns /\ s.r0 \in Int /\ s.r1 \in Int /\ s.c0 \in Int /\ s.c1 \in Int
    /\ 1 <= s.r0 /\ s.r0 <= s.r1 /\ s.r1 <= Len(patterns[s.p].rows)
    /\ 1 <= s.c0 /\ s.c0 <= s.c1 /\ s.c1 <= SongChannels
Edges == {"p", "r0", "r1", "c0", "c1", "f0", "f1"}
Corners(s, p, r0, r1, c0, c1) ==
    s = [e \in Edges |-> s[e]] /\ s.p = p /\ s.r0 = r0 /\ s.r1 = r1 /\ s.c0 = c0 /\ s.c1 = c1

\* A normalized selection lies in its pattern, unless it misses it.
LEMMA NormalFacts ==
    ASSUME ArePatterns(patterns), NEW p \in DOMAIN patterns, NEW r0 \in Int, NEW r1 \in Int, NEW c0 \in Int, NEW c1 \in Int,
           NEW f0, NEW f1, NEW s, s = Normal(Selection(p, r0, r1, c0, c1, f0, f1)), s # NoSelection
    PROVE  Selected(s)
<1>1. PICK len \in Nat \ {0} : len = Len(patterns[p].rows)
  <2>1. IsPattern(patterns[p])
    BY Zenon DEF ArePatterns
  <2>2. PICK D : patterns[p].rows \in Seq(D)
    BY <2>1, Zenon DEF IsPattern
  <2>3. patterns[p].rows # <<>>
    BY <2>1, Zenon DEF IsPattern
  <2> QED
    BY <2>2, <2>3
<1>2. PICK o, a, b, c, d : /\ o = Ordered(Selection(p, r0, r1, c0, c1, f0, f1)) /\ Corners(o, p, a, b, c, d)
                            /\ a \in Int /\ b \in Int /\ c \in Int /\ d \in Int /\ a <= b /\ c <= d
  <2>1. PICK z : z = Selection(p, r0, r1, c0, c1, f0, f1)
    OBVIOUS
  <2>2. Corners(z, p, r0, r1, c0, c1)
    BY <2>1 DEF Selection, Corners, Edges
  <2>3. PICK rows, a, b : rows = (IF z.r0 > z.r1 THEN [z EXCEPT !.r0 = z.r1, !.r1 = z.r0] ELSE z)
                          /\ a \in Int /\ b \in Int /\ a <= b /\ Corners(rows, p, a, b, c0, c1)
    <3>1. CASE r0 > r1
      <4>1. Corners([z EXCEPT !.r0 = z.r1, !.r1 = z.r0], p, r1, r0, c0, c1)
        BY <2>2 DEF Corners, Edges
      <4>2. z.r0 > z.r1 /\ r1 <= r0
        BY <2>2, <3>1 DEF Corners
      <4> QED
        BY <4>1, <4>2, Zenon
    <3>2. CASE ~(r0 > r1)
      <4>1. ~(z.r0 > z.r1) /\ r0 <= r1
        BY <2>2, <3>2 DEF Corners
      <4> QED
        BY <2>2, <4>1, Zenon
    <3> QED
      BY <3>1, <3>2
  <2>4. CASE z.c0 > z.c1 \/ (z.c0 = z.c1 /\ z.f0 > z.f1)
    <3>1. Ordered(z) = [rows EXCEPT !.c0 = z.c1, !.c1 = z.c0, !.f0 = z.f1, !.f1 = z.f0]
      BY <2>3, <2>4, Zenon DEF Ordered
    <3>2. Corners(Ordered(z), p, a, b, c1, c0)
      BY <2>2, <2>3, <3>1 DEF Corners, Edges
    <3>3. c1 <= c0
      BY <2>2, <2>4 DEF Corners
    <3> QED
      BY <2>1, <2>3, <3>2, <3>3, Zenon
  <2>5. CASE ~(z.c0 > z.c1 \/ (z.c0 = z.c1 /\ z.f0 > z.f1))
    <3>1. Ordered(z) = rows
      BY <2>3, <2>5, Zenon DEF Ordered
    <3>2. c0 <= c1
      BY <2>2, <2>5 DEF Corners
    <3> QED
      BY <2>1, <2>3, <3>1, <3>2, Zenon
  <2> QED
    BY <2>4, <2>5
<1>3. s = Clamped(o, len)
  <2>1. PICK z : z = Selection(p, r0, r1, c0, c1, f0, f1)
    OBVIOUS
  <2>2. z.p = p
    BY <2>1 DEF Selection
  <2> QED
    BY <1>1, <1>2, <2>1, <2>2, Zenon DEF Normal
<1>4. o.p = p /\ o.r0 = a /\ o.r1 = b /\ o.c0 = c /\ o.c1 = d
  BY <1>2 DEF Corners
<1>5. ~(b < 1 \/ a > len \/ d < 1 \/ c > SongChannels)
  BY <1>3, <1>4, Zenon DEF Clamped
<1>6. PICK x, y : s = [o EXCEPT !.r0 = Clamp(a, 1, len), !.r1 = Clamp(b, 1, len), !.c0 = Clamp(c, 1, SongChannels),
                               !.c1 = Clamp(d, 1, SongChannels), !.f0 = x, !.f1 = y]
  BY <1>3, <1>4, <1>5, Zenon DEF Clamped
<1>7. s.p = p /\ s.r0 = Clamp(a, 1, len) /\ s.r1 = Clamp(b, 1, len) /\ s.c0 = Clamp(c, 1, SongChannels)
      /\ s.c1 = Clamp(d, 1, SongChannels)
  BY <1>2, <1>4, <1>6 DEF Corners, Edges
<1>8. SongChannels \in Nat /\ SongChannels > 0
  BY SongAssumption
<1>9. /\ Clamp(a, 1, len) = (IF a < 1 THEN 1 ELSE IF a > len THEN len ELSE a)
      /\ Clamp(b, 1, len) = (IF b < 1 THEN 1 ELSE IF b > len THEN len ELSE b)
      /\ Clamp(c, 1, SongChannels) = (IF c < 1 THEN 1 ELSE IF c > SongChannels THEN SongChannels ELSE c)
      /\ Clamp(d, 1, SongChannels) = (IF d < 1 THEN 1 ELSE IF d > SongChannels THEN SongChannels ELSE d)
  BY <1>1, <1>2, <1>8, ClampFacts
<1>13. a \in Int /\ b \in Int /\ c \in Int /\ d \in Int /\ a <= b /\ c <= d
  BY <1>2
<1>14. a <= len /\ b >= 1 /\ c <= SongChannels /\ d >= 1
  BY <1>1, <1>5, <1>8, <1>13
<1>10. /\ s.r0 \in Int /\ s.r1 \in Int /\ 1 <= s.r0 /\ s.r0 <= s.r1 /\ s.r1 <= len
       /\ s.c0 \in Int /\ s.c1 \in Int /\ 1 <= s.c0 /\ s.c0 <= s.c1 /\ s.c1 <= SongChannels
  BY <1>1, <1>13, <1>14, <1>7, <1>8, <1>9, SMTT(60)
<1> QED
  BY <1>1, <1>7, <1>10, Zenon DEF Selected

\* A quotient is below the number of rows.
LEMMA QuotientBound ==
    ASSUME NEW k \in Nat, NEW w \in Nat, NEW rows \in Nat, NEW q \in Int, NEW r \in Int,
           0 <= r, r < w, k = (w * q) + r, k < rows * w
    PROVE  q >= 0 /\ q < rows
<1>1. q >= 0
  <2>1. SUFFICES ASSUME q <= -1 PROVE FALSE
    OBVIOUS
  <2>2. w * q <= w * (-1)
    BY <2>1
  <2> QED
    BY <2>2
<1>2. q < rows
  <2>1. SUFFICES ASSUME q >= rows PROVE FALSE
    OBVIOUS
  <2>2. w * q >= w * rows
    BY <2>1
  <2>3. w * rows = rows * w
    OBVIOUS
  <2> QED
    BY <2>2, <2>3
<1> QED
  BY <1>1, <1>2

\* The cells of a selection are different ones, and in the song.
LEMMA BlockFacts ==
    ASSUME ArePatterns(patterns), NEW s, Selected(s)
    PROVE  /\ (\E D : Block(s) \in Seq(D)) /\ Distinct(Block(s))
           /\ \A at \in Range(Block(s)) : Inside(patterns, at)
<1>1. PICK width \in Nat, rows \in Nat : width = s.c1 - s.c0 + 1 /\ rows = s.r1 - s.r0 + 1 /\ width > 0
  BY DEF Selected
<1>2. PICK n \in Nat : n = rows * width
  BY <1>1
<1>3. Block(s) = [i \in 1..n |-> PlaceFrom(s.p, s.r0, s.c0, width, i)]
  BY <1>1, <1>2, Zenon DEF Block, PlaceFrom
<1>4. s.r0 \in Int /\ s.c0 \in Int
  BY Zenon DEF Selected
<1>5. (\E D : Block(s) \in Seq(D)) /\ Distinct(Block(s))
  <2>1. Block(s) = PlacesFrom(s.p, s.r0, s.c0, width, n)
    BY <1>3, Zenon DEF PlacesFrom
  <2>2. n > 0 => width > 0
    BY <1>1
  <2> QED
    BY <1>4, <2>1, <2>2, RowByRow
<1>6. ASSUME NEW i \in 1..n PROVE Inside(patterns, PlaceFrom(s.p, s.r0, s.c0, width, i))
  <2>1. PICK q \in Nat, r \in Nat : q = (i - 1) \div width /\ r = (i - 1) % width /\ r < width /\ q < rows
    <3>1. PICK k \in Nat : k = i - 1 /\ k < rows * width
      BY <1>2
    <3>2. PICK q \in Int, r \in Int : q = k \div width /\ r = k % width
      BY <1>1, <3>1
    <3>3. 0 <= r /\ r < width /\ k = (width * q) + r
      BY <1>1, <3>1, <3>2
    <3>4. q >= 0 /\ q < rows
      BY <1>1, <3>1, <3>3, QuotientBound
    <3> QED
      BY <3>1, <3>2, <3>3, <3>4
  <2>2. PlaceFrom(s.p, s.r0, s.c0, width, i) = <<s.p, s.r0 + q, s.c0 + r>>
    BY <2>1, Zenon DEF PlaceFrom
  <2>3. PICK len \in Nat : len = Len(patterns[s.p].rows) /\ DOMAIN patterns[s.p].rows = 1..len
    <3>1. IsPattern(patterns[s.p])
      BY Zenon DEF ArePatterns, Selected
    <3>2. PICK D : patterns[s.p].rows \in Seq(D)
      BY <3>1, Zenon DEF IsPattern
    <3> QED
      BY <3>2
  <2>4. s.r0 + q \in 1..len /\ s.c0 + r \in 1..SongChannels
    <3>1. PICK r0 \in Int, r1 \in Int, c0 \in Int, c1 \in Int : r0 = s.r0 /\ r1 = s.r1 /\ c0 = s.c0 /\ c1 = s.c1
      BY Zenon DEF Selected
    <3>2. 1 <= r0 /\ r1 <= len /\ 1 <= c0 /\ c1 <= SongChannels
      BY <2>3, <3>1, Zenon DEF Selected
    <3>3. SongChannels \in Nat
      BY SongAssumption
    <3>4. rows = r1 - r0 + 1 /\ width = c1 - c0 + 1
      BY <1>1, <3>1, Zenon
    <3>5. q < rows /\ r < width
      BY <2>1
    <3>6. r0 + q \in 1..len /\ c0 + r \in 1..SongChannels
      BY <3>2, <3>3, <3>4, <3>5
    <3> QED
      BY <3>1, <3>6, Zenon
  <2>5. s.p \in DOMAIN patterns
    BY Zenon DEF Selected
  <2> QED
    BY <2>2, <2>3, <2>4, <2>5 DEF Inside
<1>7. \A at \in Range(Block(s)) : \E i \in 1..n : at = PlaceFrom(s.p, s.r0, s.c0, width, i)
  BY <1>3, Zenon DEF Range
<1> QED
  BY <1>5, <1>6, <1>7, Zenon

-----------------------------------------------------------------------------
(* What a song is made of.                                                 *)

\* The patterns and the sample are such, the clipboard is a block of cells.
Clipped(clip) ==
    (\E D : clip.cells \in Seq(D)) /\ clip.channels \in Nat /\ (clip.cells # <<>> => clip.channels > 0)
SongMade == ArePatterns(patterns) /\ IsSample(sample) /\ Clipped(clipboard) /\ speed \in Int

\* What is a song: enough patterns of enough rows.
LEMMA PatternsMade ==
    ASSUME NEW n \in Nat, NEW ps, ps = [k \in 1..n |-> ps[k]], \A k \in 1..n : IsPattern(ps[k])
    PROVE  ArePatterns(ps)
<1>1. PICK D : D = {ps[k] : k \in 1..n}
  OBVIOUS
<1>2. ps \in [1..n -> D] /\ DOMAIN ps = 1..n
  BY <1>1
<1>3. ps \in Seq(D)
  BY <1>2, SeqDef, Zenon
<1> QED
  BY <1>2, <1>3, Zenon DEF ArePatterns

\* The patterns there are.
LEMMA PatternFacts ==
    ASSUME NEW ps, ArePatterns(ps)
    PROVE  \E n, D : /\ n \in Nat /\ n = Len(ps) /\ DOMAIN ps = 1..n /\ ps \in Seq(D)
                      /\ ps = [k \in 1..n |-> ps[k]] /\ \A p \in D : IsPattern(p)
<1>1. PICK E : ps \in Seq(E)
  BY Zenon DEF ArePatterns
<1>2. PICK n \in Nat : n = Len(ps) /\ DOMAIN ps = 1..n /\ ps = [k \in 1..n |-> ps[k]]
  BY <1>1
<1>3. PICK D : D = {ps[k] : k \in 1..n}
  OBVIOUS
<1>4. ps \in [1..n -> D]
  BY <1>2, <1>3
<1>5. ps \in Seq(D)
  BY <1>4, SeqDef, Zenon
<1>6. \A p \in D : IsPattern(p)
  BY <1>2, <1>3, Zenon DEF ArePatterns
<1> QED
  BY <1>2, <1>5, <1>6

\* A pattern has rows, and every row its channels.
LEMMA RowsMade ==
    ASSUME NEW n \in Nat \ {0}, NEW rows, rows = [r \in 1..n |-> rows[r]], \A r \in 1..n : IsRow(rows[r]), NEW id, NEW born
    PROVE  IsPattern([id |-> id, born |-> born, rows |-> rows])
<1>1. PICK D : D = {rows[r] : r \in 1..n}
  OBVIOUS
<1>2. rows \in [1..n -> D] /\ DOMAIN rows = 1..n
  BY <1>1
<1>3. rows \in Seq(D)
  BY <1>2, SeqDef, Zenon
<1>4. rows # <<>>
  BY <1>2, 1 \in 1..n
<1>5. PICK p : p = [id |-> id, born |-> born, rows |-> rows]
  OBVIOUS
<1>6. p = [id |-> p.id, born |-> p.born, rows |-> p.rows] /\ p.rows = rows
  BY <1>5
<1> QED
  BY <1>2, <1>3, <1>4, <1>5, <1>6, Zenon DEF IsPattern

\* A blank row is a row.
LEMMA BlankIsRow == ASSUME NEW n \in Nat, NEW r \in 1..n PROVE IsRow(BlankRows(n)[r])
<1>1. PICK row : row = [c \in 1..SongChannels |-> EmptyCell]
  OBVIOUS
<1>2. BlankRows(n)[r] = row
  BY <1>1, Zenon DEF BlankRows
<1>3. row = [c \in 1..SongChannels |-> row[c]]
  BY <1>1
<1> QED
  BY <1>2, <1>3, Zenon DEF IsRow

\* A row of a pattern that is made longer or shorter is a row.
LEMMA FitFacts ==
    ASSUME NEW p, IsPattern(p), NEW n \in Nat \ {0}, NEW id, NEW born
    PROVE  IsPattern([id |-> id, born |-> born, rows |-> Fit(p.rows, n)])
<1>1. PICK rows : rows = Fit(p.rows, n)
  OBVIOUS
<1>2. rows = [r \in 1..n |-> IF r \in DOMAIN p.rows THEN p.rows[r] ELSE BlankRows(1)[1]]
  BY <1>1, Zenon DEF Fit
<1>3. rows = [r \in 1..n |-> rows[r]]
  BY <1>2
<1>4. ASSUME NEW r \in 1..n PROVE IsRow(rows[r])
  <2>1. CASE r \in DOMAIN p.rows
    <3>1. rows[r] = p.rows[r]
      BY <1>2, <2>1
    <3> QED
      BY <2>1, <3>1, Zenon DEF IsPattern
  <2>2. CASE r \notin DOMAIN p.rows
    <3>1. rows[r] = BlankRows(1)[1]
      BY <1>2, <2>2
    <3> QED
      BY <3>1, BlankIsRow
  <2> QED
    BY <2>1, <2>2
<1> QED
  BY <1>1, <1>3, <1>4, RowsMade

\* A song that is read is one.
LEMMA OpenedPatterns ==
    ASSUME NEW s \in Songs, NEW ps, NEW ids, NEW borns,
           ps = [p \in DOMAIN s.patterns |-> [id |-> ids[p], born |-> borns[p], rows |-> s.patterns[p]]]
    PROVE  ArePatterns(ps)
<1>1. PICK Row, Rows : Row = [1..SongChannels -> [note : Nat, ins : Nat, vol : Nat, fx : Nat]] /\ Rows = Seq(Row)
  OBVIOUS
<1>2. s.patterns \in Seq(Rows) /\ \A k \in DOMAIN s.patterns : s.patterns[k] # <<>>
  BY <1>1, Zenon, SongAssumption
<1>3. PICK n \in Nat : DOMAIN s.patterns = 1..n /\ \A k \in 1..n : s.patterns[k] \in Rows
  <2>1. PICK list : list = s.patterns
    OBVIOUS
  <2>2. list \in Seq(Rows)
    BY <1>2, <2>1
  <2>3. Len(list) \in Nat /\ DOMAIN list = 1..Len(list) /\ \A k \in 1..Len(list) : list[k] \in Rows
    BY <2>2
  <2> QED
    BY <2>1, <2>3, Zenon
<1>4. ps = [k \in 1..n |-> ps[k]]
  BY <1>3
<1>5. ASSUME NEW k \in 1..n PROVE IsPattern(ps[k])
  <2>1. PICK rows : rows = s.patterns[k] /\ rows \in Seq(Row) /\ rows # <<>>
    BY <1>1, <1>2, <1>3, Zenon
  <2>2. PICK m \in Nat \ {0} : m = Len(rows) /\ rows = [r \in 1..m |-> rows[r]]
                               /\ \A r \in 1..m : rows[r] \in Row
    <3>1. Len(rows) \in Nat /\ rows = [r \in 1..Len(rows) |-> rows[r]] /\ \A r \in 1..Len(rows) : rows[r] \in Row
      BY <2>1
    <3>2. Len(rows) # 0
      BY <2>1
    <3> QED
      BY <3>1, <3>2
  <2>3. \A r \in 1..m : IsRow(rows[r])
    <3> SUFFICES ASSUME NEW r \in 1..m PROVE IsRow(rows[r])
      OBVIOUS
    <3>1. PICK row : row = rows[r] /\ row \in Row
      BY <2>2
    <3>2. row = [c \in 1..SongChannels |-> row[c]]
      BY <1>1, <3>1
    <3> QED
      BY <3>1, <3>2, Zenon DEF IsRow
  <2>4. IsPattern([id |-> ids[k], born |-> borns[k], rows |-> rows])
    BY <2>2, <2>3, RowsMade
  <2> QED
    BY <1>3, <2>1, <2>4
<1> QED
  BY <1>4, <1>5, PatternsMade

-----------------------------------------------------------------------------
(* What becomes of a layer's notes.                                        *)

\* Sorting gives a list of notes in the order of time.
LEMMA InTimeFacts ==
    ASSUME NEW notes \in Seq(PlayNote)
    PROVE  InTime(notes) \in Seq(PlayNote) /\ Sorted(InTime(notes))
<1>1. PICK n \in Nat : n = Len(notes) /\ DOMAIN notes = 1..n
  OBVIOUS
<1>2. PICK at : at = [r \in DOMAIN notes |-> CHOOSE i \in DOMAIN notes : Rank(notes, i) = r - 1]
  OBVIOUS
<1>3. \A r \in 1..n : at[r] \in 1..n /\ Rank(notes, at[r]) = r - 1
  <2>1. ASSUME NEW r \in 1..n PROVE \E i \in 1..n : Rank(notes, i) = r - 1
    <3>1. r - 1 \in 0..n - 1
      BY <1>1
    <3> QED
      BY <1>1, <3>1, RankFacts, Zenon
  <2>2. \A r \in DOMAIN notes : \E i \in DOMAIN notes : Rank(notes, i) = r - 1
    BY <1>1, <2>1, Zenon
  <2>3. \A r \in DOMAIN notes : at[r] \in DOMAIN notes /\ Rank(notes, at[r]) = r - 1
    BY <1>2, <2>2, Zenon
  <2> QED
    BY <1>1, <2>3, Zenon
<1>4. PICK list : list = InTime(notes)
  OBVIOUS
<1>5. list = [r \in 1..n |-> list[r]]
  <2>1. list = [r \in DOMAIN notes |-> list[r]]
    BY <1>4 DEF InTime
  <2> QED
    BY <1>1, <2>1, Zenon
<1>6. ASSUME NEW r \in 1..n PROVE list[r] \in PlayNote /\ list[r] = notes[at[r]]
  <2>1. r \in DOMAIN notes
    BY <1>1, <1>6
  <2>2. list[r] = notes[CHOOSE i \in DOMAIN notes : Rank(notes, i) = r - 1]
    BY <1>4, <2>1, Zenon DEF InTime
  <2>3. at[r] = CHOOSE i \in DOMAIN notes : Rank(notes, i) = r - 1
    BY <1>2, <2>1, Zenon
  <2>4. at[r] \in 1..n
    BY <1>3, <1>6, Zenon
  <2>5. notes[at[r]] \in PlayNote
    BY <1>1, <2>4
  <2> QED
    BY <2>2, <2>3, <2>5, Zenon
<1>7. list \in Seq(PlayNote) /\ Len(list) = n /\ DOMAIN list = 1..n
  BY <1>5, <1>6, TabulatedList, Zenon
<1>8. ASSUME NEW r \in 1..n, NEW s \in 1..n, r < s PROVE list[r].start <= list[s].start
  <2>1. PICK i \in 1..n, j \in 1..n : i = at[r] /\ j = at[s] /\ Rank(notes, i) = r - 1 /\ Rank(notes, j) = s - 1
    BY <1>3, Zenon
  <2>2. ~Before(notes, j, i)
    <3>1. Before(notes, j, i) => Rank(notes, j) < Rank(notes, i)
      BY <1>1, RankFacts, Zenon
    <3> QED
      BY <1>8, <2>1, <3>1
  <2>3. notes[i].start \in Nat /\ notes[j].start \in Nat
    <3>1. notes[i] \in PlayNote /\ notes[j] \in PlayNote
      BY <1>1
    <3> QED
      BY <3>1, NoteTypes, Zenon
  <2>4. ~(notes[j].start < notes[i].start)
    BY <2>2, Zenon DEF Before
  <2>5. list[r] = notes[i] /\ list[s] = notes[j]
    BY <1>6, <2>1, Zenon
  <2> QED
    BY <2>3, <2>4, <2>5
<1>9. Sorted(list)
  BY <1>7, <1>8, Zenon DEF Sorted
<1> QED
  BY <1>4, <1>7, <1>9

\* resize_pattern: what starts past the end goes, what reaches over it is cut there.
LEMMA TrimmedFacts ==
    ASSUME NEW notes \in Seq(PlayNote), Sorted(notes), NEW ticks \in Int
    PROVE  Trimmed(notes, ticks) \in Seq(PlayNote) /\ Sorted(Trimmed(notes, ticks))
<1>1. PICK out, early : out = Trimmed(notes, ticks) /\ early = {n \in Range(notes) : n.start < ticks}
  OBVIOUS
<1>2. PICK kept : kept = Within(notes, early)
  OBVIOUS
<1>3. kept \in Seq(Range(notes) \cap early) /\ Sorted(kept)
  BY <1>2, SieveFacts, Zenon
<1>4. PICK E : E = Range(notes) \cap early
  OBVIOUS
<1>5. \A n \in E : n \in PlayNote /\ n.start < ticks
  <2>1. Range(notes) \subseteq PlayNote
    BY DEF Range
  <2> QED
    BY <1>1, <1>4, <2>1
<1>6. kept \in Seq(E)
  BY <1>3, <1>4, Zenon
<1>7. out = [i \in DOMAIN kept |-> [kept[i] EXCEPT !.dur = AtLeast(1, Min({kept[i].dur, ticks - kept[i].start}))]]
  BY <1>1, <1>2, Zenon DEF Trimmed, Each
<1>8. out = [i \in DOMAIN kept |-> out[i]]
  BY <1>7
<1>9. ASSUME NEW i \in DOMAIN kept PROVE out[i] \in PlayNote /\ out[i].start = kept[i].start
  <2>1. PICK n \in PlayNote : n = kept[i]
    <3>1. kept[i] \in E
      BY <1>6
    <3> QED
      BY <1>5, <3>1, Zenon
  <2>2. n.start \in Nat /\ n.dur \in Nat
    BY NoteTypes
  <2>3. PICK left \in Int : left = ticks - n.start
    BY <2>2
  <2>4. PICK x \in Int : x = Min({n.dur, left})
    BY <2>2, MinOfTwo
  <2>5. AtLeast(1, x) \in Nat \ {0}
    BY AtLeastFacts
  <2>6. PICK d \in Nat \ {0} : d = AtLeast(1, x)
    BY <2>5, Zenon
  <2>7. out[i] = [n EXCEPT !.dur = d]
    BY <1>7, <2>1, <2>3, <2>4, <2>6, Zenon
  <2>8. [n EXCEPT !.dur = d] \in PlayNote /\ [n EXCEPT !.dur = d].start = n.start
    BY DEF PlayNote
  <2> QED
    BY <2>1, <2>7, <2>8, Zenon
<1>10. out \in Seq(PlayNote)
  BY <1>6, <1>8, <1>9, Listed, Zenon
<1>11. DOMAIN out = DOMAIN kept
  BY <1>8
<1>12. ASSUME NEW i \in DOMAIN out, NEW j \in DOMAIN out, i < j PROVE out[i].start <= out[j].start
  <2>1. kept[i].start <= kept[j].start
    BY <1>3, <1>11, <1>12, Zenon DEF Sorted
  <2>2. out[i].start = kept[i].start /\ out[j].start = kept[j].start
    BY <1>9, <1>11, Zenon
  <2> QED
    BY <2>1, <2>2
<1>13. Sorted(out)
  BY <1>12, Zenon DEF Sorted
<1> QED
  BY <1>1, <1>10, <1>13

\* Whatever tool of the piano roll is used, it gives notes.
LEMMA ToolsFacts ==
    ASSUME NEW notes \in Seq(PlayNote), notes # <<>>, speed \in Int, NEW result \in Tools(notes)
    PROVE  result \in Seq(PlayNote)
<1>1. ASSUME NEW division \in {1, 2}, result = Quantize(notes, speed, division, 100, FALSE) PROVE result \in Seq(PlayNote)
  <2>1. division \in Nat /\ division > 0
    OBVIOUS
  <2> QED
    BY <1>1, <2>1, QuantizeFacts, Zenon
<1>2. ASSUME NEW t \in {-1, 1}, NEW v \in {-15, 15}, NEW d \in {-1, 1}, result = Humanize(notes, t, v, d)
      PROVE  result \in Seq(PlayNote)
  <2>1. t \in Int /\ v \in Int /\ d \in Int
    OBVIOUS
  <2> QED
    BY <1>2, <2>1, HumanizeFacts, Zenon
<1>3. ASSUME result \in {Transpose(notes, 12), Backwards(notes), Upturned(notes)} PROVE result \in Seq(PlayNote)
  <2>1. 12 \in Int
    OBVIOUS
  <2>2. Transpose(notes, 12) \in Seq(PlayNote) /\ Backwards(notes) \in Seq(PlayNote) /\ Upturned(notes) \in Seq(PlayNote)
    BY <2>1, TransposeFacts, BackwardsFacts, UpturnedFacts, Zenon
  <2> QED
    BY <1>3, <2>2, Zenon
<1>4. ASSUME NEW direction \in {"up", "down", "updown", "random"}, NEW cycle \in Cycles(Fanned(notes, 2), direction),
             result = Arpeggiate(notes, speed, cycle, 2, 80)
      PROVE  result \in Seq(PlayNote)
  <2>1. PICK pitches : pitches = Fanned(notes, 2)
    OBVIOUS
  <2>2. pitches \in Seq(0..MaxPitch) /\ pitches # <<>>
    BY <2>1, FannedFacts, Zenon
  <2>3. cycle \in Seq(0..MaxPitch) /\ cycle # <<>>
    BY <2>1, <2>2, CyclesFacts, Zenon
  <2> QED
    BY <1>4, <2>3, ArpeggiateFacts, Zenon
<1>5. ASSUME NEW shape \in {"crescendo", "decrescendo", "accent", "flat"}, result = VelocityCurve(notes, shape, 40, 127)
      PROVE  result \in Seq(PlayNote)
  <2>1. 40 \in Nat /\ 127 \in Nat
    OBVIOUS
  <2> QED
    BY <1>5, <2>1, VelocityCurveFacts, ZenonT(60)
<1>6. ASSUME NEW percent \in {50, 75, 100}, result = GateLength(notes, percent) PROVE result \in Seq(PlayNote)
  <2>1. percent \in Int
    OBVIOUS
  <2> QED
    BY <1>6, <2>1, GateFacts, Zenon
<1> DEFINE grids == {Quantize(notes, speed, division, 100, FALSE) : division \in {1, 2}}
<1> DEFINE drawn == {Humanize(notes, t, v, d) : t \in {-1, 1}, v \in {-15, 15}, d \in {-1, 1}}
<1> DEFINE mirrored == {Transpose(notes, 12), Backwards(notes), Upturned(notes)}
<1> DEFINE runs == UNION {{Arpeggiate(notes, speed, cycle, 2, 80) : cycle \in Cycles(Fanned(notes, 2), direction)}
                             : direction \in {"up", "down", "updown", "random"}}
<1> DEFINE curves == {VelocityCurve(notes, shape, 40, 127) : shape \in {"crescendo", "decrescendo", "accent", "flat"}}
<1> DEFINE gates == {GateLength(notes, percent) : percent \in {50, 75, 100}}
<1>7. result \in grids \cup drawn \cup mirrored \cup runs \cup curves \cup gates
  <2>1. Tools(notes) = grids \cup drawn \cup mirrored \cup runs \cup curves \cup gates
    BY DEF Tools
  <2> HIDE DEF grids, drawn, mirrored, runs, curves, gates
  <2> QED
    BY <2>1, Zenon
<1>8. CASE result \in grids
  BY <1>1, <1>8, Zenon
<1>9. CASE result \in drawn
  <2>1. PICK t \in {-1, 1}, v \in {-15, 15}, d \in {-1, 1} : result = Humanize(notes, t, v, d)
    BY <1>9
  <2> QED
    BY <1>2, <2>1
<1>10. CASE result \in mirrored
  BY <1>3, <1>10, Zenon
<1>11. CASE result \in runs
  <2>1. PICK direction \in {"up", "down", "updown", "random"} :
            result \in {Arpeggiate(notes, speed, cycle, 2, 80) : cycle \in Cycles(Fanned(notes, 2), direction)}
    BY <1>11, Zenon
  <2> QED
    BY <1>4, <2>1, Zenon
<1>12. CASE result \in curves
  BY <1>5, <1>12, Zenon
<1>13. CASE result \in gates
  BY <1>6, <1>13, Zenon
<1> HIDE DEF grids, drawn, mirrored, runs, curves, gates
<1> QED
  BY <1>7, <1>8, <1>9, <1>10, <1>11, <1>12, <1>13, Zenon

-----------------------------------------------------------------------------
(***************************************************************************)
(* What the engine takes for granted of a song (Playable): the lists of    *)
(* orders, layers and automation stay fit for the patterns. The edits of   *)
(* cells leave patterns alike; the others are gone through one by one.     *)
(***************************************************************************)

InPlace(ps) == \A k \in DOMAIN ps : ps[k].id = k - 1
OrdersFit(os, ps) == os \in Seq(0..Len(ps) - 1) /\ os # <<>>
IsEntry(e) == e = [born |-> e.born, notes |-> e.notes] /\ e.notes \in Seq(PlayNote) /\ Sorted(e.notes)
SeqsFit(ss, ps) ==
    /\ (\E D : ss \in Seq(D)) /\ Len(ss) <= Len(ps)
    /\ \A k \in DOMAIN ss : IsEntry(ss[k]) /\ ss[k].born = ps[k].born
FxsFit(fs, ps) ==
    /\ (\E D : fs \in Seq(D)) /\ Len(fs) <= Len(ps)
    /\ \A k \in DOMAIN fs : fs[k] = [born |-> ps[k].born, rows |-> Len(ps[k].rows)]
SongFits == InPlace(patterns) /\ OrdersFit(orders, patterns) /\ SeqsFit(seqs, patterns) /\ FxsFit(fxs, patterns)

\* Lists of whatever, and how they are made.
LEMMA AnyList ==
    ASSUME NEW list, \E D : list \in Seq(D)
    PROVE  \E n \in Nat : n = Len(list) /\ DOMAIN list = 1..n /\ list = [i \in 1..n |-> list[i]]
<1>1. PICK D : list \in Seq(D)
  OBVIOUS
<1> QED
  BY <1>1

LEMMA MadeList ==
    ASSUME NEW n \in Nat, NEW list, list = [i \in 1..n |-> list[i]]
    PROVE  (\E D : list \in Seq(D)) /\ Len(list) = n /\ DOMAIN list = 1..n
<1>1. PICK D : D = {list[i] : i \in 1..n}
  OBVIOUS
<1>2. \A i \in 1..n : list[i] \in D
  BY <1>1
<1> QED
  BY <1>2, TabulatedList, Zenon

\* What fits patterns fits others that are alike, and more of them.
LEMMA FitsLonger ==
    ASSUME NEW ps, ArePatterns(ps), NEW qs, ArePatterns(qs), Len(ps) <= Len(qs),
           \A k \in DOMAIN ps : ps[k].born = qs[k].born /\ Len(ps[k].rows) = Len(qs[k].rows),
           NEW os, OrdersFit(os, ps), NEW ss, SeqsFit(ss, ps), NEW fs, FxsFit(fs, ps)
    PROVE  OrdersFit(os, qs) /\ SeqsFit(ss, qs) /\ FxsFit(fs, qs)
<1>1. PICK n \in Nat, m \in Nat : n = Len(ps) /\ DOMAIN ps = 1..n /\ m = Len(qs) /\ DOMAIN qs = 1..m /\ n <= m
  BY AnyList, Zenon DEF ArePatterns
<1>2. OrdersFit(os, qs)
  <2>1. 0..n - 1 \subseteq 0..m - 1
    BY <1>1
  <2>2. PICK A, B : A = 0..n - 1 /\ B = 0..m - 1
    OBVIOUS
  <2>3. OrdersFit(os, ps) <=> os \in Seq(A) /\ os # <<>>
    BY <1>1, <2>2, Zenon DEF OrdersFit
  <2>4. OrdersFit(os, qs) <=> os \in Seq(B) /\ os # <<>>
    BY <1>1, <2>2, Zenon DEF OrdersFit
  <2> QED
    BY <2>1, <2>2, <2>3, <2>4, SeqMonotonic
<1>3. SeqsFit(ss, qs)
  <2>1. PICK l \in Nat : l = Len(ss) /\ DOMAIN ss = 1..l
    BY AnyList, Zenon DEF SeqsFit
  <2>2. l <= n
    BY <1>1, <2>1, Zenon DEF SeqsFit
  <2>3. l <= m /\ \A k \in 1..l : k \in 1..n
    BY <1>1, <2>2
  <2> QED
    BY <1>1, <2>1, <2>3, Zenon DEF SeqsFit
<1>4. FxsFit(fs, qs)
  <2>1. PICK l \in Nat : l = Len(fs) /\ DOMAIN fs = 1..l
    BY AnyList, Zenon DEF FxsFit
  <2>2. l <= n
    BY <1>1, <2>1, Zenon DEF FxsFit
  <2>3. l <= m /\ \A k \in 1..l : k \in 1..n
    BY <1>1, <2>2
  <2> QED
    BY <1>1, <2>1, <2>3, Zenon DEF FxsFit
<1> QED
  BY <1>2, <1>3, <1>4

LEMMA FitsAlike ==
    ASSUME SongMade, SongFits, SongMade', Alike(patterns, patterns'), UNCHANGED <<orders, seqs, fxs>>
    PROVE  SongFits'
<1>1. \A k \in DOMAIN patterns : patterns[k].born = patterns'[k].born /\ Len(patterns[k].rows) = Len(patterns'[k].rows)
  BY Zenon DEF Alike
<1>2. PICK n \in Nat : n = Len(patterns) /\ n = Len(patterns') /\ n <= n
  <2>1. \E D : patterns \in Seq(D)
    BY Zenon DEF SongMade, ArePatterns
  <2>2. PICK n \in Nat : n = Len(patterns)
    BY <2>1, AnyList, Zenon
  <2>3. n <= n
    OBVIOUS
  <2> QED
    BY <2>2, <2>3, Zenon DEF Alike
<1>3. OrdersFit(orders, patterns') /\ SeqsFit(seqs, patterns') /\ FxsFit(fxs, patterns')
  BY <1>1, <1>2, FitsLonger, Zenon DEF SongMade, SongFits
<1>4. InPlace(patterns')
  BY Zenon DEF SongFits, InPlace, Alike
<1> QED
  BY <1>3, <1>4, Zenon DEF SongFits

LEMMA FitsStay == ASSUME SongFits, UNCHANGED <<patterns, orders, seqs, fxs>> PROVE SongFits'
BY DEF SongFits

\* create_pattern
LEMMA CreateFits ==
    ASSUME SongMade, SongFits, SongMade', NEW rows, CreatePattern(rows)
    PROVE  SongFits'
<1>1. PICK n, D : n \in Nat /\ n = Len(patterns) /\ DOMAIN patterns = 1..n /\ patterns \in Seq(D)
  BY PatternFacts, Zenon DEF SongMade
<1>2. PICK p : p = [id |-> n, born |-> made + 1, rows |-> BlankRows(rows)]
  OBVIOUS
<1>3. PICK all : all = Append(patterns, p)
  OBVIOUS
<1>4. all \in Seq(D \cup {p}) /\ Len(all) = n + 1 /\ DOMAIN all = 1..n + 1 /\ all[n + 1] = p /\ \A k \in 1..n : all[k] = patterns[k]
  BY <1>1, <1>3
<1>5. patterns' = all /\ UNCHANGED <<orders, seqs, fxs>>
  BY <1>1, <1>2, <1>3, Zenon DEF CreatePattern
<1>6. OrdersFit(orders, all) /\ SeqsFit(seqs, all) /\ FxsFit(fxs, all)
  <2>1. n <= n + 1
    BY <1>1
  <2> QED
    BY <1>1, <1>4, <1>5, <2>1, FitsLonger, Zenon DEF SongMade, SongFits
<1>7. InPlace(all)
  <2>1. \A k \in 1..n : patterns[k].id = k - 1
    BY <1>1, Zenon DEF SongFits, InPlace
  <2>2. p.id = n
    BY <1>2
  <2>3. \A k \in 1..n + 1 : all[k].id = k - 1
    BY <1>1, <1>4, <2>1, <2>2
  <2> QED
    BY <1>4, <2>3, Zenon DEF InPlace
<1> QED
  BY <1>5, <1>6, <1>7, Zenon DEF SongFits

\* delete_pattern: what is left of a list moves up by one place, from the one that goes.
Moved(k, i) == IF k < i THEN k ELSE k + 1
LEMMA RemovedIfThere ==
    ASSUME NEW list, \E D : list \in Seq(D), NEW m \in Nat, Len(list) <= m + 1, NEW i \in 1..m + 1
    PROVE  /\ \E D : RemoveIfThere(list, i) \in Seq(D)
           /\ Len(RemoveIfThere(list, i)) <= m
           /\ \A k \in DOMAIN RemoveIfThere(list, i) :
                Moved(k, i) \in DOMAIN list /\ RemoveIfThere(list, i)[k] = list[Moved(k, i)]
<1>1. PICK D : list \in Seq(D)
  OBVIOUS
<1>2. PICK l \in Nat : l = Len(list) /\ DOMAIN list = 1..l /\ l <= m + 1
  BY <1>1
<1>3. PICK out : out = RemoveIfThere(list, i)
  OBVIOUS
<1>4. CASE i \in DOMAIN list
  <2>1. out = RemoveAt(list, i)
    BY <1>3, <1>4 DEF RemoveIfThere
  <2>2. /\ out \in Seq(D) /\ Len(out) = l - 1 /\ DOMAIN out = 1..l - 1
        /\ \A k \in 1..l - 1 : out[k] = IF k < i THEN list[k] ELSE list[k + 1]
    BY <1>1, <1>2, <1>4, <2>1, Removed, Zenon
  <2>3. \A k \in 1..l - 1 : Moved(k, i) \in 1..l
    BY <1>2 DEF Moved
  <2>4. \A k \in 1..l - 1 : out[k] = list[Moved(k, i)]
    BY <2>2 DEF Moved
  <2>5. l - 1 <= m
    BY <1>2
  <2> QED
    BY <1>2, <1>3, <2>2, <2>3, <2>4, <2>5, Zenon
<1>5. CASE i \notin DOMAIN list
  <2>1. out = list
    BY <1>3, <1>5 DEF RemoveIfThere
  <2>2. l < i
    BY <1>2, <1>5
  <2>3. l <= m
    BY <1>2, <2>2
  <2>4. \A k \in 1..l : Moved(k, i) = k
    BY <1>2, <2>2 DEF Moved
  <2> QED
    BY <1>1, <1>2, <1>3, <2>1, <2>3, <2>4, Zenon
<1> QED
  BY <1>4, <1>5

LEMMA OrdersClosed ==
    ASSUME NEW n \in Nat, n > 1, NEW i \in 1..n, orders \in Seq(0..n - 1)
    PROVE  OrdersWithout(i) \in Seq(0..n - 2) /\ OrdersWithout(i) # <<>>
<1>1. PICK others : others = Range(orders) \ {i - 1}
  OBVIOUS
<1>2. PICK kept : kept = Within(orders, others)
  OBVIOUS
<1>3. PICK E : E = Range(orders) \cap others
  OBVIOUS
<1>4. kept \in Seq(E)
  BY <1>2, <1>3, SieveFacts, Zenon
<1>5. \A x \in E : x \in 0..n - 1 /\ x # i - 1
  <2>1. PICK D : D = 0..n - 1
    OBVIOUS
  <2>2. orders \in Seq(D)
    BY <2>1, Zenon
  <2>3. Range(orders) \subseteq D
    BY <2>2 DEF Range
  <2> QED
    BY <1>1, <1>3, <2>1, <2>3
<1>6. PICK closed : closed = [j \in DOMAIN kept |-> IF kept[j] > i - 1 THEN kept[j] - 1 ELSE kept[j]]
  OBVIOUS
<1>7. ASSUME NEW j \in DOMAIN kept PROVE closed[j] \in 0..n - 2
  <2>1. PICK x : x = kept[j] /\ x \in 0..n - 1 /\ x # i - 1
    BY <1>4, <1>5
  <2>2. closed[j] = IF x > i - 1 THEN x - 1 ELSE x
    BY <1>6, <2>1
  <2> QED
    BY <2>1, <2>2
<1>8. closed = [j \in DOMAIN kept |-> closed[j]]
  BY <1>6
<1>9. closed \in Seq(0..n - 2)
  BY <1>4, <1>7, <1>8, Listed, Zenon
<1>10. OrdersWithout(i) = IF closed = <<>> THEN <<0>> ELSE closed
  BY <1>1, <1>2, <1>6, Zenon DEF OrdersWithout
<1>11. <<0>> \in Seq(0..n - 2) /\ <<0>> # <<>>
  <2>1. 0 \in 0..n - 2
    OBVIOUS
  <2>2. PICK D : D = 0..n - 2
    OBVIOUS
  <2>3. <<0>> \in Seq(D)
    BY <2>1, <2>2
  <2> QED
    BY <2>2, <2>3
<1> QED
  BY <1>9, <1>10, <1>11

LEMMA DeleteFits ==
    ASSUME SongMade, SongFits, SongMade', NEW i, DeletePattern(i)
    PROVE  SongFits'
<1>1. PICK n, D : n \in Nat /\ n = Len(patterns) /\ DOMAIN patterns = 1..n /\ patterns \in Seq(D) /\ \A p \in D : IsPattern(p)
  BY PatternFacts, Zenon DEF SongMade
<1>2. i \in 1..n /\ n > 1
  BY <1>1, Zenon DEF DeletePattern
<1>3. PICK m \in Nat : m = n - 1 /\ n = m + 1 /\ m - 1 = n - 2 /\ i \in 1..m + 1
  BY <1>1, <1>2
<1>4. PICK rest : /\ rest = RemoveAt(patterns, i) /\ rest \in Seq(D) /\ DOMAIN rest = 1..m
                  /\ \A k \in 1..m : rest[k] = IF k < i THEN patterns[k] ELSE patterns[k + 1]
  <2>1. patterns \in Seq(D) /\ i \in DOMAIN patterns /\ Len(patterns) - 1 = m
    BY <1>1, <1>2, <1>3
  <2>2. /\ RemoveAt(patterns, i) \in Seq(D) /\ DOMAIN RemoveAt(patterns, i) = 1..Len(patterns) - 1
        /\ \A k \in 1..Len(patterns) - 1 : RemoveAt(patterns, i)[k] = IF k < i THEN patterns[k] ELSE patterns[k + 1]
    BY <2>1, Removed, Zenon
  <2> QED
    BY <2>1, <2>2, Zenon
<1>5. PICK all : all = [k \in 1..m |-> [rest[k] EXCEPT !.id = k - 1]]
  OBVIOUS
<1>6. patterns' = all
  BY <1>4, <1>5, Zenon DEF DeletePattern, Reindexed
<1>7. DOMAIN all = 1..m /\ Len(all) = m
  <2>1. all = [k \in 1..m |-> all[k]]
    BY <1>5
  <2> QED
    BY <2>1, MadeList, Zenon
<1>8. ASSUME NEW k \in 1..m
      PROVE  /\ all[k].id = k - 1 /\ all[k].born = patterns[Moved(k, i)].born /\ all[k].rows = patterns[Moved(k, i)].rows
             /\ Moved(k, i) \in 1..n
  <2>1. rest[k] = patterns[Moved(k, i)] /\ rest[k] \in D /\ Moved(k, i) \in 1..n
    BY <1>1, <1>3, <1>4 DEF Moved
  <2>2. PICK p : p = rest[k] /\ p = [id |-> p.id, born |-> p.born, rows |-> p.rows]
    BY <1>1, <2>1, Zenon DEF IsPattern
  <2>3. all[k] = [p EXCEPT !.id = k - 1]
    BY <1>5, <2>2, Zenon
  <2>4. all[k].id = k - 1 /\ all[k].born = p.born /\ all[k].rows = p.rows
    BY <2>2, <2>3
  <2> QED
    BY <2>1, <2>2, <2>4
<1>9. InPlace(all)
  BY <1>7, <1>8, Zenon DEF InPlace
<1>10. OrdersFit(orders', all)
  <2>1. orders \in Seq(0..n - 1)
    BY <1>1, Zenon DEF SongFits, OrdersFit
  <2>2. orders' = OrdersWithout(i)
    BY Zenon DEF DeletePattern
  <2>3. orders' \in Seq(0..n - 2) /\ orders' # <<>>
    BY <1>1, <1>2, <2>1, <2>2, OrdersClosed, Zenon
  <2>4. 0..n - 2 = 0..Len(all) - 1
    BY <1>3, <1>7, Zenon
  <2> QED
    BY <2>3, <2>4, Zenon DEF OrdersFit
<1>11. SeqsFit(seqs', all)
  <2>1. PICK out : out = RemoveIfThere(seqs, i)
    OBVIOUS
  <2>2. seqs' = out
    BY <2>1, Zenon DEF DeletePattern
  <2>3. (\E E : seqs \in Seq(E)) /\ Len(seqs) <= m + 1
    BY <1>1, <1>3, Zenon DEF SongFits, SeqsFit
  <2>4. /\ (\E E : out \in Seq(E)) /\ Len(out) <= m
        /\ \A k \in DOMAIN out : Moved(k, i) \in DOMAIN seqs /\ out[k] = seqs[Moved(k, i)]
    BY <1>3, <2>1, <2>3, RemovedIfThere, Zenon
  <2>5. PICK l \in Nat : l = Len(out) /\ DOMAIN out = 1..l
    BY <2>4, AnyList, Zenon
  <2>6. \A k \in 1..l : k \in 1..m
    BY <2>4, <2>5
  <2>7. \A k \in DOMAIN out : IsEntry(out[k]) /\ out[k].born = all[k].born
    BY <1>8, <2>4, <2>5, <2>6, Zenon DEF SongFits, SeqsFit
  <2> QED
    BY <1>7, <2>2, <2>4, <2>7, Zenon DEF SeqsFit
<1>12. FxsFit(fxs', all)
  <2>1. PICK out : out = RemoveIfThere(fxs, i)
    OBVIOUS
  <2>2. fxs' = out
    BY <2>1, Zenon DEF DeletePattern
  <2>3. (\E E : fxs \in Seq(E)) /\ Len(fxs) <= m + 1
    BY <1>1, <1>3, Zenon DEF SongFits, FxsFit
  <2>4. /\ (\E E : out \in Seq(E)) /\ Len(out) <= m
        /\ \A k \in DOMAIN out : Moved(k, i) \in DOMAIN fxs /\ out[k] = fxs[Moved(k, i)]
    BY <1>3, <2>1, <2>3, RemovedIfThere, Zenon
  <2>5. PICK l \in Nat : l = Len(out) /\ DOMAIN out = 1..l
    BY <2>4, AnyList, Zenon
  <2>6. \A k \in 1..l : k \in 1..m
    BY <2>4, <2>5
  <2>7. \A k \in DOMAIN out : out[k] = [born |-> all[k].born, rows |-> Len(all[k].rows)]
    BY <1>8, <2>4, <2>5, <2>6, Zenon DEF SongFits, FxsFit
  <2> QED
    BY <1>7, <2>2, <2>4, <2>7, Zenon DEF FxsFit
<1> QED
  BY <1>6, <1>9, <1>10, <1>11, <1>12, Zenon DEF SongFits

\* The entries of a layer: one more for each pattern there is, and other notes in one of them.
LEMMA GrownFacts ==
    ASSUME ArePatterns(patterns), SeqsFit(seqs, patterns), NEW k \in DOMAIN patterns
    PROVE  SeqsFit(Grown(k), patterns) /\ k \in DOMAIN Grown(k)
<1>1. PICK all : all = Grown(k)
  OBVIOUS
<1>2. CASE k \in DOMAIN seqs
  <2>1. all = seqs
    BY <1>1, <1>2, Zenon DEF Grown
  <2> QED
    BY <1>1, <1>2, <2>1, Zenon
<1>3. CASE k \notin DOMAIN seqs
  <2>1. PICK n \in Nat : n = Len(patterns) /\ DOMAIN patterns = 1..n /\ n <= n
    <3>1. PICK n \in Nat : n = Len(patterns) /\ DOMAIN patterns = 1..n
      BY AnyList, Zenon DEF ArePatterns
    <3>2. n <= n
      OBVIOUS
    <3> QED
      BY <3>1, <3>2
  <2>2. all = [i \in 1..n |-> IF i \in DOMAIN seqs THEN seqs[i] ELSE [born |-> patterns[i].born, notes |-> <<>>]]
    BY <1>1, <1>3, <2>1, Zenon DEF Grown
  <2>3. all = [i \in 1..n |-> all[i]]
    BY <2>2
  <2>4. (\E D : all \in Seq(D)) /\ Len(all) = n /\ DOMAIN all = 1..n
    BY <2>3, MadeList, Zenon
  <2>5. ASSUME NEW i \in 1..n PROVE IsEntry(all[i]) /\ all[i].born = patterns[i].born
    <3>1. CASE i \in DOMAIN seqs
      <4>1. all[i] = seqs[i]
        BY <2>2, <3>1
      <4> QED
        BY <3>1, <4>1, Zenon DEF SeqsFit
    <3>2. CASE i \notin DOMAIN seqs
      <4>1. PICK e, born : e = all[i] /\ born = patterns[i].born
        OBVIOUS
      <4>2. e = [born |-> born, notes |-> <<>>]
        BY <2>2, <3>2, <4>1
      <4>3. e.born = born /\ e.notes = <<>> /\ e = [born |-> e.born, notes |-> e.notes] /\ <<>> \in Seq(PlayNote)
        BY <4>2
      <4>4. Sorted(<<>>)
        BY DEF Sorted
      <4> QED
        BY <4>1, <4>3, <4>4, Zenon DEF IsEntry
    <3> QED
      BY <3>1, <3>2
  <2>6. SeqsFit(all, patterns)
    BY <2>1, <2>4, <2>5, Zenon DEF SeqsFit
  <2> QED
    BY <1>1, <2>1, <2>4, <2>6, Zenon
<1> QED
  BY <1>2, <1>3

LEMMA NotesPut ==
    ASSUME NEW ps, NEW ss, SeqsFit(ss, ps), NEW k \in DOMAIN ss, NEW notes \in Seq(PlayNote), Sorted(notes)
    PROVE  SeqsFit([ss EXCEPT ![k].notes = notes], ps)
<1>1. PICK n \in Nat : n = Len(ss) /\ DOMAIN ss = 1..n /\ ss = [i \in 1..n |-> ss[i]]
  BY AnyList, Zenon DEF SeqsFit
<1>2. PICK e : e = ss[k] /\ e = [born |-> e.born, notes |-> e.notes]
  BY Zenon DEF SeqsFit, IsEntry
<1>3. PICK f : f = [born |-> e.born, notes |-> notes]
  OBVIOUS
<1>4. f = [e EXCEPT !.notes = notes] /\ f.born = e.born /\ f.notes = notes
  BY <1>2, <1>3
<1>5. PICK all : all = [ss EXCEPT ![k] = f]
  OBVIOUS
<1>6. all = [ss EXCEPT ![k].notes = notes]
  BY <1>2, <1>4, <1>5, Zenon
<1>7. all = [i \in 1..n |-> all[i]] /\ all[k] = f /\ \A i \in 1..n : i # k => all[i] = ss[i]
  BY <1>1, <1>5
<1>8. (\E D : all \in Seq(D)) /\ Len(all) = n /\ DOMAIN all = 1..n
  BY <1>7, MadeList, Zenon
<1>9. IsEntry(f)
  BY <1>3, <1>4, Zenon DEF IsEntry
<1>10. ASSUME NEW i \in 1..n PROVE IsEntry(all[i]) /\ all[i].born = ps[i].born
  <2>1. IsEntry(ss[i]) /\ ss[i].born = ps[i].born
    BY <1>1, Zenon DEF SeqsFit
  <2>2. CASE i = k
    BY <1>2, <1>4, <1>7, <1>9, <2>1, <2>2, Zenon
  <2>3. CASE i # k
    BY <1>7, <2>1, <2>3, Zenon
  <2> QED
    BY <2>2, <2>3
<1> QED
  BY <1>1, <1>6, <1>8, <1>10, Zenon DEF SeqsFit

\* A note is put after those that start with it or before it, or taken out.
LEMMA NotePutIn ==
    ASSUME NEW notes \in Seq(PlayNote), Sorted(notes), NEW note \in PlayNote
    PROVE  LET at == Cardinality({i \in DOMAIN notes : notes[i].start <= note.start}) + 1
           IN  InsertAt(notes, at, note) \in Seq(PlayNote) /\ Sorted(InsertAt(notes, at, note))
<1>1. PICK n \in Nat : n = Len(notes) /\ DOMAIN notes = 1..n /\ \A i \in 1..n : notes[i] \in PlayNote
  OBVIOUS
<1>2. (\A i \in 1..n : notes[i].start \in Nat) /\ note.start \in Nat
  BY <1>1, NoteTypes, Zenon
<1>3. PICK early : early = {i \in 1..n : notes[i].start <= note.start}
  OBVIOUS
<1>4. early \subseteq 1..n
  BY <1>3
<1>5. \A i \in early : \A j \in 1..i : j \in early
  <2>1. ASSUME NEW i \in early, NEW j \in 1..i PROVE j \in early
    <3>1. i \in 1..n /\ j \in 1..n /\ j <= i /\ notes[i].start <= note.start
      BY <1>3, <2>1
    <3>2. CASE j = i
      BY <3>2
    <3>3. CASE j < i
      <4>1. notes[j].start <= notes[i].start
        BY <1>1, <3>1, <3>3, Zenon DEF Sorted
      <4>2. notes[j].start <= note.start
        BY <1>2, <3>1, <4>1
      <4> QED
        BY <1>3, <3>1, <4>2
    <3> QED
      BY <3>1, <3>2, <3>3
  <2> QED
    BY <2>1
<1>6. PICK c \in 0..n : c = Cardinality(early) /\ early = 1..c
  BY <1>4, <1>5, FirstPlaces, Zenon
<1>7. PICK at \in Nat : at = c + 1
  OBVIOUS
<1>13. at = Cardinality({i \in DOMAIN notes : notes[i].start <= note.start}) + 1
  BY <1>1, <1>3, <1>6, <1>7, Zenon
<1>8. PICK list : list = InsertAt(notes, at, note)
  OBVIOUS
<1>9. at \in 1..Len(notes) + 1
  BY <1>1, <1>7
<1>10. list \in Seq(PlayNote) /\ DOMAIN list = 1..n + 1
       /\ \A i \in 1..n + 1 : list[i] = IF i < at THEN notes[i] ELSE IF i = at THEN note ELSE notes[i - 1]
  <2>1. /\ InsertAt(notes, at, note) \in Seq(PlayNote) /\ DOMAIN InsertAt(notes, at, note) = 1..Len(notes) + 1
        /\ \A i \in 1..Len(notes) + 1 :
              InsertAt(notes, at, note)[i] = IF i < at THEN notes[i] ELSE IF i = at THEN note ELSE notes[i - 1]
    BY <1>9, Inserted
  <2> QED
    BY <1>1, <1>8, <2>1, Zenon
<1>11. ASSUME NEW i \in 1..n + 1, NEW j \in 1..n + 1, i < j PROVE list[i].start <= list[j].start
  <2>1. \A k \in 1..n : k <= c => notes[k].start <= note.start
    BY <1>3, <1>6
  <2>2. \A k \in 1..n : k > c => note.start <= notes[k].start
    <3>1. ASSUME NEW k \in 1..n, k > c PROVE note.start <= notes[k].start
      <4>1. k \notin 1..c
        BY <1>6, <3>1
      <4>2. k \notin early
        BY <1>6, <4>1, Zenon
      <4> QED
        BY <1>2, <1>3, <4>2
    <3> QED
      BY <3>1
  <2>3. \A k, l \in 1..n : k < l => notes[k].start <= notes[l].start
    BY <1>1, Zenon DEF Sorted
  <2>4. CASE j < at
    <3>1. i \in 1..n /\ j \in 1..n /\ list[i] = notes[i] /\ list[j] = notes[j]
      BY <1>7, <1>10, <1>11, <2>4
    <3> QED
      BY <1>11, <2>3, <3>1, Zenon
  <2>5. CASE j = at
    <3>1. i \in 1..n /\ i <= c /\ i < at
      BY <1>7, <1>11, <2>5
    <3>2. list[i] = notes[i]
      BY <1>10, <3>1, Zenon
    <3>3. list[j] = note
      BY <1>7, <1>10, <2>5
    <3> QED
      BY <2>1, <3>1, <3>2, <3>3, Zenon
  <2>6. CASE j > at
    <3>1. PICK l \in 1..n : l = j - 1 /\ l > c /\ list[j] = notes[l]
      BY <1>7, <1>10, <1>11, <2>6
    <3>2. CASE i < at
      <4>1. i \in 1..n /\ i < l /\ list[i] = notes[i]
        BY <1>7, <1>10, <1>11, <3>1, <3>2
      <4> QED
        BY <2>3, <3>1, <4>1, Zenon
    <3>3. CASE i = at
      <4>1. list[i] = note
        BY <1>10, <3>3
      <4> QED
        BY <2>2, <3>1, <4>1, Zenon
    <3>4. CASE i > at
      <4>1. PICK k \in 1..n : k < l /\ list[i] = notes[k]
        <5>1. i - 1 \in 1..n /\ i - 1 < l /\ list[i] = notes[i - 1]
          BY <1>7, <1>10, <1>11, <3>1, <3>4
        <5> QED
          BY <5>1, Zenon
      <4> QED
        BY <2>3, <3>1, <4>1, Zenon
    <3> QED
      BY <1>7, <3>2, <3>3, <3>4
  <2> QED
    BY <1>7, <2>4, <2>5, <2>6
<1>12. Sorted(list)
  BY <1>10, <1>11, Zenon DEF Sorted
<1> QED
  BY <1>8, <1>10, <1>12, <1>13, Zenon

LEMMA NoteTakenOut ==
    ASSUME NEW notes \in Seq(PlayNote), Sorted(notes), NEW k \in DOMAIN notes
    PROVE  RemoveAt(notes, k) \in Seq(PlayNote) /\ Sorted(RemoveAt(notes, k))
<1>1. PICK n \in Nat : n = Len(notes) /\ DOMAIN notes = 1..n
  OBVIOUS
<1>2. PICK list : list = RemoveAt(notes, k)
  OBVIOUS
<1>3. list \in Seq(PlayNote) /\ DOMAIN list = 1..n - 1
      /\ \A i \in 1..n - 1 : list[i] = IF i < k THEN notes[i] ELSE notes[i + 1]
  BY <1>1, <1>2, Removed
<1>4. ASSUME NEW i \in 1..n - 1, NEW j \in 1..n - 1, i < j PROVE list[i].start <= list[j].start
  <2>1. PICK a \in 1..n, b \in 1..n : a < b /\ list[i] = notes[a] /\ list[j] = notes[b]
    <3>1. CASE j < k
      <4>1. i \in 1..n /\ j \in 1..n /\ list[i] = notes[i] /\ list[j] = notes[j]
        BY <1>1, <1>3, <1>4, <3>1
      <4> QED
        BY <1>4, <4>1, Zenon
    <3>2. CASE i < k /\ ~(j < k)
      <4>1. i \in 1..n /\ j + 1 \in 1..n /\ i < j + 1 /\ list[i] = notes[i] /\ list[j] = notes[j + 1]
        BY <1>1, <1>3, <1>4, <3>2
      <4> QED
        BY <4>1, Zenon
    <3>3. CASE ~(i < k)
      <4>1. i + 1 \in 1..n /\ j + 1 \in 1..n /\ i + 1 < j + 1 /\ list[i] = notes[i + 1] /\ list[j] = notes[j + 1]
        BY <1>1, <1>3, <1>4, <3>3
      <4> QED
        BY <4>1, Zenon
    <3> QED
      BY <3>1, <3>2, <3>3, Zenon
  <2> QED
    BY <1>1, <2>1, Zenon DEF Sorted
<1>5. Sorted(list)
  BY <1>3, <1>4, Zenon DEF Sorted
<1> QED
  BY <1>2, <1>3, <1>5, Zenon

\* resize_pattern
LEMMA ResizeFits ==
    ASSUME SongMade, SongFits, NEW i, NEW wanted \in Int, ResizePattern(i, wanted)
    PROVE  SongFits'
<1>1. PICK n \in Nat : n = Len(patterns) /\ DOMAIN patterns = 1..n /\ patterns = [k \in 1..n |-> patterns[k]]
  BY AnyList, Zenon DEF SongMade, ArePatterns
<1>2. PICK rows \in Nat \ {0} : rows = Clamp(wanted, 1, RowLimit)
  <2>1. RowLimit \in Int /\ 1 <= RowLimit
    BY SongAssumption
  <2> QED
    BY <2>1, ClampFacts
<1>3. i \in 1..n
  BY <1>1, Zenon DEF ResizePattern
<1>4. PICK p : p = patterns[i] /\ p = [id |-> p.id, born |-> p.born, rows |-> p.rows]
  BY <1>1, <1>3, Zenon DEF SongMade, ArePatterns, IsPattern
<1>5. PICK fitted : fitted = Fit(p.rows, rows)
  OBVIOUS
<1>6. PICK q : q = [id |-> p.id, born |-> p.born, rows |-> fitted]
  OBVIOUS
<1>7. q = [p EXCEPT !.rows = fitted] /\ q.id = p.id /\ q.born = p.born /\ q.rows = fitted
  BY <1>4, <1>6
<1>8. Len(fitted) = rows
  <2>1. fitted = [r \in 1..rows |-> IF r \in DOMAIN p.rows THEN p.rows[r] ELSE BlankRows(1)[1]]
    BY <1>5, Zenon DEF Fit
  <2>2. rows \in Nat /\ fitted = [r \in 1..rows |-> fitted[r]]
    BY <2>1
  <2> QED
    BY <2>2, MadeList, Zenon
<1>9. PICK all : all = [patterns EXCEPT ![i] = q]
  OBVIOUS
<1>10. patterns' = all
  <2>1. all = [patterns EXCEPT ![i].rows = Fit(@, rows)]
    BY <1>4, <1>5, <1>7, <1>9, Zenon
  <2> QED
    BY <1>2, <2>1, Zenon DEF ResizePattern
<1>11. all = [k \in 1..n |-> all[k]] /\ all[i] = q /\ \A k \in 1..n : k # i => all[k] = patterns[k]
  BY <1>1, <1>3, <1>9
<1>12. DOMAIN all = 1..n /\ Len(all) = n
  BY <1>11, MadeList, Zenon
<1>13. \A k \in 1..n : all[k].id = patterns[k].id /\ all[k].born = patterns[k].born
  BY <1>4, <1>7, <1>11, Zenon
<1>14. InPlace(all)
  BY <1>1, <1>12, <1>13, Zenon DEF SongFits, InPlace
<1>15. OrdersFit(orders', all)
  <2>1. orders' = orders
    BY Zenon DEF ResizePattern
  <2> QED
    BY <1>1, <1>12, <2>1, Zenon DEF SongFits, OrdersFit
<1>16. \A k \in DOMAIN seqs : k \in 1..n
  <2>1. PICK l \in Nat : l = Len(seqs) /\ DOMAIN seqs = 1..l
    BY AnyList, Zenon DEF SongFits, SeqsFit
  <2>2. l <= n
    BY <1>1, <2>1, Zenon DEF SongFits, SeqsFit
  <2> QED
    BY <2>1, <2>2
<1>17. SeqsFit(seqs, all)
  BY <1>1, <1>12, <1>13, <1>16, Zenon DEF SongFits, SeqsFit
<1>18. SeqsFit(seqs', all)
  <2>1. CASE i \in DOMAIN seqs
    <3>1. PICK ticks \in Int : ticks = rows * AtLeast(1, speed)
      <4>1. PICK v \in Int : v = AtLeast(1, speed)
        BY AtLeastFacts DEF SongMade
      <4> QED
        BY <4>1
    <3>2. PICK notes : notes = seqs[i].notes /\ notes \in Seq(PlayNote) /\ Sorted(notes)
      BY <1>17, <2>1, Zenon DEF SeqsFit, IsEntry
    <3>3. PICK left : left = Trimmed(notes, ticks) /\ left \in Seq(PlayNote) /\ Sorted(left)
      BY <3>2, TrimmedFacts, Zenon
    <3>4. seqs' = [seqs EXCEPT ![i].notes = left]
      BY <1>2, <2>1, <3>1, <3>2, <3>3, Zenon DEF ResizePattern
    <3> QED
      BY <1>17, <2>1, <3>3, <3>4, NotesPut, Zenon
  <2>2. CASE i \notin DOMAIN seqs
    <3>1. seqs' = seqs
      BY <2>2, Zenon DEF ResizePattern
    <3> QED
      BY <1>17, <3>1, Zenon
  <2> QED
    BY <2>1, <2>2
<1>19. FxsFit(fxs', all)
  <2>1. PICK l \in Nat : l = Len(fxs) /\ DOMAIN fxs = 1..l /\ fxs = [k \in 1..l |-> fxs[k]]
    BY AnyList, Zenon DEF SongFits, FxsFit
  <2>2. l <= n /\ \A k \in 1..l : fxs[k] = [born |-> patterns[k].born, rows |-> Len(patterns[k].rows)]
    BY <1>1, <2>1, Zenon DEF SongFits, FxsFit
  <2>3. \A k \in 1..l : k \in 1..n
    BY <2>2
  <2>4. fxs' = IF i \in DOMAIN fxs THEN [fxs EXCEPT ![i].rows = rows] ELSE fxs
    BY <1>2, Zenon DEF ResizePattern
  <2>5. fxs' = [k \in 1..l |-> fxs'[k]]
    BY <2>1, <2>4
  <2>6. (\E D : fxs' \in Seq(D)) /\ Len(fxs') = l /\ DOMAIN fxs' = 1..l
    <3>1. PICK list : list = fxs'
      OBVIOUS
    <3> QED
      BY <2>5, <3>1, MadeList, Zenon
  <2>7. ASSUME NEW k \in 1..l PROVE fxs'[k] = [born |-> all[k].born, rows |-> Len(all[k].rows)]
    <3>1. CASE k = i
      <4>1. PICK b, m : b = patterns[i].born /\ m = Len(patterns[i].rows)
        OBVIOUS
      <4>2. fxs[i] = [born |-> b, rows |-> m]
        BY <2>2, <2>7, <3>1, <4>1, Zenon
      <4>3. fxs'[i] = [born |-> b, rows |-> rows]
        BY <2>1, <2>4, <2>7, <3>1, <4>2
      <4> QED
        BY <1>4, <1>7, <1>8, <1>11, <3>1, <4>1, <4>3, Zenon
    <3>2. CASE k # i
      <4>1. fxs'[k] = fxs[k]
        BY <2>1, <2>4, <2>7, <3>2
      <4> QED
        BY <1>11, <2>2, <2>3, <2>7, <3>2, <4>1, Zenon
    <3> QED
      BY <3>1, <3>2
  <2> QED
    BY <1>12, <2>2, <2>6, <2>7, Zenon DEF FxsFit
<1> QED
  BY <1>10, <1>14, <1>15, <1>18, <1>19, Zenon DEF SongFits

\* The edits of the order list.
LEMMA OrdersMade ==
    ASSUME NEW ps, ArePatterns(ps), NEW list \in Seq(Int), list # <<>>, \A i \in DOMAIN list : list[i] + 1 \in DOMAIN ps
    PROVE  OrdersFit(list, ps)
<1>1. PICK n \in Nat : n = Len(ps) /\ DOMAIN ps = 1..n
  BY AnyList, Zenon DEF ArePatterns
<1>2. PICK ids : ids = 0..n - 1
  OBVIOUS
<1>3. ASSUME NEW i \in DOMAIN list PROVE list[i] \in ids
  <2>1. list[i] \in Int /\ list[i] + 1 \in 1..n
    BY <1>1
  <2> QED
    BY <1>2, <2>1
<1>4. list \in Seq(ids)
  BY <1>3
<1> QED
  BY <1>1, <1>2, <1>4, Zenon DEF OrdersFit

LEMMA OrdersRead ==
    ASSUME NEW ps, ArePatterns(ps), NEW list, OrdersFit(list, ps)
    PROVE  list \in Seq(Int) /\ list # <<>> /\ \A i \in DOMAIN list : list[i] + 1 \in DOMAIN ps
<1>1. PICK n \in Nat : n = Len(ps) /\ DOMAIN ps = 1..n
  BY AnyList, Zenon DEF ArePatterns
<1>2. PICK ids : ids = 0..n - 1
  OBVIOUS
<1>3. list \in Seq(ids) /\ list # <<>>
  BY <1>1, <1>2, Zenon DEF OrdersFit
<1>4. \A x \in ids : x \in Int /\ x + 1 \in 1..n
  BY <1>2
<1>5. \A i \in DOMAIN list : list[i] \in ids
  BY <1>3
<1>6. list \in Seq(Int)
  BY <1>3, <1>4
<1> QED
  BY <1>1, <1>3, <1>4, <1>5, <1>6, Zenon

LEMMA OrdersFitNew == ASSUME SongFits, NEW list, OrdersFit(list, patterns), NewOrders(list) PROVE SongFits'
BY Zenon DEF SongFits, NewOrders

LEMMA OrderEditsFit ==
    ASSUME SongMade, SongFits, NEW at \in Int, NEW x \in Int,
           OrderInsert(at, x) \/ OrderRemove(at) \/ OrderMove(at, x) \/ OrderSet(at, x)
    PROVE  SongFits'
<1>1. ArePatterns(patterns) /\ orders \in Seq(Int) /\ orders # <<>> /\ \A i \in DOMAIN orders : orders[i] + 1 \in DOMAIN patterns
  BY OrdersRead, Zenon DEF SongMade, SongFits
<1>2. PICK n \in Nat : n = Len(orders) /\ DOMAIN orders = 1..n
  BY <1>1
<1>7. PICK I : I = Int
  OBVIOUS
<1>8. orders \in Seq(I) /\ x \in I
  BY <1>1, <1>7, Zenon
<1>3. CASE OrderInsert(at, x)
  <2>1. PICK i \in 1..n + 1 : i = Clamp(at, 0, n) + 1
    <3>1. Clamp(at, 0, n) \in 0..n
      BY InBounds
    <3> QED
      BY <3>1
  <2>2. PICK list : list = InsertAt(orders, i, x)
    OBVIOUS
  <2>3. /\ list \in Seq(Int) /\ DOMAIN list = 1..n + 1
        /\ \A k \in 1..n + 1 : list[k] = IF k < i THEN orders[k] ELSE IF k = i THEN x ELSE orders[k - 1]
    <3>1. i \in 1..Len(orders) + 1
      BY <1>2
    <3>2. /\ InsertAt(orders, i, x) \in Seq(I) /\ DOMAIN InsertAt(orders, i, x) = 1..Len(orders) + 1
          /\ \A k \in 1..Len(orders) + 1 :
                InsertAt(orders, i, x)[k] = IF k < i THEN orders[k] ELSE IF k = i THEN x ELSE orders[k - 1]
      BY <1>8, <3>1, Inserted
    <3> QED
      BY <1>2, <1>7, <2>2, <3>2, Zenon
  <2>4. x + 1 \in DOMAIN patterns /\ NewOrders(list)
    BY <1>2, <1>3, <2>1, <2>2, Zenon DEF OrderInsert
  <2>5. ASSUME NEW k \in 1..n + 1 PROVE list[k] = x \/ \E j \in 1..n : list[k] = orders[j]
    <3>1. CASE k < i
      BY <2>3, <3>1
    <3>2. CASE k = i
      BY <2>3, <3>2
    <3>3. CASE k > i
      <4>1. k - 1 \in 1..n /\ list[k] = orders[k - 1]
        BY <2>3, <3>3
      <4> QED
        BY <4>1, Zenon
    <3> QED
      BY <3>1, <3>2, <3>3
  <2>6. \A k \in DOMAIN list : list[k] + 1 \in DOMAIN patterns
    <3>1. ASSUME NEW k \in 1..n + 1 PROVE list[k] + 1 \in DOMAIN patterns
      <4>1. CASE list[k] = x
        BY <2>4, <4>1, Zenon
      <4>2. ASSUME NEW j \in 1..n, list[k] = orders[j] PROVE list[k] + 1 \in DOMAIN patterns
        BY <1>1, <1>2, <4>2, Zenon
      <4> QED
        BY <2>5, <4>1, <4>2, Zenon
    <3> QED
      BY <2>3, <3>1, Zenon
  <2>7. list # <<>>
    BY <2>3
  <2> QED
    BY <1>1, <2>3, <2>4, <2>6, <2>7, OrdersMade, OrdersFitNew, Zenon
<1>4. CASE OrderRemove(at)
  <2>1. PICK i \in 1..n : i = at + 1 /\ n > 1
    BY <1>2, <1>4 DEF OrderRemove
  <2>2. PICK list : list = RemoveAt(orders, i)
    OBVIOUS
  <2>3. list \in Seq(Int) /\ DOMAIN list = 1..n - 1 /\ \A k \in 1..n - 1 : list[k] = IF k < i THEN orders[k] ELSE orders[k + 1]
    <3>1. /\ RemoveAt(orders, i) \in Seq(I) /\ DOMAIN RemoveAt(orders, i) = 1..Len(orders) - 1
          /\ \A k \in 1..Len(orders) - 1 : RemoveAt(orders, i)[k] = IF k < i THEN orders[k] ELSE orders[k + 1]
      <4>1. i \in DOMAIN orders
        BY <1>2, Zenon
      <4> QED
        BY <1>8, <4>1, Removed, Zenon
    <3> QED
      BY <1>2, <1>7, <2>2, <3>1, Zenon
  <2>4. NewOrders(list)
    BY <1>4, <2>1, <2>2, Zenon DEF OrderRemove
  <2>5. ASSUME NEW k \in 1..n - 1 PROVE \E j \in 1..n : list[k] = orders[j]
    <3>1. k \in 1..n /\ k + 1 \in 1..n /\ (list[k] = orders[k] \/ list[k] = orders[k + 1])
      BY <2>3
    <3> QED
      BY <3>1, Zenon
  <2>6. \A k \in DOMAIN list : list[k] + 1 \in DOMAIN patterns
    BY <1>1, <1>2, <2>3, <2>5, Zenon
  <2>7. list # <<>>
    BY <2>1, <2>3
  <2> QED
    BY <1>1, <2>3, <2>4, <2>6, <2>7, OrdersMade, OrdersFitNew, Zenon
<1>5. CASE OrderMove(at, x)
  <2>1. PICK i \in 1..n, j \in 1..n : i = at + 1 /\ j = i + x
    BY <1>2, <1>5 DEF OrderMove
  <2>2. PICK list : list = [orders EXCEPT ![i] = orders[j], ![j] = orders[i]]
    OBVIOUS
  <2>3. list \in Seq(Int) /\ DOMAIN list = 1..n /\ list # <<>>
    BY <1>1, <1>2, <2>2
  <2>4. NewOrders(list)
    BY <1>5, <2>1, <2>2, Zenon DEF OrderMove
  <2>5. ASSUME NEW k \in 1..n PROVE \E l \in 1..n : list[k] = orders[l]
    BY <1>1, <1>2, <2>2
  <2>6. \A k \in DOMAIN list : list[k] + 1 \in DOMAIN patterns
    BY <1>1, <1>2, <2>3, <2>5, Zenon
  <2> QED
    BY <1>1, <2>3, <2>4, <2>6, OrdersMade, OrdersFitNew, Zenon
<1>6. CASE OrderSet(at, x)
  <2>1. PICK i \in 1..n : i = at + 1
    BY <1>2, <1>6 DEF OrderSet
  <2>2. PICK list : list = [orders EXCEPT ![i] = x]
    OBVIOUS
  <2>3. list \in Seq(Int) /\ DOMAIN list = 1..n /\ list # <<>> /\ \A k \in 1..n : list[k] = x \/ list[k] = orders[k]
    BY <1>1, <1>2, <2>2
  <2>4. x + 1 \in DOMAIN patterns /\ NewOrders(list)
    BY <1>6, <2>1, <2>2, Zenon DEF OrderSet
  <2>5. \A k \in DOMAIN list : list[k] + 1 \in DOMAIN patterns
    BY <1>1, <1>2, <2>3, <2>4, Zenon
  <2> QED
    BY <1>1, <2>3, <2>4, <2>5, OrdersMade, OrdersFitNew, Zenon
<1> QED
  BY <1>3, <1>4, <1>5, <1>6

LEMMA OrderListFits ==
    ASSUME SongMade, SongFits, NEW list \in Seq(Int), SetOrderList(list)
    PROVE  SongFits'
BY OrdersMade, OrdersFitNew, Zenon DEF SongMade, SetOrderList

\* The edits of a sequence layer.
LEMMA SeqsFitNew ==
    ASSUME SongFits, SeqsFit(seqs', patterns), UNCHANGED <<patterns, fxs, orders>>
    PROVE  SongFits'
BY Zenon DEF SongFits

LEMMA ReplaceFits ==
    ASSUME SongMade, SongFits, NEW k, NEW notes \in Seq(PlayNote), ReplaceNotes(k, notes)
    PROVE  SongFits'
<1>1. k \in DOMAIN patterns /\ UNCHANGED <<patterns, fxs, orders>>
  BY Zenon DEF ReplaceNotes
<1>2. PICK list, all : list = InTime(notes) /\ all = Grown(k)
  OBVIOUS
<1>3. list \in Seq(PlayNote) /\ Sorted(list)
  BY <1>2, InTimeFacts, Zenon
<1>4. SeqsFit(all, patterns) /\ k \in DOMAIN all
  BY <1>1, <1>2, GrownFacts, Zenon DEF SongMade, SongFits
<1>5. seqs' = [all EXCEPT ![k].notes = list]
  BY <1>2, Zenon DEF ReplaceNotes
<1>6. SeqsFit(seqs', patterns)
  BY <1>3, <1>4, <1>5, NotesPut, Zenon
<1> QED
  BY <1>1, <1>6, SeqsFitNew, Zenon

LEMMA AddFits ==
    ASSUME SongMade, SongFits, NEW k, NEW note \in PlayNote, AddNote(k, note)
    PROVE  SongFits'
<1>1. k \in DOMAIN patterns /\ UNCHANGED <<patterns, fxs, orders>>
  BY Zenon DEF AddNote
<1>2. PICK all, notes : all = Grown(k) /\ notes = all[k].notes
  OBVIOUS
<1>3. SeqsFit(all, patterns) /\ k \in DOMAIN all
  BY <1>1, <1>2, GrownFacts, Zenon DEF SongMade, SongFits
<1>4. notes \in Seq(PlayNote) /\ Sorted(notes)
  BY <1>2, <1>3, Zenon DEF SeqsFit, IsEntry
<1>5. PICK list : list = InsertAt(notes, Cardinality({i \in DOMAIN notes : notes[i].start <= note.start}) + 1, note)
  OBVIOUS
<1>6. list \in Seq(PlayNote) /\ Sorted(list)
  BY <1>4, <1>5, NotePutIn, Zenon
<1>7. seqs' = [all EXCEPT ![k].notes = list]
  BY <1>2, <1>5, Zenon DEF AddNote
<1>8. SeqsFit(seqs', patterns)
  BY <1>3, <1>6, <1>7, NotesPut, Zenon
<1> QED
  BY <1>1, <1>8, SeqsFitNew, Zenon

LEMMA RemoveNoteFits ==
    ASSUME SongFits, NEW k, NEW i, RemoveNote(k, i)
    PROVE  SongFits'
<1>1. k \in DOMAIN seqs /\ SeqsFit(seqs, patterns) /\ UNCHANGED <<patterns, fxs, orders>>
  BY Zenon DEF RemoveNote, SongFits
<1>2. PICK notes : notes = seqs[k].notes /\ notes \in Seq(PlayNote) /\ Sorted(notes) /\ i \in DOMAIN notes
  BY <1>1, Zenon DEF RemoveNote, SeqsFit, IsEntry
<1>3. PICK list : list = RemoveAt(notes, i) /\ list \in Seq(PlayNote) /\ Sorted(list)
  BY <1>2, NoteTakenOut, Zenon
<1>4. seqs' = [seqs EXCEPT ![k].notes = list]
  BY <1>2, <1>3, Zenon DEF RemoveNote
<1>5. SeqsFit(seqs', patterns)
  BY <1>1, <1>3, <1>4, NotesPut, Zenon
<1> QED
  BY <1>1, <1>5, SeqsFitNew, Zenon

LEMMA UseToolFits ==
    ASSUME SongMade, SongFits, NEW k, UseTool(k)
    PROVE  SongFits'
<1>1. PICK notes : notes = seqs[k].notes /\ notes \in Seq(PlayNote) /\ notes # <<>>
  BY Zenon DEF UseTool, SongFits, SeqsFit, IsEntry
<1>2. PICK list \in Tools(notes) : ReplaceNotes(k, list)
  BY <1>1, Zenon DEF UseTool
<1>3. list \in Seq(PlayNote)
  BY <1>1, ToolsFacts, Zenon DEF SongMade
<1> QED
  BY <1>2, <1>3, ReplaceFits, Zenon

LEMMA LayerFits ==
    ASSUME SongMade, SongFits, NEW k, SetLayerInstrument(k)
    PROVE  SongFits'
<1>1. k \in DOMAIN patterns /\ seqs' = Grown(k) /\ UNCHANGED <<patterns, fxs, orders>>
  BY Zenon DEF SetLayerInstrument
<1>2. SeqsFit(seqs', patterns)
  BY <1>1, GrownFacts, Zenon DEF SongMade, SongFits
<1> QED
  BY <1>1, <1>2, SeqsFitNew, Zenon

\* A song that is read.
LEMMA SongRead ==
    ASSUME NEW s \in Songs, NEW borns, NEW ps, NEW fs,
           ps = [p \in DOMAIN s.patterns |-> [id |-> p - 1, born |-> borns[p], rows |-> s.patterns[p]]],
           fs = [p \in DOMAIN s.fxs |-> [born |-> borns[p], rows |-> s.fxs[p]]]
    PROVE  InPlace(ps) /\ OrdersFit(s.orders, ps) /\ SeqsFit(<<>>, ps) /\ FxsFit(fs, ps)
<1>1. PICK Rows, list, lengths, os :
          /\ Rows = Seq([1..SongChannels -> [note : Nat, ins : Nat, vol : Nat, fx : Nat]])
          /\ list = s.patterns /\ lengths = s.fxs /\ os = s.orders
  OBVIOUS
<1>2. /\ list \in Seq(Rows) /\ lengths \in Seq(Nat) /\ Len(lengths) <= Len(list)
      /\ \A k \in DOMAIN lengths : lengths[k] = Len(list[k])
      /\ os \in Seq(Nat) /\ os # <<>> /\ \A i \in DOMAIN os : os[i] + 1 \in DOMAIN list
  BY <1>1, SongAssumption, Zenon
<1>3. PICK n \in Nat, m \in Nat : n = Len(list) /\ DOMAIN list = 1..n /\ m = Len(lengths) /\ DOMAIN lengths = 1..m /\ m <= n
  BY <1>2
<1>4. ps = [p \in 1..n |-> ps[p]] /\ \A p \in 1..n : ps[p].id = p - 1 /\ ps[p].born = borns[p] /\ ps[p].rows = list[p]
  BY <1>1, <1>3
<1>5. DOMAIN ps = 1..n /\ Len(ps) = n
  BY <1>4, MadeList, Zenon
<1>6. fs = [p \in 1..m |-> fs[p]] /\ \A p \in 1..m : fs[p] = [born |-> borns[p], rows |-> lengths[p]]
  BY <1>1, <1>3
<1>7. (\E D : fs \in Seq(D)) /\ Len(fs) = m /\ DOMAIN fs = 1..m
  BY <1>6, MadeList, Zenon
<1>8. InPlace(ps)
  BY <1>4, <1>5, Zenon DEF InPlace
<1>9. OrdersFit(os, ps)
  <2>1. PICK ids : ids = 0..n - 1
    OBVIOUS
  <2>2. ASSUME NEW i \in DOMAIN os PROVE os[i] \in ids
    <3>1. os[i] \in Nat /\ os[i] + 1 \in 1..n
      BY <1>2, <1>3
    <3> QED
      BY <2>1, <3>1
  <2>3. os \in Seq(ids)
    BY <1>2, <2>2
  <2> QED
    BY <1>2, <1>5, <2>1, <2>3, Zenon DEF OrdersFit
<1>10. SeqsFit(<<>>, ps)
  <2>1. <<>> \in Seq({}) /\ Len(<<>>) <= n /\ DOMAIN <<>> = {}
    OBVIOUS
  <2> QED
    BY <1>5, <2>1, Zenon DEF SeqsFit
<1>11. FxsFit(fs, ps)
  <2>1. \A p \in 1..m : p \in 1..n
    BY <1>3
  <2>2. ASSUME NEW p \in 1..m PROVE fs[p] = [born |-> ps[p].born, rows |-> Len(ps[p].rows)]
    <3>1. fs[p] = [born |-> borns[p], rows |-> lengths[p]]
      BY <1>6, Zenon
    <3>2. ps[p].born = borns[p] /\ ps[p].rows = list[p]
      BY <1>4, <2>1, Zenon
    <3>3. lengths[p] = Len(list[p])
      BY <1>2, <1>3, Zenon
    <3> QED
      BY <3>1, <3>2, <3>3, Zenon
  <2> QED
    BY <1>3, <1>5, <1>7, <2>2, Zenon DEF FxsFit
<1> QED
  BY <1>1, <1>8, <1>9, <1>10, <1>11, Zenon

LEMMA OpenFits == ASSUME NEW s \in Songs, OpenSong(s) PROVE SongFits'
<1>1. PICK borns : borns = [p \in DOMAIN s.patterns |-> made + p]
  OBVIOUS
<1>2. PICK ps, fs : ps = patterns' /\ fs = fxs'
  OBVIOUS
<1>3. ps = [p \in DOMAIN s.patterns |-> [id |-> p - 1, born |-> borns[p], rows |-> s.patterns[p]]]
  BY <1>1, <1>2 DEF OpenSong
<1>4. fs = [p \in DOMAIN s.fxs |-> [born |-> borns[p], rows |-> s.fxs[p]]]
  <2>1. fs = [p \in DOMAIN s.fxs |-> [born |-> made + p, rows |-> s.fxs[p]]]
    BY <1>2, Zenon DEF OpenSong
  <2>2. \A p \in DOMAIN s.fxs : p \in DOMAIN s.patterns
    BY SongAssumption
  <2> QED
    BY <1>1, <2>1, <2>2
<1>5. orders' = s.orders /\ seqs' = <<>>
  BY Zenon DEF OpenSong
<1>6. InPlace(ps) /\ OrdersFit(s.orders, ps) /\ SeqsFit(<<>>, ps) /\ FxsFit(fs, ps)
  BY <1>3, <1>4, SongRead, Zenon
<1> QED
  BY <1>2, <1>5, <1>6, Zenon DEF SongFits

LEMMA StartFits == ASSUME SongInit PROVE SongFits
<1>1. PICK s \in Songs :
          /\ patterns = [p \in DOMAIN s.patterns |-> [id |-> p - 1, born |-> p, rows |-> s.patterns[p]]]
          /\ fxs = [p \in DOMAIN s.fxs |-> [born |-> p, rows |-> s.fxs[p]]] /\ orders = s.orders
  BY Zenon DEF SongInit
<1>2. PICK borns : borns = [p \in DOMAIN s.patterns |-> p]
  OBVIOUS
<1>3. patterns = [p \in DOMAIN s.patterns |-> [id |-> p - 1, born |-> borns[p], rows |-> s.patterns[p]]]
  BY <1>1, <1>2
<1>4. fxs = [p \in DOMAIN s.fxs |-> [born |-> borns[p], rows |-> s.fxs[p]]]
  <2>1. \A p \in DOMAIN s.fxs : p \in DOMAIN s.patterns
    BY SongAssumption
  <2> QED
    BY <1>1, <1>2, <2>1
<1>5. seqs = <<>>
  BY Zenon DEF SongInit
<1> QED
  BY <1>1, <1>3, <1>4, <1>5, SongRead, ZenonT(60) DEF SongFits

-----------------------------------------------------------------------------
(* The edits of a block.                                                   *)

History == INSTANCE HistoryLemmas
              WITH Links <- EditLinks, Shows <- SongShows, Back <- Unwrite, Forth <- Rewrite
Finding == INSTANCE HistoryLemmas
              WITH Links <- EditLinks, Shows <- FoundShows, Back <- Unwind, Forth <- Unwind

\* The cells of a list of edits, entered one after another.
PutAll(ps, list) == FoldLeft(LAMBDA all, e : Put(all, e.at, e.after), ps, list)
PutStep(ctx, ps, e) == Put(ps, e.at, e.after)
Anything(ctx, done, ps) == TRUE
Putting == INSTANCE FoldLemmas WITH Step <- PutStep, Holds <- Anything

\* One more cell is put after all those before it.
LEMMA PutsOneMore ==
    ASSUME NEW ps, NEW D, NEW list \in Seq(D), NEW e
    PROVE  PutAll(ps, <<>>) = ps /\ PutAll(ps, Append(list, e)) = Put(PutAll(ps, list), e.at, e.after)
<1>1. ASSUME NEW some PROVE PutAll(ps, some) = Putting!Fold(0, ps, some)
  BY ZenonT(240) DEF PutAll, Putting!Fold, PutStep, FoldLeft, MapThenFoldSet, Putting!FoldLeft, Putting!MapThenFoldSet,
                     Max, Putting!Max
<1>2. /\ Putting!Fold(0, ps, <<>>) = ps
      /\ Putting!Fold(0, ps, Append(list, e)) = PutStep(0, Putting!Fold(0, ps, list), e)
  BY Putting!FoldGrows
<1> QED
  BY <1>1, <1>2, Zenon DEF PutStep

\* The edits made so far of a list of places lead from the scene ctx[1] to one where what has
\* not been reached is as it was.
EditStep(ctx, all, at) ==
    IF at \in DOMAIN ctx[2] /\ ctx[2][at] # CellOf(ctx[1].patterns, at)
    THEN Append(all, CellEdit(at, CellOf(ctx[1].patterns, at), ctx[2][at])) ELSE all
PlaceEdits(ps, cells, value) ==
    FoldLeft(LAMBDA all, at : IF at \in DOMAIN value /\ value[at] # CellOf(ps, at)
                              THEN Append(all, CellEdit(at, CellOf(ps, at), value[at])) ELSE all,
             <<>>, cells)
Reached(s, done, all, t) ==
    /\ History!Path(all, s, t) /\ IsScene(t) /\ t.sample = s.sample /\ t.speed = s.speed
    /\ t.patterns = PutAll(s.patterns, all)
    /\ \A at : Inside(t.patterns, at) <=> Inside(s.patterns, at)
    /\ \A at : Inside(s.patterns, at) /\ (\A i \in 1..Len(done) : ~SamePlace(at, done[i]))
                   => CellOf(t.patterns, at) = CellOf(s.patterns, at)
EditsSoFar(ctx, done, all) == Distinct(done) => \E t : Reached(ctx[1], done, all, t)
Editing == INSTANCE FoldLemmas WITH Step <- EditStep, Holds <- EditsSoFar

\* One place more.
LEMMA ReachesOneMore ==
    ASSUME NEW s, IsScene(s), NEW value, \A at \in DOMAIN value : Inside(s.patterns, at),
           NEW D, NEW done \in Seq(D), NEW x \in D, Distinct(Append(done, x)),
           NEW all, NEW t, Reached(s, done, all, t)
    PROVE  \E u : Reached(s, Append(done, x), EditStep(<<s, value>>, all, x), u)
<1>1. PICK n \in Nat : n = Len(done)
  OBVIOUS
<1>2. PICK more : more = Append(done, x)
  OBVIOUS
<1>3. Len(more) = n + 1 /\ more[n + 1] = x /\ \A i \in 1..n : more[i] = done[i]
  BY <1>1, <1>2
<1>4. \A i \in 1..n : ~SamePlace(x, done[i])
  <2>1. ASSUME NEW i \in 1..n PROVE ~SamePlace(more[n + 1], more[i])
    <3>1. n + 1 \in 1..Len(more) /\ i \in 1..Len(more) /\ n + 1 # i
      BY <1>1, <1>3
    <3> QED
      BY <1>2, <3>1, Zenon DEF Distinct
  <2> QED
    BY <1>3, <2>1, Zenon
<1>5. ASSUME NEW at, \A i \in 1..Len(more) : ~SamePlace(at, more[i])
      PROVE  ~SamePlace(at, x) /\ \A i \in 1..Len(done) : ~SamePlace(at, done[i])
  <2>1. n + 1 \in 1..Len(more) /\ \A i \in 1..n : i \in 1..Len(more)
    BY <1>1, <1>3
  <2> QED
    BY <1>1, <1>3, <1>5, <2>1, Zenon
<1>6. PICK ctx : ctx = <<s, value>>
  OBVIOUS
<1>7. ctx[1] = s /\ ctx[2] = value
  BY <1>6
<1>8. CASE ~(x \in DOMAIN value /\ value[x] # CellOf(s.patterns, x))
  <2>1. EditStep(ctx, all, x) = all
    BY <1>7, <1>8, Zenon DEF EditStep
  <2>2. Reached(s, more, all, t)
    BY <1>5, Zenon DEF Reached
  <2> QED
    BY <1>2, <1>6, <2>1, <2>2, Zenon
<1>9. CASE x \in DOMAIN value /\ value[x] # CellOf(s.patterns, x)
  <2>1. PICK e : e = CellEdit(x, CellOf(s.patterns, x), value[x])
    OBVIOUS
  <2>2. e.what = "cell" /\ e.at = x /\ e.before = CellOf(s.patterns, x) /\ e.after = value[x]
    BY <2>1 DEF CellEdit
  <2>3. EditStep(ctx, all, x) = Append(all, e)
    BY <1>7, <1>9, <2>1, Zenon DEF EditStep
  <2>4. Inside(s.patterns, x) /\ Inside(t.patterns, x) /\ CellOf(t.patterns, x) = CellOf(s.patterns, x)
    BY <1>1, <1>4, <1>9, Zenon DEF Reached
  <2>5. PICK u : u = [patterns |-> Put(t.patterns, x, value[x]), sample |-> t.sample, speed |-> t.speed]
    OBVIOUS
  <2>6. u.patterns = Put(t.patterns, x, value[x]) /\ u.sample = t.sample /\ u.speed = t.speed
    BY <2>5
  <2>7. IsScene(t) /\ ArePatterns(t.patterns) /\ IsSample(t.sample)
    BY Zenon DEF Reached, IsScene
  <2>8. /\ ArePatterns(u.patterns)
        /\ \A b : Inside(u.patterns, b) <=> Inside(t.patterns, b)
        /\ \A b : Inside(t.patterns, b) /\ ~SamePlace(b, x) => CellOf(u.patterns, b) = CellOf(t.patterns, b)
    BY <2>4, <2>6, <2>7, PutFacts
  <2>9. IsScene(u)
    BY <2>5, <2>6, <2>7, <2>8 DEF IsScene
  <2>10. EditLinks(e, t, u)
    BY <2>2, <2>4, <2>6, <2>7, <2>9, Zenon DEF EditLinks, CellLinks
  <2>11. History!Path(all, s, t)
    BY Zenon DEF Reached
  <2>12. History!Path(Append(all, e), s, u)
    BY <2>10, <2>11, HistoryAssumption, History!PathGoesOn
  <2>13. PICK E : all \in Seq(E)
    BY <2>11, Zenon DEF History!Path
  <2>14. u.patterns = PutAll(s.patterns, Append(all, e))
    <3>1. PutAll(s.patterns, Append(all, e)) = Put(PutAll(s.patterns, all), e.at, e.after)
      BY <2>13, PutsOneMore
    <3> QED
      BY <2>2, <2>6, <3>1, Zenon DEF Reached
  <2>15. u.sample = s.sample /\ u.speed = s.speed
    BY <2>6, Zenon DEF Reached
  <2>16. \A at : Inside(u.patterns, at) <=> Inside(s.patterns, at)
    BY <2>8, Zenon DEF Reached
  <2>17. ASSUME NEW at, Inside(s.patterns, at), \A i \in 1..Len(more) : ~SamePlace(at, more[i])
         PROVE  CellOf(u.patterns, at) = CellOf(s.patterns, at)
    <3>1. ~SamePlace(at, x) /\ \A i \in 1..Len(done) : ~SamePlace(at, done[i])
      BY <1>5, <2>17
    <3>2. Inside(t.patterns, at) /\ CellOf(t.patterns, at) = CellOf(s.patterns, at)
      BY <2>17, <3>1, Zenon DEF Reached
    <3> QED
      BY <2>8, <3>1, <3>2, Zenon
  <2>18. Reached(s, more, Append(all, e), u)
    BY <2>9, <2>12, <2>14, <2>15, <2>16, <2>17, Zenon DEF Reached
  <2> QED
    BY <1>2, <1>6, <2>3, <2>18, Zenon
<1> QED
  BY <1>8, <1>9

\* Whatever is on the way, the patterns are the same ones.
LEMMA PathIsAlike ==
    ASSUME NEW list, NEW s, NEW t, History!Path(list, s, t), IsScene(s)
    PROVE  Alike(s.patterns, t.patterns)
<1>1. PICK D, S : list \in Seq(D) /\ S[0] = s /\ S[Len(list)] = t /\ History!Trail(list, S)
  BY Zenon DEF History!Path
<1>2. PICK n \in Nat : n = Len(list)
  BY <1>1
<1> DEFINE T == {i \in Nat : i <= n /\ ~Alike(s.patterns, S[i].patterns)}
<1>3. T = {}
  <2>1. SUFFICES ASSUME T # {} PROVE FALSE
    OBVIOUS
  <2>2. PICK i \in T : \A j \in T : i <= j
    BY <2>1, Putting!LeastElement
  <2>3. Alike(s.patterns, S[0].patterns)
    BY <1>1, Zenon DEF Alike
  <2>4. i - 1 \in Nat /\ i - 1 \notin T /\ i - 1 <= n /\ i \in 1..n
    <3>1. i # 0
      BY <2>2, <2>3
    <3> QED
      BY <2>2, <3>1
  <2>5. EditLinks(list[i], S[i - 1], S[i])
    BY <1>1, <1>2, <2>4, Zenon DEF History!Trail
  <2>6. Alike(S[i - 1].patterns, S[i].patterns)
    <3>1. IsScene(S[i - 1])
      BY <2>5, Zenon DEF EditLinks
    <3>2. CASE CellLinks(list[i], S[i - 1], S[i])
      <4>1. ArePatterns(S[i - 1].patterns) /\ Inside(S[i - 1].patterns, list[i].at)
        BY <3>1, <3>2, Zenon DEF CellLinks, IsScene
      <4>2. Alike(S[i - 1].patterns, Put(S[i - 1].patterns, list[i].at, list[i].after))
        BY <4>1, PutFacts
      <4> QED
        BY <3>2, <4>2, Zenon DEF CellLinks
    <3>3. CASE S[i].patterns = S[i - 1].patterns
      BY <3>3, Zenon DEF Alike
    <3> QED
      BY <2>5, <3>2, <3>3, Zenon DEF EditLinks, SoundLinks, SpeedLinks
  <2>7. Alike(s.patterns, S[i].patterns)
    BY <2>4, <2>6, Zenon DEF Alike
  <2> QED
    BY <2>2, <2>7
<1>4. n \notin T
  BY <1>3
<1> QED
  BY <1>1, <1>2, <1>4

\* The scene of a state, for some speed the history goes by.
HereAt(v) == [patterns |-> patterns, sample |-> sample, speed |-> v]

\* The edits of a list of places lead from here to where their cells are entered.
LEMMA CellEditsLead ==
    ASSUME NEW v, IsScene(HereAt(v)), NEW D, NEW cells \in Seq(D), Distinct(cells),
           NEW value, \A at \in DOMAIN value : Inside(patterns, at)
    PROVE  LET t == [patterns |-> PutAll(patterns, CellEdits(cells, value)), sample |-> sample, speed |-> v]
           IN  IsScene(t) /\ History!Path(CellEdits(cells, value), HereAt(v), t)
<1>1. PICK s : s = HereAt(v)
  OBVIOUS
<1>2. s.patterns = patterns /\ s.sample = sample /\ s.speed = v /\ IsScene(s)
  BY <1>1 DEF HereAt
<1>3. PICK ctx : ctx = <<s, value>>
  OBVIOUS
<1>4. ctx[1] = s /\ ctx[2] = value
  BY <1>3
<1>5. EditsSoFar(ctx, <<>>, <<>>)
  <2>1. Reached(s, <<>>, <<>>, s)
    <3>1. History!Path(<<>>, s, s)
      BY HistoryAssumption, History!PathNone
    <3>2. <<>> \in Seq({})
      OBVIOUS
    <3>3. PutAll(s.patterns, <<>>) = s.patterns
      BY <3>2, PutsOneMore
    <3> QED
      BY <1>2, <3>1, <3>3, Zenon DEF Reached
  <2> QED
    BY <1>4, <2>1, Zenon DEF EditsSoFar
<1>6. ASSUME NEW done \in Seq(D), NEW x \in D, NEW all, EditsSoFar(ctx, done, all)
      PROVE  EditsSoFar(ctx, Append(done, x), EditStep(ctx, all, x))
  <2> SUFFICES ASSUME Distinct(Append(done, x))
               PROVE  \E u : Reached(s, Append(done, x), EditStep(ctx, all, x), u)
    BY <1>4, Zenon DEF EditsSoFar
  <2>1. Distinct(done)
    <3>1. PICK n \in Nat : n = Len(done)
      OBVIOUS
    <3>2. Len(Append(done, x)) = n + 1 /\ \A i \in 1..n : i \in 1..(n + 1) /\ Append(done, x)[i] = done[i]
      BY <3>1
    <3> QED
      BY <3>1, <3>2, Zenon DEF Distinct
  <2>2. PICK t : Reached(s, done, all, t)
    BY <1>4, <1>6, <2>1, Zenon DEF EditsSoFar
  <2> QED
    BY <1>2, <1>3, <2>2, ReachesOneMore
<1>7. EditsSoFar(ctx, cells, Editing!Fold(ctx, <<>>, cells))
  BY <1>5, <1>6, Editing!FoldHolds
<1>8. CellEdits(cells, value) = Editing!Fold(ctx, <<>>, cells)
  <2>1. CellEdits(cells, value) = PlaceEdits(patterns, cells, value)
    BY ZenonT(60) DEF CellEdits, PlaceEdits, CellAt, CellOf
  <2>2. PlaceEdits(ctx[1].patterns, cells, ctx[2]) = Editing!Fold(ctx, <<>>, cells)
    BY ZenonT(240) DEF PlaceEdits, Editing!Fold, EditStep, FoldLeft, MapThenFoldSet, Editing!FoldLeft,
                       Editing!MapThenFoldSet, Max, Editing!Max
  <2> QED
    BY <1>2, <1>4, <2>1, <2>2, Zenon
<1>9. PICK t : Reached(s, cells, CellEdits(cells, value), t)
  BY <1>4, <1>7, <1>8, Zenon DEF EditsSoFar
<1>10. t = [patterns |-> PutAll(patterns, CellEdits(cells, value)), sample |-> sample, speed |-> v]
  BY <1>2, <1>9, Zenon DEF Reached, IsScene
<1> QED
  BY <1>1, <1>9, <1>10, Zenon DEF Reached

-----------------------------------------------------------------------------
(* The song and its history.                                               *)

\* The history leads to the song as it is.
SongSound == SongMade /\ \E v : History!HistoryOf(songHistory, HereAt(v))
SongInv == SongSound /\ songHistory.depth = 0

\* It stays so, and a group that is open stays open, or is forgotten with the history.
SongKept == SongSound' /\ songHistory'.depth \in {0, songHistory.depth}

\* What the history does, here and in the lemmas.
LEMMA SameOperations ==
    /\ \A h, e : History!Push(h, e) = Push(h, e) /\ History!PushSampleOp(h, e) = PushSampleOp(h, e)
    /\ \A h : History!BeginGroup(h) = BeginGroup(h) /\ History!EndGroup(h) = EndGroup(h)
    /\ \A h : History!Undone(h) = Undone(h) /\ History!Redone(h) = Redone(h)
    /\ \A h : History!Clear(h) = Clear(h) /\ History!Reset(h) = Reset(h) /\ History!NoHistory = NoHistory
<1>1. \A h, e : History!Commit(h, e) = Commit(h, e)
  <2>1. \A list : History!SampleOps(list) = SampleOps(list)
    BY ZenonT(60) DEF History!SampleOps, SampleOps
  <2>2. \A list : History!Truncate(list) = Truncate(list)
    BY ZenonT(60) DEF History!Truncate, Truncate, History!SelectInSeq, SelectInSeq, History!Min, Min
  <2> QED
    BY <2>1, <2>2, ZenonT(60) DEF History!Commit, Commit
<1>2. \A edits, op : History!Entry(edits, op) = Entry(edits, op)
  BY Zenon DEF History!Entry, Entry
<1>3. \A h, e : History!Push(h, e) = Push(h, e)
  BY <1>1, <1>2, ZenonT(60) DEF History!Push, Push
<1>4. \A h, e : History!PushSampleOp(h, e) = PushSampleOp(h, e)
  BY <1>1, <1>2, <1>3, ZenonT(60) DEF History!PushSampleOp, PushSampleOp
<1>5. \A h : History!EndGroup(h) = EndGroup(h)
  BY <1>1, <1>2, ZenonT(60) DEF History!EndGroup, EndGroup
<1>6. \A h : History!BeginGroup(h) = BeginGroup(h) /\ History!Reset(h) = Reset(h)
  BY ZenonT(60) DEF History!BeginGroup, BeginGroup, History!Reset, Reset, History!NoHistory, NoHistory
<1>7. \A h : History!Undone(h) = Undone(h) /\ History!Redone(h) = Redone(h)
  BY ZenonT(60) DEF History!Undone, Undone, History!Redone, Redone, History!Front, Front, History!Last, Last
<1>8. \A h : History!Clear(h) = Clear(h) /\ History!NoHistory = NoHistory
  BY ZenonT(60) DEF History!Clear, Clear, History!NoHistory, NoHistory
<1> QED
  BY <1>3, <1>4, <1>5, <1>6, <1>7, <1>8, Zenon

\* Pushing a list of edits, here and there.
LEMMA PushedAlike == ASSUME NEW h, NEW list PROVE FoldLeft(Push, h, list) = History!Pushed(h, list)
<1>1. FoldLeft(Push, h, list) = FoldLeft(LAMBDA g, e : History!Push(g, e), h, list)
  BY SameOperations, ZenonT(60) DEF FoldLeft, MapThenFoldSet
<1>2. FoldLeft(LAMBDA g, e : History!Push(g, e), h, list) = History!Pushed(h, list)
  BY ZenonT(60) DEF History!Pushed, FoldLeft, MapThenFoldSet, History!FoldLeft, History!MapThenFoldSet, Max, History!Max
<1> QED
  BY <1>1, <1>2, Zenon

\* A scene is made of what the invariant says of the song.
LEMMA Scenes ==
    ASSUME SongSound, NEW v
    PROVE  IsScene(HereAt(v)) /\ HereAt(v).patterns = patterns /\ HereAt(v).sample = sample /\ HereAt(v).speed = v
<1>1. PICK s : s = HereAt(v)
  OBVIOUS
<1>2. s = [patterns |-> s.patterns, sample |-> s.sample, speed |-> s.speed]
      /\ s.patterns = patterns /\ s.sample = sample /\ s.speed = v
  BY <1>1 DEF HereAt
<1> QED
  BY <1>1, <1>2, Zenon DEF SongSound, SongMade, IsScene

\* Nothing of it changes.
LEMMA SongStays ==
    ASSUME SongSound, UNCHANGED <<patterns, sample, songHistory>>, Clipped(clipboard'), speed' \in Int
    PROVE  SongKept
<1>1. \A v : HereAt(v)' = HereAt(v)
  BY DEF HereAt
<1> QED
  BY <1>1, Zenon DEF SongSound, SongMade, SongKept

\* A wiped history is one of the new song.
LEMMA SongWiped ==
    ASSUME ArePatterns(patterns'), IsSample(sample'), Clipped(clipboard'), speed' \in Int, NEW h, songHistory' \in {Clear(h), Reset(h), NoHistory}
    PROVE  SongKept
<1>1. \A s : History!HistoryOf(songHistory', s)
  BY HistoryAssumption, History!WipedIsHistory, SameOperations
<1>2. songHistory'.depth = 0
  BY DEF Clear, Reset, NoHistory
<1> QED
  BY <1>1, <1>2, Zenon DEF SongSound, SongMade, SongKept

\* One edit more.
LEMMA SongEdited ==
    ASSUME SongSound, ArePatterns(patterns'), IsSample(sample'), UNCHANGED clipboard, speed' \in Int, NEW e,
           \A v : EditLinks(e, HereAt(v), HereAt(v)'),
           songHistory' \in {Push(songHistory, e), PushSampleOp(songHistory, e)}
    PROVE  SongKept
<1>1. PICK v : History!HistoryOf(songHistory, HereAt(v))
  BY Zenon DEF SongSound, SongMade
<1>2. EditLinks(e, HereAt(v), HereAt(v)')
  OBVIOUS
<1>3. /\ History!HistoryOf(Push(songHistory, e), HereAt(v)') /\ History!HistoryOf(PushSampleOp(songHistory, e), HereAt(v)')
      /\ Push(songHistory, e).depth = songHistory.depth /\ PushSampleOp(songHistory, e).depth = songHistory.depth
  BY <1>1, <1>2, HistoryAssumption, History!PushLeads, SameOperations
<1>4. History!HistoryOf(songHistory', HereAt(v)') /\ songHistory'.depth = songHistory.depth
  BY <1>3
<1> QED
  BY <1>4, Zenon DEF SongSound, SongMade, SongKept

\* The edits of a block, as one group.
LEMMA SongGrouped ==
    ASSUME SongSound, NEW D, NEW cells \in Seq(D), Distinct(cells), NEW value,
           \A at \in DOMAIN value : Inside(patterns, at), GroupEdit(cells, value), Clipped(clipboard')
    PROVE  SongKept /\ Alike(patterns, patterns')
<1>1. PICK v : History!HistoryOf(songHistory, HereAt(v))
  BY Zenon DEF SongSound, SongMade
<1>2. PICK members : members = CellEdits(cells, value)
  OBVIOUS
<1>3. PICK t : t = [patterns |-> PutAll(patterns, members), sample |-> sample, speed |-> v]
  OBVIOUS
<1>4. IsScene(t) /\ History!Path(members, HereAt(v), t)
  BY <1>2, <1>3, Scenes, CellEditsLead, Zenon
<1>5. patterns' = PutAll(patterns, members) /\ sample' = sample /\ speed' = speed
  BY <1>2, Zenon DEF GroupEdit, SameSong, PutAll
<1>6. HereAt(v)' = t
  BY <1>3, <1>5 DEF HereAt
<1>7. songHistory' = History!EndGroup(History!Pushed(History!BeginGroup(songHistory), members))
  BY <1>2, SameOperations, PushedAlike, Zenon DEF GroupEdit
<1>8. /\ History!HistoryOf(songHistory', t) /\ songHistory'.depth = songHistory.depth
  BY <1>1, <1>4, <1>7, HistoryAssumption, History!GroupLeads
<1>9. ArePatterns(patterns') /\ IsSample(sample')
  <2>1. t.patterns = patterns' /\ t.sample = sample'
    BY <1>3, <1>5
  <2> QED
    BY <1>4, <2>1, Zenon DEF IsScene
<1>10. Alike(patterns, patterns')
  <2>1. HereAt(v).patterns = patterns /\ t.patterns = patterns'
    BY <1>5, <1>3 DEF HereAt
  <2> QED
    BY <1>4, <2>1, PathIsAlike, Scenes
<1>11. speed' \in Int
  BY <1>5 DEF SongSound, SongMade
<1> QED
  BY <1>6, <1>8, <1>9, <1>10, <1>11, Zenon DEF SongSound, SongMade, SongKept

\* A song shows the scene of its state.
LEMMA SongIsShown == ASSUME SongSound, NEW v PROVE SongShows(Song, HereAt(v))
<1>1. PICK song : song = Song
  OBVIOUS
<1>2. song = [patterns |-> patterns, sample |-> sample, speed |-> song.speed] /\ song.speed = speed
  BY <1>1 DEF Song
<1> QED
  BY <1>1, <1>2, Scenes, Zenon DEF SongShows, SongLooks, SongSound, SongMade

\* Undoing and redoing lead the song to a scene the history goes through.
LEMMA SongRewritten ==
    ASSUME SongInv, NEW h, h.depth = 0, NEW t, History!HistoryOf(h, t), songHistory' = h, NEW song, SongShows(song, t),
           Rewritten(song)
    PROVE  SongKept /\ patterns' = t.patterns
<1>1. song.patterns = t.patterns /\ song.sample = t.sample /\ song.speed \in Int
  BY DEF SongShows, SongLooks
<1>2. patterns' = t.patterns /\ sample' = t.sample /\ clipboard' = clipboard /\ speed' \in Int
  BY <1>1, Zenon DEF Rewritten
<1>3. IsScene(t) /\ t = [patterns |-> t.patterns, sample |-> t.sample, speed |-> t.speed]
  BY Zenon DEF SongShows, SongLooks, IsScene
<1>4. HereAt(t.speed)' = t
  BY <1>2, <1>3, Zenon DEF HereAt
<1> QED
  BY <1>2, <1>3, <1>4, Zenon DEF SongInv, SongSound, SongMade, SongKept, IsScene

\* Undo and redo lead the song along its history.
LEMMA SongUndone == ASSUME SongInv, UndoEdit \/ RedoEdit PROVE SongKept /\ Alike(patterns, patterns')
<1>1. PICK v : History!HistoryOf(songHistory, HereAt(v)) /\ songHistory.depth = 0
  BY Zenon DEF SongInv, SongSound, SongMade
<1>2. SongShows(Song, HereAt(v))
  BY SongIsShown DEF SongInv
<1>5. IsScene(HereAt(v)) /\ HereAt(v).patterns = patterns
  BY Scenes DEF SongInv
<1>3. CASE UndoEdit
  <2>1. History!CanUndo(songHistory)
    BY <1>3, Zenon DEF UndoEdit, CanUndo, History!CanUndo
  <2>2. PICK t : /\ History!Path(History!Last(songHistory.past).edits, t, HereAt(v))
                 /\ History!HistoryOf(Undone(songHistory), t) /\ Undone(songHistory).depth = 0
    BY <1>1, <2>1, HistoryAssumption, History!UndoLeads, SameOperations
  <2>3. PICK list : list = Last(songHistory.past).edits
    OBVIOUS
  <2>4. History!Path(list, t, HereAt(v))
    BY <2>2, <2>3, Zenon DEF Last, History!Last
  <2>5. History!BackShows
    BY Unwrites, Zenon DEF History!BackShows
  <2>6. SongShows(History!Unmade(Song, list), t)
    BY <1>2, <2>4, <2>5, HistoryAssumption, History!BackAlong
  <2>7. UnwriteAll(Song, Reverse(list)) = History!Unmade(Song, list)
    BY ZenonT(60) DEF UnwriteAll, Unwrite, History!Unmade, FoldLeft, MapThenFoldSet, History!FoldLeft, History!MapThenFoldSet,
                      Max, History!Max, Reverse, History!Reverse
  <2>8. Rewritten(UnwriteAll(Song, Reverse(list))) /\ songHistory' = Undone(songHistory)
    BY <1>3, <2>3, Zenon DEF UndoEdit, UndoneEdits
  <2>9. SongKept /\ patterns' = t.patterns
    BY <2>2, <2>6, <2>7, <2>8, SongRewritten, Zenon
  <2>10. Alike(t.patterns, patterns) \/ Alike(patterns, t.patterns)
    BY <1>5, <2>4, <2>6, PathIsAlike, Zenon DEF SongShows, SongLooks
  <2> QED
    BY <2>9, <2>10, Zenon DEF Alike
<1>4. CASE RedoEdit
  <2>1. History!CanRedo(songHistory)
    BY <1>4, Zenon DEF RedoEdit, CanRedo, History!CanRedo
  <2>2. PICK t : /\ History!Path(History!Last(songHistory.future).edits, HereAt(v), t)
                 /\ History!HistoryOf(Redone(songHistory), t) /\ Redone(songHistory).depth = 0
    BY <1>1, <2>1, HistoryAssumption, History!RedoLeads, SameOperations
  <2>3. PICK list : list = Last(songHistory.future).edits
    OBVIOUS
  <2>4. History!Path(list, HereAt(v), t)
    BY <2>2, <2>3, Zenon DEF Last, History!Last
  <2>5. History!ForthShows
    BY Rewrites, Zenon DEF History!ForthShows
  <2>6. SongShows(History!Remade(Song, list), t)
    BY <1>2, <2>4, <2>5, HistoryAssumption, History!ForthAlong
  <2>7. RewriteAll(Song, list) = History!Remade(Song, list)
    BY ZenonT(60) DEF RewriteAll, Rewrite, History!Remade, FoldLeft, MapThenFoldSet, History!FoldLeft, History!MapThenFoldSet,
                      Max, History!Max
  <2>8. Rewritten(RewriteAll(Song, list)) /\ songHistory' = Redone(songHistory)
    BY <1>4, <2>3, Zenon DEF RedoEdit, RedoneEdits
  <2>9. SongKept /\ patterns' = t.patterns
    BY <2>2, <2>6, <2>7, <2>8, SongRewritten, Zenon
  <2>10. Alike(t.patterns, patterns) \/ Alike(patterns, t.patterns)
    BY <1>5, <2>4, <2>6, PathIsAlike, Zenon DEF SongShows, SongLooks
  <2> QED
    BY <2>9, <2>10, Zenon DEF Alike
<1> QED
  BY <1>3, <1>4

\* create_pattern makes a song.
LEMMA CreateKeeps ==
    ASSUME SongSound, NEW rows \in Nat \ {0}, CreatePattern(rows)
    PROVE  SongKept
<1>1. PICK n, D : n \in Nat /\ n = Len(patterns) /\ patterns \in Seq(D) /\ \A p \in D : IsPattern(p)
  BY PatternFacts, Zenon DEF SongSound, SongMade
<1>2. PICK p : p = [id |-> Len(patterns), born |-> made + 1, rows |-> BlankRows(rows)]
  OBVIOUS
<1>3. IsPattern(p)
  <2>1. PICK blank : blank = BlankRows(rows)
    OBVIOUS
  <2>2. blank = [r \in 1..rows |-> blank[r]]
    BY <2>1 DEF BlankRows
  <2> QED
    BY <1>2, <2>1, <2>2, BlankIsRow, RowsMade
<1>4. PICK all : all = Append(patterns, p)
  OBVIOUS
<1>5. all \in Seq(D \cup {p}) /\ Len(all) = n + 1 /\ \A k \in 1..n + 1 : all[k] \in D \cup {p}
  BY <1>1, <1>4
<1>6. all = [k \in 1..n + 1 |-> all[k]] /\ \A k \in 1..n + 1 : IsPattern(all[k])
  BY <1>1, <1>3, <1>5
<1>7. ArePatterns(all)
  BY <1>1, <1>6, PatternsMade
<1>8. patterns' = all /\ speed' = speed /\ sample' = sample /\ clipboard' = clipboard /\ songHistory' = Clear(songHistory)
  BY <1>2, <1>4, Zenon DEF CreatePattern, Structural
<1> QED
  BY <1>7, <1>8, SongWiped DEF SongSound, SongMade

\* delete_pattern leaves a song.
LEMMA DeleteKeeps ==
    ASSUME SongSound, NEW i, DeletePattern(i)
    PROVE  SongKept
<1>1. PICK n, D : n \in Nat /\ n = Len(patterns) /\ DOMAIN patterns = 1..n /\ patterns \in Seq(D) /\ \A p \in D : IsPattern(p)
  BY PatternFacts, Zenon DEF SongSound, SongMade
<1>2. i \in 1..n
  BY <1>1, Zenon DEF DeletePattern
<1>3. PICK rest : rest = RemoveAt(patterns, i)
  OBVIOUS
<1>4. rest \in Seq(D)
  BY <1>1, <1>2, <1>3 DEF RemoveAt
<1>5. PICK m \in Nat : m = Len(rest) /\ DOMAIN rest = 1..m /\ \A k \in 1..m : rest[k] \in D
  BY <1>4
<1>6. PICK all : all = [k \in 1..m |-> [rest[k] EXCEPT !.id = k - 1]]
  OBVIOUS
<1>7. ASSUME NEW k \in 1..m PROVE IsPattern(all[k])
  <2>1. PICK p : p = rest[k] /\ IsPattern(p)
    BY <1>1, <1>5
  <2>2. PICK born, rows : p = [id |-> p.id, born |-> born, rows |-> rows]
    BY <2>1, Zenon DEF IsPattern
  <2>3. PICK q : q = all[k] /\ q = [id |-> k - 1, born |-> born, rows |-> rows]
    BY <1>6, <2>1, <2>2
  <2>4. q = [id |-> q.id, born |-> q.born, rows |-> q.rows] /\ q.rows = p.rows
    BY <2>2, <2>3
  <2> QED
    BY <2>1, <2>3, <2>4, Zenon DEF IsPattern
<1>8. all = [k \in 1..m |-> all[k]]
  BY <1>6
<1>9. ArePatterns(all)
  BY <1>7, <1>8, PatternsMade
<1>10. patterns' = all /\ speed' = speed /\ sample' = sample /\ clipboard' = clipboard /\ songHistory' = Clear(songHistory)
  BY <1>3, <1>5, <1>6, Zenon DEF DeletePattern, Structural, Reindexed
<1> QED
  BY <1>9, <1>10, SongWiped DEF SongSound, SongMade

\* resize_pattern leaves a song.
LEMMA ResizeKeeps ==
    ASSUME SongSound, NEW i, NEW wanted \in Int, ResizePattern(i, wanted)
    PROVE  SongKept
<1>1. PICK n, D : n \in Nat /\ n = Len(patterns) /\ DOMAIN patterns = 1..n /\ patterns \in Seq(D)
                          /\ patterns = [k \in 1..n |-> patterns[k]] /\ \A p \in D : IsPattern(p)
  BY PatternFacts, Zenon DEF SongSound, SongMade
<1>2. PICK rows : rows = Clamp(wanted, 1, RowLimit)
  OBVIOUS
<1>3. rows \in Nat \ {0}
  <2>1. RowLimit \in Int /\ 1 <= RowLimit
    BY SongAssumption
  <2> QED
    BY <1>2, <2>1, ClampFacts
<1>4. i \in 1..n
  BY <1>1, Zenon DEF ResizePattern
<1>5. PICK p : p = patterns[i] /\ IsPattern(p)
  BY <1>1, <1>4
<1>6. PICK id, born, old : p = [id |-> id, born |-> born, rows |-> old]
  BY <1>5, Zenon DEF IsPattern
<1>7. PICK q : q = [id |-> id, born |-> born, rows |-> Fit(p.rows, rows)]
  OBVIOUS
<1>8. IsPattern(q)
  BY <1>3, <1>5, <1>7, FitFacts
<1>9. PICK fitted : fitted = Fit(p.rows, rows)
  OBVIOUS
<1>10. PICK all : all = [patterns EXCEPT ![i].rows = fitted]
  OBVIOUS
<1>11. all = [k \in 1..n |-> all[k]] /\ all[i] = [p EXCEPT !.rows = fitted] /\ \A k \in 1..n : k # i => all[k] = patterns[k]
  BY <1>1, <1>4, <1>5, <1>10
<1>12. all[i] = q
  BY <1>6, <1>7, <1>9, <1>11
<1>13. ASSUME NEW k \in 1..n PROVE IsPattern(all[k])
  <2>1. CASE k = i
    BY <1>8, <1>12, <2>1, Zenon
  <2>2. CASE k # i
    <3>1. all[k] = patterns[k]
      BY <1>11, <2>2
    <3>2. patterns[k] \in D
      BY <1>1
    <3> QED
      BY <1>1, <3>1, <3>2, Zenon
  <2> QED
    BY <2>1, <2>2, Zenon
<1>14. ArePatterns(all)
  BY <1>1, <1>11, <1>13, PatternsMade
<1>15. patterns' = all /\ speed' = speed /\ sample' = sample /\ clipboard' = clipboard /\ songHistory' = Clear(songHistory)
  BY <1>2, <1>5, <1>9, <1>10, Zenon DEF ResizePattern, Structural
<1> QED
  BY <1>14, <1>15, SongWiped DEF SongSound, SongMade

\* load_file and new_project: the history starts anew with the song.
LEMMA OpenKeeps ==
    ASSUME SongSound, NEW s \in Songs, OpenSong(s)
    PROVE  SongKept
<1>1. PICK ids, borns : ids = [p \in DOMAIN s.patterns |-> p - 1] /\ borns = [p \in DOMAIN s.patterns |-> made + p]
  OBVIOUS
<1>2. patterns' = [p \in DOMAIN s.patterns |-> [id |-> p - 1, born |-> made + p, rows |-> s.patterns[p]]]
  BY Zenon DEF OpenSong
<1>3. patterns' = [p \in DOMAIN s.patterns |-> [id |-> ids[p], born |-> borns[p], rows |-> s.patterns[p]]]
  BY <1>1, <1>2
<1>4. ArePatterns(patterns')
  BY <1>3, OpenedPatterns
<1>5. sample' = NoSample /\ clipboard' = clipboard /\ songHistory' = Reset(songHistory) /\ speed' \in Int
  BY SongAssumption DEF OpenSong
<1>6. IsSample(NoSample)
  BY DEF NoSample, IsSample
<1> QED
  BY <1>4, <1>5, <1>6, SongWiped DEF SongSound, SongMade

\* It holds of a song that was just opened.
LEMMA SongStarts == ASSUME SongInit PROVE SongInv
<1>1. PICK s \in Songs : speed = s.speed /\ patterns = [p \in DOMAIN s.patterns |-> [id |-> p - 1, born |-> p, rows |-> s.patterns[p]]]
  BY Zenon DEF SongInit
<1>2. PICK ids, borns : ids = [p \in DOMAIN s.patterns |-> p - 1] /\ borns = [p \in DOMAIN s.patterns |-> p]
  OBVIOUS
<1>3. patterns = [p \in DOMAIN s.patterns |-> [id |-> ids[p], born |-> borns[p], rows |-> s.patterns[p]]]
  BY <1>1, <1>2
<1>4. ArePatterns(patterns)
  BY <1>3, OpenedPatterns
<1>5. IsSample(sample)
  BY DEF NoSample, IsSample, SongInit
<1>6. Clipped(clipboard)
  <2>1. <<>> \in Seq({}) /\ clipboard.cells = <<>> /\ clipboard.channels = 0
    BY DEF SongInit, NoClip
  <2> QED
    BY <2>1 DEF Clipped
<1>7. songHistory = NoHistory /\ songHistory.depth = 0
  BY DEF SongInit, NoHistory
<1>8. \A t : History!HistoryOf(songHistory, t)
  BY <1>7, HistoryAssumption, History!WipedIsHistory, SameOperations
<1>9. speed \in Int
  BY <1>1, SongAssumption
<1> QED
  BY <1>4, <1>5, <1>6, <1>7, <1>8, <1>9, Zenon DEF SongInv, SongSound, SongMade

\* Structural edits of anything else wipe the history of the same patterns.
LEMMA StructuralKeeps ==
    ASSUME SongSound, Structural, UNCHANGED <<patterns, sample>>, speed' = speed
    PROVE  SongKept
<1>1. clipboard' = clipboard /\ songHistory' = Clear(songHistory)
  BY Zenon DEF Structural
<1> QED
  BY <1>1, SongWiped DEF SongSound, SongMade

\* So do load_sample_into_slot and clear_slot, with a new sample.
LEMMA SampleKeeps == ASSUME SongSound, LoadSample \/ ClearSlot PROVE SongKept
<1>1. patterns' = patterns /\ clipboard' = clipboard /\ songHistory' = Clear(songHistory) /\ speed' = speed
  BY Zenon DEF LoadSample, ClearSlot, OfSong, Structural
<1>2. IsSample(sample')
  BY DEF LoadSample, ClearSlot, NoSample, IsSample
<1> QED
  BY <1>1, <1>2, SongWiped DEF SongSound, SongMade

\* An edit goes from the scene before it to the one after.
LEMMA EditLeads ==
    ASSUME SongSound, ArePatterns(patterns'), IsSample(sample'), NEW e, NEW v,
           CellLinks(e, HereAt(v), HereAt(v)') \/ SoundLinks(e, HereAt(v), HereAt(v)')
    PROVE  EditLinks(e, HereAt(v), HereAt(v)')
<1>1. IsScene(HereAt(v))
  BY Scenes
<1>2. PICK t : t = HereAt(v)'
  OBVIOUS
<1>3. t = [patterns |-> t.patterns, sample |-> t.sample, speed |-> t.speed] /\ t.patterns = patterns' /\ t.sample = sample'
  BY <1>2 DEF HereAt
<1>4. IsScene(t)
  BY <1>3, Zenon DEF IsScene
<1> QED
  BY <1>1, <1>2, <1>4, Zenon DEF EditLinks

\* set_cell goes into the history.
LEMMA SetCellKeeps ==
    ASSUME SongSound, NEW at, NEW cell, SetCell(at, cell)
    PROVE  SongKept /\ Alike(patterns, patterns')
<1>1. Inside(patterns, at)
  BY Zenon DEF SetCell, InPattern, Inside
<1>2. PICK e : e = CellEdit(at, CellAt(at), cell)
  OBVIOUS
<1>3. e.what = "cell" /\ e.at = at /\ e.before = CellOf(patterns, at) /\ e.after = cell
  BY <1>2 DEF CellEdit, CellAt, CellOf
<1>4. /\ patterns' = Put(patterns, at, cell) /\ songHistory' = Push(songHistory, e) /\ sample' = sample
      /\ clipboard' = clipboard /\ speed' = speed
  BY <1>2, Zenon DEF SetCell, SameSong
<1>5. ArePatterns(patterns') /\ IsSample(sample') /\ speed' \in Int /\ Alike(patterns, patterns')
  <2>1. ArePatterns(patterns)
    BY Zenon DEF SongSound, SongMade
  <2>2. ArePatterns(Put(patterns, at, cell)) /\ Alike(patterns, Put(patterns, at, cell))
    BY <1>1, <2>1, PutFacts
  <2> QED
    BY <1>4, <2>2 DEF SongSound, SongMade
<1>6. ASSUME NEW v PROVE EditLinks(e, HereAt(v), HereAt(v)')
  <2>1. HereAt(v).patterns = patterns /\ HereAt(v).sample = sample /\ HereAt(v).speed = v
    BY DEF HereAt
  <2>2. HereAt(v)'.patterns = patterns' /\ HereAt(v)'.sample = sample' /\ HereAt(v)'.speed = v
    BY DEF HereAt
  <2>3. CellLinks(e, HereAt(v), HereAt(v)')
    BY <1>1, <1>3, <1>4, <2>1, <2>2, Zenon DEF CellLinks
  <2> QED
    BY <1>5, <2>3, EditLeads
<1>7. songHistory' \in {Push(songHistory, e), PushSampleOp(songHistory, e)}
  BY <1>4
<1> QED
  BY <1>4, <1>5, <1>6, <1>7, SongEdited

\* set_sample_meta and apply_sample_edit go into the history.
LEMMA SoundEditKeeps == ASSUME SongSound, SetSampleMeta \/ ApplySampleEdit PROVE SongKept
<1>1. PICK what \in {"props", "audio"} :
          /\ songHistory' \in {Push(songHistory, SampleEdit(what, sample, sample')),
                               PushSampleOp(songHistory, SampleEdit(what, sample, sample'))}
          /\ patterns' = patterns /\ clipboard' = clipboard /\ speed' = speed
          /\ IsSample(sample') /\ (what = "props" => sample'.buffer = sample.buffer)
  <2>1. CASE SetSampleMeta
    <3>1. songHistory' = Push(songHistory, SampleEdit("props", sample, sample')) /\ patterns' = patterns /\ clipboard' = clipboard
          /\ speed' = speed
      BY <2>1, Zenon DEF SetSampleMeta, OfSong
    <3>2. PICK p, d, b : sample = [props |-> p, data |-> d, buffer |-> b] /\ sample.data = sample.buffer
      BY Zenon DEF SongSound, SongMade, IsSample
    <3>3. sample' = [sample EXCEPT !.props = made + 1]
      BY <2>1, Zenon DEF SetSampleMeta
    <3>4. sample' = [props |-> made + 1, data |-> d, buffer |-> b] /\ d = b
      BY <3>2, <3>3
    <3>5. IsSample(sample') /\ sample'.buffer = sample.buffer
      BY <3>2, <3>4 DEF IsSample
    <3> QED
      BY <3>1, <3>5
  <2>2. CASE ApplySampleEdit
    <3>1. songHistory' = PushSampleOp(songHistory, SampleEdit("audio", sample, sample')) /\ patterns' = patterns /\ clipboard' = clipboard
          /\ speed' = speed
      BY <2>2, Zenon DEF ApplySampleEdit, OfSong
    <3>2. sample' = [props |-> made + 1, data |-> made + 1, buffer |-> made + 1]
      BY <2>2, Zenon DEF ApplySampleEdit
    <3>3. IsSample(sample')
      BY <3>2 DEF IsSample
    <3> QED
      BY <3>1, <3>3
  <2> QED
    BY <2>1, <2>2
<1>2. PICK e : e = SampleEdit(what, sample, sample')
  OBVIOUS
<1>3. e.what = what /\ e.before = sample /\ e.after = sample'
  BY <1>2 DEF SampleEdit
<1>4. ArePatterns(patterns') /\ IsSample(sample') /\ speed' \in Int
  BY <1>1 DEF SongSound, SongMade
<1>5. ASSUME NEW v PROVE EditLinks(e, HereAt(v), HereAt(v)')
  <2>1. HereAt(v).patterns = patterns /\ HereAt(v).sample = sample /\ HereAt(v).speed = v
    BY DEF HereAt
  <2>2. HereAt(v)'.patterns = patterns' /\ HereAt(v)'.sample = sample' /\ HereAt(v)'.speed = v
    BY DEF HereAt
  <2>3. SoundLinks(e, HereAt(v), HereAt(v)')
    BY <1>1, <1>3, <2>1, <2>2, Zenon DEF SoundLinks
  <2> QED
    BY <1>4, <2>3, EditLeads
<1> QED
  BY <1>1, <1>2, <1>4, <1>5, SongEdited

\* The selections the pattern view makes lie in the song.
LEMMA SelectionFacts ==
    ASSUME SongSound, NEW s \in Selections, s # NoSelection
    PROVE  Selected(s)
<1>1. PICK p \in DOMAIN patterns, r0 \in {1}, r1 \in {0, 3}, c0 \in {1, SongChannels}, c1 \in {1, 3}, f0 \in {1}, f1 \in {1, 4} :
          s = Normal(Selection(p, r0, r1, c0, c1, f0, f1))
  BY DEF Selections
<1>2. r0 \in Int /\ r1 \in Int /\ c0 \in Int /\ c1 \in Int
  BY <1>1, SongAssumption
<1>3. ArePatterns(patterns)
  BY Zenon DEF SongSound, SongMade
<1> QED
  BY <1>1, <1>2, <1>3, NormalFacts

\* What copy_cells takes is a block of cells.
LEMMA CopiedFacts ==
    ASSUME SongSound, NEW s, Selected(s)
    PROVE  Clipped(Copied(s))
<1>1. PICK D : Block(s) \in Seq(D)
  BY BlockFacts, Zenon DEF SongSound, SongMade
<1>2. PICK block : block = Block(s)
  OBVIOUS
<1>3. PICK cells : cells = Each(block, LAMBDA at : Merge(EmptyCell, CellAt(at), Mask(s, at[3])))
  OBVIOUS
<1>4. cells = [i \in DOMAIN block |-> Merge(EmptyCell, CellAt(block[i]), Mask(s, block[i][3]))]
  BY <1>3, Zenon DEF Each
<1>5. PICK n \in Nat : DOMAIN block = 1..n
  BY <1>1, <1>2
<1>6. PICK E : E = {cells[i] : i \in 1..n}
  OBVIOUS
<1>7. cells \in [1..n -> E]
  BY <1>4, <1>5, <1>6
<1>8. cells \in Seq(E)
  BY <1>5, <1>7
<1>9. Copied(s).cells = cells /\ Copied(s).channels = s.c1 - s.c0 + 1
  <2>1. PICK masks : masks = [i \in 1..(s.c1 - s.c0 + 1) |-> Mask(s, s.c0 + i - 1)]
    OBVIOUS
  <2>2. Copied(s) = [rows |-> s.r1 - s.r0 + 1, channels |-> s.c1 - s.c0 + 1, cells |-> cells, masks |-> masks]
    BY <1>2, <1>3, <2>1, Zenon DEF Copied
  <2> QED
    BY <2>2
<1>10. s.c1 - s.c0 + 1 \in Nat /\ s.c1 - s.c0 + 1 > 0
  BY DEF Selected
<1> QED
  BY <1>8, <1>9, <1>10, Zenon DEF Clipped

\* An operation on cells of a selection.
LEMMA BlockKeeps ==
    ASSUME SongSound, NEW s, Selected(s), NEW value, \A at \in DOMAIN value : at \in Range(Block(s)),
           GroupEdit(Block(s), value), Clipped(clipboard')
    PROVE  SongKept /\ Alike(patterns, patterns')
<1>1. PICK D : Block(s) \in Seq(D)
  BY BlockFacts, Zenon DEF SongSound, SongMade
<1>2. Distinct(Block(s)) /\ \A at \in DOMAIN value : Inside(patterns, at)
  BY BlockFacts, Zenon DEF SongSound, SongMade
<1>3. PICK cells : cells = Block(s)
  OBVIOUS
<1> QED
  BY <1>1, <1>2, <1>3, SongGrouped

\* cut_cells, clear_cells, transpose_cells and interpolate_cells.
LEMMA BlockOperationsKeep ==
    ASSUME SongSound, NEW s \in Selections, NEW n, Cut(s) \/ ClearCells(s) \/ Interpolate(s) \/ TransposeCells(s, n)
    PROVE  SongKept /\ Alike(patterns, patterns')
<1>1. Selected(s)
  BY SelectionFacts, Zenon DEF Cut, ClearCells, Interpolate, TransposeCells
<1>2. Clipped(clipboard) /\ Clipped(Copied(s))
  BY <1>1, CopiedFacts, Zenon DEF SongSound, SongMade
<1>3. CASE Cut(s) \/ ClearCells(s)
  <2>1. PICK value : value = Emptied(s)
    OBVIOUS
  <2>2. DOMAIN value = Range(Block(s))
    BY <2>1 DEF Emptied
  <2>3. GroupEdit(Block(s), value) /\ clipboard' \in {clipboard, Copied(s)}
    BY <1>3, <2>1, Zenon DEF Cut, ClearCells
  <2> QED
    BY <1>1, <1>2, <2>2, <2>3, BlockKeeps
<1>4. CASE Interpolate(s)
  <2>1. PICK value : value = [at \in {a \in Range(Block(s)) : a[2] \notin {s.r0, s.r1}} |-> Filled(s, at)]
    OBVIOUS
  <2>2. \A at \in DOMAIN value : at \in Range(Block(s))
    BY <2>1
  <2>3. GroupEdit(Block(s), value) /\ clipboard' = clipboard
    BY <1>4, <2>1, Zenon DEF Interpolate
  <2> QED
    BY <1>1, <1>2, <2>2, <2>3, BlockKeeps
<1>5. CASE TransposeCells(s, n)
  <2>1. PICK value : value = [at \in {a \in Range(Block(s)) : "note" \in Mask(s, a[3])} |-> Shifted(CellAt(at), n)]
    OBVIOUS
  <2>2. \A at \in DOMAIN value : at \in Range(Block(s))
    BY <2>1
  <2>3. GroupEdit(Block(s), value) /\ clipboard' = clipboard
    BY <1>5, <2>1, Zenon DEF TransposeCells
  <2> QED
    BY <1>1, <1>2, <2>2, <2>3, BlockKeeps
<1> QED
  BY <1>3, <1>4, <1>5

\* paste_cells leaves out what falls outside the pattern.
LEMMA PasteKeeps ==
    ASSUME SongSound, NEW p, NEW row \in Int, NEW channel \in Int, Paste(p, row, channel)
    PROVE  SongKept /\ Alike(patterns, patterns')
<1>1. PICK E : clipboard.cells \in Seq(E)
  BY Zenon DEF SongSound, SongMade, Clipped
<1>2. PICK width \in Nat, n \in Nat : width = clipboard.channels /\ DOMAIN clipboard.cells = 1..n /\ (n > 0 => width > 0)
  <2>1. PICK cells : cells = clipboard.cells
    OBVIOUS
  <2>2. cells \in Seq(E)
    BY <1>1, <2>1
  <2>3. Len(cells) \in Nat /\ DOMAIN cells = 1..Len(cells) /\ (Len(cells) > 0 => cells # <<>>)
    BY <2>2
  <2>4. clipboard.channels \in Nat /\ (cells # <<>> => clipboard.channels > 0)
    BY <2>1, Zenon DEF SongSound, SongMade, Clipped
  <2> QED
    BY <2>1, <2>3, <2>4, Zenon
<1>3. PICK cells : cells = Target(p, row, channel)
  OBVIOUS
<1>4. cells = PlacesFrom(p, row, channel, width, n)
  BY <1>2, <1>3, Zenon DEF Target, PlacesFrom, PlaceFrom
<1>5. PICK D : cells \in Seq(D) /\ Distinct(cells)
  BY <1>2, <1>4, RowByRow
<1>6. PICK value : value = Pasted(p, row, channel)
  OBVIOUS
<1>7. ASSUME NEW at \in DOMAIN value PROVE Inside(patterns, at)
  <2>1. PICK places : places = {a \in Range(Target(p, row, channel)) : InPattern(a)}
    OBVIOUS
  <2>2. DOMAIN value = places
    BY <1>6, <2>1, Zenon DEF Pasted
  <2> QED
    BY <2>1, <2>2, Zenon DEF InPattern, Inside
<1>8. GroupEdit(cells, value) /\ clipboard' = clipboard
  BY <1>3, <1>6, Zenon DEF Paste
<1>9. Clipped(clipboard')
  BY <1>8 DEF SongSound, SongMade
<1> QED
  BY <1>5, <1>7, <1>8, <1>9, SongGrouped

\* Every step keeps it.
LEMMA SongStep == ASSUME SongInv, [SongNext]_songVars PROVE SongInv'
<1>1. Clipped(clipboard) /\ SongSound /\ songHistory.depth = 0
  BY Zenon DEF SongInv, SongSound, SongMade
<1>2. ASSUME CreatePattern(2) PROVE SongKept
  BY <1>1, <1>2, CreateKeeps
<1>3. ASSUME NEW k, DeletePattern(k) \/ (\E n \in {0, 2, RowLimit + 1} : ResizePattern(k, n)) PROVE SongKept
  <2>1. \A n \in {0, 2, RowLimit + 1} : n \in Int
    BY SongAssumption
  <2> QED
    BY <1>1, <1>3, <2>1, DeleteKeeps, ResizeKeeps, Zenon
<1>4. ASSUME UNCHANGED <<patterns, sample, speed>>, Structural PROVE SongKept
  BY <1>1, <1>4, StructuralKeeps
<1>5. ASSUME NEW list, NewOrders(list) PROVE SongKept
  BY <1>4, <1>5, Zenon DEF NewOrders
<1>6. ASSUME NEW k, NEW notes, ReplaceNotes(k, notes) \/ AddNote(k, notes) \/ RemoveNote(k, notes) PROVE SongKept
  BY <1>4, <1>6, Zenon DEF ReplaceNotes, AddNote, RemoveNote
<1>7. ASSUME NEW k, UseTool(k) PROVE SongKept
  BY <1>6, <1>7, Zenon DEF UseTool
<1>8. ASSUME NEW k, OrderInsert(9, k - 1) \/ OrderSet(0, k - 1) \/ SetOrderList(<<k - 1, 0>>)
                    \/ OrderRemove(k - 1) \/ OrderMove(k - 1, 1)
      PROVE  SongKept
  BY <1>5, <1>8, Zenon DEF OrderInsert, OrderSet, SetOrderList, OrderRemove, OrderMove
<1>9. ASSUME NEW k, (k \in Int /\ SetSpeed(k)) \/ SetLayerInstrument(k) PROVE SongKept
  <2>1. UNCHANGED <<patterns, sample, songHistory>> /\ clipboard' = clipboard /\ speed' \in Int
    BY <1>1, <1>9, ClampFacts DEF SetSpeed, SetLayerInstrument, SongSound, SongMade
  <2> QED
    BY <1>1, <2>1, SongStays
<1>10. ASSUME NEW s \in Selections, Copy(s) PROVE SongKept
  <2>1. UNCHANGED <<patterns, sample, songHistory, speed>> /\ clipboard' = Copied(s) /\ s # NoSelection
    BY <1>10, Zenon DEF Copy, SameSong
  <2>2. Clipped(Copied(s))
    BY <1>1, <1>10, <2>1, SelectionFacts, CopiedFacts
  <2> QED
    BY <1>1, <2>1, <2>2, SongStays DEF SongSound, SongMade
<1>11. ASSUME NEW s \in Selections, Cut(s) \/ ClearCells(s) \/ Interpolate(s) \/ \E n \in Shifts : TransposeCells(s, n)
       PROVE  SongKept
  BY <1>1, <1>11, BlockOperationsKeep
<1>12. ASSUME NEW p, NEW r \in {0, 1}, Paste(p, r, 1) PROVE SongKept
  <2>1. r \in Int /\ 1 \in Int
    OBVIOUS
  <2> QED
    BY <1>1, <1>12, <2>1, PasteKeeps
<1>14. ASSUME SoundNext PROVE SongKept
  BY <1>1, <1>14, SampleKeeps, SoundEditKeeps, SongUndone, Zenon DEF SoundNext
<1>15. ASSUME NEW list, NewStrips(list) PROVE SongKept
  BY <1>4, <1>15, Zenon DEF NewStrips
<1>16. ASSUME NEW c, AddFxChannel \/ RemoveFxChannel(c) \/ AddFxModule(c) \/ RemoveFxModule(c) PROVE SongKept
  BY <1>15, <1>16, Zenon DEF AddFxChannel, RemoveFxChannel, AddFxModule, RemoveFxModule
<1>17. ASSUME UNCHANGED songVars PROVE SongKept
  <2>1. UNCHANGED <<patterns, sample, songHistory, speed>> /\ clipboard' = clipboard
    BY <1>17, Zenon DEF songVars
  <2> QED
    BY <1>1, <2>1, SongStays DEF SongSound, SongMade
<1>13. 0 \in Int /\ 3 \in Int
  OBVIOUS
<1>18. SongKept
  <2>1. ASSUME NEW k \in {0, 3}, SetSpeed(k) PROVE SongKept
    BY <1>9, <1>13, <2>1, Zenon
  <2>2. ASSUME NEW k, SetLayerInstrument(k) PROVE SongKept
    BY <1>9, <2>2
  <2>3. ASSUME NEW at, NEW cell, SetCell(at, cell) PROVE SongKept
    BY <1>1, <2>3, SetCellKeeps
  <2> QED
    BY <1>1, <1>2, <1>3, <1>6, <1>7, <1>8, <1>10, <1>11, <1>12, <1>14, <1>16, <1>17, <2>1, <2>2, <2>3, OpenKeeps, Zenon DEF SongNext
<1>19. SongSound' /\ songHistory'.depth = 0
  BY <1>1, <1>18 DEF SongKept
<1> QED
  BY <1>19, Zenon DEF SongInv

\* The history always leads to the song as it is, and the song has patterns and a sample.
THEOREM SongInvHolds == SongSpec => []SongInv
<1>1. SongInit => SongInv
  BY SongStarts
<1>2. SongInv /\ [SongNext]_songVars => SongInv'
  BY SongStep
<1> QED
  BY <1>1, <1>2, PTL DEF SongSpec

\* What plays is what a save would store, whatever waveform edits, edits of the properties,
\* undo and the limits of the history follow each other (replace_sample_buffer and the
\* closures of set_sample_meta and apply_sample_edit).
THEOREM PlayedIsStoredHolds == SongSpec => []PlayedIsStored
<1>1. SongInv => PlayedIsStored
  BY DEF SongInv, SongSound, SongMade, IsSample, PlayedIsStored
<1> QED
  BY <1>1, SongInvHolds, PTL

\* A song whose history leads to it can be undone edit by edit.
LEMMA EachIsFound == ASSUME SongSound PROVE UndoFindsItsEdit
<1>1. PICK v : History!HistoryOf(songHistory, HereAt(v))
  BY Zenon DEF SongSound, SongMade
<1>2. PICK mid : History!Past(songHistory.past, mid) /\ History!Path(songHistory.group, mid, HereAt(v))
  BY <1>1, Zenon DEF History!HistoryOf
<1>3. PICK start : History!Path(History!EditsOf(songHistory.past), start, mid)
  BY <1>2, HistoryAssumption, History!PastIsPath
<1>4. PICK all : all = History!EditsOf(songHistory.past) \o songHistory.group
  OBVIOUS
<1>5. History!Path(all, start, HereAt(v))
  BY <1>2, <1>3, <1>4, HistoryAssumption, History!PathJoins
<1>6. Finding!Path(all, start, HereAt(v))
  BY <1>5, Zenon DEF History!Path, Finding!Path, History!Trail, Finding!Trail
<1>7. PICK found : found = [song |-> Song, ok |-> TRUE]
  OBVIOUS
<1>8. FoundShows(found, HereAt(v))
  <2>1. found.song = Song /\ found = [song |-> found.song, ok |-> TRUE]
    BY <1>7
  <2> QED
    BY <2>1, SongIsShown, Zenon DEF FoundShows
<1>9. Finding!BackShows
  BY Unwinds, Zenon DEF Finding!BackShows
<1>10. FoundShows(Finding!Unmade(found, all), start)
  BY <1>6, <1>8, <1>9, HistoryAssumption, Finding!BackAlong
<1>11. Finding!Unmade(found, all).ok
  BY <1>10 DEF FoundShows
<1>12. all = FoldLeft(LAMBDA past, e : past \o e.edits, <<>>, songHistory.past) \o songHistory.group
  BY <1>4, ZenonT(60) DEF History!EditsOf, FoldLeft, MapThenFoldSet, History!FoldLeft, History!MapThenFoldSet, Max, History!Max
<1>13. FoldLeft(Unwind, found, Reverse(all)) = Finding!Unmade(found, all)
  BY ZenonT(60) DEF Finding!Unmade, FoldLeft, MapThenFoldSet, Finding!FoldLeft, Finding!MapThenFoldSet, Max, Finding!Max,
                    Reverse, Finding!Reverse
<1> QED
  BY <1>7, <1>11, <1>12, <1>13, Zenon DEF UndoFindsItsEdit

\* Undoing, from any state, entry by entry, finds each thing as its edit left it: no edit that
\* stays out of the history, no limit of it and no group comes between (app/undo.cpp).
THEOREM UndoFindsItsEditHolds == SongSpec => []UndoFindsItsEdit
<1>1. SongInv => UndoFindsItsEdit
  BY EachIsFound DEF SongInv
<1> QED
  BY <1>1, SongInvHolds, PTL

-----------------------------------------------------------------------------
(* The song stays one the engine can play.                                 *)

\* Every step leaves a song the engine can take for granted.
LEMMA FitsStep == ASSUME SongInv, SongFits, [SongNext]_songVars, SongInv' PROVE SongFits'
<1>1. SongSound /\ SongMade /\ SongMade'
  BY Zenon DEF SongInv, SongSound
<1>2. ASSUME UNCHANGED <<patterns, orders, seqs, fxs>> PROVE SongFits'
  BY <1>2, FitsStay
<1>3. ASSUME Alike(patterns, patterns'), UNCHANGED <<orders, seqs, fxs>> PROVE SongFits'
  BY <1>1, <1>3, FitsAlike
<1>4. ASSUME NEW cells, NEW value, GroupEdit(cells, value) PROVE UNCHANGED <<orders, seqs, fxs>>
  BY <1>4, Zenon DEF GroupEdit, SameSong
<1>5. ASSUME CreatePattern(2) PROVE SongFits'
  BY <1>1, <1>5, CreateFits
<1>6. ASSUME NEW k, DeletePattern(k) \/ (\E n \in {0, 2, RowLimit + 1} : ResizePattern(k, n)) PROVE SongFits'
  <2>1. \A n \in {0, 2, RowLimit + 1} : n \in Int
    BY SongAssumption
  <2> QED
    BY <1>1, <1>6, <2>1, DeleteFits, ResizeFits, Zenon
<1>7. ASSUME NEW k \in DOMAIN patterns, OrderInsert(9, k - 1) \/ OrderSet(0, k - 1) \/ SetOrderList(<<k - 1, 0>>) PROVE SongFits'
  <2>1. k \in Int
    <3>1. PICK n \in Nat : DOMAIN patterns = 1..n
      BY <1>1, AnyList, Zenon DEF SongSound, SongMade, ArePatterns
    <3> QED
      BY <3>1
  <2>2. PICK id \in Int : id = k - 1
    BY <2>1
  <2>3. 9 \in Int /\ 0 \in Int /\ <<id, 0>> \in Seq(Int)
    OBVIOUS
  <2> QED
    BY <1>1, <1>7, <2>2, <2>3, OrderEditsFit, OrderListFits, Zenon
<1>8. ASSUME NEW i \in DOMAIN orders, OrderRemove(i - 1) \/ OrderMove(i - 1, 1) PROVE SongFits'
  <2>1. orders \in Seq(Int)
    BY <1>1, OrdersRead, Zenon DEF SongSound, SongMade, SongFits
  <2>2. PICK at \in Int : at = i - 1
    BY <2>1
  <2>3. 1 \in Int
    OBVIOUS
  <2> QED
    BY <1>1, <1>8, <2>2, <2>3, OrderEditsFit, Zenon
<1>9. ASSUME NEW s, SetSpeed(s) PROVE SongFits'
  BY <1>2, <1>9, Zenon DEF SetSpeed
<1>10. ASSUME NEW k, NEW start \in {0, 5}, AddNote(k, SeqNote(60, start, 4, 100)) PROVE SongFits'
  <2>1. PICK note : note = SeqNote(60, start, 4, 100)
    OBVIOUS
  <2>2. note \in PlayNote
    BY <2>1 DEF SeqNote, PlayNote, MaxPitch, MaxVelocity
  <2> QED
    BY <1>1, <1>10, <2>1, <2>2, AddFits, Zenon
<1>11. ASSUME NEW k, RemoveNote(k, 1) \/ UseTool(k) \/ SetLayerInstrument(k) PROVE SongFits'
  BY <1>1, <1>11, RemoveNoteFits, UseToolFits, LayerFits, Zenon
<1>12. ASSUME NEW at, NEW cell, SetCell(at, cell) PROVE SongFits'
  <2>1. Alike(patterns, patterns') /\ UNCHANGED <<orders, seqs, fxs>>
    BY <1>1, <1>12, SetCellKeeps, Zenon DEF SetCell, SameSong
  <2> QED
    BY <1>3, <2>1
<1>13. ASSUME NEW s \in Selections, Copy(s) PROVE SongFits'
  BY <1>2, <1>13, Zenon DEF Copy, SameSong
<1>14. ASSUME NEW s \in Selections, Cut(s) \/ ClearCells(s) \/ Interpolate(s) \/ \E n \in Shifts : TransposeCells(s, n)
       PROVE  SongFits'
  <2>1. Alike(patterns, patterns')
    BY <1>1, <1>14, BlockOperationsKeep, Zenon
  <2>2. \E cells, value : GroupEdit(cells, value)
    BY <1>14, Zenon DEF Cut, ClearCells, Interpolate, TransposeCells
  <2> QED
    BY <1>3, <1>4, <2>1, <2>2, Zenon
<1>15. ASSUME NEW p, NEW r \in {0, 1}, Paste(p, r, 1) PROVE SongFits'
  <2>1. r \in Int /\ 1 \in Int
    OBVIOUS
  <2>2. Alike(patterns, patterns')
    BY <1>1, <1>15, <2>1, PasteKeeps, Zenon
  <2>3. \E cells, value : GroupEdit(cells, value)
    BY <1>15, Zenon DEF Paste
  <2> QED
    BY <1>3, <1>4, <2>2, <2>3, Zenon
<1>16. ASSUME SoundNext PROVE SongFits'
  <2>1. CASE UndoEdit \/ RedoEdit
    <3>1. Alike(patterns, patterns')
      BY <2>1, SongUndone, Zenon
    <3>2. UNCHANGED <<orders, seqs, fxs>>
      BY <2>1, Zenon DEF UndoEdit, RedoEdit, Rewritten
    <3> QED
      BY <1>3, <3>1, <3>2
  <2>2. CASE LoadSample \/ ClearSlot \/ SetSampleMeta \/ ApplySampleEdit
    BY <1>2, <2>2, Zenon DEF LoadSample, ClearSlot, SetSampleMeta, ApplySampleEdit, OfSong
  <2> QED
    BY <1>16, <2>1, <2>2, Zenon DEF SoundNext
<1>17. ASSUME NEW s \in Songs, OpenSong(s) PROVE SongFits'
  BY <1>17, OpenFits
<1>18. ASSUME NEW c, AddFxChannel \/ RemoveFxChannel(c) \/ AddFxModule(c) \/ RemoveFxModule(c) PROVE SongFits'
  BY <1>2, <1>18, Zenon DEF AddFxChannel, RemoveFxChannel, AddFxModule, RemoveFxModule, NewStrips
<1>19. ASSUME UNCHANGED songVars PROVE SongFits'
  BY <1>2, <1>19, Zenon DEF songVars
<1> QED
  BY <1>5, <1>6, <1>7, <1>8, <1>9, <1>10, <1>11, <1>12, <1>13, <1>14, <1>15, <1>16, <1>17, <1>18, <1>19, Zenon DEF SongNext

\* That is what the engine takes for granted.
LEMMA FitIsPlayable == ASSUME SongInv, SongFits PROVE Playable
<1>1. ArePatterns(patterns)
  BY Zenon DEF SongInv, SongSound, SongMade
<1>2. PICK n \in Nat : n = Len(patterns) /\ DOMAIN patterns = 1..n
  BY <1>1, AnyList, Zenon DEF ArePatterns
<1>3. orders # <<>> /\ \A i \in DOMAIN orders : orders[i] + 1 \in DOMAIN patterns
  BY <1>1, OrdersRead, Zenon DEF SongFits
<1>4. \A k \in DOMAIN patterns : patterns[k].id = k - 1 /\ patterns[k].rows # <<>>
  BY <1>1, Zenon DEF SongFits, InPlace, ArePatterns, IsPattern
<1>5. DOMAIN seqs \subseteq DOMAIN patterns
  <2>1. PICK l \in Nat : l = Len(seqs) /\ DOMAIN seqs = 1..l
    BY AnyList, Zenon DEF SongFits, SeqsFit
  <2>2. l <= n
    BY <1>2, <2>1, Zenon DEF SongFits, SeqsFit
  <2> QED
    BY <1>2, <2>1, <2>2
<1>6. DOMAIN fxs \subseteq DOMAIN patterns
  <2>1. PICK l \in Nat : l = Len(fxs) /\ DOMAIN fxs = 1..l
    BY AnyList, Zenon DEF SongFits, FxsFit
  <2>2. l <= n
    BY <1>2, <2>1, Zenon DEF SongFits, FxsFit
  <2> QED
    BY <1>2, <2>1, <2>2
<1>7. ASSUME NEW k \in DOMAIN seqs
      PROVE  /\ seqs[k].born = patterns[k].born
             /\ \A i, j \in DOMAIN seqs[k].notes :
                    /\ i < j => seqs[k].notes[i].start <= seqs[k].notes[j].start
                    /\ seqs[k].notes[i] \in [pitch : 0..MaxPitch, start : Nat, dur : Nat \ {0}, vel : 0..MaxVelocity]
  <2>1. seqs[k].born = patterns[k].born
    BY Zenon DEF SongFits, SeqsFit
  <2>2. PICK notes : notes = seqs[k].notes /\ notes \in Seq(PlayNote) /\ Sorted(notes)
    BY Zenon DEF SongFits, SeqsFit, IsEntry
  <2>3. \A i \in DOMAIN notes : notes[i] \in PlayNote
    BY <2>2
  <2> QED
    BY <2>1, <2>2, <2>3, Zenon DEF Sorted, PlayNote
<1>8. \A k \in DOMAIN fxs : fxs[k] = [born |-> patterns[k].born, rows |-> Len(patterns[k].rows)]
  BY Zenon DEF SongFits, FxsFit
<1> QED
  BY <1>3, <1>4, <1>5, <1>6, <1>7, <1>8, Zenon DEF Playable

\* Whatever edits made a song, and undid it, the engine may take for granted what it does: an
\* order names a pattern, a pattern is where its id says and has a row, and the automation and
\* the notes at its index are its own, as long as it is, in the order of time and where a note
\* can be (project_session.cpp keeps them in arrays of their own, sequence_ops.cpp makes notes).
THEOREM PlayableHolds == SongSpec => []Playable
<1>1. SongInit => SongInv /\ SongFits
  BY SongStarts, StartFits
<1>2. SongInv /\ SongFits /\ [SongNext]_songVars => SongInv' /\ SongFits'
  BY SongStep, FitsStep
<1>3. SongInv /\ SongFits => Playable
  BY FitIsPlayable
<1> QED
  BY <1>1, <1>2, <1>3, PTL DEF SongSpec
=============================================================================
