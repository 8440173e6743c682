--------------------------- MODULE SessionProofs ---------------------------
(***************************************************************************)
(* The session: the server of the local API, which answers each request    *)
(* once; the song and its history under the batches of its clients, each   *)
(* of them one step to undo; and the shell, whose autosaves survive each   *)
(* other.                                                                  *)
(***************************************************************************)
EXTENDS LocalApi, AppShell, SongProofs

-----------------------------------------------------------------------------
(***************************************************************************)
(* The local API. The invariant numbers the requests: those answered, the  *)
(* one in hand, those swapped out and those queued follow each other, and  *)
(* a server that is not running has none in hand.                          *)
(***************************************************************************)

\* What the server keeps of a batch in hand, of a request and of an answer.
IsBatch(b) == b = [id |-> b.id, left |-> b.left, failed |-> b.failed, ops |-> b.ops, song |-> b.song]
Requests == [id : Nat, batch : Batches]
Replies == [id : Nat, ok : BOOLEAN]

\* The requests in hand; and a list whose numbers go on from the given one.
InHand == IF batch = NoBatch THEN 0 ELSE 1
Numbered(list, from) == \A i \in 1..Len(list) : list[i].id = from + i

ServerInv ==
    /\ queue \in Seq(Requests) /\ work \in Seq(Requests) /\ answers \in Seq(Replies)
    /\ batch = NoBatch \/ (IsBatch(batch) /\ batch.id = Len(answers) + 1)
    /\ batch # NoBatch => batch.failed \in BOOLEAN
    /\ Numbered(answers, 0) /\ Numbered(work, Len(answers) + InHand)
    /\ Numbered(queue, Len(answers) + InHand + Len(work))
    /\ serving # "running" => Quiet
    /\ taken = Len(answers) + InHand + Len(work) + Len(queue)

serverVars == <<serving, queue, work, batch, taken, answers>>

\* A batch in hand is told from none.
LEMMA BatchOrNot == ASSUME NEW b, IsBatch(b) PROVE b # NoBatch
<1>1. "left" \in DOMAIN b
  BY DEF IsBatch
<1>2. "left" \notin DOMAIN NoBatch
  BY DEF NoBatch
<1> QED
  BY <1>1, <1>2

\* The lengths of the lists are numbers, and so is what they hold.
LEMMA Counts ==
    ASSUME ServerInv
    PROVE  /\ Len(answers) \in Nat /\ Len(work) \in Nat /\ Len(queue) \in Nat /\ InHand \in {0, 1} /\ taken \in Nat
           /\ \A d \in Requests \cup Replies : d.id \in Nat
           /\ answers \in Seq(Replies) /\ work \in Seq(Requests) /\ queue \in Seq(Requests)
<1>1. InHand \in {0, 1}
  BY DEF InHand
<1>2. Len(answers) \in Nat /\ Len(work) \in Nat /\ Len(queue) \in Nat
  BY DEF ServerInv
<1>3. taken \in Nat
  BY <1>1, <1>2 DEF ServerInv
<1>4. \A d \in Requests \cup Replies : d.id \in Nat
  BY DEF Requests, Replies
<1> QED
  BY <1>1, <1>2, <1>3, <1>4 DEF ServerInv

\* A step that leaves the lists alone.
LEMMA QuietKeeps == ASSUME ServerInv, UNCHANGED serverVars PROVE ServerInv'
BY DEF ServerInv, serverVars, InHand, Numbered, IsBatch, Quiet

\* A request that is accepted takes the next number.
LEMMA RequestKeeps == ASSUME ServerInv, NEW c, NEW b \in Batches, Request(c, b) PROVE ServerInv'
<1>0. UNCHANGED <<answers, work, batch>>
  BY DEF Request, SameWork
<1>1. CASE UNCHANGED <<queue, taken>>
  BY <1>0, <1>1, QuietKeeps DEF serverVars, Request, SameWork
<1>2. CASE queue' = Append(queue, [id |-> taken + 1, batch |-> b]) /\ taken' = taken + 1
  <2>1. InHand \in Nat /\ taken \in Nat
    BY DEF ServerInv, InHand
  <2>2. [id |-> taken + 1, batch |-> b] \in Requests
    BY <2>1 DEF Requests
  <2>3. queue' \in Seq(Requests) /\ Len(queue') = Len(queue) + 1
    BY <1>2, <2>2 DEF ServerInv
  <2>4. Numbered(queue', Len(answers) + InHand + Len(work))
    BY <1>2, <2>1, <2>2, <2>3 DEF ServerInv, Numbered
  <2>5. InHand' = InHand
    BY <1>0 DEF InHand
  <2>6. UNCHANGED serving
    BY DEF Request, SameWork
  <2>8. taken' = Len(answers') + InHand' + Len(work') + Len(queue')
    BY <1>0, <1>2, <2>3, <2>5, Counts DEF ServerInv
  <2>9. Numbered(queue', Len(answers') + InHand' + Len(work')) /\ Numbered(work', Len(answers') + InHand') /\ Numbered(answers', 0)
    BY <1>0, <2>4, <2>5 DEF ServerInv
  <2> QED
    BY <1>0, <2>3, <2>6, <2>8, <2>9 DEF ServerInv, IsBatch, Quiet
<1> QED
  BY <1>1, <1>2 DEF Request

\* A server that starts or stops has nothing in hand, and forgets what was queued.
LEMMA RestartKeeps == ASSUME ServerInv, Opened \/ Stop PROVE ServerInv'
<1>1. Quiet /\ UNCHANGED <<work, batch>>
  BY DEF ServerInv, Opened, Stop
<1>2. queue' = <<>> /\ answers' = <<>> /\ taken' = 0
  BY DEF Opened, Stop, NobodyThere
<1>3. work' = <<>> /\ batch' = NoBatch /\ Quiet'
  BY <1>1 DEF Quiet
<1>4. InHand' = 0
  BY <1>3 DEF InHand
<1>5. Numbered(queue', 0) /\ Numbered(work', 0) /\ Numbered(answers', 0)
  BY <1>2, <1>3 DEF Numbered
<1> QED
  BY <1>2, <1>3, <1>4, <1>5 DEF ServerInv, Numbered

\* The queue is swapped out as a whole.
LEMMA DrainKeeps == ASSUME ServerInv, Drain PROVE ServerInv'
BY DEF ServerInv, Drain, Quiet, SameServer, InHand, Numbered

\* An answer without a batch is to the first request swapped out.
LEMMA AnswerAtOnceKeeps == ASSUME ServerInv, AnswerAtOnce PROVE ServerInv'
<1> USE DEF ServerInv
<1>1. PICK ok : Answer(Head(work).id, ok) /\ ok \in BOOLEAN
  BY DEF AnswerAtOnce, Accepted
<1>2. batch = NoBatch /\ batch' = NoBatch /\ work # <<>> /\ work' = Tail(work) /\ UNCHANGED <<queue, taken, serving>>
  BY DEF AnswerAtOnce, SameServer
<1>3. Head(work).id = Len(answers) + 1 /\ Head(work) \in Requests /\ Len(work) > 0
  BY <1>2 DEF Numbered, InHand
<1>4. work' \in Seq(Requests) /\ Len(work') = Len(work) - 1 /\ \A i \in 1..Len(work') : work'[i] = work[i + 1]
  BY <1>2
<1>5. answers' = Append(answers, [id |-> Head(work).id, ok |-> ok])
  BY <1>1 DEF Answer
<1>6. [id |-> Head(work).id, ok |-> ok] \in Replies
  BY <1>1, <1>3 DEF Replies, Requests
<1>7. answers' \in Seq(Replies) /\ Len(answers') = Len(answers) + 1
  BY <1>5, <1>6
<1>8. Numbered(answers', 0)
  BY <1>3, <1>5, <1>6, <1>7 DEF Numbered
<1>9. Numbered(work', Len(answers'))
  BY <1>2, <1>3, <1>4, <1>7 DEF Numbered, InHand
<1> QED
  BY <1>2, <1>4, <1>7, <1>8, <1>9 DEF Numbered, InHand, Quiet

\* The batch in hand is the first request swapped out.
LEMMA BeginBatchKeeps == ASSUME ServerInv, BeginBatch PROVE ServerInv'
<1>1. /\ batch = NoBatch /\ IsBatch(batch') /\ batch'.id = Head(work).id /\ batch'.failed = FALSE
      /\ work # <<>> /\ work' = Tail(work) /\ UNCHANGED <<queue, taken, answers, serving>>
  BY DEF BeginBatch, SameServer, IsBatch
<1>2. batch' # NoBatch
  BY <1>1, BatchOrNot
<1>3. InHand = 0 /\ InHand' = 1
  BY <1>1, <1>2 DEF InHand
<1>4. /\ Len(work) > 0 /\ Head(work) = work[1] /\ work' \in Seq(Requests) /\ Len(work') = Len(work) - 1
      /\ \A i \in 1..Len(work') : work'[i] = work[i + 1]
  BY <1>1, Counts
<1>5. \A i \in 1..Len(work) : work[i].id = Len(answers) + i
  BY <1>3, Counts DEF ServerInv, Numbered
<1>6. batch'.id = Len(answers') + 1
  BY <1>1, <1>4, <1>5, Counts
<1>7. Numbered(work', Len(answers') + InHand')
  <2> SUFFICES ASSUME NEW i \in 1..Len(work') PROVE work'[i].id = Len(answers) + 1 + i
    BY <1>1, <1>3 DEF Numbered
  <2>1. i + 1 \in 1..Len(work) /\ i \in Nat
    BY <1>4, Counts
  <2>2. work'[i].id = Len(answers) + (i + 1)
    BY <2>1, <1>4, <1>5
  <2> QED
    BY <2>1, <2>2, Counts
<1>8. Len(answers') + InHand' + Len(work') = Len(answers) + InHand + Len(work)
  BY <1>1, <1>3, <1>4, Counts
<1>9. serving' = "running"
  BY <1>1 DEF ServerInv, Quiet
<1>10. Numbered(queue', Len(answers') + InHand' + Len(work')) /\ Numbered(answers', 0)
  BY <1>1, <1>8 DEF ServerInv
<1>11. taken' = Len(answers') + InHand' + Len(work') + Len(queue')
  BY <1>1, <1>8 DEF ServerInv
<1>12. answers' \in Seq(Replies) /\ queue' \in Seq(Requests)
  BY <1>1, Counts
<1> QED
  BY <1>1, <1>4, <1>6, <1>7, <1>9, <1>10, <1>11, <1>12 DEF ServerInv

\* A command of the batch leaves the batch what it is an answer to.
LEMMA ApplyNextKeeps == ASSUME ServerInv, ApplyNext PROVE ServerInv'
<1>1. batch # NoBatch /\ IsBatch(batch)
  BY DEF ServerInv, ApplyNext
<1>2. UNCHANGED <<queue, work, answers, taken, serving>>
  BY DEF ApplyNext, SameServer
<1>3. IsBatch(batch') /\ batch'.id = batch.id /\ batch'.failed \in BOOLEAN
  <2>1. batch' = [batch EXCEPT !.left = Tail(batch.left)] \/ batch' = [batch EXCEPT !.failed = TRUE]
    BY Zenon DEF ApplyNext
  <2>2. batch.failed \in BOOLEAN
    BY <1>1 DEF ServerInv
  <2> QED
    BY <2>1, <2>2, <1>1 DEF IsBatch
<1> QED
  BY <1>1, <1>2, <1>3, BatchOrNot DEF ServerInv, Numbered, InHand, Quiet

\* The answer to a batch is the next.
LEMMA EndBatchKeeps == ASSUME ServerInv, EndBatch PROVE ServerInv'
<1> USE DEF ServerInv
<1>1. batch # NoBatch /\ batch' = NoBatch /\ UNCHANGED <<queue, work, taken, serving>>
  BY DEF EndBatch, SameServer
<1>2. answers' = Append(answers, [id |-> batch.id, ok |-> ~batch.failed])
  BY DEF EndBatch, Answer
<1>3. [id |-> batch.id, ok |-> ~batch.failed] \in Replies
  BY <1>1 DEF Replies
<1>4. answers' \in Seq(Replies) /\ Len(answers') = Len(answers) + 1 /\ Numbered(answers', 0)
  BY <1>1, <1>2, <1>3 DEF Numbered
<1> QED
  BY <1>1, <1>4 DEF Numbered, InHand, Quiet

\* The invariant holds from the start, and every step keeps it.
LEMMA ServerInvHolds == ApiSpec => []ServerInv
<1>1. ApiInit => ServerInv
  BY DEF ApiInit, ServerInv, InHand, Numbered, Quiet
<1>2. ASSUME ServerInv, [ApiNext]_<<apiVars, songVars>> PROVE ServerInv'
  <2>1. CASE UNCHANGED <<apiVars, songVars>>
    BY <1>2, <2>1, QuietKeeps DEF apiVars, serverVars
  <2>2. ASSUME NEW c \in ApiClients, NEW good, Join(c) \/ Leave(c) \/ Hello(c, good) PROVE ServerInv'
    BY <1>2, <2>2, QuietKeeps DEF Join, Leave, Hello, SameWork, serverVars
  <2>3. CASE UserEdit
    BY <1>2, <2>3, QuietKeeps DEF UserEdit, apiVars, serverVars
  <2>4. CASE Start
    BY <1>2, <2>4 DEF Start, ServerInv, Quiet, InHand, Numbered
  <2> QED
    BY <1>2, <2>1, <2>2, <2>3, <2>4, RestartKeeps, RequestKeeps, DrainKeeps, AnswerAtOnceKeeps, BeginBatchKeeps, ApplyNextKeeps, EndBatchKeeps
      DEF ApiNext
<1> QED
  BY <1>1, <1>2, PTL DEF ApiSpec

\* The numbers of a list that counts on from n.
LEMMA IdsNumbered ==
    ASSUME NEW D, \A d \in D : d.id \in Nat, NEW s \in Seq(D), NEW n \in Nat, Numbered(s, n)
    PROVE  IdsOf(s) \in Seq(Nat) /\ Len(IdsOf(s)) = Len(s) /\ \A i \in 1..Len(s) : IdsOf(s)[i] = n + i
<1>1. IdsOf(s) = [i \in 1..Len(s) |-> s[i].id]
  BY DEF IdsOf
<1>2. IdsOf(s) \in Seq(Nat) /\ Len(IdsOf(s)) = Len(s)
  BY <1>1
<1> QED
  BY <1>1, <1>2 DEF Numbered

\* Two lists that count, the second on from the first, count together.
LEMMA CountOn ==
    ASSUME NEW a \in Seq(Nat), NEW b \in Seq(Nat),
           \A i \in 1..Len(a) : a[i] = i, \A i \in 1..Len(b) : b[i] = Len(a) + i
    PROVE  a \o b \in Seq(Nat) /\ Len(a \o b) = Len(a) + Len(b) /\ \A i \in 1..(Len(a) + Len(b)) : (a \o b)[i] = i
<1>1. /\ a \o b \in Seq(Nat) /\ Len(a \o b) = Len(a) + Len(b)
      /\ \A i \in 1..(Len(a) + Len(b)) : (a \o b)[i] = IF i <= Len(a) THEN a[i] ELSE b[i - Len(a)]
  BY ConcatProperties
<1>2. ASSUME NEW i \in 1..(Len(a) + Len(b)) PROVE (a \o b)[i] = i
  <2>1. Len(a) \in Nat /\ Len(b) \in Nat
    OBVIOUS
  <2>2. CASE i <= Len(a)
    BY <1>1, <2>1, <2>2
  <2>3. CASE ~(i <= Len(a))
    <3>1. i - Len(a) \in 1..Len(b)
      BY <2>1, <2>3
    <3> QED
      BY <1>1, <2>1, <2>3, <3>1
  <2> QED
    BY <2>2, <2>3
<1> QED
  BY <1>1, <1>2

\* The invariant puts the four lists in one line.
LEMMA InLine == ASSUME ServerInv PROVE RequestsAnswered
<1> DEFINE hand == IF batch = NoBatch THEN <<>> ELSE <<batch.id>>
<1>0. /\ Numbered(answers, 0) /\ Numbered(work, Len(answers) + InHand)
      /\ Numbered(queue, Len(answers) + InHand + Len(work))
      /\ Len(answers) + InHand \in Nat /\ Len(answers) + InHand + Len(work) \in Nat
  BY Counts DEF ServerInv
<1>1. IdsOf(answers) \in Seq(Nat) /\ Len(IdsOf(answers)) = Len(answers) /\ \A i \in 1..Len(answers) : IdsOf(answers)[i] = i
  <2>1. \A i \in 1..Len(answers) : IdsOf(answers)[i] = 0 + i
    BY <1>0, Counts, IdsNumbered
  <2>2. IdsOf(answers) \in Seq(Nat) /\ Len(IdsOf(answers)) = Len(answers)
    BY <1>0, Counts, IdsNumbered
  <2> QED
    BY <2>1, <2>2, Counts
<1>2. hand \in Seq(Nat) /\ Len(hand) = InHand /\ (InHand = 1 => hand[1] = Len(answers) + 1)
  BY Counts DEF InHand, ServerInv
<1>3. IdsOf(work) \in Seq(Nat) /\ Len(IdsOf(work)) = Len(work) /\ \A i \in 1..Len(work) : IdsOf(work)[i] = Len(answers) + InHand + i
  BY <1>0, Counts, IdsNumbered
<1>4. IdsOf(queue) \in Seq(Nat) /\ Len(IdsOf(queue)) = Len(queue) /\ \A i \in 1..Len(queue) : IdsOf(queue)[i] = Len(answers) + InHand + Len(work) + i
  BY <1>0, Counts, IdsNumbered
<1> HIDE DEF hand
<1>5. IdsOf(answers) \o hand \o IdsOf(work) \o IdsOf(queue) = [i \in 1..taken |-> i]
  <2>1. PICK a \in Seq(Nat), h \in Seq(Nat), w \in Seq(Nat), q \in Seq(Nat) : a = IdsOf(answers) /\ h = hand /\ w = IdsOf(work) /\ q = IdsOf(queue)
    BY <1>1, <1>2, <1>3, <1>4
  <2>2. taken = Len(a) + Len(h) + Len(w) + Len(q)
    BY <2>1, <1>1, <1>2, <1>3, <1>4 DEF ServerInv
  <2>3. \A i \in 1..Len(a) : a[i] = i
    BY <2>1, <1>1
  <2>4. \A i \in 1..Len(h) : h[i] = Len(a) + i
    BY <2>1, <1>1, <1>2, Counts
  <2>5. \A i \in 1..Len(w) : w[i] = Len(a) + Len(h) + i
    BY <2>1, <1>1, <1>2, <1>3
  <2>6. \A i \in 1..Len(q) : q[i] = Len(a) + Len(h) + Len(w) + i
    BY <2>1, <1>1, <1>2, <1>3, <1>4
  <2>7. a \o h \in Seq(Nat) /\ Len(a \o h) = Len(a) + Len(h) /\ \A i \in 1..(Len(a) + Len(h)) : (a \o h)[i] = i
    BY <2>3, <2>4, CountOn
  <2>8. PICK b \in Seq(Nat) : b = a \o h
    BY <2>7
  <2>17. Len(b) = Len(a) + Len(h) /\ \A i \in 1..Len(b) : b[i] = i
    BY <2>7, <2>8, Zenon
  <2>18. \A i \in 1..Len(w) : w[i] = Len(b) + i
    BY <2>5, <2>17
  <2>9. b \o w \in Seq(Nat) /\ Len(b \o w) = Len(b) + Len(w) /\ \A i \in 1..(Len(b) + Len(w)) : (b \o w)[i] = i
    BY <2>17, <2>18, CountOn
  <2>10. PICK d \in Seq(Nat) : d = b \o w
    BY <2>9
  <2>11. d \o q \in Seq(Nat) /\ Len(d \o q) = Len(d) + Len(q) /\ \A i \in 1..(Len(d) + Len(q)) : (d \o q)[i] = i
    BY <2>7, <2>8, <2>9, <2>10, <2>6, CountOn
  <2>12. Len(d \o q) = taken
    BY <2>2, <2>7, <2>8, <2>9, <2>10, <2>11
  <2>13. PICK all \in Seq(Nat) : all = d \o q
    BY <2>11
  <2>14. Len(all) = taken /\ \A i \in 1..Len(all) : all[i] = i
    BY <2>11, <2>12, <2>13
  <2>15. all = [i \in 1..Len(all) |-> all[i]]
    OBVIOUS
  <2>16. d \o q = [i \in 1..taken |-> i]
    BY <2>13, <2>14, <2>15
  <2> QED
    BY <2>1, <2>8, <2>10, <2>16
<1> QED
  BY <1>5, Zenon DEF RequestsAnswered, hand

\* Every request that the server accepted is answered once, in the order of
\* acceptance, whatever the connections do meanwhile.
THEOREM RequestsAnsweredHolds == ApiSpec => []RequestsAnswered
BY ServerInvHolds, InLine, PTL

-----------------------------------------------------------------------------
(***************************************************************************)
(* The batches of the local API and the history of the song. An edit that  *)
(* is told to the history as it was is taken back exactly, so that the     *)
(* members of the batch's group lead from the song the batch began on to   *)
(* the song as it is.                                                      *)
(***************************************************************************)

\* An edit that undoing takes back exactly.
ExactLinks(e, s, t) == EditLinks(e, s, t) /\ Unwrite(t, e) = s
Same(a, s) == a = s
Exact == INSTANCE HistoryLemmas WITH Links <- ExactLinks, Shows <- Same, Back <- Unwrite, Forth <- Rewrite

\* So is any edit that knows the speed it changed.
LEMMA EditIsExact ==
    ASSUME NEW e, NEW s, NEW t, EditLinks(e, s, t), e.what = "speed" => e.before = s.speed
    PROVE  ExactLinks(e, s, t)
<1>1. /\ s = [patterns |-> s.patterns, sample |-> s.sample, speed |-> s.speed] /\ IsScene(t)
      /\ t = [patterns |-> t.patterns, sample |-> t.sample, speed |-> t.speed]
  BY Zenon DEF EditLinks, IsScene
<1>2. SongLooks(t, t)
  BY <1>1, Zenon DEF SongLooks
<1>3. PICK b : b = Unwrite(t, e)
  OBVIOUS
<1>4. b = [patterns |-> s.patterns, sample |-> s.sample, speed |-> b.speed]
  BY <1>2, <1>3, LooksUnwritten, Zenon DEF SongLooks
<1>5. b.speed = s.speed
  <2>1. CASE CellLinks(e, s, t)
    <3>1. b = [t EXCEPT !.patterns = Put(@, e.at, e.before)] /\ t.speed = s.speed
      BY <1>3, <2>1, Zenon DEF Unwrite, Write, CellLinks
    <3> QED
      BY <1>1, <3>1
  <2>2. CASE SoundLinks(e, s, t)
    <3>1. t.speed = s.speed /\ e.what \in {"props", "audio"}
      BY <2>2, Zenon DEF SoundLinks
    <3>2. CASE e.what = "props"
      <4>1. b = [t EXCEPT !.sample.props = e.before.props, !.sample.data = e.before.data]
        BY <1>3, <3>2, Zenon DEF Unwrite, Write
      <4> QED
        BY <1>1, <3>1, <4>1
    <3>3. CASE e.what = "audio"
      <4>1. b = [t EXCEPT !.sample = e.before]
        BY <1>3, <3>3, Zenon DEF Unwrite, Write
      <4> QED
        BY <1>1, <3>1, <4>1
    <3> QED
      BY <3>1, <3>2, <3>3
  <2>3. CASE SpeedLinks(e, s, t)
    <3>1. b = [t EXCEPT !.speed = e.before] /\ e.before = s.speed
      BY <1>3, <2>3, Zenon DEF Unwrite, Write, SpeedLinks
    <3> QED
      BY <1>1, <3>1
  <2> QED
    BY <2>1, <2>2, <2>3, Zenon DEF EditLinks
<1> QED
  BY <1>1, <1>3, <1>4, <1>5, Zenon DEF ExactLinks

\* What leads exactly leads.
LEMMA ExactLeads == ASSUME NEW list, NEW s, NEW t, Exact!Path(list, s, t) PROVE History!Path(list, s, t)
BY Zenon DEF Exact!Path, History!Path, Exact!Trail, History!Trail, ExactLinks

\* Cells entered one after another, up to one that is out of place: those that were entered
\* lead exactly from the scene s to t.
ApplyStep(start, s, e) ==
    IF Inside(start.patterns, e.at) /\ s.ok
    THEN [s EXCEPT !.song = Put(@, e.at, Merged(s.song[e.at[1]].rows[e.at[2]][e.at[3]], e.set)),
                   !.edits = Append(@, CellEdit(e.at, s.song[e.at[1]].rows[e.at[2]][e.at[3]],
                                                Merged(s.song[e.at[1]].rows[e.at[2]][e.at[3]], e.set)))]
    ELSE [s EXCEPT !.ok = FALSE]
EnterAll(ps, start, cells) ==
    FoldLeft(LAMBDA s, e :
                IF Inside(ps, e.at) /\ s.ok
                THEN [s EXCEPT !.song = Put(@, e.at, Merged(s.song[e.at[1]].rows[e.at[2]][e.at[3]], e.set)),
                               !.edits = Append(@, CellEdit(e.at, s.song[e.at[1]].rows[e.at[2]][e.at[3]],
                                                            Merged(s.song[e.at[1]].rows[e.at[2]][e.at[3]], e.set)))]
                ELSE [s EXCEPT !.ok = FALSE],
             start, cells)
Entered(s, st, t) ==
    /\ st = [song |-> t.patterns, edits |-> st.edits, ok |-> st.ok]
    /\ Exact!Path(st.edits, s, t) /\ IsScene(t) /\ t.sample = s.sample /\ t.speed = s.speed
    /\ \A at : Inside(t.patterns, at) <=> Inside(s.patterns, at)
EnteredSoFar(s, done, st) == \E t : Entered(s, st, t)
Entering == INSTANCE FoldLemmas WITH Step <- ApplyStep, Holds <- EnteredSoFar

\* One more cell.
LEMMA EntersOneMore ==
    ASSUME NEW s, IsScene(s), NEW st, NEW t, Entered(s, st, t), NEW e
    PROVE  \E u : Entered(s, ApplyStep(s, st, e), u)
<1>1. PICK at, x : at = e.at /\ x = Merged(CellOf(st.song, at), e.set)
  OBVIOUS
<1>2. PICK edits, ok : st = [song |-> t.patterns, edits |-> edits, ok |-> ok]
  BY Zenon DEF Entered
<1>3. PICK edit : edit = CellEdit(at, CellOf(st.song, at), x)
  OBVIOUS
<1>4. CASE ~(Inside(s.patterns, at) /\ st.ok)
  <2>1. PICK g : g = [st EXCEPT !.ok = FALSE]
    OBVIOUS
  <2>2. ApplyStep(s, st, e) = g
    BY <1>1, <1>4, <2>1, Zenon DEF ApplyStep
  <2>3. g = [song |-> t.patterns, edits |-> g.edits, ok |-> g.ok] /\ g.edits = st.edits
    BY <1>2, <2>1
  <2>4. Entered(s, g, t)
    BY <2>3, Zenon DEF Entered
  <2> QED
    BY <2>2, <2>4, Zenon
<1>5. CASE Inside(s.patterns, at) /\ st.ok
  <2>1. PICK g : g = [st EXCEPT !.song = Put(st.song, at, x), !.edits = Append(st.edits, edit)]
    OBVIOUS
  <2>2. ApplyStep(s, st, e) = g
    BY <1>1, <1>3, <1>5, <2>1, Zenon DEF ApplyStep, CellOf
  <2>3. st.song = t.patterns
    BY <1>2
  <2>4. PICK u : u = [patterns |-> Put(t.patterns, at, x), sample |-> t.sample, speed |-> t.speed]
    OBVIOUS
  <2>5. u.patterns = Put(t.patterns, at, x) /\ u.sample = t.sample /\ u.speed = t.speed
    BY <2>4
  <2>6. IsScene(t) /\ ArePatterns(t.patterns) /\ IsSample(t.sample) /\ Inside(t.patterns, at)
    BY <1>5, Zenon DEF Entered, IsScene
  <2>7. ArePatterns(u.patterns) /\ \A b : Inside(u.patterns, b) <=> Inside(t.patterns, b)
    BY <2>5, <2>6, PutFacts
  <2>8. IsScene(u)
    BY <2>4, <2>5, <2>6, <2>7 DEF IsScene
  <2>9. edit.what = "cell" /\ edit.at = at /\ edit.before = CellOf(t.patterns, at) /\ edit.after = x
    BY <1>3, <2>3 DEF CellEdit
  <2>10. EditLinks(edit, t, u)
    BY <2>5, <2>6, <2>8, <2>9, Zenon DEF EditLinks, CellLinks
  <2>11. ExactLinks(edit, t, u)
    BY <2>9, <2>10, EditIsExact
  <2>12. Exact!Path(Append(st.edits, edit), s, u)
    <3>1. Exact!Path(st.edits, s, t)
      BY Zenon DEF Entered
    <3> QED
      BY <2>11, <3>1, HistoryAssumption, Exact!PathGoesOn
  <2>13. g = [song |-> u.patterns, edits |-> g.edits, ok |-> g.ok] /\ g.edits = Append(st.edits, edit)
    BY <1>2, <2>1, <2>3, <2>5
  <2>14. u.sample = s.sample /\ u.speed = s.speed /\ \A b : Inside(u.patterns, b) <=> Inside(s.patterns, b)
    BY <2>5, <2>7, Zenon DEF Entered
  <2>15. Entered(s, g, u)
    BY <2>8, <2>12, <2>13, <2>14, Zenon DEF Entered
  <2> QED
    BY <2>2, <2>15, Zenon
<1> QED
  BY <1>4, <1>5

NoneEntered(ps) == [song |-> ps, edits |-> <<>>, ok |-> TRUE]

\* All of them, or those before the first that is out of place.
LEMMA EnterAllLeads ==
    ASSUME NEW s, IsScene(s), NEW C, NEW cells \in Seq(C)
    PROVE  \E t : Entered(s, EnterAll(s.patterns, NoneEntered(s.patterns), cells), t)
<1>1. PICK none : none = NoneEntered(s.patterns)
  OBVIOUS
<1>2. EnteredSoFar(s, <<>>, none)
  <2>1. Exact!Path(<<>>, s, s)
    BY HistoryAssumption, Exact!PathNone
  <2>2. none.edits = <<>> /\ none = [song |-> s.patterns, edits |-> none.edits, ok |-> none.ok]
    BY <1>1 DEF NoneEntered
  <2>3. Entered(s, none, s)
    BY <2>1, <2>2, Zenon DEF Entered
  <2> QED
    BY <2>3, Zenon DEF EnteredSoFar
<1>3. ASSUME NEW done \in Seq(C), NEW x \in C, NEW st, EnteredSoFar(s, done, st)
      PROVE  EnteredSoFar(s, Append(done, x), ApplyStep(s, st, x))
  BY <1>3, EntersOneMore, Zenon DEF EnteredSoFar
<1>4. EnteredSoFar(s, cells, Entering!Fold(s, none, cells))
  BY <1>2, <1>3, Entering!FoldHolds
<1>5. EnterAll(s.patterns, none, cells) = Entering!Fold(s, none, cells)
  BY ZenonT(240) DEF EnterAll, Entering!Fold, ApplyStep, FoldLeft, MapThenFoldSet, Entering!FoldLeft,
                     Entering!MapThenFoldSet, Max, Entering!Max
<1> QED
  BY <1>1, <1>4, <1>5, Zenon DEF EnteredSoFar

\* What a command pushes joins the group that is open, and leads exactly on.
Joined(list) == songHistory'.group = songHistory.group \o list /\ songHistory'.depth = songHistory.depth
Leads(list) == Exact!Path(list, Song, Song') /\ (songHistory.depth > 0 => Joined(list))

\* What setCell, clearCell, setNoteOff and setRange enter leads exactly on from the song, and
\* joins the group that is open.
LEMMA ApplyCellsLeads ==
    ASSUME SongSound, NEW c, NEW D, c.cells \in Seq(D), ApplyCells(c)
    PROVE  SongKept /\ \E list : Leads(list)
<1>1. PICK cells : cells = CellsOf(c)
  OBVIOUS
<1>2. PICK C : cells \in Seq(C)
  <2>1. PICK n \in Nat : DOMAIN c.cells = 1..n
    OBVIOUS
  <2>2. PICK C : C = {cells[i] : i \in 1..n}
    OBVIOUS
  <2>3. cells = [i \in 1..n |-> cells[i]]
    BY <1>1, <2>1, Zenon DEF CellsOf
  <2>4. cells \in [1..n -> C]
    BY <2>2, <2>3
  <2>5. cells \in Seq(C)
    BY <2>1, <2>4
  <2> QED
    BY <2>5, Zenon
<1>3. PICK done : /\ done = EnterAll(patterns, NoneEntered(patterns), cells)
                  /\ patterns' = done.song /\ songHistory' = FoldLeft(Push, songHistory, done.edits)
                  /\ SameSong /\ clipboard' = clipboard
  <2>1. PICK done : /\ done = EnterAll(patterns, [song |-> patterns, edits |-> <<>>, ok |-> TRUE], CellsOf(c))
                    /\ patterns' = done.song /\ songHistory' = FoldLeft(Push, songHistory, done.edits)
                    /\ SameSong /\ clipboard' = clipboard
    BY ZenonT(60) DEF ApplyCells, EnterAll, InPattern, Inside
  <2> QED
    BY <1>1, <2>1, Zenon DEF NoneEntered
<1>4. sample' = sample /\ speed' = speed
  BY <1>3, Zenon DEF SameSong
<1>5. ASSUME NEW v PROVE Exact!Path(done.edits, HereAt(v), HereAt(v)') /\ IsScene(HereAt(v)')
  <2>1. IsScene(HereAt(v)) /\ HereAt(v).patterns = patterns /\ HereAt(v).sample = sample /\ HereAt(v).speed = v
    BY Scenes
  <2>2. PICK t : Entered(HereAt(v), done, t)
    BY <1>2, <1>3, <2>1, EnterAllLeads
  <2>3. done.song = t.patterns
    BY <2>2 DEF Entered
  <2>4. t.patterns = patterns' /\ t.sample = sample' /\ t.speed = v /\ IsScene(t)
    BY <1>3, <1>4, <2>1, <2>2, <2>3, Zenon DEF Entered
  <2>5. HereAt(v)' = t
    BY <2>4, Zenon DEF HereAt, IsScene
  <2> QED
    BY <2>2, <2>4, <2>5, Zenon DEF Entered
<1>6. PICK v : History!HistoryOf(songHistory, HereAt(v))
  BY Zenon DEF SongSound, SongMade
<1>7. PICK list, s, t : list = done.edits /\ s = HereAt(v) /\ t = HereAt(v)'
  OBVIOUS
<1>8. History!Path(list, s, t)
  BY <1>5, <1>7, ExactLeads, Zenon
<1>9. songHistory' = History!Pushed(songHistory, list)
  BY <1>3, <1>7, PushedAlike, Zenon
<1>10. /\ History!HistoryOf(songHistory', t) /\ songHistory'.depth = songHistory.depth
       /\ songHistory.depth > 0 => Joined(list)
  <2>1. History!HistoryOf(songHistory, s)
    BY <1>6, <1>7, Zenon
  <2> QED
    BY <1>8, <1>9, <2>1, HistoryAssumption, History!PushesLead DEF Joined
<1>11. ArePatterns(patterns') /\ IsSample(sample')
  <2>1. HereAt(v)'.patterns = patterns' /\ HereAt(v)'.sample = sample'
    BY DEF HereAt
  <2> QED
    BY <1>5, <2>1, Zenon DEF IsScene
<1>12. SongKept
  BY <1>3, <1>4, <1>7, <1>10, <1>11, Zenon DEF SongSound, SongMade, SongKept
<1>13. PICK w : w = speed
  OBVIOUS
<1>14. Song = HereAt(w) /\ Song' = HereAt(w)'
  BY <1>4, <1>13 DEF Song, HereAt
<1>15. Exact!Path(list, Song, Song')
  BY <1>5, <1>7, <1>14, Zenon
<1> QED
  BY <1>10, <1>12, <1>15, Zenon DEF Leads

\* An edit that is told to the history on its own.
LEMMA EditLeadsExactly ==
    ASSUME SongSound, NEW e, songHistory' = Push(songHistory, e), ExactLinks(e, Song, Song')
    PROVE  \E list : Leads(list)
<1>1. Exact!Path(<<e>>, Song, Song')
  BY HistoryAssumption, Exact!PathOfOne
<1>2. PICK w : History!HistoryOf(songHistory, HereAt(w))
  BY Zenon DEF SongSound, SongMade
<1>3. PICK D : songHistory.group \in Seq(D)
  BY <1>2, Zenon DEF History!HistoryOf, History!Path
<1>4. songHistory.depth > 0 => Joined(<<e>>)
  <2> SUFFICES ASSUME songHistory.depth > 0 PROVE Joined(<<e>>)
    OBVIOUS
  <2>1. PICK h, g : h = songHistory /\ g = [h EXCEPT !.group = Append(h.group, e), !.future = <<>>, !.wiped = FALSE]
    OBVIOUS
  <2>2. songHistory' = g
    BY <2>1, Zenon DEF Push
  <2>3. "group" \in DOMAIN h
    BY <1>2, <2>1 DEF History!HistoryOf, History!IsHistory
  <2>4. g.group = Append(h.group, e) /\ g.depth = h.depth
    BY <2>1, <2>3
  <2>5. Append(h.group, e) = h.group \o <<e>>
    BY <1>3, <2>1
  <2> QED
    BY <2>1, <2>2, <2>4, <2>5, Zenon DEF Joined
<1> QED
  BY <1>1, <1>4, Zenon DEF Leads

\* setSpeed.
LEMMA ApplySpeedLeads == ASSUME SongSound, NEW c, c.value \in Int, ApplySpeed(c) PROVE SongKept /\ \E list : Leads(list)
<1>1. PICK e : e = SampleEdit("speed", speed, c.value)
  OBVIOUS
<1>2. e.what = "speed" /\ e.before = speed /\ e.before \in Int /\ e.after \in Int
  BY <1>1 DEF SampleEdit, SongSound, SongMade
<1>3. /\ songHistory' = Push(songHistory, e) /\ UNCHANGED <<patterns, sample>> /\ clipboard' = clipboard /\ speed' \in Int
  BY <1>1, Zenon DEF ApplySpeed
<1>4. ArePatterns(patterns') /\ IsSample(sample')
  BY <1>3, Zenon DEF SongSound, SongMade
<1>5. ASSUME NEW s, NEW t, IsScene(s), s.patterns = patterns, s.sample = sample, t.patterns = patterns, t.sample = sample, IsScene(t)
      PROVE  EditLinks(e, s, t)
  BY <1>2, <1>5, Zenon DEF EditLinks, SpeedLinks
<1>6. ASSUME NEW v PROVE IsScene(HereAt(v)) /\ HereAt(v).patterns = patterns /\ HereAt(v).sample = sample
  BY <1>6, Scenes
<1>7. ASSUME NEW v PROVE EditLinks(e, HereAt(v), HereAt(v)')
  <2>1. HereAt(v)' = HereAt(v)
    BY <1>3 DEF HereAt
  <2> QED
    BY <1>5, <1>6, <2>1, Zenon
<1>8. SongKept
  BY <1>3, <1>4, <1>7, SongEdited
<1>9. PICK w, u : w = speed /\ u = speed'
  OBVIOUS
<1>10. Song = HereAt(w) /\ Song' = HereAt(u) /\ Song.speed = w
  BY <1>3, <1>9 DEF Song, HereAt
<1>11. EditLinks(e, Song, Song')
  BY <1>5, <1>6, <1>10, Zenon
<1>12. ExactLinks(e, Song, Song')
  BY <1>2, <1>9, <1>10, <1>11, EditIsExact
<1> QED
  BY <1>3, <1>8, <1>12, EditLeadsExactly

\* setSampleMeta.
LEMMA SetSampleMetaLeads == ASSUME SongSound, SetSampleMeta PROVE SongKept /\ \E list : Leads(list)
<1>1. PICK e : e = SampleEdit("props", sample, sample')
  OBVIOUS
<1>2. e.what = "props" /\ e.before = sample /\ e.after = sample'
  BY <1>1 DEF SampleEdit
<1>3. songHistory' = Push(songHistory, e) /\ patterns' = patterns /\ speed' = speed
  BY <1>1, Zenon DEF SetSampleMeta, OfSong
<1>4. SongKept
  BY SoundEditKeeps
<1>5. ArePatterns(patterns') /\ IsSample(sample')
  BY <1>4, Zenon DEF SongKept, SongSound, SongMade
<1>6. sample'.buffer = sample.buffer
  <2>1. sample' = [sample EXCEPT !.props = made + 1]
    BY Zenon DEF SetSampleMeta
  <2> QED
    BY <2>1 DEF SongSound, SongMade, IsSample
<1>7. PICK w : w = speed
  OBVIOUS
<1>8. Song = HereAt(w) /\ Song' = HereAt(w)'
  BY <1>3, <1>7 DEF Song, HereAt
<1>9. SoundLinks(e, HereAt(w), HereAt(w)')
  <2>1. HereAt(w).patterns = patterns /\ HereAt(w).sample = sample /\ HereAt(w).speed = w
    BY DEF HereAt
  <2>2. HereAt(w)'.patterns = patterns' /\ HereAt(w)'.sample = sample' /\ HereAt(w)'.speed = w
    BY DEF HereAt
  <2> QED
    BY <1>2, <1>3, <1>6, <2>1, <2>2, Zenon DEF SoundLinks
<1>10. EditLinks(e, HereAt(w), HereAt(w)')
  BY <1>5, <1>9, EditLeads
<1>11. e.what # "speed"
  BY <1>2
<1>12. ExactLinks(e, Song, Song')
  BY <1>8, <1>10, <1>11, EditIsExact, Zenon
<1> QED
  BY <1>3, <1>4, <1>12, EditLeadsExactly

\* The invariant: the song is sound, a group is open only for the batch in hand, the commands
\* left are of those it began with, and of a batch that only edits the group leads exactly
\* from the song it began on to the song as it is.
EditOps == CellOps \cup {"setSpeed", "setSampleMeta"}
SoundCommand(c) ==
    /\ c.op = "createPattern" => c.rows \in Nat \ {0}
    /\ c.op = "resizePattern" => c.rows \in Int
    /\ c.op \in CellOps => \E D : c.cells \in Seq(D)
    /\ c.op = "setSpeed" => c.value \in Int
BatchLeft(left, ops) == \E D : left \in Seq(D) /\ \A c \in D : SoundCommand(c) /\ c.op \in Range(ops)
OneGroup(h, start, here) == h.depth = 1 /\ Exact!Path(h.group, start, here)
BatchSound ==
    batch # NoBatch => /\ BatchLeft(batch.left, batch.ops)
                       /\ Range(batch.ops) \subseteq EditOps => OneGroup(songHistory, batch.song, Song)
ApiSongInv ==
    /\ SongSound /\ songHistory.depth \in {0, 1} /\ (batch = NoBatch => songHistory.depth = 0)
    /\ BatchSound

\* A command of another kind keeps the song sound.
LEMMA OtherCommandKeeps ==
    ASSUME SongSound, NEW c, SoundCommand(c), c.op \notin EditOps, ApplyCommand(c)
    PROVE  SongKept
<1>1. Clipped(clipboard)
  BY Zenon DEF SongSound, SongMade
<1>2. ASSUME UNCHANGED <<patterns, sample, songHistory, speed>>, clipboard' = clipboard PROVE SongKept
  BY <1>1, <1>2, SongStays DEF SongSound, SongMade
<1>3. CASE c.op \in LayerOps /\ ApplyLayer(c)
  <2>1. ASSUME NEW k, NEW notes, ReplaceNotes(k, notes) \/ AddNote(k, notes) \/ RemoveNote(k, notes) PROVE SongKept
    BY <2>1, StructuralKeeps, Zenon DEF ReplaceNotes, AddNote, RemoveNote
  <2>2. ASSUME NEW k, SetLayerInstrument(k) PROVE SongKept
    BY <1>2, <2>2, Zenon DEF SetLayerInstrument
  <2> QED
    BY <1>3, <2>1, <2>2, Zenon DEF ApplyLayer
<1>4. CASE c.op \in OrderOps /\ ApplyOrders(c)
  <2>1. ASSUME NEW list, NewOrders(list) PROVE SongKept
    BY <2>1, StructuralKeeps, Zenon DEF NewOrders
  <2> QED
    BY <1>4, <2>1, Zenon DEF ApplyOrders, SetOrderList, OrderInsert, OrderRemove
<1>5. CASE c.op \in PatternOps /\ ApplyPattern(c)
  <2>1. CASE c.op = "createPattern" /\ CreatePattern(c.rows)
    BY <2>1, CreateKeeps DEF SoundCommand
  <2>2. CASE DeletePattern(PatternIndex(c.p))
    BY <2>2, DeleteKeeps
  <2>3. CASE c.op = "resizePattern" /\ ResizePattern(PatternIndex(c.p), c.rows)
    BY <2>3, ResizeKeeps DEF SoundCommand
  <2> QED
    BY <1>5, <2>1, <2>2, <2>3, Zenon DEF ApplyPattern
<1>6. CASE c.op \in FileOps /\ ApplyFile(c)
  BY <1>6, OpenKeeps, SampleKeeps, Zenon DEF ApplyFile
<1>7. CASE NothingToDo(c) /\ NothingApplied
  BY <1>2, <1>7, Zenon DEF NothingApplied, OfSong
<1>8. c.op \notin CellOps /\ c.op # "setSpeed" /\ c.op # "setSampleMeta"
  BY DEF EditOps
<1> QED
  BY <1>3, <1>4, <1>5, <1>6, <1>7, <1>8, Zenon DEF ApplyCommand

\* Whatever a command does, the song stays sound, and an edit leads exactly on.
LEMMA CommandLeads ==
    ASSUME SongSound, NEW c, SoundCommand(c), ApplyCommand(c) \/ (c.op \in CellOps /\ ApplyCells(c)) \/ NothingApplied
    PROVE  SongKept /\ (c.op \in EditOps => \E list : Leads(list))
<1>1. CASE c.op \in CellOps /\ ApplyCells(c)
  <2>1. PICK D : c.cells \in Seq(D)
    BY <1>1, Zenon DEF SoundCommand
  <2> QED
    BY <1>1, <2>1, ApplyCellsLeads
<1>2. CASE NothingApplied
  <2>1. UNCHANGED <<patterns, sample, songHistory, speed>> /\ clipboard' = clipboard /\ Song' = Song
    BY <1>2 DEF NothingApplied, OfSong, Song
  <2>2. SongKept
    BY <2>1, SongStays DEF SongSound, SongMade
  <2>3. Exact!Path(<<>>, Song, Song')
    BY <2>1, HistoryAssumption, Exact!PathNone
  <2>4. songHistory.group \o <<>> = songHistory.group
    <3>1. PICK D : songHistory.group \in Seq(D)
      BY Zenon DEF SongSound, SongMade, History!HistoryOf, History!Path
    <3> QED
      BY <3>1
  <2>5. Leads(<<>>)
    BY <2>1, <2>3, <2>4, Zenon DEF Leads, Joined
  <2> QED
    BY <2>2, <2>5, Zenon
<1>3. CASE ApplyCommand(c) /\ c.op \notin EditOps
  BY <1>3, OtherCommandKeeps
<1>4. CASE ApplyCommand(c) /\ c.op = "setSpeed"
  <2>1. ApplySpeed(c)
    <3>1. c.op \notin CellOps /\ c.op \notin LayerOps /\ c.op \notin OrderOps /\ c.op \notin PatternOps /\ c.op \notin FileOps
          /\ c.op # "setSampleMeta" /\ ~NothingToDo(c)
      BY <1>4 DEF CellOps, LayerOps, OrderOps, PatternOps, FileOps, NothingToDo
    <3> QED
      BY <1>4, <3>1, Zenon DEF ApplyCommand
  <2> QED
    BY <1>4, <2>1, ApplySpeedLeads DEF SoundCommand
<1>5. CASE ApplyCommand(c) /\ c.op = "setSampleMeta"
  <2>1. SetSampleMeta
    <3>1. c.op \notin CellOps /\ c.op \notin LayerOps /\ c.op \notin OrderOps /\ c.op \notin PatternOps /\ c.op \notin FileOps
          /\ c.op # "setSpeed" /\ ~NothingToDo(c)
      BY <1>5 DEF CellOps, LayerOps, OrderOps, PatternOps, FileOps, NothingToDo
    <3> QED
      BY <1>5, <3>1, Zenon DEF ApplyCommand
  <2> QED
    BY <2>1, SetSampleMetaLeads
<1>6. CASE ApplyCommand(c) /\ c.op \in CellOps
  <2>1. ApplyCells(c)
    <3>1. c.op \notin LayerOps /\ c.op \notin OrderOps /\ c.op \notin PatternOps /\ c.op \notin FileOps
          /\ c.op # "setSpeed" /\ c.op # "setSampleMeta" /\ ~NothingToDo(c)
      BY <1>6 DEF CellOps, LayerOps, OrderOps, PatternOps, FileOps, NothingToDo
    <3> QED
      BY <1>6, <3>1, Zenon DEF ApplyCommand
  <2> QED
    BY <1>1, <1>6, <2>1
<1> QED
  BY <1>1, <1>2, <1>3, <1>4, <1>5, <1>6 DEF EditOps

\* A list does not grow by its head.
LEMMA BatchGoesOn ==
    ASSUME NEW left, NEW ops, BatchLeft(left, ops), left # <<>>
    PROVE  SoundCommand(Head(left)) /\ Head(left).op \in Range(ops) /\ BatchLeft(Tail(left), ops)
<1>1. PICK D : left \in Seq(D) /\ \A c \in D : SoundCommand(c) /\ c.op \in Range(ops)
  BY Zenon DEF BatchLeft
<1>2. Head(left) \in D /\ Tail(left) \in Seq(D)
  BY <1>1
<1> QED
  BY <1>1, <1>2, Zenon DEF BatchLeft

\* A command of the batch.
LEMMA ApplyNextSound == ASSUME ApiSongInv, ServerInv, ApplyNext PROVE ApiSongInv'
<1>1. batch # NoBatch /\ batch.left # <<>> /\ IsBatch(batch)
  BY DEF ApplyNext, ServerInv
<1>2. PICK c : c = Head(batch.left)
  OBVIOUS
<1>3. SongSound /\ songHistory.depth \in {0, 1} /\ BatchLeft(batch.left, batch.ops)
  BY <1>1, Zenon DEF ApiSongInv, BatchSound
<1>4. SoundCommand(c) /\ c.op \in Range(batch.ops) /\ BatchLeft(Tail(batch.left), batch.ops)
  BY <1>1, <1>2, <1>3, BatchGoesOn
<1>5. SongKept /\ (c.op \in EditOps => \E list : Leads(list))
  <2>1. ApplyCommand(c) \/ (c.op \in CellOps /\ ApplyCells(c)) \/ NothingApplied
    BY <1>2, Zenon DEF ApplyNext
  <2> QED
    BY <1>3, <1>4, <2>1, CommandLeads
<1>6. /\ batch' # NoBatch /\ batch'.ops = batch.ops /\ batch'.song = batch.song
      /\ batch'.left = Tail(batch.left) \/ batch'.left = batch.left
  <2>1. batch' = [batch EXCEPT !.left = Tail(batch.left)] \/ batch' = [batch EXCEPT !.failed = TRUE]
    BY Zenon DEF ApplyNext
  <2>2. IsBatch(batch')
    BY <1>1, <2>1 DEF IsBatch
  <2> QED
    BY <1>1, <2>1, <2>2, BatchOrNot DEF IsBatch
<1>7. SongSound' /\ songHistory'.depth \in {0, 1}
  BY <1>3, <1>5 DEF SongKept
<1>8. BatchLeft(batch'.left, batch'.ops)
  BY <1>3, <1>4, <1>6
<1>9. ASSUME Range(batch.ops) \subseteq EditOps PROVE OneGroup(songHistory', batch.song, Song')
  <2>1. songHistory.depth = 1 /\ Exact!Path(songHistory.group, batch.song, Song)
    BY <1>1, <1>9, Zenon DEF ApiSongInv, BatchSound, OneGroup
  <2>2. c.op \in EditOps
    BY <1>4, <1>9
  <2>3. PICK list : Leads(list)
    BY <1>5, <2>2
  <2>4. Exact!Path(list, Song, Song') /\ songHistory'.group = songHistory.group \o list /\ songHistory'.depth = 1
    BY <2>1, <2>3 DEF Leads, Joined
  <2>5. Exact!Path(songHistory.group \o list, batch.song, Song')
    BY <2>1, <2>4, HistoryAssumption, Exact!PathJoins
  <2> QED
    BY <2>4, <2>5, Zenon DEF OneGroup
<1>10. BatchSound'
  BY <1>6, <1>8, <1>9, Zenon DEF BatchSound
<1> QED
  BY <1>6, <1>7, <1>10, Zenon DEF ApiSongInv

\* Validation leaves commands that are sound.
LEMMA ValidIsSound ==
    ASSUME NEW c, Valid(c), c.op \in CellOps => c.cells \in Seq(Range(c.cells))
    PROVE  SoundCommand(c)
<1>1. c.op = "createPattern" => c.rows \in 1..RowLimit
  BY DEF Valid, ValidPattern, CellOps, LayerOps, OrderOps, PatternOps, FileOps
<1>2. c.op = "resizePattern" => c.rows \in 1..RowLimit
  BY DEF Valid, ValidPattern, CellOps, LayerOps, OrderOps, PatternOps, FileOps
<1>3. \A n \in 1..RowLimit : n \in Nat \ {0} /\ n \in Int
  BY SongAssumption
<1>4. c.op = "setSpeed" => c.value \in Int
  BY DEF Valid, CellOps, LayerOps, OrderOps, PatternOps, FileOps
<1> QED
  BY <1>1, <1>2, <1>3, <1>4, Zenon DEF SoundCommand

\* A batch begins in a group of its own.
LEMMA BeginBatchSound == ASSUME ApiSongInv, ServerInv, BeginBatch PROVE ApiSongInv'
<1>1. PICK b : b = Head(work).batch
  OBVIOUS
<1>2. b \in Batches
  <2>1. work \in Seq(Requests) /\ work # <<>>
    BY DEF ServerInv, BeginBatch
  <2>2. Head(work) \in Requests
    BY <2>1
  <2> QED
    BY <1>1, <2>2 DEF Requests
<1>3. PICK left : left = b.commands
  OBVIOUS
<1>4. PICK ops : ops = Each(left, LAMBDA c : c.op)
  OBVIOUS
<1>5. left \in Seq(Range(left)) /\ \A c \in Range(left) : c.op \in CellOps => c.cells \in Seq(Range(c.cells))
  BY <1>2, <1>3, ApiAssumption, Zenon
<1>6. \A i \in DOMAIN left : Valid(left[i]) /\ ops[i] = left[i].op
  <2>1. \A i \in DOMAIN left : Valid(left[i])
    BY <1>1, <1>3, Zenon DEF BeginBatch, Accepted
  <2>2. ops = [i \in DOMAIN left |-> left[i].op]
    BY <1>4, Zenon DEF Each
  <2> QED
    BY <2>1, <2>2
<1>7. DOMAIN ops = DOMAIN left
  BY <1>4 DEF Each
<1>8. \A c \in Range(left) : SoundCommand(c) /\ c.op \in Range(ops)
  <2> SUFFICES ASSUME NEW c \in Range(left) PROVE SoundCommand(c) /\ c.op \in Range(ops)
    OBVIOUS
  <2>1. PICK i \in DOMAIN left : c = left[i]
    BY Zenon DEF Range
  <2>2. c.op \in Range(ops)
    BY <1>6, <1>7, <2>1, Zenon DEF Range
  <2> QED
    BY <1>5, <1>6, <2>1, <2>2, ValidIsSound
<1>9. BatchLeft(left, ops)
  BY <1>5, <1>8, Zenon DEF BatchLeft
<1>10. batch' = [id |-> Head(work).id, left |-> left, failed |-> FALSE, ops |-> ops, song |-> Song]
  BY <1>1, <1>3, <1>4, Zenon DEF BeginBatch
<1>11. IsBatch(batch') /\ batch'.left = left /\ batch'.ops = ops /\ batch'.song = Song
  BY <1>10 DEF IsBatch
<1>12. /\ songHistory' = BeginGroup(songHistory) /\ UNCHANGED <<patterns, sample, speed>> /\ clipboard' = clipboard
       /\ batch = NoBatch
  BY Zenon DEF BeginBatch, GroupedHistory, OfSong
<1>13. SongSound /\ songHistory.depth = 0
  BY <1>12, Zenon DEF ApiSongInv
<1>14. PICK v : History!HistoryOf(songHistory, HereAt(v))
  BY <1>13, Zenon DEF SongSound, SongMade
<1>15. History!HistoryOf(songHistory', HereAt(v)) /\ songHistory'.depth = 1 /\ songHistory'.group = <<>>
  <2>1. songHistory.group = <<>>
    BY <1>13, <1>14, Zenon DEF History!HistoryOf
  <2>2. /\ History!HistoryOf(History!BeginGroup(songHistory), HereAt(v))
        /\ History!BeginGroup(songHistory).depth = songHistory.depth + 1
        /\ History!BeginGroup(songHistory).group = songHistory.group
    BY <1>14, HistoryAssumption, History!GroupsLead
  <2>3. songHistory' = History!BeginGroup(songHistory)
    BY <1>12, SameOperations
  <2> QED
    BY <1>13, <2>1, <2>2, <2>3
<1>16. HereAt(v)' = HereAt(v) /\ Song' = Song
  BY <1>12 DEF HereAt, Song
<1>17. SongSound'
  BY <1>12, <1>13, <1>15, <1>16, Zenon DEF SongSound, SongMade
<1>18. OneGroup(songHistory', batch'.song, Song')
  <2>1. Exact!Path(<<>>, Song, Song)
    BY HistoryAssumption, Exact!PathNone
  <2> QED
    BY <1>11, <1>15, <1>16, <2>1, Zenon DEF OneGroup
<1>19. batch' # NoBatch
  BY <1>11, BatchOrNot
<1>20. songHistory'.depth \in {0, 1}
  BY <1>15
<1>21. BatchSound'
  BY <1>9, <1>11, <1>18, Zenon DEF BatchSound
<1> QED
  BY <1>17, <1>19, <1>20, <1>21, Zenon DEF ApiSongInv

\* The end of a batch closes the group.
LEMMA EndBatchSound == ASSUME ApiSongInv, EndBatch PROVE ApiSongInv'
<1>1. /\ songHistory' = EndGroup(songHistory) /\ UNCHANGED <<patterns, sample, speed>> /\ clipboard' = clipboard
      /\ batch' = NoBatch
  BY Zenon DEF EndBatch, OfSong
<1>2. PICK v : History!HistoryOf(songHistory, HereAt(v))
  BY Zenon DEF ApiSongInv, SongSound, SongMade
<1>3. /\ History!HistoryOf(History!EndGroup(songHistory), HereAt(v))
      /\ History!EndGroup(songHistory).depth = IF songHistory.depth = 0 THEN 0 ELSE songHistory.depth - 1
  BY <1>2, HistoryAssumption, History!GroupsLead
<1>4. songHistory' = History!EndGroup(songHistory)
  BY <1>1, SameOperations
<1>5. songHistory'.depth = 0
  BY <1>3, <1>4 DEF ApiSongInv
<1>6. HereAt(v)' = HereAt(v)
  BY <1>1 DEF HereAt
<1>7. SongSound /\ SongSound'
  BY <1>1, <1>3, <1>4, <1>6, Zenon DEF ApiSongInv, SongSound, SongMade
<1>8. BatchSound' /\ songHistory'.depth \in {0, 1}
  BY <1>1, <1>5 DEF BatchSound
<1> QED
  BY <1>5, <1>7, <1>8, Zenon DEF ApiSongInv

\* What the user does between the requests finds no group open.
LEMMA UserEditSound == ASSUME ApiSongInv, UserEdit PROVE ApiSongInv'
<1>1. batch = NoBatch /\ batch' = batch
  BY Zenon DEF UserEdit, Quiet, apiVars
<1>2. SongInv /\ SongSound /\ songHistory.depth = 0
  BY <1>1, Zenon DEF ApiSongInv, SongInv
<1>3. SongKept
  BY <1>2, SongUndone, SetCellKeeps, Zenon DEF UserEdit
<1>4. SongSound' /\ songHistory'.depth = 0
  BY <1>2, <1>3 DEF SongKept
<1>5. BatchSound' /\ songHistory'.depth \in {0, 1}
  BY <1>1, <1>4 DEF BatchSound
<1> QED
  BY <1>4, <1>5, Zenon DEF ApiSongInv

\* A step that leaves the song and the batch alone.
LEMMA ApiSongQuiet == ASSUME ApiSongInv, UNCHANGED songVars, batch' = batch PROVE ApiSongInv'
<1>1. UNCHANGED <<patterns, sample, speed, songHistory>> /\ clipboard' = clipboard
  BY Zenon DEF songVars
<1>2. SongSound' /\ songHistory'.depth \in {0, 1} /\ (batch' = NoBatch => songHistory'.depth = 0)
  <2>1. SongKept
    BY <1>1, SongStays DEF ApiSongInv, SongSound, SongMade
  <2> QED
    BY <1>1, <2>1 DEF SongKept, ApiSongInv
<1>3. Song' = Song
  BY <1>1 DEF Song
<1>4. BatchSound'
  BY <1>1, <1>3, Zenon DEF BatchSound, ApiSongInv
<1> QED
  BY <1>2, <1>4, Zenon DEF ApiSongInv

\* The invariant holds from the start, and every step keeps it.
LEMMA ApiSongInvHolds == ApiSpec => []ApiSongInv
<1>1. ApiInit /\ SongInit => ApiSongInv
  <2> SUFFICES ASSUME ApiInit, SongInit PROVE ApiSongInv
    OBVIOUS
  <2>1. SongSound /\ songHistory.depth = 0
    BY SongStarts DEF SongInv
  <2>2. batch = NoBatch
    BY DEF ApiInit
  <2> QED
    BY <2>1, <2>2 DEF ApiSongInv, BatchSound
<1>2. ASSUME ApiSongInv, ServerInv, [ApiNext]_<<apiVars, songVars>> PROVE ApiSongInv'
  <2>1. CASE UNCHANGED <<apiVars, songVars>>
    <3>1. UNCHANGED songVars /\ batch' = batch
      BY <2>1, Zenon DEF apiVars
    <3> QED
      BY <1>2, <3>1, ApiSongQuiet
  <2>2. ASSUME NEW c \in ApiClients,
               \/ Join(c) \/ Leave(c)
               \/ \E good \in BOOLEAN : Hello(c, good)
               \/ \E b \in Batches : Request(c, b)
        PROVE ApiSongInv'
    <3>1. UNCHANGED songVars /\ batch' = batch
      BY <2>2, Zenon DEF Join, Leave, Hello, Request, SameWork
    <3> QED
      BY <1>2, <3>1, ApiSongQuiet
  <2>3. CASE Start \/ Opened \/ Stop \/ Drain \/ AnswerAtOnce
    <3>1. UNCHANGED songVars /\ batch' = batch
      BY <2>3, Zenon DEF Start, Opened, Stop, Drain, AnswerAtOnce
    <3> QED
      BY <1>2, <3>1, ApiSongQuiet
  <2> QED
    BY <1>2, <2>1, <2>2, <2>3, BeginBatchSound, ApplyNextSound, EndBatchSound, UserEditSound, Zenon DEF ApiNext
<1> QED
  BY <1>1, <1>2, ServerInvHolds, PTL DEF ApiSpec

\* While programs edit through the API, and the user between their requests, undoing finds
\* each thing as its edit left it (execute_batch, undo.cpp).
THEOREM ApiUndoFindsItsEdit == ApiSpec => []UndoFindsItsEdit
<1>1. ApiSongInv => UndoFindsItsEdit
  BY EachIsFound DEF ApiSongInv
<1> QED
  BY <1>1, ApiSongInvHolds, PTL

\* What plays is what a save would store, also while programs load and clear the sample and set
\* its properties through the API and the user undoes and redoes between their requests.
THEOREM ApiPlayedIsStored == ApiSpec => []PlayedIsStored
<1>1. ApiSongInv => PlayedIsStored
  BY DEF ApiSongInv, SongSound, SongMade, IsSample, PlayedIsStored
<1> QED
  BY <1>1, ApiSongInvHolds, PTL

\* What is gone is gone to the start of the batch.
LEMMA GroupTakenBack ==
    ASSUME NEW list, NEW s, NEW t, Exact!Path(list, s, t)
    PROVE  UnwriteAll(t, Reverse(list)) = s
<1>1. Exact!BackShows
  BY Zenon DEF Exact!BackShows, ExactLinks, Same
<1>2. Same(t, t)
  BY Zenon DEF Same
<1>3. Same(Exact!Unmade(t, list), s)
  BY <1>1, <1>2, HistoryAssumption, Exact!BackAlong
<1>4. UnwriteAll(t, Reverse(list)) = Exact!Unmade(t, list)
  BY ZenonT(60) DEF UnwriteAll, Unwrite, Exact!Unmade, FoldLeft, MapThenFoldSet, Exact!FoldLeft, Exact!MapThenFoldSet,
                    Max, Exact!Max, Reverse, Exact!Reverse
<1> QED
  BY <1>3, <1>4, Zenon DEF Same

\* A batch of edits is one step of the history: undoing it gives back the song it began on,
\* also when it failed half way (execute_batch opens the group before the first command and
\* closes it after the last one, or the one that failed).
THEOREM BatchIsOneUndoHolds == ApiSpec => BatchIsOneUndo
<1> DEFINE Edits == batch # NoBatch /\ batch' = NoBatch /\ Range(batch.ops) \subseteq CellOps \cup {"setSpeed", "setSampleMeta"}
           TakenBack == IF songHistory.group = <<>> THEN Song' = batch.song
                        ELSE UnwriteAll(Song', UndoneEdits(songHistory')) = batch.song
<1>1. ASSUME ApiSongInv, ServerInv, [ApiNext]_<<apiVars, songVars>>, Edits PROVE TakenBack
  <2>1. EndBatch
    <3>1. batch' # batch
      BY <1>1
    <3>2. ~ApplyNext
      <4> SUFFICES ASSUME ApplyNext PROVE FALSE
        OBVIOUS
      <4>1. IsBatch(batch) /\ (batch' = [batch EXCEPT !.left = Tail(batch.left)] \/ batch' = [batch EXCEPT !.failed = TRUE])
        BY <1>1, Zenon DEF ApplyNext, ServerInv
      <4>2. IsBatch(batch')
        BY <4>1 DEF IsBatch
      <4> QED
        BY <1>1, <4>2, BatchOrNot
    <3>3. ~BeginBatch
      BY <1>1, Zenon DEF BeginBatch
    <3>4. ~(UNCHANGED <<apiVars, songVars>>) /\ ~UserEdit
      BY <3>1, Zenon DEF UserEdit, apiVars
    <3>5. \A c : ~Join(c) /\ ~Leave(c) /\ (\A good : ~Hello(c, good)) /\ (\A b : ~Request(c, b))
      BY <3>1, Zenon DEF Join, Leave, Hello, Request, SameWork
    <3>6. ~Start /\ ~Opened /\ ~Stop /\ ~Drain /\ ~AnswerAtOnce
      BY <3>1, Zenon DEF Start, Opened, Stop, Drain, AnswerAtOnce
    <3> QED
      BY <1>1, <3>2, <3>3, <3>4, <3>5, <3>6, Zenon DEF ApiNext
  <2>2. songHistory.depth = 1 /\ Exact!Path(songHistory.group, batch.song, Song)
    BY <1>1, Zenon DEF ApiSongInv, BatchSound, OneGroup, EditOps
  <2>3. Song' = Song /\ songHistory' = EndGroup(songHistory)
    BY <2>1 DEF EndBatch, OfSong, Song
  <2>4. UnwriteAll(Song, Reverse(songHistory.group)) = batch.song
    BY <2>2, GroupTakenBack
  <2>5. CASE songHistory.group = <<>>
    <3>1. Exact!Path(<<>>, batch.song, Song)
      BY <2>2, <2>5
    <3>2. batch.song = Song
      BY <3>1 DEF Exact!Path
    <3> QED
      BY <2>3, <2>5, <3>2
  <2>6. CASE songHistory.group # <<>>
    <3>1. PICK v : History!HistoryOf(songHistory, HereAt(v))
      BY <1>1, Zenon DEF ApiSongInv, SongSound, SongMade
    <3>2. History!Last(History!EndGroup(songHistory).past).edits = songHistory.group
      BY <2>2, <2>6, <3>1, HistoryAssumption, History!GroupsLead
    <3>3. Last(songHistory'.past).edits = songHistory.group
      BY <2>3, <3>2, SameOperations, Zenon DEF Last, History!Last
    <3> QED
      BY <2>3, <2>4, <2>6, <3>3, Zenon DEF UndoneEdits
  <2> QED
    BY <2>5, <2>6
<1>2. ApiSongInv /\ ServerInv /\ [ApiNext]_<<apiVars, songVars>> => [Edits => TakenBack]_<<apiVars, songVars>>
  BY <1>1
<1> QED
  BY <1>2, ApiSongInvHolds, ServerInvHolds, PTL DEF ApiSpec, BatchIsOneUndo

-----------------------------------------------------------------------------
(***************************************************************************)
(* The shell. The invariant says which slot holds the last autosave that   *)
(* was completed: it is as many slots behind the next one as saves have    *)
(* been tried since, so that the rotation meets it last.                   *)
(***************************************************************************)

\* The slot of the last autosave that was completed, tries saves ago.
Keeps(s) == slots[s].holds = kept /\ nextSlot = (s + 1 + tries) % Slots

SlotFiles(files) ==
    /\ files = [s \in 0..Slots - 1 |-> files[s]]
    /\ \A s \in 0..Slots - 1 : files[s] = [holds |-> files[s].holds, at |-> files[s].at]

RotationInv ==
    /\ SlotFiles(slots)
    /\ frame \in Nat /\ nextSlot \in 0..Slots - 1 /\ tries \in Nat
    /\ saving.slot \in -1..Slots - 1
    /\ saving.slot # -1 => nextSlot = SlotAfter(saving.slot)
    /\ process = "off" => kept = NothingThere
    /\ kept # NothingThere /\ tries < Slots => \E s \in 0..Slots - 1 : Keeps(s)

rotationVars == <<slots, frame, nextSlot, tries, kept, process, saving>>

\* No autosave under way has no slot.
LEMMA NoSaveSlot == NoSave.slot = -1 BY DEF NoSave

\* A step that leaves the autosaves alone.
LEMMA ShellQuiet ==
    ASSUME RotationInv, UNCHANGED <<slots, nextSlot, tries, kept, process>>, frame' \in Nat, saving' = saving \/ saving'.slot = -1
    PROVE  RotationInv'
<1>1. \A s \in 0..Slots - 1 : Keeps(s) => Keeps(s)'
  BY DEF Keeps
<1>2. saving'.slot \in -1..Slots - 1 /\ (saving'.slot # -1 => saving' = saving)
  <2>1. -1 \in -1..Slots - 1
    BY DEF Slots
  <2> QED
    BY <2>1 DEF RotationInv
<1>3. kept' # NothingThere /\ tries' < Slots => \E s \in 0..Slots - 1 : Keeps(s)'
  BY <1>1 DEF RotationInv
<1>4. SlotFiles(slots')
  BY DEF RotationInv
<1> QED
  BY <1>2, <1>3, <1>4 DEF RotationInv

\* A session that ends, however it does, has nothing kept.
LEMMA ShellGone ==
    ASSUME RotationInv, SessionGone, UNCHANGED slots, frame' \in Nat
    PROVE  RotationInv'
BY NoSaveSlot DEF RotationInv, SlotFiles, Keeps, SessionGone, Slots

\* A program that starts has saved nothing and begins with the first slot.
LEMMA LaunchKeeps == ASSUME RotationInv, NEW cli, Launch(cli) PROVE RotationInv'
<1>1. /\ process = "off" /\ UNCHANGED <<slots, kept, tries>> /\ frame' \in Nat /\ nextSlot' = 0 /\ saving' = NoSave
      /\ process' = "running"
  BY DEF Launch, Begin, RotationInv, shellGhosts
<1>2. kept' = NothingThere
  BY <1>1 DEF RotationInv
<1> QED
  BY <1>1, <1>2, NoSaveSlot DEF RotationInv, Slots

\* The slot after the next is one further from the last that was completed.
LEMMA Turns ==
    ASSUME NEW s \in 0..Slots - 1, NEW n \in 0..Slots - 1, NEW t \in 0..Slots - 2, n = (s + 1 + t) % Slots
    PROVE  n # s /\ SlotAfter(n) = (s + 1 + (t + 1)) % Slots
BY DEF SlotAfter, Slots

\* A frame with an autosave due moves on to the next slot, and tears no other.
LEMMA FrameKeeps == ASSUME RotationInv, Frame PROVE RotationInv'
<1>0. frame' \in Nat /\ saving = NoSave /\ UNCHANGED <<kept, process>> /\ process = "running"
  BY DEF Frame, RotationInv
<1>1. CASE ~Due /\ UNCHANGED <<saving, slots, nextSlot, tries>>
  BY <1>0, <1>1, ShellQuiet
<1>2. CASE nextSlot' = SlotAfter(nextSlot) /\ tries' = tries + 1
           /\ (UNCHANGED <<saving, slots>> \/ TruncateSlot(nextSlot))
  <2>1. nextSlot' \in 0..Slots - 1 /\ tries' \in Nat
    BY <1>2 DEF SlotAfter, Slots, RotationInv
  <2>2. \A s \in 0..Slots - 1 : s # nextSlot => slots'[s] = slots[s]
    BY <1>2 DEF TruncateSlot, RotationInv, SlotFiles
  <2>3. SlotFiles(slots')
    <3>1. CASE UNCHANGED slots
      BY <3>1 DEF RotationInv
    <3>2. CASE slots' = [slots EXCEPT ![nextSlot] = [holds |-> TornFile, at |-> frame']]
      BY <3>2 DEF RotationInv, SlotFiles
    <3> QED
      BY <3>1, <3>2, <1>2 DEF TruncateSlot
  <2>4. saving'.slot = -1 \/ (saving'.slot = nextSlot)
    BY <1>0, <1>2, NoSaveSlot DEF TruncateSlot
  <2>5. ASSUME kept' # NothingThere, tries' < Slots PROVE \E s \in 0..Slots - 1 : Keeps(s)'
    <3>1. tries \in 0..Slots - 2
      BY <1>2, <2>5 DEF RotationInv, Slots
    <3>2. PICK s \in 0..Slots - 1 : Keeps(s)
      BY <1>0, <2>5, <3>1 DEF RotationInv, Slots
    <3>3. nextSlot # s /\ nextSlot' = (s + 1 + tries') % Slots
      BY <1>2, <3>1, <3>2, Turns DEF Keeps, RotationInv
    <3> QED
      BY <1>0, <2>2, <3>2, <3>3 DEF Keeps
  <2>6. saving'.slot \in -1..Slots - 1 /\ (saving'.slot # -1 => nextSlot' = SlotAfter(saving'.slot))
    BY <1>2, <2>4 DEF RotationInv, Slots
  <2> QED
    BY <1>0, <2>1, <2>3, <2>5, <2>6 DEF RotationInv
<1> QED
  BY <1>1, <1>2 DEF Frame

\* An autosave that is completed is the last.
LEMMA FinishAutosaveKeeps == ASSUME RotationInv, FinishAutosave PROVE RotationInv'
<1>1. /\ saving.slot \in 0..Slots - 1 /\ kept' = saving.what /\ tries' = 0 /\ saving' = NoSave /\ UNCHANGED <<frame, nextSlot, process>>
      /\ process = "running"
      /\ slots' = [slots EXCEPT ![saving.slot].holds = saving.what] /\ nextSlot = SlotAfter(saving.slot)
  BY DEF FinishAutosave, RotationInv, autosaveVars, Slots
<1>2. PICK i \in 0..Slots - 1 : i = saving.slot
  BY <1>1
<1>3. slots' = [s \in 0..Slots - 1 |-> IF s = i THEN [slots[i] EXCEPT !.holds = saving.what] ELSE slots[s]]
  BY <1>1, <1>2 DEF RotationInv, SlotFiles
<1>4. [slots[i] EXCEPT !.holds = saving.what] = [holds |-> saving.what, at |-> slots[i].at]
  BY <1>2 DEF RotationInv, SlotFiles
<1>5. slots'[i].holds = kept'
  BY <1>1, <1>3, <1>4
<1>6. nextSlot' = (i + 1 + tries') % Slots
  BY <1>1, <1>2 DEF SlotAfter, Slots
<1>7. SlotFiles(slots')
  BY <1>3, <1>4 DEF RotationInv, SlotFiles
<1>8. Keeps(i)'
  BY <1>5, <1>6 DEF Keeps
<1>9. saving'.slot = -1 /\ -1 \in -1..Slots - 1
  BY <1>1, NoSaveSlot DEF Slots
<1> QED
  BY <1>1, <1>7, <1>8, <1>9 DEF RotationInv

\* The invariant holds from the start, and every step keeps it.
LEMMA RotationInvHolds == ShellSpec => []RotationInv
<1>1. ShellInit => RotationInv
  BY NoSaveSlot DEF ShellInit, RotationInv, SlotFiles, Slots
<1>2. ASSUME RotationInv, [ShellNext]_shellVars PROVE RotationInv'
  <2> USE <1>2
  <2>0. frame \in Nat
    BY DEF RotationInv
  <2>1. CASE UNCHANGED shellVars
    BY <2>0, <2>1, ShellQuiet DEF shellVars, shellFiles, autosaveVars, shellGhosts
  <2>2. ASSUME NEW cli, LaunchToReturn(cli) PROVE RotationInv'
    BY <2>0, <2>2, ShellGone DEF LaunchToReturn, Begin, MemoryGone
  <2>3. CASE Quit \/ Exit \/ Crash
    BY <2>0, <2>3, ShellGone DEF Quit, Exit, Crash, MemoryGone, shellFiles
  <2>4. CASE SaveSettings
    BY <2>0, <2>4 DEF SaveSettings, RotationInv, Keeps, autosaveVars, shellGhosts
  <2>5. CASE FinishSave \/ DiskFull
    BY <2>0, <2>5, ShellQuiet, NoSaveSlot DEF FinishSave, DiskFull, shellFiles, autosaveVars, shellGhosts
  <2>6. CASE EditProject \/ NewSong \/ ChooseImport \/ ChooseOther \/ Recover
    BY <2>0, <2>6, ShellQuiet
       DEF EditProject, NewSong, ChooseImport, ChooseOther, Recover, InMenu, SameProgram,
           autosaveVars, shellGhosts
  <2>7. ASSUME NEW p, OpenFile(p) \/ CancelDialog(p) \/ OpenWithoutPath(p) \/ FileGone(p) PROVE RotationInv'
    BY <2>0, <2>7, ShellQuiet
       DEF OpenFile, CancelDialog, OpenWithoutPath, FileGone, InMenu, SameProgram, autosaveVars,
           shellGhosts
  <2>8. ASSUME NEW i, TogglePin(i) \/ ForgetMissing(i) PROVE RotationInv'
    BY <2>0, <2>8, ShellQuiet
       DEF TogglePin, ForgetMissing, InMenu, SameProgram, autosaveVars, shellGhosts
  <2>9. ASSUME NEW p, SaveTo(p) PROVE RotationInv'
    BY <2>0, <2>9, ShellQuiet DEF SaveTo, TruncateFile, autosaveVars, shellGhosts
  <2> QED
    BY <2>1, <2>2, <2>3, <2>4, <2>5, <2>6, <2>7, <2>8, <2>9, LaunchKeeps, FrameKeeps, FinishAutosaveKeeps
      DEF ShellNext, SaveFile, SaveAs
<1> QED
  BY <1>1, <1>2, PTL DEF ShellSpec

\* The last autosave that was completed stays on the disk, however many that come
\* after it fail, until as many as there are slots have been tried.
THEOREM LastSaveSurvivesHolds == ShellSpec => []LastSaveSurvives
<1>1. RotationInv => LastSaveSurvives
  BY DEF RotationInv, LastSaveSurvives, Keeps
<1> QED
  BY <1>1, RotationInvHolds, PTL
=============================================================================
