------------------------------ MODULE LocalApi ------------------------------
(***************************************************************************)
(* api/local_api.cpp: the server through which programs edit the session.  *)
(* The threads of the connections sort the frames they get and put         *)
(* requests into a bounded queue, under a mutex; once a frame the user     *)
(* interface thread swaps the queue out and executes the requests: a batch *)
(* of commands is validated as a whole against the song, then applied      *)
(* command by command in one undo group. Reading queries change nothing,   *)
(* and the commands of the workspace, the transport and files that are     *)
(* written are left out.                                                   *)
(***************************************************************************)
EXTENDS SongEdits

CONSTANTS ApiClients, \* connections
          Batches,    \* what a client may ask: [commands, dryRun, described]
          MaxQueued,  \* kMaxQueuedRequests
          BatchLimit, \* kMaxCommandsPerBatch
          MaxRequests \* bound: requests while the server runs

VARIABLES serving,  \* the port, and running_: "stopped", "opening" or "running"
          authed,   \* clients_: connection -> whether its hello was accepted
          queue,    \* queue_: [id, batch]
          work,     \* the requests swapped out, not yet executed
          batch,    \* the batch being applied: its id, the commands left, whether one
                    \* failed, all its operations and the song it began on; or NoBatch
          taken,    \* requests accepted since the server started
          answers   \* the requests answered: [id, ok]

apiVars == <<serving, authed, queue, work, batch, taken, answers>>

NoBatch == [id |-> 0]
Quiet == work = <<>> /\ batch = NoBatch

ApiInit ==
    /\ serving = "stopped" /\ authed = <<>> /\ queue = <<>> /\ work = <<>> /\ batch = NoBatch
    /\ taken = 0 /\ answers = <<>>

----------------------------------------------------------------------------
(* The threads of the connections: setOnConnectionCallback and             *)
(* on_client_message.                                                      *)

SameWork == UNCHANGED <<serving, work, batch, answers>> /\ UNCHANGED songVars

Join(c) ==
    /\ serving # "stopped" /\ c \notin DOMAIN authed
    /\ authed' = [x \in DOMAIN authed \cup {c} |-> IF x = c THEN FALSE ELSE authed[x]]
    /\ UNCHANGED <<queue, taken>> /\ SameWork
Leave(c) ==
    /\ c \in DOMAIN authed /\ authed' = Restrict(authed, DOMAIN authed \ {c})
    /\ UNCHANGED <<queue, taken>> /\ SameWork

\* hello: a bad token closes the connection.
Hello(c, good) ==
    /\ c \in DOMAIN authed
    /\ authed' = IF good THEN [authed EXCEPT ![c] = TRUE] ELSE Restrict(authed, DOMAIN authed \ {c})
    /\ UNCHANGED <<queue, taken>> /\ SameWork

\* The bound on edits is kept clear of the batches that wait.
RoomFor(edits) ==
    songEdits + BatchLimit * (Len(queue) + Len(work) + (IF batch = NoBatch THEN 0 ELSE 1)) + edits <= MaxSongEdits

\* request: without a hello the connection is closed; with the queue full the request is
\* refused.
Request(c, b) ==
    /\ c \in DOMAIN authed
    /\ \/ /\ ~authed[c] /\ authed' = Restrict(authed, DOMAIN authed \ {c})
          /\ UNCHANGED <<queue, taken>>
       \/ /\ authed[c] /\ Len(queue) < MaxQueued /\ taken < MaxRequests /\ RoomFor(BatchLimit)
          /\ queue' = Append(queue, [id |-> taken + 1, batch |-> b])
          /\ taken' = taken + 1 /\ UNCHANGED authed
    /\ SameWork

\* start, on the user interface thread, opens the port before it sets the token and clears
\* what is left of the last time: a connection may be welcomed in between, and forgotten.
NobodyThere == authed' = <<>> /\ queue' = <<>> /\ taken' = 0 /\ answers' = <<>>
Start ==
    /\ Quiet /\ serving = "stopped" /\ serving' = "opening"
    /\ UNCHANGED <<authed, queue, work, batch, taken, answers>> /\ UNCHANGED songVars
Opened ==
    /\ serving = "opening" /\ serving' = "running" /\ NobodyThere
    /\ UNCHANGED <<work, batch>> /\ UNCHANGED songVars

\* stop: what is queued stays without an answer.
Stop ==
    /\ Quiet /\ serving = "running" /\ serving' = "stopped" /\ NobodyThere
    /\ UNCHANGED <<work, batch>> /\ UNCHANGED songVars

----------------------------------------------------------------------------
(* validate_command, against the song as it is before the batch. Patterns  *)
(* are named by their id.                                                  *)

PatternIndex(id) ==
    IF \E k \in DOMAIN patterns : patterns[k].id = id
    THEN CHOOSE k \in DOMAIN patterns : patterns[k].id = id ELSE 0
Exists(id) == PatternIndex(id) # 0
RowsOf(id) == Len(patterns[PatternIndex(id)].rows)

CellsOf(c) == \* the cells of setCell, clearCell, setNoteOff and setRange, row by row
    [i \in DOMAIN c.cells |->
        [at |-> <<PatternIndex(c.p), c.row + ((i - 1) \div c.width), c.channel + ((i - 1) % c.width)>>,
         set |-> c.cells[i]]]
ValidCells(c) == Exists(c.p) /\ \A i \in DOMAIN CellsOf(c) : InPattern(CellsOf(c)[i].at)

ValidNote(c) ==
    /\ c.note.pitch \in 0..MaxPitch /\ c.note.vel \in 0..MaxVelocity /\ c.note.dur >= 1
    /\ c.note.start \in 0..(RowsOf(c.p) * speed - 1)
HasNote(c) ==
    /\ PatternIndex(c.p) \in DOMAIN seqs
    /\ c.i \in DOMAIN seqs[PatternIndex(c.p)].notes
ValidLayer(c) ==
    /\ Exists(c.p)
    /\ c.op \in {"addSeqNote", "updateSeqNote"} => ValidNote(c)
    /\ c.op \in {"removeSeqNote", "updateSeqNote"} => HasNote(c)

ValidOrders(c) ==
    CASE c.op = "setOrderList" -> c.ids # <<>> /\ \A i \in DOMAIN c.ids : Exists(c.ids[i])
      [] c.op = "insertOrderAt" -> c.i \in 0..Len(orders) /\ Exists(c.p)
      [] c.op = "removeOrderAt" -> c.i \in 0..(Len(orders) - 1) /\ Len(orders) > 1

ValidPattern(c) ==
    CASE c.op = "createPattern" -> c.rows \in 1..RowLimit
      [] c.op = "deletePattern" -> Exists(c.p) /\ Len(patterns) > 1
      [] c.op = "resizePattern" -> Exists(c.p) /\ c.rows \in 1..RowLimit

CellOps == {"setCell", "clearCell", "setNoteOff", "setRange"}
LayerOps == {"addSeqNote", "removeSeqNote", "updateSeqNote", "setSeqLayerInstrument"}
OrderOps == {"setOrderList", "insertOrderAt", "removeOrderAt"}
PatternOps == {"createPattern", "deletePattern", "resizePattern"}
FileOps == {"loadProject", "newProject", "loadSampleFile", "loadSampleData", "clearSample"}

\* A request lists its commands, and a command on cells lists the cells.
ASSUME ApiAssumption ==
    /\ MaxQueued \in Nat /\ BatchLimit \in Nat /\ MaxRequests \in Nat
    /\ \A b \in Batches :
           /\ b.commands \in Seq(Range(b.commands))
           /\ \A c \in Range(b.commands) : c.op \in CellOps => c.cells \in Seq(Range(c.cells))

Valid(c) ==
    \/ c.op \in CellOps /\ ValidCells(c)
    \/ c.op \in LayerOps /\ ValidLayer(c)
    \/ c.op \in OrderOps /\ ValidOrders(c)
    \/ c.op \in PatternOps /\ ValidPattern(c)
    \/ c.op = "setSpeed" /\ c.value \in 1..31
    \/ c.op = "setSampleMeta" /\ sample # NoSample
    \/ c.op \in FileOps

----------------------------------------------------------------------------
(* apply_command: what was validated may have gone with an earlier command *)
(* of the batch; then the command fails and the batch ends.                *)

\* merge_cell_fields: the fields that are given.
Merged(cell, set) == [f \in DOMAIN cell |-> IF f \in DOMAIN set THEN set[f] ELSE cell[f]]

CanApply(c) ==
    CASE c.op \in CellOps -> Exists(c.p) /\ \A i \in DOMAIN CellsOf(c) : InPattern(CellsOf(c)[i].at)
      [] c.op = "updateSeqNote" -> HasNote(c)
      [] c.op \in OrderOps -> ValidOrders(c)
      [] c.op = "deletePattern" -> ValidPattern(c)
      [] c.op = "resizePattern" -> Exists(c.p)
      [] c.op = "setSampleMeta" -> sample # NoSample
      [] OTHER -> TRUE

\* Cells go one by one through set_cell, up to a stale one.
ApplyCells(c) ==
    LET cells == CellsOf(c)
        SetOne(s, e) == IF InPattern(e.at) /\ s.ok
                        THEN [s EXCEPT !.song = Put(@, e.at, Merged(s.song[e.at[1]].rows[e.at[2]][e.at[3]], e.set)),
                                       !.edits = Append(@, CellEdit(e.at, s.song[e.at[1]].rows[e.at[2]][e.at[3]],
                                                                    Merged(s.song[e.at[1]].rows[e.at[2]][e.at[3]], e.set)))]
                        ELSE [s EXCEPT !.ok = FALSE]
    IN  \E done \in {FoldLeft(SetOne, [song |-> patterns, edits |-> <<>>, ok |-> TRUE], cells)} :
            /\ SongCall /\ patterns' = done.song
            /\ songHistory' = FoldLeft(Push, songHistory, done.edits)
            /\ SameSong /\ UNCHANGED clipboard

\* setSpeed writes the tempo itself and, unlike set_tempo, tells the history.
ApplySpeed(c) ==
    /\ SongCall /\ speed' = c.value
    /\ songHistory' = Push(songHistory, SampleEdit("speed", speed, c.value))
    /\ UNCHANGED <<patterns, seqs, fxs, orders, sample, strips, clipboard, made>>

ApplyLayer(c) ==
    LET k == PatternIndex(c.p)
    IN  \/ c.op = "addSeqNote" /\ k # 0 /\ AddNote(k, c.note)
        \/ c.op = "removeSeqNote" /\ HasNote(c) /\ RemoveNote(k, c.i)
        \/ c.op = "updateSeqNote" /\ ReplaceNotes(k, [seqs[k].notes EXCEPT ![c.i] = c.note])
        \/ c.op = "setSeqLayerInstrument" /\ k # 0 /\ SetLayerInstrument(k)
\* The session takes no notice of a layer that is not there.
NothingToDo(c) ==
    \/ c.op = "addSeqNote" /\ ~Exists(c.p)
    \/ c.op = "removeSeqNote" /\ ~HasNote(c)
    \/ c.op = "setSeqLayerInstrument" /\ (~Exists(c.p) \/ PatternIndex(c.p) \in DOMAIN seqs)

ApplyOrders(c) ==
    \/ c.op = "setOrderList" /\ SetOrderList([i \in DOMAIN c.ids |-> PatternIndex(c.ids[i]) - 1])
    \/ c.op = "insertOrderAt" /\ OrderInsert(c.i, PatternIndex(c.p) - 1)
    \/ c.op = "removeOrderAt" /\ OrderRemove(c.i)

ApplyPattern(c) ==
    \/ c.op = "createPattern" /\ CreatePattern(c.rows)
    \/ c.op = "deletePattern" /\ DeletePattern(PatternIndex(c.p))
    \/ c.op = "resizePattern" /\ ResizePattern(PatternIndex(c.p), c.rows)

ApplyFile(c) ==
    \/ c.op \in {"loadProject", "newProject"} /\ \E s \in Songs : OpenSong(s)
    \/ c.op \in {"loadSampleFile", "loadSampleData"} /\ LoadSample
    \/ c.op = "clearSample" /\ ClearSlot

NothingApplied == SongCall /\ UNCHANGED <<OfSong, sample, clipboard, songHistory, made>>
ApplyCommand(c) ==
    \/ c.op \in CellOps /\ ApplyCells(c)
    \/ c.op \in LayerOps /\ ApplyLayer(c)
    \/ c.op \in OrderOps /\ ApplyOrders(c)
    \/ c.op \in PatternOps /\ ApplyPattern(c)
    \/ c.op = "setSpeed" /\ ApplySpeed(c)
    \/ c.op = "setSampleMeta" /\ SetSampleMeta
    \/ c.op \in FileOps /\ ApplyFile(c)
    \/ NothingToDo(c) /\ NothingApplied

----------------------------------------------------------------------------
(* process_pending and execute_batch.                                      *)

SameServer == UNCHANGED <<serving, authed, taken>>

DrainBackwards ==
    /\ serving = "running" /\ Quiet /\ queue # <<>>
    /\ work' = Reverse(queue) /\ queue' = <<>>
    /\ UNCHANGED <<batch, answers>> /\ SameServer /\ UNCHANGED songVars
Drain ==
    /\ serving = "running" /\ Quiet /\ queue # <<>>
    /\ work' = queue /\ queue' = <<>>
    /\ UNCHANGED <<batch, answers>> /\ SameServer /\ UNCHANGED songVars

Answer(id, ok) == answers' = Append(answers, [id |-> id, ok |-> ok])

Accepted(b) ==
    /\ Len(b.commands) <= BatchLimit /\ (b.dryRun \/ b.described)
    /\ \A i \in DOMAIN b.commands : Valid(b.commands[i])

\* A batch that is refused, and one that is only to be validated, change nothing.
AnswerAtOnce ==
    /\ batch = NoBatch /\ work # <<>>
    /\ \E b \in {Head(work).batch} :
          /\ b.dryRun \/ ~Accepted(b)
          /\ Answer(Head(work).id, Accepted(b))
    /\ work' = Tail(work)
    /\ UNCHANGED <<queue, batch>> /\ SameServer /\ UNCHANGED songVars

UngroupedHistory(h) == h
GroupedHistory(h) == BeginGroup(h)
BeginBatch ==
    /\ batch = NoBatch /\ work # <<>> /\ ~Head(work).batch.dryRun /\ Accepted(Head(work).batch)
    /\ batch' = [id |-> Head(work).id, left |-> Head(work).batch.commands, failed |-> FALSE,
                  ops |-> Each(Head(work).batch.commands, LAMBDA c : c.op), song |-> Song]
    /\ songHistory' = GroupedHistory(songHistory) /\ work' = Tail(work)
    /\ UNCHANGED <<queue, answers>> /\ SameServer
    /\ UNCHANGED <<OfSong, sample, clipboard, made, songEdits>>

Unreadable(c) == c.op \in {"loadProject", "loadSampleFile", "loadSampleData"}

ApplyNext ==
    /\ batch # NoBatch /\ batch.left # <<>> /\ ~batch.failed
    /\ \E c \in {Head(batch.left)} :
          \/ CanApply(c) /\ ApplyCommand(c) /\ batch' = [batch EXCEPT !.left = Tail(@)]
          \/ /\ ~CanApply(c) \/ Unreadable(c)
             /\ IF c.op \in CellOps /\ Exists(c.p) THEN ApplyCells(c) ELSE NothingApplied
             /\ batch' = [batch EXCEPT !.failed = TRUE]
    /\ UNCHANGED <<queue, work, answers>> /\ SameServer

\* The group is closed and the answer sent.
EndBatch ==
    /\ batch # NoBatch /\ (batch.left = <<>> \/ batch.failed)
    /\ songHistory' = EndGroup(songHistory)
    /\ Answer(batch.id, ~batch.failed) /\ batch' = NoBatch
    /\ UNCHANGED <<queue, work>> /\ SameServer
    /\ UNCHANGED <<OfSong, sample, clipboard, made, songEdits>>

\* What the user does between the frames' requests.
UserEdit ==
    /\ Quiet /\ serving # "opening" /\ RoomFor(1) /\ UNCHANGED apiVars
    /\ (UndoEdit \/ RedoEdit \/ (\E cell \in CellValues : SetCell(<<1, 1, 1>>, cell)))

ApiNext ==
    \/ \E c \in ApiClients : \/ Join(c) \/ Leave(c)
                            \/ \E good \in BOOLEAN : Hello(c, good)
                            \/ \E b \in Batches : Request(c, b)
    \/ Start \/ Opened \/ Stop \/ Drain \/ AnswerAtOnce \/ BeginBatch \/ ApplyNext \/ EndBatch \/ UserEdit

ApiSpec == ApiInit /\ SongInit /\ [][ApiNext]_<<apiVars, songVars>>

----------------------------------------------------------------------------
(* Properties.                                                             *)

ApiTypeOK ==
    /\ serving \in {"stopped", "opening", "running"} /\ authed \in [DOMAIN authed -> BOOLEAN]
    /\ Len(queue) <= MaxQueued /\ taken \in 0..MaxRequests
    /\ batch = NoBatch => songHistory.depth = 0

\* Every request that was accepted is answered once, in the order of acceptance: it is
\* among those answered, those swapped out and those queued exactly once, whatever
\* arrives, fails or leaves meanwhile.
IdsOf(list) == [i \in DOMAIN list |-> list[i].id]
RequestsAnswered ==
    IdsOf(answers) \o (IF batch = NoBatch THEN <<>> ELSE <<batch.id>>) \o IdsOf(work) \o IdsOf(queue)
        = [i \in 1..taken |-> i]

\* A batch is one step of the history: unless it holds a command that wipes the history,
\* one undo gives back the song as it was before, also when the batch failed half way.
BatchIsOneUndo ==
    [][(batch # NoBatch /\ batch' = NoBatch /\ Range(batch.ops) \subseteq CellOps \cup {"setSpeed", "setSampleMeta"}) =>
           IF songHistory.group = <<>> THEN Song' = batch.song
           ELSE UnwriteAll(Song', UndoneEdits(songHistory')) = batch.song]_<<apiVars, songVars>>

\* A command edits the pattern its id named when the batch was validated. It does not
\* hold: deleting a pattern renumbers those behind it.
CommandHitsItsPattern ==
    batch # NoBatch /\ batch.left # <<>> /\ Head(batch.left).op \in CellOps =>
        LET id == Head(batch.left).p
        IN  \A k \in DOMAIN batch.song.patterns :
                batch.song.patterns[k].id = id /\ Exists(id) => patterns[PatternIndex(id)].born = batch.song.patterns[k].born
=============================================================================
