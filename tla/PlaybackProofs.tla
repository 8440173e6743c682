--------------------------- MODULE PlaybackProofs ---------------------------
(***************************************************************************)
(* Playback, proved for every table of songs: the tracker's position, the  *)
(* MIDI output thread's books, and the notes that the ticks leave sounding.*)
(* The songs are typed, that is they hold what the importers, the reader of*)
(* project files and the editors put into a song, and playable, that is    *)
(* the order list and the patterns it names have at least a row.           *)
(*                                                                         *)
(* The tracker's invariant is PlayInv: while the transport rolls, the      *)
(* position is in the order list, its pattern is the order's and its row   *)
(* is one of the pattern, and so is the row a loop goes back to. Rows,     *)
(* layers, triggers and outputs are folds over sequences of any length;    *)
(* what they keep is shown by instances of FoldLemmas.                     *)
(***************************************************************************)
EXTENDS MCPlayback, SequenceTheorems, TLAPS

----------------------------------------------------------------------------
(* The tracker: what a tick keeps of the place in the song.                 *)

\* A channel as a tick leaves it, a note of a sequence layer, and the fields of the
\* play state.
ChannelStates ==
    [note : 0..MaxNote, ins : Nat, type : {"sample", "plugin"}, trigger : BOOLEAN, release : BOOLEAN,
     retrig : Nat, count : Nat, rowFx : Effects, rowArg : Nat]
Triggers == [ch : Nat, layer : Nat, slot : Nat, pitch : Nat, on : BOOLEAN]
Fields == {"order", "pat", "row", "tick", "speed", "fired", "chan", "patEnded", "songEnded", "loopRow", "loopCount",
           "loopActive", "flush", "delay", "nextOrder", "nextRow", "hasJump", "back", "seq"}

\* A play state of a song with n channels, whose numbers are naturals.
PlayState(p, n) ==
    /\ p = [f \in Fields |-> p[f]]
    /\ p.order \in Nat /\ p.pat \in Nat /\ p.row \in Nat /\ p.tick \in Nat /\ p.speed \in Nat
    /\ p.loopRow \in Nat /\ p.delay \in Nat /\ p.nextOrder \in Nat /\ p.nextRow \in Nat
    /\ p.chan \in [1..n -> ChannelStates] /\ p.seq \in Seq(Triggers)

\* What a row's effects leave of the play state they began with.
SamePlace(p, q) ==
    /\ q.order = p.order /\ q.pat = p.pat /\ q.row = p.row
    /\ q.loopRow \in {p.loopRow, p.row} /\ q.speed \in 1..31 \cup {p.speed}

\* A speed cell never asks for more than 31: 32 and up set the tempo.
LEMMA CellFacts ==
    ASSUME NEW cell \in Cells
    PROVE  /\ cell.arg \in Nat /\ cell.ins \in Nat /\ cell.fx \in Effects
           /\ cell.fx = "speed" => cell.arg \in 0..31
BY DEF Cells

\* Another list of notes moves nothing.
LEMMA SeqChanged ==
    ASSUME NEW n, NEW p, PlayState(p, n), NEW notes \in Seq(Triggers)
    PROVE  PlayState([p EXCEPT !.seq = notes], n) /\ SamePlace(p, [p EXCEPT !.seq = notes])
<1>1. PICK q : q = [p EXCEPT !.seq = notes]
  OBVIOUS
<1>2. p = [f \in Fields |-> p[f]]
  BY DEF PlayState
<1>3. q = [f \in Fields |-> q[f]] /\ \A f \in Fields : f # "seq" => q[f] = p[f]
  BY <1>1, <1>2
<1>4. q.seq = notes
  BY <1>1, <1>2 DEF Fields
<1>5. /\ q.order = p.order /\ q.pat = p.pat /\ q.row = p.row /\ q.tick = p.tick /\ q.speed = p.speed
      /\ q.loopRow = p.loopRow /\ q.delay = p.delay /\ q.nextOrder = p.nextOrder /\ q.nextRow = p.nextRow
      /\ q.chan = p.chan
  BY <1>3 DEF Fields
<1> QED
  BY <1>1, <1>3, <1>4, <1>5 DEF PlayState, SamePlace

\* One effect on the song leaves a play state that stands where it stood.
LEMMA SongEffectKeeps ==
    ASSUME NEW n \in Nat, NEW project, Typed(project), Playable(project),
           NEW p, PlayState(p, n), NEW q, PlayState(q, n), SamePlace(p, q), NEW cell \in Cells
    PROVE  PlayState(SongEffect(q, cell, project), n) /\ SamePlace(p, SongEffect(q, cell, project))
<1>0. Len(project.orders) \in Nat /\ Len(project.orders) > 0
  BY DEF Typed, Playable
<1>1. Least(cell.arg, Len(project.orders) - 1) \in Nat
  BY <1>0, CellFacts DEF Least
<1>2. cell.fx = "speed" => SpeedOf(cell.arg) \in 1..31
  BY CellFacts DEF SpeedOf, AtLeast
<1>3. cell.arg \in Nat
  BY CellFacts
<1>13. \A v \in 1..31 : v \in Nat
  OBVIOUS
<1>14. q.order \in Nat
  BY DEF PlayState
<1>6. q.order + 1 \in Nat
  BY <1>14
<1> USE DEF PlayState, Fields, SamePlace
<1>4. ASSUME NEW v \in 1..31, SongEffect(q, cell, project) = [q EXCEPT !.speed = v]
      PROVE PlayState(SongEffect(q, cell, project), n) /\ SamePlace(p, SongEffect(q, cell, project))
  <2>1. v \in Nat
    BY <1>13
  <2>2. PlayState([q EXCEPT !.speed = v], n)
    BY <2>1
  <2>3. SamePlace(p, [q EXCEPT !.speed = v])
    OBVIOUS
  <2> QED BY <2>2, <2>3, <1>4
<1>5. ASSUME NEW v \in Nat, NEW w \in Nat, SongEffect(q, cell, project) = [q EXCEPT !.hasJump = TRUE, !.nextRow = v, !.nextOrder = w]
      PROVE PlayState(SongEffect(q, cell, project), n) /\ SamePlace(p, SongEffect(q, cell, project))
  BY <1>5, ZenonT(60)
<1>7. CASE SongEffect(q, cell, project) = [q EXCEPT !.loopRow = q.row]
  BY <1>7
<1>8. CASE SongEffect(q, cell, project) = [q EXCEPT !.loopCount = cell.arg, !.loopActive = TRUE, !.back = TRUE]
  BY <1>3, <1>8
<1>9. CASE SongEffect(q, cell, project) = [q EXCEPT !.loopCount = 0, !.loopActive = FALSE]
  BY <1>9
<1>10. CASE SongEffect(q, cell, project) = [q EXCEPT !.loopCount = q.loopCount - 1, !.back = TRUE] /\ q.loopCount > 1
  BY <1>10
<1>11. CASE SongEffect(q, cell, project) = [q EXCEPT !.delay = cell.arg]
  BY <1>3, <1>11
<1>12. CASE SongEffect(q, cell, project) = q
  BY <1>12
<1> HIDE DEF PlayState, Fields, SamePlace
<1> QED
  <2>1. CASE cell.fx = "speed"
    BY <1>2, <1>4, <2>1 DEF SongEffect
  <2>2. CASE cell.fx = "jump"
    BY <1>1, <1>5, <2>2 DEF SongEffect
  <2>3. CASE cell.fx = "break"
    BY <1>3, <1>5, <1>6, <1>12, <2>3 DEF SongEffect
  <2>4. CASE cell.fx = "loop"
    BY <1>3, <1>7, <1>8, <1>9, <1>10, <1>12, <2>4 DEF SongEffect
  <2>5. CASE cell.fx = "delay"
    BY <1>11, <1>12, <2>5 DEF SongEffect
  <2>6. CASE cell.fx \notin {"speed", "jump", "break", "loop", "delay"}
    BY <1>12, <2>6 DEF SongEffect
  <2> QED
    BY <2>1, <2>2, <2>3, <2>4, <2>5, <2>6

\* The effects of a row, cell by cell.
RowStep(ctx, q, cell) == SongEffect(q, cell, ctx[2])
RowHolds(ctx, done, q) == PlayState(q, ctx[1]) /\ SamePlace(ctx[3], q)
Rows == INSTANCE FoldLemmas WITH Step <- RowStep, Holds <- RowHolds

\* The play state stands on a row of a pattern of the song.
Standing(p, project) == HasPattern(project, p.pat) /\ p.row < Len(PatternById(project, p.pat))

\* The row under the position is a cell for each channel.
LEMMA CellsOfRow ==
    ASSUME NEW project, Typed(project), NEW p, PlayState(p, project.channels), Standing(p, project)
    PROVE  /\ PatternById(project, p.pat)[p.row + 1] \in [1..project.channels -> Cells]
           /\ PatternById(project, p.pat)[p.row + 1] \in Seq(Cells)
<1>1. PatternById(project, p.pat) \in Seq([1..project.channels -> Cells])
  BY DEF Typed, Standing, HasPattern, PatternById
<1>2. PatternById(project, p.pat)[p.row + 1] \in [1..project.channels -> Cells]
  <2>1. PICK rows \in Seq([1..project.channels -> Cells]) : rows = PatternById(project, p.pat)
    BY <1>1
  <2>2. p.row + 1 \in 1..Len(rows)
    BY <2>1, SMTT(60) DEF PlayState, Standing
  <2> QED
    BY <2>1, <2>2
<1>3. project.channels \in Nat
  BY DEF Typed
<1> QED
  BY <1>2, <1>3

\* The note column of a cell leaves a channel state.
LEMMA CellNoteTyped ==
    ASSUME NEW project, Typed(project), NEW c \in ChannelStates, NEW cell \in Cells
    PROVE  CellNote(c, cell, project) \in ChannelStates
<1>1. /\ cell.ins \in Nat /\ (IsNote(cell) => cell.note \in 0..MaxNote) /\ 0 \in 0..MaxNote
      /\ cell.ins \in DOMAIN project.table => project.table[cell.ins] \in {"sample", "plugin"}
  <2>1. cell.ins \in Nat
    BY CellFacts
  <2>2. cell.ins \in DOMAIN project.table => project.table[cell.ins] \in {"sample", "plugin"}
    BY DEF Typed
  <2>3. (IsNote(cell) => cell.note \in 0..MaxNote) /\ 0 \in 0..MaxNote
    BY DEF IsNote, MaxNote
  <2> QED
    BY <2>1, <2>2, <2>3
<1> DEFINE type == IF cell.ins \in DOMAIN project.table THEN project.table[cell.ins] ELSE "sample"
           chosen == IF cell.ins # 0 /\ (IsNote(cell) \/ ~(cell.fx = "porta"))
                     THEN [c EXCEPT !.ins = cell.ins, !.type = type] ELSE c
<1>2. type \in {"sample", "plugin"}
  BY <1>1
<1> HIDE DEF type
<1>3. chosen \in ChannelStates
  BY <1>1, <1>2 DEF ChannelStates
<1> HIDE DEF chosen
<1>4. /\ [chosen EXCEPT !.release = TRUE, !.note = 0] \in ChannelStates
      /\ IsNote(cell) => [chosen EXCEPT !.note = cell.note, !.trigger = TRUE] \in ChannelStates
  BY <1>1, <1>3 DEF ChannelStates
<1>5. CellNote(c, cell, project) =
        CASE cell.note = NoteOff -> [chosen EXCEPT !.release = TRUE, !.note = 0]
          [] IsNote(cell) /\ ~(cell.fx = "porta") -> [chosen EXCEPT !.note = cell.note, !.trigger = TRUE]
          [] OTHER -> chosen
  BY Zenon DEF CellNote, chosen, type
<1> QED
  BY <1>3, <1>4, <1>5

\* A cell that takes its channel's instrument is a cell.
LEMMA WithInstrumentTyped ==
    ASSUME NEW project, Typed(project), NEW cell \in Cells, NEW ch
    PROVE  WithInstrument(cell, ch, project) \in Cells
<1>1. ASSUME NEW n \in Nat PROVE [cell EXCEPT !.ins = n] \in Cells
  BY DEF Cells
<1>2. BoundInstrument(project, ch, cell.sub) \in Nat
  <2>1. BoundTo(project, ch) \subseteq Nat
    BY DEF BoundTo, Typed
  <2> QED
    BY <2>1, Zenon DEF BoundInstrument
<1> QED
  BY <1>1, <1>2, Zenon DEF WithInstrument

\* A whole cell leaves a channel state.
LEMMA FireCellTyped ==
    ASSUME NEW project, Typed(project), NEW c \in ChannelStates, NEW cell \in Cells, NEW ch
    PROVE  FireCell(c, cell, ch, project) \in ChannelStates
<1>1. cell.arg \in Nat /\ cell.fx \in Effects
  BY CellFacts
<1>2. [c EXCEPT !.rowFx = cell.fx, !.rowArg = cell.arg] \in ChannelStates
  BY <1>1 DEF ChannelStates
<1>3. PICK d \in ChannelStates :
        d = CellNote([c EXCEPT !.rowFx = cell.fx, !.rowArg = cell.arg], WithInstrument(cell, ch, project), project)
  BY <1>2, WithInstrumentTyped, CellNoteTyped
<1>4. CellEffect(d, cell) \in ChannelStates
  <2>1. 192 + cell.arg \in Nat /\ 208 + cell.arg \in Nat
    BY <1>1
  <2>2. \A v \in Nat : [d EXCEPT !.retrig = v] \in ChannelStates
    BY DEF ChannelStates
  <2>3. [d EXCEPT !.retrig = cell.arg, !.count = 0] \in ChannelStates
    BY <1>1 DEF ChannelStates
  <2>4. [d EXCEPT !.trigger = FALSE, !.retrig = 208 + cell.arg] \in ChannelStates
    <3>1. PICK silent \in ChannelStates : silent = [d EXCEPT !.trigger = FALSE]
      BY DEF ChannelStates
    <3>2. [silent EXCEPT !.retrig = 208 + cell.arg] \in ChannelStates
      BY <2>1 DEF ChannelStates
    <3> QED
      BY <3>1, <3>2, Zenon
  <2> QED
    BY <2>1, <2>2, <2>3, <2>4 DEF CellEffect
<1> QED
  BY <1>3, <1>4, Zenon DEF FireCell

\* The first tick of a row fires its cells and stands where it stood.
LEMMA FireRowKeeps ==
    ASSUME NEW project, Typed(project), Playable(project),
           NEW p, PlayState(p, project.channels), Standing(p, project)
    PROVE  /\ PlayState(FireRow(p, project), project.channels)
           /\ SamePlace(p, FireRow(p, project))
<1> DEFINE n == project.channels
           cells == PatternById(project, p.pat)[p.row + 1]
           ctx == <<n, project, p>>
           q == Rows!Fold(ctx, p, cells)
           fired == [ch \in DOMAIN p.chan |-> FireCell(p.chan[ch], cells[ch], ch, project)]
<1>1. cells \in [1..n -> Cells] /\ cells \in Seq(Cells) /\ n \in Nat
  BY CellsOfRow DEF Typed
<1>2. ctx[1] = n /\ ctx[2] = project /\ ctx[3] = p
  OBVIOUS
<1> HIDE DEF n, cells, ctx
<1>3. RowHolds(ctx, <<>>, p)
  BY <1>2 DEF RowHolds, SamePlace, n
<1>4. ASSUME NEW done \in Seq(Cells), NEW cell \in Cells, NEW r, RowHolds(ctx, done, r)
      PROVE  RowHolds(ctx, Append(done, cell), RowStep(ctx, r, cell))
  BY <1>1, <1>2, <1>4, SongEffectKeeps DEF RowHolds, RowStep, n
<1>5. RowHolds(ctx, cells, q)
  BY <1>1, <1>3, <1>4, Rows!FoldHolds
<1>6. PlayState(q, n) /\ SamePlace(p, q)
  BY <1>2, <1>5 DEF RowHolds
<1>7. FireRow(p, project) = [q EXCEPT !.fired = TRUE, !.chan = fired]
  <2> DEFINE Fired(r, cell) == SongEffect(r, cell, project)
  <2>1. FoldLeft(Fired, p, cells) = q
    BY <1>2, Zenon DEF Rows!Fold, RowStep, FoldLeft, MapThenFoldSet, Rows!FoldLeft, Rows!MapThenFoldSet, Max, Rows!Max
  <2>2. FireRow(p, project) = [FoldLeft(Fired, p, cells) EXCEPT !.fired = TRUE, !.chan = fired]
    BY Zenon DEF FireRow, cells
  <2> QED
    BY <2>1, <2>2, Zenon
<1>8. fired \in [1..n -> ChannelStates]
  BY <1>1, FireCellTyped DEF PlayState, n
<1> HIDE DEF q, fired
<1>9. PlayState([q EXCEPT !.fired = TRUE, !.chan = fired], n) /\ SamePlace(p, [q EXCEPT !.fired = TRUE, !.chan = fired])
  BY <1>6, <1>8 DEF PlayState, Fields, SamePlace
<1> QED
  BY <1>7, <1>9 DEF n

\* The ticks within a row stand where they stood.
LEMMA MidRowKeeps ==
    ASSUME NEW project, Typed(project), NEW p, PlayState(p, project.channels), Standing(p, project)
    PROVE  /\ PlayState(MidRow(p, project), project.channels)
           /\ SamePlace(p, MidRow(p, project))
<1> DEFINE cells == PatternById(project, p.pat)[p.row + 1]
           next == [ch \in DOMAIN p.chan |-> MidCell(p.chan[ch], cells[ch], p.tick)]
<1>1. cells \in [1..project.channels -> Cells]
  BY CellsOfRow
<1>2. ASSUME NEW c \in ChannelStates, NEW cell, NEW tick PROVE MidCell(c, cell, tick) \in ChannelStates
  <2>1. c.count + 1 \in Nat
    BY DEF ChannelStates
  <2>2. /\ [c EXCEPT !.release = TRUE] \in ChannelStates /\ [c EXCEPT !.trigger = TRUE] \in ChannelStates
        /\ [c EXCEPT !.count = 0, !.trigger = TRUE] \in ChannelStates
        /\ [c EXCEPT !.count = c.count + 1] \in ChannelStates
    BY <2>1 DEF ChannelStates
  <2> QED
    BY <2>2 DEF MidCell
<1>3. next \in [1..project.channels -> ChannelStates]
  BY <1>1, <1>2 DEF PlayState
<1>4. MidRow(p, project) = [p EXCEPT !.chan = next]
  BY Zenon DEF MidRow
<1> HIDE DEF next
<1> QED
  BY <1>3, <1>4 DEF PlayState, Fields, SamePlace

\* A trigger of a layer is appended, or dropped by a full list.
LEMMA PushTyped ==
    ASSUME NEW list \in Seq(Triggers), NEW layer \in Layers, NEW id \in Nat, NEW n \in LayerNotes, NEW on \in BOOLEAN
    PROVE  PushTrigger(list, Trigger(layer, id, n, on)) \in Seq(Triggers)
<1>1. Trigger(layer, id, n, on) \in Triggers
  BY DEF Trigger, Triggers, Layers, LayerNotes
<1> QED
  BY <1>1 DEF PushTrigger

\* The triggers that a layer's notes start and end, and those of all layers.
StartStep(ctx, l, n) == StartTrigger(l, n, ctx[1], ctx[2], ctx[3])
EndStep(ctx, l, n) == EndTrigger(l, n, ctx[1], ctx[2], ctx[3])
LayerStep(ctx, list, id) == LayerTriggers(list, ctx[1][id], id, ctx[2])
TriggersHold(ctx, done, list) == list \in Seq(Triggers)
Starts == INSTANCE FoldLemmas WITH Step <- StartStep, Holds <- TriggersHold
Ends == INSTANCE FoldLemmas WITH Step <- EndStep, Holds <- TriggersHold
OfLayers == INSTANCE FoldLemmas WITH Step <- LayerStep, Holds <- TriggersHold

\* The notes of a layer add triggers to the list.
LEMMA LayerTyped ==
    ASSUME NEW at, NEW layer \in Layers, NEW list \in Seq(Triggers), NEW id \in Nat
    PROVE  LayerTriggers(list, layer, id, at) \in Seq(Triggers)
<1> DEFINE ctx == <<layer, id, at>>
           Began(l, n) == StartTrigger(l, n, layer, id, at)
           Finished(l, n) == EndTrigger(l, n, layer, id, at)
           started == Starts!Fold(ctx, list, layer.notes)
           ended == Ends!Fold(ctx, started, layer.notes)
<1>1. layer.notes \in Seq(LayerNotes)
  BY DEF Layers
<1>2. ctx[1] = layer /\ ctx[2] = id /\ ctx[3] = at
  OBVIOUS
<1> HIDE DEF ctx
<1>3. started \in Seq(Triggers)
  <2>1. \A done \in Seq(LayerNotes), n \in LayerNotes : \A l :
            TriggersHold(ctx, done, l) => TriggersHold(ctx, Append(done, n), StartStep(ctx, l, n))
    BY <1>2, PushTyped DEF TriggersHold, StartStep, StartTrigger
  <2>2. TriggersHold(ctx, layer.notes, started)
    BY <1>1, <2>1, Starts!FoldHolds DEF TriggersHold
  <2> QED
    BY <2>2 DEF TriggersHold
<1>4. FoldLeft(Began, list, layer.notes) = started
  BY <1>2, ZenonT(240) DEF Starts!Fold, StartStep, FoldLeft, MapThenFoldSet, Starts!FoldLeft, Starts!MapThenFoldSet,
     Max, Starts!Max
<1> HIDE DEF started
<1>5. ended \in Seq(Triggers)
  <2>1. \A done \in Seq(LayerNotes), n \in LayerNotes : \A l :
            TriggersHold(ctx, done, l) => TriggersHold(ctx, Append(done, n), EndStep(ctx, l, n))
    BY <1>2, PushTyped DEF TriggersHold, EndStep, EndTrigger
  <2>2. TriggersHold(ctx, layer.notes, ended)
    BY <1>1, <1>3, <2>1, Ends!FoldHolds DEF TriggersHold
  <2> QED
    BY <2>2 DEF TriggersHold
<1>6. FoldLeft(Finished, started, layer.notes) = ended
  BY <1>2, ZenonT(240) DEF Ends!Fold, EndStep, FoldLeft, MapThenFoldSet, Ends!FoldLeft, Ends!MapThenFoldSet, Max, Ends!Max
<1> HIDE DEF ended
<1>7. LayerTriggers(list, layer, id, at) = FoldLeft(Finished, FoldLeft(Began, list, layer.notes), layer.notes)
  BY Zenon DEF LayerTriggers
<1>8. LayerTriggers(list, layer, id, at) = FoldLeft(Finished, started, layer.notes)
  BY <1>4, <1>7, Zenon
<1> QED
  BY <1>5, <1>6, <1>8, Zenon

\* The scan of the layers only fills the list of triggers.
LEMMA ScanKeeps ==
    ASSUME NEW project, Typed(project), NEW p, PlayState(p, project.channels), Standing(p, project)
    PROVE  /\ PlayState(Scan(p, project), project.channels)
           /\ SamePlace(p, Scan(p, project))
<1> DEFINE at == p.row * p.speed + p.tick
           layers == project.layers[p.pat + 1]
           ids == [id \in 1..Len(layers) |-> id]
           ctx == <<layers, at>>
           all == OfLayers!Fold(ctx, <<>>, ids)
           OfLayer(list, id) == LayerTriggers(list, layers[id], id, at)
<1>1. layers \in Seq(Layers)
  <2>1. Len(project.patterns) \in Nat
    BY DEF Typed
  <2>2. p.pat + 1 \in 1..Len(project.patterns)
    BY <2>1, SMTT(60) DEF Standing, HasPattern, PlayState
  <2> QED
    BY <2>2 DEF Typed
<1>2. ids \in Seq(1..Len(layers))
  BY <1>1
<1>3. ctx[1] = layers /\ ctx[2] = at
  OBVIOUS
<1> HIDE DEF at, layers, ids, ctx
<1>4. \A done \in Seq(1..Len(layers)), id \in 1..Len(layers) : \A l :
          TriggersHold(ctx, done, l) => TriggersHold(ctx, Append(done, id), LayerStep(ctx, l, id))
  <2>1. \A id \in 1..Len(layers) : id \in Nat /\ layers[id] \in Layers
    BY <1>1
  <2> QED
    BY <1>3, <2>1, LayerTyped DEF TriggersHold, LayerStep
<1>5. TriggersHold(ctx, ids, all)
  <2>1. TriggersHold(ctx, <<>>, <<>>)
    BY DEF TriggersHold
  <2> QED
    BY <1>2, <1>4, <2>1, OfLayers!FoldHolds
<1>6. FoldLeft(OfLayer, <<>>, ids) = all
  BY <1>3, Zenon DEF OfLayers!Fold, LayerStep, FoldLeft, MapThenFoldSet, OfLayers!FoldLeft, OfLayers!MapThenFoldSet,
     Max, OfLayers!Max
<1>7. Scan(p, project) = [p EXCEPT !.seq = FoldLeft(OfLayer, <<>>, ids)]
  BY Zenon DEF Scan, at, layers, ids
<1> HIDE DEF all
<1>8. Scan(p, project) = [p EXCEPT !.seq = all]
  BY <1>6, <1>7, Zenon
<1>9. all \in Seq(Triggers)
  BY <1>5, Zenon DEF TriggersHold
<1>10. PlayState([p EXCEPT !.seq = all], project.channels) /\ SamePlace(p, [p EXCEPT !.seq = all])
  BY <1>9, SeqChanged
<1> QED
  BY <1>8, <1>10, Zenon

\* The position is on an order of the song, on its pattern and on a row of it, and so is the
\* row that a loop goes back to.
InSong(p, project) ==
    /\ p.order < Len(project.orders) /\ p.pat = OrderAt(project, p.order)
    /\ p.row < Len(PatternById(project, p.pat)) /\ p.loopRow < Len(PatternById(project, p.pat))

\* An order of a playable song names a pattern of the song that has a row.
LEMMA OrderFacts ==
    ASSUME NEW project, Typed(project), Playable(project), NEW pos \in Nat, pos < Len(project.orders)
    PROVE  /\ OrderAt(project, pos) \in Nat /\ HasPattern(project, OrderAt(project, pos))
           /\ Len(PatternById(project, OrderAt(project, pos))) \in Nat
           /\ Len(PatternById(project, OrderAt(project, pos))) > 0
           /\ RowsForOrder(project, pos) = Len(PatternById(project, OrderAt(project, pos)))
<1>1. PICK orders \in Seq(Nat) : orders = project.orders
  BY DEF Typed
<1>2. PICK patterns \in Seq(Seq([1..project.channels -> Cells])) : patterns = project.patterns
  BY DEF Typed
<1>3. pos + 1 \in 1..Len(orders)
  BY <1>1
<1>4. orders[pos + 1] \in Nat
  BY <1>1, <1>3
<1>5. HasPattern(project, orders[pos + 1]) /\ Len(PatternById(project, orders[pos + 1])) > 0
  BY <1>1, <1>3 DEF Playable
<1>6. orders[pos + 1] + 1 \in 1..Len(patterns)
  BY <1>2, <1>4, <1>5, SMTT(60) DEF HasPattern
<1>7. patterns[orders[pos + 1] + 1] \in Seq([1..project.channels -> Cells])
  BY <1>2, <1>6
<1>8. Len(PatternById(project, orders[pos + 1])) \in Nat
  BY <1>2, <1>7 DEF PatternById
<1>9. pos \in 0..(Len(orders) - 1)
  BY <1>1
<1> QED
  BY <1>1, <1>4, <1>5, <1>8, <1>9 DEF OrderAt, RowsForOrder

\* A position in the song stands on a row.
LEMMA InSongStands ==
    ASSUME NEW project, Typed(project), Playable(project), NEW p, PlayState(p, project.channels), InSong(p, project)
    PROVE  Standing(p, project)
BY OrderFacts DEF InSong, Standing, PlayState

\* A new place: an order of the song, its pattern, a row of it.
LEMMA MoveKeeps ==
    ASSUME NEW project, Typed(project), Playable(project),
           NEW pos \in Nat, pos < Len(project.orders), NEW row \in Nat,
           row < Len(PatternById(project, OrderAt(project, pos))),
           NEW q, q.order = pos, q.pat = OrderAt(project, pos), q.row = row, PlayState(q, project.channels)
    PROVE  /\ PlayState(ForgetLoop(q), project.channels) /\ InSong(ForgetLoop(q), project)
           /\ ForgetLoop(q).speed = q.speed
<1>1. Len(PatternById(project, OrderAt(project, pos))) > 0
  BY OrderFacts
<1>2. PICK r : r = ForgetLoop(q)
  OBVIOUS
<1>3. /\ PlayState(r, project.channels)
      /\ r.order = pos /\ r.pat = OrderAt(project, pos) /\ r.row = row /\ r.loopRow = 0 /\ r.speed = q.speed
  BY <1>2 DEF ForgetLoop, PlayState, Fields
<1> QED
  BY <1>1, <1>2, <1>3 DEF InSong

Jumped(p, order, pat, row) ==
    [p EXCEPT !.order = order, !.pat = pat, !.row = row, !.hasJump = FALSE, !.nextOrder = 0, !.nextRow = 0]
GoneTo(q, p, n, order, pat, row) ==
    PlayState(q, n) /\ q.order = order /\ q.pat = pat /\ q.row = row /\ q.speed = p.speed

\* The play state of a jump that was taken is one.
LEMMA JumpTyped ==
    ASSUME NEW n, NEW p, PlayState(p, n), NEW order \in Nat, NEW pat \in Nat, NEW row \in Nat
    PROVE  GoneTo(Jumped(p, order, pat, row), p, n, order, pat, row)
<1>0. PICK q : q = Jumped(p, order, pat, row)
  OBVIOUS
<1> DEFINE Moved == {"order", "pat", "row", "hasJump", "nextOrder", "nextRow"}
<1>1. p = [f \in Fields |-> p[f]]
  BY Zenon DEF PlayState
<1>2. DOMAIN p = Fields
  BY <1>1
<1>3. q.order = order /\ q.pat = pat /\ q.row = row /\ q.nextOrder = 0 /\ q.nextRow = 0
  BY <1>0, <1>2 DEF Fields, Jumped
<1>4. \A f \in Fields : f \notin Moved => q[f] = p[f]
  BY <1>0, <1>2 DEF Jumped
<1>5. q = [f \in Fields |-> q[f]]
  BY <1>0, <1>2 DEF Jumped
<1>6. /\ q.speed = p.speed /\ q.tick = p.tick /\ q.loopRow = p.loopRow /\ q.delay = p.delay /\ q.chan = p.chan
      /\ q.seq = p.seq
  BY <1>4 DEF Fields
<1>7. /\ p.tick \in Nat /\ p.speed \in Nat /\ p.loopRow \in Nat /\ p.delay \in Nat
      /\ p.chan \in [1..n -> ChannelStates] /\ p.seq \in Seq(Triggers)
  BY Zenon DEF PlayState
<1>8. /\ q.order \in Nat /\ q.pat \in Nat /\ q.row \in Nat /\ q.tick \in Nat /\ q.speed \in Nat
      /\ q.loopRow \in Nat /\ q.delay \in Nat /\ q.nextOrder \in Nat /\ q.nextRow \in Nat
      /\ q.chan \in [1..n -> ChannelStates] /\ q.seq \in Seq(Triggers)
  BY <1>3, <1>6, <1>7
<1>9. PlayState(q, n)
  BY <1>5, <1>8, Zenon DEF PlayState
<1> QED
  BY <1>0, <1>3, <1>6, <1>9, Zenon DEF GoneTo

\* A jump or a break lands on an order and a row of the song.
LEMMA TakeJumpKeeps ==
    ASSUME NEW project, Typed(project), Playable(project), NEW p, PlayState(p, project.channels)
    PROVE  /\ PlayState(TakeJump(p, project), project.channels) /\ InSong(TakeJump(p, project), project)
           /\ TakeJump(p, project).speed = p.speed
<1> DEFINE pos == p.nextOrder % Len(project.orders)
           row == RowOfJump(p.nextRow, RowsForOrder(project, pos))
           q == Jumped(p, pos, OrderAt(project, pos), row)
<1>1. Len(project.orders) \in Nat /\ Len(project.orders) > 0
  BY DEF Typed, Playable
<1>2. p.nextOrder \in Nat /\ p.nextRow \in Nat
  BY DEF PlayState
<1>3. pos \in Nat /\ pos < Len(project.orders)
  <2>1. \A i, j \in Nat : j > 0 => i % j \in Nat /\ i % j < j
    OBVIOUS
  <2> QED
    BY <1>1, <1>2, <2>1, Zenon
<1>4. TakeJump(p, project) = ForgetLoop(q)
  BY Zenon DEF TakeJump, Jumped
<1> HIDE DEF pos
<1>5. row \in Nat /\ row < Len(PatternById(project, OrderAt(project, pos))) /\ OrderAt(project, pos) \in Nat
  BY <1>2, <1>3, OrderFacts DEF RowOfJump, Least
<1> HIDE DEF row
<1>6. PlayState(q, project.channels) /\ q.order = pos /\ q.pat = OrderAt(project, pos) /\ q.row = row /\ q.speed = p.speed
  <2>1. PlayState(p, project.channels) /\ pos \in Nat /\ OrderAt(project, pos) \in Nat /\ row \in Nat
    BY <1>3, <1>5
  <2>2. GoneTo(q, p, project.channels, pos, OrderAt(project, pos), row)
    BY <2>1, JumpTyped, Zenon
  <2> QED
    BY <2>2, Zenon DEF GoneTo
<1> HIDE DEF q
<1> QED
  BY <1>3, <1>4, <1>5, <1>6, MoveKeeps

\* The end of a pattern leads to the next order, or to the first.
LEMMA NextPatternKeeps ==
    ASSUME NEW project, Typed(project), Playable(project), NEW p, PlayState(p, project.channels)
    PROVE  /\ PlayState(NextPattern(p, project), project.channels) /\ InSong(NextPattern(p, project), project)
           /\ NextPattern(p, project).speed = p.speed
<1> DEFINE wraps == p.order + 1 >= Len(project.orders)
           pos == IF wraps THEN 0 ELSE p.order + 1
           q == [p EXCEPT !.patEnded = TRUE, !.songEnded = wraps, !.order = pos, !.pat = OrderAt(project, pos), !.row = 0]
<1>1. Len(project.orders) \in Nat /\ Len(project.orders) > 0
  BY DEF Typed, Playable
<1>2. pos \in Nat /\ pos < Len(project.orders)
  BY <1>1, SMTT(60) DEF PlayState
<1>3. NextPattern(p, project) = ForgetLoop(q)
  BY Zenon DEF NextPattern
<1> HIDE DEF pos, wraps
<1>4. 0 \in Nat /\ 0 < Len(PatternById(project, OrderAt(project, pos))) /\ OrderAt(project, pos) \in Nat
  BY <1>2, OrderFacts
<1>5. PlayState(q, project.channels) /\ q.order = pos /\ q.pat = OrderAt(project, pos) /\ q.row = 0 /\ q.speed = p.speed
  BY <1>2, <1>4 DEF PlayState, Fields
<1> HIDE DEF q
<1> QED
  BY <1>2, <1>3, <1>4, <1>5, MoveKeeps

\* The next row is in the song.
LEMMA AdvanceRowKeeps ==
    ASSUME NEW project, Typed(project), Playable(project), NEW p, PlayState(p, project.channels), InSong(p, project)
    PROVE  /\ PlayState(AdvanceRow(p, project), project.channels) /\ InSong(AdvanceRow(p, project), project)
           /\ AdvanceRow(p, project).speed = p.speed
<1>1. Len(PatternById(project, p.pat)) \in Nat /\ p.row + 1 \in Nat
  BY OrderFacts, SMTT(60) DEF InSong, PlayState
<1>2. ASSUME p.row + 1 < Len(PatternById(project, p.pat))
      PROVE  /\ PlayState([p EXCEPT !.row = p.row + 1], project.channels) /\ InSong([p EXCEPT !.row = p.row + 1], project)
             /\ [p EXCEPT !.row = p.row + 1].speed = p.speed
  <2>1. PICK q : q = [p EXCEPT !.row = p.row + 1]
    OBVIOUS
  <2>2. PlayState(q, project.channels) /\ q.row = p.row + 1 /\ q.order = p.order /\ q.pat = p.pat /\ q.loopRow = p.loopRow
        /\ q.speed = p.speed
    BY <1>1, <2>1 DEF PlayState, Fields
  <2> QED
    BY <1>2, <2>1, <2>2 DEF InSong
<1> DEFINE row == p.row + 1
           ends == \/ row >= Len(PatternById(project, p.pat))
                   \/ p.hasJump /\ row >= p.nextRow /\ ~p.loopActive
<1>3. AdvanceRow(p, project) =
          CASE ends /\ p.hasJump -> TakeJump(p, project)
            [] ends /\ ~p.hasJump -> NextPattern(p, project)
            [] OTHER -> [p EXCEPT !.row = row]
  BY Zenon DEF AdvanceRow
<1>4. ~ends => row < Len(PatternById(project, p.pat))
  BY <1>1
<1> HIDE DEF ends
<1>5. \/ AdvanceRow(p, project) \in {TakeJump(p, project), NextPattern(p, project)}
      \/ ~ends /\ AdvanceRow(p, project) = [p EXCEPT !.row = row]
  BY <1>3
<1>6. CASE AdvanceRow(p, project) = TakeJump(p, project)
  BY <1>6, TakeJumpKeeps
<1>7. CASE AdvanceRow(p, project) = NextPattern(p, project)
  BY <1>7, NextPatternKeeps
<1>8. CASE ~ends /\ AdvanceRow(p, project) = [p EXCEPT !.row = row]
  BY <1>2, <1>4, <1>8
<1> QED
  BY <1>5, <1>6, <1>7, <1>8, Zenon

\* The end of a row, delayed, looped or not, leads to a row of the song.
LEMMA EndRowKeeps ==
    ASSUME NEW project, Typed(project), Playable(project), NEW p, PlayState(p, project.channels), InSong(p, project)
    PROVE  /\ PlayState(EndRow(p, project), project.channels) /\ InSong(EndRow(p, project), project)
           /\ EndRow(p, project).speed = p.speed
<1> DEFINE leaves == IF p.back THEN [p EXCEPT !.row = p.loopRow, !.flush = TRUE] ELSE AdvanceRow(p, project)
<1>1. /\ PlayState(leaves, project.channels) /\ InSong(leaves, project)
      /\ leaves.speed = p.speed
  <2>1. PICK q : q = [p EXCEPT !.row = p.loopRow, !.flush = TRUE]
    OBVIOUS
  <2>2. PlayState(q, project.channels) /\ q.row = p.loopRow /\ q.order = p.order /\ q.pat = p.pat /\ q.loopRow = p.loopRow
        /\ q.speed = p.speed
    BY <2>1 DEF PlayState, Fields
  <2>3. InSong(q, project)
    BY <2>2 DEF InSong
  <2> QED
    BY <2>1, <2>2, <2>3, AdvanceRowKeeps
<1>2. EndRow(p, project) = CASE p.delay > 1 -> [p EXCEPT !.delay = p.delay - 1]
                             [] p.delay = 1 -> [leaves EXCEPT !.delay = 0]
                             [] OTHER -> leaves
  BY Zenon DEF EndRow
<1> HIDE DEF leaves
<1>3. ASSUME NEW q, NEW d \in Nat, PlayState(q, project.channels), InSong(q, project), q.speed = p.speed
      PROVE  /\ PlayState([q EXCEPT !.delay = d], project.channels) /\ InSong([q EXCEPT !.delay = d], project)
             /\ [q EXCEPT !.delay = d].speed = p.speed
  <2>1. PICK r : r = [q EXCEPT !.delay = d]
    OBVIOUS
  <2>2. PlayState(r, project.channels) /\ r.row = q.row /\ r.order = q.order /\ r.pat = q.pat /\ r.loopRow = q.loopRow
        /\ r.speed = p.speed
    BY <1>3, <2>1 DEF PlayState, Fields
  <2> QED
    BY <1>3, <2>1, <2>2 DEF InSong
<1>4. p.delay > 1 => p.delay - 1 \in Nat
  BY DEF PlayState
<1> QED
  BY <1>1, <1>2, <1>3, <1>4

\* The next tick is in the song.
LEMMA NextTickKeeps ==
    ASSUME NEW project, Typed(project), Playable(project), NEW p, PlayState(p, project.channels), InSong(p, project)
    PROVE  /\ PlayState(NextTick(p, project), project.channels) /\ InSong(NextTick(p, project), project)
           /\ NextTick(p, project).speed = p.speed
<1>1. ASSUME NEW t \in Nat
      PROVE  /\ PlayState([p EXCEPT !.tick = t], project.channels) /\ InSong([p EXCEPT !.tick = t], project)
             /\ [p EXCEPT !.tick = t].speed = p.speed
  <2>1. PICK r : r = [p EXCEPT !.tick = t]
    OBVIOUS
  <2>2. PlayState(r, project.channels) /\ r.row = p.row /\ r.order = p.order /\ r.pat = p.pat /\ r.loopRow = p.loopRow
        /\ r.speed = p.speed
    BY <2>1 DEF PlayState, Fields
  <2> QED
    BY <2>1, <2>2 DEF InSong
<1>2. p.tick + 1 \in Nat /\ 0 \in Nat
  BY DEF PlayState
<1>3. NextTick(p, project) \in {EndRow([p EXCEPT !.tick = 0], project), [p EXCEPT !.tick = p.tick + 1]}
  BY Zenon DEF NextTick
<1>4. CASE NextTick(p, project) = EndRow([p EXCEPT !.tick = 0], project)
  <2>1. PICK q : q = [p EXCEPT !.tick = 0]
    OBVIOUS
  <2>2. PlayState(q, project.channels) /\ InSong(q, project) /\ q.speed = p.speed
    BY <1>1, <1>2, <2>1
  <2> QED
    BY <1>4, <2>1, <2>2, EndRowKeeps
<1>5. CASE NextTick(p, project) = [p EXCEPT !.tick = p.tick + 1]
  BY <1>1, <1>2, <1>5
<1> QED
  BY <1>3, <1>4, <1>5, Zenon

\* Clearing the outputs of the last tick moves nothing.
LEMMA ClearKeeps ==
    ASSUME NEW n \in Nat, NEW p, PlayState(p, n)
    PROVE  PlayState(ClearOutputs(p), n) /\ SamePlace(p, ClearOutputs(p)) /\ ClearOutputs(p).loopRow = p.loopRow
<1> DEFINE next == [ch \in DOMAIN p.chan |-> [p.chan[ch] EXCEPT !.trigger = FALSE, !.release = FALSE]]
<1>1. next \in [1..n -> ChannelStates]
  <2>1. ASSUME NEW c \in ChannelStates PROVE [c EXCEPT !.trigger = FALSE, !.release = FALSE] \in ChannelStates
    BY DEF ChannelStates
  <2>2. DOMAIN p.chan = 1..n /\ \A ch \in 1..n : p.chan[ch] \in ChannelStates
    BY DEF PlayState
  <2>3. \A ch \in 1..n : [p.chan[ch] EXCEPT !.trigger = FALSE, !.release = FALSE] \in ChannelStates
    BY <2>1, <2>2, Zenon
  <2> QED
    BY <2>2, <2>3, Zenon
<1>2. ClearOutputs(p) = [p EXCEPT !.chan = next, !.patEnded = FALSE, !.songEnded = FALSE, !.seq = <<>>,
                                  !.back = FALSE, !.flush = FALSE, !.fired = FALSE]
  BY Zenon DEF ClearOutputs
<1> HIDE DEF next
<1>3. <<>> \in Seq(Triggers)
  OBVIOUS
<1>4. PICK q : q = [p EXCEPT !.chan = next, !.patEnded = FALSE, !.songEnded = FALSE, !.seq = <<>>,
                             !.back = FALSE, !.flush = FALSE, !.fired = FALSE]
  OBVIOUS
<1>5. p = [f \in Fields |-> p[f]]
  BY DEF PlayState
<1>6. q = [f \in Fields |-> q[f]]
  <2>1. DOMAIN p = Fields
    BY <1>5
  <2>2. DOMAIN q = DOMAIN p /\ q = [f \in DOMAIN q |-> q[f]]
    BY <1>4, Zenon
  <2> QED
    BY <2>1, <2>2, Zenon
<1>7. q.chan = next /\ q.seq = <<>>
  BY <1>4, <1>5 DEF Fields
<1>8. /\ q.order = p.order /\ q.pat = p.pat /\ q.row = p.row /\ q.tick = p.tick /\ q.speed = p.speed
      /\ q.loopRow = p.loopRow /\ q.delay = p.delay /\ q.nextOrder = p.nextOrder /\ q.nextRow = p.nextRow
  BY <1>4, <1>5 DEF Fields
<1> QED
  BY <1>1, <1>2, <1>3, <1>4, <1>6, <1>7, <1>8 DEF PlayState, SamePlace

\* What stands in the same place is in the song.
LEMMA SamePlaceInSong ==
    ASSUME NEW project, NEW p, NEW q, InSong(p, project), SamePlace(p, q)
    PROVE  InSong(q, project)
BY DEF InSong, SamePlace

\* A whole tick keeps the position in the song; the speed is kept or set to 1..31.
LEMMA AdvanceTickKeeps ==
    ASSUME NEW project, Typed(project), Playable(project), NEW p, PlayState(p, project.channels), InSong(p, project)
    PROVE  /\ PlayState(AdvanceTick(p, project), project.channels) /\ InSong(AdvanceTick(p, project), project)
           /\ AdvanceTick(p, project).speed \in 1..31 \cup {p.speed}
<1>1. project.channels \in Nat
  BY DEF Typed
<1>2. PICK q : q = ClearOutputs(p)
  OBVIOUS
<1>3. PlayState(q, project.channels) /\ InSong(q, project) /\ q.speed \in 1..31 \cup {p.speed}
  BY <1>1, <1>2, ClearKeeps, SamePlaceInSong DEF SamePlace
<1>4. Standing(q, project)
  BY <1>3, InSongStands
<1>5. PICK r : r = IF q.tick = 0 /\ q.delay = 0 THEN FireRow(q, project) ELSE MidRow(q, project)
  OBVIOUS
<1>6. PlayState(r, project.channels) /\ SamePlace(q, r)
  BY <1>3, <1>4, <1>5, FireRowKeeps, MidRowKeeps
<1>7. InSong(r, project) /\ r.speed \in 1..31 \cup {p.speed}
  BY <1>3, <1>6, SamePlaceInSong DEF SamePlace
<1>8. Standing(r, project)
  BY <1>6, <1>7, InSongStands
<1>9. PICK s : s = Scan(r, project)
  OBVIOUS
<1>10. PlayState(s, project.channels) /\ InSong(s, project) /\ s.speed \in 1..31 \cup {p.speed}
  BY <1>6, <1>7, <1>8, <1>9, ScanKeeps, SamePlaceInSong DEF SamePlace
<1>11. AdvanceTick(p, project) = IF HasPattern(project, q.pat) THEN NextTick(s, project) ELSE q
  BY <1>2, <1>5, <1>9, Zenon DEF AdvanceTick
<1> QED
  BY <1>3, <1>10, <1>11, NextTickKeeps

\* A new play state is at the first row of the first order, at the song's own speed.
LEMMA CreateTyped ==
    ASSUME NEW project, project.channels \in Nat, project.speed \in Nat, project.orders \in Seq(Nat)
    PROVE  /\ PlayState(CreatePlayState(project), project.channels)
           /\ CreatePlayState(project).speed = project.speed
           /\ CreatePlayState(project).row = 0 /\ CreatePlayState(project).loopRow = 0
<1>1. QuietChannel \in ChannelStates
  BY DEF QuietChannel, ChannelStates, MaxNote, Effects
<1>2. [ch \in 1..project.channels |-> QuietChannel] \in [1..project.channels -> ChannelStates]
  BY <1>1
<1>3. (IF project.orders = <<>> THEN 0 ELSE Head(project.orders)) \in Nat
  OBVIOUS
<1>4. <<>> \in Seq(Triggers)
  OBVIOUS
<1>5. PICK pat \in Nat : pat = IF project.orders = <<>> THEN 0 ELSE Head(project.orders)
  BY <1>3
<1>6. PICK chan \in [1..project.channels -> ChannelStates] : chan = [ch \in 1..project.channels |-> QuietChannel]
  BY <1>2
<1>7. CreatePlayState(project) =
          [order |-> 0, pat |-> pat, row |-> 0, tick |-> 0, speed |-> project.speed, fired |-> FALSE, chan |-> chan,
           patEnded |-> FALSE, songEnded |-> FALSE, loopRow |-> 0, loopCount |-> 0, loopActive |-> FALSE, flush |-> FALSE,
           delay |-> 0, nextOrder |-> 0, nextRow |-> 0, hasJump |-> FALSE, back |-> FALSE, seq |-> <<>>]
  BY <1>5, <1>6, Zenon DEF CreatePlayState
<1> QED
  BY <1>4, <1>7 DEF PlayState, Fields

\* The speeds there can be: what an effect sets, what a song brings, and the default.
SongSpeeds == 1..31 \cup {s.project.speed : s \in Songs} \cup {6}

\* The inductive invariant of the transport: while it rolls a song is loaded, the play
\* state has its channels and is in it. A stopped transport may keep the play state of
\* another song.
PlayInv ==
    /\ song \in Songs \cup {NoSong} /\ rolling \in BOOLEAN
    /\ \E n \in Nat : PlayState(play, n)
    /\ play.speed \in SongSpeeds
    /\ rolling => /\ Loaded
                  /\ PlayState(play, Project.channels) /\ InSong(play, Project)

\* A loaded song is typed and playable, on channels the engine has.
LEMMA SongFacts ==
    ASSUME song \in Songs \cup {NoSong}, Loaded
    PROVE  song \in Songs /\ Typed(Project) /\ Playable(Project) /\ Project.channels <= Channels
BY PlaybackAssumption DEF Loaded, Project

\* Nothing rolls at the start.
LEMMA PlayInvInit == PlaybackInit => PlayInv
<1> SUFFICES ASSUME PlaybackInit PROVE PlayInv
  OBVIOUS
<1>1. PICK project : project = [orders |-> <<>>, speed |-> 6, channels |-> Channels]
  OBVIOUS
<1>2. project.channels = Channels /\ Channels \in Nat /\ project.speed = 6 /\ project.orders \in Seq(Nat)
  BY <1>1, PlaybackAssumption
<1>3. play = CreatePlayState(project)
  BY <1>1, Zenon DEF PlaybackInit
<1>4. PlayState(play, Channels) /\ play.speed = 6
  BY <1>2, <1>3, CreateTyped
<1>5. song = NoSong /\ rolling = FALSE
  BY DEF PlaybackInit
<1> QED
  BY <1>2, <1>4, <1>5 DEF PlayInv, SongSpeeds

\* A step that leaves the play state alone keeps the invariant if it starts no
\* transport and, while it rolls, swaps no song.
LEMMA PlayInvStays ==
    ASSUME PlayInv, song' \in Songs \cup {NoSong}, play' = play, rolling' \in BOOLEAN,
           rolling' => rolling /\ song' = song
    PROVE  PlayInv'
<1>1. rolling' => Loaded' /\ Project' = Project
  BY DEF PlayInv, Loaded, Project
<1> QED
  BY <1>1 DEF PlayInv, SongSpeeds

\* Play starts a new play state, or one at the order asked for, clamped into the song.
LEMMA TransportPlayKeeps == ASSUME PlayInv, TransportPlay PROVE PlayInv'
<1>1. song \in Songs /\ Typed(Project) /\ Playable(Project) /\ song' = song /\ Loaded
  BY SongFacts DEF PlayInv, TransportPlay
<1>2. PICK start \in 0..MaxOrders :
          play' = [CreatePlayState(Project) EXCEPT !.order = Least(start, Len(Project.orders) - 1),
                                                   !.pat = OrderAt(Project, Least(start, Len(Project.orders) - 1))]
  BY Zenon DEF TransportPlay
<1>3. PICK pos : pos = Least(start, Len(Project.orders) - 1)
  OBVIOUS
<1>4. pos \in Nat /\ pos < Len(Project.orders)
  <2>1. Len(Project.orders) \in Nat /\ Len(Project.orders) > 0
    BY <1>1 DEF Typed, Playable
  <2> QED
    BY <1>3, <2>1, PlaybackAssumption DEF Least
<1>5. PICK q : q = CreatePlayState(Project)
  OBVIOUS
<1>6. Project.channels \in Nat /\ Project.speed \in Nat /\ Project.orders \in Seq(Nat)
  BY <1>1 DEF Typed
<1>7. PlayState(q, Project.channels) /\ q.speed = Project.speed /\ q.row = 0 /\ q.loopRow = 0
  BY <1>5, <1>6, CreateTyped
<1>8. /\ OrderAt(Project, pos) \in Nat /\ 0 < Len(PatternById(Project, OrderAt(Project, pos)))
  BY <1>1, <1>4, OrderFacts
<1>9. play' = [q EXCEPT !.order = pos, !.pat = OrderAt(Project, pos)]
  BY <1>2, <1>3, <1>5
<1>10. PICK r : r = [q EXCEPT !.order = pos, !.pat = OrderAt(Project, pos)]
  OBVIOUS
<1>11. /\ PlayState(r, Project.channels) /\ r.order = pos /\ r.pat = OrderAt(Project, pos)
       /\ r.row = 0 /\ r.loopRow = 0 /\ r.speed = Project.speed
  BY <1>4, <1>7, <1>8, <1>10 DEF PlayState, Fields
<1>12. InSong(r, Project)
  BY <1>4, <1>8, <1>11 DEF InSong
<1>13. Project' = Project /\ Loaded' /\ r.speed \in SongSpeeds /\ rolling' = TRUE
  BY <1>1, <1>11 DEF Project, Loaded, SongSpeeds, TransportPlay
<1> QED
  BY <1>1, <1>6, <1>9, <1>10, <1>11, <1>12, <1>13 DEF PlayInv, SongSpeeds

\* A tempo command changes the speed only.
LEMMA SetTempoKeeps == ASSUME PlayInv, SetTempo PROVE PlayInv'
<1>1. PICK v \in Speeds : play' = [play EXCEPT !.speed = v]
  BY DEF SetTempo
<1>2. song' = song /\ rolling' = rolling /\ Loaded' = Loaded /\ Project' = Project
  BY DEF SetTempo, Loaded, Project
<1>3. v \in 1..31 /\ v \in Nat
  BY PlaybackAssumption
<1>4. PICK q : q = play'
  OBVIOUS
<1>5. /\ \A n \in Nat : PlayState(play, n) => PlayState(q, n)
      /\ \A n : PlayState(play, n) => PlayState(q, n)
  BY <1>1, <1>3, <1>4 DEF PlayState, Fields
<1>6. /\ q.speed = v /\ q.order = play.order /\ q.pat = play.pat /\ q.row = play.row /\ q.loopRow = play.loopRow
  <2>1. PICK n \in Nat : PlayState(play, n)
    BY DEF PlayInv
  <2> QED
    BY <1>1, <1>4, <2>1 DEF PlayState, Fields
<1>7. InSong(play, Project) => InSong(q, Project)
  BY <1>6 DEF InSong
<1> QED
  BY <1>2, <1>3, <1>4, <1>5, <1>6, <1>7 DEF PlayInv, SongSpeeds

\* A tick of the transport: the next play state, parked or not, and what is heard of it.
TickSets(p, parks, h) ==
    /\ play' = IF parks THEN [p EXCEPT !.songEnded = TRUE] ELSE p
    /\ rolling' = ~parks
    /\ voice' = h.voice /\ pool' = h.pool /\ midiNote' = h.midiNote /\ lane' = h.lane
    /\ plugNote' = h.plugNote /\ plugSlot' = h.plugSlot /\ sounding' = h.sounding
    /\ forgotten' = [ch \in Channel |-> forgotten[ch] \cap h.lane[ch]]
TickTo(p, parks, h) ==
    /\ p = AdvanceTick(play, Project) /\ parks \in BOOLEAN /\ h = IF parks THEN Heard ELSE TickOutputs(p)
    /\ TickSets(p, parks, h)

\* A tick of the transport has the form of TickTo.
LEMMA TickIs == ASSUME Tick PROVE \E p, parks, h : TickTo(p, parks, h)
<1>1. PICK p \in {AdvanceTick(play, Project)} :
      \E parks \in {bound > 0 /\ (p.songEnded \/ p.order >= bound)} :
      \E h \in {IF parks THEN Heard ELSE TickOutputs(p)} : TickSets(p, parks, h)
  BY Zenon DEF Tick, TickSets
<1>2. PICK parks \in {bound > 0 /\ (p.songEnded \/ p.order >= bound)} :
      \E h \in {IF parks THEN Heard ELSE TickOutputs(p)} : TickSets(p, parks, h)
  BY <1>1
<1>3. parks \in BOOLEAN
  BY <1>2
<1>4. PICK h \in {IF parks THEN Heard ELSE TickOutputs(p)} : TickSets(p, parks, h)
  BY <1>2
<1>5. p = AdvanceTick(play, Project) /\ h = IF parks THEN Heard ELSE TickOutputs(p)
  OBVIOUS
<1> QED
  BY <1>3, <1>4, <1>5, Zenon DEF TickTo

\* A tick keeps the transport's invariant.
LEMMA TickKeeps == ASSUME PlayInv, Tick PROVE PlayInv'
<1>1. PICK p, parks, h : TickTo(p, parks, h)
  BY TickIs
<1>2. rolling /\ Loaded /\ PlayState(play, Project.channels) /\ InSong(play, Project) /\ song' = song
  BY DEF PlayInv, Tick
<1>3. song \in Songs /\ Typed(Project) /\ Playable(Project) /\ Project.channels \in Nat
  BY <1>2, SongFacts DEF PlayInv, Typed
<1>4. PlayState(p, Project.channels) /\ InSong(p, Project) /\ p.speed \in SongSpeeds
  <2>1. p = AdvanceTick(play, Project)
    BY <1>1 DEF TickTo
  <2>2. play.speed \in SongSpeeds
    BY DEF PlayInv
  <2>3. AdvanceTick(play, Project).speed \in 1..31 \cup {play.speed}
    BY <1>2, <1>3, AdvanceTickKeeps
  <2>4. AdvanceTick(play, Project).speed \in SongSpeeds
    BY <2>2, <2>3 DEF SongSpeeds
  <2> QED
    BY <1>2, <1>3, <2>1, <2>4, AdvanceTickKeeps
<1>5. PICK q : q = [p EXCEPT !.songEnded = TRUE]
  OBVIOUS
<1>6. PlayState(q, Project.channels) /\ q.speed \in SongSpeeds
  BY <1>4, <1>5 DEF PlayState, Fields
<1>7. parks \in BOOLEAN /\ play' = (IF parks THEN q ELSE p) /\ rolling' = ~parks
  BY <1>1, <1>5 DEF TickTo, TickSets
<1>8. Project' = Project /\ Loaded' = Loaded
  BY <1>2 DEF Project, Loaded
<1> QED
  BY <1>2, <1>3, <1>4, <1>6, <1>7, <1>8 DEF PlayInv, SongSpeeds

\* Every command and every tick keeps the transport's invariant.
LEMMA PlayInvNext == ASSUME PlayInv, [PlaybackNext]_playbackVars PROVE PlayInv'
<1>1. CASE SetBundle
  BY <1>1, PlayInvStays DEF SetBundle, PlayInv
<1>2. CASE TransportPlay
  BY <1>2, TransportPlayKeeps
<1>3. CASE SetTempo
  BY <1>3, SetTempoKeeps
<1>4. CASE Tick
  BY <1>4, TickKeeps
<1>5. CASE TransportStop
  BY <1>5, PlayInvStays DEF TransportStop, PlayInv
<1>6. CASE SetMask \/ PreviewNote \/ PluginNote \/ VoiceEnds \/ UNCHANGED playbackVars
  <2>1. song' = song /\ play' = play /\ rolling' = rolling
    BY <1>6 DEF SetMask, PreviewNote, PluginNote, VoiceEnds, playbackVars
  <2> QED
    BY <2>1, PlayInvStays DEF PlayInv
<1> QED
  BY <1>1, <1>2, <1>3, <1>4, <1>5, <1>6 DEF PlaybackNext

\* The transport's invariant holds.
LEMMA PlayInvHolds == PlaybackSpec => []PlayInv
BY PlayInvInit, PlayInvNext, PTL DEF PlaybackSpec

\* PositionInSong holds for every table of songs: while the transport rolls, the tick
\* that advance_tick ran last left an order, a pattern and a row that exist, whatever
\* jumps, breaks, loops, delays and commands came before, so the next tick indexes no
\* row that is not there.
THEOREM PositionInSongHolds == PlaybackSpec => []PositionInSong
<1>1. PlayInv => PositionInSong
  BY DEF PlayInv, PositionInSong, InSong
<1> QED
  BY <1>1, PlayInvHolds, PTL

----------------------------------------------------------------------------
(* The MIDI output thread.                                                 *)

\* Messages, and a queue that has each at most once.
Messages == [at : Nat, id : Nat]
OnceEach(q) == \A i, j \in DOMAIN q : q[i].id = q[j].id => i = j

\* A pass's books: what it was handed is sent, or pending, or lost, each once.
Kept(s, ids) ==
    /\ s = [pending |-> s.pending, lost |-> s.lost, wire |-> s.wire]
    /\ s.pending \in Seq(Messages) /\ s.wire \in Seq(Messages) /\ Len(s.pending) <= MaxPending
    /\ OnceEach(s.wire) /\ OnceEach(s.pending)
    /\ Ids(s.wire) \cup Ids(s.pending) \cup s.lost = ids
    /\ Ids(s.wire) \cap Ids(s.pending) = {} /\ (Ids(s.wire) \cup Ids(s.pending)) \cap s.lost = {}

\* A queue drained into the pending set, and the due messages sent, one at a time.
HoldStep(ctx, s, m) == HoldPending(s, m)
HoldHolds(ctx, done, s) == (OnceEach(done) /\ Ids(done) \cap ctx = {}) => Kept(s, ctx \cup Ids(done))
SendStep(ctx, t, n) == IF Due(t, ctx[1]) = {} THEN t ELSE SendAt(t, FirstDue(t, ctx[1]))
SendHolds(ctx, done, t) == Kept(t, ctx[2])
Holding == INSTANCE FoldLemmas WITH Step <- HoldStep, Holds <- HoldHolds
Sending == INSTANCE FoldLemmas WITH Step <- SendStep, Holds <- SendHolds

\* What an append adds to a queue's messages.
LEMMA AppendIds ==
    ASSUME NEW q \in Seq(Messages), NEW m \in Messages
    PROVE  /\ Append(q, m) \in Seq(Messages) /\ Ids(Append(q, m)) = Ids(q) \cup {m.id}
           /\ OnceEach(Append(q, m)) <=> (OnceEach(q) /\ m.id \notin Ids(q))
<1>1. PICK n \in Nat : n = Len(q)
  OBVIOUS
<1>2. PICK r : r = Append(q, m)
  OBVIOUS
<1>3. DOMAIN q = 1..n /\ DOMAIN r = 1..(n + 1) /\ r[n + 1] = m /\ \A i \in 1..n : r[i] = q[i]
  BY <1>1, <1>2
<1>4. 1..(n + 1) = 1..n \cup {n + 1} /\ n + 1 \notin 1..n
  BY <1>1
<1>5. Ids(r) = Ids(q) \cup {m.id}
  BY <1>3, <1>4 DEF Ids
<1>6. OnceEach(r) <=> (OnceEach(q) /\ m.id \notin Ids(q))
  BY <1>3, <1>4 DEF Ids, OnceEach
<1> QED
  BY <1>2, <1>5, <1>6, AppendProperties

\* Two queues of different messages, one after the other.
LEMMA ConcatIds ==
    ASSUME NEW q \in Seq(Messages), NEW r \in Seq(Messages), OnceEach(q), OnceEach(r), Ids(q) \cap Ids(r) = {}
    PROVE  q \o r \in Seq(Messages) /\ Ids(q \o r) = Ids(q) \cup Ids(r) /\ OnceEach(q \o r)
<1>1. PICK m \in Nat, n \in Nat : m = Len(q) /\ n = Len(r)
  OBVIOUS
<1>2. PICK s : s = q \o r
  OBVIOUS
<1>3. /\ DOMAIN q = 1..m /\ DOMAIN r = 1..n /\ DOMAIN s = 1..(m + n)
      /\ \A i \in 1..m : s[i] = q[i]
      /\ \A i \in 1..(m + n) : i \notin 1..m => i - m \in 1..n /\ s[i] = r[i - m]
      /\ \A i \in 1..n : i + m \in 1..(m + n) /\ s[i + m] = r[i]
      /\ \A i \in 1..m : i \in 1..(m + n)
  BY <1>1, <1>2
<1>4. Ids(s) = Ids(q) \cup Ids(r)
  <2>1. ASSUME NEW i \in 1..(m + n) PROVE s[i].id \in Ids(q) \cup Ids(r)
    <3>1. CASE i \in 1..m
      BY <1>3, <3>1 DEF Ids
    <3>2. CASE i \notin 1..m
      BY <1>3, <3>2 DEF Ids
    <3> QED
      BY <3>1, <3>2
  <2>2. ASSUME NEW i \in 1..m PROVE q[i].id \in Ids(s)
    <3>1. s[i] = q[i] /\ i \in 1..(m + n)
      BY <1>3
    <3> QED
      BY <1>3, <3>1, Zenon DEF Ids
  <2>3. ASSUME NEW i \in 1..n PROVE r[i].id \in Ids(s)
    <3>1. s[i + m] = r[i] /\ i + m \in 1..(m + n)
      BY <1>3
    <3> QED
      BY <1>3, <3>1, Zenon DEF Ids
  <2>4. Ids(s) \subseteq Ids(q) \cup Ids(r)
    BY <1>3, <2>1, ZenonT(60) DEF Ids
  <2>5. Ids(q) \subseteq Ids(s) /\ Ids(r) \subseteq Ids(s)
    BY <1>3, <2>2, <2>3, Zenon DEF Ids
  <2> QED
    BY <2>4, <2>5
<1>5. OnceEach(s)
  <2>1. ASSUME NEW i \in 1..(m + n), NEW j \in 1..(m + n), s[i].id = s[j].id PROVE i = j
    <3>1. CASE i \in 1..m /\ j \in 1..m
      <4>1. s[i] = q[i] /\ s[j] = q[j]
        BY <1>3, <3>1
      <4> QED
        BY <1>3, <2>1, <3>1, <4>1, ZenonT(60) DEF OnceEach
    <3>2. CASE i \notin 1..m /\ j \notin 1..m
      <4>1. s[i] = r[i - m] /\ s[j] = r[j - m] /\ i - m \in 1..n /\ j - m \in 1..n
        BY <1>3, <3>2
      <4>2. i - m = j - m
        BY <1>3, <2>1, <4>1, ZenonT(60) DEF OnceEach
      <4> QED
        BY <4>2
    <3>3. \A k, l \in 1..(m + n) : k \in 1..m /\ l \notin 1..m => s[k].id # s[l].id
      <4>1. ASSUME NEW k \in 1..(m + n), NEW l \in 1..(m + n), k \in 1..m, l \notin 1..m PROVE s[k].id # s[l].id
        <5>1. s[k] = q[k] /\ s[l] = r[l - m] /\ l - m \in 1..n
          BY <1>3, <4>1
        <5>2. s[k].id \in Ids(q) /\ s[l].id \in Ids(r)
          BY <1>3, <4>1, <5>1, Zenon DEF Ids
        <5> QED
          BY <5>2
      <4> QED
        BY <4>1
    <3> QED
      BY <2>1, <3>1, <3>2, <3>3
  <2> QED
    BY <1>3, <2>1 DEF OnceEach
<1> QED
  BY <1>2, <1>4, <1>5, ConcatProperties

\* A message that is held, or lost to a full pending set, is in the books.
LEMMA HoldKeeps ==
    ASSUME NEW s, NEW ids, Kept(s, ids), NEW m \in Messages, m.id \notin ids
    PROVE  Kept(HoldPending(s, m), ids \cup {m.id})
<1>1. CASE Len(s.pending) < MaxPending
  <2>1. HoldPending(s, m) = [pending |-> Append(s.pending, m), lost |-> s.lost, wire |-> s.wire]
    BY <1>1 DEF HoldPending, Kept
  <2>2. PICK q : q = Append(s.pending, m)
    OBVIOUS
  <2>3. q \in Seq(Messages) /\ Ids(q) = Ids(s.pending) \cup {m.id} /\ OnceEach(q) /\ Len(q) <= MaxPending
    <3>1. s.pending \in Seq(Messages) /\ m.id \notin Ids(s.pending) /\ OnceEach(s.pending)
      BY DEF Kept
    <3>2. Len(q) = Len(s.pending) + 1 /\ Len(s.pending) \in Nat
      BY <2>2, <3>1
    <3> QED
      BY <1>1, <2>2, <3>1, <3>2, AppendIds, MidiOutAssumption
  <2>4. m.id \notin Ids(s.wire) /\ m.id \notin s.lost
    BY DEF Kept
  <2> QED
    BY <2>1, <2>2, <2>3, <2>4 DEF Kept
<1>2. CASE ~(Len(s.pending) < MaxPending)
  <2>1. HoldPending(s, m) = [pending |-> s.pending, lost |-> s.lost \cup {m.id}, wire |-> s.wire]
    BY <1>2 DEF HoldPending, Kept
  <2> QED
    BY <2>1 DEF Kept
<1> QED
  BY <1>1, <1>2

\* The message chosen to be sent is one that is due.
LEMMA FirstDueIsDue ==
    ASSUME NEW s, s.pending \in Seq(Messages), NEW est, Due(s, est) # {}
    PROVE  FirstDue(s, est) \in Due(s, est)
<1> DEFINE D == Due(s, est)
           Times == {s.pending[i].at : i \in D}
<1>1. D \subseteq Nat /\ D \subseteq DOMAIN s.pending
  BY DEF Due
<1>2. ASSUME NEW i \in D PROVE s.pending[i].at \in Nat
  <2>1. PICK q \in Seq(Messages) : q = s.pending
    OBVIOUS
  <2>2. q[i] \in Messages
    BY <1>1, <2>1
  <2> QED
    BY <2>1, <2>2 DEF Messages
<1>3. Times \subseteq Nat /\ Times # {}
  BY <1>2
<1>4. PICK t \in Times : \A u \in Times : t <= u
  BY <1>3, Sending!LeastElement
<1>5. PICK i \in {j \in D : s.pending[j].at = t} : \A j \in {j \in D : s.pending[j].at = t} : i <= j
  <2>1. {j \in D : s.pending[j].at = t} \subseteq Nat
    BY <1>1
  <2>2. {j \in D : s.pending[j].at = t} # {}
    BY <1>4
  <2> QED
    BY <2>1, <2>2, Sending!LeastElement
<1>6. ASSUME NEW j \in D PROVE \/ s.pending[i].at < s.pending[j].at
                               \/ s.pending[i].at = s.pending[j].at /\ i <= j
  <2>1. s.pending[j].at \in Times /\ s.pending[j].at \in Nat /\ t \in Nat /\ t <= s.pending[j].at
    BY <1>2, <1>3, <1>4
  <2>2. CASE s.pending[j].at = t
    BY <1>5, <2>2
  <2>3. CASE s.pending[j].at # t
    BY <1>5, <2>1, <2>3
  <2> QED
    BY <2>2, <2>3
<1> QED
  BY <1>5, <1>6, Zenon DEF FirstDue

\* Sending a message takes it from the middle of the pending set onto the wire, once.
LEMMA SendKeeps ==
    ASSUME NEW s, NEW ids, Kept(s, ids), NEW i \in DOMAIN s.pending
    PROVE  Kept(SendAt(s, i), ids)
<1>1. PICK q \in Seq(Messages) : q = s.pending
  BY DEF Kept
<1>2. PICK n \in Nat : n = Len(q) /\ n > 0 /\ i \in 1..n
  BY <1>1
<1>3. PICK r : r = SubSeq([q EXCEPT ![i] = q[n]], 1, n - 1)
  OBVIOUS
<1>4. /\ r \in Seq(Messages) /\ Len(r) = n - 1 /\ DOMAIN r = 1..(n - 1)
      /\ \A k \in 1..(n - 1) : r[k] = IF k = i THEN q[n] ELSE q[k]
  <2>1. q[n] \in Messages
    BY <1>2
  <2>2. PICK w : w = [q EXCEPT ![i] = q[n]]
    OBVIOUS
  <2>3. w \in Seq(Messages) /\ Len(w) = n /\ \A k \in 1..n : w[k] = IF k = i THEN q[n] ELSE q[k]
    BY <2>1, <2>2, <1>2
  <2>4. n - 1 \in Nat /\ n - 1 <= n
    BY <1>2
  <2> QED
    BY <1>3, <2>2, <2>3, <2>4
<1>5. /\ \A k \in 1..(n - 1) : k \in 1..n /\ k # n
      /\ \A k \in 1..n : k # n => k \in 1..(n - 1)
      /\ n \in 1..n /\ DOMAIN q = 1..n
  BY <1>2
<1>6. OnceEach(q)
  BY <1>1 DEF Kept
<1>7. \A k \in 1..(n - 1) : r[k] = q[IF k = i THEN n ELSE k] /\ (IF k = i THEN n ELSE k) \in 1..n
  BY <1>4, <1>5
<1>13. OnceEach(r)
  <2>1. ASSUME NEW k \in 1..(n - 1), NEW l \in 1..(n - 1), r[k].id = r[l].id PROVE k = l
    <3>1. (IF k = i THEN n ELSE k) = (IF l = i THEN n ELSE l)
      BY <1>5, <1>6, <1>7, <2>1, Zenon DEF OnceEach
    <3> QED
      BY <1>5, <3>1
  <2> QED
    BY <1>4, <2>1, Zenon DEF OnceEach
<1>8. Ids(q) = Ids(r) \cup {q[i].id} /\ q[i].id \notin Ids(r)
  <2>1. ASSUME NEW k \in 1..(n - 1) PROVE r[k].id \in Ids(q) /\ r[k].id # q[i].id
    <3>1. (IF k = i THEN n ELSE k) # i
      BY <1>5
    <3>2. i \in 1..n
      BY <1>2
    <3> QED
      BY <1>5, <1>6, <1>7, <3>1, <3>2, Zenon DEF OnceEach, Ids
  <2>2. ASSUME NEW k \in 1..n, k # i PROVE q[k].id \in Ids(r)
    <3>1. CASE k = n
      <4>1. i \in 1..(n - 1) /\ r[i] = q[n]
        BY <1>2, <1>4, <1>5, <2>2, <3>1
      <4> QED
        BY <1>4, <3>1, <4>1, Zenon DEF Ids
    <3>2. CASE k # n
      <4>1. k \in 1..(n - 1) /\ r[k] = q[k]
        BY <1>4, <1>5, <2>2, <3>2
      <4> QED
        BY <1>4, <4>1, Zenon DEF Ids
    <3> QED
      BY <3>1, <3>2
  <2>3. Ids(r) \subseteq Ids(q) /\ q[i].id \notin Ids(r)
    BY <1>4, <2>1, Zenon DEF Ids
  <2>4. Ids(q) \subseteq Ids(r) \cup {q[i].id}
    BY <1>5, <2>2, Zenon DEF Ids
  <2>5. q[i].id \in Ids(q)
    BY <1>2, <1>5, Zenon DEF Ids
  <2> QED
    BY <2>3, <2>4, <2>5
<1>9. SendAt(s, i) = [pending |-> r, lost |-> s.lost, wire |-> Append(s.wire, q[i])]
  <2>1. s = [pending |-> s.pending, lost |-> s.lost, wire |-> s.wire]
    BY DEF Kept
  <2>2. SendAt(s, i) = [s EXCEPT !.wire = Append(s.wire, q[i]), !.pending = r]
    BY <1>1, <1>2, <1>3, Zenon DEF SendAt
  <2> QED
    BY <2>1, <2>2
<1>10. PICK w : w = Append(s.wire, q[i])
  OBVIOUS
<1>11. w \in Seq(Messages) /\ Ids(w) = Ids(s.wire) \cup {q[i].id} /\ OnceEach(w)
  <2>1. q[i] \in Messages /\ q[i].id \in Ids(q)
    BY <1>2, <1>5 DEF Ids
  <2>2. s.wire \in Seq(Messages) /\ OnceEach(s.wire) /\ q[i].id \notin Ids(s.wire)
    BY <1>1, <2>1 DEF Kept
  <2> QED
    BY <1>10, <2>1, <2>2, AppendIds
<1>12. Len(r) <= MaxPending
  BY <1>1, <1>2, <1>4, MidiOutAssumption DEF Kept
<1> QED
  BY <1>1, <1>4, <1>13, <1>8, <1>9, <1>10, <1>11, <1>12 DEF Kept

\* Sending all that is due keeps the books.
LEMMA DispatchKeeps ==
    ASSUME NEW s, NEW ids, Kept(s, ids), NEW est
    PROVE  Kept(Dispatch(s, est), ids)
<1> DEFINE ctx == <<est, ids>>
           times == [n \in 1..Len(s.pending) |-> n]
           all == Sending!Fold(ctx, s, times)
           SendNext(t, n) == IF Due(t, est) = {} THEN t ELSE SendAt(t, FirstDue(t, est))
<1>1. ctx[1] = est /\ ctx[2] = ids
  OBVIOUS
<1>2. times \in Seq(Nat)
  BY DEF Kept
<1> HIDE DEF ctx, times
<1>3. SendHolds(ctx, <<>>, s)
  BY <1>1 DEF SendHolds
<1>4. ASSUME NEW done, NEW n, NEW t, SendHolds(ctx, done, t)
      PROVE  SendHolds(ctx, Append(done, n), SendStep(ctx, t, n))
  <2>1. Kept(t, ids) /\ t.pending \in Seq(Messages)
    BY <1>1, <1>4 DEF SendHolds, Kept
  <2>2. CASE Due(t, est) # {}
    <3>1. FirstDue(t, est) \in DOMAIN t.pending
      BY <2>1, <2>2, FirstDueIsDue DEF Due
    <3> QED
      BY <1>1, <2>1, <2>2, <3>1, SendKeeps DEF SendHolds, SendStep
  <2>3. CASE Due(t, est) = {}
    BY <1>1, <2>1, <2>3 DEF SendHolds, SendStep
  <2> QED
    BY <2>2, <2>3
<1>5. SendHolds(ctx, times, all)
  BY <1>2, <1>3, <1>4, Sending!FoldHolds
<1>6. FoldLeft(SendNext, s, times) = all
  BY <1>1, ZenonT(60) DEF Sending!Fold, SendStep, FoldLeft, MapThenFoldSet, Sending!FoldLeft, Sending!MapThenFoldSet,
     Max, Sending!Max
<1>7. Dispatch(s, est) = FoldLeft(SendNext, s, times)
  BY Zenon DEF Dispatch, times
<1> HIDE DEF all
<1>8. Dispatch(s, est) = all
  BY <1>6, <1>7, Zenon
<1> QED
  BY <1>1, <1>5, <1>8 DEF SendHolds

\* Draining a whole queue of new messages keeps the books.
LEMMA HoldAllKeeps ==
    ASSUME NEW s, NEW ids, Kept(s, ids), NEW q \in Seq(Messages), OnceEach(q), Ids(q) \cap ids = {}
    PROVE  Kept(FoldLeft(HoldPending, s, q), ids \cup Ids(q))
<1> DEFINE all == Holding!Fold(ids, s, q)
<1>1. HoldHolds(ids, <<>>, s)
  <2>1. Ids(<<>>) = {}
    BY DEF Ids
  <2> QED
    BY <2>1 DEF HoldHolds
<1>2. ASSUME NEW done \in Seq(Messages), NEW m \in Messages, NEW t, HoldHolds(ids, done, t)
      PROVE  HoldHolds(ids, Append(done, m), HoldStep(ids, t, m))
  <2>1. SUFFICES ASSUME OnceEach(Append(done, m)), Ids(Append(done, m)) \cap ids = {}
                 PROVE  Kept(HoldPending(t, m), ids \cup Ids(Append(done, m)))
    BY DEF HoldHolds, HoldStep
  <2>2. OnceEach(done) /\ m.id \notin Ids(done) /\ Ids(Append(done, m)) = Ids(done) \cup {m.id}
    BY <2>1, AppendIds
  <2>3. Ids(done) \cap ids = {} /\ m.id \notin ids \cup Ids(done)
    BY <2>1, <2>2
  <2>4. Kept(t, ids \cup Ids(done))
    BY <1>2, <2>2, <2>3 DEF HoldHolds
  <2>5. Kept(HoldPending(t, m), (ids \cup Ids(done)) \cup {m.id})
    BY <2>3, <2>4, HoldKeeps
  <2>6. (ids \cup Ids(done)) \cup {m.id} = ids \cup Ids(Append(done, m))
    BY <2>2
  <2> QED
    BY <2>5, <2>6
<1>3. HoldHolds(ids, q, all)
  BY <1>1, <1>2, Holding!FoldHolds
<1>4. FoldLeft(HoldPending, s, q) = all
  BY ZenonT(60) DEF Holding!Fold, HoldStep, FoldLeft, MapThenFoldSet, Holding!FoldLeft, Holding!MapThenFoldSet,
     Max, Holding!Max
<1> HIDE DEF all
<1> QED
  BY <1>3, <1>4 DEF HoldHolds

\* The inductive invariant of the thread: each message made is on the wire, pending, in
\* one of the two queues or dropped, in one place only and once; and the clock ticks
\* only for a slave that was started.
MidiInv ==
    /\ made \in Nat /\ frames \in Nat /\ nextTick \in Nat /\ ticks \in Nat /\ rolls \in BOOLEAN
    /\ {wire, pending, graph, direct} \subseteq Seq(Messages)
    /\ OnceEach(wire) /\ OnceEach(pending) /\ OnceEach(graph) /\ OnceEach(direct)
    /\ Ids(graph) \cap Ids(direct) = {}
    /\ (Ids(wire) \cup Ids(pending)) \cap (Ids(graph) \cup Ids(direct) \cup dropped) = {}
    /\ Ids(wire) \cap Ids(pending) = {} /\ (Ids(graph) \cup Ids(direct)) \cap dropped = {}
    /\ 1..made = Ids(wire) \cup Ids(pending) \cup Ids(graph) \cup Ids(direct) \cup dropped
    /\ Len(pending) <= MaxPending /\ Len(graph) <= RingSize /\ Len(direct) <= RingSize
    /\ slave \in {"stopped", "running"} /\ (wasPlaying => slave = "running") /\ (ticks > 0 => slave = "running")

\* No message is made at the start.
LEMMA MidiInvInit == MidiOutInit => MidiInv
<1> SUFFICES ASSUME MidiOutInit PROVE MidiInv
  OBVIOUS
<1>1. PICK empty : empty = <<>>
  OBVIOUS
<1>2. Ids(empty) = {} /\ OnceEach(empty) /\ 1..0 = {} /\ empty \in Seq(Messages) /\ Len(empty) = 0
  BY <1>1 DEF Ids, OnceEach
<1>3. wire = empty /\ pending = empty /\ graph = empty /\ direct = empty /\ dropped = {} /\ made = 0
  BY <1>1 DEF MidiOutInit
<1>4. 0 <= MaxPending /\ 0 <= RingSize
  BY MidiOutAssumption
<1>5. /\ frames = 0 /\ nextTick = 0 /\ ticks = 0 /\ rolls = FALSE /\ wasPlaying = FALSE /\ slave = "stopped"
  BY DEF MidiOutInit
<1>6. /\ made \in Nat /\ frames \in Nat /\ nextTick \in Nat /\ ticks \in Nat /\ rolls \in BOOLEAN
      /\ slave \in {"stopped", "running"} /\ (ticks > 0 => slave = "running")
  <2>1. made \in Nat /\ frames \in Nat /\ nextTick \in Nat /\ ticks \in Nat /\ ~(ticks > 0)
    BY <1>3, <1>5
  <2>2. rolls \in BOOLEAN
    BY <1>5
  <2>3. slave \in {"stopped", "running"}
    BY <1>5
  <2> QED
    BY <2>1, <2>2, <2>3
<1>9. ~wasPlaying
  BY <1>5, Zenon
<1>7. /\ {wire, pending, graph, direct} \subseteq Seq(Messages)
      /\ OnceEach(wire) /\ OnceEach(pending) /\ OnceEach(graph) /\ OnceEach(direct)
      /\ Len(pending) <= MaxPending /\ Len(graph) <= RingSize /\ Len(direct) <= RingSize
  BY <1>2, <1>3, <1>4
<1>8. Ids(wire) = {} /\ Ids(pending) = {} /\ Ids(graph) = {} /\ Ids(direct) = {} /\ dropped = {} /\ 1..made = {}
  BY <1>2, <1>3
<1> QED
  BY <1>6, <1>7, <1>8, <1>9 DEF MidiInv

\* A push queues a new message, or loses it to a full queue.
LEMMA PushKeeps ==
    ASSUME NEW q \in Seq(Messages), OnceEach(q), Len(q) <= RingSize, NEW m \in Messages, m.id \notin Ids(q)
    PROVE  /\ Push(q, m) \in Seq(Messages) /\ OnceEach(Push(q, m)) /\ Len(Push(q, m)) <= RingSize
           /\ Ids(Push(q, m)) \cup Lost(q, m) = Ids(q) \cup {m.id}
           /\ Ids(Push(q, m)) \cap Lost(q, m) = {}
<1>1. CASE Len(q) < RingSize
  <2>1. Len(Append(q, m)) = Len(q) + 1 /\ Len(q) \in Nat
    OBVIOUS
  <2> QED
    BY <1>1, <2>1, AppendIds, MidiOutAssumption DEF Push, Lost
<1>2. CASE ~(Len(q) < RingSize)
  BY <1>2 DEF Push, Lost
<1> QED
  BY <1>1, <1>2

\* The number of a new message is new.
LEMMA NewId == ASSUME MidiInv PROVE 1..(made + 1) = 1..made \cup {made + 1} /\ made + 1 \notin 1..made /\ made + 1 \in Nat
BY DEF MidiInv

\* A message that the interface sends keeps the invariant.
LEMMA DeliverKeeps == ASSUME MidiInv, Deliver PROVE MidiInv'
<1>1. PICK at \in {frames, frames + 1} :
          /\ graph' = Push(graph, [at |-> at, id |-> made + 1])
          /\ dropped' = dropped \cup Lost(graph, [at |-> at, id |-> made + 1])
  BY DEF Deliver
<1>2. PICK m : m = [at |-> at, id |-> made + 1]
  OBVIOUS
<1>3. m \in Messages /\ m.id = made + 1
  BY <1>2 DEF MidiInv, Messages
<1>4. /\ 1..(made + 1) = 1..made \cup {m.id} /\ m.id \notin 1..made /\ made + 1 \in Nat
  BY <1>3, NewId
<1>5. m.id \notin Ids(wire) \cup Ids(pending) \cup Ids(graph) \cup Ids(direct) \cup dropped
  BY <1>4 DEF MidiInv
<1>6. /\ graph' \in Seq(Messages) /\ OnceEach(graph') /\ Len(graph') <= RingSize
      /\ Ids(graph') \cup Lost(graph, m) = Ids(graph) \cup {m.id}
      /\ Ids(graph') \cap Lost(graph, m) = {} /\ dropped' = dropped \cup Lost(graph, m)
  BY <1>1, <1>2, <1>3, <1>5, PushKeeps DEF MidiInv
<1>7. UNCHANGED <<frames, rolls, direct, pending, clockOn, wasPlaying, nextTick, slave, ticks, wire>> /\ made' = made + 1
  BY DEF Deliver
<1>8. Ids(wire') = Ids(wire) /\ Ids(pending') = Ids(pending) /\ Ids(direct') = Ids(direct)
      /\ OnceEach(wire') /\ OnceEach(pending') /\ OnceEach(direct')
  BY <1>7 DEF MidiInv
<1> QED
  BY <1>4, <1>5, <1>6, <1>7, <1>8 DEF MidiInv

\* Messages that a block queues keep the invariant.
LEMMA QueueKeeps == ASSUME MidiInv, Queue PROVE MidiInv'
<1>1. /\ direct' = Push(direct, [at |-> 0, id |-> made + 1])
      /\ dropped' = dropped \cup Lost(direct, [at |-> 0, id |-> made + 1])
  BY DEF Queue
<1>2. PICK m : m = [at |-> 0, id |-> made + 1]
  OBVIOUS
<1>3. m \in Messages /\ m.id = made + 1
  BY <1>2 DEF MidiInv, Messages
<1>4. /\ 1..(made + 1) = 1..made \cup {m.id} /\ m.id \notin 1..made /\ made + 1 \in Nat
  BY <1>3, NewId
<1>5. m.id \notin Ids(wire) \cup Ids(pending) \cup Ids(graph) \cup Ids(direct) \cup dropped
  BY <1>4 DEF MidiInv
<1>6. /\ direct' \in Seq(Messages) /\ OnceEach(direct') /\ Len(direct') <= RingSize
      /\ Ids(direct') \cup Lost(direct, m) = Ids(direct) \cup {m.id}
      /\ Ids(direct') \cap Lost(direct, m) = {} /\ dropped' = dropped \cup Lost(direct, m)
  BY <1>1, <1>2, <1>3, <1>5, PushKeeps DEF MidiInv
<1>7. UNCHANGED <<frames, rolls, graph, pending, clockOn, wasPlaying, nextTick, slave, ticks, wire>> /\ made' = made + 1
  BY DEF Queue
<1>8. Ids(wire') = Ids(wire) /\ Ids(pending') = Ids(pending) /\ Ids(graph') = Ids(graph)
      /\ OnceEach(wire') /\ OnceEach(pending') /\ OnceEach(graph')
  BY <1>7 DEF MidiInv
<1> QED
  BY <1>4, <1>5, <1>6, <1>7, <1>8 DEF MidiInv

\* A pass of the clock ticks only for a slave that runs.
LEMMA ClockKeeps ==
    ASSUME MidiInv, NEW est \in Nat, ClockPass(est)
    PROVE  /\ nextTick' \in Nat /\ ticks' \in Nat /\ slave' \in {"stopped", "running"}
           /\ wasPlaying' => slave' = "running"
           /\ ticks' > 0 => slave' = "running"
<1> DEFINE starts == rolls /\ ~wasPlaying
           next == IF starts THEN est ELSE nextTick
           due == IF rolls THEN ClockDue(next, est) ELSE 0
<1>1. CASE ~clockOn
  BY <1>1 DEF ClockPass, PlayedUnclocked, MidiInv
<1>2. CASE clockOn
  <2>1. next \in Nat
    BY DEF MidiInv
  <2>2. wasPlaying' = rolls /\ nextTick' = next + due * TickPeriod /\ ticks' = due
        /\ slave' = CASE starts -> "running" [] ~rolls /\ wasPlaying -> "stopped" [] OTHER -> slave
    BY <1>2, Zenon DEF ClockPass
  <2> HIDE DEF next
  <2>3. ClockDue(next, est) \in Nat
    <3>1. TickPeriod \in Nat /\ TickPeriod > 0
      BY MidiOutAssumption
    <3>2. CASE next > est
      BY <3>2 DEF ClockDue
    <3>3. CASE ~(next > est)
      <4>1. est - next \in Nat
        BY <2>1, <3>3
      <4>2. (est - next) \div TickPeriod \in Nat
        BY <3>1, <4>1
      <4> QED
        BY <3>3, <4>2 DEF ClockDue
    <3> QED
      BY <3>2, <3>3
  <2>4. due \in Nat /\ (due > 0 => rolls)
    BY <2>3
  <2>5. due * TickPeriod \in Nat
    BY <2>4, MidiOutAssumption
  <2> HIDE DEF due
  <2>6. nextTick' \in Nat /\ ticks' \in Nat
    BY <2>1, <2>2, <2>4, <2>5
  <2> QED
    BY <2>2, <2>4, <2>6 DEF MidiInv
<1> QED
  BY <1>1, <1>2

\* A pass of the thread keeps the invariant: it drains both queues, sends what is due,
\* and clocks.
LEMMA PassKeeps == ASSUME MidiInv, Pass PROVE MidiInv'
<1>1. PICK est \in {frames, frames + 1} :
          LET none == [pending |-> pending, lost |-> {}, wire |-> wire \o direct]
              s == Dispatch(FoldLeft(HoldPending, none, graph), est)
          IN  /\ pending' = s.pending /\ wire' = s.wire /\ dropped' = dropped \cup s.lost
              /\ direct' = <<>> /\ graph' = <<>>
              /\ ClockPass(est)
              /\ UNCHANGED <<frames, rolls, clockOn, made>>
  BY Zenon DEF Pass
<1>2. PICK none : none = [pending |-> pending, lost |-> {}, wire |-> wire \o direct]
  OBVIOUS
<1>3. PICK s : s = Dispatch(FoldLeft(HoldPending, none, graph), est)
  OBVIOUS
<1>4. /\ pending' = s.pending /\ wire' = s.wire /\ dropped' = dropped \cup s.lost
      /\ direct' = <<>> /\ graph' = <<>>
      /\ ClockPass(est)
      /\ UNCHANGED <<frames, rolls, clockOn, made>>
  BY <1>1, <1>2, <1>3, Zenon
<1>5. PICK ids : ids = Ids(wire) \cup Ids(pending) \cup Ids(direct)
  OBVIOUS
<1>6. Kept(none, ids)
  <2>1. /\ wire \o direct \in Seq(Messages) /\ Ids(wire \o direct) = Ids(wire) \cup Ids(direct) /\ OnceEach(wire \o direct)
    BY ConcatIds DEF MidiInv
  <2>2. none.pending = pending /\ none.lost = {} /\ none.wire = wire \o direct
        /\ none = [pending |-> none.pending, lost |-> none.lost, wire |-> none.wire]
    BY <1>2
  <2> QED
    BY <1>5, <2>1, <2>2 DEF Kept, MidiInv
<1>7. Ids(graph) \cap ids = {}
  BY <1>5 DEF MidiInv
<1>8. Kept(s, ids \cup Ids(graph))
  <2>1. Kept(FoldLeft(HoldPending, none, graph), ids \cup Ids(graph))
    BY <1>6, <1>7, HoldAllKeeps DEF MidiInv
  <2> QED
    BY <1>3, <2>1, DispatchKeeps
<1>9. /\ nextTick' \in Nat /\ ticks' \in Nat /\ slave' \in {"stopped", "running"}
      /\ wasPlaying' => slave' = "running"
      /\ ticks' > 0 => slave' = "running"
  <2>1. est \in Nat
    BY DEF MidiInv
  <2> QED
    BY <1>4, <2>1, ClockKeeps
<1>10. /\ Ids(graph') = {} /\ Ids(direct') = {} /\ OnceEach(graph') /\ OnceEach(direct')
       /\ {graph', direct'} \subseteq Seq(Messages) /\ Len(graph') <= RingSize /\ Len(direct') <= RingSize
  BY <1>4, MidiOutAssumption DEF Ids, OnceEach
<1>11. /\ Ids(wire') \cup Ids(pending') \cup s.lost = ids \cup Ids(graph)
       /\ Ids(wire') \cap Ids(pending') = {} /\ (Ids(wire') \cup Ids(pending')) \cap s.lost = {}
       /\ OnceEach(wire') /\ OnceEach(pending') /\ {wire', pending'} \subseteq Seq(Messages)
       /\ Len(pending') <= MaxPending
  BY <1>4, <1>8 DEF Kept
<1>12. /\ (Ids(wire') \cup Ids(pending')) \cap dropped' = {}
       /\ 1..made = Ids(wire') \cup Ids(pending') \cup dropped'
  <2>1. (ids \cup Ids(graph)) \cap dropped = {} /\ 1..made = ids \cup Ids(graph) \cup dropped
    BY <1>5 DEF MidiInv
  <2> QED
    BY <1>4, <1>11, <2>1
<1> QED
  BY <1>4, <1>9, <1>10, <1>11, <1>12 DEF MidiInv

\* Every step keeps the thread's invariant.
LEMMA MidiInvNext == ASSUME MidiInv, [MidiOutNext]_midiOutVars PROVE MidiInv'
<1>1. CASE Deliver
  BY <1>1, DeliverKeeps
<1>2. CASE Queue
  BY <1>2, QueueKeeps
<1>3. CASE Pass
  BY <1>3, PassKeeps
<1>4. CASE Render \/ SetClock \/ UNCHANGED midiOutVars
  <2>1. /\ UNCHANGED <<direct, graph, pending, wasPlaying, nextTick, slave, ticks, wire, made, dropped>>
        /\ rolls' \in BOOLEAN /\ frames' \in Nat
    BY <1>4 DEF Render, SetClock, midiOutVars, MidiInv
  <2>2. /\ OnceEach(wire') /\ OnceEach(pending') /\ OnceEach(graph') /\ OnceEach(direct')
        /\ Ids(wire') = Ids(wire) /\ Ids(pending') = Ids(pending) /\ Ids(graph') = Ids(graph) /\ Ids(direct') = Ids(direct)
    BY <2>1 DEF MidiInv
  <2> QED
    BY <2>1, <2>2 DEF MidiInv
<1> QED
  BY <1>1, <1>2, <1>3, <1>4 DEF MidiOutNext

\* The thread's invariant holds.
LEMMA MidiInvHolds == MidiOutSpec => []MidiInv
BY MidiInvInit, MidiInvNext, PTL DEF MidiOutSpec

\* MessagesConserved holds for every size of the queues, of the pending set and of
\* their delays: every message that the engine or the interface made is sent once,
\* waits in one place, or was counted as dropped at a full queue; MidiOutThread::run
\* sends none twice and forgets none.
THEOREM MessagesConservedHolds == MidiOutSpec => []MessagesConserved
<1>1. MidiInv => MessagesConserved
  BY DEF MidiInv, MessagesConserved, OnceEach
<1> QED
  BY <1>1, MidiInvHolds, PTL

----------------------------------------------------------------------------
(* What is heard of the ticks.                                             *)

\* The notes that a cable can hold, the voices of layers, and what is heard.
MidiNotes == {None} \cup 12..107
Voices == [ch : Nat, layer : Nat, pitch : Nat]
HeardFields == {"voice", "midiNote", "plugNote", "plugSlot", "pool", "lane", "sounding"}

\* On each channel's list nothing sounds but the note it holds, and what it had forgotten
\* before.
LanesHold(h, past) ==
    \A ch \in Channel : h.lane[ch] \ past[ch] \subseteq {Wire(h.midiNote[ch])} \ {Wire(None)}

\* What is heard is of its type, the voices of layers fit in the pool, and the lanes hold.
HeardOK(h, past) ==
    /\ h = [f \in HeardFields |-> h[f]]
    /\ h.voice \subseteq Channel
    /\ h.midiNote \in [Channel -> MidiNotes] /\ h.plugNote \in [Channel -> Nat \cup {None}]
    /\ h.plugSlot \in [Channel -> Slots \cup {0}]
    /\ h.pool \in Seq(Voices) /\ Len(h.pool) <= PoolSize
    /\ h.lane \in [Channel -> SUBSET Nat]
    /\ LanesHold(h, past)

\* The note byte of a held note is the note; that of no note is 127, which no cell
\* plays.
LEMMA WireFacts == /\ Wire(None) = 127 /\ \A m \in 12..107 : Wire(m) = m
                   /\ \A m \in MidiNotes : Wire(m) \in Nat
<1>1. Wire(None) = 127
  <2>1. ASSUME NEW x \in Int, x + 1 = 0 PROVE x % 128 = 127
    <3>1. (x + 128) % 128 = x % 128
      OBVIOUS
    <3>2. x + 128 = 127 /\ 127 % 128 = 127
      BY <2>1
    <3> QED
      BY <3>1, <3>2
  <2>2. None \in Int /\ None + 1 = 0
    BY DEF None
  <2> QED
    BY <2>1, <2>2 DEF Wire
<1>2. ASSUME NEW m \in 12..107 PROVE Wire(m) = m /\ Wire(m) \in Nat
  <2>1. m \in Nat /\ m < 128
    OBVIOUS
  <2>2. m % 128 = m
    BY <2>1
  <2> QED
    BY <2>1, <2>2 DEF Wire
<1> QED
  BY <1>1, <1>2 DEF MidiNotes

\* The note-off of a cable ends the note held.
LEMMA LaneOffKeeps ==
    ASSUME NEW h, NEW past, HeardOK(h, past), NEW ch \in Channel
    PROVE  HeardOK(LaneOff(h, ch), past) /\ LaneOff(h, ch).midiNote[ch] = None
<1> DEFINE midi == [h.midiNote EXCEPT ![ch] = None]
           list == [h.lane EXCEPT ![ch] = h.lane[ch] \ {Wire(h.midiNote[ch])}]
<1>1. midi \in [Channel -> MidiNotes] /\ list \in [Channel -> SUBSET Nat]
  BY DEF HeardOK, MidiNotes
<1>2. LaneOff(h, ch) = [h EXCEPT !.midiNote = midi, !.lane = list]
  BY DEF LaneOff, HeardOK, HeardFields
<1>3. midi[ch] = None /\ \A k \in Channel : k # ch => midi[k] = h.midiNote[k]
  BY DEF HeardOK
<1>4. list[ch] = h.lane[ch] \ {Wire(h.midiNote[ch])} /\ \A k \in Channel : k # ch => list[k] = h.lane[k]
  BY DEF HeardOK
<1> HIDE DEF midi, list
<1>5. PICK g : g = LaneOff(h, ch)
  OBVIOUS
<1>6. g = [f \in HeardFields |-> g[f]] /\ g.midiNote = midi /\ g.lane = list /\ g.voice = h.voice /\ g.plugNote = h.plugNote
      /\ g.plugSlot = h.plugSlot /\ g.pool = h.pool
  BY <1>2, <1>5 DEF HeardOK, HeardFields
<1>7. LanesHold(g, past)
  BY <1>3, <1>4, <1>6 DEF HeardOK, LanesHold
<1> QED
  BY <1>1, <1>3, <1>5, <1>6, <1>7 DEF HeardOK

\* A note-on of a cable that holds none is the note then held.
LEMMA LaneOnKeeps ==
    ASSUME NEW h, NEW past, HeardOK(h, past), NEW ch \in Channel, h.midiNote[ch] = None,
           NEW c \in ChannelStates, c.note > 0
    PROVE  HeardOK(LaneOn(h, ch, c), past)
<1> DEFINE midi == [h.midiNote EXCEPT ![ch] = Midi(c.note)]
           list == [h.lane EXCEPT ![ch] = h.lane[ch] \cup {Wire(Midi(c.note))}]
<1>0. Midi(c.note) \in 12..107
  BY DEF ChannelStates, MaxNote, Midi
<1>8. Wire(Midi(c.note)) \in Nat /\ Wire(Midi(c.note)) # Wire(None) /\ Midi(c.note) \in MidiNotes
  BY <1>0, WireFacts DEF MidiNotes
<1>1. midi \in [Channel -> MidiNotes] /\ list \in [Channel -> SUBSET Nat]
  BY <1>8 DEF HeardOK
<1>2. LaneOn(h, ch, c) = [h EXCEPT !.midiNote = midi, !.lane = list]
  BY DEF LaneOn, HeardOK, HeardFields
<1>3. midi[ch] = Midi(c.note) /\ \A k \in Channel : k # ch => midi[k] = h.midiNote[k]
  BY DEF HeardOK
<1>4. list[ch] = h.lane[ch] \cup {Wire(Midi(c.note))} /\ \A k \in Channel : k # ch => list[k] = h.lane[k]
  BY DEF HeardOK
<1> HIDE DEF midi, list
<1>5. PICK g : g = LaneOn(h, ch, c)
  OBVIOUS
<1>6. g = [f \in HeardFields |-> g[f]] /\ g.midiNote = midi /\ g.lane = list /\ g.voice = h.voice /\ g.plugNote = h.plugNote
      /\ g.plugSlot = h.plugSlot /\ g.pool = h.pool
  BY <1>2, <1>5 DEF HeardOK, HeardFields
<1>7. LanesHold(g, past)
  <2>1. h.lane[ch] \ past[ch] = {}
    BY DEF HeardOK, LanesHold
  <2>2. g.lane[ch] \ past[ch] \subseteq {Wire(g.midiNote[ch])} \ {Wire(None)}
    BY <1>3, <1>4, <1>6, <1>8, <2>1
  <2>3. ASSUME NEW k \in Channel, k # ch PROVE g.lane[k] \ past[k] \subseteq {Wire(g.midiNote[k])} \ {Wire(None)}
    BY <1>3, <1>4, <1>6, <2>3 DEF HeardOK, LanesHold
  <2> QED
    BY <2>2, <2>3 DEF LanesHold
<1> QED
  BY <1>1, <1>5, <1>6, <1>7 DEF HeardOK

\* The events of a channel on its cable: off before on.
LEMMA LaneEventsKeep ==
    ASSUME NEW h, NEW past, HeardOK(h, past), NEW ch \in Channel, NEW c \in ChannelStates, NEW p
    PROVE  HeardOK(LaneEvents(h, ch, c, p), past)
<1> DEFINE released == IF c.release /\ h.midiNote[ch] # None THEN LaneOff(h, ch) ELSE h
           free == IF released.midiNote[ch] # None THEN LaneOff(released, ch) ELSE released
           started == IF c.trigger /\ c.note > 0 THEN LaneOn(free, ch, c) ELSE released
           cuts == c.rowFx = "cut" /\ p.tick = c.rowArg /\ p.tick > 0
<1>1. HeardOK(released, past)
  BY LaneOffKeeps
<1> HIDE DEF released
<1>2. HeardOK(free, past) /\ free.midiNote[ch] = None
  BY <1>1, LaneOffKeeps
<1> HIDE DEF free
<1>3. HeardOK(started, past)
  BY <1>1, <1>2, LaneOnKeeps
<1>4. LaneEvents(h, ch, c, p) = IF cuts /\ started.midiNote[ch] # None THEN LaneOff(started, ch) ELSE started
  BY Zenon DEF LaneEvents, started, free, released, cuts
<1> HIDE DEF started, cuts
<1> QED
  BY <1>3, <1>4, LaneOffKeeps

\* The plugin note of a channel is not on a cable: ending it keeps what is heard.
LEMMA PluginReleaseKeeps ==
    ASSUME NEW h, NEW past, HeardOK(h, past), NEW ch \in Channel
    PROVE  HeardOK(PluginRelease(h, ch), past)
<1>1. ASSUME NEW v, NEW g, g = [h EXCEPT !.plugNote[ch] = None, !.sounding = v] PROVE HeardOK(g, past)
  <2>1. [h.plugNote EXCEPT ![ch] = None] \in [Channel -> Nat \cup {None}]
    BY DEF HeardOK
  <2>2. g = [f \in HeardFields |-> g[f]] /\ g.midiNote = h.midiNote /\ g.lane = h.lane /\ g.voice = h.voice
        /\ g.plugNote = [h.plugNote EXCEPT ![ch] = None] /\ g.plugSlot = h.plugSlot /\ g.pool = h.pool
    BY <1>1 DEF HeardOK, HeardFields
  <2> QED
    BY <2>1, <2>2 DEF HeardOK, LanesHold
<1> QED
  BY <1>1 DEF PluginRelease

\* Starting one does so too.
LEMMA PluginTriggerKeeps ==
    ASSUME NEW h, NEW past, HeardOK(h, past), NEW ch \in Channel, NEW c \in ChannelStates, c.ins \in Slots
    PROVE  HeardOK(PluginTrigger(h, ch, c), past)
<1>1. Midi(c.note) \in Nat
  BY DEF Midi, ChannelStates, MaxNote
<1>2. PICK g : g = PluginTrigger(h, ch, c)
  OBVIOUS
<1>3. /\ [h.plugNote EXCEPT ![ch] = Midi(c.note)] \in [Channel -> Nat \cup {None}]
      /\ [h.plugSlot EXCEPT ![ch] = c.ins] \in [Channel -> Slots \cup {0}]
  BY <1>1 DEF HeardOK
<1>4. g = [f \in HeardFields |-> g[f]] /\ g.midiNote = h.midiNote /\ g.lane = h.lane /\ g.voice = h.voice
      /\ g.plugNote = [h.plugNote EXCEPT ![ch] = Midi(c.note)] /\ g.plugSlot = [h.plugSlot EXCEPT ![ch] = c.ins]
      /\ g.pool = h.pool
  BY <1>2 DEF PluginTrigger, HeardOK, HeardFields
<1> QED
  BY <1>2, <1>3, <1>4 DEF HeardOK, LanesHold

\* Channel voices are not on a cable.
LEMMA VoiceKeeps ==
    ASSUME NEW h, NEW past, HeardOK(h, past), NEW v \in SUBSET Channel
    PROVE  HeardOK([h EXCEPT !.voice = v], past)
<1>1. PICK g : g = [h EXCEPT !.voice = v]
  OBVIOUS
<1>2. g = [f \in HeardFields |-> g[f]] /\ g.midiNote = h.midiNote /\ g.lane = h.lane /\ g.voice = v
      /\ g.plugNote = h.plugNote /\ g.plugSlot = h.plugSlot /\ g.pool = h.pool
  BY <1>1 DEF HeardOK, HeardFields
<1> QED
  BY <1>1, <1>2 DEF HeardOK, LanesHold

\* The output of one channel keeps what is heard.
LEMMA ChannelOutputKeeps ==
    ASSUME song \in Songs, NEW h, NEW past, HeardOK(h, past), NEW ch \in Channel, NEW p, p.chan[ch] \in ChannelStates
    PROVE  HeardOK(ChannelOutput(h, ch, p), past)
<1> DEFINE c == p.chan[ch]
           events == LaneEvents(h, ch, c, p)
           released == IF c.release THEN PluginRelease([events EXCEPT !.voice = events.voice \ {ch}], ch) ELSE events
<1>1. song.plugins \subseteq Slots
  BY DEF Slots
<1>2. HeardOK(events, past)
  BY LaneEventsKeep
<1> HIDE DEF events
<1>3. HeardOK(released, past)
  <2>1. events.voice \ {ch} \in SUBSET Channel
    BY <1>2 DEF HeardOK
  <2> QED
    BY <1>2, <2>1, VoiceKeeps, PluginReleaseKeeps
<1> HIDE DEF released
<1>4. HeardOK([released EXCEPT !.voice = released.voice \cup {ch}], past)
  <2>1. released.voice \cup {ch} \in SUBSET Channel
    BY <1>3 DEF HeardOK
  <2> QED
    BY <1>3, <2>1, VoiceKeeps
<1>5. c.ins \in song.plugins => HeardOK(PluginTrigger(released, ch, c), past)
  BY <1>1, <1>3, PluginTriggerKeeps
<1>6. ChannelOutput(h, ch, p) =
          CASE ch \notin mask -> h
            [] ch \in mask /\ c.trigger /\ c.type = "plugin" /\ c.ins \in song.plugins -> PluginTrigger(released, ch, c)
            [] ch \in mask /\ c.trigger /\ c.type = "sample" /\ c.ins \in song.samples ->
                  [released EXCEPT !.voice = released.voice \cup {ch}]
            [] OTHER -> released
  BY Zenon DEF ChannelOutput, released, events
<1> HIDE DEF c
<1> QED
  BY <1>3, <1>4, <1>5, <1>6

\* The voices a note-off leaves in the pool.
KeepStep(ctx, kept, v) == IF <<v.ch, v.layer, v.pitch>> = <<ctx.ch, ctx.layer, ctx.pitch>> THEN kept ELSE Append(kept, v)
KeepHolds(ctx, done, kept) == kept \in Seq(Voices) /\ Len(kept) <= Len(done)
Keeping == INSTANCE FoldLemmas WITH Step <- KeepStep, Holds <- KeepHolds

\* A note-off of a layer leaves no more voices than there were.
LEMMA EndVoicesKeeps ==
    ASSUME NEW voices \in Seq(Voices), NEW t
    PROVE  EndVoices(voices, t) \in Seq(Voices) /\ Len(EndVoices(voices, t)) <= Len(voices)
<1> DEFINE all == Keeping!Fold(t, <<>>, voices)
           Keep(kept, v) == IF <<v.ch, v.layer, v.pitch>> = <<t.ch, t.layer, t.pitch>> THEN kept ELSE Append(kept, v)
<1>1. KeepHolds(t, <<>>, <<>>)
  BY DEF KeepHolds
<1>2. ASSUME NEW done \in Seq(Voices), NEW v \in Voices, NEW kept, KeepHolds(t, done, kept)
      PROVE  KeepHolds(t, Append(done, v), KeepStep(t, kept, v))
  BY <1>2 DEF KeepHolds, KeepStep
<1>3. KeepHolds(t, voices, all)
  BY <1>1, <1>2, Keeping!FoldHolds
<1>4. FoldLeft(Keep, <<>>, voices) = all
  BY ZenonT(60) DEF Keeping!Fold, KeepStep, FoldLeft, MapThenFoldSet, Keeping!FoldLeft, Keeping!MapThenFoldSet,
     Max, Keeping!Max
<1>5. EndVoices(voices, t) = FoldLeft(Keep, <<>>, voices)
  BY Zenon DEF EndVoices
<1> HIDE DEF all
<1>6. EndVoices(voices, t) = all
  BY <1>4, <1>5, Zenon
<1> QED
  BY <1>3, <1>6 DEF KeepHolds

\* A note-on of a layer stays within the pool.
LEMMA StartVoiceKeeps ==
    ASSUME NEW voices \in Seq(Voices), Len(voices) <= PoolSize, NEW t \in Triggers
    PROVE  StartVoice(voices, t) \in Seq(Voices) /\ Len(StartVoice(voices, t)) <= PoolSize
<1>1. PICK v : v = [ch |-> t.ch, layer |-> t.layer, pitch |-> t.pitch]
  OBVIOUS
<1>2. v \in Voices
  BY <1>1 DEF Voices, Triggers
<1>3. PoolSize \in Nat /\ PoolSize > 0
  BY PlaybackAssumption
<1>4. PICK rest : rest = IF Len(voices) = PoolSize THEN Tail(voices) ELSE voices
  OBVIOUS
<1>5. rest \in Seq(Voices) /\ Len(rest) + 1 <= PoolSize
  BY <1>3, <1>4
<1>6. StartVoice(voices, t) = Append(rest, v)
  BY <1>1, <1>4 DEF StartVoice
<1> QED
  BY <1>2, <1>5, <1>6

\* A trigger of a layer keeps what is heard.
LEMMA SeqTriggerKeeps ==
    ASSUME NEW h, NEW past, HeardOK(h, past), NEW t \in Triggers
    PROVE  HeardOK(SeqTrigger(h, t), past)
<1>1. ASSUME NEW v PROVE HeardOK([h EXCEPT !.sounding[t.slot] = v], past)
  <2>1. PICK g : g = [h EXCEPT !.sounding[t.slot] = v]
    OBVIOUS
  <2>2. g = [f \in HeardFields |-> g[f]] /\ g.midiNote = h.midiNote /\ g.lane = h.lane /\ g.voice = h.voice
        /\ g.plugNote = h.plugNote /\ g.plugSlot = h.plugSlot /\ g.pool = h.pool
    BY <2>1 DEF HeardOK, HeardFields
  <2> QED
    BY <2>1, <2>2 DEF HeardOK, LanesHold
<1>2. ASSUME NEW v \in Seq(Voices), Len(v) <= PoolSize PROVE HeardOK([h EXCEPT !.pool = v], past)
  <2>1. PICK g : g = [h EXCEPT !.pool = v]
    OBVIOUS
  <2>2. g = [f \in HeardFields |-> g[f]] /\ g.midiNote = h.midiNote /\ g.lane = h.lane /\ g.voice = h.voice
        /\ g.plugNote = h.plugNote /\ g.plugSlot = h.plugSlot /\ g.pool = v
    BY <2>1 DEF HeardOK, HeardFields
  <2> QED
    BY <1>2, <2>1, <2>2 DEF HeardOK, LanesHold
<1>3. HeardOK([h EXCEPT !.pool = EndVoices(h.pool, t)], past)
  <2>1. EndVoices(h.pool, t) \in Seq(Voices) /\ Len(EndVoices(h.pool, t)) <= Len(h.pool)
    BY EndVoicesKeeps DEF HeardOK
  <2>2. Len(EndVoices(h.pool, t)) <= PoolSize
    BY <2>1, PlaybackAssumption DEF HeardOK
  <2> QED
    BY <1>2, <2>1, <2>2
<1>4. HeardOK([h EXCEPT !.pool = StartVoice(h.pool, t)], past)
  BY <1>2, StartVoiceKeeps DEF HeardOK
<1> QED
  BY <1>1, <1>3, <1>4 DEF SeqTrigger

\* All triggers of a tick, and the outputs of all channels.
SeqStep(ctx, h, t) == SeqTrigger(h, t)
OutStep(ctx, h, ch) == ChannelOutput(h, ch, ctx[1])
SeqHolds(ctx, done, h) == HeardOK(h, ctx[2])
Triggering == INSTANCE FoldLemmas WITH Step <- SeqStep, Holds <- SeqHolds
Outputs == INSTANCE FoldLemmas WITH Step <- OutStep, Holds <- SeqHolds

\* The outputs of a whole tick keep what is heard.
LEMMA TickOutputsKeep ==
    ASSUME song \in Songs, Project.channels \in Nat, Project.channels <= Channels,
           NEW p, PlayState(p, Project.channels), HeardOK(Heard, forgotten)
    PROVE  HeardOK(TickOutputs(p), forgotten)
<1> DEFINE ctx == <<p, forgotten>>
           layered == Triggering!Fold(ctx, Heard, p.seq)
           channels == [ch \in 1..Project.channels |-> ch]
           all == Outputs!Fold(ctx, layered, channels)
           Output(h, ch) == ChannelOutput(h, ch, p)
<1>1. ctx[1] = p /\ ctx[2] = forgotten
  OBVIOUS
<1>2. channels \in Seq(1..Project.channels)
  OBVIOUS
<1> HIDE DEF ctx, channels
<1>3. SeqHolds(ctx, p.seq, layered)
  <2>1. SeqHolds(ctx, <<>>, Heard)
    BY <1>1 DEF SeqHolds
  <2>2. ASSUME NEW done, NEW t \in Triggers, NEW h, SeqHolds(ctx, done, h)
        PROVE  SeqHolds(ctx, Append(done, t), SeqStep(ctx, h, t))
    BY <1>1, <2>2, SeqTriggerKeeps DEF SeqHolds, SeqStep
  <2>3. p.seq \in Seq(Triggers)
    BY DEF PlayState
  <2> QED
    BY <2>1, <2>2, <2>3, Triggering!FoldHolds
<1>4. FoldLeft(SeqTrigger, Heard, p.seq) = layered
  BY ZenonT(60) DEF Triggering!Fold, SeqStep, FoldLeft, MapThenFoldSet, Triggering!FoldLeft, Triggering!MapThenFoldSet,
     Max, Triggering!Max
<1> HIDE DEF layered
<1>5. SeqHolds(ctx, channels, all)
  <2>1. SeqHolds(ctx, <<>>, layered)
    BY <1>3 DEF SeqHolds
  <2>2. ASSUME NEW done, NEW ch \in 1..Project.channels, NEW h, SeqHolds(ctx, done, h)
        PROVE  SeqHolds(ctx, Append(done, ch), OutStep(ctx, h, ch))
    <3>1. ch \in Channel
      BY PlaybackAssumption DEF Channel
    <3>2. p.chan[ch] \in ChannelStates
      BY DEF PlayState
    <3> QED
      BY <1>1, <2>2, <3>1, <3>2, ChannelOutputKeeps DEF SeqHolds, OutStep
  <2> QED
    BY <1>2, <2>1, <2>2, Outputs!FoldHolds
<1>6. FoldLeft(Output, layered, channels) = all
  BY <1>1, ZenonT(60) DEF Outputs!Fold, OutStep, FoldLeft, MapThenFoldSet, Outputs!FoldLeft, Outputs!MapThenFoldSet,
     Max, Outputs!Max
<1>7. TickOutputs(p) = FoldLeft(Output, FoldLeft(SeqTrigger, Heard, p.seq), channels)
  BY Zenon DEF TickOutputs, channels
<1> HIDE DEF all
<1>8. TickOutputs(p) = all
  BY <1>4, <1>6, <1>7, Zenon
<1> QED
  BY <1>1, <1>5, <1>8 DEF SeqHolds

\* The inductive invariant of what is heard.
HeardInv == bound \in 0..MaxOrders /\ mask \subseteq Channel /\ HeardOK(Heard, forgotten)

\* The same, read off the variables.
LEMMA HeardFacts ==
    ASSUME NEW past
    PROVE  HeardOK(Heard, past) <=>
               /\ voice \subseteq Channel
               /\ midiNote \in [Channel -> MidiNotes] /\ plugNote \in [Channel -> Nat \cup {None}]
               /\ plugSlot \in [Channel -> Slots \cup {0}]
               /\ pool \in Seq(Voices) /\ Len(pool) <= PoolSize
               /\ lane \in [Channel -> SUBSET Nat]
               /\ \A ch \in Channel : lane[ch] \ past[ch] \subseteq {Wire(midiNote[ch])} \ {Wire(None)}
<1>1. PICK h : h = Heard
  OBVIOUS
<1>2. /\ h = [f \in HeardFields |-> h[f]] /\ h.voice = voice /\ h.midiNote = midiNote /\ h.plugNote = plugNote
      /\ h.plugSlot = plugSlot /\ h.pool = pool /\ h.lane = lane
  BY <1>1 DEF Heard, HeardFields
<1> QED
  BY <1>1, <1>2 DEF HeardOK, LanesHold

\* Nothing is heard at the start.
LEMMA HeardInvInit == PlaybackInit => HeardInv
<1> SUFFICES ASSUME PlaybackInit PROVE HeardInv
  OBVIOUS
<1>1. /\ voice = {} /\ pool = <<>> /\ bound = 0 /\ mask = Channel
      /\ midiNote = [ch \in Channel |-> None] /\ plugNote = [ch \in Channel |-> None]
      /\ plugSlot = [ch \in Channel |-> 0] /\ lane = [ch \in Channel |-> {}] /\ forgotten = [ch \in Channel |-> {}]
  BY DEF PlaybackInit
<1>2. /\ midiNote \in [Channel -> MidiNotes] /\ plugNote \in [Channel -> Nat \cup {None}]
      /\ plugSlot \in [Channel -> Slots \cup {0}] /\ lane \in [Channel -> SUBSET Nat]
      /\ \A ch \in Channel : lane[ch] = {}
  BY <1>1 DEF MidiNotes
<1>3. pool \in Seq(Voices) /\ Len(pool) <= PoolSize /\ bound \in 0..MaxOrders
  BY <1>1, PlaybackAssumption
<1>4. HeardOK(Heard, forgotten)
  BY <1>1, <1>2, <1>3, HeardFacts
<1> QED
  BY <1>1, <1>3, <1>4 DEF HeardInv

\* A step that leaves the cables' and plugins' notes alone keeps what is heard.
LEMMA HeardInvStays ==
    ASSUME HeardInv, UNCHANGED <<midiNote, plugNote, plugSlot, lane, forgotten>>,
           bound' \in 0..MaxOrders, mask' \subseteq Channel, voice' \subseteq Channel,
           pool' \in Seq(Voices), Len(pool') <= PoolSize
    PROVE  HeardInv'
<1>1. HeardOK(Heard, forgotten)
  BY DEF HeardInv
<1>2. PICK g : g = Heard'
  OBVIOUS
<1>3. /\ g = [f \in HeardFields |-> g[f]] /\ g.voice = voice' /\ g.midiNote = midiNote /\ g.plugNote = plugNote
      /\ g.plugSlot = plugSlot /\ g.pool = pool' /\ g.lane = lane
  BY <1>2 DEF Heard, HeardFields
<1>4. HeardOK(g, forgotten)
  BY <1>1, <1>3, HeardFacts DEF HeardOK, LanesHold
<1> QED
  BY <1>2, <1>4 DEF HeardInv

\* What the invariant says of the variables a command touches.
LEMMA HeardInvNow ==
    ASSUME HeardInv
    PROVE  /\ bound \in 0..MaxOrders /\ mask \subseteq Channel /\ voice \subseteq Channel
           /\ pool \in Seq(Voices) /\ Len(pool) <= PoolSize
BY HeardFacts DEF HeardInv

\* A bundle swap forgets the held notes, and remembers what was forgotten.
LEMMA SetBundleKeeps == ASSUME HeardInv, SetBundle PROVE HeardInv'
<1>1. /\ bound' = 0 /\ mask' = Channel /\ voice' = {} /\ pool' = <<>> /\ forgotten' = lane
      /\ midiNote' = [ch \in Channel |-> None] /\ UNCHANGED <<plugNote, plugSlot, lane>>
  BY DEF SetBundle
<1>2. HeardOK(Heard, forgotten)
  BY DEF HeardInv
<1>3. PICK g : g = Heard'
  OBVIOUS
<1>4. /\ g = [f \in HeardFields |-> g[f]] /\ g.voice = voice' /\ g.midiNote = midiNote' /\ g.plugNote = plugNote
      /\ g.plugSlot = plugSlot /\ g.pool = pool' /\ g.lane = lane
  BY <1>1, <1>3 DEF Heard, HeardFields
<1>5. pool' \in Seq(Voices) /\ Len(pool') <= PoolSize /\ bound' \in 0..MaxOrders
  BY <1>1, PlaybackAssumption
<1>6. midiNote' \in [Channel -> MidiNotes]
  BY <1>1 DEF MidiNotes
<1>8. LanesHold(g, lane)
  <2>1. ASSUME NEW ch \in Channel PROVE g.lane[ch] \ lane[ch] = {}
    BY <1>4
  <2> QED
    BY <2>1 DEF LanesHold
<1>9. plugNote \in [Channel -> Nat \cup {None}] /\ plugSlot \in [Channel -> Slots \cup {0}] /\ lane \in [Channel -> SUBSET Nat]
  BY <1>2, HeardFacts
<1>7. HeardOK(g, lane)
  BY <1>1, <1>4, <1>5, <1>6, <1>8, <1>9 DEF HeardOK
<1> QED
  BY <1>1, <1>3, <1>5, <1>7 DEF HeardInv

\* A tick keeps what is heard.
LEMMA TickKeepsHeard == ASSUME PlayInv, HeardInv, Tick PROVE HeardInv'
<1>1. PICK p, parks, h : TickTo(p, parks, h)
  BY TickIs
<1>2. rolling /\ Loaded /\ PlayState(play, Project.channels) /\ InSong(play, Project) /\ UNCHANGED <<bound, mask>>
  BY DEF PlayInv, Tick
<1>3. song \in Songs /\ Typed(Project) /\ Playable(Project) /\ Project.channels \in Nat /\ Project.channels <= Channels
  BY <1>2, SongFacts DEF PlayInv, Typed
<1>4. PlayState(p, Project.channels)
  BY <1>1, <1>2, <1>3, AdvanceTickKeeps DEF TickTo
<1>5. HeardOK(Heard, forgotten)
  BY DEF HeardInv
<1>6. HeardOK(h, forgotten)
  BY <1>1, <1>3, <1>4, <1>5, TickOutputsKeep DEF TickTo
<1>7. PICK g : g = Heard'
  OBVIOUS
<1>8. /\ voice' = h.voice /\ pool' = h.pool /\ midiNote' = h.midiNote /\ lane' = h.lane
      /\ plugNote' = h.plugNote /\ plugSlot' = h.plugSlot
      /\ forgotten' = [ch \in Channel |-> forgotten[ch] \cap h.lane[ch]]
  BY <1>1 DEF TickTo, TickSets
<1>9. /\ g = [f \in HeardFields |-> g[f]] /\ g.voice = h.voice /\ g.midiNote = h.midiNote /\ g.plugNote = h.plugNote
      /\ g.plugSlot = h.plugSlot /\ g.pool = h.pool /\ g.lane = h.lane
  BY <1>7, <1>8 DEF Heard, HeardFields
<1>10. ASSUME NEW ch \in Channel PROVE h.lane[ch] \ forgotten'[ch] = h.lane[ch] \ forgotten[ch]
  BY <1>8
<1>11. LanesHold(g, forgotten')
  BY <1>6, <1>9, <1>10 DEF HeardOK, LanesHold
<1>12. HeardOK(g, forgotten')
  BY <1>6, <1>9, <1>11 DEF HeardOK
<1> QED
  BY <1>2, <1>7, <1>12 DEF HeardInv

\* A voice that ends leaves the pool shorter.
LEMMA RemoveVoice ==
    ASSUME NEW voices \in Seq(Voices), NEW i \in DOMAIN voices
    PROVE  RemoveAt(voices, i) \in Seq(Voices) /\ Len(RemoveAt(voices, i)) <= Len(voices)
<1>1. PICK before : before = SubSeq(voices, 1, i - 1)
  OBVIOUS
<1>2. PICK after : after = SubSeq(voices, i + 1, Len(voices))
  OBVIOUS
<1>3. i \in 1..Len(voices) /\ Len(voices) \in Nat
  OBVIOUS
<1>4. before \in Seq(Voices) /\ Len(before) = i - 1
  BY <1>1, <1>3
<1>5. after \in Seq(Voices) /\ Len(after) = Len(voices) - i
  BY <1>2, <1>3
<1>6. RemoveAt(voices, i) = before \o after
  BY <1>1, <1>2 DEF RemoveAt
<1>7. before \o after \in Seq(Voices) /\ Len(before \o after) = Len(before) + Len(after)
  BY <1>4, <1>5, ConcatProperties
<1> QED
  BY <1>3, <1>4, <1>5, <1>6, <1>7

\* Every command and every tick keeps what is heard.
LEMMA HeardInvNext == ASSUME PlayInv, HeardInv, [PlaybackNext]_playbackVars PROVE HeardInv'
<1> USE HeardInvNow
<1>1. CASE SetBundle
  BY <1>1, SetBundleKeeps
<1>2. CASE TransportPlay
  <2>1. PICK end \in 0..MaxOrders : bound' = Least(end, Len(Project.orders))
    BY <1>2 DEF TransportPlay
  <2>2. Len(Project.orders) \in Nat
    BY <1>2, SongFacts DEF PlayInv, TransportPlay, Typed
  <2>3. bound' \in 0..MaxOrders
    BY <2>1, <2>2, PlaybackAssumption DEF Least
  <2>4. UNCHANGED <<mask, voice, pool, midiNote, plugNote, plugSlot, lane, forgotten>>
    BY <1>2 DEF TransportPlay, NoteStateUnchanged
  <2> QED
    BY <2>3, <2>4, HeardInvStays
<1>3. CASE Tick
  BY <1>3, TickKeepsHeard
<1>4. CASE TransportStop
  <2>1. UNCHANGED <<mask, pool, midiNote, plugNote, plugSlot, lane, forgotten>> /\ bound' = 0 /\ voice' = {}
    BY <1>4 DEF TransportStop, NoteStateUnchanged
  <2>2. bound' \in 0..MaxOrders
    BY <2>1, PlaybackAssumption
  <2> QED
    BY <2>1, <2>2, HeardInvStays
<1>5. CASE SetMask
  <2>1. UNCHANGED <<bound, voice, pool, midiNote, plugNote, plugSlot, lane, forgotten>> /\ mask' \in Masks
    BY <1>5 DEF SetMask, NoteStateUnchanged
  <2>2. mask' \subseteq Channel
    BY <2>1, PlaybackAssumption DEF Channel
  <2> QED
    BY <2>1, <2>2, HeardInvStays
<1>6. CASE PreviewNote
  <2>1. UNCHANGED <<bound, mask, pool, midiNote, plugNote, plugSlot, lane, forgotten>> /\ voice' \subseteq Channel
    BY <1>6 DEF PreviewNote, NoteStateUnchanged
  <2> QED
    BY <2>1, HeardInvStays
<1>7. CASE VoiceEnds
  <2>1. UNCHANGED <<bound, mask, midiNote, plugNote, plugSlot, lane, forgotten>>
    BY <1>7 DEF VoiceEnds, NoteStateUnchanged
  <2>2. voice' \subseteq Channel /\ pool' \in Seq(Voices) /\ Len(pool') <= PoolSize
    <3>1. CASE pool' = pool
      BY <1>7, <3>1 DEF VoiceEnds
    <3>2. CASE voice' = voice /\ \E i \in DOMAIN pool : pool' = RemoveAt(pool, i)
      <4>1. pool' \in Seq(Voices) /\ Len(pool') <= Len(pool)
        BY <3>2, RemoveVoice
      <4>2. Len(pool') \in Nat /\ Len(pool) \in Nat /\ PoolSize \in Nat
        BY <4>1, PlaybackAssumption
      <4> QED
        BY <3>2, <4>1, <4>2
    <3> QED
      BY <1>7, <3>1, <3>2 DEF VoiceEnds
  <2> QED
    BY <2>1, <2>2, HeardInvStays
<1>8. CASE SetTempo \/ PluginNote \/ UNCHANGED playbackVars
  <2>1. UNCHANGED <<bound, mask, voice, pool, midiNote, plugNote, plugSlot, lane, forgotten>>
    BY <1>8 DEF SetTempo, PluginNote, NoteStateUnchanged, playbackVars
  <2> QED
    BY <2>1, HeardInvStays
<1> QED
  BY <1>1, <1>2, <1>3, <1>4, <1>5, <1>6, <1>7, <1>8 DEF PlaybackNext

\* Both invariants hold.
LEMMA HeardInvHolds == PlaybackSpec => [](PlayInv /\ HeardInv)
<1>1. PlaybackInit => PlayInv /\ HeardInv
  BY PlayInvInit, HeardInvInit
<1>2. PlayInv /\ HeardInv /\ [PlaybackNext]_playbackVars => (PlayInv /\ HeardInv)'
  BY PlayInvNext, HeardInvNext
<1> QED
  BY <1>1, <1>2, PTL DEF PlaybackSpec

\* LanePaired holds for every table of songs: on the cable of a channel nothing sounds
\* but the note that the engine holds for it, and what a bundle swap made it forget
\* (audio_engine.cpp:150); handle_tick_outputs sends the note-off of every other note.
THEOREM LanePairedHolds == PlaybackSpec => []LanePaired
<1>1. HeardInv => LanePaired
  BY HeardFacts DEF HeardInv, LanePaired
<1> QED
  BY <1>1, HeardInvHolds, PTL

\* The variables of playback keep their types.
LEMMA PlaybackTypes == PlaybackSpec => []PlaybackTypeOK
<1>1. ASSUME PlayInv, HeardInv PROVE PlaybackTypeOK
  <2>1. {play.order, play.row, play.tick, play.delay, play.nextRow} \subseteq Nat
    BY <1>1 DEF PlayInv, PlayState
  <2>2. MidiNotes \subseteq Nat \cup {None}
    BY DEF MidiNotes
  <2>3. midiNote \in [Channel -> Nat \cup {None}] /\ plugNote \in [Channel -> Nat \cup {None}]
        /\ plugSlot \in [Channel -> Slots \cup {0}]
    BY <1>1, <2>2, HeardFacts DEF HeardInv
  <2> QED
    BY <1>1, <2>1, <2>3, HeardInvNow DEF PlayInv, PlaybackTypeOK, SongSpeeds
<1> QED
  BY <1>1, HeardInvHolds, PTL

\* The composition's parts are behaviours of their own specifications, so what is
\* proved of playback and of the MIDI thread alone holds where the runs check them,
\* beside the plugin instance.
THEOREM PartsPlay == MCSpec => PlaybackSpec /\ MidiOutSpec
<1>1. MCInit => PlaybackInit /\ MidiOutInit
  BY DEF MCInit
<1>2. [MCNext]_<<part, playbackVars, midiOutVars, pluginVars>>
          => [PlaybackNext]_playbackVars /\ [MidiOutNext]_midiOutVars
  BY DEF MCNext
<1> QED
  BY <1>1, <1>2, PTL DEF MCSpec, PlaybackSpec, MidiOutSpec

\* PlayingTypeOK holds for every value of the constants: the variables of playback and
\* of the MIDI thread keep their types, the speed stays one that a song or a tick can
\* set, and the clock of midi_out_thread.cpp ticks only for a slave it has started.
THEOREM PlayingTypeOKHolds == MCSpec => []PlayingTypeOK
<1>1. MidiInv => MidiOutTypeOK /\ ClockOnlyRunning
  BY DEF MidiInv, MidiOutTypeOK, ClockOnlyRunning
<1> QED
  BY <1>1, PartsPlay, PlaybackTypes, MidiInvHolds, PTL DEF PlayingTypeOK
=============================================================================
