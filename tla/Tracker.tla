------------------------------ MODULE Tracker ------------------------------
(***************************************************************************)
(* The sequencer of engine/tracker_engine.cpp: one call of advance_tick as *)
(* an operator from a play state and a project to the next play state.     *)
(*                                                                         *)
(* A project is a record of its order list, its patterns (a sequence of    *)
(* rows, a row a sequence of one cell per channel), the notes of its       *)
(* sequence layers (the notes of a layer in order of their start), and for *)
(* each entry of the instrument table its type and the channels bound to   *)
(* it, bound_tracks.                                                       *)
(* Orders, patterns, rows and ticks count from 0 as in the code. Pitch and *)
(* volume are left out: notes are numbers from 1, 0 is an empty cell. A    *)
(* row has a cell for each channel.                                        *)
(***************************************************************************)
EXTENDS Integers, Sequences, FiniteSets, SequencesExt

CONSTANTS NoteOff,      \* kNoteOff: the cell that releases the channel's note
          MaxTriggers   \* kMaxSeqTriggersPerTick

ASSUME TrackerAssumption == /\ MaxTriggers \in Nat \ {0}
                            /\ NoteOff \notin Nat

Least(a, b) == IF a < b THEN a ELSE b
AtLeast(a, b) == IF a > b THEN a ELSE b

\* TrackerCell: fx is the effect with its sub-command, arg its parameter, sub the
\* bound_index of a note that leaves its instrument to the channel.
Cell(note, ins, fx, arg) == [note |-> note, ins |-> ins, sub |-> 0, fx |-> fx, arg |-> arg]

MaxNote == 96                           \* kMaxNote

\* The effects the sequencer acts on; the others, "none" among them, only shape a voice.
Effects == {"none", "porta", "retrig", "cut", "notedelay", "speed", "jump", "break", "loop", "delay"}

\* The projects an engine is handed. A parameter is a byte, and Fxx is a speed below
\* 32; what a note byte above kNoteOff says, nobody reads.
Cells == {c \in [note : Nat \cup {NoteOff}, ins : Nat, sub : Nat, fx : Effects, arg : 0..255] : c.fx = "speed" => c.arg < 32}
LayerNotes == [start : Nat, dur : Nat, pitch : Nat]
Layers == [ch : Nat, slot : Nat, notes : Seq(LayerNotes)]
Typed(project) ==
    /\ project.channels \in Nat /\ project.speed \in Nat /\ project.orders \in Seq(Nat)
    /\ project.table \in Seq({"sample", "plugin"})
    /\ project.tracks \in [1..Len(project.table) -> SUBSET Nat]
    /\ project.patterns \in Seq(Seq([1..project.channels -> Cells]))
    /\ project.layers \in [1..Len(project.patterns) -> Seq(Layers)]

\* The pattern an id names: ids are indices.
PatternById(project, id) == project.patterns[id + 1]
HasPattern(project, id) == id \in 0..(Len(project.patterns) - 1)
OrderAt(project, pos) == project.orders[pos + 1]

\* pattern_rows_for_order: what a row of the pattern at pos is clamped to; the
\* fallback is 64, as its one caller passes.
RowsForOrder(project, pos) ==
    IF /\ pos \in 0..(Len(project.orders) - 1)
       /\ HasPattern(project, OrderAt(project, pos))
    THEN Len(PatternById(project, OrderAt(project, pos)))
    ELSE 64

\* A channel that nothing has played on yet.
QuietChannel == [note |-> 0, ins |-> 0, type |-> "sample", trigger |-> FALSE,
                 release |-> FALSE, retrig |-> 0, count |-> 0,
                 rowFx |-> "none", rowArg |-> 0]

\* create_play_state
CreatePlayState(project) ==
    [order |-> 0,
     pat |-> IF project.orders = <<>> THEN 0 ELSE Head(project.orders),
     row |-> 0, tick |-> 0, speed |-> project.speed, fired |-> FALSE,
     chan |-> [ch \in 1..project.channels |-> QuietChannel],
     patEnded |-> FALSE, songEnded |-> FALSE,
     loopRow |-> 0, loopCount |-> 0, loopActive |-> FALSE, flush |-> FALSE,
     delay |-> 0, nextOrder |-> 0, nextRow |-> 0, hasJump |-> FALSE,
     back |-> FALSE, seq |-> <<>>]

----------------------------------------------------------------------------
(* A row: its notes, then its effects, channel by channel.                 *)

IsNote(cell) == cell.note \in 1..MaxNote

\* resolve_bound_instrument: of the instruments bound to a channel, in the order of the
\* table, the one with sub others before it.
BoundTo(project, ch) == {i \in DOMAIN project.table : ch \in project.tracks[i]}
BoundInstrument(project, ch, sub) ==
    LET place(i) == Cardinality({j \in BoundTo(project, ch) : j < i})
        named == {i \in BoundTo(project, ch) : place(i) = sub}
    IN  IF named = {} THEN 0 ELSE CHOOSE i \in named : TRUE

\* The cell with the instrument it plays: a note without one takes its channel's.
WithInstrument(cell, ch, project) ==
    IF cell.ins = 0 /\ IsNote(cell)
    THEN [cell EXCEPT !.ins = BoundInstrument(project, ch, cell.sub)] ELSE cell

\* What a cell's note and instrument do to its channel. Tone portamento glides
\* to the note and does not trigger it.
CellNote(c, cell, project) ==
    LET glides == cell.fx = "porta"
        type == IF cell.ins \in DOMAIN project.table THEN project.table[cell.ins] ELSE "sample"
        chosen == IF cell.ins # 0 /\ (IsNote(cell) \/ ~glides)
                  THEN [c EXCEPT !.ins = cell.ins, !.type = type] ELSE c
    IN  CASE cell.note = NoteOff -> [chosen EXCEPT !.release = TRUE, !.note = 0]
          [] IsNote(cell) /\ ~glides -> [chosen EXCEPT !.note = cell.note, !.trigger = TRUE]
          [] OTHER -> chosen

\* What a cell's effect does to its channel as the row fires.
CellEffect(c, cell) ==
    CASE cell.fx = "retrig" -> [c EXCEPT !.retrig = cell.arg, !.count = 0]
      [] cell.fx = "cut" -> [c EXCEPT !.retrig = 192 + cell.arg]
      [] cell.fx = "notedelay" /\ IsNote(cell) /\ cell.arg # 0 ->
            [c EXCEPT !.trigger = FALSE, !.retrig = 208 + cell.arg]
      [] OTHER -> c

FireCell(c, cell, ch, project) ==
    CellEffect(CellNote([c EXCEPT !.rowFx = cell.fx, !.rowArg = cell.arg], WithInstrument(cell, ch, project), project), cell)

\* An Fxx with parameter 0 is a speed of one tick.
SpeedAsGiven(arg) == arg
SpeedOf(arg) == AtLeast(arg, 1)

\* What a cell's effect does to the song: speed, jumps, loops and delays. The
\* channels of a row are taken in order, so that a later one overrides or is
\* ignored as its effect says.
SongEffect(p, cell, project) ==
    CASE cell.fx = "speed" -> [p EXCEPT !.speed = SpeedOf(cell.arg)]
      [] cell.fx = "jump" ->
            [p EXCEPT !.hasJump = TRUE, !.nextRow = 0,
                      !.nextOrder = Least(cell.arg, Len(project.orders) - 1)]
      [] cell.fx = "break" /\ ~p.hasJump ->
            [p EXCEPT !.hasJump = TRUE, !.nextRow = cell.arg, !.nextOrder = p.order + 1]
      [] cell.fx = "loop" /\ cell.arg = 0 -> [p EXCEPT !.loopRow = p.row]
      [] cell.fx = "loop" /\ cell.arg > 0 /\ p.loopCount = 0 ->
            [p EXCEPT !.loopCount = cell.arg, !.loopActive = TRUE, !.back = TRUE]
      [] cell.fx = "loop" /\ cell.arg > 0 /\ p.loopCount = 1 ->
            [p EXCEPT !.loopCount = 0, !.loopActive = FALSE]
      [] cell.fx = "loop" /\ cell.arg > 0 /\ p.loopCount > 1 ->
            [p EXCEPT !.loopCount = @ - 1, !.back = TRUE]
      [] cell.fx = "delay" /\ cell.arg > 0 -> [p EXCEPT !.delay = cell.arg]
      [] OTHER -> p

FireRow(p, project) ==
    LET cells == PatternById(project, p.pat)[p.row + 1]
        Song(q, cell) == SongEffect(q, cell, project)
    IN  [FoldLeft(Song, p, cells) EXCEPT
            !.fired = TRUE,
            !.chan = [ch \in DOMAIN p.chan |-> FireCell(p.chan[ch], cells[ch], ch, project)]]

\* The other ticks of a row: note cut, note delay and retrigger.
MidCell(c, cell, tick) ==
    CASE cell.fx = "cut" /\ tick = cell.arg -> [c EXCEPT !.release = TRUE]
      [] cell.fx = "notedelay" /\ tick = cell.arg -> [c EXCEPT !.trigger = TRUE]
      [] cell.fx = "retrig" /\ c.retrig > 0 ->
            IF c.count + 1 >= c.retrig THEN [c EXCEPT !.count = 0, !.trigger = TRUE]
                                       ELSE [c EXCEPT !.count = @ + 1]
      [] OTHER -> c

MidRow(p, project) ==
    LET cells == PatternById(project, p.pat)[p.row + 1]
    IN  [p EXCEPT !.chan = [ch \in DOMAIN p.chan |-> MidCell(p.chan[ch], cells[ch], p.tick)]]

----------------------------------------------------------------------------
(* Sequence layers, and the move to the next tick, row or order.           *)

\* push_seq_trigger: the list of a tick has a capacity.
PushTrigger(list, t) == IF Len(list) < MaxTriggers THEN Append(list, t) ELSE list
Trigger(layer, id, n, on) ==
    [ch |-> layer.ch, layer |-> id, slot |-> layer.slot, pitch |-> n.pitch, on |-> on]

\* A layer's notes that start at this tick, then those that end at it.
StartTrigger(list, n, layer, id, at) ==
    IF n.start = at THEN PushTrigger(list, Trigger(layer, id, n, TRUE)) ELSE list
EndTrigger(list, n, layer, id, at) ==
    IF n.start < at /\ n.start + n.dur = at THEN PushTrigger(list, Trigger(layer, id, n, FALSE)) ELSE list
LayerTriggers(list, layer, id, at) ==
    LET Start(l, n) == StartTrigger(l, n, layer, id, at)
        End(l, n) == EndTrigger(l, n, layer, id, at)
    IN  FoldLeft(End, FoldLeft(Start, list, layer.notes), layer.notes)

\* scan_sequence_layers: the pattern's enabled layers in turn.
Scan(p, project) ==
    LET at == p.row * p.speed + p.tick
        layers == project.layers[p.pat + 1]
        OfLayer(list, id) == LayerTriggers(list, layers[id], id, at)
    IN  [p EXCEPT !.seq = FoldLeft(OfLayer, <<>>, [id \in 1..Len(layers) |-> id])]

ForgetLoop(p) == [p EXCEPT !.loopRow = 0, !.loopCount = 0, !.loopActive = FALSE]

\* The row a jump leads to in a pattern of so many rows.
RowAsAsked(row, rows) == row
RowOfJump(row, rows) == Least(row, rows - 1)

\* The jump a row asked for: the order wraps, the row is clamped.
TakeJump(p, project) ==
    LET pos == p.nextOrder % Len(project.orders)
    IN  ForgetLoop([p EXCEPT !.order = pos, !.pat = OrderAt(project, pos),
                             !.row = RowOfJump(p.nextRow, RowsForOrder(project, pos)),
                             !.hasJump = FALSE, !.nextOrder = 0, !.nextRow = 0])

\* The end of a pattern: the next order, or the first after the last.
NextPatternSilently(p, project) ==
    LET pos == (p.order + 1) % Len(project.orders)
    IN  ForgetLoop([p EXCEPT !.order = pos, !.pat = OrderAt(project, pos), !.row = 0])
NextPattern(p, project) ==
    LET wraps == p.order + 1 >= Len(project.orders)
        pos == IF wraps THEN 0 ELSE p.order + 1
    IN  ForgetLoop([p EXCEPT !.patEnded = TRUE, !.songEnded = wraps, !.order = pos,
                             !.pat = OrderAt(project, pos), !.row = 0])

\* advance_row: a jump is taken when its target row has been passed, or at the
\* pattern's end.
AdvanceRow(p, project) ==
    LET row == p.row + 1
        ends == \/ row >= Len(PatternById(project, p.pat))
                \/ p.hasJump /\ row >= p.nextRow /\ ~p.loopActive
    IN  CASE ends /\ p.hasJump -> TakeJump(p, project)
          [] ends /\ ~p.hasJump -> NextPattern(p, project)
          [] OTHER -> [p EXCEPT !.row = row]

\* The last tick of a row. A loop asked for in this call rewinds; a pattern
\* delay repeats the row first.
EndRow(p, project) ==
    LET leaves == IF p.back THEN [p EXCEPT !.row = p.loopRow, !.flush = TRUE]
                  ELSE AdvanceRow(p, project)
    IN  CASE p.delay > 1 -> [p EXCEPT !.delay = @ - 1]
          [] p.delay = 1 -> [leaves EXCEPT !.delay = 0]
          [] OTHER -> leaves

NextTick(p, project) ==
    IF p.tick + 1 >= p.speed THEN EndRow([p EXCEPT !.tick = 0], project)
                             ELSE [p EXCEPT !.tick = @ + 1]

\* What each tick starts from: its outputs cleared.
ClearOutputs(p) ==
    [p EXCEPT !.chan = [ch \in DOMAIN p.chan |->
                          [p.chan[ch] EXCEPT !.trigger = FALSE, !.release = FALSE]],
              !.patEnded = FALSE, !.songEnded = FALSE, !.seq = <<>>,
              !.back = FALSE, !.flush = FALSE, !.fired = FALSE]

\* advance_tick of a playing transport. A pattern id that names nothing stops
\* the song where it is.
AdvanceTick(p, project) ==
    LET q == ClearOutputs(p)
        effects == IF q.tick = 0 /\ q.delay = 0 THEN FireRow(q, project) ELSE MidRow(q, project)
    IN  IF HasPattern(project, q.pat) THEN NextTick(Scan(effects, project), project) ELSE q

\* What every source of projects must give advance_tick: an order list that
\* names only patterns, and no pattern without rows.
Playable(project) ==
    /\ Len(project.orders) > 0
    /\ \A i \in 1..Len(project.orders) :
            /\ HasPattern(project, project.orders[i])
            /\ Len(PatternById(project, project.orders[i])) > 0
=============================================================================
