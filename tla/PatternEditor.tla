---------------------------- MODULE PatternEditor ----------------------------
(***************************************************************************)
(* The pattern editor (ui/pattern_view.cpp), the panel of note keys beside *)
(* it (ui/note_entry_view.cpp), the history's list (ui/history_view.cpp)   *)
(* and MIDI notes entered or recorded (app/midi_record.cpp), on the song   *)
(* of SongEdits.                                                           *)
(*                                                                         *)
(* A frame of the user interface draws the pattern window, which handles   *)
(* one input on the way: a button, the order list, a key, the mouse. What  *)
(* it draws is the pattern under the playhead while the snapshot says that *)
(* the song plays, and the snapshot may be older than the song: the audio  *)
(* thread publishes when it likes. Reading past the end of an array is     *)
(* recorded in misread: an order is read as some order there was, and      *)
(* nothing is said of what follows the other reads. The octave and the     *)
(* colours of the view are left out: a key enters any note.                *)
(***************************************************************************)
EXTENDS SongEdits

CONSTANTS BoundChannels,  \* channels an instrument of the table is bound to
          VisibleRows,    \* the rows the window has room for
          NewRows,        \* the rows of a new pattern (64)
          PageRows,       \* the rows of a page (16)
          EntrySteps,     \* edit steps one sets (0..16)
          FramesPerTick, RecordSpeed,  \* the tempo one records at
          MaxInputs       \* bound: inputs

ASSUME EditorAssumption ==
    /\ BoundChannels \subseteq 1..SongChannels /\ VisibleRows \in Nat \ {0} /\ NewRows \in Nat \ {0}
    /\ PageRows \in Nat /\ EntrySteps \subseteq Nat /\ FramesPerTick \in Nat \ {0}
    /\ RecordSpeed \in Nat \ {0} /\ MaxInputs \in Nat

VARIABLES ui,       \* the view: cursor, anchor, scroll_row_, order_sel_, edit_pattern_, what
                    \* draw() cached for MIDI, edit_step_, default_volume_
          snap,     \* the snapshot the UI thread sees: playing, pattern, row
          rolling,  \* the transport the commands sent so far ask for
          midi,     \* the input mode, and the note its preview holds
          misread,  \* what was read past its end, or ""
          inputs

editorVars == <<ui, snap, rolling, midi, misread, inputs>>

EntrySlot == 1
NoNote == 0
AnchorAt(u, active) == [row |-> u.row, channel |-> u.channel, field |-> u.field, active |-> active]

EditorInit ==
    /\ ui = [row |-> 1, channel |-> 1, field |-> 0, scroll |-> 1, order |-> 1, edit |-> 1,
             anchor |-> [row |-> 1, channel |-> 1, field |-> 0, active |-> FALSE],
             active |-> 1, rows |-> NewRows, step |-> 1, volume |-> -1, held |-> FALSE, drawn |-> FALSE]
    /\ snap = [playing |-> FALSE, pattern |-> 1, row |-> 1] /\ rolling = FALSE
    /\ midi = [mode |-> "preview", preview |-> NoNote] /\ misread = "" /\ inputs = 0

----------------------------------------------------------------------------
(* The cursor and the scroll.                                              *)

\* advance_cursor_down
Advanced(u, rows) ==
    LET row == Min({rows, u.row + u.step})
    IN  [u EXCEPT !.row = row, !.scroll = AtLeast(@, row - VisibleRows + 1)]

\* clamp_scroll: the row goes into the pattern, and the scroll to the row.
InView(u, rows) ==
    LET row == Clamp(u.row, 1, rows)
        scroll == Min({Clamp(u.scroll, 1, rows), row})
    IN  [u EXCEPT !.row = row, !.scroll = AtLeast(scroll, row - VisibleRows + 1)]
InViewUnclamped(u, rows) == [u EXCEPT !.scroll = Min({Clamp(@, 1, rows), u.row})]

\* draw_grid: the playhead drags the scroll along when it leaves the view.
Followed(u, p) ==
    IF snap.playing /\ snap.pattern = p /\ snap.row \notin u.scroll..(u.scroll + VisibleRows - 1)
    THEN [u EXCEPT !.scroll = AtLeast(1, snap.row - (VisibleRows \div 2))]
    ELSE u

\* cell_field and block_selection
FieldOf(field) == Min({field, 3}) + 1
BlockAt(u, p) ==
    LET from == IF u.anchor.active THEN u.anchor ELSE AnchorAt(u, FALSE)
    IN  Normal(Selection(p, from.row, u.row, from.channel, u.channel, FieldOf(from.field), FieldOf(u.field)))

----------------------------------------------------------------------------
(* Drawing the window, around an input.                                    *)

\* The pattern draw() shows, which it looks up before it handles anything.
Shown == IF snap.playing THEN snap.pattern ELSE Clamp(ui.edit, 1, Len(patterns))

Input == inputs < MaxInputs /\ inputs' = inputs + 1 /\ misread \in {"", "order"}
NoSongEdit == UNCHANGED songVars
Drawing(u) ==
    [u EXCEPT !.active = Shown, !.rows = Len(patterns[Shown].rows), !.order = Clamp(@, 1, Len(orders)),
              !.held = FALSE, !.drawn = TRUE]

\* The rest of the frame: the edit view goes to the pattern of the selected order, and the
\* grid is drawn, of the song as it is by then.
Drawn(u, edit, why) ==
    IF u.active \in DOMAIN patterns'
    THEN /\ ui' = InView(Followed([u EXCEPT !.edit = edit], u.active), Len(patterns'[u.active].rows))
         /\ misread' = why
    ELSE ui' = [u EXCEPT !.drawn = FALSE] /\ misread' = "pattern"
DrawnOf(u) ==
    \E edit \in (IF u.order \in DOMAIN orders' THEN {orders'[u.order] + 1} ELSE {o + 1 : o \in Range(orders)}) :
        Drawn(u, edit, IF u.order \in DOMAIN orders' THEN misread ELSE "order")
SameTransport == UNCHANGED <<snap, rolling, midi>>

\* A pattern the snapshot names and the song no longer has.
DrawMissing ==
    /\ Input /\ Shown \notin DOMAIN patterns /\ misread' = "pattern" /\ NoSongEdit /\ SameTransport
    /\ ui' = [ui EXCEPT !.drawn = FALSE]
CanDraw == Input /\ Shown \in DOMAIN patterns

DrawOnly == CanDraw /\ NoSongEdit /\ DrawnOf(Drawing(ui)) /\ SameTransport

\* draw_transport, and the keys for it: F5 asks the newest snapshot, F8 stops.
PlayOrStop ==
    /\ CanDraw /\ NoSongEdit /\ DrawnOf(Drawing(ui)) /\ UNCHANGED <<snap, midi>>
    /\ \E newest \in {snap.playing, rolling, FALSE} : rolling' = ~newest
StopKey == CanDraw /\ NoSongEdit /\ rolling' = FALSE /\ DrawnOf(Drawing(ui)) /\ UNCHANGED <<snap, midi>>
UndoOrRedo == CanDraw /\ (UndoEdit \/ RedoEdit) /\ DrawnOf(Drawing(ui)) /\ SameTransport

----------------------------------------------------------------------------
(* draw_order_list. An edit of the list stops the transport.               *)

Stopping == rolling' = FALSE /\ UNCHANGED <<snap, midi>>

\* A click selects, a second one plays from there.
SelectOrder(i, twice) ==
    /\ CanDraw /\ i \in DOMAIN orders /\ NoSongEdit
    /\ DrawnOf([Drawing(ui) EXCEPT !.order = i, !.row = 1, !.scroll = 1, !.anchor.active = FALSE])
    /\ rolling' = (twice \/ rolling) /\ UNCHANGED <<snap, midi>>

\* "delete PAT", in the middle of the list, which goes on to the length it had.
DeleteFromList(i) ==
    /\ CanDraw /\ i \in DOMAIN orders /\ DeletePattern(orders[i] + 1)
    /\ LET u == Drawing(ui) IN
       IF i < Len(orders) /\ Len(orders') < Len(orders)
       THEN \E edit \in {o + 1 : o \in Range(orders) \cup Range(orders')} : Drawn(u, edit, "order")
       ELSE DrawnOf(u)
    /\ Stopping

\* "+": a new pattern, or another reference to one.
InsertNewPattern(position) ==
    /\ Len(patterns) < MaxPatterns /\ Len(orders) < MaxOrderLen
    /\ patterns' = Append(patterns, [id |-> Len(patterns), born |-> made + 1, rows |-> BlankRows(NewRows)])
    /\ orders' = InsertAt(orders, Clamp(position, 0, Len(orders)) + 1, Len(patterns))
    /\ made' = made + 1
    /\ UNCHANGED <<seqs, fxs, speed, sample, strips>> /\ Structural
AddToList ==
    /\ CanDraw
    /\ LET u == Drawing(ui) IN
       /\ InsertNewPattern(u.order) \/ (\E k \in DOMAIN patterns : OrderInsert(u.order, k - 1))
       /\ DrawnOf([u EXCEPT !.order = Min({@ + 1, Len(orders')})])
    /\ Stopping

\* "-", "^", "v", "<" and ">"
RemoveFromList ==
    /\ CanDraw
    /\ LET u == Drawing(ui) IN OrderRemove(u.order - 1) /\ DrawnOf([u EXCEPT !.order = AtLeast(1, @ - 1)])
    /\ Stopping
MoveInList(direction) ==
    /\ CanDraw
    /\ LET u == Drawing(ui) IN OrderMove(u.order - 1, direction) /\ DrawnOf([u EXCEPT !.order = @ + direction])
    /\ Stopping
RepointInList(by) ==
    /\ CanDraw
    /\ LET u == Drawing(ui)
           count == Len(patterns)
       IN  OrderSet(u.order - 1, (orders[u.order] + by + count) % count) /\ DrawnOf(u)
    /\ Stopping

----------------------------------------------------------------------------
(* handle_keys, before the grid has put the cursor into the pattern.       *)

\* Shift grows the selection from where it began; a plain move drops it.
Tracked(u, shift) ==
    IF ~shift THEN [u EXCEPT !.anchor.active = FALSE]
    ELSE IF u.anchor.active THEN u ELSE [u EXCEPT !.anchor = AnchorAt(u, TRUE)]

Up(u, rows) == [u EXCEPT !.row = AtLeast(1, @ - 1)]
Down(u, rows) == [u EXCEPT !.row = Min({rows, @ + 1})]
PageUp(u, rows) == [u EXCEPT !.row = AtLeast(1, @ - PageRows), !.scroll = AtLeast(1, @ - PageRows)]
PageDown(u, rows) == [u EXCEPT !.row = Min({rows, @ + PageRows}), !.scroll = @ + PageRows]
Home(u) == [u EXCEPT !.row = 1, !.scroll = 1]
ToEnd(u, rows) == [u EXCEPT !.row = rows, !.scroll = AtLeast(1, rows - VisibleRows + 1)]
Left(u) ==
    IF u.field > 0 THEN [u EXCEPT !.field = @ - 1]
    ELSE IF u.channel > 1 THEN [u EXCEPT !.channel = @ - 1, !.field = 4] ELSE u
Right(u) ==
    IF u.field < 4 THEN [u EXCEPT !.field = @ + 1]
    ELSE IF u.channel < SongChannels THEN [u EXCEPT !.channel = @ + 1, !.field = 0] ELSE u
TabTo(u, shift) ==
    LET step == IF shift THEN SongChannels - 1 ELSE 1
    IN  [u EXCEPT !.anchor.active = FALSE, !.channel = ((@ - 1 + step) % SongChannels) + 1, !.field = 0]
Escaped(u) == [u EXCEPT !.anchor.active = FALSE]

Moves(u, rows, shift) ==
    LET t == Tracked(u, shift)
    IN  {Up(t, rows), Down(t, rows), Left(t), Right(t), PageUp(t, rows), PageDown(t, rows), Home(t),
         ToEnd(t, rows), TabTo(u, shift), Escaped(u)}

\* The cell under the cursor is read as soon as the moves are made.
RowThere(u) == u.row \in DOMAIN patterns[Shown].rows
Misplaced(u) == misread' = "row" /\ ui' = [u EXCEPT !.drawn = FALSE] /\ NoSongEdit

MoveKey(shift) ==
    /\ CanDraw /\ SameTransport
    /\ \E u \in Moves(Drawing(ui), Len(patterns[Shown].rows), shift) :
           IF RowThere(u) THEN NoSongEdit /\ DrawnOf(u) ELSE Misplaced(u)

\* Delete clears a field, or the cell from its note.
Cleared(cell, field) ==
    CASE field = 0 -> EmptyCell
      [] field = 1 -> [cell EXCEPT !.ins = 0]
      [] field = 2 -> [cell EXCEPT !.vol = EmptyVolume]
      [] field \in {3, 4} -> [cell EXCEPT !.fx = 0]

\* A digit shifts into the instrument or the volume; it is the effect.
WithDigit(cell, field, digit) ==
    CASE field = 1 -> [cell EXCEPT !.ins = Min({31, ((@ % 16) * 16) + digit})]
      [] field = 2 -> [cell EXCEPT !.vol = Min({64, ((IF @ = EmptyVolume THEN 0 ELSE @ % 16) * 16) + digit})]
      [] field \in {3, 4} -> [cell EXCEPT !.fx = digit]

\* enter_note_cell: a bound channel leaves the instrument to be found.
InstrumentOn(channel) == IF channel \in BoundChannels THEN 0 ELSE EntrySlot
WithNote(cell, channel, note, volume) ==
    [cell EXCEPT !.note = Clamp(note, 1, MaxNote), !.ins = InstrumentOn(channel), !.vol = IF volume >= 0 THEN volume ELSE @]
NoteCut(cell, channel) == [cell EXCEPT !.note = MaxNote + 1, !.ins = InstrumentOn(channel)]
EnterNote(at, note, volume) ==
    IF InPattern(at) THEN SetCell(at, WithNote(CellAt(at), at[3], note, volume)) ELSE NoSongEdit

CursorCell(u) == <<Shown, u.row, u.channel>>
EntryKey ==
    /\ CanDraw /\ SameTransport
    /\ LET u == Drawing(ui)
           at == CursorCell(u)
           rows == Len(patterns[Shown].rows)
       IN  IF ~RowThere(u) THEN Misplaced(u)
           ELSE \/ u.field = 0 /\ SetCell(at, NoteCut(CellAt(at), u.channel)) /\ DrawnOf(Advanced(u, rows))
                \/ u.field = 0 /\ \E n \in 1..MaxNote : EnterNote(at, n, u.volume) /\ DrawnOf(Advanced(u, rows))
                \/ u.field > 0 /\ \E d \in {0, 5} : SetCell(at, WithDigit(CellAt(at), u.field, d)) /\ DrawnOf(u)
                \/ /\ ~u.anchor.active /\ SetCell(at, Cleared(CellAt(at), u.field))
                   /\ DrawnOf(Advanced(u, rows))

\* The keys and the menu's entries for a block: nothing happens when it misses the pattern.
OnBlock(s) ==
    IF s = NoSelection THEN NoSongEdit
    ELSE \/ Copy(s) \/ Cut(s) \/ ClearCells(s)
         \/ \E n \in Shifts : TransposeCells(s, n)
         \/ IF s.r1 - s.r0 >= 2 THEN Interpolate(s) ELSE NoSongEdit
BlockKey == CanDraw /\ OnBlock(BlockAt(Drawing(ui), Shown)) /\ DrawnOf(Drawing(ui)) /\ SameTransport
PasteKey ==
    /\ CanDraw /\ SameTransport
    /\ IF clipboard.rows > 0 THEN Paste(Shown, ui.row, ui.channel) ELSE NoSongEdit
    /\ DrawnOf(Drawing(ui))

----------------------------------------------------------------------------
(* The mouse on the grid, once it is drawn: a press anchors, a drag selects. *)

Pressed(u, row, channel, field) ==
    LET at == [u EXCEPT !.row = row, !.channel = channel, !.field = field, !.held = TRUE]
    IN  [at EXCEPT !.anchor = AnchorAt(at, FALSE)]
Dragged(u, row, channel, field) ==
    [u EXCEPT !.row = row, !.channel = channel, !.field = field, !.held = TRUE,
              !.anchor.active = <<row, channel, field>> # <<u.anchor.row, u.anchor.channel, u.anchor.field>>]
Mouse ==
    /\ CanDraw /\ NoSongEdit /\ SameTransport /\ misread' = misread
    /\ LET rows == Len(patterns[Shown].rows)
           u == InView(Followed([Drawing(ui) EXCEPT !.edit = orders[Drawing(ui).order] + 1], Shown), rows)
       IN  \E row \in u.scroll..Min({rows, u.scroll + VisibleRows - 1}), channel \in 1..SongChannels, field \in {0, 3} :
               \/ ui' = Pressed(u, row, channel, field)
               \/ ui.held /\ ui' = Dragged(u, row, channel, field)

----------------------------------------------------------------------------
(* The windows drawn after it: they use what draw() cached.                *)

StepCell == <<ui.active, ui.row, ui.channel>>
Stepped == Advanced([ui EXCEPT !.held = FALSE, !.drawn = FALSE], ui.rows)

\* note_entry_view: a key of the panel enters a note as typing does; the panel's settings.
PanelKey(note) ==
    /\ Input /\ EnterNote(StepCell, note, ui.volume) /\ ui' = Stepped
    /\ SameTransport /\ UNCHANGED misread
SetEntry(step, volume) ==
    /\ Input /\ NoSongEdit /\ ui' = [ui EXCEPT !.step = step, !.volume = volume]
    /\ SameTransport /\ UNCHANGED misread

\* quantise_record_row: the row nearest to the note, a half goes up; past the last row it
\* is the first. The note is `late` frames after the edge of the tick.
QuantiseRow(row, tick, late, rows) ==
    LET frames == FramesPerTick * RecordSpeed
        at == ((row - 1) * frames) + (tick * FramesPerTick) + late
    IN  (((2 * at + frames) \div (2 * frames)) % rows) + 1

\* apply_note_on and apply_note_off, of a device or of a cable.
PreviewOn(note) ==
    /\ midi.mode = "preview" /\ midi' = [midi EXCEPT !.preview = note]
    /\ NoSongEdit /\ UNCHANGED ui
StepNote(note) ==
    /\ midi.mode = "enter" /\ UNCHANGED midi
    /\ \E volume \in {-1, 0} : EnterNote(StepCell, note, volume)
    /\ ui' = Stepped
RecordNote(note) ==
    /\ midi.mode = "record" /\ UNCHANGED <<midi, ui>>
    /\ LET p == Clamp(snap.pattern, 1, Len(patterns)) IN
       IF snap.playing
       THEN \E tick \in 0..(RecordSpeed - 1), late \in {-FramesPerTick, FramesPerTick} :
                EnterNote(<<p, QuantiseRow(snap.row, tick, late, Len(patterns[p].rows)), SongChannels>>, note, 0)
       ELSE NoSongEdit
NoteIn(note) ==
    /\ Input /\ UNCHANGED <<snap, rolling, misread>>
    /\ PreviewOn(note) \/ StepNote(note) \/ RecordNote(note)
NoteReleased(note) ==
    /\ Input /\ midi.mode = "preview" /\ midi.preview = note
    /\ midi' = [midi EXCEPT !.preview = NoNote] /\ NoSongEdit /\ UNCHANGED <<ui, snap, rolling, misread>>
SetInputMode(mode) ==
    /\ Input /\ midi' = [midi EXCEPT !.mode = mode]
    /\ NoSongEdit /\ UNCHANGED <<ui, snap, rolling, misread>>

\* history_view: a click undoes or redoes several edits at once.
JumpBack(steps) ==
    LET list == FoldLeft(LAMBDA all, e : Reverse(e.edits) \o all, <<>>,
                         SubSeq(songHistory.past, Len(songHistory.past) - steps + 1, Len(songHistory.past)))
    IN  /\ steps \in 2..Len(songHistory.past)
        /\ songHistory' = FoldLeft(LAMBDA h, i : Undone(h), songHistory, [i \in 1..steps |-> i])
        /\ Rewritten(UnwriteAll(Song, list))
JumpForward(steps) ==
    LET list == FoldLeft(LAMBDA all, e : e.edits \o all, <<>>,
                         SubSeq(songHistory.future, Len(songHistory.future) - steps + 1, Len(songHistory.future)))
    IN  /\ steps \in 2..Len(songHistory.future)
        /\ songHistory' = FoldLeft(LAMBDA h, i : Redone(h), songHistory, [i \in 1..steps |-> i])
        /\ Rewritten(RewriteAll(Song, list))
HistoryJump(steps) ==
    Input /\ (JumpBack(steps) \/ JumpForward(steps)) /\ UNCHANGED <<ui, snap, rolling, midi, misread>>

\* Other windows and the local API: a pattern gets shorter or goes.
ShrinkElsewhere ==
    /\ Input /\ (\E k \in DOMAIN patterns : ResizePattern(k, 1) \/ DeletePattern(k))
    /\ Stopping /\ ui' = [ui EXCEPT !.drawn = FALSE] /\ UNCHANGED misread

\* The audio thread publishes where it is: somewhere in the song, or stopped, as it is too at
\* the end of a song that does not loop.
PublishPosition ==
    /\ misread # "row" /\ UNCHANGED <<songVars, ui, rolling, midi, misread, inputs>>
    /\ \/ rolling /\ \E k \in DOMAIN patterns : \E r \in DOMAIN patterns[k].rows :
              k - 1 \in Range(orders) /\ snap' = [playing |-> TRUE, pattern |-> k, row |-> r]
       \/ snap' = [snap EXCEPT !.playing = FALSE]

EditorNext ==
    \/ DrawMissing \/ DrawOnly \/ PlayOrStop \/ StopKey \/ UndoOrRedo
    \/ \E i \in DOMAIN orders : DeleteFromList(i) \/ (\E twice \in BOOLEAN : SelectOrder(i, twice))
    \/ AddToList \/ RemoveFromList
    \/ \E by \in {-1, 1} : MoveInList(by) \/ RepointInList(by)
    \/ \E shift \in BOOLEAN : MoveKey(shift)
    \/ EntryKey \/ BlockKey \/ PasteKey \/ Mouse
    \/ \E note \in 1..MaxNote : PanelKey(note) \/ NoteIn(note) \/ NoteReleased(note)
    \/ \E step \in EntrySteps : SetEntry(step, 64)
    \/ \E mode \in {"off", "preview", "enter", "record"} : SetInputMode(mode)
    \/ \E steps \in 2..HistoryLimit : HistoryJump(steps)
    \/ ShrinkElsewhere \/ PublishPosition

----------------------------------------------------------------------------
(* Properties.                                                             *)

\* Once the grid is drawn the cursor is in the pattern it shows, and in view.
EditorTypeOK ==
    /\ ui.field \in 0..4 /\ ui.channel \in 1..SongChannels /\ inputs \in 0..MaxInputs
    /\ ui.drawn => /\ ui.row \in DOMAIN patterns[ui.active].rows
                   /\ ui.row \in ui.scroll..(ui.scroll + VisibleRows - 1)

\* The keys read the cell of the pattern the cursor is in.
KeysInPattern == misread # "row"
=============================================================================
