------------------------------ MODULE SongEdits ------------------------------
(***************************************************************************)
(* The edits of a song: app/project_session.cpp on patterns, the order     *)
(* list, sequence layers, cells, samples and the FX rack, with             *)
(* app/pattern_ops.cpp, which edits blocks of cells, and app/undo.cpp.     *)
(*                                                                         *)
(* A structural edit stops the transport, changes the song, clears the     *)
(* history and publishes; cells, sample properties and waveform edits go   *)
(* into the history. Pattern k has the index k - 1 in the code, and so for *)
(* rows, channels and orders. The FX automation and the sequence of a      *)
(* pattern are kept in arrays of their own, next to the patterns; born     *)
(* says, of a pattern and of such an entry, which pattern it was made for. *)
(* What a sample sounds like is the number of its version.                 *)
(***************************************************************************)
EXTENDS UndoHistory, SequenceOps, FiniteSets, Functions

CONSTANTS SongChannels,  \* project_.channels
          Songs,         \* songs the session may open: [patterns, fxs, orders, speed]
          CellValues,    \* cells one enters
          Shifts,        \* semitones of a transposition
          MaxNote,       \* kMaxNote
          RowLimit,      \* the most rows a pattern may have (256)
          ModuleLimit,   \* the most modules of an FX channel (8)
          MaxPatterns, MaxOrderLen, MaxStrips,  \* bounds of the song
          MaxSongEdits   \* bound: calls

ASSUME SongAssumption ==
    /\ SongChannels \in Nat \ {0} /\ RowLimit \in Nat \ {0} /\ ModuleLimit \in Nat /\ MaxNote \in Nat \ {0}
    /\ MaxPatterns \in Nat /\ MaxOrderLen \in Nat /\ MaxStrips \in Nat /\ MaxSongEdits \in Nat
    /\ \A s \in Songs :
           /\ s.patterns \in Seq(Seq([1..SongChannels -> [note : Nat, ins : Nat, vol : Nat, fx : Nat]]))
           /\ \A k \in DOMAIN s.patterns : s.patterns[k] # <<>>
           /\ s.fxs \in Seq(Nat) /\ Len(s.fxs) <= Len(s.patterns)
           /\ \A k \in DOMAIN s.fxs : s.fxs[k] = Len(s.patterns[k])
           /\ s.orders \in Seq(Nat) /\ s.orders # <<>>
           /\ \A i \in DOMAIN s.orders : s.orders[i] + 1 \in DOMAIN s.patterns
           /\ s.speed \in Nat

VARIABLES patterns,   \* project_.patterns: [id, born, rows]
          seqs,       \* sequence_mixer.seq_patterns: [born, notes] (one layer)
          fxs,        \* fx_mixer.fx_patterns: [born, rows]
          orders,     \* project_.order_list
          speed,      \* project_.speed
          sample,     \* the sample of one slot: its properties, the audio in it, and the
                      \* audio of the buffer that plays, each by its version (0: none)
          strips,     \* fx_mixer.channels: how many modules each has
          clipboard,  \* the pattern view's clipboard
          songHistory,\* undo_
          made,       \* patterns made so far, and versions of the sample
          songEdits   \* calls so far

songVars == <<patterns, seqs, fxs, orders, speed, sample, strips, clipboard, songHistory, made,
              songEdits>>

FieldNames == <<"note", "ins", "vol", "fx">>
EmptyVolume == 255
EmptyCell == [note |-> 0, ins |-> 0, vol |-> EmptyVolume, fx |-> 0]
BlankRows(n) == [r \in 1..n |-> [c \in 1..SongChannels |-> EmptyCell]]
NoSample == [props |-> 0, data |-> 0, buffer |-> 0]
NoClip == [rows |-> 0, channels |-> 0, cells |-> <<>>, masks |-> <<>>]

\* load_file and new_project, once a song is read.
OpenSong(s) ==
    /\ songEdits < MaxSongEdits /\ songEdits' = songEdits + 1
    /\ patterns' = [p \in DOMAIN s.patterns |-> [id |-> p - 1, born |-> made + p, rows |-> s.patterns[p]]]
    /\ fxs' = [p \in DOMAIN s.fxs |-> [born |-> made + p, rows |-> s.fxs[p]]]
    /\ orders' = s.orders /\ speed' = s.speed /\ made' = made + Len(s.patterns)
    /\ seqs' = <<>> /\ sample' = NoSample /\ strips' = <<>> /\ songHistory' = Reset(songHistory)
    /\ UNCHANGED clipboard

SongInit ==
    /\ \E s \in Songs :
          /\ patterns = [p \in DOMAIN s.patterns |-> [id |-> p - 1, born |-> p, rows |-> s.patterns[p]]]
          /\ fxs = [p \in DOMAIN s.fxs |-> [born |-> p, rows |-> s.fxs[p]]]
          /\ orders = s.orders /\ speed = s.speed
          /\ made = Len(s.patterns)
    /\ seqs = <<>> /\ sample \in {NoSample, [props |-> 1, data |-> 1, buffer |-> 1]}
    /\ strips = <<>> /\ clipboard = NoClip /\ songHistory = NoHistory /\ songEdits = 0

SongCall == songEdits < MaxSongEdits /\ songEdits' = songEdits + 1

\* stop, change, clear, publish.
StructuralUndoable == SongCall /\ UNCHANGED <<songHistory, clipboard>>
Structural == SongCall /\ songHistory' = Clear(songHistory) /\ UNCHANGED clipboard

----------------------------------------------------------------------------
(* Patterns and orders.                                                    *)

\* create_pattern: the arrays next to the patterns grow when they are used.
CreatePattern(rows) ==
    /\ Len(patterns) < MaxPatterns
    /\ patterns' = Append(patterns, [id |-> Len(patterns), born |-> made + 1, rows |-> BlankRows(rows)])
    /\ made' = made + 1
    /\ UNCHANGED <<seqs, fxs, orders, speed, sample, strips>> /\ Structural

\* delete_pattern: the entry at its index goes from the arrays that reach it, the ids
\* close up, and so do the orders, of which one is left.
RemoveIfThere(list, k) == IF k \in DOMAIN list THEN RemoveAt(list, k) ELSE list
Reindexed(list) == [k \in DOMAIN list |-> [list[k] EXCEPT !.id = k - 1]]
OrdersLeft(k) ==
    LET kept == Within(orders, Range(orders) \ {k - 1}) IN IF kept = <<>> THEN <<0>> ELSE kept
OrdersWithout(k) ==
    LET kept == Within(orders, Range(orders) \ {k - 1})
        closed == [i \in DOMAIN kept |-> IF kept[i] > k - 1 THEN kept[i] - 1 ELSE kept[i]]
    IN  IF closed = <<>> THEN <<0>> ELSE closed
DeletePattern(k) ==
    /\ k \in DOMAIN patterns /\ Len(patterns) > 1
    /\ patterns' = Reindexed(RemoveAt(patterns, k))
    /\ seqs' = RemoveIfThere(seqs, k) /\ fxs' = RemoveIfThere(fxs, k)
    /\ orders' = OrdersWithout(k)
    /\ UNCHANGED <<speed, sample, strips, made>> /\ Structural

\* resize_pattern: rows are cut or added at the end, the automation with them; notes
\* that start past the end go, those that reach over it are trimmed.
Fit(rows, n) == [r \in 1..n |-> IF r \in DOMAIN rows THEN rows[r] ELSE BlankRows(1)[1]]
Trimmed(notes, ticks) ==
    Each(Within(notes, {n \in Range(notes) : n.start < ticks}),
         LAMBDA n : [n EXCEPT !.dur = AtLeast(1, Min({@, ticks - n.start}))])
ResizePattern(k, wanted) ==
    LET n == Clamp(wanted, 1, RowLimit)
    IN  /\ k \in DOMAIN patterns
        /\ patterns' = [patterns EXCEPT ![k].rows = Fit(@, n)]
        /\ fxs' = IF k \in DOMAIN fxs THEN [fxs EXCEPT ![k].rows = n] ELSE fxs
        /\ seqs' = IF k \in DOMAIN seqs THEN [seqs EXCEPT ![k].notes = Trimmed(@, n * AtLeast(1, speed))]
                   ELSE seqs
        /\ UNCHANGED <<orders, speed, sample, strips, made>> /\ Structural

\* order_insert, order_remove, order_move, order_set and set_order_list
NewOrders(list) ==
    /\ orders' = list
    /\ UNCHANGED <<patterns, seqs, fxs, speed, sample, strips, made>> /\ Structural
OrderInsert(position, p) ==
    /\ Len(orders) < MaxOrderLen /\ p + 1 \in DOMAIN patterns
    /\ NewOrders(InsertAt(orders, Clamp(position, 0, Len(orders)) + 1, p))
OrderRemove(position) ==
    position + 1 \in DOMAIN orders /\ Len(orders) > 1 /\ NewOrders(RemoveAt(orders, position + 1))
OrderMove(position, direction) ==
    LET i == position + 1
        j == i + direction
    IN  i \in DOMAIN orders /\ j \in DOMAIN orders
        /\ NewOrders([orders EXCEPT ![i] = orders[j], ![j] = orders[i]])
OrderSet(position, p) ==
    position + 1 \in DOMAIN orders /\ p + 1 \in DOMAIN patterns
    /\ NewOrders([orders EXCEPT ![position + 1] = p])
SetOrderList(list) ==
    list # <<>> /\ (\A i \in DOMAIN list : list[i] + 1 \in DOMAIN patterns) /\ NewOrders(list)

SetSpeedAsGiven(s) ==
    /\ SongCall /\ speed' = s
    /\ UNCHANGED <<patterns, seqs, fxs, orders, sample, strips, clipboard, songHistory, made>>
\* set_tempo, which the history does not take.
SetSpeed(s) ==
    /\ SongCall /\ speed' = Clamp(s, 1, 31)
    /\ UNCHANGED <<patterns, seqs, fxs, orders, sample, strips, clipboard, songHistory, made>>

----------------------------------------------------------------------------
(* Sequence layers.                                                        *)

\* seq_layer: growing makes an entry for every pattern there is.
Grown(k) ==
    IF k \in DOMAIN seqs THEN seqs
    ELSE [i \in DOMAIN patterns |->
             IF i \in DOMAIN seqs THEN seqs[i] ELSE [born |-> patterns[i].born, notes |-> <<>>]]

\* seq_replace_notes keeps the notes in the order of time.
InTime(notes) == [r \in DOMAIN notes |-> notes[CHOOSE i \in DOMAIN notes : Rank(notes, i) = r - 1]]
AsGiven(notes) == notes
ReplaceNotes(k, notes) ==
    /\ k \in DOMAIN patterns
    /\ seqs' = [Grown(k) EXCEPT ![k].notes = InTime(notes)]
    /\ UNCHANGED <<patterns, fxs, orders, speed, sample, strips, made>> /\ Structural

\* seq_add_note, after the notes that start with it; seq_remove_note.
AddNote(k, note) ==
    LET notes == Grown(k)[k].notes
        at == Cardinality({i \in DOMAIN notes : notes[i].start <= note.start}) + 1
    IN  /\ k \in DOMAIN patterns
        /\ seqs' = [Grown(k) EXCEPT ![k].notes = InsertAt(@, at, note)]
        /\ UNCHANGED <<patterns, fxs, orders, speed, sample, strips, made>> /\ Structural
RemoveNote(k, i) ==
    /\ k \in DOMAIN seqs /\ i \in DOMAIN seqs[k].notes
    /\ seqs' = [seqs EXCEPT ![k].notes = RemoveAt(@, i)]
    /\ UNCHANGED <<patterns, fxs, orders, speed, sample, strips, made>> /\ Structural

\* seq_set_layer_instrument on a layer that is not there: it grows, and the history stays.
SetLayerInstrument(k) ==
    /\ SongCall /\ k \in DOMAIN patterns /\ k \notin DOMAIN seqs
    /\ seqs' = Grown(k)
    /\ UNCHANGED <<patterns, fxs, orders, speed, sample, strips, clipboard, songHistory, made>>

\* The tools of the piano roll, on the notes of a layer.
Tools(notes) ==
    {Quantize(notes, speed, division, 100, FALSE) : division \in {1, 2}}
    \cup {Humanize(notes, t, v, d) : t \in {-1, 1}, v \in {-15, 15}, d \in {-1, 1}}
    \cup {Transpose(notes, 12), Backwards(notes), Upturned(notes)}
    \cup (UNION {{Arpeggiate(notes, speed, cycle, 2, 80) : cycle \in Cycles(Fanned(notes, 2), direction)}
                     : direction \in {"up", "down", "updown", "random"}})
    \cup {VelocityCurve(notes, shape, 40, 127) : shape \in {"crescendo", "decrescendo", "accent", "flat"}}
    \cup {GateLength(notes, percent) : percent \in {50, 75, 100}}
UseTool(k) ==
    /\ k \in DOMAIN seqs /\ seqs[k].notes # <<>>
    /\ \E notes \in Tools(seqs[k].notes) : ReplaceNotes(k, notes)

----------------------------------------------------------------------------
(* Cells, through the history.                                             *)

CellEdit(at, before, after) == [what |-> "cell", at |-> at, before |-> before, after |-> after]
SampleEdit(what, before, after) == [what |-> what, at |-> <<>>, before |-> before, after |-> after]

InPattern(at) ==
    /\ at[1] \in DOMAIN patterns /\ at[2] \in DOMAIN patterns[at[1]].rows /\ at[3] \in 1..SongChannels
CellAt(at) == patterns[at[1]].rows[at[2]][at[3]]
Put(ps, at, cell) == [ps EXCEPT ![at[1]].rows[at[2]][at[3]] = cell]

SameSong == UNCHANGED <<seqs, fxs, orders, speed, sample, strips, made>>

\* set_cell
SetCell(at, cell) ==
    /\ SongCall /\ InPattern(at)
    /\ patterns' = Put(patterns, at, cell)
    /\ songHistory' = Push(songHistory, CellEdit(at, CellAt(at), cell))
    /\ SameSong /\ UNCHANGED clipboard

\* normalized: the corners in order, clamped to the pattern; clamping an edge widens
\* that channel to all its fields. NoSelection when it misses the pattern.
Selection(p, r0, r1, c0, c1, f0, f1) ==
    [p |-> p, r0 |-> r0, r1 |-> r1, c0 |-> c0, c1 |-> c1, f0 |-> f0, f1 |-> f1]
NoSelection == Selection(0, 1, 0, 1, 0, 1, 0)
Ordered(s) ==
    LET rows == IF s.r0 > s.r1 THEN [s EXCEPT !.r0 = s.r1, !.r1 = s.r0] ELSE s
    IN  IF s.c0 > s.c1 \/ (s.c0 = s.c1 /\ s.f0 > s.f1)
        THEN [rows EXCEPT !.c0 = s.c1, !.c1 = s.c0, !.f0 = s.f1, !.f1 = s.f0]
        ELSE rows
Clamped(s, rows) ==
    IF s.r1 < 1 \/ s.r0 > rows \/ s.c1 < 1 \/ s.c0 > SongChannels THEN NoSelection
    ELSE [s EXCEPT !.r0 = Clamp(@, 1, rows), !.r1 = Clamp(@, 1, rows),
                   !.c0 = Clamp(@, 1, SongChannels), !.c1 = Clamp(@, 1, SongChannels),
                   !.f0 = IF s.c0 < 1 THEN 1 ELSE @,
                   !.f1 = IF s.c1 > SongChannels THEN 4 ELSE @]
Normal(s) ==
    IF s.p \in DOMAIN patterns THEN Clamped(Ordered(s), Len(patterns[s.p].rows)) ELSE NoSelection

\* channel_field_mask and merge_fields
Mask(s, c) ==
    {FieldNames[f] : f \in (IF c = s.c0 THEN s.f0 ELSE 1)..(IF c = s.c1 THEN s.f1 ELSE 4)}
Merge(dst, src, mask) == [f \in DOMAIN dst |-> IF f \in mask THEN src[f] ELSE dst[f]]

\* The cells of a block, row by row.
Block(s) ==
    LET width == s.c1 - s.c0 + 1
    IN  [i \in 1..((s.r1 - s.r0 + 1) * width) |->
            <<s.p, s.r0 + ((i - 1) \div width), s.c0 + ((i - 1) % width)>>]

\* An operation on a block: value is what it makes of each cell it reaches, and the cells
\* it changes are the members of one group.
CellEdits(cells, value) ==
    FoldLeft(LAMBDA all, at : IF at \in DOMAIN value /\ value[at] # CellAt(at)
                              THEN Append(all, CellEdit(at, CellAt(at), value[at])) ELSE all,
             <<>>, cells)
GroupEdit(cells, value) ==
    LET members == CellEdits(cells, value)
    IN  /\ SongCall
        /\ patterns' = FoldLeft(LAMBDA ps, e : Put(ps, e.at, e.after), patterns, members)
        /\ songHistory' = EndGroup(FoldLeft(Push, BeginGroup(songHistory), members))
        /\ SameSong

\* copy_cells and cut_cells
Copied(s) ==
    [rows |-> s.r1 - s.r0 + 1, channels |-> s.c1 - s.c0 + 1,
     cells |-> Each(Block(s), LAMBDA at : Merge(EmptyCell, CellAt(at), Mask(s, at[3]))),
     masks |-> [i \in 1..(s.c1 - s.c0 + 1) |-> Mask(s, s.c0 + i - 1)]]
Copy(s) ==
    /\ SongCall /\ s # NoSelection /\ clipboard' = Copied(s)
    /\ UNCHANGED <<patterns, songHistory>> /\ SameSong
Emptied(s) == [at \in Range(Block(s)) |-> Merge(CellAt(at), EmptyCell, Mask(s, at[3]))]
Cut(s) == s # NoSelection /\ clipboard' = Copied(s) /\ GroupEdit(Block(s), Emptied(s))

\* clear_cells
ClearCells(s) == s # NoSelection /\ UNCHANGED clipboard /\ GroupEdit(Block(s), Emptied(s))

\* paste_cells: what falls outside the pattern is left out.
Target(p, row, channel) ==
    [i \in DOMAIN clipboard.cells |->
        <<p, row + ((i - 1) \div clipboard.channels), channel + ((i - 1) % clipboard.channels)>>]
Pasted(p, row, channel) ==
    LET from(at) == (at[2] - row) * clipboard.channels + (at[3] - channel) + 1
    IN  [at \in {a \in Range(Target(p, row, channel)) : InPattern(a)} |->
            Merge(CellAt(at), clipboard.cells[from(at)], clipboard.masks[at[3] - channel + 1])]
Paste(p, row, channel) ==
    /\ clipboard.rows > 0 /\ p \in DOMAIN patterns /\ UNCHANGED clipboard
    /\ GroupEdit(Target(p, row, channel), Pasted(p, row, channel))

\* transpose_cells: notes move, empty cells and note-offs stay.
Shifted(cell, semitones) ==
    IF cell.note \in 1..MaxNote THEN [cell EXCEPT !.note = Clamp(@ + semitones, 1, MaxNote)] ELSE cell
TransposeCells(s, semitones) ==
    /\ s # NoSelection /\ semitones # 0 /\ UNCHANGED clipboard
    /\ GroupEdit(Block(s), [at \in {a \in Range(Block(s)) : "note" \in Mask(s, a[3])} |-> Shifted(CellAt(at), semitones)])

\* interpolate_cells: volumes, and parameters of one effect, between the first and the
\* last row of the block.
Between(a, b, step, span) == Round(a * span + (b - a) * step, span)
Filled(s, at) ==
    LET first == CellAt(<<s.p, s.r0, at[3]>>)
        last == CellAt(<<s.p, s.r1, at[3]>>)
        mask == Mask(s, at[3])
        step == at[2] - s.r0
        span == s.r1 - s.r0
    IN  [CellAt(at) EXCEPT
            !.vol = IF "vol" \in mask /\ EmptyVolume \notin {first.vol, last.vol}
                    THEN Between(first.vol, last.vol, step, span) ELSE @,
            !.fx = IF "fx" \in mask /\ first.fx # 0 /\ last.fx # 0
                   THEN Between(first.fx, last.fx, step, span) ELSE @]
Interpolate(s) ==
    /\ s # NoSelection /\ s.r1 - s.r0 >= 2 /\ UNCHANGED clipboard
    /\ GroupEdit(Block(s), [at \in {a \in Range(Block(s)) : a[2] \notin {s.r0, s.r1}} |-> Filled(s, at)])

----------------------------------------------------------------------------
(* Samples.                                                                *)

OfSong == <<patterns, seqs, fxs, orders, speed, strips>>

\* load_sample_into_slot and clear_slot
LoadSample ==
    /\ sample' = [props |-> made + 1, data |-> made + 1, buffer |-> made + 1] /\ made' = made + 1
    /\ UNCHANGED OfSong /\ Structural
ClearSlot == sample' = NoSample /\ UNCHANGED <<OfSong, made>> /\ Structural

\* set_sample_meta: the audio stays what it was, and undoing it gives the audio back that
\* was there when it was done.
SetSampleMeta ==
    /\ SongCall /\ sample # NoSample
    /\ made' = made + 1 /\ sample' = [sample EXCEPT !.props = made + 1]
    /\ songHistory' = Push(songHistory, SampleEdit("props", sample, sample'))
    /\ UNCHANGED <<OfSong, clipboard>>

\* apply_sample_edit with replace_sample_buffer: trim, silence, fades, normalize, reverse,
\* gain and DC. What plays is decoded from what is stored.
ApplySampleEdit ==
    /\ SongCall /\ sample # NoSample
    /\ made' = made + 1 /\ sample' = [props |-> made + 1, data |-> made + 1, buffer |-> made + 1]
    /\ songHistory' = PushSampleOp(songHistory, SampleEdit("audio", sample, sample'))
    /\ UNCHANGED <<OfSong, clipboard>>

----------------------------------------------------------------------------
(* The FX rack.                                                            *)

NewStrips(list) == strips' = list /\ UNCHANGED <<patterns, seqs, fxs, orders, speed, sample, made>> /\ Structural
AddFxChannel == Len(strips) < MaxStrips /\ NewStrips(Append(strips, 0))
RemoveFxChannel(c) == c \in DOMAIN strips /\ NewStrips(RemoveAt(strips, c))
AddFxModule(c) == c \in DOMAIN strips /\ strips[c] < ModuleLimit /\ NewStrips([strips EXCEPT ![c] = @ + 1])
RemoveFxModule(c) == c \in DOMAIN strips /\ strips[c] > 0 /\ NewStrips([strips EXCEPT ![c] = @ - 1])

----------------------------------------------------------------------------
(* Undo and redo.                                                          *)

\* What the closures of an edit write: a cell; the sample's record; that, and the buffer.
WriteRecord(s, e, value) ==
    CASE e.what = "cell" -> [s EXCEPT !.patterns = Put(@, e.at, value)]
      [] e.what \in {"props", "audio"} -> [s EXCEPT !.sample.props = value.props, !.sample.data = value.data]
      [] e.what = "speed" -> [s EXCEPT !.speed = value]
Write(s, e, value) ==
    CASE e.what = "cell" -> [s EXCEPT !.patterns = Put(@, e.at, value)]
      [] e.what = "props" -> [s EXCEPT !.sample.props = value.props, !.sample.data = value.data]
      [] e.what = "audio" -> [s EXCEPT !.sample = value]
      [] e.what = "speed" -> [s EXCEPT !.speed = value]
UnwriteAll(s, list) == FoldLeft(LAMBDA t, e : Write(t, e, e.before), s, list)
RewriteAll(s, list) == FoldLeft(LAMBDA t, e : Write(t, e, e.after), s, list)

Song == [patterns |-> patterns, sample |-> sample, speed |-> speed]
Rewritten(s) ==
    /\ SongCall /\ patterns' = s.patterns /\ sample' = s.sample /\ speed' = s.speed
    /\ UNCHANGED <<seqs, fxs, orders, strips, clipboard, made>>
UndoEdit ==
    /\ CanUndo(songHistory) /\ songHistory' = Undone(songHistory)
    /\ Rewritten(UnwriteAll(Song, UndoneEdits(songHistory)))
RedoEdit ==
    /\ CanRedo(songHistory) /\ songHistory' = Redone(songHistory)
    /\ Rewritten(RewriteAll(Song, RedoneEdits(songHistory)))

----------------------------------------------------------------------------

Selections ==
    {Normal(Selection(p, r0, r1, c0, c1, f0, f1)) :
        p \in DOMAIN patterns, r0 \in {1}, r1 \in {0, 3}, c0 \in {1, SongChannels}, c1 \in {1, 3},
        f0 \in {1}, f1 \in {1, 4}}
Places == {<<p, r, c>> : p \in DOMAIN patterns, r \in {1, 3}, c \in 1..SongChannels}

SoundNext == LoadSample \/ ClearSlot \/ SetSampleMeta \/ ApplySampleEdit \/ UndoEdit \/ RedoEdit

SongNext ==
    \/ CreatePattern(2)
    \/ \E k \in DOMAIN patterns : DeletePattern(k) \/ (\E n \in {0, 2, RowLimit + 1} : ResizePattern(k, n))
    \/ \E k \in DOMAIN patterns : OrderInsert(9, k - 1) \/ OrderSet(0, k - 1) \/ SetOrderList(<<k - 1, 0>>)
    \/ \E i \in DOMAIN orders : OrderRemove(i - 1) \/ OrderMove(i - 1, 1)
    \/ \E s \in {0, 3} : SetSpeed(s)
    \/ \E k \in DOMAIN patterns, start \in {0, 5} : AddNote(k, SeqNote(60, start, 4, 100))
    \/ \E k \in DOMAIN seqs : RemoveNote(k, 1) \/ UseTool(k)
    \/ \E k \in DOMAIN patterns : SetLayerInstrument(k)
    \/ \E at \in Places, cell \in CellValues : SetCell(at, cell)
    \/ \E s \in Selections : \/ Copy(s) \/ Cut(s) \/ ClearCells(s) \/ Interpolate(s)
                            \/ \E n \in Shifts : TransposeCells(s, n)
    \/ \E p \in DOMAIN patterns, r \in {0, 1} : Paste(p, r, 1)
    \/ SoundNext
    \/ \E s \in Songs : OpenSong(s)
    \/ AddFxChannel
    \/ \E c \in DOMAIN strips : RemoveFxChannel(c) \/ AddFxModule(c) \/ RemoveFxModule(c)

SongSpec == SongInit /\ [][SongNext]_songVars

----------------------------------------------------------------------------
(* Properties.                                                             *)

SongTypeOK ==
    /\ \A k \in DOMAIN patterns : \A r \in DOMAIN patterns[k].rows :
           Len(patterns[k].rows[r]) = SongChannels
    /\ speed \in 1..31 /\ songEdits \in 0..MaxSongEdits
    /\ \A c \in DOMAIN strips : strips[c] \in 0..ModuleLimit

\* What the engine takes for granted of a song, whatever edits made it: an order names a
\* pattern, a pattern is where its id says and has a row, and the automation and the
\* notes found at its index are its own, as long as it is, in the order of time and
\* where a note can be.
Playable ==
    /\ orders # <<>> /\ \A i \in DOMAIN orders : orders[i] + 1 \in DOMAIN patterns
    /\ \A k \in DOMAIN patterns : patterns[k].id = k - 1 /\ patterns[k].rows # <<>>
    /\ DOMAIN seqs \subseteq DOMAIN patterns /\ DOMAIN fxs \subseteq DOMAIN patterns
    /\ \A k \in DOMAIN seqs : seqs[k].born = patterns[k].born
    /\ \A k \in DOMAIN fxs : fxs[k] = [born |-> patterns[k].born, rows |-> Len(patterns[k].rows)]
    /\ \A k \in DOMAIN seqs : \A i, j \in DOMAIN seqs[k].notes :
           /\ i < j => seqs[k].notes[i].start <= seqs[k].notes[j].start
           /\ seqs[k].notes[i] \in [pitch : 0..MaxPitch, start : Nat, dur : Nat \ {0}, vel : 0..MaxVelocity]

\* Undoing finds each thing as the edit left it: a cell that is still there, with what was
\* entered, a sample with the properties that were set.
Found(s, e) ==
    CASE e.what = "cell" -> /\ e.at[1] \in DOMAIN s.patterns /\ e.at[2] \in DOMAIN s.patterns[e.at[1]].rows
                            /\ s.patterns[e.at[1]].rows[e.at[2]][e.at[3]] = e.after
      [] e.what \in {"props", "audio"} -> s.sample.props = e.after.props
      [] e.what = "speed" -> TRUE
Unwind(t, e) == IF t.ok /\ Found(t.song, e) THEN [t EXCEPT !.song = Write(@, e, e.before)]
                ELSE [t EXCEPT !.ok = FALSE]
UndoFindsItsEdit ==
    FoldLeft(Unwind, [song |-> Song, ok |-> TRUE],
             Reverse(FoldLeft(LAMBDA all, e : all \o e.edits, <<>>, songHistory.past) \o songHistory.group)).ok

\* What plays is what a save would store, however waveform edits, edits of the
\* properties, undo and the limits of the history follow each other.
PlayedIsStored == sample.data = sample.buffer
=============================================================================
