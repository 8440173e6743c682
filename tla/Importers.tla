------------------------------ MODULE Importers ------------------------------
(***************************************************************************)
(* The importers of tracker modules, io/import: what a file of one of the  *)
(* four formats becomes as a song, or that it is refused.                  *)
(*                                                                         *)
(* A file is what its bytes say: counts, a table of orders, patterns as    *)
(* the cells or the events of their streams, as many as the data holds,    *)
(* and samples as how much of them is there. A sample of the song keeps,   *)
(* as origin, the place in the file it comes from.                         *)
(***************************************************************************)
EXTENDS Integers, Sequences, FiniteSets, SequencesExt, TLC

CONSTANTS ModuleFiles,   \* the files
          PatternLength, \* rows of a pattern of a MOD or S3M (64)
          SampleSlots,   \* kMaxSamples
          ChannelLimit   \* kMaxChannels

ASSUME ImportAssumption == PatternLength \in Nat \ {0} /\ SampleSlots \in Nat \ {0} /\ ChannelLimit \in Nat \ {0}

VARIABLES moduleFile,    \* the file
          importedSong   \* what the session has of it
importVars == <<moduleFile, importedSong>>

NoSong == [kind |-> "none"]
Off == 97          \* kNoteOff
TopNote == 96      \* kMaxNote
NoVolume == 255
NoEffect == [fx |-> 0, param |-> 0]
Effect(fx, param) == [fx |-> fx, param |-> param % 256]
BlankCell == [note |-> 0, ins |-> 0, vol |-> NoVolume, fx |-> 0, param |-> 0]
WithEffect(cell, e) == cell @@ e
Capped(limit, n) == IF n > limit THEN limit ELSE n
Floored(limit, n) == IF n < limit THEN limit ELSE n
ClampChannels(n) == Capped(ChannelLimit, Floored(1, n))
OrDefault(list) == IF list = <<>> THEN <<0>> ELSE list
NonZero(n, default) == IF n = 0 THEN default ELSE n

\* Speed and tempo from the first row of the first pattern that plays.
TempoScan(song) ==
    LET first == song.orders[1] + 1
        set(s, cell) == IF cell.fx # 15 \/ cell.param = 0 THEN s
                        ELSE IF cell.param >= 32 THEN [s EXCEPT !.bpm = cell.param] ELSE [s EXCEPT !.speed = cell.param]
    IN  IF first \in DOMAIN song.patterns THEN FoldLeft(set, song, song.patterns[first][1]) ELSE song

----------------------------------------------------------------------------
(* MOD: rows of cells, one after the other through all patterns.           *)

\* note_to_period, and period_to_note: the first of the nearest.
PeriodBase == <<1712, 1616, 1524, 1440, 1356, 1280, 1208, 1140, 1076, 1016, 960, 906>>
NoteToPeriod(n) ==
    LET base == PeriodBase[1 + ((n - 1) % 12)]
        octave == (n - 1) \div 12
    IN  IF octave <= 4 THEN base * 2^(4 - octave) ELSE (2 * base + 2^(octave - 4)) \div 2^(octave - 3)
Distance(n, p) == IF NoteToPeriod(n) > p THEN NoteToPeriod(n) - p ELSE p - NoteToPeriod(n)
PeriodToNote(p) ==
    IF p = 0 THEN 0
    ELSE CHOOSE n \in 1..TopNote :
            \A m \in 1..TopNote : Distance(n, p) < Distance(m, p) \/ (Distance(n, p) = Distance(m, p) /\ n <= m)

\* build_wav_mod samples them up, and the loop with them.
UpBy(n, half) == (n * 44100 + half) \div 8287
ModCell(raw) ==
    WithEffect([note |-> PeriodToNote(raw.period), ins |-> raw.ins, vol |-> NoVolume], Effect(raw.fx, raw.param))
ModPatterns(f) ==
    LET width == f.channels
        count == Capped(128, Max({0} \cup Range(f.table)) + 1)
        at(p, r, c) == ((p - 1) * PatternLength + r - 1) * width + c
    IN  [p \in 1..count |-> [r \in 1..PatternLength |-> [c \in 1..ClampChannels(width) |->
            IF at(p, r, c) <= Len(f.cells) THEN ModCell(f.cells[at(p, r, c)]) ELSE BlankCell]]]
\* Samples follow the patterns, up to the first that is cut short.
ModSamples(f) ==
    LET missing == {i \in DOMAIN f.samples : f.samples[i].bytes >= 2 /\ ~f.samples[i].there}
        upTo == IF missing = {} THEN Len(f.samples) ELSE Min(missing) - 1
        places == SelectSeq([i \in 1..upTo |-> i], LAMBDA i : f.samples[i].bytes >= 2)
        sample(i, s, looped) ==
            [id |-> i, origin |-> <<i>>, frames |-> UpBy(s.bytes, 8286),
             start |-> IF looped THEN UpBy(s.loopStart, 4143) ELSE 0,
             length |-> IF looped THEN UpBy(s.loopLength, 4143) ELSE 0]
    IN  [k \in DOMAIN places |-> sample(places[k], f.samples[places[k]], f.samples[places[k]].loopLength > 2)]
ModSong(f) ==
    TempoScan([kind |-> "song", channels |-> ClampChannels(f.channels), speed |-> 6, bpm |-> 125,
               orders |-> SubSeq(f.table, 1, Floored(1, f.length)), patterns |-> ModPatterns(f), samples |-> ModSamples(f)])

----------------------------------------------------------------------------
(* S3M and IT: streams of events, each for a channel, between ends of rows. *)

\* The letters both have: those that keep their parameter, and the rest.
SameParam == 2 :> 11 @@ 4 :> 10 @@ 5 :> 2 @@ 6 :> 1 @@ 7 :> 3 @@ 8 :> 4 @@ 10 :> 0 @@ 11 :> 6 @@ 12 :> 5
             @@ 15 :> 9 @@ 18 :> 7 @@ 19 :> 14 @@ 21 :> 4 @@ 24 :> 8
LetterEffect(cmd, info) ==
    CASE cmd \in DOMAIN SameParam -> Effect(SameParam[cmd], info)
      [] cmd = 1 -> Effect(15, info % 32)
      [] cmd = 3 -> Effect(13, 16 * (info \div 10) + (info % 10))
      [] cmd = 17 -> Effect(14, 144 + (info % 16))
      [] cmd = 22 -> Effect(12, Capped(64, info))
      [] OTHER -> NoEffect
S3mEffect(cmd, info) == IF cmd = 20 THEN Effect(15, info) ELSE LetterEffect(cmd, info)
ItEffect(cmd, info) ==
    CASE cmd = 20 -> Effect(15, Floored(32, info))
      [] cmd = 13 -> Effect(12, Capped(64, info))
      [] cmd \in {14, 23} -> Effect(10, info)
      [] cmd = 16 -> Effect(8, info)
      [] cmd = 25 -> Effect(4, info)
      [] OTHER -> LetterEffect(cmd, info)

\* Where in a stream the cell of a row and channel is; the last one, if there are more.
EndRow == [ch |-> 0]
RowOf(stream, i) == 1 + Cardinality({j \in 1..i - 1 : stream[j] = EndRow})
EventsAt(stream, r, c) == {i \in DOMAIN stream : stream[i].ch = c /\ RowOf(stream, i) = r}
VolumeOf(v) == IF v <= 64 THEN v ELSE NoVolume

\* A field the event's flags leave out is -1.
S3mNote(byte) == CASE byte = -1 -> 0 [] byte = 255 -> 0 [] byte = 254 -> Off
                   [] OTHER -> Capped(Off, 12 * (byte \div 16) + (byte % 16) + 1)
S3mCell(e) ==
    WithEffect([note |-> S3mNote(e.note), ins |-> Floored(0, e.ins), vol |-> IF e.vol = -1 THEN NoVolume ELSE VolumeOf(e.vol)],
               IF e.cmd = -1 THEN NoEffect ELSE S3mEffect(e.cmd, e.info))
S3mRows(stream, channels) ==
    [r \in 1..PatternLength |-> [c \in 1..channels |->
        IF EventsAt(stream, r, c) = {} THEN BlankCell ELSE S3mCell(stream[Max(EventsAt(stream, r, c))])]]
Loop(s) == [start |-> IF s.looped THEN s.loopStart ELSE 0,
            length |-> IF s.looped /\ s.loopEnd > s.loopStart THEN s.loopEnd - s.loopStart ELSE 0]
\* The samples with something in them, each in the slot of its place, up to a limit.
FlatSamples(list) ==
    LET places == SelectSeq([i \in DOMAIN list |-> i], LAMBDA i : list[i].there /\ list[i].frames > 0)
        sample(i) == [id |-> i, origin |-> <<i>>, frames |-> list[i].frames] @@ Loop(list[i])
    IN  [k \in 1..Capped(SampleSlots, Len(places)) |-> sample(places[k])]
Played(table) == OrDefault(SelectSeq(table, LAMBDA o : o \notin {254, 255}))
S3mSamples(list) == FlatSamples(list)
S3mSong(f) ==
    LET channels == ClampChannels(f.channels)
    IN  TempoScan([kind |-> "song", channels |-> channels, speed |-> NonZero(f.speed, 6), bpm |-> NonZero(f.bpm, 125),
                   orders |-> Played(f.table), samples |-> S3mSamples(f.samples),
                   patterns |-> [p \in DOMAIN f.streams |-> S3mRows(f.streams[p], channels)]])

\* IT events say which fields follow and which are as they were last on the channel, or
\* nothing: then they are those of the channel's last mask. (A row has one event for a channel.)
Before(s, i) == {j \in 1..i : s[j].ch = s[i].ch}
ItMask(s, i) == LET given == {j \in Before(s, i) : s[j].given}
                IN  IF given = {} THEN {} ELSE s[Max(given)].mask
Unsaid == [note |-> 0, ins |-> 0, vol |-> NoVolume, cmd |-> 0, info |-> 0]
ItSource(s, i, fresh, again) ==
    LET said == {j \in Before(s, i) : fresh \in ItMask(s, j)}
    IN  IF {fresh, again} \cap ItMask(s, i) = {} THEN Unsaid
        ELSE IF said = {} THEN [Unsaid EXCEPT !.vol = 0] ELSE s[Max(said)]
ItNote(n) == CASE n \in {254, 255} -> Off [] n \in 1..119 -> Capped(TopNote, n) [] OTHER -> 0
ItCell(s, i) ==
    LET e == ItSource(s, i, 8, 128)
    IN  WithEffect([note |-> ItNote(ItSource(s, i, 1, 16).note), ins |-> ItSource(s, i, 2, 32).ins,
                    vol |-> VolumeOf(ItSource(s, i, 4, 64).vol)], ItEffect(e.cmd, e.info))
\* In instrument mode a cell names an instrument, and sounds with the sample of its C-5, or
\* of its first key that has one; a file none of whose instruments can be read has its cells
\* name samples all the same.
ItMapped(f) == IF f.useInstruments THEN {i \in DOMAIN f.instruments : f.instruments[i].there} ELSE {}
ItSampleOf(f, ins) ==
    LET named(id) == id \in 1..Len(f.samples)
        some == {n \in DOMAIN f.instruments[ins].keys : named(f.instruments[ins].keys[n])}
    IN  IF ins \notin ItMapped(f) THEN 0
        ELSE IF named(f.instruments[ins].c5) \/ some = {} THEN f.instruments[ins].c5
        ELSE f.instruments[ins].keys[Min(some)]
ItResolved(f, cell) ==
    IF ItMapped(f) = {} \/ cell.ins = 0 THEN cell ELSE [cell EXCEPT !.ins = ItSampleOf(f, cell.ins)]
ItRows(f, p, n, channels) ==
    [r \in 1..n |-> [c \in 1..channels |->
        IF EventsAt(f.streams[p], r, c) = {} THEN BlankCell
        ELSE ItResolved(f, ItCell(f.streams[p], Max(EventsAt(f.streams[p], r, c))))]]
ItSong(f) ==
    LET channels == ClampChannels(f.channels)
        blank == [r \in 1..PatternLength |-> [c \in 1..channels |-> BlankCell]]
    IN  TempoScan([kind |-> "song", channels |-> channels, speed |-> NonZero(f.speed, 6), bpm |-> NonZero(f.bpm, 125),
                   orders |-> Played(f.table), samples |-> FlatSamples(f.samples),
                   patterns |-> IF f.streams = <<>> THEN <<blank>>
                                ELSE [p \in DOMAIN f.streams |-> ItRows(f, p, f.lengths[p], channels)]])

----------------------------------------------------------------------------
(* XM: rows of packed cells; instruments with samples of their own.        *)

XmEffect(fx, param) ==
    CASE fx <= 15 -> Effect(fx, param)
      [] fx = 16 -> Effect(12, Capped(64, param))
      [] fx \in {17, 29} -> Effect(10, param)
      [] fx = 20 -> Effect(12, 0)
      [] fx = 25 -> Effect(8, param)
      [] fx = 27 -> Effect(14, 144 + (param % 16))
      [] fx = 33 /\ param \div 16 \in {1, 2} -> Effect(14, param)
      [] OTHER -> NoEffect
\* map_volume: a volume, or an effect where the cell has none of its own.
XmVolume(byte) == IF byte \in 16..80 THEN byte - 16 ELSE NoVolume
XmVolumeEffect(byte) ==
    CASE byte \div 16 = 6 -> Effect(10, byte % 16)
      [] byte \div 16 = 7 -> Effect(10, 16 * (byte % 16))
      [] byte \div 16 = 12 -> Effect(8, 17 * (byte % 16))
      [] byte \div 16 = 15 -> Effect(3, byte % 16)
      [] OTHER -> NoEffect
XmCell(raw) ==
    WithEffect([note |-> IF raw.note \in 1..Off THEN raw.note ELSE 0, ins |-> raw.ins, vol |-> XmVolume(raw.vol)],
               IF raw.fx # 0 \/ raw.param # 0 THEN XmEffect(raw.fx, raw.param) ELSE XmVolumeEffect(raw.vol))
XmRows(f, p) ==
    LET at(r, c) == (r - 1) * f.channels + c
        cells == f.streams[p]
    IN  [r \in 1..NonZero(f.lengths[p], 64) |-> [c \in 1..ClampChannels(f.channels) |->
            IF at(r, c) <= Len(cells) THEN XmCell(cells[at(r, c)]) ELSE BlankCell]]

\* One sample of an instrument: an empty one, and one cut short, has a place but no slot.
NoPlace(state, ins) == state
NoSlot(state, ins) == [state EXCEPT !.slots[ins] = Append(@, 0)]
XmTake(ins, state, k, sub) ==
    LET start == IF sub.looped THEN Capped(sub.frames, sub.loopStart) ELSE 0
        sample == [id |-> Len(state.samples) + 1, origin |-> <<ins, k>>, frames |-> sub.frames, start |-> start,
                   length |-> IF sub.looped THEN Capped(sub.frames - start, sub.loopLength) ELSE 0]
    IN  IF Len(state.samples) = SampleSlots THEN state
        ELSE IF sub.frames = 0 \/ ~sub.there THEN NoSlot(state, ins)
        ELSE [state EXCEPT !.samples = Append(@, sample), !.slots[ins] = Append(@, sample.id)]
XmInstruments(f) ==
    LET take(state, at) == XmTake(at[1], state, at[2], f.instruments[at[1]].samples[at[2]])
        places == FoldLeft(LAMBDA all, i : all \o [k \in DOMAIN f.instruments[i].samples |-> <<i, k>>], <<>>,
                           [i \in DOMAIN f.instruments |-> i])
    IN  FoldLeft(take, [samples |-> <<>>, slots |-> [i \in DOMAIN f.instruments |-> <<>>]], places)
\* A cell's instrument becomes the slot its note has there.
XmSlot(f, slots, cell) ==
    IF cell.ins \notin DOMAIN slots \/ slots[cell.ins] = <<>> THEN 0
    ELSE LET mine == slots[cell.ins]
             sub == IF cell.note \in 1..TopNote THEN f.instruments[cell.ins].keymap[cell.note] + 1 ELSE 1
         IN  IF sub \in DOMAIN mine THEN mine[sub] ELSE mine[1]
XmSong(f) ==
    LET played == XmInstruments(f)
        resolved(rows) == [r \in DOMAIN rows |-> [c \in DOMAIN rows[r] |->
                             [rows[r][c] EXCEPT !.ins = IF @ = 0 THEN 0 ELSE XmSlot(f, played.slots, rows[r][c])]]]
    IN  TempoScan([kind |-> "song", channels |-> ClampChannels(f.channels), speed |-> NonZero(f.speed, 6),
                   bpm |-> NonZero(f.bpm, 125), orders |-> OrDefault(f.table), samples |-> played.samples,
                   patterns |-> [p \in DOMAIN f.streams |-> resolved(XmRows(f, p))]])

----------------------------------------------------------------------------

\* ProjectSession::load_file: what cannot be read leaves the song as it was.
ImportModule ==
    /\ importedSong = NoSong /\ moduleFile.valid
    /\ importedSong' = CASE moduleFile.kind = "mod" -> ModSong(moduleFile)
                         [] moduleFile.kind = "s3m" -> S3mSong(moduleFile)
                         [] moduleFile.kind = "it" -> ItSong(moduleFile)
                         [] moduleFile.kind = "xm" -> XmSong(moduleFile)
    /\ UNCHANGED moduleFile
RefuseModule ==
    /\ importedSong = NoSong /\ ~moduleFile.valid
    /\ importedSong' = [kind |-> "refused"]
    /\ UNCHANGED moduleFile

ImportInit == moduleFile \in ModuleFiles /\ importedSong = NoSong
ImportNext == ImportModule \/ RefuseModule
ImportSpec == ImportInit /\ [][ImportNext]_importVars

----------------------------------------------------------------------------

CellOK(cell) ==
    /\ cell.note \in 0..Off /\ cell.ins \in 0..255 /\ cell.vol \in 0..64 \cup {NoVolume}
    /\ cell.fx \in 0..15 /\ cell.param \in 0..255

\* The cell of the file a cell of the song was read from.
XmSource(f, p, r, c) == f.streams[p][(r - 1) * f.channels + c]
XmNamed(f, raw) ==
    LET subs == f.instruments[raw.ins].samples
        k == IF raw.note \in 1..TopNote THEN f.instruments[raw.ins].keymap[raw.note] + 1 ELSE 1
    IN  <<raw.ins, IF k \in DOMAIN subs THEN k ELSE 1>>

\* Whatever the file, every cell of the song is one the engine knows how to play, the
\* samples have slots of their own, and no more than there are; and in an XM, whose
\* instruments become slots, a cell sounds with a sample of the instrument it named, the one
\* the keymap has for its note wherever that was imported, and loops lie inside their samples.
ImportSound ==
    importedSong.kind = "song" =>
        /\ \A p \in DOMAIN importedSong.patterns : \A r \in DOMAIN importedSong.patterns[p] :
              /\ Len(importedSong.patterns[p][r]) = importedSong.channels
              /\ \A c \in 1..importedSong.channels : CellOK(importedSong.patterns[p][r][c])
        /\ Len(importedSong.samples) <= SampleSlots
        /\ \A i, j \in DOMAIN importedSong.samples : importedSong.samples[i].id = importedSong.samples[j].id => i = j
        /\ importedSong.speed > 0 /\ importedSong.bpm > 0
        /\ moduleFile.kind = "xm" =>
              /\ \A i \in DOMAIN importedSong.samples :
                    importedSong.samples[i].start + importedSong.samples[i].length <= importedSong.samples[i].frames
              /\ \A p \in DOMAIN importedSong.patterns : \A r \in DOMAIN importedSong.patterns[p] :
                 \A c \in 1..importedSong.channels :
                    \A cell \in {importedSong.patterns[p][r][c]} :
                        (r - 1) * moduleFile.channels + c <= Len(moduleFile.streams[p]) =>
                        \A raw \in {XmSource(moduleFile, p, r, c)} :
                            raw.ins \in DOMAIN moduleFile.instruments =>
                            \A there \in {{s \in Range(importedSong.samples) : s.origin = XmNamed(moduleFile, raw)}} :
                                /\ there # {} => \E s \in there : cell.ins = s.id
                                /\ cell.ins # 0 => importedSong.samples[cell.ins].origin[1] = raw.ins
=============================================================================
