----------------------------- MODULE ProjectFile -----------------------------
(***************************************************************************)
(* The project file: io/ftrk_writer, io/ftrk_reader, and what the session  *)
(* takes over from the reader (load_ftrk).                                 *)
(*                                                                         *)
(* A file is a sequence of fields, each a number: a string, a float or a   *)
(* run of bytes of no further interest is one field, a count or an offset  *)
(* what it counts in fields. It can be cut anywhere, for it is written     *)
(* over the one before. The fields whose number has a width in the file    *)
(* keep it: ByteLimit is that of a byte.                                   *)
(***************************************************************************)
EXTENDS Integers, Sequences, FiniteSets, SequencesExt, TLC

CONSTANTS Instruments,   \* instruments a cell can name (32)
          Bounds,        \* and bound tracks (8)
          Documents,     \* the projects
          OldVersions,   \* versions of the files of earlier programs
          MaxSaves       \* bound

ByteLimit == Instruments * Bounds
Version == 15
ASSUME FileAssumption ==
    Instruments \in Nat \ {0} /\ Bounds \in Nat \ {0} /\ OldVersions \subseteq 1..(Version - 1) /\ MaxSaves \in Nat

\* A project is a record of its parts; a thing in a part is the tuple of its own, a cell
\* <<note, ins, bound, fx>>, a sample <<id, format, stretch, data>>, a strip of the mixer
\* <<name, colour, sends, modules>>, an entry of the instrument table
\* <<kind, value, params, tracks>>, an override <<owner, slot, hash, bytes>>, an external
\* plugin <<id, kind, state, params, bridged>>, the state of an instance <<id, stages, chunks>>.
VARIABLES document,      \* the project of the session
          stored,        \* the file
          fileVersion, torn, origin, \* of which version it is, if it was cut, and of what project it is
          fileSaves
fileVars == <<document, stored, fileVersion, torn, origin, fileSaves>>

Unity == 10000           \* a stretch ratio of 1
WordTop == 65535
NoFx == <<>>             \* a row without an effect of the mixer
Byte(n) == n % ByteLimit
Joined(s) == FlattenSeq(s)
Run8(s) == <<Byte(Len(s))>> \o s
Run(s) == <<Len(s)>> \o s
List8(s) == <<Byte(Len(s))>> \o Joined(s)
List(s) == <<Len(s)>> \o Joined(s)
AtMost(n, top) == IF n > top THEN top ELSE n

----------------------------------------------------------------------------
(* write_ftrk. Magic numbers of the blocks, and the version that added     *)
(* each; the offset of the i-th is the i-th of the header.                 *)

FTRK == -1
Magics == <<-2, -3, -4, -5, -6, -7, -8, -9, -10>> \* FXMX INTB WPBR PLGB SEQB POVR PPRS XPLG XINS
Bndt == -11
Since == <<4, 5, 7, 8, 10, 12, 13, 14, 15>>

BlankField == <<0, 0, 0, 0>>
CellFields(v, c) == <<c[1], IF v >= 9 THEN (c[2] % Instruments) + Instruments * (c[3] % Bounds) ELSE c[2], c[4]>>
RowFields(v, channels, row) ==
    Joined([ch \in 1..channels |-> CellFields(v, IF ch \in DOMAIN row THEN row[ch] ELSE BlankField)])
PatternFields(v, channels, p) ==
    (IF v >= 6 THEN <<Len(p.rows), p.mark>> ELSE <<>>)
    \o Joined([r \in DOMAIN p.rows |-> RowFields(v, channels, p.rows[r])])
FormatCode(f) == CASE f = "ogg" -> 1 [] f = "mp3" -> 2 [] OTHER -> 0
SampleFields(s) == <<Byte(s[1]), FormatCode(s[2]), AtMost(s[3], WordTop), Len(s[4])>>
CoreOf(v, d) ==
    [i \in DOMAIN d.orders |-> Byte(d.orders[i])]
    \o Joined([p \in DOMAIN d.patterns |-> PatternFields(v, d.channels, d.patterns[p])])
    \o Joined([i \in DOMAIN d.samples |-> SampleFields(d.samples[i])])
    \o Joined([i \in DOMAIN d.samples |-> d.samples[i][4]])

ModuleFields(m) == <<m[1], m[2]>> \o List8(m[3])
StripFields(s) == <<s[1], s[2]>> \o Run8(s[3]) \o List8([m \in DOMAIN s[4] |-> ModuleFields(s[4][m])])
FxRowFields(cell) == IF cell = NoFx THEN <<0>> ELSE <<1>> \o cell
FxBlock(d) ==
    List8([i \in DOMAIN d.strips |-> StripFields(d.strips[i])])
    \o List8([p \in DOMAIN d.fxs |-> List([r \in DOMAIN d.fxs[p] |-> FxRowFields(d.fxs[p][r])])])

EntryFields(e) == <<e[1], e[2]>> \o (IF e[1] = 1 THEN List8(e[3]) ELSE <<>>)
TracksFields(v, table) == IF v < 9 THEN <<>> ELSE <<Bndt>> \o Joined([i \in DOMAIN table |-> Run8(table[i][4])])
TableBlock(v, d) == List8([i \in DOMAIN d.table |-> EntryFields(d.table[i])]) \o TracksFields(v, d.table)
PluginsBlock(d) == List([i \in DOMAIN d.plugins |-> <<d.plugins[i][1]>> \o Run(d.plugins[i][2])])

LayerFields(l) == <<l[1], l[2]>> \o List(l[3])
SeqFields(channels, lanes) ==
    Joined([ch \in 1..channels |->
        IF ch \in DOMAIN lanes THEN List8([i \in DOMAIN lanes[ch] |-> LayerFields(lanes[ch][i])]) ELSE <<0>>])
\* The colours of the channels that have one.
Coloured(d) == SelectSeq([ch \in 1..d.channels |-> <<ch - 1, d.colours[ch]>>], LAMBDA c : c[2] # 0)
SeqBlock(d) ==
    <<Len(d.seqs), d.channels>> \o Joined([i \in DOMAIN d.seqs |-> SeqFields(d.channels, d.seqs[i])])
    \o List8(Coloured(d))

\* The overrides by instance, in the order the instances first appear; the bytes of a hash
\* once, later only its name and a length of 0.
Firsts(s) == SelectSeq(s, LAMBDA i : \A j \in Range(s) : j[2] < i[2] => j[1] # i[1])
Owners(d) == Firsts([i \in DOMAIN d.overrides |-> <<d.overrides[i][1], i>>])
OfOwner(d, owner) == SelectSeq(d.overrides, LAMBDA o : o[1] = owner[1])
GroupsOf(d, owners) == [k \in DOMAIN owners |-> OfOwner(d, owners[k])]
Grouped(d) == Joined(GroupsOf(d, Owners(d)))
FirstOfHash(g, k, i) ==
    /\ \A m \in 1..(k - 1) : \A j \in DOMAIN g[m] : g[m][j][3] # g[k][i][3]
    /\ \A j \in 1..(i - 1) : g[k][j][3] # g[k][i][3]
OverrideFields(g, k, i) ==
    <<g[k][i][2], g[k][i][3]>> \o (IF FirstOfHash(g, k, i) THEN Run(g[k][i][4]) ELSE <<0>>)
GroupFields(g) ==
    List([k \in DOMAIN g |-> <<g[k][1][1]>> \o List([i \in DOMAIN g[k] |-> OverrideFields(g, k, i)])])
OverridesBlock(d) == <<1>> \o GroupFields(GroupsOf(d, Owners(d)))

\* The flags of bridging follow the records, if any is bridged.
ExternalFields(e) == <<e[1], e[2]>> \o Run(e[3]) \o List(e[4])
Flags(externals) ==
    IF \E i \in DOMAIN externals : externals[i][5] # 0 THEN [i \in DOMAIN externals |-> externals[i][5]] ELSE <<>>
ExternalsBlock(d) ==
    List([i \in DOMAIN d.externals |-> ExternalFields(d.externals[i])]) \o Flags(d.externals)
ChunkFields(c) == <<c[1]>> \o Run(c[2])
StateFields(s) == <<s[1]>> \o List(s[2]) \o List([i \in DOMAIN s[3] |-> ChunkFields(s[3][i])])
StatesBlock(d) == <<1>> \o List([i \in DOMAIN d.states |-> StateFields(d.states[i])])

\* A block of a version, if there is anything in it; for overrides also what an earlier
\* reader could not read.
BlockOf(v, i, piece, fields) == IF v < Since[i] \/ piece = <<>> THEN <<>> ELSE <<Magics[i]>> \o fields
Always == <<0>>
BlocksOf(v, d) ==
    <<BlockOf(v, 1, Always, FxBlock(d)), BlockOf(v, 2, d.table, TableBlock(v, d)),
      BlockOf(v, 3, d.workspace, d.workspace), BlockOf(v, 4, d.plugins, PluginsBlock(d)),
      BlockOf(v, 5, Always, SeqBlock(d)),
      IF d.overrides = <<>> /\ v >= Since[6] THEN d.raw ELSE BlockOf(v, 6, d.overrides, OverridesBlock(d)),
      BlockOf(v, 7, d.presets, <<1>> \o d.presets), BlockOf(v, 8, d.externals, ExternalsBlock(d)),
      BlockOf(v, 9, d.states, StatesBlock(d))>>
HeaderSize == 7 + Len(Since)
FileOfParts(v, d, core, blocks) ==
    <<FTRK, v, d.rowsPer, d.channels, Byte(Len(d.patterns)), Len(d.orders), Byte(Len(d.samples))>>
    \o [i \in DOMAIN blocks |-> IF blocks[i] = <<>> THEN 0
                                ELSE HeaderSize + Len(core) + Len(Joined(SubSeq(blocks, 1, i - 1))) + 1]
    \o core \o Joined(blocks)
\* The file of a version: the writer's own is Version; of the others, what the reader takes them for.
WriteFtrk(v, d) == FileOfParts(v, d, CoreOf(v, d), BlocksOf(v, d))

----------------------------------------------------------------------------
(* read_ftrk. A cursor reads fields, and lists of things that are the      *)
(* tuples of theirs, up to the end of the file; past it, it fails, and     *)
(* what it has read of a list is still there.                              *)

CursorAt(bytes, at, v) == [file |-> bytes, at |-> at, version |-> v, ok |-> at <= Len(bytes) + 1, vals |-> <<>>, list |-> <<>>]
Pushed(c, value) == [c EXCEPT !.vals = Append(@, value)]
Has(c, k) == c.ok /\ c.at + k - 1 <= Len(c.file)
Fields(c, k) ==
    IF Has(c, k) THEN [c EXCEPT !.at = @ + k, !.vals = @ \o SubSeq(c.file, c.at, c.at + k - 1)]
    ELSE [c EXCEPT !.ok = FALSE, !.vals = @ \o [i \in 1..k |-> 0]]
RunOf(c, k) ==
    IF Has(c, k) THEN [Pushed(c, SubSeq(c.file, c.at, c.at + k - 1)) EXCEPT !.at = @ + k]
    ELSE [Pushed(c, <<>>) EXCEPT !.ok = FALSE]
Anew(c) == [c EXCEPT !.vals = <<>>]
Only(c) == [c EXCEPT !.vals = @[1]]
Collected(list, c) == [c EXCEPT !.list = IF c.ok THEN Append(list, c.vals) ELSE list]
Listing(c, end) == [Pushed([end EXCEPT !.vals = c.vals], end.list) EXCEPT !.list = c.list]
Gathered(list, c) == [c EXCEPT !.list = Append(list, c.vals)]
TimesBy(c, n, Item(_), Take(_, _)) ==
    Listing(c, FoldLeft(LAMBDA x, i : Take(x.list, Item(Anew(x))), [c EXCEPT !.list = <<>>], [i \in 1..n |-> i]))
Times(c, n, Item(_)) == TimesBy(c, n, Item, Collected)
\* As many as the last field says, which goes; and the same with what the thing that fails
\* had of its own list.
AsMany(c, Item(_)) == Times([c EXCEPT !.vals = Front(@)], Last(c.vals), Item)
AsManyCut(c, Item(_)) == TimesBy([c EXCEPT !.vals = Front(@)], Last(c.vals), Item, Gathered)
ListOf(c, Item(_)) == AsMany(Fields(c, 1), Item)
RunAs(c) == RunOf([c EXCEPT !.vals = Front(@)], Last(c.vals))
CountedRun(c) == RunAs(Fields(c, 1))
Two(c) == Fields(c, 2)
Four(c) == Fields(c, 4)

CellOf(v, f) ==
    <<f[1], IF v >= 9 THEN f[2] % Instruments ELSE f[2], IF v >= 9 THEN (f[2] \div Instruments) % Bounds ELSE 0, f[3]>>
AsCell(c) == [c EXCEPT !.vals = CellOf(c.version, @)]
ReadCell(c) == AsCell(Fields(c, 3))
ReadRow(c, channels) == Only(Times(c, channels, ReadCell))
AsPattern(c) == [c EXCEPT !.vals = [rows |-> @[2], mark |-> @[1]]]
\* The number of rows comes before the mark.
ReadRows(c, channels) ==
    AsPattern(Times([c EXCEPT !.vals = <<@[2]>>], c.vals[1], LAMBDA x : ReadRow(x, channels)))
ReadPattern(c, rowsPer, channels) ==
    ReadRows(IF c.version >= 6 THEN Fields(c, 2) ELSE [c EXCEPT !.vals = <<rowsPer, 0>>], channels)
FormatOf(code) == CASE code = 1 -> "ogg" [] code = 2 -> "mp3" [] OTHER -> "wav"
SampleOf(v, f) == <<f[1], FormatOf(f[2]), IF f[3] = 0 \/ v < 2 THEN Unity ELSE f[3], f[4]>>
AsSample(c) == [c EXCEPT !.vals = SampleOf(c.version, @)]
ReadSample(c) == AsSample(Fields(c, 4))
\* Their data follows all of them, as long as each says.
ReadData(c) ==
    Listing(c, FoldLeft(LAMBDA x, s : Collected(x.list, Only(RunOf(Anew(x), s[4]))), [c EXCEPT !.list = <<>>], c.vals[3]))
\* Orders, patterns, samples, the data of the samples.
ReadCore(c, g) ==
    ReadData(Times(Times(RunOf(c, g[6]), g[5], LAMBDA x : ReadPattern(x, g[3], g[4])), g[7], ReadSample))

\* A block is what its cursor has read; if that is ok, all of it.
ReadModule(c) == ListOf(Two(c), Two)
ReadStrip(c) == ListOf(CountedRun(Two(c)), ReadModule)
FxRowAs(c) == IF c.ok /\ c.vals[1] # 0 THEN Four(Anew(c)) ELSE Anew(c)
ReadFxRow(c) == FxRowAs(Fields(c, 1))
ReadFxPattern(c) == Only(ListOf(c, ReadFxRow))
Padded(c, count, rowsPer) ==
    [c EXCEPT !.vals[2] = IF c.ok THEN @ \o [i \in 1..(count - Len(@)) |-> [r \in 1..rowsPer |-> NoFx]] ELSE @]
ParseFx(c, count, rowsPer) == Padded(ListOf(ListOf(c, ReadStrip), ReadFxPattern), count, rowsPer)

EntryAs(c) == IF c.ok /\ c.vals[1] = 1 THEN ListOf(c, Two) ELSE Pushed(c, <<>>)
ReadEntry(c) == EntryAs(Two(c))
InOrder(c) == [c EXCEPT !.vals = SetToSortSeq(Range(@[1]), <)]
ReadTracks(c) == InOrder(CountedRun(c))
WithTracks(entries, tracks) ==
    [i \in DOMAIN entries |-> Append(entries[i], IF i \in DOMAIN tracks THEN tracks[i] ELSE <<>>)]
TracksAs(c) == [c EXCEPT !.vals = <<WithTracks(@[1], @[3])>>]
TableAs(c) ==
    TracksAs(IF c.version >= 9 THEN Times(Fields(c, 1), Len(c.vals[1]), ReadTracks) ELSE Pushed(Pushed(c, 0), <<>>))
ParseTable(c) == TableAs(ListOf(c, ReadEntry))
ReadPlugin(c) == CountedRun(Fields(c, 1))

ReadLayer(c) == ListOf(Two(c), Four)
ReadLane(c) == Only(ListOf(c, ReadLayer))
ReadLanes(c, channels) == Only(Times(c, channels, ReadLane))
ColoursAs(c) == IF c.ok /\ c.at <= Len(c.file) THEN ListOf(c, Two) ELSE Pushed(c, <<>>)
SeqsAs(c) == Times(Anew(c), c.vals[1], LAMBDA x : ReadLanes(x, c.vals[2]))
ParseSeqs(c) == ColoursAs(SeqsAs(Two(c)))

\* All of the overrides or none; a block of another version, or one that names bytes it has
\* not carried so far, be it cut behind that or not, is kept as it is, to the next block that
\* may follow it.
ReadOverride(c) == CountedRun(Two(c))
OwnerAs(c) == [c EXCEPT !.vals = [i \in DOMAIN @[2] |-> <<@[1]>> \o @[2][i]]]
ReadOwner(c) == OwnerAs(ListOf(Fields(c, 1), ReadOverride))
Carried(g, i) == g[i][4] # <<>> \/ \E j \in 1..(i - 1) : g[j][3] = g[i][3] /\ g[j][4] # <<>>
BytesOf(g, i) == IF g[i][4] # <<>> THEN g[i][4] ELSE g[Min({j \in 1..i : g[j][3] = g[i][3]})][4]
\* Mutant: a slot whose bytes an earlier slot carried stays empty.
NotExpanded(g) == g
Expanded(g) == [i \in DOMAIN g |-> [g[i] EXCEPT ![4] = BytesOf(g, i)]]
KeptRaw(c, from, end) == [c EXCEPT !.ok = FALSE, !.vals = <<<<>>, SubSeq(c.file, from, end - 1)>>]
OverridesAs(c, g, from, end) ==
    IF \E i \in DOMAIN g : ~Carried(g, i) THEN KeptRaw(c, from, end)
    ELSE [c EXCEPT !.vals = <<IF c.ok THEN Expanded(g) ELSE <<>>, <<>>>>]
OverridesOf(c, from, end) == OverridesAs(c, Joined(c.vals[2]), from, end)
OverridesFrom(c, from, end) ==
    IF c.ok /\ c.vals[1] # 1 THEN KeptRaw(c, from, end) ELSE OverridesOf(AsManyCut(Fields(c, 1), ReadOwner), from, end)
ParseOverrides(c, from, end) == OverridesFrom(Fields(c, 1), from, end)

OfVersion1(c) == IF c.ok /\ c.vals[1] = 1 THEN Anew(c) ELSE [Anew(c) EXCEPT !.ok = FALSE]
ParsePresets(c) == RunOf(OfVersion1(Fields(c, 1)), 1)
ReadExternal(c) == ListOf(CountedRun(Two(c)), Two)
Flagged(c, i, end) == IF c.ok /\ c.at + i - 1 < end THEN c.file[c.at + i - 1] ELSE 0
ExternalsAs(c, end) == [c EXCEPT !.vals = <<[i \in DOMAIN @[1] |-> Append(@[1][i], Flagged(c, i, end))]>>]
ParseExternals(c, end) == ExternalsAs(ListOf(c, ReadExternal), end)
ReadState(c) == ListOf(ListOf(Fields(c, 1), Two), ReadPlugin)
WholeOnly(c) == IF c.ok THEN c ELSE [c EXCEPT !.vals = <<<<>>>>]
ParseStates(c) == WholeOnly(ListOf(OfVersion1(Fields(c, 1)), ReadState))

----------------------------------------------------------------------------
(* The whole file: the core or nothing, then each block whose offset is    *)
(* inside the file, on its own; and what load_ftrk makes of it.            *)

Offset(g, i) == IF g[2] >= Since[i] THEN g[7 + i] ELSE 0
InFile(bytes, g, i) == Offset(g, i) \in DOMAIN bytes
EndOfBlock(bytes, g, i, followers) ==
    Min({Len(bytes) + 1} \cup {Offset(g, k) : k \in {k \in followers : Offset(g, k) > Offset(g, i)}})
ParseAt(bytes, g, i, c) ==
    CASE i = 1 -> ParseFx(c, g[5], g[3])
      [] i = 2 -> ParseTable(c)
      [] i = 3 -> RunOf(c, 1)
      [] i = 4 -> ListOf(c, ReadPlugin)
      [] i = 5 -> ParseSeqs(c)
      [] i = 6 -> ParseOverrides(c, Offset(g, 6), EndOfBlock(bytes, g, 6, {7, 8}))
      [] i = 7 -> ParsePresets(c)
      [] i = 8 -> ParseExternals(c, EndOfBlock(bytes, g, 8, {9}))
      [] OTHER -> ParseStates(c)
Skipped == [ok |-> FALSE, vals |-> <<<<>>, <<>>>>]
Parsed(bytes, g, i) ==
    IF InFile(bytes, g, i) /\ bytes[Offset(g, i)] = Magics[i]
    THEN ParseAt(bytes, g, i, CursorAt(bytes, Offset(g, i) + 1, g[2])) ELSE Skipped

ColoursOf(channels, pairs) ==
    [ch \in 1..channels |-> FoldLeft(LAMBDA old, p : IF p[1] = ch - 1 THEN p[2] ELSE old, 0, pairs)]
DocumentOf(g, core, b) ==
    [rowsPer |-> g[3], channels |-> g[4], orders |-> core[1], patterns |-> core[2],
     samples |-> [i \in DOMAIN core[3] |-> [core[3][i] EXCEPT ![4] = core[4][i]]],
     strips |-> b[1].vals[1], fxs |-> b[1].vals[2], table |-> b[2].vals[1], workspace |-> b[3].vals[1],
     plugins |-> b[4].vals[1], seqs |-> b[5].vals[1], colours |-> ColoursOf(g[4], b[5].vals[2]),
     overrides |-> b[6].vals[1], raw |-> b[6].vals[2], presets |-> b[7].vals[1],
     externals |-> b[8].vals[1], states |-> b[9].vals[1]]
ReadResult(bytes, g, core, b) ==
    [ok |-> TRUE, document |-> DocumentOf(g, core, b), reported |-> {i \in DOMAIN b : InFile(bytes, g, i) /\ ~b[i].ok}]
Refused == [ok |-> FALSE]
ReadBlocks(c, g) ==
    IF c.ok THEN ReadResult(c.file, g, c.vals, [i \in DOMAIN Since |-> Parsed(c.file, g, i)]) ELSE Refused
ReadHeader(c) ==
    IF ~c.ok \/ c.vals[1] # FTRK \/ c.vals[2] \notin 1..Version THEN Refused
    ELSE ReadBlocks(ReadCore([Anew(c) EXCEPT !.version = c.vals[2]], c.vals), c.vals)
ReadFtrk(bytes) == ReadHeader(Fields(CursorAt(bytes, 1, 0), HeaderSize))

----------------------------------------------------------------------------
(* The session: saves, a save that is cut short, files of older programs.     *)

\* The limits of the format: counts that fit their field, and rows of the length an old
\* version has for all.
Fits(v, d) ==
    /\ Len(d.patterns) < ByteLimit /\ Len(d.samples) < ByteLimit
    /\ \A p \in Range(d.patterns) :
        /\ v < 6 => Len(p.rows) = d.rowsPer
        /\ \A row \in Range(p.rows) : \A c \in Range(row) : v >= 9 => c[2] < Instruments /\ c[3] < Bounds

FileInit ==
    /\ document \in Documents /\ origin = document
    /\ stored = <<>> /\ fileVersion = Version /\ torn = FALSE /\ fileSaves = 0

SaveProject ==
    /\ fileSaves < MaxSaves
    /\ stored' = WriteFtrk(Version, document)
    /\ origin' = document /\ fileVersion' = Version /\ torn' = FALSE /\ fileSaves' = fileSaves + 1
    /\ UNCHANGED document

\* The disk is full, or the program ends, within the write. Bound: of the first save.
SaveIsCut ==
    /\ fileSaves = 0
    /\ \E bytes \in {WriteFtrk(Version, document)} : \E n \in 0..(Len(bytes) - 1) : stored' = SubSeq(bytes, 1, n)
    /\ origin' = document /\ fileVersion' = Version /\ torn' = TRUE /\ fileSaves' = 1
    /\ UNCHANGED document

FileOfOlderProgram ==
    /\ fileSaves = 0
    /\ \E v \in OldVersions : Fits(v, document) /\ stored' = WriteFtrk(v, document) /\ fileVersion' = v
    /\ torn' = FALSE /\ origin' = document /\ fileSaves' = 1
    /\ UNCHANGED document

\* A file that is refused leaves the session as it was.
OpenProject ==
    /\ stored # <<>>
    /\ \E r \in {ReadFtrk(stored)} : r.ok /\ document' = r.document
    /\ UNCHANGED <<stored, fileVersion, torn, origin, fileSaves>>

FileNext == SaveProject \/ SaveIsCut \/ FileOfOlderProgram \/ OpenProject

----------------------------------------------------------------------------
(* Properties.                                                             *)

\* What a file of a version is for: the project without what it has no place for, rows padded
\* to the channels, bound tracks in order, overrides by instance.
KeptCell(v, c) == IF v >= 9 THEN c ELSE [c EXCEPT ![3] = 0]
KeptRow(v, channels, row) == [ch \in 1..channels |-> KeptCell(v, IF ch \in DOMAIN row THEN row[ch] ELSE BlankField)]
KeptPattern(v, channels, p) ==
    [rows |-> [r \in DOMAIN p.rows |-> KeptRow(v, channels, p.rows[r])], mark |-> IF v >= 6 THEN p.mark ELSE 0]
KeptLanes(channels, lanes) == [ch \in 1..channels |-> IF ch \in DOMAIN lanes THEN lanes[ch] ELSE <<>>]
KeptSample(v, s) ==
    [s EXCEPT ![2] = IF @ \in {"ogg", "mp3"} THEN @ ELSE "wav",
              ![3] = IF v < 2 \/ @ = 0 THEN Unity ELSE AtMost(@, WordTop)]
KeptEntry(v, e) == [e EXCEPT ![4] = IF v >= 9 THEN SetToSortSeq(Range(@), <) ELSE <<>>]
KeptFx(d) == d.fxs \o [i \in 1..(Len(d.patterns) - Len(d.fxs)) |-> [r \in 1..d.rowsPer |-> NoFx]]
IfSince(v, i, piece) == IF v >= Since[i] THEN piece ELSE <<>>
Kept(v, d) ==
    [d EXCEPT !.patterns = [p \in DOMAIN @ |-> KeptPattern(v, d.channels, @[p])],
              !.samples = [i \in DOMAIN @ |-> KeptSample(v, @[i])],
              !.strips = IfSince(v, 1, @), !.fxs = IfSince(v, 1, KeptFx(d)),
              !.table = IfSince(v, 2, [i \in DOMAIN @ |-> KeptEntry(v, @[i])]),
              !.workspace = IfSince(v, 3, @), !.plugins = IfSince(v, 4, @),
              !.seqs = IfSince(v, 5, [i \in DOMAIN @ |-> KeptLanes(d.channels, @[i])]),
              !.colours = IF v >= Since[5] THEN @ ELSE [ch \in DOMAIN @ |-> 0],
              !.overrides = IfSince(v, 6, Grouped(d)), !.raw = IF d.overrides = <<>> THEN IfSince(v, 6, @) ELSE <<>>,
              !.presets = IfSince(v, 7, @), !.externals = IfSince(v, 8, @), !.states = IfSince(v, 9, @)]

\* The end of a block that is carried is known from what follows it, XINS not counted.
RawHasEnd(d) == d.raw = <<>> \/ d.presets # <<>> \/ d.externals # <<>> \/ d.states = <<>>
PartsOfBlock(i) ==
    CASE i = 1 -> {"strips", "fxs"} [] i = 2 -> {"table"} [] i = 3 -> {"workspace"} [] i = 4 -> {"plugins"}
      [] i = 5 -> {"seqs"} [] i = 6 -> {"overrides", "raw"} [] i = 7 -> {"presets"} [] i = 8 -> {} [] OTHER -> {"states"}
Firstly(things, k) == [i \in DOMAIN things |-> SubSeq(things[i], 1, k)]
SalvagedOf(d, whole) ==
    /\ \A piece \in {"rowsPer", "channels", "orders", "patterns", "samples"} : d[piece] = whole[piece]
    /\ \A piece \in {"strips", "fxs", "plugins", "seqs", "raw"} : IsPrefix(d[piece], whole[piece])
    /\ \A piece \in {"workspace", "overrides", "presets", "states"} : d[piece] \in {<<>>, whole[piece]}
    /\ IsPrefix(Firstly(d.table, 3), Firstly(whole.table, 3)) /\ IsPrefix(Firstly(d.externals, 4), Firstly(whole.externals, 4))
    /\ \A i \in DOMAIN d.table : d.table[i][4] \in {<<>>, whole.table[i][4]}
    /\ \A i \in DOMAIN d.externals : d.externals[i][5] \in {0, whole.externals[i][5]}
    /\ \A ch \in DOMAIN d.colours : d.colours[ch] \in {0, whole.colours[ch]}

\* A project file gives back the project, all of it that its version has a place for, and an
\* override whose bytes are stored once has them in every slot; written again it stays what it
\* was. A file that is cut anywhere is refused or gives the whole core, of each block no more
\* than was in it, and the overrides and the states of instances all or none; and what is
\* missing of a block that is in the file is reported.
FileKeepsProject ==
    stored # <<>> /\ Fits(fileVersion, origin) /\ RawHasEnd(origin) =>
        \A r \in {ReadFtrk(stored)}, whole \in {Kept(fileVersion, origin)} :
            IF ~torn THEN r.ok /\ r.document = whole
            ELSE r.ok => /\ SalvagedOf(r.document, whole)
                         /\ \A i \in DOMAIN Since : stored[7 + i] \in DOMAIN stored =>
                                i \in r.reported \/ \A piece \in PartsOfBlock(i) : r.document[piece] = whole[piece]
=============================================================================
