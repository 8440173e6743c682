------------------------------ MODULE MCProject ------------------------------
(***************************************************************************)
(* Small workspaces, songs and patches for the parts of the session the    *)
(* user works on. They share nothing the properties look at, and are       *)
(* checked next to each other: part says which of them a behaviour is of.  *)
(* "sound" is the song with its sample edits alone, longer.                *)
(***************************************************************************)
EXTENDS Workspace, LocalApi, GraphCompile, AppShell, Importers, PatternEditor, ProjectFile, TLC

CONSTANTS MaxMixedEdits,  \* bound: calls on a song when they are of every kind
          MaxSoundEdits,  \* and when they are of its sample alone
          MaxUserEdits    \* and of the user's between two requests

VARIABLE part

MCManifest ==
    "synth" :> [instrument |-> TRUE, ins |-> <<Port("in", 0, "audio")>>,
                outs |-> <<Port("out", 0, "audio")>>, params |-> << <<"cut", 0>> >>]
    @@ "clap" :> [instrument |-> FALSE, ins |-> <<Port("in", 0, "audio")>>,
                  outs |-> <<Port("main", 0, "audio")>>, params |-> <<>>]

Jack(node, jack) == [node |-> node, port |-> NoPort, jack |-> jack]
At(node, port) == [node |-> node, port |-> port, jack |-> -1]
Link(id, src, dst, srcKind, dstKind) ==
    [id |-> id, src |-> src, dst |-> dst, mode |-> "tap", srcKind |-> srcKind, dstKind |-> dstKind]

\* A file of the web program: jacks by their place, the bus's in each of its layouts, a
\* plugin that may be missing, a port the graph does not have.
WebFile ==
    [snapshot |->
        [instruments |-> <<[id |-> Master, plugin |-> "master-in", strip |-> 1, param |-> 0],
                           [id |-> <<"plg", 1>>, plugin |-> "synth", strip |-> 0, param |-> 1]>>,
         cables |-> <<Link(1, Jack(Bus, 2), Jack(<<"plg", 1>>, 1), "midi", "midi"),
                      Link(2, Jack(Bus, 0), Jack(Master, 0), NoKind, NoKind),
                      Link(2, Jack(Bus, 3), At(Bus, <<"thru", 0>>), "midi", "midi"),
                      Link(3, At(<<"plg", 1>>, <<"out", 0>>), Jack(Master, 4), "audio", "audio")>>],
     archives |-> {}, samples |-> <<[id |-> <<"plg", 1>>, sample |-> 1]>>,
     states |-> <<>>, externals |-> <<>>, slot |-> [node |-> NoNode, plugin |-> "synth"]]
MCFiles == {WebFile}

Plug == <<"plg", 1>>
MCWires == {<<End(Bus, <<"midi", 1>>), End(Plug, <<"midi-in", 0>>)>>,
            <<End(Bus, <<"vol", 1>>), End(Plug, <<"cut", 0>>)>>,
            <<End(Bus, <<"vol", 1>>), End(<<"sum", 1>>, <<"in", 0>>)>>,
            <<End(Plug, <<"out", 0>>), End(<<"sum", 1>>, <<"in", 0>>)>>,
            <<End(<<"sum", 1>>, <<"out", 0>>), End(Plug, <<"in", 0>>)>>,
            <<End(<<"clap", 1>>, <<"main", 0>>), End(Master, <<"main", 0>>)>>}

----------------------------------------------------------------------------

MCSongs == {[patterns |-> <<BlankRows(3), BlankRows(1)>>, fxs |-> <<3>>, orders |-> <<0, 1>>, speed |-> 3]}
MCCells == {[note |-> 2, ins |-> 1, vol |-> 0, fx |-> 0], [EmptyCell EXCEPT !.vol = 64, !.fx = 4]}

Given(commands) == [commands |-> commands, dryRun |-> FALSE, described |-> TRUE]
Cells(p, row, cells) ==
    [op |-> "setRange", p |-> p, row |-> row, channel |-> 1, width |-> 1, cells |-> cells]
On == [note |-> 1, ins |-> 1]
MCBatches ==
    {Given(<<Cells(0, 1, <<On, [vol |-> 9]>>), Cells(1, 1, <<On>>), [op |-> "setSpeed", value |-> 5]>>),
     Given(<<Cells(0, 3, <<On>>), [op |-> "resizePattern", p |-> 0, rows |-> 2], Cells(0, 2, <<On, On>>)>>),
     Given(<<Cells(0, 2, <<On>>), [op |-> "loadSampleFile"], [op |-> "setSampleMeta"]>>),
     Given(<<[op |-> "setSpeed", value |-> 1], Cells(1, 1, <<On>>), [op |-> "deletePattern", p |-> 0], Cells(1, 1, <<On>>)>>),
     Given(<<[op |-> "addSeqNote", p |-> 1, note |-> SeqNote(60, 2, 9, 0)],
             [op |-> "setOrderList", ids |-> <<1, 1>>], [op |-> "removeOrderAt", i |-> 1],
             [op |-> "createPattern", rows |-> 2]>>),
     Given(<<[op |-> "updateSeqNote", p |-> 1, i |-> 1, note |-> SeqNote(1, 0, 1, 1)], [op |-> "loadProject"],
             [op |-> "removeSeqNote", p |-> 1, i |-> 1]>>),
     [Given(<<[op |-> "setSpeed", value |-> 9]>>) EXCEPT !.dryRun = TRUE],
     [Given(<<>>) EXCEPT !.described = FALSE]}

\* A connection is as good as another: nothing but authed tells them apart.
ClientSymmetry == Permutations(ApiClients)

Cli == [load |-> "", save |-> "", export |-> FALSE, script |-> <<>>, frames |-> 0]
MCLines == {Cli, [Cli EXCEPT !.load = "tune", !.export = TRUE], [Cli EXCEPT !.load = "song", !.frames = 2],
            [Cli EXCEPT !.load = "song", !.script = <<"wait", "key", "quit">>],
            [Cli EXCEPT !.script = <<"key", "mistake">>, !.save = "song"]}

\* Files of the four formats: each with one cell, or a few events, of every kind there is, on
\* fewer channels than the file has, and with samples that are missing.
FileOf(kind, channels, table, samples) ==
    [valid |-> TRUE, kind |-> kind, channels |-> channels, table |-> table, speed |-> 0, bpm |-> 0, samples |-> samples]
Wave(frames) == [frames |-> frames, there |-> TRUE, looped |-> TRUE, loopStart |-> 1, loopEnd |-> 3, loopLength |-> 9]
Lost == [Wave(2) EXCEPT !.there = FALSE]
ModWave(bytes, there) == [bytes |-> bytes, there |-> there, loopStart |-> 2, loopLength |-> 4]
ModRaw == {[period |-> p, ins |-> 1, fx |-> 15, param |-> v] : p \in {0, 113, 430, 1000}, v \in {0, 31, 32}}
ModFiles == {FileOf("mod", 3, <<1, 0>>, <<ModWave(k - 1, TRUE), ModWave(4, k > 9)>>)
             @@ [length |-> k % 3, cells |-> [i \in 1..k |-> c]] : k \in {1, 8, 12}, c \in ModRaw}
S3mEvents == {[ch |-> 1, note |-> n, ins |-> i, vol |-> v, cmd |-> -1, info |-> 0] : n \in {-1, 0, 123, 254, 255}, i \in {-1, 3}, v \in {-1, 64, 65}}
             \cup {[ch |-> 2, note |-> 64, ins |-> 1, vol |-> -1, cmd |-> c, info |-> v] : c \in 0..26, v \in {0, 31, 255}}
S3mFiles == {FileOf("s3m", 3, <<254, 0>>, <<Lost, Wave(0), Wave(4), Wave(2), Wave(3)>>)
             @@ [streams |-> <<<<e, EndRow, [e EXCEPT !.ch = 3], EndRow, e, e>>>>] : e \in S3mEvents}
ItEvent(given, mask, value) ==
    [ch |-> 1, given |-> given, mask |-> mask, note |-> value, ins |-> value % 4, vol |-> value, cmd |-> value % 27, info |-> value]
Keys(c5, keys) == [there |-> TRUE, c5 |-> c5, keys |-> keys]
NoKeys == [Keys(0, <<>>) EXCEPT !.there = FALSE]
ItFiles == {FileOf("it", 40, <<255>>, <<Wave(4), Lost, Wave(3)>>)
            @@ [streams |-> <<<<ItEvent(TRUE, {1, 2, 4, 8}, v), EndRow, ItEvent(g, m, 60), EndRow, ItEvent(FALSE, {}, 7)>>, <<>>>>,
                lengths |-> <<3, 1>>, useInstruments |-> k # <<>>, instruments |-> k]
            : v \in 50..76 \cup {254}, g \in BOOLEAN, m \in {{1}, {16, 32}, {64, 128}},
              k \in {<<>>, <<NoKeys>>, <<Keys(0, <<9, 3>>), NoKeys, Keys(1, <<2>>)>>}}
Raw == [note |-> 0, ins |-> 0, vol |-> 0, fx |-> 0, param |-> 0]
XmRaw == {[Raw EXCEPT !.note = n, !.ins = i] : n \in {0, 1, 2, 3, 4, 97, 98}, i \in 0..4}
         \cup {[Raw EXCEPT !.vol = v, !.fx = x] : v \in {0, 16, 80, 111, 127, 144, 207, 255}, x \in {0, 4}}
         \cup {[Raw EXCEPT !.fx = x, !.param = v] : x \in 0..34, v \in {1, 31, 47, 255}}
XmFiles == {FileOf("xm", w, <<0>>, <<>>)
            @@ [streams |-> <<<<c>>, <<c, c, c, c>>>>, lengths |-> <<1, 2>>,
                instruments |-> <<[samples |-> <<Wave(0), Wave(4), Wave(1)>>, keymap |-> [n \in 1..TopNote |-> (n - 1) % 4]],
                                  [samples |-> <<>>, keymap |-> [n \in 1..TopNote |-> 0]],
                                  [samples |-> <<Wave(2), Wave(3)>>, keymap |-> [n \in 1..TopNote |-> n % 2]]>>]
            : c \in XmRaw, w \in {1, 3}}
MCModules == ModFiles \cup S3mFiles \cup ItFiles \cup XmFiles \cup {[valid |-> FALSE]}

\* Projects that have something of everything a file has a place for, between them.
Bare ==
    [rowsPer |-> 2, channels |-> 2, orders |-> <<0>>, patterns |-> <<[rows |-> <<<<<<1, 1, 0, 0>>, <<2, 3, 0, 1>>>>, <<<<0, 0, 0, 0>>>>>>, mark |-> 0]>>,
     samples |-> <<>>, strips |-> <<>>, fxs |-> <<<<NoFx, NoFx>>>>, table |-> <<>>, workspace |-> <<>>, plugins |-> <<>>, seqs |-> <<>>,
     colours |-> <<0, 0>>, overrides |-> <<>>, raw |-> <<>>, presets |-> <<>>, externals |-> <<>>, states |-> <<>>]
Music == [Bare EXCEPT
     !.orders = <<1, 0, 1>>,
     !.patterns = <<[rows |-> <<<<<<1, 3, 1, 0>>>>>>, mark |-> 4], [rows |-> <<<<>>, <<<<9, 0, 0, 0>>, <<8, 2, 1, 5>>>>>>, mark |-> 0]>>,
     !.samples = <<<<1, "ogg", 0, <<1, 2>>>>, <<3, "aif", 70000, <<>>>>>>,
     !.strips = <<<<1, 7, <<1, 2>>, <<<<2, 1, <<<<1, 9>>>>>>, <<3, 0, <<>>>>>>>>, <<2, 0, <<>>, <<>>>>>>,
     !.fxs = <<<<NoFx>>, <<<<1, 2, 3, 4>>, NoFx>>>>]
Banks == [Bare EXCEPT
     !.table = <<<<0, 2, <<>>, <<>>>>, <<1, 3, <<<<1, 1>>>>, <<2, 0, 2>>>>, <<2, 4, <<>>, <<1>>>>>>,
     !.workspace = <<6>>, !.plugins = <<<<1, <<3, 3>>>>, <<2, <<>>>>>>,
     !.seqs = <<<<<<>>, <<<<1, 1, <<<<60, 0, 3, 9>>>>>>>>>>>>, !.colours = <<0, 5>>]
Hosted == [Bare EXCEPT
     !.overrides = <<<<1, 1, 7, <<7, 7>>>>, <<2, 1, 7, <<7, 7>>>>, <<1, 2, 8, <<8>>>>>>, !.presets = <<3>>,
     !.externals = <<<<1, 0, <<5>>, <<<<1, 2>>>>, 0>>, <<2, 1, <<>>, <<>>, 1>>, <<3, 1, <<>>, <<>>, 1>>>>,
     !.states = <<<<1, <<<<1, 2>>>>, <<<<1, <<4>>>>>>>>, <<2, <<>>, <<>>>>>>]
NewerOverrides == [Bare EXCEPT !.raw = <<-7, 2, 9, 9>>, !.presets = <<1>>, !.states = Hosted.states]
LostBytes == [Bare EXCEPT !.raw = <<-7, 1, 1, 1, 2, 1, 5, 0, 2, 6, 1, 4>>, !.externals = Hosted.externals, !.states = Hosted.states]
MCDocuments == {Bare, Music, Banks, Hosted, NewerOverrides, LostBytes}

MCInit ==
    /\ part \in {"workspace", "song", "sound", "compile", "api", "shell", "import", "editor", "file"}
    /\ part = "compile" \/ (part # "compile" /\ edges = <<>>)
    /\ part = "workspace" \/ (part # "workspace" /\ registry = {} /\ installed = {} /\ running = FALSE)
    /\ part = "sound" \/ (part # "sound" /\ sample = NoSample)
    /\ WorkspaceInit /\ SongInit /\ CompileInit /\ ApiInit /\ ShellInit
    /\ EditorInit /\ FileInit /\ (part = "file" \/ document = Bare) /\ importedSong = NoSong /\ IF part = "import" THEN moduleFile \in ModuleFiles ELSE moduleFile = [valid |-> FALSE]

MCNext ==
    \/ part = "workspace" /\ WorkspaceNext /\ UNCHANGED <<part, songVars, compileVars, apiVars, shellVars, importVars, editorVars, fileVars>>
    \/ part = "song" /\ songEdits < MaxMixedEdits /\ SongNext /\ UNCHANGED <<part, workspaceVars, compileVars, apiVars, shellVars, importVars, editorVars, fileVars>>
    \/ part = "sound" /\ songEdits < MaxSoundEdits /\ SoundNext /\ UNCHANGED <<part, workspaceVars, compileVars, apiVars, shellVars, importVars, editorVars, fileVars>>
    \/ part = "compile" /\ CompileNext /\ UNCHANGED <<part, workspaceVars, songVars, apiVars, shellVars, importVars, editorVars, fileVars>>
    \/ part = "api" /\ ApiNext /\ (Quiet /\ songEdits # songEdits' => songEdits < MaxUserEdits)
       /\ UNCHANGED <<part, workspaceVars, compileVars, shellVars, importVars, editorVars, fileVars>>
    \/ part = "shell" /\ (frame < 4 \/ clicks < 1) /\ ShellNext /\ UNCHANGED <<part, workspaceVars, songVars, compileVars, apiVars, importVars, editorVars, fileVars>>
    \/ part = "import" /\ ImportNext /\ UNCHANGED <<part, workspaceVars, songVars, compileVars, apiVars, shellVars, editorVars, fileVars>>
    \/ part = "editor" /\ (inputs < 3 \/ songHistory.future # <<>>) /\ EditorNext /\ UNCHANGED <<part, workspaceVars, compileVars, apiVars, shellVars, importVars, fileVars>>
    \/ part = "file" /\ FileNext /\ UNCHANGED <<part, workspaceVars, songVars, compileVars, apiVars, shellVars, importVars, editorVars>>

MCSpec == MCInit /\ [][MCNext]_<<part, workspaceVars, songVars, compileVars, apiVars, shellVars, importVars, editorVars, fileVars>>

\* Types of all.
ProjectTypeOK == WorkspaceTypeOK /\ SongTypeOK /\ CompileTypeOK /\ ApiTypeOK /\ ShellTypeOK /\ RecentsSound /\ EditorTypeOK
=============================================================================
