# nanotracker: verification project

TLA+ models of nanotracker, a desktop music tracker in C++, checked with TLC and, for
what its threads share, what plays, the song and its undo history, the API's server, the
autosaves and the graph compiler, proved with TLAPS. The models are translated from `src/src/`; every definition
that stands for code is tied to its lines in `PROJECT.json` ("map"). Paths below are
relative to `src/src/`.

    tlc -workers 2 -config Threads.cfg MCThreads     one of the runs of section 3
    tlapm ThreadProofs.tla                            one of the proofs of section 6

## 1. The system

One process, with these threads of control:

- the **UI thread**: the frame loop of `app/main.cpp`. It runs the views, every
  handler of `ProjectSession`, `UndoStack`, `Autosave`, the reclaimer's sweep and
  the local API's requests, one at a time;
- the **audio thread**: the device calls `AudioEngine::render` (a *pull*). A pull
  drains the command ring, renders in blocks of 128 frames, then publishes one
  snapshot. It must not block, allocate or free;
- the **MIDI output thread** (`midi/midi_out_thread.cpp`), polling every
  millisecond, and RtMidi's input callbacks;
- the **local API's** accept and connection threads, which queue requests for the
  frame loop;
- one **child process** per bridged plugin (`ext/bridge`), with a render thread and
  a control thread, connected by shared memory and a socket.

| component | state | operations | talks to | hard part | correct when |
|---|---|---|---|---|---|
| `rt/spsc_queue.h` | ring, two counters | push, pop | UI to audio (commands), audio to MIDI | two threads on one array, wraparound | a bounded FIFO; no cell is used by both sides |
| `rt/triple_buffer.h` | three slots, three indices, one flag | publish, read | audio to UI and MIDI (snapshots) | exchange of a packed word | no torn read, no older read, nothing unseen |
| `audio/sample_reclaim` | staged and retired objects, disarmed | retire, stage, commit, sweep | session; engine through serials | freeing what another thread reads by raw pointer | nothing is freed while the engine or a command can reach it; everything is freed in the end |
| `audio/audio_engine` | bundle, voices of four kinds, transport, held notes | 20 commands, tick, render, snapshot | session (commands), graph runner, MIDI ring | commands take effect later than they are sent | notes started are ended, bounds are honoured |
| `engine/tracker_engine` | play state | advance_tick | engine, export | breaks, jumps, loops and delays together | the position is always in the song |
| `app/project_session` | project, buffers, nodes, bridged bindings, preview, live bundle, serial | about 100 handlers | all of the above | each handler publishes, stages, forgets history in the right order | what it publishes and what it owns agree |
| `app/undo` | two stacks, groups, scratch | push, commit, undo, redo, group | session | two limits, groups, edits that clear | undo finds what its edit left |
| `graph/*` | nodes, cables, schedule | add, remove, adopt, compile | session, engine | cycles, missing plugins, stale plans | the schedule orders every cable; what is saved comes back |
| `plugins/ntp_*` | instance graph, voices, overrides | load, notes, render, override | engine, session | session and audio thread share an instance | voices play live buffers; what is let go falls silent |
| `ext/bridge` | two rings and a control block in shared memory, child, latch | process_block, poll, restart | graph runner, session, child | a child that stalls, dies and restarts | no stale block is played; a live child is heard; a dead one is bypassed |
| `midi/midi_out_thread` | pending set, clock | queue, send | engine snapshot, ports | timestamps against an estimated clock | each message once, no clock to a stopped slave |
| `app/midi_record`, `ui/pattern_view` | cursor, selection, held notes, step | keys, mouse, note on, note off | session, snapshot | the snapshot is older than the song | what is read and written is there |
| `api/local_api` | clients, queue, batch | accept, frame, pump, apply | session | bounded queue across threads, batches | each request answered once, a batch is one undo |
| `app/main`, `app/autosave` | files, lock, slots | launch, frame, save, recover, exit | files | a crash in a save | the last good autosave survives |
| `io/ftrk_*` | a file | write, read | session | fifteen versions, files cut short | a file gives the project back |
| `io/import/*` | a foreign file | import | session | counts, masks and maps out of range | the song is one the engine can play |
| `audio/graph_runner`, `fx_chain`, `dsp`, `io/export_*`, plugin hosts, other views, `platform/*` | samples, windows, foreign objects | | | | section 9 |

## 2. What is modelled

Each module says in its header what it abstracts. The size of a module is well
under that of the code it stands for, because data is kept only as far as a property
tells it apart.

### Between the threads

**`ReclaimFence`**: deferred reclamation, the core. The engine reads buffers, bundles,
racks, runners and bridged bindings through raw pointers that the session owns. A
command that unlinks objects carries a serial; the engine records it when it applies
the command and publishes it at the end of the pull; what was retired at serial S is
freed once a snapshot reports at least S.

- Session: `slot` is `buffers_`, `override` the instances' override pointers,
  `nodes`/`registry` the instances with and without a node, `bridged` is
  `bridged_by_node_`, `preview` is `preview_buffer_`, `live` is `live_bundle_`
  with its rack and runner, `serial` is `publish_serial_`, `past`/`future` the undo
  and redo stacks (as the buffers their closures alias), `loading` the progress of
  `load_ftrk`, which publishes several times.
- Reclaimer: `staged`, `entries`, `disarmed`.
- Channel: `outbox` holds what the running handler has still to send, since a pull
  can drain between two sends of one handler; `queue` is `commands_`; `dropped` says
  that `dropped_commands_` is not 0.
- Engine: `pc` is the place in the pull, `bundle`, `applied` (`bundle_serial_`),
  `playing`, the buffers that the voices of the four kinds hold, and `snap`.

Each handler is one action up to its sends; `Send` moves one command and loses it
when the queue is full. A pull is `StartPull`, one `Apply*` per command, `EndDrain`,
any number of render steps (triggers, voices ending, the transport parking),
`EndPull`. `Sweep(seen)` sees any serial the engine has published, however old: a
weaker assumption than the snapshot buffer gives. An object is *owned* while a table,
the live bundle, the reclaimer or an undo closure holds it (these are `shared_ptr`s
or `unique_ptr`s); anything else has been destroyed. A bundle and its runner are one
object, made and retired together. Undo groups are left out: a group commits one
entry that aliases what its parts do.

**`SpscQueue`, `BoundedFifo`**: the ring at the grain of its atomic operations. A cell
is copied in two steps, so that a collision is visible as a torn value; the counters
are finite and start anywhere, so a behaviour crosses the wraparound. `BoundedFifo`
is what the ring promises, `ImplementsFifo` the refinement.

**`TripleBuffer`**: the writer fills its slot and exchanges it; a reader looks at the
flag, exchanges, stores its new index, and uses the reference it returned. `Readers`
is a parameter: the code has two.

**`LiveMutation`**: the project and the module player are changed in place and are not
fenced. `ui` is the place in the handler (stop, mutate, publish; detach, load,
attach; the instrument table's edit, which stops nothing). `OneStalePull` says how far
the engine lags behind the "stop first" contract.

**`Bridge`**: the audio thread (`apc` is its place in `process_block`), the child's
render thread (`cpc`), the session's reaper and restart (`spc`) and the shared
memory, every access to it a step: a counter is loaded and stored in two. A block is
the generation of the child and its number in the stream. `contended` records that a
restart reset the memory while a block was under way, which nothing in the code
excludes but the time between a crash and a click; the properties except it, and
section 9 says what happens then.

### What plays

**`Tracker`, `Playback`**: `advance_tick` as an operator from play state to play state
(rows, the instrument a note takes from its channel's bindings, effects, sequence layers,
breaks, jumps, loops, delays, cuts), and the engine
around it: commands, transport with and without a bound, ticks, the notes they start
and end on MIDI lanes, in plugin instances and in layered voices. `lane`, `forgotten`
and `sounding` record what is heard, which the code does not store; the properties
compare them with what the engine remembers.

**`MidiOut`**: one pass of the MIDI thread per action: snapshot, queue, pending set,
sending by the estimated clock, the slave's clock.

**`NtpLoader`, `NtpInstance`**: which archives are accepted and what is made of them,
then an instance: its wiring, its pool of voices, the voices of its samplers,
envelopes, overrides, knobs, notes and resets.

### What is edited

**`UndoHistory`**: the undo stack as operators on a record (two limits, groups, scratch
edits, redo), used by every module that edits.

**`SequenceOps`, `SongEdits`**: the transforms of a layer's notes, and the session's
edits of patterns, orders, layers, cells and blocks of them, samples and the FX rack.
`born` remembers which pattern an automation or a layer was made for; it is not state
of the code, and is there to tell a right index from one that happens to exist.

**`PatternEditor`**: a frame of the pattern window on a snapshot that may be older than
the song: keys, mouse, order list, panel, history list, MIDI entry and recording.
`misread` records a read past the end of an array, after which nothing is claimed.

**`LocalApi`**: connections and their frames on their own threads, the bounded queue,
the swap at the start of the pump, batches validated as a whole and applied command
by command in one undo group.

**`Workspace`**: nodes, cables, reserved ids, plugins that may be missing on this
machine (and so dormant or pending), undo of all that, saving to a project file and
loading it again, here or on a machine with other plugins. `Lists` has what it uses of
vectors and maps (`std::erase_if`, assignment, a walk) in a form the provers can expand. In
which order a map is walked is left to the choice of `Walk`; no property depends on it.

**`GraphCompile`**: `compile_graph` a turn of its loop at a time.

**`AppShell`**: the program from command line to exit and again: lock file, recovery,
autosave slots, menus, scripts, recent projects. A save is two steps, truncation and
completion, with a crash possible between them.

**`ProjectFile`**: every block of every version, written and read back field by field,
and the file cut at every field. **`Importers`**: MOD, S3M, XM and IT files, read as
the code reads them, to a song or a refusal.

### How they compose

`PatternEditor` and `LocalApi` extend `SongEdits`, and edit its song through its
actions and its history; `Workspace` and `SongEdits` extend `UndoHistory`; `NtpInstance`
extends `NtpLoader`; `Playback` extends `Tracker`. `ReclaimFence` is itself a
composition of session, reclaimer, channel and engine. `MCThreads`, `MCPlayback` and
`MCProject` put models that share no state next to each other (`part` says which of
them a behaviour is of), so that a run is one question about one side of the program.

## 3. The runs

| run | asks | instance |
|---|---|---|
| `fence_samples` | is anything freed under the engine or a command (`NoUseAfterFree`, `NoDanglingCommand`), does a live swap keep the samples it promises (`SwapKeepsSamples`), is the proofs' invariant one (`Fence`, `TypeOK`) | 1 slot, 2 buffers (symmetric), queue of 1, history of 1 entry and 1 sample operation, 3 publishes |
| `fence_plugins` | the same with instances, overrides, bridged plugins and loads that wake them, and is all freed in the end (`EventuallyReclaimed`) | 1 slot, 1 buffer, 1 bridged binding, 1 instance, queue of 1, 2 publishes |
| `threads` | ring (`NoSharedCell`, `ImplementsFifo`), snapshots (`NoTear`, `NeverOlder`, `EventuallySeen`), edits in place (`OneStalePull`), bridge (`NoSharedSlot`, `NothingSkipped`, `BypassEnds`, `ChildKeepsPlaying`) | ring asked for 3 (so 4), counters modulo 8, 2 values; one reader, 5 versions; queue of 2; rings of 2, counters modulo 8, bypass after 2 stale blocks, 1 crash |
| `playback` | `PositionInSong`, `LanePaired`, `PluginNotesHeld`, `BoundedPlayEnds`; `MessagesConserved`; `InstanceSound`, `ReleasedVoicesEnd` | 2 channels, patterns of 1 to 3 rows with every effect, speeds 1 and 3, 4 commands; queues of 2 messages of 4; 3 archives and their broken variants, 2 voices, 3 notes |
| `project` | patch (`GraphSound`, `PublishedIsCurrent`, `HistoryReversible`, `ReloadRestores`), compiler (`ScheduleSound`), song (`Playable`, `UndoFindsItsEdit`, `PlayedIsStored`), API (`RequestsAnswered`, `BatchIsOneUndo`), shell (`LastSaveSurvives`), files (`ImportSound`, `FileKeepsProject`) | 4 edits of a patch; every patch of 3 nodes and up to 4 cables; 3 edits of a song of any kind, 6 of samples; 2 clients, 2 requests, queue of 2; 2 launches; every file version that differs in layout, 6 documents |
| `triple_buffer_two_readers` | `NoTear` violated | 2 readers, 3 versions |
| `live_edit` | `StoppedWhileEditing` violated | queue of 4 |
| `plugin_notes` | `PluginNotesHeld` violated | a song with two plugins on one channel |
| `pattern_loop` | `LoopIsTaken` violated: the row with the E6x is left forward with passes to go | a song with a loop, speed above 1 |
| `bridge_latency` | `OneBlockLatency` violated | rings of 4 as in the code, no crash |
| `stale_cursor` | `KeysInPattern` violated | the editor of `project` |
| `reload` | `ReloadKeepsParams` violated | the patch of `project` |

Each run also checks the types of its modules; the combined ones say a little more
where it costs nothing (`PlayingTypeOK`: a slave has its clock only while it runs;
`ProjectTypeOK`: the recent projects are in order and within their cap; the drawn
cursor is in its pattern). `PluginNotesHeld` is in two runs: it holds in songs where
a channel keeps to one plugin and fails where a channel moves to another.

## 4. Bounds, and why they are enough

No run has a state constraint: bounds are in the guards, so that at the bound only
the bounded thing stops.

- *Fence.* It relates three events: an object is linked by one publish, unlinked by a
  later one, and vouched for by a serial that may belong to a third (a later command,
  when the first was lost). Three publishes hold all orders of these; two are enough
  for what is new with plugins. Two buffers are an old one and its replacement,
  preview or undo alias; ids are reused once an object is gone, so a dangling pointer
  to a recycled id is reachable. A queue of 1 makes a lost command as likely as a
  delivered one, including half of a handler's pair. What these bounds leave open the
  proofs close.
- *Ring, buffer, bridge.* The ring is checked from every start index and its modulus
  holds two laps. Five versions are two more than the slots. The bridge's counters are
  wider than all that can be under way, and bypass sets in no sooner than a ring
  empties, as in the code (32 blocks, 4 slots).
- *Playback.* Two channels are one that acts and one it may disturb; speed 1 has rows
  whose first tick is their last, speed 3 has a tick in between. Four commands are
  stop, swap, play and one more.
- *Song and patch.* An edit, another that moves what it touched, and an undo; the
  history is limited to 3 entries and 1 sample operation so that both limits bite.
  Three nodes have self-loops, two-cycles, three-cycles and parallel cables.
- *API, shell.* Two clients' requests meet in a queue of two, or one of them waits while
  the other's batch runs: a drain that turns them around or leaves one behind is seen.
  Connections are told apart by nothing but their hello, so the run takes them as
  symmetric; it has no liveness property. The user edits while fewer than 5 edits are
  done. Two launches are a crash and the recovery from it.
- *Files.* The six documents have, between them, something in every block; every file
  is cut after every field; old versions are those after which the layout changed.
  Foreign files take each field from the values at which the reader branches.

## 5. Fairness

`ReclaimFence!Fairness`: the device keeps pulling (`WF(StartPull)`) and every pull
ends (`[]<>(pc = "idle")`: a pull works through finitely many frames, and drains a
queue that the frame loop cannot refill faster for ever); a handler sends all it has
to send, a load ends (`WF(Send)`, `WF(FinishLoad)`): both are straight-line code. The
frame loop sweeps in every frame, and since the snapshot buffer gives the latest
published value, it sees the current serial again and again, between handlers:
`SF(Sweep(snap))`. If the device is lost nothing is reclaimed; the property assumes it
is not. `TripleBuffer` needs `WF` of the reader's own steps: the UI draws every frame.
`Bridge` assumes that the device keeps calling, that a living child is scheduled and
its plugin returns, that the frame loop polls and that a restart, once begun, goes
on; not that anyone asks for one. `Playback` assumes that ticks go on while the
transport rolls, `NtpInstance` that blocks do. Nowhere is fairness assumed of a user
action, of the snapshot's writer, or of a command being delivered (a lost one ends
the obligation).

## 6. What is proved

Thirty-two theorems in five modules, with the lemmas of three more, for every value of the constants that satisfies
the named assumptions; none depends on fairness. Twenty-nine of them state a property of
section 3, `WorkspaceInvariant` is the inductive invariant of the patch, and `PartsAreSpecs` and
`PartsPlay` say that a behaviour of a combined run is one of each part it is put together from,
so that the parts' theorems are about the run.

| module | theorems |
|---|---|
| `ThreadProofs` | `TypeCorrect`; `FenceHolds`, `Safety`, `NoDangling`, `SwapKeepsSamplesHolds`; `ImplementsFifoHolds`, `NoSharedCellHolds`; `NoSharedSlotHolds`, `NothingSkippedHolds`; `NoTearHolds`, `NeverOlderHolds`, `OneStalePullHolds`, `PartsAreSpecs`, `ThreadsTypeOKHolds` |
| `GraphProofs`, on `FoldLemmas` and `HistoryLemmas` | `ScheduleSoundHolds`; `WorkspaceInvariant`, `GraphSoundHolds`, `PublishedIsCurrentHolds`, `HistoryReversibleHolds` |
| `PlaybackProofs`, on `FoldLemmas` | `PositionInSongHolds`, `LanePairedHolds`, `MessagesConservedHolds`, `PartsPlay`, `PlayingTypeOKHolds` |
| `SongProofs`, on `HistoryLemmas` and `SequenceProofs` | `PlayedIsStoredHolds`, `UndoFindsItsEditHolds`; `PlayableHolds` |
| `SessionProofs` | `RequestsAnsweredHolds`; `ApiUndoFindsItsEdit`, `ApiPlayedIsStored`, `BatchIsOneUndoHolds`; `LastSaveSurvivesHolds` |

**The fence** (`ThreadProofs`; assumptions: the kinds of
object are disjoint and none is the null pointer, capacities are positive).
`TypeCorrect` is more than a type: a `kPreviewNote` or `kPlaySample` in flight carries
a buffer and voices hold buffers, never null. `Safety` (`NoUseAfterFree`) and
`NoDangling` (`NoDanglingCommand`) are not inductive: they say nothing of what commands
still to be applied will make the engine reach, nor why a sweep spares what it must.
`ReclaimFenceInv` defines the invariant that is, `Fence` (`FenceHolds`). The commands in
flight are the queue's and, behind them, those the running handler has still to
send; position 0 is the engine, position i the engine once it has applied the i-th.

- `Safe`: what the engine reaches, and what each command in flight carries, is held
  by a table, the live bundle or the reclaimer. The undo history is not needed.
- `Serials`: serials in flight increase, above what is applied and up to `serial`.
- `Linked`: whatever is reached at position i is still linked by the session (or
  staged for its next publish), or its retirement is *covered*: a command behind i
  makes the engine let go of it and carries the serial it was retired at.
- `Registered`, `LiveLinked`, `Shapes`: what the handlers rely on about instances not
  yet loaded, the samples a live swap copies, and the payload of commands.

A handler that publishes appends one command, which covers all that the handler
unlinked (`BundleStep`, `GraphStep`, `PreviewStep`), so links become cover; the engine
takes a command off the front, and what it covered is what the engine lets go
(`EngineStep`, `DrainStep`); a sweep frees what was retired up to a published serial, and
all that covers is later (`SweepStep`). When a command is lost, cover is gone, and
`Serials` and `Linked` with it; then `Safe` alone is kept, because the reclaimer looks
at the drop counter before every sweep and frees nothing more (`SendStep`). That this
check comes first in the same sweep is what the proof needs of
`SampleReclaimer::sweep`.

`SwapKeepsSamplesHolds`, an action property, needs an invariant of its own, on what successive
bundles in flight have in common (`SwapChain`): at the position of each swap, the bundle
last brought before it, or the engine's if there is none, has the swap's samples,
unless a stop lies between; and so it is at the end, with the live bundle. A handler
adds at most one command that brings a bundle, the one then live.

**The ring** (`ThreadProofs`). `ImplementsFifoHolds`:
for every capacity and counter width, through every wraparound, the ring implements
`BoundedFifo`; `NoSharedCellHolds`. `RingInv` says that a push in progress has room and a
pop in progress a value, and where in the contents each side is. The arithmetic is
that the distance of two counters survives their wrap and that counters less than a
ring apart name different cells (`DistanceWraps`, `CellsApart`, `CellsRepeat`); its
premise is `MaskAssumption`, that the ring divides the modulus. It follows from both
being powers of two (`ModulusAssumption`) and is stated because the provers have no
induction to derive it with; TLC evaluates both.

**The snapshot buffer** (`ThreadProofs`). `NoTearHolds`, `NeverOlderHolds`, for any
number of versions, given one reader. The three slots have three owners: the writer,
the shared word and the reader, which owns its new slot from the exchange on, before
it has stored the index. With a second reader exactly this fails.

**What is changed in place** (`ThreadProofs`). `OneStalePullHolds`, for every queue
capacity: while a handler works, the command that lets go is the newest in the queue,
or the engine has let go and the queue is empty, unless it was lost.

**The bridge** (`ThreadProofs`). `NoSharedSlotHolds`, `NothingSkippedHolds`, for
every ring size and number of crashes, as long as no restart has met a block under way.
Three parts: what one side has seen of the other's counter stays true, since the
other only adds to it; from the reset to the live state both rings are empty and no
block is under way; the cells between two counters hold the current child's stream
by number.

**The compiler** (`GraphProofs`). `ScheduleSoundHolds`, for every list of cables: the
schedule has every node once, each before what it feeds but for delayed cables, and a
cable is delayed only if it closes a cycle. The invariant is that of a depth-first
search: grey is on the path, black is finished, an edge that was looked at leads to a
node finished before its source, or further down the path, or is delayed.

**The patch** (`GraphProofs`). `GraphSoundHolds`, `PublishedIsCurrentHolds` and
`HistoryReversibleHolds`, for every set of plugins, every file, however many nodes and
cables, every limit of the history. None is inductive alone: whether a load gives a sound graph
depends on what the file holds, which depends on what was dormant when it was saved; and
what undo writes depends on entries made long ago. `WorkspaceInv` has four parts.
`Rig` is `GraphSound` with what it takes to keep it: nodes and cables are records told apart by
their ids, and a cable's ends are ports of its nodes' plugins, in a form a fold over them keeps.
`Held` types what waits, on this machine (`dormant`, `pending`) or in the file. `Told` says, with
`HistoryLemmas`, that the entries of the history are a path of scenes that ends in the present
graph. A scene is the nodes and the cables as *sets*, without the nodes' windows, and the slot's
entry: a removal that is undone puts its cable at the end of the list, and a strip is moved
without an entry. Each entry must be possible where the path has it (`PatchLinks`): a cable that
is added fits the nodes that are there and has an id no other has, a utility that is taken away
has no cables left. What makes or takes the node of a plugin has no entry, and forgets the history;
`PathKeepsHosted` shows that undo and redo never do, so that `Rig` survives them. `PublishedIsCurrent`
is the last part.
Loading is the long case: adopting the instruments and then the cables of a file, waking what was
dormant, giving samples and states and reopening plugins are folds over lists from the file, each
with a claim kept by one element (`FoldLemmas`). `WorkspaceAssumption` says that plugins, external
plugins and built-in kinds have different names, and that what is read of a foreign file is lists,
with archives of native plugins only; nothing is assumed of the ids, ports, or plugins they name.

**Folds** (`FoldLemmas`). Ticks, outputs, passes and blocks are folds over sequences of
any length. The library's induction theorems take an operator as a parameter, which the
provers cannot instantiate; `FoldLemmas` proves induction over a sequence once (`FoldHolds`), with the
step and the claim as constant operators of the module, from the least element of a set
of numbers, and each use is an instance: `INSTANCE FoldLemmas WITH Step <- ..., Holds
<- ...`, with what both depend on handed through `ctx`.

**The sequencer** (`PlaybackProofs`). `PositionInSongHolds`, for every table of songs. The
assumption is that each song is `Typed` and `Playable`: its fields are of their types, its
order list is not empty, and every order names a pattern with a row. That the editors
keep a song so is a theorem of its own (`PlayableHolds`, below), that the importers give only
such songs is what the run `project` checks (`ImportSound`). The invariant is `PlayInv`: a rolling transport
has a song and a play state with the song's channels, in the song. A row folds its cells
into the play state without moving it (`SamePlace`); then each way to leave a tick, `TakeJump`
with its wrap and clamp, `NextPattern`, the rewind of a loop and the repeat of a
delayed row, leads to a place that exists. A stopped transport may keep the play state
of a song since unloaded, so the invariant says nothing of it, and starting again must
make a new one.

`LanePairedHolds`: `HeardInv` says for each channel that what sounds on its MIDI list and was
not forgotten is the one note it remembers. It is kept by each of the outputs a channel
can have in one tick (release, retrigger, cut, in that order), by the fold over
channels, by the layers' triggers, which do not touch the lists, and by each command.

**The MIDI thread** (`PlaybackProofs`). `MessagesConservedHolds`, for all capacities: `MidiInv`
has each message once in exactly one place. The step that needs it is the removal of a
sent message from the middle of the pending set, by moving the last one into its place.

**Types in the runs** (`ThreadsTypeOKHolds`, `PlayingTypeOKHolds`) follow from the invariants of
the parts; that a slave has its clock only while it runs is part of `MidiInv`.

**The song and its history** (`HistoryLemmas`, `SongProofs`). A *scene* is what undoing changes:
the patterns, the sample, the speed. Neither `UndoFindsItsEdit` nor `PlayedIsStored` is inductive,
for neither says what the entries not yet reached will write. `SongInv` does: there are scenes
through which the entries of the past and the open group lead, each edit from the one
before it to the one after it, up to the present scene, and the entries of the future from
there on. `HistoryLemmas` proves, for any edits, that this survives every operation of the
stack, the eviction of the oldest entry and the truncation at the oldest sample
operation among them, and that undoing along a path shows its scenes; what an edit
leads from and to (`Links`) and what undoing and redoing do (`Back`, `Forth`) are parameters,
and `SongProofs` instantiates them twice, with `Write` and with the walk `UndoFindsItsEdit` makes.
The song's part is that an operation on a block is a path of single cells, which needs
its places to be different and inside the pattern (`RowByRow`, `NormalFacts`, `BlockFacts`),
also where a paste reaches over its edges.

**What the engine takes for granted of a song** (`SequenceProofs`, `SongProofs`). `PlayableHolds`:
through every edit of patterns, orders, layers, notes, cells and blocks, undo, redo and opening
another song, each order names a pattern, a pattern stands where its id says, the automation and
the layer at its index were made for it and the automation is as long as it is, and the notes of
a layer are in the order of time, with a pitch, a velocity, a start and a length that can be.
The engine indexes four arrays by one number of the order list, and the session keeps them in
step by hand. `SongFits` is the invariant: it says the same of lists that may be shorter than the
list of patterns, as `delete_pattern` and `resize_pattern` must find them. A deletion shifts
patterns, automation, layers and orders at once (`DeleteFits`), a resize trims and refits
(`ResizeFits`), an insertion keeps the order of time among notes that start together
(`NotePutIn`), and what changes only cells leaves the patterns `Alike`. `SequenceProofs` has what
each transform of the piano roll gives for every list of notes that is not empty: sorting by rank
is a permutation, and quantise, humanise, transpose, reverse, invert, the arpeggios, the velocity
curves and the gate give notes where a note can be, whatever is drawn at random.

`SongAssumption` asks of the songs opened that they have the session's channels and a row in each
pattern, which is what the readers give, and that the orders name patterns and the automation is
as long as its pattern. The latter is true of the files the program writes of a song that is
`Playable` and of what the importers make (`ImportSound`); the reader of project files does not
test it (`ftrk_reader.cpp:534` takes each order as it comes), so nothing is claimed of a file
that was altered by other means.

**The API's server** (`SessionProofs`). `RequestsAnsweredHolds`, for any number of clients
and any queue: `ServerInv` numbers the requests through the answers, the batch in hand,
those swapped out and those queued, as one run of numbers without a gap. Connections that
come and go, and a server that stops, find nothing in hand.

**The batches** (`SessionProofs`). `BatchIsOneUndoHolds`: a batch that only edits is undone as a
whole, up to where it failed, for every batch, queue and limit of the history. `ApiSongInv` is
`SongSound` with the group the batch holds open: the group leads, edit by edit, from the song
the batch began on (`batch.song`) to the song as it is, *exactly*, that is each edit carries
what was there (`OneGroup`); so undoing the whole group ends where the batch began. It has to
be said of the open group while commands are still to come, as each is applied in a step of
its own. Commands that make the history forget, a pattern that is deleted or a project that is
opened, are outside the property, and the invariant then says only that the song is sound.
When the batch ends the group becomes the newest entry, and the eviction that closing it may
cause takes the oldest (`NewestStays`). With it `UndoFindsItsEdit` and `PlayedIsStored`, proved for
the user's edits alone above, are proved of `ApiSpec` as well, where the batches of programs alternate
with cells the user enters, undo and redo. `ApiAssumption` says that a request lists its commands and a command
its cells.

**The autosaves** (`SessionProofs`). `LastSaveSurvivesHolds`, for every number of slots, launches
and crashes: `RotationInv` says how far the rotation has moved past the slot that holds the
last completed autosave (`Keeps`), so that a save torn now tears another.

## 7. What is only model-checked

Everything temporal beyond an action property (`EventuallyReclaimed`, `EventuallySeen`,
`BypassEnds`, `ChildKeepsPlaying`, `BoundedPlayEnds`, `ReleasedVoicesEnd`): liveness under
fairness is out of the prover's reach. `ImportSound` and `FileKeepsProject` say what the
readers compute from each of a bounded set of files; there is no behaviour to carry an
invariant along. `PluginNotesHeld` is not a theorem: it is false of songs in which a channel moves
from one plugin to another (section 8). Not proved are the properties of plugin
instances (`InstanceSound`). `ReloadRestores` compares a patch with
what a whole reload computes from it, element by element; proved is that a reload leaves the
patch sound. The theorems about the song are about `SongSpec` and, but for `PlayableHolds`, about
`ApiSpec`, in which the user enters cells, undoes and redoes between two requests; that they
also hold with the note entry of the pattern editor, and `Playable` with the batches, is checked.

## 8. Where code and documentation disagree

With a run that shows it:

- `live_edit`: `app/project_session.h` says structural edits stop the transport first;
  `stop()` only enqueues, so one pull can still tick over a project being reshaped.
  The same lag is there for `modplay/module_player.h`, by which a load runs while the
  player is detached, and the edit of the instrument table stops nothing at all
  (`DetachedWhileLoading` and `TableStable` in `LiveMutation` state these two).
- `triple_buffer_two_readers`: `rt/triple_buffer.h` is a single-reader buffer;
  `AudioEngine::snapshot()` is called from two threads.
- `plugin_notes`: a channel that moves from one plugin to another sends the note-off to
  the new one.
- `pattern_loop`: the loop flag is set in a row's first tick and read in its last, by
  when it is cleared; at speeds above 1 no pattern loop is taken.
- `bridge_latency`: `ext/bridge/bridge_protocol.h` promises one block of latency; a
  child that is late once is heard late for good.
- `stale_cursor`: a key reads the cell under the cursor before the cursor is put into
  the pattern now shown.
- `reload`: `Docs/ftrk-format.md` says the patch block carries plugin parameters; the
  writer leaves them empty.

Met while modelling, and in the models, but without a run of its own. The properties of
section 3 except them by name or by what they range over.

- *Project file*: an overrides block of a newer format followed only by external
  plugins is carried together with them (`RawHasEnd`); counts of patterns and samples
  are one byte, so that 256 are stored as 0 (`Fits`); a file that ends before a block an
  offset points to loses it without a warning.
- *Patch*: a load tries the cables before it reopens the external plugins and not again
  (`app/project_session.cpp:156` and `:228`), so the cables of an external plugin are
  dormant after every load: kept for the next save, but not connected
  (`ReloadKeepsCables`). Ids of dormant cables are not considered for new ones.
- *API*: deleting a pattern inside a batch renumbers those that later commands of the
  batch name (`CommandHitsItsPattern`); requests still queued when the server stops
  are never answered.
- *Pattern window*: the snapshot's pattern may be one that was deleted; a MIDI mode
  change while a preview is held ignores its note-off.
- *Importers*: sample numbers above 31 are skipped silently; S3M tempo below 0x20 is
  read as a speed.
- *Shell*: a save after "new project" overwrites the file opened before; the lock stays
  behind after `--export` or a refused script; the rotation of slots restarts at the
  first with every launch.
- *MIDI output*: messages of one time may leave in another order than the graph made them,
  for a sent one is replaced by the last of the pending set (`OrderOfATick`).
- *Plugins*: note-off for all triggers every release zone, of voices long let go too.

## 9. Not modelled, and why

- *Signal processing* (`fx_chain`, `convolution_engine`, `dsp`, `onset_detect`, the mixing
  in `graph_runner` and voices, slides and vibrato): floating-point data with next to
  no control. The order in which the runner evaluates nodes is `GraphCompile`'s, its
  lifetime `ReclaimFence`'s.
- *Export* (`io/export_*`): drives the engine `Playback` has; the rest is encoding.
- *Plugin hosts and editors, MIDI ports, windows, devices*: wrappers of foreign
  interfaces, whose behaviour the code does not determine. The *preset bank* and the
  *learn table* are lookups.
- *Other views* hold no state that others rely on; the handlers they call are
  modelled where they are.
- *Of the bridge*: what a block carries. Notes that find the input ring full are
  dropped and a reset overtakes the notes of its block; stating either needs the
  plugin's own note state. A restart that meets a block under way is in the model
  (`contended`), and with it a counter can be stored back after the reset: the ring is
  then out of step until the next restart. No property claims otherwise. Why a parked
  child wakes is left out: its wait has a timeout, so a lost wake costs at most that.
- *Of the snapshot buffer*: a second read by the thread that still holds a reference
  from the first. `PatternEditor` has the two reads see different values, but not
  the slot being reused.
- *Of the local API*: reading queries, and the commands of the workspace, the transport
  and files, which are single calls of handlers modelled elsewhere.
- *Of the importers*: what unpacking makes of sample data, and files so short that a table is read
  past their end (`s3m_importer.cpp:157`, `it_importer.cpp:399`, `mod_importer.cpp:125`): a file has the
  tables its header counts.
- *Of the module player*: the seek (`module_player.cpp:69`) and the position it publishes.
- *Of the session*: the offline bounce, colours and names; *of the archive loader*:
  labels and panels; *of an instance*: the nodes that only sound.
