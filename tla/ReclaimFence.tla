---------------------------- MODULE ReclaimFence ----------------------------
(***************************************************************************)
(* Deferred reclamation between the session (UI thread) and the audio      *)
(* engine (render thread).                                                 *)
(*                                                                         *)
(* The engine reads sample buffers, playback bundles, FX racks, graph      *)
(* runners and bridged plugin bindings through raw pointers.  The session  *)
(* owns them and may free one only when the engine provably cannot reach   *)
(* it any more.  The proof is a serial number: a command that unlinks      *)
(* objects carries a fresh publish serial, the engine records the serial   *)
(* when it applies the command and publishes it at the end of the pull,    *)
(* and an object retired at serial S is freed once a published snapshot    *)
(* reports a serial >= S (audio/sample_reclaim.h).                         *)
(*                                                                         *)
(* Two processes.  The session runs one handler at a time; what a handler  *)
(* does to the session's own tables is one step, and each command it sends *)
(* is a step of its own, since a pull may drain the queue between two of   *)
(* them: `outbox' holds the commands the running handler has still to      *)
(* send.  The engine runs pulls: drain the queue one command at a time,    *)
(* render (sequencer triggers, voices ending), publish the snapshot.       *)
(***************************************************************************)
EXTENDS Integers, Sequences, FiniteSets

CONSTANTS
    Slots,        \* sample ids 1..kMaxSamples
    Buffers,      \* SampleBuffer objects; an id is reused once its object is gone
    Bridges,      \* BridgedPlugin bindings; reused likewise
    Instances,    \* NtpInstance objects; the registry keeps them until teardown
    None,         \* the null pointer
    QueueCap,     \* capacity of the command queue (256 in the engine)
    MaxEntries,   \* UndoStack::kMaxEntries
    MaxSampleOps, \* UndoStack::kMaxSampleOps
    MaxSerial     \* bound: publishes the session makes in a behaviour

ASSUME ObjectsAssumption ==
    /\ Buffers \cap Bridges = {}
    /\ Instances \cap Bridges = {}
    /\ None \notin Slots \cup Buffers \cup Bridges \cup Instances
ASSUME BoundsAssumption ==
    /\ QueueCap \in Nat \ {0}
    /\ MaxEntries \in Nat \ {0}
    /\ MaxSampleOps \in Nat \ {0}
    /\ MaxSerial \in Nat

VARIABLES
    \* ProjectSession
    slot,         \* buffers_: the sample table
    override,     \* slot_overrides_ of every instance, one user slot each
    registry,     \* instances ever created (PluginRegistry keeps them all)
    nodes,        \* instances_by_node_: instances with a workspace node
    bridged,      \* bridged_by_node_
    preview,      \* preview_buffer_
    live,         \* live_bundle_ with live_rack_ and live_runner_
    serial,       \* publish_serial_
    past,         \* undo_stack_: the buffers its closures alias
    future,       \* redo_stack_
    loading,      \* how far load_ftrk is between its decode and its final publish
    \* SampleReclaimer
    staged,       \* staged_
    entries,      \* entries_: pairs of an object and its retirement serial
    disarmed,     \* disarmed_
    \* the command channel
    outbox,       \* commands the running handler has still to send
    queue,        \* AudioEngine::commands_
    dropped,      \* dropped_commands_ # 0
    \* AudioEngine
    pc,           \* where the render thread is in its pull
    bundle,       \* bundle_
    applied,      \* bundle_serial_
    playing,      \* transport_playing_
    chVoices,     \* buffers held by active voices of voices_
    seqVoices,    \* buffers held by active voices of seq_voices_
    pluginVoices, \* per instance, override buffers its sampler voices hold
    oneShot,      \* voice_sample_
    snap          \* bundle_serial of the last published snapshot

tables == <<slot, override, registry, nodes, bridged, preview, loading>>
published == <<live, serial>>
history == <<past, future>>
reclaimer == <<staged, entries, disarmed>>
voices == <<chVoices, seqVoices, pluginVoices, oneShot>>
engine == <<pc, bundle, applied, playing, voices, snap>>
session == <<tables, published, history, reclaimer>>
vars == <<session, outbox, queue, dropped, engine>>

-----------------------------------------------------------------------------
(* Objects and commands. *)

NoBundle == [id |-> 0, rack |-> 0, samples |-> [s \in Slots |-> None], binds |-> {}]

Bundle == [id : Nat, rack : Nat, samples : [Slots -> Buffers \cup {None}],
           binds : SUBSET (Instances \cup Bridges)]

\* A bundle and its graph runner are made and retired together, so one
\* object stands for both; publish_graph keeps the rack of the live bundle.
GraphOf(b) == {<<"bundle", b.id>>} \ {<<"bundle", 0>>}
RackOf(b)  == {<<"rack", b.rack>>} \ {<<"rack", 0>>}
SamplesOf(b) == {b.samples[s] : s \in Slots} \ {None}

Obj == Buffers \cup Bridges \cup ({"bundle", "rack"} \X Nat)

CmdType == {"SetBundle", "SwapBundle", "PlaySample", "StopSample", "PreviewNote",
            "PluginNote", "TransportPlay", "TransportStop"}

Cmd(t) == [type |-> t, serial |-> 0, bundle |-> NoBundle, sample |-> None]
Command ==
    {c \in [type : CmdType, serial : Nat, bundle : Bundle, sample : Buffers \cup {None}] :
        c.type \in {"PreviewNote", "PlaySample"} => c.sample # None}

\* An undo entry that republishes the graph, or a sample op: its closures
\* hold the slot's buffer before and after the edit.
GraphOp == [slot |-> None, before |-> None, after |-> None]
HistoryEntry == [slot : Slots, before : Buffers, after : Buffers] \cup {GraphOp}

NonNull(S) == S \ {None}

SessionHeld == NonNull({slot[s] : s \in Slots} \cup {override[n] : n \in Instances}
                       \cup {preview} \cup bridged)
                 \cup GraphOf(live) \cup RackOf(live)
Retained == staged \cup {e[1] : e \in entries}
Aliases(h) == UNION {{h[i].before, h[i].after} : i \in DOMAIN h}
UndoHeld == NonNull(Aliases(past) \cup Aliases(future))

\* An object with an owner on the session's side; any other has been destroyed.
Owned == SessionHeld \cup Retained \cup UndoHeld

Init ==
    /\ slot = [s \in Slots |-> None]
    /\ override = [n \in Instances |-> None]
    /\ registry = {} /\ nodes = {} /\ bridged = {} /\ preview = None
    /\ live = NoBundle /\ serial = 0
    /\ past = <<>> /\ future = <<>> /\ loading = "no"
    /\ staged = {} /\ entries = {} /\ disarmed = FALSE
    /\ outbox = <<>> /\ queue = <<>> /\ dropped = FALSE
    /\ pc = "idle" /\ bundle = NoBundle /\ applied = 0 /\ playing = FALSE
    /\ chVoices = {} /\ seqVoices = {}
    /\ pluginVoices = [n \in Instances |-> {}]
    /\ oneShot = None /\ snap = 0

-----------------------------------------------------------------------------
(* Publishing.  Each operator is the part of a handler that touches the    *)
(* fence; the handler supplies the tables as its own edits leave them.     *)

\* Retirement: each object of S leaves with the publish that unlinks it.
Retire(S, n) == {<<o, n>> : o \in S}

\* stage(std::move(ptr)): null pointers are not parked.
StageNothing(S) == staged
Stage(S) == staged \cup NonNull(S)

\* publish_bundle, after the commands `before' of the same handler and with
\* `parked' the staged objects: a new bundle, rack and runner over the
\* current tables; the old ones and everything staged retire at its serial.
PublishBundle(before, samples, ns, bs, parked) ==
    LET n == serial + 1
        b == [id |-> n, rack |-> n, samples |-> samples, binds |-> ns \cup bs]
    IN  /\ serial' = n
        /\ live' = b
        /\ outbox' = Append(before, [Cmd("SetBundle") EXCEPT !.serial = n, !.bundle = b])
        /\ entries' = entries \cup Retire(GraphOf(live) \cup RackOf(live) \cup parked, n)
        /\ staged' = {}
        /\ slot' = samples /\ nodes' = ns /\ bridged' = bs

\* The sample set of a live swap is the one the live bundle already has.
SwapSamplesFromTable == slot
SwapSamples == live.samples

\* publish_graph: a live swap to a bundle that differs in its graph only.
\* `parked' holds the bindings the caller retires at the swap's serial.
PublishGraph(ns, bs, parked) ==
    LET n == serial + 1
        b == [id |-> n, rack |-> live.rack, samples |-> SwapSamples, binds |-> ns \cup bs]
    IN  /\ live # NoBundle
        /\ serial' = n
        /\ live' = b
        /\ outbox' = <<[Cmd("SwapBundle") EXCEPT !.serial = n, !.bundle = b]>>
        /\ entries' = entries \cup Retire(GraphOf(live) \cup parked, n)
        /\ nodes' = ns /\ bridged' = bs
        /\ UNCHANGED <<slot, staged>>

\* Before the first publish_bundle a graph publish is a full publish.
PublishGraphOrBundle(ns, bs, parked) ==
    \/ PublishGraph(ns, bs, parked)
    \/ live = NoBundle /\ PublishBundle(<<>>, slot, ns, bs, staged \cup parked)

-----------------------------------------------------------------------------
(* Undo history (app/undo.cpp): the buffers that undo closures keep alive. *)

\* UndoStack::commit: the oldest entry falls off past MaxEntries; past
\* MaxSampleOps the oldest sample op goes, with everything older than it.
Commit(e) ==
    LET all  == Append(past, e)
        kept == IF Len(all) > MaxEntries THEN Tail(all) ELSE all
        ops  == {i \in DOMAIN kept : kept[i] # GraphOp}
    IN  /\ IF Cardinality(ops) > MaxSampleOps
             THEN \E oldest \in ops :
                    /\ \A i \in ops : oldest <= i
                    /\ past' = SubSeq(kept, oldest + 1, Len(kept))
             ELSE past' = kept
        /\ future' = <<>>

\* UndoStack::clear and reset.
ForgetHistory == past' = <<>> /\ future' = <<>>

-----------------------------------------------------------------------------
(* Session handlers.  Handlers run one at a time on the UI thread; a new   *)
(* one starts when the last has sent its commands.                         *)

Idle == outbox = <<>> /\ loading = "no"
CanPublish == Idle /\ serial < MaxSerial
Stop == <<Cmd("TransportStop")>>

FreshBuffers == Buffers \ Owned
FreshBridges == Bridges \ Owned

\* A sample table of newly decoded buffers.
DecodedTable(t) ==
    /\ t \in [Slots -> FreshBuffers \cup {None}]
    /\ \A r, s \in Slots : r # s /\ t[r] # None => t[r] # t[s]

\* create_pattern, delete_pattern, resize_pattern and the order-list edits:
\* the song changes shape, the tables do not.
StructuralEdit ==
    /\ CanPublish
    /\ PublishBundle(Stop, slot, nodes, bridged, staged)
    /\ ForgetHistory
    /\ UNCHANGED <<override, registry, preview, loading, disarmed, queue, dropped, engine>>

\* new_project, and load_file on a module: decode_samples stages every old
\* buffer, rebuild_workspace_nodes every bridged binding; instances leave
\* the workspace for the registry; the publish retires what was staged.
ReplaceProject ==
    /\ CanPublish
    /\ \E table \in [Slots -> FreshBuffers \cup {None}] :
        /\ DecodedTable(table)
        /\ PublishBundle(Stop, table, {}, {}, Stage({slot[s] : s \in Slots} \cup bridged))
    /\ ForgetHistory
    /\ UNCHANGED <<override, registry, preview, loading, disarmed, queue, dropped, engine>>

\* load_ftrk up to its workspace: the old bundle stays live to the end of
\* the load, the engine plays on from what is now only staged.
BeginLoad ==
    /\ CanPublish
    /\ \E table \in [Slots -> FreshBuffers \cup {None}] :
        DecodedTable(table) /\ slot' = table
    /\ staged' = Stage({slot[s] : s \in Slots} \cup bridged)
    /\ nodes' = {} /\ bridged' = {}
    /\ loading' = "wake"
    /\ outbox' = Stop
    /\ ForgetHistory
    /\ UNCHANGED <<override, registry, preview, published, entries, disarmed,
                    queue, dropped, engine>>

\* wake_dormant_plugins and the POVR block: a fresh instance, perhaps with a
\* sample override of its own.
LoadInstance(n) ==
    /\ loading = "wake" /\ outbox = <<>>
    /\ n \in Instances \ registry
    /\ registry' = registry \cup {n}
    /\ nodes' = nodes \cup {n}
    /\ \E b \in FreshBuffers \cup {None} : override' = [override EXCEPT ![n] = b]
    /\ UNCHANGED <<slot, bridged, preview, loading, published, history, reclaimer,
                    outbox, queue, dropped, engine>>

\* The XPLG block: every plugin added back publishes the graph in mid-load,
\* one hosted in this process (add_vst3_node; add_clap_node when no bridge
\* is available) and one in a child of its own.
LoadInProcess ==
    /\ loading # "no" /\ outbox = <<>>
    /\ serial + 1 < MaxSerial
    /\ PublishGraphOrBundle(nodes, bridged, {})
    /\ loading' = "external"
    /\ ForgetHistory
    /\ UNCHANGED <<override, registry, preview, disarmed, queue, dropped, engine>>

LoadBridge(x) ==
    /\ loading # "no" /\ outbox = <<>>
    /\ serial + 1 < MaxSerial
    /\ x \in FreshBridges
    /\ PublishGraphOrBundle(nodes, bridged \cup {x}, {})
    /\ loading' = "external"
    /\ ForgetHistory
    /\ UNCHANGED <<override, registry, preview, disarmed, queue, dropped, engine>>

\* The publish that ends load_ftrk.
FinishLoad ==
    /\ loading # "no" /\ outbox = <<>>
    /\ PublishBundle(<<>>, slot, nodes, bridged, staged)
    /\ loading' = "no"
    /\ UNCHANGED <<override, registry, preview, history, disarmed, queue, dropped, engine>>

\* load_sample_into_slot.
LoadSample(s) ==
    /\ CanPublish
    /\ \E b \in FreshBuffers :
        PublishBundle(Stop, [slot EXCEPT ![s] = b], nodes, bridged, Stage({slot[s]}))
    /\ ForgetHistory
    /\ UNCHANGED <<override, registry, preview, loading, disarmed, queue, dropped, engine>>

\* clear_slot.
ClearSlot(s) ==
    /\ CanPublish
    /\ PublishBundle(Stop, [slot EXCEPT ![s] = None], nodes, bridged, Stage({slot[s]}))
    /\ ForgetHistory
    /\ UNCHANGED <<override, registry, preview, loading, disarmed, queue, dropped, engine>>

\* replace_sample_buffer: what a destructive edit and its undo and redo share.
ReplaceSampleBuffer(s, b) ==
    PublishBundle(Stop, [slot EXCEPT ![s] = b], nodes, bridged, Stage({slot[s]}))

\* apply_sample_edit: re-encode into a new buffer; the undo entry aliases
\* the old and the new one.
EditSample(s) ==
    /\ CanPublish
    /\ slot[s] # None
    /\ \E b \in FreshBuffers :
        /\ ReplaceSampleBuffer(s, b)
        /\ Commit([slot |-> s, before |-> slot[s], after |-> b])
    /\ UNCHANGED <<override, registry, preview, loading, disarmed, queue, dropped, engine>>

\* add_cable, remove_cable, set_cable_mode, add_sum_node, the Ext MIDI nodes.
EditGraph ==
    /\ CanPublish
    /\ PublishGraphOrBundle(nodes, bridged, {})
    /\ Commit(GraphOp)
    /\ UNCHANGED <<override, registry, preview, loading, disarmed, queue, dropped, engine>>

\* What the closure of history entry e does, reinstalling buffer b.
Replay(e, b) ==
    \/ e # GraphOp /\ ReplaceSampleBuffer(e.slot, b)
    \/ e = GraphOp /\ PublishGraphOrBundle(nodes, bridged, {})

\* UndoStack::undo and redo: pop, run the closure, push on the other stack.
Undo ==
    /\ CanPublish
    /\ past # <<>>
    /\ LET e == past[Len(past)]
       IN  /\ Replay(e, e.before)
           /\ past' = SubSeq(past, 1, Len(past) - 1)
           /\ future' = Append(future, e)
    /\ UNCHANGED <<override, registry, preview, loading, disarmed, queue, dropped, engine>>

Redo ==
    /\ CanPublish
    /\ future # <<>>
    /\ LET e == future[Len(future)]
       IN  /\ Replay(e, e.after)
           /\ future' = SubSeq(future, 1, Len(future) - 1)
           /\ past' = Append(past, e)
    /\ UNCHANGED <<override, registry, preview, loading, disarmed, queue, dropped, engine>>

\* add_plugin_node.
AddInstance(n) ==
    /\ CanPublish
    /\ n \in Instances \ registry
    /\ registry' = registry \cup {n}
    /\ PublishGraphOrBundle(nodes \cup {n}, bridged, {})
    /\ ForgetHistory
    /\ UNCHANGED <<override, preview, loading, disarmed, queue, dropped, engine>>

\* set_plugin_sample_override: the instance's own pointer changes at once,
\* before any command; the publish resets its voices.
SetOverride(n) ==
    /\ CanPublish
    /\ n \in nodes
    /\ \E b \in FreshBuffers : override' = [override EXCEPT ![n] = b]
    /\ PublishBundle(Stop, slot, nodes, bridged, Stage({override[n]}))
    /\ ForgetHistory
    /\ UNCHANGED <<registry, preview, loading, disarmed, queue, dropped, engine>>

\* clear_plugin_sample_override.
ClearOverride(n) ==
    /\ CanPublish
    /\ n \in nodes
    /\ override[n] # None
    /\ override' = [override EXCEPT ![n] = None]
    /\ PublishBundle(Stop, slot, nodes, bridged, Stage({override[n]}))
    /\ ForgetHistory
    /\ UNCHANGED <<registry, preview, loading, disarmed, queue, dropped, engine>>

\* add_clap_node with the bridge available.
AddBridge(x) ==
    /\ CanPublish
    /\ x \in FreshBridges
    /\ PublishGraphOrBundle(nodes, bridged \cup {x}, {})
    /\ ForgetHistory
    /\ UNCHANGED <<override, registry, preview, loading, disarmed, queue, dropped, engine>>

\* set_external_plugin_bridged, in-process to bridged and back.
BridgeOn(x) ==
    /\ CanPublish
    /\ x \in FreshBridges
    /\ PublishBundle(Stop, slot, nodes, bridged \cup {x}, staged)
    /\ UNCHANGED <<override, registry, preview, loading, history, disarmed,
                    queue, dropped, engine>>

BridgeOff(x) ==
    /\ CanPublish
    /\ x \in bridged
    /\ PublishBundle(Stop, slot, nodes, bridged \ {x}, staged \cup {x})
    /\ UNCHANGED <<override, registry, preview, loading, history, disarmed,
                    queue, dropped, engine>>

\* remove_workspace_node on a bridged node, an instance or a utility node.
RemoveNode ==
    /\ CanPublish
    /\ \/ \E x \in bridged : PublishGraphOrBundle(nodes, bridged \ {x}, {x})
       \/ \E n \in nodes : PublishGraphOrBundle(nodes \ {n}, bridged, {})
       \/ PublishGraphOrBundle(nodes, bridged, {})
    /\ ForgetHistory
    /\ UNCHANGED <<override, registry, preview, loading, disarmed, queue, dropped, engine>>

\* preview_file: the new one-shot unlinks the previous one.
PreviewFile ==
    /\ CanPublish
    /\ serial' = serial + 1
    /\ \E b \in FreshBuffers :
        /\ preview' = b
        /\ outbox' = <<[Cmd("PlaySample") EXCEPT !.serial = serial + 1, !.sample = b]>>
    /\ entries' = entries \cup Retire(NonNull({preview}), serial + 1)
    /\ UNCHANGED <<slot, override, registry, nodes, bridged, loading, live, history,
                    staged, disarmed, queue, dropped, engine>>

\* stop_preview.
StopPreview ==
    /\ CanPublish
    /\ preview # None
    /\ serial' = serial + 1
    /\ preview' = None
    /\ outbox' = <<[Cmd("StopSample") EXCEPT !.serial = serial + 1]>>
    /\ entries' = entries \cup Retire({preview}, serial + 1)
    /\ UNCHANGED <<slot, override, registry, nodes, bridged, loading, live, history,
                    staged, disarmed, queue, dropped, engine>>

\* Handlers that send one unfenced command: preview_note, preview_plugin_note,
\* play and stop.
SendUnfenced(c) ==
    /\ Idle
    /\ outbox' = <<c>>
    /\ UNCHANGED <<session, queue, dropped, engine>>

PreviewNoteUnchecked(s) == SendUnfenced([Cmd("PreviewNote") EXCEPT !.sample = slot[s]])
PreviewNote(s) ==
    slot[s] # None /\ SendUnfenced([Cmd("PreviewNote") EXCEPT !.sample = slot[s]])
PreviewPluginNote == SendUnfenced(Cmd("PluginNote"))
Play == SendUnfenced(Cmd("TransportPlay"))
StopTransport == SendUnfenced(Cmd("TransportStop"))

\* AudioEngine::send: a command that finds the queue full is lost, counted.
Send ==
    /\ outbox # <<>>
    /\ outbox' = Tail(outbox)
    /\ IF Len(queue) < QueueCap
         THEN queue' = Append(queue, Head(outbox)) /\ UNCHANGED dropped
         ELSE dropped' = TRUE /\ UNCHANGED queue
    /\ UNCHANGED <<session, engine>>

\* SampleReclaimer::sweep frees what the observed serial has passed.
FreeableBeforeApply(e, seen) == e[2] <= seen + 1
Freeable(e, seen) == e[2] <= seen

\* sweep_retired, once per frame between handlers.  The session's snapshot
\* may be any the engine has published, however old.
Sweep(seen) ==
    /\ Idle
    /\ disarmed' = (disarmed \/ dropped)
    /\ entries' = IF disarmed' THEN entries ELSE {e \in entries : ~Freeable(e, seen)}
    /\ UNCHANGED <<tables, published, history, staged, outbox, queue, dropped, engine>>

-----------------------------------------------------------------------------
(* The engine: AudioEngine::render on the device's thread.                 *)

StartPull ==
    /\ pc = "idle"
    /\ pc' = "drain"
    /\ UNCHANGED <<session, outbox, queue, dropped, bundle, applied, playing, voices, snap>>

\* drain_commands pops one command of type t.
Pop(t) ==
    /\ pc = "drain"
    /\ queue # <<>> /\ Head(queue).type = t
    /\ queue' = Tail(queue)
    /\ UNCHANGED <<session, outbox, dropped, pc, snap>>

MaxOf(a, b) == IF a >= b THEN a ELSE b
ApplySerial == applied' = MaxOf(applied, Head(queue).serial)

\* Layered voices end with the rest.
SeqVoicesKept == seqVoices
SeqVoicesAfterReset == {}

\* plugin_reset reaches the instances the new bundle binds.
PluginVoicesKept(b) == pluginVoices
PluginVoicesAfterReset(b) ==
    [n \in Instances |-> IF n \in b.binds THEN {} ELSE pluginVoices[n]]

\* kSetBundle: every voice that holds a sample pointer ends.
ApplySetBundle ==
    /\ Pop("SetBundle")
    /\ ApplySerial
    /\ bundle' = Head(queue).bundle
    /\ playing' = FALSE
    /\ chVoices' = {} /\ seqVoices' = SeqVoicesAfterReset /\ oneShot' = None
    /\ pluginVoices' = PluginVoicesAfterReset(Head(queue).bundle)

\* kSwapBundle: voices and transport survive.
ApplySwapBundle ==
    /\ Pop("SwapBundle")
    /\ ApplySerial
    /\ bundle' = Head(queue).bundle
    /\ UNCHANGED <<playing, voices>>

ApplyPlaySample ==
    /\ Pop("PlaySample")
    /\ ApplySerial
    /\ oneShot' = Head(queue).sample
    /\ UNCHANGED <<bundle, playing, chVoices, seqVoices, pluginVoices>>

ApplyStopSample ==
    /\ Pop("StopSample")
    /\ ApplySerial
    /\ oneShot' = None
    /\ UNCHANGED <<bundle, playing, chVoices, seqVoices, pluginVoices>>

\* The voice on the previewed channel is overwritten: what it held goes with
\* VoiceEnds, before or after.
ApplyPreviewNote ==
    /\ Pop("PreviewNote")
    /\ chVoices' = chVoices \cup {Head(queue).sample}
    /\ UNCHANGED <<bundle, applied, playing, seqVoices, pluginVoices, oneShot>>

\* A sampler voice of instance n starts on its override, if it has one.
StartPluginVoice(n) ==
    pluginVoices' = [pluginVoices EXCEPT ![n] = @ \cup NonNull({override[n]})]

\* kPluginNoteOn, for whichever instance the slot is bound to, if any.
ApplyPluginNote ==
    /\ Pop("PluginNote")
    /\ \/ \E n \in bundle.binds \cap Instances : StartPluginVoice(n)
       \/ UNCHANGED pluginVoices
    /\ UNCHANGED <<bundle, applied, playing, chVoices, seqVoices, oneShot>>

ApplyTransportPlay ==
    /\ Pop("TransportPlay")
    /\ playing' = (playing \/ bundle # NoBundle)
    /\ UNCHANGED <<bundle, applied, voices>>

ApplyTransportStop ==
    /\ Pop("TransportStop")
    /\ playing' = FALSE
    /\ chVoices' = {}
    /\ UNCHANGED <<bundle, applied, seqVoices, pluginVoices, oneShot>>

\* The queue is empty: render.
EndDrain ==
    /\ pc = "drain" /\ queue = <<>>
    /\ pc' = "render"
    /\ UNCHANGED <<session, outbox, queue, dropped, bundle, applied, playing, voices, snap>>

Rendering ==
    /\ pc = "render"
    /\ UNCHANGED <<session, outbox, queue, dropped, pc, bundle, applied, snap>>

\* handle_tick_outputs: a pattern note starts a channel voice.
TriggerChannel(s) ==
    /\ Rendering
    /\ playing /\ bundle.samples[s] # None
    /\ chVoices' = chVoices \cup {bundle.samples[s]}
    /\ UNCHANGED <<playing, seqVoices, pluginVoices, oneShot>>

\* handle_seq_triggers: a sequence layer note starts a layered voice.
TriggerSeq(s) ==
    /\ Rendering
    /\ playing /\ bundle.samples[s] # None
    /\ seqVoices' = seqVoices \cup {bundle.samples[s]}
    /\ UNCHANGED <<playing, chVoices, pluginVoices, oneShot>>

\* Either kind of note on a plugin instrument.
TriggerPlugin(n) ==
    /\ Rendering
    /\ playing /\ n \in bundle.binds
    /\ StartPluginVoice(n)
    /\ UNCHANGED <<playing, chVoices, seqVoices, oneShot>>

\* A voice reaches its sample's end, is released or stolen.
VoiceEnds ==
    /\ Rendering
    /\ \/ \E b \in chVoices : chVoices' = chVoices \ {b}
                              /\ UNCHANGED <<seqVoices, pluginVoices, oneShot>>
       \/ \E b \in seqVoices : seqVoices' = seqVoices \ {b}
                               /\ UNCHANGED <<chVoices, pluginVoices, oneShot>>
       \/ \E n \in bundle.binds \cap Instances : \E b \in pluginVoices[n] :
             pluginVoices' = [pluginVoices EXCEPT ![n] = @ \ {b}]
             /\ UNCHANGED <<chVoices, seqVoices, oneShot>>
       \/ oneShot # None /\ oneShot' = None
          /\ UNCHANGED <<chVoices, seqVoices, pluginVoices>>
    /\ UNCHANGED playing

\* The range end bound parks the transport; voices ring out.
ParkTransport ==
    /\ Rendering
    /\ playing /\ playing' = FALSE
    /\ UNCHANGED voices

\* The snapshot is written and published after all rendering.
SnapshotForgotten == snap
SnapshotSerial == applied
EndPull ==
    /\ pc = "render"
    /\ pc' = "idle"
    /\ snap' = SnapshotSerial
    /\ UNCHANGED <<session, outbox, queue, dropped, bundle, applied, playing, voices>>

-----------------------------------------------------------------------------
Drain ==
    \/ ApplySetBundle \/ ApplySwapBundle \/ ApplyPlaySample \/ ApplyStopSample
    \/ ApplyPreviewNote \/ ApplyPluginNote \/ ApplyTransportPlay \/ ApplyTransportStop

Render ==
    \/ \E s \in Slots : TriggerChannel(s) \/ TriggerSeq(s)
    \/ \E n \in Instances : TriggerPlugin(n)
    \/ VoiceEnds \/ ParkTransport

Handler ==
    \/ StructuralEdit \/ ReplaceProject \/ BeginLoad \/ LoadInProcess \/ FinishLoad
    \/ \E n \in Instances : LoadInstance(n) \/ AddInstance(n)
                            \/ SetOverride(n) \/ ClearOverride(n)
    \/ \E x \in Bridges : LoadBridge(x) \/ AddBridge(x) \/ BridgeOn(x) \/ BridgeOff(x)
    \/ \E s \in Slots : LoadSample(s) \/ ClearSlot(s) \/ EditSample(s) \/ PreviewNote(s)
    \/ EditGraph \/ Undo \/ Redo \/ RemoveNode
    \/ PreviewFile \/ StopPreview \/ PreviewPluginNote \/ Play \/ StopTransport

Next ==
    \/ Handler
    \/ Send
    \/ \E seen \in 0..snap : Sweep(seen)
    \/ StartPull \/ Drain \/ EndDrain \/ Render \/ EndPull

Spec == Init /\ [][Next]_vars

\* The device keeps pulling, and every pull ends: its work is bounded as long
\* as the session does not refill the queue faster than a drain empties it,
\* for ever.  A handler sends all its commands, a load ends; the frame loop
\* keeps sweeping, and the snapshot it reads catches up with the engine.
Fairness ==
    /\ WF_vars(StartPull) /\ []<>(pc = "idle")
    /\ WF_vars(Send) /\ WF_vars(FinishLoad)
    /\ SF_vars(Sweep(snap))

FairSpec == Spec /\ Fairness

-----------------------------------------------------------------------------
(* Properties.                                                             *)

TablesTypeOK ==
    /\ slot \in [Slots -> Buffers \cup {None}]
    /\ override \in [Instances -> Buffers \cup {None}]
    /\ registry \subseteq Instances /\ nodes \subseteq registry
    /\ bridged \subseteq Bridges
    /\ preview \in Buffers \cup {None}
    /\ loading \in {"no", "wake", "external"}

PublishTypeOK ==
    /\ live \in Bundle /\ serial \in Nat
    /\ staged \subseteq Obj
    /\ entries \subseteq Obj \X Nat
    /\ disarmed \in BOOLEAN

HistoryTypeOK == past \in Seq(HistoryEntry) /\ future \in Seq(HistoryEntry)

ChannelTypeOK == outbox \in Seq(Command) /\ queue \in Seq(Command) /\ dropped \in BOOLEAN

EngineTypeOK ==
    /\ pc \in {"idle", "drain", "render"}
    /\ bundle \in Bundle /\ applied \in Nat /\ playing \in BOOLEAN
    /\ chVoices \subseteq Buffers /\ seqVoices \subseteq Buffers
    /\ pluginVoices \in [Instances -> SUBSET Buffers]
    /\ oneShot \in Buffers \cup {None}
    /\ snap \in Nat

\* The type invariant.
TypeOK == TablesTypeOK /\ PublishTypeOK /\ HistoryTypeOK /\ ChannelTypeOK /\ EngineTypeOK

\* Everything the render thread can dereference: its bundle with the rack,
\* samples and bridged bindings it names, and every voice's buffer.
EngineReach ==
    GraphOf(bundle) \cup RackOf(bundle) \cup SamplesOf(bundle)
    \cup (bundle.binds \cap Bridges)
    \cup chVoices \cup seqVoices
    \cup (UNION {pluginVoices[n] : n \in bundle.binds \cap Instances})
    \cup NonNull({oneShot})

\* The fence: no object is destroyed while the audio thread can still reach
\* it, whatever the interleaving of handlers, pulls, drops and sweeps.
NoUseAfterFree == EngineReach \subseteq Owned

\* The objects the commands of q point to.
Carried(q) ==
    UNION {NonNull({q[i].sample}) \cup GraphOf(q[i].bundle) \cup RackOf(q[i].bundle)
             \cup SamplesOf(q[i].bundle) \cup (q[i].bundle.binds \cap Bridges) : i \in DOMAIN q}

\* No command in flight points to a destroyed object either.
NoDanglingCommand == Carried(queue) \subseteq Owned

\* The sender's contract of kSwapBundle (audio_engine.h): as long as no
\* command is lost, a swap leaves the sample set as it was.
SwapKeepsSamples ==
    [][ApplySwapBundle /\ ~dropped => bundle'.samples = bundle.samples]_vars

\* Unless a command is lost, what is retired is freed in the end.
EventuallyReclaimed ==
    \A n \in 1..MaxSerial :
        (\E e \in entries : e[2] = n) ~> (dropped \/ \A e \in entries : e[2] # n)
=============================================================================
