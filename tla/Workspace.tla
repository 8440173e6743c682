------------------------------ MODULE Workspace ------------------------------
(***************************************************************************)
(* The patchbay of a project: graph/graph_model.cpp, graph/graph_wpbr.cpp  *)
(* and the parts of app/project_session.cpp that edit the workspace, save  *)
(* it to a project file and load it back.                                  *)
(*                                                                         *)
(* A node is built in, a utility the program can make from its name, a     *)
(* native (NTP) plugin of the registry, or an external (CLAP, VST3) one.   *)
(* A file may name nodes and cables the session cannot restore: they stay  *)
(* dormant, out of the graph, and are written back as they were read.      *)
(*                                                                         *)
(* Data is abstracted to what is told apart: a strip (volume, pan, bypass, *)
(* window), a parameter, a sample, an envelope, a stage's chunk and the    *)
(* state of an external plugin are 0 when untouched and 1 when not. An id  *)
(* is a pair <<prefix, number>>, "plg-1" being <<"plg", 1>>.               *)
(***************************************************************************)
EXTENDS UndoHistory, Lists, FiniteSets, FiniteSetsExt, Functions

CONSTANTS Ntp,           \* native plugins there are
          External,      \* external plugins there are
          Vst3,          \* those of them that are VST3
          Manifest,      \* plugin -> its ports: [instrument, ins, outs, params]
          BusChannels,   \* channels of the project
          ForeignFiles,  \* files other programs wrote
          Wires,         \* the pairs of ends one tries to connect
          NewUtilities,  \* the utilities one adds
          MaxEdits,      \* bound: calls of the session
          MaxAdded       \* bound: nodes that are not built in

Plugins == Ntp \cup External
Utilities == {"sum", "emi", "emo"}
NoNode == <<"none", 0>>
NoPort == <<"none", 0>>
NoKind == "none"
NoFile == [none |-> TRUE]

\* What is read of a file is lists; the archives in it are of native plugins.
IsFile(f) ==
    /\ IsList(f.snapshot.instruments) /\ IsList(f.snapshot.cables)
    /\ IsList(f.samples) /\ IsList(f.states) /\ IsList(f.externals)
    /\ \A x \in Range(f.externals) : {"plugin", "bridged"} \subseteq DOMAIN x
    /\ f.archives \subseteq Ntp

ASSUME WorkspaceAssumption ==
    /\ Vst3 \subseteq External /\ Ntp \cap External = {} /\ NewUtilities \subseteq Utilities
    /\ DOMAIN Manifest = Plugins
    /\ Plugins \cap (Utilities \cup {"tracker-bus", "master-in", "module-player"}) = {}
    /\ \A f \in ForeignFiles : IsFile(f)
    /\ BusChannels \in Nat \ {0} /\ MaxEdits \in Nat /\ MaxAdded \in Nat

VARIABLES nodes,       \* workspace_.nodes()
          cables,      \* workspace_.cables()
          dormant,     \* workspace_dormant_
          instance,    \* instances_by_node_
          external,    \* clap_by_node_, bridged_by_node_, vst3_by_node_
          chunks,      \* native_stage_chunk_cache_
          pending,     \* povr_pending_ and xins_pending_
          slot,        \* the instrument table's entry (one slot)
          history,     \* undo_
          published,   \* what the live bundle and its runner were built from
          registry,    \* native plugins registered
          installed,   \* external plugins whose library opens
          running,     \* audio_.running()
          file,        \* the project file
          edits        \* calls so far

graphVars == <<nodes, cables, dormant, instance, external, chunks, pending, slot>>
workspaceVars == <<graphVars, history, published, registry, installed, running, file, edits>>

----------------------------------------------------------------------------
(* The graph model.                                                        *)

Port(name, n, kind) == [id |-> <<name, n>>, kind |-> kind]

Bus == <<"tracker-bus", 0>>
Master == <<"master-in", 0>>
Player == <<"module-player", 0>>

\* make_tracker_bus_node: three ports a channel, then the merged midi.
BusOuts == Append([i \in 1..(3 * BusChannels) |->
                      LET ch == (i + 2) \div 3
                      IN  CASE i % 3 = 1 -> Port("ch", ch, "audio")
                            [] i % 3 = 2 -> Port("vol", ch, "cv")
                            [] i % 3 = 0 -> Port("midi", ch, "midi")],
                  Port("master", 0, "midi"))

\* make_plugin_graph_node and the port lists of add_clap_node and add_vst3_node:
\* the declared ports, a midi-in an instrument does not declare, and a CV port for
\* each parameter whose name no port has.
PluginIns(p) ==
    LET m == Manifest[p]
        midi == \E i \in DOMAIN m.ins : m.ins[i].kind = "midi"
        ins == IF m.instrument /\ ~midi THEN Append(m.ins, Port("midi-in", 0, "midi")) ELSE m.ins
        free == SelectSeq(m.params, LAMBDA q : \A i \in DOMAIN ins : ins[i].id # q)
    IN  ins \o [i \in DOMAIN free |-> [id |-> free[i], kind |-> "cv"]]

Outs(n) ==
    CASE n.plugin = "tracker-bus" -> BusOuts
      [] n.plugin = "master-in" \/ n.plugin = "emo" -> <<>>
      [] n.plugin = "module-player" -> <<Port("main", 0, "audio")>>
      [] n.plugin = "sum" -> <<Port("out", 0, "audio")>>
      [] n.plugin = "emi" -> <<Port("midi", 0, "midi")>>
      [] n.plugin \in Plugins -> Manifest[n.plugin].outs
Ins(n) ==
    CASE n.plugin = "tracker-bus" -> <<Port("master-in", 0, "midi")>>
      [] n.plugin = "master-in" -> <<Port("main", 0, "audio")>>
      [] n.plugin \in {"module-player", "emi"} -> <<>>
      [] n.plugin = "sum" -> <<Port("in", 0, "audio")>>
      [] n.plugin = "emo" -> <<Port("midi", 0, "midi")>>
      [] n.plugin \in Plugins -> PluginIns(n.plugin)

Node(id, plugin) == [id |-> id, plugin |-> plugin, strip |-> 0]
Builtins == <<Node(Bus, "tracker-bus"), Node(Master, "master-in"), Node(Player, "module-player")>>

HasNode(ns, id) == \E i \in DOMAIN ns : ns[i].id = id
NodeOf(ns, id) == ns[CHOOSE i \in DOMAIN ns : ns[i].id = id]
HasPort(ports, id) == \E i \in DOMAIN ports : ports[i].id = id
KindOf(ports, id) == ports[CHOOSE i \in DOMAIN ports : ports[i].id = id].kind
HasCable(cs, id) == \E i \in DOMAIN cs : cs[i].id = id

\* port_kinds_compatible
Compatible(src, dst) ==
    /\ (src = "midi") = (dst = "midi")
    /\ src \in {"cv", "gate"} => dst = src

\* next_node_id and next_cable_id: the first number that is free in the graph.
NextNode(ns, prefix) ==
    <<prefix, Min({n \in 1..(Len(ns) + 1) : ~HasNode(ns, <<prefix, n>>)})>>
NextCable(cs) == Min({n \in 1..(Len(cs) + 1) : ~HasCable(cs, n)})

End(node, port) == [node |-> node, port |-> port]

\* connect's checks.
CanConnectKinds(ns, src, dst) ==
    Compatible(KindOf(Outs(NodeOf(ns, src.node)), src.port),
               KindOf(Ins(NodeOf(ns, dst.node)), dst.port))
CanConnect(ns, cs, src, dst, id) ==
    /\ ~HasCable(cs, id)
    /\ HasNode(ns, src.node) /\ HasNode(ns, dst.node)
    /\ HasPort(Outs(NodeOf(ns, src.node)), src.port)
    /\ HasPort(Ins(NodeOf(ns, dst.node)), dst.port)
    /\ CanConnectKinds(ns, src, dst)

Cable(id, src, dst, mode) == [id |-> id, src |-> src, dst |-> dst, mode |-> mode]
Connect(ns, cs, c) == IF CanConnect(ns, cs, c.src, c.dst, c.id) THEN Append(cs, c) ELSE cs
Disconnect(cs, id) == Within(cs, {c \in Range(cs) : c.id # id})
SetMode(cs, id, mode) == [i \in DOMAIN cs |-> IF cs[i].id = id THEN [cs[i] EXCEPT !.mode = mode] ELSE cs[i]]

\* remove_node takes the cables at the node with it.
RemoveNode(ns, id) == Within(ns, {n \in Range(ns) : n.id # id})
CablesLeft(cs, id) == cs
CablesWithout(cs, id) == Within(cs, {c \in Range(cs) : c.src.node # id /\ c.dst.node # id})

----------------------------------------------------------------------------
(* The WPBR snapshot. An end in a file names a port, or, before ports had  *)
(* names, a jack by its place.                                             *)

Ok(end) == [state |-> "ok", end |-> end]
Dormant == [state |-> "dormant"]
Dropped == [state |-> "dropped"]

\* resolve_bus_output_by_index: the layouts the bus has had, told apart by the kind
\* the file stores with the cable; without one, an output was a channel's audio.
BusOutput(jack, want) ==
    LET kindOf(role) == CASE role = 0 -> "audio" [] role = 1 -> "cv" [] role \in {2, 3} -> "midi"
        at(ch, role) == [ch |-> ch, role |-> role]
        all == IF want = NoKind THEN <<at(jack, 0)>>
               ELSE <<IF jack = 3 * BusChannels THEN at(0, 3) ELSE at(jack \div 3, jack % 3),
                      at(jack \div 2, jack % 2)>>
        fit == SelectSeq(all, LAMBDA c : want \in {NoKind, kindOf(c.role)} /\ c.ch < BusChannels)
    IN  IF fit = <<>> THEN Dropped
        ELSE Ok(End(Bus, IF Head(fit).role = 3 THEN <<"master", 0>>
                         ELSE BusOuts[3 * Head(fit).ch + Head(fit).role + 1].id))

\* resolve_endpoint. A node the graph does not have leaves the cable dormant, and so
\* does a midi port the node does not have.
ResolveAt(n, ports, end, isSource, want) ==
    CASE end.port # NoPort /\ HasPort(ports, end.port) -> Ok(End(n.id, end.port))
      [] end.port # NoPort /\ ~HasPort(ports, end.port) -> IF want = "midi" THEN Dormant ELSE Dropped
      [] end.port = NoPort /\ n.id = Bus /\ isSource /\ end.jack >= 0 -> BusOutput(end.jack, want)
      [] end.port = NoPort /\ n.id = Bus /\ ~isSource /\ end.jack >= 0 -> Ok(End(Bus, ports[1].id))
      [] end.port = NoPort /\ n.id # Bus /\ end.jack \in 0..(Len(ports) - 1) ->
             Ok(End(n.id, ports[end.jack + 1].id))
      [] OTHER -> Dropped
ResolveOut(ns, end, want) ==
    IF HasNode(ns, end.node)
    THEN ResolveAt(NodeOf(ns, end.node), Outs(NodeOf(ns, end.node)), end, TRUE, want)
    ELSE Dormant
ResolveIn(ns, end, want) ==
    IF HasNode(ns, end.node)
    THEN ResolveAt(NodeOf(ns, end.node), Ins(NodeOf(ns, end.node)), end, FALSE, want)
    ELSE Dormant

\* adopt_wpbr_json, on what loading has made of the workspace so far: an instrument the
\* graph has takes its strip, a utility is made, any other is dormant; then each cable
\* is resolved and connected.
WithStrip(n, id, strip) == IF n.id = id THEN [n EXCEPT !.strip = strip] ELSE n
AdoptInstrument(s, inst) ==
    CASE HasNode(s.nodes, inst.id) ->
           [s EXCEPT !.nodes = [i \in DOMAIN @ |-> WithStrip(@[i], inst.id, inst.strip)]]
      [] ~HasNode(s.nodes, inst.id) /\ inst.plugin \in Utilities ->
           [s EXCEPT !.nodes = Append(@, [Node(inst.id, inst.plugin) EXCEPT !.strip = inst.strip])]
      [] ~HasNode(s.nodes, inst.id) /\ inst.plugin \notin Utilities ->
           [s EXCEPT !.dormant.instruments = Append(@, inst)]

Attach(s, c, src, dst) ==
    CASE "dormant" \in {src.state, dst.state} -> [s EXCEPT !.dormant.cables = Append(@, c)]
      [] src.state = "ok" /\ dst.state = "ok" ->
           [s EXCEPT !.cables = Connect(s.nodes, @, Cable(c.id, src.end, dst.end, c.mode))]
      [] OTHER -> s
AdoptCable(s, c) ==
    Attach(s, c, ResolveOut(s.nodes, c.src, c.srcKind), ResolveIn(s.nodes, c.dst, c.dstKind))

AdoptCables(s, all) == FoldLeft(AdoptCable, s, all)
Adopted(s, snapshot) == AdoptCables(FoldLeft(AdoptInstrument, s, snapshot.instruments), snapshot.cables)

\* workspace_to_wpbr_json: the graph, then what is dormant, as it was read. The
\* parameter snapshot of a node is written empty.
FileEnd(end) == [node |-> end.node, port |-> end.port, jack |-> -1]
Snapshot(ns, cs, dorm) ==
    [instruments |->
         [i \in DOMAIN ns |-> [id |-> ns[i].id, plugin |-> ns[i].plugin, strip |-> ns[i].strip,
                               param |-> 0]]
         \o dorm.instruments,
     cables |->
         [i \in DOMAIN cs |->
             [id |-> cs[i].id, src |-> FileEnd(cs[i].src), dst |-> FileEnd(cs[i].dst),
              mode |-> cs[i].mode,
              srcKind |-> KindOf(Outs(NodeOf(ns, cs[i].src.node)), cs[i].src.port),
              dstKind |-> KindOf(Ins(NodeOf(ns, cs[i].dst.node)), cs[i].dst.port)]]
         \o dorm.cables]

----------------------------------------------------------------------------
(* The session.                                                            *)

NoEntry == [node |-> NoNode, plugin |-> "none"]
Fresh(p) == [plugin |-> p, param |-> 0, sample |-> 0, env |-> 0, chunk |-> 0]
NoPending == [samples |-> <<>>, states |-> <<>>]
NoDormant == [instruments |-> <<>>, cables |-> <<>>]

\* bind_plugins, for the slot of the instrument table: the entry's node, else the
\* first native instance of the entry's plugin.
BindingOf(entry, inst, ext) ==
    LET ofPlugin == {id \in DOMAIN inst : inst[id].plugin = entry.plugin}
    IN  CASE entry.node \in DOMAIN inst \cup DOMAIN ext -> entry.node
          [] entry.node \notin DOMAIN inst \cup DOMAIN ext /\ ofPlugin # {} -> Head(Walk(ofPlugin))
          [] OTHER -> NoNode

\* publish_graph and publish_bundle, of what the call leaves. Windows are not its business.
Shape(ns) == [i \in DOMAIN ns |-> <<ns[i].id, ns[i].plugin>>]
Publish == published' = [nodes |-> Shape(nodes'), cables |-> cables',
                         slot |-> BindingOf(slot', instance', external')]

\* The edits of the history, and what undoing and redoing one does to the graph and
\* the instrument table.
Edit(op, what, before, after) == [op |-> op, what |-> what, before |-> before, after |-> after]
Restored(s, e) ==
    CASE e.op = "connect" -> [s EXCEPT !.cables = Disconnect(@, e.what.id)]
      [] e.op = "disconnect" -> [s EXCEPT !.cables = Connect(s.nodes, @, e.what)]
      [] e.op = "mode" -> [s EXCEPT !.cables = SetMode(@, e.what, e.before)]
      [] e.op = "utility" -> [s EXCEPT !.nodes = RemoveNode(@, e.what),
                                       !.cables = CablesWithout(@, e.what)]
      [] e.op = "entry" -> [s EXCEPT !.slot = e.before]
Repeated(s, e) ==
    CASE e.op = "connect" -> [s EXCEPT !.cables = Connect(s.nodes, @, e.what)]
      [] e.op = "disconnect" -> [s EXCEPT !.cables = Disconnect(@, e.what.id)]
      [] e.op = "mode" -> [s EXCEPT !.cables = SetMode(@, e.what, e.after)]
      [] e.op = "utility" -> [s EXCEPT !.nodes = Append(@, Node(e.what, e.what[1]))]
      [] e.op = "entry" -> [s EXCEPT !.slot = e.after]

Graph == [nodes |-> nodes, cables |-> cables, slot |-> slot]

WorkspaceInit ==
    /\ nodes = Builtins /\ cables = <<>> /\ dormant = NoDormant
    /\ instance = <<>> /\ external = <<>> /\ chunks = <<>> /\ pending = NoPending
    /\ slot = NoEntry /\ history = NoHistory
    /\ published = [nodes |-> Shape(nodes), cables |-> cables, slot |-> NoNode]
    /\ registry \in SUBSET Ntp /\ installed \in SUBSET External
    /\ running \in BOOLEAN /\ file = NoFile /\ edits = 0

Call == edits < MaxEdits /\ edits' = edits + 1
Room == Len(nodes) < Len(Builtins) + MaxAdded
Elsewhere == UNCHANGED <<registry, installed, running, file>>

\* add_plugin_node with spawn_plugin_node: structural, so the history is cleared.
AddPlugin(p) ==
    LET id == NextNode(nodes, "plg")
    IN  /\ Call /\ Room /\ p \in registry
        /\ nodes' = Append(nodes, Node(id, p))
        /\ instance' = Assigned(instance, id, Fresh(p))
        /\ UNCHANGED <<cables, dormant, external, chunks, pending, slot>>
        /\ history' = Clear(history) /\ Publish /\ Elsewhere

\* load_clap_file and add_clap_node, load_vst3_file and add_vst3_node: a bridged CLAP
\* whose child does not spawn runs in the process.
ExternalPrefix(x) == IF x \in Vst3 THEN "vst3" ELSE "clap"
AddExternal(x, bridged, spawned) ==
    LET id == NextNode(nodes, ExternalPrefix(x))
    IN  /\ Call /\ Room /\ x \in installed /\ (bridged => x \notin Vst3)
        /\ nodes' = Append(nodes, Node(id, x))
        /\ external' = Assigned(external, id, [plugin |-> x, state |-> 0, bridged |-> bridged /\ spawned])
        /\ UNCHANGED <<cables, dormant, instance, chunks, pending, slot>>
        /\ history' = Clear(history) /\ Publish /\ Elsewhere

\* set_external_plugin_bridged: the state goes with it; a child that does not spawn
\* leaves all as it was.
SetBridged(id, spawned) ==
    /\ Call /\ id \in DOMAIN external /\ external[id].plugin \notin Vst3
    /\ external[id].bridged \/ spawned
    /\ external' = [external EXCEPT ![id].bridged = ~@]
    /\ UNCHANGED <<nodes, cables, dormant, instance, chunks, pending, slot, history>>
    /\ Publish /\ Elsewhere

\* remove_workspace_node
RemoveNodeOnly(id) ==
    /\ Call /\ HasNode(nodes, id) /\ ~HasNode(Builtins, id)
    /\ instance' = Restrict(instance, DOMAIN instance \ {id})
    /\ external' = Restrict(external, DOMAIN external \ {id})
    /\ nodes' = RemoveNode(nodes, id) /\ cables' = CablesWithout(cables, id)
    /\ UNCHANGED <<dormant, chunks, pending, slot, history>>
    /\ Publish /\ Elsewhere
RemoveWorkspaceNode(id) ==
    /\ Call /\ HasNode(nodes, id) /\ ~HasNode(Builtins, id)
    /\ instance' = Restrict(instance, DOMAIN instance \ {id})
    /\ external' = Restrict(external, DOMAIN external \ {id})
    /\ nodes' = RemoveNode(nodes, id) /\ cables' = CablesWithout(cables, id)
    /\ UNCHANGED <<dormant, chunks, pending, slot>>
    /\ history' = Clear(history) /\ Publish /\ Elsewhere

UndoableUnheard(after, e) ==
    /\ Call
    /\ nodes' = after.nodes /\ cables' = after.cables /\ slot' = after.slot
    /\ history' = Push(history, e)
    /\ UNCHANGED <<dormant, instance, external, chunks, pending, published>>
    /\ Elsewhere
\* What the history takes: the graph's part of the state after the call, and the edit.
Undoable(after, e) ==
    /\ Call
    /\ nodes' = after.nodes /\ cables' = after.cables /\ slot' = after.slot
    /\ history' = Push(history, e)
    /\ UNCHANGED <<dormant, instance, external, chunks, pending>>
    /\ Publish /\ Elsewhere

\* add_sum_node, add_ext_midi_in_node and add_ext_midi_out_node
AddUtility(prefix) ==
    LET id == NextNode(nodes, prefix)
    IN  Room /\ Undoable([Graph EXCEPT !.nodes = Append(@, Node(id, prefix))],
                         Edit("utility", id, 0, 0))

\* add_cable
AddCable(src, dst, mode) ==
    LET c == Cable(NextCable(cables), src, dst, mode)
    IN  /\ CanConnect(nodes, cables, src, dst, c.id)
        /\ Undoable([Graph EXCEPT !.cables = Connect(nodes, @, c)], Edit("connect", c, 0, 0))

\* remove_cable
RemoveCable(id) ==
    \E i \in DOMAIN cables :
        /\ cables[i].id = id
        /\ Undoable([Graph EXCEPT !.cables = Disconnect(@, id)], Edit("disconnect", cables[i], 0, 0))

\* set_cable_mode
SetCableMode(id, mode) ==
    \E i \in DOMAIN cables :
        /\ cables[i].id = id /\ cables[i].mode # mode
        /\ Undoable([Graph EXCEPT !.cables = SetMode(@, id, mode)],
                    Edit("mode", id, cables[i].mode, mode))

\* set_instrument_entry
SetInstrumentEntry(entry) ==
    Undoable([Graph EXCEPT !.slot = entry], Edit("entry", 1, slot, entry))

\* undo and redo: the closures publish the graph, the one of an instrument entry does not.
Step(states, edited) ==
    /\ nodes' = states.nodes /\ cables' = states.cables /\ slot' = states.slot
    /\ UNCHANGED <<dormant, instance, external, chunks, pending>> /\ Elsewhere
    /\ IF \A i \in DOMAIN edited : edited[i].op = "entry" THEN UNCHANGED published ELSE Publish
Undo ==
    /\ Call /\ CanUndo(history) /\ history' = Undone(history)
    /\ Step(FoldLeft(Restored, Graph, UndoneEdits(history)), UndoneEdits(history))
Redo ==
    /\ Call /\ CanRedo(history) /\ history' = Redone(history)
    /\ Step(FoldLeft(Repeated, Graph, RedoneEdits(history)), RedoneEdits(history))

\* set_plugin_param; a window that is moved; the state of an external plugin, which its
\* editor changes; a native stage, which the audio thread runs while the device does.
SetParam(id) ==
    /\ Call /\ id \in DOMAIN instance /\ instance' = [instance EXCEPT ![id].param = 1]
    /\ UNCHANGED <<nodes, cables, dormant, external, chunks, pending, slot, history, published>>
    /\ Elsewhere
SetStrip(i) ==
    /\ Call /\ i \in DOMAIN nodes /\ nodes' = [nodes EXCEPT ![i].strip = 1]
    /\ UNCHANGED <<cables, dormant, instance, external, chunks, pending, slot, history, published>>
    /\ Elsewhere
EditExternal(id) ==
    /\ Call /\ id \in DOMAIN external /\ external' = [external EXCEPT ![id].state = 1]
    /\ UNCHANGED <<nodes, cables, dormant, instance, chunks, pending, slot, history, published>>
    /\ Elsewhere
StageRuns(id) ==
    /\ Call /\ running /\ id \in DOMAIN instance /\ instance' = [instance EXCEPT ![id].chunk = 1]
    /\ UNCHANGED <<nodes, cables, dormant, external, chunks, pending, slot, history, published>>
    /\ Elsewhere

\* set_plugin_sample_override, clear_plugin_sample_override and set_plugin_env_stage
EditInstance(id, field, value) ==
    /\ Call /\ id \in DOMAIN instance
    /\ <<field, value>> \in {<<"sample", 1>>, <<"sample", 0>>, <<"env", 1>>}
    /\ field = "sample" /\ value = 0 => instance[id].sample = 1
    /\ instance' = [instance EXCEPT ![id][field] = value]
    /\ UNCHANGED <<nodes, cables, dormant, external, chunks, pending, slot>>
    /\ history' = Clear(history) /\ Publish /\ Elsewhere

DeviceToggles ==
    /\ Call /\ running' = ~running
    /\ UNCHANGED <<graphVars, history, published, registry, installed, file>>

----------------------------------------------------------------------------
(* Project files.                                                          *)

\* assemble_write_extras: samples and states of the live instances, then those that
\* found no instance; the archive of each live native plugin; the external plugins,
\* CLAP in the process first, then bridged, then VST3. The chunk of a stage is taken
\* from the instance while the device is idle, else from the cache.
ChunkToSave(id) ==
    CASE ~running -> instance[id].chunk
      [] running /\ id \in DOMAIN chunks -> chunks[id]
      [] OTHER -> 0
LiveSamples ==
    LET ids == Walk({id \in DOMAIN instance : instance[id].sample = 1})
    IN  [i \in DOMAIN ids |-> [id |-> ids[i], sample |-> 1]]
LiveStates ==
    LET ids == Walk({id \in DOMAIN instance : instance[id].env = 1 \/ ChunkToSave(id) = 1})
    IN  [i \in DOMAIN ids |-> [id |-> ids[i], env |-> instance[ids[i]].env, chunk |-> ChunkToSave(ids[i])]]
Externals ==
    LET of(bridged, vst3) == Walk({id \in DOMAIN external :
                                          external[id].bridged = bridged
                                          /\ (external[id].plugin \in Vst3) = vst3})
        ids == of(FALSE, FALSE) \o of(TRUE, FALSE) \o of(FALSE, TRUE)
    IN  [i \in DOMAIN ids |-> external[ids[i]]]

Extras ==
    [snapshot |-> Snapshot(nodes, cables, dormant),
     archives |-> {instance[id].plugin : id \in DOMAIN instance},
     samples |-> LiveSamples \o pending.samples,
     states |-> LiveStates \o pending.states,
     externals |-> Externals,
     slot |-> slot]

\* save_ftrk, in which the cache takes what the idle instances gave.
Save ==
    /\ Call /\ file' = Extras
    /\ chunks' = IF running THEN chunks
                 ELSE [id \in {i \in DOMAIN instance : instance[i].chunk = 1} |-> 1] @@ chunks
    /\ UNCHANGED <<nodes, cables, dormant, instance, external, pending, slot, history, published,
                   registry, installed, running>>

\* wake_dormant_plugins: a dormant instrument whose plugin is registered, and whose id
\* is free, becomes a node; then the dormant cables are tried again.
WakeInstrument(known, s, inst) ==
    IF inst.plugin \in known /\ ~HasNode(s.nodes, inst.id)
    THEN [s EXCEPT !.nodes = Append(@, [Node(inst.id, inst.plugin) EXCEPT !.strip = inst.strip]),
                   !.instance = Assigned(@, inst.id, [Fresh(inst.plugin) EXCEPT !.param = inst.param])]
    ELSE [s EXCEPT !.dormant.instruments = Append(@, inst)]
Woken(s, known) ==
    FoldLeft(LAMBDA t, inst : WakeInstrument(known, t, inst),
             [s EXCEPT !.dormant.instruments = <<>>], s.dormant.instruments)
NotRetried(s) == s
Retried(s) == AdoptCables([s EXCEPT !.dormant.cables = <<>>], s.dormant.cables)

\* Each record of samples and states goes to its instance, or is kept for it.
GiveSample(s, r) ==
    IF r.id \in DOMAIN s.instance THEN [s EXCEPT !.instance[r.id].sample = r.sample]
    ELSE [s EXCEPT !.pending.samples = Append(@, r)]
GiveState(s, r) ==
    IF r.id \in DOMAIN s.instance
    THEN [s EXCEPT !.instance[r.id].env = r.env, !.instance[r.id].chunk = r.chunk]
    ELSE [s EXCEPT !.pending.states = Append(@, r)]

\* An external plugin is added anew, under the next free id.
AddAs(s, id, x, spawned) ==
    [s EXCEPT !.nodes = Append(@, Node(id, x.plugin)),
              !.external = Assigned(@, id, [x EXCEPT !.bridged = @ /\ spawned])]
Reopened(s, all, libraries, spawned) ==
    FoldLeft(LAMBDA t, x : AddAs(t, NextNode(t.nodes, ExternalPrefix(x.plugin)), x, spawned),
             s, Within(all, {x \in Range(all) : x.plugin \in libraries}))

\* load_ftrk, as what it leaves of the workspace.
Blank == [nodes |-> Builtins, cables |-> <<>>, dormant |-> NoDormant, instance |-> <<>>,
          external |-> <<>>, pending |-> NoPending]
Loaded(f, known, libraries, spawned) ==
    Reopened(FoldLeft(GiveState,
                      FoldLeft(GiveSample,
                               Retried(Woken(Adopted(Blank, f.snapshot), known)), f.samples),
                      f.states),
             f.externals, libraries, spawned)

Become(s) ==
    /\ nodes' = s.nodes /\ cables' = s.cables /\ dormant' = s.dormant
    /\ instance' = s.instance /\ external' = s.external /\ pending' = s.pending

\* load_file and load_ftrk: the archives in the file join the registry. The cache of
\* chunks takes those of the file, and keeps what other projects left in it.
Load(f, spawned) ==
    /\ Call /\ f # NoFile
    /\ registry' = registry \cup f.archives
    /\ \E now \in {Loaded(f, registry', installed, spawned)} :
          /\ Become(now)
          /\ chunks' = [id \in {r.id : r \in {q \in Range(f.states) : q.chunk = 1}}
                             \cap DOMAIN now.instance |-> 1] @@ chunks
          /\ history' = IF DOMAIN now.external = {} THEN Reset(history) ELSE Clear(history)
    /\ slot' = f.slot
    /\ Publish /\ UNCHANGED <<installed, running, file>>

\* new_project with rebuild_workspace_nodes.
NewProject ==
    /\ Call
    /\ Become(Blank) /\ slot' = NoEntry
    /\ UNCHANGED chunks
    /\ history' = Reset(history) /\ Publish /\ Elsewhere

\* The program ends and starts, on a machine with its own plugins.
Restart ==
    /\ Call
    /\ Become(Blank) /\ slot' = NoEntry
    /\ chunks' = <<>> /\ history' = NoHistory /\ Publish
    /\ registry' \in SUBSET Ntp /\ installed' \in SUBSET External
    /\ UNCHANGED <<running, file>>

Ids == {nodes[i].id : i \in DOMAIN nodes}
Entries == {NoEntry} \cup {[node |-> id, plugin |-> "none"] : id \in DOMAIN instance \cup DOMAIN external}
           \cup {[node |-> NoNode, plugin |-> p] : p \in Ntp}

WorkspaceNext ==
    \/ \E p \in Ntp : AddPlugin(p)
    \/ \E x \in External, bridged, spawned \in BOOLEAN : AddExternal(x, bridged, spawned)
    \/ \E id \in DOMAIN external, spawned \in BOOLEAN : SetBridged(id, spawned)
    \/ \E id \in Ids : RemoveWorkspaceNode(id)
    \/ \E prefix \in NewUtilities : AddUtility(prefix)
    \/ \E wire \in Wires : AddCable(wire[1], wire[2], "tap")
    \/ \E i \in DOMAIN cables : RemoveCable(cables[i].id)
    \/ \E i \in DOMAIN cables, mode \in {"tap", "reroute"} : SetCableMode(cables[i].id, mode)
    \/ \E entry \in Entries : SetInstrumentEntry(entry)
    \/ Undo \/ Redo
    \/ \E id \in DOMAIN instance : SetParam(id) \/ StageRuns(id)
    \/ SetStrip(Len(nodes))
    \/ \E id \in DOMAIN external : EditExternal(id)
    \/ \E id \in DOMAIN instance, field \in {"sample", "env"}, value \in {0, 1} : EditInstance(id, field, value)
    \/ DeviceToggles
    \/ Save
    \/ \E f \in ForeignFiles \cup {file}, spawned \in BOOLEAN : Load(f, spawned)
    \/ NewProject \/ Restart

WorkspaceSpec == WorkspaceInit /\ [][WorkspaceNext]_workspaceVars

----------------------------------------------------------------------------
(* Properties.                                                             *)

WorkspaceTypeOK ==
    /\ \A i \in DOMAIN nodes : nodes[i].strip \in {0, 1}
    /\ \A i \in DOMAIN cables : cables[i].id \in Nat /\ cables[i].mode \in {"tap", "reroute"}
    /\ history.depth = 0 /\ history.group = <<>>
    /\ registry \subseteq Ntp /\ installed \subseteq External /\ running \in BOOLEAN
    /\ edits \in 0..MaxEdits

\* The graph is one the compiler and the runner can take, whatever was loaded, undone
\* or removed: ids name one node and one cable, a cable has its ends and its kinds
\* fit, and the nodes of plugins are those that have a plugin.
GraphSound ==
    /\ Cardinality(Ids) = Len(nodes)
    /\ Cardinality({cables[i].id : i \in DOMAIN cables}) = Len(cables)
    /\ \A i \in DOMAIN cables : CanConnect(nodes, <<>>, cables[i].src, cables[i].dst, 0)
    /\ \A p \in Ntp : {nodes[i].id : i \in {j \in DOMAIN nodes : nodes[j].plugin = p}}
                        = {id \in DOMAIN instance : instance[id].plugin = p}
    /\ \A x \in External : {nodes[i].id : i \in {j \in DOMAIN nodes : nodes[j].plugin = x}}
                        = {id \in DOMAIN external : external[id].plugin = x}

\* What the audio thread renders is the graph on the screen, and the plugin it plays
\* for a slot of the instrument table is one a node still has.
PublishedIsCurrent ==
    /\ published.nodes = Shape(nodes) /\ published.cables = cables
    /\ published.slot \in {NoNode} \cup DOMAIN instance \cup DOMAIN external

\* Undoing all that the history holds, and redoing it, gives the graph back: no call
\* that the history does not take pulls the ground from under one that it does.
Windowless(s) == [nodes |-> Range(Shape(s.nodes)), cables |-> Range(s.cables), slot |-> s.slot]
AllEdits == FoldLeft(LAMBDA all, e : all \o e.edits, <<>>, history.past)
HistoryReversible ==
    \A undone \in {FoldLeft(Restored, Graph, Reverse(AllEdits))} :
        Windowless(FoldLeft(Repeated, undone, AllEdits)) = Windowless(Graph)

\* A project of native plugins, saved and loaded again, comes back: its nodes with
\* their windows, its cables, the samples, envelopes and stages of its plugins.
\* Parameters do not; see ReloadKeepsParams.
Reloads == {Loaded(Extras, registry \cup Extras.archives, installed, TRUE)}
Resolved == dormant = NoDormant /\ pending = NoPending
ReloadRestores ==
    Resolved /\ DOMAIN external = {} /\ ~running =>
        \A now \in Reloads :
            /\ Range(now.nodes) = Range(nodes) /\ Range(now.cables) = Range(cables)
            /\ DOMAIN now.instance = DOMAIN instance
            /\ \A id \in DOMAIN instance :
                  now.instance[id] = [instance[id] EXCEPT !.param = now.instance[id].param]

\* The parameters of a plugin come back with the project.
ReloadKeepsParams ==
    Resolved => \A now \in Reloads : \A id \in DOMAIN instance : now.instance[id].param = instance[id].param

\* The cables of a plugin come back with it, where it is installed.
ReloadKeepsCables ==
    Resolved /\ (\A id \in DOMAIN external : external[id].plugin \in installed) =>
        \A now \in Reloads : Len(now.cables) = Len(cables)
=============================================================================
