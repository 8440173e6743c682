----------------------------- MODULE NtpInstance -----------------------------
(***************************************************************************)
(* plugins/plugin_registry.cpp, plugins/ntp_voices.cpp and the samplers    *)
(* and envelopes of plugins/ntp_graph.cpp: an instance of a plugin, with   *)
(* its pool of voices, the voices of its samplers, what the user put into  *)
(* its slots, and its knobs. A block is one frame; a level is silent or    *)
(* not; the other nodes only sound.                                        *)
(***************************************************************************)
EXTENDS NtpLoader

CONSTANTS Unset,
          Archives,     \* what may be loaded
          Velocities,
          Overrides,    \* <<slot, frames>>: what the user may assign
          KnobValues,
          FadeBlocks,   \* the anti-click fade, in blocks
          MaxNotes,  \* bound of the model: notes started
          MaxLoads      \* bound of the model: archives loaded

VARIABLES loaded,     \* PluginRegistry: the plugin its id finds
          plugin,     \* what the instance was made of; it outlives its replacement
          wiring,     \* build_topology: the order of the nodes and the delayed connections
          voicePool,       \* voices_
          envelopes,  \* the voices' envelopes: node, then voice
          samplers,   \* the sampler nodes' voices, counters and overrides
          table,      \* slot_overrides_
          knobs,      \* host_params_, and the bases of the nodes' parameters
          triggers, loads

pluginVars == <<loaded, plugin, wiring, voicePool, envelopes, samplers, table, knobs, triggers, loads>>

Nodes == plugin.nodes
Index(p, id) == CHOOSE n \in DOMAIN p.nodes : p.nodes[n].id = id
SamplersOf(p) == {n \in DOMAIN p.nodes : p.nodes[n].type = "sampler"}
VoiceScoped(p, n) == p.type = "instrument" /\ p.nodes[n].scope = "voice" /\ p.nodes[n].type \notin {"sampler", "stage"}
EnvelopesOf(p) == {n \in DOMAIN p.nodes : VoiceScoped(p, n) /\ p.nodes[n].type = "envelope"}
VoicesOf(p) == IF p.type = "instrument" THEN p.voices ELSE 1
SlotsOfNode(p, n) == 1..(IF VoiceScoped(p, n) THEN VoicesOf(p) ELSE 1)

Idle == [active |-> FALSE, note |-> 0, age |-> 0, gate |-> FALSE, fade |-> 0]
Closed == [stage |-> 0, t |-> 0, from |-> FALSE, level |-> FALSE, released |-> FALSE]
Silent == [active |-> FALSE, note |-> 0, gain |-> 0, age |-> 0, zone |-> 0, slice |-> 0, choke |-> NoName,
           released |-> FALSE, pos |-> 0, step |-> 1, direction |-> 1, loopStart |-> 0, loopEnd |-> 0, end |-> 0]

----------------------------------------------------------------------------
(* build_topology: depth first, as in the workspace's compiler; what leads *)
(* back to a node still open reads the block before.                       *)

Internal(p) == {e \in DOMAIN p.wires : p.wires[e].from \in NodeIds(p) /\ p.wires[e].to \in NodeIds(p)}
EdgesOut(p, n) == {e \in Internal(p) : Index(p, p.wires[e].from) = n}

Smallest(S) == CHOOSE x \in S : \A y \in S : x <= y
Paint(s, n, colour) == [s EXCEPT !.colour[n] = colour]
Visit(p, s) ==
    IF s.stack = <<>>
    THEN LET start == Smallest({n \in DOMAIN s.colour : s.colour[n] = "white"})
         IN  [Paint(s, start, "grey") EXCEPT !.stack = <<start>>]
    ELSE LET node == s.stack[Len(s.stack)]
             rest == EdgesOut(p, node) \ s.looked
         IN  IF rest = {}
             THEN [Paint(s, node, "black") EXCEPT !.stack = SubSeq(@, 1, Len(@) - 1), !.order = <<node>> \o @]
             ELSE LET e == Smallest(rest)
                      dst == Index(p, p.wires[e].to)
                      seen == [s EXCEPT !.looked = @ \cup {e}]
                  IN  CASE s.colour[dst] = "white" -> [Paint(seen, dst, "grey") EXCEPT !.stack = Append(@, dst)]
                        [] s.colour[dst] = "grey" -> [seen EXCEPT !.delayed = @ \cup {e}]
                        [] s.colour[dst] = "black" -> seen
Topology(p) ==
    LET fresh == [colour |-> [n \in DOMAIN p.nodes |-> "white"], stack |-> <<>>, looked |-> {}, order |-> <<>>, delayed |-> {}]
        run[i \in 0..(2 * Len(p.nodes) + Len(p.wires))] ==
            IF i = 0 THEN fresh
            ELSE \* at most one step for each node entered, node left and edge
                 LET s == run[i - 1]
                 IN  IF Len(s.order) = Len(p.nodes) THEN s ELSE Visit(p, s)
        done == run[2 * Len(p.nodes) + Len(p.wires)]
    IN  [order |-> done.order, delayed |-> done.delayed]

----------------------------------------------------------------------------
(* NodeRuntime and NtpInstance as they are made.                           *)

\* An accepted archive takes the place of the plugin of its id; a refused one is reported.
Load == \E a \in Archives :
    /\ loads < MaxLoads
    /\ loads' = loads + 1
    /\ IF Acceptable(a) THEN loaded' = Plugin(a) ELSE UNCHANGED loaded
    /\ UNCHANGED <<plugin, wiring, voicePool, envelopes, samplers, table, knobs, triggers>>

\* add_param: the parameters a knob may be bound to.
ParamsOf(type) ==
    CASE type = "gain" -> {"gain"}
      [] type = "filter" -> {"frequency", "Q"}
      [] type = "oscillator" -> {"frequency", "detune", "gain"}
      [] type = "wavetable" -> {"frequency", "framePosition", "detune", "gain"}
      [] type = "envelope" -> {"release"}
      [] OTHER -> {}

\* The key of a knob is <<name>>, or <<node, parameter>>.
Bound(p, i) ==
    LET key == p.params[i].id
    IN  IF Len(key) = 1 \/ key[1] \notin NodeIds(p) THEN {}
        ELSE LET n == Index(p, key[1])
             IN  IF key[2] \in ParamsOf(p.nodes[n].type) THEN {<<n, s, key[2]>> : s \in SlotsOfNode(p, n)} ELSE {}
Turned(p, k, i, value) ==
    [k EXCEPT !.host[i] = value, !.base = [at \in DOMAIN @ |-> IF at \in Bound(p, i) THEN value ELSE @[at]]]

Baked(p, z) == p.samples[IF z.slot # <<>> THEN z.fallback ELSE z.file]
Groups(list) == {list[i].rr : i \in DOMAIN list} \ {NoName}
SlicesOf(n) == IF n.map = <<>> THEN <<>> ELSE n.map[1].slices
NewSampler(n) ==
    [voices |-> [v \in 1..n.polyphony |-> Silent], clock |-> 0,
     zoneTurn |-> [g \in Groups(n.zones) |-> 0], sliceTurn |-> [g \in Groups(SlicesOf(n)) |-> 0],
     zoneOverride |-> [z \in DOMAIN n.zones |-> Unset], sliceOverride |-> Unset]

CreateInstance ==
    /\ plugin = Unset /\ loaded # Unset
    /\ plugin' = loaded
    /\ wiring' = Topology(loaded)
    /\ voicePool' = [v \in 1..VoicesOf(loaded) |-> Idle]
    /\ envelopes' = [n \in EnvelopesOf(loaded) |-> [v \in 1..VoicesOf(loaded) |-> Closed]]
    /\ samplers' = [n \in SamplersOf(loaded) |-> NewSampler(loaded.nodes[n])]
    /\ table' = <<>>
    /\ knobs' = [host |-> [i \in DOMAIN loaded.params |-> loaded.params[i].def],
                 base |-> [at \in UNION {Bound(loaded, i) : i \in DOMAIN loaded.params} |->
                              loaded.params[CHOOSE i \in DOMAIN loaded.params : at \in Bound(loaded, i)].def]]
    /\ UNCHANGED <<loaded, triggers, loads>>

----------------------------------------------------------------------------
(* sampler_note_on                                                         *)

FirstLeast(voices, Rank(_)) ==
    CHOOSE v \in DOMAIN voices : \A w \in DOMAIN voices :
        Rank(voices[v]) < Rank(voices[w]) \/ (Rank(voices[v]) = Rank(voices[w]) /\ v <= w)
Free(voices) == {v \in DOMAIN voices : ~voices[v].active}
AgeOf(voice) == voice.age
GainOf(voice) == voice.gain

\* allocate_sampler_voice, and the same rule for the voicePool; 0 is no voice.
Allocate(voices, stealing) ==
    CASE Free(voices) # {} -> Smallest(Free(voices))
      [] Free(voices) = {} /\ stealing = "none" -> 0
      [] Free(voices) = {} /\ stealing = "quietest" -> FirstLeast(voices, GainOf)
      [] OTHER -> FirstLeast(voices, AgeOf)

Choke(voices, group) == [v \in DOMAIN voices |-> IF group # NoName /\ voices[v].choke = group THEN Silent ELSE voices[v]]

\* In its group, a zone or slice plays in its turn.
ItsTurn(list, i, turns) ==
    LET members == {j \in DOMAIN list : list[j].rr = list[i].rr}
    IN  list[i].rr = NoName \/ turns[list[i].rr] % Cardinality(members) = Cardinality({j \in members : j < i})
\* Every group that the note matches moves on, whether one of it played or not.
Advanced(list, turns, Matches(_)) ==
    [g \in DOMAIN turns |-> IF \E i \in DOMAIN list : list[i].rr = g /\ Matches(list[i]) THEN turns[g] + 1 ELSE turns[g]]

\* Of the voices to start, in order, the first for which there is room, and of all those
\* tried the chokes.
Start(s, stealing, ready, VoiceOf(_)) ==
    LET Try(acc, i) ==
            LET choked == Choke(acc.voices, VoiceOf(i).choke)
                v == Allocate(choked, stealing)
            IN  IF acc.started THEN acc
                ELSE IF v = 0 THEN [acc EXCEPT !.voices = choked]
                ELSE [started |-> TRUE, voices |-> [choked EXCEPT ![v] = [VoiceOf(i) EXCEPT !.age = s.clock + 1]]]
        run[i \in 0..Len(ready)] == IF i = 0 THEN [started |-> FALSE, voices |-> s.voices] ELSE Try(run[i - 1], ready[i])
        done == run[Len(ready)]
    IN  [s EXCEPT !.voices = done.voices, !.clock = IF done.started THEN @ + 1 ELSE @]

Or(a, b) == IF a # Unset THEN a ELSE b
InRange(z, note, vel) == note \in z.lo..z.hi /\ vel \in z.vlo..z.vhi
Lesser(a, b) == IF a < b THEN a ELSE b

ZoneVoice(p, n, s, z, note, vel) ==
    LET zone == p.nodes[n].zones[z]
        frames == Or(s.zoneOverride[z], Baked(p, zone))
    IN  [Silent EXCEPT !.active = TRUE, !.note = note, !.gain = vel, !.zone = z, !.choke = zone.choke,
                       !.pos = zone.start, !.step = IF zone.tracking /\ note > zone.root THEN 2 ELSE 1,
                       !.loopStart = zone.loopStart, !.loopEnd = IF zone.loopEnd > 0 THEN zone.loopEnd ELSE frames,
                       !.end = IF zone.duration > 0 THEN Lesser(frames, zone.start + zone.duration) ELSE frames]
SliceVoice(p, n, s, i, note, vel) ==
    LET slice == SlicesOf(p.nodes[n])[i]
    IN  [Silent EXCEPT !.active = TRUE, !.note = note, !.gain = vel, !.slice = i, !.choke = slice.choke, !.pos = slice.start,
                       !.end = Lesser(Or(s.sliceOverride, p.samples[p.nodes[n].map[1].path]), slice.end)]

StartZone(p, n, s, note, vel) ==
    LET zones == p.nodes[n].zones
        Fits(z) == InRange(z, note, vel)
        Ready(z) == ~zones[z].release /\ Fits(zones[z]) /\ ItsTurn(zones, z, s.zoneTurn)
        VoiceOf(z) == ZoneVoice(p, n, s, z, note, vel)
    IN  [Start(s, p.nodes[n].stealing, SelectSeq([z \in DOMAIN zones |-> z], Ready), VoiceOf) EXCEPT
            !.zoneTurn = Advanced(zones, @, Fits)]
StartSlice(p, n, s, note, vel) ==
    LET slices == SlicesOf(p.nodes[n])
        Fits(slice) == slice.note = note /\ vel >= slice.vel
        Ready(i) == Fits(slices[i]) /\ ItsTurn(slices, i, s.sliceTurn)
        VoiceOf(i) == SliceVoice(p, n, s, i, note, vel)
    IN  [Start(s, p.nodes[n].stealing, SelectSeq([i \in DOMAIN slices |-> i], Ready), VoiceOf) EXCEPT
            !.sliceTurn = Advanced(slices, @, Fits)]
SamplerNoteOn(p, n, s, note, vel) == StartSlice(p, n, StartZone(p, n, s, note, vel), note, vel)

\* note_on: the samplers, then a voice of the pool, or of the one longest held.
Restarted(e) == [e EXCEPT !.stage = 1, !.t = 0, !.from = e.level, !.released = FALSE]
KeyDown == \E note \in BaseNote..TopNote, vel \in Velocities :
    /\ plugin # Unset /\ triggers < MaxNotes
    /\ triggers' = triggers + 1
    /\ samplers' = [n \in DOMAIN samplers |-> SamplerNoteOn(plugin, n, samplers[n], note, vel)]
    /\ \E v \in {IF plugin.type # "instrument" THEN 0
                 ELSE Allocate(voicePool, IF plugin.stealing = "none" THEN "none" ELSE "oldest")} :
           IF v = 0 THEN UNCHANGED <<voicePool, envelopes>>
           ELSE /\ voicePool' = [voicePool EXCEPT ![v] = [active |-> TRUE, note |-> note, age |-> triggers + 1, gate |-> TRUE, fade |-> FadeBlocks]]
                /\ envelopes' = [n \in DOMAIN envelopes |-> [envelopes[n] EXCEPT ![v] = Restarted(@)]]
    /\ UNCHANGED <<loaded, plugin, wiring, table, knobs, loads>>

----------------------------------------------------------------------------
(* sampler_note_off, all_notes_off, plugin_reset                           *)

\* A release loop and a gated slice are cut, the rest play on without their loops.
Released(p, n, voice, note) ==
    IF ~voice.active \/ voice.note # note THEN voice
    ELSE IF \/ voice.zone # 0 /\ p.nodes[n].zones[voice.zone].loop = "release"
            \/ voice.slice # 0 /\ p.nodes[n].map[1].mode = "gated" /\ SlicesOf(p.nodes[n])[voice.slice].cut
         THEN Silent
         ELSE [voice EXCEPT !.released = TRUE]

\* Zones that play on release: each in a free voice, if there is one, and without choking.
ReleaseVoice(p, n, s, z, note) ==
    [ZoneVoice(p, n, s, z, note, 100) EXCEPT !.loopStart = 0, !.loopEnd = 0, !.released = TRUE,
        !.end = Or(s.zoneOverride[z], Baked(p, p.nodes[n].zones[z]))]
StartReleases(p, n, s, note) ==
    LET zones == p.nodes[n].zones
        Fire(acc, z) ==
            IF zones[z].release /\ InRange(zones[z], note, 100) /\ Free(acc.voices) # {}
            THEN [acc EXCEPT !.voices[Smallest(Free(acc.voices))] = [ReleaseVoice(p, n, s, z, note) EXCEPT !.age = acc.clock + 1],
                             !.clock = @ + 1]
            ELSE acc
        run[z \in 0..Len(zones)] == IF z = 0 THEN s ELSE Fire(run[z - 1], z)
    IN  run[Len(zones)]
SamplerNoteOff(p, n, s, note) ==
    StartReleases(p, n, [s EXCEPT !.voices = [v \in DOMAIN @ |-> Released(p, n, @[v], note)]], note)

\* The bound is on the ages too: a zone that plays on release is a note started.
RoomToRelease == triggers < MaxNotes
KeyUp == \E note \in BaseNote..TopNote :
    /\ plugin # Unset /\ RoomToRelease
    /\ samplers' = [n \in DOMAIN samplers |-> SamplerNoteOff(plugin, n, samplers[n], note)]
    /\ voicePool' = [v \in DOMAIN voicePool |-> IF voicePool[v].active /\ voicePool[v].note = note THEN [voicePool[v] EXCEPT !.gate = FALSE] ELSE voicePool[v]]
    /\ triggers' = triggers + 1
    /\ UNCHANGED <<loaded, plugin, wiring, envelopes, table, knobs, loads>>

\* Each of the notes there are is let go, so zones that play on release play.
AllNotesOff ==
    /\ plugin # Unset /\ RoomToRelease
    /\ samplers' = [n \in DOMAIN samplers |->
           LET run[i \in 0..(TopNote + 1)] == IF i = 0 THEN samplers[n] ELSE SamplerNoteOff(plugin, n, run[i - 1], i - 1)
           IN  run[TopNote + 1]]
    /\ voicePool' = [v \in DOMAIN voicePool |-> [voicePool[v] EXCEPT !.gate = FALSE]]
    /\ triggers' = triggers + 1
    /\ UNCHANGED <<loaded, plugin, wiring, envelopes, table, knobs, loads>>

Reset ==
    /\ plugin # Unset
    /\ voicePool' = [v \in DOMAIN voicePool |-> Idle]
    /\ samplers' = [n \in DOMAIN samplers |-> [samplers[n] EXCEPT !.voices = [v \in DOMAIN @ |-> Silent]]]
    /\ UNCHANGED <<loaded, plugin, wiring, envelopes, table, knobs, triggers, loads>>

----------------------------------------------------------------------------
(* Slots, knobs, presets                                                   *)

\* set_slot_override_buffer: every zone of the slot, and every map that cuts up its sample.
RetargetedZones(n, s, slot, frames) ==
    [s EXCEPT !.zoneOverride = [z \in DOMAIN @ |-> IF n.zones[z].slot = <<slot>> THEN frames ELSE @[z]]]
Retargeted(n, s, slot, frames) ==
    [s EXCEPT !.zoneOverride = [z \in DOMAIN @ |-> IF n.zones[z].slot = <<slot>> THEN frames ELSE @[z]],
              !.sliceOverride = IF n.map # <<>> /\ n.map[1].source = <<"slot", slot>> THEN frames ELSE @]
Assign(slot, frames) == samplers' = [n \in DOMAIN samplers |-> Retargeted(Nodes[n], samplers[n], slot, frames)]

SetSlotOverride == \E o \in Overrides :
    /\ plugin # Unset
    /\ Assign(o[1], o[2])
    /\ table' = (o[1] :> o[2]) @@ table
    /\ UNCHANGED <<loaded, plugin, wiring, voicePool, envelopes, knobs, triggers, loads>>

ClearSlotOverride == \E slot \in DOMAIN table :
    /\ plugin # Unset
    /\ Assign(slot, Unset)
    /\ table' = [s \in DOMAIN table \ {slot} |-> table[s]]
    /\ UNCHANGED <<loaded, plugin, wiring, voicePool, envelopes, knobs, triggers, loads>>

\* set_param and plugin_set_param_cv, then apply_preset.
SetParam == \E value \in KnobValues :
    /\ plugin # Unset
    /\ \E i \in DOMAIN plugin.params : knobs' = Turned(plugin, knobs, i, value)
    /\ UNCHANGED <<loaded, plugin, wiring, voicePool, envelopes, samplers, table, triggers, loads>>

ApplyPreset == \E value \in KnobValues :
    /\ plugin # Unset
    /\ \E r \in DOMAIN plugin.presets :
           LET sets == plugin.presets[r].sets
               run[i \in 0..Len(plugin.params)] ==
                   IF i = 0 THEN knobs
                   ELSE IF plugin.params[i].id \in sets THEN Turned(plugin, run[i - 1], i, value) ELSE run[i - 1]
           IN  knobs' = run[Len(plugin.params)]
    /\ UNCHANGED <<loaded, plugin, wiring, voicePool, envelopes, samplers, table, triggers, loads>>

----------------------------------------------------------------------------
(* process                                                                 *)

\* process_envelope: the level is on the way from the last stage's to this one's.
Sounded(stages, release, e, gate) ==
    LET r == IF gate \/ e.released THEN e ELSE [e EXCEPT !.released = TRUE, !.t = 0]
    IN  CASE r.released -> [r EXCEPT !.level = @ /\ r.t + 1 < release, !.t = IF r.level THEN @ + 1 ELSE 0]
          [] ~r.released /\ r.stage = 0 -> r
          [] OTHER -> IF r.t + 1 < stages[r.stage].time
                      THEN [r EXCEPT !.t = @ + 1, !.level = r.from \/ stages[r.stage].target]
                      ELSE [r EXCEPT !.level = stages[r.stage].target, !.from = stages[r.stage].target, !.t = 0,
                                     !.stage = IF @ = Len(stages) THEN 0 ELSE @ + 1]
EnvelopeActive(e) == ~e.released \/ e.level

\* One block of a voice: its envelopes or its fade, and its end.
EnvelopesAfter(p) ==
    [n \in DOMAIN envelopes |-> [v \in DOMAIN envelopes[n] |->
        IF voicePool[v].active THEN Sounded(p.nodes[n].stages, p.nodes[n].releaseTime, envelopes[n][v], voicePool[v].gate)
        ELSE envelopes[n][v]]]
VoiceAfter(voice, mine) ==
    LET faded == [voice EXCEPT !.fade = IF mine = {} /\ ~voice.gate /\ @ > 0 THEN @ - 1 ELSE @]
        done == IF mine # {} THEN \A e \in mine : ~EnvelopeActive(e) ELSE faded.fade = 0
    IN  IF ~voice.active THEN voice
        ELSE IF ~voice.gate /\ done THEN Idle
        ELSE faded

\* process_sampler: loops while the note is held, then on to the end.
LoopingOn(zones, voice) ==
    voice.zone # 0 /\ zones[voice.zone].loop \in {"forward", "pingpong"} /\ voice.loopEnd > voice.loopStart
Looping(zones, voice) ==
    /\ voice.zone # 0 /\ zones[voice.zone].loop \in {"forward", "pingpong"}
    /\ voice.loopEnd > voice.loopStart /\ ~voice.released
Wrapped(zones, voice) ==
    IF ~Looping(zones, voice) THEN voice
    ELSE IF zones[voice.zone].loop = "pingpong"
         THEN CASE voice.direction > 0 /\ voice.pos >= voice.loopEnd -> [voice EXCEPT !.direction = -1, !.pos = voice.loopEnd]
                [] voice.direction < 0 /\ voice.pos <= voice.loopStart -> [voice EXCEPT !.direction = 1, !.pos = voice.loopStart]
                [] OTHER -> voice
         ELSE IF voice.pos >= voice.loopEnd THEN [voice EXCEPT !.pos = voice.loopStart + (@ - voice.loopEnd)] ELSE voice
Played(zones, voice) ==
    IF ~voice.active THEN voice
    ELSE LET w == Wrapped(zones, voice)
         IN  IF w.pos < 0 \/ w.pos + 1 >= w.end THEN Silent ELSE [w EXCEPT !.pos = @ + w.step * w.direction]

Process ==
    /\ plugin # Unset
    /\ \E after \in {EnvelopesAfter(plugin)} :
           /\ envelopes' = after
           /\ voicePool' = [v \in DOMAIN voicePool |-> VoiceAfter(voicePool[v], {after[n][v] : n \in DOMAIN after})]
    /\ samplers' = [n \in DOMAIN samplers |->
           [samplers[n] EXCEPT !.voices = [v \in DOMAIN @ |-> Played(Nodes[n].zones, @[v])]]]
    /\ UNCHANGED <<loaded, plugin, wiring, table, knobs, triggers, loads>>

----------------------------------------------------------------------------

PluginInit ==
    /\ loaded = Unset /\ plugin = Unset /\ wiring = Unset /\ voicePool = <<>> /\ envelopes = <<>> /\ samplers = <<>>
    /\ table = <<>> /\ knobs = Unset /\ triggers = 0 /\ loads = 0

PluginNext ==
    \/ Load \/ CreateInstance
    \/ KeyDown \/ KeyUp \/ AllNotesOff \/ Reset
    \/ SetSlotOverride \/ ClearSlotOverride \/ SetParam \/ ApplyPreset
    \/ Process

\* The engine calls process for every block.
BlocksGoOn == WF_pluginVars(Process)

----------------------------------------------------------------------------

\* Zones and maps play what their slot was given, in every node, and nothing else.
SlotsAgree == \A n \in DOMAIN samplers :
    /\ \A z \in DOMAIN Nodes[n].zones :
           LET slot == Nodes[n].zones[z].slot
           IN  samplers[n].zoneOverride[z] = IF slot # <<>> /\ slot[1] \in DOMAIN table THEN table[slot[1]] ELSE Unset
    /\ Nodes[n].map # <<>> =>
           LET source == Nodes[n].map[1].source
           IN  samplers[n].sliceOverride = IF source[1] = "slot" /\ source[2] \in DOMAIN table THEN table[source[2]] ELSE Unset

\* A knob that is bound has the same value in every voice.
KnobsAgree == \A i \in DOMAIN plugin.params : \A at \in Bound(plugin, i) : knobs.base[at] = knobs.host[i]

\* Of what choke one another, one sounds, but for what plays on release.
OnePerChoke == \A n \in DOMAIN samplers : \A v, w \in DOMAIN samplers[n].voices :
    LET a == samplers[n].voices[v]
        b == samplers[n].voices[w]
        OnPress(x) == x.active /\ (x.zone # 0 => ~Nodes[n].zones[x.zone].release)
    IN  OnPress(a) /\ OnPress(b) /\ a.choke # NoName /\ a.choke = b.choke => v = w

\* Every node has its place; what is not delayed is computed before it is read, and what
\* is delayed closes a cycle.
Before(n, m) == \E i, j \in DOMAIN wiring.order : i < j /\ wiring.order[i] = n /\ wiring.order[j] = m
Feeds(edges) == {<<Index(plugin, plugin.wires[e].from), Index(plugin, plugin.wires[e].to)>> : e \in edges}
Onward(edges, S) ==
    LET grow[i \in 0..Len(Nodes)] == IF i = 0 THEN S ELSE grow[i - 1] \cup {f[2] : f \in {g \in Feeds(edges) : g[1] \in grow[i - 1]}}
    IN  grow[Len(Nodes)]
WiringOrdered ==
    /\ Len(wiring.order) = Len(Nodes) /\ {wiring.order[i] : i \in DOMAIN wiring.order} = DOMAIN Nodes
    /\ \A f \in Feeds(Internal(plugin) \ wiring.delayed) : Before(f[1], f[2])
    /\ \A f \in Feeds(wiring.delayed) : f[1] \in Onward(Internal(plugin) \ wiring.delayed, {f[2]})

\* plugins/: an instance is made of a plugin with nothing missing, and stays consistent
\* with the user's samples and knobs under every order of notes, resets and edits.
\* What never changes in an instance is looked at before its first note.
InstanceSound == plugin # Unset =>
    /\ triggers = 0 => PluginSound(plugin) /\ WiringOrdered
    /\ SlotsAgree /\ KnobsAgree /\ OnePerChoke

\* NtpInstance::process, NodeRuntime::process_envelope and process_sampler: when no more
\* notes come and go, as MaxNotes sees to, what was let go falls silent for good.
LetGoSounds ==
    \/ \E v \in DOMAIN voicePool : voicePool[v].active /\ ~voicePool[v].gate
    \/ \E n \in DOMAIN samplers : \E v \in DOMAIN samplers[n].voices :
           samplers[n].voices[v].active /\ samplers[n].voices[v].released
ReleasedVoicesEnd == <>[]~LetGoSounds
=============================================================================
