----------------------------- MODULE MCPlayback -----------------------------
(***************************************************************************)
(* Small songs for Playback: two channels, patterns of one to three rows,  *)
(* every effect the sequencer acts on, a plugin and a sample instrument.   *)
(* The MIDI output thread, which shares nothing with the transport but the *)
(* snapshot and the events it is handed, and an instance of a plugin, which *)
(* is handed notes, are checked in the same runs, next to it: part says    *)
(* which of the three a behaviour is of.                                   *)
(***************************************************************************)
EXTENDS Playback, MidiOut, NtpInstance

VARIABLE part

Off == NoteOff
E == Cell(0, 0, "none", 0)
Fx(fx, arg) == Cell(0, 0, fx, arg)
N(note, ins) == Cell(note, ins, "none", 0)

Layer(ch, slot, notes) == [ch |-> ch, slot |-> slot, notes |-> notes]
LayerNote(start, dur, pitch) == [start |-> start, dur |-> dur, pitch |-> pitch]

Song(orders, patterns, layers, speed) ==
    [project |-> [orders |-> orders, patterns |-> patterns, layers |-> layers,
                  table |-> <<"plugin", "sample">>, tracks |-> <<{2}, {2}>>, channels |-> 2, speed |-> speed],
     plugins |-> {1}, samples |-> {2}]

\* Breaks and delays, forward only, and a note that takes the second instrument of its
\* channel; a layer that fills the pool.
ForwardSong ==
    Song(<<0, 1, 0>>,
         << << <<N(1, 1), Cell(3, 2, "notedelay", 1)>>, <<N(Off, 0), Fx("delay", 2)>> >>,
            << <<Cell(2, 1, "break", 1), [N(4, 0) EXCEPT !.sub = 1]>>, <<E, E>>, <<N(5, 1), E>> >> >>,
         << <<Layer(1, 2, <<LayerNote(0, 1, 60), LayerNote(1, 1, 62)>>)>>,
            <<Layer(2, 1, <<LayerNote(0, 2, 13)>>), Layer(2, 2, <<LayerNote(0, 9, 60), LayerNote(1, 9, 60)>>)>> >>,
         2)

\* Jumps, loops and a break past the last order.
JumpingSong ==
    Song(<<0, 1>>,
         << << <<Fx("loop", 0), N(1, 1)>>, <<Fx("retrig", 1), Fx("loop", 2)>>, <<Cell(6, 1, "cut", 1), Fx("jump", 9)>> >>,
            << <<Cell(2, 2, "porta", 0), Fx("break", 7)>>, <<Fx("speed", 0), E>> >> >>,
         << <<>>, <<>> >>, 2)

\* A channel that moves from one plugin to another.
TwoPlugins ==
    [Song(<<0>>, << << <<N(1, 1), E>>, <<N(2, 2), E>> >> >>, << <<>> >>, 1) EXCEPT
        !.plugins = {1, 2}, !.samples = {}, !.project.table = <<"plugin", "plugin">>]

\* A loop of two rows, at a speed above one.
LoopSong ==
    Song(<<0>>, << << <<N(1, 1), E>>, <<Fx("loop", 1), E>>, <<E, E>> >> >>, << <<>> >>, 2)

MCSongs == {ForwardSong, JumpingSong}
PluginSongs == {TwoPlugins}
LoopSongs == {LoopSong}
MCMasks == {{1, 2}, {2}}

----------------------------------------------------------------------------
\* Plugin archives: a drum kit with a looped, replaceable zone, two zones in turn, one that
\* plays on release and a gated map; a string without envelopes; an effect; and what the
\* loader must refuse, each with one mistake.
Zone == [slot |-> <<>>, file |-> "a.wav", fallback |-> NoName, lo |-> 1, hi |-> 2, vlo |-> 1, vhi |-> 127, release |-> FALSE,
         rr |-> NoName, choke |-> NoName, loop |-> "none", loopStart |-> 0, loopEnd |-> 0, start |-> 0, duration |-> 0,
         tracking |-> FALSE, root |-> 1]
DspNode(id, type, scope) ==
    [id |-> id, type |-> type, scope |-> scope, file |-> NoName, stages |-> <<>>, zones |-> <<>>, map |-> <<>>,
     polyphony |-> 2, stealing |-> "oldest", releaseTime |-> 2]
Wire2(from, to) == [from |-> from, to |-> to, param |-> FALSE]
Knob(id) == [id |-> id, min |-> 0, max |-> 2, def |-> 1]
Manifest(type, nodes, wires) ==
    [schema |-> 1, id |-> "kit", name |-> "kit", type |-> type, requires |-> {}, params |-> <<>>, nodes |-> nodes, wires |-> wires,
     routes |-> <<>>, inputs |-> <<>>, outputs |-> <<>>, controls |-> <<>>, presets |-> <<>>, voices |-> 2, stealing |-> "oldest"]
Audio(length) == [kind |-> "wav", frames |-> length, cues |-> <<>>, onsets |-> <<1, 2>>]

SlotZone == [Zone EXCEPT !.slot = <<"snare">>, !.file = NoName, !.fallback = "a.wav", !.choke = "hat", !.hi = 1,
                         !.loop = "forward", !.loopEnd = 2]
KitDrums ==
    [DspNode("drums", "sampler", "voice") EXCEPT
        !.zones = <<SlotZone, [Zone EXCEPT !.lo = 2, !.rr = "pair"], [Zone EXCEPT !.lo = 2, !.rr = "pair", !.choke = "hat", !.loop = "pingpong", !.loopEnd = 2],
                    [Zone EXCEPT !.release = TRUE, !.hi = 1, !.choke = "hat"]>>,
        !.map = <<[source |-> <<"slot", "snare">>, mode |-> "gated", auto |-> "grid", count |-> 2, slices |-> <<>>]>>]
Kit == [manifest |->
            [Manifest("instrument",
                      <<[DspNode("env", "envelope", "voice") EXCEPT !.stages = <<[target |-> TRUE, time |-> 1]>>], KitDrums,
                        DspNode("filter", "filter", "shared")>>,
                      <<Wire2("filter", "drums"), Wire2("drums", "filter"), Wire2("env", "voiceOut"), Wire2("filter", "output")>>)
                EXCEPT !.requires = {"userSamples"}, !.params = <<Knob(<<"env", "release">>)>>,
                       !.presets = <<[id |-> "soft", sets |-> {<<"env", "release">>}]>>],
        files |-> ("a.wav" :> Audio(4))]
String ==
    [manifest |-> [Manifest("instrument", <<DspNode("osc", "oscillator", "voice")>>, <<Wire2("osc", "voiceOut")>>) EXCEPT
                      !.stealing = "none", !.params = <<Knob(<<"osc", "gain">>)>>],
     files |-> <<>>]
Sprite(plays, frameIds) ==
    [type |-> "sprite", params |-> {}, options |-> {}, asset |-> "lamp.png", frameW |-> 1, depth |-> 0, plays |-> plays,
     animations |-> <<[name |-> "blink", frames |-> frameIds, fps |-> 1]>>]
Effect ==
    [manifest |-> [Manifest("fx", <<[DspNode("chop", "sampler", "shared") EXCEPT !.stealing = "quietest", !.polyphony = 2,
                        !.zones = <<[Zone EXCEPT !.tracking = TRUE, !.loop = "release"]>>,
                        !.map = <<[source |-> <<"file", "b.wav">>, mode |-> "oneShot", auto |-> NoName, count |-> 0,
                                   slices |-> <<[start |-> 0, end |-> 2, note |-> -1, vel |-> 1, choke |-> NoName, rr |-> "two", cut |-> TRUE],
                                                [start |-> 2, end |-> 9, note |-> 1, vel |-> 60, choke |-> NoName, rr |-> "two", cut |-> TRUE]>>]>>]>>,
                    <<Wire2("input", "chop"), Wire2("chop", "output")>>) EXCEPT !.outputs = <<[id |-> "out", kind |-> "audio"]>>, !.controls = <<Sprite("blink", {0, 1})>>],
     files |-> ("a.wav" :> Audio(3) @@ "b.wav" :> Audio(3) @@ "lamp.png" :> [kind |-> "image", width |-> 2])]
Refused ==
    {[Kit EXCEPT !.manifest.id = NoName], [Kit EXCEPT !.manifest.requires = {}], [Kit EXCEPT !.files = <<>>],
     [Kit EXCEPT !.manifest.params[1].def = 3], [Kit EXCEPT !.manifest.params = <<Knob(<<"tone">>), Knob(<<"tone">>)>>],
     [Kit EXCEPT !.manifest.nodes[1].stages = <<>>], [Kit EXCEPT !.manifest.nodes[2].zones[1].fallback = NoName],
     [Kit EXCEPT !.manifest.nodes[2].zones[2].slot = <<"snare">>, !.manifest.nodes[2].zones[2].fallback = "a.wav"],
     [Kit EXCEPT !.manifest.nodes[2].map[1].source = <<"slot", "tom">>], [Kit EXCEPT !.manifest.nodes[2].map[1].count = 3],
     [Kit EXCEPT !.manifest.nodes[2].map[1].auto = "markers"], [Kit EXCEPT !.manifest.wires[1].from = "voiceOut"],
     [Kit EXCEPT !.manifest.presets[1].sets = {<<"cutoff">>}], [Kit EXCEPT !.manifest.nodes[3].id = "env"],
     [Effect EXCEPT !.manifest.nodes[1].map[1].slices[1].end = 0], [Effect EXCEPT !.manifest.wires[1].from = "voiceIn"],
     [Effect EXCEPT !.manifest.controls[1] = Sprite("blink", {2})], [Effect EXCEPT !.manifest.controls[1] = Sprite("glow", {0})],
     [String EXCEPT !.manifest.nodes[1] = DspNode("osc", "stage", "shared")]}
MCArchives == {Kit, String, Effect} \cup Refused
MCOverrides == {<<"snare", 3>>}

MCInit == /\ part \in {"transport", "output", "plugin"}
          /\ PlaybackInit /\ MidiOutInit /\ PluginInit
MCNext == \/ part = "transport" /\ PlaybackNext /\ UNCHANGED <<part, midiOutVars, pluginVars>>
          \/ part = "output" /\ MidiOutNext /\ UNCHANGED <<part, playbackVars, pluginVars>>
          \/ part = "plugin" /\ PluginNext /\ UNCHANGED <<part, playbackVars, midiOutVars>>
MCSpec == MCInit /\ [][MCNext]_<<part, playbackVars, midiOutVars, pluginVars>> /\ TicksGoOn /\ BlocksGoOn

\* Types of the three, and a slave that has its clock only while it runs.
PlayingTypeOK == PlaybackTypeOK /\ MidiOutTypeOK /\ ClockOnlyRunning
=============================================================================
