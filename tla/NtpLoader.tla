------------------------------ MODULE NtpLoader ------------------------------
(***************************************************************************)
(* plugins/ntp_loader.cpp with plugins/ntp_stage_host.cpp: what a plugin   *)
(* archive must be to be accepted, and what is made of it. Every mistake   *)
(* is collected; an archive with one is refused.                           *)
(*                                                                         *)
(* An archive is a record: files, from a path to [kind, frames, cues,      *)
(* onsets, ...], and a manifest. Numbers that only sound, names and labels *)
(* are left out; an empty name is NoName. Positions in samples are frames, *)
(* of a rate at which every division is exact.                             *)
(***************************************************************************)
EXTENDS Integers, Sequences, FiniteSets, TLC

CONSTANTS NoName,
          BaseNote,     \* kSliceBaseNote
          TopNote,      \* 127
          MinSlice,     \* kMinSliceSeconds, in frames
          MaxVoices,    \* 64
          MaxImpulse,   \* kConvolverMaxImpulseSeconds, in frames
          MaxStageParams,
          MaxDepth,     \* the levels that groups of controls may nest
          Platform      \* native_stage_platform_tag

ASSUME LoaderAssumption == BaseNote \in Nat /\ TopNote \in Nat /\ BaseNote <= TopNote

MaxSlices == TopNote + 1 - BaseNote

NodeTypes == {"gain", "filter", "oscillator", "envelope", "granular", "wavetable", "convolver", "sampler", "stage"}
IdsOf(list) == {list[i].id : i \in DOMAIN list}
Distinct(list) == Cardinality(IdsOf(list)) = Len(list)
Named(list) == NoName \notin IdsOf(list)

----------------------------------------------------------------------------
(* parse_ntp_manifest: one predicate for each part.                        *)

HeaderOK(m) ==
    /\ m.schema = 1 /\ m.id # NoName /\ m.name # NoName /\ m.type \in {"instrument", "fx"}
    /\ m.requires \subseteq {"userSamples"}

ParamsOK(m) ==
    /\ Named(m.params) /\ Distinct(m.params)
    /\ \A i \in DOMAIN m.params : LET p == m.params[i] IN p.min < p.max /\ p.def \in p.min..p.max

\* parse_slice_map: the author's slices, or a way to find them.
SlicesOK(map) ==
    /\ map.source # <<>> /\ map.mode \in {"oneShot", "gated"}
    /\ \A i \in DOMAIN map.slices :
           LET s == map.slices[i]
           IN  /\ 0 <= s.start /\ s.start < s.end /\ s.note <= TopNote /\ s.vel \in 1..127
               /\ s.note < 0 => BaseNote + i - 1 <= TopNote
    /\ (map.auto = NoName) # (map.slices = <<>>)
    /\ map.auto = "grid" => map.count \in 1..MaxSlices
    /\ map.auto \in {NoName, "grid", "transients", "markers"}

\* parse_node
ZoneOK(z) == IF z.slot = <<>> THEN z.file # NoName ELSE z.slot # <<NoName>> /\ z.fallback # NoName
NodeOK(n) ==
    /\ n.id # NoName /\ n.type \in NodeTypes
    /\ n.type = "stage" => n.scope # "voice" /\ n.file # NoName
    /\ n.type = "envelope" => n.stages # <<>>
    /\ n.type \in {"granular", "wavetable", "convolver"} => n.file # NoName
    /\ n.type = "sampler" => n.zones # <<>> \/ n.map # <<>>
    /\ \A i \in DOMAIN n.zones : ZoneOK(n.zones[i])
    /\ \A i \in DOMAIN n.map : SlicesOK(n.map[i])

NodeIds(m) == IdsOf(m.nodes)
AllZones(m) == UNION {{<<n, z>> : z \in DOMAIN m.nodes[n].zones} : n \in DOMAIN m.nodes}
ZoneAt(m, nz) == m.nodes[nz[1]].zones[nz[2]]
UserZones(m) == {nz \in AllZones(m) : ZoneAt(m, nz).slot # <<>>}
SlotIds(m) == {ZoneAt(m, nz).slot : nz \in UserZones(m)}

GraphOK(m) ==
    /\ \A i \in DOMAIN m.nodes : NodeOK(m.nodes[i])
    /\ Distinct(m.nodes)
    /\ Cardinality(SlotIds(m)) = Cardinality(UserZones(m))
    /\ UserZones(m) # {} => "userSamples" \in m.requires
    /\ \A i \in DOMAIN m.nodes : \A j \in DOMAIN m.nodes[i].map :
           m.nodes[i].map[j].source[1] = "slot" => <<m.nodes[i].map[j].source[2]>> \in SlotIds(m)

\* endpoint_ok: a voice's own input, and where its voice goes; the voices' mix is no source.
Sources(m) == NodeIds(m) \cup (IF m.type = "instrument" THEN {"voiceIn"} ELSE {"input"})
Sinks(m) == NodeIds(m) \cup (IF m.type = "instrument" THEN {"voiceOut", "output"} ELSE {"output"})
WiresOK(m) ==
    /\ \A i \in DOMAIN m.wires : /\ m.wires[i].from \in Sources(m)
                                 /\ m.wires[i].to \in (IF m.wires[i].param THEN NodeIds(m) ELSE Sinks(m))
    /\ \A i \in DOMAIN m.routes :
           /\ \/ m.routes[i].source[1] \in {"velocity", "note", "gate", "pitch"}
              \/ m.routes[i].source[1] = "node" /\ m.routes[i].source[2] \in NodeIds(m)
              \/ m.routes[i].source[1] = "param" /\ m.routes[i].source[2] \in IdsOf(m.params)
           /\ m.routes[i].targets # {} /\ m.routes[i].targets \subseteq NodeIds(m)

PortsOK(m) == \A side \in {m.inputs, m.outputs} :
    Named(side) /\ Distinct(side) /\ \A i \in DOMAIN side : side[i].kind \in {"audio", "sidechain", "cv", "gate", "midi"}

\* parse_control and the names of the sprites' animations. A control is [type, params,
\* options, asset, frameW, animations, plays, depth], the tree laid out as a sequence.
AnimationsOf(c) == [i \in DOMAIN c.animations |-> [id |-> c.animations[i].name]]
ControlOK(m, c) ==
    /\ c.params \subseteq IdsOf(m.params)
    /\ c.type = "select" => c.options # {}
    /\ c.type # "sprite" => c.animations = <<>>
    /\ c.animations # <<>> => c.frameW > 0
    /\ \A i \in DOMAIN c.animations : LET a == c.animations[i]
                                      IN  a.name # NoName /\ a.frames # {} /\ a.frames \subseteq Nat /\ a.fps > 0
    /\ c.depth <= MaxDepth
    /\ c.plays # NoName => \E d \in 1..Len(m.controls) : c.plays \in IdsOf(AnimationsOf(m.controls[d]))
ControlsOK(m) ==
    /\ \A i \in DOMAIN m.controls : ControlOK(m, m.controls[i]) /\ Distinct(AnimationsOf(m.controls[i]))
    /\ \A i, j \in DOMAIN m.controls :
           i # j => IdsOf(AnimationsOf(m.controls[i])) \cap IdsOf(AnimationsOf(m.controls[j])) = {}

PresetsOK(m) == Named(m.presets) /\ \A i \in DOMAIN m.presets : m.presets[i].sets \subseteq IdsOf(m.params)

ManifestOK(m) ==
    /\ HeaderOK(m) /\ ParamsOK(m) /\ GraphOK(m) /\ WiresOK(m) /\ PortsOK(m) /\ ControlsOK(m) /\ PresetsOK(m)

----------------------------------------------------------------------------
(* load_ntp_archive                                                        *)

Present(a, path, kinds) == path \in DOMAIN a.files /\ a.files[path].kind \in kinds

\* Where a map's samples are: in the archive, or in the slot's fallback.
OwnerOf(m, slot) == CHOOSE nz \in UserZones(m) : ZoneAt(m, nz).slot = <<slot>>
SourcePath(m, map) ==
    IF map.source[1] = "slot" THEN ZoneAt(m, OwnerOf(m, map.source[2])).fallback ELSE map.source[2]

\* NativeStageBinary::open: the version, the descriptor, the functions, then a trial.
StageOK(s) ==
    /\ s.exports /\ s.abi = 1 /\ s.name # NoName
    /\ Len(s.params) <= MaxStageParams /\ Named(s.params) /\ Distinct(s.params)
    /\ \A i \in DOMAIN s.params : s.params[i].min < s.params[i].max /\ s.params[i].def \in s.params[i].min..s.params[i].max
    /\ s.required /\ s.stateFns \in {0, 3} /\ s.creates

AssetsOK(a, n) ==
    /\ n.type \in {"granular", "wavetable", "convolver"} => Present(a, n.file, {"wav", "ogg"})
    /\ n.type = "convolver" => a.files[n.file].frames <= MaxImpulse
    /\ n.type = "stage" => Present(a, <<Platform, n.file>>, {"binary"}) /\ StageOK(a.files[<<Platform, n.file>>].stage)
    /\ n.type = "sampler" =>
           /\ \A i \in DOMAIN n.zones : \A path \in {n.zones[i].file, n.zones[i].fallback} \ {NoName} :
                  Present(a, path, {"wav", "ogg"})
           /\ \A i \in DOMAIN n.map : Present(a, SourcePath(a.manifest, n.map[i]), {"wav", "ogg"})

\* Controls' images, and the frames of animations against the sheet.
ImagesOK(a, c) ==
    c.asset # NoName =>
        /\ Present(a, c.asset, {"image"})
        /\ c.animations # <<>> => /\ c.frameW <= a.files[c.asset].width
                                  /\ \A i \in DOMAIN c.animations : \A f \in c.animations[i].frames :
                                         f < a.files[c.asset].width \div c.frameW

\* The slices between boundaries: the first from the start of the sample, none too short.
FromBoundaries(boundaries, frames) ==
    LET Keep(starts, b) == IF b > starts[Len(starts)] + MinSlice /\ b < frames - MinSlice
                           THEN Append(starts, b) ELSE starts
        run[i \in 0..Len(boundaries)] == IF i = 0 THEN <<0>> ELSE Keep(run[i - 1], boundaries[i])
        starts == run[Len(boundaries)]
    IN  [i \in DOMAIN starts |-> [start |-> starts[i], end |-> IF i < Len(starts) THEN starts[i + 1] ELSE frames,
                                  note |-> -1, vel |-> 1, choke |-> NoName, rr |-> NoName, cut |-> TRUE]]
OnsetsAllowed(onsets) == SubSeq(onsets, 1, MaxSlices - 1)
ResolvedSlices(file, map) ==
    CASE map.auto = NoName -> map.slices
      [] map.auto = "grid" -> [i \in 1..map.count |->
             [start |-> (file.frames * (i - 1)) \div map.count, end |-> (file.frames * i) \div map.count,
              note |-> -1, vel |-> 1, choke |-> NoName, rr |-> NoName, cut |-> TRUE]]
      [] map.auto = "transients" -> FromBoundaries(OnsetsAllowed(file.onsets), file.frames)
      [] map.auto = "markers" -> FromBoundaries(file.cues, file.frames)
MapOK(a, map) ==
    LET file == a.files[SourcePath(a.manifest, map)]
    IN  map.auto = "markers" => /\ file.kind = "wav" /\ file.cues # <<>>
                                /\ Len(FromBoundaries(file.cues, file.frames)) <= MaxSlices

Acceptable(a) ==
    /\ ManifestOK(a.manifest)
    /\ \A i \in DOMAIN a.manifest.nodes :
           LET n == a.manifest.nodes[i]
           IN  AssetsOK(a, n) /\ (n.type = "sampler" => \A j \in DOMAIN n.map : MapOK(a, n.map[j]))
    /\ \A i \in DOMAIN a.manifest.controls : ImagesOK(a, a.manifest.controls[i])

\* What is kept: scopes made good, the number of voices in its bounds, one output at
\* least, slices resolved and numbered.
ScopeOf(m, n) == IF m.type = "instrument" /\ n.type # "stage" /\ n.scope # "shared" THEN "voice" ELSE "shared"
Numbered(slices) == [i \in DOMAIN slices |-> [slices[i] EXCEPT !.note = IF @ >= 0 THEN @ ELSE BaseNote + i - 1]]
ResolvedMap(a, map) ==
    [source |-> map.source, path |-> SourcePath(a.manifest, map), mode |-> map.mode,
     slices |-> Numbered(ResolvedSlices(a.files[SourcePath(a.manifest, map)], map))]
ResolvedNode(a, n) ==
    [n EXCEPT !.scope = ScopeOf(a.manifest, n),
              !.map = IF n.type = "sampler" THEN [j \in DOMAIN n.map |-> ResolvedMap(a, n.map[j])] ELSE <<>>]
Plugin(a) ==
    LET m == a.manifest
    IN  [m EXCEPT !.voices = IF @ < 1 THEN 1 ELSE IF @ > MaxVoices THEN MaxVoices ELSE @,
                  !.outputs = IF @ = <<>> THEN <<[id |-> "main", kind |-> "audio"]>> ELSE @,
                  !.nodes = [i \in DOMAIN m.nodes |-> ResolvedNode(a, m.nodes[i])]]
    @@ [samples |-> [path \in {f \in DOMAIN a.files : a.files[f].kind \in {"wav", "ogg"}} |-> a.files[path].frames]]

----------------------------------------------------------------------------

\* What an instance takes for granted of a plugin that was accepted: whatever is named is
\* there, zones and slices have audio to play, and each slice has a note and a length.
PluginSound(p) ==
    /\ p.voices \in 1..MaxVoices /\ p.outputs # <<>>
    /\ \A i \in DOMAIN p.wires : p.wires[i].from \in Sources(p) /\ p.wires[i].to \in Sinks(p)
    /\ \A i \in DOMAIN p.nodes :
           /\ \A z \in DOMAIN p.nodes[i].zones :
                  (IF p.nodes[i].zones[z].slot # <<>> THEN p.nodes[i].zones[z].fallback ELSE p.nodes[i].zones[z].file)
                      \in DOMAIN p.samples
           /\ \A j \in DOMAIN p.nodes[i].map :
                  /\ p.nodes[i].map[j].path \in DOMAIN p.samples
                  /\ \A s \in DOMAIN p.nodes[i].map[j].slices :
                         /\ p.nodes[i].map[j].slices[s].note \in 0..TopNote
                         /\ p.nodes[i].map[j].slices[s].start < p.nodes[i].map[j].slices[s].end
=============================================================================
