------------------------------ MODULE Playback ------------------------------
(***************************************************************************)
(* The playing half of audio/audio_engine.cpp: the transport, the ticks of *)
(* the sequencer (Tracker), and the notes they start and end on the        *)
(* channels' MIDI lists, in plugin instances and in the layered voices.    *)
(*                                                                         *)
(* The state is the audio thread's own; the interleaving is between its    *)
(* ticks and the commands that other threads sent, which a pull applies    *)
(* before it renders. ReclaimFence has the queue they travel through.      *)
(*                                                                         *)
(* lane, forgotten and sounding are what is heard: the notes on each       *)
(* channel's MIDI list that were started and not ended, those of them the  *)
(* engine no longer remembers, and the notes held in each plugin instance, *)
(* with who started them.                                                  *)
(***************************************************************************)
EXTENDS Tracker

CONSTANTS Songs,        \* the bundles a session may publish: see Bundle
          Channels,     \* channels are 1..Channels
          PoolSize,     \* kMaxSeqVoices
          Masks,        \* the channel masks an export sets
          MaxOrders,    \* bound: the starts and ends asked for are at most this
          Speeds,       \* bound: the speeds a live edit sets
          PreviewNotes, \* bound: the notes auditioned on a plugin
          MaxCommands   \* bound: commands in a behaviour

ASSUME PlaybackAssumption == /\ \A s \in Songs : Typed(s.project) /\ Playable(s.project)
                             /\ \A s \in Songs : s.project.channels <= Channels
                             /\ Channels \in Nat \ {0}
                             /\ PoolSize \in Nat \ {0}
                             /\ MaxOrders \in Nat
                             /\ Speeds \subseteq 1..31
                             /\ MaxCommands \in Nat
                             /\ \A m \in Masks : m \subseteq 1..Channels

VARIABLES song,         \* bundle_: a project, the slots bound to plugins, the slots with a sample
          play,         \* play_state_
          rolling,      \* transport_playing_
          bound,        \* transport_end_bound_
          mask,         \* channel_mask_
          voice,        \* voices_: the channels whose voice is active
          midiNote,     \* midi_note_
          plugNote,     \* plugin_note_
          plugSlot,     \* plugin_slot_
          pool,         \* seq_voices_: the active ones, the oldest first
          lane, forgotten, sounding,
          sent

playbackVars == <<song, play, rolling, bound, mask, voice, midiNote, plugNote,
                  plugSlot, pool, lane, forgotten, sounding, sent>>

Channel == 1..Channels
None == -1
Project == song.project
Slots == UNION {s.plugins \cup s.samples : s \in Songs}

\* Tracker note 1 is C-0, MIDI 12; a MIDI list carries seven bits of it.
Midi(note) == note + 11
Wire(midi) == midi % 128

----------------------------------------------------------------------------
(* The outputs of a tick.                                                  *)

\* What the outputs of a tick change, as one record that the triggers and the
\* channels pass through in turn.
Heard == [voice |-> voice, midiNote |-> midiNote, plugNote |-> plugNote,
          plugSlot |-> plugSlot, pool |-> pool, lane |-> lane, sounding |-> sounding]

\* A layered voice: the first free one of the pool, or the oldest.
StartVoice(voices, t) ==
    Append(IF Len(voices) = PoolSize THEN Tail(voices) ELSE voices,
           [ch |-> t.ch, layer |-> t.layer, pitch |-> t.pitch])

\* A note-off ends the voices of its channel, layer and pitch.
EndVoices(voices, t) ==
    LET Keep(kept, v) == IF <<v.ch, v.layer, v.pitch>> = <<t.ch, t.layer, t.pitch>>
                         THEN kept ELSE Append(kept, v)
    IN  FoldLeft(Keep, <<>>, voices)

\* A plugin instance holds a pitch once, for whoever started it last, and any
\* note-off of the pitch ends it.
Release(notes, pitch) == {n \in notes : n.pitch # pitch}
Hold(notes, pitch, by) == Release(notes, pitch) \cup {[pitch |-> pitch, by |-> by]}

\* handle_seq_triggers, one trigger: a plugin's note, or a voice of the pool.
SeqTrigger(h, t) ==
    CASE t.ch \notin mask -> h
      [] t.ch \in mask /\ t.slot \in song.plugins /\ t.on ->
            [h EXCEPT !.sounding[t.slot] = Hold(@, t.pitch, "layer")]
      [] t.ch \in mask /\ t.slot \in song.plugins /\ ~t.on ->
            [h EXCEPT !.sounding[t.slot] = Release(@, t.pitch)]
      [] t.ch \in mask /\ t.slot \notin song.plugins /\ ~t.on ->
            [h EXCEPT !.pool = EndVoices(@, t)]
      [] t.ch \in mask /\ t.slot \in song.samples \ song.plugins /\ t.on ->
            [h EXCEPT !.pool = StartVoice(@, t)]
      [] OTHER -> h

\* A note-off for the note the channel holds, if it holds one.
LaneOff(h, ch) ==
    [h EXCEPT !.midiNote[ch] = None, !.lane[ch] = @ \ {Wire(h.midiNote[ch])}]

LaneOn(h, ch, c) ==
    [h EXCEPT !.midiNote[ch] = Midi(c.note), !.lane[ch] = @ \cup {Wire(Midi(c.note))}]

LaneStartsOnly(h, ch, c, p) == IF c.trigger /\ c.note > 0 THEN LaneOn(h, ch, c) ELSE h

\* The channel's MIDI list: release, then retrigger, then the note cut. The tick
\* the cut is compared with is the one advance_tick has moved on to.
LaneEvents(h, ch, c, p) ==
    LET released == IF c.release /\ h.midiNote[ch] # None THEN LaneOff(h, ch) ELSE h
        started == IF c.trigger /\ c.note > 0
                   THEN LaneOn(IF released.midiNote[ch] # None THEN LaneOff(released, ch)
                                                               ELSE released, ch, c)
                   ELSE released
        cuts == c.rowFx = "cut" /\ p.tick = c.rowArg /\ p.tick > 0
    IN  IF cuts /\ started.midiNote[ch] # None THEN LaneOff(started, ch) ELSE started

PluginReleaseSilently(h, ch) == [h EXCEPT !.plugNote[ch] = None]

\* A release ends the channel's voice and the plugin note it holds, at the
\* instance it was started on.
PluginRelease(h, ch) ==
    LET slot == h.plugSlot[ch]
        ended == IF slot \in song.plugins
                 THEN [h.sounding EXCEPT ![slot] = Release(@, h.plugNote[ch])] ELSE h.sounding
    IN  IF h.plugNote[ch] = None THEN h
        ELSE [h EXCEPT !.plugNote[ch] = None, !.sounding = ended]

\* A plugin note: the held note is ended at the instance the new one starts on,
\* whichever instance holds it.
PluginTrigger(h, ch, c) ==
    [h EXCEPT !.sounding[c.ins] = Hold(Release(@, h.plugNote[ch]), Midi(c.note), "lane"),
              !.plugNote[ch] = Midi(c.note), !.plugSlot[ch] = c.ins]

\* handle_tick_outputs, one channel.
ChannelOutput(h, ch, p) ==
    LET c == p.chan[ch]
        events == LaneEvents(h, ch, c, p)
        released == IF c.release THEN PluginRelease([events EXCEPT !.voice = @ \ {ch}], ch)
                                 ELSE events
    IN  CASE ch \notin mask -> h
          [] ch \in mask /\ c.trigger /\ c.type = "plugin" /\ c.ins \in song.plugins ->
                PluginTrigger(released, ch, c)
          [] ch \in mask /\ c.trigger /\ c.type = "sample" /\ c.ins \in song.samples ->
                [released EXCEPT !.voice = @ \cup {ch}]
          [] OTHER -> released

\* handle_tick_outputs: the layers' triggers, then the channels in turn.
TickOutputs(p) ==
    LET Output(h, ch) == ChannelOutput(h, ch, p)
    IN  FoldLeft(Output, FoldLeft(SeqTrigger, Heard, p.seq), [ch \in 1..Project.channels |-> ch])

----------------------------------------------------------------------------
(* The commands, as drain_commands applies them.                           *)

NoSong == [project |-> <<>>, plugins |-> {}, samples |-> {}]
Loaded == song # NoSong

Command == sent < MaxCommands /\ sent' = sent + 1

NoteStateUnchanged == UNCHANGED <<midiNote, plugNote, plugSlot, lane, forgotten>>

\* kSetBundle: everything stops; the held MIDI notes are forgotten, not ended,
\* and the plugin notes are ended by the reset of the instances but remembered.
SetBundle ==
    \E s \in Songs :
        /\ Command
        /\ song' = s
        /\ rolling' = FALSE /\ bound' = 0 /\ mask' = Channel
        /\ voice' = {} /\ pool' = <<>>
        /\ sounding' = [slot \in DOMAIN sounding |->
                            IF slot \in s.plugins THEN {} ELSE sounding[slot]]
        /\ forgotten' = lane
        /\ midiNote' = [ch \in Channel |-> None]
        /\ UNCHANGED <<play, plugNote, plugSlot, lane>>

\* kTransportPlay: from an order, up to a bound when an export sends one.
TransportPlay ==
    \E start \in 0..MaxOrders, end \in 0..MaxOrders :
        /\ Command /\ Loaded
        /\ LET orders == Len(Project.orders)
               pos == Least(start, orders - 1)
           IN  /\ play' = [CreatePlayState(Project) EXCEPT
                              !.order = pos, !.pat = OrderAt(Project, pos)]
               /\ bound' = Least(end, orders)
        /\ rolling' = TRUE
        /\ UNCHANGED <<song, mask, voice, pool, sounding>> /\ NoteStateUnchanged

\* kTransportStop: the channels' voices end; plugin notes, MIDI notes and layered
\* voices stay as they are.
TransportStop ==
    /\ Command
    /\ rolling' = FALSE /\ bound' = 0 /\ voice' = {}
    /\ UNCHANGED <<song, play, mask, pool, sounding>> /\ NoteStateUnchanged

\* kSetChannelMask
SetMask ==
    \E m \in Masks :
        /\ Command /\ mask' = m
        /\ UNCHANGED <<song, play, rolling, bound, voice, pool, sounding>> /\ NoteStateUnchanged

\* kSetTempo, its ticks per row.
SetTempo ==
    \E speed \in Speeds :
        /\ Command /\ play' = [play EXCEPT !.speed = speed]
        /\ UNCHANGED <<song, rolling, bound, mask, voice, pool, sounding>> /\ NoteStateUnchanged

\* kPreviewNote: an audition takes over the voice of a channel.
PreviewNote ==
    \E ch \in Channel :
        /\ Command /\ Loaded /\ voice' = voice \cup {ch}
        /\ UNCHANGED <<song, play, rolling, bound, mask, pool, sounding>> /\ NoteStateUnchanged

\* kPluginNoteOn and kPluginNoteOff
PluginNote ==
    \E slot \in song.plugins, midi \in {Midi(n) : n \in PreviewNotes}, on \in BOOLEAN :
        /\ Command
        /\ sounding' = [sounding EXCEPT ![slot] = 
                            IF on THEN Hold(@, midi, "audition") ELSE Release(@, midi)]
        /\ UNCHANGED <<song, play, rolling, bound, mask, voice, pool>> /\ NoteStateUnchanged

----------------------------------------------------------------------------
(* A tick of the transport, and the voices that reach their end.           *)

\* advance_transport_in_block at a tick's edge: a bounded transport parks at its
\* bound or the song's end, and the outputs of that tick are not heard.
Tick ==
    /\ rolling
    /\ \E p \in {AdvanceTick(play, Project)} :
       \E parks \in {bound > 0 /\ (p.songEnded \/ p.order >= bound)} :
       \E h \in {IF parks THEN Heard ELSE TickOutputs(p)} :
           /\ play' = IF parks THEN [p EXCEPT !.songEnded = TRUE] ELSE p
           /\ rolling' = ~parks
           /\ voice' = h.voice /\ pool' = h.pool
           /\ midiNote' = h.midiNote /\ lane' = h.lane
           /\ plugNote' = h.plugNote /\ plugSlot' = h.plugSlot
           /\ sounding' = h.sounding
           /\ forgotten' = [ch \in Channel |-> forgotten[ch] \cap h.lane[ch]]
    /\ UNCHANGED <<song, bound, mask, sent>>

\* render_voices_span and render_seq_voices_span: a sample played to its end.
VoiceEnds ==
    /\ \/ \E ch \in voice : voice' = voice \ {ch} /\ UNCHANGED pool
       \/ \E i \in DOMAIN pool : pool' = RemoveAt(pool, i) /\ UNCHANGED voice
    /\ UNCHANGED <<song, play, rolling, bound, mask, sounding, sent>> /\ NoteStateUnchanged

----------------------------------------------------------------------------
PlaybackInit ==
    /\ song = NoSong
    /\ play = CreatePlayState([orders |-> <<>>, speed |-> 6, channels |-> Channels])
    /\ rolling = FALSE /\ bound = 0 /\ mask = Channel
    /\ voice = {} /\ pool = <<>>
    /\ midiNote = [ch \in Channel |-> None]
    /\ plugNote = [ch \in Channel |-> None] /\ plugSlot = [ch \in Channel |-> 0]
    /\ lane = [ch \in Channel |-> {}] /\ forgotten = [ch \in Channel |-> {}]
    /\ sounding = [slot \in Slots |-> {}]
    /\ sent = 0

PlaybackNext ==
    \/ SetBundle \/ TransportPlay \/ TransportStop \/ SetMask \/ SetTempo
    \/ PreviewNote \/ PluginNote \/ Tick \/ VoiceEnds

PlaybackSpec == PlaybackInit /\ [][PlaybackNext]_playbackVars

\* The device goes on pulling, and each pull of a rolling transport reaches the
\* next tick: Tick needs no other thread. It is enabled whenever the transport
\* rolls, so that this is WF_playbackVars(Tick), with nothing to evaluate it by.
TicksGoOn == []<>~rolling \/ []<><<Tick>>_playbackVars
PlaybackFairSpec == PlaybackSpec /\ TicksGoOn

----------------------------------------------------------------------------
(* Properties.                                                             *)

\* Types: the fields of the play state the engine indexes with are numbers of
\* the right kind, what is held is a MIDI note or none. A speed is one Fxx can
\* give, the song's own, which no reader clamps, or the 6 of a new play state.
PlaybackTypeOK ==
    /\ song \in Songs \cup {NoSong}
    /\ rolling \in BOOLEAN /\ bound \in 0..MaxOrders
    /\ rolling => Loaded
    /\ {play.order, play.row, play.tick, play.delay, play.nextRow} \subseteq Nat
    /\ play.speed \in 1..31 \cup {s.project.speed : s \in Songs} \cup {6}
    /\ voice \subseteq Channel /\ mask \subseteq Channel
    /\ midiNote \in [Channel -> Nat \cup {None}] /\ plugNote \in [Channel -> Nat \cup {None}]
    /\ plugSlot \in [Channel -> Slots \cup {0}]
    /\ Len(pool) <= PoolSize

\* A rolling transport stands in the song: after any run of jumps, breaks, loops,
\* delays and tempo edits its order, its pattern, its row and the row a loop
\* rewinds to exist in the bundle it plays, which advance_tick indexes unchecked.
PositionInSong ==
    rolling =>
        /\ play.order < Len(Project.orders)
        /\ play.pat = OrderAt(Project, play.order)
        /\ play.row < Len(PatternById(Project, play.pat))
        /\ play.loopRow < Len(PatternById(Project, play.pat))

\* Every note-on of a channel's MIDI list is paired: what sounds on a cable is
\* the one note the engine remembers, or was forgotten by a bundle swap. Release,
\* retrigger, cut, delay, mask and stop, in any order, leave no other note on.
LanePaired ==
    \A ch \in Channel :
        lane[ch] \ forgotten[ch] \subseteq {Wire(midiNote[ch])} \ {Wire(None)}

\* A plugin note the pattern started is held by a channel, which will end it.
PluginNotesHeld ==
    \A slot \in song.plugins : \A n \in sounding[slot] :
        n.by = "lane" => \E ch \in Channel : plugSlot[ch] = slot /\ plugNote[ch] = n.pitch

\* A song whose rows only go forward: no jump, no loop, and no break where the
\* next order is the first.
Forward(project) ==
    \A pos \in 0..(Len(project.orders) - 1) :
        LET pattern == PatternById(project, OrderAt(project, pos))
            last == pos = Len(project.orders) - 1
        IN  \A row \in DOMAIN pattern : \A ch \in DOMAIN pattern[row] :
                /\ pattern[row][ch].fx \notin {"jump", "loop"}
                /\ pattern[row][ch].fx = "break" => ~last

\* An export of such a song ends: a transport with a bound parks, whatever breaks,
\* pattern delays and tempo edits it meets on the way, unless a transport without
\* a bound takes its place.
BoundedPlayEnds == (rolling /\ bound > 0 /\ Forward(Project)) ~> (~rolling \/ bound = 0)

\* A loop that a row asks for is taken: the row with the E6x is not left forward while the
\* loop still has passes to make. The rows before it are, on every pass.
EndsLoop(row) == \E ch \in DOMAIN row : row[ch].fx = "loop" /\ row[ch].arg > 0
LoopIsTaken ==
    [][(rolling /\ play.order = play'.order /\ play.row < play'.row
            /\ EndsLoop(PatternById(Project, play.pat)[play.row + 1])) => play'.loopCount = 0]_playbackVars
=============================================================================
