------------------------------- MODULE MidiOut -------------------------------
(***************************************************************************)
(* midi/midi_out_thread.cpp: the thread that sends MIDI at its time. One   *)
(* pass of run() reads the engine's snapshot, collects what was queued,    *)
(* sends what is due by its estimate of the sample clock, and keeps a      *)
(* slave's clock running with the transport.                               *)
(*                                                                         *)
(* The senders are the graph's Ext MIDI Out nodes (with a sample time) and *)
(* queue() (time 0: at once). A message is its time and the number it was  *)
(* sent under; wire is what the port has seen of them, slave what the      *)
(* start and stop bytes have told the other end.                           *)
(***************************************************************************)
EXTENDS Integers, Sequences, FiniteSets, SequencesExt

CONSTANTS MaxPending,   \* kMaxPending
          RingSize,     \* the capacity of either queue
          TickPeriod,   \* samples per clock byte, at the one tempo of the model
          MaxTime,      \* bound: samples rendered
          MaxMessages   \* bound: messages in a behaviour

ASSUME MidiOutAssumption == {MaxPending, RingSize, TickPeriod, MaxTime, MaxMessages} \subseteq Nat \ {0}

VARIABLES frames,       \* the snapshot's stream_frames
          rolls,        \* the snapshot's transport_playing
          direct, graph,\* queue_ and the engine's ext_midi_out_
          pending,      \* pending_
          clockOn,      \* clock_enabled_
          wasPlaying, nextTick,  \* the locals of run()
          slave, ticks, \* what the port was sent of the clock
          wire, made, dropped

midiOutVars == <<frames, rolls, direct, graph, pending, clockOn, wasPlaying, nextTick,
                 slave, ticks, wire, made, dropped>>

\* A message of the graph is stamped in the block being rendered, which the
\* snapshot has not reached yet.
Push(q, m) == IF Len(q) < RingSize THEN Append(q, m) ELSE q
Lost(q, m) == IF Len(q) < RingSize THEN {} ELSE {m.id}

Deliver ==
    \E at \in {frames, frames + 1} :
        LET m == [at |-> at, id |-> made + 1]
        IN  /\ made < MaxMessages /\ made' = made + 1
            /\ graph' = Push(graph, m) /\ dropped' = dropped \cup Lost(graph, m)
            /\ UNCHANGED <<frames, rolls, direct, pending, clockOn, wasPlaying, nextTick, slave, ticks, wire>>

\* MidiOutThread::queue, as its callers use it: time 0.
Queue ==
    LET m == [at |-> 0, id |-> made + 1]
    IN  /\ made < MaxMessages /\ made' = made + 1
        /\ direct' = Push(direct, m) /\ dropped' = dropped \cup Lost(direct, m)
        /\ UNCHANGED <<frames, rolls, graph, pending, clockOn, wasPlaying, nextTick, slave, ticks, wire>>

\* The engine publishes a later snapshot, the transport playing or not.
Render ==
    /\ frames < MaxTime /\ frames' = frames + 1
    /\ rolls' \in BOOLEAN
    /\ UNCHANGED <<direct, graph, pending, clockOn, wasPlaying, nextTick, slave, ticks, wire, made, dropped>>

SetClock ==
    /\ clockOn' = ~clockOn
    /\ UNCHANGED <<frames, rolls, direct, graph, pending, wasPlaying, nextTick, slave, ticks, wire, made, dropped>>

----------------------------------------------------------------------------
(* A pass.                                                                 *)

\* hold: what does not fit is lost.
HoldPending(s, m) == IF Len(s.pending) < MaxPending THEN [s EXCEPT !.pending = Append(@, m)]
                                             ELSE [s EXCEPT !.lost = @ \cup {m.id}]

\* The message to send next: of those due, the first of the earliest.
Due(s, est) == {i \in DOMAIN s.pending : s.pending[i].at <= est}
FirstDue(s, est) ==
    CHOOSE i \in Due(s, est) : \A j \in Due(s, est) :
        \/ s.pending[i].at < s.pending[j].at
        \/ s.pending[i].at = s.pending[j].at /\ i <= j

\* Sending a message puts the last pending one in its place.
SendAtLast(s, i) ==
    [s EXCEPT !.wire = Append(@, s.pending[i]), !.pending = SubSeq(@, 1, Len(@) - 1)]
SendAt(s, i) ==
    LET last == Len(s.pending)
    IN  [s EXCEPT !.wire = Append(@, s.pending[i]),
                  !.pending = SubSeq([s.pending EXCEPT ![i] = s.pending[last]], 1, last - 1)]

Dispatch(s, est) ==
    LET SendNext(t, n) == IF Due(t, est) = {} THEN t ELSE SendAt(t, FirstDue(t, est))
    IN  FoldLeft(SendNext, s, [n \in 1..Len(s.pending) |-> n])

\* The clock bytes due by the estimate.
ClockDue(next, est) == IF next > est THEN 0 ELSE ((est - next) \div TickPeriod) + 1

\* What a disabled clock takes the transport to have been doing.
FollowedUnclocked == rolls
PlayedUnclocked == FALSE

\* The transport's edges and the clock, while the clock is enabled.
ClockPass(est) ==
    LET starts == rolls /\ ~wasPlaying
        next == IF starts THEN est ELSE nextTick
        due == IF rolls THEN ClockDue(next, est) ELSE 0
    IN  IF ~clockOn THEN wasPlaying' = PlayedUnclocked /\ UNCHANGED <<nextTick, slave, ticks>>
        ELSE /\ wasPlaying' = rolls
             /\ slave' = CASE starts -> "running"
                           [] ~rolls /\ wasPlaying -> "stopped"
                           [] OTHER -> slave
             /\ nextTick' = next + due * TickPeriod
             /\ ticks' = due

\* run, one pass: the estimate runs at most one sample ahead of the snapshot here.
Pass ==
    \E est \in {frames, frames + 1} :
        LET none == [pending |-> pending, lost |-> {}, wire |-> wire \o direct]
            s == Dispatch(FoldLeft(HoldPending, none, graph), est)
        IN  /\ pending' = s.pending /\ wire' = s.wire /\ dropped' = dropped \cup s.lost
            /\ direct' = <<>> /\ graph' = <<>>
            /\ ClockPass(est)
            /\ UNCHANGED <<frames, rolls, clockOn, made>>

----------------------------------------------------------------------------
MidiOutInit ==
    /\ frames = 0 /\ rolls = FALSE /\ direct = <<>> /\ graph = <<>> /\ pending = <<>>
    /\ clockOn = FALSE /\ wasPlaying = FALSE /\ nextTick = 0
    /\ slave = "stopped" /\ ticks = 0 /\ wire = <<>> /\ made = 0 /\ dropped = {}

MidiOutNext == Deliver \/ Queue \/ Render \/ SetClock \/ Pass

MidiOutSpec == MidiOutInit /\ [][MidiOutNext]_midiOutVars

----------------------------------------------------------------------------
(* Properties.                                                             *)

Ids(messages) == {messages[i].id : i \in DOMAIN messages}

MidiOutTypeOK ==
    /\ Len(pending) <= MaxPending /\ Len(graph) <= RingSize /\ Len(direct) <= RingSize
    /\ slave \in {"stopped", "running"} /\ {ticks, nextTick, frames} \subseteq Nat

\* Through full queues, late passes and the removal of what was sent from the
\* middle of the pending set, a message is sent once, or is pending, or was
\* dropped where a queue was full: none is lost or sent again.
MessagesConserved ==
    /\ \A i, j \in DOMAIN wire : wire[i].id = wire[j].id => i = j
    /\ 1..made = Ids(wire) \cup Ids(pending) \cup Ids(graph) \cup Ids(direct) \cup dropped
    /\ Ids(wire) \cap (Ids(pending) \cup Ids(graph) \cup Ids(direct) \cup dropped) = {}

\* A slave that is given clock bytes has been told to run, whatever the user does
\* to the transport and to the clock between two passes.
ClockOnlyRunning == ticks > 0 => slave = "running"

\* Messages of one time are sent in the order the graph made them.
OrderOfATick ==
    \A i, j \in DOMAIN wire :
        (i < j /\ wire[i].at = wire[j].at) => wire[i].id < wire[j].id
=============================================================================
