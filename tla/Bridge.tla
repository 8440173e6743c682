-------------------------------- MODULE Bridge --------------------------------
(***************************************************************************)
(* A plugin hosted in a child process (ext/bridge).  The audio thread and  *)
(* the child's render thread exchange blocks through two rings in shared   *)
(* memory and never wait for each other.  The audio thread bypasses a      *)
(* child whose heartbeat is stale; the session's reaper latches a child    *)
(* that died as crashed and restarts it, on request, over the same memory. *)
(*                                                                         *)
(* Every access to shared memory is a step.  A block is the generation of  *)
(* the child it was meant for and its number in the stream.  What a block  *)
(* carries, and the control socket, are left out: the control thread only  *)
(* delays the child's render thread.                                       *)
(***************************************************************************)
EXTENDS Naturals

CONSTANTS
    RingSlots,   \* kBridgeRingSlots
    Modulus,     \* indices, block numbers and heartbeats are counted modulo this
    StaleBlocks, \* kBypassStaleBlocks
    MaxCrashes   \* bound: deaths of a child in a behaviour

ASSUME RingAssumption ==
    /\ RingSlots \in Nat \ {0} /\ StaleBlocks \in Nat \ {0} /\ MaxCrashes \in Nat
    /\ Modulus \in Nat /\ Modulus % RingSlots = 0 /\ Modulus >= 4 * RingSlots

VARIABLES
    state,     \* state_: "live", "bypassed" or "crashed"
    \* shared memory
    inW, inR, outW, outR, \* ring indices
    inSlot, outSlot,      \* ring storage
    heartbeat,            \* child_heartbeat
    \* the audio thread
    apc,       \* its place between and in process_block
    gateSeen,      \* the state its gate loaded
    reg,       \* the index it is about to store back
    open,      \* input_slot_open_
    lastBeat,  \* last_heartbeat_
    stale,     \* stale_blocks_
    seq,       \* seq_
    \* the child
    alive,     \* the process exists
    cpc,       \* where its render thread is
    \* the session
    spc,       \* where a restart is
    epoch,     \* history: the generation of the child
    crashes,   \* history: children that died
    contended  \* history: a restart reset memory a block was still using

shm == <<inW, inR, outW, outR, inSlot, outSlot, heartbeat>>
locals == <<open, lastBeat, stale, seq>>
audio == <<apc, gateSeen, reg, locals>>
child == <<alive, cpc>>
bridgeHistory == <<epoch, crashes, contended>>
bridgeVars == <<state, shm, audio, child, spc, bridgeHistory>>

RingIndex == 0 .. Modulus - 1
Ring  == 0 .. RingSlots - 1
Block == [epoch : Nat, seq : RingIndex]
NoBlock == [epoch |-> 0, seq |-> 0]

RingSucc(i) == (i + 1) % Modulus
RingDistance(w, r) == (w + Modulus - r) % Modulus
RingCell(i) == i % RingSlots

BridgeInit ==
    /\ state = "live"
    /\ inW = 0 /\ inR = 0 /\ outW = 0 /\ outR = 0
    /\ inSlot = [i \in Ring |-> NoBlock] /\ outSlot = [i \in Ring |-> NoBlock]
    /\ heartbeat = 0
    /\ apc = "out" /\ gateSeen = "live" /\ reg = 0
    /\ open = FALSE /\ lastBeat = 0 /\ stale = 0 /\ seq = 0
    /\ alive = TRUE /\ cpc = "spin"
    /\ spc = "idle" /\ epoch = 0 /\ crashes = 0 /\ contended = FALSE

-----------------------------------------------------------------------------
(* The rings (bridge_protocol.h).                                          *)

\* in_ring_acquire and out_ring_acquire find no room; out_ring_peek finds a
\* block, and takes an index that is out of bounds for an empty ring.
FullOffByOne(w, r) == RingDistance(w, r) > RingSlots
Full(w, r) == RingDistance(w, r) >= RingSlots
ReadyUnlessFull(w, r) == RingDistance(w, r) \in 1 .. RingSlots - 1
Ready(w, r) == RingDistance(w, r) \in 1 .. RingSlots

-----------------------------------------------------------------------------
(* The audio thread: BridgedPlugin::process_block and the event calls.     *)

AudioGoto(p, q) == apc = p /\ apc' = q /\ UNCHANGED <<child, spc, bridgeHistory>>

CanOpen == state # "crashed" /\ ~Full(inW, inR)

\* plugin_note_on, plugin_note_off, plugin_set_param_cv: the first event of a
\* block opens its input slot.
Event ==
    /\ AudioGoto("out", "out")
    /\ ~open /\ CanOpen
    /\ open' = TRUE
    /\ UNCHANGED <<state, shm, gateSeen, reg, lastBeat, stale, seq>>

\* The gate: a crashed child is bypassed without a look at shared memory.
Gate ==
    /\ apc = "out"
    /\ IF state = "crashed"
         THEN apc' = apc /\ open' = FALSE /\ UNCHANGED gateSeen
         ELSE apc' = "beat" /\ gateSeen' = state /\ UNCHANGED open
    /\ UNCHANGED <<state, shm, reg, lastBeat, stale, seq, child, spc, bridgeHistory>>

StaleLatched ==
    IF stale >= StaleBlocks THEN stale ELSE IF heartbeat # lastBeat THEN 0 ELSE stale + 1
StaleUncapped == IF heartbeat # lastBeat THEN 0 ELSE stale + 1
StaleNow ==
    CASE heartbeat # lastBeat -> 0
      [] heartbeat = lastBeat /\ stale < StaleBlocks -> stale + 1
      [] OTHER -> stale
Bypassing == stale >= StaleBlocks

\* The heartbeat compare, and the exchange that publishes the bypass: it
\* takes place only if the state is still the one the gate saw.
CheckBeat ==
    /\ AudioGoto("beat", "publish")
    /\ lastBeat' = heartbeat
    /\ stale' = StaleNow
    /\ state' = CASE gateSeen = "live" /\ state = "live" /\ Bypassing' -> "bypassed"
                  [] gateSeen = "bypassed" /\ state = "bypassed" /\ ~Bypassing' -> "live"
                  [] OTHER -> state
    /\ gateSeen' = "live" \* out of scope
    /\ UNCHANGED <<shm, reg, open, seq>>

\* The input goes into the slot an event opened, or into one opened now.
PublishInput ==
    /\ open \/ CanOpen
    /\ AudioGoto("publish", "commit")
    /\ inSlot' = [inSlot EXCEPT ![RingCell(inW)] = [epoch |-> epoch, seq |-> seq]]
    /\ seq' = RingSucc(seq)
    /\ open' = TRUE
    /\ UNCHANGED <<state, inW, inR, outW, outR, outSlot, heartbeat, gateSeen, reg, lastBeat, stale>>

\* A full ring drops the block.
DropInput ==
    /\ ~open /\ ~CanOpen
    /\ AudioGoto("publish", "output")
    /\ UNCHANGED <<state, shm, gateSeen, reg, locals>>

\* in_ring_commit: load the index, store its successor.
LoadInWrite ==
    /\ AudioGoto("commit", "commit2")
    /\ reg' = inW
    /\ UNCHANGED <<state, shm, gateSeen, locals>>
StoreInWrite ==
    /\ AudioGoto("commit2", "output")
    /\ inW' = RingSucc(reg) /\ reg' = 0
    /\ open' = FALSE
    /\ UNCHANGED <<state, inR, outW, outR, inSlot, outSlot, heartbeat, gateSeen,
                    lastBeat, stale, seq>>

\* The output: bypass, the oldest block the child has ready, or silence.
Bypass ==
    /\ Bypassing
    /\ AudioGoto("output", "out")
    /\ UNCHANGED <<state, shm, gateSeen, reg, locals>>
Peek ==
    /\ ~Bypassing /\ Ready(outW, outR)
    /\ AudioGoto("output", "play")
    /\ UNCHANGED <<state, shm, gateSeen, reg, locals>>
Silence ==
    /\ ~Bypassing /\ ~Ready(outW, outR)
    /\ AudioGoto("output", "out")
    /\ UNCHANGED <<state, shm, gateSeen, reg, locals>>

\* The block at outR is copied out, then out_ring_release frees its slot.
LoadOutRead ==
    /\ AudioGoto("play", "play2")
    /\ reg' = outR
    /\ UNCHANGED <<state, shm, gateSeen, locals>>
StoreOutRead ==
    /\ AudioGoto("play2", "out")
    /\ outR' = RingSucc(reg) /\ reg' = 0
    /\ UNCHANGED <<state, inW, inR, outW, inSlot, outSlot, heartbeat, gateSeen, locals>>

-----------------------------------------------------------------------------
(* The child's render thread (run_clap_rt_loop, run_echo_loop).            *)

ChildGoto(p, q) ==
    alive /\ cpc = p /\ cpc' = q /\ UNCHANGED <<state, audio, alive, spc, bridgeHistory>>

\* park_until_woken: with nothing to do the child may sleep, and wakes by a
\* call of notify_active or when its wait times out.
Park   == inR = inW /\ ChildGoto("spin", "parked") /\ UNCHANGED shm
Unpark == ChildGoto("parked", "spin") /\ UNCHANGED shm

\* An input block, a free output slot and the state lock; else it spins on.
Take ==
    /\ inR # inW /\ ~Full(outW, outR)
    /\ ChildGoto("spin", "process")
    /\ UNCHANGED shm
Process ==
    /\ ChildGoto("process", "commit")
    /\ outSlot' = [outSlot EXCEPT ![RingCell(outW)] = inSlot[RingCell(inR)]]
    /\ UNCHANGED <<inW, inR, outW, outR, inSlot, heartbeat>>
CommitOut ==
    /\ ChildGoto("commit", "release")
    /\ outW' = RingSucc(outW)
    /\ UNCHANGED <<inW, inR, outR, inSlot, outSlot, heartbeat>>
ReleaseIn ==
    /\ ChildGoto("release", "beat")
    /\ inR' = RingSucc(inR)
    /\ UNCHANGED <<inW, outW, outR, inSlot, outSlot, heartbeat>>
Beat ==
    /\ ChildGoto("beat", "spin")
    /\ heartbeat' = RingSucc(heartbeat)
    /\ UNCHANGED <<inW, inR, outW, outR, inSlot, outSlot>>

\* The process dies, anywhere.
Die ==
    /\ alive /\ crashes < MaxCrashes
    /\ alive' = FALSE /\ crashes' = crashes + 1
    /\ UNCHANGED <<state, shm, audio, cpc, spc, epoch, contended>>

-----------------------------------------------------------------------------
(* The session.                                                            *)

SessionGoto(p, q) == spc = p /\ spc' = q

\* poll_liveness, every frame: a death, by waitpid or by the end of the
\* control socket, latches the crash.
Poll ==
    /\ spc = "idle" /\ state # "crashed" /\ ~alive
    /\ state' = "crashed"
    /\ UNCHANGED <<shm, audio, child, spc, bridgeHistory>>

\* restart, offered on a crashed node: reset_control_block ...
OutReadKept == outR' = outR
ResetOutRead == outR' = 0
ResetControlBlock ==
    /\ state = "crashed" /\ SessionGoto("idle", "locals")
    /\ inW' = 0 /\ inR' = 0 /\ outW' = 0 /\ heartbeat' = 0
    /\ ResetOutRead
    /\ contended' = (contended \/ apc # "out")
    /\ UNCHANGED <<state, inSlot, outSlot, audio, child, epoch, crashes>>

\* ... the audio thread's locals ...
ResetLocals ==
    /\ SessionGoto("locals", "spawn")
    /\ open' = FALSE /\ lastBeat' = 0 /\ stale' = 0 /\ seq' = 0
    /\ UNCHANGED <<state, shm, apc, gateSeen, reg, child, bridgeHistory>>

\* ... spawn_child, which fails if the child exits or is not ready in time ...
Spawn ==
    /\ SessionGoto("spawn", "publish")
    /\ alive' = TRUE /\ cpc' = "spin" /\ epoch' = epoch + 1
    /\ UNCHANGED <<state, shm, audio, crashes, contended>>
SpawnFails ==
    /\ SessionGoto("spawn", "idle")
    /\ UNCHANGED <<state, shm, audio, child, bridgeHistory>>

\* ... and, last, the state.
GoLive ==
    /\ SessionGoto("publish", "idle")
    /\ state' = "live"
    /\ UNCHANGED <<shm, audio, child, bridgeHistory>>

-----------------------------------------------------------------------------
ProcessBlock ==
    \/ Gate \/ CheckBeat
    \/ PublishInput \/ LoadInWrite \/ StoreInWrite \/ DropInput
    \/ Bypass \/ Silence \/ Peek \/ LoadOutRead \/ StoreOutRead

Child == Unpark \/ Take \/ Process \/ CommitOut \/ ReleaseIn \/ Beat

Restart == ResetLocals \/ Spawn \/ SpawnFails \/ GoLive

BridgeNext ==
    \/ Event \/ ProcessBlock
    \/ Park \/ Child \/ Die
    \/ Poll \/ ResetControlBlock \/ Restart

BridgeSpec == BridgeInit /\ [][BridgeNext]_bridgeVars

\* The device keeps calling, a living child is scheduled and its plugin
\* returns, the frame loop polls, and a restart that began goes on.
BridgeFairness ==
    WF_bridgeVars(ProcessBlock) /\ WF_bridgeVars(Child) /\ WF_bridgeVars(Poll) /\ WF_bridgeVars(Restart)

BridgeFairSpec == BridgeSpec /\ BridgeFairness

-----------------------------------------------------------------------------
(* Properties.                                                             *)

BridgeTypeOK ==
    /\ {state, gateSeen} \subseteq {"live", "bypassed", "crashed"} /\ gateSeen # "crashed"
    /\ {inW, inR, outW, outR, heartbeat, lastBeat, seq, reg} \subseteq RingIndex
    /\ inSlot \in [Ring -> Block] /\ outSlot \in [Ring -> Block]
    /\ apc \in {"out", "beat", "publish", "commit", "commit2", "output", "play", "play2"}
    /\ stale \in 0 .. StaleBlocks
    /\ cpc \in {"spin", "parked", "process", "commit", "release", "beat"}
    /\ spc \in {"idle", "locals", "spawn", "publish"}
    /\ {open, alive, contended} \subseteq BOOLEAN
    /\ epoch \in Nat /\ crashes \in 0 .. MaxCrashes

\* The two sides never use one slot: the audio thread fills no input the
\* child reads, the child writes no output the audio thread copies.
NoSharedSlot ==
    alive /\ cpc = "process" /\ ~contended /\ state # "crashed" =>
        /\ open => RingCell(inW) # RingCell(inR)
        /\ apc = "play" => RingCell(outW) # RingCell(outR)

\* Every block of the child is played once and in order, none of an earlier
\* child is ever played: through bypasses, dropped inputs, crashes and
\* restarts, unless a restart met a block that was still under way.
NothingSkipped ==
    apc = "play" /\ ~contended =>
        outSlot[RingCell(outR)] = [epoch |-> epoch, seq |-> outR]

\* The latency that bridge_protocol.h states: what is played was published
\* one block earlier, or in the same call.
OneBlockLatency == apc = "play" /\ ~contended => RingDistance(seq, outR) <= 2

\* Bypass does not latch: the child catches up, or is found dead.
BypassEnds == state = "bypassed" ~> (state # "bypassed" \/ contended)

\* A child that stays alive is heard: a ring that filled during a stall, a
\* bypass or a restart never stops the exchange for good.
KeepsPlaying == []<>(apc = "play" \/ state = "crashed" \/ contended)
=============================================================================
