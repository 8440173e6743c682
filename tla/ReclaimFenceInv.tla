--------------------------- MODULE ReclaimFenceInv ---------------------------
(***************************************************************************)
(* The inductive invariant behind NoUseAfterFree.                          *)
(*                                                                         *)
(* The commands in flight are those in the queue and, behind them, those   *)
(* the running handler has still to send.  Position 0 is the engine itself *)
(* and position i what the engine will be once it has applied the i-th.    *)
(* Whatever the engine reaches at position i is either still linked by the *)
(* session, or parked for the next publish, or its retirement is covered:  *)
(* a later command in flight makes the engine let go of it and carries the *)
(* serial it was retired at.  A sweep frees only what was retired up to    *)
(* the serial of a command that is no longer in flight.                    *)
(***************************************************************************)
EXTENDS ReclaimFence

InFlight == queue \o outbox

Fenced == {"SetBundle", "SwapBundle", "PlaySample", "StopSample"}

\* Object o, which the engine reaches at position i, is let go by a later
\* command, one of the types K, and was retired at that command's serial.
Covered(o, i, K) ==
    \E j \in i + 1 .. Len(InFlight) :
        InFlight[j].type \in K /\ <<o, InFlight[j].serial>> \in entries

SampleLinked(o, i) ==
    \/ \E s \in Slots : slot[s] = o
    \/ o \in staged
    \/ Covered(o, i, {"SetBundle"})

GraphLinked(b, i) ==
    \A o \in GraphOf(b) : o \in GraphOf(live) \/ Covered(o, i, {"SetBundle", "SwapBundle"})
RackLinked(b, i) ==
    \A o \in RackOf(b) : o \in RackOf(live) \/ Covered(o, i, {"SetBundle"})
BindsLinked(b, i) ==
    \A o \in b.binds \cap Bridges :
        o \in bridged \cup staged \/ Covered(o, i, {"SetBundle", "SwapBundle"})

BundleLinked(b, i) ==
    /\ GraphLinked(b, i) /\ RackLinked(b, i) /\ BindsLinked(b, i)
    /\ \A o \in SamplesOf(b) : SampleLinked(o, i)

PreviewLinked(o, i) == o = preview \/ Covered(o, i, {"PlaySample", "StopSample"})

\* A voice of an instance ends with a kSetBundle that binds the instance.
VoiceLinked(n, o) ==
    \/ o = override[n]
    \/ \E j \in 1 .. Len(InFlight) :
          /\ InFlight[j].type = "SetBundle" /\ n \in InFlight[j].bundle.binds
          /\ <<o, InFlight[j].serial>> \in entries

EngineLinked ==
    /\ BundleLinked(bundle, 0)
    /\ \A o \in chVoices \cup seqVoices : SampleLinked(o, 0)
    /\ oneShot # None => PreviewLinked(oneShot, 0)
    /\ \A n \in Instances : \A o \in pluginVoices[n] : VoiceLinked(n, o)

CommandLinked(c, i) ==
    /\ BundleLinked(c.bundle, i)
    /\ c.type = "PreviewNote" => SampleLinked(c.sample, i)
    /\ c.type = "PlaySample" => PreviewLinked(c.sample, i)

Linked == EngineLinked /\ \A i \in 1 .. Len(InFlight) : CommandLinked(InFlight[i], i)

\* The serials in flight increase, above what the engine has applied.
Serials ==
    /\ snap <= applied /\ applied <= serial
    /\ \A i \in 1 .. Len(InFlight) : InFlight[i].type \in Fenced =>
          /\ applied < InFlight[i].serial /\ InFlight[i].serial <= serial
          /\ \A j \in i + 1 .. Len(InFlight) :
                InFlight[j].type \in Fenced => InFlight[i].serial < InFlight[j].serial

\* Only a note or a preview carries a sample.
Shapes ==
    \A i \in 1 .. Len(InFlight) :
        InFlight[i].type \notin {"PreviewNote", "PlaySample"} => InFlight[i].sample = None

\* An instance that does not exist yet is known to nobody.
Unknown(n) ==
    /\ override[n] = None /\ pluginVoices[n] = {} /\ n \notin bundle.binds
    /\ \A i \in 1 .. Len(InFlight) : n \notin InFlight[i].bundle.binds
Registered == \A n \in Instances \ registry : Unknown(n)

LiveLinked == SamplesOf(live) \subseteq {slot[s] : s \in Slots} \cup staged

\* What the session holds outside the undo history, and what is retained,
\* hold all the engine reaches, now or by a command in flight.
Held == SessionHeld \cup Retained
EngineHolds ==
    GraphOf(bundle) \cup RackOf(bundle) \cup SamplesOf(bundle) \cup (bundle.binds \cap Bridges)
    \cup chVoices \cup seqVoices \cup (UNION {pluginVoices[n] : n \in Instances})
    \cup NonNull({oneShot})
CommandHolds(c) ==
    NonNull({c.sample}) \cup GraphOf(c.bundle) \cup RackOf(c.bundle)
    \cup SamplesOf(c.bundle) \cup (c.bundle.binds \cap Bridges)
Safe ==
    /\ EngineHolds \subseteq Held
    /\ \A i \in 1 .. Len(InFlight) : CommandHolds(InFlight[i]) \subseteq Held

\* The inductive invariant.  After a lost command nothing is covered any
\* more, and nothing is freed any more either.
Fence ==
    /\ Safe /\ Registered /\ LiveLinked /\ Shapes
    /\ ~dropped => Serials /\ Linked
=============================================================================
