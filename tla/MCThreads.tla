------------------------------ MODULE MCThreads ------------------------------
(***************************************************************************)
(* Small instances of what the threads of the program share: the ring, the *)
(* snapshot buffer, the state that is edited in place, the memory of a     *)
(* bridged plugin. None of them touches another's state, so one run checks *)
(* them next to each other: part says which of them a behaviour is of.     *)
(***************************************************************************)
EXTENDS SpscQueue, TripleBuffer, LiveMutation, Bridge

VARIABLE part

allVars == <<part, queueVars, bufferVars, liveVars, bridgeVars>>

MCInit ==
    /\ QueueInit /\ BufferInit /\ LiveInit /\ BridgeInit
    /\ part \in {"queue", "buffer", "live", "bridge"}

MCNext ==
    \/ part = "queue" /\ QueueNext /\ UNCHANGED <<part, bufferVars, liveVars, bridgeVars>>
    \/ part = "buffer" /\ BufferNext /\ UNCHANGED <<part, queueVars, liveVars, bridgeVars>>
    \/ part = "live" /\ LiveNext /\ UNCHANGED <<part, queueVars, bufferVars, bridgeVars>>
    \/ part = "bridge" /\ BridgeNext /\ UNCHANGED <<part, queueVars, bufferVars, liveVars>>

\* The buffer's reader and the bridge are as fair as their modules say (BufferFairness and
\* BridgeFairness, here with the part as a guard); the ring and the edits need
\* nothing.
MCFairness ==
    /\ \A r \in Readers : WF_bufferVars(part = "buffer" /\ Read(r))
    /\ WF_bridgeVars(part = "bridge" /\ ProcessBlock) /\ WF_bridgeVars(part = "bridge" /\ Child)
    /\ WF_bridgeVars(part = "bridge" /\ Poll) /\ WF_bridgeVars(part = "bridge" /\ Restart)

MCSpec == MCInit /\ [][MCNext]_allVars /\ MCFairness

\* Types of the four parts that no other run types.
ThreadsTypeOK == QueueTypeOK /\ BufferTypeOK /\ LiveTypeOK /\ BridgeTypeOK

\* KeepsPlaying of a bridged plugin, in the behaviours that are of one: a child
\* that stays alive is heard for ever.
ChildKeepsPlaying == part = "bridge" => KeepsPlaying
=============================================================================
