---------------------------- MODULE LiveMutation ----------------------------
(***************************************************************************)
(* What the session changes in place while the engine may be reading it.   *)
(*                                                                         *)
(* Buffers and bundles are replaced and fenced (ReclaimFence).  Two things *)
(* are not: the TrackerProject, which the engine reads through the bundle  *)
(* while the transport runs, and the one ModulePlayer, whose module a load *)
(* replaces.  For both the session sends a command that makes the engine   *)
(* let go (kTransportStop, kSetModule with no module), mutates, and sends  *)
(* the command that hands the new state over.  A command takes effect when *)
(* the engine's next pull drains it, not when it is sent.  The instrument  *)
(* table is the exception: its edit reallocates it and stops nothing.      *)
(***************************************************************************)
EXTENDS Naturals, Sequences

CONSTANT LiveQueueCap  \* capacity of the command queue (256 in the engine)

ASSUME LiveAssumption == LiveQueueCap \in Nat \ {0}

VARIABLES
    ui,        \* the running handler: "idle", "edit", "editing", "publish", ...
    liveQueue,     \* AudioEngine::commands_
    livePc,        \* the engine: "idle", "drain", "render", "tick" or "module"
    installed, \* bundle_ is not null
    livePlaying,   \* transport_playing_
    attached,  \* module_ is not null
    modPlaying,\* module_playing_
    loaded,    \* ModulePlayer::module_ is not null
    livePublished, \* live_bundle_ is not null
    lost,      \* dropped_commands_ # 0
    drained    \* history: a drain has ended since the running handler began

player == <<attached, modPlaying>>
liveEngine == <<livePc, installed, livePlaying, player>>
channel == <<liveQueue, lost>>
liveVars == <<ui, channel, liveEngine, loaded, livePublished, drained>>

Commands == {"SetBundle", "SwapBundle", "Play", "Stop", "Detach", "Attach", "ModulePlay", "ModuleStop"}

LiveInit ==
    /\ ui = "idle" /\ liveQueue = <<>> /\ livePc = "idle"
    /\ installed = FALSE /\ livePlaying = FALSE
    /\ attached = FALSE /\ modPlaying = FALSE /\ loaded = FALSE
    /\ livePublished = FALSE /\ lost = FALSE /\ drained = FALSE

-----------------------------------------------------------------------------
(* The UI thread.                                                          *)

\* AudioEngine::send: no wait, and a full queue loses the command.
LiveSend(c) ==
    IF Len(liveQueue) < LiveQueueCap
      THEN liveQueue' = Append(liveQueue, c) /\ UNCHANGED lost
      ELSE lost' = TRUE /\ UNCHANGED liveQueue

\* A handler goes on from place p to place q and sends command c.
Begin(q, c) ==
    ui = "idle" /\ ui' = q /\ LiveSend(c) /\ drained' = FALSE /\ UNCHANGED <<liveEngine, loaded, livePublished>>
BeginSilently(q) ==
    ui = "idle" /\ ui' = q /\ drained' = FALSE /\ UNCHANGED <<channel, liveEngine, loaded, livePublished>>
Goto(p, q)  == ui = p /\ ui' = q /\ UNCHANGED <<channel, liveEngine, livePublished, drained>>
End(p, c)   == ui = p /\ ui' = "idle" /\ LiveSend(c) /\ UNCHANGED <<liveEngine, loaded, drained>>

\* play, stop, and the play and stop buttons of the module player.
SendOne ==
    \/ Begin("idle", "Play")
    \/ Begin("idle", "Stop")
    \/ loaded /\ (Begin("idle", "ModulePlay") \/ Begin("idle", "ModuleStop"))

\* create_pattern, delete_pattern, resize_pattern and the order-list edits:
\* stop(), then the vectors of the project, then publish_bundle().
BeginEditUnstopped == BeginSilently("edit")
BeginEdit == Begin("edit", "Stop")
StartMutation == Goto("edit", "editing") /\ UNCHANGED loaded
EndMutation == Goto("editing", "publish") /\ UNCHANGED loaded
EndEdit == End("publish", "SetBundle") /\ livePublished' = TRUE

\* set_instrument_entry: the instrument table grows, or is replaced, and the
\* graph is published.  Its undo and redo replace the table and send nothing.
BeginRetable == BeginSilently("retable")
EndRetable ==
    \/ End("retable", IF livePublished THEN "SwapBundle" ELSE "SetBundle") /\ livePublished' = TRUE
    \/ Goto("retable", "idle") /\ UNCHANGED loaded

\* ModuleView::load_file: detach, ModulePlayer::load, attach.  The load parses
\* the file into a new module and replaces the old one, or destroys it when
\* the file does not parse.
BeginModuleLoad == Begin("load", "Detach")
StartReplace == Goto("load", "replacing") /\ UNCHANGED loaded
EndReplace ==
    \/ Goto("replacing", "attach") /\ loaded' = TRUE
    \/ Goto("replacing", "idle") /\ loaded' = FALSE
EndModuleLoad == End("attach", "Attach") /\ UNCHANGED livePublished

-----------------------------------------------------------------------------
(* The audio thread.                                                       *)

\* The engine goes on from place p to place q of its pull.
Step(p, q) == livePc = p /\ livePc' = q /\ UNCHANGED <<ui, channel, installed, loaded, livePublished>>

StartLivePull == Step("idle", "drain") /\ UNCHANGED <<livePlaying, player, drained>>

\* kSetModule also ends the playback of the module it replaces.
OnlyStopEndsModule == {"ModuleStop"}
EndsModule == {"ModuleStop", "Attach", "Detach"}

\* drain_commands, one command: what each does to the two readers.
Apply ==
    /\ livePc = "drain" /\ liveQueue # <<>>
    /\ liveQueue' = Tail(liveQueue)
    /\ LET c == Head(liveQueue)
       IN  /\ installed' = (installed \/ c \in {"SetBundle", "SwapBundle"})
           /\ livePlaying' = CASE c = "Play" -> livePlaying \/ installed
                           [] c \in {"Stop", "SetBundle"} -> FALSE
                           [] OTHER -> livePlaying
           /\ attached' = IF c \in {"Attach", "Detach"} THEN c = "Attach" ELSE attached
           /\ modPlaying' = CASE c = "ModulePlay" -> attached /\ loaded
                              [] c \in EndsModule -> FALSE
                              [] OTHER -> modPlaying
    /\ UNCHANGED <<ui, livePc, loaded, livePublished, lost, drained>>

EndLiveDrain ==
    /\ liveQueue = <<>> /\ Step("drain", "render")
    /\ drained' = TRUE
    /\ UNCHANGED <<livePlaying, player>>

\* advance_transport_in_block: advance_tick and handle_tick_outputs read the
\* project's patterns, order list and instrument table.  The range end may
\* park the transport.
BeginTick == livePlaying /\ Step("render", "tick") /\ UNCHANGED <<livePlaying, player, drained>>
EndTick == Step("tick", "render") /\ livePlaying' \in BOOLEAN /\ UNCHANGED <<player, drained>>

\* ModulePlayer::render, and what the engine does when the module has ended.
BeginModule ==
    modPlaying /\ attached /\ Step("render", "module") /\ UNCHANGED <<livePlaying, player, drained>>
EndModule ==
    /\ Step("module", "render")
    /\ modPlaying' \in BOOLEAN
    /\ UNCHANGED <<livePlaying, attached, drained>>

EndLivePull == Step("render", "idle") /\ UNCHANGED <<livePlaying, player, drained>>

-----------------------------------------------------------------------------
Ui ==
    \/ SendOne
    \/ BeginEdit \/ StartMutation \/ EndMutation \/ EndEdit
    \/ BeginRetable \/ EndRetable
    \/ BeginModuleLoad \/ StartReplace \/ EndReplace \/ EndModuleLoad

Engine ==
    \/ StartLivePull \/ Apply \/ EndLiveDrain
    \/ BeginTick \/ EndTick \/ BeginModule \/ EndModule \/ EndLivePull

LiveNext == Ui \/ Engine

LiveSpec == LiveInit /\ [][LiveNext]_liveVars

-----------------------------------------------------------------------------
(* Properties.                                                             *)

LiveTypeOK ==
    /\ ui \in {"idle", "edit", "editing", "publish", "retable", "load", "replacing", "attach"}
    /\ liveQueue \in Seq(Commands) /\ Len(liveQueue) <= LiveQueueCap /\ lost \in BOOLEAN
    /\ livePc \in {"idle", "drain", "render", "tick", "module"}
    /\ {installed, livePlaying, attached, modPlaying, loaded, livePublished, drained} \subseteq BOOLEAN
    /\ modPlaying => attached

\* The threading contract of project_session.h: structural edits stop the
\* transport first.  No tick reads the project while an edit reshapes it.
StoppedWhileEditing == ~(ui = "editing" /\ livePc = "tick")

\* The threading contract of module_player.h: load() runs while the player
\* is detached from the engine.  No render runs while a load replaces it.
DetachedWhileLoading == ~(ui = "replacing" /\ livePc = "module")

\* The same contract: an edit that is safe against the concurrent reader
\* reallocates nothing.  No tick reads the project while the instrument
\* table is replaced.
TableStable == ~(ui = "retable" /\ livePc = "tick")

\* How far the engine can lag behind either contract: the pull that was past
\* its drain when the handler began may still overlap the mutation.  From the
\* first drain that ends after the handler began, no tick and no module
\* render overlaps it, unless the command that lets go was lost.
OneStalePull ==
    drained /\ ~lost => StoppedWhileEditing /\ DetachedWhileLoading
=============================================================================
