----------------------------- MODULE SpscQueue ------------------------------
(***************************************************************************)
(* rt/spsc_queue: the lock-free ring between one producer and one consumer *)
(* thread (UI to audio commands, audio to MIDI events).  The two indices   *)
(* are free-running size_t counters; a cell is the index masked.           *)
(*                                                                         *)
(* Each call is cut where the other thread can come in between: the load   *)
(* of the other side's index with the decision taken on it, the copy of    *)
(* the value (two steps: a copy is not atomic), and the store of the own   *)
(* index.  The acquire load and release store of each index make these     *)
(* steps appear in an interleaving; NoSharedCell shows that the plain      *)
(* accesses to the cells need no more than that.                           *)
(***************************************************************************)
EXTENDS Naturals, Sequences

CONSTANTS
    Values,
    Nothing,      \* a cell never written, and a pop that returned false
    TornCell,         \* a cell in the middle of a copy
    MinCapacity,  \* the argument of the constructor
    QueueModulus       \* bound: 2^64 in the program

\* The constructor rounds the capacity up to a power of two.
Capacity == CHOOSE c \in {2^k : k \in 0..MinCapacity} :
    c >= MinCapacity /\ \A k \in 0..MinCapacity : 2^k >= MinCapacity => c <= 2^k

ASSUME ValuesAssumption ==
    Values # {} /\ Nothing \notin Values /\ TornCell \notin Values \cup {Nothing}
ASSUME CapacityAssumption == MinCapacity \in Nat \ {0}
\* size_t has a power of two of values, twice the capacity at least.
ASSUME ModulusAssumption == QueueModulus \in {2^k : k \in 0..QueueModulus} /\ QueueModulus > Capacity
\* What the two powers of two are chosen for, as the proofs use it.
ASSUME MaskAssumption ==
    /\ QueueModulus \in Nat /\ Capacity \in Nat
    /\ \E laps \in 1..QueueModulus : QueueModulus = laps * Capacity

VARIABLES
    buffer,    \* buffer_
    head,      \* head_: where the next push writes
    tail,      \* tail_: where the next pop reads
    producer,  \* the producer's place in push: "idle", "copy", "copying" or "store"
    value,     \* the argument of the push
    accepted,  \* the result of the last push
    consumer,  \* the consumer's place in pop
    copied,    \* the consumer's copy, before the pop returns
    out        \* the result of the last pop

producerVars == <<producer, value, accepted>>
consumerVars == <<consumer, copied, out>>
queueVars == <<buffer, head, tail, producerVars, consumerVars>>

QueueCellOffByOne(index) == index % (Capacity - 1)
QueueCell(index) == index % Capacity          \* index & mask_
QueueDistance == (head + QueueModulus - tail) % QueueModulus  \* head - tail, in size_t
QueueSucc(index) == (index + 1) % QueueModulus

QueueInit ==
    /\ buffer = [c \in 0..(Capacity - 1) |-> Nothing]
    /\ head = 0 /\ tail = 0
    /\ producer = "idle" /\ value = Nothing /\ accepted = TRUE
    /\ consumer = "idle" /\ copied = Nothing /\ out = Nothing

-----------------------------------------------------------------------------
(* push                                                                    *)

\* Loads both indices and returns false when the ring is full.
IsFullOffByOne == QueueDistance > Capacity
IsFull == QueueDistance > Capacity - 1
BeginPush(v) ==
    /\ producer = "idle"
    /\ IF IsFull
         THEN accepted' = FALSE /\ UNCHANGED <<producer, value>>
         ELSE producer' = "copy" /\ value' = v /\ UNCHANGED accepted
    /\ UNCHANGED <<buffer, head, tail, consumerVars>>

\* buffer_[head & mask_] = value
StartWrite ==
    /\ producer = "copy"
    /\ producer' = "copying"
    /\ buffer' = [buffer EXCEPT ![QueueCell(head)] = TornCell]
    /\ UNCHANGED <<head, tail, value, accepted, consumerVars>>

FinishWrite ==
    /\ producer = "copying"
    /\ producer' = "store"
    /\ buffer' = [buffer EXCEPT ![QueueCell(head)] = value]
    /\ UNCHANGED <<head, tail, value, accepted, consumerVars>>

\* head_.store(head + 1), and return true
EndPush ==
    /\ producer = "store"
    /\ producer' = "idle"
    /\ head' = QueueSucc(head)
    /\ value' = Nothing
    /\ accepted' = TRUE
    /\ UNCHANGED <<buffer, tail, consumerVars>>

-----------------------------------------------------------------------------
(* pop                                                                     *)

\* Loads both indices and returns false when the ring is empty.
BeginPop ==
    /\ consumer = "idle"
    /\ IF tail = head
         THEN out' = Nothing /\ UNCHANGED <<consumer, copied>>
         ELSE consumer' = "copy" /\ UNCHANGED <<copied, out>>
    /\ UNCHANGED <<buffer, head, tail, producerVars>>

\* out = buffer_[tail & mask_]
StartRead ==
    /\ consumer = "copy"
    /\ consumer' = "copying"
    /\ UNCHANGED <<buffer, head, tail, copied, out, producerVars>>

FinishRead ==
    /\ consumer = "copying"
    /\ consumer' = "store"
    /\ copied' = buffer[QueueCell(tail)]
    /\ UNCHANGED <<buffer, head, tail, out, producerVars>>

\* tail_.store(tail + 1), and return true
EndPop ==
    /\ consumer = "store"
    /\ consumer' = "idle"
    /\ tail' = QueueSucc(tail)
    /\ out' = copied
    /\ copied' = Nothing
    /\ UNCHANGED <<buffer, head, producerVars>>

-----------------------------------------------------------------------------
Producer == (\E v \in Values : BeginPush(v)) \/ StartWrite \/ FinishWrite \/ EndPush
Consumer == BeginPop \/ StartRead \/ FinishRead \/ EndPop

QueueNext == Producer \/ Consumer

QueueSpec == QueueInit /\ [][QueueNext]_queueVars

-----------------------------------------------------------------------------
(* Properties.                                                             *)

\* The type invariant of the ring: no index leaves its size_t.
QueueTypeOK ==
    /\ buffer \in [0..(Capacity - 1) -> Values \cup {Nothing, TornCell}]
    /\ head \in 0..(QueueModulus - 1) /\ tail \in 0..(QueueModulus - 1)
    /\ producer \in {"idle", "copy", "copying", "store"}
    /\ consumer \in {"idle", "copy", "copying", "store"}
    /\ value \in Values \cup {Nothing}
    /\ copied \in Values \cup {Nothing, TornCell} /\ out \in Values \cup {Nothing, TornCell}
    /\ accepted \in BOOLEAN

\* While one thread is copying into or out of a cell, the other is not
\* copying the same cell: the unsynchronised accesses of push and pop never
\* race, however the indices wrap.
NoSharedCell ==
    producer = "copying" /\ consumer = "copying" => QueueCell(head) # QueueCell(tail)

\* The contents as the consumer will see them.
Contents == [i \in 1..QueueDistance |-> buffer[QueueCell(tail + i - 1)]]

\* The ring implements the bounded queue: a push takes effect at its store
\* of head_, a pop at its store of tail_, a refusal and an empty pop at their
\* loads; nothing is lost, duplicated, reordered or torn, also when the
\* counters wrap around.
Fifo == INSTANCE BoundedFifo WITH fifo <- Contents
ImplementsFifo == Fifo!Spec
=============================================================================
