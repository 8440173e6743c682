---------------------------- MODULE TripleBuffer ----------------------------
(***************************************************************************)
(* rt/triple_buffer: the latest-value handoff of the engine's snapshots.   *)
(* Three slots; the writer owns one, the reader another, and the third is  *)
(* exchanged through one atomic word that also says whether it is fresh.   *)
(*                                                                         *)
(* The writer fills its slot field by field, then publishes it.  A read()  *)
(* loads the word, exchanges it when it is fresh, and returns a reference  *)
(* into the slot it now owns, which the caller dereferences afterwards.    *)
(* The slots, write_index_ and read_index_ are plain memory: a reader's    *)
(* exchange and its assignment to read_index_ are separate steps, since    *)
(* another reader of the same object may come in between.                  *)
(***************************************************************************)
EXTENDS Integers, FiniteSets

CONSTANTS
    Readers,     \* threads that call read(): one, by the contract
    MaxVersion   \* bound: snapshots published in a behaviour

ASSUME MaxVersionAssumption == MaxVersion \in Nat

VARIABLES
    slots,       \* the version in each slot, or Torn while it is being filled
    writeIndex,  \* write_index_
    readIndex,   \* read_index_
    shared,      \* shared_: [index, fresh]
    version,     \* the number of the snapshot being filled or last published
    writer,      \* "idle" or "filling"
    reader,      \* per reader, its place in read() and in the caller
    got,         \* per reader, the index its exchange returned
    ref,         \* per reader, the slot the reference it holds points into
    seen         \* per reader, the last version it has read

bufferVars == <<slots, writeIndex, readIndex, shared, version, writer,
          reader, got, ref, seen>>

Torn == -1
BufferIndex == 0..2

BufferInit ==
    /\ slots = [i \in BufferIndex |-> 0]
    /\ writeIndex = 0 /\ readIndex = 1
    /\ shared = [index |-> 2, fresh |-> FALSE]
    /\ version = 0 /\ writer = "idle"
    /\ reader = [r \in Readers |-> "idle"]
    /\ got = [r \in Readers |-> 1] /\ ref = [r \in Readers |-> 1]
    /\ seen = [r \in Readers |-> 0]

readerVars == <<readIndex, reader, got, ref, seen>>

\* The last version published.
Published == IF writer = "filling" THEN version - 1 ELSE version

-----------------------------------------------------------------------------
(* The writer: the end of AudioEngine::render.                             *)

\* write_slot, and the caller's assignments to its fields.
BeginFill ==
    /\ writer = "idle" /\ version < MaxVersion
    /\ writer' = "filling"
    /\ version' = version + 1
    /\ slots' = [slots EXCEPT ![writeIndex] = Torn]
    /\ UNCHANGED <<writeIndex, shared, readerVars>>

\* The slot the writer continues on after an exchange.
KeepWriteIndex == writeIndex
UnmaskedWriteIndex == IF shared.fresh THEN shared.index + 4 ELSE shared.index
NextWriteIndex == shared.index

\* publish: the last assignment, then the exchange.
Publish ==
    /\ writer = "filling"
    /\ writer' = "idle"
    /\ slots' = [slots EXCEPT ![writeIndex] = version]
    /\ shared' = [index |-> writeIndex, fresh |-> TRUE]
    /\ writeIndex' = NextWriteIndex
    /\ UNCHANGED <<version, readerVars>>

-----------------------------------------------------------------------------
(* A reader: read() and the use its caller makes of the reference.         *)

\* shared_.load: only a fresh slot is worth an exchange.
TakesExchangeNever == FALSE
TakesExchangeAlways == TRUE
TakesExchange == shared.fresh
BeginRead(r) ==
    /\ reader[r] = "idle"
    /\ reader' = [reader EXCEPT ![r] = IF TakesExchange THEN "exchange" ELSE "return"]
    /\ UNCHANGED <<slots, writeIndex, readIndex, shared, version, writer, got, ref, seen>>

\* shared_.exchange(read_index_): the flag is cleared with it.
Exchange(r) ==
    /\ reader[r] = "exchange"
    /\ got' = [got EXCEPT ![r] = shared.index]
    /\ shared' = [index |-> readIndex, fresh |-> FALSE]
    /\ reader' = [reader EXCEPT ![r] = "assign"]
    /\ UNCHANGED <<slots, writeIndex, readIndex, version, writer, ref, seen>>

\* read_index_ = the index exchanged.
AssignIndex(r) ==
    /\ reader[r] = "assign"
    /\ readIndex' = got[r]
    /\ reader' = [reader EXCEPT ![r] = "return"]
    /\ UNCHANGED <<slots, writeIndex, shared, version, writer, got, ref, seen>>

\* return slots_[read_index_]
ReturnReference(r) ==
    /\ reader[r] = "return"
    /\ ref' = [ref EXCEPT ![r] = readIndex]
    /\ reader' = [reader EXCEPT ![r] = "using"]
    /\ UNCHANGED <<slots, writeIndex, readIndex, shared, version, writer, got, seen>>

\* The caller has read the fields and lets the reference go.
EndUse(r) ==
    /\ reader[r] = "using"
    /\ seen' = [seen EXCEPT ![r] = slots[ref[r]]]
    /\ reader' = [reader EXCEPT ![r] = "idle"]
    /\ UNCHANGED <<slots, writeIndex, readIndex, shared, version, writer, got, ref>>

-----------------------------------------------------------------------------
Read(r) == BeginRead(r) \/ Exchange(r) \/ AssignIndex(r) \/ ReturnReference(r) \/ EndUse(r)

BufferNext == BeginFill \/ Publish \/ \E r \in Readers : Read(r)

BufferSpec == BufferInit /\ [][BufferNext]_bufferVars

\* The frame loop keeps reading; the engine may stop publishing.
BufferFairness == \A r \in Readers : WF_bufferVars(Read(r))

BufferFairSpec == BufferSpec /\ BufferFairness

-----------------------------------------------------------------------------
(* Properties.                                                             *)

BufferTypeOK ==
    /\ slots \in [BufferIndex -> 0..MaxVersion \cup {Torn}]
    /\ writeIndex \in BufferIndex /\ readIndex \in BufferIndex
    /\ shared \in [index : BufferIndex, fresh : BOOLEAN]
    /\ version \in 0..MaxVersion /\ writer \in {"idle", "filling"}
    /\ reader \in [Readers -> {"idle", "exchange", "assign", "return", "using"}]
    /\ got \in [Readers -> BufferIndex] /\ ref \in [Readers -> BufferIndex]
    /\ seen \in [Readers -> 0..MaxVersion \cup {Torn}]

\* "Never tears": the writer is never filling the slot a reader is using.
NoTear == \A r \in Readers : reader[r] = "using" /\ writer = "filling" => ref[r] # writeIndex

\* No reader goes back in time: the serial that frees memory only grows.
NeverOlder == [][\A r \in Readers : seen'[r] >= seen[r]]_bufferVars

\* A reader that keeps reading gets every last snapshot in the end.
EventuallySeen ==
    \A r \in Readers : \A v \in 1..MaxVersion :
        (Published = v) ~> (seen[r] >= v)
=============================================================================
