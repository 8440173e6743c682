----------------------------- MODULE UndoHistory -----------------------------
(***************************************************************************)
(* app/undo.cpp: the undo stack, as operators on a history. A history is a *)
(* record of the done and the undone entries, the members of the group     *)
(* that is open, how deep groups are nested, and whether the last thing    *)
(* that happened was a wipe. An entry is the edits it undoes together, in  *)
(* the order they were made, and whether it counts as a sample operation;  *)
(* what an edit is, and what undoing it does, is for the modules that use  *)
(* this one.                                                               *)
(***************************************************************************)
EXTENDS Integers, Sequences, SequencesExt

CONSTANTS HistoryLimit,   \* kMaxEntries
          SampleOpLimit   \* kMaxSampleOps

ASSUME HistoryAssumption == HistoryLimit \in Nat \ {0} /\ SampleOpLimit \in Nat \ {0}

NoHistory == [past |-> <<>>, future |-> <<>>, group |-> <<>>, depth |-> 0, wiped |-> FALSE]

Entry(edits, sampleOp) == [edits |-> edits, sampleOp |-> sampleOp]

\* sample_op_depth
SampleOps(entries) == Len(SelectSeq(entries, LAMBDA e : e.sampleOp))

\* Over the sample limit, the oldest sample operation goes with all before it.
DropOldestSampleOp(entries) ==
    LET first == SelectInSeq(entries, LAMBDA e : e.sampleOp)
    IN  RemoveAt(entries, first)
Truncate(entries) ==
    LET first == SelectInSeq(entries, LAMBDA e : e.sampleOp)
    IN  SubSeq(entries, first + 1, Len(entries))

\* commit
Commit(h, entry) ==
    LET all == Append(h.past, entry)
        kept == IF Len(all) > HistoryLimit THEN Tail(all) ELSE all
    IN  [h EXCEPT !.past = IF SampleOps(kept) > SampleOpLimit THEN Truncate(kept) ELSE kept,
                  !.future = <<>>, !.wiped = FALSE]

\* push
Push(h, edit) ==
    IF h.depth > 0 THEN [h EXCEPT !.group = Append(@, edit), !.future = <<>>, !.wiped = FALSE]
    ELSE Commit(h, Entry(<<edit>>, FALSE))

\* push_sample_op: in a group it is a member like any other.
PushSampleOp(h, edit) ==
    IF h.depth > 0 THEN Push(h, edit) ELSE Commit(h, Entry(<<edit>>, TRUE))

\* begin_group and end_group: the outermost end commits, unless nothing joined.
BeginGroup(h) == [h EXCEPT !.depth = @ + 1]
EndGroup(h) ==
    LET closed == [h EXCEPT !.depth = 0, !.group = <<>>]
    IN  CASE h.depth = 0 -> h
          [] h.depth > 1 -> [h EXCEPT !.depth = @ - 1]
          [] h.depth = 1 /\ h.group = <<>> -> closed
          [] h.depth = 1 /\ h.group # <<>> -> Commit(closed, Entry(h.group, FALSE))

\* clear and reset: the groups that are open are forgotten with the rest.
Clear(h) == [NoHistory EXCEPT !.wiped = TRUE]
Reset(h) == NoHistory

\* undo and redo move an entry; the caller applies its edits, the last one first
\* when they are undone.
CanUndo(h) == h.past # <<>>
CanRedo(h) == h.future # <<>>
UndoneEdits(h) == Reverse(Last(h.past).edits)
RedoneEdits(h) == Last(h.future).edits
Undone(h) == [h EXCEPT !.past = Front(@), !.future = Append(@, Last(h.past))]
Redone(h) == [h EXCEPT !.future = Front(@), !.past = Append(@, Last(h.future))]
=============================================================================
