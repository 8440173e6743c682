---------------------------- MODULE BoundedFifo -----------------------------
(***************************************************************************)
(* What rt/spsc_queue promises to its two threads: a first-in first-out    *)
(* buffer of bounded capacity, on which every call takes effect at one     *)
(* instant.  A push is refused exactly when the buffer is full and changes *)
(* nothing; a pop finds nothing exactly when the buffer is empty.          *)
(***************************************************************************)
EXTENDS Naturals, Sequences

CONSTANTS
    Values,    \* what the producer may push
    Capacity,  \* how many values the buffer holds
    Nothing    \* the result of a pop that returned false

VARIABLES
    fifo,      \* the values pushed and not yet popped, oldest first
    accepted,  \* the result of the last push
    out        \* the result of the last pop

vars == <<fifo, accepted, out>>

Init == fifo = <<>> /\ accepted = TRUE /\ out = Nothing

Push(v) ==
    /\ Len(fifo) < Capacity
    /\ fifo' = Append(fifo, v)
    /\ accepted' = TRUE
    /\ UNCHANGED out

Refuse ==
    /\ Len(fifo) = Capacity
    /\ accepted' = FALSE
    /\ UNCHANGED <<fifo, out>>

Pop ==
    /\ fifo # <<>>
    /\ out' = Head(fifo)
    /\ fifo' = Tail(fifo)
    /\ UNCHANGED accepted

FindEmpty ==
    /\ fifo = <<>>
    /\ out' = Nothing
    /\ UNCHANGED <<fifo, accepted>>

Next == (\E v \in Values : Push(v)) \/ Refuse \/ Pop \/ FindEmpty

Spec == Init /\ [][Next]_vars
=============================================================================
