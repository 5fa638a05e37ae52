-------------------------- MODULE VimcCaptureQueue --------------------------
(***************************************************************************)
(* What a capture device promises the program that streams from it: the    *)
(* buffers come back in the order they were queued, each once, numbered     *)
(* consecutively from zero since the stream began, and stopping the stream *)
(* gives all of them back at once.                                         *)
(***************************************************************************)
EXTENDS Naturals, Sequences

CONSTANTS
    Buf,      \* the buffers
    SeqMod    \* sequence numbers wrap around here

VARIABLES
    waiting,  \* buffers queued and not filled, in order
    ready,    \* [buf, seq] filled and not taken back, in order
    running,  \* has the stream begun?
    number    \* the sequence number of the next frame

vars == <<waiting, ready, running, number>>

Init ==
    /\ waiting = <<>>
    /\ ready = <<>>
    /\ running = FALSE
    /\ number = 0

InUse(b) ==
    \/ \E i \in 1..Len(waiting) : waiting[i] = b
    \/ \E i \in 1..Len(ready) : ready[i].buf = b

Queue(b) ==
    /\ ~InUse(b)
    /\ waiting' = Append(waiting, b)
    /\ UNCHANGED <<ready, running, number>>

Begin ==
    /\ ~running
    /\ running' = TRUE
    /\ number' = 0
    /\ UNCHANGED <<waiting, ready>>

Deliver ==
    /\ running
    /\ waiting # <<>>
    /\ ready' = Append(ready, [buf |-> Head(waiting), seq |-> number])
    /\ waiting' = Tail(waiting)
    /\ number' = (number + 1) % SeqMod
    /\ UNCHANGED running

Take ==
    /\ ready # <<>>
    /\ ready' = Tail(ready)
    /\ UNCHANGED <<waiting, running, number>>

Flush ==
    /\ waiting' = <<>>
    /\ ready' = <<>>
    /\ running' = FALSE
    /\ number' = 0

Next ==
    \/ \E b \in Buf : Queue(b)
    \/ Begin
    \/ Deliver
    \/ Take
    \/ Flush

Spec == Init /\ [][Next]_vars
=============================================================================
