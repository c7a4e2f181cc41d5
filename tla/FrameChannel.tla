----------------------------- MODULE FrameChannel -----------------------------
(***************************************************************************)
(* What the queue, the reader thread and the pipe of a stdio client are to *)
(* promise together: a first-in first-out channel from the child process   *)
(* to the worker.  While it is open every message arrives, once and in     *)
(* order; once it is being closed messages may be lost and the end of the  *)
(* output may overtake others, but what arrives is still in order.         *)
(***************************************************************************)
EXTENDS Integers, Sequences

CONSTANTS Message,      \* frames, and the end of the output
          EndOfOutput

VARIABLES pending,      \* messages on their way
          received,     \* messages the worker has taken
          open          \* nobody has begun to close the channel

vars == <<pending, received, open>>

Init ==
    /\ pending = << >>
    /\ received = << >>
    /\ open = TRUE

Send ==
    /\ \E m \in Message : pending' = Append(pending, m)
    /\ UNCHANGED <<received, open>>

Receive ==
    /\ pending # << >>
    /\ received' = Append(received, Head(pending))
    /\ pending' = Tail(pending)
    /\ UNCHANGED open

Close ==
    /\ open' = FALSE
    /\ UNCHANGED <<pending, received>>

(* The messages i to j are lost.                                           *)
Lose ==
    /\ ~open
    /\ \E i, j \in DOMAIN pending :
           /\ i <= j
           /\ pending' = SubSeq(pending, 1, i - 1) \o SubSeq(pending, j + 1, Len(pending))
    /\ UNCHANGED <<received, open>>

(* The end is told to a worker that waits.                                 *)
Interrupt ==
    /\ ~open
    /\ \E i \in 0 .. Len(pending) :
           pending' = Append(SubSeq(pending, 1, i), EndOfOutput)
                          \o SubSeq(pending, i + 1, Len(pending))
    /\ UNCHANGED <<received, open>>

Next == Send \/ Receive \/ Close \/ Lose \/ Interrupt

Spec == Init /\ [][Next]_vars
=============================================================================
