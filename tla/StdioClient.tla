---------------------------- MODULE StdioClient ----------------------------
(***************************************************************************)
(* A client of a downstream MCP server that runs as a child process        *)
(* (downstream.py, StdioClient).  A reader thread drains the child's       *)
(* output into a bounded queue, the worker thread that owns the client     *)
(* sends requests and takes frames from the queue until a deadline, and    *)
(* both the worker and a shutdown of the router may close the client.      *)
(***************************************************************************)
EXTENDS Integers, Sequences

CONSTANTS MaxQueue,     \* MAX_QUEUED_FRAMES
          MaxRequests,  \* bound: requests the worker sends
          MaxFrames     \* bound: frames the child writes

ASSUME ClientAssumption ==
    /\ MaxQueue \in Nat \ {0}
    /\ {MaxRequests, MaxFrames} \subseteq Nat

Response(n) == [kind |-> "response", id |-> n]
Frame == {Response(n) : n \in 1 .. MaxRequests}
             \cup [kind : {"notification", "request", "garbage"}, id : {0}]

(* The sentinel None the reader and close put in the queue.                *)
End == [kind |-> "end", id |-> 0]

Closers == {"worker", "shutdown"}

VARIABLES child,        \* the child process
          pipe,         \* what it wrote and nobody has read
          held,         \* frames the reader has read and not queued yet
          reader,       \* where the reader is
          queue,        \* stdout_queue
          worker,       \* where the worker is
          next,         \* the id of the request it is at
          closing,      \* where each of the closers is
          closed,       \* self.closed
          stop,         \* stop_event
          written,      \* history: every frame the child wrote
          consumed      \* history: everything the worker took

vars == <<child, pipe, held, reader, queue, worker, next, closing, closed, stop,
          written, consumed>>

TypeOK ==
    /\ child \in {"alive", "exited"}
    /\ pipe \in Seq(Frame)
    /\ held \in Seq(Frame \cup {End})
    /\ reader \in {"reading", "putting", "gone"}
    /\ queue \in Seq(Frame \cup {End})
    /\ Len(queue) <= MaxQueue
    /\ worker \in {"idle", "waiting", "answering", "failing", "finished"}
    /\ next \in 1 .. MaxRequests + 1
    /\ closing \in [Closers -> {"none", "check", "set", "stop", "notify",
                                "make_room", "retry", "cleanup", "drain", "done"}]
    /\ {closed, stop} \subseteq BOOLEAN
    /\ written \in Seq(Frame)
    /\ consumed \in Seq(Frame \cup {End})

(* The child runs and the reader thread is started (__init__, __enter__).   *)
Init ==
    /\ child = "alive"
    /\ pipe = << >>
    /\ held = << >>
    /\ reader = "reading"
    /\ queue = << >>
    /\ worker = "idle"
    /\ next = 1
    /\ closing = [c \in Closers |-> "none"]
    /\ closed = FALSE
    /\ stop = FALSE
    /\ written = << >>
    /\ consumed = << >>

-----------------------------------------------------------------------------
(* The child writes any frame, and exits when it likes.                    *)
Write ==
    /\ child = "alive"
    /\ Len(written) < MaxFrames
    /\ \E f \in Frame :
          /\ pipe' = Append(pipe, f)
          /\ written' = Append(written, f)
    /\ UNCHANGED <<child, held, reader, queue, worker, next, closing, closed, stop,
                   consumed>>

Exit ==
    /\ child = "alive"
    /\ child' = "exited"
    /\ UNCHANGED <<pipe, held, reader, queue, worker, next, closing, closed, stop,
                   written, consumed>>

-----------------------------------------------------------------------------
(* The reader (_drain_stdout, _enqueue).                                   *)

(* A chunk of one or more frames is read.                                  *)
ReadChunk ==
    /\ reader = "reading" /\ ~stop
    /\ \E n \in 1 .. Len(pipe) :
          /\ held' = SubSeq(pipe, 1, n)
          /\ pipe' = SubSeq(pipe, n + 1, Len(pipe))
    /\ reader' = "putting"
    /\ UNCHANGED <<child, queue, worker, next, closing, closed, stop, written, consumed>>

EofEarly ==
    /\ reader = "reading" /\ child = "exited"
    /\ held' = <<End>>
    /\ reader' = "putting"
    /\ UNCHANGED <<child, pipe, queue, worker, next, closing, closed, stop, written,
                   consumed>>

(* The output has ended: None is queued after everything else.             *)
Eof ==
    /\ reader = "reading" /\ child = "exited" /\ pipe = << >>
    /\ held' = <<End>>
    /\ reader' = "putting"
    /\ UNCHANGED <<child, pipe, queue, worker, next, closing, closed, stop, written,
                   consumed>>

Queued ==
    /\ held' = Tail(held)
    /\ reader' = IF Head(held) = End THEN "gone"
                 ELSE IF Len(held) = 1 THEN "reading" ELSE "putting"
    /\ UNCHANGED <<child, pipe, worker, next, closing, closed, stop, written, consumed>>

PutUnbounded ==
    /\ reader = "putting"
    /\ queue' = Append(queue, Head(held))
    /\ Queued

PutDropping ==
    /\ reader = "putting"
    /\ queue' = IF Len(queue) < MaxQueue THEN Append(queue, Head(held)) ELSE queue
    /\ Queued

(* A frame is queued when there is room; a put under way when stop is set  *)
(* may still succeed.                                                      *)
Put ==
    /\ reader = "putting"
    /\ Len(queue) < MaxQueue
    /\ queue' = Append(queue, Head(held))
    /\ Queued

ReaderStopsReading ==
    /\ stop /\ reader = "reading"
    /\ reader' = "gone"
    /\ held' = << >>
    /\ UNCHANGED <<child, pipe, queue, worker, next, closing, closed, stop, written,
                   consumed>>

(* stop_event is seen, while reading or while waiting for room.            *)
ReaderStops ==
    /\ stop /\ reader # "gone"
    /\ reader' = "gone"
    /\ held' = << >>
    /\ UNCHANGED <<child, pipe, queue, worker, next, closing, closed, stop, written,
                   consumed>>

(* Reading fails; nothing tells the worker, which waits for its deadline.  *)
ReaderFails ==
    /\ reader = "reading"
    /\ reader' = "gone"
    /\ UNCHANGED <<child, pipe, held, queue, worker, next, closing, closed, stop,
                   written, consumed>>

-----------------------------------------------------------------------------
(* The worker (request, _receive_response, _answer_request).               *)

WorkerAt(from, to) ==
    /\ worker = from
    /\ worker' = to
    /\ UNCHANGED <<child, pipe, held, reader, closing, closed, stop, written>>

Send == WorkerAt("idle", "waiting") /\ next <= MaxRequests /\ UNCHANGED <<queue, next, consumed>>

(* No request is left, or the child closed its input, or the deadline      *)
(* passed while the request was written.                                   *)
GiveUp == WorkerAt("idle", "failing") /\ UNCHANGED <<queue, next, consumed>>

Take(kinds) ==
    /\ queue # << >>
    /\ Head(queue).kind \in kinds
    /\ queue' = Tail(queue)
    /\ consumed' = Append(consumed, Head(queue))

(* The response with the id of the request.                                *)
TakeAnswer ==
    /\ WorkerAt("waiting", "idle")
    /\ Take({"response"}) /\ Head(queue).id = next
    /\ next' = next + 1

TakeNotification ==
    /\ WorkerAt("waiting", "waiting")
    /\ Take({"notification"})
    /\ UNCHANGED next

(* A request of the server is answered, then the wait goes on.             *)
TakeRequest ==
    /\ WorkerAt("waiting", "answering")
    /\ Take({"request"})
    /\ UNCHANGED next

AnswerRequest ==
    /\ \/ WorkerAt("answering", "waiting")
       \/ WorkerAt("answering", "failing")
    /\ UNCHANGED <<queue, next, consumed>>

(* A frame that is no valid message, or the response to something else.    *)
TakeInvalid ==
    /\ WorkerAt("waiting", "failing")
    /\ Take({"garbage", "response"}) /\ Head(queue) # Response(next)
    /\ UNCHANGED next

(* "downstream server closed without a response".                          *)
TakeEnd ==
    /\ WorkerAt("waiting", "failing")
    /\ Take({"end"})
    /\ UNCHANGED next

Timeout == WorkerAt("waiting", "failing") /\ UNCHANGED <<queue, next, consumed>>

-----------------------------------------------------------------------------
(* close, by the worker when its call ends and by a shutdown at any time.  *)

CloserAt(c, from, to) ==
    /\ closing[c] = from
    /\ closing' = [closing EXCEPT ![c] = to]
    /\ UNCHANGED <<pipe, held, reader, next, written, consumed>>

CloseBegins(c) ==
    /\ CloserAt(c, "none", "check")
    /\ IF c = "worker" THEN worker = "failing" /\ worker' = "finished"
       ELSE UNCHANGED worker
    /\ UNCHANGED <<child, queue, closed, stop>>

(* The flag is tested and set in two steps; both closers may pass.         *)
CloseCheck(c) ==
    /\ IF closed THEN CloserAt(c, "check", "done") ELSE CloserAt(c, "check", "set")
    /\ UNCHANGED <<child, queue, worker, closed, stop>>

CloseSet(c) ==
    /\ CloserAt(c, "set", "stop")
    /\ closed' = TRUE
    /\ UNCHANGED <<child, queue, worker, stop>>

CloseStop(c) ==
    /\ CloserAt(c, "stop", "notify")
    /\ stop' = TRUE
    /\ UNCHANGED <<child, queue, worker, closed>>

(* _notify_stdout_shutdown: None is queued; if there is no room a frame    *)
(* makes way for it, unless the reader takes the room again.               *)
NotifyIn(c, state, full) ==
    /\ IF Len(queue) < MaxQueue
       THEN CloserAt(c, state, "cleanup") /\ queue' = Append(queue, End)
       ELSE CloserAt(c, state, full) /\ UNCHANGED queue
    /\ UNCHANGED <<child, worker, closed, stop>>

Notify(c) == NotifyIn(c, "notify", "make_room") \/ NotifyIn(c, "retry", "cleanup")

MakeRoom(c) ==
    /\ CloserAt(c, "make_room", "retry")
    /\ queue' = IF queue = << >> THEN queue ELSE Tail(queue)
    /\ UNCHANGED <<child, worker, closed, stop>>

(* The process group is killed; the reader gets some time to finish.       *)
Cleanup(c) ==
    /\ CloserAt(c, "cleanup", "drain")
    /\ child' = "exited"
    /\ UNCHANGED <<queue, worker, closed, stop>>

(* The queue is emptied.                                                   *)
Drain(c) ==
    /\ IF queue = << >>
       THEN CloserAt(c, "drain", "done") /\ UNCHANGED queue
       ELSE CloserAt(c, "drain", "drain") /\ queue' = Tail(queue)
    /\ UNCHANGED <<child, worker, closed, stop>>

-----------------------------------------------------------------------------
Reader == ReadChunk \/ Eof \/ Put \/ ReaderStops \/ ReaderFails

Worker == Send \/ GiveUp \/ TakeAnswer \/ TakeNotification \/ TakeRequest
              \/ AnswerRequest \/ TakeInvalid \/ TakeEnd \/ Timeout

Close(c) == CloseCheck(c) \/ CloseSet(c) \/ CloseStop(c) \/ Notify(c)
                \/ MakeRoom(c) \/ Cleanup(c) \/ Drain(c)

Next ==
    \/ Write \/ Exit \/ Reader \/ Worker
    \/ \E c \in Closers : CloseBegins(c) \/ Close(c)

Spec == Init /\ [][Next]_vars

(* Threads of the router go on: every wait of theirs has a timeout.        *)
Fairness ==
    /\ WF_vars(Reader) /\ WF_vars(Worker)
    /\ \A c \in Closers : WF_vars(Close(c))
    /\ WF_vars(CloseBegins("worker"))

FairSpec == Spec /\ Fairness

-----------------------------------------------------------------------------
(* The queue, what the reader holds and the pipe are one channel from the  *)
(* child to the worker.                                                    *)
Channel == INSTANCE FrameChannel
               WITH Message     <- Frame \cup {End},
                    EndOfOutput <- End,
                    pending     <- queue \o held \o pipe,
                    received    <- consumed,
                    open        <- ~stop

(* However full the queue is, the channel loses, repeats and reorders      *)
(* nothing until the client is being closed, and then what still arrives   *)
(* is in order, but for the end of the output told to a waiting worker     *)
(* (downstream.py, _drain_stdout, _enqueue and _notify_stdout_shutdown).   *)
FramesDelivered == Channel!Spec

(* An answer the child wrote before it exited is never hidden by its exit: *)
(* unless the client is being closed, the worker is told that the server   *)
(* closed only when it has taken every frame (downstream.py,               *)
(* _receive_response).                                                     *)
EndAfterEverything ==
    [][TakeEnd /\ ~stop => child = "exited" /\ consumed = written]_vars

(* A closed client leaves no reader thread behind, and closing it ends,    *)
(* also when the queue is full and nobody takes from it (downstream.py,    *)
(* _enqueue and close).                                                    *)
CloseEnds ==
    \A c \in Closers : closing[c] # "none" ~> closing[c] = "done" /\ reader = "gone"
=============================================================================
