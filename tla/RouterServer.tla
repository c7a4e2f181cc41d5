---------------------------- MODULE RouterServer ----------------------------
(***************************************************************************)
(* The MCP server of a router (server.py, Server) and the downstream       *)
(* clients of its worker threads (executor.py, active_clients).  The main  *)
(* thread reads requests, admits them and starts a worker for each; a      *)
(* signal raises ShutdownRequested at any step of the main thread.  On the *)
(* way out it closes the clients of the executors it knows of and joins    *)
(* the workers.                                                            *)
(***************************************************************************)
EXTENDS Integers, FiniteSets

CONSTANTS Ids,          \* JSON-RPC request identifiers
          Workers,      \* thread objects; one is used again when it is gone
          Executors,    \* executors a session goes through, one at a time
          Nothing,      \* no request, no executor
          MaxSlots      \* MAX_INFLIGHT_REQUESTS

ASSUME ServerAssumption ==
    /\ MaxSlots \in Nat \ {0}
    /\ Executors # {}

VARIABLES main,         \* where the main thread is
          request,      \* the request it is admitting
          worker,       \* the thread object it made for it
          slots,        \* free places of worker_slots
          inflight,     \* request ids in work
          workers,      \* the set self.workers
          thread,       \* where each worker is
          id,           \* the request each worker handles
          current,      \* the executor in force
          retired,      \* executors replaced by context_use
          used,         \* the executor each worker works with
          copied,       \* executors whose clients the shutdown closes
          late,         \* history: executors made after that copy was taken
          shutting,     \* executors with shutting_down set
          target,       \* the executor whose clients it is closing
          toClose,      \* workers whose client it still has to close
          active,       \* workers whose client is in active_clients
          closed,       \* workers whose client the shutdown has closed
          joining,      \* workers the main thread still has to join
          stop,         \* shutdown_event
          pending,      \* a signal waits for the main thread
          received,     \* shutdown_signal_received
          outcome       \* how serve ended

admission == <<request, worker, slots, inflight, workers>>
closing == <<copied, shutting, target, toClose>>
clients == <<current, retired, used, late, closing, active, closed>>
signals == <<stop, pending, received>>
vars == <<main, admission, thread, id, clients, joining, signals, outcome>>

Serving == {"read", "admit", "check", "make", "start", "drain"}
Leaving == {"close", "close_each", "copy", "close_clients", "join"}
Stages == {"free", "made", "running", "connecting", "registering", "calling",
           "posting", "answering", "written", "answered", "released"}

TypeOK ==
    /\ main \in Serving \cup Leaving \cup {"exited"}
    /\ request \in Ids \cup {Nothing}
    /\ worker \in Workers \cup {Nothing}
    /\ slots \in 0 .. MaxSlots
    /\ inflight \subseteq Ids
    /\ workers \subseteq Workers
    /\ thread \in [Workers -> Stages]
    /\ id \in [Workers -> Ids \cup {Nothing}]
    /\ current \in Executors
    /\ retired \subseteq Executors
    /\ used \in [Workers -> Executors \cup {Nothing}]
    /\ {copied, late} \subseteq SUBSET Executors
    /\ shutting \subseteq copied
    /\ target \in Executors \cup {Nothing}
    /\ toClose \subseteq Workers
    /\ active \subseteq Workers
    /\ closed \subseteq Workers
    /\ joining \subseteq Workers
    /\ {stop, pending, received} \subseteq BOOLEAN
    /\ outcome \in {"none", "end", "signal", "error"}

Init ==
    /\ main = "read"
    /\ request = Nothing
    /\ worker = Nothing
    /\ slots = MaxSlots
    /\ inflight = {}
    /\ workers = {}
    /\ thread = [w \in Workers |-> "free"]
    /\ id = [w \in Workers |-> Nothing]
    /\ current \in Executors
    /\ retired = {}
    /\ used = [w \in Workers |-> Nothing]
    /\ copied = {}
    /\ late = {}
    /\ shutting = {}
    /\ target = Nothing
    /\ toClose = {}
    /\ active = {}
    /\ closed = {}
    /\ joining = {}
    /\ stop = FALSE
    /\ pending = FALSE
    /\ received = FALSE
    /\ outcome = "none"

-----------------------------------------------------------------------------
(* The main thread serves requests (_serve_requests).  Lines it answers    *)
(* itself, malformed ones, change nothing and are left out.                *)

Read ==
    /\ main = "read" /\ ~stop
    /\ request' \in Ids
    /\ main' = "admit"
    /\ UNCHANGED <<worker, slots, inflight, workers, thread, id, clients, joining,
                   signals, outcome>>

(* All places are taken: "server busy".                                    *)
Busy ==
    /\ main = "admit" /\ slots = 0
    /\ request' = Nothing
    /\ main' = "read"
    /\ UNCHANGED <<worker, slots, inflight, workers, thread, id, clients, joining,
                   signals, outcome>>

TakeSlotBlindly ==
    /\ main = "admit"
    /\ slots' = slots - 1
    /\ main' = "check"
    /\ UNCHANGED <<request, worker, inflight, workers, thread, id, clients, joining,
                   signals, outcome>>

TakeSlot ==
    /\ main = "admit" /\ slots > 0
    /\ slots' = slots - 1
    /\ main' = "check"
    /\ UNCHANGED <<request, worker, inflight, workers, thread, id, clients, joining,
                   signals, outcome>>

DuplicateKeepingSlot ==
    /\ main = "check" /\ request \in inflight
    /\ request' = Nothing
    /\ main' = "read"
    /\ UNCHANGED <<worker, slots, inflight, workers, thread, id, clients, joining,
                   signals, outcome>>

(* A request with this id is in work: the place is given back.             *)
Duplicate ==
    /\ main = "check" /\ request \in inflight
    /\ slots' = slots + 1
    /\ request' = Nothing
    /\ main' = "read"
    /\ UNCHANGED <<worker, inflight, workers, thread, id, clients, joining,
                   signals, outcome>>

EnterUnchecked ==
    /\ main = "check"
    /\ inflight' = inflight \cup {request}
    /\ main' = "make"
    /\ UNCHANGED <<request, worker, slots, workers, thread, id, clients, joining,
                   signals, outcome>>

Enter ==
    /\ main = "check" /\ request \notin inflight
    /\ inflight' = inflight \cup {request}
    /\ main' = "make"
    /\ UNCHANGED <<request, worker, slots, workers, thread, id, clients, joining,
                   signals, outcome>>

MakeUnlisted ==
    /\ main = "make"
    /\ \E w \in Workers :
          /\ thread[w] = "free"
          /\ worker' = w
          /\ thread' = [thread EXCEPT ![w] = "made"]
          /\ id' = [id EXCEPT ![w] = request]
    /\ main' = "start"
    /\ UNCHANGED <<request, slots, inflight, workers, clients, joining, signals, outcome>>

(* The worker is made and put in the set of workers ...                    *)
Make ==
    /\ main = "make"
    /\ \E w \in Workers :
          /\ thread[w] = "free"
          /\ worker' = w
          /\ workers' = workers \cup {w}
          /\ thread' = [thread EXCEPT ![w] = "made"]
          /\ id' = [id EXCEPT ![w] = request]
    /\ main' = "start"
    /\ UNCHANGED <<request, slots, inflight, clients, joining, signals, outcome>>

(* ... before it is started.                                               *)
Start ==
    /\ main = "start"
    /\ thread' = [thread EXCEPT ![worker] = "running"]
    /\ request' = Nothing
    /\ worker' = Nothing
    /\ main' = "read"
    /\ UNCHANGED <<slots, inflight, workers, id, clients, joining, signals, outcome>>

(* End of input, or the output failed: the workers are joined.             *)
EndOfInput ==
    /\ main = "read"
    /\ main' = "drain"
    /\ UNCHANGED <<admission, thread, id, clients, joining, signals, outcome>>

-----------------------------------------------------------------------------
(* Workers (_run_worker, _handle and, for a call, executor.py, _call).     *)

Stage(w, from, to) ==
    /\ thread[w] = from
    /\ thread' = [thread EXCEPT ![w] = to]

(* The method is answered without a downstream call.                       *)
Handle(w) ==
    /\ Stage(w, "running", "answering")
    /\ UNCHANGED <<main, admission, id, clients, joining, signals, outcome>>

(* context_use, and any action that rebuilds the executor.                 *)
ReplaceExecutor(w) ==
    /\ Stage(w, "running", "answering")
    /\ \E e \in Executors \ ({current} \cup retired) :
          /\ current' = e
          /\ retired' = retired \cup {current}
          /\ late' = IF copied = {} THEN late ELSE late \cup {e}
    /\ UNCHANGED <<main, admission, id, used, closing, active, closed, joining,
                   signals, outcome>>

(* A call: the downstream server is started.                               *)
Connect(w) ==
    /\ Stage(w, "running", "connecting")
    /\ used' = [used EXCEPT ![w] = current]
    /\ UNCHANGED <<main, admission, id, current, retired, late, closing, active,
                   closed, joining, signals, outcome>>

(* A worker registers its client under active_clients_lock.                *)
Unlocked(e) == \A w \in Workers : thread[w] = "registering" => used[w] # e

(* The lock is taken and shutting_down is not set ...                      *)
RegisterTest(w) ==
    /\ Unlocked(used[w])
    /\ used[w] \notin shutting
    /\ Stage(w, "connecting", "registering")
    /\ UNCHANGED <<main, admission, id, clients, joining, signals, outcome>>

(* ... so the client is registered, and the call goes to a child process   *)
(* or is posted to an HTTP server.                                         *)
Register(w) ==
    /\ \E transport \in {"calling", "posting"} : Stage(w, "registering", transport)
    /\ active' = active \cup {w}
    /\ UNCHANGED <<main, admission, id, current, retired, used, late, closing,
                   closed, joining, signals, outcome>>

(* shutting_down is set: the client is closed and the call is an error.    *)
Reject(w) ==
    /\ Unlocked(used[w])
    /\ used[w] \in shutting
    /\ Stage(w, "connecting", "answering")
    /\ used' = [used EXCEPT ![w] = Nothing]
    /\ UNCHANGED <<main, admission, id, current, retired, late, closing, active,
                   closed, joining, signals, outcome>>

(* The call is over: the client is closed and discarded under the lock.    *)
Discard(w) ==
    /\ Unlocked(used[w])
    /\ active' = active \ {w}
    /\ closed' = closed \ {w}
    /\ toClose' = toClose \ {w}
    /\ used' = [used EXCEPT ![w] = Nothing]
    /\ UNCHANGED <<main, admission, id, current, retired, copied, late, shutting,
                   target, joining, signals, outcome>>

(* The child answers, exits, is closed by the shutdown, or the deadline of *)
(* the call passes.                                                        *)
CallEnds(w) ==
    /\ Stage(w, "calling", "answering")
    /\ Discard(w)

(* The HTTP server answers or is silent for the rest of the deadline.  One *)
(* that sends a byte now and then is waited for: the timeout is that of    *)
(* each socket operation, and the close of the shutdown has no effect.     *)
PostEnds(w) ==
    /\ Stage(w, "posting", "answering")
    /\ Discard(w)

AnswerBlocking(w) ==
    /\ ~stop
    /\ Stage(w, "answering", "written")
    /\ UNCHANGED <<main, admission, id, clients, joining, signals, outcome>>

(* The response is written, or given up because the server stops ...       *)
Answer(w) ==
    /\ Stage(w, "answering", "written")
    /\ UNCHANGED <<main, admission, id, clients, joining, signals, outcome>>

(* ... and only then is the id free again.                                 *)
Forget(w) ==
    /\ Stage(w, "written", "answered")
    /\ inflight' = inflight \ {id[w]}
    /\ UNCHANGED <<main, request, worker, slots, workers, id, clients, joining,
                   signals, outcome>>

Release(w) ==
    /\ Stage(w, "answered", "released")
    /\ slots' = slots + 1
    /\ UNCHANGED <<main, request, worker, inflight, workers, id, clients, joining,
                   signals, outcome>>

End(w) ==
    /\ Stage(w, "released", "free")
    /\ workers' = workers \ {w}
    /\ id' = [id EXCEPT ![w] = Nothing]
    /\ UNCHANGED <<main, request, worker, slots, inflight, clients, joining,
                   signals, outcome>>

-----------------------------------------------------------------------------
(* Shutdown.                                                               *)

(* SIGTERM or SIGINT from outside.                                         *)
Terminate ==
    /\ main # "exited" /\ ~pending
    /\ pending' = TRUE
    /\ UNCHANGED <<main, admission, thread, id, clients, joining, stop, received, outcome>>

(* The output is broken: writes are given up, and the main thread, which   *)
(* may be waiting for input, is sent SIGTERM while it serves.              *)
OutputFailed ==
    /\ ~stop
    /\ \E w \in Workers : thread[w] = "answering"
    /\ stop' = TRUE
    /\ pending' = (pending \/ main \in Serving)
    /\ UNCHANGED <<main, admission, thread, id, clients, joining, received, outcome>>

(* _request_shutdown runs between two steps of the main thread: the first  *)
(* signal raises ShutdownRequested there, others only set the event.       *)
Deliver ==
    /\ pending /\ main # "exited"
    /\ pending' = FALSE
    /\ stop' = TRUE
    /\ received' = TRUE
    /\ IF received THEN UNCHANGED <<main, joining, outcome>>
       ELSE IF main \in Serving
       THEN /\ main' = "close"
            /\ outcome' = "signal"
            /\ joining' = {}
       ELSE /\ main' = "exited"
            /\ outcome' = "error"
            /\ joining' = {}
    /\ UNCHANGED <<admission, thread, id, clients>>

(* The finally clause: a copy of the executor in force and of the retired  *)
(* ones is taken.                                                          *)
CopyExecutors ==
    /\ main = "close"
    /\ copied' = {current} \cup retired
    /\ main' = "close_each"
    /\ UNCHANGED <<admission, thread, id, current, retired, used, late, shutting,
                   target, toClose, active, closed, joining, signals, outcome>>

(* For one executor after the other shutting_down is set without the lock, *)
SetShuttingDown ==
    /\ main = "close_each"
    /\ \E e \in copied \ shutting :
          /\ shutting' = shutting \cup {e}
          /\ target' = e
    /\ main' = "copy"
    /\ UNCHANGED <<admission, thread, id, current, retired, used, late, copied,
                   toClose, active, closed, joining, signals, outcome>>

CopyClientsUnlocked ==
    /\ main = "copy"
    /\ toClose' = {w \in active : used[w] = target}
    /\ main' = "close_clients"
    /\ UNCHANGED <<admission, thread, id, current, retired, used, late, copied,
                   shutting, target, active, closed, joining, signals, outcome>>

(* the clients are copied under the lock,                                  *)
CopyClients ==
    /\ main = "copy"
    /\ Unlocked(target)
    /\ toClose' = {w \in active : used[w] = target}
    /\ main' = "close_clients"
    /\ UNCHANGED <<admission, thread, id, current, retired, used, late, copied,
                   shutting, target, active, closed, joining, signals, outcome>>

(* and each is closed, again without it.                                   *)
CloseClient ==
    /\ main = "close_clients"
    /\ \E w \in toClose :
          /\ closed' = closed \cup {w}
          /\ toClose' = toClose \ {w}
    /\ UNCHANGED <<main, admission, thread, id, current, retired, used, late, copied,
                   shutting, target, active, joining, signals, outcome>>

ClientsClosed ==
    /\ main = "close_clients" /\ toClose = {}
    /\ target' = Nothing
    /\ main' = IF shutting = copied THEN "join" ELSE "close_each"
    /\ UNCHANGED <<admission, thread, id, current, retired, used, late, copied,
                   shutting, toClose, active, closed, joining, signals, outcome>>

(* _join_workers takes a copy of the set of workers and joins each.        *)
JoinCopy ==
    /\ main \in {"drain", "join"} /\ joining = {}
    /\ workers # {}
    /\ joining' = workers
    /\ UNCHANGED <<main, admission, thread, id, clients, signals, outcome>>

Join ==
    /\ main \in {"drain", "join"}
    /\ \E w \in joining :
          /\ thread[w] = "free"
          /\ joining' = joining \ {w}
    /\ UNCHANGED <<main, admission, thread, id, clients, signals, outcome>>

(* A thread that was never started cannot be joined: RuntimeError.         *)
JoinFails ==
    /\ main = "join"
    /\ \E w \in joining : thread[w] = "made"
    /\ main' = "exited"
    /\ outcome' = "error"
    /\ joining' = {}
    /\ UNCHANGED <<admission, thread, id, clients, signals>>

Joined ==
    /\ joining = {} /\ workers = {}
    /\ \/ /\ main = "drain"
          /\ main' = "close"
          /\ outcome' = "end"
       \/ /\ main = "join"
          /\ main' = "exited"
          /\ UNCHANGED outcome
    /\ UNCHANGED <<admission, thread, id, clients, joining, signals>>

-----------------------------------------------------------------------------
Admit == Busy \/ TakeSlot \/ Duplicate \/ Enter \/ Make \/ Start

Leave ==
    \/ CopyExecutors \/ SetShuttingDown \/ CopyClients \/ CloseClient \/ ClientsClosed
    \/ JoinCopy \/ Join \/ JoinFails \/ Joined

Work(w) ==
    \/ Handle(w) \/ ReplaceExecutor(w) \/ Connect(w)
    \/ RegisterTest(w) \/ Register(w) \/ Reject(w) \/ CallEnds(w)
    \/ Release(w) \/ End(w)

Respond(w) == Answer(w) \/ Forget(w)

Next ==
    \/ Read \/ EndOfInput \/ Admit \/ Leave
    \/ Terminate \/ OutputFailed \/ Deliver
    \/ \E w \in Workers : Work(w) \/ PostEnds(w) \/ Respond(w)

Spec == Init /\ [][Next]_vars

(* The main thread leaves and signals reach it, and workers go on: a call  *)
(* to a child process ends by its deadline, when the child is killed.  No  *)
(* call to an HTTP server need end.  Input need not come, and a client     *)
(* need not read its responses: only when the server stops are they given  *)
(* up, also those the main thread writes while it holds inflight_lock.     *)
Fairness ==
    /\ WF_vars(Leave) /\ WF_vars(Deliver)
    /\ \A w \in Workers : WF_vars(Work(w)) /\ WF_vars(stop /\ Respond(w))

FairSpec == Spec /\ Fairness

-----------------------------------------------------------------------------
HoldsSlot == {"running", "connecting", "registering", "calling", "posting",
              "answering", "written", "answered"}

(* Between requests every place is free or held by one worker: no path of  *)
(* admission loses a place, which would make the server busy for good      *)
(* (server.py, _serve_requests and _run_worker).                           *)
SlotsAccounted ==
    main \in {"read", "admit"} =>
        slots + Cardinality({w \in Workers : thread[w] \in HoldsSlot}) = MaxSlots

(* No two workers handle requests with the same id, so a response tells    *)
(* its request (server.py, inflight).                                      *)
OneWorkerPerRequest ==
    \A v, w \in Workers :
        /\ v # w
        /\ thread[v] \in HoldsSlot \ {"answered"}
        /\ thread[w] \in HoldsSlot \ {"answered"}
        => id[v] # id[w]

(* When serve has returned no worker runs and no downstream client is left *)
(* open (server.py, serve and _join_workers).                              *)
NothingLeftBehind ==
    main = "exited" /\ outcome # "error" =>
        /\ \A w \in Workers : thread[w] = "free"
        /\ active = {}

(* Once a shutdown has closed the clients of an executor, none of its      *)
(* clients is open without having been closed, however the closing and the *)
(* registration of a client interleave; and when it waits for the workers, *)
(* that holds of every executor there was when it took its copy, however   *)
(* long ago a session left it.  Only calls of an executor made later, and  *)
(* those to HTTP servers, which a close does not interrupt, are waited for *)
(* (runtime.py and executor.py, close_active_clients; executor.py,         *)
(* _register_client).                                                      *)
ShutdownClosesClients ==
    /\ \A w \in active : used[w] \in shutting \ {target} => w \in closed
    /\ main = "join" => \A w \in active : used[w] \in late \/ w \in closed

(* A signal ends the server, also when nobody reads its output, unless a   *)
(* worker waits for an HTTP server for ever (server.py, write and serve;   *)
(* downstream.py, HttpClient._post).                                       *)
SignalEndsServer ==
    (\A w \in Workers : []<>(thread[w] # "posting"))
        => (pending /\ main # "exited" ~> main = "exited")

(* tests/test_router_contract.py terminates a serving router and asserts   *)
(* that its exit status is 128 + SIGTERM: once a signal has ended the      *)
(* service, nothing on the way out replaces that status.                   *)
TerminationStatus == [][outcome = "signal" => outcome' = "signal"]_vars
=============================================================================
