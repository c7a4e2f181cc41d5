------------------------- MODULE RouterServerProofs -------------------------
(* Proofs about RouterServer, for any number of places, worker threads,    *)
(* request ids and executors.  The invariant counts the place an admission *)
(* holds, ties ids in work to the workers that handle them, and says what  *)
(* the shutdown's copy of the executors covers; each safety property is a  *)
(* part of it or follows from one.                                         *)
EXTENDS RouterServer, FiniteSetTheorems, TLAPS

Admitting == {"admit", "check", "make", "start"}

Handling == HoldsSlot \ {"answered"}

(* What the main thread holds between the steps of an admission.           *)
AdmissionHeld ==
    /\ main \in Admitting => request \in Ids
    /\ main \in {"make", "start"} => request \in inflight
    /\ main = "start" => /\ worker \in Workers
                         /\ thread[worker] = "made"
                         /\ id[worker] = request

Holders == {w \in Workers : thread[w] \in HoldsSlot}

(* The place of the request under admission.                               *)
Taken == IF main \in {"check", "make", "start"} THEN 1 ELSE 0

(* Every place is free, held by a worker or by the admission; a signal in  *)
(* the middle of an admission loses its place, and nothing ever gives back *)
(* one too many.                                                           *)
PlacesCounted ==
    /\ IsFiniteSet(Holders)
    /\ slots + Cardinality(Holders) + Taken <= MaxSlots
    /\ main \in Serving => slots + Cardinality(Holders) + Taken = MaxSlots

(* The ids of the workers that have not answered are in work, and none is  *)
(* the id of the request that was just entered.                            *)
IdsInWork ==
    /\ \A w \in Workers : thread[w] \in Handling =>
          /\ id[w] \in inflight
          /\ main \in {"make", "start"} => id[w] # request
    /\ OneWorkerPerRequest

(* A thread that exists is in the set that _join_workers waits for.        *)
WorkersListed ==
    /\ \A w \in Workers : thread[w] # "free" => w \in workers
    /\ main = "exited" /\ outcome # "error" => workers = {}

(* A client is open only in a call, and its executor is the current or a   *)
(* retired one; once the shutdown has its copy, that executor is in the    *)
(* copy or was made later.                                                 *)
ClientsKnown ==
    /\ \A w \in active : thread[w] \in {"calling", "posting"}
    /\ \A w \in Workers :
          thread[w] \in {"connecting", "registering", "calling", "posting"} =>
              used[w] \in {current} \cup retired
    /\ main \in Serving \cup {"close"} => copied = {} /\ shutting = {}
    /\ main \in Leaving \ {"close"} =>
          /\ copied # {}
          /\ {current} \cup retired \subseteq copied \cup late
    /\ main = "join" => shutting = copied

(* Clients are closed between the copy of an executor's clients, which     *)
(* waits for a registration under way, and the next executor; later ones   *)
(* find shutting_down set.                                                 *)
ClientsClosing ==
    /\ main \in {"copy", "close_clients"} => target \in shutting
    /\ \A w \in Workers : thread[w] = "registering" /\ used[w] \in shutting =>
          main \in {"copy", "exited"} /\ used[w] = target
    /\ \A w \in active : used[w] \in shutting =>
          \/ w \in closed
          \/ main \in {"copy", "close_clients", "exited"} /\ used[w] = target
    /\ main = "close_clients" =>
          \A w \in active : used[w] = target => w \in closed \cup toClose

Inductive ==
    /\ TypeOK
    /\ AdmissionHeld
    /\ PlacesCounted
    /\ IdsInWork
    /\ WorkersListed
    /\ ClientsKnown
    /\ ClientsClosing

(* What TypeOK says in the collective form.                                *)
LEMMA CollectiveTypes ==
    /\ {copied, late} \subseteq SUBSET Executors
          <=> copied \subseteq Executors /\ late \subseteq Executors
    /\ {stop, pending, received} \subseteq BOOLEAN
          <=> stop \in BOOLEAN /\ pending \in BOOLEAN /\ received \in BOOLEAN
  OBVIOUS

(* The invariant holds initially: every place is free and nothing is in    *)
(* work (server.py, Server.__init__).                                      *)
LEMMA InitInductive == Init => Inductive
<1> SUFFICES ASSUME Init PROVE Inductive
  OBVIOUS
<1>1. slots \in 0 .. MaxSlots
  BY ServerAssumption DEF Init
<1>2. TypeOK
  BY <1>1, CollectiveTypes DEF Init, TypeOK, Stages, Serving
<1>3. Holders = {}
  BY DEF Init, Holders, HoldsSlot
<1>4. PlacesCounted
  BY <1>3, FS_EmptySet, ServerAssumption DEF Init, PlacesCounted, Taken
<1>5. AdmissionHeld /\ IdsInWork /\ WorkersListed /\ ClientsKnown /\ ClientsClosing
  BY DEF Init, AdmissionHeld, Admitting, IdsInWork, OneWorkerPerRequest, Handling,
         HoldsSlot, WorkersListed, ClientsKnown, Serving, Leaving, ClientsClosing
<1> QED BY <1>2, <1>4, <1>5 DEF Inductive

(* There is room for what a duplicate or a worker that has answered gives  *)
(* back.                                                                   *)
LEMMA RoomToGiveBack ==
    ASSUME TypeOK, PlacesCounted,
           main = "check" \/ \E w \in Workers : thread[w] \in HoldsSlot
    PROVE  slots + 1 \in 0 .. MaxSlots
<1>1. Cardinality(Holders) \in Nat
  BY FS_CardinalityType DEF PlacesCounted
<1>2. CASE main = "check"
  BY <1>1, <1>2, ServerAssumption DEF PlacesCounted, Taken, TypeOK
<1>3. CASE \E w \in Workers : thread[w] \in HoldsSlot
  <2>1. Holders # {}
    BY <1>3 DEF Holders
  <2>2. Cardinality(Holders) >= 1
    BY <1>1, <2>1, FS_EmptySet DEF PlacesCounted
  <2>3. Taken \in {0, 1}
    BY DEF Taken
  <2> QED BY <1>1, <2>2, <2>3, ServerAssumption DEF PlacesCounted, TypeOK
<1> QED BY <1>2, <1>3

(* Every step keeps the types; the bounds of slots are the point: a place  *)
(* is taken only when there is one and given back only when it was taken   *)
(* (server.py, worker_slots).                                              *)
LEMMA TypesKept ==
    ASSUME TypeOK, AdmissionHeld, PlacesCounted, ClientsKnown, [Next]_vars
    PROVE  TypeOK'
<1> USE DEF TypeOK, Stages, Serving, Leaving, AdmissionHeld, Admitting
<1>1. CASE Read
  BY <1>1 DEF Read, admission, clients, closing, signals
<1>2. CASE EndOfInput
  BY <1>2 DEF EndOfInput, admission, clients, closing, signals
<1>3. CASE Busy
  BY <1>3 DEF Busy, admission, clients, closing, signals
<1>4. CASE TakeSlot
  BY <1>4, ServerAssumption DEF TakeSlot, admission, clients, closing, signals
<1>5. CASE Duplicate
  BY <1>5, RoomToGiveBack DEF Duplicate, admission, clients, closing, signals
<1>6. CASE Enter
  BY <1>6 DEF Enter, admission, clients, closing, signals
<1>7. CASE Make
  BY <1>7 DEF Make, admission, clients, closing, signals
<1>8. CASE Start
  BY <1>8 DEF Start, admission, clients, closing, signals
<1>9. CASE CopyExecutors
  <2>1. copied' \in SUBSET Executors /\ shutting' \subseteq copied'
    BY <1>9, CollectiveTypes DEF CopyExecutors, clients, ClientsKnown
  <2> QED BY <1>9, <2>1 DEF CopyExecutors, admission, clients, signals
<1>10. CASE SetShuttingDown
  BY <1>10 DEF SetShuttingDown, admission, clients, closing, signals
<1>11. CASE CopyClients
  BY <1>11 DEF CopyClients, admission, clients, closing, signals
<1>12. CASE CloseClient
  BY <1>12 DEF CloseClient, admission, clients, closing, signals
<1>13. CASE ClientsClosed
  BY <1>13 DEF ClientsClosed, admission, clients, closing, signals
<1>14. CASE JoinCopy
  BY <1>14 DEF JoinCopy, admission, clients, closing, signals
<1>15. CASE Join
  BY <1>15 DEF Join, admission, clients, closing, signals
<1>16. CASE JoinFails
  BY <1>16 DEF JoinFails, admission, clients, closing, signals
<1>17. CASE Joined
  BY <1>17 DEF Joined, admission, clients, closing, signals
<1>18. CASE Terminate
  BY <1>18 DEF Terminate, admission, clients, closing, signals
<1>19. CASE OutputFailed
  BY <1>19 DEF OutputFailed, admission, clients, closing, signals
<1>20. CASE Deliver
  BY <1>20 DEF Deliver, admission, clients, closing, signals
<1>21. ASSUME NEW w \in Workers, Handle(w)
      PROVE  TypeOK'
  BY <1>21 DEF Handle, Stage, admission, clients, closing, signals
<1>22. ASSUME NEW w \in Workers, ReplaceExecutor(w)
      PROVE  TypeOK'
  BY <1>22 DEF ReplaceExecutor, Stage, admission, clients, closing, signals
<1>23. ASSUME NEW w \in Workers, Connect(w)
      PROVE  TypeOK'
  BY <1>23 DEF Connect, Stage, admission, clients, closing, signals
<1>24. ASSUME NEW w \in Workers, RegisterTest(w)
      PROVE  TypeOK'
  BY <1>24 DEF RegisterTest, Stage, admission, clients, closing, signals
<1>25. ASSUME NEW w \in Workers, Register(w)
      PROVE  TypeOK'
  BY <1>25 DEF Register, Stage, admission, clients, closing, signals
<1>26. ASSUME NEW w \in Workers, Reject(w)
      PROVE  TypeOK'
  BY <1>26 DEF Reject, Stage, admission, clients, closing, signals
<1>27. ASSUME NEW w \in Workers, CallEnds(w)
      PROVE  TypeOK'
  BY <1>27 DEF CallEnds, Discard, Stage, admission, clients, closing, signals
<1>28. ASSUME NEW w \in Workers, PostEnds(w)
      PROVE  TypeOK'
  BY <1>28 DEF PostEnds, Discard, Stage, admission, clients, closing, signals
<1>29. ASSUME NEW w \in Workers, Release(w)
      PROVE  TypeOK'
  <2>1. slots + 1 \in 0 .. MaxSlots
    BY <1>29, RoomToGiveBack DEF Release, Stage, HoldsSlot
  <2> QED BY <1>29, <2>1 DEF Release, Stage, admission, clients, closing, signals
<1>30. ASSUME NEW w \in Workers, End(w)
      PROVE  TypeOK'
  BY <1>30 DEF End, Stage, admission, clients, closing, signals
<1>31. ASSUME NEW w \in Workers, Answer(w)
      PROVE  TypeOK'
  BY <1>31 DEF Answer, Stage, admission, clients, closing, signals
<1>32. ASSUME NEW w \in Workers, Forget(w)
      PROVE  TypeOK'
  BY <1>32 DEF Forget, Stage, admission, clients, closing, signals
<1>33. CASE UNCHANGED vars
  BY <1>33 DEF vars, admission, clients, closing, signals
<1> QED BY <1>1, <1>2, <1>3, <1>4, <1>5, <1>6, <1>7, <1>8, <1>9, <1>10, <1>11,
      <1>12, <1>13, <1>14, <1>15, <1>16, <1>17, <1>18, <1>19, <1>20, <1>21,
      <1>22, <1>23, <1>24, <1>25, <1>26, <1>27, <1>28, <1>29, <1>30, <1>31,
      <1>32, <1>33 DEF Next, Admit, Leave, Work, Respond

(* Between the steps of an admission nothing touches what the main thread  *)
(* holds: workers never end a thread that was not started, nor free the id *)
(* of the request (server.py, _serve_requests).                            *)
LEMMA AdmissionKept ==
    ASSUME TypeOK, AdmissionHeld, IdsInWork, [Next]_vars
    PROVE  AdmissionHeld'
<1> USE DEF TypeOK, AdmissionHeld, Admitting, Serving, IdsInWork, Handling,
        HoldsSlot
<1>1. CASE Read
  BY <1>1 DEF Read, admission, clients, closing, signals
<1>2. CASE EndOfInput
  BY <1>2 DEF EndOfInput, admission, clients, closing, signals
<1>3. CASE Busy
  BY <1>3 DEF Busy, admission, clients, closing, signals
<1>4. CASE TakeSlot
  BY <1>4 DEF TakeSlot, admission, clients, closing, signals
<1>5. CASE Duplicate
  BY <1>5 DEF Duplicate, admission, clients, closing, signals
<1>6. CASE Enter
  BY <1>6 DEF Enter, admission, clients, closing, signals
<1>7. CASE Make
  BY <1>7 DEF Make, admission, clients, closing, signals
<1>8. CASE Start
  BY <1>8 DEF Start, admission, clients, closing, signals
<1>9. CASE CopyExecutors
  BY <1>9 DEF CopyExecutors, admission, clients, closing, signals
<1>10. CASE SetShuttingDown
  BY <1>10 DEF SetShuttingDown, admission, clients, closing, signals
<1>11. CASE CopyClients
  BY <1>11 DEF CopyClients, admission, clients, closing, signals
<1>12. CASE CloseClient
  BY <1>12 DEF CloseClient, admission, clients, closing, signals
<1>13. CASE ClientsClosed
  BY <1>13 DEF ClientsClosed, admission, clients, closing, signals
<1>14. CASE JoinCopy
  BY <1>14 DEF JoinCopy, admission, clients, closing, signals
<1>15. CASE Join
  BY <1>15 DEF Join, admission, clients, closing, signals
<1>16. CASE JoinFails
  BY <1>16 DEF JoinFails, admission, clients, closing, signals
<1>17. CASE Joined
  BY <1>17 DEF Joined, admission, clients, closing, signals
<1>18. CASE Terminate
  BY <1>18 DEF Terminate, admission, clients, closing, signals
<1>19. CASE OutputFailed
  BY <1>19 DEF OutputFailed, admission, clients, closing, signals
<1>20. CASE Deliver
  BY <1>20 DEF Deliver, admission, clients, closing, signals
<1>21. ASSUME NEW w \in Workers, Handle(w)
      PROVE  AdmissionHeld'
  BY <1>21 DEF Handle, Stage, admission, clients, closing, signals
<1>22. ASSUME NEW w \in Workers, ReplaceExecutor(w)
      PROVE  AdmissionHeld'
  BY <1>22 DEF ReplaceExecutor, Stage, admission, clients, closing, signals
<1>23. ASSUME NEW w \in Workers, Connect(w)
      PROVE  AdmissionHeld'
  BY <1>23 DEF Connect, Stage, admission, clients, closing, signals
<1>24. ASSUME NEW w \in Workers, RegisterTest(w)
      PROVE  AdmissionHeld'
  BY <1>24 DEF RegisterTest, Stage, admission, clients, closing, signals
<1>25. ASSUME NEW w \in Workers, Register(w)
      PROVE  AdmissionHeld'
  BY <1>25 DEF Register, Stage, admission, clients, closing, signals
<1>26. ASSUME NEW w \in Workers, Reject(w)
      PROVE  AdmissionHeld'
  BY <1>26 DEF Reject, Stage, admission, clients, closing, signals
<1>27. ASSUME NEW w \in Workers, CallEnds(w)
      PROVE  AdmissionHeld'
  BY <1>27 DEF CallEnds, Discard, Stage, admission, clients, closing, signals
<1>28. ASSUME NEW w \in Workers, PostEnds(w)
      PROVE  AdmissionHeld'
  BY <1>28 DEF PostEnds, Discard, Stage, admission, clients, closing, signals
<1>29. ASSUME NEW w \in Workers, Release(w)
      PROVE  AdmissionHeld'
  BY <1>29 DEF Release, Stage, admission, clients, closing, signals
<1>30. ASSUME NEW w \in Workers, End(w)
      PROVE  AdmissionHeld'
  BY <1>30 DEF End, Stage, admission, clients, closing, signals
<1>31. ASSUME NEW w \in Workers, Answer(w)
      PROVE  AdmissionHeld'
  BY <1>31 DEF Answer, Stage, admission, clients, closing, signals
<1>32. ASSUME NEW w \in Workers, Forget(w)
      PROVE  AdmissionHeld'
  BY <1>32 DEF Forget, Stage, admission, clients, closing, signals
<1>33. CASE UNCHANGED vars
  BY <1>33 DEF vars, admission, clients, closing, signals
<1> QED BY <1>1, <1>2, <1>3, <1>4, <1>5, <1>6, <1>7, <1>8, <1>9, <1>10, <1>11,
      <1>12, <1>13, <1>14, <1>15, <1>16, <1>17, <1>18, <1>19, <1>20, <1>21,
      <1>22, <1>23, <1>24, <1>25, <1>26, <1>27, <1>28, <1>29, <1>30, <1>31,
      <1>32, <1>33 DEF Next, Admit, Leave, Work, Respond

(* A step that changes neither the free places nor which workers hold one, *)
(* and that goes on with the admission or gives it up, keeps the account.  *)
LEMMA AccountUntouched ==
    ASSUME TypeOK, PlacesCounted, Holders' = Holders, slots' = slots,
           Taken' = Taken \/ (main' \notin Serving /\ Taken' = 0),
           main' \in Serving => main \in Serving
    PROVE  PlacesCounted'
<1>1. Cardinality(Holders) \in Nat /\ Taken \in {0, 1}
  BY FS_CardinalityType DEF PlacesCounted, Taken
<1>2. slots \in Nat /\ MaxSlots \in Nat
  BY ServerAssumption DEF TypeOK
<1> QED BY <1>1, <1>2 DEF PlacesCounted

(* No path of admission and no worker loses a place or gives back one too  *)
(* many (server.py, _serve_requests and _run_worker).                      *)
LEMMA PlacesKept ==
    ASSUME TypeOK, AdmissionHeld, PlacesCounted, [Next]_vars
    PROVE  PlacesCounted'
<1> USE DEF Admitting, Serving, Taken
<1>1. Cardinality(Holders) \in Nat /\ slots \in Nat /\ MaxSlots \in Nat
  BY FS_CardinalityType, ServerAssumption DEF PlacesCounted, TypeOK
<1>2. ASSUME \/ Read \/ EndOfInput \/ Busy \/ Enter \/ Leave
             \/ Terminate \/ OutputFailed \/ Deliver \/ UNCHANGED vars
      PROVE  PlacesCounted'
  <2>1. Holders' = Holders /\ slots' = slots
    BY <1>2 DEF Read, EndOfInput, Busy, Enter, Leave, CopyExecutors,
         SetShuttingDown, CopyClients, CloseClient, ClientsClosed, JoinCopy, Join,
         JoinFails, Joined, Terminate, OutputFailed, Deliver, Holders, vars, admission
  <2>2. /\ Taken' = Taken \/ (main' \notin Serving /\ Taken' = 0)
        /\ main' \in Serving => main \in Serving
    BY <1>2 DEF Read, EndOfInput, Busy, Enter, Leave, CopyExecutors,
         SetShuttingDown, CopyClients, CloseClient, ClientsClosed, JoinCopy, Join,
         JoinFails, Joined, Terminate, OutputFailed, Deliver, vars
  <2> QED BY <2>1, <2>2, AccountUntouched
<1>3. ASSUME TakeSlot \/ Duplicate
      PROVE  PlacesCounted'
  <2>1. Holders' = Holders
    BY <1>3 DEF TakeSlot, Duplicate, Holders
  <2> QED BY <1>1, <1>3, <2>1 DEF TakeSlot, Duplicate, PlacesCounted
<1>4. ASSUME Make
      PROVE  PlacesCounted'
  <2>1. Holders' = Holders
    BY <1>4 DEF Make, Holders, HoldsSlot, TypeOK
  <2> QED BY <1>4, <2>1, AccountUntouched DEF Make
<1>5. ASSUME Start
      PROVE  PlacesCounted'
  <2>1. Holders' = Holders \cup {worker} /\ worker \notin Holders
    BY <1>5 DEF Start, Holders, HoldsSlot, TypeOK, AdmissionHeld
  <2>2. IsFiniteSet(Holders') /\ Cardinality(Holders') = Cardinality(Holders) + 1
    BY <2>1, FS_AddElement DEF PlacesCounted
  <2> QED BY <1>1, <1>5, <2>2 DEF Start, PlacesCounted
<1>6. ASSUME NEW w \in Workers,
             \/ Handle(w) \/ ReplaceExecutor(w) \/ Connect(w)
             \/ RegisterTest(w) \/ Register(w) \/ Reject(w)
             \/ CallEnds(w) \/ PostEnds(w) \/ End(w) \/ Respond(w)
      PROVE  PlacesCounted'
  <2>1. Holders' = Holders
    BY <1>6 DEF Handle, ReplaceExecutor, Connect, RegisterTest, Register, Reject,
         CallEnds, PostEnds, Discard, End, Respond, Answer, Forget, Stage, Holders,
         HoldsSlot, TypeOK
  <2>2. main' = main /\ slots' = slots
    BY <1>6 DEF Handle, ReplaceExecutor, Connect, RegisterTest, Register, Reject,
         CallEnds, PostEnds, Discard, End, Respond, Answer, Forget, admission
  <2> QED BY <2>1, <2>2, AccountUntouched
<1>7. ASSUME NEW w \in Workers, Release(w)
      PROVE  PlacesCounted'
  <2>1. Holders' = Holders \ {w} /\ w \in Holders
    BY <1>7 DEF Release, Stage, Holders, HoldsSlot, TypeOK
  <2>2. IsFiniteSet(Holders') /\ Cardinality(Holders') = Cardinality(Holders) - 1
    BY <2>1, FS_RemoveElement DEF PlacesCounted
  <2> QED BY <1>1, <1>7, <2>2 DEF Release, PlacesCounted
<1> QED BY <1>2, <1>3, <1>4, <1>5, <1>6, <1>7 DEF Next, Admit, Work

(* A request enters only when its id is not in work, and the id is free    *)
(* again only when its one worker has answered (server.py, inflight).      *)
LEMMA IdsKept ==
    ASSUME TypeOK, AdmissionHeld, IdsInWork, [Next]_vars
    PROVE  IdsInWork'
<1> USE DEF TypeOK, AdmissionHeld, Admitting, IdsInWork, OneWorkerPerRequest,
        Handling, HoldsSlot
<1>1. CASE Read
  BY <1>1 DEF Read, admission, clients, closing, signals
<1>2. CASE EndOfInput
  BY <1>2 DEF EndOfInput, admission, clients, closing, signals
<1>3. CASE Busy
  BY <1>3 DEF Busy, admission, clients, closing, signals
<1>4. CASE TakeSlot
  BY <1>4 DEF TakeSlot, admission, clients, closing, signals
<1>5. CASE Duplicate
  BY <1>5 DEF Duplicate, admission, clients, closing, signals
<1>6. CASE Enter
  BY <1>6 DEF Enter, admission, clients, closing, signals
<1>7. CASE Make
  BY <1>7 DEF Make, admission, clients, closing, signals
<1>8. CASE Start
  BY <1>8 DEF Start, admission, clients, closing, signals
<1>9. CASE CopyExecutors
  BY <1>9 DEF CopyExecutors, admission, clients, closing, signals
<1>10. CASE SetShuttingDown
  BY <1>10 DEF SetShuttingDown, admission, clients, closing, signals
<1>11. CASE CopyClients
  BY <1>11 DEF CopyClients, admission, clients, closing, signals
<1>12. CASE CloseClient
  BY <1>12 DEF CloseClient, admission, clients, closing, signals
<1>13. CASE ClientsClosed
  BY <1>13 DEF ClientsClosed, admission, clients, closing, signals
<1>14. CASE JoinCopy
  BY <1>14 DEF JoinCopy, admission, clients, closing, signals
<1>15. CASE Join
  BY <1>15 DEF Join, admission, clients, closing, signals
<1>16. CASE JoinFails
  BY <1>16 DEF JoinFails, admission, clients, closing, signals
<1>17. CASE Joined
  BY <1>17 DEF Joined, admission, clients, closing, signals
<1>18. CASE Terminate
  BY <1>18 DEF Terminate, admission, clients, closing, signals
<1>19. CASE OutputFailed
  BY <1>19 DEF OutputFailed, admission, clients, closing, signals
<1>20. CASE Deliver
  BY <1>20 DEF Deliver, admission, clients, closing, signals
<1>21. ASSUME NEW w \in Workers, Handle(w)
      PROVE  IdsInWork'
  BY <1>21 DEF Handle, Stage, admission, clients, closing, signals
<1>22. ASSUME NEW w \in Workers, ReplaceExecutor(w)
      PROVE  IdsInWork'
  BY <1>22 DEF ReplaceExecutor, Stage, admission, clients, closing, signals
<1>23. ASSUME NEW w \in Workers, Connect(w)
      PROVE  IdsInWork'
  BY <1>23 DEF Connect, Stage, admission, clients, closing, signals
<1>24. ASSUME NEW w \in Workers, RegisterTest(w)
      PROVE  IdsInWork'
  BY <1>24 DEF RegisterTest, Stage, admission, clients, closing, signals
<1>25. ASSUME NEW w \in Workers, Register(w)
      PROVE  IdsInWork'
  BY <1>25 DEF Register, Stage, admission, clients, closing, signals
<1>26. ASSUME NEW w \in Workers, Reject(w)
      PROVE  IdsInWork'
  BY <1>26 DEF Reject, Stage, admission, clients, closing, signals
<1>27. ASSUME NEW w \in Workers, CallEnds(w)
      PROVE  IdsInWork'
  BY <1>27 DEF CallEnds, Discard, Stage, admission, clients, closing, signals
<1>28. ASSUME NEW w \in Workers, PostEnds(w)
      PROVE  IdsInWork'
  BY <1>28 DEF PostEnds, Discard, Stage, admission, clients, closing, signals
<1>29. ASSUME NEW w \in Workers, Release(w)
      PROVE  IdsInWork'
  BY <1>29 DEF Release, Stage, admission, clients, closing, signals
<1>30. ASSUME NEW w \in Workers, End(w)
      PROVE  IdsInWork'
  BY <1>30 DEF End, Stage, admission, clients, closing, signals
<1>31. ASSUME NEW w \in Workers, Answer(w)
      PROVE  IdsInWork'
  BY <1>31 DEF Answer, Stage, admission, clients, closing, signals
<1>32. ASSUME NEW w \in Workers, Forget(w)
      PROVE  IdsInWork'
  BY <1>32 DEF Forget, Stage, admission, clients, closing, signals
<1>33. CASE UNCHANGED vars
  BY <1>33 DEF vars, admission, clients, closing, signals
<1> QED BY <1>1, <1>2, <1>3, <1>4, <1>5, <1>6, <1>7, <1>8, <1>9, <1>10, <1>11,
      <1>12, <1>13, <1>14, <1>15, <1>16, <1>17, <1>18, <1>19, <1>20, <1>21,
      <1>22, <1>23, <1>24, <1>25, <1>26, <1>27, <1>28, <1>29, <1>30, <1>31,
      <1>32, <1>33 DEF Next, Admit, Leave, Work, Respond

(* A thread is listed before it is started and until it has ended; the     *)
(* main thread leaves without an error only when none is listed            *)
(* (server.py, _join_workers).                                             *)
LEMMA WorkersKept ==
    ASSUME TypeOK, AdmissionHeld, WorkersListed, [Next]_vars
    PROVE  WorkersListed'
<1> USE DEF TypeOK, AdmissionHeld, Admitting, WorkersListed
<1>1. CASE Read
  BY <1>1 DEF Read, admission, clients, closing, signals
<1>2. CASE EndOfInput
  BY <1>2 DEF EndOfInput, admission, clients, closing, signals
<1>3. CASE Busy
  BY <1>3 DEF Busy, admission, clients, closing, signals
<1>4. CASE TakeSlot
  BY <1>4 DEF TakeSlot, admission, clients, closing, signals
<1>5. CASE Duplicate
  BY <1>5 DEF Duplicate, admission, clients, closing, signals
<1>6. CASE Enter
  BY <1>6 DEF Enter, admission, clients, closing, signals
<1>7. CASE Make
  BY <1>7 DEF Make, admission, clients, closing, signals
<1>8. CASE Start
  BY <1>8 DEF Start, admission, clients, closing, signals
<1>9. CASE CopyExecutors
  BY <1>9 DEF CopyExecutors, admission, clients, closing, signals
<1>10. CASE SetShuttingDown
  BY <1>10 DEF SetShuttingDown, admission, clients, closing, signals
<1>11. CASE CopyClients
  BY <1>11 DEF CopyClients, admission, clients, closing, signals
<1>12. CASE CloseClient
  BY <1>12 DEF CloseClient, admission, clients, closing, signals
<1>13. CASE ClientsClosed
  BY <1>13 DEF ClientsClosed, admission, clients, closing, signals
<1>14. CASE JoinCopy
  BY <1>14 DEF JoinCopy, admission, clients, closing, signals
<1>15. CASE Join
  BY <1>15 DEF Join, admission, clients, closing, signals
<1>16. CASE JoinFails
  BY <1>16 DEF JoinFails, admission, clients, closing, signals
<1>17. CASE Joined
  BY <1>17 DEF Joined, admission, clients, closing, signals
<1>18. CASE Terminate
  BY <1>18 DEF Terminate, admission, clients, closing, signals
<1>19. CASE OutputFailed
  BY <1>19 DEF OutputFailed, admission, clients, closing, signals
<1>20. CASE Deliver
  BY <1>20 DEF Deliver, admission, clients, closing, signals
<1>21. ASSUME NEW w \in Workers, Handle(w)
      PROVE  WorkersListed'
  BY <1>21 DEF Handle, Stage, admission, clients, closing, signals
<1>22. ASSUME NEW w \in Workers, ReplaceExecutor(w)
      PROVE  WorkersListed'
  BY <1>22 DEF ReplaceExecutor, Stage, admission, clients, closing, signals
<1>23. ASSUME NEW w \in Workers, Connect(w)
      PROVE  WorkersListed'
  BY <1>23 DEF Connect, Stage, admission, clients, closing, signals
<1>24. ASSUME NEW w \in Workers, RegisterTest(w)
      PROVE  WorkersListed'
  BY <1>24 DEF RegisterTest, Stage, admission, clients, closing, signals
<1>25. ASSUME NEW w \in Workers, Register(w)
      PROVE  WorkersListed'
  BY <1>25 DEF Register, Stage, admission, clients, closing, signals
<1>26. ASSUME NEW w \in Workers, Reject(w)
      PROVE  WorkersListed'
  BY <1>26 DEF Reject, Stage, admission, clients, closing, signals
<1>27. ASSUME NEW w \in Workers, CallEnds(w)
      PROVE  WorkersListed'
  BY <1>27 DEF CallEnds, Discard, Stage, admission, clients, closing, signals
<1>28. ASSUME NEW w \in Workers, PostEnds(w)
      PROVE  WorkersListed'
  BY <1>28 DEF PostEnds, Discard, Stage, admission, clients, closing, signals
<1>29. ASSUME NEW w \in Workers, Release(w)
      PROVE  WorkersListed'
  BY <1>29 DEF Release, Stage, admission, clients, closing, signals
<1>30. ASSUME NEW w \in Workers, End(w)
      PROVE  WorkersListed'
  BY <1>30 DEF End, Stage, admission, clients, closing, signals
<1>31. ASSUME NEW w \in Workers, Answer(w)
      PROVE  WorkersListed'
  BY <1>31 DEF Answer, Stage, admission, clients, closing, signals
<1>32. ASSUME NEW w \in Workers, Forget(w)
      PROVE  WorkersListed'
  BY <1>32 DEF Forget, Stage, admission, clients, closing, signals
<1>33. CASE UNCHANGED vars
  BY <1>33 DEF vars, admission, clients, closing, signals
<1> QED BY <1>1, <1>2, <1>3, <1>4, <1>5, <1>6, <1>7, <1>8, <1>9, <1>10, <1>11,
      <1>12, <1>13, <1>14, <1>15, <1>16, <1>17, <1>18, <1>19, <1>20, <1>21,
      <1>22, <1>23, <1>24, <1>25, <1>26, <1>27, <1>28, <1>29, <1>30, <1>31,
      <1>32, <1>33 DEF Next, Admit, Leave, Work, Respond

(* The copy the shutdown takes covers every executor there is, whatever    *)
(* the workers do meanwhile (runtime.py and executor.py,                   *)
(* close_active_clients; executor.py, _register_client).                   *)
LEMMA ClientsKept ==
    ASSUME TypeOK, AdmissionHeld, ClientsKnown, [Next]_vars
    PROVE  ClientsKnown'
<1> USE DEF TypeOK, AdmissionHeld, Admitting, ClientsKnown, Serving, Leaving
<1>1. CASE Read
  BY <1>1 DEF Read, admission, clients, closing, signals
<1>2. CASE EndOfInput
  BY <1>2 DEF EndOfInput, admission, clients, closing, signals
<1>3. CASE Busy
  BY <1>3 DEF Busy, admission, clients, closing, signals
<1>4. CASE TakeSlot
  BY <1>4 DEF TakeSlot, admission, clients, closing, signals
<1>5. CASE Duplicate
  BY <1>5 DEF Duplicate, admission, clients, closing, signals
<1>6. CASE Enter
  BY <1>6 DEF Enter, admission, clients, closing, signals
<1>7. CASE Make
  BY <1>7 DEF Make, admission, clients, closing, signals
<1>8. CASE Start
  BY <1>8 DEF Start, admission, clients, closing, signals
<1>9. CASE CopyExecutors
  BY <1>9 DEF CopyExecutors, admission, clients, closing, signals
<1>10. CASE SetShuttingDown
  BY <1>10 DEF SetShuttingDown, admission, clients, closing, signals
<1>11. CASE CopyClients
  BY <1>11 DEF CopyClients, admission, clients, closing, signals
<1>12. CASE CloseClient
  BY <1>12 DEF CloseClient, admission, clients, closing, signals
<1>13. CASE ClientsClosed
  BY <1>13 DEF ClientsClosed, admission, clients, closing, signals
<1>14. CASE JoinCopy
  BY <1>14 DEF JoinCopy, admission, clients, closing, signals
<1>15. CASE Join
  BY <1>15 DEF Join, admission, clients, closing, signals
<1>16. CASE JoinFails
  BY <1>16 DEF JoinFails, admission, clients, closing, signals
<1>17. CASE Joined
  BY <1>17 DEF Joined, admission, clients, closing, signals
<1>18. CASE Terminate
  BY <1>18 DEF Terminate, admission, clients, closing, signals
<1>19. CASE OutputFailed
  BY <1>19 DEF OutputFailed, admission, clients, closing, signals
<1>20. CASE Deliver
  BY <1>20 DEF Deliver, admission, clients, closing, signals
<1>21. ASSUME NEW w \in Workers, Handle(w)
      PROVE  ClientsKnown'
  BY <1>21 DEF Handle, Stage, admission, clients, closing, signals
<1>22. ASSUME NEW w \in Workers, ReplaceExecutor(w)
      PROVE  ClientsKnown'
  BY <1>22 DEF ReplaceExecutor, Stage, admission, clients, closing, signals
<1>23. ASSUME NEW w \in Workers, Connect(w)
      PROVE  ClientsKnown'
  BY <1>23 DEF Connect, Stage, admission, clients, closing, signals
<1>24. ASSUME NEW w \in Workers, RegisterTest(w)
      PROVE  ClientsKnown'
  BY <1>24 DEF RegisterTest, Stage, admission, clients, closing, signals
<1>25. ASSUME NEW w \in Workers, Register(w)
      PROVE  ClientsKnown'
  BY <1>25 DEF Register, Stage, admission, clients, closing, signals
<1>26. ASSUME NEW w \in Workers, Reject(w)
      PROVE  ClientsKnown'
  BY <1>26 DEF Reject, Stage, admission, clients, closing, signals
<1>27. ASSUME NEW w \in Workers, CallEnds(w)
      PROVE  ClientsKnown'
  BY <1>27 DEF CallEnds, Discard, Stage, admission, clients, closing, signals
<1>28. ASSUME NEW w \in Workers, PostEnds(w)
      PROVE  ClientsKnown'
  BY <1>28 DEF PostEnds, Discard, Stage, admission, clients, closing, signals
<1>29. ASSUME NEW w \in Workers, Release(w)
      PROVE  ClientsKnown'
  BY <1>29 DEF Release, Stage, admission, clients, closing, signals
<1>30. ASSUME NEW w \in Workers, End(w)
      PROVE  ClientsKnown'
  BY <1>30 DEF End, Stage, admission, clients, closing, signals
<1>31. ASSUME NEW w \in Workers, Answer(w)
      PROVE  ClientsKnown'
  BY <1>31 DEF Answer, Stage, admission, clients, closing, signals
<1>32. ASSUME NEW w \in Workers, Forget(w)
      PROVE  ClientsKnown'
  BY <1>32 DEF Forget, Stage, admission, clients, closing, signals
<1>33. CASE UNCHANGED vars
  BY <1>33 DEF vars, admission, clients, closing, signals
<1> QED BY <1>1, <1>2, <1>3, <1>4, <1>5, <1>6, <1>7, <1>8, <1>9, <1>10, <1>11,
      <1>12, <1>13, <1>14, <1>15, <1>16, <1>17, <1>18, <1>19, <1>20, <1>21,
      <1>22, <1>23, <1>24, <1>25, <1>26, <1>27, <1>28, <1>29, <1>30, <1>31,
      <1>32, <1>33 DEF Next, Admit, Leave, Work, Respond

(* A client registered before the copy of its executor is in the copy, and *)
(* every client of the copy is closed before the next executor's turn      *)
(* (executor.py, close_active_clients and _register_client).               *)
LEMMA ClosingKept ==
    ASSUME TypeOK, AdmissionHeld, ClientsKnown, ClientsClosing, [Next]_vars
    PROVE  ClientsClosing'
<1> USE DEF TypeOK, AdmissionHeld, Admitting, ClientsKnown, ClientsClosing, Serving,
        Leaving, Stages
<1>1. CASE Read
  BY <1>1 DEF Read, admission, clients, closing, signals
<1>2. CASE EndOfInput
  BY <1>2 DEF EndOfInput, admission, clients, closing, signals
<1>3. CASE Busy
  BY <1>3 DEF Busy, admission, clients, closing, signals
<1>4. CASE TakeSlot
  BY <1>4 DEF TakeSlot, admission, clients, closing, signals
<1>5. CASE Duplicate
  BY <1>5 DEF Duplicate, admission, clients, closing, signals
<1>6. CASE Enter
  BY <1>6 DEF Enter, admission, clients, closing, signals
<1>7. CASE Make
  BY <1>7 DEF Make, admission, clients, closing, signals
<1>8. CASE Start
  BY <1>8 DEF Start, admission, clients, closing, signals
<1>9. CASE CopyExecutors
  BY <1>9 DEF CopyExecutors, admission, clients, closing, signals
<1>10. CASE SetShuttingDown
  BY <1>10 DEF SetShuttingDown, admission, clients, closing, signals
<1>11. CASE CopyClients
  <2>1. /\ main = "copy" /\ main' = "close_clients"
        /\ toClose' = {w \in active : used[w] = target}
        /\ UNCHANGED <<thread, used, shutting, target, active, closed>>
    BY <1>11 DEF CopyClients
  <2>2. \A w \in Workers : thread[w] = "registering" => used[w] # target
    BY <1>11 DEF CopyClients, Unlocked
  <2>3. \A w \in Workers : thread'[w] = "registering" => used'[w] \notin shutting'
    BY <2>1, <2>2
  <2> QED BY <2>1, <2>3
<1>12. CASE CloseClient
  BY <1>12 DEF CloseClient, admission, clients, closing, signals
<1>13. CASE ClientsClosed
  BY <1>13 DEF ClientsClosed, admission, clients, closing, signals
<1>14. CASE JoinCopy
  BY <1>14 DEF JoinCopy, admission, clients, closing, signals
<1>15. CASE Join
  BY <1>15 DEF Join, admission, clients, closing, signals
<1>16. CASE JoinFails
  BY <1>16 DEF JoinFails, admission, clients, closing, signals
<1>17. CASE Joined
  BY <1>17 DEF Joined, admission, clients, closing, signals
<1>18. CASE Terminate
  BY <1>18 DEF Terminate, admission, clients, closing, signals
<1>19. CASE OutputFailed
  BY <1>19 DEF OutputFailed, admission, clients, closing, signals
<1>20. CASE Deliver
  BY <1>20 DEF Deliver, admission, clients, closing, signals
<1>21. ASSUME NEW w \in Workers, Handle(w)
      PROVE  ClientsClosing'
  BY <1>21 DEF Handle, Stage, admission, clients, closing, signals
<1>22. ASSUME NEW w \in Workers, ReplaceExecutor(w)
      PROVE  ClientsClosing'
  BY <1>22 DEF ReplaceExecutor, Stage, admission, clients, closing, signals
<1>23. ASSUME NEW w \in Workers, Connect(w)
      PROVE  ClientsClosing'
  BY <1>23 DEF Connect, Stage, admission, clients, closing, signals
<1>24. ASSUME NEW w \in Workers, RegisterTest(w)
      PROVE  ClientsClosing'
  BY <1>24 DEF RegisterTest, Stage, admission, clients, closing, signals
<1>25. ASSUME NEW w \in Workers, Register(w)
      PROVE  ClientsClosing'
  <2>1. PICK transport \in {"calling", "posting"} : Stage(w, "registering", transport)
    BY <1>25 DEF Register
  <2>2. /\ thread[w] = "registering" /\ active' = active \cup {w}
        /\ \A v \in Workers : thread'[v] = "registering" => thread[v] = "registering"
        /\ UNCHANGED <<main, used, shutting, target, toClose, closed>>
    BY <1>25, <2>1 DEF Register, Stage, closing
  <2>3. /\ used[w] \in shutting => main \in {"copy", "exited"} /\ used[w] = target
        /\ main = "close_clients" => used[w] # target
    BY <2>2
  <2> QED BY <2>2, <2>3
<1>26. ASSUME NEW w \in Workers, Reject(w)
      PROVE  ClientsClosing'
  BY <1>26 DEF Reject, Stage, admission, clients, closing, signals
<1>27. ASSUME NEW w \in Workers, CallEnds(w)
      PROVE  ClientsClosing'
  BY <1>27 DEF CallEnds, Discard, Stage, admission, clients, closing, signals
<1>28. ASSUME NEW w \in Workers, PostEnds(w)
      PROVE  ClientsClosing'
  BY <1>28 DEF PostEnds, Discard, Stage, admission, clients, closing, signals
<1>29. ASSUME NEW w \in Workers, Release(w)
      PROVE  ClientsClosing'
  BY <1>29 DEF Release, Stage, admission, clients, closing, signals
<1>30. ASSUME NEW w \in Workers, End(w)
      PROVE  ClientsClosing'
  BY <1>30 DEF End, Stage, admission, clients, closing, signals
<1>31. ASSUME NEW w \in Workers, Answer(w)
      PROVE  ClientsClosing'
  BY <1>31 DEF Answer, Stage, admission, clients, closing, signals
<1>32. ASSUME NEW w \in Workers, Forget(w)
      PROVE  ClientsClosing'
  BY <1>32 DEF Forget, Stage, admission, clients, closing, signals
<1>33. CASE UNCHANGED vars
  BY <1>33 DEF vars, admission, clients, closing, signals
<1> QED BY <1>1, <1>2, <1>3, <1>4, <1>5, <1>6, <1>7, <1>8, <1>9, <1>10, <1>11,
      <1>12, <1>13, <1>14, <1>15, <1>16, <1>17, <1>18, <1>19, <1>20, <1>21,
      <1>22, <1>23, <1>24, <1>25, <1>26, <1>27, <1>28, <1>29, <1>30, <1>31,
      <1>32, <1>33 DEF Next, Admit, Leave, Work, Respond

(* The invariant is inductive.                                             *)
LEMMA StepInductive == Inductive /\ [Next]_vars => Inductive'
  BY TypesKept, AdmissionKept, PlacesKept, IdsKept, WorkersKept, ClientsKept,
     ClosingKept
     DEF Inductive

LEMMA AlwaysInductive == Spec => []Inductive
  BY InitInductive, StepInductive, PTL DEF Spec

(* Every variable of the server keeps its type; in particular the free     *)
(* places stay between none and MAX_INFLIGHT_REQUESTS (server.py,          *)
(* worker_slots).                                                          *)
THEOREM ServerTypes == Spec => []TypeOK
<1>1. Inductive => TypeOK
  BY DEF Inductive
<1> QED BY <1>1, AlwaysInductive, PTL

(* Between requests every place is free or held by one worker that runs    *)
(* (server.py, _serve_requests and _run_worker).                           *)
THEOREM NoPlaceLost == Spec => []SlotsAccounted
<1>1. Inductive => SlotsAccounted
  <2> SUFFICES ASSUME Inductive, main \in {"read", "admit"}
               PROVE  slots + Cardinality(Holders) = MaxSlots
    BY DEF SlotsAccounted, Holders
  <2>1. Taken = 0 /\ main \in Serving
    BY DEF Taken, Serving
  <2>2. Cardinality(Holders) \in Nat /\ slots \in Nat
    BY FS_CardinalityType, ServerAssumption DEF Inductive, PlacesCounted, TypeOK
  <2> QED BY <2>1, <2>2 DEF Inductive, PlacesCounted
<1> QED BY <1>1, AlwaysInductive, PTL

(* No two workers handle requests with the same id (server.py, inflight).  *)
THEOREM IdsAreUnique == Spec => []OneWorkerPerRequest
<1>1. Inductive => OneWorkerPerRequest
  BY DEF Inductive, IdsInWork
<1> QED BY <1>1, AlwaysInductive, PTL

(* When serve has returned no worker runs and no downstream client is open *)
(* (server.py, serve and _join_workers).                                   *)
THEOREM ExitIsClean == Spec => []NothingLeftBehind
<1>1. Inductive => NothingLeftBehind
  BY DEF Inductive, TypeOK, WorkersListed, ClientsKnown, NothingLeftBehind
<1> QED BY <1>1, AlwaysInductive, PTL

(* A client whose executor shuts down has been closed, and while the       *)
(* shutdown waits for the workers only clients of executors made after its *)
(* copy are open and not closed (runtime.py and executor.py,               *)
(* close_active_clients; executor.py, _register_client).                   *)
THEOREM ShutdownIsThorough == Spec => []ShutdownClosesClients
<1>1. Inductive => ShutdownClosesClients
  <2> SUFFICES ASSUME Inductive
               PROVE  ShutdownClosesClients
    OBVIOUS
  <2>1. \A w \in active : used[w] \in shutting \ {target} => w \in closed
    BY DEF Inductive, ClientsClosing
  <2>2. ASSUME main = "join", NEW w \in active, used[w] \notin late
        PROVE  w \in closed
    <3>1. used[w] \in {current} \cup retired
      BY DEF Inductive, TypeOK, ClientsKnown
    <3>2. used[w] \in shutting
      BY <2>2, <3>1 DEF Inductive, ClientsKnown, Leaving
    <3> QED BY <2>2, <3>2 DEF Inductive, ClientsClosing
  <2> QED BY <2>1, <2>2 DEF ShutdownClosesClients
<1> QED BY <1>1, AlwaysInductive, PTL
=============================================================================
