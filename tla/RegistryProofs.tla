--------------------------- MODULE RegistryProofs ---------------------------
(* Proofs about Registry, for any number of processes.  The invariant says *)
(* that the process between load and release holds the lock and works on   *)
(* the file itself; every safety property and the refinement follow.       *)
EXTENDS Registry, RegistryLemmas

(* The locals each phase uses are there.                                   *)
LocalsPresent ==
    \A p \in Processes :
        /\ pc[p] \in {"waiting", "locked", "written"} => request[p] \in Requests
        /\ pc[p] \in {"locked", "written", "selecting"} => copy[p] \in RegistryFile
        /\ pc[p] = "selecting" => target[p] \in SelectTarget

(* What a process at "written" is about to report is in the history.       *)
WrittenIsRecorded ==
    \A p \in Processes : pc[p] = "written" => registry.revision > 0

Inductive ==
    /\ TypeOK
    /\ LocalsPresent
    /\ ChainedFile(registry)
    /\ LockProtects
    /\ WrittenIsRecorded
    /\ AcknowledgedSurvive

LEMMA InitInductive == Init => Inductive
<1> SUFFICES ASSUME Init PROVE Inductive
  OBVIOUS
<1>1. /\ registry.revision = 0
      /\ registry.contexts = [c \in Contexts |-> Absent]
      /\ registry.history = << >>
      /\ registry = [revision |-> 0, contexts |-> [c \in Contexts |-> Absent],
                     history |-> << >>]
  BY DEF Init, EmptyRegistry
<1>2. << >> \in Seq(Change) /\ Len(<< >>) = 0
  BY EmptySeq
<1>3. MaxHistory \in Nat \ {0}
  BY DataAssumption
<1>4. registry \in RegistryFile
  BY <1>1, <1>2, <1>3 DEF RegistryFile, ContextMap, ValidHistory
<1>5. ChainedFile(registry)
  BY <1>1, <1>2, <1>3 DEF ChainedFile, Linked, Numbered, EndsAtContexts, Complete
<1>6. TypeOK
  BY <1>4 DEF Init, TypeOK
<1>7. LocalsPresent /\ LockProtects /\ WrittenIsRecorded /\ AcknowledgedSurvive
  BY DEF Init, LocalsPresent, LockProtects, WrittenIsRecorded, AcknowledgedSurvive
<1> QED BY <1>5, <1>6, <1>7 DEF Inductive

(* The steps that leave the registry file alone keep its type and the      *)
(* locals of every process in order.                                       *)
LEMMA QuietTypes ==
    ASSUME TypeOK, LocalsPresent, NEW p \in Processes,
           \/ Begin(p) \/ Acquire(p) \/ Abort(p) \/ Reply(p)
           \/ SelectRead(p) \/ SelectWrite(p) \/ Crash(p),
           acknowledged' \subseteq Change
    PROVE  TypeOK' /\ LocalsPresent'
<1> USE DEF TypeOK, LocalsPresent
<1>1. CASE Begin(p)
  BY <1>1 DEF Begin
<1>2. CASE Acquire(p)
  BY <1>2 DEF Acquire
<1>3. CASE Abort(p)
  BY <1>3 DEF Abort, Forget, Release
<1>4. CASE Reply(p)
  BY <1>4 DEF Reply, Forget, Release
<1>5. CASE SelectRead(p)
  <2>1. PICK c \in Contexts, s \in Sessions :
           target' = [target EXCEPT ![p] = [context |-> c, session |-> s]]
    BY <1>5 DEF SelectRead
  <2>2. [context |-> c, session |-> s] \in SelectTarget
    BY DEF SelectTarget
  <2> QED BY <1>5, <2>1, <2>2 DEF SelectRead
<1>6. CASE SelectWrite(p)
  <2> DEFINE chosen == [context |-> target[p].context,
                        registry_revision |-> copy[p].revision]
  <2>1. chosen \in Selection /\ target[p].session \in Sessions
    BY <1>6 DEF SelectWrite, SelectTarget, Selection, RegistryFile
  <2>2. sessions' = [sessions EXCEPT ![target[p].session] = chosen]
    BY <1>6 DEF SelectWrite
  <2> HIDE DEF chosen
  <2>3. sessions' \in [Sessions -> Selection \cup {Nothing}]
    BY <2>1, <2>2
  <2> QED BY <1>6, <2>3 DEF SelectWrite, Forget
<1>7. CASE Crash(p)
  BY <1>7 DEF Crash, Forget, Release
<1> QED BY <1>1, <1>2, <1>3, <1>4, <1>5, <1>6, <1>7

(* None of them lets two processes between load and release.               *)
LEMMA QuietLocks ==
    ASSUME TypeOK, LockProtects, WrittenIsRecorded, NEW p \in Processes,
           \/ Begin(p) \/ Acquire(p) \/ Abort(p) \/ Reply(p)
           \/ SelectRead(p) \/ SelectWrite(p) \/ Crash(p)
    PROVE  LockProtects' /\ WrittenIsRecorded'
<1> USE ProcessAssumption DEF TypeOK, LockProtects, WrittenIsRecorded
<1>1. CASE Begin(p)
  BY <1>1 DEF Begin
<1>2. CASE Acquire(p)
  BY <1>2 DEF Acquire
<1>3. CASE Abort(p)
  BY <1>3 DEF Abort, Forget, Release
<1>4. CASE Reply(p)
  BY <1>4 DEF Reply, Forget, Release
<1>5. CASE SelectRead(p)
  BY <1>5 DEF SelectRead
<1>6. CASE SelectWrite(p)
  BY <1>6 DEF SelectWrite, Forget
<1>7. CASE Crash(p)
  BY <1>7 DEF Crash, Forget, Release
<1> QED BY <1>1, <1>2, <1>3, <1>4, <1>5, <1>6, <1>7

LEMMA QuietSteps ==
    ASSUME Inductive, NEW p \in Processes,
           \/ Begin(p) \/ Acquire(p) \/ Abort(p)
           \/ SelectRead(p) \/ SelectWrite(p) \/ Crash(p)
    PROVE  Inductive'
<1>1. registry' = registry /\ acknowledged' = acknowledged
  BY DEF Begin, Acquire, Abort, SelectRead, SelectWrite, Crash
<1>2. acknowledged' \subseteq Change
  BY <1>1 DEF Inductive, TypeOK
<1>3. TypeOK' /\ LocalsPresent'
  BY <1>2, QuietTypes DEF Inductive
<1>4. LockProtects' /\ WrittenIsRecorded'
  BY QuietLocks DEF Inductive
<1> QED BY <1>1, <1>3, <1>4 DEF Inductive, AcknowledgedSurvive

LEMMA CommitStep ==
    ASSUME Inductive, NEW p \in Processes, Commit(p)
    PROVE  Inductive'
<1> USE ProcessAssumption
<1>1. /\ registry \in RegistryFile /\ ChainedFile(registry)
      /\ copy[p] = registry /\ lock = p
      /\ request[p] \in Requests /\ request[p] \in Request
      /\ Permitted(registry, request[p])
      /\ registry' = Extended(registry, request[p])
  BY ProcessAssumption DEF Inductive, LocalsPresent, TypeOK, LockProtects, Commit
<1>2. registry' \in RegistryFile /\ ChainedFile(registry')
  BY <1>1, ExtendedChained
<1>3. TypeOK' /\ LocalsPresent'
  BY <1>1, <1>2 DEF Inductive, TypeOK, LocalsPresent, Commit
<1>4. registry'.revision = registry.revision + 1 /\ registry.revision \in Nat
  BY <1>1 DEF Extended, RegistryFile
<1>5. LockProtects'
  BY <1>1 DEF Inductive, TypeOK, LockProtects, Commit
<1>6. WrittenIsRecorded'
  BY <1>4 DEF WrittenIsRecorded
<1>7. AcknowledgedSurvive'
  <2> SUFFICES ASSUME NEW change \in acknowledged
               PROVE  /\ change.revision <= registry'.revision
                      /\ registry'.revision - change.revision
                            < Len(registry'.history) =>
                          \E i \in DOMAIN registry'.history :
                              registry'.history[i] = change
    BY DEF AcknowledgedSurvive, Commit
  <2>1. change \in Change /\ change.revision \in Nat
    BY DEF Inductive, TypeOK, Change
  <2>2. /\ change.revision <= registry.revision
        /\ registry.revision - change.revision < Len(registry.history) =>
              \E i \in DOMAIN registry.history : registry.history[i] = change
    BY DEF Inductive, AcknowledgedSurvive
  <2>3. change.revision <= registry'.revision
    BY <1>4, <2>1, <2>2
  <2>4. ASSUME registry'.revision - change.revision < Len(registry'.history)
        PROVE  \E i \in DOMAIN registry'.history : registry'.history[i] = change
    <3>1. /\ Len(registry.history) \in Nat /\ Len(registry'.history) \in Nat
          /\ DOMAIN registry.history = 1 .. Len(registry.history)
          /\ DOMAIN registry'.history = 1 .. Len(registry'.history)
      BY <1>1, <1>2, LenProperties DEF RegistryFile
    <3>2. MaxHistory \in Nat
      BY DataAssumption
    <3>3. Len(registry'.history) <= Len(registry.history) + 1
      BY <1>1, <1>2, <1>4, <3>2 DEF ChainedFile, Complete
    <3>4. registry.revision - change.revision < Len(registry.history)
      BY <1>4, <2>1, <2>4, <3>1, <3>3
    <3>5. PICK j \in 1 .. Len(registry.history) : registry.history[j] = change
      BY <2>2, <3>1, <3>4
    <3>6. registry.revision + 1 - registry.history[j].revision
             < Len(Extended(registry, request[p]).history)
      <4>1. registry.revision + 1 - change.revision < Len(registry'.history)
        BY <1>4, <2>1, <2>4, <3>1
      <4> QED BY <1>1, <3>5, <4>1
    <3> QED BY <1>1, <3>1, <3>5, <3>6, ExtendedKeepsRecent
  <2> QED BY <2>3, <2>4
<1> QED BY <1>2, <1>3, <1>5, <1>6, <1>7 DEF Inductive

LEMMA ReplyStep ==
    ASSUME Inductive, NEW p \in Processes, Reply(p)
    PROVE  Inductive'
<1> DEFINE newest == registry.history[Len(registry.history)]
<1>1. /\ registry \in RegistryFile /\ ChainedFile(registry)
      /\ copy[p] = registry /\ registry.revision > 0
      /\ registry' = registry
      /\ acknowledged' = acknowledged \cup {newest}
  BY DEF Inductive, TypeOK, LockProtects, WrittenIsRecorded, Reply, Newest
<1>2. /\ registry.history \in Seq(Change) /\ Len(registry.history) \in Nat
      /\ registry.revision \in Nat
      /\ DOMAIN registry.history = 1 .. Len(registry.history)
  BY <1>1, LenProperties DEF RegistryFile
<1>3. Len(registry.history) \in 1 .. Len(registry.history)
  BY <1>1, <1>2, DataAssumption DEF ChainedFile, Complete
<1>4. newest \in Change /\ newest.revision = registry.revision
  <2>1. newest \in Change
    BY <1>2, <1>3, ElementOfSeq
  <2>2. newest.revision
            = registry.revision - Len(registry.history) + Len(registry.history)
    BY <1>1, <1>3 DEF ChainedFile, Numbered
  <2> QED BY <1>2, <2>1, <2>2
<1>5. acknowledged' \subseteq Change
  BY <1>1, <1>4 DEF Inductive, TypeOK
<1>6. TypeOK' /\ LocalsPresent'
  BY <1>5, QuietTypes DEF Inductive
<1>7. LockProtects' /\ WrittenIsRecorded'
  BY QuietLocks DEF Inductive
<1>8. AcknowledgedSurvive'
  BY <1>1, <1>2, <1>3, <1>4 DEF Inductive, AcknowledgedSurvive
<1> QED BY <1>1, <1>6, <1>7, <1>8 DEF Inductive

LEMMA NextInductive == Inductive /\ [Next]_vars => Inductive'
<1> SUFFICES ASSUME Inductive, [Next]_vars PROVE Inductive'
  OBVIOUS
<1>1. CASE UNCHANGED vars
  BY <1>1 DEF vars, Inductive, TypeOK, LocalsPresent, LockProtects, WrittenIsRecorded,
              AcknowledgedSurvive
<1>2. CASE Next
  BY <1>2, QuietSteps, CommitStep, ReplyStep DEF Next
<1> QED BY <1>1, <1>2

(* However many processes share the registry and wherever they crash, the  *)
(* file stays loadable, the process between load and release is alone and  *)
(* works on the current file, and no acknowledged change is lost.          *)
THEOREM RegistrySafety == Spec => [](TypeOK /\ LockProtects /\ AcknowledgedSurvive)
<1>1. Init => Inductive
  BY InitInductive
<1>2. Inductive /\ [Next]_vars => Inductive'
  BY NextInductive
<1>3. Inductive => TypeOK /\ LockProtects /\ AcknowledgedSurvive
  BY DEF Inductive
<1> QED BY <1>1, <1>2, <1>3, PTL DEF Spec

(* Also among processes that share and crash, every file on disk is one    *)
(* the next load accepts.                                                  *)
THEOREM SharedFileLoads == Spec => []TypeOK
BY RegistrySafety, PTL

(* Between load and release a process is alone, and its copy is the file:  *)
(* what it renames into place was computed from what it replaces.          *)
THEOREM LockIsExclusive == Spec => []LockProtects
BY RegistrySafety, PTL

(* A mutation guarded by an expected revision takes effect on that very    *)
(* revision of the file.                                                   *)
THEOREM GuardedCommits == Spec => GuardedCommitsAreFresh
<1>1. Init => Inductive
  BY InitInductive
<1>2. Inductive /\ [Next]_vars => Inductive'
  BY NextInductive
<1>3. Inductive /\ [Next]_vars =>
        [\A p \in Processes :
            pc[p] = "locked" /\ pc'[p] = "written" => Fresh(registry, request[p])]_vars
  <2> SUFFICES ASSUME Inductive, Next, NEW p \in Processes,
                      pc[p] = "locked", pc'[p] = "written"
               PROVE  Fresh(registry, request[p])
    OBVIOUS
  <2>1. copy[p] = registry /\ pc \in [Processes -> {"idle", "waiting", "locked",
                                                    "written", "selecting"}]
    BY DEF Inductive, LockProtects, TypeOK
  <2>2. PICK q \in Processes :
           \/ Begin(q) \/ Acquire(q) \/ Abort(q) \/ Commit(q) \/ Reply(q)
           \/ SelectRead(q) \/ SelectWrite(q) \/ Crash(q)
    BY DEF Next
  <2>3. Commit(p)
    BY <2>1, <2>2 DEF Begin, Acquire, Abort, Commit, Reply, SelectRead, SelectWrite,
                      Crash, Forget
  <2> QED BY <2>1, <2>3 DEF Commit
<1> QED BY <1>1, <1>2, <1>3, PTL DEF Spec, GuardedCommitsAreFresh

LEMMA CommitIsAtomicMutate ==
    ASSUME Inductive, NEW p \in Processes, Commit(p)
    PROVE  Atomic!Next
<1>1. /\ copy[p] = registry /\ request[p] \in Requests
      /\ registry.revision < MaxRevision
      /\ Fresh(registry, request[p]) /\ Permitted(registry, request[p])
      /\ registry' = Extended(registry, request[p])
  BY DEF Inductive, LocalsPresent, LockProtects, Commit
<1>2. Atomic!Fresh(registry, request[p])
  BY <1>1 DEF Fresh, Atomic!Fresh, AnyRevision, Atomic!AnyRevision
<1>3. Atomic!Undoable(registry, request[p]) = Undoable(registry, request[p])
  BY DEF Undoable, Atomic!Undoable
<1>4. Atomic!Permitted(registry, request[p])
  BY <1>1, <1>3 DEF Permitted, Atomic!Permitted, Exists, Atomic!Exists,
                    Available, Atomic!Available
<1>5. Atomic!Result(registry, request[p]) = Result(registry, request[p])
  BY <1>3 DEF Result, Atomic!Result, Created, Atomic!Created, Moved, Atomic!Moved,
              Shared, Atomic!Shared, Unassigned, Atomic!Unassigned, Undone,
              Atomic!Undone, NewDocument, Atomic!NewDocument, Hide, Atomic!Hide,
              Assign, Atomic!Assign
<1>6. Atomic!RecordOf(registry, request[p]) = RecordOf(registry, request[p])
  BY <1>5 DEF RecordOf, Atomic!RecordOf
<1>7. Atomic!Extended(registry, request[p]) = Extended(registry, request[p])
  BY <1>5, <1>6 DEF Extended, Atomic!Extended, KeepLast, Atomic!KeepLast
<1> QED BY <1>1, <1>2, <1>4, <1>7 DEF Atomic!Next, Atomic!Mutate

(* Locking, loading, renaming and crashing in separate steps implements    *)
(* the registry whose mutations are indivisible.                           *)
THEOREM Refinement == Spec => ImplementsAtomicRegistry
<1>1. Init => Atomic!Init
  BY DEF Init, Atomic!Init, EmptyRegistry, Atomic!EmptyRegistry
<1>2. Init => Inductive
  BY InitInductive
<1>3. Inductive /\ [Next]_vars => Inductive'
  BY NextInductive
<1>4. Inductive /\ [Next]_vars => [Atomic!Next]_registry
  <2> SUFFICES ASSUME Inductive, Next, registry' # registry PROVE Atomic!Next
    BY DEF vars
  <2>1. PICK p \in Processes : Commit(p)
    BY DEF Next, Begin, Acquire, Abort, Reply, SelectRead, SelectWrite, Crash
  <2> QED BY <2>1, CommitIsAtomicMutate
<1> QED BY <1>1, <1>2, <1>3, <1>4, PTL DEF Spec, ImplementsAtomicRegistry, Atomic!Spec

-----------------------------------------------------------------------------
(* Selections.  What SelectionExplained says of a session file holds from  *)
(* the moment a process reads the registry, while others change it.        *)
Explained(file, c, revision) ==
    /\ \A i \in DOMAIN file.history :
          file.history[i].revision = revision => Exists(file.history[i].after, c)
    /\ /\ ~Exists(file.contexts, c)
       /\ revision >= file.revision - Len(file.history)
       => \E i \in DOMAIN file.history :
             /\ file.history[i].operation = "undo"
             /\ file.history[i].revision > revision

Selections ==
    /\ \A s \in Sessions : sessions[s] # Nothing =>
          /\ sessions[s].registry_revision <= registry.revision
          /\ Explained(registry, sessions[s].context, sessions[s].registry_revision)
    /\ \A p \in Processes : pc[p] = "selecting" =>
          /\ copy[p].revision <= registry.revision
          /\ Explained(registry, target[p].context, copy[p].revision)

(* A context that exists now is explained by the newest revision.          *)
LEMMA ExistingExplained ==
    ASSUME NEW file \in RegistryFile, ChainedFile(file),
           NEW c \in Contexts, Exists(file.contexts, c)
    PROVE  Explained(file, c, file.revision)
<1>1. /\ file.history \in Seq(Change) /\ file.revision \in Nat
      /\ Len(file.history) \in Nat
      /\ DOMAIN file.history = 1 .. Len(file.history)
  BY LenProperties DEF RegistryFile
<1>2. ASSUME NEW i \in DOMAIN file.history, file.history[i].revision = file.revision
      PROVE  Exists(file.history[i].after, c)
  <2>1. file.history[i].revision = file.revision - Len(file.history) + i
    BY <1>1 DEF ChainedFile, Numbered
  <2>2. i = Len(file.history)
    BY <1>1, <1>2, <2>1
  <2>3. file.history # << >>
    BY <1>1, EmptySeq
  <2> QED BY <2>2, <2>3 DEF ChainedFile, EndsAtContexts, Newest
<1> QED BY <1>2 DEF Explained

(* Only an undo removes a context.                                         *)
LEMMA OnlyUndoRemoves ==
    ASSUME NEW file \in RegistryFile, NEW r \in Request, Permitted(file, r),
           NEW c \in Contexts, Exists(file.contexts, c),
           ~Exists(Result(file, r), c)
    PROVE  r.operation = "undo"
<1> SUFFICES ASSUME r.operation # "undo" PROVE FALSE
  OBVIOUS
<1>1. file.contexts \in ContextMap /\ file.contexts[c] \in Document
  BY DEF RegistryFile, ContextMap, Exists
<1>2. CASE r.operation = "create"
  <2>1. r \in CreateRequest
    BY <1>2 DEF Request, CreateRequest, MoveRequest, ShareRequest,
                UnassignRequest, UndoRequest
  <2>2. NewDocument(r.sources) \in Document
    BY <2>1 DEF CreateRequest, NewDocument, Document
  <2> QED BY <1>1, <1>2, <2>1, <2>2, DataAssumption
          DEF Result, Created, ContextMap, Exists, CreateRequest
<1>3. ASSUME r.operation # "create"
      PROVE  /\ Assign(file.contexts[c], r.cap) # Absent
             /\ Hide(file.contexts[c], r.cap) # Absent
             /\ file.contexts[c] # Absent
  <2>1. r.cap \in Caps
    BY <1>3 DEF Request, CreateRequest, MoveRequest, ShareRequest,
                UnassignRequest, UndoRequest
  <2>2. /\ Assign(file.contexts[c], r.cap) \in Document
        /\ Hide(file.contexts[c], r.cap) \in Document
    BY <1>1, <2>1 DEF Document, Assign, Hide
  <2> QED BY <1>1, <2>2, DataAssumption
<1>4. CASE r.operation = "move"
  <2>1. r \in MoveRequest
    BY <1>4 DEF Request, CreateRequest, MoveRequest, ShareRequest,
                UnassignRequest, UndoRequest
  <2> QED BY <1>1, <1>3, <1>4, <2>1 DEF Result, Moved, ContextMap, Exists, MoveRequest
<1>5. CASE r.operation = "share"
  <2>1. r \in ShareRequest
    BY <1>5 DEF Request, CreateRequest, MoveRequest, ShareRequest,
                UnassignRequest, UndoRequest
  <2> QED BY <1>1, <1>3, <1>5, <2>1 DEF Result, Shared, ContextMap, Exists, ShareRequest
<1>6. CASE r.operation = "unassign"
  <2>1. r \in UnassignRequest
    BY <1>6 DEF Request, CreateRequest, MoveRequest, ShareRequest,
                UnassignRequest, UndoRequest
  <2> QED BY <1>1, <1>3, <1>6, <2>1 DEF Result, Unassigned, ContextMap, Exists,
                                        UnassignRequest
<1> QED BY <1>2, <1>4, <1>5, <1>6 DEF Permitted

(* A mutation keeps a selection explained: if it removes the context it is *)
(* an undo itself, and an older undo stays in the history as long as the   *)
(* revision of the selection does.                                         *)
LEMMA ExtendedExplained ==
    ASSUME NEW file \in RegistryFile, ChainedFile(file),
           NEW r \in Request, Permitted(file, r),
           NEW c \in Contexts, NEW revision \in Nat, revision <= file.revision,
           Explained(file, c, revision)
    PROVE  Explained(Extended(file, r), c, revision)
<1> DEFINE new == Extended(file, r)
           h == file.history
           k == new.history
<1>1. /\ h \in Seq(Change) /\ file.revision \in Nat /\ Len(h) \in Nat
      /\ DOMAIN h = 1 .. Len(h) /\ Len(h) <= MaxHistory
  BY LenProperties DEF RegistryFile, ValidHistory
<1>2. new \in RegistryFile /\ ChainedFile(new)
  BY ExtendedChained
<1>3. /\ k \in Seq(Change) /\ Len(k) \in Nat
      /\ DOMAIN k = 1 .. Len(k)
  BY <1>2, LenProperties DEF RegistryFile
<1>4. new.revision = file.revision + 1 /\ new.contexts = Result(file, r)
  BY DEF Extended
<1>5. /\ RecordOf(file, r).revision = file.revision + 1
      /\ RecordOf(file, r).operation = r.operation
  BY DEF RecordOf
<1>6. \A i \in DOMAIN k : \/ k[i] = RecordOf(file, r)
                          \/ \E j \in DOMAIN h : k[i] = h[j]
  BY ExtendedEntries
<1>7. /\ MaxHistory \in Nat \ {0}
      /\ Len(h) = IF file.revision < MaxHistory THEN file.revision ELSE MaxHistory
      /\ Len(k) = IF file.revision + 1 < MaxHistory THEN file.revision + 1
                  ELSE MaxHistory
  BY <1>2, <1>4, DataAssumption DEF ChainedFile, Complete
<1>8. \A j \in 1 .. Len(h) :
         h[j].revision \in Nat /\ file.revision + 1 - h[j].revision < Len(k) =>
            \E i \in DOMAIN k : k[i] = h[j]
  BY <1>3, ExtendedKeepsRecent
<1>9. ASSUME NEW j \in DOMAIN h PROVE h[j].revision \in Nat
  <2>1. h[j] \in Change
    BY <1>1, ElementOfSeq
  <2> QED BY <2>1 DEF Change
<1>10. \A j \in DOMAIN h : h[j].revision = revision => Exists(h[j].after, c)
  BY DEF Explained
<1>11. /\ ~Exists(file.contexts, c) /\ revision >= file.revision - Len(h)
       => \E j \in DOMAIN h : h[j].operation = "undo" /\ h[j].revision > revision
  BY DEF Explained
<1>12. ~Exists(new.contexts, c) /\ Exists(file.contexts, c) => r.operation = "undo"
  BY <1>4, OnlyUndoRemoves
<1>13. k[Len(k)] = RecordOf(file, r) /\ Len(k) \in DOMAIN k
  <2>1. Len(k) \in 1 .. Len(k)
    BY <1>1, <1>3, <1>7
  <2>2. RecordOf(file, r) \in Change
    BY RecordType
  <2>3. k = KeepLast(Append(h, RecordOf(file, r)))
    BY DEF Extended
  <2> HIDE DEF h, k, new
  <2> QED BY <1>1, <1>3, <2>1, <2>2, <2>3, KeepLastAppend
<1> HIDE DEF new, h, k
<1>14. ASSUME NEW i \in DOMAIN k, k[i].revision = revision
       PROVE  Exists(k[i].after, c)
  <2>1. k[i] # RecordOf(file, r)
    BY <1>1, <1>5, <1>14
  <2> QED BY <1>6, <1>10, <1>14, <2>1
<1>15. ASSUME ~Exists(new.contexts, c), revision >= new.revision - Len(k)
       PROVE  \E i \in DOMAIN k : k[i].operation = "undo" /\ k[i].revision > revision
  <2>1. CASE Exists(file.contexts, c)
    <3>1. r.operation = "undo"
      BY <1>12, <1>15, <2>1
    <3>2. k[Len(k)].operation = "undo" /\ k[Len(k)].revision > revision
      BY <1>1, <1>5, <1>13, <3>1
    <3> QED BY <1>13, <3>2
  <2>2. CASE ~Exists(file.contexts, c)
    <3>1. revision >= file.revision - Len(h)
      BY <1>1, <1>3, <1>4, <1>7, <1>15
    <3>2. PICK j \in DOMAIN h : h[j].operation = "undo" /\ h[j].revision > revision
      BY <1>11, <2>2, <3>1
    <3>3. file.revision + 1 - h[j].revision < Len(k)
      BY <1>1, <1>3, <1>4, <1>9, <1>15, <3>2
    <3>4. PICK i \in DOMAIN k : k[i] = h[j]
      BY <1>1, <1>8, <1>9, <3>3
    <3> QED BY <3>2, <3>4
  <2> QED BY <2>1, <2>2
<1> QED BY <1>14, <1>15 DEF Explained, k, new

(* Session files and selections under way stay explained.                  *)
LEMMA SelectionsStep ==
    ASSUME Inductive, Selections, Next
    PROVE  Selections'
<1> USE DEF Selections
<1>1. /\ registry \in RegistryFile /\ ChainedFile(registry)
      /\ registry.revision \in Nat
  BY DEF Inductive, TypeOK, RegistryFile
<1>2. /\ \A s \in Sessions : sessions[s] # Nothing => sessions[s] \in Selection
      /\ \A p \in Processes : pc[p] = "selecting" =>
            copy[p] \in RegistryFile /\ target[p] \in SelectTarget
  BY DEF Inductive, TypeOK, LocalsPresent
<1>3. PICK p \in Processes :
         \/ Begin(p) \/ Acquire(p) \/ Abort(p) \/ Commit(p) \/ Reply(p)
         \/ SelectRead(p) \/ SelectWrite(p) \/ Crash(p)
  BY DEF Next
<1>4. CASE Begin(p) \/ Acquire(p) \/ Abort(p) \/ Reply(p) \/ Crash(p)
  <2>1. registry' = registry /\ sessions' = sessions
    BY <1>4 DEF Begin, Acquire, Abort, Reply, Crash
  <2>2. \A q \in Processes : pc'[q] = "selecting" =>
           pc[q] = "selecting" /\ copy'[q] = copy[q] /\ target'[q] = target[q]
    BY <1>4 DEF Begin, Acquire, Abort, Reply, Crash, Forget, Inductive, TypeOK
  <2> QED BY <2>1, <2>2
<1>5. CASE SelectRead(p)
  <2>1. PICK c \in Contexts, s \in Sessions :
           /\ Exists(registry.contexts, c)
           /\ target' = [target EXCEPT ![p] = [context |-> c, session |-> s]]
    BY <1>5 DEF SelectRead
  <2>2. Explained(registry, c, registry.revision)
    BY <1>1, <2>1, ExistingExplained
  <2>3. copy'[p] = registry /\ target'[p].context = c
    BY <1>5, <2>1 DEF SelectRead, Inductive, TypeOK
  <2>4. registry' = registry /\ sessions' = sessions
    BY <1>5 DEF SelectRead
  <2>5. \A q \in Processes \ {p} :
           copy'[q] = copy[q] /\ target'[q] = target[q] /\ pc'[q] = pc[q]
    BY <1>5, <2>1 DEF SelectRead, Inductive, TypeOK
  <2> QED BY <1>1, <2>2, <2>3, <2>4, <2>5
<1>6. CASE SelectWrite(p)
  <2> DEFINE chosen == [context |-> target[p].context,
                        registry_revision |-> copy[p].revision]
  <2>1. /\ pc[p] = "selecting" /\ registry' = registry
        /\ sessions' = [sessions EXCEPT ![target[p].session] = chosen]
    BY <1>6 DEF SelectWrite
  <2>2. /\ chosen.registry_revision <= registry.revision
        /\ Explained(registry, chosen.context, chosen.registry_revision)
    BY <2>1
  <2> HIDE DEF chosen
  <2>3. \A s \in Sessions : sessions'[s] \in {sessions[s], chosen}
    BY <2>1 DEF Inductive, TypeOK
  <2>4. \A q \in Processes : pc'[q] = "selecting" =>
           pc[q] = "selecting" /\ copy'[q] = copy[q] /\ target'[q] = target[q]
    BY <1>6 DEF SelectWrite, Forget, Inductive, TypeOK
  <2> QED BY <2>1, <2>2, <2>3, <2>4
<1>7. CASE Commit(p)
  <2>1. /\ copy[p] = registry /\ request[p] \in Requests /\ request[p] \in Request
        /\ Permitted(registry, request[p])
        /\ registry' = Extended(registry, request[p])
    BY <1>7, ProcessAssumption DEF Inductive, LocalsPresent, LockProtects, Commit
  <2>2. registry'.revision = registry.revision + 1
    BY <2>1 DEF Extended
  <2>3. ASSUME NEW c \in Contexts, NEW revision \in Nat,
               revision <= registry.revision, Explained(registry, c, revision)
        PROVE  revision <= registry'.revision /\ Explained(registry', c, revision)
    BY <1>1, <2>1, <2>2, <2>3, ExtendedExplained
  <2>4. \A s \in Sessions : sessions[s] # Nothing =>
           /\ sessions[s].context \in Contexts
           /\ sessions[s].registry_revision \in Nat
    BY <1>2 DEF Selection
  <2>5. \A q \in Processes : pc[q] = "selecting" =>
           copy[q].revision \in Nat /\ target[q].context \in Contexts
    BY <1>2 DEF RegistryFile, SelectTarget
  <2>6. sessions' = sessions /\ target' = target
    BY <1>7 DEF Commit
  <2>7. \A q \in Processes : pc'[q] = "selecting" =>
           pc[q] = "selecting" /\ copy'[q] = copy[q]
    BY <1>7 DEF Commit, Inductive, TypeOK
  <2> QED BY <2>3, <2>4, <2>5, <2>6, <2>7
<1> QED BY <1>3, <1>4, <1>5, <1>6, <1>7

(* A session file names a context that existed at its revision, and only   *)
(* an undo can have removed it since.                                      *)
THEOREM SelectionSafety == Spec => []SelectionExplained
<1>1. Init => Inductive /\ Selections
  BY InitInductive DEF Init, Selections
<1>2. Inductive /\ Selections /\ [Next]_vars => Inductive' /\ Selections'
  <2> SUFFICES ASSUME Inductive, Selections, [Next]_vars
               PROVE  Inductive' /\ Selections'
    OBVIOUS
  <2>1. Inductive'
    BY NextInductive
  <2>2. CASE UNCHANGED vars
    BY <2>1, <2>2 DEF vars, Selections, Explained
  <2>3. CASE Next
    BY <2>1, <2>3, SelectionsStep
  <2> QED BY <2>1, <2>2, <2>3
<1>3. Selections => SelectionExplained
  BY DEF Selections, Explained, SelectionExplained
<1> QED BY <1>1, <1>2, <1>3, PTL DEF Spec

-----------------------------------------------------------------------------
(* What is proved of the registry whose mutations are indivisible holds of *)
(* processes that lock, load, rename and crash, through the refinement.    *)
Abstract == INSTANCE AtomicRegistryProofs

(* What AtomicRegistry assumes of its constants, this module assumes too.  *)
LEMMA SameAssumptions ==
    Abstract!DataAssumption /\ Abstract!RequestAssumption
<1>1. Abstract!DataAssumption
  BY DataAssumption DEF Abstract!DataAssumption, Document, Abstract!Document
<1>2. Abstract!Request = Request
  BY DEF Request, Abstract!Request, CreateRequest, Abstract!CreateRequest,
         MoveRequest, Abstract!MoveRequest, ShareRequest, Abstract!ShareRequest,
         UnassignRequest, Abstract!UnassignRequest, UndoRequest, Abstract!UndoRequest,
         Expected, Abstract!Expected, AnyRevision, Abstract!AnyRevision
<1> QED BY <1>1, <1>2, ProcessAssumption DEF Abstract!RequestAssumption

(* The two instances of the abstract mutation are the same step.           *)
LEMMA SameMutation ==
    ASSUME NEW r \in Requests, Atomic!Mutate(r)
    PROVE  Abstract!Mutate(r)
<1>1. Abstract!Fresh(registry, r)
  BY DEF Atomic!Mutate, Atomic!Fresh, Abstract!Fresh, Atomic!AnyRevision,
         Abstract!AnyRevision
<1>2. Abstract!Undoable(registry, r) = Atomic!Undoable(registry, r)
  BY DEF Abstract!Undoable, Atomic!Undoable
<1>3. Abstract!Permitted(registry, r)
  BY <1>2 DEF Atomic!Mutate, Atomic!Permitted, Abstract!Permitted, Atomic!Exists,
              Abstract!Exists, Atomic!Available, Abstract!Available
<1>4. Abstract!Result(registry, r) = Atomic!Result(registry, r)
  BY <1>2 DEF Atomic!Result, Abstract!Result, Atomic!Created, Abstract!Created,
              Atomic!Moved, Abstract!Moved, Atomic!Shared, Abstract!Shared,
              Atomic!Unassigned, Abstract!Unassigned, Atomic!Undone, Abstract!Undone,
              Atomic!NewDocument, Abstract!NewDocument, Atomic!Hide, Abstract!Hide,
              Atomic!Assign, Abstract!Assign
<1>5. Abstract!Extended(registry, r) = Atomic!Extended(registry, r)
  BY <1>4 DEF Atomic!Extended, Abstract!Extended, Atomic!KeepLast, Abstract!KeepLast,
              Atomic!RecordOf, Abstract!RecordOf
<1> QED BY <1>1, <1>3, <1>5 DEF Atomic!Mutate, Abstract!Mutate

(* However many processes share the registry and wherever they crash, no   *)
(* context includes and excludes a capability, a mutation does what its    *)
(* reply says, an undo takes back one change, and a context with an        *)
(* included source keeps what a request does not name (contexts.py).       *)
THEOREM Inherited ==
    Spec => /\ []Abstract!NoContradiction
            /\ Abstract!ReplyDelivered
            /\ Abstract!UndoRevertsOneChange
            /\ Abstract!SourcedContextsKeepOthers
<1>1. Spec => Abstract!Spec
  <2>1. Atomic!Init => Abstract!Init
    BY DEF Atomic!Init, Abstract!Init, Atomic!EmptyRegistry, Abstract!EmptyRegistry
  <2>2. [Atomic!Next]_registry => [Abstract!Next]_registry
    BY SameMutation DEF Atomic!Next, Abstract!Next
  <2>3. Spec => Atomic!Spec
    BY Refinement DEF ImplementsAtomicRegistry
  <2> QED BY <2>1, <2>2, <2>3, PTL DEF Atomic!Spec, Abstract!Spec
<1>2. Abstract!Spec => []Abstract!NoContradiction
  BY Abstract!ContextsConsistent, SameAssumptions
<1>3. Abstract!Spec => Abstract!ReplyDelivered
  BY Abstract!RepliesDelivered, SameAssumptions
<1>4. Abstract!Spec => Abstract!UndoRevertsOneChange
  BY Abstract!UndoRevertsOne, SameAssumptions
<1>5. Abstract!Spec => Abstract!SourcedContextsKeepOthers
  BY Abstract!SourcedKeepOthers, SameAssumptions
<1> QED BY <1>1, <1>2, <1>3, <1>4, <1>5
=============================================================================
