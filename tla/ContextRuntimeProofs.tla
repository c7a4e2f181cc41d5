------------------------ MODULE ContextRuntimeProofs ------------------------
(* Proofs about ContextRuntime, for any sessions, contexts and requests.   *)
(* The invariant says what each phase of a context action carries: an      *)
(* executor built from one reading, and revisions no newer than the file.  *)
(* Mutations of other processes between two steps only add to the history, *)
(* so what was read once stays true of the file.                           *)
EXTENDS ContextRuntime, RegistryLemmas

(* The executor shows its context as the change with its revision left it. *)
SnapshotOf(file, e) ==
    /\ e.revision <= file.revision
    /\ \A i \in DOMAIN file.history :
          file.history[i].revision = e.revision =>
              file.history[i].after[e.context] = e.view

Switch == [replacement : Executor, registry_revision : Nat]

(* What an action carries from one of its steps to the next.               *)
Carried(s) ==
    /\ phase[s] = "resuming" =>
          /\ pending[s] \in Contexts
          /\ s \notin overruled => sessions[s].context = pending[s]
    /\ phase[s] = "selecting" =>
          /\ pending[s] \in Executor
          /\ SnapshotOf(registry, pending[s])
    /\ phase[s] = "writing" =>
          /\ pending[s] \in Switch
          /\ SnapshotOf(registry, pending[s].replacement)
          /\ pending[s].replacement.revision <= pending[s].registry_revision
          /\ pending[s].registry_revision <= registry.revision
    /\ phase[s] = "replacing" =>
          /\ pending[s] \in Nat
          /\ pending[s] <= registry.revision

(* The context and revision a router reports, in every phase.              *)
Reports(s) ==
    /\ phase[s] \notin {"down", "resuming"} =>
          /\ selected[s] \in Contexts
          /\ reported[s] <= registry.revision
          /\ s \notin overruled => sessions[s].context = selected[s]
    /\ phase[s] \notin {"down", "resuming", "starting"} =>
          /\ executor[s] \in Executor
          /\ executor[s].context = selected[s]
          /\ executor[s].revision <= reported[s]
    /\ executor[s] # Nothing => SnapshotOf(registry, executor[s])

PendingIsFunction == pending = [s \in Sessions |-> pending[s]]

Inductive ==
    /\ TypeOK
    /\ ChainedFile(registry)
    /\ PendingIsFunction
    /\ \A s \in Sessions : Carried(s) /\ Reports(s)

(* A mutation of the store, seen through its instance, is the operator the *)
(* lemmas about the registry's data speak of.                              *)
LEMMA StoreMutates ==
    ASSUME NEW r, Store!Mutate(r)
    PROVE  Permitted(registry, r) /\ registry' = Extended(registry, r)
<1>1. Store!Undoable(registry, r) = Undoable(registry, r)
  BY DEF Undoable, Store!Undoable
<1>2. Permitted(registry, r)
  BY <1>1 DEF Store!Mutate, Permitted, Store!Permitted, Exists, Store!Exists,
              Available, Store!Available
<1>3. Store!Result(registry, r) = Result(registry, r)
  BY <1>1 DEF Result, Store!Result, Created, Store!Created, Moved, Store!Moved,
              Shared, Store!Shared, Unassigned, Store!Unassigned, Undone,
              Store!Undone, NewDocument, Store!NewDocument, Hide, Store!Hide,
              Assign, Store!Assign
<1>4. Store!RecordOf(registry, r) = RecordOf(registry, r)
  BY <1>3 DEF RecordOf, Store!RecordOf
<1>5. Store!Extended(registry, r) = Extended(registry, r)
  BY <1>3, <1>4 DEF Extended, Store!Extended, KeepLast, Store!KeepLast
<1> QED BY <1>2, <1>5 DEF Store!Mutate

(* An agent's requests, guarded or not, are requests.                      *)
LEMMA AgentRequestsType ==
    ASSUME TypeOK, NEW s \in Sessions, NEW r \in AgentRequests(s)
    PROVE  r \in Request /\ r.operation # "create"
<1>1. reported[s] \in Nat
  BY DEF TypeOK
<1>2. CASE r \in {q \in Requests : q.operation = "undo"}
  BY <1>2, SessionAssumption
<1>3. ASSUME NEW q \in Requests, q.operation \in {"move", "share", "unassign"},
             NEW e \in {AnyRevision, reported[s]}, r = [q EXCEPT !.expected = e]
      PROVE  r \in Request /\ r.operation # "create"
  <2>1. e \in Expected
    BY <1>1 DEF Expected
  <2>2. q \in MoveRequest \cup ShareRequest \cup UnassignRequest
    BY <1>3, SessionAssumption DEF Request, CreateRequest, UndoRequest
  <2>3. CASE q \in MoveRequest
    BY <1>3, <2>1, <2>3 DEF MoveRequest, Request
  <2>4. CASE q \in ShareRequest
    BY <1>3, <2>1, <2>4 DEF ShareRequest, Request
  <2>5. CASE q \in UnassignRequest
    BY <1>3, <2>1, <2>5 DEF UnassignRequest, Request
  <2> QED BY <2>2, <2>3, <2>4, <2>5
<1> QED BY <1>2, <1>3 DEF AgentRequests

(* What was read from the registry stays true of it: a mutation adds a     *)
(* change with a new revision and drops old ones (contexts.py, mutate).    *)
LEMMA SnapshotKept ==
    ASSUME NEW file \in RegistryFile, NEW r \in Request, Permitted(file, r),
           NEW e \in Executor, SnapshotOf(file, e)
    PROVE  SnapshotOf(Extended(file, r), e)
<1> DEFINE new == Extended(file, r)
<1>1. /\ file.revision \in Nat /\ e.revision \in Nat
      /\ new.revision = file.revision + 1
      /\ RecordOf(file, r).revision = file.revision + 1
  BY DEF RegistryFile, Executor, Extended, RecordOf
<1>2. \A i \in DOMAIN new.history :
         \/ new.history[i] = RecordOf(file, r)
         \/ \E j \in DOMAIN file.history : new.history[i] = file.history[j]
  BY ExtendedEntries
<1> HIDE DEF new
<1> QED BY <1>1, <1>2 DEF SnapshotOf, new

(* What _build makes now is a snapshot of the registry.                    *)
LEMMA BuiltIsSnapshot ==
    ASSUME TypeOK, ChainedFile(registry),
           NEW c \in Contexts, Exists(registry.contexts, c)
    PROVE  /\ Built(c) \in Executor
           /\ SnapshotOf(registry, Built(c))
           /\ Built(c).context = c /\ Built(c).revision = registry.revision
<1>1. /\ registry.history \in Seq(Change) /\ registry.revision \in Nat
      /\ registry.contexts \in ContextMap
      /\ Len(registry.history) \in Nat
      /\ DOMAIN registry.history = 1 .. Len(registry.history)
  BY LenProperties DEF TypeOK, RegistryFile
<1>2. Built(c) \in Executor
  BY <1>1 DEF Built, Executor, ContextMap, Exists
<1>3. ASSUME NEW i \in DOMAIN registry.history,
             registry.history[i].revision = registry.revision
      PROVE  registry.history[i].after = registry.contexts
  <2>1. registry.history[i].revision = registry.revision - Len(registry.history) + i
    BY <1>1 DEF ChainedFile, Numbered
  <2>2. i = Len(registry.history) /\ registry.history # << >>
    BY <1>1, <1>3, <2>1, EmptySeq
  <2> QED BY <2>2 DEF ChainedFile, EndsAtContexts, Newest
<1> QED BY <1>1, <1>2, <1>3 DEF Built, SnapshotOf

(* How the registry may differ after a step.                               *)
Grown ==
    /\ registry' \in RegistryFile
    /\ ChainedFile(registry')
    /\ registry.revision \in Nat /\ registry'.revision \in Nat
    /\ registry.revision <= registry'.revision
    /\ \A e \in Executor : SnapshotOf(registry, e) => SnapshotOf(registry', e)

LEMMA MutationGrows ==
    ASSUME TypeOK, ChainedFile(registry), NEW r \in Request, Store!Mutate(r)
    PROVE  Grown /\ registry'.revision = registry.revision + 1
<1>1. /\ registry \in RegistryFile /\ registry.revision \in Nat
      /\ Permitted(registry, r) /\ registry' = Extended(registry, r)
  BY StoreMutates DEF TypeOK, RegistryFile
<1>2. registry'.revision = registry.revision + 1
  BY <1>1 DEF Extended
<1>3. registry' \in RegistryFile /\ ChainedFile(registry')
  BY <1>1, ExtendedChained
<1>4. \A e \in Executor : SnapshotOf(registry, e) => SnapshotOf(registry', e)
  BY <1>1, SnapshotKept
<1> QED BY <1>1, <1>2, <1>3, <1>4 DEF Grown

LEMMA RegistryGrows ==
    ASSUME TypeOK, ChainedFile(registry), [Next]_vars
    PROVE  Grown
<1>1. registry.revision \in Nat /\ registry \in RegistryFile
  BY DEF TypeOK, RegistryFile
<1>2. CASE registry' = registry
  BY <1>1, <1>2 DEF Grown
<1>3. CASE Elsewhere
  BY <1>3, SessionAssumption, MutationGrows DEF Elsewhere
<1>4. ASSUME NEW s \in Sessions, NEW r \in AgentRequests(s), MutateStore(s, r)
      PROVE  Grown
  BY <1>4, AgentRequestsType, MutationGrows DEF MutateStore
<1>5. CASE Next
  BY <1>2, <1>3, <1>4, <1>5 DEF Next, SessionNext, Select, Start, Resume, Started,
     Die, UseRefused, UseBuild, UseSelect, UseSwitch, UseFailed, MutateRefused,
     Replace, ReplaceFailed
<1> QED BY <1>2, <1>5 DEF vars

(* A session that takes no step keeps its part of the invariant while the  *)
(* registry grows and the command line selects contexts for others.        *)
LEMMA BystanderKept ==
    ASSUME TypeOK, Grown, NEW s \in Sessions, Carried(s), Reports(s),
           phase'[s] = phase[s], pending'[s] = pending[s],
           selected'[s] = selected[s], reported'[s] = reported[s],
           executor'[s] = executor[s], sessions'[s] = sessions[s],
           s \in overruled' <=> s \in overruled
    PROVE  Carried(s)' /\ Reports(s)'
<1>1. /\ reported[s] \in Nat
      /\ executor[s] # Nothing => executor[s] \in Executor
      /\ registry.revision \in Nat /\ registry'.revision \in Nat
      /\ registry.revision <= registry'.revision
      /\ \A e \in Executor : SnapshotOf(registry, e) => SnapshotOf(registry', e)
  BY DEF TypeOK, Grown
<1>2. Carried(s)'
  BY <1>1 DEF Carried, Switch
<1>3. Reports(s)'
  BY <1>1 DEF Reports
<1> QED BY <1>2, <1>3

(* A step of one session leaves what the others hold alone.                *)
LEMMA OthersUntouched ==
    ASSUME TypeOK, PendingIsFunction, NEW s \in Sessions, SessionNext(s),
           NEW t \in Sessions \ {s}
    PROVE  /\ phase'[t] = phase[t] /\ pending'[t] = pending[t]
           /\ selected'[t] = selected[t] /\ reported'[t] = reported[t]
           /\ executor'[t] = executor[t] /\ sessions'[t] = sessions[t]
           /\ answer'[t] = answer[t]
           /\ t \in overruled' <=> t \in overruled
<1> USE DEF TypeOK, PendingIsFunction, Goto, Return, memory
<1>1. CASE Select(s) \/ Start(s) \/ Resume(s) \/ Started(s) \/ Die(s)
  BY <1>1 DEF Select, Start, Resume, Started, Die
<1>2. CASE UseRefused(s) \/ UseBuild(s) \/ UseSelect(s) \/ UseSwitch(s) \/ UseFailed(s)
  BY <1>2 DEF UseRefused, UseBuild, UseSelect, UseSwitch, UseFailed
<1>3. CASE MutateRefused(s) \/ Replace(s) \/ ReplaceFailed(s)
  BY <1>3 DEF MutateRefused, Replace, ReplaceFailed
<1>4. ASSUME NEW r \in AgentRequests(s), MutateStore(s, r)
      PROVE  /\ phase'[t] = phase[t] /\ pending'[t] = pending[t]
             /\ answer'[t] = answer[t]
  BY <1>4 DEF MutateStore
<1>5. ASSUME NEW r \in AgentRequests(s), MutateStore(s, r)
      PROVE  UNCHANGED <<selected, reported, executor, sessions, overruled>>
  BY <1>5 DEF MutateStore
<1> QED BY <1>1, <1>2, <1>3, <1>4, <1>5 DEF SessionNext

(* pending stays a function of the sessions.                               *)
LEMMA PendingStaysFunction ==
    ASSUME PendingIsFunction, [Next]_vars
    PROVE  PendingIsFunction'
<1> USE DEF PendingIsFunction, Return
<1>1. CASE Elsewhere
  BY <1>1 DEF Elsewhere
<1>2. ASSUME NEW s \in Sessions, SessionNext(s)
      PROVE  \/ pending' = pending
             \/ \E x : pending' = [pending EXCEPT ![s] = x]
  BY <1>2 DEF SessionNext, Select, Start, Resume, Started, Die, UseRefused, UseBuild,
     UseSelect, UseSwitch, UseFailed, MutateRefused, MutateStore, Replace,
     ReplaceFailed
<1>3. CASE UNCHANGED vars
  BY <1>3 DEF vars
<1> QED BY <1>1, <1>2, <1>3 DEF Next

(* Starting, dying and selecting on the command line.                      *)
LEMMA LifecycleKept ==
    ASSUME Inductive, Grown, NEW s \in Sessions,
           Select(s) \/ Start(s) \/ Resume(s) \/ Started(s) \/ Die(s)
    PROVE  Carried(s)' /\ Reports(s)'
<1> USE DEF Inductive, TypeOK, Goto, memory
<1>1. /\ Carried(s) /\ Reports(s) /\ ChainedFile(registry)
      /\ registry.revision \in Nat /\ registry' = registry
  BY DEF Select, Start, Resume, Started, Die, RegistryFile
<1>2. CASE Select(s)
  BY <1>1, <1>2 DEF Select, Carried, Reports
<1>3. CASE Start(s)
  <2>1. sessions[s] \in Selection
    BY <1>3 DEF Start
  <2>2. pending'[s] = sessions[s].context /\ sessions[s].context \in Contexts
    BY <1>3, <2>1 DEF Start, PendingIsFunction, Selection
  <2> QED BY <1>1, <1>3, <2>2 DEF Start, Carried, Reports
<1>4. CASE Resume(s)
  BY <1>1, <1>4 DEF Resume, Carried, Reports
<1>5. CASE Started(s)
  <2>1. selected[s] \in Contexts /\ Exists(registry.contexts, selected[s])
    BY <1>1, <1>5 DEF Started, Reports
  <2>2. /\ Built(selected[s]) \in Executor
        /\ SnapshotOf(registry, Built(selected[s]))
        /\ Built(selected[s]).context = selected[s]
        /\ Built(selected[s]).revision = registry.revision
    BY <1>1, <2>1, BuiltIsSnapshot
  <2> QED BY <1>1, <1>5, <2>2 DEF Started, Carried, Reports
<1>6. CASE Die(s)
  BY <1>1, <1>6 DEF Die, Carried, Reports
<1> QED BY <1>2, <1>3, <1>4, <1>5, <1>6

(* context_use: whatever its three steps see, the switch installs what the *)
(* first built, and a refusal keeps what was in force (runtime.py, _use).  *)
LEMMA UseKept ==
    ASSUME Inductive, NEW s \in Sessions,
           UseRefused(s) \/ UseBuild(s) \/ UseSelect(s) \/ UseSwitch(s) \/ UseFailed(s)
    PROVE  Carried(s)' /\ Reports(s)'
<1> USE DEF Inductive, TypeOK, Goto, memory, Return
<1>1. /\ Carried(s) /\ Reports(s) /\ ChainedFile(registry)
      /\ registry.revision \in Nat /\ registry' = registry
  BY DEF UseRefused, UseBuild, UseSelect, UseSwitch, UseFailed, RegistryFile
<1>2. CASE UseRefused(s) \/ UseFailed(s)
  BY <1>1, <1>2 DEF UseRefused, UseFailed, Carried, Reports
<1>3. CASE UseBuild(s)
  <2>1. PICK c \in Contexts : /\ Exists(registry.contexts, c)
                              /\ pending' = [pending EXCEPT ![s] = Built(c)]
    BY <1>3 DEF UseBuild
  <2>2. Built(c) \in Executor /\ SnapshotOf(registry, Built(c))
    BY <1>1, <2>1, BuiltIsSnapshot
  <2>3. pending'[s] = Built(c)
    BY <2>1 DEF PendingIsFunction
  <2>4. Carried(s)'
    BY <1>1, <1>3, <2>2, <2>3 DEF UseBuild, Carried
  <2>5. executor[s].revision <= registry.revision
    BY <1>1, <1>3 DEF UseBuild, Reports, Executor
  <2> QED BY <1>1, <1>3, <2>4, <2>5 DEF UseBuild, Reports
<1>4. CASE UseSelect(s)
  <2> DEFINE switch == [replacement |-> pending[s],
                        registry_revision |-> registry.revision]
  <2>1. pending[s] \in Executor /\ SnapshotOf(registry, pending[s])
    BY <1>1, <1>4 DEF UseSelect, Carried
  <2>2. pending'[s] = switch /\ phase'[s] = "writing"
    BY <1>4 DEF UseSelect, PendingIsFunction
  <2>3. switch \in Switch /\ switch.replacement = pending[s]
        /\ switch.registry_revision = registry.revision
        /\ pending[s].revision <= registry.revision
    BY <1>1, <2>1 DEF Switch, SnapshotOf
  <2> HIDE DEF switch
  <2>4. Carried(s)'
    BY <1>1, <2>1, <2>2, <2>3 DEF Carried
  <2> QED BY <1>1, <1>4, <2>4 DEF UseSelect, Reports
<1>5. CASE UseSwitch(s)
  <2> DEFINE new == pending[s].replacement
  <2>1. /\ new \in Executor /\ SnapshotOf(registry, new)
        /\ new.context \in Contexts
        /\ new.revision <= pending[s].registry_revision
        /\ pending[s].registry_revision <= registry.revision
    BY <1>1, <1>5 DEF UseSwitch, Carried, Switch, Executor
  <2>2. /\ executor'[s] = new /\ selected'[s] = new.context
        /\ reported'[s] = pending[s].registry_revision
        /\ sessions'[s].context = new.context
        /\ phase'[s] = "idle"
    BY <1>5 DEF UseSwitch
  <2> HIDE DEF new
  <2>3. Carried(s)'
    BY <2>2 DEF Carried
  <2>4. Reports(s)'
    BY <1>1, <2>1, <2>2 DEF Reports
  <2> QED BY <2>3, <2>4
<1> QED BY <1>2, <1>3, <1>4, <1>5

(* The actions that mutate the registry, and the rebuilding after them     *)
(* (runtime.py, _move, _share, _unassign, _undo and _replace).             *)
LEMMA WritesKept ==
    ASSUME Inductive, NEW s \in Sessions,
           \/ MutateRefused(s) \/ Replace(s) \/ ReplaceFailed(s)
           \/ \E r \in AgentRequests(s) : MutateStore(s, r)
    PROVE  Carried(s)' /\ Reports(s)'
<1> USE DEF Inductive, TypeOK, Goto, memory, Return
<1>1. /\ Carried(s) /\ Reports(s) /\ ChainedFile(registry)
      /\ registry.revision \in Nat
  BY DEF RegistryFile
<1>2. CASE MutateRefused(s) \/ ReplaceFailed(s)
  BY <1>1, <1>2 DEF MutateRefused, ReplaceFailed, Carried, Reports
<1>3. CASE Replace(s)
  <2>1. selected[s] \in Contexts /\ Exists(registry.contexts, selected[s])
    BY <1>1, <1>3 DEF Replace, Reports
  <2>2. /\ Built(selected[s]) \in Executor
        /\ SnapshotOf(registry, Built(selected[s]))
        /\ Built(selected[s]).context = selected[s]
        /\ Built(selected[s]).revision = registry.revision
    BY <1>1, <2>1, BuiltIsSnapshot
  <2> QED BY <1>1, <1>3, <2>1, <2>2 DEF Replace, Carried, Reports
<1>4. ASSUME NEW r \in AgentRequests(s), MutateStore(s, r)
      PROVE  Carried(s)' /\ Reports(s)'
  <2>1. Grown /\ registry'.revision \in Nat
    BY <1>1, <1>4, AgentRequestsType, MutationGrows DEF MutateStore, Grown
  <2>2. /\ phase[s] = "idle"
        /\ \/ phase'[s] = "idle"
           \/ phase'[s] = "replacing" /\ pending'[s] = registry'.revision
    BY <1>4 DEF MutateStore, PendingIsFunction
  <2>3. Carried(s)'
    BY <2>1, <2>2 DEF Carried
  <2>4. /\ selected' = selected /\ reported' = reported /\ executor' = executor
        /\ sessions' = sessions /\ overruled' = overruled
    BY <1>4 DEF MutateStore
  <2>5. /\ reported[s] \in Nat
        /\ executor[s] \in Executor
    BY <1>1, <2>2 DEF Reports
  <2> QED BY <1>1, <2>1, <2>2, <2>3, <2>4, <2>5 DEF Grown, Reports
<1> QED BY <1>2, <1>3, <1>4

(* Every step keeps the types.                                             *)
LEMMA TypesKept ==
    ASSUME Inductive, [Next]_vars
    PROVE  TypeOK'
<1> USE DEF Goto, memory, Return
<1>1. registry' \in RegistryFile
  BY RegistryGrows DEF Inductive, Grown
<1>2. registry.revision \in Nat /\ registry'.revision \in Nat
  BY <1>1 DEF Inductive, TypeOK, RegistryFile
<1>3. CASE Elsewhere
  BY <1>1, <1>3 DEF Elsewhere, Inductive, TypeOK
<1>4. ASSUME NEW s \in Sessions, SessionNext(s)
      PROVE  TypeOK'
  <2>1. Carried(s) /\ Reports(s)
    BY DEF Inductive
  <2> USE DEF Inductive, TypeOK, Phases
  <2>2. CASE Select(s)
    <3>1. PICK c \in Contexts :
             sessions' = [sessions EXCEPT ![s] =
                [context |-> c, registry_revision |-> registry.revision]]
      BY <2>2 DEF Select
    <3>2. [context |-> c, registry_revision |-> registry.revision] \in Selection
      BY <1>2 DEF Selection
    <3> QED BY <1>1, <2>2, <3>1, <3>2 DEF Select
  <2>3. CASE Start(s)
    BY <1>1, <2>3 DEF Start
  <2>4. CASE Started(s)
    <3>1. Built(selected[s]) \in Executor
      BY <2>1, <2>4, BuiltIsSnapshot DEF Started, Reports
    <3> QED BY <1>1, <1>2, <2>4, <3>1 DEF Started
  <2>5. CASE Die(s)
    BY <1>1, <2>5 DEF Die
  <2>6. \A status \in {"ok", "error"}, n \in Nat :
           [status |-> status, committed |-> n] \in Answer
    BY DEF Answer
  <2>7. CASE UseRefused(s) \/ UseFailed(s) \/ MutateRefused(s)
    BY <1>1, <2>6, <2>7 DEF UseRefused, UseFailed, MutateRefused
  <2>8. CASE UseBuild(s) \/ UseSelect(s)
    BY <1>1, <1>2, <2>8 DEF UseBuild, UseSelect
  <2>9. CASE UseSwitch(s)
    <3> DEFINE new == pending[s].replacement
               file == [context |-> new.context,
                        registry_revision |-> pending[s].registry_revision]
    <3>1. /\ new \in Executor /\ new.context \in Contexts
          /\ pending[s].registry_revision \in Nat
      BY <2>1, <2>9 DEF UseSwitch, Carried, Switch, Executor
    <3>2. file \in Selection
      BY <3>1 DEF Selection
    <3>3. /\ sessions' = [sessions EXCEPT ![s] = file]
          /\ executor' = [executor EXCEPT ![s] = new]
          /\ selected' = [selected EXCEPT ![s] = new.context]
      BY <2>9 DEF UseSwitch
    <3> HIDE DEF new, file
    <3> QED BY <1>1, <2>6, <2>9, <3>1, <3>2, <3>3 DEF UseSwitch
  <2>10. CASE Replace(s)
    <3>1. Built(selected[s]) \in Executor /\ pending[s] \in Nat
      BY <2>1, <2>10, BuiltIsSnapshot DEF Replace, Reports, Carried
    <3> QED BY <1>1, <1>2, <2>6, <2>10, <3>1 DEF Replace
  <2>11. CASE ReplaceFailed(s)
    BY <1>1, <2>1, <2>6, <2>11 DEF ReplaceFailed, Carried
  <2>12. ASSUME NEW r \in AgentRequests(s), MutateStore(s, r)
         PROVE  TypeOK'
    <3>1. /\ phase' \in [Sessions -> Phases]
          /\ answer' \in [Sessions -> Answer \cup {Nothing}]
      BY <1>2, <2>6, <2>12 DEF MutateStore
    <3> QED BY <1>1, <2>12, <3>1 DEF MutateStore
  <2>13. CASE Resume(s)
    BY <1>1, <1>2, <2>1, <2>13 DEF Resume, Carried
  <2> QED BY <1>4, <2>2, <2>3, <2>4, <2>5, <2>7, <2>8, <2>9, <2>10, <2>11, <2>12,
             <2>13 DEF SessionNext
<1>5. CASE UNCHANGED vars
  BY <1>1, <1>5 DEF vars, Inductive, TypeOK
<1> QED BY <1>3, <1>4, <1>5 DEF Next

LEMMA InitInductive == Init => Inductive
<1> SUFFICES ASSUME Init PROVE Inductive
  OBVIOUS
<1>1. registry \in RegistryFile /\ ChainedFile(registry) /\ registry.revision \in Nat
  BY EmptyRegistryChained DEF Init, RegistryFile
<1>2. TypeOK
  BY <1>1 DEF Init, TypeOK, Phases
<1>3. PendingIsFunction /\ \A s \in Sessions : Carried(s) /\ Reports(s)
  BY <1>1 DEF Init, PendingIsFunction, Carried, Reports
<1> QED BY <1>1, <1>2, <1>3 DEF Inductive

LEMMA StepInductive == Inductive /\ [Next]_vars => Inductive'
<1> SUFFICES ASSUME Inductive, [Next]_vars PROVE Inductive'
  OBVIOUS
<1>1. Grown
  BY RegistryGrows DEF Inductive
<1>2. TypeOK' /\ PendingIsFunction'
  BY TypesKept, PendingStaysFunction DEF Inductive
<1>3. ASSUME NEW t \in Sessions
      PROVE  Carried(t)' /\ Reports(t)'
  <2>1. TypeOK /\ PendingIsFunction /\ Carried(t) /\ Reports(t)
    BY DEF Inductive
  <2>2. CASE UNCHANGED vars \/ Elsewhere
    BY <1>1, <2>1, <2>2, BystanderKept DEF vars, Elsewhere, memory
  <2>3. ASSUME NEW s \in Sessions, SessionNext(s), s # t
        PROVE  Carried(t)' /\ Reports(t)'
    BY <1>1, <2>1, <2>3, OthersUntouched, BystanderKept
  <2>4. CASE SessionNext(t)
    BY <1>1, <2>4, LifecycleKept, UseKept, WritesKept DEF SessionNext
  <2> QED BY <2>2, <2>3, <2>4 DEF Next
<1> QED BY <1>1, <1>2, <1>3 DEF Inductive, Grown

LEMMA AlwaysInductive == Spec => []Inductive
  BY InitInductive, StepInductive, PTL DEF Spec

(* Every variable of the sessions keeps its type, whatever the other       *)
(* processes do to the registry between two steps of an action.            *)
THEOREM SessionTypes == Spec => []TypeOK
<1>1. Inductive => TypeOK
  BY DEF Inductive
<1> QED BY <1>1, AlwaysInductive, PTL

(* Between actions the executor in force is the one of the context the     *)
(* session reports and of its session file (runtime.py, _use).             *)
THEOREM OneContext == Spec => []OneContextPerSession
<1>1. Inductive => OneContextPerSession
  BY DEF Inductive, Reports, OneContextPerSession, Ready
<1> QED BY <1>1, AlwaysInductive, PTL

(* An executor shows its context as one change left it (runtime.py,        *)
(* _build).                                                                *)
THEOREM ExecutorsAreSnapshots == Spec => []ExecutorIsSnapshot
<1>1. Inductive => ExecutorIsSnapshot
  BY DEF Inductive, Reports, SnapshotOf, ExecutorIsSnapshot
<1> QED BY <1>1, AlwaysInductive, PTL

(* A session reports a revision between that of its executor and that of   *)
(* the file (runtime.py, _build and _use).                                 *)
THEOREM RevisionsReported == Spec => []ReportedNotOlder
<1>1. Inductive => ReportedNotOlder
  BY DEF Inductive, Reports, ReportedNotOlder, Ready
<1> QED BY <1>1, AlwaysInductive, PTL

-----------------------------------------------------------------------------
(* A session's own writes.                                                 *)

(* The write of session s is in its executor, or left its context alone.   *)
Reflects(s) ==
    \A i \in DOMAIN registry'.history :
        LET change == registry'.history[i]
        IN  change.revision = answer'[s].committed =>
                \/ executor'[s].revision >= change.revision
                \/ change.before[selected[s]] = change.after[selected[s]]

(* The change with the newest revision is the one just made.               *)
LEMMA NewestIsRecord ==
    ASSUME NEW file \in RegistryFile, ChainedFile(file),
           NEW r \in Request, Permitted(file, r),
           NEW i \in DOMAIN Extended(file, r).history,
           Extended(file, r).history[i].revision = file.revision + 1
    PROVE  Extended(file, r).history[i] = RecordOf(file, r)
<1>1. /\ file.history \in Seq(Change) /\ file.revision \in Nat
      /\ Len(file.history) \in Nat
      /\ DOMAIN file.history = 1 .. Len(file.history)
  BY LenProperties DEF RegistryFile
<1>2. ASSUME NEW j \in DOMAIN file.history
      PROVE  file.history[j].revision # file.revision + 1
  <2>1. file.history[j].revision = file.revision - Len(file.history) + j
    BY <1>1 DEF ChainedFile, Numbered
  <2> QED BY <1>1, <2>1
<1> QED BY <1>2, ExtendedEntries

(* A write that does not touch the session's context leaves its document   *)
(* as it is: moves, shares and hides only concern the contexts they name.  *)
LEMMA UntouchedDocument ==
    ASSUME TypeOK, NEW s \in Sessions, selected[s] \in Contexts,
           NEW r \in AgentRequests(s), Permitted(registry, r), ~Touches(s, r)
    PROVE  Result(registry, r)[selected[s]] = registry.contexts[selected[s]]
<1>1. registry \in RegistryFile /\ r \in Request /\ r.operation # "create"
  BY AgentRequestsType DEF TypeOK
<1>2. r.operation \in {"move", "share", "unassign"}
  BY <1>1 DEF Permitted, Touches
<1>3. CASE r.operation = "move"
  <2>1. Result(registry, r) = Moved(registry, r)
    BY <1>3 DEF Result
  <2> QED BY <1>1, <1>3, <2>1, ReassignedDocuments DEF Touches
<1>4. CASE r.operation = "share"
  <2>1. Result(registry, r) = Shared(registry, r)
    BY <1>4 DEF Result
  <2> QED BY <1>1, <1>4, <2>1, ReassignedDocuments DEF Touches
<1>5. CASE r.operation = "unassign"
  <2>1. Result(registry, r) = Unassigned(registry, r)
    BY <1>5 DEF Result
  <2> QED BY <1>1, <1>5, <2>1, ReassignedDocuments DEF Touches
<1> QED BY <1>2, <1>3, <1>4, <1>5

(* Only two steps acknowledge a write: the store's, when nothing has to be *)
(* rebuilt, and the rebuilding.                                            *)
LEMMA AcknowledgedReflected ==
    ASSUME Inductive, [Next]_vars, NEW s \in Sessions, Acknowledges(s)
    PROVE  Reflects(s)
<1> USE DEF Goto, Return, memory
<1>1. /\ TypeOK /\ ChainedFile(registry) /\ registry \in RegistryFile
      /\ Carried(s) /\ Reports(s) /\ PendingIsFunction
      /\ registry.revision \in Nat
  BY DEF Inductive, TypeOK, RegistryFile
<1>2. answer'[s] # answer[s]
  BY DEF Acknowledges
<1>3. SessionNext(s)
  BY <1>1, <1>2, OthersUntouched DEF Next, Elsewhere, vars
<1>4. ~(Select(s) \/ Start(s) \/ Resume(s) \/ Started(s) \/ UseBuild(s) \/ UseSelect(s))
  BY <1>2 DEF Select, Start, Resume, Started, UseBuild, UseSelect
<1>5. ~(\/ Die(s) \/ UseRefused(s) \/ UseSwitch(s) \/ UseFailed(s)
        \/ MutateRefused(s) \/ ReplaceFailed(s))
  BY <1>1 DEF TypeOK, Acknowledges, Die, UseRefused, UseSwitch, UseFailed,
              MutateRefused, ReplaceFailed
<1>6. CASE Replace(s)
  <2>1. selected[s] \in Contexts /\ Exists(registry.contexts, selected[s])
    BY <1>1, <1>6 DEF Replace, Reports
  <2>2. /\ executor'[s].revision = registry.revision
        /\ answer'[s].committed = pending[s]
        /\ registry' = registry
    BY <1>1, <1>6 DEF Replace, Built, TypeOK
  <2>3. pending[s] \in Nat /\ pending[s] <= registry.revision
    BY <1>1, <1>6 DEF Replace, Carried
  <2> QED BY <1>1, <2>2, <2>3 DEF Reflects
<1>7. ASSUME NEW r \in AgentRequests(s), MutateStore(s, r)
      PROVE  Reflects(s)
  <2>1. /\ r \in Request /\ Permitted(registry, r)
        /\ registry' = Extended(registry, r)
        /\ registry'.revision = registry.revision + 1
    BY <1>1, <1>7, AgentRequestsType, StoreMutates, MutationGrows DEF MutateStore
  <2>2. ~Touches(s, r) /\ answer'[s].committed = registry'.revision
    BY <1>1, <1>2, <1>7 DEF MutateStore, TypeOK
  <2>3. selected[s] \in Contexts
    BY <1>1, <1>7 DEF MutateStore, Reports
  <2>4. Result(registry, r)[selected[s]] = registry.contexts[selected[s]]
    BY <1>1, <2>1, <2>2, <2>3, UntouchedDocument
  <2>5. ASSUME NEW i \in DOMAIN registry'.history,
               registry'.history[i].revision = registry'.revision
        PROVE  registry'.history[i] = RecordOf(registry, r)
    BY <1>1, <2>1, <2>5, NewestIsRecord
  <2>6. /\ RecordOf(registry, r).before = registry.contexts
        /\ RecordOf(registry, r).after = Result(registry, r)
    BY DEF RecordOf
  <2> QED BY <2>2, <2>4, <2>5, <2>6 DEF Reflects
<1> QED BY <1>3, <1>4, <1>5, <1>6, <1>7 DEF SessionNext

(* When a session's write is acknowledged, its executor reflects the write *)
(* or the write did not concern its context, whatever other processes      *)
(* wrote in between (runtime.py, _move, _share, _unassign and _undo).      *)
THEOREM OwnWritesAreRead == Spec => ReadsItsOwnWrites
<1>1. Inductive /\ [Next]_vars =>
        [\A s \in Sessions : Acknowledges(s) => Reflects(s)]_vars
  BY AcknowledgedReflected
<1>2. Spec => [][\A s \in Sessions : Acknowledges(s) => Reflects(s)]_vars
  BY <1>1, AlwaysInductive, PTL DEF Spec
<1> QED BY <1>2 DEF ReadsItsOwnWrites, Reflects
-----------------------------------------------------------------------------
(* The registry the sessions share.  An agent may guard its write with any *)
(* revision it was told, so every well-formed request may be made.         *)
Whole == INSTANCE AtomicRegistryProofs WITH Requests <- Request

LEMMA SameAssumptions ==
    Whole!DataAssumption /\ Whole!RequestAssumption
<1>1. Whole!DataAssumption
  BY DataAssumption DEF Whole!DataAssumption, Document, Whole!Document
<1>2. Whole!Request = Request
  BY DEF Request, Whole!Request, CreateRequest, Whole!CreateRequest,
         MoveRequest, Whole!MoveRequest, ShareRequest, Whole!ShareRequest,
         UnassignRequest, Whole!UnassignRequest, UndoRequest, Whole!UndoRequest,
         Expected, Whole!Expected, AnyRevision, Whole!AnyRevision
<1> QED BY <1>1, <1>2, SessionAssumption DEF Whole!RequestAssumption

(* Both instances of the mutation are the same step.                       *)
LEMMA SameMutation ==
    ASSUME NEW r \in Request, Store!Mutate(r)
    PROVE  Whole!Mutate(r)
<1>1. Whole!Fresh(registry, r)
  BY DEF Store!Mutate, Store!Fresh, Whole!Fresh, Store!AnyRevision,
         Whole!AnyRevision
<1>2. Whole!Undoable(registry, r) = Store!Undoable(registry, r)
  BY DEF Whole!Undoable, Store!Undoable
<1>3. Whole!Permitted(registry, r)
  BY <1>2 DEF Store!Mutate, Store!Permitted, Whole!Permitted, Store!Exists,
              Whole!Exists, Store!Available, Whole!Available
<1>4. Whole!Result(registry, r) = Store!Result(registry, r)
  BY <1>2 DEF Store!Result, Whole!Result, Store!Created, Whole!Created,
              Store!Moved, Whole!Moved, Store!Shared, Whole!Shared,
              Store!Unassigned, Whole!Unassigned, Store!Undone, Whole!Undone,
              Store!NewDocument, Whole!NewDocument, Store!Hide, Whole!Hide,
              Store!Assign, Whole!Assign
<1>5. Whole!Extended(registry, r) = Store!Extended(registry, r)
  BY <1>4 DEF Store!Extended, Whole!Extended, Store!KeepLast, Whole!KeepLast,
              Store!RecordOf, Whole!RecordOf
<1> QED BY <1>1, <1>3, <1>5 DEF Store!Mutate, Whole!Mutate

(* The sessions' context actions and whatever other processes do, taken    *)
(* together, are a run of the registry whose mutations are indivisible, so *)
(* that what is proved of it holds here: the contexts a session builds its *)
(* executor from never include and exclude a capability, and each mutation *)
(* does what its reply says (runtime.py).                                  *)
THEOREM SessionsShareRegistry ==
    Spec => Whole!Spec /\ []Whole!NoContradiction /\ Whole!ReplyDelivered
<1>1. Init => Whole!Init
  BY DEF Init, Whole!Init, EmptyRegistry, Whole!EmptyRegistry
<1>2. Inductive /\ [Next]_vars => [Whole!Next]_registry
  <2>1. ASSUME Inductive, NEW s \in Sessions, SessionNext(s)
        PROVE  Whole!Next \/ UNCHANGED registry
    <3>1. ASSUME NEW r \in AgentRequests(s), MutateStore(s, r)
          PROVE  Whole!Next
      <4>1. r \in Request /\ Store!Mutate(r)
        BY <2>1, <3>1, AgentRequestsType DEF MutateStore, Inductive
      <4> QED BY <4>1, SameMutation DEF Whole!Next
    <3> QED
      BY <2>1, <3>1 DEF SessionNext, Start, Resume, Started, Select, Die, UseRefused,
         UseBuild, UseSelect, UseSwitch, UseFailed, MutateRefused, Replace,
         ReplaceFailed
  <2>2. Elsewhere => Whole!Next
    BY SameMutation, SessionAssumption DEF Elsewhere, Whole!Next
  <2> QED BY <2>1, <2>2 DEF Next, vars
<1>3. Spec => Whole!Spec
  BY <1>1, <1>2, AlwaysInductive, PTL DEF Spec, Whole!Spec
<1>4. Whole!Spec => []Whole!NoContradiction
  BY Whole!ContextsConsistent, SameAssumptions
<1>5. Whole!Spec => Whole!ReplyDelivered
  BY Whole!RepliesDelivered, SameAssumptions
<1> QED BY <1>3, <1>4, <1>5
=============================================================================
