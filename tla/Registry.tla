------------------------------ MODULE Registry ------------------------------
(***************************************************************************)
(* The registry file as processes share it: command-line invocations and   *)
(* router sessions that serialise their mutations with flock on a lock     *)
(* file, write the registry with an atomic rename, and may be killed       *)
(* between any two steps (contexts.py, RegistryStore; util.py,             *)
(* atomic_write).  The kernel drops a dead process's lock.  Selecting a    *)
(* context reads the registry under the shared lock and writes the session *)
(* file after releasing it (contexts.py, select_context).                  *)
(***************************************************************************)
EXTENDS RegistryData

CONSTANTS Processes,    \* command-line invocations and routers
          Sessions,     \* session identifiers
          Nothing,      \* no lock holder, no session file, no local value
          Requests,     \* the mutation requests clients make
          MaxRevision   \* bound: no mutation is made after this revision

ASSUME ProcessAssumption ==
    /\ Requests \subseteq Request
    /\ MaxRevision \in Nat
    /\ Nothing \notin Processes

VARIABLES registry,     \* the content of the registry file
          lock,         \* the holder of LOCK_EX on the lock file
          pc,           \* where each process is
          request,      \* the mutation it makes
          copy,         \* the registry it has in memory
          target,       \* the context and session of its select_context
          sessions,     \* the session files
          acknowledged  \* history variable: changes a client was told of

vars == <<registry, lock, pc, request, copy, target, sessions, acknowledged>>

Selection == [context : Contexts, registry_revision : Nat]
SelectTarget == [context : Contexts, session : Sessions]

TypeOK ==
    /\ registry \in RegistryFile
    /\ lock \in Processes \cup {Nothing}
    /\ pc \in [Processes -> {"idle", "waiting", "locked", "written", "selecting"}]
    /\ request \in [Processes -> Requests \cup {Nothing}]
    /\ copy \in [Processes -> RegistryFile \cup {Nothing}]
    /\ target \in [Processes -> SelectTarget \cup {Nothing}]
    /\ sessions \in [Sessions -> Selection \cup {Nothing}]
    /\ acknowledged \subseteq Change

Init ==
    /\ registry = EmptyRegistry
    /\ lock = Nothing
    /\ pc = [p \in Processes |-> "idle"]
    /\ request = [p \in Processes |-> Nothing]
    /\ copy = [p \in Processes |-> Nothing]
    /\ target = [p \in Processes |-> Nothing]
    /\ sessions = [s \in Sessions |-> Nothing]
    /\ acknowledged = {}

-----------------------------------------------------------------------------
(* Process p goes back to idle and its locals are forgotten.               *)
Forget(p) ==
    /\ pc' = [pc EXCEPT ![p] = "idle"]
    /\ request' = [request EXCEPT ![p] = Nothing]
    /\ copy' = [copy EXCEPT ![p] = Nothing]
    /\ target' = [target EXCEPT ![p] = Nothing]

Release(p) == lock' = IF lock = p THEN Nothing ELSE lock

(* A client asks for a mutation; the process waits for LOCK_EX.            *)
Begin(p) ==
    /\ pc[p] = "idle"
    /\ \E r \in Requests : request' = [request EXCEPT ![p] = r]
    /\ pc' = [pc EXCEPT ![p] = "waiting"]
    /\ UNCHANGED <<registry, lock, copy, target, sessions, acknowledged>>

AcquireUnlocked(p) ==
    /\ pc[p] = "waiting"
    /\ pc' = [pc EXCEPT ![p] = "locked"]
    /\ copy' = [copy EXCEPT ![p] = registry]
    /\ lock' = p
    /\ UNCHANGED <<registry, request, target, sessions, acknowledged>>

(* flock is granted and the registry is loaded.                            *)
Acquire(p) ==
    /\ pc[p] = "waiting"
    /\ lock = Nothing
    /\ lock' = p
    /\ pc' = [pc EXCEPT ![p] = "locked"]
    /\ copy' = [copy EXCEPT ![p] = registry]
    /\ UNCHANGED <<registry, request, target, sessions, acknowledged>>

(* The mutation fails before the rename: the expected revision is stale,   *)
(* the change is not permitted, the context's catalog cannot be read or    *)
(* lacks the capability, or the temporary file cannot be written.          *)
Abort(p) ==
    /\ pc[p] = "locked"
    /\ Release(p)
    /\ Forget(p)
    /\ UNCHANGED <<registry, sessions, acknowledged>>

CommitUnguarded(p) ==
    /\ pc[p] = "locked"
    /\ copy[p].revision < MaxRevision
    /\ Permitted(copy[p], request[p])
    /\ registry' = Extended(copy[p], request[p])
    /\ copy' = [copy EXCEPT ![p] = registry']
    /\ pc' = [pc EXCEPT ![p] = "written"]
    /\ UNCHANGED <<lock, request, target, sessions, acknowledged>>

(* The copy passes the checks, is changed and replaces the file.           *)
Commit(p) ==
    /\ pc[p] = "locked"
    /\ copy[p].revision < MaxRevision
    /\ Fresh(copy[p], request[p])
    /\ Permitted(copy[p], request[p])
    /\ registry' = Extended(copy[p], request[p])
    /\ copy' = [copy EXCEPT ![p] = registry']
    /\ pc' = [pc EXCEPT ![p] = "written"]
    /\ UNCHANGED <<lock, request, target, sessions, acknowledged>>

(* The lock is released and the client told the revision and change id.    *)
Reply(p) ==
    /\ pc[p] = "written"
    /\ acknowledged' = acknowledged \cup {Newest(copy[p].history)}
    /\ Release(p)
    /\ Forget(p)
    /\ UNCHANGED <<registry, sessions>>

(* select_context reads the registry under LOCK_SH ...                     *)
SelectRead(p) ==
    /\ pc[p] = "idle"
    /\ lock = Nothing
    /\ \E c \in Contexts, s \in Sessions :
          /\ Exists(registry.contexts, c)
          /\ target' = [target EXCEPT ![p] = [context |-> c, session |-> s]]
    /\ copy' = [copy EXCEPT ![p] = registry]
    /\ pc' = [pc EXCEPT ![p] = "selecting"]
    /\ UNCHANGED <<registry, lock, request, sessions, acknowledged>>

SelectWriteRereading(p) ==
    /\ pc[p] = "selecting"
    /\ sessions' = [sessions EXCEPT ![target[p].session] =
                      [context |-> target[p].context,
                       registry_revision |-> registry.revision]]
    /\ Forget(p)
    /\ UNCHANGED <<registry, lock, acknowledged>>

(* ... and writes the session file when the lock is gone.                  *)
SelectWrite(p) ==
    /\ pc[p] = "selecting"
    /\ sessions' = [sessions EXCEPT ![target[p].session] =
                      [context |-> target[p].context,
                       registry_revision |-> copy[p].revision]]
    /\ Forget(p)
    /\ UNCHANGED <<registry, lock, acknowledged>>

CrashKeepingLock(p) ==
    /\ pc[p] # "idle"
    /\ Forget(p)
    /\ UNCHANGED <<registry, lock, sessions, acknowledged>>

(* The process is killed: its lock goes with it, the file stays as it is.  *)
Crash(p) ==
    /\ pc[p] # "idle"
    /\ Release(p)
    /\ Forget(p)
    /\ UNCHANGED <<registry, sessions, acknowledged>>

Next ==
    \E p \in Processes :
        \/ Begin(p) \/ Acquire(p) \/ Abort(p) \/ Commit(p) \/ Reply(p)
        \/ SelectRead(p) \/ SelectWrite(p)
        \/ Crash(p)

Spec == Init /\ [][Next]_vars

(* Between flock and its release mutate only computes and does file I/O:   *)
(* a process that holds the lock goes on, or dies and loses the lock.      *)
Fairness == \A p \in Processes : WF_vars(Abort(p) \/ Commit(p) \/ Reply(p))

FairSpec == Spec /\ Fairness

-----------------------------------------------------------------------------
(* The lock file and the rename make every mutation one indivisible step   *)
(* on the newest registry, whoever crashes.                                *)
Atomic == INSTANCE AtomicRegistry
ImplementsAtomicRegistry == Atomic!Spec

(* Only the holder of the lock is between load and release, and the copy   *)
(* it works on is the file (contexts.py, mutate).                          *)
LockProtects ==
    \A p \in Processes :
        pc[p] \in {"locked", "written"} => lock = p /\ copy[p] = registry

(* A change a client was told of is in the file's history until MaxHistory *)
(* newer changes have pushed it out; no concurrent or crashed mutation     *)
(* takes it away (contexts.py, mutate).                                    *)
AcknowledgedSurvive ==
    \A change \in acknowledged :
        /\ change.revision <= registry.revision
        /\ registry.revision - change.revision < Len(registry.history) =>
              \E i \in DOMAIN registry.history : registry.history[i] = change

(* A mutation with an expected revision takes effect on that revision of   *)
(* the file only, not on one it had when the request was made              *)
(* (docs/contexts.md: reject a concurrent stale write).                    *)
GuardedCommitsAreFresh ==
    [][\A p \in Processes :
          pc[p] = "locked" /\ pc'[p] = "written" => Fresh(registry, request[p])]_vars

(* A session file names a context that existed at the revision it records; *)
(* if the context is gone by now, an undo of its creation came after       *)
(* (contexts.py, select_context and current_context).                      *)
SelectionExplained ==
    \A s \in Sessions :
        LET chosen == sessions[s]
            history == registry.history
        IN  chosen # Nothing =>
              /\ \A i \in DOMAIN history :
                    history[i].revision = chosen.registry_revision =>
                        Exists(history[i].after, chosen.context)
              /\ /\ ~Exists(registry.contexts, chosen.context)
                 /\ chosen.registry_revision >= registry.revision - Len(history)
                 => \E i \in DOMAIN history :
                       /\ history[i].operation = "undo"
                       /\ history[i].revision > chosen.registry_revision

(* A crash never leaves the registry locked for good (contexts.py, mutate: *)
(* flock instead of a lock file that must be removed).                     *)
LockReleased == \A p \in Processes : lock = p ~> lock # p
=============================================================================
