--------------------------- MODULE ContextRuntime ---------------------------
(***************************************************************************)
(* Router sessions on a shared registry (runtime.py, ContextRuntime).  A   *)
(* session holds an executor built from one reading of the registry, a     *)
(* selected context and the registry revision it reports.  Its context     *)
(* actions run under a reentrant lock, but each of them reads or mutates   *)
(* the registry more than once, and other processes mutate it in between.  *)
(* A mutation of the registry is one step here: Registry implements it.    *)
(***************************************************************************)
EXTENDS RegistryData

CONSTANTS Sessions,     \* one router process for each session identifier
          Nothing,      \* no session file, no executor, no request
          Requests,     \* the mutations clients make
          MaxRevision   \* bound: no mutation is made after this revision

ASSUME SessionAssumption ==
    /\ Requests \subseteq Request
    /\ MaxRevision \in Nat

VARIABLES registry,     \* the content of the registry file
          sessions,     \* the session files
          phase,        \* where the router of each session is
          selected,     \* its context, self.context
          reported,     \* its registry_revision, self.registry_revision
          executor,     \* its executor: context, registry revision and view
          pending,      \* the context, executor or revision a step carries over
          answer,       \* what the last context action returned
          overruled     \* history: sessions selected anew on the command line

memory == <<selected, reported, executor>>
vars == <<registry, sessions, phase, selected, reported, executor, pending, answer,
          overruled>>

Store == INSTANCE AtomicRegistry

Selection == [context : Contexts, registry_revision : Nat]
Executor == [context : Contexts, revision : Nat, view : Document]
Answer == [status : {"ok", "error"}, committed : Nat]
Phases == {"down", "resuming", "starting", "idle", "selecting", "writing",
           "replacing"}

TypeOK ==
    /\ registry \in RegistryFile
    /\ sessions \in [Sessions -> Selection \cup {Nothing}]
    /\ phase \in [Sessions -> Phases]
    /\ selected \in [Sessions -> Contexts \cup {Nothing}]
    /\ reported \in [Sessions -> Nat]
    /\ executor \in [Sessions -> Executor \cup {Nothing}]
    /\ answer \in [Sessions -> Answer \cup {Nothing}]
    /\ overruled \subseteq Sessions

Init ==
    /\ registry = EmptyRegistry
    /\ sessions = [s \in Sessions |-> Nothing]
    /\ phase = [s \in Sessions |-> "down"]
    /\ selected = [s \in Sessions |-> Nothing]
    /\ reported = [s \in Sessions |-> 0]
    /\ executor = [s \in Sessions |-> Nothing]
    /\ pending = [s \in Sessions |-> Nothing]
    /\ answer = [s \in Sessions |-> Nothing]
    /\ overruled = {}

-----------------------------------------------------------------------------
(* The executor _build makes from the registry as it is now.               *)
Built(c) == [context |-> c, revision |-> registry.revision,
             view |-> registry.contexts[c]]

Goto(s, p) == phase' = [phase EXCEPT ![s] = p]

(* The action of session s returns; committed is the revision of the       *)
(* mutation it made, 0 when it made none.                                  *)
Return(s, status, committed) ==
    /\ Goto(s, "idle")
    /\ pending' = [pending EXCEPT ![s] = Nothing]
    /\ answer' = [answer EXCEPT ![s] = [status |-> status, committed |-> committed]]

-----------------------------------------------------------------------------
(* Other processes.                                                        *)

(* Any other process mutates the registry.                                 *)
Elsewhere ==
    /\ \E r \in Requests : Store!Mutate(r)
    /\ UNCHANGED <<sessions, phase, memory, pending, answer, overruled>>

(* context use, on the command line: before the session's router starts,   *)
(* which needs it, or at any time later, which the router does not notice. *)
Select(s) ==
    /\ \E c \in Contexts :
          /\ Exists(registry.contexts, c)
          /\ sessions' = [sessions EXCEPT ![s] =
                [context |-> c, registry_revision |-> registry.revision]]
    /\ overruled' = overruled \cup {s}
    /\ UNCHANGED <<registry, phase, memory, pending, answer>>

-----------------------------------------------------------------------------
(* A router starts and dies.                                               *)

(* __init__ reads the session file,                                        *)
Start(s) ==
    /\ phase[s] = "down"
    /\ sessions[s] # Nothing
    /\ pending' = [pending EXCEPT ![s] = sessions[s].context]
    /\ Goto(s, "resuming")
    /\ overruled' = overruled \ {s}
    /\ UNCHANGED <<registry, sessions, memory, answer>>

(* then the registry, which must still have that context,                  *)
Resume(s) ==
    /\ phase[s] = "resuming"
    /\ Exists(registry.contexts, pending[s])
    /\ selected' = [selected EXCEPT ![s] = pending[s]]
    /\ reported' = [reported EXCEPT ![s] = registry.revision]
    /\ pending' = [pending EXCEPT ![s] = Nothing]
    /\ Goto(s, "starting")
    /\ UNCHANGED <<registry, sessions, executor, answer, overruled>>

(* and builds the first executor from a second reading.                    *)
Started(s) ==
    /\ phase[s] = "starting"
    /\ Exists(registry.contexts, selected[s])
    /\ executor' = [executor EXCEPT ![s] = Built(selected[s])]
    /\ reported' = [reported EXCEPT ![s] = registry.revision]
    /\ Goto(s, "idle")
    /\ UNCHANGED <<registry, sessions, selected, pending, answer, overruled>>

(* The process is killed, or fails to start; its memory is gone.           *)
Die(s) ==
    /\ phase[s] # "down"
    /\ Goto(s, "down")
    /\ selected' = [selected EXCEPT ![s] = Nothing]
    /\ reported' = [reported EXCEPT ![s] = 0]
    /\ executor' = [executor EXCEPT ![s] = Nothing]
    /\ pending' = [pending EXCEPT ![s] = Nothing]
    /\ answer' = [answer EXCEPT ![s] = Nothing]
    /\ UNCHANGED <<registry, sessions, overruled>>

-----------------------------------------------------------------------------
(* context_use: _build, then select_context, then the switch.              *)

(* The context does not exist, or its configuration cannot be loaded.      *)
UseRefused(s) ==
    /\ phase[s] = "idle"
    /\ Return(s, "error", 0)
    /\ UNCHANGED <<registry, sessions, memory, overruled>>

UseBuildEarlySwitch(s) ==
    /\ phase[s] = "idle"
    /\ \E c \in Contexts :
          /\ Exists(registry.contexts, c)
          /\ pending' = [pending EXCEPT ![s] = Built(c)]
          /\ selected' = [selected EXCEPT ![s] = c]
    /\ reported' = [reported EXCEPT ![s] = registry.revision]
    /\ Goto(s, "selecting")
    /\ UNCHANGED <<registry, sessions, executor, answer, overruled>>

(* _build makes the replacement and already sets registry_revision.        *)
UseBuild(s) ==
    /\ phase[s] = "idle"
    /\ \E c \in Contexts :
          /\ Exists(registry.contexts, c)
          /\ pending' = [pending EXCEPT ![s] = Built(c)]
    /\ reported' = [reported EXCEPT ![s] = registry.revision]
    /\ Goto(s, "selecting")
    /\ UNCHANGED <<registry, sessions, selected, executor, answer, overruled>>

(* select_context reads the registry again.                                *)
UseSelect(s) ==
    /\ phase[s] = "selecting"
    /\ Exists(registry.contexts, pending[s].context)
    /\ pending' = [pending EXCEPT ![s] =
                    [replacement |-> @, registry_revision |-> registry.revision]]
    /\ Goto(s, "writing")
    /\ UNCHANGED <<registry, sessions, memory, answer, overruled>>

(* The session file is written and the session switches.                   *)
UseSwitch(s) ==
    /\ phase[s] = "writing"
    /\ sessions' = [sessions EXCEPT ![s] =
          [context |-> pending[s].replacement.context,
           registry_revision |-> pending[s].registry_revision]]
    /\ executor' = [executor EXCEPT ![s] = pending[s].replacement]
    /\ selected' = [selected EXCEPT ![s] = pending[s].replacement.context]
    /\ reported' = [reported EXCEPT ![s] = pending[s].registry_revision]
    /\ overruled' = overruled \ {s}
    /\ Return(s, "ok", 0)
    /\ UNCHANGED registry

(* The context is gone by the second reading, or the session file cannot   *)
(* be written.                                                             *)
UseFailed(s) ==
    /\ \/ phase[s] = "selecting" /\ ~Exists(registry.contexts, pending[s].context)
       \/ phase[s] = "writing"
    /\ Return(s, "error", 0)
    /\ UNCHANGED <<registry, sessions, memory, overruled>>

-----------------------------------------------------------------------------
(* context_move, context_share, context_unassign and context_undo.         *)

(* An agent guards its write with the revision it was told, or does not.   *)
AgentRequests(s) ==
    {r \in Requests : r.operation = "undo"}
        \cup {[r EXCEPT !.expected = e] :
                r \in {q \in Requests :
                          q.operation \in {"move", "share", "unassign"}},
                e \in {AnyRevision, reported[s]}}

TouchesSourceOnly(s, r) ==
    \/ r.operation = "move" /\ selected[s] = r.source
    \/ r.operation = "share" /\ selected[s] = r.target
    \/ r.operation = "unassign" /\ selected[s] = r.context
    \/ r.operation = "undo"

(* Whether the runtime rebuilds its executor after the mutation.           *)
Touches(s, r) ==
    \/ r.operation = "move" /\ selected[s] \in {r.source, r.target}
    \/ r.operation = "share" /\ selected[s] = r.target
    \/ r.operation = "unassign" /\ selected[s] = r.context
    \/ r.operation = "undo"

(* The store refuses the mutation.                                         *)
MutateRefused(s) ==
    /\ phase[s] = "idle"
    /\ Return(s, "error", 0)
    /\ UNCHANGED <<registry, sessions, memory, overruled>>

(* The mutation is committed; the answer waits if the executor must be     *)
(* rebuilt.                                                                *)
MutateStore(s, r) ==
    /\ phase[s] = "idle"
    /\ Store!Mutate(r)
    /\ IF Touches(s, r)
       THEN /\ Goto(s, "replacing")
            /\ pending' = [pending EXCEPT ![s] = registry'.revision]
            /\ UNCHANGED answer
       ELSE Return(s, "ok", registry'.revision)
    /\ UNCHANGED <<sessions, memory, overruled>>

ReplaceKeepingRevision(s) ==
    /\ phase[s] = "replacing"
    /\ Exists(registry.contexts, selected[s])
    /\ executor' = [executor EXCEPT ![s] = Built(selected[s])]
    /\ Return(s, "ok", pending[s])
    /\ UNCHANGED <<registry, sessions, selected, reported, overruled>>

ReplaceKeepingFilter(s) ==
    /\ phase[s] = "replacing"
    /\ Exists(registry.contexts, selected[s])
    /\ executor' = [executor EXCEPT ![s].revision = registry.revision]
    /\ reported' = [reported EXCEPT ![s] = registry.revision]
    /\ Return(s, "ok", pending[s])
    /\ UNCHANGED <<registry, sessions, selected, overruled>>

(* _replace: the executor is rebuilt from another reading of the registry. *)
Replace(s) ==
    /\ phase[s] = "replacing"
    /\ Exists(registry.contexts, selected[s])
    /\ executor' = [executor EXCEPT ![s] = Built(selected[s])]
    /\ reported' = [reported EXCEPT ![s] = registry.revision]
    /\ Return(s, "ok", pending[s])
    /\ UNCHANGED <<registry, sessions, selected, overruled>>

(* The context is gone, or its configuration, environment or catalog       *)
(* cannot be loaded: the exception is the answer of the committed write.   *)
ReplaceFailed(s) ==
    /\ phase[s] = "replacing"
    /\ Return(s, "error", pending[s])
    /\ UNCHANGED <<registry, sessions, memory, overruled>>

-----------------------------------------------------------------------------
SessionNext(s) ==
    \/ Select(s) \/ Start(s) \/ Resume(s) \/ Started(s) \/ Die(s)
    \/ UseRefused(s) \/ UseBuild(s) \/ UseSelect(s) \/ UseSwitch(s) \/ UseFailed(s)
    \/ MutateRefused(s) \/ \E r \in AgentRequests(s) : MutateStore(s, r)
    \/ Replace(s) \/ ReplaceFailed(s)

Next == Elsewhere \/ \E s \in Sessions : SessionNext(s)

Spec == Init /\ [][Next]_vars

-----------------------------------------------------------------------------
Ready(s) == phase[s] = "idle"

(* Between actions the executor in force, which filters capabilities and   *)
(* carries the environment overlay, is the one of the context the session  *)
(* reports, and of its session file unless the command line has selected   *)
(* another one since, so a restart resumes the same context; after failed  *)
(* switches too (runtime.py, _use).                                        *)
OneContextPerSession ==
    \A s \in Sessions : Ready(s) =>
        /\ executor[s].context = selected[s]
        /\ s \notin overruled => sessions[s].context = selected[s]

(* An executor filters with the context document of one revision, never    *)
(* with a mixture of two readings (runtime.py, _build).                    *)
ExecutorIsSnapshot ==
    \A s \in Sessions : executor[s] # Nothing =>
        \A i \in DOMAIN registry.history :
            registry.history[i].revision = executor[s].revision =>
                registry.history[i].after[executor[s].context] = executor[s].view

(* The revision a session reports is never older than its executor, so a   *)
(* write guarded with it is not refused because of the session's own       *)
(* earlier writes (runtime.py, _build and _use).                           *)
ReportedNotOlder ==
    \A s \in Sessions : Ready(s) =>
        executor[s].revision <= reported[s] /\ reported[s] <= registry.revision

(* A session's write is acknowledged.                                      *)
Acknowledges(s) ==
    /\ phase[s] # "down" /\ answer'[s] # answer[s]
    /\ phase'[s] = "idle" /\ answer'[s].status = "ok" /\ answer'[s].committed > 0

(* When a session's write is acknowledged, its executor reflects it, or    *)
(* the write did not concern its context (runtime.py, _move, _share,       *)
(* _unassign and _undo).                                                   *)
ReadsItsOwnWrites ==
    [][\A s \in Sessions : Acknowledges(s) =>
          \A i \in DOMAIN registry'.history :
              LET change == registry'.history[i]
              IN  change.revision = answer'[s].committed =>
                      \/ executor'[s].revision >= change.revision
                      \/ change.before[selected[s]] = change.after[selected[s]]]_vars

(* docs/contexts.md: "Each write returns a registry revision and change    *)
(* ID."  A context action that committed a change does not return an error *)
(* (runtime.py, _move, _share, _unassign and _undo).                       *)
EachWriteReturnsItsRevision ==
    \A s \in Sessions :
        Ready(s) /\ answer[s] # Nothing /\ answer[s].committed > 0 =>
            answer[s].status = "ok"

(* docs/contexts.md: "Use --expected-revision when an agent must reject a  *)
(* concurrent stale write."  A write guarded with the revision the session *)
(* reported is not made while its executor shows an outdated context.      *)
GuardedWritesSeeTheirContext ==
    [][\A s \in Sessions : \A r \in AgentRequests(s) :
          MutateStore(s, r) /\ r.expected = reported[s] =>
              executor[s].view = registry.contexts[selected[s]]]_vars
=============================================================================
