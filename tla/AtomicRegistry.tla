--------------------------- MODULE AtomicRegistry ---------------------------
(***************************************************************************)
(* What the context registry promises its clients: every mutation is one   *)
(* indivisible step that sees the newest registry.  The lock file, the     *)
(* processes and their crashes are in Registry, which implements this      *)
(* module.                                                                 *)
(***************************************************************************)
EXTENDS RegistryData

CONSTANTS Requests,     \* the mutation requests clients make
          MaxRevision   \* bound: no mutation is made after this revision

ASSUME RequestAssumption ==
    /\ Requests \subseteq Request
    /\ MaxRevision \in Nat

VARIABLE registry       \* the content of the registry file

(* The file on disk always has the shape the next load accepts, so that no *)
(* mutation locks every later command out (_validate_registry).            *)
TypeOK == registry \in RegistryFile

Init == registry = EmptyRegistry

Mutate(r) ==
    /\ registry.revision < MaxRevision
    /\ Fresh(registry, r)
    /\ Permitted(registry, r)
    /\ registry' = Extended(registry, r)

Next == \E r \in Requests : Mutate(r)

Spec == Init /\ [][Next]_registry

-----------------------------------------------------------------------------
(* The history explains the registry: each change starts from the contexts *)
(* and the revision the one before it left, the last one leads to the      *)
(* contexts in force, and truncation drops only the oldest changes.  undo  *)
(* compares and restores these snapshots (contexts.py, mutate and          *)
(* undo_change).                                                           *)
HistoryChained == ChainedFile(registry)

(* No context, now or in a snapshot an undo can bring back, both includes  *)
(* and excludes a capability, so that context explain's precedence never   *)
(* decides between two assignments (contexts.py, move, share, unassign).   *)
NoContradiction ==
    /\ Consistent(registry.contexts)
    /\ \A i \in DOMAIN registry.history :
          /\ Consistent(registry.history[i].before)
          /\ Consistent(registry.history[i].after)

(* A request does what its reply says: after a move the capability is      *)
(* available in the target only, after a share in the context, after an    *)
(* unassign no longer (contexts.py, the status of each result).            *)
Delivered(r, contexts) ==
    /\ r.operation = "move" =>
          /\ Available(contexts[r.target], r.cap)
          /\ ~Available(contexts[r.source], r.cap)
    /\ r.operation = "share" => Available(contexts[r.target], r.cap)
    /\ r.operation = "unassign" => ~Available(contexts[r.context], r.cap)
    /\ r.operation = "create" => Exists(contexts, r.context)

ReplyDelivered ==
    [][\A r \in Requests : Mutate(r) => Delivered(r, registry'.contexts)]_registry

(* An undo takes back the change it names and nothing else: as the rest of *)
(* the history tells it, the contexts it replaces are those in force right *)
(* after that change, and the contexts it installs those in force right    *)
(* before (contexts.py, undo_change).                                      *)
InForceAt(history, revision) ==
    {history[i].after : i \in {j \in DOMAIN history : history[j].revision = revision}}
        \cup {history[i].before :
                i \in {j \in DOMAIN history : history[j].base_revision = revision}}

UndoRevertsOneChange ==
    [][\A r \in Requests :
          r.operation = "undo" /\ Mutate(r) =>
              /\ InForceAt(registry.history, r.change) = {registry.contexts}
              /\ InForceAt(registry.history, r.change - 1)
                    = {registry'.contexts}]_registry

AvailabilityKept(c, cap) ==
    Available(registry'.contexts[c], cap) = Available(registry.contexts[c], cap)

Reassigns(r) == Mutate(r) /\ r.operation \in {"move", "share", "unassign"}

(* In a context that includes at least one source, moving, sharing or      *)
(* hiding one capability leaves every other capability as available as it  *)
(* was (contexts.py, explain_availability).                                *)
SourcedContextsKeepOthers ==
    [][\A r \in Requests : Reassigns(r) =>
          \A c \in Contexts, cap \in Caps \ {r.cap} :
              Exists(registry.contexts, c)
                /\ registry.contexts[c].include_sources # {} =>
                  AvailabilityKept(c, cap)]_registry

(* docs/contexts.md says "Move one capability", "Share it with another     *)
(* context" and "Hide it in one context": no other capability changes its  *)
(* availability in any context.                                            *)
OnlyNamedCapabilityChanges ==
    [][\A r \in Requests : Reassigns(r) =>
          \A c \in Contexts, cap \in Caps \ {r.cap} :
              Exists(registry.contexts, c) => AvailabilityKept(c, cap)]_registry
=============================================================================
