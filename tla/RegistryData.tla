---------------------------- MODULE RegistryData ----------------------------
(***************************************************************************)
(* The context registry as data: what a registry file holds, when a        *)
(* capability is available in a context, and what one mutation request     *)
(* does to the document.  Translated from contexts.py; no state is         *)
(* declared here.  AtomicRegistry, Registry and ContextRuntime build on    *)
(* it.                                                                     *)
(*                                                                         *)
(* A change identifier (96 random bits in the code) is represented by the  *)
(* revision the change produced.  Configuration paths, environment files   *)
(* and time stamps are left out: no operation here depends on them.        *)
(***************************************************************************)
EXTENDS Integers, Sequences

CONSTANTS Contexts,     \* context identifiers
          Caps,         \* capability identifiers
          Sources,      \* skill roots and MCP servers capabilities come from
          SourceOf,     \* the source of each capability
          Absent,       \* what looking up an unknown context gives
          MaxHistory    \* MAX_HISTORY, 128 in the code

(* One context document.  A context is never stored as Absent.             *)
Document == [include_sources : SUBSET Sources,
             include_capabilities : SUBSET Caps,
             exclude_capabilities : SUBSET Caps]

ASSUME DataAssumption ==
    /\ SourceOf \in [Caps -> Sources]
    /\ Absent \notin Document
    /\ MaxHistory \in Nat \ {0}

ContextMap == [Contexts -> Document \cup {Absent}]

Operations == {"create", "move", "share", "unassign", "undo"}

(* One entry of the registry's history.                                    *)
Change == [operation : Operations, before : ContextMap, after : ContextMap,
           base_revision : Nat, revision : Nat]

(* What _validate_history accepts, beyond the shape of the entries.        *)
ValidHistory(history) ==
    /\ Len(history) <= MaxHistory
    /\ \A i \in 1 .. Len(history) :
          history[i].revision > history[i].base_revision
    /\ \A i, j \in 1 .. Len(history) :
          i # j => history[i].revision # history[j].revision

(* What _validate_registry accepts: no other file can be loaded again.     *)
RegistryFile ==
    {file \in [revision : Nat, contexts : ContextMap, history : Seq(Change)] :
        ValidHistory(file.history)}

EmptyRegistry == [revision |-> 0,
                  contexts |-> [c \in Contexts |-> Absent],
                  history |-> << >>]

-----------------------------------------------------------------------------
(* Availability.                                                           *)

Available(view, cap) ==
    /\ cap \notin view.exclude_capabilities
    /\ \/ cap \in view.include_capabilities
       \/ SourceOf[cap] \in view.include_sources
       \/ view.include_sources = {} /\ view.include_capabilities = {}

NewDocument(sources) == [include_sources |-> sources,
                         include_capabilities |-> {},
                         exclude_capabilities |-> {}]

AssignKeepingExclusion(view, cap) ==
    [view EXCEPT !.include_capabilities = @ \cup {cap}]

AssignClearingExclusions(view, cap) ==
    [view EXCEPT !.include_capabilities = @ \cup {cap}, !.exclude_capabilities = {}]

(* What move does to its target and share to its context.                  *)
Assign(view, cap) == [view EXCEPT !.include_capabilities = @ \cup {cap},
                                  !.exclude_capabilities = @ \ {cap}]

HideWithoutExclusion(view, cap) ==
    [view EXCEPT !.include_capabilities = @ \ {cap}]

(* What move does to its source and unassign to its context.               *)
Hide(view, cap) == [view EXCEPT !.include_capabilities = @ \ {cap},
                                !.exclude_capabilities = @ \cup {cap}]

-----------------------------------------------------------------------------
(* Mutation requests.  expected is AnyRevision when the caller gives no    *)
(* --expected-revision; create and undo have no such parameter.            *)

AnyRevision == -1
Expected == Nat \cup {AnyRevision}

CreateRequest == [operation : {"create"}, context : Contexts,
                  sources : SUBSET Sources, expected : {AnyRevision}]
MoveRequest == {r \in [operation : {"move"}, cap : Caps, source : Contexts,
                       target : Contexts, expected : Expected] :
                    r.source # r.target}
ShareRequest == [operation : {"share"}, cap : Caps, target : Contexts,
                 expected : Expected]
UnassignRequest == [operation : {"unassign"}, cap : Caps, context : Contexts,
                    expected : Expected]
UndoRequest == [operation : {"undo"}, change : Nat, expected : {AnyRevision}]

Request == CreateRequest \cup MoveRequest \cup ShareRequest
               \cup UnassignRequest \cup UndoRequest

Exists(contexts, c) == contexts[c] # Absent

Fresh(file, r) == r.expected \in {AnyRevision, file.revision}

(* The entries of the history an undo request may revert.                  *)
UndoableAnyState(file, r) ==
    {i \in DOMAIN file.history :
        /\ file.history[i].revision = r.change
        /\ file.history[i].operation # "undo"}

Undoable(file, r) ==
    {i \in DOMAIN file.history :
        /\ file.history[i].revision = r.change
        /\ file.history[i].operation # "undo"
        /\ file.history[i].after = file.contexts}

(* The checks the change function makes before it succeeds.                *)
Permitted(file, r) ==
    \/ /\ r.operation = "create"
       /\ ~Exists(file.contexts, r.context)
    \/ /\ r.operation = "move"
       /\ Exists(file.contexts, r.source)
       /\ Exists(file.contexts, r.target)
       /\ Available(file.contexts[r.source], r.cap)
    \/ /\ r.operation = "share"
       /\ Exists(file.contexts, r.target)
    \/ /\ r.operation = "unassign"
       /\ Exists(file.contexts, r.context)
       /\ Available(file.contexts[r.context], r.cap)
    \/ /\ r.operation = "undo"
       /\ Undoable(file, r) # {}

(* The contexts after a permitted request of each kind.                    *)
Created(file, r) ==
    [file.contexts EXCEPT ![r.context] = NewDocument(r.sources)]

Moved(file, r) == [file.contexts EXCEPT ![r.source] = Hide(@, r.cap),
                                        ![r.target] = Assign(@, r.cap)]

Shared(file, r) == [file.contexts EXCEPT ![r.target] = Assign(@, r.cap)]

Unassigned(file, r) == [file.contexts EXCEPT ![r.context] = Hide(@, r.cap)]

Undone(file, r) == file.history[CHOOSE i \in Undoable(file, r) : TRUE].before

Result(file, r) ==
    IF r.operation = "create" THEN Created(file, r)
    ELSE IF r.operation = "move" THEN Moved(file, r)
    ELSE IF r.operation = "share" THEN Shared(file, r)
    ELSE IF r.operation = "unassign" THEN Unassigned(file, r)
    ELSE Undone(file, r)

KeepAll(history) == history

(* history[-MAX_HISTORY:]                                                  *)
KeepLast(history) ==
    IF Len(history) > MaxHistory
    THEN SubSeq(history, Len(history) - MaxHistory + 1, Len(history))
    ELSE history

Newest(history) == history[Len(history)]

RecordOf(file, r) == [operation |-> r.operation,
                      before |-> file.contexts,
                      after |-> Result(file, r),
                      base_revision |-> file.revision,
                      revision |-> file.revision + 1]

(* The document mutate writes for a permitted request: what an in-memory   *)
(* copy that is aliased, not deep-copied, would record instead ...         *)
ExtendedAliased(file, r) ==
    [revision |-> file.revision + 1,
     contexts |-> Result(file, r),
     history |-> KeepLast(Append(file.history,
                     [RecordOf(file, r) EXCEPT !.before = Result(file, r)]))]

(* ... and what the code writes.                                           *)
Extended(file, r) ==
    [revision |-> file.revision + 1,
     contexts |-> Result(file, r),
     history |-> KeepLast(Append(file.history, RecordOf(file, r)))]

-----------------------------------------------------------------------------
(* What a consistent registry file looks like.                             *)

(* Each change starts from the contexts the one before it left.            *)
Linked(history) ==
    \A i \in 1 .. Len(history) - 1 : history[i].after = history[i + 1].before

(* The history holds the newest changes, one for each revision.            *)
Numbered(file) ==
    \A i \in 1 .. Len(file.history) :
        /\ file.history[i].revision = file.revision - Len(file.history) + i
        /\ file.history[i].base_revision = file.history[i].revision - 1

(* The last change led to the contexts in force.                           *)
EndsAtContexts(file) ==
    file.history # << >> => Newest(file.history).after = file.contexts

(* Nothing but the oldest changes is ever dropped.                         *)
Complete(file) ==
    Len(file.history) = IF file.revision < MaxHistory
                        THEN file.revision ELSE MaxHistory

ChainedFile(file) ==
    /\ Linked(file.history)
    /\ Numbered(file)
    /\ EndsAtContexts(file)
    /\ Complete(file)

(* No context both includes and excludes one capability.                   *)
Consistent(contexts) ==
    \A c \in Contexts :
        Exists(contexts, c) =>
            contexts[c].include_capabilities
                \cap contexts[c].exclude_capabilities = {}
=============================================================================
