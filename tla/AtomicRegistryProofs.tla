------------------------ MODULE AtomicRegistryProofs ------------------------
(* Proofs about AtomicRegistry, for all contexts, capabilities, requests   *)
(* and history bounds.  The inductive invariant joins the type of the file *)
(* with its chained history, which bounds the revisions a new change must  *)
(* differ from, and with the consistency of every snapshot in the history, *)
(* which an undo makes current again.                                      *)
EXTENDS AtomicRegistry, RegistryLemmas

Inductive == TypeOK /\ HistoryChained /\ NoContradiction

LEMMA InitInductive == Init => Inductive
<1> SUFFICES ASSUME Init PROVE Inductive
  OBVIOUS
<1>1. /\ registry.revision = 0
      /\ registry.contexts = [c \in Contexts |-> Absent]
      /\ registry.history = << >>
      /\ registry = [revision |-> 0, contexts |-> [c \in Contexts |-> Absent],
                     history |-> << >>]
  BY DEF Init, EmptyRegistry
<1>2. << >> \in Seq(Change) /\ Len(<< >>) = 0 /\ DOMAIN << >> = {}
  BY EmptySeq
<1>3. MaxHistory \in Nat \ {0}
  BY DataAssumption
<1>4. TypeOK
  BY <1>1, <1>2, <1>3 DEF TypeOK, RegistryFile, ContextMap, ValidHistory
<1>5. HistoryChained
  BY <1>1, <1>2, <1>3 DEF HistoryChained, ChainedFile, Linked, Numbered,
                          EndsAtContexts, Complete
<1>6. NoContradiction
  BY <1>1, <1>2 DEF NoContradiction, Consistent, Exists
<1> QED BY <1>4, <1>5, <1>6 DEF Inductive

LEMMA NextInductive == Inductive /\ [Next]_registry => Inductive'
<1> SUFFICES ASSUME Inductive, [Next]_registry PROVE Inductive'
  OBVIOUS
<1>1. CASE UNCHANGED registry
  BY <1>1 DEF Inductive, TypeOK, HistoryChained, NoContradiction
<1>2. ASSUME NEW r \in Requests, Mutate(r) PROVE Inductive'
  <2>1. /\ registry \in RegistryFile /\ ChainedFile(registry)
        /\ r \in Request /\ Permitted(registry, r)
        /\ registry' = Extended(registry, r)
    BY <1>2, RequestAssumption DEF Inductive, TypeOK, HistoryChained, Mutate
  <2>2. TypeOK' /\ HistoryChained'
    BY <2>1, ExtendedChained DEF TypeOK, HistoryChained
  <2>3. Consistent(Result(registry, r))
    BY <2>1, ResultConsistent DEF Inductive, NoContradiction
  <2>4. Consistent(registry.contexts)
    BY DEF Inductive, NoContradiction
  <2>5. ASSUME NEW i \in DOMAIN registry'.history
        PROVE  /\ Consistent(registry'.history[i].before)
               /\ Consistent(registry'.history[i].after)
    <3>1. CASE registry'.history[i] = RecordOf(registry, r)
      BY <2>3, <2>4, <3>1 DEF RecordOf
    <3>2. CASE \E j \in DOMAIN registry.history :
                  registry'.history[i] = registry.history[j]
      BY <3>2 DEF Inductive, NoContradiction
    <3> QED BY <2>1, <3>1, <3>2, ExtendedEntries
  <2>6. registry'.contexts = Result(registry, r)
    BY <2>1 DEF Extended
  <2>7. NoContradiction'
    BY <2>3, <2>5, <2>6 DEF NoContradiction
  <2> QED BY <2>2, <2>7 DEF Inductive
<1> QED BY <1>1, <1>2 DEF Next

(* The registry file always has the shape the next load accepts, its       *)
(* history explains its contents, and neither its contexts nor any         *)
(* snapshot includes and excludes the same capability.                     *)
THEOREM RegistrySafety == Spec => [](TypeOK /\ HistoryChained /\ NoContradiction)
<1>1. Init => Inductive
  BY InitInductive
<1>2. Inductive /\ [Next]_registry => Inductive'
  BY NextInductive
<1> QED BY <1>1, <1>2, PTL DEF Spec, Inductive

(* Every file a mutation writes is one the next load accepts.              *)
THEOREM FileLoads == Spec => []TypeOK
BY RegistrySafety, PTL

(* Neither the contexts nor any snapshot an undo could bring back includes *)
(* and excludes the same capability.                                       *)
THEOREM ContextsConsistent == Spec => []NoContradiction
BY RegistrySafety, PTL

(* The numbered history tells revisions apart, and its entries meet: an    *)
(* undoable change is the only one with its revision, the change after it, *)
(* if any, starts from the contexts in force now, and the change before it *)
(* left the contexts the undo restores.                                    *)
LEMMA UndoFindsOneChange ==
    ASSUME NEW file \in RegistryFile, ChainedFile(file),
           NEW r \in UndoRequest, Undoable(file, r) # {}
    PROVE  /\ InForceAt(file.history, r.change) = {file.contexts}
           /\ InForceAt(file.history, r.change - 1) = {Undone(file, r)}
<1> DEFINE h == file.history
           rev == file.revision
<1>1. /\ h \in Seq(Change) /\ Len(h) \in Nat /\ rev \in Nat
      /\ DOMAIN h = 1 .. Len(h)
  BY LenProperties DEF RegistryFile
<1>2. /\ \A j \in 1 .. Len(h) : h[j].revision = rev - Len(h) + j
      /\ \A j \in 1 .. Len(h) : h[j].base_revision = h[j].revision - 1
      /\ \A j \in 1 .. Len(h) - 1 : h[j].after = h[j + 1].before
  BY <1>1 DEF ChainedFile, Numbered, Linked
<1>3. PICK i \in 1 .. Len(h) : i \in Undoable(file, r) /\ Undone(file, r) = h[i].before
  BY <1>1 DEF Undoable, Undone
<1>4. h[i].revision = r.change /\ h[i].after = file.contexts
  BY <1>3 DEF Undoable
<1> HIDE DEF h, rev
<1>5. r.change = rev - Len(h) + i
  BY <1>2, <1>4
<1>6. ASSUME NEW j \in 1 .. Len(h)
      PROVE  /\ h[j].revision = r.change <=> j = i
             /\ h[j].base_revision = r.change <=> j = i + 1
             /\ h[j].revision = r.change - 1 <=> j = i - 1
             /\ h[j].base_revision = r.change - 1 <=> j = i
  <2>1. h[j].revision = rev - Len(h) + j /\ h[j].base_revision = h[j].revision - 1
    BY <1>2
  <2> QED BY <1>1, <1>5, <2>1
<1>7. InForceAt(h, r.change) = {h[i].after}
  <2>1. {j \in DOMAIN h : h[j].revision = r.change} = {i}
    BY <1>1, <1>6
  <2>2. ASSUME NEW j \in DOMAIN h, h[j].base_revision = r.change
        PROVE  h[j].before = h[i].after
    <3>1. j = i + 1 /\ i \in 1 .. Len(h) - 1
      BY <1>1, <1>6, <2>2
    <3> QED BY <1>2, <3>1
  <2> QED BY <2>1, <2>2 DEF InForceAt
<1>8. InForceAt(h, r.change - 1) = {h[i].before}
  <2>1. {j \in DOMAIN h : h[j].base_revision = r.change - 1} = {i}
    BY <1>1, <1>6
  <2>2. ASSUME NEW j \in DOMAIN h, h[j].revision = r.change - 1
        PROVE  h[j].after = h[i].before
    <3>1. j + 1 = i /\ j \in 1 .. Len(h) - 1
      BY <1>1, <1>6, <2>2
    <3> QED BY <1>2, <3>1
  <2> QED BY <2>1, <2>2 DEF InForceAt
<1> QED BY <1>3, <1>4, <1>7, <1>8 DEF h

(* An undo takes back the change it names and nothing else, whatever the   *)
(* contexts, the requests and the length of the history.                   *)
THEOREM UndoRevertsOne == Spec => UndoRevertsOneChange
<1> DEFINE Reverts(r) ==
        /\ InForceAt(registry.history, r.change) = {registry.contexts}
        /\ InForceAt(registry.history, r.change - 1) = {registry'.contexts}
<1>1. ASSUME Inductive, NEW r \in Requests, r.operation = "undo", Mutate(r)
      PROVE  Reverts(r)
  <2>1. registry \in RegistryFile /\ ChainedFile(registry)
    BY <1>1 DEF Inductive, TypeOK, HistoryChained
  <2>2. r \in UndoRequest
    BY <1>1, RequestAssumption DEF Request, CreateRequest, MoveRequest,
                                   ShareRequest, UnassignRequest, UndoRequest
  <2>3. Undoable(registry, r) # {}
    BY <1>1 DEF Mutate, Permitted
  <2>4. registry'.contexts = Undone(registry, r)
    BY <1>1 DEF Mutate, Extended, Result
  <2> QED BY <2>1, <2>2, <2>3, <2>4, UndoFindsOneChange
<1>2. Inductive /\ [Next]_registry =>
        [\A r \in Requests : r.operation = "undo" /\ Mutate(r) => Reverts(r)]_registry
  BY <1>1
<1> HIDE DEF Reverts
<1>3. Spec => [][\A r \in Requests :
                   r.operation = "undo" /\ Mutate(r) => Reverts(r)]_registry
  BY <1>2, InitInductive, NextInductive, PTL DEF Spec
<1> QED BY <1>3 DEF UndoRevertsOneChange, Reverts

(* What assigning and hiding do to one document: the capability becomes    *)
(* available, or not, and if a source is included no other one changes.    *)
LEMMA AssignHideAvailability ==
    ASSUME NEW view \in Document, NEW cap \in Caps
    PROVE  /\ Available(Assign(view, cap), cap)
           /\ ~Available(Hide(view, cap), cap)
           /\ view.include_sources # {} =>
                 \A other \in Caps \ {cap} :
                    /\ Available(Assign(view, cap), other) <=> Available(view, other)
                    /\ Available(Hide(view, cap), other) <=> Available(view, other)
  BY DEF Document, Available, Assign, Hide

(* In a context with an included source, only the named capability changes *)
(* its availability.                                                       *)
THEOREM SourcedKeepOthers == Spec => SourcedContextsKeepOthers
<1> DEFINE Keeps(r) ==
        \A c \in Contexts, cap \in Caps \ {r.cap} :
            Exists(registry.contexts, c)
              /\ registry.contexts[c].include_sources # {} =>
                AvailabilityKept(c, cap)
<1>1. ASSUME Inductive, NEW r \in Requests, Reassigns(r)
      PROVE  Keeps(r)
  <2> SUFFICES ASSUME NEW c \in Contexts, NEW cap \in Caps \ {r.cap},
                      Exists(registry.contexts, c),
                      registry.contexts[c].include_sources # {}
               PROVE  AvailabilityKept(c, cap)
    OBVIOUS
  <2> DEFINE old == registry.contexts[c]
             new == registry'.contexts[c]
  <2>1. /\ registry \in RegistryFile /\ r \in Request /\ Permitted(registry, r)
        /\ registry'.contexts = Result(registry, r)
    BY <1>1, RequestAssumption DEF Inductive, TypeOK, Reassigns, Mutate, Extended
  <2>2. old \in Document
    BY <2>1 DEF RegistryFile, ContextMap, Exists
  <2>3. r.cap \in Caps /\ new \in {old, Assign(old, r.cap), Hide(old, r.cap)}
    <3>1. CASE r.operation = "move"
      <4>1. registry'.contexts = Moved(registry, r)
        BY <2>1, <3>1 DEF Result
      <4> QED BY <2>1, <3>1, <4>1, ReassignedDocuments DEF MoveRequest
    <3>2. CASE r.operation = "share"
      <4>1. registry'.contexts = Shared(registry, r)
        BY <2>1, <3>2 DEF Result
      <4> QED BY <2>1, <3>2, <4>1, ReassignedDocuments DEF ShareRequest
    <3>3. CASE r.operation = "unassign"
      <4>1. registry'.contexts = Unassigned(registry, r)
        BY <2>1, <3>3 DEF Result
      <4> QED BY <2>1, <3>3, <4>1, ReassignedDocuments DEF UnassignRequest
    <3> QED BY <1>1, <3>1, <3>2, <3>3 DEF Reassigns
  <2>4. Available(new, cap) <=> Available(old, cap)
    <3> HIDE DEF old, new
    <3> QED BY <2>2, <2>3, AssignHideAvailability DEF old
  <2>5. Available(new, cap) \in BOOLEAN /\ Available(old, cap) \in BOOLEAN
    BY DEF Available
  <2> QED BY <2>4, <2>5 DEF AvailabilityKept
<1>2. Inductive /\ [Next]_registry =>
        [\A r \in Requests : Reassigns(r) => Keeps(r)]_registry
  BY <1>1
<1> HIDE DEF Keeps
<1>3. Spec => [][\A r \in Requests : Reassigns(r) => Keeps(r)]_registry
  BY <1>2, InitInductive, NextInductive, PTL DEF Spec
<1> QED BY <1>3 DEF SourcedContextsKeepOthers, Keeps

(* Every request that succeeds does what its reply says.                   *)
THEOREM RepliesDelivered == Spec => ReplyDelivered
<1>1. ASSUME Inductive, NEW r \in Requests, Mutate(r)
      PROVE  Delivered(r, registry'.contexts)
  <2>1. /\ registry \in RegistryFile /\ r \in Request /\ Permitted(registry, r)
        /\ registry'.contexts = Result(registry, r)
    BY <1>1, RequestAssumption DEF Inductive, TypeOK, Mutate, Extended
  <2>2. \A c \in Contexts : Exists(registry.contexts, c) =>
                               registry.contexts[c] \in Document
    BY <2>1 DEF RegistryFile, ContextMap, Exists
  <2>3. CASE r.operation = "create"
    <3>1. r \in CreateRequest
      BY <2>1, <2>3 DEF Request, CreateRequest, MoveRequest, ShareRequest,
                        UnassignRequest, UndoRequest
    <3>2. NewDocument(r.sources) \in Document /\ r.context \in Contexts
      BY <3>1 DEF CreateRequest, NewDocument, Document
    <3>3. registry'.contexts[r.context] = NewDocument(r.sources)
      BY <2>1, <2>3, <3>2 DEF Result, Created, RegistryFile, ContextMap
    <3> QED BY <2>3, <3>2, <3>3, DataAssumption DEF Delivered, Exists
  <2>4. CASE r.operation = "move"
    <3>1. /\ r.source \in Contexts /\ r.target \in Contexts /\ r.cap \in Caps
          /\ r.source # r.target
      BY <2>1, <2>4 DEF Request, CreateRequest, MoveRequest, ShareRequest,
                        UnassignRequest, UndoRequest
    <3>2. registry'.contexts = Moved(registry, r)
      BY <2>1, <2>4 DEF Result
    <3>3. /\ registry.contexts[r.source] \in Document
          /\ registry.contexts[r.target] \in Document
      BY <2>1, <2>2, <2>4, <3>1 DEF Permitted
    <3>4. /\ registry'.contexts[r.target] = Assign(registry.contexts[r.target], r.cap)
          /\ registry'.contexts[r.source] = Hide(registry.contexts[r.source], r.cap)
      BY <2>1, <2>4, <3>1, <3>2, ReassignedDocuments
    <3> QED BY <2>4, <3>1, <3>3, <3>4, AssignHideAvailability DEF Delivered
  <2>5. CASE r.operation = "share"
    <3>1. r.target \in Contexts /\ r.cap \in Caps
      BY <2>1, <2>5 DEF Request, CreateRequest, MoveRequest, ShareRequest,
                        UnassignRequest, UndoRequest
    <3>2. registry.contexts[r.target] \in Document
      BY <2>1, <2>2, <2>5, <3>1 DEF Permitted
    <3>3. registry'.contexts[r.target] = Assign(registry.contexts[r.target], r.cap)
      BY <2>1, <2>5, <3>1, ReassignedDocuments DEF Result
    <3> QED BY <2>5, <3>1, <3>2, <3>3, AssignHideAvailability DEF Delivered
  <2>6. CASE r.operation = "unassign"
    <3>1. r.context \in Contexts /\ r.cap \in Caps
      BY <2>1, <2>6 DEF Request, CreateRequest, MoveRequest, ShareRequest,
                        UnassignRequest, UndoRequest
    <3>2. registry.contexts[r.context] \in Document
      BY <2>1, <2>2, <2>6, <3>1 DEF Permitted
    <3>3. registry'.contexts[r.context] = Hide(registry.contexts[r.context], r.cap)
      BY <2>1, <2>6, <3>1, ReassignedDocuments DEF Result
    <3> QED BY <2>6, <3>1, <3>2, <3>3, AssignHideAvailability DEF Delivered
  <2>7. CASE r.operation = "undo"
    BY <2>7 DEF Delivered
  <2> QED BY <2>1, <2>3, <2>4, <2>5, <2>6, <2>7 DEF Permitted
<1>2. Inductive /\ [Next]_registry =>
        [\A r \in Requests : Mutate(r) => Delivered(r, registry'.contexts)]_registry
  BY <1>1
<1> QED BY <1>2, InitInductive, NextInductive, PTL DEF Spec, ReplyDelivered
=============================================================================
