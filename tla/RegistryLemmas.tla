--------------------------- MODULE RegistryLemmas ---------------------------
(* Facts about the operators of RegistryData, cited by the proofs about    *)
(* AtomicRegistry and Registry.                                            *)
EXTENDS RegistryData, SequenceTheorems, TLAPS

(* Appending a change and keeping the newest MaxHistory entries shifts the *)
(* older entries and puts the change last (contexts.py, mutate).           *)
LEMMA KeepLastAppend ==
    ASSUME NEW S, NEW h \in Seq(S), NEW x \in S, Len(h) <= MaxHistory
    PROVE  LET k == KeepLast(Append(h, x)) IN
              /\ k \in Seq(S)
              /\ Len(k) = IF Len(h) < MaxHistory THEN Len(h) + 1 ELSE MaxHistory
              /\ \A i \in 1 .. Len(k) - 1 : k[i] = h[Len(h) + 1 - Len(k) + i]
              /\ k[Len(k)] = x
<1> DEFINE a == Append(h, x)
           k == KeepLast(a)
<1>1. /\ a \in Seq(S)
      /\ Len(a) = Len(h) + 1
      /\ \A i \in 1 .. Len(h) : a[i] = h[i]
      /\ a[Len(h) + 1] = x
  BY AppendProperties
<1>2. MaxHistory \in Nat \ {0} /\ Len(h) \in Nat
  BY DataAssumption, LenProperties
<1>3. CASE Len(h) < MaxHistory
  <2>1. k = a
    BY <1>1, <1>2, <1>3 DEF KeepLast
  <2> HIDE DEF a, k
  <2> QED BY <1>1, <1>2, <1>3, <2>1 DEF a, k
<1>4. CASE Len(h) = MaxHistory
  <2>1. k = SubSeq(a, 2, Len(a))
    BY <1>1, <1>2, <1>4 DEF KeepLast
  <2>2. /\ k \in Seq(S)
        /\ Len(k) = MaxHistory
        /\ \A i \in 1 .. MaxHistory : k[i] = a[i + 1]
    BY <1>1, <1>2, <1>4, <2>1, SubSeqProperties
  <2> HIDE DEF a, k
  <2> QED BY <1>1, <1>2, <1>4, <2>2 DEF a, k
<1> QED BY <1>2, <1>3, <1>4

(* A permitted request leads to contexts of the registry's type.           *)
LEMMA ResultType ==
    ASSUME NEW file \in RegistryFile, NEW r \in Request, Permitted(file, r)
    PROVE  Result(file, r) \in ContextMap
<1>1. file.contexts \in ContextMap
  BY DEF RegistryFile
<1>2. CASE r.operation = "create"
  <2>1. r \in CreateRequest
    BY <1>2 DEF Request, CreateRequest, MoveRequest, ShareRequest,
                UnassignRequest, UndoRequest
  <2> QED BY <1>1, <1>2, <2>1 DEF Result, Created, ContextMap, Document, NewDocument,
                                  CreateRequest
<1>3. CASE r.operation = "move"
  <2>1. r \in MoveRequest
    BY <1>3 DEF Request, CreateRequest, MoveRequest, ShareRequest,
                UnassignRequest, UndoRequest
  <2>2. /\ file.contexts[r.source] \in Document
        /\ file.contexts[r.target] \in Document
    BY <1>1, <1>3, <2>1 DEF Permitted, Exists, ContextMap, MoveRequest
  <2> QED BY <1>1, <1>3, <2>1, <2>2 DEF Result, Moved, ContextMap, Document, Assign,
                                         Hide, MoveRequest
<1>4. CASE r.operation = "share"
  <2>1. r \in ShareRequest
    BY <1>4 DEF Request, CreateRequest, MoveRequest, ShareRequest,
                UnassignRequest, UndoRequest
  <2>2. file.contexts[r.target] \in Document
    BY <1>1, <1>4, <2>1 DEF Permitted, Exists, ContextMap, ShareRequest
  <2> QED BY <1>1, <1>4, <2>1, <2>2 DEF Result, Shared, ContextMap, Document, Assign,
                                         ShareRequest
<1>5. CASE r.operation = "unassign"
  <2>1. r \in UnassignRequest
    BY <1>5 DEF Request, CreateRequest, MoveRequest, ShareRequest,
                UnassignRequest, UndoRequest
  <2>2. file.contexts[r.context] \in Document
    BY <1>1, <1>5, <2>1 DEF Permitted, Exists, ContextMap, UnassignRequest
  <2> QED BY <1>1, <1>5, <2>1, <2>2 DEF Result, Unassigned, ContextMap, Document, Hide,
                                         UnassignRequest
<1>6. CASE r.operation = "undo"
  <2>1. PICK i \in DOMAIN file.history :
           i = CHOOSE j \in Undoable(file, r) : TRUE
    BY <1>6 DEF Permitted, Undoable
  <2>2. file.history[i] \in Change
    BY <2>1, ElementOfSeq DEF RegistryFile
  <2> QED BY <1>6, <2>1, <2>2 DEF Result, Undone, Change
<1> QED BY <1>2, <1>3, <1>4, <1>5, <1>6 DEF Permitted

(* The change mutate records has the type of a history entry.              *)
LEMMA RecordType ==
    ASSUME NEW file \in RegistryFile, NEW r \in Request, Permitted(file, r)
    PROVE  /\ RecordOf(file, r) \in Change
           /\ RecordOf(file, r).before = file.contexts
           /\ RecordOf(file, r).after = Result(file, r)
           /\ RecordOf(file, r).base_revision = file.revision
           /\ RecordOf(file, r).revision = file.revision + 1
<1>1. Result(file, r) \in ContextMap
  BY ResultType
<1>2. file.contexts \in ContextMap /\ file.revision \in Nat
  BY DEF RegistryFile
<1>3. r.operation \in Operations
  BY DEF Operations, Request, CreateRequest, MoveRequest, ShareRequest,
         UnassignRequest, UndoRequest
<1> QED BY <1>1, <1>2, <1>3 DEF RecordOf, Change

(* A permitted request leads from a chained, valid registry file to a      *)
(* chained, valid one: the file can be loaded and undone again.            *)
LEMMA ExtendedChained ==
    ASSUME NEW file \in RegistryFile, ChainedFile(file),
           NEW r \in Request, Permitted(file, r)
    PROVE  Extended(file, r) \in RegistryFile /\ ChainedFile(Extended(file, r))
<1> DEFINE h == file.history
           x == RecordOf(file, r)
           k == KeepLast(Append(h, x))
           rev == file.revision
           new == Extended(file, r)
<1>1. /\ rev \in Nat /\ h \in Seq(Change) /\ file.contexts \in ContextMap
      /\ Len(h) \in Nat /\ Len(h) <= MaxHistory
  BY LenProperties DEF RegistryFile, ValidHistory
<1>2. /\ x \in Change
      /\ x.before = file.contexts /\ x.after = Result(file, r)
      /\ x.base_revision = rev /\ x.revision = rev + 1
  BY RecordType
<1>3. MaxHistory \in Nat \ {0}
  BY DataAssumption
<1>4. /\ Len(h) = IF rev < MaxHistory THEN rev ELSE MaxHistory
      /\ \A i \in 1 .. Len(h) : h[i].revision = rev - Len(h) + i
                               /\ h[i].base_revision = h[i].revision - 1
      /\ \A i \in 1 .. Len(h) - 1 : h[i].after = h[i + 1].before
      /\ Len(h) > 0 => h[Len(h)].after = file.contexts
  BY <1>1 DEF ChainedFile, Linked, Numbered, EndsAtContexts, Complete, Newest
<1> HIDE DEF h, x
<1>5. /\ k \in Seq(Change)
      /\ Len(k) = IF Len(h) < MaxHistory THEN Len(h) + 1 ELSE MaxHistory
      /\ \A i \in 1 .. Len(k) - 1 : k[i] = h[Len(h) + 1 - Len(k) + i]
      /\ k[Len(k)] = x
  BY <1>1, <1>2, KeepLastAppend
<1>6. /\ new.revision = rev + 1 /\ new.contexts = Result(file, r)
      /\ new.history = k
      /\ new = [revision |-> rev + 1, contexts |-> Result(file, r), history |-> k]
  BY DEF Extended, h, x
<1>7. Result(file, r) \in ContextMap
  BY ResultType
<1> HIDE DEF k, rev, new
<1>8. Len(k) \in Nat \ {0} /\ Len(k) <= MaxHistory
  BY <1>1, <1>3, <1>5
<1>9. \A i \in 1 .. Len(k) : k[i].revision = rev + 1 - Len(k) + i
                            /\ k[i].base_revision = k[i].revision - 1
  <2> SUFFICES ASSUME NEW i \in 1 .. Len(k)
               PROVE  k[i].revision = rev + 1 - Len(k) + i
                      /\ k[i].base_revision = k[i].revision - 1
    OBVIOUS
  <2>1. CASE i = Len(k)
    BY <1>1, <1>2, <1>5, <1>8, <2>1
  <2>2. CASE i # Len(k)
    <3>1. Len(h) + 1 - Len(k) + i \in 1 .. Len(h)
      BY <1>1, <1>3, <1>5, <1>8, <2>2
    <3>2. k[i] = h[Len(h) + 1 - Len(k) + i]
      BY <1>5, <1>8, <2>2
    <3> DEFINE j == Len(h) + 1 - Len(k) + i
    <3> HIDE DEF j
    <3>3. h[j].revision = rev - Len(h) + j /\ h[j].base_revision = h[j].revision - 1
      BY <1>4, <3>1 DEF j
    <3>4. rev - Len(h) + j = rev + 1 - Len(k) + i
      BY <1>1, <1>8 DEF j
    <3>5. k[i] = h[j]
      BY <3>2 DEF j
    <3> QED BY <3>3, <3>4, <3>5
  <2> QED BY <2>1, <2>2
<1>10. \A i \in 1 .. Len(k) - 1 : k[i].after = k[i + 1].before
  <2> SUFFICES ASSUME NEW i \in 1 .. Len(k) - 1
               PROVE  k[i].after = k[i + 1].before
    OBVIOUS
  <2>1. k[i] = h[Len(h) + 1 - Len(k) + i]
    BY <1>5
  <2>2. CASE i = Len(k) - 1
    <3>1. Len(h) > 0 /\ Len(h) + 1 - Len(k) + i = Len(h)
      <4>1. Len(k) > 1
        BY <1>8, <2>2
      <4>2. Len(h) > 0
        BY <1>1, <1>3, <1>5, <4>1
      <4>3. Len(h) + 1 - Len(k) + i = Len(h)
        BY <1>1, <1>8, <2>2
      <4> QED BY <4>2, <4>3
    <3>2. k[i] = h[Len(h)]
      BY <2>1, <3>1
    <3>3. i + 1 = Len(k)
      BY <1>8, <2>2
    <3>4. k[i + 1] = x
      BY <1>5, <3>3
    <3> QED BY <1>2, <1>4, <3>1, <3>2, <3>4
  <2>3. CASE i # Len(k) - 1
    <3> DEFINE j == Len(h) + 1 - Len(k) + i
    <3>1. j \in 1 .. Len(h) - 1
      BY <1>1, <1>3, <1>5, <1>8, <2>3
    <3>2. k[i + 1] = h[j + 1]
      <4>1. i + 1 \in 1 .. Len(k) - 1
        BY <1>8, <2>3
      <4>2. Len(h) + 1 - Len(k) + (i + 1) = j + 1
        BY <1>1, <1>8
      <4> QED BY <1>5, <4>1, <4>2
    <3> HIDE DEF j
    <3>3. h[j].after = h[j + 1].before
      BY <1>4, <3>1
    <3> QED BY <2>1, <3>2, <3>3 DEF j
  <2> QED BY <2>2, <2>3
<1>11. ValidHistory(k)
  <2>1. \A i \in 1 .. Len(k) : k[i] \in Change
    BY <1>5, ElementOfSeq
  <2> QED BY <1>1, <1>8, <1>9, <2>1 DEF ValidHistory, Change
<1>12. new \in RegistryFile
  BY <1>1, <1>5, <1>6, <1>7, <1>11 DEF RegistryFile
<1>13. ChainedFile(new)
  <2>1. Linked(k)
    BY <1>10 DEF Linked
  <2>2. Numbered(new)
    BY <1>1, <1>6, <1>8, <1>9 DEF Numbered
  <2>3. EndsAtContexts(new)
    BY <1>2, <1>5, <1>6 DEF EndsAtContexts, Newest
  <2>4. Len(k) = IF rev + 1 < MaxHistory THEN rev + 1 ELSE MaxHistory
    BY <1>1, <1>3, <1>4, <1>5
  <2>5. Complete(new)
    BY <1>6, <2>4 DEF Complete
  <2> QED BY <1>6, <2>1, <2>2, <2>3, <2>5 DEF ChainedFile
<1> QED BY <1>12, <1>13 DEF new

(* Assigning and hiding one capability keep included and excluded apart.   *)
LEMMA DocumentConsistent ==
    ASSUME NEW view \in Document, NEW cap,
           view.include_capabilities \cap view.exclude_capabilities = {}
    PROVE  /\ Assign(view, cap).include_capabilities
                  \cap Assign(view, cap).exclude_capabilities = {}
           /\ Hide(view, cap).include_capabilities
                  \cap Hide(view, cap).exclude_capabilities = {}
  BY DEF Assign, Hide, Document

(* A permitted request leads from consistent contexts, and consistent      *)
(* snapshots to undo to, to consistent contexts.                           *)
LEMMA ResultConsistent ==
    ASSUME NEW file \in RegistryFile, NEW r \in Request, Permitted(file, r),
           Consistent(file.contexts),
           \A i \in DOMAIN file.history : Consistent(file.history[i].before)
    PROVE  Consistent(Result(file, r))
<1> DEFINE old == file.contexts
           new == Result(file, r)
           Apart(c) == new[c].include_capabilities
                          \cap new[c].exclude_capabilities = {}
<1>1. old \in ContextMap
  BY DEF RegistryFile
<1>2. \A c \in Contexts : Exists(old, c) =>
         /\ old[c] \in Document
         /\ old[c].include_capabilities \cap old[c].exclude_capabilities = {}
  BY <1>1 DEF Exists, ContextMap, Consistent
<1>3. CASE r.operation = "create"
  <2>1. r \in CreateRequest
    BY <1>3 DEF Request, CreateRequest, MoveRequest, ShareRequest,
                UnassignRequest, UndoRequest
  <2>2. new = [old EXCEPT ![r.context] = NewDocument(r.sources)]
    BY <1>3 DEF Result, Created
  <2>3. \A c \in Contexts : Exists(new, c) => Apart(c)
    BY <1>1, <1>2, <2>1, <2>2 DEF Exists, ContextMap, NewDocument, CreateRequest
  <2> QED BY <2>3 DEF Consistent
<1>4. CASE r.operation = "move"
  <2>1. r \in MoveRequest
    BY <1>4 DEF Request, CreateRequest, MoveRequest, ShareRequest,
                UnassignRequest, UndoRequest
  <2>2. Exists(old, r.source) /\ Exists(old, r.target)
    BY <1>4 DEF Permitted
  <2>3. \A c \in Contexts : new[c] = IF c = r.target THEN Assign(old[c], r.cap)
                                   ELSE IF c = r.source THEN Hide(old[c], r.cap)
                                   ELSE old[c]
    BY <1>1, <1>4, <2>1 DEF Result, Moved, ContextMap, MoveRequest
  <2>4. \A c \in Contexts : Exists(new, c) => Apart(c)
    BY <1>2, <2>1, <2>2, <2>3, DocumentConsistent DEF Exists, MoveRequest
  <2> QED BY <2>4 DEF Consistent
<1>5. CASE r.operation = "share"
  <2>1. r \in ShareRequest
    BY <1>5 DEF Request, CreateRequest, MoveRequest, ShareRequest,
                UnassignRequest, UndoRequest
  <2>2. Exists(old, r.target)
    BY <1>5 DEF Permitted
  <2>3. \A c \in Contexts : new[c] = IF c = r.target THEN Assign(old[c], r.cap)
                                   ELSE old[c]
    BY <1>1, <1>5, <2>1 DEF Result, Shared, ContextMap, ShareRequest
  <2>4. \A c \in Contexts : Exists(new, c) => Apart(c)
    BY <1>2, <2>1, <2>2, <2>3, DocumentConsistent DEF Exists, ShareRequest
  <2> QED BY <2>4 DEF Consistent
<1>6. CASE r.operation = "unassign"
  <2>1. r \in UnassignRequest
    BY <1>6 DEF Request, CreateRequest, MoveRequest, ShareRequest,
                UnassignRequest, UndoRequest
  <2>2. Exists(old, r.context)
    BY <1>6 DEF Permitted
  <2>3. \A c \in Contexts : new[c] = IF c = r.context THEN Hide(old[c], r.cap)
                                   ELSE old[c]
    BY <1>1, <1>6, <2>1 DEF Result, Unassigned, ContextMap, UnassignRequest
  <2>4. \A c \in Contexts : Exists(new, c) => Apart(c)
    BY <1>2, <2>1, <2>2, <2>3, DocumentConsistent DEF Exists, UnassignRequest
  <2> QED BY <2>4 DEF Consistent
<1>7. CASE r.operation = "undo"
  <2>1. PICK i \in DOMAIN file.history :
           i = CHOOSE j \in Undoable(file, r) : TRUE
    BY <1>7 DEF Permitted, Undoable
  <2>2. new = file.history[i].before
    BY <1>7, <2>1 DEF Result, Undone
  <2> QED BY <2>2
<1> QED BY <1>3, <1>4, <1>5, <1>6, <1>7 DEF Permitted

(* Every entry mutate keeps is the new change or an older entry.           *)
LEMMA ExtendedEntries ==
    ASSUME NEW file \in RegistryFile, NEW r \in Request, Permitted(file, r)
    PROVE  \A i \in DOMAIN Extended(file, r).history :
              \/ Extended(file, r).history[i] = RecordOf(file, r)
              \/ \E j \in DOMAIN file.history :
                    Extended(file, r).history[i] = file.history[j]
<1> DEFINE h == file.history
           x == RecordOf(file, r)
           k == KeepLast(Append(h, x))
<1>1. h \in Seq(Change) /\ Len(h) \in Nat /\ Len(h) <= MaxHistory
  BY LenProperties DEF RegistryFile, ValidHistory
<1>2. x \in Change
  BY RecordType
<1> HIDE DEF h, x
<1>3. /\ k \in Seq(Change)
      /\ Len(k) = IF Len(h) < MaxHistory THEN Len(h) + 1 ELSE MaxHistory
      /\ \A i \in 1 .. Len(k) - 1 : k[i] = h[Len(h) + 1 - Len(k) + i]
      /\ k[Len(k)] = x
  BY <1>1, <1>2, KeepLastAppend
<1>4. Extended(file, r).history = k
  BY DEF Extended, h, x
<1> HIDE DEF k
<1>5. DOMAIN k = 1 .. Len(k) /\ DOMAIN h = 1 .. Len(h)
  BY <1>1, <1>3, LenProperties
<1>6. MaxHistory \in Nat \ {0} /\ Len(k) \in Nat
  BY <1>3, LenProperties, DataAssumption
<1>7. ASSUME NEW i \in 1 .. Len(k)
      PROVE  k[i] = x \/ \E j \in 1 .. Len(h) : k[i] = h[j]
  <2>1. CASE i = Len(k)
    BY <1>3, <2>1
  <2>2. CASE i # Len(k)
    <3>1. i \in 1 .. Len(k) - 1
      BY <1>6, <2>2
    <3>2. Len(h) + 1 - Len(k) + i \in 1 .. Len(h)
      BY <1>1, <1>3, <1>6, <3>1
    <3> QED BY <1>3, <3>1, <3>2
  <2> QED BY <2>1, <2>2
<1> QED BY <1>4, <1>5, <1>7 DEF h, x

(* A mutation keeps every entry of the history that is still among the     *)
(* newest MaxHistory ones.                                                 *)
LEMMA ExtendedKeepsRecent ==
    ASSUME NEW file \in RegistryFile, ChainedFile(file),
           NEW r \in Request, Permitted(file, r),
           NEW j \in 1 .. Len(file.history),
           file.revision + 1 - file.history[j].revision
               < Len(Extended(file, r).history)
    PROVE  \E i \in 1 .. Len(Extended(file, r).history) :
              Extended(file, r).history[i] = file.history[j]
<1> DEFINE h == file.history
           x == RecordOf(file, r)
           k == KeepLast(Append(h, x))
<1>1. h \in Seq(Change) /\ Len(h) \in Nat /\ Len(h) <= MaxHistory
  BY LenProperties DEF RegistryFile, ValidHistory
<1>2. x \in Change
  BY RecordType
<1> HIDE DEF h, x
<1>3. /\ k \in Seq(Change)
      /\ Len(k) = IF Len(h) < MaxHistory THEN Len(h) + 1 ELSE MaxHistory
      /\ \A i \in 1 .. Len(k) - 1 : k[i] = h[Len(h) + 1 - Len(k) + i]
      /\ k[Len(k)] = x
  BY <1>1, <1>2, KeepLastAppend
<1>4. Extended(file, r).history = k
  BY DEF Extended, h, x
<1>5. h[j].revision = file.revision - Len(h) + j /\ file.revision \in Nat
  BY DEF ChainedFile, Numbered, RegistryFile, h
<1> HIDE DEF k
<1>6. MaxHistory \in Nat \ {0} /\ Len(k) \in Nat
  BY <1>3, LenProperties, DataAssumption
<1>7. file.revision + 1 - h[j].revision < Len(k) /\ j \in 1 .. Len(h)
  BY <1>4 DEF h
<1> DEFINE i == j - (Len(h) + 1 - Len(k))
<1>8. j \in Nat /\ j <= Len(h) /\ Len(h) - j + 1 < Len(k)
  BY <1>1, <1>5, <1>6, <1>7
<1>9. i \in 1 .. Len(k) - 1
  BY <1>1, <1>3, <1>6, <1>8
<1>10. Len(h) + 1 - Len(k) + i = j
  BY <1>1, <1>6, <1>8
<1> HIDE DEF i
<1>11. k[i] = h[j]
  BY <1>3, <1>9, <1>10
<1>12. i \in 1 .. Len(k)
  BY <1>6, <1>9
<1> QED BY <1>4, <1>11, <1>12 DEF h

(* The registry a missing file is read as is one the next load accepts.    *)
LEMMA EmptyRegistryChained ==
    EmptyRegistry \in RegistryFile /\ ChainedFile(EmptyRegistry)
<1>1. /\ EmptyRegistry.revision = 0
      /\ EmptyRegistry.contexts = [c \in Contexts |-> Absent]
      /\ EmptyRegistry.history = << >>
  BY DEF EmptyRegistry
<1>2. << >> \in Seq(Change) /\ Len(<< >>) = 0
  BY EmptySeq
<1>3. MaxHistory \in Nat \ {0}
  BY DataAssumption
<1>4. EmptyRegistry \in RegistryFile
  BY <1>2, <1>3 DEF EmptyRegistry, RegistryFile, ContextMap, ValidHistory
<1>5. ChainedFile(EmptyRegistry)
  BY <1>1, <1>2, <1>3 DEF ChainedFile, Linked, Numbered, EndsAtContexts, Complete
<1> QED BY <1>4, <1>5

(* What the three requests that assign or hide a capability do to the      *)
(* document of each context.                                               *)
LEMMA ReassignedDocuments ==
    ASSUME NEW file \in RegistryFile, NEW r \in Request, Permitted(file, r),
           NEW c \in Contexts
    PROVE  /\ r.operation = "move" =>
                 /\ r \in MoveRequest
                 /\ Moved(file, r)[c] =
                       IF c = r.target THEN Assign(file.contexts[c], r.cap)
                       ELSE IF c = r.source THEN Hide(file.contexts[c], r.cap)
                       ELSE file.contexts[c]
           /\ r.operation = "share" =>
                 /\ r \in ShareRequest
                 /\ Shared(file, r)[c] =
                       IF c = r.target THEN Assign(file.contexts[c], r.cap)
                       ELSE file.contexts[c]
           /\ r.operation = "unassign" =>
                 /\ r \in UnassignRequest
                 /\ Unassigned(file, r)[c] =
                       IF c = r.context THEN Hide(file.contexts[c], r.cap)
                       ELSE file.contexts[c]
<1>1. file.contexts \in ContextMap
  BY DEF RegistryFile
<1>2. ASSUME r.operation = "move"
      PROVE  /\ r \in MoveRequest
             /\ Moved(file, r)[c] =
                   IF c = r.target THEN Assign(file.contexts[c], r.cap)
                   ELSE IF c = r.source THEN Hide(file.contexts[c], r.cap)
                   ELSE file.contexts[c]
  <2>1. r \in MoveRequest
    BY <1>2 DEF Request, CreateRequest, MoveRequest, ShareRequest,
                UnassignRequest, UndoRequest
  <2> QED BY <1>1, <2>1 DEF Moved, ContextMap, MoveRequest
<1>3. ASSUME r.operation = "share"
      PROVE  /\ r \in ShareRequest
             /\ Shared(file, r)[c] =
                   IF c = r.target THEN Assign(file.contexts[c], r.cap)
                   ELSE file.contexts[c]
  <2>1. r \in ShareRequest
    BY <1>3 DEF Request, CreateRequest, MoveRequest, ShareRequest,
                UnassignRequest, UndoRequest
  <2> QED BY <1>1, <2>1 DEF Shared, ContextMap, ShareRequest
<1>4. ASSUME r.operation = "unassign"
      PROVE  /\ r \in UnassignRequest
             /\ Unassigned(file, r)[c] =
                   IF c = r.context THEN Hide(file.contexts[c], r.cap)
                   ELSE file.contexts[c]
  <2>1. r \in UnassignRequest
    BY <1>4 DEF Request, CreateRequest, MoveRequest, ShareRequest,
                UnassignRequest, UndoRequest
  <2> QED BY <1>1, <2>1 DEF Unassigned, ContextMap, UnassignRequest
<1> QED BY <1>2, <1>3, <1>4
=============================================================================
