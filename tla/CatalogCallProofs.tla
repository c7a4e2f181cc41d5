------------------------- MODULE CatalogCallProofs --------------------------
(* Proofs about CatalogCall, for any tools, servers, routers, threads and  *)
(* refresh commands.  The invariant says that no signature is ahead of the *)
(* file, that the process between reading and replacing the file holds the *)
(* refresh lock and has read the file as it still is, or is a refresh      *)
(* command that could not load it, and what a call has established by each *)
(* of its steps.                                                           *)
EXTENDS CatalogCall, TLAPS

Steps == {"idle", "reload", "load", "check", "list", "call",
          "discover", "refresh", "merge"}

Versions == 0 .. MaxVersion

Cache == [entries : Entries, signature : Versions \cup {None}]

(* The types of what TypeOK leaves out.                                    *)
LocalTypes ==
    /\ cached \in [Executors -> Cache]
    /\ pc \in [Processes -> Steps]
    /\ wanted \in [Threads -> Caps \cup {None}]
    /\ signature \in [Threads -> Versions \cup {None}]
    /\ old \in [Processes -> Entries \cup {None}]
    /\ found = [p \in Processes |-> found[p]]
    /\ \A t \in Threads : pc[t] # "idle" => wanted[t] \in Caps

(* A refresh merges the listings of the servers it had to ask.             *)
ListingsComplete ==
    \A p \in Processes :
        /\ \A s \in DOMAIN found[p], c \in Caps :
              found[p][s] # Failed /\ ServerOf[c] = s =>
                  found[p][s][c] \in Offer \cup {None}
        /\ pc[p] \in {"refresh", "merge"} => DOMAIN found[p] = Scope(p)

(* A signature was read before what is cached with it, and the file only   *)
(* moves on.                                                               *)
SignaturesNotAhead ==
    /\ \A e \in Executors : cached[e].signature \in 0 .. file.version \cup {None}
    /\ \A t \in Threads : pc[t] = "load" => signature[t] \in 0 .. file.version
    /\ CacheIsTheFile

(* Between reading and replacing the file a process holds the refresh lock *)
(* and the file is what it read, unless a refresh command could not.       *)
MergeIsLocked ==
    \A p \in Processes : pc[p] = "merge" =>
        /\ refreshLock = p
        /\ old[p] = file.entries \/ (p \in Refreshers /\ old[p] = NoEntries)

(* What the configuration and the context of thread t allow.               *)
MayCall(t) ==
    LET e == ExecutorOf[t]
    IN  /\ e \in ReadOnly => Access[e][wanted[t]] = "read"
        /\ ServerOf[wanted[t]] \in Configured[e]
        /\ wanted[t] \in Visible[e]

(* What a call has established.                                            *)
CallSoFar(t) ==
    /\ pc[t] # "idle" /\ offers[wanted[t]] # None =>
          offers[wanted[t]].schema \in seen[t]
    /\ pc[t] = "list" => item[t] \in Entry /\ validated[t] = item[t].schema
    /\ pc[t] = "call" => validated[t] \in seen[t]
    /\ pc[t] \in {"list", "call"} => MayCall(t)

Inductive ==
    /\ TypeOK
    /\ LocalTypes
    /\ ListingsComplete
    /\ SignaturesNotAhead
    /\ MergeIsLocked
    /\ \A t \in Threads : CallSoFar(t)

(* The bounds are numbers.                                                 *)
LEMMA BoundTypes == MaxUpgrades \in Nat /\ MaxVersion \in Nat
  BY CallAssumption

(* Filtering entries for a context gives entries, and doing it again       *)
(* nothing else.                                                           *)
LEMMA ShownEntries ==
    ASSUME NEW e, NEW entries \in Entries
    PROVE  /\ Shown(e, entries) \in Entries
           /\ Shown(e, entries) = Shown(e, Shown(e, entries))
  BY DEF Shown, Entries

(* What a refresh is about to write are entries: _tool_entry and           *)
(* _stale_server_entries only make entries.                                *)
LEMMA MergedEntries ==
    ASSUME TypeOK, LocalTypes, ListingsComplete, MergeIsLocked,
           NEW p \in Processes, pc[p] = "merge"
    PROVE  Merged(p) \in Entries
<1>1. /\ DOMAIN found[p] = Scope(p)
      /\ old[p] \in Entries
  BY DEF ListingsComplete, MergeIsLocked, NoEntries, Entries, TypeOK
<1>2. \A c \in Caps : Access[Client(p)][c] \in {"read", "write"}
  BY CallAssumption DEF Client, Clients, Processes
<1>3. ASSUME NEW c \in Caps
      PROVE  Merged(p)[c] \in Entry \cup {None}
  <2> DEFINE s == ServerOf[c]
  <2>1. old[p][c] \in Entry \cup {None}
    BY <1>1 DEF Entries
  <2>2. StaleEntry(p, c, old[p][c]) \in Entry \cup {None}
    BY <1>2, <2>1 DEF StaleEntry, Entry
  <2>3. ASSUME s \in Scope(p), found[p][s] # Failed
        PROVE  ToolEntry(p, c, found[p][s][c]) \in Entry \cup {None}
    <3>1. found[p][s][c] \in Offer \cup {None}
      BY <1>1, <2>3 DEF ListingsComplete
    <3> QED BY <1>2, <3>1 DEF ToolEntry, Entry, Offer
  <2> QED BY <2>1, <2>2, <2>3 DEF Merged
<1> QED BY <1>3 DEF Entries, Merged

(* Every step keeps the types: a refresh writes entries, and what a cached *)
(* catalog holds is filtered for the context (catalog.py, _tool_entry;     *)
(* executor.py, reload_catalog).                                           *)
LEMMA TypesKept ==
    ASSUME TypeOK, LocalTypes, ListingsComplete, MergeIsLocked, [Next]_vars
    PROVE  TypeOK' /\ LocalTypes'
<1> USE DEF TypeOK, LocalTypes, Steps, Versions, Processes
<1>1. CASE Upgrade
  <2>1. PICK c \in Caps, offer \in Offer \cup {None} :
           /\ offers' = [offers EXCEPT ![c] = offer]
           /\ seen' = [t \in Threads |-> IF wanted[t] = c /\ offer # None
                         THEN seen[t] \cup {offer.schema} ELSE seen[t]]
    BY <1>1 DEF Upgrade
  <2>2. offer # None => offer.schema \in Schemas
    BY DEF Offer
  <2>3. /\ offers' \in [Caps -> Offer \cup {None}]
        /\ seen' \in [Threads -> SUBSET Schemas]
    BY <2>1, <2>2
  <2>4. upgrades' \in 0 .. MaxUpgrades
    BY <1>1, BoundTypes DEF Upgrade
  <2> QED BY <1>1, <2>3, <2>4 DEF Upgrade, environment, locals, Mine
<1>2. ASSUME NEW t \in Threads, Call(t)
      PROVE  TypeOK' /\ LocalTypes'
  <2>1. \A c \in Caps : offers[c] # None => offers[c].schema \in Schemas
    BY DEF Offer
  <2>2. seen' \in [Threads -> SUBSET Schemas]
    BY <1>2, <2>1 DEF Call
  <2> QED BY <1>2, <2>2 DEF Call, environment, locals, Mine
<1>3. ASSUME NEW t \in Threads, ReloadStat(t)
      PROVE  TypeOK' /\ LocalTypes'
  BY <1>3 DEF ReloadStat, environment, locals, Mine
<1>4. ASSUME NEW t \in Threads, ReloadLoad(t)
      PROVE  TypeOK' /\ LocalTypes'
  <2> DEFINE shown == Shown(Mine(t), file.entries)
             new == [entries |-> shown, signature |-> signature[t]]
  <2>1. /\ shown \in Entries /\ shown = Shown(Mine(t), shown)
        /\ Mine(t) \in Executors
    BY ShownEntries, CallAssumption DEF Mine
  <2>2. cached' = [cached EXCEPT ![Mine(t)] = new]
    BY <1>4 DEF ReloadLoad, Loads
  <2>3. new \in Cache /\ new.entries = shown /\ new.signature = signature[t]
    BY <2>1 DEF Cache
  <2> HIDE DEF new, shown
  <2>4. /\ cached' \in [Executors -> Cache]
        /\ \A e \in Executors : cached'[e].entries = Shown(e, cached'[e].entries)
    BY <2>1, <2>2, <2>3
  <2>5. \A e \in Executors :
           /\ cached'[e].entries \in Entries
           /\ cached'[e].signature \in Versions \cup {None}
    BY <2>4 DEF Cache
  <2> QED BY <1>4, <2>4, <2>5 DEF ReloadLoad, Loads, environment
<1>5. ASSUME NEW t \in Threads, Check(t)
      PROVE  TypeOK' /\ LocalTypes'
  <2>1. wanted[t] \in Caps /\ cached[Mine(t)].entries \in Entries
    BY <1>5, CallAssumption DEF Check, Mine
  <2>2. cached[Mine(t)].entries[wanted[t]] \in Entry
    BY <1>5, <2>1 DEF Check, Entries
  <2>3. cached[Mine(t)].entries[wanted[t]].schema \in Schemas
    BY <2>2 DEF Entry
  <2> QED BY <1>5, <2>2, <2>3 DEF Check, environment
<1>6. ASSUME NEW t \in Threads, ListMatches(t)
      PROVE  TypeOK' /\ LocalTypes'
  BY <1>6 DEF ListMatches, environment, locals, Mine
<1>7. ASSUME NEW t \in Threads, ListDrifted(t)
      PROVE  TypeOK' /\ LocalTypes'
  BY <1>7 DEF ListDrifted, environment, locals, Mine
<1>8. ASSUME NEW t \in Threads, CallTool(t)
      PROVE  TypeOK' /\ LocalTypes'
  BY <1>8 DEF CallTool, Done, environment, locals, Mine
<1>9. ASSUME NEW p \in Refreshers, RefreshCommand(p)
      PROVE  TypeOK' /\ LocalTypes'
  BY <1>9, CallAssumption DEF RefreshCommand, environment, locals, Mine
<1>10. ASSUME NEW p \in Processes, Discover(p)
      PROVE  TypeOK' /\ LocalTypes'
  BY <1>10 DEF Discover, environment, locals, Mine
<1>11. ASSUME NEW p \in Processes, RefreshRead(p) \/ RefreshReadFails(p)
      PROVE  TypeOK' /\ LocalTypes'
  <2>1. NoEntries \in Entries /\ file.entries \in Entries
    BY DEF NoEntries, Entries
  <2> QED BY <1>11, <2>1
     DEF RefreshRead, RefreshReadFails, LocksAndReads, environment, locals, Mine
<1>12. ASSUME NEW p \in Processes, RefreshWrite(p)
      PROVE  TypeOK' /\ LocalTypes'
  <2>1. Merged(p) \in Entries
    BY <1>12, MergedEntries DEF RefreshWrite
  <2>2. file.version + 1 \in 0 .. MaxVersion
    BY <1>12, BoundTypes DEF RefreshWrite
  <2>3. file' \in [version : 0 .. MaxVersion, entries : Entries]
    BY <1>12, <2>1, <2>2 DEF RefreshWrite
  <2> QED BY <1>12, <2>3 DEF RefreshWrite, environment
<1>13. ASSUME NEW p \in Processes, Fail(p)
      PROVE  TypeOK' /\ LocalTypes'
  BY <1>13 DEF Fail, Done, Unlock, environment, locals, Mine
<1>14. ASSUME NEW e \in Executors, Restart(e)
      PROVE  TypeOK' /\ LocalTypes'
  <2> DEFINE shown == Shown(e, file.entries)
             new == [entries |-> shown, signature |-> None]
  <2>1. shown \in Entries /\ shown = Shown(e, shown)
    BY ShownEntries
  <2>2. cached' = [cached EXCEPT ![e] = new]
    BY <1>14 DEF Restart
  <2>3. new \in Cache /\ new.entries = shown /\ new.signature = None
    BY <2>1 DEF Cache
  <2> HIDE DEF new, shown
  <2>4. /\ cached' \in [Executors -> Cache]
        /\ \A x \in Executors : cached'[x].entries = Shown(x, cached'[x].entries)
    BY <2>1, <2>2, <2>3
  <2>5. \A x \in Executors :
           /\ cached'[x].entries \in Entries
           /\ cached'[x].signature \in Versions \cup {None}
    BY <2>4 DEF Cache
  <2> QED BY <1>14, <2>4, <2>5 DEF Restart, Done, Unlock, environment
<1>15. CASE UNCHANGED vars
  BY <1>15 DEF vars, environment, locals
<1> QED BY <1>1, <1>2, <1>3, <1>4, <1>5, <1>6, <1>7, <1>8, <1>9, <1>10,
      <1>11, <1>12, <1>13, <1>14, <1>15 DEF Next, CallStep, RefreshStep

(* A process that keeps its listings and its scope, or drops them, and     *)
(* does not get ready to merge, keeps its listings complete.               *)
LEMMA ListingsUntouched ==
    ASSUME ListingsComplete,
           \A p \in Processes :
              \/ found'[p] = << >> /\ pc'[p] = "idle"
              \/ /\ found'[p] = found[p]
                 /\ p \in Threads /\ pc[p] # "idle" => wanted'[p] = wanted[p]
                 /\ pc'[p] \in {"refresh", "merge"} => pc[p] \in {"refresh", "merge"}
    PROVE  ListingsComplete'
<1>1. DOMAIN << >> = {}
  OBVIOUS
<1>2. ASSUME NEW p \in Processes
      PROVE  /\ \A s \in DOMAIN found'[p], c \in Caps :
                   found'[p][s] # Failed /\ ServerOf[c] = s =>
                       found'[p][s][c] \in Offer \cup {None}
             /\ pc'[p] \in {"refresh", "merge"} => DOMAIN found'[p] = Scope(p)'
  <2>1. CASE found'[p] = << >> /\ pc'[p] = "idle"
    BY <1>1, <2>1
  <2>2. CASE /\ found'[p] = found[p]
             /\ p \in Threads /\ pc[p] # "idle" => wanted'[p] = wanted[p]
             /\ pc'[p] \in {"refresh", "merge"} => pc[p] \in {"refresh", "merge"}
    BY <2>2 DEF ListingsComplete, Scope
  <2> QED BY <1>2, <2>1, <2>2
<1> QED BY <1>2 DEF ListingsComplete

(* Listings are merged only when every server of the scope has been asked  *)
(* (catalog.py, refresh_catalog).                                          *)
LEMMA ListingsKept ==
    ASSUME TypeOK, LocalTypes, ListingsComplete, [Next]_vars
    PROVE  ListingsComplete'
<1> USE CallAssumption DEF TypeOK, LocalTypes, Processes
<1>1. CASE Upgrade
  BY <1>1, ListingsUntouched DEF Upgrade, environment, locals, Mine
<1>2. ASSUME NEW t \in Threads, Call(t)
      PROVE  ListingsComplete'
  BY <1>2, ListingsUntouched DEF Call, environment, locals, Mine
<1>3. ASSUME NEW t \in Threads, ReloadStat(t)
      PROVE  ListingsComplete'
  BY <1>3, ListingsUntouched DEF ReloadStat, environment, locals, Mine
<1>4. ASSUME NEW t \in Threads, ReloadLoad(t)
      PROVE  ListingsComplete'
  BY <1>4, ListingsUntouched DEF ReloadLoad, Loads, environment, locals, Mine
<1>5. ASSUME NEW t \in Threads, Check(t)
      PROVE  ListingsComplete'
  BY <1>5, ListingsUntouched DEF Check, environment, locals, Mine
<1>6. ASSUME NEW t \in Threads, ListMatches(t)
      PROVE  ListingsComplete'
  BY <1>6, ListingsUntouched DEF ListMatches, environment, locals, Mine
<1>7. ASSUME NEW t \in Threads, ListDrifted(t)
      PROVE  ListingsComplete'
  BY <1>7, ListingsUntouched DEF ListDrifted, environment, locals, Mine
<1>8. ASSUME NEW t \in Threads, CallTool(t)
      PROVE  ListingsComplete'
  BY <1>8, ListingsUntouched DEF CallTool, Done, environment, locals, Mine
<1>9. ASSUME NEW p \in Refreshers, RefreshCommand(p)
      PROVE  ListingsComplete'
  BY <1>9, ListingsUntouched DEF RefreshCommand, environment, locals, Mine
<1>10. ASSUME NEW p \in Processes, Discover(p)
      PROVE  ListingsComplete'
  <2>1. PICK s \in Scope(p) \ DOMAIN found[p] :
           \E listing \in {[c \in {d \in Caps : ServerOf[d] = s} |-> offers[c]], Failed} :
             LET asked == DOMAIN found[p] \cup {s}
             IN  /\ found' = [found EXCEPT ![p] =
                       [x \in asked |-> IF x = s THEN listing ELSE found[p][x]]]
                 /\ pc' = [pc EXCEPT ![p] = IF asked = Scope(p) THEN "refresh"
                                            ELSE "discover"]
    BY <1>10 DEF Discover
  <2> DEFINE asked == DOMAIN found[p] \cup {s}
  <2>2. PICK listing \in {[c \in {d \in Caps : ServerOf[d] = s} |-> offers[c]], Failed} :
           /\ found' = [found EXCEPT ![p] =
                 [x \in asked |-> IF x = s THEN listing ELSE found[p][x]]]
           /\ pc' = [pc EXCEPT ![p] = IF asked = Scope(p) THEN "refresh"
                                      ELSE "discover"]
    BY <2>1
  <2> DEFINE new == [x \in asked |-> IF x = s THEN listing ELSE found[p][x]]
  <2>3. found'[p] = new /\ wanted' = wanted
    BY <1>10, <2>2 DEF Discover
  <2>4. DOMAIN new = asked
    OBVIOUS
  <2>5. \A x \in asked, c \in Caps : new[x] # Failed /\ ServerOf[c] = x =>
           new[x][c] \in Offer \cup {None}
    <3> SUFFICES ASSUME NEW x \in asked, NEW c \in Caps, new[x] # Failed,
                        ServerOf[c] = x
                 PROVE  new[x][c] \in Offer \cup {None}
      OBVIOUS
    <3>1. CASE x = s
      <4>1. listing = [b \in {d \in Caps : ServerOf[d] = s} |-> offers[b]]
        BY <3>1
      <4>2. new[x][c] = offers[c]
        BY <3>1, <4>1
      <4> QED BY <4>2
    <3>2. CASE x # s
      BY <3>2 DEF ListingsComplete
    <3> QED BY <3>1, <3>2
  <2>6. pc'[p] \in {"refresh", "merge"} => asked = Scope(p)
    BY <2>2
  <2>7. \A q \in Processes \ {p} : found'[q] = found[q] /\ pc'[q] = pc[q]
    BY <2>2
  <2>8. Scope(p)' = Scope(p)
    BY <2>3 DEF Scope
  <2> HIDE DEF asked, new
  <2>9. /\ \A x \in DOMAIN found'[p], c \in Caps :
              found'[p][x] # Failed /\ ServerOf[c] = x =>
                  found'[p][x][c] \in Offer \cup {None}
        /\ pc'[p] \in {"refresh", "merge"} => DOMAIN found'[p] = Scope(p)
    BY <2>3, <2>4, <2>5, <2>6
  <2>10. \A q \in Processes \ {p} : Scope(q)' = Scope(q)
    BY <2>3 DEF Scope
  <2>11. ASSUME NEW q \in Processes
         PROVE  /\ \A x \in DOMAIN found'[q], c \in Caps :
                      found'[q][x] # Failed /\ ServerOf[c] = x =>
                          found'[q][x][c] \in Offer \cup {None}
                /\ pc'[q] \in {"refresh", "merge"} => DOMAIN found'[q] = Scope(q)'
    <3>1. CASE q = p
      BY <2>8, <2>9, <3>1
    <3>2. CASE q # p
      BY <2>7, <2>10, <3>2 DEF ListingsComplete
    <3> QED BY <3>1, <3>2
  <2> QED BY <2>11 DEF ListingsComplete
<1>11. ASSUME NEW p \in Processes, RefreshRead(p) \/ RefreshReadFails(p)
      PROVE  ListingsComplete'
  BY <1>11, ListingsUntouched
     DEF RefreshRead, RefreshReadFails, LocksAndReads, environment, locals, Mine
<1>12. ASSUME NEW p \in Processes, RefreshWrite(p)
      PROVE  ListingsComplete'
  BY <1>12, ListingsUntouched DEF RefreshWrite, environment, locals, Mine
<1>13. ASSUME NEW p \in Processes, Fail(p)
      PROVE  ListingsComplete'
  BY <1>13, ListingsUntouched DEF Fail, Done, Unlock, environment, locals, Mine
<1>14. ASSUME NEW e \in Executors, Restart(e)
      PROVE  ListingsComplete'
  BY <1>14, ListingsUntouched DEF Restart, Done, Unlock, environment, locals, Mine
<1>15. CASE UNCHANGED vars
  BY <1>15, ListingsUntouched DEF vars, locals
<1> QED BY <1>1, <1>2, <1>3, <1>4, <1>5, <1>6, <1>7, <1>8, <1>9, <1>10,
      <1>11, <1>12, <1>13, <1>14, <1>15 DEF Next, CallStep, RefreshStep

(* A cached signature never belongs to a newer file than the cached        *)
(* entries (executor.py, reload_catalog).                                  *)
LEMMA SignaturesKept ==
    ASSUME TypeOK, LocalTypes, SignaturesNotAhead, [Next]_vars
    PROVE  SignaturesNotAhead'
<1> USE CallAssumption, NoneAssumption DEF TypeOK, LocalTypes, Cache,
        Versions, Processes, SignaturesNotAhead, CacheIsTheFile
<1>1. CASE Upgrade
  BY <1>1 DEF Upgrade, environment, locals, Mine
<1>2. ASSUME NEW t \in Threads, Call(t)
      PROVE  SignaturesNotAhead'
  BY <1>2 DEF Call, environment, locals, Mine
<1>3. ASSUME NEW t \in Threads, ReloadStat(t)
      PROVE  SignaturesNotAhead'
  BY <1>3 DEF ReloadStat, environment, locals, Mine
<1>4. ASSUME NEW t \in Threads, ReloadLoad(t)
      PROVE  SignaturesNotAhead'
  BY <1>4 DEF ReloadLoad, Loads, environment, locals, Mine
<1>5. ASSUME NEW t \in Threads, Check(t)
      PROVE  SignaturesNotAhead'
  BY <1>5 DEF Check, environment, locals, Mine
<1>6. ASSUME NEW t \in Threads, ListMatches(t)
      PROVE  SignaturesNotAhead'
  BY <1>6 DEF ListMatches, environment, locals, Mine
<1>7. ASSUME NEW t \in Threads, ListDrifted(t)
      PROVE  SignaturesNotAhead'
  BY <1>7 DEF ListDrifted, environment, locals, Mine
<1>8. ASSUME NEW t \in Threads, CallTool(t)
      PROVE  SignaturesNotAhead'
  BY <1>8 DEF CallTool, Done, environment, locals, Mine
<1>9. ASSUME NEW p \in Refreshers, RefreshCommand(p)
      PROVE  SignaturesNotAhead'
  BY <1>9 DEF RefreshCommand, environment, locals, Mine
<1>10. ASSUME NEW p \in Processes, Discover(p)
      PROVE  SignaturesNotAhead'
  BY <1>10 DEF Discover, environment, locals, Mine
<1>11. ASSUME NEW p \in Processes, RefreshRead(p) \/ RefreshReadFails(p)
      PROVE  SignaturesNotAhead'
  BY <1>11
     DEF RefreshRead, RefreshReadFails, LocksAndReads, environment, locals, Mine
<1>12. ASSUME NEW p \in Processes, RefreshWrite(p)
      PROVE  SignaturesNotAhead'
  BY <1>12 DEF RefreshWrite, environment, locals, Mine
<1>13. ASSUME NEW p \in Processes, Fail(p)
      PROVE  SignaturesNotAhead'
  BY <1>13 DEF Fail, Done, Unlock, environment, locals, Mine
<1>14. ASSUME NEW e \in Executors, Restart(e)
      PROVE  SignaturesNotAhead'
  BY <1>14 DEF Restart, Done, Unlock, environment, locals, Mine
<1>15. CASE UNCHANGED vars
  BY <1>15 DEF vars, environment, locals
<1> QED BY <1>1, <1>2, <1>3, <1>4, <1>5, <1>6, <1>7, <1>8, <1>9, <1>10,
      <1>11, <1>12, <1>13, <1>14, <1>15 DEF Next, CallStep, RefreshStep

(* Only the holder of the refresh lock replaces the file (catalog.py,      *)
(* _refresh_lock and _write_refreshed_catalog).                            *)
LEMMA MergeKept ==
    ASSUME TypeOK, LocalTypes, MergeIsLocked, [Next]_vars
    PROVE  MergeIsLocked'
<1> USE CallAssumption, NoneAssumption DEF TypeOK, LocalTypes, Processes,
        MergeIsLocked
<1>1. CASE Upgrade
  BY <1>1 DEF Upgrade, environment, locals, Mine
<1>2. ASSUME NEW t \in Threads, Call(t)
      PROVE  MergeIsLocked'
  BY <1>2 DEF Call, environment, locals, Mine
<1>3. ASSUME NEW t \in Threads, ReloadStat(t)
      PROVE  MergeIsLocked'
  BY <1>3 DEF ReloadStat, environment, locals, Mine
<1>4. ASSUME NEW t \in Threads, ReloadLoad(t)
      PROVE  MergeIsLocked'
  BY <1>4 DEF ReloadLoad, Loads, environment, locals, Mine
<1>5. ASSUME NEW t \in Threads, Check(t)
      PROVE  MergeIsLocked'
  BY <1>5 DEF Check, environment, locals, Mine
<1>6. ASSUME NEW t \in Threads, ListMatches(t)
      PROVE  MergeIsLocked'
  BY <1>6 DEF ListMatches, environment, locals, Mine
<1>7. ASSUME NEW t \in Threads, ListDrifted(t)
      PROVE  MergeIsLocked'
  BY <1>7 DEF ListDrifted, environment, locals, Mine
<1>8. ASSUME NEW t \in Threads, CallTool(t)
      PROVE  MergeIsLocked'
  BY <1>8 DEF CallTool, Done, environment, locals, Mine
<1>9. ASSUME NEW p \in Refreshers, RefreshCommand(p)
      PROVE  MergeIsLocked'
  BY <1>9 DEF RefreshCommand, environment, locals, Mine
<1>10. ASSUME NEW p \in Processes, Discover(p)
      PROVE  MergeIsLocked'
  BY <1>10 DEF Discover, environment, locals, Mine
<1>11. ASSUME NEW p \in Processes, RefreshRead(p) \/ RefreshReadFails(p)
      PROVE  MergeIsLocked'
  BY <1>11
     DEF RefreshRead, RefreshReadFails, LocksAndReads, environment, locals, Mine
<1>12. ASSUME NEW p \in Processes, RefreshWrite(p)
      PROVE  MergeIsLocked'
  BY <1>12 DEF RefreshWrite, environment, locals, Mine
<1>13. ASSUME NEW p \in Processes, Fail(p)
      PROVE  MergeIsLocked'
  BY <1>13 DEF Fail, Done, Unlock, environment, locals, Mine
<1>14. ASSUME NEW e \in Executors, Restart(e)
      PROVE  MergeIsLocked'
  BY <1>14 DEF Restart, Done, Unlock, environment, locals, Mine
<1>15. CASE UNCHANGED vars
  BY <1>15 DEF vars, environment, locals
<1> QED BY <1>1, <1>2, <1>3, <1>4, <1>5, <1>6, <1>7, <1>8, <1>9, <1>10,
      <1>11, <1>12, <1>13, <1>14, <1>15 DEF Next, CallStep, RefreshStep

(* By each of its steps a call has established what the next one relies on *)
(* (executor.py, _call).                                                   *)
LEMMA CallsKept ==
    ASSUME TypeOK, LocalTypes, \A t \in Threads : CallSoFar(t), [Next]_vars
    PROVE  (\A t \in Threads : CallSoFar(t))'
<1> USE CallAssumption, NoneAssumption DEF TypeOK, LocalTypes, Processes,
        CallSoFar, MayCall
<1>1. CASE Upgrade
  BY <1>1 DEF Upgrade, environment, locals, Mine
<1>2. ASSUME NEW t \in Threads, Call(t)
      PROVE  (\A u \in Threads : CallSoFar(u))'
  BY <1>2 DEF Call, environment, locals, Mine
<1>3. ASSUME NEW t \in Threads, ReloadStat(t)
      PROVE  (\A u \in Threads : CallSoFar(u))'
  BY <1>3 DEF ReloadStat, environment, locals, Mine
<1>4. ASSUME NEW t \in Threads, ReloadLoad(t)
      PROVE  (\A u \in Threads : CallSoFar(u))'
  BY <1>4 DEF ReloadLoad, Loads, environment, locals, Mine
<1>5. ASSUME NEW t \in Threads, Check(t)
      PROVE  (\A u \in Threads : CallSoFar(u))'
  <2> DEFINE entry == cached[Mine(t)].entries[wanted[t]]
  <2>1. /\ wanted[t] \in Caps /\ cached[Mine(t)].entries \in Entries
        /\ cached[Mine(t)].entries = Shown(Mine(t), cached[Mine(t)].entries)
    BY <1>5 DEF Check, Mine
  <2>2. entry \in Entry /\ Allows(t, entry)
    BY <1>5, <2>1 DEF Check, Entries
  <2>3. wanted[t] \in Visible[Mine(t)]
    BY <2>2, <2>1 DEF Shown
  <2>4. MayCall(t) /\ pc[t] = "check"
    BY <1>5, <2>2, <2>3 DEF Allows, Mine, Check
  <2>5. /\ item'[t] = entry /\ validated'[t] = entry.schema
        /\ pc' = [pc EXCEPT ![t] = "list"]
        /\ UNCHANGED <<offers, wanted, seen>>
        /\ \A u \in Threads \ {t} : item'[u] = item[u] /\ validated'[u] = validated[u]
    BY <1>5 DEF Check, environment
  <2> HIDE DEF entry
  <2>6. CallSoFar(t)'
    BY <2>2, <2>4, <2>5
  <2>7. ASSUME NEW u \in Threads \ {t} PROVE CallSoFar(u)'
    BY <2>5
  <2> QED BY <2>6, <2>7
<1>6. ASSUME NEW t \in Threads, ListMatches(t)
      PROVE  (\A u \in Threads : CallSoFar(u))'
  <2>1. /\ pc[t] = "list" /\ pc' = [pc EXCEPT ![t] = "call"]
        /\ UNCHANGED <<offers, wanted, item, validated, seen>>
    BY <1>6 DEF ListMatches, environment, locals
  <2>2. offers[wanted[t]] \in [schema : {item[t].schema}, supported : BOOLEAN]
    BY <1>6 DEF ListMatches, Matches
  <2>3. item[t].schema \in Schemas /\ validated[t] = item[t].schema
    BY <2>1 DEF Entry
  <2>4. offers[wanted[t]] # None /\ offers[wanted[t]].schema = validated[t]
    BY <2>2, <2>3 DEF Offer
  <2>5. CallSoFar(t)'
    BY <2>1, <2>4
  <2>6. ASSUME NEW u \in Threads \ {t} PROVE CallSoFar(u)'
    BY <2>1
  <2> QED BY <2>5, <2>6
<1>7. ASSUME NEW t \in Threads, ListDrifted(t)
      PROVE  (\A u \in Threads : CallSoFar(u))'
  BY <1>7 DEF ListDrifted, environment, locals, Mine
<1>8. ASSUME NEW t \in Threads, CallTool(t)
      PROVE  (\A u \in Threads : CallSoFar(u))'
  BY <1>8 DEF CallTool, Done, environment, locals, Mine
<1>9. ASSUME NEW p \in Refreshers, RefreshCommand(p)
      PROVE  (\A u \in Threads : CallSoFar(u))'
  BY <1>9 DEF RefreshCommand, environment, locals, Mine
<1>10. ASSUME NEW p \in Processes, Discover(p)
      PROVE  (\A u \in Threads : CallSoFar(u))'
  BY <1>10 DEF Discover, environment, locals, Mine
<1>11. ASSUME NEW p \in Processes, RefreshRead(p) \/ RefreshReadFails(p)
      PROVE  (\A t \in Threads : CallSoFar(t))'
  BY <1>11
     DEF RefreshRead, RefreshReadFails, LocksAndReads, environment, locals, Mine
<1>12. ASSUME NEW p \in Processes, RefreshWrite(p)
      PROVE  (\A t \in Threads : CallSoFar(t))'
  BY <1>12 DEF RefreshWrite, environment, locals, Mine
<1>13. ASSUME NEW p \in Processes, Fail(p)
      PROVE  (\A t \in Threads : CallSoFar(t))'
  BY <1>13 DEF Fail, Done, Unlock, environment, locals, Mine
<1>14. ASSUME NEW e \in Executors, Restart(e)
      PROVE  (\A t \in Threads : CallSoFar(t))'
  BY <1>14 DEF Restart, Done, Unlock, environment, locals, Mine
<1>15. CASE UNCHANGED vars
  BY <1>15 DEF vars, environment, locals
<1> QED BY <1>1, <1>2, <1>3, <1>4, <1>5, <1>6, <1>7, <1>8, <1>9, <1>10,
      <1>11, <1>12, <1>13, <1>14, <1>15 DEF Next, CallStep, RefreshStep

(* Initially nothing is cached with a signature, no call is made and no    *)
(* refresh runs.                                                           *)
LEMMA InitInductive == Init => Inductive
<1> SUFFICES ASSUME Init PROVE Inductive
  OBVIOUS
<1>1. PICK p \in Clients :
         file = [version |-> 0, entries |->
                   [c \in Caps |-> IF ServerOf[c] \in Configured[p]
                                   THEN ToolEntry(p, c, offers[c]) ELSE None]]
  BY DEF Init
<1>2. offers \in [Caps -> Offer \cup {None}]
  BY DEF Init, Offer
<1>3. Client(p) \in Clients
  BY CallAssumption DEF Client, Clients
<1>4. file.entries \in Entries /\ file.version = 0 /\ 0 \in Versions
  <2>1. ASSUME NEW c \in Caps
        PROVE  ToolEntry(p, c, offers[c]) \in Entry \cup {None}
    <3>1. Access[Client(p)][c] \in {"read", "write"}
      BY <1>3, CallAssumption
    <3> QED BY <1>2, <3>1 DEF ToolEntry, Entry, Offer
  <2> QED BY <1>1, <2>1, BoundTypes DEF Entries, Versions
<1>5. file \in [version : 0 .. MaxVersion, entries : Entries]
  BY <1>1, <1>4 DEF Versions
<1>6. \A e \in Executors : /\ cached[e].entries = Shown(e, file.entries)
                           /\ cached[e].entries \in Entries
                           /\ cached[e].entries = Shown(e, cached[e].entries)
                           /\ cached[e].signature = None
  BY <1>4, ShownEntries DEF Init
<1>7. cached \in [Executors -> Cache]
  BY <1>4, ShownEntries DEF Init, Cache
<1>8. upgrades \in 0 .. MaxUpgrades
  <2>1. 0 \in 0 .. MaxUpgrades
    BY BoundTypes
  <2>2. upgrades = 0
    BY DEF Init
  <2> QED BY <2>1, <2>2
<1>9. TypeOK
  BY <1>2, <1>5, <1>6, <1>8 DEF Init, TypeOK
<1>10. LocalTypes
  <2>1. pc \in [Processes -> Steps] /\ \A t \in Threads : pc[t] = "idle"
    BY DEF Init, Steps, Processes
  <2>2. found = [q \in Processes |-> found[q]]
    BY DEF Init
  <2> QED BY <1>7, <2>1, <2>2 DEF Init, LocalTypes
<1>11. ListingsComplete
  <2>1. DOMAIN << >> = {}
    OBVIOUS
  <2> QED BY <2>1 DEF Init, ListingsComplete
<1>12. SignaturesNotAhead
  BY <1>4, <1>6, NoneAssumption DEF Init, SignaturesNotAhead, CacheIsTheFile, Processes
<1>13. MergeIsLocked /\ \A t \in Threads : CallSoFar(t)
  BY DEF Init, MergeIsLocked, CallSoFar, Processes
<1> QED BY <1>9, <1>10, <1>11, <1>12, <1>13 DEF Inductive

LEMMA StepInductive == Inductive /\ [Next]_vars => Inductive'
  BY TypesKept, ListingsKept, SignaturesKept, MergeKept, CallsKept DEF Inductive

LEMMA AlwaysInductive == Spec => []Inductive
  BY InitInductive, StepInductive, PTL DEF Spec

(* Every variable keeps its type; a cached catalog never holds a           *)
(* capability the context hides (executor.py, reload_catalog).             *)
THEOREM CatalogTypes == Spec => []TypeOK
<1>1. Inductive => TypeOK
  BY DEF Inductive
<1> QED BY <1>1, AlwaysInductive, PTL

(* A tool is called only with arguments validated against a schema its     *)
(* server offered during that call, and only as the configuration and the  *)
(* context allow, whatever refreshes, upgrades and restarts happen in      *)
(* between (executor.py, _call).                                           *)
THEOREM CallsCurrent == Spec => []CallsAreCurrent
<1>1. Inductive => CallsAreCurrent
  BY DEF Inductive, CallSoFar, MayCall, CallsAreCurrent
<1> QED BY <1>1, AlwaysInductive, PTL

(* A cached catalog whose signature is that of the file is the file        *)
(* (executor.py, reload_catalog).                                          *)
THEOREM CacheCurrent == Spec => []CacheIsTheFile
<1>1. Inductive => CacheIsTheFile
  BY DEF Inductive, SignaturesNotAhead
<1> QED BY <1>1, AlwaysInductive, PTL

(* An automatic refresh replaces the entries of its own server only,       *)
(* however many refreshes run at once (catalog.py,                         *)
(* _write_refreshed_catalog under _refresh_lock).                          *)
THEOREM OthersKept == Spec => OtherServersKept
<1> DEFINE Keeps(t) == \A c \in Caps : ServerOf[c] # ServerOf[wanted[t]] =>
                          file'.entries[c] = file.entries[c]
<1>1. ASSUME Inductive, NEW t \in Threads, RefreshWrite(t)
      PROVE  Keeps(t)
  <2>1. old[t] = file.entries
    BY <1>1, CallAssumption DEF Inductive, MergeIsLocked, RefreshWrite, Processes
  <2>2. file'.entries = Merged(t) /\ Scope(t) = {ServerOf[wanted[t]]}
    BY <1>1 DEF RefreshWrite, Scope
  <2> QED BY <2>1, <2>2 DEF Merged
<1>2. Inductive /\ [Next]_vars => [\A t \in Threads : RefreshWrite(t) => Keeps(t)]_vars
  BY <1>1
<1> HIDE DEF Keeps
<1>3. Spec => [][\A t \in Threads : RefreshWrite(t) => Keeps(t)]_vars
  BY <1>2, AlwaysInductive, PTL DEF Spec
<1> QED BY <1>3 DEF OtherServersKept, Keeps

(* A tool leaves the catalog only because its server answered without it,  *)
(* or in a refresh command that is not configured for its server, or in    *)
(* one that could not load the catalog while one of its servers answered   *)
(* (catalog.py, _write_refreshed_catalog and _stale_server_entries).       *)
THEOREM OutagesKeepTools == Spec => OutageKeepsTools
<1> DEFINE Allowed(p, c) ==
        \/ /\ ServerOf[c] \in Scope(p)
           /\ found[p][ServerOf[c]] # Failed
        \/ p \in Refreshers /\ ServerOf[c] \notin Scope(p)
        \/ /\ p \in Refreshers
           /\ old[p] = NoEntries
           /\ \E s \in Scope(p) : found[p][s] # Failed
    Leaves(p) ==
        \A c \in Caps : file.entries[c] # None /\ file'.entries[c] = None => Allowed(p, c)
<1>1. ASSUME Inductive, NEW p \in Processes, RefreshWrite(p)
      PROVE  Leaves(p)
  <2> SUFFICES ASSUME NEW c \in Caps, file.entries[c] # None, file'.entries[c] = None
               PROVE  Allowed(p, c)
    OBVIOUS
  <2>1. Merged(p)[c] = None
    BY <1>1 DEF RefreshWrite
  <2>2. CASE old[p] = file.entries
    <3>1. old[p][c] \in Entry
      BY <1>1, <2>2 DEF Inductive, TypeOK, Entries
    <3>2. Access[Client(p)][c] \in {"read", "write"}
      BY CallAssumption DEF Client, Clients, Processes
    <3>3. StaleEntry(p, c, old[p][c]) \in Entry
      BY <2>2, <3>1, <3>2 DEF StaleEntry, Entry
    <3>4. StaleEntry(p, c, old[p][c]) # None
      BY <3>3, NoneAssumption
    <3> QED BY <2>1, <2>2, <3>4 DEF Merged, Processes
  <2>3. CASE p \in Refreshers /\ old[p] = NoEntries
    <3>1. \A d \in Caps : StaleEntry(p, d, old[p][d]) = None
      BY <2>3 DEF NoEntries, StaleEntry
    <3>2. CASE \A s \in Scope(p) : found[p][s] = Failed
      <4>1. p \notin Threads
        BY <2>3, CallAssumption
      <4>2. \A d \in Caps : Merged(p)[d] = None
        BY <3>1, <3>2, <4>1 DEF Merged
      <4>3. NothingToServe(p)
        BY <3>2, <4>2 DEF NothingToServe
      <4> QED BY <1>1, <4>3 DEF RefreshWrite
    <3> QED BY <2>3, <3>2
  <2> QED BY <1>1, <2>2, <2>3 DEF Inductive, MergeIsLocked, RefreshWrite
<1>2. Inductive /\ [Next]_vars => [\A p \in Processes : RefreshWrite(p) => Leaves(p)]_vars
  BY <1>1
<1> HIDE DEF Leaves
<1>3. Spec => [][\A p \in Processes : RefreshWrite(p) => Leaves(p)]_vars
  BY <1>2, AlwaysInductive, PTL DEF Spec
<1> QED BY <1>3 DEF OutageKeepsTools, Leaves
=============================================================================
