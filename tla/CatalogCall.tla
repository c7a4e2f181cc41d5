----------------------------- MODULE CatalogCall -----------------------------
(***************************************************************************)
(* Calling a downstream tool through the shared catalog file (executor.py, *)
(* catalog.py).  The worker threads of a router share one executor and its *)
(* cached catalog; routers and refresh commands share the catalog file.    *)
(* Discovery asks the servers before the refresh lock is taken, and the    *)
(* servers are upgraded at any time.                                       *)
(***************************************************************************)
EXTENDS Integers

CONSTANTS Caps,         \* tools
          Servers,      \* downstream MCP servers
          ServerOf,     \* the server of each tool
          Schemas,      \* input schemas; equal digests are equal schemas
          Executors,    \* one router process, or one context, each
          Threads,      \* worker threads of the routers
          ExecutorOf,   \* the executor each thread works for
          Refreshers,   \* refresh commands
          Configured,   \* the servers in the configuration of each of them
          Access,       \* how that configuration classes each tool
          ReadOnly,     \* the executors in read-only mode
          Visible,      \* the capabilities each executor's context shows
          None,         \* no entry, no offer, no lock holder, no signature
          Failed,       \* the listing of a server that did not answer
          MaxUpgrades,  \* bound: how often the servers change
          MaxVersion    \* bound: how often the catalog file is written

Clients == Executors \cup Refreshers
Processes == Threads \cup Refreshers

(* What a server lists for a tool.  supported: schema_supported and no     *)
(* required task support; the latter can change while the schema does not. *)
Offer == [schema : Schemas, supported : BOOLEAN]

Entry == [schema : Schemas, available : BOOLEAN, stale : BOOLEAN,
          access : {"read", "write"}]

ASSUME CallAssumption ==
    /\ ServerOf \in [Caps -> Servers]
    /\ ExecutorOf \in [Threads -> Executors]
    /\ Configured \in [Clients -> (SUBSET Servers) \ {{}}]
    /\ Access \in [Clients -> [Caps -> {"read", "write"}]]
    /\ ReadOnly \subseteq Executors
    /\ Visible \in [Executors -> SUBSET Caps]
    /\ {MaxUpgrades, MaxVersion} \subseteq Nat
    /\ Threads \cap Refreshers = {}

(* None, Python's, is no entry, offer, process or signature.               *)
ASSUME NoneAssumption == None \notin Nat \cup Processes \cup Entry \cup Offer

VARIABLES offers,       \* what each server offers for each tool now
          upgrades,     \* how often that has changed
          file,         \* the catalog file; version stands for its signature
          refreshLock,  \* the holder of LOCK_EX on the refresh lock file
          cached,       \* the catalog of each executor and its signature
          catalogLock,  \* the holder of each executor's catalog_lock
          pc,           \* where each process is
          wanted,       \* the tool a thread calls
          signature,    \* the signature a reload read
          item,         \* the entry a thread works with
          validated,    \* the schema it validated the arguments against
          refreshed,    \* whether its call has refreshed the catalog
          found,        \* the listings a refresh has, by server
          old,          \* the entries it read under the refresh lock
          seen          \* history: the schemas offered during the call

environment == <<offers, upgrades>>
locals == <<wanted, signature, item, validated, refreshed, found, old>>
vars == <<environment, file, refreshLock, cached, catalogLock, pc, locals, seen>>

Entries == [Caps -> Entry \cup {None}]

Shown(e, entries) == [c \in Caps |-> IF c \in Visible[e] THEN entries[c] ELSE None]

(* A cached catalog never holds a capability the context hides.            *)
TypeOK ==
    /\ offers \in [Caps -> Offer \cup {None}]
    /\ upgrades \in 0 .. MaxUpgrades
    /\ file \in [version : 0 .. MaxVersion, entries : Entries]
    /\ refreshLock \in Processes \cup {None}
    /\ \A e \in Executors :
          /\ cached[e].entries \in Entries
          /\ cached[e].entries = Shown(e, cached[e].entries)
          /\ cached[e].signature \in 0 .. MaxVersion \cup {None}
    /\ catalogLock \in [Executors -> Threads \cup {None}]
    /\ item \in [Threads -> Entry \cup {None}]
    /\ validated \in [Threads -> Schemas \cup {None}]
    /\ refreshed \in [Threads -> BOOLEAN]
    /\ seen \in [Threads -> SUBSET Schemas]

-----------------------------------------------------------------------------
(* A server changes what it offers for one of its tools.                   *)
Upgrade ==
    /\ upgrades < MaxUpgrades
    /\ upgrades' = upgrades + 1
    /\ \E c \in Caps, offer \in Offer \cup {None} :
          /\ offer # offers[c]
          /\ offers' = [offers EXCEPT ![c] = offer]
          /\ seen' = [t \in Threads |->
                        IF wanted[t] = c /\ offer # None
                        THEN seen[t] \cup {offer.schema} ELSE seen[t]]
    /\ UNCHANGED <<file, refreshLock, cached, catalogLock, pc, locals>>

-----------------------------------------------------------------------------
(* The call action of a worker thread.                                     *)

Mine(t) == ExecutorOf[t]

(* A client calls a tool; execute first reloads the catalog.               *)
Call(t) ==
    /\ pc[t] = "idle"
    /\ pc' = [pc EXCEPT ![t] = "reload"]
    /\ \E c \in Caps :
          /\ wanted' = [wanted EXCEPT ![t] = c]
          /\ seen' = [seen EXCEPT ![t] = IF offers[c] = None THEN {}
                                         ELSE {offers[c].schema}]
    /\ UNCHANGED <<environment, file, refreshLock, cached, catalogLock,
                   signature, item, validated, refreshed, found, old>>

ReloadStatSigning(t) ==
    /\ pc[t] = "reload"
    /\ catalogLock[Mine(t)] = None
    /\ IF cached[Mine(t)].signature = file.version
       THEN /\ pc' = [pc EXCEPT ![t] = "check"]
            /\ UNCHANGED <<cached, catalogLock, signature>>
       ELSE /\ pc' = [pc EXCEPT ![t] = "load"]
            /\ catalogLock' = [catalogLock EXCEPT ![Mine(t)] = t]
            /\ signature' = [signature EXCEPT ![t] = file.version]
            /\ cached' = [cached EXCEPT ![Mine(t)].signature = file.version]
    /\ UNCHANGED <<environment, file, refreshLock,
                   wanted, item, validated, refreshed, found, old, seen>>

(* reload_catalog, under catalog_lock: the signature of the file is read   *)
(* and the cached catalog kept if it is the one it was loaded from.        *)
ReloadStat(t) ==
    /\ pc[t] = "reload"
    /\ catalogLock[Mine(t)] = None
    /\ IF cached[Mine(t)].signature = file.version
       THEN /\ pc' = [pc EXCEPT ![t] = "check"]
            /\ UNCHANGED <<catalogLock, signature>>
       ELSE /\ pc' = [pc EXCEPT ![t] = "load"]
            /\ catalogLock' = [catalogLock EXCEPT ![Mine(t)] = t]
            /\ signature' = [signature EXCEPT ![t] = file.version]
    /\ UNCHANGED <<environment, file, refreshLock, cached,
                   wanted, item, validated, refreshed, found, old, seen>>

Loads(t, entries, newSignature) ==
    /\ pc[t] = "load"
    /\ cached' = [cached EXCEPT ![Mine(t)] =
                    [entries |-> entries, signature |-> newSignature]]
    /\ catalogLock' = [catalogLock EXCEPT ![Mine(t)] = None]
    /\ pc' = [pc EXCEPT ![t] = "check"]
    /\ signature' = [signature EXCEPT ![t] = None]
    /\ UNCHANGED <<environment, file, refreshLock,
                   wanted, item, validated, refreshed, found, old, seen>>

ReloadUnfiltered(t) == Loads(t, file.entries, signature[t])

(* ... otherwise the file, which may be newer by now, is loaded, filtered  *)
(* for the context and cached with the signature from before the read.     *)
ReloadLoad(t) == Loads(t, Shown(Mine(t), file.entries), signature[t])

(* _check_call_policy: the tool is available, its server configured, its   *)
(* class allowed by the mode and the same as in the catalog.               *)
Allows(t, entry) ==
    /\ entry.available
    /\ ServerOf[wanted[t]] \in Configured[Mine(t)]
    /\ Mine(t) \in ReadOnly => Access[Mine(t)][wanted[t]] = "read"
    /\ entry.access = Access[Mine(t)][wanted[t]]

RefreshFailed(t) == Failed \in {found[t][s] : s \in DOMAIN found[t]}

CheckOnce(t) ==
    LET entry == cached[Mine(t)].entries[wanted[t]]
    IN  /\ pc[t] = "check"
        /\ ~RefreshFailed(t)
        /\ entry # None
        /\ Allows(t, entry)
        /\ item' = [item EXCEPT ![t] = entry]
        /\ validated' = [validated EXCEPT ![t] = IF refreshed[t] THEN @
                                                 ELSE entry.schema]
        /\ pc' = [pc EXCEPT ![t] = "list"]
        /\ UNCHANGED <<environment, file, refreshLock, cached, catalogLock,
                       wanted, signature, refreshed, found, old, seen>>

(* The entry is found in the cached catalog, the policy allows it, and the *)
(* arguments are valid for its schema; all over again after a refresh.     *)
Check(t) ==
    LET entry == cached[Mine(t)].entries[wanted[t]]
    IN  /\ pc[t] = "check"
        /\ ~RefreshFailed(t)
        /\ entry # None
        /\ Allows(t, entry)
        /\ item' = [item EXCEPT ![t] = entry]
        /\ validated' = [validated EXCEPT ![t] = entry.schema]
        /\ pc' = [pc EXCEPT ![t] = "list"]
        /\ UNCHANGED <<environment, file, refreshLock, cached, catalogLock,
                       wanted, signature, refreshed, found, old, seen>>

(* The server still lists the tool with the schema of the entry.           *)
Matches(t) ==
    offers[wanted[t]] \in [schema : {item[t].schema}, supported : BOOLEAN]

(* It does, and the router can call the tool.                              *)
ListMatches(t) ==
    /\ pc[t] = "list"
    /\ Matches(t)
    /\ offers[wanted[t]].supported
    /\ pc' = [pc EXCEPT ![t] = "call"]
    /\ UNCHANGED <<environment, file, refreshLock, cached, catalogLock, locals, seen>>

(* It lists another schema, or no such tool: the catalog is refreshed once. *)
ListDrifted(t) ==
    /\ pc[t] = "list"
    /\ ~Matches(t)
    /\ ~refreshed[t]
    /\ pc' = [pc EXCEPT ![t] = "discover"]
    /\ UNCHANGED <<environment, file, refreshLock, cached, catalogLock, locals, seen>>

(* Locks are released by the statements that took them, whatever happens.  *)
Unlock(P) ==
    /\ refreshLock' = IF refreshLock \in P THEN None ELSE refreshLock
    /\ catalogLock' = [e \in Executors |->
                         IF catalogLock[e] \in P THEN None ELSE catalogLock[e]]

(* The processes in P have nothing left to do.                             *)
Done(P) ==
    /\ pc' = [p \in Processes |-> IF p \in P THEN "idle" ELSE pc[p]]
    /\ found' = [p \in Processes |-> IF p \in P THEN << >> ELSE found[p]]
    /\ old' = [p \in Processes |-> IF p \in P THEN None ELSE old[p]]
    /\ wanted' = [t \in Threads |-> IF t \in P THEN None ELSE wanted[t]]
    /\ signature' = [t \in Threads |-> IF t \in P THEN None ELSE signature[t]]
    /\ item' = [t \in Threads |-> IF t \in P THEN None ELSE item[t]]
    /\ validated' = [t \in Threads |-> IF t \in P THEN None ELSE validated[t]]
    /\ refreshed' = [t \in Threads |-> IF t \in P THEN FALSE ELSE refreshed[t]]
    /\ seen' = [t \in Threads |-> IF t \in P THEN {} ELSE seen[t]]

(* call_tool, and the answer.                                              *)
CallTool(t) ==
    /\ pc[t] = "call"
    /\ Done({t})
    /\ UNCHANGED <<environment, file, refreshLock, cached, catalogLock>>

FailKeepingLock(p) ==
    /\ pc[p] # "idle"
    /\ Done({p})
    /\ refreshLock' = IF refreshLock = p THEN None ELSE refreshLock
    /\ UNCHANGED <<environment, file, cached, catalogLock>>

(* Any step fails: the tool is not in the catalog, not allowed or still    *)
(* different, the arguments do not match, the server does not answer, a    *)
(* deadline passes, a file cannot be locked or written, or a thread cannot *)
(* load the catalog; a refresh command goes on then (RefreshReadFails).    *)
Fail(p) ==
    /\ pc[p] # "idle"
    /\ Done({p})
    /\ Unlock({p})
    /\ UNCHANGED <<environment, file, cached>>

-----------------------------------------------------------------------------
(* refresh_catalog: of one server for a thread's call, of all the          *)
(* configured servers for a refresh command.                               *)

Client(p) == IF p \in Threads THEN ExecutorOf[p] ELSE p

Scope(p) == IF p \in Threads THEN {ServerOf[wanted[p]]} ELSE Configured[p]

RefreshCommand(p) ==
    /\ pc[p] = "idle"
    /\ pc' = [pc EXCEPT ![p] = "discover"]
    /\ UNCHANGED <<environment, file, refreshLock, cached, catalogLock, locals, seen>>

(* One server is asked for its tools; it answers, or its turn is an error. *)
Discover(p) ==
    /\ pc[p] = "discover"
    /\ \E s \in Scope(p) \ DOMAIN found[p] :
          \E listing \in {[c \in {d \in Caps : ServerOf[d] = s} |-> offers[c]], Failed} :
             LET asked == DOMAIN found[p] \cup {s}
             IN  /\ found' = [found EXCEPT ![p] =
                       [x \in asked |-> IF x = s THEN listing ELSE @[x]]]
                 /\ pc' = [pc EXCEPT ![p] = IF asked = Scope(p) THEN "refresh"
                                            ELSE "discover"]
    /\ UNCHANGED <<environment, file, refreshLock, cached, catalogLock,
                   wanted, signature, item, validated, refreshed, old, seen>>

RefreshReadUnlocked(p) ==
    /\ pc[p] = "refresh"
    /\ refreshLock' = p
    /\ old' = [old EXCEPT ![p] = file.entries]
    /\ pc' = [pc EXCEPT ![p] = "merge"]
    /\ UNCHANGED <<environment, file, cached, catalogLock,
                   wanted, signature, item, validated, refreshed, found, seen>>

(* The refresh lock is taken and the old entries are those in entries.     *)
LocksAndReads(p, entries) ==
    /\ pc[p] = "refresh"
    /\ refreshLock = None
    /\ refreshLock' = p
    /\ old' = [old EXCEPT ![p] = entries]
    /\ pc' = [pc EXCEPT ![p] = "merge"]
    /\ UNCHANGED <<environment, file, cached, catalogLock,
                   wanted, signature, item, validated, refreshed, found, seen>>

(* The refresh lock is taken and the catalog file read.                    *)
RefreshRead(p) == LocksAndReads(p, file.entries)

NoEntries == [c \in Caps |-> None]

(* The file cannot be read, or another release has written it and it is    *)
(* not valid: a refresh command goes on as if there had been no entries,   *)
(* where the refresh of a thread's call fails.                             *)
RefreshReadFails(p) == p \in Refreshers /\ LocksAndReads(p, NoEntries)

(* _tool_entry: the entry of a tool the server listed.                     *)
ToolEntry(p, c, offer) ==
    IF offer = None THEN None
    ELSE [schema |-> offer.schema, available |-> offer.supported,
          stale |-> FALSE, access |-> Access[Client(p)][c]]

StaleEntryDropped(p, c, entry) == None

(* _stale_server_entries: the entry of a tool of a server that failed.     *)
StaleEntry(p, c, entry) ==
    IF entry = None THEN None
    ELSE [entry EXCEPT !.stale = TRUE, !.access = Access[Client(p)][c]]

(* The new entries: those of the servers asked; a refresh of one server    *)
(* keeps the others, a refresh of all drops servers no longer configured.  *)
Merged(p) ==
    [c \in Caps |->
        LET s == ServerOf[c]
        IN  IF s \notin Scope(p) THEN IF p \in Threads THEN old[p][c] ELSE None
            ELSE IF found[p][s] = Failed THEN StaleEntry(p, c, old[p][c])
            ELSE ToolEntry(p, c, found[p][s][c])]

(* No server answered and nothing old is left to serve.                    *)
NothingToServe(p) ==
    /\ \A s \in Scope(p) : found[p][s] = Failed
    /\ \A c \in Caps : Merged(p)[c] # None => ~Merged(p)[c].stale

(* The file is replaced and the lock released; a thread reloads.           *)
RefreshWrite(p) ==
    /\ pc[p] = "merge"
    /\ ~NothingToServe(p)
    /\ file.version < MaxVersion
    /\ file' = [version |-> file.version + 1, entries |-> Merged(p)]
    /\ refreshLock' = IF refreshLock = p THEN None ELSE refreshLock
    /\ old' = [old EXCEPT ![p] = None]
    /\ IF p \in Threads
       THEN /\ pc' = [pc EXCEPT ![p] = "reload"]
            /\ refreshed' = [refreshed EXCEPT ![p] = TRUE]
            /\ UNCHANGED found
       ELSE /\ pc' = [pc EXCEPT ![p] = "idle"]
            /\ found' = [found EXCEPT ![p] = << >>]
            /\ UNCHANGED refreshed
    /\ UNCHANGED <<environment, cached, catalogLock,
                   wanted, signature, item, validated, seen>>

-----------------------------------------------------------------------------
(* A router is killed and started again: its threads and locks are gone,   *)
(* and its executor is built from the file, without a signature.           *)
Restart(e) ==
    LET dead == {t \in Threads : ExecutorOf[t] = e}
    IN  /\ Done(dead)
        /\ Unlock(dead)
        /\ cached' = [cached EXCEPT ![e] =
                        [entries |-> Shown(e, file.entries), signature |-> None]]
        /\ UNCHANGED <<environment, file>>

(* The servers have been refreshed once and the routers just started.      *)
Init ==
    /\ offers \in [Caps -> [schema : Schemas, supported : {TRUE}]]
    /\ upgrades = 0
    /\ \E p \in Clients :
          file = [version |-> 0, entries |->
                    [c \in Caps |-> IF ServerOf[c] \in Configured[p]
                                    THEN ToolEntry(p, c, offers[c]) ELSE None]]
    /\ refreshLock = None
    /\ cached = [e \in Executors |-> [entries |-> Shown(e, file.entries),
                                   signature |-> None]]
    /\ catalogLock = [e \in Executors |-> None]
    /\ pc = [p \in Processes |-> "idle"]
    /\ wanted = [t \in Threads |-> None]
    /\ signature = [t \in Threads |-> None]
    /\ item = [t \in Threads |-> None]
    /\ validated = [t \in Threads |-> None]
    /\ refreshed = [t \in Threads |-> FALSE]
    /\ found = [p \in Processes |-> << >>]
    /\ old = [p \in Processes |-> None]
    /\ seen = [t \in Threads |-> {}]

CallStep(t) ==
    \/ Call(t) \/ ReloadStat(t) \/ ReloadLoad(t) \/ Check(t)
    \/ ListMatches(t) \/ ListDrifted(t) \/ CallTool(t)

RefreshStep(p) ==
    \/ Discover(p) \/ RefreshRead(p) \/ RefreshReadFails(p)
    \/ RefreshWrite(p) \/ Fail(p)

Next ==
    \/ Upgrade
    \/ \E t \in Threads : CallStep(t)
    \/ \E p \in Refreshers : RefreshCommand(p)
    \/ \E p \in Processes : RefreshStep(p)
    \/ \E e \in Executors : Restart(e)

Spec == Init /\ [][Next]_vars

(* Under a lock a process only does file I/O: it finishes or fails.        *)
Fairness ==
    /\ \A t \in Threads : WF_vars(ReloadLoad(t) \/ (pc[t] = "load" /\ Fail(t)))
    /\ \A p \in Processes : WF_vars(RefreshWrite(p) \/ (pc[p] = "merge" /\ Fail(p)))

FairSpec == Spec /\ Fairness

-----------------------------------------------------------------------------
(* However old the catalog was, a tool is called only with arguments that  *)
(* were validated against a schema its server offered during that call,    *)
(* when the configuration of the router allows the call and its context    *)
(* shows the tool (executor.py, _call).                                    *)
CallsAreCurrent ==
    \A t \in Threads : pc[t] = "call" =>
        LET e == ExecutorOf[t]
        IN  /\ validated[t] \in seen[t]
            /\ e \in ReadOnly => Access[e][wanted[t]] = "read"
            /\ ServerOf[wanted[t]] \in Configured[e]
            /\ wanted[t] \in Visible[e]

(* A cached catalog whose signature is that of the file is the file: no    *)
(* request is served from an outdated catalog because the file was         *)
(* replaced between the reading of its signature and of its content        *)
(* (executor.py, reload_catalog).                                          *)
CacheIsTheFile ==
    \A e \in Executors :
        cached[e].signature = file.version =>
            cached[e].entries = Shown(e, file.entries)

(* An automatic refresh replaces the entries of its own server only, also  *)
(* when another refresh writes at the same time (catalog.py,               *)
(* _write_refreshed_catalog under _refresh_lock).                          *)
OtherServersKept ==
    [][\A t \in Threads : RefreshWrite(t) =>
          \A c \in Caps : ServerOf[c] # ServerOf[wanted[t]] =>
              file'.entries[c] = file.entries[c]]_vars

(* An outage does not empty the catalog: a tool leaves it only because its *)
(* server answered without it, or in a refresh command whose configuration *)
(* has no such server any more, or in one that could not load the catalog  *)
(* while one of its servers answered; never in an automatic refresh        *)
(* (catalog.py, _write_refreshed_catalog and _stale_server_entries).       *)
OutageKeepsTools ==
    [][\A p \in Processes : RefreshWrite(p) =>
          \A c \in Caps : file.entries[c] # None /\ file'.entries[c] = None =>
              \/ /\ ServerOf[c] \in Scope(p)
                 /\ found[p][ServerOf[c]] # Failed
              \/ p \in Refreshers /\ ServerOf[c] \notin Scope(p)
              \/ /\ p \in Refreshers
                 /\ old[p] = NoEntries
                 /\ \E s \in Scope(p) : found[p][s] # Failed]_vars

(* No failure leaves a lock behind: the catalog lock has no timeout, so    *)
(* every later request of the router would wait for it (executor.py,       *)
(* reload_catalog; catalog.py, _refresh_lock).                             *)
LocksReleased ==
    /\ \A e \in Executors, t \in Threads : catalogLock[e] = t ~> catalogLock[e] # t
    /\ \A p \in Processes : refreshLock = p ~> refreshLock # p
=============================================================================
