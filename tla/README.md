# capability-router: a verification project in TLA+

TLA+ modules of the router's own core logic, TLC configurations that check them on small instances, and proofs that
TLAPS checks for every value of the constants. Paths are relative to the repository; the code is
`src/capability_router/*.py`.

## 1. The system

A *router* is an MCP server that one agent process (Claude, Codex) starts over stdio. It shows the agent one *context*:
a filtered view of the tools and skills that downstream MCP servers and skill directories offer. Contexts live in a
*registry* file that all routers and command-line invocations of a user share; what the downstream servers offer lives in
a *catalog* file that routers and refresh commands share.

| Component | State it keeps | Operations | What makes it correct |
|---|---|---|---|
| Context registry (`contexts.py`, `util.py` `atomic_write`) | registry file (revision, contexts, history of at most 128 changes), lock file, session files | create, move, share, unassign, undo, select; list, explain, history, doctor only read | mutations are indivisible and none is lost; history chains; undo takes back one change; a capability has one assignment per context; a stale expected revision is refused; the file can always be loaded again |
| Context runtime (`runtime.py`) | executor in force, selected context, reported revision, retired executors | start, `context_use`, `context_move/share/unassign/undo`, shutdown | executor, reported context and session file agree, also after a failed switch; a session sees its own writes |
| Executor (`executor.py`) | cached catalog and its signature, active downstream clients, `shutting_down` | search, describe, call (with automatic refresh), load_skill | the cache is the file; a tool is called only with arguments valid for a schema its server offers; no client outlives a shutdown |
| Catalog (`catalog.py`) | catalog file, refresh lock file | refresh of all servers or of one | concurrent refreshes keep each other's entries; an outage alone drops no tool |
| MCP server (`server.py`) | worker slots, in-flight ids, worker threads, signal state | request loop, workers, writing, shutdown | slots never leak; ids in work are unique; a signal ends the server with its status; nothing is left behind |
| Stdio client (`downstream.py`) | child process, reader thread, frame queue, `closed` | initialize, list, call, answer requests, close | a first-in first-out channel from the child to the worker; end of output seen last; close ends |
| HTTP client (`downstream.py`) | next id, session id | post, initialize, list, call | a response belongs to its request; a listing is one whole walk along the server's pages |
| Schema validator (`schema.py`) | work left, remembered verdicts | `schema_supported`, `validate` | agrees with JSON Schema for the supported keywords, also when a limit cuts it short; what it supports it can check |
| Command line (`cli.py`) | none | context commands, refresh, search, init, serve | turns arguments into the operations above |
| Names (`protocol.py`), the public tool (`server.py`), its checks (`executor.py`) | none | advertise, validate a request | what is advertised is what is accepted |
| Configuration, environment (`config.py`, `environment.py`), errors (`errors.py`), launcher | none | parsing, constants | parsing only |

How they interact: a router's main thread reads requests and starts one worker thread for each; the workers share one runtime
(reentrant lock) and its executor (catalog lock). A call opens a client: a stdio client, whose reader thread hands frames to the
worker through a bounded queue, or an HTTP client, which posts one request at a time and which a shutdown cannot interrupt. The
arguments of a call are validated against the schema that the catalog has for the tool; a shutdown closes clients from the main
thread. Across processes the registry is guarded by `flock` on a lock file that is held from load to rename, the catalog by
`flock` on a refresh lock file that is held while old and new entries are merged, but not during discovery. Readers of either
file take it as the last rename left it.

Hard behaviours: several processes on one registry, with crashes between any two steps; several reads of the registry in one
context action; servers that change between discovery, merge, validation and call; automatic refresh in one router against
refresh commands; a catalog that cannot be loaded when a refresh merges; signals that raise an exception between any two steps
of the main thread; two closers of one client; a full queue; an HTTP server that never finishes its answer; a validation cut
short by one of its limits. `PROJECT.json` lists them line by line under `hazards`, with the properties that cover each.

## 2. Modules

| Module | What it is |
|---|---|
| `RegistryData` | documents, availability, the effect of each mutation on a registry file; no state |
| `AtomicRegistry` | abstract specification: every mutation is one step |
| `Registry` | the implementation: processes, `LOCK_EX`, in-memory copy, rename, crashes, `select_context` |
| `ContextRuntime` | router sessions on an atomic registry that other processes mutate at any time |
| `CatalogCall` | reload, policy, validation, drift, automatic refresh, refresh command, lock files, upgrades of servers, restarts |
| `RouterServer` | admission, workers, registration of downstream clients, output failure, signals, shutdown |
| `FrameChannel` | abstract specification: a first-in first-out channel that may lose messages only once it is being closed |
| `StdioClient` | its implementation: child, pipe, reader, bounded queue, worker, two closers |
| `HttpClient` | session, initialization, paginated listing, call |
| `DownstreamClient` | the client of a server, one or the other by its transport |
| `SchemaValidator` | `schema_supported` and `validate`, and JSON Schema itself as their reference |
| `CapabilityTool` | the actions and their fields, the advertised schema, `validate_action` |
| `ToolArguments` | the two boundaries where arguments are checked: of the router's tool, and of a server's |
| `RegistryLemmas` | lemmas on `RegistryData` |
| `AtomicRegistryProofs`, `RegistryProofs` | theorems on the registry, abstract and implemented |
| `ContextRuntimeProofs`, `CatalogCallProofs`, `RouterServerProofs` | theorems on these components |
| `DownstreamClientProofs` | theorems on the client of a server, stdio or HTTP |
| `ToolArgumentsProofs` | theorems on the validator and on the public tool |
| `MC*` | values of the constants for TLC |

`Registry` implements `AtomicRegistry` (`INSTANCE`, the file mapped to itself); `ContextRuntime` uses
`AtomicRegistry!Mutate` for the store, which that refinement justifies. `StdioClient` implements `FrameChannel`
(`INSTANCE ... WITH`): the channel's content is the queue, the chunk in the reader's hands and the pipe, one after the other,
and it is open until a closer sets the stop event. `ToolArguments` checks the advertised schema with the definition of
conformance that the validator is measured by. `CatalogCall`, `RouterServer` and `DownstreamClient` are separate: a worker's
call in `CatalogCall` (`list`, `call`), and in `RouterServer` (`connecting`, `calling`), is the same code seen with different
data, and `DownstreamClient` is what happens inside it.

Each module has its bugs next to its actions: a definition such as `CommitUnguarded` before `Commit`, `PutDropping` before
`Put` or `StaleEntryDropped` before `StaleEntry` is what a plausible slip would have made of the next definition. They are
in no specification; `PROJECT.json` (`mutants`) says which property rejects which of them.

### Correspondence with the code

`PROJECT.json` (`map`) gives the lines of every definition. What is not obvious from it:

* **Registry.** A change id is the revision the change produced. Paths of configuration and environment files and time
  stamps do not occur: no modelled operation reads them. The check of a capability against the context's catalog is an
  `Abort` that may happen. `copy` is the document a process loaded; `Commit` is the change, the append to the history, its
  truncation and the rename, which nothing can see in parts while the lock is held. A crash before the rename leaves the
  old file, after it the new one; a crash of the machine (power loss, lost `fsync`) is not modelled.
* **Context runtime.** `reported` is `registry_revision`, `executor` the context document and the revision it was read at.
  `_build` assigns `registry_revision` as soon as the replacement's files are loaded, before `select_context`, so `UseBuild`
  does. A start reads the session file, the registry, and the registry again for the executor, each in a step of its own
  (`Start`, `Resume`, `Started`). `Elsewhere` is any other process. `Select` is `context use` on the command line, at any time;
  a running router does not notice it, which the history variable `overruled` remembers. Answers carry the revision of the
  change that was committed before the answer, also when the answer is an error: that part is a history variable, the client
  does not see it.
* **Catalog and calls.** Two schemas are the same exactly when their digests are; arguments valid for one schema need not
  be valid for another, so `validated` is the schema they were last validated against. `seen` is a history variable: the
  schemas the server has offered since the call began. `file.version` stands for inode, size and modification time.
  `Fail` is one action for every error of every step; it releases what `with` statements and `finally` clauses release.
  One error does not end its operation: a refresh command that cannot load the catalog while it holds the refresh lock goes
  on as if there had been no entries (`RefreshReadFails`, `catalog.py:302`), and what it writes has only what its servers
  answered. The refresh of a thread's call fails there. A file that later cannot be loaded is not a state of its own: any load may
  fail at any time. That there is no catalog yet is the catalog without entries.
* **Server.** A thread object is used again once it has ended. `Deliver` may run between any two steps of the main thread, as
  Python runs signal handlers. `OutputFailed` is a broken pipe seen by a worker, which sends the process SIGTERM. Lines that the
  main thread answers itself are left out. The shutdown's way through the clients has a step for each of the code's: the copy of
  the executors, then for each of them setting `shutting_down` without the lock, the copy of its clients under
  `active_clients_lock`, and closing one client after the other without it. A worker that registers holds that lock from its
  test of `shutting_down` to the entry (`RegisterTest`, `Register`; the stage `registering` is the lock held), so `Reject`,
  `Discard` and `CopyClients` wait for it. A `context_use` may install another executor after the copy. Its clients are not
  closed: `late` marks the executors installed since. A registered call goes to a child process (`calling`) or to an HTTP server
  (`posting`). The first ends by its deadline or when the shutdown closes it. The second need not end: `_post` gives `urlopen`
  the time that is left, which is the timeout of each socket operation, and `response.read` goes on as long as bytes come;
  `HttpClient.close` does nothing. The response is written (`Answer`) before the id is forgotten (`Forget`), the place released
  (`Release`) and the set of workers left (`End`).
* **Stdio client.** A frame is a response with an id, a notification, a request of the server, or garbage (oversized, not
  JSON, not JSON-RPC). Deadlines are `Timeout` at any time. The stderr thread keeps no state and is left out.
  A closer tests `closed`, sets it and sets the stop event in three steps. The two closers are a worker's `finally` and the
  shutdown of a router. The client's own signal handler (`_handle_termination`) is left out: it is installed in a main
  thread only, hence by a refresh command and never by a worker, and there it interrupts the one thread that works with the
  client. One thing about it a reader should know: between lines 504 and 505 of `downstream.py`, `closed` is set and
  `cleanup_in_progress` is not, so a signal there raises `SystemExit` past the clean-up of the child.
* **HTTP client.** An answer is a status, the session header and what the body turns out to be; one step takes the whole POST.
  Closing is empty, as in the code. How long a POST may take matters to a shutdown and is in `RouterServer`. The listing is the
  same code in both clients and modelled here. `asked` and `given` are history variables.
* **Schema validator.** A schema document maps the identity of every subschema to its keywords; as in JSON, documents are
  trees but for `$ref`. The keywords on strings and numbers (`minLength`, `pattern`, `minimum`, ...) are one set `fits` of the
  values that satisfy them; whether all of a subschema's keywords are known and well-formed is one flag.
  In draft 7 nothing may stand beside `$ref`, but `$schema` may at the root. The work limit, the
  depth limit, the limit on errors and the memo are as in the code, with the same order of evaluation. A JSON value has its
  type and its parts (`JsonValue`); what the proofs need of values is that a part is smaller than the whole. The deadline is a
  smaller amount of work: both end every later operation. An error is `limit` if its text contains `VALIDATION_LIMIT`, as the
  validator reads it back, so a key of the arguments with that text in it (`Marked`) makes any error that quotes it a `limit`.
  The identity of a value in memory is the value and its place.
  Five operators stand for code that calls itself: `Identity`, `Size`, `Examine` (`schema_supported`), `Validate` and, in the
  reference, `Conforms`. They are constants, and what their code does once is a definition, `IdentityStep` and so on; the
  configuration gives each constant that definition, so TLC computes the recursion, and the theorems assume it as an
  equation (section 4).
* **The public tool.** Strings and numbers have names with the properties that the checks look at (empty, longer than a query
  may be, negative, within the limit, written as a float). The advertised schema and `validate_action` are translated
  separately, from `server.py` and `executor.py`.

## 3. Runs

TLC checks each within three minutes on two workers. `pass` runs:

| Run | Checks | Instance, and why it is enough |
|---|---|---|
| `atomic_registry` | `TypeOK`, `HistoryChained`, `NoContradiction`, `ReplyDelivered`, `UndoRevertsOneChange`, `SourcedContextsKeepOthers` | 2 contexts, 2 capabilities of 2 sources, every request, 5 revisions on a history of 3: each context created and three changes of both, undone, with the oldest changes truncated |
| `registry` | `TypeOK`, `LockProtects`, `AcknowledgedSurvive`, `SelectionExplained`, `ImplementsAtomicRegistry`, `GuardedCommitsAreFresh`, `LockReleased` | 2 processes, any crash, 3 revisions on a history of 2: two mutations and a selection overlap in every way, acknowledged changes leave the history, guarded requests meet fresh and stale revisions |
| `context_runtime` | `TypeOK`, `OneContextPerSession`, `ExecutorIsSnapshot`, `ReportedNotOlder`, `ReadsItsOwnWrites` | 1 session and any number of other processes, 2 contexts, 5 revisions: both contexts created, then the session's and foreign changes between every two readings, and undos that remove a context in use; `context use` on the command line at any time |
| `catalog_call` | `CallsAreCurrent`, `OtherServersKept`, `OutageKeepsTools` | a read-only router with one thread and a refresh command that classes a tool differently, 2 servers with a tool each, one upgrade at any time, 2 writes of the file (one each in either order, or two of one), and any load of the catalog that fails; 3 writes were checked once (3.8 million states) |
| `shared_catalog` | `TypeOK`, `CacheIsTheFile`, `LocksReleased` | 2 threads of one router whose context hides one of two tools, one upgrade, 2 writes: one thread writes the file between the two readings of the other |
| `router_server` | `TypeOK`, `SlotsAccounted`, `OneWorkerPerRequest`, `NothingLeftBehind`, `ShutdownClosesClients`, `SignalEndsServer` | 2 slots, 2 thread objects, 2 ids, 2 executors: two workers register, call, answer and leave in any order against each other and the shutdown. A thread gives its place back before it leaves the set of workers, so there may be more threads than places; with a third thread object the invariants were checked as well (1.2 million states), the liveness property takes too long |
| `downstream_client` | `TypeOK`, `ListingIsWhole`, `FramesDelivered`, `EndAfterEverything`, `CloseEnds` | stdio: a queue of 1, so that it is full with the first frame, 2 requests, 2 frames, both closers; HTTP: 2 tools, 3 cursors and 3 pages, so that a listing comes back to a cursor or meets the limit without |
| `tool_arguments` | `TypeOK`, `AcceptedConforms`, `RefusedForCause`, `AdmittedIsCheckable`, `AdvertisedIsEnforced` | every document from a grammar with two subschemas below the root, side by side or one below the other, and two of four subschemas; 10 arguments; work limits of 1, 3, 5, 8 and 40, of which the last is never met; depth 3 (128 in the code), 2 errors (32), 9 subschemas examined (4096), so that each is met. And every request with an action and up to four more fields, and every right shape with one wrong value |

`violation` runs, each a disagreement of the code with the repository's own words (`PROJECT.json`, `findings`):

| Run | Statement | What TLC finds |
|---|---|---|
| `assignments` | `docs/contexts.md`: "Move one capability", "Share it with another context", "Hide it in one context" (`OnlyNamedCapabilityChanges`) | the first inclusion in a context without include lists hides all its other capabilities, and hiding the last one shows them again. `SourcedContextsKeepOthers` shows that one included source is enough to prevent this |
| `guarded_write` | `docs/contexts.md`: "Use `--expected-revision` when an agent must reject a concurrent stale write" (`GuardedWritesSeeTheirContext`) | after a `context_use` whose second half fails, the session reports a newer revision than its executor's; a write guarded with it passes |
| `write_reply` | `docs/contexts.md`: "Each write returns a registry revision and change ID" (`EachWriteReturnsItsRevision`) | the change is committed, the rebuilding of the executor fails, and the client gets that error |
| `termination` | `tests/test_router_contract.py` asserts status 143 for a router terminated by SIGTERM (`TerminationStatus`) | a signal between the entry of a worker into the set and its start makes the shutdown join a thread that was never started: `RuntimeError` |

Bounds are named constants in the guards: `MaxRevision`, `MaxUpgrades`, `MaxVersion`, `MaxFrames`, `MaxRequests`.
`MaxHistory`, `MaxSlots`, `MaxQueue`, `MaxPages`, `MaxDepth`, `MaxErrors` and `MaxExamined` are the code's own limits, made
small. Two schemas are interchangeable, so
`catalog_call` declares a symmetry, and checks no liveness.

Deadlock is checked where a model never stops: `registry`, `catalog_call`, `shared_catalog`, `tool_arguments`. It is not where
the system may really stop, or the bound does: `atomic_registry`, `assignments` and the `ContextRuntime` runs stop at the last
revision, a server exits, a closed client is done.

### Fairness

* `Registry`: between `flock` and its release a process only computes and does file I/O, so it fails, commits or replies
  (`WF`), or is killed. Nothing forces a process to start, or `flock` to be granted to a given one.
* `CatalogCall`: the same for the two steps under the catalog lock and under the refresh lock.
* `RouterServer`: the shutdown and the delivery of signals go on, and so do a worker's steps but two. A call to a child process
  ends by its deadline, at which the client kills the child; a context action needs the registry's lock, which is assumed to be
  granted to it (processes hold it for file I/O only). The two: that a response is written is assumed only once `shutdown_event`
  is set, because a client need not read; and no call to an HTTP server is assumed to end (`PostEnds`), because a server that
  sends a byte now and then is waited for beyond the deadline and a shutdown does not interrupt it. So `SignalEndsServer` has
  that as its hypothesis: if no worker waits for an HTTP server for ever, a signal ends the server. Without the hypothesis it
  does not hold. Neither admission nor input is assumed to go on.
* `StdioClient`: the reader polls, the worker has deadlines, a closer has timeouts, and the worker's `with` block closes
  its client when the call has ended. The child is not fair: it may never write and never exit.

### What the validator's run shows, and what it met

`AcceptedConforms` and `RefusedForCause` compare `validate` with JSON Schema wherever that defines an answer: a limit of any
kind never turns into a match, nor, below an `anyOf` or a `oneOf`, into a mismatch. `AdmittedIsCheckable` relates
`schema_supported`, which the catalog asks, to `validate`, which a call asks. The translation was compared with the Python
code, its limits set to the same values, on all documents, arguments and work limits of the run: errors and limits agreed.

Four things a reader of the code should know:

* An `expected_revision` of `1.0` is an integer for the advertised schema and is refused by `validate_action`, which accepts
  an integral float as `limit`. `AdvertisedIsEnforced` names this one exception.
* A schema in which a subschema applies to the same value by way of itself, such as a definition with an `anyOf` that refers
  back to it, gets a verdict that depends on the order of its alternatives. JSON Schema leaves such schemas undefined;
  `WellFounded` excludes them.
* An `http.client.HTTPException` of one server, as after a malformed status line, ends a whole refresh command, because
  `refresh_catalog` catches `RouterError` and `OSError` only. In `CatalogCall` this is `Fail`: entries are kept,
  but other servers are not refreshed, which no property states. `tests/test_router_contract.py:1542` tries another failure, after
  which they are.
* A refresh command that cannot load the catalog, because it cannot be read or another release wrote it, drops the tools of
  every server that does not answer, if one does. `tests/test_router_contract.py`
  (`test_refresh_discards_invalid_stale_schema_before_publish`) asserts this; `OutageKeepsTools` names it as the one case in
  which an outage costs tools.

## 4. Proofs

Every safety property of a passing run, invariant, action property or refinement, is stated by a theorem; the four liveness
properties are left to TLC. The theorems hold for every
value of the constants: any contexts, capabilities, sessions, processes, servers, threads, request ids and executors, any
schema documents and JSON values, any
length of history, number of places, size of the queue, number of pages, depth, number of errors and amount of work, and any
value of the bounds that TLC needs.
Each inductive invariant was checked by TLC on the instance of its run before it was proved.

They rest on the named assumptions of the modules, which TLC evaluates in every run, and, for the validator, on the equations
of its recursive operators, which are stated in each theorem (below):

| Assumption | Says | Because |
|---|---|---|
| `DataAssumption` | every capability has one source, `Absent` is no document, `MaxHistory` is positive | `MAX_HISTORY` is 128 |
| `RequestAssumption`, `ProcessAssumption`, `SessionAssumption` | the requests are well-formed, `Nothing` is no process | the command line and the tool check them first |
| `CallAssumption` | tools have servers, threads have executors, a refresh command is no thread, every client has a server configured | one configuration file for each |
| `NoneAssumption` | `None` is none of the values it stands beside | it is Python's `None` |
| `ServerAssumption` | there are places and executors | `MAX_INFLIGHT_REQUESTS` is positive |
| `ValidatorAssumption` | a depth and an error are allowed; an absent keyword is neither `additionalProperties: false` nor a truth value | the limits are 128, 32 and 4096 |
| `DocumentsAssumption` | keywords that hold schemas name identities, lists of them are finite; lengths are natural numbers | `_keyword_values_supported`; a schema is a JSON value that was read |
| `ValuesAssumption` | arguments are JSON values: finite trees whose objects have each key once, and a key is a string | they were read from JSON into `dict`, `list` and scalars |
| `ToolAssumption` | the root and an absent keyword are none of the identities and sets of the advertised schema | each stands for itself |
| `ClientAssumption`, `PagesAssumption` | the queue and the limit on pages are at least one, `Nothing` is no cursor | a first page is asked for with `None`, every other with a string |

**Registry**

* `AtomicRegistryProofs!RegistrySafety`: `Spec => [](TypeOK /\ HistoryChained /\ NoContradiction)`; `FileLoads` and
  `ContextsConsistent` are its parts. The conjunction is
  itself inductive, and none of its parts is alone: an undo installs a snapshot, which is free of contradictions only
  because every snapshot in the history is; the history is accepted by the next load (distinct revisions, at most
  `MaxHistory` entries) only because it is numbered up to the current revision.
* `AtomicRegistryProofs!UndoRevertsOne`, `SourcedKeepOthers` and `RepliesDelivered`: the three action properties of the
  `atomic_registry` run, from the same invariant. The first needs the numbering (only one entry has the revision of the
  change) and the links (the entries around it agree on the contexts); the others what `Assign` and `Hide` do to a document.
* `RegistryProofs!RegistrySafety`: `Spec => [](TypeOK /\ LockProtects /\ AcknowledgedSurvive)`, with the parts
  `SharedFileLoads` and `LockIsExclusive`. `Inductive` adds that a
  process has the locals its phase uses, that the file is chained, and that a process about to reply has a change to
  report. The argument: only the lock holder is between load and release, so its copy is the file (`LockProtects`), so
  what it writes extends the file by one entry (`ExtendedEntries`), which pushes out at most the oldest one
  (`ExtendedKeepsRecent`); hence a change that was acknowledged stays until `MaxHistory` newer ones exist.
* `RegistryProofs!GuardedCommits`: `Spec => GuardedCommitsAreFresh`, from `LockProtects`.
* `RegistryProofs!SelectionSafety`: `Spec => []SelectionExplained`. `Selections` strengthens it to the processes between
  the reading of the registry and the writing of the session file, since others commit in between; `ExtendedExplained` is
  the step: a mutation that removes a context is an undo itself, and an older undo stays in the history as long as the
  revision of the selection is within its reach.
* `RegistryProofs!Refinement`: `Spec => ImplementsAtomicRegistry`. `Commit` is `Mutate` of the request because the copy is
  the file; every other step leaves the file alone.
* `RegistryProofs!Inherited`: what is proved of `AtomicRegistry` holds of `Registry`. The theorems of `AtomicRegistryProofs`
  are instantiated, their assumptions shown (`SameAssumptions`), and applied through the refinement. They are not repeated.

`RegistryLemmas` holds the facts on data: what `KeepLast` returns, that `Result` is a map of documents, that `Extended`
keeps a file loadable, chained and consistent, which entries it keeps, and which documents a mutation changes.

**Context runtime** (`ContextRuntimeProofs`)

* `SessionTypes`, `OneContext`, `ExecutorsAreSnapshots`, `RevisionsReported`: the four invariants. They speak of a session
  between actions, and an action reads the registry up to three times while others write it; so the invariant says what each
  phase carries (`Carried`: a replacement that is a snapshot of some revision, and revisions in order) and what is reported in
  every phase (`Reports`); between a start's readings it carries a context that need not exist any more. That what was read
  stays true (`SnapshotKept`) needs the chained history: a mutation adds one entry, whose revision is new, so no executor of the
  past is contradicted by it.
* `OwnWritesAreRead`: at an acknowledgement either the executor was rebuilt from the file as it is after the write, or the
  write did not concern the context; `UntouchedDocument` says that what `Touches` leaves out really is unchanged.
* `SessionsShareRegistry`: sessions and all other processes together are a run of the atomic registry with every well-formed
  request (an agent guards with any revision it was told), so they inherit its consistency and the truth of its replies.

**Catalog and calls** (`CatalogCallProofs`)

* `CallsCurrent`: the call is made steps after the checks. `CallSoFar` says what each step has
  established: from `list` on, that the arguments were validated against the schema of the entry the thread holds, and at
  `call` that this schema is one the server offered since the call began. That `seen` has what the server
  offers now is a conjunct of its own, because an upgrade may fall anywhere.
* `CacheCurrent`: not inductive alone. `SignaturesNotAhead` adds that no signature, cached or just read, is ahead of the file:
  `reload_catalog` takes the signature before it reads, so a file written in between leaves an old signature on newer
  entries, which is harmless; the reverse would not be.
* `OthersKept`, `OutagesKeepTools`: from `MergeIsLocked`, that a process about to replace the file holds the refresh lock and
  has read the file as it still is, or is a refresh command that could not load it and holds no entries, and `ListingsComplete`,
  that it heard of every server in its scope. Discovery runs without the lock; nothing is needed of it.
* `CatalogTypes` needs `LocalTypes`, the types of what a thread carries.

**Server** (`RouterServerProofs`)

* `NoPlaceLost`: `PlacesCounted` counts free places, the workers that hold one (`Cardinality`) and the one under admission,
  up to `MaxSlots`. It is an equation only while the main thread serves: a signal in the middle of an admission loses the
  place, and what remains true is that never one too many is given back (`RoomToGiveBack`).
* `IdsAreUnique`: the ids of the workers that have not answered are in work, and the id just entered is none of them.
* `ExitIsClean`: a thread that exists is in the set that `_join_workers` empties.
* `ShutdownIsThorough`: a client's executor is the current or a retired one; once the shutdown has its copy of the executors, it
  is in the copy or was made later, and a client registers with an executor under a lock. `ClientsClosing` says how far the
  closing is: once the clients of an executor are copied, every client it has is in the copy or closed, because no registration
  is between its test and its entry when the copy is taken, and later ones find `shutting_down` set.
* `ServerTypes` is what makes the counting possible.

**Downstream clients** (`DownstreamClientProofs`, about `DownstreamClient!ClientSpec`, whose client has a child process or none)

* `ChannelImplemented`: `ClientSpec => FramesDelivered`, the refinement of `FrameChannel`. The invariant is `Whole`: as long as
  no closer has begun, what was consumed, the queue, what the reader holds and the pipe, one after the other, are what the
  child wrote, or that and then the end. Each step moves a message across one seam, which is a lemma about sequences
  (`MoveHead`, `SplitConcat`, `LoseMiddle`, ...), or loses one while the channel is being closed; the
  initial state and a stutter need the types only.
* `NothingAfterEnd`: when the worker takes the end, `Whole` leaves nothing behind it (`EndIsLast`).
* `ListingWhole`: from `Walk`. `seen` is what was asked for (`NeverTwice`), so no page is asked for twice; each page follows
  from the one before it (`Linked`). That the listing is the tools of all pages is about `FlattenSeq`, which the community
  modules define as a recursive function; no induction on the number of pages is needed, because a listing is
  its own induction: the invariant carries that such a function exists and is determined for the pages so far (`IsFlat`), and
  `FlatAppend` extends it by a page. (TLC checked the invariant with the equation itself in place of `IsFlat`, which
  quantifies over all functions.)
* `ClientTypes`.

**Validator and public tool** (`ToolArgumentsProofs`)

What recurs is a constant, so a theorem says which equations it uses: `ExamineRecurs` and `ValidateRecurs`, that
`schema_supported` and `validate` are what their bodies say at any depth; `ConformsRecurs`, that JSON Schema's meaning of a
document is what its rules say, only of documents in which no subschema comes back to its own value (`WellFounded`) and of
JSON values; and `IdentityRecurs`, the same of canonical form. Operators with these equations exist: a body uses the constant
only one level deeper, up to `MaxDepth`, or on a smaller value, or on the same value and a subschema further on; and TLC has
them in the `tool_arguments` run.

* `OfferedSchemasAreCheckable`: `Spec => []AdmittedIsCheckable`. `SoundExamine`, by induction from the depth limit up, is what
  a call of `schema_supported` leaves behind when it supports a subschema: for everything it remembers as supported, the
  children are remembered too, or are being examined further up; and without a cycle, one level deeper each. `Admitted`
  concludes that an admitted document has a closed set of schema objects, and, if it is acyclic, of subschemas at depths below
  the limit (`Within`), out of which no step of `validate` leads. That is why the depth is part of the memo's key.
* `AcceptedArgumentsConform`, `ArgumentsRefusedForCause` and `ArgumentsTypeOK`: the invariants `AcceptedConforms`,
  `RefusedForCause` and `TypeOK`. `SoundValidate`, again from the depth limit up, says of every call in such a document that it
  decides its job (`Decides`): no error means that the value conforms, an error other than a limit that it does not, and what
  the memo keeps is as good as a call (`Clean`). One lemma for each part (`CompositionSound`, `EqualitySound`, `ArraySound`,
  `ObjectSound`, `ValueErrorsSound`) and one for the loops, with their early ends (`Progress`), show that each merges verdicts
  without turning one into another. Two conditions carry the argument: both directions together, since a `oneOf` counts both
  matches and mismatches; and the trail of a job (`Trail`), which shows that in a `WellFounded` document the shortcut at
  `schema.py:627`, the same subschema on the same value above, is never taken, because values above are no smaller and
  subschemas above on the same value lead here.
* `AdvertisedSchemaIsEnforced`: `Spec => []AdvertisedIsEnforced`. `RuntimeAgrees`: for every JSON value, `validate_action`
  accepts it exactly if it conforms to the advertised schema and has no revision written as a float. The `oneOf` of the
  advertised schema is a choice by `action`, because the constants of any two alternatives differ; then the two agree field by
  field. It needs no `ValidateRecurs`: it is about the schema's meaning, which `SoundValidate` relates to what `validate`
  computes.
* `CallInv` is the inductive invariant behind all five: an outcome is that of a validation of the request's arguments against
  a document the catalog offers.

**Only model-checked**

* The liveness properties `LockReleased`, `LocksReleased`, `SignalEndsServer` and `CloseEnds`, which need
  `ENABLED` and fairness.
* That the equations of the recursive operators have a solution: the argument above is not a TLAPS proof.

## 5. Not modelled

Search and its ranking, `describe`, skill entries and `load_skill`, the audit log and artifacts, the bounding of responses, and
the content of JSON-RPC messages change no state that the models' properties depend on. Parsing of configuration, environment
files and arguments, `resolve_reference`, patterns, headers, event streams and `read_bounded_line` are functions of strings,
which a unit test reaches. Numbers that are not finite are refused when a message is read. The launcher has no state. File
permissions, process groups, the spawning of child processes and machine crashes are outside the models. A `context_use` by a
router whose catalog does not load is a failure at that step, whatever the cause.

## 6. Order of the work, and what is left

The order was: registry (data, abstract, detailed, proofs), runtime, catalog and calls, server, downstream clients, schema
validator, and then the proofs of these components in the order of section 4. What is left:

1. `OneWorkerPerRequest` and `ShutdownClosesClients` are proved of places and clients; what a worker does inside its call is
   `CatalogCall` and `DownstreamClient`. A common abstraction of a call (it opens a client, it ends) that all three
   implement would connect them.
2. The verdicts of `validate` on schemas in which a subschema comes back to its own value, which depend on the order of
   evaluation, have no reference to be compared with.
3. Search, skills and the bounding of responses (section 5).
