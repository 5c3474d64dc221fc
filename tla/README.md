# Verification of MCP Manager

MCP Manager (`mcp-hub`) is a gateway: many MCP clients on one side, many
downstream MCP servers on the other, and one catalog of tools in between. This
directory holds TLA+ models of its concurrent core, the TLC configurations that
check them on small instances, and TLAPS proofs of the properties that matter
most for every size of the instance. Source paths below are relative to
`src/internal/`.

## 1. The system

| part | state | operations | interacts with |
|---|---|---|---|
| Generation (`manager/types.go`) | admission, closed, active leases, wake-up channel | acquire, release, drain, Close | calls hold leases; coordinator and Stop drain |
| Coordinator (`manager/coordinator.go`) | desired configuration and revision, state, current generation, cached tools, operation in progress, three one-slot channels, two locks | run with its sub-loops, UpdateConfig, Refresh, Stop, onToolListChanged | generation, session, catalog, Manager |
| Manager (`manager/manager.go`) | coordinators by server id | Start, Apply, Preflight, Stop, RefreshServer, AcquireLease | coordinators, publisher |
| Downstream session (`downstream/`) | closed flag, callback and change channels | dial, list pages, call, Close | SDK, coordinator, bridge |
| Catalog (`catalog/`) | tools and rejected tools per server, revision, snapshot | UpdateServerTools, RemoveServer, LookupRoute | publisher, router |
| Publisher (`inbound/publisher.go`) | SDK registry, publishMu | PublishServer, RemoveServer, list middleware, dispatch | catalog, SDK, router |
| Router (`router/router.go`) | none of its own | RouteTool | catalog, lease, session |
| Controller (`runtime/controller.go`) | applied and candidate digests, current configuration | poll, reload, transaction | config file, Manager, Admin |
| Admin API (`admin/`) | sessions, login windows | login, read, put, delete, tokens | controller, config file |
| Config file (`config/atomic.go`) | file, lock file, temporary file | lock, compare and swap, replace | controller, Admin, editors |
| HTTP server (`inbound/http.go`) | SDK sessions | admission, readiness, status | publisher, Manager |
| Bridge (`bridge/bridge.go`) | change counters, local registry | watch, sync, list, dispatch | Hub session, local client |
| Process launcher (`process/`) | process group | start, wait, Close | session |
| Decoding, validation, CLI, network policy, fixtures | none shared | pure functions and one-shot commands | |

What is hard here: a coordinator's goroutine runs against UpdateConfig, Stop,
Refresh, notifications and the death of its session, all of which come from
other goroutines and at any of its steps. Network operations run without locks,
and their results are checked afterwards. Channels have one slot and drop what
does not fit. Two goroutines may drain the same generation. One server's
coordinator may be replaced by another one while the first is still stopping.
The catalog, the SDK registry and the routes are three copies of one thing. The
configuration file is written by the Admin API, by editors, and read by a poll.

What correctness means: only results for the desired revision are published;
what is published is what the configuration allows; a server has one instance
at a time; a call that was admitted keeps its session; Stop is final, ends, and
leaks nothing; no notification is lost; requests are answered; the number of
leases is bounded and exact.

## 2. Modules

| module | role |
|---|---|
| `LeaseGate` | what a generation promises to its calls: a bounded set of leases behind a gate that closes for good |
| `GenerationView` | what a generation promises to its coordinator: drain and Close are two steps |
| `Generation`, `MCGeneration`, `GenerationProofs` | a generation as coded: counter, flags, wake-up channel, drains and closes by several goroutines |
| `Coordinator`, `MCCoordinator` | one downstream server: the coordinator goroutine, its callers, the Manager calls that concern it, the session |
| `CoordinatorTypes`, `CoordinatorProofs` | the proofs about it: the types; the inductive invariant and the theorems |
| `Catalog` | what the publisher promises to the coordinators: one answer at a time, one entry changed, offered tools under names of their own |
| `Publisher`, `MCPublisher`, `PublisherProofs` | the catalog of all servers and the SDK registry that follows it |
| `ConfigTransaction`, `MCConfigTransaction`, `ConfigTransactionProofs` | the configuration file with everybody who reads or writes it |
| `Serve`, `MCServe`, `ServeProofs` | the serving process: admission, calls, generations, shutdown |
| `Bridge`, `MCBridge`, `BridgeProofs` | the stdio bridge of a Hub |
| `Downstream`, `MCDownstream`, `DownstreamProofs` | one stdio server: process, launch, dial, session, listing, Close |

`Serve` composes the parts a call passes through: the HTTP server, the router,
the leases and the end of a generation, and the Manager's Stop. It uses the
generation of `Generation` and the coordinator of `Coordinator` at the level
the calls see them. `ConfigTransaction` composes the Admin API, the controller,
the file and the import command.

### Generation

`active`, `admission`, `closed` and `drainCh` are the fields of the struct;
`Release` is guarded by the lease's `sync.Once`; a drain is the loop of
`Generation.drain` split where it unlocks, with the timer as an alternative to
the token; Close is `closeOnce` with its three effects in order. Every access
under `g.mu` is one step. The generation's context is a child of the
coordinator's (`coordinator.go:476`), so it ends with Close or, at any time, with
`parentEnds`: Manager.Stop gave up its wait, or serving failed. That closes no
admission and wakes no drain. `ImplementsGate` maps the leases held to the leases of
`LeaseGate` and the negated admission flag to its closed gate. `ImplementsView`
maps each drainer to a stage (idle, draining, retired), the session to `open`
and the cancelled context to `dead`; both abstract modules have the end of the
coordinator's context as a step of its own (`Sever`, `Severs`), and what they
promise of a context is that nothing else takes it from an admitted call before
a drain deadline. The steps of `GenerationView` are the ones
`Coordinator` takes in `runDrain`, `runRetire`, `stopDrain` and `stopRetire`, so
this is what justifies modelling a generation there by two flags. The two are
one property of the run, `ImplementsBoth`.

### Coordinator

Program counters name the places where the goroutine can be overtaken: before
each lock, network call and select. What one lock section does is one action.

- `pc` is `run` with `handleDisabled`, `handleConnectingAndReady`, `readyLoop`,
  `refreshTools` and `handleConnectFailure`. The drain and close of a
  generation is written once (`drain`, `retire`), with the place to return to
  in `cont`.
- `spc` is Stop, which the Manager calls and run defers; `mpc` is the Manager
  (Apply without this server: drop, remove the tools, Stop; or Manager.Stop).
- `UpdateConfig` is two steps, the section under `c.mu` and the rest under
  `publishMu`; `upd` holds its locals. `publishMu` is a variable whose value
  says who holds it.
- Generations are slots of `Gens`, reused when nobody refers to them. A session
  is `open` until it is closed and `dead` once its peer is gone; leases are the
  business of `Generation`, so a drain may end at any time here.
- The catalog is the set `published` of this server's tools; `Filter` is what
  the configuration leaves of a list. A configuration is a record of the four
  things `diffConfig` distinguishes: enabled, connection settings, disabled
  tools, call timeout.
- The downstream changes its list (`downTools`) and sends a notification
  (`note`), delivered at any later time by `onToolListChanged`.
  Downstreams that never notify (HTTP sessions are opened without the standalone
  event stream) are outside `NoMissedChange`.
- Left out: diagnostics, error texts, the length of the backoff, the startup
  limiter's count (taking it succeeds or is cancelled).

### Publisher

A publication is `UpdateServerTools` and the registry update that follows, one
step per turn of each loop: filter, direct names, aliases, checks, difference,
RemoveTools, AddTool. `publishMu` is held throughout (`pc` is not "idle"); calls
read the registry without it, so the properties about calls are stated for
every step and those about lists for `pc = "idle"`. A name is a sequence of the
parts that `__` separates, so two servers can form the same public name.
`last` and `before` are history. `ImplementsCatalog` maps the catalog's tables to
the entries of `Catalog` and the publication in progress, up to its difference,
to a request with what it may publish: the tools of its list that have a name
and a valid definition and are not disabled, each under its public name.
PublishServer is then `Ask`, the difference `Answer`, RemoveServer `Remove`, and
every other step a stutter. `Answer` may leave an entry as it is when names and
definitions would not change; the second finding is what that costs.

### ConfigTransaction

A digest is the contents. `file` is what a reader sees, `disk` the set of
contents a power failure may leave, `flock` the kernel lock, `txMu` the
controller's transaction lock. A writer (Admin or import) goes through
`AcquireLock`, the comparison, `replaceFile`, `syncParentDir`, each of which may
fail; the comparison is skipped when there is no digest to expect
(`Unchanged`), which is so for an import that found no file and starts from the
default configuration (`Target`). An Admin write goes on with the reload, which may be refused or cut short
by its timeout, and with the rollback, which takes the same path. The editor
takes no lock. `Poll` needs two equal samples. A crash ends every process of
the Hub and leaves any element of `disk`.

### Serve

A request is turned away by the middleware, or is an initial POST, a call or a
stream. A call is `RouteTool`: lookup, the two steps of the lease, the
downstream call with three contexts that can end, then two looks at them as
separate steps (`checkClient`: has the client left; `classify`: timeout, end of
the generation, the server's answer), Release, record. The client may leave at
any of these steps, also before the call is sent. Generations are numbered; `Retire`, `drain`,
`Close` are the coordinator's part. The end is runServe's order: Shutdown,
Manager.Stop, cancel, exit, under one context of five seconds (`expired`); when
Serve itself fails the context is cancelled first.

### Bridge

`proc` holds the program counters of the start, the watcher and the local list
requests; the list update is written once for the three. `changeSeq`,
`syncedSeq` and `syncNeeded` are the watermark; `changeCh` is the bounded
channel of the session; `dirty` is the flag of ListAllTools. The monitor, the
client's end and the parent's end race with each other. A listing is one
request per step (`fetchPages`): the Hub answers each page from the list it has
at that moment, in the order of the names, and the cursor is the last name of
the page (external: the SDK's server). A list put together from two of the
Hub's lists is therefore possible, and `Listed` says which; the notification of
the change makes the next listing replace it. The checks of cursors and limits
are in `Downstream`. The listing of the start has the deadline `StartupTimeout`;
the watcher's and the requests' listings have none of the bridge's, so the Hub
may leave them waiting. The exit is one of: Hub session terminated, start
failed, cancelled by the parent, client disconnected, error of the local
transport.

### Downstream

`platform` is chosen at the start. The process group (POSIX) or job (Windows)
is the root and a number of descendants that fork and exit as they like. Four
goroutines can close it: the owner (also after a failed dial), the launcher's
context watcher, the session's peer watcher and its lifetime monitor. Close
runs once, with its grace period, SIGTERM, SIGKILL or the job's termination,
and the reap. The launch includes the Windows worker with its bootstrap. The listing
keeps every cursor it has seen and stops at the page and tool limits.

## 3. What TLC checks

| run | instance | shows |
|---|---|---|
| `generation` | 3 callers, limit 2, 2 drainers, the parent context may end | the count is exact, a drained generation stays empty, the last release wakes a drainer, the gate and the coordinator's view are implemented, drains end |
| `coordinator_safety` | 5 configurations, 2 lists, 2 revisions, 2 slots | publication, break before make, Stop, leaks, the session's context, filter and list, notifications |
| `coordinator_stops` | 3 configurations, 2 revisions | the desired state is reached, Stop ends (liveness) |
| `coordinator_refresh` | 2 configurations, 1 Refresh caller, 2 revisions | a Refresh is answered (liveness) |
| `coordinator_removal` | 3 configurations, 1 revision | **violated**: tools of a removed server stay in the catalog |
| `publisher` | 2 servers whose names meet, 6 lists, 2 filters, 4 publications | the catalog's promise is implemented (so names are unique), registry = snapshot, no gap in a tool that stays, routes, limits, every tool accounted for, direct names first |
| `publisher_swap` | 2 servers, 2 lists | **violated**: a route keeps an original name that is no longer listed |
| `config_transaction` | 1 Admin request, 2 imports, 1 edit, 1 power failure, with or without a file at first | no lost write, true answers, the controller's record is what runs, token domains, the file is in the end what runs (liveness) |
| `config_start` | 1 edit during the start | **violated**: an edit between load and digest is never served |
| `serve` | 3 requests of any kind, 1 session slot, 1 call slot, 1 generation | session and call limits, no lease leaked, honest outcomes, drain before cancel, everything ends (liveness) |
| `bridge` | 3 Hub lists of up to 2 tools, pages of 1, 1 local request, channel of 1, 1 failed listing | lists are what one listing returned and never go back, explained exits, the registry catches up (liveness) |
| `downstream` | 2 descendants, 3 page shapes, 2 cursors, limits 4 pages and 2 tools | Close leaves nothing, no page twice, every process serves or is gone (liveness) |

**Bounds.** `MaxRevision` (Coordinator) bounds UpdateConfig: two revisions are
an attempt overtaken by an update; the configurations differ in each of the
ways `diffConfig` distinguishes. The safety properties of Coordinator are also
proved for any number of revisions and Refresh callers, which this instance
does not have. Two slots allow a generation being closed next to one being
opened, which is what `OneInstance` must exclude. Three callers against a limit of two make
the limit bite. `MaxRevision` (Publisher) allows four changes of the catalog:
two servers take a name from each other and give it back. `MaxEdits` and `MaxCrashes` of one
put the edit and the crash at every step of a write and its rollback, and
after them the Hub starts again. With `MaxReqs = 3` an initial POST opens the
session a call needs while a second one waits for `initMu`, or two calls want
the one slot. Three lists let a listing be two versions behind, and pages of one
tool let the Hub change between the two pages of the first two lists: a local
client can be shown an old first tool with a new second one. Two imports that
both find no file write one after the other. Two cursors and
four pages allow a cycle before the page limit; `MsgLimit` of two has messages
below, at and above the limit.

**Deadlock** is not checked: a stopped coordinator, a closed generation, an
exited process really have nothing left to do.

**Fairness.** Each goroutine goes on if it can. A wait for a network operation
ends where the code gives it a deadline: a coordinator's dial and listings, a
call, a reload, the bridge's start. The listings of the bridge's watcher and of
local requests have none, and nothing is assumed of them but that a request on a
session or a context that has ended returns; `BridgeSettles` says what follows
without an answer of the Hub and what with it. `select` chooses at random among ready cases, so a case
that is ready again and again is taken: strong fairness for the cases of
`readyLoop` and for the Refresh case of the backoff. A goroutine that waits for a mutex
obtains it (Go's mutex hands over to a starving waiter): strong fairness for
the Manager's Stop. The poll's ticker keeps firing. Timers fire: the five
seconds of a shutdown, the call timeout, the grace period of Close. The kernel
ends a process that was killed and reports it to the one who waits for it. No
fairness is assumed for what the outside decides: updates, edits, deaths,
forks, clients that leave, servers that answer, callers that give up.

**Three violations** are recorded as findings in `PROJECT.json`.

1. `Manager.Apply` removes a server's tools before it stops its coordinator
   (`manager/manager.go:228`). A discovery that commits in between publishes
   them again, and nothing removes them later. `NoPublishAfterStop` says that
   this is the only way: from the moment Apply drops the server until Stop,
   nothing but a publication that run has begun under `publishMu` puts tools
   back, and after Stop nothing does.
2. `UpdateServerTools` compares encoded definitions, which hold the public name
   and not the original one (`catalog/catalog.go:214`). A tool replaced by
   another with the same public name and definition keeps its old route. The
   lists of the run `publisher` do not hold this coincidence.
3. `NewController` digests the file a second time and takes that digest for the
   applied one (`runtime/controller.go:52`). A file saved between the load and
   this read is not served until the next edit. `PollSeesEveryChange` proves
   that without such a save the digest is always that of the configuration in
   force.

**Known limits of the code**, which the properties state as exceptions or which
no property denies:

- The last `release` leaves one token (`manager/types.go:163`). When Stop and
  run drain one generation at once, the one that misses the token waits for its
  whole drain timeout although no lease is left.
- A refresh caused by a notification that fails or is superseded is not
  repeated (`refreshDropped` in `NoMissedChange`).
- Stop does not wait for an attempt that is connecting, or for a generation
  handleDisabled is draining.
- A reload cut short by its timeout whose rollback fails too leaves the runtime
  different from the file (`diverged` in `FileIsServed`). Reloads remove
  environment values equal to a startup secret; the start does not.
- An expired shutdown context makes Manager.Stop cancel at once, and a failure
  of Serve cancels before Manager.Stop. The contexts of the generations then end
  although their admission may still be open: a call that gets a lease is told
  that the generation has stopped (`Sever` in `LeaseGate`, `expired` and `failed`
  in `DrainBeforeCancel`).
- `RouteTool` looks at its client's context and then at the call's
  (`router/router.go:206`, `:210`). A client that leaves in between is recorded
  as "generation stopped" (`left` in `AnswerIsHonest`).
- An import that found no file writes without a comparison
  (`config/atomic.go:148`): it replaces what has been written since, with an
  entry of the same server id perhaps among it (the last disjunct of
  `NoLostEdit`).
- The bridge's mark can be cleared by an older listing whose successor, the
  watcher's own, then fails (`missed` in `BridgeSettles`), or waits for the Hub
  for as long as the Hub likes (`Stalled`): meanwhile a local tools/list answers
  with the old list and does not ask for a new one.
- Close signals the group id after the root may have been reaped
  (`process/launcher_posix.go:74`); reuse of process ids is not modelled.

## 4. What is proved

TLAPS proves the following for any constants that satisfy the assumptions
named in the modules: configurations are records of the right shape, lists are
sets or sequences of tools, "none" is not a generation or a caller, limits are
positive or natural numbers, the lists of a bridged Hub are functions on finite
sets of names and its pages hold at least one tool, an Admin request is not an import, there are finitely many servers,
and no list of a downstream holds a name twice (`ListAllTools` refuses one that
does, `downstream/session.go:354`). Every safety property and every action
property of the passing runs is a theorem; two need a hypothesis of their own,
see Publisher.

**Generation** (`GenerationProofs`): `TypeCorrect`, `CountIsExact`,
`DrainIsSafe`, `NoLostWakeup`, `CloseRunsOnce`, and `Refinement` (Generation
implements LeaseGate and GenerationView). The inductive invariant adds to the type and the exact count that a
closed or draining generation admits nobody, and that a drainer past its wait
with no timeout saw zero leases and will always see zero. With it
`SomebodyWakes` is inductive: the last `release` leaves a token, and whoever
takes it is awake. The view needs `OnceInv`: the body of Close is run by one
goroutine, and `closeOnce` is done only with the context cancelled and the
session closed, so a second closer that returns finds what the first one left.
The end of the coordinator's context changes nothing of this, because no step of
acquire, drain or Close looks at the context.

**Coordinator**: `CoordinatorTypes` proves the type invariant, with one lemma
per part of the code and one step per part of `TypeOK`. `CoordinatorProofs`
proves every safety property of the passing runs. None of them is inductive.
`IInv` adds:

- `LockInv`: where run is when it holds `publishMu`;
- `RevisionInv`: a revision names one configuration, so that "my revision is
  the desired one" means "my configuration is the desired one";
- `ReadyInv`: only a commit makes the server ready, and every way out says so;
- `SessionInv`: an open generation is the one run holds; an attempt is open only
  between its dial and its commit;
- `OperationInv`: until its commit an attempt is the registered operation;
  afterwards nobody can cancel its context;
- `StopInv`: Stop owns the generation it took until that is drained;
- `UpdateInv`: between its two steps UpdateConfig knows the truth about a server
  that is still ready;
- `ServesInv`, `CatalogInv`: what the ready generation and the catalog agree on
  with the desired configuration, and what UpdateConfig has still to do;
- `ListInv`: what run has listed is current, or a token says that it is not.

The proof that a step preserves `IInv` has one lemma per part of the code and
in it one step per conjunct.

**Downstream** (`DownstreamProofs`): `CloseIsComplete` and `PagesOnce`, for any
number of descendants, any pages and limits. For the first the invariant adds
that past the check of the group whoever is left has been sent SIGKILL (an
empty group stays empty), and that on Windows no descendant exists before the
worker is in its job. For the second it says that every cursor asked for is
the empty one, first, or one of those compared with.

**Publisher** (`PublisherProofs`): `NamesAreUnique`, `RegistryFollowsSnapshot`,
`ToolsStayRegistered`, `DirectNamesComeFirst`, `CapacityIsKept`,
`RoutesAreListed`, `RoutesAreCurrent`, `ToolsAreAccounted` and
`PublisherRefines` (Publisher implements Catalog), for any servers, names,
definitions, limits and lists. `IInv` adds:

- `NamingInv`, the loop invariant of the two passes: what is claimed is what
  the other servers have and what the tools looked at so far were given, and
  each of those got the answer `Decision` defines without the passes;
- `AcceptInv`: what has been accepted is nobody else's, which makes the
  difference keep names unique;
- `RegistryInv`: the snapshot is `Rebuild` of the catalog, and between the
  difference and the last AddTool the registry differs from it by `toAdd` and
  `toRemove` only;
- `BeforeInv`: until the registry is touched it holds what it held when the
  publication began.

`CapacityIsKept` needs `SizeInv` besides: while tools are accepted, those
accepted so far fit beside the tools of the other servers (`FitsIn`). The
lemmas under it say what a sum over a finite set is: it depends on the summands
only, and any one of them can be taken out. The library's induction theorems
cannot be used for this; the lemmas look at the smallest set, by cardinality,
on which they would fail.

The routes, the accounting and the refinement need `ListInv` besides: outside a publication of its own a
server publishes names and definitions of its last list (`Near`); within one,
the filter and the acceptance have dealt with each tool before their index in
one way and not in two (`FilterInv`, `AcceptedInv`), which rests on `OneWinner`:
no two tools with an accepted name have the same one. `RoutesAreCurrent` and
`ToolsAreAccounted` have the hypothesis `Distinguishable`: two tools a server
may list do not have one public name and one definition. Under it a server
publishes the very tools of its last list and mentions the others (`Exact`). It
cannot be dropped: the run `publisher_swap` shows what happens without it. The
lists of the run `publisher` satisfy it. `RoutesAreListed` says what holds
without it: nothing but the original name of a route can be out of date.
`PublisherRefines` does not need it either: what has been accepted when the
difference is made was offered under that name (`AcceptedIsOffered`, from
`FilterInv`, `AcceptedInv`, the decision of the passes and `ValidInv`), and no
difference means the same names and definitions.

**ConfigTransaction** (`ConfigTransactionProofs`): `AdminTokenStaysApart`,
`WritesCompareFirst`, `AnswersAreTrue`, `RecordsAreTrue` and
`PollSeesEveryChange`, for any contents of the file and any number of requests,
imports, edits and power failures. `IInv` adds:

- `TxInv`, `LockInv`: who holds `txMu` and the lock file, and where;
- `DigestInv`: who has a digest to compare. Whatever an Admin request has read
  decodes, so it expects something, in its write and in its rollback; only an
  import that found no file expects nothing;
- `FileInv`: what a writer knows of the file. What it compared with is there
  until it writes, unless the editor came or it compared nothing; what it wrote is there while nobody
  else wrote, after the sync for good, and it is what the reload has read;
- `RunInv`: past the checks of apply the manager runs the configuration about
  to be recorded, and that one has no MCP token equal to the Admin token.

The two action properties follow from `IInv` step by step: only replaceFile
writes for a process, and only the last step of a request answers.

`RecordsAreTrue` needs `StatusInv` besides: between the load and NewController
the manager runs the configuration of the start, and afterwards, while nobody
is inside Manager.Apply, what is recorded as current, unless an Apply was cut
short after it had changed the manager. `PollSeesEveryChange` has the hypothesis that nobody saves the
file between the load and NewController (`ChangeWhileStarting` is false); then
the digest polling compares with is that of the configuration in force
(`TrackInv`). The run `config_start` shows that it cannot be dropped.

**Serve** (`ServeProofs`): `LimitsAreKept`, `IdleHoldsNothing`,
`DrainComesFirst` and `AnswersAreHonest`, for any number of requests, sessions
and generations. `IInv` adds:

- `SessionInv`: whoever has counted the sessions holds `initMu`, and the count
  can only have gone down since;
- `GenInv`: only a current generation admits, and a context ends with Close, or
  because the shutdown expired or Serve failed;
- `RequestInv`: what is known of a call at each point of RouteTool; a call
  context cancelled by nobody but its generation means that the generation's
  context has ended, and it stays ended;
- `RecentInv`: the ring holds calls that have ended, each once, as many as the
  limit allows.

The limits need `LeaseInv` and `LockInv` besides: a generation's counter is the
number of calls between their acquire and their Release (`HoldersChange` says
how each step moves that set), and `initMu` is held by the one initial POST that
is inside its section. With no request under way both are therefore zero, which
is `IdleHoldsNothing`.

**Bridge** (`BridgeProofs`): `ExitsAreExplained` and `ListsNeverGoBack`, for any
sequence of lists, any page size and any number of requests and failures. `IInv`
adds:

- `Exclusion`: `syncMu` keeps the watcher and the requests apart, the start
  comes before both, and `toolsMu` is held from RemoveTools to AddTool;
- `Order`: each of what was shown, the registry and the list about to replace it
  has a window of versions in which it was listed, and these follow each other.
  A listing under way has one too: the tools up to its cursor come from versions
  since it began, later names from later versions. Half-updated, under
  `toolsMu`, the registry is nobody's list, and nothing is said of it;
- `Ending`: why a context has ended at each point where somebody looks at it.

The inductive invariants and their parts named here were also checked with TLC,
as invariants, on the instances of section 3.

**Only model-checked**: the liveness properties (`DrainTerminates`,
`Reconciles`, `StopFinishes`, `RefreshAnswered`, `FileIsServed`,
`EverythingEnds`, `BridgeSettles`, `ProcessEnds`), because the prover treats
neither fairness nor ENABLED.

## 5. Not modelled

- Several servers in one Apply, and two coordinators of one server id (an old
  one that is still stopping and a new one): `Coordinator` has one, and the
  product of two is beyond TLC at bounds that mean anything.
- The Admin API's session and login tables: each check and insertion is one
  critical section. Page rendering, skill downloads, status endpoints: they
  only read.
- Decoding, validation, resolution, import of each field, network policy,
  argument handling: pure functions on text. Where a transaction depends on
  their verdict, the verdict is modelled.
- The HTTP client of a downstream session and the event-stream framing; the
  forwarding of bytes by the Windows worker.
- The MCP SDK, the operating system and the file system are modelled from how
  this code uses them; their definitions are marked external in
  `PROJECT.json`.
- `CollectDownstreamTools` (`catalog/pagination.go`) has no caller outside
  tests. Test fixtures are not part of the product.
