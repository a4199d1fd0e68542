# Verification of R-IDE

R-IDE is a Theia based IDE in a Tauri shell. Its own program logic is in four
places: the Codex extension (`app/theia-extensions/codex`), the Tauri shell
(`app/applications/tauri/src-tauri`), the product extension
(`app/theia-extensions/product`) and the script that rebuilds `app/` from an
upstream release (`scripts/lib/upstream-sync`). This directory holds TLA+
models of the first two, the TLC configurations that check them on small
instances, and proofs, checked by TLAPS, for every value of their parameters.

| module | models |
|---|---|
| `AppServerHost` | the owner of the one App Server process: `ride-codex-app-server-host.ts` |
| `SoleProcess`, `AppServerHostRefinement` | what that owner promises, one process at a time, and that it keeps the promise |
| `JsonlClient` | the JSON-RPC client of one connection: `ride-codex-jsonl-client.ts`, its framer and validator |
| `ApprovalBroker` | approvals the server asks the user for: `ride-codex-approval-broker.ts` |
| `TurnCoordinator`, `TurnEvents` | turns, interrupts and recovery; the queue of a turn's events: `ride-codex-turn-coordinator.ts` |
| `ThreadCoordinator` | the cache of threads: `ride-codex-thread-coordinator.ts` |
| `AuthBroker`, `AuthController` | the account, and the migration of old API keys |
| `RuntimeStore`, `ManagedInstaller` | managed runtimes on disk, and their installation |
| `RuntimeStager` | consent, download, extraction and attestation: stager, fetcher, consent |
| `RuntimeResolver`, `RuntimeProbe` | which Codex executable is used, and whether it works |
| `EventReducer` | the browser's side of a turn: `ride-codex-event-reducer.ts` |
| `GatewayState`, `GatewayRequests`, `GatewayServer`, `GatewayEvents`, `GatewayHeaders`, `GatewayFiles` | the startup gateway: `startup_gateway.rs` |
| `BackendSupervisor`, `PtyBackend`, `ProcessScope`, `BackendReadiness` | the backend's process tree: `sidecar.rs`, `startup.rs`, parts of `lib.rs` |
| `LaunchIntents`, `Downloads`, `PluginInstall` | `launch_intent.rs`, `download.rs` |
| `MCAppServerHost`, `MCApprovalBroker`, `MCManagedInstaller` | instances for TLC |
| `MCSession`, `MCTurns`, `MCCodex`, `MCShell` | several parts in one run, each behaviour of one of them |
| `AppServerHostProofs`, `JsonlClientProofs`, `ApprovalBrokerProofs`, `TurnCoordinatorProofs`, `ManagedInstallerProofs`, `BackendSupervisorProofs`, `CodexProofs`, `ShellProofs` | theorems and proofs |

`PROJECT.json` maps each definition to the lines it translates and lists the
runs, the mutants, the hazards, the findings and the theorems.

## 1. Inventory

Paths are below `src/`. "Hard" names what is hard to test.

### Codex, backend (`app/theia-extensions/codex/src/node`)

**App Server host** (`ride-codex-app-server-host.ts`, modelled). State: the
life-cycle state, generation number, leases and the count of approval leases,
the connection, the promises of a start and of a stop, restart attempts, an
idle timer. Operations: `acquire`, `release`, `request`, `retry`,
`restartGenerationForRecovery`, `abortServerRequestGeneration`, `dispose`;
timers; exit and stdio failure of the child. All coordinators below hold leases
of it and listen to its state. Hard: every operation spans several awaits, and
a crash, a late exit or another operation may come at each; a child may refuse
to die; restart is allowed once and never while an approval is open. Correct
when the host never loses or doubles its process, counts exactly, answers every
waiter and leaves nothing behind.

**JSONL client** (`ride-codex-jsonl-client.ts`, `-jsonl-framer.ts`,
`-message-validator.ts`, modelled). State: next id, pending requests with their
timers, requests of the server that it still owns, `closed`. Operations:
`request`, `notify`, `respond`, `respondConfirmed`, data, exit, dispose. Hard:
late or duplicate answers, ids that run out, listeners that fail after somebody
else answered, a write that throws in the middle. Correct when each promise
settles once and each server request is answered once.

**Approval broker** (`ride-codex-approval-broker.ts`, modelled). State: five
sets of requests (acquiring, admitting, authorizing, pending, responding),
sessions with their context and revision, file scopes. Operations: a server
request, connection, context and decision of a browser client, `turn/completed`,
file scopes, timers, dispose. Hard: capacity is reserved across awaits, an
admission may wait for another's end, decisions race with timers, contexts and
new file scopes. Correct when no acceptance is stale, no lease leaks and every
request leaves.

**Turn coordinator** (`ride-codex-turn-coordinator.ts`, 3463 lines, modelled
but for the normalization of items). State: the one active turn with
its lease and id, the recovery barrier and the restart it may leave behind, the
known generation, the clients, the queue of events with its identity.
Operations: `startTurn`, `steerTurn`, `interruptTurn`, `connectClient`,
disconnection, `dispose`; notifications and host state changes. Hard: the
answer to `turn/start` and the notifications of the turn come in either order;
an interrupt races its timer, the end of the turn and the loss of the process;
a recovery is bounded by one deadline although the restart it asked for is not;
events are dropped at the limit of the queue. Correct when a turn is served
until it ends, ends once, its promises and its events say the same, leases
return, and nothing starts while a restart could hit it.

**Thread coordinator** (`ride-codex-thread-coordinator.ts`, modelled). State:
threads with revisions, tombstones of archived ones, statuses that came before
their thread, an eviction floor, the selected thread and its lease, operations
in flight. Hard: an answer is older than the notifications that overtook it,
and what was evicted forgot its revision. Correct when an archived thread stays
away, a status never goes back, and every client is told.

**Auth broker** and **controller** (`ride-codex-auth-broker.ts`,
`ride-codex-auth-controller.ts`, modelled without rate limits). State: the
account's snapshot and its revision, the newest caller's operation, the refresh
that follows a notification, known logins, a lease; the controller's scan of
old preferences. Hard: reads, logins and cancellations overlap with each other
and with notifications; a key is removed from the preferences while the user
edits them. Correct when a superseded answer is not shown, the lease returns,
and a key goes only when the server has it.

**Runtime store**, **managed installer**, **stager**, **fetcher**
(`ride-codex-runtime-store.ts`, 2558 lines, `-managed-installer.ts`,
`-runtime-stager.ts`, `-runtime-fetcher.ts`, `-install-consent.ts`, modelled).
State: on disk `versions/`, staging and quarantine directories, `active.json`
and `pending-activation.json`; in memory a root lock, consents and the
installation under way. Hard: a crash or a failure between any two file
operations; another program changes what is being checked. Correct when what is
served passed its handshake, a reported outcome is true, crashes are recovered,
and what is published is what was consented to, reviewed and run.

**Resolver** and **probe** (`ride-codex-runtime-resolver.ts`,
`-runtime-probe.ts`, modelled). State: the resolution in flight and the queued
one, a kept success, a generation; the child of a probe with three timers.
Hard: callers share a resolution that an invalidation or the deadline
overtakes; a child may ignore its kill. Correct when an answer is what
configuration and disk demand and no older than the call, and each command
settles once.

Not modelled: diagnostics (redaction and a bounded ring of texts), the SDK
adapter, the packaged smoke driver, the dependency injection (it shows that one
host is shared by everybody, which the models assume) and the generated
protocol schemas.

### Codex, browser

**Event reducer** (`ride-codex-event-reducer.ts`, modelled without the trimming
of retained items). State: the batches that wait for an animation frame, and
what is shown. Hard: batches of an old turn come late and the queue is bounded.
Correct when the newest turn is shown in order and a loss is told. The control
model and the contributions are not modelled.

### Tauri shell (`app/applications/tauri/src-tauri/src`)

**Startup gateway** (`startup_gateway.rs`, modelled without bodies and parsing).
State: the backend's generation and phase, waiters, leases, tunnels,
connections, the session, the bound static files. Hard: real threads; the
backend dies or a retry begins while requests wait or upgrade; the listener is
bound against a deadline. Correct when a request is served by the generation it
came in, permits return, nothing is left listening and only bound files leave.

**Sidecar and startup** (`sidecar.rs`, `startup.rs`, the retry coordinator of
`lib.rs`, modelled without Windows' job objects). State: the owned process
tree, the stop under way, the cleanup gate. Hard: a stop meets a start, an exit,
a failed kill or the end of the application; a port may be a stranger's.
Correct when a tree is owned until it is dead, and what is called ready is
watched.

**Launch intents** (`launch_intent.rs`, modelled), **downloads** and **plugins**
(`download.rs`, modelled). Hard: threads take tickets and emit out of the lock;
a download is cancelled while it ends; a directory is replaced by two renames.
Correct when intents come once and in order and a target or plugin is whole.
Startup metrics and the smoke driver are not modelled.

### Other parts, not modelled

Open requests and deferred features of the product extension, its frontend, the
launcher (two idempotent file writes), the updater (events of
`electron-updater`), the upstream sync engine (`engine.mjs`, two renames with a
backup), build, measuring and release scripts, and the prototype.

### How the parts interact

```
 browser session --RPC--> turn / thread / auth coordinators --leases--+
        |                                                             v
        +--RPC--> approval broker --approval lease--> AppServerHost --spawn--> codex
                        ^                                  |   JsonlClient <--stdio--+
                        +------ server requests -----------+
                     resolver, probe --executable--^
        managed installer --> runtime store --active.json--> resolver

 window --HTTP--> startup gateway --proxy--> Theia backend (process tree)
                        ^   retry |              ^
                        +--ready--+-- supervisor -+ spawn, watch, stop
```

The host is the only shared state of the Codex backend. A client acquires a
lease, sends requests through it, and hears state changes and notifications
through listeners that run synchronously in the host's task. The broker's
approval leases forbid an automatic restart, because a restarted server would
have forgotten what it asked. The resolver reads the store's pointer without
its lock, which is why `ManagedInstaller` has a reader that may stop between
its reads. In the shell the gateway's generation numbers the starts of the
backend; `BackendSupervisor` and `GatewayRequests` share it through
`GatewayState`.

## 2. Plan

Done: the models of the table above and their runs; the proofs of section 6.

Left:

1. `ThreadCoordinator` and `EventReducer` merge lists with folds; their
   properties would need lemmas by induction over a sequence, which the prover
   cannot use. A model of the same merges as sets of facts could be proved about.
2. `DeferredFeatures` and `UpstreamSync`, small modules of their own.
3. A composition of `TurnCoordinator` with `AppServerHost` instead of the
   host's interface, when a small enough instance is found: with one lease and
   two generations the product is already beyond TLC.

Each run answers one question; components whose questions are small share one
run, in which each behaviour belongs to one part (section 4).

## 3. How the models correspond to the code

### Atomicity and the event loop

The backend is one JavaScript thread. An action is the code from one await to
the next; it contains every synchronous call, listeners included. What follows
an await is a *continuation*: an action of its own, enabled by a program
counter. Continuations are microtasks, and the event loop runs them all before
the next timer, stdio event or process exit, which is the guard `Quiescent`.
Calls of clients are not restrained by it, because they may come from
continuations of the clients themselves. The order among queued continuations
is left open in both models, which allows more than the engine does.

### `AppServerHost`

The variables are the class's fields; a generation number stands for the
connection and the process it started, since a generation creates at most one
of each. `published` are the connections created, `alive` the children that
run, and `startPc`, `exitPc` and `pc` say where `#startGeneration`,
`#handleConnectionExit` and each call of a client stand.

* `EnsureStarted` is `#ensureStarted` with its loop: a caller joins a stop, a
  start, or begins a start; after a stop it looks again (`EnsureAgain`).
* `SpawnSucceeds` ... `StartRejects` are the parts of `#startGeneration`;
  `StopConnection`, `StopConfirmed`, `GraceExpires`, `KillGraceExpires` and
  `StopSettles` those of `#stopConnection`; `ChildExits`, `StdioFails`,
  `ExitWaitConfirmed`, `ExitWaitExpires` and `ExitRestartSettles` those of
  `#handleConnectionExit`.
* Two branches of the code are modelled though no state reaches them: the
  connection `dispose()` finds after a start it waited for, and a stop that was
  already finalized. They are defence in depth.
* Two parameters state conditions on the surroundings. `IdleOutlastsWork`: the
  idle timeout is longer than any start or stop. It is so with the defaults; the
  packaged smoke sets 250 ms (`ride-codex-backend-module.ts:53`), and the runs
  that need no such condition have it FALSE. `ClientsUseTasks`: clients acquire
  and release in tasks of their own and not in the continuation of somebody
  else's stop. Both are assumed only where the idle timer is the question, and
  in the liveness run; without them the timer may stay unarmed until the next
  release.

### `JsonlClient`

Requests have numbers, and `outcome` says how the promise of each stands.
`MaxRequestId` is the code's largest safe integer: the run takes 2, so that
the exhaustion of the ids is reached. The server may send anything at any time;
`breaches` records, for one property, whether it has done something an honest
server never does (`unfit`) or merely answered after the timeout (`late`).
Bytes, framing and schemas are abstracted to a message that is admitted or one
that is not. `MaxAsks` bounds the requests under one id and the unsettled
writes. Notifications call listeners and change nothing here.

### `ApprovalBroker`

`stage` says in which of the five sets a request is; the code has five maps
with one key in at most one of them. `pc` is where `handleServerRequest` of the
request stands. `Reserve`, `LeaseGranted`, `MakeCapacity`, `Admit`,
`Admitted` and `AuthorizeFile` are its parts; `MakeCapacity` evicts the
oldest card, waits for an eviction or an admission, or gives the generation up.
`Settle` is the common way out (`#settle`, `#respondAndRelease`): the answer is
handed over, the entry is `responding` until the write is confirmed
(`ResponseSettles`) or its timer ends it (`ResponseTimesOut`). Tracked file
scopes are versions: `shown` is the one a card was made from, `scope` the
newest. The host is its interface: ready or not, a generation, requests that
the client still owns, acquires that settle in any order. In `Collide` the
branch for an equal key of another generation cannot be reached.

### `TurnCoordinator`

A turn is its sequence number, and the server's id for it is the number of the
turn whose request it answers, so that `turnId[t] # t` means that turn `t` has
another turn's id. All turns are of one thread: with several, the thread id
tells the notifications apart already. `start`, `interrupt` and `recPc` say
where `#startTurn`, `#interruptTurn` and `#recoverPersistentThread` stand;
`lease` follows a lease from the host's promise to its release, and `recLease`
that of a recovery, which may outlive it. `restart` is the host's restart: while
it is pending and its recovery is over, it is `#recoveryRestartQuarantine`.
`log` keeps the boundary events (started, ended) and recovery diagnostics that
are given to `#enqueue`; `srv` is what the server does for a request.
`FinishActive` is `#finishActive`, with the events and the recorded result
that its callers choose. Continuations are not put before other tasks in this
module: every order is allowed, which is more than the engine does. The host is
its interface: `stopped` stands for all states without a process to come, each
change is reported at once, and acquires and restarts settle in any order. After
`dispose()` the code forgets the barrier; the model keeps it, which nobody can
see any more.

### `TurnEvents`

The queue of a turn's events, `#queueMetadata` and the list of a client that has
not taken its last batch. A delta is a number, the text of an item the numbers
it joins, so that a lost or repeated one shows. `MaxPending` is the code's four
batches; `MaxBatchEvents` is three in the run, since with the allowed minimum of
two text is lost in silence. The byte limit of a client's list may be exceeded
only by the ends of turns. `silenced` records the drop records that
`makeRoomForBoundary` deletes: a loss in them is never told, and `LossIsTold`
says so. One client that does not reconnect.

### `ThreadCoordinator`, `AuthBroker`, `AuthController`

The server writes one ordered stream of answers and notifications, and what it
writes is true at that moment; the coordinator reads it in its own time. A
request is asked, answered by the server, and resumed. In `ThreadCoordinator`
`archived`, `notified` and `reverted` are histories: a status may go back in two
ways that tests exclude (section 5, notes), and `StatusIsFresh` is stated but
for them. In `AuthBroker` `overrun` marks an operation whose continuation
overwrote a newer notification. The controller's removal of a preference is
compare, update and read again, with the user's edits between them
(`overwritten`).

### `RuntimeStore` and `ManagedInstaller`

A step is one change of the disk with the checks before it. A crash may come
between any two, each change may fail before or after it took effect (a failed
directory sync), and a tree may be damaged. A tree is one staged runtime; two
trees may have one directory name (`PathOf`). `op`, `pc`, `tx` and `then` say
where the store's operation stands; they are lost by a crash, the disk is not.
The installer is recover, stage, publish, activate, handshake, finalize and the
ways back; `verified` and `ready` are histories. The reader takes no lock.

### `RuntimeStager`, `RuntimeResolver`, `RuntimeProbe`

A file is known by an identity that each change alters; another program may
change one between any two steps. A change of the extracted tree may give it any
flaw that can be in a tree and makes it no longer `genuine`; if it comes before the
first attestation the code takes it for the baseline, and `PublishedIsAttested`
promises no more than that the tree which was attested, and run, is published, and
that a tree nobody changed is the reviewed one. Consents have a clock. The resolver's world is
a record of what is configured and installed; `MCWorld` lists eleven machines,
one of which may become another. It evaluates `PATH`, the setting and the managed
store in the code's order under one deadline, and `calm` records whether the
world stood still. A deadline during an override is reported as a configuration
error and during the managed runtime's check as "unavailable", as in the code.
The probe's child may ignore every signal.

### `EventReducer`

Batches of four identities of turns arrive in any order; `pending` is rebuilt
with every batch, and a frame applies it. `newest` is a history of what was
accepted of the newest turn. Where the queue has room for nothing but the ends
of turns a loss is silent; `LossIsTold` excepts that.

### The shell

`GatewayState` is the generation and phase that requests and supervisor share.
`GatewayRequests` has connections that carry one request after another, permits
for waiters and tunnels, and the session. `GatewayServer` is the bind against
its deadline, accept, shutdown, abort and drop; its tasks are real threads and
any of them may run. `GatewayEvents` is the event stream between the broadcast
ring and the browser, `GatewayHeaders` the classification and rewriting of one
request and its answer, `GatewayFiles` the walk that opens a bound file.

`BackendSupervisor` is the backend with direct pipes on Unix: start, readiness,
publication, watcher, cleanup, the bounded stop under the cleanup gate, the
retry coordinator and the application's shutdown. `Running` stops everything at
the application's exit. `PtyBackend` is the same backend on a pseudo terminal,
`ProcessScope` the killing of a process group whose members fork, and
`BackendReadiness` the choice of the transport and the probe of a port that a
stranger may hold. `LaunchIntents` has threads that take tickets and emit out of
the lock, `Downloads` tasks with permits, flags and a part file each,
`PluginInstall` the copies and renames that replace a plugin. A download's flag is
looked at under one lock and its failure written under another (`Reports`,
`FailsTask`), and a plugin whose installation fails makes its completed download a
failed one (`Installs`). `PluginInstall` lets each file operation fail whose result
is ignored: the removal of the shared directory of copies may leave files there
(`Clears`, `dirty`), the older version may not come back (`PutsBack`, `stranded`),
and staging directories, backups and part files may stay (`LeavesStaging`,
`Settles`, `litter`). `RetryCompletes` of `GatewayRequests` answers a retry and drops its
flag in one step; in the code the answer is sent first and the flag dropped at once
after it, and a retry that another thread submits between the two is refused, like
one that came a little earlier.

## 4. Runs

| run | instance | question |
|---|---|---|
| `host_safety` | host: 2 leases, one of them an approval, 3 generations; account: 2 callers, 2 events; migration: 2 keys, 2 preferences, 2 edits; events: 2 turns, 2 deltas, 2 items | safety of every interleaving of the host, and its refinement of `SoleProcess`; what the user is shown of account and turn |
| `host_live` | 1 lease, 2 generations, fair, both conditions of section 3 TRUE | does everything settle? |
| `host_circuit` | as `host_safety`, 2 generations | finding |
| `broker_clients` | 2 places, 1 generation, 2 revisions of a session's context; 3 requests, one of them for a file, before 1 session, or 1 request before 2 sessions | capacity, contexts, displaced clients, stale decisions, disposal |
| `live` | broker: 2 requests, 2 places; turns: 1 turn, 2 clients, 3 generations; fair | does every approval leave, every call and recovery end? |
| `turn_safety` | 2 turns, 1 client that may reconnect, 2 generations | service, leases, recovery, order of events, results |
| `turn_crossed` | 2 turns, 1 generation | finding |
| `install` | 4 trees, the first and the last with one path, 1 fault, 1 crash, 1 damage; fair | is the disk what it is said to be, and does an installation end? |
| `install_refused` | 2 trees, 1 fault | finding |
| `codex` | JSONL client, stager, probe, threads, resolver, reducer | correlation, staging, freshness, and that all ends |
| `shell` | the twelve parts of the shell | ownership, the gateway's limits, the services, and that all ends |
| `shell_stale` | supervisor: 2 generations | finding |

In `host_safety`, `live`, `codex` and `shell` a behaviour belongs to one `part`,
chosen at the start; the variables of the others keep an initial value. A
property that ranges over parts is the conjunction of the properties of the part
at hand, each stated in the part's module:

| property | of |
|---|---|
| `SessionIsTrue` | account: `ShownIsTrue`, `AuthenticatingIsOpen`, `LeaseIsReturned`; migration: `OnlyConfirmedKeysGo`, `RemovalIsReported`, `DisposedHasEnded`, `MigratedWasClean`; events: `LimitsHold`, `BoundariesArrive`, `InOrder`, `LossIsTold` |
| `PartsAgree` | client: `WaitingIsTimed`; stager: `FailureIsClean`; probe: `PendingIsTimed`; threads: `ArchivedStaysAway`, `StatusIsFresh`, `ClientsAreTold`, `LeasesAreActive`; resolver: `AnswersAreFresh`, `KeptLasts`, `BestIsChosen`, `NothingLate`; reducer: `WaitingHasFrame`, `NewestIsShown`, `TextIsInOrder`, `LossIsTold` |
| `PromisesSettleOnce` | client: `SettlesOnce`; probe: `CommandsSettleOnce`; reducer: `ShownGoesForward` |
| `StagingIsSound` | stager: `PublishedIsAttested`, `RequestsAreConsented` |
| `ProcessesAreOwned` | terminal: `PtyIsOwned`; scope: `ScopeIsEmpty`; readiness: `BackendIsFound`, `ReadinessIsTruthful` |
| `ServicesAreSound` | requests: `RequestsAgree`; server: `NothingIsLeftListening`; headers: `HeadersAreNormal`; files: `ServedIsBound`; intents: `IntentsInOrder`; downloads: `TargetsAreWhole`; plugins: `PluginsAreWhole` |

`BackendIsOwned` of the supervisor (`TreesAreOwned`, `ExitLeavesNothing` and
`ReadyIsWatched`) is a property of its own in `shell`: it is true of the other
parts too, in which no backend is started.

**What they show.** *Host*: a child that runs is always the owned one, also
after a failed shutdown (`ChildAuthority`); the count that vetoes restarts is
exact (`UnsafeCountExact`); `ready` means what it says (`ReadyMeansServing`);
nobody waits for what is not under way (`WaitsAreAnswered`); after `dispose()`
nothing starts (`DisposalIsFinal`); a circuit without a process is closed by a
retry only (`EmptyCircuitNeedsRetry`); operations settle
(`OperationsSettle`), idle processes stop (`IdleProcessStops`), and a
connection broken by its protocol is replaced if the child honours end of file
(`BrokenClientIsReplaced`; of a child that does not, the code promises nothing). *Client*: each server request is answered once
(`AnsweredOnce`), and only a server that broke the rules or answered late is
shut down for a protocol error (`HonestServerIsKept`). *Broker*:
`CapacityRespected`, `LeasesAccounted`, `CardsAreOwned`,
`AcceptanceIsCurrent`, `DisposalDrains`, `RequestsLeave`. *Turns*: an active
turn with a lease is served by a ready host of its generation (`TurnIsServed`);
only the active turn and the running recovery keep leases
(`TurnLeasesAccounted`); no turn is active beside a recovery or a restart it
left behind (`RecoveryIsAlone`); the process of a turn whose interrupt was not
confirmed serves no later turn unless the failed recovery was reported
(`UncertainIsRecovered`); events come in order and once (`BoundariesInOrder`)
and promises agree with them (`ResultsAgree`); calls settle (`CallsSettle`) and
recoveries end (`RecoveryEndsEventually`). *Installations*: a runtime that is
served passed its handshake (`ServedIsVerified`); nothing but damage takes a
ready one away (`ReadyIsKept`); what is reported is on disk (`OutcomeIsTrue`);
the recovery accepts what crashes leave (`CrashesAreRecovered`); every
installation ends (`InstallSettles`). *Supervisor*: each process tree that may
live is the registered one and in somebody's hands, the application's exit
leaves none, and a backend that is called ready has a watcher
(`BackendIsOwned`). *Gateway*: waiters and tunnels keep within their permits,
a request is served by the generation it came in, and after the end nothing is
left (`RequestsAgree`). `PartsSettle` and `ShellSettles` say of
the small parts that each duty one of them has taken on ends.

**Bounds.** Three generations of the host are a process, its automatic restart,
and one more after a retry or a recovery: each path of the breaker is taken. Two
leases are one that forbids restarts and one that does not, and two clients that
join one start or stop. Two generations suffice for liveness, where the question
is whether an operation that meets a crash or a stop ends. `InBudget` guards the
environment and the launch itself; if the bound left an operation hanging in the
middle, `OperationsSettle` would fail. Three requests on two places meet
overflow, eviction, waiting and collision. The first revision of a session's
context shows the turn, without which there is no card, and the second
(`MaxRevision` 2) changes the context under a card; one new file scope
(`MaxScope` 1) makes a card stale in the other way. `MaxClients` is one, so that
a second session displaces the first one with its card: `MCInit` starts with all
three requests before one session or with one request before two, because both
at once are too many states. The proofs of `ApprovalBrokerProofs` have no such
bounds. Two turns are
one that is abandoned or uncertain and the one that follows; two generations are
the process before and after a recovery, and three let it be lost during one.
Four trees are a first installation, two more and one that takes the directory
name of the first again; one fault, one crash and one damage meet at every pair
of steps (the invariants of the proof were also checked with two faults and with
three crashes). In the shell two generations are a backend and its retry, and one
failure a kill or a reaping that must be repeated; `ForceAfter` is one there and
three in the code. Two connections and one waiter's permit meet the limit; two
downloads have one target; three threads deliver three intents. In `codex` the
cache holds one thread of two, so that each merge may evict.

**Deadlock** is not checked: disposed hosts, closed clients and exited
applications really stop, and the bounds stop the rest. That nobody waits for
ever is checked by the properties that end in `Settle`, and by `RequestsLeave`,
`RecoveryEndsEventually`, `IdleProcessStops` and `BrokenClientIsReplaced`.

**Fairness.** Continuations run (weak). In the host the resolver, the handshake
and the timers of a stop are bounded by the code's own timeouts and get strong
fairness, since a continuation may close the gap between two tasks over and over
and only an endless chain of microtasks could starve them. The idle timer may be
cancelled by an acquire, so it gets weak fairness. Nothing is assumed of clients
or of the child; `BrokenClientIsReplaced` has the child's exit at end of file as
its hypothesis (`ExitsAtEof`). The JSONL client and the probe assume only that
armed timers fire. The broker assumes its continuations, among them that the host
settles every acquire (what `OperationsSettle` shows), its clock and its two
timers, and that a process whose pipe is closed exits; it does not assume that a
user decides or that a write is confirmed. The turn coordinator assumes the same,
that the host settles each acquire and each restart, that its client settles each
request, and that the timers of an interrupt and of a recovery fire. An
installation assumes that its next step is taken. The resolver assumes that its
deadline expires, that an aborted probe ends and that a queued resolution
starts; file reads need no fairness. In the shell each task of the runtime is
scheduled (weak fairness of each task's step); nothing is assumed of the backend,
the browser or the user.

## 5. Findings

* **A late exit closes an open circuit** (`host_circuit`, host:722). When stdio
  fails and the kill is not confirmed in time the circuit opens; if the leases
  are then released, the late exit sets the state to `stopped`, and the next
  acquire starts a process although no `retry()` was called. The design and two
  tests require an explicit retry. `EmptyCircuitNeedsRetry` shows the part
  that does hold.
* **A turn takes the id of an abandoned one** (`turn_crossed`,
  coordinator:791). `turn/started` is matched by thread only. If a client
  disconnects before its turn is announced and another turn is started on the
  thread, the late announcement names that turn: it fails when its own response
  arrives, or reports the other turn's end as its own. A test promises that
  cross-turn and late notifications are ignored.
* **A recovery refuses for ever** (`install_refused`, store:1457). When the
  directory sync after the deletion of the spent journal fails, the journal is
  written back although its candidate is already gone, and each later `recover()`
  rejects that state. A comment says that the cleanup can be retried safely.
* **A stale retry stops the new backend** (`shell_stale`,
  startup_gateway.rs:1839). The gateway reads its snapshot and submits the retry
  later; if another retry was answered in between, the backend it started is
  stopped, and the gateway goes on calling it ready.

Notes: behaviour met while modelling, which the properties except by name.

* Threads: `listThreads` checks the eviction floor once for a page whose merge
  may itself evict, so that a later entry brings an old status back (214-229,
  488-516); a status that waits for its thread survives a merge with a newer one
  and is taken by a duplicate `thread/started` (494-512, 523-530).
* Account: the continuation of a logout or of a key login may overwrite a newer
  notification and drop its refresh; `cancelLogin` before any read shows
  "unauthenticated". Migration: a user's edit between comparison and update of a
  preference is overwritten.
* Events: a drop record that is deleted to make room for a turn's end is never
  told; at the reducer's smallest queue its warning may not fit.
* A response that arrives after its timeout is an unknown id and closes the
  JSONL connection. `turn/completed` does not settle an approval that is still
  being acquired or admitted, which then becomes a card of an ended turn.
* A damaged active runtime cannot be repaired by a managed installation. With
  two faults a spent journal may be restored when it no longer concerns the
  active runtime: the store is stuck, but what is served is unharmed.
* Downloads: a download cancelled after its flag was last read that then fails
  stays "canceling" (download.rs 564-580). Plugins: overlapping installations of
  one plugin share a directory and may publish a half-copied one (1230-1274).
* Plugins: results of file operations are ignored. If the older version cannot be
  put back, the plugin is left without one beside a stray backup (1263-1265); if the
  shared directory cannot be emptied, files of an earlier copy are installed with the
  new ones (1244). `PluginsAreWhole` excepts `stranded` and `dirty`, and nothing
  else.
* A download that is cancelled between the look at its flag and the report of its
  failure is shown as failed although `cancel` answered true (564-580);
  `TargetsAreWhole` says that this gap is the only one (`late`).
* The stager publishes a tree that another program changed after its extraction and
  before the first attestation (stager 189-194, 254), if the change keeps manifest,
  executable and version as they must be when they are looked at.
* Shell: if a stop's kill fails while the root lives, nobody kills again before
  the next stop.

## 6. Proofs

All are for every value of the constants, from the one named assumption of each
module (`HostAssumption`, `ClientAssumption`, `BrokerAssumption`,
`TurnAssumption`, `StoreAssumption`, `SupervisorAssumption`, `ShellAssumption`,
`CodexAssumption`): finite sets of leases, requests, sessions, connections and
consents, limits that are natural numbers (buffers and queues of at least one
place), and names that differ (a download is not the word for "absent"). Each
file proves that an inductive invariant holds initially, is kept by each action
(one lemma or step per action) and implies the properties. `ShellProofs` and
`CodexProofs` are about the compositions `MCShell` and `MCCodex`: each part has
an invariant of its own over its own variables, and a step of the composition is
a step of one part, or of none.

* `AppServerHostProofs`. `HostInv` is `TypeOK`, `AuthorityInv` and
  `ServingInv`. `ChildAuthority` alone is not inductive: it needs that a
  published generation is at most the current one, that only the generation
  under way is unpublished, and that a finalized connection has exited.
  `ReadyMeansServing` needs what each program counter of a start knows.
  `ApprovalCountIsExact` has an invariant of its own (`CountInv`) and the
  cardinality of a finite set. `HostImplementsSoleProcess` maps each action to
  a step of `SoleProcess` or a stutter.
  Relative to `HostInv`, `WaitsAreAlwaysAnswered` needs
  to know that the restart at the end of an exit handler finds no stop of its
  connection: `ReadyInv` (a generation that serves is neither starting nor being
  stopped) and `ExitPendingInv` (the process whose exit a handler waits for is
  the latest, or gone before the next is spawned). `DisposalIsAlwaysFinal`
  needs `DisposalInv` (what each place of `dispose()` has already ended) and
  `KillInv` (a process is declared lost only after it was killed).
  `CircuitsNeedRetry` is an action property: one lemma per action.
* `JsonlClientProofs`. `AnsweredOnce` and `WaitingIsTimed` are inductive with
  the types; `SettlesOnce` adds that a fresh id is unused, and
  `HonestServerIsKept` that what an honest server received and has not answered
  is still open or timed out.
* `ApprovalBrokerProofs`. `EntryInv` ties the sets to the program counters and
  the leases, `CardsAreOwned` is inductive with it, and `DisposalInv` says
  what is empty while `dispose()` waits. From these follow `CapacityRespected`
  (the reservation counts in every set), `LeasesAccounted`,
  `ReservationsAreDriven`, `AcceptanceIsCurrent` and `DisposalDrains`.
* `TurnCoordinatorProofs`. `ServeInv` strengthens `TurnIsServed` to leases that
  are granted but have not arrived, and adds that the known generation is the
  host's; `TurnLeasesAccounted` and `RecoveryIsAlone` are inductive with it.
  `UncertainIsRecovered` needs `RecoverInv`: what a recovery has reached
  (`ProgressInv`), what an interrupt relies on (`ControlInv`), and that until a
  recovery ends its turn is the queue's identity. Most steps are `Ordinary`: one
  lemma shows that such a step keeps the invariant. For the log of events,
  `StepIsBooked` shows that each step leaves the log alone or adds one of seven
  kinds of entries, and `LogInv` is kept by each kind: beside the order itself
  it says that only the newest turn is active and nothing is told of a later one
  (`NewestInv`), that the active turn was announced if and only if it has an id
  and has not ended (`OpenInv`), and that nothing was told after the end of a
  turn whose recovery is under way (`BarrierInv`). `ResultInv` follows the ends
  (`EndInv`), their way through the calls in flight (`FlowInv`) and what promises
  have been given (`PromiseInv`). From them follow `BoundariesAreInOrder` and
  `ResultsAlwaysAgree`.
* `ManagedInstallerProofs`, for any number of trees, faults, crashes and
  damages. `ServeInv` says what the program counters of the store's calls know
  (`CallInv`), what the journal as read has to do with the one on disk
  (`TxInv`, `JournalInv`), and how far a commit (`CommitInv`) and a pending
  activation (`PendingInv`) have come; with it `ServedIsVerified` is inductive.
  `OutcomeIsAlwaysTrue` adds where the operations that end an installation can
  be (`EndInv`) and what the installation remembers (`PreviousInv`,
  `VersionInv`, `ProofInv`). `ReadyIsAlwaysKept` adds that nothing on disk is
  newer than the installation (`AgeInv`, `BaseInv`), that the candidate of a
  spent journal has left `versions/` (`SpentInv`) and where the pointer is
  (`PointerInv`). `CrashesAreAlwaysRecovered` is about behaviours without faults
  and damage (`Clean`): the disk of each journal is one that a crash can leave
  (`ExplainedInv`), at most one spent journal is left over (`LeftoverInv`), and
  so the recovery never refuses.
* `BackendSupervisorProofs`, for any number of retries, failed killings and
  attempts of the shutdown. `BackendIsOwned` is not inductive. While the
  application runs `Safe` holds. A tree that may live is the registered one, or
  its start has reserved the ownership and is about to register it (`OwnedInv`,
  `PendingInv`); it has one name and is of the newest generation (`NamedInv`),
  of a later one nothing has begun (`FreshInv`); cleanups and watchers belong to
  an owned tree, and one hands it to the other (`CleanerInv`, `WatcherInv`). The
  gate is held by the one stop under way (`GateInv`), retries end with the
  shutdown (`EndInv`), and after a successful stop nothing is owned until a start
  is reserved again (`StoppedInv`). A retry finds a failed generation or an older
  one (`AskInv`), so nobody stops a generation that starts or is ready unless a
  stale retry, the finding `shell_stale`, overtook it (`CalmInv`); with what is
  published (`PublishedInv`) this gives `ReadyIsWatched`. After the exit nothing
  is pending, and a tree that was not reaped is dead (`Ended`). TLC checked both
  with `MaxGeneration` 3, `MaxFailures` 2 and `ForceAfter` 2 (5.4 million
  states).
* `ShellProofs`. The theorems `ProcessesAreAlwaysOwned` and
  `ServicesAreAlwaysSound` state the two invariants of the run `shell` for any
  number of children, messages, connections, threads, downloads and plugins. By
  part:
  * supervisor: `SupervisorInv` of `BackendSupervisorProofs`;
  * pseudo terminal: `PtyIsOwned` needs to know who may still kill and reap
    (`PtyTurns`), that the tree stays registered while one of them has it in hand
    (`PtyHeld`), and that who reaps has killed (`PtyRoot`);
  * scope: `ScopeIsEmpty` needs that the root never leaves its own group
    (`ScopeRoot`) and is dead when a kill is confirmed (`ScopeKilled`);
  * readiness: a listener that has stood since the round began is the backend's
    and is what the table showed (`ProbeStood`), only direct mode reads the
    tables (`ProbePlan`), and the port is published last (`ProbePublished`);
  * requests: a lease is for the generation the request came in
    (`RequestLeases`); the retry flag is up exactly while one connection, and no
    other, retries (`RequestRetry`); draining leaves tunnels only, and their
    registry then takes no new one (`RequestDrain`); the session costs the
    capability; the sets of permits are bounded, by the cardinality of a finite
    set with one element more (`RequestPermits`);
  * server: there is an accept task only behind a bind that came so far, and none
    that accepts behind a launch that gave its gateway up (`ServerLaunch`); a
    listener is open until its task stops (`ServerListens`);
  * event stream, headers, files: the capacities of ring and channel, the names
    that each stage of an exchange has removed or checked (`HeaderForwarded`,
    `HeaderReturned`), and that what a walk has bound so far was no link
    (`FilesBound`, `FilesOpened`);
  * launch intents: every step is one of five kinds (`IntentStepsAreThese`). Every
    scheduled ticket is still to come and was not given up (`IntentOpen`), which
    needs that passing a turn on skips no ticket that is open (`TurnMoves`), and
    tickets are in the order of arrival (`IntentOrdered`); so emissions are
    (`IntentEmitted`);
  * downloads: of two downloads to one target one is over or was cancelled before
    its last look at the flag (`DownloadAlone`), so what was reported early never
    writes (`DownloadEarly`, `DownloadFile`), and a cancelled download is shown as
    failed only through the gap between look and report (`DownloadReported`);
  * plugins: without overlap one installation uses the shared directory, and it
    holds that one's files alone, or more where it could not be emptied
    (`PluginHolds`, `PluginCopied`); a version stays aside only until the rename is
    settled or where it could not be put back (`PluginAside`), so that a target
    that held a version holds one, or somebody has it aside (`PluginTarget`).
* `CodexProofs`. `StagingIsAlwaysSound` states a property of the run `codex`;
  `PartsAlwaysKeepFaith` and `CommandsAlwaysSettleOnce` state the conjuncts of
  `PartsAgree` and `PromisesSettleOnce` that the prover can reach. By part:
  * JSONL client: `ClientInv` of `JsonlClientProofs`;
  * stager: the lock is the head of a queue in which no consent stands twice
    (`StagerQueue`), so that what a consent has paid for is what the installation
    has requested (`StagerRequests`); each check excludes its flaws for good
    (`StagerChecked`); the version attested is at most the one that was run, and
    that at most the one on disk (`StagerVersions`), so that a second attestation
    equal to the first encloses the run (`PublishesAttested`); a tree nobody changed
    has kept what the checks of the archive found; and a failed staging leaves something
    only by a fault or another program (`StagerDir`);
  * probe: `PendingIsTimed` is inductive with the types;
  * resolver: a caller waits for a resolution of its call's generation or a later
    one (`ResolverWaits`, `ResolverTold`); past the deadline only a probe is still
    waited for, and no success follows (`ResolverInTime`);
  * thread coordinator: a lease is held by an active request only
    (`LeasesAreActive`), inductive with the shape of a request.

TLC agrees that each part's invariant holds on the instances of the runs `shell`
and `codex`. Two definitions were
rewritten so that they can be reasoned about, with the same meaning:
`LaunchIntents` names the tickets a turn skips by a predicate (`SkipsFrom`)
instead of computing them, and `PluginInstall` parenthesises `Tree`.

Checked by TLC only:

* every liveness property: liveness and ENABLED are out of the prover's reach;
* `SessionIsTrue` of the run `host_safety`: `TurnEvents` is written with recursive
  operators, and no theorem may reach one;
* of `PartsAgree`, the reducer's conjuncts (its queue is merged by folds and
  flattened), `ArchivedStaysAway`, `StatusIsFresh` and `ClientsAreTold` of the
  thread coordinator (a list is merged by a fold and filtered), `BestIsChosen` of
  the resolver (the discovery folds over the directories), with the types of
  these three parts; of `PromisesSettleOnce`, `ShownGoesForward` of the reducer.
  What a fold or a filter yields for every sequence is an induction over data.

## 7. Limits

The contents of messages, their schemas, redaction, logging and event payloads
are not modelled; neither is a clock or a scheduler that throws. Windows is
modelled only where a choice of the code depends on it. Broker and coordinator
have a host of their own instead of the `AppServerHost` module: their product is
beyond TLC, and the interface between them is small. In the composed runs parts
do not influence each other: what one assumes of another is a property checked
of the other. Hazards that no property covers are listed, with the reason, in
`PROJECT.json`.
