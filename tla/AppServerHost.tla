--------------------------- MODULE AppServerHost ---------------------------
(***************************************************************************)
(* The lifecycle of the one Codex App Server process of a Theia backend:   *)
(* class RideCodexAppServerHost of ride-codex-app-server-host.ts.          *)
(*                                                                         *)
(* Clients hold leases; the first lease starts the process, the last one   *)
(* arms an idle timer; a crash restarts it once; an unconfirmed shutdown   *)
(* or a second crash opens a circuit breaker; dispose ends everything.     *)
(*                                                                         *)
(* JavaScript runs one callback at a time, so an action is the code        *)
(* between two awaits.  A call of the API, a timer, a reply, a stdio event *)
(* or a process exit is a task; the continuation of an await is a          *)
(* microtask.  The event loop drains its microtasks before the next timer  *)
(* or I/O event (Quiescent), while API calls may come from microtasks of   *)
(* the callers and interleave with them.                                   *)
(*                                                                         *)
(* A generation starts at most one process and one connection, so a        *)
(* generation number names both; 0 stands for `undefined'.                 *)
(***************************************************************************)
EXTENDS Naturals, FiniteSets

CONSTANTS
    Lease,              \* lease slots: each is one client that acquires and releases
    ApprovalLease,      \* the slots whose kind is 'approval'
    MaxGenerations,     \* bound on the number of process generations
    IdleOutlastsWork,   \* TRUE: idleTimeoutMs exceeds the duration of any start or stop
    ClientsUseTasks     \* TRUE: clients acquire and release only from tasks of their own

\* The asynchronous operations of the host that are not acquires.
Service == {"request", "retry", "recovery", "dispose"}

ASSUME HostAssumption ==
    /\ IsFiniteSet(Lease)
    /\ ApprovalLease \subseteq Lease
    /\ Lease \cap Service = {}
    /\ MaxGenerations \in Nat
    /\ IdleOutlastsWork \in BOOLEAN
    /\ ClientsUseTasks \in BOOLEAN

Gen == 1..MaxGenerations
Proc == Lease \cup Service

VARIABLES
    state,              \* #state
    generation,         \* #generation
    leases,             \* #leases, by slot
    unsafeApprovalCount,\* #unsafeApprovalCount
    restartAttempts,    \* #restartAttempts
    connection,         \* #connection: its generation, or 0
    startPromise,       \* #startPromise: the generation being started, or 0
    stop,               \* #stopPromise and #stoppingConnection
    idleTimer,          \* #idleTimer is armed
    disposed,           \* #disposed
    published,          \* generations whose Connection was created
    alive,              \* generations whose child process runs
    ready,              \* Connection.ready
    intentionalStop,    \* Connection.intentionalStop
    finalized,          \* Connection.finalized
    killRequested,      \* Connection.killRequested
    clientClosed,       \* the connection's JSONL client is shut down
    stdioFailed,        \* the connection's transport reported an exit while the child ran
    startPc,            \* where #startGeneration of a generation is
    exitPc,             \* where #handleConnectionExit of a generation is
    pc,                 \* where each acquire and each service is
    recoveryGeneration, \* #recoveryGeneration, kept while its operation runs
    disposeTarget       \* the connection that dispose() stopped, `current' at first

hostVars == <<state, generation, startPromise, startPc>>
leaseVars == <<leases, unsafeApprovalCount>>
connVars == <<published, alive, finalized, killRequested, stdioFailed>>
stopVars == <<stop, intentionalStop, ready, clientClosed>>
localVars == <<recoveryGeneration, disposeTarget>>
vars == <<hostVars, leaseVars, connVars, stopVars, localVars, restartAttempts,
          connection, idleTimer, disposed, exitPc, pc>>

States == {"stopped", "starting", "ready", "restarting", "stopping",
           "circuit-open", "disposed"}
StartPcs == {"none", "resolving", "initializing", "confirming", "terminating",
             "stopping", "stopped", "stopFailed", "done"}
ExitPcs == {"none", "waiting", "waitingStale", "awaitStop", "awaitStart",
            "started", "failed"}
Pcs == {"idle", "awaitStop", "again", "awaitStart", "started", "failed", "held",
        "draining", "drained", "stopping", "stopped", "stopFailed", "done"}
Woken == {"again", "started", "failed", "drained", "stopped", "stopFailed"}

NoStop == [phase |-> "none", conn |-> 0]
StopPhases == {"none", "grace", "killGrace", "settled", "failed"}

Init ==
    /\ state = "stopped"
    /\ generation = 0
    /\ leases = {}
    /\ unsafeApprovalCount = 0
    /\ restartAttempts = 0
    /\ connection = 0
    /\ startPromise = 0
    /\ stop = NoStop
    /\ idleTimer = FALSE
    /\ disposed = FALSE
    /\ published = {}
    /\ alive = {}
    /\ ready = {}
    /\ intentionalStop = {}
    /\ finalized = {}
    /\ killRequested = {}
    /\ clientClosed = {}
    /\ stdioFailed = {}
    /\ startPc = [g \in Gen |-> "none"]
    /\ exitPc = [g \in Gen |-> "none"]
    /\ pc = [p \in Proc |-> "idle"]
    /\ recoveryGeneration = 0
    /\ disposeTarget = 0

-----------------------------------------------------------------------------
(* The event loop                                                          *)

\* The child of generation g has exited and exitPromise is resolved.
Exited(g) == g \in published /\ g \notin alive

StopResumesUnconfirmed == \/ stop.phase = "killGrace"
                          \/ stop.phase = "grace" /\ Exited(stop.conn)

StopResumes == /\ stop.phase \in {"grace", "killGrace"}
               /\ Exited(stop.conn)

\* No continuation is queued, so the event loop may take a timer or an I/O event.
Quiescent ==
    /\ \A p \in Proc : pc[p] \notin Woken
    /\ \A g \in Gen :
        /\ exitPc[g] \notin {"started", "failed"}
        /\ exitPc[g] \in {"waiting", "waitingStale"} => ~Exited(g)
        /\ startPc[g] \notin {"stopped", "stopFailed"}
        /\ startPc[g] \in {"initializing", "confirming"} => g \notin clientClosed
    /\ stop.phase \notin {"settled", "failed"}
    /\ ~StopResumes

\* Bound: the environment causes a further generation only below the limit.
InBudget == generation < MaxGenerations

-----------------------------------------------------------------------------
(* #ensureStarted, #stopConnection and #releaseRecord: the synchronous part*)
(* shared by their callers.  c and s are #connection and #state when the   *)
(* call is made.                                                           *)

UsableWhenOpen(s) == ~disposed

Usable(s) == ~disposed /\ s # "circuit-open"

\* Neither a stop, nor a ready connection, nor a start answers the call.
MustLaunch(c, s) == /\ Usable(s)
                    /\ stop.phase = "none"
                    /\ c \notin ready
                    /\ startPromise = 0

OwnedIfReady(c) == c # 0 /\ c \notin finalized /\ c \in ready

Owned(c) == c # 0 /\ c \notin finalized

Launches(c, s) == MustLaunch(c, s) /\ ~Owned(c)

\* What the promise returned to the caller waits for.
EnsurePc(c, s) ==
    CASE ~Usable(s)                         -> "failed"
      [] Usable(s) /\ stop.phase # "none"   -> "awaitStop"
      [] Usable(s) /\ stop.phase = "none" /\ c \in ready -> "started"
      [] MustLaunch(c, s) /\ Owned(c)       -> "failed"
      [] OTHER                              -> "awaitStart"

EnsureStarted(c, s, restarting) ==
    IF Launches(c, s)
    THEN /\ InBudget
         /\ generation' = generation + 1
         /\ startPromise' = generation + 1
         /\ startPc' = [startPc EXCEPT ![generation + 1] = "resolving"]
         /\ state' = IF restarting THEN "restarting" ELSE "starting"
    ELSE /\ state' = IF MustLaunch(c, s) THEN "circuit-open" ELSE s
         /\ UNCHANGED <<generation, startPromise, startPc>>

\* A stop that is under way, or whose connection is final, is joined as it is.
StopBegins(c) == stop.phase = "none" /\ c \notin finalized

StopConnectionUnanswered(c) ==
    /\ stop' = IF StopBegins(c) THEN [conn |-> c, phase |-> "grace"] ELSE stop
    /\ intentionalStop' = intentionalStop \cup {c}
    /\ ready' = ready \ {c}
    /\ clientClosed' = clientClosed \cup {c}

StopConnection(c) ==
    IF StopBegins(c)
    THEN /\ stop' = [conn |-> c,
                     phase |-> IF c \in killRequested THEN "killGrace" ELSE "grace"]
         /\ intentionalStop' = intentionalStop \cup {c}
         /\ ready' = ready \ {c}
         /\ clientClosed' = clientClosed \cup {c}
    ELSE /\ stop' = IF stop.phase = "none"
                    THEN [conn |-> c, phase |-> "settled"] ELSE stop
         /\ UNCHANGED <<intentionalStop, ready, clientClosed>>

StateOfStopSilent(c) == state

StateOfStop(c) == IF StopBegins(c) /\ Usable(state) THEN "stopping" ELSE state

UncountedAlways(l) == IF unsafeApprovalCount > 0
                      THEN unsafeApprovalCount - 1 ELSE unsafeApprovalCount

Uncounted(l) == IF l \in leases \cap ApprovalLease /\ unsafeApprovalCount > 0
                THEN unsafeApprovalCount - 1 ELSE unsafeApprovalCount

ReleaseArmsTimerIfConnected(l) == ~disposed /\ leases = {l} /\ connection # 0

ReleaseArmsTimer(l) == /\ ~disposed
                       /\ leases = {l}
                       /\ connection # 0 \/ startPromise # 0

ReleaseRecord(l) ==
    /\ leases' = leases \ {l}
    /\ unsafeApprovalCount' = Uncounted(l)
    /\ idleTimer' = (idleTimer \/ ReleaseArmsTimer(l))

-----------------------------------------------------------------------------
(* Leases                                                                  *)

Acquire(l) ==
    /\ pc[l] = "idle"
    /\ ClientsUseTasks => Quiescent
    /\ Usable(state)
    /\ InBudget \/ connection \in ready
    /\ idleTimer' = FALSE
    /\ leases' = leases \cup {l}
    /\ unsafeApprovalCount' = unsafeApprovalCount + (IF l \in ApprovalLease THEN 1 ELSE 0)
    /\ EnsureStarted(connection, state, FALSE)
    /\ pc' = [pc EXCEPT ![l] = EnsurePc(connection, state)]
    /\ UNCHANGED <<connVars, stopVars, localVars, restartAttempts, connection,
                   disposed, exitPc>>

\* The awaited stop succeeded: ensureStarted calls itself again.
EnsureAgain(p) ==
    /\ pc[p] = "again"
    /\ EnsureStarted(connection, state, p = "recovery")
    /\ pc' = [pc EXCEPT ![p] = EnsurePc(connection, state)]
    /\ UNCHANGED <<leaseVars, connVars, stopVars, localVars, restartAttempts,
                   connection, idleTimer, disposed, exitPc>>

AcquireResolves(l) ==
    /\ pc[l] = "started"
    /\ Usable(state)
    /\ pc' = [pc EXCEPT ![l] = "held"]
    /\ UNCHANGED <<hostVars, leaseVars, connVars, stopVars, localVars,
                   restartAttempts, connection, idleTimer, disposed, exitPc>>

\* The waiters of one stop resume one after the other, in one turn of the event
\* loop: what follows from one of them comes after them all.
AcquireRejects(l) ==
    /\ \/ pc[l] = "failed"
       \/ pc[l] = "started" /\ ~Usable(state)
    /\ ClientsUseTasks => \A p \in Proc : pc[p] # "again"
    /\ ReleaseRecord(l)
    /\ pc' = [pc EXCEPT ![l] = "idle"]
    /\ UNCHANGED <<hostVars, connVars, stopVars, localVars, restartAttempts,
                   connection, disposed, exitPc>>

Release(l) ==
    /\ pc[l] = "held"
    /\ ClientsUseTasks => Quiescent
    /\ ReleaseRecord(l)
    /\ pc' = [pc EXCEPT ![l] = "idle"]
    /\ UNCHANGED <<hostVars, connVars, stopVars, localVars, restartAttempts,
                   connection, disposed, exitPc>>

\* A request or a notification through a lease; one at a time in the model.
Request(l) ==
    /\ pc["request"] = "idle"
    /\ pc[l] = "held" /\ l \in leases
    /\ Usable(state)
    /\ InBudget
    /\ EnsureStarted(connection, state, FALSE)
    /\ pc' = [pc EXCEPT !["request"] = EnsurePc(connection, state)]
    /\ UNCHANGED <<leaseVars, connVars, stopVars, localVars, restartAttempts,
                   connection, idleTimer, disposed, exitPc>>

RequestSettles ==
    /\ pc["request"] \in {"started", "failed"}
    /\ pc' = [pc EXCEPT !["request"] = "idle"]
    /\ UNCHANGED <<hostVars, leaseVars, connVars, stopVars, localVars,
                   restartAttempts, connection, idleTimer, disposed, exitPc>>

-----------------------------------------------------------------------------
(* Explicit retry, bounded recovery, approval abort and idle shutdown      *)

OwnsUnusable == /\ Owned(connection)
                /\ connection \notin ready \/ state = "circuit-open"

\* retry() closes the breaker and, if anyone holds a lease, starts again.
BreakerResets ==
    LET s == IF state = "circuit-open" THEN "stopped" ELSE state
    IN  /\ restartAttempts' = 0
        /\ IF leases = {}
           THEN /\ state' = s
                /\ pc' = [pc EXCEPT !["retry"] = "idle"]
                /\ UNCHANGED <<generation, startPromise, startPc>>
           ELSE /\ EnsureStarted(connection, s, FALSE)
                /\ pc' = [pc EXCEPT !["retry"] = EnsurePc(connection, s)]

\* retry() once no stop is under way.
RetryProceeds ==
    IF OwnsUnusable
    THEN /\ StopConnection(connection)
         /\ state' = StateOfStop(connection)
         /\ pc' = [pc EXCEPT !["retry"] = "stopping"]
         /\ UNCHANGED <<generation, startPromise, startPc, restartAttempts>>
    ELSE BreakerResets /\ UNCHANGED stopVars

Retry ==
    /\ pc["retry"] = "idle"
    /\ ~disposed
    /\ InBudget
    /\ IF stop.phase # "none"
       THEN /\ pc' = [pc EXCEPT !["retry"] = "draining"]
            /\ UNCHANGED <<hostVars, stopVars, restartAttempts>>
       ELSE RetryProceeds
    /\ UNCHANGED <<leaseVars, connVars, localVars, connection, idleTimer,
                   disposed, exitPc>>

RetryContinues ==
    /\ pc["retry"] = "drained"
    /\ RetryProceeds
    /\ UNCHANGED <<leaseVars, connVars, localVars, connection, idleTimer,
                   disposed, exitPc>>

\* retry() has stopped the process it owned.
RetryStopped ==
    /\ pc["retry"] = "stopped"
    /\ BreakerResets
    /\ UNCHANGED <<leaseVars, connVars, stopVars, localVars, connection,
                   idleTimer, disposed, exitPc>>

RetrySettles ==
    /\ pc["retry"] \in {"started", "failed", "stopFailed"}
    /\ state' = IF pc["retry"] = "stopFailed" /\ ~disposed THEN "circuit-open" ELSE state
    /\ pc' = [pc EXCEPT !["retry"] = "idle"]
    /\ UNCHANGED <<generation, startPromise, startPc, leaseVars, connVars,
                   stopVars, localVars, restartAttempts, connection, idleTimer,
                   disposed, exitPc>>

\* The generation a caller names is the one whose ready process is served.
ServesGeneration(g) ==
    /\ ~disposed
    /\ state = "ready"
    /\ g = generation /\ connection = g
    /\ g \in ready /\ g \notin finalized

RestartForRecovery(g) ==
    /\ pc["recovery"] = "idle"
    /\ ServesGeneration(g)
    /\ unsafeApprovalCount = 0
    /\ InBudget
    /\ idleTimer' = FALSE
    /\ recoveryGeneration' = g
    /\ StopConnection(g)
    /\ state' = StateOfStop(g)
    /\ pc' = [pc EXCEPT !["recovery"] = "stopping"]
    /\ UNCHANGED <<generation, startPromise, startPc, leaseVars, connVars,
                   restartAttempts, connection, disposed, exitPc, disposeTarget>>

RecoverySuperseded == connection # 0 /\ connection # recoveryGeneration

RecoveryStopped ==
    /\ pc["recovery"] = "stopped"
    /\ IF Usable(state) /\ ~RecoverySuperseded
       THEN /\ restartAttempts' = 0
            /\ EnsureStarted(connection, state, TRUE)
            /\ pc' = [pc EXCEPT !["recovery"] = EnsurePc(connection, state)]
       ELSE /\ pc' = [pc EXCEPT !["recovery"] = "failed"]
            /\ UNCHANGED <<hostVars, restartAttempts>>
    /\ UNCHANGED <<leaseVars, connVars, stopVars, localVars, connection,
                   idleTimer, disposed, exitPc>>

\* A replacement that nobody leases is bounded by the idle timer.
RecoveryArmsTimer == pc["recovery"] = "started" /\ Usable(state) /\ leases = {}

RecoverySettles ==
    /\ pc["recovery"] \in {"started", "failed", "stopFailed"}
    /\ idleTimer' = (idleTimer \/ RecoveryArmsTimer)
    /\ pc' = [pc EXCEPT !["recovery"] = "idle"]
    /\ recoveryGeneration' = 0
    /\ UNCHANGED <<hostVars, leaseVars, connVars, stopVars, disposeTarget,
                   restartAttempts, connection, disposed, exitPc>>

\* The approval broker gives up on an answer the server never took.
AbortServerRequestGeneration(g) ==
    /\ ServesGeneration(g)
    /\ g \notin intentionalStop
    /\ InBudget
    /\ idleTimer' = FALSE
    /\ StopConnection(g)
    /\ state' = StateOfStop(g)
    /\ UNCHANGED <<generation, startPromise, startPc, leaseVars, connVars,
                   localVars, restartAttempts, connection, disposed, exitPc, pc>>

IdleTimerFires ==
    /\ idleTimer
    /\ Quiescent
    /\ IdleOutlastsWork => startPromise = 0 /\ stop.phase = "none"
    /\ idleTimer' = FALSE
    /\ IF ~disposed /\ leases = {} /\ connection # 0
       THEN /\ StopConnection(connection)
            /\ state' = StateOfStop(connection)
       ELSE UNCHANGED <<stopVars, state>>
    /\ UNCHANGED <<generation, startPromise, startPc, leaseVars, connVars,
                   localVars, restartAttempts, connection, disposed, exitPc, pc>>

-----------------------------------------------------------------------------
(* Disposal                                                                *)

DisposePcHasty == "started"

\* dispose() looks for a last connection when no start is under way any more.
DisposePc == IF startPromise # 0 THEN "awaitStart" ELSE "started"

Dispose ==
    /\ pc["dispose"] = "idle"
    /\ disposed' = TRUE
    /\ state' = "disposed"
    /\ idleTimer' = FALSE
    /\ leases' = {}
    /\ unsafeApprovalCount' = 0
    /\ disposeTarget' = connection
    /\ IF connection # 0
       THEN /\ StopConnection(connection)
            /\ pc' = [pc EXCEPT !["dispose"] = "stopping"]
       ELSE /\ pc' = [pc EXCEPT !["dispose"] = DisposePc]
            /\ UNCHANGED stopVars
    /\ UNCHANGED <<generation, startPromise, startPc, connVars, restartAttempts,
                   connection, exitPc, recoveryGeneration>>

\* The current connection is stopped (or declared lost): wait for the start.
DisposeStopped ==
    /\ pc["dispose"] \in {"stopped", "stopFailed"}
    /\ pc' = [pc EXCEPT !["dispose"] = DisposePc]
    /\ UNCHANGED <<hostVars, leaseVars, connVars, stopVars, localVars,
                   restartAttempts, connection, idleTimer, disposed, exitPc>>

\* No start is under way any more: stop what the last one left, if anything.
DisposeStarted ==
    /\ pc["dispose"] \in {"started", "failed"}
    /\ IF connection \notin {0, disposeTarget}
       THEN /\ StopConnection(connection)
            /\ state' = StateOfStop(connection)
            /\ disposeTarget' = connection
            /\ pc' = [pc EXCEPT !["dispose"] = "stopping"]
       ELSE /\ pc' = [pc EXCEPT !["dispose"] = "done"]
            /\ UNCHANGED <<stopVars, state, disposeTarget>>
    /\ UNCHANGED <<generation, startPromise, startPc, leaseVars, connVars,
                   recoveryGeneration, restartAttempts, connection, idleTimer,
                   disposed, exitPc>>

-----------------------------------------------------------------------------
(* #startGeneration                                                        *)

\* Who awaits the start promise learns how it ended.
WakeStart(p, ok) == IF p = "awaitStart" THEN (IF ok THEN "started" ELSE "failed") ELSE p

StartSettles(g, ok) ==
    /\ startPromise' = IF startPromise = g THEN 0 ELSE startPromise
    /\ startPc' = [startPc EXCEPT ![g] = "done"]
    /\ pc' = [p \in Proc |-> WakeStart(pc[p], ok)]
    /\ exitPc' = [h \in Gen |-> WakeStart(exitPc[h], ok)]

StoppedUnlessLatched == IF Usable(state) THEN "stopped" ELSE state

\* The runtime was resolved for the latest generation of an open host.
StartIsCurrent(g) == ~disposed /\ g = generation

\* The resolver finds a runtime and the child is spawned with its pipes.
SpawnSucceeds(g) ==
    /\ startPc[g] = "resolving"
    /\ Quiescent
    /\ StartIsCurrent(g)
    /\ alive' = alive \cup {g}
    /\ published' = published \cup {g}
    /\ connection' = g
    /\ startPc' = [startPc EXCEPT ![g] = "initializing"]
    /\ UNCHANGED <<state, generation, startPromise, leaseVars, finalized,
                   killRequested, stdioFailed, stopVars, localVars,
                   restartAttempts, idleTimer, disposed, exitPc, pc>>

\* No runtime, a superseded or disposed start, or a spawn that throws.
SpawnFails(g) ==
    /\ startPc[g] = "resolving"
    /\ Quiescent
    /\ StartSettles(g, FALSE)
    /\ state' = StoppedUnlessLatched
    /\ UNCHANGED <<generation, leaseVars, connVars, stopVars, localVars,
                   restartAttempts, connection, idleTimer, disposed>>

\* The child started but its connection could not be created.
SpawnUnpublished(g) ==
    /\ startPc[g] = "resolving"
    /\ Quiescent
    /\ StartIsCurrent(g)
    /\ alive' = alive \cup {g}
    /\ startPc' = [startPc EXCEPT ![g] = "terminating"]
    /\ UNCHANGED <<state, generation, startPromise, leaseVars, published,
                   finalized, killRequested, stdioFailed, stopVars, localVars,
                   restartAttempts, connection, idleTimer, disposed, exitPc, pc>>

\* terminateUnpublishedChild: the child exits, or both grace periods pass.
UnpublishedTerminates(g) ==
    /\ startPc[g] = "terminating"
    /\ Quiescent
    /\ alive' \in {alive, alive \ {g}}
    /\ StartSettles(g, FALSE)
    /\ state' = StoppedUnlessLatched
    /\ UNCHANGED <<generation, leaseVars, published, finalized, killRequested,
                   stdioFailed, stopVars, localVars, restartAttempts, connection,
                   idleTimer, disposed>>

\* The server answers `initialize'; the host writes `initialized'.
InitializeReplies(g) ==
    /\ startPc[g] = "initializing"
    /\ Quiescent
    /\ g \in alive
    /\ startPc' = [startPc EXCEPT ![g] = "confirming"]
    /\ UNCHANGED <<state, generation, startPromise, leaseVars, connVars,
                   stopVars, localVars, restartAttempts, connection, idleTimer,
                   disposed, exitPc, pc>>

\* The write of `initialized' is confirmed and the connection serves.
InitializedConfirmed(g) ==
    /\ startPc[g] = "confirming"
    /\ Quiescent
    /\ ~disposed /\ connection = g /\ g = generation
    /\ ready' = ready \cup {g}
    /\ state' = "ready"
    /\ StartSettles(g, TRUE)
    /\ UNCHANGED <<generation, leaseVars, connVars, stop, intentionalStop,
                   clientClosed, localVars, restartAttempts, connection,
                   idleTimer, disposed>>

\* The handshake fails: the timer fires, or the client was shut down.
HandshakeFails(g) ==
    /\ \/ startPc[g] = "initializing" /\ Quiescent
       \/ startPc[g] \in {"initializing", "confirming"} /\ g \in clientClosed
    /\ StopConnection(g)
    /\ state' = StateOfStop(g)
    /\ startPc' = [startPc EXCEPT ![g] = "stopping"]
    /\ UNCHANGED <<generation, startPromise, leaseVars, connVars, localVars,
                   restartAttempts, connection, idleTimer, disposed, exitPc, pc>>

\* The failed start has stopped its connection and rejects.
StartRejects(g) ==
    /\ startPc[g] \in {"stopped", "stopFailed"}
    /\ StartSettles(g, FALSE)
    /\ state' = IF startPc[g] = "stopped" THEN StoppedUnlessLatched ELSE state
    /\ UNCHANGED <<generation, leaseVars, connVars, stopVars, localVars,
                   restartAttempts, connection, idleTimer, disposed>>

-----------------------------------------------------------------------------
(* #performStopConnection                                                  *)

WakeStopIfConfirmed(p, ok) ==
    CASE p \in {"awaitStop", "draining"} /\ ok -> "again"
      [] p = "stopping" /\ ok -> "stopped"
      [] OTHER -> p

\* Who awaits the stop promise learns how it ended.
WakeStop(p, ok) ==
    CASE p = "awaitStop" -> IF ok THEN "again" ELSE "failed"
      [] p = "stopping"  -> IF ok THEN "stopped" ELSE "stopFailed"
      [] p = "draining"  -> "drained"
      [] OTHER           -> p

\* The exit was confirmed within the grace period or after the kill.
StopConfirmed ==
    /\ StopResumes
    /\ LET g == stop.conn
       IN  /\ finalized' = finalized \cup {g}
           /\ connection' = IF connection = g THEN 0 ELSE connection
    /\ state' = IF disposed THEN state ELSE "stopped"
    /\ stop' = [stop EXCEPT !.phase = "settled"]
    /\ UNCHANGED <<generation, startPromise, startPc, leaseVars, published,
                   alive, killRequested, stdioFailed, intentionalStop, ready,
                   clientClosed, localVars, restartAttempts, idleTimer, disposed,
                   exitPc, pc>>

GraceExpires ==
    /\ stop.phase = "grace"
    /\ Quiescent
    /\ killRequested' = killRequested \cup {stop.conn}
    /\ stop' = [stop EXCEPT !.phase = "killGrace"]
    /\ UNCHANGED <<hostVars, leaseVars, published, alive, finalized, stdioFailed,
                   intentionalStop, ready, clientClosed, localVars,
                   restartAttempts, connection, idleTimer, disposed, exitPc, pc>>

\* The killed child did not exit: the circuit opens, except during disposal.
KillGraceExpires ==
    /\ stop.phase = "killGrace"
    /\ Quiescent
    /\ state' = IF disposed THEN "disposed" ELSE "circuit-open"
    /\ stop' = [stop EXCEPT !.phase = IF disposed THEN "settled" ELSE "failed"]
    /\ UNCHANGED <<generation, startPromise, startPc, leaseVars, connVars,
                   intentionalStop, ready, clientClosed, localVars,
                   restartAttempts, connection, idleTimer, disposed, exitPc, pc>>

StopSettles ==
    /\ stop.phase \in {"settled", "failed"}
    /\ LET ok == stop.phase = "settled"
       IN  /\ pc' = [p \in Proc |-> WakeStop(pc[p], ok)]
           /\ startPc' = [g \in Gen |-> WakeStop(startPc[g], ok)]
    /\ stop' = NoStop
    /\ UNCHANGED <<state, generation, startPromise, leaseVars, connVars,
                   intentionalStop, ready, clientClosed, localVars,
                   restartAttempts, connection, idleTimer, disposed, exitPc>>

-----------------------------------------------------------------------------
(* #handleConnectionExit                                                   *)

IsCurrent(g) == connection = g /\ generation = g

\* A crash of a serving process is answered by one restart, if that is safe.
RestartsAfterCrash(g) ==
    /\ ~disposed
    /\ g \notin intentionalStop
    /\ g \in ready
    /\ unsafeApprovalCount = 0
    /\ restartAttempts = 0
    /\ leases # {}

StateAfterExitUnchanged(g) == IF disposed THEN "disposed" ELSE state

StateAfterExit(g) ==
    CASE disposed -> "disposed"
      [] ~disposed /\ (g \in intentionalStop \/ g \notin ready) -> StoppedUnlessLatched
      [] ~disposed /\ g \notin intentionalStop /\ g \in ready
            /\ (unsafeApprovalCount > 0 \/ restartAttempts >= 1) -> "circuit-open"
      [] OTHER -> "stopped"

\* The handler once the process is known to have exited.
ExitHandled(g, current) ==
    /\ finalized' = finalized \cup {g}
    /\ clientClosed' = clientClosed \cup {g}
    /\ connection' = IF current THEN 0 ELSE connection
    /\ IF current /\ RestartsAfterCrash(g)
       THEN /\ restartAttempts' = restartAttempts + 1
            /\ EnsureStarted(0, state, TRUE)
            /\ exitPc' = [exitPc EXCEPT ![g] = EnsurePc(0, state)]
       ELSE /\ state' = IF current THEN StateAfterExit(g) ELSE state
            /\ exitPc' = [exitPc EXCEPT ![g] = "none"]
            /\ UNCHANGED <<generation, startPromise, startPc, restartAttempts>>

\* The child exits, at any time: by itself, at EOF on its stdin, or killed.
ChildExits(g) ==
    /\ g \in alive \cap published
    /\ Quiescent
    /\ alive' = alive \ {g}
    /\ IF exitPc[g] \in {"waiting", "waitingStale"}
       THEN UNCHANGED <<hostVars, finalized, clientClosed, restartAttempts,
                        connection, exitPc>>
       ELSE ExitHandled(g, IsCurrent(g))
    /\ UNCHANGED <<leaseVars, published, killRequested, stdioFailed, stop,
                   intentionalStop, ready, localVars, idleTimer, disposed, pc>>

\* A stream or the process object fails while the child still runs.
StdioFails(g) ==
    /\ g \in alive \cap published
    /\ g \notin stdioFailed
    /\ Quiescent
    /\ InBudget
    /\ stdioFailed' = stdioFailed \cup {g}
    /\ clientClosed' = clientClosed \cup {g}
    /\ killRequested' = killRequested \cup {g}
    /\ exitPc' = [exitPc EXCEPT ![g] = IF IsCurrent(g) THEN "waiting" ELSE "waitingStale"]
    /\ UNCHANGED <<hostVars, leaseVars, published, alive, finalized, stop,
                   intentionalStop, ready, localVars, restartAttempts,
                   connection, idleTimer, disposed, pc>>

\* Malformed protocol data: the client shuts down and closes stdin.
ProtocolError(g) ==
    /\ g \in (alive \cap published) \ clientClosed
    /\ Quiescent
    /\ InBudget
    /\ clientClosed' = clientClosed \cup {g}
    /\ UNCHANGED <<hostVars, leaseVars, connVars, stop, intentionalStop, ready,
                   localVars, restartAttempts, connection, idleTimer, disposed,
                   exitPc, pc>>

ExitWaitConfirmed(g) ==
    /\ exitPc[g] \in {"waiting", "waitingStale"}
    /\ Exited(g)
    /\ ExitHandled(g, exitPc[g] = "waiting")
    /\ UNCHANGED <<leaseVars, published, alive, killRequested, stdioFailed, stop,
                   intentionalStop, ready, localVars, idleTimer, disposed, pc>>

\* The kill was not confirmed in time: the handler gives up until the exit.
ExitWaitExpires(g) ==
    /\ exitPc[g] \in {"waiting", "waitingStale"}
    /\ Quiescent
    /\ exitPc' = [exitPc EXCEPT ![g] = "none"]
    /\ state' = IF exitPc[g] = "waiting" /\ ~disposed THEN "circuit-open" ELSE state
    /\ UNCHANGED <<generation, startPromise, startPc, leaseVars, connVars,
                   stopVars, localVars, restartAttempts, connection, idleTimer,
                   disposed, pc>>

\* The automatic restart ended; its failure opens the circuit.
ExitRestartSettles(g) ==
    /\ exitPc[g] \in {"started", "failed"}
    /\ exitPc' = [exitPc EXCEPT ![g] = "none"]
    /\ state' = IF exitPc[g] = "failed" /\ ~disposed THEN "circuit-open" ELSE state
    /\ UNCHANGED <<generation, startPromise, startPc, leaseVars, connVars,
                   stopVars, localVars, restartAttempts, connection, idleTimer,
                   disposed, pc>>

-----------------------------------------------------------------------------
LeaseStep == \E l \in Lease :
    Acquire(l) \/ AcquireResolves(l) \/ AcquireRejects(l) \/ Release(l) \/ Request(l)

RetryStep == Retry \/ RetryContinues \/ RetryStopped \/ RetrySettles

RecoveryStep == \/ \E g \in Gen : RestartForRecovery(g)
                \/ RecoveryStopped
                \/ RecoverySettles

DisposeStep == Dispose \/ DisposeStopped \/ DisposeStarted

StartStep == \E g \in Gen :
    \/ SpawnSucceeds(g) \/ SpawnFails(g)
    \/ SpawnUnpublished(g) \/ UnpublishedTerminates(g)
    \/ InitializeReplies(g) \/ InitializedConfirmed(g)
    \/ HandshakeFails(g) \/ StartRejects(g)

StopStep == StopConfirmed \/ GraceExpires \/ KillGraceExpires \/ StopSettles

ExitStep == \E g \in Gen :
    \/ ChildExits(g) \/ StdioFails(g) \/ ProtocolError(g)
    \/ ExitWaitConfirmed(g) \/ ExitWaitExpires(g) \/ ExitRestartSettles(g)

Next ==
    \/ LeaseStep
    \/ \E p \in Lease \cup {"request", "retry", "recovery"} : EnsureAgain(p)
    \/ RequestSettles
    \/ RetryStep
    \/ RecoveryStep
    \/ \E g \in Gen : AbortServerRequestGeneration(g)
    \/ IdleTimerFires
    \/ DisposeStep
    \/ StartStep
    \/ StopStep
    \/ ExitStep

Spec == Init /\ [][Next]_vars

(***************************************************************************)
(* Fairness.  A queued continuation runs.  The event loop is not starved   *)
(* by endless chains of microtasks, so a timer that stays armed fires, the *)
(* resolver answers and the handshake ends, at the latest by its timeout:  *)
(* strong fairness, since continuations may close the gap again and again. *)
(* The idle timer may be cancelled, so only weak fairness is assumed of    *)
(* it.  Clients and the child owe nothing.                                 *)
(***************************************************************************)
Continues(p) ==
    \/ p \in Lease /\ (AcquireResolves(p) \/ AcquireRejects(p) \/ EnsureAgain(p))
    \/ p = "request" /\ (EnsureAgain(p) \/ RequestSettles)
    \/ p = "retry" /\ (EnsureAgain(p) \/ RetryContinues \/ RetryStopped \/ RetrySettles)
    \/ p = "recovery" /\ (EnsureAgain(p) \/ RecoveryStopped \/ RecoverySettles)
    \/ p = "dispose" /\ (DisposeStopped \/ DisposeStarted)

StartContinues(g) == (g \in clientClosed /\ HandshakeFails(g)) \/ StartRejects(g)

ExitContinues(g) == ExitWaitConfirmed(g) \/ ExitRestartSettles(g)

StartProgress(g) == \/ SpawnSucceeds(g) \/ SpawnFails(g) \/ SpawnUnpublished(g)
                    \/ UnpublishedTerminates(g)
                    \/ InitializeReplies(g) \/ InitializedConfirmed(g)
                    \/ HandshakeFails(g)

Fairness ==
    /\ \A p \in Proc : WF_vars(Continues(p))
    /\ WF_vars(StopConfirmed \/ StopSettles)
    /\ \A g \in Gen : WF_vars(StartContinues(g)) /\ WF_vars(ExitContinues(g))
    /\ SF_vars(GraceExpires) /\ SF_vars(KillGraceExpires)
    /\ \A g \in Gen : SF_vars(StartProgress(g)) /\ SF_vars(ExitWaitExpires(g))
    /\ WF_vars(IdleTimerFires)

FairSpec == Spec /\ Fairness

-----------------------------------------------------------------------------
(* Properties                                                              *)

TypeOK ==
    /\ state \in States
    /\ generation \in 0..MaxGenerations
    /\ leases \subseteq Lease
    /\ unsafeApprovalCount \in Nat
    /\ restartAttempts \in 0..1
    /\ connection \in 0..MaxGenerations
    /\ startPromise \in 0..MaxGenerations
    /\ stop \in {NoStop} \cup [phase : StopPhases \ {"none"}, conn : Gen]
    /\ idleTimer \in BOOLEAN /\ disposed \in BOOLEAN
    /\ published \subseteq Gen /\ alive \subseteq Gen /\ ready \subseteq Gen
    /\ intentionalStop \subseteq Gen /\ finalized \subseteq Gen
    /\ killRequested \subseteq Gen /\ clientClosed \subseteq Gen
    /\ stdioFailed \subseteq Gen
    /\ startPc \in [Gen -> StartPcs] /\ exitPc \in [Gen -> ExitPcs]
    /\ pc \in [Proc -> Pcs]
    /\ recoveryGeneration \in 0..MaxGenerations
    /\ disposeTarget \in 0..MaxGenerations

\* A child that can still run is always the one the host owns: a shutdown that
\* is not confirmed never gives up authority over its process, so at most one
\* published child runs whatever fails.
ChildAuthority ==
    \A g \in alive \cap published : connection = g /\ g \notin finalized

\* The count that vetoes automatic restarts equals the approval leases held,
\* through every race of acquire failure, release and disposal.
UnsafeCountExact == unsafeApprovalCount = Cardinality(leases \cap ApprovalLease)

\* In state `ready' the current generation is served: its connection is ready,
\* owned and not being stopped, and no start competes with it.
ReadyMeansServing ==
    state = "ready" =>
        /\ connection = generation /\ connection \in ready \ finalized
        /\ startPromise = 0 /\ stop.phase = "none"

\* Starts never overlap: the only generation whose start is under way is the
\* latest one, and #startPromise is its promise.
SingleStart ==
    \A g \in Gen : startPc[g] \notin {"none", "done"} =>
                        g = generation /\ g = startPromise

\* Nobody waits for a stop or a start that is not under way, and a stop under
\* way is the one its waiters mean: no other connection exists meanwhile.
WaitsAreAnswered ==
    /\ stop.phase # "none" => connection \in {0, stop.conn}
    /\ \A p \in Proc :
        /\ pc[p] \in {"awaitStop", "stopping", "draining"} => stop.phase # "none"
        /\ pc[p] = "awaitStart" => startPromise # 0
    /\ \A g \in Gen :
        /\ startPc[g] = "stopping" => stop.phase # "none" /\ stop.conn = g
        /\ exitPc[g] = "awaitStart" => startPromise # 0
        /\ exitPc[g] # "awaitStop"
    /\ pc["recovery"] = "stopping" => stop.conn = recoveryGeneration

\* Once dispose() has resolved nothing is left behind: no start is under way that
\* could still spawn, and a child that still runs was at least killed.
DisposalIsFinal ==
    pc["dispose"] = "done" =>
        /\ startPromise = 0
        /\ alive \cap published \subseteq killRequested

\* An open circuit is closed by an explicit retry() alone.
CircuitNeedsRetry ==
    [][state = "circuit-open" /\ stop.phase = "none" /\ state' # "circuit-open"
            => RetryStep \/ Dispose]_vars

\* Once no process is left, an open circuit is closed by retry() alone: no late
\* exit, reply, timer or release of a lease reopens the host.
EmptyCircuitNeedsRetry ==
    [][state = "circuit-open" /\ stop.phase = "none" /\ connection = 0
            /\ state' # "circuit-open" => RetryStep \/ Dispose]_vars

\* Every operation of a client settles: no acquire, request, retry or recovery
\* and no disposal waits for ever, whatever the child does.
OperationsSettle ==
    \A p \in Proc : pc[p] \notin {"idle", "held", "done"} ~>
                        pc[p] \in {"idle", "held", "done"}

\* A serving process that no lease needs is stopped or leased again.
IdleProcessStops ==
    leases = {} /\ state = "ready" ~> leases # {} \/ state # "ready"

\* The child exits when its stdin is closed, and the clients let the event loop
\* turn: they do not chain microtasks without end.
ExitsAtEof ==
    /\ []<>Quiescent
    /\ \A g \in Gen : SF_vars(g \in clientClosed /\ ChildExits(g))

\* A connection whose client was shut down by a protocol error does not serve
\* for ever: if the child honours EOF, the host notices and leaves `ready'.
BrokenClientIsReplaced ==
    ExitsAtEof => (state = "ready" /\ connection \in clientClosed ~> state # "ready")
=============================================================================
