-------------------------- MODULE BackendSupervisor --------------------------
(***************************************************************************)
(* One backend process tree at a time (sidecar.rs, the ownership state of  *)
(* startup.rs, retry and shutdown of lib.rs), with direct pipes on Unix.   *)
(*                                                                         *)
(* A start task spawns the tree, registers it as owned, waits for its port *)
(* and publishes it to the gateway; a watcher waits for the root's exit.   *)
(* The retry coordinator and the shutdown of the application stop it under *)
(* a common gate, with a deadline.  The tree is given up only after it was *)
(* killed and its root reaped; killing it may fail.  The starts are        *)
(* numbered by the generations of the gateway.                             *)
(***************************************************************************)
EXTENDS GatewayState, FiniteSets

CONSTANTS
    MaxFailures,    \* killings and reapings that fail, retries that are submitted late
    ForceAfter      \* attempts of the shutdown before it kills by force (3)

ASSUME SupervisorAssumption ==
    MaxGeneration \in Nat \ {0} /\ MaxFailures \in Nat /\ ForceAfter \in Nat \ {0}

VARIABLES
    proc,           \* the tree of each generation; "exited" has lost its root, "killed" is
                    \* all dead but for the root's exit status
    startPc,        \* its start task
    cleaner,        \* the cleanup of its tree
    watcher,        \* the task that waits for its root to exit
    reporting,      \* generations whose failure is still to be reported
    signalled,      \* generations with a message in their stop channel
    pendingStart, pid, stoppingPid, tree, rootExited, stopping,     \* BackendOwnershipState
    backendPort, stopFallback, windowCreated,
    gate,           \* who holds the cleanup gate
    stopPc,         \* the bounded stop of each caller
    target,         \* the tree the holder of the gate kills
    retryPc, retryGeneration, retriesStopped,
    seen,           \* the failed generation seen by a retry request not yet submitted
    overtaken,      \* history: a retry of an older generation has stopped the current one
    shutdownPc, attempts,
    failures

ownership == <<pendingStart, pid, stoppingPid, tree, rootExited, stopping>>
stopVars == <<gate, stopPc, target>>
askVars == <<seen, overtaken>>
retryVars == <<retryPc, retryGeneration, askVars>>
endVars == <<retriesStopped, shutdownPc, attempts>>
taskVars == <<startPc, cleaner, watcher, reporting, signalled>>
vars == <<gatewayVars, proc, taskVars, ownership, backendPort, stopFallback, windowCreated,
          stopVars, retryVars, endVars, failures>>

Callers == {"retry", "shutdown"}

TypeOK ==
    /\ GatewayTyped /\ failures \in 0..MaxFailures /\ attempts \in 0..ForceAfter
    /\ proc \in [Generation -> {"none", "running", "exited", "killed", "reaped"}]
    /\ startPc \in [Generation -> {"none", "reserved", "spawned", "waiting", "publishing",
                                   "cleanup", "failed", "completing", "done"}]
    /\ cleaner \in [Generation -> {"none", "terminate", "reap", "retained", "done"}]
    /\ watcher \in [Generation -> {"none", "watching", "exited", "done"}]
    /\ reporting \subseteq Generation /\ signalled \subseteq Generation
    /\ {pendingStart, pid, stoppingPid, tree, backendPort, stopFallback, retryGeneration, seen}
           \subseteq 0..MaxGeneration
    /\ {rootExited, stopping, windowCreated, retriesStopped, overtaken} \subseteq BOOLEAN
    /\ gate \in Callers \cup {"free", "detached"} /\ target \in 0..MaxGeneration
    /\ stopPc \in [Callers -> {"none", "gate", "request", "terminate", "await", "ok", "error"}]
    /\ retryPc \in {"idle", "asked", "stopping", "reserve", "starting", "stopped"}
    /\ shutdownPc \in {"none", "gateway", "stopping", "retained", "force", "exited"}

Init ==
    /\ generation = 1 /\ phase = "starting"
    /\ proc = [g \in Generation |-> "none"]
    /\ startPc = [g \in Generation |-> IF g = 1 THEN "reserved" ELSE "none"]
    /\ cleaner = [g \in Generation |-> "none"] /\ watcher = [g \in Generation |-> "none"]
    /\ reporting = {} /\ signalled = {}
    /\ pendingStart = 1 /\ pid = 0 /\ stoppingPid = 0 /\ tree = 0
    /\ rootExited = FALSE /\ stopping = FALSE
    /\ backendPort = 0 /\ stopFallback = 0 /\ windowCreated = FALSE
    /\ gate = "free" /\ stopPc = [c \in Callers |-> "none"]
    /\ target = 0
    /\ retryPc = "idle" /\ retryGeneration = 0 /\ retriesStopped = FALSE
    /\ seen = 0 /\ overtaken = FALSE
    /\ shutdownPc = "none" /\ attempts = 0 /\ failures = 0

CanFail == failures < MaxFailures /\ failures' = failures + 1

-----------------------------------------------------------------------------
(* BackendOwnershipState                                                   *)

HasOwnedWork == pendingStart # 0 \/ pid # 0 \/ stoppingPid # 0
OwnsActive(g) == ~stopping /\ ~rootExited /\ pid = g

ReserveStart(g) ==
    /\ pendingStart' = g /\ pid' = 0 /\ stoppingPid' = 0 /\ tree' = 0
    /\ rootExited' = FALSE /\ stopping' = FALSE

\* A start that was cancelled meanwhile hands its tree over all the same, as one to stop.
RegisterTreeUnlessStopping(g) ==
    IF ~stopping /\ pendingStart = g
    THEN /\ pendingStart' = 0 /\ pid' = g /\ tree' = g /\ rootExited' = FALSE
         /\ UNCHANGED <<stoppingPid, stopping>>
    ELSE UNCHANGED ownership
RegisterTree(g) ==
    IF ~stopping /\ pendingStart = g
    THEN /\ pendingStart' = 0 /\ pid' = g /\ tree' = g /\ rootExited' = FALSE
         /\ UNCHANGED <<stoppingPid, stopping>>
    ELSE IF pendingStart = g /\ tree = 0
    THEN /\ pendingStart' = 0 /\ pid' = 0 /\ stoppingPid' = g /\ tree' = g
         /\ rootExited' = FALSE /\ stopping' = TRUE
    ELSE UNCHANGED ownership

RequestTreeStop ==
    /\ stopping' = TRUE
    /\ IF stopping \/ pid = 0 THEN UNCHANGED <<pid, stoppingPid>>
       ELSE stoppingPid' = pid /\ pid' = 0
    /\ UNCHANGED <<pendingStart, tree, rootExited>>

CompleteStart(g) ==
    IF pendingStart = g
    THEN /\ pendingStart' = 0
         /\ stopping' = (stopping /\ (stoppingPid # 0 \/ pid # 0))
         /\ UNCHANGED <<pid, stoppingPid, tree, rootExited>>
    ELSE UNCHANGED ownership

\* Everything that names the tree goes with it, the fallback and the port too.
ClearTree(g) ==
    IF tree = g
    THEN /\ tree' = 0 /\ rootExited' = FALSE /\ stopping' = FALSE
         /\ IF stoppingPid = g THEN stoppingPid' = 0 /\ UNCHANGED pid
                               ELSE pid' = 0 /\ UNCHANGED stoppingPid
         /\ stopFallback' = (IF stopFallback = g THEN 0 ELSE stopFallback) /\ backendPort' = 0
         /\ UNCHANGED pendingStart
    ELSE UNCHANGED <<ownership, stopFallback, backendPort>>

-----------------------------------------------------------------------------
(* The start of a generation                                               *)

ToStart(g, p) == startPc' = [startPc EXCEPT ![g] = p]

Spawn(g) ==
    /\ startPc[g] = "reserved"
    /\ \/ proc' = [proc EXCEPT ![g] = "running"] /\ ToStart(g, "spawned")
       \/ ToStart(g, "failed") /\ UNCHANGED proc
    /\ UNCHANGED <<gatewayVars, cleaner, watcher, reporting, signalled, ownership, backendPort,
                   stopFallback, windowCreated, stopVars, retryVars, endVars, failures>>

ToCleanup(g) == ToStart(g, "cleanup") /\ cleaner' = [cleaner EXCEPT ![g] = "terminate"]

Register(g) ==
    /\ startPc[g] = "spawned" /\ RegisterTree(g)
    /\ stopFallback' = (IF tree' = g THEN g ELSE stopFallback)
    /\ IF pid' = g THEN ToStart(g, "waiting") /\ UNCHANGED cleaner ELSE ToCleanup(g)
    /\ UNCHANGED <<gatewayVars, proc, watcher, reporting, signalled, backendPort,
                   windowCreated, stopVars, retryVars, endVars, failures>>

\* A message on the stop channel comes first; else the root's exit, the deadline, or a
\* port that answers.
AwaitReadiness(g) ==
    /\ startPc[g] = "waiting"
    /\ \/ ToCleanup(g) /\ signalled' = signalled \ {g}
       \/ /\ g \notin signalled /\ proc[g] = "running" /\ UNCHANGED signalled
          /\ IF OwnsActive(g) THEN ToStart(g, "publishing") /\ UNCHANGED cleaner
                              ELSE ToCleanup(g)
    /\ UNCHANGED <<gatewayVars, proc, watcher, reporting, ownership, backendPort, stopFallback,
                   windowCreated, stopVars, retryVars, endVars, failures>>

\* The gateway publishes only the generation that it expects and that is still owned; the
\* watcher starts with it.
PublishedIfOwned(g) ==
    IF ReadyAccepted(g) /\ OwnsActive(g)
    THEN /\ Readies /\ backendPort' = g /\ ToStart(g, "completing")
         /\ watcher' = [watcher EXCEPT ![g] = "watching"] /\ UNCHANGED cleaner
    ELSE ToCleanup(g) /\ UNCHANGED <<gatewayVars, backendPort, watcher>>

Publish(g) ==
    /\ startPc[g] = "publishing" /\ windowCreated /\ PublishedIfOwned(g)
    /\ UNCHANGED <<proc, reporting, signalled, ownership, stopFallback, windowCreated,
                   stopVars, retryVars, endVars, failures>>

RootHasExited(g) == proc[g] \in {"exited", "killed", "reaped"}

ExitBeforePublication(g) ==
    /\ startPc[g] = "publishing" /\ RootHasExited(g) /\ ToCleanup(g)
    /\ UNCHANGED <<gatewayVars, proc, watcher, reporting, signalled, ownership, backendPort,
                   stopFallback, windowCreated, stopVars, retryVars, endVars, failures>>

ReportFailure(g) ==
    /\ startPc[g] = "failed" /\ Fails(g) /\ ToStart(g, "completing")
    /\ UNCHANGED <<proc, cleaner, watcher, reporting, signalled, ownership, backendPort,
                   stopFallback, windowCreated, stopVars, retryVars, endVars, failures>>

Complete(g) ==
    /\ startPc[g] = "completing" /\ ToStart(g, "done") /\ CompleteStart(g)
    /\ UNCHANGED <<gatewayVars, proc, cleaner, watcher, reporting, signalled, backendPort,
                   stopFallback, windowCreated, stopVars, retryVars, endVars, failures>>

StartStep(g) ==
    \/ Spawn(g) \/ Register(g) \/ AwaitReadiness(g) \/ Publish(g)
    \/ ExitBeforePublication(g) \/ ReportFailure(g) \/ Complete(g)

-----------------------------------------------------------------------------
(* The cleanup of a tree, by its start or by its watcher                   *)

Killed(g) == proc' = [proc EXCEPT ![g] = IF @ \in {"running", "exited"} THEN "killed" ELSE @]

\* The start returns with the first attempt, whether the tree could be killed or not.
StartFails(g) == startPc' = [startPc EXCEPT ![g] = IF @ = "cleanup" THEN "failed" ELSE @]

Retains(g) ==
    /\ CanFail /\ StartFails(g) /\ cleaner' = [cleaner EXCEPT ![g] = "retained"]
    /\ UNCHANGED proc

CleanupTerminates(g) ==
    /\ cleaner[g] = "terminate"
    /\ \/ /\ Killed(g) /\ cleaner' = [cleaner EXCEPT ![g] = "reap"]
          /\ UNCHANGED <<startPc, failures>>
       \/ Retains(g)
    /\ UNCHANGED <<gatewayVars, watcher, reporting, signalled, ownership, backendPort,
                   stopFallback, windowCreated, stopVars, retryVars, endVars>>

\* The ownership is released only when the tree was killed and its root reaped.
Releases(g) ==
    /\ proc' = [proc EXCEPT ![g] = "reaped"] /\ ClearTree(g)
    /\ cleaner' = [cleaner EXCEPT ![g] = "done"] /\ StartFails(g) /\ UNCHANGED failures

CleanupReleases(g) ==
    /\ cleaner[g] = "reap"
    /\ Releases(g) \/ (Retains(g) /\ UNCHANGED <<ownership, stopFallback, backendPort>>)
    /\ UNCHANGED <<gatewayVars, watcher, reporting, signalled, windowCreated, stopVars,
                   retryVars, endVars>>

CleanupTriesAgain(g) ==
    /\ cleaner[g] = "retained" /\ cleaner' = [cleaner EXCEPT ![g] = "terminate"]
    /\ signalled' = signalled \ {g}
    /\ UNCHANGED <<gatewayVars, proc, startPc, watcher, reporting, ownership, backendPort,
                   stopFallback, windowCreated, stopVars, retryVars, endVars, failures>>

Exits(g) ==
    /\ proc[g] = "running" /\ proc' = [proc EXCEPT ![g] = "exited"]
    /\ UNCHANGED <<gatewayVars, taskVars, ownership, backendPort, stopFallback, windowCreated,
                   stopVars, retryVars, endVars, failures>>

\* A stop that was asked for explains the exit: only another one is reported.
Reported(g) == IF stopping THEN reporting ELSE reporting \cup {g}

RootExits(g) ==
    /\ watcher[g] = "watching" /\ RootHasExited(g)
    /\ IF tree = g
       THEN /\ rootExited' = TRUE /\ backendPort' = 0 /\ reporting' = Reported(g)
            /\ watcher' = [watcher EXCEPT ![g] = "exited"]
       ELSE /\ watcher' = [watcher EXCEPT ![g] = "done"]
            /\ UNCHANGED <<rootExited, backendPort, reporting>>
    /\ UNCHANGED <<gatewayVars, proc, startPc, cleaner, signalled, pendingStart, pid,
                   stoppingPid, tree, stopping, stopFallback, windowCreated, stopVars,
                   retryVars, endVars, failures>>

ReportExit(g) ==
    /\ g \in reporting /\ reporting' = reporting \ {g} /\ Fails(g)
    /\ UNCHANGED <<proc, startPc, cleaner, watcher, signalled, ownership, backendPort,
                   stopFallback, windowCreated, stopVars, retryVars, endVars, failures>>

\* The root stays unreaped, so that its number is not used again, until a stop asks for it.
WatcherCleansUp(g) ==
    /\ watcher[g] = "exited" /\ g \in signalled /\ signalled' = signalled \ {g}
    /\ watcher' = [watcher EXCEPT ![g] = "done"]
    /\ cleaner' = [cleaner EXCEPT ![g] = "terminate"]
    /\ UNCHANGED <<gatewayVars, proc, startPc, reporting, ownership, backendPort, stopFallback,
                   windowCreated, stopVars, retryVars, endVars, failures>>

CleanStep(g) ==
    \/ CleanupTerminates(g) \/ CleanupReleases(g) \/ CleanupTriesAgain(g)
    \/ RootExits(g) \/ ReportExit(g) \/ WatcherCleansUp(g)

-----------------------------------------------------------------------------
(* A bounded stop, under the cleanup gate                                  *)

ToStop(c, p) == stopPc' = [stopPc EXCEPT ![c] = p]

StopGate(c) ==
    /\ stopPc[c] = "gate" /\ gate = "free" /\ gate' = c /\ ToStop(c, "request")
    /\ UNCHANGED <<gatewayVars, proc, taskVars, ownership, backendPort, stopFallback,
                   windowCreated, target, retryVars, endVars, failures>>

StopRequest(c) ==
    /\ stopPc[c] = "request" /\ RequestTreeStop /\ target' = tree /\ backendPort' = 0
    /\ ToStop(c, "terminate")
    /\ UNCHANGED <<gatewayVars, proc, taskVars, stopFallback, windowCreated, gate, retryVars,
                   endVars, failures>>

\* The message goes out although the killing failed.
SignalsNobody(g) == signalled
Signals(g) == IF stopFallback = g /\ g # 0 THEN signalled \cup {g} ELSE signalled

Terminates ==
    /\ \/ target # 0 /\ Killed(target) /\ UNCHANGED failures
       \/ target = 0 /\ UNCHANGED <<proc, failures>>
       \/ target # 0 /\ CanFail /\ UNCHANGED proc
    /\ signalled' = Signals(target) /\ target' = 0

StopTerminates(c) ==
    /\ stopPc[c] = "terminate" /\ Terminates /\ ToStop(c, "await")
    /\ UNCHANGED <<gatewayVars, startPc, cleaner, watcher, reporting, ownership, backendPort,
                   stopFallback, windowCreated, gate, retryVars, endVars>>

Released == ~HasOwnedWork

StopEnds(c) ==
    /\ stopPc[c] = "await" /\ Released /\ ToStop(c, "ok") /\ gate' = "free"
    /\ UNCHANGED <<gatewayVars, proc, taskVars, ownership, backendPort, stopFallback,
                   windowCreated, target, retryVars, endVars, failures>>

\* The deadline, while it waits for the gate, for the killing, which keeps the gate, or for
\* the release.
StopTimesOut(c) ==
    /\ stopPc[c] \in {"gate", "terminate", "await"} /\ ToStop(c, "error")
    /\ gate' = CASE stopPc[c] = "gate" -> gate
                 [] stopPc[c] = "terminate" -> "detached"
                 [] OTHER -> "free"
    /\ UNCHANGED <<gatewayVars, proc, taskVars, ownership, backendPort, stopFallback,
                   windowCreated, target, retryVars, endVars, failures>>

DetachedStopEnds ==
    /\ gate = "detached" /\ gate' = "free" /\ Terminates
    /\ UNCHANGED <<gatewayVars, startPc, cleaner, watcher, reporting, ownership, backendPort,
                   stopFallback, windowCreated, stopPc, retryVars, endVars>>

StopStep(c) ==
    StopGate(c) \/ StopRequest(c) \/ StopTerminates(c) \/ StopEnds(c) \/ StopTimesOut(c)

-----------------------------------------------------------------------------
(* The retry coordinator                                                   *)

\* The gateway answers a retry request only when its generation has failed; it reads the
\* state and submits the request a moment later.
AskRetry ==
    /\ phase = "failed" /\ retryPc = "idle" /\ retryPc' = "asked"
    /\ retryGeneration' = generation
    /\ UNCHANGED <<gatewayVars, proc, taskVars, ownership, backendPort, stopFallback,
                   windowCreated, stopVars, askVars, endVars, failures>>
RetryIsSeen ==
    /\ phase = "failed" /\ seen = 0 /\ seen' = generation /\ CanFail
    /\ UNCHANGED <<gatewayVars, proc, taskVars, ownership, backendPort, stopFallback,
                   windowCreated, stopVars, retryPc, retryGeneration, overtaken, endVars>>
RetryIsSubmitted ==
    /\ seen # 0 /\ retryPc = "idle" /\ retryPc' = "asked"
    /\ retryGeneration' = seen /\ seen' = 0
    /\ UNCHANGED <<gatewayVars, proc, taskVars, ownership, backendPort, stopFallback,
                   windowCreated, stopVars, overtaken, endVars, failures>>

RetryStops ==
    /\ retryPc = "asked" /\ retryPc' = "stopping" /\ ToStop("retry", "gate")
    /\ overtaken' = (overtaken \/ retryGeneration # generation)
    /\ UNCHANGED <<gatewayVars, proc, taskVars, ownership, backendPort, stopFallback,
                   windowCreated, gate, target, retryGeneration, seen, endVars, failures>>

RetryBegins ==
    /\ retryPc = "stopping" /\ stopPc["retry"] \in {"ok", "error"} /\ ToStop("retry", "none")
    /\ IF stopPc["retry"] = "ok" /\ MayBegin(retryGeneration)
       THEN Begins /\ retryPc' = "reserve"
       ELSE UNCHANGED gatewayVars /\ retryPc' = "idle"
    /\ UNCHANGED <<proc, taskVars, ownership, backendPort, stopFallback, windowCreated, gate,
                   target, retryGeneration, askVars, endVars, failures>>

\* The reservation and the end of retries exclude each other by the ownership's lock.
RetryAllowed == ~retriesStopped

RetryReserves ==
    /\ retryPc = "reserve"
    /\ IF RetryAllowed
       THEN /\ ReserveStart(generation) /\ ToStart(generation, "reserved")
            /\ retryPc' = "starting"
       ELSE retryPc' = "stopped" /\ UNCHANGED <<ownership, startPc>>
    /\ UNCHANGED <<gatewayVars, proc, cleaner, watcher, reporting, signalled, backendPort,
                   stopFallback, windowCreated, stopVars, retryGeneration, askVars, endVars,
                   failures>>

RetryIsTaken ==
    /\ retryPc = "starting" /\ startPc[generation] = "done" /\ retryPc' = "idle"
    /\ UNCHANGED <<gatewayVars, proc, taskVars, ownership, backendPort, stopFallback,
                   windowCreated, stopVars, retryGeneration, askVars, endVars, failures>>

RetryStep == RetryStops \/ RetryBegins \/ RetryReserves \/ RetryIsTaken

-----------------------------------------------------------------------------
(* The shutdown of the application                                         *)

AppShutdown ==
    /\ shutdownPc = "none" /\ shutdownPc' = "gateway" /\ retriesStopped' = TRUE
    /\ UNCHANGED <<gatewayVars, proc, taskVars, ownership, backendPort, stopFallback,
                   windowCreated, stopVars, retryVars, attempts, failures>>

GatewayStops ==
    /\ shutdownPc = "gateway" /\ ShutsDown /\ shutdownPc' = "stopping"
    /\ ToStop("shutdown", "gate")
    /\ UNCHANGED <<proc, taskVars, ownership, backendPort, stopFallback, windowCreated, gate,
                   target, retryVars, retriesStopped, attempts, failures>>

\* After so many more attempts the tree is killed by force.
ShutdownStopped ==
    /\ shutdownPc = "stopping" /\ stopPc["shutdown"] \in {"ok", "error"}
    /\ ToStop("shutdown", "none")
    /\ shutdownPc' = CASE stopPc["shutdown"] = "ok" -> "exited"
                       [] stopPc["shutdown"] # "ok" /\ attempts = ForceAfter -> "force"
                       [] OTHER -> "retained"
    /\ UNCHANGED <<gatewayVars, proc, taskVars, ownership, backendPort, stopFallback,
                   windowCreated, gate, target, retryVars, retriesStopped, attempts, failures>>

ShutdownTriesAgain ==
    /\ shutdownPc = "retained" /\ shutdownPc' = "stopping" /\ attempts' = attempts + 1
    /\ ToStop("shutdown", "gate")
    /\ UNCHANGED <<gatewayVars, proc, taskVars, ownership, backendPort, stopFallback,
                   windowCreated, gate, target, retryVars, retriesStopped, failures>>

\* By force the ownership is given up with the killing; without a tree to kill the
\* attempts begin again.
ShutdownForces ==
    /\ shutdownPc = "force" /\ gate = "free"
    /\ \/ /\ ~HasOwnedWork /\ shutdownPc' = "exited"
          /\ UNCHANGED <<proc, ownership, stopFallback, backendPort, attempts, failures>>
       \/ /\ tree # 0 /\ Killed(tree) /\ ClearTree(tree) /\ shutdownPc' = "exited"
          /\ UNCHANGED <<attempts, failures>>
       \/ /\ HasOwnedWork /\ tree = 0 /\ shutdownPc' = "retained" /\ attempts' = 0
          /\ UNCHANGED <<proc, ownership, stopFallback, backendPort, failures>>
       \/ /\ tree # 0 /\ CanFail /\ shutdownPc' = "retained" /\ attempts' = 0
          /\ UNCHANGED <<proc, ownership, stopFallback, backendPort>>
    /\ UNCHANGED <<gatewayVars, taskVars, windowCreated, stopVars, retryVars, retriesStopped>>

ShutdownStep == GatewayStops \/ ShutdownStopped \/ ShutdownTriesAgain \/ ShutdownForces

WindowIsCreated ==
    /\ ~windowCreated /\ windowCreated' = TRUE
    /\ UNCHANGED <<gatewayVars, proc, taskVars, ownership, backendPort, stopFallback, stopVars,
                   retryVars, endVars, failures>>

-----------------------------------------------------------------------------
\* The application runs until it exits.
Running(A) == shutdownPc # "exited" /\ A

Events ==
    \/ \E g \in Generation : Exits(g)
    \/ AskRetry \/ RetryIsSeen \/ RetryIsSubmitted \/ AppShutdown

Next ==
    \/ Running(Events)
    \/ \E g \in Generation : Running(StartStep(g)) \/ Running(CleanStep(g))
    \/ \E c \in Callers : Running(StopStep(c))
    \/ Running(DetachedStopEnds) \/ Running(RetryStep)
    \/ Running(ShutdownStep) \/ Running(WindowIsCreated)

Fairness ==
    /\ \A g \in Generation : WF_vars(Running(StartStep(g))) /\ WF_vars(Running(CleanStep(g)))
    /\ \A c \in Callers : WF_vars(Running(StopStep(c)))
    /\ WF_vars(Running(DetachedStopEnds)) /\ WF_vars(Running(RetryStep))
    /\ WF_vars(Running(ShutdownStep)) /\ WF_vars(Running(WindowIsCreated))
Spec == Init /\ [][Next]_vars /\ Fairness

-----------------------------------------------------------------------------
(* Properties                                                              *)

\* At most one tree exists, and it is owned, or its start is about to register it, until
\* it was killed and its root reaped, however starts, exits, failed kills, retries and the
\* shutdown meet.
TreesAreOwned ==
    \A g \in Generation : proc[g] \in {"running", "exited", "killed"} =>
        /\ tree = g \/ startPc[g] = "spawned" \/ shutdownPc = "exited"
        /\ \A h \in Generation \ {g} : proc[h] \in {"none", "reaped"}

\* The application does not exit while anything of a tree is alive or a start is pending.
ExitLeavesNothing ==
    shutdownPc = "exited" => /\ \A g \in Generation : proc[g] \notin {"running", "exited"}
                             /\ pendingStart = 0

\* What the gateway calls ready is the active, watched backend, unless its exit is about
\* to be reported or a stale retry has stopped it.
ReadyIsWatched ==
    phase = "ready" /\ ~overtaken =>
        /\ tree = generation /\ ~stopping
        /\ watcher[generation] = "watching" \/ generation \in reporting
        /\ backendPort = generation \/ rootExited

\* The backend's tree is owned until it is dead, and what is called ready is that tree.
BackendIsOwned == TreesAreOwned /\ ExitLeavesNothing /\ ReadyIsWatched

\* The design: a stale retry replaces no current state.  A backend that is called ready, and
\* that no shutdown ends, is alive or its exit is about to be reported.
StaleRetriesChangeNothing ==
    phase = "ready" /\ shutdownPc = "none" /\ proc[generation] = "reaped" =>
        generation \in reporting

\* What has begun and must end: a retry, a start, the stopping of a tree whose root is dead,
\* unless a stale retry got in between, and the shutdown, which ends everything.
Duties ==
    << retryPc \in {"asked", "stopping", "reserve"} /\ shutdownPc # "exited",
       shutdownPc # "exited" /\ \E g \in Generation : startPc[g] \notin {"none", "done"},
       /\ tree # 0 /\ proc[tree] # "running" /\ stopping /\ ~overtaken
       /\ shutdownPc # "exited",
       shutdownPc \notin {"none", "exited"} >>
=============================================================================
