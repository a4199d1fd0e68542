------------------------ MODULE BackendSupervisorProofs -----------------------
(***************************************************************************)
(* Proofs about BackendSupervisor, for any number of retries, of failed    *)
(* killings and of attempts of the shutdown.                               *)
(***************************************************************************)
EXTENDS BackendSupervisor, TLAPS

-----------------------------------------------------------------------------
(* Types                                                                   *)

TaskTypes ==
    /\ proc \in [Generation -> {"none", "running", "exited", "killed", "reaped"}]
    /\ startPc \in [Generation -> {"none", "reserved", "spawned", "waiting", "publishing",
                                   "cleanup", "failed", "completing", "done"}]
    /\ cleaner \in [Generation -> {"none", "terminate", "reap", "retained", "done"}]
    /\ watcher \in [Generation -> {"none", "watching", "exited", "done"}]
    /\ reporting \subseteq Generation /\ signalled \subseteq Generation

OwnerTypes ==
    /\ pendingStart \in 0..MaxGeneration /\ pid \in 0..MaxGeneration
    /\ stoppingPid \in 0..MaxGeneration /\ tree \in 0..MaxGeneration
    /\ backendPort \in 0..MaxGeneration /\ stopFallback \in 0..MaxGeneration

\* The provers of arithmetic do not tell a Boolean from another value.
FlagTypes == rootExited \in BOOLEAN /\ stopping \in BOOLEAN

\* Another attempt is made only below the limit.
ControlTypes ==
    /\ generation \in 0..MaxGeneration /\ phase \in Phases /\ windowCreated \in BOOLEAN
    /\ retryGeneration \in 0..MaxGeneration /\ seen \in 0..MaxGeneration
    /\ retriesStopped \in BOOLEAN /\ overtaken \in BOOLEAN
    /\ gate \in Callers \cup {"free", "detached"} /\ target \in 0..MaxGeneration
    /\ stopPc \in [Callers -> {"none", "gate", "request", "terminate", "await", "ok", "error"}]
    /\ retryPc \in {"idle", "asked", "stopping", "reserve", "starting", "stopped"}
    /\ shutdownPc \in {"none", "gateway", "stopping", "retained", "force", "exited"}
    /\ attempts \in 0..ForceAfter /\ failures \in 0..MaxFailures
    /\ shutdownPc = "retained" => attempts < ForceAfter

Typed == TaskTypes /\ OwnerTypes /\ FlagTypes /\ ControlTypes

\* Every step keeps the types of the tasks.
LEMMA TaskTypesKept ==
    ASSUME Typed, shutdownPc # "exited", Next
    PROVE  TaskTypes'
  <1> USE SupervisorAssumption DEF Generation, Callers
  <1>1. CASE \E c \in Callers : StopGate(c) \/ StopRequest(c) \/ StopEnds(c) \/
             StopTimesOut(c)
    <2>1. UNCHANGED <<proc, startPc, cleaner, watcher, reporting, signalled>>
      BY <1>1 DEF StopGate, taskVars, StopRequest, StopEnds, StopTimesOut
    <2> QED
      BY <2>1 DEF Typed, TaskTypes
  <1>2. CASE AskRetry \/ RetryIsSeen \/ RetryIsSubmitted \/ AppShutdown \/ RetryStops
             \/ RetryBegins \/ RetryIsTaken \/ GatewayStops \/ ShutdownStopped \/
             ShutdownTriesAgain \/ WindowIsCreated
    <2>1. UNCHANGED <<proc, startPc, cleaner, watcher, reporting, signalled>>
      BY <1>2 DEF AskRetry, taskVars, RetryIsSeen, RetryIsSubmitted, AppShutdown,
         RetryStops, RetryBegins, RetryIsTaken, GatewayStops, ShutdownStopped,
         ShutdownTriesAgain, WindowIsCreated
    <2> QED
      BY <2>1 DEF Typed, TaskTypes
  <1>3. ASSUME NEW g \in Generation, Exits(g) PROVE TaskTypes'
    BY <1>3 DEF Exits, taskVars, Typed, TaskTypes
  <1>4. ASSUME NEW g \in Generation, Spawn(g) PROVE TaskTypes'
    BY <1>4 DEF Spawn, ToStart, retryVars, Typed, TaskTypes, OwnerTypes, ControlTypes
  <1>5. ASSUME NEW g \in Generation, Register(g) PROVE TaskTypes'
    BY <1>5 DEF Register, ToStart, ToCleanup, Typed, TaskTypes
  <1>6. ASSUME NEW g \in Generation, AwaitReadiness(g) PROVE TaskTypes'
    <2>1. /\ ToCleanup(g) \/ (ToStart(g, "publishing") /\ UNCHANGED cleaner)
          /\ UNCHANGED <<proc, watcher, reporting>>
          /\ signalled' \subseteq signalled
      BY <1>6 DEF AwaitReadiness
    <2> QED
      BY <2>1 DEF ToCleanup, ToStart, Typed, TaskTypes
  <1>7. ASSUME NEW g \in Generation, Publish(g) PROVE TaskTypes'
    BY <1>7 DEF Publish, PublishedIfOwned, OwnsActive, ToStart, ToCleanup, ownership,
       stopVars, retryVars, endVars, Typed, TaskTypes, OwnerTypes
  <1>8. ASSUME NEW g \in Generation, ExitBeforePublication(g) PROVE TaskTypes'
    BY <1>8 DEF ExitBeforePublication, ToCleanup, ToStart, Typed, TaskTypes
  <1>9. ASSUME NEW g \in Generation, ReportFailure(g) PROVE TaskTypes'
    BY <1>9 DEF ReportFailure, ToStart, Typed, TaskTypes
  <1>10. ASSUME NEW g \in Generation, Complete(g) PROVE TaskTypes'
    BY <1>10 DEF Complete, ToStart, Typed, TaskTypes
  <1>11. ASSUME NEW g \in Generation, CleanupTerminates(g) PROVE TaskTypes'
    <2>1. /\ Killed(g) \/ UNCHANGED proc
          /\ StartFails(g) \/ UNCHANGED startPc
          /\ \E p \in {"reap", "retained"} : cleaner' = [cleaner EXCEPT ![g] = p]
          /\ UNCHANGED <<watcher, reporting, signalled>>
      BY <1>11 DEF CleanupTerminates, Retains
    <2> QED
      BY <2>1 DEF Killed, StartFails, Typed, TaskTypes
  <1>12. ASSUME NEW g \in Generation, CleanupReleases(g) PROVE TaskTypes'
    <2>1. /\ proc' = [proc EXCEPT ![g] = "reaped"] \/ UNCHANGED proc
          /\ StartFails(g)
          /\ \E p \in {"done", "retained"} : cleaner' = [cleaner EXCEPT ![g] = p]
          /\ UNCHANGED <<watcher, reporting, signalled>>
      BY <1>12 DEF CleanupReleases, Releases, Retains
    <2> QED
      BY <2>1 DEF StartFails, Typed, TaskTypes
  <1>13. ASSUME NEW g \in Generation, CleanupTriesAgain(g) PROVE TaskTypes'
    BY <1>13 DEF CleanupTriesAgain, Typed, TaskTypes
  <1>14. ASSUME NEW g \in Generation, RootExits(g) PROVE TaskTypes'
    <2>1. Reported(g) \subseteq Generation
      <3>1. CASE stopping
        BY <3>1 DEF Reported, Typed, TaskTypes
      <3>2. CASE ~stopping
        BY <3>2 DEF Reported, Typed, TaskTypes
      <3> QED
        BY <3>1, <3>2
    <2>2. /\ reporting' \in {Reported(g), reporting}
          /\ watcher' \in {[watcher EXCEPT ![g] = p] : p \in {"exited", "done"}}
          /\ UNCHANGED <<proc, startPc, cleaner, signalled>>
      BY <1>14 DEF RootExits
    <2> QED
      BY <2>1, <2>2 DEF Typed, TaskTypes
  <1>15. ASSUME NEW g \in Generation, ReportExit(g) PROVE TaskTypes'
    BY <1>15 DEF ReportExit, Typed, TaskTypes
  <1>16. ASSUME NEW g \in Generation, WatcherCleansUp(g) PROVE TaskTypes'
    BY <1>16 DEF WatcherCleansUp, Typed, TaskTypes
  <1>17. ASSUME NEW c \in Callers, StopTerminates(c) PROVE TaskTypes'
    BY <1>17 DEF StopTerminates, Terminates, Killed, Signals, Typed, TaskTypes,
       ControlTypes
  <1>18. CASE DetachedStopEnds
    BY <1>18 DEF DetachedStopEnds, Terminates, Killed, Signals, askVars, retryVars,
       endVars, Typed, TaskTypes, ControlTypes
  <1>19. CASE RetryReserves
    BY <1>19 DEF RetryReserves, ToStart, Typed, TaskTypes
  <1>20. CASE ShutdownForces
    BY <1>20 DEF ShutdownForces, HasOwnedWork, Killed, ClearTree, taskVars, Typed,
       TaskTypes
  <1> QED
    BY <1>1, <1>2, <1>3, <1>4, <1>5, <1>6, <1>7, <1>8, <1>9, <1>10, <1>11, <1>12, <1>13,
       <1>14, <1>15, <1>16, <1>17, <1>18, <1>19, <1>20 DEF Next, Running, Events,
       StartStep, CleanStep, StopStep, RetryStep, ShutdownStep

\* Every step keeps the types of the ownership.
LEMMA OwnerTypesKept ==
    ASSUME Typed, shutdownPc # "exited", Next
    PROVE  OwnerTypes'
  <1> USE SupervisorAssumption DEF Generation, Callers
  <1>1. CASE \E g \in Generation : Exits(g) \/ Spawn(g) \/ AwaitReadiness(g) \/
             ExitBeforePublication(g) \/ ReportFailure(g) \/ CleanupTerminates(g) \/
             CleanupTriesAgain(g) \/ ReportExit(g) \/ WatcherCleansUp(g)
    <2>1. UNCHANGED <<pendingStart, pid, stoppingPid, tree, backendPort, stopFallback>>
      BY <1>1 DEF Exits, ownership, Spawn, AwaitReadiness, ExitBeforePublication,
         ReportFailure, CleanupTerminates, CleanupTriesAgain, ReportExit,
         WatcherCleansUp
    <2> QED
      BY <2>1 DEF Typed, OwnerTypes
  <1>2. CASE \E c \in Callers : StopGate(c) \/ StopTerminates(c) \/ StopEnds(c) \/
             StopTimesOut(c)
    <2>1. UNCHANGED <<pendingStart, pid, stoppingPid, tree, backendPort, stopFallback>>
      BY <1>2 DEF StopGate, ownership, StopTerminates, StopEnds, StopTimesOut
    <2> QED
      BY <2>1 DEF Typed, OwnerTypes
  <1>3. CASE AskRetry \/ RetryIsSeen \/ RetryIsSubmitted \/ AppShutdown \/
             DetachedStopEnds \/ RetryStops \/ RetryBegins \/ RetryIsTaken \/
             GatewayStops \/ ShutdownStopped \/ ShutdownTriesAgain \/ WindowIsCreated
    <2>1. UNCHANGED <<pendingStart, pid, stoppingPid, tree, backendPort, stopFallback>>
      BY <1>3 DEF AskRetry, ownership, RetryIsSeen, RetryIsSubmitted, AppShutdown,
         DetachedStopEnds, RetryStops, RetryBegins, RetryIsTaken, GatewayStops,
         ShutdownStopped, ShutdownTriesAgain, WindowIsCreated
    <2> QED
      BY <2>1 DEF Typed, OwnerTypes
  <1>4. ASSUME NEW g \in Generation, Register(g) PROVE OwnerTypes'
    BY <1>4 DEF Register, RegisterTree, ownership, Typed, OwnerTypes
  <1>5. ASSUME NEW g \in Generation, Publish(g) PROVE OwnerTypes'
    BY <1>5 DEF Publish, PublishedIfOwned, ownership, Typed, OwnerTypes
  <1>6. ASSUME NEW g \in Generation, Complete(g) PROVE OwnerTypes'
    BY <1>6 DEF Complete, CompleteStart, ownership, Typed, OwnerTypes
  <1>7. ASSUME NEW g \in Generation, CleanupReleases(g) PROVE OwnerTypes'
    BY <1>7 DEF CleanupReleases, Releases, ClearTree, ownership, Typed, OwnerTypes
  <1>8. ASSUME NEW g \in Generation, RootExits(g) PROVE OwnerTypes'
    BY <1>8 DEF RootExits, Typed, OwnerTypes
  <1>9. ASSUME NEW c \in Callers, StopRequest(c) PROVE OwnerTypes'
    BY <1>9 DEF StopRequest, RequestTreeStop, Typed, OwnerTypes
  <1>10. CASE RetryReserves
    BY <1>10 DEF RetryReserves, ReserveStart, ownership, Typed, OwnerTypes, ControlTypes
  <1>11. CASE ShutdownForces
    BY <1>11 DEF ShutdownForces, ClearTree, ownership, Typed, OwnerTypes
  <1> QED
    BY <1>1, <1>2, <1>3, <1>4, <1>5, <1>6, <1>7, <1>8, <1>9, <1>10, <1>11 DEF Next,
       Running, Events, StartStep, CleanStep, StopStep, RetryStep, ShutdownStep

\* Every step keeps the types of the flags.
LEMMA FlagTypesKept ==
    ASSUME FlagTypes, shutdownPc # "exited", Next
    PROVE  FlagTypes'
  <1> USE SupervisorAssumption DEF Generation, Callers
  <1>1. CASE \E g \in Generation : Exits(g) \/ Spawn(g) \/ AwaitReadiness(g) \/
             Publish(g) \/ ExitBeforePublication(g) \/ ReportFailure(g) \/
             CleanupTerminates(g) \/ CleanupTriesAgain(g) \/ ReportExit(g) \/
             WatcherCleansUp(g)
    <2>1. UNCHANGED <<rootExited, stopping>>
      BY <1>1 DEF Exits, ownership, Spawn, AwaitReadiness, Publish,
         ExitBeforePublication, ReportFailure, CleanupTerminates, CleanupTriesAgain,
         ReportExit, WatcherCleansUp
    <2> QED
      BY <2>1, Zenon DEF FlagTypes
  <1>2. CASE \E c \in Callers : StopGate(c) \/ StopTerminates(c) \/ StopEnds(c) \/
             StopTimesOut(c)
    <2>1. UNCHANGED <<rootExited, stopping>>
      BY <1>2 DEF StopGate, ownership, StopTerminates, StopEnds, StopTimesOut
    <2> QED
      BY <2>1, Zenon DEF FlagTypes
  <1>3. CASE AskRetry \/ RetryIsSeen \/ RetryIsSubmitted \/ AppShutdown \/
             DetachedStopEnds \/ RetryStops \/ RetryBegins \/ RetryIsTaken \/
             GatewayStops \/ ShutdownStopped \/ ShutdownTriesAgain \/ WindowIsCreated
    <2>1. UNCHANGED <<rootExited, stopping>>
      BY <1>3 DEF AskRetry, ownership, RetryIsSeen, RetryIsSubmitted, AppShutdown,
         DetachedStopEnds, RetryStops, RetryBegins, RetryIsTaken, GatewayStops,
         ShutdownStopped, ShutdownTriesAgain, WindowIsCreated
    <2> QED
      BY <2>1, Zenon DEF FlagTypes
  <1>4. ASSUME NEW g \in Generation, Register(g) PROVE FlagTypes'
    BY <1>4, Zenon DEF Register, RegisterTree, ownership, FlagTypes
  <1>5. ASSUME NEW g \in Generation, Complete(g) PROVE FlagTypes'
    BY <1>5, Zenon DEF Complete, CompleteStart, ownership, FlagTypes
  <1>6. ASSUME NEW g \in Generation, CleanupReleases(g) PROVE FlagTypes'
    BY <1>6, Zenon DEF CleanupReleases, Releases, ClearTree, ownership, FlagTypes
  <1>7. ASSUME NEW g \in Generation, RootExits(g) PROVE FlagTypes'
    BY <1>7, Zenon DEF RootExits, FlagTypes
  <1>8. ASSUME NEW c \in Callers, StopRequest(c) PROVE FlagTypes'
    BY <1>8, Zenon DEF StopRequest, RequestTreeStop, FlagTypes
  <1>9. CASE RetryReserves
    BY <1>9, Zenon DEF RetryReserves, ReserveStart, ownership, FlagTypes
  <1>10. CASE ShutdownForces
    BY <1>10, Zenon DEF ShutdownForces, ClearTree, ownership, FlagTypes
  <1> QED
    BY <1>1, <1>2, <1>3, <1>4, <1>5, <1>6, <1>7, <1>8, <1>9, <1>10 DEF Next, Running,
       Events, StartStep, CleanStep, StopStep, RetryStep, ShutdownStep

\* Every step keeps the types of the gateway, the stops and their callers.
LEMMA ControlTypesKept ==
    ASSUME Typed, shutdownPc # "exited", Next
    PROVE  ControlTypes'
  <1> USE SupervisorAssumption DEF Generation, Callers
  <1>1. CASE \E g \in Generation : Exits(g) \/ Spawn(g) \/ Register(g) \/
             AwaitReadiness(g) \/ ExitBeforePublication(g) \/ Complete(g) \/
             CleanupTriesAgain(g) \/ RootExits(g) \/ WatcherCleansUp(g)
    <2>1. UNCHANGED <<generation, phase, windowCreated, retryGeneration, seen,
                      retriesStopped, overtaken, gate, target, stopPc, retryPc,
                      shutdownPc, attempts, failures>>
      BY <1>1 DEF Exits, gatewayVars, stopVars, askVars, retryVars, endVars, Spawn,
         Register, AwaitReadiness, ExitBeforePublication, Complete, CleanupTriesAgain,
         RootExits, WatcherCleansUp
    <2> QED
      BY <2>1 DEF Typed, ControlTypes
  <1>2. ASSUME NEW g \in Generation, Publish(g) PROVE ControlTypes'
    BY <1>2 DEF Publish, PublishedIfOwned, Readies, gatewayVars, stopVars, askVars,
       retryVars, endVars, Typed, ControlTypes, Phases
  <1>3. ASSUME NEW g \in Generation, ReportFailure(g) PROVE ControlTypes'
    BY <1>3 DEF ReportFailure, Fails, stopVars, askVars, retryVars, endVars, Typed,
       ControlTypes, Phases
  <1>4. ASSUME NEW g \in Generation, CleanupTerminates(g) PROVE ControlTypes'
    BY <1>4 DEF CleanupTerminates, Retains, CanFail, gatewayVars, stopVars, askVars,
       retryVars, endVars, Typed, ControlTypes
  <1>5. ASSUME NEW g \in Generation, CleanupReleases(g) PROVE ControlTypes'
    BY <1>5 DEF CleanupReleases, Releases, Retains, CanFail, gatewayVars, stopVars,
       askVars, retryVars, endVars, Typed, ControlTypes
  <1>6. ASSUME NEW g \in Generation, ReportExit(g) PROVE ControlTypes'
    BY <1>6 DEF ReportExit, Fails, stopVars, askVars, retryVars, endVars, Typed,
       ControlTypes, Phases
  <1>7. ASSUME NEW c \in Callers, StopGate(c) PROVE ControlTypes'
    BY <1>7 DEF StopGate, ToStop, gatewayVars, askVars, retryVars, endVars, Typed,
       ControlTypes
  <1>8. ASSUME NEW c \in Callers, StopRequest(c) PROVE ControlTypes'
    BY <1>8 DEF StopRequest, ToStop, gatewayVars, askVars, retryVars, endVars, Typed,
       OwnerTypes, ControlTypes
  <1>9. ASSUME NEW c \in Callers, StopTerminates(c) PROVE ControlTypes'
    BY <1>9 DEF StopTerminates, Terminates, CanFail, ToStop, gatewayVars, askVars,
       retryVars, endVars, Typed, ControlTypes
  <1>10. ASSUME NEW c \in Callers, StopEnds(c) PROVE ControlTypes'
    BY <1>10 DEF StopEnds, ToStop, gatewayVars, askVars, retryVars, endVars, Typed,
       ControlTypes
  <1>11. ASSUME NEW c \in Callers, StopTimesOut(c) PROVE ControlTypes'
    BY <1>11 DEF StopTimesOut, ToStop, gatewayVars, askVars, retryVars, endVars, Typed,
       ControlTypes
  <1>12. CASE AskRetry
    BY <1>12 DEF AskRetry, gatewayVars, stopVars, askVars, endVars, Typed, ControlTypes
  <1>13. CASE RetryIsSeen
    BY <1>13 DEF RetryIsSeen, CanFail, gatewayVars, stopVars, endVars, Typed,
       ControlTypes
  <1>14. CASE RetryIsSubmitted
    BY <1>14 DEF RetryIsSubmitted, gatewayVars, stopVars, endVars, Typed, ControlTypes
  <1>15. CASE AppShutdown
    BY <1>15 DEF AppShutdown, gatewayVars, stopVars, askVars, retryVars, Typed,
       ControlTypes
  <1>16. CASE DetachedStopEnds
    BY <1>16 DEF DetachedStopEnds, Terminates, CanFail, gatewayVars, askVars, retryVars,
       endVars, Typed, ControlTypes
  <1>17. CASE RetryStops
    BY <1>17 DEF RetryStops, ToStop, gatewayVars, endVars, Typed, ControlTypes
  <1>18. CASE RetryBegins
    BY <1>18 DEF RetryBegins, ToStop, MayBegin, Begins, gatewayVars, askVars, endVars,
       Typed, ControlTypes, Phases
  <1>19. CASE RetryReserves
    BY <1>19 DEF RetryReserves, gatewayVars, stopVars, askVars, endVars, Typed,
       ControlTypes
  <1>20. CASE RetryIsTaken
    BY <1>20 DEF RetryIsTaken, gatewayVars, stopVars, askVars, endVars, Typed,
       ControlTypes
  <1>21. CASE GatewayStops
    BY <1>21 DEF GatewayStops, ShutsDown, ToStop, askVars, retryVars, Typed,
       ControlTypes, Phases
  <1>22. CASE ShutdownStopped
    BY <1>22 DEF ShutdownStopped, ToStop, gatewayVars, askVars, retryVars, Typed,
       ControlTypes
  <1>23. CASE ShutdownTriesAgain
    BY <1>23 DEF ShutdownTriesAgain, ToStop, gatewayVars, askVars, retryVars, Typed,
       ControlTypes
  <1>24. CASE ShutdownForces
    BY <1>24 DEF ShutdownForces, CanFail, gatewayVars, stopVars, askVars, retryVars,
       Typed, ControlTypes
  <1>25. CASE WindowIsCreated
    BY <1>25 DEF WindowIsCreated, gatewayVars, stopVars, askVars, retryVars, endVars,
       Typed, ControlTypes
  <1> QED
    BY <1>1, <1>2, <1>3, <1>4, <1>5, <1>6, <1>7, <1>8, <1>9, <1>10, <1>11, <1>12, <1>13,
       <1>14, <1>15, <1>16, <1>17, <1>18, <1>19, <1>20, <1>21, <1>22, <1>23, <1>24,
       <1>25 DEF Next, Running, Events, StartStep, CleanStep, StopStep, RetryStep,
       ShutdownStep

-----------------------------------------------------------------------------
(* What is always true while the application runs                          *)

Live(g) == proc[g] \in {"running", "exited", "killed"}
Cleaning == {"terminate", "reap", "retained"}
Begun(g) == startPc[g] # "none"

\* A live tree is owned, or its start is about to register it.
OwnedInv == \A g \in Generation : Live(g) <=> tree = g \/ startPc[g] = "spawned"

\* A start that has no tree yet has reserved the ownership.
PendingInv ==
    /\ \A g \in Generation : startPc[g] \in {"reserved", "spawned"} => pendingStart = g
    /\ pendingStart # 0 => tree = 0

\* The tree has one name, active or to be stopped, and is of the newest generation.
NamedInv ==
    /\ \/ pid = tree /\ stoppingPid = 0
       \/ pid = 0 /\ stoppingPid = tree
    /\ tree \in {0, generation} /\ pendingStart \in {0, generation}

\* Nothing of a generation to come has begun, and nothing is to be reaped of a start that
\* has no tree.
FreshInv ==
    /\ generation \in Generation
    /\ \A g \in Generation : g > generation => ~Begun(g)
    /\ \A g \in Generation : startPc[g] \in {"none", "reserved"} => proc[g] = "none"
    /\ signalled \subseteq {g \in Generation : Begun(g)}
    /\ target # 0 => Begun(target)
    /\ retryPc = "reserve" => ~Begun(generation)

\* A tree is cleaned up by its start or by its watcher, and only while it is owned.
CleanerInv ==
    /\ \A g \in Generation : cleaner[g] \in Cleaning => tree = g
    /\ \A g \in Generation :
            startPc[g] \in {"none", "reserved", "spawned", "waiting", "publishing"} =>
                cleaner[g] = "none"
    /\ \A g \in Generation : startPc[g] = "cleanup" => cleaner[g] \in Cleaning
    /\ \A g \in Generation : startPc[g] \in {"waiting", "publishing"} => tree = g

\* A watcher belongs to a published tree, and leaves it to one cleanup.
WatcherInv ==
    /\ \A g \in Generation : watcher[g] # "none" => startPc[g] \in {"completing", "done"}
    /\ \A g \in Generation :
            watcher[g] \in {"watching", "exited"} => tree = g /\ cleaner[g] = "none"

\* The gate is held by the one stop that is under way, or by one that has timed out.
GateInv ==
    /\ \A c \in Callers : gate = c <=> stopPc[c] \in {"request", "terminate", "await"}
    /\ target # 0 => gate = "detached" \/ \E c \in Callers : stopPc[c] = "terminate"
    /\ stopPc["retry"] # "none" => retryPc = "stopping"
    /\ stopPc["shutdown"] # "none" => shutdownPc = "stopping"

\* Retries end with the shutdown, and what the gateway publishes with them.
EndInv ==
    /\ shutdownPc # "none" => retriesStopped
    /\ shutdownPc \notin {"none", "gateway"} => phase = "stopping"

\* Once a stop has succeeded nothing is owned, until a start is reserved again.
StoppedInv ==
    /\ \A c \in Callers : stopPc[c] = "ok" => ~HasOwnedWork
    /\ retryPc = "reserve" => ~HasOwnedWork
    /\ stopPc["retry"] = "ok" => gate = "free" \/ phase = "stopping"

\* A retry that is asked for finds a failed generation, or an older one.
AskInv ==
    /\ seen <= generation /\ (seen = generation => phase \in {"failed", "stopping"})
    /\ retryPc \in {"asked", "stopping"} /\ retryGeneration = generation =>
            phase \in {"failed", "stopping"}
    /\ retryPc = "stopping" /\ ~overtaken => retryGeneration = generation

\* Nobody stops a generation that starts or is ready.
CalmInv ==
    phase \in {"starting", "ready"} /\ ~overtaken =>
        /\ gate = "free" /\ generation \notin signalled
        /\ Begun(generation) => ~stopping

\* What is ready was published, and is not cleaned up.
PublishedInv ==
    phase = "ready" => /\ startPc[generation] \in {"completing", "done"}
                       /\ cleaner[generation] = "none" \/ overtaken

\* Every step keeps the tree owned.
LEMMA OwnedInvKept ==
    ASSUME Typed, OwnedInv, PendingInv, NamedInv, FreshInv, CleanerInv, StoppedInv,
              shutdownPc' # "exited", shutdownPc # "exited", Next
    PROVE  OwnedInv'
  <1> USE SupervisorAssumption DEF Generation, Callers
  <1>1. CASE \E g \in Generation : CleanupTriesAgain(g) \/ RootExits(g) \/
             ReportExit(g) \/ WatcherCleansUp(g)
    <2>1. UNCHANGED <<proc, startPc, tree>>
      BY <1>1 DEF CleanupTriesAgain, ownership, RootExits, ReportExit, WatcherCleansUp
    <2> QED
      BY <2>1 DEF OwnedInv, Live
  <1>2. CASE \E c \in Callers : StopGate(c) \/ StopRequest(c) \/ StopEnds(c) \/
             StopTimesOut(c)
    <2>1. UNCHANGED <<proc, startPc, tree>>
      BY <1>2 DEF StopGate, taskVars, ownership, StopRequest, RequestTreeStop, StopEnds,
         StopTimesOut
    <2> QED
      BY <2>1 DEF OwnedInv, Live
  <1>3. CASE AskRetry \/ RetryIsSeen \/ RetryIsSubmitted \/ AppShutdown \/ RetryStops
             \/ RetryBegins \/ RetryIsTaken \/ GatewayStops \/ ShutdownStopped \/
             ShutdownTriesAgain \/ WindowIsCreated
    <2>1. UNCHANGED <<proc, startPc, tree>>
      BY <1>3 DEF AskRetry, taskVars, ownership, RetryIsSeen, RetryIsSubmitted,
         AppShutdown, RetryStops, RetryBegins, RetryIsTaken, GatewayStops,
         ShutdownStopped, ShutdownTriesAgain, WindowIsCreated
    <2> QED
      BY <2>1 DEF OwnedInv, Live
  <1>4. ASSUME NEW g \in Generation, Exits(g) PROVE OwnedInv'
    BY <1>4 DEF Exits, taskVars, ownership, OwnedInv, Live
  <1>5. ASSUME NEW g \in Generation, Spawn(g) PROVE OwnedInv'
    BY <1>5 DEF Spawn, ToStart, ownership, Typed, TaskTypes, OwnedInv, Live
  <1>6. ASSUME NEW g \in Generation, Register(g) PROVE OwnedInv'
    BY <1>6 DEF Register, RegisterTree, ToStart, ToCleanup, Typed, TaskTypes, OwnedInv,
       PendingInv, Live
  <1>7. ASSUME NEW g \in Generation, AwaitReadiness(g) PROVE OwnedInv'
    BY <1>7 DEF AwaitReadiness, ToCleanup, ToStart, ownership, Typed, TaskTypes,
       OwnedInv, Live
  <1>8. ASSUME NEW g \in Generation, Publish(g) PROVE OwnedInv'
    BY <1>8 DEF Publish, PublishedIfOwned, ToStart, ToCleanup, ownership, Typed,
       TaskTypes, OwnedInv, Live
  <1>9. ASSUME NEW g \in Generation, ExitBeforePublication(g) PROVE OwnedInv'
    BY <1>9 DEF ExitBeforePublication, ToCleanup, ToStart, ownership, OwnedInv, Live
  <1>10. ASSUME NEW g \in Generation, ReportFailure(g) PROVE OwnedInv'
    BY <1>10 DEF ReportFailure, ToStart, ownership, OwnedInv, Live
  <1>11. ASSUME NEW g \in Generation, Complete(g) PROVE OwnedInv'
    BY <1>11 DEF Complete, ToStart, CompleteStart, ownership, OwnedInv, Live
  <1>12. ASSUME NEW g \in Generation, CleanupTerminates(g) PROVE OwnedInv'
    BY <1>12 DEF CleanupTerminates, Killed, StartFails, Retains, ownership, Typed,
       TaskTypes, OwnedInv, Live
  <1>13. ASSUME NEW g \in Generation, CleanupReleases(g) PROVE OwnedInv'
    BY <1>13 DEF CleanupReleases, Releases, Retains, ClearTree, StartFails, ownership,
       Typed, TaskTypes, OwnedInv, CleanerInv, Live
  <1>14. ASSUME NEW c \in Callers, StopTerminates(c) PROVE OwnedInv'
    BY <1>14 DEF StopTerminates, Terminates, Killed, ownership, Typed, TaskTypes,
       OwnedInv, Live
  <1>15. CASE DetachedStopEnds
    BY <1>15 DEF DetachedStopEnds, Terminates, Killed, ownership, Typed, TaskTypes,
       OwnedInv, Live
  <1>16. CASE RetryReserves
    BY <1>16 DEF RetryReserves, ReserveStart, ToStart, ownership, Typed, TaskTypes,
       OwnedInv, NamedInv, FreshInv, Live, Begun
  <1>17. CASE ShutdownForces
    BY <1>17 DEF ShutdownForces, HasOwnedWork, taskVars, ownership, OwnedInv, Live
  <1> QED
    BY <1>1, <1>2, <1>3, <1>4, <1>5, <1>6, <1>7, <1>8, <1>9, <1>10, <1>11, <1>12, <1>13,
       <1>14, <1>15, <1>16, <1>17 DEF Next, Running, Events, StartStep, CleanStep,
       StopStep, RetryStep, ShutdownStep

\* Every step keeps the reservation.
LEMMA PendingInvKept ==
    ASSUME Typed, PendingInv, NamedInv, FreshInv, CleanerInv, StoppedInv, shutdownPc' #
              "exited", shutdownPc # "exited", Next
    PROVE  PendingInv'
  <1> USE SupervisorAssumption DEF Generation, Callers
  <1>1. CASE \E g \in Generation : Exits(g) \/ CleanupTriesAgain(g) \/ RootExits(g) \/
             ReportExit(g) \/ WatcherCleansUp(g)
    <2>1. UNCHANGED <<startPc, pendingStart, tree>>
      BY <1>1 DEF Exits, taskVars, ownership, CleanupTriesAgain, RootExits, ReportExit,
         WatcherCleansUp
    <2> QED
      BY <2>1 DEF PendingInv
  <1>2. CASE \E c \in Callers : StopGate(c) \/ StopRequest(c) \/ StopTerminates(c) \/
             StopEnds(c) \/ StopTimesOut(c)
    <2>1. UNCHANGED <<startPc, pendingStart, tree>>
      BY <1>2 DEF StopGate, taskVars, ownership, StopRequest, RequestTreeStop,
         StopTerminates, StopEnds, StopTimesOut
    <2> QED
      BY <2>1 DEF PendingInv
  <1>3. CASE AskRetry \/ RetryIsSeen \/ RetryIsSubmitted \/ AppShutdown \/
             DetachedStopEnds \/ RetryStops \/ RetryBegins \/ RetryIsTaken \/
             GatewayStops \/ ShutdownStopped \/ ShutdownTriesAgain \/ WindowIsCreated
    <2>1. UNCHANGED <<startPc, pendingStart, tree>>
      BY <1>3 DEF AskRetry, taskVars, ownership, RetryIsSeen, RetryIsSubmitted,
         AppShutdown, DetachedStopEnds, RetryStops, RetryBegins, RetryIsTaken,
         GatewayStops, ShutdownStopped, ShutdownTriesAgain, WindowIsCreated
    <2> QED
      BY <2>1 DEF PendingInv
  <1>4. ASSUME NEW g \in Generation, Spawn(g) PROVE PendingInv'
    BY <1>4 DEF Spawn, ToStart, ownership, Typed, TaskTypes, PendingInv
  <1>5. ASSUME NEW g \in Generation, Register(g) PROVE PendingInv'
    BY <1>5 DEF Register, RegisterTree, ToStart, ToCleanup, stopVars, askVars,
       retryVars, endVars, Typed, TaskTypes, PendingInv, FreshInv
  <1>6. ASSUME NEW g \in Generation, AwaitReadiness(g) PROVE PendingInv'
    BY <1>6 DEF AwaitReadiness, ToCleanup, ToStart, ownership, Typed, TaskTypes,
       PendingInv
  <1>7. ASSUME NEW g \in Generation, Publish(g) PROVE PendingInv'
    BY <1>7 DEF Publish, PublishedIfOwned, ToStart, ToCleanup, ownership, Typed,
       TaskTypes, PendingInv
  <1>8. ASSUME NEW g \in Generation, ExitBeforePublication(g) PROVE PendingInv'
    BY <1>8 DEF ExitBeforePublication, ToCleanup, ToStart, ownership, PendingInv
  <1>9. ASSUME NEW g \in Generation, ReportFailure(g) PROVE PendingInv'
    BY <1>9 DEF ReportFailure, ToStart, ownership, PendingInv
  <1>10. ASSUME NEW g \in Generation, Complete(g) PROVE PendingInv'
    BY <1>10 DEF Complete, ToStart, CompleteStart, ownership, PendingInv
  <1>11. ASSUME NEW g \in Generation, CleanupTerminates(g) PROVE PendingInv'
    BY <1>11 DEF CleanupTerminates, StartFails, Retains, ownership, Typed, TaskTypes,
       PendingInv
  <1>12. ASSUME NEW g \in Generation, CleanupReleases(g) PROVE PendingInv'
    BY <1>12 DEF CleanupReleases, Releases, Retains, ClearTree, StartFails, ownership,
       Typed, TaskTypes, PendingInv
  <1>13. CASE RetryReserves
    BY <1>13 DEF RetryReserves, ReserveStart, ToStart, ownership, Typed, TaskTypes,
       PendingInv, NamedInv
  <1>14. CASE ShutdownForces
    BY <1>14 DEF ShutdownForces, HasOwnedWork, taskVars, ownership, PendingInv
  <1> QED
    BY <1>1, <1>2, <1>3, <1>4, <1>5, <1>6, <1>7, <1>8, <1>9, <1>10, <1>11, <1>12, <1>13,
       <1>14 DEF Next, Running, Events, StartStep, CleanStep, StopStep, RetryStep,
       ShutdownStep

\* Every step keeps the name of the tree.
LEMMA NamedInvKept ==
    ASSUME Typed, NamedInv, PendingInv, FreshInv, CleanerInv, StoppedInv, shutdownPc' #
              "exited", shutdownPc # "exited", Next
    PROVE  NamedInv'
  <1> USE SupervisorAssumption DEF Generation, Callers
  <1>1. CASE \E g \in Generation : Exits(g) \/ Spawn(g) \/ AwaitReadiness(g) \/
             Publish(g) \/ ExitBeforePublication(g) \/ ReportFailure(g) \/
             CleanupTerminates(g) \/ CleanupTriesAgain(g) \/ RootExits(g) \/
             ReportExit(g) \/ WatcherCleansUp(g)
    <2>1. UNCHANGED <<pid, stoppingPid, tree, pendingStart, generation>>
      BY <1>1 DEF Exits, gatewayVars, ownership, Spawn, AwaitReadiness, Publish,
         PublishedIfOwned, Readies, ExitBeforePublication, ReportFailure, Fails,
         CleanupTerminates, CleanupTriesAgain, RootExits, ReportExit, WatcherCleansUp
    <2> QED
      BY <2>1 DEF NamedInv
  <1>2. CASE \E c \in Callers : StopGate(c) \/ StopTerminates(c) \/ StopEnds(c) \/
             StopTimesOut(c)
    <2>1. UNCHANGED <<pid, stoppingPid, tree, pendingStart, generation>>
      BY <1>2 DEF StopGate, gatewayVars, ownership, StopTerminates, StopEnds,
         StopTimesOut
    <2> QED
      BY <2>1 DEF NamedInv
  <1>3. CASE AskRetry \/ RetryIsSeen \/ RetryIsSubmitted \/ AppShutdown \/
             DetachedStopEnds \/ RetryStops \/ RetryIsTaken \/ GatewayStops \/
             ShutdownStopped \/ ShutdownTriesAgain \/ WindowIsCreated
    <2>1. UNCHANGED <<pid, stoppingPid, tree, pendingStart, generation>>
      BY <1>3 DEF AskRetry, gatewayVars, ownership, RetryIsSeen, RetryIsSubmitted,
         AppShutdown, DetachedStopEnds, RetryStops, RetryIsTaken, GatewayStops,
         ShutsDown, ShutdownStopped, ShutdownTriesAgain, WindowIsCreated
    <2> QED
      BY <2>1 DEF NamedInv
  <1>4. ASSUME NEW g \in Generation, Register(g) PROVE NamedInv'
    BY <1>4 DEF Register, RegisterTree, gatewayVars, NamedInv, PendingInv
  <1>5. ASSUME NEW g \in Generation, Complete(g) PROVE NamedInv'
    BY <1>5 DEF Complete, CompleteStart, gatewayVars, ownership, NamedInv
  <1>6. ASSUME NEW g \in Generation, CleanupReleases(g) PROVE NamedInv'
    BY <1>6 DEF CleanupReleases, Releases, ClearTree, gatewayVars, ownership, NamedInv
  <1>7. ASSUME NEW c \in Callers, StopRequest(c) PROVE NamedInv'
    BY <1>7 DEF StopRequest, RequestTreeStop, gatewayVars, NamedInv
  <1>8. CASE RetryBegins
    BY <1>8 DEF RetryBegins, gatewayVars, ownership, NamedInv, StoppedInv, HasOwnedWork
  <1>9. CASE RetryReserves
    BY <1>9 DEF RetryReserves, ReserveStart, gatewayVars, ownership, NamedInv
  <1>10. CASE ShutdownForces
    BY <1>10 DEF ShutdownForces, HasOwnedWork, gatewayVars, ownership, NamedInv
  <1> QED
    BY <1>1, <1>2, <1>3, <1>4, <1>5, <1>6, <1>7, <1>8, <1>9, <1>10 DEF Next, Running,
       Events, StartStep, CleanStep, StopStep, RetryStep, ShutdownStep

\* Every step keeps the generations to come untouched.
LEMMA FreshInvKept ==
    ASSUME Typed, FreshInv, PendingInv, NamedInv, CleanerInv, OwnedInv, WatcherInv,
              shutdownPc' # "exited", shutdownPc # "exited", Next
    PROVE  FreshInv'
  <1> USE SupervisorAssumption DEF Generation, Callers
  <1>1. CASE \E g \in Generation : RootExits(g) \/ ReportExit(g)
    <2>1. UNCHANGED <<generation, startPc, proc, signalled, target, retryPc>>
      BY <1>1 DEF RootExits, gatewayVars, stopVars, retryVars, ReportExit, Fails
    <2> QED
      BY <2>1 DEF FreshInv, Begun
  <1>2. CASE \E c \in Callers : StopGate(c) \/ StopEnds(c) \/ StopTimesOut(c)
    <2>1. UNCHANGED <<generation, startPc, proc, signalled, target, retryPc>>
      BY <1>2 DEF StopGate, gatewayVars, taskVars, retryVars, StopEnds, StopTimesOut
    <2> QED
      BY <2>1 DEF FreshInv, Begun
  <1>3. CASE RetryIsSeen \/ AppShutdown \/ GatewayStops \/ ShutdownStopped \/
             ShutdownTriesAgain \/ WindowIsCreated
    <2>1. UNCHANGED <<generation, startPc, proc, signalled, target, retryPc>>
      BY <1>3 DEF RetryIsSeen, gatewayVars, taskVars, stopVars, AppShutdown, retryVars,
         GatewayStops, ShutsDown, ShutdownStopped, ShutdownTriesAgain, WindowIsCreated
    <2> QED
      BY <2>1 DEF FreshInv, Begun
  <1>4. ASSUME NEW g \in Generation, Exits(g) PROVE FreshInv'
    BY <1>4 DEF Exits, gatewayVars, taskVars, stopVars, retryVars, FreshInv, Begun
  <1>5. ASSUME NEW g \in Generation, Spawn(g) PROVE FreshInv'
    BY <1>5 DEF Spawn, ToStart, gatewayVars, stopVars, retryVars, Typed, TaskTypes,
       FreshInv, Begun, ControlTypes
  <1>6. ASSUME NEW g \in Generation, Register(g) PROVE FreshInv'
    BY <1>6 DEF Register, ToStart, ToCleanup, gatewayVars, stopVars, retryVars, Typed,
       TaskTypes, FreshInv, Begun, ControlTypes
  <1>7. ASSUME NEW g \in Generation, AwaitReadiness(g) PROVE FreshInv'
    <2>1. /\ startPc[g] = "waiting" /\ signalled' \subseteq signalled
          /\ \E p \in {"publishing", "cleanup"} : startPc' = [startPc EXCEPT ![g] = p]
          /\ UNCHANGED <<generation, proc, target, retryPc>>
      BY <1>7 DEF AwaitReadiness, ToCleanup, ToStart, gatewayVars, stopVars, retryVars
    <2> QED
      BY <2>1 DEF FreshInv, Begun
  <1>8. ASSUME NEW g \in Generation, Publish(g) PROVE FreshInv'
    BY <1>8 DEF Publish, PublishedIfOwned, Readies, ToStart, ToCleanup, gatewayVars,
       stopVars, retryVars, Typed, TaskTypes, FreshInv, Begun, ControlTypes
  <1>9. ASSUME NEW g \in Generation, ExitBeforePublication(g) PROVE FreshInv'
    BY <1>9 DEF ExitBeforePublication, ToCleanup, ToStart, gatewayVars, stopVars,
       retryVars, FreshInv, Begun
  <1>10. ASSUME NEW g \in Generation, ReportFailure(g) PROVE FreshInv'
    BY <1>10 DEF ReportFailure, Fails, ToStart, stopVars, retryVars, FreshInv, Begun
  <1>11. ASSUME NEW g \in Generation, Complete(g) PROVE FreshInv'
    BY <1>11 DEF Complete, ToStart, gatewayVars, stopVars, retryVars, FreshInv, Begun
  <1>12. ASSUME NEW g \in Generation, CleanupTerminates(g) PROVE FreshInv'
    BY <1>12 DEF CleanupTerminates, Killed, StartFails, Retains, gatewayVars, stopVars,
       retryVars, Typed, TaskTypes, FreshInv, Begun, ControlTypes
  <1>13. ASSUME NEW g \in Generation, CleanupReleases(g) PROVE FreshInv'
    BY <1>13 DEF CleanupReleases, Releases, Retains, StartFails, gatewayVars, stopVars,
       retryVars, Typed, TaskTypes, FreshInv, CleanerInv, OwnedInv, Begun, Cleaning,
       ControlTypes
  <1>14. ASSUME NEW g \in Generation, CleanupTriesAgain(g) PROVE FreshInv'
    BY <1>14 DEF CleanupTriesAgain, gatewayVars, stopVars, retryVars, FreshInv, Begun
  <1>15. ASSUME NEW g \in Generation, WatcherCleansUp(g) PROVE FreshInv'
    BY <1>15 DEF WatcherCleansUp, gatewayVars, stopVars, retryVars, FreshInv, Begun
  <1>16. ASSUME NEW c \in Callers, StopRequest(c) PROVE FreshInv'
    BY <1>16 DEF StopRequest, gatewayVars, taskVars, retryVars, Typed, OwnerTypes,
       FreshInv, OwnedInv, Live, Begun
  <1>17. ASSUME NEW c \in Callers, StopTerminates(c) PROVE FreshInv'
    BY <1>17 DEF StopTerminates, Terminates, Killed, Signals, gatewayVars, retryVars,
       Typed, TaskTypes, FreshInv, Begun, ControlTypes
  <1>18. CASE AskRetry
    BY <1>18 DEF AskRetry, gatewayVars, taskVars, stopVars, FreshInv, Begun
  <1>19. CASE RetryIsSubmitted
    BY <1>19 DEF RetryIsSubmitted, gatewayVars, taskVars, stopVars, FreshInv, Begun
  <1>20. CASE DetachedStopEnds
    BY <1>20 DEF DetachedStopEnds, Terminates, Killed, Signals, gatewayVars, retryVars,
       Typed, TaskTypes, FreshInv, Begun, ControlTypes
  <1>21. CASE RetryStops
    BY <1>21 DEF RetryStops, gatewayVars, taskVars, FreshInv, Begun
  <1>22. CASE RetryBegins
    BY <1>22 DEF RetryBegins, MayBegin, Begins, gatewayVars, taskVars, FreshInv, Begun
  <1>23. CASE RetryReserves
    BY <1>23 DEF RetryReserves, ToStart, gatewayVars, stopVars, Typed, TaskTypes,
       FreshInv, Begun, ControlTypes
  <1>24. CASE RetryIsTaken
    BY <1>24 DEF RetryIsTaken, gatewayVars, taskVars, stopVars, FreshInv, Begun
  <1>25. CASE ShutdownForces
    BY <1>25 DEF ShutdownForces, gatewayVars, taskVars, stopVars, retryVars, FreshInv,
       Begun
  <1> QED
    BY <1>1, <1>2, <1>3, <1>4, <1>5, <1>6, <1>7, <1>8, <1>9, <1>10, <1>11, <1>12, <1>13,
       <1>14, <1>15, <1>16, <1>17, <1>18, <1>19, <1>20, <1>21, <1>22, <1>23, <1>24,
       <1>25 DEF Next, Running, Events, StartStep, CleanStep, StopStep, RetryStep,
       ShutdownStep

\* Every step keeps one cleanup of an owned tree.
LEMMA CleanerInvKept ==
    ASSUME Typed, CleanerInv, PendingInv, NamedInv, WatcherInv, StoppedInv, FreshInv,
              shutdownPc' # "exited", shutdownPc # "exited", Next
    PROVE  CleanerInv'
  <1> USE SupervisorAssumption DEF Generation, Callers
  <1>1. CASE \E g \in Generation : Exits(g) \/ RootExits(g) \/ ReportExit(g)
    <2>1. UNCHANGED <<cleaner, startPc, tree>>
      BY <1>1 DEF Exits, taskVars, ownership, RootExits, ReportExit
    <2> QED
      BY <2>1 DEF CleanerInv
  <1>2. CASE \E c \in Callers : StopGate(c) \/ StopRequest(c) \/ StopTerminates(c) \/
             StopEnds(c) \/ StopTimesOut(c)
    <2>1. UNCHANGED <<cleaner, startPc, tree>>
      BY <1>2 DEF StopGate, taskVars, ownership, StopRequest, RequestTreeStop,
         StopTerminates, StopEnds, StopTimesOut
    <2> QED
      BY <2>1 DEF CleanerInv
  <1>3. CASE AskRetry \/ RetryIsSeen \/ RetryIsSubmitted \/ AppShutdown \/
             DetachedStopEnds \/ RetryStops \/ RetryBegins \/ RetryIsTaken \/
             GatewayStops \/ ShutdownStopped \/ ShutdownTriesAgain \/ WindowIsCreated
    <2>1. UNCHANGED <<cleaner, startPc, tree>>
      BY <1>3 DEF AskRetry, taskVars, ownership, RetryIsSeen, RetryIsSubmitted,
         AppShutdown, DetachedStopEnds, RetryStops, RetryBegins, RetryIsTaken,
         GatewayStops, ShutdownStopped, ShutdownTriesAgain, WindowIsCreated
    <2> QED
      BY <2>1 DEF CleanerInv
  <1>4. ASSUME NEW g \in Generation, Spawn(g) PROVE CleanerInv'
    BY <1>4 DEF Spawn, ToStart, ownership, Typed, TaskTypes, CleanerInv
  <1>5. ASSUME NEW g \in Generation, Register(g) PROVE CleanerInv'
    BY <1>5 DEF Register, RegisterTree, ToStart, ToCleanup, Typed, TaskTypes,
       OwnerTypes, CleanerInv, PendingInv, Cleaning
  <1>6. ASSUME NEW g \in Generation, AwaitReadiness(g) PROVE CleanerInv'
    <2>1. /\ startPc[g] = "waiting" /\ UNCHANGED tree
          /\ ToCleanup(g) \/ (ToStart(g, "publishing") /\ UNCHANGED cleaner)
      BY <1>6 DEF AwaitReadiness, ownership
    <2> QED
      BY <2>1 DEF ToCleanup, ToStart, Typed, TaskTypes, CleanerInv, Cleaning
  <1>7. ASSUME NEW g \in Generation, Publish(g) PROVE CleanerInv'
    BY <1>7 DEF Publish, PublishedIfOwned, ToStart, ToCleanup, ownership, Typed,
       TaskTypes, CleanerInv, StoppedInv, FreshInv, Cleaning
  <1>8. ASSUME NEW g \in Generation, ExitBeforePublication(g) PROVE CleanerInv'
    BY <1>8 DEF ExitBeforePublication, ToCleanup, ToStart, ownership, Typed, TaskTypes,
       CleanerInv, Cleaning
  <1>9. ASSUME NEW g \in Generation, ReportFailure(g) PROVE CleanerInv'
    BY <1>9 DEF ReportFailure, ToStart, ownership, CleanerInv
  <1>10. ASSUME NEW g \in Generation, Complete(g) PROVE CleanerInv'
    BY <1>10 DEF Complete, ToStart, CompleteStart, ownership, CleanerInv
  <1>11. ASSUME NEW g \in Generation, CleanupTerminates(g) PROVE CleanerInv'
    BY <1>11 DEF CleanupTerminates, Killed, StartFails, Retains, ownership, Typed,
       TaskTypes, OwnerTypes, CleanerInv, NamedInv, StoppedInv, FreshInv, Cleaning
  <1>12. ASSUME NEW g \in Generation, CleanupReleases(g) PROVE CleanerInv'
    <2>1. /\ cleaner[g] = "reap" /\ UNCHANGED <<watcher, pendingStart>>
          /\ startPc' = [startPc EXCEPT ![g] = IF @ = "cleanup" THEN "failed" ELSE @]
      BY <1>12 DEF CleanupReleases, Releases, Retains, ClearTree, StartFails, ownership
    <2>2. tree = g
      BY <2>1 DEF CleanerInv, Cleaning
    <2>3. \/ cleaner' = [cleaner EXCEPT ![g] = "done"] /\ tree' = 0
          \/ cleaner' = [cleaner EXCEPT ![g] = "retained"] /\ tree' = tree
      BY <1>12, <2>2 DEF CleanupReleases, Releases, Retains, ClearTree, ownership
    <2> QED
      BY <2>1, <2>2, <2>3 DEF Typed, TaskTypes, CleanerInv, WatcherInv, Cleaning
  <1>13. ASSUME NEW g \in Generation, CleanupTriesAgain(g) PROVE CleanerInv'
    BY <1>13 DEF CleanupTriesAgain, ownership, CleanerInv, Cleaning
  <1>14. ASSUME NEW g \in Generation, WatcherCleansUp(g) PROVE CleanerInv'
    BY <1>14 DEF WatcherCleansUp, ownership, OwnerTypes, CleanerInv, WatcherInv,
       Cleaning
  <1>15. CASE RetryReserves
    BY <1>15 DEF RetryReserves, ToStart, Typed, TaskTypes, CleanerInv, NamedInv,
       FreshInv, Begun, Cleaning
  <1>16. CASE ShutdownForces
    BY <1>16 DEF ShutdownForces, HasOwnedWork, taskVars, ownership, CleanerInv
  <1> QED
    BY <1>1, <1>2, <1>3, <1>4, <1>5, <1>6, <1>7, <1>8, <1>9, <1>10, <1>11, <1>12, <1>13,
       <1>14, <1>15, <1>16 DEF Next, Running, Events, StartStep, CleanStep, StopStep,
       RetryStep, ShutdownStep

\* Every step keeps the watcher on a published tree.
LEMMA WatcherInvKept ==
    ASSUME Typed, WatcherInv, PendingInv, NamedInv, CleanerInv, StoppedInv, FreshInv,
              shutdownPc' # "exited", shutdownPc # "exited", Next
    PROVE  WatcherInv'
  <1> USE SupervisorAssumption DEF Generation, Callers
  <1>1. CASE \E g \in Generation : Exits(g) \/ ReportExit(g)
    <2>1. UNCHANGED <<watcher, startPc, tree, cleaner>>
      BY <1>1 DEF Exits, taskVars, ownership, ReportExit
    <2> QED
      BY <2>1 DEF WatcherInv
  <1>2. CASE \E c \in Callers : StopGate(c) \/ StopRequest(c) \/ StopTerminates(c) \/
             StopEnds(c) \/ StopTimesOut(c)
    <2>1. UNCHANGED <<watcher, startPc, tree, cleaner>>
      BY <1>2 DEF StopGate, taskVars, ownership, StopRequest, RequestTreeStop,
         StopTerminates, StopEnds, StopTimesOut
    <2> QED
      BY <2>1 DEF WatcherInv
  <1>3. CASE AskRetry \/ RetryIsSeen \/ RetryIsSubmitted \/ AppShutdown \/
             DetachedStopEnds \/ RetryStops \/ RetryBegins \/ RetryIsTaken \/
             GatewayStops \/ ShutdownStopped \/ ShutdownTriesAgain \/ WindowIsCreated
    <2>1. UNCHANGED <<watcher, startPc, tree, cleaner>>
      BY <1>3 DEF AskRetry, taskVars, ownership, RetryIsSeen, RetryIsSubmitted,
         AppShutdown, DetachedStopEnds, RetryStops, RetryBegins, RetryIsTaken,
         GatewayStops, ShutdownStopped, ShutdownTriesAgain, WindowIsCreated
    <2> QED
      BY <2>1 DEF WatcherInv
  <1>4. ASSUME NEW g \in Generation, Spawn(g) PROVE WatcherInv'
    BY <1>4 DEF Spawn, ToStart, Typed, TaskTypes, WatcherInv, PendingInv, Begun
  <1>5. ASSUME NEW g \in Generation, Register(g) PROVE WatcherInv'
    BY <1>5 DEF Register, ToStart, ToCleanup, Typed, TaskTypes, WatcherInv, PendingInv
  <1>6. ASSUME NEW g \in Generation, AwaitReadiness(g) PROVE WatcherInv'
    BY <1>6 DEF AwaitReadiness, ToCleanup, ToStart, ownership, Typed, TaskTypes,
       OwnerTypes, WatcherInv, PendingInv
  <1>7. ASSUME NEW g \in Generation, Publish(g) PROVE WatcherInv'
    BY <1>7 DEF Publish, PublishedIfOwned, ReadyAccepted, ToStart, ToCleanup, ownership,
       Typed, TaskTypes, WatcherInv, NamedInv, CleanerInv, HasOwnedWork
  <1>8. ASSUME NEW g \in Generation, ExitBeforePublication(g) PROVE WatcherInv'
    BY <1>8 DEF ExitBeforePublication, ToCleanup, ToStart, ownership, WatcherInv
  <1>9. ASSUME NEW g \in Generation, ReportFailure(g) PROVE WatcherInv'
    BY <1>9 DEF ReportFailure, ToStart, ownership, WatcherInv
  <1>10. ASSUME NEW g \in Generation, Complete(g) PROVE WatcherInv'
    BY <1>10 DEF Complete, ToStart, CompleteStart, ownership, WatcherInv
  <1>11. ASSUME NEW g \in Generation, CleanupTerminates(g) PROVE WatcherInv'
    BY <1>11 DEF CleanupTerminates, Killed, StartFails, Retains, ownership, Typed,
       TaskTypes, WatcherInv, NamedInv, CleanerInv
  <1>12. ASSUME NEW g \in Generation, CleanupReleases(g) PROVE WatcherInv'
    <2>1. /\ cleaner[g] = "reap" /\ UNCHANGED <<watcher, pendingStart>>
          /\ startPc' = [startPc EXCEPT ![g] = IF @ = "cleanup" THEN "failed" ELSE @]
      BY <1>12 DEF CleanupReleases, Releases, Retains, ClearTree, StartFails, ownership
    <2>2. tree = g
      BY <2>1 DEF CleanerInv, Cleaning
    <2>3. \/ cleaner' = [cleaner EXCEPT ![g] = "done"] /\ tree' = 0
          \/ cleaner' = [cleaner EXCEPT ![g] = "retained"] /\ tree' = tree
      BY <1>12, <2>2 DEF CleanupReleases, Releases, Retains, ClearTree, ownership
    <2> QED
      BY <2>1, <2>2, <2>3 DEF WatcherInv
  <1>13. ASSUME NEW g \in Generation, CleanupTriesAgain(g) PROVE WatcherInv'
    BY <1>13 DEF CleanupTriesAgain, ownership, WatcherInv
  <1>14. ASSUME NEW g \in Generation, RootExits(g) PROVE WatcherInv'
    BY <1>14 DEF RootExits, Typed, TaskTypes, WatcherInv
  <1>15. ASSUME NEW g \in Generation, WatcherCleansUp(g) PROVE WatcherInv'
    BY <1>15 DEF WatcherCleansUp, Typed, TaskTypes, WatcherInv
  <1>16. CASE RetryReserves
    BY <1>16 DEF RetryReserves, ToStart, Typed, TaskTypes, WatcherInv, NamedInv,
       StoppedInv, FreshInv, Begun, HasOwnedWork
  <1>17. CASE ShutdownForces
    BY <1>17 DEF ShutdownForces, HasOwnedWork, taskVars, ownership, WatcherInv
  <1> QED
    BY <1>1, <1>2, <1>3, <1>4, <1>5, <1>6, <1>7, <1>8, <1>9, <1>10, <1>11, <1>12, <1>13,
       <1>14, <1>15, <1>16, <1>17 DEF Next, Running, Events, StartStep, CleanStep,
       StopStep, RetryStep, ShutdownStep

\* Every step keeps the gate with one stop.
LEMMA GateInvKept ==
    ASSUME Typed, GateInv, shutdownPc' # "exited", shutdownPc # "exited", Next
    PROVE  GateInv'
  <1> USE SupervisorAssumption DEF Generation, Callers
  <1>1. CASE \E g \in Generation : Exits(g) \/ Spawn(g) \/ Register(g) \/
             AwaitReadiness(g) \/ Publish(g) \/ ExitBeforePublication(g) \/
             ReportFailure(g) \/ Complete(g) \/ CleanupTerminates(g) \/
             CleanupReleases(g) \/ CleanupTriesAgain(g) \/ RootExits(g) \/
             ReportExit(g) \/ WatcherCleansUp(g)
    <2>1. UNCHANGED <<gate, stopPc, target, retryPc, shutdownPc>>
      BY <1>1 DEF Exits, stopVars, retryVars, endVars, Spawn, Register, AwaitReadiness,
         Publish, ExitBeforePublication, ReportFailure, Complete, CleanupTerminates,
         CleanupReleases, CleanupTriesAgain, RootExits, ReportExit, WatcherCleansUp
    <2> QED
      BY <2>1 DEF GateInv
  <1>2. CASE RetryIsSeen \/ WindowIsCreated
    <2>1. UNCHANGED <<gate, stopPc, target, retryPc, shutdownPc>>
      BY <1>2 DEF RetryIsSeen, stopVars, endVars, WindowIsCreated, retryVars
    <2> QED
      BY <2>1 DEF GateInv
  <1>3. ASSUME NEW c \in Callers, StopGate(c) PROVE GateInv'
    BY <1>3 DEF StopGate, ToStop, retryVars, endVars, Typed, GateInv, ControlTypes
  <1>4. ASSUME NEW c \in Callers, StopRequest(c) PROVE GateInv'
    BY <1>4 DEF StopRequest, ToStop, retryVars, endVars, Typed, GateInv, ControlTypes
  <1>5. ASSUME NEW c \in Callers, StopTerminates(c) PROVE GateInv'
    BY <1>5 DEF StopTerminates, Terminates, ToStop, retryVars, endVars, GateInv
  <1>6. ASSUME NEW c \in Callers, StopEnds(c) PROVE GateInv'
    BY <1>6 DEF StopEnds, ToStop, retryVars, endVars, Typed, GateInv, ControlTypes
  <1>7. ASSUME NEW c \in Callers, StopTimesOut(c) PROVE GateInv'
    BY <1>7 DEF StopTimesOut, ToStop, retryVars, endVars, Typed, GateInv, ControlTypes
  <1>8. CASE AskRetry
    BY <1>8 DEF AskRetry, stopVars, endVars, GateInv
  <1>9. CASE RetryIsSubmitted
    BY <1>9 DEF RetryIsSubmitted, stopVars, endVars, GateInv
  <1>10. CASE AppShutdown
    BY <1>10 DEF AppShutdown, stopVars, retryVars, GateInv
  <1>11. CASE DetachedStopEnds
    BY <1>11 DEF DetachedStopEnds, Terminates, retryVars, endVars, GateInv
  <1>12. CASE RetryStops
    BY <1>12 DEF RetryStops, ToStop, endVars, GateInv
  <1>13. CASE RetryBegins
    BY <1>13 DEF RetryBegins, ToStop, endVars, Typed, GateInv, ControlTypes
  <1>14. CASE RetryReserves
    BY <1>14 DEF RetryReserves, stopVars, endVars, GateInv
  <1>15. CASE RetryIsTaken
    BY <1>15 DEF RetryIsTaken, stopVars, endVars, GateInv
  <1>16. CASE GatewayStops
    BY <1>16 DEF GatewayStops, ToStop, retryVars, GateInv
  <1>17. CASE ShutdownStopped
    BY <1>17 DEF ShutdownStopped, ToStop, retryVars, Typed, GateInv, ControlTypes
  <1>18. CASE ShutdownTriesAgain
    BY <1>18 DEF ShutdownTriesAgain, ToStop, retryVars, GateInv
  <1>19. CASE ShutdownForces
    BY <1>19 DEF ShutdownForces, stopVars, retryVars, GateInv
  <1> QED
    BY <1>1, <1>2, <1>3, <1>4, <1>5, <1>6, <1>7, <1>8, <1>9, <1>10, <1>11, <1>12, <1>13,
       <1>14, <1>15, <1>16, <1>17, <1>18, <1>19 DEF Next, Running, Events, StartStep,
       CleanStep, StopStep, RetryStep, ShutdownStep

\* Every step keeps the retries ended.
LEMMA EndInvKept ==
    ASSUME Typed, EndInv, shutdownPc' # "exited", shutdownPc # "exited", Next
    PROVE  EndInv'
  <1> USE SupervisorAssumption DEF Generation, Callers
  <1>1. CASE \E g \in Generation : Exits(g) \/ Spawn(g) \/ Register(g) \/
             AwaitReadiness(g) \/ ExitBeforePublication(g) \/ Complete(g) \/
             CleanupTerminates(g) \/ CleanupReleases(g) \/ CleanupTriesAgain(g) \/
             RootExits(g) \/ WatcherCleansUp(g)
    <2>1. UNCHANGED <<shutdownPc, retriesStopped, phase>>
      BY <1>1 DEF Exits, gatewayVars, endVars, Spawn, Register, AwaitReadiness,
         ExitBeforePublication, Complete, CleanupTerminates, CleanupReleases,
         CleanupTriesAgain, RootExits, WatcherCleansUp
    <2> QED
      BY <2>1 DEF EndInv
  <1>2. CASE \E c \in Callers : StopGate(c) \/ StopRequest(c) \/ StopTerminates(c) \/
             StopEnds(c) \/ StopTimesOut(c)
    <2>1. UNCHANGED <<shutdownPc, retriesStopped, phase>>
      BY <1>2 DEF StopGate, gatewayVars, endVars, StopRequest, StopTerminates, StopEnds,
         StopTimesOut
    <2> QED
      BY <2>1 DEF EndInv
  <1>3. CASE AskRetry \/ RetryIsSeen \/ RetryIsSubmitted \/ DetachedStopEnds \/
             RetryStops \/ RetryReserves \/ RetryIsTaken \/ WindowIsCreated
    <2>1. UNCHANGED <<shutdownPc, retriesStopped, phase>>
      BY <1>3 DEF AskRetry, gatewayVars, endVars, RetryIsSeen, RetryIsSubmitted,
         DetachedStopEnds, RetryStops, RetryReserves, RetryIsTaken, WindowIsCreated
    <2> QED
      BY <2>1 DEF EndInv
  <1>4. ASSUME NEW g \in Generation, Publish(g) PROVE EndInv'
    BY <1>4 DEF Publish, PublishedIfOwned, ReadyAccepted, gatewayVars, endVars, EndInv
  <1>5. ASSUME NEW g \in Generation, ReportFailure(g) PROVE EndInv'
    BY <1>5 DEF ReportFailure, Fails, endVars, EndInv
  <1>6. ASSUME NEW g \in Generation, ReportExit(g) PROVE EndInv'
    BY <1>6 DEF ReportExit, Fails, endVars, EndInv
  <1>7. CASE AppShutdown
    BY <1>7 DEF AppShutdown, EndInv
  <1>8. CASE RetryBegins
    BY <1>8 DEF RetryBegins, MayBegin, gatewayVars, endVars, EndInv
  <1>9. CASE GatewayStops
    BY <1>9 DEF GatewayStops, ShutsDown, EndInv
  <1>10. CASE ShutdownStopped
    BY <1>10 DEF ShutdownStopped, gatewayVars, EndInv
  <1>11. CASE ShutdownTriesAgain
    BY <1>11 DEF ShutdownTriesAgain, gatewayVars, EndInv
  <1>12. CASE ShutdownForces
    BY <1>12 DEF ShutdownForces, gatewayVars, EndInv
  <1> QED
    BY <1>1, <1>2, <1>3, <1>4, <1>5, <1>6, <1>7, <1>8, <1>9, <1>10, <1>11, <1>12 DEF
       Next, Running, Events, StartStep, CleanStep, StopStep, RetryStep, ShutdownStep

\* Every step keeps a stop that has succeeded true.
LEMMA StoppedInvKept ==
    ASSUME Typed, StoppedInv, GateInv, PendingInv, NamedInv, FreshInv, EndInv,
              shutdownPc' # "exited", shutdownPc # "exited", Next
    PROVE  StoppedInv'
  <1> USE SupervisorAssumption DEF Generation, Callers
  <1>1. CASE \E g \in Generation : Exits(g) \/ Spawn(g) \/ AwaitReadiness(g) \/
             ExitBeforePublication(g) \/ CleanupTerminates(g) \/ CleanupTriesAgain(g)
             \/ RootExits(g) \/ WatcherCleansUp(g)
    <2>1. UNCHANGED <<stopPc, retryPc, gate, phase, pendingStart, pid, stoppingPid>>
      BY <1>1 DEF Exits, gatewayVars, ownership, stopVars, retryVars, Spawn,
         AwaitReadiness, ExitBeforePublication, CleanupTerminates, CleanupTriesAgain,
         RootExits, WatcherCleansUp
    <2> QED
      BY <2>1 DEF StoppedInv, HasOwnedWork
  <1>2. CASE RetryIsSeen \/ AppShutdown \/ WindowIsCreated
    <2>1. UNCHANGED <<stopPc, retryPc, gate, phase, pendingStart, pid, stoppingPid>>
      BY <1>2 DEF RetryIsSeen, gatewayVars, ownership, stopVars, AppShutdown, retryVars,
         WindowIsCreated
    <2> QED
      BY <2>1 DEF StoppedInv, HasOwnedWork
  <1>3. ASSUME NEW g \in Generation, Register(g) PROVE StoppedInv'
    BY <1>3 DEF Register, RegisterTree, gatewayVars, ownership, stopVars, retryVars,
       StoppedInv, HasOwnedWork
  <1>4. ASSUME NEW g \in Generation, Publish(g) PROVE StoppedInv'
    BY <1>4 DEF Publish, PublishedIfOwned, ReadyAccepted, gatewayVars, ownership,
       stopVars, retryVars, StoppedInv, HasOwnedWork
  <1>5. ASSUME NEW g \in Generation, ReportFailure(g) PROVE StoppedInv'
    BY <1>5 DEF ReportFailure, Fails, ownership, stopVars, retryVars, StoppedInv,
       HasOwnedWork
  <1>6. ASSUME NEW g \in Generation, Complete(g) PROVE StoppedInv'
    BY <1>6 DEF Complete, CompleteStart, gatewayVars, ownership, stopVars, retryVars,
       StoppedInv, HasOwnedWork
  <1>7. ASSUME NEW g \in Generation, CleanupReleases(g) PROVE StoppedInv'
    BY <1>7 DEF CleanupReleases, Releases, ClearTree, gatewayVars, ownership, stopVars,
       retryVars, StoppedInv, HasOwnedWork
  <1>8. ASSUME NEW g \in Generation, ReportExit(g) PROVE StoppedInv'
    BY <1>8 DEF ReportExit, Fails, ownership, stopVars, retryVars, StoppedInv,
       HasOwnedWork
  <1>9. ASSUME NEW c \in Callers, StopGate(c) PROVE StoppedInv'
    BY <1>9 DEF StopGate, ToStop, gatewayVars, ownership, retryVars, StoppedInv,
       GateInv, EndInv, HasOwnedWork
  <1>10. ASSUME NEW c \in Callers, StopRequest(c) PROVE StoppedInv'
    BY <1>10 DEF StopRequest, RequestTreeStop, ToStop, gatewayVars, retryVars,
       StoppedInv, HasOwnedWork
  <1>11. ASSUME NEW c \in Callers, StopTerminates(c) PROVE StoppedInv'
    BY <1>11 DEF StopTerminates, ToStop, gatewayVars, ownership, retryVars, StoppedInv,
       HasOwnedWork
  <1>12. ASSUME NEW c \in Callers, StopEnds(c) PROVE StoppedInv'
    BY <1>12 DEF StopEnds, Released, HasOwnedWork, ownership, StoppedInv
  <1>13. ASSUME NEW c \in Callers, StopTimesOut(c) PROVE StoppedInv'
    BY <1>13 DEF StopTimesOut, ToStop, gatewayVars, ownership, retryVars, StoppedInv,
       GateInv, HasOwnedWork
  <1>14. CASE AskRetry
    BY <1>14 DEF AskRetry, stopVars, StoppedInv, GateInv, EndInv
  <1>15. CASE RetryIsSubmitted
    BY <1>15 DEF RetryIsSubmitted, gatewayVars, ownership, stopVars, StoppedInv,
       HasOwnedWork
  <1>16. CASE DetachedStopEnds
    BY <1>16 DEF DetachedStopEnds, ownership, retryVars, StoppedInv, HasOwnedWork
  <1>17. CASE RetryStops
    BY <1>17 DEF RetryStops, ToStop, gatewayVars, ownership, StoppedInv, HasOwnedWork
  <1>18. CASE RetryBegins
    BY <1>18 DEF RetryBegins, ToStop, MayBegin, gatewayVars, ownership, StoppedInv,
       HasOwnedWork
  <1>19. CASE RetryReserves
    BY <1>19 DEF RetryReserves, RetryAllowed, ownership, stopVars, StoppedInv, GateInv,
       EndInv, HasOwnedWork
  <1>20. CASE RetryIsTaken
    BY <1>20 DEF RetryIsTaken, gatewayVars, ownership, stopVars, StoppedInv,
       HasOwnedWork
  <1>21. CASE GatewayStops
    BY <1>21 DEF GatewayStops, ShutsDown, ToStop, ownership, retryVars, StoppedInv,
       HasOwnedWork
  <1>22. CASE ShutdownStopped
    BY <1>22 DEF ShutdownStopped, ToStop, gatewayVars, ownership, retryVars, StoppedInv,
       HasOwnedWork
  <1>23. CASE ShutdownTriesAgain
    BY <1>23 DEF ShutdownTriesAgain, ToStop, gatewayVars, ownership, retryVars,
       StoppedInv, HasOwnedWork
  <1>24. CASE ShutdownForces
    BY <1>24 DEF ShutdownForces, HasOwnedWork, ownership, stopVars, retryVars,
       StoppedInv
  <1> QED
    BY <1>1, <1>2, <1>3, <1>4, <1>5, <1>6, <1>7, <1>8, <1>9, <1>10, <1>11, <1>12, <1>13,
       <1>14, <1>15, <1>16, <1>17, <1>18, <1>19, <1>20, <1>21, <1>22, <1>23, <1>24 DEF
       Next, Running, Events, StartStep, CleanStep, StopStep, RetryStep, ShutdownStep

\* Every step keeps the retries behind their generation.
LEMMA AskInvKept ==
    ASSUME Typed, AskInv, FreshInv, EndInv, shutdownPc' # "exited", shutdownPc #
              "exited", Next
    PROVE  AskInv'
  <1> USE SupervisorAssumption DEF Generation, Callers
  <1>1. CASE \E g \in Generation : Exits(g) \/ Spawn(g) \/ Register(g) \/
             AwaitReadiness(g) \/ ExitBeforePublication(g) \/ Complete(g) \/
             CleanupTerminates(g) \/ CleanupReleases(g) \/ CleanupTriesAgain(g) \/
             RootExits(g) \/ WatcherCleansUp(g)
    <2>1. UNCHANGED <<seen, generation, phase, retryPc, retryGeneration, overtaken>>
      BY <1>1 DEF Exits, gatewayVars, askVars, retryVars, Spawn, Register,
         AwaitReadiness, ExitBeforePublication, Complete, CleanupTerminates,
         CleanupReleases, CleanupTriesAgain, RootExits, WatcherCleansUp
    <2> QED
      BY <2>1 DEF AskInv
  <1>2. CASE \E c \in Callers : StopGate(c) \/ StopRequest(c) \/ StopTerminates(c) \/
             StopEnds(c) \/ StopTimesOut(c)
    <2>1. UNCHANGED <<seen, generation, phase, retryPc, retryGeneration, overtaken>>
      BY <1>2 DEF StopGate, gatewayVars, askVars, retryVars, StopRequest,
         StopTerminates, StopEnds, StopTimesOut
    <2> QED
      BY <2>1 DEF AskInv
  <1>3. CASE AppShutdown \/ DetachedStopEnds \/ ShutdownStopped \/ ShutdownTriesAgain
             \/ ShutdownForces \/ WindowIsCreated
    <2>1. UNCHANGED <<seen, generation, phase, retryPc, retryGeneration, overtaken>>
      BY <1>3 DEF AppShutdown, gatewayVars, askVars, retryVars, DetachedStopEnds,
         ShutdownStopped, ShutdownTriesAgain, ShutdownForces, WindowIsCreated
    <2> QED
      BY <2>1 DEF AskInv
  <1>4. ASSUME NEW g \in Generation, Publish(g) PROVE AskInv'
    BY <1>4 DEF Publish, PublishedIfOwned, ReadyAccepted, Readies, gatewayVars, askVars,
       retryVars, AskInv
  <1>5. ASSUME NEW g \in Generation, ReportFailure(g) PROVE AskInv'
    BY <1>5 DEF ReportFailure, Fails, askVars, retryVars, AskInv
  <1>6. ASSUME NEW g \in Generation, ReportExit(g) PROVE AskInv'
    BY <1>6 DEF ReportExit, Fails, askVars, retryVars, AskInv
  <1>7. CASE AskRetry
    BY <1>7 DEF AskRetry, gatewayVars, askVars, AskInv
  <1>8. CASE RetryIsSeen
    BY <1>8 DEF RetryIsSeen, gatewayVars, AskInv, FreshInv
  <1>9. CASE RetryIsSubmitted
    BY <1>9 DEF RetryIsSubmitted, gatewayVars, AskInv, FreshInv
  <1>10. CASE RetryStops
    BY <1>10 DEF RetryStops, ToStop, gatewayVars, taskVars, ownership, endVars, Typed,
       TaskTypes, OwnerTypes, AskInv, FreshInv, EndInv, ControlTypes
  <1>11. CASE RetryBegins
    BY <1>11 DEF RetryBegins, Begins, gatewayVars, askVars, Typed, AskInv, ControlTypes
  <1>12. CASE RetryReserves
    BY <1>12 DEF RetryReserves, gatewayVars, askVars, AskInv
  <1>13. CASE RetryIsTaken
    BY <1>13 DEF RetryIsTaken, gatewayVars, askVars, AskInv
  <1>14. CASE GatewayStops
    BY <1>14 DEF GatewayStops, ShutsDown, askVars, retryVars, AskInv
  <1> QED
    BY <1>1, <1>2, <1>3, <1>4, <1>5, <1>6, <1>7, <1>8, <1>9, <1>10, <1>11, <1>12, <1>13,
       <1>14 DEF Next, Running, Events, StartStep, CleanStep, StopStep, RetryStep,
       ShutdownStep

\* Every step leaves alone what starts or is ready.
LEMMA CalmInvKept ==
    ASSUME Typed, CalmInv, AskInv, GateInv, StoppedInv, FreshInv, NamedInv, PendingInv,
              EndInv, shutdownPc' # "exited", shutdownPc # "exited", Next
    PROVE  CalmInv'
  <1> USE SupervisorAssumption DEF Generation, Callers
  <1>1. CASE \E g \in Generation : Exits(g) \/ RootExits(g)
    <2>1. UNCHANGED <<phase, overtaken, gate, signalled, generation, startPc, stopping>>
      BY <1>1 DEF Exits, gatewayVars, taskVars, ownership, stopVars, askVars, retryVars,
         RootExits
    <2> QED
      BY <2>1 DEF CalmInv, Begun
  <1>2. CASE AskRetry \/ RetryIsSeen \/ RetryIsSubmitted \/ AppShutdown \/ RetryIsTaken
             \/ ShutdownStopped \/ ShutdownTriesAgain \/ WindowIsCreated
    <2>1. UNCHANGED <<phase, overtaken, gate, signalled, generation, startPc, stopping>>
      BY <1>2 DEF AskRetry, gatewayVars, taskVars, ownership, stopVars, askVars,
         RetryIsSeen, RetryIsSubmitted, AppShutdown, retryVars, RetryIsTaken,
         ShutdownStopped, ShutdownTriesAgain, WindowIsCreated
    <2> QED
      BY <2>1 DEF CalmInv, Begun
  <1>3. ASSUME NEW g \in Generation, Spawn(g) PROVE CalmInv'
    BY <1>3 DEF Spawn, ToStart, gatewayVars, ownership, stopVars, askVars, retryVars,
       Typed, TaskTypes, CalmInv, FreshInv, Begun
  <1>4. ASSUME NEW g \in Generation, Register(g) PROVE CalmInv'
    BY <1>4 DEF Register, RegisterTree, ToStart, ToCleanup, gatewayVars, ownership,
       stopVars, askVars, retryVars, Typed, TaskTypes, CalmInv, FreshInv, Begun
  <1>5. ASSUME NEW g \in Generation, AwaitReadiness(g) PROVE CalmInv'
    BY <1>5 DEF AwaitReadiness, ToCleanup, ToStart, gatewayVars, ownership, stopVars,
       askVars, retryVars, Typed, TaskTypes, CalmInv, FreshInv, Begun
  <1>6. ASSUME NEW g \in Generation, Publish(g) PROVE CalmInv'
    BY <1>6 DEF Publish, PublishedIfOwned, ReadyAccepted, Readies, ToStart, ToCleanup,
       gatewayVars, ownership, stopVars, askVars, retryVars, Typed, TaskTypes, CalmInv,
       FreshInv, Begun
  <1>7. ASSUME NEW g \in Generation, ExitBeforePublication(g) PROVE CalmInv'
    BY <1>7 DEF ExitBeforePublication, ToCleanup, ToStart, gatewayVars, ownership,
       stopVars, askVars, retryVars, CalmInv, Begun
  <1>8. ASSUME NEW g \in Generation, ReportFailure(g) PROVE CalmInv'
    BY <1>8 DEF ReportFailure, Fails, ToStart, ownership, stopVars, askVars, retryVars,
       CalmInv, Begun
  <1>9. ASSUME NEW g \in Generation, Complete(g) PROVE CalmInv'
    BY <1>9 DEF Complete, ToStart, CompleteStart, gatewayVars, ownership, stopVars,
       askVars, retryVars, Typed, CalmInv, Begun, ControlTypes
  <1>10. ASSUME NEW g \in Generation, CleanupTerminates(g) PROVE CalmInv'
    BY <1>10 DEF CleanupTerminates, StartFails, Retains, gatewayVars, ownership,
       stopVars, askVars, retryVars, Typed, TaskTypes, CalmInv, FreshInv, Begun
  <1>11. ASSUME NEW g \in Generation, CleanupReleases(g) PROVE CalmInv'
    BY <1>11 DEF CleanupReleases, Releases, Retains, ClearTree, StartFails, gatewayVars,
       ownership, stopVars, askVars, retryVars, Typed, TaskTypes, CalmInv, FreshInv,
       Begun
  <1>12. ASSUME NEW g \in Generation, CleanupTriesAgain(g) PROVE CalmInv'
    BY <1>12 DEF CleanupTriesAgain, gatewayVars, ownership, stopVars, askVars,
       retryVars, CalmInv, Begun
  <1>13. ASSUME NEW g \in Generation, ReportExit(g) PROVE CalmInv'
    BY <1>13 DEF ReportExit, Fails, ownership, stopVars, askVars, retryVars, CalmInv,
       Begun
  <1>14. ASSUME NEW g \in Generation, WatcherCleansUp(g) PROVE CalmInv'
    BY <1>14 DEF WatcherCleansUp, gatewayVars, ownership, stopVars, askVars, retryVars,
       CalmInv, Begun
  <1>15. ASSUME NEW c \in Callers, StopGate(c) PROVE CalmInv'
    BY <1>15 DEF StopGate, gatewayVars, askVars, retryVars, CalmInv, AskInv, GateInv,
       EndInv
  <1>16. ASSUME NEW c \in Callers, StopRequest(c) PROVE CalmInv'
    BY <1>16 DEF StopRequest, gatewayVars, askVars, retryVars, CalmInv, GateInv
  <1>17. ASSUME NEW c \in Callers, StopTerminates(c) PROVE CalmInv'
    BY <1>17 DEF StopTerminates, gatewayVars, askVars, retryVars, CalmInv, GateInv
  <1>18. ASSUME NEW c \in Callers, StopEnds(c) PROVE CalmInv'
    BY <1>18 DEF StopEnds, HasOwnedWork, gatewayVars, askVars, retryVars, CalmInv,
       GateInv
  <1>19. ASSUME NEW c \in Callers, StopTimesOut(c) PROVE CalmInv'
    BY <1>19 DEF StopTimesOut, gatewayVars, askVars, retryVars, CalmInv, AskInv,
       GateInv, EndInv
  <1>20. CASE DetachedStopEnds
    BY <1>20 DEF DetachedStopEnds, gatewayVars, askVars, retryVars, CalmInv
  <1>21. CASE RetryStops
    BY <1>21 DEF RetryStops, gatewayVars, taskVars, ownership, Typed, CalmInv, Begun,
       ControlTypes
  <1>22. CASE RetryBegins
    BY <1>22 DEF RetryBegins, MayBegin, Begins, gatewayVars, taskVars, ownership,
       askVars, CalmInv, StoppedInv, FreshInv, Begun
  <1>23. CASE RetryReserves
    BY <1>23 DEF RetryReserves, ReserveStart, gatewayVars, ownership, stopVars, askVars,
       CalmInv, Begun
  <1>24. CASE GatewayStops
    BY <1>24 DEF GatewayStops, ShutsDown, CalmInv
  <1>25. CASE ShutdownForces
    BY <1>25 DEF ShutdownForces, HasOwnedWork, gatewayVars, CalmInv, EndInv
  <1> QED
    BY <1>1, <1>2, <1>3, <1>4, <1>5, <1>6, <1>7, <1>8, <1>9, <1>10, <1>11, <1>12, <1>13,
       <1>14, <1>15, <1>16, <1>17, <1>18, <1>19, <1>20, <1>21, <1>22, <1>23, <1>24,
       <1>25 DEF Next, Running, Events, StartStep, CleanStep, StopStep, RetryStep,
       ShutdownStep

\* Every step keeps the ready generation published.
LEMMA PublishedInvKept ==
    ASSUME Typed, PublishedInv, CalmInv, FreshInv, CleanerInv, WatcherInv, shutdownPc' #
              "exited", shutdownPc # "exited", Next
    PROVE  PublishedInv'
  <1> USE SupervisorAssumption DEF Generation, Callers
  <1>1. CASE \E g \in Generation : Exits(g) \/ RootExits(g)
    <2>1. UNCHANGED <<phase, startPc, generation, cleaner, overtaken>>
      BY <1>1 DEF Exits, gatewayVars, taskVars, askVars, retryVars, RootExits
    <2> QED
      BY <2>1 DEF PublishedInv
  <1>2. CASE \E c \in Callers : StopGate(c) \/ StopRequest(c) \/ StopTerminates(c) \/
             StopEnds(c) \/ StopTimesOut(c)
    <2>1. UNCHANGED <<phase, startPc, generation, cleaner, overtaken>>
      BY <1>2 DEF StopGate, gatewayVars, taskVars, askVars, retryVars, StopRequest,
         StopTerminates, StopEnds, StopTimesOut
    <2> QED
      BY <2>1 DEF PublishedInv
  <1>3. CASE AskRetry \/ RetryIsSeen \/ RetryIsSubmitted \/ AppShutdown \/
             DetachedStopEnds \/ RetryIsTaken \/ ShutdownStopped \/ ShutdownTriesAgain
             \/ ShutdownForces \/ WindowIsCreated
    <2>1. UNCHANGED <<phase, startPc, generation, cleaner, overtaken>>
      BY <1>3 DEF AskRetry, gatewayVars, taskVars, askVars, RetryIsSeen,
         RetryIsSubmitted, AppShutdown, retryVars, DetachedStopEnds, RetryIsTaken,
         ShutdownStopped, ShutdownTriesAgain, ShutdownForces, WindowIsCreated
    <2> QED
      BY <2>1 DEF PublishedInv
  <1>4. ASSUME NEW g \in Generation, Spawn(g) PROVE PublishedInv'
    BY <1>4 DEF Spawn, ToStart, gatewayVars, askVars, retryVars, Typed, TaskTypes,
       PublishedInv, FreshInv
  <1>5. ASSUME NEW g \in Generation, Register(g) PROVE PublishedInv'
    BY <1>5 DEF Register, ToStart, ToCleanup, gatewayVars, askVars, retryVars, Typed,
       TaskTypes, PublishedInv, FreshInv
  <1>6. ASSUME NEW g \in Generation, AwaitReadiness(g) PROVE PublishedInv'
    BY <1>6 DEF AwaitReadiness, ToCleanup, ToStart, gatewayVars, askVars, retryVars,
       Typed, TaskTypes, PublishedInv, FreshInv
  <1>7. ASSUME NEW g \in Generation, Publish(g) PROVE PublishedInv'
    BY <1>7 DEF Publish, PublishedIfOwned, ReadyAccepted, Readies, ToStart, ToCleanup,
       gatewayVars, askVars, retryVars, Typed, TaskTypes, PublishedInv, FreshInv,
       CleanerInv
  <1>8. ASSUME NEW g \in Generation, ExitBeforePublication(g) PROVE PublishedInv'
    BY <1>8 DEF ExitBeforePublication, ToCleanup, ToStart, gatewayVars, askVars,
       retryVars, PublishedInv
  <1>9. ASSUME NEW g \in Generation, ReportFailure(g) PROVE PublishedInv'
    BY <1>9 DEF ReportFailure, Fails, ToStart, askVars, retryVars, PublishedInv
  <1>10. ASSUME NEW g \in Generation, Complete(g) PROVE PublishedInv'
    BY <1>10 DEF Complete, ToStart, gatewayVars, askVars, retryVars, PublishedInv
  <1>11. ASSUME NEW g \in Generation, CleanupTerminates(g) PROVE PublishedInv'
    BY <1>11 DEF CleanupTerminates, StartFails, Retains, gatewayVars, askVars,
       retryVars, Typed, TaskTypes, PublishedInv, FreshInv
  <1>12. ASSUME NEW g \in Generation, CleanupReleases(g) PROVE PublishedInv'
    BY <1>12 DEF CleanupReleases, Releases, Retains, StartFails, gatewayVars, askVars,
       retryVars, Typed, TaskTypes, PublishedInv, FreshInv
  <1>13. ASSUME NEW g \in Generation, CleanupTriesAgain(g) PROVE PublishedInv'
    BY <1>13 DEF CleanupTriesAgain, gatewayVars, askVars, retryVars, PublishedInv
  <1>14. ASSUME NEW g \in Generation, ReportExit(g) PROVE PublishedInv'
    BY <1>14 DEF ReportExit, Fails, askVars, retryVars, PublishedInv
  <1>15. ASSUME NEW g \in Generation, WatcherCleansUp(g) PROVE PublishedInv'
    BY <1>15 DEF WatcherCleansUp, gatewayVars, askVars, retryVars, PublishedInv, CalmInv
  <1>16. CASE RetryStops
    BY <1>16 DEF RetryStops, gatewayVars, taskVars, Typed, PublishedInv, ControlTypes
  <1>17. CASE RetryBegins
    BY <1>17 DEF RetryBegins, Begins, gatewayVars, taskVars, askVars, PublishedInv
  <1>18. CASE RetryReserves
    BY <1>18 DEF RetryReserves, gatewayVars, PublishedInv, FreshInv, Begun
  <1>19. CASE GatewayStops
    BY <1>19 DEF GatewayStops, ShutsDown, PublishedInv
  <1> QED
    BY <1>1, <1>2, <1>3, <1>4, <1>5, <1>6, <1>7, <1>8, <1>9, <1>10, <1>11, <1>12, <1>13,
       <1>14, <1>15, <1>16, <1>17, <1>18, <1>19 DEF Next, Running, Events, StartStep,
       CleanStep, StopStep, RetryStep, ShutdownStep

\* Every step keeps the ready backend watched.
LEMMA ReadyIsWatchedKept ==
    ASSUME Typed, ReadyIsWatched, CalmInv, FreshInv, CleanerInv, WatcherInv,
              PublishedInv, NamedInv, GateInv, AskInv, PendingInv, shutdownPc' #
              "exited", shutdownPc # "exited", Next
    PROVE  ReadyIsWatched'
  <1> USE SupervisorAssumption DEF Generation, Callers
  <1>1. CASE \E g \in Generation : Exits(g) \/ Spawn(g) \/ AwaitReadiness(g) \/
             ExitBeforePublication(g) \/ CleanupTerminates(g) \/ CleanupTriesAgain(g)
    <2>1. UNCHANGED <<phase, overtaken, tree, generation, stopping, watcher, reporting,
                      backendPort, rootExited>>
      BY <1>1 DEF Exits, gatewayVars, taskVars, ownership, askVars, retryVars, Spawn,
         AwaitReadiness, ExitBeforePublication, CleanupTerminates, CleanupTriesAgain
    <2> QED
      BY <2>1 DEF ReadyIsWatched
  <1>2. CASE \E c \in Callers : StopGate(c) \/ StopTerminates(c) \/ StopEnds(c) \/
             StopTimesOut(c)
    <2>1. UNCHANGED <<phase, overtaken, tree, generation, stopping, watcher, reporting,
                      backendPort, rootExited>>
      BY <1>2 DEF StopGate, gatewayVars, taskVars, ownership, askVars, retryVars,
         StopTerminates, StopEnds, StopTimesOut
    <2> QED
      BY <2>1 DEF ReadyIsWatched
  <1>3. CASE AskRetry \/ RetryIsSeen \/ RetryIsSubmitted \/ AppShutdown \/
             DetachedStopEnds \/ RetryIsTaken \/ ShutdownStopped \/ ShutdownTriesAgain
             \/ WindowIsCreated
    <2>1. UNCHANGED <<phase, overtaken, tree, generation, stopping, watcher, reporting,
                      backendPort, rootExited>>
      BY <1>3 DEF AskRetry, gatewayVars, taskVars, ownership, askVars, RetryIsSeen,
         RetryIsSubmitted, AppShutdown, retryVars, DetachedStopEnds, RetryIsTaken,
         ShutdownStopped, ShutdownTriesAgain, WindowIsCreated
    <2> QED
      BY <2>1 DEF ReadyIsWatched
  <1>4. ASSUME NEW g \in Generation, Register(g) PROVE ReadyIsWatched'
    BY <1>4 DEF Register, RegisterTree, gatewayVars, ownership, askVars, retryVars,
       ReadyIsWatched, PublishedInv, NamedInv
  <1>5. ASSUME NEW g \in Generation, Publish(g) PROVE ReadyIsWatched'
    BY <1>5 DEF Publish, PublishedIfOwned, ReadyAccepted, OwnsActive, Readies,
       gatewayVars, ownership, askVars, retryVars, Typed, TaskTypes, ReadyIsWatched,
       CleanerInv
  <1>6. ASSUME NEW g \in Generation, ReportFailure(g) PROVE ReadyIsWatched'
    BY <1>6 DEF ReportFailure, Fails, ownership, askVars, retryVars, ReadyIsWatched
  <1>7. ASSUME NEW g \in Generation, Complete(g) PROVE ReadyIsWatched'
    BY <1>7 DEF Complete, CompleteStart, gatewayVars, ownership, askVars, retryVars,
       ReadyIsWatched, FreshInv, PendingInv
  <1>8. ASSUME NEW g \in Generation, CleanupReleases(g) PROVE ReadyIsWatched'
    BY <1>8 DEF CleanupReleases, Releases, ClearTree, gatewayVars, ownership, askVars,
       retryVars, ReadyIsWatched, PublishedInv
  <1>9. ASSUME NEW g \in Generation, RootExits(g) PROVE ReadyIsWatched'
    BY <1>9 DEF RootExits, Reported, gatewayVars, askVars, retryVars, Typed, TaskTypes,
       ReadyIsWatched, FreshInv
  <1>10. ASSUME NEW g \in Generation, ReportExit(g) PROVE ReadyIsWatched'
    BY <1>10 DEF ReportExit, Fails, ownership, askVars, retryVars, ReadyIsWatched
  <1>11. ASSUME NEW g \in Generation, WatcherCleansUp(g) PROVE ReadyIsWatched'
    BY <1>11 DEF WatcherCleansUp, gatewayVars, ownership, askVars, retryVars,
       ReadyIsWatched
  <1>12. ASSUME NEW c \in Callers, StopRequest(c) PROVE ReadyIsWatched'
    BY <1>12 DEF StopRequest, gatewayVars, askVars, retryVars, ReadyIsWatched, CalmInv,
       GateInv
  <1>13. CASE RetryStops
    BY <1>13 DEF RetryStops, gatewayVars, taskVars, ownership, Typed, ReadyIsWatched,
       ControlTypes
  <1>14. CASE RetryBegins
    BY <1>14 DEF RetryBegins, Begins, gatewayVars, taskVars, ownership, askVars,
       ReadyIsWatched
  <1>15. CASE RetryReserves
    BY <1>15 DEF RetryReserves, gatewayVars, ReadyIsWatched, FreshInv, PublishedInv,
       Begun
  <1>16. CASE GatewayStops
    BY <1>16 DEF GatewayStops, ShutsDown, ReadyIsWatched
  <1>17. CASE ShutdownForces
    BY <1>17 DEF ShutdownForces, HasOwnedWork, gatewayVars, taskVars, ownership,
       askVars, retryVars, ReadyIsWatched
  <1> QED
    BY <1>1, <1>2, <1>3, <1>4, <1>5, <1>6, <1>7, <1>8, <1>9, <1>10, <1>11, <1>12, <1>13,
       <1>14, <1>15, <1>16, <1>17 DEF Next, Running, Events, StartStep, CleanStep,
       StopStep, RetryStep, ShutdownStep

-----------------------------------------------------------------------------
(* The exit                                                                *)

\* What holds in every state in which the application runs.
Safe ==
    /\ OwnedInv /\ PendingInv /\ NamedInv /\ FreshInv /\ CleanerInv /\ WatcherInv
    /\ GateInv /\ EndInv /\ StoppedInv /\ AskInv /\ CalmInv /\ PublishedInv
    /\ ReadyIsWatched

\* After the exit nothing is pending, and the one tree that was not reaped is dead.
Ended ==
    /\ pendingStart = 0 /\ phase = "stopping"
    /\ \A g \in Generation : Live(g) =>
            proc[g] = "killed" /\ \A h \in Generation \ {g} : ~Live(h)

SupervisorInv ==
    /\ Typed
    /\ shutdownPc # "exited" => Safe
    /\ shutdownPc = "exited" => Ended

\* The exit leaves no tree alive.
LEMMA ExitEnds ==
    ASSUME Typed, OwnedInv, PendingInv, NamedInv, EndInv, StoppedInv, shutdownPc' =
              "exited", shutdownPc # "exited", Next
    PROVE  Ended'
  <1> USE SupervisorAssumption DEF Generation, Callers
  <1>1. CASE \E g \in Generation : Exits(g) \/ Spawn(g) \/ Register(g) \/
             AwaitReadiness(g) \/ Publish(g) \/ ExitBeforePublication(g) \/
             ReportFailure(g) \/ Complete(g) \/ CleanupTerminates(g) \/
             CleanupReleases(g) \/ CleanupTriesAgain(g) \/ RootExits(g) \/
             ReportExit(g) \/ WatcherCleansUp(g)
    <2>1. UNCHANGED <<shutdownPc>>
      BY <1>1 DEF Exits, endVars, Spawn, Register, AwaitReadiness, Publish,
         ExitBeforePublication, ReportFailure, Complete, CleanupTerminates,
         CleanupReleases, CleanupTriesAgain, RootExits, ReportExit, WatcherCleansUp
    <2> QED
      BY <2>1
  <1>2. CASE \E c \in Callers : StopGate(c) \/ StopRequest(c) \/ StopTerminates(c) \/
             StopEnds(c) \/ StopTimesOut(c)
    <2>1. UNCHANGED <<shutdownPc>>
      BY <1>2 DEF StopGate, endVars, StopRequest, StopTerminates, StopEnds, StopTimesOut
    <2> QED
      BY <2>1
  <1>3. CASE AskRetry \/ RetryIsSeen \/ RetryIsSubmitted \/ DetachedStopEnds \/
             RetryStops \/ RetryBegins \/ RetryReserves \/ RetryIsTaken \/
             WindowIsCreated
    <2>1. UNCHANGED <<shutdownPc>>
      BY <1>3 DEF AskRetry, endVars, RetryIsSeen, RetryIsSubmitted, DetachedStopEnds,
         RetryStops, RetryBegins, RetryReserves, RetryIsTaken, WindowIsCreated
    <2> QED
      BY <2>1
  <1>4. CASE AppShutdown
    BY <1>4 DEF AppShutdown
  <1>5. CASE GatewayStops
    BY <1>5 DEF GatewayStops
  <1>6. CASE ShutdownStopped
    <2>1. /\ stopPc["shutdown"] = "ok" /\ phase = "stopping"
          /\ UNCHANGED <<proc, ownership, phase>>
      BY <1>6 DEF ShutdownStopped, gatewayVars, EndInv
    <2>2. pendingStart = 0 /\ tree = 0
      BY <2>1 DEF StoppedInv, HasOwnedWork, NamedInv
    <2>3. \A h \in Generation : ~Live(h)
      BY <2>2 DEF OwnedInv, PendingInv
    <2> QED
      BY <2>1, <2>2, <2>3 DEF Ended, Live, ownership
  <1>7. CASE ShutdownTriesAgain
    BY <1>7 DEF ShutdownTriesAgain
  <1>8. CASE ShutdownForces
    <2>1. phase' = "stopping"
      BY <1>8 DEF ShutdownForces, gatewayVars, EndInv
    <2>2. CASE ~HasOwnedWork /\ UNCHANGED <<proc, ownership>>
      <3>1. pendingStart = 0 /\ tree = 0
        BY <2>2 DEF HasOwnedWork, NamedInv
      <3>2. \A h \in Generation : ~Live(h)
        BY <3>1 DEF OwnedInv, PendingInv
      <3> QED
        BY <2>1, <2>2, <3>1, <3>2 DEF Ended, Live, ownership
    <2>3. CASE tree # 0 /\ Killed(tree) /\ ClearTree(tree)
      <3>1. pendingStart = 0 /\ pendingStart' = 0
        BY <2>3 DEF PendingInv, ClearTree
      <3>2. \A h \in Generation \ {tree} : ~Live(h)
        BY <2>3, <3>1 DEF OwnedInv, PendingInv
      <3>3. /\ \A h \in Generation \ {tree} : proc'[h] = proc[h]
            /\ tree \in Generation => proc'[tree] \notin {"running", "exited"}
        BY <2>3 DEF Killed, Typed, TaskTypes
      <3> QED
        BY <2>1, <3>1, <3>2, <3>3 DEF Ended, Live
    <2> QED
      BY <1>8, <2>2, <2>3 DEF ShutdownForces
  <1> QED
    BY <1>1, <1>2, <1>3, <1>4, <1>5, <1>6, <1>7, <1>8 DEF Next, Running, Events,
       StartStep, CleanStep, StopStep, RetryStep, ShutdownStep

-----------------------------------------------------------------------------
(* The theorems                                                            *)

LEMMA InitIsSafe == Init => SupervisorInv
  <1> SUFFICES ASSUME Init PROVE SupervisorInv
    OBVIOUS
  <1> USE SupervisorAssumption DEF Init, Generation, Callers
  <1>1. TaskTypes /\ OwnerTypes
    BY DEF TaskTypes, OwnerTypes
  <1>2. FlagTypes
    BY DEF FlagTypes
  <1>3. ControlTypes
    <2>1. /\ windowCreated \in BOOLEAN /\ retriesStopped \in BOOLEAN /\ overtaken \in BOOLEAN
          /\ stopPc \in [Callers -> {"none", "gate", "request", "terminate",
                                     "await", "ok", "error"}]
      BY Zenon
    <2>2. /\ generation \in 0..MaxGeneration /\ retryGeneration \in 0..MaxGeneration
          /\ seen \in 0..MaxGeneration /\ target \in 0..MaxGeneration
          /\ attempts \in 0..ForceAfter /\ failures \in 0..MaxFailures
      OBVIOUS
    <2> QED
      BY <2>1, <2>2, Zenon DEF ControlTypes, Phases
  <1>4. OwnedInv /\ PendingInv /\ NamedInv /\ FreshInv
    BY DEF OwnedInv, PendingInv, NamedInv, FreshInv, Live, Begun
  <1>5. CleanerInv /\ WatcherInv /\ GateInv /\ EndInv
    BY DEF CleanerInv, WatcherInv, GateInv, EndInv, Cleaning
  <1>6. StoppedInv /\ AskInv /\ PublishedInv /\ ReadyIsWatched
    BY DEF StoppedInv, AskInv, PublishedInv, ReadyIsWatched
  <1>7. CalmInv
    BY DEF CalmInv
  <1> QED
    BY <1>1, <1>2, <1>3, <1>4, <1>5, <1>6, <1>7 DEF SupervisorInv, Safe, Typed

\* A step of the program keeps the invariant; after the exit there is none.
LEMMA StepKeepsSafe == SupervisorInv /\ [Next]_vars => SupervisorInv'
  <1> SUFFICES ASSUME SupervisorInv, [Next]_vars PROVE SupervisorInv'
    OBVIOUS
  <1>1. CASE Next
    <2>1. shutdownPc # "exited" /\ Typed /\ Safe
      BY <1>1 DEF Next, Running, SupervisorInv
    <2>2. Typed'
      BY <1>1, <2>1, TaskTypesKept, OwnerTypesKept, FlagTypesKept, ControlTypesKept DEF
         Typed
    <2>3. CASE shutdownPc' # "exited"
      <3>1. OwnedInv' /\ PendingInv' /\ NamedInv' /\ FreshInv' /\ CleanerInv' /\ WatcherInv'
        BY <1>1, <2>1, <2>3, OwnedInvKept, PendingInvKept, NamedInvKept, FreshInvKept,
           CleanerInvKept, WatcherInvKept DEF Safe
      <3>2. GateInv' /\ EndInv' /\ StoppedInv' /\ AskInv'
        BY <1>1, <2>1, <2>3, GateInvKept, EndInvKept, StoppedInvKept, AskInvKept DEF
           Safe
      <3>3. CalmInv' /\ PublishedInv' /\ ReadyIsWatched'
        BY <1>1, <2>1, <2>3, CalmInvKept, PublishedInvKept, ReadyIsWatchedKept DEF Safe
      <3> QED
        BY <2>2, <2>3, <3>1, <3>2, <3>3 DEF SupervisorInv, Safe
    <2>4. CASE shutdownPc' = "exited"
      BY <1>1, <2>1, <2>2, <2>4, ExitEnds DEF SupervisorInv, Safe
    <2> QED
      BY <2>3, <2>4
  <1>2. CASE UNCHANGED vars
    <2>1. UNCHANGED <<generation, phase, proc, startPc, cleaner, watcher, reporting,
             signalled, pendingStart, pid, stoppingPid, tree, rootExited, stopping,
             backendPort, stopFallback, windowCreated, gate, stopPc, target, retryPc,
             retryGeneration, retriesStopped, seen, overtaken, shutdownPc, attempts, failures>>
      BY <1>2 DEF vars, gatewayVars, taskVars, ownership, stopVars, retryVars, askVars,
         endVars
    <2>2. Typed'
      BY <2>1 DEF SupervisorInv, Typed, TaskTypes, OwnerTypes, FlagTypes, ControlTypes
    <2>3. Safe => Safe'
      <3>1. /\ HasOwnedWork' = HasOwnedWork
            /\ \A g \in Generation : (Begun(g)' <=> Begun(g)) /\ (Live(g)' <=> Live(g))
        BY <2>1 DEF HasOwnedWork, Begun, Live
      <3> QED
        BY <2>1 DEF Safe, OwnedInv, PendingInv, NamedInv, FreshInv, CleanerInv,
           WatcherInv, GateInv, EndInv, StoppedInv, AskInv, CalmInv, PublishedInv,
           ReadyIsWatched, Begun, Live, HasOwnedWork
    <2>4. Ended => Ended'
      BY <2>1 DEF Ended, Live
    <2> QED
      BY <2>1, <2>2, <2>3, <2>4 DEF SupervisorInv
  <1> QED
    BY <1>1, <1>2

LEMMA SupervisorInvariant == Spec => []SupervisorInv
  BY InitIsSafe, StepKeepsSafe, PTL DEF Spec

LEMMA SupervisorIsTyped == Typed => TypeOK
  <1> SUFFICES ASSUME Typed PROVE TypeOK
    OBVIOUS
  <1>1. {pendingStart, pid, stoppingPid, tree, backendPort, stopFallback, retryGeneration,
         seen} \subseteq 0..MaxGeneration
    BY DEF Typed, OwnerTypes, ControlTypes
  <1>2. {rootExited, stopping, windowCreated, retriesStopped, overtaken} \subseteq BOOLEAN
    BY Zenon DEF Typed, FlagTypes, ControlTypes
  <1>3. GatewayTyped
    BY DEF Typed, ControlTypes, GatewayTyped
  <1> QED
    BY <1>1, <1>2, <1>3 DEF Typed, TaskTypes, ControlTypes, TypeOK

LEMMA SupervisorIsOwned == SupervisorInv => BackendIsOwned
  <1> SUFFICES ASSUME SupervisorInv PROVE BackendIsOwned
    OBVIOUS
  <1>1. CASE shutdownPc # "exited"
    <2>1. ASSUME NEW g \in Generation, NEW h \in Generation \ {g}, Live(g), Live(h)
          PROVE  FALSE
      BY <1>1, <2>1, SupervisorAssumption DEF SupervisorInv, Safe, OwnedInv,
         PendingInv, Generation
    <2>2. \A g \in Generation : Live(g) => tree = g \/ startPc[g] = "spawned"
      BY <1>1 DEF SupervisorInv, Safe, OwnedInv
    <2>3. TreesAreOwned
      BY <2>1, <2>2 DEF SupervisorInv, Typed, TaskTypes, Live, TreesAreOwned
    <2> QED
      BY <1>1, <2>3 DEF SupervisorInv, Safe, BackendIsOwned, ExitLeavesNothing
  <1>2. CASE shutdownPc = "exited"
    <2>1. Typed /\ Ended
      BY <1>2 DEF SupervisorInv
    <2>2. TreesAreOwned
      BY <1>2, <2>1 DEF Ended, Live, Typed, TaskTypes, TreesAreOwned
    <2>3. ExitLeavesNothing /\ ReadyIsWatched
      BY <2>1 DEF Ended, Live, ExitLeavesNothing, ReadyIsWatched
    <2> QED
      BY <2>2, <2>3 DEF BackendIsOwned
  <1> QED
    BY <1>1, <1>2

\* TypeOK: every state of the supervisor is one of those the program can be in.
THEOREM SupervisorTypesAreKept == Spec => []TypeOK
  BY SupervisorIsTyped, SupervisorInvariant, PTL DEF SupervisorInv

\* BackendIsOwned: however starts, exits, failed killings, retries and the shutdown meet,
\* a live tree is owned and alone, the exit leaves none behind, and what the gateway calls
\* ready is the active tree, watched or about to be reported.
THEOREM BackendIsAlwaysOwned == Spec => []BackendIsOwned
  BY SupervisorIsOwned, SupervisorInvariant, PTL

=============================================================================
