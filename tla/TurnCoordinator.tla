--------------------------- MODULE TurnCoordinator --------------------------
(***************************************************************************)
(* Turns of the Codex App Server: class RideCodexTurnCoordinator of        *)
(* ride-codex-turn-coordinator.ts.                                         *)
(*                                                                         *)
(* One turn is active at a time.  Its browser client starts it under a     *)
(* lease of the host, steers and interrupts it; notifications of the       *)
(* server or the loss of the process end it.  An interrupt that is not     *)
(* confirmed in time ends the turn as uncertain and starts a recovery: the *)
(* host restarts the process and the thread is resumed, under one deadline *)
(* for all of it, and no turn starts meanwhile.                            *)
(*                                                                         *)
(* An action is the code between two awaits.  Continuations are not put    *)
(* before other tasks here: the order is left open.  All turns are of one  *)
(* thread, the case in which only ids and generations keep them apart; a   *)
(* turn is named by its sequence number, and the server's id for it by the *)
(* number of the turn that asked for it.                                   *)
(*                                                                         *)
(* The host is the interface RideCodexTurnHost: it serves a generation or  *)
(* not, grants leases, and reports each change of its state at once.       *)
(***************************************************************************)
EXTENDS Naturals, Sequences

CONSTANTS
    Client,             \* connected browser clients
    MaxTurns,           \* bound on the turns that are started
    MaxGenerations      \* bound on the host's generations

ASSUME TurnAssumption ==
    /\ MaxTurns \in Nat
    /\ MaxGenerations \in Nat \ {0}

VARIABLES
    hostState,      \* the host's state; `stopped' is any state without a process to come
    hostGen,        \* the host's generation
    generation,     \* #generation
    active,         \* #active, by its sequence number, or 0
    lastTurn,       \* #lastTurnSequence
    queueIdentity,  \* #queueIdentity, by its sequence number, or 0
    connected,      \* #clients
    disposed,       \* #disposed
    owner,          \* ActiveTurn.owner
    start,          \* where #startTurn of a turn is
    lease,          \* the lease of a turn: asked of the host, granted, known to the turn
    genOf,          \* the generation of that lease
    turnId,         \* ActiveTurn.turnId, 0 for `undefined'
    terminalResult, \* ActiveTurn.terminalResult
    control,        \* turns whose controlPending is set
    steer,          \* turns whose #steerTurn waits
    interrupt,      \* where #interruptTurn of a turn is
    srv,            \* what the server does for the request of a turn
    recPc,          \* where #recoverPersistentThread is; #recovery while it runs
    recTurn,        \* the turn that is recovered; its generation is to be replaced
    recGen,         \* the generation that replaced it
    recLease,       \* the lease that the recovery of a turn asks for
    restart,        \* the host's restart: pending makes #recoveryRestartQuarantine
    log,            \* the boundary events and recovery diagnostics given to #enqueue
    startResult,    \* what the promise of #startTurn gave
    interruptResult \* what the promise of #interruptTurn gave

hostVars == <<hostState, hostGen>>
turnVars == <<active, queueIdentity, terminalResult, lease, log>>
flowVars == <<start, startResult, turnId, srv>>
controlVars == <<control, steer, interrupt, interruptResult>>
recVars == <<recPc, recTurn, recGen, recLease, restart>>
baseVars == <<lastTurn, connected, disposed, owner, genOf>>
vars == <<hostVars, generation, turnVars, flowVars, controlVars, recVars, baseVars>>

Turns == 1..MaxTurns
Gen == 1..MaxGenerations
HostStates == {"stopped", "starting", "restarting", "ready"}
Statuses == {"completed", "interrupted", "failed", "interrupt-uncertain"}
Kinds == Statuses \cup {"started", "recovery-failed"}
Results == Statuses \cup {"none", "in-progress", "thrown"}
StartPcs == {"new", "acquire", "leased", "request", "answered", "answeredEnded",
             "refused", "done"}
Leases == {"none", "asked", "granted", "held", "released", "refused"}
InterruptPcs == {"none", "asked", "acked", "rejected", "recovering", "done"}
RecPcs == {"none", "begun", "restart", "restarted", "acquire", "resume", "failed"}
Nobody == "nobody"

Event(t, kind) == [turn |-> t, kind |-> kind]
Events == [turn : Turns, kind : Kinds]

\* An event that was given to #enqueue.
Logged(t, kind) == \E i \in DOMAIN log : log[i] = Event(t, kind)

Init ==
    /\ hostState = "ready" /\ hostGen = 1 /\ generation = 1
    /\ active = 0 /\ lastTurn = 0 /\ queueIdentity = 0
    /\ connected = {} /\ disposed = FALSE
    /\ owner = [t \in Turns |-> Nobody]
    /\ start = [t \in Turns |-> "new"]
    /\ lease = [t \in Turns |-> "none"]
    /\ genOf = [t \in Turns |-> 0]
    /\ turnId = [t \in Turns |-> 0]
    /\ terminalResult = [t \in Turns |-> "none"]
    /\ control = {} /\ steer = {}
    /\ interrupt = [t \in Turns |-> "none"]
    /\ srv = [t \in Turns |-> "none"]
    /\ recPc = "none" /\ recTurn = 0 /\ recGen = 0
    /\ recLease = [t \in Turns |-> "none"] /\ restart = "none"
    /\ log = <<>>
    /\ startResult = [t \in Turns |-> "none"]
    /\ interruptResult = [t \in Turns |-> "none"]

-----------------------------------------------------------------------------
(* Parts shared by the handlers                                            *)

NoBarrier == recPc = "none"

\* #requireNoRecovery: a barrier, or a restart that outlived its barrier.
NoRecovery == recPc = "none" /\ restart = "none"

\* A call of client c that passes #requireClient and #requireNoRecovery.
MayCall(c) == c \in connected /\ ~disposed /\ NoRecovery

\* #finishActive for the active turn t, with the log as the step found it or
\* extended it.
FinishActive(t, status, emit, linearize, l) ==
    /\ active' = 0
    /\ terminalResult' = [terminalResult EXCEPT ![t] =
                            IF linearize /\ turnId'[t] # 0 THEN status ELSE @]
    /\ IF emit /\ turnId'[t] # 0
       THEN queueIdentity' = t /\ log' = Append(l, Event(t, status))
       ELSE UNCHANGED queueIdentity /\ log' = l
    /\ lease' = [lease EXCEPT ![t] = IF @ = "held" THEN "released" ELSE @]

\* What a call on turn t gives once the turn is over.
ResultOf(t) == IF terminalResult[t] # "none" THEN terminalResult[t] ELSE "thrown"

\* #beginRecovery for the thread and the generation of turn t.
BeginRecovery(t) ==
    IF NoRecovery
    THEN /\ recPc' = "begun"
         /\ recTurn' = t
         /\ UNCHANGED <<recGen, recLease, restart>>
    ELSE UNCHANGED recVars

-----------------------------------------------------------------------------
(* #startTurn and #acquireForActive                                        *)

\* #newActive refuses when the sequence is used up; MaxTurns stands for its end.
NumbersLeft == lastTurn < MaxTurns

StartTurn(c) ==
    /\ MayCall(c)
    /\ active = 0
    /\ NumbersLeft
    /\ LET t == lastTurn + 1
       IN  /\ lastTurn' = t
           /\ active' = t
           /\ owner' = [owner EXCEPT ![t] = c]
           /\ start' = [start EXCEPT ![t] = "acquire"]
           /\ lease' = [lease EXCEPT ![t] = "asked"]
    /\ UNCHANGED <<hostVars, generation, queueIdentity, terminalResult, log, startResult,
                   turnId, srv, controlVars, recVars, connected, disposed, genOf>>

\* The host settles acquire() while it serves.
HostGrants(t) ==
    /\ lease[t] = "asked"
    /\ hostState = "ready"
    /\ lease' = [lease EXCEPT ![t] = "granted"]
    /\ genOf' = [genOf EXCEPT ![t] = hostGen]
    /\ UNCHANGED <<hostVars, generation, active, queueIdentity, terminalResult, log,
                   flowVars, controlVars, recVars, lastTurn, connected, disposed, owner>>

HostRefuses(t) ==
    /\ lease[t] = "asked"
    /\ lease' = [lease EXCEPT ![t] = "refused"]
    /\ start' = [start EXCEPT ![t] = IF @ = "acquire" THEN "refused" ELSE @]
    /\ UNCHANGED <<hostVars, generation, active, queueIdentity, terminalResult, log,
                   startResult, turnId, srv, controlVars, recVars, baseVars>>

TakesLeaseIfWaiting(t) == start[t] = "acquire"

\* A turn that is over takes no lease.
TakesLease(t) == active = t

\* The lease reaches its turn, or is given back: the turn is over.
LeaseArrives(t) ==
    /\ lease[t] = "granted"
    /\ IF TakesLease(t)
       THEN /\ lease' = [lease EXCEPT ![t] = "held"]
            /\ start' = [start EXCEPT ![t] = "leased"]
       ELSE /\ lease' = [lease EXCEPT ![t] = "released"]
            /\ UNCHANGED start
    /\ UNCHANGED <<hostVars, generation, active, queueIdentity, terminalResult, log,
                   startResult, turnId, srv, controlVars, recVars, baseVars>>

\* turn/start is requested; a lease that was released meanwhile refuses.
RequestStart(t) ==
    /\ start[t] = "leased"
    /\ start' = [start EXCEPT ![t] = IF lease[t] = "held" THEN "request" ELSE "refused"]
    /\ UNCHANGED <<hostVars, generation, turnVars, startResult, turnId, srv,
                   controlVars, recVars, baseVars>>

\* The host writes the request, after it looked at the lease again.
StartWritten(t) ==
    /\ start[t] = "request"
    /\ srv[t] = "none"
    /\ lease[t] = "held"
    /\ srv' = [srv EXCEPT ![t] = "asked"]
    /\ UNCHANGED <<hostVars, generation, turnVars, start, startResult, turnId,
                   controlVars, recVars, baseVars>>

\* The process that was asked for turn t still talks.
Talks(t) == srv[t] # "none" /\ hostState = "ready" /\ hostGen = genOf[t]

\* The response of turn/start: the turn goes on, or it is over already.
StartReplies(t, pc) ==
    /\ start[t] = "request"
    /\ active = t
    /\ Talks(t)
    /\ pc \in {"answered", "answeredEnded"}
    /\ start' = [start EXCEPT ![t] = pc]
    /\ srv' = [srv EXCEPT ![t] = IF pc = "answeredEnded" THEN "ended" ELSE @]
    /\ UNCHANGED <<hostVars, generation, turnVars, startResult, turnId,
                   controlVars, recVars, baseVars>>

\* An error, a malformed response, a timeout or the loss of the process.
StartRefused(t) ==
    /\ start[t] = "request"
    /\ start' = [start EXCEPT ![t] = "refused"]
    /\ UNCHANGED <<hostVars, generation, turnVars, startResult, turnId, srv,
                   controlVars, recVars, baseVars>>

\* #establishTurn accepts id u for the active turn a.
Establishes(a, u) == turnId[a] \in {0, u}

AnnouncedAlways(a) == Append(log, Event(a, "started"))

\* The log once turn a has id u.
Announced(a) == IF turnId[a] = 0 THEN Append(log, Event(a, "started")) ELSE log

\* The continuation of the response.
StartAnswered(t) ==
    /\ start[t] \in {"answered", "answeredEnded"}
    /\ start' = [start EXCEPT ![t] = "done"]
    /\ IF active # t
       THEN /\ startResult' = [startResult EXCEPT ![t] = ResultOf(t)]
            /\ UNCHANGED <<turnVars, turnId>>
       ELSE IF ~Establishes(t, t)
       THEN /\ UNCHANGED turnId
            /\ FinishActive(t, "failed", TRUE, FALSE, log)
            /\ startResult' = [startResult EXCEPT ![t] = "thrown"]
       ELSE /\ turnId' = [turnId EXCEPT ![t] = t]
            /\ IF start[t] = "answeredEnded"
               THEN /\ FinishActive(t, "completed", TRUE, TRUE, Announced(t))
                    /\ startResult' = [startResult EXCEPT ![t] = "completed"]
               ELSE /\ log' = Announced(t)
                    /\ queueIdentity' = IF turnId[t] = 0 THEN t ELSE queueIdentity
                    /\ startResult' = [startResult EXCEPT ![t] = "in-progress"]
                    /\ UNCHANGED <<active, terminalResult, lease>>
    /\ UNCHANGED <<hostVars, generation, srv, controlVars, recVars, baseVars>>

StartIsRefused(t) == start[t] = "refused"

\* The start failed, or its turn ended while it waited.
StartIsOver(t) ==
    \/ start[t] = "refused"
    \/ start[t] \in {"acquire", "request"} /\ active # t

StartEnds(t) ==
    /\ StartIsOver(t)
    /\ start' = [start EXCEPT ![t] = "done"]
    /\ startResult' = [startResult EXCEPT ![t] = ResultOf(t)]
    /\ UNCHANGED turnId
    /\ IF active = t
       THEN FinishActive(t, "failed", TRUE, FALSE, log)
       ELSE UNCHANGED turnVars
    /\ UNCHANGED <<hostVars, generation, srv, controlVars, recVars, baseVars>>

-----------------------------------------------------------------------------
(* #onNotification                                                         *)

\* A notification about request u reaches the active turn a: the generation of
\* the connection is the turn's and the coordinator's.
Reaches(u, a) ==
    /\ ~disposed
    /\ a # 0
    /\ lease[a] = "held"
    /\ genOf[a] = genOf[u]
    /\ generation = genOf[u]

\* turn/started names its thread and id; any active turn of the thread takes it.
TurnStarted(u) ==
    /\ srv[u] = "asked"
    /\ Talks(u)
    /\ srv' = [srv EXCEPT ![u] = "running"]
    /\ IF Reaches(u, active) /\ turnId[active] = 0
       THEN /\ turnId' = [turnId EXCEPT ![active] = u]
            /\ queueIdentity' = active
            /\ log' = Announced(active)
       ELSE UNCHANGED <<turnId, queueIdentity, log>>
    /\ UNCHANGED <<hostVars, generation, active, terminalResult, lease, start,
                   startResult, controlVars, recVars, baseVars>>

\* turn/completed ends the active turn if it has that id.
TurnCompleted(u, status) ==
    /\ srv[u] = "running"
    /\ Talks(u)
    /\ status \in {"completed", "interrupted"}
    /\ srv' = [srv EXCEPT ![u] = "ended"]
    /\ UNCHANGED turnId
    /\ IF Reaches(u, active) /\ turnId[active] = u
       THEN FinishActive(active, status, TRUE, TRUE, log)
       ELSE UNCHANGED turnVars
    /\ UNCHANGED <<hostVars, generation, start, startResult, controlVars, recVars, baseVars>>

-----------------------------------------------------------------------------
(* #steerTurn and #interruptTurn                                           *)

\* #requireActive by the owner, and no other control in flight.
MayControl(t) ==
    /\ active = t
    /\ MayCall(owner[t])
    /\ turnId[t] # 0
    /\ t \notin control
    /\ lease[t] = "held"

Steer(t) ==
    /\ MayControl(t)
    /\ control' = control \cup {t}
    /\ steer' = steer \cup {t}
    /\ UNCHANGED <<hostVars, generation, turnVars, flowVars, interrupt,
                   interruptResult, recVars, baseVars>>

\* The answer, a failure, or the end of the turn.
SteerEnds(t) ==
    /\ t \in steer
    /\ steer' = steer \ {t}
    /\ control' = IF active = t THEN control \ {t} ELSE control
    /\ UNCHANGED <<hostVars, generation, turnVars, flowVars, interrupt,
                   interruptResult, recVars, baseVars>>

Interrupt(t) ==
    /\ MayControl(t)
    /\ control' = control \cup {t}
    /\ interrupt' = [interrupt EXCEPT ![t] = "asked"]
    /\ UNCHANGED <<hostVars, generation, turnVars, flowVars, steer,
                   interruptResult, recVars, baseVars>>

\* The server acknowledges, which does not end the turn yet, or it fails to.
InterruptReplies(t, pc) ==
    /\ interrupt[t] = "asked"
    /\ active = t
    /\ pc \in {"acked", "rejected"}
    /\ interrupt' = [interrupt EXCEPT ![t] = pc]
    /\ UNCHANGED <<hostVars, generation, turnVars, flowVars, control, steer,
                   interruptResult, recVars, baseVars>>

GivesUpUnrecorded(t) ==
    /\ BeginRecovery(t)
    /\ UNCHANGED turnId
    /\ FinishActive(t, "interrupt-uncertain", TRUE, FALSE, log)
    /\ interrupt' = [interrupt EXCEPT ![t] = "recovering"]

\* The turn is given up as uncertain; its thread is recovered first.
GivesUp(t) ==
    /\ BeginRecovery(t)
    /\ UNCHANGED turnId
    /\ FinishActive(t, "interrupt-uncertain", TRUE, TRUE, log)
    /\ interrupt' = [interrupt EXCEPT ![t] = "recovering"]

InterruptTimesOut(t) ==
    /\ interrupt[t] \in {"asked", "acked"}
    /\ active = t
    /\ GivesUp(t)
    /\ UNCHANGED <<hostVars, generation, start, startResult, srv, control, steer,
                   interruptResult, baseVars>>

InterruptFails(t) ==
    /\ interrupt[t] = "rejected"
    /\ active = t
    /\ GivesUp(t)
    /\ UNCHANGED <<hostVars, generation, start, startResult, srv, control, steer,
                   interruptResult, baseVars>>

\* The turn ended by itself.
InterruptEnds(t) ==
    /\ interrupt[t] \in {"asked", "acked", "rejected"}
    /\ active # t
    /\ interrupt' = [interrupt EXCEPT ![t] = "done"]
    /\ interruptResult' = [interruptResult EXCEPT ![t] = ResultOf(t)]
    /\ UNCHANGED <<hostVars, generation, turnVars, flowVars, control, steer,
                   recVars, baseVars>>

\* The recovery is over; only disposal makes its promise reject.
InterruptRecovered(t) ==
    /\ interrupt[t] = "recovering"
    /\ recPc = "none"
    /\ interrupt' = [interrupt EXCEPT ![t] = "done"]
    /\ \E r \in {ResultOf(t)} \cup (IF disposed THEN {"thrown"} ELSE {}) :
            interruptResult' = [interruptResult EXCEPT ![t] = r]
    /\ UNCHANGED <<hostVars, generation, turnVars, flowVars, control, steer,
                   recVars, baseVars>>

-----------------------------------------------------------------------------
(* #recoverPersistentThread                                                *)

\* #restartForRecovery; after dispose() its promise is rejected at once.
RecoveryRestarts ==
    /\ recPc = "begun"
    /\ IF disposed
       THEN recPc' = "failed" /\ UNCHANGED restart
       ELSE recPc' = "restart" /\ restart' = "pending"
    /\ UNCHANGED <<hostVars, generation, turnVars, flowVars, controlVars,
                   recTurn, recGen, recLease, baseVars>>

\* The host's restart settles, perhaps after the recovery gave up.
RestartSettles(ok) ==
    /\ restart = "pending"
    /\ ok => hostState = "ready" /\ hostGen > genOf[recTurn]
    /\ restart' = "none"
    /\ IF recPc = "restart"
       THEN /\ recPc' = IF ok THEN "restarted" ELSE "failed"
            /\ recGen' = IF ok THEN hostGen ELSE recGen
       ELSE UNCHANGED <<recPc, recGen>>
    /\ UNCHANGED <<hostVars, generation, turnVars, flowVars, controlVars,
                   recTurn, recLease, baseVars>>

\* The new generation is adopted if it still serves, and leased.
RecoveryAcquires ==
    /\ recPc = "restarted"
    /\ IF ~disposed /\ hostState = "ready" /\ hostGen = recGen
       THEN /\ generation' = recGen
            /\ recLease' = [recLease EXCEPT ![recTurn] = "asked"]
            /\ recPc' = "acquire"
       ELSE /\ recPc' = "failed"
            /\ UNCHANGED <<generation, recLease>>
    /\ UNCHANGED <<hostVars, turnVars, flowVars, controlVars, recTurn, recGen,
                   restart, baseVars>>

\* The recovery of turn t waits for its lease; another one gave up.
AwaitsLease(t) == recPc = "acquire" /\ recTurn = t

\* A granted lease is used if it is of the generation that was asked for.
RecoveryGrantedTo(t) ==
    /\ recLease' = [recLease EXCEPT ![t] = "held"]
    /\ recPc' = IF hostGen = recGen /\ ~disposed THEN "resume" ELSE "failed"

\* The host answers acquire(); a lease that comes too late is given back.
RecoveryGranted(t) ==
    /\ recLease[t] = "asked"
    /\ hostState = "ready"
    /\ IF AwaitsLease(t)
       THEN RecoveryGrantedTo(t)
       ELSE recLease' = [recLease EXCEPT ![t] = "none"] /\ UNCHANGED recPc
    /\ UNCHANGED <<hostVars, generation, turnVars, flowVars, controlVars,
                   recTurn, recGen, restart, baseVars>>

RecoveryRefused(t) ==
    /\ recLease[t] = "asked"
    /\ recLease' = [recLease EXCEPT ![t] = "none"]
    /\ recPc' = IF AwaitsLease(t) THEN "failed" ELSE recPc
    /\ UNCHANGED <<hostVars, generation, turnVars, flowVars, controlVars,
                   recTurn, recGen, restart, baseVars>>

\* The end of the recovery; a lease that is still asked for stays behind.
RecoveryEnds ==
    /\ recPc' = "none"
    /\ recLease' = [recLease EXCEPT ![recTurn] = IF @ = "held" THEN "none" ELSE @]
    /\ UNCHANGED <<recTurn, recGen, restart>>

\* thread/resume is answered well.
RecoveryResumes ==
    /\ recPc = "resume"
    /\ RecoveryEnds
    /\ UNCHANGED <<hostVars, generation, turnVars, flowVars, controlVars, baseVars>>

BoundedUntilResume == recPc \in {"restart", "restarted", "acquire"}

\* The deadline and disposal are raced with every wait of the recovery.
Bounded == recPc \in {"restart", "restarted", "acquire", "resume"}

\* The deadline, disposal, or a thread/resume that fails.
RecoveryStops ==
    /\ Bounded
    /\ recPc' = "failed"
    /\ UNCHANGED <<hostVars, generation, turnVars, flowVars, controlVars,
                   recTurn, recGen, recLease, restart, baseVars>>

\* One diagnostic for each identity, under the identity of the queue.
Diagnosed == Append(log, Event(queueIdentity, "recovery-failed"))

ReservesIfActive == queueIdentity # 0 /\ queueIdentity = active

Reserves == /\ ~disposed
            /\ queueIdentity # 0
            /\ ~Logged(queueIdentity, "recovery-failed")

RecoveryFails ==
    /\ recPc = "failed"
    /\ log' = IF Reserves THEN Diagnosed ELSE log
    /\ RecoveryEnds
    /\ UNCHANGED <<hostVars, generation, active, queueIdentity, terminalResult, lease,
                   flowVars, controlVars, baseVars>>

-----------------------------------------------------------------------------
(* The host, the clients and the end                                       *)

EndsTurnByGeneration(s, g) ==
    active # 0 /\ lease[active] = "held" /\ genOf[active] # g

\* A state without its process, or another generation, ends the active turn.
EndsTurn(s, g) ==
    /\ active # 0
    /\ \/ s \in {"stopped", "restarting"}
       \/ lease[active] = "held" /\ genOf[active] # g

\* #onHostStateChange.
HostChanges(s, g) ==
    /\ hostState' = s
    /\ hostGen' = g
    /\ generation' = IF ~disposed /\ g > generation THEN g ELSE generation
    /\ UNCHANGED turnId
    /\ IF ~disposed /\ g >= generation /\ EndsTurn(s, g)
       THEN FinishActive(active, "failed", TRUE, FALSE, log)
       ELSE UNCHANGED turnVars
    /\ UNCHANGED <<start, startResult, srv, controlVars, recVars, baseVars>>

HostStops == hostState # "stopped" /\ HostChanges("stopped", hostGen)

HostRestarts == /\ hostState \in {"ready", "stopped"}
                /\ hostGen < MaxGenerations
                /\ HostChanges("restarting", hostGen + 1)

HostStarts == /\ hostState = "stopped"
              /\ hostGen < MaxGenerations
              /\ HostChanges("starting", hostGen + 1)

HostReady == /\ hostState \in {"starting", "restarting"}
             /\ HostChanges("ready", hostGen)

\* connectClient.
Connect(c) ==
    /\ ~disposed
    /\ NoRecovery
    /\ c \notin connected
    /\ connected' = connected \cup {c}
    /\ UNCHANGED <<hostVars, generation, turnVars, flowVars, controlVars, recVars,
                   lastTurn, disposed, owner, genOf>>

\* #disconnect, also for a client whose delivery fails: its turn is interrupted.
Disconnect(c) ==
    /\ c \in connected
    /\ connected' = connected \ {c}
    /\ UNCHANGED turnId
    /\ IF active # 0 /\ owner[active] = c
       THEN FinishActive(active, "interrupted", TRUE, FALSE, log)
       ELSE UNCHANGED turnVars
    /\ UNCHANGED <<hostVars, generation, start, startResult, srv, controlVars, recVars,
                   lastTurn, disposed, owner, genOf>>

Dispose ==
    /\ ~disposed
    /\ disposed' = TRUE
    /\ connected' = {}
    /\ active' = 0
    /\ queueIdentity' = 0
    /\ lease' = [t \in Turns |-> IF t = active /\ lease[t] = "held" THEN "released" ELSE lease[t]]
    /\ UNCHANGED <<hostVars, generation, terminalResult, log, flowVars, controlVars,
                   recVars, lastTurn, owner, genOf>>

-----------------------------------------------------------------------------
(* The specification                                                       *)

StartStep(t) ==
    \/ HostGrants(t) \/ HostRefuses(t) \/ LeaseArrives(t)
    \/ RequestStart(t) \/ StartWritten(t) \/ StartRefused(t)
    \/ \E pc \in {"answered", "answeredEnded"} : StartReplies(t, pc)
    \/ StartAnswered(t) \/ StartEnds(t)

NotificationStep(t) ==
    \/ TurnStarted(t)
    \/ \E s \in {"completed", "interrupted"} : TurnCompleted(t, s)

ControlStep(t) ==
    \/ Steer(t) \/ SteerEnds(t) \/ Interrupt(t)
    \/ \E pc \in {"acked", "rejected"} : InterruptReplies(t, pc)
    \/ InterruptTimesOut(t) \/ InterruptFails(t) \/ InterruptEnds(t)
    \/ InterruptRecovered(t)

RecoveryStep ==
    \/ RecoveryRestarts \/ RecoveryAcquires
    \/ \E t \in Turns : RecoveryGranted(t) \/ RecoveryRefused(t)
    \/ \E ok \in BOOLEAN : RestartSettles(ok)
    \/ RecoveryResumes \/ RecoveryStops \/ RecoveryFails

HostStep == HostStops \/ HostRestarts \/ HostStarts \/ HostReady

Next ==
    \/ \E c \in Client : Connect(c) \/ Disconnect(c) \/ StartTurn(c)
    \/ \E t \in Turns : StartStep(t) \/ NotificationStep(t) \/ ControlStep(t)
    \/ RecoveryStep
    \/ HostStep
    \/ Dispose

Spec == Init /\ [][Next]_vars

(***************************************************************************)
(* Fairness.  Continuations run.  The host settles each acquire and each   *)
(* restart (AppServerHost!OperationsSettle), its client settles each       *)
(* request (JsonlClient!RequestsSettle), and the timers of an interrupt    *)
(* and of a recovery fire.  The server and the user owe nothing.           *)
(***************************************************************************)
Fairness ==
    /\ \A t \in Turns :
        /\ WF_vars(HostGrants(t) \/ HostRefuses(t))
        /\ WF_vars(LeaseArrives(t))
        /\ WF_vars(RequestStart(t))
        /\ WF_vars(StartRefused(t) \/ \E pc \in StartPcs : StartReplies(t, pc))
        /\ WF_vars(StartAnswered(t) \/ StartEnds(t))
        /\ WF_vars(SteerEnds(t))
        /\ WF_vars(InterruptTimesOut(t) \/ InterruptFails(t) \/ InterruptEnds(t))
        /\ WF_vars(InterruptRecovered(t))
        /\ WF_vars(RecoveryGranted(t) \/ RecoveryRefused(t))
    /\ WF_vars(RecoveryRestarts \/ RecoveryAcquires \/ RecoveryStops \/ RecoveryFails)
    /\ WF_vars(\E ok \in BOOLEAN : RestartSettles(ok))

FairSpec == Spec /\ Fairness

-----------------------------------------------------------------------------
(* Properties                                                              *)

\* Type invariant of the coordinator and of the host it sees.
TypeOK ==
    /\ hostState \in HostStates /\ hostGen \in Gen /\ generation \in Gen
    /\ {active, lastTurn, queueIdentity, recTurn} \subseteq Turns \cup {0}
    /\ connected \subseteq Client /\ disposed \in BOOLEAN
    /\ owner \in [Turns -> Client \cup {Nobody}]
    /\ start \in [Turns -> StartPcs] /\ lease \in [Turns -> Leases]
    /\ genOf \in [Turns -> Gen \cup {0}] /\ recGen \in Gen \cup {0}
    /\ turnId \in [Turns -> Turns \cup {0}]
    /\ terminalResult \in [Turns -> Statuses \cup {"none"}]
    /\ control \subseteq Turns /\ steer \subseteq Turns
    /\ interrupt \in [Turns -> InterruptPcs]
    /\ srv \in [Turns -> {"none", "asked", "running", "ended"}]
    /\ recPc \in RecPcs
    /\ recLease \in [Turns -> {"none", "asked", "held"}] /\ restart \in {"none", "pending"}
    /\ log \in Seq(Events)
    /\ startResult \in [Turns -> Results] /\ interruptResult \in [Turns -> Results]

\* The active turn is served: from the moment its lease arrives until it ends,
\* the host is ready in the turn's own generation and the coordinator knows that
\* generation.  No crash, restart or recovery leaves a turn waiting for a process
\* that is gone.
TurnIsServed ==
    active # 0 /\ lease[active] = "held" =>
        hostState = "ready" /\ hostGen = genOf[active] /\ generation = genOf[active]

\* Only the active turn keeps its lease, and the recovery its own while it runs:
\* late grants, disconnections, restarts and disposal leak none.
TurnLeasesAccounted ==
    /\ \A t \in Turns : lease[t] = "held" => active = t
    /\ \A t \in Turns : recLease[t] = "held" => recTurn = t /\ recPc \in {"resume", "failed"}

\* While a recovery runs, and while its restart is pending even after it gave
\* up, there is no turn that the restart could hit.
RecoveryIsAlone == recPc # "none" \/ restart = "pending" => active = 0

\* Each turn is announced once, ended at most once and after that, and nothing is
\* reported of a turn once a later one was announced; the failure of a recovery
\* is reported once, for the turn whose interrupt it follows.
BoundariesInOrder ==
    \A i \in DOMAIN log :
        LET e == log[i]
            before == {log[k].kind : k \in {k \in 1..(i - 1) : log[k].turn = e.turn}}
        IN  /\ \A k \in 1..(i - 1) : log[k].turn <= e.turn
            /\ e.kind = "started" <=> before = {}
            /\ e.kind \in Statuses => before = {"started"}
            /\ e.kind = "recovery-failed" => before = {"started", "interrupt-uncertain"}

\* What the promises of a turn say is what its events say: the same end, and an
\* end that the server confirmed or an interrupt left uncertain is never rejected.
ResultsAgree ==
    \A t \in Turns : \A r \in {startResult[t], interruptResult[t]} :
        /\ r \in Statuses => Logged(t, r)
        /\ r = "in-progress" => Logged(t, "started")
        /\ r = "thrown" => ~Logged(t, "completed")
        /\ r = "thrown" /\ ~disposed => ~Logged(t, "interrupt-uncertain")

\* After an interrupt that was not confirmed the server may still run the turn: a
\* later turn is of another process, or the user was told that recovery failed.
UncertainIsRecovered ==
    \A t \in Turns : terminalResult[t] = "interrupt-uncertain" =>
        \A u \in Turns : u > t /\ lease[u] = "held" =>
            genOf[u] > genOf[t] \/ Logged(t, "recovery-failed")

\* A turn is bound to the id that the server gave to its own request.  The tests
\* say that cross-turn and late notifications are ignored.
TurnsAreNotCrossed == \A t \in Turns : turnId[t] \in {0, t}

\* Every start, steer and interrupt settles, whatever the server does.
CallsSettle ==
    /\ \A t \in Turns : start[t] = "acquire" ~> start[t] = "done"
    /\ \A t \in Turns : t \in steer ~> t \notin steer
    /\ \A t \in Turns : interrupt[t] = "asked" ~> interrupt[t] = "done"

\* After every recovery turns can be started again.
RecoveryEndsEventually == ~NoRecovery ~> NoRecovery
=============================================================================
