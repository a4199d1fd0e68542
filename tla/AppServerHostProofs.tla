------------------------- MODULE AppServerHostProofs ------------------------
(***************************************************************************)
(* Theorems about AppServerHost for every set of leases and every number   *)
(* of generations: types, exact approval count, authority over the child,  *)
(* the refinement of SoleProcess; then that whoever waits for a stop or a  *)
(* start waits for one that is under way, that dispose() leaves nothing    *)
(* behind, and that an open circuit without a process stays open until     *)
(* retry().                                                                *)
(***************************************************************************)
EXTENDS AppServerHostRefinement, FiniteSetTheorems, TLAPS

-----------------------------------------------------------------------------
(* Types                                                                   *)

\* Whatever ensureStarted answers, its caller waits or is told at once.
LEMMA EnsurePcType ==
    ASSUME NEW c, NEW s
    PROVE  EnsurePc(c, s) \in {"failed", "awaitStop", "started", "awaitStart"}
BY DEF EnsurePc, MustLaunch, Owned, Usable

\* The part of ensureStarted that runs at once keeps the types it touches.
LEMMA EnsureStartedType ==
    ASSUME TypeOK, NEW c, NEW s \in States, NEW r \in BOOLEAN,
           EnsureStarted(c, s, r)
    PROVE  /\ generation' \in 0..MaxGenerations
           /\ startPromise' \in 0..MaxGenerations
           /\ startPc' \in [Gen -> StartPcs]
           /\ state' \in States
BY HostAssumption DEF TypeOK, EnsureStarted, InBudget, States, StartPcs, Gen

\* So does the part of stopConnection that runs at once.
LEMMA StopConnectionType ==
    ASSUME TypeOK, NEW c \in Gen, StopConnection(c)
    PROVE  /\ stop' \in {NoStop} \cup [phase : StopPhases \ {"none"}, conn : Gen]
           /\ intentionalStop' \subseteq Gen
           /\ ready' \subseteq Gen
           /\ clientClosed' \subseteq Gen
           /\ StateOfStop(c) \in States
<1>2. stop' \in {NoStop} \cup [phase : StopPhases \ {"none"}, conn : Gen]
  <2>1. CASE StopBegins(c)
    BY <2>1 DEF StopConnection, StopPhases
  <2>2. CASE ~StopBegins(c)
    BY <2>2 DEF TypeOK, StopConnection, StopPhases
  <2>3. QED  BY <2>1, <2>2
<1>3. /\ intentionalStop' \subseteq Gen
      /\ ready' \subseteq Gen
      /\ clientClosed' \subseteq Gen
  BY DEF TypeOK, StopConnection
<1>4. StateOfStop(c) \in States
  BY DEF TypeOK, StateOfStop, States
<1>5. QED  BY <1>2, <1>3, <1>4

\* What StartSettles and StopSettles hand to the waiting operations.
LEMMA WakeTypes ==
    ASSUME NEW b \in BOOLEAN
    PROVE  /\ \A p \in Pcs : WakeStart(p, b) \in Pcs /\ WakeStop(p, b) \in Pcs
           /\ \A e \in ExitPcs : WakeStart(e, b) \in ExitPcs
           /\ \A s \in StartPcs : WakeStop(s, b) \in StartPcs
<1>1. \A p \in Pcs : WakeStart(p, b) \in Pcs /\ WakeStop(p, b) \in Pcs
  BY DEF WakeStart, WakeStop, Pcs
<1>2. \A e \in ExitPcs : WakeStart(e, b) \in ExitPcs
  BY DEF WakeStart, ExitPcs
<1>3. \A s \in StartPcs : WakeStop(s, b) \in StartPcs
  BY DEF WakeStop, StartPcs
<1>4. QED  BY <1>1, <1>2, <1>3

LEMMA StartSettlesType ==
    ASSUME TypeOK, NEW g \in Gen, NEW ok \in BOOLEAN, StartSettles(g, ok)
    PROVE  /\ startPromise' \in 0..MaxGenerations
           /\ startPc' \in [Gen -> StartPcs]
           /\ pc' \in [Proc -> Pcs]
           /\ exitPc' \in [Gen -> ExitPcs]
<1>1. startPromise' \in 0..MaxGenerations
  BY HostAssumption DEF TypeOK, StartSettles
<1>2. startPc' \in [Gen -> StartPcs]
  BY DEF TypeOK, StartSettles, StartPcs
<1>3. pc' \in [Proc -> Pcs]
  BY WakeTypes DEF TypeOK, StartSettles
<1>4. exitPc' \in [Gen -> ExitPcs]
  BY WakeTypes DEF TypeOK, StartSettles
<1>5. QED  BY <1>1, <1>2, <1>3, <1>4

LEMMA BreakerResetsType ==
    ASSUME TypeOK, BreakerResets
    PROVE  /\ restartAttempts' \in 0..1
           /\ state' \in States
           /\ generation' \in 0..MaxGenerations
           /\ startPromise' \in 0..MaxGenerations
           /\ startPc' \in [Gen -> StartPcs]
           /\ pc' \in [Proc -> Pcs]
<1> DEFINE s == IF state = "circuit-open" THEN "stopped" ELSE state
<1>0. s \in States
  BY DEF TypeOK, States
<1>1. CASE leases = {}
  BY <1>0, <1>1 DEF TypeOK, BreakerResets, Pcs
<1>2. CASE leases # {}
  <2>1. /\ EnsureStarted(connection, s, FALSE)
        /\ pc' = [pc EXCEPT !["retry"] = EnsurePc(connection, s)]
        /\ restartAttempts' = 0
    BY <1>2 DEF BreakerResets
  <2>2. pc' \in [Proc -> Pcs]
    <3>1. EnsurePc(connection, s) \in Pcs
      BY EnsurePcType DEF Pcs
    <3>2. QED  BY <2>1, <3>1 DEF TypeOK
  <2>3. restartAttempts' \in 0..1
    BY <2>1
  <2> HIDE DEF s
  <2>4. /\ generation' \in 0..MaxGenerations
        /\ startPromise' \in 0..MaxGenerations
        /\ startPc' \in [Gen -> StartPcs]
        /\ state' \in States
    BY <1>0, <2>1, EnsureStartedType
  <2>5. QED  BY <2>2, <2>3, <2>4
<1>3. QED  BY <1>1, <1>2

LEMMA ReleaseRecordType ==
    ASSUME TypeOK, NEW l \in Lease, ReleaseRecord(l)
    PROVE  /\ leases' \subseteq Lease
           /\ unsafeApprovalCount' \in Nat
           /\ idleTimer' \in BOOLEAN
BY DEF TypeOK, ReleaseRecord, Uncounted, ReleaseArmsTimer

LEMMA ExitHandledType ==
    ASSUME TypeOK, NEW g \in Gen, NEW b \in BOOLEAN, ExitHandled(g, b)
    PROVE  /\ finalized' \subseteq Gen /\ clientClosed' \subseteq Gen
           /\ connection' \in 0..MaxGenerations
           /\ restartAttempts' \in 0..1
           /\ state' \in States
           /\ generation' \in 0..MaxGenerations
           /\ startPromise' \in 0..MaxGenerations
           /\ startPc' \in [Gen -> StartPcs]
           /\ exitPc' \in [Gen -> ExitPcs]
<1>1. /\ finalized' \subseteq Gen /\ clientClosed' \subseteq Gen
      /\ connection' \in 0..MaxGenerations
  BY HostAssumption DEF TypeOK, ExitHandled
<1>2. CASE b /\ RestartsAfterCrash(g)
  <2>1. /\ restartAttempts' = restartAttempts + 1
        /\ EnsureStarted(0, state, TRUE)
        /\ exitPc' = [exitPc EXCEPT ![g] = EnsurePc(0, state)]
    BY <1>2 DEF ExitHandled
  <2>2. restartAttempts' \in 0..1
    BY <1>2, <2>1 DEF RestartsAfterCrash
  <2>3. exitPc' \in [Gen -> ExitPcs]
    <3>1. EnsurePc(0, state) \in ExitPcs
      BY EnsurePcType DEF ExitPcs
    <3>2. QED  BY <2>1, <3>1 DEF TypeOK
  <2>4. state \in States
    BY DEF TypeOK
  <2>5. QED  BY <1>1, <2>1, <2>2, <2>3, <2>4, EnsureStartedType
<1>3. CASE ~(b /\ RestartsAfterCrash(g))
  <2>1. StateAfterExit(g) \in States
    BY DEF TypeOK, StateAfterExit, StoppedUnlessLatched, States
  <2>2. /\ state' = IF b THEN StateAfterExit(g) ELSE state
        /\ exitPc' = [exitPc EXCEPT ![g] = "none"]
        /\ UNCHANGED <<generation, startPromise, startPc, restartAttempts>>
    BY <1>3 DEF ExitHandled
  <2>3. QED  BY <1>1, <2>1, <2>2 DEF TypeOK, ExitPcs
<1>4. QED  BY <1>2, <1>3

-----------------------------------------------------------------------------
(* The type invariant                                                      *)

LEMMA TypeInit == Init => TypeOK
<1> SUFFICES ASSUME Init PROVE TypeOK
  OBVIOUS
<1>1. /\ state \in States /\ leases \subseteq Lease
      /\ idleTimer \in BOOLEAN /\ disposed \in BOOLEAN
      /\ published \subseteq Gen /\ alive \subseteq Gen /\ ready \subseteq Gen
      /\ intentionalStop \subseteq Gen /\ finalized \subseteq Gen
      /\ killRequested \subseteq Gen /\ clientClosed \subseteq Gen
      /\ stdioFailed \subseteq Gen
  BY DEF Init, States
<1>2. /\ 0 \in 0..MaxGenerations /\ 0 \in 0..1 /\ 0 \in Nat
  BY HostAssumption
<1>3. stop \in {NoStop} \cup [phase : StopPhases \ {"none"}, conn : Gen]
  BY <1>2 DEF Init, NoStop, StopPhases
<1>4. /\ startPc \in [Gen -> StartPcs] /\ exitPc \in [Gen -> ExitPcs]
      /\ pc \in [Proc -> Pcs]
  BY DEF Init, StartPcs, ExitPcs, Pcs
<1>5. QED  BY <1>1, <1>2, <1>3, <1>4 DEF Init, TypeOK

LEMMA TypeLease ==
    ASSUME TypeOK, NEW l \in Lease,
           Acquire(l) \/ AcquireResolves(l) \/ AcquireRejects(l) \/ Release(l) \/ Request(l)
    PROVE  TypeOK'
<1> USE DEF TypeOK, hostVars, leaseVars, connVars, stopVars, localVars
<1>1. CASE Acquire(l)
  <2>1. EnsureStarted(connection, state, FALSE)
    BY <1>1 DEF Acquire
  <2>2. EnsurePc(connection, state) \in Pcs
    BY EnsurePcType DEF Pcs
  <2>3. /\ generation' \in 0..MaxGenerations
        /\ startPromise' \in 0..MaxGenerations
        /\ startPc' \in [Gen -> StartPcs]
        /\ state' \in States
    BY <2>1, EnsureStartedType
  <2>4. unsafeApprovalCount' \in Nat
    BY <1>1 DEF Acquire
  <2>5. QED  BY <1>1, <2>2, <2>3, <2>4 DEF Acquire
<1>2. CASE AcquireResolves(l)
  BY <1>2 DEF AcquireResolves, Pcs
<1>3. CASE AcquireRejects(l)
  BY <1>3, ReleaseRecordType DEF AcquireRejects, Pcs
<1>4. CASE Release(l)
  BY <1>4, ReleaseRecordType DEF Release, Pcs
<1>5. CASE Request(l)
  <2>1. EnsureStarted(connection, state, FALSE)
    BY <1>5 DEF Request
  <2>2. EnsurePc(connection, state) \in Pcs
    BY EnsurePcType DEF Pcs
  <2>3. /\ generation' \in 0..MaxGenerations
        /\ startPromise' \in 0..MaxGenerations
        /\ startPc' \in [Gen -> StartPcs]
        /\ state' \in States
    BY <2>1, EnsureStartedType
  <2>4. QED  BY <1>5, <2>2, <2>3 DEF Request
<1>6. QED  BY <1>1, <1>2, <1>3, <1>4, <1>5

LEMMA TypeEnsureAgain ==
    ASSUME TypeOK, NEW p \in Lease \cup {"request", "retry", "recovery"}, EnsureAgain(p)
    PROVE  TypeOK'
<1> USE DEF TypeOK, leaseVars, connVars, stopVars, localVars
<1>1. EnsureStarted(connection, state, p = "recovery")
  BY DEF EnsureAgain
<1>2. EnsurePc(connection, state) \in Pcs
  BY EnsurePcType DEF Pcs
<1>3. /\ generation' \in 0..MaxGenerations
      /\ startPromise' \in 0..MaxGenerations
      /\ startPc' \in [Gen -> StartPcs]
      /\ state' \in States
  <2>1. (p = "recovery") \in BOOLEAN
    OBVIOUS
  <2>2. QED  BY <1>1, <2>1, EnsureStartedType
<1>4. QED  BY <1>2, <1>3 DEF EnsureAgain

\* The connection a stop is asked for is never `undefined'.
LEMMA TypeRetry ==
    ASSUME TypeOK, RetryStep
    PROVE  TypeOK'
<1> USE DEF TypeOK, hostVars, leaseVars, connVars, stopVars, localVars
<1>1. ASSUME RetryProceeds
      PROVE  /\ restartAttempts' \in 0..1
             /\ state' \in States
             /\ generation' \in 0..MaxGenerations
             /\ startPromise' \in 0..MaxGenerations
             /\ startPc' \in [Gen -> StartPcs]
             /\ pc' \in [Proc -> Pcs]
             /\ stop' \in {NoStop} \cup [phase : StopPhases \ {"none"}, conn : Gen]
             /\ intentionalStop' \subseteq Gen
             /\ ready' \subseteq Gen
             /\ clientClosed' \subseteq Gen
  <2>1. CASE OwnsUnusable
    <3>1. connection \in Gen
      BY <2>1, HostAssumption DEF OwnsUnusable, Owned, Gen
    <3>2. /\ StopConnection(connection)
          /\ state' = StateOfStop(connection)
          /\ pc' = [pc EXCEPT !["retry"] = "stopping"]
          /\ UNCHANGED <<generation, startPromise, startPc, restartAttempts>>
      BY <1>1, <2>1 DEF RetryProceeds
    <3>3. pc' \in [Proc -> Pcs]
      BY <3>2 DEF Pcs
    <3>4. QED  BY <3>1, <3>2, <3>3, StopConnectionType
  <2>2. CASE ~OwnsUnusable
    <3>1. BreakerResets /\ UNCHANGED stopVars
      BY <1>1, <2>2 DEF RetryProceeds
    <3>2. QED  BY <3>1, BreakerResetsType
  <2>3. QED  BY <2>1, <2>2
<1>2. CASE Retry
  <2>1. CASE stop.phase # "none"
    BY <1>2, <2>1 DEF Retry, Pcs
  <2>2. CASE stop.phase = "none"
    BY <1>1, <1>2, <2>2 DEF Retry
  <2>3. QED  BY <2>1, <2>2
<1>3. CASE RetryContinues
  BY <1>1, <1>3 DEF RetryContinues
<1>4. CASE RetryStopped
  BY <1>4, BreakerResetsType DEF RetryStopped
<1>5. CASE RetrySettles
  BY <1>5 DEF RetrySettles, Pcs, States
<1>6. QED  BY <1>2, <1>3, <1>4, <1>5 DEF RetryStep

LEMMA TypeRecovery ==
    ASSUME TypeOK, RecoveryStep
    PROVE  TypeOK'
<1> USE DEF TypeOK, hostVars, leaseVars, connVars, stopVars, localVars
<1>1. ASSUME NEW g \in Gen, RestartForRecovery(g)
      PROVE  TypeOK'
  <2>1. StopConnection(g) /\ state' = StateOfStop(g) /\ g \in 0..MaxGenerations
    BY <1>1, HostAssumption DEF RestartForRecovery, Gen
  <2>2. QED  BY <1>1, <2>1, StopConnectionType DEF RestartForRecovery, Pcs
<1>2. CASE RecoveryStopped
  <2>1. CASE Usable(state) /\ ~RecoverySuperseded
    <3>1. /\ EnsureStarted(connection, state, TRUE)
          /\ restartAttempts' = 0
          /\ pc' = [pc EXCEPT !["recovery"] = EnsurePc(connection, state)]
      BY <1>2, <2>1 DEF RecoveryStopped
    <3>2. restartAttempts' \in 0..1
      BY <3>1
    <3>3. EnsurePc(connection, state) \in Pcs
      BY EnsurePcType DEF Pcs
    <3>4. pc' \in [Proc -> Pcs]
      BY <3>1, <3>3
    <3>5. /\ generation' \in 0..MaxGenerations
          /\ startPromise' \in 0..MaxGenerations
          /\ startPc' \in [Gen -> StartPcs]
          /\ state' \in States
      BY <3>1, EnsureStartedType
    <3>6. QED  BY <1>2, <3>2, <3>4, <3>5 DEF RecoveryStopped
  <2>2. CASE ~(Usable(state) /\ ~RecoverySuperseded)
    BY <1>2, <2>2 DEF RecoveryStopped, Pcs
  <2>3. QED  BY <2>1, <2>2
<1>3. CASE RecoverySettles
  <2>1. recoveryGeneration' \in 0..MaxGenerations
    BY <1>3, HostAssumption DEF RecoverySettles
  <2>2. idleTimer' \in BOOLEAN
    BY <1>3 DEF RecoverySettles
  <2>3. QED  BY <1>3, <2>1, <2>2 DEF RecoverySettles, Pcs
<1>4. QED  BY <1>1, <1>2, <1>3 DEF RecoveryStep

LEMMA TypeStops ==
    ASSUME TypeOK,
           (\E g \in Gen : AbortServerRequestGeneration(g)) \/ IdleTimerFires
    PROVE  TypeOK'
<1> USE DEF TypeOK, hostVars, leaseVars, connVars, stopVars, localVars
<1>1. ASSUME NEW g \in Gen, AbortServerRequestGeneration(g)
      PROVE  TypeOK'
  <2>1. StopConnection(g) /\ state' = StateOfStop(g)
    BY <1>1 DEF AbortServerRequestGeneration
  <2>2. QED  BY <1>1, <2>1, StopConnectionType DEF AbortServerRequestGeneration
<1>2. CASE IdleTimerFires
  <2>1. CASE ~disposed /\ leases = {} /\ connection # 0
    <3>1. connection \in Gen
      BY <2>1, HostAssumption DEF Gen
    <3>2. StopConnection(connection) /\ state' = StateOfStop(connection)
      BY <1>2, <2>1 DEF IdleTimerFires
    <3>3. QED  BY <1>2, <3>1, <3>2, StopConnectionType DEF IdleTimerFires
  <2>2. CASE ~(~disposed /\ leases = {} /\ connection # 0)
    BY <1>2, <2>2 DEF IdleTimerFires
  <2>3. QED  BY <2>1, <2>2
<1>3. QED  BY <1>1, <1>2

LEMMA TypeDispose ==
    ASSUME TypeOK, DisposeStep
    PROVE  TypeOK'
<1> USE DEF TypeOK, hostVars, leaseVars, connVars, stopVars, localVars
<1>1. CASE Dispose
  <2>1. /\ unsafeApprovalCount' \in Nat /\ leases' \subseteq Lease
        /\ idleTimer' \in BOOLEAN /\ disposed' \in BOOLEAN /\ state' \in States
    BY <1>1 DEF Dispose, States
  <2>2. pc' \in [Proc -> Pcs]
    BY <1>1 DEF Dispose, DisposePc, Pcs
  <2>3. CASE connection # 0
    <3>1. connection \in Gen /\ StopConnection(connection)
      BY <1>1, <2>3, HostAssumption DEF Gen, Dispose
    <3>2. QED  BY <1>1, <2>1, <2>2, <3>1, StopConnectionType DEF Dispose
  <2>4. CASE connection = 0
    BY <1>1, <2>1, <2>2, <2>4 DEF Dispose
  <2>5. QED  BY <2>3, <2>4
<1>2. CASE DisposeStopped
  BY <1>2 DEF DisposeStopped, DisposePc, Pcs
<1>3. CASE DisposeStarted
  <2>1. CASE connection \notin {0, disposeTarget}
    <3>1. connection \in Gen /\ StopConnection(connection)
      BY <1>3, <2>1, HostAssumption DEF Gen, DisposeStarted
    <3>2. pc' \in [Proc -> Pcs]
      BY <1>3, <2>1 DEF DisposeStarted, Pcs
    <3>3. QED  BY <1>3, <3>1, <3>2, StopConnectionType DEF DisposeStarted
  <2>2. CASE connection \in {0, disposeTarget}
    BY <1>3, <2>2 DEF DisposeStarted, Pcs
  <2>3. QED  BY <2>1, <2>2
<1>4. QED  BY <1>1, <1>2, <1>3 DEF DisposeStep

LEMMA TypeStart ==
    ASSUME TypeOK, StartStep
    PROVE  TypeOK'
<1> USE DEF TypeOK, hostVars, leaseVars, connVars, stopVars, localVars
<1> SUFFICES ASSUME NEW g \in Gen,
                    \/ SpawnSucceeds(g) \/ SpawnFails(g)
                    \/ SpawnUnpublished(g) \/ UnpublishedTerminates(g)
                    \/ InitializeReplies(g) \/ InitializedConfirmed(g)
                    \/ HandshakeFails(g) \/ StartRejects(g)
             PROVE  TypeOK'
  BY DEF StartStep
<1>0. g \in 0..MaxGenerations
  BY HostAssumption DEF Gen
<1>1. StoppedUnlessLatched \in States
  BY DEF StoppedUnlessLatched, States
<1>2. CASE SpawnSucceeds(g)
  BY <1>0, <1>2 DEF SpawnSucceeds, StartPcs
<1>3. CASE SpawnFails(g)
  BY <1>1, <1>3, StartSettlesType DEF SpawnFails
<1>4. CASE SpawnUnpublished(g)
  BY <1>4 DEF SpawnUnpublished, StartPcs
<1>5. CASE UnpublishedTerminates(g)
  BY <1>1, <1>5, StartSettlesType DEF UnpublishedTerminates
<1>6. CASE InitializeReplies(g)
  BY <1>6 DEF InitializeReplies, StartPcs
<1>7. CASE InitializedConfirmed(g)
  BY <1>7, StartSettlesType DEF InitializedConfirmed, States
<1>8. CASE HandshakeFails(g)
  BY <1>8, StopConnectionType DEF HandshakeFails, StartPcs
<1>9. CASE StartRejects(g)
  BY <1>1, <1>9, StartSettlesType DEF StartRejects
<1>10. QED  BY <1>2, <1>3, <1>4, <1>5, <1>6, <1>7, <1>8, <1>9

LEMMA TypeStop ==
    ASSUME TypeOK, StopStep
    PROVE  TypeOK'
<1> USE DEF TypeOK, hostVars, leaseVars, connVars, stopVars, localVars
<1>1. CASE StopConfirmed
  <2>1. stop.conn \in Gen /\ stop.phase # "none"
    BY <1>1 DEF StopConfirmed, StopResumes, NoStop
  <2>2. connection' \in 0..MaxGenerations
    BY <1>1, HostAssumption DEF StopConfirmed
  <2>3. stop' \in {NoStop} \cup [phase : StopPhases \ {"none"}, conn : Gen]
    BY <1>1, <2>1 DEF StopConfirmed, StopPhases, NoStop
  <2>4. state' \in States
    BY <1>1 DEF StopConfirmed, States
  <2>5. QED  BY <1>1, <2>1, <2>2, <2>3, <2>4 DEF StopConfirmed
<1>2. CASE StopSettles
  <2>1. /\ pc' \in [Proc -> Pcs]
        /\ startPc' \in [Gen -> StartPcs]
    <3> DEFINE ok == stop.phase = "settled"
    <3>1. ok \in BOOLEAN
      OBVIOUS
    <3>2. /\ pc' = [p \in Proc |-> WakeStop(pc[p], ok)]
          /\ startPc' = [g \in Gen |-> WakeStop(startPc[g], ok)]
      BY <1>2 DEF StopSettles
    <3> HIDE DEF ok
    <3>3. QED  BY <3>1, <3>2, WakeTypes
  <2>2. stop' \in {NoStop} \cup [phase : StopPhases \ {"none"}, conn : Gen]
    BY <1>2, HostAssumption DEF StopSettles
  <2>3. QED  BY <1>2, <2>1, <2>2 DEF StopSettles
<1>3. CASE GraceExpires
  <2>1. stop' \in {NoStop} \cup [phase : StopPhases \ {"none"}, conn : Gen]
    BY <1>3 DEF GraceExpires, StopPhases, NoStop
  <2>2. killRequested' \subseteq Gen
    BY <1>3 DEF GraceExpires, NoStop
  <2>3. QED  BY <1>3, <2>1, <2>2 DEF GraceExpires
<1>4. CASE KillGraceExpires
  <2>1. stop' \in {NoStop} \cup [phase : StopPhases \ {"none"}, conn : Gen]
    BY <1>4 DEF KillGraceExpires, StopPhases, NoStop
  <2>2. state' \in States
    BY <1>4 DEF KillGraceExpires, States
  <2>3. QED  BY <1>4, <2>1, <2>2 DEF KillGraceExpires
<1>5. QED  BY <1>1, <1>2, <1>3, <1>4 DEF StopStep

LEMMA TypeExit ==
    ASSUME TypeOK, ExitStep
    PROVE  TypeOK'
<1> USE DEF TypeOK, hostVars, leaseVars, connVars, stopVars, localVars
<1> SUFFICES ASSUME NEW g \in Gen,
                    \/ ChildExits(g) \/ StdioFails(g) \/ ProtocolError(g)
                    \/ ExitWaitConfirmed(g) \/ ExitWaitExpires(g)
                    \/ ExitRestartSettles(g)
             PROVE  TypeOK'
  BY DEF ExitStep
<1>1. CASE ChildExits(g)
  <2>1. CASE exitPc[g] \in {"waiting", "waitingStale"}
    BY <1>1, <2>1 DEF ChildExits
  <2>2. CASE exitPc[g] \notin {"waiting", "waitingStale"}
    <3>1. IsCurrent(g) \in BOOLEAN
      BY DEF IsCurrent
    <3>2. ExitHandled(g, IsCurrent(g))
      BY <1>1, <2>2 DEF ChildExits
    <3>3. QED  BY <1>1, <3>1, <3>2, ExitHandledType DEF ChildExits
  <2>3. QED  BY <2>1, <2>2
<1>2. CASE StdioFails(g)
  BY <1>2 DEF StdioFails, ExitPcs
<1>3. CASE ProtocolError(g)
  BY <1>3 DEF ProtocolError
<1>4. CASE ExitWaitConfirmed(g)
  <2>1. (exitPc[g] = "waiting") \in BOOLEAN
    OBVIOUS
  <2>2. ExitHandled(g, exitPc[g] = "waiting")
    BY <1>4 DEF ExitWaitConfirmed
  <2>3. QED  BY <1>4, <2>1, <2>2, ExitHandledType DEF ExitWaitConfirmed
<1>5. CASE ExitWaitExpires(g)
  BY <1>5 DEF ExitWaitExpires, ExitPcs, States
<1>6. CASE ExitRestartSettles(g)
  BY <1>6 DEF ExitRestartSettles, ExitPcs, States
<1>7. QED  BY <1>1, <1>2, <1>3, <1>4, <1>5, <1>6

LEMMA TypeStep == TypeOK /\ [Next]_vars => TypeOK'
<1> SUFFICES ASSUME TypeOK, [Next]_vars PROVE TypeOK'
  OBVIOUS
<1>1. CASE UNCHANGED vars
  BY <1>1 DEF TypeOK, vars, hostVars, leaseVars, connVars, stopVars, localVars
<1>2. CASE RequestSettles
  BY <1>2 DEF RequestSettles, TypeOK, Pcs, hostVars, leaseVars, connVars, stopVars, localVars
<1>3. QED
  BY <1>1, <1>2, TypeLease, TypeEnsureAgain, TypeRetry, TypeRecovery, TypeStops,
     TypeDispose, TypeStart, TypeStop, TypeExit DEF Next, LeaseStep

\* The host's variables keep their types in every behaviour, for every set of
\* leases and every bound on the generations.
THEOREM TypeInvariant == Spec => []TypeOK
<1>1. Init => TypeOK
  BY TypeInit
<1>2. TypeOK /\ [Next]_vars => TypeOK'
  BY TypeStep
<1>3. QED  BY <1>1, <1>2, PTL DEF Spec

-----------------------------------------------------------------------------
(* The approval count                                                      *)

\* A slot that is free holds no lease, so acquiring it counts it once.
CountInv ==
    /\ UnsafeCountExact
    /\ \A l \in leases : pc[l] # "idle"

LEMMA CountRelease ==
    ASSUME TypeOK, CountInv, NEW l \in Lease, ReleaseRecord(l),
           pc' = [pc EXCEPT ![l] = "idle"]
    PROVE  CountInv'
<1> DEFINE A == leases \cap ApprovalLease
<1>1. IsFiniteSet(A)
  BY HostAssumption, FS_Subset DEF TypeOK
<1>2. \A k \in leases' : pc'[k] # "idle"
  BY DEF TypeOK, CountInv, ReleaseRecord, Proc
<1>3. UnsafeCountExact'
  <2>1. leases' \cap ApprovalLease = A \ {l}
    BY DEF ReleaseRecord
  <2>2. CASE l \in A
    <3>1. Cardinality(A \ {l}) = Cardinality(A) - 1 /\ Cardinality(A) \in Nat
      BY <1>1, <2>2, FS_RemoveElement, FS_CardinalityType
    <3>2. Cardinality(A) > 0
      BY <1>1, <2>2, <3>1, FS_EmptySet
    <3> HIDE DEF A
    <3>3. unsafeApprovalCount' = unsafeApprovalCount - 1
      BY <2>2, <3>1, <3>2 DEF A, CountInv, UnsafeCountExact, ReleaseRecord, Uncounted
    <3>4. QED  BY <2>1, <3>1, <3>3 DEF A, CountInv, UnsafeCountExact
  <2>3. CASE l \notin A
    <3>1. A \ {l} = A
      BY <2>3
    <3>2. unsafeApprovalCount' = unsafeApprovalCount
      BY <2>3 DEF ReleaseRecord, Uncounted
    <3>3. QED  BY <2>1, <3>1, <3>2 DEF CountInv, UnsafeCountExact
  <2>4. QED  BY <2>2, <2>3
<1>4. QED  BY <1>2, <1>3 DEF CountInv

LEMMA CountAcquire ==
    ASSUME TypeOK, CountInv, NEW l \in Lease, Acquire(l)
    PROVE  CountInv'
<1> DEFINE A == leases \cap ApprovalLease
<1>1. IsFiniteSet(A) /\ l \notin A
  BY HostAssumption, FS_Subset DEF TypeOK, CountInv, Acquire
<1>2. EnsurePc(connection, state) # "idle"
  BY EnsurePcType
<1>3. \A k \in leases' : pc'[k] # "idle"
  BY <1>2 DEF TypeOK, CountInv, Acquire, Proc
<1>4. UnsafeCountExact'
  <2>1. Cardinality(A) \in Nat /\ Cardinality(A \cup {l}) = Cardinality(A) + 1
    BY <1>1, FS_AddElement, FS_CardinalityType
  <2>2. CASE l \in ApprovalLease
    <3>1. leases' \cap ApprovalLease = A \cup {l}
      BY <2>2 DEF Acquire
    <3>2. unsafeApprovalCount' = unsafeApprovalCount + 1
      BY <2>2 DEF Acquire
    <3>3. QED  BY <2>1, <3>1, <3>2 DEF CountInv, UnsafeCountExact
  <2>3. CASE l \notin ApprovalLease
    <3>1. leases' \cap ApprovalLease = A
      BY <2>3 DEF Acquire
    <3>2. unsafeApprovalCount' = unsafeApprovalCount
      BY <2>3 DEF Acquire, TypeOK
    <3>3. QED  BY <3>1, <3>2 DEF CountInv, UnsafeCountExact
  <2>4. QED  BY <2>2, <2>3
<1>5. QED  BY <1>3, <1>4 DEF CountInv

\* A step that touches no lease and frees no slot.
LEMMA CountQuiet ==
    ASSUME CountInv, UNCHANGED leaseVars,
           \A l \in leases : pc[l] # "idle" => pc'[l] # "idle"
    PROVE  CountInv'
BY DEF CountInv, UnsafeCountExact, leaseVars

LEMMA CountStep == TypeOK /\ CountInv /\ [Next]_vars => CountInv'
<1> SUFFICES ASSUME TypeOK, CountInv, [Next]_vars PROVE CountInv'
  OBVIOUS
<1> USE HostAssumption
<1>0. /\ Lease \subseteq Proc /\ leases \subseteq Lease
      /\ \A l \in Lease : l \notin Service
      /\ pc \in [Proc -> Pcs]
  BY DEF TypeOK, Proc
<1>1. CASE UNCHANGED vars
  BY <1>1 DEF CountInv, UnsafeCountExact, vars, leaseVars
<1>2. ASSUME NEW l \in Lease, AcquireResolves(l) \/ Request(l) PROVE CountInv'
  BY <1>0, <1>2, CountQuiet DEF AcquireResolves, Request, Service
<1>3. ASSUME NEW l \in Lease, AcquireRejects(l) \/ Release(l) PROVE CountInv'
  BY <1>3, CountRelease DEF AcquireRejects, Release
<1>4. ASSUME NEW p \in Lease \cup {"request", "retry", "recovery"}, EnsureAgain(p)
      PROVE  CountInv'
  <2>1. EnsurePc(connection, state) # "idle"
    BY EnsurePcType
  <2>2. QED  BY <1>0, <1>4, <2>1, CountQuiet DEF EnsureAgain
<1>5. CASE RequestSettles
  BY <1>0, <1>5, CountQuiet DEF RequestSettles, Service
<1>6. CASE RetryStep
  BY <1>0, <1>6, CountQuiet
  DEF RetryStep, Retry, RetryContinues, RetryStopped, RetrySettles, RetryProceeds,
      BreakerResets, Service
<1>7. CASE RecoveryStep
  BY <1>0, <1>7, CountQuiet
  DEF RecoveryStep, RestartForRecovery, RecoveryStopped, RecoverySettles, Service
<1>8. CASE (\E g \in Gen : AbortServerRequestGeneration(g)) \/ IdleTimerFires
  BY <1>8, CountQuiet DEF AbortServerRequestGeneration, IdleTimerFires
<1>9. CASE Dispose
  BY <1>9, FS_EmptySet DEF Dispose, CountInv, UnsafeCountExact
<1>10. CASE DisposeStopped \/ DisposeStarted
  BY <1>0, <1>10, CountQuiet DEF DisposeStopped, DisposeStarted, Service
<1>11. CASE StartStep
  <2>1. UNCHANGED leaseVars
    BY <1>11
    DEF StartStep, SpawnSucceeds, SpawnFails, SpawnUnpublished, leaseVars,
        UnpublishedTerminates, InitializeReplies, InitializedConfirmed,
        HandshakeFails, StartRejects
  <2>2. PICK g \in Gen : pc' = pc \/ StartSettles(g, TRUE) \/ StartSettles(g, FALSE)
    BY <1>11
    DEF StartStep, SpawnSucceeds, SpawnFails, SpawnUnpublished,
        UnpublishedTerminates, InitializeReplies, InitializedConfirmed,
        HandshakeFails, StartRejects
  <2>3. ASSUME NEW ok \in BOOLEAN, StartSettles(g, ok) PROVE CountInv'
    <3>1. \A p \in Proc : pc[p] # "idle" => pc'[p] # "idle"
      BY <2>3 DEF StartSettles, WakeStart
    <3>2. QED  BY <1>0, <2>1, <3>1, CountQuiet
  <2>4. CASE pc' = pc
    BY <2>1, <2>4, CountQuiet
  <2>5. QED  BY <2>2, <2>3, <2>4
<1>12. CASE StopStep
  <2>1. UNCHANGED leaseVars
    BY <1>12
    DEF StopStep, StopConfirmed, StopSettles, GraceExpires, KillGraceExpires, leaseVars
  <2>2. CASE StopSettles
    <3>1. \A p \in Proc : pc[p] # "idle" => pc'[p] # "idle"
      BY <2>2 DEF StopSettles, WakeStop
    <3>2. QED  BY <1>0, <2>1, <3>1, CountQuiet
  <2>3. CASE ~StopSettles
    <3>1. pc' = pc
      BY <1>12, <2>3 DEF StopStep, StopConfirmed, GraceExpires, KillGraceExpires
    <3>2. QED  BY <2>1, <3>1, CountQuiet
  <2>4. QED  BY <2>2, <2>3
<1>13. CASE ExitStep
  BY <1>13, CountQuiet
  DEF ExitStep, ChildExits, StdioFails, ProtocolError, ExitWaitConfirmed,
      ExitWaitExpires, ExitRestartSettles
<1>14. QED
  BY <1>1, <1>2, <1>3, <1>4, <1>5, <1>6, <1>7, <1>8, <1>9, <1>10, <1>11, <1>12,
     <1>13, CountAcquire DEF Next, LeaseStep, DisposeStep

\* The count that vetoes an automatic restart is exact in every behaviour, for
\* every finite set of leases: no race of rejected acquires, releases and
\* disposal drifts it.
THEOREM ApprovalCountIsExact == Spec => []UnsafeCountExact
<1>1. Init => CountInv
  BY FS_EmptySet DEF Init, CountInv, UnsafeCountExact
<1>2. TypeOK /\ CountInv /\ [Next]_vars => CountInv'
  BY CountStep
<1>3. CountInv => UnsafeCountExact
  BY DEF CountInv
<1>4. QED  BY <1>1, <1>2, <1>3, TypeInvariant, PTL DEF Spec

-----------------------------------------------------------------------------
(* Authority over the child                                                *)

\* The starts follow the generation number.
StartsInv ==
    /\ SingleStart
    /\ \A g \in Gen : startPc[g] = "none" <=> g > generation
    /\ \A g \in published : startPc[g] \notin {"none", "resolving", "terminating"}

\* A child that runs is owned and of the latest generation, so the handler of
\* its exit always finds it current.
OwnershipInv ==
    /\ \A g \in alive \cap published :
            connection = g /\ g \notin finalized /\ g = generation
    /\ finalized \subseteq published

\* A handler waits for the exit of the only process there is.
ExitWaitInv ==
    \A g \in Gen : /\ exitPc[g] # "waitingStale"
                   /\ exitPc[g] = "waiting" => /\ g \in published \cap clientClosed
                                               /\ alive \cap published \subseteq {g}

AuthorityInv == StartsInv /\ OwnershipInv /\ ExitWaitInv

\* A launch of ensureStarted numbers a new generation; nothing else changes the
\* starts.
LEMMA EnsureStartedStarts ==
    ASSUME TypeOK, StartsInv, published' = published,
           NEW c, NEW s, NEW r, EnsureStarted(c, s, r)
    PROVE  /\ StartsInv'
           /\ ~Launches(c, s) => generation' = generation /\ startPc' = startPc
<1> USE HostAssumption
<1>1. CASE Launches(c, s)
  <2>1. /\ generation + 1 \in Gen /\ generation' = generation + 1
        /\ startPromise' = generation + 1 /\ startPromise = 0
        /\ startPc' = [startPc EXCEPT ![generation + 1] = "resolving"]
        /\ generation \in Nat
    BY <1>1 DEF TypeOK, EnsureStarted, InBudget, Gen, Launches, MustLaunch
  <2>2. \A g \in Gen : startPc[g] \in {"none", "done"}
    BY <2>1 DEF StartsInv, SingleStart, Gen
  <2>3. SingleStart'
    BY <2>1, <2>2 DEF SingleStart, TypeOK
  <2>4. \A g \in Gen : startPc'[g] = "none" <=> g > generation'
    BY <2>1 DEF StartsInv, TypeOK, Gen
  <2>5. generation + 1 \notin published
    BY <2>1 DEF StartsInv
  <2>6. \A g \in published : startPc'[g] \notin {"none", "resolving", "terminating"}
    BY <2>1, <2>5 DEF StartsInv, TypeOK
  <2>7. QED  BY <1>1, <2>3, <2>4, <2>6 DEF StartsInv
<1>2. CASE ~Launches(c, s)
  BY <1>2 DEF EnsureStarted, StartsInv, SingleStart
<1>3. QED  BY <1>1, <1>2

\* A start advances after its process was published, stops it, or settles.
LEMMA StartAdvances ==
    ASSUME TypeOK, StartsInv, NEW g \in Gen, startPc[g] \notin {"none", "done"},
           generation' = generation, published' = published,
           NEW v \in {"confirming", "stopping", "done"},
           startPc' = [startPc EXCEPT ![g] = v],
           v # "done" => startPromise' = startPromise
    PROVE  StartsInv'
<1>1. startPc'[g] = v /\ \A h \in Gen : h # g => startPc'[h] = startPc[h]
  BY DEF TypeOK
<1>2. \A h \in Gen : h # g => startPc[h] \in {"none", "done"}
  BY DEF StartsInv, SingleStart
<1>3. g = generation /\ g = startPromise
  BY DEF StartsInv, SingleStart
<1>4. SingleStart'
  BY <1>1, <1>2, <1>3 DEF SingleStart
<1>5. \A h \in Gen : startPc'[h] = "none" <=> h > generation'
  BY <1>1 DEF StartsInv
<1>6. \A h \in published : startPc'[h] \notin {"none", "resolving", "terminating"}
  BY <1>1 DEF StartsInv, TypeOK
<1>7. QED  BY <1>4, <1>5, <1>6 DEF StartsInv

\* A step that neither starts, owns nor ends a process.
LEMMA AuthorityQuiet ==
    ASSUME AuthorityInv, clientClosed \subseteq clientClosed',
           UNCHANGED <<generation, startPromise, startPc, published, alive,
                       finalized, connection, exitPc>>
    PROVE  AuthorityInv'
BY DEF AuthorityInv, StartsInv, SingleStart, OwnershipInv, ExitWaitInv

\* Only a host that owns no process launches one.
LEMMA LaunchNeedsNoChild ==
    ASSUME TypeOK, AuthorityInv, NEW s, Launches(connection, s)
    PROVE  alive \cap published = {}
BY DEF TypeOK, Gen, AuthorityInv, OwnershipInv, Launches, Owned

\* A step that calls ensureStarted and touches no process.
LEMMA AuthorityLaunch ==
    ASSUME TypeOK, AuthorityInv, NEW s, NEW r, EnsureStarted(connection, s, r),
           clientClosed \subseteq clientClosed',
           UNCHANGED <<published, alive, finalized, connection, exitPc>>
    PROVE  AuthorityInv'
<1>1. StartsInv' /\ (~Launches(connection, s) => generation' = generation)
  BY EnsureStartedStarts DEF AuthorityInv
<1>2. OwnershipInv'
  <2>1. CASE Launches(connection, s)
    BY <2>1, LaunchNeedsNoChild DEF AuthorityInv, OwnershipInv
  <2>2. CASE ~Launches(connection, s)
    BY <1>1, <2>2 DEF AuthorityInv, OwnershipInv
  <2>3. QED  BY <2>1, <2>2
<1>3. ExitWaitInv'
  BY DEF AuthorityInv, ExitWaitInv
<1>4. QED  BY <1>1, <1>2, <1>3 DEF AuthorityInv

\* #stopConnection never reopens a client.
LEMMA StopCloses ==
    ASSUME NEW c, StopConnection(c)
    PROVE  clientClosed \subseteq clientClosed'
BY DEF StopConnection

LEMMA AuthorityLease ==
    ASSUME TypeOK, AuthorityInv, NEW l \in Lease,
           Acquire(l) \/ AcquireResolves(l) \/ AcquireRejects(l) \/ Release(l) \/ Request(l)
    PROVE  AuthorityInv'
<1> USE DEF hostVars, connVars, stopVars
<1>1. CASE Acquire(l)
  BY <1>1, AuthorityLaunch DEF Acquire
<1>2. CASE AcquireResolves(l)
  BY <1>2, AuthorityQuiet DEF AcquireResolves
<1>3. CASE AcquireRejects(l)
  BY <1>3, AuthorityQuiet DEF AcquireRejects
<1>4. CASE Release(l)
  BY <1>4, AuthorityQuiet DEF Release
<1>5. CASE Request(l)
  BY <1>5, AuthorityLaunch DEF Request
<1>6. QED  BY <1>1, <1>2, <1>3, <1>4, <1>5

LEMMA AuthorityEnsureAgain ==
    ASSUME TypeOK, AuthorityInv, NEW p, EnsureAgain(p)
    PROVE  AuthorityInv'
<1>1. PICK r : EnsureStarted(connection, state, r)
  BY DEF EnsureAgain
<1>2. QED  BY <1>1, AuthorityLaunch DEF EnsureAgain, connVars, stopVars

\* retry() stops what it owns or starts again; the breaker owns no process.
LEMMA AuthorityRetryProceeds ==
    ASSUME TypeOK, AuthorityInv, (BreakerResets /\ UNCHANGED stopVars) \/ RetryProceeds,
           UNCHANGED <<connVars, connection, exitPc>>
    PROVE  AuthorityInv'
<1>1. CASE BreakerResets /\ UNCHANGED stopVars
  <2> DEFINE s == IF state = "circuit-open" THEN "stopped" ELSE state
  <2>1. CASE leases = {}
    BY <1>1, <2>1, AuthorityQuiet DEF BreakerResets, connVars, stopVars
  <2>2. CASE leases # {}
    <3>1. EnsureStarted(connection, s, FALSE)
      BY <1>1, <2>2 DEF BreakerResets
    <3> HIDE DEF s
    <3>2. QED  BY <1>1, <3>1, AuthorityLaunch DEF connVars, stopVars
  <2>3. QED  BY <2>1, <2>2
<1>2. CASE OwnsUnusable /\ RetryProceeds
  BY <1>2, StopCloses, AuthorityQuiet DEF RetryProceeds, connVars
<1>3. QED  BY <1>1, <1>2 DEF RetryProceeds

LEMMA AuthorityRetry ==
    ASSUME TypeOK, AuthorityInv, RetryStep
    PROVE  AuthorityInv'
<1>1. CASE Retry
  <2>1. CASE stop.phase # "none"
    BY <1>1, <2>1, AuthorityQuiet DEF Retry, hostVars, connVars, stopVars
  <2>2. CASE stop.phase = "none"
    BY <1>1, <2>2, AuthorityRetryProceeds DEF Retry
  <2>3. QED  BY <2>1, <2>2
<1>2. CASE RetryContinues
  BY <1>2, AuthorityRetryProceeds DEF RetryContinues
<1>3. CASE RetryStopped
  BY <1>3, AuthorityRetryProceeds DEF RetryStopped
<1>4. CASE RetrySettles
  BY <1>4, AuthorityQuiet DEF RetrySettles, hostVars, connVars, stopVars
<1>5. QED  BY <1>1, <1>2, <1>3, <1>4 DEF RetryStep

LEMMA AuthorityRecovery ==
    ASSUME TypeOK, AuthorityInv, RecoveryStep
    PROVE  AuthorityInv'
<1> USE DEF hostVars, connVars
<1>1. ASSUME NEW g \in Gen, RestartForRecovery(g) PROVE AuthorityInv'
  BY <1>1, StopCloses, AuthorityQuiet DEF RestartForRecovery
<1>2. CASE RecoveryStopped
  <2>1. CASE Usable(state) /\ ~RecoverySuperseded
    BY <1>2, <2>1, AuthorityLaunch DEF RecoveryStopped, stopVars
  <2>2. CASE ~(Usable(state) /\ ~RecoverySuperseded)
    BY <1>2, <2>2, AuthorityQuiet DEF RecoveryStopped, stopVars
  <2>3. QED  BY <2>1, <2>2
<1>3. CASE RecoverySettles
  BY <1>3, AuthorityQuiet DEF RecoverySettles, stopVars
<1>4. QED  BY <1>1, <1>2, <1>3 DEF RecoveryStep

LEMMA AuthorityStops ==
    ASSUME TypeOK, AuthorityInv,
           \/ \E g \in Gen : AbortServerRequestGeneration(g)
           \/ IdleTimerFires
           \/ DisposeStep
    PROVE  AuthorityInv'
<1> USE DEF hostVars, connVars
<1>1. ASSUME NEW g \in Gen, AbortServerRequestGeneration(g) PROVE AuthorityInv'
  BY <1>1, StopCloses, AuthorityQuiet DEF AbortServerRequestGeneration
<1>2. ASSUME IdleTimerFires PROVE AuthorityInv'
  <2>1. clientClosed \subseteq clientClosed'
    BY <1>2, StopCloses DEF IdleTimerFires, stopVars
  <2>2. QED  BY <1>2, <2>1, AuthorityQuiet DEF IdleTimerFires
<1>3. ASSUME DisposeStep PROVE AuthorityInv'
  <2>1. clientClosed \subseteq clientClosed'
    BY <1>3, StopCloses
    DEF DisposeStep, Dispose, DisposeStopped, DisposeStarted, stopVars
  <2>2. QED
    BY <1>3, <2>1, AuthorityQuiet
    DEF DisposeStep, Dispose, DisposeStopped, DisposeStarted
<1>4. QED  BY <1>1, <1>2, <1>3

\* A settled start wakes those who await it, none of whom waits for an exit.
LEMMA WakeKeepsExitWaits ==
    ASSUME TypeOK, NEW g, NEW ok, StartSettles(g, ok)
    PROVE  \A h \in Gen : /\ exitPc'[h] = "waiting" => exitPc[h] = "waiting"
                          /\ exitPc'[h] = "waitingStale" => exitPc[h] = "waitingStale"
BY DEF TypeOK, StartSettles, WakeStart

\* A start settles without a published process appearing.
LEMMA AuthoritySettles ==
    ASSUME TypeOK, AuthorityInv, NEW g \in Gen, NEW ok,
           startPc[g] \notin {"none", "done"}, StartSettles(g, ok),
           alive' \subseteq alive,
           UNCHANGED <<generation, published, finalized, connection, clientClosed>>
    PROVE  AuthorityInv'
<1>1. StartsInv'
  <2>1. startPc' = [startPc EXCEPT ![g] = "done"]
    BY DEF StartSettles
  <2>2. QED  BY <2>1, StartAdvances DEF AuthorityInv
<1>2. OwnershipInv'
  BY DEF AuthorityInv, OwnershipInv
<1>3. ExitWaitInv'
  BY WakeKeepsExitWaits DEF AuthorityInv, ExitWaitInv
<1>4. QED  BY <1>1, <1>2, <1>3 DEF AuthorityInv

\* The spawn of a resolved start: nothing else runs, not even a process whose
\* exit is awaited, since its generation would be this one.
LEMMA AuthoritySpawn ==
    ASSUME TypeOK, AuthorityInv, NEW g \in Gen, SpawnSucceeds(g)
    PROVE  AuthorityInv'
<1>1. /\ g = generation /\ g = startPromise /\ g \notin published
      /\ alive' = alive \cup {g} /\ published' = published \cup {g}
      /\ connection' = g /\ generation' = generation /\ startPromise' = startPromise
      /\ startPc' = [startPc EXCEPT ![g] = "initializing"]
      /\ finalized' = finalized /\ exitPc' = exitPc /\ clientClosed' = clientClosed
  BY DEF SpawnSucceeds, AuthorityInv, StartsInv, SingleStart, stopVars
<1>2. alive \cap published = {}
  BY <1>1 DEF AuthorityInv, OwnershipInv
<1>3. StartsInv'
  <2>0. startPc[g] = "resolving" /\ \A h \in Gen : h # g => startPc'[h] = startPc[h]
    BY <1>1 DEF SpawnSucceeds, TypeOK
  <2>1. SingleStart'
    BY <1>1, <2>0 DEF AuthorityInv, StartsInv, SingleStart
  <2>2. \A h \in Gen : startPc'[h] = "none" <=> h > generation'
    <3>1. startPc'[g] # "none" /\ startPc[g] # "none"
      BY <1>1, <2>0 DEF TypeOK
    <3>2. QED  BY <1>1, <2>0, <3>1 DEF AuthorityInv, StartsInv
  <2>3. \A h \in published' : startPc'[h] \notin {"none", "resolving", "terminating"}
    BY <1>1 DEF AuthorityInv, StartsInv, TypeOK
  <2>4. QED  BY <2>1, <2>2, <2>3 DEF StartsInv
<1>4. OwnershipInv'
  BY <1>1, <1>2 DEF AuthorityInv, OwnershipInv
<1>5. ExitWaitInv'
  <2>1. \A h \in Gen : exitPc[h] # "waiting"
    BY <1>2 DEF SpawnSucceeds, Quiescent, Exited, AuthorityInv, ExitWaitInv
  <2>2. QED  BY <1>1, <2>1 DEF AuthorityInv, ExitWaitInv
<1>6. QED  BY <1>3, <1>4, <1>5 DEF AuthorityInv

LEMMA AuthorityStart ==
    ASSUME TypeOK, AuthorityInv, StartStep
    PROVE  AuthorityInv'
<1> USE DEF connVars, stopVars
<1> SUFFICES ASSUME NEW g \in Gen,
                    \/ SpawnSucceeds(g) \/ SpawnFails(g)
                    \/ SpawnUnpublished(g) \/ UnpublishedTerminates(g)
                    \/ InitializeReplies(g) \/ InitializedConfirmed(g)
                    \/ HandshakeFails(g) \/ StartRejects(g)
             PROVE  AuthorityInv'
  BY DEF StartStep
<1>1. CASE SpawnSucceeds(g)
  BY <1>1, AuthoritySpawn
<1>2. CASE SpawnFails(g)
  BY <1>2, AuthoritySettles DEF SpawnFails
<1>3. CASE SpawnUnpublished(g)
  <2>1. /\ g \notin published /\ alive' = alive \cup {g}
        /\ startPc' = [startPc EXCEPT ![g] = "terminating"]
        /\ startPc[g] = "resolving"
        /\ UNCHANGED <<generation, startPromise, published, finalized, connection,
                       exitPc, clientClosed>>
    BY <1>3 DEF SpawnUnpublished, AuthorityInv, StartsInv
  <2>2. StartsInv'
    <3>1. SingleStart'
      BY <2>1 DEF AuthorityInv, StartsInv, SingleStart, TypeOK
    <3>2. \A h \in Gen : startPc'[h] = "none" <=> h > generation'
      BY <2>1 DEF AuthorityInv, StartsInv, TypeOK
    <3>3. \A h \in published : startPc'[h] \notin {"none", "resolving", "terminating"}
      BY <2>1 DEF AuthorityInv, StartsInv, TypeOK
    <3>4. QED  BY <2>1, <3>1, <3>2, <3>3 DEF StartsInv
  <2>3. OwnershipInv' /\ ExitWaitInv'
    BY <2>1 DEF AuthorityInv, OwnershipInv, ExitWaitInv
  <2>4. QED  BY <2>2, <2>3 DEF AuthorityInv
<1>4. CASE UnpublishedTerminates(g)
  <2>1. alive' \subseteq alive
    BY <1>4 DEF UnpublishedTerminates
  <2>2. QED  BY <1>4, <2>1, AuthoritySettles DEF UnpublishedTerminates
<1>5. CASE InitializeReplies(g)
  <2>1. StartsInv'
    BY <1>5, StartAdvances DEF InitializeReplies, AuthorityInv
  <2>2. OwnershipInv' /\ ExitWaitInv'
    BY <1>5 DEF InitializeReplies, AuthorityInv, OwnershipInv, ExitWaitInv
  <2>3. QED  BY <2>1, <2>2 DEF AuthorityInv
<1>6. CASE InitializedConfirmed(g)
  BY <1>6, AuthoritySettles DEF InitializedConfirmed
<1>7. CASE HandshakeFails(g)
  <2>1. StartsInv'
    BY <1>7, StartAdvances DEF HandshakeFails, AuthorityInv
  <2>2. clientClosed \subseteq clientClosed'
    BY <1>7, StopCloses DEF HandshakeFails
  <2>3. OwnershipInv' /\ ExitWaitInv'
    BY <1>7, <2>2 DEF HandshakeFails, AuthorityInv, OwnershipInv, ExitWaitInv
  <2>4. QED  BY <2>1, <2>3 DEF AuthorityInv
<1>8. CASE StartRejects(g)
  BY <1>8, AuthoritySettles DEF StartRejects
<1>9. QED  BY <1>1, <1>2, <1>3, <1>4, <1>5, <1>6, <1>7, <1>8

LEMMA AuthorityStop ==
    ASSUME TypeOK, AuthorityInv, StopStep
    PROVE  AuthorityInv'
<1>1. CASE StopConfirmed
  <2>1. Exited(stop.conn)
    BY <1>1 DEF StopConfirmed, StopResumes
  <2>2. /\ finalized' = finalized \cup {stop.conn}
        /\ connection' = IF connection = stop.conn THEN 0 ELSE connection
        /\ UNCHANGED <<generation, startPromise, startPc, published, alive, exitPc,
                       clientClosed>>
    BY <1>1 DEF StopConfirmed
  <2>3. OwnershipInv'
    BY <2>1, <2>2 DEF AuthorityInv, OwnershipInv, Exited
  <2>4. StartsInv' /\ ExitWaitInv'
    BY <2>2 DEF AuthorityInv, StartsInv, SingleStart, ExitWaitInv
  <2>5. QED  BY <2>3, <2>4 DEF AuthorityInv
<1>2. CASE GraceExpires \/ KillGraceExpires
  BY <1>2, AuthorityQuiet DEF GraceExpires, KillGraceExpires, hostVars, connVars
<1>3. CASE StopSettles
  <2>1. \A g \in Gen :
            /\ startPc'[g] \in {"none", "resolving", "terminating", "done"}
                    <=> startPc[g] \in {"none", "resolving", "terminating", "done"}
            /\ startPc[g] \in {"none", "resolving", "terminating", "done"}
                    => startPc'[g] = startPc[g]
    BY <1>3 DEF StopSettles, WakeStop, TypeOK, StartPcs
  <2>2. UNCHANGED <<generation, startPromise, published, alive, finalized, connection,
                    exitPc, clientClosed>>
    BY <1>3 DEF StopSettles, connVars
  <2>3. StartsInv'
    BY <2>1, <2>2 DEF AuthorityInv, StartsInv, SingleStart, TypeOK
  <2>4. OwnershipInv' /\ ExitWaitInv'
    BY <2>2 DEF AuthorityInv, OwnershipInv, ExitWaitInv
  <2>5. QED  BY <2>3, <2>4 DEF AuthorityInv
<1>4. QED  BY <1>1, <1>2, <1>3 DEF StopStep

\* The exit of the only process is handled, perhaps by a restart.
LEMMA AuthorityExitHandled ==
    ASSUME TypeOK, AuthorityInv, NEW g \in published, NEW b, ExitHandled(g, b),
           published' = published, alive' \subseteq alive, g \notin alive',
           alive \cap published \subseteq {g}
    PROVE  AuthorityInv'
<1>1. alive' \cap published = {}
  OBVIOUS
<1>2. OwnershipInv'
  BY <1>1 DEF AuthorityInv, OwnershipInv, ExitHandled
<1>3. StartsInv'
  <2>1. CASE b /\ RestartsAfterCrash(g)
    <3>1. EnsureStarted(0, state, TRUE)
      BY <2>1 DEF ExitHandled
    <3>2. QED  BY <3>1, EnsureStartedStarts DEF AuthorityInv
  <2>2. CASE ~(b /\ RestartsAfterCrash(g))
    BY <2>2 DEF ExitHandled, AuthorityInv, StartsInv, SingleStart
  <2>3. QED  BY <2>1, <2>2
<1>4. ExitWaitInv'
  <2>1. \A h \in Gen : exitPc'[h] \in {"waiting", "waitingStale"} => exitPc'[h] = exitPc[h]
    <3>1. EnsurePc(0, state) \notin {"waiting", "waitingStale"}
      BY EnsurePcType
    <3>2. QED  BY <3>1 DEF ExitHandled, TypeOK
  <2>2. clientClosed \subseteq clientClosed'
    BY DEF ExitHandled
  <2>3. QED  BY <1>1, <2>1, <2>2 DEF AuthorityInv, ExitWaitInv
<1>5. QED  BY <1>2, <1>3, <1>4 DEF AuthorityInv

LEMMA AuthorityExit ==
    ASSUME TypeOK, AuthorityInv, ExitStep
    PROVE  AuthorityInv'
<1> USE DEF hostVars, connVars, stopVars
<1> SUFFICES ASSUME NEW g \in Gen,
                    \/ ChildExits(g) \/ StdioFails(g) \/ ProtocolError(g)
                    \/ ExitWaitConfirmed(g) \/ ExitWaitExpires(g)
                    \/ ExitRestartSettles(g)
             PROVE  AuthorityInv'
  BY DEF ExitStep
<1>0. g \in alive \cap published => alive \cap published \subseteq {g} /\ IsCurrent(g)
  BY DEF AuthorityInv, OwnershipInv, IsCurrent
<1>1. CASE ChildExits(g)
  <2>1. CASE exitPc[g] \in {"waiting", "waitingStale"}
    <3>1. /\ published' = published /\ alive' = alive \ {g}
          /\ UNCHANGED <<generation, startPromise, startPc, finalized, connection,
                         exitPc, clientClosed>>
      BY <1>1, <2>1 DEF ChildExits
    <3>2. QED
      BY <3>1 DEF AuthorityInv, StartsInv, SingleStart, OwnershipInv, ExitWaitInv
  <2>2. CASE exitPc[g] \notin {"waiting", "waitingStale"}
    BY <1>0, <1>1, <2>2, AuthorityExitHandled DEF ChildExits
  <2>3. QED  BY <2>1, <2>2
<1>2. CASE StdioFails(g)
  <2>1. /\ exitPc' = [exitPc EXCEPT ![g] = "waiting"]
        /\ clientClosed' = clientClosed \cup {g}
        /\ UNCHANGED <<generation, startPromise, startPc, published, alive, finalized,
                       connection>>
    BY <1>0, <1>2 DEF StdioFails
  <2>2. StartsInv' /\ OwnershipInv'
    BY <2>1 DEF AuthorityInv, StartsInv, SingleStart, OwnershipInv
  <2>3. ExitWaitInv'
    BY <1>0, <1>2, <2>1 DEF AuthorityInv, ExitWaitInv, StdioFails, TypeOK
  <2>4. QED  BY <2>2, <2>3 DEF AuthorityInv
<1>3. CASE ProtocolError(g)
  BY <1>3, AuthorityQuiet DEF ProtocolError
<1>4. CASE ExitWaitConfirmed(g)
  <2>1. g \in published /\ g \notin alive /\ alive \cap published \subseteq {g}
    BY <1>4 DEF ExitWaitConfirmed, Exited, AuthorityInv, ExitWaitInv
  <2>2. PICK b \in BOOLEAN : ExitHandled(g, b)
    <3>1. (exitPc[g] = "waiting") \in BOOLEAN
      OBVIOUS
    <3>2. ExitHandled(g, exitPc[g] = "waiting")
      BY <1>4 DEF ExitWaitConfirmed
    <3>3. QED  BY <3>1, <3>2
  <2>3. published' = published /\ alive' = alive
    BY <1>4 DEF ExitWaitConfirmed
  <2>4. QED  BY <2>1, <2>2, <2>3, AuthorityExitHandled
<1>5. CASE ExitWaitExpires(g) \/ ExitRestartSettles(g)
  <2>1. /\ exitPc' = [exitPc EXCEPT ![g] = "none"]
        /\ UNCHANGED <<generation, startPromise, startPc, published, alive, finalized,
                       connection, clientClosed>>
    BY <1>5 DEF ExitWaitExpires, ExitRestartSettles
  <2>2. QED
    BY <2>1 DEF AuthorityInv, StartsInv, SingleStart, OwnershipInv, ExitWaitInv, TypeOK
<1>6. QED  BY <1>1, <1>2, <1>3, <1>4, <1>5

LEMMA AuthorityStep == TypeOK /\ AuthorityInv /\ [Next]_vars => AuthorityInv'
<1> SUFFICES ASSUME TypeOK, AuthorityInv, [Next]_vars PROVE AuthorityInv'
  OBVIOUS
<1>1. CASE UNCHANGED vars
  BY <1>1, AuthorityQuiet DEF vars, hostVars, connVars, stopVars
<1>2. CASE RequestSettles
  BY <1>2, AuthorityQuiet DEF RequestSettles, hostVars, connVars, stopVars
<1>3. QED
  BY <1>1, <1>2, AuthorityLease, AuthorityEnsureAgain, AuthorityRetry,
     AuthorityRecovery, AuthorityStops, AuthorityStart, AuthorityStop, AuthorityExit
  DEF Next, LeaseStep

LEMMA AuthorityInvariant == Spec => []AuthorityInv
<1>1. Init => AuthorityInv
  BY HostAssumption DEF Init, AuthorityInv, StartsInv, SingleStart, OwnershipInv, ExitWaitInv, Gen
<1>2. TypeOK /\ AuthorityInv /\ [Next]_vars => AuthorityInv'
  BY AuthorityStep
<1>3. QED  BY <1>1, <1>2, TypeInvariant, PTL DEF Spec

\* Whatever fails, a process that runs is the one the host owns.
THEOREM ChildIsOwned == Spec => []ChildAuthority
<1>1. AuthorityInv => ChildAuthority
  BY DEF AuthorityInv, OwnershipInv, ChildAuthority
<1>2. QED  BY <1>1, AuthorityInvariant, PTL

\* Starts never overlap, for every number of generations.
THEOREM StartsAreSingle == Spec => []SingleStart
<1>1. AuthorityInv => SingleStart
  BY DEF AuthorityInv, StartsInv
<1>2. QED  BY <1>1, AuthorityInvariant, PTL

-----------------------------------------------------------------------------
(* Service                                                                 *)

DisposedInv == disposed => state = "disposed"

\* A handshake whose client was not shut down talks to a running process.
HandshakeInv ==
    \A g \in Gen : startPc[g] \in {"initializing", "confirming"} /\ g \notin clientClosed
                        => g \in alive \cap published

\* The connection and the stop that is under way are of the latest generation.
StopInv ==
    /\ connection \in {0, generation} /\ connection \notin finalized
    /\ stop.phase # "none" => stop.conn = generation
    /\ stop.phase \in {"grace", "killGrace"} => stop.conn \in clientClosed
    /\ \A g \in Gen : startPc[g] \in {"resolving", "terminating"}
                        => connection = 0 /\ stop.phase = "none"

ServingInv == ReadyMeansServing /\ DisposedInv /\ HandshakeInv /\ StopInv

\* What the preservation of ServingInv starts from.
HostInv == TypeOK /\ AuthorityInv /\ ServingInv

\* A step that changes nothing ServingInv reads but closes clients.
LEMMA ServingQuiet ==
    ASSUME HostInv, clientClosed \subseteq clientClosed',
           UNCHANGED <<state, generation, startPromise, startPc, connection, stop, ready,
                       finalized, alive, published, disposed>>
    PROVE  ServingInv'
<1> USE DEF HostInv, ServingInv
<1>1. ReadyMeansServing'
  BY DEF ReadyMeansServing
<1>2. DisposedInv' /\ HandshakeInv' /\ StopInv'
  BY DEF DisposedInv, HandshakeInv, StopInv
<1>3. QED  BY <1>1, <1>2

\* A step that only leaves or avoids the state `ready'.
LEMMA ServingLeaves ==
    ASSUME HostInv, state' = "ready" => state = "ready",
           disposed' => state' = "disposed",
           clientClosed' = clientClosed,
           UNCHANGED <<generation, startPromise, startPc, connection, stop, ready,
                       finalized, alive, published>>
    PROVE  ServingInv'
<1> USE DEF HostInv, ServingInv
<1>1. ReadyMeansServing'
  BY DEF ReadyMeansServing
<1>2. DisposedInv' /\ HandshakeInv' /\ StopInv'
  BY DEF DisposedInv, HandshakeInv, StopInv
<1>3. QED  BY <1>1, <1>2

\* ensureStarted leaves `ready' when it launches, and launches only a host that
\* has neither a connection nor a stop.
LEMMA ServingLaunch ==
    ASSUME HostInv, NEW s, NEW r, EnsureStarted(connection, s, r),
           s = "ready" => state = "ready", disposed => s = "disposed",
           UNCHANGED <<connection, stopVars, finalized, alive, published, disposed>>
    PROVE  ServingInv'
<1> USE HostAssumption DEF HostInv, ServingInv, stopVars
<1>1. CASE Launches(connection, s)
  <2>1. /\ generation' = generation + 1 /\ startPromise' = generation + 1
        /\ startPc' = [startPc EXCEPT ![generation + 1] = "resolving"]
        /\ state' \in {"starting", "restarting"} /\ ~disposed
        /\ generation + 1 \in Gen
    BY <1>1 DEF EnsureStarted, Launches, MustLaunch, Usable, TypeOK, InBudget, Gen
  <2>2. connection = 0 /\ stop.phase = "none"
    BY <1>1 DEF Launches, MustLaunch, Owned, StopInv
  <2>3. HandshakeInv'
    BY <2>1 DEF HandshakeInv, TypeOK
  <2>4. StopInv'
    BY <2>1, <2>2 DEF StopInv
  <2>5. QED  BY <2>1, <2>3, <2>4 DEF ReadyMeansServing, DisposedInv
<1>2. CASE ~Launches(connection, s)
  <2>1. /\ state' \in {s, "circuit-open"}
        /\ disposed => state' = s
        /\ UNCHANGED <<generation, startPromise, startPc>>
    BY <1>2 DEF EnsureStarted, MustLaunch, Usable
  <2>2. QED  BY <2>1, ServingLeaves
<1>3. QED  BY <1>1, <1>2

\* #stopConnection of the current connection leaves `ready' with it.
LEMMA ServingStops ==
    ASSUME HostInv, connection # 0, StopConnection(connection),
           \/ state' = StateOfStop(connection) /\ disposed' = disposed
           \/ state' = "disposed",
           UNCHANGED <<generation, startPromise, startPc, connection, finalized, alive,
                       published>>
    PROVE  ServingInv'
<1> USE DEF HostInv, ServingInv
<1>1. connection = generation /\ connection \notin finalized
  BY DEF StopInv
<1>2. ReadyMeansServing'
  <2>1. state' # "ready"
    BY <1>1 DEF ReadyMeansServing, StateOfStop, StopBegins, Usable, DisposedInv
  <2>2. QED  BY <2>1 DEF ReadyMeansServing
<1>3. DisposedInv'
  BY DEF DisposedInv, StateOfStop, Usable
<1>4. HandshakeInv'
  BY StopCloses DEF HandshakeInv
<1>5. StopInv'
  <2>1. CASE StopBegins(connection)
    BY <1>1, <2>1 DEF StopInv, StopConnection
  <2>2. CASE ~StopBegins(connection)
    BY <1>1, <2>2 DEF StopInv, StopConnection, StopBegins
  <2>3. QED  BY <2>1, <2>2
<1>6. QED  BY <1>2, <1>3, <1>4, <1>5

LEMMA ServingLease ==
    ASSUME HostInv, NEW l \in Lease,
           Acquire(l) \/ AcquireResolves(l) \/ AcquireRejects(l) \/ Release(l) \/ Request(l)
    PROVE  ServingInv'
<1> USE DEF hostVars, connVars
<1>0. disposed => state = "disposed"
  BY DEF HostInv, ServingInv, DisposedInv
<1>1. CASE Acquire(l)
  BY <1>0, <1>1, ServingLaunch DEF Acquire
<1>2. CASE AcquireResolves(l)
  BY <1>2, ServingQuiet DEF AcquireResolves, stopVars
<1>3. CASE AcquireRejects(l)
  BY <1>3, ServingQuiet DEF AcquireRejects, stopVars
<1>4. CASE Release(l)
  BY <1>4, ServingQuiet DEF Release, stopVars
<1>5. CASE Request(l)
  BY <1>0, <1>5, ServingLaunch DEF Request
<1>6. QED  BY <1>1, <1>2, <1>3, <1>4, <1>5

LEMMA ServingEnsureAgain ==
    ASSUME HostInv, NEW p, EnsureAgain(p)
    PROVE  ServingInv'
<1>0. disposed => state = "disposed"
  BY DEF HostInv, ServingInv, DisposedInv
<1>1. PICK r : EnsureStarted(connection, state, r)
  BY DEF EnsureAgain
<1>2. QED  BY <1>0, <1>1, ServingLaunch DEF EnsureAgain, connVars

LEMMA ServingBreakerResets ==
    ASSUME HostInv, BreakerResets,
           UNCHANGED <<connVars, stopVars, connection, disposed>>
    PROVE  ServingInv'
<1> DEFINE s == IF state = "circuit-open" THEN "stopped" ELSE state
<1>0. disposed => s = "disposed"
  BY DEF HostInv, ServingInv, DisposedInv
<1>1. CASE leases = {}
  <2>1. state' = s /\ UNCHANGED <<generation, startPromise, startPc>>
    BY <1>1 DEF BreakerResets
  <2>2. QED  BY <1>0, <2>1, ServingLeaves DEF connVars, stopVars
<1>2. CASE leases # {}
  <2>1. EnsureStarted(connection, s, FALSE)
    BY <1>2 DEF BreakerResets
  <2>2. s = "ready" => state = "ready"
    OBVIOUS
  <2> HIDE DEF s
  <2>3. QED  BY <1>0, <2>1, <2>2, ServingLaunch DEF connVars
<1>3. QED  BY <1>1, <1>2

LEMMA ServingRetryProceeds ==
    ASSUME HostInv, RetryProceeds, UNCHANGED <<connVars, connection, disposed>>
    PROVE  ServingInv'
<1>1. CASE OwnsUnusable
  <2>1. connection # 0
    BY <1>1 DEF OwnsUnusable, Owned
  <2>2. QED  BY <1>1, <2>1, ServingStops DEF RetryProceeds, connVars
<1>2. CASE ~OwnsUnusable
  BY <1>2, ServingBreakerResets DEF RetryProceeds
<1>3. QED  BY <1>1, <1>2

LEMMA ServingRetry ==
    ASSUME HostInv, RetryStep
    PROVE  ServingInv'
<1>1. CASE Retry
  <2>1. CASE stop.phase # "none"
    BY <1>1, <2>1, ServingQuiet DEF Retry, hostVars, connVars, stopVars
  <2>2. CASE stop.phase = "none"
    BY <1>1, <2>2, ServingRetryProceeds DEF Retry
  <2>3. QED  BY <2>1, <2>2
<1>2. CASE RetryContinues
  BY <1>2, ServingRetryProceeds DEF RetryContinues
<1>3. CASE RetryStopped
  BY <1>3, ServingBreakerResets DEF RetryStopped
<1>4. CASE RetrySettles
  BY <1>4, ServingLeaves
  DEF RetrySettles, connVars, stopVars, HostInv, ServingInv, DisposedInv
<1>5. QED  BY <1>1, <1>2, <1>3, <1>4 DEF RetryStep

LEMMA ServingRecovery ==
    ASSUME HostInv, RecoveryStep
    PROVE  ServingInv'
<1> USE DEF hostVars, connVars
<1>1. ASSUME NEW g \in Gen, RestartForRecovery(g) PROVE ServingInv'
  BY <1>1, ServingStops DEF RestartForRecovery, ServesGeneration, Gen
<1>2. CASE RecoveryStopped
  <2>1. CASE Usable(state) /\ ~RecoverySuperseded
    BY <1>2, <2>1, ServingLaunch DEF RecoveryStopped, Usable
  <2>2. CASE ~(Usable(state) /\ ~RecoverySuperseded)
    BY <1>2, <2>2, ServingQuiet DEF RecoveryStopped, stopVars
  <2>3. QED  BY <2>1, <2>2
<1>3. CASE RecoverySettles
  BY <1>3, ServingQuiet DEF RecoverySettles, stopVars
<1>4. QED  BY <1>1, <1>2, <1>3 DEF RecoveryStep

LEMMA ServingStopCalls ==
    ASSUME HostInv,
           \/ \E g \in Gen : AbortServerRequestGeneration(g)
           \/ IdleTimerFires
           \/ DisposeStep
    PROVE  ServingInv'
<1> USE DEF hostVars, connVars
<1>1. ASSUME NEW g \in Gen, AbortServerRequestGeneration(g) PROVE ServingInv'
  BY <1>1, ServingStops DEF AbortServerRequestGeneration, ServesGeneration, Gen
<1>2. ASSUME IdleTimerFires PROVE ServingInv'
  <2>1. CASE ~disposed /\ leases = {} /\ connection # 0
    BY <1>2, <2>1, ServingStops DEF IdleTimerFires
  <2>2. CASE ~(~disposed /\ leases = {} /\ connection # 0)
    BY <1>2, <2>2, ServingQuiet DEF IdleTimerFires, stopVars
  <2>3. QED  BY <2>1, <2>2
<1>3. ASSUME Dispose PROVE ServingInv'
  <2>1. CASE connection # 0
    BY <1>3, <2>1, ServingStops DEF Dispose
  <2>2. CASE connection = 0
    BY <1>3, <2>2, ServingLeaves DEF Dispose, stopVars
  <2>3. QED  BY <2>1, <2>2
<1>4. ASSUME DisposeStopped PROVE ServingInv'
  BY <1>4, ServingQuiet DEF DisposeStopped, stopVars
<1>5. ASSUME DisposeStarted PROVE ServingInv'
  <2>1. CASE connection \notin {0, disposeTarget}
    BY <1>5, <2>1, ServingStops DEF DisposeStarted
  <2>2. CASE connection \in {0, disposeTarget}
    BY <1>5, <2>2, ServingQuiet DEF DisposeStarted, stopVars
  <2>3. QED  BY <2>1, <2>2
<1>6. QED  BY <1>1, <1>2, <1>3, <1>4, <1>5 DEF DisposeStep

\* While a start is under way the host is not `ready'.
LEMMA StartingIsNotReady ==
    ASSUME HostInv, NEW g \in Gen, startPc[g] \notin {"none", "done"}
    PROVE  state # "ready" /\ g = generation /\ g = startPromise
<1>1. g = generation /\ g = startPromise
  BY DEF HostInv, AuthorityInv, StartsInv, SingleStart
<1>2. QED  BY <1>1 DEF HostInv, ServingInv, ReadyMeansServing, Gen

\* A start that fails leaves the host as it was, not `ready'.
LEMMA ServingStartFails ==
    ASSUME HostInv, NEW g \in Gen, startPc[g] \notin {"none", "done"},
           StartSettles(g, FALSE),
           \/ state' = state \/ state' = StoppedUnlessLatched,
           alive' \cap published = alive \cap published,
           UNCHANGED <<generation, published, finalized, stopVars, connection, disposed>>
    PROVE  ServingInv'
<1> USE DEF HostInv, ServingInv, stopVars
<1>1. state # "ready"
  BY StartingIsNotReady
<1>2. ReadyMeansServing' /\ DisposedInv'
  BY <1>1 DEF ReadyMeansServing, DisposedInv, StoppedUnlessLatched, Usable
<1>3. startPc' = [startPc EXCEPT ![g] = "done"]
  BY DEF StartSettles
<1>4. HandshakeInv'
  BY <1>3 DEF HandshakeInv, TypeOK
<1>5. StopInv'
  BY <1>3 DEF StopInv, TypeOK
<1>6. QED  BY <1>2, <1>4, <1>5

LEMMA ServingStart ==
    ASSUME HostInv, StartStep
    PROVE  ServingInv'
<1> USE DEF connVars
<1> SUFFICES ASSUME NEW g \in Gen,
                    \/ SpawnSucceeds(g) \/ SpawnFails(g)
                    \/ SpawnUnpublished(g) \/ UnpublishedTerminates(g)
                    \/ InitializeReplies(g) \/ InitializedConfirmed(g)
                    \/ HandshakeFails(g) \/ StartRejects(g)
             PROVE  ServingInv'
  BY DEF StartStep
<1>0. startPc[g] \notin {"none", "done"}
  BY DEF SpawnSucceeds, SpawnFails, SpawnUnpublished, UnpublishedTerminates,
         InitializeReplies, InitializedConfirmed, HandshakeFails, StartRejects
<1>s. state # "ready" /\ g = generation /\ g = startPromise
  BY <1>0, StartingIsNotReady
<1>t. \A h \in Gen : h # g => startPc[h] \in {"none", "done"}
  BY <1>s DEF HostInv, AuthorityInv, StartsInv, SingleStart
<1>1. CASE SpawnSucceeds(g)
  <2>1. /\ connection' = g /\ generation' = generation /\ state' = state
        /\ alive' = alive \cup {g} /\ published' = published \cup {g}
        /\ startPc' = [startPc EXCEPT ![g] = "initializing"]
        /\ UNCHANGED <<stop, clientClosed, finalized, disposed>>
        /\ g \notin published /\ startPc[g] = "resolving"
    BY <1>1 DEF SpawnSucceeds, stopVars, HostInv, AuthorityInv, StartsInv
  <2>2. HandshakeInv'
    BY <1>t, <2>1 DEF HandshakeInv, HostInv, TypeOK
  <2>3. StopInv'
    <3>1. stop.phase = "none"
      BY <2>1 DEF HostInv, ServingInv, StopInv
    <3>2. g \notin finalized
      BY <2>1 DEF HostInv, AuthorityInv, OwnershipInv
    <3>3. QED  BY <1>s, <1>t, <2>1, <3>1, <3>2 DEF StopInv, HostInv, TypeOK
  <2>4. ReadyMeansServing' /\ DisposedInv'
    BY <1>s, <2>1 DEF ReadyMeansServing, DisposedInv, HostInv, ServingInv
  <2>5. QED  BY <2>2, <2>3, <2>4 DEF ServingInv
<1>2. CASE SpawnFails(g)
  BY <1>0, <1>2, ServingStartFails DEF SpawnFails
<1>3. CASE SpawnUnpublished(g)
  <2>1. /\ startPc' = [startPc EXCEPT ![g] = "terminating"]
        /\ startPc[g] = "resolving" /\ alive \subseteq alive'
        /\ UNCHANGED <<state, generation, connection, published, stop, clientClosed,
                       finalized, disposed>>
    BY <1>3 DEF SpawnUnpublished, stopVars
  <2>2. HandshakeInv' /\ StopInv'
    BY <2>1 DEF HandshakeInv, StopInv, HostInv, ServingInv, TypeOK
  <2>3. ReadyMeansServing' /\ DisposedInv'
    BY <1>s, <2>1 DEF ReadyMeansServing, DisposedInv, HostInv, ServingInv
  <2>4. QED  BY <2>2, <2>3 DEF ServingInv
<1>4. CASE UnpublishedTerminates(g)
  <2>1. g \notin published
    BY <1>4 DEF UnpublishedTerminates, HostInv, AuthorityInv, StartsInv
  <2>2. alive' \cap published = alive \cap published
    BY <1>4, <2>1 DEF UnpublishedTerminates
  <2>3. QED  BY <1>0, <1>4, <2>2, ServingStartFails DEF UnpublishedTerminates
<1>5. CASE InitializeReplies(g)
  <2>1. /\ startPc' = [startPc EXCEPT ![g] = "confirming"]
        /\ startPc[g] = "initializing"
        /\ UNCHANGED <<state, generation, connection, published, alive, stop,
                       clientClosed, finalized, disposed>>
    BY <1>5 DEF InitializeReplies, stopVars
  <2>2. HandshakeInv' /\ StopInv'
    BY <2>1 DEF HandshakeInv, StopInv, HostInv, ServingInv, TypeOK
  <2>3. ReadyMeansServing' /\ DisposedInv'
    BY <1>s, <2>1 DEF ReadyMeansServing, DisposedInv, HostInv, ServingInv
  <2>4. QED  BY <2>2, <2>3 DEF ServingInv
<1>6. CASE InitializedConfirmed(g)
  <2>1. /\ startPc[g] = "confirming" /\ ~disposed /\ connection = g
        /\ ready' = ready \cup {g} /\ StartSettles(g, TRUE)
        /\ UNCHANGED <<generation, connection, published, alive, stop, clientClosed,
                       finalized, disposed>>
        /\ g \notin clientClosed /\ stop.phase \notin {"settled", "failed"}
    BY <1>6 DEF InitializedConfirmed, Quiescent
  <2>2. g \notin finalized
    BY <2>1 DEF HostInv, ServingInv, StopInv
  <2>3. stop.phase = "none"
    <3>1. stop.phase \in {"none", "grace", "killGrace"}
      BY <2>1 DEF HostInv, TypeOK, StopPhases, NoStop
    <3>2. QED  BY <1>s, <2>1, <3>1 DEF HostInv, ServingInv, StopInv
  <2>4. startPromise' = 0 /\ startPc' = [startPc EXCEPT ![g] = "done"]
    BY <1>s, <2>1 DEF StartSettles
  <2>5. ReadyMeansServing' /\ DisposedInv'
    BY <1>s, <2>1, <2>2, <2>3, <2>4 DEF ReadyMeansServing, DisposedInv
  <2>6. HandshakeInv' /\ StopInv'
    BY <2>1, <2>4 DEF HandshakeInv, StopInv, HostInv, ServingInv, TypeOK
  <2>7. QED  BY <2>5, <2>6 DEF ServingInv
<1>7. CASE HandshakeFails(g)
  <2>1. /\ StopConnection(g) /\ state' = StateOfStop(g)
        /\ startPc' = [startPc EXCEPT ![g] = "stopping"]
        /\ UNCHANGED <<generation, connection, published, alive, finalized, disposed>>
    BY <1>7 DEF HandshakeFails
  <2>2. ReadyMeansServing' /\ DisposedInv'
    BY <1>s, <2>1
    DEF ReadyMeansServing, DisposedInv, StateOfStop, Usable, HostInv, ServingInv
  <2>3. HandshakeInv'
    BY <2>1, StopCloses DEF HandshakeInv, HostInv, ServingInv, TypeOK
  <2>4. StopInv'
    <3>1. \A h \in Gen : startPc'[h] \notin {"resolving", "terminating"}
      BY <1>t, <2>1 DEF HostInv, TypeOK
    <3>2. CASE StopBegins(g)
      <4>1. stop'.conn = g /\ clientClosed' = clientClosed \cup {g}
        BY <2>1, <3>2 DEF StopConnection
      <4>2. QED
        BY <1>s, <2>1, <3>1, <4>1 DEF StopInv, HostInv, ServingInv
    <3>3. CASE ~StopBegins(g)
      <4>1. /\ stop' = IF stop.phase = "none" THEN [conn |-> g, phase |-> "settled"]
                                              ELSE stop
            /\ clientClosed' = clientClosed
        BY <2>1, <3>3 DEF StopConnection
      <4>2. QED
        BY <1>s, <2>1, <3>1, <4>1 DEF StopInv, HostInv, ServingInv
    <3>4. QED  BY <3>2, <3>3
  <2>5. QED  BY <2>2, <2>3, <2>4 DEF ServingInv
<1>8. CASE StartRejects(g)
  BY <1>0, <1>8, ServingStartFails DEF StartRejects
<1>9. QED  BY <1>1, <1>2, <1>3, <1>4, <1>5, <1>6, <1>7, <1>8

LEMMA ServingStop ==
    ASSUME HostInv, StopStep
    PROVE  ServingInv'
<1> USE DEF connVars
<1>d. disposed => state = "disposed"
  BY DEF HostInv, ServingInv, DisposedInv
<1>1. CASE StopConfirmed
  <2>1. /\ finalized' = finalized \cup {stop.conn}
        /\ connection' = IF connection = stop.conn THEN 0 ELSE connection
        /\ state' = IF disposed THEN state ELSE "stopped"
        /\ stop'.phase = "settled" /\ stop'.conn = stop.conn
        /\ UNCHANGED <<generation, startPc, published, alive, clientClosed, disposed>>
        /\ stop.phase # "none"
    BY <1>1 DEF StopConfirmed, StopResumes, HostInv, TypeOK, NoStop
  <2>2. ReadyMeansServing' /\ DisposedInv'
    BY <1>d, <2>1 DEF ReadyMeansServing, DisposedInv
  <2>3. HandshakeInv'
    BY <2>1 DEF HandshakeInv, HostInv, ServingInv
  <2>4. StopInv'
    <3>1. stop.conn \in Gen
      BY <2>1 DEF HostInv, TypeOK, NoStop
    <3>2. 0 \notin finalized' /\ connection' \notin finalized'
      BY <2>1, <3>1 DEF StopInv, HostInv, ServingInv, TypeOK, Gen
    <3>3. QED  BY <2>1, <3>2 DEF StopInv, HostInv, ServingInv
  <2>5. QED  BY <2>2, <2>3, <2>4 DEF ServingInv
<1>2. CASE GraceExpires \/ KillGraceExpires
  <2>1. /\ stop'.conn = stop.conn /\ stop.phase \in {"grace", "killGrace"}
        /\ stop'.phase # "none" /\ (state' = "ready" => state = "ready")
        /\ disposed => state' = "disposed"
        /\ UNCHANGED <<generation, startPc, published, alive, clientClosed, disposed,
                       connection, finalized>>
    BY <1>2, <1>d DEF GraceExpires, KillGraceExpires, hostVars, HostInv, TypeOK, NoStop
  <2>2. ReadyMeansServing' /\ DisposedInv'
    BY <2>1 DEF ReadyMeansServing, DisposedInv, HostInv, ServingInv
  <2>3. HandshakeInv' /\ StopInv'
    BY <2>1 DEF HandshakeInv, StopInv, HostInv, ServingInv
  <2>4. QED  BY <2>2, <2>3 DEF ServingInv
<1>3. CASE StopSettles
  <2>1. \A g \in Gen : startPc'[g] \in {"initializing", "confirming", "resolving",
                                        "terminating"} => startPc'[g] = startPc[g]
    BY <1>3 DEF StopSettles, WakeStop, HostInv, TypeOK, StartPcs
  <2>2. /\ stop' = NoStop /\ stop.phase # "none"
        /\ UNCHANGED <<state, generation, published, alive, clientClosed, disposed,
                       connection, finalized>>
    BY <1>3 DEF StopSettles
  <2>3. ReadyMeansServing' /\ DisposedInv'
    BY <1>d, <2>2 DEF ReadyMeansServing, DisposedInv, HostInv, ServingInv
  <2>4. HandshakeInv'
    BY <2>1, <2>2 DEF HandshakeInv, HostInv, ServingInv
  <2>5. StopInv'
    BY <2>1, <2>2 DEF StopInv, NoStop, HostInv, ServingInv
  <2>6. QED  BY <2>3, <2>4, <2>5 DEF ServingInv
<1>4. QED  BY <1>1, <1>2, <1>3 DEF StopStep

\* The handler of an exit leaves `ready', if only for the restart.
LEMMA ExitLeavesReady ==
    ASSUME HostInv, NEW g \in Gen, ExitHandled(g, TRUE)
    PROVE  /\ state' # "ready"
           /\ disposed => state' = "disposed"
<1> USE DEF HostInv, ServingInv
<1>1. CASE RestartsAfterCrash(g)
  <2>1. EnsureStarted(0, state, TRUE) /\ ~disposed
    BY <1>1 DEF ExitHandled, RestartsAfterCrash
  <2>2. state = "ready" => Launches(0, state)
    BY <2>1
    DEF Launches, MustLaunch, Owned, Usable, ReadyMeansServing, TypeOK, Gen
  <2>3. QED  BY <2>1, <2>2 DEF EnsureStarted
<1>2. CASE ~RestartsAfterCrash(g)
  <2>1. state' = StateAfterExit(g)
    BY <1>2 DEF ExitHandled
  <2>2. CASE disposed
    BY <2>1, <2>2 DEF StateAfterExit
  <2>3. CASE ~disposed
    BY <2>1, <2>3 DEF StateAfterExit, StoppedUnlessLatched, Usable
  <2>4. QED  BY <2>2, <2>3
<1>3. QED  BY <1>1, <1>2

LEMMA ServingExitHandled ==
    ASSUME HostInv, NEW g \in Gen, ExitHandled(g, TRUE),
           alive' = alive \/ alive' = alive \ {g}, IsCurrent(g) \/ g \notin alive,
           UNCHANGED <<published, stop, ready, disposed>>
    PROVE  ServingInv'
<1> USE DEF HostInv, ServingInv
<1>1. /\ finalized' = finalized \cup {g} /\ clientClosed' = clientClosed \cup {g}
      /\ connection' = 0
  BY DEF ExitHandled
<1>2. ReadyMeansServing' /\ DisposedInv'
  BY ExitLeavesReady DEF ReadyMeansServing, DisposedInv
<1>3. /\ \A h \in Gen : startPc'[h] \in {"initializing", "confirming", "terminating"}
                            => startPc'[h] = startPc[h]
      /\ \A h \in Gen : startPc'[h] = "resolving"
                            => startPc[h] = "resolving" \/ stop.phase = "none"
      /\ stop.phase # "none" => generation' = generation
  <2>1. CASE RestartsAfterCrash(g)
    <3>1. EnsureStarted(0, state, TRUE)
      BY <2>1 DEF ExitHandled
    <3>2. QED
      BY <3>1 DEF EnsureStarted, Launches, MustLaunch, TypeOK, InBudget, Gen
  <2>2. CASE ~RestartsAfterCrash(g)
    BY <2>2 DEF ExitHandled
  <2>3. QED  BY <2>1, <2>2
<1>4. HandshakeInv'
  BY <1>1, <1>3 DEF HandshakeInv
<1>5. StopInv'
  <2>1. 0 \notin finalized'
    BY <1>1 DEF TypeOK, Gen
  <2>2. QED  BY <1>1, <1>3, <2>1 DEF StopInv
<1>6. QED  BY <1>2, <1>4, <1>5

LEMMA ServingExit ==
    ASSUME HostInv, ExitStep
    PROVE  ServingInv'
<1> USE DEF connVars
<1> SUFFICES ASSUME NEW g \in Gen,
                    \/ ChildExits(g) \/ StdioFails(g) \/ ProtocolError(g)
                    \/ ExitWaitConfirmed(g) \/ ExitWaitExpires(g)
                    \/ ExitRestartSettles(g)
             PROVE  ServingInv'
  BY DEF ExitStep
<1>d. disposed => state = "disposed"
  BY DEF HostInv, ServingInv, DisposedInv
<1>1. CASE ChildExits(g)
  <2>1. IsCurrent(g)
    BY <1>1 DEF ChildExits, IsCurrent, HostInv, AuthorityInv, OwnershipInv
  <2>2. CASE exitPc[g] \in {"waiting", "waitingStale"}
    <3>1. g \in clientClosed
      BY <2>2 DEF HostInv, AuthorityInv, ExitWaitInv
    <3>2. /\ alive' = alive \ {g}
          /\ UNCHANGED <<state, generation, startPromise, startPc, connection, stop, ready,
                         finalized, published, disposed, clientClosed>>
      BY <1>1, <2>2 DEF ChildExits, hostVars
    <3>3. HandshakeInv'
      BY <3>1, <3>2 DEF HandshakeInv, HostInv, ServingInv
    <3>4. ReadyMeansServing' /\ DisposedInv' /\ StopInv'
      BY <3>2 DEF ReadyMeansServing, DisposedInv, StopInv, HostInv, ServingInv
    <3>5. QED  BY <3>3, <3>4 DEF ServingInv
  <2>3. CASE exitPc[g] \notin {"waiting", "waitingStale"}
    <3>1. ExitHandled(g, TRUE)
      BY <1>1, <2>1, <2>3 DEF ChildExits
    <3>2. QED  BY <1>1, <2>1, <3>1, ServingExitHandled DEF ChildExits
  <2>4. QED  BY <2>2, <2>3
<1>2. CASE StdioFails(g)
  BY <1>2, ServingQuiet DEF StdioFails, hostVars
<1>3. CASE ProtocolError(g)
  BY <1>3, ServingQuiet DEF ProtocolError, hostVars
<1>4. CASE ExitWaitConfirmed(g)
  <2>1. g \notin alive /\ exitPc[g] = "waiting"
    BY <1>4 DEF ExitWaitConfirmed, Exited, HostInv, AuthorityInv, ExitWaitInv
  <2>2. ExitHandled(g, TRUE)
    BY <1>4, <2>1 DEF ExitWaitConfirmed
  <2>3. QED  BY <1>4, <2>1, <2>2, ServingExitHandled DEF ExitWaitConfirmed
<1>5. CASE ExitWaitExpires(g) \/ ExitRestartSettles(g)
  BY <1>5, <1>d, ServingLeaves DEF ExitWaitExpires, ExitRestartSettles, stopVars
<1>6. QED  BY <1>1, <1>2, <1>3, <1>4, <1>5

LEMMA ServingStep == HostInv /\ [Next]_vars => ServingInv'
<1> SUFFICES ASSUME HostInv, [Next]_vars PROVE ServingInv'
  OBVIOUS
<1>1. CASE UNCHANGED vars
  BY <1>1, ServingQuiet DEF vars, hostVars, connVars, stopVars
<1>2. CASE RequestSettles
  BY <1>2, ServingQuiet DEF RequestSettles, hostVars, connVars, stopVars
<1>3. QED
  BY <1>1, <1>2, ServingLease, ServingEnsureAgain, ServingRetry, ServingRecovery,
     ServingStopCalls, ServingStart, ServingStop, ServingExit
  DEF Next, LeaseStep

LEMMA HostInvariant == Spec => []HostInv
<1>1. Init => ServingInv
  BY HostAssumption
  DEF Init, ServingInv, ReadyMeansServing, DisposedInv, HandshakeInv, StopInv, NoStop
<1>2. HostInv /\ [Next]_vars => ServingInv'
  BY ServingStep
<1>3. HostInv <=> TypeOK /\ AuthorityInv /\ ServingInv
  BY DEF HostInv
<1>4. QED  BY <1>1, <1>2, <1>3, TypeInvariant, AuthorityInvariant, PTL DEF Spec

\* In state `ready' the current generation is served, with no start or stop
\* competing, for every set of leases and every number of generations.
THEOREM ReadyIsServing == Spec => []ReadyMeansServing
<1>1. HostInv => ReadyMeansServing
  BY DEF HostInv, ServingInv
<1>2. QED  BY <1>1, HostInvariant, PTL

-----------------------------------------------------------------------------
(* The host implements SoleProcess                                         *)

\* A step that starts and ends nothing is a stutter or retires the service.
LEMMA AbstractQuiet ==
    ASSUME published' = published, alive' \cap published = alive \cap published,
           \A g \in Gen : startPc'[g] = "done" <=> startPc[g] = "done",
           state' = "ready" => /\ state = "ready"
                               /\ connection' = connection /\ disposed' = disposed,
           disposed' = disposed \/ disposed' = TRUE
    PROVE  [Abstract!Next]_(Abstract!vars)
<1>1. {g \in Gen : startPc'[g] = "done"} = {g \in Gen : startPc[g] = "done"}
  OBVIOUS
<1>2. CASE state' = "ready"
  BY <1>1, <1>2 DEF Abstract!vars, Serving
<1>3. CASE state' # "ready"
  <2>1. (~disposed') \in {~disposed, FALSE}
    <3>1. CASE disposed' = disposed
      BY <3>1
    <3>2. CASE disposed' = TRUE
      BY <3>2
    <3>3. QED  BY <3>1, <3>2
  <2>2. Serving' = {}
    BY <1>3 DEF Serving
  <2>3. Abstract!Retire
    BY <1>1, <2>1, <2>2 DEF Abstract!Retire
  <2>4. QED  BY <2>3 DEF Abstract!Next
<1>4. QED  BY <1>2, <1>3

\* ensureStarted starts nothing by itself: a new generation is only resolving.
LEMMA AbstractLaunch ==
    ASSUME HostInv, NEW c, NEW s, NEW r, EnsureStarted(c, s, r)
    PROVE  /\ \A g \in Gen : startPc'[g] = "done" <=> startPc[g] = "done"
           /\ state' = "ready" => s = "ready"
<1>1. CASE Launches(c, s)
  <2>1. /\ startPc' = [startPc EXCEPT ![generation + 1] = "resolving"]
        /\ state' \in {"starting", "restarting"}
        /\ generation + 1 \in Gen /\ generation + 1 > generation
    BY <1>1, HostAssumption DEF EnsureStarted, HostInv, TypeOK, InBudget, Gen
  <2>2. startPc[generation + 1] = "none"
    BY <2>1 DEF HostInv, AuthorityInv, StartsInv
  <2>3. QED  BY <2>1, <2>2 DEF HostInv, TypeOK
<1>2. CASE ~Launches(c, s)
  BY <1>2 DEF EnsureStarted
<1>3. QED  BY <1>1, <1>2

LEMMA AbstractOperations ==
    ASSUME HostInv,
           \/ LeaseStep \/ RequestSettles
           \/ \E p \in Lease \cup {"request", "retry", "recovery"} : EnsureAgain(p)
    PROVE  [Abstract!Next]_(Abstract!vars)
<1> USE DEF hostVars, connVars
<1>1. ASSUME NEW l \in Lease, Acquire(l) \/ Request(l)
      PROVE  [Abstract!Next]_(Abstract!vars)
  <2>1. EnsureStarted(connection, state, FALSE)
    BY <1>1 DEF Acquire, Request
  <2>2. QED  BY <1>1, <2>1, AbstractLaunch, AbstractQuiet DEF Acquire, Request
<1>2. ASSUME NEW l \in Lease, AcquireResolves(l) \/ AcquireRejects(l) \/ Release(l)
      PROVE  [Abstract!Next]_(Abstract!vars)
  BY <1>2, AbstractQuiet DEF AcquireResolves, AcquireRejects, Release
<1>3. CASE RequestSettles
  BY <1>3, AbstractQuiet DEF RequestSettles
<1>4. ASSUME NEW p, EnsureAgain(p) PROVE [Abstract!Next]_(Abstract!vars)
  <2>1. PICK r : EnsureStarted(connection, state, r)
    BY <1>4 DEF EnsureAgain
  <2>2. QED  BY <1>4, <2>1, AbstractLaunch, AbstractQuiet DEF EnsureAgain
<1>5. QED  BY <1>1, <1>2, <1>3, <1>4 DEF LeaseStep

LEMMA AbstractRetry ==
    ASSUME HostInv, RetryStep
    PROVE  [Abstract!Next]_(Abstract!vars)
<1> DEFINE s == IF state = "circuit-open" THEN "stopped" ELSE state
<1>1. UNCHANGED <<connVars, connection, disposed>>
  BY DEF RetryStep, Retry, RetryContinues, RetryStopped, RetrySettles
<1>2. ASSUME BreakerResets PROVE [Abstract!Next]_(Abstract!vars)
  <2>1. CASE leases = {}
    BY <1>1, <1>2, <2>1, AbstractQuiet DEF BreakerResets, connVars
  <2>2. CASE leases # {}
    <3>1. EnsureStarted(connection, s, FALSE)
      BY <1>2, <2>2 DEF BreakerResets
    <3>2. s = "ready" => state = "ready"
      OBVIOUS
    <3> HIDE DEF s
    <3>3. QED  BY <1>1, <3>1, <3>2, AbstractLaunch, AbstractQuiet DEF connVars
  <2>3. QED  BY <2>1, <2>2
<1>3. ASSUME RetryProceeds PROVE [Abstract!Next]_(Abstract!vars)
  <2>1. CASE OwnsUnusable
    <3>1. /\ state' = StateOfStop(connection) /\ startPc' = startPc
      BY <1>3, <2>1 DEF RetryProceeds
    <3>2. state' = "ready" => state = "ready"
      BY <3>1 DEF StateOfStop
    <3>3. QED  BY <1>1, <3>1, <3>2, AbstractQuiet DEF connVars
  <2>2. QED  BY <1>2, <1>3, <2>1 DEF RetryProceeds
<1>4. CASE Retry
  <2>1. CASE stop.phase # "none"
    BY <1>1, <1>4, <2>1, AbstractQuiet DEF Retry, hostVars, connVars
  <2>2. QED  BY <1>3, <1>4, <2>1 DEF Retry
<1>5. CASE RetrySettles
  BY <1>1, <1>5, AbstractQuiet DEF RetrySettles, connVars
<1>6. QED  BY <1>2, <1>3, <1>4, <1>5 DEF RetryStep, RetryContinues, RetryStopped

LEMMA AbstractStops ==
    ASSUME HostInv,
           \/ RecoveryStep
           \/ \E g \in Gen : AbortServerRequestGeneration(g)
           \/ IdleTimerFires
           \/ DisposeStep
    PROVE  [Abstract!Next]_(Abstract!vars)
<1> USE DEF hostVars, connVars
<1>0. \A c : StateOfStop(c) = "ready" => state = "ready"
  BY DEF StateOfStop
<1>1. ASSUME NEW g \in Gen, RestartForRecovery(g) \/ AbortServerRequestGeneration(g)
      PROVE  [Abstract!Next]_(Abstract!vars)
  BY <1>0, <1>1, AbstractQuiet DEF RestartForRecovery, AbortServerRequestGeneration
<1>2. ASSUME RecoveryStopped PROVE [Abstract!Next]_(Abstract!vars)
  <2>1. CASE Usable(state) /\ ~RecoverySuperseded
    BY <1>2, <2>1, AbstractLaunch, AbstractQuiet DEF RecoveryStopped
  <2>2. CASE ~(Usable(state) /\ ~RecoverySuperseded)
    BY <1>2, <2>2, AbstractQuiet DEF RecoveryStopped
  <2>3. QED  BY <2>1, <2>2
<1>3. ASSUME RecoverySettles PROVE [Abstract!Next]_(Abstract!vars)
  BY <1>3, AbstractQuiet DEF RecoverySettles
<1>4. ASSUME IdleTimerFires PROVE [Abstract!Next]_(Abstract!vars)
  <2>1. state' = "ready" => state = "ready"
    BY <1>0, <1>4 DEF IdleTimerFires
  <2>2. QED  BY <1>4, <2>1, AbstractQuiet DEF IdleTimerFires
<1>5. ASSUME Dispose PROVE [Abstract!Next]_(Abstract!vars)
  BY <1>5, AbstractQuiet DEF Dispose
<1>6. ASSUME DisposeStopped PROVE [Abstract!Next]_(Abstract!vars)
  BY <1>6, AbstractQuiet DEF DisposeStopped
<1>7. ASSUME DisposeStarted PROVE [Abstract!Next]_(Abstract!vars)
  <2>1. state' = "ready" => state = "ready"
    BY <1>0, <1>7 DEF DisposeStarted
  <2>2. QED  BY <1>7, <2>1, AbstractQuiet DEF DisposeStarted
<1>8. QED
  BY <1>1, <1>2, <1>3, <1>4, <1>5, <1>6, <1>7 DEF RecoveryStep, DisposeStep

\* A failed start ends its generation and touches no service.
LEMMA AbstractStartFails ==
    ASSUME HostInv, NEW g \in Gen, startPc[g] \notin {"none", "done"},
           StartSettles(g, FALSE),
           \/ state' = state \/ state' = StoppedUnlessLatched,
           alive' \cap published = alive \cap published,
           UNCHANGED <<published, disposed>>
    PROVE  Abstract!Next
<1>1. state # "ready"
  BY StartingIsNotReady
<1>2. state' # "ready"
  BY <1>1 DEF StoppedUnlessLatched
<1>3. {h \in Gen : startPc'[h] = "done"} = {h \in Gen : startPc[h] = "done"} \cup {g}
  BY DEF StartSettles, HostInv, TypeOK
<1>4. Abstract!Fail(g)
  BY <1>1, <1>2, <1>3 DEF Abstract!Fail, Serving
<1>5. QED  BY <1>4 DEF Abstract!Next

LEMMA AbstractStart ==
    ASSUME HostInv, StartStep
    PROVE  [Abstract!Next]_(Abstract!vars)
<1> USE DEF connVars, stopVars
<1> SUFFICES ASSUME NEW g \in Gen,
                    \/ SpawnSucceeds(g) \/ SpawnFails(g)
                    \/ SpawnUnpublished(g) \/ UnpublishedTerminates(g)
                    \/ InitializeReplies(g) \/ InitializedConfirmed(g)
                    \/ HandshakeFails(g) \/ StartRejects(g)
             PROVE  [Abstract!Next]_(Abstract!vars)
  BY DEF StartStep
<1>0. startPc[g] \notin {"none", "done"}
  BY DEF SpawnSucceeds, SpawnFails, SpawnUnpublished, UnpublishedTerminates,
         InitializeReplies, InitializedConfirmed, HandshakeFails, StartRejects
<1>s. state # "ready" /\ g = generation
  BY <1>0, StartingIsNotReady
<1>1. CASE SpawnSucceeds(g)
  <2>1. /\ ~disposed /\ disposed' = disposed /\ state' = state
        /\ alive' = alive \cup {g} /\ published' = published \cup {g}
        /\ startPc' = [startPc EXCEPT ![g] = "initializing"]
        /\ g \notin published /\ startPc[g] = "resolving"
    BY <1>1 DEF SpawnSucceeds, StartIsCurrent, HostInv, AuthorityInv, StartsInv
  <2>2. alive \cap published = {}
    BY <1>s, <2>1 DEF HostInv, AuthorityInv, OwnershipInv
  <2>3. \A h \in published : h < g /\ startPc[h] = "done"
    <3>1. \A h \in published : h \in Gen /\ h # g /\ startPc[h] # "none"
      BY <2>1 DEF HostInv, TypeOK, AuthorityInv, StartsInv
    <3>2. \A h \in published : startPc[h] = "done"
      BY <1>s, <3>1 DEF HostInv, AuthorityInv, StartsInv, SingleStart
    <3>3. \A h \in published : ~(h > g)
      BY <1>s, <3>1 DEF HostInv, AuthorityInv, StartsInv
    <3>4. QED  BY <3>1, <3>2, <3>3, HostAssumption DEF Gen
  <2>4. {h \in Gen : startPc'[h] = "done"} = {h \in Gen : startPc[h] = "done"}
    BY <2>1 DEF HostInv, TypeOK
  <2>5. Abstract!Spawn(g)
    <3>1. \A h \in published : h < g /\ h \in {k \in Gen : startPc[k] = "done"}
      BY <2>3 DEF HostInv, TypeOK
    <3>2. alive' \cap published' = {g}
      BY <2>1, <2>2
    <3>3. Serving = {} /\ Serving' = {}
      BY <1>s, <2>1 DEF Serving
    <3>4. QED  BY <2>1, <2>2, <2>4, <3>1, <3>2, <3>3 DEF Abstract!Spawn
  <2>6. QED  BY <2>5 DEF Abstract!Next
<1>2. CASE SpawnFails(g)
  BY <1>0, <1>2, AbstractStartFails DEF SpawnFails
<1>3. CASE SpawnUnpublished(g)
  <2>1. /\ alive' \cap published = alive \cap published /\ published' = published
        /\ UNCHANGED <<state, connection, disposed>>
        /\ startPc[g] # "done" /\ startPc' = [startPc EXCEPT ![g] = "terminating"]
    BY <1>3 DEF SpawnUnpublished, HostInv, AuthorityInv, StartsInv
  <2>2. \A h \in Gen : startPc'[h] = "done" <=> startPc[h] = "done"
    BY <2>1 DEF HostInv, TypeOK
  <2>3. QED  BY <2>1, <2>2, AbstractQuiet
<1>4. CASE UnpublishedTerminates(g)
  <2>1. g \notin published
    BY <1>4 DEF UnpublishedTerminates, HostInv, AuthorityInv, StartsInv
  <2>2. alive' \cap published = alive \cap published
    BY <1>4, <2>1 DEF UnpublishedTerminates
  <2>3. QED  BY <1>0, <1>4, <2>2, AbstractStartFails DEF UnpublishedTerminates
<1>5. CASE InitializeReplies(g) \/ HandshakeFails(g)
  <2>1. /\ UNCHANGED <<alive, published, connection, disposed>>
        /\ \E v \in {"confirming", "stopping"} : startPc' = [startPc EXCEPT ![g] = v]
        /\ state' = state \/ state' = StateOfStop(g)
    BY <1>5 DEF InitializeReplies, HandshakeFails
  <2>2. \A h \in Gen : startPc'[h] = "done" <=> startPc[h] = "done"
    BY <1>0, <2>1 DEF HostInv, TypeOK
  <2>3. state' # "ready"
    BY <1>s, <2>1 DEF StateOfStop
  <2>4. QED  BY <2>1, <2>2, <2>3, AbstractQuiet
<1>6. CASE InitializedConfirmed(g)
  <2>1. /\ startPc[g] = "confirming" /\ ~disposed /\ connection' = g
        /\ state' = "ready" /\ StartSettles(g, TRUE)
        /\ UNCHANGED <<published, alive, disposed>> /\ g \notin clientClosed
    BY <1>6 DEF InitializedConfirmed, Quiescent
  <2>2. g \in alive \cap published
    BY <2>1 DEF HostInv, ServingInv, HandshakeInv
  <2>3. {h \in Gen : startPc'[h] = "done"} = {h \in Gen : startPc[h] = "done"} \cup {g}
    BY <2>1 DEF StartSettles, HostInv, TypeOK
  <2>4. Abstract!Serve(g)
    BY <2>1, <2>2, <2>3 DEF Abstract!Serve, Serving
  <2>5. QED  BY <2>4 DEF Abstract!Next
<1>7. CASE StartRejects(g)
  BY <1>0, <1>7, AbstractStartFails DEF StartRejects
<1>8. QED  BY <1>1, <1>2, <1>3, <1>4, <1>5, <1>6, <1>7

LEMMA AbstractStop ==
    ASSUME HostInv, StopStep
    PROVE  [Abstract!Next]_(Abstract!vars)
<1> USE DEF hostVars, connVars
<1>1. CASE StopSettles
  <2>1. \A g \in Gen : startPc'[g] = "done" <=> startPc[g] = "done"
    BY <1>1 DEF StopSettles, WakeStop, HostInv, TypeOK, StartPcs
  <2>2. QED  BY <1>1, <2>1, AbstractQuiet DEF StopSettles
<1>2. CASE ~StopSettles
  <2>1. /\ UNCHANGED <<startPc, alive, published, disposed>>
        /\ state' = "ready" => state = "ready" /\ stop.phase # "none"
    BY <1>2 DEF StopStep, StopConfirmed, StopResumes, GraceExpires, KillGraceExpires
  <2>2. state' # "ready"
    BY <2>1 DEF HostInv, ServingInv, ReadyMeansServing
  <2>3. QED  BY <2>1, <2>2, AbstractQuiet
<1>3. QED  BY <1>1, <1>2

LEMMA AbstractExit ==
    ASSUME HostInv, ExitStep
    PROVE  [Abstract!Next]_(Abstract!vars)
<1> USE DEF hostVars, connVars
<1> SUFFICES ASSUME NEW g \in Gen,
                    \/ ChildExits(g) \/ StdioFails(g) \/ ProtocolError(g)
                    \/ ExitWaitConfirmed(g) \/ ExitWaitExpires(g)
                    \/ ExitRestartSettles(g)
             PROVE  [Abstract!Next]_(Abstract!vars)
  BY DEF ExitStep
<1>1. ASSUME ExitHandled(g, TRUE)
      PROVE  \A h \in Gen : startPc'[h] = "done" <=> startPc[h] = "done"
  <2>1. CASE RestartsAfterCrash(g)
    BY <1>1, <2>1, AbstractLaunch DEF ExitHandled
  <2>2. CASE ~RestartsAfterCrash(g)
    BY <1>1, <2>2 DEF ExitHandled
  <2>3. QED  BY <2>1, <2>2
<1>2. CASE ChildExits(g)
  <2>1. IsCurrent(g) /\ alive' \cap published' = {}
    BY <1>2 DEF ChildExits, IsCurrent, HostInv, AuthorityInv, OwnershipInv
  <2>2. /\ \A h \in Gen : startPc'[h] = "done" <=> startPc[h] = "done"
        /\ state' # "ready" \/ (state' = state /\ connection' = connection)
    <3>1. CASE exitPc[g] \in {"waiting", "waitingStale"}
      BY <1>2, <3>1 DEF ChildExits
    <3>2. CASE exitPc[g] \notin {"waiting", "waitingStale"}
      <4>1. ExitHandled(g, TRUE)
        BY <1>2, <2>1, <3>2 DEF ChildExits
      <4>2. QED  BY <1>1, <4>1, ExitLeavesReady
    <3>3. QED  BY <3>1, <3>2
  <2>3. {h \in Gen : startPc'[h] = "done"} = {h \in Gen : startPc[h] = "done"}
    BY <2>2
  <2>4. Abstract!Exit
    BY <1>2, <2>1, <2>2, <2>3 DEF Abstract!Exit, ChildExits, Serving
  <2>5. QED  BY <2>4 DEF Abstract!Next
<1>3. CASE StdioFails(g) \/ ProtocolError(g)
  BY <1>3, AbstractQuiet DEF StdioFails, ProtocolError
<1>4. CASE ExitWaitConfirmed(g)
  <2>1. exitPc[g] = "waiting"
    BY <1>4 DEF ExitWaitConfirmed, HostInv, AuthorityInv, ExitWaitInv
  <2>2. ExitHandled(g, TRUE)
    BY <1>4, <2>1 DEF ExitWaitConfirmed
  <2>3. QED  BY <1>1, <1>4, <2>2, ExitLeavesReady, AbstractQuiet DEF ExitWaitConfirmed
<1>5. CASE ExitWaitExpires(g) \/ ExitRestartSettles(g)
  BY <1>5, AbstractQuiet DEF ExitWaitExpires, ExitRestartSettles
<1>6. QED  BY <1>2, <1>3, <1>4, <1>5

LEMMA AbstractStep == HostInv /\ [Next]_vars => [Abstract!Next]_(Abstract!vars)
<1> SUFFICES ASSUME HostInv, [Next]_vars PROVE [Abstract!Next]_(Abstract!vars)
  OBVIOUS
<1>1. CASE UNCHANGED vars
  BY <1>1, AbstractQuiet DEF vars, hostVars, connVars
<1>2. QED
  BY <1>1, AbstractOperations, AbstractRetry, AbstractStops, AbstractStart,
     AbstractStop, AbstractExit DEF Next

\* The host is a sole process for every set of leases and every number of
\* generations: no two processes at once, no second service of a generation, and
\* nothing spawned after dispose().
THEOREM HostImplementsSoleProcess == Spec => ImplementsSoleProcess
<1>1. Init => Abstract!Init
  BY DEF Init, Abstract!Init, Serving
<1>2. HostInv /\ [Next]_vars => [Abstract!Next]_(Abstract!vars)
  BY AbstractStep
<1>3. QED  BY <1>1, <1>2, HostInvariant, PTL DEF Spec, ImplementsSoleProcess, Abstract!Spec

-----------------------------------------------------------------------------
(* Waiting                                                                 *)

\* WaitInv and DisposalInv are inductive relative to HostInv: the steps below assume HostInv
\* in both of their states.

\* A generation serves only after its start, and not while it is stopped.
ReadyInv ==
    /\ \A g \in ready : startPc[g] = "done"
    /\ stop.phase # "none" => stop.conn \notin ready

\* The process whose exit a handler waits for is the latest one, or gone before the
\* next one is spawned; once it was stopped it no longer serves.
ExitPendingInv ==
    \A g \in Gen : exitPc[g] = "waiting" =>
        /\ g = generation \/ startPc[generation] = "resolving"
        /\ connection = g \/ g \notin ready

WaitInv == WaitsAreAnswered /\ ReadyInv /\ ExitPendingInv

StopWaits == {"awaitStop", "stopping", "draining"}

\* A step that ends neither a stop nor a start, and begins the one that a new
\* waiter waits for.
LEMMA WaitsKept ==
    ASSUME HostInv', WaitInv,
           stop.phase # "none" => stop'.phase # "none" /\ stop'.conn = stop.conn,
           startPromise # 0 => startPromise' # 0,
           \A p \in Proc : /\ pc'[p] \in StopWaits => pc[p] = pc'[p] \/ stop'.phase # "none"
                           /\ pc'[p] = "awaitStart" => pc[p] = pc'[p] \/ startPromise' # 0,
           \A g \in Gen :
               /\ startPc'[g] = "stopping" => startPc[g] = "stopping" \/ stop'.phase # "none"
               /\ exitPc'[g] = "awaitStart" => exitPc[g] = "awaitStart" \/ startPromise' # 0
               /\ exitPc'[g] # "awaitStop",
           pc'["recovery"] = "stopping" =>
               \/ pc["recovery"] = "stopping" /\ recoveryGeneration' = recoveryGeneration
               \/ stop'.conn = recoveryGeneration'
    PROVE  WaitsAreAnswered'
<1>1. stop'.phase # "none" => connection' \in {0, stop'.conn}
  BY DEF HostInv, ServingInv, StopInv
<1>2. \A p \in Proc : /\ pc'[p] \in StopWaits => stop'.phase # "none"
                      /\ pc'[p] = "awaitStart" => startPromise' # 0
  BY DEF WaitInv, WaitsAreAnswered, StopWaits
<1>3. \A g \in Gen : startPc'[g] = "stopping" => stop'.phase # "none" /\ stop'.conn = g
  <2>1. \A g \in Gen : startPc'[g] = "stopping" => stop'.phase # "none"
    BY DEF WaitInv, WaitsAreAnswered
  <2>2. \A g \in Gen : startPc'[g] = "stopping" => g = generation'
    BY DEF HostInv, AuthorityInv, StartsInv, SingleStart
  <2>3. stop'.phase # "none" => stop'.conn = generation'
    BY DEF HostInv, ServingInv, StopInv
  <2>4. QED  BY <2>1, <2>2, <2>3
<1>4. \A g \in Gen : /\ exitPc'[g] = "awaitStart" => startPromise' # 0
                     /\ exitPc'[g] # "awaitStop"
  BY DEF WaitInv, WaitsAreAnswered
<1>5. pc'["recovery"] = "stopping" => stop'.conn = recoveryGeneration'
  <2>1. "recovery" \in Proc
    BY DEF Proc, Service
  <2>2. pc["recovery"] = "stopping" => stop.phase # "none" /\ stop.conn = recoveryGeneration
    BY <2>1 DEF WaitInv, WaitsAreAnswered
  <2>3. QED  BY <2>2
<1>6. QED  BY <1>1, <1>2, <1>3, <1>4, <1>5 DEF WaitsAreAnswered, StopWaits

\* A step that serves no further generation, begins no stop and waits for no
\* further exit.
LEMMA ServiceKept ==
    ASSUME WaitInv, ready' \subseteq ready, stop' = stop \/ stop'.phase = "none",
           \A g \in ready : startPc[g] = "done" => startPc'[g] = "done"
    PROVE  ReadyInv'
BY DEF WaitInv, ReadyInv

LEMMA ExitPendingKept ==
    ASSUME WaitInv, ready' \subseteq ready, connection' = connection,
           generation' = generation,
           startPc[generation] = "resolving" => startPc'[generation] = "resolving",
           \A g \in Gen : exitPc'[g] = "waiting" => exitPc[g] = "waiting"
    PROVE  ExitPendingInv'
BY DEF WaitInv, ExitPendingInv

\* The step of an operation that only goes on.
LEMMA WaitQuiet ==
    ASSUME HostInv', WaitInv, ready' \subseteq ready,
           UNCHANGED <<stop, startPromise, startPc, generation, connection, exitPc>>,
           \A p \in Proc : pc'[p] \in StopWaits \cup {"awaitStart"} => pc'[p] = pc[p],
           pc'["recovery"] = "stopping" => recoveryGeneration' = recoveryGeneration
    PROVE  WaitInv'
<1>0. "recovery" \in Proc
  BY DEF Proc, Service
<1>1. \A g \in Gen : exitPc[g] # "awaitStop"
  BY DEF WaitInv, WaitsAreAnswered
<1>2. WaitsAreAnswered'
  BY <1>0, <1>1, WaitsKept DEF StopWaits
<1>3. ReadyInv' /\ ExitPendingInv'
  BY ServiceKept, ExitPendingKept
<1>4. QED  BY <1>2, <1>3 DEF WaitInv

\* What ensureStarted tells its caller to wait for is under way.
LEMMA EnsureWaits ==
    ASSUME HostInv, NEW c, NEW s, NEW r, EnsureStarted(c, s, r)
    PROVE  /\ EnsurePc(c, s) = "awaitStop" => stop.phase # "none"
           /\ EnsurePc(c, s) = "awaitStart" => startPromise' # 0
           /\ EnsurePc(c, s) \notin {"stopping", "draining", "waiting"}
           /\ startPromise # 0 => startPromise' # 0
           /\ \A g \in Gen : startPc'[g] = "stopping" => startPc[g] = "stopping"
           /\ \A g \in Gen : startPc[g] = "done" => startPc'[g] = "done"
           /\ \/ generation' = generation /\ startPc' = startPc
              \/ startPc'[generation'] = "resolving"
<1> USE HostAssumption
<1>1. EnsurePc(c, s) = "awaitStop" => stop.phase # "none"
  BY DEF EnsurePc
<1>2. EnsurePc(c, s) \notin {"stopping", "draining", "waiting"}
  BY EnsurePcType
<1>3. CASE Launches(c, s)
  <2>1. /\ generation + 1 \in Gen /\ generation' = generation + 1
        /\ startPromise' = generation + 1
        /\ startPc' = [startPc EXCEPT ![generation + 1] = "resolving"]
    BY <1>3 DEF HostInv, TypeOK, EnsureStarted, InBudget, Gen
  <2>2. startPc[generation + 1] = "none"
    BY <2>1 DEF HostInv, TypeOK, AuthorityInv, StartsInv, Gen
  <2>3. startPromise' # 0 /\ startPc'[generation'] = "resolving"
    BY <2>1 DEF HostInv, TypeOK, Gen
  <2>4. \A g \in Gen : /\ startPc'[g] = "stopping" => startPc[g] = "stopping"
                       /\ startPc[g] = "done" => startPc'[g] = "done"
    BY <2>1, <2>2 DEF HostInv, TypeOK
  <2>5. QED  BY <1>1, <1>2, <2>3, <2>4
<1>4. CASE ~Launches(c, s)
  <2>1. UNCHANGED <<generation, startPromise, startPc>>
    BY <1>4 DEF EnsureStarted
  <2>2. EnsurePc(c, s) = "awaitStart" => startPromise # 0
    BY <1>4 DEF EnsurePc, Launches, MustLaunch
  <2>3. QED  BY <1>1, <1>2, <2>1, <2>2
<1>5. QED  BY <1>3, <1>4

\* A call of ensureStarted for one operation.
LEMMA WaitLaunch ==
    ASSUME HostInv, HostInv', WaitInv, NEW p \in Proc, NEW s, NEW r,
           EnsureStarted(connection, s, r),
           pc' = [pc EXCEPT ![p] = EnsurePc(connection, s)],
           UNCHANGED <<stopVars, connection, exitPc, localVars>>
    PROVE  WaitInv'
<1> USE DEF stopVars, localVars
<1>1. \A q \in Proc : pc'[q] = IF q = p THEN EnsurePc(connection, s) ELSE pc[q]
  BY DEF HostInv, TypeOK
<1>2. "recovery" \in Proc
  BY DEF Proc, Service
<1>3. \A g \in Gen : exitPc[g] # "awaitStop"
  BY DEF WaitInv, WaitsAreAnswered
<1>4. \A q \in Proc : /\ pc'[q] \in StopWaits => pc[q] = pc'[q] \/ stop.phase # "none"
                      /\ pc'[q] = "awaitStart" => pc[q] = pc'[q] \/ startPromise' # 0
  BY <1>1, EnsureWaits DEF StopWaits
<1>5. pc'["recovery"] = "stopping" => pc["recovery"] = "stopping"
  BY <1>1, <1>2, EnsureWaits
<1>6. WaitsAreAnswered'
  BY <1>3, <1>4, <1>5, EnsureWaits, WaitsKept
<1>7. ReadyInv'
  BY EnsureWaits, ServiceKept DEF HostInv, TypeOK
<1>8. ExitPendingInv'
  BY EnsureWaits DEF WaitInv, ExitPendingInv
<1>9. QED  BY <1>6, <1>7, <1>8 DEF WaitInv

\* #stopConnection leaves a stop under way, the one before if there was one.
LEMMA StopIsPending ==
    ASSUME NEW c, StopConnection(c)
    PROVE  /\ stop'.phase # "none"
           /\ stop.phase # "none" => stop' = stop
           /\ stop.phase = "none" => stop'.conn = c
           /\ ready' \subseteq ready
           /\ StopBegins(c) => c \notin ready'
BY DEF StopConnection, StopBegins

\* A call of #stopConnection for a generation that is not served afterwards.
LEMMA WaitStops ==
    ASSUME HostInv, HostInv', WaitInv, NEW c, StopConnection(c),
           c \in finalized => c \notin ready,
           UNCHANGED <<startPromise, generation, connection, exitPc>>,
           \A p \in Proc : pc'[p] = "awaitStart" => pc[p] = "awaitStart",
           startPc' = startPc \/ \E g \in Gen : /\ startPc[g] \notin {"done", "resolving"}
                                               /\ startPc' = [startPc EXCEPT ![g] = "stopping"],
           pc'["recovery"] = "stopping" =>
               \/ pc["recovery"] = "stopping" /\ recoveryGeneration' = recoveryGeneration
               \/ stop.phase = "none" /\ recoveryGeneration' = c
    PROVE  WaitInv'
<1>1. \A g \in Gen : exitPc[g] # "awaitStop"
  BY DEF WaitInv, WaitsAreAnswered
<1>2. \A g \in Gen : /\ startPc[g] = "done" => startPc'[g] = "done"
                     /\ startPc[g] = "resolving" => startPc'[g] = "resolving"
  BY DEF HostInv, TypeOK
<1>3. WaitsAreAnswered'
  BY <1>1, StopIsPending, WaitsKept
<1>4. ReadyInv'
  <2>1. stop'.conn \notin ready'
    BY StopIsPending DEF WaitInv, ReadyInv, StopBegins
  <2>2. QED  BY <1>2, <2>1, StopIsPending DEF WaitInv, ReadyInv, HostInv, TypeOK
<1>5. ExitPendingInv'
  <2>1. \A g \in Gen : exitPc[g] = "waiting" => generation \in Gen
    BY HostAssumption DEF HostInv, TypeOK, AuthorityInv, ExitWaitInv, StartsInv, Gen
  <2>2. QED  BY <1>2, <2>1, StopIsPending DEF WaitInv, ExitPendingInv
<1>6. QED  BY <1>3, <1>4, <1>5 DEF WaitInv

LEMMA WaitLease ==
    ASSUME HostInv, HostInv', WaitInv, NEW l \in Lease,
           Acquire(l) \/ AcquireResolves(l) \/ AcquireRejects(l) \/ Release(l) \/ Request(l)
    PROVE  WaitInv'
<1> USE DEF hostVars, leaseVars, connVars, stopVars, localVars
<1>0. /\ l \in Proc /\ "request" \in Proc
      /\ pc \in [Proc -> Pcs]
  BY DEF Proc, Service, HostInv, TypeOK
<1>1. CASE Acquire(l)
  BY <1>0, <1>1, WaitLaunch DEF Acquire
<1>2. CASE AcquireResolves(l)
  BY <1>0, <1>2, WaitQuiet DEF AcquireResolves, StopWaits
<1>3. CASE AcquireRejects(l)
  BY <1>0, <1>3, WaitQuiet DEF AcquireRejects, StopWaits
<1>4. CASE Release(l)
  BY <1>0, <1>4, WaitQuiet DEF Release, StopWaits
<1>5. CASE Request(l)
  BY <1>0, <1>5, WaitLaunch DEF Request
<1>6. QED  BY <1>1, <1>2, <1>3, <1>4, <1>5

LEMMA WaitRequest ==
    ASSUME HostInv, HostInv', WaitInv,
           RequestSettles \/ \E p \in Lease \cup {"request", "retry", "recovery"} : EnsureAgain(p)
    PROVE  WaitInv'
<1> USE DEF hostVars, leaseVars, connVars, stopVars, localVars
<1>0. pc \in [Proc -> Pcs] /\ Lease \cup Service \subseteq Proc
  BY DEF Proc, HostInv, TypeOK
<1>1. CASE RequestSettles
  BY <1>0, <1>1, WaitQuiet DEF RequestSettles, StopWaits
<1>2. ASSUME NEW p \in Lease \cup {"request", "retry", "recovery"}, EnsureAgain(p)
      PROVE  WaitInv'
  <2>1. p \in Proc
    BY DEF Proc, Service
  <2>2. PICK r : EnsureStarted(connection, state, r)
    BY <1>2 DEF EnsureAgain
  <2>3. QED  BY <1>2, <2>1, <2>2, WaitLaunch DEF EnsureAgain
<1>3. QED  BY <1>1, <1>2

LEMMA WaitRetry ==
    ASSUME HostInv, HostInv', WaitInv, RetryStep
    PROVE  WaitInv'
<1> USE DEF hostVars, leaseVars, connVars, stopVars, localVars
<1>0. /\ pc \in [Proc -> Pcs] /\ "retry" \in Proc /\ "recovery" \in Proc
      /\ UNCHANGED <<connection, exitPc, localVars>>
  BY DEF Proc, Service, HostInv, TypeOK, RetryStep, Retry, RetryContinues, RetryStopped,
         RetrySettles
<1>1. ASSUME BreakerResets, UNCHANGED stopVars PROVE WaitInv'
  <2> DEFINE s == IF state = "circuit-open" THEN "stopped" ELSE state
  <2>1. CASE leases = {}
    BY <1>0, <1>1, <2>1, WaitQuiet DEF BreakerResets, StopWaits
  <2>2. CASE leases # {}
    <3>1. /\ EnsureStarted(connection, s, FALSE)
          /\ pc' = [pc EXCEPT !["retry"] = EnsurePc(connection, s)]
      BY <1>1, <2>2 DEF BreakerResets
    <3> HIDE DEF s
    <3>2. QED  BY <1>0, <1>1, <3>1, WaitLaunch
  <2>3. QED  BY <2>1, <2>2
<1>2. ASSUME RetryProceeds PROVE WaitInv'
  <2>1. CASE OwnsUnusable
    <3>1. /\ StopConnection(connection)
          /\ pc' = [pc EXCEPT !["retry"] = "stopping"]
          /\ UNCHANGED <<generation, startPromise, startPc>>
      BY <1>2, <2>1 DEF RetryProceeds
    <3>2. connection \notin finalized
      BY DEF HostInv, ServingInv, StopInv
    <3>3. /\ \A p \in Proc : pc'[p] = "awaitStart" => pc[p] = "awaitStart"
          /\ pc'["recovery"] = pc["recovery"]
      BY <1>0, <3>1
    <3>4. QED  BY <1>0, <3>1, <3>2, <3>3, WaitStops
  <2>2. QED  BY <1>1, <1>2, <2>1 DEF RetryProceeds
<1>3. CASE Retry
  <2>1. CASE stop.phase # "none"
    <3>1. /\ pc' = [pc EXCEPT !["retry"] = "draining"]
          /\ UNCHANGED <<hostVars, stopVars>>
      BY <1>3, <2>1 DEF Retry
    <3>2. \A p \in Proc : /\ pc'[p] \in StopWaits => pc[p] = pc'[p] \/ stop.phase # "none"
                          /\ pc'[p] = "awaitStart" => pc[p] = pc'[p]
      BY <1>0, <2>1, <3>1
    <3>3. pc'["recovery"] = pc["recovery"]
      BY <1>0, <3>1
    <3>4. WaitsAreAnswered'
      <4>1. \A g \in Gen : exitPc[g] # "awaitStop"
        BY DEF WaitInv, WaitsAreAnswered
      <4>2. QED  BY <1>0, <3>1, <3>2, <3>3, <4>1, WaitsKept
    <3>5. ReadyInv' /\ ExitPendingInv'
      BY <1>0, <3>1, ServiceKept, ExitPendingKept
    <3>6. QED  BY <3>4, <3>5 DEF WaitInv
  <2>2. QED  BY <1>2, <1>3, <2>1 DEF Retry
<1>4. CASE RetrySettles
  BY <1>0, <1>4, WaitQuiet DEF RetrySettles, StopWaits
<1>5. QED
  BY <1>1, <1>2, <1>3, <1>4 DEF RetryStep, RetryContinues, RetryStopped

\* A served generation is the connection, and no stop is under way.
LEMMA ServedHasNoStop ==
    ASSUME HostInv, NEW g, ServesGeneration(g)
    PROVE  g = connection /\ g \notin finalized /\ stop.phase = "none"
BY DEF ServesGeneration, HostInv, ServingInv, ReadyMeansServing

LEMMA WaitRecovery ==
    ASSUME HostInv, HostInv', WaitInv, RecoveryStep
    PROVE  WaitInv'
<1> USE DEF hostVars, leaseVars, connVars, stopVars, localVars
<1>0. pc \in [Proc -> Pcs] /\ "recovery" \in Proc
  BY DEF Proc, Service, HostInv, TypeOK
<1>1. ASSUME NEW g \in Gen, RestartForRecovery(g)
      PROVE  WaitInv'
  <2>1. g \notin finalized /\ stop.phase = "none"
    BY <1>1, ServedHasNoStop DEF RestartForRecovery
  <2>2. /\ StopConnection(g) /\ recoveryGeneration' = g
        /\ pc' = [pc EXCEPT !["recovery"] = "stopping"]
        /\ UNCHANGED <<generation, startPromise, startPc, connection, exitPc>>
    BY <1>1 DEF RestartForRecovery
  <2>3. \A p \in Proc : pc'[p] = "awaitStart" => pc[p] = "awaitStart"
    BY <1>0, <2>2
  <2>4. QED  BY <2>1, <2>2, <2>3, WaitStops
<1>2. CASE RecoveryStopped
  <2>1. CASE Usable(state) /\ ~RecoverySuperseded
    BY <1>0, <1>2, <2>1, WaitLaunch DEF RecoveryStopped
  <2>2. CASE ~(Usable(state) /\ ~RecoverySuperseded)
    BY <1>0, <1>2, <2>2, WaitQuiet DEF RecoveryStopped, StopWaits
  <2>3. QED  BY <2>1, <2>2
<1>3. CASE RecoverySettles
  BY <1>0, <1>3, WaitQuiet DEF RecoverySettles, StopWaits
<1>4. QED  BY <1>1, <1>2, <1>3 DEF RecoveryStep

LEMMA WaitStopCalls ==
    ASSUME HostInv, HostInv', WaitInv,
           \/ \E g \in Gen : AbortServerRequestGeneration(g)
           \/ IdleTimerFires
           \/ DisposeStep
    PROVE  WaitInv'
<1> USE DEF hostVars, leaseVars, connVars, stopVars, localVars
<1>0. /\ pc \in [Proc -> Pcs] /\ "dispose" \in Proc /\ "recovery" \in Proc
      /\ connection \notin finalized
  BY DEF Proc, Service, HostInv, TypeOK, ServingInv, StopInv
<1>1. ASSUME NEW g \in Gen, AbortServerRequestGeneration(g)
      PROVE  WaitInv'
  <2>1. g \notin finalized
    BY <1>1, ServedHasNoStop DEF AbortServerRequestGeneration
  <2>2. QED  BY <1>1, <2>1, WaitStops DEF AbortServerRequestGeneration
<1>2. CASE IdleTimerFires
  <2>1. CASE ~disposed /\ leases = {} /\ connection # 0
    BY <1>0, <1>2, <2>1, WaitStops DEF IdleTimerFires
  <2>2. CASE ~(~disposed /\ leases = {} /\ connection # 0)
    BY <1>0, <1>2, <2>2, WaitQuiet DEF IdleTimerFires
  <2>3. QED  BY <2>1, <2>2
<1>3. ASSUME pc' = [pc EXCEPT !["dispose"] = "stopping"], StopConnection(connection),
             UNCHANGED <<generation, startPromise, startPc, connection, exitPc,
                         recoveryGeneration>>
      PROVE  WaitInv'
  <2>1. /\ \A p \in Proc : pc'[p] = "awaitStart" => pc[p] = "awaitStart"
        /\ pc'["recovery"] = pc["recovery"]
    BY <1>0, <1>3
  <2>2. QED  BY <1>0, <1>3, <2>1, WaitStops
<1>4. ASSUME pc' = [pc EXCEPT !["dispose"] = DisposePc],
             UNCHANGED <<generation, startPromise, startPc, connection, exitPc, stopVars,
                         recoveryGeneration>>
      PROVE  WaitInv'
  <2>1. \A p \in Proc : /\ pc'[p] \in StopWaits => pc[p] = pc'[p]
                        /\ pc'[p] = "awaitStart" => pc[p] = pc'[p] \/ startPromise # 0
    BY <1>0, <1>4 DEF DisposePc, StopWaits
  <2>2. pc'["recovery"] = pc["recovery"]
    BY <1>0, <1>4
  <2>3. \A g \in Gen : exitPc[g] # "awaitStop"
    BY DEF WaitInv, WaitsAreAnswered
  <2>4. WaitsAreAnswered'
    BY <1>4, <2>1, <2>2, <2>3, WaitsKept
  <2>5. ReadyInv' /\ ExitPendingInv'
    BY <1>4, ServiceKept, ExitPendingKept
  <2>6. QED  BY <2>4, <2>5 DEF WaitInv
<1>5. CASE Dispose
  BY <1>3, <1>4, <1>5 DEF Dispose
<1>6. CASE DisposeStopped
  BY <1>4, <1>6 DEF DisposeStopped
<1>7. CASE DisposeStarted
  <2>1. CASE connection \notin {0, disposeTarget}
    BY <1>3, <1>7, <2>1 DEF DisposeStarted
  <2>2. CASE connection \in {0, disposeTarget}
    BY <1>0, <1>7, <2>2, WaitQuiet DEF DisposeStarted, StopWaits
  <2>3. QED  BY <2>1, <2>2
<1>8. QED  BY <1>1, <1>2, <1>5, <1>6, <1>7 DEF DisposeStep

\* The start promise settles: everybody who awaits it is told.
LEMMA WaitSettles ==
    ASSUME HostInv, HostInv', WaitInv, NEW g \in Gen, NEW ok \in BOOLEAN,
           startPc[g] \notin {"none", "done", "resolving"} \/ Quiescent,
           startPc[g] \notin {"none", "done"},
           StartSettles(g, ok), UNCHANGED <<stop, connection, generation, localVars>>,
           ready' = ready \/ (ready' = ready \cup {g} /\ connection = g
                                /\ stop.phase = "none")
    PROVE  WaitInv'
<1> USE DEF localVars
<1>0. g = generation /\ g = startPromise
  BY DEF HostInv, AuthorityInv, StartsInv, SingleStart
<1>1. \A p \in Proc : /\ pc'[p] # "awaitStart"
                      /\ pc'[p] \in StopWaits => pc[p] = pc'[p]
  BY DEF StartSettles, WakeStart, StopWaits
<1>2. \A h \in Gen : /\ exitPc'[h] # "awaitStart"
                     /\ exitPc'[h] \in {"awaitStop", "waiting"} => exitPc[h] = exitPc'[h]
  BY DEF StartSettles, WakeStart
<1>3. /\ startPc'[g] = "done"
      /\ \A h \in Gen : h # g => startPc'[h] = startPc[h]
  BY DEF StartSettles, HostInv, TypeOK
<1>4. \A h \in Gen : h # g => startPc[h] \notin {"stopping", "resolving"}
  BY DEF HostInv, AuthorityInv, StartsInv, SingleStart
<1>5. WaitsAreAnswered'
  <2>1. "recovery" \in Proc
    BY DEF Proc, Service
  <2>2. stop.phase # "none" => connection \in {0, stop.conn}
    BY DEF WaitInv, WaitsAreAnswered
  <2>3. \A p \in Proc : pc'[p] \in {"awaitStop", "stopping", "draining"} => stop.phase # "none"
    BY <1>1 DEF WaitInv, WaitsAreAnswered, StopWaits
  <2>4. \A h \in Gen : startPc'[h] # "stopping" /\ exitPc'[h] # "awaitStop"
    BY <1>2, <1>3, <1>4 DEF WaitInv, WaitsAreAnswered
  <2>5. pc'["recovery"] = "stopping" => stop.conn = recoveryGeneration
    BY <1>1, <2>1 DEF WaitInv, WaitsAreAnswered, StopWaits
  <2>6. QED  BY <1>1, <1>2, <2>2, <2>3, <2>4, <2>5 DEF WaitsAreAnswered
<1>6. ReadyInv'
  BY <1>3 DEF WaitInv, ReadyInv, HostInv, TypeOK
<1>7. ExitPendingInv'
  <2>1. ASSUME NEW h \in Gen, exitPc'[h] = "waiting"
        PROVE  h = generation
    <3>1. exitPc[h] = "waiting" /\ h \in published
      BY <1>2, <2>1 DEF HostInv, AuthorityInv, ExitWaitInv
    <3>2. CASE startPc[generation] = "resolving"
      <4>1. h \in alive
        BY <1>0, <3>1, <3>2 DEF Quiescent, Exited
      <4>2. QED  BY <3>1, <4>1 DEF HostInv, AuthorityInv, OwnershipInv
    <3>3. CASE startPc[generation] # "resolving"
      BY <3>1, <3>3 DEF WaitInv, ExitPendingInv
    <3>4. QED  BY <3>2, <3>3
  <2>2. QED  BY <1>2, <2>1 DEF WaitInv, ExitPendingInv
<1>8. QED  BY <1>5, <1>6, <1>7 DEF WaitInv

\* A start that goes on after the runtime was resolved.
LEMMA WaitAdvances ==
    ASSUME HostInv, HostInv', WaitInv, NEW g \in Gen,
           startPc[g] \notin {"none", "done"}, startPc[g] = "resolving" => Quiescent,
           NEW v \in {"initializing", "terminating", "confirming"},
           startPc' = [startPc EXCEPT ![g] = v],
           connection' \in {connection, g},
           UNCHANGED <<generation, startPromise, stopVars, exitPc, pc, localVars>>
    PROVE  WaitInv'
<1> USE DEF stopVars, localVars
<1>0. g = generation
  BY DEF HostInv, AuthorityInv, StartsInv, SingleStart
<1>1. startPc'[g] = v /\ \A h \in Gen : h # g => startPc'[h] = startPc[h]
  BY DEF HostInv, TypeOK
<1>2. WaitsAreAnswered'
  <2>1. \A h \in Gen : startPc'[h] = "stopping" => startPc[h] = "stopping"
    BY <1>1
  <2>2. \A h \in Gen : exitPc[h] # "awaitStop"
    BY DEF WaitInv, WaitsAreAnswered
  <2>3. QED  BY <2>1, <2>2, WaitsKept
<1>3. ReadyInv'
  BY <1>1 DEF WaitInv, ReadyInv, HostInv, TypeOK
<1>4. ExitPendingInv'
  <2>1. ASSUME NEW h \in Gen, exitPc[h] = "waiting"
        PROVE  h = generation
    <3>1. h \in published
      BY <2>1 DEF HostInv, AuthorityInv, ExitWaitInv
    <3>2. CASE startPc[generation] = "resolving"
      <4>1. h \in alive
        BY <1>0, <2>1, <3>1, <3>2 DEF Quiescent, Exited
      <4>2. QED  BY <3>1, <4>1 DEF HostInv, AuthorityInv, OwnershipInv
    <3>3. QED  BY <2>1, <3>2 DEF WaitInv, ExitPendingInv
  <2>2. QED  BY <1>0, <2>1 DEF WaitInv, ExitPendingInv
<1>5. QED  BY <1>2, <1>3, <1>4 DEF WaitInv

LEMMA WaitStart ==
    ASSUME HostInv, HostInv', WaitInv, StartStep
    PROVE  WaitInv'
<1> USE DEF connVars, stopVars
<1> SUFFICES ASSUME NEW g \in Gen,
                    \/ SpawnSucceeds(g) \/ SpawnFails(g)
                    \/ SpawnUnpublished(g) \/ UnpublishedTerminates(g)
                    \/ InitializeReplies(g) \/ InitializedConfirmed(g)
                    \/ HandshakeFails(g) \/ StartRejects(g)
             PROVE  WaitInv'
  BY DEF StartStep
<1>1. CASE SpawnSucceeds(g) \/ SpawnUnpublished(g) \/ InitializeReplies(g)
  <2>1. CASE SpawnSucceeds(g)
    BY <2>1, WaitAdvances DEF SpawnSucceeds
  <2>2. CASE SpawnUnpublished(g)
    BY <2>2, WaitAdvances DEF SpawnUnpublished
  <2>3. CASE InitializeReplies(g)
    BY <2>3, WaitAdvances DEF InitializeReplies
  <2>4. QED  BY <1>1, <2>1, <2>2, <2>3
<1>2. CASE SpawnFails(g) \/ UnpublishedTerminates(g) \/ StartRejects(g)
  <2>1. CASE SpawnFails(g)
    BY <2>1, WaitSettles DEF SpawnFails
  <2>2. CASE UnpublishedTerminates(g)
    BY <2>2, WaitSettles DEF UnpublishedTerminates
  <2>3. CASE StartRejects(g)
    BY <2>3, WaitSettles DEF StartRejects
  <2>4. QED  BY <1>2, <2>1, <2>2, <2>3
<1>3. CASE InitializedConfirmed(g)
  <2>1. /\ state' = "ready" /\ stop' = stop /\ StartSettles(g, TRUE)
        /\ ready' = ready \cup {g} /\ connection = g
        /\ startPc[g] = "confirming"
        /\ UNCHANGED <<connection, generation, localVars>>
    BY <1>3 DEF InitializedConfirmed
  <2>2. stop.phase = "none"
    BY <2>1 DEF HostInv, ServingInv, ReadyMeansServing
  <2>3. QED  BY <2>1, <2>2, WaitSettles
<1>4. CASE HandshakeFails(g)
  <2>1. startPc[g] \in {"initializing", "confirming"}
    BY <1>4 DEF HandshakeFails
  <2>2. g \notin ready
    BY <2>1 DEF WaitInv, ReadyInv
  <2>3. QED  BY <1>4, <2>1, <2>2, WaitStops DEF HandshakeFails, localVars
<1>5. QED  BY <1>1, <1>2, <1>3, <1>4

LEMMA WaitStop ==
    ASSUME HostInv, HostInv', WaitInv, StopStep
    PROVE  WaitInv'
<1> USE DEF hostVars, leaseVars, connVars, localVars
<1>0. \A g \in Gen : exitPc[g] # "awaitStop"
  BY DEF WaitInv, WaitsAreAnswered
<1>1. CASE StopConfirmed
  <2>1. /\ stop' = [stop EXCEPT !.phase = "settled"] /\ stop.phase \in {"grace", "killGrace"}
        /\ connection' = IF connection = stop.conn THEN 0 ELSE connection
        /\ UNCHANGED <<generation, startPromise, startPc, exitPc, pc, ready, localVars>>
    BY <1>1 DEF StopConfirmed, StopResumes
  <2>2. stop \in [phase : StopPhases \ {"none"}, conn : Gen]
    BY <2>1 DEF HostInv, TypeOK, NoStop
  <2>3. stop'.phase # "none" /\ stop'.conn = stop.conn
    BY <2>1, <2>2
  <2>4. WaitsAreAnswered'
    BY <1>0, <2>1, <2>3, WaitsKept
  <2>5. ReadyInv' /\ ExitPendingInv'
    BY <2>1, <2>3 DEF WaitInv, ReadyInv, ExitPendingInv
  <2>6. QED  BY <2>4, <2>5 DEF WaitInv
<1>2. CASE GraceExpires \/ KillGraceExpires
  <2>1. /\ \E v \in {"killGrace", "settled", "failed"} : stop' = [stop EXCEPT !.phase = v]
        /\ stop.phase # "none"
        /\ UNCHANGED <<generation, startPromise, startPc, exitPc, pc, ready, connection,
                       localVars>>
    BY <1>2 DEF GraceExpires, KillGraceExpires
  <2>2. stop \in [phase : StopPhases \ {"none"}, conn : Gen]
    BY <2>1 DEF HostInv, TypeOK, NoStop
  <2>3. stop'.phase # "none" /\ stop'.conn = stop.conn
    BY <2>1, <2>2
  <2>4. WaitsAreAnswered'
    BY <1>0, <2>1, <2>3, WaitsKept
  <2>5. ReadyInv' /\ ExitPendingInv'
    BY <2>1, <2>3 DEF WaitInv, ReadyInv, ExitPendingInv
  <2>6. QED  BY <2>4, <2>5 DEF WaitInv
<1>3. CASE StopSettles
  <2>1. PICK ok \in BOOLEAN : /\ pc' = [p \in Proc |-> WakeStop(pc[p], ok)]
                              /\ startPc' = [g \in Gen |-> WakeStop(startPc[g], ok)]
    BY <1>3 DEF StopSettles
  <2>2. /\ stop' = NoStop
        /\ UNCHANGED <<generation, startPromise, exitPc, ready, connection, localVars>>
    BY <1>3 DEF StopSettles
  <2>3. \A p \in Proc : /\ pc'[p] \notin StopWaits
                        /\ pc'[p] = "awaitStart" => pc[p] = "awaitStart"
    BY <2>1 DEF WakeStop, StopWaits
  <2>4. \A g \in Gen : /\ startPc'[g] # "stopping"
                       /\ startPc[g] \in {"done", "resolving"} => startPc'[g] = startPc[g]
    BY <2>1 DEF WakeStop
  <2>5. WaitsAreAnswered'
    <3>1. "recovery" \in Proc /\ stop'.phase = "none"
      BY <2>2 DEF Proc, Service, NoStop
    <3>2. \A p \in Proc : pc'[p] = "awaitStart" => startPromise # 0
      BY <2>3 DEF WaitInv, WaitsAreAnswered
    <3>3. \A g \in Gen : exitPc[g] = "awaitStart" => startPromise # 0
      BY DEF WaitInv, WaitsAreAnswered
    <3>4. QED  BY <1>0, <2>2, <2>3, <2>4, <3>1, <3>2, <3>3 DEF WaitsAreAnswered, StopWaits
  <2>6. ReadyInv'
    BY <2>2, <2>4 DEF WaitInv, ReadyInv, HostInv, TypeOK, NoStop
  <2>7. ExitPendingInv'
    <3>1. \A g \in Gen : exitPc[g] = "waiting" => generation \in Gen
      BY HostAssumption DEF HostInv, TypeOK, AuthorityInv, ExitWaitInv, StartsInv, Gen
    <3>2. QED  BY <2>2, <2>4, <3>1 DEF WaitInv, ExitPendingInv
  <2>8. QED  BY <2>5, <2>6, <2>7 DEF WaitInv
<1>4. QED  BY <1>1, <1>2, <1>3 DEF StopStep

\* The restart after a crash finds no stop under way, and no other exit is awaited.
LEMMA WaitExitHandled ==
    ASSUME HostInv, HostInv', WaitInv, NEW g \in Gen, ExitHandled(g, TRUE),
           g = generation \/ startPc[generation] = "resolving",
           \A h \in Gen : exitPc[h] = "waiting" => h = g \/ h \notin ready,
           exitPc[g] = "waiting" \/ \A h \in Gen : exitPc[h] # "waiting",
           UNCHANGED <<stop, ready, pc, localVars>>
    PROVE  WaitInv'
<1> USE DEF localVars
<1>0. \A h \in Gen : exitPc[h] # "awaitStop"
  BY DEF WaitInv, WaitsAreAnswered
<1>1. CASE RestartsAfterCrash(g)
  <2>1. /\ EnsureStarted(0, state, TRUE)
        /\ exitPc' = [exitPc EXCEPT ![g] = EnsurePc(0, state)]
        /\ g \in ready
    BY <1>1 DEF ExitHandled, RestartsAfterCrash
  <2>2. stop.phase = "none"
    <3>1. CASE g = generation
      BY <2>1, <3>1 DEF WaitInv, ReadyInv, HostInv, ServingInv, StopInv
    <3>2. CASE startPc[generation] = "resolving"
      <4>1. generation \in Gen
        BY <2>1, HostAssumption
        DEF HostInv, TypeOK, AuthorityInv, StartsInv, WaitInv, ReadyInv, Gen
      <4>2. QED  BY <3>2, <4>1 DEF HostInv, ServingInv, StopInv
    <3>3. QED  BY <3>1, <3>2
  <2>3. \A h \in Gen : exitPc'[h] = IF h = g THEN EnsurePc(0, state) ELSE exitPc[h]
    BY <2>1 DEF HostInv, TypeOK
  <2>4. WaitsAreAnswered'
    <3>1. EnsurePc(0, state) = "awaitStart" => startPromise' # 0
      BY <2>1, EnsureWaits
    <3>2. EnsurePc(0, state) # "awaitStop"
      BY <2>1, <2>2, EnsureWaits
    <3>3. \A h \in Gen : /\ exitPc'[h] = "awaitStart"
                                => exitPc[h] = "awaitStart" \/ startPromise' # 0
                         /\ exitPc'[h] # "awaitStop"
      BY <1>0, <2>3, <3>1, <3>2
    <3>4. QED  BY <2>1, <3>3, EnsureWaits, WaitsKept
  <2>5. ReadyInv'
    BY <2>1, EnsureWaits, ServiceKept DEF HostInv, TypeOK
  <2>6. ExitPendingInv'
    <3>0. EnsurePc(0, state) # "waiting"
      BY <2>1, EnsureWaits
    <3>1. \A h \in Gen : exitPc'[h] = "waiting" => h # g /\ exitPc[h] = "waiting"
      BY <2>3, <3>0
    <3>2. \/ generation' = generation /\ startPc' = startPc
          \/ startPc'[generation'] = "resolving"
      BY <2>1, EnsureWaits
    <3>3. QED  BY <3>1, <3>2 DEF WaitInv, ExitPendingInv
  <2>7. QED  BY <2>4, <2>5, <2>6 DEF WaitInv
<1>2. CASE ~RestartsAfterCrash(g)
  <2>1. /\ exitPc' = [exitPc EXCEPT ![g] = "none"]
        /\ UNCHANGED <<generation, startPromise, startPc>>
    BY <1>2 DEF ExitHandled
  <2>2. \A h \in Gen : exitPc'[h] = IF h = g THEN "none" ELSE exitPc[h]
    BY <2>1 DEF HostInv, TypeOK
  <2>3. WaitsAreAnswered'
    BY <1>0, <2>1, <2>2, WaitsKept
  <2>4. ReadyInv'
    BY <2>1, ServiceKept
  <2>5. ExitPendingInv'
    BY <2>1, <2>2 DEF WaitInv, ExitPendingInv
  <2>6. QED  BY <2>3, <2>4, <2>5 DEF WaitInv
<1>3. QED  BY <1>1, <1>2

LEMMA WaitExit ==
    ASSUME HostInv, HostInv', WaitInv, ExitStep
    PROVE  WaitInv'
<1> USE DEF hostVars, leaseVars, connVars, stopVars, localVars
<1> SUFFICES ASSUME NEW g \in Gen,
                    \/ ChildExits(g) \/ StdioFails(g) \/ ProtocolError(g)
                    \/ ExitWaitConfirmed(g) \/ ExitWaitExpires(g)
                    \/ ExitRestartSettles(g)
             PROVE  WaitInv'
  BY DEF ExitStep
<1>0. \A h \in Gen : exitPc[h] # "awaitStop"
  BY DEF WaitInv, WaitsAreAnswered
<1>1. g \in alive \cap published => /\ g = generation /\ connection = g
                                    /\ \A h \in Gen : exitPc[h] = "waiting" => h = g
  BY DEF HostInv, AuthorityInv, OwnershipInv, ExitWaitInv
<1>2. CASE ChildExits(g)
  <2>1. CASE exitPc[g] \in {"waiting", "waitingStale"}
    BY <1>2, <2>1, WaitQuiet DEF ChildExits
  <2>2. CASE exitPc[g] \notin {"waiting", "waitingStale"}
    <3>1. ExitHandled(g, TRUE) /\ g \in alive \cap published
      BY <1>1, <1>2, <2>2 DEF ChildExits, IsCurrent
    <3>2. UNCHANGED <<stop, ready, pc, localVars>>
      BY <1>2 DEF ChildExits
    <3>3. QED  BY <1>1, <2>2, <3>1, <3>2, WaitExitHandled
  <2>3. QED  BY <2>1, <2>2
<1>3. CASE StdioFails(g)
  <2>1. /\ exitPc' = [exitPc EXCEPT ![g] = "waiting"] /\ g \in alive \cap published
        /\ UNCHANGED <<hostVars, stop, ready, connection, pc, localVars>>
    BY <1>1, <1>3 DEF StdioFails, IsCurrent
  <2>2. \A h \in Gen : exitPc'[h] = IF h = g THEN "waiting" ELSE exitPc[h]
    BY <2>1 DEF HostInv, TypeOK
  <2>3. WaitsAreAnswered'
    BY <1>0, <2>1, <2>2, WaitsKept
  <2>4. ReadyInv'
    BY <2>1, ServiceKept
  <2>5. ExitPendingInv'
    BY <1>1, <2>1, <2>2 DEF WaitInv, ExitPendingInv
  <2>6. QED  BY <2>3, <2>4, <2>5 DEF WaitInv
<1>4. CASE ProtocolError(g)
  BY <1>4, WaitQuiet DEF ProtocolError
<1>5. CASE ExitWaitConfirmed(g)
  <2>1. exitPc[g] = "waiting"
    BY <1>5 DEF ExitWaitConfirmed, HostInv, AuthorityInv, ExitWaitInv
  <2>2. ExitHandled(g, TRUE) /\ UNCHANGED <<stop, ready, pc, localVars>>
    BY <1>5, <2>1 DEF ExitWaitConfirmed
  <2>3. g = generation \/ startPc[generation] = "resolving"
    BY <2>1 DEF WaitInv, ExitPendingInv
  <2>4. ASSUME NEW h \in Gen, exitPc[h] = "waiting", h # g, h \in ready PROVE FALSE
    <3>1. connection = h /\ h = generation
      BY <2>4, HostAssumption DEF WaitInv, ExitPendingInv, HostInv, ServingInv, StopInv, Gen
    <3>2. startPc[h] = "resolving"
      BY <2>3, <2>4, <3>1
    <3>3. QED  BY <2>4, <3>2 DEF WaitInv, ReadyInv
  <2>5. QED  BY <2>1, <2>2, <2>3, <2>4, WaitExitHandled
<1>6. CASE ExitWaitExpires(g) \/ ExitRestartSettles(g)
  <2>1. /\ exitPc' = [exitPc EXCEPT ![g] = "none"]
        /\ UNCHANGED <<generation, startPromise, startPc, stop, ready, connection, pc,
                       localVars>>
    BY <1>6 DEF ExitWaitExpires, ExitRestartSettles
  <2>2. \A h \in Gen : exitPc'[h] = IF h = g THEN "none" ELSE exitPc[h]
    BY <2>1 DEF HostInv, TypeOK
  <2>3. WaitsAreAnswered'
    BY <1>0, <2>1, <2>2, WaitsKept
  <2>4. ReadyInv' /\ ExitPendingInv'
    BY <2>1, <2>2, ServiceKept, ExitPendingKept
  <2>5. QED  BY <2>3, <2>4 DEF WaitInv
<1>7. QED  BY <1>2, <1>3, <1>4, <1>5, <1>6

LEMMA WaitStep == HostInv /\ HostInv' /\ WaitInv /\ [Next]_vars => WaitInv'
<1> SUFFICES ASSUME HostInv, HostInv', WaitInv, [Next]_vars PROVE WaitInv'
  OBVIOUS
<1>1. CASE UNCHANGED vars
  BY <1>1, WaitQuiet DEF vars, hostVars, stopVars, localVars
<1>2. QED
  BY <1>1, WaitLease, WaitRequest, WaitRetry, WaitRecovery, WaitStopCalls, WaitStart,
     WaitStop, WaitExit
  DEF Next, LeaseStep

LEMMA WaitInvariant == Spec => []WaitInv
<1>1. Init => WaitInv
  BY HostAssumption
  DEF Init, WaitInv, WaitsAreAnswered, ReadyInv, ExitPendingInv, NoStop, Proc, Service
<1>2. HostInv /\ HostInv' /\ WaitInv /\ [Next]_vars => WaitInv'
  BY WaitStep
<1>3. QED  BY <1>1, <1>2, HostInvariant, PTL DEF Spec

\* No acquire, request, retry, recovery, disposal, start or restart of the host
\* waits for a stop or a start that nobody carries out any more.
THEOREM WaitsAreAlwaysAnswered == Spec => []WaitsAreAnswered
<1>1. WaitInv => WaitsAreAnswered
  BY DEF WaitInv
<1>2. QED  BY <1>1, WaitInvariant, PTL

-----------------------------------------------------------------------------
(* Disposal                                                                *)

\* What dispose() has waited for when it is at each of its places.
DisposalInv ==
    /\ pc["dispose"] # "idle" => disposed
    /\ pc["dispose"] \notin {"again", "held", "awaitStop", "draining", "drained"}
    /\ pc["dispose"] \in {"started", "failed", "done"} => startPromise = 0
    /\ pc["dispose"] \notin {"idle", "stopping"} => connection \in {0} \cup killRequested

\* A process is declared lost only after it was killed.
KillInv ==
    stop.phase \in {"killGrace", "settled", "failed"} => connection \in {0} \cup killRequested

DisposeInv == DisposalInv /\ KillInv

\* A step of somebody else: it starts nothing once dispose() was called, and it
\* declares nothing lost.
LEMMA DisposalKept ==
    ASSUME DisposalInv, pc'["dispose"] = pc["dispose"], disposed => disposed',
           disposed => startPromise' \in {0, startPromise},
           disposed => connection' \in {0, connection},
           killRequested \subseteq killRequested'
    PROVE  DisposalInv'
BY DEF DisposalInv

LEMMA KillKept ==
    ASSUME KillInv, stop' = stop \/ stop'.phase = "none", connection' \in {0, connection},
           killRequested \subseteq killRequested'
    PROVE  KillInv'
BY DEF KillInv

\* ensureStarted starts nothing in a disposed host.
LEMMA DisposedStartsNothing ==
    ASSUME NEW c, NEW s, NEW r, EnsureStarted(c, s, r), disposed
    PROVE  startPromise' = startPromise
BY DEF EnsureStarted, Launches, MustLaunch, Usable

\* #stopConnection shortens the grace period only of a connection that was killed.
LEMMA KillStops ==
    ASSUME HostInv, KillInv, NEW c, StopConnection(c), connection \in {0, c},
           UNCHANGED <<connection, killRequested>>
    PROVE  KillInv'
<1>1. CASE StopBegins(c)
  BY <1>1 DEF StopConnection, KillInv
<1>2. CASE ~StopBegins(c)
  <2>1. connection \notin finalized
    BY DEF HostInv, ServingInv, StopInv
  <2>2. stop.phase = "none" => connection = 0
    BY <1>2, <2>1 DEF StopBegins
  <2>3. QED  BY <1>2, <2>2 DEF StopConnection, KillInv
<1>3. QED  BY <1>1, <1>2

LEMMA DisposeOperations ==
    ASSUME HostInv, DisposeInv,
           \/ LeaseStep \/ RequestSettles
           \/ \E p \in Lease \cup {"request", "retry", "recovery"} : EnsureAgain(p)
    PROVE  DisposeInv'
<1> USE DEF hostVars, leaseVars, connVars, stopVars, localVars, DisposeInv
<1>0. /\ pc \in [Proc -> Pcs] /\ "dispose" \in Proc
      /\ "dispose" \notin Lease \cup {"request", "retry", "recovery"}
  BY HostAssumption DEF Proc, Service, HostInv, TypeOK
<1>1. /\ UNCHANGED <<stop, connection, killRequested, disposed>>
      /\ pc'["dispose"] = pc["dispose"]
  <2>1. ASSUME NEW l \in Lease,
               \/ Acquire(l) \/ AcquireResolves(l) \/ AcquireRejects(l)
               \/ Release(l) \/ Request(l)
        PROVE  /\ UNCHANGED <<stop, connection, killRequested, disposed>>
               /\ pc'["dispose"] = pc["dispose"]
    BY <1>0, <2>1 DEF Acquire, AcquireResolves, AcquireRejects, Release, Request
  <2>2. CASE RequestSettles
    BY <1>0, <2>2 DEF RequestSettles
  <2>3. ASSUME NEW p \in Lease \cup {"request", "retry", "recovery"}, EnsureAgain(p)
        PROVE  /\ UNCHANGED <<stop, connection, killRequested, disposed>>
               /\ pc'["dispose"] = pc["dispose"]
    BY <1>0, <2>3 DEF EnsureAgain
  <2>4. QED  BY <2>1, <2>2, <2>3 DEF LeaseStep
<1>2. disposed => startPromise' = startPromise
  <2>1. ASSUME NEW l \in Lease,
               \/ Acquire(l) \/ AcquireResolves(l) \/ AcquireRejects(l)
               \/ Release(l) \/ Request(l), disposed
        PROVE  startPromise' = startPromise
    BY <2>1, DisposedStartsNothing
    DEF Acquire, AcquireResolves, AcquireRejects, Release, Request
  <2>2. CASE RequestSettles
    BY <2>2 DEF RequestSettles
  <2>3. ASSUME NEW p \in Lease \cup {"request", "retry", "recovery"}, EnsureAgain(p), disposed
        PROVE  startPromise' = startPromise
    BY <2>3, DisposedStartsNothing DEF EnsureAgain
  <2>4. QED  BY <2>1, <2>2, <2>3 DEF LeaseStep
<1>3. QED  BY <1>1, <1>2, DisposalKept, KillKept

LEMMA DisposeRetry ==
    ASSUME HostInv, DisposeInv, RetryStep
    PROVE  DisposeInv'
<1> USE DEF hostVars, connVars, stopVars, DisposeInv
<1>0. pc \in [Proc -> Pcs] /\ "dispose" \in Proc
  BY DEF Proc, Service, HostInv, TypeOK
<1>1. UNCHANGED <<connection, killRequested, disposed>>
  BY DEF RetryStep, Retry, RetryContinues, RetryStopped, RetrySettles
<1>2. ASSUME BreakerResets
      PROVE  /\ pc'["dispose"] = pc["dispose"]
             /\ disposed => startPromise' = startPromise
  BY <1>0, <1>2, DisposedStartsNothing DEF BreakerResets
<1>3. ASSUME RetryProceeds
      PROVE  /\ pc'["dispose"] = pc["dispose"]
             /\ disposed => startPromise' = startPromise
             /\ KillInv'
  <2>1. CASE OwnsUnusable
    BY <1>0, <1>1, <1>3, <2>1, KillStops DEF RetryProceeds
  <2>2. CASE ~OwnsUnusable
    BY <1>1, <1>2, <1>3, <2>2, KillKept DEF RetryProceeds
  <2>3. QED  BY <2>1, <2>2
<1>4. CASE Retry
  <2>1. CASE stop.phase # "none"
    BY <1>0, <1>1, <1>4, <2>1, DisposalKept, KillKept DEF Retry
  <2>2. CASE stop.phase = "none"
    BY <1>1, <1>3, <1>4, <2>2, DisposalKept DEF Retry
  <2>3. QED  BY <2>1, <2>2
<1>5. CASE RetryContinues
  BY <1>1, <1>3, <1>5, DisposalKept DEF RetryContinues
<1>6. CASE RetryStopped
  BY <1>1, <1>2, <1>6, DisposalKept, KillKept DEF RetryStopped
<1>7. CASE RetrySettles
  BY <1>0, <1>1, <1>7, DisposalKept, KillKept DEF RetrySettles
<1>8. QED  BY <1>4, <1>5, <1>6, <1>7 DEF RetryStep

LEMMA DisposeStopCalls ==
    ASSUME HostInv, DisposeInv,
           \/ RecoveryStep
           \/ \E g \in Gen : AbortServerRequestGeneration(g)
           \/ IdleTimerFires
    PROVE  DisposeInv'
<1> USE DEF hostVars, connVars, stopVars, DisposeInv
<1>0. pc \in [Proc -> Pcs] /\ "dispose" \in Proc
  BY DEF Proc, Service, HostInv, TypeOK
<1>1. ASSUME NEW g \in Gen, RestartForRecovery(g) \/ AbortServerRequestGeneration(g)
      PROVE  DisposeInv'
  <2>1. /\ StopConnection(g) /\ connection = g
        /\ UNCHANGED <<connection, killRequested, disposed, startPromise>>
        /\ pc'["dispose"] = pc["dispose"]
    BY <1>0, <1>1, ServedHasNoStop DEF RestartForRecovery, AbortServerRequestGeneration
  <2>2. QED  BY <2>1, DisposalKept, KillStops
<1>2. CASE RecoveryStopped
  <2>1. /\ UNCHANGED <<connection, killRequested, disposed, stop>>
        /\ pc'["dispose"] = pc["dispose"]
    BY <1>0, <1>2 DEF RecoveryStopped
  <2>2. disposed => startPromise' = startPromise
    BY <1>2, DisposedStartsNothing DEF RecoveryStopped
  <2>3. QED  BY <2>1, <2>2, DisposalKept, KillKept
<1>3. CASE RecoverySettles
  <2>1. /\ UNCHANGED <<connection, killRequested, disposed, stop, startPromise>>
        /\ pc'["dispose"] = pc["dispose"]
    BY <1>0, <1>3 DEF RecoverySettles
  <2>2. QED  BY <2>1, DisposalKept, KillKept
<1>4. CASE IdleTimerFires
  <2>1. UNCHANGED <<connection, killRequested, disposed, startPromise, pc>>
    BY <1>4 DEF IdleTimerFires
  <2>2. StopConnection(connection) \/ stop' = stop
    BY <1>4 DEF IdleTimerFires
  <2>3. QED  BY <2>1, <2>2, DisposalKept, KillKept, KillStops
<1>5. QED  BY <1>1, <1>2, <1>3, <1>4 DEF RecoveryStep

\* dispose() itself.
LEMMA DisposeSteps ==
    ASSUME HostInv, DisposeInv, DisposeStep
    PROVE  DisposeInv'
<1> USE DEF hostVars, connVars, stopVars, DisposeInv
<1>0. pc \in [Proc -> Pcs] /\ "dispose" \in Proc
  BY DEF Proc, Service, HostInv, TypeOK
<1>1. UNCHANGED <<connection, killRequested, startPromise>>
  BY DEF DisposeStep, Dispose, DisposeStopped, DisposeStarted
<1>2. CASE Dispose
  <2>1. CASE connection # 0
    <3>1. StopConnection(connection) /\ pc'["dispose"] = "stopping" /\ disposed'
      BY <1>0, <1>2, <2>1 DEF Dispose
    <3>2. QED  BY <1>1, <3>1, KillStops DEF DisposalInv
  <2>2. CASE connection = 0
    <3>1. stop' = stop /\ pc'["dispose"] = DisposePc /\ disposed'
      BY <1>0, <1>2, <2>2 DEF Dispose
    <3>2. QED  BY <1>1, <2>2, <3>1, KillKept DEF DisposalInv, DisposePc
  <2>3. QED  BY <2>1, <2>2
<1>3. CASE DisposeStopped
  <2>1. stop' = stop /\ disposed' = disposed /\ pc'["dispose"] = DisposePc
    BY <1>0, <1>3 DEF DisposeStopped
  <2>2. pc["dispose"] \in {"stopped", "stopFailed"}
    BY <1>3 DEF DisposeStopped
  <2>3. QED  BY <1>1, <2>1, <2>2, KillKept DEF DisposalInv, DisposePc
<1>4. CASE DisposeStarted
  <2>0. pc["dispose"] \in {"started", "failed"} /\ disposed' = disposed
    BY <1>4 DEF DisposeStarted
  <2>1. CASE connection \notin {0, disposeTarget}
    <3>1. StopConnection(connection) /\ pc'["dispose"] = "stopping"
      BY <1>0, <1>4, <2>1 DEF DisposeStarted
    <3>2. QED  BY <1>1, <2>0, <3>1, KillStops DEF DisposalInv
  <2>2. CASE connection \in {0, disposeTarget}
    <3>1. stop' = stop /\ pc'["dispose"] = "done"
      BY <1>0, <1>4, <2>2 DEF DisposeStarted
    <3>2. QED  BY <1>1, <2>0, <3>1, KillKept DEF DisposalInv
  <2>3. QED  BY <2>1, <2>2
<1>5. QED  BY <1>2, <1>3, <1>4 DEF DisposeStep

LEMMA DisposeStart ==
    ASSUME HostInv, DisposeInv, StartStep
    PROVE  DisposeInv'
<1> USE DEF connVars, stopVars, DisposeInv
<1> SUFFICES ASSUME NEW g \in Gen,
                    \/ SpawnSucceeds(g) \/ SpawnFails(g)
                    \/ SpawnUnpublished(g) \/ UnpublishedTerminates(g)
                    \/ InitializeReplies(g) \/ InitializedConfirmed(g)
                    \/ HandshakeFails(g) \/ StartRejects(g)
             PROVE  DisposeInv'
  BY DEF StartStep
<1>0. "dispose" \in Proc
  BY DEF Proc, Service
<1>1. /\ UNCHANGED <<killRequested, disposed>>
      /\ startPc[g] \notin {"none", "done"}
  BY DEF SpawnSucceeds, SpawnFails, SpawnUnpublished, UnpublishedTerminates,
         InitializeReplies, InitializedConfirmed, HandshakeFails, StartRejects
<1>2. g = generation /\ g = startPromise /\ connection \in {0, g}
  BY <1>1, StartingIsNotReady DEF HostInv, ServingInv, StopInv
<1>3. CASE SpawnSucceeds(g)
  <2>1. ~disposed /\ stop.phase = "none" /\ stop' = stop /\ pc' = pc
    BY <1>3 DEF SpawnSucceeds, StartIsCurrent, HostInv, ServingInv, StopInv
  <2>2. QED  BY <1>1, <2>1 DEF DisposalInv, KillInv
<1>4. CASE SpawnUnpublished(g) \/ InitializeReplies(g)
  <2>1. UNCHANGED <<connection, stop, startPromise, pc>>
    BY <1>4 DEF SpawnUnpublished, InitializeReplies
  <2>2. QED  BY <1>1, <2>1, DisposalKept, KillKept
<1>5. CASE HandshakeFails(g)
  <2>1. StopConnection(g) /\ UNCHANGED <<connection, startPromise, pc>>
    BY <1>5 DEF HandshakeFails
  <2>2. QED  BY <1>1, <1>2, <2>1, DisposalKept, KillStops
<1>6. CASE \/ SpawnFails(g) \/ UnpublishedTerminates(g) \/ InitializedConfirmed(g)
           \/ StartRejects(g)
  <2>1. UNCHANGED <<connection, stop>> /\ \E ok \in BOOLEAN : StartSettles(g, ok)
    BY <1>6 DEF SpawnFails, UnpublishedTerminates, InitializedConfirmed, StartRejects
  <2>2. /\ startPromise' = 0
        /\ \/ pc'["dispose"] = pc["dispose"]
           \/ pc["dispose"] = "awaitStart" /\ pc'["dispose"] \in {"started", "failed"}
    BY <1>0, <1>2, <2>1 DEF StartSettles, WakeStart
  <2>3. QED  BY <1>1, <2>1, <2>2, KillKept DEF DisposalInv
<1>7. QED  BY <1>3, <1>4, <1>5, <1>6

LEMMA DisposeStop ==
    ASSUME HostInv, DisposeInv, StopStep
    PROVE  DisposeInv'
<1> USE DEF connVars, DisposeInv
<1>0. "dispose" \in Proc
  BY DEF Proc, Service
<1>1. disposed' = disposed /\ startPromise' = startPromise
  BY DEF StopStep, StopConfirmed, GraceExpires, KillGraceExpires, StopSettles, hostVars
<1>2. stop.phase # "none" => connection \in {0, stop.conn}
  BY DEF HostInv, ServingInv, StopInv
<1>3. CASE StopConfirmed
  <2>1. connection' = 0 /\ UNCHANGED <<killRequested, pc>>
    BY <1>2, <1>3 DEF StopConfirmed, StopResumes
  <2>2. QED  BY <1>1, <2>1, DisposalKept DEF KillInv
<1>4. CASE GraceExpires
  <2>1. /\ killRequested' = killRequested \cup {stop.conn}
        /\ stop.phase = "grace" /\ UNCHANGED <<connection, pc>>
    BY <1>4 DEF GraceExpires
  <2>2. QED  BY <1>1, <1>2, <2>1, DisposalKept DEF KillInv
<1>5. CASE KillGraceExpires
  <2>1. stop.phase = "killGrace" /\ UNCHANGED <<connection, pc, killRequested>>
    BY <1>5 DEF KillGraceExpires
  <2>2. QED  BY <1>1, <2>1, DisposalKept DEF KillInv
<1>6. CASE StopSettles
  <2>1. /\ stop.phase \in {"settled", "failed"} /\ stop'.phase = "none"
        /\ UNCHANGED <<connection, killRequested>>
        /\ \E ok \in BOOLEAN : pc' = [p \in Proc |-> WakeStop(pc[p], ok)]
    BY <1>6 DEF StopSettles, NoStop
  <2>2. \/ pc'["dispose"] = pc["dispose"]
        \/ pc["dispose"] = "stopping" /\ pc'["dispose"] \in {"stopped", "stopFailed"}
    BY <1>0, <2>1 DEF WakeStop, DisposalInv
  <2>3. QED  BY <1>1, <2>1, <2>2 DEF DisposalInv, KillInv
<1>7. QED  BY <1>3, <1>4, <1>5, <1>6 DEF StopStep

LEMMA DisposeExit ==
    ASSUME HostInv, DisposeInv, ExitStep
    PROVE  DisposeInv'
<1> USE DEF connVars, stopVars, hostVars, DisposeInv
<1> SUFFICES ASSUME NEW g \in Gen,
                    \/ ChildExits(g) \/ StdioFails(g) \/ ProtocolError(g)
                    \/ ExitWaitConfirmed(g) \/ ExitWaitExpires(g)
                    \/ ExitRestartSettles(g)
             PROVE  DisposeInv'
  BY DEF ExitStep
<1>1. /\ stop' = stop /\ disposed' = disposed /\ pc' = pc
      /\ killRequested \subseteq killRequested'
  BY DEF ChildExits, StdioFails, ProtocolError, ExitWaitConfirmed, ExitWaitExpires,
         ExitRestartSettles
<1>2. ASSUME NEW b, ExitHandled(g, b)
      PROVE  /\ connection' \in {0, connection}
             /\ disposed => startPromise' = startPromise
  BY <1>2, DisposedStartsNothing DEF ExitHandled
<1>3. /\ connection' \in {0, connection}
      /\ disposed => startPromise' = startPromise
  <2>1. CASE ChildExits(g)
    BY <1>2, <2>1 DEF ChildExits
  <2>2. CASE ExitWaitConfirmed(g)
    BY <1>2, <2>2 DEF ExitWaitConfirmed
  <2>3. CASE StdioFails(g) \/ ProtocolError(g) \/ ExitWaitExpires(g) \/ ExitRestartSettles(g)
    BY <2>3 DEF StdioFails, ProtocolError, ExitWaitExpires, ExitRestartSettles
  <2>4. QED  BY <2>1, <2>2, <2>3
<1>4. QED  BY <1>1, <1>3, DisposalKept, KillKept

LEMMA DisposeInvariant == Spec => []DisposeInv
<1>1. Init => DisposeInv
  BY DEF Init, DisposeInv, DisposalInv, KillInv, NoStop, Proc, Service
<1>2. HostInv /\ DisposeInv /\ [Next]_vars => DisposeInv'
  <2> SUFFICES ASSUME HostInv, DisposeInv, [Next]_vars PROVE DisposeInv'
    OBVIOUS
  <2>1. CASE UNCHANGED vars
    BY <2>1 DEF vars, hostVars, connVars, stopVars, DisposeInv, DisposalInv, KillInv
  <2>2. QED
    BY <2>1, DisposeOperations, DisposeRetry, DisposeStopCalls, DisposeSteps, DisposeStart,
       DisposeStop, DisposeExit
    DEF Next
<1>3. QED  BY <1>1, <1>2, HostInvariant, PTL DEF Spec

\* When dispose() resolves no start is under way that could still spawn a process,
\* and a process that still runs was at least killed: for every interleaving of
\* the disposal with starts, stops and exits, and every number of generations.
THEOREM DisposalIsAlwaysFinal == Spec => []DisposalIsFinal
<1>1. HostInv /\ DisposeInv => DisposalIsFinal
  <2> SUFFICES ASSUME HostInv, DisposalInv, pc["dispose"] = "done"
               PROVE  startPromise = 0 /\ alive \cap published \subseteq killRequested
    BY DEF DisposeInv, DisposalIsFinal
  <2>1. startPromise = 0 /\ connection \in {0} \cup killRequested
    BY DEF DisposalInv
  <2>2. \A g \in alive \cap published : connection = g /\ g # 0
    BY DEF HostInv, TypeOK, AuthorityInv, OwnershipInv, Gen
  <2>3. QED  BY <2>1, <2>2
<1>2. QED  BY <1>1, HostInvariant, DisposeInvariant, PTL

-----------------------------------------------------------------------------
(* The circuit                                                             *)

\* No operation, start, stop or exit closes the open circuit of an empty host.
LEMMA CircuitStays ==
    ASSUME HostInv, WaitInv, state = "circuit-open", stop.phase = "none", connection = 0,
           Next, ~RetryStep, ~Dispose
    PROVE  state' = "circuit-open"
<1> USE DEF hostVars
<1>1. ~Usable(state) /\ StoppedUnlessLatched = state /\ ~disposed
  BY DEF Usable, StoppedUnlessLatched, HostInv, ServingInv, DisposedInv
<1>2. \A c, r : EnsureStarted(c, state, r) => state' = state
  BY <1>1 DEF EnsureStarted, Launches, MustLaunch
<1>3. CASE LeaseStep
  BY <1>1, <1>3
  DEF LeaseStep, Acquire, AcquireResolves, AcquireRejects, Release, Request
<1>4. ASSUME NEW p, EnsureAgain(p) PROVE state' = "circuit-open"
  BY <1>2, <1>4 DEF EnsureAgain
<1>5. CASE RequestSettles \/ RecoveryStep \/ IdleTimerFires \/ DisposeStep
  BY <1>1, <1>5
  DEF RequestSettles, RecoveryStep, RestartForRecovery, ServesGeneration, RecoveryStopped,
      RecoverySettles, IdleTimerFires, DisposeStep, DisposeStopped, DisposeStarted
<1>6. ASSUME NEW g, AbortServerRequestGeneration(g) PROVE state' = "circuit-open"
  BY <1>6 DEF AbortServerRequestGeneration, ServesGeneration
<1>7. CASE StartStep
  <2> SUFFICES ASSUME NEW g \in Gen,
                      \/ SpawnSucceeds(g) \/ SpawnFails(g)
                      \/ SpawnUnpublished(g) \/ UnpublishedTerminates(g)
                      \/ InitializeReplies(g) \/ InitializedConfirmed(g)
                      \/ HandshakeFails(g) \/ StartRejects(g)
               PROVE  state' = "circuit-open"
    BY <1>7 DEF StartStep
  <2>1. ~InitializedConfirmed(g)
    <3>1. connection # g
      BY HostAssumption DEF Gen
    <3>2. QED  BY <3>1 DEF InitializedConfirmed
  <2>2. StateOfStop(g) = state
    BY <1>1 DEF StateOfStop
  <2>3. QED
    BY <1>1, <2>1, <2>2
    DEF SpawnSucceeds, SpawnFails, SpawnUnpublished, UnpublishedTerminates,
        InitializeReplies, HandshakeFails, StartRejects
<1>8. CASE StopStep
  BY <1>8 DEF StopStep, StopConfirmed, StopResumes, GraceExpires, KillGraceExpires, StopSettles
<1>9. CASE ExitStep
  <2> SUFFICES ASSUME NEW g \in Gen,
                      \/ ChildExits(g) \/ StdioFails(g) \/ ProtocolError(g)
                      \/ ExitWaitConfirmed(g) \/ ExitWaitExpires(g)
                      \/ ExitRestartSettles(g)
               PROVE  state' = "circuit-open"
    BY <1>9 DEF ExitStep
  <2>1. g # 0 /\ g \notin alive \cap published
    BY DEF Gen, HostInv, AuthorityInv, OwnershipInv
  <2>2. CASE ExitWaitConfirmed(g)
    <3>1. exitPc[g] = "waiting" /\ ExitHandled(g, exitPc[g] = "waiting")
      BY <2>2 DEF ExitWaitConfirmed, HostInv, AuthorityInv, ExitWaitInv
    <3>2. g \notin ready
      BY <2>1, <3>1 DEF WaitInv, ExitPendingInv
    <3>3. state' = StateAfterExit(g)
      BY <3>1, <3>2 DEF ExitHandled, RestartsAfterCrash
    <3>4. QED  BY <1>1, <3>2, <3>3 DEF StateAfterExit
  <2>3. CASE ExitWaitExpires(g) \/ ExitRestartSettles(g)
    BY <2>3 DEF ExitWaitExpires, ExitRestartSettles
  <2>4. QED  BY <2>1, <2>2, <2>3 DEF ChildExits, StdioFails, ProtocolError
<1>10. QED
  BY <1>3, <1>4, <1>5, <1>6, <1>7, <1>8, <1>9 DEF Next

\* Once no process is left, no late exit, reply, timer or release of a lease closes
\* an open circuit: only retry() and dispose() leave it.
THEOREM CircuitsNeedRetry == Spec => EmptyCircuitNeedsRetry
<1>1. HostInv /\ WaitInv /\ [Next]_vars =>
        [state = "circuit-open" /\ stop.phase = "none" /\ connection = 0
            /\ state' # "circuit-open" => RetryStep \/ Dispose]_vars
  BY CircuitStays DEF vars
<1>2. QED  BY <1>1, HostInvariant, WaitInvariant, PTL DEF Spec, EmptyCircuitNeedsRetry
=============================================================================
