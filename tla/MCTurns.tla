------------------------------- MODULE MCTurns ------------------------------
(***************************************************************************)
(* The approval broker and the turn coordinator, each on a small instance  *)
(* of its own; a behaviour is one of the two.                              *)
(***************************************************************************)
EXTENDS MCApprovalBroker, Naturals, Sequences, FiniteSets, TLC

CONSTANTS
    Client, MaxTurns, CoordinatorGenerations

VARIABLES
    part,       \* the part this behaviour is about
    coordinator_hostState, hostGen, coordinator_generation, active, lastTurn, queueIdentity,
    connected, coordinator_disposed, coordinator_owner, start, coordinator_lease,
    coordinator_genOf, turnId, terminalResult, control, steer, interrupt, srv, recPc,
    recTurn, recGen, recLease, restart, log, startResult, interruptResult

coordinatorVars ==
    <<coordinator_hostState, hostGen, coordinator_generation, active, lastTurn,
      queueIdentity, connected, coordinator_disposed, coordinator_owner, start,
      coordinator_lease, coordinator_genOf, turnId, terminalResult, control, steer,
      interrupt, srv, recPc, recTurn, recGen, recLease, restart, log, startResult,
      interruptResult>>
Coordinator == INSTANCE TurnCoordinator WITH
    MaxGenerations <- CoordinatorGenerations, hostState <- coordinator_hostState,
    generation <- coordinator_generation, disposed <- coordinator_disposed,
    owner <- coordinator_owner, lease <- coordinator_lease, genOf <- coordinator_genOf

brokerVars == vars

-----------------------------------------------------------------------------
PartInit ==
    /\ part \in {"coordinator", "broker"}
    /\ Coordinator!Init /\ Init

\* Part p takes a step: the others stay.
Only(p) ==
    /\ part = p /\ UNCHANGED part
    /\ IF p = "coordinator" THEN TRUE ELSE UNCHANGED coordinatorVars
    /\ IF p = "broker" THEN TRUE ELSE UNCHANGED brokerVars

CoordinatorPart == Only("coordinator") /\ Coordinator!Next
BrokerPart == Only("broker") /\ Next

PartNext ==
    \/ CoordinatorPart \/ BrokerPart

partVars ==
    <<part, coordinatorVars, brokerVars>>

\* The fairness of each part, as its module states it.
PartSpec ==
    /\ PartInit /\ [][PartNext]_partVars
    /\ \A t \in Coordinator!Turns :
          WF_coordinatorVars(part = "coordinator" /\ (Coordinator!HostGrants(t) \/
              Coordinator!HostRefuses(t)))
    /\ \A t \in Coordinator!Turns :
          WF_coordinatorVars(part = "coordinator" /\ Coordinator!LeaseArrives(t))
    /\ \A t \in Coordinator!Turns :
          WF_coordinatorVars(part = "coordinator" /\ Coordinator!RequestStart(t))
    /\ \A t \in Coordinator!Turns :
          WF_coordinatorVars(part = "coordinator" /\ (Coordinator!StartRefused(t) \/
              \E p \in Coordinator!StartPcs : Coordinator!StartReplies(t, p)))
    /\ \A t \in Coordinator!Turns :
          WF_coordinatorVars(part = "coordinator" /\ (Coordinator!StartAnswered(t) \/
              Coordinator!StartEnds(t)))
    /\ \A t \in Coordinator!Turns :
          WF_coordinatorVars(part = "coordinator" /\ Coordinator!SteerEnds(t))
    /\ \A t \in Coordinator!Turns :
          WF_coordinatorVars(part = "coordinator" /\ (Coordinator!InterruptTimesOut(t) \/
              Coordinator!InterruptFails(t) \/ Coordinator!InterruptEnds(t)))
    /\ \A t \in Coordinator!Turns :
          WF_coordinatorVars(part = "coordinator" /\ Coordinator!InterruptRecovered(t))
    /\ \A t \in Coordinator!Turns :
          WF_coordinatorVars(part = "coordinator" /\ (Coordinator!RecoveryGranted(t) \/
              Coordinator!RecoveryRefused(t)))
    /\ WF_coordinatorVars(part = "coordinator" /\ (Coordinator!RecoveryRestarts \/
              Coordinator!RecoveryAcquires \/ Coordinator!RecoveryStops \/ Coordinator!RecoveryFails))
    /\ WF_coordinatorVars(part = "coordinator" /\ \E ok \in BOOLEAN : Coordinator!RestartSettles(ok))
    /\ \A r \in Request : WF_brokerVars(part = "broker" /\ Continuation(r))
    /\ \A r \in Request : WF_brokerVars(part = "broker" /\ Expires(r))
    /\ \A r \in Request : WF_brokerVars(part = "broker" /\ TtlTimerFires(r))
    /\ \A r \in Request : WF_brokerVars(part = "broker" /\ ResponseTimesOut(r))
    /\ WF_brokerVars(part = "broker" /\ HostStops /\ clientClosed)

-----------------------------------------------------------------------------
\* Every call of the coordinator's interface ends, whatever the server answers.
CallsSettle == Coordinator!CallsSettle

\* A recovery of a thread ends, with the host restarted or given up.
RecoveryEndsEventually == Coordinator!RecoveryEndsEventually
=============================================================================
