----------------------- MODULE TurnCoordinatorProofs -----------------------
(***************************************************************************)
(* Proofs about TurnCoordinator, for any clients, turns and generations.   *)
(***************************************************************************)
EXTENDS TurnCoordinator, TLAPS

USE TurnAssumption

-----------------------------------------------------------------------------
(* Types                                                                   *)

\* The type of what #finishActive assigns.
TurnVarsOK ==
    /\ active \in Turns \cup {0} /\ queueIdentity \in Turns \cup {0}
    /\ terminalResult \in [Turns -> Statuses \cup {"none"}]
    /\ lease \in [Turns -> Leases]
    /\ log \in Seq(Events)

\* Appending an event keeps the log a log.
LEMMA EventTypes ==
    ASSUME NEW t \in Turns, NEW kind \in Kinds, NEW l \in Seq(Events)
    PROVE  Append(l, Event(t, kind)) \in Seq(Events)
  <1>1. Event(t, kind) \in Events
    BY DEF Event, Events
  <1>2. QED
    BY <1>1

\* What #establishTurn announces is a log.
LEMMA AnnouncedTypes ==
    ASSUME NEW t \in Turns, log \in Seq(Events)
    PROVE  Announced(t) \in Seq(Events)
  <1>1. "started" \in Kinds
    BY DEF Kinds
  <1>2. QED
    BY <1>1, EventTypes DEF Announced

\* #finishActive keeps the types of what it assigns.
LEMMA FinishActiveTypes ==
    ASSUME TypeOK, NEW t \in Turns, NEW status \in Statuses,
           NEW emit \in BOOLEAN, NEW linearize \in BOOLEAN, NEW l \in Seq(Events),
           FinishActive(t, status, emit, linearize, l)
    PROVE  active' = 0 /\ TurnVarsOK'
  <1>1. status \in Kinds
    BY DEF Kinds
  <1>2. log' \in Seq(Events)
    BY <1>1, EventTypes DEF FinishActive
  <1>3. QED
    BY <1>2 DEF FinishActive, TurnVarsOK, TypeOK, Leases

\* Giving up a turn keeps the types.
LEMMA GivesUpTypes ==
    ASSUME TypeOK, NEW t \in Turns, GivesUp(t),
           UNCHANGED <<hostVars, generation, start, startResult, srv, control, steer,
                       interruptResult, baseVars>>
    PROVE  TypeOK'
  <1>1. "interrupt-uncertain" \in Statuses /\ log \in Seq(Events)
    BY DEF TypeOK, Statuses
  <1>2. TurnVarsOK'
    BY <1>1, FinishActiveTypes DEF GivesUp
  <1>3. QED
    BY ZenonT(60), <1>2 DEF GivesUp, BeginRecovery, TurnVarsOK, TypeOK, InterruptPcs, RecPcs, hostVars,
       recVars,
                baseVars

\* A change of the host's state keeps the types.
LEMMA HostChangesTypes ==
    ASSUME TypeOK, NEW s \in HostStates, NEW g \in Gen, HostChanges(s, g)
    PROVE  TypeOK'
  <1>1. "failed" \in Statuses /\ log \in Seq(Events)
    BY DEF TypeOK, Statuses
  <1>2. TurnVarsOK'
    <2>1. CASE ~disposed /\ g >= generation /\ EndsTurn(s, g)
      <3>1. active \in Turns
        BY <2>1 DEF EndsTurn, TypeOK
      <3>2. QED
        BY <1>1, <2>1, <3>1, FinishActiveTypes DEF HostChanges
    <2>2. CASE ~(~disposed /\ g >= generation /\ EndsTurn(s, g))
      BY <2>2 DEF HostChanges, TurnVarsOK, TypeOK, turnVars
    <2>3. QED
      BY <2>1, <2>2
  <1>3. QED
    BY <1>2 DEF HostChanges, TurnVarsOK, TypeOK, recVars, baseVars, controlVars

\* Every step keeps the types.
LEMMA StepKeepsTypes == TypeOK /\ [Next]_vars => TypeOK'
  <1> SUFFICES ASSUME TypeOK, [Next]_vars PROVE TypeOK'
    OBVIOUS
  <1> USE DEF TypeOK, HostStates, Statuses, Results, Kinds, StartPcs, Leases,
              InterruptPcs, RecPcs, hostVars, turnVars, flowVars, controlVars,
              recVars, baseVars
  <1>1. ASSUME NEW c \in Client, Connect(c) PROVE TypeOK'
    BY <1>1 DEF Connect
  <1>2. ASSUME NEW c \in Client, Disconnect(c) PROVE TypeOK'
    <2>1. TurnVarsOK'
      <3>1. CASE active # 0 /\ owner[active] = c
        <4>1. active \in Turns /\ "interrupted" \in Statuses /\ log \in Seq(Events)
          BY <1>2, <3>1 DEF Statuses, TypeOK, Reaches
        <4>2. QED
          BY <1>2, <3>1, <4>1, FinishActiveTypes DEF Disconnect
      <3>2. CASE ~(active # 0 /\ owner[active] = c)
        BY ZenonT(60), <1>2, <3>2 DEF Disconnect, TurnVarsOK, TypeOK, turnVars
      <3>3. QED
        BY <3>1, <3>2
    <2>2. QED
      BY <1>2, <2>1 DEF Disconnect, TurnVarsOK
  <1>3. ASSUME NEW c \in Client, StartTurn(c) PROVE TypeOK'
    BY <1>3 DEF StartTurn, NumbersLeft, MayCall, Turns
  <1>4. ASSUME NEW t \in Turns, HostGrants(t) PROVE TypeOK'
    BY <1>4 DEF HostGrants
  <1>5. ASSUME NEW t \in Turns, HostRefuses(t) PROVE TypeOK'
    BY <1>5 DEF HostRefuses
  <1>6. ASSUME NEW t \in Turns, LeaseArrives(t) PROVE TypeOK'
    <2>1. /\ lease' \in [Turns -> Leases] /\ start' \in [Turns -> StartPcs]
          /\ UNCHANGED <<hostVars, generation, active, queueIdentity, terminalResult, log,
                         startResult, turnId, srv, controlVars, recVars, baseVars>>
      <3>1. CASE TakesLease(t)
        BY <1>6, <3>1 DEF LeaseArrives
      <3>2. CASE ~TakesLease(t)
        BY <1>6, <3>2 DEF LeaseArrives
      <3>3. QED
        BY <3>1, <3>2
    <2>2. QED
      BY <2>1
  <1>7. ASSUME NEW t \in Turns, RequestStart(t) PROVE TypeOK'
    BY <1>7 DEF RequestStart
  <1>8. ASSUME NEW t \in Turns, StartWritten(t) PROVE TypeOK'
    BY <1>8 DEF StartWritten
  <1>9. ASSUME NEW t \in Turns, StartRefused(t) PROVE TypeOK'
    BY <1>9 DEF StartRefused
  <1>10. ASSUME NEW t \in Turns, NEW pc \in {"answered", "answeredEnded"}, StartReplies(t, pc)
        PROVE  TypeOK'
    BY <1>10 DEF StartReplies
  <1>11. ASSUME NEW t \in Turns, StartAnswered(t) PROVE TypeOK'
    <2> DEFINE over == start[t] = "answeredEnded"
    <2>1. /\ TurnVarsOK' /\ turnId' \in [Turns -> Turns \cup {0}]
          /\ startResult' \in [Turns -> Results]
      <3>1. "failed" \in Statuses /\ "completed" \in Statuses /\ log \in Seq(Events)
        BY DEF Statuses, TypeOK
      <3>2. Announced(t) \in Seq(Events)
        BY <3>1, AnnouncedTypes
      <3>3. CASE active # t
        BY <1>11, <3>3 DEF StartAnswered, ResultOf, TurnVarsOK, TypeOK, turnVars, Results
      <3>4. CASE active = t /\ ~Establishes(t, t)
        <4>1. TurnVarsOK'
          BY <1>11, <3>1, <3>4, FinishActiveTypes DEF StartAnswered
        <4>2. QED
          BY <1>11, <3>4, <4>1 DEF StartAnswered, TypeOK, Results
      <3>5. CASE active = t /\ Establishes(t, t) /\ over
        <4>1. TurnVarsOK'
          BY <1>11, <3>1, <3>2, <3>5, FinishActiveTypes DEF StartAnswered
        <4>2. QED
          BY <1>11, <3>5, <4>1 DEF StartAnswered, TypeOK, Results, Statuses
      <3>6. CASE active = t /\ Establishes(t, t) /\ ~over
        <4>1. /\ log' = Announced(t) /\ UNCHANGED <<active, terminalResult, lease>>
              /\ queueIdentity' \in {t, queueIdentity}
              /\ turnId' = [turnId EXCEPT ![t] = t]
              /\ startResult' = [startResult EXCEPT ![t] = "in-progress"]
          BY <1>11, <3>6 DEF StartAnswered
        <4>2. QED
          BY <3>2, <4>1 DEF TurnVarsOK, TypeOK, Results
      <3>7. QED
        BY <3>3, <3>4, <3>5, <3>6
    <2>2. start' \in [Turns -> StartPcs]
      BY <1>11 DEF StartAnswered, TypeOK, StartPcs
    <2>3. QED
      BY <1>11, <2>1, <2>2 DEF StartAnswered, TypeOK, TurnVarsOK, hostVars, controlVars,
                           recVars, baseVars
  <1>12. ASSUME NEW t \in Turns, StartEnds(t) PROVE TypeOK'
    <2>1. TurnVarsOK'
      <3>1. CASE active = t
        <4>1. t \in Turns /\ "failed" \in Statuses /\ log \in Seq(Events)
          BY <1>12, <3>1 DEF Statuses, TypeOK, Reaches
        <4>2. QED
          BY <1>12, <3>1, <4>1, FinishActiveTypes DEF StartEnds
      <3>2. CASE ~(active = t)
        BY <1>12, <3>2 DEF StartEnds, TurnVarsOK, TypeOK, turnVars
      <3>3. QED
        BY <3>1, <3>2
    <2>2. start' \in [Turns -> StartPcs] /\ startResult' \in [Turns -> Results]
      BY <1>12 DEF StartEnds, ResultOf
    <2>3. UNCHANGED <<hostVars, generation, turnId, srv, controlVars, recVars, baseVars>>
      BY <1>12 DEF StartEnds
    <2>4. QED
      BY <2>1, <2>2, <2>3 DEF TurnVarsOK
  <1>13. ASSUME NEW t \in Turns, TurnStarted(t) PROVE TypeOK'
    <2>1. log' \in Seq(Events) /\ queueIdentity' \in Turns \cup {0}
          /\ turnId' \in [Turns -> Turns \cup {0}]
      <3>1. CASE Reaches(t, active) /\ turnId[active] = 0
        <4>1. active \in Turns
          BY <3>1 DEF Reaches, TypeOK
        <4>2. Announced(active) \in Seq(Events)
          BY <4>1, AnnouncedTypes DEF TypeOK
        <4>3. QED
          BY SMTT(40), <1>13, <3>1, <4>1, <4>2 DEF TurnStarted, TypeOK
      <3>2. CASE ~(Reaches(t, active) /\ turnId[active] = 0)
        BY <1>13, <3>2 DEF TurnStarted, TypeOK
      <3>3. QED
        BY <3>1, <3>2
    <2>2. srv' \in [Turns -> {"none", "asked", "running", "ended"}]
      BY <1>13 DEF TurnStarted
    <2>3. UNCHANGED <<hostVars, generation, active, terminalResult, lease, start,
                      startResult, controlVars, recVars, baseVars>>
      BY <1>13 DEF TurnStarted
    <2>4. QED
      BY <2>1, <2>2, <2>3
  <1>14. ASSUME NEW t \in Turns, NEW s \in {"completed", "interrupted"}, TurnCompleted(t, s)
        PROVE  TypeOK'
    <2>1. TurnVarsOK'
      <3>1. CASE Reaches(t, active) /\ turnId[active] = t
        <4>1. active \in Turns /\ s \in Statuses /\ log \in Seq(Events)
          BY <1>14, <3>1 DEF Statuses, TypeOK, Reaches
        <4>2. QED
          BY ZenonT(60), <1>14, <3>1, <4>1, FinishActiveTypes DEF TurnCompleted
      <3>2. CASE ~(Reaches(t, active) /\ turnId[active] = t)
        BY ZenonT(60), <1>14, <3>2 DEF TurnCompleted, TurnVarsOK, TypeOK, turnVars
      <3>3. QED
        BY <3>1, <3>2
    <2>2. srv' \in [Turns -> {"none", "asked", "running", "ended"}]
      BY <1>14 DEF TurnCompleted
    <2>3. UNCHANGED <<hostVars, generation, turnId, start, startResult, controlVars,
                      recVars, baseVars>>
      BY <1>14 DEF TurnCompleted
    <2>4. QED
      BY <2>1, <2>2, <2>3 DEF TurnVarsOK
  <1>15. ASSUME NEW t \in Turns, Steer(t) PROVE TypeOK'
    BY <1>15 DEF Steer
  <1>16. ASSUME NEW t \in Turns, SteerEnds(t) PROVE TypeOK'
    BY <1>16 DEF SteerEnds
  <1>17. ASSUME NEW t \in Turns, Interrupt(t) PROVE TypeOK'
    BY <1>17 DEF Interrupt, MayControl
  <1>18. ASSUME NEW t \in Turns, NEW pc \in {"acked", "rejected"}, InterruptReplies(t, pc)
        PROVE  TypeOK'
    BY <1>18 DEF InterruptReplies
  <1>19. ASSUME NEW t \in Turns, InterruptTimesOut(t) PROVE TypeOK'
    BY <1>19, GivesUpTypes DEF InterruptTimesOut
  <1>20. ASSUME NEW t \in Turns, InterruptFails(t) PROVE TypeOK'
    BY <1>20, GivesUpTypes DEF InterruptFails
  <1>21. ASSUME NEW t \in Turns, InterruptEnds(t) PROVE TypeOK'
    BY <1>21 DEF InterruptEnds, ResultOf
  <1>22. ASSUME NEW t \in Turns, InterruptRecovered(t) PROVE TypeOK'
    BY <1>22 DEF InterruptRecovered, ResultOf
  <1>23. ASSUME NEW t \in Turns, RecoveryGranted(t) PROVE TypeOK'
    BY <1>23 DEF RecoveryGranted, RecoveryGrantedTo
  <1>24. ASSUME NEW t \in Turns, RecoveryRefused(t) PROVE TypeOK'
    BY <1>24 DEF RecoveryRefused
  <1>25. ASSUME NEW ok \in BOOLEAN, RestartSettles(ok) PROVE TypeOK'
    BY <1>25 DEF RestartSettles
  <1>26. CASE RecoveryRestarts
    BY <1>26 DEF RecoveryRestarts
  <1>27. CASE RecoveryAcquires
    BY <1>27 DEF RecoveryAcquires
  <1>28. CASE RecoveryResumes
    BY <1>28 DEF RecoveryResumes, RecoveryEnds
  <1>29. CASE RecoveryStops
    BY <1>29 DEF RecoveryStops, Bounded
  <1>30. CASE RecoveryFails
    BY <1>30, EventTypes DEF RecoveryFails, RecoveryEnds, Diagnosed, Reserves
  <1>31. CASE HostStops
    BY <1>31, HostChangesTypes DEF HostStops, Gen
  <1>32. CASE HostRestarts
    BY <1>32, HostChangesTypes DEF HostRestarts, Gen
  <1>33. CASE HostStarts
    BY <1>33, HostChangesTypes DEF HostStarts, Gen
  <1>34. CASE HostReady
    BY <1>34, HostChangesTypes DEF HostReady, Gen
  <1>35. CASE Dispose
    BY <1>35 DEF Dispose
  <1>36. CASE UNCHANGED vars
    BY <1>36 DEF vars
  <1> HIDE DEF TypeOK, HostStates, Statuses, Results, Kinds, StartPcs, Leases,
               InterruptPcs, RecPcs, hostVars, turnVars, flowVars, controlVars,
               recVars, baseVars
  <1>37. QED
    BY <1>1, <1>2, <1>3, <1>4, <1>5, <1>6, <1>7, <1>8, <1>9, <1>10, <1>11, <1>12, <1>13,
       <1>14, <1>15, <1>16, <1>17, <1>18, <1>19, <1>20, <1>21, <1>22, <1>23, <1>24,
       <1>25, <1>26, <1>27, <1>28, <1>29, <1>30, <1>31, <1>32, <1>33, <1>34, <1>35, <1>36
    DEF Next, StartStep, NotificationStep, ControlStep, RecoveryStep, HostStep

\* Type correctness.
THEOREM TypeInvariant == Spec => []TypeOK
  <1>1. Init => TypeOK
    <2>1. 1 \in Gen /\ <<>> \in Seq(Events)
      BY DEF Gen
    <2> SUFFICES ASSUME Init PROVE TypeOK
      OBVIOUS
    <2>2. /\ hostState \in HostStates /\ hostGen \in Gen /\ generation \in Gen
          /\ {active, lastTurn, queueIdentity, recTurn} \subseteq Turns \cup {0}
          /\ connected \subseteq Client /\ disposed \in BOOLEAN
          /\ recPc \in RecPcs /\ recGen \in Gen \cup {0} /\ restart \in {"none", "pending"}
          /\ control \subseteq Turns /\ steer \subseteq Turns /\ log \in Seq(Events)
      BY <2>1 DEF Init, HostStates, RecPcs
    <2>3. /\ owner \in [Turns -> Client \cup {Nobody}]
          /\ start \in [Turns -> StartPcs] /\ lease \in [Turns -> Leases]
          /\ genOf \in [Turns -> Gen \cup {0}] /\ turnId \in [Turns -> Turns \cup {0}]
      BY DEF Init, StartPcs, Leases
    <2>4. /\ terminalResult \in [Turns -> Statuses \cup {"none"}]
          /\ interrupt \in [Turns -> InterruptPcs]
          /\ srv \in [Turns -> {"none", "asked", "running", "ended"}]
          /\ recLease \in [Turns -> {"none", "asked", "held"}]
          /\ startResult \in [Turns -> Results] /\ interruptResult \in [Turns -> Results]
      BY DEF Init, InterruptPcs, Results
    <2>5. QED
      BY <2>2, <2>3, <2>4 DEF TypeOK
  <1>2. QED
    BY <1>1, StepKeepsTypes, PTL DEF Spec

-----------------------------------------------------------------------------
(* Leases and recoveries                                                   *)

\* The part of the state that the next invariant is about.
serveVars == <<hostState, hostGen, generation, active, lease, genOf, disposed, recPc,
               recTurn, recLease, restart>>

\* A turn that was granted a lease is served, the generation is known, and only
\* the active turn and the running recovery keep leases.
ServeInv ==
    /\ active # 0 /\ lease[active] \in {"granted", "held"} =>
            hostState = "ready" /\ hostGen = genOf[active]
    /\ ~disposed => generation = hostGen
    /\ disposed => active = 0
    /\ TurnLeasesAccounted
    /\ RecoveryIsAlone

\* Once the active turn is finished, no turn keeps a lease.
LEMMA FinishLeavesNoLease ==
    ASSUME TypeOK, TurnLeasesAccounted, NEW t \in Turns, active = t,
           NEW status, NEW emit, NEW linearize, NEW l,
           FinishActive(t, status, emit, linearize, l)
    PROVE  active' = 0 /\ \A u \in Turns : lease'[u] # "held"
  BY DEF FinishActive, TurnLeasesAccounted, TypeOK

\* A finished turn is consistent with the invariant, if the recovery is.
LEMMA FinishServes ==
    ASSUME TypeOK, ServeInv, active' = 0, \A u \in Turns : lease'[u] # "held",
           recLease' = recLease, UNCHANGED <<recPc, recTurn>> \/ recPc = "none",
           ~disposed' => generation' = hostGen'
    PROVE  ServeInv'
  BY DEF ServeInv, TurnLeasesAccounted, RecoveryIsAlone

\* Nothing in view of the invariant changes.
LEMMA QuietServes == ServeInv /\ UNCHANGED serveVars => ServeInv'
  BY DEF ServeInv, TurnLeasesAccounted, RecoveryIsAlone, serveVars

\* The changes of the host's state.
LEMMA HostServes ==
    ASSUME TypeOK, ServeInv, NEW s \in HostStates, NEW g \in Gen, HostChanges(s, g),
           g >= hostGen,
           s = "starting" => hostState = "stopped",
           s = "ready" => hostState \in {"starting", "restarting"}
    PROVE  ServeInv'
  <1>1. ~disposed' => generation' = hostGen'
    BY DEF HostChanges, ServeInv, TypeOK, Gen, baseVars
  <1>2. CASE ~disposed /\ EndsTurn(s, g)
    <2>1. g >= generation /\ active \in Turns
      BY <1>2 DEF ServeInv, EndsTurn, TypeOK
    <2>2. FinishActive(active, "failed", TRUE, FALSE, log)
      BY <1>2, <2>1 DEF HostChanges
    <2>3. active' = 0 /\ \A u \in Turns : lease'[u] # "held"
      BY <2>1, <2>2, FinishLeavesNoLease DEF ServeInv
    <2>4. UNCHANGED <<recPc, recTurn, recLease>>
      BY DEF HostChanges, recVars
    <2>5. QED
      BY <1>1, <2>3, <2>4, FinishServes
  <1>3. CASE ~(~disposed /\ EndsTurn(s, g))
    <2>1. UNCHANGED <<active, lease, genOf, disposed, recPc, recTurn, recLease, restart>>
      BY <1>3 DEF HostChanges, turnVars, recVars, baseVars
    <2>2. active = 0 \/ lease[active] \notin {"granted", "held"}
      BY <1>3 DEF ServeInv, EndsTurn, HostStates
    <2>3. QED
      BY <1>1, <2>1, <2>2 DEF ServeInv, TurnLeasesAccounted, RecoveryIsAlone
  <1>4. QED
    BY <1>2, <1>3

\* Every step keeps the turns served and the leases accounted for.
LEMMA StepServes == TypeOK /\ ServeInv /\ [Next]_vars => ServeInv'
  <1> SUFFICES ASSUME TypeOK, ServeInv, [Next]_vars PROVE ServeInv'
    OBVIOUS
  <1> USE DEF hostVars, turnVars, flowVars, controlVars, recVars, baseVars
  <1>1. ASSUME NEW c \in Client, Connect(c) PROVE ServeInv'
    BY <1>1, QuietServes DEF Connect, serveVars
  <1>2. ASSUME NEW c \in Client, Disconnect(c) PROVE ServeInv'
    <2>1. CASE active # 0 /\ owner[active] = c
      <3>1. /\ active \in Turns /\ active = active
            /\ \E status, emit, linearize, l : FinishActive(active, status, emit, linearize, l)
        BY <1>2, <2>1 DEF Disconnect, TypeOK, Reaches
      <3>2. active' = 0 /\ \A u \in Turns : lease'[u] # "held"
        BY <3>1, FinishLeavesNoLease DEF ServeInv
      <3>3. QED
        BY <1>2, <3>2, FinishServes DEF Disconnect, ServeInv
    <2>2. CASE ~(active # 0 /\ owner[active] = c)
      BY <1>2, <2>2, QuietServes DEF Disconnect, serveVars
    <2>3. QED
      BY <2>1, <2>2
  <1>3. ASSUME NEW c \in Client, StartTurn(c) PROVE ServeInv'
    BY <1>3 DEF StartTurn, MayCall, NoRecovery, NumbersLeft, Turns, ServeInv, TurnLeasesAccounted,
       RecoveryIsAlone, TypeOK
  <1>4. ASSUME NEW t \in Turns, HostGrants(t) PROVE ServeInv'
    BY <1>4 DEF HostGrants, ServeInv, TurnLeasesAccounted, RecoveryIsAlone, TypeOK
  <1>5. ASSUME NEW t \in Turns, HostRefuses(t) PROVE ServeInv'
    BY <1>5 DEF HostRefuses, ServeInv, TurnLeasesAccounted, RecoveryIsAlone, TypeOK
  <1>6. ASSUME NEW t \in Turns, LeaseArrives(t) PROVE ServeInv'
    BY <1>6 DEF LeaseArrives, TakesLease, ServeInv, TurnLeasesAccounted, RecoveryIsAlone, TypeOK
  <1>7. ASSUME NEW t \in Turns, RequestStart(t) PROVE ServeInv'
    BY <1>7, QuietServes DEF RequestStart, serveVars
  <1>8. ASSUME NEW t \in Turns, StartWritten(t) PROVE ServeInv'
    BY <1>8, QuietServes DEF StartWritten, serveVars
  <1>9. ASSUME NEW t \in Turns, StartRefused(t) PROVE ServeInv'
    BY <1>9, QuietServes DEF StartRefused, serveVars
  <1>10. ASSUME NEW t \in Turns, NEW pc \in {"answered", "answeredEnded"}, StartReplies(t, pc)
        PROVE  ServeInv'
    BY <1>10, QuietServes DEF StartReplies, serveVars
  <1>11. ASSUME NEW t \in Turns, StartAnswered(t) PROVE ServeInv'
    <2>1. CASE active = t /\ (Establishes(t, t) => start[t] = "answeredEnded")
      <3>1. /\ t \in Turns /\ active = t
            /\ \E status, emit, linearize, l : FinishActive(t, status, emit, linearize, l)
        BY <1>11, <2>1 DEF StartAnswered, TypeOK, Reaches
      <3>2. active' = 0 /\ \A u \in Turns : lease'[u] # "held"
        BY <3>1, FinishLeavesNoLease DEF ServeInv
      <3>3. QED
        BY <1>11, <3>2, FinishServes DEF StartAnswered, ServeInv
    <2>2. CASE ~(active = t /\ (Establishes(t, t) => start[t] = "answeredEnded"))
      BY <1>11, <2>2, QuietServes DEF StartAnswered, serveVars
    <2>3. QED
      BY <2>1, <2>2
  <1>12. ASSUME NEW t \in Turns, StartEnds(t) PROVE ServeInv'
    <2>1. CASE active = t
      <3>1. /\ t \in Turns /\ active = t
            /\ \E status, emit, linearize, l : FinishActive(t, status, emit, linearize, l)
        BY <1>12, <2>1 DEF StartEnds, TypeOK, Reaches
      <3>2. active' = 0 /\ \A u \in Turns : lease'[u] # "held"
        BY <3>1, FinishLeavesNoLease DEF ServeInv
      <3>3. QED
        BY <1>12, <3>2, FinishServes DEF StartEnds, ServeInv
    <2>2. CASE ~(active = t)
      BY <1>12, <2>2, QuietServes DEF StartEnds, serveVars
    <2>3. QED
      BY <2>1, <2>2
  <1>13. ASSUME NEW t \in Turns, TurnStarted(t) PROVE ServeInv'
    BY <1>13, QuietServes DEF TurnStarted, serveVars
  <1>14. ASSUME NEW t \in Turns, NEW s \in {"completed", "interrupted"}, TurnCompleted(t, s)
        PROVE  ServeInv'
    <2>1. CASE Reaches(t, active) /\ turnId[active] = t
      <3>1. /\ active \in Turns /\ active = active
            /\ \E status, emit, linearize, l : FinishActive(active, status, emit, linearize, l)
        BY <1>14, <2>1 DEF TurnCompleted, TypeOK, Reaches
      <3>2. active' = 0 /\ \A u \in Turns : lease'[u] # "held"
        BY <3>1, FinishLeavesNoLease DEF ServeInv
      <3>3. QED
        BY <1>14, <3>2, FinishServes DEF TurnCompleted, ServeInv
    <2>2. CASE ~(Reaches(t, active) /\ turnId[active] = t)
      BY <1>14, <2>2, QuietServes DEF TurnCompleted, serveVars
    <2>3. QED
      BY <2>1, <2>2
  <1>15. ASSUME NEW t \in Turns, Steer(t) PROVE ServeInv'
    BY <1>15, QuietServes DEF Steer, serveVars
  <1>16. ASSUME NEW t \in Turns, SteerEnds(t) PROVE ServeInv'
    BY <1>16, QuietServes DEF SteerEnds, serveVars
  <1>17. ASSUME NEW t \in Turns, Interrupt(t) PROVE ServeInv'
    BY <1>17, QuietServes DEF Interrupt, serveVars
  <1>18. ASSUME NEW t \in Turns, NEW pc \in {"acked", "rejected"}, InterruptReplies(t, pc)
        PROVE  ServeInv'
    BY <1>18, QuietServes DEF InterruptReplies, serveVars
  <1>19. ASSUME NEW t \in Turns, InterruptTimesOut(t) PROVE ServeInv'
    <2>1. active' = 0 /\ \A u \in Turns : lease'[u] # "held"
      BY <1>19, FinishLeavesNoLease DEF InterruptTimesOut, GivesUp, ServeInv
    <2>2. QED
      BY <1>19, <2>1, FinishServes
         DEF InterruptTimesOut, GivesUp, BeginRecovery, NoRecovery, ServeInv
  <1>20. ASSUME NEW t \in Turns, InterruptFails(t) PROVE ServeInv'
    <2>1. active' = 0 /\ \A u \in Turns : lease'[u] # "held"
      BY <1>20, FinishLeavesNoLease DEF InterruptFails, GivesUp, ServeInv
    <2>2. QED
      BY <1>20, <2>1, FinishServes
         DEF InterruptFails, GivesUp, BeginRecovery, NoRecovery, ServeInv
  <1>21. ASSUME NEW t \in Turns, InterruptEnds(t) PROVE ServeInv'
    BY <1>21, QuietServes DEF InterruptEnds, serveVars
  <1>22. ASSUME NEW t \in Turns, InterruptRecovered(t) PROVE ServeInv'
    BY <1>22, QuietServes DEF InterruptRecovered, serveVars
  <1>23. ASSUME NEW t \in Turns, RecoveryGranted(t) PROVE ServeInv'
    BY <1>23 DEF RecoveryGranted, RecoveryGrantedTo, AwaitsLease, ServeInv, TurnLeasesAccounted,
       RecoveryIsAlone, TypeOK
  <1>24. ASSUME NEW t \in Turns, RecoveryRefused(t) PROVE ServeInv'
    BY <1>24 DEF RecoveryRefused, AwaitsLease, ServeInv, TurnLeasesAccounted, RecoveryIsAlone,
       TypeOK
  <1>25. ASSUME NEW ok \in BOOLEAN, RestartSettles(ok) PROVE ServeInv'
    BY <1>25 DEF RestartSettles, ServeInv, TurnLeasesAccounted, RecoveryIsAlone, TypeOK
  <1>26. CASE RecoveryRestarts
    BY <1>26 DEF RecoveryRestarts, ServeInv, TurnLeasesAccounted, RecoveryIsAlone, TypeOK
  <1>27. CASE RecoveryAcquires
    BY <1>27 DEF RecoveryAcquires, ServeInv, TurnLeasesAccounted, RecoveryIsAlone, TypeOK
  <1>28. CASE RecoveryResumes
    BY <1>28 DEF RecoveryResumes, RecoveryEnds, ServeInv, TurnLeasesAccounted, RecoveryIsAlone,
       TypeOK
  <1>29. CASE RecoveryStops
    BY <1>29 DEF RecoveryStops, Bounded, ServeInv, TurnLeasesAccounted, RecoveryIsAlone, TypeOK
  <1>30. CASE RecoveryFails
    BY <1>30 DEF RecoveryFails, RecoveryEnds, ServeInv, TurnLeasesAccounted, RecoveryIsAlone, TypeOK
  <1>31. CASE HostStops
    BY <1>31, HostServes DEF HostStops, HostStates, Gen, TypeOK
  <1>32. CASE HostRestarts
    BY <1>32, HostServes DEF HostRestarts, HostStates, Gen, TypeOK
  <1>33. CASE HostStarts
    BY <1>33, HostServes DEF HostStarts, HostStates, Gen, TypeOK
  <1>34. CASE HostReady
    BY <1>34, HostServes DEF HostReady, HostStates, Gen, TypeOK
  <1>35. CASE Dispose
    BY <1>35 DEF Dispose, ServeInv, TurnLeasesAccounted, RecoveryIsAlone, TypeOK
  <1>36. CASE UNCHANGED vars
    BY <1>36, QuietServes DEF vars, serveVars
  <1> HIDE DEF hostVars, turnVars, flowVars, controlVars, recVars, baseVars
  <1>37. QED
    BY <1>1, <1>2, <1>3, <1>4, <1>5, <1>6, <1>7, <1>8, <1>9, <1>10, <1>11, <1>12,
       <1>13, <1>14, <1>15, <1>16, <1>17, <1>18, <1>19, <1>20, <1>21, <1>22, <1>23, <1>24,
       <1>25, <1>26, <1>27, <1>28, <1>29, <1>30, <1>31, <1>32, <1>33, <1>34, <1>35, <1>36
    DEF Next, StartStep, NotificationStep, ControlStep, RecoveryStep, HostStep

\* The two facts above hold in every reachable state.
LEMMA ServeInvariant == Spec => [](TypeOK /\ ServeInv)
  <1>1. Init => ServeInv
    BY DEF Init, ServeInv, TurnLeasesAccounted, RecoveryIsAlone
  <1>2. Spec => []TypeOK
    BY TypeInvariant
  <1>3. QED
    BY <1>1, <1>2, StepServes, PTL DEF Spec

\* The active turn with a lease is served by a ready host of its generation.
THEOREM TurnsAreServed == Spec => []TurnIsServed
  <1>1. ServeInv => TurnIsServed
    BY DEF ServeInv, TurnIsServed
  <1>2. QED
    BY <1>1, ServeInvariant, PTL

\* No lease of a turn or of a recovery outlives it.
THEOREM LeasesAreAccounted == Spec => []TurnLeasesAccounted
  <1>1. ServeInv => TurnLeasesAccounted
    BY DEF ServeInv
  <1>2. QED
    BY <1>1, ServeInvariant, PTL

\* No turn runs beside a recovery or its restart.
THEOREM RecoveriesAreAlone == Spec => []RecoveryIsAlone
  <1>1. ServeInv => RecoveryIsAlone
    BY DEF ServeInv
  <1>2. QED
    BY <1>1, ServeInvariant, PTL

-----------------------------------------------------------------------------
(* Uncertain interrupts                                                    *)

\* Another process serves, or the failure of the recovery was reported.
Recovered(t) == hostGen > genOf[t] \/ Logged(t, "recovery-failed")

\* What is still to come for a turn that was given up.
UncertainInv ==
    \A t \in Turns : terminalResult[t] = "interrupt-uncertain" =>
        /\ lease[t] # "asked"
        /\ \/ disposed
           \/ Recovered(t)
           \/ recPc # "none" /\ recTurn = t /\ queueIdentity = t

\* A recovery has a turn, and once restarted a generation after the turn's.
ProgressInv ==
    /\ recPc # "none" => recTurn \in Turns /\ lease[recTurn] # "asked"
    /\ recPc \in {"restarted", "acquire", "resume"} =>
            recGen > genOf[recTurn] /\ hostGen >= recGen

\* A turn that is interrupted has a lease and an id.
ControlInv ==
    \A t \in Turns : interrupt[t] \in {"asked", "acked", "rejected"} /\ active = t =>
        lease[t] = "held" /\ turnId[t] # 0

\* Nothing has happened to a turn that is not started.
FreshInv ==
    \A t \in Turns : t > lastTurn =>
        active # t /\ interrupt[t] = "none" /\ terminalResult[t] = "none"

RecoverInv == UncertainInv /\ ProgressInv /\ ControlInv /\ FreshInv

\* An event stays in the log when others are appended.
LEMMA AppendKeeps ==
    ASSUME NEW l \in Seq(Events), NEW e, NEW i \in DOMAIN l
    PROVE  i \in DOMAIN Append(l, e) /\ Append(l, e)[i] = l[i]
  OBVIOUS

\* So does one that #finishActive finds, whether it appends or not.
LEMMA FinishKeepsLog ==
    ASSUME NEW l \in Seq(Events), NEW i \in DOMAIN l, NEW t, NEW status, NEW emit,
           NEW linearize, FinishActive(t, status, emit, linearize, l)
    PROVE  i \in DOMAIN log' /\ log'[i] = l[i]
  BY AppendKeeps DEF FinishActive

\* No step takes an event from the log.
LEMMA LogGrows ==
    ASSUME TypeOK, [Next]_vars, NEW i \in DOMAIN log
    PROVE  i \in DOMAIN log' /\ log'[i] = log[i]
  <1> DEFINE Kept == i \in DOMAIN log' /\ log'[i] = log[i]
  <1>0. log \in Seq(Events)
    BY DEF TypeOK
  <1> USE DEF turnVars
  <1>1. ASSUME NEW c \in Client, Connect(c) PROVE Kept
    BY <1>1 DEF Connect
  <1>2. ASSUME NEW c \in Client, Disconnect(c) PROVE Kept
    BY <1>2, <1>0, FinishKeepsLog DEF Disconnect
  <1>3. ASSUME NEW c \in Client, StartTurn(c) PROVE Kept
    BY <1>3 DEF StartTurn
  <1>4. ASSUME NEW t \in Turns, HostGrants(t) PROVE Kept
    BY <1>4 DEF HostGrants
  <1>5. ASSUME NEW t \in Turns, HostRefuses(t) PROVE Kept
    BY <1>5 DEF HostRefuses
  <1>6. ASSUME NEW t \in Turns, LeaseArrives(t) PROVE Kept
    BY <1>6 DEF LeaseArrives
  <1>7. ASSUME NEW t \in Turns, RequestStart(t) PROVE Kept
    BY <1>7 DEF RequestStart
  <1>8. ASSUME NEW t \in Turns, StartWritten(t) PROVE Kept
    BY <1>8 DEF StartWritten
  <1>9. ASSUME NEW t \in Turns, StartRefused(t) PROVE Kept
    BY <1>9 DEF StartRefused
  <1>10. ASSUME NEW t \in Turns, NEW pc \in {"answered", "answeredEnded"}, StartReplies(t, pc)
        PROVE  Kept
    BY <1>10 DEF StartReplies
  <1>11. ASSUME NEW t \in Turns, StartAnswered(t) PROVE Kept
    <2>1. /\ Announced(t) \in Seq(Events)
          /\ i \in DOMAIN Announced(t) /\ Announced(t)[i] = log[i]
      BY <1>0, AnnouncedTypes, AppendKeeps DEF Announced
    <2>2. CASE \E status, emit, linearize :
                 FinishActive(t, status, emit, linearize, Announced(t))
      BY <2>1, <2>2, FinishKeepsLog
    <2>3. CASE \E status, emit, linearize : FinishActive(t, status, emit, linearize, log)
      BY <1>0, <2>3, FinishKeepsLog
    <2>4. CASE log' \in {log, Announced(t)}
      BY <2>1, <2>4
    <2>5. QED
      BY <1>11, <2>2, <2>3, <2>4 DEF StartAnswered
  <1>12. ASSUME NEW t \in Turns, StartEnds(t) PROVE Kept
    BY <1>12, <1>0, FinishKeepsLog DEF StartEnds
  <1>13. ASSUME NEW t \in Turns, TurnStarted(t) PROVE Kept
    BY <1>13, <1>0, AppendKeeps DEF TurnStarted, Announced
  <1>14. ASSUME NEW t \in Turns, NEW s \in {"completed", "interrupted"}, TurnCompleted(t, s)
        PROVE  Kept
    BY <1>14, <1>0, FinishKeepsLog DEF TurnCompleted
  <1>15. ASSUME NEW t \in Turns, Steer(t) PROVE Kept
    BY <1>15 DEF Steer
  <1>16. ASSUME NEW t \in Turns, SteerEnds(t) PROVE Kept
    BY <1>16 DEF SteerEnds
  <1>17. ASSUME NEW t \in Turns, Interrupt(t) PROVE Kept
    BY <1>17 DEF Interrupt
  <1>18. ASSUME NEW t \in Turns, NEW pc \in {"acked", "rejected"}, InterruptReplies(t, pc)
        PROVE  Kept
    BY <1>18 DEF InterruptReplies
  <1>19. ASSUME NEW t \in Turns, InterruptTimesOut(t) PROVE Kept
    BY <1>19, <1>0, FinishKeepsLog DEF InterruptTimesOut, GivesUp
  <1>20. ASSUME NEW t \in Turns, InterruptFails(t) PROVE Kept
    BY <1>20, <1>0, FinishKeepsLog DEF InterruptFails, GivesUp
  <1>21. ASSUME NEW t \in Turns, InterruptEnds(t) PROVE Kept
    BY <1>21 DEF InterruptEnds
  <1>22. ASSUME NEW t \in Turns, InterruptRecovered(t) PROVE Kept
    BY <1>22 DEF InterruptRecovered
  <1>23. ASSUME NEW t \in Turns, RecoveryGranted(t) PROVE Kept
    BY <1>23 DEF RecoveryGranted
  <1>24. ASSUME NEW t \in Turns, RecoveryRefused(t) PROVE Kept
    BY <1>24 DEF RecoveryRefused
  <1>25. ASSUME NEW ok \in BOOLEAN, RestartSettles(ok) PROVE Kept
    BY <1>25 DEF RestartSettles
  <1>26. CASE RecoveryRestarts
    BY <1>26 DEF RecoveryRestarts
  <1>27. CASE RecoveryAcquires
    BY <1>27 DEF RecoveryAcquires
  <1>28. CASE RecoveryResumes
    BY <1>28 DEF RecoveryResumes
  <1>29. CASE RecoveryStops
    BY <1>29 DEF RecoveryStops
  <1>30. CASE RecoveryFails
    BY <1>30, <1>0, AppendKeeps DEF RecoveryFails, Diagnosed
  <1>31. CASE HostStops
    BY <1>31, <1>0, FinishKeepsLog DEF HostStops, HostChanges
  <1>32. CASE HostRestarts
    BY <1>32, <1>0, FinishKeepsLog DEF HostRestarts, HostChanges
  <1>33. CASE HostStarts
    BY <1>33, <1>0, FinishKeepsLog DEF HostStarts, HostChanges
  <1>34. CASE HostReady
    BY <1>34, <1>0, FinishKeepsLog DEF HostReady, HostChanges
  <1>35. CASE Dispose
    BY <1>35 DEF Dispose
  <1>36. CASE UNCHANGED vars
    BY <1>36 DEF vars
  <1> HIDE DEF turnVars
  <1>37. QED
    BY <1>1, <1>2, <1>3, <1>4, <1>5, <1>6, <1>7, <1>8, <1>9, <1>10, <1>11, <1>12,
       <1>13, <1>14, <1>15, <1>16, <1>17, <1>18, <1>19, <1>20, <1>21, <1>22, <1>23, <1>24,
       <1>25, <1>26, <1>27, <1>28, <1>29, <1>30, <1>31, <1>32, <1>33, <1>34, <1>35, <1>36
    DEF Next, StartStep, NotificationStep, ControlStep, RecoveryStep, HostStep

\* What a step does that neither gives a turn up nor ends a recovery.
Ordinary ==
    /\ hostGen' >= hostGen /\ (disposed => disposed')
    /\ \A t \in Turns :
        /\ genOf'[t] = genOf[t] \/ lease[t] = "asked"
        /\ lease'[t] = "asked" => lease[t] = "asked" \/ t > lastTurn
        /\ terminalResult'[t] = "interrupt-uncertain" =>
                        terminalResult[t] = "interrupt-uncertain"
        /\ terminalResult[t] = "none" => terminalResult'[t] = "none" \/ t = active
        /\ turnId[t] # 0 => turnId'[t] # 0
        /\ interrupt'[t] \in {"asked", "acked", "rejected"} =>
                \/ interrupt[t] \in {"asked", "acked", "rejected"}
                \/ active = t /\ lease[t] = "held" /\ turnId[t] # 0
        /\ interrupt[t] = "none" => interrupt'[t] = "none" \/ t = active
    /\ \/ active' = 0 /\ lastTurn' = lastTurn
       \/ active' = active /\ lastTurn' = lastTurn
          /\ (lease[active] = "held" => lease'[active] = "held")
       \/ recPc = "none" /\ active' = lastTurn + 1 /\ lastTurn' = lastTurn + 1
    /\ recTurn' = recTurn /\ (recPc = "none" <=> recPc' = "none")
    /\ recPc' \in {"restarted", "acquire", "resume"} =>
        \/ recPc \in {"restarted", "acquire", "resume"} /\ recGen' = recGen
        \/ recGen' > genOf[recTurn] /\ hostGen' >= recGen'
    /\ lease'[recTurn] = "asked" => lease[recTurn] = "asked" \/ recPc = "none"
    /\ queueIdentity' = queueIdentity \/ active # 0 \/ disposed'

\* Such a step keeps the invariant.
LEMMA OrdinaryKeeps ==
    ASSUME TypeOK, TypeOK', ServeInv, RecoverInv, Ordinary,
           \A t \in Turns : Logged(t, "recovery-failed") => Logged(t, "recovery-failed")'
    PROVE  RecoverInv'
  <1> USE DEF RecoverInv
  <1>1. UncertainInv'
    <2> SUFFICES ASSUME NEW t \in Turns, terminalResult'[t] = "interrupt-uncertain"
                 PROVE  /\ lease'[t] # "asked"
                        /\ \/ disposed'
                           \/ Recovered(t)'
                           \/ recPc' # "none" /\ recTurn' = t /\ queueIdentity' = t
      BY DEF UncertainInv
    <2>1. terminalResult[t] = "interrupt-uncertain"
      BY DEF Ordinary
    <2>2. lease[t] # "asked" /\ lease'[t] # "asked" /\ genOf'[t] = genOf[t]
      BY <2>1 DEF Ordinary, UncertainInv, FreshInv
    <2>3. CASE disposed
      BY <2>2, <2>3 DEF Ordinary
    <2>4. CASE Recovered(t)
      BY <2>2, <2>4 DEF Ordinary, Recovered, TypeOK, Gen
    <2>5. CASE recPc # "none" /\ recTurn = t /\ queueIdentity = t
      BY <2>2, <2>5 DEF Ordinary, ServeInv, RecoveryIsAlone
    <2>6. QED
      BY <2>1, <2>3, <2>4, <2>5 DEF UncertainInv
  <1>2. ProgressInv'
    BY DEF ProgressInv, Ordinary, TypeOK, Gen
  <1>3. ControlInv'
    <2> SUFFICES ASSUME NEW t \in Turns, active' = t,
                        interrupt'[t] \in {"asked", "acked", "rejected"}
                 PROVE  lease'[t] = "held" /\ turnId'[t] # 0
      BY DEF ControlInv
    <2>1. t \in Nat /\ t # 0 /\ lastTurn \in Nat
      BY DEF Turns, TypeOK
    <2>2. active = t
      <3>1. CASE t > lastTurn
        BY <3>1 DEF Ordinary, FreshInv
      <3>2. CASE ~(t > lastTurn)
        BY <2>1, <3>2 DEF Ordinary
      <3>3. QED
        BY <3>1, <3>2
    <2>3. active' = active /\ lease[t] = "held" /\ turnId[t] # 0
      BY <2>2 DEF Ordinary, ControlInv
    <2>4. QED
      BY <2>1, <2>2, <2>3 DEF Ordinary, ServeInv, FreshInv
  <1>4. FreshInv'
    BY DEF FreshInv, Ordinary, TypeOK, Turns
  <1>5. QED
    BY <1>1, <1>2, <1>3, <1>4

\* All steps but giving a turn up and ending a recovery are of that kind.
LEMMA StepIsOrdinary ==
    ASSUME TypeOK, ServeInv, RecoverInv, [Next]_vars,
           ~\E t \in Turns : InterruptTimesOut(t) \/ InterruptFails(t),
           ~RecoveryResumes, ~RecoveryFails
    PROVE  Ordinary
  <1> USE DEF Ordinary, TypeOK, hostVars, turnVars, flowVars, controlVars, recVars, baseVars
  <1>0. hostGen >= hostGen /\ ProgressInv
    BY DEF Gen, RecoverInv
  <1>f. ASSUME NEW status \in Statuses \ {"interrupt-uncertain"}, NEW emit, NEW linearize,
               NEW l, FinishActive(active, status, emit, linearize, l), active \in Turns,
               UNCHANGED <<interrupt, recVars, lastTurn, disposed, genOf>>, hostGen' >= hostGen,
               \A t \in Turns : turnId[t] # 0 => turnId'[t] # 0
        PROVE  Ordinary
    <2>1. /\ active' = 0
          /\ \A t \in Turns :
                /\ lease'[t] = "asked" => lease[t] = "asked"
                /\ terminalResult'[t] = "interrupt-uncertain" =>
                        terminalResult[t] = "interrupt-uncertain"
                /\ terminalResult[t] = "none" => terminalResult'[t] = "none" \/ t = active
      BY <1>f DEF FinishActive, Statuses
    <2>2. active # 0
      BY <1>f DEF Turns
    <2>3. QED
      BY <1>f, <2>1, <2>2, <1>0 DEF ProgressInv
  <1>h. ASSUME NEW s \in HostStates, NEW g \in Gen, HostChanges(s, g), g >= hostGen
        PROVE  Ordinary
    <2>1. CASE active \in Turns /\ FinishActive(active, "failed", TRUE, FALSE, log)
      <3>1. "failed" \in Statuses \ {"interrupt-uncertain"}
        BY DEF Statuses
      <3>2. UNCHANGED <<interrupt, turnId, recVars, baseVars>> /\ hostGen' >= hostGen
        BY <1>h DEF HostChanges
      <3>3. QED
        BY <2>1, <3>1, <3>2, <1>f
    <2>2. CASE UNCHANGED turnVars
      BY <1>h, <2>2, <1>0 DEF HostChanges, ProgressInv
    <2>3. QED
      BY <1>h, <2>1, <2>2 DEF HostChanges, EndsTurn
  <1>1. ASSUME NEW c \in Client, Connect(c) PROVE Ordinary
    BY <1>1, <1>0 DEF Connect, ProgressInv
  <1>2. ASSUME NEW c \in Client, Disconnect(c) PROVE Ordinary
    <2>1. CASE active # 0 /\ owner[active] = c
      <3>1. active \in Turns /\ "interrupted" \in Statuses \ {"interrupt-uncertain"}
        BY <1>2, <2>1 DEF Reaches, Statuses
      <3>2. \E emit, linearize, l : FinishActive(active, "interrupted", emit, linearize, l)
        BY <1>2, <2>1, <3>1 DEF Disconnect
      <3>3. /\ UNCHANGED <<interrupt, turnId, recVars, lastTurn, disposed, genOf>>
            /\ hostGen' >= hostGen
        BY <1>2, <2>1, <1>0 DEF Disconnect
      <3>4. QED
        BY <3>1, <3>2, <3>3, <1>f
    <2>2. CASE ~(active # 0 /\ owner[active] = c)
      BY <1>2, <2>2, <1>0 DEF Disconnect, ProgressInv
    <2>3. QED
      BY <2>1, <2>2
  <1>3. ASSUME NEW c \in Client, StartTurn(c) PROVE Ordinary
    BY <1>3, <1>0 DEF StartTurn, MayCall, NoRecovery, NumbersLeft, Turns, ProgressInv, ServeInv
  <1>4. ASSUME NEW t \in Turns, HostGrants(t) PROVE Ordinary
    BY <1>4, <1>0 DEF HostGrants, ProgressInv
  <1>5. ASSUME NEW t \in Turns, HostRefuses(t) PROVE Ordinary
    BY <1>5, <1>0 DEF HostRefuses, ProgressInv
  <1>6. ASSUME NEW t \in Turns, LeaseArrives(t) PROVE Ordinary
    BY <1>6, <1>0 DEF LeaseArrives, TakesLease, ProgressInv
  <1>7. ASSUME NEW t \in Turns, RequestStart(t) PROVE Ordinary
    BY <1>7, <1>0 DEF RequestStart, ProgressInv
  <1>8. ASSUME NEW t \in Turns, StartWritten(t) PROVE Ordinary
    BY <1>8, <1>0 DEF StartWritten, ProgressInv
  <1>9. ASSUME NEW t \in Turns, StartRefused(t) PROVE Ordinary
    BY <1>9, <1>0 DEF StartRefused, ProgressInv
  <1>10. ASSUME NEW t \in Turns, NEW pc \in {"answered", "answeredEnded"}, StartReplies(t, pc)
        PROVE  Ordinary
    BY <1>10, <1>0 DEF StartReplies, ProgressInv
  <1>11. ASSUME NEW t \in Turns, StartAnswered(t) PROVE Ordinary
    <2>1. CASE active # t
      BY <1>11, <2>1, <1>0 DEF StartAnswered, ProgressInv
    <2>2. CASE active = t /\ Establishes(t, t) /\ start[t] # "answeredEnded"
      <3>1. /\ turnId' = [turnId EXCEPT ![t] = t] /\ t # 0
            /\ UNCHANGED <<active, terminalResult, lease>>
        BY <1>11, <2>2 DEF StartAnswered, Turns
      <3>2. UNCHANGED <<hostVars, controlVars, recVars, baseVars>>
        BY <1>11 DEF StartAnswered
      <3>3. QED
        BY <2>2, <3>1, <3>2, <1>0 DEF ProgressInv
    <2>3. CASE active = t /\ (Establishes(t, t) => start[t] = "answeredEnded")
      <3>1. \E status \in {"failed", "completed"} : \E emit, linearize, l :
                FinishActive(active, status, emit, linearize, l)
        BY <1>11, <2>3 DEF StartAnswered
      <3>2. {"failed", "completed"} \subseteq Statuses \ {"interrupt-uncertain"}
        BY DEF Statuses
      <3>3. turnId' = turnId \/ turnId' = [turnId EXCEPT ![t] = t]
        BY <1>11, <2>3 DEF StartAnswered
      <3>4. \A u \in Turns : turnId[u] # 0 => turnId'[u] # 0
        BY <3>3 DEF Turns
      <3>5. UNCHANGED <<interrupt, recVars, baseVars>> /\ hostGen' >= hostGen
        BY <1>11, <1>0 DEF StartAnswered
      <3>6. active \in Turns
        BY <2>3
      <3>7. QED
        BY <3>1, <3>2, <3>4, <3>5, <3>6, <1>f
    <2>4. QED
      BY <2>1, <2>2, <2>3
  <1>12. ASSUME NEW t \in Turns, StartEnds(t) PROVE Ordinary
    <2>1. CASE active = t
      <3>1. active \in Turns /\ "failed" \in Statuses \ {"interrupt-uncertain"}
        BY <1>12, <2>1 DEF Reaches, Statuses
      <3>2. \E emit, linearize, l : FinishActive(active, "failed", emit, linearize, l)
        BY <1>12, <2>1, <3>1 DEF StartEnds
      <3>3. /\ UNCHANGED <<interrupt, turnId, recVars, lastTurn, disposed, genOf>>
            /\ hostGen' >= hostGen
        BY <1>12, <2>1, <1>0 DEF StartEnds
      <3>4. QED
        BY <3>1, <3>2, <3>3, <1>f
    <2>2. CASE ~(active = t)
      BY <1>12, <2>2, <1>0 DEF StartEnds, ProgressInv
    <2>3. QED
      BY <2>1, <2>2
  <1>13. ASSUME NEW t \in Turns, TurnStarted(t) PROVE Ordinary
    BY <1>13, <1>0 DEF TurnStarted, Reaches, ProgressInv
  <1>14. ASSUME NEW t \in Turns, NEW s \in {"completed", "interrupted"}, TurnCompleted(t, s)
        PROVE  Ordinary
    <2>1. CASE Reaches(t, active) /\ turnId[active] = t
      <3>1. active \in Turns /\ s \in Statuses \ {"interrupt-uncertain"}
        BY <1>14, <2>1 DEF Reaches, Statuses
      <3>2. \E emit, linearize, l : FinishActive(active, s, emit, linearize, l)
        BY <1>14, <2>1, <3>1 DEF TurnCompleted
      <3>3. /\ UNCHANGED <<interrupt, turnId, recVars, lastTurn, disposed, genOf>>
            /\ hostGen' >= hostGen
        BY <1>14, <2>1, <1>0 DEF TurnCompleted
      <3>4. QED
        BY <3>1, <3>2, <3>3, <1>f
    <2>2. CASE ~(Reaches(t, active) /\ turnId[active] = t)
      BY <1>14, <2>2, <1>0 DEF TurnCompleted, ProgressInv
    <2>3. QED
      BY <2>1, <2>2
  <1>15. ASSUME NEW t \in Turns, Steer(t) PROVE Ordinary
    BY <1>15, <1>0 DEF Steer, ProgressInv
  <1>16. ASSUME NEW t \in Turns, SteerEnds(t) PROVE Ordinary
    BY <1>16, <1>0 DEF SteerEnds, ProgressInv
  <1>17. ASSUME NEW t \in Turns, Interrupt(t) PROVE Ordinary
    BY <1>17, <1>0 DEF Interrupt, MayControl, ProgressInv
  <1>18. ASSUME NEW t \in Turns, NEW pc \in {"acked", "rejected"}, InterruptReplies(t, pc)
        PROVE  Ordinary
    BY <1>18, <1>0 DEF InterruptReplies, ProgressInv
  <1>19. ASSUME NEW t \in Turns, InterruptEnds(t) PROVE Ordinary
    BY <1>19, <1>0 DEF InterruptEnds, ProgressInv
  <1>20. ASSUME NEW t \in Turns, InterruptRecovered(t) PROVE Ordinary
    BY <1>20, <1>0 DEF InterruptRecovered, ProgressInv
  <1>21. ASSUME NEW t \in Turns, RecoveryGranted(t) PROVE Ordinary
    BY <1>21, <1>0 DEF RecoveryGranted, RecoveryGrantedTo, AwaitsLease, ProgressInv
  <1>22. ASSUME NEW t \in Turns, RecoveryRefused(t) PROVE Ordinary
    BY <1>22, <1>0 DEF RecoveryRefused, AwaitsLease, ProgressInv
  <1>23. ASSUME NEW ok \in BOOLEAN, RestartSettles(ok) PROVE Ordinary
    BY <1>23, <1>0 DEF RestartSettles, Gen, ProgressInv
  <1>24. CASE RecoveryRestarts
    BY <1>24, <1>0 DEF RecoveryRestarts, ProgressInv
  <1>25. CASE RecoveryAcquires
    BY <1>25, <1>0 DEF RecoveryAcquires, ProgressInv
  <1>26. CASE RecoveryStops
    BY <1>26, <1>0 DEF RecoveryStops, Bounded, ProgressInv
  <1>27. CASE HostStops
    BY <1>27, <1>h DEF HostStops, HostStates, Gen
  <1>28. CASE HostRestarts
    BY <1>28, <1>h DEF HostRestarts, HostStates, Gen
  <1>29. CASE HostStarts
    BY <1>29, <1>h DEF HostStarts, HostStates, Gen
  <1>30. CASE HostReady
    BY <1>30, <1>h DEF HostReady, HostStates, Gen
  <1>31. CASE Dispose
    BY <1>31, <1>0 DEF Dispose, ProgressInv
  <1>32. CASE UNCHANGED vars
    BY <1>32, <1>0 DEF vars, ProgressInv
  <1> HIDE DEF Ordinary, TypeOK, hostVars, turnVars, flowVars, controlVars, recVars,
               baseVars
  <1>33. QED
    BY <1>1, <1>2, <1>3, <1>4, <1>5, <1>6, <1>7, <1>8, <1>9, <1>10, <1>11, <1>12,
       <1>13, <1>14, <1>15, <1>16, <1>17, <1>18, <1>19, <1>20, <1>21, <1>22, <1>23, <1>24,
       <1>25, <1>26, <1>27, <1>28, <1>29, <1>30, <1>31, <1>32
    DEF Next, StartStep, NotificationStep, ControlStep, RecoveryStep, HostStep

\* The steps that begin a recovery.
LEMMA GivingUpKeeps ==
    ASSUME TypeOK, ServeInv, RecoverInv, NEW t \in Turns, active = t,
           interrupt[t] \in {"asked", "acked", "rejected"}, GivesUp(t),
           UNCHANGED <<hostVars, generation, start, startResult, srv, control, steer,
                       interruptResult, baseVars>>,
           \A u \in Turns : Logged(u, "recovery-failed") => Logged(u, "recovery-failed")'
    PROVE  RecoverInv'
  <1> USE DEF RecoverInv
  <1>1. t # 0 /\ recPc = "none" /\ restart = "none"
    BY DEF ServeInv, RecoveryIsAlone, TypeOK, RecPcs, Turns
  <1>2. /\ lease[t] = "held" /\ turnId[t] # 0 /\ turnId' = turnId
        /\ active' = 0 /\ queueIdentity' = t
        /\ lease' = [lease EXCEPT ![t] = "released"]
        /\ terminalResult' = [terminalResult EXCEPT ![t] = "interrupt-uncertain"]
    BY DEF GivesUp, FinishActive, ControlInv, TypeOK
  <1>3. recPc' = "begun" /\ recTurn' = t
    BY <1>1 DEF GivesUp, BeginRecovery, NoRecovery
  <1>4. UncertainInv'
    BY <1>1, <1>2, <1>3 DEF UncertainInv, Recovered, TypeOK, hostVars, baseVars
  <1>5. ProgressInv'
    BY <1>2, <1>3 DEF ProgressInv, TypeOK
  <1>6. ControlInv'
    BY <1>2 DEF ControlInv, Turns
  <1>7. FreshInv'
    BY <1>1, <1>2 DEF FreshInv, GivesUp, baseVars, TypeOK, Turns
  <1>8. QED
    BY <1>4, <1>5, <1>6, <1>7

\* The steps that end a recovery.
LEMMA EndingKeeps ==
    ASSUME TypeOK, ServeInv, RecoverInv, RecoveryResumes \/ RecoveryFails,
           \A u \in Turns : Logged(u, "recovery-failed") => Logged(u, "recovery-failed")'
    PROVE  RecoverInv'
  <1> USE DEF RecoverInv
  <1>1. /\ recPc # "none" /\ recPc' = "none"
        /\ UNCHANGED <<hostVars, generation, active, queueIdentity, terminalResult, lease,
                       flowVars, controlVars, baseVars, recTurn, recGen>>
    BY DEF RecoveryResumes, RecoveryFails, RecoveryEnds, turnVars
  <1>2. \A t \in Turns : recTurn = t /\ queueIdentity = t =>
            disposed \/ Recovered(t) \/ Logged(t, "recovery-failed")'
    <2>1. CASE RecoveryResumes
      BY <2>1 DEF RecoveryResumes, ProgressInv, Recovered, TypeOK, Gen
    <2>2. CASE RecoveryFails
      <3> SUFFICES ASSUME NEW t \in Turns, queueIdentity = t, ~disposed
                   PROVE  Logged(t, "recovery-failed")'
        OBVIOUS
      <3>1. CASE Logged(t, "recovery-failed")
        BY <3>1
      <3>2. CASE ~Logged(t, "recovery-failed")
        <4>1. log' = Append(log, Event(t, "recovery-failed"))
          BY <2>2, <3>2 DEF RecoveryFails, Reserves, Diagnosed, Turns
        <4>2. log \in Seq(Events)
          BY DEF TypeOK
        <4>3. Len(log) + 1 \in DOMAIN log' /\ log'[Len(log) + 1] = Event(t, "recovery-failed")
          BY <4>1, <4>2
        <4>4. QED
          BY <4>3 DEF Logged, Event
      <3>3. QED
        BY <3>1, <3>2
    <2>3. QED
      BY <2>1, <2>2
  <1>3. UncertainInv'
    BY <1>1, <1>2 DEF UncertainInv, Recovered, hostVars, baseVars
  <1>4. ProgressInv'
    BY <1>1 DEF ProgressInv
  <1>5. ControlInv'
    BY <1>1 DEF ControlInv, flowVars, controlVars
  <1>6. FreshInv'
    BY <1>1 DEF FreshInv, controlVars, baseVars
  <1>7. QED
    BY <1>3, <1>4, <1>5, <1>6

\* Every step keeps the invariant.
LEMMA StepRecovers == TypeOK /\ ServeInv /\ RecoverInv /\ [Next]_vars => RecoverInv'
  <1> SUFFICES ASSUME TypeOK, ServeInv, RecoverInv, [Next]_vars PROVE RecoverInv'
    OBVIOUS
  <1>1. \A t \in Turns : Logged(t, "recovery-failed") => Logged(t, "recovery-failed")'
    BY LogGrows DEF Logged, Event
  <1>2. TypeOK'
    BY StepKeepsTypes
  <1>3. ASSUME NEW t \in Turns, InterruptTimesOut(t) \/ InterruptFails(t) PROVE RecoverInv'
    BY <1>1, <1>3, GivingUpKeeps DEF InterruptTimesOut, InterruptFails
  <1>4. CASE RecoveryResumes \/ RecoveryFails
    BY <1>1, <1>4, EndingKeeps
  <1>5. CASE /\ ~\E t \in Turns : InterruptTimesOut(t) \/ InterruptFails(t)
             /\ ~RecoveryResumes /\ ~RecoveryFails
    BY <1>1, <1>2, <1>5, StepIsOrdinary, OrdinaryKeeps
  <1>6. QED
    BY <1>3, <1>4, <1>5

\* A turn that follows an uncertain interrupt is of another process, or the
\* failure of the recovery was reported.
THEOREM UncertainTurnsAreRecovered == Spec => []UncertainIsRecovered
  <1>1. Init => RecoverInv
    BY DEF Init, RecoverInv, UncertainInv, ProgressInv, ControlInv, FreshInv, Turns
  <1>2. TypeOK /\ ServeInv /\ RecoverInv => UncertainIsRecovered
    <2> SUFFICES ASSUME TypeOK, ServeInv, RecoverInv, NEW t \in Turns, NEW u \in Turns,
                        terminalResult[t] = "interrupt-uncertain", lease[u] = "held"
                 PROVE  genOf[u] > genOf[t] \/ Logged(t, "recovery-failed")
      BY DEF UncertainIsRecovered
    <2>1. active = u /\ u # 0
      BY DEF ServeInv, TurnLeasesAccounted, Turns
    <2>2. ~disposed /\ recPc = "none" /\ hostGen = genOf[u]
      BY <2>1 DEF ServeInv, RecoveryIsAlone
    <2>3. Recovered(t)
      BY <2>2 DEF RecoverInv, UncertainInv
    <2>4. QED
      BY <2>2, <2>3 DEF Recovered
  <1>3. QED
    BY <1>1, <1>2, StepRecovers, ServeInvariant, PTL DEF Spec

-----------------------------------------------------------------------------
(* The boundaries of the turns                                             *)

\* What log l says of turn t.
Told(l, t) == {l[k].kind : k \in {k \in DOMAIN l : l[k].turn = t}}

\* Log l says nothing of a turn after m.
AtMost(l, m) == \A k \in DOMAIN l : l[k].turn <= m

\* BoundariesInOrder of a log l.
OrderedLog(l) ==
    \A i \in DOMAIN l :
        LET before == {l[k].kind : k \in {k \in 1..(i - 1) : l[k].turn = l[i].turn}}
        IN  /\ \A k \in 1..(i - 1) : l[k].turn <= l[i].turn
            /\ l[i].kind = "started" <=> before = {}
            /\ l[i].kind \in Statuses => before = {"started"}
            /\ l[i].kind = "recovery-failed" => before = {"started", "interrupt-uncertain"}

\* Only the newest turn is active, and nothing is known of a later one.
NewestInv ==
    /\ active \in {0, lastTurn}
    /\ AtMost(log, lastTurn)
    /\ \A t \in Turns : t > lastTurn => turnId[t] = 0

\* The active turn has an id if and only if it was announced, and did not end.
OpenInv ==
    active # 0 => Told(log, active) = IF turnId[active] = 0 THEN {} ELSE {"started"}

\* While a thread is recovered, the queue is the uncertain turn's, and nothing was
\* told after its end.
BarrierInv ==
    recPc # "none" /\ ~disposed =>
        /\ recTurn # 0 /\ queueIdentity = recTurn /\ AtMost(log, recTurn)
        /\ Told(log, recTurn) = {"started", "interrupt-uncertain"}

LogInv == OrderedLog(log) /\ NewestInv /\ OpenInv /\ BarrierInv

\* A recorded end is told, and one that must not be lost is recorded.
EndInv ==
    \A t \in Turns :
        /\ terminalResult[t] # "none" => terminalResult[t] \in Told(log, t)
        /\ \A s \in {"completed", "interrupt-uncertain"} :
                s \in Told(log, t) => terminalResult[t] = s

\* A turn that was started has its number; one that is recovered ended as uncertain.
FlowInv ==
    \A t \in Turns :
        /\ start[t] # "new" => t <= lastTurn
        /\ interrupt[t] = "recovering" =>
                active # t /\ terminalResult[t] = "interrupt-uncertain"

\* What a promise of turn t gave.
Agrees(t, r) ==
    /\ r \in Statuses => r \in Told(log, t)
    /\ r = "in-progress" => "started" \in Told(log, t)
    /\ r = "thrown" =>
        /\ active # t /\ t <= lastTurn /\ "completed" \notin Told(log, t)
        /\ disposed \/ "interrupt-uncertain" \notin Told(log, t)

PromiseInv ==
    \A t \in Turns : Agrees(t, startResult[t]) /\ Agrees(t, interruptResult[t])

ResultInv == EndInv /\ FlowInv /\ PromiseInv

\* What the steps do to the book of turns, by the kinds of step.
Stays ==
    /\ UNCHANGED <<active, lastTurn, turnId, terminalResult, log, queueIdentity, disposed>>
    /\ recPc' # "none" => recPc # "none" /\ recTurn' = recTurn

Begins ==
    /\ active = 0 /\ active' = lastTurn + 1 /\ lastTurn' = lastTurn + 1 /\ recPc' = "none"
    /\ UNCHANGED <<turnId, terminalResult, log, queueIdentity, disposed>>

Announces ==
    /\ active \in Turns /\ turnId[active] = 0
    /\ \E u \in Turns : turnId' = [turnId EXCEPT ![active] = u]
    /\ log' = AnnouncedAlways(active) /\ queueIdentity' = active
    /\ UNCHANGED <<active, lastTurn, terminalResult, disposed, recPc, recTurn>>

Ends(status, linearize) ==
    /\ active \in Turns /\ UNCHANGED turnId
    /\ FinishActive(active, status, TRUE, linearize, log)
    /\ UNCHANGED <<lastTurn, disposed, recPc, recTurn>>

AnnouncesAndEnds ==
    /\ active \in Turns /\ turnId[active] = 0
    /\ turnId' = [turnId EXCEPT ![active] = active]
    /\ FinishActive(active, "completed", TRUE, TRUE, AnnouncedAlways(active))
    /\ UNCHANGED <<lastTurn, disposed, recPc, recTurn>>

GivesUpActive ==
    /\ active \in Turns /\ turnId[active] # 0 /\ UNCHANGED turnId
    /\ FinishActive(active, "interrupt-uncertain", TRUE, TRUE, log)
    /\ recTurn' = active
    /\ UNCHANGED <<lastTurn, disposed>>

Reports ==
    /\ recPc # "none" /\ recPc' = "none"
    /\ log' = IF Reserves THEN Diagnosed ELSE log
    /\ UNCHANGED <<active, lastTurn, turnId, terminalResult, queueIdentity, disposed>>

Disposes ==
    /\ disposed' = TRUE /\ active' = 0
    /\ UNCHANGED <<lastTurn, turnId, terminalResult, log>>

Booked ==
    \/ Stays \/ Begins \/ Announces \/ AnnouncesAndEnds \/ GivesUpActive
    \/ \E s \in Statuses \ {"completed", "interrupt-uncertain"} : Ends(s, FALSE) \/ Ends(s, TRUE)
    \/ Ends("completed", TRUE)
    \/ Reports \/ Disposes

\* Every step is of one of these kinds.
LEMMA StepIsBooked == TypeOK /\ ServeInv /\ RecoverInv /\ [Next]_vars => Booked
  <1> SUFFICES ASSUME TypeOK, ServeInv, RecoverInv, [Next]_vars PROVE Booked
    OBVIOUS
  <1>0. active \in Turns \cup {0} /\ turnId \in [Turns -> Turns \cup {0}]
        /\ (recPc # "none" => active = 0)
    BY DEF TypeOK, ServeInv, RecoveryIsAlone
  <1>s. {"failed", "interrupted"} \subseteq Statuses \ {"completed", "interrupt-uncertain"}
    BY DEF Statuses
  <1> USE DEF hostVars, turnVars, flowVars, controlVars, recVars, baseVars
  <1>h. ASSUME NEW s, NEW g, HostChanges(s, g) PROVE Booked
    <2>1. CASE ~disposed /\ g >= generation /\ EndsTurn(s, g)
      <3>1. Ends("failed", FALSE)
        BY <1>h, <1>0, <2>1 DEF HostChanges, EndsTurn, Ends
      <3>2. QED
        BY <3>1, <1>s DEF Booked
    <2>2. CASE ~(~disposed /\ g >= generation /\ EndsTurn(s, g))
      BY <1>h, <2>2 DEF HostChanges, Booked, Stays
    <2>3. QED
      BY <2>1, <2>2
  <1>1. ASSUME NEW c \in Client, Connect(c) PROVE Booked
    BY <1>1 DEF Connect, Booked, Stays
  <1>2. ASSUME NEW c \in Client, Disconnect(c) PROVE Booked
    <2>1. CASE active # 0 /\ owner[active] = c
      <3>1. Ends("interrupted", FALSE)
        BY <1>2, <1>0, <2>1 DEF Disconnect, Ends
      <3>2. QED
        BY <3>1, <1>s DEF Booked
    <2>2. CASE ~(active # 0 /\ owner[active] = c)
      BY <1>2, <2>2 DEF Disconnect, Booked, Stays
    <2>3. QED
      BY <2>1, <2>2
  <1>3. ASSUME NEW c \in Client, StartTurn(c) PROVE Booked
    BY <1>3 DEF StartTurn, MayCall, NoRecovery, Booked, Begins
  <1>4. ASSUME NEW t \in Turns, HostGrants(t) PROVE Booked
    BY <1>4 DEF HostGrants, Booked, Stays
  <1>5. ASSUME NEW t \in Turns, HostRefuses(t) PROVE Booked
    BY <1>5 DEF HostRefuses, Booked, Stays
  <1>6. ASSUME NEW t \in Turns, LeaseArrives(t) PROVE Booked
    BY <1>6 DEF LeaseArrives, Booked, Stays
  <1>7. ASSUME NEW t \in Turns, RequestStart(t) PROVE Booked
    BY <1>7 DEF RequestStart, Booked, Stays
  <1>8. ASSUME NEW t \in Turns, StartWritten(t) PROVE Booked
    BY <1>8 DEF StartWritten, Booked, Stays
  <1>9. ASSUME NEW t \in Turns, StartRefused(t) PROVE Booked
    BY <1>9 DEF StartRefused, Booked, Stays
  <1>10. ASSUME NEW t \in Turns, NEW pc \in {"answered", "answeredEnded"}, StartReplies(t, pc)
        PROVE  Booked
    BY <1>10 DEF StartReplies, Booked, Stays
  <1>11. ASSUME NEW t \in Turns, StartAnswered(t) PROVE Booked
    <2>1. CASE active # t
      BY <1>11, <2>1 DEF StartAnswered, Booked, Stays
    <2>2. CASE active = t /\ ~Establishes(t, t)
      <3>1. Ends("failed", FALSE)
        BY <1>11, <2>2 DEF StartAnswered, Ends
      <3>2. QED
        BY <3>1, <1>s DEF Booked
    <2>3. CASE active = t /\ Establishes(t, t) /\ start[t] = "answeredEnded"
      <3>1. /\ turnId' = [turnId EXCEPT ![t] = t]
            /\ FinishActive(t, "completed", TRUE, TRUE, Announced(t))
            /\ UNCHANGED <<lastTurn, disposed, recPc, recTurn>>
        BY <1>11, <2>3 DEF StartAnswered
      <3>2. CASE turnId[t] = 0
        BY <2>3, <3>1, <3>2 DEF Announced, AnnouncedAlways, AnnouncesAndEnds, Booked
      <3>3. CASE turnId[t] # 0
        <4>1. turnId[t] = t
          BY <2>3, <3>3 DEF Establishes
        <4>2. turnId' = turnId
          BY <1>0, <3>1, <4>1
        <4>3. Ends("completed", TRUE)
          BY <2>3, <3>1, <3>3, <4>2 DEF Ends, Announced
        <4>4. QED
          BY <4>3 DEF Booked
      <3>4. QED
        BY <3>2, <3>3
    <2>4. CASE active = t /\ Establishes(t, t) /\ start[t] # "answeredEnded"
      <3>1. /\ turnId' = [turnId EXCEPT ![t] = t] /\ log' = Announced(t)
            /\ queueIdentity' = IF turnId[t] = 0 THEN t ELSE queueIdentity
            /\ UNCHANGED <<active, lastTurn, terminalResult, disposed, recPc, recTurn>>
        BY <1>11, <2>4 DEF StartAnswered
      <3>2. CASE turnId[t] = 0
        <4>1. Announces
          BY <2>4, <3>1, <3>2 DEF Announced, AnnouncedAlways, Announces
        <4>2. QED
          BY <4>1 DEF Booked
      <3>3. CASE turnId[t] # 0
        <4>1. turnId[t] = t
          BY <2>4, <3>3 DEF Establishes
        <4>2. turnId' = turnId
          BY <1>0, <3>1, <4>1
        <4>3. QED
          BY <3>1, <3>3, <4>2 DEF Announced, Booked, Stays
      <3>4. QED
        BY <3>2, <3>3
    <2>5. QED
      BY <2>1, <2>2, <2>3, <2>4
  <1>12. ASSUME NEW t \in Turns, StartEnds(t) PROVE Booked
    <2>1. CASE active = t
      <3>1. Ends("failed", FALSE)
        BY <1>12, <1>0, <2>1 DEF StartEnds, Ends
      <3>2. QED
        BY <3>1, <1>s DEF Booked
    <2>2. CASE ~(active = t)
      BY <1>12, <2>2 DEF StartEnds, Booked, Stays
    <2>3. QED
      BY <2>1, <2>2
  <1>13. ASSUME NEW t \in Turns, TurnStarted(t) PROVE Booked
    <2>1. CASE Reaches(t, active) /\ turnId[active] = 0
      <3>1. Announces
        BY <1>13, <1>0, <2>1 DEF TurnStarted, Reaches, Announced, AnnouncedAlways, Announces
      <3>2. QED
        BY <3>1 DEF Booked
    <2>2. CASE ~(Reaches(t, active) /\ turnId[active] = 0)
      BY <1>13, <2>2 DEF TurnStarted, Booked, Stays
    <2>3. QED
      BY <2>1, <2>2
  <1>14. ASSUME NEW t \in Turns, NEW s \in {"completed", "interrupted"}, TurnCompleted(t, s)
        PROVE  Booked
    <2>1. CASE Reaches(t, active) /\ turnId[active] = t
      <3>1. Ends(s, TRUE)
        BY <1>14, <1>0, <2>1 DEF TurnCompleted, Reaches, Ends
      <3>2. QED
        BY <3>1, <1>s DEF Booked
    <2>2. CASE ~(Reaches(t, active) /\ turnId[active] = t)
      BY <1>14, <2>2 DEF TurnCompleted, Booked, Stays
    <2>3. QED
      BY <2>1, <2>2
  <1>15. ASSUME NEW t \in Turns, Steer(t) PROVE Booked
    BY <1>15 DEF Steer, Booked, Stays
  <1>16. ASSUME NEW t \in Turns, SteerEnds(t) PROVE Booked
    BY <1>16 DEF SteerEnds, Booked, Stays
  <1>17. ASSUME NEW t \in Turns, Interrupt(t) PROVE Booked
    BY <1>17 DEF Interrupt, MayControl, Booked, Stays
  <1>18. ASSUME NEW t \in Turns, NEW pc \in {"acked", "rejected"}, InterruptReplies(t, pc)
        PROVE  Booked
    BY <1>18 DEF InterruptReplies, Booked, Stays
  <1>19. ASSUME NEW t \in Turns, InterruptTimesOut(t) PROVE Booked
    <2>0. active = t /\ turnId[t] # 0 /\ NoRecovery
      BY <1>19 DEF InterruptTimesOut, TypeOK, ServeInv, RecoveryIsAlone, RecoverInv, ControlInv, NoRecovery, Turns
    <2>1. GivesUpActive
      BY <1>19, <2>0 DEF InterruptTimesOut, GivesUp, BeginRecovery, GivesUpActive
    <2>2. QED
      BY <2>1 DEF Booked
  <1>20. ASSUME NEW t \in Turns, InterruptFails(t) PROVE Booked
    <2>0. active = t /\ turnId[t] # 0 /\ NoRecovery
      BY <1>20 DEF InterruptFails, TypeOK, ServeInv, RecoveryIsAlone, RecoverInv, ControlInv, NoRecovery, Turns
    <2>1. GivesUpActive
      BY <1>20, <2>0 DEF InterruptFails, GivesUp, BeginRecovery, GivesUpActive
    <2>2. QED
      BY <2>1 DEF Booked
  <1>21. ASSUME NEW t \in Turns, InterruptEnds(t) PROVE Booked
    BY <1>21 DEF InterruptEnds, Booked, Stays
  <1>22. ASSUME NEW t \in Turns, InterruptRecovered(t) PROVE Booked
    BY <1>22 DEF InterruptRecovered, Booked, Stays
  <1>23. ASSUME NEW t \in Turns, RecoveryGranted(t) PROVE Booked
    BY <1>23 DEF RecoveryGranted, RecoveryGrantedTo, AwaitsLease, Booked, Stays
  <1>24. ASSUME NEW t \in Turns, RecoveryRefused(t) PROVE Booked
    BY <1>24 DEF RecoveryRefused, AwaitsLease, Booked, Stays
  <1>25. ASSUME NEW ok \in BOOLEAN, RestartSettles(ok) PROVE Booked
    BY <1>25 DEF RestartSettles, Booked, Stays
  <1>26. CASE RecoveryRestarts
    BY <1>26 DEF RecoveryRestarts, Booked, Stays
  <1>27. CASE RecoveryAcquires
    BY <1>27 DEF RecoveryAcquires, Booked, Stays
  <1>28. CASE RecoveryResumes
    BY <1>28 DEF RecoveryResumes, RecoveryEnds, Booked, Stays
  <1>29. CASE RecoveryStops
    BY <1>29 DEF RecoveryStops, Bounded, Booked, Stays
  <1>30. CASE RecoveryFails
    <2>1. Reports
      BY <1>30 DEF RecoveryFails, RecoveryEnds, Reports
    <2>2. QED
      BY <2>1 DEF Booked
  <1>31. CASE HostStops
    BY <1>31, <1>h DEF HostStops
  <1>32. CASE HostRestarts
    BY <1>32, <1>h DEF HostRestarts
  <1>33. CASE HostStarts
    BY <1>33, <1>h DEF HostStarts
  <1>34. CASE HostReady
    BY <1>34, <1>h DEF HostReady
  <1>35. CASE Dispose
    BY <1>35 DEF Dispose, Booked, Disposes
  <1>36. CASE UNCHANGED vars
    BY <1>36 DEF vars, Booked, Stays
  <1> HIDE DEF hostVars, turnVars, flowVars, controlVars, recVars, baseVars
  <1>37. QED
    BY <1>1, <1>2, <1>3, <1>4, <1>5, <1>6, <1>7, <1>8, <1>9, <1>10, <1>11, <1>12,
       <1>13, <1>14, <1>15, <1>16, <1>17, <1>18, <1>19, <1>20, <1>21, <1>22, <1>23,
       <1>24, <1>25, <1>26, <1>27, <1>28, <1>29, <1>30, <1>31, <1>32, <1>33, <1>34,
       <1>35, <1>36
    DEF Next, StartStep, NotificationStep, ControlStep, RecoveryStep, HostStep

\* What is told once an event is appended.
LEMMA ToldAppend ==
    ASSUME NEW l \in Seq(Events), NEW t \in Turns, NEW kind \in Kinds
    PROVE  /\ Append(l, Event(t, kind)) \in Seq(Events)
           /\ Told(Append(l, Event(t, kind)), t) = Told(l, t) \cup {kind}
           /\ \A u \in Turns \ {t} : Told(Append(l, Event(t, kind)), u) = Told(l, u)
           /\ \A m \in Nat : AtMost(l, m) /\ t <= m => AtMost(Append(l, Event(t, kind)), m)
  <1> DEFINE e == Event(t, kind)
             m == Append(l, e)
  <1>1. e \in Events /\ e.turn = t /\ e.kind = kind
    BY DEF Event, Events
  <1>2. /\ m \in Seq(Events) /\ DOMAIN m = DOMAIN l \cup {Len(l) + 1}
        /\ \A k \in DOMAIN l : m[k] = l[k]
        /\ m[Len(l) + 1] = e
    BY <1>1
  <1> HIDE DEF m, e
  <1>3. Told(m, t) = Told(l, t) \cup {kind}
    BY <1>1, <1>2 DEF Told
  <1>4. ASSUME NEW u \in Turns, u # t PROVE Told(m, u) = Told(l, u)
    BY <1>1, <1>2, <1>4 DEF Told
  <1>5. ASSUME NEW n \in Nat, AtMost(l, n), t <= n PROVE AtMost(m, n)
    BY <1>1, <1>2, <1>5 DEF AtMost
  <1>6. QED
    BY <1>2, <1>3, <1>4, <1>5 DEF m, e

\* What was told before the last event is what the log said of its turn.
LEMMA OrderedAppend ==
    ASSUME NEW l \in Seq(Events), NEW t \in Turns, NEW kind \in Kinds, OrderedLog(l),
           AtMost(l, t),
           kind = "started" <=> Told(l, t) = {},
           kind \in Statuses => Told(l, t) = {"started"},
           kind = "recovery-failed" => Told(l, t) = {"started", "interrupt-uncertain"}
    PROVE  OrderedLog(Append(l, Event(t, kind)))
  <1> DEFINE e == Event(t, kind)
             m == Append(l, e)
             Before(i) == {m[k].kind : k \in {k \in 1..(i - 1) : m[k].turn = m[i].turn}}
             Was(i) == {l[k].kind : k \in {k \in 1..(i - 1) : l[k].turn = l[i].turn}}
  <1>1. e \in Events /\ e.turn = t /\ e.kind = kind
    BY DEF Event, Events
  <1>2. /\ DOMAIN l = 1..Len(l) /\ Len(l) \in Nat /\ DOMAIN m = 1..(Len(l) + 1)
        /\ \A k \in 1..Len(l) : m[k] = l[k]
        /\ m[Len(l) + 1] = e
    BY <1>1
  <1> HIDE DEF m, e
  <1> DEFINE Fits(i, before) ==
                /\ \A k \in 1..(i - 1) : m[k].turn <= m[i].turn
                /\ m[i].kind = "started" <=> before = {}
                /\ m[i].kind \in Statuses => before = {"started"}
                /\ m[i].kind = "recovery-failed" => before = {"started", "interrupt-uncertain"}
  <1>3. ASSUME NEW i \in 1..Len(l) PROVE Fits(i, Before(i))
    <2>1. 1..(i - 1) \subseteq 1..Len(l)
      BY <1>2
    <2>2. Before(i) = Was(i)
      BY <1>2, <2>1
    <2>3. /\ \A k \in 1..(i - 1) : l[k].turn <= l[i].turn
          /\ l[i].kind = "started" <=> Was(i) = {}
          /\ l[i].kind \in Statuses => Was(i) = {"started"}
          /\ l[i].kind = "recovery-failed" => Was(i) = {"started", "interrupt-uncertain"}
      BY <1>2 DEF OrderedLog
    <2> HIDE DEF Before, Was
    <2>4. QED
      BY <1>2, <2>1, <2>2, <2>3
  <1>4. Fits(Len(l) + 1, Before(Len(l) + 1))
    <2>1. 1..(Len(l) + 1 - 1) = DOMAIN l
      BY <1>2
    <2>2. Before(Len(l) + 1) = Told(l, t)
      BY <1>1, <1>2, <2>1 DEF Told
    <2>3. \A k \in DOMAIN l : m[k].turn <= t
      BY <1>2 DEF AtMost
    <2> HIDE DEF Before
    <2>4. QED
      BY <1>1, <1>2, <2>1, <2>2, <2>3
  <1>5. \A i \in DOMAIN m : Fits(i, Before(i))
    <2> HIDE DEF Fits, Before
    <2>1. DOMAIN m = 1..Len(l) \cup {Len(l) + 1}
      BY <1>2
    <2>2. QED
      BY <1>3, <1>4, <2>1
  <1>6. OrderedLog(m)
    BY <1>5 DEF OrderedLog
  <1>7. QED
    BY <1>6 DEF m, e

\* The end of the active turn, as #finishActive tells it.
LEMMA FinishTells ==
    ASSUME NEW l \in Seq(Events), NEW t \in Turns, NEW status \in Statuses,
           terminalResult \in [Turns -> Statuses \cup {"none"}],
           turnId' \in [Turns -> Turns \cup {0}],
           FinishActive(t, status, TRUE, TRUE, l) \/ FinishActive(t, status, TRUE, FALSE, l)
    PROVE  /\ active' = 0
           /\ turnId'[t] = 0 => log' = l /\ UNCHANGED <<terminalResult, queueIdentity>>
           /\ turnId'[t] # 0 =>
                /\ log' = Append(l, Event(t, status)) /\ queueIdentity' = t
                /\ \/ terminalResult' = [terminalResult EXCEPT ![t] = status]
                   \/ terminalResult' = terminalResult /\ FinishActive(t, status, TRUE, FALSE, l)
  <1>1. CASE FinishActive(t, status, TRUE, TRUE, l)
    BY <1>1 DEF FinishActive
  <1>2. CASE FinishActive(t, status, TRUE, FALSE, l)
    <2>1. terminalResult' = terminalResult
      BY <1>2 DEF FinishActive
    <2>2. QED
      BY <1>2, <2>1 DEF FinishActive
  <1>3. QED
    BY <1>1, <1>2

\* Told of the active turn, which was announced: its end keeps the order.
LEMMA EndInOrder ==
    ASSUME TypeOK, LogInv, active \in Turns, turnId[active] # 0, NEW status \in Statuses
    PROVE  /\ OrderedLog(Append(log, Event(active, status)))
           /\ AtMost(Append(log, Event(active, status)), lastTurn)
           /\ Told(Append(log, Event(active, status)), active) = {"started", status}
  <1>1. /\ log \in Seq(Events) /\ status \in Kinds /\ lastTurn = active /\ lastTurn \in Nat
        /\ status \notin {"started", "recovery-failed"}
    BY DEF TypeOK, LogInv, NewestInv, Turns, Kinds, Statuses
  <1>2. AtMost(log, active) /\ Told(log, active) = {"started"} /\ OrderedLog(log)
    BY <1>1 DEF LogInv, NewestInv, OpenInv, Turns
  <1>3. QED
    BY <1>1, <1>2, ToldAppend, OrderedAppend

\* Announcing the active turn keeps the order.
LEMMA AnnouncedInOrder ==
    ASSUME TypeOK, LogInv, active \in Turns, turnId[active] = 0
    PROVE  /\ AnnouncedAlways(active) \in Seq(Events)
           /\ OrderedLog(AnnouncedAlways(active)) /\ AtMost(AnnouncedAlways(active), lastTurn)
           /\ Told(AnnouncedAlways(active), active) = {"started"}
           /\ \A u \in Turns \ {active} : Told(AnnouncedAlways(active), u) = Told(log, u)
  <1>1. /\ log \in Seq(Events) /\ "started" \in Kinds \ Statuses /\ lastTurn = active
        /\ lastTurn \in Nat
    BY DEF TypeOK, LogInv, NewestInv, Turns, Kinds, Statuses
  <1>2. AtMost(log, active) /\ Told(log, active) = {} /\ OrderedLog(log)
    BY <1>1 DEF LogInv, NewestInv, OpenInv, Turns
  <1>3. QED
    BY <1>1, <1>2, ToldAppend, OrderedAppend DEF AnnouncedAlways

\* Nothing is active while a recovery runs, before and after the steps that end a turn.
LEMMA BarrierIsIdle == TypeOK /\ ServeInv /\ recPc # "none" => active = 0
  BY DEF ServeInv, RecoveryIsAlone

\* Every step keeps the order of the boundaries.
LEMMA StepKeepsOrder ==
    TypeOK /\ TypeOK' /\ ServeInv /\ LogInv /\ Booked => LogInv'
  <1> SUFFICES ASSUME TypeOK, TypeOK', ServeInv, LogInv, Booked PROVE LogInv'
    OBVIOUS
  <1>0. /\ active \in Turns \cup {0} /\ lastTurn \in Nat /\ log \in Seq(Events)
        /\ turnId \in [Turns -> Turns \cup {0}] /\ turnId' \in [Turns -> Turns \cup {0}]
        /\ terminalResult \in [Turns -> Statuses \cup {"none"}]
        /\ queueIdentity \in Turns \cup {0} /\ 0 \notin Turns /\ Turns \subseteq Nat
    BY DEF TypeOK, Turns
  <1>1. OrderedLog(log) /\ NewestInv /\ OpenInv /\ BarrierInv
    BY DEF LogInv
  <1>a. recPc # "none" => active = 0
    BY BarrierIsIdle
  <1>2. CASE Stays
    BY <1>1, <1>2 DEF Stays, LogInv, NewestInv, OpenInv, BarrierInv
  <1>3. CASE Begins
    <2>1. lastTurn' \in Turns /\ lastTurn' = lastTurn + 1 /\ log' = log /\ turnId' = turnId
      BY <1>0, <1>3 DEF Begins, TypeOK, Turns
    <2>2. Told(log, lastTurn') = {} /\ AtMost(log, lastTurn')
      <3>1. \A k \in DOMAIN log : log[k].turn \in Nat /\ log[k].turn <= lastTurn
        <4>1. \A k \in DOMAIN log : log[k] \in Events
          BY <1>0
        <4>2. QED
          BY <1>0, <1>1, <4>1 DEF NewestInv, AtMost, Events
      <3>2. \A k \in DOMAIN log : log[k].turn <= lastTurn' /\ log[k].turn # lastTurn'
        BY <1>0, <2>1, <3>1
      <3>3. QED
        BY <3>2 DEF AtMost, Told
    <2>3. turnId[lastTurn'] = 0
      BY <1>0, <1>1, <2>1 DEF NewestInv
    <2>4. NewestInv'
      BY <1>0, <1>1, <1>3, <2>1, <2>2 DEF NewestInv, Begins
    <2>5. OpenInv'
      BY <1>3, <2>1, <2>2, <2>3 DEF OpenInv, Begins
    <2>6. BarrierInv'
      BY <1>3 DEF BarrierInv, Begins
    <2>7. QED
      BY <1>1, <2>1, <2>4, <2>5, <2>6 DEF LogInv
  <1>4. CASE Announces
    <2>1. /\ active \in Turns /\ log' = AnnouncedAlways(active) /\ turnId'[active] # 0
          /\ UNCHANGED <<active, lastTurn, recPc>>
          /\ \A u \in Turns \ {active} : turnId'[u] = turnId[u]
      BY <1>0, <1>4 DEF Announces
    <2>2. OrderedLog(log') /\ AtMost(log', lastTurn') /\ Told(log', active') = {"started"}
      BY <1>4, <2>1, AnnouncedInOrder DEF Announces
    <2>3. recPc' = "none"
      BY <1>0, <1>a, <2>1
    <2>4. NewestInv'
      BY <1>0, <1>1, <2>1, <2>2 DEF NewestInv
    <2>5. OpenInv'
      BY <2>1, <2>2 DEF OpenInv
    <2>6. QED
      BY <2>2, <2>3, <2>4, <2>5 DEF LogInv, BarrierInv
  <1>5. ASSUME NEW s \in Statuses, Ends(s, TRUE) \/ Ends(s, FALSE) PROVE LogInv'
    <2>1. active \in Turns /\ active' = 0 /\ UNCHANGED <<turnId, lastTurn, recPc>>
      BY <1>5 DEF Ends, FinishActive
    <2>2. log' \in {log, Append(log, Event(active, s))}
          /\ (log' # log => turnId[active] # 0)
      <3>1. FinishActive(active, s, TRUE, TRUE, log) \/ FinishActive(active, s, TRUE, FALSE, log)
        BY <1>5 DEF Ends
      <3>2. CASE turnId'[active] = 0
        BY <1>0, <2>1, <3>1, <3>2, FinishTells
      <3>3. CASE turnId'[active] # 0
        BY <1>0, <2>1, <3>1, <3>3, FinishTells
      <3>4. QED
        BY <3>2, <3>3
    <2>3. OrderedLog(log') /\ AtMost(log', lastTurn)
      BY <1>1, <2>1, <2>2, EndInOrder DEF NewestInv
    <2>4. QED
      BY <1>0, <1>1, <1>a, <2>1, <2>3 DEF LogInv, NewestInv, OpenInv, BarrierInv
  <1>6. CASE AnnouncesAndEnds
    <2> DEFINE l == AnnouncedAlways(active)
    <2>1. /\ active \in Turns /\ turnId[active] = 0 /\ turnId'[active] = active
          /\ UNCHANGED <<lastTurn, recPc>> /\ "completed" \in Statuses
          /\ \A u \in Turns \ {active} : turnId'[u] = turnId[u]
      BY <1>0, <1>6 DEF AnnouncesAndEnds, Statuses
    <2>2. /\ l \in Seq(Events) /\ OrderedLog(l) /\ AtMost(l, lastTurn)
          /\ Told(l, active) = {"started"}
      BY <2>1, AnnouncedInOrder
    <2>3. active = lastTurn
      BY <1>0, <1>1, <2>1 DEF NewestInv
    <2>4. FinishActive(active, "completed", TRUE, TRUE, l)
      BY <1>6 DEF AnnouncesAndEnds
    <2> HIDE DEF l
    <2>5. active' = 0 /\ log' = Append(l, Event(active, "completed"))
      BY <1>0, <2>1, <2>4 DEF FinishActive
    <2>6. OrderedLog(log') /\ AtMost(log', lastTurn)
      <3>1. "completed" \in Kinds \ {"started", "recovery-failed"}
        BY DEF Kinds, Statuses
      <3>2. AtMost(l, active)
        BY <2>2, <2>3
      <3>3. OrderedLog(log')
        BY <2>1, <2>2, <2>5, <3>1, <3>2, OrderedAppend
      <3>4. AtMost(log', lastTurn)
        BY <1>0, <2>1, <2>2, <2>3, <2>5, <3>1, ToldAppend
      <3>5. QED
        BY <3>3, <3>4
    <2>7. QED
      BY <1>0, <1>1, <1>a, <2>1, <2>3, <2>5, <2>6 DEF LogInv, NewestInv, OpenInv, BarrierInv
  <1>7. CASE GivesUpActive
    <2>1. /\ active \in Turns /\ turnId[active] # 0 /\ active' = 0 /\ recTurn' = active
          /\ UNCHANGED <<turnId, lastTurn>> /\ "interrupt-uncertain" \in Statuses
      BY <1>7 DEF GivesUpActive, FinishActive, Statuses
    <2>2. log' = Append(log, Event(active, "interrupt-uncertain")) /\ queueIdentity' = active
      BY <1>0, <1>7, <2>1, FinishTells DEF GivesUpActive
    <2>3. /\ OrderedLog(log') /\ AtMost(log', lastTurn)
          /\ Told(log', active) = {"started", "interrupt-uncertain"}
      BY <2>1, <2>2, EndInOrder
    <2>4. active = lastTurn
      BY <1>0, <1>1, <2>1 DEF NewestInv
    <2>5. QED
      BY <1>0, <1>1, <2>1, <2>2, <2>3, <2>4 DEF LogInv, NewestInv, OpenInv, BarrierInv
  <1>8. CASE Reports
    <2>1. UNCHANGED <<active, lastTurn, turnId>> /\ recPc' = "none" /\ active = 0
      BY <1>8, <1>a DEF Reports
    <2>2. OrderedLog(log') /\ AtMost(log', lastTurn)
      <3>1. CASE Reserves
        <4>1. /\ queueIdentity = recTurn /\ recTurn \in Turns /\ AtMost(log, recTurn)
              /\ Told(log, recTurn) = {"started", "interrupt-uncertain"}
          BY <1>0, <1>1, <1>8, <3>1 DEF Reports, Reserves, BarrierInv
        <4>2. log' = Append(log, Event(recTurn, "recovery-failed"))
          BY <1>8, <3>1, <4>1 DEF Reports, Diagnosed
        <4>3. "recovery-failed" \in Kinds \ (Statuses \cup {"started"})
          BY DEF Kinds, Statuses
        <4>4. recTurn <= lastTurn
          <5>1. PICK k \in DOMAIN log : log[k].turn = recTurn
            BY <4>1 DEF Told
          <5>2. QED
            BY <1>1, <5>1 DEF NewestInv, AtMost
        <4>5. AtMost(log, lastTurn)
          BY <1>1 DEF NewestInv
        <4>6. QED
          BY <1>0, <1>1, <4>1, <4>2, <4>3, <4>4, <4>5, ToldAppend, OrderedAppend
      <3>2. CASE ~Reserves
        BY <1>1, <1>8, <3>2 DEF Reports, NewestInv
      <3>3. QED
        BY <3>1, <3>2
    <2>3. QED
      BY <1>1, <2>1, <2>2 DEF LogInv, NewestInv, OpenInv, BarrierInv
  <1>9. CASE Disposes
    BY <1>1, <1>9 DEF Disposes, LogInv, NewestInv, OpenInv, BarrierInv
  <1>10. QED
    <2>1. "completed" \in Statuses
      BY DEF Statuses
    <2>2. QED
      BY <1>2, <1>3, <1>4, <1>5, <1>6, <1>7, <1>8, <1>9, <2>1 DEF Booked

\* What one kind of step adds to what is told of a turn.
LEMMA TellsMore ==
    ASSUME TypeOK, TypeOK', ServeInv, LogInv, Booked, NEW t \in Turns
    PROVE  /\ Told(log, t) \subseteq Told(log', t)
           /\ active # t => Told(log', t) \subseteq Told(log, t) \cup {"recovery-failed"}
           /\ active # t => terminalResult'[t] = terminalResult[t]
  <1>0. /\ active \in Turns \cup {0} /\ log \in Seq(Events) /\ 0 \notin Turns
        /\ turnId' \in [Turns -> Turns \cup {0}] /\ queueIdentity \in Turns \cup {0}
        /\ terminalResult \in [Turns -> Statuses \cup {"none"}]
        /\ {"completed", "interrupt-uncertain"} \subseteq Statuses /\ Statuses \subseteq Kinds
        /\ "recovery-failed" \in Kinds
    BY DEF TypeOK, Turns, Statuses, Kinds
  <1> DEFINE More == /\ Told(log, t) \subseteq Told(log', t)
                     /\ active # t => Told(log', t) \subseteq Told(log, t) \cup {"recovery-failed"}
                     /\ active # t => terminalResult'[t] = terminalResult[t]
  <1>1. CASE Stays \/ Begins \/ Disposes
    BY <1>1 DEF Stays, Begins, Disposes
  <1>2. CASE Announces
    <2>1. active \in Turns /\ turnId[active] = 0 /\ log' = AnnouncedAlways(active)
          /\ terminalResult' = terminalResult
      BY <1>2 DEF Announces
    <2>2. Told(log, active) = {}
      BY <1>0, <2>1 DEF LogInv, OpenInv
    <2>3. QED
      BY <2>1, <2>2, AnnouncedInOrder
  <1>3. ASSUME NEW l \in Seq(Events), NEW s \in Statuses, active \in Turns,
               FinishActive(active, s, TRUE, TRUE, l) \/ FinishActive(active, s, TRUE, FALSE, l),
               Told(log, t) \subseteq Told(l, t), active # t => Told(l, t) = Told(log, t)
        PROVE  More
    <2>1. CASE turnId'[active] = 0
      BY <1>0, <1>3, <2>1, FinishTells
    <2>2. CASE turnId'[active] # 0
      <3>1. /\ log' = Append(l, Event(active, s))
            /\ terminalResult' = [terminalResult EXCEPT ![active] = s]
               \/ terminalResult' = terminalResult
        BY <1>0, <1>3, <2>2, FinishTells
      <3>2. s \in Kinds
        BY <1>0
      <3>3. Told(l, t) \subseteq Told(log', t) /\ (active # t => Told(log', t) = Told(l, t))
        BY <1>3, <3>1, <3>2, ToldAppend
      <3>4. QED
        BY <1>0, <1>3, <3>1, <3>3
    <2>3. QED
      BY <2>1, <2>2
  <1>4. CASE GivesUpActive
    BY <1>0, <1>3, <1>4 DEF GivesUpActive
  <1>5. ASSUME NEW s \in Statuses, Ends(s, TRUE) \/ Ends(s, FALSE) PROVE More
    <2>1. FinishActive(active, s, TRUE, TRUE, log) \/ FinishActive(active, s, TRUE, FALSE, log)
      BY <1>5 DEF Ends
    <2>2. active \in Turns
      BY <1>5 DEF Ends
    <2>3. QED
      BY <1>0, <1>3, <2>1, <2>2
  <1>6. CASE AnnouncesAndEnds
    <2> DEFINE l == AnnouncedAlways(active)
    <2>1. /\ active \in Turns /\ turnId[active] = 0
          /\ FinishActive(active, "completed", TRUE, TRUE, l)
      BY <1>6 DEF AnnouncesAndEnds
    <2>2. Told(log, active) = {}
      BY <1>0, <2>1 DEF LogInv, OpenInv
    <2>3. /\ l \in Seq(Events) /\ Told(log, t) \subseteq Told(l, t)
          /\ active # t => Told(l, t) = Told(log, t)
      BY <2>1, <2>2, AnnouncedInOrder
    <2> HIDE DEF l
    <2>4. QED
      BY <1>0, <1>3, <2>1, <2>3
  <1>7. CASE Reports
    <2>1. terminalResult' = terminalResult
      BY <1>7 DEF Reports
    <2>2. CASE Reserves
      <3>1. /\ queueIdentity \in Turns
            /\ log' = Append(log, Event(queueIdentity, "recovery-failed"))
        BY <1>0, <1>7, <2>2 DEF Reports, Reserves, Diagnosed
      <3>2. CASE queueIdentity = t
        BY <1>0, <2>1, <3>1, <3>2, ToldAppend
      <3>3. CASE queueIdentity # t
        BY <1>0, <2>1, <3>1, <3>3, ToldAppend
      <3>4. QED
        BY <3>2, <3>3
    <2>3. CASE ~Reserves
      BY <1>7, <2>1, <2>3 DEF Reports
    <2>4. QED
      BY <2>2, <2>3
  <1>8. QED
    BY <1>0, <1>1, <1>2, <1>4, <1>5, <1>6, <1>7 DEF Booked

\* Every step keeps the ends that are recorded and the ends that are told together.
LEMMA StepKeepsEnds ==
    TypeOK /\ TypeOK' /\ ServeInv /\ LogInv /\ EndInv /\ Booked => EndInv'
  <1> SUFFICES ASSUME TypeOK, TypeOK', ServeInv, LogInv, EndInv, Booked, NEW t \in Turns
               PROVE  /\ terminalResult'[t] # "none" => terminalResult'[t] \in Told(log', t)
                      /\ \A s \in {"completed", "interrupt-uncertain"} :
                              s \in Told(log', t) => terminalResult'[t] = s
    BY DEF EndInv
  <1> DEFINE Good == /\ terminalResult'[t] # "none" => terminalResult'[t] \in Told(log', t)
                     /\ \A s \in {"completed", "interrupt-uncertain"} :
                              s \in Told(log', t) => terminalResult'[t] = s
  <1>0. /\ active \in Turns \cup {0} /\ log \in Seq(Events) /\ 0 \notin Turns
        /\ turnId \in [Turns -> Turns \cup {0}] /\ turnId' \in [Turns -> Turns \cup {0}]
        /\ terminalResult \in [Turns -> Statuses \cup {"none"}]
        /\ {"completed", "interrupt-uncertain"} \subseteq Statuses
        /\ "started" \notin Statuses /\ "none" \notin Statuses
    BY DEF TypeOK, Turns, Statuses
  <1>1. /\ terminalResult[t] # "none" => terminalResult[t] \in Told(log, t)
        /\ \A s \in {"completed", "interrupt-uncertain"} :
                s \in Told(log, t) => terminalResult[t] = s
    BY DEF EndInv
  <1>2. Told(log, t) \subseteq Told(log', t)
    BY TellsMore
  <1>3. CASE active # t
    BY <1>1, <1>2, <1>3, TellsMore
  <1>4. CASE active = t /\ (Stays \/ Disposes)
    BY <1>1, <1>4 DEF Stays, Disposes
  <1> DEFINE told == IF turnId[t] = 0 THEN {} ELSE {"started"}
  <1>5. active = t => Told(log, t) = told /\ terminalResult[t] = "none"
    BY <1>0, <1>1 DEF LogInv, OpenInv
  <1>6. CASE active = t /\ Announces
    <2>1. turnId[t] = 0 /\ log' = AnnouncedAlways(t) /\ terminalResult' = terminalResult
      BY <1>6 DEF Announces
    <2>2. Told(log', t) = {"started"}
      BY <1>6, <2>1, AnnouncedInOrder
    <2>3. QED
      BY <1>5, <1>6, <2>1, <2>2
  <1>7. ASSUME NEW l \in Seq(Events), NEW s \in Statuses, active = t,
               \/ FinishActive(t, s, TRUE, TRUE, l)
               \/ /\ FinishActive(t, s, TRUE, FALSE, l)
                  /\ s \notin {"completed", "interrupt-uncertain"},
               Told(l, t) \subseteq {"started"}
        PROVE  Good
    <2>1. CASE turnId'[t] = 0
      <3>1. log' = l /\ terminalResult' = terminalResult
        BY <1>0, <1>7, <2>1, FinishTells
      <3>2. QED
        BY <1>5, <1>7, <3>1
    <2>2. CASE turnId'[t] # 0
      <3>1. Told(Append(l, Event(t, s)), t) = Told(l, t) \cup {s}
        BY <1>7, ToldAppend DEF Kinds
      <3>2. log' = Append(l, Event(t, s))
        BY <1>0, <1>7, <2>2, FinishTells
      <3>3. CASE FinishActive(t, s, TRUE, TRUE, l)
        <4>1. terminalResult'[t] = s
          BY <1>0, <2>2, <3>3 DEF FinishActive
        <4>2. QED
          BY <1>0, <1>7, <3>1, <3>2, <4>1
      <3>4. CASE FinishActive(t, s, TRUE, FALSE, l) /\ s \notin {"completed", "interrupt-uncertain"}
        <4>1. terminalResult'[t] = terminalResult[t]
          BY <1>0, <3>4 DEF FinishActive
        <4>2. QED
          BY <1>0, <1>5, <1>7, <3>1, <3>2, <3>4, <4>1
      <3>5. QED
        BY <1>7, <3>3, <3>4
    <2>3. QED
      BY <2>1, <2>2
  <1>8. active = t => Told(log, t) \subseteq {"started"}
    BY <1>5
  <1>9. CASE active = t /\ GivesUpActive
    <2>1. FinishActive(t, "interrupt-uncertain", TRUE, TRUE, log)
      BY <1>9 DEF GivesUpActive
    <2>2. QED
      BY <1>0, <1>7, <1>8, <1>9, <2>1
  <1>10. ASSUME active = t, NEW s \in Statuses,
                \/ Ends(s, TRUE)
                \/ Ends(s, FALSE) /\ s \notin {"completed", "interrupt-uncertain"}
         PROVE  Good
    <2>1. \/ FinishActive(t, s, TRUE, TRUE, log)
          \/ /\ FinishActive(t, s, TRUE, FALSE, log)
             /\ s \notin {"completed", "interrupt-uncertain"}
      BY <1>10 DEF Ends
    <2> HIDE DEF Good
    <2>2. QED
      BY <1>0, <1>7, <1>8, <1>10, <2>1
  <1>11. CASE active = t /\ AnnouncesAndEnds
    <2> DEFINE l == AnnouncedAlways(t)
    <2>1. turnId[t] = 0 /\ FinishActive(t, "completed", TRUE, TRUE, l)
      BY <1>11 DEF AnnouncesAndEnds
    <2>2. l \in Seq(Events) /\ Told(l, t) = {"started"}
      BY <1>11, <2>1, AnnouncedInOrder
    <2> HIDE DEF l
    <2>3. QED
      BY <1>0, <1>7, <1>11, <2>1, <2>2
  <1>12. ~(active = t /\ Begins)
    BY <1>0 DEF Begins
  <1>13. CASE active = t /\ Reports
    <2>1. active = 0
      BY <1>13, BarrierIsIdle DEF Reports
    <2>2. QED
      BY <1>0, <1>13, <2>1
  <1> HIDE DEF Good
  <1>14. Good
    BY <1>0, <1>3, <1>4, <1>6, <1>9, <1>10, <1>11, <1>12, <1>13 DEF Booked, Good
  <1>15. QED
    BY <1>14 DEF Good
\* Every step keeps the numbers of the turns and the end of a recovered one.
LEMMA StepKeepsFlow ==
    ASSUME TypeOK, TypeOK', ServeInv, RecoverInv, LogInv, LogInv', FlowInv, Booked, [Next]_vars
    PROVE  FlowInv'
  <1>0. /\ active \in {0, lastTurn} /\ active' \in {0, lastTurn'}
        /\ lastTurn \in Nat /\ lastTurn' \in Nat /\ Turns \subseteq Nat /\ 0 \notin Turns
    BY DEF TypeOK, LogInv, NewestInv, Turns
  <1>a. lastTurn' >= lastTurn /\ \A t \in Turns : active # t /\ t <= lastTurn => active' # t
    BY <1>0 DEF Booked, Stays, Begins, Announces, Ends, AnnouncesAndEnds, GivesUpActive, Reports,
       Disposes, FinishActive
  <1>b. \A t \in Turns : active # t => terminalResult'[t] = terminalResult[t]
    BY TellsMore
  <1>c. \A t \in Turns : interrupt[t] # "none" => t <= lastTurn
    BY <1>0 DEF RecoverInv, FreshInv
  <1>d. ASSUME \A t \in Turns : start'[t] # "new" => start[t] # "new" \/ t <= lastTurn',
               \A t \in Turns : interrupt'[t] = "recovering" =>
                    \/ interrupt[t] = "recovering"
                    \/ active' # t /\ terminalResult'[t] = "interrupt-uncertain"
        PROVE  FlowInv'
    <2> SUFFICES ASSUME NEW t \in Turns
                 PROVE  /\ start'[t] # "new" => t <= lastTurn'
                        /\ interrupt'[t] = "recovering" =>
                                active' # t /\ terminalResult'[t] = "interrupt-uncertain"
      BY DEF FlowInv
    <2>1. start[t] # "new" => t <= lastTurn'
      BY <1>0, <1>a DEF FlowInv
    <2>2. interrupt[t] = "recovering" =>
                active' # t /\ terminalResult'[t] = "interrupt-uncertain"
      BY <1>a, <1>b, <1>c DEF FlowInv
    <2>3. QED
      BY <1>d, <2>1, <2>2
  <1> USE DEF hostVars, turnVars, flowVars, controlVars, recVars, baseVars
  <1>1. ASSUME NEW c \in Client, Connect(c) PROVE FlowInv'
    BY <1>1, <1>d DEF Connect
  <1>2. ASSUME NEW c \in Client, Disconnect(c) PROVE FlowInv'
    BY <1>2, <1>d DEF Disconnect
  <1>3. ASSUME NEW c \in Client, StartTurn(c) PROVE FlowInv'
    <2>1. /\ lastTurn' = lastTurn + 1 /\ start' = [start EXCEPT ![lastTurn + 1] = "acquire"]
          /\ interrupt' = interrupt
      BY <1>3 DEF StartTurn
    <2>2. \A t \in Turns : start'[t] # "new" => start[t] # "new" \/ t = lastTurn + 1
      BY <2>1 DEF TypeOK
    <2>3. QED
      BY <1>0, <1>d, <2>1, <2>2
  <1>4. ASSUME NEW t \in Turns, HostGrants(t) PROVE FlowInv'
    BY <1>4, <1>d DEF HostGrants
  <1>5. ASSUME NEW t \in Turns, HostRefuses(t) PROVE FlowInv'
    <2>1. \A u \in Turns : start'[u] # "new" => start[u] # "new"
      BY <1>5 DEF HostRefuses, TypeOK
    <2>2. interrupt' = interrupt
      BY <1>5 DEF HostRefuses
    <2>3. QED
      BY <1>d, <2>1, <2>2
  <1>6. ASSUME NEW t \in Turns, LeaseArrives(t) PROVE FlowInv'
    <2>1. \A u \in Turns : start'[u] # "new" => start[u] # "new" \/ u = active
      BY <1>6 DEF LeaseArrives, TakesLease, TypeOK
    <2>2. interrupt' = interrupt /\ lastTurn' = lastTurn
      BY <1>6 DEF LeaseArrives
    <2>3. \A u \in Turns : u = active => u <= lastTurn
      BY <1>0
    <2>4. QED
      BY <1>d, <2>1, <2>2, <2>3
  <1>7. ASSUME NEW t \in Turns, RequestStart(t) PROVE FlowInv'
    <2>1. start[t] # "new" /\ interrupt' = interrupt /\ \A u \in Turns : u # t => start'[u] = start[u]
      BY <1>7 DEF RequestStart, StartIsOver, TypeOK
    <2>2. t <= lastTurn
      BY <2>1 DEF FlowInv
    <2>3. QED
      BY <1>0, <1>a, <1>d, <2>1, <2>2
  <1>8. ASSUME NEW t \in Turns, StartWritten(t) PROVE FlowInv'
    BY <1>8, <1>d DEF StartWritten
  <1>9. ASSUME NEW t \in Turns, StartRefused(t) PROVE FlowInv'
    <2>1. start[t] # "new" /\ interrupt' = interrupt /\ \A u \in Turns : u # t => start'[u] = start[u]
      BY <1>9 DEF StartRefused, StartIsOver, TypeOK
    <2>2. t <= lastTurn
      BY <2>1 DEF FlowInv
    <2>3. QED
      BY <1>0, <1>a, <1>d, <2>1, <2>2
  <1>10. ASSUME NEW t \in Turns, NEW pc \in {"answered", "answeredEnded"}, StartReplies(t, pc)
        PROVE  FlowInv'
    <2>1. start[t] # "new" /\ interrupt' = interrupt /\ \A u \in Turns : u # t => start'[u] = start[u]
      BY <1>10 DEF StartReplies, StartIsOver, TypeOK
    <2>2. t <= lastTurn
      BY <2>1 DEF FlowInv
    <2>3. QED
      BY <1>0, <1>a, <1>d, <2>1, <2>2
  <1>11. ASSUME NEW t \in Turns, StartAnswered(t) PROVE FlowInv'
    <2>1. start[t] # "new" /\ interrupt' = interrupt /\ \A u \in Turns : u # t => start'[u] = start[u]
      BY <1>11 DEF StartAnswered, StartIsOver, TypeOK
    <2>2. t <= lastTurn
      BY <2>1 DEF FlowInv
    <2>3. QED
      BY <1>0, <1>a, <1>d, <2>1, <2>2
  <1>12. ASSUME NEW t \in Turns, StartEnds(t) PROVE FlowInv'
    <2>1. start[t] # "new" /\ interrupt' = interrupt /\ \A u \in Turns : u # t => start'[u] = start[u]
      BY <1>12 DEF StartEnds, StartIsOver, TypeOK
    <2>2. t <= lastTurn
      BY <2>1 DEF FlowInv
    <2>3. QED
      BY <1>0, <1>a, <1>d, <2>1, <2>2
  <1>13. ASSUME NEW t \in Turns, TurnStarted(t) PROVE FlowInv'
    BY <1>13, <1>d DEF TurnStarted
  <1>14. ASSUME NEW t \in Turns, NEW s \in {"completed", "interrupted"}, TurnCompleted(t, s)
        PROVE  FlowInv'
    BY <1>14, <1>d DEF TurnCompleted
  <1>15. ASSUME NEW t \in Turns, Steer(t) PROVE FlowInv'
    BY <1>15, <1>d DEF Steer
  <1>16. ASSUME NEW t \in Turns, SteerEnds(t) PROVE FlowInv'
    BY <1>16, <1>d DEF SteerEnds
  <1>17. ASSUME NEW t \in Turns, Interrupt(t) PROVE FlowInv'
    <2>1. start' = start /\ \A u \in Turns : interrupt'[u] = "recovering" => interrupt[u] = "recovering"
      BY <1>17 DEF Interrupt, TypeOK
    <2>2. QED
      BY <1>d, <2>1
  <1>18. ASSUME NEW t \in Turns, NEW pc \in {"acked", "rejected"}, InterruptReplies(t, pc)
        PROVE  FlowInv'
    <2>1. start' = start /\ \A u \in Turns : interrupt'[u] = "recovering" => interrupt[u] = "recovering"
      BY <1>18 DEF InterruptReplies, TypeOK
    <2>2. QED
      BY <1>d, <2>1
  <1>19. ASSUME NEW t \in Turns, InterruptTimesOut(t) PROVE FlowInv'
    <2>1. /\ active = t /\ active' = 0 /\ interrupt' = [interrupt EXCEPT ![t] = "recovering"]
          /\ start' = start /\ turnId' = turnId
          /\ FinishActive(t, "interrupt-uncertain", TRUE, TRUE, log)
      BY <1>19 DEF InterruptTimesOut, GivesUp, FinishActive
    <2>2. turnId[t] # 0
      BY <1>19, <2>1 DEF InterruptTimesOut, RecoverInv, ControlInv
    <2>3. terminalResult'[t] = "interrupt-uncertain"
      BY <2>1, <2>2 DEF FinishActive, TypeOK
    <2>4. \A u \in Turns : u # t => interrupt'[u] = interrupt[u]
      BY <2>1
    <2>5. QED
      BY <1>0, <1>d, <2>1, <2>3, <2>4
  <1>20. ASSUME NEW t \in Turns, InterruptFails(t) PROVE FlowInv'
    <2>1. /\ active = t /\ active' = 0 /\ interrupt' = [interrupt EXCEPT ![t] = "recovering"]
          /\ start' = start /\ turnId' = turnId
          /\ FinishActive(t, "interrupt-uncertain", TRUE, TRUE, log)
      BY <1>20 DEF InterruptFails, GivesUp, FinishActive
    <2>2. turnId[t] # 0
      BY <1>20, <2>1 DEF InterruptFails, RecoverInv, ControlInv
    <2>3. terminalResult'[t] = "interrupt-uncertain"
      BY <2>1, <2>2 DEF FinishActive, TypeOK
    <2>4. \A u \in Turns : u # t => interrupt'[u] = interrupt[u]
      BY <2>1
    <2>5. QED
      BY <1>0, <1>d, <2>1, <2>3, <2>4
  <1>21. ASSUME NEW t \in Turns, InterruptEnds(t) PROVE FlowInv'
    <2>1. start' = start /\ \A u \in Turns : interrupt'[u] = "recovering" => interrupt[u] = "recovering"
      BY <1>21 DEF InterruptEnds, TypeOK
    <2>2. QED
      BY <1>d, <2>1
  <1>22. ASSUME NEW t \in Turns, InterruptRecovered(t) PROVE FlowInv'
    <2>1. start' = start /\ \A u \in Turns : interrupt'[u] = "recovering" => interrupt[u] = "recovering"
      BY <1>22 DEF InterruptRecovered, TypeOK
    <2>2. QED
      BY <1>d, <2>1
  <1>23. ASSUME NEW t \in Turns, RecoveryGranted(t) PROVE FlowInv'
    BY <1>23, <1>d DEF RecoveryGranted
  <1>24. ASSUME NEW t \in Turns, RecoveryRefused(t) PROVE FlowInv'
    BY <1>24, <1>d DEF RecoveryRefused
  <1>25. ASSUME NEW ok \in BOOLEAN, RestartSettles(ok) PROVE FlowInv'
    BY <1>25, <1>d DEF RestartSettles
  <1>26. CASE RecoveryRestarts
    BY <1>26, <1>d DEF RecoveryRestarts
  <1>27. CASE RecoveryAcquires
    BY <1>27, <1>d DEF RecoveryAcquires
  <1>28. CASE RecoveryResumes
    BY <1>28, <1>d DEF RecoveryResumes
  <1>29. CASE RecoveryStops
    BY <1>29, <1>d DEF RecoveryStops
  <1>30. CASE RecoveryFails
    BY <1>30, <1>d DEF RecoveryFails
  <1>31. CASE HostStops
    BY <1>31, <1>d DEF HostStops, HostChanges
  <1>32. CASE HostRestarts
    BY <1>32, <1>d DEF HostRestarts, HostChanges
  <1>33. CASE HostStarts
    BY <1>33, <1>d DEF HostStarts, HostChanges
  <1>34. CASE HostReady
    BY <1>34, <1>d DEF HostReady, HostChanges
  <1>35. CASE Dispose
    BY <1>35, <1>d DEF Dispose
  <1>36. CASE UNCHANGED vars
    BY <1>36, <1>d DEF vars
  <1> HIDE DEF hostVars, turnVars, flowVars, controlVars, recVars, baseVars
  <1>37. QED
    BY <1>1, <1>2, <1>3, <1>4, <1>5, <1>6, <1>7, <1>8, <1>9, <1>10, <1>11, <1>12,
       <1>13, <1>14, <1>15, <1>16, <1>17, <1>18, <1>19, <1>20, <1>21, <1>22, <1>23,
       <1>24, <1>25, <1>26, <1>27, <1>28, <1>29, <1>30, <1>31, <1>32, <1>33, <1>34,
       <1>35, <1>36
    DEF Next, StartStep, NotificationStep, ControlStep, RecoveryStep, HostStep

\* What a promise gave, read in the next state.
AgreesNext(t, r) ==
    /\ r \in Statuses => r \in Told(log', t)
    /\ r = "in-progress" => "started" \in Told(log', t)
    /\ r = "thrown" =>
        /\ active' # t /\ t <= lastTurn' /\ "completed" \notin Told(log', t)
        /\ disposed' \/ "interrupt-uncertain" \notin Told(log', t)

\* What a promise gave stays true: nothing but the failure of a recovery is told of a
\* turn that is over.
LEMMA PromiseStays ==
    ASSUME TypeOK, TypeOK', ServeInv, LogInv, LogInv', Booked, NEW t \in Turns, NEW r,
           Agrees(t, r)
    PROVE  AgreesNext(t, r)
  <1>1. Told(log, t) \subseteq Told(log', t)
    BY TellsMore
  <1>2. active # t => Told(log', t) \subseteq Told(log, t) \cup {"recovery-failed"}
    BY TellsMore
  <1>3. lastTurn \in Nat /\ Turns \subseteq Nat /\ 0 \notin Turns /\ disposed \in BOOLEAN
    BY DEF TypeOK, Turns
  <1>4. /\ lastTurn' \in {lastTurn, lastTurn + 1}
        /\ active' \in {0, active} \/ active' = lastTurn + 1
        /\ disposed => disposed'
    BY DEF Booked, Stays, Begins, Announces, Ends, AnnouncesAndEnds, GivesUpActive, Reports,
       Disposes, FinishActive
  <1>5. active # t /\ t <= lastTurn => active' # t /\ t <= lastTurn'
    BY <1>3, <1>4
  <1>6. QED
    BY <1>1, <1>2, <1>4, <1>5 DEF Agrees, AgreesNext

\* What a call on a turn that is over gives agrees with what was told of it.
LEMMA ResultAgrees ==
    ASSUME TypeOK, EndInv, NEW t \in Turns, active # t, t <= lastTurn
    PROVE  Agrees(t, ResultOf(t))
  <1>1. terminalResult[t] \in Statuses \cup {"none"} /\ "thrown" \notin Statuses
        /\ "in-progress" \notin Statuses
    BY DEF TypeOK, Statuses
  <1>2. /\ terminalResult[t] # "none" => terminalResult[t] \in Told(log, t)
        /\ \A s \in {"completed", "interrupt-uncertain"} :
                s \in Told(log, t) => terminalResult[t] = s
    BY DEF EndInv
  <1>3. QED
    BY <1>1, <1>2 DEF Agrees, ResultOf

\* Every step keeps what the promises gave in agreement with what was told.
LEMMA StepKeepsPromises ==
    ASSUME TypeOK, TypeOK', ServeInv, RecoverInv, LogInv, LogInv', EndInv, EndInv', FlowInv,
           PromiseInv, Booked, [Next]_vars
    PROVE  PromiseInv'
  <1>a. \A t \in Turns : /\ AgreesNext(t, startResult[t])
                         /\ AgreesNext(t, interruptResult[t])
    BY PromiseStays DEF PromiseInv
  <1>d. ASSUME \A t \in Turns : /\ startResult'[t] # startResult[t] => AgreesNext(t, startResult'[t])
                                /\ interruptResult'[t] # interruptResult[t] =>
                                        AgreesNext(t, interruptResult'[t])
        PROVE  PromiseInv'
    BY <1>a, <1>d DEF PromiseInv, Agrees, AgreesNext
  <1>e. ASSUME NEW t \in Turns, active # t, t <= lastTurn PROVE AgreesNext(t, ResultOf(t))
    BY <1>e, ResultAgrees, PromiseStays
  <1>f. /\ active \in {0, lastTurn} /\ lastTurn \in Nat /\ 0 \notin Turns /\ Turns \subseteq Nat
        /\ \A t \in Turns : interrupt[t] # "none" => t <= lastTurn
    BY DEF TypeOK, LogInv, NewestInv, RecoverInv, FreshInv, Turns
  <1> USE DEF hostVars, turnVars, flowVars, controlVars, recVars, baseVars
  <1>1. ASSUME NEW c \in Client, Connect(c) PROVE PromiseInv'
    BY <1>1, <1>d DEF Connect
  <1>2. ASSUME NEW c \in Client, Disconnect(c) PROVE PromiseInv'
    BY <1>2, <1>d DEF Disconnect
  <1>3. ASSUME NEW c \in Client, StartTurn(c) PROVE PromiseInv'
    BY <1>3, <1>d DEF StartTurn
  <1>4. ASSUME NEW t \in Turns, HostGrants(t) PROVE PromiseInv'
    BY <1>4, <1>d DEF HostGrants
  <1>5. ASSUME NEW t \in Turns, HostRefuses(t) PROVE PromiseInv'
    BY <1>5, <1>d DEF HostRefuses
  <1>6. ASSUME NEW t \in Turns, LeaseArrives(t) PROVE PromiseInv'
    BY <1>6, <1>d DEF LeaseArrives
  <1>7. ASSUME NEW t \in Turns, RequestStart(t) PROVE PromiseInv'
    BY <1>7, <1>d DEF RequestStart
  <1>8. ASSUME NEW t \in Turns, StartWritten(t) PROVE PromiseInv'
    BY <1>8, <1>d DEF StartWritten
  <1>9. ASSUME NEW t \in Turns, StartRefused(t) PROVE PromiseInv'
    BY <1>9, <1>d DEF StartRefused
  <1>10. ASSUME NEW t \in Turns, NEW pc \in {"answered", "answeredEnded"}, StartReplies(t, pc)
        PROVE  PromiseInv'
    BY <1>10, <1>d DEF StartReplies
  <1>11. ASSUME NEW t \in Turns, StartAnswered(t) PROVE PromiseInv'
    <2>1. /\ start[t] # "new" /\ UNCHANGED <<interruptResult, lastTurn>>
          /\ \A u \in Turns : u # t => startResult'[u] = startResult[u]
      <3>1. start[t] # "new" /\ UNCHANGED <<interruptResult, lastTurn>>
        BY <1>11 DEF StartAnswered
      <3>2. PICK r : startResult' = [startResult EXCEPT ![t] = r]
        BY <1>11 DEF StartAnswered
      <3>3. DOMAIN startResult = Turns
        BY DEF TypeOK
      <3>4. QED
        BY <3>1, <3>2, <3>3
    <2>2. t <= lastTurn
      BY <2>1 DEF FlowInv
    <2>3. CASE active # t
      <3>1. startResult'[t] = ResultOf(t)
        BY <1>11, <2>3 DEF StartAnswered, TypeOK
      <3>2. QED
        BY <1>d, <1>e, <2>1, <2>2, <2>3, <3>1
    <2> DEFINE told == IF turnId[t] = 0 THEN {} ELSE {"started"}
    <2>4. active = t => Told(log, t) = told /\ terminalResult[t] = "none"
      <3>1. active = t => Told(log, t) = told
        BY <1>f DEF LogInv, OpenInv
      <3>2. "started" \notin Statuses /\ terminalResult[t] \in Statuses \cup {"none"}
        BY DEF Statuses, TypeOK
      <3>3. QED
        BY <3>1, <3>2 DEF EndInv
    <2>5. CASE active = t /\ ~Establishes(t, t)
      <3>1. FinishActive(t, "failed", TRUE, FALSE, log) /\ startResult'[t] = "thrown"
        BY <1>11, <2>5 DEF StartAnswered, TypeOK
      <3>2. active' = 0 /\ terminalResult' = terminalResult
        BY <3>1 DEF FinishActive, TypeOK
      <3>3. AgreesNext(t, "thrown")
        BY <1>f, <2>1, <2>2, <2>4, <2>5, <3>2 DEF AgreesNext, EndInv, Statuses
      <3>4. QED
        BY <1>d, <2>1, <3>1, <3>3
    <2>6. CASE active = t /\ Establishes(t, t) /\ start[t] = "answeredEnded"
      <3>1. /\ FinishActive(t, "completed", TRUE, TRUE, Announced(t))
            /\ turnId'[t] = t /\ startResult'[t] = "completed"
        <4>1. turnId' = [turnId EXCEPT ![t] = t]
          BY <1>11, <2>6 DEF StartAnswered
        <4>2. /\ FinishActive(t, "completed", TRUE, TRUE, Announced(t))
              /\ startResult' = [startResult EXCEPT ![t] = "completed"]
          BY <1>11, <2>6 DEF StartAnswered
        <4>3. QED
          BY <4>1, <4>2 DEF TypeOK
      <3>2. terminalResult'[t] = "completed"
        BY <1>f, <3>1 DEF FinishActive, TypeOK
      <3>3. "completed" \in Told(log', t)
        BY <3>2 DEF EndInv
      <3>4. AgreesNext(t, "completed")
        BY <3>3 DEF AgreesNext
      <3>5. QED
        BY <1>d, <2>1, <3>1, <3>4
    <2>7. CASE active = t /\ Establishes(t, t) /\ start[t] # "answeredEnded"
      <3>1. /\ active' = active /\ turnId'[t] = t /\ startResult'[t] = "in-progress"
        BY <1>11, <2>7 DEF StartAnswered, TypeOK
      <3>2. Told(log', t) = {"started"}
        BY <1>f, <2>7, <3>1 DEF LogInv, OpenInv
      <3>3. AgreesNext(t, "in-progress")
        BY <3>2 DEF AgreesNext, Statuses
      <3>4. QED
        BY <1>d, <2>1, <3>1, <3>3
    <2>8. QED
      BY <2>3, <2>5, <2>6, <2>7
  <1>12. ASSUME NEW t \in Turns, StartEnds(t) PROVE PromiseInv'
    <2>1. /\ startResult' = [startResult EXCEPT ![t] = ResultOf(t)] /\ start[t] # "new"
          /\ interruptResult' = interruptResult
      BY <1>12 DEF StartEnds, StartIsOver
    <2>2. startResult'[t] = ResultOf(t) /\ \A u \in Turns : u # t => startResult'[u] = startResult[u]
      BY <2>1 DEF TypeOK
    <2>3. t <= lastTurn
      BY <2>1 DEF FlowInv
    <2>4. CASE active # t
      BY <1>d, <1>e, <2>1, <2>2, <2>3, <2>4
    <2>5. CASE active = t
      <3>1. FinishActive(t, "failed", TRUE, FALSE, log) /\ UNCHANGED <<turnId, lastTurn>>
        BY <1>12, <2>5 DEF StartEnds
      <3>2. terminalResult[t] = "none"
        <4>1. Told(log, t) \subseteq {"started"}
          BY <1>f, <2>5 DEF LogInv, OpenInv
        <4>2. "started" \notin Statuses /\ terminalResult[t] \in Statuses \cup {"none"}
          BY DEF Statuses, TypeOK
        <4>3. QED
          BY <4>1, <4>2 DEF EndInv
      <3>3. active' = 0 /\ terminalResult' = terminalResult
        BY <3>1 DEF FinishActive, TypeOK
      <3>4. AgreesNext(t, "thrown")
        BY <1>f, <2>3, <3>1, <3>2, <3>3 DEF AgreesNext, EndInv, Statuses
      <3>5. QED
        BY <1>d, <2>1, <2>2, <3>2, <3>4 DEF ResultOf
    <2>6. QED
      BY <2>4, <2>5
  <1>13. ASSUME NEW t \in Turns, TurnStarted(t) PROVE PromiseInv'
    BY <1>13, <1>d DEF TurnStarted
  <1>14. ASSUME NEW t \in Turns, NEW s \in {"completed", "interrupted"}, TurnCompleted(t, s)
        PROVE  PromiseInv'
    BY <1>14, <1>d DEF TurnCompleted
  <1>15. ASSUME NEW t \in Turns, Steer(t) PROVE PromiseInv'
    BY <1>15, <1>d DEF Steer
  <1>16. ASSUME NEW t \in Turns, SteerEnds(t) PROVE PromiseInv'
    BY <1>16, <1>d DEF SteerEnds
  <1>17. ASSUME NEW t \in Turns, Interrupt(t) PROVE PromiseInv'
    BY <1>17, <1>d DEF Interrupt
  <1>18. ASSUME NEW t \in Turns, NEW pc \in {"acked", "rejected"}, InterruptReplies(t, pc)
        PROVE  PromiseInv'
    BY <1>18, <1>d DEF InterruptReplies
  <1>19. ASSUME NEW t \in Turns, InterruptTimesOut(t) PROVE PromiseInv'
    BY <1>19, <1>d DEF InterruptTimesOut, GivesUp
  <1>20. ASSUME NEW t \in Turns, InterruptFails(t) PROVE PromiseInv'
    BY <1>20, <1>d DEF InterruptFails, GivesUp
  <1>21. ASSUME NEW t \in Turns, InterruptEnds(t) PROVE PromiseInv'
    <2>1. /\ interruptResult' = [interruptResult EXCEPT ![t] = ResultOf(t)]
          /\ startResult' = startResult /\ active # t /\ interrupt[t] # "none"
      BY <1>21 DEF InterruptEnds
    <2>2. AgreesNext(t, ResultOf(t))
      BY <1>e, <1>f, <2>1
    <2>3. interruptResult'[t] = ResultOf(t) /\ \A u \in Turns : u # t => interruptResult'[u] = interruptResult[u]
      BY <2>1 DEF TypeOK
    <2>4. QED
      BY <1>d, <2>1, <2>2, <2>3
  <1>22. ASSUME NEW t \in Turns, InterruptRecovered(t) PROVE PromiseInv'
    <2>1. PICK r \in {ResultOf(t)} \cup (IF disposed THEN {"thrown"} ELSE {}) :
                interruptResult' = [interruptResult EXCEPT ![t] = r]
      BY <1>22 DEF InterruptRecovered
    <2>2. startResult' = startResult /\ interrupt[t] = "recovering"
      BY <1>22 DEF InterruptRecovered
    <2>3. active # t /\ t <= lastTurn /\ terminalResult[t] = "interrupt-uncertain"
      BY <1>f, <2>2 DEF FlowInv
    <2>4. AgreesNext(t, ResultOf(t))
      BY <1>e, <2>3
    <2>5. disposed => Agrees(t, "thrown")
      <3>1. "completed" \notin Told(log, t)
        BY <2>3 DEF EndInv
      <3>2. QED
        BY <2>3, <3>1 DEF Agrees, Statuses
    <2>6. AgreesNext(t, r)
      BY <2>1, <2>4, <2>5, PromiseStays
    <2>7. interruptResult'[t] = r /\ \A u \in Turns : u # t => interruptResult'[u] = interruptResult[u]
      BY <2>1 DEF TypeOK
    <2>8. QED
      BY <1>d, <2>2, <2>6, <2>7
  <1>23. ASSUME NEW t \in Turns, RecoveryGranted(t) PROVE PromiseInv'
    BY <1>23, <1>d DEF RecoveryGranted
  <1>24. ASSUME NEW t \in Turns, RecoveryRefused(t) PROVE PromiseInv'
    BY <1>24, <1>d DEF RecoveryRefused
  <1>25. ASSUME NEW ok \in BOOLEAN, RestartSettles(ok) PROVE PromiseInv'
    BY <1>25, <1>d DEF RestartSettles
  <1>26. CASE RecoveryRestarts
    BY <1>26, <1>d DEF RecoveryRestarts
  <1>27. CASE RecoveryAcquires
    BY <1>27, <1>d DEF RecoveryAcquires
  <1>28. CASE RecoveryResumes
    BY <1>28, <1>d DEF RecoveryResumes
  <1>29. CASE RecoveryStops
    BY <1>29, <1>d DEF RecoveryStops
  <1>30. CASE RecoveryFails
    BY <1>30, <1>d DEF RecoveryFails
  <1>31. CASE HostStops
    BY <1>31, <1>d DEF HostStops, HostChanges
  <1>32. CASE HostRestarts
    BY <1>32, <1>d DEF HostRestarts, HostChanges
  <1>33. CASE HostStarts
    BY <1>33, <1>d DEF HostStarts, HostChanges
  <1>34. CASE HostReady
    BY <1>34, <1>d DEF HostReady, HostChanges
  <1>35. CASE Dispose
    BY <1>35, <1>d DEF Dispose
  <1>36. CASE UNCHANGED vars
    BY <1>36, <1>d DEF vars
  <1> HIDE DEF hostVars, turnVars, flowVars, controlVars, recVars, baseVars
  <1>37. QED
    BY <1>1, <1>2, <1>3, <1>4, <1>5, <1>6, <1>7, <1>8, <1>9, <1>10, <1>11, <1>12,
       <1>13, <1>14, <1>15, <1>16, <1>17, <1>18, <1>19, <1>20, <1>21, <1>22, <1>23,
       <1>24, <1>25, <1>26, <1>27, <1>28, <1>29, <1>30, <1>31, <1>32, <1>33, <1>34,
       <1>35, <1>36
    DEF Next, StartStep, NotificationStep, ControlStep, RecoveryStep, HostStep

\* The invariants about uncertain interrupts, the boundaries and the promises.
LEMMA BookInvariant == Spec => [](TypeOK /\ ServeInv /\ RecoverInv /\ LogInv /\ ResultInv)
  <1>1. Init => RecoverInv
    BY DEF Init, RecoverInv, UncertainInv, ProgressInv, ControlInv, FreshInv, Turns
  <1>2. Init => LogInv /\ ResultInv
    <2> SUFFICES ASSUME Init PROVE LogInv /\ ResultInv
      OBVIOUS
    <2>1. DOMAIN log = {}
      BY DEF Init
    <2>2. OrderedLog(log) /\ AtMost(log, lastTurn) /\ \A t \in Turns : Told(log, t) = {}
      BY <2>1 DEF OrderedLog, AtMost, Told
    <2>3. LogInv
      BY <2>2 DEF Init, LogInv, NewestInv, OpenInv, BarrierInv
    <2>4. EndInv /\ FlowInv
      BY <2>2 DEF Init, EndInv, FlowInv
    <2>5. PromiseInv
      BY <2>2 DEF Init, PromiseInv, Agrees, Statuses
    <2>6. QED
      BY <2>3, <2>4, <2>5 DEF ResultInv
  <1>3. TypeOK /\ ServeInv /\ RecoverInv /\ LogInv /\ ResultInv /\ [Next]_vars
            => LogInv' /\ ResultInv'
    <2> SUFFICES ASSUME TypeOK, ServeInv, RecoverInv, LogInv, ResultInv, [Next]_vars
                 PROVE  LogInv' /\ ResultInv'
      OBVIOUS
    <2>1. TypeOK' /\ Booked
      BY StepKeepsTypes, StepIsBooked
    <2>2. LogInv'
      BY <2>1, StepKeepsOrder
    <2>3. EndInv'
      BY <2>1, StepKeepsEnds DEF ResultInv
    <2>4. FlowInv'
      BY <2>1, <2>2, StepKeepsFlow DEF ResultInv
    <2>5. PromiseInv'
      BY <2>1, <2>2, <2>3, StepKeepsPromises DEF ResultInv
    <2>6. QED
      BY <2>2, <2>3, <2>4, <2>5 DEF ResultInv
  <1>4. QED
    BY <1>1, <1>2, <1>3, StepRecovers, ServeInvariant, PTL DEF Spec

\* BoundariesInOrder: what the clients are told of the turns is in order, whatever
\* the server answers twice, late or not at all, and whichever side ends a turn.
THEOREM BoundariesAreInOrder == Spec => []BoundariesInOrder
  <1>1. LogInv => BoundariesInOrder
    BY DEF LogInv, OrderedLog, BoundariesInOrder
  <1>2. QED
    BY <1>1, BookInvariant, PTL

\* ResultsAgree: each promise of a turn gives what was told of it.
THEOREM ResultsAlwaysAgree == Spec => []ResultsAgree
  <1>1. TypeOK /\ ResultInv => ResultsAgree
    <2>1. ASSUME TypeOK, NEW t \in Turns, NEW kind PROVE Logged(t, kind) <=> kind \in Told(log, t)
      <3>1. log \in Seq(Events)
        BY <2>1 DEF TypeOK
      <3>2. \A i \in DOMAIN log : log[i] \in Events
        BY <3>1
      <3>3. \A i \in DOMAIN log : log[i] = Event(t, kind) <=> log[i].turn = t /\ log[i].kind = kind
        BY <3>2 DEF Event, Events
      <3>4. QED
        BY <3>3 DEF Logged, Told
    <2>2. ASSUME TypeOK, NEW t \in Turns, NEW r, Agrees(t, r)
          PROVE  /\ r \in Statuses => Logged(t, r)
                 /\ r = "in-progress" => Logged(t, "started")
                 /\ r = "thrown" => ~Logged(t, "completed")
                 /\ r = "thrown" /\ ~disposed => ~Logged(t, "interrupt-uncertain")
      BY <2>1, <2>2 DEF Agrees
    <2>3. QED
      BY <2>2 DEF ResultInv, PromiseInv, ResultsAgree
  <1>2. QED
    BY <1>1, BookInvariant, PTL
=============================================================================
