------------------------ MODULE ApprovalBrokerProofs ------------------------
(***************************************************************************)
(* Proofs about ApprovalBroker, for any finite set of requests and         *)
(* sessions and any limits.                                                *)
(***************************************************************************)
EXTENDS ApprovalBroker, FiniteSetTheorems, TLAPS

USE BrokerAssumption

\* Who owns the lease of a request, and who will end its reservation.
EntryInv ==
    \A r \in Request :
        /\ lease[r] = "held" <=> stage[r] \in Owning \/ pc[r] \in Waiting
        /\ stage[r] \in Owning => pc[r] \in {"admitted", "scope", "done"}
        /\ pc[r] = "new" => stage[r] = "none"
        /\ stage[r] = "pending" /\ r \in FileRequest => shown[r] # 0
        /\ stage[r] = "acquiring" => /\ hostState = "ready" /\ ~disposed
                                     /\ genOf[r] = generation
                                     /\ r \in open \/ clientClosed
                                     /\ pc[r] \in Waiting \/ clientClosed

\* A disposed broker only waits for answers.
DisposalInv ==
    /\ disposed => \A r \in Request : stage[r] \in {"none", "responding"}
    /\ disposePc # "none" => disposed
    /\ disposePc = "done" => Active = {}

BrokerInv == TypeOK /\ EntryInv /\ CardsAreOwned /\ DisposalInv

-----------------------------------------------------------------------------
(* Every step preserves the invariant                                      *)

\* The loop that makes room keeps the types.
LEMMA MakeCapacityKeepsTypes ==
    ASSUME TypeOK, NEW r \in Request, MakeCapacity(r),
           UNCHANGED <<cardVars, sessionVars, endVars>>
    PROVE  TypeOK'
  <1> USE DEF TypeOK, Stages, Pcs, Decisions, Owning, In,
              GiveUp, RespondAndRelease, Settle, Owns, AbortGeneration, HostLost, Continues,
              hostVars, entryVars, cardVars, sessionVars, turnVars, endVars
  <1>1. CASE Admit(r)
    BY <1>1 DEF Admit, CanRespond
  <1>2. CASE /\ \E a \in In("admitting") : Waits(r, a, "awaitAdmission")
             /\ UNCHANGED <<hostVars, entryVars, turnVars>>
    BY <1>2 DEF Waits
  <1>3. CASE \E e \in In("responding") : Collide(r, e)
    BY SMTT(40), <1>3 DEF Collide, Waits
  <1>4. CASE \E e \in IF In("pending") # {} THEN In("pending") ELSE In("authorizing") :
               /\ Settle({e}, "cancel") /\ Waits(r, e, "awaitEviction")
               /\ UNCHANGED turnVars
    BY <1>4 DEF Waits
  <1>5. QED
    BY <1>1, <1>2, <1>3, <1>4 DEF MakeCapacity

\* Every step keeps the types.
LEMMA StepKeepsTypes == BrokerInv /\ [Next]_vars => TypeOK'
  <1> SUFFICES ASSUME BrokerInv, [Next]_vars PROVE TypeOK'
    OBVIOUS
  <1> USE DEF BrokerInv, TypeOK, Stages, Pcs, Gen, Decisions, Waiting, Owning,
              GiveUp, RespondAndRelease, Settle, Owns, AbortGeneration, HostLost, Continues,
              hostVars, entryVars, flowVars, cardVars, sessionVars, turnVars, endVars
  <1>1. ASSUME NEW r \in Request, ServerRequest(r) PROVE TypeOK'
    <2>1. generation \in 0..MaxGenerations
      OBVIOUS
    <2>2. genOf' \in [Request -> 0..MaxGenerations]
      BY <1>1, <2>1 DEF ServerRequest
    <2>3. CASE Full
      BY <1>1, <2>2, <2>3 DEF ServerRequest, Reserve
    <2>4. CASE ~Full
      <3>1. /\ stage' = [stage EXCEPT ![r] = "acquiring"]
            /\ lease' = [lease EXCEPT ![r] = "held"]
            /\ open' = open \cup {r}
            /\ pc' = [pc EXCEPT ![r] = "acquire"]
            /\ UNCHANGED <<hostState, generation, clientClosed, answer, waitsFor>>
            /\ UNCHANGED <<owner, ownerRevision, shown, expired, deciding, sessionVars,
                           turnVars, endVars>>
        BY <1>1, <2>4 DEF ServerRequest, Reserve
      <3>2. stage' \in [Request -> Stages] /\ lease' \in [Request -> {"none", "held", "released"}]
        BY <3>1
      <3>3. open' \subseteq Request /\ pc' \in [Request -> Pcs]
        BY <3>1
      <3>4. QED
        BY <2>2, <3>1, <3>2, <3>3
    <2>5. QED
      BY <2>3, <2>4
  <1>2. ASSUME NEW r \in Request, AcquireRejects(r) PROVE TypeOK'
    BY <1>2 DEF AcquireRejects
  <1>3. ASSUME NEW r \in Request, LeaseGranted(r) PROVE TypeOK'
    <2>1. CASE MakeCapacity(r)
      BY <1>3, <2>1, MakeCapacityKeepsTypes DEF LeaseGranted
    <2>2. CASE GiveUp({r}, {r}) /\ Continues(r, "done") /\ UNCHANGED <<hostVars, turnVars>>
      BY <1>3, <2>2 DEF LeaseGranted
    <2>3. QED
      BY <1>3, <2>1, <2>2 DEF LeaseGranted
  <1>4. ASSUME NEW r \in Request, AdmissionResumes(r) PROVE TypeOK'
    BY <1>4, MakeCapacityKeepsTypes DEF AdmissionResumes
  <1>5. ASSUME NEW r \in Request, EvictionResumes(r) PROVE TypeOK'
    <2>1. CASE MakeCapacity(r)
      BY <1>5, <2>1, MakeCapacityKeepsTypes DEF EvictionResumes
    <2>2. CASE GiveUp({}, {r}) /\ Continues(r, "done") /\ UNCHANGED <<hostVars, turnVars>>
      BY <1>5, <2>2 DEF EvictionResumes
    <2>3. QED
      BY <1>5, <2>1, <2>2 DEF EvictionResumes
  <1>6. ASSUME NEW r \in Request, Admitted(r) PROVE TypeOK'
    BY SMTT(40), <1>6 DEF Admitted, RefusesAdmission, BindsOwner, Shows, ContextOf
  <1>7. ASSUME NEW r \in Request, AuthorizeFile(r) PROVE TypeOK'
    BY <1>7 DEF AuthorizeFile, Refusals, StillAuthorized, Shows, ContextOf
  <1>8. ASSUME NEW s \in Session, NEW r \in Request, NEW d \in Decisions, Decide(s, r, d)
        PROVE  TypeOK'
    BY <1>8 DEF Decide, MayDecide, SettleDecided
  <1>9. ASSUME NEW r \in Request, NEW d \in Decisions, DecideResumes(r, d)
        PROVE  TypeOK'
    BY <1>9 DEF DecideResumes, ScopeDecided, SettleDecided
  <1>10. ASSUME NEW s \in Session, NEW g \in Gen, NEW t \in Turn, SetContext(s, g, t)
        PROVE  TypeOK'
    BY <1>10 DEF SetContext, Rebind, OwnedSince, In, Contexts
  <1>11. ASSUME NEW s \in Session, DisposeContext(s) PROVE TypeOK'
    BY <1>11 DEF DisposeContext, Rebind, OwnedSince, In, Contexts, NoContext
  <1>12. ASSUME NEW s \in Session, Disconnect(s) PROVE TypeOK'
    BY <1>12 DEF Disconnect, OwnedSince, In, Contexts, NoContext
  <1>13. ASSUME NEW s \in Session, Connect(s) PROVE TypeOK'
    BY SMTT(40), <1>13 DEF Connect, Connected, OwnedSince, In, Contexts, NoContext
  <1>14. ASSUME NEW r \in Request, Expires(r) PROVE TypeOK'
    BY <1>14 DEF Expires
  <1>15. ASSUME NEW r \in Request, TtlTimerFires(r) PROVE TypeOK'
    BY <1>15 DEF TtlTimerFires
  <1>16. ASSUME NEW r \in Request, ResponseSettles(r) PROVE TypeOK'
    BY <1>16 DEF ResponseSettles
  <1>17. ASSUME NEW r \in Request, ResponseTimesOut(r) PROVE TypeOK'
    BY <1>17 DEF ResponseTimesOut
  <1>18. ASSUME NEW r \in Request, NEW v \in 0..MaxScope, ScopeTracked(r, v)
        PROVE  TypeOK'
    BY <1>18 DEF ScopeTracked
  <1>19. ASSUME NEW t \in Turn, TurnCompleted(t) PROVE TypeOK'
    BY <1>19 DEF TurnCompleted, OfTurn, In
  <1>20. CASE ClientCloses
    BY <1>20 DEF ClientCloses
  <1>21. CASE HostStops
    BY <1>21 DEF HostStops
  <1>22. CASE HostReady
    <2>1. generation' \in 0..MaxGenerations /\ generation' \in 1..MaxGenerations
      BY <1>22 DEF HostReady
    <2>2. stage' \in [Request -> Stages] /\ lease' \in [Request -> {"none", "held", "released"}]
          /\ answer' = answer
      BY <1>22 DEF HostReady
    <2>3. /\ hostState' = "ready" /\ clientClosed' = FALSE /\ open' = open
          /\ UNCHANGED <<flowVars, cardVars, sessionVars, turnVars, endVars>>
      BY <1>22 DEF HostReady
    <2>4. QED
      BY <2>1, <2>2, <2>3
  <1>23. CASE Dispose
    BY <1>23 DEF Dispose, Unsafe, StopsUnsafe, In
  <1>24. CASE DisposeDrained
    BY <1>24 DEF DisposeDrained, In
  <1>25. CASE UNCHANGED vars
    BY <1>25 DEF vars
  <1> HIDE DEF BrokerInv, TypeOK, Stages, Pcs, Gen, Decisions, Waiting, Owning,
               GiveUp, RespondAndRelease, Settle, Owns, AbortGeneration, HostLost, Continues,
               hostVars, entryVars, flowVars, cardVars, sessionVars, turnVars, endVars
  <1>26. QED
    BY <1>1, <1>2, <1>3, <1>4, <1>5, <1>6, <1>7, <1>8, <1>9, <1>10, <1>11, <1>12,
       <1>13, <1>14, <1>15, <1>16, <1>17, <1>18, <1>19, <1>20, <1>21, <1>22, <1>23,
       <1>24, <1>25
       DEF Next, RequestStep, SessionStep, HostStep, Continuation

\* Every step keeps the books of leases and reservations.
LEMMA StepKeepsEntries == BrokerInv /\ [Next]_vars => EntryInv'
  <1> SUFFICES ASSUME BrokerInv, [Next]_vars PROVE EntryInv'
    OBVIOUS
  <1> USE DEF BrokerInv, TypeOK, EntryInv, Stages, Pcs, Waiting, Owning,
              GiveUp, RespondAndRelease, Settle, Owns, AbortGeneration, HostLost, Continues,
              hostVars, entryVars, flowVars, cardVars, sessionVars, turnVars, endVars
  <1>1. ASSUME NEW r \in Request, ServerRequest(r) PROVE EntryInv'
    BY <1>1 DEF ServerRequest, Reserve
  <1>2. ASSUME NEW r \in Request, AcquireRejects(r) PROVE EntryInv'
    BY <1>2 DEF AcquireRejects
  <1>3. ASSUME NEW r \in Request, LeaseGranted(r) PROVE EntryInv'
    BY <1>3 DEF LeaseGranted, MakeCapacity, Admit, CanRespond, Waits, Collide, In,
       Active
  <1>4. ASSUME NEW r \in Request, AdmissionResumes(r) PROVE EntryInv'
    BY <1>4 DEF AdmissionResumes, AdmissionWakes, MakeCapacity, Admit, CanRespond,
       Waits, Collide, In, Active
  <1>5. ASSUME NEW r \in Request, EvictionResumes(r) PROVE EntryInv'
    BY <1>5 DEF EvictionResumes, EvictionWakes, MakeCapacity, Admit, CanRespond,
       Waits, Collide, In, Active
  <1>6. ASSUME NEW r \in Request, Admitted(r) PROVE EntryInv'
    BY <1>6 DEF Admitted, RefusesAdmission, BindsOwner, Shows, ContextOf
  <1>7. ASSUME NEW r \in Request, AuthorizeFile(r) PROVE EntryInv'
    BY <1>7 DEF AuthorizeFile, Refusals, StillAuthorized, Shows, ContextOf
  <1>8. ASSUME NEW s \in Session, NEW r \in Request, NEW d \in Decisions, Decide(s, r, d)
        PROVE  EntryInv'
    BY <1>8 DEF Decide, MayDecide, SettleDecided
  <1>9. ASSUME NEW r \in Request, NEW d \in Decisions, DecideResumes(r, d)
        PROVE  EntryInv'
    BY <1>9 DEF DecideResumes, ScopeDecided, SettleDecided
  <1>10. ASSUME NEW s \in Session, NEW g \in Gen, NEW t \in Turn, SetContext(s, g, t)
        PROVE  EntryInv'
    BY <1>10 DEF SetContext, Rebind, OwnedSince, In
  <1>11. ASSUME NEW s \in Session, DisposeContext(s) PROVE EntryInv'
    BY <1>11 DEF DisposeContext, Rebind, OwnedSince, In
  <1>12. ASSUME NEW s \in Session, Disconnect(s) PROVE EntryInv'
    BY <1>12 DEF Disconnect, OwnedSince, In
  <1>13. ASSUME NEW s \in Session, Connect(s) PROVE EntryInv'
    BY <1>13 DEF Connect, Connected, OwnedSince, In
  <1>14. ASSUME NEW r \in Request, Expires(r) PROVE EntryInv'
    BY <1>14 DEF Expires
  <1>15. ASSUME NEW r \in Request, TtlTimerFires(r) PROVE EntryInv'
    BY <1>15 DEF TtlTimerFires
  <1>16. ASSUME NEW r \in Request, ResponseSettles(r) PROVE EntryInv'
    BY <1>16 DEF ResponseSettles
  <1>17. ASSUME NEW r \in Request, ResponseTimesOut(r) PROVE EntryInv'
    BY <1>17 DEF ResponseTimesOut
  <1>18. ASSUME NEW r \in Request, NEW v \in 0..MaxScope, ScopeTracked(r, v)
        PROVE  EntryInv'
    BY <1>18 DEF ScopeTracked
  <1>19. ASSUME NEW t \in Turn, TurnCompleted(t) PROVE EntryInv'
    BY <1>19 DEF TurnCompleted, OfTurn, In
  <1>20. CASE ClientCloses
    BY <1>20 DEF ClientCloses
  <1>21. CASE HostStops
    BY <1>21 DEF HostStops
  <1>22. CASE HostReady
    BY <1>22 DEF HostReady
  <1>23. CASE Dispose
    BY <1>23 DEF Dispose, Unsafe, StopsUnsafe, In
  <1>24. CASE DisposeDrained
    BY <1>24 DEF DisposeDrained, In
  <1>25. CASE UNCHANGED vars
    BY <1>25 DEF vars
  <1> HIDE DEF BrokerInv, TypeOK, EntryInv, Stages, Pcs, Waiting, Owning, GiveUp,
               RespondAndRelease, Settle, Owns, AbortGeneration, HostLost, Continues,
               hostVars, entryVars, flowVars, cardVars, sessionVars, turnVars,
               endVars
  <1>26. QED
    BY <1>1, <1>2, <1>3, <1>4, <1>5, <1>6, <1>7, <1>8, <1>9, <1>10, <1>11, <1>12,
       <1>13, <1>14, <1>15, <1>16, <1>17, <1>18, <1>19, <1>20, <1>21, <1>22, <1>23,
       <1>24, <1>25
       DEF Next, RequestStep, SessionStep, HostStep, Continuation

\* Every step leaves no card to a session that no longer shows its turn.
LEMMA StepKeepsOwners == BrokerInv /\ [Next]_vars => CardsAreOwned'
  <1> SUFFICES ASSUME BrokerInv, [Next]_vars PROVE CardsAreOwned'
    OBVIOUS
  <1> USE DEF BrokerInv, TypeOK, CardsAreOwned, EntryInv, DisposalInv, In, Owning,
              GiveUp, RespondAndRelease, Settle, Owns, AbortGeneration, HostLost, Continues,
              hostVars, entryVars, flowVars, cardVars, sessionVars, turnVars, endVars
  <1>1. ASSUME NEW r \in Request, ServerRequest(r) PROVE CardsAreOwned'
    BY <1>1 DEF ServerRequest, Reserve, Shows, ContextOf
  <1>2. ASSUME NEW r \in Request, AcquireRejects(r) PROVE CardsAreOwned'
    BY <1>2 DEF AcquireRejects, Shows, ContextOf
  <1>3. ASSUME NEW r \in Request, LeaseGranted(r) PROVE CardsAreOwned'
    BY <1>3 DEF LeaseGranted, MakeCapacity, Admit, CanRespond, Waits, Collide,
       Active, Shows, ContextOf
  <1>4. ASSUME NEW r \in Request, AdmissionResumes(r) PROVE CardsAreOwned'
    BY <1>4 DEF AdmissionResumes, AdmissionWakes, MakeCapacity, Admit, CanRespond,
       Waits, Collide, Active, Shows, ContextOf
  <1>5. ASSUME NEW r \in Request, EvictionResumes(r) PROVE CardsAreOwned'
    BY <1>5 DEF EvictionResumes, EvictionWakes, MakeCapacity, Admit, CanRespond,
       Waits, Collide, Active, Shows, ContextOf
  <1>6. ASSUME NEW r \in Request, Admitted(r) PROVE CardsAreOwned'
    BY <1>6 DEF Admitted, RefusesAdmission, BindsOwner, Shows, ContextOf
  <1>7. ASSUME NEW r \in Request, AuthorizeFile(r) PROVE CardsAreOwned'
    BY <1>7 DEF AuthorizeFile, Refusals, StillAuthorized, Shows, ContextOf
  <1>8. ASSUME NEW s \in Session, NEW r \in Request, NEW d \in Decisions, Decide(s, r, d)
        PROVE  CardsAreOwned'
    BY <1>8 DEF Decide, MayDecide, SettleDecided, Shows, ContextOf
  <1>9. ASSUME NEW r \in Request, NEW d \in Decisions, DecideResumes(r, d)
        PROVE  CardsAreOwned'
    BY SMTT(40), <1>9 DEF DecideResumes, ScopeDecided, SettleDecided, Shows, ContextOf
  <1>10. ASSUME NEW s \in Session, NEW g \in Gen, NEW t \in Turn, SetContext(s, g, t)
        PROVE  CardsAreOwned'
    BY SMTT(40), <1>10 DEF SetContext, Rebind, OwnedSince, Shows, ContextOf
  <1>11. ASSUME NEW s \in Session, DisposeContext(s) PROVE CardsAreOwned'
    BY <1>11 DEF DisposeContext, Rebind, OwnedSince, Shows, ContextOf
  <1>12. ASSUME NEW s \in Session, Disconnect(s) PROVE CardsAreOwned'
    BY <1>12 DEF Disconnect, OwnedSince, Shows, ContextOf
  <1>13. ASSUME NEW s \in Session, Connect(s) PROVE CardsAreOwned'
    BY <1>13 DEF Connect, Connected, OwnedSince, Shows, ContextOf
  <1>14. ASSUME NEW r \in Request, Expires(r) PROVE CardsAreOwned'
    BY <1>14 DEF Expires, Shows, ContextOf
  <1>15. ASSUME NEW r \in Request, TtlTimerFires(r) PROVE CardsAreOwned'
    BY <1>15 DEF TtlTimerFires, Shows, ContextOf
  <1>16. ASSUME NEW r \in Request, ResponseSettles(r) PROVE CardsAreOwned'
    BY <1>16 DEF ResponseSettles, Shows, ContextOf
  <1>17. ASSUME NEW r \in Request, ResponseTimesOut(r) PROVE CardsAreOwned'
    BY <1>17 DEF ResponseTimesOut, Shows, ContextOf
  <1>18. ASSUME NEW r \in Request, NEW v \in 0..MaxScope, ScopeTracked(r, v)
        PROVE  CardsAreOwned'
    BY <1>18 DEF ScopeTracked, Shows, ContextOf
  <1>19. ASSUME NEW t \in Turn, TurnCompleted(t) PROVE CardsAreOwned'
    BY <1>19 DEF TurnCompleted, OfTurn, Shows, ContextOf
  <1>20. CASE ClientCloses
    BY <1>20 DEF ClientCloses, Shows, ContextOf
  <1>21. CASE HostStops
    BY <1>21 DEF HostStops, Shows, ContextOf
  <1>22. CASE HostReady
    BY <1>22 DEF HostReady, Shows, ContextOf
  <1>23. CASE Dispose
    BY <1>23 DEF Dispose, Unsafe, StopsUnsafe, Shows, ContextOf
  <1>24. CASE DisposeDrained
    BY <1>24 DEF DisposeDrained, Shows, ContextOf
  <1>25. CASE UNCHANGED vars
    BY <1>25 DEF vars, Shows, ContextOf
  <1> HIDE DEF BrokerInv, TypeOK, CardsAreOwned, EntryInv, DisposalInv, In, Owning,
               GiveUp, RespondAndRelease, Settle, Owns, AbortGeneration, HostLost,
               Continues, hostVars, entryVars, flowVars, cardVars, sessionVars,
               turnVars, endVars
  <1>26. QED
    BY <1>1, <1>2, <1>3, <1>4, <1>5, <1>6, <1>7, <1>8, <1>9, <1>10, <1>11, <1>12,
       <1>13, <1>14, <1>15, <1>16, <1>17, <1>18, <1>19, <1>20, <1>21, <1>22, <1>23,
       <1>24, <1>25
       DEF Next, RequestStep, SessionStep, HostStep, Continuation

\* Every step of a disposed broker only finishes answers.
LEMMA StepKeepsDisposal == BrokerInv /\ [Next]_vars => DisposalInv'
  <1> SUFFICES ASSUME BrokerInv, [Next]_vars PROVE DisposalInv'
    OBVIOUS
  <1> USE DEF BrokerInv, TypeOK, DisposalInv, EntryInv, Active, In,
              GiveUp, RespondAndRelease, Settle, Owns, AbortGeneration, HostLost, Continues,
              hostVars, entryVars, flowVars, cardVars, sessionVars, turnVars, endVars
  <1>1. ASSUME NEW r \in Request, ServerRequest(r) PROVE DisposalInv'
    BY <1>1 DEF ServerRequest, Reserve
  <1>2. ASSUME NEW r \in Request, AcquireRejects(r) PROVE DisposalInv'
    BY <1>2 DEF AcquireRejects
  <1>3. ASSUME NEW r \in Request, LeaseGranted(r) PROVE DisposalInv'
    BY <1>3 DEF LeaseGranted, MakeCapacity, Admit, CanRespond, Waits, Collide
  <1>4. ASSUME NEW r \in Request, AdmissionResumes(r) PROVE DisposalInv'
    BY <1>4 DEF AdmissionResumes, AdmissionWakes, MakeCapacity, Admit, CanRespond,
       Waits, Collide
  <1>5. ASSUME NEW r \in Request, EvictionResumes(r) PROVE DisposalInv'
    BY <1>5 DEF EvictionResumes, EvictionWakes, MakeCapacity, Admit, CanRespond,
       Waits, Collide
  <1>6. ASSUME NEW r \in Request, Admitted(r) PROVE DisposalInv'
    BY <1>6 DEF Admitted, RefusesAdmission, BindsOwner, Shows, ContextOf
  <1>7. ASSUME NEW r \in Request, AuthorizeFile(r) PROVE DisposalInv'
    BY <1>7 DEF AuthorizeFile, Refusals, StillAuthorized, Shows, ContextOf
  <1>8. ASSUME NEW s \in Session, NEW r \in Request, NEW d \in Decisions, Decide(s, r, d)
        PROVE  DisposalInv'
    BY <1>8 DEF Decide, MayDecide, SettleDecided
  <1>9. ASSUME NEW r \in Request, NEW d \in Decisions, DecideResumes(r, d)
        PROVE  DisposalInv'
    BY <1>9 DEF DecideResumes, ScopeDecided, SettleDecided
  <1>10. ASSUME NEW s \in Session, NEW g \in Gen, NEW t \in Turn, SetContext(s, g, t)
        PROVE  DisposalInv'
    BY <1>10 DEF SetContext, Rebind, OwnedSince
  <1>11. ASSUME NEW s \in Session, DisposeContext(s) PROVE DisposalInv'
    BY <1>11 DEF DisposeContext, Rebind, OwnedSince
  <1>12. ASSUME NEW s \in Session, Disconnect(s) PROVE DisposalInv'
    BY <1>12 DEF Disconnect, OwnedSince
  <1>13. ASSUME NEW s \in Session, Connect(s) PROVE DisposalInv'
    BY <1>13 DEF Connect, Connected, OwnedSince
  <1>14. ASSUME NEW r \in Request, Expires(r) PROVE DisposalInv'
    BY <1>14 DEF Expires
  <1>15. ASSUME NEW r \in Request, TtlTimerFires(r) PROVE DisposalInv'
    BY <1>15 DEF TtlTimerFires
  <1>16. ASSUME NEW r \in Request, ResponseSettles(r) PROVE DisposalInv'
    BY <1>16 DEF ResponseSettles
  <1>17. ASSUME NEW r \in Request, ResponseTimesOut(r) PROVE DisposalInv'
    BY <1>17 DEF ResponseTimesOut
  <1>18. ASSUME NEW r \in Request, NEW v \in 0..MaxScope, ScopeTracked(r, v)
        PROVE  DisposalInv'
    BY <1>18 DEF ScopeTracked
  <1>19. ASSUME NEW t \in Turn, TurnCompleted(t) PROVE DisposalInv'
    BY <1>19 DEF TurnCompleted, OfTurn
  <1>20. CASE ClientCloses
    BY <1>20 DEF ClientCloses
  <1>21. CASE HostStops
    BY <1>21 DEF HostStops
  <1>22. CASE HostReady
    BY <1>22 DEF HostReady
  <1>23. CASE Dispose
    BY <1>23 DEF Dispose, Unsafe, StopsUnsafe
  <1>24. CASE DisposeDrained
    BY <1>24 DEF DisposeDrained
  <1>25. CASE UNCHANGED vars
    BY <1>25 DEF vars
  <1> HIDE DEF BrokerInv, TypeOK, DisposalInv, EntryInv, Active, In, GiveUp,
               RespondAndRelease, Settle, Owns, AbortGeneration, HostLost, Continues,
               hostVars, entryVars, flowVars, cardVars, sessionVars, turnVars,
               endVars
  <1>26. QED
    BY <1>1, <1>2, <1>3, <1>4, <1>5, <1>6, <1>7, <1>8, <1>9, <1>10, <1>11, <1>12,
       <1>13, <1>14, <1>15, <1>16, <1>17, <1>18, <1>19, <1>20, <1>21, <1>22, <1>23,
       <1>24, <1>25
       DEF Next, RequestStep, SessionStep, HostStep, Continuation

-----------------------------------------------------------------------------
(* The inductive invariant                                                 *)

LEMMA InitKeepsInv == Init => BrokerInv
  <1> SUFFICES ASSUME Init PROVE BrokerInv
    OBVIOUS
  <1>1. TypeOK
    <2>1. 0 \in 0..MaxGenerations /\ 0 \in 0..MaxScope
      OBVIOUS
    <2>2. QED
      BY <2>1 DEF Init, TypeOK, Stages, Pcs, Gen, Contexts
  <1>2. EntryInv /\ CardsAreOwned /\ DisposalInv
    BY DEF Init, EntryInv, CardsAreOwned, DisposalInv, Active, In, Waiting, Owning
  <1>3. QED
    BY <1>1, <1>2 DEF BrokerInv

LEMMA StepKeepsInv == BrokerInv /\ [Next]_vars => BrokerInv'
  BY StepKeepsTypes, StepKeepsEntries, StepKeepsOwners, StepKeepsDisposal DEF BrokerInv

\* The broker's inductive invariant.
THEOREM BrokerInvariant == Spec => []BrokerInv
  BY InitKeepsInv, StepKeepsInv, PTL DEF Spec

\* No way out of the five sets leaks a lease or keeps one: releaseOnce in
\* #finishAdmission, #finishResponding, #abandon, #abandonAuthorizing, in the late
\* grants of #acquireApprovalLease and in the returns of #makeCapacityAvailable.
THEOREM LeasesAreAccounted == Spec => []LeasesAccounted
  <1>1. BrokerInv => LeasesAccounted
    BY DEF BrokerInv, EntryInv, LeasesAccounted
  <1>2. QED
    BY <1>1, BrokerInvariant, PTL

\* A reservation whose handler gave up waits only for the exit of a process whose
\* pipe is closed (the early returns of lines 1069-1070 and 1087-1088).
THEOREM ReservationsEnd == Spec => []ReservationsAreDriven
  <1>1. BrokerInv => ReservationsAreDriven
    BY DEF BrokerInv, EntryInv, ReservationsAreDriven
  <1>2. QED
    BY <1>1, BrokerInvariant, PTL

\* A card is only ever held for a session that shows its turn (lines 849-897).
THEOREM CardsAreAlwaysOwned == Spec => []CardsAreOwned
  <1>1. BrokerInv => CardsAreOwned
    BY DEF BrokerInv
  <1>2. QED
    BY <1>1, BrokerInvariant, PTL

\* When dispose() resolves the broker is empty (lines 805-843).
THEOREM DisposalLeavesNothing == Spec => []DisposalDrains
  <1>1. BrokerInv => DisposalDrains
    BY DEF BrokerInv, EntryInv, DisposalInv, DisposalDrains, Active, Owning
  <1>2. QED
    BY <1>1, BrokerInvariant, PTL

-----------------------------------------------------------------------------
(* The limit on the entries                                                *)

LEMMA ActiveIsFinite == IsFiniteSet(Active) /\ Cardinality(Active) \in Nat
  BY FS_Subset, FS_CardinalityType DEF Active

\* Only a reservation adds an entry, and only where there is room.
LEMMA EntriesGrowByReservation ==
    ASSUME BrokerInv, [Next]_vars
    PROVE  \/ Active' \subseteq Active
           \/ \E r \in Request : ~Full /\ Active' \subseteq Active \cup {r}
  <1> USE DEF BrokerInv, TypeOK, EntryInv, DisposalInv, In, Active,
              GiveUp, RespondAndRelease, Settle, AbortGeneration, HostLost, Continues,
              hostVars, entryVars, flowVars, cardVars, sessionVars, turnVars, endVars
  <1> DEFINE Goal == \/ Active' \subseteq Active
                     \/ \E r \in Request : ~Full /\ Active' \subseteq Active \cup {r}
  <1>1. ASSUME NEW r \in Request, ServerRequest(r) PROVE Goal
    <2>1. CASE Full
      BY <1>1, <2>1 DEF ServerRequest, Reserve
    <2>2. CASE ~Full
      <3>1. stage' = [stage EXCEPT ![r] = "acquiring"]
        BY <1>1, <2>2 DEF ServerRequest, Reserve
      <3>2. Active' \subseteq Active \cup {r}
        BY <3>1
      <3>3. QED
        BY <2>2, <3>2
    <2>3. QED
      BY <2>1, <2>2
  <1>2. ASSUME NEW r \in Request, MakeCapacity(r) PROVE Active' \subseteq Active
    BY SMTT(40), <1>2 DEF MakeCapacity, Admit, Waits, Collide
  <1>3. ASSUME NEW r \in Request, Continuation(r) PROVE Active' \subseteq Active
    BY <1>2, <1>3 DEF Continuation, LeaseGranted, AcquireRejects, AdmissionResumes,
       EvictionResumes, Admitted, RefusesAdmission, BindsOwner, AuthorizeFile
  <1>4. ASSUME NEW r \in Request,
               \/ Expires(r) \/ TtlTimerFires(r) \/ ResponseSettles(r)
               \/ ResponseTimesOut(r)
               \/ \E v \in 0..MaxScope : ScopeTracked(r, v)
        PROVE  Active' \subseteq Active
    BY <1>4 DEF Expires, TtlTimerFires, ResponseSettles, ResponseTimesOut, ScopeTracked
  <1>41. ASSUME NEW r \in Request, NEW d \in Decisions, DecideResumes(r, d)
         PROVE  Active' \subseteq Active
    BY <1>41 DEF DecideResumes, ScopeDecided, SettleDecided
  <1>42. ASSUME NEW r \in Request, NEW d \in Decisions, NEW s \in Session, Decide(s, r, d)
         PROVE  Active' \subseteq Active
    BY <1>42 DEF Decide, MayDecide, SettleDecided
  <1>5. ASSUME NEW s \in Session, SessionStep(s) PROVE Active' \subseteq Active
    BY SMTT(40), <1>5 DEF SessionStep, Connect, Disconnect, DisposeContext, SetContext, Rebind,
       OwnedSince
  <1>6. CASE HostStep
    <2>1. ASSUME NEW t \in Turn, TurnCompleted(t) PROVE Active' \subseteq Active
      BY <2>1 DEF TurnCompleted, OfTurn
    <2>2. CASE ClientCloses \/ HostStops \/ HostReady
      BY <2>2 DEF ClientCloses, HostStops, HostReady
    <2>3. QED
      BY <1>6, <2>1, <2>2 DEF HostStep
  <1>7. CASE Dispose \/ DisposeDrained
    BY <1>7 DEF Dispose, DisposeDrained
  <1>8. CASE UNCHANGED vars
    BY <1>8 DEF vars
  <1> HIDE DEF BrokerInv, TypeOK, EntryInv, DisposalInv, In, Active, GiveUp,
               RespondAndRelease, Settle, AbortGeneration, HostLost, Continues,
               hostVars, entryVars, flowVars, cardVars, sessionVars, turnVars,
               endVars
  <1>9. QED
    BY <1>1, <1>3, <1>4, <1>41, <1>42, <1>5, <1>6, <1>7, <1>8 DEF Next, RequestStep

LEMMA StepRespectsCapacity ==
    ASSUME BrokerInv, CapacityRespected, [Next]_vars PROVE CapacityRespected'
  <1>1. IsFiniteSet(Active) /\ Cardinality(Active) \in Nat
    BY ActiveIsFinite
  <1>2. CASE Active' \subseteq Active
    <2>1. Cardinality(Active') <= Cardinality(Active)
      BY <1>1, <1>2, FS_Subset
    <2>2. Cardinality(Active') \in Nat
      BY <1>1, <1>2, FS_Subset, FS_CardinalityType
    <2>3. QED
      BY <1>1, <2>1, <2>2 DEF CapacityRespected
  <1>3. CASE \E r \in Request : ~Full /\ Active' \subseteq Active \cup {r}
    <2>1. PICK r \in Request : ~Full /\ Active' \subseteq Active \cup {r}
      BY <1>3
    <2>2. /\ IsFiniteSet(Active \cup {r})
          /\ Cardinality(Active \cup {r}) \in {Cardinality(Active), Cardinality(Active) + 1}
      BY <1>1, FS_AddElement
    <2>3. Cardinality(Active') <= Cardinality(Active \cup {r})
      BY <2>1, <2>2, FS_Subset
    <2>4. Cardinality(Active') \in Nat
      BY <2>1, <2>2, FS_Subset, FS_CardinalityType
    <2>5. Cardinality(Active) < MaxPending
      BY <1>1, <2>1 DEF Full
    <2>6. QED
      BY <1>1, <2>2, <2>3, <2>4, <2>5 DEF CapacityRespected
  <1>4. QED
    BY <1>2, <1>3, EntriesGrowByReservation

\* The five sets together never exceed maxPending (lines 961-990 and 1110-1113).
THEOREM CapacityIsRespected == Spec => []CapacityRespected
  <1>1. Init => CapacityRespected
    <2>1. Init => Active = {}
      BY DEF Init, Active
    <2>2. QED
      BY <2>1, FS_EmptySet DEF CapacityRespected
  <1>2. BrokerInv /\ CapacityRespected /\ [Next]_vars => CapacityRespected'
    BY StepRespectsCapacity
  <1>3. QED
    BY <1>1, <1>2, BrokerInvariant, PTL DEF Spec

-----------------------------------------------------------------------------
(* Acceptances                                                             *)

\* Only a decision of the owner accepts, and only after its last checks.
LEMMA StepAcceptsWhatIsCurrent ==
    ASSUME BrokerInv, [Next]_vars, NEW q \in Request,
           answer[q] = "none", answer'[q] = "accept"
    PROVE  AcceptedAsShown(q)
  <1> USE DEF BrokerInv, TypeOK, EntryInv, CardsAreOwned, In, Owns,
              GiveUp, RespondAndRelease, Settle, AbortGeneration, HostLost, Continues,
              hostVars, entryVars, flowVars, cardVars, sessionVars, turnVars, endVars
  <1>1. ASSUME NEW s \in Session, NEW r \in Request, NEW d \in Decisions, Decide(s, r, d)
        PROVE  AcceptedAsShown(q)
    BY <1>1 DEF Decide, SettleDecided, MayDecide, AcceptedAsShown
  <1>2. ASSUME NEW r \in Request, NEW d \in Decisions, DecideResumes(r, d)
        PROVE  AcceptedAsShown(q)
    BY <1>2 DEF DecideResumes, ScopeDecided, SettleDecided, MayDecide, AcceptedAsShown
  <1>3. ASSUME NEW r \in Request, ServerRequest(r) \/ Continuation(r)
        PROVE  FALSE
    BY SMTT(40), <1>3 DEF ServerRequest, Reserve, Continuation, LeaseGranted, AcquireRejects,
       AdmissionResumes, EvictionResumes, Admitted, RefusesAdmission, BindsOwner,
       AuthorizeFile, Refusals, MakeCapacity, Admit, Waits, Collide
  <1>4. ASSUME NEW r \in Request,
               \/ Expires(r) \/ TtlTimerFires(r) \/ ResponseSettles(r)
               \/ ResponseTimesOut(r)
               \/ \E v \in 0..MaxScope : ScopeTracked(r, v)
        PROVE  FALSE
    BY <1>4 DEF Expires, TtlTimerFires, ResponseSettles, ResponseTimesOut, ScopeTracked
  <1>5. ASSUME NEW s \in Session, SessionStep(s) PROVE FALSE
    BY SMTT(40), <1>5 DEF SessionStep, Connect, Disconnect, DisposeContext, SetContext, Rebind
  <1>6. CASE HostStep \/ Dispose \/ DisposeDrained
    <2>1. ASSUME NEW t \in Turn, TurnCompleted(t) PROVE FALSE
      BY <2>1 DEF TurnCompleted
    <2>2. CASE ClientCloses \/ HostStops \/ HostReady \/ DisposeDrained
      BY <2>2 DEF ClientCloses, HostStops, HostReady, DisposeDrained
    <2>3. CASE Dispose
      BY <2>3 DEF Dispose
    <2>4. QED
      BY <1>6, <2>1, <2>2, <2>3 DEF HostStep
  <1>7. CASE UNCHANGED vars
    BY <1>7 DEF vars
  <1> HIDE DEF BrokerInv, TypeOK, EntryInv, CardsAreOwned, In, Owns, GiveUp,
               RespondAndRelease, Settle, AbortGeneration, HostLost, Continues,
               hostVars, entryVars, flowVars, cardVars, sessionVars, turnVars,
               endVars
  <1>8. QED
    BY <1>1, <1>2, <1>3, <1>4, <1>5, <1>6, <1>7 DEF Next, RequestStep

\* An acceptance is only ever sent for what its owner was shown (lines 899-959).
THEOREM AcceptancesAreCurrent == Spec => AcceptanceIsCurrent
  <1>1. BrokerInv /\ [Next]_vars =>
            [\A r \in Request : answer[r] = "none" /\ answer'[r] = "accept"
                => AcceptedAsShown(r)]_vars
    BY StepAcceptsWhatIsCurrent
  <1>2. QED
    BY <1>1, BrokerInvariant, PTL DEF Spec, AcceptanceIsCurrent
=============================================================================
