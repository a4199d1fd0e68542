-------------------------- MODULE JsonlClientProofs -------------------------
(***************************************************************************)
(* Proofs about JsonlClient, for any limits, any set of server ids and a   *)
(* server that may do anything.                                            *)
(***************************************************************************)
EXTENDS JsonlClient, TLAPS

USE ClientAssumption

\* The ids that are still to be given have no promise.
FreshIsUnused ==
    \A id \in Id : nextRequestId # 0 /\ nextRequestId <= id => outcome[id] = "unused"

\* What the server may still answer waits here, unless its timer fired.
ReceivedIsOpen ==
    closed = Open => \A id \in received : outcome[id] \in {"waiting", "timedOut"}

ClientInv == /\ TypeOK
             /\ AnsweredOnce
             /\ WaitingIsTimed
             /\ FreshIsUnused
             /\ ReceivedIsOpen

-----------------------------------------------------------------------------
\* A shutdown settles what waits and touches nothing else (lines 488-518).
LEMMA ShutdownSettles ==
    ASSUME NEW reason \in Reasons \ {Open},
           NEW o \in [Id -> Outcomes],
           Shutdown(reason, o)
    PROVE  /\ closed' = reason /\ closed' # Open
           /\ outcome' \in [Id -> Outcomes]
           /\ \A id \in Id : outcome'[id] # "waiting"
           /\ \A id \in Id : o[id] # "waiting" => outcome'[id] = o[id]
           /\ pending' = {} /\ timers' = {} /\ inbound' = {}
  <1>1. outcome' = [id \in Id |-> IF o[id] = "waiting" THEN "closed" ELSE o[id]]
    BY DEF Shutdown, Rejected
  <1>2. \A id \in Id : o[id] \in Outcomes
    OBVIOUS
  <1>3. outcome' \in [Id -> Outcomes]
    BY <1>1, <1>2 DEF Outcomes
  <1>4. QED
    BY <1>1, <1>3 DEF Shutdown, Reasons

\* A shutdown keeps the invariant, whatever else the step counts.
LEMMA ShutdownKeepsInv ==
    ASSUME ClientInv,
           NEW reason \in Reasons \ {Open},
           Shutdown(reason, outcome),
           nextRequestId' = nextRequestId,
           received' \subseteq Id, listening' \subseteq ServerId, confirming' \in Nat,
           asked' \in [ServerId -> Nat], answered' \in [ServerId -> Nat],
           breaches' \subseteq Breaches
    PROVE  ClientInv'
  <1>1. outcome \in [Id -> Outcomes]
    BY DEF ClientInv, TypeOK
  <1>2. /\ closed' = reason /\ closed' # Open
        /\ outcome' \in [Id -> Outcomes]
        /\ \A id \in Id : outcome'[id] # "waiting"
        /\ \A id \in Id : outcome[id] # "waiting" => outcome'[id] = outcome[id]
        /\ pending' = {} /\ timers' = {} /\ inbound' = {}
    BY <1>1, ShutdownSettles
  <1>3. TypeOK'
    BY <1>2 DEF ClientInv, TypeOK
  <1>4. AnsweredOnce' /\ WaitingIsTimed' /\ ReceivedIsOpen'
    BY <1>2 DEF AnsweredOnce, WaitingIsTimed, ReceivedIsOpen
  <1>5. FreshIsUnused'
    BY <1>2 DEF ClientInv, FreshIsUnused
  <1>6. QED
    BY <1>3, <1>4, <1>5 DEF ClientInv

\* A step that leaves the client's own requests alone keeps the invariant if it
\* keeps the books of the server's requests.
LEMMA ServerSideKeepsInv ==
    ASSUME ClientInv,
           UNCHANGED <<requestVars, closed>>,
           inbound' \subseteq ServerId, listening' \subseteq ServerId, confirming' \in Nat,
           asked' \in [ServerId -> Nat], answered' \in [ServerId -> Nat],
           breaches' \subseteq Breaches,
           AnsweredOnce'
    PROVE  ClientInv'
  <1>1. TypeOK'
    BY DEF ClientInv, TypeOK, requestVars
  <1>2. WaitingIsTimed' /\ FreshIsUnused' /\ ReceivedIsOpen'
    BY DEF ClientInv, WaitingIsTimed, FreshIsUnused, ReceivedIsOpen, requestVars
  <1>3. QED
    BY <1>1, <1>2 DEF ClientInv

-----------------------------------------------------------------------------
(* Requests of the client                                                  *)

LEMMA InitKeepsInv == Init => ClientInv
  <1> SUFFICES ASSUME Init PROVE ClientInv
    OBVIOUS
  <1>1. TypeOK
    BY DEF Init, TypeOK, Id, Outcomes, Reasons, Breaches
  <1>2. AnsweredOnce /\ WaitingIsTimed /\ FreshIsUnused /\ ReceivedIsOpen
    BY DEF Init, AnsweredOnce, WaitingIsTimed, FreshIsUnused, ReceivedIsOpen
  <1>3. QED
    BY <1>1, <1>2 DEF ClientInv

LEMMA RequestKeepsInv == ClientInv /\ Request => ClientInv'
  <1> SUFFICES ASSUME ClientInv, Request PROVE ClientInv'
    OBVIOUS
  <1> DEFINE id == nextRequestId
             o == [outcome EXCEPT ![id] = "waiting"]
  <1>1. id \in Id /\ outcome[id] = "unused" /\ outcome \in [Id -> Outcomes]
    BY DEF ClientInv, TypeOK, FreshIsUnused, Request, Id
  <1>2. o \in [Id -> Outcomes] /\ o[id] = "waiting"
    BY <1>1 DEF Outcomes
  <1>3. \A n \in Id \ {id} : o[n] = outcome[n]
    BY <1>1
  <1>4. nextRequestId' = NextId(id) /\ nextRequestId' \in 0..MaxRequestId
    BY <1>1 DEF Request, NextId, Id
  <1>5. \A n \in Id : nextRequestId' # 0 /\ nextRequestId' <= n
                        => o[n] = "unused" /\ outcome[n] = "unused"
    <2>1. \A n \in Id : nextRequestId' # 0 /\ nextRequestId' <= n => n # id /\ id <= n
      BY <1>1, <1>4 DEF NextId, Id
    <2>2. id # 0
      BY <1>1 DEF Id
    <2>3. QED
      BY <1>3, <2>1, <2>2 DEF ClientInv, FreshIsUnused
  <1>6. UNCHANGED <<asked, answered, listening, confirming, breaches>>
    BY DEF Request
  <1>7. CASE /\ pending' = pending \cup {id}
             /\ timers' = timers \cup TimerOf(id)
             /\ outcome' = o
             /\ received' \in {received, received \cup {id}}
             /\ UNCHANGED <<inbound, closed>>
    <2>1. TypeOK'
      BY <1>1, <1>2, <1>4, <1>6, <1>7 DEF ClientInv, TypeOK, TimerOf
    <2>2. WaitingIsTimed'
      <3> SUFFICES ASSUME NEW n \in Id
                   PROVE  /\ outcome'[n] = "waiting" <=> n \in pending'
                          /\ n \in pending' <=> n \in timers'
        BY DEF WaitingIsTimed
      <3>1. CASE n = id
        BY <3>1, <1>2, <1>7 DEF TimerOf
      <3>2. CASE n # id
        BY <3>2, <1>3, <1>7 DEF ClientInv, WaitingIsTimed, TimerOf
      <3>3. QED
        BY <3>1, <3>2
    <2>3. AnsweredOnce'
      BY <1>6, <1>7 DEF ClientInv, AnsweredOnce
    <2>4. FreshIsUnused'
      BY <1>5, <1>7 DEF FreshIsUnused
    <2>5. ReceivedIsOpen'
      BY <1>2, <1>3, <1>7 DEF ClientInv, ReceivedIsOpen, TypeOK
    <2>6. QED
      BY <2>1, <2>2, <2>3, <2>4, <2>5 DEF ClientInv
  <1>8. CASE Shutdown("write", o) /\ UNCHANGED received
    <2>1. "write" \in Reasons \ {Open}
      BY DEF Reasons, Open
    <2>2. /\ closed' = "write" /\ closed' # Open
          /\ outcome' \in [Id -> Outcomes]
          /\ \A n \in Id : outcome'[n] # "waiting"
          /\ \A n \in Id : o[n] # "waiting" => outcome'[n] = o[n]
          /\ pending' = {} /\ timers' = {} /\ inbound' = {}
      BY <1>2, <1>8, <2>1, ShutdownSettles
    <2>3. TypeOK'
      BY <1>4, <1>6, <1>8, <2>2, <2>1 DEF ClientInv, TypeOK
    <2>4. AnsweredOnce' /\ WaitingIsTimed' /\ ReceivedIsOpen'
      BY <2>2 DEF AnsweredOnce, WaitingIsTimed, ReceivedIsOpen
    <2>5. FreshIsUnused'
      <3> SUFFICES ASSUME NEW n \in Id, nextRequestId' # 0, nextRequestId' <= n
                   PROVE  outcome'[n] = "unused"
        BY DEF FreshIsUnused
      <3>1. o[n] = "unused"
        BY <1>5
      <3>2. QED
        BY <2>2, <3>1
    <2>6. QED
      BY <2>3, <2>4, <2>5 DEF ClientInv
  <1>9. QED
    BY <1>7, <1>8 DEF Request

LEMMA TimesOutKeepsInv ==
    ASSUME ClientInv, NEW id \in Id, TimesOut(id) PROVE ClientInv'
  <1>1. id \in pending /\ outcome[id] = "waiting"
    BY DEF ClientInv, WaitingIsTimed, TimesOut
  <1>2. outcome' = [outcome EXCEPT ![id] = "timedOut"]
    BY <1>1 DEF TimesOut
  <1>3. TypeOK'
    BY <1>2 DEF ClientInv, TypeOK, TimesOut, serverVars, Outcomes
  <1>4. WaitingIsTimed'
    BY <1>2 DEF ClientInv, WaitingIsTimed, TypeOK, TimesOut
  <1>5. AnsweredOnce'
    BY DEF ClientInv, AnsweredOnce, TimesOut, serverVars
  <1>6. FreshIsUnused'
    BY <1>1, <1>2 DEF ClientInv, FreshIsUnused, TypeOK, TimesOut
  <1>7. ReceivedIsOpen'
    BY <1>2 DEF ClientInv, ReceivedIsOpen, TypeOK, TimesOut
  <1>8. QED
    BY <1>3, <1>4, <1>5, <1>6, <1>7 DEF ClientInv

LEMMA ResponseKeepsInv ==
    ASSUME ClientInv, NEW id \in Id, Response(id) PROVE ClientInv'
  <1>0. breaches' \subseteq Breaches
    BY DEF ClientInv, TypeOK, Response, AnswerBreaches, Breaches
  <1>1. CASE id \in pending
    <2>1. outcome[id] = "waiting"
      BY <1>1 DEF ClientInv, WaitingIsTimed
    <2>2. outcome' = [outcome EXCEPT ![id] = "answered"]
      BY <1>1 DEF Response
    <2>3. TypeOK'
      BY <1>0, <1>1, <2>2 DEF ClientInv, TypeOK, Response, Outcomes
    <2>4. WaitingIsTimed'
      BY <1>1, <2>2 DEF ClientInv, WaitingIsTimed, TypeOK, Response
    <2>5. AnsweredOnce'
      BY <1>1 DEF ClientInv, AnsweredOnce, Response
    <2>6. FreshIsUnused'
      BY <2>1, <2>2 DEF ClientInv, FreshIsUnused, TypeOK, Response
    <2>7. ReceivedIsOpen'
      BY <1>1, <2>2 DEF ClientInv, ReceivedIsOpen, TypeOK, Response
    <2>8. QED
      BY <2>3, <2>4, <2>5, <2>6, <2>7 DEF ClientInv
  <1>2. CASE id \notin pending
    <2>1. Shutdown("protocol", outcome) /\ "protocol" \in Reasons \ {Open}
      BY <1>2 DEF Response, Reasons, Open
    <2>2. QED
      BY <1>0, <2>1, ShutdownKeepsInv DEF ClientInv, TypeOK, Response
  <1>3. QED
    BY <1>1, <1>2

-----------------------------------------------------------------------------
(* Requests of the server                                                  *)

LEMMA WriteIsAReason == "write" \in Reasons \ {Open} /\ "protocol" \in Reasons \ {Open}
  BY DEF Reasons, Open

\* An answer to an owned request keeps the invariant, whether it is written or not.
LEMMA AnswersKeepInv ==
    ASSUME ClientInv, NEW i \in inbound, Answers(i), asked' = asked, breaches' = breaches,
           listening' \subseteq ServerId, confirming' \in Nat
    PROVE  ClientInv'
  <1>1. i \in ServerId /\ answered' = [answered EXCEPT ![i] = @ + 1]
    BY DEF ClientInv, TypeOK, Answers, Consumes
  <1>2. /\ asked' \in [ServerId -> Nat] /\ answered' \in [ServerId -> Nat]
        /\ breaches' \subseteq Breaches
    BY <1>1 DEF ClientInv, TypeOK
  <1>3. CASE Consumes(i) /\ UNCHANGED <<requestVars, closed>>
    <2>1. inbound' = inbound \ {i}
      BY <1>3 DEF Consumes
    <2>2. AnsweredOnce'
      <3> SUFFICES ASSUME closed = Open, NEW j \in ServerId
                   PROVE  asked[j] = answered'[j] + (IF j \in inbound' THEN 1 ELSE 0)
        BY <1>3 DEF AnsweredOnce
      <3>1. asked[j] = answered[j] + (IF j \in inbound THEN 1 ELSE 0)
        BY DEF ClientInv, AnsweredOnce
      <3>2. asked[j] \in Nat /\ answered[j] \in Nat
        BY DEF ClientInv, TypeOK
      <3>3. CASE j = i
        BY <1>1, <2>1, <3>1, <3>2, <3>3 DEF ClientInv, TypeOK
      <3>4. CASE j # i
        BY <1>1, <2>1, <3>1, <3>4 DEF ClientInv, TypeOK
      <3>5. QED
        BY <3>3, <3>4
    <2>3. inbound' \subseteq ServerId
      BY <2>1 DEF ClientInv, TypeOK
    <2>4. QED
      BY <1>2, <1>3, <2>2, <2>3, ServerSideKeepsInv
  <1>4. CASE Shutdown("write", outcome) /\ UNCHANGED <<nextRequestId, received>>
    BY <1>2, <1>4, WriteIsAReason, ShutdownKeepsInv DEF ClientInv, TypeOK
  <1>5. QED
    BY <1>3, <1>4 DEF Answers

LEMMA ServerRequestKeptKeepsInv ==
    ASSUME ClientInv, NEW i \in ServerId, ServerRequestKept(i) PROVE ClientInv'
  <1>1. /\ asked' = [asked EXCEPT ![i] = @ + 1]
        /\ UNCHANGED <<answered, confirming>>
        /\ breaches' \subseteq Breaches
    BY DEF ServerRequestKept, Asks, ClientInv, TypeOK, Breaches
  <1>2. /\ asked' \in [ServerId -> Nat] /\ answered' \in [ServerId -> Nat]
        /\ confirming' \in Nat
    BY <1>1 DEF ClientInv, TypeOK
  <1>3. CASE MayRegister(i)
    <2>1. /\ i \notin inbound
          /\ inbound' = inbound \cup {i}
          /\ listening' \subseteq ServerId
          /\ UNCHANGED <<requestVars, closed>>
      BY <1>3 DEF ServerRequestKept, ListenersRun, MayRegister, ClientInv, TypeOK
    <2>2. AnsweredOnce'
      <3> SUFFICES ASSUME closed = Open, NEW j \in ServerId
                   PROVE  asked'[j] = answered[j] + (IF j \in inbound' THEN 1 ELSE 0)
        BY <1>1, <2>1 DEF AnsweredOnce
      <3>1. asked[j] = answered[j] + (IF j \in inbound THEN 1 ELSE 0)
        BY DEF ClientInv, AnsweredOnce
      <3>2. CASE j = i
        BY <1>1, <2>1, <3>1, <3>2 DEF ClientInv, TypeOK
      <3>3. CASE j # i
        BY <1>1, <2>1, <3>1, <3>3 DEF ClientInv, TypeOK
      <3>4. QED
        BY <3>2, <3>3
    <2>3. inbound' \subseteq ServerId
      BY <2>1 DEF ClientInv, TypeOK
    <2>4. QED
      BY <1>1, <1>2, <2>1, <2>2, <2>3, ServerSideKeepsInv
  <1>4. CASE ~MayRegister(i)
    <2>1. Shutdown("protocol", outcome) /\ UNCHANGED <<nextRequestId, received, listening>>
      BY <1>4 DEF ServerRequestKept
    <2>2. QED
      BY <1>1, <1>2, <2>1, WriteIsAReason, ShutdownKeepsInv DEF ClientInv, TypeOK
  <1>5. QED
    BY <1>3, <1>4

LEMMA ServerRequestAnsweredKeepsInv ==
    ASSUME ClientInv, NEW i \in ServerId, ServerRequestAnswered(i) PROVE ClientInv'
  <1>1. /\ asked' = [asked EXCEPT ![i] = @ + 1]
        /\ answered' = [answered EXCEPT ![i] = @ + 1]
        /\ listening' \subseteq ServerId
        /\ breaches' \subseteq Breaches
    BY DEF ServerRequestAnswered, Asks, ListenersRun, ClientInv, TypeOK, Breaches
  <1>2. asked' \in [ServerId -> Nat] /\ answered' \in [ServerId -> Nat]
    BY <1>1 DEF ClientInv, TypeOK
  <1>3. CASE /\ confirming' \in {confirming, confirming + 1}
             /\ UNCHANGED <<requestVars, inbound, closed>>
    <2>1. AnsweredOnce'
      <3> SUFFICES ASSUME closed = Open, NEW j \in ServerId
                   PROVE  asked'[j] = answered'[j] + (IF j \in inbound THEN 1 ELSE 0)
        BY <1>3 DEF AnsweredOnce
      <3>1. asked[j] = answered[j] + (IF j \in inbound THEN 1 ELSE 0)
        BY DEF ClientInv, AnsweredOnce
      <3>2. asked[j] \in Nat /\ answered[j] \in Nat
        BY DEF ClientInv, TypeOK
      <3>3. CASE j = i
        BY <1>1, <3>1, <3>2, <3>3 DEF ClientInv, TypeOK
      <3>4. CASE j # i
        BY <1>1, <3>1, <3>4 DEF ClientInv, TypeOK
      <3>5. QED
        BY <3>3, <3>4
    <2>2. inbound' \subseteq ServerId /\ confirming' \in Nat
      BY <1>3 DEF ClientInv, TypeOK
    <2>3. QED
      BY <1>1, <1>2, <1>3, <2>1, <2>2, ServerSideKeepsInv
  <1>4. CASE /\ Shutdown("write", outcome)
             /\ UNCHANGED <<nextRequestId, received, confirming>>
    BY <1>1, <1>2, <1>4, WriteIsAReason, ShutdownKeepsInv DEF ClientInv, TypeOK
  <1>5. QED
    BY <1>3, <1>4 DEF ServerRequestAnswered

LEMMA ListenerKeepsInv ==
    ASSUME ClientInv, NEW i \in ServerId, ListenerRejects(i) \/ ListenerResolves(i)
    PROVE  ClientInv'
  <1>1. /\ asked' = asked /\ confirming' = confirming /\ confirming' \in Nat
        /\ breaches' = breaches
    BY DEF ListenerRejects, ListenerResolves, ClientInv, TypeOK
  <1>2. listening' \subseteq ServerId
    BY DEF ListenerRejects, ListenerResolves, ClientInv, TypeOK
  <1>3. CASE ListenerRejects(i) /\ Owns(i)
    BY <1>1, <1>2, <1>3, AnswersKeepInv DEF ListenerRejects, Owns
  <1>4. CASE UNCHANGED <<requestVars, inbound, answered, closed>>
    <2>1. AnsweredOnce'
      BY <1>1, <1>4 DEF ClientInv, AnsweredOnce
    <2>2. QED
      BY <1>1, <1>2, <1>4, <2>1, ServerSideKeepsInv DEF ClientInv, TypeOK
  <1>5. QED
    BY <1>3, <1>4 DEF ListenerRejects, ListenerResolves

LEMMA RespondKeepsInv ==
    ASSUME ClientInv, NEW i \in ServerId, Respond(i) \/ RespondConfirmed(i)
    PROVE  ClientInv'
  <1>1. i \in inbound /\ asked' = asked /\ listening' = listening /\ breaches' = breaches
    BY DEF Respond, RespondConfirmed
  <1>2. listening' \subseteq ServerId
    BY <1>1 DEF ClientInv, TypeOK
  <1>3. confirming' \in Nat
    BY DEF Respond, RespondConfirmed, ClientInv, TypeOK
  <1>4. Answers(i)
    BY DEF Respond, RespondConfirmed, Answers
  <1>5. QED
    BY <1>1, <1>2, <1>3, <1>4, AnswersKeepInv

-----------------------------------------------------------------------------
(* Writes and the end of the connection                                    *)

LEMMA WriteKeepsInv == ClientInv /\ WriteStep => ClientInv'
  <1> SUFFICES ASSUME ClientInv, WriteStep PROVE ClientInv'
    OBVIOUS
  <1>1. UNCHANGED <<asked, answered, listening, breaches>> /\ confirming' \in Nat
    BY DEF WriteStep, Notify, ConfirmedWriteSettles, ClientInv, TypeOK
  <1>2. CASE UNCHANGED <<requestVars, inbound, closed>>
    <2>1. AnsweredOnce'
      BY <1>1, <1>2 DEF ClientInv, AnsweredOnce
    <2>2. QED
      BY <1>1, <1>2, <2>1, ServerSideKeepsInv DEF ClientInv, TypeOK
  <1>3. CASE Shutdown("write", outcome) /\ UNCHANGED <<nextRequestId, received>>
    BY <1>1, <1>3, WriteIsAReason, ShutdownKeepsInv DEF ClientInv, TypeOK
  <1>4. QED
    BY <1>2, <1>3 DEF WriteStep, Notify, ConfirmedWriteSettles

LEMMA CloseKeepsInv == ClientInv /\ CloseStep => ClientInv'
  <1> SUFFICES ASSUME ClientInv, CloseStep PROVE ClientInv'
    OBVIOUS
  <1>1. PICK reason \in Reasons \ {Open} : Shutdown(reason, outcome)
    BY DEF CloseStep, MalformedData, TransportExits, Dispose, Reasons, Open
  <1>2. /\ UNCHANGED <<nextRequestId, received, asked, answered, listening, confirming>>
        /\ breaches' \subseteq Breaches
    BY DEF CloseStep, MalformedData, TransportExits, Dispose, ClientInv, TypeOK, Breaches
  <1>3. QED
    BY <1>1, <1>2, ShutdownKeepsInv DEF ClientInv, TypeOK

LEMMA StepKeepsInv == ClientInv /\ [Next]_vars => ClientInv'
  <1> SUFFICES ASSUME ClientInv, [Next]_vars PROVE ClientInv'
    OBVIOUS
  <1>1. CASE RequestStep
    BY <1>1, RequestKeepsInv, TimesOutKeepsInv, ResponseKeepsInv DEF RequestStep
  <1>2. CASE ServerStep
    BY <1>2, ServerRequestKeptKeepsInv, ServerRequestAnsweredKeepsInv,
       RespondKeepsInv, ListenerKeepsInv DEF ServerStep
  <1>3. CASE WriteStep
    BY <1>3, WriteKeepsInv
  <1>4. CASE CloseStep
    BY <1>4, CloseKeepsInv
  <1>5. CASE UNCHANGED vars
    BY <1>5 DEF vars, ClientInv, TypeOK, AnsweredOnce, WaitingIsTimed, FreshIsUnused,
                ReceivedIsOpen
  <1>6. QED
    BY <1>1, <1>2, <1>3, <1>4, <1>5 DEF Next

\* The client's inductive invariant.
THEOREM ClientInvariant == Spec => []ClientInv
  BY InitKeepsInv, StepKeepsInv, PTL DEF Spec

\* Every request of the server is owned or was answered exactly once, while the
\* client is open: consumeServerRequest is single-use (lines 369-383).
THEOREM ServerRequestsAnsweredOnce == Spec => []AnsweredOnce
  <1>1. ClientInv => AnsweredOnce
    BY DEF ClientInv
  <1>2. QED
    BY <1>1, ClientInvariant, PTL

\* A promise that waits has an entry and an armed timer, and nothing else has one
\* (lines 142-156, 305-306 and 497-503).
THEOREM WaitingRequestsAreTimed == Spec => []WaitingIsTimed
  <1>1. ClientInv => WaitingIsTimed
    BY DEF ClientInv
  <1>2. QED
    BY <1>1, ClientInvariant, PTL

-----------------------------------------------------------------------------
(* Settled promises                                                        *)

\* A step settles only what waits or what it has just issued.
LEMMA StepSettlesOnce ==
    ASSUME ClientInv, [Next]_vars, NEW id \in Id,
           outcome[id] \in {"answered", "timedOut", "closed"}
    PROVE  outcome'[id] = outcome[id]
  <1>0. outcome \in [Id -> Outcomes] /\ outcome[id] # "waiting" /\ id \notin pending
    BY DEF ClientInv, TypeOK, WaitingIsTimed
  <1>1. ASSUME NEW reason \in Reasons \ {Open}, Shutdown(reason, outcome)
        PROVE  outcome'[id] = outcome[id]
    BY <1>0, <1>1, ShutdownSettles
  <1>2. CASE Request
    <2> DEFINE o == [outcome EXCEPT ![nextRequestId] = "waiting"]
    <2>1. nextRequestId \in Id /\ id # nextRequestId
      BY <1>2 DEF ClientInv, TypeOK, FreshIsUnused, Request, Id
    <2>2. o \in [Id -> Outcomes] /\ o[id] = outcome[id]
      BY <1>0, <2>1 DEF Outcomes
    <2>3. outcome' = o \/ Shutdown("write", o)
      BY <1>2 DEF Request
    <2>4. CASE Shutdown("write", o)
      BY <1>0, <2>2, <2>4, WriteIsAReason, ShutdownSettles
    <2>5. QED
      BY <2>2, <2>3, <2>4
  <1>3. ASSUME NEW n \in Id, TimesOut(n) \/ Response(n)
        PROVE  outcome'[id] = outcome[id]
    <2>1. CASE Shutdown("protocol", outcome)
      BY <1>1, <2>1, WriteIsAReason
    <2>2. CASE n # id /\ \E v \in Outcomes : outcome' = [outcome EXCEPT ![n] = v]
      BY <1>0, <2>2
    <2>3. CASE TimesOut(n)
      <3>1. n \in pending
        BY <2>3 DEF ClientInv, WaitingIsTimed, TimesOut
      <3>2. outcome' = [outcome EXCEPT ![n] = "timedOut"]
        BY <2>3, <3>1 DEF TimesOut
      <3>3. QED
        BY <1>0, <3>1, <3>2
    <2>4. CASE Response(n)
      BY <1>0, <2>1, <2>4 DEF Response
    <2>5. QED
      BY <1>3, <2>3, <2>4
  <1>4. CASE ServerStep \/ WriteStep \/ CloseStep
    <2>1. outcome' = outcome \/ \E reason \in Reasons \ {Open} : Shutdown(reason, outcome)
      BY <1>4, WriteIsAReason
         DEF ServerStep, WriteStep, CloseStep, ServerRequestKept, ServerRequestAnswered,
             Respond, RespondConfirmed, ListenerRejects, ListenerResolves, Answers, Notify,
             ConfirmedWriteSettles, MalformedData, TransportExits, Dispose, requestVars,
             Reasons, Open
    <2>2. QED
      BY <1>1, <2>1
  <1>5. CASE UNCHANGED vars
    BY <1>5 DEF vars
  <1>6. QED
    BY <1>2, <1>3, <1>4, <1>5 DEF Next, RequestStep

\* No late answer, timer or shutdown settles a promise a second time.
THEOREM RequestsSettleOnce == Spec => SettlesOnce
  <1>1. ClientInv /\ [Next]_vars =>
            [\A id \in Id : outcome[id] \in {"answered", "timedOut", "closed"}
                => outcome'[id] = outcome[id]]_vars
    BY StepSettlesOnce
  <1>2. QED
    BY <1>1, ClientInvariant, PTL DEF Spec, SettlesOnce

-----------------------------------------------------------------------------
(* The honest server                                                       *)

\* The requests an honest server has open are the ones the client owns.
LEMMA UnansweredIsOwned ==
    ASSUME ClientInv, closed = Open PROVE Unanswered = inbound
  <1>1. \A i \in ServerId : asked[i] \in Nat /\ answered[i] \in Nat
    BY DEF ClientInv, TypeOK
  <1>2. inbound \subseteq ServerId
    BY DEF ClientInv, TypeOK
  <1>3. \A i \in ServerId : asked[i] # answered[i] <=> i \in inbound
    BY <1>1 DEF ClientInv, AnsweredOnce
  <1>4. QED
    BY <1>2, <1>3 DEF Unanswered

LEMMA StepKeepsHonestServer ==
    ASSUME ClientInv, HonestServerIsKept, [Next]_vars
    PROVE  HonestServerIsKept'
  <1>1. ASSUME NEW id \in Id, Response(id) PROVE HonestServerIsKept'
    <2>1. SUFFICES ASSUME breaches' = {} PROVE id \in pending
      BY <1>1 DEF Response, HonestServerIsKept, Open
    <2>2. closed = Open /\ id \in received /\ outcome[id] # "timedOut"
      BY <1>1, <2>1 DEF Response, AnswerBreaches
    <2>3. QED
      BY <2>2 DEF ClientInv, ReceivedIsOpen, WaitingIsTimed
  <1>2. ASSUME NEW i \in ServerId, ServerRequestKept(i) PROVE HonestServerIsKept'
    <2>1. SUFFICES ASSUME breaches' = {} PROVE MayRegister(i)
      BY <1>2 DEF ServerRequestKept, HonestServerIsKept, Open
    <2>2. closed = Open /\ i \notin Unanswered /\ Cardinality(Unanswered) < MaxPending
      BY <1>2, <2>1 DEF ServerRequestKept, Asks
    <2>3. inbound = Unanswered
      BY <2>2, UnansweredIsOwned
    <2>4. QED
      BY <2>2, <2>3 DEF MayRegister
  <1>3. CASE MalformedData
    BY <1>3 DEF MalformedData, HonestServerIsKept
  <1>4. CASE \/ Request \/ WriteStep \/ TransportExits \/ Dispose
             \/ \E id \in Id : TimesOut(id)
             \/ \E i \in ServerId : \/ ServerRequestAnswered(i)
                                    \/ Respond(i) \/ RespondConfirmed(i)
                                    \/ ListenerRejects(i) \/ ListenerResolves(i)
    <2>1. closed' \in {closed, "write", "exit", "dispose"} /\ breaches \subseteq breaches'
      BY <1>4 DEF Request, WriteStep, TimesOut, ServerRequestAnswered, Asks, Respond,
                  RespondConfirmed, ListenerRejects, ListenerResolves, Answers, Notify,
                  ConfirmedWriteSettles, TransportExits, Dispose, Shutdown
    <2>2. QED
      BY <2>1 DEF HonestServerIsKept
  <1>5. CASE UNCHANGED vars
    BY <1>5 DEF vars, HonestServerIsKept
  <1>6. QED
    BY <1>1, <1>2, <1>3, <1>4, <1>5 DEF Next, RequestStep, ServerStep, CloseStep

\* Only a server that answers twice or late, or does not keep its own requests
\* apart and within the limit, is shut down as a broken one.
THEOREM HonestServersAreKept == Spec => []HonestServerIsKept
  <1>1. Init => HonestServerIsKept
    BY DEF Init, HonestServerIsKept, Open
  <1>2. ClientInv /\ HonestServerIsKept /\ [Next]_vars => HonestServerIsKept'
    BY StepKeepsHonestServer
  <1>3. QED
    BY <1>1, <1>2, ClientInvariant, PTL DEF Spec
=============================================================================
