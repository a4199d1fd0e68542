----------------------------- MODULE JsonlClient ----------------------------
(***************************************************************************)
(* The JSON-RPC client of one App Server connection: class                 *)
(* RideCodexJsonlClient of ride-codex-jsonl-client.ts, with the server at  *)
(* the other end of the pipe as its environment.                           *)
(*                                                                         *)
(* Requests of the client are correlated with responses by number and      *)
(* bounded by a timer each; requests of the server are owned until one     *)
(* answer consumes them; anything unexpected shuts the whole client down.  *)
(* Each action is one task: a call of the API, a message of a data chunk   *)
(* with the listeners it runs, a timer, or a settled write.                *)
(***************************************************************************)
EXTENDS Naturals, FiniteSets

CONSTANTS
    MaxRequestId,       \* Number.MAX_SAFE_INTEGER: the last id a request may use
    MaxPending,         \* maxPending, for either direction
    ServerId,           \* the ids the server gives to its own requests
    MaxAsks             \* bound on the requests the server makes under one id, and on
                        \* the notifications whose write is not settled

ASSUME ClientAssumption ==
    /\ MaxRequestId \in Nat \ {0}
    /\ MaxPending \in Nat \ {0}
    /\ MaxAsks \in Nat

Id == 1..MaxRequestId

VARIABLES
    nextRequestId,      \* nextRequestId, 0 for `undefined'
    pending,            \* the keys of `pending'
    timers,             \* the requests whose timer is armed
    outcome,            \* how the promise of each request stands
    inbound,            \* the keys of inboundRequests
    asked,              \* requests the server made, by id
    answered,           \* answers that consumed one, by id
    listening,          \* server requests a listener's promise still handles
    confirming,         \* number of answers whose confirmed write is not settled
    closed,             \* closed, with what closed it
    received,           \* requests the server received and did not answer
    breaches            \* what the server has done that an honest one never does

vars == <<nextRequestId, pending, timers, outcome, inbound, asked, answered,
          listening, confirming, closed, received, breaches>>

requestVars == <<nextRequestId, pending, timers, outcome, received>>
serverVars == <<inbound, asked, answered, listening, confirming>>

Outcomes == {"unused", "waiting", "answered", "timedOut", "closed"}
Open == "no"
Breaches == {"unfit", "late"}
Reasons == {Open, "protocol", "write", "exit", "dispose"}

Init ==
    /\ nextRequestId = 1
    /\ pending = {} /\ timers = {} /\ received = {}
    /\ outcome = [id \in Id |-> "unused"]
    /\ inbound = {} /\ listening = {} /\ confirming = 0
    /\ asked = [i \in ServerId |-> 0]
    /\ answered = [i \in ServerId |-> 0]
    /\ closed = Open
    /\ breaches = {}

-----------------------------------------------------------------------------
(* shutdown                                                                *)

RejectedNone(o) == o

\* Every pending request is rejected.
Rejected(o) == [id \in Id |-> IF o[id] = "waiting" THEN "closed" ELSE o[id]]

\* o is the outcome of the requests as the step leaves them.
Shutdown(reason, o) ==
    /\ closed' = reason
    /\ pending' = {} /\ timers' = {} /\ inbound' = {}
    /\ outcome' = Rejected(o)

-----------------------------------------------------------------------------
(* Requests of the client                                                  *)

NextIdWraps(id) == (id % MaxRequestId) + 1

\* 0 is `undefined': the id space is exhausted.
NextId(id) == IF id = MaxRequestId THEN 0 ELSE id + 1

\* The timer that setTimeout arms for a request.
TimerOf(id) == {id}

\* A request within its limits; the transport takes it, loses it, or throws.
Request ==
    /\ closed = Open
    /\ nextRequestId # 0
    /\ Cardinality(pending) < MaxPending
    /\ LET id == nextRequestId
           o == [outcome EXCEPT ![id] = "waiting"]
       IN  /\ nextRequestId' = NextId(id)
           /\ \/ /\ pending' = pending \cup {id}
                 /\ timers' = timers \cup TimerOf(id)
                 /\ outcome' = o
                 /\ received' \in {received, received \cup {id}}
                 /\ UNCHANGED <<inbound, closed>>
              \/ /\ Shutdown("write", o)
                 /\ UNCHANGED received
    /\ UNCHANGED <<asked, answered, listening, confirming, breaches>>

TimesOut(id) ==
    /\ id \in timers
    /\ timers' = timers \ {id}
    /\ pending' = pending \ {id}
    /\ outcome' = [outcome EXCEPT ![id] = IF id \in pending THEN "timedOut" ELSE @]
    /\ UNCHANGED <<nextRequestId, received, serverVars, closed, breaches>>

\* An honest server answers what it received, once, and before the timeout.
AnswerBreaches(id) ==
    (IF id \in received THEN {} ELSE {"unfit"})
        \cup (IF outcome[id] = "timedOut" THEN {"late"} ELSE {})

\* A response, or a remote error, settles the request it names.
Response(id) ==
    /\ closed = Open
    /\ received' = received \ {id}
    /\ breaches' = breaches \cup AnswerBreaches(id)
    /\ IF id \in pending
       THEN /\ pending' = pending \ {id}
            /\ timers' = timers \ {id}
            /\ outcome' = [outcome EXCEPT ![id] = "answered"]
            /\ UNCHANGED <<inbound, closed>>
       ELSE Shutdown("protocol", outcome)
    /\ UNCHANGED <<nextRequestId, asked, answered, listening, confirming>>

-----------------------------------------------------------------------------
(* Requests of the server                                                  *)

ConsumesKept(i) == /\ inbound' = inbound
                   /\ answered' = [answered EXCEPT ![i] = @ + 1]

\* consumeServerRequest: one answer takes the authority to answer away.
Consumes(i) == /\ inbound' = inbound \ {i}
               /\ answered' = [answered EXCEPT ![i] = @ + 1]

\* The payload of an answer is written, or the write throws and shuts down.
Answers(i) ==
    \/ /\ Consumes(i)
       /\ UNCHANGED <<requestVars, closed>>
    \/ /\ Shutdown("write", outcome)
       /\ answered' = [answered EXCEPT ![i] = @ + 1]
       /\ UNCHANGED <<nextRequestId, received>>

\* registerServerRequest: no duplicate, and a limit.
MayRegister(i) == i \notin inbound /\ Cardinality(inbound) < MaxPending

Unanswered == {i \in ServerId : asked[i] # answered[i]}

\* An honest server asks under an id it does not use, within the limit.
Asks(i) ==
    /\ asked[i] < MaxAsks
    /\ asked' = [asked EXCEPT ![i] = @ + 1]
    /\ breaches' = breaches \cup
         (IF i \notin Unanswered /\ Cardinality(Unanswered) < MaxPending THEN {} ELSE {"unfit"})

\* A listener's promise stays behind, of this request or of another.
ListenersRun(i) == listening' \in {listening, listening \cup {i}}

\* The request is refused, or kept: no listener failed or answered it yet.
ServerRequestKept(i) ==
    /\ closed = Open
    /\ Asks(i)
    /\ IF MayRegister(i)
       THEN /\ inbound' = inbound \cup {i}
            /\ ListenersRun(i)
            /\ UNCHANGED <<requestVars, closed>>
       ELSE /\ Shutdown("protocol", outcome)
            /\ UNCHANGED <<nextRequestId, received, listening>>
    /\ UNCHANGED <<answered, confirming>>

\* The request is answered at once: not reviewed, not delivered, answered by a
\* listener, or a listener threw. The write may throw.
ServerRequestAnswered(i) ==
    /\ closed = Open
    /\ Asks(i)
    /\ MayRegister(i)
    /\ answered' = [answered EXCEPT ![i] = @ + 1]
    /\ \/ /\ confirming' \in {confirming, confirming + 1}
          /\ UNCHANGED <<requestVars, inbound, closed>>
       \/ /\ Shutdown("write", outcome)
          /\ UNCHANGED <<nextRequestId, received, confirming>>
    /\ ListenersRun(i)

\* respond and respondError: a request that nobody owns cannot be answered.
Respond(i) ==
    /\ closed = Open
    /\ i \in inbound
    /\ Answers(i)
    /\ UNCHANGED <<asked, listening, confirming, breaches>>

\* respondConfirmed: the write is under way.
RespondConfirmed(i) ==
    /\ closed = Open
    /\ i \in inbound
    /\ \/ /\ Consumes(i)
          /\ confirming' = confirming + 1
          /\ UNCHANGED <<requestVars, closed>>
       \/ /\ Shutdown("write", outcome)
          /\ answered' = [answered EXCEPT ![i] = @ + 1]
          /\ UNCHANGED <<nextRequestId, received, confirming>>
    /\ UNCHANGED <<asked, listening, breaches>>

ConfirmedWriteSettles(ok) ==
    /\ confirming > 0
    /\ confirming' = confirming - 1
    /\ IF ok \/ closed # Open
       THEN UNCHANGED <<requestVars, inbound, closed>>
       ELSE /\ Shutdown("write", outcome)
            /\ UNCHANGED <<nextRequestId, received>>
    /\ UNCHANGED <<asked, answered, listening, breaches>>

OwnsAny(i) == closed = Open

\* ownsServerRequest, as the failure of a listener asks it.
Owns(i) == closed = Open /\ i \in inbound

\* A listener's promise rejects, others may be left: an error answers what is
\* owned under that id by now.
ListenerRejects(i) ==
    /\ i \in listening
    /\ listening' \in {listening, listening \ {i}}
    /\ IF Owns(i) THEN Answers(i) ELSE UNCHANGED <<requestVars, inbound, answered, closed>>
    /\ UNCHANGED <<asked, confirming, breaches>>

ListenerResolves(i) ==
    /\ i \in listening
    /\ listening' = listening \ {i}
    /\ UNCHANGED <<requestVars, inbound, asked, answered, confirming, closed, breaches>>

\* notify and notifyConfirmed.
Notify ==
    /\ closed = Open
    /\ \/ /\ confirming < MaxAsks
          /\ confirming' \in {confirming, confirming + 1}
          /\ UNCHANGED <<requestVars, inbound, closed>>
       \/ /\ Shutdown("write", outcome)
          /\ UNCHANGED <<nextRequestId, received, confirming>>
    /\ UNCHANGED <<asked, answered, listening, breaches>>

-----------------------------------------------------------------------------
(* The end of the connection                                               *)

\* Bytes that are not a message the validator admits.
MalformedData ==
    /\ closed = Open
    /\ Shutdown("protocol", outcome)
    /\ breaches' = breaches \cup {"unfit"}
    /\ UNCHANGED <<nextRequestId, received, asked, answered, listening, confirming>>

TransportExits ==
    /\ closed = Open
    /\ Shutdown("exit", outcome)
    /\ UNCHANGED <<breaches, nextRequestId, received, asked, answered, listening, confirming>>

Dispose ==
    /\ closed = Open
    /\ Shutdown("dispose", outcome)
    /\ UNCHANGED <<breaches, nextRequestId, received, asked, answered, listening, confirming>>

-----------------------------------------------------------------------------
RequestStep == \/ Request
               \/ \E id \in Id : TimesOut(id) \/ Response(id)

ServerStep == \E i \in ServerId :
    \/ ServerRequestKept(i) \/ ServerRequestAnswered(i)
    \/ Respond(i) \/ RespondConfirmed(i)
    \/ ListenerRejects(i) \/ ListenerResolves(i)

WriteStep == \/ Notify
             \/ \E ok \in BOOLEAN : ConfirmedWriteSettles(ok)

CloseStep == MalformedData \/ TransportExits \/ Dispose

Next == RequestStep \/ ServerStep \/ WriteStep \/ CloseStep

Spec == Init /\ [][Next]_vars

\* Timers that are armed fire; nothing is owed by the server or the clients.
FairSpec == Spec /\ \A id \in Id : WF_vars(TimesOut(id))

-----------------------------------------------------------------------------
(* Properties                                                              *)

TypeOK ==
    /\ nextRequestId \in 0..MaxRequestId
    /\ pending \subseteq Id /\ timers \subseteq Id /\ received \subseteq Id
    /\ outcome \in [Id -> Outcomes]
    /\ inbound \subseteq ServerId /\ listening \subseteq ServerId
    /\ confirming \in Nat
    /\ asked \in [ServerId -> Nat] /\ answered \in [ServerId -> Nat]
    /\ closed \in Reasons
    /\ breaches \subseteq Breaches

\* While the client is open each request of the server is either owned or was
\* answered exactly once, through synchronous answers, confirmed writes and
\* listeners that fail late.
AnsweredOnce ==
    closed = Open =>
        \A i \in ServerId : asked[i] = answered[i] + (IF i \in inbound THEN 1 ELSE 0)

\* A promise that waits has an entry that a response, its own timer or the
\* shutdown will settle; nothing else has one.
WaitingIsTimed ==
    \A id \in Id : /\ outcome[id] = "waiting" <=> id \in pending
                   /\ id \in pending <=> id \in timers

\* A settled promise stays as it is: a late answer, a timer that fires after
\* the answer or a shutdown never settles it again.
SettlesOnce ==
    [][\A id \in Id : outcome[id] \in {"answered", "timedOut", "closed"}
            => outcome'[id] = outcome[id]]_vars

\* A server that answers each request once, and in time, is never taken for a
\* broken one, however requests, timers and ids run out.
HonestServerIsKept == closed = "protocol" => breaches # {}

\* Every request settles, whatever the server does.
RequestsSettle == \A id \in Id : outcome[id] = "waiting" ~> outcome[id] # "waiting"
=============================================================================
