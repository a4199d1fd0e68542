--------------------------- MODULE ApprovalBroker ---------------------------
(***************************************************************************)
(* Approvals that the Codex App Server asks the user for: class            *)
(* RideCodexApprovalBroker of ride-codex-approval-broker.ts.               *)
(*                                                                         *)
(* A server request takes an approval lease of the host, is admitted if    *)
(* there is room, is bound to the session that shows its turn, checked,    *)
(* published as a card, and answered by the session's user, by a timer or  *)
(* by the end of its context.  The broker keeps it in one of five sets and *)
(* bounds their total; every way out of a set releases the lease.          *)
(*                                                                         *)
(* As in AppServerHost an action is the code between two awaits, and the   *)
(* continuation of an await runs before the next timer or call of a        *)
(* browser (Quiescent).  The server's messages are not held back by        *)
(* continuations: the JSONL client delivers the lines of one chunk in one  *)
(* go.                                                                     *)
(*                                                                         *)
(* The host is the interface RideCodexApprovalHost: it serves a generation *)
(* or it does not, it owns the requests its client has not answered, and   *)
(* its promises settle in any order.  `acceptForSession' is an acceptance. *)
(* A clock or a scheduler that throws is left out, and so is a publication *)
(* that throws: the proxy's promise may reject, which disconnects later.   *)
(***************************************************************************)
EXTENDS Naturals, FiniteSets

CONSTANTS
    Request,            \* the server's approval requests
    FileRequest,        \* those for a file change, the others are for a command
    Turn,               \* turns of threads
    TurnOf,             \* the turn each request belongs to
    Session,            \* connected browser clients
    MaxPending,         \* #maxPending
    MaxClients,         \* #maxClients
    MaxGenerations,     \* bound on the host's generations
    MaxRevision,        \* bound on the contexts that a session takes
    MaxScope            \* bound on the versions of a tracked file scope

ASSUME BrokerAssumption ==
    /\ IsFiniteSet(Request)
    /\ FileRequest \subseteq Request
    /\ TurnOf \in [Request -> Turn]
    /\ IsFiniteSet(Session)
    /\ MaxPending \in Nat \ {0}
    /\ MaxClients \in Nat \ {0}
    /\ MaxGenerations \in Nat \ {0}
    /\ MaxRevision \in Nat
    /\ MaxScope \in Nat

VARIABLES
    hostState,      \* the host's snapshot().state: ready or not
    generation,     \* the host's generation
    clientClosed,   \* its JSONL client is closed, the exit is not yet known
    open,           \* requests the JSONL client still owns
    stage,          \* the set a request is in: #acquiring ... #responding
    lease,          \* the approval lease of a request, held from acquire() on
    answer,         \* the decision the host took for a request
    pc,             \* where handleServerRequest of a request is
    waitsFor,       \* the entry whose end an admission waits for
    genOf,          \* the generation of a request
    owner,          \* ownerId
    ownerRevision,  \* ownerContextRevision
    shown,          \* the file scope captured for the card
    expired,        \* requests whose expiresAt has passed
    deciding,       \* decisions whose file scope is being checked again
    session,        \* new, connected or gone
    context,        \* SessionRecord.context
    revision,       \* SessionRecord.contextRevision
    scope,          \* #fileScopes: version of a request's scope, 0 if untracked
    ended,          \* turns, by generation, that the server reported completed
    disposed,       \* #disposed
    disposePc       \* where dispose() is

hostVars == <<hostState, generation, clientClosed, open>>
entryVars == <<stage, lease, answer>>
flowVars == <<pc, waitsFor>>
cardVars == <<genOf, owner, ownerRevision, shown, expired, deciding>>
sessionVars == <<session, context, revision>>
turnVars == <<scope, ended>>
endVars == <<disposed, disposePc>>
vars == <<hostVars, entryVars, flowVars, cardVars, sessionVars, turnVars, endVars>>

Stages == {"none", "acquiring", "admitting", "authorizing", "pending", "responding"}
Pcs == {"new", "acquire", "awaitAdmission", "awaitEviction", "admitted", "scope", "done"}
Decisions == {"accept", "decline", "cancel"}
Gen == 1..MaxGenerations
Nobody == "nobody"
NoContext == [generation |-> 0, turn |-> Nobody]
Contexts == [generation : Gen, turn : Turn] \cup {NoContext}

\* Stages whose entry owns the lease of its request.
Owning == {"admitting", "authorizing", "pending", "responding"}

\* A running handleServerRequest that holds its lease itself.
Waiting == {"acquire", "awaitAdmission", "awaitEviction"}

Init ==
    /\ hostState = "down"
    /\ generation = 0
    /\ clientClosed = FALSE
    /\ open = {}
    /\ stage = [r \in Request |-> "none"]
    /\ lease = [r \in Request |-> "none"]
    /\ answer = [r \in Request |-> "none"]
    /\ pc = [r \in Request |-> "new"]
    /\ waitsFor = [r \in Request |-> r]
    /\ genOf = [r \in Request |-> 0]
    /\ owner = [r \in Request |-> Nobody]
    /\ ownerRevision = [r \in Request |-> 0]
    /\ shown = [r \in Request |-> 0]
    /\ expired = {}
    /\ deciding = {}
    /\ session = [s \in Session |-> "new"]
    /\ context = [s \in Session |-> NoContext]
    /\ revision = [s \in Session |-> 0]
    /\ scope = [r \in Request |-> 0]
    /\ ended = {}
    /\ disposed = FALSE
    /\ disposePc = "none"

-----------------------------------------------------------------------------
(* The five sets, the host and the event loop                              *)

In(s) == {r \in Request : stage[r] = s}

Active == {r \in Request : stage[r] # "none"}

FullTooLate == Cardinality(Active) > MaxPending

Full == Cardinality(Active) >= MaxPending

\* The host is ready in the request's generation and owns it.
Owns(r) == hostState = "ready" /\ generation = genOf[r] /\ r \in open

CanRespond(r) == ~disposed /\ Owns(r)

AdmissionWakes(r) == pc[r] = "awaitAdmission" /\ stage[waitsFor[r]] # "admitting"
EvictionWakes(r) == pc[r] = "awaitEviction" /\ stage[waitsFor[r]] # "responding"

\* No continuation is queued, so the event loop may take its next task.
Quiescent == \A r \in Request : /\ pc[r] # "admitted"
                                /\ ~AdmissionWakes(r)
                                /\ ~EvictionWakes(r)

Continues(r, to) == pc' = [pc EXCEPT ![r] = to] /\ UNCHANGED waitsFor

\* The entries in X leave their sets with their leases, and L is released.
GiveUp(X, L) ==
    /\ stage' = [r \in Request |-> IF r \in X THEN "none" ELSE stage[r]]
    /\ lease' = [r \in Request |-> IF r \in L \/ (r \in X /\ stage[r] \in Owning)
                                   THEN "released" ELSE lease[r]]
    /\ UNCHANGED answer

\* The entries in R start to respond with d; those in X leave their sets.
RespondAndRelease(R, X, d) ==
    /\ stage' = [r \in Request |-> CASE r \in R -> "responding"
                                     [] r \in X \ R -> "none"
                                     [] OTHER -> stage[r]]
    /\ lease' = [r \in Request |-> IF r \in X \ R THEN "released" ELSE lease[r]]
    /\ answer' = [r \in Request |-> IF r \in R /\ Owns(r) THEN d ELSE answer[r]]
    /\ open' = open \ {r \in R : Owns(r)}
    /\ UNCHANGED <<hostState, generation, clientClosed>>

\* Pending approvals always respond, authorizing ones if the host can take it.
Settle(E, d) == RespondAndRelease({r \in E : stage[r] = "pending" \/ Owns(r)}, E, d)

\* The host stops serving; an open broker then drops every entry.
HostLost(X, L) ==
    /\ hostState' = "down"
    /\ open' = {}
    /\ GiveUp(IF disposed THEN X ELSE Request, L)
    /\ scope' = IF disposed THEN scope ELSE [r \in Request |-> 0]
    /\ UNCHANGED <<generation, clientClosed, ended>>

\* abortServerRequestGeneration(g): X leave, and the host stops if it serves g.
AbortGeneration(g, X, L) ==
    IF hostState = "ready" /\ generation = g
    THEN HostLost(X, L)
    ELSE GiveUp(X, L) /\ UNCHANGED <<hostVars, turnVars>>

-----------------------------------------------------------------------------
(* handleServerRequest: reservation and acquisition                        *)

\* One more request than there is room for gives the whole generation up.
Reserve(r) ==
    IF Full
    THEN /\ AbortGeneration(generation, Request, {})
         /\ Continues(r, "done")
    ELSE /\ stage' = [stage EXCEPT ![r] = "acquiring"]
         /\ lease' = [lease EXCEPT ![r] = "held"]
         /\ open' = open \cup {r}
         /\ Continues(r, "acquire")
         /\ UNCHANGED <<hostState, generation, clientClosed, answer, turnVars>>

\* The server asks for an approval within a turn that it has not completed.
ServerRequest(r) ==
    /\ pc[r] = "new"
    /\ ~disposed
    /\ hostState = "ready" /\ ~clientClosed
    /\ <<generation, TurnOf[r]>> \notin ended
    /\ genOf' = [genOf EXCEPT ![r] = generation]
    /\ Reserve(r)
    /\ UNCHANGED <<owner, ownerRevision, shown, expired, deciding, sessionVars, endVars>>

AcquireRejects(r) ==
    /\ pc[r] = "acquire"
    /\ GiveUp({r}, {r})
    /\ Continues(r, "done")
    /\ UNCHANGED <<hostVars, cardVars, sessionVars, turnVars, endVars>>

-----------------------------------------------------------------------------
(* #makeCapacityAvailable                                                  *)

\* The loop ends: the request is admitted if it is still wanted.
Admit(r) ==
    /\ IF CanRespond(r) /\ stage[r] = "acquiring"
       THEN /\ stage' = [stage EXCEPT ![r] = "admitting"]
            /\ Continues(r, "admitted")
            /\ UNCHANGED <<lease, answer>>
       ELSE GiveUp({r}, {r}) /\ Continues(r, "done")
    /\ UNCHANGED <<hostVars, turnVars>>

Waits(r, e, where) ==
    /\ pc' = [pc EXCEPT ![r] = where]
    /\ waitsFor' = [waitsFor EXCEPT ![r] = e]

\* An answer is still being written.  If it is one of the same generation the
\* generation is given up, else the answer is; the loop then goes on.
Collide(r, e) ==
    IF genOf[e] # genOf[r]
    THEN /\ GiveUp({e}, {})
         /\ Waits(r, e, "awaitAdmission")
         /\ UNCHANGED <<hostVars, turnVars>>
    ELSE AbortGeneration(genOf[r], {}, {r}) /\ Continues(r, "done")

\* One turn of the loop.  The code takes the oldest entry of a set, the model
\* any: no property depends on their age.
MakeCapacity(r) ==
    \/ /\ ~Full \/ Active = In("acquiring")
       /\ Admit(r)
    \/ /\ Full
       /\ \E a \in In("admitting") : Waits(r, a, "awaitAdmission")
       /\ UNCHANGED <<hostVars, entryVars, turnVars>>
    \/ /\ Full /\ In("admitting") = {}
       /\ \E e \in In("responding") : Collide(r, e)
    \/ /\ Full /\ In("admitting") \cup In("responding") = {}
       /\ \E e \in IF In("pending") # {} THEN In("pending") ELSE In("authorizing") :
            Settle({e}, "cancel") /\ Waits(r, e, "awaitEviction")
       /\ UNCHANGED turnVars

LateLeaseKept(r) ==
    /\ pc[r] = "acquire"
    /\ IF stage[r] # "acquiring" \/ generation # genOf[r]
       THEN /\ GiveUp({r}, {}) /\ Continues(r, "done")
            /\ UNCHANGED <<hostVars, turnVars>>
       ELSE MakeCapacity(r)
    /\ UNCHANGED <<cardVars, sessionVars, endVars>>

\* The host grants the lease, which may come too late for the request.
LeaseGranted(r) ==
    /\ pc[r] = "acquire"
    /\ IF stage[r] # "acquiring" \/ generation # genOf[r]
       THEN /\ GiveUp({r}, {r}) /\ Continues(r, "done")
            /\ UNCHANGED <<hostVars, turnVars>>
       ELSE MakeCapacity(r)
    /\ UNCHANGED <<cardVars, sessionVars, endVars>>

AdmissionResumes(r) ==
    /\ AdmissionWakes(r)
    /\ MakeCapacity(r)
    /\ UNCHANGED <<cardVars, sessionVars, endVars>>

\* The evicted entry has been answered, or could not be.
EvictionResumes(r) ==
    /\ EvictionWakes(r)
    /\ IF CanRespond(r)
       THEN MakeCapacity(r)
       ELSE /\ GiveUp({}, {r}) /\ Continues(r, "done")
            /\ UNCHANGED <<hostVars, turnVars>>
    /\ UNCHANGED <<cardVars, sessionVars, endVars>>

-----------------------------------------------------------------------------
(* handleServerRequest: authorization and publication                      *)

ContextOf(r) == [generation |-> genOf[r], turn |-> TurnOf[r]]

Shows(s, r) == session[s] = "connected" /\ context[s] = ContextOf(r)

\* The owner still shows the turn, in the context that it had at first.
StillAuthorized(r) ==
    /\ ~disposed
    /\ Owns(r)
    /\ stage[r] = "authorizing"
    /\ Shows(owner[r], r) /\ revision[owner[r]] = ownerRevision[r]

\* Malformed parameters, or no session that shows the turn.
RefusesAdmission(r) ==
    /\ \/ RespondAndRelease({r}, {}, "decline")
       \/ /\ \A s \in Session : ~Shows(s, r)
          /\ RespondAndRelease({r}, {}, "cancel")
    /\ Continues(r, "done")
    /\ UNCHANGED <<owner, ownerRevision, shown>>

\* A command is published at once; the scope of a file change is captured and
\* resolved first.  A client that closed meanwhile cannot take an answer.
BindsOwner(r) ==
    /\ \E s \in Session :
        /\ Shows(s, r)
        /\ owner' = [owner EXCEPT ![r] = s]
        /\ ownerRevision' = [ownerRevision EXCEPT ![r] = revision[s]]
    /\ shown' = [shown EXCEPT ![r] = scope[r]]
    /\ IF r \in FileRequest
       THEN /\ stage' = [stage EXCEPT ![r] = "authorizing"]
            /\ Continues(r, "scope")
            /\ UNCHANGED <<lease, answer>>
       ELSE /\ IF Owns(r)
               THEN stage' = [stage EXCEPT ![r] = "pending"] /\ UNCHANGED <<lease, answer>>
               ELSE GiveUp({r}, {})
            /\ Continues(r, "done")
    /\ UNCHANGED hostVars

Admitted(r) ==
    /\ pc[r] = "admitted"
    /\ IF stage[r] = "admitting"
       THEN RefusesAdmission(r) \/ BindsOwner(r)
       ELSE Continues(r, "done") /\ UNCHANGED <<hostVars, entryVars, owner, ownerRevision, shown>>
    /\ UNCHANGED <<genOf, expired, deciding, sessionVars, turnVars, endVars>>

\* Why a file change is refused once its real paths are known, if it is.
Refusals(r) ==
    CASE ~StillAuthorized(r) -> {"cancel"}
      [] StillAuthorized(r) /\ shown[r] = 0 -> {"decline"}
      [] StillAuthorized(r) /\ shown[r] # 0
            /\ (scope[r] # shown[r] \/ r \in expired) -> {"cancel"}
      [] OTHER -> {"none", "decline"}

\* The real paths of a file change were resolved, or could not be.
AuthorizeFile(r) ==
    /\ pc[r] = "scope"
    /\ Continues(r, "done")
    /\ IF stage[r] = "authorizing"
       THEN \E d \in Refusals(r) :
              IF d = "none"
              THEN stage' = [stage EXCEPT ![r] = "pending"]
                   /\ UNCHANGED <<hostVars, lease, answer>>
              ELSE Settle({r}, d)
       ELSE UNCHANGED <<hostVars, entryVars>>
    /\ UNCHANGED <<cardVars, sessionVars, turnVars, endVars>>

-----------------------------------------------------------------------------
(* Decisions                                                               *)

\* The deciding session owns the approval in its present context.
MayDecide(s, r) ==
    /\ stage[r] = "pending"
    /\ owner[r] = s /\ ownerRevision[r] = revision[s]
    /\ Shows(s, r)

SettleDecided(r, d) == Settle({r}, IF r \in expired THEN "cancel" ELSE d)

\* A command is answered at once, a file change after its scope is checked.
Decide(s, r, d) ==
    /\ MayDecide(s, r)
    /\ Quiescent
    /\ IF r \in FileRequest
       THEN /\ deciding' = deciding \cup {<<r, d>>}
            /\ UNCHANGED <<hostVars, entryVars>>
       ELSE SettleDecided(r, d) /\ UNCHANGED deciding
    /\ UNCHANGED <<flowVars, genOf, owner, ownerRevision, shown, expired,
                   sessionVars, turnVars, endVars>>

ScopeDecidedBlindly(r, d) ==
    IF stage[r] # "pending"
    THEN UNCHANGED <<hostVars, entryVars>>
    ELSE SettleDecided(r, d)

\* The approval may be settled already; its scope must be the one shown, and
\* its real paths may have changed.
ScopeDecided(r, d) ==
    IF stage[r] # "pending"
    THEN UNCHANGED <<hostVars, entryVars>>
    ELSE IF scope[r] # shown[r] \/ ~MayDecide(owner[r], r)
    THEN Settle({r}, "cancel")
    ELSE Settle({r}, "cancel") \/ SettleDecided(r, d)

DecideResumes(r, d) ==
    /\ <<r, d>> \in deciding
    /\ deciding' = deciding \ {<<r, d>>}
    /\ ScopeDecided(r, d)
    /\ UNCHANGED <<flowVars, genOf, owner, ownerRevision, shown, expired,
                   sessionVars, turnVars, endVars>>

-----------------------------------------------------------------------------
(* Sessions and their contexts                                             *)

OwnedInNewContext(s, rev) == {r \in In("pending") \cup In("authorizing") :
                                owner[r] = s /\ ownerRevision[r] = rev + 1}

OwnedSince(s, rev) == {r \in In("pending") \cup In("authorizing") :
                         owner[r] = s /\ ownerRevision[r] = rev}

\* A session takes context c: what it owned in the previous one is cancelled.
Rebind(s, c) ==
    /\ revision[s] < MaxRevision
    /\ revision' = [revision EXCEPT ![s] = @ + 1]
    /\ context' = [context EXCEPT ![s] = c]
    /\ Settle(OwnedSince(s, revision[s]), "cancel")
    /\ UNCHANGED <<flowVars, cardVars, session, turnVars, endVars>>

\* The browser may still believe in an earlier generation.
SetContext(s, g, t) ==
    /\ session[s] = "connected"
    /\ Quiescent
    /\ ~disposed
    /\ g <= generation
    /\ Rebind(s, [generation |-> g, turn |-> t])

DisposeContext(s) ==
    /\ session[s] = "connected"
    /\ Quiescent
    /\ Rebind(s, NoContext)

Connected == {s \in Session : session[s] = "connected"}

Disconnect(s) ==
    /\ session[s] = "connected"
    /\ session' = [session EXCEPT ![s] = "gone"]
    /\ revision' = [revision EXCEPT ![s] = @ + 1]
    /\ context' = [context EXCEPT ![s] = NoContext]
    /\ Settle(OwnedSince(s, revision[s]), "cancel")
    /\ UNCHANGED <<flowVars, cardVars, turnVars, endVars>>

\* A client too many displaces the oldest one (here: any one).
Connect(s) ==
    /\ session[s] = "new"
    /\ Quiescent
    /\ IF Cardinality(Connected) < MaxClients
       THEN /\ session' = [session EXCEPT ![s] = "connected"]
            /\ UNCHANGED <<revision, context, hostVars, entryVars>>
       ELSE \E o \in Connected :
              /\ session' = [session EXCEPT ![s] = "connected", ![o] = "gone"]
              /\ revision' = [revision EXCEPT ![o] = @ + 1]
              /\ context' = [context EXCEPT ![o] = NoContext]
              /\ Settle(OwnedSince(o, revision[o]), "cancel")
    /\ UNCHANGED <<flowVars, cardVars, turnVars, endVars>>

-----------------------------------------------------------------------------
(* Timers and answers                                                      *)

\* The clock passes expiresAt; the timer's callback may be late.
Expires(r) ==
    /\ stage[r] \in {"authorizing", "pending"}
    /\ r \notin expired
    /\ expired' = expired \cup {r}
    /\ UNCHANGED <<hostVars, entryVars, flowVars, genOf, owner, ownerRevision,
                   shown, deciding, sessionVars, turnVars, endVars>>

TtlTimerFires(r) ==
    /\ stage[r] \in {"authorizing", "pending"}
    /\ r \in expired
    /\ Quiescent
    /\ Settle({r}, "cancel")
    /\ UNCHANGED <<flowVars, cardVars, sessionVars, turnVars, endVars>>

\* The host's promise settles: the answer is written, or was not taken.
ResponseSettles(r) ==
    /\ stage[r] = "responding"
    /\ GiveUp({r}, {})
    /\ UNCHANGED <<hostVars, flowVars, cardVars, sessionVars, turnVars, endVars>>

ResponseTimeoutOnlyAborts(r) ==
    /\ stage[r] = "responding"
    /\ Quiescent
    /\ AbortGeneration(genOf[r], {}, {})
    /\ UNCHANGED <<flowVars, cardVars, sessionVars, endVars>>

ResponseTimesOut(r) ==
    /\ stage[r] = "responding"
    /\ Quiescent
    /\ AbortGeneration(genOf[r], {r}, {})
    /\ UNCHANGED <<flowVars, cardVars, sessionVars, endVars>>

-----------------------------------------------------------------------------
(* The server and the host                                                 *)

ScopeTracked(r, v) ==
    /\ r \in FileRequest
    /\ ~disposed
    /\ hostState = "ready" /\ ~clientClosed
    /\ v # scope[r]
    /\ scope' = [scope EXCEPT ![r] = v]
    /\ UNCHANGED <<hostVars, entryVars, flowVars, cardVars, sessionVars, ended, endVars>>

OfTurn(t) == {r \in In("pending") \cup In("authorizing") :
                genOf[r] = generation /\ TurnOf[r] = t}

\* turn/completed: the turn's approvals are cancelled and its scopes forgotten.
TurnCompleted(t) ==
    /\ hostState = "ready" /\ ~clientClosed
    /\ <<generation, t>> \notin ended
    /\ ended' = ended \cup {<<generation, t>>}
    /\ IF disposed
       THEN UNCHANGED <<hostVars, entryVars, scope>>
       ELSE /\ Settle(OfTurn(t), "cancel")
            /\ scope' = [r \in Request |-> IF TurnOf[r] = t THEN 0 ELSE scope[r]]
    /\ UNCHANGED <<flowVars, cardVars, sessionVars, endVars>>

\* Malformed protocol data, or EOF: the exit of the process is yet to come.
ClientCloses ==
    /\ hostState = "ready" /\ ~clientClosed
    /\ clientClosed' = TRUE
    /\ open' = {}
    /\ UNCHANGED <<hostState, generation, entryVars, flowVars, cardVars,
                   sessionVars, turnVars, endVars>>

\* The process exits, or another client of the host stops it.
HostStops ==
    /\ hostState = "ready"
    /\ HostLost({}, {})
    /\ UNCHANGED <<flowVars, cardVars, sessionVars, endVars>>

HostReady ==
    /\ hostState = "down"
    /\ Quiescent
    /\ generation < MaxGenerations
    /\ hostState' = "ready"
    /\ generation' = generation + 1
    /\ clientClosed' = FALSE
    /\ IF disposed
       THEN UNCHANGED entryVars
       ELSE GiveUp({r \in Request : genOf[r] # generation + 1}, {})
    /\ UNCHANGED <<open, flowVars, cardVars, sessionVars, turnVars, endVars>>

-----------------------------------------------------------------------------
(* Disposal                                                                *)

\* Requests not yet shown, or being answered, make their generation unsafe.
Unsafe == In("acquiring") \cup In("admitting") \cup In("responding")

\* The host serves the generation of an unsafe request, and is stopped.
StopsUnsafe == hostState = "ready" /\ \E r \in Unsafe : genOf[r] = generation

\* What is shown is cancelled, if a host remains to take the answer.
Dispose ==
    /\ ~disposed
    /\ disposed' = TRUE
    /\ disposePc' = "draining"
    /\ LET takes(r) == Owns(r) /\ ~StopsUnsafe
           shownNow == {r \in In("authorizing") : takes(r)} \cup In("pending")
       IN  /\ stage' = [r \in Request |-> IF r \in shownNow THEN "responding" ELSE "none"]
           /\ lease' = [r \in Request |-> IF stage[r] \in Owning /\ r \notin shownNow
                                          THEN "released" ELSE lease[r]]
           /\ answer' = [r \in Request |-> IF r \in shownNow /\ takes(r)
                                           THEN "cancel" ELSE answer[r]]
           /\ hostState' = IF StopsUnsafe THEN "down" ELSE hostState
           /\ open' = IF StopsUnsafe THEN {} ELSE open \ {r \in shownNow : takes(r)}
    /\ UNCHANGED <<generation, clientClosed, flowVars, cardVars, sessionVars, turnVars>>

DisposeUnanswered ==
    /\ disposePc = "draining"
    /\ disposePc' = "done"
    /\ session' = [s \in Session |-> IF session[s] = "connected" THEN "gone" ELSE session[s]]
    /\ scope' = [r \in Request |-> 0]
    /\ UNCHANGED <<hostVars, entryVars, flowVars, cardVars, context, revision, ended, disposed>>

\* Every cancellation is written or given up, and the sessions are forgotten.
DisposeDrained ==
    /\ disposePc = "draining"
    /\ In("responding") = {}
    /\ disposePc' = "done"
    /\ session' = [s \in Session |-> IF session[s] = "connected" THEN "gone" ELSE session[s]]
    /\ scope' = [r \in Request |-> 0]
    /\ UNCHANGED <<hostVars, entryVars, flowVars, cardVars, context, revision, ended, disposed>>

-----------------------------------------------------------------------------
(* The specification                                                       *)

Continuation(r) ==
    \/ LeaseGranted(r) \/ AcquireRejects(r) \/ AdmissionResumes(r)
    \/ EvictionResumes(r) \/ Admitted(r) \/ AuthorizeFile(r)

RequestStep(r) ==
    \/ ServerRequest(r) \/ Continuation(r) \/ Expires(r) \/ TtlTimerFires(r)
    \/ ResponseSettles(r) \/ ResponseTimesOut(r)
    \/ \E v \in 0..MaxScope : ScopeTracked(r, v)
    \/ \E d \in Decisions : DecideResumes(r, d) \/ \E s \in Session : Decide(s, r, d)

SessionStep(s) ==
    \/ Connect(s) \/ Disconnect(s) \/ DisposeContext(s)
    \/ \E g \in Gen, t \in Turn : SetContext(s, g, t)

HostStep ==
    \/ ClientCloses \/ HostStops \/ HostReady
    \/ \E t \in Turn : TurnCompleted(t)

Next ==
    \/ \E r \in Request : RequestStep(r)
    \/ \E s \in Session : SessionStep(s)
    \/ HostStep
    \/ Dispose \/ DisposeDrained

Spec == Init /\ [][Next]_vars

\* The host settles every acquire (AppServerHost!WaitsAreAnswered), timers are
\* served, and a process whose stdin was closed exits.
Fairness ==
    /\ \A r \in Request : /\ WF_vars(Continuation(r))
                          /\ WF_vars(Expires(r))
                          /\ WF_vars(TtlTimerFires(r))
                          /\ WF_vars(ResponseTimesOut(r))
    /\ WF_vars(HostStops /\ clientClosed)

LiveSpec == Spec /\ Fairness

-----------------------------------------------------------------------------
(* Properties                                                              *)

\* Type invariant of the broker's sets and of the host it sees.
TypeOK ==
    /\ hostState \in {"ready", "down"}
    /\ generation \in 0..MaxGenerations
    /\ hostState = "ready" => generation \in Gen
    /\ clientClosed \in BOOLEAN
    /\ open \subseteq Request
    /\ stage \in [Request -> Stages]
    /\ lease \in [Request -> {"none", "held", "released"}]
    /\ answer \in [Request -> Decisions \cup {"none"}]
    /\ pc \in [Request -> Pcs]
    /\ waitsFor \in [Request -> Request]
    /\ genOf \in [Request -> 0..MaxGenerations]
    /\ owner \in [Request -> Session \cup {Nobody}]
    /\ ownerRevision \in [Request -> Nat]
    /\ shown \in [Request -> 0..MaxScope]
    /\ expired \subseteq Request
    /\ deciding \subseteq Request \X Decisions
    /\ session \in [Session -> {"new", "connected", "gone"}]
    /\ context \in [Session -> Contexts]
    /\ revision \in [Session -> Nat]
    /\ scope \in [Request -> 0..MaxScope]
    /\ ended \subseteq Gen \X Turn
    /\ disposed \in BOOLEAN
    /\ disposePc \in {"none", "draining", "done"}

\* However acquisitions, admissions, checks, cards and answers interleave, the
\* five sets together never exceed maxPending (#reserveAcquisition and the
\* transitions between the sets keep the reservation).
CapacityRespected == Cardinality(Active) <= MaxPending

\* A lease is held exactly while an entry or a running handleServerRequest owns
\* it: no cancellation, timeout, eviction or late grant leaks or keeps one.
LeasesAccounted ==
    \A r \in Request :
        lease[r] = "held" <=> stage[r] \in Owning \/ pc[r] \in Waiting

\* A reservation in #acquiring always has a handler that will end it, unless
\* the server's pipe is closed: then the host's exit clears it.
ReservationsAreDriven ==
    \A r \in Request : stage[r] = "acquiring" => pc[r] \in Waiting \/ clientClosed

\* What is being checked or shown belongs to a connected session that still
\* shows its turn in the very context it was bound to: a change of context, a
\* disconnection or a displaced client leaves nothing behind.
CardsAreOwned ==
    \A r \in In("authorizing") \cup In("pending") :
        /\ owner[r] \in Session
        /\ Shows(owner[r], r)
        /\ ownerRevision[r] = revision[owner[r]]

AcceptedAsShown(r) ==
    /\ stage[r] = "pending"
    /\ r \notin expired
    /\ Shows(owner[r], r) /\ ownerRevision[r] = revision[owner[r]]
    /\ genOf[r] = generation
    /\ r \in FileRequest => shown[r] = scope[r] /\ shown[r] # 0

\* An acceptance reaches the server only for a card that is pending, unexpired,
\* owned in the current context, and whose file scope is the one shown.
AcceptanceIsCurrent ==
    [][\A r \in Request : answer[r] = "none" /\ answer'[r] = "accept" => AcceptedAsShown(r)]_vars

\* When dispose() resolves nothing is left in any set, and only leases that
\* the host grants late are still to be released.
DisposalDrains ==
    disposePc = "done" =>
        /\ Active = {}
        /\ \A r \in Request : lease[r] = "held" => pc[r] \in Waiting

\* Every request that entered leaves the broker: answered, timed out or given
\* up with its generation, even if the user never decides and the host never
\* confirms a write; and every lease of the host is given back, also one that is
\* granted late.
RequestsLeave ==
    \A r \in Request :
        /\ stage[r] # "none" ~> stage[r] = "none"
        /\ lease[r] = "held" ~> lease[r] = "released"
=============================================================================
