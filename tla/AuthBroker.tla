------------------------------ MODULE AuthBroker -----------------------------
(***************************************************************************)
(* The auth broker (ride-codex-auth-broker.ts): one snapshot of the        *)
(* account, written by callers' operations, by the server's notifications, *)
(* by a refresh that follows a notification and by the host's states.      *)
(*                                                                         *)
(* #callerAuthOperation orders the operations, #accountRevision the writes *)
(* of the snapshot, #notificationAccountRefresh the refreshes.  A request  *)
(* is asked, served and resumed; the server's notification of a change     *)
(* comes anywhere after the change.  Rate limits, which have an order of   *)
(* their own, are left out, and what the server writes is well formed.     *)
(***************************************************************************)
EXTENDS Naturals, Sequences, SequencesExt, FiniteSets

CONSTANTS
    Caller,
    MaxKnownLogins,    \* MAX_KNOWN_LOGINS, 32 in the code
    MaxEvents          \* calls, new generations of the host and accounts that others set

VARIABLES
    hostState, hostGen,     \* the host
    account, owed, logins,  \* the server: its account, the changes not yet told, open logins
    lease, activeGen,       \* #lease, #activeGeneration
    broker,                 \* the snapshot, the counters and the refresh
    signature,              \* #notificationSignatures, for account/updated
    known,                  \* #knownLogins, in their order
    op,                     \* the operations of callers and of the host's ready events
    disposed, changes,
    overrun                 \* history: see Overruns

vars == <<hostState, hostGen, account, owed, logins, lease, activeGen, broker, signature,
          known, op, disposed, changes, overrun>>
hostVars == <<hostState, hostGen>>
serverVars == <<account, owed, logins>>

None == "none"
Accounts == {None, "apiKey", "chatgpt"}
Kinds == {"read", "login", "key", "cancel", "logout"}
\* The read that follows the ready event of a generation.
Ready == 2..(MaxEvents + 1)
Ops == Caller \cup Ready
NoContext == [refresh |-> 0, caller |-> 0, rev |-> 0, gen |-> 0]
NoOp == [kind |-> None, pc |-> "idle", token |-> 0, rev |-> 0, id |-> None, data |-> None]
Done == [NoOp EXCEPT !.pc = "done"]

Init ==
    /\ hostState = "ready" /\ hostGen = 1
    /\ account \in {None, "chatgpt"} /\ owed = <<>> /\ logins = {}
    /\ lease = None /\ activeGen = 0
    /\ broker = [state |-> "inactive", account |-> None, pending |-> None, rev |-> 0,
                 caller |-> 0, refresh |-> 0,
                 flight |-> NoContext, flightPc |-> "idle", read |-> None,
                 waiting |-> NoContext]
    /\ signature = "unset" /\ known = <<>>
    /\ op = [o \in Ops |-> NoOp]
    /\ disposed = FALSE /\ changes = 0 /\ overrun = FALSE

-----------------------------------------------------------------------------
(* The snapshot and the counters.                                          *)

\* #setAuthSnapshot.
SetAuth(b, state, acc, pending) ==
    [b EXCEPT !.state = state, !.account = acc, !.pending = pending, !.rev = @ + 1]

ShowAccount(b, acc) ==
    SetAuth(b, IF acc = None THEN "unauthenticated" ELSE "authenticated", acc, None)

\* #setGenericError.
SetError(b) == SetAuth(b, "error", b.account, None)

DropRefresh(b) == [b EXCEPT !.refresh = @ + 1, !.waiting = NoContext]

\* #beginCallerAuthOperation.
BeginCaller(b) == DropRefresh([b EXCEPT !.caller = @ + 1])

\* #scheduleNotificationAccountRefresh: one is in flight, the latest one waits.
Schedule(b) ==
    LET context == [refresh |-> b.refresh + 1, caller |-> b.caller, rev |-> b.rev,
                    gen |-> activeGen]
        c == [b EXCEPT !.refresh = @ + 1]
    IN  IF b.flightPc # "idle" THEN [c EXCEPT !.waiting = context]
        ELSE [c EXCEPT !.flight = context, !.flightPc = "asked"]

\* #isCurrentNotificationAccountRefresh.
IsCurrentRefresh(b, context) ==
    /\ ~disposed
    /\ context = [refresh |-> b.refresh, caller |-> b.caller, rev |-> b.rev, gen |-> activeGen]

\* The end of a refresh: the one that waits starts, if it is still of use.
FlightOver(b) ==
    LET c == [b EXCEPT !.flight = NoContext, !.flightPc = "idle", !.read = None,
                       !.waiting = NoContext]
    IN  IF b.waiting # NoContext /\ IsCurrentRefresh(b, b.waiting)
        THEN [c EXCEPT !.flight = b.waiting, !.flightPc = "asked"] ELSE c

\* #failOperation: a superseded operation changes nothing.
FailOperation(b, token) == IF token = b.caller THEN SetError(b) ELSE b

-----------------------------------------------------------------------------
(* Operations.                                                             *)

\* The bound on what comes from outside.
Room == hostGen - 1 + changes + Cardinality({o \in Caller : op[o].pc # "idle"}) < MaxEvents

Known(id) == \E i \in DOMAIN known : known[i].id = id
Login(id) == known[CHOOSE i \in DOMAIN known : known[i].id = id]
Active(id) == Known(id) /\ Login(id).status = "active"

\* #rememberLogin: at the end of the map; the oldest one is forgotten.
Remember(id, status, token) ==
    LET others == SelectSeq(known, LAMBDA l : l.id # id)
        k == Append(others, [id |-> id, status |-> status, token |-> token])
    IN  IF Len(k) > MaxKnownLogins THEN Tail(k) ELSE k

\* The public methods up to the await of ensureLease.
Calls(o, kind, id) ==
    /\ o \in Caller /\ op[o].pc = "idle" /\ ~disposed /\ Room
    /\ IF kind = "cancel" THEN Active(id) ELSE id = None
    /\ op' = [op EXCEPT ![o] = [NoOp EXCEPT !.kind = kind, !.pc = "lease", !.id = id]]
    /\ lease' = IF lease = None THEN "asked" ELSE lease
    /\ UNCHANGED <<hostVars, serverVars, activeGen, broker, signature, known, disposed,
                   changes, overrun>>

\* The host grants the lease: a disposed broker gives it back.
LeaseGranted ==
    /\ lease = "asked" /\ hostState = "ready"
    /\ lease' = IF disposed THEN "released" ELSE "held"
    /\ activeGen' = IF disposed THEN activeGen ELSE hostGen
    /\ UNCHANGED <<hostVars, serverVars, broker, signature, known, op, disposed, changes,
                   overrun>>

LeaseRefused ==
    /\ lease = "asked" /\ lease' = None
    /\ broker' = IF disposed \/ broker.state = "disconnected" THEN broker ELSE SetError(broker)
    /\ op' = [o \in Ops |-> IF op[o].pc = "lease" THEN Done ELSE op[o]]
    /\ UNCHANGED <<hostVars, serverVars, activeGen, signature, known, disposed, changes,
                   overrun>>

\* An operation begins: its token is the latest; the request is written.  Without the
\* lease, which dispose() took, the request throws.
Proceeds(o) ==
    /\ op[o].pc = "lease" /\ lease \in {"held", "released"}
    /\ LET b == BeginCaller(broker)
           c == IF op[o].kind \in {"login", "key"}
                THEN SetAuth(b, "authenticating", b.account, op[o].kind) ELSE b
       IN  IF lease = "held"
           THEN /\ broker' = c
                /\ op' = [op EXCEPT ![o].pc = "asked", ![o].token = c.caller, ![o].rev = c.rev]
           ELSE broker' = SetError(c) /\ op' = [op EXCEPT ![o] = Done]
    /\ UNCHANGED <<hostVars, serverVars, lease, activeGen, signature, known, disposed,
                   changes, overrun>>

Talks == hostState = "ready" /\ activeGen = hostGen

\* External: the request takes effect on the server, which answers.
Serves(o) ==
    /\ op[o].pc = "asked" /\ Talks
    /\ account' = CASE op[o].kind = "key" -> "apiKey"
                    [] op[o].kind = "logout" -> None
                    [] OTHER -> account
    /\ owed' = IF account' = account THEN owed ELSE Append(owed, account')
    /\ logins' = CASE op[o].kind = "login" -> logins \cup {o}
                   [] op[o].kind = "cancel" -> logins \ {op[o].id}
                   [] OTHER -> logins
    /\ op' = [op EXCEPT ![o].pc = "answered", ![o].data = account']
    /\ UNCHANGED <<hostVars, lease, activeGen, broker, signature, known, disposed, changes,
                   overrun>>

\* External: the server answers the read that confirms a key.
Confirms(o) ==
    /\ op[o].pc = "confirm" /\ Talks
    /\ op' = [op EXCEPT ![o].pc = "confirmed", ![o].data = account]
    /\ UNCHANGED <<hostVars, serverVars, lease, activeGen, broker, signature, known,
                   disposed, changes, overrun>>

\* The account was written since the read of operation o began.
Outdated(o) == op[o].rev # broker.rev

\* The request fails, or its answer is invalid.
Fails(o) ==
    /\ op[o].pc \in {"asked", "confirm"}
    /\ broker' = IF op[o].kind = "read" /\ Outdated(o) THEN broker
                 ELSE FailOperation(broker, op[o].token)
    /\ op' = [op EXCEPT ![o] = Done]
    /\ UNCHANGED <<hostVars, serverVars, lease, activeGen, signature, known, disposed,
                   changes, overrun>>

IsCurrent(o) == op[o].token = broker.caller

\* The rest of #readAccountForToken.
ReadEnds(o) ==
    /\ op[o].pc = "answered" /\ op[o].kind = "read"
    /\ broker' = IF IsCurrent(o) /\ ~Outdated(o) THEN ShowAccount(broker, op[o].data)
                 ELSE broker
    /\ op' = [op EXCEPT ![o] = Done]
    /\ UNCHANGED <<hostVars, serverVars, lease, activeGen, signature, known, disposed,
                   changes, overrun>>

LoginEnds(o) ==
    /\ op[o].pc = "answered" /\ op[o].kind = "login"
    /\ IF IsCurrent(o)
       THEN /\ known' = Remember(o, "active", op[o].token)
            /\ broker' = SetAuth(broker, "authenticating", broker.account, o)
       ELSE UNCHANGED <<known, broker>>
    /\ op' = [op EXCEPT ![o] = Done]
    /\ UNCHANGED <<hostVars, serverVars, lease, activeGen, signature, disposed, changes,
                   overrun>>

\* #loginWithApiKey: the key was taken, the account is read once more.
KeyTaken(o) ==
    /\ op[o].pc = "answered" /\ op[o].kind = "key"
    /\ op' = [op EXCEPT ![o] = IF IsCurrent(o) /\ lease = "held"
                               THEN [@ EXCEPT !.pc = "confirm", !.rev = broker.rev] ELSE Done]
    /\ broker' = IF IsCurrent(o) /\ lease # "held" THEN SetError(broker) ELSE broker
    /\ UNCHANGED <<hostVars, serverVars, lease, activeGen, signature, known, disposed,
                   changes, overrun>>

\* The account changed after the answer was written and the notification of it came before
\* the answer's continuation, in the same chunk: what the continuation shows is older.
Overruns(o) == account # op[o].data /\ owed = <<>>

\* The confirmation is shown even if the account was written meanwhile.
KeyConfirmed(o) ==
    /\ op[o].pc = "confirmed" /\ overrun' = (overrun \/ Overruns(o))
    /\ broker' = IF ~IsCurrent(o) THEN broker
                 ELSE IF op[o].data = "apiKey" THEN ShowAccount(broker, "apiKey")
                 ELSE IF Outdated(o) THEN SetError(broker)
                 ELSE SetError(ShowAccount(broker, op[o].data))
    /\ op' = [op EXCEPT ![o] = Done]
    /\ UNCHANGED <<hostVars, serverVars, lease, activeGen, signature, known, disposed,
                   changes>>

CancelEnds(o) ==
    /\ op[o].pc = "answered" /\ op[o].kind = "cancel"
    /\ IF IsCurrent(o)
       THEN /\ known' = Remember(op[o].id, "canceled", op[o].token)
            /\ broker' = IF broker.pending = op[o].id THEN ShowAccount(broker, broker.account)
                         ELSE broker
       ELSE UNCHANGED <<known, broker>>
    /\ op' = [op EXCEPT ![o] = Done]
    /\ UNCHANGED <<hostVars, serverVars, lease, activeGen, signature, disposed, changes,
                   overrun>>

LogoutEnds(o) ==
    /\ op[o].pc = "answered" /\ op[o].kind = "logout" /\ overrun' = (overrun \/ Overruns(o))
    /\ IF IsCurrent(o) THEN known' = <<>> /\ broker' = ShowAccount(broker, None)
       ELSE UNCHANGED <<known, broker>>
    /\ op' = [op EXCEPT ![o] = Done]
    /\ UNCHANGED <<hostVars, serverVars, lease, activeGen, signature, disposed, changes>>

-----------------------------------------------------------------------------
(* Notifications of the generation that is active.                         *)

Hears == Talks /\ ~disposed

\* account/updated with the account of a change: the same value twice is one notification.
AccountUpdated ==
    /\ Hears /\ owed # <<>> /\ owed' = Tail(owed)
    /\ signature' = Head(owed)
    /\ broker' = IF signature = Head(owed) THEN broker
                 ELSE Schedule(ShowAccount(broker, Head(owed)))
    /\ UNCHANGED <<hostVars, account, logins, lease, activeGen, known, op, disposed,
                   changes, overrun>>

\* account/login/completed: the user finished an open login.
LoginCompleted(o, success) ==
    /\ Talks /\ o \in logins /\ logins' = logins \ {o}
    /\ account' = IF success THEN "chatgpt" ELSE account
    /\ owed' = IF account' = account THEN owed ELSE Append(owed, account')
    /\ IF ~disposed /\ Active(o)
       THEN /\ known' = Remember(o, "completed", Login(o).token)
            /\ broker' = IF Login(o).token # broker.caller THEN broker
                         ELSE IF success THEN Schedule(broker)
                         ELSE SetError(DropRefresh(broker))
       ELSE UNCHANGED <<known, broker>>
    /\ UNCHANGED <<hostVars, lease, activeGen, signature, op, disposed, changes, overrun>>

\* External: the account changes without this broker.
AccountChanges(a) ==
    /\ Room /\ changes' = changes + 1
    /\ a # account /\ account' = a /\ owed' = Append(owed, a)
    /\ UNCHANGED <<hostVars, logins, lease, activeGen, broker, signature, known, op,
                   disposed, overrun>>

\* #readAccountForNotification.
RefreshAnswers ==
    /\ broker.flightPc = "asked" /\ Talks
    /\ broker' = [broker EXCEPT !.flightPc = "answered", !.read = account]
    /\ UNCHANGED <<hostVars, serverVars, lease, activeGen, signature, known, op, disposed,
                   changes, overrun>>

RefreshEnds ==
    /\ broker.flightPc = "answered"
    /\ broker' = FlightOver(IF IsCurrentRefresh(broker, broker.flight)
                            THEN ShowAccount(broker, broker.read) ELSE broker)
    /\ UNCHANGED <<hostVars, serverVars, lease, activeGen, signature, known, op, disposed,
                   changes, overrun>>

RefreshFails ==
    /\ broker.flightPc = "asked"
    /\ broker' = FlightOver(IF IsCurrentRefresh(broker, broker.flight)
                            THEN FailOperation(broker, broker.flight.caller) ELSE broker)
    /\ UNCHANGED <<hostVars, serverVars, lease, activeGen, signature, known, op, disposed,
                   changes, overrun>>

-----------------------------------------------------------------------------
(* The host.                                                               *)

\* #onHostStateChange; open logins and what the server owed end with its process.
HostStops ==
    /\ hostState # "stopped" /\ hostState' = "stopped"
    /\ owed' = <<>> /\ logins' = {}
    /\ broker' = IF lease = "held" /\ ~disposed /\ hostGen >= activeGen
                 THEN SetAuth(BeginCaller(broker), "disconnected", None, None) ELSE broker
    /\ UNCHANGED <<hostGen, account, lease, activeGen, signature, known, op, disposed,
                   changes, overrun>>

\* A generation starts; "restarting" disconnects, "starting" does not.
HostStarts(restarting) ==
    /\ hostState \in {"ready", "stopped"} /\ Room
    /\ hostState' = "starting" /\ hostGen' = hostGen + 1
    /\ owed' = <<>> /\ logins' = {}
    /\ IF lease = "held" /\ ~disposed
       THEN /\ activeGen' = hostGen + 1 /\ known' = <<>> /\ signature' = "unset"
            /\ broker' = IF restarting
                         THEN SetAuth(BeginCaller(broker), "disconnected", None, None)
                         ELSE BeginCaller(broker)
       ELSE UNCHANGED <<activeGen, known, signature, broker>>
    /\ UNCHANGED <<account, lease, op, disposed, changes, overrun>>

HostReady ==
    /\ hostState = "starting" /\ hostState' = "ready"
    /\ IF lease = "held" /\ ~disposed
       THEN /\ broker' = BeginCaller(broker)
            /\ op' = [op EXCEPT ![hostGen] =
                        [NoOp EXCEPT !.kind = "read", !.pc = "asked",
                                     !.token = broker.caller + 1, !.rev = broker.rev]]
       ELSE UNCHANGED <<broker, op>>
    /\ UNCHANGED <<hostGen, serverVars, lease, activeGen, signature, known, disposed,
                   changes, overrun>>

Dispose ==
    /\ ~disposed /\ disposed' = TRUE
    /\ broker' = BeginCaller(broker)
    /\ known' = <<>> /\ signature' = "unset"
    /\ lease' = IF lease = "held" THEN "released" ELSE lease
    /\ UNCHANGED <<hostVars, serverVars, activeGen, op, changes, overrun>>

Resumes(o) ==
    \/ ReadEnds(o) \/ LoginEnds(o) \/ KeyTaken(o) \/ KeyConfirmed(o)
    \/ CancelEnds(o) \/ LogoutEnds(o)

OpStep(o) ==
    \/ \E k \in Kinds, id \in Caller \cup {None} : Calls(o, k, id)
    \/ Proceeds(o) \/ Serves(o) \/ Confirms(o) \/ Fails(o) \/ Resumes(o)

Next ==
    \/ \E o \in Ops : OpStep(o)
    \/ \E o \in Caller, b \in BOOLEAN : LoginCompleted(o, b)
    \/ AccountUpdated \/ \E a \in Accounts : AccountChanges(a)
    \/ RefreshAnswers \/ RefreshEnds \/ RefreshFails
    \/ LeaseGranted \/ LeaseRefused
    \/ HostStops \/ (\E b \in BOOLEAN : HostStarts(b)) \/ HostReady \/ Dispose

Spec == Init /\ [][Next]_vars

-----------------------------------------------------------------------------
(* Properties                                                              *)

TypeOK ==
    /\ lease \in {None, "asked", "held", "released"}
    /\ broker.state \in {"inactive", "authenticating", "authenticated", "unauthenticated",
                         "error", "disconnected"}
    /\ broker.account \in Accounts /\ Len(known) <= MaxKnownLogins
    /\ \A o \in Ops : op[o].pc \in {"idle", "lease", "asked", "answered", "confirm",
                                    "confirmed", "done"}

\* Nothing is under way between the broker and the server.
Quiet ==
    /\ lease = "held" /\ Talks /\ owed = <<>> /\ broker.flightPc = "idle"
    /\ \A o \in Ops : op[o].pc \in {"idle", "done"}

\* When nothing is under way, an account that is shown is the server's, whichever of the
\* answers, notifications and refreshes came last (but see Overruns).
ShownIsTrue ==
    Quiet /\ ~overrun /\ broker.state = "authenticated" => broker.account = account

\* "authenticating" is shown only while a login is being asked for or the user has one open.
AuthenticatingIsOpen ==
    Quiet /\ broker.state = "authenticating" =>
        broker.pending \in Caller /\ Active(broker.pending)

\* A disposed broker keeps no lease, also when it was granted late.
LeaseIsReturned == disposed => lease # "held"
=============================================================================
