--------------------------- MODULE GatewayRequests ---------------------------
(***************************************************************************)
(* The requests of the startup gateway (startup_gateway.rs): the one-shot  *)
(* bootstrap, static files, the control routes and the proxy, whose        *)
(* requests wait for a backend and hold a lease of one generation, and     *)
(* the tunnels of WebSockets.                                              *)
(*                                                                         *)
(* Backend, supervisor and browser are the environment.  A connection      *)
(* carries one request after another; answers are not told apart.          *)
(***************************************************************************)
EXTENDS GatewayState, FiniteSets

CONSTANTS Connection, MaxWaiters, MaxTunnels

VARIABLES
    req,            \* the request of each connection: where it is, its kind, the generation
                    \* it waits for and the generation of its lease; "none" when answered
    stopped,        \* the state's shutdown flag
    accepting,      \* whether the registry still takes tunnels
    capability,     \* whether the bootstrap capability is unused
    session,        \* whether the browser holds the session's cookie
    pool,           \* the generation of the pooled client, 0 for none
    recorded,       \* the last generation whose RPC milestone was recorded
    pending,        \* RetryAdmission.pending
    drained         \* whether the accept loop has drained its connections

sharedVars == <<stopped, accepting, capability, session, pool, recorded, pending, drained>>
vars == <<gatewayVars, req, sharedVars>>

Kinds == {"bootstrap", "static", "status", "retry", "http", "socket", "malformed"}
NoRequest == [pc |-> "none", kind |-> "none", expected |-> 0, lease |-> 0]
At(r, pcs) == req[r].pc \in pcs
Sockets == {r \in Connection : req[r].kind = "socket"}
TunnelPermits == {r \in Sockets : ~At(r, {"routing"})}
Waiters == {r \in Connection : At(r, {"waiting"})}

TypeOK ==
    /\ GatewayTyped /\ {stopped, accepting, capability, session, pending, drained} \subseteq BOOLEAN
    /\ {pool, recorded} \subseteq 0..MaxGeneration
    /\ req \in [Connection ->
         [pc : {"none", "routing", "submitting", "retrying", "waiting", "leased", "checking",
                "uploading", "sent", "switching", "upgrading", "recording", "open"},
          kind : Kinds \cup {"none"}, expected : 0..MaxGeneration, lease : 0..MaxGeneration]]

Init ==
    /\ NewGateway
    /\ req = [r \in Connection |-> NoRequest]
    /\ stopped = FALSE /\ accepting = TRUE /\ capability = TRUE /\ session = FALSE
    /\ pool = 0 /\ recorded = 0 /\ pending = FALSE /\ drained = FALSE

Goes(r, pc) == req' = [req EXCEPT ![r].pc = pc]
Answers(r) == req' = [req EXCEPT ![r] = NoRequest]

-----------------------------------------------------------------------------
(* Routing                                                                 *)

Arrives(r) ==
    /\ At(r, {"none"}) /\ ~drained
    /\ \E k \in Kinds : req' = [req EXCEPT ![r].pc = "routing", ![r].kind = k]
    /\ UNCHANGED <<gatewayVars, sharedVars>>

\* The capability is taken under its lock, by the first who names it.
BootstrapTakes == capability' = FALSE
Bootstrap(r) ==
    /\ At(r, {"routing"}) /\ req[r].kind = "bootstrap"
    /\ IF capability THEN BootstrapTakes /\ session' = TRUE /\ Answers(r)
                     ELSE Answers(r) /\ UNCHANGED <<capability, session>>
    /\ UNCHANGED <<gatewayVars, stopped, accepting, pool, recorded, pending, drained>>

\* handle: envelope, route and session are checked before anything else.
Refuses(r) ==
    /\ At(r, {"routing"}) /\ req[r].kind # "bootstrap"
    /\ ~session \/ req[r].kind = "malformed"
    /\ Answers(r)
    /\ UNCHANGED <<gatewayVars, sharedVars>>
Routed(r, k) == At(r, {"routing"}) /\ session /\ req[r].kind = k

\* static_asset: the file is opened again and must still be the one of the inventory.
StaticAsset(r) ==
    /\ Routed(r, "static") /\ Answers(r)
    /\ UNCHANGED <<gatewayVars, sharedVars>>

StartupStatus(r) ==
    /\ Routed(r, "status") /\ Answers(r)
    /\ UNCHANGED <<gatewayVars, sharedVars>>

-----------------------------------------------------------------------------
(* Retries                                                                 *)

\* startup_retry: the snapshot first, the admission afterwards.
RetryIsRead(r) ==
    /\ Routed(r, "retry")
    /\ IF phase = "failed" /\ generation > 0
       THEN req' = [req EXCEPT ![r].pc = "submitting", ![r].expected = generation]
       ELSE Answers(r)
    /\ UNCHANGED <<gatewayVars, sharedVars>>

RetryIsFree == ~pending
RetryIsSubmitted(r) ==
    /\ At(r, {"submitting"})
    /\ IF RetryIsFree THEN Goes(r, "retrying") /\ pending' = TRUE
                      ELSE Answers(r) /\ UNCHANGED pending
    /\ UNCHANGED <<gatewayVars, stopped, accepting, capability, session, pool, recorded, drained>>

\* The coordinator begins the next generation, or cannot; the request is dropped with its flag.
RetryCompletes(r) ==
    /\ At(r, {"retrying"}) /\ pending' = FALSE
    /\ IF MayBegin(req[r].expected) THEN Begins /\ Answers(r)
                                    ELSE Answers(r) /\ UNCHANGED gatewayVars
    /\ UNCHANGED <<stopped, accepting, capability, session, pool, recorded, drained>>

-----------------------------------------------------------------------------
(* The proxy                                                               *)

TunnelIsFree == accepting /\ Cardinality(TunnelPermits) < MaxTunnels
WaiterIsFree == Cardinality(Waiters) < MaxWaiters

Settled(r, result) ==
    IF result = "ready"
    THEN req' = [req EXCEPT ![r].pc = "leased", ![r].lease = generation]
    ELSE Answers(r)

\* wait_for_backend_lease: a result at once, or a place among the waiters.
AsksForBackend(r) ==
    /\ Routed(r, "http") \/ Routed(r, "socket")
    /\ LET result == PublishedResult(generation) IN
       IF req[r].kind = "socket" /\ ~TunnelIsFree THEN Answers(r)
       ELSE IF result # "none"
       THEN IF result = "ready"
            THEN req' = [req EXCEPT ![r].pc = "leased", ![r].expected = generation,
                                    ![r].lease = generation]
            ELSE Answers(r)
       ELSE IF stopped \/ ~WaiterIsFree THEN Answers(r)
       ELSE req' = [req EXCEPT ![r].pc = "waiting", ![r].expected = generation]
    /\ UNCHANGED <<gatewayVars, sharedVars>>

ResultFor(r) == IF stopped THEN "stopping" ELSE PublishedResult(req[r].expected)
Wakes(r) ==
    /\ At(r, {"waiting"}) /\ ResultFor(r) # "none" /\ Settled(r, ResultFor(r))
    /\ UNCHANGED <<gatewayVars, sharedVars>>
WaitTimesOut(r) ==
    /\ At(r, {"waiting"}) /\ Answers(r)
    /\ UNCHANGED <<gatewayVars, sharedVars>>

\* client_for_generation: the pool is never given back to an older generation.
PoolAllows(r) == pool <= req[r].lease
TakesClient(r) ==
    /\ At(r, {"leased"})
    /\ IF PoolAllows(r) THEN pool' = req[r].lease /\ Goes(r, "checking")
                        ELSE Answers(r) /\ UNCHANGED pool
    /\ UNCHANGED <<gatewayVars, stopped, accepting, capability, session, recorded, pending, drained>>

\* The lease is checked once more before the request is sent.
Sends(r) ==
    /\ At(r, {"checking"})
    /\ IF LeaseIsCurrent(req[r].lease)
       THEN Goes(r, IF req[r].kind = "http" THEN "uploading" ELSE "sent")
       ELSE Answers(r)
    /\ UNCHANGED <<gatewayVars, sharedVars>>

\* The header timeout of a request begins when its body was uploaded.
UploadEnds(r) ==
    /\ At(r, {"uploading"}) /\ Goes(r, "sent")
    /\ UNCHANGED <<gatewayVars, sharedVars>>
Responds(r) ==
    /\ At(r, {"uploading", "sent"})
    /\ IF req[r].kind = "http" THEN Answers(r) ELSE Goes(r, "switching")
    /\ UNCHANGED <<gatewayVars, sharedVars>>
ResponseFails(r) ==
    /\ At(r, {"uploading", "sent"}) /\ Answers(r)
    /\ UNCHANGED <<gatewayVars, sharedVars>>
ResponseTimesOut(r) ==
    /\ At(r, {"sent"}) /\ Answers(r)
    /\ UNCHANGED <<gatewayVars, sharedVars>>

-----------------------------------------------------------------------------
(* Tunnels                                                                 *)

\* The 101 is valid and its backend is still the current one: the registry takes the tunnel.
Switches(r) ==
    /\ At(r, {"switching"})
    /\ IF ~LeaseIsCurrent(req[r].lease) THEN Answers(r)
       ELSE IF accepting THEN Goes(r, "upgrading") ELSE Answers(r)
    /\ UNCHANGED <<gatewayVars, sharedVars>>

TunnelUpgrades(r) ==
    /\ At(r, {"upgrading"}) /\ ~stopped /\ LeaseIsCurrent(req[r].lease) /\ Goes(r, "recording")
    /\ UNCHANGED <<gatewayVars, sharedVars>>

\* record_connected: a tunnel of an older generation may come to it late.
Records(r) == IF req[r].lease > recorded THEN req[r].lease ELSE recorded
TunnelOpens(r) ==
    /\ At(r, {"recording"}) /\ Goes(r, "open") /\ recorded' = Records(r)
    /\ UNCHANGED <<gatewayVars, stopped, accepting, capability, session, pool, pending, drained>>

TunnelIsOver(r) == stopped \/ ~LeaseIsCurrent(req[r].lease)
TunnelStops(r) ==
    /\ At(r, {"upgrading", "open"}) /\ TunnelIsOver(r) /\ Answers(r)
    /\ UNCHANGED <<gatewayVars, sharedVars>>
UpgradeTimesOut(r) ==
    /\ At(r, {"upgrading"}) /\ Answers(r)
    /\ UNCHANGED <<gatewayVars, sharedVars>>
SideCloses(r) ==
    /\ At(r, {"open"}) /\ Answers(r)
    /\ UNCHANGED <<gatewayVars, sharedVars>>

-----------------------------------------------------------------------------
(* The supervisor of the backend, and the end                              *)

SupervisorBegins == MayBegin(0) /\ Begins /\ UNCHANGED <<req, sharedVars>>
BackendIsReady == ReadyAccepted(generation) /\ Readies /\ UNCHANGED <<req, sharedVars>>
BackendFails ==
    /\ phase \in {"starting", "ready"} /\ Fails(generation) /\ UNCHANGED <<req, sharedVars>>

StateShutdown ==
    /\ ~stopped /\ ShutsDown /\ stopped' = TRUE
    /\ UNCHANGED <<req, accepting, capability, session, pool, recorded, pending, drained>>

\* The connections end or are aborted; a browser that reuses one is a new request.
ConnectionsDrain ==
    /\ stopped /\ ~drained /\ drained' = TRUE
    /\ req' = [r \in Connection |->
                 IF At(r, {"upgrading", "recording", "open"}) THEN req[r] ELSE NoRequest]
    /\ pending' = FALSE
    /\ UNCHANGED <<gatewayVars, stopped, accepting, capability, session, pool, recorded>>

\* TunnelRegistry.shutdown: no further tunnel, and those that do not end are aborted.
TunnelsShutDown ==
    /\ drained /\ accepting /\ accepting' = FALSE
    /\ req' = [r \in Connection |->
                 IF At(r, {"upgrading", "recording", "open"}) THEN NoRequest ELSE req[r]]
    /\ UNCHANGED <<gatewayVars, stopped, capability, session, pool, recorded, pending, drained>>

-----------------------------------------------------------------------------
\* What the gateway's tasks and timers do; ConnectionsDrain and TunnelsShutDown have a deadline.
RequestStep(r) ==
    \/ Bootstrap(r) \/ Refuses(r) \/ StaticAsset(r) \/ StartupStatus(r)
    \/ RetryIsRead(r) \/ RetryIsSubmitted(r) \/ RetryCompletes(r)
    \/ AsksForBackend(r) \/ Wakes(r) \/ WaitTimesOut(r) \/ TakesClient(r) \/ Sends(r)
    \/ ResponseTimesOut(r) \/ Switches(r) \/ TunnelOpens(r) \/ TunnelStops(r)
    \/ UpgradeTimesOut(r)
Peers(r) ==
    Arrives(r) \/ UploadEnds(r) \/ Responds(r) \/ ResponseFails(r) \/ TunnelUpgrades(r)
    \/ SideCloses(r)
Supervision == SupervisorBegins \/ BackendIsReady \/ BackendFails \/ StateShutdown
Drains == ConnectionsDrain \/ TunnelsShutDown

Next == (\E r \in Connection : RequestStep(r) \/ Peers(r)) \/ Supervision \/ Drains
Spec ==
    /\ Init /\ [][Next]_vars
    /\ \A r \in Connection : WF_vars(RequestStep(r))
    /\ WF_vars(Drains)

-----------------------------------------------------------------------------
(* Properties                                                              *)

\* Waiters and tunnels stay within their permits; a waiter gets the generation it came in,
\* never a later one; the retry flag is up exactly while a retry is under way; the session
\* costs the capability; after the end nothing is left of a connection or a tunnel.
RequestsAgree ==
    /\ Cardinality(Waiters) <= MaxWaiters /\ Cardinality(TunnelPermits) <= MaxTunnels
    /\ \A r \in Connection : req[r].lease # 0 => req[r].lease = req[r].expected
    /\ pending <=> \E r \in Connection : At(r, {"retrying"})
    /\ session <=> ~capability
    /\ ~accepting => \A r \in Connection : At(r, {"none"})

\* What has begun and must end, of one connection like the others: a request that is neither
\* answered nor still uploaded by its browser, and a tunnel to a generation that is gone.
Duties ==
    LET r == CHOOSE x \in Connection : TRUE IN
    << ~At(r, {"none", "uploading", "open"}), At(r, {"open"}) /\ ~LeaseIsCurrent(req[r].lease) >>
=============================================================================
