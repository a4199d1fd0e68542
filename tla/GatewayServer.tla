---------------------------- MODULE GatewayServer ----------------------------
(***************************************************************************)
(* The life of the startup gateway: StartupCoordinator of startup.rs binds *)
(* it against a deadline and falls back to the legacy frontend, and        *)
(* StartupGateway of startup_gateway.rs accepts connections until it is    *)
(* shut down, aborted or dropped.  The bind future, the accept task, the   *)
(* connections and the caller run in tasks of their own.                   *)
(***************************************************************************)
EXTENDS Naturals

CONSTANT Slot     \* permits of the connection limit, and of the tunnel limit

VARIABLES
    launch, outcome,    \* launch_with_gateway_bind, and what it returned
    pending,            \* what begin_launch gave to the shell
    cancelled,          \* GatewayBindCancellation
    bind, bindResult,   \* bind_cancellable_observed, and what it returned
    accept,             \* the accept task
    listening,          \* the listener is open
    stopSent,           \* the watch channel `shutdown'
    stopSeen,           \* the accept loop sent accept_stopped
    stopping,           \* GatewayState.shutdown was called
    conns,              \* the connections, by permit
    admitting, tunnels, \* TunnelRegistry
    shut                \* StartupGateway.shutdown

launchVars == <<launch, outcome, pending, cancelled>>
bindVars == <<bind, bindResult>>
acceptVars == <<accept, listening, stopSeen>>
trafficVars == <<conns, admitting, tunnels>>
vars == <<launchVars, bindVars, acceptVars, trafficVars, stopSent, stopping, shut>>

ConnStates == {"free", "request", "stream", "aborted"}
TunnelStates == {"free", "open", "aborted"}

TypeOK ==
    /\ launch \in {"idle", "binding", "cleaning", "aborting", "decided", "done"}
    /\ outcome \in {"none", "gateway", "explicit", "fallback", "error"}
    /\ pending \in {"none", "waiting", "running", "completed"}
    /\ bind \in {"none", "inventory", "listen", "spawn", "ready", "commit", "join", "over"}
    /\ bindResult \in {"none", "gateway", "failed", "dropped"}
    /\ accept \in {"none", "starting", "accepting", "draining", "tunnels", "aborted", "gone"}
    /\ {cancelled, listening, stopSent, stopSeen, stopping, admitting} \subseteq BOOLEAN
    /\ conns \in [Slot -> ConnStates] /\ tunnels \in [Slot -> TunnelStates]
    /\ shut \in {"none", "waitstop", "waittask", "join", "lastjoin", "done", "dropped"}

Init ==
    /\ launch = "idle" /\ outcome = "none" /\ pending = "none" /\ cancelled = FALSE
    /\ bind = "none" /\ bindResult = "none"
    /\ accept = "none" /\ listening = FALSE /\ stopSeen = FALSE
    /\ conns = [s \in Slot |-> "free"] /\ admitting = TRUE
    /\ tunnels = [s \in Slot |-> "free"]
    /\ stopSent = FALSE /\ stopping = FALSE /\ shut = "none"

AcceptAlive == accept \in {"starting", "accepting", "draining", "tunnels"}

\* JoinHandle::abort: the task ends when the runtime polls it next.
AbortTask == accept' = (IF AcceptAlive THEN "aborted" ELSE accept)
           /\ UNCHANGED <<listening, stopSeen>>
-----------------------------------------------------------------------------
(* StartupCoordinator *)

\* The legacy mode binds nothing; begin_launch waits for the bind to start or to end.
Begins ==
    /\ launch = "idle" /\ pending' = "waiting"
    /\ \/ launch' = "binding" /\ bind' = "inventory" /\ UNCHANGED outcome
       \/ launch' = "done" /\ outcome' = "explicit" /\ UNCHANGED bind
       \/ launch' = "done" /\ outcome' = "fallback" /\ UNCHANGED bind   \* no budget is left
    /\ UNCHANGED <<cancelled, bindResult, acceptVars, trafficVars, stopSent, stopping, shut>>

BindIsObserved ==
    /\ pending = "waiting"
    /\ \/ launch = "done" /\ pending' = "completed"
       \/ launch # "done" /\ bind # "none" /\ pending' = "running"
    /\ UNCHANGED <<launch, outcome, cancelled, bindVars, acceptVars, trafficVars, stopSent,
                   stopping, shut>>

\* The gateway is kept only when the backend generation could begin: a gateway whose
\* accept loop has failed refuses it, and is dropped with the error.
BindReturns ==
    /\ launch = "binding" /\ bind = "over" /\ launch' = "done"
    /\ \/ bindResult = "gateway" /\ ~stopping /\ outcome' = "gateway"
          /\ UNCHANGED <<acceptVars, stopSent, shut>>
       \/ bindResult = "gateway" /\ stopping /\ outcome' = "error"
          /\ stopSent' = TRUE /\ shut' = "dropped" /\ AbortTask
       \/ bindResult # "gateway" /\ outcome' = "fallback"
          /\ UNCHANGED <<acceptVars, stopSent, shut>>
    /\ UNCHANGED <<pending, cancelled, bindVars, trafficVars, stopping>>

BindDeadline ==
    /\ launch = "binding" /\ bind # "over"
    /\ cancelled' = TRUE /\ launch' = "cleaning"
    /\ UNCHANGED <<outcome, pending, bindVars, acceptVars, trafficVars, stopSent, stopping,
                   shut>>

AbortLate == stopSent' = TRUE /\ stopping' = TRUE /\ AbortTask

\* A bind that ended although it was cancelled: a gateway is aborted and joined.
CancelledBindReturns ==
    /\ launch = "cleaning" /\ bind = "over"
    /\ \/ bindResult = "gateway" /\ launch' = "aborting" /\ AbortLate
       \/ bindResult # "gateway" /\ launch' = "decided"
          /\ UNCHANGED <<acceptVars, stopSent, stopping>>
    /\ UNCHANGED <<outcome, pending, cancelled, bindVars, trafficVars, shut>>

\* The cleanup deadline: the bind future is dropped where it waits, and the accept task
\* it had spawned, which then holds the listener, is aborted by the drop of PendingAcceptTask.
CleanupDeadline ==
    /\ launch = "cleaning" /\ bind # "over"
    /\ bind' = "over" /\ bindResult' = "dropped" /\ launch' = "decided"
    /\ listening' = (listening /\ accept # "none")
    /\ accept' = (IF AcceptAlive THEN "aborted" ELSE accept)
    /\ UNCHANGED <<outcome, pending, cancelled, stopSeen, trafficVars, stopSent, stopping,
                   shut>>

LateGatewayIsGone ==
    /\ launch = "aborting" /\ accept = "gone" /\ launch' = "decided"
    /\ UNCHANGED <<outcome, pending, cancelled, bindVars, acceptVars, trafficVars, stopSent,
                   stopping, shut>>

FallsBack ==
    /\ launch = "decided" /\ launch' = "done" /\ outcome' = "fallback"
    /\ UNCHANGED <<pending, cancelled, bindVars, acceptVars, trafficVars, stopSent,
                   stopping, shut>>

LaunchStep ==
    \/ BindIsObserved \/ BindReturns \/ BindDeadline \/ CancelledBindReturns
    \/ CleanupDeadline \/ LateGatewayIsGone \/ FallsBack
-----------------------------------------------------------------------------
(* StartupGateway::bind_cancellable_observed *)

BindEnds(result) == bind' = "over" /\ bindResult' = result

\* build_static_inventory checks the cancellation at every entry, and can fail.
InventoryEnds ==
    /\ bind = "inventory"
    /\ \/ ~cancelled /\ bind' = "listen" /\ UNCHANGED bindResult
       \/ BindEnds("failed")
    /\ UNCHANGED <<launchVars, acceptVars, trafficVars, stopSent, stopping, shut>>

\* The listener is dropped with the future when the cancellation is seen.
ListenerBinds ==
    /\ bind = "listen"
    /\ \/ ~cancelled /\ bind' = "spawn" /\ listening' = TRUE /\ UNCHANGED bindResult
       \/ BindEnds("failed") /\ UNCHANGED listening
    /\ UNCHANGED <<launchVars, accept, stopSeen, trafficVars, stopSent, stopping, shut>>

AcceptSpawned ==
    /\ bind = "spawn"
    /\ \/ ~cancelled /\ bind' = "ready" /\ accept' = "starting"
          /\ UNCHANGED <<bindResult, listening>>
       \/ cancelled /\ BindEnds("failed") /\ listening' = FALSE /\ UNCHANGED accept
    /\ UNCHANGED <<launchVars, stopSeen, trafficVars, stopSent, stopping, shut>>

\* Ready and cancelled race in a biased select, and the cancellation is read once more.
MayKeep == (accept = "accepting" \/ stopSeen) /\ ~cancelled

AcceptIsReady ==
    /\ bind = "ready" /\ MayKeep /\ bind' = "commit"
    /\ UNCHANGED <<launchVars, bindResult, acceptVars, trafficVars, stopSent, stopping, shut>>

\* cancel_and_join
GivesUp ==
    /\ bind = "ready" /\ (cancelled \/ (accept = "gone" /\ ~stopSeen)) /\ bind' = "join"
    /\ stopping' = TRUE /\ stopSent' = TRUE /\ AbortTask
    /\ UNCHANGED <<launchVars, bindResult, trafficVars, shut>>

AcceptIsJoined ==
    /\ bind = "join" /\ accept = "gone" /\ BindEnds("failed")
    /\ UNCHANGED <<launchVars, acceptVars, trafficVars, stopSent, stopping, shut>>

Commits ==
    /\ bind = "commit" /\ BindEnds("gateway")
    /\ UNCHANGED <<launchVars, acceptVars, trafficVars, stopSent, stopping, shut>>

BindStep ==
    InventoryEnds \/ ListenerBinds \/ AcceptSpawned \/ AcceptIsReady \/ GivesUp
    \/ AcceptIsJoined \/ Commits
-----------------------------------------------------------------------------
(* run_accept_loop *)

ReceiverWaits == bind = "ready"

AcceptStarts ==
    /\ accept = "starting"
    /\ IF ReceiverWaits
       THEN accept' = "accepting" /\ UNCHANGED <<stopping, listening>>
       ELSE accept' = "gone" /\ stopping' = TRUE /\ listening' = FALSE
    /\ UNCHANGED <<launchVars, bindVars, stopSeen, trafficVars, stopSent, shut>>

\* The loop breaks on a stop, or on a listener that fails.
AcceptBreaks ==
    /\ accept = "accepting"
    /\ \/ stopSent /\ UNCHANGED stopping
       \/ ~stopSent /\ stopping' = TRUE
    /\ accept' = "draining" /\ listening' = FALSE /\ stopSeen' = TRUE
    /\ UNCHANGED <<launchVars, bindVars, trafficVars, stopSent, shut>>

\* No permit, no connection: the stream is dropped.
Connects(s) ==
    /\ accept = "accepting" /\ ~stopSent /\ conns[s] = "free"
    /\ conns' = [conns EXCEPT ![s] = "request"]
    /\ UNCHANGED <<launchVars, bindVars, acceptVars, admitting, tunnels, stopSent, stopping,
                   shut>>

\* A request is answered, or it opens the event stream, or it becomes a tunnel when the
\* registry still admits one.
RequestGoesOn(s) ==
    /\ conns[s] = "request"
    /\ \/ conns' = [conns EXCEPT ![s] = "free"] /\ UNCHANGED tunnels
       \/ conns' = [conns EXCEPT ![s] = "stream"] /\ UNCHANGED tunnels
       \/ admitting /\ tunnels[s] = "free" /\ ~stopping
          /\ tunnels' = [tunnels EXCEPT ![s] = "open"]
          /\ conns' = [conns EXCEPT ![s] = "free"]
    /\ UNCHANGED <<launchVars, bindVars, acceptVars, admitting, stopSent, stopping, shut>>

\* A stream and a tunnel of a gateway that stops end; a task that was aborted ends too.
StreamIsOver(s) == conns[s] = "stream" /\ stopping
StreamEnds(s) ==
    /\ StreamIsOver(s) \/ conns[s] = "aborted" \/ conns[s] = "stream"
    /\ conns' = [conns EXCEPT ![s] = "free"]
    /\ UNCHANGED <<launchVars, bindVars, acceptVars, admitting, tunnels, stopSent, stopping,
                   shut>>
TunnelEnds(s) ==
    /\ tunnels[s] # "free" /\ tunnels' = [tunnels EXCEPT ![s] = "free"]
    /\ UNCHANGED <<launchVars, bindVars, acceptVars, conns, admitting, stopSent, stopping,
                   shut>>

Busy == {s \in Slot : conns[s] # "free"}
OpenTunnels == {s \in Slot : tunnels[s] # "free"}
Aborted(f) == [s \in Slot |-> IF f[s] = "free" THEN "free" ELSE "aborted"]

DrainExpires ==
    /\ accept = "draining" /\ Busy # {} /\ conns' = Aborted(conns)
    /\ UNCHANGED <<launchVars, bindVars, acceptVars, admitting, tunnels, stopSent, stopping,
                   shut>>

\* The connections are gone: the tunnels are closed and drained.
Drained ==
    /\ accept = "draining" /\ Busy = {}
    /\ accept' = "tunnels" /\ admitting' = FALSE
    /\ UNCHANGED <<launchVars, bindVars, listening, stopSeen, conns, tunnels, stopSent,
                   stopping, shut>>

TunnelsDrained ==
    /\ accept = "tunnels"
    /\ \/ OpenTunnels = {} /\ accept' = "gone" /\ UNCHANGED tunnels
       \/ OpenTunnels # {} /\ tunnels' = Aborted(tunnels) /\ UNCHANGED accept
    /\ UNCHANGED <<launchVars, bindVars, listening, stopSeen, conns, admitting, stopSent,
                   stopping, shut>>

\* The aborted task drops its listener, and its connections with it; the registry of the
\* tunnels is dropped when no connection holds it.
TaskIsDropped ==
    /\ accept = "aborted" /\ accept' = "gone" /\ listening' = FALSE
    /\ conns' = Aborted(conns)
    /\ UNCHANGED <<launchVars, bindVars, stopSeen, admitting, tunnels, stopSent, stopping,
                   shut>>
RegistryIsDropped ==
    /\ accept = "gone" /\ Busy = {} /\ \E s \in Slot : tunnels[s] = "open"
    /\ tunnels' = Aborted(tunnels)
    /\ UNCHANGED <<launchVars, bindVars, acceptVars, conns, admitting, stopSent, stopping,
                   shut>>

AcceptStep ==
    \/ AcceptStarts \/ DrainExpires \/ Drained \/ TunnelsDrained
    \/ TaskIsDropped \/ RegistryIsDropped
    \/ (stopSent /\ AcceptBreaks)
    \/ \E s \in Slot : (StreamIsOver(s) \/ conns[s] = "aborted") /\ StreamEnds(s)
    \/ \E s \in Slot : (stopping \/ tunnels[s] = "aborted") /\ TunnelEnds(s)
-----------------------------------------------------------------------------
(* StartupGateway::shutdown and Drop *)

Owned == launch = "done" /\ outcome = "gateway"

AppShutsDown ==
    /\ Owned /\ shut = "none" /\ shut' = "waitstop" /\ stopSent' = TRUE
    /\ UNCHANGED <<launchVars, bindVars, acceptVars, trafficVars, stopping>>

AppDrops ==
    /\ Owned /\ shut = "none" /\ shut' = "dropped" /\ stopSent' = TRUE /\ AbortTask
    /\ UNCHANGED <<launchVars, bindVars, trafficVars, stopping>>

\* accept_stopped arrived, or its sender was dropped.
AcceptHasStopped ==
    /\ shut = "waitstop" /\ (stopSeen \/ accept = "gone")
    /\ shut' = "waittask" /\ stopping' = TRUE
    /\ UNCHANGED <<launchVars, bindVars, acceptVars, trafficVars, stopSent>>

\* One deadline bounds both waits; a task that misses it is aborted and joined.
ShutdownExpires ==
    /\ \/ shut = "waitstop" /\ ~stopSeen /\ accept # "gone" /\ shut' = "join"
       \/ shut = "waittask" /\ accept # "gone" /\ shut' = "lastjoin"
    /\ AbortTask
    /\ UNCHANGED <<launchVars, bindVars, trafficVars, stopSent, stopping>>

TaskJoined == shut \in {"join", "waittask", "lastjoin"} /\ accept = "gone"
ShutdownEnds ==
    /\ TaskJoined /\ shut' = "done" /\ stopping' = TRUE
    /\ UNCHANGED <<launchVars, bindVars, acceptVars, trafficVars, stopSent>>

ShutdownStep == AcceptHasStopped \/ ShutdownExpires \/ ShutdownEnds

Next ==
    \/ Begins \/ LaunchStep \/ BindStep \/ AcceptStep \/ AcceptBreaks \/ ShutdownStep
    \/ AppShutsDown \/ AppDrops
    \/ \E s \in Slot : Connects(s) \/ RequestGoesOn(s) \/ StreamEnds(s) \/ TunnelEnds(s)

\* The runtime polls its tasks and its timers; the walk of the frontend directory, the
\* clients and the shell may stop anywhere.
Spec ==
    /\ Init /\ [][Next]_vars
    /\ WF_vars(LaunchStep) /\ WF_vars(AcceptStep) /\ WF_vars(ShutdownStep)
-----------------------------------------------------------------------------
\* No launch that fell back to the legacy frontend leaves a gateway that accepts, and a
\* shutdown that returned leaves no accept task, no listener and no working connection.
NothingIsLeftListening ==
    /\ outcome \in {"fallback", "explicit"} => accept \in {"none", "aborted", "gone"}
    /\ bind = "over" /\ accept \in {"none", "gone"} => ~listening
    /\ shut = "done" =>
         /\ accept = "gone" /\ ~listening /\ stopping
         /\ \A s \in Slot : conns[s] \in {"free", "aborted"}

\* What has begun and must end: a launch although its bind hangs, a shutdown although the
\* clients stay, and what a gateway that is given up still has of connections and tunnels.
Duties ==
    << launch # "idle" /\ (launch # "done" \/ pending = "waiting"),
       shut \notin {"none", "done", "dropped"},
       shut \in {"done", "dropped"} /\ (accept # "gone" \/ Busy # {} \/ OpenTunnels # {}) >>
=============================================================================
