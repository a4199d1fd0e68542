--------------------------- MODULE BackendReadiness ---------------------------
(***************************************************************************)
(* How the shell finds out that its backend listens (startup.rs,           *)
(* sidecar.rs): the choice of the transport, the probe of the port and the *)
(* startup state that publishes it.  The port may be held by the backend's *)
(* root, by a descendant when Theia forks a cluster, or by a stranger that *)
(* was faster.  With direct pipes a connection counts only if the listener *)
(* in the system's table is among the root's descriptors: two reads, one   *)
(* after the other.  With a pseudo terminal the backend says so itself.    *)
(***************************************************************************)
EXTENDS Naturals, FiniteSets

CONSTANT MaxRounds      \* probes before the startup deadline

VARIABLES
    wish,           \* RIDE_BACKEND_TRANSPORT, RIDE_BACKEND_WATCHER_PROCESS and the platform
    plan,           \* BackendSpawnPlan: "none", "refused", or the strategy
    clustered,      \* the backend listens in a descendant
    root,           \* "none", "live", "exited"
    listener,       \* who listens on the port
    reported,       \* what the backend wrote on its terminal has confirmed the port
    probe, round,
    row,            \* the listener found in the table
    result,
    startup,        \* BackendStartupState
    stood, wasOwned     \* history: the backend listened during a whole round; the root held
                        \* the listener when its descriptors were read

worldVars == <<root, listener, reported>>
probeVars == <<probe, round, row, result>>
history == <<stood, wasOwned>>
vars == <<wish, plan, clustered, worldVars, probeVars, startup, history>>

Owner == {"root", "descendant", "stranger"}
Cleared == [pid |-> FALSE, connected |-> FALSE, ready |-> FALSE, port |-> FALSE]

TypeOK ==
    /\ plan \in {"none", "refused", "direct", "pty"} /\ clustered \in BOOLEAN
    /\ root \in {"none", "live", "exited"} /\ listener \in Owner \cup {"none"}
    /\ probe \in {"idle", "connect", "table", "descriptors", "sleep", "over"}
    /\ round \in 0..MaxRounds /\ row \in Owner \cup {"none"}
    /\ result \in {"none", "ready", "timeout", "error", "exited"}
    /\ startup \in [{"pid", "connected", "ready", "port"} -> BOOLEAN]
    /\ {reported, stood, wasOwned} \subseteq BOOLEAN

Init ==
    /\ wish \in [transport : {"direct", "pty", "other"}, cluster : BOOLEAN, windows : BOOLEAN]
    /\ plan = "none" /\ clustered = FALSE
    /\ root = "none" /\ listener \in {"none", "stranger"} /\ reported = FALSE
    /\ probe = "idle" /\ round = 0 /\ row = "none" /\ result = "none"
    /\ startup = Cleared /\ stood = FALSE /\ wasOwned = FALSE
-----------------------------------------------------------------------------
(* BackendSpawnPlan *)

FallsBack == wish.windows /\ wish.transport = "pty"

TransportFits == wish.cluster => wish.transport # "direct"

Chosen ==
    CASE wish.transport = "other" -> "refused"
      [] FallsBack -> "direct"
      [] OTHER -> IF TransportFits THEN wish.transport ELSE "refused"

\* On Windows the pseudo terminal is given up, and the cluster with it.
Plans ==
    /\ plan = "none" /\ plan' = Chosen
    /\ clustered' = (wish.cluster /\ ~FallsBack)
    /\ UNCHANGED <<wish, worldVars, probeVars, startup, history>>

\* ensure_backend_port_available: a port in use is refused, one taken later is not seen.
Spawns ==
    /\ plan \in {"direct", "pty"} /\ root = "none" /\ result = "none"
    /\ IF listener # "none"
       THEN result' = "error" /\ UNCHANGED <<root, startup, probe>>
       ELSE /\ root' = "live" /\ startup' = [Cleared EXCEPT !.pid = TRUE]
            /\ probe' = "connect" /\ UNCHANGED result
    /\ stood' = FALSE
    /\ UNCHANGED <<wish, plan, clustered, listener, reported, round, row, wasOwned>>
-----------------------------------------------------------------------------
(* The world *)

Backend == IF clustered THEN "descendant" ELSE "root"

\* The history of a round ends whenever the listener changes.
Listens ==
    /\ listener = "none"
    /\ \E o \in Owner : (o # "stranger" => o = Backend /\ root = "live") /\ listener' = o
    /\ stood' = FALSE /\ UNCHANGED <<wish, plan, clustered, root, reported, probeVars, startup, wasOwned>>

Closes ==
    /\ listener # "none" /\ listener' = "none" /\ stood' = FALSE
    /\ UNCHANGED <<wish, plan, clustered, root, reported, probeVars, startup, wasOwned>>

Reports ==
    /\ plan = "pty" /\ root = "live" /\ listener = Backend /\ ~reported /\ reported' = TRUE
    /\ UNCHANGED <<wish, plan, clustered, root, listener, probeVars, startup, history>>

RootExits ==
    /\ root = "live" /\ root' = "exited"
    /\ listener' = IF listener = "stranger" THEN listener ELSE "none"
    /\ stood' = FALSE
    /\ UNCHANGED <<wish, plan, clustered, reported, probeVars, startup, wasOwned>>
-----------------------------------------------------------------------------
(* wait_for_owned_loopback and wait_for_node_backend_readiness *)

\* After a round without an answer: sleep, or the deadline.
Misses == probe' = "sleep" /\ UNCHANGED <<round, result>>

\* A connection is made to whoever listens; the terminal's backend must have spoken before.
Connects ==
    /\ probe = "connect" /\ stood' = (listener = Backend /\ (plan = "pty" => reported))
    /\ CASE plan = "direct" /\ listener # "none" -> probe' = "table" /\ UNCHANGED <<round, result>>
         [] plan = "pty" /\ listener # "none" /\ reported ->
              probe' = "over" /\ result' = "ready" /\ UNCHANGED round
         [] OTHER -> Misses
    /\ UNCHANGED <<wish, plan, clustered, worldVars, row, startup, wasOwned>>

ReadsTable ==
    /\ probe = "table" /\ row' = listener
    /\ \/ listener = "none" /\ Misses
       \/ listener # "none" /\ probe' = "descriptors" /\ UNCHANGED <<round, result>>
       \/ probe' = "over" /\ result' = "error" /\ UNCHANGED round
    /\ UNCHANGED <<wish, plan, clustered, worldVars, startup, history>>

RootOwns == row = "root" /\ listener = "root"

\* The descriptors of a root that has gone cannot be read.
ReadsDescriptors ==
    /\ probe = "descriptors"
    /\ CASE root = "exited" -> probe' = "over" /\ result' = "error" /\ UNCHANGED round
         [] root # "exited" /\ RootOwns -> probe' = "over" /\ result' = "ready" /\ UNCHANGED round
         [] OTHER -> Misses
    /\ wasOwned' = (listener = "root")
    /\ UNCHANGED <<wish, plan, clustered, worldVars, row, startup, stood>>

Sleeps ==
    /\ probe = "sleep"
    /\ IF round = MaxRounds
       THEN probe' = "over" /\ result' = "timeout" /\ UNCHANGED round
       ELSE probe' = "connect" /\ round' = round + 1 /\ UNCHANGED result
    /\ UNCHANGED <<wish, plan, clustered, worldVars, row, startup, history>>

\* The select prefers the exit of the root to the answer of the probe.
SeesExit ==
    /\ root = "exited" /\ result \in {"none", "ready"} /\ ~startup.ready /\ probe # "idle"
    /\ probe' = "over" /\ result' = "exited"
    /\ UNCHANGED <<wish, plan, clustered, worldVars, round, row, startup, history>>

\* BackendStartupState.observe: the port is published once, and cleared with the tree.
Observes ==
    /\ probe = "over" /\ startup.pid
    /\ \/ result = "ready" /\ ~startup.ready
          /\ startup' = [pid |-> TRUE, connected |-> TRUE, ready |-> TRUE, port |-> TRUE]
       \/ result \notin {"none", "ready"} /\ startup' = Cleared
       \/ startup.ready /\ startup' = Cleared       \* exit or shutdown later
    /\ UNCHANGED <<wish, plan, clustered, worldVars, probeVars, history>>

ProbeStep == Plans \/ Spawns \/ Connects \/ ReadsTable \/ ReadsDescriptors \/ Sleeps \/ SeesExit \/ Observes
Next == ProbeStep \/ Listens \/ Closes \/ Reports \/ RootExits

Spec == Init /\ [][Next]_vars /\ WF_vars(ProbeStep)
-----------------------------------------------------------------------------
\* A backend that listens during a whole round of the probe is found in that round, with
\* every transport and arrangement of processes the plan admits.
BackendIsFound == probe = "sleep" => ~stood

\* With direct pipes the root held the listener when it was found ready, although a stranger
\* may have taken the port at any moment; a published port belongs to a spawned process.
ReadinessIsTruthful ==
    /\ result = "ready" /\ plan = "direct" => wasOwned
    /\ startup.port => startup.pid /\ startup.connected

\* What has begun and must end, by its deadline at the latest: a probe.
Duties == << probe \notin {"idle", "over"} >>
=============================================================================
