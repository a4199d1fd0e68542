------------------------------ MODULE PtyBackend ------------------------------
(***************************************************************************)
(* One start of the backend in a pseudo terminal on Unix (sidecar.rs,      *)
(* start_node_backend_process).  The start task, a watcher thread and a    *)
(* caller that stops the backend share its tree.  The watcher sees the     *)
(* root's exit without reaping it, then waits for a message on the stop    *)
(* channel before it kills what is left, reaps the root and releases the   *)
(* ownership.  Before there is a watcher a failed cleanup is retried by a  *)
(* thread of its own.  The senders of the stop channel live as long as the *)
(* tree is owned, so the channel is never closed before a message came.    *)
(***************************************************************************)
EXTENDS Naturals, Sequences

CONSTANTS MaxStops, MaxFailures     \* stop_backend calls; killings and reapings that fail

VARIABLES
    root, descendants,      \* the root process, and whether it left others behind
    start, watcher, retry, stopper,
    held,                   \* BackendOwnershipState: who is registered
    stopping, rootExited,
    port,                   \* backend_port is set
    stops,                  \* messages in the stop channel
    exitSent,               \* the exit channel holds the root's exit
    evidence,               \* the cleanup channel
    outcome,                \* what the start returned
    reported,               \* backend_failed was published
    asked, failures

procVars == <<root, descendants>>
ownVars == <<held, stopping, rootExited, port>>
chanVars == <<stops, exitSent, evidence>>
countVars == <<asked, failures>>
vars == <<procVars, start, watcher, retry, stopper, ownVars, chanVars, outcome, reported,
          countVars>>

TypeOK ==
    /\ root \in {"none", "live", "exited", "reaped"} /\ descendants \in BOOLEAN
    /\ start \in {"reserved", "spawned", "registered", "terminating", "reaping", "waiting",
                  "publishing", "request", "signal", "receive", "returned"}
    /\ watcher \in {"none", "watching", "exited", "killing", "reaping", "done"}
    /\ retry \in {"none", "killing", "reaping", "done"} /\ stopper \in {"idle", "killing"}
    /\ held \in {"start", "tree", "nobody"}
    /\ {stopping, rootExited, port, exitSent, reported} \subseteq BOOLEAN
    /\ stops \in 0..MaxStops + 1 /\ evidence \in Seq({"ok", "error"})
    /\ outcome \in {"none", "ready", "failed", "unclean", "unclaimed"}
    /\ asked \in 0..MaxStops /\ failures \in 0..MaxFailures

Init ==
    /\ root = "none" /\ descendants = FALSE /\ start = "reserved" /\ watcher = "none"
    /\ retry = "none" /\ stopper = "idle" /\ held = "start" /\ stopping = FALSE
    /\ rootExited = FALSE /\ port = FALSE /\ stops = 0 /\ exitSent = FALSE /\ evidence = <<>>
    /\ outcome = "none" /\ reported = FALSE /\ asked = 0 /\ failures = 0

CanFail == failures < MaxFailures /\ failures' = failures + 1
Killed ==
    /\ root' = (IF root = "live" THEN "exited" ELSE root) /\ descendants' = FALSE
    /\ UNCHANGED failures
NotKilled == CanFail /\ UNCHANGED procVars
Reaped == root' = "reaped" /\ UNCHANGED <<descendants, failures>>

\* Everything that names the tree goes with it.
Clear == held' = "nobody" /\ stopping' = FALSE /\ rootExited' = FALSE /\ port' = FALSE
Returns(o) == start' = "returned" /\ outcome' = o
OwnsActive == held = "tree" /\ ~stopping /\ ~rootExited

-----------------------------------------------------------------------------
(* The processes of the backend                                            *)

Forks ==
    /\ root = "live" /\ descendants' = TRUE
    /\ UNCHANGED <<root, start, watcher, retry, stopper, ownVars, chanVars, outcome, reported,
                   countVars>>

Exits ==
    /\ root = "live" /\ root' = "exited"
    /\ UNCHANGED <<descendants, start, watcher, retry, stopper, ownVars, chanVars, outcome,
                   reported, countVars>>

-----------------------------------------------------------------------------
(* The start task                                                          *)

Spawns ==
    /\ start = "reserved"
    /\ \/ root' = "live" /\ start' = "spawned" /\ UNCHANGED <<ownVars, outcome>>
       \/ Returns("failed") /\ Clear /\ UNCHANGED root
    /\ UNCHANGED <<descendants, watcher, retry, stopper, chanVars, reported, countVars>>

\* A root without an identity or a group of its own is killed and reaped, or left; nothing
\* is registered that could still own it.
FailsEarly ==
    /\ start = "spawned" /\ Clear
    /\ \/ root' = "reaped" /\ descendants' = FALSE /\ Returns("failed") /\ UNCHANGED failures
       \/ NotKilled /\ Returns("unclaimed")
    /\ UNCHANGED <<watcher, retry, stopper, chanVars, reported, asked>>

\* A start that was cancelled meanwhile hands its tree over all the same, as one to stop.
Registers ==
    /\ start = "spawned" /\ held' = "tree"
    /\ start' = (IF stopping THEN "terminating" ELSE "registered")
    /\ UNCHANGED <<procVars, watcher, retry, stopper, stopping, rootExited, port, chanVars,
                   outcome, reported, countVars>>

\* The watcher starts with the reader of the terminal, or there is neither.
WatcherStarts ==
    /\ start = "registered"
    /\ \/ watcher' = "watching" /\ start' = "waiting"
       \/ start' = "terminating" /\ UNCHANGED watcher
    /\ UNCHANGED <<procVars, retry, stopper, ownVars, chanVars, outcome, reported, countVars>>

RetriesCleanup == retry' = "killing" /\ Returns("unclean")

CleansUp ==
    /\ start = "terminating"
    /\ \/ Killed /\ start' = "reaping" /\ UNCHANGED <<retry, outcome>>
       \/ NotKilled /\ RetriesCleanup
    /\ UNCHANGED <<watcher, stopper, ownVars, chanVars, reported, asked>>

ReapsIt ==
    /\ start = "reaping"
    /\ \/ Reaped /\ Clear /\ Returns("failed") /\ UNCHANGED retry
       \/ NotKilled /\ RetriesCleanup /\ UNCHANGED ownVars
    /\ UNCHANGED <<watcher, stopper, chanVars, reported, asked>>

FindsReady ==
    /\ start = "waiting" /\ root = "live"
    /\ start' = (IF OwnsActive THEN "publishing" ELSE "request")
    /\ UNCHANGED <<procVars, watcher, retry, stopper, ownVars, chanVars, outcome, reported,
                   countVars>>

\* The deadline, the root's exit, or an exit that comes before the publication.
GivesUp ==
    /\ start = "waiting" \/ (start = "publishing" /\ exitSent)
    /\ start' = "request" /\ exitSent' = FALSE
    /\ UNCHANGED <<procVars, watcher, retry, stopper, ownVars, stops, evidence, outcome,
                   reported, countVars>>

Publishes ==
    /\ start = "publishing"
    /\ IF OwnsActive THEN port' = TRUE /\ Returns("ready")
                     ELSE start' = "request" /\ UNCHANGED <<port, outcome>>
    /\ UNCHANGED <<procVars, watcher, retry, stopper, held, stopping, rootExited, chanVars,
                   reported, countVars>>

RequestTerminates ==
    /\ start = "request" /\ start' = "signal" /\ (Killed \/ NotKilled)
    /\ UNCHANGED <<watcher, retry, stopper, ownVars, chanVars, outcome, reported, asked>>

\* A watcher that is gone leaves the start without evidence.
RequestSignals ==
    /\ start = "signal"
    /\ IF watcher = "done" THEN Returns("unclean") /\ UNCHANGED stops
                           ELSE start' = "receive" /\ stops' = stops + 1 /\ UNCHANGED outcome
    /\ UNCHANGED <<procVars, watcher, retry, stopper, ownVars, exitSent, evidence, reported,
                   countVars>>

\* Only the first evidence is read, within a bound.
RequestReceives ==
    /\ start = "receive"
    /\ \/ Returns("unclean")
       \/ evidence # <<>> /\ Returns(IF Head(evidence) = "ok" THEN "failed" ELSE "unclean")
    /\ UNCHANGED <<procVars, watcher, retry, stopper, ownVars, chanVars, reported, countVars>>

\* After a start that succeeded: an exit nobody asked for is reported.
ReportsExit ==
    /\ outcome = "ready" /\ exitSent /\ exitSent' = FALSE /\ port' = FALSE
    /\ reported' = (reported \/ ~stopping)
    /\ UNCHANGED <<procVars, start, watcher, retry, stopper, held, stopping, rootExited, stops,
                   evidence, outcome, countVars>>

StartStep ==
    \/ Spawns \/ FailsEarly \/ Registers \/ WatcherStarts \/ CleansUp \/ ReapsIt \/ FindsReady
    \/ GivesUp \/ Publishes \/ RequestTerminates \/ RequestSignals \/ RequestReceives

-----------------------------------------------------------------------------
(* The thread that retries a cleanup before there was a watcher            *)

RetryKills ==
    /\ retry = "killing" /\ stops' = 0
    /\ \/ Killed /\ retry' = "reaping"
       \/ NotKilled /\ UNCHANGED retry
    /\ UNCHANGED <<start, watcher, stopper, ownVars, exitSent, evidence, outcome, reported,
                   asked>>

RetryReaps ==
    /\ retry = "reaping"
    /\ \/ Reaped /\ Clear /\ retry' = "done"
       \/ NotKilled /\ retry' = "killing" /\ UNCHANGED ownVars
    /\ UNCHANGED <<start, watcher, stopper, chanVars, outcome, reported, asked>>

RetryStep == RetryKills \/ RetryReaps

-----------------------------------------------------------------------------
(* The watcher                                                             *)

\* The root is seen to have exited while it still awaits its reaping.
ObservesExit ==
    /\ watcher = "watching" /\ root = "exited" /\ watcher' = "exited"
    /\ rootExited' = TRUE /\ port' = FALSE /\ exitSent' = TRUE
    /\ UNCHANGED <<procVars, start, retry, stopper, held, stopping, stops, evidence, outcome,
                   reported, countVars>>

IsToldToStop ==
    /\ watcher = "exited" /\ stops > 0 /\ stops' = stops - 1 /\ watcher' = "killing"
    /\ UNCHANGED <<procVars, start, retry, stopper, ownVars, exitSent, evidence, outcome,
                   reported, countVars>>

\* Each failure is told to the start, and the stops that came meanwhile are drained.
WatcherFails ==
    NotKilled /\ watcher' = "killing" /\ evidence' = Append(evidence, "error") /\ stops' = 0

WatcherKills ==
    /\ watcher = "killing"
    /\ \/ Killed /\ watcher' = "reaping" /\ UNCHANGED <<evidence, stops>>
       \/ WatcherFails
    /\ UNCHANGED <<start, retry, stopper, ownVars, exitSent, outcome, reported, asked>>

\* The ownership is released only when the tree was killed and its root reaped.
Releases ==
    /\ Reaped /\ Clear /\ watcher' = "done" /\ evidence' = Append(evidence, "ok")
    /\ UNCHANGED stops

WatcherReaps ==
    /\ watcher = "reaping"
    /\ Releases \/ (WatcherFails /\ UNCHANGED ownVars)
    /\ UNCHANGED <<start, retry, stopper, exitSent, outcome, reported, asked>>

WatcherStep == ObservesExit \/ IsToldToStop \/ WatcherKills \/ WatcherReaps

-----------------------------------------------------------------------------
(* stop_backend                                                            *)

IsStopped ==
    /\ stopper = "idle" /\ asked < MaxStops /\ asked' = asked + 1
    /\ stopping' = TRUE /\ port' = FALSE
    /\ stopper' = (IF held = "tree" THEN "killing" ELSE "idle")
    /\ UNCHANGED <<procVars, start, watcher, retry, held, rootExited, chanVars, outcome,
                   reported, failures>>

\* Killed or not, the watcher gets its message, if there still is one.
StopperKills ==
    /\ stopper = "killing" /\ stopper' = "idle" /\ (Killed \/ NotKilled)
    /\ stops' = (IF held = "tree" THEN stops + 1 ELSE stops)
    /\ UNCHANGED <<start, watcher, retry, ownVars, exitSent, evidence, outcome, reported, asked>>

Next ==
    \/ Forks \/ Exits \/ StartStep \/ RetryStep \/ WatcherStep \/ ReportsExit \/ IsStopped
    \/ StopperKills

Spec ==
    /\ Init /\ [][Next]_vars
    /\ WF_vars(StartStep) /\ WF_vars(RetryStep) /\ WF_vars(WatcherStep)
    /\ WF_vars(StopperKills) /\ WF_vars(ReportsExit)

-----------------------------------------------------------------------------
(* The ownership of a tree is given up only after its root was reaped and  *)
(* its descendants died, and a start that reports a clean failure has left *)
(* nothing behind; only a root that could not be claimed may escape        *)
(* (clear_backend_tree, request_owned_pty_cleanup).                        *)
PtyIsOwned ==
    (held = "nobody" /\ outcome # "unclaimed") \/ outcome = "failed" =>
        root \in {"none", "reaped"} /\ ~descendants

\* What has begun and must end: an exit of the published root that nobody asked for goes
\* unreported, and a tree is owned that is asked to stop and whose root has exited.
Duties ==
    << outcome = "ready" /\ root = "exited" /\ ~reported /\ ~stopping,
       held = "tree" /\ stopping /\ root = "exited" >>
=============================================================================
