----------------------------- MODULE ShellProofs ------------------------------
(***************************************************************************)
(* Proofs about the Tauri shell's parts, for any numbers of connections,   *)
(* threads, downloads, plugins, children, messages and file changes.       *)
(*                                                                         *)
(* The argument: each part has an inductive invariant of its own, of which *)
(* the properties the runs check follow (PtyIsSound to PluginsAreSound).   *)
(* A tree of processes is safe because at every place somebody has it in   *)
(* hand (PtyTurns, PtyHeld), and because the one who confirms a kill has   *)
(* signalled the root first (ScopeKilled).  What is ready was found while  *)
(* the backend's listener stood (ProbeStood).  A request carries the       *)
(* generation it waited for (RequestLeases); a gateway that was given up   *)
(* has no task that accepts (ServerLaunch).  Launch intents keep their     *)
(* order because no ticket that is scheduled is ever passed over           *)
(* (IntentOpen), nor two of them taken in another order than the arrivals' *)
(* (IntentOrdered).  A download that was reported early never writes       *)
(* (DownloadEarly), and plugins that do not overlap use the directory of   *)
(* copies one at a time (PluginCopied), and what one of them set aside is  *)
(* put back, replaced or known to be stranded (PluginAside, PluginTarget). *)
(* A step of the shell is a step of one part, or of none: the invariants   *)
(* hold together.                                                          *)
(***************************************************************************)
EXTENDS MCShell, BackendSupervisorProofs, FiniteSetTheorems

-----------------------------------------------------------------------------
(* The pseudo terminal                                                     *)

\* Where the start, the retry of its cleanup, the watcher and the one who stops stand.
PtyPlaces ==
    /\ pty_root \in {"none", "live", "exited", "reaped"}
    /\ start \in {"reserved", "spawned", "registered", "terminating", "reaping", "waiting",
                  "publishing", "request", "signal", "receive", "returned"}
    /\ pty_watcher \in {"none", "watching", "exited", "killing", "reaping", "done"}
    /\ retry \in {"none", "killing", "reaping", "done"} /\ stopper \in {"idle", "killing"}
    /\ held \in {"start", "tree", "nobody"}
    /\ pty_outcome \in {"none", "ready", "failed", "unclean", "unclaimed"}

\* The flags of the session.
PtyFlags ==
    /\ descendants \in BOOLEAN /\ pty_stopping \in BOOLEAN /\ pty_rootExited \in BOOLEAN
    /\ port \in BOOLEAN /\ exitSent \in BOOLEAN /\ pty_reported \in BOOLEAN

\* A message is sent by the start at most once, and by each call of stop_backend.
PtyCounts ==
    /\ stops \in Nat /\ asked \in 0..MaxStops /\ pty_failures \in 0..2
    /\ stops <= asked + 1
    /\ stopper = "killing" => stops <= asked
    /\ start \notin {"receive", "returned"} => stops <= asked
    /\ stopper = "killing" /\ start \notin {"receive", "returned"} => stops + 1 <= asked

\* The start has not handed the tree to a watcher yet.
PtyStarting == start \in {"reserved", "spawned", "registered", "terminating", "reaping"}

\* Who may still kill and reap the tree: the start, the retry of its cleanup or the watcher.
PtyTurns ==
    /\ start = "returned" <=> pty_outcome # "none"
    /\ PtyStarting => pty_watcher = "none" /\ retry = "none"
    /\ start \in {"waiting", "publishing", "request", "signal", "receive"} \/
           pty_outcome = "ready" =>
           pty_watcher # "none" /\ retry = "none"
    /\ retry # "none" => pty_watcher = "none" /\ pty_outcome = "unclean"

\* The tree is registered as long as one of them has it in hand.
PtyHeld ==
    /\ start \in {"reserved", "spawned"} => held = "start"
    /\ start \in {"registered", "terminating", "reaping"} => held = "tree"
    /\ retry \in {"killing", "reaping"} => held = "tree"
    /\ pty_watcher \in {"watching", "exited", "killing", "reaping"} => held = "tree"
    /\ pty_watcher = "done" => held = "nobody"

\* Whoever reaps has killed: the root is dead, nothing can be forked any more.
PtyRoot ==
    /\ start = "reserved" => pty_root = "none"
    /\ start = "spawned" \/ held = "tree" => pty_root \in {"live", "exited"}
    /\ pty_root \in {"none", "reaped"} => ~descendants
    /\ "reaping" \in {start, retry, pty_watcher} => pty_root = "exited" /\ ~descendants
    /\ held = "nobody" /\ pty_outcome # "unclaimed" => pty_root \in {"none", "reaped"}
    /\ pty_outcome = "failed" => held = "nobody"

\* Whatever was spawned is dead, or somebody has it in hand.
PtyOwned == PtyTurns /\ PtyHeld /\ PtyRoot

\* The watcher tells of a clean end only as its last word.
PtyEvidence ==
    /\ evidence \in Seq({"ok", "error"})
    /\ \A i \in DOMAIN evidence : evidence[i] = "ok" => pty_watcher = "done"

\* The inductive invariant of the pseudo terminal.
PtyInv == PtyPlaces /\ PtyFlags /\ PtyCounts /\ PtyOwned /\ PtyEvidence

\* No step leaves a tree that nobody has in hand.
LEMMA PtyOwnedKept ==
    PtyPlaces /\ PtyOwned /\ PtyEvidence /\ [Pty!Next]_ptyVars => PtyPlaces' /\ PtyOwned'
<1> SUFFICES ASSUME PtyPlaces, PtyOwned, [Pty!Next]_ptyVars,
                    evidence # <<>> /\ Head(evidence) = "ok" => pty_watcher = "done"
             PROVE  PtyPlaces' /\ PtyOwned'
  BY DEF PtyEvidence
<1> USE DEF PtyPlaces, PtyOwned, PtyStarting, PtyTurns, PtyHeld, PtyRoot
<1>1. CASE Pty!Forks
  BY <1>1 DEF Pty!Forks, Pty!ownVars, Pty!chanVars
<1>2. CASE Pty!Exits
  BY <1>2 DEF Pty!Exits, Pty!ownVars, Pty!chanVars
<1>3. CASE Pty!Spawns
  BY <1>3 DEF Pty!Spawns, Pty!ownVars, Pty!chanVars, Pty!Clear, Pty!Returns
<1>4. CASE Pty!FailsEarly
  BY <1>4 DEF Pty!FailsEarly, Pty!chanVars, Pty!Clear, Pty!Returns, Pty!NotKilled, Pty!procVars
<1>5. CASE Pty!Registers
  BY <1>5 DEF Pty!Registers, Pty!procVars, Pty!chanVars
<1>6. CASE Pty!WatcherStarts
  BY <1>6 DEF Pty!WatcherStarts, Pty!procVars, Pty!ownVars, Pty!chanVars
<1>7. CASE Pty!CleansUp
  BY <1>7 DEF Pty!CleansUp, Pty!procVars, Pty!ownVars, Pty!chanVars, Pty!Killed, Pty!NotKilled,
       Pty!RetriesCleanup, Pty!Returns
<1>8. CASE Pty!ReapsIt
  BY <1>8 DEF Pty!ReapsIt, Pty!procVars, Pty!ownVars, Pty!chanVars, Pty!Reaped, Pty!Clear,
       Pty!NotKilled, Pty!RetriesCleanup, Pty!Returns
<1>9. CASE Pty!FindsReady
  BY <1>9 DEF Pty!FindsReady, Pty!procVars, Pty!ownVars, Pty!chanVars
<1>10. CASE Pty!GivesUp
  BY <1>10 DEF Pty!GivesUp, Pty!procVars, Pty!ownVars
<1>11. CASE Pty!Publishes
  BY <1>11 DEF Pty!Publishes, Pty!procVars, Pty!chanVars, Pty!OwnsActive, Pty!Returns
<1>12. CASE Pty!RequestTerminates
  BY <1>12 DEF Pty!RequestTerminates, Pty!procVars, Pty!ownVars, Pty!chanVars, Pty!Killed,
       Pty!NotKilled
<1>13. CASE Pty!RequestSignals
  BY <1>13 DEF Pty!RequestSignals, Pty!procVars, Pty!ownVars, Pty!Returns
<1>14. CASE Pty!RequestReceives
  BY <1>14 DEF Pty!RequestReceives, Pty!procVars, Pty!ownVars, Pty!chanVars, Pty!Returns
<1>15. CASE Pty!ReportsExit
  BY <1>15 DEF Pty!ReportsExit, Pty!procVars
<1>16. CASE Pty!RetryKills
  BY <1>16 DEF Pty!RetryKills, Pty!procVars, Pty!ownVars, Pty!Killed, Pty!NotKilled
<1>17. CASE Pty!RetryReaps
  BY <1>17 DEF Pty!RetryReaps, Pty!procVars, Pty!ownVars, Pty!chanVars, Pty!Reaped, Pty!Clear,
       Pty!NotKilled
<1>18. CASE Pty!ObservesExit
  BY <1>18 DEF Pty!ObservesExit, Pty!procVars
<1>19. CASE Pty!IsToldToStop
  BY <1>19 DEF Pty!IsToldToStop, Pty!procVars, Pty!ownVars
<1>20. CASE Pty!WatcherKills
  BY <1>20 DEF Pty!WatcherKills, Pty!procVars, Pty!ownVars, Pty!Killed, Pty!NotKilled,
       Pty!WatcherFails
<1>21. CASE Pty!WatcherReaps
  BY <1>21 DEF Pty!WatcherReaps, Pty!procVars, Pty!ownVars, Pty!Reaped, Pty!Clear, Pty!NotKilled,
       Pty!WatcherFails, Pty!Releases
<1>22. CASE Pty!IsStopped
  BY <1>22 DEF Pty!IsStopped, Pty!procVars, Pty!chanVars
<1>23. CASE Pty!StopperKills
  BY <1>23 DEF Pty!StopperKills, Pty!procVars, Pty!ownVars, Pty!Killed, Pty!NotKilled
<1>24. CASE UNCHANGED ptyVars
  BY <1>24 DEF ptyVars
<1>25. QED
  BY <1>1, <1>2, <1>3, <1>4, <1>5, <1>6, <1>7, <1>8, <1>9, <1>10, <1>11, <1>12, <1>13, <1>14,
       <1>15, <1>16, <1>17, <1>18, <1>19, <1>20, <1>21, <1>22, <1>23, <1>24
  DEF Pty!Next, Pty!StartStep, Pty!RetryStep, Pty!WatcherStep

\* Every step keeps the flags.
LEMMA PtyFlagsKept == PtyFlags /\ [Pty!Next]_ptyVars => PtyFlags'
<1> SUFFICES ASSUME PtyFlags, [Pty!Next]_ptyVars PROVE PtyFlags'
  OBVIOUS
<1> USE DEF PtyFlags
<1>1. CASE Pty!Forks \/ Pty!Exits \/ Pty!Spawns
  BY <1>1 DEF Pty!Forks, Pty!Exits, Pty!Spawns, Pty!ownVars, Pty!chanVars, Pty!Clear, Pty!Returns,
       Pty!countVars, Pty!procVars
<1>2. CASE Pty!FailsEarly \/ Pty!Registers \/ Pty!WatcherStarts
  BY <1>2 DEF Pty!FailsEarly, Pty!Registers, Pty!WatcherStarts, Pty!chanVars, Pty!Clear,
       Pty!Returns, Pty!NotKilled, Pty!procVars, Pty!ownVars, Pty!CanFail, Pty!countVars
<1>3. CASE Pty!CleansUp \/ Pty!ReapsIt \/ Pty!FindsReady
  BY <1>3 DEF Pty!CleansUp, Pty!ReapsIt, Pty!FindsReady, Pty!procVars, Pty!ownVars, Pty!chanVars,
       Pty!Killed, Pty!NotKilled, Pty!RetriesCleanup, Pty!Returns, Pty!Reaped, Pty!Clear,
       Pty!CanFail, Pty!countVars
<1>4. CASE Pty!GivesUp \/ Pty!Publishes \/ Pty!RequestTerminates
  BY <1>4 DEF Pty!GivesUp, Pty!Publishes, Pty!RequestTerminates, Pty!procVars, Pty!ownVars,
       Pty!chanVars, Pty!OwnsActive, Pty!Returns, Pty!Killed, Pty!NotKilled, Pty!CanFail,
       Pty!countVars
<1>5. CASE Pty!RequestSignals \/ Pty!RequestReceives \/ Pty!ReportsExit
  BY <1>5 DEF Pty!RequestSignals, Pty!RequestReceives, Pty!ReportsExit, Pty!procVars, Pty!ownVars,
       Pty!Returns, Pty!chanVars, Pty!countVars
<1>6. CASE Pty!RetryKills \/ Pty!RetryReaps \/ Pty!ObservesExit
  BY <1>6 DEF Pty!RetryKills, Pty!RetryReaps, Pty!ObservesExit, Pty!procVars, Pty!ownVars,
       Pty!Killed, Pty!NotKilled, Pty!chanVars, Pty!Reaped, Pty!Clear, Pty!CanFail, Pty!countVars
<1>7. CASE Pty!IsToldToStop \/ Pty!WatcherKills \/ Pty!WatcherReaps
  BY <1>7 DEF Pty!IsToldToStop, Pty!WatcherKills, Pty!WatcherReaps, Pty!procVars, Pty!ownVars,
       Pty!Killed, Pty!NotKilled, Pty!WatcherFails, Pty!Reaped, Pty!Clear, Pty!Releases,
       Pty!CanFail, Pty!countVars, Pty!chanVars
<1>8. CASE Pty!IsStopped \/ Pty!StopperKills
  BY <1>8 DEF Pty!IsStopped, Pty!StopperKills, Pty!procVars, Pty!chanVars, Pty!ownVars,
       Pty!Killed, Pty!NotKilled, Pty!CanFail, Pty!countVars
<1>9. CASE UNCHANGED ptyVars
  BY <1>9 DEF ptyVars
<1>10. QED
  BY <1>1, <1>2, <1>3, <1>4, <1>5, <1>6, <1>7, <1>8, <1>9
  DEF Pty!Next, Pty!StartStep, Pty!RetryStep, Pty!WatcherStep

\* Every step keeps the count of the stop messages.
LEMMA PtyCountsKept == PtyCounts /\ [Pty!Next]_ptyVars => PtyCounts'
<1> SUFFICES ASSUME PtyCounts, [Pty!Next]_ptyVars PROVE PtyCounts'
  OBVIOUS
<1> USE ShellAssumption DEF PtyCounts
<1>1. CASE Pty!Forks \/ Pty!Exits \/ Pty!Spawns
  BY <1>1 DEF Pty!Forks, Pty!Exits, Pty!Spawns, Pty!ownVars, Pty!chanVars, Pty!Clear, Pty!Returns,
       Pty!countVars, Pty!procVars
<1>2. CASE Pty!FailsEarly \/ Pty!Registers \/ Pty!WatcherStarts
  BY <1>2 DEF Pty!FailsEarly, Pty!Registers, Pty!WatcherStarts, Pty!chanVars, Pty!Clear,
       Pty!Returns, Pty!NotKilled, Pty!procVars, Pty!ownVars, Pty!CanFail, Pty!countVars
<1>3. CASE Pty!CleansUp \/ Pty!ReapsIt \/ Pty!FindsReady
  BY <1>3 DEF Pty!CleansUp, Pty!ReapsIt, Pty!FindsReady, Pty!procVars, Pty!ownVars, Pty!chanVars,
       Pty!Killed, Pty!NotKilled, Pty!RetriesCleanup, Pty!Returns, Pty!Reaped, Pty!Clear,
       Pty!CanFail, Pty!countVars
<1>4. CASE Pty!GivesUp \/ Pty!Publishes \/ Pty!RequestTerminates
  BY <1>4 DEF Pty!GivesUp, Pty!Publishes, Pty!RequestTerminates, Pty!procVars, Pty!ownVars,
       Pty!chanVars, Pty!OwnsActive, Pty!Returns, Pty!Killed, Pty!NotKilled, Pty!CanFail,
       Pty!countVars
<1>5. CASE Pty!RequestSignals \/ Pty!RequestReceives \/ Pty!ReportsExit
  BY <1>5 DEF Pty!RequestSignals, Pty!RequestReceives, Pty!ReportsExit, Pty!procVars, Pty!ownVars,
       Pty!Returns, Pty!chanVars, Pty!countVars
<1>6. CASE Pty!RetryKills \/ Pty!RetryReaps \/ Pty!ObservesExit
  BY <1>6 DEF Pty!RetryKills, Pty!RetryReaps, Pty!ObservesExit, Pty!procVars, Pty!ownVars,
       Pty!Killed, Pty!NotKilled, Pty!chanVars, Pty!Reaped, Pty!Clear, Pty!CanFail, Pty!countVars
<1>7. CASE Pty!IsToldToStop \/ Pty!WatcherKills \/ Pty!WatcherReaps
  BY <1>7 DEF Pty!IsToldToStop, Pty!WatcherKills, Pty!WatcherReaps, Pty!procVars, Pty!ownVars,
       Pty!Killed, Pty!NotKilled, Pty!WatcherFails, Pty!Reaped, Pty!Clear, Pty!Releases,
       Pty!CanFail, Pty!countVars, Pty!chanVars
<1>8. CASE Pty!IsStopped \/ Pty!StopperKills
  BY <1>8 DEF Pty!IsStopped, Pty!StopperKills, Pty!procVars, Pty!chanVars, Pty!ownVars,
       Pty!Killed, Pty!NotKilled, Pty!CanFail, Pty!countVars
<1>9. CASE UNCHANGED ptyVars
  BY <1>9 DEF ptyVars
<1>10. QED
  BY <1>1, <1>2, <1>3, <1>4, <1>5, <1>6, <1>7, <1>8, <1>9
  DEF Pty!Next, Pty!StartStep, Pty!RetryStep, Pty!WatcherStep

\* The watcher says nothing of a clean end before its last step.
LEMMA PtyEvidenceKept == PtyEvidence /\ PtyTurns /\ [Pty!Next]_ptyVars => PtyEvidence'
<1> SUFFICES ASSUME PtyEvidence, PtyTurns, [Pty!Next]_ptyVars PROVE PtyEvidence'
  OBVIOUS
<1>1. CASE evidence' = evidence /\ (pty_watcher = "done" => pty_watcher' = "done")
  BY <1>1 DEF PtyEvidence
<1>2. CASE evidence' = Append(evidence, "error") /\ pty_watcher # "done"
  BY <1>2 DEF PtyEvidence
<1>3. CASE evidence' = Append(evidence, "ok") /\ pty_watcher' = "done"
  BY <1>3 DEF PtyEvidence
<1>4. CASE Pty!WatcherKills \/ Pty!WatcherReaps
  BY <1>1, <1>2, <1>3, <1>4 DEF Pty!WatcherKills, Pty!WatcherReaps, Pty!WatcherFails, Pty!Releases
<1>5. CASE Pty!WatcherStarts
  BY <1>1, <1>5 DEF Pty!WatcherStarts, Pty!chanVars, PtyTurns, PtyStarting
<1>6. QED
  BY <1>1, <1>4, <1>5 DEF Pty!Next, Pty!StartStep, Pty!RetryStep, Pty!WatcherStep, ptyVars,
       Pty!chanVars, Pty!Forks, Pty!Exits, Pty!Spawns, Pty!FailsEarly, Pty!Registers,
       Pty!CleansUp, Pty!ReapsIt, Pty!FindsReady, Pty!GivesUp, Pty!Publishes,
       Pty!RequestTerminates, Pty!RequestSignals, Pty!RequestReceives, Pty!ReportsExit,
       Pty!RetryKills, Pty!RetryReaps, Pty!ObservesExit, Pty!IsToldToStop, Pty!IsStopped,
       Pty!StopperKills

\* A session that was reserved satisfies the invariant.
LEMMA PtyStarts == Pty!Init => PtyInv
<1> SUFFICES ASSUME Pty!Init PROVE PtyInv
  OBVIOUS
<1>1. PtyPlaces /\ PtyOwned
  BY DEF Pty!Init, PtyPlaces, PtyOwned, PtyStarting, PtyTurns, PtyHeld, PtyRoot
<1>2. PtyFlags
  BY DEF Pty!Init, PtyFlags
<1>3. PtyCounts
  BY ShellAssumption DEF Pty!Init, PtyCounts
<1>4. PtyEvidence
  BY DEF Pty!Init, PtyEvidence
<1>5. QED  BY <1>1, <1>2, <1>3, <1>4 DEF PtyInv

\* Every step keeps the invariant.
LEMMA PtyKept == PtyInv /\ [Pty!Next]_ptyVars => PtyInv'
BY PtyFlagsKept, PtyCountsKept, PtyEvidenceKept, PtyOwnedKept DEF PtyInv, PtyOwned

\* The invariant gives the types of the session and the ownership of its tree (PtyIsOwned).
LEMMA PtyIsSound == PtyInv => Pty!TypeOK /\ Pty!PtyIsOwned
<1> SUFFICES ASSUME PtyInv PROVE Pty!TypeOK /\ Pty!PtyIsOwned
  OBVIOUS
<1>1. stops \in 0..MaxStops + 1
  BY ShellAssumption DEF PtyInv, PtyCounts
<1>2. {pty_stopping, pty_rootExited, port, exitSent, pty_reported} \subseteq BOOLEAN
  BY DEF PtyInv, PtyFlags
<1>3. Pty!TypeOK
  BY <1>1, <1>2 DEF PtyInv, PtyPlaces, PtyFlags, PtyCounts, PtyEvidence, Pty!TypeOK
<1>4. Pty!PtyIsOwned
  BY DEF PtyInv, PtyPlaces, PtyOwned, PtyRoot, Pty!PtyIsOwned
<1>5. QED  BY <1>3, <1>4

-----------------------------------------------------------------------------
(* The scope of a process tree                                             *)

\* The processes, their groups and sessions, and where the killer stands.
ScopeTyped ==
    /\ mode \in {"direct", "session", "job"}
    /\ scope_proc \in [Scope!Proc -> {"none", "suspended", "live", "zombie", "gone"}]
    /\ group \in [Scope!Proc -> Scope!Proc] /\ scope_session \in [Scope!Proc -> Scope!Proc]
    /\ killer \in {"none", "term", "signal", "snapshot", "kill", "confirm", "count", "over"}
    /\ scope_seen.members \subseteq Scope!Proc /\ scope_seen.groups \subseteq Scope!Proc
    /\ scope_result \in {"none", "ok", "retained", "failed"}

\* The root leads its group and its session, is never listed as gone and runs when it is stopped.
ScopeRoot ==
    /\ group["root"] = "root" /\ scope_session["root"] = "root"
    /\ scope_proc["root"] \in {"suspended", "live", "zombie"}
    /\ killer # "none" => scope_proc["root"] # "suspended"
    /\ \A c \in Child : scope_proc[c] # "suspended"

\* No process of the scope still lives.
ScopeNoneLives == \A p \in Scope!Proc : scope_proc[p] = "live" => ~Scope!InScope(p)

\* A job is terminated at once; a group is confirmed only after its root was signalled.
ScopeKilled ==
    /\ mode = "job" /\ killer # "none" =>
           killer \in {"count", "over"} /\ \A p \in Scope!Proc : scope_proc[p] # "live"
    /\ killer = "count" => mode = "job"
    /\ killer = "kill" => "root" \in scope_seen.groups
    /\ killer = "confirm" => scope_proc["root"] = "zombie"
    /\ scope_result = "ok" => killer = "over" /\ ScopeNoneLives

\* The inductive invariant of a process tree's scope.
ScopeInv == ScopeTyped /\ ScopeRoot /\ ScopeKilled

\* Every step keeps the types of the scope.
LEMMA ScopeTypedKept == ScopeTyped /\ [Scope!Next]_scopeVars => ScopeTyped'
<1> SUFFICES ASSUME ScopeTyped, [Scope!Next]_scopeVars PROVE ScopeTyped'
  OBVIOUS
<1> USE DEF ScopeTyped
<1>1. CASE Scope!ClaimsTree \/ Scope!Stops \/ Scope!Terminates \/ Scope!Kills
  BY <1>1 DEF Scope!ClaimsTree, Scope!Stops, Scope!Terminates, Scope!Kills, Scope!NextAfterKill,
       Scope!Dead, Scope!Proc
<1>2. CASE Scope!Confirms \/ Scope!JobIsEmpty \/ Scope!GivesUp
  BY <1>2 DEF Scope!Confirms, Scope!JobIsEmpty, Scope!GivesUp, Scope!procVars, Scope!Enumerated
<1>3. CASE Scope!Enumerates("term", "signal") \/ Scope!Enumerates("snapshot", "kill")
  BY <1>3 DEF Scope!Enumerates, Scope!procVars, Scope!Enumerated
<1>4. ASSUME NEW q \in Scope!Proc, Scope!Exits(q) PROVE ScopeTyped'
  BY <1>4 DEF Scope!Exits, Scope!Dead
<1>5. ASSUME NEW q \in Scope!Proc, NEW c \in Child, Scope!Forks(q, c) PROVE ScopeTyped'
  BY <1>5 DEF Scope!Forks, Scope!Proc
<1>6. ASSUME NEW c \in Child, Scope!ChangesGroup(c) PROVE ScopeTyped'
  BY <1>6 DEF Scope!ChangesGroup, Scope!Proc
<1>7. CASE UNCHANGED scopeVars
  BY <1>7 DEF scopeVars
<1>8. QED  BY <1>1, <1>2, <1>3, <1>4, <1>5, <1>6, <1>7 DEF Scope!Next, Scope!KillerStep

\* The root never leaves its group, and is not reaped while it is held.
LEMMA ScopeRootKept == ScopeTyped /\ ScopeRoot /\ [Scope!Next]_scopeVars => ScopeRoot'
<1> SUFFICES ASSUME ScopeTyped, ScopeRoot, [Scope!Next]_scopeVars PROVE ScopeRoot'
  OBVIOUS
<1> USE ShellAssumption DEF ScopeTyped, ScopeRoot, Scope!Proc
<1>1. CASE Scope!ClaimsTree \/ Scope!Stops \/ Scope!Terminates \/ Scope!Kills
  BY <1>1 DEF Scope!ClaimsTree, Scope!Stops, Scope!Terminates, Scope!Kills, Scope!NextAfterKill,
       Scope!Dead, Scope!Suspended, Scope!Listed, Scope!Signalled
<1>2. CASE Scope!Confirms \/ Scope!JobIsEmpty \/ Scope!GivesUp
  BY <1>2 DEF Scope!Confirms, Scope!JobIsEmpty, Scope!GivesUp, Scope!procVars
<1>3. CASE Scope!Enumerates("term", "signal") \/ Scope!Enumerates("snapshot", "kill")
  BY <1>3 DEF Scope!Enumerates, Scope!procVars
<1>4. ASSUME NEW q \in Scope!Proc, Scope!Exits(q) PROVE ScopeRoot'
  BY <1>4 DEF Scope!Exits, Scope!Dead, Scope!Live
<1>5. ASSUME NEW q \in Scope!Proc, NEW c \in Child, Scope!Forks(q, c) PROVE ScopeRoot'
  BY <1>5 DEF Scope!Forks
<1>6. ASSUME NEW c \in Child, Scope!ChangesGroup(c) PROVE ScopeRoot'
  BY <1>6 DEF Scope!ChangesGroup
<1>7. CASE UNCHANGED scopeVars
  BY <1>7 DEF scopeVars
<1>8. QED  BY <1>1, <1>2, <1>3, <1>4, <1>5, <1>6, <1>7 DEF Scope!Next, Scope!KillerStep

\* The killer reports success only when none of its scope lives.
LEMMA ScopeKilledKept ==
    ScopeTyped /\ ScopeRoot /\ ScopeKilled /\ [Scope!Next]_scopeVars => ScopeKilled'
<1> SUFFICES ASSUME ScopeTyped, ScopeRoot, ScopeKilled, [Scope!Next]_scopeVars PROVE ScopeKilled'
  OBVIOUS
<1> USE ShellAssumption DEF ScopeTyped, ScopeRoot, ScopeKilled, Scope!Proc
<1>1. CASE Scope!ClaimsTree \/ Scope!Stops \/ Scope!Terminates
  BY <1>1 DEF Scope!ClaimsTree, Scope!Stops, Scope!Terminates, Scope!Suspended, Scope!Listed,
       Scope!Dead
<1>2. CASE Scope!Kills
  BY <1>2 DEF Scope!Kills, Scope!NextAfterKill, Scope!Dead, Scope!Signalled
<1>3. CASE Scope!Confirms
  BY <1>3 DEF Scope!Confirms, Scope!procVars, Scope!Enumerated, ScopeNoneLives, Scope!InScope,
       Scope!Listed
<1>4. CASE Scope!JobIsEmpty \/ Scope!GivesUp
  BY <1>4 DEF Scope!JobIsEmpty, Scope!GivesUp, Scope!procVars, ScopeNoneLives, Scope!Live
<1>5. CASE Scope!Enumerates("term", "signal") \/ Scope!Enumerates("snapshot", "kill")
  <2>1. Scope!InScope("root")
    BY <1>5 DEF Scope!Enumerates, Scope!InScope, Scope!Listed
  <2>2. "root" \in Scope!Enumerated.groups
    BY <2>1 DEF Scope!Enumerated
  <2>3. ScopeNoneLives' <=> ScopeNoneLives
    BY <1>5 DEF Scope!Enumerates, Scope!procVars, ScopeNoneLives, Scope!InScope, Scope!Listed
  <2>4. QED  BY <1>5, <2>2, <2>3 DEF Scope!Enumerates, Scope!procVars
<1>6. ASSUME NEW q \in Scope!Proc, Scope!Exits(q) PROVE ScopeKilled'
  BY <1>6 DEF Scope!Exits, Scope!Dead, Scope!Live, ScopeNoneLives, Scope!InScope, Scope!Listed
<1>7. ASSUME NEW q \in Scope!Proc, NEW c \in Child, Scope!Forks(q, c) PROVE ScopeKilled'
  BY <1>7 DEF Scope!Forks, Scope!Live, ScopeNoneLives, Scope!InScope, Scope!Listed
<1>8. ASSUME NEW c \in Child, Scope!ChangesGroup(c) PROVE ScopeKilled'
  BY <1>8 DEF Scope!ChangesGroup, Scope!Live, ScopeNoneLives, Scope!InScope, Scope!Listed
<1>9. CASE UNCHANGED scopeVars
  BY <1>9 DEF scopeVars, ScopeNoneLives, Scope!InScope, Scope!Listed
<1>10. QED
  BY <1>1, <1>2, <1>3, <1>4, <1>5, <1>6, <1>7, <1>8, <1>9 DEF Scope!Next, Scope!KillerStep

\* A tree that was created suspended satisfies the invariant.
LEMMA ScopeStarts == Scope!Init => ScopeInv
BY ShellAssumption DEF Scope!Init, ScopeInv, ScopeTyped, ScopeRoot, ScopeKilled, Scope!Proc,
     Scope!NothingSeen

\* Every step keeps the invariant.
LEMMA ScopeKept == ScopeInv /\ [Scope!Next]_scopeVars => ScopeInv'
BY ScopeTypedKept, ScopeRootKept, ScopeKilledKept DEF ScopeInv

\* The invariant gives the types, and that a killed scope is empty (ScopeIsEmpty).
LEMMA ScopeIsSound == ScopeInv => Scope!TypeOK /\ Scope!ScopeIsEmpty
BY DEF ScopeInv, ScopeTyped, ScopeKilled, ScopeNoneLives, Scope!TypeOK, Scope!ScopeIsEmpty,
     Scope!Live

-----------------------------------------------------------------------------
(* The readiness probe                                                     *)

\* The plan of the launch, and where the readiness probe stands.
ProbePlaces ==
    /\ wish \in [transport : {"direct", "pty", "other"}, cluster : BOOLEAN, windows : BOOLEAN]
    /\ plan \in {"none", "refused", "direct", "pty"}
    /\ readiness_root \in {"none", "live", "exited"}
    /\ listener \in Readiness!Owner \cup {"none"} /\ row \in Readiness!Owner \cup {"none"}
    /\ probe \in {"idle", "connect", "table", "descriptors", "sleep", "over"}
    /\ round \in 0..MaxRounds
    /\ readiness_result \in {"none", "ready", "timeout", "error", "exited"}

\* The flags of the probe.
ProbeFlags ==
    /\ clustered \in BOOLEAN /\ readiness_reported \in BOOLEAN
    /\ stood \in BOOLEAN /\ wasOwned \in BOOLEAN

\* Direct pipes and a cluster exclude each other; only direct pipes are probed in the table.
ProbePlan ==
    /\ plan = "direct" => clustered = FALSE
    /\ plan \in {"none", "refused"} => probe = "idle" /\ readiness_result = "none"
    /\ probe \in {"table", "descriptors"} => plan = "direct"

\* A backend that has listened since the round began still listens, and is what the table showed.
ProbeStood ==
    /\ stood = TRUE => listener = Readiness!Backend
    /\ stood = TRUE /\ probe = "descriptors" => row = listener
    /\ probe \in {"idle", "sleep"} => stood = FALSE

\* What the probe finds ready was the backend's own listener in direct mode.
ProbeOwned ==
    /\ readiness_result = "ready" => probe = "over"
    /\ readiness_result = "ready" /\ plan = "direct" => wasOwned = TRUE

\* The port is published after the process and the connection.
ProbePublished ==
    /\ startup \in [{"pid", "connected", "ready", "port"} -> BOOLEAN]
    /\ startup.port => startup.pid /\ startup.connected

\* The inductive invariant of the readiness probe.
ProbeInv == ProbePlaces /\ ProbeFlags /\ ProbePlan /\ ProbeStood /\ ProbeOwned /\ ProbePublished

\* Every step keeps the plan and the places.
LEMMA ProbePlacesKept ==
    ProbePlaces /\ ProbeFlags /\ [Readiness!Next]_readinessVars => ProbePlaces'
<1> SUFFICES ASSUME ProbePlaces, ProbeFlags, [Readiness!Next]_readinessVars PROVE ProbePlaces'
  OBVIOUS
<1> USE ShellAssumption DEF ProbePlaces, ProbeFlags, Readiness!Owner, Readiness!worldVars,
     Readiness!probeVars, Readiness!history
<1>1. CASE Readiness!Plans
  BY <1>1 DEF Readiness!Plans, Readiness!Chosen, Readiness!FallsBack, Readiness!TransportFits
<1>2. CASE Readiness!Spawns
  BY <1>2 DEF Readiness!Spawns, Readiness!Cleared
<1>3. CASE Readiness!Connects
  BY <1>3 DEF Readiness!Connects, Readiness!Misses
<1>4. CASE Readiness!ReadsTable
  BY <1>4 DEF Readiness!ReadsTable, Readiness!Misses
<1>5. CASE Readiness!ReadsDescriptors
  BY <1>5 DEF Readiness!ReadsDescriptors, Readiness!Misses
<1>6. CASE Readiness!Sleeps \/ Readiness!SeesExit \/ Readiness!Observes
  BY <1>6 DEF Readiness!Sleeps, Readiness!SeesExit, Readiness!Observes
<1>7. CASE Readiness!Listens \/ Readiness!Closes \/ Readiness!Reports \/ Readiness!RootExits
  BY <1>7 DEF Readiness!Listens, Readiness!Closes, Readiness!Reports, Readiness!RootExits
<1>8. CASE UNCHANGED readinessVars
  BY <1>8 DEF readinessVars
<1>9. QED
  BY <1>1, <1>2, <1>3, <1>4, <1>5, <1>6, <1>7, <1>8 DEF Readiness!Next, Readiness!ProbeStep

\* Every step keeps the flags.
LEMMA ProbeFlagsKept == ProbePlaces /\ ProbeFlags /\ [Readiness!Next]_readinessVars => ProbeFlags'
<1> SUFFICES ASSUME ProbePlaces, ProbeFlags, [Readiness!Next]_readinessVars PROVE ProbeFlags'
  OBVIOUS
<1> USE DEF ProbeFlags, Readiness!worldVars, Readiness!history
<1>1. CASE Readiness!Plans
  BY <1>1 DEF Readiness!Plans
<1>2. CASE Readiness!Spawns
  BY <1>2 DEF Readiness!Spawns
<1>3. CASE Readiness!Connects
  BY <1>3 DEF Readiness!Connects
<1>4. CASE Readiness!ReadsTable \/ Readiness!ReadsDescriptors \/ Readiness!Sleeps \/
         Readiness!SeesExit \/ Readiness!Observes
  BY <1>4 DEF Readiness!ReadsTable, Readiness!ReadsDescriptors, Readiness!Sleeps,
       Readiness!SeesExit, Readiness!Observes
<1>5. CASE Readiness!Listens \/ Readiness!Closes \/ Readiness!Reports \/ Readiness!RootExits
  BY <1>5 DEF Readiness!Listens, Readiness!Closes, Readiness!Reports, Readiness!RootExits
<1>6. CASE UNCHANGED readinessVars
  BY <1>6 DEF readinessVars
<1>7. QED
  BY <1>1, <1>2, <1>3, <1>4, <1>5, <1>6 DEF Readiness!Next, Readiness!ProbeStep

\* The plan is made once, and decides which tables are read.
LEMMA ProbePlanKept ==
    ProbePlaces /\ ProbeFlags /\ ProbePlan /\ [Readiness!Next]_readinessVars => ProbePlan'
<1> SUFFICES ASSUME ProbePlaces, ProbeFlags, ProbePlan,
    [Readiness!Next]_readinessVars PROVE ProbePlan'
  OBVIOUS
<1> USE DEF ProbePlaces, ProbeFlags, ProbePlan, Readiness!Owner, Readiness!worldVars,
     Readiness!probeVars, Readiness!history
<1>1. CASE Readiness!Plans
  BY <1>1 DEF Readiness!Plans, Readiness!Chosen, Readiness!FallsBack, Readiness!TransportFits
<1>2. CASE Readiness!Spawns
  BY <1>2 DEF Readiness!Spawns
<1>3. CASE Readiness!Connects
  BY <1>3 DEF Readiness!Connects, Readiness!Misses
<1>4. CASE Readiness!ReadsTable
  BY <1>4 DEF Readiness!ReadsTable, Readiness!Misses
<1>5. CASE Readiness!ReadsDescriptors
  BY <1>5 DEF Readiness!ReadsDescriptors, Readiness!Misses
<1>6. CASE Readiness!Sleeps \/ Readiness!SeesExit \/ Readiness!Observes
  BY <1>6 DEF Readiness!Sleeps, Readiness!SeesExit, Readiness!Observes
<1>7. CASE Readiness!Listens \/ Readiness!Closes \/ Readiness!Reports \/ Readiness!RootExits
  BY <1>7 DEF Readiness!Listens, Readiness!Closes, Readiness!Reports, Readiness!RootExits
<1>8. CASE UNCHANGED readinessVars
  BY <1>8 DEF readinessVars
<1>9. QED
  BY <1>1, <1>2, <1>3, <1>4, <1>5, <1>6, <1>7, <1>8 DEF Readiness!Next, Readiness!ProbeStep

\* A listener that stood since the round began is not replaced within it.
LEMMA ProbeStoodKept ==
    ProbePlaces /\ ProbeFlags /\ ProbePlan /\ ProbeStood /\ ProbeOwned /\
        [Readiness!Next]_readinessVars =>
        ProbeStood' /\ ProbeOwned'
<1> SUFFICES ASSUME ProbePlaces, ProbeFlags, ProbePlan, ProbeStood, ProbeOwned,
    [Readiness!Next]_readinessVars
             PROVE  ProbeStood' /\ ProbeOwned'
  OBVIOUS
<1> USE DEF ProbePlaces, ProbeFlags, ProbePlan, ProbeStood, ProbeOwned, Readiness!Owner,
     Readiness!worldVars, Readiness!probeVars, Readiness!history, Readiness!Backend
<1>1. CASE Readiness!Plans
  BY <1>1 DEF Readiness!Plans, ProbePlan
<1>2. CASE Readiness!Spawns
  BY <1>2 DEF Readiness!Spawns
<1>3. CASE Readiness!Connects
  BY <1>3 DEF Readiness!Connects, Readiness!Misses
<1>4. CASE Readiness!ReadsTable
  BY <1>4 DEF Readiness!ReadsTable, Readiness!Misses
<1>5. CASE Readiness!ReadsDescriptors
  BY <1>5 DEF Readiness!ReadsDescriptors, Readiness!Misses, Readiness!RootOwns
<1>6. CASE Readiness!Sleeps \/ Readiness!SeesExit \/ Readiness!Observes
  BY <1>6 DEF Readiness!Sleeps, Readiness!SeesExit, Readiness!Observes
<1>7. CASE Readiness!Listens \/ Readiness!Closes \/ Readiness!Reports \/ Readiness!RootExits
  BY <1>7 DEF Readiness!Listens, Readiness!Closes, Readiness!Reports, Readiness!RootExits
<1>8. CASE UNCHANGED readinessVars
  BY <1>8 DEF readinessVars
<1>9. QED
  BY <1>1, <1>2, <1>3, <1>4, <1>5, <1>6, <1>7, <1>8 DEF Readiness!Next, Readiness!ProbeStep

\* The fields of what was published.
LEMMA StartupIsTyped ==
    ASSUME NEW s, s = [f \in DOMAIN s |-> s[f]], DOMAIN s = {"pid", "connected", "ready", "port"},
           s.pid \in BOOLEAN, s.connected \in BOOLEAN, s.ready \in BOOLEAN, s.port \in BOOLEAN
    PROVE  s \in [{"pid", "connected", "ready", "port"} -> BOOLEAN]
OBVIOUS

\* A field taken back keeps the order of publication.
LEMMA ClearedIsPublished ==
    /\ Readiness!Cleared \in [{"pid", "connected", "ready", "port"} -> BOOLEAN]
    /\ Readiness!Cleared.port = FALSE
<1>1. Readiness!Cleared = [f \in DOMAIN Readiness!Cleared |-> Readiness!Cleared[f]]
  BY DEF Readiness!Cleared
<1>2. DOMAIN Readiness!Cleared = {"pid", "connected", "ready", "port"}
  BY DEF Readiness!Cleared
<1>3. /\ Readiness!Cleared.pid = FALSE /\ Readiness!Cleared.connected = FALSE
      /\ Readiness!Cleared.ready = FALSE /\ Readiness!Cleared.port = FALSE
  BY DEF Readiness!Cleared
<1>4. QED  BY <1>1, <1>2, <1>3, StartupIsTyped

\* Every step keeps the order of publication.
LEMMA ProbePublishedKept == ProbePublished /\ [Readiness!Next]_readinessVars => ProbePublished'
<1> SUFFICES ASSUME ProbePublished, [Readiness!Next]_readinessVars PROVE ProbePublished'
  OBVIOUS
<1>1. CASE UNCHANGED startup
  BY <1>1 DEF ProbePublished
<1>2. CASE startup' = Readiness!Cleared
  BY <1>2, ClearedIsPublished DEF ProbePublished
<1>3. CASE startup' = [Readiness!Cleared EXCEPT !.pid = TRUE]
  <2> DEFINE C == Readiness!Cleared
  <2>1. C \in [{"pid", "connected", "ready", "port"} -> BOOLEAN] /\ C.port = FALSE
    BY ClearedIsPublished
  <2> HIDE DEF C
  <2>2. /\ [C EXCEPT !.pid = TRUE] \in [{"pid", "connected", "ready", "port"} -> BOOLEAN]
        /\ [C EXCEPT !.pid = TRUE].port = C.port
    BY <2>1
  <2>3. startup' = [C EXCEPT !.pid = TRUE]
    BY <1>3 DEF C
  <2>4. QED  BY <2>1, <2>2, <2>3 DEF ProbePublished
<1>4. CASE startup' = [pid |-> TRUE, connected |-> TRUE, ready |-> TRUE, port |-> TRUE]
  <2> DEFINE R == [pid |-> TRUE, connected |-> TRUE, ready |-> TRUE, port |-> TRUE]
  <2>1. R = [f \in DOMAIN R |-> R[f]] /\ DOMAIN R = {"pid", "connected", "ready", "port"}
    OBVIOUS
  <2>2. R.pid = TRUE /\ R.connected = TRUE /\ R.ready = TRUE /\ R.port = TRUE
    OBVIOUS
  <2>3. startup' = R
    BY <1>4
  <2> HIDE DEF R
  <2>4. R \in [{"pid", "connected", "ready", "port"} -> BOOLEAN]
    BY <2>1, <2>2, StartupIsTyped
  <2>5. QED  BY <2>2, <2>3, <2>4 DEF ProbePublished
<1>5. QED
  BY <1>1, <1>2, <1>3, <1>4 DEF Readiness!Next, Readiness!ProbeStep, readinessVars,
       Readiness!Plans, Readiness!Spawns, Readiness!Connects, Readiness!ReadsTable,
       Readiness!ReadsDescriptors, Readiness!Sleeps, Readiness!SeesExit, Readiness!Observes,
       Readiness!Listens, Readiness!Closes, Readiness!Reports, Readiness!RootExits

\* A launch that was not planned yet satisfies the invariant.
LEMMA ProbeStarts == Readiness!Init => ProbeInv
<1> SUFFICES ASSUME Readiness!Init PROVE ProbeInv
  OBVIOUS
<1>1. ProbePlaces /\ ProbePlan /\ ProbeStood /\ ProbeOwned
  BY ShellAssumption DEF Readiness!Init, ProbePlaces, ProbePlan, ProbeStood, ProbeOwned,
       Readiness!Owner
<1>2. ProbeFlags
  BY DEF Readiness!Init, ProbeFlags
<1>3. ProbePublished
  BY ClearedIsPublished DEF Readiness!Init, ProbePublished
<1>4. QED  BY <1>1, <1>2, <1>3 DEF ProbeInv

\* Every step keeps the invariant.
LEMMA ProbeKept == ProbeInv /\ [Readiness!Next]_readinessVars => ProbeInv'
BY ProbePlacesKept, ProbeFlagsKept, ProbePlanKept, ProbeStoodKept, ProbePublishedKept DEF ProbeInv

\* The invariant gives the types and that what is found and told is true (BackendIsFound,
\* ReadinessIsTruthful).
LEMMA ProbeIsSound ==
    ProbeInv => Readiness!TypeOK /\ Readiness!BackendIsFound /\ Readiness!ReadinessIsTruthful
<1> SUFFICES ASSUME ProbeInv
             PROVE  Readiness!TypeOK /\ Readiness!BackendIsFound /\ Readiness!ReadinessIsTruthful
  OBVIOUS
<1>1. {readiness_reported, stood, wasOwned} \subseteq BOOLEAN
  BY DEF ProbeInv, ProbeFlags
<1>2. Readiness!TypeOK
  BY <1>1 DEF ProbeInv, ProbePlaces, ProbeFlags, ProbePublished, Readiness!TypeOK
<1>3. Readiness!BackendIsFound
  BY DEF ProbeInv, ProbeStood, Readiness!BackendIsFound
<1>4. Readiness!ReadinessIsTruthful
  BY DEF ProbeInv, ProbeOwned, ProbePublished, Readiness!ReadinessIsTruthful
<1>5. QED  BY <1>2, <1>3, <1>4

-----------------------------------------------------------------------------
(* The requests of the gateway                                             *)

\* What the proofs about requests assume of the constants.
Bounds ==
    /\ IsFiniteSet(Connection) /\ MaxGeneration \in Nat
    /\ MaxWaiters \in Nat /\ MaxTunnels \in Nat

\* The shell's assumption covers it.
LEMMA BoundsHold == Bounds
BY ShellAssumption, SupervisorAssumption DEF Bounds

\* The instance counts sets as this module does.
LEMMA RequestsCount == \A S : Requests!Cardinality(S) = Cardinality(S)
BY DEF Requests!Cardinality, Cardinality

\* The records of a connection's request.
RequestRecords ==
    [pc : {"none", "routing", "submitting", "retrying", "waiting", "leased", "checking",
           "uploading", "sent", "switching", "upgrading", "recording", "open"},
     kind : Requests!Kinds \cup {"none"}, expected : 0..MaxGeneration, lease : 0..MaxGeneration]
\* Every connection has such a record.
RequestTypes == req \in [Connection -> RequestRecords]
\* The phase and the generations.
RequestCounts ==
    /\ requests_generation \in 0..MaxGeneration /\ requests_phase \in Requests!Phases
    /\ pool \in 0..MaxGeneration /\ recorded \in 0..MaxGeneration

\* The provers of arithmetic do not tell a Boolean from another value.
RequestFlags ==
    /\ stopped \in BOOLEAN /\ accepting \in BOOLEAN /\ capability \in BOOLEAN
    /\ requests_session \in BOOLEAN /\ requests_pending \in BOOLEAN /\ drained \in BOOLEAN

\* Every step keeps the types of the requests.
LEMMA RequestTypesKept ==
    ASSUME Bounds, RequestTypes, RequestCounts, Requests!Next
    PROVE  RequestTypes'
  <1> USE DEF Requests!NoRequest, Requests!At, Requests!Kinds
  <1>1. CASE Requests!SupervisorBegins \/ Requests!BackendIsReady \/ Requests!BackendFails \/
           Requests!StateShutdown
    <2>1. UNCHANGED <<req>>
      BY <1>1 DEF Requests!SupervisorBegins, Requests!BackendIsReady, Requests!BackendFails,
           Requests!StateShutdown
    <2> QED
      BY <2>1 DEF RequestTypes
  <1>2. ASSUME NEW r \in Connection, Requests!Bootstrap(r) PROVE RequestTypes'
    BY <1>2 DEF Requests!Bootstrap, Requests!Answers, Bounds, RequestTypes, RequestRecords
  <1>3. ASSUME NEW r \in Connection, Requests!Refuses(r) PROVE RequestTypes'
    BY <1>3 DEF Requests!Refuses, Requests!Answers, Bounds, RequestTypes, RequestRecords
  <1>4. ASSUME NEW r \in Connection, Requests!StaticAsset(r) PROVE RequestTypes'
    BY <1>4 DEF Requests!StaticAsset, Requests!Answers, Bounds, RequestTypes, RequestRecords
  <1>5. ASSUME NEW r \in Connection, Requests!StartupStatus(r) PROVE RequestTypes'
    BY <1>5 DEF Requests!StartupStatus, Requests!Answers, Bounds, RequestTypes, RequestRecords
  <1>6. ASSUME NEW r \in Connection, Requests!RetryIsRead(r) PROVE RequestTypes'
    BY <1>6 DEF Requests!RetryIsRead, Requests!Answers, Bounds, RequestTypes, RequestRecords
  <1>7. ASSUME NEW r \in Connection, Requests!RetryIsSubmitted(r) PROVE RequestTypes'
    BY <1>7 DEF Requests!RetryIsSubmitted, Requests!Goes, Requests!Answers, Bounds, RequestTypes,
         RequestRecords
  <1>8. ASSUME NEW r \in Connection, Requests!RetryCompletes(r) PROVE RequestTypes'
    BY <1>8 DEF Requests!RetryCompletes, Requests!Answers, Bounds, RequestTypes, RequestRecords
  <1>9. ASSUME NEW r \in Connection, Requests!AsksForBackend(r) PROVE RequestTypes'
    BY <1>9 DEF Requests!AsksForBackend, Requests!Answers, Bounds, RequestTypes, RequestRecords
  <1>10. ASSUME NEW r \in Connection, Requests!Wakes(r) PROVE RequestTypes'
    BY <1>10 DEF Requests!Wakes, Requests!Settled, Requests!Answers, Bounds, RequestTypes,
         RequestRecords
  <1>11. ASSUME NEW r \in Connection, Requests!WaitTimesOut(r) PROVE RequestTypes'
    BY <1>11 DEF Requests!WaitTimesOut, Requests!Answers, Bounds, RequestTypes, RequestRecords
  <1>12. ASSUME NEW r \in Connection, Requests!TakesClient(r) PROVE RequestTypes'
    BY <1>12 DEF Requests!TakesClient, Requests!Goes, Requests!Answers, Bounds, RequestTypes,
         RequestRecords
  <1>13. ASSUME NEW r \in Connection, Requests!Sends(r) PROVE RequestTypes'
    BY <1>13 DEF Requests!Sends, Requests!Goes, Requests!Answers, Bounds, RequestTypes,
         RequestRecords
  <1>14. ASSUME NEW r \in Connection, Requests!ResponseTimesOut(r) PROVE RequestTypes'
    BY <1>14 DEF Requests!ResponseTimesOut, Requests!Answers, Bounds, RequestTypes, RequestRecords
  <1>15. ASSUME NEW r \in Connection, Requests!Switches(r) PROVE RequestTypes'
    BY <1>15 DEF Requests!Switches, Requests!Goes, Requests!Answers, Bounds, RequestTypes,
         RequestRecords
  <1>16. ASSUME NEW r \in Connection, Requests!TunnelOpens(r) PROVE RequestTypes'
    BY <1>16 DEF Requests!TunnelOpens, Requests!Goes, RequestTypes, RequestRecords
  <1>17. ASSUME NEW r \in Connection, Requests!TunnelStops(r) PROVE RequestTypes'
    BY <1>17 DEF Requests!TunnelStops, Requests!Answers, Bounds, RequestTypes, RequestRecords
  <1>18. ASSUME NEW r \in Connection, Requests!UpgradeTimesOut(r) PROVE RequestTypes'
    BY <1>18 DEF Requests!UpgradeTimesOut, Requests!Answers, Bounds, RequestTypes, RequestRecords
  <1>19. ASSUME NEW r \in Connection, Requests!Arrives(r) PROVE RequestTypes'
    <2>1. PICK k \in Requests!Kinds :
                req' = [req EXCEPT ![r].pc = "routing", ![r].kind = k]
      BY <1>19 DEF Requests!Arrives
    <2>2. [req[r] EXCEPT !.pc = "routing", !.kind = k] \in RequestRecords
      BY DEF RequestTypes, RequestRecords
    <2> QED
      BY <2>1, <2>2 DEF RequestTypes
  <1>20. ASSUME NEW r \in Connection, Requests!UploadEnds(r) PROVE RequestTypes'
    BY <1>20 DEF Requests!UploadEnds, Requests!Goes, RequestTypes, RequestRecords
  <1>21. ASSUME NEW r \in Connection, Requests!Responds(r) PROVE RequestTypes'
    BY <1>21 DEF Requests!Responds, Requests!Answers, Requests!Goes, Bounds, RequestTypes,
         RequestRecords
  <1>22. ASSUME NEW r \in Connection, Requests!ResponseFails(r) PROVE RequestTypes'
    BY <1>22 DEF Requests!ResponseFails, Requests!Answers, Bounds, RequestTypes, RequestRecords
  <1>23. ASSUME NEW r \in Connection, Requests!TunnelUpgrades(r) PROVE RequestTypes'
    BY <1>23 DEF Requests!TunnelUpgrades, Requests!Goes, RequestTypes, RequestRecords
  <1>24. ASSUME NEW r \in Connection, Requests!SideCloses(r) PROVE RequestTypes'
    BY <1>24 DEF Requests!SideCloses, Requests!Answers, Bounds, RequestTypes, RequestRecords
  <1>25. CASE Requests!ConnectionsDrain
    BY <1>25 DEF Requests!ConnectionsDrain, Bounds, RequestTypes, RequestRecords
  <1>26. CASE Requests!TunnelsShutDown
    BY <1>26 DEF Requests!TunnelsShutDown, Bounds, RequestTypes, RequestRecords
  <1> QED
    BY <1>1, <1>2, <1>3, <1>4, <1>5, <1>6, <1>7, <1>8, <1>9, <1>10, <1>11, <1>12, <1>13,
       <1>14, <1>15, <1>16, <1>17, <1>18, <1>19, <1>20, <1>21, <1>22, <1>23, <1>24,
       <1>25, <1>26 DEF Requests!Next, Requests!RequestStep, Requests!Peers,
           Requests!Supervision, Requests!Drains

\* Every step keeps the types of the generations.
LEMMA RequestCountsKept ==
    ASSUME Bounds, RequestTypes, RequestCounts, Requests!Next
    PROVE  RequestCounts'
  <1> USE DEF Requests!NoRequest, Requests!At
  <1>1. CASE \E r \in Connection : Requests!Bootstrap(r) \/ Requests!Refuses(r) \/
           Requests!StaticAsset(r) \/
             Requests!StartupStatus(r) \/ Requests!RetryIsRead(r) \/
                 Requests!RetryIsSubmitted(r) \/
             Requests!AsksForBackend(r) \/ Requests!Wakes(r) \/ Requests!WaitTimesOut(r) \/
                 Requests!Sends(r) \/
             Requests!ResponseTimesOut(r) \/ Requests!Switches(r) \/ Requests!TunnelStops(r) \/
                 Requests!UpgradeTimesOut(r)
             \/ Requests!Arrives(r) \/ Requests!UploadEnds(r) \/ Requests!Responds(r) \/
                    Requests!ResponseFails(r) \/
             Requests!TunnelUpgrades(r) \/ Requests!SideCloses(r)
    <2>1. UNCHANGED <<requests_generation, requests_phase, pool, recorded>>
      BY <1>1 DEF Requests!Bootstrap, Requests!Refuses, Requests!StaticAsset,
           Requests!StartupStatus, Requests!RetryIsRead, Requests!RetryIsSubmitted,
           Requests!AsksForBackend, Requests!Wakes, Requests!WaitTimesOut, Requests!Sends,
           Requests!ResponseTimesOut, Requests!Switches, Requests!TunnelStops,
           Requests!UpgradeTimesOut, Requests!Arrives, Requests!UploadEnds, Requests!Responds,
           Requests!ResponseFails, Requests!TunnelUpgrades, Requests!SideCloses,
           Requests!gatewayVars, Requests!sharedVars
    <2> QED
      BY <2>1 DEF RequestCounts
  <1>2. CASE Requests!ConnectionsDrain \/ Requests!TunnelsShutDown
    <2>1. UNCHANGED <<requests_generation, requests_phase, pool, recorded>>
      BY <1>2 DEF Requests!ConnectionsDrain, Requests!TunnelsShutDown, Requests!gatewayVars
    <2> QED
      BY <2>1 DEF RequestCounts
  <1>3. ASSUME NEW r \in Connection, Requests!RetryCompletes(r) PROVE RequestCounts'
    BY <1>3 DEF Requests!RetryCompletes, Requests!MayBegin, Requests!Begins, Requests!gatewayVars,
         Bounds, RequestCounts, Requests!Phases
  <1>4. ASSUME NEW r \in Connection, Requests!TakesClient(r) PROVE RequestCounts'
    BY <1>4 DEF Requests!TakesClient, Requests!gatewayVars, RequestTypes, RequestCounts,
         RequestRecords
  <1>5. ASSUME NEW r \in Connection, Requests!TunnelOpens(r) PROVE RequestCounts'
    BY <1>5 DEF Requests!TunnelOpens, Requests!Records, Requests!gatewayVars, RequestTypes,
         RequestCounts, RequestRecords
  <1>6. CASE Requests!SupervisorBegins
    BY <1>6 DEF Requests!SupervisorBegins, Requests!MayBegin, Requests!Begins,
         Requests!sharedVars, Bounds, RequestCounts, Requests!Phases
  <1>7. CASE Requests!BackendIsReady
    BY <1>7 DEF Requests!BackendIsReady, Requests!Readies, Requests!sharedVars, RequestCounts,
         Requests!Phases
  <1>8. CASE Requests!BackendFails
    BY <1>8 DEF Requests!BackendFails, Requests!Fails, Requests!sharedVars, RequestCounts,
         Requests!Phases
  <1>9. CASE Requests!StateShutdown
    BY <1>9 DEF Requests!StateShutdown, Requests!ShutsDown, RequestCounts, Requests!Phases
  <1> QED
    BY <1>1, <1>2, <1>3, <1>4, <1>5, <1>6, <1>7, <1>8, <1>9
    DEF Requests!Next, Requests!RequestStep, Requests!Peers, Requests!Supervision, Requests!Drains

\* Every step keeps the types of the flags.
LEMMA RequestFlagsKept ==
    ASSUME RequestFlags, Requests!Next
    PROVE  RequestFlags'
  <1>1. CASE \E r \in Connection : Requests!Refuses(r) \/ Requests!StaticAsset(r) \/
           Requests!StartupStatus(r) \/
             Requests!RetryIsRead(r) \/ Requests!AsksForBackend(r) \/ Requests!Wakes(r) \/
                 Requests!WaitTimesOut(r) \/
             Requests!TakesClient(r) \/ Requests!Sends(r) \/ Requests!ResponseTimesOut(r) \/
                 Requests!Switches(r) \/
             Requests!TunnelOpens(r) \/ Requests!TunnelStops(r) \/
                 Requests!UpgradeTimesOut(r) \/ Requests!Arrives(r) \/
             Requests!UploadEnds(r) \/ Requests!Responds(r) \/ Requests!ResponseFails(r) \/
                 Requests!TunnelUpgrades(r) \/
             Requests!SideCloses(r)
    <2>1. UNCHANGED <<stopped, accepting, capability, requests_session, requests_pending,
             drained>>
      BY <1>1 DEF Requests!Refuses, Requests!StaticAsset, Requests!StartupStatus,
           Requests!RetryIsRead, Requests!AsksForBackend, Requests!Wakes, Requests!WaitTimesOut,
           Requests!TakesClient, Requests!Sends, Requests!ResponseTimesOut, Requests!Switches,
           Requests!TunnelOpens, Requests!TunnelStops, Requests!UpgradeTimesOut, Requests!Arrives,
           Requests!UploadEnds, Requests!Responds, Requests!ResponseFails,
           Requests!TunnelUpgrades, Requests!SideCloses, Requests!sharedVars
    <2> QED
      BY <2>1, Zenon DEF RequestFlags
  <1>2. CASE Requests!SupervisorBegins \/ Requests!BackendIsReady \/ Requests!BackendFails
    <2>1. UNCHANGED <<stopped, accepting, capability, requests_session, requests_pending,
             drained>>
      BY <1>2 DEF Requests!SupervisorBegins, Requests!BackendIsReady, Requests!BackendFails,
           Requests!sharedVars
    <2> QED
      BY <2>1, Zenon DEF RequestFlags
  <1>3. ASSUME NEW r \in Connection, Requests!Bootstrap(r) PROVE RequestFlags'
    BY <1>3, Zenon DEF Requests!Bootstrap, Requests!BootstrapTakes, RequestFlags
  <1>4. ASSUME NEW r \in Connection, Requests!RetryIsSubmitted(r) PROVE RequestFlags'
    BY <1>4, Zenon DEF Requests!RetryIsSubmitted, RequestFlags
  <1>5. ASSUME NEW r \in Connection, Requests!RetryCompletes(r) PROVE RequestFlags'
    BY <1>5, Zenon DEF Requests!RetryCompletes, RequestFlags
  <1>6. CASE Requests!StateShutdown
    BY <1>6, Zenon DEF Requests!StateShutdown, RequestFlags
  <1>7. CASE Requests!ConnectionsDrain
    BY <1>7, Zenon DEF Requests!ConnectionsDrain, RequestFlags
  <1>8. CASE Requests!TunnelsShutDown
    BY <1>8, Zenon DEF Requests!TunnelsShutDown, RequestFlags
  <1> QED
    BY <1>1, <1>2, <1>3, <1>4, <1>5, <1>6, <1>7, <1>8
    DEF Requests!Next, Requests!RequestStep, Requests!Peers, Requests!Supervision, Requests!Drains

-----------------------------------------------------------------------------

\* A request has no lease before it is sent on, and then one of the generation it came in.
RequestLeases ==
    /\ \A r \in Connection :
            Requests!At(r, {"none", "routing", "submitting", "retrying", "waiting"}) =>
                req[r].lease = 0
    /\ \A r \in Connection : req[r].lease # 0 => req[r].lease = req[r].expected

\* The retry flag is up for one request.
RequestRetry ==
    /\ requests_pending => \E r \in Connection : Requests!At(r, {"retrying"})
    /\ \A r \in Connection : Requests!At(r, {"retrying"}) => requests_pending
    /\ \A r, s \in Connection : Requests!At(r, {"retrying"}) /\ Requests!At(s, {"retrying"}) =>
           r = s

\* Draining leaves tunnels only, and their registry takes no new one afterwards.
RequestDrain ==
    /\ drained => \A r \in Connection : Requests!At(r, {"none", "upgrading", "recording", "open"})
    /\ ~accepting => drained /\ \A r \in Connection : Requests!At(r, {"none"})

\* The session is issued when the capability is spent.
RequestSession == requests_session <=> ~capability

\* Every step keeps the leases of the generation that was waited for.
LEMMA RequestLeasesKept ==
    ASSUME Bounds, RequestTypes, RequestCounts, RequestLeases, Requests!Next
    PROVE  RequestLeases'
  <1> USE DEF Requests!NoRequest, Requests!At
  <1>1. CASE Requests!SupervisorBegins \/ Requests!BackendIsReady \/ Requests!BackendFails \/
           Requests!StateShutdown
    <2>1. UNCHANGED <<req>>
      BY <1>1 DEF Requests!SupervisorBegins, Requests!BackendIsReady, Requests!BackendFails,
           Requests!StateShutdown
    <2> QED
      BY <2>1 DEF RequestLeases
  <1>2. ASSUME NEW r \in Connection, Requests!Bootstrap(r) PROVE RequestLeases'
    BY <1>2 DEF Requests!Bootstrap, Requests!Answers, RequestTypes, RequestLeases
  <1>3. ASSUME NEW r \in Connection, Requests!Refuses(r) PROVE RequestLeases'
    BY <1>3 DEF Requests!Refuses, Requests!Answers, RequestLeases
  <1>4. ASSUME NEW r \in Connection, Requests!StaticAsset(r) PROVE RequestLeases'
    BY <1>4 DEF Requests!StaticAsset, Requests!Answers, RequestLeases
  <1>5. ASSUME NEW r \in Connection, Requests!StartupStatus(r) PROVE RequestLeases'
    BY <1>5 DEF Requests!StartupStatus, Requests!Answers, RequestLeases
  <1>6. ASSUME NEW r \in Connection, Requests!RetryIsRead(r) PROVE RequestLeases'
    BY <1>6 DEF Requests!RetryIsRead, Requests!Routed, Requests!Answers, RequestTypes,
         RequestRecords, RequestLeases
  <1>7. ASSUME NEW r \in Connection, Requests!RetryIsSubmitted(r) PROVE RequestLeases'
    BY <1>7 DEF Requests!RetryIsSubmitted, Requests!Goes, Requests!Answers, RequestTypes,
         RequestRecords, RequestLeases
  <1>8. ASSUME NEW r \in Connection, Requests!RetryCompletes(r) PROVE RequestLeases'
    BY <1>8 DEF Requests!RetryCompletes, Requests!Answers, RequestTypes, RequestLeases
  <1>9. ASSUME NEW r \in Connection, Requests!AsksForBackend(r) PROVE RequestLeases'
    BY <1>9 DEF Requests!AsksForBackend, Requests!Routed, Requests!Answers, RequestTypes,
         RequestRecords, RequestLeases
  <1>10. ASSUME NEW r \in Connection, Requests!Wakes(r) PROVE RequestLeases'
    BY <1>10 DEF Requests!Wakes, Requests!Settled, Requests!Answers, RequestTypes, RequestRecords,
         RequestLeases
  <1>11. ASSUME NEW r \in Connection, Requests!WaitTimesOut(r) PROVE RequestLeases'
    BY <1>11 DEF Requests!WaitTimesOut, Requests!Answers, RequestLeases
  <1>12. ASSUME NEW r \in Connection, Requests!TakesClient(r) PROVE RequestLeases'
    BY <1>12 DEF Requests!TakesClient, Requests!Goes, Requests!Answers, RequestTypes,
         RequestRecords, RequestLeases
  <1>13. ASSUME NEW r \in Connection, Requests!Sends(r) PROVE RequestLeases'
    BY <1>13 DEF Requests!Sends, Requests!Goes, Requests!Answers, RequestTypes, RequestRecords,
         RequestLeases
  <1>14. ASSUME NEW r \in Connection, Requests!ResponseTimesOut(r) PROVE RequestLeases'
    BY <1>14 DEF Requests!ResponseTimesOut, Requests!Answers, RequestLeases
  <1>15. ASSUME NEW r \in Connection, Requests!Switches(r) PROVE RequestLeases'
    BY <1>15 DEF Requests!Switches, Requests!Goes, Requests!Answers, RequestTypes, RequestRecords,
         RequestLeases
  <1>16. ASSUME NEW r \in Connection, Requests!TunnelOpens(r) PROVE RequestLeases'
    BY <1>16 DEF Requests!TunnelOpens, Requests!Goes, RequestLeases
  <1>17. ASSUME NEW r \in Connection, Requests!TunnelStops(r) PROVE RequestLeases'
    BY <1>17 DEF Requests!TunnelStops, Requests!Answers, RequestLeases
  <1>18. ASSUME NEW r \in Connection, Requests!UpgradeTimesOut(r) PROVE RequestLeases'
    BY <1>18 DEF Requests!UpgradeTimesOut, Requests!Answers, RequestLeases
  <1>19. ASSUME NEW r \in Connection, Requests!Arrives(r) PROVE RequestLeases'
    BY <1>19 DEF Requests!Arrives, RequestTypes, RequestLeases
  <1>20. ASSUME NEW r \in Connection, Requests!UploadEnds(r) PROVE RequestLeases'
    BY <1>20 DEF Requests!UploadEnds, Requests!Goes, RequestLeases
  <1>21. ASSUME NEW r \in Connection, Requests!Responds(r) PROVE RequestLeases'
    BY <1>21 DEF Requests!Responds, Requests!Answers, Requests!Goes, RequestTypes, RequestRecords,
         RequestLeases
  <1>22. ASSUME NEW r \in Connection, Requests!ResponseFails(r) PROVE RequestLeases'
    BY <1>22 DEF Requests!ResponseFails, Requests!Answers, RequestLeases
  <1>23. ASSUME NEW r \in Connection, Requests!TunnelUpgrades(r) PROVE RequestLeases'
    BY <1>23 DEF Requests!TunnelUpgrades, Requests!Goes, RequestLeases
  <1>24. ASSUME NEW r \in Connection, Requests!SideCloses(r) PROVE RequestLeases'
    BY <1>24 DEF Requests!SideCloses, Requests!Answers, RequestLeases
  <1>25. CASE Requests!ConnectionsDrain
    BY <1>25 DEF Requests!ConnectionsDrain, RequestLeases
  <1>26. CASE Requests!TunnelsShutDown
    BY <1>26 DEF Requests!TunnelsShutDown, RequestLeases
  <1> QED
    BY <1>1, <1>2, <1>3, <1>4, <1>5, <1>6, <1>7, <1>8, <1>9, <1>10, <1>11, <1>12, <1>13,
       <1>14, <1>15, <1>16, <1>17, <1>18, <1>19, <1>20, <1>21, <1>22, <1>23, <1>24,
       <1>25, <1>26 DEF Requests!Next, Requests!RequestStep, Requests!Peers,
           Requests!Supervision, Requests!Drains

\* Every step keeps the flag with the retry.
LEMMA RequestRetryKept ==
    ASSUME Bounds, RequestTypes, RequestCounts, RequestRetry, RequestDrain, Requests!Next
    PROVE  RequestRetry'
  <1> USE DEF Requests!NoRequest, Requests!At
  <1>1. CASE Requests!SupervisorBegins \/ Requests!BackendIsReady \/ Requests!BackendFails \/
           Requests!StateShutdown
    <2>1. UNCHANGED <<req, requests_pending>>
      BY <1>1 DEF Requests!SupervisorBegins, Requests!BackendIsReady, Requests!BackendFails,
           Requests!StateShutdown, Requests!sharedVars
    <2> QED
      BY <2>1 DEF RequestRetry
  <1>2. ASSUME NEW r \in Connection, Requests!Bootstrap(r) PROVE RequestRetry'
    BY <1>2 DEF Requests!Bootstrap, Requests!Answers, RequestTypes, RequestRetry
  <1>3. ASSUME NEW r \in Connection, Requests!Refuses(r) PROVE RequestRetry'
    BY <1>3 DEF Requests!Refuses, Requests!Answers, Requests!sharedVars, RequestRetry
  <1>4. ASSUME NEW r \in Connection, Requests!StaticAsset(r) PROVE RequestRetry'
    BY <1>4 DEF Requests!StaticAsset, Requests!Routed, Requests!Answers, Requests!sharedVars,
         RequestRetry
  <1>5. ASSUME NEW r \in Connection, Requests!StartupStatus(r) PROVE RequestRetry'
    BY <1>5 DEF Requests!StartupStatus, Requests!Routed, Requests!Answers, Requests!sharedVars,
         RequestRetry
  <1>6. ASSUME NEW r \in Connection, Requests!RetryIsRead(r) PROVE RequestRetry'
    BY <1>6 DEF Requests!RetryIsRead, Requests!Routed, Requests!Answers, Requests!sharedVars,
         RequestTypes, RequestRecords, RequestRetry
  <1>7. ASSUME NEW r \in Connection, Requests!RetryIsSubmitted(r) PROVE RequestRetry'
    BY <1>7 DEF Requests!RetryIsSubmitted, Requests!RetryIsFree, Requests!Goes, Requests!Answers,
         RequestTypes, RequestRecords, RequestRetry
  <1>8. ASSUME NEW r \in Connection, Requests!RetryCompletes(r) PROVE RequestRetry'
    BY <1>8 DEF Requests!RetryCompletes, Requests!Answers, RequestTypes, RequestRetry
  <1>9. ASSUME NEW r \in Connection, Requests!AsksForBackend(r) PROVE RequestRetry'
    BY <1>9 DEF Requests!AsksForBackend, Requests!Routed, Requests!Answers, Requests!sharedVars,
         RequestTypes, RequestRecords, RequestRetry
  <1>10. ASSUME NEW r \in Connection, Requests!Wakes(r) PROVE RequestRetry'
    BY <1>10 DEF Requests!Wakes, Requests!Settled, Requests!Answers, Requests!sharedVars,
         RequestTypes, RequestRecords, RequestRetry
  <1>11. ASSUME NEW r \in Connection, Requests!WaitTimesOut(r) PROVE RequestRetry'
    BY <1>11 DEF Requests!WaitTimesOut, Requests!Answers, Requests!sharedVars, RequestRetry
  <1>12. ASSUME NEW r \in Connection, Requests!TakesClient(r) PROVE RequestRetry'
    BY <1>12 DEF Requests!TakesClient, Requests!Goes, Requests!Answers, RequestTypes,
         RequestRecords, RequestRetry
  <1>13. ASSUME NEW r \in Connection, Requests!Sends(r) PROVE RequestRetry'
    BY <1>13 DEF Requests!Sends, Requests!Goes, Requests!Answers, Requests!sharedVars,
         RequestTypes, RequestRecords, RequestRetry
  <1>14. ASSUME NEW r \in Connection, Requests!ResponseTimesOut(r) PROVE RequestRetry'
    BY <1>14 DEF Requests!ResponseTimesOut, Requests!Answers, Requests!sharedVars, RequestRetry
  <1>15. ASSUME NEW r \in Connection, Requests!Switches(r) PROVE RequestRetry'
    BY <1>15 DEF Requests!Switches, Requests!Goes, Requests!Answers, Requests!sharedVars,
         RequestTypes, RequestRecords, RequestRetry
  <1>16. ASSUME NEW r \in Connection, Requests!TunnelOpens(r) PROVE RequestRetry'
    BY <1>16 DEF Requests!TunnelOpens, Requests!Goes, RequestRetry
  <1>17. ASSUME NEW r \in Connection, Requests!TunnelStops(r) PROVE RequestRetry'
    BY <1>17 DEF Requests!TunnelStops, Requests!Answers, Requests!sharedVars, RequestRetry
  <1>18. ASSUME NEW r \in Connection, Requests!UpgradeTimesOut(r) PROVE RequestRetry'
    BY <1>18 DEF Requests!UpgradeTimesOut, Requests!Answers, Requests!sharedVars, RequestRetry
  <1>19. ASSUME NEW r \in Connection, Requests!Arrives(r) PROVE RequestRetry'
    BY <1>19 DEF Requests!Arrives, Requests!sharedVars, RequestTypes, RequestRetry
  <1>20. ASSUME NEW r \in Connection, Requests!UploadEnds(r) PROVE RequestRetry'
    BY <1>20 DEF Requests!UploadEnds, Requests!Goes, Requests!sharedVars, RequestRetry
  <1>21. ASSUME NEW r \in Connection, Requests!Responds(r) PROVE RequestRetry'
    BY <1>21 DEF Requests!Responds, Requests!Answers, Requests!Goes, Requests!sharedVars,
         RequestTypes, RequestRecords, RequestRetry
  <1>22. ASSUME NEW r \in Connection, Requests!ResponseFails(r) PROVE RequestRetry'
    BY <1>22 DEF Requests!ResponseFails, Requests!Answers, Requests!sharedVars, RequestRetry
  <1>23. ASSUME NEW r \in Connection, Requests!TunnelUpgrades(r) PROVE RequestRetry'
    BY <1>23 DEF Requests!TunnelUpgrades, Requests!Goes, Requests!sharedVars, RequestRetry
  <1>24. ASSUME NEW r \in Connection, Requests!SideCloses(r) PROVE RequestRetry'
    BY <1>24 DEF Requests!SideCloses, Requests!Answers, Requests!sharedVars, RequestRetry
  <1>25. CASE Requests!ConnectionsDrain
    BY <1>25 DEF Requests!ConnectionsDrain, RequestRetry
  <1>26. CASE Requests!TunnelsShutDown
    BY <1>26 DEF Requests!TunnelsShutDown, RequestRetry
  <1> QED
    BY <1>1, <1>2, <1>3, <1>4, <1>5, <1>6, <1>7, <1>8, <1>9, <1>10, <1>11, <1>12, <1>13,
       <1>14, <1>15, <1>16, <1>17, <1>18, <1>19, <1>20, <1>21, <1>22, <1>23, <1>24,
       <1>25, <1>26 DEF Requests!Next, Requests!RequestStep, Requests!Peers,
           Requests!Supervision, Requests!Drains

\* Every step keeps the drained connections empty.
LEMMA RequestDrainKept ==
    ASSUME Bounds, RequestTypes, RequestCounts, RequestDrain, Requests!Next
    PROVE  RequestDrain'
  <1> USE DEF Requests!NoRequest, Requests!At
  <1>1. CASE Requests!SupervisorBegins \/ Requests!BackendIsReady \/ Requests!BackendFails \/
           Requests!StateShutdown
    <2>1. UNCHANGED <<req, drained, accepting>>
      BY <1>1 DEF Requests!SupervisorBegins, Requests!BackendIsReady, Requests!BackendFails,
           Requests!StateShutdown, Requests!sharedVars
    <2> QED
      BY <2>1 DEF RequestDrain
  <1>2. ASSUME NEW r \in Connection, Requests!Bootstrap(r) PROVE RequestDrain'
    BY <1>2 DEF Requests!Bootstrap, RequestDrain
  <1>3. ASSUME NEW r \in Connection, Requests!Refuses(r) PROVE RequestDrain'
    BY <1>3 DEF Requests!Refuses, Requests!sharedVars, RequestDrain
  <1>4. ASSUME NEW r \in Connection, Requests!StaticAsset(r) PROVE RequestDrain'
    BY <1>4 DEF Requests!StaticAsset, Requests!Routed, Requests!sharedVars, RequestDrain
  <1>5. ASSUME NEW r \in Connection, Requests!StartupStatus(r) PROVE RequestDrain'
    BY <1>5 DEF Requests!StartupStatus, Requests!Routed, Requests!sharedVars, RequestDrain
  <1>6. ASSUME NEW r \in Connection, Requests!RetryIsRead(r) PROVE RequestDrain'
    BY <1>6 DEF Requests!RetryIsRead, Requests!Routed, Requests!sharedVars, RequestDrain
  <1>7. ASSUME NEW r \in Connection, Requests!RetryIsSubmitted(r) PROVE RequestDrain'
    BY <1>7 DEF Requests!RetryIsSubmitted, RequestDrain
  <1>8. ASSUME NEW r \in Connection, Requests!RetryCompletes(r) PROVE RequestDrain'
    BY <1>8 DEF Requests!RetryCompletes, RequestDrain
  <1>9. ASSUME NEW r \in Connection, Requests!AsksForBackend(r) PROVE RequestDrain'
    BY <1>9 DEF Requests!AsksForBackend, Requests!Routed, Requests!sharedVars, RequestDrain
  <1>10. ASSUME NEW r \in Connection, Requests!Wakes(r) PROVE RequestDrain'
    BY <1>10 DEF Requests!Wakes, Requests!sharedVars, RequestDrain
  <1>11. ASSUME NEW r \in Connection, Requests!WaitTimesOut(r) PROVE RequestDrain'
    BY <1>11 DEF Requests!WaitTimesOut, Requests!sharedVars, RequestDrain
  <1>12. ASSUME NEW r \in Connection, Requests!TakesClient(r) PROVE RequestDrain'
    BY <1>12 DEF Requests!TakesClient, RequestDrain
  <1>13. ASSUME NEW r \in Connection, Requests!Sends(r) PROVE RequestDrain'
    BY <1>13 DEF Requests!Sends, Requests!sharedVars, RequestDrain
  <1>14. ASSUME NEW r \in Connection, Requests!ResponseTimesOut(r) PROVE RequestDrain'
    BY <1>14 DEF Requests!ResponseTimesOut, Requests!sharedVars, RequestDrain
  <1>15. ASSUME NEW r \in Connection, Requests!Switches(r) PROVE RequestDrain'
    BY <1>15 DEF Requests!Switches, Requests!sharedVars, RequestDrain
  <1>16. ASSUME NEW r \in Connection, Requests!TunnelOpens(r) PROVE RequestDrain'
    BY <1>16 DEF Requests!TunnelOpens, Requests!Goes, RequestDrain
  <1>17. ASSUME NEW r \in Connection, Requests!TunnelStops(r) PROVE RequestDrain'
    BY <1>17 DEF Requests!TunnelStops, Requests!Answers, Requests!sharedVars, RequestDrain
  <1>18. ASSUME NEW r \in Connection, Requests!UpgradeTimesOut(r) PROVE RequestDrain'
    BY <1>18 DEF Requests!UpgradeTimesOut, Requests!Answers, Requests!sharedVars, RequestDrain
  <1>19. ASSUME NEW r \in Connection, Requests!Arrives(r) PROVE RequestDrain'
    BY <1>19 DEF Requests!Arrives, Requests!sharedVars, RequestDrain
  <1>20. ASSUME NEW r \in Connection, Requests!UploadEnds(r) PROVE RequestDrain'
    BY <1>20 DEF Requests!UploadEnds, Requests!sharedVars, RequestDrain
  <1>21. ASSUME NEW r \in Connection, Requests!Responds(r) PROVE RequestDrain'
    BY <1>21 DEF Requests!Responds, Requests!sharedVars, RequestDrain
  <1>22. ASSUME NEW r \in Connection, Requests!ResponseFails(r) PROVE RequestDrain'
    BY <1>22 DEF Requests!ResponseFails, Requests!sharedVars, RequestDrain
  <1>23. ASSUME NEW r \in Connection, Requests!TunnelUpgrades(r) PROVE RequestDrain'
    BY <1>23 DEF Requests!TunnelUpgrades, Requests!Goes, Requests!sharedVars, RequestDrain
  <1>24. ASSUME NEW r \in Connection, Requests!SideCloses(r) PROVE RequestDrain'
    BY <1>24 DEF Requests!SideCloses, Requests!Answers, Requests!sharedVars, RequestDrain
  <1>25. CASE Requests!ConnectionsDrain
    BY <1>25 DEF Requests!ConnectionsDrain, RequestDrain
  <1>26. CASE Requests!TunnelsShutDown
    BY <1>26 DEF Requests!TunnelsShutDown, RequestDrain
  <1> QED
    BY <1>1, <1>2, <1>3, <1>4, <1>5, <1>6, <1>7, <1>8, <1>9, <1>10, <1>11, <1>12, <1>13,
       <1>14, <1>15, <1>16, <1>17, <1>18, <1>19, <1>20, <1>21, <1>22, <1>23, <1>24,
       <1>25, <1>26 DEF Requests!Next, Requests!RequestStep, Requests!Peers,
           Requests!Supervision, Requests!Drains

\* Every step keeps one session for the capability.
LEMMA RequestSessionKept ==
    ASSUME RequestSession, RequestFlags, Requests!Next
    PROVE  RequestSession'
  <1>1. CASE \E r \in Connection : Requests!Refuses(r) \/ Requests!StaticAsset(r) \/
           Requests!StartupStatus(r) \/
             Requests!RetryIsRead(r) \/ Requests!RetryIsSubmitted(r) \/
                 Requests!RetryCompletes(r) \/
             Requests!AsksForBackend(r) \/ Requests!Wakes(r) \/ Requests!WaitTimesOut(r) \/
                 Requests!TakesClient(r) \/
             Requests!Sends(r) \/ Requests!ResponseTimesOut(r) \/ Requests!Switches(r) \/
                 Requests!TunnelOpens(r) \/
             Requests!TunnelStops(r) \/ Requests!UpgradeTimesOut(r) \/ Requests!Arrives(r) \/
                 Requests!UploadEnds(r) \/
             Requests!Responds(r) \/ Requests!ResponseFails(r) \/ Requests!TunnelUpgrades(r) \/
                 Requests!SideCloses(r)
    <2>1. UNCHANGED <<requests_session, capability>>
      BY <1>1 DEF Requests!Refuses, Requests!StaticAsset, Requests!StartupStatus,
           Requests!RetryIsRead, Requests!RetryIsSubmitted, Requests!RetryCompletes,
           Requests!AsksForBackend, Requests!Wakes, Requests!WaitTimesOut, Requests!TakesClient,
           Requests!Sends, Requests!ResponseTimesOut, Requests!Switches, Requests!TunnelOpens,
           Requests!TunnelStops, Requests!UpgradeTimesOut, Requests!Arrives, Requests!UploadEnds,
           Requests!Responds, Requests!ResponseFails, Requests!TunnelUpgrades,
           Requests!SideCloses, Requests!sharedVars
    <2> QED
      BY <2>1, Zenon DEF RequestSession
  <1>2. CASE Requests!SupervisorBegins \/ Requests!BackendIsReady \/ Requests!BackendFails \/
           Requests!StateShutdown \/
             Requests!ConnectionsDrain \/ Requests!TunnelsShutDown
    <2>1. UNCHANGED <<requests_session, capability>>
      BY <1>2 DEF Requests!SupervisorBegins, Requests!BackendIsReady, Requests!BackendFails,
           Requests!StateShutdown, Requests!ConnectionsDrain, Requests!TunnelsShutDown,
           Requests!sharedVars
    <2> QED
      BY <2>1, Zenon DEF RequestSession
  <1>3. ASSUME NEW r \in Connection, Requests!Bootstrap(r) PROVE RequestSession'
    BY <1>3, Zenon DEF Requests!Bootstrap, Requests!BootstrapTakes, RequestSession
  <1> QED
    BY <1>1, <1>2, <1>3 DEF Requests!Next, Requests!RequestStep, Requests!Peers,
         Requests!Supervision, Requests!Drains

\* A waiter is added only when its permit is free.
LEMMA WaitersAreAdmitted ==
    ASSUME RequestTypes, Requests!Next
    PROVE  \/ Requests!Waiters' \subseteq Requests!Waiters
           \/ (Requests!WaiterIsFree /\
                  \E w \in Connection : Requests!Waiters' \subseteq Requests!Waiters \cup {w})
  <1> USE DEF Requests!NoRequest, Requests!At
  <1> DEFINE Admits == \/ Requests!Waiters' \subseteq Requests!Waiters
                      \/ (Requests!WaiterIsFree /\
                             \E w \in Connection :
                             Requests!Waiters' \subseteq Requests!Waiters \cup {w})
  <1>1. CASE Requests!SupervisorBegins \/ Requests!BackendIsReady \/ Requests!BackendFails \/
           Requests!StateShutdown
    <2>1. UNCHANGED <<req>>
      BY <1>1 DEF Requests!SupervisorBegins, Requests!BackendIsReady, Requests!BackendFails,
           Requests!StateShutdown
    <2> QED
      BY <2>1 DEF Requests!Waiters
  <1>2. ASSUME NEW r \in Connection, Requests!Bootstrap(r) PROVE Admits
    BY <1>2 DEF Requests!Bootstrap, Requests!Answers, RequestTypes, Requests!Waiters
  <1>3. ASSUME NEW r \in Connection, Requests!Refuses(r) PROVE Admits
    BY <1>3 DEF Requests!Refuses, Requests!Answers, Requests!Waiters
  <1>4. ASSUME NEW r \in Connection, Requests!StaticAsset(r) PROVE Admits
    BY <1>4 DEF Requests!StaticAsset, Requests!Answers, Requests!Waiters
  <1>5. ASSUME NEW r \in Connection, Requests!StartupStatus(r) PROVE Admits
    BY <1>5 DEF Requests!StartupStatus, Requests!Answers, Requests!Waiters
  <1>6. ASSUME NEW r \in Connection, Requests!RetryIsRead(r) PROVE Admits
    BY <1>6 DEF Requests!RetryIsRead, Requests!Answers, RequestTypes, RequestRecords,
         Requests!Waiters
  <1>7. ASSUME NEW r \in Connection, Requests!RetryIsSubmitted(r) PROVE Admits
    BY <1>7 DEF Requests!RetryIsSubmitted, Requests!Goes, Requests!Answers, RequestTypes,
         RequestRecords, Requests!Waiters
  <1>8. ASSUME NEW r \in Connection, Requests!RetryCompletes(r) PROVE Admits
    BY <1>8 DEF Requests!RetryCompletes, Requests!Answers, RequestTypes, Requests!Waiters
  <1>9. ASSUME NEW r \in Connection, Requests!AsksForBackend(r) PROVE Admits
    BY <1>9 DEF Requests!AsksForBackend, Requests!Answers, RequestTypes, RequestRecords,
         Requests!Waiters
  <1>10. ASSUME NEW r \in Connection, Requests!Wakes(r) PROVE Admits
    BY <1>10 DEF Requests!Wakes, Requests!Settled, Requests!Answers, RequestTypes,
         Requests!Waiters
  <1>11. ASSUME NEW r \in Connection, Requests!WaitTimesOut(r) PROVE Admits
    BY <1>11 DEF Requests!WaitTimesOut, Requests!Answers, Requests!Waiters
  <1>12. ASSUME NEW r \in Connection, Requests!TakesClient(r) PROVE Admits
    BY <1>12 DEF Requests!TakesClient, Requests!Goes, Requests!Answers, RequestTypes,
         RequestRecords, Requests!Waiters
  <1>13. ASSUME NEW r \in Connection, Requests!Sends(r) PROVE Admits
    BY <1>13 DEF Requests!Sends, Requests!Goes, Requests!Answers, RequestTypes, RequestRecords,
         Requests!Waiters
  <1>14. ASSUME NEW r \in Connection, Requests!ResponseTimesOut(r) PROVE Admits
    BY <1>14 DEF Requests!ResponseTimesOut, Requests!Answers, Requests!Waiters
  <1>15. ASSUME NEW r \in Connection, Requests!Switches(r) PROVE Admits
    BY <1>15 DEF Requests!Switches, Requests!Goes, Requests!Answers, RequestTypes, RequestRecords,
         Requests!Waiters
  <1>16. ASSUME NEW r \in Connection, Requests!TunnelOpens(r) PROVE Admits
    BY <1>16 DEF Requests!TunnelOpens, Requests!Goes, Requests!Waiters
  <1>17. ASSUME NEW r \in Connection, Requests!TunnelStops(r) PROVE Admits
    BY <1>17 DEF Requests!TunnelStops, Requests!Answers, Requests!Waiters
  <1>18. ASSUME NEW r \in Connection, Requests!UpgradeTimesOut(r) PROVE Admits
    BY <1>18 DEF Requests!UpgradeTimesOut, Requests!Answers, Requests!Waiters
  <1>19. ASSUME NEW r \in Connection, Requests!Arrives(r) PROVE Admits
    BY <1>19 DEF Requests!Arrives, RequestTypes, Requests!Waiters
  <1>20. ASSUME NEW r \in Connection, Requests!UploadEnds(r) PROVE Admits
    BY <1>20 DEF Requests!UploadEnds, Requests!Goes, Requests!Waiters
  <1>21. ASSUME NEW r \in Connection, Requests!Responds(r) PROVE Admits
    BY <1>21 DEF Requests!Responds, Requests!Answers, Requests!Goes, RequestTypes, RequestRecords,
         Requests!Waiters
  <1>22. ASSUME NEW r \in Connection, Requests!ResponseFails(r) PROVE Admits
    BY <1>22 DEF Requests!ResponseFails, Requests!Answers, Requests!Waiters
  <1>23. ASSUME NEW r \in Connection, Requests!TunnelUpgrades(r) PROVE Admits
    BY <1>23 DEF Requests!TunnelUpgrades, Requests!Goes, Requests!Waiters
  <1>24. ASSUME NEW r \in Connection, Requests!SideCloses(r) PROVE Admits
    BY <1>24 DEF Requests!SideCloses, Requests!Answers, Requests!Waiters
  <1>25. CASE Requests!ConnectionsDrain
    BY <1>25 DEF Requests!ConnectionsDrain, Requests!Waiters
  <1>26. CASE Requests!TunnelsShutDown
    BY <1>26 DEF Requests!TunnelsShutDown, Requests!Waiters
  <1> QED
    BY <1>1, <1>2, <1>3, <1>4, <1>5, <1>6, <1>7, <1>8, <1>9, <1>10, <1>11, <1>12, <1>13,
       <1>14, <1>15, <1>16, <1>17, <1>18, <1>19, <1>20, <1>21, <1>22, <1>23, <1>24,
       <1>25, <1>26 DEF Requests!Next, Requests!RequestStep, Requests!Peers,
           Requests!Supervision, Requests!Drains

\* A tunnel is added only when its permit is free.
LEMMA TunnelsAreAdmitted ==
    ASSUME RequestTypes, Requests!Next
    PROVE  \/ Requests!TunnelPermits' \subseteq Requests!TunnelPermits
           \/ (Requests!TunnelIsFree
                /\ \E w \in Connection :
                       Requests!TunnelPermits' \subseteq Requests!TunnelPermits \cup {w})
  <1> USE DEF Requests!NoRequest, Requests!At
  <1> DEFINE Admits == \/ Requests!TunnelPermits' \subseteq Requests!TunnelPermits
                      \/ (Requests!TunnelIsFree
                /\ \E w \in Connection :
                       Requests!TunnelPermits' \subseteq Requests!TunnelPermits \cup {w})
  <1>1. CASE Requests!SupervisorBegins \/ Requests!BackendIsReady \/ Requests!BackendFails \/
           Requests!StateShutdown
    <2>1. UNCHANGED <<req>>
      BY <1>1 DEF Requests!SupervisorBegins, Requests!BackendIsReady, Requests!BackendFails,
           Requests!StateShutdown
    <2> QED
      BY <2>1 DEF Requests!TunnelPermits, Requests!Sockets
  <1>2. ASSUME NEW r \in Connection, Requests!Bootstrap(r) PROVE Admits
    BY <1>2 DEF Requests!Bootstrap, Requests!Answers, RequestTypes, Requests!TunnelPermits,
         Requests!Sockets
  <1>3. ASSUME NEW r \in Connection, Requests!Refuses(r) PROVE Admits
    BY <1>3 DEF Requests!Refuses, Requests!Answers, Requests!TunnelPermits, Requests!Sockets
  <1>4. ASSUME NEW r \in Connection, Requests!StaticAsset(r) PROVE Admits
    BY <1>4 DEF Requests!StaticAsset, Requests!Answers, Requests!TunnelPermits, Requests!Sockets
  <1>5. ASSUME NEW r \in Connection, Requests!StartupStatus(r) PROVE Admits
    BY <1>5 DEF Requests!StartupStatus, Requests!Answers, Requests!TunnelPermits, Requests!Sockets
  <1>6. ASSUME NEW r \in Connection, Requests!RetryIsRead(r) PROVE Admits
    BY <1>6 DEF Requests!RetryIsRead, Requests!Routed, Requests!Answers, RequestTypes,
         RequestRecords, Requests!TunnelPermits, Requests!Sockets
  <1>7. ASSUME NEW r \in Connection, Requests!RetryIsSubmitted(r) PROVE Admits
    BY <1>7 DEF Requests!RetryIsSubmitted, Requests!Goes, Requests!Answers, RequestTypes,
         RequestRecords, Requests!TunnelPermits, Requests!Sockets
  <1>8. ASSUME NEW r \in Connection, Requests!RetryCompletes(r) PROVE Admits
    BY <1>8 DEF Requests!RetryCompletes, Requests!Answers, RequestTypes, Requests!TunnelPermits,
         Requests!Sockets
  <1>9. ASSUME NEW r \in Connection, Requests!AsksForBackend(r) PROVE Admits
    BY <1>9 DEF Requests!AsksForBackend, Requests!Answers, RequestTypes, RequestRecords,
         Requests!TunnelPermits, Requests!Sockets
  <1>10. ASSUME NEW r \in Connection, Requests!Wakes(r) PROVE Admits
    BY <1>10 DEF Requests!Wakes, Requests!Settled, Requests!Answers, RequestTypes, RequestRecords,
         Requests!TunnelPermits, Requests!Sockets
  <1>11. ASSUME NEW r \in Connection, Requests!WaitTimesOut(r) PROVE Admits
    BY <1>11 DEF Requests!WaitTimesOut, Requests!Answers, Requests!TunnelPermits, Requests!Sockets
  <1>12. ASSUME NEW r \in Connection, Requests!TakesClient(r) PROVE Admits
    BY <1>12 DEF Requests!TakesClient, Requests!Goes, Requests!Answers, RequestTypes,
         RequestRecords, Requests!TunnelPermits, Requests!Sockets
  <1>13. ASSUME NEW r \in Connection, Requests!Sends(r) PROVE Admits
    BY <1>13 DEF Requests!Sends, Requests!Goes, Requests!Answers, RequestTypes, RequestRecords,
         Requests!TunnelPermits, Requests!Sockets
  <1>14. ASSUME NEW r \in Connection, Requests!ResponseTimesOut(r) PROVE Admits
    BY <1>14 DEF Requests!ResponseTimesOut, Requests!Answers, Requests!TunnelPermits,
         Requests!Sockets
  <1>15. ASSUME NEW r \in Connection, Requests!Switches(r) PROVE Admits
    BY <1>15 DEF Requests!Switches, Requests!Goes, Requests!Answers, RequestTypes, RequestRecords,
         Requests!TunnelPermits, Requests!Sockets
  <1>16. ASSUME NEW r \in Connection, Requests!TunnelOpens(r) PROVE Admits
    BY <1>16 DEF Requests!TunnelOpens, Requests!Goes, Requests!TunnelPermits, Requests!Sockets
  <1>17. ASSUME NEW r \in Connection, Requests!TunnelStops(r) PROVE Admits
    BY <1>17 DEF Requests!TunnelStops, Requests!Answers, Requests!TunnelPermits, Requests!Sockets
  <1>18. ASSUME NEW r \in Connection, Requests!UpgradeTimesOut(r) PROVE Admits
    BY <1>18 DEF Requests!UpgradeTimesOut, Requests!Answers, Requests!TunnelPermits,
         Requests!Sockets
  <1>19. ASSUME NEW r \in Connection, Requests!Arrives(r) PROVE Admits
    BY <1>19 DEF Requests!Arrives, RequestTypes, Requests!TunnelPermits, Requests!Sockets
  <1>20. ASSUME NEW r \in Connection, Requests!UploadEnds(r) PROVE Admits
    BY <1>20 DEF Requests!UploadEnds, Requests!Goes, Requests!TunnelPermits, Requests!Sockets
  <1>21. ASSUME NEW r \in Connection, Requests!Responds(r) PROVE Admits
    BY <1>21 DEF Requests!Responds, Requests!Answers, Requests!Goes, RequestTypes, RequestRecords,
         Requests!TunnelPermits, Requests!Sockets
  <1>22. ASSUME NEW r \in Connection, Requests!ResponseFails(r) PROVE Admits
    BY <1>22 DEF Requests!ResponseFails, Requests!Answers, Requests!TunnelPermits,
         Requests!Sockets
  <1>23. ASSUME NEW r \in Connection, Requests!TunnelUpgrades(r) PROVE Admits
    BY <1>23 DEF Requests!TunnelUpgrades, Requests!Goes, Requests!TunnelPermits, Requests!Sockets
  <1>24. ASSUME NEW r \in Connection, Requests!SideCloses(r) PROVE Admits
    BY <1>24 DEF Requests!SideCloses, Requests!Answers, Requests!TunnelPermits, Requests!Sockets
  <1>25. CASE Requests!ConnectionsDrain
    BY <1>25 DEF Requests!ConnectionsDrain, Requests!TunnelPermits, Requests!Sockets
  <1>26. CASE Requests!TunnelsShutDown
    BY <1>26 DEF Requests!TunnelsShutDown, Requests!TunnelPermits, Requests!Sockets
  <1> QED
    BY <1>1, <1>2, <1>3, <1>4, <1>5, <1>6, <1>7, <1>8, <1>9, <1>10, <1>11, <1>12, <1>13,
       <1>14, <1>15, <1>16, <1>17, <1>18, <1>19, <1>20, <1>21, <1>22, <1>23, <1>24,
       <1>25, <1>26 DEF Requests!Next, Requests!RequestStep, Requests!Peers,
           Requests!Supervision, Requests!Drains

\* Neither the waiters nor the tunnels exceed their permits.
RequestPermits ==
    Cardinality(Requests!Waiters) <= MaxWaiters /\
    Cardinality(Requests!TunnelPermits) <= MaxTunnels

\* One element more is counted once.
LEMMA OneMore ==
    ASSUME IsFiniteSet(Connection), NEW S \in SUBSET Connection, NEW T \in SUBSET Connection,
           NEW w \in Connection, T \subseteq S \cup {w}
    PROVE  Cardinality(T) <= Cardinality(S) + 1
  <1>1. IsFiniteSet(S) /\ IsFiniteSet(S \cup {w})
    BY FS_Subset, FS_AddElement
  <1>2. Cardinality(T) <= Cardinality(S \cup {w})
    BY <1>1, FS_Subset
  <1>3. Cardinality(S \cup {w}) <= Cardinality(S) + 1
    BY <1>1, FS_AddElement, FS_CardinalityType
  <1>4. IsFiniteSet(T)
    BY FS_Subset
  <1> QED
    BY <1>1, <1>2, <1>3, <1>4, FS_CardinalityType

\* Every step keeps the permits.
LEMMA RequestPermitsKept ==
    ASSUME Bounds, RequestTypes, RequestPermits, Requests!Next
    PROVE  RequestPermits'
  <1> USE DEF Bounds
  <1>1. /\ Requests!Waiters \in SUBSET Connection /\ Requests!Waiters' \in SUBSET Connection
        /\ Requests!TunnelPermits \in SUBSET Connection /\
               Requests!TunnelPermits' \in SUBSET Connection
    BY DEF Requests!Waiters, Requests!TunnelPermits, Requests!Sockets
  <1>2. /\ Cardinality(Requests!Waiters) \in Nat /\ Cardinality(Requests!Waiters') \in Nat
        /\ Cardinality(Requests!TunnelPermits) \in Nat /\
               Cardinality(Requests!TunnelPermits') \in Nat
    BY <1>1, FS_Subset, FS_CardinalityType
  <1>3. Cardinality(Requests!Waiters') <= MaxWaiters
    <2>1. CASE Requests!Waiters' \subseteq Requests!Waiters
      <3>1. Cardinality(Requests!Waiters') <= Cardinality(Requests!Waiters)
        BY <1>1, <2>1, FS_Subset
      <3> QED
        BY <1>2, <3>1 DEF RequestPermits
    <2>2. CASE Requests!WaiterIsFree /\
             \E w \in Connection : Requests!Waiters' \subseteq Requests!Waiters \cup {w}
      <3>1. Cardinality(Requests!Waiters') <= Cardinality(Requests!Waiters) + 1
        BY <1>1, <2>2, OneMore
      <3> QED
        BY <1>2, <2>2, <3>1, RequestsCount DEF Requests!WaiterIsFree
    <2> QED
      BY <2>1, <2>2, WaitersAreAdmitted
  <1>4. Cardinality(Requests!TunnelPermits') <= MaxTunnels
    <2>1. CASE Requests!TunnelPermits' \subseteq Requests!TunnelPermits
      <3>1. Cardinality(Requests!TunnelPermits') <= Cardinality(Requests!TunnelPermits)
        BY <1>1, <2>1, FS_Subset
      <3> QED
        BY <1>2, <3>1 DEF RequestPermits
    <2>2. CASE Requests!TunnelIsFree /\
             \E w \in Connection :
             Requests!TunnelPermits' \subseteq Requests!TunnelPermits \cup {w}
      <3>1. Cardinality(Requests!TunnelPermits') <= Cardinality(Requests!TunnelPermits) + 1
        BY <1>1, <2>2, OneMore
      <3>2. Cardinality(Requests!TunnelPermits) < MaxTunnels
        BY <2>2, RequestsCount DEF Requests!TunnelIsFree
      <3> QED
        BY <1>2, <3>1, <3>2
    <2> QED
      BY <2>1, <2>2, TunnelsAreAdmitted
  <1> QED
    BY <1>3, <1>4 DEF RequestPermits

-----------------------------------------------------------------------------
(* Requests                                                                *)

\* The inductive invariant of the requests.
RequestsInv ==
    /\ RequestTypes /\ RequestCounts /\ RequestFlags
    /\ RequestLeases /\ RequestRetry /\ RequestDrain /\ RequestSession /\ RequestPermits

\* A gateway without connections satisfies the invariant.
LEMMA RequestsStart == ASSUME Bounds, Requests!Init PROVE RequestsInv
  <1> USE DEF Requests!Init, Requests!NoRequest, Requests!At, Bounds
  <1>1. RequestTypes /\ RequestCounts
    BY DEF RequestTypes, RequestRecords, RequestCounts, Requests!NewGateway, Requests!Phases
  <1>2. RequestFlags /\ RequestSession
    BY Zenon DEF RequestFlags, RequestSession
  <1>3. RequestLeases /\ RequestRetry /\ RequestDrain
    BY DEF RequestLeases, RequestRetry, RequestDrain
  <1>4. Requests!Waiters = {} /\ Requests!TunnelPermits = {}
    BY DEF Requests!Waiters, Requests!TunnelPermits, Requests!Sockets
  <1>5. RequestPermits
    BY <1>4, FS_EmptySet DEF RequestPermits
  <1> QED
    BY <1>1, <1>2, <1>3, <1>5 DEF RequestsInv

\* Every step keeps the invariant.
LEMMA RequestsKept == ASSUME Bounds, RequestsInv, [Requests!Next]_requestsVars PROVE RequestsInv'
  <1>1. CASE Requests!Next
    <2>1. RequestTypes' /\ RequestCounts' /\ RequestFlags'
      BY <1>1, RequestTypesKept, RequestCountsKept, RequestFlagsKept DEF RequestsInv
    <2>2. RequestLeases' /\ RequestRetry' /\ RequestDrain' /\ RequestSession' /\ RequestPermits'
      BY <1>1, RequestLeasesKept, RequestRetryKept, RequestDrainKept, RequestSessionKept,
           RequestPermitsKept
      DEF RequestsInv
    <2> QED
      BY <2>1, <2>2 DEF RequestsInv
  <1>2. CASE UNCHANGED requestsVars
    <2> USE <1>2 DEF requestsVars, Requests!gatewayVars, Requests!sharedVars, RequestsInv
    <2>1. RequestTypes' /\ RequestCounts' /\ RequestFlags'
      BY DEF RequestTypes, RequestCounts, RequestFlags
    <2>2. RequestLeases' /\ RequestRetry' /\ RequestDrain' /\ RequestSession'
      BY DEF RequestLeases, RequestRetry, RequestDrain, RequestSession, Requests!At
    <2>3. Requests!Waiters' = Requests!Waiters /\ Requests!TunnelPermits' = Requests!TunnelPermits
      BY DEF Requests!Waiters, Requests!TunnelPermits, Requests!Sockets, Requests!At
    <2> QED
      BY <2>1, <2>2, <2>3 DEF RequestPermits
  <1> QED
    BY <1>1, <1>2

\* The invariant gives the types and the agreement of requests and supervisor (RequestsAgree).
LEMMA RequestsAreSound == RequestsInv => Requests!TypeOK /\ Requests!RequestsAgree
  <1> SUFFICES ASSUME RequestsInv PROVE Requests!TypeOK /\ Requests!RequestsAgree
    OBVIOUS
  <1>1. {stopped, accepting, capability, requests_session, requests_pending,
           drained} \subseteq BOOLEAN
    BY Zenon DEF RequestsInv, RequestFlags
  <1>2. Requests!GatewayTyped /\ {pool, recorded} \subseteq 0..MaxGeneration
    BY DEF RequestsInv, RequestCounts, Requests!GatewayTyped, Requests!Phases
  <1>3. Requests!TypeOK
    BY <1>1, <1>2 DEF RequestsInv, RequestTypes, RequestRecords, Requests!Kinds, Requests!TypeOK
  <1>4. requests_session <=> ~capability
    BY DEF RequestsInv, RequestSession
  <1>5. requests_pending <=> \E r \in Connection : Requests!At(r, {"retrying"})
    BY DEF RequestsInv, RequestRetry
  <1>6. ~accepting => \A r \in Connection : Requests!At(r, {"none"})
    BY DEF RequestsInv, RequestDrain
  <1>7. \A r \in Connection : req[r].lease # 0 => req[r].lease = req[r].expected
    BY DEF RequestsInv, RequestLeases
  <1> QED
    BY <1>3, <1>4, <1>5, <1>6, <1>7, RequestsCount
    DEF RequestsInv, RequestPermits, Requests!RequestsAgree

-----------------------------------------------------------------------------
(* The static files of the gateway                                         *)

\* What a walk holds open: a root, a directory of it, a file of that.
FileHandles ==
    [root : Files!Roots \cup {"link", "none"}, dir : Files!Dirs \cup {"link", "none"},
     file : Files!Files \cup {"link", "none"}, length : 0..1]

\* The disk, as others may change it.
FilesDisk ==
    /\ rootAt \in Files!Roots \cup {"link"} /\ changes \in 0..MaxChanges
    /\ dirAt \in [Files!Roots -> Files!Dirs \cup {"link"}]
    /\ fileAt \in [Files!Dirs -> Files!Files \cup {"link"}]
    /\ length \in [Files!Files -> 0..1]

\* What the walk has bound so far, and what a request has opened so far, were no links.
FilesBound ==
    /\ inventory \in {"root", "parents", "file", "bound", "failed"}
    /\ binding \in FileHandles
    /\ inventory \in {"parents", "file", "bound"} => binding.root \in Files!Roots
    /\ inventory \in {"file", "bound"} => binding.dir \in Files!Dirs
    /\ inventory = "bound" => binding.file \in Files!Files

\* What a request has opened so far: no link.
FilesOpened ==
    /\ server \in {"idle", "root", "parents", "file", "compare", "refused", "sent"}
    /\ opened \in FileHandles
    /\ server # "idle" => inventory = "bound"
    /\ server \in {"parents", "file", "compare"} => opened.root \in Files!Roots
    /\ server \in {"file", "compare"} => opened.dir \in Files!Dirs

\* What is served is what was bound when the gateway started.
FilesServed == served # Files!Nothing => inventory = "bound" /\ served = binding

\* The inductive invariant of the static files.
FilesInv == FilesDisk /\ FilesBound /\ FilesOpened /\ FilesServed

\* Every step keeps the disk a disk.
LEMMA FilesDiskKept == FilesDisk /\ [Files!Next]_filesVars => FilesDisk'
<1> SUFFICES ASSUME FilesDisk, [Files!Next]_filesVars PROVE FilesDisk'
  OBVIOUS
<1> USE ShellAssumption DEF FilesDisk
<1>1. CASE Files!DiskChanges
  BY <1>1 DEF Files!DiskChanges
<1>2. CASE UNCHANGED Files!diskVars
  BY <1>2 DEF Files!diskVars
<1>3. QED
  BY <1>1, <1>2 DEF Files!Next, Files!InventoryStep, Files!Walks, Files!Requested,
       Files!ServeStep, Files!Reopens, Files!Compares, Files!NextRequest, filesVars,
       Files!diskVars

\* An opening starts from a directory that is held, and yields an identity or a link.
LEMMA FilesOpen ==
    ASSUME FilesDisk, NEW h \in FileHandles
    PROVE  /\ Files!OpensRoot(h) \in FileHandles
           /\ Files!OpensRoot(h).root \in Files!Roots \cup {"link"}
           /\ h.root \in Files!Roots =>
                /\ Files!OpensDir(h) \in FileHandles /\ Files!OpensDir(h).root = h.root
                /\ Files!OpensDir(h).dir \in Files!Dirs \cup {"link"}
           /\ h.dir \in Files!Dirs =>
                /\ Files!OpensFile(h) \in FileHandles /\ Files!OpensFile(h).root = h.root
                /\ Files!OpensFile(h).dir = h.dir
                /\ Files!OpensFile(h).file \in Files!Files \cup {"link"}
<1> USE DEF FilesDisk, FileHandles
<1>1. /\ Files!OpensRoot(h) \in FileHandles
      /\ Files!OpensRoot(h).root \in Files!Roots \cup {"link"}
  BY DEF Files!OpensRoot
<1>2. ASSUME h.root \in Files!Roots
      PROVE  /\ Files!OpensDir(h) \in FileHandles /\ Files!OpensDir(h).root = h.root
             /\ Files!OpensDir(h).dir \in Files!Dirs \cup {"link"}
  <2>1. dirAt[h.root] \in Files!Dirs \cup {"link"}
    BY <1>2
  <2>2. QED  BY <2>1 DEF Files!OpensDir
<1>3. ASSUME h.dir \in Files!Dirs
      PROVE  /\ Files!OpensFile(h) \in FileHandles /\ Files!OpensFile(h).root = h.root
             /\ Files!OpensFile(h).dir = h.dir
             /\ Files!OpensFile(h).file \in Files!Files \cup {"link"}
  <2>1. fileAt[h.dir] \in Files!Files \cup {"link"}
    BY <1>3
  <2>2. (IF fileAt[h.dir] = "link" THEN 0 ELSE length[fileAt[h.dir]]) \in 0..1
    BY <2>1
  <2>3. QED  BY <2>1, <2>2 DEF Files!OpensFile
<1>4. QED  BY <1>1, <1>2, <1>3

\* The inventory binds what it opened, and binds it once.
LEMMA FilesBoundKept == FilesDisk /\ FilesBound /\ [Files!Next]_filesVars => FilesBound'
<1> SUFFICES ASSUME FilesDisk, FilesBound, [Files!Next]_filesVars PROVE FilesBound'
  OBVIOUS
<1>1. CASE UNCHANGED <<inventory, binding>>
  BY <1>1 DEF FilesBound
<1>2. CASE Files!Walks("root", "root", Files!OpensRoot(binding), "parents")
  BY <1>2, FilesOpen DEF FilesBound, Files!Walks
<1>3. CASE inventory' = "failed" /\ UNCHANGED binding
  BY <1>3 DEF FilesBound
<1>4. CASE Files!Walks("parents", "dir", Files!OpensDir(binding), "file")
  BY <1>4, FilesOpen DEF FilesBound, Files!Walks
<1>5. CASE Files!Walks("file", "file", Files!OpensFile(binding), "bound")
  BY <1>5, FilesOpen DEF FilesBound, Files!Walks
<1>6. QED
  BY <1>1, <1>2, <1>3, <1>4, <1>5 DEF Files!Next, Files!DiskChanges, Files!InventoryStep,
       Files!Requested, Files!ServeStep, Files!Reopens, Files!Compares, Files!NextRequest,
       filesVars

\* A request opens below what it holds, and serves what compares equal.
LEMMA FilesOpenedKept ==
    FilesDisk /\ FilesBound /\ FilesOpened /\ FilesServed /\ [Files!Next]_filesVars =>
        FilesOpened' /\ FilesServed'
<1> SUFFICES ASSUME FilesDisk, FilesBound, FilesOpened, FilesServed, [Files!Next]_filesVars
             PROVE  FilesOpened' /\ FilesServed'
  OBVIOUS
<1>1. CASE Files!DiskChanges \/ UNCHANGED filesVars
  BY <1>1 DEF FilesOpened, FilesServed, Files!DiskChanges, filesVars
<1>2. CASE Files!InventoryStep
  <2>1. inventory # "bound" /\ UNCHANGED <<server, opened, served>>
    BY <1>2 DEF Files!InventoryStep, Files!Walks
  <2>2. QED  BY <2>1 DEF FilesOpened, FilesServed
<1>3. CASE Files!Requested
  BY <1>3 DEF FilesOpened, FilesServed, Files!Requested
<1>4. CASE Files!Reopens("root", "root", Files!OpensRoot(opened), "parents")
  BY <1>4, FilesOpen DEF FilesOpened, FilesServed, Files!Reopens
<1>5. CASE Files!Reopens("parents", "dir", Files!OpensDir(opened), "file")
  BY <1>5, FilesOpen DEF FilesOpened, FilesServed, Files!Reopens
<1>6. CASE Files!Reopens("file", "file", Files!OpensFile(opened), "compare")
  BY <1>6, FilesOpen DEF FilesOpened, FilesServed, Files!Reopens
<1>7. CASE Files!Compares
  <2>1. Files!IsBound(opened) => opened = binding
    BY DEF Files!IsBound, FilesBound, FilesOpened, FileHandles
  <2>2. QED  BY <1>7, <2>1 DEF FilesOpened, FilesServed, Files!Compares
<1>8. CASE Files!NextRequest
  BY <1>8 DEF FilesOpened, FilesServed, Files!NextRequest, Files!Nothing, FileHandles, Files!None
<1>9. QED
  BY <1>1, <1>2, <1>3, <1>4, <1>5, <1>6, <1>7, <1>8 DEF Files!Next, Files!ServeStep

\* An inventory that begins satisfies the invariant.
LEMMA FilesStart == Files!Init => FilesInv
<1> SUFFICES ASSUME Files!Init PROVE FilesInv
  OBVIOUS
<1>1. FilesDisk
  BY ShellAssumption DEF Files!Init, FilesDisk, Files!Roots, Files!Dirs, Files!Files
<1>2. Files!Nothing \in FileHandles
  BY DEF Files!Nothing, FileHandles, Files!None
<1>3. QED
  BY <1>1, <1>2 DEF Files!Init, FilesInv, FilesBound, FilesOpened, FilesServed

\* Every step keeps the invariant.
LEMMA FilesKept == FilesInv /\ [Files!Next]_filesVars => FilesInv'
BY FilesDiskKept, FilesBoundKept, FilesOpenedKept DEF FilesInv

\* The invariant gives the types and that only bound files are served (ServedIsBound).
LEMMA FilesAreSound == FilesInv => Files!TypeOK /\ Files!ServedIsBound
BY DEF FilesInv, FilesDisk, FilesBound, FilesOpened, FilesServed, Files!TypeOK,
     Files!ServedIsBound, Files!Roots, Files!Dirs, Files!Files, Files!None

-----------------------------------------------------------------------------
(* The life of the gateway                                                 *)

\* Where the launch, the bind, the accept task and the shutdown stand.
ServerPlaces ==
    /\ launch \in {"idle", "binding", "cleaning", "aborting", "decided", "done"}
    /\ server_outcome \in {"none", "gateway", "explicit", "fallback", "error"}
    /\ server_pending \in {"none", "waiting", "running", "completed"}
    /\ bind \in {"none", "inventory", "listen", "spawn", "ready", "commit", "join", "over"}
    /\ bindResult \in {"none", "gateway", "failed", "dropped"}
    /\ accept \in {"none", "starting", "accepting", "draining", "tunnels", "aborted", "gone"}
    /\ shut \in {"none", "waitstop", "waittask", "join", "lastjoin", "done", "dropped"}

\* The flags of the gateway's life.
ServerFlags ==
    /\ server_cancelled \in BOOLEAN /\ listening \in BOOLEAN /\ stopSent \in BOOLEAN
    /\ stopSeen \in BOOLEAN /\ server_stopping \in BOOLEAN /\ admitting \in BOOLEAN

\* There is an accept task only behind a bind that came so far; a launch that gave its
\* gateway up, and one that is decided, has none that still accepts.
ServerLaunch ==
    /\ launch = "idle" => bind = "none"
    /\ launch \in {"aborting", "decided"} => bind = "over"
    /\ launch = "done" => bind \in {"none", "over"}
    /\ launch # "done" => server_outcome = "none"
    /\ bind \in {"none", "inventory", "listen", "spawn"} => accept = "none"
    /\ accept = "none" => bind \in {"none", "inventory", "listen", "spawn", "over"}
    /\ bind = "over" /\ bindResult # "gateway" => accept \in {"none", "aborted", "gone"}
    /\ launch \in {"aborting", "decided"} => accept \in {"none", "aborted", "gone"}
    /\ server_outcome \in {"fallback", "explicit"} => accept \in {"none", "aborted", "gone"}
    /\ bind # "over" => bindResult = "none"

\* The listener is open from its bind until its task stops to accept.
ServerListens ==
    /\ accept = "none" /\ bind # "spawn" => listening = FALSE
    /\ accept \in {"draining", "tunnels", "gone"} => listening = FALSE

\* A shutdown is over when the accept task is gone.
ServerShut == shut = "done" => accept = "gone" /\ server_stopping = TRUE

\* The accept task lives only behind a launch that still wants it.
ServerLife == ServerLaunch /\ ServerListens /\ ServerShut

\* No connection works any more when the task is gone.
ServerTraffic ==
    /\ conns \in [Slot -> {"free", "request", "stream", "aborted"}]
    /\ tunnels \in [Slot -> {"free", "open", "aborted"}]
    /\ accept \in {"none", "starting", "tunnels"} => \A s \in Slot : conns[s] = "free"
    /\ accept = "gone" => \A s \in Slot : conns[s] \in {"free", "aborted"}

\* The inductive invariant of the gateway's life.
ServerInv == ServerPlaces /\ ServerFlags /\ ServerLife /\ ServerTraffic

\* Every step keeps the places.
LEMMA ServerPlacesKept == ServerPlaces /\ [Server!Next]_serverVars => ServerPlaces'
<1> SUFFICES ASSUME ServerPlaces, [Server!Next]_serverVars PROVE ServerPlaces'
  OBVIOUS
<1> USE DEF ServerPlaces
<1>1. CASE Server!Begins \/ Server!BindIsObserved \/ Server!BindReturns
  BY <1>1 DEF Server!Begins, Server!BindIsObserved, Server!BindReturns, Server!acceptVars,
       Server!trafficVars, Server!bindVars, Server!AbortTask, Server!AcceptAlive
<1>2. CASE Server!BindDeadline \/ Server!CancelledBindReturns \/ Server!CleanupDeadline
  BY <1>2 DEF Server!BindDeadline, Server!CancelledBindReturns, Server!CleanupDeadline,
       Server!bindVars, Server!acceptVars, Server!trafficVars, Server!AbortLate, Server!AbortTask,
       Server!AcceptAlive
<1>3. CASE Server!LateGatewayIsGone \/ Server!FallsBack \/ Server!InventoryEnds
  BY <1>3 DEF Server!LateGatewayIsGone, Server!FallsBack, Server!InventoryEnds, Server!bindVars,
       Server!acceptVars, Server!trafficVars, Server!BindEnds, Server!launchVars
<1>4. CASE Server!ListenerBinds \/ Server!AcceptSpawned \/ Server!AcceptIsReady
  BY <1>4 DEF Server!ListenerBinds, Server!AcceptSpawned, Server!AcceptIsReady, Server!BindEnds,
       Server!launchVars, Server!trafficVars, Server!MayKeep, Server!acceptVars
<1>5. CASE Server!GivesUp \/ Server!AcceptIsJoined \/ Server!Commits
  BY <1>5 DEF Server!GivesUp, Server!AcceptIsJoined, Server!Commits, Server!AbortTask,
       Server!AcceptAlive, Server!launchVars, Server!trafficVars, Server!BindEnds,
       Server!acceptVars
<1>6. CASE Server!AcceptStarts \/ Server!AcceptBreaks \/ Server!Drained
  BY <1>6 DEF Server!AcceptStarts, Server!AcceptBreaks, Server!Drained, Server!ReceiverWaits,
       Server!launchVars, Server!bindVars, Server!trafficVars
<1>7. CASE Server!AppShutsDown \/ Server!AppDrops \/ Server!AcceptHasStopped
  BY <1>7 DEF Server!AppShutsDown, Server!AppDrops, Server!AcceptHasStopped, Server!launchVars,
       Server!bindVars, Server!acceptVars, Server!trafficVars, Server!AbortTask,
       Server!AcceptAlive
<1>8. CASE Server!ShutdownExpires \/ Server!ShutdownEnds \/ Server!TunnelsDrained
  BY <1>8 DEF Server!ShutdownExpires, Server!ShutdownEnds, Server!TunnelsDrained,
       Server!AbortTask, Server!AcceptAlive, Server!launchVars, Server!bindVars,
       Server!trafficVars, Server!TaskJoined, Server!acceptVars
<1>9. CASE Server!DrainExpires \/ Server!TaskIsDropped \/ Server!RegistryIsDropped
  BY <1>9 DEF Server!DrainExpires, Server!TaskIsDropped, Server!RegistryIsDropped,
       Server!launchVars, Server!bindVars, Server!acceptVars
<1>10. CASE \E s \in Slot : Server!Connects(s) \/ Server!RequestGoesOn(s) \/
         Server!StreamEnds(s) \/ Server!TunnelEnds(s)
  BY <1>10 DEF Server!Connects, Server!RequestGoesOn, Server!StreamEnds, Server!TunnelEnds,
       Server!launchVars, Server!bindVars, Server!acceptVars
<1>11. CASE UNCHANGED serverVars
  BY <1>11 DEF serverVars
<1>12. QED
  BY <1>1, <1>2, <1>3, <1>4, <1>5, <1>6, <1>7, <1>8, <1>9, <1>10, <1>11
  DEF Server!Next, Server!LaunchStep, Server!BindStep, Server!AcceptStep, Server!ShutdownStep

\* Every step keeps the flags.
LEMMA ServerFlagsKept == ServerFlags /\ [Server!Next]_serverVars => ServerFlags'
<1> SUFFICES ASSUME ServerFlags, [Server!Next]_serverVars PROVE ServerFlags'
  OBVIOUS
<1> USE DEF ServerFlags
<1>1. CASE Server!Begins \/ Server!BindIsObserved \/ Server!BindReturns
  BY <1>1 DEF Server!Begins, Server!BindIsObserved, Server!BindReturns, Server!acceptVars,
       Server!trafficVars, Server!bindVars, Server!AbortTask, Server!AcceptAlive
<1>2. CASE Server!BindDeadline \/ Server!CancelledBindReturns \/ Server!CleanupDeadline
  BY <1>2 DEF Server!BindDeadline, Server!CancelledBindReturns, Server!CleanupDeadline,
       Server!bindVars, Server!acceptVars, Server!trafficVars, Server!AbortLate, Server!AbortTask,
       Server!AcceptAlive
<1>3. CASE Server!LateGatewayIsGone \/ Server!FallsBack \/ Server!InventoryEnds
  BY <1>3 DEF Server!LateGatewayIsGone, Server!FallsBack, Server!InventoryEnds, Server!bindVars,
       Server!acceptVars, Server!trafficVars, Server!BindEnds, Server!launchVars
<1>4. CASE Server!ListenerBinds \/ Server!AcceptSpawned \/ Server!AcceptIsReady
  BY <1>4 DEF Server!ListenerBinds, Server!AcceptSpawned, Server!AcceptIsReady, Server!BindEnds,
       Server!launchVars, Server!trafficVars, Server!MayKeep, Server!acceptVars
<1>5. CASE Server!GivesUp \/ Server!AcceptIsJoined \/ Server!Commits
  BY <1>5 DEF Server!GivesUp, Server!AcceptIsJoined, Server!Commits, Server!AbortTask,
       Server!AcceptAlive, Server!launchVars, Server!trafficVars, Server!BindEnds,
       Server!acceptVars
<1>6. CASE Server!AcceptStarts \/ Server!AcceptBreaks \/ Server!Drained
  BY <1>6 DEF Server!AcceptStarts, Server!AcceptBreaks, Server!Drained, Server!ReceiverWaits,
       Server!launchVars, Server!bindVars, Server!trafficVars
<1>7. CASE Server!AppShutsDown \/ Server!AppDrops \/ Server!AcceptHasStopped
  BY <1>7 DEF Server!AppShutsDown, Server!AppDrops, Server!AcceptHasStopped, Server!launchVars,
       Server!bindVars, Server!acceptVars, Server!trafficVars, Server!AbortTask,
       Server!AcceptAlive
<1>8. CASE Server!ShutdownExpires \/ Server!ShutdownEnds \/ Server!TunnelsDrained
  BY <1>8 DEF Server!ShutdownExpires, Server!ShutdownEnds, Server!TunnelsDrained,
       Server!AbortTask, Server!AcceptAlive, Server!launchVars, Server!bindVars,
       Server!trafficVars, Server!TaskJoined, Server!acceptVars
<1>9. CASE Server!DrainExpires \/ Server!TaskIsDropped \/ Server!RegistryIsDropped
  BY <1>9 DEF Server!DrainExpires, Server!TaskIsDropped, Server!RegistryIsDropped,
       Server!launchVars, Server!bindVars, Server!acceptVars
<1>10. CASE \E s \in Slot : Server!Connects(s) \/ Server!RequestGoesOn(s) \/
         Server!StreamEnds(s) \/ Server!TunnelEnds(s)
  BY <1>10 DEF Server!Connects, Server!RequestGoesOn, Server!StreamEnds, Server!TunnelEnds,
       Server!launchVars, Server!bindVars, Server!acceptVars
<1>11. CASE UNCHANGED serverVars
  BY <1>11 DEF serverVars
<1>12. QED
  BY <1>1, <1>2, <1>3, <1>4, <1>5, <1>6, <1>7, <1>8, <1>9, <1>10, <1>11
  DEF Server!Next, Server!LaunchStep, Server!BindStep, Server!AcceptStep, Server!ShutdownStep

\* No order of bind, deadline and abort leaves a listener behind.
LEMMA ServerLifeKept ==
    ServerPlaces /\ ServerFlags /\ ServerLife /\ [Server!Next]_serverVars => ServerLife'
<1> SUFFICES ASSUME ServerPlaces, ServerFlags, ServerLife,
    [Server!Next]_serverVars PROVE ServerLife'
  OBVIOUS
<1> USE DEF ServerPlaces, ServerFlags, ServerLife, ServerLaunch, ServerListens, ServerShut
<1>1. CASE Server!Begins
  BY <1>1 DEF Server!Begins, Server!acceptVars, Server!trafficVars
<1>2. CASE Server!BindIsObserved
  BY <1>2 DEF Server!BindIsObserved, Server!bindVars, Server!acceptVars, Server!trafficVars
<1>3. CASE Server!BindReturns
  BY <1>3 DEF Server!BindReturns, Server!acceptVars, Server!AbortTask, Server!AcceptAlive,
       Server!bindVars, Server!trafficVars
<1>4. CASE Server!BindDeadline
  BY <1>4 DEF Server!BindDeadline, Server!bindVars, Server!acceptVars, Server!trafficVars
<1>5. CASE Server!CancelledBindReturns
  BY <1>5 DEF Server!CancelledBindReturns, Server!AbortLate, Server!AbortTask, Server!AcceptAlive,
       Server!acceptVars, Server!bindVars, Server!trafficVars
<1>6. CASE Server!CleanupDeadline
  BY <1>6 DEF Server!CleanupDeadline, Server!AcceptAlive, Server!trafficVars
<1>7. CASE Server!LateGatewayIsGone
  BY <1>7 DEF Server!LateGatewayIsGone, Server!bindVars, Server!acceptVars, Server!trafficVars
<1>8. CASE Server!FallsBack
  BY <1>8 DEF Server!FallsBack, Server!bindVars, Server!acceptVars, Server!trafficVars
<1>9. CASE Server!InventoryEnds
  BY <1>9 DEF Server!InventoryEnds, Server!BindEnds, Server!launchVars, Server!acceptVars,
       Server!trafficVars
<1>10. CASE Server!ListenerBinds
  BY <1>10 DEF Server!ListenerBinds, Server!BindEnds, Server!launchVars, Server!trafficVars
<1>11. CASE Server!AcceptSpawned
  BY <1>11 DEF Server!AcceptSpawned, Server!BindEnds, Server!launchVars, Server!trafficVars
<1>12. CASE Server!AcceptIsReady
  BY <1>12 DEF Server!AcceptIsReady, Server!MayKeep, Server!launchVars, Server!acceptVars,
       Server!trafficVars
<1>13. CASE Server!GivesUp
  BY <1>13 DEF Server!GivesUp, Server!AbortTask, Server!AcceptAlive, Server!launchVars,
       Server!trafficVars
<1>14. CASE Server!AcceptIsJoined
  BY <1>14 DEF Server!AcceptIsJoined, Server!BindEnds, Server!launchVars, Server!acceptVars,
       Server!trafficVars
<1>15. CASE Server!Commits
  BY <1>15 DEF Server!Commits, Server!BindEnds, Server!launchVars, Server!acceptVars,
       Server!trafficVars
<1>16. CASE Server!AcceptStarts
  BY <1>16 DEF Server!AcceptStarts, Server!ReceiverWaits, Server!launchVars, Server!bindVars,
       Server!trafficVars
<1>17. CASE Server!AcceptBreaks
  BY <1>17 DEF Server!AcceptBreaks, Server!launchVars, Server!bindVars, Server!trafficVars
<1>18. CASE Server!Drained
  BY <1>18 DEF Server!Drained, Server!launchVars, Server!bindVars
<1>19. CASE Server!AppShutsDown
  BY <1>19 DEF Server!AppShutsDown, Server!launchVars, Server!bindVars, Server!acceptVars,
       Server!trafficVars
<1>20. CASE Server!AppDrops
  BY <1>20 DEF Server!AppDrops, Server!AbortTask, Server!AcceptAlive, Server!launchVars,
       Server!bindVars, Server!trafficVars
<1>21. CASE Server!AcceptHasStopped
  BY <1>21 DEF Server!AcceptHasStopped, Server!launchVars, Server!bindVars, Server!acceptVars,
       Server!trafficVars
<1>22. CASE Server!ShutdownExpires
  BY <1>22 DEF Server!ShutdownExpires, Server!AbortTask, Server!AcceptAlive, Server!launchVars,
       Server!bindVars, Server!trafficVars
<1>23. CASE Server!ShutdownEnds
  BY <1>23 DEF Server!ShutdownEnds, Server!TaskJoined, Server!launchVars, Server!bindVars,
       Server!acceptVars, Server!trafficVars
<1>24. CASE Server!TunnelsDrained
  BY <1>24 DEF Server!TunnelsDrained, Server!launchVars, Server!bindVars
<1>25. CASE Server!DrainExpires
  BY <1>25 DEF Server!DrainExpires, Server!launchVars, Server!bindVars, Server!acceptVars
<1>26. CASE Server!TaskIsDropped
  BY <1>26 DEF Server!TaskIsDropped, Server!launchVars, Server!bindVars
<1>27. CASE Server!RegistryIsDropped
  BY <1>27 DEF Server!RegistryIsDropped, Server!launchVars, Server!bindVars, Server!acceptVars
<1>28. CASE \E s \in Slot : Server!Connects(s) \/ Server!RequestGoesOn(s) \/
         Server!StreamEnds(s) \/ Server!TunnelEnds(s)
  BY <1>28 DEF Server!Connects, Server!RequestGoesOn, Server!StreamEnds, Server!TunnelEnds,
       Server!launchVars, Server!bindVars, Server!acceptVars
<1>29. CASE UNCHANGED serverVars
  BY <1>29 DEF serverVars
<1>30. QED
  BY <1>1, <1>2, <1>3, <1>4, <1>5, <1>6, <1>7, <1>8, <1>9, <1>10, <1>11, <1>12, <1>13, <1>14,
       <1>15, <1>16, <1>17, <1>18, <1>19, <1>20, <1>21, <1>22, <1>23, <1>24, <1>25, <1>26, <1>27,
       <1>28, <1>29
  DEF Server!Next, Server!LaunchStep, Server!BindStep, Server!AcceptStep, Server!ShutdownStep

\* No connection outlives the task that accepted it.
LEMMA ServerTrafficKept ==
    ServerPlaces /\ ServerLife /\ ServerTraffic /\ [Server!Next]_serverVars => ServerTraffic'
<1> SUFFICES ASSUME ServerPlaces, ServerLife, ServerTraffic,
    [Server!Next]_serverVars PROVE ServerTraffic'
  OBVIOUS
<1> USE DEF ServerTraffic
<1>1. CASE UNCHANGED <<conns, tunnels, accept>>
  BY <1>1
<1>2. CASE UNCHANGED <<conns, tunnels>> /\ accept # accept' /\ accept' \notin {"tunnels", "gone"}
           /\ (accept' \in {"none", "starting"} => accept = "none")
  BY <1>2
<1>3. CASE Server!AcceptStarts \/ Server!Drained
  BY <1>3 DEF Server!AcceptStarts, Server!Drained, Server!Busy, Server!trafficVars
<1>4. CASE Server!TunnelsDrained
  BY <1>4 DEF Server!TunnelsDrained, Server!Aborted
<1>5. CASE Server!DrainExpires \/ Server!TaskIsDropped \/ Server!RegistryIsDropped
  BY <1>5 DEF Server!DrainExpires, Server!TaskIsDropped, Server!RegistryIsDropped, Server!Aborted,
       Server!acceptVars
<1>6. ASSUME NEW s \in Slot, Server!Connects(s) PROVE ServerTraffic'
  BY <1>6 DEF Server!Connects, Server!acceptVars
<1>7. ASSUME NEW s \in Slot, Server!RequestGoesOn(s) PROVE ServerTraffic'
  BY <1>7 DEF Server!RequestGoesOn, Server!acceptVars
<1>8. ASSUME NEW s \in Slot, Server!StreamEnds(s) \/ Server!TunnelEnds(s) PROVE ServerTraffic'
  BY <1>8 DEF Server!StreamEnds, Server!TunnelEnds, Server!acceptVars
<1>9. CASE Server!AcceptSpawned
  BY <1>1, <1>2, <1>9 DEF Server!AcceptSpawned, Server!trafficVars, ServerLife, ServerLaunch
<1>10. CASE Server!AcceptBreaks
  BY <1>2, <1>10 DEF Server!AcceptBreaks, Server!trafficVars
<1>11. CASE Server!BindReturns \/ Server!CancelledBindReturns \/ Server!CleanupDeadline
  BY <1>1, <1>2, <1>11 DEF Server!BindReturns, Server!CancelledBindReturns,
       Server!CleanupDeadline, Server!AbortLate, Server!AbortTask, Server!AcceptAlive,
       Server!trafficVars, Server!acceptVars
<1>12. CASE Server!GivesUp \/ Server!AppDrops \/ Server!ShutdownExpires
  BY <1>1, <1>2, <1>12 DEF Server!GivesUp, Server!AppDrops, Server!ShutdownExpires, 
     Server!AbortTask, Server!AcceptAlive, Server!trafficVars, Server!acceptVars
<1>13. CASE \/ Server!Begins \/ Server!BindIsObserved \/ Server!BindDeadline \/
                   Server!LateGatewayIsGone \/ Server!FallsBack
            \/ Server!InventoryEnds \/ Server!ListenerBinds \/ Server!AcceptIsReady \/
                   Server!AcceptIsJoined
            \/ Server!Commits \/ Server!AppShutsDown \/ Server!AcceptHasStopped \/
                   Server!ShutdownEnds
  BY <1>1, <1>13 DEF Server!Begins, Server!BindIsObserved, Server!BindDeadline,
       Server!LateGatewayIsGone, Server!FallsBack, Server!InventoryEnds, Server!ListenerBinds,
       Server!AcceptIsReady, Server!AcceptIsJoined, Server!Commits, Server!AppShutsDown,
       Server!AcceptHasStopped, Server!ShutdownEnds, Server!trafficVars, Server!acceptVars
<1>14. CASE UNCHANGED serverVars
  BY <1>1, <1>14 DEF serverVars
<1>15. QED
  BY <1>3, <1>4, <1>5, <1>6, <1>7, <1>8, <1>9, <1>10, <1>11, <1>12, <1>13, <1>14
  DEF Server!Next, Server!LaunchStep, Server!BindStep, Server!AcceptStep, Server!ShutdownStep

\* A gateway that was not launched satisfies the invariant.
LEMMA ServerStarts == Server!Init => ServerInv
<1> SUFFICES ASSUME Server!Init PROVE ServerInv
  OBVIOUS
<1>1. ServerPlaces /\ ServerLife
  BY DEF Server!Init, ServerPlaces, ServerLife, ServerLaunch, ServerListens, ServerShut
<1>2. ServerFlags
  BY DEF Server!Init, ServerFlags
<1>3. ServerTraffic
  BY DEF Server!Init, ServerTraffic
<1>4. QED  BY <1>1, <1>2, <1>3 DEF ServerInv

\* Every step keeps the invariant.
LEMMA ServerKept == ServerInv /\ [Server!Next]_serverVars => ServerInv'
BY ServerPlacesKept, ServerFlagsKept, ServerLifeKept, ServerTrafficKept DEF ServerInv

\* The invariant gives the types and NothingIsLeftListening.
LEMMA ServerIsSound == ServerInv => Server!TypeOK /\ Server!NothingIsLeftListening
<1> SUFFICES ASSUME ServerInv PROVE Server!TypeOK /\ Server!NothingIsLeftListening
  OBVIOUS
<1>1. {server_cancelled, listening, stopSent, stopSeen, server_stopping,
         admitting} \subseteq BOOLEAN
  BY DEF ServerInv, ServerFlags
<1>2. Server!TypeOK
  BY <1>1 DEF ServerInv, ServerPlaces, ServerTraffic, Server!TypeOK, Server!ConnStates,
       Server!TunnelStates
<1>3. server_outcome \in {"fallback", "explicit"} => accept \in {"none", "aborted", "gone"}
  BY DEF ServerInv, ServerLife, ServerLaunch
<1>4. bind = "over" /\ accept \in {"none", "gone"} => ~listening
  BY DEF ServerInv, ServerLife, ServerListens
<1>5. shut = "done" => accept = "gone" /\ ~listening /\ server_stopping
  BY DEF ServerInv, ServerLife, ServerShut, ServerListens
<1>6. accept = "gone" => \A s \in Slot : conns[s] \in {"free", "aborted"}
  BY DEF ServerInv, ServerTraffic
<1>7. QED  BY <1>2, <1>3, <1>4, <1>5, <1>6 DEF Server!NothingIsLeftListening

-----------------------------------------------------------------------------
(* The event stream of the gateway                                         *)

\* The states of the backend a stream may show.
SseStates == (0..MaxGeneration) \X {"failed", "starting", "ready", "stopping"}

\* The supervisor's phase, and the state of the stream.
SsePhase ==
    /\ sse_generation \in 0..MaxGeneration
    /\ sse_phase \in {"failed", "starting", "ready", "stopping"}
    /\ stream \in {"none", "open", "ending", "closed"}

\* Whether the receiver lagged behind the ring.
SseMissed == missed \in BOOLEAN
\* The ring of the broadcast, and its capacity.
SseRing == ring \in Seq(SseStates) /\ Len(ring) <= Ring
\* The channel to the body of the response, and its capacity.
SseChannel ==
    /\ channel \in Seq(SseStates) /\ Len(channel) <= Channel
    /\ last \in SseStates /\ shown \in SseStates

\* The inductive invariant of the event stream.
SseInv == SsePhase /\ SseMissed /\ SseRing /\ SseChannel

\* Every step keeps the phase.
LEMMA SsePhaseKept == SsePhase /\ [Sse!Next]_sseVars => SsePhase'
<1> SUFFICES ASSUME SsePhase, [Sse!Next]_sseVars PROVE SsePhase'
  OBVIOUS
<1> USE SupervisorAssumption DEF SsePhase
<1>1. CASE Sse!StateChanges
  BY <1>1 DEF Sse!StateChanges, Sse!MayBegin, Sse!Begins, Sse!ReadyAccepted, Sse!Readies,
       Sse!Fails, Sse!ShutsDown
<1>2. CASE Sse!Subscribes \/ Sse!Receives \/ Sse!BodyReads \/ Sse!BodyEnds \/ Sse!BrowserCloses
  BY <1>2 DEF Sse!Subscribes, Sse!Receives, Sse!BodyReads, Sse!BodyEnds, Sse!BrowserCloses,
       Sse!gatewayVars
<1>3. CASE UNCHANGED sseVars
  BY <1>3 DEF sseVars
<1>4. QED  BY <1>1, <1>2, <1>3 DEF Sse!Next, Sse!EventStep

\* Every step keeps the flag.
LEMMA SseMissedKept == SseMissed /\ [Sse!Next]_sseVars => SseMissed'
BY DEF SseMissed, sseVars, Sse!Next, Sse!EventStep, Sse!StateChanges, Sse!Publishes,
     Sse!Subscribes, Sse!Receives, Sse!BodyReads, Sse!BodyEnds, Sse!BrowserCloses

\* A full ring loses its oldest state.
LEMMA RingAfterPublish ==
    ASSUME SseRing, NEW s \in SseStates
    PROVE  /\ Append(ring, s) \in Seq(SseStates)
           /\ Len(Append(ring, s)) > Ring =>
                Tail(Append(ring, s)) \in Seq(SseStates) /\ Len(Tail(Append(ring, s))) <= Ring
<1> DEFINE sent == Append(ring, s)
<1>1. sent \in Seq(SseStates) /\ Len(sent) = Len(ring) + 1
  BY DEF SseRing
<1> HIDE DEF sent
<1>2. sent # <<>>
  BY <1>1 DEF SseRing
<1>3. Tail(sent) \in Seq(SseStates) /\ Len(Tail(sent)) = Len(sent) - 1
  BY <1>1, <1>2
<1>4. QED  BY <1>1, <1>3, ShellAssumption DEF SseRing, sent

\* A receiver takes the oldest state of the ring.
LEMMA RingAfterReceipt ==
    ASSUME SseRing, ring # <<>>
    PROVE  Head(ring) \in SseStates /\ Tail(ring) \in Seq(SseStates) /\ Len(Tail(ring)) <= Ring
BY ShellAssumption DEF SseRing

\* The ring never exceeds its capacity.
LEMMA SseRingKept == SsePhase /\ SseRing /\ [Sse!Next]_sseVars => SseRing'
<1> SUFFICES ASSUME SsePhase, SseRing, [Sse!Next]_sseVars PROVE SseRing'
  OBVIOUS
<1>1. CASE UNCHANGED ring
  BY <1>1 DEF SseRing
<1>2. CASE ring' = <<>>
  BY <1>2, ShellAssumption DEF SseRing
<1>3. CASE Sse!StateChanges
  <2> DEFINE s == <<sse_generation', sse_phase'>>
  <2>1. s \in SseStates
    BY SsePhaseKept DEF SsePhase, SseStates
  <2>2. /\ Append(ring, s) \in Seq(SseStates)
        /\ Len(Append(ring, s)) > Ring =>
             Tail(Append(ring, s)) \in Seq(SseStates) /\ Len(Tail(Append(ring, s))) <= Ring
    BY <2>1, RingAfterPublish
  <2>3. \/ UNCHANGED ring
        \/ Len(Append(ring, s)) <= Ring /\ ring' = Append(ring, s)
        \/ ~(Len(Append(ring, s)) <= Ring) /\ ring' = Tail(Append(ring, s))
    BY <1>3 DEF Sse!StateChanges, Sse!Publishes
  <2>4. Len(Append(ring, s)) \in Nat
    BY <2>2
  <2> HIDE DEF s
  <2>5. QED  BY <1>1, <2>2, <2>3, <2>4, ShellAssumption DEF SseRing
<1>4. CASE Sse!Receives
  <2>1. UNCHANGED ring \/ (ring # <<>> /\ ring' = Tail(ring))
    BY <1>4 DEF Sse!Receives
  <2>2. QED  BY <1>1, <2>1, RingAfterReceipt DEF SseRing
<1>5. QED
  BY <1>1, <1>2, <1>3, <1>4 DEF Sse!Next, Sse!EventStep, Sse!Subscribes, Sse!BodyReads,
       Sse!BodyEnds, Sse!BrowserCloses, sseVars

\* The channel never exceeds its capacity.
LEMMA SseChannelKept == SsePhase /\ SseRing /\ SseChannel /\ [Sse!Next]_sseVars => SseChannel'
<1> SUFFICES ASSUME SsePhase, SseRing, SseChannel, [Sse!Next]_sseVars PROVE SseChannel'
  OBVIOUS
<1>1. Sse!Current \in SseStates
  BY DEF SsePhase, SseStates, Sse!Current
<1>2. CASE UNCHANGED <<last, channel, shown>>
  BY <1>2 DEF SseChannel
<1>3. CASE Sse!Subscribes
  <2>1. <<Sse!Current>> \in Seq(SseStates) /\ Len(<<Sse!Current>>) = 1
    BY <1>1
  <2>2. QED  BY <1>1, <1>3, <2>1, ShellAssumption DEF SseChannel, Sse!Subscribes
<1>4. CASE Sse!Receives
  <2>1. Sse!Received \in SseStates
    BY <1>1, <1>4, RingAfterReceipt DEF Sse!Receives, Sse!Received
  <2>2. Len(channel) < Channel => Append(channel, Sse!Received) \in Seq(SseStates)
                                 /\ Len(Append(channel, Sse!Received)) <= Channel
    BY <2>1, ShellAssumption DEF SseChannel
  <2>3. /\ UNCHANGED shown
        /\ \/ UNCHANGED <<last, channel>>
           \/ Len(channel) < Channel /\ channel' = Append(channel, Sse!Received) /\
                  last' = Sse!Received
    BY <1>4 DEF Sse!Receives
  <2>4. QED  BY <2>1, <2>2, <2>3 DEF SseChannel
<1>5. CASE Sse!BodyReads
  <2>1. Head(channel) \in SseStates /\ Tail(channel) \in Seq(SseStates) /\
           Len(Tail(channel)) <= Channel
    BY <1>5, ShellAssumption DEF Sse!BodyReads, SseChannel
  <2>2. QED  BY <1>5, <2>1 DEF Sse!BodyReads, SseChannel
<1>6. CASE Sse!BrowserCloses
  BY <1>6, ShellAssumption DEF Sse!BrowserCloses, SseChannel
<1>7. QED
  BY <1>2, <1>3, <1>4, <1>5, <1>6 DEF Sse!Next, Sse!EventStep, Sse!StateChanges, Sse!BodyEnds,
       sseVars

\* A stream that was not opened satisfies the invariant.
LEMMA SseStarts == Sse!Init => SseInv
<1> SUFFICES ASSUME Sse!Init PROVE SseInv
  OBVIOUS
<1>1. SsePhase /\ SseRing
  BY ShellAssumption, SupervisorAssumption DEF Sse!Init, Sse!NewGateway, SsePhase, SseRing
<1>2. SseChannel
  BY <1>1, ShellAssumption DEF Sse!Init, SseChannel, SsePhase, SseStates, Sse!Current
<1>3. SseMissed
  BY DEF Sse!Init, SseMissed
<1>4. QED  BY <1>1, <1>2, <1>3 DEF SseInv

\* Every step keeps the invariant.
LEMMA SseKept == SseInv /\ [Sse!Next]_sseVars => SseInv'
BY SsePhaseKept, SseMissedKept, SseRingKept, SseChannelKept DEF SseInv

\* The invariant gives the types, with both capacities.
LEMMA SseIsSound == SseInv => Sse!TypeOK
BY DEF SseInv, SsePhase, SseMissed, SseRing, SseChannel, SseStates, Sse!TypeOK, Sse!GatewayTyped,
     Sse!Phases, Sse!States

-----------------------------------------------------------------------------
(* The headers of the gateway                                              *)

\* The fields of a request's headers.
RequestFields ==
    {"tokens", "lengths", "codings", "names", "upgrade", "key", "version", "origin", "socket",
    "offers"}
\* The fields of a response's headers.
ResponseFields ==
    {"tokens", "lengths", "codings", "names", "upgrade", "accept", "selected", "switching",
        "extensions"}
\* The headers a client may name.
RequestHeaders == {"host", "te", "private", "cookie", "session", "ws-key", "upgrade", "origin"}

\* Where the exchange stands.
HeaderPlaces ==
    /\ at \in {"start", "received", "rejected", "forwarded", "answered", "failed", "done"}
    /\ kind \in {"none", "http", "websocket"}

\* A request's names agree with its headers, and the host is always among them.
HeaderRequest ==
    /\ DOMAIN request = RequestFields
    /\ request.names \subseteq RequestHeaders \cup {"connection"}
    /\ at = "received" =>
         /\ "host" \in request.names
         /\ request.key # "none" => "ws-key" \in request.names
         /\ request.origin # "none" => "origin" \in request.names

\* What is forwarded carries no framing, no credential and no hop's header but those of its own
\* kind.
HeaderForwarded ==
    at \in {"forwarded", "answered", "failed", "done"} =>
      /\ request.lengths = <<>> /\ request.codings = <<>> /\ "session" \notin request.names
      /\ "te" \notin request.names /\
             (request.tokens \cap request.names \subseteq Headers!HopByHop)
      /\ kind = "http" => {"connection", "upgrade"} \cap request.names = {}
      /\ kind = "websocket" =>
           {"connection", "upgrade", "ws-key", "origin", "host"} \subseteq request.names

\* What the backend may answer.
HeaderResponse ==
    /\ DOMAIN response = ResponseFields
    /\ response.names \subseteq {"te", "private", "set-cookie", "backend-session", "connection",
           "upgrade"}

\* What is returned: a handshake that was checked, or a plain response.
HeaderReturned ==
    /\ at = "done" /\ kind = "websocket" =>
         response.switching /\ response.accept = "expected" /\ ~response.extensions
           /\ response.selected \in request.offers \cup {"none"}
    /\ at = "done" /\ kind = "http" =>
         {"connection", "upgrade", "te", "backend-session"} \cap response.names = {}

\* The inductive invariant of the headers.
HeadersInv == HeaderPlaces /\ HeaderRequest /\ HeaderForwarded /\ HeaderResponse /\ HeaderReturned

\* No deviation is one of the names.
LEMMA ChangesAreOfFields ==
    /\ \A c \in Headers!RequestChanges : c[1] \in RequestFields \ {"names"}
    /\ \A c \in Headers!ResponseChanges : c[1] \in ResponseFields \ {"names"}
BY DEF Headers!RequestChanges, Headers!ResponseChanges, Headers!Framing, RequestFields,
     ResponseFields

\* What is received names its host and the headers of its handshake.
LEMMA ReceivedNames ==
    ASSUME Headers!Receives
    PROVE  /\ DOMAIN request' = RequestFields
           /\ request'.names \subseteq RequestHeaders
           /\ "host" \in request'.names
           /\ request'.key # "none" => "ws-key" \in request'.names
           /\ request'.origin # "none" => "origin" \in request'.names
<1>1. PICK base \in {Headers!Plain, Headers!Hello}, c \in Headers!RequestChanges,
         d \in Headers!RequestChanges :
        request' = Headers!WithNames([base EXCEPT ![c[1]] = c[2], ![d[1]] = d[2]])
  BY DEF Headers!Receives
<1>2. DOMAIN base = RequestFields /\ base.names = Headers!RequestNames
  <2>1. DOMAIN Headers!Plain = RequestFields /\ Headers!Plain.names = Headers!RequestNames
    BY DEF Headers!Plain, RequestFields
  <2>2. DOMAIN Headers!Hello = RequestFields /\ Headers!Hello.names = Headers!RequestNames
    BY <2>1 DEF Headers!Hello, RequestFields
  <2>3. QED  BY <2>1, <2>2
<1>3. c[1] \in RequestFields \ {"names"} /\ d[1] \in RequestFields \ {"names"}
  BY ChangesAreOfFields
<1> DEFINE m == [base EXCEPT ![c[1]] = c[2], ![d[1]] = d[2]]
<1>4. DOMAIN m = RequestFields /\ m.names = Headers!RequestNames
  BY <1>2, <1>3 DEF RequestFields
<1> HIDE DEF m
<1>5. request' = Headers!WithNames(m)
  BY <1>1 DEF m
<1>6. /\ DOMAIN request' = RequestFields
      /\ request'.key = m.key /\ request'.origin = m.origin
      /\ request'.names = Headers!RequestNames \cup Headers!Occurs(m, "key", "ws-key")
                            \cup Headers!Occurs(m, "upgrade", "upgrade") \cup Headers!Occurs(m,
                                "origin", "origin")
  BY <1>4, <1>5 DEF Headers!WithNames, RequestFields
<1>7. QED  BY <1>6 DEF Headers!Occurs, Headers!RequestNames, RequestHeaders

\* What the backend answers.
LEMMA AnsweredNames ==
    ASSUME Headers!Answers
    PROVE  DOMAIN response' = ResponseFields /\ response'.names = Headers!ResponseNames
<1>1. PICK base \in {Headers!Answer, Headers!Switch}, c \in Headers!ResponseChanges :
        response' = [base EXCEPT ![c[1]] = c[2]]
  BY DEF Headers!Answers
<1>2. DOMAIN base = ResponseFields /\ base.names = Headers!ResponseNames
  <2>1. DOMAIN Headers!Answer = ResponseFields /\ Headers!Answer.names = Headers!ResponseNames
    BY DEF Headers!Answer, ResponseFields
  <2>2. DOMAIN Headers!Switch = ResponseFields /\ Headers!Switch.names = Headers!ResponseNames
    BY <2>1 DEF Headers!Switch, ResponseFields
  <2>3. QED  BY <2>1, <2>2
<1>3. c[1] \in ResponseFields \ {"names"}
  BY ChangesAreOfFields
<1>4. QED  BY <1>1, <1>2, <1>3 DEF ResponseFields

\* What a message keeps when its framing is made new.
LEMMA NormalizedFields ==
    ASSUME NEW m, NEW names, {"lengths", "codings", "names"} \subseteq DOMAIN m
    PROVE  /\ DOMAIN Headers!Normalized(m, names) = DOMAIN m
           /\ Headers!Normalized(m, names).names = names
           /\ Headers!Normalized(m, names).lengths = <<>>
           /\ Headers!Normalized(m, names).codings = <<>>
           /\ \A f \in DOMAIN m \ {"lengths", "codings", "names"} :
                  Headers!Normalized(m, names)[f] = m[f]
BY DEF Headers!Normalized

\* Every step keeps the place.
LEMMA HeaderPlacesKept == HeaderPlaces /\ [Headers!Next]_headersVars => HeaderPlaces'
BY DEF HeaderPlaces, headersVars, Headers!Next, Headers!Receives, Headers!Rejects,
     Headers!Forwards, Headers!Answers, Headers!Fails, Headers!Returns, Headers!Kind

\* What is forwarded is normal.
LEMMA ForwardedNames ==
    ASSUME HeaderPlaces, HeaderRequest, Headers!Forwards
    PROVE  HeaderRequest' /\ HeaderForwarded'
<1> DEFINE stripped == Headers!Stripped(request) \ {"session"}
           names == IF kind' = "websocket" THEN Headers!Restored(stripped) ELSE stripped
<1>1. request' = Headers!Normalized(request, names) /\ at = "received" /\ at' = "forwarded" /\
         kind' = Headers!Kind(request)
  BY DEF Headers!Forwards
<1>2. {"lengths", "codings", "names"} \subseteq DOMAIN request /\ DOMAIN request = RequestFields
  BY DEF HeaderRequest, RequestFields
<1>3. /\ DOMAIN request' = RequestFields /\ request'.names = names
      /\ request'.lengths = <<>> /\ request'.codings = <<>>
      /\ \A f \in DOMAIN request \ {"lengths", "codings", "names"} : request'[f] = request[f]
  BY <1>1, <1>2, NormalizedFields
<1>4. request'.tokens = request.tokens
  BY <1>2, <1>3 DEF RequestFields
<1>5. stripped = request.names \ (request.tokens \cup Headers!HopByHop \cup {"session"})
  BY DEF Headers!Stripped
<1>6. kind' = "websocket" => {"ws-key", "origin", "host"} \subseteq stripped
  <2> SUFFICES ASSUME kind' = "websocket" PROVE {"ws-key", "origin", "host"} \subseteq stripped
    OBVIOUS
  <2>1. Headers!HandshakeIsValid(request)
    BY <1>1 DEF Headers!Kind
  <2>2. {"ws-key", "origin", "host"} \subseteq request.names
    BY <1>1, <2>1 DEF HeaderRequest, Headers!HandshakeIsValid
  <2>3. {"ws-key", "origin", "host"} \cap request.tokens = {}
    BY <2>1 DEF Headers!HandshakeIsValid, Headers!NominatesNoHandshake, Headers!Protected
  <2>4. QED  BY <1>5, <2>2, <2>3 DEF Headers!HopByHop
<1> HIDE DEF stripped
<1>7. HeaderRequest'
  BY <1>1, <1>3, <1>5 DEF HeaderRequest, Headers!Restored, RequestHeaders
<1>8. HeaderForwarded'
  <2>1. kind' # "websocket" => request'.names = stripped
    BY <1>3
  <2>2. kind' = "websocket" => request'.names = stripped \cup {"connection", "upgrade"}
    BY <1>3 DEF Headers!Restored
  <2>3. /\ "session" \notin stripped /\ stripped \cap request.tokens = {}
        /\ {"connection", "upgrade", "te"} \cap stripped = {}
    BY <1>5 DEF Headers!HopByHop
  <2>4. request'.tokens \cap request'.names \subseteq Headers!HopByHop
    BY <1>4, <2>1, <2>2, <2>3 DEF Headers!HopByHop
  <2>5. QED  BY <1>3, <1>6, <2>1, <2>2, <2>3, <2>4 DEF HeaderForwarded
<1>9. QED  BY <1>7, <1>8

\* What is returned is normal.
LEMMA ReturnedNames ==
    ASSUME HeaderPlaces, HeaderResponse, Headers!Returns
    PROVE  HeaderResponse' /\ HeaderReturned'
<1> DEFINE stripped == Headers!Stripped(response) \ {"backend-session"}
           names == IF kind = "websocket" THEN Headers!Restored(stripped) ELSE stripped
<1>1. response' = Headers!Normalized(response, names) /\ UNCHANGED <<request, kind>> /\
         Headers!IsReturned(response)
  BY DEF Headers!Returns
<1>2. {"lengths", "codings", "names"} \subseteq DOMAIN response /\
         DOMAIN response = ResponseFields
  BY DEF HeaderResponse, ResponseFields
<1>3. /\ DOMAIN response' = ResponseFields /\ response'.names = names
      /\ \A f \in DOMAIN response \ {"lengths", "codings", "names"} : response'[f] = response[f]
  BY <1>1, <1>2, NormalizedFields
<1>4. response'.accept = response.accept /\ response'.selected = response.selected
  BY <1>2, <1>3 DEF ResponseFields
<1>5. response'.switching = response.switching /\ response'.extensions = response.extensions
  BY <1>2, <1>3 DEF ResponseFields
<1>6. stripped \subseteq response.names /\
         {"connection", "upgrade", "te", "backend-session"} \cap stripped = {}
  BY DEF Headers!Stripped, Headers!HopByHop
<1> HIDE DEF stripped
<1>7. HeaderResponse'
  BY <1>3, <1>6 DEF HeaderResponse, Headers!Restored
<1>8. kind' = "http" =>
         {"connection", "upgrade", "te", "backend-session"} \cap response'.names = {}
  BY <1>1, <1>3, <1>6
<1>9. ASSUME kind' = "websocket"
      PROVE /\ response'.switching /\ response'.accept = "expected" /\ ~response'.extensions
            /\ response'.selected \in request'.offers \cup {"none"}
  <2>1. Headers!SwitchIsValid(response)
    BY <1>1, <1>9 DEF Headers!IsReturned
  <2>2. response'.accept = "expected" /\ response'.selected \in request'.offers \cup {"none"}
    BY <1>1, <1>4, <2>1 DEF Headers!SwitchIsValid, Headers!SelectsOffered
  <2>3. response.switching
    BY <2>1 DEF Headers!SwitchIsValid
  <2>4. response'.switching
    BY <1>5, <2>3
  <2>5. ~response'.extensions
    BY <1>5, <2>1 DEF Headers!SwitchIsValid
  <2>6. QED  BY <2>2, <2>4, <2>5
<1>10. QED  BY <1>7, <1>8, <1>9 DEF HeaderReturned

\* An exchange that was not begun satisfies the invariant.
LEMMA HeadersStart == Headers!Init => HeadersInv
<1> SUFFICES ASSUME Headers!Init PROVE HeadersInv
  OBVIOUS
<1>1. at = "start" /\ kind = "none" /\ request = Headers!Plain /\ response = Headers!Answer
  BY DEF Headers!Init
<1>2. HeaderRequest
  BY <1>1 DEF HeaderRequest, Headers!Plain, RequestFields, Headers!RequestNames, RequestHeaders
<1>3. HeaderResponse
  BY <1>1 DEF HeaderResponse, Headers!Answer, ResponseFields, Headers!ResponseNames
<1>4. QED
  BY <1>1, <1>2, <1>3 DEF HeadersInv, HeaderPlaces, HeaderForwarded, HeaderReturned

\* Every step keeps the invariant.
LEMMA HeadersKept == HeadersInv /\ [Headers!Next]_headersVars => HeadersInv'
<1> SUFFICES ASSUME HeadersInv, [Headers!Next]_headersVars PROVE HeadersInv'
  OBVIOUS
<1> USE DEF HeadersInv
<1>1. HeaderPlaces'
  BY HeaderPlacesKept
<1>2. CASE Headers!Receives
  <2>1. at' = "received" /\ UNCHANGED response
    BY <1>2 DEF Headers!Receives
  <2>2. HeaderRequest'
    BY <1>2, <2>1, ReceivedNames DEF HeaderRequest
  <2>3. QED  BY <1>1, <2>1, <2>2 DEF HeaderForwarded, HeaderResponse, HeaderReturned
<1>3. CASE Headers!Forwards
  <2>1. HeaderRequest' /\ HeaderForwarded'
    BY <1>3, ForwardedNames
  <2>2. at' = "forwarded" /\ UNCHANGED response
    BY <1>3 DEF Headers!Forwards
  <2>3. QED  BY <1>1, <2>1, <2>2 DEF HeaderResponse, HeaderReturned
<1>4. CASE Headers!Answers
  <2>1. at = "forwarded" /\ at' = "answered" /\ UNCHANGED <<request, kind>>
    BY <1>4 DEF Headers!Answers
  <2>2. HeaderResponse'
    BY <1>4, AnsweredNames DEF HeaderResponse, Headers!ResponseNames
  <2>3. HeaderRequest' /\ HeaderForwarded'
    BY <2>1 DEF HeaderRequest, HeaderForwarded
  <2>4. QED  BY <1>1, <2>1, <2>2, <2>3 DEF HeaderReturned
<1>5. CASE Headers!Returns
  <2>1. HeaderResponse' /\ HeaderReturned'
    BY <1>5, ReturnedNames
  <2>2. at = "answered" /\ at' = "done" /\ UNCHANGED <<request, kind>>
    BY <1>5 DEF Headers!Returns
  <2>3. HeaderRequest' /\ HeaderForwarded'
    BY <2>2 DEF HeaderRequest, HeaderForwarded
  <2>4. QED  BY <1>1, <2>1, <2>3
<1>6. CASE Headers!Rejects \/ Headers!Fails
  <2>1. /\ UNCHANGED <<request, kind, response>> /\ at' \in {"rejected", "failed"}
        /\ at' = "failed" => at = "answered"
    BY <1>6 DEF Headers!Rejects, Headers!Fails
  <2>2. HeaderRequest' /\ HeaderForwarded' /\ HeaderResponse' /\ HeaderReturned'
    BY <2>1 DEF HeaderRequest, HeaderForwarded, HeaderResponse, HeaderReturned
  <2>3. QED  BY <1>1, <2>2
<1>7. CASE UNCHANGED headersVars
  BY <1>1, <1>7 DEF headersVars, HeaderRequest, HeaderForwarded, HeaderResponse, HeaderReturned
<1>8. QED
  BY <1>2, <1>3, <1>4, <1>5, <1>6, <1>7 DEF Headers!Next

\* The invariant gives the types and HeadersAreNormal.
LEMMA HeadersAreSound == HeadersInv => Headers!TypeOK /\ Headers!HeadersAreNormal
<1> SUFFICES ASSUME HeadersInv PROVE Headers!TypeOK /\ Headers!HeadersAreNormal
  OBVIOUS
<1>1. Headers!TypeOK
  BY DEF HeadersInv, HeaderPlaces, HeaderRequest, HeaderResponse, RequestHeaders, Headers!TypeOK,
     Headers!RequestNames, Headers!ResponseNames, Headers!HopByHop, Headers!Protected
<1>2. Headers!HeadersAreNormal
  BY DEF HeadersInv, HeaderForwarded, HeaderReturned, Headers!HeadersAreNormal
<1>3. QED  BY <1>1, <1>2

-----------------------------------------------------------------------------
(* Downloads                                                               *)

\* The places from which a download replaces its target without reading its flag again.
DownloadLate == {"flush", "replace", "rename"}

\* The places of a download that has returned its permit.
DownloadEnded == {"install", "report", "fail", "over"}

\* The target, the status and the place of every download.
DownloadTyped ==
    /\ of \in [Download -> Target \cup {"none"}]
    /\ status \in [Download -> {"completed", "failed", "canceled", "none", "queued", "running",
           "canceling"}]
    /\ downloads_pc \in [Download -> {"none", "permit", "request", "file", "stream", "write",
           "flush",
           "replace", "rename", "install", "report", "fail", "over"}]

\* The platform, and the cancellation flags.
DownloadFlags == unix \in BOOLEAN /\ flag \in [Download -> BOOLEAN]

\* Target, status and place are given together.
DownloadBegun ==
    \A d \in Download : /\ of[d] = "none" <=> downloads_pc[d] = "none"
                        /\ status[d] = "none" <=> downloads_pc[d] = "none"

\* The redirects a download followed.
DownloadRedirects == redirects \in [Download -> 0..MaxRedirects]

\* A part file holds less than all while it is written, and there is none before its download,
\* or after it unless its removal failed.
DownloadParts ==
    /\ downloads_part \in [Download -> 0..MaxChunks + 1]
    /\ \A d \in Download :
         /\ downloads_pc[d] = "write" => downloads_part[d] < MaxChunks
         /\ downloads_pc[d] \in {"none", "permit", "request", "file"} =>
              downloads_part[d] = MaxChunks + 1
         /\ downloads_pc[d] \in DownloadEnded =>
              downloads_part[d] = MaxChunks + 1 \/ d \in litter
    /\ litter \subseteq Download

\* What is over, or was cancelled before it read its flag, never replaces a target.
DownloadDead(d) ==
    downloads_pc[d] \in DownloadEnded \/ (flag[d] = TRUE /\ downloads_pc[d] \notin DownloadLate)

\* Others may write the target of a dead download only.
DownloadAlone ==
    \A d \in Download :
      /\ status[d] = "queued" => downloads_pc[d] \in {"permit", "request"} \cup DownloadEnded
      /\ status[d] \in {"completed", "failed", "canceled"} => DownloadDead(d)
      /\ \A e \in Download : d # e /\ of[d] = of[e] /\ of[d] # "none" =>
             DownloadDead(d) \/ DownloadDead(e)

\* What was reported before its end is dead.
DownloadEarly ==
    /\ early \subseteq Download
    /\ \A d \in early : DownloadDead(d) /\ downloads_pc[d] # "none"

\* A target holds a whole download that is over, what was there, or nothing: nothing only where
\* a rename does not replace.
DownloadFile ==
    /\ file \in [Target -> Download \cup {"absent", "older"}]
    /\ \A t \in Target : file[t] \in Download =>
           downloads_pc[file[t]] \in DownloadEnded /\ file[t] \notin early
    /\ lost \subseteq Target
    /\ unix = TRUE => lost = {} /\ \A t \in Target : file[t] # "absent"

\* A cancellation of a download that failed, or is about to be shown as failed, came after
\* the last look at its flag.
DownloadReported ==
    /\ late \subseteq Download
    /\ \A d \in Download :
         (status[d] = "failed" \/ downloads_pc[d] = "fail") /\ flag[d] = TRUE => d \in late

\* The inductive invariant of the downloads.
DownloadsInv ==
    /\ DownloadTyped /\ DownloadFlags /\ DownloadBegun /\ DownloadRedirects /\ DownloadParts
    /\ DownloadAlone /\ DownloadEarly /\ DownloadFile /\ DownloadReported

\* Every step keeps the types.
LEMMA DownloadTypedKept == DownloadTyped /\ [Downloads!Next]_downloadsVars => DownloadTyped'
<1> SUFFICES ASSUME DownloadTyped, [Downloads!Next]_downloadsVars PROVE DownloadTyped'
  OBVIOUS
<1> USE DEF DownloadTyped
<1>1. CASE UNCHANGED downloadsVars
  BY <1>1 DEF downloadsVars
<1>2. ASSUME NEW d \in Download, NEW t \in Target, Downloads!Starts(d, t) PROVE DownloadTyped'
  BY <1>2 DEF Downloads!Starts, Downloads!Goes
<1>3. ASSUME NEW d \in Download, Downloads!Cancels(d) PROVE DownloadTyped'
  BY <1>3 DEF Downloads!Cancels, Downloads!CanceledStatus
<1>4. ASSUME NEW d \in Download, Downloads!Step(d) PROVE DownloadTyped'
  <2>1. CASE Downloads!GetsPermit(d)
    BY <2>1 DEF Downloads!GetsPermit, Downloads!EndsCanceled, Downloads!Goes
  <2>2. CASE Downloads!Redirected(d)
    BY <2>2 DEF Downloads!Redirected
  <2>3. CASE Downloads!Responds(d) \/ Downloads!CreatesFile(d)
    BY <2>3 DEF Downloads!Responds, Downloads!CreatesFile, Downloads!Goes
  <2>4. CASE Downloads!Streams(d)
    BY <2>4 DEF Downloads!Streams, Downloads!EndsCanceled, Downloads!Goes
  <2>5. CASE Downloads!Writes(d) \/ Downloads!Flushes(d) \/ Downloads!Removes(d) \/
           Downloads!Completes(d)
    BY <2>5 DEF Downloads!Writes, Downloads!Flushes, Downloads!Removes, Downloads!Completes,
         Downloads!Goes
  <2>6. CASE Downloads!Fails(d) \/ Downloads!Reports(d) \/ Downloads!FailsTask(d) \/
           Downloads!Installs(d)
    BY <2>6 DEF Downloads!Fails, Downloads!Reports, Downloads!FailsTask, Downloads!Installs,
         Downloads!Goes
  <2>7. QED  BY <1>4, <2>1, <2>2, <2>3, <2>4, <2>5, <2>6 DEF Downloads!Step
<1>5. QED  BY <1>1, <1>2, <1>3, <1>4 DEF Downloads!Next

\* The flag is set, never reset; the platform stays what it is.
LEMMA DownloadFlagsKept ==
    DownloadFlags /\ [Downloads!Next]_downloadsVars =>
      /\ DownloadFlags' /\ unix' = unix
      /\ \A d \in Download : flag[d] = TRUE => flag'[d] = TRUE
<1> SUFFICES ASSUME DownloadFlags, [Downloads!Next]_downloadsVars
             PROVE  /\ DownloadFlags' /\ unix' = unix
                    /\ \A d \in Download : flag[d] = TRUE => flag'[d] = TRUE
  OBVIOUS
<1>1. unix' = unix /\ (UNCHANGED flag \/ \E d \in Download : flag' = [flag EXCEPT ![d] = TRUE])
  BY DEF downloadsVars, Downloads!Next, Downloads!Starts, Downloads!Cancels, Downloads!Step,
       Downloads!GetsPermit, Downloads!Redirected, Downloads!Responds, Downloads!CreatesFile,
       Downloads!Streams, Downloads!Writes, Downloads!Flushes, Downloads!Removes,
       Downloads!Completes, Downloads!Installs, Downloads!Fails, Downloads!Reports,
       Downloads!FailsTask, Downloads!RemovesPart, Downloads!EndsCanceled, Downloads!historyVars
<1>2. QED  BY <1>1 DEF DownloadFlags

\* The place a download goes to: none of its steps begins it, and one that is flagged does
\* not pass from reading to replacing.
LEMMA DownloadPlaces ==
    ASSUME DownloadTyped, DownloadFlags, NEW d \in Download, Downloads!Step(d)
    PROVE  /\ UNCHANGED <<of, flag>>
           /\ downloads_pc[d] \notin {"none", "over"} /\ downloads_pc'[d] # "none"
           /\ \A e \in Download \ {d} : downloads_pc'[e] = downloads_pc[e] /\
                  status'[e] = status[e]
           /\ status'[d] # status[d] =>
                  status'[d] \in {"completed", "failed", "canceled", "running"}
           /\ status'[d] \in {"completed", "failed", "canceled"} =>
                status'[d] = status[d] \/ downloads_pc'[d] \in DownloadEnded
           /\ downloads_pc[d] \in DownloadEnded => downloads_pc'[d] \in DownloadEnded
           /\ downloads_pc'[d] \in DownloadLate =>
                downloads_pc[d] \in DownloadLate \/
                    (downloads_pc[d] = "stream" /\ flag[d] = FALSE)
           /\ status'[d] = "queued" /\
                  downloads_pc[d] \in {"permit", "request"} \cup DownloadEnded =>
                downloads_pc'[d] \in {"permit", "request"} \cup DownloadEnded
<1> USE DEF DownloadTyped, DownloadFlags, DownloadLate, DownloadEnded
<1>1. CASE Downloads!GetsPermit(d)
  BY <1>1 DEF Downloads!GetsPermit, Downloads!EndsCanceled, Downloads!Goes
<1>2. CASE Downloads!Redirected(d)
  BY <1>2 DEF Downloads!Redirected
<1>3. CASE Downloads!Responds(d) \/ Downloads!CreatesFile(d)
  BY <1>3 DEF Downloads!Responds, Downloads!CreatesFile, Downloads!Goes
<1>4. CASE Downloads!Streams(d)
  <2>1. CASE flag[d] = TRUE
    BY <1>4, <2>1 DEF Downloads!Streams, Downloads!IsCancelled, Downloads!EndsCanceled,
         Downloads!Goes
  <2>2. CASE flag[d] = FALSE
    <3>1. /\ downloads_pc[d] = "stream" /\ UNCHANGED <<of, flag, status>>
          /\ \E p \in {"write", "flush"} : downloads_pc' = [downloads_pc EXCEPT ![d] = p]
      BY <1>4, <2>2 DEF Downloads!Streams, Downloads!IsCancelled
    <3>2. QED  BY <2>2, <3>1
  <2>3. QED  BY <2>1, <2>2
<1>5. CASE Downloads!Writes(d) \/ Downloads!Flushes(d) \/ Downloads!Removes(d) \/
         Downloads!Completes(d)
  BY <1>5 DEF Downloads!Writes, Downloads!Flushes, Downloads!Removes, Downloads!Completes,
       Downloads!Goes
<1>6. CASE Downloads!Fails(d)
  BY <1>6 DEF Downloads!Fails, Downloads!Goes, Downloads!HasPermit
<1>7. CASE Downloads!Reports(d) \/ Downloads!FailsTask(d) \/ Downloads!Installs(d)
  BY <1>7 DEF Downloads!Reports, Downloads!FailsTask, Downloads!Installs, Downloads!Goes
<1>8. QED  BY <1>1, <1>2, <1>3, <1>4, <1>5, <1>6, <1>7 DEF Downloads!Step

\* What is dead stays dead.
LEMMA DeadStays ==
    ASSUME DownloadTyped, DownloadFlags, [Downloads!Next]_downloadsVars, NEW c \in Download,
        DownloadDead(c),
           downloads_pc[c] # "none"
    PROVE  DownloadDead(c)'
<1>1. flag[c] = TRUE => flag'[c] = TRUE
  BY DownloadFlagsKept
<1>2. CASE UNCHANGED downloads_pc
  BY <1>1, <1>2 DEF DownloadDead
<1>3. ASSUME NEW d \in Download, NEW t \in Target, Downloads!Starts(d, t) PROVE DownloadDead(c)'
  <2>1. downloads_pc[d] = "none" /\ downloads_pc' = [downloads_pc EXCEPT ![d] = "permit"]
    BY <1>3 DEF Downloads!Starts, Downloads!Goes
  <2>2. downloads_pc'[c] = downloads_pc[c]
    BY <2>1 DEF DownloadTyped
  <2>3. QED  BY <1>1, <2>2 DEF DownloadDead
<1>4. ASSUME NEW d \in Download, Downloads!Step(d) PROVE DownloadDead(c)'
  <2>1. CASE c # d
    BY <1>1, <1>4, <2>1, DownloadPlaces DEF DownloadDead
  <2>2. CASE c = d
    BY <1>1, <1>4, <2>2, DownloadPlaces DEF DownloadDead
  <2>3. QED  BY <2>1, <2>2
<1>5. ASSUME NEW d \in Download, Downloads!Cancels(d) PROVE DownloadDead(c)'
  BY <1>2, <1>5 DEF Downloads!Cancels
<1>6. QED  BY <1>2, <1>3, <1>4, <1>5 DEF Downloads!Next, downloadsVars

\* A download begins once.
LEMMA DownloadBegunKept ==
    DownloadTyped /\ DownloadFlags /\ DownloadBegun /\ [Downloads!Next]_downloadsVars =>
        DownloadBegun'
<1> SUFFICES ASSUME DownloadTyped, DownloadFlags, DownloadBegun,
    [Downloads!Next]_downloadsVars PROVE DownloadBegun'
  OBVIOUS
<1>1. CASE UNCHANGED downloadsVars
  BY <1>1 DEF downloadsVars, DownloadBegun
<1>2. ASSUME NEW d \in Download, NEW t \in Target, Downloads!Starts(d, t) PROVE DownloadBegun'
  BY <1>2, ShellAssumption DEF DownloadTyped, DownloadBegun, Downloads!Starts, Downloads!Goes
<1>3. ASSUME NEW d \in Download, Downloads!Cancels(d) PROVE DownloadBegun'
  BY <1>3 DEF DownloadTyped, DownloadBegun, Downloads!Cancels, Downloads!Active,
       Downloads!CanceledStatus
<1>4. ASSUME NEW d \in Download, Downloads!Step(d) PROVE DownloadBegun'
  <2>1. \A e \in Download : /\ of'[e] = of[e] /\ (downloads_pc'[e] = "none" <=>
                                   downloads_pc[e] = "none")
                            /\ status'[e] = "none" <=> status[e] = "none"
    BY <1>4, DownloadPlaces DEF DownloadBegun
  <2>2. QED  BY <2>1 DEF DownloadBegun
<1>5. QED  BY <1>1, <1>2, <1>3, <1>4 DEF Downloads!Next

\* Every step keeps the redirects within their bound.
LEMMA DownloadRedirectsKept ==
    DownloadRedirects /\ [Downloads!Next]_downloadsVars => DownloadRedirects'
<1> SUFFICES ASSUME DownloadRedirects, [Downloads!Next]_downloadsVars PROVE DownloadRedirects'
  OBVIOUS
<1>1. CASE UNCHANGED redirects
  BY <1>1 DEF DownloadRedirects
<1>2. ASSUME NEW d \in Download, Downloads!Redirected(d) PROVE DownloadRedirects'
  BY <1>2, ShellAssumption DEF DownloadRedirects, Downloads!Redirected
<1>3. QED
  BY <1>1, <1>2 DEF downloadsVars, Downloads!Next, Downloads!Starts, Downloads!Cancels,
       Downloads!Step, Downloads!GetsPermit, Downloads!Responds, Downloads!CreatesFile,
       Downloads!Streams, Downloads!Writes, Downloads!Flushes, Downloads!Removes,
       Downloads!Completes, Downloads!Installs, Downloads!Fails, Downloads!Reports,
       Downloads!FailsTask, Downloads!RemovesPart, Downloads!EndsCanceled, Downloads!historyVars

\* A download that goes on has written its part.
LEMMA DownloadPartsKept ==
    DownloadTyped /\ DownloadParts /\ [Downloads!Next]_downloadsVars => DownloadParts'
<1> SUFFICES ASSUME DownloadTyped, DownloadParts,
    [Downloads!Next]_downloadsVars PROVE DownloadParts'
  OBVIOUS
<1> USE ShellAssumption DEF DownloadTyped, DownloadParts, DownloadEnded
<1>1. CASE UNCHANGED <<downloads_pc, downloads_part, litter>>
  BY <1>1
<1>2. ASSUME NEW d \in Download, NEW t \in Target, Downloads!Starts(d, t) PROVE DownloadParts'
  BY <1>2 DEF Downloads!Starts, Downloads!Goes, Downloads!historyVars
<1>3. ASSUME NEW d \in Download, Downloads!Step(d) PROVE DownloadParts'
  <2>1. CASE Downloads!GetsPermit(d)
    <3>1. /\ downloads_pc[d] = "permit"
          /\ \E p \in {"over", "request"} : downloads_pc' = [downloads_pc EXCEPT ![d] = p]
      BY <2>1 DEF Downloads!GetsPermit, Downloads!EndsCanceled, Downloads!Goes
    <3>2. Downloads!RemovesPart(d) \/ UNCHANGED <<downloads_part, litter>>
      BY <2>1 DEF Downloads!GetsPermit, Downloads!EndsCanceled
    <3>3. /\ UNCHANGED litter
          /\ downloads_part' = downloads_part \/
               downloads_part' = [downloads_part EXCEPT ![d] = MaxChunks + 1]
      BY <3>1, <3>2 DEF Downloads!RemovesPart, Downloads!NoPart
    <3>4. QED  BY <3>1, <3>3
  <2>2. CASE Downloads!Redirected(d)
    BY <1>1, <2>2 DEF Downloads!Redirected, Downloads!historyVars
  <2>3. CASE Downloads!Responds(d) \/ Downloads!CreatesFile(d)
    BY <2>3 DEF Downloads!Responds, Downloads!CreatesFile, Downloads!Goes, Downloads!historyVars
  <2>4. CASE (Downloads!Streams(d) /\ Downloads!IsCancelled(d)) \/ Downloads!Fails(d)
    <3>1. \E p \in {"over", "report"} : downloads_pc' = [downloads_pc EXCEPT ![d] = p]
      BY <2>4 DEF Downloads!Streams, Downloads!EndsCanceled, Downloads!Fails, Downloads!Goes
    <3>2. Downloads!RemovesPart(d)
      BY <2>4 DEF Downloads!Streams, Downloads!EndsCanceled, Downloads!Fails
    <3>3. CASE /\ downloads_part' = [downloads_part EXCEPT ![d] = MaxChunks + 1]
               /\ UNCHANGED litter
      BY <3>1, <3>3
    <3>4. CASE litter' = litter \cup {d} /\ UNCHANGED downloads_part
      BY <3>1, <3>4
    <3>5. QED  BY <3>2, <3>3, <3>4 DEF Downloads!RemovesPart, Downloads!NoPart
  <2>5. CASE Downloads!Streams(d) /\ ~Downloads!IsCancelled(d)
    <3>1. /\ downloads_pc[d] = "stream" /\ UNCHANGED <<downloads_part, litter>>
          /\ \/ downloads_pc' = [downloads_pc EXCEPT ![d] = "flush"]
             \/ /\ downloads_pc' = [downloads_pc EXCEPT ![d] = "write"]
                /\ downloads_part[d] < MaxChunks
      BY <2>5 DEF Downloads!Streams
    <3>2. QED  BY <3>1
  <2>6. CASE Downloads!Writes(d)
    BY <2>6 DEF Downloads!Writes, Downloads!Goes, Downloads!historyVars
  <2>7. CASE Downloads!Flushes(d) \/ Downloads!Removes(d)
    BY <2>7 DEF Downloads!Flushes, Downloads!Removes, Downloads!Goes, Downloads!historyVars
  <2>8. CASE Downloads!Completes(d)
    BY <2>8 DEF Downloads!Completes, Downloads!Goes, Downloads!NoPart, Downloads!historyVars
  <2>9. CASE Downloads!Reports(d) \/ Downloads!FailsTask(d) \/ Downloads!Installs(d)
    BY <2>9 DEF Downloads!Reports, Downloads!FailsTask, Downloads!Installs, Downloads!Goes,
         Downloads!historyVars
  <2>10. QED
    BY <1>3, <2>1, <2>2, <2>3, <2>4, <2>5, <2>6, <2>7, <2>8, <2>9 DEF Downloads!Step
<1>4. ASSUME NEW d \in Download, Downloads!Cancels(d) PROVE DownloadParts'
  BY <1>1, <1>4 DEF Downloads!Cancels
<1>5. QED
  BY <1>1, <1>2, <1>3, <1>4 DEF Downloads!Next, downloadsVars

\* A second download to a target begins only when the first is dead.
LEMMA DownloadAloneKept ==
    DownloadTyped /\ DownloadFlags /\ DownloadBegun /\ DownloadAlone /\
        [Downloads!Next]_downloadsVars => DownloadAlone'
<1> SUFFICES ASSUME DownloadTyped, DownloadFlags, DownloadBegun, DownloadAlone,
    [Downloads!Next]_downloadsVars
             PROVE DownloadAlone'
  OBVIOUS
<1>1. CASE UNCHANGED downloadsVars
  BY <1>1 DEF downloadsVars, DownloadAlone, DownloadDead
<1>2. \A c \in Download : DownloadDead(c) /\ downloads_pc[c] # "none" => DownloadDead(c)'
  BY DeadStays
<1>3. ASSUME NEW d \in Download, NEW t \in Target, Downloads!Starts(d, t) PROVE DownloadAlone'
  <2>1. /\ downloads_pc[d] = "none" /\ downloads_pc' = [downloads_pc EXCEPT ![d] = "permit"]
        /\ of' = [of EXCEPT ![d] = t] /\ status' = [status EXCEPT ![d] = "queued"] /\
               UNCHANGED flag
    BY <1>3 DEF Downloads!Starts, Downloads!Goes
  <2>2. \A e \in Download \ {d} : of[e] = t => DownloadDead(e) /\ downloads_pc[e] # "none"
    BY <1>3, ShellAssumption DEF Downloads!Starts, Downloads!TargetIsFree, Downloads!Active,
         Downloads!Terminal, DownloadAlone, DownloadBegun
  <2>3. /\ \A e \in Download \ {d} : of'[e] = of[e] /\ status'[e] = status[e] /\
           downloads_pc'[e] = downloads_pc[e]
        /\ of'[d] = t /\ status'[d] = "queued" /\ downloads_pc'[d] = "permit"
    BY <2>1 DEF DownloadTyped
  <2>4. \A c \in Download : /\ status'[c] = "queued" =>
                                   downloads_pc'[c] \in {"permit", "request"} \cup DownloadEnded
                            /\ status'[c] \in {"completed", "failed", "canceled"} =>
                                   DownloadDead(c)'
    BY <1>2, <2>3 DEF DownloadAlone, DownloadBegun, DownloadLate, DownloadEnded
  <2>5. \A c, e \in Download : c # e /\ of'[c] = of'[e] /\ of'[c] # "none" =>
           DownloadDead(c)' \/ DownloadDead(e)'
    BY <1>2, <2>2, <2>3 DEF DownloadAlone, DownloadBegun
  <2>6. QED  BY <2>4, <2>5 DEF DownloadAlone
<1>4. ASSUME NEW d \in Download, Downloads!Cancels(d) PROVE DownloadAlone'
  <2>1. /\ UNCHANGED <<of, downloads_pc>> /\
           status[d] \notin {"completed", "failed", "canceled", "none"}
        /\ flag' = [flag EXCEPT ![d] = TRUE]
        /\ status' = [status EXCEPT ![d] = IF status[d] =
               "queued" THEN "canceled" ELSE "canceling"]
    BY <1>4 DEF Downloads!Cancels, Downloads!Active, Downloads!Terminal, Downloads!CanceledStatus
  <2>2. \A c \in Download : /\ status'[c] = "queued" =>
                                   downloads_pc'[c] \in {"permit", "request"} \cup DownloadEnded
                            /\ status'[c] \in {"completed", "failed", "canceled"} =>
                                   DownloadDead(c)'
    <3>1. \A c \in Download \ {d} : status'[c] = status[c]
      BY <2>1 DEF DownloadTyped
    <3>2. \A c \in Download \ {d} : /\ status'[c] = "queued" =>
                                           downloads_pc'[c] \in
                                           {"permit", "request"} \cup DownloadEnded
                                    /\ status'[c] \in {"completed", "failed", "canceled"} =>
                                           DownloadDead(c)'
      BY <1>2, <2>1, <3>1 DEF DownloadAlone, DownloadBegun
    <3>3. status'[d] \in {"canceled", "canceling"} /\
             (status'[d] = "canceled" => status[d] = "queued")
      BY <2>1 DEF DownloadTyped
    <3>4. status'[d] = "canceled" => DownloadDead(d)'
      BY <2>1, <3>3 DEF DownloadAlone, DownloadFlags, DownloadDead, DownloadLate
    <3>5. SUFFICES ASSUME NEW c \in Download
                   PROVE  /\ status'[c] = "queued" =>
                                 downloads_pc'[c] \in {"permit", "request"} \cup DownloadEnded
                          /\ status'[c] \in {"completed", "failed", "canceled"} =>
                                 DownloadDead(c)'
      OBVIOUS
    <3>6. CASE c = d
      BY <3>3, <3>4, <3>6
    <3>7. CASE c # d
      BY <3>2, <3>7 DEF DownloadDead
    <3>8. QED  BY <3>6, <3>7
  <2>3. \A c, e \in Download : c # e /\ of'[c] = of'[e] /\ of'[c] # "none" =>
           DownloadDead(c)' \/ DownloadDead(e)'
    BY <1>2, <2>1 DEF DownloadAlone, DownloadBegun
  <2>4. QED  BY <2>2, <2>3 DEF DownloadAlone
<1>5. ASSUME NEW d \in Download, Downloads!Step(d) PROVE DownloadAlone'
  <2>1. \A c \in Download : /\ status'[c] = "queued" =>
                                   downloads_pc'[c] \in {"permit", "request"} \cup DownloadEnded
                            /\ status'[c] \in {"completed", "failed", "canceled"} =>
                                   DownloadDead(c)'
    <3>1. \A c \in Download \ {d} : status'[c] = status[c] /\ downloads_pc'[c] = downloads_pc[c]
      BY <1>5, DownloadPlaces
    <3>2. \A c \in Download \ {d} : /\ status'[c] = "queued" =>
                                           downloads_pc'[c] \in
                                           {"permit", "request"} \cup DownloadEnded
                                    /\ status'[c] \in {"completed", "failed", "canceled"} =>
                                           DownloadDead(c)'
      BY <1>2, <3>1 DEF DownloadAlone, DownloadBegun
    <3>3. status'[d] = "queued" => status[d] = "queued"
      BY <1>5, DownloadPlaces
    <3>4. status'[d] = "queued" => downloads_pc'[d] \in {"permit", "request"} \cup DownloadEnded
      BY <1>5, <3>3, DownloadPlaces DEF DownloadAlone
    <3>5. status'[d] \in {"completed", "failed", "canceled"} => DownloadDead(d)'
      <4>1. CASE status'[d] = status[d]
        BY <1>2, <1>5, <4>1, DownloadPlaces DEF DownloadAlone
      <4>2. CASE status'[d] # status[d]
        BY <1>5, <4>2, DownloadPlaces DEF DownloadDead
      <4>3. QED  BY <4>1, <4>2
    <3>6. SUFFICES ASSUME NEW c \in Download
                   PROVE  /\ status'[c] = "queued" =>
                                 downloads_pc'[c] \in {"permit", "request"} \cup DownloadEnded
                          /\ status'[c] \in {"completed", "failed", "canceled"} =>
                                 DownloadDead(c)'
      OBVIOUS
    <3>7. CASE c = d
      BY <3>4, <3>5, <3>7
    <3>8. CASE c # d
      BY <3>2, <3>8 DEF DownloadDead
    <3>9. QED  BY <3>7, <3>8
  <2>2. \A c, e \in Download : c # e /\ of'[c] = of'[e] /\ of'[c] # "none" =>
           DownloadDead(c)' \/ DownloadDead(e)'
    BY <1>2, <1>5, DownloadPlaces DEF DownloadAlone, DownloadBegun
  <2>3. QED  BY <2>1, <2>2 DEF DownloadAlone
<1>6. QED  BY <1>1, <1>3, <1>4, <1>5 DEF Downloads!Next

\* What was reported early does not come to life.
LEMMA DownloadEarlyKept ==
    /\ DownloadTyped /\ DownloadFlags /\ DownloadBegun /\ DownloadEarly
    /\ [Downloads!Next]_downloadsVars
    => DownloadEarly'
<1> SUFFICES ASSUME DownloadTyped, DownloadFlags, DownloadBegun, DownloadEarly,
    [Downloads!Next]_downloadsVars
             PROVE DownloadEarly'
  OBVIOUS
<1>1. \A c \in Download : DownloadDead(c) /\ downloads_pc[c] # "none" =>
         DownloadDead(c)' /\ downloads_pc'[c] # "none"
  <2>1. \A c \in Download : downloads_pc[c] # "none" => downloads_pc'[c] # "none"
    <3>1. CASE UNCHANGED downloads_pc
      BY <3>1
    <3>2. ASSUME NEW d \in Download, NEW t \in Target, Downloads!Starts(d, t)
          PROVE \A c \in Download : downloads_pc[c] # "none" => downloads_pc'[c] # "none"
      BY <3>2 DEF Downloads!Starts, Downloads!Goes, DownloadTyped
    <3>3. ASSUME NEW d \in Download, Downloads!Step(d)
          PROVE \A c \in Download : downloads_pc[c] # "none" => downloads_pc'[c] # "none"
      BY <3>3, DownloadPlaces
    <3>4. QED  BY <3>1, <3>2, <3>3 DEF Downloads!Next, downloadsVars, Downloads!Cancels
  <2>2. QED  BY <2>1, DeadStays
<1>2. CASE UNCHANGED early
  BY <1>1, <1>2 DEF DownloadEarly
<1>3. ASSUME NEW d \in Download, Downloads!Cancels(d) PROVE DownloadEarly'
  <2>1. flag' = [flag EXCEPT ![d] = TRUE] /\ UNCHANGED downloads_pc
    BY <1>3 DEF Downloads!Cancels
  <2>2. early' = early \/ (/\ early' = early \cup {d}
                           /\ downloads_pc[d] \in
                                  {"permit", "request", "file", "stream", "write"})
    BY <1>3 DEF Downloads!Cancels
  <2>3. downloads_pc[d] \in {"permit", "request", "file", "stream", "write"} =>
           DownloadDead(d)' /\ downloads_pc'[d] # "none"
    BY <2>1 DEF DownloadDead, DownloadFlags, DownloadLate
  <2>4. QED  BY <1>1, <2>2, <2>3 DEF DownloadEarly
<1>4. QED
  BY <1>2, <1>3 DEF downloadsVars, Downloads!Next, Downloads!Starts, Downloads!Step,
       Downloads!GetsPermit, Downloads!Redirected, Downloads!Responds, Downloads!CreatesFile,
       Downloads!Streams, Downloads!Writes, Downloads!Flushes, Downloads!Removes,
       Downloads!Completes, Downloads!Installs, Downloads!Fails, Downloads!Reports,
       Downloads!FailsTask, Downloads!RemovesPart, Downloads!EndsCanceled, Downloads!historyVars

\* A target is replaced by a whole part, at the end of its download.
LEMMA DownloadFileKept ==
    /\ DownloadTyped /\ DownloadFlags /\ DownloadBegun /\ DownloadEarly /\ DownloadFile
    /\ [Downloads!Next]_downloadsVars
    => DownloadFile'
<1> SUFFICES ASSUME DownloadTyped, DownloadFlags, DownloadBegun, DownloadEarly, DownloadFile,
                    [Downloads!Next]_downloadsVars
             PROVE DownloadFile'
  OBVIOUS
<1>1. unix' = unix
  BY DownloadFlagsKept
<1>2. CASE UNCHANGED downloadsVars
  BY <1>2 DEF downloadsVars, DownloadFile
<1>3. ASSUME NEW d \in Download, NEW t \in Target, Downloads!Starts(d, t) PROVE DownloadFile'
  <2>1. /\ UNCHANGED <<file, early, lost>> /\ downloads_pc[d] = "none"
        /\ downloads_pc' = [downloads_pc EXCEPT ![d] = "permit"]
    BY <1>3 DEF Downloads!Starts, Downloads!Goes, Downloads!historyVars
  <2>2. QED  BY <1>1, <2>1 DEF DownloadFile, DownloadTyped, DownloadEnded
<1>4. ASSUME NEW d \in Download, Downloads!Cancels(d) PROVE DownloadFile'
  <2>1. UNCHANGED <<file, lost, downloads_pc>> /\
           (UNCHANGED early \/ (early' = early \cup {d} /\ downloads_pc[d] \notin DownloadEnded))
    BY <1>4 DEF Downloads!Cancels, DownloadEnded
  <2>2. QED  BY <1>1, <2>1 DEF DownloadFile
<1>5. ASSUME NEW d \in Download, Downloads!Step(d) PROVE DownloadFile'
  <2>0. /\ downloads_pc[d] \notin {"none", "over"}
        /\ \A e \in Download \ {d} : downloads_pc'[e] = downloads_pc[e]
        /\ downloads_pc[d] \in DownloadEnded => downloads_pc'[d] \in DownloadEnded
    BY <1>5, DownloadPlaces
  <2>1. of[d] \in Target
    BY <2>0 DEF DownloadBegun, DownloadTyped
  <2>2. CASE \/ Downloads!GetsPermit(d) \/ Downloads!Redirected(d) \/ Downloads!Responds(d) \/
                    Downloads!CreatesFile(d)
             \/ Downloads!Streams(d) \/ Downloads!Writes(d) \/ Downloads!Flushes(d) \/
                    Downloads!Reports(d)
             \/ Downloads!FailsTask(d) \/ Downloads!Installs(d)
    <3>1. UNCHANGED <<file, early, lost>>
      BY <2>2 DEF Downloads!GetsPermit, Downloads!Redirected, Downloads!Responds,
           Downloads!CreatesFile, Downloads!Streams, Downloads!Writes, Downloads!Flushes,
           Downloads!Reports, Downloads!FailsTask, Downloads!Installs, Downloads!historyVars
    <3>2. QED  BY <1>1, <2>0, <3>1 DEF DownloadFile
  <2>3. CASE Downloads!Fails(d)
    <3>1. /\ UNCHANGED <<file, early>>
          /\ lost' = lost \/ (lost' = lost \cup {of[d]} /\ unix # TRUE)
      BY <2>3 DEF Downloads!Fails
    <3>2. QED  BY <1>1, <2>0, <2>1, <3>1 DEF DownloadFile
  <2>4. CASE Downloads!Removes(d)
    <3>1. UNCHANGED <<early, lost>> /\
             (file' = file \/ (file' = [file EXCEPT ![of[d]] = "absent"] /\ unix # TRUE))
      BY <2>4 DEF Downloads!Removes, Downloads!historyVars
    <3>2. QED  BY <1>1, <2>0, <2>1, <3>1, ShellAssumption DEF DownloadFile
  <2>5. CASE Downloads!Completes(d)
    <3>1. /\ UNCHANGED <<early, lost>> /\ file' = [file EXCEPT ![of[d]] = d] /\
             downloads_pc[d] = "rename"
          /\ \E p \in {"over", "install"} : downloads_pc' = [downloads_pc EXCEPT ![d] = p]
      BY <2>5 DEF Downloads!Completes, Downloads!Goes, Downloads!historyVars
    <3>2. d \notin early /\ d # "absent"
      BY <3>1, ShellAssumption DEF DownloadEarly, DownloadDead, DownloadLate, DownloadEnded
    <3>3. downloads_pc'[d] \in DownloadEnded
      BY <3>1 DEF DownloadTyped, DownloadEnded
    <3>4. QED  BY <1>1, <2>0, <2>1, <3>1, <3>2, <3>3 DEF DownloadFile
  <2>6. QED  BY <1>5, <2>2, <2>3, <2>4, <2>5 DEF Downloads!Step
<1>6. QED  BY <1>2, <1>3, <1>4, <1>5 DEF Downloads!Next

\* What is shown as failed was not cancelled before the last look at it.
LEMMA DownloadReportedKept ==
    /\ DownloadTyped /\ DownloadFlags /\ DownloadReported /\ [Downloads!Next]_downloadsVars
    => DownloadReported'
<1> SUFFICES ASSUME DownloadTyped, DownloadFlags, DownloadReported, [Downloads!Next]_downloadsVars
             PROVE DownloadReported'
  OBVIOUS
<1>1. CASE UNCHANGED downloadsVars
  BY <1>1 DEF downloadsVars, DownloadReported
<1>2. ASSUME NEW d \in Download, NEW t \in Target, Downloads!Starts(d, t)
      PROVE DownloadReported'
  <2>1. /\ UNCHANGED <<flag, late>> /\ downloads_pc' = [downloads_pc EXCEPT ![d] = "permit"]
        /\ status' = [status EXCEPT ![d] = "queued"]
    BY <1>2 DEF Downloads!Starts, Downloads!Goes, Downloads!historyVars
  <2>2. QED  BY <2>1 DEF DownloadReported, DownloadTyped
<1>3. ASSUME NEW d \in Download, Downloads!Cancels(d) PROVE DownloadReported'
  <2>1. /\ UNCHANGED downloads_pc /\ flag' = [flag EXCEPT ![d] = TRUE]
        /\ \E p \in {"canceled", "canceling"} : status' = [status EXCEPT ![d] = p]
        /\ late' = IF downloads_pc[d] = "fail" THEN late \cup {d} ELSE late
    BY <1>3 DEF Downloads!Cancels, Downloads!CanceledStatus
  <2>2. /\ late \subseteq late' /\ late' \subseteq Download
        /\ status'[d] # "failed" /\ (downloads_pc'[d] = "fail" => d \in late')
    BY <2>1 DEF DownloadReported, DownloadTyped
  <2>3. \A e \in Download \ {d} : status'[e] = status[e] /\ flag'[e] = flag[e]
    BY <2>1 DEF DownloadTyped, DownloadFlags
  <2>4. QED  BY <2>1, <2>2, <2>3 DEF DownloadReported
<1>4. ASSUME NEW d \in Download, Downloads!Step(d) PROVE DownloadReported'
  <2>1. CASE Downloads!Reports(d)
    <3>1. /\ UNCHANGED <<flag, late, status>>
          /\ \E p \in {"fail", "over"} : downloads_pc' = [downloads_pc EXCEPT ![d] = p]
          /\ flag[d] = TRUE => downloads_pc' = [downloads_pc EXCEPT ![d] = "over"]
      BY <2>1 DEF Downloads!Reports, Downloads!MayFail, Downloads!Goes, Downloads!historyVars
    <3>2. QED  BY <3>1 DEF DownloadReported, DownloadTyped
  <2>2. CASE Downloads!FailsTask(d)
    <3>1. /\ UNCHANGED <<flag, late>> /\ downloads_pc[d] = "fail"
          /\ downloads_pc' = [downloads_pc EXCEPT ![d] = "over"]
          /\ status' = [status EXCEPT ![d] = "failed"]
      BY <2>2 DEF Downloads!FailsTask, Downloads!Goes, Downloads!historyVars
    <3>2. QED  BY <3>1 DEF DownloadReported, DownloadTyped
  <2>3. CASE \/ Downloads!GetsPermit(d) \/ Downloads!Streams(d) \/ Downloads!Fails(d)
             \/ Downloads!Responds(d) \/ Downloads!Completes(d) \/ Downloads!Redirected(d)
    <3>1. /\ UNCHANGED <<flag, late>>
          /\ downloads_pc' = downloads_pc \/
               \E p \in {"over", "request", "write", "flush", "report", "file", "install"} :
                   downloads_pc' = [downloads_pc EXCEPT ![d] = p]
          /\ status' = status \/ \E p \in {"canceled", "running", "completed"} :
                   status' = [status EXCEPT ![d] = p]
      BY <2>3 DEF Downloads!GetsPermit, Downloads!Streams, Downloads!Fails, Downloads!Responds,
           Downloads!Completes, Downloads!Redirected, Downloads!EndsCanceled, Downloads!Goes,
           Downloads!historyVars
    <3>2. QED  BY <3>1 DEF DownloadReported, DownloadTyped
  <2>4. CASE \/ Downloads!CreatesFile(d) \/ Downloads!Writes(d) \/ Downloads!Flushes(d)
             \/ Downloads!Removes(d) \/ Downloads!Installs(d)
    <3>1. /\ UNCHANGED <<flag, late, status>>
          /\ \E p \in {"stream", "replace", "rename", "over", "report"} :
                   downloads_pc' = [downloads_pc EXCEPT ![d] = p]
      BY <2>4 DEF Downloads!CreatesFile, Downloads!Writes, Downloads!Flushes, Downloads!Removes,
           Downloads!Installs, Downloads!Goes, Downloads!historyVars
    <3>2. QED  BY <3>1 DEF DownloadReported, DownloadTyped
  <2>5. QED  BY <1>4, <2>1, <2>2, <2>3, <2>4 DEF Downloads!Step
<1>5. QED  BY <1>1, <1>2, <1>3, <1>4 DEF Downloads!Next

\* Without downloads the invariant holds.
LEMMA DownloadsStart == Downloads!Init => DownloadsInv
<1> SUFFICES ASSUME Downloads!Init PROVE DownloadsInv
  OBVIOUS
<1>1. DownloadFlags
  BY DEF Downloads!Init, DownloadFlags
<1>2. DownloadTyped /\ DownloadBegun /\ DownloadRedirects
  BY ShellAssumption DEF Downloads!Init, DownloadTyped, DownloadBegun, DownloadRedirects
<1>3. DownloadParts
  BY ShellAssumption DEF Downloads!Init, DownloadParts, DownloadEnded, Downloads!NoPart
<1>4. DownloadAlone /\ DownloadEarly /\ DownloadFile
  BY ShellAssumption DEF Downloads!Init, DownloadAlone, DownloadEarly, DownloadFile, DownloadLate
<1>5. DownloadReported
  BY DEF Downloads!Init, DownloadReported
<1>6. QED  BY <1>1, <1>2, <1>3, <1>4, <1>5 DEF DownloadsInv

\* Every step keeps the invariant.
LEMMA DownloadsKept == DownloadsInv /\ [Downloads!Next]_downloadsVars => DownloadsInv'
BY DownloadTypedKept, DownloadFlagsKept, DownloadBegunKept, DownloadRedirectsKept,
     DownloadPartsKept, DownloadAloneKept, DownloadEarlyKept, DownloadFileKept,
     DownloadReportedKept
DEF DownloadsInv

\* The invariant gives the types and TargetsAreWhole.
LEMMA DownloadsAreSound == DownloadsInv => Downloads!TypeOK /\ Downloads!TargetsAreWhole
<1> SUFFICES ASSUME DownloadsInv PROVE Downloads!TypeOK /\ Downloads!TargetsAreWhole
  OBVIOUS
<1>1. unix \in BOOLEAN /\ flag \in [Download -> BOOLEAN]
  BY DEF DownloadsInv, DownloadFlags
<1>2. Downloads!TypeOK
  BY <1>1 DEF DownloadsInv, DownloadTyped, DownloadRedirects, DownloadParts, DownloadEarly,
       DownloadFile, DownloadReported, Downloads!TypeOK, Downloads!NoPart, Downloads!Terminal
<1>3. \A d, e \in Download : d # e /\ of[d] = of[e] =>
         ~({downloads_pc[d], downloads_pc[e]} \subseteq {"flush", "replace", "rename"})
  <2> SUFFICES ASSUME NEW d \in Download, NEW e \in Download, d # e, of[d] = of[e],
                      downloads_pc[d] \in DownloadLate, downloads_pc[e] \in DownloadLate
               PROVE FALSE
    BY DEF DownloadLate
  <2>1. of[d] # "none"
    BY DEF DownloadsInv, DownloadBegun, DownloadLate
  <2>2. DownloadDead(d) \/ DownloadDead(e)
    BY <2>1 DEF DownloadsInv, DownloadAlone
  <2>3. QED  BY <2>2 DEF DownloadDead, DownloadLate, DownloadEnded
<1>4. \A d \in Download : downloads_pc[d] \in {"install", "report", "fail", "over"} =>
         downloads_part[d] = Downloads!NoPart \/ d \in litter
  BY DEF DownloadsInv, DownloadParts, DownloadEnded, Downloads!NoPart
<1>5. \A t \in Target : file[t] \notin early
  BY ShellAssumption DEF DownloadsInv, DownloadFile, DownloadEarly
<1>6. unix => lost = {} /\ \A t \in Target : file[t] # "absent"
  <2>1. unix => unix = TRUE
    BY <1>1
  <2>2. QED  BY <2>1 DEF DownloadsInv, DownloadFile
<1>7. unix => lost = {}
  BY <1>6
<1>8. unix => \A t \in Target : file[t] # "absent"
  BY <1>6
<1>9. \A d \in Download : status[d] = "failed" /\ flag[d] => d \in late
  <2> SUFFICES ASSUME NEW d \in Download, status[d] = "failed", flag[d] PROVE d \in late
    OBVIOUS
  <2>1. flag[d] = TRUE
    BY <1>1
  <2>2. QED  BY <2>1 DEF DownloadsInv, DownloadReported
<1>10. Downloads!TargetsAreWhole
  BY <1>3, <1>4, <1>5, <1>7, <1>8, <1>9, Zenon DEF Downloads!TargetsAreWhole
<1>11. QED  BY <1>2, <1>10

-----------------------------------------------------------------------------
(* The installation of plugins                                             *)

\* The installation uses the shared directory of copies.
PluginUses(i) == plugins_pc[i] \in {"copy", "aside", "rename"}

\* The archives, and what is still to be unpacked or copied.
PluginEntries ==
    /\ archive \in [Install -> SUBSET (File \X Plugins!Kinds)]
    /\ left \in [Install -> SUBSET (File \X Plugins!Kinds)]

\* The places, what was unpacked, and the trees.
PluginTyped ==
    /\ unpacked \in [Install -> SUBSET File]
    /\ plugins_pc \in [Install -> {"none", "unpack", "clear", "copy", "aside", "rename",
           "settle", "ok", "error"}]
    /\ backup \in [Install -> Plugins!Tree]
    /\ copy \in (SUBSET Plugins!Piece) \cup {Plugins!None} /\ plugins_target \in Plugins!Tree
    /\ dirty \subseteq Install /\ stranded \subseteq Install

\* Nothing is written outside; whether installations overlapped, and a version was there.
PluginFlags == outside = FALSE /\ overlapped \in BOOLEAN /\ plugins_held \in BOOLEAN

\* An archive is unpacked as a whole before it is copied, and no more is copied.
PluginUnpacked ==
    \A i \in Install :
      /\ plugins_pc[i] \in {"none", "unpack"} =>
           /\ left[i] \subseteq archive[i]
           /\ \A f \in unpacked[i] : <<f, "file">> \in archive[i]
           /\ \A f \in File : <<f, "file">> \in archive[i] =>
                  f \in unpacked[i] \/ <<f, "file">> \in left[i]
      /\ plugins_pc[i] \in {"clear", "copy", "aside", "rename"} =>
           unpacked[i] = Plugins!Files(i) /\ unpacked[i] # {}
      /\ plugins_pc[i] = "copy" =>
           \A f \in File : <<f, "file">> \in left[i] => f \in unpacked[i]

\* The shared directory holds what the installation has copied, and nothing else unless it
\* could not be emptied.
PluginHolds(i) ==
    /\ copy # Plugins!None
    /\ \A f \in Plugins!Files(i) : <<i, f>> \in copy \/ <<f, "file">> \in left[i]
    /\ copy \subseteq Plugins!Whole(i) \/ i \in dirty
    /\ plugins_pc[i] \in {"aside", "rename"} => left[i] = {}

\* Without overlap one installation uses the shared directory, which holds what it copied.
PluginCopied ==
    overlapped = FALSE =>
      \A i \in Install : PluginUses(i) =>
        PluginHolds(i) /\ \A j \in Install : PluginUses(j) => j = i

\* A version is set aside until the rename is settled, or by one that could not put it back.
PluginAside ==
    \A i \in Install :
      /\ backup[i] # Plugins!None =>
           plugins_pc[i] \in {"rename", "settle", "ok"} \/ i \in stranded
      /\ i \in stranded => plugins_pc[i] = "error"

\* The installation has a version aside that it may still put back, or could not.
PluginKeeps(i) ==
    /\ backup[i] # Plugins!None /\ Plugins!Version(backup[i])
    /\ plugins_pc[i] = "rename" \/ i \in stranded

\* Without overlap the target holds a version, or one of those that set it aside has it.
PluginTarget ==
    overlapped = FALSE =>
      /\ plugins_target = Plugins!None \/ Plugins!Version(plugins_target)
      /\ \A i \in Install :
           /\ backup[i] = Plugins!None \/ Plugins!Version(backup[i])
           /\ plugins_pc[i] = "rename" => plugins_target = Plugins!None
      /\ plugins_held = TRUE /\ plugins_target = Plugins!None =>
           \E i \in Install : PluginKeeps(i)

\* The inductive invariant of the installation of plugins.
PluginsInv ==
    /\ PluginEntries /\ PluginTyped /\ PluginFlags /\ PluginUnpacked /\ PluginCopied
    /\ PluginAside /\ PluginTarget

\* No step writes outside, and an overlap is not forgotten.
LEMMA PluginFlagsKept ==
    PluginFlags /\ [Plugins!Next]_pluginsVars =>
        PluginFlags' /\ (overlapped' = FALSE => overlapped = FALSE)
<1> SUFFICES ASSUME PluginFlags, [Plugins!Next]_pluginsVars
             PROVE PluginFlags' /\ (overlapped' = FALSE => overlapped = FALSE)
  OBVIOUS
<1> USE DEF Plugins!historyVars
<1>1. outside' = FALSE
  BY DEF PluginFlags, pluginsVars, Plugins!Next, Plugins!Step, Plugins!Starts, Plugins!Unpacked,
       Plugins!Refuses, Plugins!Clears, Plugins!CopyFails, Plugins!Copied, Plugins!SetsAside,
       Plugins!Renames, Plugins!Settles, Plugins!Copies, Plugins!Unpacks, Plugins!MayJoin
<1>2. UNCHANGED overlapped \/ \E i \in Install : overlapped' = (overlapped \/ Plugins!Sharing(i))
  BY DEF pluginsVars, Plugins!Next, Plugins!Step, Plugins!Starts, Plugins!Unpacked,
       Plugins!Refuses, Plugins!Clears, Plugins!CopyFails, Plugins!Copied, Plugins!SetsAside,
       Plugins!Renames, Plugins!Settles, Plugins!Copies, Plugins!Unpacks
<1>3. overlapped' \in BOOLEAN /\ (overlapped' = FALSE => overlapped = FALSE)
  BY <1>2 DEF PluginFlags
<1>4. plugins_held' \in BOOLEAN
  <2>1. UNCHANGED plugins_held \/ plugins_held' = TRUE
    BY DEF pluginsVars, Plugins!Next, Plugins!Step, Plugins!Starts, Plugins!Unpacked,
         Plugins!Refuses, Plugins!Clears, Plugins!CopyFails, Plugins!Copied, Plugins!SetsAside,
         Plugins!Renames, Plugins!Settles, Plugins!Copies, Plugins!Unpacks
  <2>2. QED  BY <2>1 DEF PluginFlags
<1>5. QED  BY <1>1, <1>3, <1>4 DEF PluginFlags

\* The archives stay, and only entries of them, or of what was unpacked, are left.
LEMMA PluginEntriesKept ==
    PluginTyped /\ PluginEntries /\ [Plugins!Next]_pluginsVars =>
        PluginEntries' /\ UNCHANGED archive
<1> SUFFICES ASSUME PluginTyped, PluginEntries, [Plugins!Next]_pluginsVars
             PROVE PluginEntries' /\ UNCHANGED archive
  OBVIOUS
<1>1. UNCHANGED archive
  BY DEF pluginsVars, Plugins!Next, Plugins!Step, Plugins!Starts, Plugins!Unpacked,
       Plugins!Refuses, Plugins!Clears, Plugins!CopyFails, Plugins!Copied, Plugins!SetsAside,
       Plugins!Renames, Plugins!Settles, Plugins!Copies, Plugins!Unpacks
<1>2. \/ UNCHANGED left
      \/ \E i \in Install, e \in File \X Plugins!Kinds : left' = [left EXCEPT ![i] = @ \ {e}]
      \/ \E i \in Install : left' = [left EXCEPT ![i] = {<<f, "file">> : f \in unpacked[i]}]
  <2>1. ASSUME NEW i \in Install, NEW f \in File, Plugins!Copies(i, f)
        PROVE \E e \in File \X Plugins!Kinds : left' = [left EXCEPT ![i] = @ \ {e}]
    <3>1. <<f, "file">> \in File \X Plugins!Kinds
      BY DEF Plugins!Kinds
    <3>2. QED  BY <2>1, <3>1 DEF Plugins!Copies
  <2>2. QED
    BY <2>1 DEF pluginsVars, Plugins!Next, Plugins!Step, Plugins!Starts, Plugins!Unpacked,
         Plugins!Refuses, Plugins!Clears, Plugins!CopyFails, Plugins!Copied, Plugins!SetsAside,
         Plugins!Renames, Plugins!Settles, Plugins!Unpacks
<1>3. \A i \in Install : {<<f, "file">> : f \in unpacked[i]} \subseteq File \X Plugins!Kinds
  BY DEF PluginTyped, Plugins!Kinds
<1>4. left' \in [Install -> SUBSET (File \X Plugins!Kinds)]
  BY <1>2, <1>3 DEF PluginEntries
<1>5. QED  BY <1>1, <1>4 DEF PluginEntries

\* A set of pieces is a tree.
LEMMA TreesOfCopies ==
    {Plugins!None, Plugins!Older} \subseteq Plugins!Tree /\
        SUBSET Plugins!Piece \subseteq Plugins!Tree
BY DEF Plugins!Tree

\* What is made of the remains of the shared directory is a set of pieces, and so is what is
\* copied over it.
LEMMA PluginMade ==
    ASSUME PluginTyped
    PROVE  /\ Plugins!Made(copy) \subseteq Plugins!Piece
           /\ \A d \in Plugins!Remains(copy) :
                /\ d \in (SUBSET Plugins!Piece) \cup {Plugins!None}
                /\ Plugins!Made(d) \subseteq Plugins!Piece
BY DEF PluginTyped, Plugins!Made, Plugins!Remains

\* No set of pieces is taken for no directory.
LEMMA PiecesAreSome == \A s \in SUBSET Plugins!Piece : s # Plugins!None
<1> SUFFICES ASSUME NEW s \in SUBSET Plugins!Piece, s = Plugins!None PROVE FALSE
  OBVIOUS
<1>1. <<"none", "none">> \in s
  BY DEF Plugins!None
<1>2. PICK i \in Install, f \in File : <<"none", "none">> = <<i, f>>
  BY <1>1 DEF Plugins!Piece
<1>3. <<"none", "none">>[2] = <<i, f>>[2]
  BY <1>2
<1>4. f = "none"
  BY <1>3
<1>5. QED  BY <1>4, ShellAssumption

\* Every step keeps the types.
LEMMA PluginTypedKept == PluginTyped /\ [Plugins!Next]_pluginsVars => PluginTyped'
<1> SUFFICES ASSUME PluginTyped, [Plugins!Next]_pluginsVars PROVE PluginTyped'
  OBVIOUS
<1> USE TreesOfCopies DEF PluginTyped, Plugins!historyVars
<1>1. CASE UNCHANGED pluginsVars
  BY <1>1 DEF pluginsVars
<1>2. ASSUME NEW i \in Install, Plugins!Starts(i) \/ Plugins!Step(i) PROVE PluginTyped'
  <2>1. CASE \/ Plugins!Starts(i) \/ Plugins!Unpacked(i) \/ Plugins!CopyFails(i)
             \/ Plugins!Copied(i)
    BY <2>1 DEF Plugins!Starts, Plugins!Unpacked, Plugins!CopyFails, Plugins!Copied, Plugins!Goes
  <2>2. CASE Plugins!Refuses(i)
    BY <2>2 DEF Plugins!Refuses, Plugins!LeavesStaging, Plugins!Goes
  <2>3. CASE Plugins!Clears(i)
    <3>1. copy' \subseteq Plugins!Piece
      BY <2>3, PluginMade DEF Plugins!Clears
    <3>2. QED  BY <2>3, <3>1 DEF Plugins!Clears, Plugins!Goes
  <2>4. CASE Plugins!SetsAside(i)
    BY <2>4 DEF Plugins!SetsAside, Plugins!Goes
  <2>5. CASE Plugins!Renames(i)
    <3>1. copy' \in (SUBSET Plugins!Piece) \cup {Plugins!None}
      BY <2>5, PluginMade DEF Plugins!Renames
    <3>2. plugins_target' \in Plugins!Tree /\ backup' \in [Install -> Plugins!Tree]
      BY <2>5 DEF Plugins!Renames, Plugins!PutsBack
    <3>3. QED  BY <2>5, <3>1, <3>2 DEF Plugins!Renames, Plugins!PutsBack, Plugins!Goes
  <2>6. CASE Plugins!Settles(i)
    BY <2>6 DEF Plugins!Settles, Plugins!LeavesStaging, Plugins!Goes
  <2>7. ASSUME NEW f \in File, Plugins!Copies(i, f) PROVE PluginTyped'
    <3>1. <<i, f>> \in Plugins!Piece
      BY DEF Plugins!Piece
    <3>2. copy' \subseteq Plugins!Piece
      BY <2>7, <3>1, PluginMade DEF Plugins!Copies
    <3>3. QED  BY <2>7, <3>2 DEF Plugins!Copies
  <2>8. ASSUME NEW e \in File \X Plugins!Kinds, Plugins!Unpacks(i, e) PROVE PluginTyped'
    <3>1. e[1] \in File
      OBVIOUS
    <3>2. UNCHANGED <<copy, plugins_target, backup, dirty, stranded>>
      BY <2>8 DEF Plugins!Unpacks
    <3>3. \/ plugins_pc' = plugins_pc /\
             \E u \in {unpacked[i], unpacked[i] \cup {e[1]}} :
                 unpacked' = [unpacked EXCEPT ![i] = u]
          \/ plugins_pc' = [plugins_pc EXCEPT ![i] = "error"] /\
             \E u \in SUBSET unpacked[i] : unpacked' = [unpacked EXCEPT ![i] = u]
      BY <2>8 DEF Plugins!Unpacks, Plugins!LeavesStaging, Plugins!Goes
    <3>4. unpacked' \in [Install -> SUBSET File] /\ plugins_pc' \in
            [Install -> {"none", "unpack", "clear", "copy", "aside", "rename", "settle", "ok",
                "error"}]
      BY <3>1, <3>3
    <3>5. QED  BY <3>2, <3>4
  <2>9. QED
    BY <1>2, <2>1, <2>2, <2>3, <2>4, <2>5, <2>6, <2>7, <2>8 DEF Plugins!Step
<1>3. QED  BY <1>1, <1>2 DEF Plugins!Next

\* What is copied was unpacked whole.
LEMMA PluginUnpackedKept ==
    PluginEntries /\ PluginTyped /\ PluginUnpacked /\ [Plugins!Next]_pluginsVars =>
        PluginUnpacked'
<1> SUFFICES ASSUME PluginEntries, PluginTyped, PluginUnpacked, [Plugins!Next]_pluginsVars
             PROVE PluginUnpacked'
  OBVIOUS
<1> USE DEF Plugins!historyVars
<1>0. UNCHANGED archive
  BY PluginEntriesKept
<1>1. CASE UNCHANGED pluginsVars
  BY <1>1 DEF pluginsVars, PluginUnpacked, Plugins!Files
<1>2. ASSUME NEW i \in Install, Plugins!Starts(i) \/ Plugins!Step(i) PROVE PluginUnpacked'
  <2>1. CASE Plugins!Starts(i)
    BY <1>0, <2>1 DEF PluginTyped, PluginUnpacked, Plugins!Starts, Plugins!Goes, Plugins!Files
  <2>2. CASE Plugins!Unpacked(i)
    <3>1. /\ plugins_pc[i] = "unpack" /\ left[i] = {} /\ unpacked[i] # {}
          /\ plugins_pc' = [plugins_pc EXCEPT ![i] = "clear"]
          /\ UNCHANGED <<left, unpacked>>
      BY <2>2 DEF Plugins!Unpacked, Plugins!Goes
    <3>2. unpacked[i] = Plugins!Files(i)
      BY <3>1 DEF PluginUnpacked, PluginTyped, Plugins!Files
    <3>3. QED  BY <1>0, <3>1, <3>2 DEF PluginTyped, PluginUnpacked, Plugins!Files
  <2>3. CASE \/ Plugins!CopyFails(i) \/ Plugins!Copied(i) \/ Plugins!SetsAside(i)
             \/ Plugins!Renames(i)
    <3>1. /\ UNCHANGED <<left, unpacked>> /\ plugins_pc[i] \in {"copy", "aside", "rename"}
          /\ \E p \in {"aside", "rename", "settle", "error"} :
                 plugins_pc' = [plugins_pc EXCEPT ![i] = p]
      BY <2>3 DEF Plugins!CopyFails, Plugins!Copied, Plugins!SetsAside, Plugins!Renames,
           Plugins!Goes
    <3>2. QED  BY <1>0, <3>1 DEF PluginTyped, PluginUnpacked, Plugins!Files
  <2>4. CASE Plugins!Refuses(i) \/ Plugins!Settles(i)
    <3>1. /\ UNCHANGED left /\ (\E u \in SUBSET File : unpacked' = [unpacked EXCEPT ![i] = u])
          /\ \E p \in {"ok", "error"} : plugins_pc' = [plugins_pc EXCEPT ![i] = p]
      BY <2>4 DEF PluginTyped, Plugins!Refuses, Plugins!Settles, Plugins!LeavesStaging,
           Plugins!Goes
    <3>2. \A j \in Install \ {i} :
             unpacked'[j] = unpacked[j] /\ plugins_pc'[j] = plugins_pc[j] /\ left'[j] = left[j]
      BY <3>1 DEF PluginTyped
    <3>3. plugins_pc'[i] \in {"ok", "error"}
      BY <3>1 DEF PluginTyped
    <3>4. QED  BY <1>0, <3>2, <3>3 DEF PluginUnpacked, Plugins!Files
  <2>5. CASE Plugins!Clears(i)
    <3>1. /\ plugins_pc[i] = "clear" /\ plugins_pc' = [plugins_pc EXCEPT ![i] = "copy"]
          /\ UNCHANGED unpacked
          /\ left' = [left EXCEPT ![i] = {<<f, "file">> : f \in unpacked[i]}]
      BY <2>5 DEF Plugins!Clears, Plugins!Goes
    <3>2. \A f \in File : <<f, "file">> \in left'[i] => f \in unpacked[i]
      BY <3>1 DEF PluginEntries
    <3>3. \A j \in Install \ {i} : plugins_pc'[j] = plugins_pc[j] /\ left'[j] = left[j]
      BY <3>1 DEF PluginTyped, PluginEntries
    <3>4. plugins_pc'[i] = "copy"
      BY <3>1 DEF PluginTyped
    <3>5. QED  BY <1>0, <3>1, <3>2, <3>3, <3>4 DEF PluginUnpacked, Plugins!Files
  <2>6. ASSUME NEW f \in File, Plugins!Copies(i, f) PROVE PluginUnpacked'
    <3>1. /\ plugins_pc[i] = "copy" /\ UNCHANGED <<plugins_pc, unpacked>>
          /\ left' = [left EXCEPT ![i] = @ \ {<<f, "file">>}]
      BY <2>6 DEF Plugins!Copies
    <3>2. \A j \in Install : left'[j] \subseteq left[j] /\ (j # i => left'[j] = left[j])
      BY <3>1 DEF PluginEntries
    <3>3. QED  BY <1>0, <3>1, <3>2 DEF PluginUnpacked, Plugins!Files
  <2>7. ASSUME NEW e \in File \X Plugins!Kinds, Plugins!Unpacks(i, e) PROVE PluginUnpacked'
    <3>1. /\ plugins_pc[i] = "unpack" /\ e \in left[i]
          /\ left' = [left EXCEPT ![i] = @ \ {e}]
      BY <2>7 DEF Plugins!Unpacks
    <3>2. CASE /\ plugins_pc' = plugins_pc
               /\ unpacked' = [unpacked EXCEPT ![i] =
                                   IF e[2] = "file" THEN @ \cup {e[1]} ELSE @]
      <4>1. \A j \in Install \ {i} : unpacked'[j] = unpacked[j] /\ left'[j] = left[j]
        BY <3>1, <3>2 DEF PluginTyped, PluginEntries
      <4>2. left'[i] = left[i] \ {e}
        BY <3>1 DEF PluginEntries
      <4>3. unpacked'[i] = IF e[2] = "file" THEN unpacked[i] \cup {e[1]} ELSE unpacked[i]
        BY <3>2 DEF PluginTyped
      <4>4. e = <<e[1], e[2]>> /\ e \in archive[i]
        BY <3>1 DEF PluginUnpacked
      <4>5. /\ left'[i] \subseteq archive[i]
            /\ \A f \in unpacked'[i] : <<f, "file">> \in archive[i]
            /\ \A f \in File : <<f, "file">> \in archive[i] =>
                   f \in unpacked'[i] \/ <<f, "file">> \in left'[i]
        <5>1. CASE e[2] = "file"
          BY <3>1, <4>2, <4>3, <4>4, <5>1 DEF PluginUnpacked
        <5>2. CASE e[2] # "file"
          <6>1. \A f \in File : e # <<f, "file">>
            BY <5>2
          <6>2. QED  BY <3>1, <4>2, <4>3, <5>2, <6>1 DEF PluginUnpacked
        <5>3. QED  BY <5>1, <5>2
      <4>6. QED  BY <1>0, <3>1, <3>2, <4>1, <4>5 DEF PluginUnpacked, Plugins!Files
    <3>3. CASE /\ plugins_pc' = [plugins_pc EXCEPT ![i] = "error"]
               /\ \E u \in SUBSET unpacked[i] : unpacked' = [unpacked EXCEPT ![i] = u]
      <4>1. \A j \in Install \ {i} :
               unpacked'[j] = unpacked[j] /\ plugins_pc'[j] = plugins_pc[j] /\ left'[j] = left[j]
        BY <3>1, <3>3 DEF PluginTyped, PluginEntries
      <4>2. plugins_pc'[i] = "error"
        BY <3>3 DEF PluginTyped
      <4>3. QED  BY <1>0, <4>1, <4>2 DEF PluginUnpacked, Plugins!Files
    <3>4. QED  BY <2>7, <3>2, <3>3 DEF Plugins!Unpacks, Plugins!LeavesStaging, Plugins!Goes
  <2>8. QED
    BY <1>2, <2>1, <2>2, <2>3, <2>4, <2>5, <2>6, <2>7 DEF Plugins!Step
<1>3. QED  BY <1>1, <1>2 DEF Plugins!Next

\* What is set aside is settled, put back, or stranded.
LEMMA PluginAsideKept == PluginTyped /\ PluginAside /\ [Plugins!Next]_pluginsVars => PluginAside'
<1> SUFFICES ASSUME PluginTyped, PluginAside, [Plugins!Next]_pluginsVars PROVE PluginAside'
  OBVIOUS
<1> USE DEF Plugins!historyVars
<1>1. CASE UNCHANGED pluginsVars
  BY <1>1 DEF pluginsVars, PluginAside
<1>2. ASSUME NEW i \in Install, Plugins!Starts(i) \/ Plugins!Step(i) PROVE PluginAside'
  <2>1. CASE \/ Plugins!Starts(i) \/ Plugins!Unpacked(i) \/ Plugins!Clears(i)
             \/ Plugins!CopyFails(i) \/ Plugins!Copied(i) \/ Plugins!Refuses(i)
             \/ (\E f \in File : Plugins!Copies(i, f))
             \/ (\E e \in File \X Plugins!Kinds : Plugins!Unpacks(i, e))
    <3>1. /\ UNCHANGED <<backup, stranded>>
          /\ plugins_pc[i] \notin {"rename", "settle", "ok", "error"}
          /\ \/ plugins_pc' = plugins_pc
             \/ \E p \in {"unpack", "clear", "copy", "aside", "error"} :
                    plugins_pc' = [plugins_pc EXCEPT ![i] = p]
      BY <2>1 DEF Plugins!Starts, Plugins!Unpacked, Plugins!Clears, Plugins!Refuses,
           Plugins!CopyFails, Plugins!Copied, Plugins!Copies, Plugins!Unpacks, Plugins!Goes
    <3>2. QED  BY <3>1 DEF PluginTyped, PluginAside
  <2>2. CASE Plugins!SetsAside(i)
    <3>1. /\ UNCHANGED stranded /\ plugins_pc[i] = "aside"
          /\ \/ UNCHANGED backup /\ \E p \in {"rename", "error"} :
                                        plugins_pc' = [plugins_pc EXCEPT ![i] = p]
             \/ /\ backup' = [backup EXCEPT ![i] = plugins_target]
                /\ plugins_pc' = [plugins_pc EXCEPT ![i] = "rename"]
      BY <2>2 DEF Plugins!SetsAside, Plugins!Goes
    <3>2. backup[i] = Plugins!None /\ i \notin stranded
      BY <3>1 DEF PluginAside
    <3>3. QED  BY <3>1, <3>2 DEF PluginTyped, PluginAside
  <2>3. CASE Plugins!Renames(i)
    <3>1. /\ plugins_pc[i] = "rename"
          /\ \/ UNCHANGED <<backup, stranded>> /\
                plugins_pc' = [plugins_pc EXCEPT ![i] = "settle"]
             \/ Plugins!PutsBack(i) /\ plugins_pc' = [plugins_pc EXCEPT ![i] = "error"]
      BY <2>3 DEF Plugins!Renames, Plugins!Goes
    <3>2. QED  BY <3>1 DEF PluginTyped, PluginAside, Plugins!PutsBack
  <2>4. CASE Plugins!Settles(i)
    <3>1. /\ UNCHANGED stranded /\ plugins_pc[i] = "settle"
          /\ plugins_pc' = [plugins_pc EXCEPT ![i] = "ok"]
          /\ backup' \in {backup, [backup EXCEPT ![i] = Plugins!None]}
      BY <2>4 DEF Plugins!Settles, Plugins!Goes
    <3>2. QED  BY <3>1 DEF PluginTyped, PluginAside
  <2>5. QED
    BY <1>2, <2>1, <2>2, <2>3, <2>4 DEF Plugins!Step
<1>3. QED  BY <1>1, <1>2 DEF Plugins!Next

\* Without overlap nobody mixes copies.
LEMMA PluginCopiedKept ==
    /\ PluginFlags /\ PluginEntries /\ PluginTyped /\ PluginUnpacked /\ PluginCopied
    /\ [Plugins!Next]_pluginsVars
    => PluginCopied'
<1> SUFFICES ASSUME PluginFlags, PluginEntries, PluginTyped, PluginUnpacked, PluginCopied,
                    [Plugins!Next]_pluginsVars, overlapped' = FALSE
             PROVE PluginCopied'
  BY DEF PluginCopied
<1> USE DEF Plugins!historyVars
<1>0. overlapped = FALSE /\ PluginTyped'
  BY PluginFlagsKept, PluginTypedKept
<1>a. UNCHANGED archive /\ \A j \in Install : Plugins!Files(j)' = Plugins!Files(j)
  BY PluginEntriesKept DEF Plugins!Files
<1>b. \A j \in Install : Plugins!Whole(j)' = Plugins!Whole(j)
  BY <1>a DEF Plugins!Whole
<1>1. CASE UNCHANGED pluginsVars
  BY <1>1, <1>a, <1>b DEF pluginsVars, PluginCopied, PluginHolds, PluginUses
<1>2. ASSUME NEW i \in Install, Plugins!Starts(i) \/ Plugins!Step(i) PROVE PluginCopied'
  <2>1. CASE \/ Plugins!Starts(i) \/ Plugins!Unpacked(i) \/ Plugins!CopyFails(i)
             \/ Plugins!Settles(i) \/ Plugins!Refuses(i)
             \/ (\E e \in File \X Plugins!Kinds : Plugins!Unpacks(i, e))
    <3>1. /\ UNCHANGED <<copy, dirty>>
          /\ \A j \in Install : PluginUses(j)' => j # i /\ left'[j] = left[j]
          /\ \A j \in Install : plugins_pc'[j] # plugins_pc[j] =>
                 j = i /\ ~PluginUses(j)'
      <4>1. /\ UNCHANGED <<copy, dirty>>
            /\ \/ plugins_pc' = plugins_pc /\ plugins_pc[i] = "unpack"
               \/ \E p \in {"unpack", "clear", "ok", "error"} :
                      plugins_pc' = [plugins_pc EXCEPT ![i] = p]
            /\ UNCHANGED left \/ \E e \in File \X Plugins!Kinds :
                                      left' = [left EXCEPT ![i] = @ \ {e}]
        BY <2>1 DEF Plugins!Starts, Plugins!Unpacked, Plugins!CopyFails, Plugins!Settles,
             Plugins!Refuses, Plugins!Unpacks, Plugins!Goes
      <4>2. \A j \in Install \ {i} : left'[j] = left[j] /\ plugins_pc'[j] = plugins_pc[j]
        BY <4>1 DEF PluginTyped, PluginEntries
      <4>3. ~PluginUses(i)'
        BY <4>1 DEF PluginTyped, PluginUses
      <4>4. QED  BY <4>1, <4>2, <4>3
    <3>2. QED  BY <1>0, <1>a, <1>b, <3>1 DEF PluginCopied, PluginHolds, PluginUses
  <2>2. CASE Plugins!Clears(i)
    <3>1. \A j \in Install : PluginUses(j) => j = i
      <4>1. overlapped' = (overlapped \/ Plugins!Sharing(i))
        BY <2>2 DEF Plugins!Clears
      <4>2. ~Plugins!Sharing(i)
        BY <4>1
      <4>3. QED  BY <4>2 DEF Plugins!Sharing, PluginUses
    <3>2. /\ copy' \subseteq Plugins!Piece /\ plugins_pc[i] = "clear"
          /\ plugins_pc' = [plugins_pc EXCEPT ![i] = "copy"]
          /\ left' = [left EXCEPT ![i] = {<<f, "file">> : f \in unpacked[i]}]
          /\ dirty' = IF copy' = {} THEN dirty ELSE dirty \cup {i}
      BY <2>2, PluginMade DEF Plugins!Clears, Plugins!Goes
    <3>3. copy' # Plugins!None /\ (copy' \subseteq Plugins!Whole(i) \/ i \in dirty')
      BY <3>2, PiecesAreSome
    <3>4. \A f \in Plugins!Files(i) : <<f, "file">> \in left'[i]
      BY <3>2 DEF PluginEntries, PluginUnpacked
    <3>5. plugins_pc'[i] = "copy" /\ \A j \in Install : PluginUses(j)' => j = i
      BY <3>1, <3>2 DEF PluginTyped, PluginUses
    <3>6. QED  BY <1>a, <1>b, <3>3, <3>4, <3>5 DEF PluginCopied, PluginHolds
  <2>3. ASSUME NEW f \in File, Plugins!Copies(i, f) PROVE PluginCopied'
    <3>1. /\ plugins_pc[i] = "copy" /\ <<f, "file">> \in left[i]
          /\ UNCHANGED <<plugins_pc, dirty, unpacked>>
          /\ left' = [left EXCEPT ![i] = @ \ {<<f, "file">>}]
          /\ copy' = {p \in Plugins!Made(copy) : p[2] # f} \cup {<<i, f>>}
      BY <2>3 DEF Plugins!Copies
    <3>2. PluginHolds(i) /\ \A j \in Install : PluginUses(j) => j = i
      BY <1>0, <3>1 DEF PluginCopied, PluginUses
    <3>3. Plugins!Made(copy) = copy
      BY <3>2 DEF PluginHolds, Plugins!Made
    <3>4. f \in Plugins!Files(i) /\ <<i, f>> \in Plugins!Whole(i)
      BY <3>1 DEF PluginUnpacked, Plugins!Whole
    <3>5. copy' # Plugins!None
      <4>1. <<i, f>> \in Plugins!Piece /\ <<i, f>> \in copy'
        BY <3>1 DEF Plugins!Piece
      <4>2. {<<i, f>>} # Plugins!None
        BY <4>1, PiecesAreSome
      <4>3. QED  BY <4>1, <4>2 DEF Plugins!None
    <3>6. \A g \in Plugins!Files(i) : <<i, g>> \in copy' \/ <<g, "file">> \in left'[i]
      <4> SUFFICES ASSUME NEW g \in Plugins!Files(i)
                   PROVE <<i, g>> \in copy' \/ <<g, "file">> \in left'[i]
        OBVIOUS
      <4>1. CASE g = f
        BY <3>1, <4>1
      <4>2. CASE g # f
        <5>1. <<g, "file">> # <<f, "file">> /\ <<i, g>>[2] # f
          BY <4>2
        <5>2. left'[i] = left[i] \ {<<f, "file">>}
          BY <3>1 DEF PluginEntries
        <5>3. <<i, g>> \in copy \/ <<g, "file">> \in left[i]
          BY <3>2 DEF PluginHolds
        <5>4. QED  BY <3>1, <3>3, <5>1, <5>2, <5>3
      <4>3. QED  BY <4>1, <4>2
    <3>7. copy' \subseteq Plugins!Whole(i) \/ i \in dirty'
      BY <3>1, <3>2, <3>3, <3>4 DEF PluginHolds
    <3>8. \A j \in Install : PluginUses(j)' => j = i
      BY <3>1, <3>2 DEF PluginUses
    <3>9. QED  BY <1>a, <1>b, <3>1, <3>5, <3>6, <3>7, <3>8 DEF PluginCopied, PluginHolds
  <2>4. CASE Plugins!Copied(i) \/ Plugins!SetsAside(i)
    <3>1. /\ UNCHANGED <<copy, dirty, left>> /\ plugins_pc[i] \in {"copy", "aside"}
          /\ \E p \in {"aside", "rename", "error"} :
                 plugins_pc' = [plugins_pc EXCEPT ![i] = p]
          /\ left[i] = {} \/ plugins_pc[i] = "aside"
      BY <2>4 DEF Plugins!Copied, Plugins!CopiedAll, Plugins!SetsAside, Plugins!Goes
    <3>2. PluginHolds(i) /\ \A j \in Install : PluginUses(j) => j = i
      BY <1>0, <3>1 DEF PluginCopied, PluginUses
    <3>3. left[i] = {}
      BY <3>1, <3>2 DEF PluginHolds
    <3>4. \A j \in Install : PluginUses(j)' => j = i
      BY <3>1, <3>2 DEF PluginTyped, PluginUses
    <3>5. QED  BY <1>a, <1>b, <3>1, <3>2, <3>3, <3>4 DEF PluginCopied, PluginHolds
  <2>5. CASE Plugins!Renames(i)
    <3>1. plugins_pc[i] = "rename" /\
             \E p \in {"settle", "error"} : plugins_pc' = [plugins_pc EXCEPT ![i] = p]
      BY <2>5 DEF Plugins!Renames, Plugins!Goes
    <3>2. QED  BY <1>0, <3>1 DEF PluginTyped, PluginCopied, PluginUses
  <2>6. QED
    BY <1>2, <2>1, <2>2, <2>3, <2>4, <2>5 DEF Plugins!Step
<1>3. QED  BY <1>1, <1>2 DEF Plugins!Next

\* Which directories could not be emptied, and which versions not put back, is not forgotten.
LEMMA PluginVersionsKept ==
    ASSUME PluginTyped, PluginEntries, [Plugins!Next]_pluginsVars
    PROVE  /\ \A t : Plugins!Version(t) => Plugins!Version(t)'
           /\ stranded \subseteq stranded'
<1> USE DEF Plugins!historyVars
<1>1. dirty \subseteq dirty' /\ stranded \subseteq stranded'
  BY DEF pluginsVars, Plugins!Next, Plugins!Step, Plugins!Starts, Plugins!Unpacked,
       Plugins!Refuses, Plugins!Clears, Plugins!CopyFails, Plugins!Copied, Plugins!SetsAside,
       Plugins!Renames, Plugins!PutsBack, Plugins!Settles, Plugins!Copies, Plugins!Unpacks
<1>2. \A j \in Install : Plugins!Files(j)' = Plugins!Files(j)
  BY PluginEntriesKept DEF Plugins!Files
<1>3. \A j \in Install : Plugins!Whole(j)' = Plugins!Whole(j)
  BY <1>2 DEF Plugins!Whole
<1>4. QED  BY <1>1, <1>2, <1>3 DEF Plugins!Version

\* Without overlap the target is a version, or one of those that set it aside has it.
LEMMA PluginTargetKept ==
    /\ PluginFlags /\ PluginEntries /\ PluginTyped /\ PluginUnpacked /\ PluginCopied
    /\ PluginAside /\ PluginTarget /\ [Plugins!Next]_pluginsVars
    => PluginTarget'
<1> SUFFICES ASSUME PluginFlags, PluginEntries, PluginTyped, PluginUnpacked, PluginCopied,
                    PluginAside, PluginTarget, [Plugins!Next]_pluginsVars, overlapped' = FALSE
             PROVE PluginTarget'
  BY DEF PluginTarget
<1> USE DEF Plugins!historyVars
<1>0. overlapped = FALSE /\ PluginTyped'
  BY PluginFlagsKept, PluginTypedKept
<1>a. /\ \A t : Plugins!Version(t) => Plugins!Version(t)'
      /\ stranded \subseteq stranded'
  BY PluginVersionsKept
<1>1. CASE UNCHANGED pluginsVars
  BY <1>0, <1>1, <1>a DEF pluginsVars, PluginTarget, PluginKeeps
<1>2. ASSUME NEW i \in Install, Plugins!Starts(i) \/ Plugins!Step(i) PROVE PluginTarget'
  <2>1. CASE \/ Plugins!Starts(i) \/ Plugins!Unpacked(i) \/ Plugins!Clears(i)
             \/ Plugins!CopyFails(i) \/ Plugins!Copied(i) \/ Plugins!Refuses(i)
             \/ (\E f \in File : Plugins!Copies(i, f))
             \/ (\E e \in File \X Plugins!Kinds : Plugins!Unpacks(i, e))
    <3>1. /\ UNCHANGED <<plugins_target, backup, plugins_held>> /\ plugins_pc[i] # "rename"
          /\ \/ plugins_pc' = plugins_pc
             \/ \E p \in {"unpack", "clear", "copy", "aside", "error"} :
                    plugins_pc' = [plugins_pc EXCEPT ![i] = p]
      BY <2>1 DEF Plugins!Starts, Plugins!Unpacked, Plugins!Clears, Plugins!Refuses,
           Plugins!CopyFails, Plugins!Copied, Plugins!Copies, Plugins!Unpacks, Plugins!Goes
    <3>2. \A j \in Install : plugins_pc'[j] = "rename" <=> plugins_pc[j] = "rename"
      BY <3>1 DEF PluginTyped
    <3>3. \A j \in Install : PluginKeeps(j) => PluginKeeps(j)'
      BY <1>a, <3>1, <3>2 DEF PluginKeeps
    <3>4. QED  BY <1>0, <1>a, <3>1, <3>2, <3>3 DEF PluginTarget
  <2>2. CASE Plugins!SetsAside(i)
    <3>1. plugins_pc[i] = "aside" /\ UNCHANGED <<plugins_held, stranded>>
      BY <2>2 DEF Plugins!SetsAside
    <3>2. \A j \in Install : plugins_pc[j] # "rename"
      BY <1>0, <3>1 DEF PluginCopied, PluginUses
    <3>3. CASE /\ UNCHANGED <<plugins_target, backup>>
               /\ \/ plugins_target = Plugins!None
                  \/ plugins_pc' = [plugins_pc EXCEPT ![i] = "error"]
      <4>1. \A j \in Install : PluginKeeps(j) => PluginKeeps(j)'
        BY <1>a, <3>2, <3>3 DEF PluginKeeps
      <4>2. \A j \in Install : plugins_pc'[j] = "rename" => plugins_target = Plugins!None
        <5>1. \A j \in Install \ {i} : plugins_pc'[j] = plugins_pc[j]
          BY <2>2 DEF Plugins!SetsAside, Plugins!Goes, PluginTyped
        <5>2. plugins_target = Plugins!None \/ plugins_pc'[i] = "error"
          BY <3>3 DEF PluginTyped
        <5>3. QED  BY <3>2, <5>1, <5>2
      <4>3. QED  BY <1>0, <1>a, <3>1, <3>3, <4>1, <4>2 DEF PluginTarget
    <3>4. CASE /\ plugins_target # Plugins!None /\ plugins_target' = Plugins!None
               /\ backup' = [backup EXCEPT ![i] = plugins_target]
               /\ plugins_pc' = [plugins_pc EXCEPT ![i] = "rename"]
      <4>1. backup'[i] = plugins_target /\ Plugins!Version(plugins_target)
        BY <1>0, <3>4 DEF PluginTyped, PluginTarget
      <4>2. \A j \in Install \ {i} : backup'[j] = backup[j]
        BY <3>4 DEF PluginTyped
      <4>3. plugins_pc'[i] = "rename"
        BY <3>4 DEF PluginTyped
      <4>4. Plugins!Version(backup[i])'
        BY <1>a, <4>1
      <4>5. PluginKeeps(i)'
        BY <3>4, <4>1, <4>3, <4>4 DEF PluginKeeps
      <4>6. \A j \in Install : backup'[j] = Plugins!None \/ Plugins!Version(backup[j])'
        BY <1>0, <1>a, <4>2, <4>4 DEF PluginTarget
      <4>7. QED  BY <3>4, <4>5, <4>6 DEF PluginTarget
    <3>5. QED  BY <2>2, <3>3, <3>4 DEF Plugins!SetsAside, Plugins!Goes
  <2>3. CASE Plugins!Renames(i)
    <3>1. /\ plugins_pc[i] = "rename" /\ plugins_target = Plugins!None
          /\ \A j \in Install : plugins_pc[j] = "rename" => j = i
          /\ PluginHolds(i)
      BY <1>0, <2>3 DEF Plugins!Renames, PluginCopied, PluginUses, PluginTarget
    <3>2. \A j \in Install : plugins_pc'[j] # "rename"
      BY <2>3, <3>1 DEF Plugins!Renames, Plugins!Goes, PluginTyped
    <3>3. CASE plugins_target' = copy /\ UNCHANGED backup
      <4>1. Plugins!Version(copy)
        <5>1. Plugins!Files(i) # {}
          BY <3>1 DEF PluginUnpacked
        <5>2. Plugins!Whole(i) \subseteq copy
          BY <3>1 DEF PluginHolds, Plugins!Whole
        <5>3. QED  BY <3>1, <5>1, <5>2 DEF PluginHolds, Plugins!Version
      <4>2. plugins_target' # Plugins!None /\ Plugins!Version(plugins_target)'
        BY <1>a, <3>1, <3>3, <4>1 DEF PluginHolds
      <4>3. QED  BY <1>0, <1>a, <3>2, <3>3, <4>2 DEF PluginTarget
    <3>4. CASE Plugins!PutsBack(i) /\ UNCHANGED plugins_held
      <4>1. CASE UNCHANGED <<plugins_target, backup>> /\
               (backup[i] = Plugins!None \/ i \in stranded')
        <5>1. \A j \in Install : PluginKeeps(j) => PluginKeeps(j)'
          BY <1>a, <3>1, <4>1 DEF PluginKeeps
        <5>2. QED  BY <1>0, <1>a, <3>1, <3>2, <3>4, <4>1, <5>1 DEF PluginTarget
      <4>2. CASE /\ plugins_target' = backup[i] /\ backup[i] # Plugins!None
                 /\ backup' = [backup EXCEPT ![i] = Plugins!None]
        <5>1. plugins_target' # Plugins!None /\ Plugins!Version(plugins_target)'
          BY <1>0, <1>a, <4>2 DEF PluginTarget
        <5>2. \A j \in Install : backup'[j] = Plugins!None \/ backup'[j] = backup[j]
          BY <4>2 DEF PluginTyped
        <5>3. \A j \in Install : backup'[j] = Plugins!None \/ Plugins!Version(backup[j])'
          BY <1>0, <1>a, <5>2 DEF PluginTarget
        <5>4. QED  BY <3>2, <5>1, <5>3 DEF PluginTarget
      <4>3. QED  BY <3>4, <4>1, <4>2 DEF Plugins!PutsBack
    <3>5. QED  BY <2>3, <3>3, <3>4 DEF Plugins!Renames
  <2>4. CASE Plugins!Settles(i)
    <3>1. /\ plugins_pc[i] = "settle" /\ plugins_pc' = [plugins_pc EXCEPT ![i] = "ok"]
          /\ UNCHANGED <<plugins_target, plugins_held, stranded>>
          /\ backup' \in {backup, [backup EXCEPT ![i] = Plugins!None]}
      BY <2>4 DEF Plugins!Settles, Plugins!Goes
    <3>2. \A j \in Install : /\ backup'[j] = Plugins!None \/ backup'[j] = backup[j]
                             /\ plugins_pc'[j] = "rename" <=> plugins_pc[j] = "rename"
      BY <3>1 DEF PluginTyped
    <3>3. \A j \in Install \ {i} : backup'[j] = backup[j]
      BY <3>1 DEF PluginTyped
    <3>4. ~PluginKeeps(i)
      BY <3>1 DEF PluginKeeps, PluginAside
    <3>5. \A j \in Install : PluginKeeps(j) => PluginKeeps(j)'
      BY <1>a, <3>1, <3>2, <3>3, <3>4 DEF PluginKeeps
    <3>6. \A j \in Install : backup'[j] = Plugins!None \/ Plugins!Version(backup[j])'
      BY <1>0, <1>a, <3>2 DEF PluginTarget
    <3>7. QED  BY <1>0, <1>a, <3>1, <3>2, <3>5, <3>6 DEF PluginTarget
  <2>5. QED
    BY <1>2, <2>1, <2>2, <2>3, <2>4 DEF Plugins!Step
<1>3. QED  BY <1>1, <1>2 DEF Plugins!Next

\* Before any installation the invariant holds.
LEMMA PluginsStart == Plugins!Init => PluginsInv
<1> SUFFICES ASSUME Plugins!Init PROVE PluginsInv
  OBVIOUS
<1>1. PluginFlags
  BY DEF Plugins!Init, PluginFlags
<1>2. /\ plugins_pc = [i \in Install |-> "none"] /\ unpacked = [i \in Install |-> {}] /\
         copy = Plugins!None /\ left = archive
      /\ plugins_target \in {Plugins!None, Plugins!Older} /\
             backup = [i \in Install |-> Plugins!None]
      /\ dirty = {} /\ stranded = {}
  BY DEF Plugins!Init
<1>3. archive \in [Install -> SUBSET (File \X Plugins!Kinds)]
  BY DEF Plugins!Init, Plugins!Kinds
<1>4. PluginEntries /\ PluginTyped
  BY <1>2, <1>3, TreesOfCopies DEF PluginEntries, PluginTyped
<1>5. PluginUnpacked
  BY <1>2, <1>3 DEF PluginUnpacked
<1>6. PluginCopied /\ PluginAside
  BY <1>2 DEF PluginCopied, PluginUses, PluginAside
<1>7. plugins_held = TRUE => plugins_target = Plugins!Older
  BY DEF Plugins!Init
<1>8. Plugins!Older # Plugins!None
  <2>1. <<"older", "older">> # <<"none", "none">>
    OBVIOUS
  <2>2. QED  BY <2>1, Zenon DEF Plugins!Older, Plugins!None
<1>9. PluginTarget
  BY <1>2, <1>7, <1>8 DEF PluginTarget, Plugins!Version
<1>10. QED  BY <1>1, <1>4, <1>5, <1>6, <1>9 DEF PluginsInv

\* Every step keeps the invariant.
LEMMA PluginsKept == PluginsInv /\ [Plugins!Next]_pluginsVars => PluginsInv'
BY PluginFlagsKept, PluginEntriesKept, PluginTypedKept, PluginUnpackedKept, PluginAsideKept,
     PluginCopiedKept, PluginTargetKept
DEF PluginsInv

\* The invariant gives the types and PluginsAreWhole.
LEMMA PluginsAreSound == PluginsInv => Plugins!TypeOK /\ Plugins!PluginsAreWhole
<1> SUFFICES ASSUME PluginsInv PROVE Plugins!TypeOK /\ Plugins!PluginsAreWhole
  OBVIOUS
<1>1. {outside, overlapped, plugins_held} \subseteq BOOLEAN /\ ~outside
  BY DEF PluginsInv, PluginFlags
<1>2. copy \in Plugins!Tree
  BY DEF PluginsInv, PluginTyped, Plugins!Tree
<1>3. Plugins!TypeOK
  BY <1>1, <1>2 DEF PluginsInv, PluginEntries, PluginTyped, Plugins!TypeOK
<1>4. overlapped = FALSE =>
        /\ plugins_target = Plugins!None \/ Plugins!Version(plugins_target)
        /\ plugins_held = TRUE /\ plugins_target = Plugins!None =>
             \E i \in Install :
               /\ backup[i] # Plugins!None /\ Plugins!Version(backup[i])
               /\ plugins_pc[i] = "rename" \/ i \in stranded
  BY DEF PluginsInv, PluginTarget, PluginKeeps
<1>5. (~overlapped => overlapped = FALSE) /\ (plugins_held => plugins_held = TRUE)
  BY DEF PluginsInv, PluginFlags
<1>6. QED  BY <1>1, <1>3, <1>4, <1>5 DEF Plugins!PluginsAreWhole

-----------------------------------------------------------------------------
(* Launch intents                                                          *)

\* What a thread still has to emit.
Scheduled(t) == IF intents_pc[t] = "queue" THEN <<>> ELSE batch[t]

\* The intent was queued or scheduled.
IntentArrived(id) == \E i \in DOMAIN arrived : arrived[i] = id
\* One intent arrived before another.
IntentBefore(a, b) == \E i, j \in DOMAIN arrived : i < j /\ arrived[i] = a /\ arrived[j] = b
\* The ticket was issued (0 follows the last one).
Issued(ticket) == nextTicket = 0 \/ ticket < nextTicket
\* The identifier was taken.
Taken(id) == nextId = 0 \/ id < nextId

\* The counters, and the sets of identifiers.
IntentNumbers ==
    /\ nextId \in 0..MaxId /\ nextTicket \in 0..MaxId
    /\ intents_seen \subseteq Intents!Id /\ inFlight \subseteq Intents!Id /\
           consumed \subseteq Intents!Id

\* The places and the batches of the threads.
IntentTyped ==
    /\ intents_pc \in [Thread -> {"idle", "queue", "before", "wait", "emit", "done"}]
    /\ batch \in [Thread -> Seq(Intents!Id \X Intents!Id)]

\* The queue, and the histories of arrivals and emissions.
IntentLists ==
    /\ intents_pending \in Seq(Intents!Id) /\ Len(intents_pending) <= MaxLength
    /\ emitted \in Seq(Intents!Id) /\ arrived \in Seq(Intents!Id)

\* Until the frontend is ready nothing is scheduled, and from then on nothing waits.
IntentReady ==
    /\ ready \in BOOLEAN
    /\ ready = TRUE => intents_pending = <<>>
    /\ ready = FALSE =>
         inFlight = {} /\ consumed = {} /\ emitted = <<>> /\ \A t \in Thread : Scheduled(t) = <<>>

\* An identifier is taken once and arrives once.
IntentIds ==
    /\ \A i, j \in DOMAIN arrived : arrived[i] = arrived[j] => i = j
    /\ \A i \in DOMAIN arrived : Taken(arrived[i])
    /\ \A t \in Thread : intents_pc[t] = "queue" =>
         /\ Len(batch[t]) = 1 /\ Taken(batch[t][1][2]) /\ ~IntentArrived(batch[t][1][2])
         /\ \A u \in Thread : intents_pc[u] = "queue" /\ batch[u][1][2] = batch[t][1][2] => u = t

\* The queue is in the order of arrival.
IntentQueued ==
    /\ \A i \in DOMAIN intents_pending : IntentArrived(intents_pending[i])
    /\ \A i, j \in DOMAIN intents_pending : i < j =>
           IntentBefore(intents_pending[i], intents_pending[j])

\* The turn is a ticket that was not given up, and no later than the next one.
IntentTurn ==
    /\ current \in 0..MaxId /\ intents_cancelled \subseteq Intents!Id
    /\ \A k \in intents_cancelled : Issued(k)
    /\ nextTicket # 0 => 1 <= current /\ current <= nextTicket

\* Every scheduled ticket is still to come, and its intent arrived after what was emitted.
IntentOpen ==
    \A t \in Thread : \A i \in DOMAIN Scheduled(t) :
      /\ Issued(Scheduled(t)[i][1]) /\ current # 0 /\ current <= Scheduled(t)[i][1]
      /\ Scheduled(t)[i][1] \notin intents_cancelled
      /\ IntentArrived(Scheduled(t)[i][2])
      /\ \A j \in DOMAIN emitted : IntentBefore(emitted[j], Scheduled(t)[i][2])

\* No ticket is scheduled twice, and tickets are in the order of arrival.
IntentOrdered ==
    \A t, u \in Thread : \A i \in DOMAIN Scheduled(t), j \in DOMAIN Scheduled(u) :
      /\ Scheduled(t)[i][1] = Scheduled(u)[j][1] => t = u /\ i = j
      /\ Scheduled(t)[i][1] < Scheduled(u)[j][1] =>
             IntentBefore(Scheduled(t)[i][2], Scheduled(u)[j][2])

\* Who emits holds the turn.
IntentHeld ==
    \A t \in Thread : intents_pc[t] = "emit" =>
        Scheduled(t) # <<>> /\ Scheduled(t)[1][1] = current

\* What was emitted arrived, and in that order.
IntentEmitted ==
    /\ \A i \in DOMAIN emitted : IntentArrived(emitted[i])
    /\ \A i, j \in DOMAIN emitted : i < j => IntentBefore(emitted[i], emitted[j])

\* The inductive invariant of the launch intents.
IntentsInv ==
    /\ IntentNumbers /\ IntentTyped /\ IntentLists /\ IntentReady /\ IntentIds /\ IntentQueued
    /\ IntentTurn /\ IntentOpen /\ IntentOrdered /\ IntentHeld /\ IntentEmitted

\* Scheduled lists hold tickets and identifiers.
LEMMA ScheduledTyped ==
    ASSUME IntentTyped, NEW t \in Thread
    PROVE  /\ Scheduled(t) \in Seq(Intents!Id \X Intents!Id)
           /\ DOMAIN Scheduled(t) = 1..Len(Scheduled(t))
           /\ \A i \in DOMAIN Scheduled(t) : Scheduled(t)[i][1] \in Intents!Id /\
                  Scheduled(t)[i][2] \in Intents!Id
<1>1. Scheduled(t) \in Seq(Intents!Id \X Intents!Id)
  BY DEF IntentTyped, Scheduled
<1> HIDE DEF Scheduled
<1>2. QED  BY <1>1

\* A schedule keeps the sets of identifiers.
LEMMA ScheduledStaysTyped ==
    ASSUME IntentTyped', NEW t \in Thread
    PROVE  /\ DOMAIN Scheduled(t)' = 1..Len(Scheduled(t)')
           /\ \A i \in DOMAIN Scheduled(t)' : Scheduled(t)'[i][1] \in Intents!Id
<1> DEFINE s == Scheduled(t)'
<1>1. s \in Seq(Intents!Id \X Intents!Id)
  BY DEF IntentTyped, Scheduled
<1> HIDE DEF s
<1>2. DOMAIN s = 1..Len(s) /\ \A i \in DOMAIN s : s[i][1] \in Intents!Id
  BY <1>1
<1>3. QED  BY <1>2 DEF s

\* An arrival comes after all others.
LEMMA ArrivalsGrow ==
    ASSUME IntentLists, NEW id \in Intents!Id, arrived' = Append(arrived, id)
    PROVE  /\ DOMAIN arrived' = (DOMAIN arrived) \cup {Len(arrived) + 1}
           /\ arrived'[Len(arrived) + 1] = id /\ Len(arrived) + 1 \notin DOMAIN arrived
           /\ \A i \in DOMAIN arrived : arrived'[i] = arrived[i]
           /\ IntentArrived(id)'
           /\ \A a : IntentArrived(a) => IntentArrived(a)' /\ IntentBefore(a, id)'
           /\ \A a, b : IntentBefore(a, b) => IntentBefore(a, b)'
<1>1. arrived \in Seq(Intents!Id) /\ DOMAIN arrived = 1..Len(arrived) /\ Len(arrived) \in Nat
  BY DEF IntentLists
<1>2. /\ DOMAIN arrived' = (DOMAIN arrived) \cup {Len(arrived) + 1}
      /\ arrived'[Len(arrived) + 1] = id /\ Len(arrived) + 1 \notin DOMAIN arrived
      /\ \A i \in DOMAIN arrived : arrived'[i] = arrived[i]
  BY <1>1
<1>3. IntentArrived(id)'
  BY <1>2 DEF IntentArrived
<1>4. ASSUME NEW a, IntentArrived(a) PROVE IntentArrived(a)' /\ IntentBefore(a, id)'
  <2>1. PICK i \in DOMAIN arrived : arrived[i] = a
    BY <1>4 DEF IntentArrived
  <2>2. i \in DOMAIN arrived' /\ arrived'[i] = a /\ i < Len(arrived) + 1
    BY <1>1, <1>2, <2>1
  <2>3. QED  BY <1>2, <2>2 DEF IntentArrived, IntentBefore
<1>5. ASSUME NEW a, NEW b, IntentBefore(a, b) PROVE IntentBefore(a, b)'
  BY <1>2, <1>5 DEF IntentBefore
<1>6. QED  BY <1>2, <1>3, <1>4, <1>5

\* A schedule gives the next tickets in turn, as many as there are.
LEMMA SchedulesTickets ==
    ASSUME IntentNumbers, IntentTyped, NEW t \in Thread, NEW ids \in Seq(Intents!Id),
        Intents!Schedule(t, ids)
    PROVE  /\ nextTicket' \in 0..MaxId /\ inFlight' \subseteq Intents!Id /\
                  consumed' \subseteq Intents!Id
           /\ batch' \in [Thread -> Seq(Intents!Id \X Intents!Id)]
           /\ \A u \in Thread \ {t} : batch'[u] = batch[u]
           /\ \E n \in 0..Len(ids) :
                /\ batch'[t] = [i \in 1..n |-> <<nextTicket + i - 1, ids[i]>>]
                /\ n = 0 => nextTicket' = nextTicket
                /\ n > 0 => /\ nextTicket # 0 /\ nextTicket + n - 1 <= MaxId
                            /\ nextTicket' = 0 \/ nextTicket' = nextTicket + n
<1> DEFINE n == Intents!Least(Len(ids), Intents!Left)
           made == [i \in 1..n |-> <<nextTicket + i - 1, ids[i]>>]
<1>1. /\ batch' = [batch EXCEPT ![t] = made]
      /\ nextTicket' = IF n = Intents!Left THEN 0 ELSE nextTicket + n
      /\ inFlight' \subseteq inFlight \cup {ids[i] : i \in DOMAIN ids}
      /\ consumed' = consumed \cup {ids[i] : i \in n + 1 .. Len(ids)}
  BY DEF Intents!Schedule
<1>2. Len(ids) \in Nat /\ DOMAIN ids = 1..Len(ids) /\ \A i \in 1..Len(ids) : ids[i] \in Intents!Id
  OBVIOUS
<1>3. nextTicket \in 0..MaxId /\ MaxId \in Nat
  BY ShellAssumption DEF IntentNumbers
<1>4. /\ Intents!Left \in Nat /\ (nextTicket = 0 => Intents!Left = 0)
      /\ nextTicket # 0 => Intents!Left = MaxId + 1 - nextTicket
  BY <1>3 DEF Intents!Left
<1>5. n \in 0..Len(ids) /\ n <= Intents!Left
  BY <1>2, <1>4 DEF Intents!Least
<1> HIDE DEF n
<1>6. n + 1 .. Len(ids) \subseteq 1..Len(ids)
  BY <1>2, <1>5
<1>7. inFlight' \subseteq Intents!Id /\ consumed' \subseteq Intents!Id
  BY <1>1, <1>2, <1>6 DEF IntentNumbers
<1>8. nextTicket' \in 0..MaxId
  BY <1>1, <1>3, <1>4, <1>5
<1>9. /\ n = 0 => nextTicket' = nextTicket
      /\ n > 0 => /\ nextTicket # 0 /\ nextTicket + n - 1 <= MaxId
                  /\ nextTicket' = 0 \/ nextTicket' = nextTicket + n
  BY <1>1, <1>3, <1>4, <1>5
<1>10. \A i \in 1..n : nextTicket + i - 1 \in Intents!Id /\ ids[i] \in Intents!Id
  BY <1>2, <1>3, <1>5, <1>9 DEF Intents!Id
<1>11. made \in Seq(Intents!Id \X Intents!Id)
  <2>1. n \in Nat
    BY <1>5
  <2>2. made \in [1..n -> Intents!Id \X Intents!Id]
    BY <1>10
  <2> HIDE DEF made
  <2>3. QED  BY <2>1, <2>2
<1> HIDE DEF made
<1>12. /\ batch' \in [Thread -> Seq(Intents!Id \X Intents!Id)] /\ batch'[t] = made
       /\ \A u \in Thread \ {t} : batch'[u] = batch[u]
  BY <1>1, <1>11 DEF IntentTyped
<1>13. QED  BY <1>5, <1>7, <1>8, <1>9, <1>12 DEF made

\* Every step keeps the counters and the batches.
LEMMA IntentNumbersKept ==
    IntentNumbers /\ IntentTyped /\ IntentLists /\ IntentIds /\ IntentHeld /\
        [Intents!Next]_intentsVars => IntentNumbers' /\ IntentTyped'
<1> SUFFICES ASSUME IntentNumbers, IntentTyped, IntentLists, IntentIds, IntentHeld,
    [Intents!Next]_intentsVars
             PROVE IntentNumbers' /\ IntentTyped'
  OBVIOUS
<1>1. CASE UNCHANGED intentsVars
  BY <1>1 DEF intentsVars, IntentNumbers, IntentTyped
<1>2. ASSUME NEW id \in Intents!Id, Intents!Acknowledges(id) PROVE IntentNumbers' /\ IntentTyped'
  BY <1>2 DEF Intents!Acknowledges, IntentNumbers, IntentTyped
<1>3. ASSUME NEW t \in Thread, Intents!TakesId(t) PROVE IntentNumbers' /\ IntentTyped'
  <2>1. nextId \in Intents!Id /\ nextId' \in 0..MaxId /\
           UNCHANGED <<nextTicket, intents_seen, inFlight, consumed>>
    BY <1>3, ShellAssumption DEF Intents!TakesId, Intents!Following, IntentNumbers, Intents!Id
  <2>2. <<<<nextId, nextId>>>> \in Seq(Intents!Id \X Intents!Id)
    BY <2>1
  <2>3. IntentTyped'
    BY <1>3, <2>2 DEF Intents!TakesId, IntentTyped
  <2>4. QED  BY <2>1, <2>3 DEF IntentNumbers
<1>4. ASSUME NEW t \in Thread, Intents!Enqueues(t) PROVE IntentNumbers' /\ IntentTyped'
  <2> DEFINE id == batch[t][1][2]
  <2>1. id \in Intents!Id
    BY <1>4 DEF Intents!Enqueues, IntentIds, IntentTyped
  <2>2. intents_seen' \subseteq Intents!Id /\ UNCHANGED nextId /\
           intents_pc' = [intents_pc EXCEPT ![t] = "before"]
    BY <1>4, <2>1 DEF Intents!Enqueues, IntentNumbers
  <2>3. CASE Intents!Schedule(t, <<id>>)
    <3>1. <<id>> \in Seq(Intents!Id)
      BY <2>1
    <3>2. /\ nextTicket' \in 0..MaxId /\ inFlight' \subseteq Intents!Id /\
             consumed' \subseteq Intents!Id
          /\ batch' \in [Thread -> Seq(Intents!Id \X Intents!Id)]
      BY <2>3, <3>1, SchedulesTickets
    <3>3. QED  BY <2>2, <3>2 DEF IntentNumbers, IntentTyped
  <2>4. CASE batch' = [batch EXCEPT ![t] = <<>>] /\ UNCHANGED <<inFlight, consumed, nextTicket>>
    BY <2>2, <2>4 DEF IntentNumbers, IntentTyped
  <2>5. QED  BY <1>4, <2>3, <2>4 DEF Intents!Enqueues
<1>5. ASSUME NEW t \in Thread, Intents!MarksReady(t) PROVE IntentNumbers' /\ IntentTyped'
  <2>1. UNCHANGED <<nextId, intents_seen>> /\ intents_pc' = [intents_pc EXCEPT ![t] = "before"]
        /\ Intents!Schedule(t, intents_pending)
    BY <1>5 DEF Intents!MarksReady
  <2>2. /\ nextTicket' \in 0..MaxId /\ inFlight' \subseteq Intents!Id /\
           consumed' \subseteq Intents!Id
        /\ batch' \in [Thread -> Seq(Intents!Id \X Intents!Id)]
    BY <2>1, SchedulesTickets DEF IntentLists
  <2>3. QED  BY <2>1, <2>2 DEF IntentNumbers, IntentTyped
<1>6. ASSUME NEW t \in Thread, Intents!Emits(t) PROVE IntentNumbers' /\ IntentTyped'
  <2>1. batch[t] \in Seq(Intents!Id \X Intents!Id) /\ batch[t] # <<>>
    BY <1>6 DEF IntentHeld, Scheduled, Intents!Emits, IntentTyped
  <2>2. Tail(batch[t]) \in Seq(Intents!Id \X Intents!Id) /\ batch[t][1][2] \in Intents!Id
    BY <2>1
  <2>3. IntentTyped'
    BY <1>6, <2>2 DEF Intents!Emits, IntentTyped
  <2>4. IntentNumbers'
    BY <1>6, <2>2 DEF Intents!Emits, IntentNumbers
  <2>5. QED  BY <2>3, <2>4
<1>7. ASSUME NEW t \in Thread,
             Intents!TakesNone(t) \/ Intents!Begins(t) \/ Intents!TakesTurn(t) \/
                 Intents!Panics(t) \/ Intents!Ends(t)
      PROVE IntentNumbers' /\ IntentTyped'
  <2>1. UNCHANGED <<nextId, nextTicket, intents_seen, inFlight, consumed>>
    BY <1>7 DEF Intents!TakesNone, Intents!Begins, Intents!TakesTurn, Intents!Panics,
         Intents!Ends, Intents!queueVars
  <2>2. /\ batch' = batch \/ batch' = [batch EXCEPT ![t] = <<>>]
        /\ \E p \in {"before", "wait", "emit", "done"} :
               intents_pc' = [intents_pc EXCEPT ![t] = p]
    BY <1>7 DEF Intents!TakesNone, Intents!Begins, Intents!TakesTurn, Intents!Panics, Intents!Ends
  <2>3. intents_pc' \in [Thread -> {"idle", "queue", "before", "wait", "emit", "done"}]
    BY <2>2 DEF IntentTyped
  <2>4. batch' \in [Thread -> Seq(Intents!Id \X Intents!Id)]
    <3>1. <<>> \in Seq(Intents!Id \X Intents!Id)
      OBVIOUS
    <3>2. QED  BY <2>2, <3>1 DEF IntentTyped
  <2>5. QED  BY <2>1, <2>3, <2>4 DEF IntentNumbers, IntentTyped
<1>8. QED
  BY <1>1, <1>2, <1>3, <1>4, <1>5, <1>6, <1>7 DEF Intents!Next, Intents!DeliveryStep

\* The steps of intents, by what they do to what is scheduled.
Tickets(t) == {Scheduled(t)[i][1] : i \in DOMAIN Scheduled(t)}
\* The other threads keep their place and what they scheduled.
OthersStay(t) ==
    \A u \in Thread \ {t} : Scheduled(u)' = Scheduled(u) /\ intents_pc'[u] = intents_pc[u]

\* A step that neither emits, nor gives up, nor schedules.
IntentQuiet ==
    /\ UNCHANGED <<ready, intents_pending, nextTicket, current, intents_cancelled, emitted,
           arrived>>
    /\ inFlight' \subseteq inFlight /\ (consumed' = consumed \/ inFlight # {})
    /\ \A u \in Thread :
         /\ Scheduled(u)' \in {Scheduled(u), <<>>}
         /\ intents_pc'[u] = "emit" =>
              /\ Scheduled(u)' = Scheduled(u) /\ Scheduled(u) # <<>>
              /\ intents_pc[u] = "emit" \/ Scheduled(u)[1][1] = current

\* A thread gives its tickets up, and the turn passes over them.
IntentGivesUp(t) ==
    /\ UNCHANGED <<ready, intents_pending, nextTicket, emitted, arrived, inFlight, consumed>>
    /\ OthersStay(t) /\ Scheduled(t)' = <<>> /\ intents_pc'[t] # "emit"
    /\ Intents!TurnIs(current, intents_cancelled \cup Tickets(t))

\* The thread that has the turn emits, and passes it on.
IntentEmits(t) ==
    /\ UNCHANGED <<ready, intents_pending, nextTicket, arrived>>
    /\ OthersStay(t) /\ intents_pc[t] = "emit" /\ intents_pc'[t] # "emit"
    /\ emitted' = Append(emitted, Scheduled(t)[1][2])
    /\ \/ Scheduled(t)' = Tail(Scheduled(t)) /\
              Intents!TurnIs(Intents!Following(current), intents_cancelled)
       \/ Scheduled(t)' = <<>> /\ Intents!TurnIs(current, intents_cancelled \cup Tickets(t))

\* An intent arrives before the frontend is ready.
IntentQueues(t, id) ==
    /\ ready = FALSE
    /\ UNCHANGED <<ready, nextTicket, current, intents_cancelled, emitted, inFlight, consumed>>
    /\ OthersStay(t) /\ Scheduled(t)' = <<>> /\ intents_pc'[t] # "emit"
    /\ arrived' = Append(arrived, id)
    /\ intents_pending' = Append(Intents!Room, id)

\* A thread takes tickets: for the queue, or for its own intent.
IntentSchedules(t, ids) ==
    /\ ready' = TRUE /\ intents_pending' = <<>> /\
           UNCHANGED <<current, intents_cancelled, emitted>>
    /\ OthersStay(t) /\ intents_pc'[t] # "emit"
    /\ \E n \in 0..Len(ids) :
         /\ Scheduled(t)' = [i \in 1..n |-> <<nextTicket + i - 1, ids[i]>>]
         /\ n = 0 => nextTicket' = nextTicket
         /\ n > 0 => /\ nextTicket # 0 /\ nextTicket + n - 1 <= MaxId
                     /\ nextTicket' = 0 \/ nextTicket' = nextTicket + n
    /\ \/ ids = intents_pending /\ UNCHANGED arrived
       \/ ready = TRUE /\ \E id \in Intents!Id : ids = <<id>> /\ arrived' = Append(arrived, id)

\* One of these.
IntentStep ==
    \/ IntentQuiet
    \/ \E t \in Thread :
         \/ IntentGivesUp(t) \/ IntentEmits(t)
         \/ \E id \in Intents!Id : IntentQueues(t, id)
         \/ \E ids \in Seq(Intents!Id) : IntentSchedules(t, ids)

\* Who is left alone keeps what it has scheduled.
LEMMA OthersAreLeft ==
    ASSUME IntentTyped, NEW t \in Thread,
           \A u \in Thread \ {t} : batch'[u] = batch[u] /\ intents_pc'[u] = intents_pc[u]
    PROVE  OthersStay(t)
BY DEF OthersStay, Scheduled

\* Every step of the component is one of these.
LEMMA IntentStepsAreThese ==
    /\ IntentNumbers /\ IntentTyped /\ IntentLists /\ IntentIds /\ IntentReady /\ IntentHeld
    /\ [Intents!Next]_intentsVars
    => IntentStep
<1> SUFFICES ASSUME IntentNumbers, IntentTyped, IntentLists, IntentIds, IntentReady, IntentHeld,
                    [Intents!Next]_intentsVars
             PROVE IntentStep
  OBVIOUS
<1>1. CASE UNCHANGED intentsVars
  <2>1. UNCHANGED <<ready, intents_pending, nextTicket, current, intents_cancelled, emitted,
           arrived, inFlight, consumed,
                    intents_pc, batch>>
    BY <1>1 DEF intentsVars
  <2>2. \A u \in Thread : Scheduled(u)' = Scheduled(u)
    BY <2>1 DEF Scheduled
  <2>3. IntentQuiet
    BY <2>1, <2>2 DEF IntentQuiet, IntentHeld
  <2>4. QED  BY <2>3 DEF IntentStep
<1>2. ASSUME NEW id \in Intents!Id, Intents!Acknowledges(id) PROVE IntentStep
  <2>1. /\ UNCHANGED <<ready, intents_pending, nextTicket, current, intents_cancelled, emitted,
           arrived,
                       intents_pc, batch>>
        /\ inFlight # {} /\ inFlight' \subseteq inFlight
    BY <1>2 DEF Intents!Acknowledges, Intents!turnVars
  <2>2. \A u \in Thread : Scheduled(u)' = Scheduled(u)
    BY <2>1 DEF Scheduled
  <2>3. IntentQuiet
    BY <2>1, <2>2 DEF IntentQuiet, IntentHeld
  <2>4. QED  BY <2>3 DEF IntentStep
<1>3. ASSUME NEW t \in Thread,
             \/ Intents!TakesId(t) \/ Intents!TakesNone(t) \/ Intents!TakesTurn(t) \/
                    Intents!Ends(t)
             \/ Intents!Begins(t) /\ UNCHANGED <<current, intents_cancelled, batch>>
      PROVE IntentStep
  <2>1. UNCHANGED <<ready, intents_pending, nextTicket, current, intents_cancelled, emitted,
           arrived, inFlight, consumed>>
    BY <1>3 DEF Intents!TakesId, Intents!TakesNone, Intents!TakesTurn, Intents!Ends,
         Intents!Begins, Intents!queueVars, Intents!turnVars
  <2>2. /\ \A u \in Thread \ {t} : batch'[u] = batch[u] /\ intents_pc'[u] = intents_pc[u]
        /\ intents_pc[t] # "queue" /\ (intents_pc'[t] = "queue" \/ batch' = batch)
        /\ intents_pc'[t] = "emit" => batch[t] # <<>> /\ batch[t][1][1] = current
    <3>1. CASE Intents!TakesId(t)
      BY <3>1 DEF Intents!TakesId, IntentTyped
    <3>2. CASE Intents!TakesNone(t) \/ Intents!TakesTurn(t) \/ Intents!Ends(t)
      BY <3>2 DEF Intents!TakesNone, Intents!TakesTurn, Intents!IsItsTurn, Intents!Ends,
           IntentTyped
    <3>3. CASE Intents!Begins(t) /\ UNCHANGED <<current, intents_cancelled, batch>>
      BY <3>3 DEF Intents!Begins, IntentTyped
    <3>4. QED  BY <1>3, <3>1, <3>2, <3>3
  <2>3. \A u \in Thread \ {t} : Scheduled(u)' = Scheduled(u)
    BY <2>2 DEF Scheduled
  <2>4. Scheduled(t)' = <<>> \/ (Scheduled(t)' = Scheduled(t) /\ Scheduled(t) = batch[t])
    BY <2>2 DEF Scheduled
  <2>5. intents_pc'[t] = "emit" =>
           Scheduled(t)' = Scheduled(t) /\ Scheduled(t) # <<>> /\ Scheduled(t)[1][1] = current
    BY <2>2 DEF Scheduled
  <2>6. \A u \in Thread :
          /\ Scheduled(u)' \in {Scheduled(u), <<>>}
          /\ intents_pc'[u] = "emit" =>
               /\ Scheduled(u)' = Scheduled(u) /\ Scheduled(u) # <<>>
               /\ intents_pc[u] = "emit" \/ Scheduled(u)[1][1] = current
    BY <2>2, <2>3, <2>4, <2>5 DEF IntentHeld
  <2>7. IntentQuiet
    BY <2>1, <2>6 DEF IntentQuiet
  <2>8. QED  BY <2>7 DEF IntentStep
<1>4. ASSUME NEW t \in Thread, Intents!Begins(t), batch' = [batch EXCEPT ![t] = <<>>],
         Intents!BatchIsCancelled(t)
      PROVE IntentStep
  <2>1. UNCHANGED <<ready, intents_pending, nextTicket, emitted, arrived, inFlight, consumed>>
    BY <1>4 DEF Intents!Begins, Intents!queueVars
  <2>2. /\ \A u \in Thread \ {t} : batch'[u] = batch[u] /\ intents_pc'[u] = intents_pc[u]
        /\ intents_pc[t] = "before" /\ intents_pc'[t] \notin {"emit", "queue"} /\ batch'[t] = <<>>
    BY <1>4 DEF Intents!Begins, IntentTyped
  <2>3. OthersStay(t)
    BY <2>2, OthersAreLeft
  <2>4. Scheduled(t) = batch[t] /\ Scheduled(t)' = <<>>
    BY <2>2 DEF Scheduled
  <2>5. Intents!TurnIs(current, intents_cancelled \cup Tickets(t))
    BY <1>4, <2>4 DEF Intents!BatchIsCancelled, Intents!Held, Tickets
  <2>6. IntentGivesUp(t)
    BY <2>1, <2>2, <2>3, <2>4, <2>5 DEF IntentGivesUp
  <2>7. QED  BY <2>6 DEF IntentStep
<1>5. ASSUME NEW t \in Thread, Intents!Emits(t) \/ Intents!Panics(t) PROVE IntentStep
  <2>1. /\ UNCHANGED <<ready, intents_pending, nextTicket, arrived>> /\
           emitted' = Append(emitted, batch[t][1][2])
        /\ intents_pc[t] = "emit"
    BY <1>5 DEF Intents!Emits, Intents!Panics, Intents!queueVars
  <2>2. Scheduled(t) = batch[t] /\ batch[t][1][1] = current
    BY <2>1 DEF Scheduled, IntentHeld
  <2>3. CASE Intents!Emits(t)
    <3>1. /\ \A u \in Thread \ {t} : batch'[u] = batch[u] /\ intents_pc'[u] = intents_pc[u]
          /\ intents_pc'[t] \notin {"emit", "queue"} /\ batch'[t] = Tail(batch[t])
      BY <2>3 DEF Intents!Emits, IntentTyped
    <3>2. OthersStay(t)
      BY <3>1, OthersAreLeft
    <3>3. Scheduled(t)' = Tail(Scheduled(t))
      BY <2>2, <3>1 DEF Scheduled
    <3>4. Intents!TurnIs(Intents!Following(current), intents_cancelled)
      BY <2>2, <2>3 DEF Intents!Emits
    <3>5. IntentEmits(t)
      BY <2>1, <2>2, <3>1, <3>2, <3>3, <3>4 DEF IntentEmits
    <3>6. QED  BY <3>5 DEF IntentStep
  <2>4. CASE Intents!Panics(t)
    <3>1. /\ \A u \in Thread \ {t} : batch'[u] = batch[u] /\ intents_pc'[u] = intents_pc[u]
          /\ intents_pc'[t] \notin {"emit", "queue"} /\ batch'[t] = <<>>
      BY <2>4 DEF Intents!Panics, IntentTyped
    <3>2. OthersStay(t)
      BY <3>1, OthersAreLeft
    <3>3. Scheduled(t)' = <<>>
      BY <3>1 DEF Scheduled
    <3>4. Intents!TurnIs(current, intents_cancelled \cup Tickets(t))
      BY <2>2, <2>4 DEF Intents!Panics, Intents!BatchIsCancelled, Intents!Held, Tickets
    <3>5. IntentEmits(t)
      BY <2>1, <2>2, <3>1, <3>2, <3>3, <3>4 DEF IntentEmits
    <3>6. QED  BY <3>5 DEF IntentStep
  <2>5. QED  BY <1>5, <2>3, <2>4
<1>6. ASSUME NEW t \in Thread, Intents!Enqueues(t) PROVE IntentStep
  <2> DEFINE id == batch[t][1][2]
  <2>1. id \in Intents!Id /\ intents_pc[t] = "queue"
    BY <1>6 DEF Intents!Enqueues, IntentIds, IntentTyped
  <2>2. /\ arrived' = Append(arrived, id) /\
           UNCHANGED <<ready, current, intents_cancelled, emitted>>
        /\ intents_pc' = [intents_pc EXCEPT ![t] = "before"]
    BY <1>6 DEF Intents!Enqueues, Intents!turnVars
  <2>3. CASE ready = TRUE
    <3>1. Intents!Schedule(t, <<id>>) /\ UNCHANGED intents_pending
      BY <1>6, <2>3 DEF Intents!Enqueues
    <3>2. <<id>> \in Seq(Intents!Id)
      BY <2>1
    <3> HIDE DEF id
    <3>3. /\ \A u \in Thread \ {t} : batch'[u] = batch[u]
          /\ \E n \in 0..Len(<<id>>) :
                /\ batch'[t] = [i \in 1..n |-> <<nextTicket + i - 1, <<id>>[i]>>]
                /\ n = 0 => nextTicket' = nextTicket
                /\ n > 0 => /\ nextTicket # 0 /\ nextTicket + n - 1 <= MaxId
                            /\ nextTicket' = 0 \/ nextTicket' = nextTicket + n
      BY <3>1, <3>2, SchedulesTickets
    <3>4. /\ \A u \in Thread \ {t} : intents_pc'[u] = intents_pc[u]
          /\ intents_pc'[t] = "before"
      BY <2>2 DEF IntentTyped
    <3>5. OthersStay(t)
      BY <3>3, <3>4, OthersAreLeft
    <3>6. Scheduled(t)' = batch'[t]
      BY <3>4 DEF Scheduled
    <3>7. intents_pending' = <<>>
      BY <2>3, <3>1 DEF IntentReady
    <3>8. IntentSchedules(t, <<id>>)
      BY <2>1, <2>2, <2>3, <3>3, <3>4, <3>5, <3>6, <3>7 DEF IntentSchedules
    <3>9. QED  BY <3>2, <3>8 DEF IntentStep
  <2>4. CASE ready = FALSE
    <3>1. /\ intents_pending' = Append(Intents!Room, id) /\
             UNCHANGED <<inFlight, consumed, nextTicket>>
          /\ batch' = [batch EXCEPT ![t] = <<>>]
      BY <1>6, <2>4 DEF Intents!Enqueues
    <3> HIDE DEF id
    <3>2. /\ \A u \in Thread \ {t} : batch'[u] = batch[u] /\ intents_pc'[u] = intents_pc[u]
          /\ intents_pc'[t] = "before" /\ batch'[t] = <<>>
      BY <2>2, <3>1 DEF IntentTyped
    <3>3. OthersStay(t)
      BY <3>2, OthersAreLeft
    <3>4. Scheduled(t)' = <<>>
      BY <3>2 DEF Scheduled
    <3>5. IntentQueues(t, id)
      BY <2>2, <2>4, <3>1, <3>2, <3>3, <3>4 DEF IntentQueues
    <3>6. QED  BY <2>1, <3>5 DEF IntentStep
  <2>5. QED  BY <2>3, <2>4 DEF IntentReady
<1>7. ASSUME NEW t \in Thread, Intents!MarksReady(t) PROVE IntentStep
  <2>1. /\ Intents!Schedule(t, intents_pending) /\ intents_pending' = <<>> /\ ready' = TRUE
        /\ UNCHANGED <<current, intents_cancelled, emitted, arrived>>
        /\ intents_pc' = [intents_pc EXCEPT ![t] = "before"]
    BY <1>7 DEF Intents!MarksReady, Intents!turnVars
  <2>2. /\ \A u \in Thread \ {t} : batch'[u] = batch[u]
        /\ \E n \in 0..Len(intents_pending) :
              /\ batch'[t] = [i \in 1..n |-> <<nextTicket + i - 1, intents_pending[i]>>]
              /\ n = 0 => nextTicket' = nextTicket
              /\ n > 0 => /\ nextTicket # 0 /\ nextTicket + n - 1 <= MaxId
                          /\ nextTicket' = 0 \/ nextTicket' = nextTicket + n
    BY <2>1, SchedulesTickets DEF IntentLists
  <2>3. /\ \A u \in Thread \ {t} : intents_pc'[u] = intents_pc[u]
        /\ intents_pc'[t] = "before"
    BY <2>1 DEF IntentTyped
  <2>4. OthersStay(t)
    BY <2>2, <2>3, OthersAreLeft
  <2>5. Scheduled(t)' = batch'[t]
    BY <2>3 DEF Scheduled
  <2>6. IntentSchedules(t, intents_pending)
    BY <2>1, <2>2, <2>3, <2>4, <2>5 DEF IntentSchedules
  <2>7. QED  BY <2>6 DEF IntentStep, IntentLists
<1>8. ASSUME NEW t \in Thread, Intents!Begins(t) PROVE IntentStep
  <2>1. \/ UNCHANGED <<current, intents_cancelled, batch>>
        \/ batch' = [batch EXCEPT ![t] = <<>>] /\ Intents!BatchIsCancelled(t)
    BY <1>8 DEF Intents!Begins, Intents!turnVars
  <2>2. QED  BY <1>3, <1>4, <1>8, <2>1
<1>9. QED
  BY <1>1, <1>2, <1>3, <1>5, <1>6, <1>7, <1>8 DEF Intents!Next, Intents!DeliveryStep

\* A turn passes to a ticket that is not gone, and over none that is open.
LEMMA TurnMoves ==
    ASSUME NEW c \in 0..MaxId, NEW gone, gone \subseteq Intents!Id, Intents!TurnIs(c, gone),
           nextTicket \in 0..MaxId, UNCHANGED nextTicket,
           \A k \in gone : Issued(k), nextTicket # 0 => 1 <= c /\ c <= nextTicket
    PROVE  /\ IntentTurn'
           /\ \A k \in Intents!Id : c # 0 /\ c <= k /\ k \notin gone =>
                current' # 0 /\ current' <= k /\ k \notin intents_cancelled'
           /\ c # 0 /\ c \notin gone => current' = c
<1>1. current' \in 0..MaxId /\ intents_cancelled' = {i \in gone : current' # 0 /\ i > current'}
  BY ShellAssumption DEF Intents!TurnIs, Intents!Id
<1>2. intents_cancelled' \subseteq Intents!Id /\ \A k \in intents_cancelled' : Issued(k)'
  BY <1>1 DEF Issued
<1>3. CASE c = 0
  BY <1>1, <1>2, <1>3 DEF Intents!TurnIs, IntentTurn
<1>4. CASE c # 0 /\ current' = 0
  <2>1. \A i \in Intents!Id : i >= c => i \in gone
    BY <1>4 DEF Intents!TurnIs, Intents!SkipsFrom
  <2>2. nextTicket = 0
    BY <2>1 DEF Issued, Intents!Id
  <2>3. c \in gone
    BY <1>4, <2>1 DEF Intents!Id
  <2>4. QED  BY <1>1, <1>2, <2>1, <2>2, <2>3 DEF IntentTurn, Intents!Id
<1>5. CASE c # 0 /\ current' # 0
  <2>1. /\ current' >= c /\ current' \in Intents!Id \ gone
        /\ \A i \in Intents!Id : i >= c /\ i < current' => i \in gone
    BY <1>5 DEF Intents!TurnIs, Intents!SkipsFrom
  <2>2. nextTicket # 0 => nextTicket \notin gone
    BY DEF Issued
  <2>3. nextTicket # 0 => 1 <= current' /\ current' <= nextTicket
    BY <1>1, <2>1, <2>2 DEF Intents!Id
  <2>4. \A k \in Intents!Id : c <= k /\ k \notin gone => current' <= k
    BY <2>1 DEF Intents!Id
  <2>5. c \notin gone => current' = c
    BY <1>5, <2>1, <2>4 DEF Intents!Id
  <2>6. QED  BY <1>1, <1>2, <1>5, <2>3, <2>4, <2>5 DEF IntentTurn
<1>6. QED  BY <1>3, <1>4, <1>5

\* A turn that is given up stays at or before every ticket that is scheduled.
LEMMA TurnGivenUp ==
    ASSUME IntentNumbers, IntentTyped, IntentTurn, IntentOpen, UNCHANGED nextTicket,
        NEW t \in Thread,
           Intents!TurnIs(current, intents_cancelled \cup Tickets(t))
    PROVE  /\ IntentTurn'
           /\ \A k \in Intents!Id : current # 0 /\ current <= k /\
                  k \notin intents_cancelled \cup Tickets(t) =>
                current' # 0 /\ current' <= k /\ k \notin intents_cancelled'
           /\ current # 0 /\ current \notin intents_cancelled \cup Tickets(t) =>
                  current' = current
<1> DEFINE gone == intents_cancelled \cup Tickets(t)
<1>1. Tickets(t) \subseteq Intents!Id
  BY ScheduledTyped DEF Tickets
<1>2. gone \subseteq Intents!Id /\ \A k \in gone : Issued(k)
  BY <1>1 DEF IntentTurn, IntentOpen, Tickets
<1>3. current \in 0..MaxId /\ nextTicket \in 0..MaxId /\ Intents!TurnIs(current, gone)
      /\ (nextTicket # 0 => 1 <= current /\ current <= nextTicket)
  BY DEF IntentTurn, IntentNumbers
<1> HIDE DEF gone
<1>4. /\ IntentTurn'
      /\ \A k \in Intents!Id : current # 0 /\ current <= k /\ k \notin gone =>
           current' # 0 /\ current' <= k /\ k \notin intents_cancelled'
      /\ current # 0 /\ current \notin gone => current' = current
  BY <1>2, <1>3, TurnMoves
<1>5. QED  BY <1>4 DEF gone

\* A turn that is completed passes to, or stays before, every other ticket.
LEMMA TurnCompleted ==
    ASSUME IntentNumbers, IntentTurn, IntentOpen, UNCHANGED nextTicket, NEW t \in Thread,
           Scheduled(t) # <<>>, Scheduled(t)[1][1] = current, 1 \in DOMAIN Scheduled(t),
               current # 0,
           Intents!TurnIs(Intents!Following(current), intents_cancelled)
    PROVE  /\ IntentTurn'
           /\ \A k \in Intents!Id : current < k /\ k \notin intents_cancelled =>
                current' # 0 /\ current' <= k /\ k \notin intents_cancelled'
<1> DEFINE c == Intents!Following(current)
<1>1. current \in 0..MaxId /\ nextTicket \in 0..MaxId /\ MaxId \in Nat
  BY ShellAssumption DEF IntentTurn, IntentNumbers
<1>2. c \in 0..MaxId /\ (\A k \in Intents!Id : current < k => c # 0 /\ c <= k)
  BY <1>1 DEF Intents!Following, Intents!Id
<1>3. nextTicket # 0 => 1 <= c /\ c <= nextTicket
  <2>1. Issued(current)
    BY DEF IntentOpen
  <2>2. QED  BY <1>1, <2>1 DEF Issued, Intents!Following
<1> HIDE DEF c
<1>4. /\ IntentTurn'
      /\ \A k \in Intents!Id : c # 0 /\ c <= k /\ k \notin intents_cancelled =>
           current' # 0 /\ current' <= k /\ k \notin intents_cancelled'
  <2>1. Intents!TurnIs(c, intents_cancelled)
    BY DEF c
  <2>2. intents_cancelled \subseteq Intents!Id /\ \A k \in intents_cancelled : Issued(k)
    BY DEF IntentTurn
  <2>3. QED  BY <1>1, <1>2, <1>3, <2>1, <2>2, TurnMoves
<1>5. QED  BY <1>2, <1>4

\* What is left of a list of scheduled intents was there before, in the same order.
LEMMA ListsShrink ==
    ASSUME IntentTyped, NEW u \in Thread,
           \/ Scheduled(u)' = Scheduled(u) \/ Scheduled(u)' = <<>>
           \/ Scheduled(u) # <<>> /\ Scheduled(u)' = Tail(Scheduled(u))
    PROVE  \E s \in {0, 1} : \A i \in DOMAIN Scheduled(u)' : i + s \in DOMAIN Scheduled(u) /\
        Scheduled(u)'[i] = Scheduled(u)[i + s]
<1> DEFINE old == Scheduled(u)
           new == Scheduled(u)'
<1>1. old \in Seq(Intents!Id \X Intents!Id) /\ DOMAIN old = 1..Len(old) /\ Len(old) \in Nat
  BY ScheduledTyped
<1>2. new = old \/ new = <<>> \/ (old # <<>> /\ new = Tail(old))
  OBVIOUS
<1> SUFFICES \E s \in {0, 1} : \A i \in DOMAIN new : i + s \in DOMAIN old /\ new[i] = old[i + s]
  OBVIOUS
<1> HIDE DEF old, new
<1>3. CASE new = old
  BY <1>1, <1>3
<1>4. CASE new = <<>>
  BY <1>4
<1>5. CASE old # <<>> /\ new = Tail(old)
  <2>1. \A i \in DOMAIN new : i + 1 \in DOMAIN old /\ new[i] = old[i + 1]
    BY <1>1, <1>5
  <2>2. QED  BY <2>1
<1>6. QED  BY <1>2, <1>3, <1>4, <1>5

\* Every thread has scheduled what it had, or all but the first.
Shrinks == \A u \in Thread : \E s \in {0, 1} : \A i \in DOMAIN Scheduled(u)' :
             i + s \in DOMAIN Scheduled(u) /\ Scheduled(u)'[i] = Scheduled(u)[i + s]

\* What only shrinks stays in order.
LEMMA OrderShrinks ==
    ASSUME IntentTyped, IntentTyped', IntentOrdered, Shrinks, \A a, b : IntentBefore(a, b) =>
        IntentBefore(a, b)'
    PROVE  IntentOrdered'
<1> SUFFICES ASSUME NEW t \in Thread, NEW u \in Thread, NEW i \in DOMAIN Scheduled(t)',
    NEW j \in DOMAIN Scheduled(u)'
             PROVE  /\ Scheduled(t)'[i][1] = Scheduled(u)'[j][1] => t = u /\ i = j
                    /\ Scheduled(t)'[i][1] < Scheduled(u)'[j][1] =>
                         (IntentBefore(Scheduled(t)[i][2], Scheduled(u)[j][2]))'
  BY DEF IntentOrdered
<1>1. PICK s \in {0, 1} :
        \A k \in DOMAIN Scheduled(t)' : k + s \in DOMAIN Scheduled(t) /\
            Scheduled(t)'[k] = Scheduled(t)[k + s]
  BY DEF Shrinks
<1>2. PICK r \in {0, 1} :
        \A k \in DOMAIN Scheduled(u)' : k + r \in DOMAIN Scheduled(u) /\
            Scheduled(u)'[k] = Scheduled(u)[k + r]
  BY DEF Shrinks
<1>3. i \in Int /\ j \in Int
  <2>1. DOMAIN Scheduled(t)' = 1..Len(Scheduled(t)') /\
           DOMAIN Scheduled(u)' = 1..Len(Scheduled(u)')
    BY ScheduledStaysTyped
  <2>2. QED  BY <2>1
<1>4. Scheduled(t)'[i][1] = Scheduled(u)'[j][1] => t = u /\ i = j
  <2> SUFFICES ASSUME Scheduled(t)'[i][1] = Scheduled(u)'[j][1] PROVE t = u /\ i = j
    OBVIOUS
  <2>1. t = u
    BY <1>1, <1>2 DEF IntentOrdered
  <2>2. i + s = j + s
    <3>1. j \in DOMAIN Scheduled(t)' /\ Scheduled(t)'[i][1] = Scheduled(t)'[j][1]
      BY <2>1
    <3>2. QED  BY <1>1, <3>1 DEF IntentOrdered
  <2>3. QED  BY <1>1, <1>3, <2>1, <2>2
<1>5. ASSUME Scheduled(t)'[i][1] < Scheduled(u)'[j][1]
      PROVE  (IntentBefore(Scheduled(t)[i][2], Scheduled(u)[j][2]))'
  <2> DEFINE a == Scheduled(t)[i + s]
             b == Scheduled(u)[j + r]
  <2>1. IntentBefore(a[2], b[2])
    BY <1>1, <1>2, <1>5 DEF IntentOrdered
  <2>2. a = Scheduled(t)'[i] /\ b = Scheduled(u)'[j]
    BY <1>1, <1>2
  <2> HIDE DEF a, b
  <2>3. \E k, l \in DOMAIN arrived' : k < l /\ arrived'[k] = a[2] /\ arrived'[l] = b[2]
    <3>1. PICK x, y : x = a[2] /\ y = b[2]
      OBVIOUS
    <3>2. IntentBefore(x, y)
      BY <2>1, <3>1
    <3>3. IntentBefore(x, y)'
      BY <3>2
    <3>4. QED  BY <3>1, <3>3 DEF IntentBefore
  <2>4. \E k, l \in DOMAIN arrived' : k < l /\ arrived'[k] = Scheduled(t)'[i][2] /\
           arrived'[l] = Scheduled(u)'[j][2]
    BY <2>1, <2>2, <2>3
  <2>5. QED  BY <2>4 DEF IntentBefore
<1>6. QED  BY <1>4, <1>5
\* Nothing that arrived is forgotten.
LEMMA ArrivalsStay ==
    ASSUME IntentLists, IntentStep
    PROVE  /\ \A a : IntentArrived(a) => IntentArrived(a)'
           /\ \A a, b : IntentBefore(a, b) => IntentBefore(a, b)'
<1>1. CASE UNCHANGED arrived
  BY <1>1 DEF IntentArrived, IntentBefore
<1>2. ASSUME NEW id \in Intents!Id, arrived' = Append(arrived, id)
      PROVE  /\ \A a : IntentArrived(a) => IntentArrived(a)'
             /\ \A a, b : IntentBefore(a, b) => IntentBefore(a, b)'
  BY <1>2, ArrivalsGrow
<1>3. UNCHANGED arrived \/ \E id \in Intents!Id : arrived' = Append(arrived, id)
  BY DEF IntentStep, IntentQuiet, IntentGivesUp, IntentEmits, IntentQueues, IntentSchedules
<1>4. QED  BY <1>1, <1>2, <1>3

\* The tickets of a step: none is taken back.
LEMMA IssuedStay ==
    ASSUME IntentNumbers, IntentTurn, IntentStep
    PROVE  \A k \in Intents!Id : Issued(k) => Issued(k)'
<1>1. CASE UNCHANGED nextTicket
  BY <1>1 DEF Issued
<1>2. ASSUME NEW t \in Thread, NEW ids \in Seq(Intents!Id), IntentSchedules(t, ids)
      PROVE  \A k \in Intents!Id : Issued(k) => Issued(k)'
  <2>1. PICK n \in 0..Len(ids) :
          /\ n = 0 => nextTicket' = nextTicket
          /\ n > 0 => nextTicket # 0 /\ (nextTicket' = 0 \/ nextTicket' = nextTicket + n)
    BY <1>2 DEF IntentSchedules
  <2>2. n \in Nat /\ nextTicket \in Nat
    BY ShellAssumption DEF IntentNumbers
  <2>3. QED  BY <2>1, <2>2 DEF Issued, Intents!Id
<1>3. QED
  BY <1>1, <1>2 DEF IntentStep, IntentQuiet, IntentGivesUp, IntentEmits, IntentQueues

\* Nothing waits once the frontend is ready.
LEMMA IntentReadyKept ==
    IntentReady /\ IntentHeld /\ IntentStep => IntentReady'
<1> SUFFICES ASSUME IntentReady, IntentHeld, IntentStep PROVE IntentReady'
  OBVIOUS
<1>1. CASE IntentQuiet
  BY <1>1 DEF IntentQuiet, IntentReady
<1>2. ASSUME NEW t \in Thread, IntentGivesUp(t) PROVE IntentReady'
  <2>1. /\ UNCHANGED <<ready, intents_pending, emitted, inFlight, consumed>>
        /\ \A u \in Thread : Scheduled(u)' \in {Scheduled(u), <<>>}
    BY <1>2 DEF IntentGivesUp, OthersStay
  <2>2. QED  BY <2>1 DEF IntentReady
<1>3. ASSUME NEW t \in Thread, IntentEmits(t) PROVE IntentReady'
  <2>1. Scheduled(t) # <<>>
    BY <1>3 DEF IntentEmits, IntentHeld
  <2>2. ready = TRUE
    BY <2>1 DEF IntentReady
  <2>3. UNCHANGED <<ready, intents_pending>>
    BY <1>3 DEF IntentEmits
  <2>4. QED  BY <2>2, <2>3 DEF IntentReady
<1>4. ASSUME NEW t \in Thread, NEW id \in Intents!Id, IntentQueues(t, id) PROVE IntentReady'
  <2>1. /\ ready = FALSE /\ UNCHANGED <<ready, emitted, inFlight, consumed>>
        /\ \A u \in Thread : Scheduled(u)' \in {Scheduled(u), <<>>}
    BY <1>4 DEF IntentQueues, OthersStay
  <2>2. QED  BY <2>1 DEF IntentReady
<1>5. ASSUME NEW t \in Thread, NEW ids \in Seq(Intents!Id),
         IntentSchedules(t, ids) PROVE IntentReady'
  BY <1>5 DEF IntentSchedules, IntentReady
<1>6. QED  BY <1>1, <1>2, <1>3, <1>4, <1>5 DEF IntentStep

\* A full queue loses its oldest intent.
LEMMA RoomInQueue ==
    ASSUME IntentLists, NEW id \in Intents!Id
    PROVE  \E s \in {0, 1} :
             /\ Append(Intents!Room, id) \in Seq(Intents!Id) /\
                    Len(Append(Intents!Room, id)) <= MaxLength
             /\ \A i \in DOMAIN Append(Intents!Room, id) :
                  \/ i = Len(Intents!Room) + 1 /\ Append(Intents!Room, id)[i] = id
                  \/ /\ i \in 1..Len(Intents!Room) /\ i + s \in DOMAIN intents_pending
                     /\ Append(Intents!Room, id)[i] = intents_pending[i + s]
<1>1. intents_pending \in Seq(Intents!Id) /\ Len(intents_pending) \in 0..MaxLength /\
         MaxLength \in Nat /\ MaxLength > 0
  BY ShellAssumption DEF IntentLists
<1>2. \E s \in {0, 1} :
        /\ Intents!Room \in Seq(Intents!Id) /\ Len(Intents!Room) < MaxLength
        /\ \A i \in 1..Len(Intents!Room) : i + s \in DOMAIN intents_pending /\
               Intents!Room[i] = intents_pending[i + s]
  <2>1. CASE Len(intents_pending) = MaxLength
    <3>1. Intents!Room = Tail(intents_pending) /\ intents_pending # <<>>
      BY <1>1, <2>1 DEF Intents!Room
    <3>2. /\ Intents!Room \in Seq(Intents!Id) /\ Len(Intents!Room) < MaxLength
          /\ \A i \in 1..Len(Intents!Room) : i + 1 \in DOMAIN intents_pending /\
                 Intents!Room[i] = intents_pending[i + 1]
      BY <1>1, <3>1
    <3>3. QED  BY <3>2
  <2>2. CASE Len(intents_pending) # MaxLength
    <3>1. Intents!Room = intents_pending
      BY <2>2 DEF Intents!Room
    <3>2. /\ Intents!Room \in Seq(Intents!Id) /\ Len(Intents!Room) < MaxLength
          /\ \A i \in 1..Len(Intents!Room) : i + 0 \in DOMAIN intents_pending /\
                 Intents!Room[i] = intents_pending[i + 0]
      BY <1>1, <2>2, <3>1
    <3>3. QED  BY <3>2
  <2>3. QED  BY <2>1, <2>2
<1> DEFINE room == Intents!Room
<1> HIDE DEF room
<1>3. ASSUME room \in Seq(Intents!Id), Len(room) < MaxLength
      PROVE  /\ Append(room, id) \in Seq(Intents!Id) /\ Len(Append(room, id)) <= MaxLength
             /\ \A i \in DOMAIN Append(room, id) :
                  \/ i = Len(room) + 1 /\ Append(room, id)[i] = id
                  \/ i \in 1..Len(room) /\ Append(room, id)[i] = room[i]
  BY <1>1, <1>3
<1>4. QED  BY <1>2, <1>3 DEF room

\* Every step keeps the lists, and the length of the queue.
LEMMA IntentListsKept ==
    IntentTyped /\ IntentLists /\ IntentHeld /\ IntentOpen /\ IntentStep => IntentLists'
<1> SUFFICES ASSUME IntentTyped, IntentLists, IntentHeld, IntentOpen,
    IntentStep PROVE IntentLists'
  OBVIOUS
<1>1. CASE UNCHANGED <<intents_pending, emitted, arrived>>
  BY <1>1 DEF IntentLists
<1>2. ASSUME NEW t \in Thread, IntentEmits(t) PROVE IntentLists'
  <2>1. Scheduled(t) # <<>> /\ Scheduled(t) \in Seq(Intents!Id \X Intents!Id)
    BY <1>2, ScheduledTyped DEF IntentEmits, IntentHeld
  <2>2. Scheduled(t)[1][2] \in Intents!Id
    BY <2>1
  <2>3. emitted' \in Seq(Intents!Id) /\ UNCHANGED <<intents_pending, arrived>>
    BY <1>2, <2>2 DEF IntentEmits, IntentLists
  <2>4. QED  BY <2>3 DEF IntentLists
<1>3. ASSUME NEW t \in Thread, NEW id \in Intents!Id, IntentQueues(t, id) PROVE IntentLists'
  <2>1. arrived' = Append(arrived, id) /\ intents_pending' = Append(Intents!Room, id) /\
           UNCHANGED emitted
    BY <1>3 DEF IntentQueues
  <2>2. intents_pending' \in Seq(Intents!Id) /\ Len(intents_pending') <= MaxLength
    BY <2>1, RoomInQueue
  <2>3. arrived' \in Seq(Intents!Id)
    BY <2>1 DEF IntentLists
  <2>4. QED  BY <2>1, <2>2, <2>3 DEF IntentLists
<1>4. ASSUME NEW t \in Thread, NEW ids \in Seq(Intents!Id),
         IntentSchedules(t, ids) PROVE IntentLists'
  <2>1. /\ intents_pending' = <<>> /\ UNCHANGED emitted
        /\ UNCHANGED arrived \/ \E id \in Intents!Id : arrived' = Append(arrived, id)
    BY <1>4 DEF IntentSchedules
  <2>2. arrived' \in Seq(Intents!Id)
    <3>1. ASSUME NEW id \in Intents!Id PROVE Append(arrived, id) \in Seq(Intents!Id)
      BY DEF IntentLists
    <3>2. QED  BY <2>1, <3>1 DEF IntentLists
  <2>3. intents_pending' \in Seq(Intents!Id) /\ Len(intents_pending') <= MaxLength
    BY <2>1, ShellAssumption
  <2>4. QED  BY <2>1, <2>2, <2>3 DEF IntentLists
<1>5. QED
  BY <1>1, <1>2, <1>3, <1>4 DEF IntentStep, IntentQuiet, IntentGivesUp

\* The queue stays in the order of arrival.
LEMMA IntentQueuedKept ==
    IntentLists /\ IntentQueued /\ IntentStep => IntentQueued'
<1> SUFFICES ASSUME IntentLists, IntentQueued, IntentStep PROVE IntentQueued'
  OBVIOUS
<1>1. CASE UNCHANGED <<intents_pending, arrived>>
  BY <1>1 DEF IntentQueued, IntentArrived, IntentBefore
<1>2. CASE intents_pending' = <<>>
  BY <1>2 DEF IntentQueued
<1>3. ASSUME NEW t \in Thread, NEW id \in Intents!Id, IntentQueues(t, id) PROVE IntentQueued'
  <2>1. arrived' = Append(arrived, id) /\ intents_pending' = Append(Intents!Room, id)
    BY <1>3 DEF IntentQueues
  <2> DEFINE old == intents_pending
             new == intents_pending'
             m == Len(Intents!Room)
  <2>2. PICK s \in {0, 1} :
          \A i \in DOMAIN new : \/ i = m + 1 /\ new[i] = id
                                \/ i \in 1..m /\ i + s \in DOMAIN old /\ new[i] = old[i + s]
    BY <2>1, RoomInQueue
  <2>3. /\ IntentArrived(id)'
        /\ \A a : IntentArrived(a) => IntentArrived(a)' /\ IntentBefore(a, id)'
        /\ \A a, b : IntentBefore(a, b) => IntentBefore(a, b)'
    BY <2>1, ArrivalsGrow
  <2>4. ASSUME NEW i \in DOMAIN new PROVE \E x : x = new[i] /\ IntentArrived(x)'
    BY <2>2, <2>3 DEF IntentQueued
  <2>5. ASSUME NEW i \in DOMAIN new, NEW j \in DOMAIN new, i < j
        PROVE \E x, y : x = new[i] /\ y = new[j] /\ IntentBefore(x, y)'
    <3>1. PICK x, y : x = new[i] /\ y = new[j]
      OBVIOUS
    <3>2. i # m + 1
      BY <2>2, <2>5
    <3>3. i + s \in DOMAIN old /\ x = old[i + s] /\ i \in Int
      BY <2>2, <3>1, <3>2
    <3>4. IntentArrived(x)
      BY <3>3 DEF IntentQueued
    <3>5. CASE j = m + 1 /\ y = id
      BY <2>3, <3>1, <3>4, <3>5
    <3>6. CASE j \in 1..m /\ j + s \in DOMAIN old /\ y = old[j + s]
      <4>1. i + s < j + s
        BY <2>5, <3>3, <3>6
      <4>2. IntentBefore(x, y)
        BY <3>3, <3>6, <4>1 DEF IntentQueued
      <4>3. QED  BY <2>3, <3>1, <4>2
    <3>7. QED  BY <2>2, <3>1, <3>5, <3>6
  <2>6. QED  BY <2>4, <2>5 DEF IntentQueued, IntentArrived, IntentBefore
<1>4. QED
  BY <1>1, <1>2, <1>3 DEF IntentStep, IntentQuiet, IntentGivesUp, IntentEmits, IntentSchedules

\* Who holds the turn has it first in its list.
LEMMA FirstIsScheduled ==
    ASSUME IntentTyped, NEW t \in Thread, Scheduled(t) # <<>>
    PROVE  1 \in DOMAIN Scheduled(t)
<1> DEFINE s == Scheduled(t)
<1>1. s \in Seq(Intents!Id \X Intents!Id) /\ s # <<>>
  BY ScheduledTyped
<1> HIDE DEF s
<1>2. 1 \in DOMAIN s
  BY <1>1
<1>3. QED  BY <1>2 DEF s

\* Who emits has a scheduled intent, whose ticket is the turn.
LEMMA EmitterIsScheduled ==
    ASSUME IntentTyped, IntentHeld, IntentOpen, NEW t \in Thread, intents_pc[t] = "emit"
    PROVE  /\ Scheduled(t) # <<>> /\ 1 \in DOMAIN Scheduled(t) /\
                  Scheduled(t)[1][1] = current /\ current # 0
           /\ current \notin intents_cancelled
BY FirstIsScheduled DEF IntentHeld, IntentOpen

\* The turn is never a ticket nobody will take.
LEMMA IntentTurnKept ==
    /\ IntentNumbers /\ IntentNumbers' /\ IntentTyped /\ IntentTurn /\ IntentOpen /\
           IntentHeld /\ IntentStep
    => IntentTurn'
<1> SUFFICES ASSUME IntentNumbers, IntentNumbers', IntentTyped, IntentTurn, IntentOpen,
    IntentHeld, IntentStep
             PROVE IntentTurn'
  OBVIOUS
<1>1. CASE UNCHANGED <<nextTicket, current, intents_cancelled>>
  BY <1>1 DEF IntentTurn, Issued
<1>2. ASSUME NEW t \in Thread, IntentGivesUp(t) PROVE IntentTurn'
  BY <1>2, TurnGivenUp DEF IntentGivesUp
<1>3. ASSUME NEW t \in Thread, IntentEmits(t) PROVE IntentTurn'
  <2>1. /\ Scheduled(t) # <<>> /\ 1 \in DOMAIN Scheduled(t) /\ Scheduled(t)[1][1] = current /\
           current # 0
        /\ UNCHANGED nextTicket
    BY <1>3, EmitterIsScheduled DEF IntentEmits
  <2>2. CASE Intents!TurnIs(Intents!Following(current), intents_cancelled)
    BY <2>1, <2>2, TurnCompleted
  <2>3. CASE Intents!TurnIs(current, intents_cancelled \cup Tickets(t))
    BY <2>1, <2>3, TurnGivenUp
  <2>4. QED  BY <1>3, <2>2, <2>3 DEF IntentEmits
<1>4. ASSUME NEW t \in Thread, NEW ids \in Seq(Intents!Id),
         IntentSchedules(t, ids) PROVE IntentTurn'
  <2>1. UNCHANGED <<current, intents_cancelled>>
    BY <1>4 DEF IntentSchedules
  <2>2. \A k \in intents_cancelled' : Issued(k)'
    BY <2>1, IssuedStay DEF IntentTurn
  <2>3. PICK n \in 0..Len(ids) :
          /\ n = 0 => nextTicket' = nextTicket
          /\ n > 0 => nextTicket # 0 /\ (nextTicket' = 0 \/ nextTicket' = nextTicket + n)
    BY <1>4 DEF IntentSchedules
  <2>4. nextTicket' # 0 => 1 <= current' /\ current' <= nextTicket'
    <3>1. n \in Nat /\ nextTicket \in Nat /\ current \in Nat
      BY ShellAssumption DEF IntentNumbers, IntentTurn
    <3>2. QED  BY <2>1, <2>3, <3>1 DEF IntentTurn
  <2>5. QED  BY <2>1, <2>2, <2>4 DEF IntentTurn
<1>5. QED
  BY <1>1, <1>2, <1>3, <1>4 DEF IntentStep, IntentQuiet, IntentQueues

\* No step takes the turn from the one who emits.
LEMMA IntentHeldKept ==
    /\ IntentNumbers /\ IntentTyped /\ IntentTurn /\ IntentOpen /\ IntentOrdered /\
           IntentHeld /\ IntentStep
    => IntentHeld'
<1> SUFFICES ASSUME IntentNumbers, IntentTyped, IntentTurn, IntentOpen, IntentOrdered,
    IntentHeld, IntentStep,
                    NEW u \in Thread, intents_pc'[u] = "emit"
             PROVE Scheduled(u)' # <<>> /\ Scheduled(u)'[1][1] = current'
  BY DEF IntentHeld
<1>1. CASE IntentQuiet
  BY <1>1 DEF IntentQuiet, IntentHeld
<1>2. ASSUME NEW t \in Thread, IntentGivesUp(t) PROVE Scheduled(u)' # <<>> /\
         Scheduled(u)'[1][1] = current'
  <2>1. u # t /\ Scheduled(u)' = Scheduled(u) /\ intents_pc[u] = "emit" /\ UNCHANGED nextTicket
    BY <1>2 DEF IntentGivesUp, OthersStay
  <2>2. /\ Scheduled(u) # <<>> /\ 1 \in DOMAIN Scheduled(u) /\ Scheduled(u)[1][1] = current /\
           current # 0
        /\ current \notin intents_cancelled
    BY <2>1, EmitterIsScheduled
  <2>3. current \notin Tickets(t)
    BY <2>1, <2>2 DEF Tickets, IntentOrdered
  <2>4. current' = current
    BY <1>2, <2>1, <2>2, <2>3, TurnGivenUp DEF IntentGivesUp
  <2>5. QED  BY <2>1, <2>2, <2>4
<1>3. ASSUME NEW t \in Thread, IntentEmits(t) PROVE FALSE
  <2>1. u # t /\ intents_pc[u] = "emit" /\ intents_pc[t] = "emit"
    BY <1>3 DEF IntentEmits, OthersStay
  <2>2. /\ 1 \in DOMAIN Scheduled(u) /\ Scheduled(u)[1][1] = current
        /\ 1 \in DOMAIN Scheduled(t) /\ Scheduled(t)[1][1] = current
    BY <2>1, EmitterIsScheduled
  <2>3. QED  BY <2>1, <2>2 DEF IntentOrdered
<1>4. ASSUME NEW t \in Thread, OthersStay(t), intents_pc'[t] # "emit", UNCHANGED current
      PROVE Scheduled(u)' # <<>> /\ Scheduled(u)'[1][1] = current'
  BY <1>4 DEF OthersStay, IntentHeld
<1>5. QED
  BY <1>1, <1>2, <1>3, <1>4 DEF IntentStep, IntentQueues, IntentSchedules

\* An emission comes after all others, in the order of arrival.
LEMMA IntentEmittedKept ==
    /\ IntentTyped /\ IntentLists /\ IntentHeld /\ IntentOpen /\ IntentEmitted /\ IntentStep
    => IntentEmitted'
<1> SUFFICES ASSUME IntentTyped, IntentLists, IntentHeld, IntentOpen, IntentEmitted,
    IntentStep PROVE IntentEmitted'
  OBVIOUS
<1>1. /\ \A a : IntentArrived(a) => IntentArrived(a)'
      /\ \A a, b : IntentBefore(a, b) => IntentBefore(a, b)'
  BY ArrivalsStay
<1>2. CASE UNCHANGED emitted
  <2>1. ASSUME NEW i \in DOMAIN emitted PROVE (IntentArrived(emitted[i]))'
    <3>1. PICK x : x = emitted[i]
      OBVIOUS
    <3>2. IntentArrived(x)'
      BY <1>1, <3>1 DEF IntentEmitted
    <3>3. QED  BY <1>2, <3>1, <3>2 DEF IntentArrived
  <2>2. ASSUME NEW i \in DOMAIN emitted, NEW j \in DOMAIN emitted,
           i < j PROVE (IntentBefore(emitted[i], emitted[j]))'
    <3>1. PICK x, y : x = emitted[i] /\ y = emitted[j]
      OBVIOUS
    <3>2. IntentBefore(x, y)'
      BY <1>1, <2>2, <3>1 DEF IntentEmitted
    <3>3. QED  BY <1>2, <3>1, <3>2 DEF IntentBefore
  <2>3. QED  BY <1>2, <2>1, <2>2 DEF IntentEmitted
<1>3. ASSUME NEW t \in Thread, IntentEmits(t) PROVE IntentEmitted'
  <2> DEFINE m == Len(emitted)
  <2>1. PICK id : id = Scheduled(t)[1][2]
    OBVIOUS
  <2>2. /\ Scheduled(t) # <<>> /\ 1 \in DOMAIN Scheduled(t) /\ intents_pc[t] = "emit"
        /\ UNCHANGED arrived /\ emitted' = Append(emitted, id)
    BY <1>3, <2>1, EmitterIsScheduled DEF IntentEmits
  <2>3. IntentArrived(id) /\ (\A j \in DOMAIN emitted : IntentBefore(emitted[j], id)) /\
           id \in Intents!Id
    BY <2>1, <2>2, ScheduledTyped DEF IntentOpen
  <2>4. /\ DOMAIN emitted' = (DOMAIN emitted) \cup {m + 1} /\ DOMAIN emitted = 1..m /\ m \in Nat
        /\ emitted'[m + 1] = id /\ \A i \in DOMAIN emitted : emitted'[i] = emitted[i]
    BY <2>2, <2>3 DEF IntentLists
  <2> HIDE DEF m
  <2>5. \A i \in DOMAIN emitted' : \E k \in DOMAIN arrived' : arrived'[k] = emitted'[i]
    BY <2>2, <2>3, <2>4 DEF IntentEmitted, IntentArrived
  <2>6. ASSUME NEW i \in DOMAIN emitted', NEW j \in DOMAIN emitted', i < j
        PROVE \E k, l \in DOMAIN arrived' : k < l /\ arrived'[k] = emitted'[i] /\
            arrived'[l] = emitted'[j]
    <3>1. i \in DOMAIN emitted
      BY <2>4, <2>6
    <3>2. CASE j = m + 1
      BY <2>2, <2>3, <2>4, <3>1, <3>2 DEF IntentBefore
    <3>3. CASE j \in DOMAIN emitted
      BY <2>2, <2>4, <2>6, <3>1, <3>3 DEF IntentEmitted, IntentBefore
    <3>4. QED  BY <2>4, <3>2, <3>3
  <2>7. QED  BY <2>5, <2>6 DEF IntentEmitted, IntentArrived, IntentBefore
<1>4. QED
  BY <1>2, <1>3 DEF IntentStep, IntentQuiet, IntentGivesUp, IntentQueues, IntentSchedules

\* An entry that is still scheduled arrived before, and after all that was emitted before.
LEMMA EntryStays ==
    ASSUME IntentNumbers, IntentTyped, IntentLists, IntentTurn, IntentOpen, IntentStep,
           NEW t \in Thread, NEW i \in DOMAIN Scheduled(t)', NEW k \in DOMAIN Scheduled(t),
           Scheduled(t)'[i] = Scheduled(t)[k]
    PROVE  /\ (Issued(Scheduled(t)[i][1]))' /\ (IntentArrived(Scheduled(t)[i][2]))'
           /\ \A j \in DOMAIN emitted : \E x : x = emitted[j] /\
                \E p, q \in DOMAIN arrived' : p < q /\ arrived'[p] = x /\
                    arrived'[q] = Scheduled(t)'[i][2]
<1>1. PICK ticket, id : ticket = Scheduled(t)[k][1] /\ id = Scheduled(t)[k][2]
  OBVIOUS
<1>2. ticket \in Intents!Id /\ id \in Intents!Id
  BY <1>1, ScheduledTyped
<1>3. Issued(ticket) /\ IntentArrived(id) /\
         \A j \in DOMAIN emitted : IntentBefore(emitted[j], id)
  BY <1>1 DEF IntentOpen
<1>4. Issued(ticket)' /\ IntentArrived(id)'
  BY <1>2, <1>3, IssuedStay, ArrivalsStay
<1>5. ASSUME NEW j \in DOMAIN emitted
      PROVE  \E x : x = emitted[j] /\ \E p, q \in DOMAIN arrived' : p < q /\ arrived'[p] = x /\
          arrived'[q] = id
  <2>1. PICK x : x = emitted[j]
    OBVIOUS
  <2>2. IntentBefore(x, id)'
    BY <1>3, <2>1, ArrivalsStay
  <2>3. QED  BY <2>1, <2>2 DEF IntentBefore
<1>6. Scheduled(t)'[i][1] = ticket /\ Scheduled(t)'[i][2] = id
  BY <1>1
<1>7. (Issued(Scheduled(t)[i][1]))' /\ (IntentArrived(Scheduled(t)[i][2]))'
  BY <1>4, <1>6 DEF Issued, IntentArrived
<1>8. QED  BY <1>5, <1>6, <1>7

\* What is scheduled by a step arrived after all that is scheduled or emitted.
IntentAhead ==
    \A t \in Thread : \A i \in DOMAIN Scheduled(t) :
      current # 0 /\ current <= Scheduled(t)[i][1] /\ Scheduled(t)[i][1] \notin intents_cancelled

\* The turn is never past what is scheduled.
LEMMA AheadKept ==
    /\ IntentNumbers /\ IntentTyped /\ IntentReady /\ IntentTurn /\ IntentOpen /\
           IntentOrdered /\ IntentHeld /\ IntentStep
    => IntentAhead'
<1> SUFFICES ASSUME IntentNumbers, IntentTyped, IntentReady, IntentTurn, IntentOpen,
    IntentOrdered, IntentHeld, IntentStep,
                    NEW u \in Thread, NEW i \in DOMAIN Scheduled(u)'
             PROVE current' # 0 /\ current' <= Scheduled(u)'[i][1] /\
                 Scheduled(u)'[i][1] \notin intents_cancelled'
  BY DEF IntentAhead
<1>1. ASSUME UNCHANGED <<current, intents_cancelled>>, Scheduled(u)' \in {Scheduled(u), <<>>}
      PROVE current' # 0 /\ current' <= Scheduled(u)'[i][1] /\
          Scheduled(u)'[i][1] \notin intents_cancelled'
  <2>1. Scheduled(u)' = Scheduled(u)
    BY <1>1
  <2>2. QED  BY <1>1, <2>1 DEF IntentOpen
<1>2. ASSUME NEW t \in Thread, UNCHANGED nextTicket, Scheduled(t)' = <<>>, OthersStay(t),
             Intents!TurnIs(current, intents_cancelled \cup Tickets(t))
      PROVE current' # 0 /\ current' <= Scheduled(u)'[i][1] /\
          Scheduled(u)'[i][1] \notin intents_cancelled'
  <2>1. u # t /\ Scheduled(u)' = Scheduled(u)
    BY <1>2 DEF OthersStay
  <2> DEFINE k == Scheduled(u)[i][1]
  <2>2. k \in Intents!Id /\ current # 0 /\ current <= k /\ k \notin intents_cancelled
    BY <2>1, ScheduledTyped DEF IntentOpen
  <2>3. k \notin Tickets(t)
    BY <2>1 DEF Tickets, IntentOrdered
  <2> HIDE DEF k
  <2>4. current' # 0 /\ current' <= k /\ k \notin intents_cancelled'
    BY <1>2, <2>2, <2>3, TurnGivenUp
  <2>5. QED  BY <2>1, <2>4 DEF k
<1>3. ASSUME NEW t \in Thread, IntentEmits(t)
      PROVE current' # 0 /\ current' <= Scheduled(u)'[i][1] /\
          Scheduled(u)'[i][1] \notin intents_cancelled'
  <2>1. /\ Scheduled(t) # <<>> /\ 1 \in DOMAIN Scheduled(t) /\ Scheduled(t)[1][1] = current /\
           current # 0
        /\ UNCHANGED nextTicket /\ OthersStay(t)
    BY <1>3, EmitterIsScheduled DEF IntentEmits
  <2>2. CASE Scheduled(t)' = Tail(Scheduled(t)) /\
           Intents!TurnIs(Intents!Following(current), intents_cancelled)
    <3>1. PICK k \in DOMAIN Scheduled(u) : Scheduled(u)'[i] = Scheduled(u)[k] /\ (u = t => k # 1)
      <4>1. CASE u = t
        <5> DEFINE s == Scheduled(t)
        <5>1. s \in Seq(Intents!Id \X Intents!Id) /\ s # <<>> /\ i \in DOMAIN Tail(s) /\
                 Scheduled(u)'[i] = Tail(s)[i]
          BY <2>1, <2>2, <4>1, ScheduledTyped
        <5> HIDE DEF s
        <5>2. i + 1 \in DOMAIN s /\ Tail(s)[i] = s[i + 1] /\ i + 1 # 1
          BY <5>1
        <5>3. QED  BY <4>1, <5>1, <5>2 DEF s
      <4>2. CASE u # t
        BY <2>1, <4>2 DEF OthersStay
      <4>3. QED  BY <4>1, <4>2
    <3>2. PICK ticket : ticket = Scheduled(u)[k][1]
      OBVIOUS
    <3>3. ticket \in Intents!Id /\ current <= ticket /\ ticket \notin intents_cancelled
      BY <3>2, ScheduledTyped DEF IntentOpen
    <3>4. ticket # current
      BY <2>1, <3>1, <3>2 DEF IntentOrdered
    <3>5. current < ticket
      BY <3>3, <3>4 DEF IntentTurn, Intents!Id
    <3>6. current' # 0 /\ current' <= ticket /\ ticket \notin intents_cancelled'
      BY <2>1, <2>2, <3>3, <3>5, TurnCompleted
    <3>7. QED  BY <3>1, <3>2, <3>6
  <2>3. CASE Scheduled(t)' = <<>> /\ Intents!TurnIs(current, intents_cancelled \cup Tickets(t))
    BY <1>2, <2>1, <2>3
  <2>4. QED  BY <1>3, <2>2, <2>3 DEF IntentEmits
<1>4. ASSUME NEW t \in Thread, NEW ids \in Seq(Intents!Id), IntentSchedules(t, ids)
      PROVE current' # 0 /\ current' <= Scheduled(u)'[i][1] /\
          Scheduled(u)'[i][1] \notin intents_cancelled'
  <2>1. UNCHANGED <<current, intents_cancelled>> /\ OthersStay(t)
    BY <1>4 DEF IntentSchedules
  <2>2. CASE u # t
    BY <1>1, <2>1, <2>2 DEF OthersStay
  <2>3. CASE u = t
    <3>1. PICK n \in 0..Len(ids) :
            /\ Scheduled(t)' = [m \in 1..n |-> <<nextTicket + m - 1, ids[m]>>]
            /\ n > 0 => nextTicket # 0 /\ nextTicket + n - 1 <= MaxId
      BY <1>4 DEF IntentSchedules
    <3>2. i \in 1..n /\ Scheduled(u)'[i][1] = nextTicket + i - 1
      BY <2>3, <3>1
    <3>3. n \in Nat /\ nextTicket \in Nat /\ nextTicket # 0
      BY <3>1, <3>2, ShellAssumption DEF IntentNumbers
    <3>4. current \in Nat /\ 1 <= current /\ current <= nextTicket
      BY <3>3, ShellAssumption DEF IntentTurn
    <3>5. \A k \in intents_cancelled : k \in Int /\ k < nextTicket
      BY <3>3 DEF IntentTurn, Issued, Intents!Id
    <3>6. QED  BY <2>1, <3>2, <3>3, <3>4, <3>5
  <2>4. QED  BY <2>2, <2>3
<1>5. QED
  BY <1>1, <1>2, <1>3, <1>4 DEF IntentStep, IntentQuiet, IntentGivesUp, IntentQueues, OthersStay

\* The entries of a new schedule: the next tickets in turn, for intents that arrived in turn.
LEMMA NewEntries ==
    ASSUME IntentNumbers, IntentTyped, IntentLists, IntentReady, IntentQueued, IntentTurn,
        IntentEmitted,
           NEW t \in Thread, NEW ids \in Seq(Intents!Id), IntentSchedules(t, ids)
    PROVE  \E n \in Nat :
             /\ Scheduled(t)' = [i \in 1..n |-> <<nextTicket + i - 1, ids[i]>>]
             /\ n > 0 => nextTicket # 0
             /\ \A i \in 1..n : nextTicket' = 0 \/ nextTicket + i - 1 < nextTicket'
             /\ \A i \in 1..n : \E k \in DOMAIN arrived' : arrived'[k] = ids[i]
             /\ \A i, j \in 1..n : i < j =>
                  \E k, l \in DOMAIN arrived' : k < l /\ arrived'[k] = ids[i] /\
                      arrived'[l] = ids[j]
             /\ \A i \in 1..n, j \in DOMAIN emitted :
                  \E k, l \in DOMAIN arrived' : k < l /\ arrived'[k] = emitted[j] /\
                      arrived'[l] = ids[i]
             /\ \A i \in 1..n, u \in Thread : \A j \in DOMAIN Scheduled(u) :
                    IntentArrived(Scheduled(u)[j][2]) =>
                  \E k, l \in DOMAIN arrived' : k < l /\ arrived'[k] = Scheduled(u)[j][2] /\
                      arrived'[l] = ids[i]
<1>1. PICK n \in 0..Len(ids) :
        /\ Scheduled(t)' = [i \in 1..n |-> <<nextTicket + i - 1, ids[i]>>]
        /\ n = 0 => nextTicket' = nextTicket
        /\ n > 0 => /\ nextTicket # 0 /\ nextTicket + n - 1 <= MaxId
                    /\ nextTicket' = 0 \/ nextTicket' = nextTicket + n
  BY DEF IntentSchedules
<1>2. n \in Nat /\ DOMAIN ids = 1..Len(ids) /\ 1..n \subseteq DOMAIN ids /\ nextTicket \in Nat
  BY ShellAssumption DEF IntentNumbers
<1>4. \A i \in 1..n : nextTicket' = 0 \/ nextTicket + i - 1 < nextTicket'
  BY <1>1, <1>2
<1>5. CASE ids = intents_pending /\ UNCHANGED arrived
  <2>1. \A i \in 1..n : \E k \in DOMAIN arrived' : arrived'[k] = ids[i]
    BY <1>2, <1>5 DEF IntentQueued, IntentArrived
  <2>2. \A i, j \in 1..n : i < j =>
          \E k, l \in DOMAIN arrived' : k < l /\ arrived'[k] = ids[i] /\ arrived'[l] = ids[j]
    BY <1>2, <1>5 DEF IntentQueued, IntentBefore
  <2>3. n > 0 => ready = FALSE
    BY <1>2, <1>5 DEF IntentReady
  <2>4. n > 0 => emitted = <<>> /\ \A u \in Thread : Scheduled(u) = <<>>
    BY <2>3 DEF IntentReady
  <2>5. /\ \A i \in 1..n, j \in DOMAIN emitted :
             \E k, l \in DOMAIN arrived' : k < l /\ arrived'[k] = emitted[j] /\
                 arrived'[l] = ids[i]
        /\ \A i \in 1..n, u \in Thread : \A j \in DOMAIN Scheduled(u) :
               IntentArrived(Scheduled(u)[j][2]) =>
             \E k, l \in DOMAIN arrived' : k < l /\ arrived'[k] = Scheduled(u)[j][2] /\
                 arrived'[l] = ids[i]
    <3>1. CASE n = 0
      BY <3>1
    <3>2. CASE n > 0
      <4>1. DOMAIN emitted = {} /\ \A u \in Thread : DOMAIN Scheduled(u) = {}
        BY <2>4, <3>2
      <4>2. QED  BY <4>1
    <3>3. QED  BY <1>2, <3>1, <3>2
  <2>6. QED  BY <1>1, <1>2, <1>4, <2>1, <2>2, <2>5
<1>6. CASE \E id \in Intents!Id : ids = <<id>> /\ arrived' = Append(arrived, id)
  <2>1. PICK id \in Intents!Id : ids = <<id>> /\ arrived' = Append(arrived, id)
    BY <1>6
  <2>2. IntentArrived(id)' /\ \A a : IntentArrived(a) => IntentBefore(a, id)'
    BY <2>1, ArrivalsGrow
  <2>3. \A i \in 1..n : i = 1 /\ ids[i] = id
    BY <1>2, <2>1
  <2>4. \A j \in DOMAIN emitted : \E k, l \in DOMAIN arrived' : k < l /\
           arrived'[k] = emitted[j] /\ arrived'[l] = id
    <3> SUFFICES ASSUME NEW j \in DOMAIN emitted
                 PROVE \E k, l \in DOMAIN arrived' : k < l /\ arrived'[k] = emitted[j] /\
                     arrived'[l] = id
      OBVIOUS
    <3>1. PICK x : x = emitted[j]
      OBVIOUS
    <3>2. IntentBefore(x, id)'
      BY <2>2, <3>1 DEF IntentEmitted
    <3>3. QED  BY <3>1, <3>2 DEF IntentBefore
  <2>5. ASSUME NEW u \in Thread, NEW j \in DOMAIN Scheduled(u), IntentArrived(Scheduled(u)[j][2])
        PROVE \E k, l \in DOMAIN arrived' : k < l /\ arrived'[k] = Scheduled(u)[j][2] /\
            arrived'[l] = id
    <3>1. PICK x : x = Scheduled(u)[j][2]
      OBVIOUS
    <3>2. IntentBefore(x, id)'
      BY <2>2, <2>5, <3>1
    <3>3. QED  BY <3>1, <3>2 DEF IntentBefore
  <2>6. \A i \in 1..n : \E k \in DOMAIN arrived' : arrived'[k] = ids[i]
    BY <2>2, <2>3 DEF IntentArrived
  <2>7. \A i, j \in 1..n : ~(i < j)
    BY <2>3
  <2>8. QED  BY <1>1, <1>2, <1>4, <2>3, <2>4, <2>5, <2>6, <2>7
<1>7. QED  BY <1>5, <1>6 DEF IntentSchedules

\* No scheduled ticket is passed over.
LEMMA IntentOpenKept ==
    /\ IntentNumbers /\ IntentTyped /\ IntentTyped' /\ IntentLists /\ IntentReady /\
           IntentQueued /\ IntentTurn /\ IntentOpen /\ IntentOrdered
    /\ IntentHeld /\ IntentEmitted /\ IntentStep
    => IntentOpen'
<1> SUFFICES ASSUME IntentNumbers, IntentTyped, IntentTyped', IntentLists, IntentReady,
    IntentQueued, IntentTurn, IntentOpen,
                    IntentOrdered, IntentHeld, IntentEmitted, IntentStep
             PROVE IntentOpen'
  OBVIOUS
<1>1. IntentAhead'
  BY AheadKept
<1>2. SUFFICES ASSUME NEW u \in Thread, NEW i \in DOMAIN Scheduled(u)'
               PROVE  /\ (Issued(Scheduled(u)[i][1]))' /\ (IntentArrived(Scheduled(u)[i][2]))'
                      /\ \A j \in DOMAIN emitted' :
                             (IntentBefore(emitted[j], Scheduled(u)[i][2]))'
  BY <1>1 DEF IntentOpen, IntentAhead
<1>3. ASSUME UNCHANGED emitted, NEW k \in DOMAIN Scheduled(u), Scheduled(u)'[i] = Scheduled(u)[k]
      PROVE  /\ (Issued(Scheduled(u)[i][1]))' /\ (IntentArrived(Scheduled(u)[i][2]))'
             /\ \A j \in DOMAIN emitted' : (IntentBefore(emitted[j], Scheduled(u)[i][2]))'
  <2>1. /\ (Issued(Scheduled(u)[i][1]))' /\ (IntentArrived(Scheduled(u)[i][2]))'
        /\ \A j \in DOMAIN emitted : \E x : x = emitted[j] /\
             \E p, q \in DOMAIN arrived' : p < q /\ arrived'[p] = x /\
                 arrived'[q] = Scheduled(u)'[i][2]
    BY <1>3, EntryStays
  <2>2. QED  BY <1>3, <2>1 DEF IntentBefore
<1>4. ASSUME NEW t \in Thread, IntentEmits(t)
      PROVE  /\ (Issued(Scheduled(u)[i][1]))' /\ (IntentArrived(Scheduled(u)[i][2]))'
             /\ \A j \in DOMAIN emitted' : (IntentBefore(emitted[j], Scheduled(u)[i][2]))'
  <2>1. /\ Scheduled(t) # <<>> /\ 1 \in DOMAIN Scheduled(t) /\ Scheduled(t)[1][1] = current /\
           current # 0
        /\ OthersStay(t) /\ UNCHANGED arrived /\ emitted' = Append(emitted, Scheduled(t)[1][2])
        /\ Scheduled(t)' = <<>> \/ Scheduled(t)' = Tail(Scheduled(t))
    BY <1>4, EmitterIsScheduled DEF IntentEmits
  <2>2. PICK k \in DOMAIN Scheduled(u) : Scheduled(u)'[i] = Scheduled(u)[k] /\ (u = t => k # 1)
    <3>1. CASE u = t
      <4> DEFINE s == Scheduled(t)
      <4>1. s \in Seq(Intents!Id \X Intents!Id) /\ s # <<>> /\ i \in DOMAIN Tail(s) /\
               Scheduled(u)'[i] = Tail(s)[i]
        BY <2>1, <3>1, ScheduledTyped
      <4> HIDE DEF s
      <4>2. i + 1 \in DOMAIN s /\ Tail(s)[i] = s[i + 1] /\ i + 1 # 1
        BY <4>1
      <4>3. QED  BY <3>1, <4>1, <4>2 DEF s
    <3>2. CASE u # t
      BY <2>1, <3>2 DEF OthersStay
    <3>3. QED  BY <3>1, <3>2
  <2>3. /\ (Issued(Scheduled(u)[i][1]))' /\ (IntentArrived(Scheduled(u)[i][2]))'
        /\ \A j \in DOMAIN emitted : \E x : x = emitted[j] /\
             \E p, q \in DOMAIN arrived' : p < q /\ arrived'[p] = x /\
                 arrived'[q] = Scheduled(u)'[i][2]
    BY <2>2, EntryStays
  <2>4. PICK id, other : id = Scheduled(t)[1][2] /\ other = Scheduled(u)[k][2]
    OBVIOUS
  <2>5. IntentBefore(id, other)
    <3>1. Scheduled(u)[k][1] # current /\ current <= Scheduled(u)[k][1] /\
             Scheduled(u)[k][1] \in Intents!Id
      BY <2>1, <2>2, ScheduledTyped DEF IntentOrdered, IntentOpen
    <3>2. current < Scheduled(u)[k][1]
      BY <3>1 DEF IntentTurn, Intents!Id
    <3>3. QED  BY <2>1, <2>4, <3>2 DEF IntentOrdered
  <2>6. /\ DOMAIN emitted' = (DOMAIN emitted) \cup {Len(emitted) + 1}
        /\ emitted'[Len(emitted) + 1] = id /\ \A j \in DOMAIN emitted : emitted'[j] = emitted[j]
    <3>1. id \in Intents!Id
      BY <2>1, <2>4, ScheduledTyped
    <3>2. QED  BY <2>1, <2>4, <3>1 DEF IntentLists
  <2>7. ASSUME NEW j \in DOMAIN emitted'
        PROVE  \E p, q \in DOMAIN arrived' : p < q /\ arrived'[p] = emitted'[j] /\
            arrived'[q] = Scheduled(u)'[i][2]
    <3>1. CASE j \in DOMAIN emitted
      BY <2>3, <2>6, <3>1
    <3>2. CASE j = Len(emitted) + 1
      BY <2>1, <2>2, <2>4, <2>5, <2>6, <3>2 DEF IntentBefore
    <3>3. QED  BY <2>6, <3>1, <3>2
  <2>8. QED  BY <2>3, <2>7 DEF IntentBefore
<1>5. ASSUME NEW t \in Thread, NEW ids \in Seq(Intents!Id), IntentSchedules(t, ids)
      PROVE  /\ (Issued(Scheduled(u)[i][1]))' /\ (IntentArrived(Scheduled(u)[i][2]))'
             /\ \A j \in DOMAIN emitted' : (IntentBefore(emitted[j], Scheduled(u)[i][2]))'
  <2>1. UNCHANGED emitted /\ OthersStay(t)
    BY <1>5 DEF IntentSchedules
  <2>2. CASE u # t
    BY <1>3, <2>1, <2>2 DEF OthersStay
  <2>3. CASE u = t
    <3>1. PICK n \in Nat :
             /\ Scheduled(t)' = [m \in 1..n |-> <<nextTicket + m - 1, ids[m]>>]
             /\ \A m \in 1..n : nextTicket' = 0 \/ nextTicket + m - 1 < nextTicket'
             /\ \A m \in 1..n : \E k \in DOMAIN arrived' : arrived'[k] = ids[m]
             /\ \A m \in 1..n, j \in DOMAIN emitted :
                  \E k, l \in DOMAIN arrived' : k < l /\ arrived'[k] = emitted[j] /\
                      arrived'[l] = ids[m]
      BY <1>5, NewEntries
    <3>2. i \in 1..n /\ Scheduled(u)'[i][1] = nextTicket + i - 1 /\ Scheduled(u)'[i][2] = ids[i]
      BY <2>3, <3>1
    <3>3. (IntentArrived(Scheduled(u)[i][2]))' /\
             \A j \in DOMAIN emitted' : (IntentBefore(emitted[j], Scheduled(u)[i][2]))'
      BY <2>1, <3>1, <3>2 DEF IntentArrived, IntentBefore
    <3>4. (Issued(Scheduled(u)[i][1]))'
      BY <3>1, <3>2 DEF Issued
    <3>5. QED  BY <3>3, <3>4
  <2>4. QED  BY <2>2, <2>3
<1>6. ASSUME UNCHANGED emitted, Scheduled(u)' \in {Scheduled(u), <<>>}
      PROVE  /\ (Issued(Scheduled(u)[i][1]))' /\ (IntentArrived(Scheduled(u)[i][2]))'
             /\ \A j \in DOMAIN emitted' : (IntentBefore(emitted[j], Scheduled(u)[i][2]))'
  <2>1. Scheduled(u)' = Scheduled(u)
    BY <1>6
  <2>2. QED  BY <1>3, <1>6, <2>1
<1>7. QED
  BY <1>4, <1>5, <1>6 DEF IntentStep, IntentQuiet, IntentGivesUp, IntentQueues, OthersStay


\* Tickets stay in the order of arrival, and a new schedule takes tickets no one had.
LEMMA IntentOrderedKept ==
    /\ IntentNumbers /\ IntentTyped /\ IntentTyped' /\ IntentLists /\ IntentReady /\
           IntentQueued /\ IntentTurn
    /\ IntentOpen /\ IntentOrdered /\ IntentHeld /\ IntentEmitted /\ IntentStep
    => IntentOrdered'
<1> SUFFICES ASSUME IntentNumbers, IntentTyped, IntentTyped', IntentLists, IntentReady,
    IntentQueued, IntentTurn,
                    IntentOpen, IntentOrdered, IntentHeld, IntentEmitted, IntentStep
             PROVE IntentOrdered'
  OBVIOUS
<1>1. \A a, b : IntentBefore(a, b) => IntentBefore(a, b)'
  BY ArrivalsStay
<1>2. ASSUME \A u \in Thread : \/ Scheduled(u)' = Scheduled(u) \/ Scheduled(u)' = <<>>
                               \/ Scheduled(u) # <<>> /\ Scheduled(u)' = Tail(Scheduled(u))
      PROVE IntentOrdered'
  <2>1. Shrinks
    BY <1>2, ListsShrink DEF Shrinks
  <2>2. QED  BY <1>1, <2>1, OrderShrinks
<1>3. ASSUME NEW t \in Thread, NEW ids \in Seq(Intents!Id),
         IntentSchedules(t, ids) PROVE IntentOrdered'
  <2>1. PICK n \in Nat :
          /\ Scheduled(t)' = [i \in 1..n |-> <<nextTicket + i - 1, ids[i]>>]
          /\ n > 0 => nextTicket # 0
          /\ \A i, j \in 1..n : i < j =>
               \E k, l \in DOMAIN arrived' : k < l /\ arrived'[k] = ids[i] /\ arrived'[l] = ids[j]
          /\ \A i \in 1..n, u \in Thread : \A j \in DOMAIN Scheduled(u) :
                 IntentArrived(Scheduled(u)[j][2]) =>
               \E k, l \in DOMAIN arrived' : k < l /\ arrived'[k] = Scheduled(u)[j][2] /\
                   arrived'[l] = ids[i]
    BY <1>3, NewEntries
  <2>2. /\ DOMAIN Scheduled(t)' = 1..n /\ nextTicket \in Nat
        /\ \A i \in 1..n : Scheduled(t)'[i][1] = nextTicket + i - 1 /\
               Scheduled(t)'[i][2] = ids[i]
    BY <2>1, ShellAssumption DEF IntentNumbers
  <2>3. OthersStay(t)
    BY <1>3 DEF IntentSchedules
  <2>4. ASSUME NEW u \in Thread \ {t}, NEW i \in DOMAIN Scheduled(u)', NEW j \in 1..n
        PROVE  /\ Scheduled(u)'[i][1] < Scheduled(t)'[j][1]
               /\ (IntentBefore(Scheduled(u)[i][2], Scheduled(t)[j][2]))'
    <3>1. Scheduled(u)' = Scheduled(u) /\ i \in DOMAIN Scheduled(u)
      BY <2>3, <2>4 DEF OthersStay
    <3>2. /\ Issued(Scheduled(u)[i][1]) /\ IntentArrived(Scheduled(u)[i][2])
          /\ Scheduled(u)[i][1] \in Intents!Id
      BY <3>1, ScheduledTyped DEF IntentOpen
    <3>3. nextTicket # 0
      BY <2>1, <2>4
    <3>4. Scheduled(u)[i][1] < nextTicket + j - 1
      BY <2>2, <2>4, <3>2, <3>3 DEF Issued, Intents!Id
    <3>5. \E k, l \in DOMAIN arrived' : k < l /\ arrived'[k] = Scheduled(u)[i][2] /\
             arrived'[l] = ids[j]
      BY <2>1, <2>4, <3>1, <3>2
    <3>6. QED  BY <2>2, <3>1, <3>4, <3>5 DEF IntentBefore
  <2>5. SUFFICES ASSUME NEW u \in Thread, NEW v \in Thread, NEW i \in DOMAIN Scheduled(u)',
           NEW j \in DOMAIN Scheduled(v)'
                 PROVE  /\ Scheduled(u)'[i][1] = Scheduled(v)'[j][1] => u = v /\ i = j
                        /\ Scheduled(u)'[i][1] < Scheduled(v)'[j][1] =>
                             (IntentBefore(Scheduled(u)[i][2], Scheduled(v)[j][2]))'
    BY DEF IntentOrdered
  <2>6. CASE u = t /\ v = t
    <3>1. i \in 1..n /\ j \in 1..n
      BY <2>2, <2>6
    <3>2. /\ Scheduled(u)'[i][1] = nextTicket + i - 1 /\ Scheduled(v)'[j][1] = nextTicket + j - 1
          /\ Scheduled(u)'[i][2] = ids[i] /\ Scheduled(v)'[j][2] = ids[j]
      BY <2>2, <2>6, <3>1
    <3>3. /\ Scheduled(u)'[i][1] = Scheduled(v)'[j][1] => i = j
          /\ Scheduled(u)'[i][1] < Scheduled(v)'[j][1] => i < j
      BY <2>2, <3>1, <3>2
    <3>4. QED  BY <2>1, <2>6, <3>1, <3>2, <3>3 DEF IntentBefore
  <2>7. CASE u # t /\ v = t
    <3>1. Scheduled(u)'[i][1] < Scheduled(v)'[j][1] /\
             (IntentBefore(Scheduled(u)[i][2], Scheduled(v)[j][2]))'
      BY <2>2, <2>4, <2>7
    <3>2. Scheduled(u)'[i][1] \in Intents!Id /\ Scheduled(v)'[j][1] \in Intents!Id
      BY ScheduledStaysTyped
    <3>3. QED  BY <3>1, <3>2 DEF Intents!Id
  <2>8. CASE u = t /\ v # t
    <3>1. Scheduled(v)'[j][1] < Scheduled(u)'[i][1]
      BY <2>2, <2>4, <2>8
    <3>2. Scheduled(u)'[i][1] \in Intents!Id /\ Scheduled(v)'[j][1] \in Intents!Id
      BY ScheduledStaysTyped
    <3>3. QED  BY <3>1, <3>2 DEF Intents!Id
  <2>9. CASE u # t /\ v # t
    <3>1. Scheduled(u)' = Scheduled(u) /\ Scheduled(v)' = Scheduled(v)
      BY <2>3, <2>9 DEF OthersStay
    <3>2. PICK a, b : a = Scheduled(u)[i][2] /\ b = Scheduled(v)[j][2]
      OBVIOUS
    <3>3. /\ Scheduled(u)[i][1] = Scheduled(v)[j][1] => u = v /\ i = j
          /\ Scheduled(u)[i][1] < Scheduled(v)[j][1] => IntentBefore(a, b)
      BY <3>1, <3>2 DEF IntentOrdered
    <3>4. Scheduled(u)[i][1] < Scheduled(v)[j][1] => IntentBefore(a, b)'
      BY <1>1, <3>3
    <3>5. QED  BY <3>1, <3>2, <3>3, <3>4 DEF IntentBefore
  <2>10. QED  BY <2>6, <2>7, <2>8, <2>9
<1>4. ASSUME NEW t \in Thread, IntentEmits(t) PROVE IntentOrdered'
  <2>1. Scheduled(t) # <<>> /\ OthersStay(t) /\ Scheduled(t)' \in {<<>>, Tail(Scheduled(t))}
    BY <1>4, EmitterIsScheduled DEF IntentEmits
  <2>2. QED  BY <1>2, <2>1 DEF OthersStay
<1>5. ASSUME \A u \in Thread : Scheduled(u)' \in {Scheduled(u), <<>>} PROVE IntentOrdered'
  BY <1>2, <1>5
<1>6. QED
  BY <1>3, <1>4, <1>5 DEF IntentStep, IntentQuiet, IntentGivesUp, IntentQueues, OthersStay

\* An identifier is taken once, and arrives once: whoever takes the next one finds it new.
LEMMA IntentIdsKept ==
    /\ IntentNumbers /\ IntentTyped /\ IntentLists /\ IntentIds /\ [Intents!Next]_intentsVars
    => IntentIds'
<1> SUFFICES ASSUME IntentNumbers, IntentTyped, IntentLists, IntentIds, [Intents!Next]_intentsVars
             PROVE IntentIds'
  OBVIOUS
<1>1. ASSUME UNCHANGED <<nextId, arrived>>,
             \A u \in Thread : intents_pc'[u] = "queue" =>
                 intents_pc[u] = "queue" /\ batch'[u] = batch[u]
      PROVE IntentIds'
  BY <1>1 DEF IntentIds, Taken, IntentArrived
<1>2. CASE UNCHANGED intentsVars
  BY <1>1, <1>2 DEF intentsVars
<1>3. ASSUME NEW id \in Intents!Id, Intents!Acknowledges(id) PROVE IntentIds'
  BY <1>1, <1>3 DEF Intents!Acknowledges
<1>4. ASSUME NEW t \in Thread,
             \/ Intents!TakesNone(t) \/ Intents!Begins(t) \/ Intents!TakesTurn(t) \/
                    Intents!Emits(t)
             \/ Intents!Panics(t) \/ Intents!Ends(t)
      PROVE IntentIds'
  <2>1. UNCHANGED <<nextId, arrived>>
    BY <1>4 DEF Intents!TakesNone, Intents!Begins, Intents!TakesTurn, Intents!Emits,
         Intents!Panics, Intents!Ends, Intents!queueVars
  <2>2. /\ \E p \in {"before", "wait", "emit", "done"} :
           intents_pc' = [intents_pc EXCEPT ![t] = p]
        /\ batch' = batch \/ \E b : batch' = [batch EXCEPT ![t] = b]
    BY <1>4 DEF Intents!TakesNone, Intents!Begins, Intents!TakesTurn, Intents!Emits,
         Intents!Panics, Intents!Ends
  <2>3. \A u \in Thread : intents_pc'[u] = "queue" =>
           intents_pc[u] = "queue" /\ batch'[u] = batch[u]
    BY <2>2 DEF IntentTyped
  <2>4. QED  BY <1>1, <2>1, <2>3
<1>5. ASSUME NEW t \in Thread, Intents!MarksReady(t) PROVE IntentIds'
  <2>1. UNCHANGED <<nextId, arrived>> /\ intents_pc' = [intents_pc EXCEPT ![t] = "before"]
    BY <1>5 DEF Intents!MarksReady
  <2>2. \A u \in Thread \ {t} : batch'[u] = batch[u]
    BY <1>5, SchedulesTickets DEF Intents!MarksReady, IntentLists
  <2>3. \A u \in Thread : intents_pc'[u] = "queue" =>
           intents_pc[u] = "queue" /\ batch'[u] = batch[u]
    BY <2>1, <2>2 DEF IntentTyped
  <2>4. QED  BY <1>1, <2>1, <2>3
<1>6. ASSUME NEW t \in Thread, Intents!TakesId(t) PROVE IntentIds'
  <2>1. /\ nextId \in Intents!Id /\ nextId \in Nat /\ nextId # 0 /\
           nextId' = Intents!Following(nextId) /\ UNCHANGED arrived
        /\ intents_pc[t] = "idle"
    BY <1>6, ShellAssumption DEF Intents!TakesId, IntentNumbers, Intents!Id
  <2>2. nextId' = 0 \/ nextId' = nextId + 1
    BY <2>1 DEF Intents!Following
  <2>3. \A id \in Intents!Id : Taken(id) => id < nextId /\ Taken(id)'
    BY <2>1, <2>2 DEF Taken, Intents!Id
  <2>4. PICK new : new = nextId /\ Taken(new)' /\ ~Taken(new)
    <3>1. nextId' = 0 \/ nextId < nextId'
      BY <2>1, <2>2
    <3>2. QED  BY <2>1, <3>1 DEF Taken
  <2>5. /\ \A i, j \in DOMAIN arrived : arrived[i] = arrived[j] => i = j
        /\ \A i \in DOMAIN arrived : Taken(arrived[i]) /\ arrived[i] \in Intents!Id
    BY DEF IntentIds, IntentLists
  <2>6. /\ (\A i, j \in DOMAIN arrived : arrived[i] = arrived[j] => i = j)'
        /\ (\A i \in DOMAIN arrived : Taken(arrived[i]))'
    <3>1. \A i \in DOMAIN arrived : (Taken(arrived[i]))'
      BY <2>1, <2>3, <2>5 DEF Taken
    <3>2. QED  BY <2>1, <2>5, <3>1
  <2>7. ~IntentArrived(nextId)
    BY <2>4, <2>5 DEF IntentArrived
  <2>8. /\ \A u \in Thread \ {t} : intents_pc'[u] = intents_pc[u] /\ batch'[u] = batch[u]
        /\ intents_pc'[t] = "queue" => batch'[t] = <<<<nextId, nextId>>>>
    BY <1>6 DEF Intents!TakesId, IntentTyped
  <2>9. ASSUME NEW u \in Thread, intents_pc'[u] = "queue"
        PROVE  /\ Len(batch'[u]) = 1 /\ (Taken(batch[u][1][2]))' /\
                      ~IntentArrived(batch'[u][1][2])
               /\ \A v \in Thread : intents_pc'[v] = "queue" /\
                      batch'[v][1][2] = batch'[u][1][2] => v = u
    <3>1. \A v \in Thread \ {t} : intents_pc[v] = "queue" =>
            /\ Len(batch[v]) = 1 /\ Taken(batch[v][1][2]) /\ ~IntentArrived(batch[v][1][2])
            /\ batch[v][1][2] \in Intents!Id /\ batch[v][1][2] # nextId
      BY <2>4 DEF IntentIds, IntentTyped
    <3>2. CASE u = t
      <4>1. batch'[u][1][2] = nextId /\ Len(batch'[u]) = 1
        BY <2>8, <2>9, <3>2
      <4>2. \A v \in Thread \ {t} : intents_pc'[v] = "queue" => batch'[v][1][2] # nextId
        BY <2>8, <3>1
      <4>3. (Taken(batch[u][1][2]))' /\ ~IntentArrived(batch'[u][1][2])
        BY <2>4, <2>7, <4>1 DEF Taken, IntentArrived
      <4>4. QED  BY <3>2, <4>1, <4>2, <4>3
    <3>3. CASE u # t
      <4>1. batch'[u] = batch[u] /\ intents_pc[u] = "queue"
        BY <2>8, <2>9, <3>3
      <4>2. (Taken(batch[u][1][2]))' /\ ~IntentArrived(batch'[u][1][2]) /\ Len(batch'[u]) = 1
        BY <2>3, <3>1, <3>3, <4>1 DEF Taken, IntentArrived
      <4>3. \A v \in Thread : intents_pc'[v] = "queue" /\ batch'[v][1][2] = batch'[u][1][2] =>
               v = u
        BY <2>8, <3>1, <3>3, <4>1 DEF IntentIds
      <4>4. QED  BY <4>2, <4>3
    <3>4. QED  BY <3>2, <3>3
  <2>10. QED  BY <2>1, <2>6, <2>9 DEF IntentIds, IntentArrived
<1>7. ASSUME NEW t \in Thread, Intents!Enqueues(t) PROVE IntentIds'
  <2>1. PICK id : id = batch[t][1][2]
    OBVIOUS
  <2>2. /\ intents_pc[t] = "queue" /\ intents_pc' = [intents_pc EXCEPT ![t] = "before"]
        /\ arrived' = Append(arrived, id) /\ UNCHANGED nextId
    BY <1>7, <2>1 DEF Intents!Enqueues
  <2>3. id \in Intents!Id /\ Taken(id) /\ ~IntentArrived(id)
    BY <2>1, <2>2 DEF IntentIds, IntentTyped
  <2>4. /\ DOMAIN arrived' = (DOMAIN arrived) \cup {Len(arrived) + 1}
        /\ arrived'[Len(arrived) + 1] = id /\ \A i \in DOMAIN arrived : arrived'[i] = arrived[i]
    BY <2>2, <2>3, ArrivalsGrow
  <2>5. \A u \in Thread \ {t} : batch'[u] = batch[u]
    <3>1. CASE Intents!Schedule(t, <<id>>)
      <4>1. <<id>> \in Seq(Intents!Id)
        BY <2>3
      <4>2. QED  BY <3>1, <4>1, SchedulesTickets
    <3>2. CASE batch' = [batch EXCEPT ![t] = <<>>]
      BY <3>2 DEF IntentTyped
    <3>3. QED  BY <1>7, <2>1, <3>1, <3>2 DEF Intents!Enqueues
  <2>6. /\ (\A i, j \in DOMAIN arrived : arrived[i] = arrived[j] => i = j)'
        /\ (\A i \in DOMAIN arrived : Taken(arrived[i]))'
    <3>1. \A i, j \in DOMAIN arrived' : arrived'[i] = arrived'[j] => i = j
      BY <2>3, <2>4 DEF IntentIds, IntentArrived
    <3>2. \A i \in DOMAIN arrived' : (Taken(arrived[i]))'
      BY <2>2, <2>3, <2>4 DEF IntentIds, Taken
    <3>3. QED  BY <3>1, <3>2
  <2>7. ASSUME NEW u \in Thread, intents_pc'[u] = "queue"
        PROVE  /\ Len(batch'[u]) = 1 /\ (Taken(batch[u][1][2]))' /\
                      (~IntentArrived(batch[u][1][2]))'
               /\ \A v \in Thread : intents_pc'[v] = "queue" /\
                      batch'[v][1][2] = batch'[u][1][2] => v = u
    <3>1. u # t /\ intents_pc[u] = "queue" /\ batch'[u] = batch[u]
      BY <2>2, <2>5, <2>7 DEF IntentTyped
    <3>2. batch[u][1][2] # id
      BY <2>1, <2>2, <3>1 DEF IntentIds
    <3>3. Len(batch[u]) = 1 /\ Taken(batch[u][1][2]) /\ ~IntentArrived(batch[u][1][2])
      BY <3>1 DEF IntentIds
    <3>4. Len(batch'[u]) = 1 /\ (Taken(batch[u][1][2]))' /\ (~IntentArrived(batch[u][1][2]))'
      BY <2>2, <2>4, <3>1, <3>2, <3>3 DEF Taken, IntentArrived
    <3>5. \A v \in Thread : intents_pc'[v] = "queue" /\ batch'[v][1][2] = batch'[u][1][2] => v = u
      BY <2>2, <2>5, <3>1 DEF IntentIds, IntentTyped
    <3>6. QED  BY <3>4, <3>5
  <2>8. QED  BY <2>6, <2>7 DEF IntentIds
<1>8. QED
  BY <1>2, <1>3, <1>4, <1>5, <1>6, <1>7 DEF Intents!Next, Intents!DeliveryStep

\* An application that starts, with an intent of its own or without, satisfies the invariant.
LEMMA IntentsStart == Intents!Init => IntentsInv
<1> SUFFICES ASSUME Intents!Init PROVE IntentsInv
  OBVIOUS
<1>1. PICK initial \in {<<>>, <<1>>} :
        /\ intents_pending = initial /\ arrived = initial /\ nextId = Len(initial) + 1
        /\ intents_seen = {i \in Intents!Id : i \in 1..Len(initial)}
  BY DEF Intents!Init
<1>2. /\ ready = FALSE /\ inFlight = {} /\ consumed = {} /\ nextTicket = 1 /\ current = 1 /\
         intents_cancelled = {}
      /\ intents_pc = [t \in Thread |-> "idle"] /\ batch = [t \in Thread |-> <<>>] /\
             emitted = <<>>
  BY DEF Intents!Init
<1>3. /\ MaxId \in Nat /\ MaxId > 1 /\ MaxLength >= 1 /\ MaxLength \in Nat
  BY ShellAssumption
<1>4. /\ initial \in Seq(Intents!Id) /\ Len(initial) \in {0, 1} /\
         DOMAIN initial = 1..Len(initial)
      /\ \A i \in DOMAIN initial : i = 1 /\ initial[i] = 1 /\ Len(initial) = 1
  <2>1. 1 \in Intents!Id
    BY <1>3 DEF Intents!Id
  <2>2. CASE initial = <<>>
    BY <2>2
  <2>3. CASE initial = <<1>>
    BY <2>1, <2>3
  <2>4. QED  BY <2>2, <2>3
<1>5. \A t \in Thread : Scheduled(t) = <<>> /\ DOMAIN Scheduled(t) = {} /\ intents_pc[t] = "idle"
  BY <1>2 DEF Scheduled
<1>6. IntentNumbers
  BY <1>1, <1>2, <1>3, <1>4 DEF IntentNumbers
<1>7. IntentTyped
  <2>1. <<>> \in Seq(Intents!Id \X Intents!Id)
    OBVIOUS
  <2>2. QED  BY <1>2, <2>1 DEF IntentTyped
<1>8. IntentLists
  BY <1>1, <1>2, <1>3, <1>4 DEF IntentLists
<1>9. IntentReady /\ IntentHeld
  BY <1>2, <1>5 DEF IntentReady, IntentHeld
<1>10. IntentIds
  BY <1>1, <1>4, <1>5 DEF IntentIds, Taken
<1>11. IntentQueued
  BY <1>1, <1>4 DEF IntentQueued, IntentArrived
<1>12. IntentTurn
  BY <1>2, <1>3 DEF IntentTurn
<1>13. IntentOpen /\ IntentOrdered
  BY <1>5 DEF IntentOpen, IntentOrdered
<1>14. IntentEmitted
  BY <1>2 DEF IntentEmitted
<1>15. QED
  BY <1>6, <1>7, <1>8, <1>9, <1>10, <1>11, <1>12, <1>13, <1>14 DEF IntentsInv

\* Every step keeps the invariant.
LEMMA IntentsKept == IntentsInv /\ [Intents!Next]_intentsVars => IntentsInv'
<1> SUFFICES ASSUME IntentsInv, [Intents!Next]_intentsVars PROVE IntentsInv'
  OBVIOUS
<1>1. /\ IntentNumbers /\ IntentTyped /\ IntentLists /\ IntentReady /\ IntentIds /\ IntentQueued
      /\ IntentTurn /\ IntentOpen /\ IntentOrdered /\ IntentHeld /\ IntentEmitted
  BY DEF IntentsInv
<1>2. IntentStep
  BY <1>1, IntentStepsAreThese
<1>3. IntentNumbers' /\ IntentTyped'
  BY <1>1, IntentNumbersKept
<1>4. IntentLists' /\ IntentReady' /\ IntentQueued'
  BY <1>1, <1>2, IntentListsKept, IntentReadyKept, IntentQueuedKept
<1>5. IntentIds'
  BY <1>1, IntentIdsKept
<1>6. IntentTurn' /\ IntentHeld' /\ IntentEmitted'
  BY <1>1, <1>2, <1>3, IntentTurnKept, IntentHeldKept, IntentEmittedKept
<1>7. IntentOpen' /\ IntentOrdered'
  BY <1>1, <1>2, <1>3, IntentOpenKept, IntentOrderedKept
<1>8. QED  BY <1>3, <1>4, <1>5, <1>6, <1>7 DEF IntentsInv

\* What the invariant says of the intents: each is emitted once and in order, and what is in
\* flight does not wait.
LEMMA IntentsAreSound == IntentsInv => Intents!TypeOK /\ Intents!IntentsInOrder
<1> SUFFICES ASSUME IntentsInv PROVE Intents!TypeOK /\ Intents!IntentsInOrder
  OBVIOUS
<1>1. Intents!TypeOK
  BY DEF IntentsInv, IntentNumbers, IntentTyped, IntentLists, IntentReady, IntentTurn,
       Intents!TypeOK
<1>2. /\ emitted \in Seq(Intents!Id) /\ DOMAIN emitted = 1..Len(emitted)
      /\ arrived \in Seq(Intents!Id) /\ DOMAIN arrived = 1..Len(arrived)
      /\ \A i, j \in DOMAIN arrived : arrived[i] = arrived[j] => i = j
      /\ \A i, j \in DOMAIN emitted : i < j => IntentBefore(emitted[i], emitted[j])
  BY DEF IntentsInv, IntentLists, IntentIds, IntentEmitted
<1>3. \A a : ~IntentBefore(a, a)
  BY <1>2 DEF IntentBefore
<1>4. \A i, j \in DOMAIN emitted : emitted[i] = emitted[j] => i = j
  <2> SUFFICES ASSUME NEW i \in DOMAIN emitted, NEW j \in DOMAIN emitted,
      emitted[i] = emitted[j], i # j PROVE FALSE
    OBVIOUS
  <2>1. i < j \/ j < i
    BY <1>2
  <2>2. IntentBefore(emitted[i], emitted[i])
    BY <1>2, <2>1
  <2>3. QED  BY <1>3, <2>2
<1>5. \A a, b \in Intents!Id : Intents!Before(emitted, a, b) => Intents!Before(arrived, a, b)
  BY <1>2 DEF Intents!Before, IntentBefore
<1>6. \A i \in DOMAIN intents_pending : intents_pending[i] \notin inFlight \cup consumed
  BY DEF IntentsInv, IntentReady
<1>7. QED  BY <1>1, <1>4, <1>5, <1>6 DEF Intents!IntentsInOrder

-----------------------------------------------------------------------------
(* The shell                                                               *)

\* A step of the shell is a step of one part, and leaves the variables of the others alone.
LEMMA PartSteps ==
    [PartNext]_partVars =>
        /\ [Next]_supervisorVars
        /\ [Pty!Next]_ptyVars
        /\ [Scope!Next]_scopeVars
        /\ [Readiness!Next]_readinessVars
        /\ [Requests!Next]_requestsVars
        /\ [Server!Next]_serverVars
        /\ [Sse!Next]_sseVars
        /\ [Headers!Next]_headersVars
        /\ [Files!Next]_filesVars
        /\ [Intents!Next]_intentsVars
        /\ [Downloads!Next]_downloadsVars
        /\ [Plugins!Next]_pluginsVars
<1> SUFFICES ASSUME [PartNext]_partVars
             PROVE  /\ [Next]_supervisorVars /\ [Pty!Next]_ptyVars /\ [Scope!Next]_scopeVars
                    /\ [Readiness!Next]_readinessVars /\ [Requests!Next]_requestsVars /\
                           [Server!Next]_serverVars
                    /\ [Sse!Next]_sseVars /\ [Headers!Next]_headersVars /\ [Files!Next]_filesVars
                    /\ [Intents!Next]_intentsVars /\ [Downloads!Next]_downloadsVars /\
                           [Plugins!Next]_pluginsVars
  OBVIOUS
<1>1. CASE SupervisorPart
  BY <1>1 DEF SupervisorPart, Only
<1>2. CASE PtyPart
  BY <1>2 DEF PtyPart, Only
<1>3. CASE ScopePart
  BY <1>3 DEF ScopePart, Only
<1>4. CASE ReadinessPart
  BY <1>4 DEF ReadinessPart, Only
<1>5. CASE RequestsPart
  BY <1>5 DEF RequestsPart, Only
<1>6. CASE ServerPart
  BY <1>6 DEF ServerPart, Only
<1>7. CASE SsePart
  BY <1>7 DEF SsePart, Only
<1>8. CASE HeadersPart
  BY <1>8 DEF HeadersPart, Only
<1>9. CASE FilesPart
  BY <1>9 DEF FilesPart, Only
<1>10. CASE IntentsPart
  BY <1>10 DEF IntentsPart, Only
<1>11. CASE DownloadsPart
  BY <1>11 DEF DownloadsPart, Only
<1>12. CASE PluginsPart
  BY <1>12 DEF PluginsPart, Only
<1>13. CASE UNCHANGED partVars
  BY <1>13 DEF partVars
<1>14. QED
  BY <1>1, <1>2, <1>3, <1>4, <1>5, <1>6, <1>7, <1>8, <1>9, <1>10, <1>11, <1>12, <1>13 DEF PartNext

\* The invariant of the parts that start, watch and stop processes.
ProcessInv == SupervisorInv /\ PtyInv /\ ScopeInv /\ ProbeInv

\* It holds initially.
LEMMA ProcessesStart == PartInit => ProcessInv
BY InitIsSafe, PtyStarts, ScopeStarts, ProbeStarts DEF PartInit, ProcessInv

\* Every step of the shell keeps it: each part takes a step of its own or none.
LEMMA ProcessesKept == ProcessInv /\ [PartNext]_partVars => ProcessInv'
BY PartSteps, StepKeepsSafe, PtyKept, ScopeKept, ProbeKept DEF ProcessInv, supervisorVars

\* It gives ProcessesAreOwned.
LEMMA ProcessesAreSound == ProcessInv => ProcessesAreOwned
BY SupervisorIsTyped, PtyIsSound, ScopeIsSound, ProbeIsSound
DEF SupervisorInv, ProcessInv, ProcessesAreOwned

\* However starts, stops, forks, exits and probes of a launch interleave: the supervisor and its
\* helpers keep their types, the tree a pseudo terminal started is dead or in the hands of one
\* that will kill it (PtyBackend), a kill that reports success leaves no process of its scope
\* alive (ProcessScope), and what is told to be ready was the listener of the backend itself
\* (BackendReadiness).
THEOREM ProcessesAreAlwaysOwned == PartSpec => []ProcessesAreOwned
<1>1. PartInit => ProcessInv
  BY ProcessesStart
<1>2. ProcessInv /\ [PartNext]_partVars => ProcessInv'
  BY ProcessesKept
<1>3. ProcessInv => ProcessesAreOwned
  BY ProcessesAreSound
<1>4. QED  BY <1>1, <1>2, <1>3, PTL DEF PartSpec


\* The invariant of the parts that serve the frontend.
ServiceInv ==
    RequestsInv /\ ServerInv /\ SseInv /\ HeadersInv /\ FilesInv /\ IntentsInv /\
        DownloadsInv /\ PluginsInv

\* It holds initially.
LEMMA ServicesStart == PartInit => ServiceInv
<1> SUFFICES ASSUME PartInit PROVE ServiceInv
  OBVIOUS
<1>1. RequestsInv /\ ServerInv /\ SseInv /\ HeadersInv
  BY BoundsHold, RequestsStart, ServerStarts, SseStarts, HeadersStart DEF PartInit
<1>2. FilesInv /\ IntentsInv /\ DownloadsInv /\ PluginsInv
  BY FilesStart, IntentsStart, DownloadsStart, PluginsStart DEF PartInit
<1>3. QED  BY <1>1, <1>2 DEF ServiceInv

\* Every step of the shell keeps it.
LEMMA ServicesKept == ServiceInv /\ [PartNext]_partVars => ServiceInv'
<1> SUFFICES ASSUME ServiceInv, [PartNext]_partVars PROVE ServiceInv'
  OBVIOUS
<1>1. RequestsInv' /\ ServerInv' /\ SseInv' /\ HeadersInv'
  BY BoundsHold, PartSteps, RequestsKept, ServerKept, SseKept, HeadersKept DEF ServiceInv
<1>2. FilesInv' /\ IntentsInv' /\ DownloadsInv' /\ PluginsInv'
  BY PartSteps, FilesKept, IntentsKept, DownloadsKept, PluginsKept DEF ServiceInv
<1>3. QED  BY <1>1, <1>2 DEF ServiceInv

\* It gives ServicesAreSound.
LEMMA InvariantOfServices == ServiceInv => ServicesAreSound
BY RequestsAreSound, ServerIsSound, SseIsSound, HeadersAreSound, FilesAreSound, IntentsAreSound,
     DownloadsAreSound, PluginsAreSound
DEF ServiceInv, ServicesAreSound

\* Whatever the order of requests, restarts, file changes and cancellations, the gateway
\* forwards with a lease of the right generation and within its permits, serves only the files
\* it bound, leaves no listener behind, never exceeds the buffers of its event stream and sends
\* on normal headers; launch intents are emitted once and in the order of arrival; downloads
\* replace a target only by a whole file; and an installed plugin is whole unless two
\* installations overlapped.
THEOREM ServicesAreAlwaysSound == PartSpec => []ServicesAreSound
<1>1. PartInit => ServiceInv
  BY ServicesStart
<1>2. ServiceInv /\ [PartNext]_partVars => ServiceInv'
  BY ServicesKept
<1>3. ServiceInv => ServicesAreSound
  BY InvariantOfServices
<1>4. QED  BY <1>1, <1>2, <1>3, PTL DEF PartSpec
=============================================================================
