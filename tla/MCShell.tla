------------------------------- MODULE MCShell ------------------------------
(***************************************************************************)
(* The parts of the Tauri shell, checked together: every behaviour is one  *)
(* of one part, while the others stay where they begin.                    *)
(***************************************************************************)
EXTENDS BackendSupervisor, Naturals, Sequences, FiniteSets, TLC

CONSTANTS
    MaxStops, Child, MaxRounds, Connection, MaxWaiters, MaxTunnels, Slot, Ring, Channel,
    MaxChanges, Thread, MaxId, MaxLength, Download, Target, MaxPermits, MaxRedirects,
    MaxChunks, Install, File

\* The bounds count, there are as many connections as there are, and a queue of intents holds
\* at least one; a process that the backend forks is not its root, a download is not what was
\* there before it, a target is one, and so is a file of an archive.
ASSUME ShellAssumption ==
    /\ MaxStops \in Nat /\ MaxRounds \in Nat /\ MaxWaiters \in Nat /\ MaxTunnels \in Nat
    /\ Ring \in Nat \ {0} /\ Channel \in Nat \ {0} /\ MaxChanges \in Nat
    /\ MaxId \in Nat \ {0, 1} /\ MaxLength \in Nat \ {0}
    /\ MaxPermits \in Nat /\ MaxRedirects \in Nat /\ MaxChunks \in Nat
    /\ "root" \notin Child /\ IsFiniteSet(Connection)
    /\ {"absent", "older"} \cap Download = {} /\ "none" \notin Target
    /\ {"none", "older"} \cap File = {}

VARIABLES
    part,       \* the part this behaviour is about
    pty_root, descendants, start, pty_watcher, retry, stopper, held, pty_stopping,
    pty_rootExited, port, stops, exitSent, evidence, pty_outcome, pty_reported, asked,
    pty_failures,
    mode, scope_proc, group, scope_session, killer, scope_seen, scope_result,
    wish, plan, clustered, readiness_root, listener, readiness_reported, probe, round, row,
    readiness_result, startup, stood, wasOwned,
    requests_generation, requests_phase, req, stopped, accepting, capability,
    requests_session, pool, recorded, requests_pending, drained,
    launch, server_outcome, server_pending, server_cancelled, bind, bindResult, accept,
    listening, stopSent, stopSeen, server_stopping, conns, admitting, tunnels, shut,
    sse_generation, sse_phase, stream, missed, ring, last, channel, shown,
    at, request, kind, response,
    rootAt, dirAt, fileAt, length, changes, inventory, binding, server, opened, served,
    nextId, ready, intents_pending, intents_seen, inFlight, consumed, nextTicket, current,
    intents_cancelled, intents_pc, batch, emitted, arrived,
    unix, of, status, flag, downloads_pc, redirects, downloads_part, file, early, late,
    litter, lost,
    archive, plugins_pc, left, unpacked, copy, plugins_target, backup, outside, overlapped,
    plugins_held, dirty, stranded

supervisorVars == vars

ptyVars ==
    <<pty_root, descendants, start, pty_watcher, retry, stopper, held, pty_stopping,
      pty_rootExited, port, stops, exitSent, evidence, pty_outcome, pty_reported, asked,
      pty_failures>>
Pty == INSTANCE PtyBackend WITH
    MaxFailures <- 2, root <- pty_root, watcher <- pty_watcher, stopping <- pty_stopping,
    rootExited <- pty_rootExited, outcome <- pty_outcome, reported <- pty_reported,
    failures <- pty_failures

scopeVars ==
    <<mode, scope_proc, group, scope_session, killer, scope_seen, scope_result>>
Scope == INSTANCE ProcessScope WITH
    Root <- "root", proc <- scope_proc, session <- scope_session, seen <- scope_seen,
    result <- scope_result

readinessVars ==
    <<wish, plan, clustered, readiness_root, listener, readiness_reported, probe, round,
      row, readiness_result, startup, stood, wasOwned>>
Readiness == INSTANCE BackendReadiness WITH
    root <- readiness_root, reported <- readiness_reported, result <- readiness_result

requestsVars ==
    <<requests_generation, requests_phase, req, stopped, accepting, capability,
      requests_session, pool, recorded, requests_pending, drained>>
Requests == INSTANCE GatewayRequests WITH
    generation <- requests_generation, phase <- requests_phase, session <- requests_session,
    pending <- requests_pending

serverVars ==
    <<launch, server_outcome, server_pending, server_cancelled, bind, bindResult, accept,
      listening, stopSent, stopSeen, server_stopping, conns, admitting, tunnels, shut>>
Server == INSTANCE GatewayServer WITH
    outcome <- server_outcome, pending <- server_pending, cancelled <- server_cancelled,
    stopping <- server_stopping

sseVars ==
    <<sse_generation, sse_phase, stream, missed, ring, last, channel, shown>>
Sse == INSTANCE GatewayEvents WITH
    generation <- sse_generation, phase <- sse_phase

headersVars ==
    <<at, request, kind, response>>
Headers == INSTANCE GatewayHeaders

filesVars ==
    <<rootAt, dirAt, fileAt, length, changes, inventory, binding, server, opened, served>>
Files == INSTANCE GatewayFiles

intentsVars ==
    <<nextId, ready, intents_pending, intents_seen, inFlight, consumed, nextTicket, current,
      intents_cancelled, intents_pc, batch, emitted, arrived>>
Intents == INSTANCE LaunchIntents WITH
    pending <- intents_pending, seen <- intents_seen, cancelled <- intents_cancelled,
    pc <- intents_pc

downloadsVars ==
    <<unix, of, status, flag, downloads_pc, redirects, downloads_part, file, early, late,
      litter, lost>>
Downloads == INSTANCE Downloads WITH
    pc <- downloads_pc, part <- downloads_part

pluginsVars ==
    <<archive, plugins_pc, left, unpacked, copy, plugins_target, backup, outside, overlapped,
      plugins_held, dirty, stranded>>
Plugins == INSTANCE PluginInstall WITH
    pc <- plugins_pc, target <- plugins_target, held <- plugins_held

-----------------------------------------------------------------------------
PartInit ==
    /\ part \in
         {"supervisor", "pty", "scope", "readiness", "requests", "server", "sse", "headers",
          "files", "intents", "downloads", "plugins"}
    /\ Init /\ Pty!Init /\ Requests!Init /\ Server!Init /\ Sse!Init /\ Headers!Init /\ Files!Init
    /\ Scope!Init /\ (part = "scope" \/ mode = "direct")
    /\ Readiness!Init
    /\ (part = "readiness" \/ (listener = "none" /\ wish = [transport |-> "direct", cluster |-> FALSE, windows |-> FALSE]))
    /\ Intents!Init /\ (part = "intents" \/ arrived = <<>>)
    /\ Downloads!Init /\ (part = "downloads" \/ unix)
    /\ Plugins!Init
    /\ (part = "plugins" \/ (plugins_target = Plugins!None /\ archive = [i \in Install |-> File \X {"file"}]))

\* Part p takes a step: the others stay.
Only(p) ==
    /\ part = p /\ UNCHANGED part
    /\ IF p = "supervisor" THEN TRUE ELSE UNCHANGED supervisorVars
    /\ IF p = "pty" THEN TRUE ELSE UNCHANGED ptyVars
    /\ IF p = "scope" THEN TRUE ELSE UNCHANGED scopeVars
    /\ IF p = "readiness" THEN TRUE ELSE UNCHANGED readinessVars
    /\ IF p = "requests" THEN TRUE ELSE UNCHANGED requestsVars
    /\ IF p = "server" THEN TRUE ELSE UNCHANGED serverVars
    /\ IF p = "sse" THEN TRUE ELSE UNCHANGED sseVars
    /\ IF p = "headers" THEN TRUE ELSE UNCHANGED headersVars
    /\ IF p = "files" THEN TRUE ELSE UNCHANGED filesVars
    /\ IF p = "intents" THEN TRUE ELSE UNCHANGED intentsVars
    /\ IF p = "downloads" THEN TRUE ELSE UNCHANGED downloadsVars
    /\ IF p = "plugins" THEN TRUE ELSE UNCHANGED pluginsVars

SupervisorPart == Only("supervisor") /\ Next
PtyPart == Only("pty") /\ Pty!Next
ScopePart == Only("scope") /\ Scope!Next
ReadinessPart == Only("readiness") /\ Readiness!Next
RequestsPart == Only("requests") /\ Requests!Next
ServerPart == Only("server") /\ Server!Next
SsePart == Only("sse") /\ Sse!Next
HeadersPart == Only("headers") /\ Headers!Next
FilesPart == Only("files") /\ Files!Next
IntentsPart == Only("intents") /\ Intents!Next
DownloadsPart == Only("downloads") /\ Downloads!Next
PluginsPart == Only("plugins") /\ Plugins!Next

PartNext ==
    \/ SupervisorPart \/ PtyPart \/ ScopePart \/ ReadinessPart \/ RequestsPart
    \/ ServerPart \/ SsePart \/ HeadersPart \/ FilesPart \/ IntentsPart \/ DownloadsPart
    \/ PluginsPart

partVars ==
    <<part, supervisorVars, ptyVars, scopeVars, readinessVars, requestsVars, serverVars,
      sseVars, headersVars, filesVars, intentsVars, downloadsVars, pluginsVars>>

\* The fairness of each part, as its module states it.
PartSpec ==
    /\ PartInit /\ [][PartNext]_partVars
    /\ \A g \in Generation : WF_supervisorVars(part = "supervisor" /\ Running(StartStep(g)))
    /\ \A g \in Generation : WF_supervisorVars(part = "supervisor" /\ Running(CleanStep(g)))
    /\ \A c \in Callers : WF_supervisorVars(part = "supervisor" /\ Running(StopStep(c)))
    /\ WF_supervisorVars(part = "supervisor" /\ Running(DetachedStopEnds))
    /\ WF_supervisorVars(part = "supervisor" /\ Running(RetryStep))
    /\ WF_supervisorVars(part = "supervisor" /\ Running(ShutdownStep))
    /\ WF_supervisorVars(part = "supervisor" /\ Running(WindowIsCreated))
    /\ WF_ptyVars(part = "pty" /\ Pty!StartStep)
    /\ WF_ptyVars(part = "pty" /\ Pty!WatcherStep)
    /\ WF_ptyVars(part = "pty" /\ Pty!RetryStep)
    /\ WF_ptyVars(part = "pty" /\ Pty!StopperKills)
    /\ WF_ptyVars(part = "pty" /\ Pty!ReportsExit)
    /\ WF_scopeVars(part = "scope" /\ Scope!KillerStep)
    /\ WF_scopeVars(part = "scope" /\ Scope!GivesUp)
    /\ WF_readinessVars(part = "readiness" /\ Readiness!ProbeStep)
    /\ \A r \in Connection : WF_requestsVars(part = "requests" /\ Requests!RequestStep(r))
    /\ WF_requestsVars(part = "requests" /\ Requests!Drains)
    /\ WF_serverVars(part = "server" /\ Server!LaunchStep)
    /\ WF_serverVars(part = "server" /\ Server!AcceptStep)
    /\ WF_serverVars(part = "server" /\ Server!ShutdownStep)
    /\ WF_sseVars(part = "sse" /\ Sse!Receives)
    /\ WF_sseVars(part = "sse" /\ (Sse!BodyReads \/ Sse!BodyEnds))
    /\ \A t \in Thread : WF_intentsVars(part = "intents" /\ Intents!DeliveryStep(t))
    /\ \A d \in Download : WF_downloadsVars(part = "downloads" /\ Downloads!Step(d))

-----------------------------------------------------------------------------
\* In every state of a part about processes: it has its type; a terminal is owned until it
\* was killed and reaped, nothing of a tree is alive when its termination was confirmed, and
\* what the readiness probe calls ready is the backend that was started.
ProcessesAreOwned ==
    CASE part = "supervisor" -> TypeOK
      [] part = "pty" -> Pty!TypeOK /\ Pty!PtyIsOwned
      [] part = "scope" -> Scope!TypeOK /\ Scope!ScopeIsEmpty
      [] part = "readiness" ->
             Readiness!TypeOK /\ Readiness!BackendIsFound /\ Readiness!ReadinessIsTruthful
      [] OTHER -> TRUE

\* In every state of the gateway and of the shell's other services: the part has its type;
\* requests, tunnels and permits agree, no listener is left behind, headers and files are
\* what they must be, launch intents are emitted once and in order, a download's target is
\* whole and its cancellation shown as a failure only when it came too late, and an installed
\* plugin holds one whole version unless a failure that nobody looks at prevented it.
ServicesAreSound ==
    CASE part = "requests" -> Requests!TypeOK /\ Requests!RequestsAgree
      [] part = "server" -> Server!TypeOK /\ Server!NothingIsLeftListening
      [] part = "sse" -> Sse!TypeOK
      [] part = "headers" -> Headers!TypeOK /\ Headers!HeadersAreNormal
      [] part = "files" -> Files!TypeOK /\ Files!ServedIsBound
      [] part = "intents" -> Intents!TypeOK /\ Intents!IntentsInOrder
      [] part = "downloads" -> Downloads!TypeOK /\ Downloads!TargetsAreWhole
      [] part = "plugins" -> Plugins!TypeOK /\ Plugins!PluginsAreWhole
      [] OTHER -> TRUE

\* What the running part has begun and must end.
PartDuties ==
    CASE part = "supervisor" -> Duties [] part = "pty" -> Pty!Duties
      [] part = "scope" -> Scope!Duties [] part = "readiness" -> Readiness!Duties
      [] part = "requests" -> Requests!Duties [] part = "server" -> Server!Duties
      [] part = "intents" -> Intents!Duties [] part = "downloads" -> Downloads!Duties
      [] OTHER -> <<>>
Owes(i) == i \in DOMAIN PartDuties /\ PartDuties[i]

\* Every retry, start, stop, shutdown, probe, termination, request, tunnel, launch, event,
\* delivery and download ends, each under the fairness its module states.
ShellSettles == Sse!EventsArrive /\ \A i \in 1..4 : Owes(i) ~> ~Owes(i)
=============================================================================
