------------------------------- MODULE MCCodex ------------------------------
(***************************************************************************)
(* The smaller components of the Codex extension, checked together: every  *)
(* behaviour is one of one part, while the others stay where they begin.   *)
(***************************************************************************)
EXTENDS JsonlClient, Naturals, Sequences, FiniteSets, TLC

CONSTANTS
    Consent, Lifetime, MaxTime, MaxRedirects, MaxTampers, MaxFaults, MaxOutput, Thread,
    Asking, Unborn, MaxThreads, MaxTombstones, MaxStatuses, MaxActive, MaxRestarts,
    MaxChanges, Caller, Dir, World, MaxProbes, MaxDirectories, MaxWorldChanges,
    MaxGeneration, MaxQueued, MaxBatchEvents, MaxText, MaxItems, MaxFinalized, MaxBatches

\* The bounds count, and there are as many consents as there are.
ASSUME CodexAssumption ==
    /\ MaxOutput \in Nat /\ MaxTime \in Nat /\ MaxRedirects \in Nat /\ MaxTampers \in Nat
    /\ MaxFaults \in Nat /\ MaxRestarts \in Nat /\ IsFiniteSet(Consent)

VARIABLES
    part,       \* the part this behaviour is about
    now, token, issuedAt, txAuth, fetchAuth, queue, pc, redirects, stager_timers, aborted,
    dir, archive, seen, flaw, tree, genuine, attested, probed, stager_outcome, requests,
    tampers, faults,
    command, child, code, output, flooding, operation, grace, hard, reason, settled,
    signalled, probe_listening, result,
    threads_generation, hostState, srv, cache, listRev, threads_disposed, threads_told, req,
    active, threads_changes, notified, archived, reverted,
    world, resolver_changes, resolver_generation, kept, flight, queued, waits,
    resolver_asked, resolver_told, expired, calm, last,
    reducer_pending, frame, turn, reducer_disposed, sent, newest

jsonlVars == vars

stagerVars ==
    <<now, token, issuedAt, txAuth, fetchAuth, queue, pc, redirects, stager_timers, aborted,
      dir, archive, seen, flaw, tree, genuine, attested, probed, stager_outcome, requests,
      tampers, faults>>
Stager == INSTANCE RuntimeStager WITH
    timers <- stager_timers, outcome <- stager_outcome

probeVars ==
    <<command, child, code, output, flooding, operation, grace, hard, reason, settled,
      signalled, probe_listening, result>>
Probe == INSTANCE RuntimeProbe WITH
    listening <- probe_listening

threadsVars ==
    <<threads_generation, hostState, srv, cache, listRev, threads_disposed, threads_told,
      req, active, threads_changes, notified, archived, reverted>>
Threads == INSTANCE ThreadCoordinator WITH
    Request <- Asking, generation <- threads_generation, disposed <- threads_disposed,
    told <- threads_told, changes <- threads_changes

resolverVars ==
    <<world, resolver_changes, resolver_generation, kept, flight, queued, waits,
      resolver_asked, resolver_told, expired, calm, last>>
Resolver == INSTANCE RuntimeResolver WITH
    MaxChanges <- MaxWorldChanges, changes <- resolver_changes,
    generation <- resolver_generation, asked <- resolver_asked, told <- resolver_told

reducerVars ==
    <<reducer_pending, frame, turn, reducer_disposed, sent, newest>>
Reducer == INSTANCE EventReducer WITH
    Identity <- {[gen |-> 1, seq |-> 1, turn |-> 1], [gen |-> 1, seq |-> 2, turn |-> 1],
    [gen |-> 1, seq |-> 2, turn |-> 2], [gen |-> 2, seq |-> 1, turn |-> 1]},
    pending <- reducer_pending, disposed <- reducer_disposed

-----------------------------------------------------------------------------
PartInit ==
    /\ part \in {"jsonl", "stager", "probe", "threads", "resolver", "reducer"}
    /\ Init /\ Stager!Init /\ Probe!Init /\ Threads!Init /\ Reducer!Init
    /\ Resolver!Init /\ (part = "resolver" \/ world.managed = "unreviewed")

\* Part p takes a step: the others stay.
Only(p) ==
    /\ part = p /\ UNCHANGED part
    /\ IF p = "jsonl" THEN TRUE ELSE UNCHANGED jsonlVars
    /\ IF p = "stager" THEN TRUE ELSE UNCHANGED stagerVars
    /\ IF p = "probe" THEN TRUE ELSE UNCHANGED probeVars
    /\ IF p = "threads" THEN TRUE ELSE UNCHANGED threadsVars
    /\ IF p = "resolver" THEN TRUE ELSE UNCHANGED resolverVars
    /\ IF p = "reducer" THEN TRUE ELSE UNCHANGED reducerVars

JsonlPart == Only("jsonl") /\ Next
StagerPart == Only("stager") /\ Stager!Next
ProbePart == Only("probe") /\ Probe!Next
ThreadsPart == Only("threads") /\ Threads!Next
ResolverPart == Only("resolver") /\ Resolver!Next
ReducerPart == Only("reducer") /\ Reducer!Next

PartNext ==
    \/ JsonlPart \/ StagerPart \/ ProbePart \/ ThreadsPart \/ ResolverPart \/ ReducerPart

partVars ==
    <<part, jsonlVars, stagerVars, probeVars, threadsVars, resolverVars, reducerVars>>

\* The fairness of each part, as its module states it.
PartSpec ==
    /\ PartInit /\ [][PartNext]_partVars
    /\ \A id \in Id : WF_jsonlVars(part = "jsonl" /\ TimesOut(id))
    /\ WF_stagerVars(part = "stager" /\ Stager!Step)
    /\ WF_probeVars(part = "probe" /\ Probe!Timers)
    /\ WF_probeVars(part = "probe" /\ Probe!Continues)
    /\ \A q \in Threads!Ops :
          WF_threadsVars(part = "threads" /\ (Threads!HostGrants(q) \/
              Threads!HostRefuses(q)))
    /\ \A q \in Threads!Ops :
          WF_threadsVars(part = "threads" /\ (Threads!Answers(q) \/ Threads!Fails(q)))
    /\ \A q \in Threads!Ops :
          WF_threadsVars(part = "threads" /\ (Threads!Continues(q) \/
              Threads!RefreshFails(q)))
    /\ WF_resolverVars(part = "resolver" /\ (Resolver!Expires \/
              Resolver!ProbeEnds \/ Resolver!StartsQueued))

-----------------------------------------------------------------------------
\* Machines with Codex, or something that looks like it, in the directories of PATH, in
\* a package of npm, in the managed store, or in what is configured.
Machine(d1, d2, d3, store) ==
    [path |-> <<"d1", "relative", "d2", "d1", "d3", "d4">>, env |-> "none", user |-> "none",
     file |-> ("d1" :> d1) @@ ("d2" :> d2) @@ ("d3" :> d3) @@ ("d4" :> "good"),
     root |-> [scope |-> "none", nested |-> "good", own |-> "invalid"], managed |-> store]
MCWorld ==
    {Machine("absent", "old", "good", "none"), Machine("old", "launcher", "good", "none"),
     Machine("old", "old", "good", "good"), Machine("script", "foreign", "absent", "differs"),
     Machine("absent", "absent", "absent", "unreviewed"),
     Machine("absent", "absent", "absent", "malformed"),
     [Machine("launcher", "good", "absent", "none") EXCEPT !.root.scope = "invalid"],
     [Machine("launcher", "absent", "absent", "good") EXCEPT !.root.scope = "differs"],
     [Machine("good", "launcher", "absent", "good") EXCEPT !.env = "d2", !.user = "d1"],
     [Machine("good", "absent", "absent", "good") EXCEPT !.env = "malformed"],
     [Machine("good", "absent", "absent", "good") EXCEPT !.user = "d2"]}

\* In every state of a part: its state has its type; a promise waits exactly while its
\* entry exists and its timer is armed, and a probe's command has a timer that settles it
\* without the child; a failed staging leaves nothing behind unless a file operation
\* failed or another program interfered; an archived thread stays away and a thread's
\* status is not replaced by an older one; leases go back; an answer of the resolver is
\* what configuration and disk demand, was begun after the last invalidate() before the
\* call, and never comes after the deadline; the newest turn is shown, in order, within
\* the reducer's limits, and what was lost of it is told.
PartsAgree ==
    CASE part = "jsonl" -> TypeOK /\ WaitingIsTimed
      [] part = "stager" -> Stager!TypeOK /\ Stager!FailureIsClean
      [] part = "probe" -> Probe!TypeOK /\ Probe!PendingIsTimed
      [] part = "threads" ->
             /\ Threads!TypeOK /\ Threads!ArchivedStaysAway /\ Threads!StatusIsFresh
             /\ Threads!ClientsAreTold /\ Threads!LeasesAreActive
      [] part = "resolver" ->
             /\ Resolver!TypeOK /\ Resolver!AnswersAreFresh /\ Resolver!KeptLasts
             /\ Resolver!BestIsChosen /\ Resolver!NothingLate
      [] part = "reducer" ->
             /\ Reducer!TypeOK /\ Reducer!WaitingHasFrame /\ Reducer!NewestIsShown
             /\ Reducer!TextIsInOrder /\ Reducer!LossIsTold

\* No step settles a promise of the client twice, a command of the probe never succeeds
\* after it was terminated, and what is shown never goes back to an older turn.
PromisesSettleOnce ==
    SettlesOnce /\ Probe!CommandsSettleOnce /\ Reducer!ShownGoesForward

\* What is published is the tree that was attested and run, and what the reviewed bytes held
\* unless another program changed it before it was attested; and a download is requested only
\* under a live consent that was spent.
StagingIsSound == Stager!PublishedIsAttested /\ Stager!RequestsAreConsented

\* What the running part has begun and must end.  A consent is its number.
PartDuties ==
    CASE part = "jsonl" -> [id \in Id |-> outcome[id] = "waiting"]
      [] part = "stager" -> [c \in Consent |-> \E i \in DOMAIN queue : queue[i] = c]
      [] part = "probe" -> <<command # "none" /\ result = "none">>
      [] part = "threads" -> Threads!Duties
      [] part = "resolver" -> [c \in Caller |-> waits[c] # "none"]
      [] OTHER -> <<>>
Owes(i) == i \in DOMAIN PartDuties /\ PartDuties[i]

\* Every request is answered, every installation leaves the root lock's queue, every probe,
\* operation and refresh ends, whatever server, network, host and child do.
PartsSettle == \A i \in 1..2 : Owes(i) ~> ~Owes(i)
=============================================================================
