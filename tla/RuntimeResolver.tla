-------------------------- MODULE RuntimeResolver --------------------------
(***************************************************************************)
(* The resolver that finds the Codex executable                            *)
(* (ride-codex-runtime-resolver.ts).  Callers share one resolution at a    *)
(* time; a success is kept until invalidate(), unless it is the managed    *)
(* runtime.  A resolution reads RIDE_CODEX_PATH, the user's setting, the   *)
(* directories of PATH and the managed store in that order, under one      *)
(* deadline, and probes what it finds.                                     *)
(*                                                                         *)
(* The world may change at any time, and every read or probe may fail.     *)
(***************************************************************************)
EXTENDS Naturals, Sequences, FiniteSets, SequencesExt

CONSTANTS
    Caller,
    Dir,                \* directories, each with its `codex`
    World,              \* what may be installed and configured
    MaxProbes,          \* maxSystemProbes
    MaxDirectories,     \* RIDE_CODEX_RUNTIME_DISCOVERY_LIMITS.maxDirectories
    MaxChanges,         \* bound on the changes of the world
    MaxGeneration       \* bound on generation

VARIABLES
    world,              \* a member of World
    changes,            \* how often it changed
    generation,
    kept,               \* successfulResolution and successfulGeneration, or Nothing
    flight,             \* inFlightResolution: what it waits for, and with what
    queued,             \* queuedResolution is set
    waits,              \* what a caller waits for: "none", "flight" or "queued"
    asked,              \* the generation of its call
    told,               \* the last answer it got
    expired,            \* the deadline of the flight passed
    calm,               \* history: since this flight began, nothing changed or failed
    last                \* history: how the last flight ended

callVars == <<queued, waits, asked, told>>
vars == <<world, changes, generation, kept, flight, callVars, expired, calm, last>>

Roots == <<"scope", "nested", "own">>       \* where the launcher's package may be
Files == {"absent", "script", "foreign", "old", "good", "launcher"}
Setting == Dir \cup {"none", "blank", "malformed"}
IsWorld(w) ==
    /\ w.path \in Seq(Dir \cup {"relative"}) /\ w.env \in Setting /\ w.user \in Setting
    /\ w.file \in [Dir -> Files]
    /\ w.root \in [Range(Roots) -> {"none", "invalid", "differs", "good"}]
    /\ w.managed \in {"none", "malformed", "unreviewed", "differs", "foreign", "good"}
Results == {"ok", "configuration", "unavailable", "deadline"}
Sources == {"override", "system", "managed", "none"}
Nothing == [result |-> "nothing", source |-> "none", exe |-> "none", at |-> 0]
NoFlight == [pc |-> "none", at |-> 0, source |-> "none", candidate |-> "none",
             exe |-> "none", promised |-> 0, list |-> <<>>, index |-> 0, probes |-> 0]
Flying == flight.pc # "none"

Init ==
    /\ world \in World /\ changes = 0 /\ generation = 0
    /\ kept = Nothing /\ flight = NoFlight /\ queued = FALSE
    /\ waits = [c \in Caller |-> "none"] /\ asked = [c \in Caller |-> 0]
    /\ told = [c \in Caller |-> Nothing]
    /\ expired = FALSE /\ calm = FALSE /\ last = Nothing

-----------------------------------------------------------------------------
(* What is found on the disk                                               *)

\* The versions that the executables print, and those the protocol was reviewed for.
Compatible == 2..3
Prints(x) ==
    LET kind == IF x \in Dir THEN world.file[x]
                ELSE IF x = "managed" THEN world.managed ELSE world.root[x]
    IN  CASE kind = "old" -> 1 [] kind = "differs" -> 3 [] OTHER -> 2

\* readNativeBinaryTargets: the architectures that the header of an executable names.
Targets(kind) == CASE kind \in {"none", "absent", "script"} -> {}
                   [] kind = "foreign" -> {"there"}
                   [] OTHER -> {"here"}

\* resolveNpmNativePackageRoots: the first root with a manifest decides, and a manifest
\* that is not valid refuses the candidate.
Package == LET there == SelectSeq(Roots, LAMBDA r : world.root[r] # "none")
           IN  IF there = <<>> \/ world.root[there[1]] = "invalid" THEN "refused" ELSE there[1]

\* resolveWindowsNpmWrapper, resolvePosixNpmLauncher: a script or a link of npm that leads
\* to the package of a compatible Codex.  Any other one is a "script".
IsLauncher(d) == world.file[d] = "launcher"

\* resolveNativeExecutable: the executable behind a candidate.
Native(x) ==
    LET kind == IF x = "managed" THEN world.managed ELSE world.file[x]
    IN  IF x \notin Dir \cup {"managed"} THEN "refused"
        ELSE IF x \in Dir /\ IsLauncher(x) THEN Package
        ELSE IF "here" \in Targets(kind) THEN x ELSE "refused"

\* discoverDefaultCodexSystemCandidates: absolute directories, each once, up to the limit.
Discover(path) ==
    FoldLeft(LAMBDA found, d :
                IF d = "relative" \/ d \in Range(found) \/ Len(found) >= MaxDirectories
                THEN found ELSE Append(found, d), <<>>, path)

-----------------------------------------------------------------------------
(* One resolution                                                          *)

\* The end of a resolution, for those who wait for it.  Only a success of the current
\* generation is kept, and never the managed runtime.
Finishes(result) ==
    LET ok == result = "ok"
        answer == [result |-> result, source |-> IF ok THEN flight.source ELSE "none",
                   exe |-> IF ok THEN flight.exe ELSE "none", at |-> flight.at]
    IN  /\ last' = answer /\ flight' = NoFlight
        /\ told' = [c \in Caller |-> IF waits[c] = "flight" THEN answer ELSE told[c]]
        /\ waits' = [c \in Caller |-> IF waits[c] = "flight" THEN "none" ELSE waits[c]]
        /\ kept' = IF ok /\ generation = answer.at /\ answer.source # "managed" THEN answer
                   ELSE kept
        /\ UNCHANGED <<queued, asked>>
Continues(f) == flight' = f /\ UNCHANGED <<callVars, kept, last>>

\* resolveExplicit, and a candidate of another source.
Considers(f, source, x) ==
    [f EXCEPT !.pc = "native", !.source = source, !.candidate = x, !.exe = "none",
              !.promised = 0]

\* The environment is read as the resolution starts.
Fresh ==
    LET f == [NoFlight EXCEPT !.pc = "user", !.at = generation, !.list = Discover(world.path)]
    IN  IF world.env = "none" THEN f ELSE Considers(f, "override", world.env)
Starts == flight' = Fresh /\ expired' = FALSE /\ calm' = TRUE /\ last' = Nothing

\* The loop over the system candidates, at the i-th.
Candidate(f, i) ==
    IF i > Len(f.list) \/ f.probes >= MaxProbes
    THEN [f EXCEPT !.pc = "managed", !.source = "none", !.candidate = "none", !.exe = "none",
                   !.promised = 0]
    ELSE [Considers(f, "system", f.list[i]) EXCEPT !.index = i]

\* resolveCandidate throws: an override and the managed runtime were the last chance.
Fails ==
    CASE flight.source = "override" -> Finishes("configuration")
      [] flight.source = "managed" -> Finishes("unavailable")
      [] OTHER -> Continues(Candidate(flight, flight.index + 1))

ReadsSetting ==
    /\ flight.pc = "user"
    /\ Continues(IF world.user = "none" THEN [flight EXCEPT !.pc = "discover"]
                 ELSE Considers(flight, "override", world.user))

Discovers == flight.pc = "discover" /\ Continues(Candidate(flight, 1))

\* resolveCandidate, up to the probe.  A package and the managed runtime promise a version.
Checks ==
    LET x == Native(flight.candidate)
        system == flight.source = "system"
    IN  /\ flight.pc = "native"
        /\ IF x = "refused" \/ (system /\ flight.probes >= MaxProbes) THEN Fails
           ELSE Continues([flight EXCEPT !.pc = "probe", !.exe = x,
                                         !.promised = IF x \in Dir THEN 0 ELSE 2,
                                         !.probes = IF system THEN @ + 1 ELSE @])

\* The probe tells the version.
Fits(version, promised) == version \in Compatible /\ promised \in {0, version}
Probed ==
    /\ flight.pc = "probe" /\ ~expired
    /\ IF Fits(Prints(flight.exe), flight.promised) THEN Finishes("ok") ELSE Fails

\* requireReviewedManagedRuntime
Reviewed == world.managed \notin {"none", "malformed", "unreviewed"}

\* The active runtime of the store.
ReadsManaged ==
    /\ flight.pc = "managed"
    /\ IF Reviewed THEN Continues(Considers(flight, "managed", "managed"))
       ELSE Finishes("unavailable")

\* What is awaited throws on its own.
Breaks ==
    /\ calm' = FALSE /\ Flying /\ ~expired
    /\ CASE flight.pc = "user" -> Finishes("configuration")
         [] flight.pc = "discover" -> Continues(Candidate([flight EXCEPT !.list = <<>>], 1))
         [] flight.pc = "managed" -> Finishes("unavailable")
         [] OTHER -> Fails
    /\ UNCHANGED <<world, changes, generation, expired>>

\* ResolutionDeadline: what is awaited is abandoned, but a probe ends its child first.
OutOfTime == CASE flight.source = "override" -> "configuration"
               [] flight.source = "managed" -> "unavailable"
               [] OTHER -> "deadline"
Expires ==
    /\ Flying /\ ~expired /\ expired' = TRUE /\ calm' = FALSE
    /\ IF flight.pc = "probe" THEN Continues(flight) ELSE Finishes(OutOfTime)
    /\ UNCHANGED <<world, changes, generation>>
ProbeEnds ==
    /\ expired /\ flight.pc = "probe" /\ Finishes(OutOfTime)
    /\ UNCHANGED <<world, changes, generation, expired, calm>>

Proceeds ==
    /\ ReadsSetting \/ Discovers \/ Checks \/ Probed \/ ReadsManaged
    /\ UNCHANGED <<world, changes, generation, expired, calm>>

-----------------------------------------------------------------------------
(* Callers                                                                 *)

\* resolve
Calls(c) ==
    /\ waits[c] = "none" /\ asked' = [asked EXCEPT ![c] = generation]
    /\ IF kept # Nothing /\ kept.at = generation
       THEN told' = [told EXCEPT ![c] = kept] /\ UNCHANGED <<waits, queued>>
       ELSE /\ waits' = [waits EXCEPT ![c] = IF queued \/ (Flying /\ flight.at # generation)
                                             THEN "queued" ELSE "flight"]
            /\ queued' = (waits'[c] = "queued" \/ queued)
            /\ told' = [told EXCEPT ![c] = Nothing]
    /\ IF waits'[c] = "flight" /\ ~Flying THEN Starts
       ELSE UNCHANGED <<flight, expired, calm, last>>
    /\ UNCHANGED <<world, changes, generation, kept>>

\* The queued resolution starts when the one before it has ended.
StartsQueued ==
    /\ queued /\ ~Flying /\ queued' = FALSE /\ Starts
    /\ waits' = [c \in Caller |-> IF waits[c] = "queued" THEN "flight" ELSE waits[c]]
    /\ UNCHANGED <<world, changes, generation, kept, asked, told>>

\* invalidate
Invalidates ==
    /\ generation < MaxGeneration /\ generation' = generation + 1 /\ kept' = Nothing
    /\ UNCHANGED <<world, changes, flight, callVars, expired, calm, last>>

Changes(w) ==
    /\ changes < MaxChanges /\ changes' = changes + 1
    /\ w # world /\ world' = w /\ calm' = FALSE
    /\ UNCHANGED <<generation, kept, flight, callVars, expired, last>>

Next ==
    \/ Proceeds \/ Breaks \/ Expires \/ ProbeEnds \/ StartsQueued \/ Invalidates
    \/ \E c \in Caller : Calls(c)
    \/ \E w \in World : Changes(w)

Spec == Init /\ [][Next]_vars
FairSpec == Spec /\ WF_vars(Expires) /\ WF_vars(ProbeEnds) /\ WF_vars(StartsQueued)

-----------------------------------------------------------------------------
Answers == [result : Results \cup {"nothing"}, source : Sources,
            exe : Dir \cup Range(Roots) \cup {"managed", "none"}, at : 0..MaxGeneration]
TypeOK ==
    /\ world \in World /\ IsWorld(world) /\ changes \in 0..MaxChanges
    /\ generation \in 0..MaxGeneration /\ flight.probes \in 0..MaxProbes
    /\ flight.at \in 0..generation /\ Len(flight.list) <= MaxDirectories
    /\ flight.source \in Sources /\ flight.index \in 0..Len(flight.list)
    /\ kept \in Answers /\ last \in Answers /\ told \in [Caller -> Answers]
    /\ waits \in [Caller -> {"none", "flight", "queued"}] /\ asked \in [Caller -> 0..generation]
    /\ queued \in BOOLEAN /\ expired \in BOOLEAN /\ calm \in BOOLEAN

\* A caller waits only for a resolution that runs or is going to, and what it gets was
\* begun after the last invalidate() before it asked.
AnswersAreFresh ==
    \A c \in Caller :
        CASE waits[c] = "flight" -> Flying /\ flight.at >= asked[c]
          [] waits[c] = "queued" -> queued
          [] OTHER -> told[c] # Nothing => told[c].at >= asked[c]

\* What is kept is of this generation, and can be told without reading the store.
KeptLasts == kept # Nothing => kept.at = generation /\ kept.source \in {"override", "system"}

\* A resolution that nothing disturbed ends as the configuration and the disk demand: with
\* what is configured and nothing else; then with the first directory of PATH, of those
\* within the limits, that has a working Codex; then with the managed runtime.
Works(x) ==
    /\ x \in Dir
    /\ \/ world.file[x] = "good"
       \/ /\ IsLauncher(x)
          /\ \E i \in DOMAIN Roots : /\ world.root[Roots[i]] = "good"
                                   /\ \A j \in 1..(i - 1) : world.root[Roots[j]] = "none"
Scanned ==
    LET new == {i \in DOMAIN world.path : /\ world.path[i] # "relative"
                                          /\ \A j \in 1..(i - 1) : world.path[j] # world.path[i]}
    IN  {i \in new : Cardinality({j \in new : j < i}) < MaxDirectories}
Reached ==
    {i \in Scanned : Cardinality({j \in Scanned : j < i /\ Native(world.path[j]) # "refused"})
                     < MaxProbes}
Best ==
    LET set == IF world.env # "none" THEN world.env ELSE world.user
        working == {i \in Reached : Works(world.path[i])}
    IN  IF set # "none"
        THEN IF Works(set) THEN <<"ok", "override", Native(set)>>
             ELSE <<"configuration", "none", "none">>
        ELSE IF working # {} THEN <<"ok", "system", Native(world.path[Min(working)])>>
        ELSE IF world.managed = "good" THEN <<"ok", "managed", "managed">>
        ELSE <<"unavailable", "none", "none">>
BestIsChosen == calm /\ ~Flying => <<last.result, last.source, last.exe>> = Best

\* No runtime is answered after the deadline.
NothingLate == expired /\ ~Flying => last.result # "ok"

\* Every call is answered, whatever disk, store and probe do.
CallsSettle == \A c \in Caller : waits[c] # "none" ~> waits[c] = "none"
=============================================================================
