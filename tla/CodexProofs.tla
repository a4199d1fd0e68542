----------------------------- MODULE CodexProofs ------------------------------
(***************************************************************************)
(* Proofs about the Codex parts that MCCodex checks together, for any      *)
(* numbers of requests, consents, callers, restarts, redirects and faults. *)
(*                                                                         *)
(* The argument: each part has an inductive invariant of its own.  The     *)
(* probe's command has a timer until it is settled.  The stager's lock is  *)
(* the head of a queue in which no consent stands twice (StagerQueue), so  *)
(* that what a consent has paid for is what the installation has requested *)
(* (StagerRequests); the two attestations enclose the run                  *)
(* (StagerVersions), and each check excludes a flaw of the version it saw, *)
(* which stays excluded as long as that version is there (StagerChecked).  *)
(* A caller of the resolver waits for a resolution no older than its call  *)
(* (ResolverWaits), and what ends with success ends in time                *)
(* (ResolverInTime).  A lease of the thread coordinator belongs to an      *)
(* active request (ThreadsInv).  A step of the composition is a step of    *)
(* one part that leaves the variables of the others (PartSteps).           *)
(***************************************************************************)
EXTENDS MCCodex, JsonlClientProofs, FiniteSetTheorems, TLAPS

-----------------------------------------------------------------------------
(* The probe of a runtime                                                  *)

\* The command of the probe, its process, and how both have ended.
ProbePlaces ==
    /\ command \in {"none", "version", "help"} /\
           child \in {"none", "running", "exited", "closed"}
    /\ code \in Probe!Codes /\ output \in 0..MaxOutput /\
           reason \in {"none", "timeout", "aborted"}
    /\ settled \in Probe!Settlements /\ result \in {"none", "compatible", "failed"}

\* The flags and the timers of a command.
ProbeFlags ==
    /\ flooding \in BOOLEAN /\ signalled \in BOOLEAN
    /\ operation \in BOOLEAN /\ grace \in BOOLEAN /\ hard \in BOOLEAN /\
           probe_listening \in BOOLEAN

\* The inductive invariant of the probe.
ProbeInv == ProbePlaces /\ ProbeFlags /\ Probe!PendingIsTimed

\* Every step keeps the places.
LEMMA ProbePlacesKept == ProbePlaces /\ [Probe!Next]_probeVars => ProbePlaces'
<1> SUFFICES ASSUME ProbePlaces, [Probe!Next]_probeVars PROVE ProbePlaces'
  OBVIOUS
<1> USE CodexAssumption DEF ProbePlaces, Probe!Codes, Probe!Settlements
<1>1. CASE UNCHANGED probeVars
  BY <1>1 DEF probeVars
<1>2. CASE Probe!Collect
  BY <1>2 DEF Probe!Collect, Probe!RejectOnce, Probe!TooMuch
<1>3. CASE Probe!PipeFails \/ Probe!ProcessFails \/ Probe!HardTimer
  BY <1>3 DEF Probe!PipeFails, Probe!ProcessFails, Probe!HardTimer, Probe!RejectOnce
<1>4. ASSUME NEW how \in Probe!Codes, Probe!Exit(how) PROVE ProbePlaces'
  BY <1>4 DEF Probe!Exit, Probe!RejectOnce
<1>5. CASE Probe!Close
  BY <1>5 DEF Probe!Close
<1>6. CASE Probe!OperationTimer \/ Probe!Abort
  BY <1>6 DEF Probe!OperationTimer, Probe!Abort, Probe!Terminate
<1>7. CASE Probe!GraceTimer
  BY <1>7 DEF Probe!GraceTimer
<1>8. ASSUME NEW c \in {"version", "help"}, Probe!Starts(c) PROVE ProbePlaces'
  BY <1>8 DEF Probe!Starts
<1>9. CASE Probe!Continues
  BY <1>8, <1>9 DEF Probe!Continues, Probe!ProbeVersion, Probe!ProbeHelp, Probe!ProbeEnds
<1>10. QED
  BY <1>1, <1>2, <1>3, <1>4, <1>5, <1>6, <1>7, <1>9 DEF Probe!Next, Probe!ChildActs, Probe!Timers

\* A command that is not settled has a timer, whatever comes first.
LEMMA ProbeFlagsKept ==
    ProbeFlags /\ Probe!PendingIsTimed /\ [Probe!Next]_probeVars =>
        ProbeFlags' /\ Probe!PendingIsTimed'
<1> SUFFICES ASSUME ProbeFlags, Probe!PendingIsTimed, [Probe!Next]_probeVars
             PROVE ProbeFlags' /\ Probe!PendingIsTimed'
  OBVIOUS
<1> USE DEF ProbeFlags, Probe!PendingIsTimed, Probe!timerVars, Probe!CleansUp
<1>1. CASE UNCHANGED probeVars
  BY <1>1 DEF probeVars
<1>2. CASE Probe!Collect
  BY <1>2 DEF Probe!Collect, Probe!RejectOnce
<1>3. CASE Probe!PipeFails \/ Probe!ProcessFails \/ Probe!HardTimer
  BY <1>3 DEF Probe!PipeFails, Probe!ProcessFails, Probe!HardTimer, Probe!RejectOnce
<1>4. ASSUME NEW how \in Probe!Codes, Probe!Exit(how) PROVE ProbeFlags' /\ Probe!PendingIsTimed'
  BY <1>4 DEF Probe!Exit, Probe!RejectOnce
<1>5. CASE Probe!Close
  BY <1>5 DEF Probe!Close
<1>6. CASE Probe!OperationTimer \/ Probe!Abort
  <2>1. \/ Probe!Terminate("timeout") \/ Probe!Terminate("aborted") \/ UNCHANGED Probe!timerVars
    BY <1>6 DEF Probe!OperationTimer, Probe!Abort
  <2>2. \/ UNCHANGED <<operation, grace, hard>>
        \/ settled = "pending" /\ operation' = FALSE /\ grace' = TRUE /\ hard' = TRUE
    BY <2>1 DEF Probe!Terminate
  <2>3. /\ UNCHANGED <<command, flooding, settled, probe_listening>>
        /\ signalled' \in BOOLEAN
    BY <1>6 DEF Probe!OperationTimer, Probe!Abort
  <2>4. CASE UNCHANGED <<operation, grace, hard>>
    BY <2>3, <2>4
  <2>5. CASE settled = "pending" /\ operation' = FALSE /\ grace' = TRUE /\ hard' = TRUE
    <3>1. (command # "none")' => probe_listening'
      BY <2>3, <2>5
    <3>2. ProbeFlags'
      BY <2>3, <2>5
    <3>3. QED  BY <2>3, <2>5, <3>1, <3>2
  <2>6. QED  BY <2>2, <2>4, <2>5
<1>7. CASE Probe!GraceTimer
  BY <1>7 DEF Probe!GraceTimer
<1>8. ASSUME NEW c \in {"version", "help"}, Probe!Starts(c) PROVE ProbeFlags' /\
         Probe!PendingIsTimed'
  BY <1>8 DEF Probe!Starts
<1>9. CASE Probe!Continues
  BY <1>8, <1>9 DEF Probe!Continues, Probe!ProbeVersion, Probe!ProbeHelp, Probe!ProbeEnds
<1>10. QED
  BY <1>1, <1>2, <1>3, <1>4, <1>5, <1>6, <1>7, <1>9 DEF Probe!Next, Probe!ChildActs, Probe!Timers

\* A probe without a command satisfies the invariant.
LEMMA ProbeStarts == Probe!Init => ProbeInv
<1> SUFFICES ASSUME Probe!Init PROVE ProbeInv
  OBVIOUS
<1>1. ProbePlaces
  BY CodexAssumption DEF Probe!Init, ProbePlaces, Probe!Codes, Probe!Settlements
<1>2. ProbeFlags
  BY DEF Probe!Init, ProbeFlags
<1>3. Probe!PendingIsTimed
  BY DEF Probe!Init, Probe!PendingIsTimed
<1>4. QED  BY <1>1, <1>2, <1>3 DEF ProbeInv

\* Every step keeps the invariant.
LEMMA ProbeKept == ProbeInv /\ [Probe!Next]_probeVars => ProbeInv'
BY ProbePlacesKept, ProbeFlagsKept DEF ProbeInv

\* The invariant gives the types and PendingIsTimed.
LEMMA ProbeIsSound == ProbeInv => Probe!TypeOK /\ Probe!PendingIsTimed
BY DEF ProbeInv, ProbePlaces, ProbeFlags, Probe!TypeOK

\* A command's promise is settled once, and one that is being terminated does not succeed.
LEMMA ProbeSettlesOnce ==
    ASSUME ProbeInv, [Probe!Next]_probeVars
    PROVE  /\ settled # "pending" /\ command' = command => settled' = settled
           /\ settled' = "resolved" /\ settled # "resolved" => reason = "none" /\ code = "ok"
<1> USE DEF ProbeInv, ProbePlaces, Probe!Settlements
<1>1. CASE UNCHANGED probeVars
  BY <1>1 DEF probeVars
<1>2. CASE Probe!Collect
  BY <1>2 DEF Probe!Collect, Probe!RejectOnce
<1>3. CASE Probe!PipeFails \/ Probe!ProcessFails \/ Probe!HardTimer
  BY <1>3 DEF Probe!PipeFails, Probe!ProcessFails, Probe!HardTimer, Probe!RejectOnce
<1>4. ASSUME NEW how \in Probe!Codes, Probe!Exit(how)
      PROVE  /\ settled # "pending" /\ command' = command => settled' = settled
             /\ settled' = "resolved" /\ settled # "resolved" => reason = "none" /\ code = "ok"
  BY <1>4 DEF Probe!Exit, Probe!RejectOnce
<1>5. CASE Probe!Close
  BY <1>5 DEF Probe!Close, Probe!Resolves
<1>6. CASE Probe!OperationTimer \/ Probe!Abort \/ Probe!GraceTimer \/ Probe!ProbeEnds
  BY <1>6 DEF Probe!OperationTimer, Probe!Abort, Probe!GraceTimer, Probe!ProbeEnds
<1>7. CASE Probe!ProbeVersion
  BY <1>7 DEF Probe!ProbeVersion, Probe!Starts
<1>8. CASE Probe!ProbeHelp
  BY <1>8 DEF Probe!ProbeHelp, Probe!Starts
<1>9. QED
  BY <1>1, <1>2, <1>3, <1>4, <1>5, <1>6, <1>7, <1>8
     DEF Probe!Next, Probe!ChildActs, Probe!Timers, Probe!Continues

-----------------------------------------------------------------------------
(* The staging of a runtime                                                *)

\* Where the installation stands, and what is on disk.
StagerPlaces ==
    /\ token \in [Consent -> {"none", "issued", "spent"}] /\ pc \in Stager!StagePcs
    /\ dir \in {"absent", "mine", "replaced", "litter", "quarantined"}
    /\ archive \in {"none", "partial", "reviewed", "other"} /\ flaw \in Stager!Flaws
    /\ stager_outcome \in {"none", "published", "failed"}

\* The flags, the consents and the timers.
StagerSets ==
    /\ aborted \in BOOLEAN /\ seen \in BOOLEAN /\ genuine \in BOOLEAN
    /\ txAuth \subseteq Consent /\ fetchAuth \subseteq Consent
    /\ stager_timers \subseteq {"overall", "connect", "idle"}

\* Every change of the tree by another program makes one version.
StagerNumbers ==
    /\ now \in 0..MaxTime /\ issuedAt \in [Consent -> 0..MaxTime]
    /\ redirects \in 0..MaxRedirects /\ tampers \in 0..MaxTampers /\ faults \in 0..MaxFaults
    /\ tree \in 0..(tampers + 1) /\ attested \in 0..(tampers + 1) /\ probed \in 0..(tampers + 1)

\* An installation has the lock while it goes on, and its consent waits in the queue once.
StagerQueue ==
    /\ queue \in Seq(Consent) /\ Len(queue) <= Cardinality(Consent)
    /\ pc # "idle" => queue # <<>>
    /\ \A i \in DOMAIN queue : token[queue[i]] = "spent"
    /\ \A i, j \in DOMAIN queue : queue[i] = queue[j] => i = j

\* A consent has paid for as many requests as its download has made hops.
StagerEarly == {"idle", "recovering", "authorize", "capacity", "open"}
\* What each consent has paid for.
StagerRequests ==
    /\ requests \in [Consent -> Nat]
    /\ \A c \in Consent : token[c] # "spent" => requests[c] = 0
    /\ \A i \in DOMAIN queue : i > 1 \/ pc \in StagerEarly => requests[queue[i]] = 0
    /\ pc \in StagerEarly => redirects = 0
    /\ pc = "hop" => requests[queue[1]] = redirects
    /\ pc = "answer" => requests[queue[1]] = redirects + 1

\* Where the staging directory is, as the installation goes on.
StagerDir ==
    /\ pc \in {"recovering", "authorize", "capacity"} => dir = "absent"
    /\ pc \notin {"idle", "recovering", "authorize", "capacity"} => dir \in {"mine", "replaced"}
    /\ pc = "idle" /\ stager_outcome = "failed" => dir \in {"absent", "litter", "quarantined"}
    /\ dir = "replaced" => tampers > 0
    /\ dir = "litter" => faults > 0
    /\ dir = "quarantined" => tampers + faults > 0

\* What was attested is no later than what was run, and that no later than what is there.
StagerVersions ==
    /\ pc \in {"probe", "reattest", "staged"} => attested <= tree
    /\ pc \in {"reattest", "staged"} => attested <= probed /\ probed <= tree

\* What the checks so far have excluded: of the tree that was extracted, as long as nobody has
\* changed it, and of the versions that were attested and run.
StagerExtracted == {"extracted", "unpacked", "attest", "probe", "reattest", "staged"}
StagerChecked ==
    /\ pc = "rehashed" /\ seen = TRUE => archive = "reviewed"
    /\ pc = "extracted" /\ seen = TRUE /\ tree = 1 => genuine = TRUE
    /\ pc \in StagerExtracted \ {"extracted"} /\ tree = 1 => genuine = TRUE
    /\ pc \in StagerExtracted => flaw # "header"
    /\ pc \in StagerExtracted /\ tree = 1 => flaw # "entry"
    /\ pc \in {"attest", "probe", "reattest", "staged"} /\ tree = 1 =>
           flaw \notin {"manifest", "binary"}
    /\ pc \in {"probe", "reattest", "staged"} /\ tree = attested => flaw # "entry"
    /\ pc \in {"reattest", "staged"} /\ tree = probed => flaw # "version"

\* The inductive invariant of the stager.
StagerInv ==
    /\ StagerPlaces /\ StagerSets /\ StagerNumbers /\ StagerQueue /\ StagerRequests /\ StagerDir
    /\ StagerVersions /\ StagerChecked

\* Every step keeps the places.
LEMMA StagerPlacesKept ==
    StagerPlaces /\ [Stager!Next]_stagerVars => StagerPlaces'
<1> SUFFICES ASSUME StagerPlaces, [Stager!Next]_stagerVars PROVE StagerPlaces'
  OBVIOUS
<1>1. CASE UNCHANGED stagerVars
  BY <1>1 DEF stagerVars, StagerPlaces, Stager!StagePcs, Stager!Flaws
<1>2. CASE Stager!Tick
  BY <1>2 DEF Stager!Tick, Stager!consentVars, Stager!stageVars, Stager!fileVars, StagerPlaces,
     Stager!StagePcs, Stager!Flaws
<1>3. CASE Stager!Abort
  BY <1>3 DEF Stager!Abort, Stager!consentVars, Stager!stageVars, Stager!fileVars, StagerPlaces,
     Stager!StagePcs, Stager!Flaws
<1>4. ASSUME NEW c \in Consent, Stager!Issue(c)
      PROVE  StagerPlaces'
  BY <1>4 DEF Stager!Issue, Stager!stageVars, Stager!fileVars, StagerPlaces, Stager!StagePcs,
     Stager!Flaws
<1>5. ASSUME NEW c \in Consent, Stager!Consume(c)
      PROVE  StagerPlaces'
  BY <1>5 DEF Stager!Consume, Stager!Spends, Stager!Live, Stager!stageVars, Stager!fileVars,
     StagerPlaces, Stager!StagePcs, Stager!Flaws
<1>6. CASE Stager!Enter
  BY <1>6 DEF Stager!Enter, Stager!Current, Stager!Live, Stager!Known, Stager!stageVars,
     Stager!Releases, Stager!Forgets, Stager!Keeps, Stager!Works, StagerPlaces, Stager!StagePcs,
     Stager!Flaws
<1>7. CASE Stager!Recover
  BY <1>7 DEF Stager!Recover, Stager!Goes, Stager!Known, Stager!stageVars, Stager!Works,
     Stager!Releases, Stager!Forgets, Stager!Fault, Stager!Keeps, Stager!KeepsConsent,
     Stager!consentVars, StagerPlaces, Stager!StagePcs, Stager!Flaws
<1>8. CASE Stager!Authorize
  BY <1>8 DEF Stager!Authorize, Stager!RootIsSafe, Stager!Current, Stager!Live, Stager!Goes,
     Stager!Known, Stager!stageVars, Stager!Releases, Stager!Forgets, Stager!Fault,
     Stager!Keeps, StagerPlaces, Stager!StagePcs, Stager!Flaws
<1>9. CASE Stager!MakeStaging
  BY <1>9 DEF Stager!MakeStaging, Stager!Goes, Stager!Known, Stager!stageVars, Stager!Works,
     Stager!Releases, Stager!Forgets, Stager!Fault, Stager!Keeps, Stager!KeepsConsent,
     Stager!consentVars, StagerPlaces, Stager!StagePcs, Stager!Flaws
<1>10. CASE Stager!OpenDestination
  BY <1>10 DEF Stager!OpenDestination, Stager!ContextMatches, Stager!Live, Stager!Current,
     Stager!Goes, Stager!FetchFails, Stager!Keeps, Stager!KeepsConsent, Stager!consentVars,
     Stager!Works, StagerPlaces, Stager!StagePcs, Stager!Flaws
<1>11. CASE Stager!OpenRequest
  BY <1>11 DEF Stager!OpenRequest, Stager!MayRequest, Stager!Live, Stager!Current, Stager!Goes,
     Stager!fileVars, Stager!FetchFails, Stager!Keeps, Stager!KeepsConsent, Stager!consentVars,
     Stager!Works, StagerPlaces, Stager!StagePcs, Stager!Flaws
<1>12. CASE Stager!Answer
  BY <1>12 DEF Stager!Answer, Stager!RedirectAllowed, Stager!Goes, Stager!fileVars,
     Stager!FetchFails, Stager!LengthMatches, Stager!Keeps, Stager!KeepsConsent,
     Stager!consentVars, Stager!Works, StagerPlaces, Stager!StagePcs, Stager!Flaws
<1>13. CASE Stager!Stream
  BY <1>13 DEF Stager!Stream, Stager!Verified, Stager!Flaws, Stager!Goes, Stager!FetchFails,
     Stager!Keeps, Stager!KeepsConsent, Stager!consentVars, Stager!Works, StagerPlaces,
     Stager!StagePcs, Stager!Flaws
<1>14. CASE Stager!CloseDownload
  BY <1>14 DEF Stager!CloseDownload, Stager!Goes, Stager!Works, Stager!FetchFails, Stager!Fault,
     Stager!Keeps, Stager!KeepsConsent, Stager!consentVars, StagerPlaces, Stager!StagePcs,
     Stager!Flaws
<1>15. ASSUME NEW t \in {"overall", "connect", "idle"}, Stager!FetchEnds(t)
      PROVE  StagerPlaces'
  BY <1>15 DEF Stager!FetchEnds, Stager!Fetching, Stager!FetchFails, Stager!Goes, Stager!Keeps,
     Stager!KeepsConsent, Stager!consentVars, Stager!Works, StagerPlaces, Stager!StagePcs,
     Stager!Flaws
<1>16. CASE Stager!FetchAborts
  BY <1>16 DEF Stager!FetchAborts, Stager!Fetching, Stager!FetchFails, Stager!Goes,
     Stager!Keeps, Stager!KeepsConsent, Stager!consentVars, Stager!Works, StagerPlaces,
     Stager!StagePcs, Stager!Flaws
<1>17. CASE Stager!Rehash
  BY <1>17 DEF Stager!Rehash, Stager!Proceeds, Stager!BoundaryHolds, Stager!Goes,
     Stager!StageFails, Stager!Keeps, Stager!KeepsConsent, Stager!consentVars, Stager!Works,
     Stager!Rehashed, Stager!ArchiveIsReported, StagerPlaces, Stager!StagePcs, Stager!Flaws
<1>18. CASE Stager!Extract
  BY <1>18 DEF Stager!Extract, Stager!Proceeds, Stager!BoundaryHolds, Stager!Goes,
     Stager!StageFails, Stager!Keeps, Stager!KeepsConsent, Stager!consentVars, Stager!Works,
     Stager!HeadersAreCanonical, Stager!EntriesAreSafe, StagerPlaces, Stager!StagePcs,
     Stager!Flaws
<1>19. CASE Stager!VerifyArchive
  BY <1>19 DEF Stager!VerifyArchive, Stager!Proceeds, Stager!BoundaryHolds, Stager!Goes,
     Stager!StageFails, Stager!Keeps, Stager!KeepsConsent, Stager!consentVars, Stager!Works,
     Stager!ArchiveIsReported, StagerPlaces, Stager!StagePcs, Stager!Flaws
<1>20. CASE Stager!CheckLayout
  BY <1>20 DEF Stager!CheckLayout, Stager!Proceeds, Stager!BoundaryHolds, Stager!Goes,
     Stager!StageFails, Stager!Keeps, Stager!KeepsConsent, Stager!consentVars, Stager!Works,
     Stager!ManifestMatches, Stager!BinaryMatches, StagerPlaces, Stager!StagePcs, Stager!Flaws
<1>21. CASE Stager!Attest
  BY <1>21 DEF Stager!Attest, Stager!EntriesAreSafe, Stager!Proceeds, Stager!BoundaryHolds,
       Stager!Goes, Stager!StageFails, Stager!Keeps, Stager!KeepsConsent, Stager!consentVars,
       Stager!Works, StagerPlaces, Stager!StagePcs, Stager!Flaws
<1>22. CASE Stager!Probe
  BY <1>22 DEF Stager!Probe, Stager!Proceeds, Stager!BoundaryHolds, Stager!Goes,
     Stager!StageFails, Stager!Keeps, Stager!KeepsConsent, Stager!consentVars, Stager!Works,
     StagerPlaces, Stager!StagePcs, Stager!Flaws
<1>23. CASE Stager!Reattest
  BY <1>23 DEF Stager!Reattest, Stager!Proceeds, Stager!BoundaryHolds, Stager!Goes,
     Stager!StageFails, Stager!Keeps, Stager!KeepsConsent, Stager!consentVars, Stager!Works,
     Stager!SameTree, StagerPlaces, Stager!StagePcs, Stager!Flaws
<1>24. CASE Stager!Publish
  BY <1>24 DEF Stager!Publish, Stager!Revalidates, Stager!BoundaryHolds, Stager!SameTree,
     Stager!Releases, Stager!Forgets, Stager!Keeps, Stager!KeepsConsent, Stager!consentVars,
     Stager!Works, StagerPlaces, Stager!StagePcs, Stager!Flaws
<1>25. CASE Stager!Cleanup
  BY <1>25 DEF Stager!Cleanup, Stager!Cleans, Stager!Works, Stager!Fault, Stager!Releases,
     Stager!Forgets, Stager!Keeps, Stager!KeepsConsent, Stager!consentVars, StagerPlaces,
     Stager!StagePcs, Stager!Flaws
<1>26. CASE Stager!Tamper
  BY <1>26 DEF Stager!Tamper, Stager!TampersArchive, Stager!TampersTree, Stager!TreeFlaws,
       Stager!consentVars, Stager!stageVars, StagerPlaces, Stager!StagePcs, Stager!Flaws
<1>27. QED
  BY <1>1, <1>2, <1>3, <1>4, <1>5, <1>6, <1>7, <1>8, <1>9, <1>10, <1>11, <1>12, <1>13, <1>14,
     <1>15, <1>16, <1>17, <1>18, <1>19, <1>20, <1>21, <1>22, <1>23, <1>24, <1>25, <1>26 DEF
     Stager!Next, Stager!Step

\* Every step keeps the sets.
LEMMA StagerSetsKept ==
    StagerSets /\ [Stager!Next]_stagerVars => StagerSets'
<1> SUFFICES ASSUME StagerSets, [Stager!Next]_stagerVars PROVE StagerSets'
  OBVIOUS
<1>1. CASE UNCHANGED stagerVars
  BY <1>1 DEF stagerVars, StagerSets
<1>2. CASE Stager!Tick
  BY <1>2 DEF Stager!Tick, Stager!consentVars, Stager!stageVars, Stager!fileVars, StagerSets
<1>3. CASE Stager!Abort
  BY <1>3 DEF Stager!Abort, Stager!consentVars, Stager!stageVars, Stager!fileVars, StagerSets
<1>4. ASSUME NEW c \in Consent, Stager!Issue(c)
      PROVE  StagerSets'
  BY <1>4 DEF Stager!Issue, Stager!stageVars, Stager!fileVars, StagerSets
<1>5. ASSUME NEW c \in Consent, Stager!Consume(c)
      PROVE  StagerSets'
  BY <1>5 DEF Stager!Consume, Stager!Spends, Stager!Live, Stager!stageVars, Stager!fileVars,
     StagerSets
<1>6. CASE Stager!Enter
  BY <1>6 DEF Stager!Enter, Stager!Current, Stager!Live, Stager!Known, Stager!stageVars,
     Stager!Releases, Stager!Forgets, Stager!Keeps, Stager!Works, StagerSets
<1>7. CASE Stager!Recover
  BY <1>7 DEF Stager!Recover, Stager!Goes, Stager!Known, Stager!stageVars, Stager!Works,
     Stager!Releases, Stager!Forgets, Stager!Fault, Stager!Keeps, Stager!KeepsConsent,
     Stager!consentVars, StagerSets
<1>8. CASE Stager!Authorize
  BY <1>8 DEF Stager!Authorize, Stager!RootIsSafe, Stager!Current, Stager!Live, Stager!Goes,
     Stager!Known, Stager!stageVars, Stager!Releases, Stager!Forgets, Stager!Fault,
     Stager!Keeps, StagerSets
<1>9. CASE Stager!MakeStaging
  BY <1>9 DEF Stager!MakeStaging, Stager!Goes, Stager!Known, Stager!stageVars, Stager!Works,
     Stager!Releases, Stager!Forgets, Stager!Fault, Stager!Keeps, Stager!KeepsConsent,
     Stager!consentVars, StagerSets
<1>10. CASE Stager!OpenDestination
  BY <1>10 DEF Stager!OpenDestination, Stager!ContextMatches, Stager!Live, Stager!Current,
     Stager!Goes, Stager!FetchFails, Stager!Keeps, Stager!KeepsConsent, Stager!consentVars,
     Stager!Works, StagerSets
<1>11. CASE Stager!OpenRequest
  BY <1>11 DEF Stager!OpenRequest, Stager!MayRequest, Stager!Live, Stager!Current, Stager!Goes,
     Stager!fileVars, Stager!FetchFails, Stager!Keeps, Stager!KeepsConsent, Stager!consentVars,
     Stager!Works, StagerSets
<1>12. CASE Stager!Answer
  BY <1>12 DEF Stager!Answer, Stager!RedirectAllowed, Stager!Goes, Stager!fileVars,
     Stager!FetchFails, Stager!LengthMatches, Stager!Keeps, Stager!KeepsConsent,
     Stager!consentVars, Stager!Works, StagerSets
<1>13. CASE Stager!Stream
  BY <1>13 DEF Stager!Stream, Stager!Verified, Stager!Flaws, Stager!Goes, Stager!FetchFails,
     Stager!Keeps, Stager!KeepsConsent, Stager!consentVars, Stager!Works, StagerSets
<1>14. CASE Stager!CloseDownload
  BY <1>14 DEF Stager!CloseDownload, Stager!Goes, Stager!Works, Stager!FetchFails, Stager!Fault,
     Stager!Keeps, Stager!KeepsConsent, Stager!consentVars, StagerSets
<1>15. ASSUME NEW t \in {"overall", "connect", "idle"}, Stager!FetchEnds(t)
      PROVE  StagerSets'
  BY <1>15 DEF Stager!FetchEnds, Stager!Fetching, Stager!FetchFails, Stager!Goes, Stager!Keeps,
     Stager!KeepsConsent, Stager!consentVars, Stager!Works, StagerSets
<1>16. CASE Stager!FetchAborts
  BY <1>16 DEF Stager!FetchAborts, Stager!Fetching, Stager!FetchFails, Stager!Goes,
     Stager!Keeps, Stager!KeepsConsent, Stager!consentVars, Stager!Works, StagerSets
<1>17. CASE Stager!Rehash
  BY <1>17 DEF Stager!Rehash, Stager!Proceeds, Stager!BoundaryHolds, Stager!Goes,
     Stager!StageFails, Stager!Keeps, Stager!KeepsConsent, Stager!consentVars, Stager!Works,
     Stager!Rehashed, Stager!ArchiveIsReported, StagerSets
<1>18. CASE Stager!Extract
  BY <1>18 DEF Stager!Extract, Stager!Proceeds, Stager!BoundaryHolds, Stager!Goes,
     Stager!StageFails, Stager!Keeps, Stager!KeepsConsent, Stager!consentVars, Stager!Works,
     Stager!HeadersAreCanonical, Stager!EntriesAreSafe, StagerSets
<1>19. CASE Stager!VerifyArchive
  BY <1>19 DEF Stager!VerifyArchive, Stager!Proceeds, Stager!BoundaryHolds, Stager!Goes,
     Stager!StageFails, Stager!Keeps, Stager!KeepsConsent, Stager!consentVars, Stager!Works,
     Stager!ArchiveIsReported, StagerSets
<1>20. CASE Stager!CheckLayout
  BY <1>20 DEF Stager!CheckLayout, Stager!Proceeds, Stager!BoundaryHolds, Stager!Goes,
     Stager!StageFails, Stager!Keeps, Stager!KeepsConsent, Stager!consentVars, Stager!Works,
     Stager!ManifestMatches, Stager!BinaryMatches, StagerSets
<1>21. CASE Stager!Attest
  BY <1>21 DEF Stager!Attest, Stager!EntriesAreSafe, Stager!Proceeds, Stager!BoundaryHolds,
       Stager!Goes, Stager!StageFails, Stager!Keeps, Stager!KeepsConsent, Stager!consentVars,
       Stager!Works, StagerSets
<1>22. CASE Stager!Probe
  BY <1>22 DEF Stager!Probe, Stager!Proceeds, Stager!BoundaryHolds, Stager!Goes,
     Stager!StageFails, Stager!Keeps, Stager!KeepsConsent, Stager!consentVars, Stager!Works,
     StagerSets
<1>23. CASE Stager!Reattest
  BY <1>23 DEF Stager!Reattest, Stager!Proceeds, Stager!BoundaryHolds, Stager!Goes,
     Stager!StageFails, Stager!Keeps, Stager!KeepsConsent, Stager!consentVars, Stager!Works,
     Stager!SameTree, StagerSets
<1>24. CASE Stager!Publish
  BY <1>24 DEF Stager!Publish, Stager!Revalidates, Stager!BoundaryHolds, Stager!SameTree,
     Stager!Releases, Stager!Forgets, Stager!Keeps, Stager!KeepsConsent, Stager!consentVars,
     Stager!Works, StagerSets
<1>25. CASE Stager!Cleanup
  BY <1>25 DEF Stager!Cleanup, Stager!Cleans, Stager!Works, Stager!Fault, Stager!Releases,
     Stager!Forgets, Stager!Keeps, Stager!KeepsConsent, Stager!consentVars, StagerSets
<1>26. CASE Stager!Tamper
  BY <1>26 DEF Stager!Tamper, Stager!TampersArchive, Stager!TampersTree, Stager!TreeFlaws,
       Stager!consentVars, Stager!stageVars, StagerSets
<1>27. QED
  BY <1>1, <1>2, <1>3, <1>4, <1>5, <1>6, <1>7, <1>8, <1>9, <1>10, <1>11, <1>12, <1>13, <1>14,
     <1>15, <1>16, <1>17, <1>18, <1>19, <1>20, <1>21, <1>22, <1>23, <1>24, <1>25, <1>26 DEF
     Stager!Next, Stager!Step

\* A tree that was looked at is no newer than the one that is there.
LEMMA StagerNumbersKept ==
    StagerNumbers /\ [Stager!Next]_stagerVars => StagerNumbers'
<1> SUFFICES ASSUME StagerNumbers, [Stager!Next]_stagerVars PROVE StagerNumbers'
  OBVIOUS
<1>1. CASE UNCHANGED stagerVars
  BY <1>1, CodexAssumption DEF stagerVars, StagerNumbers
<1>2. CASE Stager!Tick
  BY <1>2, CodexAssumption DEF Stager!Tick, Stager!consentVars, Stager!stageVars,
     Stager!fileVars, StagerNumbers
<1>3. CASE Stager!Abort
  BY <1>3, CodexAssumption DEF Stager!Abort, Stager!consentVars, Stager!stageVars,
     Stager!fileVars, StagerNumbers
<1>4. ASSUME NEW c \in Consent, Stager!Issue(c)
      PROVE  StagerNumbers'
  BY <1>4, CodexAssumption DEF Stager!Issue, Stager!stageVars, Stager!fileVars, StagerNumbers
<1>5. ASSUME NEW c \in Consent, Stager!Consume(c)
      PROVE  StagerNumbers'
  BY <1>5, CodexAssumption DEF Stager!Consume, Stager!Spends, Stager!Live, Stager!stageVars,
     Stager!fileVars, StagerNumbers
<1>6. CASE Stager!Enter
  BY <1>6, CodexAssumption DEF Stager!Enter, Stager!Current, Stager!Live, Stager!Known,
     Stager!stageVars, Stager!Releases, Stager!Forgets, Stager!Keeps, Stager!Works,
     StagerNumbers
<1>7. CASE Stager!Recover
  BY <1>7, CodexAssumption DEF Stager!Recover, Stager!Goes, Stager!Known, Stager!stageVars,
     Stager!Works, Stager!Releases, Stager!Forgets, Stager!Fault, Stager!Keeps,
     Stager!KeepsConsent, Stager!consentVars, StagerNumbers
<1>8. CASE Stager!Authorize
  BY <1>8, CodexAssumption DEF Stager!Authorize, Stager!RootIsSafe, Stager!Current, Stager!Live,
     Stager!Goes, Stager!Known, Stager!stageVars, Stager!Releases, Stager!Forgets, Stager!Fault,
     Stager!Keeps, StagerNumbers
<1>9. CASE Stager!MakeStaging
  BY <1>9, CodexAssumption DEF Stager!MakeStaging, Stager!Goes, Stager!Known, Stager!stageVars,
     Stager!Works, Stager!Releases, Stager!Forgets, Stager!Fault, Stager!Keeps,
     Stager!KeepsConsent, Stager!consentVars, StagerNumbers
<1>10. CASE Stager!OpenDestination
  BY <1>10, CodexAssumption DEF Stager!OpenDestination, Stager!ContextMatches, Stager!Live,
     Stager!Current, Stager!Goes, Stager!FetchFails, Stager!Keeps, Stager!KeepsConsent,
     Stager!consentVars, Stager!Works, StagerNumbers
<1>11. CASE Stager!OpenRequest
  BY <1>11, CodexAssumption DEF Stager!OpenRequest, Stager!MayRequest, Stager!Live,
     Stager!Current, Stager!Goes, Stager!fileVars, Stager!FetchFails, Stager!Keeps,
     Stager!KeepsConsent, Stager!consentVars, Stager!Works, StagerNumbers
<1>12. CASE Stager!Answer
  BY <1>12, CodexAssumption DEF Stager!Answer, Stager!RedirectAllowed, Stager!Goes,
     Stager!fileVars, Stager!FetchFails, Stager!LengthMatches, Stager!Keeps,
     Stager!KeepsConsent, Stager!consentVars, Stager!Works, StagerNumbers
<1>13. CASE Stager!Stream
  BY <1>13, CodexAssumption DEF Stager!Stream, Stager!Verified, Stager!Flaws, Stager!Goes,
     Stager!FetchFails, Stager!Keeps, Stager!KeepsConsent, Stager!consentVars, Stager!Works,
     StagerNumbers
<1>14. CASE Stager!CloseDownload
  BY <1>14, CodexAssumption DEF Stager!CloseDownload, Stager!Goes, Stager!Works,
     Stager!FetchFails, Stager!Fault, Stager!Keeps, Stager!KeepsConsent, Stager!consentVars,
     StagerNumbers
<1>15. ASSUME NEW t \in {"overall", "connect", "idle"}, Stager!FetchEnds(t)
      PROVE  StagerNumbers'
  BY <1>15, CodexAssumption DEF Stager!FetchEnds, Stager!Fetching, Stager!FetchFails,
     Stager!Goes, Stager!Keeps, Stager!KeepsConsent, Stager!consentVars, Stager!Works,
     StagerNumbers
<1>16. CASE Stager!FetchAborts
  BY <1>16, CodexAssumption DEF Stager!FetchAborts, Stager!Fetching, Stager!FetchFails,
     Stager!Goes, Stager!Keeps, Stager!KeepsConsent, Stager!consentVars, Stager!Works,
     StagerNumbers
<1>17. CASE Stager!Rehash
  BY <1>17, CodexAssumption DEF Stager!Rehash, Stager!Proceeds, Stager!BoundaryHolds,
     Stager!Goes, Stager!StageFails, Stager!Keeps, Stager!KeepsConsent, Stager!consentVars,
     Stager!Works, Stager!Rehashed, Stager!ArchiveIsReported, StagerNumbers
<1>18. CASE Stager!Extract
  BY <1>18, CodexAssumption DEF Stager!Extract, Stager!Proceeds, Stager!BoundaryHolds,
     Stager!Goes, Stager!StageFails, Stager!Keeps, Stager!KeepsConsent, Stager!consentVars,
     Stager!Works, Stager!HeadersAreCanonical, Stager!EntriesAreSafe, StagerNumbers
<1>19. CASE Stager!VerifyArchive
  BY <1>19, CodexAssumption DEF Stager!VerifyArchive, Stager!Proceeds, Stager!BoundaryHolds,
     Stager!Goes, Stager!StageFails, Stager!Keeps, Stager!KeepsConsent, Stager!consentVars,
     Stager!Works, Stager!ArchiveIsReported, StagerNumbers
<1>20. CASE Stager!CheckLayout
  BY <1>20, CodexAssumption DEF Stager!CheckLayout, Stager!Proceeds, Stager!BoundaryHolds,
     Stager!Goes, Stager!StageFails, Stager!Keeps, Stager!KeepsConsent, Stager!consentVars,
     Stager!Works, Stager!ManifestMatches, Stager!BinaryMatches, StagerNumbers
<1>21. CASE Stager!Attest
  BY <1>21, CodexAssumption DEF Stager!Attest, Stager!Proceeds, Stager!BoundaryHolds,
     Stager!Goes, Stager!StageFails, Stager!Keeps, Stager!KeepsConsent, Stager!consentVars,
     Stager!Works, StagerNumbers
<1>22. CASE Stager!Probe
  BY <1>22, CodexAssumption DEF Stager!Probe, Stager!Proceeds, Stager!BoundaryHolds,
     Stager!Goes, Stager!StageFails, Stager!Keeps, Stager!KeepsConsent, Stager!consentVars,
     Stager!Works, StagerNumbers
<1>23. CASE Stager!Reattest
  BY <1>23, CodexAssumption DEF Stager!Reattest, Stager!Proceeds, Stager!BoundaryHolds,
     Stager!Goes, Stager!StageFails, Stager!Keeps, Stager!KeepsConsent, Stager!consentVars,
     Stager!Works, Stager!SameTree, StagerNumbers
<1>24. CASE Stager!Publish
  BY <1>24, CodexAssumption DEF Stager!Publish, Stager!Revalidates, Stager!BoundaryHolds,
     Stager!SameTree, Stager!Releases, Stager!Forgets, Stager!Keeps, Stager!KeepsConsent,
     Stager!consentVars, Stager!Works, StagerNumbers
<1>25. CASE Stager!Cleanup
  BY <1>25, CodexAssumption DEF Stager!Cleanup, Stager!Cleans, Stager!Works, Stager!Fault,
     Stager!Releases, Stager!Forgets, Stager!Keeps, Stager!KeepsConsent, Stager!consentVars,
     StagerNumbers
<1>26. CASE Stager!Tamper
  BY <1>26, CodexAssumption DEF Stager!Tamper, Stager!TampersArchive, Stager!TampersTree,
       Stager!TreeFlaws, Stager!consentVars, Stager!stageVars, StagerNumbers
<1>27. QED
  BY <1>1, <1>2, <1>3, <1>4, <1>5, <1>6, <1>7, <1>8, <1>9, <1>10, <1>11, <1>12, <1>13, <1>14,
     <1>15, <1>16, <1>17, <1>18, <1>19, <1>20, <1>21, <1>22, <1>23, <1>24, <1>25, <1>26 DEF
     Stager!Next, Stager!Step

\* Who leaves the queue gives its place to the next one, which has requested nothing.
LEMMA NextInQueue ==
    ASSUME StagerQueue, queue # <<>>
    PROVE  /\ Tail(queue) \in Seq(Consent) /\ Len(Tail(queue)) <= Cardinality(Consent)
           /\ \A i \in DOMAIN Tail(queue) : i + 1 \in DOMAIN queue /\
                  Tail(queue)[i] = queue[i + 1] /\ i \in Nat \ {0}
<1>1. queue \in Seq(Consent) /\ Len(queue) <= Cardinality(Consent) /\ Cardinality(Consent) \in Nat
  BY CodexAssumption, FS_CardinalityType DEF StagerQueue
<1>2. QED  BY <1>1

\* The next consent gets the lock.
LEMMA QueueMoves ==
    ASSUME StagerPlaces, StagerQueue, StagerRequests, queue # <<>>,
           queue' = Tail(queue), pc' = "idle", UNCHANGED <<token, requests>>, redirects' = 0
    PROVE  StagerQueue' /\ StagerRequests'
<1>1. /\ queue' \in Seq(Consent) /\ Len(queue') <= Cardinality(Consent)
      /\ \A i \in DOMAIN queue' : i + 1 \in DOMAIN queue /\ queue'[i] = queue[i + 1] /\
             i \in Nat \ {0}
  BY NextInQueue
<1>2. \A i, j \in DOMAIN queue' : queue'[i] = queue'[j] => i = j
  BY <1>1 DEF StagerQueue
<1>3. StagerQueue'
  BY <1>1, <1>2 DEF StagerQueue
<1>4. \A i \in DOMAIN queue' : requests'[queue'[i]] = 0
  BY <1>1 DEF StagerRequests
<1>5. QED  BY <1>3, <1>4 DEF StagerRequests

\* Who keeps the lock keeps the order of the others.
LEMMA QueueStays ==
    ASSUME StagerPlaces, StagerQueue, StagerRequests, queue # <<>>, UNCHANGED <<queue, token,
        requests, redirects>>,
           pc \in StagerEarly, pc' \in StagerEarly
    PROVE  StagerQueue' /\ StagerRequests'
BY DEF StagerQueue, StagerRequests, StagerEarly

\* A consent that is spent goes to the end of the queue, where it was not.
LEMMA QueueGrows ==
    ASSUME StagerPlaces, StagerQueue, StagerRequests, NEW c \in Consent, Stager!Consume(c)
    PROVE  StagerQueue' /\ StagerRequests'
<1>1. /\ token[c] = "issued" /\ token' = [token EXCEPT ![c] = "spent"] /\
         UNCHANGED <<pc, requests, redirects>>
      /\ queue' = queue \/ (queue' = Append(queue, c) /\ Len(queue) < Stager!Cardinality(Consent))
  BY DEF Stager!Consume, Stager!Spends, Stager!stageVars
<1>2. queue \in Seq(Consent) /\ Len(queue) <= Cardinality(Consent) /\ Cardinality(Consent) \in Nat
  BY CodexAssumption, FS_CardinalityType DEF StagerQueue
<1>3. \A i \in DOMAIN queue : token[queue[i]] = "spent" /\ queue[i] # c /\ queue[i] \in Consent
  BY <1>1, <1>2 DEF StagerQueue
<1>4. requests[c] = 0
  BY <1>1 DEF StagerRequests
<1>5. CASE queue' = queue
  <2>1. StagerQueue'
    BY <1>1, <1>3, <1>5 DEF StagerQueue, StagerPlaces
  <2>2. StagerRequests'
    BY <1>1, <1>5 DEF StagerRequests, StagerPlaces
  <2>3. QED  BY <2>1, <2>2
<1>6. CASE queue' = Append(queue, c) /\ Len(queue) < Stager!Cardinality(Consent)
  <2>1. Len(queue) < Cardinality(Consent)
    BY <1>6 DEF Stager!Cardinality, Cardinality
  <2>2. /\ DOMAIN queue' = (DOMAIN queue) \cup {Len(queue) + 1} /\ queue' # <<>> /\
           DOMAIN queue = 1..Len(queue)
        /\ queue'[Len(queue) + 1] = c /\ \A i \in DOMAIN queue : queue'[i] = queue[i]
        /\ queue' \in Seq(Consent) /\ Len(queue') <= Cardinality(Consent)
    BY <1>2, <1>6, <2>1
  <2>3. \A i \in DOMAIN queue' : token'[queue'[i]] = "spent"
    BY <1>1, <1>3, <2>2 DEF StagerPlaces
  <2>4. \A i, j \in DOMAIN queue' : queue'[i] = queue'[j] => i = j
    BY <1>3, <2>2 DEF StagerQueue
  <2>5. StagerQueue'
    BY <2>2, <2>3, <2>4 DEF StagerQueue
  <2>6. \A i \in DOMAIN queue' : i > 1 \/ pc \in StagerEarly => requests[queue'[i]] = 0
    BY <1>4, <2>2 DEF StagerRequests
  <2>7. pc \notin StagerEarly => queue # <<>> /\ queue'[1] = queue[1]
    <3>1. pc \notin StagerEarly => queue # <<>>
      BY DEF StagerQueue, StagerEarly
    <3>2. queue # <<>> => 1 \in DOMAIN queue
      BY <1>2
    <3>3. QED  BY <2>2, <3>1, <3>2
  <2>8. "hop" \notin StagerEarly /\ "answer" \notin StagerEarly
    BY DEF StagerEarly
  <2>9. StagerRequests'
    BY <1>1, <2>6, <2>7, <2>8 DEF StagerRequests, StagerPlaces
  <2>10. QED  BY <2>5, <2>9
<1>7. QED  BY <1>1, <1>5, <1>6

\* One installation has the lock, and no consent waits twice.
LEMMA StagerQueueKept ==
    StagerPlaces /\ StagerNumbers /\ StagerQueue /\ StagerRequests /\ [Stager!Next]_stagerVars
    => StagerQueue' /\ StagerRequests'
<1> SUFFICES ASSUME StagerPlaces, StagerNumbers, StagerQueue, StagerRequests,
    [Stager!Next]_stagerVars
             PROVE StagerQueue' /\ StagerRequests'
  OBVIOUS
<1>1. CASE UNCHANGED stagerVars
  BY <1>1 DEF stagerVars, StagerQueue, StagerRequests
<1>2. CASE Stager!Tick
  <2>1. StagerQueue'
    BY <1>2 DEF Stager!Tick, Stager!consentVars, Stager!stageVars, Stager!fileVars,
       StagerPlaces, StagerQueue
  <2>2. StagerRequests'
    BY <1>2 DEF Stager!Tick, Stager!consentVars, Stager!stageVars, Stager!fileVars,
       StagerPlaces, StagerQueue, StagerRequests, StagerEarly
  <2>3. QED  BY <2>1, <2>2
<1>3. CASE Stager!Abort
  <2>1. StagerQueue'
    BY <1>3 DEF Stager!Abort, Stager!consentVars, Stager!stageVars, Stager!fileVars,
       StagerPlaces, StagerQueue
  <2>2. StagerRequests'
    BY <1>3 DEF Stager!Abort, Stager!consentVars, Stager!stageVars, Stager!fileVars,
       StagerPlaces, StagerQueue, StagerRequests, StagerEarly
  <2>3. QED  BY <2>1, <2>2
<1>4. ASSUME NEW c \in Consent, Stager!Issue(c) PROVE StagerQueue' /\ StagerRequests'
  <2>1. StagerQueue'
    BY <1>4 DEF Stager!Issue, Stager!stageVars, Stager!fileVars, StagerPlaces, StagerQueue
  <2>2. StagerRequests'
    BY <1>4 DEF Stager!Issue, Stager!stageVars, Stager!fileVars, StagerPlaces, StagerQueue,
       StagerRequests, StagerEarly
  <2>3. QED  BY <2>1, <2>2
<1>5. ASSUME NEW c \in Consent, Stager!Consume(c) PROVE StagerQueue' /\ StagerRequests'
  BY <1>5, QueueGrows
<1>6. CASE Stager!Enter
  <2>1. queue # <<>>
    BY <1>6 DEF Stager!Enter, StagerQueue
  <2>2. \/ queue' = Tail(queue) /\ pc' = "idle" /\ UNCHANGED <<token, requests>> /\ redirects' = 0
        \/ UNCHANGED <<queue, token, requests, redirects>> /\ pc \in StagerEarly /\
               pc' \in StagerEarly
    BY <1>6 DEF Stager!Enter, Stager!Current, Stager!Live, Stager!Known, Stager!stageVars,
       Stager!Releases, Stager!Forgets, Stager!Keeps, Stager!Works, StagerEarly
  <2>3. QED  BY <2>1, <2>2, QueueMoves, QueueStays
<1>7. CASE Stager!Recover
  <2>1. queue # <<>>
    BY <1>7 DEF Stager!Recover, StagerQueue
  <2>2. \/ queue' = Tail(queue) /\ pc' = "idle" /\ UNCHANGED <<token, requests>> /\ redirects' = 0
        \/ UNCHANGED <<queue, token, requests, redirects>> /\ pc \in StagerEarly /\
               pc' \in StagerEarly
    BY <1>7 DEF Stager!Recover, Stager!Goes, Stager!Known, Stager!stageVars, Stager!Works,
       Stager!Releases, Stager!Forgets, Stager!Fault, Stager!Keeps, Stager!KeepsConsent,
       Stager!consentVars, StagerEarly
  <2>3. QED  BY <2>1, <2>2, QueueMoves, QueueStays
<1>8. CASE Stager!Authorize
  <2>1. queue # <<>>
    BY <1>8 DEF Stager!Authorize, StagerQueue
  <2>2. \/ queue' = Tail(queue) /\ pc' = "idle" /\ UNCHANGED <<token, requests>> /\ redirects' = 0
        \/ UNCHANGED <<queue, token, requests, redirects>> /\ pc \in StagerEarly /\
               pc' \in StagerEarly
    BY <1>8 DEF Stager!Authorize, Stager!RootIsSafe, Stager!Current, Stager!Live, Stager!Goes,
       Stager!Known, Stager!stageVars, Stager!Releases, Stager!Forgets, Stager!Fault,
       Stager!Keeps, StagerEarly
  <2>3. QED  BY <2>1, <2>2, QueueMoves, QueueStays
<1>9. CASE Stager!MakeStaging
  <2>1. queue # <<>>
    BY <1>9 DEF Stager!MakeStaging, StagerQueue
  <2>2. \/ queue' = Tail(queue) /\ pc' = "idle" /\ UNCHANGED <<token, requests>> /\ redirects' = 0
        \/ UNCHANGED <<queue, token, requests, redirects>> /\ pc \in StagerEarly /\
               pc' \in StagerEarly
    BY <1>9 DEF Stager!MakeStaging, Stager!Goes, Stager!Known, Stager!stageVars, Stager!Works,
       Stager!Releases, Stager!Forgets, Stager!Fault, Stager!Keeps, Stager!KeepsConsent,
       Stager!consentVars, StagerEarly
  <2>3. QED  BY <2>1, <2>2, QueueMoves, QueueStays
<1>10. CASE Stager!OpenDestination
  <2>1. StagerQueue'
    BY <1>10 DEF Stager!OpenDestination, Stager!ContextMatches, Stager!Live, Stager!Current,
       Stager!Goes, Stager!FetchFails, Stager!Keeps, Stager!KeepsConsent, Stager!consentVars,
       Stager!Works, StagerPlaces, StagerQueue
  <2>2. StagerRequests'
    BY <1>10 DEF Stager!OpenDestination, Stager!ContextMatches, Stager!Live, Stager!Current,
       Stager!Goes, Stager!FetchFails, Stager!Keeps, Stager!KeepsConsent, Stager!consentVars,
       Stager!Works, StagerPlaces, StagerQueue, StagerRequests, StagerEarly
  <2>3. QED  BY <2>1, <2>2
<1>11. CASE Stager!OpenRequest
  <2>1. StagerQueue'
    BY <1>11 DEF Stager!OpenRequest, Stager!MayRequest, Stager!Live, Stager!Current,
       Stager!Goes, Stager!fileVars, Stager!FetchFails, Stager!Keeps, Stager!KeepsConsent,
       Stager!consentVars, Stager!Works, StagerPlaces, StagerQueue
  <2>2. StagerRequests'
    BY <1>11 DEF Stager!OpenRequest, Stager!MayRequest, Stager!Live, Stager!Current,
       Stager!Goes, Stager!fileVars, Stager!FetchFails, Stager!Keeps, Stager!KeepsConsent,
       Stager!consentVars, Stager!Works, StagerPlaces, StagerQueue, StagerRequests, StagerEarly
  <2>3. QED  BY <2>1, <2>2
<1>12. CASE Stager!Answer
  <2>1. StagerQueue'
    BY <1>12 DEF Stager!Answer, Stager!RedirectAllowed, Stager!Goes, Stager!fileVars,
       Stager!FetchFails, Stager!LengthMatches, Stager!Keeps, Stager!KeepsConsent,
       Stager!consentVars, Stager!Works, StagerPlaces, StagerQueue
  <2>2. StagerRequests'
    BY <1>12 DEF Stager!Answer, Stager!RedirectAllowed, Stager!Goes, Stager!fileVars,
       Stager!FetchFails, Stager!LengthMatches, Stager!Keeps, Stager!KeepsConsent,
       Stager!consentVars, Stager!Works, StagerPlaces, StagerQueue, StagerRequests, StagerEarly
  <2>3. QED  BY <2>1, <2>2
<1>13. CASE Stager!Stream
  <2>1. StagerQueue'
    BY <1>13 DEF Stager!Stream, Stager!Verified, Stager!Flaws, Stager!Goes, Stager!FetchFails,
       Stager!Keeps, Stager!KeepsConsent, Stager!consentVars, Stager!Works, StagerPlaces,
       StagerQueue
  <2>2. StagerRequests'
    BY <1>13 DEF Stager!Stream, Stager!Verified, Stager!Flaws, Stager!Goes, Stager!FetchFails,
       Stager!Keeps, Stager!KeepsConsent, Stager!consentVars, Stager!Works, StagerPlaces,
       StagerQueue, StagerRequests, StagerEarly
  <2>3. QED  BY <2>1, <2>2
<1>14. CASE Stager!CloseDownload
  <2>1. StagerQueue'
    BY <1>14 DEF Stager!CloseDownload, Stager!Goes, Stager!Works, Stager!FetchFails,
       Stager!Fault, Stager!Keeps, Stager!KeepsConsent, Stager!consentVars, StagerPlaces,
       StagerQueue
  <2>2. StagerRequests'
    BY <1>14 DEF Stager!CloseDownload, Stager!Goes, Stager!Works, Stager!FetchFails,
       Stager!Fault, Stager!Keeps, Stager!KeepsConsent, Stager!consentVars, StagerPlaces,
       StagerQueue, StagerRequests, StagerEarly
  <2>3. QED  BY <2>1, <2>2
<1>15. ASSUME NEW t \in {"overall", "connect", "idle"},
         Stager!FetchEnds(t) PROVE StagerQueue' /\ StagerRequests'
  <2>1. StagerQueue'
    BY <1>15 DEF Stager!FetchEnds, Stager!Fetching, Stager!FetchFails, Stager!Goes,
       Stager!Keeps, Stager!KeepsConsent, Stager!consentVars, Stager!Works, StagerPlaces,
       StagerQueue
  <2>2. StagerRequests'
    BY <1>15 DEF Stager!FetchEnds, Stager!Fetching, Stager!FetchFails, Stager!Goes,
       Stager!Keeps, Stager!KeepsConsent, Stager!consentVars, Stager!Works, StagerPlaces,
       StagerQueue, StagerRequests, StagerEarly
  <2>3. QED  BY <2>1, <2>2
<1>16. CASE Stager!FetchAborts
  <2>1. StagerQueue'
    BY <1>16 DEF Stager!FetchAborts, Stager!Fetching, Stager!FetchFails, Stager!Goes,
       Stager!Keeps, Stager!KeepsConsent, Stager!consentVars, Stager!Works, StagerPlaces,
       StagerQueue
  <2>2. StagerRequests'
    BY <1>16 DEF Stager!FetchAborts, Stager!Fetching, Stager!FetchFails, Stager!Goes,
       Stager!Keeps, Stager!KeepsConsent, Stager!consentVars, Stager!Works, StagerPlaces,
       StagerQueue, StagerRequests, StagerEarly
  <2>3. QED  BY <2>1, <2>2
<1>17. CASE Stager!Rehash
  <2>1. StagerQueue'
    BY <1>17 DEF Stager!Rehash, Stager!Proceeds, Stager!BoundaryHolds, Stager!Goes,
       Stager!StageFails, Stager!Keeps, Stager!KeepsConsent, Stager!consentVars, Stager!Works,
       Stager!Rehashed, Stager!ArchiveIsReported, StagerPlaces, StagerQueue
  <2>2. StagerRequests'
    BY <1>17 DEF Stager!Rehash, Stager!Proceeds, Stager!BoundaryHolds, Stager!Goes,
       Stager!StageFails, Stager!Keeps, Stager!KeepsConsent, Stager!consentVars, Stager!Works,
       Stager!Rehashed, Stager!ArchiveIsReported, StagerPlaces, StagerQueue, StagerRequests,
       StagerEarly
  <2>3. QED  BY <2>1, <2>2
<1>18. CASE Stager!Extract
  <2>1. StagerQueue'
    BY <1>18 DEF Stager!Extract, Stager!Proceeds, Stager!BoundaryHolds, Stager!Goes,
       Stager!StageFails, Stager!Keeps, Stager!KeepsConsent, Stager!consentVars, Stager!Works,
       Stager!HeadersAreCanonical, Stager!EntriesAreSafe, StagerPlaces, StagerQueue
  <2>2. StagerRequests'
    BY <1>18 DEF Stager!Extract, Stager!Proceeds, Stager!BoundaryHolds, Stager!Goes,
       Stager!StageFails, Stager!Keeps, Stager!KeepsConsent, Stager!consentVars, Stager!Works,
       Stager!HeadersAreCanonical, Stager!EntriesAreSafe, StagerPlaces, StagerQueue,
       StagerRequests, StagerEarly
  <2>3. QED  BY <2>1, <2>2
<1>19. CASE Stager!VerifyArchive
  <2>1. StagerQueue'
    BY <1>19 DEF Stager!VerifyArchive, Stager!Proceeds, Stager!BoundaryHolds, Stager!Goes,
       Stager!StageFails, Stager!Keeps, Stager!KeepsConsent, Stager!consentVars, Stager!Works,
       Stager!ArchiveIsReported, StagerPlaces, StagerQueue
  <2>2. StagerRequests'
    BY <1>19 DEF Stager!VerifyArchive, Stager!Proceeds, Stager!BoundaryHolds, Stager!Goes,
       Stager!StageFails, Stager!Keeps, Stager!KeepsConsent, Stager!consentVars, Stager!Works,
       Stager!ArchiveIsReported, StagerPlaces, StagerQueue, StagerRequests, StagerEarly
  <2>3. QED  BY <2>1, <2>2
<1>20. CASE Stager!CheckLayout
  <2>1. StagerQueue'
    BY <1>20 DEF Stager!CheckLayout, Stager!Proceeds, Stager!BoundaryHolds, Stager!Goes,
       Stager!StageFails, Stager!Keeps, Stager!KeepsConsent, Stager!consentVars, Stager!Works,
       Stager!ManifestMatches, Stager!BinaryMatches, StagerPlaces, StagerQueue
  <2>2. StagerRequests'
    BY <1>20 DEF Stager!CheckLayout, Stager!Proceeds, Stager!BoundaryHolds, Stager!Goes,
       Stager!StageFails, Stager!Keeps, Stager!KeepsConsent, Stager!consentVars, Stager!Works,
       Stager!ManifestMatches, Stager!BinaryMatches, StagerPlaces, StagerQueue, StagerRequests,
       StagerEarly
  <2>3. QED  BY <2>1, <2>2
<1>21. CASE Stager!Attest
  <2>1. StagerQueue'
    BY <1>21 DEF Stager!Attest, Stager!EntriesAreSafe, Stager!Proceeds, Stager!BoundaryHolds,
         Stager!Goes, Stager!StageFails, Stager!Keeps, Stager!KeepsConsent, Stager!consentVars,
         Stager!Works, StagerPlaces, StagerQueue
  <2>2. StagerRequests'
    BY <1>21 DEF Stager!Attest, Stager!EntriesAreSafe, Stager!Proceeds, Stager!BoundaryHolds,
         Stager!Goes, Stager!StageFails, Stager!Keeps, Stager!KeepsConsent, Stager!consentVars,
         Stager!Works, StagerPlaces, StagerQueue, StagerRequests, StagerEarly
  <2>3. QED  BY <2>1, <2>2
<1>22. CASE Stager!Probe
  <2>1. StagerQueue'
    BY <1>22 DEF Stager!Probe, Stager!Proceeds, Stager!BoundaryHolds, Stager!Goes,
       Stager!StageFails, Stager!Keeps, Stager!KeepsConsent, Stager!consentVars, Stager!Works,
       StagerPlaces, StagerQueue
  <2>2. StagerRequests'
    BY <1>22 DEF Stager!Probe, Stager!Proceeds, Stager!BoundaryHolds, Stager!Goes,
       Stager!StageFails, Stager!Keeps, Stager!KeepsConsent, Stager!consentVars, Stager!Works,
       StagerPlaces, StagerQueue, StagerRequests, StagerEarly
  <2>3. QED  BY <2>1, <2>2
<1>23. CASE Stager!Reattest
  <2>1. StagerQueue'
    BY <1>23 DEF Stager!Reattest, Stager!Proceeds, Stager!BoundaryHolds, Stager!Goes,
       Stager!StageFails, Stager!Keeps, Stager!KeepsConsent, Stager!consentVars, Stager!Works,
       Stager!SameTree, StagerPlaces, StagerQueue
  <2>2. StagerRequests'
    BY <1>23 DEF Stager!Reattest, Stager!Proceeds, Stager!BoundaryHolds, Stager!Goes,
       Stager!StageFails, Stager!Keeps, Stager!KeepsConsent, Stager!consentVars, Stager!Works,
       Stager!SameTree, StagerPlaces, StagerQueue, StagerRequests, StagerEarly
  <2>3. QED  BY <2>1, <2>2
<1>24. CASE Stager!Publish
  <2>1. queue # <<>>
    BY <1>24 DEF Stager!Publish, StagerQueue
  <2>2. \/ queue' = Tail(queue) /\ pc' = "idle" /\ UNCHANGED <<token, requests>> /\ redirects' = 0
        \/ UNCHANGED <<queue, token, requests, redirects>> /\ pc \in StagerEarly /\
               pc' \in StagerEarly
    BY <1>24 DEF Stager!Publish, Stager!Revalidates, Stager!BoundaryHolds, Stager!SameTree,
       Stager!Releases, Stager!Forgets, Stager!Keeps, Stager!KeepsConsent, Stager!consentVars,
       Stager!Works, StagerEarly
  <2>3. QED  BY <2>1, <2>2, QueueMoves, QueueStays
<1>25. CASE Stager!Cleanup
  <2>1. queue # <<>>
    BY <1>25 DEF Stager!Cleanup, StagerQueue
  <2>2. \/ queue' = Tail(queue) /\ pc' = "idle" /\ UNCHANGED <<token, requests>> /\ redirects' = 0
        \/ UNCHANGED <<queue, token, requests, redirects>> /\ pc \in StagerEarly /\
               pc' \in StagerEarly
    BY <1>25 DEF Stager!Cleanup, Stager!Cleans, Stager!Works, Stager!Fault, Stager!Releases,
       Stager!Forgets, Stager!Keeps, Stager!KeepsConsent, Stager!consentVars, StagerEarly
  <2>3. QED  BY <2>1, <2>2, QueueMoves, QueueStays
<1>26. CASE Stager!Tamper
  <2>1. StagerQueue'
    BY <1>26 DEF Stager!Tamper, Stager!TampersArchive, Stager!TampersTree, Stager!TreeFlaws,
         Stager!consentVars, Stager!stageVars, StagerPlaces, StagerQueue
  <2>2. StagerRequests'
    BY <1>26 DEF Stager!Tamper, Stager!TampersArchive, Stager!TampersTree, Stager!TreeFlaws,
         Stager!consentVars, Stager!stageVars, StagerPlaces, StagerQueue, StagerRequests,
         StagerEarly
  <2>3. QED  BY <2>1, <2>2
<1>27. QED
  BY <1>1, <1>2, <1>3, <1>4, <1>5, <1>6, <1>7, <1>8, <1>9, <1>10, <1>11, <1>12, <1>13, <1>14,
     <1>15, <1>16, <1>17, <1>18, <1>19, <1>20, <1>21, <1>22, <1>23, <1>24, <1>25, <1>26 DEF
     Stager!Next, Stager!Step

\* A failure leaves nothing behind but by a fault or another program.
LEMMA StagerDirKept ==
    StagerNumbers /\ StagerDir /\ [Stager!Next]_stagerVars => StagerDir'
<1> SUFFICES ASSUME StagerNumbers, StagerDir, [Stager!Next]_stagerVars PROVE StagerDir'
  OBVIOUS
<1>1. CASE UNCHANGED stagerVars
  BY <1>1, CodexAssumption DEF stagerVars, StagerNumbers, StagerDir
<1>2. CASE Stager!Tick
  BY <1>2, CodexAssumption DEF Stager!Tick, Stager!consentVars, Stager!stageVars,
     Stager!fileVars, StagerNumbers, StagerDir
<1>3. CASE Stager!Abort
  BY <1>3, CodexAssumption DEF Stager!Abort, Stager!consentVars, Stager!stageVars,
     Stager!fileVars, StagerNumbers, StagerDir
<1>4. ASSUME NEW c \in Consent, Stager!Issue(c)
      PROVE  StagerDir'
  BY <1>4, CodexAssumption DEF Stager!Issue, Stager!stageVars, Stager!fileVars, StagerNumbers,
     StagerDir
<1>5. ASSUME NEW c \in Consent, Stager!Consume(c)
      PROVE  StagerDir'
  BY <1>5, CodexAssumption DEF Stager!Consume, Stager!Spends, Stager!Live, Stager!stageVars,
     Stager!fileVars, StagerNumbers, StagerDir
<1>6. CASE Stager!Enter
  BY <1>6, CodexAssumption DEF Stager!Enter, Stager!Current, Stager!Live, Stager!Known,
     Stager!stageVars, Stager!Releases, Stager!Forgets, Stager!Keeps, Stager!Works,
     StagerNumbers, StagerDir
<1>7. CASE Stager!Recover
  BY <1>7, CodexAssumption DEF Stager!Recover, Stager!Goes, Stager!Known, Stager!stageVars,
     Stager!Works, Stager!Releases, Stager!Forgets, Stager!Fault, Stager!Keeps,
     Stager!KeepsConsent, Stager!consentVars, StagerNumbers, StagerDir
<1>8. CASE Stager!Authorize
  BY <1>8, CodexAssumption DEF Stager!Authorize, Stager!RootIsSafe, Stager!Current, Stager!Live,
     Stager!Goes, Stager!Known, Stager!stageVars, Stager!Releases, Stager!Forgets, Stager!Fault,
     Stager!Keeps, StagerNumbers, StagerDir
<1>9. CASE Stager!MakeStaging
  BY <1>9, CodexAssumption DEF Stager!MakeStaging, Stager!Goes, Stager!Known, Stager!stageVars,
     Stager!Works, Stager!Releases, Stager!Forgets, Stager!Fault, Stager!Keeps,
     Stager!KeepsConsent, Stager!consentVars, StagerNumbers, StagerDir
<1>10. CASE Stager!OpenDestination
  BY <1>10, CodexAssumption DEF Stager!OpenDestination, Stager!ContextMatches, Stager!Live,
     Stager!Current, Stager!Goes, Stager!FetchFails, Stager!Keeps, Stager!KeepsConsent,
     Stager!consentVars, Stager!Works, StagerNumbers, StagerDir
<1>11. CASE Stager!OpenRequest
  BY <1>11, CodexAssumption DEF Stager!OpenRequest, Stager!MayRequest, Stager!Live,
     Stager!Current, Stager!Goes, Stager!fileVars, Stager!FetchFails, Stager!Keeps,
     Stager!KeepsConsent, Stager!consentVars, Stager!Works, StagerNumbers, StagerDir
<1>12. CASE Stager!Answer
  BY <1>12, CodexAssumption DEF Stager!Answer, Stager!RedirectAllowed, Stager!Goes,
     Stager!fileVars, Stager!FetchFails, Stager!LengthMatches, Stager!Keeps,
     Stager!KeepsConsent, Stager!consentVars, Stager!Works, StagerNumbers, StagerDir
<1>13. CASE Stager!Stream
  BY <1>13, CodexAssumption DEF Stager!Stream, Stager!Verified, Stager!Flaws, Stager!Goes,
     Stager!FetchFails, Stager!Keeps, Stager!KeepsConsent, Stager!consentVars, Stager!Works,
     StagerNumbers, StagerDir
<1>14. CASE Stager!CloseDownload
  BY <1>14, CodexAssumption DEF Stager!CloseDownload, Stager!Goes, Stager!Works,
     Stager!FetchFails, Stager!Fault, Stager!Keeps, Stager!KeepsConsent, Stager!consentVars,
     StagerNumbers, StagerDir
<1>15. ASSUME NEW t \in {"overall", "connect", "idle"}, Stager!FetchEnds(t)
      PROVE  StagerDir'
  BY <1>15, CodexAssumption DEF Stager!FetchEnds, Stager!Fetching, Stager!FetchFails,
     Stager!Goes, Stager!Keeps, Stager!KeepsConsent, Stager!consentVars, Stager!Works,
     StagerNumbers, StagerDir
<1>16. CASE Stager!FetchAborts
  BY <1>16, CodexAssumption DEF Stager!FetchAborts, Stager!Fetching, Stager!FetchFails,
     Stager!Goes, Stager!Keeps, Stager!KeepsConsent, Stager!consentVars, Stager!Works,
     StagerNumbers, StagerDir
<1>17. CASE Stager!Rehash
  BY <1>17, CodexAssumption DEF Stager!Rehash, Stager!Proceeds, Stager!BoundaryHolds,
     Stager!Goes, Stager!StageFails, Stager!Keeps, Stager!KeepsConsent, Stager!consentVars,
     Stager!Works, Stager!Rehashed, Stager!ArchiveIsReported, StagerNumbers, StagerDir
<1>18. CASE Stager!Extract
  BY <1>18, CodexAssumption DEF Stager!Extract, Stager!Proceeds, Stager!BoundaryHolds,
     Stager!Goes, Stager!StageFails, Stager!Keeps, Stager!KeepsConsent, Stager!consentVars,
     Stager!Works, Stager!HeadersAreCanonical, Stager!EntriesAreSafe, StagerNumbers, StagerDir
<1>19. CASE Stager!VerifyArchive
  BY <1>19, CodexAssumption DEF Stager!VerifyArchive, Stager!Proceeds, Stager!BoundaryHolds,
     Stager!Goes, Stager!StageFails, Stager!Keeps, Stager!KeepsConsent, Stager!consentVars,
     Stager!Works, Stager!ArchiveIsReported, StagerNumbers, StagerDir
<1>20. CASE Stager!CheckLayout
  BY <1>20, CodexAssumption DEF Stager!CheckLayout, Stager!Proceeds, Stager!BoundaryHolds,
     Stager!Goes, Stager!StageFails, Stager!Keeps, Stager!KeepsConsent, Stager!consentVars,
     Stager!Works, Stager!ManifestMatches, Stager!BinaryMatches, StagerNumbers, StagerDir
<1>21. CASE Stager!Attest
  BY <1>21, CodexAssumption DEF Stager!Attest, Stager!Proceeds, Stager!BoundaryHolds,
     Stager!Goes, Stager!StageFails, Stager!Keeps, Stager!KeepsConsent, Stager!consentVars,
     Stager!Works, StagerNumbers, StagerDir
<1>22. CASE Stager!Probe
  BY <1>22, CodexAssumption DEF Stager!Probe, Stager!Proceeds, Stager!BoundaryHolds,
     Stager!Goes, Stager!StageFails, Stager!Keeps, Stager!KeepsConsent, Stager!consentVars,
     Stager!Works, StagerNumbers, StagerDir
<1>23. CASE Stager!Reattest
  BY <1>23, CodexAssumption DEF Stager!Reattest, Stager!Proceeds, Stager!BoundaryHolds,
     Stager!Goes, Stager!StageFails, Stager!Keeps, Stager!KeepsConsent, Stager!consentVars,
     Stager!Works, Stager!SameTree, StagerNumbers, StagerDir
<1>24. CASE Stager!Publish
  BY <1>24, CodexAssumption DEF Stager!Publish, Stager!Revalidates, Stager!BoundaryHolds,
     Stager!SameTree, Stager!Releases, Stager!Forgets, Stager!Keeps, Stager!KeepsConsent,
     Stager!consentVars, Stager!Works, StagerNumbers, StagerDir
<1>25. CASE Stager!Cleanup
  BY <1>25, CodexAssumption DEF Stager!Cleanup, Stager!Cleans, Stager!Works, Stager!Fault,
     Stager!Releases, Stager!Forgets, Stager!Keeps, Stager!KeepsConsent, Stager!consentVars,
     StagerNumbers, StagerDir
<1>26. CASE Stager!Tamper
  BY <1>26, CodexAssumption DEF Stager!Tamper, Stager!TampersArchive, Stager!TampersTree,
       Stager!TreeFlaws, Stager!consentVars, Stager!stageVars, StagerNumbers, StagerDir
<1>27. QED
  BY <1>1, <1>2, <1>3, <1>4, <1>5, <1>6, <1>7, <1>8, <1>9, <1>10, <1>11, <1>12, <1>13, <1>14,
     <1>15, <1>16, <1>17, <1>18, <1>19, <1>20, <1>21, <1>22, <1>23, <1>24, <1>25, <1>26 DEF
     Stager!Next, Stager!Step

\* The second attestation is of what was run.
LEMMA StagerVersionsKept ==
    StagerNumbers /\ StagerVersions /\ [Stager!Next]_stagerVars => StagerVersions'
<1> SUFFICES ASSUME StagerNumbers, StagerVersions, [Stager!Next]_stagerVars PROVE StagerVersions'
  OBVIOUS
<1>1. CASE UNCHANGED stagerVars
  BY <1>1 DEF stagerVars, StagerNumbers, StagerVersions
<1>2. CASE Stager!Tick
  BY <1>2 DEF Stager!Tick, Stager!consentVars, Stager!stageVars, Stager!fileVars, StagerNumbers,
     StagerVersions
<1>3. CASE Stager!Abort
  BY <1>3 DEF Stager!Abort, Stager!consentVars, Stager!stageVars, Stager!fileVars,
     StagerNumbers, StagerVersions
<1>4. ASSUME NEW c \in Consent, Stager!Issue(c)
      PROVE  StagerVersions'
  BY <1>4 DEF Stager!Issue, Stager!stageVars, Stager!fileVars, StagerNumbers, StagerVersions
<1>5. ASSUME NEW c \in Consent, Stager!Consume(c)
      PROVE  StagerVersions'
  BY <1>5 DEF Stager!Consume, Stager!Spends, Stager!Live, Stager!stageVars, Stager!fileVars,
     StagerNumbers, StagerVersions
<1>6. CASE Stager!Enter
  BY <1>6 DEF Stager!Enter, Stager!Current, Stager!Live, Stager!Known, Stager!stageVars,
     Stager!Releases, Stager!Forgets, Stager!Keeps, Stager!Works, StagerNumbers, StagerVersions
<1>7. CASE Stager!Recover
  BY <1>7 DEF Stager!Recover, Stager!Goes, Stager!Known, Stager!stageVars, Stager!Works,
     Stager!Releases, Stager!Forgets, Stager!Fault, Stager!Keeps, Stager!KeepsConsent,
     Stager!consentVars, StagerNumbers, StagerVersions
<1>8. CASE Stager!Authorize
  BY <1>8 DEF Stager!Authorize, Stager!RootIsSafe, Stager!Current, Stager!Live, Stager!Goes,
     Stager!Known, Stager!stageVars, Stager!Releases, Stager!Forgets, Stager!Fault,
     Stager!Keeps, StagerNumbers, StagerVersions
<1>9. CASE Stager!MakeStaging
  BY <1>9 DEF Stager!MakeStaging, Stager!Goes, Stager!Known, Stager!stageVars, Stager!Works,
     Stager!Releases, Stager!Forgets, Stager!Fault, Stager!Keeps, Stager!KeepsConsent,
     Stager!consentVars, StagerNumbers, StagerVersions
<1>10. CASE Stager!OpenDestination
  BY <1>10 DEF Stager!OpenDestination, Stager!ContextMatches, Stager!Live, Stager!Current,
     Stager!Goes, Stager!FetchFails, Stager!Keeps, Stager!KeepsConsent, Stager!consentVars,
     Stager!Works, StagerNumbers, StagerVersions
<1>11. CASE Stager!OpenRequest
  BY <1>11 DEF Stager!OpenRequest, Stager!MayRequest, Stager!Live, Stager!Current, Stager!Goes,
     Stager!fileVars, Stager!FetchFails, Stager!Keeps, Stager!KeepsConsent, Stager!consentVars,
     Stager!Works, StagerNumbers, StagerVersions
<1>12. CASE Stager!Answer
  BY <1>12 DEF Stager!Answer, Stager!RedirectAllowed, Stager!Goes, Stager!fileVars,
     Stager!FetchFails, Stager!LengthMatches, Stager!Keeps, Stager!KeepsConsent,
     Stager!consentVars, Stager!Works, StagerNumbers, StagerVersions
<1>13. CASE Stager!Stream
  BY <1>13 DEF Stager!Stream, Stager!Verified, Stager!Flaws, Stager!Goes, Stager!FetchFails,
     Stager!Keeps, Stager!KeepsConsent, Stager!consentVars, Stager!Works, StagerNumbers,
     StagerVersions
<1>14. CASE Stager!CloseDownload
  BY <1>14 DEF Stager!CloseDownload, Stager!Goes, Stager!Works, Stager!FetchFails, Stager!Fault,
     Stager!Keeps, Stager!KeepsConsent, Stager!consentVars, StagerNumbers, StagerVersions
<1>15. ASSUME NEW t \in {"overall", "connect", "idle"}, Stager!FetchEnds(t)
      PROVE  StagerVersions'
  BY <1>15 DEF Stager!FetchEnds, Stager!Fetching, Stager!FetchFails, Stager!Goes, Stager!Keeps,
     Stager!KeepsConsent, Stager!consentVars, Stager!Works, StagerNumbers, StagerVersions
<1>16. CASE Stager!FetchAborts
  BY <1>16 DEF Stager!FetchAborts, Stager!Fetching, Stager!FetchFails, Stager!Goes,
     Stager!Keeps, Stager!KeepsConsent, Stager!consentVars, Stager!Works, StagerNumbers,
     StagerVersions
<1>17. CASE Stager!Rehash
  BY <1>17 DEF Stager!Rehash, Stager!Proceeds, Stager!BoundaryHolds, Stager!Goes,
     Stager!StageFails, Stager!Keeps, Stager!KeepsConsent, Stager!consentVars, Stager!Works,
     Stager!Rehashed, Stager!ArchiveIsReported, StagerNumbers, StagerVersions
<1>18. CASE Stager!Extract
  BY <1>18 DEF Stager!Extract, Stager!Proceeds, Stager!BoundaryHolds, Stager!Goes,
     Stager!StageFails, Stager!Keeps, Stager!KeepsConsent, Stager!consentVars, Stager!Works,
     Stager!HeadersAreCanonical, Stager!EntriesAreSafe, StagerNumbers, StagerVersions
<1>19. CASE Stager!VerifyArchive
  BY <1>19 DEF Stager!VerifyArchive, Stager!Proceeds, Stager!BoundaryHolds, Stager!Goes,
     Stager!StageFails, Stager!Keeps, Stager!KeepsConsent, Stager!consentVars, Stager!Works,
     Stager!ArchiveIsReported, StagerNumbers, StagerVersions
<1>20. CASE Stager!CheckLayout
  BY <1>20 DEF Stager!CheckLayout, Stager!Proceeds, Stager!BoundaryHolds, Stager!Goes,
     Stager!StageFails, Stager!Keeps, Stager!KeepsConsent, Stager!consentVars, Stager!Works,
     Stager!ManifestMatches, Stager!BinaryMatches, StagerNumbers, StagerVersions
<1>21. CASE Stager!Attest
  BY <1>21 DEF Stager!Attest, Stager!EntriesAreSafe, Stager!Proceeds, Stager!BoundaryHolds,
       Stager!Goes, Stager!StageFails, Stager!Keeps, Stager!KeepsConsent, Stager!consentVars,
       Stager!Works, StagerNumbers, StagerVersions
<1>22. CASE Stager!Probe
  BY <1>22 DEF Stager!Probe, Stager!Proceeds, Stager!BoundaryHolds, Stager!Goes,
     Stager!StageFails, Stager!Keeps, Stager!KeepsConsent, Stager!consentVars, Stager!Works,
     StagerNumbers, StagerVersions
<1>23. CASE Stager!Reattest
  BY <1>23 DEF Stager!Reattest, Stager!Proceeds, Stager!BoundaryHolds, Stager!Goes,
     Stager!StageFails, Stager!Keeps, Stager!KeepsConsent, Stager!consentVars, Stager!Works,
     Stager!SameTree, StagerNumbers, StagerVersions
<1>24. CASE Stager!Publish
  BY <1>24 DEF Stager!Publish, Stager!Revalidates, Stager!BoundaryHolds, Stager!SameTree,
     Stager!Releases, Stager!Forgets, Stager!Keeps, Stager!KeepsConsent, Stager!consentVars,
     Stager!Works, StagerNumbers, StagerVersions
<1>25. CASE Stager!Cleanup
  BY <1>25 DEF Stager!Cleanup, Stager!Cleans, Stager!Works, Stager!Fault, Stager!Releases,
     Stager!Forgets, Stager!Keeps, Stager!KeepsConsent, Stager!consentVars, StagerNumbers,
     StagerVersions
<1>26. CASE Stager!Tamper
  BY <1>26 DEF Stager!Tamper, Stager!TampersArchive, Stager!TampersTree, Stager!TreeFlaws,
       Stager!consentVars, Stager!stageVars, StagerNumbers, StagerVersions
<1>27. QED
  BY <1>1, <1>2, <1>3, <1>4, <1>5, <1>6, <1>7, <1>8, <1>9, <1>10, <1>11, <1>12, <1>13, <1>14,
     <1>15, <1>16, <1>17, <1>18, <1>19, <1>20, <1>21, <1>22, <1>23, <1>24, <1>25, <1>26 DEF
     Stager!Next, Stager!Step

\* Each check excludes its flaws for good.
LEMMA StagerCheckedKept ==
    StagerPlaces /\ StagerSets /\ StagerNumbers /\ StagerVersions /\ StagerChecked
    /\ [Stager!Next]_stagerVars => StagerChecked'
<1> SUFFICES ASSUME StagerPlaces, StagerSets, StagerNumbers, StagerVersions, StagerChecked,
    [Stager!Next]_stagerVars PROVE StagerChecked'
  OBVIOUS
<1>0. /\ tree \in Nat /\ attested \in Nat /\ probed \in Nat
      /\ pc \in {"probe", "reattest", "staged"} => attested <= tree
      /\ pc \in {"reattest", "staged"} => probed <= tree
  BY CodexAssumption DEF StagerNumbers, StagerVersions
<1>1. CASE UNCHANGED stagerVars
  BY <1>1 DEF stagerVars, StagerPlaces, StagerSets, StagerChecked, StagerExtracted, Stager!Flaws
<1>2. CASE Stager!Tick
  BY <1>2 DEF Stager!Tick, Stager!consentVars, Stager!stageVars, Stager!fileVars, StagerPlaces,
     StagerSets, StagerChecked, StagerExtracted, Stager!Flaws
<1>3. CASE Stager!Abort
  BY <1>3 DEF Stager!Abort, Stager!consentVars, Stager!stageVars, Stager!fileVars, StagerPlaces,
     StagerSets, StagerChecked, StagerExtracted, Stager!Flaws
<1>4. ASSUME NEW c \in Consent, Stager!Issue(c)
      PROVE  StagerChecked'
  BY <1>4 DEF Stager!Issue, Stager!stageVars, Stager!fileVars, StagerPlaces, StagerSets,
     StagerChecked, StagerExtracted, Stager!Flaws
<1>5. ASSUME NEW c \in Consent, Stager!Consume(c)
      PROVE  StagerChecked'
  BY <1>5 DEF Stager!Consume, Stager!Spends, Stager!Live, Stager!stageVars, Stager!fileVars,
     StagerPlaces, StagerSets, StagerChecked, StagerExtracted, Stager!Flaws
<1>6. CASE Stager!Enter
  BY <1>6 DEF Stager!Enter, Stager!Current, Stager!Live, Stager!Known, Stager!stageVars,
     Stager!Releases, Stager!Forgets, Stager!Keeps, Stager!Works, StagerPlaces, StagerSets,
     StagerChecked, StagerExtracted, Stager!Flaws
<1>7. CASE Stager!Recover
  BY <1>7 DEF Stager!Recover, Stager!Goes, Stager!Known, Stager!stageVars, Stager!Works,
     Stager!Releases, Stager!Forgets, Stager!Fault, Stager!Keeps, Stager!KeepsConsent,
     Stager!consentVars, StagerPlaces, StagerSets, StagerChecked, StagerExtracted, Stager!Flaws
<1>8. CASE Stager!Authorize
  BY <1>8 DEF Stager!Authorize, Stager!RootIsSafe, Stager!Current, Stager!Live, Stager!Goes,
     Stager!Known, Stager!stageVars, Stager!Releases, Stager!Forgets, Stager!Fault,
     Stager!Keeps, StagerPlaces, StagerSets, StagerChecked, StagerExtracted, Stager!Flaws
<1>9. CASE Stager!MakeStaging
  BY <1>9 DEF Stager!MakeStaging, Stager!Goes, Stager!Known, Stager!stageVars, Stager!Works,
     Stager!Releases, Stager!Forgets, Stager!Fault, Stager!Keeps, Stager!KeepsConsent,
     Stager!consentVars, StagerPlaces, StagerSets, StagerChecked, StagerExtracted, Stager!Flaws
<1>10. CASE Stager!OpenDestination
  BY <1>10 DEF Stager!OpenDestination, Stager!ContextMatches, Stager!Live, Stager!Current,
     Stager!Goes, Stager!FetchFails, Stager!Keeps, Stager!KeepsConsent, Stager!consentVars,
     Stager!Works, StagerPlaces, StagerSets, StagerChecked, StagerExtracted, Stager!Flaws
<1>11. CASE Stager!OpenRequest
  BY <1>11 DEF Stager!OpenRequest, Stager!MayRequest, Stager!Live, Stager!Current, Stager!Goes,
     Stager!fileVars, Stager!FetchFails, Stager!Keeps, Stager!KeepsConsent, Stager!consentVars,
     Stager!Works, StagerPlaces, StagerSets, StagerChecked, StagerExtracted, Stager!Flaws
<1>12. CASE Stager!Answer
  BY <1>12 DEF Stager!Answer, Stager!RedirectAllowed, Stager!Goes, Stager!fileVars,
       Stager!FetchFails, Stager!LengthMatches, Stager!Keeps, Stager!KeepsConsent,
       Stager!consentVars, Stager!Works, StagerPlaces, StagerSets, StagerChecked, StagerExtracted,
       Stager!Flaws
<1>13. CASE Stager!Stream
  BY <1>13 DEF Stager!Stream, Stager!Verified, Stager!Flaws, Stager!Goes, Stager!FetchFails,
     Stager!Keeps, Stager!KeepsConsent, Stager!consentVars, Stager!Works, StagerPlaces,
     StagerSets, StagerChecked, StagerExtracted, Stager!Flaws
<1>14. CASE Stager!CloseDownload
  BY <1>14 DEF Stager!CloseDownload, Stager!Goes, Stager!Works, Stager!FetchFails, Stager!Fault,
     Stager!Keeps, Stager!KeepsConsent, Stager!consentVars, StagerPlaces, StagerSets,
     StagerChecked, StagerExtracted, Stager!Flaws
<1>15. ASSUME NEW t \in {"overall", "connect", "idle"}, Stager!FetchEnds(t)
      PROVE  StagerChecked'
  BY <1>15 DEF Stager!FetchEnds, Stager!Fetching, Stager!FetchFails, Stager!Goes, Stager!Keeps,
     Stager!KeepsConsent, Stager!consentVars, Stager!Works, StagerPlaces, StagerSets,
     StagerChecked, StagerExtracted, Stager!Flaws
<1>16. CASE Stager!FetchAborts
  BY <1>16 DEF Stager!FetchAborts, Stager!Fetching, Stager!FetchFails, Stager!Goes,
     Stager!Keeps, Stager!KeepsConsent, Stager!consentVars, Stager!Works, StagerPlaces,
     StagerSets, StagerChecked, StagerExtracted, Stager!Flaws
<1>17. CASE Stager!Rehash
  BY <1>17 DEF Stager!Rehash, Stager!Proceeds, Stager!BoundaryHolds, Stager!Goes,
       Stager!StageFails, Stager!Keeps, Stager!KeepsConsent, Stager!consentVars, Stager!Works,
       Stager!Rehashed, Stager!ArchiveIsReported, StagerPlaces, StagerSets, StagerChecked,
       StagerExtracted, Stager!Flaws
<1>18. CASE Stager!Extract
  BY <1>18 DEF Stager!Extract, Stager!Proceeds, Stager!BoundaryHolds, Stager!Goes,
       Stager!StageFails, Stager!Keeps, Stager!KeepsConsent, Stager!consentVars, Stager!Works,
       Stager!HeadersAreCanonical, Stager!EntriesAreSafe, StagerPlaces, StagerSets, StagerChecked,
       StagerExtracted, Stager!Flaws
<1>19. CASE Stager!VerifyArchive
  BY <1>19 DEF Stager!VerifyArchive, Stager!Proceeds, Stager!BoundaryHolds, Stager!Goes,
       Stager!StageFails, Stager!Keeps, Stager!KeepsConsent, Stager!consentVars, Stager!Works,
       Stager!ArchiveIsReported, StagerPlaces, StagerSets, StagerChecked, StagerExtracted,
       Stager!Flaws
<1>20. CASE Stager!CheckLayout
  BY <1>20 DEF Stager!CheckLayout, Stager!Proceeds, Stager!BoundaryHolds, Stager!Goes,
       Stager!StageFails, Stager!Keeps, Stager!KeepsConsent, Stager!consentVars, Stager!Works,
       Stager!ManifestMatches, Stager!BinaryMatches, StagerPlaces, StagerSets, StagerChecked,
       StagerExtracted, Stager!Flaws
<1>21. CASE Stager!Attest
  BY <1>21 DEF Stager!Attest, Stager!EntriesAreSafe, Stager!Proceeds, Stager!BoundaryHolds,
       Stager!Goes, Stager!StageFails, Stager!Keeps, Stager!KeepsConsent, Stager!consentVars,
       Stager!Works, StagerPlaces, StagerSets, StagerChecked, StagerExtracted, Stager!Flaws
<1>22. CASE Stager!Probe
  BY <1>22 DEF Stager!Probe, Stager!Proceeds, Stager!BoundaryHolds, Stager!Goes,
     Stager!StageFails, Stager!Keeps, Stager!KeepsConsent, Stager!consentVars, Stager!Works,
     StagerPlaces, StagerSets, StagerChecked, StagerExtracted, Stager!Flaws
<1>23. CASE Stager!Reattest
  BY <1>23 DEF Stager!Reattest, Stager!Proceeds, Stager!BoundaryHolds, Stager!Goes,
     Stager!StageFails, Stager!Keeps, Stager!KeepsConsent, Stager!consentVars, Stager!Works,
     Stager!SameTree, StagerPlaces, StagerSets, StagerChecked, StagerExtracted, Stager!Flaws
<1>24. CASE Stager!Publish
  BY <1>24 DEF Stager!Publish, Stager!Revalidates, Stager!BoundaryHolds, Stager!SameTree,
     Stager!Releases, Stager!Forgets, Stager!Keeps, Stager!KeepsConsent, Stager!consentVars,
     Stager!Works, StagerPlaces, StagerSets, StagerChecked, StagerExtracted, Stager!Flaws
<1>25. CASE Stager!Cleanup
  BY <1>25 DEF Stager!Cleanup, Stager!Cleans, Stager!Works, Stager!Fault, Stager!Releases,
     Stager!Forgets, Stager!Keeps, Stager!KeepsConsent, Stager!consentVars, StagerPlaces,
     StagerSets, StagerChecked, StagerExtracted, Stager!Flaws
<1>26. CASE Stager!Tamper
  BY <1>0, <1>26 DEF Stager!Tamper, Stager!TampersArchive, Stager!TampersTree, Stager!TreeFlaws,
       Stager!consentVars, Stager!stageVars, StagerPlaces, StagerSets, StagerChecked,
       StagerExtracted, Stager!Flaws
<1>27. QED
  BY <1>1, <1>2, <1>3, <1>4, <1>5, <1>6, <1>7, <1>8, <1>9, <1>10, <1>11, <1>12, <1>13, <1>14,
     <1>15, <1>16, <1>17, <1>18, <1>19, <1>20, <1>21, <1>22, <1>23, <1>24, <1>25, <1>26 DEF
     Stager!Next, Stager!Step

\* A stager that was not called satisfies the invariant.
LEMMA StagerStarts == Stager!Init => StagerInv
<1> SUFFICES ASSUME Stager!Init PROVE StagerInv
  OBVIOUS
<1>1. StagerPlaces /\ StagerSets
  BY DEF Stager!Init, StagerPlaces, StagerSets, Stager!StagePcs, Stager!Flaws
<1>2. StagerNumbers /\ StagerDir /\ StagerVersions /\ StagerChecked
  BY CodexAssumption DEF Stager!Init, StagerNumbers, StagerDir, StagerVersions, StagerChecked
<1>3. StagerQueue
  BY CodexAssumption, FS_CardinalityType DEF Stager!Init, StagerQueue
<1>4. StagerRequests
  BY DEF Stager!Init, StagerRequests, StagerEarly
<1>5. QED  BY <1>1, <1>2, <1>3, <1>4 DEF StagerInv

\* Every step keeps the invariant.
LEMMA StagerKept == StagerInv /\ [Stager!Next]_stagerVars => StagerInv'
BY StagerPlacesKept, StagerSetsKept, StagerNumbersKept, StagerQueueKept, StagerDirKept,
   StagerVersionsKept, StagerCheckedKept DEF StagerInv

\* The invariant gives the types and FailureIsClean.
LEMMA StagerIsSound == StagerInv => Stager!TypeOK /\ Stager!FailureIsClean
<1> SUFFICES ASSUME StagerInv PROVE Stager!TypeOK /\ Stager!FailureIsClean
  OBVIOUS
<1>1. /\ tree \in 0..(MaxTampers + 1) /\ attested \in 0..(MaxTampers + 1) /\
         probed \in 0..(MaxTampers + 1)
      /\ tampers \in 0..MaxTampers /\ faults \in 0..MaxFaults
  BY CodexAssumption DEF StagerInv, StagerNumbers
<1>2. Stager!TypeOK
  BY <1>1 DEF StagerInv, StagerPlaces, StagerSets, StagerNumbers, StagerQueue, Stager!TypeOK,
       Stager!Cardinality, Cardinality
<1>3. Stager!FailureIsClean
  BY <1>1 DEF StagerInv, StagerDir, Stager!FailureIsClean
<1>4. QED  BY <1>2, <1>3

\* What is published was attested and run as it is, with what that excludes; and it has no flaw
\* and comes from the reviewed bytes if nobody changed the tree.
LEMMA PublishesAttested ==
    ASSUME StagerInv, [Stager!Next]_stagerVars, pc = "staged", pc' = "idle",
        stager_outcome' = "published"
    PROVE  /\ tree = attested /\ tree = probed /\ flaw \notin {"header", "entry", "version"}
           /\ tree = 1 => genuine /\ flaw = "none"
<1>1. Stager!Publish
  <2>1. ~UNCHANGED stagerVars
    BY DEF stagerVars
  <2>2. Stager!Next
    BY <2>1
  <2>3. \A c \in Consent : ~Stager!Issue(c) /\ ~Stager!Consume(c)
    BY DEF Stager!Issue, Stager!Consume
  <2>4. ~(Stager!Tick \/ Stager!Abort \/ Stager!Tamper \/ Stager!Answer \/ Stager!Stream)
    BY DEF Stager!Tick, Stager!Abort, Stager!Tamper, Stager!Answer, Stager!Stream
  <2>5. ~(Stager!Enter \/ Stager!Recover \/ Stager!Authorize \/ Stager!MakeStaging \/
           Stager!OpenDestination
          \/ Stager!OpenRequest \/ Stager!CloseDownload \/ Stager!FetchAborts \/ Stager!Cleanup)
    BY DEF Stager!Enter, Stager!Recover, Stager!Authorize, Stager!MakeStaging,
         Stager!OpenDestination, Stager!OpenRequest, Stager!CloseDownload, Stager!FetchAborts,
         Stager!Fetching, Stager!Cleanup
  <2>6. ~(Stager!Rehash \/ Stager!Extract \/ Stager!VerifyArchive \/ Stager!CheckLayout \/
           Stager!Attest
          \/ Stager!Probe \/ Stager!Reattest)
    BY DEF Stager!Rehash, Stager!Extract, Stager!VerifyArchive, Stager!CheckLayout, Stager!Attest,
         Stager!Probe, Stager!Reattest, Stager!Proceeds
  <2>7. \A t : ~Stager!FetchEnds(t)
    BY DEF Stager!FetchEnds, Stager!Fetching
  <2>8. QED  BY <2>2, <2>3, <2>4, <2>5, <2>6, <2>7 DEF Stager!Next, Stager!Step
<1>2. attested = tree
  BY <1>1 DEF Stager!Publish, Stager!Revalidates, Stager!SameTree, Stager!Releases
<1>3. attested <= probed /\ probed <= tree
  BY DEF StagerInv, StagerVersions
<1>4. attested \in Nat /\ probed \in Nat /\ tree \in Nat
  BY CodexAssumption DEF StagerInv, StagerNumbers
<1>5. tree = probed
  BY <1>2, <1>3, <1>4
<1>6. flaw \notin {"header", "entry", "version"}
  BY <1>2, <1>5 DEF StagerInv, StagerChecked, StagerExtracted
<1>7. tree = 1 => genuine = TRUE /\ flaw \notin {"manifest", "binary"}
  BY DEF StagerInv, StagerChecked, StagerExtracted
<1>8. tree = 1 => flaw = "none"
  BY <1>6, <1>7 DEF StagerInv, StagerPlaces, Stager!Flaws
<1>9. QED  BY <1>2, <1>5, <1>6, <1>7, <1>8

\* A request is paid for by the consent whose installation has the lock.
LEMMA RequestsArePaid ==
    ASSUME StagerInv, [Stager!Next]_stagerVars, NEW c \in Consent, requests'[c] # requests[c]
    PROVE  /\ Stager!Live(c) /\ token[c] = "spent" /\ c = Stager!Current
           /\ requests'[c] <= MaxRedirects + 1
<1>1. Stager!OpenRequest /\ requests' # requests
  <2>1. requests' # requests
    OBVIOUS
  <2>2. Stager!Next
    BY <2>1 DEF stagerVars
  <2>3. \A d \in Consent : ~Stager!Issue(d) /\ ~Stager!Consume(d)
    BY <2>1 DEF Stager!Issue, Stager!Consume
  <2>4. ~(Stager!Tick \/ Stager!Abort \/ Stager!Tamper \/ Stager!Answer \/ Stager!Stream)
    BY <2>1 DEF Stager!Tick, Stager!Abort, Stager!Tamper, Stager!Answer, Stager!Stream
  <2>5. ~(Stager!Enter \/ Stager!Recover \/ Stager!Authorize \/ Stager!MakeStaging \/
           Stager!OpenDestination
          \/ Stager!CloseDownload \/ Stager!FetchAborts \/ Stager!Publish \/ Stager!Cleanup)
    BY <2>1 DEF Stager!Enter, Stager!Recover, Stager!Authorize, Stager!MakeStaging,
         Stager!OpenDestination, Stager!CloseDownload, Stager!FetchAborts, Stager!Publish,
         Stager!Cleanup
  <2>6. ~(Stager!Rehash \/ Stager!Extract \/ Stager!VerifyArchive \/ Stager!CheckLayout \/
           Stager!Attest
          \/ Stager!Probe \/ Stager!Reattest)
    BY <2>1 DEF Stager!Rehash, Stager!Extract, Stager!VerifyArchive, Stager!CheckLayout,
         Stager!Attest, Stager!Probe, Stager!Reattest, Stager!Proceeds
  <2>7. \A t : ~Stager!FetchEnds(t)
    BY <2>1 DEF Stager!FetchEnds
  <2>8. QED  BY <2>1, <2>2, <2>3, <2>4, <2>5, <2>6, <2>7 DEF Stager!Next, Stager!Step
<1>2. /\ pc = "hop" /\ Stager!Live(Stager!Current)
      /\ requests' = [requests EXCEPT ![Stager!Current] = requests[Stager!Current] + 1]
  BY <1>1 DEF Stager!OpenRequest, Stager!MayRequest
<1>3. queue # <<>> /\ queue \in Seq(Consent)
  BY <1>2 DEF StagerInv, StagerQueue
<1>4. 1 \in DOMAIN queue /\ Stager!Current = queue[1]
  BY <1>3 DEF Stager!Current
<1>5. token[queue[1]] = "spent" /\ requests[queue[1]] = redirects
  BY <1>2, <1>4 DEF StagerInv, StagerQueue, StagerRequests
<1>6. c = queue[1] /\ requests'[c] = redirects + 1
  BY <1>2, <1>4, <1>5 DEF StagerInv, StagerRequests
<1>7. redirects <= MaxRedirects /\ redirects \in Nat
  BY CodexAssumption DEF StagerInv, StagerNumbers
<1>8. QED  BY <1>2, <1>4, <1>5, <1>6, <1>7, CodexAssumption
-----------------------------------------------------------------------------
(* The resolver of the runtime                                             *)

\* The places of a resolution.
ResolverPcs == {"none", "user", "discover", "native", "probe", "managed"}
\* The sources of a candidate.
CandidateOf == {"override", "system", "managed"}
\* What a resolution is, and that what it probes has a source.
IsFlight(f) ==
    /\ DOMAIN f = {"pc", "at", "source", "candidate", "exe", "promised", "list", "index",
           "probes"}
    /\ f.pc \in ResolverPcs
    /\ f.pc \in {"native", "probe"} => f.source \in CandidateOf

\* The generations of the resolution and of the calls.
ResolverNumbers ==
    /\ resolver_generation \in Nat /\ flight.at \in Nat /\ flight.at <= resolver_generation
    /\ resolver_asked \in [Caller -> Nat] /\
           \A c \in Caller : resolver_asked[c] <= resolver_generation

\* The flags, and what each caller waits for.
ResolverFlags ==
    /\ queued \in BOOLEAN /\ expired \in BOOLEAN
    /\ waits \in [Caller -> {"none", "flight", "queued"}]

\* Once the deadline has passed only a probe is still waited for.
ResolverInTime ==
    /\ expired = TRUE => flight.pc \in {"none", "probe"}
    /\ expired = TRUE /\ flight.pc = "none" => last.result # "ok"

\* A caller waits for a resolution that was begun after its call's generation.
ResolverWaits ==
    \A c \in Caller :
        /\ waits[c] = "flight" => flight.pc # "none" /\ flight.at >= resolver_asked[c]
        /\ waits[c] = "queued" => queued = TRUE

\* Every answer is of a generation, and none is older than the call it answers.
ResolverTold ==
    /\ DOMAIN resolver_told = Caller
    /\ \A c \in Caller : waits[c] = "none" /\ resolver_told[c] # Resolver!Nothing =>
           resolver_told[c].at \in Nat /\ resolver_told[c].at >= resolver_asked[c]

\* The inductive invariant of the resolver.
ResolverInv ==
    /\ IsFlight(flight) /\ ResolverNumbers /\ ResolverFlags /\ ResolverInTime
    /\ ResolverWaits /\ ResolverTold /\ Resolver!KeptLasts

\* What a resolution becomes as it goes on is one too, begun in the same generation.
LEMMA CandidatesAreFlights ==
    ASSUME NEW f, IsFlight(f), NEW i
    PROVE  LET g == Resolver!Candidate(f, i)
           IN  IsFlight(g) /\ g.at = f.at /\ g.pc \in {"native", "managed"}
BY DEF Resolver!Candidate, Resolver!Considers, IsFlight, ResolverPcs, CandidateOf

\* A source that is looked at gives a resolution, with a candidate or without.
LEMMA ConsidersFlights ==
    ASSUME NEW f, IsFlight(f), NEW s \in CandidateOf, NEW x
    PROVE  LET g == Resolver!Considers(f, s, x)
           IN  IsFlight(g) /\ g.at = f.at /\ g.pc = "native"
BY DEF Resolver!Considers, IsFlight, ResolverPcs, CandidateOf

\* A resolution that begins is one.
LEMMA FreshIsFlight ==
    /\ IsFlight(Resolver!Fresh) /\ Resolver!Fresh.at = resolver_generation
    /\ Resolver!Fresh.pc \in {"native", "user"}
<1> DEFINE d == Resolver!Discover(world.path)
           f == [Resolver!NoFlight EXCEPT !.pc = "user", !.at = resolver_generation, !.list = d]
<1>1. Resolver!Fresh = IF world.env =
         "none" THEN f ELSE Resolver!Considers(f, "override", world.env)
  BY DEF Resolver!Fresh
<1> HIDE DEF d
<1>2. IsFlight(f) /\ f.at = resolver_generation /\ f.pc = "user"
  BY DEF IsFlight, Resolver!NoFlight, ResolverPcs
<1> HIDE DEF f
<1>3. QED  BY <1>1, <1>2, ConsidersFlights DEF CandidateOf

\* A resolution goes on, or ends for those who wait for it.
GoesOn ==
    /\ IsFlight(flight') /\ flight'.pc # "none" /\ flight'.at = flight.at
    /\ UNCHANGED <<queued, waits, resolver_asked, resolver_told, kept, last>>
\* A resolution ends, and well only with a candidate.
Ends(r) == Resolver!Finishes(r) /\ (r = "ok" => flight.source \in CandidateOf)

\* A candidate that fails gives way to the next one, or ends the resolution.
LEMMA FailsGoesOn ==
    ASSUME IsFlight(flight), Resolver!Fails
    PROVE  (GoesOn /\ flight'.pc \in {"native", "managed"}) \/
        \E r \in {"configuration", "unavailable"} : Ends(r)
<1>1. CASE flight.source = "override"
  BY <1>1 DEF Resolver!Fails, Ends
<1>2. CASE flight.source = "managed"
  BY <1>2 DEF Resolver!Fails, Ends
<1>3. CASE flight.source \notin {"override", "managed"}
  BY <1>3, CandidatesAreFlights DEF Resolver!Fails, Resolver!Continues, Resolver!callVars, GoesOn
<1>4. QED  BY <1>1, <1>2, <1>3

\* The steps of a resolution: only a probe that ends in time is a success.
ResolverGoes ==
    /\ UNCHANGED resolver_generation
    /\ flight.pc # "none"
    /\ \/ GoesOn /\ expired = FALSE /\ expired' = FALSE
       \/ GoesOn /\ expired' = TRUE /\ flight'.pc = "probe"
       \/ \E r \in {"ok", "configuration", "unavailable", "deadline"} :
             /\ Ends(r) /\ expired' \in BOOLEAN
             /\ r = "ok" => expired = FALSE /\ expired' = FALSE

\* Every step within a resolution is one of these.
LEMMA ResolverStepGoes ==
    ASSUME ResolverInv,
           Resolver!Proceeds \/ Resolver!Breaks \/ Resolver!Expires \/ Resolver!ProbeEnds
    PROVE  ResolverGoes
<1> USE DEF ResolverInv, ResolverFlags, ResolverInTime
<1>1. ASSUME Resolver!ReadsSetting, UNCHANGED <<resolver_generation, expired>> PROVE ResolverGoes
  <2>1. flight.pc = "user" /\ expired = FALSE
    BY <1>1 DEF Resolver!ReadsSetting
  <2>2. GoesOn
    <3>1. CASE world.user = "none"
      BY <1>1, <2>1, <3>1 DEF Resolver!ReadsSetting, Resolver!Continues, Resolver!callVars,
           GoesOn, IsFlight, ResolverPcs
    <3>2. CASE world.user # "none"
      BY <1>1, <2>1, <3>2, ConsidersFlights
         DEF Resolver!ReadsSetting, Resolver!Continues, Resolver!callVars, GoesOn, CandidateOf
    <3>3. QED  BY <3>1, <3>2
  <2>3. QED  BY <1>1, <2>1, <2>2 DEF ResolverGoes
<1>2. ASSUME Resolver!Discovers, UNCHANGED <<resolver_generation, expired>> PROVE ResolverGoes
  <2>1. flight.pc = "discover" /\ expired = FALSE
    BY <1>2 DEF Resolver!Discovers
  <2>2. GoesOn
    BY <1>2, CandidatesAreFlights DEF Resolver!Discovers, Resolver!Continues, Resolver!callVars,
         GoesOn
  <2>3. QED  BY <1>2, <2>1, <2>2 DEF ResolverGoes
<1>3. ASSUME Resolver!Checks, UNCHANGED <<resolver_generation, expired>> PROVE ResolverGoes
  <2>1. flight.pc = "native" /\ expired = FALSE
    BY <1>3 DEF Resolver!Checks
  <2> DEFINE x == Resolver!Native(flight.candidate)
             f == [flight EXCEPT !.pc = "probe", !.exe = x,
                 !.promised = IF x \in Dir THEN 0 ELSE 2,
                                 !.probes = IF flight.source = "system" THEN @ + 1 ELSE @]
  <2>2. Resolver!Fails \/ Resolver!Continues(f)
    BY <1>3 DEF Resolver!Checks
  <2> HIDE DEF x
  <2>3. IsFlight(f) /\ f.at = flight.at /\ f.pc = "probe"
    BY <2>1 DEF IsFlight, ResolverPcs
  <2> HIDE DEF f
  <2>4. GoesOn \/ \E r \in {"configuration", "unavailable"} : Ends(r)
    BY <2>2, <2>3, FailsGoesOn DEF Resolver!Continues, Resolver!callVars, GoesOn
  <2>5. QED  BY <1>3, <2>1, <2>4 DEF ResolverGoes
<1>4. ASSUME Resolver!Probed, UNCHANGED <<resolver_generation, expired>> PROVE ResolverGoes
  <2>1. flight.pc = "probe" /\ expired = FALSE /\ (Resolver!Finishes("ok") \/ Resolver!Fails)
    BY <1>4 DEF Resolver!Probed
  <2>2. Resolver!Finishes("ok") => Ends("ok")
    BY <2>1 DEF Ends, IsFlight
  <2>3. GoesOn \/ \E r \in {"ok", "configuration", "unavailable"} : Ends(r)
    BY <2>1, <2>2, FailsGoesOn
  <2>4. QED  BY <1>4, <2>1, <2>3 DEF ResolverGoes
<1>5. ASSUME Resolver!ReadsManaged, UNCHANGED <<resolver_generation, expired>> PROVE ResolverGoes
  <2>1. flight.pc = "managed" /\ expired = FALSE
    BY <1>5 DEF Resolver!ReadsManaged
  <2>2. GoesOn \/ Ends("unavailable")
    BY <1>5, ConsidersFlights
       DEF Resolver!ReadsManaged, Resolver!Continues, Resolver!callVars, GoesOn, Ends, CandidateOf
  <2>3. QED  BY <1>5, <2>1, <2>2 DEF ResolverGoes
<1>6. CASE Resolver!Breaks
  <2>1. flight.pc # "none" /\ expired = FALSE /\ UNCHANGED <<resolver_generation, expired>>
    BY <1>6 DEF Resolver!Breaks, Resolver!Flying
  <2> DEFINE f == [flight EXCEPT !.list = <<>>]
  <2>2. \/ Resolver!Finishes("configuration") \/ Resolver!Finishes("unavailable") \/
           Resolver!Fails
        \/ Resolver!Continues(Resolver!Candidate(f, 1))
    BY <1>6 DEF Resolver!Breaks
  <2>3. IsFlight(f) /\ f.at = flight.at
    BY DEF IsFlight
  <2> HIDE DEF f
  <2>4. Resolver!Continues(Resolver!Candidate(f, 1)) => GoesOn
    BY <2>3, CandidatesAreFlights DEF Resolver!Continues, Resolver!callVars, GoesOn
  <2>5. GoesOn \/ \E r \in {"configuration", "unavailable"} : Ends(r)
    BY <2>2, <2>4, FailsGoesOn DEF Ends
  <2>6. QED  BY <2>1, <2>5 DEF ResolverGoes
<1>7. CASE Resolver!Expires
  <2>1. flight.pc # "none" /\ expired' = TRUE /\ UNCHANGED resolver_generation
    BY <1>7 DEF Resolver!Expires, Resolver!Flying
  <2>2. CASE flight.pc = "probe"
    BY <1>7, <2>1, <2>2 DEF Resolver!Expires, Resolver!Continues, Resolver!callVars, GoesOn,
         ResolverGoes
  <2>3. CASE flight.pc # "probe"
    <3>1. Resolver!Finishes(Resolver!OutOfTime)
      BY <1>7, <2>3 DEF Resolver!Expires
    <3>2. Resolver!OutOfTime \in {"configuration", "unavailable", "deadline"}
      BY DEF Resolver!OutOfTime
    <3>3. QED  BY <2>1, <3>1, <3>2 DEF Ends, ResolverGoes
  <2>4. QED  BY <2>2, <2>3
<1>8. CASE Resolver!ProbeEnds
  <2>1. flight.pc = "probe" /\ expired' = expired /\ UNCHANGED resolver_generation
        /\ Resolver!Finishes(Resolver!OutOfTime)
    BY <1>8 DEF Resolver!ProbeEnds
  <2>2. Resolver!OutOfTime \in {"configuration", "unavailable", "deadline"}
    BY DEF Resolver!OutOfTime
  <2>3. QED  BY <2>1, <2>2 DEF Ends, ResolverGoes
<1>9. QED
  BY <1>1, <1>2, <1>3, <1>4, <1>5, <1>6, <1>7, <1>8 DEF Resolver!Proceeds

\* A resolution goes on.
LEMMA ResolverGoesOn ==
    ASSUME ResolverInv, GoesOn, UNCHANGED resolver_generation, expired' \in BOOLEAN,
           flight.pc # "none", expired' = TRUE => flight'.pc = "probe"
    PROVE  ResolverInv'
<1> USE DEF ResolverInv, GoesOn
<1>1. IsFlight(flight')
  OBVIOUS
<1>2. ResolverNumbers' /\ ResolverFlags' /\ ResolverInTime'
  BY DEF ResolverNumbers, ResolverFlags, ResolverInTime
<1>3. ResolverWaits' /\ ResolverTold' /\ Resolver!KeptLasts'
  BY DEF ResolverWaits, ResolverTold, Resolver!KeptLasts, Resolver!Nothing
<1>4. QED  BY <1>1, <1>2, <1>3

\* A resolution ends: those who wait for it are told, and a success of this generation,
\* other than the managed runtime, is kept.
LEMMA ResolverEnds ==
    ASSUME ResolverInv, NEW r \in {"ok", "configuration", "unavailable", "deadline"}, Ends(r),
           UNCHANGED resolver_generation, expired' \in BOOLEAN, flight.pc # "none",
           r = "ok" => expired' = FALSE
    PROVE  ResolverInv'
<1> DEFINE ok == r = "ok"
           answer == [result |-> r, source |-> IF ok THEN flight.source ELSE "none",
                      exe |-> IF ok THEN flight.exe ELSE "none", at |-> flight.at]
<1>1. /\ last' = answer /\ flight' = Resolver!NoFlight
      /\ resolver_told' = [c \in Caller |-> IF waits[c] =
             "flight" THEN answer ELSE resolver_told[c]]
      /\ waits' = [c \in Caller |-> IF waits[c] = "flight" THEN "none" ELSE waits[c]]
      /\ kept' = IF ok /\ resolver_generation = answer.at /\ answer.source # "managed" THEN answer
                 ELSE kept
      /\ UNCHANGED <<queued, resolver_asked>>
  BY DEF Ends, Resolver!Finishes
<1>2. ok => flight.source \in CandidateOf
  BY DEF Ends
<1>3. /\ answer.result = r /\ answer.at = flight.at
      /\ answer.source = IF ok THEN flight.source ELSE "none"
  OBVIOUS
<1> HIDE DEF answer
<1>4. IsFlight(flight') /\ flight'.pc = "none" /\ flight'.at = 0
  BY <1>1 DEF IsFlight, Resolver!NoFlight, ResolverPcs
<1>5. ResolverNumbers' /\ ResolverFlags'
  BY <1>1, <1>4 DEF ResolverInv, ResolverNumbers, ResolverFlags
<1>6. ResolverInTime'
  BY <1>1, <1>3, <1>4 DEF ResolverInv, ResolverInTime
<1>7. ResolverWaits'
  BY <1>1, <1>4 DEF ResolverInv, ResolverFlags, ResolverWaits
<1>8. ResolverTold'
  <2> SUFFICES ASSUME NEW c \in Caller, waits'[c] = "none", resolver_told'[c] # Resolver!Nothing
               PROVE  resolver_told'[c].at \in Nat /\ resolver_told'[c].at >= resolver_asked'[c]
    BY <1>1 DEF ResolverTold, Resolver!Nothing
  <2>1. CASE waits[c] = "flight"
    BY <1>1, <1>3, <2>1 DEF ResolverInv, ResolverWaits, ResolverNumbers
  <2>2. CASE waits[c] # "flight"
    BY <1>1, <2>2 DEF ResolverInv, ResolverTold
  <2>3. QED  BY <2>1, <2>2
<1>9. Resolver!KeptLasts'
  BY <1>1, <1>2, <1>3 DEF ResolverInv, Resolver!KeptLasts, CandidateOf, Resolver!Nothing
<1>10. QED  BY <1>4, <1>5, <1>6, <1>7, <1>8, <1>9 DEF ResolverInv

\* A caller gets what is kept, or waits for a resolution: for one that starts after the
\* one that runs, if that was begun before the last invalidate().
LEMMA ResolverCalls == ASSUME ResolverInv, NEW c \in Caller, Resolver!Calls(c) PROVE ResolverInv'
<1>1. /\ waits[c] = "none" /\ resolver_asked' = [resolver_asked EXCEPT ![c] = resolver_generation]
      /\ UNCHANGED <<resolver_generation, kept>>
  BY DEF Resolver!Calls
<1>2. CASE kept # Resolver!Nothing /\ kept.at = resolver_generation
  <2>1. resolver_told' = [resolver_told EXCEPT ![c] = kept] /\ UNCHANGED <<waits, queued>>
    BY <1>2 DEF Resolver!Calls
  <2>2. UNCHANGED <<flight, expired, last>>
    BY <1>1, <2>1 DEF Resolver!Calls
  <2>3. IsFlight(flight') /\ ResolverNumbers' /\ ResolverFlags' /\ ResolverInTime'
    BY <1>1, <2>1, <2>2 DEF ResolverInv, ResolverNumbers, ResolverFlags, ResolverInTime
  <2>4. ResolverWaits'
    BY <1>1, <2>1, <2>2 DEF ResolverInv, ResolverNumbers, ResolverWaits
  <2>5. ResolverTold'
    BY <1>1, <1>2, <2>1 DEF ResolverInv, ResolverNumbers, ResolverTold, Resolver!Nothing
  <2>6. Resolver!KeptLasts'
    BY <1>1 DEF ResolverInv, Resolver!KeptLasts, Resolver!Nothing
  <2>7. QED  BY <2>3, <2>4, <2>5, <2>6 DEF ResolverInv
<1>3. CASE ~(kept # Resolver!Nothing /\ kept.at = resolver_generation)
  <2> DEFINE behind == queued \/ (Resolver!Flying /\ flight.at # resolver_generation)
  <2>1. /\ waits' = [waits EXCEPT ![c] = IF behind THEN "queued" ELSE "flight"]
        /\ queued' = (waits'[c] = "queued" \/ queued)
        /\ resolver_told' = [resolver_told EXCEPT ![c] = Resolver!Nothing]
    BY <1>3 DEF Resolver!Calls
  <2>2. waits'[c] = IF behind THEN "queued" ELSE "flight"
    BY <2>1 DEF ResolverInv, ResolverFlags
  <2>3. ResolverFlags' /\ IsFlight(flight') /\ ResolverInTime' /\ flight'.at \in Nat /\
           flight'.at <= resolver_generation
        /\ (~behind => flight'.pc # "none" /\ flight'.at = resolver_generation)
        /\ (flight.pc # "none" => flight' = flight)
    <3>1. CASE waits'[c] = "flight" /\ ~Resolver!Flying
      <4>1. flight' = Resolver!Fresh /\ expired' = FALSE
        BY <3>1 DEF Resolver!Calls, Resolver!Starts
      <4>2. IsFlight(flight') /\ flight'.at = resolver_generation /\ flight'.pc # "none"
        BY <4>1, FreshIsFlight
      <4>3. ResolverFlags' /\ ResolverInTime'
        BY <2>1, <2>2, <4>1 DEF ResolverInv, ResolverFlags, ResolverInTime
      <4>4. flight.pc = "none" /\ resolver_generation \in Nat
        BY <3>1 DEF ResolverInv, ResolverNumbers, Resolver!Flying
      <4>5. QED  BY <4>2, <4>3, <4>4
    <3>2. CASE ~(waits'[c] = "flight" /\ ~Resolver!Flying)
      <4>1. UNCHANGED <<flight, expired, last>>
        BY <3>2 DEF Resolver!Calls
      <4>2. ResolverFlags' /\ IsFlight(flight') /\ ResolverInTime'
        BY <2>1, <2>2, <4>1 DEF ResolverInv, ResolverFlags, ResolverInTime
      <4>3. QED
        BY <2>2, <3>2, <4>1, <4>2 DEF ResolverInv, ResolverNumbers, Resolver!Flying
    <3>3. QED  BY <3>1, <3>2
  <2>4. ResolverNumbers'
    BY <1>1, <2>3 DEF ResolverInv, ResolverNumbers
  <2>5. ResolverWaits'
    <3> SUFFICES ASSUME NEW d \in Caller
                 PROVE  /\ waits'[d] = "flight" =>
                               flight'.pc # "none" /\ flight'.at >= resolver_asked'[d]
                        /\ waits'[d] = "queued" => queued' = TRUE
      BY DEF ResolverWaits
    <3>1. CASE d = c
      <4>1. resolver_asked'[c] = resolver_generation /\ resolver_generation \in Nat
        BY <1>1 DEF ResolverInv, ResolverNumbers
      <4>2. waits'[c] = "queued" => queued' = TRUE
        BY <2>1
      <4>3. waits'[c] = "flight" => ~behind
        BY <2>2
      <4>4. QED  BY <2>3, <3>1, <4>1, <4>2, <4>3
    <3>2. CASE d # c
      <4>1. resolver_asked'[d] = resolver_asked[d] /\ waits'[d] = waits[d]
        BY <1>1, <2>1, <3>2 DEF ResolverInv, ResolverNumbers, ResolverFlags
      <4>2. waits[d] = "queued" => queued' = TRUE
        BY <2>1 DEF ResolverInv, ResolverWaits
      <4>3. waits[d] = "flight" =>
               flight' = flight /\ flight.pc # "none" /\ flight.at >= resolver_asked[d]
        BY <2>3 DEF ResolverInv, ResolverWaits
      <4>4. QED  BY <4>1, <4>2, <4>3
    <3>3. QED  BY <3>1, <3>2
  <2>6. ResolverTold'
    BY <1>1, <2>1, <2>2 DEF ResolverInv, ResolverTold, Resolver!Nothing
  <2>7. Resolver!KeptLasts'
    BY <1>1 DEF ResolverInv, Resolver!KeptLasts, Resolver!Nothing
  <2>8. QED  BY <2>3, <2>4, <2>5, <2>6, <2>7 DEF ResolverInv
<1>4. QED  BY <1>2, <1>3

\* Every step keeps the invariant.
LEMMA ResolverKept == ResolverInv /\ [Resolver!Next]_resolverVars => ResolverInv'
<1> SUFFICES ASSUME ResolverInv, [Resolver!Next]_resolverVars PROVE ResolverInv'
  OBVIOUS
<1>1. CASE UNCHANGED resolverVars
  BY <1>1 DEF resolverVars, ResolverInv, ResolverNumbers, ResolverFlags, ResolverInTime,
       ResolverWaits, ResolverTold, Resolver!KeptLasts, Resolver!Nothing
<1>2. CASE Resolver!Proceeds \/ Resolver!Breaks \/ Resolver!Expires \/ Resolver!ProbeEnds
  <2>1. ResolverGoes
    BY <1>2, ResolverStepGoes
  <2>2. CASE GoesOn /\ expired' = FALSE
    BY <2>1, <2>2, ResolverGoesOn DEF ResolverGoes
  <2>3. CASE GoesOn /\ expired' = TRUE /\ flight'.pc = "probe"
    BY <2>1, <2>3, ResolverGoesOn DEF ResolverGoes
  <2>4. CASE \E r \in {"ok", "configuration", "unavailable", "deadline"} :
                /\ Ends(r) /\ expired' \in BOOLEAN /\ (r = "ok" => expired' = FALSE)
    <3>1. PICK r \in {"ok", "configuration", "unavailable", "deadline"} :
             /\ Ends(r) /\ expired' \in BOOLEAN /\ (r = "ok" => expired' = FALSE)
      BY <2>4
    <3>2. UNCHANGED resolver_generation /\ flight.pc # "none"
      BY <2>1 DEF ResolverGoes
    <3>3. QED  BY <3>1, <3>2, ResolverEnds
  <2>5. QED  BY <2>1, <2>2, <2>3, <2>4 DEF ResolverGoes
<1>3. CASE Resolver!StartsQueued
  <2>1. /\ flight.pc = "none" /\ flight' = Resolver!Fresh /\ expired' = FALSE /\ queued' = FALSE
        /\ waits' = [c \in Caller |-> IF waits[c] = "queued" THEN "flight" ELSE waits[c]]
        /\ UNCHANGED <<resolver_generation, kept, resolver_asked, resolver_told>>
    BY <1>3 DEF Resolver!StartsQueued, Resolver!Starts, Resolver!Flying
  <2>2. IsFlight(flight') /\ flight'.at = resolver_generation /\ flight'.pc # "none"
    BY <2>1, FreshIsFlight
  <2>7. ResolverNumbers'
    BY <2>1, <2>2 DEF ResolverInv, ResolverNumbers
  <2>3. ResolverFlags' /\ ResolverInTime'
    BY <2>1, <2>2 DEF ResolverInv, ResolverFlags, ResolverInTime
  <2>4. ResolverWaits' /\ ResolverTold'
    BY <2>1, <2>2 DEF ResolverInv, ResolverNumbers, ResolverFlags, ResolverWaits, ResolverTold,
         Resolver!Nothing
  <2>5. Resolver!KeptLasts'
    BY <2>1 DEF ResolverInv, Resolver!KeptLasts, Resolver!Nothing
  <2>6. QED  BY <2>2, <2>3, <2>4, <2>5, <2>7 DEF ResolverInv
<1>4. CASE Resolver!Invalidates
  <2>1. /\ resolver_generation' = resolver_generation + 1 /\ kept' = Resolver!Nothing
        /\ UNCHANGED <<flight, queued, waits, resolver_asked, resolver_told, expired, last>>
    BY <1>4 DEF Resolver!Invalidates, Resolver!callVars
  <2>2. IsFlight(flight') /\ ResolverNumbers' /\ ResolverFlags' /\ ResolverInTime'
    BY <2>1 DEF ResolverInv, ResolverNumbers, ResolverFlags, ResolverInTime
  <2>3. ResolverWaits' /\ ResolverTold' /\ Resolver!KeptLasts'
    BY <2>1 DEF ResolverInv, ResolverWaits, ResolverTold, Resolver!KeptLasts, Resolver!Nothing
  <2>4. QED  BY <2>2, <2>3 DEF ResolverInv
<1>5. ASSUME NEW c \in Caller, Resolver!Calls(c) PROVE ResolverInv'
  BY <1>5, ResolverCalls
<1>6. ASSUME NEW w \in World, Resolver!Changes(w) PROVE ResolverInv'
  BY <1>6 DEF Resolver!Changes, Resolver!callVars, ResolverInv, ResolverNumbers, ResolverFlags,
       ResolverInTime, ResolverWaits, ResolverTold, Resolver!KeptLasts, Resolver!Nothing
<1>7. QED  BY <1>1, <1>2, <1>3, <1>4, <1>5, <1>6 DEF Resolver!Next

\* A resolver that was not called satisfies the invariant.
LEMMA ResolverStarts == Resolver!Init => ResolverInv
<1> SUFFICES ASSUME Resolver!Init PROVE ResolverInv
  OBVIOUS
<1>1. IsFlight(flight) /\ flight.pc = "none" /\ flight.at = 0
  BY DEF Resolver!Init, Resolver!NoFlight, IsFlight, ResolverPcs
<1>2. ResolverNumbers
  BY <1>1 DEF Resolver!Init, ResolverNumbers
<1>5. ResolverFlags /\ ResolverInTime /\ ResolverWaits
  BY <1>1 DEF Resolver!Init, ResolverFlags, ResolverInTime, ResolverWaits
<1>3. ResolverTold /\ Resolver!KeptLasts
  BY DEF Resolver!Init, ResolverTold, Resolver!KeptLasts
<1>4. QED  BY <1>1, <1>2, <1>3, <1>5 DEF ResolverInv

\* The invariant gives AnswersAreFresh, KeptLasts and NothingLate.
LEMMA ResolverIsSound ==
    ResolverInv => Resolver!AnswersAreFresh /\ Resolver!KeptLasts /\ Resolver!NothingLate
<1> SUFFICES ASSUME ResolverInv PROVE Resolver!AnswersAreFresh /\ Resolver!NothingLate
  BY DEF ResolverInv
<1>1. Resolver!NothingLate
  BY DEF ResolverInv, ResolverInTime, ResolverFlags, Resolver!NothingLate, Resolver!Flying
<1>2. Resolver!AnswersAreFresh
  BY DEF ResolverInv, ResolverWaits, ResolverFlags, ResolverTold, Resolver!AnswersAreFresh,
       Resolver!Flying
<1>3. QED  BY <1>1, <1>2
-----------------------------------------------------------------------------
(* The leases of the thread coordinator                                    *)

\* What a request of the coordinator is.
IsAsk(r) ==
    DOMAIN r = {"kind", "thread", "pc", "lease", "gen", "rev", "sel", "list", "data"}

\* The generation of the host is counted to its bound.
ThreadsGeneration == threads_generation \in 1..(MaxRestarts + 1)

\* The inductive invariant of the leases.
ThreadsInv ==
    /\ DOMAIN req = Threads!Ops /\ \A q \in Threads!Ops : IsAsk(req[q])
    /\ active \subseteq Threads!Ops /\ Threads!LeasesAreActive

\* What a request becomes when it begins, ends or throws holds no lease.
LEMMA OverHoldsNothing ==
    ASSUME NEW r, NEW p
    PROVE  IsAsk(Threads!Over(r, p)) /\ Threads!Over(r, p).lease # "held"
BY DEF Threads!Over, Threads!NoRequest, IsAsk

\* A request that ended holds no lease.
LEMMA EndedHoldsNothing ==
    ASSUME NEW r
    PROVE  IsAsk(Threads!Ended(r)) /\ Threads!Ended(r).lease # "held"
BY OverHoldsNothing DEF Threads!Ended

\* A request that was refused holds no lease.
LEMMA ThrownHoldsNothing ==
    ASSUME NEW r
    PROVE  IsAsk(Threads!Thrown(r)) /\ Threads!Thrown(r).lease # "held"
<1>1. CASE r.kind = "refresh"
  <2> DEFINE o == Threads!Over(r, "failed")
  <2>1. Threads!Thrown(r) = [o EXCEPT !.kind = r.kind, !.thread = r.thread, !.sel = r.sel]
    BY <1>1 DEF Threads!Thrown
  <2>2. IsAsk(o) /\ o.lease # "held"
    BY OverHoldsNothing
  <2> HIDE DEF o
  <2>3. QED  BY <2>1, <2>2 DEF IsAsk
<1>2. CASE r.kind # "refresh"
  BY <1>2, EndedHoldsNothing DEF Threads!Thrown
<1>3. QED  BY <1>1, <1>2

\* A request that begins holds no lease yet.
LEMMA TrackedHoldsNothing ==
    ASSUME NEW q, NEW k, NEW x
    PROVE  IsAsk(Threads!Tracked(q, k, x)) /\ Threads!Tracked(q, k, x).lease # "held"
BY DEF Threads!Tracked, Threads!NoRequest, IsAsk

\* A step that changes one request and no other, and takes none but this one out of the
\* active ones.
LEMMA OneRequest ==
    ASSUME ThreadsInv, NEW q \in Threads!Ops, NEW r, IsAsk(r),
           req' = [req EXCEPT ![q] = r],
           active' = active \/ active' = active \cup {q} \/ active' = active \ {q},
           r.lease = "held" => q \in active'
    PROVE  ThreadsInv'
<1>1. DOMAIN req' = Threads!Ops /\ \A p \in Threads!Ops : req'[p] = IF p = q THEN r ELSE req[p]
  BY DEF ThreadsInv
<1>2. \A p \in Threads!Ops : IsAsk(req'[p])
  BY <1>1 DEF ThreadsInv
<1>3. \A p \in Threads!Ops : req'[p].lease = "held" => p \in active'
  BY <1>1 DEF ThreadsInv, Threads!LeasesAreActive
<1>4. active' \subseteq Threads!Ops
  BY DEF ThreadsInv
<1>5. Threads!Ops' = Threads!Ops
  BY DEF Threads!Ops, Threads!Refresh
<1>6. QED  BY <1>1, <1>2, <1>3, <1>4, <1>5 DEF ThreadsInv, Threads!LeasesAreActive

\* The requests of a set of active ones are invalidated and released.
LEMMA InvalidateReleases ==
    ASSUME ThreadsInv, NEW Q, req' = Threads!Invalidate(Q), active' = active \ Q
    PROVE  ThreadsInv'
<1> DEFINE gone(q) == [req[q] EXCEPT !.lease = IF @ = "held" THEN "released" ELSE @]
<1>1. \A q \in Threads!Ops : IsAsk(gone(q)) /\ gone(q).lease # "held"
  BY DEF ThreadsInv, IsAsk
<1>2. req' = [q \in Threads!Ops |-> IF q \notin Q THEN req[q]
                ELSE IF req[q].pc \in
                    {"acquiring", "asked"} THEN Threads!Thrown(req[q]) ELSE gone(q)]
  BY DEF Threads!Invalidate
<1> HIDE DEF gone
<1>3. \A q \in Threads!Ops : IsAsk(req'[q]) /\
         (req'[q].lease = "held" => q \notin Q /\ req'[q] = req[q])
  BY <1>1, <1>2, ThrownHoldsNothing DEF ThreadsInv
<1>4. \A q \in Threads!Ops : req'[q].lease = "held" => q \in active'
  BY <1>3 DEF ThreadsInv, Threads!LeasesAreActive
<1>5. DOMAIN req' = Threads!Ops /\ active' \subseteq Threads!Ops /\ Threads!Ops' = Threads!Ops
  BY <1>2 DEF ThreadsInv, Threads!Ops, Threads!Refresh
<1>6. QED  BY <1>3, <1>4, <1>5 DEF ThreadsInv, Threads!LeasesAreActive

\* Every step keeps the generation.
LEMMA ThreadsGenerationKept ==
    ThreadsGeneration /\ [Threads!Next]_threadsVars => ThreadsGeneration'
<1> SUFFICES ASSUME ThreadsGeneration, [Threads!Next]_threadsVars PROVE ThreadsGeneration'
  OBVIOUS
<1>1. ASSUME NEW b \in BOOLEAN, Threads!HostStarts(b) PROVE ThreadsGeneration'
  BY <1>1, CodexAssumption DEF Threads!HostStarts, ThreadsGeneration
<1>2. ASSUME NEW q \in Threads!Ops,
             Threads!Calls(q) \/ Threads!Serves(q) \/ Threads!Continues(q) \/
                 Threads!RefreshFails(q)
      PROVE  ThreadsGeneration'
  BY <1>2 DEF Threads!Calls, Threads!Serves, Threads!Continues, Threads!RefreshFails,
       Threads!Begins, Threads!HostGrants, Threads!HostRefuses, Threads!Answers, Threads!Fails,
       Threads!Binds, Threads!Asks, Threads!Resumes, Threads!hostVars, ThreadsGeneration
<1>3. CASE \E x \in Thread : Threads!StatusChanges(x) \/ Threads!Started(x) \/
         Threads!Archived(x) \/ Threads!Unarchived(x)
  BY <1>3 DEF Threads!StatusChanges, Threads!Started, Threads!Archived, Threads!Unarchived,
       Threads!hostVars, ThreadsGeneration
<1>4. CASE Threads!HostStops \/ Threads!HostReady \/ Threads!Dispose \/
         \E x \in Thread \cup {Threads!None} : Threads!Select(x)
  BY <1>4 DEF Threads!HostStops, Threads!HostReady, Threads!Dispose, Threads!Select,
       Threads!hostVars, ThreadsGeneration
<1>5. CASE UNCHANGED threadsVars
  BY <1>5 DEF threadsVars, ThreadsGeneration
<1>6. QED  BY <1>1, <1>2, <1>3, <1>4, <1>5 DEF Threads!Next

\* Every step keeps the leases with the active requests.
LEMMA ThreadsInvKept ==
    ThreadsInv /\ ThreadsGeneration /\ [Threads!Next]_threadsVars => ThreadsInv'
<1> SUFFICES ASSUME ThreadsInv, ThreadsGeneration, [Threads!Next]_threadsVars PROVE ThreadsInv'
  OBVIOUS
<1>1. ASSUME UNCHANGED <<req, active>> PROVE ThreadsInv'
  BY <1>1 DEF ThreadsInv, Threads!LeasesAreActive, Threads!Ops, Threads!Refresh
<1>2. ASSUME NEW q \in Threads!Ops, NEW k \in Threads!Kinds,
         NEW x \in Thread \cup {Threads!None}, Threads!Begins(q, k, x)
      PROVE  ThreadsInv'
  <2> DEFINE t == Threads!Tracked(q, k, x)  r == [t EXCEPT !.list = listRev']
  <2>1. req' = [req EXCEPT ![q] = r] /\ active' = active \cup {q}
    BY <1>2 DEF Threads!Begins
  <2>2. IsAsk(t)
    BY TrackedHoldsNothing
  <2> HIDE DEF t
  <2>3. IsAsk(r)
    BY <2>2 DEF IsAsk
  <2> HIDE DEF r
  <2>4. QED  BY <2>1, <2>3, OneRequest
<1>3. ASSUME NEW q \in Threads!Ops, Threads!HostGrants(q) PROVE ThreadsInv'
  <2> DEFINE r == [req[q] EXCEPT !.lease = "granted", !.gen = threads_generation]
  <2>1. req' = [req EXCEPT ![q] = r] /\ active' = active
    BY <1>3 DEF Threads!HostGrants
  <2>2. IsAsk(r) /\ r.lease = "granted"
    BY DEF ThreadsInv, IsAsk
  <2> HIDE DEF r
  <2>3. QED  BY <2>1, <2>2, OneRequest
<1>4. ASSUME NEW q \in Threads!Ops, Threads!HostRefuses(q) PROVE ThreadsInv'
  <2> DEFINE t == IF req[q].pc = "acquiring" THEN Threads!Thrown(req[q]) ELSE req[q]
             r == [t EXCEPT !.lease = Threads!None]
  <2>1. req' = [req EXCEPT ![q] = r] /\ active' = active \ {q}
    BY <1>4 DEF Threads!HostRefuses
  <2>2. IsAsk(t)
    BY ThrownHoldsNothing DEF ThreadsInv
  <2> HIDE DEF t
  <2>3. IsAsk(r) /\ r.lease # "held"
    BY <2>2 DEF IsAsk, Threads!None
  <2> HIDE DEF r
  <2>4. QED  BY <2>1, <2>3, OneRequest
<1>5. ASSUME NEW q \in Threads!Ops, Threads!Binds(q) PROVE ThreadsInv'
  <2> DEFINE r == [req[q] EXCEPT !.lease = IF Threads!BindsInTime(q) THEN "held" ELSE "released",
                                 !.pc = IF @ = "acquiring" THEN "bound" ELSE @]
  <2>1. req' = [req EXCEPT ![q] = r] /\ active' = active
    BY <1>5 DEF Threads!Binds
  <2>2. IsAsk(r) /\ (r.lease = "held" => q \in active)
    BY DEF ThreadsInv, IsAsk, Threads!BindsInTime
  <2> HIDE DEF r
  <2>3. QED  BY <2>1, <2>2, OneRequest
<1>6. ASSUME NEW q \in Threads!Ops, Threads!Throws(q) PROVE ThreadsInv'
  <2>1. req' = [req EXCEPT ![q] = Threads!Thrown(req[q])] /\ active' = active \ {q}
    BY <1>6 DEF Threads!Throws
  <2>2. QED  BY <2>1, ThrownHoldsNothing, OneRequest
<1>7. ASSUME NEW q \in Threads!Ops, NEW v, NEW d, active' = active,
             \/ req' = [req EXCEPT ![q].pc = v]
             \/ req' = [req EXCEPT ![q].pc = v, ![q].data = d]
      PROVE  ThreadsInv'
  <2> DEFINE r1 == [req[q] EXCEPT !.pc = v]  r2 == [req[q] EXCEPT !.pc = v, !.data = d]
  <2>1. req' = [req EXCEPT ![q] = r1] \/ req' = [req EXCEPT ![q] = r2]
    BY <1>7
  <2>2. IsAsk(r1) /\ r1.lease = req[q].lease /\ IsAsk(r2) /\ r2.lease = req[q].lease
    BY DEF ThreadsInv, IsAsk
  <2> HIDE DEF r1, r2
  <2>3. req[q].lease = "held" => q \in active'
    BY <1>7 DEF ThreadsInv, Threads!LeasesAreActive
  <2>4. QED  BY <1>7, <2>1, <2>2, <2>3, OneRequest
<1>8. ASSUME NEW q \in Threads!Ops, Threads!Asks(q) PROVE ThreadsInv'
  BY <1>6, <1>7, <1>8 DEF Threads!Asks
<1>9. ASSUME NEW q \in Threads!Ops, Threads!Answers(q) PROVE ThreadsInv'
  <2>1. active' = active
    BY <1>9 DEF Threads!Answers
  <2>2. \E d : req' = [req EXCEPT ![q].pc = "answered"] \/
           req' = [req EXCEPT ![q].pc = "answered", ![q].data = d]
    BY <1>9 DEF Threads!Answers
  <2>3. QED  BY <1>7, <2>1, <2>2
<1>10. ASSUME NEW q \in Threads!Ops, Threads!Fails(q) PROVE ThreadsInv'
  BY <1>6, <1>10 DEF Threads!Fails
<1>11. ASSUME NEW q \in Threads!Ops, Threads!Resumes(q) PROVE ThreadsInv'
  <2>1. Threads!Throws(q) \/
           (req' = [req EXCEPT ![q] = Threads!Ended(req[q])] /\ active' = active \ {q})
    BY <1>11 DEF Threads!Resumes
  <2>2. QED  BY <1>6, <2>1, EndedHoldsNothing, OneRequest
<1>12. ASSUME NEW q \in Threads!Ops, Threads!RefreshFails(q) PROVE ThreadsInv'
  <2>1. req' = [req EXCEPT ![q] = Threads!Ended(req[q])] /\ active' = active
    BY <1>12 DEF Threads!RefreshFails
  <2>2. QED  BY <2>1, EndedHoldsNothing, OneRequest
<1>13. CASE \E x \in Thread : Threads!StatusChanges(x) \/ Threads!Started(x) \/
         Threads!Archived(x) \/ Threads!Unarchived(x)
  BY <1>1, <1>13 DEF Threads!StatusChanges, Threads!Started, Threads!Archived, Threads!Unarchived
<1>14. CASE Threads!HostStops \/ Threads!Dispose
  <2>1. req' = Threads!Invalidate(active) /\ active' = active \ active
    BY <1>14 DEF Threads!HostStops, Threads!Dispose
  <2>2. QED  BY <2>1, InvalidateReleases
<1>15. ASSUME NEW b \in BOOLEAN, Threads!HostStarts(b) PROVE ThreadsInv'
  <2>1. \E Q : req' = Threads!Invalidate(Q) /\ active' = active \ Q
    BY <1>15 DEF Threads!HostStarts
  <2>2. QED  BY <2>1, InvalidateReleases
<1>16. CASE Threads!HostReady
  <2> DEFINE g == threads_generation
             r == Threads!Tracked(g, "refresh", cache.selected)
             s == Threads!Thrown([r EXCEPT !.lease = Threads!None])
  <2>1. CASE UNCHANGED <<req, active>>
    BY <1>1, <2>1
  <2>2. \/ UNCHANGED <<req, active>>
        \/ req' = [req EXCEPT ![g] = r] /\ active' = active \cup {g}
        \/ req' = [req EXCEPT ![g] = s] /\ active' = active
    BY <1>16 DEF Threads!HostReady
  <2>3. IsAsk(r) /\ IsAsk(s) /\ r.lease # "held" /\ s.lease # "held"
    BY TrackedHoldsNothing, ThrownHoldsNothing
  <2> HIDE DEF r, s
  <2>4. g \in Threads!Ops
    BY DEF ThreadsGeneration, Threads!Ops, Threads!Refresh
  <2>5. QED  BY <2>1, <2>2, <2>3, <2>4, OneRequest
<1>17. CASE \E x \in Thread \cup {Threads!None} : Threads!Select(x)
  BY <1>1, <1>17 DEF Threads!Select
<1>18. CASE UNCHANGED threadsVars
  BY <1>1, <1>18 DEF threadsVars
<1>19. QED
  BY <1>2, <1>3, <1>4, <1>5, <1>8, <1>9, <1>10, <1>11, <1>12, <1>13, <1>14, <1>15, <1>16, <1>17,
       <1>18
  DEF Threads!Next, Threads!Calls, Threads!Serves, Threads!Continues

\* Every step keeps the invariant.
LEMMA ThreadsKept ==
    ThreadsInv /\ ThreadsGeneration /\ [Threads!Next]_threadsVars =>
        ThreadsInv' /\ ThreadsGeneration'
BY ThreadsInvKept, ThreadsGenerationKept

\* A coordinator without requests satisfies the invariant.
LEMMA ThreadsStart == Threads!Init => ThreadsInv /\ ThreadsGeneration
<1> SUFFICES ASSUME Threads!Init PROVE ThreadsInv /\ ThreadsGeneration
  OBVIOUS
<1>1. ThreadsGeneration
  BY CodexAssumption DEF Threads!Init, ThreadsGeneration
<1>2. req = [q \in Threads!Ops |-> Threads!NoRequest] /\ active = {}
  BY DEF Threads!Init
<1>3. IsAsk(Threads!NoRequest) /\ Threads!NoRequest.lease # "held"
  BY DEF IsAsk, Threads!NoRequest, Threads!None
<1>4. QED  BY <1>1, <1>2, <1>3 DEF ThreadsInv, Threads!LeasesAreActive
-----------------------------------------------------------------------------
(* The parts together                                                      *)

\* A step of the parts is a step of one of them, and leaves the variables of the others.
LEMMA PartSteps ==
    [PartNext]_partVars =>
        /\ [Next]_jsonlVars /\ [Stager!Next]_stagerVars /\ [Probe!Next]_probeVars
        /\ [Threads!Next]_threadsVars /\ [Resolver!Next]_resolverVars
<1> SUFFICES ASSUME [PartNext]_partVars
             PROVE  /\ [Next]_jsonlVars /\ [Stager!Next]_stagerVars /\ [Probe!Next]_probeVars
                    /\ [Threads!Next]_threadsVars /\ [Resolver!Next]_resolverVars
  OBVIOUS
<1>1. CASE JsonlPart
  BY <1>1 DEF JsonlPart, Only
<1>2. CASE StagerPart
  BY <1>2 DEF StagerPart, Only
<1>3. CASE ProbePart
  BY <1>3 DEF ProbePart, Only
<1>4. CASE ThreadsPart
  BY <1>4 DEF ThreadsPart, Only
<1>5. CASE ResolverPart
  BY <1>5 DEF ResolverPart, Only
<1>6. CASE ReducerPart
  BY <1>6 DEF ReducerPart, Only
<1>7. CASE UNCHANGED partVars
  BY <1>7 DEF partVars
<1>8. QED  BY <1>1, <1>2, <1>3, <1>4, <1>5, <1>6, <1>7 DEF PartNext

\* What holds of every part in every state.
CodexInv == ClientInv /\ StagerInv /\ ProbeInv /\ ThreadsInv /\ ThreadsGeneration /\ ResolverInv

\* It holds initially.
LEMMA CodexStarts == PartInit => CodexInv
BY InitKeepsInv, StagerStarts, ProbeStarts, ThreadsStart, ResolverStarts DEF PartInit, CodexInv

\* Every step keeps it: one part takes a step of its own, or none.
LEMMA CodexKept == CodexInv /\ [PartNext]_partVars => CodexInv'
<1> SUFFICES ASSUME CodexInv, [PartNext]_partVars PROVE CodexInv'
  OBVIOUS
<1>1. ClientInv'
  BY PartSteps, StepKeepsInv DEF CodexInv, jsonlVars
<1>2. StagerInv' /\ ProbeInv'
  BY PartSteps, StagerKept, ProbeKept DEF CodexInv
<1>3. ThreadsInv' /\ ThreadsGeneration' /\ ResolverInv'
  BY PartSteps, ThreadsKept, ResolverKept DEF CodexInv
<1>4. QED  BY <1>1, <1>2, <1>3 DEF CodexInv

\* In every state of every part: its state has its type; a promise waits exactly while its
\* entry exists and its timer is armed, and a probe's command has a timer; a failed staging
\* leaves nothing behind unless a file operation failed or another program interfered; a
\* lease of the thread coordinator is held by an active request only; an answer of the
\* resolver was begun after the last invalidate() before the call, what it keeps is of this
\* generation, and no runtime is answered after the deadline.  These are the conjuncts of
\* PartsAgree that need no induction over a sequence.
PartsKeepFaith ==
    /\ TypeOK /\ WaitingIsTimed
    /\ Stager!TypeOK /\ Stager!FailureIsClean
    /\ Probe!TypeOK /\ Probe!PendingIsTimed
    /\ Threads!LeasesAreActive
    /\ Resolver!AnswersAreFresh /\ Resolver!KeptLasts /\ Resolver!NothingLate

\* It gives what PartsKeepFaith says.
LEMMA CodexIsSound == CodexInv => PartsKeepFaith
<1> SUFFICES ASSUME CodexInv PROVE PartsKeepFaith
  OBVIOUS
<1>1. TypeOK /\ WaitingIsTimed
  BY DEF CodexInv, ClientInv
<1>2. Stager!TypeOK /\ Stager!FailureIsClean /\ Probe!TypeOK /\ Probe!PendingIsTimed
  BY StagerIsSound, ProbeIsSound DEF CodexInv
<1>3. Threads!LeasesAreActive /\ Resolver!AnswersAreFresh /\ Resolver!KeptLasts /\
         Resolver!NothingLate
  BY ResolverIsSound DEF CodexInv, ThreadsInv
<1>4. QED  BY <1>1, <1>2, <1>3 DEF PartsKeepFaith

\* Whatever the order of messages, timers, crashes, faults and invalidations, no part leaves a
\* promise or a command without a timer, a lease without its request, a failed staging's litter
\* without a fault, or a caller with an answer that is stale or late.
THEOREM PartsAlwaysKeepFaith == PartSpec => []PartsKeepFaith
<1>1. PartInit => CodexInv
  BY CodexStarts
<1>2. CodexInv /\ [PartNext]_partVars => CodexInv'
  BY CodexKept
<1>3. CodexInv => PartsKeepFaith
  BY CodexIsSound
<1>4. QED  BY <1>1, <1>2, <1>3, PTL DEF PartSpec

\* What the installer publishes is the tree that was attested and run, without unsafe entries
\* and of the reviewed version, and it is what the reviewed bytes held, unflawed, unless another
\* program changed the tree after its extraction; and a download is requested only under a live
\* consent that was spent and whose installation has the lock, for one chain of redirects at
\* most.
THEOREM StagingIsAlwaysSound == PartSpec => StagingIsSound
<1>1. PartInit => CodexInv
  BY CodexStarts
<1>2. CodexInv /\ [PartNext]_partVars => CodexInv'
  BY CodexKept
<1>3. CodexInv /\ [PartNext]_partVars =>
          [pc = "staged" /\ pc' = "idle" /\ stager_outcome' = "published" =>
              /\ tree = attested /\ tree = probed
              /\ flaw \notin {"header", "entry", "version"}
              /\ tree = 1 => genuine /\ flaw = "none"]_(Stager!vars)
  BY PartSteps, PublishesAttested DEF CodexInv
<1>4. CodexInv /\ [PartNext]_partVars =>
          [\A c \in Consent : requests'[c] # requests[c] =>
              /\ Stager!Live(c) /\ token[c] = "spent" /\ c = Stager!Current
              /\ requests'[c] <= MaxRedirects + 1]_(Stager!vars)
  BY PartSteps, RequestsArePaid DEF CodexInv
<1>5. QED
  BY <1>1, <1>2, <1>3, <1>4, PTL
     DEF PartSpec, StagingIsSound, Stager!PublishedIsAttested, Stager!RequestsAreConsented

\* No step settles a promise of the client twice, and a command of the probe settles once
\* and never succeeds after it was terminated.
THEOREM CommandsAlwaysSettleOnce == PartSpec => SettlesOnce /\ Probe!CommandsSettleOnce
<1>1. PartInit => CodexInv
  BY CodexStarts
<1>2. CodexInv /\ [PartNext]_partVars => CodexInv'
  BY CodexKept
<1>3. CodexInv /\ [PartNext]_partVars =>
          [\A id \in Id : outcome[id] \in {"answered", "timedOut", "closed"}
              => outcome'[id] = outcome[id]]_vars
  BY PartSteps, StepSettlesOnce DEF CodexInv, jsonlVars
<1>4. CodexInv /\ [PartNext]_partVars =>
          [/\ settled # "pending" /\ command' = command => settled' = settled
           /\ settled' = "resolved" /\ settled # "resolved" =>
                reason = "none" /\ code = "ok"]_(Probe!vars)
  BY PartSteps, ProbeSettlesOnce DEF CodexInv
<1>5. QED
  BY <1>1, <1>2, <1>3, <1>4, PTL DEF PartSpec, SettlesOnce, Probe!CommandsSettleOnce
====
