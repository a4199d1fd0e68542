---------------------------- MODULE RuntimeStager ----------------------------
(***************************************************************************)
(* From the user's consent to a staged runtime that may be published:      *)
(* one-shot consent (ride-codex-install-consent.ts), the root lock of the  *)
(* store, download (ride-codex-runtime-fetcher.ts), and extraction, probe  *)
(* and attestation (ride-codex-runtime-stager.ts).                         *)
(*                                                                         *)
(* Time passes between any two steps; the registry may redirect, stall or  *)
(* send anything; another program may change files of the staging          *)
(* directory at any time.  A file is known by an identity that every       *)
(* change alters (inode, size, ctime).                                     *)
(***************************************************************************)
EXTENDS Naturals, Sequences, FiniteSets

CONSTANTS
    Consent,        \* consents the user is asked for
    Lifetime,       \* of a consent
    MaxTime,        \* the clock stops here
    MaxRedirects,
    MaxTampers,     \* changes of the files by another program
    MaxFaults       \* file operations that fail

VARIABLES
    now,        \* the clock of the consent
    token,      \* each consent: "none", "issued" or "spent"
    issuedAt,
    txAuth,     \* consents whose transaction authorization is unspent
    fetchAuth,  \* consents whose download authorization is unspent
    queue,      \* installations that wait for the root lock; the first one has it
    pc,         \* where the first one is
    redirects,  \* that its download has followed
    timers,     \* of its download
    aborted,    \* the stager's signal
    dir,        \* its staging directory
    archive,    \* content of runtime.tgz
    seen,       \* its identity is the one the download has reported
    flaw,       \* what is wrong with the content of the archive, then of the tree
    tree,       \* version of the extracted tree, 0 for none
    genuine,    \* it is what was extracted from the reviewed bytes
    attested,   \* the version that was attested
    probed,     \* history: the version that was run
    outcome,    \* of the last installation
    requests,   \* history: requests opened under each consent
    tampers, faults

consentVars == <<token, issuedAt, txAuth, fetchAuth>>
fileVars == <<dir, archive, seen, flaw, tree, genuine>>
stageVars == <<redirects, timers, attested, probed>>
vars == <<now, consentVars, queue, pc, aborted, stageVars, fileVars, outcome, requests, tampers, faults>>

Flaws == {"none", "header", "entry", "manifest", "binary", "version"}
StagePcs == {"idle", "recovering", "authorize", "capacity", "open", "hop", "answer", "streaming",
             "received", "fetched", "rehashed", "extracted", "unpacked", "attest", "probe",
             "reattest", "staged", "cleanup"}

TypeOK ==
    /\ now \in 0..MaxTime /\ issuedAt \in [Consent -> 0..MaxTime]
    /\ token \in [Consent -> {"none", "issued", "spent"}]
    /\ txAuth \subseteq Consent /\ fetchAuth \subseteq Consent
    /\ queue \in Seq(Consent) /\ Len(queue) <= Cardinality(Consent)
    /\ pc \in StagePcs /\ redirects \in 0..MaxRedirects
    /\ timers \subseteq {"overall", "connect", "idle"} /\ aborted \in BOOLEAN
    /\ dir \in {"absent", "mine", "replaced", "litter", "quarantined"}
    /\ archive \in {"none", "partial", "reviewed", "other"} /\ seen \in BOOLEAN
    /\ flaw \in Flaws /\ tree \in 0..(MaxTampers + 1) /\ genuine \in BOOLEAN
    /\ attested \in 0..(MaxTampers + 1) /\ probed \in 0..(MaxTampers + 1)
    /\ outcome \in {"none", "published", "failed"}
    /\ tampers \in 0..MaxTampers /\ faults \in 0..MaxFaults

Init ==
    /\ now = 0 /\ issuedAt = [c \in Consent |-> 0]
    /\ token = [c \in Consent |-> "none"] /\ txAuth = {} /\ fetchAuth = {}
    /\ queue = <<>> /\ pc = "idle" /\ aborted = FALSE
    /\ redirects = 0 /\ timers = {} /\ attested = 0 /\ probed = 0
    /\ dir = "absent" /\ archive = "none" /\ seen = FALSE
    /\ flaw = "none" /\ tree = 0 /\ genuine = FALSE
    /\ outcome = "none" /\ requests = [c \in Consent |-> 0]
    /\ tampers = 0 /\ faults = 0

-----------------------------------------------------------------------------
(* Consent                                                                 *)

Current == Head(queue)
Live(c) == issuedAt[c] <= now /\ now < issuedAt[c] + Lifetime

Tick ==
    /\ now < MaxTime /\ now' = now + 1
    /\ UNCHANGED <<consentVars, queue, pc, aborted, stageVars, fileVars, outcome, requests, tampers, faults>>

\* The user is shown what would be installed and confirms it.
Issue(c) ==
    /\ token[c] = "none"
    /\ token' = [token EXCEPT ![c] = "issued"] /\ issuedAt' = [issuedAt EXCEPT ![c] = now]
    /\ UNCHANGED <<now, txAuth, fetchAuth, queue, pc, aborted, stageVars, fileVars, outcome,
                   requests, tampers, faults>>

\* The token is deleted before its age is looked at.
Spends(c) == token' = [token EXCEPT ![c] = "spent"]

\* install(): the token becomes two authorizations and a place in the lock's queue.
Consume(c) ==
    /\ token[c] = "issued" /\ Len(queue) < Cardinality(Consent)
    /\ Spends(c)
    /\ IF Live(c)
       THEN /\ txAuth' = txAuth \cup {c} /\ fetchAuth' = fetchAuth \cup {c}
            /\ queue' = Append(queue, c)
       ELSE UNCHANGED <<txAuth, fetchAuth, queue>>
    /\ UNCHANGED <<now, issuedAt, pc, aborted, stageVars, fileVars, outcome, requests, tampers, faults>>

-----------------------------------------------------------------------------
(* The installation that has the lock                                      *)

Goes(label) == pc' = label /\ UNCHANGED <<queue, outcome>>
Known == <<stageVars, archive, seen, flaw, tree, genuine>>   \* what is known of a staging

Forgets ==
    /\ redirects' = 0 /\ timers' = {} /\ attested' = 0 /\ probed' = 0
    /\ archive' = "none" /\ seen' = FALSE /\ flaw' = "none" /\ tree' = 0 /\ genuine' = FALSE

ReleasesIfPublished(o) ==
    /\ queue' = IF o = "published" THEN Tail(queue) ELSE queue
    /\ pc' = "idle" /\ outcome' = o /\ Forgets

\* The lock is released whatever the outcome is.
Releases(o) == queue' = Tail(queue) /\ pc' = "idle" /\ outcome' = o /\ Forgets

Keeps == UNCHANGED <<now, aborted, tampers>>
KeepsConsent == UNCHANGED consentVars
Works == UNCHANGED faults
Fault == faults < MaxFaults /\ faults' = faults + 1

\* The transaction is authorized when the lock is held, which may be much later.
Enter ==
    /\ pc = "idle" /\ queue # <<>>
    /\ txAuth' = txAuth \ {Current} /\ dir' = "absent"
    /\ IF Current \in txAuth /\ Live(Current)
       THEN pc' = "recovering" /\ outcome' = "none" /\ UNCHANGED <<queue, Known>>
       ELSE Releases("failed")
    /\ Keeps /\ Works /\ UNCHANGED <<token, issuedAt, fetchAuth, requests>>

\* The store recovers what an earlier installation has left.
Recover ==
    /\ pc = "recovering"
    /\ \/ Goes("authorize") /\ UNCHANGED Known /\ Works
       \/ Releases("failed") /\ Fault
    /\ Keeps /\ KeepsConsent /\ UNCHANGED <<dir, requests>>

\* The root is created and the download authorization turned into a capability.
RootIsSafe == UNCHANGED faults
Authorize ==
    /\ pc = "authorize"
    /\ \/ /\ RootIsSafe
          /\ fetchAuth' = fetchAuth \ {Current}
          /\ IF Current \in fetchAuth /\ Live(Current)
             THEN Goes("capacity") /\ UNCHANGED Known
             ELSE Releases("failed")
       \/ Fault /\ UNCHANGED fetchAuth /\ Releases("failed")
    /\ Keeps /\ UNCHANGED <<token, issuedAt, txAuth, dir, requests>>

\* Without enough space there is no directory yet.  One that was made but could not
\* be looked at is not cleaned up here.
MakeStaging ==
    /\ pc = "capacity"
    /\ \/ dir' = "mine" /\ Goes("open") /\ UNCHANGED Known /\ Works
       \/ dir' \in {"absent", "litter"} /\ Releases("failed") /\ Fault
    /\ Keeps /\ KeepsConsent /\ UNCHANGED requests

-----------------------------------------------------------------------------
(* The download                                                            *)

Fetching == pc \in {"hop", "answer", "streaming", "received"}

\* The download ends badly: what it has written is removed, and the directory goes.
FetchFails ==
    /\ timers' = {} /\ archive' = "none" /\ seen' = FALSE
    /\ Goes("cleanup")
    /\ UNCHANGED <<redirects, attested, probed, dir, flaw, tree, genuine>>

\* The capability is spent, the lease looked at, the file created exclusively.
ContextMatches == dir = "mine"
OpenDestination ==
    /\ pc = "open"
    /\ IF ContextMatches /\ Live(Current)
       THEN /\ Goes("hop") /\ timers' = {"overall"} /\ archive' = "partial"
            /\ UNCHANGED <<redirects, attested, probed, dir, seen, flaw, tree, genuine>>
       ELSE FetchFails
    /\ Keeps /\ KeepsConsent /\ Works /\ UNCHANGED requests

MayRequestOnce == TRUE

\* The lease is looked at again before every request.
MayRequest == Live(Current)

OpenRequest ==
    /\ pc = "hop"
    /\ IF MayRequest
       THEN /\ requests' = [requests EXCEPT ![Current] = @ + 1]
            /\ timers' = timers \cup {"connect"} /\ Goes("answer")
            /\ UNCHANGED <<redirects, attested, probed, fileVars>>
       ELSE FetchFails /\ UNCHANGED requests
    /\ Keeps /\ KeepsConsent /\ Works

\* A redirect must stay at the registry, be new, and not be one too many.
RedirectAllowed(target) == target = "registry" /\ redirects < MaxRedirects
LengthMatches(length) == length \in {"absent", "exact"}

Answer ==
    /\ pc = "answer"
    /\ \/ \E target \in {"registry", "visited", "elsewhere"} :
             IF RedirectAllowed(target)
             THEN /\ redirects' = redirects + 1 /\ timers' = timers \ {"connect"} /\ Goes("hop")
                  /\ UNCHANGED <<attested, probed, fileVars>>
             ELSE FetchFails
       \/ \E length \in {"absent", "exact", "other"} :
             IF LengthMatches(length)
             THEN /\ timers' = (timers \ {"connect"}) \cup {"idle"} /\ Goes("streaming")
                  /\ UNCHANGED <<redirects, attested, probed, fileVars>>
             ELSE FetchFails
    /\ Keeps /\ KeepsConsent /\ Works /\ UNCHANGED requests

\* The bytes are counted and hashed as they come; the release itself may be flawed.
Verified(bytes) == bytes = "reviewed"
Stream ==
    /\ pc = "streaming"
    /\ \E bytes \in {"reviewed", "other"} :
          IF Verified(bytes)
          THEN /\ archive' = (IF archive = "partial" THEN "reviewed" ELSE archive)
               /\ flaw' \in Flaws
               /\ timers' = timers \ {"idle"} /\ Goes("received")
               /\ UNCHANGED <<redirects, attested, probed, dir, seen, tree, genuine>>
          ELSE FetchFails
    /\ Keeps /\ KeepsConsent /\ Works /\ UNCHANGED requests

\* The file is synced and its identity taken; the name must still lead to it.
CloseDownload ==
    /\ pc = "received"
    /\ \/ /\ dir = "mine"
          /\ seen' = TRUE /\ timers' = {} /\ Goes("fetched") /\ Works
          /\ UNCHANGED <<redirects, attested, probed, dir, archive, flaw, tree, genuine>>
       \/ FetchFails /\ (dir = "mine" => Fault) /\ (dir # "mine" => Works)
    /\ Keeps /\ KeepsConsent /\ UNCHANGED requests

\* Whichever timer fires first ends the download; so does the signal.
FetchEnds(t) ==
    /\ Fetching /\ t \in timers
    /\ FetchFails
    /\ Keeps /\ KeepsConsent /\ Works /\ UNCHANGED requests
FetchAborts ==
    /\ Fetching /\ aborted
    /\ FetchFails
    /\ Keeps /\ KeepsConsent /\ Works /\ UNCHANGED requests

-----------------------------------------------------------------------------
(* Extraction, probe and attestation                                       *)

StageFails == Goes("cleanup")
BoundaryHolds == dir = "mine"

\* A step of the stager: it fails if the directory was replaced or the check fails.
Proceeds(at, next, check) ==
    /\ pc = at
    /\ IF BoundaryHolds /\ check THEN Goes(next) ELSE StageFails
    /\ Keeps /\ KeepsConsent /\ Works /\ UNCHANGED <<redirects, timers, requests, flaw, dir>>

ArchiveIsReported == archive # "none" /\ seen

\* The downloaded file is opened and hashed once more.
Rehashed == ArchiveIsReported /\ archive = "reviewed" /\ ~aborted
Rehash ==
    /\ Proceeds("fetched", "rehashed", Rehashed)
    /\ UNCHANGED <<archive, seen, tree, genuine, attested, probed>>

\* What the extractor does not accept: other tar headers, paths, types, counts.
HeadersAreCanonical == flaw # "header"
EntriesAreSafe == flaw # "entry"
Extract ==
    /\ Proceeds("rehashed", "extracted", HeadersAreCanonical /\ EntriesAreSafe)
    /\ tree' = 1 /\ genuine' = (archive = "reviewed")
    /\ UNCHANGED <<archive, seen, attested, probed>>

\* The archive must be the same after its extraction; then it is deleted.
VerifyArchive ==
    /\ Proceeds("extracted", "unpacked", ArchiveIsReported)
    /\ archive' = "none" /\ seen' = FALSE
    /\ UNCHANGED <<tree, genuine, attested, probed>>

ManifestMatches == flaw # "manifest"
BinaryMatches == flaw # "binary"
CheckLayout ==
    /\ Proceeds("unpacked", "attest", ManifestMatches /\ BinaryMatches)
    /\ UNCHANGED <<archive, seen, tree, genuine, attested, probed>>

\* Every file is hashed and identified; links and too many entries are refused.  Whatever the
\* tree is now becomes what the later attestations are compared with.
Attest ==
    /\ Proceeds("attest", "probe", EntriesAreSafe)
    /\ attested' = tree
    /\ UNCHANGED <<archive, seen, tree, genuine, probed>>

\* The staged program runs; its probe is bounded and follows the signal.
Probe ==
    /\ Proceeds("probe", "reattest", flaw # "version" /\ ~aborted)
    /\ probed' = tree
    /\ UNCHANGED <<archive, seen, tree, genuine, attested>>

SameTree == attested = tree
Reattest ==
    /\ Proceeds("reattest", "staged", SameTree)
    /\ UNCHANGED <<archive, seen, tree, genuine, attested, probed>>

\* publish() takes the staged runtime once, and looks at all of it again.
Revalidates == BoundaryHolds /\ SameTree
Publish ==
    /\ pc = "staged"
    /\ IF Revalidates
       THEN Releases("published") /\ UNCHANGED dir
       ELSE Releases("failed") /\ dir' = "absent"
    /\ Keeps /\ KeepsConsent /\ Works /\ UNCHANGED requests

\* The directory is renamed and deleted.  A foreign one is left where it was put.
Cleans ==
    \/ dir = "mine" /\ dir' = "absent" /\ Works
    \/ dir = "replaced" /\ dir' = "quarantined" /\ Works
    \/ dir' \in {"litter", "quarantined"} /\ Fault
Cleanup ==
    /\ pc = "cleanup"
    /\ Cleans /\ Releases("failed")
    /\ Keeps /\ KeepsConsent /\ UNCHANGED requests

-----------------------------------------------------------------------------
(* The environment                                                         *)

Abort ==
    /\ ~aborted /\ aborted' = TRUE
    /\ UNCHANGED <<now, consentVars, queue, pc, stageVars, fileVars, outcome, requests, tampers, faults>>

\* Another program changes the archive or the tree, or puts a directory of its own there.
TreeFlaws == Flaws \ {"header"}
TampersArchive ==
    /\ archive # "none" /\ archive' = "other" /\ seen' = FALSE
    /\ UNCHANGED <<dir, tree, genuine, flaw>>
TampersTree ==
    /\ tree # 0 /\ tree' = tree + 1 /\ genuine' = FALSE /\ flaw' \in TreeFlaws
    /\ UNCHANGED <<dir, archive, seen>>
Tamper ==
    /\ tampers < MaxTampers /\ tampers' = tampers + 1 /\ dir = "mine" /\ pc # "idle"
    /\ \/ TampersArchive \/ TampersTree
       \/ dir' = "replaced" /\ UNCHANGED <<archive, seen, tree, genuine, flaw>>
    /\ UNCHANGED <<now, consentVars, queue, pc, aborted, stageVars, outcome, requests, faults>>

Step ==
    \/ Enter \/ Recover \/ Authorize \/ MakeStaging
    \/ OpenDestination \/ OpenRequest \/ CloseDownload
    \/ \E t \in {"overall", "connect", "idle"} : FetchEnds(t)
    \/ FetchAborts
    \/ Rehash \/ Extract \/ VerifyArchive \/ CheckLayout \/ Attest \/ Probe \/ Reattest
    \/ Publish \/ Cleanup

Next ==
    \/ Step \/ Answer \/ Stream
    \/ \E c \in Consent : Issue(c) \/ Consume(c)
    \/ Tick \/ Abort \/ Tamper

\* Timers fire, file operations and the bounded probe end; the registry need not answer.
Fairness == WF_vars(Step)
Spec == Init /\ [][Next]_vars /\ Fairness

-----------------------------------------------------------------------------
(* Properties                                                              *)

\* What is published is the tree that was attested and that the probe has run: no change after
\* the first attestation is, and no unsafe entry or other version.  If nobody changed the tree
\* after its extraction, it is what the reviewed bytes held, without a flaw, whatever happened
\* to the archive.  A change between extraction and first attestation is not noticed.
PublishedIsAttested ==
    [][pc = "staged" /\ pc' = "idle" /\ outcome' = "published" =>
          /\ tree = attested /\ tree = probed /\ flaw \notin {"header", "entry", "version"}
          /\ tree = 1 => genuine /\ flaw = "none"]_vars

\* A request is opened only while the consent it belongs to lives, after that consent
\* was spent, and a consent never pays for more than one chain of redirects.
RequestsAreConsented ==
    [][\A c \in Consent : requests'[c] # requests[c] =>
          /\ Live(c) /\ token[c] = "spent" /\ c = Current
          /\ requests'[c] <= MaxRedirects + 1]_vars

\* A failed staging leaves nothing behind unless a file operation failed or another
\* program put its own directory there.
FailureIsClean ==
    /\ outcome = "failed" /\ pc = "idle" /\ faults = 0 => dir \in {"absent", "quarantined"}
    /\ dir = "quarantined" => tampers + faults > 0
=============================================================================
