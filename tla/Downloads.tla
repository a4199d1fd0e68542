------------------------------ MODULE Downloads ------------------------------
(***************************************************************************)
(* DownloadManager of download.rs: downloads that wait for a permit, are   *)
(* requested through checked redirects, are written to a part file of      *)
(* their own and then replace their target.  They may be cancelled at any  *)
(* time by another task; the cancellation is a flag read between chunks    *)
(* and a status that decides who else may write the same target.           *)
(***************************************************************************)
EXTENDS Naturals, FiniteSets

CONSTANTS Download, Target, MaxPermits, MaxRedirects, MaxChunks

VARIABLES
    unix,           \* the platform replaces a file in one step
    of,             \* the target of each download; "none" before it is accepted
    status, flag,   \* DownloadRecord
    pc, redirects,
    part,           \* the part file: "none", or how many chunks it holds
    file,           \* who wrote each target last; "absent" or "older" before
    early,          \* history: cancellations accepted while the flag was still to be read
    late,           \* history: those accepted between the last look at it and the report
    litter,         \* history: downloads whose part file could not be removed
    lost            \* history: targets removed although their replacement then failed

historyVars == <<early, late, litter, lost>>
vars == <<unix, of, status, flag, pc, redirects, part, file, historyVars>>

Terminal == {"completed", "failed", "canceled"}
NoPart == MaxChunks + 1
TypeOK ==
    /\ unix \in BOOLEAN /\ of \in [Download -> Target \cup {"none"}]
    /\ status \in [Download -> Terminal \cup {"none", "queued", "running", "canceling"}]
    /\ flag \in [Download -> BOOLEAN]
    /\ pc \in [Download -> {"none", "permit", "request", "file", "stream", "write", "flush",
                            "replace", "rename", "install", "report", "fail", "over"}]
    /\ redirects \in [Download -> 0..MaxRedirects]
    /\ part \in [Download -> 0..NoPart]
    /\ file \in [Target -> Download \cup {"absent", "older"}]
    /\ {early, late, litter} \subseteq SUBSET Download /\ lost \subseteq Target

Init ==
    /\ unix \in BOOLEAN /\ of = [d \in Download |-> "none"]
    /\ status = [d \in Download |-> "none"] /\ flag = [d \in Download |-> FALSE]
    /\ pc = [d \in Download |-> "none"] /\ redirects = [d \in Download |-> 0]
    /\ part = [d \in Download |-> NoPart] /\ file = [t \in Target |-> "older"]
    /\ early = {} /\ late = {} /\ litter = {} /\ lost = {}

Active(d) == status[d] \notin Terminal \cup {"none"}
Goes(d, p) == pc' = [pc EXCEPT ![d] = p]
-----------------------------------------------------------------------------
TargetIsFree(t) == \A e \in Download : of[e] = t => ~Active(e)

\* insert_task: one active record for each target.
Starts(d, t) ==
    /\ pc[d] = "none" /\ TargetIsFree(t)
    /\ of' = [of EXCEPT ![d] = t] /\ status' = [status EXCEPT ![d] = "queued"] /\ Goes(d, "permit")
    /\ UNCHANGED <<unix, flag, redirects, part, file, historyVars>>

CanceledStatus(d) == IF status[d] = "queued" THEN "canceled" ELSE "canceling"

\* cancel answers true; a queued download is over at once for everybody else.
Cancels(d) ==
    /\ Active(d) /\ flag' = [flag EXCEPT ![d] = TRUE]
    /\ status' = [status EXCEPT ![d] = CanceledStatus(d)]
    /\ early' = IF pc[d] \in {"permit", "request", "file", "stream", "write"}
                THEN early \cup {d} ELSE early
    /\ late' = IF pc[d] = "fail" THEN late \cup {d} ELSE late
    /\ UNCHANGED <<unix, of, pc, redirects, part, file, litter, lost>>

\* Whether the part file could be removed is not looked at.
RemovesPart(d) ==
    \/ part' = [part EXCEPT ![d] = NoPart] /\ UNCHANGED litter
    \/ part[d] # NoPart /\ litter' = litter \cup {d} /\ UNCHANGED part

\* cancel_task
EndsCanceled(d) ==
    /\ status' = [status EXCEPT ![d] = "canceled"] /\ RemovesPart(d) /\ Goes(d, "over")

\* The semaphore: the permit goes back when run_download returns.
HasPermit(d) == pc[d] \in {"request", "file", "stream", "write", "flush", "replace", "rename"}
GetsPermit(d) ==
    /\ pc[d] = "permit" /\ Cardinality({e \in Download : HasPermit(e)}) < MaxPermits
    /\ IF flag[d] THEN EndsCanceled(d) ELSE Goes(d, "request") /\ UNCHANGED <<status, part, litter>>
    /\ UNCHANGED <<unix, of, flag, redirects, file, early, late, lost>>

\* send_download_request: every hop is checked, and their number bounded; the answer's
\* declared length is held against the limit.
Redirected(d) ==
    /\ pc[d] = "request" /\ redirects[d] < MaxRedirects
    /\ redirects' = [redirects EXCEPT ![d] = @ + 1]
    /\ UNCHANGED <<unix, of, status, flag, pc, part, file, historyVars>>

\* Whatever cancel said meanwhile, the status is set to running.
Responds(d) ==
    /\ pc[d] = "request" /\ Goes(d, "file") /\ status' = [status EXCEPT ![d] = "running"]
    /\ UNCHANGED <<unix, of, flag, redirects, part, file, historyVars>>

CreatesFile(d) ==
    /\ pc[d] = "file" /\ Goes(d, "stream") /\ part' = [part EXCEPT ![d] = 0]
    /\ UNCHANGED <<unix, of, status, flag, redirects, file, historyVars>>

IsCancelled(d) == flag[d]

\* A chunk, or the end of the stream: the flag is read before either is used.
Streams(d) ==
    /\ pc[d] = "stream"
    /\ IF IsCancelled(d) THEN EndsCanceled(d)
       ELSE /\ pc' \in {[pc EXCEPT ![d] = p] : p \in IF part[d] < MaxChunks THEN {"write", "flush"} ELSE {"flush"}}
            /\ UNCHANGED <<status, part, litter>>
    /\ UNCHANGED <<unix, of, flag, redirects, file, early, late, lost>>

Writes(d) ==
    /\ pc[d] = "write" /\ Goes(d, "stream") /\ part' = [part EXCEPT ![d] = @ + 1]
    /\ UNCHANGED <<unix, of, status, flag, redirects, file, historyVars>>

Flushes(d) ==
    /\ pc[d] = "flush" /\ Goes(d, "replace")
    /\ UNCHANGED <<unix, of, status, flag, redirects, part, file, historyVars>>

\* replace_completed_download: outside Unix the old file is removed first.
Removes(d) ==
    /\ pc[d] = "replace" /\ Goes(d, "rename")
    /\ file' = IF unix THEN file ELSE [file EXCEPT ![of[d]] = "absent"]
    /\ UNCHANGED <<unix, of, status, flag, redirects, part, historyVars>>

\* A plugin is then installed from the target.
Completes(d) ==
    /\ pc[d] = "rename" /\ file' = [file EXCEPT ![of[d]] = d]
    /\ part' = [part EXCEPT ![d] = NoPart] /\ status' = [status EXCEPT ![d] = "completed"]
    /\ (Goes(d, "over") \/ Goes(d, "install"))
    /\ UNCHANGED <<unix, of, flag, redirects, historyVars>>

\* install_plugin_archive, a module of its own, may fail.
Installs(d) ==
    /\ pc[d] = "install" /\ (Goes(d, "over") \/ Goes(d, "report"))
    /\ UNCHANGED <<unix, of, status, flag, redirects, part, file, historyVars>>

\* Any of these may fail: the part file goes, and the error is returned.
Fails(d) ==
    /\ HasPermit(d) /\ Goes(d, "report") /\ RemovesPart(d)
    /\ lost' = IF pc[d] = "rename" /\ ~unix THEN lost \cup {of[d]} ELSE lost
    /\ UNCHANGED <<unix, of, status, flag, redirects, file, early, late>>

MayFail(d) == status[d] \notin {"canceling", "canceled"} /\ ~flag[d]

\* fail_task_unless_canceled looks under one lock of the records and writes under another.
Reports(d) ==
    /\ pc[d] = "report" /\ Goes(d, IF MayFail(d) THEN "fail" ELSE "over")
    /\ UNCHANGED <<unix, of, status, flag, redirects, part, file, historyVars>>
FailsTask(d) ==
    /\ pc[d] = "fail" /\ Goes(d, "over") /\ status' = [status EXCEPT ![d] = "failed"]
    /\ UNCHANGED <<unix, of, flag, redirects, part, file, historyVars>>

Step(d) ==
    \/ GetsPermit(d) \/ Redirected(d) \/ Responds(d) \/ CreatesFile(d) \/ Streams(d) \/ Writes(d)
    \/ Flushes(d) \/ Removes(d) \/ Completes(d) \/ Installs(d) \/ Fails(d)
    \/ Reports(d) \/ FailsTask(d)
Next ==
    \/ \E d \in Download, t \in Target : Starts(d, t)
    \/ \E d \in Download : Cancels(d) \/ Step(d)

Spec == Init /\ [][Next]_vars /\ \A d \in Download : WF_vars(Step(d))
-----------------------------------------------------------------------------
\* No two downloads reach the replacing of the same target, although a cancelled one frees it
\* while it still runs; what ended leaves no part file unless its removal failed; a target
\* lost its old content only to its replacement, or where replacing takes two steps; a
\* download cancelled while it still reads its flag never replaces its target, and an accepted
\* cancellation is shown as a failure only if it came after the last look at it.
TargetsAreWhole ==
    /\ \A d, e \in Download :
         d # e /\ of[d] = of[e] => ~({pc[d], pc[e]} \subseteq {"flush", "replace", "rename"})
    /\ \A d \in Download : pc[d] \in {"install", "report", "fail", "over"} =>
           part[d] = NoPart \/ d \in litter
    /\ unix => lost = {} /\ \A t \in Target : file[t] # "absent"
    /\ \A t \in Target : file[t] \notin early
    /\ \A d \in Download : status[d] = "failed" /\ flag[d] => d \in late

\* What has begun and must end, for its observers too: a download.  Only one that was
\* cancelled and then failed before it read its flag may stay as it was for ever.
Duties ==
    << \E d \in Download :
         /\ pc[d] # "none" /\ status[d] \notin Terminal /\ ~(pc[d] = "over" /\ flag[d]) >>
=============================================================================
