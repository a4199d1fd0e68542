-------------------------- MODULE ManagedInstaller --------------------------
(***************************************************************************)
(* An installation of a managed runtime (ride-codex-managed-installer.ts)  *)
(* on top of the store: recover, stage, publish, activate, handshake and   *)
(* finalize under the root lock, with the way back from each of them, and  *)
(* a reader, the runtime resolver, that takes no lock.                     *)
(*                                                                         *)
(* Attempt t stages tree t.  A crash may come between any two steps; the   *)
(* next attempt begins with the recovery.                                  *)
(***************************************************************************)
EXTENDS RuntimeStore

VARIABLES
    ip,         \* where the installation is
    attempt,    \* the tree of this installation, 0 before the first
    previous,   \* the runtime that was active when it was published
    outcome,    \* what the last installation reported
    verified,   \* history: runtimes whose handshake was completed
    ready,      \* history: the last runtime that was reported ready
    rd,         \* the pointer the reader has read, {} when it has read none
    served      \* what the reader was given last, 0 for none

installVars == <<ip, attempt, previous, outcome, verified, ready>>
readVars == <<rd, served>>
vars == <<storeVars, installVars, readVars>>

InstallPcs == {"idle", "recovering", "staging", "reading", "publishing", "activating",
               "discarding", "cleaning", "handshake", "finalizing", "restoring"}
Outcomes == {"none", "ready", "failed", "recoveryRequired", "rolledBack", "rollbackFailed"}

InstallTypeOK ==
    /\ ip \in InstallPcs /\ attempt \in Tree \cup {0} /\ previous \in Tree \cup {0}
    /\ outcome \in Outcomes
    /\ verified \subseteq Tree /\ ready \in Tree \cup {0}
    /\ rd \subseteq Tree \cup {0} /\ served \in Tree \cup {0}

\* The variables keep their types (every assignment of the two classes).
TypeOK == StoreTypeOK /\ InstallTypeOK

Init ==
    /\ StoreInit
    /\ ip = "idle" /\ attempt = 0 /\ previous = 0 /\ outcome = "none"
    /\ verified = {} /\ ready = 0
    /\ rd = {} /\ served = 0

-----------------------------------------------------------------------------
(* The transaction                                                         *)

\* The installer calls an operation of the store and waits for it.
Calls(o) == op' = o /\ pc' = o /\ result' = "none"
Keeps == UNCHANGED <<diskVars, refused, faults, outside>>
Idles == op' = "none" /\ pc' = "idle" /\ UNCHANGED result
Reports(o) == ip' = "idle" /\ outcome' = o

Returned(o, r) == op = o /\ pc = "returned" /\ result = r
KeepsCall == UNCHANGED <<proc, tx, from, then, cur>>
KeepsRecord == UNCHANGED <<attempt, previous, verified, ready>>

\* A consent token is spent and the root lock taken; first comes the recovery.
Install ==
    /\ ip = "idle" /\ attempt < MaxTrees
    /\ attempt' = attempt + 1 /\ previous' = 0 /\ outcome' = "none"
    /\ ip' = "recovering" /\ Calls("recover")
    /\ Keeps /\ KeepsCall /\ UNCHANGED <<verified, ready, readVars>>

\* The stager makes its directory; it is complete only at the end of stage().
Stage ==
    /\ ip = "recovering" /\ Returned("recover", "ok")
    /\ ip' = "staging" /\ place' = [place EXCEPT ![attempt] = "staging"]
    /\ Idles
    /\ KeepsCall /\ KeepsRecord
    /\ UNCHANGED <<active, journal, spent, whole, refused, faults, outside, outcome, readVars>>

Staged ==
    /\ ip = "staging"
    /\ ip' = "reading" /\ whole' = [whole EXCEPT ![attempt] = TRUE]
    /\ KeepsRecord
    /\ UNCHANGED <<active, journal, spent, place, op, pc, result, refused, faults, outside,
                   outcome, readVars>>
    /\ KeepsCall

\* Disk space, download, extraction or probe fail: the stager renames its directory
\* and deletes it.  One whose deletion fails keeps a name that recovery does not know.
StageFails ==
    /\ ip = "staging" /\ faults < MaxFaults /\ faults' = faults + 1
    /\ \E where \in {"absent", "orphan"} : place' = [place EXCEPT ![attempt] = where]
    /\ Reports("failed")
    /\ KeepsCall /\ KeepsRecord
    /\ UNCHANGED <<active, journal, spent, whole, op, pc, result, refused, outside, readVars>>

\* The runtime that is active now is the one to return to.
ReadPrevious ==
    /\ ip = "reading"
    /\ IF CommittedView = {}
       THEN ip' = "cleaning" /\ Calls("recover") /\ UNCHANGED <<previous, cur>>
       ELSE /\ previous' \in CommittedView
            /\ ip' = "publishing" /\ Calls("publish") /\ cur' = attempt
    /\ Keeps /\ UNCHANGED <<proc, tx, from, then, attempt, outcome, verified, ready, readVars>>

\* publish and activate follow each other.
Continue(at, o, next, nextOp) ==
    /\ ip = at /\ Returned(o, "ok")
    /\ ip' = next /\ Calls(nextOp)
    /\ Keeps /\ KeepsCall /\ KeepsRecord /\ UNCHANGED <<outcome, readVars>>
Activate == Continue("publishing", "publish", "activating", "activate")

\* The way back: a staged runtime is swept, a published one discarded or recovered.
Retreat(at, o, next, nextOp) ==
    /\ ip = at /\ Returned(o, "failed")
    /\ ip' = next /\ Calls(nextOp)
    /\ Keeps /\ KeepsCall /\ KeepsRecord /\ UNCHANGED <<outcome, readVars>>
PublishFailed == Retreat("publishing", "publish", "cleaning", "recover")
ActivateFailed == Retreat("activating", "activate", "discarding", "discard")
DiscardFailed == Retreat("discarding", "discard", "cleaning", "recover")

Fails(at, o, r, report) ==
    /\ ip = at /\ Returned(o, r)
    /\ Reports(report) /\ Idles
    /\ Keeps /\ KeepsCall /\ KeepsRecord /\ UNCHANGED readVars
InstallFailed ==
    \/ Fails("recovering", "recover", "failed", "failed")
    \/ Fails("cleaning", "recover", "ok", "failed")
    \/ Fails("cleaning", "recover", "failed", "recoveryRequired")

\* completeHandshake: the candidate is started; only now may it be finalized.
Handshake ==
    /\ ip = "activating" /\ Returned("activate", "ok")
    /\ \/ /\ verified' = verified \cup {attempt}
          /\ ip' = "finalizing" /\ Calls("finalize")
       \/ /\ UNCHANGED verified
          /\ ip' = "restoring" /\ Calls("restore")
    /\ Keeps /\ KeepsCall /\ UNCHANGED <<attempt, previous, outcome, ready, readVars>>
FinalizeFailed == Retreat("finalizing", "finalize", "restoring", "restore")
RestoreEndsIfDone == Fails("restoring", "restore", "ok", "rolledBack")

RestoreEnds ==
    \/ Fails("restoring", "restore", "ok", "rolledBack")
    \/ Fails("restoring", "restore", "failed", "rollbackFailed")

Ready ==
    /\ ip = "finalizing" /\ Returned("finalize", "ok")
    /\ Reports("ready") /\ Idles
    /\ ready' = attempt
    /\ Keeps /\ KeepsCall /\ UNCHANGED <<attempt, previous, verified, readVars>>

-----------------------------------------------------------------------------
(* The reader and the operating system                                     *)

\* The resolver reads the pointer, then the journal.
ReaderReadsPointer ==
    /\ rd = {} /\ rd' = {active}
    /\ UNCHANGED <<storeVars, installVars, served>>
ReaderReadsJournal ==
    /\ \E p \in rd : IF ReadView(p) = {} THEN UNCHANGED served ELSE served' \in ReadView(p)
    /\ rd' = {}
    /\ UNCHANGED <<storeVars, installVars>>

Crash ==
    /\ ip # "idle" /\ StoreCrash
    /\ ip' = "idle" /\ outcome' = "none" /\ previous' = 0
    /\ rd' = {}
    /\ UNCHANGED <<attempt, verified, ready, served>>

StoreWorks ==
    /\ \/ \E t \in Tree : PublishIntent(t) \/ ReconcileQuarantines(t) \/ SweepDeletes(t)
       \/ PublishMove \/ PublishAwaits \/ ActivatePointer \/ ActivationProof \/ FinalizeIntent
       \/ FinishStarts \/ ReconcileDeletes \/ ReconcileDone \/ FinishProves
       \/ CommitJournal \/ CommitProves \/ DeleteCandidate \/ DeleteJournal
       \/ RollbackPointer \/ RollbackTree
       \/ RecoverReads \/ RecoverDispatches \/ RecoverPublishing \/ RecoverRechecks \/ RecoverDone
       \/ Restore(previous) \/ Discard
    /\ UNCHANGED <<installVars, readVars>>

InstallStep ==
    \/ Stage \/ Staged \/ StageFails \/ ReadPrevious \/ Activate
    \/ PublishFailed \/ ActivateFailed \/ DiscardFailed \/ InstallFailed
    \/ Handshake \/ FinalizeFailed \/ RestoreEnds \/ Ready

Next ==
    \/ Install \/ StoreWorks \/ InstallStep
    \/ ReaderReadsPointer \/ ReaderReadsJournal
    \/ Crash
    \/ \E t \in Tree : Damage(t) /\ UNCHANGED <<installVars, readVars>>

Spec == Init /\ [][Next]_vars

\* The event loop runs what is ready, and every file operation and handshake ends.
FairSpec == Spec /\ WF_vars(StoreWorks) /\ WF_vars(InstallStep)

-----------------------------------------------------------------------------
(* Properties                                                              *)

\* A reader is never given a runtime whose handshake was not completed, although it
\* reads the pointer and the journal at different times and takes no lock.
ServedIsVerified == served # 0 => served \in verified

\* Once a runtime was reported ready, whatever crashes or fails afterwards, an intact
\* runtime that is at least as new and whose handshake was completed is what
\* active.json points to or what an unfinished activation would return to.
ReadyIsKept ==
    ready # 0 /\ damages = 0 =>
        \E t \in verified : /\ t >= ready /\ Valid(t)
                            /\ t \in {active, journal.prev} \cup {j.prev : j \in spent}

\* What an installation reports is true: "ready" means that the new runtime is the
\* pointer's target and that every other one but the runtime of before is gone from
\* versions/ or could not be deleted, "rolledBack" that the runtime of before can be read.
OutcomeIsTrue ==
    /\ outcome = "ready" => \A t \in Tree : place[t] = "versions" => t \in {attempt, previous}
    /\ damages = 0 =>
        /\ outcome = "ready" => active = attempt /\ Valid(attempt) /\ attempt \in verified
        /\ outcome = "rolledBack" => CommittedView = {previous}

\* The process may die between any two changes of the disk, during a recovery too: as
\* long as no file operation fails, the next recovery never refuses what is there.
CrashesAreRecovered == refused /\ damages = 0 => faults > 0

\* Unless somebody else changed the files, recovery never refuses the state in which
\* its own code has left the disk.
RecoveryNeverRefuses == refused => damages > 0

\* Every installation comes to an end.
InstallSettles == ip # "idle" ~> ip = "idle"
=============================================================================
