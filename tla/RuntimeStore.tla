---------------------------- MODULE RuntimeStore ----------------------------
(***************************************************************************)
(* The store of managed Codex runtimes on disk                             *)
(* (ride-codex-runtime-store.ts): a pointer to the active runtime, a       *)
(* journal of the activation under way, and directories of runtimes that   *)
(* move between staging, versions/ and quarantine.                         *)
(*                                                                         *)
(* A step is one change of the disk with the checks before it.  Between    *)
(* two steps the process may die, and every change may fail before or      *)
(* after it took effect (a sharing violation, a failed directory sync).    *)
(* A Tree is one staged runtime; its index also names its transaction, as  *)
(* a staged runtime is published once.  The in-memory copies of the        *)
(* journal are always equal to the file, since the root lock admits one    *)
(* transaction: the comparisons of the code are not repeated here.         *)
(***************************************************************************)
EXTENDS Naturals, FiniteSets

CONSTANTS
    MaxTrees,      \* runtimes that are ever staged
    PathOf,        \* the directory name of a tree: version, target and digest
    MaxFaults,     \* file operations that fail
    MaxCrashes,    \* processes that die
    MaxDamage      \* trees that somebody changes behind the store's back

ASSUME StoreAssumption ==
    MaxTrees \in Nat /\ MaxFaults \in Nat /\ MaxCrashes \in Nat /\ MaxDamage \in Nat

Tree == 1..MaxTrees

Journal == [phase : {"publishing", "awaiting", "finalizing"},
            cand : Tree, prev : Tree \cup {0}, keep : BOOLEAN]
NoJournal == [phase |-> "none", cand |-> 0, prev |-> 0, keep |-> FALSE]

VARIABLES
    active,     \* active.json: the tree it points to, 0 when it is missing
    journal,    \* pending-activation.json
    spent,      \* journals moved to .install-quarantine-pending-<transaction>
    place,      \* the directory of each tree
    whole,      \* the tree still is what was attested
    op,         \* the store operation in progress
    pc,         \* where it is
    proc,       \* the procedure whose journal is being committed
    tx,         \* the journal as the operation read it
    from,       \* recovery found the journal "pending" or "spent"
    then,       \* what a completed rollback makes of the operation
    cur,        \* the obsolete tree being deleted
    result,     \* of the last operation
    refused,    \* a recovery found the disk inconsistent
    faults,     \* history: file operations that failed
    crashes,    \* history: processes that died
    damages     \* history: changes by somebody else

diskVars == <<active, journal, spent, place, whole>>
callVars == <<op, proc, tx, from, then, cur>>
storeVars == <<diskVars, callVars, pc, result, refused, faults, crashes, damages>>
outside == <<crashes, damages>>   \* what the store has no part in

Places == {"absent", "staging", "versions", "publishing", "candidate", "trash", "orphan"}
Litter == {"staging", "publishing", "candidate", "trash"}
Ops == {"none", "recover", "publish", "activate", "finalize", "restore", "discard"}
Pcs == {"idle", "returned", "publish", "move", "await", "activate", "activated", "finalize",
        "finish", "reconcile", "deleteObsolete", "reconciled", "commit", "committed",
        "deleteTree", "deleteJournal", "rollback", "rollbackTree", "recover", "dispatch",
        "publishing", "recheck", "sweep", "restore", "discard"}

DiskTypeOK ==
    /\ active \in Tree \cup {0}
    /\ journal \in Journal \cup {NoJournal} /\ spent \subseteq Journal
    /\ place \in [Tree -> Places] /\ whole \in [Tree -> BOOLEAN]
CallTypeOK ==
    /\ op \in Ops /\ pc \in Pcs /\ tx \in Journal \cup {NoJournal}
    /\ proc \in {"none", "finish", "rollback", "publishing"}
    /\ from \in {"pending", "spent"} /\ then \in {"ok", "failed"}
    /\ cur \in Tree \cup {0}
    /\ result \in {"none", "ok", "failed"} /\ refused \in BOOLEAN
CountTypeOK ==
    /\ faults \in 0..MaxFaults /\ crashes \in 0..MaxCrashes /\ damages \in 0..MaxDamage
StoreTypeOK == DiskTypeOK /\ CallTypeOK /\ CountTypeOK

StoreInit ==
    /\ active = 0 /\ journal = NoJournal /\ spent = {}
    /\ place = [t \in Tree |-> "absent"] /\ whole = [t \in Tree |-> FALSE]
    /\ op = "none" /\ pc = "idle" /\ proc = "none" /\ tx = NoJournal
    /\ from = "pending" /\ then = "ok" /\ cur = 0
    /\ result = "none" /\ refused = FALSE /\ faults = 0 /\ crashes = 0 /\ damages = 0

-----------------------------------------------------------------------------
(* What the code validates                                                 *)

\* The directory is in place, is the same object and has the attested tree.
Valid(t) == place[t] = "versions" /\ whole[t]
PreviousValid(j) == j.prev = 0 \/ Valid(j.prev)

\* The pointer and the runtime behind it are those of before the transaction.
CommittedPrevious(j) == active = j.prev /\ PreviousValid(j)

\* The candidate is what active.json points to, and it is intact.
HandshakeCandidate(j) == active = j.cand /\ Valid(j.cand)
CommitState(j) == HandshakeCandidate(j) /\ (j.keep => PreviousValid(j))

\* The proof that is repeated before and after the journal is moved away.
FinalStateProof(j) == IF proc = "finish" THEN CommitState(j) ELSE CommittedPrevious(j)

ReadPointerOnly(p) == IF p = 0 \/ Valid(p) THEN {p} ELSE {}

\* readActiveRuntime, for the pointer p it has read: an activation under way does
\* not count yet.  The empty set stands for an error.
ReadView(p) ==
    IF journal = NoJournal
    THEN IF p = 0 \/ Valid(p) THEN {p} ELSE {}
    ELSE IF journal.phase = "publishing"
    THEN IF p = journal.prev /\ PreviousValid(journal) THEN {journal.prev} ELSE {}
    ELSE IF Valid(journal.cand) /\ p \in {journal.cand, journal.prev} /\ PreviousValid(journal)
    THEN {journal.prev} ELSE {}
CommittedView == ReadView(active)

-----------------------------------------------------------------------------
(* One change of the disk, or its failure                                  *)

Works == UNCHANGED faults
Fault == faults < MaxFaults /\ faults' = faults + 1

\* The operation is over: with this result.
Returns(r) == pc' = "returned" /\ result' = r

\* A procedure that recovery shares with the other operations is over.  An error
\* of the finalization of a spent journal is looked at once more.
Ends(r) ==
    CASE op # "recover" -> Returns(r)
      [] op = "recover" /\ r = "ok" -> pc' = "sweep" /\ UNCHANGED result
      [] op = "recover" /\ r = "failed" ->
             IF from = "spent" /\ (proc = "finish" \/ then = "failed")
             THEN pc' = "recheck" /\ UNCHANGED result
             ELSE Returns("failed")

Goes(label) == pc' = label /\ UNCHANGED result

\* A journal is written to a temporary file, synced and renamed: all or nothing.
WritesJournal(j) == journal' = j /\ UNCHANGED <<active, spent, place, whole>>
PointsTo(t) == active' = t /\ UNCHANGED <<journal, spent, place, whole>>
Moves(t, where) == place' = [place EXCEPT ![t] = where] /\ UNCHANGED <<active, journal, spent, whole>>

\* The journal leaves its place, or returns to it.
MovesJournal(j) == journal' = NoJournal /\ spent' = spent \cup {j} /\ UNCHANGED <<active, place, whole>>
RestoresJournal(j) == journal' = j /\ spent' = spent \ {j} /\ UNCHANGED <<active, place, whole>>

-----------------------------------------------------------------------------
(* publish, activate and finalizeActivation                                *)

\* publish: the journal is the first thing written.  A pending activation, a
\* damaged active runtime, a changed tree or a taken name refuse it.
PublishIntent(t) ==
    /\ pc = "publish" /\ cur = t
    /\ IF \/ journal # NoJournal
          \/ active # 0 /\ ~Valid(active)
          \/ place[t] # "staging" \/ ~whole[t]
          \/ \E u \in Tree : place[u] = "versions" /\ PathOf[u] = PathOf[t]
       THEN Returns("failed") /\ UNCHANGED <<diskVars, tx, faults>>
       ELSE LET j == [phase |-> "publishing", cand |-> t, prev |-> active, keep |-> TRUE] IN
            \/ WritesJournal(j) /\ tx' = j /\ Goes("move") /\ Works
            \/ (WritesJournal(j) \/ UNCHANGED diskVars) /\ UNCHANGED tx /\ Returns("failed") /\ Fault
    /\ UNCHANGED <<op, proc, from, then, cur, refused, outside>>

\* The staged directory becomes a version, then the journal says so.
PublishMove ==
    /\ pc = "move"
    /\ \/ Moves(tx.cand, "versions") /\ Goes("await") /\ Works
       \/ (Moves(tx.cand, "versions") \/ UNCHANGED diskVars) /\ Returns("failed") /\ Fault
    /\ UNCHANGED <<callVars, refused, outside>>

PublishAwaits ==
    /\ pc = "await"
    /\ LET j == [tx EXCEPT !.phase = "awaiting"] IN
       \/ WritesJournal(j) /\ tx' = j /\ Returns("ok") /\ Works
       \/ (WritesJournal(j) \/ UNCHANGED diskVars) /\ UNCHANGED tx /\ Returns("failed") /\ Fault
    /\ UNCHANGED <<op, proc, from, then, cur, refused, outside>>

\* activate: the pointer is switched, if both runtimes are what they should be.
ActivatePointer ==
    /\ pc = "activate"
    /\ IF ~PreviousValid(tx)
       THEN Returns("failed") /\ UNCHANGED <<diskVars, then, faults>>
       ELSE IF ~Valid(tx.cand)
       THEN Goes("rollback") /\ then' = "failed" /\ UNCHANGED <<diskVars, faults>>
       ELSE /\ UNCHANGED then
            /\ \/ PointsTo(tx.cand) /\ Goes("activated") /\ Works
               \/ (PointsTo(tx.cand) \/ UNCHANGED diskVars) /\ Goes("activated") /\ Fault
    /\ UNCHANGED <<op, proc, tx, from, cur, refused, outside>>

\* An error of the write does not count: the post-condition decides.
ActivationProof ==
    /\ pc = "activated"
    /\ IF HandshakeCandidate(tx) THEN Returns("ok") /\ UNCHANGED then
       ELSE Goes("rollback") /\ then' = "failed"
    /\ UNCHANGED <<diskVars, op, proc, tx, from, cur, refused, faults, outside>>

\* finalizeActivation: from this journal on, recovery goes forward.
FinalizeIntent ==
    /\ pc = "finalize"
    /\ IF ~HandshakeCandidate(tx) THEN Returns("failed") /\ UNCHANGED <<diskVars, tx, faults>>
       ELSE LET j == [tx EXCEPT !.phase = "finalizing", !.keep = tx.prev # 0 /\ PreviousValid(tx)] IN
            \/ WritesJournal(j) /\ tx' = j /\ Goes("finish") /\ Works
            \/ (WritesJournal(j) \/ UNCHANGED diskVars) /\ UNCHANGED tx /\ Returns("failed") /\ Fault
    /\ UNCHANGED <<op, proc, from, then, cur, refused, outside>>

-----------------------------------------------------------------------------
(* #finishFinalizing                                                       *)

RollsBack == Goes("rollback") /\ then' = "failed"

FinishStarts ==
    /\ pc = "finish"
    /\ IF HandshakeCandidate(tx) THEN Goes("reconcile") /\ proc' = "finish" /\ UNCHANGED then
       ELSE RollsBack /\ UNCHANGED proc
    /\ UNCHANGED <<diskVars, op, tx, from, cur, refused, faults, outside>>

Retained(j) == {PathOf[j.cand]} \cup (IF j.keep /\ j.prev # 0 THEN {PathOf[j.prev]} ELSE {})
Obsolete == {u \in Tree : place[u] = "versions" /\ PathOf[u] \notin Retained(tx)}

\* Versions that are not retained are renamed away, one after the other.
ReconcileQuarantines(u) ==
    /\ pc = "reconcile" /\ u \in Obsolete
    /\ \/ Moves(u, "trash") /\ Goes("deleteObsolete") /\ cur' = u /\ Works
       \/ (Moves(u, "trash") \/ UNCHANGED diskVars) /\ Ends("failed") /\ UNCHANGED cur /\ Fault
    /\ UNCHANGED <<op, proc, tx, from, then, refused, outside>>

\* A deletion that fails while the directory is there is left to the next recovery.
ReconcileDeletes ==
    /\ pc = "deleteObsolete"
    /\ \/ Moves(cur, "absent") /\ Goes("reconcile") /\ Works
       \/ UNCHANGED diskVars /\ Goes("reconcile") /\ Fault
       \/ Moves(cur, "absent") /\ Ends("failed") /\ Fault
    /\ UNCHANGED <<callVars, refused, outside>>

ReconcileDone ==
    /\ pc = "reconcile" /\ Obsolete = {}
    /\ IF Valid(tx.cand) /\ (tx.keep => PreviousValid(tx)) THEN Goes("reconciled") ELSE Ends("failed")
    /\ UNCHANGED <<diskVars, callVars, refused, faults, outside>>

FinishProves ==
    /\ pc = "reconciled"
    /\ IF CommitState(tx) THEN Goes("commit") /\ UNCHANGED then ELSE RollsBack
    /\ UNCHANGED <<diskVars, op, proc, tx, from, cur, refused, faults, outside>>

-----------------------------------------------------------------------------
(* The commit that ends a finalization, a rollback or a publishing recovery *)

\* The journal is renamed away under proof; if the rename cannot be confirmed it is
\* put back, as far as that works.
CommitJournal ==
    /\ pc = "commit"
    /\ IF ~FinalStateProof(tx) THEN Ends("failed") /\ UNCHANGED <<diskVars, faults>>
       ELSE \/ MovesJournal(tx) /\ Goes("committed") /\ Works
            \/ (MovesJournal(tx) \/ UNCHANGED diskVars) /\ Ends("failed") /\ Fault
    /\ UNCHANGED <<callVars, refused, outside>>

\* The proof is repeated with the journal gone; without it the journal returns.
CommitProves ==
    /\ pc = "committed"
    /\ IF FinalStateProof(tx)
       THEN /\ Goes(IF proc = "finish" THEN "deleteJournal" ELSE "deleteTree")
            /\ UNCHANGED <<diskVars, then, faults>>
       ELSE \/ /\ RestoresJournal(tx) /\ Works
               /\ IF proc = "finish" THEN RollsBack ELSE Ends("failed") /\ UNCHANGED then
            \/ UNCHANGED <<diskVars, then>> /\ Ends("failed") /\ Fault
    /\ UNCHANGED <<op, proc, tx, from, cur, refused, outside>>

\* The quarantined candidate may outlive the commit, but not the other way round.
DeleteCandidate ==
    /\ pc = "deleteTree"
    /\ \/ Moves(tx.cand, "absent") /\ Goes("deleteJournal") /\ Works
       \/ UNCHANGED diskVars /\ Goes("deleteJournal") /\ Fault
       \/ Moves(tx.cand, "absent") /\ Ends("failed") /\ Fault
    /\ UNCHANGED <<callVars, refused, outside>>

\* A spent journal that cannot be deleted stays; one whose deletion cannot be
\* confirmed is written again, unless there is another one.
ForgetsJournal == spent' = spent \ {tx} /\ UNCHANGED <<active, place, whole>>
DeleteJournal ==
    /\ pc = "deleteJournal"
    /\ LET r == IF proc = "rollback" THEN then ELSE "ok" IN
       \/ ForgetsJournal /\ UNCHANGED journal /\ Ends(r) /\ Works
       \/ UNCHANGED diskVars /\ Ends(r) /\ Fault
       \/ ForgetsJournal /\ journal' = (IF journal = NoJournal THEN tx ELSE journal)
          /\ Ends("failed") /\ Fault
    /\ UNCHANGED <<callVars, refused, outside>>

-----------------------------------------------------------------------------
(* #rollbackPendingActivation                                              *)

\* The pointer goes back to the previous runtime; what cannot be explained stops here.
RollbackPointer ==
    /\ pc = "rollback"
    /\ proc' = "rollback"
    /\ IF ~PreviousValid(tx) \/ active \notin {tx.cand, tx.prev}
       THEN /\ UNCHANGED <<diskVars, faults>>
            /\ refused' = (refused \/ active \notin {tx.cand, tx.prev})
            /\ Ends("failed")
       ELSE /\ UNCHANGED refused
            /\ \/ PointsTo(tx.prev) /\ Goes("rollbackTree") /\ Works
               \/ /\ PointsTo(tx.prev) /\ active # tx.prev /\ Fault
                  /\ IF tx.prev # 0 THEN Goes("rollbackTree") ELSE Ends("failed")
               \/ UNCHANGED diskVars /\ active # tx.prev /\ Ends("failed") /\ Fault
    /\ UNCHANGED <<op, tx, from, then, cur, outside>>

\* The candidate leaves versions/ before the journal does.
RollbackTree ==
    /\ pc = "rollbackTree"
    /\ IF place[tx.cand] \notin {"versions", "candidate"}
       THEN refused' = TRUE /\ Ends("failed") /\ UNCHANGED <<diskVars, faults>>
       ELSE /\ UNCHANGED refused
            /\ \/ Moves(tx.cand, "candidate") /\ Goes("commit") /\ Works
               \/ (Moves(tx.cand, "candidate") \/ UNCHANGED diskVars) /\ Ends("failed") /\ Fault
    /\ UNCHANGED <<callVars, outside>>

-----------------------------------------------------------------------------
(* recover                                                                 *)

\* A journal and a spent one, or two spent ones, are refused.
Ambiguous == (journal # NoJournal /\ spent # {}) \/ Cardinality(spent) > 1

WantsRollbackAlways(j) == TRUE

\* What a spent journal still wanted: a rollback, or nothing but its own deletion.
WantsRollback(j) == j.phase = "awaiting" \/ (j.phase = "finalizing" /\ active = j.prev)
CandidateIsNeverGone(j) == FALSE
CandidateIsGone(j) ==
    place[j.cand] \notin (IF j.phase = "publishing" THEN {"staging", "versions", "publishing"}
                                                     ELSE {"versions", "candidate"})

\* A spent journal returns to its place unless nothing is left to do for it.
RecoverSpent(j) ==
    /\ from' = "spent" /\ tx' = j /\ UNCHANGED refused
    /\ IF CandidateIsGone(j) /\ (WantsRollback(j) \/ j.phase = "publishing")
       THEN /\ UNCHANGED <<diskVars, faults>>
            /\ IF CommittedPrevious(j) THEN Goes("deleteJournal") ELSE Returns("failed")
       ELSE \/ /\ RestoresJournal(j) /\ Works
               /\ Goes(IF WantsRollback(j) THEN "rollback" ELSE "dispatch")
            \/ (RestoresJournal(j) \/ UNCHANGED diskVars) /\ Returns("failed") /\ Fault

RecoverReads ==
    /\ pc = "recover"
    /\ then' = "ok" /\ proc' = "none"
    /\ \/ /\ Ambiguous /\ refused' = TRUE /\ Returns("failed")
          /\ UNCHANGED <<diskVars, tx, from, faults>>
       \/ /\ ~Ambiguous /\ spent = {}
          /\ from' = "pending" /\ tx' = journal
          /\ Goes(IF journal = NoJournal THEN "sweep" ELSE "dispatch")
          /\ UNCHANGED <<diskVars, refused, faults>>
       \/ ~Ambiguous /\ \E j \in spent : RecoverSpent(j)
    /\ UNCHANGED <<op, cur, outside>>

\* Each phase has its way out.
RecoverDispatches ==
    /\ pc = "dispatch"
    /\ Goes(CASE tx.phase = "publishing" -> "publishing"
              [] tx.phase = "finalizing" -> "finish"
              [] tx.phase = "awaiting" -> "rollback")
    /\ UNCHANGED <<diskVars, callVars, refused, faults, outside>>

\* #recoverPublishing: wherever the candidate is, it goes to its quarantine.
RecoverPublishing ==
    /\ pc = "publishing"
    /\ proc' = "publishing"
    /\ IF ~CommittedPrevious(tx) \/ place[tx.cand] \notin {"staging", "versions", "publishing"}
       THEN /\ refused' = (refused \/ active # tx.prev
                                    \/ place[tx.cand] \notin {"staging", "versions", "publishing"})
            /\ Returns("failed") /\ UNCHANGED <<diskVars, faults>>
       ELSE /\ UNCHANGED refused
            /\ \/ Moves(tx.cand, "publishing") /\ Goes("commit") /\ Works
               \/ (Moves(tx.cand, "publishing") \/ UNCHANGED diskVars) /\ Returns("failed") /\ Fault
    /\ UNCHANGED <<op, tx, from, then, cur, outside>>

\* A finalization that failed may still have been rolled back completely.
RecoverRechecks ==
    /\ pc = "recheck"
    /\ IF journal = NoJournal /\ spent = {} /\ CommittedPrevious(tx)
       THEN Goes("sweep") ELSE Returns("failed")
    /\ UNCHANGED <<diskVars, callVars, refused, faults, outside>>

\* What interrupted operations left is deleted; journals are not touched.
SweepDeletes(t) ==
    /\ pc = "sweep" /\ place[t] \in Litter
    /\ \/ Moves(t, "absent") /\ UNCHANGED <<pc, result>> /\ Works
       \/ (Moves(t, "absent") \/ Moves(t, "trash")) /\ Returns("failed") /\ Fault
    /\ UNCHANGED <<callVars, refused, outside>>

RecoverDone ==
    /\ pc = "sweep" /\ \A t \in Tree : place[t] \notin Litter
    /\ Returns("ok")
    /\ UNCHANGED <<diskVars, callVars, refused, faults, outside>>

-----------------------------------------------------------------------------
(* restore and discard                                                     *)

RestoreTrusting(previous) ==
    /\ pc = "restore"
    /\ IF journal = NoJournal THEN Returns("ok") /\ UNCHANGED then
       ELSE IF journal.phase # "awaiting"
       THEN Returns("failed") /\ UNCHANGED then
       ELSE Goes("rollback") /\ then' = "ok"
    /\ tx' = journal
    /\ UNCHANGED <<diskVars, op, proc, from, cur, refused, faults, outside>>

\* restore: the rollback of an activation whose handshake or finalization failed.
Restore(previous) ==
    /\ pc = "restore"
    /\ IF journal = NoJournal
       THEN /\ UNCHANGED then
            /\ IF /\ active = previous /\ (previous = 0 \/ Valid(previous))
                  /\ place[cur] # "versions"
               THEN Returns("ok") ELSE Returns("failed")
       ELSE IF journal.phase # "awaiting"
       THEN Returns("failed") /\ UNCHANGED then
       ELSE Goes("rollback") /\ then' = "ok"
    /\ tx' = journal
    /\ UNCHANGED <<diskVars, op, proc, from, cur, refused, faults, outside>>

\* discard: refused while there is a journal, and for a runtime that is gone.
Discard ==
    /\ pc = "discard"
    /\ IF journal # NoJournal \/ CommittedView \in {{}, {cur}} \/ place[cur] # "versions"
       THEN Returns("failed") /\ UNCHANGED diskVars
       ELSE Returns("ok") /\ Moves(cur, "absent")
    /\ UNCHANGED <<callVars, refused, faults, outside>>

-----------------------------------------------------------------------------
(* The operating system                                                    *)

\* The process dies: what it knew is gone, the disk stays.
StoreCrash ==
    /\ op' = "none" /\ pc' = "idle" /\ proc' = "none" /\ tx' = NoJournal
    /\ from' = "pending" /\ then' = "ok" /\ cur' = 0 /\ result' = "none"
    /\ crashes < MaxCrashes /\ crashes' = crashes + 1
    /\ UNCHANGED <<diskVars, refused, faults, damages>>

\* Somebody changes or removes files of a runtime.
Damage(t) ==
    /\ damages < MaxDamage /\ damages' = damages + 1
    /\ place[t] = "versions" /\ whole[t] /\ whole' = [whole EXCEPT ![t] = FALSE]
    /\ UNCHANGED <<active, journal, spent, place, callVars, pc, result, refused, faults, crashes>>
=============================================================================
