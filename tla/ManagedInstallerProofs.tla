----------------------- MODULE ManagedInstallerProofs -----------------------
(***************************************************************************)
(* Proofs about installations, for any number of them, of failing file     *)
(* operations, of crashes and of damaged runtimes.                         *)
(*                                                                         *)
(* The argument: a runtime whose handshake was not completed is in         *)
(* versions/ only while the journal names it as its candidate              *)
(* (PendingInv), because every way to lose the journal either follows the  *)
(* candidate's removal or the handshake (CommitInv).  Hence what is valid  *)
(* without a journal, and what a journal calls previous, was verified.     *)
(* What the store still has to do, and what it reports, follow from where  *)
(* each operation and the pointer stand (OutcomeInv, ReadyInv); without    *)
(* faults and damage each disk is one that a crash can leave               *)
(* (ExplainedInv), and the recovery accepts it.                            *)
(***************************************************************************)
EXTENDS ManagedInstaller, FiniteSetTheorems, TLAPS

(* The inductive invariant                                                 *)

\* The operation of the store that each place of the installation waits for.
OpAt ==
    [p \in InstallPcs |->
        CASE p \in {"recovering", "cleaning"} -> "recover"
          [] p = "publishing" -> "publish"
          [] p = "activating" -> "activate"
          [] p = "discarding" -> "discard"
          [] p = "finalizing" -> "finalize"
          [] p = "restoring" -> "restore"
          [] OTHER -> "none"]

Undoing == {"rollback", "rollbackTree", "commit", "committed", "deleteTree", "deleteJournal"}
Finishing == {"finish", "reconcile", "deleteObsolete", "reconciled"}

\* Where each operation can be, and that one which rolls back will fail.
CallInv ==
    /\ op = OpAt[ip] /\ (attempt = 0 => ip = "idle")
    /\ op = "none" <=> pc = "idle"
    /\ op = "publish" => pc \in {"publish", "move", "await", "returned"} /\ cur = attempt
    /\ op = "activate" => pc \in {"activate", "activated", "returned"} \cup Undoing
    /\ op = "discard" => pc \in {"discard", "returned"}
    /\ op = "activate" /\ pc \in Undoing => then = "failed"
    /\ op = "activate" /\ pc \in Undoing \ {"rollback"} => proc = "rollback"
    /\ pc \in {"publish", "move", "await"} => op = "publish"
    /\ pc \in {"activate", "activated"} => op = "activate"
    /\ pc = "finalize" => op = "finalize"

\* The published candidate is the tree of this installation until it is activated.
Mine == tx = journal /\ tx.cand = attempt

\* While an operation works on a journal, it holds the one on disk.
TxInv ==
    /\ pc \in {"move", "await", "activate", "activated", "finalize"} => Mine
    /\ pc = "returned" /\ result = "ok" /\ op \in {"publish", "activate"} => Mine
    /\ pc = "finalize" => attempt \in verified
    /\ pc \in Finishing \cup {"rollback", "rollbackTree", "commit", "dispatch", "publishing"} =>
            tx = journal
    /\ pc \in Undoing \cup Finishing \cup {"move", "await", "finalize", "dispatch", "publishing"} =>
            tx \in Journal
    /\ pc \in Finishing => tx.phase = "finalizing"
    /\ pc \in Finishing \ {"finish"} => proc = "finish"
    /\ pc = "rollbackTree" => proc = "rollback"

\* A commit takes the journal of a verified candidate, or of one that has left.
CommitInv ==
    /\ pc = "commit" => IF proc = "finish" THEN tx.phase = "finalizing"
                        ELSE place[tx.cand] # "versions"
    /\ pc = "committed" => journal = NoJournal

\* Every journal was written over a verified runtime, or over none, and finalizes a
\* verified one.
JournalInv ==
    \A j \in {journal, tx} \cup spent :
        /\ j.prev \in verified \cup {0}
        /\ j.phase = "finalizing" => j.cand \in verified

\* What was not verified is in versions/ only as the journal's candidate.
PendingInv ==
    \A t \in Tree : place[t] = "versions" => t \in verified \/ t = journal.cand

ServeInv ==
    /\ TypeOK /\ CallInv /\ TxInv /\ CommitInv /\ JournalInv /\ PendingInv
    /\ ServedIsVerified

-----------------------------------------------------------------------------
(* Types                                                                   *)

\* What each change of the disk leaves well typed.
LEMMA DiskChanges ==
    ASSUME DiskTypeOK
    PROVE  /\ UNCHANGED diskVars => DiskTypeOK'
           /\ \A j \in Journal : WritesJournal(j) \/ MovesJournal(j) \/ RestoresJournal(j) => DiskTypeOK'
           /\ \A t \in Tree \cup {0} : PointsTo(t) => DiskTypeOK'
           /\ \A t \in Tree \cup {0}, w \in Places : Moves(t, w) => DiskTypeOK'
  <1>1. UNCHANGED diskVars => DiskTypeOK'
    BY DEF DiskTypeOK, diskVars
  <1>2. ASSUME NEW j \in Journal, WritesJournal(j) \/ MovesJournal(j) \/ RestoresJournal(j)
        PROVE  DiskTypeOK'
    BY <1>2 DEF DiskTypeOK, WritesJournal, MovesJournal, RestoresJournal
  <1>3. ASSUME NEW t \in Tree \cup {0}, PointsTo(t) PROVE DiskTypeOK'
    BY <1>3 DEF DiskTypeOK, PointsTo
  <1>4. ASSUME NEW t \in Tree \cup {0}, NEW w \in Places, Moves(t, w) PROVE DiskTypeOK'
    BY <1>4 DEF DiskTypeOK, Moves
  <1>5. QED
    BY <1>1, <1>2, <1>3, <1>4

\* A procedure that is over returns, or recovery goes on.
LEMMA EndsSomewhere ==
    ASSUME NEW r \in {"ok", "failed"}, Ends(r)
    PROVE  \/ pc' = "returned" /\ result' = r
           \/ /\ op = "recover" /\ result' = result
              /\ pc' = IF r = "ok" THEN "sweep" ELSE "recheck"
  <1>1. CASE op # "recover"
    BY <1>1 DEF Ends, Returns
  <1>2. CASE op = "recover" /\ r = "ok"
    BY <1>2 DEF Ends
  <1>3. CASE op = "recover" /\ r = "failed"
    BY <1>3 DEF Ends, Returns
  <1>4. QED
    BY <1>1, <1>2, <1>3

\* What a reader is given is the pointer it read, or the runtime before the activation.
LEMMA ReadViewIsKnown ==
    ASSUME NEW p, NEW q \in ReadView(p)
    PROVE  \/ journal = NoJournal /\ q = p /\ (p = 0 \/ Valid(p))
           \/ journal # NoJournal /\ q = journal.prev
  BY DEF ReadView

\* Every step keeps the types of the installation.
LEMMA InstallTypesKept == DiskTypeOK /\ CallInv /\ InstallTypeOK /\ [Next]_vars =>
    InstallTypeOK'
  <1> SUFFICES ASSUME DiskTypeOK, CallInv, InstallTypeOK, [Next]_vars PROVE
          InstallTypeOK'
    OBVIOUS
  <1>1. CASE StoreWorks
    BY <1>1 DEF StoreWorks, installVars, readVars, InstallTypeOK, InstallPcs,
       Outcomes
  <1>2. ASSUME Install PROVE InstallTypeOK'
    BY <1>2, StoreAssumption DEF Install, Calls, Keeps, KeepsCall, readVars,
       diskVars, outside, Tree, InstallTypeOK, InstallPcs, Outcomes
  <1>3. ASSUME Stage PROVE InstallTypeOK'
    BY <1>3 DEF Stage, Returned, Idles, KeepsCall, KeepsRecord, outside, readVars,
       InstallTypeOK, InstallPcs, Outcomes
  <1>4. ASSUME Staged PROVE InstallTypeOK'
    BY <1>4 DEF Staged, KeepsRecord, outside, readVars, KeepsCall, InstallTypeOK,
       InstallPcs, Outcomes
  <1>5. ASSUME StageFails PROVE InstallTypeOK'
    BY <1>5 DEF StageFails, Reports, KeepsCall, KeepsRecord, outside, readVars,
       InstallTypeOK, InstallPcs, Outcomes
  <1>6. ASSUME ReadPrevious PROVE InstallTypeOK'
    BY <1>6, ReadViewIsKnown DEF ReadPrevious, Calls, Keeps, readVars, diskVars,
       outside, CommittedView, DiskTypeOK, Journal, NoJournal, InstallTypeOK,
       InstallPcs, Outcomes
  <1>7. ASSUME Activate PROVE InstallTypeOK'
    BY <1>7 DEF Activate, Continue, Returned, Calls, Keeps, KeepsCall, KeepsRecord,
       readVars, diskVars, outside, InstallTypeOK, InstallPcs, Outcomes
  <1>8. ASSUME PublishFailed PROVE InstallTypeOK'
    BY <1>8 DEF PublishFailed, Retreat, Returned, Calls, Keeps, KeepsCall,
       KeepsRecord, readVars, diskVars, outside, InstallTypeOK, InstallPcs, Outcomes
  <1>9. ASSUME ActivateFailed PROVE InstallTypeOK'
    BY <1>9 DEF ActivateFailed, Retreat, Returned, Calls, Keeps, KeepsCall,
       KeepsRecord, readVars, diskVars, outside, InstallTypeOK, InstallPcs, Outcomes
  <1>10. ASSUME DiscardFailed PROVE InstallTypeOK'
    BY <1>10 DEF DiscardFailed, Retreat, Returned, Calls, Keeps, KeepsCall,
       KeepsRecord, readVars, diskVars, outside, InstallTypeOK, InstallPcs, Outcomes
  <1>11. ASSUME InstallFailed PROVE InstallTypeOK'
    BY <1>11 DEF InstallFailed, Fails, Returned, Reports, Idles, Keeps, KeepsCall,
       KeepsRecord, readVars, diskVars, outside, InstallTypeOK, InstallPcs, Outcomes
  <1>12. ASSUME Handshake PROVE InstallTypeOK'
    BY <1>12 DEF Handshake, Returned, Calls, Keeps, KeepsCall, readVars, diskVars,
       outside, CallInv, InstallTypeOK, InstallPcs, Outcomes
  <1>13. ASSUME FinalizeFailed PROVE InstallTypeOK'
    BY <1>13 DEF FinalizeFailed, Retreat, Returned, Calls, Keeps, KeepsCall,
       KeepsRecord, readVars, diskVars, outside, InstallTypeOK, InstallPcs, Outcomes
  <1>14. ASSUME RestoreEnds PROVE InstallTypeOK'
    BY <1>14, EndsSomewhere DEF RestoreEnds, Fails, Returned, Reports, Idles, Keeps,
       KeepsCall, KeepsRecord, readVars, diskVars, outside, InstallTypeOK, InstallPcs,
       Outcomes
  <1>15. ASSUME Ready PROVE InstallTypeOK'
    BY <1>15 DEF Ready, Returned, Reports, Idles, Keeps, KeepsCall, readVars,
       diskVars, outside, CallInv, InstallTypeOK, InstallPcs, Outcomes
  <1>16. ASSUME ReaderReadsPointer PROVE InstallTypeOK'
    BY <1>16 DEF ReaderReadsPointer, storeVars, installVars, diskVars, callVars,
       DiskTypeOK, InstallTypeOK, InstallPcs, Outcomes
  <1>17. ASSUME ReaderReadsJournal PROVE InstallTypeOK'
    BY <1>17, ReadViewIsKnown DEF ReaderReadsJournal, storeVars, installVars,
       diskVars, callVars, DiskTypeOK, Journal, NoJournal, InstallTypeOK, InstallPcs,
       Outcomes
  <1>18. ASSUME Crash PROVE InstallTypeOK'
    BY <1>18 DEF Crash, StoreCrash, diskVars, InstallTypeOK, InstallPcs, Outcomes
  <1>19. ASSUME NEW t \in Tree, Damage(t), UNCHANGED <<installVars, readVars>>
          PROVE InstallTypeOK'
    BY <1>19 DEF Damage, callVars, installVars, readVars, InstallTypeOK, InstallPcs,
       Outcomes
  <1>20. CASE UNCHANGED vars
    BY <1>20 DEF vars, storeVars, diskVars, callVars, outside, installVars, readVars,
       InstallTypeOK, InstallPcs, Outcomes
  <1>21. QED
    BY <1>1, <1>2, <1>3, <1>4, <1>5, <1>6, <1>7, <1>8, <1>9, <1>10, <1>11, <1>12,
       <1>13, <1>14, <1>15, <1>16, <1>17, <1>18, <1>19, <1>20 DEF Next, InstallStep

\* Every step keeps the types of a call.
LEMMA CallTypesKept == DiskTypeOK /\ InstallTypeOK /\ CallTypeOK /\ TxInv /\
    [Next]_vars => CallTypeOK'
  <1> SUFFICES ASSUME DiskTypeOK, InstallTypeOK, CallTypeOK, TxInv, [Next]_vars
          PROVE CallTypeOK'
    OBVIOUS
  <1>1. ASSUME NEW t \in Tree, PublishIntent(t), UNCHANGED <<installVars,
          readVars>> PROVE CallTypeOK'
    <2> DEFINE j == [phase |-> "publishing", cand |-> t, prev |-> active, keep |-> TRUE]
    <2>1. j \in Journal
      BY DEF DiskTypeOK, Journal
    <2>2. tx' \in {tx, j} /\ UNCHANGED <<op, proc, from, then, cur, refused>>
      BY <1>1 DEF PublishIntent
    <2>3. pc' \in {"move", "returned"} /\ result' \in {result, "ok", "failed"}
      BY <1>1 DEF PublishIntent, Goes, Returns
    <2> HIDE DEF j
    <2>4. tx' \in Journal \cup {NoJournal}
      BY <2>1, <2>2 DEF CallTypeOK
    <2>5. QED
      BY <2>2, <2>3, <2>4 DEF CallTypeOK, Ops, Pcs
  <1>2. ASSUME NEW t \in Tree, ReconcileQuarantines(t), UNCHANGED <<installVars,
          readVars>> PROVE CallTypeOK'
    BY <1>2, EndsSomewhere DEF ReconcileQuarantines, Goes, diskVars, outside,
       installVars, readVars, CallTypeOK, Ops, Pcs
  <1>3. ASSUME NEW t \in Tree, SweepDeletes(t), UNCHANGED <<installVars,
          readVars>> PROVE CallTypeOK'
    BY <1>3 DEF SweepDeletes, Returns, callVars, outside, installVars, readVars,
       CallTypeOK, Ops, Pcs
  <1>4. ASSUME PublishMove, UNCHANGED <<installVars, readVars>> PROVE
          CallTypeOK'
    BY <1>4 DEF PublishMove, Goes, diskVars, Returns, callVars, outside, installVars,
       readVars, CallTypeOK, Ops, Pcs
  <1>5. ASSUME PublishAwaits, UNCHANGED <<installVars, readVars>> PROVE
          CallTypeOK'
    BY <1>5 DEF PublishAwaits, Returns, diskVars, outside, installVars, readVars,
       Journal, NoJournal, DiskTypeOK, TxInv, Undoing, Finishing, CallTypeOK, Ops, Pcs
  <1>6. ASSUME ActivatePointer, UNCHANGED <<installVars, readVars>> PROVE
          CallTypeOK'
    BY <1>6 DEF ActivatePointer, Returns, diskVars, Goes, outside, installVars,
       readVars, CallTypeOK, Ops, Pcs
  <1>7. ASSUME ActivationProof, UNCHANGED <<installVars, readVars>> PROVE
          CallTypeOK'
    BY <1>7 DEF ActivationProof, Returns, Goes, diskVars, outside, installVars,
       readVars, CallTypeOK, Ops, Pcs
  <1>8. ASSUME FinalizeIntent, UNCHANGED <<installVars, readVars>> PROVE
          CallTypeOK'
    <2> DEFINE j == [tx EXCEPT !.phase = "finalizing",
                              !.keep = tx.prev # 0 /\ PreviousValid(tx)]
    <2>1. CASE UNCHANGED tx
      BY <1>8, <2>1 DEF FinalizeIntent, Goes, Returns, callVars, CallTypeOK, Ops, Pcs
    <2>2. CASE tx' = j
      <3>1. tx \in Journal
        BY <1>8 DEF FinalizeIntent, TxInv, Undoing, Finishing
      <3>2. (tx.prev # 0 /\ PreviousValid(tx)) \in BOOLEAN
        BY <3>1 DEF PreviousValid
      <3>3. j \in Journal
        BY <3>1, <3>2 DEF Journal
      <3>4. UNCHANGED <<op, proc, from, then, cur, refused>>
        BY <1>8 DEF FinalizeIntent
      <3>5. pc' \in {"finish", "returned"} /\ result' \in {result, "failed"}
        BY <1>8, <2>2 DEF FinalizeIntent, Goes, Returns
      <3>6. QED
        BY <2>2, <3>3, <3>4, <3>5 DEF CallTypeOK, Ops, Pcs
    <2>3. QED
      BY <1>8, <2>1, <2>2 DEF FinalizeIntent
  <1>9. ASSUME FinishStarts, UNCHANGED <<installVars, readVars>> PROVE
          CallTypeOK'
    BY <1>9 DEF FinishStarts, Goes, RollsBack, diskVars, outside, installVars,
       readVars, CallTypeOK, Ops, Pcs
  <1>10. ASSUME ReconcileDeletes, UNCHANGED <<installVars, readVars>> PROVE
          CallTypeOK'
    BY <1>10, EndsSomewhere DEF ReconcileDeletes, Goes, diskVars, callVars, outside,
       installVars, readVars, CallTypeOK, Ops, Pcs
  <1>11. ASSUME ReconcileDone, UNCHANGED <<installVars, readVars>> PROVE
          CallTypeOK'
    BY <1>11, EndsSomewhere DEF ReconcileDone, Goes, diskVars, callVars, outside,
       installVars, readVars, CallTypeOK, Ops, Pcs
  <1>12. ASSUME FinishProves, UNCHANGED <<installVars, readVars>> PROVE
          CallTypeOK'
    BY <1>12 DEF FinishProves, Goes, RollsBack, diskVars, outside, installVars,
       readVars, CallTypeOK, Ops, Pcs
  <1>13. ASSUME CommitJournal, UNCHANGED <<installVars, readVars>> PROVE
          CallTypeOK'
    BY <1>13, EndsSomewhere DEF CommitJournal, diskVars, Goes, callVars, outside,
       installVars, readVars, CallTypeOK, Ops, Pcs
  <1>14. ASSUME CommitProves, UNCHANGED <<installVars, readVars>> PROVE
          CallTypeOK'
    BY <1>14, EndsSomewhere DEF CommitProves, Goes, diskVars, RollsBack, outside,
       installVars, readVars, CallTypeOK, Ops, Pcs
  <1>15. ASSUME DeleteCandidate, UNCHANGED <<installVars, readVars>> PROVE
          CallTypeOK'
    BY <1>15, EndsSomewhere DEF DeleteCandidate, Goes, diskVars, callVars, outside,
       installVars, readVars, CallTypeOK, Ops, Pcs
  <1>16. ASSUME DeleteJournal, UNCHANGED <<installVars, readVars>> PROVE
          CallTypeOK'
    BY <1>16, EndsSomewhere DEF DeleteJournal, ForgetsJournal, diskVars, callVars,
       outside, installVars, readVars, CallTypeOK, Ops, Pcs
  <1>17. ASSUME RollbackPointer, UNCHANGED <<installVars, readVars>> PROVE
          CallTypeOK'
    <2>1. UNCHANGED <<op, tx, from, then, cur>> /\ proc' = "rollback"
      BY <1>17 DEF RollbackPointer
    <2>2. refused' \in BOOLEAN
      BY <1>17 DEF RollbackPointer, CallTypeOK
    <2>3. (pc' = "rollbackTree" /\ result' = result) \/ Ends("failed")
      BY <1>17 DEF RollbackPointer, Goes
    <2>4. QED
      BY <2>1, <2>2, <2>3, EndsSomewhere DEF CallTypeOK, Ops, Pcs
  <1>18. ASSUME RollbackTree, UNCHANGED <<installVars, readVars>> PROVE
          CallTypeOK'
    <2>1. UNCHANGED callVars
      BY <1>18 DEF RollbackTree
    <2>2. refused' \in BOOLEAN
      <3>1. CASE UNCHANGED refused
        BY <3>1 DEF CallTypeOK
      <3>2. CASE refused' = TRUE
        BY <3>2
      <3>3. QED
        BY <1>18, <3>1, <3>2 DEF RollbackTree
    <2>3. pc' \in {"commit", "returned", "sweep", "recheck"} /\ result' \in {result, "failed"}
      BY <1>18, EndsSomewhere DEF RollbackTree, Goes
    <2>4. QED
      BY <2>1, <2>2, <2>3 DEF callVars, CallTypeOK, Pcs
  <1>19. ASSUME RecoverReads, UNCHANGED <<installVars, readVars>> PROVE
          CallTypeOK'
    <2>1. UNCHANGED <<op, cur>> /\ then' = "ok" /\ proc' = "none"
      BY <1>19 DEF RecoverReads
    <2>2. refused' \in BOOLEAN
      BY <1>19 DEF RecoverReads, RecoverSpent, CallTypeOK
    <2>3. from' \in {from, "pending", "spent"} /\ tx' \in {tx, journal} \cup spent
      BY <1>19 DEF RecoverReads, RecoverSpent
    <2>4. /\ pc' \in {"returned", "sweep", "dispatch", "rollback", "deleteJournal"}
          /\ result' \in {result, "failed"}
      BY <1>19 DEF RecoverReads, RecoverSpent, Returns, Goes
    <2>5. QED
      BY <2>1, <2>2, <2>3, <2>4 DEF CallTypeOK, DiskTypeOK, Ops, Pcs
  <1>20. ASSUME RecoverDispatches, UNCHANGED <<installVars, readVars>> PROVE
          CallTypeOK'
    BY <1>20 DEF RecoverDispatches, Goes, diskVars, callVars, outside, installVars,
       readVars, Journal, NoJournal, DiskTypeOK, TxInv, Undoing, Finishing, CallTypeOK,
       Ops, Pcs
  <1>21. ASSUME RecoverPublishing, UNCHANGED <<installVars, readVars>> PROVE
          CallTypeOK'
    <2>1. UNCHANGED <<op, tx, from, then, cur>> /\ proc' = "publishing"
      BY <1>21 DEF RecoverPublishing
    <2>2. refused' \in BOOLEAN
      BY <1>21 DEF RecoverPublishing, CallTypeOK
    <2>3. (pc' = "commit" /\ result' = result) \/ (pc' = "returned" /\ result' = "failed")
      BY <1>21 DEF RecoverPublishing, Goes, Returns
    <2>4. QED
      BY <2>1, <2>2, <2>3 DEF CallTypeOK, Ops, Pcs
  <1>22. ASSUME RecoverRechecks, UNCHANGED <<installVars, readVars>> PROVE
          CallTypeOK'
    BY <1>22 DEF RecoverRechecks, Goes, Returns, diskVars, callVars, outside,
       installVars, readVars, CallTypeOK, Ops, Pcs
  <1>23. ASSUME RecoverDone, UNCHANGED <<installVars, readVars>> PROVE
          CallTypeOK'
    BY <1>23 DEF RecoverDone, Returns, diskVars, callVars, outside, installVars,
       readVars, CallTypeOK, Ops, Pcs
  <1>24. ASSUME Restore(previous), UNCHANGED <<installVars, readVars>> PROVE
          CallTypeOK'
    BY <1>24 DEF Restore, Returns, Goes, diskVars, outside, installVars, readVars,
       Journal, NoJournal, DiskTypeOK, TxInv, Undoing, Finishing, CallTypeOK, Ops, Pcs
  <1>25. ASSUME Discard, UNCHANGED <<installVars, readVars>> PROVE CallTypeOK'
    BY <1>25, ReadViewIsKnown DEF Discard, Returns, diskVars, callVars, outside,
       installVars, readVars, CallTypeOK, Ops, Pcs
  <1>26. ASSUME Install PROVE CallTypeOK'
    BY <1>26 DEF Install, Calls, Keeps, KeepsCall, readVars, diskVars, outside,
       CallTypeOK, Ops, Pcs
  <1>27. ASSUME Stage PROVE CallTypeOK'
    BY <1>27 DEF Stage, Returned, Idles, KeepsCall, KeepsRecord, outside, readVars,
       CallTypeOK, Ops, Pcs
  <1>28. ASSUME Staged PROVE CallTypeOK'
    BY <1>28 DEF Staged, KeepsRecord, outside, readVars, KeepsCall, CallTypeOK, Ops,
       Pcs
  <1>29. ASSUME StageFails PROVE CallTypeOK'
    BY <1>29 DEF StageFails, Reports, KeepsCall, KeepsRecord, outside, readVars,
       CallTypeOK, Ops, Pcs
  <1>30. ASSUME ReadPrevious PROVE CallTypeOK'
    BY <1>30, ReadViewIsKnown DEF ReadPrevious, Calls, Keeps, readVars, diskVars,
       outside, InstallTypeOK, CallTypeOK, Ops, Pcs
  <1>31. ASSUME Activate PROVE CallTypeOK'
    BY <1>31 DEF Activate, Continue, Returned, Calls, Keeps, KeepsCall, KeepsRecord,
       readVars, diskVars, outside, CallTypeOK, Ops, Pcs
  <1>32. ASSUME PublishFailed PROVE CallTypeOK'
    BY <1>32 DEF PublishFailed, Retreat, Returned, Calls, Keeps, KeepsCall,
       KeepsRecord, readVars, diskVars, outside, CallTypeOK, Ops, Pcs
  <1>33. ASSUME ActivateFailed PROVE CallTypeOK'
    BY <1>33 DEF ActivateFailed, Retreat, Returned, Calls, Keeps, KeepsCall,
       KeepsRecord, readVars, diskVars, outside, CallTypeOK, Ops, Pcs
  <1>34. ASSUME DiscardFailed PROVE CallTypeOK'
    BY <1>34 DEF DiscardFailed, Retreat, Returned, Calls, Keeps, KeepsCall,
       KeepsRecord, readVars, diskVars, outside, CallTypeOK, Ops, Pcs
  <1>35. ASSUME InstallFailed PROVE CallTypeOK'
    BY <1>35 DEF InstallFailed, Fails, Returned, Reports, Idles, Keeps, KeepsCall,
       KeepsRecord, readVars, diskVars, outside, CallTypeOK, Ops, Pcs
  <1>36. ASSUME Handshake PROVE CallTypeOK'
    BY <1>36 DEF Handshake, Returned, Calls, Keeps, KeepsCall, readVars, diskVars,
       outside, CallTypeOK, Ops, Pcs
  <1>37. ASSUME FinalizeFailed PROVE CallTypeOK'
    BY <1>37 DEF FinalizeFailed, Retreat, Returned, Calls, Keeps, KeepsCall,
       KeepsRecord, readVars, diskVars, outside, CallTypeOK, Ops, Pcs
  <1>38. ASSUME RestoreEnds PROVE CallTypeOK'
    BY <1>38, EndsSomewhere DEF RestoreEnds, Fails, Returned, Reports, Idles, Keeps,
       KeepsCall, KeepsRecord, readVars, diskVars, outside, CallTypeOK, Ops, Pcs
  <1>39. ASSUME Ready PROVE CallTypeOK'
    BY <1>39 DEF Ready, Returned, Reports, Idles, Keeps, KeepsCall, readVars,
       diskVars, outside, CallTypeOK, Ops, Pcs
  <1>40. ASSUME ReaderReadsPointer PROVE CallTypeOK'
    BY <1>40 DEF ReaderReadsPointer, storeVars, installVars, diskVars, callVars,
       CallTypeOK, Ops, Pcs
  <1>41. ASSUME ReaderReadsJournal PROVE CallTypeOK'
    BY <1>41, ReadViewIsKnown DEF ReaderReadsJournal, storeVars, installVars,
       diskVars, callVars, CallTypeOK, Ops, Pcs
  <1>42. ASSUME Crash PROVE CallTypeOK'
    BY <1>42 DEF Crash, StoreCrash, diskVars, CallTypeOK, Ops, Pcs
  <1>43. ASSUME NEW t \in Tree, Damage(t), UNCHANGED <<installVars, readVars>>
          PROVE CallTypeOK'
    BY <1>43 DEF Damage, callVars, installVars, readVars, CallTypeOK, Ops, Pcs
  <1>44. CASE UNCHANGED vars
    BY <1>44 DEF vars, storeVars, diskVars, callVars, outside, installVars, readVars,
       CallTypeOK, Ops, Pcs
  <1>45. QED
    BY <1>1, <1>2, <1>3, <1>4, <1>5, <1>6, <1>7, <1>8, <1>9, <1>10, <1>11, <1>12,
       <1>13, <1>14, <1>15, <1>16, <1>17, <1>18, <1>19, <1>20, <1>21, <1>22, <1>23,
       <1>24, <1>25, <1>26, <1>27, <1>28, <1>29, <1>30, <1>31, <1>32, <1>33, <1>34,
       <1>35, <1>36, <1>37, <1>38, <1>39, <1>40, <1>41, <1>42, <1>43, <1>44 DEF Next,
       InstallStep, StoreWorks

\* Every step keeps the types of the counters.
LEMMA CountTypesKept == CountTypeOK /\ [Next]_vars => CountTypeOK'
  <1> SUFFICES ASSUME CountTypeOK, [Next]_vars PROVE CountTypeOK'
    OBVIOUS
  <1> USE StoreAssumption
  <1>1. ASSUME NEW t \in Tree, PublishIntent(t), UNCHANGED <<installVars,
          readVars>> PROVE CountTypeOK'
    BY <1>1 DEF PublishIntent, Returns, diskVars, Goes, outside, installVars,
       readVars, CountTypeOK, Works, Fault
  <1>2. ASSUME NEW t \in Tree, ReconcileQuarantines(t), UNCHANGED <<installVars,
          readVars>> PROVE CountTypeOK'
    BY <1>2, EndsSomewhere DEF ReconcileQuarantines, Goes, diskVars, outside,
       installVars, readVars, CountTypeOK, Works, Fault
  <1>3. ASSUME NEW t \in Tree, SweepDeletes(t), UNCHANGED <<installVars,
          readVars>> PROVE CountTypeOK'
    BY <1>3 DEF SweepDeletes, Returns, callVars, outside, installVars, readVars,
       CountTypeOK, Works, Fault
  <1>4. ASSUME PublishMove, UNCHANGED <<installVars, readVars>> PROVE
          CountTypeOK'
    BY <1>4 DEF PublishMove, Goes, diskVars, Returns, callVars, outside, installVars,
       readVars, CountTypeOK, Works, Fault
  <1>5. ASSUME PublishAwaits, UNCHANGED <<installVars, readVars>> PROVE
          CountTypeOK'
    BY <1>5 DEF PublishAwaits, Returns, diskVars, outside, installVars, readVars,
       CountTypeOK, Works, Fault
  <1>6. ASSUME ActivatePointer, UNCHANGED <<installVars, readVars>> PROVE
          CountTypeOK'
    BY <1>6 DEF ActivatePointer, Returns, diskVars, Goes, outside, installVars,
       readVars, CountTypeOK, Works, Fault
  <1>7. ASSUME ActivationProof, UNCHANGED <<installVars, readVars>> PROVE
          CountTypeOK'
    BY <1>7 DEF ActivationProof, Returns, Goes, diskVars, outside, installVars,
       readVars, CountTypeOK, Works, Fault
  <1>8. ASSUME FinalizeIntent, UNCHANGED <<installVars, readVars>> PROVE
          CountTypeOK'
    BY <1>8 DEF FinalizeIntent, Returns, diskVars, Goes, outside, installVars,
       readVars, CountTypeOK, Works, Fault
  <1>9. ASSUME FinishStarts, UNCHANGED <<installVars, readVars>> PROVE
          CountTypeOK'
    BY <1>9 DEF FinishStarts, Goes, RollsBack, diskVars, outside, installVars,
       readVars, CountTypeOK, Works, Fault
  <1>10. ASSUME ReconcileDeletes, UNCHANGED <<installVars, readVars>> PROVE
          CountTypeOK'
    BY <1>10, EndsSomewhere DEF ReconcileDeletes, Goes, diskVars, callVars, outside,
       installVars, readVars, CountTypeOK, Works, Fault
  <1>11. ASSUME ReconcileDone, UNCHANGED <<installVars, readVars>> PROVE
          CountTypeOK'
    BY <1>11, EndsSomewhere DEF ReconcileDone, Goes, diskVars, callVars, outside,
       installVars, readVars, CountTypeOK, Works, Fault
  <1>12. ASSUME FinishProves, UNCHANGED <<installVars, readVars>> PROVE
          CountTypeOK'
    BY <1>12 DEF FinishProves, Goes, RollsBack, diskVars, outside, installVars,
       readVars, CountTypeOK, Works, Fault
  <1>13. ASSUME CommitJournal, UNCHANGED <<installVars, readVars>> PROVE
          CountTypeOK'
    BY <1>13, EndsSomewhere DEF CommitJournal, diskVars, Goes, callVars, outside,
       installVars, readVars, CountTypeOK, Works, Fault
  <1>14. ASSUME CommitProves, UNCHANGED <<installVars, readVars>> PROVE
          CountTypeOK'
    BY <1>14, EndsSomewhere DEF CommitProves, Goes, diskVars, RollsBack, outside,
       installVars, readVars, CountTypeOK, Works, Fault
  <1>15. ASSUME DeleteCandidate, UNCHANGED <<installVars, readVars>> PROVE
          CountTypeOK'
    BY <1>15, EndsSomewhere DEF DeleteCandidate, Goes, diskVars, callVars, outside,
       installVars, readVars, CountTypeOK, Works, Fault
  <1>16. ASSUME DeleteJournal, UNCHANGED <<installVars, readVars>> PROVE
          CountTypeOK'
    BY <1>16, EndsSomewhere DEF DeleteJournal, ForgetsJournal, diskVars, callVars,
       outside, installVars, readVars, CountTypeOK, Works, Fault
  <1>17. ASSUME RollbackPointer, UNCHANGED <<installVars, readVars>> PROVE
          CountTypeOK'
    BY <1>17, EndsSomewhere DEF RollbackPointer, diskVars, Goes, outside,
       installVars, readVars, CountTypeOK, Works, Fault
  <1>18. ASSUME RollbackTree, UNCHANGED <<installVars, readVars>> PROVE
          CountTypeOK'
    BY <1>18, EndsSomewhere DEF RollbackTree, diskVars, Goes, callVars, outside,
       installVars, readVars, CountTypeOK, Works, Fault
  <1>19. ASSUME RecoverReads, UNCHANGED <<installVars, readVars>> PROVE
          CountTypeOK'
    BY <1>19 DEF RecoverReads, Returns, diskVars, Goes, RecoverSpent, outside,
       installVars, readVars, CountTypeOK, Works, Fault
  <1>20. ASSUME RecoverDispatches, UNCHANGED <<installVars, readVars>> PROVE
          CountTypeOK'
    BY <1>20 DEF RecoverDispatches, Goes, diskVars, callVars, outside, installVars,
       readVars, CountTypeOK, Works, Fault
  <1>21. ASSUME RecoverPublishing, UNCHANGED <<installVars, readVars>> PROVE
          CountTypeOK'
    BY <1>21 DEF RecoverPublishing, Returns, diskVars, Goes, outside, installVars,
       readVars, CountTypeOK, Works, Fault
  <1>22. ASSUME RecoverRechecks, UNCHANGED <<installVars, readVars>> PROVE
          CountTypeOK'
    BY <1>22 DEF RecoverRechecks, Goes, Returns, diskVars, callVars, outside,
       installVars, readVars, CountTypeOK, Works, Fault
  <1>23. ASSUME RecoverDone, UNCHANGED <<installVars, readVars>> PROVE
          CountTypeOK'
    BY <1>23 DEF RecoverDone, Returns, diskVars, callVars, outside, installVars,
       readVars, CountTypeOK, Works, Fault
  <1>24. ASSUME Restore(previous), UNCHANGED <<installVars, readVars>> PROVE
          CountTypeOK'
    BY <1>24 DEF Restore, Returns, Goes, diskVars, outside, installVars, readVars,
       CountTypeOK, Works, Fault
  <1>25. ASSUME Discard, UNCHANGED <<installVars, readVars>> PROVE CountTypeOK'
    BY <1>25, ReadViewIsKnown DEF Discard, Returns, diskVars, callVars, outside,
       installVars, readVars, CountTypeOK, Works, Fault
  <1>26. ASSUME Install PROVE CountTypeOK'
    BY <1>26 DEF Install, Calls, Keeps, KeepsCall, readVars, diskVars, outside,
       CountTypeOK, Works, Fault
  <1>27. ASSUME Stage PROVE CountTypeOK'
    BY <1>27 DEF Stage, Returned, Idles, KeepsCall, KeepsRecord, outside, readVars,
       CountTypeOK, Works, Fault
  <1>28. ASSUME Staged PROVE CountTypeOK'
    BY <1>28 DEF Staged, KeepsRecord, outside, readVars, KeepsCall, CountTypeOK,
       Works, Fault
  <1>29. ASSUME StageFails PROVE CountTypeOK'
    BY <1>29 DEF StageFails, Reports, KeepsCall, KeepsRecord, outside, readVars,
       CountTypeOK, Works, Fault
  <1>30. ASSUME ReadPrevious PROVE CountTypeOK'
    BY <1>30, ReadViewIsKnown DEF ReadPrevious, Calls, Keeps, readVars, diskVars,
       outside, CountTypeOK, Works, Fault
  <1>31. ASSUME Activate PROVE CountTypeOK'
    BY <1>31 DEF Activate, Continue, Returned, Calls, Keeps, KeepsCall, KeepsRecord,
       readVars, diskVars, outside, CountTypeOK, Works, Fault
  <1>32. ASSUME PublishFailed PROVE CountTypeOK'
    BY <1>32 DEF PublishFailed, Retreat, Returned, Calls, Keeps, KeepsCall,
       KeepsRecord, readVars, diskVars, outside, CountTypeOK, Works, Fault
  <1>33. ASSUME ActivateFailed PROVE CountTypeOK'
    BY <1>33 DEF ActivateFailed, Retreat, Returned, Calls, Keeps, KeepsCall,
       KeepsRecord, readVars, diskVars, outside, CountTypeOK, Works, Fault
  <1>34. ASSUME DiscardFailed PROVE CountTypeOK'
    BY <1>34 DEF DiscardFailed, Retreat, Returned, Calls, Keeps, KeepsCall,
       KeepsRecord, readVars, diskVars, outside, CountTypeOK, Works, Fault
  <1>35. ASSUME InstallFailed PROVE CountTypeOK'
    BY <1>35 DEF InstallFailed, Fails, Returned, Reports, Idles, Keeps, KeepsCall,
       KeepsRecord, readVars, diskVars, outside, CountTypeOK, Works, Fault
  <1>36. ASSUME Handshake PROVE CountTypeOK'
    BY <1>36 DEF Handshake, Returned, Calls, Keeps, KeepsCall, readVars, diskVars,
       outside, CountTypeOK, Works, Fault
  <1>37. ASSUME FinalizeFailed PROVE CountTypeOK'
    BY <1>37 DEF FinalizeFailed, Retreat, Returned, Calls, Keeps, KeepsCall,
       KeepsRecord, readVars, diskVars, outside, CountTypeOK, Works, Fault
  <1>38. ASSUME RestoreEnds PROVE CountTypeOK'
    BY <1>38, EndsSomewhere DEF RestoreEnds, Fails, Returned, Reports, Idles, Keeps,
       KeepsCall, KeepsRecord, readVars, diskVars, outside, CountTypeOK, Works, Fault
  <1>39. ASSUME Ready PROVE CountTypeOK'
    BY <1>39 DEF Ready, Returned, Reports, Idles, Keeps, KeepsCall, readVars,
       diskVars, outside, CountTypeOK, Works, Fault
  <1>40. ASSUME ReaderReadsPointer PROVE CountTypeOK'
    BY <1>40 DEF ReaderReadsPointer, storeVars, installVars, diskVars, callVars,
       CountTypeOK, Works, Fault
  <1>41. ASSUME ReaderReadsJournal PROVE CountTypeOK'
    BY <1>41, ReadViewIsKnown DEF ReaderReadsJournal, storeVars, installVars,
       diskVars, callVars, CountTypeOK, Works, Fault
  <1>42. ASSUME Crash PROVE CountTypeOK'
    BY <1>42 DEF Crash, StoreCrash, diskVars, CountTypeOK, Works, Fault
  <1>43. ASSUME NEW t \in Tree, Damage(t), UNCHANGED <<installVars, readVars>>
          PROVE CountTypeOK'
    BY <1>43 DEF Damage, callVars, installVars, readVars, CountTypeOK, Works, Fault
  <1>44. CASE UNCHANGED vars
    BY <1>44 DEF vars, storeVars, diskVars, callVars, outside, installVars, readVars,
       CountTypeOK, Works, Fault
  <1>45. QED
    BY <1>1, <1>2, <1>3, <1>4, <1>5, <1>6, <1>7, <1>8, <1>9, <1>10, <1>11, <1>12,
       <1>13, <1>14, <1>15, <1>16, <1>17, <1>18, <1>19, <1>20, <1>21, <1>22, <1>23,
       <1>24, <1>25, <1>26, <1>27, <1>28, <1>29, <1>30, <1>31, <1>32, <1>33, <1>34,
       <1>35, <1>36, <1>37, <1>38, <1>39, <1>40, <1>41, <1>42, <1>43, <1>44 DEF Next,
       InstallStep, StoreWorks

\* Every step keeps the types of the disk.
LEMMA DiskTypesKept == DiskTypeOK /\ InstallTypeOK /\ CallTypeOK /\ CallInv /\ TxInv
    /\ [Next]_vars => DiskTypeOK'
  <1> SUFFICES ASSUME DiskTypeOK, InstallTypeOK, CallTypeOK, CallInv, TxInv,
          [Next]_vars PROVE DiskTypeOK'
    OBVIOUS
  <1>1. ASSUME NEW t \in Tree, PublishIntent(t), UNCHANGED <<installVars,
          readVars>> PROVE DiskTypeOK'
    BY <1>1, DiskChanges DEF PublishIntent, Returns, Goes, outside, installVars,
       readVars, DiskTypeOK, Journal
  <1>2. ASSUME NEW t \in Tree, ReconcileQuarantines(t), UNCHANGED <<installVars,
          readVars>> PROVE DiskTypeOK'
    BY <1>2, DiskChanges, EndsSomewhere DEF ReconcileQuarantines, Goes, outside,
       installVars, readVars, Places
  <1>3. ASSUME NEW t \in Tree, SweepDeletes(t), UNCHANGED <<installVars,
          readVars>> PROVE DiskTypeOK'
    BY <1>3, DiskChanges DEF SweepDeletes, Returns, callVars, outside, installVars,
       readVars, Places
  <1>4. ASSUME PublishMove, UNCHANGED <<installVars, readVars>> PROVE
          DiskTypeOK'
    BY <1>4, DiskChanges DEF PublishMove, Goes, Returns, callVars, outside,
       installVars, readVars, Journal, Places, TxInv, Undoing, Finishing
  <1>5. ASSUME PublishAwaits, UNCHANGED <<installVars, readVars>> PROVE
          DiskTypeOK'
    BY <1>5, DiskChanges DEF PublishAwaits, Returns, outside, installVars, readVars,
       Journal, Places, TxInv, Undoing, Finishing
  <1>6. ASSUME ActivatePointer, UNCHANGED <<installVars, readVars>> PROVE
          DiskTypeOK'
    BY <1>6, DiskChanges DEF ActivatePointer, Returns, Goes, outside, installVars,
       readVars, Journal, Places, TxInv, Undoing, Finishing, Mine, InstallTypeOK
  <1>7. ASSUME ActivationProof, UNCHANGED <<installVars, readVars>> PROVE
          DiskTypeOK'
    BY <1>7, DiskChanges DEF ActivationProof, Returns, Goes, outside, installVars,
       readVars
  <1>8. ASSUME FinalizeIntent, UNCHANGED <<installVars, readVars>> PROVE
          DiskTypeOK'
    <2> DEFINE j == [tx EXCEPT !.phase = "finalizing",
                              !.keep = tx.prev # 0 /\ PreviousValid(tx)]
    <2>1. j \in Journal
      BY <1>8 DEF FinalizeIntent, TxInv, Undoing, Finishing, PreviousValid, Journal
    <2>2. WritesJournal(j) \/ UNCHANGED diskVars
      BY <1>8 DEF FinalizeIntent
    <2> HIDE DEF j
    <2>3. QED
      BY <2>1, <2>2, DiskChanges
  <1>9. ASSUME FinishStarts, UNCHANGED <<installVars, readVars>> PROVE
          DiskTypeOK'
    BY <1>9, DiskChanges DEF FinishStarts, Goes, RollsBack, outside, installVars,
       readVars
  <1>10. ASSUME ReconcileDeletes, UNCHANGED <<installVars, readVars>> PROVE
          DiskTypeOK'
    BY <1>10, DiskChanges, EndsSomewhere DEF ReconcileDeletes, Goes, callVars,
       outside, installVars, readVars, Places, CallTypeOK
  <1>11. ASSUME ReconcileDone, UNCHANGED <<installVars, readVars>> PROVE
          DiskTypeOK'
    BY <1>11, DiskChanges, EndsSomewhere DEF ReconcileDone, Goes, callVars, outside,
       installVars, readVars
  <1>12. ASSUME FinishProves, UNCHANGED <<installVars, readVars>> PROVE
          DiskTypeOK'
    BY <1>12, DiskChanges DEF FinishProves, Goes, RollsBack, outside, installVars,
       readVars
  <1>13. ASSUME CommitJournal, UNCHANGED <<installVars, readVars>> PROVE
          DiskTypeOK'
    BY <1>13, DiskChanges, EndsSomewhere DEF CommitJournal, Goes, callVars, outside,
       installVars, readVars, Journal, Places, TxInv, Undoing, Finishing
  <1>14. ASSUME CommitProves, UNCHANGED <<installVars, readVars>> PROVE
          DiskTypeOK'
    BY <1>14, DiskChanges, EndsSomewhere DEF CommitProves, Goes, RollsBack, outside,
       installVars, readVars, Journal, Places, TxInv, Undoing, Finishing
  <1>15. ASSUME DeleteCandidate, UNCHANGED <<installVars, readVars>> PROVE
          DiskTypeOK'
    BY <1>15, DiskChanges, EndsSomewhere DEF DeleteCandidate, Goes, callVars,
       outside, installVars, readVars, Journal, Places, TxInv, Undoing, Finishing
  <1>16. ASSUME DeleteJournal, UNCHANGED <<installVars, readVars>> PROVE
          DiskTypeOK'
    BY <1>16, DiskChanges, EndsSomewhere DEF DeleteJournal, ForgetsJournal, callVars,
       outside, installVars, readVars, DiskTypeOK, TxInv, Undoing, Finishing
  <1>17. ASSUME RollbackPointer, UNCHANGED <<installVars, readVars>> PROVE
          DiskTypeOK'
    BY <1>17, DiskChanges, EndsSomewhere DEF RollbackPointer, Goes, outside,
       installVars, readVars, Journal, Places, TxInv, Undoing, Finishing
  <1>18. ASSUME RollbackTree, UNCHANGED <<installVars, readVars>> PROVE
          DiskTypeOK'
    BY <1>18, DiskChanges, EndsSomewhere DEF RollbackTree, Goes, callVars, outside,
       installVars, readVars, Journal, Places, TxInv, Undoing, Finishing
  <1>19. ASSUME RecoverReads, UNCHANGED <<installVars, readVars>> PROVE
          DiskTypeOK'
    BY <1>19, DiskChanges DEF RecoverReads, Returns, Goes, RecoverSpent, outside,
       installVars, readVars, DiskTypeOK
  <1>20. ASSUME RecoverDispatches, UNCHANGED <<installVars, readVars>> PROVE
          DiskTypeOK'
    BY <1>20, DiskChanges DEF RecoverDispatches, Goes, callVars, outside,
       installVars, readVars
  <1>21. ASSUME RecoverPublishing, UNCHANGED <<installVars, readVars>> PROVE
          DiskTypeOK'
    BY <1>21, DiskChanges DEF RecoverPublishing, Returns, Goes, outside, installVars,
       readVars, Journal, Places, TxInv, Undoing, Finishing
  <1>22. ASSUME RecoverRechecks, UNCHANGED <<installVars, readVars>> PROVE
          DiskTypeOK'
    BY <1>22, DiskChanges DEF RecoverRechecks, Goes, Returns, callVars, outside,
       installVars, readVars
  <1>23. ASSUME RecoverDone, UNCHANGED <<installVars, readVars>> PROVE
          DiskTypeOK'
    BY <1>23, DiskChanges DEF RecoverDone, Returns, callVars, outside, installVars,
       readVars
  <1>24. ASSUME Restore(previous), UNCHANGED <<installVars, readVars>> PROVE
          DiskTypeOK'
    BY <1>24, DiskChanges DEF Restore, Returns, Goes, outside, installVars, readVars
  <1>25. ASSUME Discard, UNCHANGED <<installVars, readVars>> PROVE DiskTypeOK'
    BY <1>25, DiskChanges, ReadViewIsKnown DEF Discard, Returns, callVars, outside,
       installVars, readVars, Places, CallTypeOK
  <1>26. ASSUME Install PROVE DiskTypeOK'
    BY <1>26, DiskChanges DEF Install, Calls, Keeps, KeepsCall, readVars, outside
  <1>27. ASSUME Stage PROVE DiskTypeOK'
    BY <1>27, DiskChanges DEF Stage, Returned, Idles, KeepsCall, KeepsRecord,
       outside, readVars, DiskTypeOK, Places, InstallTypeOK
  <1>28. ASSUME Staged PROVE DiskTypeOK'
    BY <1>28, DiskChanges DEF Staged, KeepsRecord, outside, readVars, KeepsCall,
       DiskTypeOK, Places, InstallTypeOK
  <1>29. ASSUME StageFails PROVE DiskTypeOK'
    BY <1>29, DiskChanges DEF StageFails, Reports, KeepsCall, KeepsRecord, outside,
       readVars, DiskTypeOK, Places, InstallTypeOK
  <1>30. ASSUME ReadPrevious PROVE DiskTypeOK'
    BY <1>30, DiskChanges, ReadViewIsKnown DEF ReadPrevious, Calls, Keeps, readVars,
       outside
  <1>31. ASSUME Activate PROVE DiskTypeOK'
    BY <1>31, DiskChanges DEF Activate, Continue, Returned, Calls, Keeps, KeepsCall,
       KeepsRecord, readVars, outside
  <1>32. ASSUME PublishFailed PROVE DiskTypeOK'
    BY <1>32, DiskChanges DEF PublishFailed, Retreat, Returned, Calls, Keeps,
       KeepsCall, KeepsRecord, readVars, outside
  <1>33. ASSUME ActivateFailed PROVE DiskTypeOK'
    BY <1>33, DiskChanges DEF ActivateFailed, Retreat, Returned, Calls, Keeps,
       KeepsCall, KeepsRecord, readVars, outside
  <1>34. ASSUME DiscardFailed PROVE DiskTypeOK'
    BY <1>34, DiskChanges DEF DiscardFailed, Retreat, Returned, Calls, Keeps,
       KeepsCall, KeepsRecord, readVars, outside
  <1>35. ASSUME InstallFailed PROVE DiskTypeOK'
    BY <1>35, DiskChanges DEF InstallFailed, Fails, Returned, Reports, Idles, Keeps,
       KeepsCall, KeepsRecord, readVars, outside
  <1>36. ASSUME Handshake PROVE DiskTypeOK'
    BY <1>36, DiskChanges DEF Handshake, Returned, Calls, Keeps, KeepsCall, readVars,
       outside
  <1>37. ASSUME FinalizeFailed PROVE DiskTypeOK'
    BY <1>37, DiskChanges DEF FinalizeFailed, Retreat, Returned, Calls, Keeps,
       KeepsCall, KeepsRecord, readVars, outside
  <1>38. ASSUME RestoreEnds PROVE DiskTypeOK'
    BY <1>38, DiskChanges, EndsSomewhere DEF RestoreEnds, Fails, Returned, Reports,
       Idles, Keeps, KeepsCall, KeepsRecord, readVars, outside
  <1>39. ASSUME Ready PROVE DiskTypeOK'
    BY <1>39, DiskChanges DEF Ready, Returned, Reports, Idles, Keeps, KeepsCall,
       readVars, outside
  <1>40. ASSUME ReaderReadsPointer PROVE DiskTypeOK'
    BY <1>40, DiskChanges DEF ReaderReadsPointer, storeVars, installVars, callVars
  <1>41. ASSUME ReaderReadsJournal PROVE DiskTypeOK'
    BY <1>41, DiskChanges, ReadViewIsKnown DEF ReaderReadsJournal, storeVars,
       installVars, callVars
  <1>42. ASSUME Crash PROVE DiskTypeOK'
    BY <1>42, DiskChanges DEF Crash, StoreCrash
  <1>43. ASSUME NEW t \in Tree, Damage(t), UNCHANGED <<installVars, readVars>>
          PROVE DiskTypeOK'
    BY <1>43, DiskChanges DEF Damage, callVars, installVars, readVars, DiskTypeOK,
       Places
  <1>44. CASE UNCHANGED vars
    BY <1>44 DEF vars, storeVars, diskVars, callVars, outside, installVars, readVars,
       DiskTypeOK
  <1>45. QED
    BY <1>1, <1>2, <1>3, <1>4, <1>5, <1>6, <1>7, <1>8, <1>9, <1>10, <1>11, <1>12,
       <1>13, <1>14, <1>15, <1>16, <1>17, <1>18, <1>19, <1>20, <1>21, <1>22, <1>23,
       <1>24, <1>25, <1>26, <1>27, <1>28, <1>29, <1>30, <1>31, <1>32, <1>33, <1>34,
       <1>35, <1>36, <1>37, <1>38, <1>39, <1>40, <1>41, <1>42, <1>43, <1>44 DEF Next,
       InstallStep, StoreWorks

\* Every step keeps what is known of the call.
LEMMA CallsKept == CallTypeOK /\ InstallTypeOK /\ CallInv /\ TxInv /\ [Next]_vars =>
    CallInv'
  <1> SUFFICES ASSUME CallTypeOK, InstallTypeOK, CallInv, TxInv, [Next]_vars
          PROVE CallInv'
    OBVIOUS
  <1>1. ASSUME NEW t \in Tree, PublishIntent(t), UNCHANGED <<installVars,
          readVars>> PROVE CallInv'
    BY <1>1 DEF PublishIntent, Returns, Goes, outside, installVars, readVars,
       CallInv, OpAt, Undoing, InstallPcs
  <1>2. ASSUME NEW t \in Tree, ReconcileQuarantines(t), UNCHANGED <<installVars,
          readVars>> PROVE CallInv'
    BY <1>2, EndsSomewhere DEF ReconcileQuarantines, Goes, outside, installVars,
       readVars, CallInv, OpAt, Undoing, InstallPcs
  <1>3. ASSUME NEW t \in Tree, SweepDeletes(t), UNCHANGED <<installVars,
          readVars>> PROVE CallInv'
    BY <1>3 DEF SweepDeletes, Returns, callVars, outside, installVars, readVars,
       CallInv, OpAt, Undoing, InstallPcs
  <1>4. ASSUME PublishMove, UNCHANGED <<installVars, readVars>> PROVE CallInv'
    BY <1>4 DEF PublishMove, Goes, Returns, callVars, outside, installVars, readVars,
       CallInv, OpAt, Undoing, InstallPcs
  <1>5. ASSUME PublishAwaits, UNCHANGED <<installVars, readVars>> PROVE CallInv'
    BY <1>5 DEF PublishAwaits, Returns, outside, installVars, readVars, CallInv,
       OpAt, Undoing, InstallPcs
  <1>6. ASSUME ActivatePointer, UNCHANGED <<installVars, readVars>> PROVE
          CallInv'
    BY <1>6 DEF ActivatePointer, Returns, Goes, outside, installVars, readVars,
       CallInv, OpAt, Undoing, InstallPcs
  <1>7. ASSUME ActivationProof, UNCHANGED <<installVars, readVars>> PROVE
          CallInv'
    BY <1>7 DEF ActivationProof, Returns, Goes, outside, installVars, readVars,
       CallInv, OpAt, Undoing, InstallPcs
  <1>8. ASSUME FinalizeIntent, UNCHANGED <<installVars, readVars>> PROVE
          CallInv'
    BY <1>8 DEF FinalizeIntent, Returns, Goes, outside, installVars, readVars,
       CallInv, OpAt, Undoing, InstallPcs
  <1>9. ASSUME FinishStarts, UNCHANGED <<installVars, readVars>> PROVE CallInv'
    BY <1>9 DEF FinishStarts, Goes, RollsBack, outside, installVars, readVars,
       CallInv, OpAt, Undoing, InstallPcs
  <1>10. ASSUME ReconcileDeletes, UNCHANGED <<installVars, readVars>> PROVE
          CallInv'
    BY <1>10, EndsSomewhere DEF ReconcileDeletes, Goes, callVars, outside,
       installVars, readVars, CallInv, OpAt, Undoing, InstallPcs
  <1>11. ASSUME ReconcileDone, UNCHANGED <<installVars, readVars>> PROVE
          CallInv'
    BY <1>11, EndsSomewhere DEF ReconcileDone, Goes, callVars, outside, installVars,
       readVars, CallInv, OpAt, Undoing, InstallPcs
  <1>12. ASSUME FinishProves, UNCHANGED <<installVars, readVars>> PROVE CallInv'
    BY <1>12 DEF FinishProves, Goes, RollsBack, outside, installVars, readVars,
       CallInv, OpAt, Undoing, InstallPcs
  <1>13. ASSUME CommitJournal, UNCHANGED <<installVars, readVars>> PROVE
          CallInv'
    BY <1>13, EndsSomewhere DEF CommitJournal, Goes, callVars, outside, installVars,
       readVars, CallInv, OpAt, Undoing, InstallPcs
  <1>14. ASSUME CommitProves, UNCHANGED <<installVars, readVars>> PROVE CallInv'
    BY <1>14, EndsSomewhere DEF CommitProves, Goes, RollsBack, outside, installVars,
       readVars, CallInv, OpAt, Undoing, InstallPcs
  <1>15. ASSUME DeleteCandidate, UNCHANGED <<installVars, readVars>> PROVE
          CallInv'
    BY <1>15, EndsSomewhere DEF DeleteCandidate, Goes, callVars, outside,
       installVars, readVars, CallInv, OpAt, Undoing, InstallPcs
  <1>16. ASSUME DeleteJournal, UNCHANGED <<installVars, readVars>> PROVE
          CallInv'
    BY <1>16, EndsSomewhere DEF DeleteJournal, ForgetsJournal, callVars, outside,
       installVars, readVars, CallTypeOK, CallInv, OpAt, Undoing, InstallPcs
  <1>17. ASSUME RollbackPointer, UNCHANGED <<installVars, readVars>> PROVE
          CallInv'
    BY <1>17, EndsSomewhere DEF RollbackPointer, Goes, outside, installVars,
       readVars, CallInv, OpAt, Undoing, InstallPcs
  <1>18. ASSUME RollbackTree, UNCHANGED <<installVars, readVars>> PROVE CallInv'
    BY <1>18, EndsSomewhere DEF RollbackTree, Goes, callVars, outside, installVars,
       readVars, CallInv, OpAt, Undoing, InstallPcs
  <1>19. ASSUME RecoverReads, UNCHANGED <<installVars, readVars>> PROVE CallInv'
    BY <1>19 DEF RecoverReads, Returns, Goes, RecoverSpent, outside, installVars,
       readVars, CallInv, OpAt, Undoing, InstallPcs
  <1>20. ASSUME RecoverDispatches, UNCHANGED <<installVars, readVars>> PROVE
          CallInv'
    BY <1>20 DEF RecoverDispatches, Goes, callVars, outside, installVars, readVars,
       TxInv, Finishing, Journal, CallInv, OpAt, Undoing, InstallPcs
  <1>21. ASSUME RecoverPublishing, UNCHANGED <<installVars, readVars>> PROVE
          CallInv'
    BY <1>21 DEF RecoverPublishing, Returns, Goes, outside, installVars, readVars,
       CallInv, OpAt, Undoing, InstallPcs
  <1>22. ASSUME RecoverRechecks, UNCHANGED <<installVars, readVars>> PROVE
          CallInv'
    BY <1>22 DEF RecoverRechecks, Goes, Returns, callVars, outside, installVars,
       readVars, CallInv, OpAt, Undoing, InstallPcs
  <1>23. ASSUME RecoverDone, UNCHANGED <<installVars, readVars>> PROVE CallInv'
    BY <1>23 DEF RecoverDone, Returns, callVars, outside, installVars, readVars,
       CallInv, OpAt, Undoing, InstallPcs
  <1>24. ASSUME Restore(previous), UNCHANGED <<installVars, readVars>> PROVE
          CallInv'
    BY <1>24 DEF Restore, Returns, Goes, outside, installVars, readVars, CallInv,
       OpAt, Undoing, InstallPcs
  <1>25. ASSUME Discard, UNCHANGED <<installVars, readVars>> PROVE CallInv'
    BY <1>25, ReadViewIsKnown DEF Discard, Returns, callVars, outside, installVars,
       readVars, CallInv, OpAt, Undoing, InstallPcs
  <1>26. ASSUME Install PROVE CallInv'
    BY <1>26, StoreAssumption DEF Install, Calls, Keeps, KeepsCall, readVars,
       outside, InstallTypeOK, Tree, CallInv, OpAt, Undoing, InstallPcs
  <1>27. ASSUME Stage PROVE CallInv'
    BY <1>27 DEF Stage, Returned, Idles, KeepsCall, KeepsRecord, outside, readVars,
       CallInv, OpAt, Undoing, InstallPcs
  <1>28. ASSUME Staged PROVE CallInv'
    BY <1>28 DEF Staged, KeepsRecord, outside, readVars, KeepsCall, CallInv, OpAt,
       Undoing, InstallPcs
  <1>29. ASSUME StageFails PROVE CallInv'
    BY <1>29 DEF StageFails, Reports, KeepsCall, KeepsRecord, outside, readVars,
       InstallTypeOK, CallInv, OpAt, Undoing, InstallPcs
  <1>30. ASSUME ReadPrevious PROVE CallInv'
    BY <1>30, ReadViewIsKnown DEF ReadPrevious, Calls, Keeps, readVars, outside,
       CallInv, OpAt, Undoing, InstallPcs
  <1>31. ASSUME Activate PROVE CallInv'
    BY <1>31 DEF Activate, Continue, Returned, Calls, Keeps, KeepsCall, KeepsRecord,
       readVars, outside, CallInv, OpAt, Undoing, InstallPcs
  <1>32. ASSUME PublishFailed PROVE CallInv'
    BY <1>32 DEF PublishFailed, Retreat, Returned, Calls, Keeps, KeepsCall,
       KeepsRecord, readVars, outside, CallInv, OpAt, Undoing, InstallPcs
  <1>33. ASSUME ActivateFailed PROVE CallInv'
    BY <1>33 DEF ActivateFailed, Retreat, Returned, Calls, Keeps, KeepsCall,
       KeepsRecord, readVars, outside, CallInv, OpAt, Undoing, InstallPcs
  <1>34. ASSUME DiscardFailed PROVE CallInv'
    BY <1>34 DEF DiscardFailed, Retreat, Returned, Calls, Keeps, KeepsCall,
       KeepsRecord, readVars, outside, CallInv, OpAt, Undoing, InstallPcs
  <1>35. ASSUME InstallFailed PROVE CallInv'
    BY <1>35 DEF InstallFailed, Fails, Returned, Reports, Idles, Keeps, KeepsCall,
       KeepsRecord, readVars, outside, CallInv, OpAt, Undoing, InstallPcs
  <1>36. ASSUME Handshake PROVE CallInv'
    BY <1>36 DEF Handshake, Returned, Calls, Keeps, KeepsCall, readVars, outside,
       CallInv, OpAt, Undoing, InstallPcs
  <1>37. ASSUME FinalizeFailed PROVE CallInv'
    BY <1>37 DEF FinalizeFailed, Retreat, Returned, Calls, Keeps, KeepsCall,
       KeepsRecord, readVars, outside, CallInv, OpAt, Undoing, InstallPcs
  <1>38. ASSUME RestoreEnds PROVE CallInv'
    BY <1>38, EndsSomewhere DEF RestoreEnds, Fails, Returned, Reports, Idles, Keeps,
       KeepsCall, KeepsRecord, readVars, outside, CallInv, OpAt, Undoing, InstallPcs
  <1>39. ASSUME Ready PROVE CallInv'
    BY <1>39 DEF Ready, Returned, Reports, Idles, Keeps, KeepsCall, readVars,
       outside, CallInv, OpAt, Undoing, InstallPcs
  <1>40. ASSUME ReaderReadsPointer PROVE CallInv'
    BY <1>40 DEF ReaderReadsPointer, storeVars, installVars, callVars, CallInv, OpAt,
       Undoing, InstallPcs
  <1>41. ASSUME ReaderReadsJournal PROVE CallInv'
    BY <1>41, ReadViewIsKnown DEF ReaderReadsJournal, storeVars, installVars,
       callVars, CallInv, OpAt, Undoing, InstallPcs
  <1>42. ASSUME Crash PROVE CallInv'
    BY <1>42 DEF Crash, StoreCrash, CallInv, OpAt, Undoing, InstallPcs
  <1>43. ASSUME NEW t \in Tree, Damage(t), UNCHANGED <<installVars, readVars>>
          PROVE CallInv'
    BY <1>43 DEF Damage, callVars, installVars, readVars, CallInv, OpAt, Undoing,
       InstallPcs
  <1>44. CASE UNCHANGED vars
    BY <1>44 DEF vars, storeVars, diskVars, callVars, outside, installVars, readVars,
       CallInv, OpAt, Undoing, InstallPcs
  <1>45. QED
    BY <1>1, <1>2, <1>3, <1>4, <1>5, <1>6, <1>7, <1>8, <1>9, <1>10, <1>11, <1>12,
       <1>13, <1>14, <1>15, <1>16, <1>17, <1>18, <1>19, <1>20, <1>21, <1>22, <1>23,
       <1>24, <1>25, <1>26, <1>27, <1>28, <1>29, <1>30, <1>31, <1>32, <1>33, <1>34,
       <1>35, <1>36, <1>37, <1>38, <1>39, <1>40, <1>41, <1>42, <1>43, <1>44 DEF Next,
       InstallStep, StoreWorks

\* Every step keeps what is known of the journal that an operation holds.
LEMMA TxKept == DiskTypeOK /\ CallTypeOK /\ InstallTypeOK /\ CallInv /\ TxInv /\
    [Next]_vars => TxInv'
  <1> SUFFICES ASSUME DiskTypeOK, CallTypeOK, InstallTypeOK, CallInv, TxInv,
          [Next]_vars PROVE TxInv'
    OBVIOUS
  <1>1. ASSUME NEW t \in Tree, PublishIntent(t), UNCHANGED <<installVars,
          readVars>> PROVE TxInv'
    <2> DEFINE j == [phase |-> "publishing", cand |-> t, prev |-> active, keep |-> TRUE]
    <2>1. j \in Journal /\ j.cand = t
      BY DEF DiskTypeOK, Journal
    <2>2. attempt' = attempt /\ t = attempt
      BY <1>1 DEF PublishIntent, CallInv, installVars
    <2> HIDE DEF j
    <2>3. \/ pc' = "move" /\ journal' = j /\ tx' = j
          \/ pc' = "returned" /\ result' = "failed"
      BY <1>1 DEF PublishIntent, WritesJournal, Goes, Returns, j
    <2>4. QED
      BY <2>1, <2>2, <2>3 DEF TxInv, Mine, Undoing, Finishing
  <1>2. ASSUME NEW t \in Tree, ReconcileQuarantines(t), UNCHANGED <<installVars,
          readVars>> PROVE TxInv'
    BY <1>2, EndsSomewhere DEF ReconcileQuarantines, Moves, Goes, diskVars, outside,
       installVars, readVars, CallInv, CallTypeOK, DiskTypeOK, Journal, NoJournal, OpAt,
       InstallPcs, TxInv, Mine, Undoing, Finishing
  <1>3. ASSUME NEW t \in Tree, SweepDeletes(t), UNCHANGED <<installVars,
          readVars>> PROVE TxInv'
    BY <1>3 DEF SweepDeletes, Moves, Returns, callVars, outside, installVars,
       readVars, CallInv, CallTypeOK, DiskTypeOK, Journal, NoJournal, OpAt, InstallPcs,
       TxInv, Mine, Undoing, Finishing
  <1>4. ASSUME PublishMove, UNCHANGED <<installVars, readVars>> PROVE TxInv'
    BY <1>4 DEF PublishMove, Moves, Goes, diskVars, Returns, callVars, outside,
       installVars, readVars, CallInv, CallTypeOK, DiskTypeOK, Journal, NoJournal, OpAt,
       InstallPcs, TxInv, Mine, Undoing, Finishing
  <1>5. ASSUME PublishAwaits, UNCHANGED <<installVars, readVars>> PROVE TxInv'
    BY <1>5 DEF PublishAwaits, WritesJournal, Returns, diskVars, outside,
       installVars, readVars, CallInv, CallTypeOK, DiskTypeOK, Journal, NoJournal, OpAt,
       InstallPcs, TxInv, Mine, Undoing, Finishing
  <1>6. ASSUME ActivatePointer, UNCHANGED <<installVars, readVars>> PROVE TxInv'
    BY <1>6 DEF ActivatePointer, Returns, diskVars, Goes, PointsTo, outside,
       installVars, readVars, CallInv, CallTypeOK, DiskTypeOK, Journal, NoJournal, OpAt,
       InstallPcs, TxInv, Mine, Undoing, Finishing
  <1>7. ASSUME ActivationProof, UNCHANGED <<installVars, readVars>> PROVE TxInv'
    BY <1>7 DEF ActivationProof, Returns, Goes, diskVars, outside, installVars,
       readVars, CallInv, CallTypeOK, DiskTypeOK, Journal, NoJournal, OpAt, InstallPcs,
       TxInv, Mine, Undoing, Finishing
  <1>8. ASSUME FinalizeIntent, UNCHANGED <<installVars, readVars>> PROVE TxInv'
    BY <1>8 DEF FinalizeIntent, Returns, diskVars, WritesJournal, Goes, outside,
       installVars, readVars, CallInv, CallTypeOK, DiskTypeOK, Journal, NoJournal, OpAt,
       InstallPcs, TxInv, Mine, Undoing, Finishing
  <1>9. ASSUME FinishStarts, UNCHANGED <<installVars, readVars>> PROVE TxInv'
    BY <1>9 DEF FinishStarts, Goes, RollsBack, diskVars, outside, installVars,
       readVars, CallInv, CallTypeOK, DiskTypeOK, Journal, NoJournal, OpAt, InstallPcs,
       TxInv, Mine, Undoing, Finishing
  <1>10. ASSUME ReconcileDeletes, UNCHANGED <<installVars, readVars>> PROVE
          TxInv'
    BY <1>10, EndsSomewhere DEF ReconcileDeletes, Moves, Goes, diskVars, callVars,
       outside, installVars, readVars, CallInv, CallTypeOK, DiskTypeOK, Journal,
       NoJournal, OpAt, InstallPcs, TxInv, Mine, Undoing, Finishing
  <1>11. ASSUME ReconcileDone, UNCHANGED <<installVars, readVars>> PROVE TxInv'
    BY <1>11, EndsSomewhere DEF ReconcileDone, Goes, diskVars, callVars, outside,
       installVars, readVars, CallInv, CallTypeOK, DiskTypeOK, Journal, NoJournal, OpAt,
       InstallPcs, TxInv, Mine, Undoing, Finishing
  <1>12. ASSUME FinishProves, UNCHANGED <<installVars, readVars>> PROVE TxInv'
    BY <1>12 DEF FinishProves, Goes, RollsBack, diskVars, outside, installVars,
       readVars, CallInv, CallTypeOK, DiskTypeOK, Journal, NoJournal, OpAt, InstallPcs,
       TxInv, Mine, Undoing, Finishing
  <1>13. ASSUME CommitJournal, UNCHANGED <<installVars, readVars>> PROVE TxInv'
    BY <1>13, EndsSomewhere DEF CommitJournal, diskVars, MovesJournal, Goes,
       callVars, outside, installVars, readVars, CallInv, CallTypeOK, DiskTypeOK,
       Journal, NoJournal, OpAt, InstallPcs, TxInv, Mine, Undoing, Finishing
  <1>14. ASSUME CommitProves, UNCHANGED <<installVars, readVars>> PROVE TxInv'
    BY <1>14, EndsSomewhere DEF CommitProves, Goes, diskVars, RestoresJournal,
       RollsBack, outside, installVars, readVars, CallInv, CallTypeOK, DiskTypeOK,
       Journal, NoJournal, OpAt, InstallPcs, TxInv, Mine, Undoing, Finishing
  <1>15. ASSUME DeleteCandidate, UNCHANGED <<installVars, readVars>> PROVE
          TxInv'
    BY <1>15, EndsSomewhere DEF DeleteCandidate, Moves, Goes, diskVars, callVars,
       outside, installVars, readVars, CallInv, CallTypeOK, DiskTypeOK, Journal,
       NoJournal, OpAt, InstallPcs, TxInv, Mine, Undoing, Finishing
  <1>16. ASSUME DeleteJournal, UNCHANGED <<installVars, readVars>> PROVE TxInv'
    BY <1>16, EndsSomewhere DEF DeleteJournal, ForgetsJournal, diskVars, callVars,
       outside, installVars, readVars, CallInv, CallTypeOK, DiskTypeOK, Journal,
       NoJournal, OpAt, InstallPcs, TxInv, Mine, Undoing, Finishing
  <1>17. ASSUME RollbackPointer, UNCHANGED <<installVars, readVars>> PROVE
          TxInv'
    BY <1>17, EndsSomewhere DEF RollbackPointer, diskVars, PointsTo, Goes, outside,
       installVars, readVars, CallInv, CallTypeOK, DiskTypeOK, Journal, NoJournal, OpAt,
       InstallPcs, TxInv, Mine, Undoing, Finishing
  <1>18. ASSUME RollbackTree, UNCHANGED <<installVars, readVars>> PROVE TxInv'
    BY <1>18, EndsSomewhere DEF RollbackTree, diskVars, Moves, Goes, callVars,
       outside, installVars, readVars, CallInv, CallTypeOK, DiskTypeOK, Journal,
       NoJournal, OpAt, InstallPcs, TxInv, Mine, Undoing, Finishing
  <1>19. ASSUME RecoverReads, UNCHANGED <<installVars, readVars>> PROVE TxInv'
    BY <1>19 DEF RecoverReads, Returns, diskVars, Goes, RecoverSpent, outside,
       RestoresJournal, installVars, readVars, CallInv, CallTypeOK, DiskTypeOK, Journal,
       NoJournal, OpAt, InstallPcs, TxInv, Mine, Undoing, Finishing
  <1>20. ASSUME RecoverDispatches, UNCHANGED <<installVars, readVars>> PROVE
          TxInv'
    BY <1>20 DEF RecoverDispatches, Goes, diskVars, callVars, outside, installVars,
       readVars, CallInv, CallTypeOK, DiskTypeOK, Journal, NoJournal, OpAt, InstallPcs,
       TxInv, Mine, Undoing, Finishing
  <1>21. ASSUME RecoverPublishing, UNCHANGED <<installVars, readVars>> PROVE
          TxInv'
    BY <1>21 DEF RecoverPublishing, Returns, diskVars, Moves, Goes, outside,
       installVars, readVars, CallInv, CallTypeOK, DiskTypeOK, Journal, NoJournal, OpAt,
       InstallPcs, TxInv, Mine, Undoing, Finishing
  <1>22. ASSUME RecoverRechecks, UNCHANGED <<installVars, readVars>> PROVE
          TxInv'
    BY <1>22 DEF RecoverRechecks, Goes, Returns, diskVars, callVars, outside,
       installVars, readVars, CallInv, CallTypeOK, DiskTypeOK, Journal, NoJournal, OpAt,
       InstallPcs, TxInv, Mine, Undoing, Finishing
  <1>23. ASSUME RecoverDone, UNCHANGED <<installVars, readVars>> PROVE TxInv'
    BY <1>23 DEF RecoverDone, Returns, diskVars, callVars, outside, installVars,
       readVars, CallInv, CallTypeOK, DiskTypeOK, Journal, NoJournal, OpAt, InstallPcs,
       TxInv, Mine, Undoing, Finishing
  <1>24. ASSUME Restore(previous), UNCHANGED <<installVars, readVars>> PROVE
          TxInv'
    BY <1>24 DEF Restore, Returns, Goes, diskVars, outside, installVars, readVars,
       CallInv, CallTypeOK, DiskTypeOK, Journal, NoJournal, OpAt, InstallPcs, TxInv,
       Mine, Undoing, Finishing
  <1>25. ASSUME Discard, UNCHANGED <<installVars, readVars>> PROVE TxInv'
    BY <1>25, ReadViewIsKnown DEF Discard, Returns, diskVars, Moves, callVars,
       outside, installVars, readVars, CallInv, CallTypeOK, DiskTypeOK, Journal,
       NoJournal, OpAt, InstallPcs, TxInv, Mine, Undoing, Finishing
  <1>26. ASSUME Install PROVE TxInv'
    BY <1>26 DEF Install, Calls, Keeps, KeepsCall, readVars, diskVars, outside,
       CallInv, CallTypeOK, DiskTypeOK, Journal, NoJournal, OpAt, InstallPcs, TxInv,
       Mine, Undoing, Finishing
  <1>27. ASSUME Stage PROVE TxInv'
    BY <1>27 DEF Stage, Returned, Idles, KeepsCall, KeepsRecord, outside, readVars,
       CallInv, CallTypeOK, DiskTypeOK, Journal, NoJournal, OpAt, InstallPcs, TxInv,
       Mine, Undoing, Finishing
  <1>28. ASSUME Staged PROVE TxInv'
    BY <1>28 DEF Staged, KeepsRecord, outside, readVars, KeepsCall, CallInv,
       CallTypeOK, DiskTypeOK, Journal, NoJournal, OpAt, InstallPcs, TxInv, Mine,
       Undoing, Finishing
  <1>29. ASSUME StageFails PROVE TxInv'
    BY <1>29 DEF StageFails, Reports, KeepsCall, KeepsRecord, outside, readVars,
       CallInv, CallTypeOK, DiskTypeOK, Journal, NoJournal, OpAt, InstallPcs, TxInv,
       Mine, Undoing, Finishing
  <1>30. ASSUME ReadPrevious PROVE TxInv'
    BY <1>30, ReadViewIsKnown DEF ReadPrevious, Calls, Keeps, readVars, diskVars,
       outside, CallInv, CallTypeOK, DiskTypeOK, Journal, NoJournal, OpAt, InstallPcs,
       TxInv, Mine, Undoing, Finishing
  <1>31. ASSUME Activate PROVE TxInv'
    BY <1>31 DEF Activate, Continue, Returned, Calls, Keeps, KeepsCall, KeepsRecord,
       readVars, diskVars, outside, CallInv, CallTypeOK, DiskTypeOK, Journal, NoJournal,
       OpAt, InstallPcs, TxInv, Mine, Undoing, Finishing
  <1>32. ASSUME PublishFailed PROVE TxInv'
    BY <1>32 DEF PublishFailed, Retreat, Returned, Calls, Keeps, KeepsCall,
       KeepsRecord, readVars, diskVars, outside, CallInv, CallTypeOK, DiskTypeOK,
       Journal, NoJournal, OpAt, InstallPcs, TxInv, Mine, Undoing, Finishing
  <1>33. ASSUME ActivateFailed PROVE TxInv'
    BY <1>33 DEF ActivateFailed, Retreat, Returned, Calls, Keeps, KeepsCall,
       KeepsRecord, readVars, diskVars, outside, CallInv, CallTypeOK, DiskTypeOK,
       Journal, NoJournal, OpAt, InstallPcs, TxInv, Mine, Undoing, Finishing
  <1>34. ASSUME DiscardFailed PROVE TxInv'
    BY <1>34 DEF DiscardFailed, Retreat, Returned, Calls, Keeps, KeepsCall,
       KeepsRecord, readVars, diskVars, outside, CallInv, CallTypeOK, DiskTypeOK,
       Journal, NoJournal, OpAt, InstallPcs, TxInv, Mine, Undoing, Finishing
  <1>35. ASSUME InstallFailed PROVE TxInv'
    BY <1>35 DEF InstallFailed, Fails, Returned, Reports, Idles, Keeps, KeepsCall,
       KeepsRecord, readVars, diskVars, outside, CallInv, CallTypeOK, DiskTypeOK,
       Journal, NoJournal, OpAt, InstallPcs, TxInv, Mine, Undoing, Finishing
  <1>36. ASSUME Handshake PROVE TxInv'
    BY <1>36 DEF Handshake, Returned, Calls, Keeps, KeepsCall, readVars, diskVars,
       outside, CallInv, CallTypeOK, DiskTypeOK, Journal, NoJournal, OpAt, InstallPcs,
       TxInv, Mine, Undoing, Finishing
  <1>37. ASSUME FinalizeFailed PROVE TxInv'
    BY <1>37 DEF FinalizeFailed, Retreat, Returned, Calls, Keeps, KeepsCall,
       KeepsRecord, readVars, diskVars, outside, CallInv, CallTypeOK, DiskTypeOK,
       Journal, NoJournal, OpAt, InstallPcs, TxInv, Mine, Undoing, Finishing
  <1>38. ASSUME RestoreEnds PROVE TxInv'
    BY <1>38, EndsSomewhere DEF RestoreEnds, Fails, Returned, Reports, Idles, Keeps,
       KeepsCall, KeepsRecord, readVars, diskVars, outside, CallInv, CallTypeOK,
       DiskTypeOK, Journal, NoJournal, OpAt, InstallPcs, TxInv, Mine, Undoing, Finishing
  <1>39. ASSUME Ready PROVE TxInv'
    BY <1>39 DEF Ready, Returned, Reports, Idles, Keeps, KeepsCall, readVars,
       diskVars, outside, CallInv, CallTypeOK, DiskTypeOK, Journal, NoJournal, OpAt,
       InstallPcs, TxInv, Mine, Undoing, Finishing
  <1>40. ASSUME ReaderReadsPointer PROVE TxInv'
    BY <1>40 DEF ReaderReadsPointer, storeVars, installVars, diskVars, callVars,
       CallInv, CallTypeOK, DiskTypeOK, Journal, NoJournal, OpAt, InstallPcs, TxInv,
       Mine, Undoing, Finishing
  <1>41. ASSUME ReaderReadsJournal PROVE TxInv'
    BY <1>41, ReadViewIsKnown DEF ReaderReadsJournal, storeVars, installVars,
       diskVars, callVars, CallInv, CallTypeOK, DiskTypeOK, Journal, NoJournal, OpAt,
       InstallPcs, TxInv, Mine, Undoing, Finishing
  <1>42. ASSUME Crash PROVE TxInv'
    BY <1>42 DEF Crash, StoreCrash, diskVars, CallInv, CallTypeOK, DiskTypeOK,
       Journal, NoJournal, OpAt, InstallPcs, TxInv, Mine, Undoing, Finishing
  <1>43. ASSUME NEW t \in Tree, Damage(t), UNCHANGED <<installVars, readVars>>
          PROVE TxInv'
    BY <1>43 DEF Damage, callVars, installVars, readVars, TxInv, Mine, Undoing,
       Finishing
  <1>44. CASE UNCHANGED vars
    BY <1>44 DEF vars, storeVars, diskVars, callVars, outside, installVars, readVars,
       TxInv, Mine, Undoing, Finishing
  <1>45. QED
    BY <1>1, <1>2, <1>3, <1>4, <1>5, <1>6, <1>7, <1>8, <1>9, <1>10, <1>11, <1>12,
       <1>13, <1>14, <1>15, <1>16, <1>17, <1>18, <1>19, <1>20, <1>21, <1>22, <1>23,
       <1>24, <1>25, <1>26, <1>27, <1>28, <1>29, <1>30, <1>31, <1>32, <1>33, <1>34,
       <1>35, <1>36, <1>37, <1>38, <1>39, <1>40, <1>41, <1>42, <1>43, <1>44 DEF Next,
       InstallStep, StoreWorks

\* Every step keeps what a commit relies on.
LEMMA CommitsKept == DiskTypeOK /\ CallTypeOK /\ CallInv /\ TxInv /\ CommitInv /\
    [Next]_vars => CommitInv'
  <1> SUFFICES ASSUME DiskTypeOK, CallTypeOK, CallInv, TxInv, CommitInv,
          [Next]_vars PROVE CommitInv'
    OBVIOUS
  <1>1. ASSUME NEW t \in Tree, PublishIntent(t), UNCHANGED <<installVars,
          readVars>> PROVE CommitInv'
    BY <1>1 DEF PublishIntent, Returns, diskVars, WritesJournal, Goes, outside,
       installVars, readVars, CallInv, TxInv, Finishing, Undoing, DiskTypeOK, Journal,
       CommitInv
  <1>2. ASSUME NEW t \in Tree, ReconcileQuarantines(t), UNCHANGED <<installVars,
          readVars>> PROVE CommitInv'
    BY <1>2, EndsSomewhere DEF ReconcileQuarantines, Moves, Goes, diskVars, outside,
       installVars, readVars, CallInv, TxInv, Finishing, Undoing, DiskTypeOK, Journal,
       CommitInv
  <1>3. ASSUME NEW t \in Tree, SweepDeletes(t), UNCHANGED <<installVars,
          readVars>> PROVE CommitInv'
    BY <1>3 DEF SweepDeletes, Moves, Returns, callVars, outside, installVars,
       readVars, CallInv, TxInv, Finishing, Undoing, DiskTypeOK, Journal, CommitInv
  <1>4. ASSUME PublishMove, UNCHANGED <<installVars, readVars>> PROVE CommitInv'
    BY <1>4 DEF PublishMove, Moves, Goes, diskVars, Returns, callVars, outside,
       installVars, readVars, CallInv, TxInv, Finishing, Undoing, DiskTypeOK, Journal,
       CommitInv
  <1>5. ASSUME PublishAwaits, UNCHANGED <<installVars, readVars>> PROVE
          CommitInv'
    BY <1>5 DEF PublishAwaits, WritesJournal, Returns, diskVars, outside,
       installVars, readVars, CallInv, TxInv, Finishing, Undoing, DiskTypeOK, Journal,
       CommitInv
  <1>6. ASSUME ActivatePointer, UNCHANGED <<installVars, readVars>> PROVE
          CommitInv'
    BY <1>6 DEF ActivatePointer, Returns, diskVars, Goes, PointsTo, outside,
       installVars, readVars, CallInv, TxInv, Finishing, Undoing, DiskTypeOK, Journal,
       CommitInv
  <1>7. ASSUME ActivationProof, UNCHANGED <<installVars, readVars>> PROVE
          CommitInv'
    BY <1>7 DEF ActivationProof, Returns, Goes, diskVars, outside, installVars,
       readVars, CallInv, TxInv, Finishing, Undoing, DiskTypeOK, Journal, CommitInv
  <1>8. ASSUME FinalizeIntent, UNCHANGED <<installVars, readVars>> PROVE
          CommitInv'
    BY <1>8 DEF FinalizeIntent, Returns, diskVars, WritesJournal, Goes, outside,
       installVars, readVars, CallInv, TxInv, Finishing, Undoing, DiskTypeOK, Journal,
       CommitInv
  <1>9. ASSUME FinishStarts, UNCHANGED <<installVars, readVars>> PROVE
          CommitInv'
    BY <1>9 DEF FinishStarts, Goes, RollsBack, diskVars, outside, installVars,
       readVars, CallInv, TxInv, Finishing, Undoing, DiskTypeOK, Journal, CommitInv
  <1>10. ASSUME ReconcileDeletes, UNCHANGED <<installVars, readVars>> PROVE
          CommitInv'
    BY <1>10, EndsSomewhere DEF ReconcileDeletes, Moves, Goes, diskVars, callVars,
       outside, installVars, readVars, CallInv, TxInv, Finishing, Undoing, DiskTypeOK,
       Journal, CommitInv
  <1>11. ASSUME ReconcileDone, UNCHANGED <<installVars, readVars>> PROVE
          CommitInv'
    BY <1>11, EndsSomewhere DEF ReconcileDone, Goes, diskVars, callVars, outside,
       installVars, readVars, CallInv, TxInv, Finishing, Undoing, DiskTypeOK, Journal,
       CommitInv
  <1>12. ASSUME FinishProves, UNCHANGED <<installVars, readVars>> PROVE
          CommitInv'
    BY <1>12 DEF FinishProves, Goes, RollsBack, diskVars, outside, installVars,
       readVars, CallInv, TxInv, Finishing, Undoing, DiskTypeOK, Journal, CommitInv
  <1>13. ASSUME CommitJournal, UNCHANGED <<installVars, readVars>> PROVE
          CommitInv'
    BY <1>13, EndsSomewhere DEF CommitJournal, diskVars, MovesJournal, Goes,
       callVars, outside, installVars, readVars, CallInv, TxInv, Finishing, Undoing,
       DiskTypeOK, Journal, CommitInv
  <1>14. ASSUME CommitProves, UNCHANGED <<installVars, readVars>> PROVE
          CommitInv'
    BY <1>14, EndsSomewhere DEF CommitProves, Goes, diskVars, RestoresJournal,
       RollsBack, outside, installVars, readVars, CallInv, TxInv, Finishing, Undoing,
       DiskTypeOK, Journal, CommitInv
  <1>15. ASSUME DeleteCandidate, UNCHANGED <<installVars, readVars>> PROVE
          CommitInv'
    BY <1>15, EndsSomewhere DEF DeleteCandidate, Moves, Goes, diskVars, callVars,
       outside, installVars, readVars, CallInv, TxInv, Finishing, Undoing, DiskTypeOK,
       Journal, CommitInv
  <1>16. ASSUME DeleteJournal, UNCHANGED <<installVars, readVars>> PROVE
          CommitInv'
    BY <1>16, EndsSomewhere DEF DeleteJournal, ForgetsJournal, diskVars, callVars,
       outside, installVars, readVars, CallTypeOK, CommitInv
  <1>17. ASSUME RollbackPointer, UNCHANGED <<installVars, readVars>> PROVE
          CommitInv'
    BY <1>17, EndsSomewhere DEF RollbackPointer, diskVars, PointsTo, Goes, outside,
       installVars, readVars, CallInv, TxInv, Finishing, Undoing, DiskTypeOK, Journal,
       CommitInv
  <1>18. ASSUME RollbackTree, UNCHANGED <<installVars, readVars>> PROVE
          CommitInv'
    BY <1>18, EndsSomewhere DEF RollbackTree, diskVars, Moves, Goes, callVars,
       outside, installVars, readVars, CallInv, TxInv, Finishing, Undoing, DiskTypeOK,
       Journal, CommitInv
  <1>19. ASSUME RecoverReads, UNCHANGED <<installVars, readVars>> PROVE
          CommitInv'
    BY <1>19 DEF RecoverReads, Returns, diskVars, Goes, RecoverSpent, outside,
       RestoresJournal, installVars, readVars, CallInv, TxInv, Finishing, Undoing,
       DiskTypeOK, Journal, CommitInv
  <1>20. ASSUME RecoverDispatches, UNCHANGED <<installVars, readVars>> PROVE
          CommitInv'
    BY <1>20 DEF RecoverDispatches, Goes, diskVars, callVars, outside, installVars,
       readVars, CallInv, TxInv, Finishing, Undoing, DiskTypeOK, Journal, CommitInv
  <1>21. ASSUME RecoverPublishing, UNCHANGED <<installVars, readVars>> PROVE
          CommitInv'
    BY <1>21 DEF RecoverPublishing, Returns, diskVars, Moves, Goes, outside,
       installVars, readVars, CallInv, TxInv, Finishing, Undoing, DiskTypeOK, Journal,
       CommitInv
  <1>22. ASSUME RecoverRechecks, UNCHANGED <<installVars, readVars>> PROVE
          CommitInv'
    BY <1>22 DEF RecoverRechecks, Goes, Returns, diskVars, callVars, outside,
       installVars, readVars, CallInv, TxInv, Finishing, Undoing, DiskTypeOK, Journal,
       CommitInv
  <1>23. ASSUME RecoverDone, UNCHANGED <<installVars, readVars>> PROVE
          CommitInv'
    BY <1>23 DEF RecoverDone, Returns, diskVars, callVars, outside, installVars,
       readVars, CallInv, TxInv, Finishing, Undoing, DiskTypeOK, Journal, CommitInv
  <1>24. ASSUME Restore(previous), UNCHANGED <<installVars, readVars>> PROVE
          CommitInv'
    BY <1>24 DEF Restore, Returns, Goes, diskVars, outside, installVars, readVars,
       CallInv, TxInv, Finishing, Undoing, DiskTypeOK, Journal, CommitInv
  <1>25. ASSUME Discard, UNCHANGED <<installVars, readVars>> PROVE CommitInv'
    BY <1>25, ReadViewIsKnown DEF Discard, Returns, diskVars, Moves, callVars,
       outside, installVars, readVars, CallInv, TxInv, Finishing, Undoing, DiskTypeOK,
       Journal, CommitInv
  <1>26. ASSUME Install PROVE CommitInv'
    BY <1>26 DEF Install, Calls, Keeps, KeepsCall, readVars, diskVars, outside,
       CallInv, TxInv, Finishing, Undoing, DiskTypeOK, Journal, CommitInv
  <1>27. ASSUME Stage PROVE CommitInv'
    BY <1>27 DEF Stage, Returned, Idles, KeepsCall, KeepsRecord, outside, readVars,
       CallInv, TxInv, Finishing, Undoing, DiskTypeOK, Journal, CommitInv
  <1>28. ASSUME Staged PROVE CommitInv'
    BY <1>28 DEF Staged, KeepsRecord, outside, readVars, KeepsCall, CallInv, TxInv,
       Finishing, Undoing, DiskTypeOK, Journal, CommitInv
  <1>29. ASSUME StageFails PROVE CommitInv'
    BY <1>29 DEF StageFails, Reports, KeepsCall, KeepsRecord, outside, readVars,
       CallInv, TxInv, Finishing, Undoing, DiskTypeOK, Journal, CommitInv
  <1>30. ASSUME ReadPrevious PROVE CommitInv'
    BY <1>30, ReadViewIsKnown DEF ReadPrevious, Calls, Keeps, readVars, diskVars,
       outside, CallInv, TxInv, Finishing, Undoing, DiskTypeOK, Journal, CommitInv
  <1>31. ASSUME Activate PROVE CommitInv'
    BY <1>31 DEF Activate, Continue, Returned, Calls, Keeps, KeepsCall, KeepsRecord,
       readVars, diskVars, outside, CallInv, TxInv, Finishing, Undoing, DiskTypeOK,
       Journal, CommitInv
  <1>32. ASSUME PublishFailed PROVE CommitInv'
    BY <1>32 DEF PublishFailed, Retreat, Returned, Calls, Keeps, KeepsCall,
       KeepsRecord, readVars, diskVars, outside, CallInv, TxInv, Finishing, Undoing,
       DiskTypeOK, Journal, CommitInv
  <1>33. ASSUME ActivateFailed PROVE CommitInv'
    BY <1>33 DEF ActivateFailed, Retreat, Returned, Calls, Keeps, KeepsCall,
       KeepsRecord, readVars, diskVars, outside, CallInv, TxInv, Finishing, Undoing,
       DiskTypeOK, Journal, CommitInv
  <1>34. ASSUME DiscardFailed PROVE CommitInv'
    BY <1>34 DEF DiscardFailed, Retreat, Returned, Calls, Keeps, KeepsCall,
       KeepsRecord, readVars, diskVars, outside, CallInv, TxInv, Finishing, Undoing,
       DiskTypeOK, Journal, CommitInv
  <1>35. ASSUME InstallFailed PROVE CommitInv'
    BY <1>35 DEF InstallFailed, Fails, Returned, Reports, Idles, Keeps, KeepsCall,
       KeepsRecord, readVars, diskVars, outside, CallInv, TxInv, Finishing, Undoing,
       DiskTypeOK, Journal, CommitInv
  <1>36. ASSUME Handshake PROVE CommitInv'
    BY <1>36 DEF Handshake, Returned, Calls, Keeps, KeepsCall, readVars, diskVars,
       outside, CallInv, TxInv, Finishing, Undoing, DiskTypeOK, Journal, CommitInv
  <1>37. ASSUME FinalizeFailed PROVE CommitInv'
    BY <1>37 DEF FinalizeFailed, Retreat, Returned, Calls, Keeps, KeepsCall,
       KeepsRecord, readVars, diskVars, outside, CallInv, TxInv, Finishing, Undoing,
       DiskTypeOK, Journal, CommitInv
  <1>38. ASSUME RestoreEnds PROVE CommitInv'
    BY <1>38, EndsSomewhere DEF RestoreEnds, Fails, Returned, Reports, Idles, Keeps,
       KeepsCall, KeepsRecord, readVars, diskVars, outside, CallInv, TxInv, Finishing,
       Undoing, DiskTypeOK, Journal, CommitInv
  <1>39. ASSUME Ready PROVE CommitInv'
    BY <1>39 DEF Ready, Returned, Reports, Idles, Keeps, KeepsCall, readVars,
       diskVars, outside, CallInv, TxInv, Finishing, Undoing, DiskTypeOK, Journal,
       CommitInv
  <1>40. ASSUME ReaderReadsPointer PROVE CommitInv'
    BY <1>40 DEF ReaderReadsPointer, storeVars, installVars, diskVars, callVars,
       CallInv, TxInv, Finishing, Undoing, DiskTypeOK, Journal, CommitInv
  <1>41. ASSUME ReaderReadsJournal PROVE CommitInv'
    BY <1>41, ReadViewIsKnown DEF ReaderReadsJournal, storeVars, installVars,
       diskVars, callVars, CallInv, TxInv, Finishing, Undoing, DiskTypeOK, Journal,
       CommitInv
  <1>42. ASSUME Crash PROVE CommitInv'
    BY <1>42 DEF Crash, StoreCrash, diskVars, CallInv, TxInv, Finishing, Undoing,
       DiskTypeOK, Journal, CommitInv
  <1>43. ASSUME NEW t \in Tree, Damage(t), UNCHANGED <<installVars, readVars>>
          PROVE CommitInv'
    BY <1>43 DEF Damage, callVars, installVars, readVars, CallInv, TxInv, Finishing,
       Undoing, DiskTypeOK, Journal, CommitInv
  <1>44. CASE UNCHANGED vars
    BY <1>44 DEF vars, storeVars, diskVars, callVars, outside, installVars, readVars,
       CommitInv
  <1>45. QED
    BY <1>1, <1>2, <1>3, <1>4, <1>5, <1>6, <1>7, <1>8, <1>9, <1>10, <1>11, <1>12,
       <1>13, <1>14, <1>15, <1>16, <1>17, <1>18, <1>19, <1>20, <1>21, <1>22, <1>23,
       <1>24, <1>25, <1>26, <1>27, <1>28, <1>29, <1>30, <1>31, <1>32, <1>33, <1>34,
       <1>35, <1>36, <1>37, <1>38, <1>39, <1>40, <1>41, <1>42, <1>43, <1>44 DEF Next,
       InstallStep, StoreWorks

\* Every step keeps what is known of every journal.
LEMMA JournalsKept == DiskTypeOK /\ CallInv /\ TxInv /\ PendingInv /\ JournalInv /\
    [Next]_vars => JournalInv'
  <1> SUFFICES ASSUME DiskTypeOK, CallInv, TxInv, PendingInv, JournalInv,
          [Next]_vars PROVE JournalInv'
    OBVIOUS
  <1>1. ASSUME NEW t \in Tree, PublishIntent(t), UNCHANGED <<installVars,
          readVars>> PROVE JournalInv'
    BY <1>1 DEF PublishIntent, Returns, diskVars, WritesJournal, Goes, outside,
       installVars, readVars, PendingInv, NoJournal, DiskTypeOK, Valid, JournalInv
  <1>2. ASSUME NEW t \in Tree, ReconcileQuarantines(t), UNCHANGED <<installVars,
          readVars>> PROVE JournalInv'
    BY <1>2, EndsSomewhere DEF ReconcileQuarantines, Moves, Goes, diskVars, outside,
       installVars, readVars, NoJournal, JournalInv
  <1>3. ASSUME NEW t \in Tree, SweepDeletes(t), UNCHANGED <<installVars,
          readVars>> PROVE JournalInv'
    BY <1>3 DEF SweepDeletes, Moves, Returns, callVars, outside, installVars,
       readVars, NoJournal, JournalInv
  <1>4. ASSUME PublishMove, UNCHANGED <<installVars, readVars>> PROVE
          JournalInv'
    BY <1>4 DEF PublishMove, Moves, Goes, diskVars, Returns, callVars, outside,
       installVars, readVars, NoJournal, JournalInv
  <1>5. ASSUME PublishAwaits, UNCHANGED <<installVars, readVars>> PROVE
          JournalInv'
    BY <1>5 DEF PublishAwaits, WritesJournal, Returns, diskVars, outside,
       installVars, readVars, TxInv, Undoing, Finishing, Journal, JournalInv
  <1>6. ASSUME ActivatePointer, UNCHANGED <<installVars, readVars>> PROVE
          JournalInv'
    BY <1>6 DEF ActivatePointer, Returns, diskVars, Goes, PointsTo, outside,
       installVars, readVars, NoJournal, JournalInv
  <1>7. ASSUME ActivationProof, UNCHANGED <<installVars, readVars>> PROVE
          JournalInv'
    BY <1>7 DEF ActivationProof, Returns, Goes, diskVars, outside, installVars,
       readVars, NoJournal, JournalInv
  <1>8. ASSUME FinalizeIntent, UNCHANGED <<installVars, readVars>> PROVE
          JournalInv'
    <2> DEFINE j == [tx EXCEPT !.phase = "finalizing",
                              !.keep = tx.prev # 0 /\ PreviousValid(tx)]
    <2>1. CASE UNCHANGED <<journal, tx>>
      BY <1>8, <2>1 DEF FinalizeIntent, WritesJournal, diskVars, JournalInv, installVars
    <2>2. CASE journal' = j
      <3>1. /\ tx \in Journal /\ tx.cand \in verified
            /\ tx.prev \in verified \cup {0}
        BY <1>8 DEF FinalizeIntent, TxInv, Undoing, Finishing, Mine, JournalInv
      <3>2. j.prev = tx.prev /\ j.cand = tx.cand
        BY <3>1 DEF Journal
      <3>3. tx' \in {tx, j} /\ UNCHANGED <<spent, verified>>
        BY <1>8, <2>2 DEF FinalizeIntent, WritesJournal, diskVars, installVars
      <3> HIDE DEF j
      <3>4. QED
        BY <2>2, <3>1, <3>2, <3>3 DEF JournalInv
    <2>3. QED
      BY <1>8, <2>1, <2>2 DEF FinalizeIntent, WritesJournal, diskVars
  <1>9. ASSUME FinishStarts, UNCHANGED <<installVars, readVars>> PROVE
          JournalInv'
    BY <1>9 DEF FinishStarts, Goes, RollsBack, diskVars, outside, installVars,
       readVars, NoJournal, JournalInv
  <1>10. ASSUME ReconcileDeletes, UNCHANGED <<installVars, readVars>> PROVE
          JournalInv'
    BY <1>10, EndsSomewhere DEF ReconcileDeletes, Moves, Goes, diskVars, callVars,
       outside, installVars, readVars, NoJournal, JournalInv
  <1>11. ASSUME ReconcileDone, UNCHANGED <<installVars, readVars>> PROVE
          JournalInv'
    BY <1>11, EndsSomewhere DEF ReconcileDone, Goes, diskVars, callVars, outside,
       installVars, readVars, NoJournal, JournalInv
  <1>12. ASSUME FinishProves, UNCHANGED <<installVars, readVars>> PROVE
          JournalInv'
    BY <1>12 DEF FinishProves, Goes, RollsBack, diskVars, outside, installVars,
       readVars, NoJournal, JournalInv
  <1>13. ASSUME CommitJournal, UNCHANGED <<installVars, readVars>> PROVE
          JournalInv'
    BY <1>13, EndsSomewhere DEF CommitJournal, diskVars, MovesJournal, Goes,
       callVars, outside, installVars, readVars, NoJournal, JournalInv
  <1>14. ASSUME CommitProves, UNCHANGED <<installVars, readVars>> PROVE
          JournalInv'
    BY <1>14, EndsSomewhere DEF CommitProves, Goes, diskVars, RestoresJournal,
       RollsBack, outside, installVars, readVars, NoJournal, JournalInv
  <1>15. ASSUME DeleteCandidate, UNCHANGED <<installVars, readVars>> PROVE
          JournalInv'
    BY <1>15, EndsSomewhere DEF DeleteCandidate, Moves, Goes, diskVars, callVars,
       outside, installVars, readVars, NoJournal, JournalInv
  <1>16. ASSUME DeleteJournal, UNCHANGED <<installVars, readVars>> PROVE
          JournalInv'
    BY <1>16, EndsSomewhere DEF DeleteJournal, ForgetsJournal, diskVars, callVars,
       outside, installVars, readVars, NoJournal, JournalInv
  <1>17. ASSUME RollbackPointer, UNCHANGED <<installVars, readVars>> PROVE
          JournalInv'
    BY <1>17, EndsSomewhere DEF RollbackPointer, diskVars, PointsTo, Goes, outside,
       installVars, readVars, NoJournal, JournalInv
  <1>18. ASSUME RollbackTree, UNCHANGED <<installVars, readVars>> PROVE
          JournalInv'
    BY <1>18, EndsSomewhere DEF RollbackTree, diskVars, Moves, Goes, callVars,
       outside, installVars, readVars, NoJournal, JournalInv
  <1>19. ASSUME RecoverReads, UNCHANGED <<installVars, readVars>> PROVE
          JournalInv'
    BY <1>19 DEF RecoverReads, Returns, diskVars, Goes, RecoverSpent, outside,
       RestoresJournal, installVars, readVars, NoJournal, JournalInv
  <1>20. ASSUME RecoverDispatches, UNCHANGED <<installVars, readVars>> PROVE
          JournalInv'
    BY <1>20 DEF RecoverDispatches, Goes, diskVars, callVars, outside, installVars,
       readVars, NoJournal, JournalInv
  <1>21. ASSUME RecoverPublishing, UNCHANGED <<installVars, readVars>> PROVE
          JournalInv'
    BY <1>21 DEF RecoverPublishing, Returns, diskVars, Moves, Goes, outside,
       installVars, readVars, NoJournal, JournalInv
  <1>22. ASSUME RecoverRechecks, UNCHANGED <<installVars, readVars>> PROVE
          JournalInv'
    BY <1>22 DEF RecoverRechecks, Goes, Returns, diskVars, callVars, outside,
       installVars, readVars, NoJournal, JournalInv
  <1>23. ASSUME RecoverDone, UNCHANGED <<installVars, readVars>> PROVE
          JournalInv'
    BY <1>23 DEF RecoverDone, Returns, diskVars, callVars, outside, installVars,
       readVars, NoJournal, JournalInv
  <1>24. ASSUME Restore(previous), UNCHANGED <<installVars, readVars>> PROVE
          JournalInv'
    BY <1>24 DEF Restore, Returns, Goes, diskVars, outside, installVars, readVars,
       NoJournal, JournalInv
  <1>25. ASSUME Discard, UNCHANGED <<installVars, readVars>> PROVE JournalInv'
    BY <1>25, ReadViewIsKnown DEF Discard, Returns, diskVars, Moves, callVars,
       outside, installVars, readVars, NoJournal, JournalInv
  <1>26. ASSUME Install PROVE JournalInv'
    BY <1>26 DEF Install, Calls, Keeps, KeepsCall, readVars, diskVars, outside,
       NoJournal, JournalInv
  <1>27. ASSUME Stage PROVE JournalInv'
    BY <1>27 DEF Stage, Returned, Idles, KeepsCall, KeepsRecord, outside, readVars,
       NoJournal, JournalInv
  <1>28. ASSUME Staged PROVE JournalInv'
    BY <1>28 DEF Staged, KeepsRecord, outside, readVars, KeepsCall, NoJournal,
       JournalInv
  <1>29. ASSUME StageFails PROVE JournalInv'
    BY <1>29 DEF StageFails, Reports, KeepsCall, KeepsRecord, outside, readVars,
       NoJournal, JournalInv
  <1>30. ASSUME ReadPrevious PROVE JournalInv'
    BY <1>30, ReadViewIsKnown DEF ReadPrevious, Calls, Keeps, readVars, diskVars,
       outside, NoJournal, JournalInv
  <1>31. ASSUME Activate PROVE JournalInv'
    BY <1>31 DEF Activate, Continue, Returned, Calls, Keeps, KeepsCall, KeepsRecord,
       readVars, diskVars, outside, NoJournal, JournalInv
  <1>32. ASSUME PublishFailed PROVE JournalInv'
    BY <1>32 DEF PublishFailed, Retreat, Returned, Calls, Keeps, KeepsCall,
       KeepsRecord, readVars, diskVars, outside, NoJournal, JournalInv
  <1>33. ASSUME ActivateFailed PROVE JournalInv'
    BY <1>33 DEF ActivateFailed, Retreat, Returned, Calls, Keeps, KeepsCall,
       KeepsRecord, readVars, diskVars, outside, NoJournal, JournalInv
  <1>34. ASSUME DiscardFailed PROVE JournalInv'
    BY <1>34 DEF DiscardFailed, Retreat, Returned, Calls, Keeps, KeepsCall,
       KeepsRecord, readVars, diskVars, outside, NoJournal, JournalInv
  <1>35. ASSUME InstallFailed PROVE JournalInv'
    BY <1>35 DEF InstallFailed, Fails, Returned, Reports, Idles, Keeps, KeepsCall,
       KeepsRecord, readVars, diskVars, outside, NoJournal, JournalInv
  <1>36. ASSUME Handshake PROVE JournalInv'
    BY <1>36 DEF Handshake, Returned, Calls, Keeps, KeepsCall, readVars, diskVars,
       outside, NoJournal, JournalInv
  <1>37. ASSUME FinalizeFailed PROVE JournalInv'
    BY <1>37 DEF FinalizeFailed, Retreat, Returned, Calls, Keeps, KeepsCall,
       KeepsRecord, readVars, diskVars, outside, NoJournal, JournalInv
  <1>38. ASSUME RestoreEnds PROVE JournalInv'
    BY <1>38, EndsSomewhere DEF RestoreEnds, Fails, Returned, Reports, Idles, Keeps,
       KeepsCall, KeepsRecord, readVars, diskVars, outside, NoJournal, JournalInv
  <1>39. ASSUME Ready PROVE JournalInv'
    BY <1>39 DEF Ready, Returned, Reports, Idles, Keeps, KeepsCall, readVars,
       diskVars, outside, NoJournal, JournalInv
  <1>40. ASSUME ReaderReadsPointer PROVE JournalInv'
    BY <1>40 DEF ReaderReadsPointer, storeVars, installVars, diskVars, callVars,
       NoJournal, JournalInv
  <1>41. ASSUME ReaderReadsJournal PROVE JournalInv'
    BY <1>41, ReadViewIsKnown DEF ReaderReadsJournal, storeVars, installVars,
       diskVars, callVars, NoJournal, JournalInv
  <1>42. ASSUME Crash PROVE JournalInv'
    BY <1>42 DEF Crash, StoreCrash, diskVars, NoJournal, JournalInv
  <1>43. ASSUME NEW t \in Tree, Damage(t), UNCHANGED <<installVars, readVars>>
          PROVE JournalInv'
    BY <1>43 DEF Damage, callVars, installVars, readVars, NoJournal, JournalInv
  <1>44. CASE UNCHANGED vars
    BY <1>44 DEF vars, storeVars, diskVars, callVars, outside, installVars, readVars,
       JournalInv
  <1>45. QED
    BY <1>1, <1>2, <1>3, <1>4, <1>5, <1>6, <1>7, <1>8, <1>9, <1>10, <1>11, <1>12,
       <1>13, <1>14, <1>15, <1>16, <1>17, <1>18, <1>19, <1>20, <1>21, <1>22, <1>23,
       <1>24, <1>25, <1>26, <1>27, <1>28, <1>29, <1>30, <1>31, <1>32, <1>33, <1>34,
       <1>35, <1>36, <1>37, <1>38, <1>39, <1>40, <1>41, <1>42, <1>43, <1>44 DEF Next,
       InstallStep, StoreWorks

\* Without a journal every runtime in versions/ was verified.
LEMMA NoneIsPending ==
    ASSUME PendingInv, journal = NoJournal
    PROVE  \A t \in Tree : place[t] = "versions" => t \in verified
  BY StoreAssumption DEF PendingInv, NoJournal, Tree

\* Every step keeps unverified runtimes out of versions/ but for the candidate.
LEMMA PendingKept == DiskTypeOK /\ CallTypeOK /\ CallInv /\ TxInv /\ CommitInv /\
    JournalInv /\ PendingInv /\ [Next]_vars => PendingInv'
  <1> SUFFICES ASSUME DiskTypeOK, CallTypeOK, CallInv, TxInv, CommitInv,
          JournalInv, PendingInv, [Next]_vars PROVE PendingInv'
    OBVIOUS
  <1>1. ASSUME NEW t \in Tree, PublishIntent(t), UNCHANGED <<installVars,
          readVars>> PROVE PendingInv'
    BY <1>1, NoneIsPending DEF PublishIntent, Returns, diskVars, WritesJournal, Goes,
       outside, installVars, readVars, CallInv, TxInv, CommitInv, JournalInv, Finishing,
       Undoing, DiskTypeOK, CallTypeOK, Journal, NoJournal, Ambiguous, PendingInv
  <1>2. ASSUME NEW t \in Tree, ReconcileQuarantines(t), UNCHANGED <<installVars,
          readVars>> PROVE PendingInv'
    BY <1>2, EndsSomewhere DEF ReconcileQuarantines, Moves, Goes, diskVars, outside,
       installVars, readVars, CallInv, TxInv, CommitInv, JournalInv, Finishing, Undoing,
       DiskTypeOK, Journal, NoJournal, Mine, PendingInv
  <1>3. ASSUME NEW t \in Tree, SweepDeletes(t), UNCHANGED <<installVars,
          readVars>> PROVE PendingInv'
    BY <1>3 DEF SweepDeletes, Moves, Returns, callVars, outside, installVars,
       readVars, CallInv, TxInv, CommitInv, JournalInv, Finishing, Undoing, DiskTypeOK,
       Journal, NoJournal, Mine, PendingInv
  <1>4. ASSUME PublishMove, UNCHANGED <<installVars, readVars>> PROVE
          PendingInv'
    BY <1>4 DEF PublishMove, Moves, Goes, diskVars, Returns, callVars, outside,
       installVars, readVars, CallInv, TxInv, CommitInv, JournalInv, Finishing, Undoing,
       DiskTypeOK, Journal, NoJournal, Mine, PendingInv
  <1>5. ASSUME PublishAwaits, UNCHANGED <<installVars, readVars>> PROVE
          PendingInv'
    BY <1>5 DEF PublishAwaits, WritesJournal, Returns, diskVars, outside,
       installVars, readVars, CallInv, TxInv, CommitInv, JournalInv, Finishing, Undoing,
       DiskTypeOK, Journal, NoJournal, Mine, PendingInv
  <1>6. ASSUME ActivatePointer, UNCHANGED <<installVars, readVars>> PROVE
          PendingInv'
    BY <1>6 DEF ActivatePointer, Returns, diskVars, Goes, PointsTo, outside,
       installVars, readVars, CallInv, TxInv, CommitInv, JournalInv, Finishing, Undoing,
       DiskTypeOK, Journal, NoJournal, Mine, PendingInv
  <1>7. ASSUME ActivationProof, UNCHANGED <<installVars, readVars>> PROVE
          PendingInv'
    BY <1>7 DEF ActivationProof, Returns, Goes, diskVars, outside, installVars,
       readVars, CallInv, TxInv, CommitInv, JournalInv, Finishing, Undoing, DiskTypeOK,
       Journal, NoJournal, Mine, PendingInv
  <1>8. ASSUME FinalizeIntent, UNCHANGED <<installVars, readVars>> PROVE
          PendingInv'
    BY <1>8 DEF FinalizeIntent, Returns, diskVars, WritesJournal, Goes, outside,
       installVars, readVars, CallInv, TxInv, CommitInv, JournalInv, Finishing, Undoing,
       DiskTypeOK, Journal, NoJournal, Mine, PendingInv
  <1>9. ASSUME FinishStarts, UNCHANGED <<installVars, readVars>> PROVE
          PendingInv'
    BY <1>9 DEF FinishStarts, Goes, RollsBack, diskVars, outside, installVars,
       readVars, CallInv, TxInv, CommitInv, JournalInv, Finishing, Undoing, DiskTypeOK,
       Journal, NoJournal, Mine, PendingInv
  <1>10. ASSUME ReconcileDeletes, UNCHANGED <<installVars, readVars>> PROVE
          PendingInv'
    BY <1>10, EndsSomewhere DEF ReconcileDeletes, Moves, Goes, diskVars, callVars,
       outside, installVars, readVars, CallInv, TxInv, CommitInv, JournalInv, Finishing,
       Undoing, DiskTypeOK, Journal, NoJournal, Mine, PendingInv
  <1>11. ASSUME ReconcileDone, UNCHANGED <<installVars, readVars>> PROVE
          PendingInv'
    BY <1>11, EndsSomewhere DEF ReconcileDone, Goes, diskVars, callVars, outside,
       installVars, readVars, CallInv, TxInv, CommitInv, JournalInv, Finishing, Undoing,
       DiskTypeOK, Journal, NoJournal, Mine, PendingInv
  <1>12. ASSUME FinishProves, UNCHANGED <<installVars, readVars>> PROVE
          PendingInv'
    BY <1>12 DEF FinishProves, Goes, RollsBack, diskVars, outside, installVars,
       readVars, CallInv, TxInv, CommitInv, JournalInv, Finishing, Undoing, DiskTypeOK,
       Journal, NoJournal, Mine, PendingInv
  <1>13. ASSUME CommitJournal, UNCHANGED <<installVars, readVars>> PROVE
          PendingInv'
    BY <1>13, EndsSomewhere DEF CommitJournal, diskVars, MovesJournal, Goes,
       callVars, outside, installVars, readVars, CallInv, TxInv, CommitInv, JournalInv,
       Finishing, Undoing, DiskTypeOK, Journal, NoJournal, Mine, PendingInv
  <1>14. ASSUME CommitProves, UNCHANGED <<installVars, readVars>> PROVE
          PendingInv'
    BY <1>14, NoneIsPending, EndsSomewhere DEF CommitProves, Goes, diskVars,
       RestoresJournal, RollsBack, outside, installVars, readVars, CallInv, TxInv,
       CommitInv, JournalInv, Finishing, Undoing, DiskTypeOK, CallTypeOK, Journal,
       NoJournal, Ambiguous, PendingInv
  <1>15. ASSUME DeleteCandidate, UNCHANGED <<installVars, readVars>> PROVE
          PendingInv'
    BY <1>15, EndsSomewhere DEF DeleteCandidate, Moves, Goes, diskVars, callVars,
       outside, installVars, readVars, CallInv, TxInv, CommitInv, JournalInv, Finishing,
       Undoing, DiskTypeOK, Journal, NoJournal, Mine, PendingInv
  <1>16. ASSUME DeleteJournal, UNCHANGED <<installVars, readVars>> PROVE
          PendingInv'
    BY <1>16, NoneIsPending, EndsSomewhere DEF DeleteJournal, ForgetsJournal,
       diskVars, callVars, outside, installVars, readVars, CallInv, TxInv, CommitInv,
       JournalInv, Finishing, Undoing, DiskTypeOK, CallTypeOK, Journal, NoJournal,
       Ambiguous, PendingInv
  <1>17. ASSUME RollbackPointer, UNCHANGED <<installVars, readVars>> PROVE
          PendingInv'
    BY <1>17, EndsSomewhere DEF RollbackPointer, diskVars, PointsTo, Goes, outside,
       installVars, readVars, CallInv, TxInv, CommitInv, JournalInv, Finishing, Undoing,
       DiskTypeOK, Journal, NoJournal, Mine, PendingInv
  <1>18. ASSUME RollbackTree, UNCHANGED <<installVars, readVars>> PROVE
          PendingInv'
    BY <1>18, EndsSomewhere DEF RollbackTree, diskVars, Moves, Goes, callVars,
       outside, installVars, readVars, CallInv, TxInv, CommitInv, JournalInv, Finishing,
       Undoing, DiskTypeOK, Journal, NoJournal, Mine, PendingInv
  <1>19. ASSUME RecoverReads, UNCHANGED <<installVars, readVars>> PROVE
          PendingInv'
    BY <1>19, NoneIsPending DEF RecoverReads, Returns, diskVars, Goes, RecoverSpent,
       outside, RestoresJournal, installVars, readVars, CallInv, TxInv, CommitInv,
       JournalInv, Finishing, Undoing, DiskTypeOK, CallTypeOK, Journal, NoJournal,
       Ambiguous, PendingInv
  <1>20. ASSUME RecoverDispatches, UNCHANGED <<installVars, readVars>> PROVE
          PendingInv'
    BY <1>20 DEF RecoverDispatches, Goes, diskVars, callVars, outside, installVars,
       readVars, CallInv, TxInv, CommitInv, JournalInv, Finishing, Undoing, DiskTypeOK,
       Journal, NoJournal, Mine, PendingInv
  <1>21. ASSUME RecoverPublishing, UNCHANGED <<installVars, readVars>> PROVE
          PendingInv'
    BY <1>21 DEF RecoverPublishing, Returns, diskVars, Moves, Goes, outside,
       installVars, readVars, CallInv, TxInv, CommitInv, JournalInv, Finishing, Undoing,
       DiskTypeOK, Journal, NoJournal, Mine, PendingInv
  <1>22. ASSUME RecoverRechecks, UNCHANGED <<installVars, readVars>> PROVE
          PendingInv'
    BY <1>22 DEF RecoverRechecks, Goes, Returns, diskVars, callVars, outside,
       installVars, readVars, CallInv, TxInv, CommitInv, JournalInv, Finishing, Undoing,
       DiskTypeOK, Journal, NoJournal, Mine, PendingInv
  <1>23. ASSUME RecoverDone, UNCHANGED <<installVars, readVars>> PROVE
          PendingInv'
    BY <1>23 DEF RecoverDone, Returns, diskVars, callVars, outside, installVars,
       readVars, CallInv, TxInv, CommitInv, JournalInv, Finishing, Undoing, DiskTypeOK,
       Journal, NoJournal, Mine, PendingInv
  <1>24. ASSUME Restore(previous), UNCHANGED <<installVars, readVars>> PROVE
          PendingInv'
    BY <1>24 DEF Restore, Returns, Goes, diskVars, outside, installVars, readVars,
       CallInv, TxInv, CommitInv, JournalInv, Finishing, Undoing, DiskTypeOK, Journal,
       NoJournal, Mine, PendingInv
  <1>25. ASSUME Discard, UNCHANGED <<installVars, readVars>> PROVE PendingInv'
    BY <1>25, ReadViewIsKnown DEF Discard, Returns, diskVars, Moves, callVars,
       outside, installVars, readVars, CallInv, TxInv, CommitInv, JournalInv, Finishing,
       Undoing, DiskTypeOK, Journal, NoJournal, Mine, PendingInv
  <1>26. ASSUME Install PROVE PendingInv'
    BY <1>26 DEF Install, Calls, Keeps, KeepsCall, readVars, diskVars, outside,
       PendingInv
  <1>27. ASSUME Stage PROVE PendingInv'
    BY <1>27 DEF Stage, Returned, Idles, KeepsCall, KeepsRecord, outside, readVars,
       CallInv, TxInv, CommitInv, JournalInv, Finishing, Undoing, DiskTypeOK, Journal,
       NoJournal, Mine, PendingInv
  <1>28. ASSUME Staged PROVE PendingInv'
    BY <1>28 DEF Staged, KeepsRecord, outside, readVars, KeepsCall, PendingInv
  <1>29. ASSUME StageFails PROVE PendingInv'
    BY <1>29 DEF StageFails, Reports, KeepsCall, KeepsRecord, outside, readVars,
       CallInv, TxInv, CommitInv, JournalInv, Finishing, Undoing, DiskTypeOK, Journal,
       NoJournal, Mine, PendingInv
  <1>30. ASSUME ReadPrevious PROVE PendingInv'
    BY <1>30, ReadViewIsKnown DEF ReadPrevious, Calls, Keeps, readVars, diskVars,
       outside, PendingInv
  <1>31. ASSUME Activate PROVE PendingInv'
    BY <1>31 DEF Activate, Continue, Returned, Calls, Keeps, KeepsCall, KeepsRecord,
       readVars, diskVars, outside, PendingInv
  <1>32. ASSUME PublishFailed PROVE PendingInv'
    BY <1>32 DEF PublishFailed, Retreat, Returned, Calls, Keeps, KeepsCall,
       KeepsRecord, readVars, diskVars, outside, PendingInv
  <1>33. ASSUME ActivateFailed PROVE PendingInv'
    BY <1>33 DEF ActivateFailed, Retreat, Returned, Calls, Keeps, KeepsCall,
       KeepsRecord, readVars, diskVars, outside, PendingInv
  <1>34. ASSUME DiscardFailed PROVE PendingInv'
    BY <1>34 DEF DiscardFailed, Retreat, Returned, Calls, Keeps, KeepsCall,
       KeepsRecord, readVars, diskVars, outside, PendingInv
  <1>35. ASSUME InstallFailed PROVE PendingInv'
    BY <1>35 DEF InstallFailed, Fails, Returned, Reports, Idles, Keeps, KeepsCall,
       KeepsRecord, readVars, diskVars, outside, PendingInv
  <1>36. ASSUME Handshake PROVE PendingInv'
    BY <1>36 DEF Handshake, Returned, Calls, Keeps, KeepsCall, readVars, diskVars,
       outside, PendingInv
  <1>37. ASSUME FinalizeFailed PROVE PendingInv'
    BY <1>37 DEF FinalizeFailed, Retreat, Returned, Calls, Keeps, KeepsCall,
       KeepsRecord, readVars, diskVars, outside, PendingInv
  <1>38. ASSUME RestoreEnds PROVE PendingInv'
    BY <1>38, EndsSomewhere DEF RestoreEnds, Fails, Returned, Reports, Idles, Keeps,
       KeepsCall, KeepsRecord, readVars, diskVars, outside, PendingInv
  <1>39. ASSUME Ready PROVE PendingInv'
    BY <1>39 DEF Ready, Returned, Reports, Idles, Keeps, KeepsCall, readVars,
       diskVars, outside, PendingInv
  <1>40. ASSUME ReaderReadsPointer PROVE PendingInv'
    BY <1>40 DEF ReaderReadsPointer, storeVars, installVars, diskVars, callVars,
       PendingInv
  <1>41. ASSUME ReaderReadsJournal PROVE PendingInv'
    BY <1>41, ReadViewIsKnown DEF ReaderReadsJournal, storeVars, installVars,
       diskVars, callVars, PendingInv
  <1>42. ASSUME Crash PROVE PendingInv'
    BY <1>42 DEF Crash, StoreCrash, diskVars, PendingInv
  <1>43. ASSUME NEW t \in Tree, Damage(t), UNCHANGED <<installVars, readVars>>
          PROVE PendingInv'
    BY <1>43 DEF Damage, callVars, installVars, readVars, PendingInv
  <1>44. CASE UNCHANGED vars
    BY <1>44 DEF vars, storeVars, diskVars, callVars, outside, installVars, readVars,
       PendingInv
  <1>45. QED
    BY <1>1, <1>2, <1>3, <1>4, <1>5, <1>6, <1>7, <1>8, <1>9, <1>10, <1>11, <1>12,
       <1>13, <1>14, <1>15, <1>16, <1>17, <1>18, <1>19, <1>20, <1>21, <1>22, <1>23,
       <1>24, <1>25, <1>26, <1>27, <1>28, <1>29, <1>30, <1>31, <1>32, <1>33, <1>34,
       <1>35, <1>36, <1>37, <1>38, <1>39, <1>40, <1>41, <1>42, <1>43, <1>44 DEF Next,
       InstallStep, StoreWorks

\* Every step gives a reader a verified runtime, or none.
LEMMA ServedKept == DiskTypeOK /\ InstallTypeOK /\ JournalInv /\ PendingInv /\
    ServedIsVerified /\ [Next]_vars => ServedIsVerified'
  <1> SUFFICES ASSUME DiskTypeOK, InstallTypeOK, JournalInv, PendingInv,
          ServedIsVerified, [Next]_vars PROVE ServedIsVerified'
    OBVIOUS
  <1>1. CASE StoreWorks
    BY <1>1 DEF StoreWorks, installVars, readVars, ServedIsVerified
  <1>2. ASSUME Install PROVE ServedIsVerified'
    BY <1>2 DEF Install, Calls, Keeps, KeepsCall, readVars, diskVars, outside,
       ServedIsVerified
  <1>3. ASSUME Stage PROVE ServedIsVerified'
    BY <1>3 DEF Stage, Returned, Idles, KeepsCall, KeepsRecord, outside, readVars,
       ServedIsVerified
  <1>4. ASSUME Staged PROVE ServedIsVerified'
    BY <1>4 DEF Staged, KeepsRecord, outside, readVars, KeepsCall, ServedIsVerified
  <1>5. ASSUME StageFails PROVE ServedIsVerified'
    BY <1>5 DEF StageFails, Reports, KeepsCall, KeepsRecord, outside, readVars,
       ServedIsVerified
  <1>6. ASSUME ReadPrevious PROVE ServedIsVerified'
    BY <1>6, ReadViewIsKnown DEF ReadPrevious, Calls, Keeps, readVars, diskVars,
       outside, ServedIsVerified
  <1>7. ASSUME Activate PROVE ServedIsVerified'
    BY <1>7 DEF Activate, Continue, Returned, Calls, Keeps, KeepsCall, KeepsRecord,
       readVars, diskVars, outside, ServedIsVerified
  <1>8. ASSUME PublishFailed PROVE ServedIsVerified'
    BY <1>8 DEF PublishFailed, Retreat, Returned, Calls, Keeps, KeepsCall,
       KeepsRecord, readVars, diskVars, outside, ServedIsVerified
  <1>9. ASSUME ActivateFailed PROVE ServedIsVerified'
    BY <1>9 DEF ActivateFailed, Retreat, Returned, Calls, Keeps, KeepsCall,
       KeepsRecord, readVars, diskVars, outside, ServedIsVerified
  <1>10. ASSUME DiscardFailed PROVE ServedIsVerified'
    BY <1>10 DEF DiscardFailed, Retreat, Returned, Calls, Keeps, KeepsCall,
       KeepsRecord, readVars, diskVars, outside, ServedIsVerified
  <1>11. ASSUME InstallFailed PROVE ServedIsVerified'
    BY <1>11 DEF InstallFailed, Fails, Returned, Reports, Idles, Keeps, KeepsCall,
       KeepsRecord, readVars, diskVars, outside, ServedIsVerified
  <1>12. ASSUME Handshake PROVE ServedIsVerified'
    BY <1>12 DEF Handshake, Returned, Calls, Keeps, KeepsCall, readVars, diskVars,
       outside, ServedIsVerified
  <1>13. ASSUME FinalizeFailed PROVE ServedIsVerified'
    BY <1>13 DEF FinalizeFailed, Retreat, Returned, Calls, Keeps, KeepsCall,
       KeepsRecord, readVars, diskVars, outside, ServedIsVerified
  <1>14. ASSUME RestoreEnds PROVE ServedIsVerified'
    BY <1>14, EndsSomewhere DEF RestoreEnds, Fails, Returned, Reports, Idles, Keeps,
       KeepsCall, KeepsRecord, readVars, diskVars, outside, ServedIsVerified
  <1>15. ASSUME Ready PROVE ServedIsVerified'
    BY <1>15 DEF Ready, Returned, Reports, Idles, Keeps, KeepsCall, readVars,
       diskVars, outside, ServedIsVerified
  <1>16. ASSUME ReaderReadsPointer PROVE ServedIsVerified'
    BY <1>16 DEF ReaderReadsPointer, storeVars, installVars, diskVars, callVars,
       ServedIsVerified
  <1>17. ASSUME ReaderReadsJournal PROVE ServedIsVerified'
    BY <1>17, NoneIsPending, ReadViewIsKnown DEF ReaderReadsJournal, storeVars,
       installVars, diskVars, callVars, Valid, JournalInv, DiskTypeOK, InstallTypeOK,
       ServedIsVerified
  <1>18. ASSUME Crash PROVE ServedIsVerified'
    BY <1>18 DEF Crash, StoreCrash, diskVars, ServedIsVerified
  <1>19. ASSUME NEW t \in Tree, Damage(t), UNCHANGED <<installVars, readVars>>
          PROVE ServedIsVerified'
    BY <1>19 DEF Damage, callVars, installVars, readVars, ServedIsVerified
  <1>20. CASE UNCHANGED vars
    BY <1>20 DEF vars, storeVars, diskVars, callVars, outside, installVars, readVars,
       ServedIsVerified
  <1>21. QED
    BY <1>1, <1>2, <1>3, <1>4, <1>5, <1>6, <1>7, <1>8, <1>9, <1>10, <1>11, <1>12,
       <1>13, <1>14, <1>15, <1>16, <1>17, <1>18, <1>19, <1>20 DEF Next, InstallStep

\* The first inductive invariant holds of the initial states.
LEMMA InstallInitially == Init => ServeInv
  <1> SUFFICES ASSUME Init PROVE ServeInv
    OBVIOUS
  <1> USE StoreAssumption DEF Init, StoreInit
  <1>1. TypeOK
    <2>1. DiskTypeOK
      BY DEF DiskTypeOK, Places
    <2>2. CallTypeOK
      BY DEF CallTypeOK, Ops, Pcs
    <2>3. CountTypeOK
      BY DEF CountTypeOK
    <2>4. InstallTypeOK
      BY DEF InstallTypeOK, InstallPcs, Outcomes
    <2>5. QED
      BY <2>1, <2>2, <2>3, <2>4 DEF TypeOK, StoreTypeOK
  <1>2. CallInv /\ TxInv /\ CommitInv
    BY DEF CallInv, TxInv, CommitInv, OpAt, InstallPcs, Undoing, Finishing
  <1>3. JournalInv /\ PendingInv /\ ServedIsVerified
    BY DEF JournalInv, PendingInv, ServedIsVerified, NoJournal, Tree
  <1>4. QED
    BY <1>1, <1>2, <1>3 DEF ServeInv

\* Every step keeps it, by one lemma for each of its parts.
LEMMA InstallSteps == ServeInv /\ [Next]_vars => ServeInv'
  <1> SUFFICES ASSUME ServeInv, [Next]_vars PROVE ServeInv'
    OBVIOUS
  <1>1. /\ DiskTypeOK /\ CallTypeOK /\ CountTypeOK /\ InstallTypeOK
        /\ CallInv /\ TxInv /\ CommitInv /\ JournalInv /\ PendingInv /\ ServedIsVerified
    BY DEF ServeInv, TypeOK, StoreTypeOK
  <1>2. DiskTypeOK' /\ CallTypeOK' /\ CountTypeOK' /\ InstallTypeOK'
    BY <1>1, DiskTypesKept, CallTypesKept, CountTypesKept, InstallTypesKept
  <1>3. CallInv' /\ TxInv' /\ CommitInv'
    BY <1>1, CallsKept, TxKept, CommitsKept
  <1>4. JournalInv' /\ PendingInv' /\ ServedIsVerified'
    BY <1>1, JournalsKept, PendingKept, ServedKept
  <1>5. QED
    BY <1>2, <1>3, <1>4 DEF ServeInv, TypeOK, StoreTypeOK

\* It holds in every reachable state.
LEMMA InstallInvariant == Spec => []ServeInv
  BY InstallInitially, InstallSteps, PTL DEF Spec

\* TypeOK: the disk, the calls, the counters and the installation keep their types.
THEOREM InstallTypesHold == Spec => []TypeOK
  <1>1. ServeInv => TypeOK
    BY DEF ServeInv
  <1>2. QED
    BY <1>1, InstallInvariant, PTL

\* ServedIsVerified: a reader that takes no lock is never given a runtime whose
\* handshake was not completed, whatever fails, crashes or is damaged and however
\* the two reads of the reader interleave with an installation.
THEOREM ServedIsAlwaysVerified == Spec => []ServedIsVerified
  <1>1. ServeInv => ServedIsVerified
    BY DEF ServeInv
  <1>2. QED
    BY <1>1, InstallInvariant, PTL

-----------------------------------------------------------------------------
(* What an installation reports: the inductive invariant                   *)

\* Where the operations that end an installation can be.
EndInv ==
    /\ ip # "idle" => outcome = "none"
    /\ op = "finalize" => pc \in {"finalize", "returned"} \cup Finishing \cup Undoing
    /\ op = "restore" => pc \in {"restore", "returned"} \cup Undoing
    /\ pc = "restore" => op = "restore"
    /\ op = "finalize" /\ pc = "rollback" => then = "failed"
    /\ op = "finalize" /\ pc \in Undoing \ {"rollback"} =>
            proc = "finish" \/ (proc = "rollback" /\ then = "failed")
    /\ op = "restore" /\ pc \in Undoing \ {"rollback"} => proc = "rollback"
    /\ pc \in {"committed", "deleteTree", "deleteJournal"} => journal = NoJournal
    /\ pc = "deleteTree" => proc # "finish"
    /\ op = "finalize" /\ pc = "returned" /\ result = "ok" => journal = NoJournal

\* The journal returns to the runtime that was active when the installation read it.
PreviousInv ==
    /\ pc = "publish" /\ journal = NoJournal => active = previous
    /\ \/ op \in {"activate", "finalize"} \/ pc \in {"move", "await"}
       \/ op = "publish" /\ pc = "returned" /\ result = "ok"
       => tx.cand = attempt /\ tx.prev = previous
    /\ op \in {"finalize", "restore"} => journal = NoJournal \/ journal.prev = previous
    /\ op = "restore" /\ pc \in Undoing => tx.prev = previous
    /\ op = "finalize" => attempt \in verified

\* No two versions have one directory; what a finalization leaves is its two runtimes.
Reconciled(c, p) == \A t \in Tree : place[t] = "versions" => t \in {c, p}
VersionInv ==
    /\ \A t, u \in Tree : /\ place[t] = "versions" /\ place[u] = "versions"
                          /\ PathOf[t] = PathOf[u]
                          => t = u
    /\ pc = "move" => \A u \in Tree : place[u] = "versions" => PathOf[u] # PathOf[tx.cand]
    /\ pc = "deleteObsolete" => place[cur] # "versions"
    /\ pc = "reconciled" \/ (proc = "finish" /\ pc \in {"commit", "committed", "deleteJournal"}) =>
            Reconciled(tx.cand, tx.prev)
    /\ op = "finalize" /\ pc = "returned" /\ result = "ok" => Reconciled(attempt, previous)

\* The proof of a commit still holds when the operation returns.
ProofInv ==
    /\ pc \in {"commit", "committed", "deleteTree"} /\ proc # "finish" => place[tx.cand] # "versions"
    /\ pc \in {"deleteTree", "deleteJournal"} /\ damages = 0 => FinalStateProof(tx)
    /\ op = "finalize" /\ pc = "returned" /\ result = "ok" /\ damages = 0 =>
            active = attempt /\ Valid(attempt)
    /\ op = "restore" /\ pc = "returned" /\ result = "ok" /\ damages = 0 =>
            CommittedView = {previous}

OutcomeInv == EndInv /\ PreviousInv /\ VersionInv /\ ProofInv /\ OutcomeIsTrue

\* Every step keeps what is known of the ends of an installation.
LEMMA EndsKept == CallTypeOK /\ InstallTypeOK /\ CallInv /\ TxInv /\ CommitInv /\
    EndInv /\ [Next]_vars => EndInv'
  <1> SUFFICES ASSUME CallTypeOK, InstallTypeOK, CallInv, TxInv, CommitInv,
          EndInv, [Next]_vars PROVE EndInv'
    OBVIOUS
  <1>1. ASSUME NEW t \in Tree, PublishIntent(t), UNCHANGED <<installVars,
          readVars>> PROVE EndInv'
    BY <1>1 DEF PublishIntent, Returns, diskVars, Goes, outside, installVars,
       readVars, EndInv, Undoing, Finishing
  <1>2. ASSUME NEW t \in Tree, ReconcileQuarantines(t), UNCHANGED <<installVars,
          readVars>> PROVE EndInv'
    BY <1>2, EndsSomewhere DEF ReconcileQuarantines, Goes, diskVars, outside,
       installVars, readVars, EndInv, Undoing, Finishing
  <1>3. ASSUME NEW t \in Tree, SweepDeletes(t), UNCHANGED <<installVars,
          readVars>> PROVE EndInv'
    BY <1>3 DEF SweepDeletes, Returns, callVars, outside, installVars, readVars,
       EndInv, Undoing, Finishing
  <1>4. ASSUME PublishMove, UNCHANGED <<installVars, readVars>> PROVE EndInv'
    BY <1>4 DEF PublishMove, Goes, diskVars, Returns, callVars, outside, installVars,
       readVars, CallInv, CallTypeOK, TxInv, CommitInv, EndInv, Undoing, Finishing
  <1>5. ASSUME PublishAwaits, UNCHANGED <<installVars, readVars>> PROVE EndInv'
    BY <1>5 DEF PublishAwaits, Returns, diskVars, outside, installVars, readVars,
       CallInv, CallTypeOK, TxInv, CommitInv, EndInv, Undoing, Finishing
  <1>6. ASSUME ActivatePointer, UNCHANGED <<installVars, readVars>> PROVE
          EndInv'
    BY <1>6 DEF ActivatePointer, Returns, diskVars, Goes, outside, installVars,
       readVars, CallInv, CallTypeOK, TxInv, CommitInv, EndInv, Undoing, Finishing
  <1>7. ASSUME ActivationProof, UNCHANGED <<installVars, readVars>> PROVE
          EndInv'
    BY <1>7 DEF ActivationProof, Returns, Goes, diskVars, outside, installVars,
       readVars, CallInv, CallTypeOK, TxInv, CommitInv, EndInv, Undoing, Finishing
  <1>8. ASSUME FinalizeIntent, UNCHANGED <<installVars, readVars>> PROVE EndInv'
    BY <1>8 DEF FinalizeIntent, Returns, diskVars, Goes, outside, installVars,
       readVars, CallInv, CallTypeOK, TxInv, CommitInv, EndInv, Undoing, Finishing
  <1>9. ASSUME FinishStarts, UNCHANGED <<installVars, readVars>> PROVE EndInv'
    BY <1>9 DEF FinishStarts, Goes, RollsBack, diskVars, outside, installVars,
       readVars, CallInv, CallTypeOK, TxInv, CommitInv, EndInv, Undoing, Finishing
  <1>10. ASSUME ReconcileDeletes, UNCHANGED <<installVars, readVars>> PROVE
          EndInv'
    BY <1>10, EndsSomewhere DEF ReconcileDeletes, Goes, diskVars, callVars, outside,
       installVars, readVars, CallInv, CallTypeOK, TxInv, CommitInv, EndInv, Undoing,
       Finishing
  <1>11. ASSUME ReconcileDone, UNCHANGED <<installVars, readVars>> PROVE EndInv'
    BY <1>11, EndsSomewhere DEF ReconcileDone, Goes, diskVars, callVars, outside,
       installVars, readVars, CallInv, CallTypeOK, TxInv, CommitInv, EndInv, Undoing,
       Finishing
  <1>12. ASSUME FinishProves, UNCHANGED <<installVars, readVars>> PROVE EndInv'
    BY <1>12 DEF FinishProves, Goes, RollsBack, diskVars, outside, installVars,
       readVars, CallInv, CallTypeOK, TxInv, CommitInv, EndInv, Undoing, Finishing
  <1>13. ASSUME CommitJournal, UNCHANGED <<installVars, readVars>> PROVE EndInv'
    BY <1>13, EndsSomewhere DEF CommitJournal, diskVars, Goes, callVars, outside,
       installVars, readVars, CallInv, CallTypeOK, TxInv, CommitInv, MovesJournal,
       RestoresJournal, EndInv, Undoing, Finishing
  <1>14. ASSUME CommitProves, UNCHANGED <<installVars, readVars>> PROVE EndInv'
    BY <1>14, EndsSomewhere DEF CommitProves, Goes, diskVars, RollsBack, outside,
       installVars, readVars, CallInv, CallTypeOK, TxInv, CommitInv, MovesJournal,
       RestoresJournal, EndInv, Undoing, Finishing
  <1>15. ASSUME DeleteCandidate, UNCHANGED <<installVars, readVars>> PROVE
          EndInv'
    BY <1>15, EndsSomewhere DEF DeleteCandidate, Goes, diskVars, callVars, outside,
       installVars, readVars, CallInv, CallTypeOK, TxInv, CommitInv, Moves, EndInv,
       Undoing, Finishing
  <1>16. ASSUME DeleteJournal, UNCHANGED <<installVars, readVars>> PROVE EndInv'
    BY <1>16, EndsSomewhere DEF DeleteJournal, ForgetsJournal, diskVars, callVars,
       outside, installVars, readVars, CallInv, CallTypeOK, TxInv, CommitInv, EndInv,
       Undoing, Finishing
  <1>17. ASSUME RollbackPointer, UNCHANGED <<installVars, readVars>> PROVE
          EndInv'
    BY <1>17, EndsSomewhere DEF RollbackPointer, diskVars, Goes, outside,
       installVars, readVars, CallInv, CallTypeOK, TxInv, CommitInv, EndInv, Undoing,
       Finishing
  <1>18. ASSUME RollbackTree, UNCHANGED <<installVars, readVars>> PROVE EndInv'
    BY <1>18, EndsSomewhere DEF RollbackTree, diskVars, Goes, callVars, outside,
       installVars, readVars, CallInv, CallTypeOK, TxInv, CommitInv, EndInv, Undoing,
       Finishing
  <1>19. ASSUME RecoverReads, UNCHANGED <<installVars, readVars>> PROVE EndInv'
    BY <1>19 DEF RecoverReads, Returns, diskVars, Goes, RecoverSpent, outside,
       installVars, readVars, CallInv, Ambiguous, EndInv, Undoing, Finishing
  <1>20. ASSUME RecoverDispatches, UNCHANGED <<installVars, readVars>> PROVE
          EndInv'
    BY <1>20 DEF RecoverDispatches, Goes, diskVars, callVars, outside, installVars,
       readVars, CallInv, TxInv, Journal, EndInv, Undoing, Finishing
  <1>21. ASSUME RecoverPublishing, UNCHANGED <<installVars, readVars>> PROVE
          EndInv'
    BY <1>21 DEF RecoverPublishing, Returns, diskVars, Goes, outside, installVars,
       readVars, CallInv, CallTypeOK, TxInv, CommitInv, EndInv, Undoing, Finishing
  <1>22. ASSUME RecoverRechecks, UNCHANGED <<installVars, readVars>> PROVE
          EndInv'
    BY <1>22 DEF RecoverRechecks, Goes, Returns, diskVars, callVars, outside,
       installVars, readVars, CallInv, CallTypeOK, TxInv, CommitInv, EndInv, Undoing,
       Finishing
  <1>23. ASSUME RecoverDone, UNCHANGED <<installVars, readVars>> PROVE EndInv'
    BY <1>23 DEF RecoverDone, Returns, diskVars, callVars, outside, installVars,
       readVars, CallInv, CallTypeOK, TxInv, CommitInv, EndInv, Undoing, Finishing
  <1>24. ASSUME Restore(previous), UNCHANGED <<installVars, readVars>> PROVE
          EndInv'
    BY <1>24 DEF Restore, Returns, Goes, diskVars, outside, installVars, readVars,
       CallInv, CallTypeOK, TxInv, CommitInv, EndInv, Undoing, Finishing
  <1>25. ASSUME Discard, UNCHANGED <<installVars, readVars>> PROVE EndInv'
    BY <1>25, ReadViewIsKnown DEF Discard, Returns, diskVars, callVars, outside,
       installVars, readVars, CallInv, CallTypeOK, TxInv, CommitInv, EndInv, Undoing,
       Finishing
  <1>26. ASSUME Install PROVE EndInv'
    BY <1>26 DEF Install, Calls, Keeps, KeepsCall, readVars, diskVars, outside,
       CallInv, OpAt, InstallPcs, EndInv, Undoing, Finishing
  <1>27. ASSUME Stage PROVE EndInv'
    BY <1>27 DEF Stage, Returned, Idles, KeepsCall, KeepsRecord, outside, readVars,
       CallInv, OpAt, InstallPcs, EndInv, Undoing, Finishing
  <1>28. ASSUME Staged PROVE EndInv'
    BY <1>28 DEF Staged, KeepsRecord, outside, readVars, KeepsCall, CallInv, OpAt,
       InstallPcs, EndInv, Undoing, Finishing
  <1>29. ASSUME StageFails PROVE EndInv'
    BY <1>29 DEF StageFails, Reports, KeepsCall, KeepsRecord, outside, readVars,
       CallInv, OpAt, InstallPcs, EndInv, Undoing, Finishing
  <1>30. ASSUME ReadPrevious PROVE EndInv'
    BY <1>30, ReadViewIsKnown DEF ReadPrevious, Calls, Keeps, readVars, diskVars,
       outside, CallInv, OpAt, InstallPcs, EndInv, Undoing, Finishing
  <1>31. ASSUME Activate PROVE EndInv'
    BY <1>31 DEF Activate, Continue, Returned, Calls, Keeps, KeepsCall, KeepsRecord,
       readVars, diskVars, outside, CallInv, OpAt, InstallPcs, EndInv, Undoing,
       Finishing
  <1>32. ASSUME PublishFailed PROVE EndInv'
    BY <1>32 DEF PublishFailed, Retreat, Returned, Calls, Keeps, KeepsCall,
       KeepsRecord, readVars, diskVars, outside, CallInv, OpAt, InstallPcs, EndInv,
       Undoing, Finishing
  <1>33. ASSUME ActivateFailed PROVE EndInv'
    BY <1>33 DEF ActivateFailed, Retreat, Returned, Calls, Keeps, KeepsCall,
       KeepsRecord, readVars, diskVars, outside, CallInv, OpAt, InstallPcs, EndInv,
       Undoing, Finishing
  <1>34. ASSUME DiscardFailed PROVE EndInv'
    BY <1>34 DEF DiscardFailed, Retreat, Returned, Calls, Keeps, KeepsCall,
       KeepsRecord, readVars, diskVars, outside, CallInv, OpAt, InstallPcs, EndInv,
       Undoing, Finishing
  <1>35. ASSUME InstallFailed PROVE EndInv'
    BY <1>35 DEF InstallFailed, Fails, Returned, Reports, Idles, Keeps, KeepsCall,
       KeepsRecord, readVars, diskVars, outside, CallInv, OpAt, InstallPcs, EndInv,
       Undoing, Finishing
  <1>36. ASSUME Handshake PROVE EndInv'
    BY <1>36 DEF Handshake, Returned, Calls, Keeps, KeepsCall, readVars, diskVars,
       outside, CallInv, OpAt, InstallPcs, EndInv, Undoing, Finishing
  <1>37. ASSUME FinalizeFailed PROVE EndInv'
    BY <1>37 DEF FinalizeFailed, Retreat, Returned, Calls, Keeps, KeepsCall,
       KeepsRecord, readVars, diskVars, outside, CallInv, OpAt, InstallPcs, EndInv,
       Undoing, Finishing
  <1>38. ASSUME RestoreEnds PROVE EndInv'
    BY <1>38, EndsSomewhere DEF RestoreEnds, Fails, Returned, Reports, Idles, Keeps,
       KeepsCall, KeepsRecord, readVars, diskVars, outside, CallInv, OpAt, InstallPcs,
       EndInv, Undoing, Finishing
  <1>39. ASSUME Ready PROVE EndInv'
    BY <1>39 DEF Ready, Returned, Reports, Idles, Keeps, KeepsCall, readVars,
       diskVars, outside, CallInv, OpAt, InstallPcs, EndInv, Undoing, Finishing
  <1>40. ASSUME ReaderReadsPointer PROVE EndInv'
    BY <1>40 DEF ReaderReadsPointer, storeVars, installVars, diskVars, callVars,
       CallInv, OpAt, InstallPcs, EndInv, Undoing, Finishing
  <1>41. ASSUME ReaderReadsJournal PROVE EndInv'
    BY <1>41, ReadViewIsKnown DEF ReaderReadsJournal, storeVars, installVars,
       diskVars, callVars, CallInv, OpAt, InstallPcs, EndInv, Undoing, Finishing
  <1>42. ASSUME Crash PROVE EndInv'
    BY <1>42 DEF Crash, StoreCrash, diskVars, CallInv, OpAt, InstallPcs, EndInv,
       Undoing, Finishing
  <1>43. ASSUME NEW t \in Tree, Damage(t), UNCHANGED <<installVars, readVars>>
          PROVE EndInv'
    BY <1>43 DEF Damage, callVars, installVars, readVars, EndInv, Undoing, Finishing
  <1>44. CASE UNCHANGED vars
    BY <1>44 DEF vars, storeVars, diskVars, callVars, outside, installVars, readVars,
       EndInv, Undoing, Finishing
  <1>45. QED
    BY <1>1, <1>2, <1>3, <1>4, <1>5, <1>6, <1>7, <1>8, <1>9, <1>10, <1>11, <1>12,
       <1>13, <1>14, <1>15, <1>16, <1>17, <1>18, <1>19, <1>20, <1>21, <1>22, <1>23,
       <1>24, <1>25, <1>26, <1>27, <1>28, <1>29, <1>30, <1>31, <1>32, <1>33, <1>34,
       <1>35, <1>36, <1>37, <1>38, <1>39, <1>40, <1>41, <1>42, <1>43, <1>44 DEF Next,
       InstallStep, StoreWorks

\* Every step keeps what is known of the runtime before the installation.
LEMMA PreviousKept == DiskTypeOK /\ CallTypeOK /\ CountTypeOK /\ InstallTypeOK /\
    CallInv /\ TxInv /\ CommitInv /\ EndInv /\ PreviousInv /\ [Next]_vars =>
    PreviousInv'
  <1> SUFFICES ASSUME DiskTypeOK, CallTypeOK, CountTypeOK, InstallTypeOK,
          CallInv, TxInv, CommitInv, EndInv, PreviousInv, [Next]_vars PROVE PreviousInv'
    OBVIOUS
  <1>1. ASSUME NEW t \in Tree, PublishIntent(t), UNCHANGED <<installVars,
          readVars>> PROVE PreviousInv'
    <2> DEFINE j == [phase |-> "publishing", cand |-> t, prev |-> active, keep |-> TRUE]
    <2>1. j.cand = t /\ j.prev = active
      OBVIOUS
    <2>2. /\ t = attempt /\ UNCHANGED <<op, active, attempt, previous, verified>>
          /\ op = "publish"
      BY <1>1 DEF PublishIntent, CallInv, installVars, WritesJournal, diskVars
    <2> HIDE DEF j
    <2>3. \/ pc' = "move" /\ tx' = j /\ journal = NoJournal
          \/ pc' = "returned" /\ result' = "failed"
      BY <1>1 DEF PublishIntent, WritesJournal, Goes, Returns, j
    <2>4. QED
      BY <1>1, <2>1, <2>2, <2>3 DEF PublishIntent, PreviousInv, Undoing
  <1>2. ASSUME NEW t \in Tree, ReconcileQuarantines(t), UNCHANGED <<installVars,
          readVars>> PROVE PreviousInv'
    BY <1>2, EndsSomewhere DEF ReconcileQuarantines, Moves, Goes, diskVars, outside,
       installVars, readVars, CallInv, CallTypeOK, TxInv, CommitInv, EndInv, Journal,
       NoJournal, PreviousInv, Undoing, Finishing
  <1>3. ASSUME NEW t \in Tree, SweepDeletes(t), UNCHANGED <<installVars,
          readVars>> PROVE PreviousInv'
    BY <1>3 DEF SweepDeletes, Moves, Returns, callVars, outside, installVars,
       readVars, CallInv, CallTypeOK, TxInv, CommitInv, EndInv, Journal, NoJournal,
       PreviousInv, Undoing, Finishing
  <1>4. ASSUME PublishMove, UNCHANGED <<installVars, readVars>> PROVE
          PreviousInv'
    BY <1>4 DEF PublishMove, Moves, Goes, diskVars, Returns, callVars, outside,
       installVars, readVars, CallInv, CallTypeOK, TxInv, CommitInv, EndInv, Journal,
       NoJournal, PreviousInv, Undoing, Finishing
  <1>5. ASSUME PublishAwaits, UNCHANGED <<installVars, readVars>> PROVE
          PreviousInv'
    BY <1>5 DEF PublishAwaits, WritesJournal, Returns, diskVars, outside,
       installVars, readVars, CallInv, CallTypeOK, TxInv, CommitInv, EndInv, Journal,
       NoJournal, PreviousInv, Undoing, Finishing
  <1>6. ASSUME ActivatePointer, UNCHANGED <<installVars, readVars>> PROVE
          PreviousInv'
    BY <1>6 DEF ActivatePointer, Returns, diskVars, Goes, PointsTo, outside,
       installVars, readVars, CallInv, CallTypeOK, TxInv, CommitInv, EndInv, Journal,
       NoJournal, PreviousInv, Undoing, Finishing
  <1>7. ASSUME ActivationProof, UNCHANGED <<installVars, readVars>> PROVE
          PreviousInv'
    BY <1>7 DEF ActivationProof, Returns, Goes, diskVars, outside, installVars,
       readVars, CallInv, CallTypeOK, TxInv, CommitInv, EndInv, Journal, NoJournal,
       PreviousInv, Undoing, Finishing
  <1>8. ASSUME FinalizeIntent, UNCHANGED <<installVars, readVars>> PROVE
          PreviousInv'
    BY <1>8 DEF FinalizeIntent, Returns, diskVars, WritesJournal, Goes, outside,
       installVars, readVars, CallInv, CallTypeOK, TxInv, CommitInv, EndInv, Journal,
       NoJournal, PreviousInv, Undoing, Finishing
  <1>9. ASSUME FinishStarts, UNCHANGED <<installVars, readVars>> PROVE
          PreviousInv'
    BY <1>9 DEF FinishStarts, Goes, RollsBack, diskVars, outside, installVars,
       readVars, CallInv, CallTypeOK, TxInv, CommitInv, EndInv, Journal, NoJournal,
       PreviousInv, Undoing, Finishing
  <1>10. ASSUME ReconcileDeletes, UNCHANGED <<installVars, readVars>> PROVE
          PreviousInv'
    BY <1>10, EndsSomewhere DEF ReconcileDeletes, Moves, Goes, diskVars, callVars,
       outside, installVars, readVars, CallInv, CallTypeOK, TxInv, CommitInv, EndInv,
       Journal, NoJournal, PreviousInv, Undoing, Finishing
  <1>11. ASSUME ReconcileDone, UNCHANGED <<installVars, readVars>> PROVE
          PreviousInv'
    BY <1>11, EndsSomewhere DEF ReconcileDone, Goes, diskVars, callVars, outside,
       installVars, readVars, CallInv, CallTypeOK, TxInv, CommitInv, EndInv, Journal,
       NoJournal, PreviousInv, Undoing, Finishing
  <1>12. ASSUME FinishProves, UNCHANGED <<installVars, readVars>> PROVE
          PreviousInv'
    BY <1>12 DEF FinishProves, Goes, RollsBack, diskVars, outside, installVars,
       readVars, CallInv, CallTypeOK, TxInv, CommitInv, EndInv, Journal, NoJournal,
       PreviousInv, Undoing, Finishing
  <1>13. ASSUME CommitJournal, UNCHANGED <<installVars, readVars>> PROVE
          PreviousInv'
    BY <1>13, EndsSomewhere DEF CommitJournal, diskVars, MovesJournal, Goes,
       callVars, outside, installVars, readVars, CallInv, CallTypeOK, TxInv, CommitInv,
       EndInv, Journal, NoJournal, PreviousInv, Undoing, Finishing
  <1>14. ASSUME CommitProves, UNCHANGED <<installVars, readVars>> PROVE
          PreviousInv'
    BY <1>14, EndsSomewhere DEF CommitProves, Goes, diskVars, RestoresJournal,
       RollsBack, outside, installVars, readVars, CallInv, CallTypeOK, TxInv, CommitInv,
       EndInv, Journal, NoJournal, PreviousInv, Undoing, Finishing
  <1>15. ASSUME DeleteCandidate, UNCHANGED <<installVars, readVars>> PROVE
          PreviousInv'
    BY <1>15, EndsSomewhere DEF DeleteCandidate, Moves, Goes, diskVars, callVars,
       outside, installVars, readVars, CallInv, CallTypeOK, TxInv, CommitInv, EndInv,
       Journal, NoJournal, PreviousInv, Undoing, Finishing
  <1>16. ASSUME DeleteJournal, UNCHANGED <<installVars, readVars>> PROVE
          PreviousInv'
    BY <1>16, EndsSomewhere DEF DeleteJournal, ForgetsJournal, diskVars, callVars,
       outside, installVars, readVars, CallInv, CallTypeOK, TxInv, CommitInv, EndInv,
       Journal, NoJournal, PreviousInv, Undoing, Finishing
  <1>17. ASSUME RollbackPointer, UNCHANGED <<installVars, readVars>> PROVE
          PreviousInv'
    BY <1>17, EndsSomewhere DEF RollbackPointer, diskVars, PointsTo, Goes, outside,
       installVars, readVars, CallInv, CallTypeOK, TxInv, CommitInv, EndInv, Journal,
       NoJournal, PreviousInv, Undoing, Finishing
  <1>18. ASSUME RollbackTree, UNCHANGED <<installVars, readVars>> PROVE
          PreviousInv'
    BY <1>18, EndsSomewhere DEF RollbackTree, diskVars, Moves, Goes, callVars,
       outside, installVars, readVars, CallInv, CallTypeOK, TxInv, CommitInv, EndInv,
       Journal, NoJournal, PreviousInv, Undoing, Finishing
  <1>19. ASSUME RecoverReads, UNCHANGED <<installVars, readVars>> PROVE
          PreviousInv'
    BY <1>19 DEF RecoverReads, Returns, diskVars, Goes, RecoverSpent, outside,
       RestoresJournal, installVars, readVars, CallInv, CallTypeOK, TxInv, CommitInv,
       EndInv, Journal, NoJournal, PreviousInv, Undoing, Finishing
  <1>20. ASSUME RecoverDispatches, UNCHANGED <<installVars, readVars>> PROVE
          PreviousInv'
    BY <1>20 DEF RecoverDispatches, Goes, diskVars, callVars, outside, installVars,
       readVars, CallInv, CallTypeOK, TxInv, CommitInv, EndInv, Journal, NoJournal,
       PreviousInv, Undoing, Finishing
  <1>21. ASSUME RecoverPublishing, UNCHANGED <<installVars, readVars>> PROVE
          PreviousInv'
    BY <1>21 DEF RecoverPublishing, Returns, diskVars, Moves, Goes, outside,
       installVars, readVars, CallInv, CallTypeOK, TxInv, CommitInv, EndInv, Journal,
       NoJournal, PreviousInv, Undoing, Finishing
  <1>22. ASSUME RecoverRechecks, UNCHANGED <<installVars, readVars>> PROVE
          PreviousInv'
    BY <1>22 DEF RecoverRechecks, Goes, Returns, diskVars, callVars, outside,
       installVars, readVars, CallInv, CallTypeOK, TxInv, CommitInv, EndInv, Journal,
       NoJournal, PreviousInv, Undoing, Finishing
  <1>23. ASSUME RecoverDone, UNCHANGED <<installVars, readVars>> PROVE
          PreviousInv'
    BY <1>23 DEF RecoverDone, Returns, diskVars, callVars, outside, installVars,
       readVars, CallInv, CallTypeOK, TxInv, CommitInv, EndInv, Journal, NoJournal,
       PreviousInv, Undoing, Finishing
  <1>24. ASSUME Restore(previous), UNCHANGED <<installVars, readVars>> PROVE
          PreviousInv'
    BY <1>24 DEF Restore, Returns, Goes, diskVars, outside, installVars, readVars,
       CallInv, CallTypeOK, TxInv, CommitInv, EndInv, Journal, NoJournal, PreviousInv,
       Undoing, Finishing
  <1>25. ASSUME Discard, UNCHANGED <<installVars, readVars>> PROVE PreviousInv'
    BY <1>25, ReadViewIsKnown DEF Discard, Returns, diskVars, Moves, callVars,
       outside, installVars, readVars, CallInv, CallTypeOK, TxInv, CommitInv, EndInv,
       Journal, NoJournal, PreviousInv, Undoing, Finishing
  <1>26. ASSUME Install PROVE PreviousInv'
    BY <1>26 DEF Install, Calls, Keeps, KeepsCall, readVars, diskVars, outside,
       CallInv, OpAt, InstallPcs, CountTypeOK, TxInv, PreviousInv, Undoing, Finishing
  <1>27. ASSUME Stage PROVE PreviousInv'
    BY <1>27 DEF Stage, Returned, Idles, KeepsCall, KeepsRecord, outside, readVars,
       CallInv, OpAt, InstallPcs, CountTypeOK, TxInv, PreviousInv, Undoing, Finishing
  <1>28. ASSUME Staged PROVE PreviousInv'
    BY <1>28 DEF Staged, KeepsRecord, outside, readVars, KeepsCall, CallInv, OpAt,
       InstallPcs, CountTypeOK, TxInv, PreviousInv, Undoing, Finishing
  <1>29. ASSUME StageFails PROVE PreviousInv'
    BY <1>29 DEF StageFails, Reports, KeepsCall, KeepsRecord, outside, readVars,
       CallInv, OpAt, InstallPcs, CountTypeOK, TxInv, PreviousInv, Undoing, Finishing
  <1>30. ASSUME ReadPrevious PROVE PreviousInv'
    BY <1>30, ReadViewIsKnown DEF ReadPrevious, Calls, Keeps, readVars, diskVars,
       outside, CallInv, OpAt, InstallPcs, CommittedView, PreviousInv, Undoing,
       Finishing
  <1>31. ASSUME Activate PROVE PreviousInv'
    BY <1>31 DEF Activate, Continue, Returned, Calls, Keeps, KeepsCall, KeepsRecord,
       readVars, diskVars, outside, CallInv, OpAt, InstallPcs, CountTypeOK, TxInv,
       PreviousInv, Undoing, Finishing
  <1>32. ASSUME PublishFailed PROVE PreviousInv'
    BY <1>32 DEF PublishFailed, Retreat, Returned, Calls, Keeps, KeepsCall,
       KeepsRecord, readVars, diskVars, outside, CallInv, OpAt, InstallPcs, CountTypeOK,
       TxInv, PreviousInv, Undoing, Finishing
  <1>33. ASSUME ActivateFailed PROVE PreviousInv'
    BY <1>33 DEF ActivateFailed, Retreat, Returned, Calls, Keeps, KeepsCall,
       KeepsRecord, readVars, diskVars, outside, CallInv, OpAt, InstallPcs, CountTypeOK,
       TxInv, PreviousInv, Undoing, Finishing
  <1>34. ASSUME DiscardFailed PROVE PreviousInv'
    BY <1>34 DEF DiscardFailed, Retreat, Returned, Calls, Keeps, KeepsCall,
       KeepsRecord, readVars, diskVars, outside, CallInv, OpAt, InstallPcs, CountTypeOK,
       TxInv, PreviousInv, Undoing, Finishing
  <1>35. ASSUME InstallFailed PROVE PreviousInv'
    BY <1>35 DEF InstallFailed, Fails, Returned, Reports, Idles, Keeps, KeepsCall,
       KeepsRecord, readVars, diskVars, outside, CallInv, OpAt, InstallPcs, CountTypeOK,
       TxInv, PreviousInv, Undoing, Finishing
  <1>36. ASSUME Handshake PROVE PreviousInv'
    BY <1>36 DEF Handshake, Returned, Calls, Keeps, KeepsCall, readVars, diskVars,
       outside, CallInv, OpAt, InstallPcs, TxInv, Mine, PreviousInv, Undoing, Finishing
  <1>37. ASSUME FinalizeFailed PROVE PreviousInv'
    BY <1>37 DEF FinalizeFailed, Retreat, Returned, Calls, Keeps, KeepsCall,
       KeepsRecord, readVars, diskVars, outside, CallInv, OpAt, InstallPcs, CountTypeOK,
       TxInv, PreviousInv, Undoing, Finishing
  <1>38. ASSUME RestoreEnds PROVE PreviousInv'
    BY <1>38, EndsSomewhere DEF RestoreEnds, Fails, Returned, Reports, Idles, Keeps,
       KeepsCall, KeepsRecord, readVars, diskVars, outside, CallInv, OpAt, InstallPcs,
       CountTypeOK, TxInv, PreviousInv, Undoing, Finishing
  <1>39. ASSUME Ready PROVE PreviousInv'
    BY <1>39 DEF Ready, Returned, Reports, Idles, Keeps, KeepsCall, readVars,
       diskVars, outside, CallInv, OpAt, InstallPcs, CountTypeOK, TxInv, PreviousInv,
       Undoing, Finishing
  <1>40. ASSUME ReaderReadsPointer PROVE PreviousInv'
    BY <1>40 DEF ReaderReadsPointer, storeVars, installVars, diskVars, callVars,
       CallInv, OpAt, InstallPcs, CountTypeOK, TxInv, PreviousInv, Undoing, Finishing
  <1>41. ASSUME ReaderReadsJournal PROVE PreviousInv'
    BY <1>41, ReadViewIsKnown DEF ReaderReadsJournal, storeVars, installVars,
       diskVars, callVars, CallInv, OpAt, InstallPcs, CountTypeOK, TxInv, PreviousInv,
       Undoing, Finishing
  <1>42. ASSUME Crash PROVE PreviousInv'
    BY <1>42 DEF Crash, StoreCrash, diskVars, CallInv, OpAt, InstallPcs, CountTypeOK,
       TxInv, PreviousInv, Undoing, Finishing
  <1>43. ASSUME NEW t \in Tree, Damage(t), UNCHANGED <<installVars, readVars>>
          PROVE PreviousInv'
    BY <1>43 DEF Damage, callVars, installVars, readVars, PreviousInv, Undoing,
       Finishing
  <1>44. CASE UNCHANGED vars
    BY <1>44 DEF vars, storeVars, diskVars, callVars, outside, installVars, readVars,
       PreviousInv, Undoing, Finishing
  <1>45. QED
    BY <1>1, <1>2, <1>3, <1>4, <1>5, <1>6, <1>7, <1>8, <1>9, <1>10, <1>11, <1>12,
       <1>13, <1>14, <1>15, <1>16, <1>17, <1>18, <1>19, <1>20, <1>21, <1>22, <1>23,
       <1>24, <1>25, <1>26, <1>27, <1>28, <1>29, <1>30, <1>31, <1>32, <1>33, <1>34,
       <1>35, <1>36, <1>37, <1>38, <1>39, <1>40, <1>41, <1>42, <1>43, <1>44 DEF Next,
       InstallStep, StoreWorks

\* Every step keeps one version in a directory, and what a finalization has cleared.
LEMMA VersionsKept == DiskTypeOK /\ CallTypeOK /\ CallInv /\ TxInv /\ CommitInv /\
    EndInv /\ PreviousInv /\ VersionInv /\ [Next]_vars => VersionInv'
  <1> SUFFICES ASSUME DiskTypeOK, CallTypeOK, CallInv, TxInv, CommitInv, EndInv,
          PreviousInv, VersionInv, [Next]_vars PROVE VersionInv'
    OBVIOUS
  <1>1. ASSUME NEW t \in Tree, PublishIntent(t), UNCHANGED <<installVars,
          readVars>> PROVE VersionInv'
    BY <1>1 DEF PublishIntent, Returns, diskVars, WritesJournal, Goes, outside,
       installVars, readVars, CallInv, CallTypeOK, TxInv, CommitInv, EndInv, DiskTypeOK,
       Undoing, Finishing, VersionInv, Reconciled
  <1>2. ASSUME NEW t \in Tree, ReconcileQuarantines(t), UNCHANGED <<installVars,
          readVars>> PROVE VersionInv'
    BY <1>2, EndsSomewhere DEF ReconcileQuarantines, Moves, Goes, diskVars, outside,
       installVars, readVars, CallInv, CallTypeOK, TxInv, CommitInv, EndInv, DiskTypeOK,
       Undoing, Finishing, VersionInv, Reconciled
  <1>3. ASSUME NEW t \in Tree, SweepDeletes(t), UNCHANGED <<installVars,
          readVars>> PROVE VersionInv'
    BY <1>3 DEF SweepDeletes, Moves, Returns, callVars, outside, installVars,
       readVars, CallInv, CallTypeOK, TxInv, CommitInv, EndInv, DiskTypeOK, Undoing,
       Finishing, VersionInv, Reconciled
  <1>4. ASSUME PublishMove, UNCHANGED <<installVars, readVars>> PROVE
          VersionInv'
    BY <1>4 DEF PublishMove, Moves, Goes, diskVars, Returns, callVars, outside,
       installVars, readVars, CallInv, CallTypeOK, TxInv, CommitInv, EndInv, DiskTypeOK,
       Undoing, Finishing, VersionInv, Reconciled
  <1>5. ASSUME PublishAwaits, UNCHANGED <<installVars, readVars>> PROVE
          VersionInv'
    BY <1>5 DEF PublishAwaits, WritesJournal, Returns, diskVars, outside,
       installVars, readVars, CallInv, CallTypeOK, TxInv, CommitInv, EndInv, DiskTypeOK,
       Undoing, Finishing, VersionInv, Reconciled
  <1>6. ASSUME ActivatePointer, UNCHANGED <<installVars, readVars>> PROVE
          VersionInv'
    BY <1>6 DEF ActivatePointer, Returns, diskVars, Goes, PointsTo, outside,
       installVars, readVars, CallInv, CallTypeOK, TxInv, CommitInv, EndInv, DiskTypeOK,
       Undoing, Finishing, VersionInv, Reconciled
  <1>7. ASSUME ActivationProof, UNCHANGED <<installVars, readVars>> PROVE
          VersionInv'
    BY <1>7 DEF ActivationProof, Returns, Goes, diskVars, outside, installVars,
       readVars, CallInv, CallTypeOK, TxInv, CommitInv, EndInv, DiskTypeOK, Undoing,
       Finishing, VersionInv, Reconciled
  <1>8. ASSUME FinalizeIntent, UNCHANGED <<installVars, readVars>> PROVE
          VersionInv'
    BY <1>8 DEF FinalizeIntent, Returns, diskVars, WritesJournal, Goes, outside,
       installVars, readVars, CallInv, CallTypeOK, TxInv, CommitInv, EndInv, DiskTypeOK,
       Undoing, Finishing, VersionInv, Reconciled
  <1>9. ASSUME FinishStarts, UNCHANGED <<installVars, readVars>> PROVE
          VersionInv'
    BY <1>9 DEF FinishStarts, Goes, RollsBack, diskVars, outside, installVars,
       readVars, CallInv, CallTypeOK, TxInv, CommitInv, EndInv, DiskTypeOK, Undoing,
       Finishing, VersionInv, Reconciled
  <1>10. ASSUME ReconcileDeletes, UNCHANGED <<installVars, readVars>> PROVE
          VersionInv'
    BY <1>10, EndsSomewhere DEF ReconcileDeletes, Moves, Goes, diskVars, callVars,
       outside, installVars, readVars, CallInv, CallTypeOK, TxInv, CommitInv, EndInv,
       DiskTypeOK, Undoing, Finishing, VersionInv, Reconciled
  <1>11. ASSUME ReconcileDone, UNCHANGED <<installVars, readVars>> PROVE
          VersionInv'
    BY <1>11, EndsSomewhere DEF ReconcileDone, Goes, diskVars, callVars, outside,
       installVars, readVars, CallInv, CallTypeOK, TxInv, Finishing, Obsolete, Retained,
       Valid, PreviousValid, Journal, VersionInv, Reconciled
  <1>12. ASSUME FinishProves, UNCHANGED <<installVars, readVars>> PROVE
          VersionInv'
    BY <1>12 DEF FinishProves, Goes, RollsBack, diskVars, outside, installVars,
       readVars, CallInv, CallTypeOK, TxInv, CommitInv, EndInv, DiskTypeOK, Undoing,
       Finishing, VersionInv, Reconciled
  <1>13. ASSUME CommitJournal, UNCHANGED <<installVars, readVars>> PROVE
          VersionInv'
    BY <1>13, EndsSomewhere DEF CommitJournal, diskVars, MovesJournal, Goes,
       callVars, outside, installVars, readVars, CallInv, CallTypeOK, TxInv, CommitInv,
       EndInv, DiskTypeOK, Undoing, Finishing, VersionInv, Reconciled
  <1>14. ASSUME CommitProves, UNCHANGED <<installVars, readVars>> PROVE
          VersionInv'
    BY <1>14, EndsSomewhere DEF CommitProves, Goes, diskVars, RestoresJournal,
       RollsBack, outside, installVars, readVars, CallInv, CallTypeOK, TxInv, CommitInv,
       EndInv, DiskTypeOK, Undoing, Finishing, VersionInv, Reconciled
  <1>15. ASSUME DeleteCandidate, UNCHANGED <<installVars, readVars>> PROVE
          VersionInv'
    BY <1>15, EndsSomewhere DEF DeleteCandidate, Moves, Goes, diskVars, callVars,
       outside, installVars, readVars, CallInv, CallTypeOK, TxInv, CommitInv, EndInv,
       DiskTypeOK, Undoing, Finishing, VersionInv, Reconciled
  <1>16. ASSUME DeleteJournal, UNCHANGED <<installVars, readVars>> PROVE
          VersionInv'
    BY <1>16, EndsSomewhere DEF DeleteJournal, ForgetsJournal, diskVars, callVars,
       outside, installVars, readVars, CallTypeOK, EndInv, PreviousInv, Undoing,
       VersionInv, Reconciled
  <1>17. ASSUME RollbackPointer, UNCHANGED <<installVars, readVars>> PROVE
          VersionInv'
    BY <1>17, EndsSomewhere DEF RollbackPointer, diskVars, PointsTo, Goes, outside,
       installVars, readVars, CallInv, CallTypeOK, TxInv, CommitInv, EndInv, DiskTypeOK,
       Undoing, Finishing, VersionInv, Reconciled
  <1>18. ASSUME RollbackTree, UNCHANGED <<installVars, readVars>> PROVE
          VersionInv'
    BY <1>18, EndsSomewhere DEF RollbackTree, diskVars, Moves, Goes, callVars,
       outside, installVars, readVars, CallInv, CallTypeOK, TxInv, CommitInv, EndInv,
       DiskTypeOK, Undoing, Finishing, VersionInv, Reconciled
  <1>19. ASSUME RecoverReads, UNCHANGED <<installVars, readVars>> PROVE
          VersionInv'
    BY <1>19 DEF RecoverReads, Returns, diskVars, Goes, RecoverSpent, outside,
       RestoresJournal, installVars, readVars, CallInv, CallTypeOK, TxInv, CommitInv,
       EndInv, DiskTypeOK, Undoing, Finishing, VersionInv, Reconciled
  <1>20. ASSUME RecoverDispatches, UNCHANGED <<installVars, readVars>> PROVE
          VersionInv'
    BY <1>20 DEF RecoverDispatches, Goes, diskVars, callVars, outside, installVars,
       readVars, TxInv, Finishing, Journal, VersionInv, Reconciled
  <1>21. ASSUME RecoverPublishing, UNCHANGED <<installVars, readVars>> PROVE
          VersionInv'
    BY <1>21 DEF RecoverPublishing, Returns, diskVars, Moves, Goes, outside,
       installVars, readVars, CallInv, CallTypeOK, TxInv, CommitInv, EndInv, DiskTypeOK,
       Undoing, Finishing, VersionInv, Reconciled
  <1>22. ASSUME RecoverRechecks, UNCHANGED <<installVars, readVars>> PROVE
          VersionInv'
    BY <1>22 DEF RecoverRechecks, Goes, Returns, diskVars, callVars, outside,
       installVars, readVars, CallInv, CallTypeOK, TxInv, CommitInv, EndInv, DiskTypeOK,
       Undoing, Finishing, VersionInv, Reconciled
  <1>23. ASSUME RecoverDone, UNCHANGED <<installVars, readVars>> PROVE
          VersionInv'
    BY <1>23 DEF RecoverDone, Returns, diskVars, callVars, outside, installVars,
       readVars, CallInv, CallTypeOK, TxInv, CommitInv, EndInv, DiskTypeOK, Undoing,
       Finishing, VersionInv, Reconciled
  <1>24. ASSUME Restore(previous), UNCHANGED <<installVars, readVars>> PROVE
          VersionInv'
    BY <1>24 DEF Restore, Returns, Goes, diskVars, outside, installVars, readVars,
       CallInv, CallTypeOK, TxInv, CommitInv, EndInv, DiskTypeOK, Undoing, Finishing,
       VersionInv, Reconciled
  <1>25. ASSUME Discard, UNCHANGED <<installVars, readVars>> PROVE VersionInv'
    BY <1>25, ReadViewIsKnown DEF Discard, Returns, diskVars, Moves, callVars,
       outside, installVars, readVars, CallInv, CallTypeOK, TxInv, CommitInv, EndInv,
       DiskTypeOK, Undoing, Finishing, VersionInv, Reconciled
  <1>26. ASSUME Install PROVE VersionInv'
    BY <1>26 DEF Install, Calls, Keeps, KeepsCall, readVars, diskVars, outside,
       CallInv, OpAt, InstallPcs, VersionInv, Reconciled
  <1>27. ASSUME Stage PROVE VersionInv'
    BY <1>27 DEF Stage, Returned, Idles, KeepsCall, KeepsRecord, outside, readVars,
       CallInv, OpAt, InstallPcs, VersionInv, Reconciled
  <1>28. ASSUME Staged PROVE VersionInv'
    BY <1>28 DEF Staged, KeepsRecord, outside, readVars, KeepsCall, CallInv, OpAt,
       InstallPcs, VersionInv, Reconciled
  <1>29. ASSUME StageFails PROVE VersionInv'
    BY <1>29 DEF StageFails, Reports, KeepsCall, KeepsRecord, outside, readVars,
       CallInv, OpAt, InstallPcs, VersionInv, Reconciled
  <1>30. ASSUME ReadPrevious PROVE VersionInv'
    BY <1>30, ReadViewIsKnown DEF ReadPrevious, Calls, Keeps, readVars, diskVars,
       outside, CallInv, OpAt, InstallPcs, VersionInv, Reconciled
  <1>31. ASSUME Activate PROVE VersionInv'
    BY <1>31 DEF Activate, Continue, Returned, Calls, Keeps, KeepsCall, KeepsRecord,
       readVars, diskVars, outside, CallInv, OpAt, InstallPcs, VersionInv, Reconciled
  <1>32. ASSUME PublishFailed PROVE VersionInv'
    BY <1>32 DEF PublishFailed, Retreat, Returned, Calls, Keeps, KeepsCall,
       KeepsRecord, readVars, diskVars, outside, CallInv, OpAt, InstallPcs, VersionInv,
       Reconciled
  <1>33. ASSUME ActivateFailed PROVE VersionInv'
    BY <1>33 DEF ActivateFailed, Retreat, Returned, Calls, Keeps, KeepsCall,
       KeepsRecord, readVars, diskVars, outside, CallInv, OpAt, InstallPcs, VersionInv,
       Reconciled
  <1>34. ASSUME DiscardFailed PROVE VersionInv'
    BY <1>34 DEF DiscardFailed, Retreat, Returned, Calls, Keeps, KeepsCall,
       KeepsRecord, readVars, diskVars, outside, CallInv, OpAt, InstallPcs, VersionInv,
       Reconciled
  <1>35. ASSUME InstallFailed PROVE VersionInv'
    BY <1>35 DEF InstallFailed, Fails, Returned, Reports, Idles, Keeps, KeepsCall,
       KeepsRecord, readVars, diskVars, outside, CallInv, OpAt, InstallPcs, VersionInv,
       Reconciled
  <1>36. ASSUME Handshake PROVE VersionInv'
    BY <1>36 DEF Handshake, Returned, Calls, Keeps, KeepsCall, readVars, diskVars,
       outside, CallInv, OpAt, InstallPcs, VersionInv, Reconciled
  <1>37. ASSUME FinalizeFailed PROVE VersionInv'
    BY <1>37 DEF FinalizeFailed, Retreat, Returned, Calls, Keeps, KeepsCall,
       KeepsRecord, readVars, diskVars, outside, CallInv, OpAt, InstallPcs, VersionInv,
       Reconciled
  <1>38. ASSUME RestoreEnds PROVE VersionInv'
    BY <1>38, EndsSomewhere DEF RestoreEnds, Fails, Returned, Reports, Idles, Keeps,
       KeepsCall, KeepsRecord, readVars, diskVars, outside, CallInv, OpAt, InstallPcs,
       VersionInv, Reconciled
  <1>39. ASSUME Ready PROVE VersionInv'
    BY <1>39 DEF Ready, Returned, Reports, Idles, Keeps, KeepsCall, readVars,
       diskVars, outside, CallInv, OpAt, InstallPcs, VersionInv, Reconciled
  <1>40. ASSUME ReaderReadsPointer PROVE VersionInv'
    BY <1>40 DEF ReaderReadsPointer, storeVars, installVars, diskVars, callVars,
       CallInv, OpAt, InstallPcs, VersionInv, Reconciled
  <1>41. ASSUME ReaderReadsJournal PROVE VersionInv'
    BY <1>41, ReadViewIsKnown DEF ReaderReadsJournal, storeVars, installVars,
       diskVars, callVars, CallInv, OpAt, InstallPcs, VersionInv, Reconciled
  <1>42. ASSUME Crash PROVE VersionInv'
    BY <1>42 DEF Crash, StoreCrash, diskVars, CallInv, OpAt, InstallPcs, VersionInv,
       Reconciled
  <1>43. ASSUME NEW t \in Tree, Damage(t), UNCHANGED <<installVars, readVars>>
          PROVE VersionInv'
    BY <1>43 DEF Damage, callVars, installVars, readVars, VersionInv, Reconciled
  <1>44. CASE UNCHANGED vars
    BY <1>44 DEF vars, storeVars, diskVars, callVars, outside, installVars, readVars,
       VersionInv, Reconciled
  <1>45. QED
    BY <1>1, <1>2, <1>3, <1>4, <1>5, <1>6, <1>7, <1>8, <1>9, <1>10, <1>11, <1>12,
       <1>13, <1>14, <1>15, <1>16, <1>17, <1>18, <1>19, <1>20, <1>21, <1>22, <1>23,
       <1>24, <1>25, <1>26, <1>27, <1>28, <1>29, <1>30, <1>31, <1>32, <1>33, <1>34,
       <1>35, <1>36, <1>37, <1>38, <1>39, <1>40, <1>41, <1>42, <1>43, <1>44 DEF Next,
       InstallStep, StoreWorks

\* Every step keeps the proof of a commit until the operation returns.
LEMMA ProofsKept == DiskTypeOK /\ CallTypeOK /\ CountTypeOK /\ CallInv /\ TxInv /\
    CommitInv /\ EndInv /\ PreviousInv /\ ProofInv /\ [Next]_vars => ProofInv'
  <1> SUFFICES ASSUME DiskTypeOK, CallTypeOK, CountTypeOK, CallInv, TxInv,
          CommitInv, EndInv, PreviousInv, ProofInv, [Next]_vars PROVE ProofInv'
    OBVIOUS
  <1>1. ASSUME NEW t \in Tree, PublishIntent(t), UNCHANGED <<installVars,
          readVars>> PROVE ProofInv'
    BY <1>1 DEF PublishIntent, Returns, diskVars, WritesJournal, Goes, outside,
       installVars, readVars, CallInv, CallTypeOK, TxInv, CommitInv, EndInv, DiskTypeOK,
       Undoing, Finishing, CommittedView, ReadView, ProofInv, FinalStateProof,
       CommitState, CommittedPrevious, HandshakeCandidate, PreviousValid, Valid
  <1>2. ASSUME NEW t \in Tree, ReconcileQuarantines(t), UNCHANGED <<installVars,
          readVars>> PROVE ProofInv'
    BY <1>2, EndsSomewhere DEF ReconcileQuarantines, Moves, Goes, diskVars, outside,
       installVars, readVars, CallInv, CallTypeOK, TxInv, CommitInv, EndInv, DiskTypeOK,
       Undoing, Finishing, CommittedView, ReadView, ProofInv, FinalStateProof,
       CommitState, CommittedPrevious, HandshakeCandidate, PreviousValid, Valid
  <1>3. ASSUME NEW t \in Tree, SweepDeletes(t), UNCHANGED <<installVars,
          readVars>> PROVE ProofInv'
    BY <1>3 DEF SweepDeletes, Moves, Returns, callVars, outside, installVars,
       readVars, CallInv, CallTypeOK, TxInv, CommitInv, EndInv, DiskTypeOK, Undoing,
       Finishing, CommittedView, ReadView, ProofInv, FinalStateProof, CommitState,
       CommittedPrevious, HandshakeCandidate, PreviousValid, Valid
  <1>4. ASSUME PublishMove, UNCHANGED <<installVars, readVars>> PROVE ProofInv'
    BY <1>4 DEF PublishMove, Moves, Goes, diskVars, Returns, callVars, outside,
       installVars, readVars, CallInv, CallTypeOK, TxInv, CommitInv, EndInv, DiskTypeOK,
       Undoing, Finishing, CommittedView, ReadView, ProofInv, FinalStateProof,
       CommitState, CommittedPrevious, HandshakeCandidate, PreviousValid, Valid
  <1>5. ASSUME PublishAwaits, UNCHANGED <<installVars, readVars>> PROVE
          ProofInv'
    BY <1>5 DEF PublishAwaits, WritesJournal, Returns, diskVars, outside,
       installVars, readVars, CallInv, CallTypeOK, TxInv, CommitInv, EndInv, DiskTypeOK,
       Undoing, Finishing, CommittedView, ReadView, ProofInv, FinalStateProof,
       CommitState, CommittedPrevious, HandshakeCandidate, PreviousValid, Valid
  <1>6. ASSUME ActivatePointer, UNCHANGED <<installVars, readVars>> PROVE
          ProofInv'
    BY <1>6 DEF ActivatePointer, Returns, diskVars, Goes, PointsTo, outside,
       installVars, readVars, CallInv, CallTypeOK, TxInv, CommitInv, EndInv, DiskTypeOK,
       Undoing, Finishing, CommittedView, ReadView, ProofInv, FinalStateProof,
       CommitState, CommittedPrevious, HandshakeCandidate, PreviousValid, Valid
  <1>7. ASSUME ActivationProof, UNCHANGED <<installVars, readVars>> PROVE
          ProofInv'
    BY <1>7 DEF ActivationProof, Returns, Goes, diskVars, outside, installVars,
       readVars, CallInv, CallTypeOK, TxInv, CommitInv, EndInv, DiskTypeOK, Undoing,
       Finishing, CommittedView, ReadView, ProofInv, FinalStateProof, CommitState,
       CommittedPrevious, HandshakeCandidate, PreviousValid, Valid
  <1>8. ASSUME FinalizeIntent, UNCHANGED <<installVars, readVars>> PROVE
          ProofInv'
    BY <1>8 DEF FinalizeIntent, Returns, diskVars, WritesJournal, Goes, outside,
       installVars, readVars, CallInv, CallTypeOK, TxInv, CommitInv, EndInv, DiskTypeOK,
       Undoing, Finishing, CommittedView, ReadView, ProofInv, FinalStateProof,
       CommitState, CommittedPrevious, HandshakeCandidate, PreviousValid, Valid
  <1>9. ASSUME FinishStarts, UNCHANGED <<installVars, readVars>> PROVE ProofInv'
    BY <1>9 DEF FinishStarts, Goes, RollsBack, diskVars, outside, installVars,
       readVars, CallInv, CallTypeOK, TxInv, CommitInv, EndInv, DiskTypeOK, Undoing,
       Finishing, CommittedView, ReadView, ProofInv, FinalStateProof, CommitState,
       CommittedPrevious, HandshakeCandidate, PreviousValid, Valid
  <1>10. ASSUME ReconcileDeletes, UNCHANGED <<installVars, readVars>> PROVE
          ProofInv'
    BY <1>10, EndsSomewhere DEF ReconcileDeletes, Moves, Goes, diskVars, callVars,
       outside, installVars, readVars, CallInv, CallTypeOK, TxInv, CommitInv, EndInv,
       DiskTypeOK, Undoing, Finishing, CommittedView, ReadView, ProofInv,
       FinalStateProof, CommitState, CommittedPrevious, HandshakeCandidate,
       PreviousValid, Valid
  <1>11. ASSUME ReconcileDone, UNCHANGED <<installVars, readVars>> PROVE
          ProofInv'
    BY <1>11, EndsSomewhere DEF ReconcileDone, Goes, diskVars, callVars, outside,
       installVars, readVars, CallInv, CallTypeOK, TxInv, CommitInv, EndInv, DiskTypeOK,
       Undoing, Finishing, CommittedView, ReadView, ProofInv, FinalStateProof,
       CommitState, CommittedPrevious, HandshakeCandidate, PreviousValid, Valid
  <1>12. ASSUME FinishProves, UNCHANGED <<installVars, readVars>> PROVE
          ProofInv'
    BY <1>12 DEF FinishProves, Goes, RollsBack, diskVars, outside, installVars,
       readVars, CallInv, CallTypeOK, TxInv, CommitInv, EndInv, DiskTypeOK, Undoing,
       Finishing, CommittedView, ReadView, ProofInv, FinalStateProof, CommitState,
       CommittedPrevious, HandshakeCandidate, PreviousValid, Valid
  <1>13. ASSUME CommitJournal, UNCHANGED <<installVars, readVars>> PROVE
          ProofInv'
    BY <1>13, EndsSomewhere DEF CommitJournal, diskVars, MovesJournal, Goes,
       callVars, outside, installVars, readVars, CallInv, CallTypeOK, TxInv, CommitInv,
       EndInv, DiskTypeOK, Undoing, Finishing, CommittedView, ReadView, ProofInv,
       FinalStateProof, CommitState, CommittedPrevious, HandshakeCandidate,
       PreviousValid, Valid
  <1>14. ASSUME CommitProves, UNCHANGED <<installVars, readVars>> PROVE
          ProofInv'
    BY <1>14, EndsSomewhere DEF CommitProves, Goes, diskVars, RestoresJournal,
       RollsBack, outside, installVars, readVars, CallInv, CallTypeOK, TxInv, CommitInv,
       EndInv, DiskTypeOK, Undoing, Finishing, CommittedView, ReadView, ProofInv,
       FinalStateProof, CommitState, CommittedPrevious, HandshakeCandidate,
       PreviousValid, Valid
  <1>15. ASSUME DeleteCandidate, UNCHANGED <<installVars, readVars>> PROVE
          ProofInv'
    BY <1>15, EndsSomewhere DEF DeleteCandidate, Moves, Goes, diskVars, callVars,
       outside, installVars, readVars, CallInv, CallTypeOK, TxInv, CommitInv, EndInv,
       DiskTypeOK, Undoing, Finishing, CommittedView, ReadView, ProofInv,
       FinalStateProof, CommitState, CommittedPrevious, HandshakeCandidate,
       PreviousValid, Valid
  <1>16. ASSUME DeleteJournal, UNCHANGED <<installVars, readVars>> PROVE
          ProofInv'
    BY <1>16, EndsSomewhere DEF DeleteJournal, ForgetsJournal, diskVars, callVars,
       outside, installVars, readVars, CallTypeOK, EndInv, PreviousInv, Undoing,
       CommittedView, ReadView, ProofInv, FinalStateProof, CommitState,
       CommittedPrevious, HandshakeCandidate, PreviousValid, Valid
  <1>17. ASSUME RollbackPointer, UNCHANGED <<installVars, readVars>> PROVE
          ProofInv'
    BY <1>17, EndsSomewhere DEF RollbackPointer, diskVars, PointsTo, Goes, outside,
       installVars, readVars, CallInv, CallTypeOK, TxInv, CommitInv, EndInv, DiskTypeOK,
       Undoing, Finishing, CommittedView, ReadView, ProofInv, FinalStateProof,
       CommitState, CommittedPrevious, HandshakeCandidate, PreviousValid, Valid
  <1>18. ASSUME RollbackTree, UNCHANGED <<installVars, readVars>> PROVE
          ProofInv'
    BY <1>18, EndsSomewhere DEF RollbackTree, diskVars, Moves, Goes, callVars,
       outside, installVars, readVars, TxInv, Journal, DiskTypeOK, Undoing, Finishing,
       ProofInv, FinalStateProof, CommitState, CommittedPrevious, HandshakeCandidate,
       PreviousValid, Valid
  <1>19. ASSUME RecoverReads, UNCHANGED <<installVars, readVars>> PROVE
          ProofInv'
    BY <1>19 DEF RecoverReads, Returns, diskVars, Goes, RecoverSpent, outside,
       RestoresJournal, installVars, readVars, CallInv, CallTypeOK, TxInv, CommitInv,
       EndInv, DiskTypeOK, Undoing, Finishing, CommittedView, ReadView, ProofInv,
       FinalStateProof, CommitState, CommittedPrevious, HandshakeCandidate,
       PreviousValid, Valid
  <1>20. ASSUME RecoverDispatches, UNCHANGED <<installVars, readVars>> PROVE
          ProofInv'
    BY <1>20 DEF RecoverDispatches, Goes, diskVars, callVars, outside, installVars,
       readVars, TxInv, Journal, DiskTypeOK, Undoing, Finishing, ProofInv,
       FinalStateProof, CommitState, CommittedPrevious, HandshakeCandidate,
       PreviousValid, Valid
  <1>21. ASSUME RecoverPublishing, UNCHANGED <<installVars, readVars>> PROVE
          ProofInv'
    BY <1>21 DEF RecoverPublishing, Returns, diskVars, Moves, Goes, outside,
       installVars, readVars, TxInv, Journal, DiskTypeOK, Undoing, Finishing, ProofInv,
       FinalStateProof, CommitState, CommittedPrevious, HandshakeCandidate,
       PreviousValid, Valid
  <1>22. ASSUME RecoverRechecks, UNCHANGED <<installVars, readVars>> PROVE
          ProofInv'
    BY <1>22 DEF RecoverRechecks, Goes, Returns, diskVars, callVars, outside,
       installVars, readVars, CallInv, CallTypeOK, TxInv, CommitInv, EndInv, DiskTypeOK,
       Undoing, Finishing, CommittedView, ReadView, ProofInv, FinalStateProof,
       CommitState, CommittedPrevious, HandshakeCandidate, PreviousValid, Valid
  <1>23. ASSUME RecoverDone, UNCHANGED <<installVars, readVars>> PROVE ProofInv'
    BY <1>23 DEF RecoverDone, Returns, diskVars, callVars, outside, installVars,
       readVars, CallInv, CallTypeOK, TxInv, CommitInv, EndInv, DiskTypeOK, Undoing,
       Finishing, CommittedView, ReadView, ProofInv, FinalStateProof, CommitState,
       CommittedPrevious, HandshakeCandidate, PreviousValid, Valid
  <1>24. ASSUME Restore(previous), UNCHANGED <<installVars, readVars>> PROVE
          ProofInv'
    BY <1>24 DEF Restore, Returns, Goes, diskVars, outside, installVars, readVars,
       CallInv, CallTypeOK, TxInv, CommitInv, EndInv, DiskTypeOK, Undoing, Finishing,
       CommittedView, ReadView, ProofInv, FinalStateProof, CommitState,
       CommittedPrevious, HandshakeCandidate, PreviousValid, Valid
  <1>25. ASSUME Discard, UNCHANGED <<installVars, readVars>> PROVE ProofInv'
    BY <1>25, ReadViewIsKnown DEF Discard, Returns, diskVars, Moves, callVars,
       outside, installVars, readVars, CallInv, CallTypeOK, TxInv, CommitInv, EndInv,
       DiskTypeOK, Undoing, Finishing, CommittedView, ReadView, ProofInv,
       FinalStateProof, CommitState, CommittedPrevious, HandshakeCandidate,
       PreviousValid, Valid
  <1>26. ASSUME Install PROVE ProofInv'
    BY <1>26 DEF Install, Calls, Keeps, KeepsCall, readVars, diskVars, outside,
       CallInv, OpAt, InstallPcs, CountTypeOK, CommittedView, ReadView, ProofInv,
       FinalStateProof, CommitState, CommittedPrevious, HandshakeCandidate,
       PreviousValid, Valid
  <1>27. ASSUME Stage PROVE ProofInv'
    BY <1>27 DEF Stage, Returned, Idles, KeepsCall, KeepsRecord, outside, readVars,
       CallInv, OpAt, InstallPcs, CountTypeOK, CommittedView, ReadView, ProofInv,
       FinalStateProof, CommitState, CommittedPrevious, HandshakeCandidate,
       PreviousValid, Valid
  <1>28. ASSUME Staged PROVE ProofInv'
    BY <1>28 DEF Staged, KeepsRecord, outside, readVars, KeepsCall, CallInv, OpAt,
       InstallPcs, CountTypeOK, CommittedView, ReadView, ProofInv, FinalStateProof,
       CommitState, CommittedPrevious, HandshakeCandidate, PreviousValid, Valid
  <1>29. ASSUME StageFails PROVE ProofInv'
    BY <1>29 DEF StageFails, Reports, KeepsCall, KeepsRecord, outside, readVars,
       CallInv, OpAt, InstallPcs, CountTypeOK, CommittedView, ReadView, ProofInv,
       FinalStateProof, CommitState, CommittedPrevious, HandshakeCandidate,
       PreviousValid, Valid
  <1>30. ASSUME ReadPrevious PROVE ProofInv'
    BY <1>30, ReadViewIsKnown DEF ReadPrevious, Calls, Keeps, readVars, diskVars,
       outside, CallInv, OpAt, InstallPcs, CountTypeOK, CommittedView, ReadView,
       ProofInv, FinalStateProof, CommitState, CommittedPrevious, HandshakeCandidate,
       PreviousValid, Valid
  <1>31. ASSUME Activate PROVE ProofInv'
    BY <1>31 DEF Activate, Continue, Returned, Calls, Keeps, KeepsCall, KeepsRecord,
       readVars, diskVars, outside, CallInv, OpAt, InstallPcs, CountTypeOK,
       CommittedView, ReadView, ProofInv, FinalStateProof, CommitState,
       CommittedPrevious, HandshakeCandidate, PreviousValid, Valid
  <1>32. ASSUME PublishFailed PROVE ProofInv'
    BY <1>32 DEF PublishFailed, Retreat, Returned, Calls, Keeps, KeepsCall,
       KeepsRecord, readVars, diskVars, outside, CallInv, OpAt, InstallPcs, CountTypeOK,
       CommittedView, ReadView, ProofInv, FinalStateProof, CommitState,
       CommittedPrevious, HandshakeCandidate, PreviousValid, Valid
  <1>33. ASSUME ActivateFailed PROVE ProofInv'
    BY <1>33 DEF ActivateFailed, Retreat, Returned, Calls, Keeps, KeepsCall,
       KeepsRecord, readVars, diskVars, outside, CallInv, OpAt, InstallPcs, CountTypeOK,
       CommittedView, ReadView, ProofInv, FinalStateProof, CommitState,
       CommittedPrevious, HandshakeCandidate, PreviousValid, Valid
  <1>34. ASSUME DiscardFailed PROVE ProofInv'
    BY <1>34 DEF DiscardFailed, Retreat, Returned, Calls, Keeps, KeepsCall,
       KeepsRecord, readVars, diskVars, outside, CallInv, OpAt, InstallPcs, CountTypeOK,
       CommittedView, ReadView, ProofInv, FinalStateProof, CommitState,
       CommittedPrevious, HandshakeCandidate, PreviousValid, Valid
  <1>35. ASSUME InstallFailed PROVE ProofInv'
    BY <1>35 DEF InstallFailed, Fails, Returned, Reports, Idles, Keeps, KeepsCall,
       KeepsRecord, readVars, diskVars, outside, CallInv, OpAt, InstallPcs, CountTypeOK,
       CommittedView, ReadView, ProofInv, FinalStateProof, CommitState,
       CommittedPrevious, HandshakeCandidate, PreviousValid, Valid
  <1>36. ASSUME Handshake PROVE ProofInv'
    BY <1>36 DEF Handshake, Returned, Calls, Keeps, KeepsCall, readVars, diskVars,
       outside, CallInv, OpAt, InstallPcs, CountTypeOK, CommittedView, ReadView,
       ProofInv, FinalStateProof, CommitState, CommittedPrevious, HandshakeCandidate,
       PreviousValid, Valid
  <1>37. ASSUME FinalizeFailed PROVE ProofInv'
    BY <1>37 DEF FinalizeFailed, Retreat, Returned, Calls, Keeps, KeepsCall,
       KeepsRecord, readVars, diskVars, outside, CallInv, OpAt, InstallPcs, CountTypeOK,
       CommittedView, ReadView, ProofInv, FinalStateProof, CommitState,
       CommittedPrevious, HandshakeCandidate, PreviousValid, Valid
  <1>38. ASSUME RestoreEnds PROVE ProofInv'
    BY <1>38, EndsSomewhere DEF RestoreEnds, Fails, Returned, Reports, Idles, Keeps,
       KeepsCall, KeepsRecord, readVars, diskVars, outside, CallInv, OpAt, InstallPcs,
       CountTypeOK, CommittedView, ReadView, ProofInv, FinalStateProof, CommitState,
       CommittedPrevious, HandshakeCandidate, PreviousValid, Valid
  <1>39. ASSUME Ready PROVE ProofInv'
    BY <1>39 DEF Ready, Returned, Reports, Idles, Keeps, KeepsCall, readVars,
       diskVars, outside, CallInv, OpAt, InstallPcs, CountTypeOK, CommittedView,
       ReadView, ProofInv, FinalStateProof, CommitState, CommittedPrevious,
       HandshakeCandidate, PreviousValid, Valid
  <1>40. ASSUME ReaderReadsPointer PROVE ProofInv'
    BY <1>40 DEF ReaderReadsPointer, storeVars, installVars, diskVars, callVars,
       CallInv, OpAt, InstallPcs, CountTypeOK, CommittedView, ReadView, ProofInv,
       FinalStateProof, CommitState, CommittedPrevious, HandshakeCandidate,
       PreviousValid, Valid
  <1>41. ASSUME ReaderReadsJournal PROVE ProofInv'
    BY <1>41, ReadViewIsKnown DEF ReaderReadsJournal, storeVars, installVars,
       diskVars, callVars, CallInv, OpAt, InstallPcs, CountTypeOK, CommittedView,
       ReadView, ProofInv, FinalStateProof, CommitState, CommittedPrevious,
       HandshakeCandidate, PreviousValid, Valid
  <1>42. ASSUME Crash PROVE ProofInv'
    BY <1>42 DEF Crash, StoreCrash, diskVars, CallInv, OpAt, InstallPcs, CountTypeOK,
       CommittedView, ReadView, ProofInv, FinalStateProof, CommitState,
       CommittedPrevious, HandshakeCandidate, PreviousValid, Valid
  <1>43. ASSUME NEW t \in Tree, Damage(t), UNCHANGED <<installVars, readVars>>
          PROVE ProofInv'
    BY <1>43 DEF Damage, callVars, installVars, readVars, CallInv, OpAt, InstallPcs,
       CountTypeOK, CommittedView, ReadView, ProofInv, FinalStateProof, CommitState,
       CommittedPrevious, HandshakeCandidate, PreviousValid, Valid
  <1>44. CASE UNCHANGED vars
    BY <1>44 DEF vars, storeVars, diskVars, callVars, outside, installVars, readVars,
       ProofInv, FinalStateProof, CommitState, CommittedPrevious, HandshakeCandidate,
       PreviousValid, Valid, CommittedView, ReadView
  <1>45. QED
    BY <1>1, <1>2, <1>3, <1>4, <1>5, <1>6, <1>7, <1>8, <1>9, <1>10, <1>11, <1>12,
       <1>13, <1>14, <1>15, <1>16, <1>17, <1>18, <1>19, <1>20, <1>21, <1>22, <1>23,
       <1>24, <1>25, <1>26, <1>27, <1>28, <1>29, <1>30, <1>31, <1>32, <1>33, <1>34,
       <1>35, <1>36, <1>37, <1>38, <1>39, <1>40, <1>41, <1>42, <1>43, <1>44 DEF Next,
       InstallStep, StoreWorks

\* While an installation waits for nothing, the store does nothing.
LEMMA StoreRests == CallInv /\ ip = "idle" => ~StoreWorks
  <1> SUFFICES ASSUME CallInv, ip = "idle", StoreWorks PROVE FALSE
    OBVIOUS
  <1>1. pc = "idle"
    BY DEF CallInv, OpAt, InstallPcs
  <1>2. QED
    BY <1>1 DEF StoreWorks, PublishIntent, ReconcileQuarantines, SweepDeletes,
       PublishMove, PublishAwaits, ActivatePointer, ActivationProof, FinalizeIntent,
       FinishStarts, ReconcileDeletes, ReconcileDone, FinishProves, CommitJournal,
       CommitProves, DeleteCandidate, DeleteJournal, RollbackPointer, RollbackTree,
       RecoverReads, RecoverDispatches, RecoverPublishing, RecoverRechecks, RecoverDone,
       Restore, Discard

\* Every step keeps what an installation reported true.
LEMMA OutcomesKept ==
    ASSUME [Next]_vars, DiskTypeOK, CountTypeOK, CallInv, CallInv', EndInv, EndInv',
           PreviousInv, VersionInv, ProofInv, OutcomeIsTrue
    PROVE  OutcomeIsTrue'
  <1>1. CASE outcome' = "none"
    BY <1>1 DEF OutcomeIsTrue
  <1>2. CASE Ready
    BY <1>2 DEF Ready, Returned, Reports, Keeps, diskVars, outside, PreviousInv, VersionInv, ProofInv,
       Reconciled, Valid, OutcomeIsTrue
  <1>3. CASE RestoreEnds
    BY <1>3 DEF RestoreEnds, Fails, Returned, Reports, Keeps, KeepsRecord, diskVars, outside,
       ProofInv, CommittedView, ReadView, PreviousValid, Valid, OutcomeIsTrue
  <1>4. CASE outcome' \in {"failed", "recoveryRequired"}
    BY <1>4 DEF OutcomeIsTrue
  <1>5. ASSUME NEW t \in Tree, Damage(t), UNCHANGED <<installVars, readVars>>
        PROVE  OutcomeIsTrue'
    BY <1>5 DEF Damage, installVars, CountTypeOK, OutcomeIsTrue
  <1>6. CASE UNCHANGED <<storeVars, installVars>>
    BY <1>6 DEF storeVars, diskVars, installVars, CommittedView, ReadView, PreviousValid, Valid,
       OutcomeIsTrue
  <1>7. CASE outcome' # "none"
    <2>1. ip' = "idle"
      BY <1>7 DEF EndInv
    <2>2. CASE StoreWorks
      BY <2>1, <2>2, StoreRests DEF StoreWorks, installVars
    <2>3. CASE Install \/ InstallStep
      BY <1>2, <1>3, <1>4, <2>1, <2>3
      DEF InstallStep, Install, Stage, Staged, StageFails, ReadPrevious, Activate,
          PublishFailed, ActivateFailed, DiscardFailed, InstallFailed, Handshake,
          FinalizeFailed, Continue, Retreat, Fails, Calls, Keeps, Idles, Reports,
          Returned, KeepsCall, KeepsRecord, readVars, diskVars, outside
    <2>4. CASE Crash
      BY <1>1, <2>4 DEF Crash
    <2>5. CASE ReaderReadsPointer \/ ReaderReadsJournal
      BY <1>6, <2>5 DEF ReaderReadsPointer, ReaderReadsJournal
    <2>6. CASE UNCHANGED vars
      BY <1>6, <2>6 DEF vars
    <2>7. QED
      BY <1>5, <2>2, <2>3, <2>4, <2>5, <2>6 DEF Next
  <1>8. QED
    BY <1>1, <1>7

\* The second inductive invariant holds of the initial states.
LEMMA OutcomeInitially == Init => OutcomeInv
  BY DEF Init, StoreInit, OutcomeInv, EndInv, PreviousInv, VersionInv, ProofInv,
     OutcomeIsTrue, Undoing, Finishing

\* Every step keeps it, given the first one before and after the step.
LEMMA OutcomeSteps == ServeInv /\ ServeInv' /\ OutcomeInv /\ [Next]_vars => OutcomeInv'
  <1> SUFFICES ASSUME ServeInv, ServeInv', OutcomeInv, [Next]_vars PROVE OutcomeInv'
    OBVIOUS
  <1>1. /\ DiskTypeOK /\ CallTypeOK /\ CountTypeOK /\ InstallTypeOK
        /\ CallInv /\ CallInv' /\ TxInv /\ CommitInv
    BY DEF ServeInv, TypeOK, StoreTypeOK
  <1>2. EndInv /\ PreviousInv /\ VersionInv /\ ProofInv /\ OutcomeIsTrue
    BY DEF OutcomeInv
  <1>3. EndInv' /\ PreviousInv' /\ VersionInv' /\ ProofInv'
    BY <1>1, <1>2, EndsKept, PreviousKept, VersionsKept, ProofsKept
  <1>4. OutcomeIsTrue'
    BY <1>1, <1>2, <1>3, OutcomesKept
  <1>5. QED
    BY <1>3, <1>4 DEF OutcomeInv

\* It holds in every reachable state.
LEMMA OutcomeInvariant == Spec => []OutcomeInv
  BY OutcomeInitially, OutcomeSteps, InstallInvariant, PTL DEF Spec

\* OutcomeIsTrue: what an installation reports is true of the disk, for any number of
\* installations, faults, crashes and damages.
THEOREM OutcomeIsAlwaysTrue == Spec => []OutcomeIsTrue
  <1>1. OutcomeInv => OutcomeIsTrue
    BY DEF OutcomeInv
  <1>2. QED
    BY <1>1, OutcomeInvariant, PTL

-----------------------------------------------------------------------------
(* What is kept: the inductive invariant                                   *)

\* The runtime that counts: an activation counts from its finalization on.
Base == IF active = journal.cand /\ journal.phase # "finalizing" THEN journal.prev ELSE active

Intact(t) == t = 0 \/ Valid(t)

\* An installation that has not published is newer than all there is.
Fresh == ip \in {"recovering", "staging", "reading"} \/ pc = "publish"
Published == pc \in {"move", "await"} \/ (op = "publish" /\ pc = "returned" /\ result = "ok")
AgeInv ==
    /\ active <= attempt /\ ready <= attempt /\ (Fresh => active < attempt)
    /\ \A j \in {journal, tx} \cup spent :
        /\ j # NoJournal => j.prev < j.cand
        /\ j.cand <= attempt /\ (Fresh => j.cand < attempt)
    /\ Published => active = tx.prev /\ \A j \in spent : j.cand < attempt
    /\ op = "publish" /\ pc = "returned" /\ result = "ok" => tx.phase = "awaiting"
    /\ pc \in {"activate", "activated"} => tx.phase = "awaiting"
    /\ pc = "activate" => active = tx.prev

\* The candidate of a spent journal that was not finalized has left versions/.
SpentInv == \A j \in spent : j.phase # "finalizing" => place[j.cand] # "versions"

\* As long as nobody else changes the files, the pointer is where the procedures
\* have put it, and a proof that held holds.
PointerInv == damages = 0 =>
    /\ pc = "rollback" /\ tx.phase = "finalizing" => active # tx.cand
    /\ pc = "rollbackTree" => active = tx.prev
    /\ pc \in Finishing \ {"finish"} => active = tx.cand
    /\ pc = "reconciled" => CommitState(tx)
    /\ pc = "committed" => FinalStateProof(tx)
    /\ pc \in {"committed", "deleteJournal"} /\ proc = "finish" => tx.phase = "finalizing"

BaseInv == damages = 0 =>
    Base >= ready /\ Intact(active) /\ Intact(Base)

ReadyInv == AgeInv /\ SpentInv /\ PointerInv /\ BaseInv

\* Every step keeps the order of the installations.
LEMMA AgesKept == DiskTypeOK /\ CallTypeOK /\ InstallTypeOK /\ CallInv /\ TxInv /\
    EndInv /\ AgeInv /\ [Next]_vars => AgeInv'
  <1> SUFFICES ASSUME DiskTypeOK, CallTypeOK, InstallTypeOK, CallInv, TxInv,
          EndInv, AgeInv, [Next]_vars PROVE AgeInv'
    OBVIOUS
  <1>1. ASSUME NEW t \in Tree, PublishIntent(t), UNCHANGED <<installVars,
          readVars>> PROVE AgeInv'
    BY <1>1 DEF PublishIntent, Returns, diskVars, WritesJournal, Goes, outside,
       installVars, readVars, CallInv, TxInv, OpAt, InstallPcs, Finishing, Undoing,
       Journal, NoJournal, DiskTypeOK, InstallTypeOK, Tree, CallTypeOK, EndInv, AgeInv,
       Fresh, Published
  <1>2. ASSUME NEW t \in Tree, ReconcileQuarantines(t), UNCHANGED <<installVars,
          readVars>> PROVE AgeInv'
    BY <1>2, EndsSomewhere DEF ReconcileQuarantines, Moves, Goes, diskVars, outside,
       installVars, readVars, CallInv, TxInv, OpAt, InstallPcs, Finishing, Undoing,
       Journal, NoJournal, DiskTypeOK, InstallTypeOK, Tree, CallTypeOK, EndInv, AgeInv,
       Fresh, Published
  <1>3. ASSUME NEW t \in Tree, SweepDeletes(t), UNCHANGED <<installVars,
          readVars>> PROVE AgeInv'
    BY <1>3 DEF SweepDeletes, Moves, Returns, callVars, outside, installVars,
       readVars, CallInv, TxInv, OpAt, InstallPcs, Finishing, Undoing, Journal,
       NoJournal, DiskTypeOK, InstallTypeOK, Tree, CallTypeOK, EndInv, AgeInv, Fresh,
       Published
  <1>4. ASSUME PublishMove, UNCHANGED <<installVars, readVars>> PROVE AgeInv'
    BY <1>4 DEF PublishMove, Moves, Goes, diskVars, Returns, callVars, outside,
       installVars, readVars, CallInv, TxInv, OpAt, InstallPcs, Finishing, Undoing,
       Journal, NoJournal, DiskTypeOK, InstallTypeOK, Tree, CallTypeOK, EndInv, AgeInv,
       Fresh, Published
  <1>5. ASSUME PublishAwaits, UNCHANGED <<installVars, readVars>> PROVE AgeInv'
    BY <1>5 DEF PublishAwaits, WritesJournal, Returns, diskVars, outside,
       installVars, readVars, CallInv, TxInv, OpAt, InstallPcs, Finishing, Undoing,
       Journal, NoJournal, DiskTypeOK, InstallTypeOK, Tree, CallTypeOK, EndInv, AgeInv,
       Fresh, Published
  <1>6. ASSUME ActivatePointer, UNCHANGED <<installVars, readVars>> PROVE
          AgeInv'
    BY <1>6 DEF ActivatePointer, Returns, diskVars, Goes, PointsTo, outside,
       installVars, readVars, CallInv, TxInv, OpAt, InstallPcs, Finishing, Undoing,
       Journal, NoJournal, DiskTypeOK, InstallTypeOK, Tree, CallTypeOK, EndInv, AgeInv,
       Fresh, Published
  <1>7. ASSUME ActivationProof, UNCHANGED <<installVars, readVars>> PROVE
          AgeInv'
    BY <1>7 DEF ActivationProof, Returns, Goes, diskVars, outside, installVars,
       readVars, CallInv, TxInv, OpAt, InstallPcs, Finishing, Undoing, Journal,
       NoJournal, DiskTypeOK, InstallTypeOK, Tree, CallTypeOK, EndInv, AgeInv, Fresh,
       Published
  <1>8. ASSUME FinalizeIntent, UNCHANGED <<installVars, readVars>> PROVE AgeInv'
    <2> DEFINE j == [tx EXCEPT !.phase = "finalizing",
                              !.keep = tx.prev # 0 /\ PreviousValid(tx)]
    <2>1. tx \in Journal /\ op = "finalize" /\ tx = journal
      BY <1>8 DEF FinalizeIntent, TxInv, Undoing, Finishing, Mine, CallInv
    <2>2. j \in Journal /\ j.prev = tx.prev /\ j.cand = tx.cand
      BY <2>1 DEF PreviousValid, Journal
    <2>3. /\ journal' \in {journal, j} /\ tx' \in {tx, j} /\ pc' \in {"finish", "returned"}
          /\ UNCHANGED <<active, spent, attempt, ready, ip, op>>
      BY <1>8 DEF FinalizeIntent, WritesJournal, diskVars, installVars, Goes, Returns
    <2> HIDE DEF j
    <2>4. tx # NoJournal
      BY <2>1 DEF Journal, NoJournal
    <2>5. QED
      BY <2>1, <2>2, <2>3, <2>4, <1>8 DEF FinalizeIntent, AgeInv, Fresh, Published
  <1>9. ASSUME FinishStarts, UNCHANGED <<installVars, readVars>> PROVE AgeInv'
    BY <1>9 DEF FinishStarts, Goes, RollsBack, diskVars, outside, installVars,
       readVars, CallInv, TxInv, OpAt, InstallPcs, Finishing, Undoing, Journal,
       NoJournal, DiskTypeOK, InstallTypeOK, Tree, CallTypeOK, EndInv, AgeInv, Fresh,
       Published
  <1>10. ASSUME ReconcileDeletes, UNCHANGED <<installVars, readVars>> PROVE
          AgeInv'
    BY <1>10, EndsSomewhere DEF ReconcileDeletes, Moves, Goes, diskVars, callVars,
       outside, installVars, readVars, CallInv, TxInv, OpAt, InstallPcs, Finishing,
       Undoing, Journal, NoJournal, DiskTypeOK, InstallTypeOK, Tree, CallTypeOK, EndInv,
       AgeInv, Fresh, Published
  <1>11. ASSUME ReconcileDone, UNCHANGED <<installVars, readVars>> PROVE AgeInv'
    BY <1>11, EndsSomewhere DEF ReconcileDone, Goes, diskVars, callVars, outside,
       installVars, readVars, CallInv, TxInv, OpAt, InstallPcs, Finishing, Undoing,
       Journal, NoJournal, DiskTypeOK, InstallTypeOK, Tree, CallTypeOK, EndInv, AgeInv,
       Fresh, Published
  <1>12. ASSUME FinishProves, UNCHANGED <<installVars, readVars>> PROVE AgeInv'
    BY <1>12 DEF FinishProves, Goes, RollsBack, diskVars, outside, installVars,
       readVars, CallInv, TxInv, OpAt, InstallPcs, Finishing, Undoing, Journal,
       NoJournal, DiskTypeOK, InstallTypeOK, Tree, CallTypeOK, EndInv, AgeInv, Fresh,
       Published
  <1>13. ASSUME CommitJournal, UNCHANGED <<installVars, readVars>> PROVE AgeInv'
    BY <1>13, EndsSomewhere DEF CommitJournal, diskVars, MovesJournal, Goes,
       callVars, outside, installVars, readVars, CallInv, TxInv, OpAt, InstallPcs,
       Finishing, Undoing, Journal, NoJournal, DiskTypeOK, InstallTypeOK, Tree,
       CallTypeOK, EndInv, AgeInv, Fresh, Published
  <1>14. ASSUME CommitProves, UNCHANGED <<installVars, readVars>> PROVE AgeInv'
    BY <1>14, EndsSomewhere DEF CommitProves, Goes, diskVars, RestoresJournal,
       RollsBack, outside, installVars, readVars, CallInv, TxInv, OpAt, InstallPcs,
       Finishing, Undoing, Journal, NoJournal, DiskTypeOK, InstallTypeOK, Tree,
       CallTypeOK, EndInv, AgeInv, Fresh, Published
  <1>15. ASSUME DeleteCandidate, UNCHANGED <<installVars, readVars>> PROVE
          AgeInv'
    BY <1>15, EndsSomewhere DEF DeleteCandidate, Moves, Goes, diskVars, callVars,
       outside, installVars, readVars, CallInv, TxInv, OpAt, InstallPcs, Finishing,
       Undoing, Journal, NoJournal, DiskTypeOK, InstallTypeOK, Tree, CallTypeOK, EndInv,
       AgeInv, Fresh, Published
  <1>16. ASSUME DeleteJournal, UNCHANGED <<installVars, readVars>> PROVE AgeInv'
    BY <1>16, EndsSomewhere DEF DeleteJournal, ForgetsJournal, diskVars, callVars,
       outside, installVars, readVars, CallInv, TxInv, OpAt, InstallPcs, Finishing,
       Undoing, Journal, NoJournal, DiskTypeOK, InstallTypeOK, Tree, CallTypeOK, EndInv,
       AgeInv, Fresh, Published
  <1>17. ASSUME RollbackPointer, UNCHANGED <<installVars, readVars>> PROVE
          AgeInv'
    BY <1>17, EndsSomewhere DEF RollbackPointer, diskVars, PointsTo, Goes, outside,
       installVars, readVars, CallInv, TxInv, OpAt, InstallPcs, Finishing, Undoing,
       Journal, NoJournal, DiskTypeOK, InstallTypeOK, Tree, CallTypeOK, EndInv, AgeInv,
       Fresh, Published
  <1>18. ASSUME RollbackTree, UNCHANGED <<installVars, readVars>> PROVE AgeInv'
    BY <1>18, EndsSomewhere DEF RollbackTree, diskVars, Moves, Goes, callVars,
       outside, installVars, readVars, CallInv, TxInv, OpAt, InstallPcs, Finishing,
       Undoing, Journal, NoJournal, DiskTypeOK, InstallTypeOK, Tree, CallTypeOK, EndInv,
       AgeInv, Fresh, Published
  <1>19. ASSUME RecoverReads, UNCHANGED <<installVars, readVars>> PROVE AgeInv'
    BY <1>19 DEF RecoverReads, Returns, diskVars, Goes, RecoverSpent, outside,
       RestoresJournal, installVars, readVars, CallInv, TxInv, OpAt, InstallPcs,
       Finishing, Undoing, Journal, NoJournal, DiskTypeOK, InstallTypeOK, Tree,
       CallTypeOK, EndInv, AgeInv, Fresh, Published
  <1>20. ASSUME RecoverDispatches, UNCHANGED <<installVars, readVars>> PROVE
          AgeInv'
    BY <1>20 DEF RecoverDispatches, Goes, diskVars, callVars, outside, installVars,
       readVars, CallInv, TxInv, OpAt, InstallPcs, Finishing, Undoing, Journal,
       NoJournal, DiskTypeOK, InstallTypeOK, Tree, CallTypeOK, EndInv, AgeInv, Fresh,
       Published
  <1>21. ASSUME RecoverPublishing, UNCHANGED <<installVars, readVars>> PROVE
          AgeInv'
    BY <1>21 DEF RecoverPublishing, Returns, diskVars, Moves, Goes, outside,
       installVars, readVars, CallInv, TxInv, OpAt, InstallPcs, Finishing, Undoing,
       Journal, NoJournal, DiskTypeOK, InstallTypeOK, Tree, CallTypeOK, EndInv, AgeInv,
       Fresh, Published
  <1>22. ASSUME RecoverRechecks, UNCHANGED <<installVars, readVars>> PROVE
          AgeInv'
    BY <1>22 DEF RecoverRechecks, Goes, Returns, diskVars, callVars, outside,
       installVars, readVars, CallInv, TxInv, OpAt, InstallPcs, Finishing, Undoing,
       Journal, NoJournal, DiskTypeOK, InstallTypeOK, Tree, CallTypeOK, EndInv, AgeInv,
       Fresh, Published
  <1>23. ASSUME RecoverDone, UNCHANGED <<installVars, readVars>> PROVE AgeInv'
    BY <1>23 DEF RecoverDone, Returns, diskVars, callVars, outside, installVars,
       readVars, CallInv, TxInv, OpAt, InstallPcs, Finishing, Undoing, Journal,
       NoJournal, DiskTypeOK, InstallTypeOK, Tree, CallTypeOK, EndInv, AgeInv, Fresh,
       Published
  <1>24. ASSUME Restore(previous), UNCHANGED <<installVars, readVars>> PROVE
          AgeInv'
    BY <1>24 DEF Restore, Returns, Goes, diskVars, outside, installVars, readVars,
       CallInv, TxInv, OpAt, InstallPcs, Finishing, Undoing, Journal, NoJournal,
       DiskTypeOK, InstallTypeOK, Tree, CallTypeOK, EndInv, AgeInv, Fresh, Published
  <1>25. ASSUME Discard, UNCHANGED <<installVars, readVars>> PROVE AgeInv'
    BY <1>25, ReadViewIsKnown DEF Discard, Returns, diskVars, Moves, callVars,
       outside, installVars, readVars, CallInv, TxInv, OpAt, InstallPcs, Finishing,
       Undoing, Journal, NoJournal, DiskTypeOK, InstallTypeOK, Tree, CallTypeOK, EndInv,
       AgeInv, Fresh, Published
  <1>26. ASSUME Install PROVE AgeInv'
    BY <1>26 DEF Install, Calls, Keeps, KeepsCall, readVars, diskVars, outside,
       CallInv, TxInv, OpAt, InstallPcs, Finishing, Undoing, Journal, NoJournal,
       DiskTypeOK, InstallTypeOK, Tree, CallTypeOK, EndInv, AgeInv, Fresh, Published
  <1>27. ASSUME Stage PROVE AgeInv'
    BY <1>27 DEF Stage, Returned, Idles, KeepsCall, KeepsRecord, outside, readVars,
       CallInv, TxInv, OpAt, InstallPcs, Finishing, Undoing, Journal, NoJournal,
       DiskTypeOK, InstallTypeOK, Tree, CallTypeOK, EndInv, AgeInv, Fresh, Published
  <1>28. ASSUME Staged PROVE AgeInv'
    BY <1>28 DEF Staged, KeepsRecord, outside, readVars, KeepsCall, CallInv, TxInv,
       OpAt, InstallPcs, Finishing, Undoing, Journal, NoJournal, DiskTypeOK,
       InstallTypeOK, Tree, CallTypeOK, EndInv, AgeInv, Fresh, Published
  <1>29. ASSUME StageFails PROVE AgeInv'
    BY <1>29 DEF StageFails, Reports, KeepsCall, KeepsRecord, outside, readVars,
       CallInv, TxInv, OpAt, InstallPcs, Finishing, Undoing, Journal, NoJournal,
       DiskTypeOK, InstallTypeOK, Tree, CallTypeOK, EndInv, AgeInv, Fresh, Published
  <1>30. ASSUME ReadPrevious PROVE AgeInv'
    BY <1>30, ReadViewIsKnown DEF ReadPrevious, Calls, Keeps, readVars, diskVars,
       outside, CallInv, TxInv, OpAt, InstallPcs, Finishing, Undoing, Journal,
       NoJournal, DiskTypeOK, InstallTypeOK, Tree, CallTypeOK, EndInv, AgeInv, Fresh,
       Published
  <1>31. ASSUME Activate PROVE AgeInv'
    BY <1>31 DEF Activate, Continue, Returned, Calls, Keeps, KeepsCall, KeepsRecord,
       readVars, diskVars, outside, CallInv, TxInv, OpAt, InstallPcs, Finishing,
       Undoing, Journal, NoJournal, DiskTypeOK, InstallTypeOK, Tree, CallTypeOK, EndInv,
       AgeInv, Fresh, Published
  <1>32. ASSUME PublishFailed PROVE AgeInv'
    BY <1>32 DEF PublishFailed, Retreat, Returned, Calls, Keeps, KeepsCall,
       KeepsRecord, readVars, diskVars, outside, CallInv, TxInv, OpAt, InstallPcs,
       Finishing, Undoing, Journal, NoJournal, DiskTypeOK, InstallTypeOK, Tree,
       CallTypeOK, EndInv, AgeInv, Fresh, Published
  <1>33. ASSUME ActivateFailed PROVE AgeInv'
    BY <1>33 DEF ActivateFailed, Retreat, Returned, Calls, Keeps, KeepsCall,
       KeepsRecord, readVars, diskVars, outside, CallInv, TxInv, OpAt, InstallPcs,
       Finishing, Undoing, Journal, NoJournal, DiskTypeOK, InstallTypeOK, Tree,
       CallTypeOK, EndInv, AgeInv, Fresh, Published
  <1>34. ASSUME DiscardFailed PROVE AgeInv'
    BY <1>34 DEF DiscardFailed, Retreat, Returned, Calls, Keeps, KeepsCall,
       KeepsRecord, readVars, diskVars, outside, CallInv, TxInv, OpAt, InstallPcs,
       Finishing, Undoing, Journal, NoJournal, DiskTypeOK, InstallTypeOK, Tree,
       CallTypeOK, EndInv, AgeInv, Fresh, Published
  <1>35. ASSUME InstallFailed PROVE AgeInv'
    BY <1>35 DEF InstallFailed, Fails, Returned, Reports, Idles, Keeps, KeepsCall,
       KeepsRecord, readVars, diskVars, outside, CallInv, TxInv, OpAt, InstallPcs,
       Finishing, Undoing, Journal, NoJournal, DiskTypeOK, InstallTypeOK, Tree,
       CallTypeOK, EndInv, AgeInv, Fresh, Published
  <1>36. ASSUME Handshake PROVE AgeInv'
    BY <1>36 DEF Handshake, Returned, Calls, Keeps, KeepsCall, readVars, diskVars,
       outside, CallInv, TxInv, OpAt, InstallPcs, Finishing, Undoing, Journal,
       NoJournal, DiskTypeOK, InstallTypeOK, Tree, CallTypeOK, EndInv, AgeInv, Fresh,
       Published
  <1>37. ASSUME FinalizeFailed PROVE AgeInv'
    BY <1>37 DEF FinalizeFailed, Retreat, Returned, Calls, Keeps, KeepsCall,
       KeepsRecord, readVars, diskVars, outside, CallInv, TxInv, OpAt, InstallPcs,
       Finishing, Undoing, Journal, NoJournal, DiskTypeOK, InstallTypeOK, Tree,
       CallTypeOK, EndInv, AgeInv, Fresh, Published
  <1>38. ASSUME RestoreEnds PROVE AgeInv'
    BY <1>38, EndsSomewhere DEF RestoreEnds, Fails, Returned, Reports, Idles, Keeps,
       KeepsCall, KeepsRecord, readVars, diskVars, outside, CallInv, TxInv, OpAt,
       InstallPcs, Finishing, Undoing, Journal, NoJournal, DiskTypeOK, InstallTypeOK,
       Tree, CallTypeOK, EndInv, AgeInv, Fresh, Published
  <1>39. ASSUME Ready PROVE AgeInv'
    BY <1>39 DEF Ready, Returned, Reports, Idles, Keeps, KeepsCall, readVars,
       diskVars, outside, CallInv, TxInv, OpAt, InstallPcs, Finishing, Undoing, Journal,
       NoJournal, DiskTypeOK, InstallTypeOK, Tree, CallTypeOK, EndInv, AgeInv, Fresh,
       Published
  <1>40. ASSUME ReaderReadsPointer PROVE AgeInv'
    BY <1>40 DEF ReaderReadsPointer, storeVars, installVars, diskVars, callVars,
       CallInv, TxInv, OpAt, InstallPcs, Finishing, Undoing, Journal, NoJournal,
       DiskTypeOK, InstallTypeOK, Tree, CallTypeOK, EndInv, AgeInv, Fresh, Published
  <1>41. ASSUME ReaderReadsJournal PROVE AgeInv'
    BY <1>41, ReadViewIsKnown DEF ReaderReadsJournal, storeVars, installVars,
       diskVars, callVars, CallInv, TxInv, OpAt, InstallPcs, Finishing, Undoing,
       Journal, NoJournal, DiskTypeOK, InstallTypeOK, Tree, CallTypeOK, EndInv, AgeInv,
       Fresh, Published
  <1>42. ASSUME Crash PROVE AgeInv'
    BY <1>42 DEF Crash, StoreCrash, diskVars, CallInv, TxInv, OpAt, InstallPcs,
       Finishing, Undoing, Journal, NoJournal, DiskTypeOK, InstallTypeOK, Tree,
       CallTypeOK, EndInv, AgeInv, Fresh, Published
  <1>43. ASSUME NEW t \in Tree, Damage(t), UNCHANGED <<installVars, readVars>>
          PROVE AgeInv'
    BY <1>43 DEF Damage, callVars, installVars, readVars, AgeInv, Fresh, Published
  <1>44. CASE UNCHANGED vars
    BY <1>44 DEF vars, storeVars, diskVars, callVars, outside, installVars, readVars,
       AgeInv, Fresh, Published
  <1>45. QED
    BY <1>1, <1>2, <1>3, <1>4, <1>5, <1>6, <1>7, <1>8, <1>9, <1>10, <1>11, <1>12,
       <1>13, <1>14, <1>15, <1>16, <1>17, <1>18, <1>19, <1>20, <1>21, <1>22, <1>23,
       <1>24, <1>25, <1>26, <1>27, <1>28, <1>29, <1>30, <1>31, <1>32, <1>33, <1>34,
       <1>35, <1>36, <1>37, <1>38, <1>39, <1>40, <1>41, <1>42, <1>43, <1>44 DEF Next,
       InstallStep, StoreWorks

\* A runtime that leaves versions/ disturbs no spent journal.
LEMMA LeavingKeepsSpent ==
    ASSUME DiskTypeOK, SpentInv, NEW t \in Tree \cup {0}, NEW w \in Places \ {"versions"}, Moves(t, w)
    PROVE  SpentInv'
  <1> SUFFICES ASSUME NEW j \in spent', j.phase # "finalizing" PROVE place'[j.cand] # "versions"
    BY DEF SpentInv
  <1>1. j \in spent /\ place[j.cand] # "versions" /\ j.cand \in Tree
    BY DEF Moves, SpentInv, DiskTypeOK, Journal
  <1>2. place'[j.cand] \in {w, place[j.cand]}
    BY <1>1 DEF Moves, DiskTypeOK
  <1>3. QED
    BY <1>1, <1>2

\* Every step keeps the candidates of spent journals out of versions/.
LEMMA SpentKept == DiskTypeOK /\ CallTypeOK /\ CallInv /\ TxInv /\ CommitInv /\
    EndInv /\ ProofInv /\ AgeInv /\ SpentInv /\ [Next]_vars => SpentInv'
  <1> SUFFICES ASSUME DiskTypeOK, CallTypeOK, CallInv, TxInv, CommitInv, EndInv,
          ProofInv, AgeInv, SpentInv, [Next]_vars PROVE SpentInv'
    OBVIOUS
  <1>1. ASSUME NEW t \in Tree, PublishIntent(t), UNCHANGED <<installVars,
          readVars>> PROVE SpentInv'
    BY <1>1 DEF PublishIntent, Returns, diskVars, WritesJournal, Goes, outside,
       installVars, readVars, CallInv, TxInv, Mine, CommitInv, EndInv, ProofInv, AgeInv,
       Published, Fresh, Finishing, Undoing, Journal, NoJournal, DiskTypeOK, Tree,
       SpentInv
  <1>2. ASSUME NEW t \in Tree, ReconcileQuarantines(t), UNCHANGED <<installVars,
          readVars>> PROVE SpentInv'
    <2>1. \/ UNCHANGED diskVars
          \/ \E w \in Places \ {"versions"} : Moves(t, w)
      BY <1>2 DEF ReconcileQuarantines, Places
    <2>2. t \in Tree \cup {0}
      OBVIOUS
    <2>3. CASE UNCHANGED diskVars
      BY <2>3 DEF diskVars, SpentInv
    <2>4. QED
      BY <2>1, <2>2, <2>3, LeavingKeepsSpent
  <1>3. ASSUME NEW t \in Tree, SweepDeletes(t), UNCHANGED <<installVars,
          readVars>> PROVE SpentInv'
    <2>1. \/ UNCHANGED diskVars
          \/ \E w \in Places \ {"versions"} : Moves(t, w)
      BY <1>3 DEF SweepDeletes, Places
    <2>2. t \in Tree \cup {0}
      OBVIOUS
    <2>3. CASE UNCHANGED diskVars
      BY <2>3 DEF diskVars, SpentInv
    <2>4. QED
      BY <2>1, <2>2, <2>3, LeavingKeepsSpent
  <1>4. ASSUME PublishMove, UNCHANGED <<installVars, readVars>> PROVE SpentInv'
    <2>1. CASE UNCHANGED diskVars
      BY <2>1 DEF diskVars, SpentInv
    <2>2. CASE Moves(tx.cand, "versions")
      <3>1. \A j \in spent : j.cand < attempt /\ tx.cand = attempt
        BY <1>4 DEF PublishMove, AgeInv, Published, TxInv, Mine
      <3>2. \A j \in spent : j.cand \in Tree /\ j.cand # tx.cand
        BY <3>1, StoreAssumption DEF DiskTypeOK, Journal, Tree
      <3>3. QED
        BY <2>2, <3>2 DEF Moves, SpentInv, DiskTypeOK
    <2>3. QED
      BY <1>4, <2>1, <2>2 DEF PublishMove
  <1>5. ASSUME PublishAwaits, UNCHANGED <<installVars, readVars>> PROVE
          SpentInv'
    BY <1>5 DEF PublishAwaits, WritesJournal, Returns, diskVars, outside,
       installVars, readVars, CallInv, TxInv, Mine, CommitInv, EndInv, ProofInv, AgeInv,
       Published, Fresh, Finishing, Undoing, Journal, NoJournal, DiskTypeOK, Tree,
       SpentInv
  <1>6. ASSUME ActivatePointer, UNCHANGED <<installVars, readVars>> PROVE
          SpentInv'
    BY <1>6 DEF ActivatePointer, Returns, diskVars, Goes, PointsTo, outside,
       installVars, readVars, CallInv, TxInv, Mine, CommitInv, EndInv, ProofInv, AgeInv,
       Published, Fresh, Finishing, Undoing, Journal, NoJournal, DiskTypeOK, Tree,
       SpentInv
  <1>7. ASSUME ActivationProof, UNCHANGED <<installVars, readVars>> PROVE
          SpentInv'
    BY <1>7 DEF ActivationProof, Returns, Goes, diskVars, outside, installVars,
       readVars, CallInv, TxInv, Mine, CommitInv, EndInv, ProofInv, AgeInv, Published,
       Fresh, Finishing, Undoing, Journal, NoJournal, DiskTypeOK, Tree, SpentInv
  <1>8. ASSUME FinalizeIntent, UNCHANGED <<installVars, readVars>> PROVE
          SpentInv'
    BY <1>8 DEF FinalizeIntent, Returns, diskVars, WritesJournal, Goes, outside,
       installVars, readVars, CallInv, TxInv, Mine, CommitInv, EndInv, ProofInv, AgeInv,
       Published, Fresh, Finishing, Undoing, Journal, NoJournal, DiskTypeOK, Tree,
       SpentInv
  <1>9. ASSUME FinishStarts, UNCHANGED <<installVars, readVars>> PROVE SpentInv'
    BY <1>9 DEF FinishStarts, Goes, RollsBack, diskVars, outside, installVars,
       readVars, CallInv, TxInv, Mine, CommitInv, EndInv, ProofInv, AgeInv, Published,
       Fresh, Finishing, Undoing, Journal, NoJournal, DiskTypeOK, Tree, SpentInv
  <1>10. ASSUME ReconcileDeletes, UNCHANGED <<installVars, readVars>> PROVE
          SpentInv'
    <2>1. \/ UNCHANGED diskVars
          \/ \E w \in Places \ {"versions"} : Moves(cur, w)
      BY <1>10 DEF ReconcileDeletes, Places
    <2>2. cur \in Tree \cup {0}
      BY <1>10 DEF ReconcileDeletes, CallTypeOK
    <2>3. CASE UNCHANGED diskVars
      BY <2>3 DEF diskVars, SpentInv
    <2>4. QED
      BY <2>1, <2>2, <2>3, LeavingKeepsSpent
  <1>11. ASSUME ReconcileDone, UNCHANGED <<installVars, readVars>> PROVE
          SpentInv'
    BY <1>11, EndsSomewhere DEF ReconcileDone, Goes, diskVars, callVars, outside,
       installVars, readVars, CallInv, TxInv, Mine, CommitInv, EndInv, ProofInv, AgeInv,
       Published, Fresh, Finishing, Undoing, Journal, NoJournal, DiskTypeOK, Tree,
       SpentInv
  <1>12. ASSUME FinishProves, UNCHANGED <<installVars, readVars>> PROVE
          SpentInv'
    BY <1>12 DEF FinishProves, Goes, RollsBack, diskVars, outside, installVars,
       readVars, CallInv, TxInv, Mine, CommitInv, EndInv, ProofInv, AgeInv, Published,
       Fresh, Finishing, Undoing, Journal, NoJournal, DiskTypeOK, Tree, SpentInv
  <1>13. ASSUME CommitJournal, UNCHANGED <<installVars, readVars>> PROVE
          SpentInv'
    BY <1>13, EndsSomewhere DEF CommitJournal, diskVars, MovesJournal, Goes,
       callVars, outside, installVars, readVars, CallInv, TxInv, Mine, CommitInv,
       EndInv, ProofInv, AgeInv, Published, Fresh, Finishing, Undoing, Journal,
       NoJournal, DiskTypeOK, Tree, SpentInv
  <1>14. ASSUME CommitProves, UNCHANGED <<installVars, readVars>> PROVE
          SpentInv'
    BY <1>14, EndsSomewhere DEF CommitProves, Goes, diskVars, RestoresJournal,
       RollsBack, outside, installVars, readVars, CallInv, TxInv, Mine, CommitInv,
       EndInv, ProofInv, AgeInv, Published, Fresh, Finishing, Undoing, Journal,
       NoJournal, DiskTypeOK, Tree, SpentInv
  <1>15. ASSUME DeleteCandidate, UNCHANGED <<installVars, readVars>> PROVE
          SpentInv'
    <2>1. \/ UNCHANGED diskVars
          \/ \E w \in Places \ {"versions"} : Moves(tx.cand, w)
      BY <1>15 DEF DeleteCandidate, Places
    <2>2. tx.cand \in Tree \cup {0}
      BY <1>15 DEF DeleteCandidate, TxInv, Undoing, Finishing, Journal
    <2>3. CASE UNCHANGED diskVars
      BY <2>3 DEF diskVars, SpentInv
    <2>4. QED
      BY <2>1, <2>2, <2>3, LeavingKeepsSpent
  <1>16. ASSUME DeleteJournal, UNCHANGED <<installVars, readVars>> PROVE
          SpentInv'
    BY <1>16, EndsSomewhere DEF DeleteJournal, ForgetsJournal, diskVars, callVars,
       outside, installVars, readVars, CallInv, TxInv, Mine, CommitInv, EndInv,
       ProofInv, AgeInv, Published, Fresh, Finishing, Undoing, Journal, NoJournal,
       DiskTypeOK, Tree, SpentInv
  <1>17. ASSUME RollbackPointer, UNCHANGED <<installVars, readVars>> PROVE
          SpentInv'
    BY <1>17, EndsSomewhere DEF RollbackPointer, diskVars, PointsTo, Goes, outside,
       installVars, readVars, CallInv, TxInv, Mine, CommitInv, EndInv, ProofInv, AgeInv,
       Published, Fresh, Finishing, Undoing, Journal, NoJournal, DiskTypeOK, Tree,
       SpentInv
  <1>18. ASSUME RollbackTree, UNCHANGED <<installVars, readVars>> PROVE
          SpentInv'
    <2>1. \/ UNCHANGED diskVars
          \/ \E w \in Places \ {"versions"} : Moves(tx.cand, w)
      BY <1>18 DEF RollbackTree, Places
    <2>2. tx.cand \in Tree \cup {0}
      BY <1>18 DEF RollbackTree, TxInv, Undoing, Finishing, Journal
    <2>3. CASE UNCHANGED diskVars
      BY <2>3 DEF diskVars, SpentInv
    <2>4. QED
      BY <2>1, <2>2, <2>3, LeavingKeepsSpent
  <1>19. ASSUME RecoverReads, UNCHANGED <<installVars, readVars>> PROVE
          SpentInv'
    BY <1>19 DEF RecoverReads, Returns, diskVars, Goes, RecoverSpent, outside,
       RestoresJournal, installVars, readVars, CallInv, TxInv, Mine, CommitInv, EndInv,
       ProofInv, AgeInv, Published, Fresh, Finishing, Undoing, Journal, NoJournal,
       DiskTypeOK, Tree, SpentInv
  <1>20. ASSUME RecoverDispatches, UNCHANGED <<installVars, readVars>> PROVE
          SpentInv'
    BY <1>20 DEF RecoverDispatches, Goes, diskVars, callVars, outside, installVars,
       readVars, CallInv, TxInv, Mine, CommitInv, EndInv, ProofInv, AgeInv, Published,
       Fresh, Finishing, Undoing, Journal, NoJournal, DiskTypeOK, Tree, SpentInv
  <1>21. ASSUME RecoverPublishing, UNCHANGED <<installVars, readVars>> PROVE
          SpentInv'
    <2>1. \/ UNCHANGED diskVars
          \/ \E w \in Places \ {"versions"} : Moves(tx.cand, w)
      BY <1>21 DEF RecoverPublishing, Places
    <2>2. tx.cand \in Tree \cup {0}
      BY <1>21 DEF RecoverPublishing, TxInv, Undoing, Finishing, Journal
    <2>3. CASE UNCHANGED diskVars
      BY <2>3 DEF diskVars, SpentInv
    <2>4. QED
      BY <2>1, <2>2, <2>3, LeavingKeepsSpent
  <1>22. ASSUME RecoverRechecks, UNCHANGED <<installVars, readVars>> PROVE
          SpentInv'
    BY <1>22 DEF RecoverRechecks, Goes, Returns, diskVars, callVars, outside,
       installVars, readVars, CallInv, TxInv, Mine, CommitInv, EndInv, ProofInv, AgeInv,
       Published, Fresh, Finishing, Undoing, Journal, NoJournal, DiskTypeOK, Tree,
       SpentInv
  <1>23. ASSUME RecoverDone, UNCHANGED <<installVars, readVars>> PROVE SpentInv'
    BY <1>23 DEF RecoverDone, Returns, diskVars, callVars, outside, installVars,
       readVars, CallInv, TxInv, Mine, CommitInv, EndInv, ProofInv, AgeInv, Published,
       Fresh, Finishing, Undoing, Journal, NoJournal, DiskTypeOK, Tree, SpentInv
  <1>24. ASSUME Restore(previous), UNCHANGED <<installVars, readVars>> PROVE
          SpentInv'
    BY <1>24 DEF Restore, Returns, Goes, diskVars, outside, installVars, readVars,
       CallInv, TxInv, Mine, CommitInv, EndInv, ProofInv, AgeInv, Published, Fresh,
       Finishing, Undoing, Journal, NoJournal, DiskTypeOK, Tree, SpentInv
  <1>25. ASSUME Discard, UNCHANGED <<installVars, readVars>> PROVE SpentInv'
    <2>1. \/ UNCHANGED diskVars
          \/ \E w \in Places \ {"versions"} : Moves(cur, w)
      BY <1>25 DEF Discard, Places
    <2>2. cur \in Tree \cup {0}
      BY <1>25 DEF Discard, CallTypeOK
    <2>3. CASE UNCHANGED diskVars
      BY <2>3 DEF diskVars, SpentInv
    <2>4. QED
      BY <2>1, <2>2, <2>3, LeavingKeepsSpent
  <1>26. ASSUME Install PROVE SpentInv'
    BY <1>26 DEF Install, Calls, Keeps, KeepsCall, readVars, diskVars, outside,
       CallInv, TxInv, Mine, CommitInv, EndInv, ProofInv, AgeInv, Published, Fresh,
       Finishing, Undoing, Journal, NoJournal, DiskTypeOK, Tree, SpentInv
  <1>27. ASSUME Stage PROVE SpentInv'
    BY <1>27 DEF Stage, Returned, Idles, KeepsCall, KeepsRecord, outside, readVars,
       CallInv, TxInv, Mine, CommitInv, EndInv, ProofInv, AgeInv, Published, Fresh,
       Finishing, Undoing, Journal, NoJournal, DiskTypeOK, Tree, SpentInv
  <1>28. ASSUME Staged PROVE SpentInv'
    BY <1>28 DEF Staged, KeepsRecord, outside, readVars, KeepsCall, CallInv, TxInv,
       Mine, CommitInv, EndInv, ProofInv, AgeInv, Published, Fresh, Finishing, Undoing,
       Journal, NoJournal, DiskTypeOK, Tree, SpentInv
  <1>29. ASSUME StageFails PROVE SpentInv'
    BY <1>29 DEF StageFails, Reports, KeepsCall, KeepsRecord, outside, readVars,
       CallInv, TxInv, Mine, CommitInv, EndInv, ProofInv, AgeInv, Published, Fresh,
       Finishing, Undoing, Journal, NoJournal, DiskTypeOK, Tree, SpentInv
  <1>30. ASSUME ReadPrevious PROVE SpentInv'
    BY <1>30, ReadViewIsKnown DEF ReadPrevious, Calls, Keeps, readVars, diskVars,
       outside, CallInv, TxInv, Mine, CommitInv, EndInv, ProofInv, AgeInv, Published,
       Fresh, Finishing, Undoing, Journal, NoJournal, DiskTypeOK, Tree, SpentInv
  <1>31. ASSUME Activate PROVE SpentInv'
    BY <1>31 DEF Activate, Continue, Returned, Calls, Keeps, KeepsCall, KeepsRecord,
       readVars, diskVars, outside, CallInv, TxInv, Mine, CommitInv, EndInv, ProofInv,
       AgeInv, Published, Fresh, Finishing, Undoing, Journal, NoJournal, DiskTypeOK,
       Tree, SpentInv
  <1>32. ASSUME PublishFailed PROVE SpentInv'
    BY <1>32 DEF PublishFailed, Retreat, Returned, Calls, Keeps, KeepsCall,
       KeepsRecord, readVars, diskVars, outside, CallInv, TxInv, Mine, CommitInv,
       EndInv, ProofInv, AgeInv, Published, Fresh, Finishing, Undoing, Journal,
       NoJournal, DiskTypeOK, Tree, SpentInv
  <1>33. ASSUME ActivateFailed PROVE SpentInv'
    BY <1>33 DEF ActivateFailed, Retreat, Returned, Calls, Keeps, KeepsCall,
       KeepsRecord, readVars, diskVars, outside, CallInv, TxInv, Mine, CommitInv,
       EndInv, ProofInv, AgeInv, Published, Fresh, Finishing, Undoing, Journal,
       NoJournal, DiskTypeOK, Tree, SpentInv
  <1>34. ASSUME DiscardFailed PROVE SpentInv'
    BY <1>34 DEF DiscardFailed, Retreat, Returned, Calls, Keeps, KeepsCall,
       KeepsRecord, readVars, diskVars, outside, CallInv, TxInv, Mine, CommitInv,
       EndInv, ProofInv, AgeInv, Published, Fresh, Finishing, Undoing, Journal,
       NoJournal, DiskTypeOK, Tree, SpentInv
  <1>35. ASSUME InstallFailed PROVE SpentInv'
    BY <1>35 DEF InstallFailed, Fails, Returned, Reports, Idles, Keeps, KeepsCall,
       KeepsRecord, readVars, diskVars, outside, CallInv, TxInv, Mine, CommitInv,
       EndInv, ProofInv, AgeInv, Published, Fresh, Finishing, Undoing, Journal,
       NoJournal, DiskTypeOK, Tree, SpentInv
  <1>36. ASSUME Handshake PROVE SpentInv'
    BY <1>36 DEF Handshake, Returned, Calls, Keeps, KeepsCall, readVars, diskVars,
       outside, CallInv, TxInv, Mine, CommitInv, EndInv, ProofInv, AgeInv, Published,
       Fresh, Finishing, Undoing, Journal, NoJournal, DiskTypeOK, Tree, SpentInv
  <1>37. ASSUME FinalizeFailed PROVE SpentInv'
    BY <1>37 DEF FinalizeFailed, Retreat, Returned, Calls, Keeps, KeepsCall,
       KeepsRecord, readVars, diskVars, outside, CallInv, TxInv, Mine, CommitInv,
       EndInv, ProofInv, AgeInv, Published, Fresh, Finishing, Undoing, Journal,
       NoJournal, DiskTypeOK, Tree, SpentInv
  <1>38. ASSUME RestoreEnds PROVE SpentInv'
    BY <1>38, EndsSomewhere DEF RestoreEnds, Fails, Returned, Reports, Idles, Keeps,
       KeepsCall, KeepsRecord, readVars, diskVars, outside, CallInv, TxInv, Mine,
       CommitInv, EndInv, ProofInv, AgeInv, Published, Fresh, Finishing, Undoing,
       Journal, NoJournal, DiskTypeOK, Tree, SpentInv
  <1>39. ASSUME Ready PROVE SpentInv'
    BY <1>39 DEF Ready, Returned, Reports, Idles, Keeps, KeepsCall, readVars,
       diskVars, outside, CallInv, TxInv, Mine, CommitInv, EndInv, ProofInv, AgeInv,
       Published, Fresh, Finishing, Undoing, Journal, NoJournal, DiskTypeOK, Tree,
       SpentInv
  <1>40. ASSUME ReaderReadsPointer PROVE SpentInv'
    BY <1>40 DEF ReaderReadsPointer, storeVars, installVars, diskVars, callVars,
       CallInv, TxInv, Mine, CommitInv, EndInv, ProofInv, AgeInv, Published, Fresh,
       Finishing, Undoing, Journal, NoJournal, DiskTypeOK, Tree, SpentInv
  <1>41. ASSUME ReaderReadsJournal PROVE SpentInv'
    BY <1>41, ReadViewIsKnown DEF ReaderReadsJournal, storeVars, installVars,
       diskVars, callVars, CallInv, TxInv, Mine, CommitInv, EndInv, ProofInv, AgeInv,
       Published, Fresh, Finishing, Undoing, Journal, NoJournal, DiskTypeOK, Tree,
       SpentInv
  <1>42. ASSUME Crash PROVE SpentInv'
    BY <1>42 DEF Crash, StoreCrash, diskVars, CallInv, TxInv, Mine, CommitInv,
       EndInv, ProofInv, AgeInv, Published, Fresh, Finishing, Undoing, Journal,
       NoJournal, DiskTypeOK, Tree, SpentInv
  <1>43. ASSUME NEW t \in Tree, Damage(t), UNCHANGED <<installVars, readVars>>
          PROVE SpentInv'
    BY <1>43 DEF Damage, callVars, installVars, readVars, SpentInv
  <1>44. CASE UNCHANGED vars
    BY <1>44 DEF vars, storeVars, diskVars, callVars, outside, installVars, readVars,
       SpentInv
  <1>45. QED
    BY <1>1, <1>2, <1>3, <1>4, <1>5, <1>6, <1>7, <1>8, <1>9, <1>10, <1>11, <1>12,
       <1>13, <1>14, <1>15, <1>16, <1>17, <1>18, <1>19, <1>20, <1>21, <1>22, <1>23,
       <1>24, <1>25, <1>26, <1>27, <1>28, <1>29, <1>30, <1>31, <1>32, <1>33, <1>34,
       <1>35, <1>36, <1>37, <1>38, <1>39, <1>40, <1>41, <1>42, <1>43, <1>44 DEF Next,
       InstallStep, StoreWorks

\* Every step keeps the pointer where the procedures have put it.
LEMMA PointersKept == DiskTypeOK /\ CallTypeOK /\ CountTypeOK /\ CallInv /\ TxInv /\
    CommitInv /\ EndInv /\ ProofInv /\ AgeInv /\ PointerInv /\ BaseInv /\ [Next]_vars =>
    PointerInv'
  <1> SUFFICES ASSUME DiskTypeOK, CallTypeOK, CountTypeOK, CallInv, TxInv,
          CommitInv, EndInv, ProofInv, AgeInv, PointerInv, BaseInv, [Next]_vars PROVE
          PointerInv'
    OBVIOUS
  <1>1. ASSUME NEW t \in Tree, PublishIntent(t), UNCHANGED <<installVars,
          readVars>> PROVE PointerInv'
    BY <1>1 DEF PublishIntent, Returns, diskVars, WritesJournal, Goes, outside,
       installVars, readVars, PointerInv, Finishing
  <1>2. ASSUME NEW t \in Tree, ReconcileQuarantines(t), UNCHANGED <<installVars,
          readVars>> PROVE PointerInv'
    BY <1>2, EndsSomewhere DEF ReconcileQuarantines, Moves, Goes, diskVars, outside,
       installVars, readVars, PointerInv, Finishing
  <1>3. ASSUME NEW t \in Tree, SweepDeletes(t), UNCHANGED <<installVars,
          readVars>> PROVE PointerInv'
    BY <1>3 DEF SweepDeletes, Moves, Returns, callVars, outside, installVars,
       readVars, PointerInv, Finishing
  <1>4. ASSUME PublishMove, UNCHANGED <<installVars, readVars>> PROVE
          PointerInv'
    BY <1>4 DEF PublishMove, Moves, Goes, diskVars, Returns, callVars, outside,
       installVars, readVars, CallInv, TxInv, Mine, CommitInv, EndInv, ProofInv, AgeInv,
       BaseInv, Intact, Undoing, Journal, NoJournal, DiskTypeOK, Tree, FinalStateProof,
       CommitState, CommittedPrevious, HandshakeCandidate, PreviousValid, Valid,
       PointerInv, Finishing
  <1>5. ASSUME PublishAwaits, UNCHANGED <<installVars, readVars>> PROVE
          PointerInv'
    BY <1>5 DEF PublishAwaits, WritesJournal, Returns, diskVars, outside,
       installVars, readVars, CallInv, TxInv, Mine, CommitInv, EndInv, ProofInv, AgeInv,
       BaseInv, Intact, Undoing, Journal, NoJournal, DiskTypeOK, Tree, FinalStateProof,
       CommitState, CommittedPrevious, HandshakeCandidate, PreviousValid, Valid,
       PointerInv, Finishing
  <1>6. ASSUME ActivatePointer, UNCHANGED <<installVars, readVars>> PROVE
          PointerInv'
    BY <1>6 DEF ActivatePointer, Returns, diskVars, Goes, PointsTo, outside,
       installVars, readVars, CallInv, TxInv, Mine, CommitInv, EndInv, ProofInv, AgeInv,
       BaseInv, Intact, Undoing, Journal, NoJournal, DiskTypeOK, Tree, FinalStateProof,
       CommitState, CommittedPrevious, HandshakeCandidate, PreviousValid, Valid,
       PointerInv, Finishing
  <1>7. ASSUME ActivationProof, UNCHANGED <<installVars, readVars>> PROVE
          PointerInv'
    BY <1>7 DEF ActivationProof, Returns, Goes, diskVars, outside, installVars,
       readVars, CallInv, TxInv, Mine, CommitInv, EndInv, ProofInv, AgeInv, BaseInv,
       Intact, Undoing, Journal, NoJournal, DiskTypeOK, Tree, FinalStateProof,
       CommitState, CommittedPrevious, HandshakeCandidate, PreviousValid, Valid,
       PointerInv, Finishing
  <1>8. ASSUME FinalizeIntent, UNCHANGED <<installVars, readVars>> PROVE
          PointerInv'
    BY <1>8 DEF FinalizeIntent, Returns, diskVars, WritesJournal, Goes, outside,
       installVars, readVars, CallInv, TxInv, Mine, CommitInv, EndInv, ProofInv, AgeInv,
       BaseInv, Intact, Undoing, Journal, NoJournal, DiskTypeOK, Tree, FinalStateProof,
       CommitState, CommittedPrevious, HandshakeCandidate, PreviousValid, Valid,
       PointerInv, Finishing
  <1>9. ASSUME FinishStarts, UNCHANGED <<installVars, readVars>> PROVE
          PointerInv'
    BY <1>9 DEF FinishStarts, Goes, RollsBack, diskVars, outside, installVars,
       readVars, CallInv, TxInv, Mine, CommitInv, EndInv, ProofInv, AgeInv, BaseInv,
       Intact, Undoing, Journal, NoJournal, DiskTypeOK, Tree, FinalStateProof,
       CommitState, CommittedPrevious, HandshakeCandidate, PreviousValid, Valid,
       PointerInv, Finishing
  <1>10. ASSUME ReconcileDeletes, UNCHANGED <<installVars, readVars>> PROVE
          PointerInv'
    BY <1>10, EndsSomewhere DEF ReconcileDeletes, Moves, Goes, diskVars, callVars,
       outside, installVars, readVars, CallInv, TxInv, Mine, CommitInv, EndInv,
       ProofInv, AgeInv, BaseInv, Intact, Undoing, Journal, NoJournal, DiskTypeOK, Tree,
       FinalStateProof, CommitState, CommittedPrevious, HandshakeCandidate,
       PreviousValid, Valid, PointerInv, Finishing
  <1>11. ASSUME ReconcileDone, UNCHANGED <<installVars, readVars>> PROVE
          PointerInv'
    BY <1>11, EndsSomewhere DEF ReconcileDone, Goes, diskVars, callVars, outside,
       installVars, readVars, CallInv, TxInv, Mine, CommitInv, EndInv, ProofInv, AgeInv,
       BaseInv, Intact, Undoing, Journal, NoJournal, DiskTypeOK, Tree, FinalStateProof,
       CommitState, CommittedPrevious, HandshakeCandidate, PreviousValid, Valid,
       PointerInv, Finishing
  <1>12. ASSUME FinishProves, UNCHANGED <<installVars, readVars>> PROVE
          PointerInv'
    BY <1>12 DEF FinishProves, Goes, RollsBack, diskVars, outside, installVars,
       readVars, CallInv, TxInv, Mine, CommitInv, EndInv, ProofInv, AgeInv, BaseInv,
       Intact, Undoing, Journal, NoJournal, DiskTypeOK, Tree, FinalStateProof,
       CommitState, CommittedPrevious, HandshakeCandidate, PreviousValid, Valid,
       PointerInv, Finishing
  <1>13. ASSUME CommitJournal, UNCHANGED <<installVars, readVars>> PROVE
          PointerInv'
    BY <1>13, EndsSomewhere DEF CommitJournal, diskVars, MovesJournal, Goes,
       callVars, outside, installVars, readVars, CallInv, TxInv, Mine, CommitInv,
       EndInv, ProofInv, AgeInv, BaseInv, Intact, Undoing, Journal, NoJournal,
       DiskTypeOK, Tree, FinalStateProof, CommitState, CommittedPrevious,
       HandshakeCandidate, PreviousValid, Valid, PointerInv, Finishing
  <1>14. ASSUME CommitProves, UNCHANGED <<installVars, readVars>> PROVE
          PointerInv'
    BY <1>14, EndsSomewhere DEF CommitProves, Goes, diskVars, RestoresJournal,
       RollsBack, outside, installVars, readVars, CallInv, TxInv, Mine, CommitInv,
       EndInv, ProofInv, AgeInv, BaseInv, Intact, Undoing, Journal, NoJournal,
       DiskTypeOK, Tree, FinalStateProof, CommitState, CommittedPrevious,
       HandshakeCandidate, PreviousValid, Valid, PointerInv, Finishing
  <1>15. ASSUME DeleteCandidate, UNCHANGED <<installVars, readVars>> PROVE
          PointerInv'
    BY <1>15, EndsSomewhere DEF DeleteCandidate, Moves, Goes, diskVars, callVars,
       outside, installVars, readVars, CallInv, TxInv, Mine, CommitInv, EndInv,
       ProofInv, AgeInv, BaseInv, Intact, Undoing, Journal, NoJournal, DiskTypeOK, Tree,
       FinalStateProof, CommitState, CommittedPrevious, HandshakeCandidate,
       PreviousValid, Valid, PointerInv, Finishing
  <1>16. ASSUME DeleteJournal, UNCHANGED <<installVars, readVars>> PROVE
          PointerInv'
    BY <1>16, EndsSomewhere DEF DeleteJournal, ForgetsJournal, diskVars, callVars,
       outside, installVars, readVars, CallTypeOK, PointerInv, Finishing
  <1>17. ASSUME RollbackPointer, UNCHANGED <<installVars, readVars>> PROVE
          PointerInv'
    BY <1>17, EndsSomewhere DEF RollbackPointer, diskVars, PointsTo, Goes, outside,
       installVars, readVars, CallInv, TxInv, Mine, CommitInv, EndInv, ProofInv, AgeInv,
       BaseInv, Intact, Undoing, Journal, NoJournal, DiskTypeOK, Tree, FinalStateProof,
       CommitState, CommittedPrevious, HandshakeCandidate, PreviousValid, Valid,
       PointerInv, Finishing
  <1>18. ASSUME RollbackTree, UNCHANGED <<installVars, readVars>> PROVE
          PointerInv'
    BY <1>18, EndsSomewhere DEF RollbackTree, diskVars, Moves, Goes, callVars,
       outside, installVars, readVars, CallInv, TxInv, Mine, CommitInv, EndInv,
       ProofInv, AgeInv, BaseInv, Intact, Undoing, Journal, NoJournal, DiskTypeOK, Tree,
       FinalStateProof, CommitState, CommittedPrevious, HandshakeCandidate,
       PreviousValid, Valid, PointerInv, Finishing
  <1>19. ASSUME RecoverReads, UNCHANGED <<installVars, readVars>> PROVE
          PointerInv'
    <2>1. pc' \in {"returned", "sweep", "dispatch", "deleteJournal", "rollback"} /\ proc' = "none"
      BY <1>19 DEF RecoverReads, RecoverSpent, Goes, Returns
    <2>2. ASSUME pc' = "rollback", tx'.phase = "finalizing"
          PROVE  active' # tx'.cand
      <3>1. PICK j \in spent : RecoverSpent(j) /\ WantsRollback(j)
        BY <1>19, <2>2 DEF RecoverReads, RecoverSpent, Goes, Returns
      <3>2. tx' = j /\ UNCHANGED active
        BY <3>1 DEF RecoverSpent, RestoresJournal, diskVars
      <3>3. active = j.prev /\ j \in Journal
        BY <2>2, <3>1, <3>2 DEF WantsRollback, DiskTypeOK
      <3>4. j.prev < j.cand
        BY <3>3 DEF AgeInv, Journal, NoJournal
      <3>5. QED
        BY <3>2, <3>3, <3>4, StoreAssumption DEF Journal, Tree
    <2>3. QED
      BY <2>1, <2>2 DEF PointerInv, Finishing
  <1>20. ASSUME RecoverDispatches, UNCHANGED <<installVars, readVars>> PROVE
          PointerInv'
    BY <1>20 DEF RecoverDispatches, Goes, diskVars, callVars, outside, installVars,
       readVars, CallInv, TxInv, Mine, CommitInv, EndInv, ProofInv, AgeInv, BaseInv,
       Intact, Undoing, Journal, NoJournal, DiskTypeOK, Tree, FinalStateProof,
       CommitState, CommittedPrevious, HandshakeCandidate, PreviousValid, Valid,
       PointerInv, Finishing
  <1>21. ASSUME RecoverPublishing, UNCHANGED <<installVars, readVars>> PROVE
          PointerInv'
    BY <1>21 DEF RecoverPublishing, Returns, diskVars, Moves, Goes, outside,
       installVars, readVars, CallInv, TxInv, Mine, CommitInv, EndInv, ProofInv, AgeInv,
       BaseInv, Intact, Undoing, Journal, NoJournal, DiskTypeOK, Tree, FinalStateProof,
       CommitState, CommittedPrevious, HandshakeCandidate, PreviousValid, Valid,
       PointerInv, Finishing
  <1>22. ASSUME RecoverRechecks, UNCHANGED <<installVars, readVars>> PROVE
          PointerInv'
    BY <1>22 DEF RecoverRechecks, Goes, Returns, diskVars, callVars, outside,
       installVars, readVars, CallInv, TxInv, Mine, CommitInv, EndInv, ProofInv, AgeInv,
       BaseInv, Intact, Undoing, Journal, NoJournal, DiskTypeOK, Tree, FinalStateProof,
       CommitState, CommittedPrevious, HandshakeCandidate, PreviousValid, Valid,
       PointerInv, Finishing
  <1>23. ASSUME RecoverDone, UNCHANGED <<installVars, readVars>> PROVE
          PointerInv'
    BY <1>23 DEF RecoverDone, Returns, diskVars, callVars, outside, installVars,
       readVars, CallInv, TxInv, Mine, CommitInv, EndInv, ProofInv, AgeInv, BaseInv,
       Intact, Undoing, Journal, NoJournal, DiskTypeOK, Tree, FinalStateProof,
       CommitState, CommittedPrevious, HandshakeCandidate, PreviousValid, Valid,
       PointerInv, Finishing
  <1>24. ASSUME Restore(previous), UNCHANGED <<installVars, readVars>> PROVE
          PointerInv'
    BY <1>24 DEF Restore, Returns, Goes, diskVars, outside, installVars, readVars,
       CallInv, TxInv, Mine, CommitInv, EndInv, ProofInv, AgeInv, BaseInv, Intact,
       Undoing, Journal, NoJournal, DiskTypeOK, Tree, FinalStateProof, CommitState,
       CommittedPrevious, HandshakeCandidate, PreviousValid, Valid, PointerInv,
       Finishing
  <1>25. ASSUME Discard, UNCHANGED <<installVars, readVars>> PROVE PointerInv'
    BY <1>25, ReadViewIsKnown DEF Discard, Returns, diskVars, Moves, callVars,
       outside, installVars, readVars, CallInv, TxInv, Mine, CommitInv, EndInv,
       ProofInv, AgeInv, BaseInv, Intact, Undoing, Journal, NoJournal, DiskTypeOK, Tree,
       FinalStateProof, CommitState, CommittedPrevious, HandshakeCandidate,
       PreviousValid, Valid, PointerInv, Finishing
  <1>26. ASSUME Install PROVE PointerInv'
    BY <1>26 DEF Install, Calls, Keeps, KeepsCall, readVars, diskVars, outside,
       CallInv, OpAt, InstallPcs, PointerInv, Finishing
  <1>27. ASSUME Stage PROVE PointerInv'
    BY <1>27 DEF Stage, Returned, Idles, KeepsCall, KeepsRecord, outside, readVars,
       CallInv, OpAt, InstallPcs, PointerInv, Finishing
  <1>28. ASSUME Staged PROVE PointerInv'
    BY <1>28 DEF Staged, KeepsRecord, outside, readVars, KeepsCall, CallInv, OpAt,
       InstallPcs, PointerInv, Finishing
  <1>29. ASSUME StageFails PROVE PointerInv'
    BY <1>29 DEF StageFails, Reports, KeepsCall, KeepsRecord, outside, readVars,
       CallInv, OpAt, InstallPcs, PointerInv, Finishing
  <1>30. ASSUME ReadPrevious PROVE PointerInv'
    BY <1>30, ReadViewIsKnown DEF ReadPrevious, Calls, Keeps, readVars, diskVars,
       outside, CallInv, OpAt, InstallPcs, PointerInv, Finishing
  <1>31. ASSUME Activate PROVE PointerInv'
    BY <1>31 DEF Activate, Continue, Returned, Calls, Keeps, KeepsCall, KeepsRecord,
       readVars, diskVars, outside, CallInv, OpAt, InstallPcs, PointerInv, Finishing
  <1>32. ASSUME PublishFailed PROVE PointerInv'
    BY <1>32 DEF PublishFailed, Retreat, Returned, Calls, Keeps, KeepsCall,
       KeepsRecord, readVars, diskVars, outside, CallInv, OpAt, InstallPcs, PointerInv,
       Finishing
  <1>33. ASSUME ActivateFailed PROVE PointerInv'
    BY <1>33 DEF ActivateFailed, Retreat, Returned, Calls, Keeps, KeepsCall,
       KeepsRecord, readVars, diskVars, outside, CallInv, OpAt, InstallPcs, PointerInv,
       Finishing
  <1>34. ASSUME DiscardFailed PROVE PointerInv'
    BY <1>34 DEF DiscardFailed, Retreat, Returned, Calls, Keeps, KeepsCall,
       KeepsRecord, readVars, diskVars, outside, CallInv, OpAt, InstallPcs, PointerInv,
       Finishing
  <1>35. ASSUME InstallFailed PROVE PointerInv'
    BY <1>35 DEF InstallFailed, Fails, Returned, Reports, Idles, Keeps, KeepsCall,
       KeepsRecord, readVars, diskVars, outside, CallInv, OpAt, InstallPcs, PointerInv,
       Finishing
  <1>36. ASSUME Handshake PROVE PointerInv'
    BY <1>36 DEF Handshake, Returned, Calls, Keeps, KeepsCall, readVars, diskVars,
       outside, CallInv, OpAt, InstallPcs, PointerInv, Finishing
  <1>37. ASSUME FinalizeFailed PROVE PointerInv'
    BY <1>37 DEF FinalizeFailed, Retreat, Returned, Calls, Keeps, KeepsCall,
       KeepsRecord, readVars, diskVars, outside, CallInv, OpAt, InstallPcs, PointerInv,
       Finishing
  <1>38. ASSUME RestoreEnds PROVE PointerInv'
    BY <1>38, EndsSomewhere DEF RestoreEnds, Fails, Returned, Reports, Idles, Keeps,
       KeepsCall, KeepsRecord, readVars, diskVars, outside, CallInv, OpAt, InstallPcs,
       PointerInv, Finishing
  <1>39. ASSUME Ready PROVE PointerInv'
    BY <1>39 DEF Ready, Returned, Reports, Idles, Keeps, KeepsCall, readVars,
       diskVars, outside, CallInv, OpAt, InstallPcs, PointerInv, Finishing
  <1>40. ASSUME ReaderReadsPointer PROVE PointerInv'
    BY <1>40 DEF ReaderReadsPointer, storeVars, installVars, diskVars, callVars,
       FinalStateProof, CommitState, CommittedPrevious, HandshakeCandidate,
       PreviousValid, Valid, PointerInv, Finishing
  <1>41. ASSUME ReaderReadsJournal PROVE PointerInv'
    BY <1>41, ReadViewIsKnown DEF ReaderReadsJournal, storeVars, installVars,
       diskVars, callVars, FinalStateProof, CommitState, CommittedPrevious,
       HandshakeCandidate, PreviousValid, Valid, PointerInv, Finishing
  <1>42. ASSUME Crash PROVE PointerInv'
    BY <1>42 DEF Crash, StoreCrash, diskVars, CallInv, OpAt, InstallPcs, PointerInv,
       Finishing
  <1>43. ASSUME NEW t \in Tree, Damage(t), UNCHANGED <<installVars, readVars>>
          PROVE PointerInv'
    BY <1>43 DEF Damage, callVars, installVars, readVars, CountTypeOK, PointerInv,
       Finishing
  <1>44. CASE UNCHANGED vars
    BY <1>44 DEF vars, storeVars, diskVars, callVars, outside, installVars, readVars,
       PointerInv, Finishing, FinalStateProof, CommitState, CommittedPrevious,
       HandshakeCandidate, PreviousValid, Valid
  <1>45. QED
    BY <1>1, <1>2, <1>3, <1>4, <1>5, <1>6, <1>7, <1>8, <1>9, <1>10, <1>11, <1>12,
       <1>13, <1>14, <1>15, <1>16, <1>17, <1>18, <1>19, <1>20, <1>21, <1>22, <1>23,
       <1>24, <1>25, <1>26, <1>27, <1>28, <1>29, <1>30, <1>31, <1>32, <1>33, <1>34,
       <1>35, <1>36, <1>37, <1>38, <1>39, <1>40, <1>41, <1>42, <1>43, <1>44 DEF Next,
       InstallStep, StoreWorks

\* What a change of the disk leaves of the runtime that counts.
LEMMA BaseIsKnown == DiskTypeOK => active \in Tree \cup {0} /\ Base \in Tree \cup {0}
  BY DEF DiskTypeOK, Base, Journal, NoJournal

\* A runtime that leaves versions/ disturbs no other one to return to.
LEMMA LeavingKeepsBase ==
    ASSUME DiskTypeOK, Intact(active), Intact(Base),
           NEW t, NEW w, Moves(t, w), t \notin {active, Base} \/ place[t] # "versions"
    PROVE  Base' = Base /\ Intact(active)' /\ Intact(Base)'
  <1>1. Base' = Base /\ active' = active
    BY DEF Moves, Base
  <1>2. ASSUME NEW u \in Tree \cup {0}, Intact(u), t # u \/ place[t] # "versions" PROVE Intact(u)'
    <2>1. CASE u = 0
      BY <2>1 DEF Intact
    <2>2. CASE u # 0
      <3>1. u # t
        BY <1>2, <2>2 DEF Intact, Valid
      <3>2. place'[u] = place[u] /\ whole'[u] = whole[u]
        BY <2>2, <3>1 DEF Moves, DiskTypeOK
      <3>3. QED
        BY <1>2, <2>2, <3>2 DEF Intact, Valid
    <2>3. QED
      BY <2>1, <2>2
  <1>3. Intact(active)'
    BY <1>1, <1>2, BaseIsKnown DEF Intact, Valid
  <1>4. Intact(Base)'
    BY <1>1, <1>2, BaseIsKnown DEF Intact, Valid
  <1>5. QED
    BY <1>1, <1>3, <1>4

\* Every step keeps an intact runtime to return to.
LEMMA BaseKept == DiskTypeOK /\ CallTypeOK /\ CountTypeOK /\ InstallTypeOK /\
    CallInv /\ TxInv /\ CommitInv /\ EndInv /\ PreviousInv /\ VersionInv /\ ProofInv /\
    AgeInv /\ SpentInv /\ PointerInv /\ BaseInv /\ [Next]_vars => BaseInv'
  <1> SUFFICES ASSUME DiskTypeOK, CallTypeOK, CountTypeOK, InstallTypeOK,
          CallInv, TxInv, CommitInv, EndInv, PreviousInv, VersionInv, ProofInv, AgeInv,
          SpentInv, PointerInv, BaseInv, [Next]_vars PROVE BaseInv'
    OBVIOUS
  <1>1. ASSUME NEW t \in Tree, PublishIntent(t), UNCHANGED <<installVars,
          readVars>> PROVE BaseInv'
    <2> DEFINE j == [phase |-> "publishing", cand |-> t, prev |-> active, keep |-> TRUE]
    <2>1. CASE UNCHANGED <<active, journal, place, whole>>
      BY <1>1, <2>1 DEF PublishIntent, outside, installVars, BaseInv, Base, Intact, Valid
    <2>2. CASE WritesJournal(j) /\ journal = NoJournal
      <3>1. active < t /\ cur = t
        BY <1>1, StoreAssumption DEF PublishIntent, CallInv, AgeInv, Fresh
      <3>2. Base = active
        BY <2>2 DEF Base, NoJournal
      <3>3. Base' = active /\ active' = active
        BY <2>2, <3>1, StoreAssumption DEF Base, WritesJournal, DiskTypeOK, Tree
      <3>4. UNCHANGED <<ready, damages, place, whole>>
        BY <1>1, <2>2 DEF PublishIntent, WritesJournal, outside, installVars
      <3>5. QED
        BY <3>2, <3>3, <3>4 DEF BaseInv, Intact, Valid
    <2>3. QED
      BY <1>1, <2>1, <2>2 DEF PublishIntent, WritesJournal, diskVars
  <1>2. ASSUME NEW t \in Tree, ReconcileQuarantines(t), UNCHANGED <<installVars,
          readVars>> PROVE BaseInv'
    <2>1. UNCHANGED diskVars \/ \E w : Moves(t, w)
      BY <1>2 DEF ReconcileQuarantines
    <2>2. UNCHANGED <<ready, damages>>
      BY <1>2 DEF ReconcileQuarantines, outside, installVars
    <2>3. damages = 0 => t \notin {active, Base} \/ place[t] # "versions"
      BY <1>2, StoreAssumption DEF ReconcileQuarantines, Obsolete, Retained,
         PointerInv, TxInv, Finishing, Base
    <2>4. CASE UNCHANGED diskVars
      BY <2>2, <2>4 DEF diskVars, BaseInv, Base, Intact, Valid
    <2>5. QED
      BY <2>1, <2>2, <2>3, <2>4, LeavingKeepsBase DEF BaseInv
  <1>3. ASSUME NEW t \in Tree, SweepDeletes(t), UNCHANGED <<installVars,
          readVars>> PROVE BaseInv'
    <2>1. UNCHANGED diskVars \/ \E w : Moves(t, w)
      BY <1>3 DEF SweepDeletes
    <2>2. UNCHANGED <<ready, damages>>
      BY <1>3 DEF SweepDeletes, outside, installVars
    <2>3. damages = 0 => t \notin {active, Base} \/ place[t] # "versions"
      BY <1>3, StoreAssumption DEF SweepDeletes, Litter
    <2>4. CASE UNCHANGED diskVars
      BY <2>2, <2>4 DEF diskVars, BaseInv, Base, Intact, Valid
    <2>5. QED
      BY <2>1, <2>2, <2>3, <2>4, LeavingKeepsBase DEF BaseInv
  <1>4. ASSUME PublishMove, UNCHANGED <<installVars, readVars>> PROVE BaseInv'
    <2>1. UNCHANGED diskVars \/ \E w : Moves(tx.cand, w)
      BY <1>4 DEF PublishMove
    <2>2. UNCHANGED <<ready, damages>>
      BY <1>4 DEF PublishMove, outside, installVars
    <2>3. damages = 0 => tx.cand \notin {active, Base} \/ place[tx.cand] # "versions"
      BY <1>4, StoreAssumption DEF PublishMove, AgeInv, Published, TxInv, Mine,
         Finishing, Undoing, Journal, NoJournal, Tree, Base
    <2>4. CASE UNCHANGED diskVars
      BY <2>2, <2>4 DEF diskVars, BaseInv, Base, Intact, Valid
    <2>5. QED
      BY <2>1, <2>2, <2>3, <2>4, LeavingKeepsBase DEF BaseInv
  <1>5. ASSUME PublishAwaits, UNCHANGED <<installVars, readVars>> PROVE BaseInv'
    <2> DEFINE j == [tx EXCEPT !.phase = "awaiting"]
    <2>1. /\ pc = "await" /\ UNCHANGED <<active, place, whole, ready, damages>>
          /\ journal' \in {journal, j}
      BY <1>5 DEF PublishAwaits, WritesJournal, diskVars, outside, installVars
    <2>2. CASE journal' = journal
      BY <2>1, <2>2 DEF BaseInv, Base, Intact, Valid
    <2>3. CASE journal' = j
      BY <2>1, <2>3 DEF CallInv, TxInv, Mine, CommitInv, EndInv, AgeInv, Published, PointerInv,
           Finishing, Undoing, Journal, NoJournal, DiskTypeOK, Tree, PreviousValid, Valid,
           BaseInv, Base, Intact
    <2>4. QED
      BY <2>1, <2>2, <2>3
  <1>6. ASSUME ActivatePointer, UNCHANGED <<installVars, readVars>> PROVE
          BaseInv'
    <2>1. /\ pc = "activate" /\ UNCHANGED <<journal, place, whole, ready, damages>>
          /\ active' = active \/ (active' = tx.cand /\ PreviousValid(tx) /\ Valid(tx.cand))
      BY <1>6 DEF ActivatePointer, PointsTo, diskVars, outside, installVars
    <2>2. CASE active' = active
      BY <2>1, <2>2 DEF BaseInv, Base, Intact, Valid
    <2>3. CASE active' = tx.cand /\ PreviousValid(tx) /\ Valid(tx.cand)
      BY <2>1, <2>3 DEF CallInv, TxInv, Mine, CommitInv, EndInv, AgeInv, Published, PointerInv,
           Finishing, Undoing, Journal, NoJournal, DiskTypeOK, Tree, PreviousValid, Valid,
           BaseInv, Base, Intact
    <2>4. QED
      BY <2>1, <2>2, <2>3
  <1>7. ASSUME ActivationProof, UNCHANGED <<installVars, readVars>> PROVE
          BaseInv'
    BY <1>7 DEF ActivationProof, Returns, Goes, diskVars, outside, installVars,
       readVars, CallInv, TxInv, Mine, CommitInv, EndInv, ProofInv, AgeInv, Published,
       SpentInv, PointerInv, Finishing, Undoing, Journal, NoJournal, DiskTypeOK, Tree,
       FinalStateProof, CommitState, CommittedPrevious, HandshakeCandidate,
       PreviousValid, Valid, BaseInv, Base, Intact, Valid
  <1>8. ASSUME FinalizeIntent, UNCHANGED <<installVars, readVars>> PROVE
          BaseInv'
    <2> DEFINE j == [tx EXCEPT !.phase = "finalizing",
                              !.keep = tx.prev # 0 /\ PreviousValid(tx)]
    <2>1. CASE UNCHANGED diskVars
      BY <1>8, <2>1 DEF FinalizeIntent, diskVars, outside, installVars, BaseInv, Base, Intact, Valid
    <2>2. CASE WritesJournal(j) /\ HandshakeCandidate(tx)
      <3>1. tx \in Journal /\ tx.cand = attempt
        BY <1>8 DEF FinalizeIntent, TxInv, Finishing, Mine
      <3>2. journal' = j /\ j.phase = "finalizing"
        BY <2>2, <3>1 DEF WritesJournal, Journal
      <3>3. active' = active /\ journal'.phase = "finalizing"
        BY <2>2, <3>2 DEF WritesJournal
      <3> HIDE DEF j
      <3>4. Base' = active /\ active = attempt
        BY <2>2, <3>1, <3>3 DEF Base, HandshakeCandidate
      <3>5. UNCHANGED <<ready, damages, place, whole>>
        BY <1>8, <2>2 DEF FinalizeIntent, WritesJournal, outside, installVars
      <3>6. QED
        BY <3>3, <3>4, <3>5 DEF BaseInv, AgeInv, Intact, Valid
    <2>3. QED
      BY <1>8, <2>1, <2>2 DEF FinalizeIntent
  <1>9. ASSUME FinishStarts, UNCHANGED <<installVars, readVars>> PROVE BaseInv'
    BY <1>9 DEF FinishStarts, Goes, RollsBack, diskVars, outside, installVars,
       readVars, CallInv, TxInv, Mine, CommitInv, EndInv, ProofInv, AgeInv, Published,
       SpentInv, PointerInv, Finishing, Undoing, Journal, NoJournal, DiskTypeOK, Tree,
       FinalStateProof, CommitState, CommittedPrevious, HandshakeCandidate,
       PreviousValid, Valid, BaseInv, Base, Intact, Valid
  <1>10. ASSUME ReconcileDeletes, UNCHANGED <<installVars, readVars>> PROVE
          BaseInv'
    <2>1. UNCHANGED diskVars \/ \E w : Moves(cur, w)
      BY <1>10 DEF ReconcileDeletes
    <2>2. UNCHANGED <<ready, damages>>
      BY <1>10 DEF ReconcileDeletes, outside, installVars
    <2>3. damages = 0 => cur \notin {active, Base} \/ place[cur] # "versions"
      BY <1>10, StoreAssumption DEF ReconcileDeletes, VersionInv
    <2>4. CASE UNCHANGED diskVars
      BY <2>2, <2>4 DEF diskVars, BaseInv, Base, Intact, Valid
    <2>5. QED
      BY <2>1, <2>2, <2>3, <2>4, LeavingKeepsBase DEF BaseInv
  <1>11. ASSUME ReconcileDone, UNCHANGED <<installVars, readVars>> PROVE
          BaseInv'
    BY <1>11, EndsSomewhere DEF ReconcileDone, Goes, diskVars, callVars, outside,
       installVars, readVars, CallInv, TxInv, Mine, CommitInv, EndInv, ProofInv, AgeInv,
       Published, SpentInv, PointerInv, Finishing, Undoing, Journal, NoJournal,
       DiskTypeOK, Tree, FinalStateProof, CommitState, CommittedPrevious,
       HandshakeCandidate, PreviousValid, Valid, BaseInv, Base, Intact, Valid
  <1>12. ASSUME FinishProves, UNCHANGED <<installVars, readVars>> PROVE BaseInv'
    BY <1>12 DEF FinishProves, Goes, RollsBack, diskVars, outside, installVars,
       readVars, CallInv, TxInv, Mine, CommitInv, EndInv, ProofInv, AgeInv, Published,
       SpentInv, PointerInv, Finishing, Undoing, Journal, NoJournal, DiskTypeOK, Tree,
       FinalStateProof, CommitState, CommittedPrevious, HandshakeCandidate,
       PreviousValid, Valid, BaseInv, Base, Intact, Valid
  <1>13. ASSUME CommitJournal, UNCHANGED <<installVars, readVars>> PROVE
          BaseInv'
    <2>1. UNCHANGED <<ready, damages>>
      BY <1>13 DEF CommitJournal, outside, installVars
    <2>2. CASE UNCHANGED diskVars
      BY <2>1, <2>2 DEF diskVars, BaseInv, Base, Intact, Valid
    <2>3. CASE MovesJournal(tx) /\ FinalStateProof(tx)
      <3>1. UNCHANGED <<active, place, whole>> /\ journal' = NoJournal
        BY <2>3 DEF MovesJournal
      <3>2. Base' = active
        BY <3>1 DEF Base, NoJournal
      <3>3. tx = journal /\ tx \in Journal
        BY <1>13 DEF CommitJournal, TxInv, Undoing
      <3>4. Base = active
        <4>1. CASE proc = "finish"
          BY <1>13, <3>3, <4>1 DEF CommitJournal, CommitInv, Base
        <4>2. CASE proc # "finish"
          BY <2>3, <3>3, <4>2, StoreAssumption
          DEF FinalStateProof, CommittedPrevious, AgeInv, Journal, NoJournal, Tree, Base
        <4>3. QED
          BY <4>1, <4>2
      <3>5. QED
        BY <2>1, <3>1, <3>2, <3>4 DEF BaseInv, Intact, Valid
    <2>4. QED
      BY <1>13, <2>2, <2>3 DEF CommitJournal
  <1>14. ASSUME CommitProves, UNCHANGED <<installVars, readVars>> PROVE BaseInv'
    BY <1>14, EndsSomewhere DEF CommitProves, Goes, diskVars, RestoresJournal,
       RollsBack, outside, installVars, readVars, CallInv, TxInv, Mine, CommitInv,
       EndInv, ProofInv, AgeInv, Published, SpentInv, PointerInv, Finishing, Undoing,
       Journal, NoJournal, DiskTypeOK, Tree, FinalStateProof, CommitState,
       CommittedPrevious, HandshakeCandidate, PreviousValid, Valid, BaseInv, Base,
       Intact, Valid
  <1>15. ASSUME DeleteCandidate, UNCHANGED <<installVars, readVars>> PROVE
          BaseInv'
    <2>1. UNCHANGED diskVars \/ \E w : Moves(tx.cand, w)
      BY <1>15 DEF DeleteCandidate
    <2>2. UNCHANGED <<ready, damages>>
      BY <1>15 DEF DeleteCandidate, outside, installVars
    <2>3. damages = 0 => tx.cand \notin {active, Base} \/ place[tx.cand] # "versions"
      BY <1>15, StoreAssumption DEF DeleteCandidate, ProofInv, EndInv
    <2>4. CASE UNCHANGED diskVars
      BY <2>2, <2>4 DEF diskVars, BaseInv, Base, Intact, Valid
    <2>5. QED
      BY <2>1, <2>2, <2>3, <2>4, LeavingKeepsBase DEF BaseInv
  <1>16. ASSUME DeleteJournal, UNCHANGED <<installVars, readVars>> PROVE
          BaseInv'
    <2>1. UNCHANGED <<ready, damages, active, place, whole>>
      BY <1>16 DEF DeleteJournal, outside, installVars, ForgetsJournal, diskVars
    <2>2. CASE UNCHANGED journal
      BY <2>1, <2>2 DEF BaseInv, Base, Intact, Valid
    <2>3. CASE journal' = tx
      <3>1. Base = active
        BY <1>16 DEF DeleteJournal, EndInv, Base, NoJournal
      <3>2. tx \in Journal
        BY <1>16 DEF DeleteJournal, TxInv, Undoing
      <3>3. damages = 0 => Base' = active
        <4>1. CASE proc = "finish"
          BY <1>16, <2>1, <2>3, <4>1 DEF DeleteJournal, PointerInv, Base
        <4>2. CASE proc # "finish"
          BY <1>16, <2>1, <2>3, <3>2, <4>2, StoreAssumption
          DEF DeleteJournal, ProofInv, FinalStateProof, CommittedPrevious, AgeInv, Journal, NoJournal,
              Tree, Base
        <4>3. QED
          BY <4>1, <4>2
      <3>4. QED
        BY <2>1, <3>1, <3>3 DEF BaseInv, Intact, Valid
    <2>4. QED
      BY <1>16, <2>2, <2>3 DEF DeleteJournal, diskVars
  <1>17. ASSUME RollbackPointer, UNCHANGED <<installVars, readVars>> PROVE
          BaseInv'
    <2>1. /\ pc = "rollback" /\ UNCHANGED <<journal, place, whole, ready, damages>>
          /\ \/ active' = active
             \/ active' = tx.prev /\ PreviousValid(tx) /\ active \in {tx.cand, tx.prev}
      BY <1>17 DEF RollbackPointer, PointsTo, diskVars, outside, installVars
    <2>2. CASE active' = active
      BY <2>1, <2>2 DEF BaseInv, Base, Intact, Valid
    <2>3. CASE active' = tx.prev /\ PreviousValid(tx) /\ active \in {tx.cand, tx.prev}
      BY <2>1, <2>3 DEF CallInv, TxInv, Mine, CommitInv, EndInv, AgeInv, Published, PointerInv,
           Finishing, Undoing, Journal, NoJournal, DiskTypeOK, Tree, PreviousValid, Valid,
           BaseInv, Base, Intact
    <2>4. QED
      BY <2>1, <2>2, <2>3
  <1>18. ASSUME RollbackTree, UNCHANGED <<installVars, readVars>> PROVE BaseInv'
    <2>1. UNCHANGED diskVars \/ \E w : Moves(tx.cand, w)
      BY <1>18 DEF RollbackTree
    <2>2. UNCHANGED <<ready, damages>>
      BY <1>18 DEF RollbackTree, outside, installVars
    <2>3. damages = 0 => tx.cand \notin {active, Base} \/ place[tx.cand] # "versions"
      BY <1>18, StoreAssumption DEF RollbackTree, PointerInv, AgeInv, TxInv, Finishing,
         Undoing, Journal, NoJournal, Tree, Base
    <2>4. CASE UNCHANGED diskVars
      BY <2>2, <2>4 DEF diskVars, BaseInv, Base, Intact, Valid
    <2>5. QED
      BY <2>1, <2>2, <2>3, <2>4, LeavingKeepsBase DEF BaseInv
  <1>19. ASSUME RecoverReads, UNCHANGED <<installVars, readVars>> PROVE BaseInv'
    <2>1. UNCHANGED <<ready, damages>>
      BY <1>19 DEF RecoverReads, outside, installVars
    <2>2. CASE UNCHANGED diskVars
      BY <2>1, <2>2 DEF diskVars, BaseInv, Base, Intact, Valid
    <2>3. ASSUME NEW j \in spent, RestoresJournal(j), journal = NoJournal PROVE BaseInv'
      <3>1. UNCHANGED <<active, place, whole>> /\ journal' = j
        BY <2>3 DEF RestoresJournal
      <3>2. Base = active
        BY <2>3 DEF Base, NoJournal
      <3>3. damages = 0 => Base' = active
        BY <3>1, StoreAssumption
        DEF Base, SpentInv, BaseInv, Intact, Valid, DiskTypeOK, Journal, Tree
      <3>4. QED
        BY <2>1, <3>1, <3>2, <3>3 DEF BaseInv, Intact, Valid
    <2>4. QED
      BY <1>19, <2>2, <2>3 DEF RecoverReads, RecoverSpent, Ambiguous
  <1>20. ASSUME RecoverDispatches, UNCHANGED <<installVars, readVars>> PROVE
          BaseInv'
    BY <1>20 DEF RecoverDispatches, Goes, diskVars, callVars, outside, installVars,
       readVars, CallInv, TxInv, Mine, CommitInv, EndInv, ProofInv, AgeInv, Published,
       SpentInv, PointerInv, Finishing, Undoing, Journal, NoJournal, DiskTypeOK, Tree,
       FinalStateProof, CommitState, CommittedPrevious, HandshakeCandidate,
       PreviousValid, Valid, BaseInv, Base, Intact, Valid
  <1>21. ASSUME RecoverPublishing, UNCHANGED <<installVars, readVars>> PROVE
          BaseInv'
    <2>1. UNCHANGED diskVars \/ ((\E w : Moves(tx.cand, w)) /\ CommittedPrevious(tx))
      BY <1>21 DEF RecoverPublishing
    <2>2. UNCHANGED <<ready, damages>>
      BY <1>21 DEF RecoverPublishing, outside, installVars
    <2>3. ASSUME CommittedPrevious(tx) PROVE tx.cand \notin {active, Base}
      BY <1>21, <2>3, StoreAssumption DEF RecoverPublishing, CommittedPrevious, AgeInv,
         TxInv, Finishing, Undoing, Journal, NoJournal, Tree, Base
    <2>4. CASE UNCHANGED diskVars
      BY <2>2, <2>4 DEF diskVars, BaseInv, Base, Intact, Valid
    <2>5. QED
      BY <2>1, <2>2, <2>3, <2>4, LeavingKeepsBase DEF BaseInv
  <1>22. ASSUME RecoverRechecks, UNCHANGED <<installVars, readVars>> PROVE
          BaseInv'
    BY <1>22 DEF RecoverRechecks, Goes, Returns, diskVars, callVars, outside,
       installVars, readVars, CallInv, TxInv, Mine, CommitInv, EndInv, ProofInv, AgeInv,
       Published, SpentInv, PointerInv, Finishing, Undoing, Journal, NoJournal,
       DiskTypeOK, Tree, FinalStateProof, CommitState, CommittedPrevious,
       HandshakeCandidate, PreviousValid, Valid, BaseInv, Base, Intact, Valid
  <1>23. ASSUME RecoverDone, UNCHANGED <<installVars, readVars>> PROVE BaseInv'
    BY <1>23 DEF RecoverDone, Returns, diskVars, callVars, outside, installVars,
       readVars, CallInv, TxInv, Mine, CommitInv, EndInv, ProofInv, AgeInv, Published,
       SpentInv, PointerInv, Finishing, Undoing, Journal, NoJournal, DiskTypeOK, Tree,
       FinalStateProof, CommitState, CommittedPrevious, HandshakeCandidate,
       PreviousValid, Valid, BaseInv, Base, Intact, Valid
  <1>24. ASSUME Restore(previous), UNCHANGED <<installVars, readVars>> PROVE
          BaseInv'
    BY <1>24 DEF Restore, Returns, Goes, diskVars, outside, installVars, readVars,
       CallInv, TxInv, Mine, CommitInv, EndInv, ProofInv, AgeInv, Published, SpentInv,
       PointerInv, Finishing, Undoing, Journal, NoJournal, DiskTypeOK, Tree,
       FinalStateProof, CommitState, CommittedPrevious, HandshakeCandidate,
       PreviousValid, Valid, BaseInv, Base, Intact, Valid
  <1>25. ASSUME Discard, UNCHANGED <<installVars, readVars>> PROVE BaseInv'
    <2>1. UNCHANGED diskVars \/ ((\E w : Moves(cur, w)) /\ journal = NoJournal /\ CommittedView \notin {{}, {cur}})
      BY <1>25 DEF Discard
    <2>2. UNCHANGED <<ready, damages>>
      BY <1>25 DEF Discard, outside, installVars
    <2>3. ASSUME journal = NoJournal /\ CommittedView \notin {{}, {cur}} PROVE cur \notin {active, Base}
      BY <1>25, <2>3, StoreAssumption DEF CommittedView, ReadView, Base, NoJournal
    <2>4. CASE UNCHANGED diskVars
      BY <2>2, <2>4 DEF diskVars, BaseInv, Base, Intact, Valid
    <2>5. QED
      BY <2>1, <2>2, <2>3, <2>4, LeavingKeepsBase DEF BaseInv
  <1>26. ASSUME Install PROVE BaseInv'
    BY <1>26 DEF Install, Calls, Keeps, KeepsCall, readVars, diskVars, outside,
       AgeInv, CallInv, DiskTypeOK, BaseInv, Base, Intact, Valid
  <1>27. ASSUME Stage PROVE BaseInv'
    <2>1. UNCHANGED diskVars \/ \E w : Moves(attempt, w)
      BY <1>27 DEF Stage, Moves
    <2>2. UNCHANGED <<ready, damages>>
      BY <1>27 DEF Stage, outside, KeepsRecord
    <2>3. damages = 0 => attempt \notin {active, Base} \/ place[attempt] # "versions"
      BY <1>27, StoreAssumption DEF Stage, AgeInv, Fresh, DiskTypeOK, InstallTypeOK,
         Journal, NoJournal, Tree, Base
    <2>4. CASE UNCHANGED diskVars
      BY <2>2, <2>4 DEF diskVars, BaseInv, Base, Intact, Valid
    <2>5. QED
      BY <2>1, <2>2, <2>3, <2>4, LeavingKeepsBase DEF BaseInv
  <1>28. ASSUME Staged PROVE BaseInv'
    BY <1>28 DEF Staged, KeepsRecord, outside, readVars, KeepsCall, AgeInv, CallInv,
       DiskTypeOK, BaseInv, Base, Intact, Valid
  <1>29. ASSUME StageFails PROVE BaseInv'
    <2>1. UNCHANGED diskVars \/ \E w : Moves(attempt, w)
      BY <1>29 DEF StageFails, Moves
    <2>2. UNCHANGED <<ready, damages>>
      BY <1>29 DEF StageFails, outside, KeepsRecord
    <2>3. damages = 0 => attempt \notin {active, Base} \/ place[attempt] # "versions"
      BY <1>29, StoreAssumption DEF StageFails, AgeInv, Fresh, DiskTypeOK,
         InstallTypeOK, Journal, NoJournal, Tree, Base
    <2>4. CASE UNCHANGED diskVars
      BY <2>2, <2>4 DEF diskVars, BaseInv, Base, Intact, Valid
    <2>5. QED
      BY <2>1, <2>2, <2>3, <2>4, LeavingKeepsBase DEF BaseInv
  <1>30. ASSUME ReadPrevious PROVE BaseInv'
    BY <1>30, ReadViewIsKnown DEF ReadPrevious, Calls, Keeps, readVars, diskVars,
       outside, AgeInv, CallInv, DiskTypeOK, BaseInv, Base, Intact, Valid
  <1>31. ASSUME Activate PROVE BaseInv'
    BY <1>31 DEF Activate, Continue, Returned, Calls, Keeps, KeepsCall, KeepsRecord,
       readVars, diskVars, outside, AgeInv, CallInv, DiskTypeOK, BaseInv, Base, Intact,
       Valid
  <1>32. ASSUME PublishFailed PROVE BaseInv'
    BY <1>32 DEF PublishFailed, Retreat, Returned, Calls, Keeps, KeepsCall,
       KeepsRecord, readVars, diskVars, outside, AgeInv, CallInv, DiskTypeOK, BaseInv,
       Base, Intact, Valid
  <1>33. ASSUME ActivateFailed PROVE BaseInv'
    BY <1>33 DEF ActivateFailed, Retreat, Returned, Calls, Keeps, KeepsCall,
       KeepsRecord, readVars, diskVars, outside, AgeInv, CallInv, DiskTypeOK, BaseInv,
       Base, Intact, Valid
  <1>34. ASSUME DiscardFailed PROVE BaseInv'
    BY <1>34 DEF DiscardFailed, Retreat, Returned, Calls, Keeps, KeepsCall,
       KeepsRecord, readVars, diskVars, outside, AgeInv, CallInv, DiskTypeOK, BaseInv,
       Base, Intact, Valid
  <1>35. ASSUME InstallFailed PROVE BaseInv'
    BY <1>35 DEF InstallFailed, Fails, Returned, Reports, Idles, Keeps, KeepsCall,
       KeepsRecord, readVars, diskVars, outside, AgeInv, CallInv, DiskTypeOK, BaseInv,
       Base, Intact, Valid
  <1>36. ASSUME Handshake PROVE BaseInv'
    BY <1>36 DEF Handshake, Returned, Calls, Keeps, KeepsCall, readVars, diskVars,
       outside, AgeInv, CallInv, DiskTypeOK, BaseInv, Base, Intact, Valid
  <1>37. ASSUME FinalizeFailed PROVE BaseInv'
    BY <1>37 DEF FinalizeFailed, Retreat, Returned, Calls, Keeps, KeepsCall,
       KeepsRecord, readVars, diskVars, outside, AgeInv, CallInv, DiskTypeOK, BaseInv,
       Base, Intact, Valid
  <1>38. ASSUME RestoreEnds PROVE BaseInv'
    BY <1>38, EndsSomewhere DEF RestoreEnds, Fails, Returned, Reports, Idles, Keeps,
       KeepsCall, KeepsRecord, readVars, diskVars, outside, AgeInv, CallInv, DiskTypeOK,
       BaseInv, Base, Intact, Valid
  <1>39. ASSUME Ready PROVE BaseInv'
    <2>1. op = "finalize" /\ pc = "returned" /\ result = "ok" /\ UNCHANGED <<diskVars, damages>>
      BY <1>39 DEF Ready, Returned, CallInv, OpAt, InstallPcs, Keeps, outside
    <2>2. damages = 0 => Base = attempt
      BY <2>1 DEF EndInv, ProofInv, Base, NoJournal
    <2>3. ready' = attempt
      BY <1>39 DEF Ready
    <2>4. attempt >= attempt
      BY StoreAssumption DEF InstallTypeOK, Tree
    <2>5. QED
      BY <2>1, <2>2, <2>3, <2>4 DEF diskVars, BaseInv, Base, Intact, Valid
  <1>40. ASSUME ReaderReadsPointer PROVE BaseInv'
    BY <1>40 DEF ReaderReadsPointer, storeVars, installVars, diskVars, callVars,
       AgeInv, CallInv, DiskTypeOK, BaseInv, Base, Intact, Valid
  <1>41. ASSUME ReaderReadsJournal PROVE BaseInv'
    BY <1>41, ReadViewIsKnown DEF ReaderReadsJournal, storeVars, installVars,
       diskVars, callVars, AgeInv, CallInv, DiskTypeOK, BaseInv, Base, Intact, Valid
  <1>42. ASSUME Crash PROVE BaseInv'
    BY <1>42 DEF Crash, StoreCrash, diskVars, AgeInv, CallInv, DiskTypeOK, BaseInv,
       Base, Intact, Valid
  <1>43. ASSUME NEW t \in Tree, Damage(t), UNCHANGED <<installVars, readVars>>
          PROVE BaseInv'
    BY <1>43 DEF Damage, callVars, installVars, readVars, CountTypeOK, BaseInv, Base,
       Intact, Valid
  <1>44. CASE UNCHANGED vars
    BY <1>44 DEF vars, storeVars, diskVars, callVars, outside, installVars, readVars,
       BaseInv, Base, Intact, Valid
  <1>45. QED
    BY <1>1, <1>2, <1>3, <1>4, <1>5, <1>6, <1>7, <1>8, <1>9, <1>10, <1>11, <1>12,
       <1>13, <1>14, <1>15, <1>16, <1>17, <1>18, <1>19, <1>20, <1>21, <1>22, <1>23,
       <1>24, <1>25, <1>26, <1>27, <1>28, <1>29, <1>30, <1>31, <1>32, <1>33, <1>34,
       <1>35, <1>36, <1>37, <1>38, <1>39, <1>40, <1>41, <1>42, <1>43, <1>44 DEF Next,
       InstallStep, StoreWorks

\* The third inductive invariant holds of the initial states.
LEMMA ReadyInitially == Init => ReadyInv
  <1> SUFFICES ASSUME Init PROVE ReadyInv
    OBVIOUS
  <1>1. AgeInv
    BY DEF Init, StoreInit, AgeInv, Fresh, Published, NoJournal
  <1>2. SpentInv /\ PointerInv
    BY DEF Init, StoreInit, SpentInv, PointerInv, Finishing
  <1>3. BaseInv
    BY DEF Init, StoreInit, BaseInv, Base, Intact, NoJournal
  <1>4. QED
    BY <1>1, <1>2, <1>3 DEF ReadyInv

\* Every step keeps it, given the two before.
LEMMA ReadySteps == ServeInv /\ OutcomeInv /\ ReadyInv /\ [Next]_vars => ReadyInv'
  <1> SUFFICES ASSUME ServeInv, OutcomeInv, ReadyInv, [Next]_vars PROVE ReadyInv'
    OBVIOUS
  <1>1. /\ DiskTypeOK /\ CallTypeOK /\ CountTypeOK /\ InstallTypeOK
        /\ CallInv /\ TxInv /\ CommitInv
    BY DEF ServeInv, TypeOK, StoreTypeOK
  <1>2. EndInv /\ PreviousInv /\ VersionInv /\ ProofInv
    BY DEF OutcomeInv
  <1>3. AgeInv /\ SpentInv /\ PointerInv /\ BaseInv
    BY DEF ReadyInv
  <1>4. AgeInv' /\ SpentInv'
    BY <1>1, <1>2, <1>3, AgesKept, SpentKept
  <1>5. PointerInv' /\ BaseInv'
    BY <1>1, <1>2, <1>3, PointersKept, BaseKept
  <1>6. QED
    BY <1>4, <1>5 DEF ReadyInv

\* It holds in every reachable state.
LEMMA ReadyInvariant == Spec => []ReadyInv
  BY ReadyInitially, ReadySteps, InstallInvariant, OutcomeInvariant, PTL DEF Spec

\* ReadyIsKept: unless somebody changes its files, a runtime that was reported ready
\* stays, or a newer one that was verified, as what active.json points to or as what
\* an unfinished activation returns to, after any number of faults and crashes.
THEOREM ReadyIsAlwaysKept == Spec => []ReadyIsKept
  <1>1. ServeInv /\ ReadyInv => ReadyIsKept
    <2> SUFFICES ASSUME ServeInv, ReadyInv, ready # 0, damages = 0
                 PROVE  \E t \in verified : /\ t >= ready /\ Valid(t)
                                            /\ t \in {active, journal.prev} \cup {j.prev : j \in spent}
      BY DEF ReadyIsKept
    <2>1. DiskTypeOK /\ InstallTypeOK /\ JournalInv /\ PendingInv /\ BaseInv
      BY DEF ServeInv, TypeOK, StoreTypeOK, ReadyInv
    <2>2. Base >= ready /\ Intact(Base) /\ Base \in {active, journal.prev}
      BY <2>1 DEF BaseInv, Base
    <2>3. Base \in Tree /\ Valid(Base)
      BY <2>1, <2>2, BaseIsKnown, StoreAssumption DEF Intact, InstallTypeOK, Tree
    <2>4. Base \in verified
      <3>1. CASE Base = active /\ active # journal.cand
        BY <2>1, <2>3, <3>1 DEF PendingInv, Valid
      <3>2. CASE active = journal.cand /\ journal.phase = "finalizing"
        BY <2>1, <3>2 DEF JournalInv, Base
      <3>3. CASE Base = journal.prev
        BY <2>1, <2>3, <3>3, StoreAssumption DEF JournalInv, Tree
      <3>4. QED
        BY <3>1, <3>2, <3>3 DEF Base
    <2>5. QED
      BY <2>2, <2>3, <2>4
  <1>2. QED
    BY <1>1, InstallInvariant, ReadyInvariant, PTL

-----------------------------------------------------------------------------
(* Crashes alone: the inductive invariant                                  *)

Clean == faults = 0 /\ damages = 0

\* The disk of a journal is one that each crash can leave.
Explained(j) ==
    /\ j.phase = "publishing" =>
            active = j.prev /\ place[j.cand] \in {"staging", "versions", "publishing"}
    /\ j.phase = "awaiting" =>
            active \in {j.cand, j.prev} /\ place[j.cand] \in {"versions", "candidate"}
    /\ j.phase = "finalizing" => active = j.cand
ExplainedInv == Clean =>
    /\ Explained(journal)
    /\ pc = "await" => place[tx.cand] = "versions"
    /\ pc \in {"rollback", "rollbackTree"} => tx.phase = "awaiting"
    /\ pc = "commit" /\ proc # "finish" => tx.phase # "finalizing"
    /\ pc = "publishing" => tx.phase = "publishing"
    /\ pc = "sweep" => journal = NoJournal

\* There is one spent journal at the most, and only until its operation or the next
\* recovery deletes it.
Committing == pc \in {"committed", "deleteTree", "deleteJournal"}
LeftoverInv == Clean =>
    /\ \A j \in spent : /\ journal = NoJournal /\ spent = {j}
                        /\ active = IF j.phase = "finalizing" THEN j.cand ELSE j.prev
    /\ Committing => spent = {tx}
    /\ spent # {} => \/ ip = "idle" \/ pc = "recover" \/ Committing
                     \/ op = "recover" /\ pc = "returned" /\ result = "failed"

\* Faults and damages are only ever counted.
CountsGrow == faults' >= faults /\ damages' >= damages

\* No step takes back a fault, a crash or a damage that was counted.
LEMMA CountsKept == CountTypeOK /\ [Next]_vars => CountsGrow
  <1> SUFFICES ASSUME CountTypeOK, [Next]_vars PROVE CountsGrow
    OBVIOUS
  <1> USE StoreAssumption
  <1>1. ASSUME NEW t \in Tree, PublishIntent(t), UNCHANGED <<installVars,
          readVars>> PROVE CountsGrow
    BY <1>1 DEF PublishIntent, Returns, diskVars, Goes, outside, installVars,
       readVars, CountsGrow, CountTypeOK, Works, Fault
  <1>2. ASSUME NEW t \in Tree, ReconcileQuarantines(t), UNCHANGED <<installVars,
          readVars>> PROVE CountsGrow
    BY <1>2, EndsSomewhere DEF ReconcileQuarantines, Goes, diskVars, outside,
       installVars, readVars, CountsGrow, CountTypeOK, Works, Fault
  <1>3. ASSUME NEW t \in Tree, SweepDeletes(t), UNCHANGED <<installVars,
          readVars>> PROVE CountsGrow
    BY <1>3 DEF SweepDeletes, Returns, callVars, outside, installVars, readVars,
       CountsGrow, CountTypeOK, Works, Fault
  <1>4. ASSUME PublishMove, UNCHANGED <<installVars, readVars>> PROVE
          CountsGrow
    BY <1>4 DEF PublishMove, Goes, diskVars, Returns, callVars, outside, installVars,
       readVars, CountsGrow, CountTypeOK, Works, Fault
  <1>5. ASSUME PublishAwaits, UNCHANGED <<installVars, readVars>> PROVE
          CountsGrow
    BY <1>5 DEF PublishAwaits, Returns, diskVars, outside, installVars, readVars,
       CountsGrow, CountTypeOK, Works, Fault
  <1>6. ASSUME ActivatePointer, UNCHANGED <<installVars, readVars>> PROVE
          CountsGrow
    BY <1>6 DEF ActivatePointer, Returns, diskVars, Goes, outside, installVars,
       readVars, CountsGrow, CountTypeOK, Works, Fault
  <1>7. ASSUME ActivationProof, UNCHANGED <<installVars, readVars>> PROVE
          CountsGrow
    BY <1>7 DEF ActivationProof, Returns, Goes, diskVars, outside, installVars,
       readVars, CountsGrow, CountTypeOK, Works, Fault
  <1>8. ASSUME FinalizeIntent, UNCHANGED <<installVars, readVars>> PROVE
          CountsGrow
    BY <1>8 DEF FinalizeIntent, Returns, diskVars, Goes, outside, installVars,
       readVars, CountsGrow, CountTypeOK, Works, Fault
  <1>9. ASSUME FinishStarts, UNCHANGED <<installVars, readVars>> PROVE
          CountsGrow
    BY <1>9 DEF FinishStarts, Goes, RollsBack, diskVars, outside, installVars,
       readVars, CountsGrow, CountTypeOK, Works, Fault
  <1>10. ASSUME ReconcileDeletes, UNCHANGED <<installVars, readVars>> PROVE
          CountsGrow
    BY <1>10, EndsSomewhere DEF ReconcileDeletes, Goes, diskVars, callVars, outside,
       installVars, readVars, CountsGrow, CountTypeOK, Works, Fault
  <1>11. ASSUME ReconcileDone, UNCHANGED <<installVars, readVars>> PROVE
          CountsGrow
    BY <1>11, EndsSomewhere DEF ReconcileDone, Goes, diskVars, callVars, outside,
       installVars, readVars, CountsGrow, CountTypeOK, Works, Fault
  <1>12. ASSUME FinishProves, UNCHANGED <<installVars, readVars>> PROVE
          CountsGrow
    BY <1>12 DEF FinishProves, Goes, RollsBack, diskVars, outside, installVars,
       readVars, CountsGrow, CountTypeOK, Works, Fault
  <1>13. ASSUME CommitJournal, UNCHANGED <<installVars, readVars>> PROVE
          CountsGrow
    BY <1>13, EndsSomewhere DEF CommitJournal, diskVars, Goes, callVars, outside,
       installVars, readVars, CountsGrow, CountTypeOK, Works, Fault
  <1>14. ASSUME CommitProves, UNCHANGED <<installVars, readVars>> PROVE
          CountsGrow
    BY <1>14, EndsSomewhere DEF CommitProves, Goes, diskVars, RollsBack, outside,
       installVars, readVars, CountsGrow, CountTypeOK, Works, Fault
  <1>15. ASSUME DeleteCandidate, UNCHANGED <<installVars, readVars>> PROVE
          CountsGrow
    BY <1>15, EndsSomewhere DEF DeleteCandidate, Goes, diskVars, callVars, outside,
       installVars, readVars, CountsGrow, CountTypeOK, Works, Fault
  <1>16. ASSUME DeleteJournal, UNCHANGED <<installVars, readVars>> PROVE
          CountsGrow
    BY <1>16, EndsSomewhere DEF DeleteJournal, ForgetsJournal, diskVars, callVars,
       outside, installVars, readVars, CountsGrow, CountTypeOK, Works, Fault
  <1>17. ASSUME RollbackPointer, UNCHANGED <<installVars, readVars>> PROVE
          CountsGrow
    BY <1>17, EndsSomewhere DEF RollbackPointer, diskVars, Goes, outside,
       installVars, readVars, CountsGrow, CountTypeOK, Works, Fault
  <1>18. ASSUME RollbackTree, UNCHANGED <<installVars, readVars>> PROVE
          CountsGrow
    BY <1>18, EndsSomewhere DEF RollbackTree, diskVars, Goes, callVars, outside,
       installVars, readVars, CountsGrow, CountTypeOK, Works, Fault
  <1>19. ASSUME RecoverReads, UNCHANGED <<installVars, readVars>> PROVE
          CountsGrow
    BY <1>19 DEF RecoverReads, Returns, diskVars, Goes, RecoverSpent, outside,
       installVars, readVars, CountsGrow, CountTypeOK, Works, Fault
  <1>20. ASSUME RecoverDispatches, UNCHANGED <<installVars, readVars>> PROVE
          CountsGrow
    BY <1>20 DEF RecoverDispatches, Goes, diskVars, callVars, outside, installVars,
       readVars, CountsGrow, CountTypeOK, Works, Fault
  <1>21. ASSUME RecoverPublishing, UNCHANGED <<installVars, readVars>> PROVE
          CountsGrow
    BY <1>21 DEF RecoverPublishing, Returns, diskVars, Goes, outside, installVars,
       readVars, CountsGrow, CountTypeOK, Works, Fault
  <1>22. ASSUME RecoverRechecks, UNCHANGED <<installVars, readVars>> PROVE
          CountsGrow
    BY <1>22 DEF RecoverRechecks, Goes, Returns, diskVars, callVars, outside,
       installVars, readVars, CountsGrow, CountTypeOK, Works, Fault
  <1>23. ASSUME RecoverDone, UNCHANGED <<installVars, readVars>> PROVE
          CountsGrow
    BY <1>23 DEF RecoverDone, Returns, diskVars, callVars, outside, installVars,
       readVars, CountsGrow, CountTypeOK, Works, Fault
  <1>24. ASSUME Restore(previous), UNCHANGED <<installVars, readVars>> PROVE
          CountsGrow
    BY <1>24 DEF Restore, Returns, Goes, diskVars, outside, installVars, readVars,
       CountsGrow, CountTypeOK, Works, Fault
  <1>25. ASSUME Discard, UNCHANGED <<installVars, readVars>> PROVE CountsGrow
    BY <1>25, ReadViewIsKnown DEF Discard, Returns, diskVars, callVars, outside,
       installVars, readVars, CountsGrow, CountTypeOK, Works, Fault
  <1>26. ASSUME Install PROVE CountsGrow
    BY <1>26 DEF Install, Calls, Keeps, KeepsCall, readVars, diskVars, outside,
       CountsGrow, CountTypeOK, Works, Fault
  <1>27. ASSUME Stage PROVE CountsGrow
    BY <1>27 DEF Stage, Returned, Idles, KeepsCall, KeepsRecord, outside, readVars,
       CountsGrow, CountTypeOK, Works, Fault
  <1>28. ASSUME Staged PROVE CountsGrow
    BY <1>28 DEF Staged, KeepsRecord, outside, readVars, KeepsCall, CountsGrow,
       CountTypeOK, Works, Fault
  <1>29. ASSUME StageFails PROVE CountsGrow
    BY <1>29 DEF StageFails, Reports, KeepsCall, KeepsRecord, outside, readVars,
       CountsGrow, CountTypeOK, Works, Fault
  <1>30. ASSUME ReadPrevious PROVE CountsGrow
    BY <1>30, ReadViewIsKnown DEF ReadPrevious, Calls, Keeps, readVars, diskVars,
       outside, CountsGrow, CountTypeOK, Works, Fault
  <1>31. ASSUME Activate PROVE CountsGrow
    BY <1>31 DEF Activate, Continue, Returned, Calls, Keeps, KeepsCall, KeepsRecord,
       readVars, diskVars, outside, CountsGrow, CountTypeOK, Works, Fault
  <1>32. ASSUME PublishFailed PROVE CountsGrow
    BY <1>32 DEF PublishFailed, Retreat, Returned, Calls, Keeps, KeepsCall,
       KeepsRecord, readVars, diskVars, outside, CountsGrow, CountTypeOK, Works, Fault
  <1>33. ASSUME ActivateFailed PROVE CountsGrow
    BY <1>33 DEF ActivateFailed, Retreat, Returned, Calls, Keeps, KeepsCall,
       KeepsRecord, readVars, diskVars, outside, CountsGrow, CountTypeOK, Works, Fault
  <1>34. ASSUME DiscardFailed PROVE CountsGrow
    BY <1>34 DEF DiscardFailed, Retreat, Returned, Calls, Keeps, KeepsCall,
       KeepsRecord, readVars, diskVars, outside, CountsGrow, CountTypeOK, Works, Fault
  <1>35. ASSUME InstallFailed PROVE CountsGrow
    BY <1>35 DEF InstallFailed, Fails, Returned, Reports, Idles, Keeps, KeepsCall,
       KeepsRecord, readVars, diskVars, outside, CountsGrow, CountTypeOK, Works, Fault
  <1>36. ASSUME Handshake PROVE CountsGrow
    BY <1>36 DEF Handshake, Returned, Calls, Keeps, KeepsCall, readVars, diskVars,
       outside, CountsGrow, CountTypeOK, Works, Fault
  <1>37. ASSUME FinalizeFailed PROVE CountsGrow
    BY <1>37 DEF FinalizeFailed, Retreat, Returned, Calls, Keeps, KeepsCall,
       KeepsRecord, readVars, diskVars, outside, CountsGrow, CountTypeOK, Works, Fault
  <1>38. ASSUME RestoreEnds PROVE CountsGrow
    BY <1>38, EndsSomewhere DEF RestoreEnds, Fails, Returned, Reports, Idles, Keeps,
       KeepsCall, KeepsRecord, readVars, diskVars, outside, CountsGrow, CountTypeOK,
       Works, Fault
  <1>39. ASSUME Ready PROVE CountsGrow
    BY <1>39 DEF Ready, Returned, Reports, Idles, Keeps, KeepsCall, readVars,
       diskVars, outside, CountsGrow, CountTypeOK, Works, Fault
  <1>40. ASSUME ReaderReadsPointer PROVE CountsGrow
    BY <1>40 DEF ReaderReadsPointer, storeVars, installVars, diskVars, callVars,
       CountsGrow, CountTypeOK, Works, Fault
  <1>41. ASSUME ReaderReadsJournal PROVE CountsGrow
    BY <1>41, ReadViewIsKnown DEF ReaderReadsJournal, storeVars, installVars,
       diskVars, callVars, CountsGrow, CountTypeOK, Works, Fault
  <1>42. ASSUME Crash PROVE CountsGrow
    BY <1>42 DEF Crash, StoreCrash, diskVars, CountsGrow, CountTypeOK, Works, Fault
  <1>43. ASSUME NEW t \in Tree, Damage(t), UNCHANGED <<installVars, readVars>>
          PROVE CountsGrow
    BY <1>43 DEF Damage, callVars, installVars, readVars, CountsGrow, CountTypeOK,
       Works, Fault
  <1>44. CASE UNCHANGED vars
    BY <1>44 DEF vars, storeVars, diskVars, callVars, outside, installVars, readVars,
       CountsGrow, CountTypeOK, Works, Fault
  <1>45. QED
    BY <1>1, <1>2, <1>3, <1>4, <1>5, <1>6, <1>7, <1>8, <1>9, <1>10, <1>11, <1>12,
       <1>13, <1>14, <1>15, <1>16, <1>17, <1>18, <1>19, <1>20, <1>21, <1>22, <1>23,
       <1>24, <1>25, <1>26, <1>27, <1>28, <1>29, <1>30, <1>31, <1>32, <1>33, <1>34,
       <1>35, <1>36, <1>37, <1>38, <1>39, <1>40, <1>41, <1>42, <1>43, <1>44 DEF Next,
       InstallStep, StoreWorks

\* A state without faults has none before it either.
LEMMA FaultsAreCounted == ASSUME CountTypeOK, [Next]_vars, Clean' PROVE Clean
  BY CountsKept, StoreAssumption DEF CountsGrow, CountTypeOK, Clean

\* The name of no runtime is no runtime.
LEMMA NoTreeIsZero == 0 \notin Tree
  BY StoreAssumption DEF Tree

\* Every step that is no fault leaves a disk that recovery knows.
LEMMA ExplainedKept == (Clean' => Clean) /\ DiskTypeOK /\ CallTypeOK /\
    InstallTypeOK /\ CallInv /\ TxInv /\ CommitInv /\ EndInv /\ ProofInv /\ AgeInv /\
    PointerInv /\ BaseInv /\ ExplainedInv /\ LeftoverInv /\ [Next]_vars => ExplainedInv'
  <1> SUFFICES ASSUME (Clean' => Clean), DiskTypeOK, CallTypeOK, InstallTypeOK,
          CallInv, TxInv, CommitInv, EndInv, ProofInv, AgeInv, PointerInv, BaseInv,
          ExplainedInv, LeftoverInv, [Next]_vars PROVE ExplainedInv'
    OBVIOUS
  <1>1. ASSUME NEW t \in Tree, PublishIntent(t), UNCHANGED <<installVars,
          readVars>> PROVE ExplainedInv'
    BY <1>1 DEF PublishIntent, Returns, diskVars, WritesJournal, Goes, outside,
       installVars, readVars, CallInv, TxInv, Mine, CommitInv, EndInv, ProofInv, AgeInv,
       Published, PointerInv, Finishing, Undoing, Journal, NoJournal, DiskTypeOK,
       FinalStateProof, CommitState, CommittedPrevious, HandshakeCandidate,
       PreviousValid, Valid, ExplainedInv, Explained, Clean, Fault
  <1>2. ASSUME NEW t \in Tree, ReconcileQuarantines(t), UNCHANGED <<installVars,
          readVars>> PROVE ExplainedInv'
    BY <1>2, EndsSomewhere DEF ReconcileQuarantines, Moves, Goes, diskVars, outside,
       installVars, readVars, CallInv, TxInv, Mine, CommitInv, EndInv, ProofInv, AgeInv,
       Published, PointerInv, Finishing, Undoing, Journal, NoJournal, DiskTypeOK,
       FinalStateProof, CommitState, CommittedPrevious, HandshakeCandidate,
       PreviousValid, Valid, ExplainedInv, Explained, Clean, Fault
  <1>3. ASSUME NEW t \in Tree, SweepDeletes(t), UNCHANGED <<installVars,
          readVars>> PROVE ExplainedInv'
    BY <1>3 DEF SweepDeletes, Moves, Returns, callVars, outside, installVars,
       readVars, CallInv, TxInv, Mine, CommitInv, EndInv, ProofInv, AgeInv, Published,
       PointerInv, Finishing, Undoing, Journal, NoJournal, DiskTypeOK, FinalStateProof,
       CommitState, CommittedPrevious, HandshakeCandidate, PreviousValid, Valid,
       ExplainedInv, Explained, Clean, Fault
  <1>4. ASSUME PublishMove, UNCHANGED <<installVars, readVars>> PROVE
          ExplainedInv'
    BY <1>4 DEF PublishMove, Moves, Goes, diskVars, Returns, callVars, outside,
       installVars, readVars, CallInv, TxInv, Mine, CommitInv, EndInv, ProofInv, AgeInv,
       Published, PointerInv, Finishing, Undoing, Journal, NoJournal, DiskTypeOK,
       FinalStateProof, CommitState, CommittedPrevious, HandshakeCandidate,
       PreviousValid, Valid, ExplainedInv, Explained, Clean, Fault
  <1>5. ASSUME PublishAwaits, UNCHANGED <<installVars, readVars>> PROVE
          ExplainedInv'
    BY <1>5 DEF PublishAwaits, WritesJournal, Returns, diskVars, outside,
       installVars, readVars, CallInv, TxInv, Mine, CommitInv, EndInv, ProofInv, AgeInv,
       Published, PointerInv, Finishing, Undoing, Journal, NoJournal, DiskTypeOK,
       FinalStateProof, CommitState, CommittedPrevious, HandshakeCandidate,
       PreviousValid, Valid, ExplainedInv, Explained, Clean, Fault
  <1>6. ASSUME ActivatePointer, UNCHANGED <<installVars, readVars>> PROVE
          ExplainedInv'
    BY <1>6 DEF ActivatePointer, Returns, diskVars, Goes, PointsTo, outside,
       installVars, readVars, CallInv, TxInv, Mine, CommitInv, EndInv, ProofInv, AgeInv,
       Published, PointerInv, Finishing, Undoing, Journal, NoJournal, DiskTypeOK,
       FinalStateProof, CommitState, CommittedPrevious, HandshakeCandidate,
       PreviousValid, Valid, ExplainedInv, Explained, Clean, Fault
  <1>7. ASSUME ActivationProof, UNCHANGED <<installVars, readVars>> PROVE
          ExplainedInv'
    BY <1>7 DEF ActivationProof, Returns, Goes, diskVars, outside, installVars,
       readVars, CallInv, TxInv, Mine, CommitInv, EndInv, ProofInv, AgeInv, Published,
       PointerInv, Finishing, Undoing, Journal, NoJournal, DiskTypeOK, FinalStateProof,
       CommitState, CommittedPrevious, HandshakeCandidate, PreviousValid, Valid,
       ExplainedInv, Explained, Clean, Fault
  <1>8. ASSUME FinalizeIntent, UNCHANGED <<installVars, readVars>> PROVE
          ExplainedInv'
    BY ZenonT(40), <1>8 DEF FinalizeIntent, Returns, diskVars, WritesJournal, Goes, outside,
       installVars, readVars, CallInv, TxInv, Mine, CommitInv, EndInv, ProofInv, AgeInv,
       Published, PointerInv, Finishing, Undoing, Journal, NoJournal, DiskTypeOK,
       FinalStateProof, CommitState, CommittedPrevious, HandshakeCandidate,
       PreviousValid, Valid, ExplainedInv, Explained, Clean, Fault
  <1>9. ASSUME FinishStarts, UNCHANGED <<installVars, readVars>> PROVE
          ExplainedInv'
    BY <1>9, NoTreeIsZero DEF FinishStarts, Goes, RollsBack, diskVars, outside,
       installVars, readVars, TxInv, Finishing, BaseInv, Intact, Journal, NoJournal,
       FinalStateProof, CommitState, CommittedPrevious, HandshakeCandidate,
       PreviousValid, Valid, ExplainedInv, Explained, Clean, Fault
  <1>10. ASSUME ReconcileDeletes, UNCHANGED <<installVars, readVars>> PROVE
          ExplainedInv'
    BY <1>10, EndsSomewhere DEF ReconcileDeletes, Moves, Goes, diskVars, callVars,
       outside, installVars, readVars, CallInv, TxInv, Mine, CommitInv, EndInv,
       ProofInv, AgeInv, Published, PointerInv, Finishing, Undoing, Journal, NoJournal,
       DiskTypeOK, FinalStateProof, CommitState, CommittedPrevious, HandshakeCandidate,
       PreviousValid, Valid, ExplainedInv, Explained, Clean, Fault
  <1>11. ASSUME ReconcileDone, UNCHANGED <<installVars, readVars>> PROVE
          ExplainedInv'
    BY <1>11, EndsSomewhere DEF ReconcileDone, Goes, diskVars, callVars, outside,
       installVars, readVars, CallInv, TxInv, Mine, CommitInv, EndInv, ProofInv, AgeInv,
       Published, PointerInv, Finishing, Undoing, Journal, NoJournal, DiskTypeOK,
       FinalStateProof, CommitState, CommittedPrevious, HandshakeCandidate,
       PreviousValid, Valid, ExplainedInv, Explained, Clean, Fault
  <1>12. ASSUME FinishProves, UNCHANGED <<installVars, readVars>> PROVE
          ExplainedInv'
    BY <1>12 DEF FinishProves, Goes, RollsBack, diskVars, outside, installVars,
       readVars, CallInv, TxInv, Mine, CommitInv, EndInv, ProofInv, AgeInv, Published,
       PointerInv, Finishing, Undoing, Journal, NoJournal, DiskTypeOK, FinalStateProof,
       CommitState, CommittedPrevious, HandshakeCandidate, PreviousValid, Valid,
       ExplainedInv, Explained, Clean, Fault
  <1>13. ASSUME CommitJournal, UNCHANGED <<installVars, readVars>> PROVE
          ExplainedInv'
    BY <1>13, EndsSomewhere DEF CommitJournal, diskVars, MovesJournal, Goes,
       callVars, outside, installVars, readVars, CallInv, TxInv, Mine, CommitInv,
       EndInv, ProofInv, AgeInv, Published, PointerInv, Finishing, Undoing, Journal,
       NoJournal, DiskTypeOK, FinalStateProof, CommitState, CommittedPrevious,
       HandshakeCandidate, PreviousValid, Valid, ExplainedInv, Explained, Clean, Fault
  <1>14. ASSUME CommitProves, UNCHANGED <<installVars, readVars>> PROVE
          ExplainedInv'
    BY <1>14, EndsSomewhere DEF CommitProves, Goes, diskVars, RestoresJournal,
       RollsBack, outside, installVars, readVars, CallInv, TxInv, Mine, CommitInv,
       EndInv, ProofInv, AgeInv, Published, PointerInv, Finishing, Undoing, Journal,
       NoJournal, DiskTypeOK, FinalStateProof, CommitState, CommittedPrevious,
       HandshakeCandidate, PreviousValid, Valid, ExplainedInv, Explained, Clean, Fault
  <1>15. ASSUME DeleteCandidate, UNCHANGED <<installVars, readVars>> PROVE
          ExplainedInv'
    BY <1>15, EndsSomewhere DEF DeleteCandidate, Moves, Goes, diskVars, callVars,
       outside, installVars, readVars, CallInv, TxInv, Mine, CommitInv, EndInv,
       ProofInv, AgeInv, Published, PointerInv, Finishing, Undoing, Journal, NoJournal,
       DiskTypeOK, FinalStateProof, CommitState, CommittedPrevious, HandshakeCandidate,
       PreviousValid, Valid, ExplainedInv, Explained, Clean, Fault
  <1>16. ASSUME DeleteJournal, UNCHANGED <<installVars, readVars>> PROVE
          ExplainedInv'
    BY <1>16, EndsSomewhere DEF DeleteJournal, ForgetsJournal, diskVars, callVars,
       outside, installVars, readVars, TxInv, EndInv, Undoing, Journal, NoJournal,
       CallTypeOK, ExplainedInv, Explained, Clean, Fault
  <1>17. ASSUME RollbackPointer, UNCHANGED <<installVars, readVars>> PROVE
          ExplainedInv'
    BY <1>17, EndsSomewhere DEF RollbackPointer, diskVars, PointsTo, Goes, outside,
       installVars, readVars, CallInv, TxInv, Mine, CommitInv, EndInv, ProofInv, AgeInv,
       Published, PointerInv, Finishing, Undoing, Journal, NoJournal, DiskTypeOK,
       FinalStateProof, CommitState, CommittedPrevious, HandshakeCandidate,
       PreviousValid, Valid, ExplainedInv, Explained, Clean, Fault
  <1>18. ASSUME RollbackTree, UNCHANGED <<installVars, readVars>> PROVE
          ExplainedInv'
    BY <1>18, EndsSomewhere DEF RollbackTree, diskVars, Moves, Goes, callVars,
       outside, installVars, readVars, CallInv, TxInv, Mine, CommitInv, EndInv,
       ProofInv, AgeInv, Published, PointerInv, Finishing, Undoing, Journal, NoJournal,
       DiskTypeOK, FinalStateProof, CommitState, CommittedPrevious, HandshakeCandidate,
       PreviousValid, Valid, ExplainedInv, Explained, Clean, Fault
  <1>19. ASSUME RecoverReads, UNCHANGED <<installVars, readVars>> PROVE
          ExplainedInv'
    <2> SUFFICES ASSUME Clean' PROVE ExplainedInv'
      BY DEF ExplainedInv
    <2>1. Clean /\ faults' = faults
      BY <1>19, StoreAssumption DEF RecoverReads, RecoverSpent, outside, Works, Fault, Clean
    <2>2. CASE UNCHANGED diskVars /\ pc' \in {"returned", "sweep", "dispatch"} /\ (\A j \in spent : ~RecoverSpent(j))
      BY <1>19, <2>1, <2>2 DEF RecoverReads, Goes, Returns, diskVars, ExplainedInv, Explained
    <2>3. ASSUME NEW j \in spent, RecoverSpent(j) PROVE ExplainedInv'
      <3>1. /\ journal = NoJournal /\ spent = {j} /\ j \in Journal /\ tx' = j
            /\ active = IF j.phase = "finalizing" THEN j.cand ELSE j.prev
        BY <2>1, <2>3 DEF LeftoverInv, RecoverSpent, DiskTypeOK
      <3>2. j.prev < j.cand /\ j.prev # j.cand
        BY <3>1, StoreAssumption DEF AgeInv, Journal, NoJournal, Tree
      <3>3. CASE UNCHANGED diskVars /\ pc' \in {"returned", "deleteJournal"}
        BY <2>1, <3>1, <3>3 DEF diskVars, ExplainedInv, Explained
      <3>4. CASE RestoresJournal(j) /\ pc' \in {"rollback", "dispatch"} /\ Works
        <4>1. journal' = j /\ UNCHANGED <<active, place>>
          BY <3>4 DEF RestoresJournal
        <4>2. ~(CandidateIsGone(j) /\ (WantsRollback(j) \/ j.phase = "publishing"))
          BY <2>3, <3>4 DEF RecoverSpent, Goes, Returns
        <4>3. Explained(j)'
          BY <3>1, <4>1, <4>2 DEF Explained, CandidateIsGone, WantsRollback
        <4>4. pc' = "rollback" => j.phase = "awaiting"
          BY <2>3, <3>1, <3>2, <3>4 DEF RecoverSpent, WantsRollback, Goes, Returns
        <4>5. QED
          BY <3>1, <3>4, <4>1, <4>3, <4>4 DEF ExplainedInv
      <3>5. QED
        BY <2>1, <2>3, <3>3, <3>4 DEF RecoverSpent, Goes, Returns, Fault, Clean
    <2>4. QED
      BY <1>19, <2>1, <2>2, <2>3 DEF RecoverReads, Goes, Returns
  <1>20. ASSUME RecoverDispatches, UNCHANGED <<installVars, readVars>> PROVE
          ExplainedInv'
    BY <1>20 DEF RecoverDispatches, Goes, diskVars, callVars, outside, installVars,
       readVars, CallInv, TxInv, Mine, CommitInv, EndInv, ProofInv, AgeInv, Published,
       PointerInv, Finishing, Undoing, Journal, NoJournal, DiskTypeOK, FinalStateProof,
       CommitState, CommittedPrevious, HandshakeCandidate, PreviousValid, Valid,
       ExplainedInv, Explained, Clean, Fault
  <1>21. ASSUME RecoverPublishing, UNCHANGED <<installVars, readVars>> PROVE
          ExplainedInv'
    BY <1>21 DEF RecoverPublishing, Returns, diskVars, Moves, Goes, outside,
       installVars, readVars, CallInv, TxInv, Mine, CommitInv, EndInv, ProofInv, AgeInv,
       Published, PointerInv, Finishing, Undoing, Journal, NoJournal, DiskTypeOK,
       FinalStateProof, CommitState, CommittedPrevious, HandshakeCandidate,
       PreviousValid, Valid, ExplainedInv, Explained, Clean, Fault
  <1>22. ASSUME RecoverRechecks, UNCHANGED <<installVars, readVars>> PROVE
          ExplainedInv'
    BY <1>22 DEF RecoverRechecks, Goes, Returns, diskVars, callVars, outside,
       installVars, readVars, CallInv, TxInv, Mine, CommitInv, EndInv, ProofInv, AgeInv,
       Published, PointerInv, Finishing, Undoing, Journal, NoJournal, DiskTypeOK,
       FinalStateProof, CommitState, CommittedPrevious, HandshakeCandidate,
       PreviousValid, Valid, ExplainedInv, Explained, Clean, Fault
  <1>23. ASSUME RecoverDone, UNCHANGED <<installVars, readVars>> PROVE
          ExplainedInv'
    BY <1>23 DEF RecoverDone, Returns, diskVars, callVars, outside, installVars,
       readVars, CallInv, TxInv, Mine, CommitInv, EndInv, ProofInv, AgeInv, Published,
       PointerInv, Finishing, Undoing, Journal, NoJournal, DiskTypeOK, FinalStateProof,
       CommitState, CommittedPrevious, HandshakeCandidate, PreviousValid, Valid,
       ExplainedInv, Explained, Clean, Fault
  <1>24. ASSUME Restore(previous), UNCHANGED <<installVars, readVars>> PROVE
          ExplainedInv'
    BY <1>24 DEF Restore, Returns, Goes, diskVars, outside, installVars, readVars,
       CallInv, TxInv, Mine, CommitInv, EndInv, ProofInv, AgeInv, Published, PointerInv,
       Finishing, Undoing, Journal, NoJournal, DiskTypeOK, FinalStateProof, CommitState,
       CommittedPrevious, HandshakeCandidate, PreviousValid, Valid, ExplainedInv,
       Explained, Clean, Fault
  <1>25. ASSUME Discard, UNCHANGED <<installVars, readVars>> PROVE ExplainedInv'
    BY <1>25, ReadViewIsKnown DEF Discard, Returns, diskVars, Moves, callVars,
       outside, installVars, readVars, CallInv, TxInv, Mine, CommitInv, EndInv,
       ProofInv, AgeInv, Published, PointerInv, Finishing, Undoing, Journal, NoJournal,
       DiskTypeOK, FinalStateProof, CommitState, CommittedPrevious, HandshakeCandidate,
       PreviousValid, Valid, ExplainedInv, Explained, Clean, Fault
  <1>26. ASSUME Install PROVE ExplainedInv'
    BY <1>26 DEF Install, Calls, Keeps, KeepsCall, readVars, diskVars, outside,
       CallInv, OpAt, InstallPcs, AgeInv, Fresh, DiskTypeOK, Journal, NoJournal,
       ExplainedInv, Explained, Clean, Fault
  <1>27. ASSUME Stage PROVE ExplainedInv'
    BY <1>27 DEF Stage, Returned, Idles, KeepsCall, KeepsRecord, outside, readVars,
       CallInv, OpAt, InstallPcs, AgeInv, Fresh, DiskTypeOK, InstallTypeOK, Journal,
       NoJournal, Tree, ExplainedInv, Explained, Clean, Fault
  <1>28. ASSUME Staged PROVE ExplainedInv'
    BY <1>28 DEF Staged, KeepsRecord, outside, readVars, KeepsCall, CallInv, OpAt,
       InstallPcs, AgeInv, Fresh, DiskTypeOK, Journal, NoJournal, ExplainedInv,
       Explained, Clean, Fault
  <1>29. ASSUME StageFails PROVE ExplainedInv'
    BY <1>29 DEF StageFails, Reports, KeepsCall, KeepsRecord, outside, readVars,
       CallInv, OpAt, InstallPcs, AgeInv, Fresh, DiskTypeOK, Journal, NoJournal,
       ExplainedInv, Explained, Clean, Fault
  <1>30. ASSUME ReadPrevious PROVE ExplainedInv'
    BY <1>30, ReadViewIsKnown DEF ReadPrevious, Calls, Keeps, readVars, diskVars,
       outside, CallInv, OpAt, InstallPcs, AgeInv, Fresh, DiskTypeOK, Journal,
       NoJournal, ExplainedInv, Explained, Clean, Fault
  <1>31. ASSUME Activate PROVE ExplainedInv'
    BY <1>31 DEF Activate, Continue, Returned, Calls, Keeps, KeepsCall, KeepsRecord,
       readVars, diskVars, outside, CallInv, OpAt, InstallPcs, AgeInv, Fresh,
       DiskTypeOK, Journal, NoJournal, ExplainedInv, Explained, Clean, Fault
  <1>32. ASSUME PublishFailed PROVE ExplainedInv'
    BY <1>32 DEF PublishFailed, Retreat, Returned, Calls, Keeps, KeepsCall,
       KeepsRecord, readVars, diskVars, outside, CallInv, OpAt, InstallPcs, AgeInv,
       Fresh, DiskTypeOK, Journal, NoJournal, ExplainedInv, Explained, Clean, Fault
  <1>33. ASSUME ActivateFailed PROVE ExplainedInv'
    BY <1>33 DEF ActivateFailed, Retreat, Returned, Calls, Keeps, KeepsCall,
       KeepsRecord, readVars, diskVars, outside, CallInv, OpAt, InstallPcs, AgeInv,
       Fresh, DiskTypeOK, Journal, NoJournal, ExplainedInv, Explained, Clean, Fault
  <1>34. ASSUME DiscardFailed PROVE ExplainedInv'
    BY <1>34 DEF DiscardFailed, Retreat, Returned, Calls, Keeps, KeepsCall,
       KeepsRecord, readVars, diskVars, outside, CallInv, OpAt, InstallPcs, AgeInv,
       Fresh, DiskTypeOK, Journal, NoJournal, ExplainedInv, Explained, Clean, Fault
  <1>35. ASSUME InstallFailed PROVE ExplainedInv'
    BY <1>35 DEF InstallFailed, Fails, Returned, Reports, Idles, Keeps, KeepsCall,
       KeepsRecord, readVars, diskVars, outside, CallInv, OpAt, InstallPcs, AgeInv,
       Fresh, DiskTypeOK, Journal, NoJournal, ExplainedInv, Explained, Clean, Fault
  <1>36. ASSUME Handshake PROVE ExplainedInv'
    BY <1>36 DEF Handshake, Returned, Calls, Keeps, KeepsCall, readVars, diskVars,
       outside, CallInv, OpAt, InstallPcs, AgeInv, Fresh, DiskTypeOK, Journal,
       NoJournal, ExplainedInv, Explained, Clean, Fault
  <1>37. ASSUME FinalizeFailed PROVE ExplainedInv'
    BY <1>37 DEF FinalizeFailed, Retreat, Returned, Calls, Keeps, KeepsCall,
       KeepsRecord, readVars, diskVars, outside, CallInv, OpAt, InstallPcs, AgeInv,
       Fresh, DiskTypeOK, Journal, NoJournal, ExplainedInv, Explained, Clean, Fault
  <1>38. ASSUME RestoreEnds PROVE ExplainedInv'
    BY <1>38, EndsSomewhere DEF RestoreEnds, Fails, Returned, Reports, Idles, Keeps,
       KeepsCall, KeepsRecord, readVars, diskVars, outside, CallInv, OpAt, InstallPcs,
       AgeInv, Fresh, DiskTypeOK, Journal, NoJournal, ExplainedInv, Explained, Clean,
       Fault
  <1>39. ASSUME Ready PROVE ExplainedInv'
    BY <1>39 DEF Ready, Returned, Reports, Idles, Keeps, KeepsCall, readVars,
       diskVars, outside, CallInv, OpAt, InstallPcs, AgeInv, Fresh, DiskTypeOK, Journal,
       NoJournal, ExplainedInv, Explained, Clean, Fault
  <1>40. ASSUME ReaderReadsPointer PROVE ExplainedInv'
    BY <1>40 DEF ReaderReadsPointer, storeVars, installVars, diskVars, callVars,
       CallInv, OpAt, InstallPcs, AgeInv, Fresh, DiskTypeOK, Journal, NoJournal,
       ExplainedInv, Explained, Clean, Fault
  <1>41. ASSUME ReaderReadsJournal PROVE ExplainedInv'
    BY <1>41, ReadViewIsKnown DEF ReaderReadsJournal, storeVars, installVars,
       diskVars, callVars, CallInv, OpAt, InstallPcs, AgeInv, Fresh, DiskTypeOK,
       Journal, NoJournal, ExplainedInv, Explained, Clean, Fault
  <1>42. ASSUME Crash PROVE ExplainedInv'
    BY <1>42 DEF Crash, StoreCrash, diskVars, CallInv, OpAt, InstallPcs, AgeInv,
       Fresh, DiskTypeOK, Journal, NoJournal, ExplainedInv, Explained, Clean, Fault
  <1>43. ASSUME NEW t \in Tree, Damage(t), UNCHANGED <<installVars, readVars>>
          PROVE ExplainedInv'
    BY <1>43 DEF Damage, callVars, installVars, readVars, ExplainedInv, Explained,
       Clean, Fault
  <1>44. CASE UNCHANGED vars
    BY <1>44 DEF vars, storeVars, diskVars, callVars, outside, installVars, readVars,
       ExplainedInv, Explained, Clean, Fault
  <1>45. QED
    BY <1>1, <1>2, <1>3, <1>4, <1>5, <1>6, <1>7, <1>8, <1>9, <1>10, <1>11, <1>12,
       <1>13, <1>14, <1>15, <1>16, <1>17, <1>18, <1>19, <1>20, <1>21, <1>22, <1>23,
       <1>24, <1>25, <1>26, <1>27, <1>28, <1>29, <1>30, <1>31, <1>32, <1>33, <1>34,
       <1>35, <1>36, <1>37, <1>38, <1>39, <1>40, <1>41, <1>42, <1>43, <1>44 DEF Next,
       InstallStep, StoreWorks

\* Every step that is no fault leaves one spent journal at the most.
LEMMA LeftoversKept == (Clean' => Clean) /\ DiskTypeOK /\ CallTypeOK /\
    InstallTypeOK /\ CallInv /\ TxInv /\ CommitInv /\ EndInv /\ ProofInv /\ AgeInv /\
    PointerInv /\ BaseInv /\ ExplainedInv /\ LeftoverInv /\ [Next]_vars => LeftoverInv'
  <1> SUFFICES ASSUME (Clean' => Clean), DiskTypeOK, CallTypeOK, InstallTypeOK,
          CallInv, TxInv, CommitInv, EndInv, ProofInv, AgeInv, PointerInv, BaseInv,
          ExplainedInv, LeftoverInv, [Next]_vars PROVE LeftoverInv'
    OBVIOUS
  <1>1. ASSUME NEW t \in Tree, PublishIntent(t), UNCHANGED <<installVars,
          readVars>> PROVE LeftoverInv'
    BY <1>1 DEF PublishIntent, Returns, diskVars, WritesJournal, Goes, outside,
       installVars, readVars, CallInv, OpAt, InstallPcs, LeftoverInv, Committing, Clean,
       Fault
  <1>2. ASSUME NEW t \in Tree, ReconcileQuarantines(t), UNCHANGED <<installVars,
          readVars>> PROVE LeftoverInv'
    BY <1>2, EndsSomewhere DEF ReconcileQuarantines, Moves, Goes, diskVars, outside,
       installVars, readVars, CallInv, TxInv, Mine, CommitInv, EndInv, ProofInv, AgeInv,
       Published, PointerInv, Finishing, Undoing, Journal, NoJournal, DiskTypeOK,
       FinalStateProof, CommitState, CommittedPrevious, HandshakeCandidate,
       PreviousValid, Valid, ExplainedInv, Explained, LeftoverInv, Committing, Clean,
       Fault
  <1>3. ASSUME NEW t \in Tree, SweepDeletes(t), UNCHANGED <<installVars,
          readVars>> PROVE LeftoverInv'
    BY <1>3 DEF SweepDeletes, Moves, Returns, callVars, outside, installVars,
       readVars, CallInv, TxInv, Mine, CommitInv, EndInv, ProofInv, AgeInv, Published,
       PointerInv, Finishing, Undoing, Journal, NoJournal, DiskTypeOK, FinalStateProof,
       CommitState, CommittedPrevious, HandshakeCandidate, PreviousValid, Valid,
       ExplainedInv, Explained, LeftoverInv, Committing, Clean, Fault
  <1>4. ASSUME PublishMove, UNCHANGED <<installVars, readVars>> PROVE
          LeftoverInv'
    BY <1>4 DEF PublishMove, Moves, Goes, diskVars, Returns, callVars, outside,
       installVars, readVars, CallInv, TxInv, Mine, CommitInv, EndInv, ProofInv, AgeInv,
       Published, PointerInv, Finishing, Undoing, Journal, NoJournal, DiskTypeOK,
       FinalStateProof, CommitState, CommittedPrevious, HandshakeCandidate,
       PreviousValid, Valid, ExplainedInv, Explained, LeftoverInv, Committing, Clean,
       Fault
  <1>5. ASSUME PublishAwaits, UNCHANGED <<installVars, readVars>> PROVE
          LeftoverInv'
    BY <1>5 DEF PublishAwaits, WritesJournal, Returns, diskVars, outside,
       installVars, readVars, CallInv, TxInv, Mine, CommitInv, EndInv, ProofInv, AgeInv,
       Published, PointerInv, Finishing, Undoing, Journal, NoJournal, DiskTypeOK,
       FinalStateProof, CommitState, CommittedPrevious, HandshakeCandidate,
       PreviousValid, Valid, ExplainedInv, Explained, LeftoverInv, Committing, Clean,
       Fault
  <1>6. ASSUME ActivatePointer, UNCHANGED <<installVars, readVars>> PROVE
          LeftoverInv'
    BY <1>6 DEF ActivatePointer, Returns, diskVars, Goes, PointsTo, outside,
       installVars, readVars, CallInv, TxInv, Mine, CommitInv, EndInv, ProofInv, AgeInv,
       Published, PointerInv, Finishing, Undoing, Journal, NoJournal, DiskTypeOK,
       FinalStateProof, CommitState, CommittedPrevious, HandshakeCandidate,
       PreviousValid, Valid, ExplainedInv, Explained, LeftoverInv, Committing, Clean,
       Fault
  <1>7. ASSUME ActivationProof, UNCHANGED <<installVars, readVars>> PROVE
          LeftoverInv'
    BY <1>7 DEF ActivationProof, Returns, Goes, diskVars, outside, installVars,
       readVars, CallInv, TxInv, Mine, CommitInv, EndInv, ProofInv, AgeInv, Published,
       PointerInv, Finishing, Undoing, Journal, NoJournal, DiskTypeOK, FinalStateProof,
       CommitState, CommittedPrevious, HandshakeCandidate, PreviousValid, Valid,
       ExplainedInv, Explained, LeftoverInv, Committing, Clean, Fault
  <1>8. ASSUME FinalizeIntent, UNCHANGED <<installVars, readVars>> PROVE
          LeftoverInv'
    BY <1>8 DEF FinalizeIntent, Returns, diskVars, WritesJournal, Goes, outside,
       installVars, readVars, CallInv, TxInv, Mine, CommitInv, EndInv, ProofInv, AgeInv,
       Published, PointerInv, Finishing, Undoing, Journal, NoJournal, DiskTypeOK,
       FinalStateProof, CommitState, CommittedPrevious, HandshakeCandidate,
       PreviousValid, Valid, ExplainedInv, Explained, LeftoverInv, Committing, Clean,
       Fault
  <1>9. ASSUME FinishStarts, UNCHANGED <<installVars, readVars>> PROVE
          LeftoverInv'
    BY <1>9 DEF FinishStarts, Goes, RollsBack, diskVars, outside, installVars,
       readVars, CallInv, TxInv, Mine, CommitInv, EndInv, ProofInv, AgeInv, Published,
       PointerInv, Finishing, Undoing, Journal, NoJournal, DiskTypeOK, FinalStateProof,
       CommitState, CommittedPrevious, HandshakeCandidate, PreviousValid, Valid,
       ExplainedInv, Explained, LeftoverInv, Committing, Clean, Fault
  <1>10. ASSUME ReconcileDeletes, UNCHANGED <<installVars, readVars>> PROVE
          LeftoverInv'
    BY <1>10, EndsSomewhere DEF ReconcileDeletes, Moves, Goes, diskVars, callVars,
       outside, installVars, readVars, CallInv, TxInv, Mine, CommitInv, EndInv,
       ProofInv, AgeInv, Published, PointerInv, Finishing, Undoing, Journal, NoJournal,
       DiskTypeOK, FinalStateProof, CommitState, CommittedPrevious, HandshakeCandidate,
       PreviousValid, Valid, ExplainedInv, Explained, LeftoverInv, Committing, Clean,
       Fault
  <1>11. ASSUME ReconcileDone, UNCHANGED <<installVars, readVars>> PROVE
          LeftoverInv'
    BY <1>11, EndsSomewhere DEF ReconcileDone, Goes, diskVars, callVars, outside,
       installVars, readVars, CallInv, TxInv, Mine, CommitInv, EndInv, ProofInv, AgeInv,
       Published, PointerInv, Finishing, Undoing, Journal, NoJournal, DiskTypeOK,
       FinalStateProof, CommitState, CommittedPrevious, HandshakeCandidate,
       PreviousValid, Valid, ExplainedInv, Explained, LeftoverInv, Committing, Clean,
       Fault
  <1>12. ASSUME FinishProves, UNCHANGED <<installVars, readVars>> PROVE
          LeftoverInv'
    BY <1>12 DEF FinishProves, Goes, RollsBack, diskVars, outside, installVars,
       readVars, CallInv, TxInv, Mine, CommitInv, EndInv, ProofInv, AgeInv, Published,
       PointerInv, Finishing, Undoing, Journal, NoJournal, DiskTypeOK, FinalStateProof,
       CommitState, CommittedPrevious, HandshakeCandidate, PreviousValid, Valid,
       ExplainedInv, Explained, LeftoverInv, Committing, Clean, Fault
  <1>13. ASSUME CommitJournal, UNCHANGED <<installVars, readVars>> PROVE
          LeftoverInv'
    BY <1>13, EndsSomewhere DEF CommitJournal, diskVars, MovesJournal, Goes,
       callVars, outside, installVars, readVars, CallInv, TxInv, Mine, CommitInv,
       EndInv, ProofInv, AgeInv, Published, PointerInv, Finishing, Undoing, Journal,
       NoJournal, DiskTypeOK, FinalStateProof, CommitState, CommittedPrevious,
       HandshakeCandidate, PreviousValid, Valid, ExplainedInv, Explained, LeftoverInv,
       Committing, Clean, Fault
  <1>14. ASSUME CommitProves, UNCHANGED <<installVars, readVars>> PROVE
          LeftoverInv'
    BY <1>14, EndsSomewhere DEF CommitProves, Goes, diskVars, RestoresJournal,
       RollsBack, outside, installVars, readVars, CallInv, TxInv, Mine, CommitInv,
       EndInv, ProofInv, AgeInv, Published, PointerInv, Finishing, Undoing, Journal,
       NoJournal, DiskTypeOK, FinalStateProof, CommitState, CommittedPrevious,
       HandshakeCandidate, PreviousValid, Valid, ExplainedInv, Explained, LeftoverInv,
       Committing, Clean, Fault
  <1>15. ASSUME DeleteCandidate, UNCHANGED <<installVars, readVars>> PROVE
          LeftoverInv'
    BY <1>15, EndsSomewhere DEF DeleteCandidate, Moves, Goes, diskVars, callVars,
       outside, installVars, readVars, CallInv, TxInv, Mine, CommitInv, EndInv,
       ProofInv, AgeInv, Published, PointerInv, Finishing, Undoing, Journal, NoJournal,
       DiskTypeOK, FinalStateProof, CommitState, CommittedPrevious, HandshakeCandidate,
       PreviousValid, Valid, ExplainedInv, Explained, LeftoverInv, Committing, Clean,
       Fault
  <1>16. ASSUME DeleteJournal, UNCHANGED <<installVars, readVars>> PROVE
          LeftoverInv'
    BY <1>16, EndsSomewhere DEF DeleteJournal, ForgetsJournal, diskVars, callVars,
       outside, installVars, readVars, EndInv, CallTypeOK, NoJournal, LeftoverInv,
       Committing, Clean, Fault
  <1>17. ASSUME RollbackPointer, UNCHANGED <<installVars, readVars>> PROVE
          LeftoverInv'
    BY <1>17, EndsSomewhere DEF RollbackPointer, diskVars, PointsTo, Goes, outside,
       installVars, readVars, CallInv, TxInv, Mine, CommitInv, EndInv, ProofInv, AgeInv,
       Published, PointerInv, Finishing, Undoing, Journal, NoJournal, DiskTypeOK,
       FinalStateProof, CommitState, CommittedPrevious, HandshakeCandidate,
       PreviousValid, Valid, ExplainedInv, Explained, LeftoverInv, Committing, Clean,
       Fault
  <1>18. ASSUME RollbackTree, UNCHANGED <<installVars, readVars>> PROVE
          LeftoverInv'
    BY <1>18, EndsSomewhere DEF RollbackTree, diskVars, Moves, Goes, callVars,
       outside, installVars, readVars, CallInv, TxInv, Mine, CommitInv, EndInv,
       ProofInv, AgeInv, Published, PointerInv, Finishing, Undoing, Journal, NoJournal,
       DiskTypeOK, FinalStateProof, CommitState, CommittedPrevious, HandshakeCandidate,
       PreviousValid, Valid, ExplainedInv, Explained, LeftoverInv, Committing, Clean,
       Fault
  <1>19. ASSUME RecoverReads, UNCHANGED <<installVars, readVars>> PROVE
          LeftoverInv'
    <2> SUFFICES ASSUME Clean' PROVE LeftoverInv'
      BY DEF LeftoverInv
    <2>1. Clean /\ faults' = faults
      BY <1>19, StoreAssumption DEF RecoverReads, RecoverSpent, outside, Works, Fault, Clean
    <2>5. op = "recover" /\ op' = op
      BY <1>19 DEF RecoverReads, CallTypeOK, CallInv, EndInv, Ops, Undoing, Finishing
    <2>2. CASE UNCHANGED diskVars /\ pc' \in {"returned", "sweep", "dispatch"} /\ (\A j \in spent : ~RecoverSpent(j))
      BY <2>5, <1>19, <2>1, <2>2 DEF RecoverReads, Goes, Returns, diskVars, LeftoverInv, Committing
    <2>3. ASSUME NEW j \in spent, RecoverSpent(j) PROVE LeftoverInv'
      <3>1. /\ journal = NoJournal /\ spent = {j} /\ j \in Journal /\ tx' = j
            /\ active = IF j.phase = "finalizing" THEN j.cand ELSE j.prev
        BY <2>1, <2>3 DEF LeftoverInv, RecoverSpent, DiskTypeOK
      <3>2. j.prev < j.cand /\ j.prev # j.cand
        BY <3>1, StoreAssumption DEF AgeInv, Journal, NoJournal, Tree
      <3>3. CASE UNCHANGED diskVars /\ pc' \in {"returned", "deleteJournal"}
        BY <2>5, <2>1, <2>3, <3>1, <3>3
        DEF RecoverSpent, Goes, Returns, diskVars, LeftoverInv, Committing, RestoresJournal
      <3>4. CASE RestoresJournal(j) /\ pc' \in {"rollback", "dispatch"} /\ Works
        BY <3>1, <3>4 DEF RestoresJournal, LeftoverInv, Committing
      <3>5. QED
        BY <2>1, <2>3, <3>3, <3>4 DEF RecoverSpent, Goes, Returns, Fault, Clean
    <2>4. QED
      BY <1>19, <2>1, <2>2, <2>3 DEF RecoverReads, Goes, Returns
  <1>20. ASSUME RecoverDispatches, UNCHANGED <<installVars, readVars>> PROVE
          LeftoverInv'
    BY <1>20 DEF RecoverDispatches, Goes, diskVars, callVars, outside, installVars,
       readVars, CallInv, TxInv, Mine, CommitInv, EndInv, ProofInv, AgeInv, Published,
       PointerInv, Finishing, Undoing, Journal, NoJournal, DiskTypeOK, FinalStateProof,
       CommitState, CommittedPrevious, HandshakeCandidate, PreviousValid, Valid,
       ExplainedInv, Explained, LeftoverInv, Committing, Clean, Fault
  <1>21. ASSUME RecoverPublishing, UNCHANGED <<installVars, readVars>> PROVE
          LeftoverInv'
    BY <1>21 DEF RecoverPublishing, Returns, diskVars, Moves, Goes, outside,
       installVars, readVars, CallInv, TxInv, Mine, CommitInv, EndInv, ProofInv, AgeInv,
       Published, PointerInv, Finishing, Undoing, Journal, NoJournal, DiskTypeOK,
       FinalStateProof, CommitState, CommittedPrevious, HandshakeCandidate,
       PreviousValid, Valid, ExplainedInv, Explained, LeftoverInv, Committing, Clean,
       Fault
  <1>22. ASSUME RecoverRechecks, UNCHANGED <<installVars, readVars>> PROVE
          LeftoverInv'
    BY <1>22 DEF RecoverRechecks, Goes, Returns, diskVars, callVars, outside,
       installVars, readVars, CallInv, TxInv, Mine, CommitInv, EndInv, ProofInv, AgeInv,
       Published, PointerInv, Finishing, Undoing, Journal, NoJournal, DiskTypeOK,
       FinalStateProof, CommitState, CommittedPrevious, HandshakeCandidate,
       PreviousValid, Valid, ExplainedInv, Explained, LeftoverInv, Committing, Clean,
       Fault
  <1>23. ASSUME RecoverDone, UNCHANGED <<installVars, readVars>> PROVE
          LeftoverInv'
    BY <1>23 DEF RecoverDone, Returns, diskVars, callVars, outside, installVars,
       readVars, CallInv, TxInv, Mine, CommitInv, EndInv, ProofInv, AgeInv, Published,
       PointerInv, Finishing, Undoing, Journal, NoJournal, DiskTypeOK, FinalStateProof,
       CommitState, CommittedPrevious, HandshakeCandidate, PreviousValid, Valid,
       ExplainedInv, Explained, LeftoverInv, Committing, Clean, Fault
  <1>24. ASSUME Restore(previous), UNCHANGED <<installVars, readVars>> PROVE
          LeftoverInv'
    BY <1>24 DEF Restore, Returns, Goes, diskVars, outside, installVars, readVars,
       CallInv, TxInv, Mine, CommitInv, EndInv, ProofInv, AgeInv, Published, PointerInv,
       Finishing, Undoing, Journal, NoJournal, DiskTypeOK, FinalStateProof, CommitState,
       CommittedPrevious, HandshakeCandidate, PreviousValid, Valid, ExplainedInv,
       Explained, LeftoverInv, Committing, Clean, Fault
  <1>25. ASSUME Discard, UNCHANGED <<installVars, readVars>> PROVE LeftoverInv'
    BY <1>25, ReadViewIsKnown DEF Discard, Returns, diskVars, Moves, callVars,
       outside, installVars, readVars, CallInv, TxInv, Mine, CommitInv, EndInv,
       ProofInv, AgeInv, Published, PointerInv, Finishing, Undoing, Journal, NoJournal,
       DiskTypeOK, FinalStateProof, CommitState, CommittedPrevious, HandshakeCandidate,
       PreviousValid, Valid, ExplainedInv, Explained, LeftoverInv, Committing, Clean,
       Fault
  <1>26. ASSUME Install PROVE LeftoverInv'
    BY <1>26 DEF Install, Calls, Keeps, KeepsCall, readVars, diskVars, outside,
       CallInv, OpAt, InstallPcs, LeftoverInv, Committing, Clean, Fault
  <1>27. ASSUME Stage PROVE LeftoverInv'
    BY <1>27 DEF Stage, Returned, Idles, KeepsCall, KeepsRecord, outside, readVars,
       CallInv, OpAt, InstallPcs, LeftoverInv, Committing, Clean, Fault
  <1>28. ASSUME Staged PROVE LeftoverInv'
    BY <1>28 DEF Staged, KeepsRecord, outside, readVars, KeepsCall, CallInv, OpAt,
       InstallPcs, LeftoverInv, Committing, Clean, Fault
  <1>29. ASSUME StageFails PROVE LeftoverInv'
    BY <1>29 DEF StageFails, Reports, KeepsCall, KeepsRecord, outside, readVars,
       CallInv, OpAt, InstallPcs, LeftoverInv, Committing, Clean, Fault
  <1>30. ASSUME ReadPrevious PROVE LeftoverInv'
    BY <1>30, ReadViewIsKnown DEF ReadPrevious, Calls, Keeps, readVars, diskVars,
       outside, CallInv, OpAt, InstallPcs, LeftoverInv, Committing, Clean, Fault
  <1>31. ASSUME Activate PROVE LeftoverInv'
    BY <1>31 DEF Activate, Continue, Returned, Calls, Keeps, KeepsCall, KeepsRecord,
       readVars, diskVars, outside, CallInv, OpAt, InstallPcs, LeftoverInv, Committing,
       Clean, Fault
  <1>32. ASSUME PublishFailed PROVE LeftoverInv'
    BY <1>32 DEF PublishFailed, Retreat, Returned, Calls, Keeps, KeepsCall,
       KeepsRecord, readVars, diskVars, outside, CallInv, OpAt, InstallPcs, LeftoverInv,
       Committing, Clean, Fault
  <1>33. ASSUME ActivateFailed PROVE LeftoverInv'
    BY <1>33 DEF ActivateFailed, Retreat, Returned, Calls, Keeps, KeepsCall,
       KeepsRecord, readVars, diskVars, outside, CallInv, OpAt, InstallPcs, LeftoverInv,
       Committing, Clean, Fault
  <1>34. ASSUME DiscardFailed PROVE LeftoverInv'
    BY <1>34 DEF DiscardFailed, Retreat, Returned, Calls, Keeps, KeepsCall,
       KeepsRecord, readVars, diskVars, outside, CallInv, OpAt, InstallPcs, LeftoverInv,
       Committing, Clean, Fault
  <1>35. ASSUME InstallFailed PROVE LeftoverInv'
    BY <1>35 DEF InstallFailed, Fails, Returned, Reports, Idles, Keeps, KeepsCall,
       KeepsRecord, readVars, diskVars, outside, CallInv, OpAt, InstallPcs, LeftoverInv,
       Committing, Clean, Fault
  <1>36. ASSUME Handshake PROVE LeftoverInv'
    BY <1>36 DEF Handshake, Returned, Calls, Keeps, KeepsCall, readVars, diskVars,
       outside, CallInv, OpAt, InstallPcs, LeftoverInv, Committing, Clean, Fault
  <1>37. ASSUME FinalizeFailed PROVE LeftoverInv'
    BY <1>37 DEF FinalizeFailed, Retreat, Returned, Calls, Keeps, KeepsCall,
       KeepsRecord, readVars, diskVars, outside, CallInv, OpAt, InstallPcs, LeftoverInv,
       Committing, Clean, Fault
  <1>38. ASSUME RestoreEnds PROVE LeftoverInv'
    BY <1>38, EndsSomewhere DEF RestoreEnds, Fails, Returned, Reports, Idles, Keeps,
       KeepsCall, KeepsRecord, readVars, diskVars, outside, CallInv, OpAt, InstallPcs,
       LeftoverInv, Committing, Clean, Fault
  <1>39. ASSUME Ready PROVE LeftoverInv'
    BY <1>39 DEF Ready, Returned, Reports, Idles, Keeps, KeepsCall, readVars,
       diskVars, outside, CallInv, OpAt, InstallPcs, LeftoverInv, Committing, Clean,
       Fault
  <1>40. ASSUME ReaderReadsPointer PROVE LeftoverInv'
    BY <1>40 DEF ReaderReadsPointer, storeVars, installVars, diskVars, callVars,
       CallInv, OpAt, InstallPcs, LeftoverInv, Committing, Clean, Fault
  <1>41. ASSUME ReaderReadsJournal PROVE LeftoverInv'
    BY <1>41, ReadViewIsKnown DEF ReaderReadsJournal, storeVars, installVars,
       diskVars, callVars, CallInv, OpAt, InstallPcs, LeftoverInv, Committing, Clean,
       Fault
  <1>42. ASSUME Crash PROVE LeftoverInv'
    BY <1>42 DEF Crash, StoreCrash, diskVars, CallInv, OpAt, InstallPcs, LeftoverInv,
       Committing, Clean, Fault
  <1>43. ASSUME NEW t \in Tree, Damage(t), UNCHANGED <<installVars, readVars>>
          PROVE LeftoverInv'
    BY <1>43 DEF Damage, callVars, installVars, readVars, LeftoverInv, Committing,
       Clean, Fault
  <1>44. CASE UNCHANGED vars
    BY <1>44 DEF vars, storeVars, diskVars, callVars, outside, installVars, readVars,
       LeftoverInv, Committing, Clean, Fault
  <1>45. QED
    BY <1>1, <1>2, <1>3, <1>4, <1>5, <1>6, <1>7, <1>8, <1>9, <1>10, <1>11, <1>12,
       <1>13, <1>14, <1>15, <1>16, <1>17, <1>18, <1>19, <1>20, <1>21, <1>22, <1>23,
       <1>24, <1>25, <1>26, <1>27, <1>28, <1>29, <1>30, <1>31, <1>32, <1>33, <1>34,
       <1>35, <1>36, <1>37, <1>38, <1>39, <1>40, <1>41, <1>42, <1>43, <1>44 DEF Next,
       InstallStep, StoreWorks

\* CrashesAreRecovered in the terms of this section.
NeverRefuses == Clean => ~refused

\* No step but a fault makes recovery refuse what is on disk.
LEMMA RefusalsKept == (Clean' => Clean) /\ TxInv /\ ExplainedInv /\ LeftoverInv /\
    NeverRefuses /\ [Next]_vars => NeverRefuses'
  <1> SUFFICES ASSUME (Clean' => Clean), TxInv, ExplainedInv, LeftoverInv,
          NeverRefuses, [Next]_vars PROVE NeverRefuses'
    OBVIOUS
  <1>1. ASSUME NEW t \in Tree, PublishIntent(t), UNCHANGED <<installVars,
          readVars>> PROVE NeverRefuses'
    BY <1>1 DEF PublishIntent, diskVars, WritesJournal, outside, installVars,
       readVars, NeverRefuses
  <1>2. ASSUME NEW t \in Tree, ReconcileQuarantines(t), UNCHANGED <<installVars,
          readVars>> PROVE NeverRefuses'
    BY <1>2, EndsSomewhere DEF ReconcileQuarantines, Moves, diskVars, outside,
       installVars, readVars, NeverRefuses
  <1>3. ASSUME NEW t \in Tree, SweepDeletes(t), UNCHANGED <<installVars,
          readVars>> PROVE NeverRefuses'
    BY <1>3 DEF SweepDeletes, Moves, callVars, outside, installVars, readVars,
       NeverRefuses
  <1>4. ASSUME PublishMove, UNCHANGED <<installVars, readVars>> PROVE
          NeverRefuses'
    BY <1>4 DEF PublishMove, Moves, diskVars, callVars, outside, installVars,
       readVars, NeverRefuses
  <1>5. ASSUME PublishAwaits, UNCHANGED <<installVars, readVars>> PROVE
          NeverRefuses'
    BY <1>5 DEF PublishAwaits, WritesJournal, diskVars, outside, installVars,
       readVars, NeverRefuses
  <1>6. ASSUME ActivatePointer, UNCHANGED <<installVars, readVars>> PROVE
          NeverRefuses'
    BY <1>6 DEF ActivatePointer, diskVars, PointsTo, outside, installVars, readVars,
       NeverRefuses
  <1>7. ASSUME ActivationProof, UNCHANGED <<installVars, readVars>> PROVE
          NeverRefuses'
    BY <1>7 DEF ActivationProof, diskVars, outside, installVars, readVars,
       NeverRefuses
  <1>8. ASSUME FinalizeIntent, UNCHANGED <<installVars, readVars>> PROVE
          NeverRefuses'
    BY <1>8 DEF FinalizeIntent, diskVars, WritesJournal, outside, installVars,
       readVars, NeverRefuses
  <1>9. ASSUME FinishStarts, UNCHANGED <<installVars, readVars>> PROVE
          NeverRefuses'
    BY <1>9 DEF FinishStarts, RollsBack, diskVars, outside, installVars, readVars,
       NeverRefuses
  <1>10. ASSUME ReconcileDeletes, UNCHANGED <<installVars, readVars>> PROVE
          NeverRefuses'
    BY <1>10, EndsSomewhere DEF ReconcileDeletes, Moves, diskVars, callVars, outside,
       installVars, readVars, NeverRefuses
  <1>11. ASSUME ReconcileDone, UNCHANGED <<installVars, readVars>> PROVE
          NeverRefuses'
    BY <1>11, EndsSomewhere DEF ReconcileDone, diskVars, callVars, outside,
       installVars, readVars, NeverRefuses
  <1>12. ASSUME FinishProves, UNCHANGED <<installVars, readVars>> PROVE
          NeverRefuses'
    BY <1>12 DEF FinishProves, RollsBack, diskVars, outside, installVars, readVars,
       NeverRefuses
  <1>13. ASSUME CommitJournal, UNCHANGED <<installVars, readVars>> PROVE
          NeverRefuses'
    BY <1>13, EndsSomewhere DEF CommitJournal, diskVars, MovesJournal, callVars,
       outside, installVars, readVars, NeverRefuses
  <1>14. ASSUME CommitProves, UNCHANGED <<installVars, readVars>> PROVE
          NeverRefuses'
    BY <1>14, EndsSomewhere DEF CommitProves, diskVars, RestoresJournal, RollsBack,
       outside, installVars, readVars, NeverRefuses
  <1>15. ASSUME DeleteCandidate, UNCHANGED <<installVars, readVars>> PROVE
          NeverRefuses'
    BY <1>15, EndsSomewhere DEF DeleteCandidate, Moves, diskVars, callVars, outside,
       installVars, readVars, NeverRefuses
  <1>16. ASSUME DeleteJournal, UNCHANGED <<installVars, readVars>> PROVE
          NeverRefuses'
    BY <1>16, EndsSomewhere DEF DeleteJournal, ForgetsJournal, diskVars, callVars,
       outside, installVars, readVars, NeverRefuses
  <1>17. ASSUME RollbackPointer, UNCHANGED <<installVars, readVars>> PROVE
          NeverRefuses'
    <2> SUFFICES ASSUME Clean' PROVE ~refused'
      BY DEF NeverRefuses
    <2>1. Clean /\ ~refused
      BY DEF NeverRefuses
    <2>2. active \in {tx.cand, tx.prev}
      BY <1>17, <2>1 DEF RollbackPointer, ExplainedInv, Explained, TxInv, Finishing
    <2>3. QED
      BY <1>17, <2>1, <2>2 DEF RollbackPointer
  <1>18. ASSUME RollbackTree, UNCHANGED <<installVars, readVars>> PROVE
          NeverRefuses'
    <2> SUFFICES ASSUME Clean' PROVE ~refused'
      BY DEF NeverRefuses
    <2>1. Clean /\ ~refused
      BY DEF NeverRefuses
    <2>2. place[tx.cand] \in {"versions", "candidate"}
      BY <1>18, <2>1 DEF RollbackTree, ExplainedInv, Explained, TxInv, Finishing
    <2>3. QED
      BY <1>18, <2>1, <2>2 DEF RollbackTree
  <1>19. ASSUME RecoverReads, UNCHANGED <<installVars, readVars>> PROVE
          NeverRefuses'
    <2> SUFFICES ASSUME Clean' PROVE ~refused'
      BY DEF NeverRefuses
    <2>1. Clean /\ ~refused
      BY DEF NeverRefuses
    <2>2. ~Ambiguous
      <3>1. CASE spent = {}
        BY <3>1, FS_EmptySet DEF Ambiguous
      <3>2. ASSUME NEW j \in spent PROVE ~Ambiguous
        <4>1. journal = NoJournal /\ spent = {j}
          BY <2>1, <3>2 DEF LeftoverInv
        <4>2. Cardinality(spent) = 1
          BY <4>1, FS_Singleton
        <4>3. QED
          BY <4>1, <4>2 DEF Ambiguous
      <3>3. QED
        BY <3>1, <3>2
    <2>3. QED
      BY <1>19, <2>1, <2>2 DEF RecoverReads, RecoverSpent
  <1>20. ASSUME RecoverDispatches, UNCHANGED <<installVars, readVars>> PROVE
          NeverRefuses'
    BY <1>20 DEF RecoverDispatches, diskVars, callVars, outside, installVars,
       readVars, NeverRefuses
  <1>21. ASSUME RecoverPublishing, UNCHANGED <<installVars, readVars>> PROVE
          NeverRefuses'
    <2> SUFFICES ASSUME Clean' PROVE ~refused'
      BY DEF NeverRefuses
    <2>1. Clean /\ ~refused
      BY DEF NeverRefuses
    <2>2. active = tx.prev /\ place[tx.cand] \in {"staging", "versions", "publishing"}
      BY <1>21, <2>1 DEF RecoverPublishing, ExplainedInv, Explained, TxInv, Finishing
    <2>3. QED
      BY <1>21, <2>1, <2>2 DEF RecoverPublishing
  <1>22. ASSUME RecoverRechecks, UNCHANGED <<installVars, readVars>> PROVE
          NeverRefuses'
    BY <1>22 DEF RecoverRechecks, diskVars, callVars, outside, installVars, readVars,
       NeverRefuses
  <1>23. ASSUME RecoverDone, UNCHANGED <<installVars, readVars>> PROVE
          NeverRefuses'
    BY <1>23 DEF RecoverDone, diskVars, callVars, outside, installVars, readVars,
       NeverRefuses
  <1>24. ASSUME Restore(previous), UNCHANGED <<installVars, readVars>> PROVE
          NeverRefuses'
    BY <1>24 DEF Restore, diskVars, outside, installVars, readVars, NeverRefuses
  <1>25. ASSUME Discard, UNCHANGED <<installVars, readVars>> PROVE NeverRefuses'
    BY <1>25, ReadViewIsKnown DEF Discard, diskVars, Moves, callVars, outside,
       installVars, readVars, NeverRefuses
  <1>26. ASSUME Install PROVE NeverRefuses'
    BY <1>26 DEF Install, Calls, Keeps, KeepsCall, readVars, diskVars, outside,
       NeverRefuses
  <1>27. ASSUME Stage PROVE NeverRefuses'
    BY <1>27 DEF Stage, Returned, Idles, KeepsCall, KeepsRecord, outside, readVars,
       NeverRefuses
  <1>28. ASSUME Staged PROVE NeverRefuses'
    BY <1>28 DEF Staged, KeepsRecord, outside, readVars, KeepsCall, NeverRefuses
  <1>29. ASSUME StageFails PROVE NeverRefuses'
    BY <1>29 DEF StageFails, Reports, KeepsCall, KeepsRecord, outside, readVars,
       NeverRefuses
  <1>30. ASSUME ReadPrevious PROVE NeverRefuses'
    BY <1>30, ReadViewIsKnown DEF ReadPrevious, Calls, Keeps, readVars, diskVars,
       outside, NeverRefuses
  <1>31. ASSUME Activate PROVE NeverRefuses'
    BY <1>31 DEF Activate, Continue, Returned, Calls, Keeps, KeepsCall, KeepsRecord,
       readVars, diskVars, outside, NeverRefuses
  <1>32. ASSUME PublishFailed PROVE NeverRefuses'
    BY <1>32 DEF PublishFailed, Retreat, Returned, Calls, Keeps, KeepsCall,
       KeepsRecord, readVars, diskVars, outside, NeverRefuses
  <1>33. ASSUME ActivateFailed PROVE NeverRefuses'
    BY <1>33 DEF ActivateFailed, Retreat, Returned, Calls, Keeps, KeepsCall,
       KeepsRecord, readVars, diskVars, outside, NeverRefuses
  <1>34. ASSUME DiscardFailed PROVE NeverRefuses'
    BY <1>34 DEF DiscardFailed, Retreat, Returned, Calls, Keeps, KeepsCall,
       KeepsRecord, readVars, diskVars, outside, NeverRefuses
  <1>35. ASSUME InstallFailed PROVE NeverRefuses'
    BY <1>35 DEF InstallFailed, Fails, Returned, Reports, Idles, Keeps, KeepsCall,
       KeepsRecord, readVars, diskVars, outside, NeverRefuses
  <1>36. ASSUME Handshake PROVE NeverRefuses'
    BY <1>36 DEF Handshake, Returned, Calls, Keeps, KeepsCall, readVars, diskVars,
       outside, NeverRefuses
  <1>37. ASSUME FinalizeFailed PROVE NeverRefuses'
    BY <1>37 DEF FinalizeFailed, Retreat, Returned, Calls, Keeps, KeepsCall,
       KeepsRecord, readVars, diskVars, outside, NeverRefuses
  <1>38. ASSUME RestoreEnds PROVE NeverRefuses'
    BY <1>38, EndsSomewhere DEF RestoreEnds, Fails, Returned, Reports, Idles, Keeps,
       KeepsCall, KeepsRecord, readVars, diskVars, outside, NeverRefuses
  <1>39. ASSUME Ready PROVE NeverRefuses'
    BY <1>39 DEF Ready, Returned, Reports, Idles, Keeps, KeepsCall, readVars,
       diskVars, outside, NeverRefuses
  <1>40. ASSUME ReaderReadsPointer PROVE NeverRefuses'
    BY <1>40 DEF ReaderReadsPointer, storeVars, installVars, diskVars, callVars,
       NeverRefuses
  <1>41. ASSUME ReaderReadsJournal PROVE NeverRefuses'
    BY <1>41, ReadViewIsKnown DEF ReaderReadsJournal, storeVars, installVars,
       diskVars, callVars, NeverRefuses
  <1>42. ASSUME Crash PROVE NeverRefuses'
    BY <1>42 DEF Crash, StoreCrash, diskVars, NeverRefuses
  <1>43. ASSUME NEW t \in Tree, Damage(t), UNCHANGED <<installVars, readVars>>
          PROVE NeverRefuses'
    BY <1>43 DEF Damage, callVars, installVars, readVars, NeverRefuses
  <1>44. CASE UNCHANGED vars
    BY <1>44 DEF vars, storeVars, diskVars, callVars, outside, installVars, readVars,
       NeverRefuses
  <1>45. QED
    BY <1>1, <1>2, <1>3, <1>4, <1>5, <1>6, <1>7, <1>8, <1>9, <1>10, <1>11, <1>12,
       <1>13, <1>14, <1>15, <1>16, <1>17, <1>18, <1>19, <1>20, <1>21, <1>22, <1>23,
       <1>24, <1>25, <1>26, <1>27, <1>28, <1>29, <1>30, <1>31, <1>32, <1>33, <1>34,
       <1>35, <1>36, <1>37, <1>38, <1>39, <1>40, <1>41, <1>42, <1>43, <1>44 DEF Next,
       InstallStep, StoreWorks

\* No fault, nothing refused: initially and after every step.
LEMMA CleanInitially == Init => ExplainedInv /\ LeftoverInv /\ NeverRefuses
  BY DEF Init, StoreInit, ExplainedInv, Explained, LeftoverInv, Committing, NeverRefuses, NoJournal

\* Every step keeps it.  As no step takes back a fault, a clean state is
\* reached by clean steps only.
LEMMA CleanSteps ==
    ServeInv /\ OutcomeInv /\ ReadyInv /\ ExplainedInv /\ LeftoverInv /\ NeverRefuses /\ [Next]_vars
        => ExplainedInv' /\ LeftoverInv' /\ NeverRefuses'
  <1> SUFFICES ASSUME ServeInv, OutcomeInv, ReadyInv, ExplainedInv, LeftoverInv, NeverRefuses, [Next]_vars
               PROVE  ExplainedInv' /\ LeftoverInv' /\ NeverRefuses'
    OBVIOUS
  <1>1. /\ DiskTypeOK /\ CallTypeOK /\ CountTypeOK /\ InstallTypeOK
        /\ CallInv /\ TxInv /\ CommitInv /\ EndInv /\ ProofInv
        /\ AgeInv /\ PointerInv /\ BaseInv
    BY DEF ServeInv, TypeOK, StoreTypeOK, OutcomeInv, ReadyInv
  <1>2. Clean' => Clean
    BY <1>1, FaultsAreCounted
  <1>3. QED
    BY <1>1, <1>2, ExplainedKept, LeftoversKept, RefusalsKept

\* CrashesAreRecovered: however often and wherever processes die, and during recoveries
\* too, a recovery never refuses what is on disk before a file operation failed or
\* somebody changed the files.
THEOREM CrashesAreAlwaysRecovered == Spec => []CrashesAreRecovered
  <1>1. Spec => [](ExplainedInv /\ LeftoverInv /\ NeverRefuses)
    BY CleanInitially, CleanSteps, InstallInvariant, OutcomeInvariant, ReadyInvariant, PTL DEF Spec
  <1>2. CountTypeOK /\ NeverRefuses => CrashesAreRecovered
    BY StoreAssumption DEF CountTypeOK, NeverRefuses, Clean, CrashesAreRecovered
  <1>3. ServeInv => CountTypeOK
    BY DEF ServeInv, TypeOK, StoreTypeOK
  <1>4. QED
    BY <1>1, <1>2, <1>3, InstallInvariant, PTL
=============================================================================
