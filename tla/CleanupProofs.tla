---------------------------- MODULE CleanupProofs ----------------------------
(* Theorems about the cleanup life cycle, for every set of messages and of   *)
(* administrators, every classifier and every attempt limit.                 *)
EXTENDS Cleanup, TLAPS

\* Which handler each process can be in; the mutex is held exactly at LockedSteps.
AdminSteps == {"idle", "approve.move", "approve.commit", "batch.move", "batch.commit",
               "restore.move", "restore.commit", "trash.move", "trash.commit",
               "flag.wait", "flag.commit"}
SchedulerSteps == {"idle", "clean.block", "clean.move", "clean.commit", "clean.fail", "clean.save"}
SyncSteps == {"idle", "sync.page", "sync.present", "sync.removed", "sync.rescue", "rescue.commit"}

MutexOK ==
  /\ \A p \in Procs : lock = p <=> pc[p] \in LockedSteps
  /\ \A p \in Admins : pc[p] \in AdminSteps
  /\ pc[Scheduler] \in SchedulerSteps
  /\ pc[Syncer] \in SyncSteps
  /\ pc[Reclassifier] \in {"idle", "reclassify.apply"}

\* What a handler that passed its checks may still rely on, in spite of the
\* handlers that do not take the mutex.
Checked(p, m) ==
  /\ pc[p] \in {"approve.move", "approve.commit", "batch.move", "batch.commit"} =>
       state[m] \in {"candidate", "dismissed"}
  /\ pc[p] \in {"restore.move", "restore.commit"} =>
       /\ state[m] \in {"holding", "failed", "candidate", "dismissed"}
       /\ arg[p] \in Folders
  /\ pc[p] \in {"trash.move", "trash.commit", "rescue.commit"} => Visible(m)
  /\ pc[p] \in {"clean.block", "clean.move", "clean.commit"} => state[m] = "holding"
  /\ pc[p] \in {"clean.move", "clean.commit"} => m \notin flagged
  /\ pc[p] \in {"sync.present", "sync.removed"} => arg[p] \in Folders

\* Where a message is between its move and its commit.
Moved(p, m) ==
  /\ pc[p] \in {"approve.commit", "batch.commit"} => remote[m] = "holding"
  /\ pc[p] \in {"restore.commit", "sync.present"} => remote[m] = arg[p]
  /\ pc[p] \in {"trash.commit", "clean.commit"} => remote[m] = "deleteditems"
  /\ pc[p] = "rescue.commit" => remote[m] = "inbox"

FlightOK ==
  /\ \A p \in Procs : \A m \in targets[p] : Checked(p, m) /\ (m \notin astray => Moved(p, m))
  /\ \A m \in rescueList : Visible(m)
  /\ rescueList # {} => pc[Syncer] \in {"sync.rescue", "rescue.commit"}

\* A failed attempt is counted at most MaxAttempts times.
AttemptsOK ==
  /\ \A m \in Messages : state[m] = "holding" => attempts[m] < MaxAttempts
  /\ \A m \in targets[Scheduler] \cup dueList : attempts[m] < MaxAttempts
  /\ dueList \cap targets[Scheduler] = {}
  /\ pc[Scheduler] = "idle" => targets[Scheduler] = {}

\* The mutex and the rows; where mail is and what handlers in progress rely on.
RowsOK == MutexOK /\ AttemptsOK /\ HiddenAgrees /\ CandidatesAreEligible
PlaceOK == FlightOK /\ RemoteAgrees

IInv == TypeOK /\ RowsOK /\ PlaceOK

\* The four action properties as one action, for one message at a time.
SafeStep ==
  \A m \in Messages :
    /\ TrashedByScheduler(m) => state[m] = "holding" /\ m \notin flagged
    /\ m \in manual => m \in manual' /\ (category'[m] # category[m] => UNCHANGED pc)
    /\ state[m] = "deleted" => state'[m] = "deleted"
    /\ m \in hidden' \ hidden /\ m \notin astray => remote[m] \in {"holding", "deleteditems"}

------------------------------------------------------------------------------
\* A re-evaluation keeps the state column in range (refreshCandidateTx).
LEMMA RefreshType ==
  ASSUME TypeOK, NEW S, RefreshCandidates(S) PROVE state' \in [Messages -> States]
BY DEF TypeOK, RefreshCandidates, Refreshed, States

\* What a re-evaluation may and may not do to one row: it never enters or leaves
\* holding or deleted, and it makes candidates only of eligible mail.
LEMMA RefreshFacts ==
  ASSUME NEW S, RefreshCandidates(S), NEW m \in Messages
  PROVE  /\ m \notin S => state'[m] = state[m]
         /\ state[m] \in {"holding", "deleted"} => state'[m] = state[m]
         /\ state'[m] \in {"holding", "failed", "restored", "deleted"} => state'[m] = state[m]
         /\ state[m] \in {"candidate", "dismissed"} => state'[m] \in {"candidate", "dismissed"}
         /\ state[m] = "failed" => state'[m] \in {"failed", "candidate", "dismissed"}
         /\ m \in S /\ state'[m] = "candidate" => Eligible(m)'
BY DEF RefreshCandidates, Refreshed

\* The folder an approval records, or a restore goes to, is a synchronised one.
LEMMA OriginalType == ASSUME TypeOK, NEW m \in Messages PROVE OriginalOf(m) \in Folders
BY DEF TypeOK, OriginalOf

------------------------------------------------------------------------------
(* Each part of the invariant is kept by each action, given the whole of it.  *)

\* Every action keeps the types; attempts need AttemptsOK, folders need FlightOK.
LEMMA TypeStep == ASSUME IInv, Next PROVE TypeOK'
<1> USE VerdictsAssumption, PlacesAssumption, AttemptsAssumption
<1> USE DEF IInv, RowsOK, PlaceOK, TypeOK, Folders, Places, Categories, States, Procs,
           LockedSteps, MoveSteps, CommitSteps, FreeSteps, Args, Goto, Acquire, Release,
           Return, GraphMove, ForgetMove, RecordHolding, Classify, classification,
           message, action, mailbox, run, schedule
<1>1. ASSUME NEW p \in Admins, NEW m \in Messages, ApproveCleanup(p, m)
      PROVE  TypeOK'
  BY <1>1 DEF ApproveCleanup
<1>2. ASSUME NEW p \in Admins, NEW S \in SUBSET Messages, ApproveCleanupBatch(p, S)
      PROVE  TypeOK'
  BY <1>2 DEF ApproveCleanupBatch
<1>3. ASSUME NEW p \in Admins, ApproveMove(p)
      PROVE  TypeOK'
  BY <1>3 DEF ApproveMove
<1>4. ASSUME NEW p \in Admins, ApproveCommit(p)
      PROVE  TypeOK'
  BY <1>4, OriginalType DEF ApproveCommit
<1>5. ASSUME NEW p \in Admins, BatchCommit(p)
      PROVE  TypeOK'
  BY <1>5, OriginalType DEF BatchCommit
<1>6. ASSUME NEW p \in Admins, BatchConflict(p)
      PROVE  TypeOK'
  BY <1>6 DEF BatchConflict
<1>7. ASSUME NEW p \in Admins, NEW m \in Messages, RestoreCleanup(p, m)
      PROVE  TypeOK'
  BY <1>7, OriginalType DEF RestoreCleanup
<1>8. ASSUME NEW p \in Admins, RestoreMove(p)
      PROVE  TypeOK'
  BY <1>8 DEF RestoreMove, FlightOK, Checked
<1>9. ASSUME NEW p \in Admins, RestoreCommit(p)
      PROVE  TypeOK'
  BY <1>9 DEF RestoreCommit
<1>10. ASSUME NEW p \in Admins, NEW m \in Messages, MoveMessageToDeletedItems(p, m)
      PROVE  TypeOK'
  BY <1>10 DEF MoveMessageToDeletedItems
<1>11. ASSUME NEW p \in Admins, TrashMove(p)
      PROVE  TypeOK'
  BY <1>11 DEF TrashMove
<1>12. ASSUME NEW p \in Admins, TrashCommit(p)
      PROVE  TypeOK'
  BY <1>12 DEF TrashCommit
<1>13. ASSUME NEW p \in Admins, NEW m \in Messages,
             NEW flag \in {"flagged", "unflagged"}, SetMessageFlagged(p, m, flag)
      PROVE  TypeOK'
  BY <1>13 DEF SetMessageFlagged
<1>14. ASSUME NEW p \in Admins, FlagPatch(p)
      PROVE  TypeOK'
  BY <1>14 DEF FlagPatch
<1>15. ASSUME NEW p \in Admins, FlagCommit(p)
      PROVE  TypeOK'
  BY <1>15, RefreshType DEF FlagCommit
<1>16. ASSUME NEW m \in Messages, RetryCleanup(m)
      PROVE  TypeOK'
  BY <1>16 DEF RetryCleanup
<1>17. ASSUME NEW m \in Messages, NEW v \in Verdicts, CorrectMessageCategory(m, v.category)
      PROVE  TypeOK'
  BY <1>17, RefreshType DEF CorrectMessageCategory
<1>18. ASSUME SetAccountCleanupProtected
      PROVE  TypeOK'
  BY <1>18, RefreshType DEF SetAccountCleanupProtected
<1>19. ASSUME ProcessDueCleanup
      PROVE  TypeOK'
  BY <1>19 DEF ProcessDueCleanup
<1>20. ASSUME NEW m \in Messages, CompleteCleanup(m)
      PROVE  TypeOK'
  BY <1>20 DEF CompleteCleanup
<1>21. ASSUME NEW m \in Messages, CompleteConflict(m)
      PROVE  TypeOK'
  BY <1>21 DEF CompleteConflict
<1>22. ASSUME CleanBlock
      PROVE  TypeOK'
  BY <1>22 DEF CleanBlock
<1>23. ASSUME CleanMove
      PROVE  TypeOK'
  BY <1>23 DEF CleanMove
<1>24. ASSUME CleanCommit
      PROVE  TypeOK'
  BY <1>24 DEF CleanCommit
<1>25. ASSUME CleanRollback
      PROVE  TypeOK'
  BY <1>25 DEF CleanRollback
<1>26. ASSUME NEW m \in Messages, CountFailure(m)
      PROVE  TypeOK'
  BY <1>26 DEF CountFailure, CountAs, AttemptsOK
<1>27. ASSUME NEW m \in Messages, RecordCleanupFailure(m)
      PROVE  TypeOK'
  BY <1>27 DEF RecordCleanupFailure
<1>28. ASSUME SyncAccount
      PROVE  TypeOK'
  BY <1>28 DEF SyncAccount
<1>29. ASSUME NEW m \in Messages, NEW f \in Folders, FetchEntry(m, f)
      PROVE  TypeOK'
  BY <1>29 DEF FetchEntry
<1>30. ASSUME NEW m \in Messages,
             NEW flag \in BOOLEAN, NEW v \in Verdicts, ApplyPresent(m, flag, v)
      PROVE  TypeOK'
  BY <1>30, RefreshType DEF ApplyPresent, FlightOK, Checked
<1>31. ASSUME NEW m \in Messages, ApplyRemoved(m)
      PROVE  TypeOK'
  BY <1>31 DEF ApplyRemoved
<1>32. ASSUME RescueVerificationMessages
      PROVE  TypeOK'
  BY <1>32 DEF RescueVerificationMessages
<1>33. ASSUME NEW m \in Messages, RescueMove(m)
      PROVE  TypeOK'
  BY <1>33 DEF RescueMove
<1>34. ASSUME RescueCommit
      PROVE  TypeOK'
  BY <1>34 DEF RescueCommit
<1>35. ASSUME SyncEnd
      PROVE  TypeOK'
  BY <1>35 DEF SyncEnd
<1>36. ASSUME ReclassifyRead
      PROVE  TypeOK'
  BY <1>36 DEF ReclassifyRead
<1>37. ASSUME ReclassifyApply
      PROVE  TypeOK'
  BY <1>37, RefreshType DEF ReclassifyApply
<1>38. ASSUME NEW p \in Procs, Rollback(p)
      PROVE  TypeOK'
  BY <1>38 DEF Rollback
<1>39. ASSUME NEW m \in Messages, GraceElapses(m)
      PROVE  TypeOK'
  BY <1>39 DEF GraceElapses
<1>40. ASSUME NEW m \in Messages, RetryElapses(m)
      PROVE  TypeOK'
  BY <1>40 DEF RetryElapses
<1>41. ASSUME NEW m \in Messages, NEW place \in UserPlaces, UserMoves(m, place)
      PROVE  TypeOK'
  BY <1>41 DEF UserMoves
<1>42. ASSUME Crash
      PROVE  TypeOK'
  BY <1>42 DEF Crash
<1>43. ASSUME NEW m \in Messages, CompleteUnread(m)
      PROVE  TypeOK'
  BY <1>43 DEF CompleteUnread
<1>44. ASSUME NEW m \in Messages, CountUnread(m)
      PROVE  TypeOK'
  BY <1>44 DEF CountUnread, CountAs
<1>45. ASSUME NEW m \in Messages, RecordUnwritten(m)
      PROVE  TypeOK'
  BY <1>45 DEF RecordUnwritten
<1> HIDE VerdictsAssumption, PlacesAssumption, AttemptsAssumption
<1> HIDE DEF IInv, RowsOK, PlaceOK, TypeOK, Folders, Places, Categories, States, Procs,
           LockedSteps, MoveSteps, CommitSteps, FreeSteps, Args, Goto, Acquire, Release,
           Return, GraphMove, ForgetMove, RecordHolding, Classify, classification,
           message, action, mailbox, run, schedule
<1>46. QED
  BY <1>1, <1>2, <1>3, <1>4, <1>5, <1>6, <1>7, <1>8, <1>9, <1>10,
            <1>11, <1>12, <1>13, <1>14, <1>15, <1>16, <1>17, <1>18, <1>19,
            <1>20, <1>21, <1>22, <1>23, <1>24, <1>25, <1>26, <1>27, <1>28,
            <1>29, <1>30, <1>31, <1>32, <1>33, <1>34, <1>35, <1>36, <1>37,
            <1>38, <1>39, <1>40, <1>41, <1>42, <1>43, <1>44, <1>45
  DEF Next, Work, AdminStep, DatabaseStep, SchedulerStep, SyncStep, Environment
\* Every action keeps the mutex discipline, the retry budget, the agreement of hidden
\* and state, and the eligibility of candidates.
LEMMA RowsStep == ASSUME IInv, Next PROVE RowsOK'
<1> USE ProcsAssumption, AttemptsAssumption
<1> USE DEF IInv, Goto, Acquire, Release, Return, GraphMove, ForgetMove, RecordHolding,
           classification, message, action, mailbox, run, schedule, TypeOK, MutexOK,
           FlightOK, Checked, Visible, Procs, LockedSteps, MoveSteps, CommitSteps,
           AdminSteps, SchedulerSteps, SyncSteps, RowsOK, PlaceOK, MutexOK, Eligible,
           Classify, AttemptsOK, HiddenAgrees, CandidatesAreEligible
<1>1. ASSUME NEW p \in Admins, NEW m \in Messages, ApproveCleanup(p, m)
      PROVE  RowsOK'
  BY <1>1 DEF ApproveCleanup
<1>2. ASSUME NEW p \in Admins, NEW S \in SUBSET Messages, ApproveCleanupBatch(p, S)
      PROVE  RowsOK'
  BY <1>2 DEF ApproveCleanupBatch
<1>3. ASSUME NEW p \in Admins, ApproveMove(p)
      PROVE  RowsOK'
  BY <1>3 DEF ApproveMove
<1>4. ASSUME NEW p \in Admins, ApproveCommit(p)
      PROVE  RowsOK'
  BY <1>4 DEF ApproveCommit
<1>5. ASSUME NEW p \in Admins, BatchCommit(p)
      PROVE  RowsOK'
  BY <1>5 DEF BatchCommit
<1>6. ASSUME NEW p \in Admins, BatchConflict(p)
      PROVE  RowsOK'
  BY <1>6 DEF BatchConflict
<1>7. ASSUME NEW p \in Admins, NEW m \in Messages, RestoreCleanup(p, m)
      PROVE  RowsOK'
  BY <1>7 DEF RestoreCleanup
<1>8. ASSUME NEW p \in Admins, RestoreMove(p)
      PROVE  RowsOK'
  BY <1>8 DEF RestoreMove
<1>9. ASSUME NEW p \in Admins, RestoreCommit(p)
      PROVE  RowsOK'
  BY <1>9 DEF RestoreCommit
<1>10. ASSUME NEW p \in Admins, NEW m \in Messages, MoveMessageToDeletedItems(p, m)
      PROVE  RowsOK'
  BY <1>10 DEF MoveMessageToDeletedItems
<1>11. ASSUME NEW p \in Admins, TrashMove(p)
      PROVE  RowsOK'
  BY <1>11 DEF TrashMove
<1>12. ASSUME NEW p \in Admins, TrashCommit(p)
      PROVE  RowsOK'
  BY <1>12 DEF TrashCommit
<1>13. ASSUME NEW p \in Admins, NEW m \in Messages,
             NEW flag \in {"flagged", "unflagged"}, SetMessageFlagged(p, m, flag)
      PROVE  RowsOK'
  BY <1>13 DEF SetMessageFlagged
<1>14. ASSUME NEW p \in Admins, FlagPatch(p)
      PROVE  RowsOK'
  BY <1>14 DEF FlagPatch
<1>15. ASSUME NEW p \in Admins, FlagCommit(p)
      PROVE  RowsOK'
  <2>1. RefreshCandidates(targets[p])
    BY <1>15 DEF FlagCommit
  <2>2. ASSUME NEW n \in Messages, state'[n] = "candidate", n \notin remoteDeleted'
        PROVE  Eligible(n)'
    <3>1. CASE n \in targets[p]
      <4> HIDE DEF Eligible
      <4>1. QED BY <2>1, <2>2, <3>1, RefreshFacts
    <3>2. CASE n \notin targets[p]
      <4>1. state'[n] = state[n]
        <5> HIDE DEF IInv, Eligible
        <5>1. QED BY <2>1, <3>2, RefreshFacts
      <4>2. QED BY <1>15, <2>2, <3>2, <4>1 DEF FlagCommit
    <3>3. QED BY <3>1, <3>2
  <2>3. MutexOK' /\ AttemptsOK' /\ HiddenAgrees'
    <3> HIDE DEF Eligible
    <3>1. QED BY <1>15, <2>1, RefreshFacts DEF FlagCommit
  <2>4. QED BY <2>2, <2>3
<1>16. ASSUME NEW m \in Messages, RetryCleanup(m)
      PROVE  RowsOK'
  BY <1>16 DEF RetryCleanup
<1>17. ASSUME NEW m \in Messages, NEW v \in Verdicts, CorrectMessageCategory(m, v.category)
      PROVE  RowsOK'
  BY <1>17, RefreshFacts DEF CorrectMessageCategory
<1>18. ASSUME SetAccountCleanupProtected
      PROVE  RowsOK'
  <2>1. RefreshCandidates({m \in Messages : m \notin remoteDeleted})
    BY <1>18 DEF SetAccountCleanupProtected
  <2>2. ASSUME NEW n \in Messages, state'[n] = "candidate", n \notin remoteDeleted'
        PROVE  Eligible(n)'
    <3>1. CASE n \in {m \in Messages : m \notin remoteDeleted}
      <4> HIDE DEF Eligible
      <4>1. QED BY <2>1, <2>2, <3>1, RefreshFacts
    <3>2. CASE n \notin {m \in Messages : m \notin remoteDeleted}
      <4>1. state'[n] = state[n]
        <5> HIDE DEF IInv, Eligible
        <5>1. QED BY <2>1, <3>2, RefreshFacts
      <4>2. QED BY <1>18, <2>2, <3>2, <4>1 DEF SetAccountCleanupProtected
    <3>3. QED BY <3>1, <3>2
  <2>3. MutexOK' /\ AttemptsOK' /\ HiddenAgrees'
    <3> HIDE DEF Eligible
    <3>1. QED BY <1>18, <2>1, RefreshFacts DEF SetAccountCleanupProtected
  <2>4. QED BY <2>2, <2>3
<1>19. ASSUME ProcessDueCleanup
      PROVE  RowsOK'
  BY <1>19 DEF ProcessDueCleanup
<1>20. ASSUME NEW m \in Messages, CompleteCleanup(m)
      PROVE  RowsOK'
  BY <1>20 DEF CompleteCleanup
<1>21. ASSUME NEW m \in Messages, CompleteConflict(m)
      PROVE  RowsOK'
  BY <1>21 DEF CompleteConflict
<1>22. ASSUME CleanBlock
      PROVE  RowsOK'
  BY <1>22 DEF CleanBlock
<1>23. ASSUME CleanMove
      PROVE  RowsOK'
  BY <1>23 DEF CleanMove
<1>24. ASSUME CleanCommit
      PROVE  RowsOK'
  BY <1>24 DEF CleanCommit
<1>25. ASSUME CleanRollback
      PROVE  RowsOK'
  BY <1>25 DEF CleanRollback
<1>26. ASSUME NEW m \in Messages, CountFailure(m)
      PROVE  RowsOK'
  BY <1>26 DEF CountFailure, CountAs
<1>27. ASSUME NEW m \in Messages, RecordCleanupFailure(m)
      PROVE  RowsOK'
  BY <1>27 DEF RecordCleanupFailure
<1>28. ASSUME SyncAccount
      PROVE  RowsOK'
  BY <1>28 DEF SyncAccount
<1>29. ASSUME NEW m \in Messages, NEW f \in Folders, FetchEntry(m, f)
      PROVE  RowsOK'
  BY <1>29 DEF FetchEntry
<1>30. ASSUME NEW m \in Messages,
             NEW flag \in BOOLEAN, NEW v \in Verdicts, ApplyPresent(m, flag, v)
      PROVE  RowsOK'
  BY <1>30, RefreshFacts DEF ApplyPresent
<1>31. ASSUME NEW m \in Messages, ApplyRemoved(m)
      PROVE  RowsOK'
  BY <1>31 DEF ApplyRemoved
<1>32. ASSUME RescueVerificationMessages
      PROVE  RowsOK'
  BY <1>32 DEF RescueVerificationMessages
<1>33. ASSUME NEW m \in Messages, RescueMove(m)
      PROVE  RowsOK'
  BY <1>33 DEF RescueMove
<1>34. ASSUME RescueCommit
      PROVE  RowsOK'
  BY <1>34 DEF RescueCommit
<1>35. ASSUME SyncEnd
      PROVE  RowsOK'
  BY <1>35 DEF SyncEnd
<1>36. ASSUME ReclassifyRead
      PROVE  RowsOK'
  BY <1>36 DEF ReclassifyRead
<1>37. ASSUME ReclassifyApply
      PROVE  RowsOK'
  <2>1. RefreshCandidates(targets[Reclassifier])
    BY <1>37 DEF ReclassifyApply
  <2>2. ASSUME NEW n \in Messages, state'[n] = "candidate", n \notin remoteDeleted'
        PROVE  Eligible(n)'
    <3>1. CASE n \in targets[Reclassifier]
      <4> HIDE DEF Eligible
      <4>1. QED BY <2>1, <2>2, <3>1, RefreshFacts
    <3>2. CASE n \notin targets[Reclassifier]
      <4>1. state'[n] = state[n]
        <5> HIDE DEF IInv, Eligible
        <5>1. QED BY <2>1, <3>2, RefreshFacts
      <4>2. QED BY <1>37, <2>2, <3>2, <4>1 DEF ReclassifyApply
    <3>3. QED BY <3>1, <3>2
  <2>3. MutexOK' /\ AttemptsOK' /\ HiddenAgrees'
    <3> HIDE DEF Eligible
    <3>1. QED BY <1>37, <2>1, RefreshFacts DEF ReclassifyApply
  <2>4. QED BY <2>2, <2>3
<1>38. ASSUME NEW p \in Procs, Rollback(p)
      PROVE  RowsOK'
  BY <1>38 DEF Rollback
<1>39. ASSUME NEW m \in Messages, GraceElapses(m)
      PROVE  RowsOK'
  BY <1>39 DEF GraceElapses
<1>40. ASSUME NEW m \in Messages, RetryElapses(m)
      PROVE  RowsOK'
  BY <1>40 DEF RetryElapses
<1>41. ASSUME NEW m \in Messages, NEW place \in UserPlaces, UserMoves(m, place)
      PROVE  RowsOK'
  BY <1>41 DEF UserMoves
<1>42. ASSUME Crash
      PROVE  RowsOK'
  BY <1>42 DEF Crash
<1>43. ASSUME NEW m \in Messages, CompleteUnread(m)
      PROVE  RowsOK'
  BY <1>43 DEF CompleteUnread
<1>44. ASSUME NEW m \in Messages, CountUnread(m)
      PROVE  RowsOK'
  BY <1>44 DEF CountUnread, CountAs
<1>45. ASSUME NEW m \in Messages, RecordUnwritten(m)
      PROVE  RowsOK'
  BY <1>45 DEF RecordUnwritten
<1> HIDE ProcsAssumption, AttemptsAssumption
<1> HIDE DEF IInv, Goto, Acquire, Release, Return, GraphMove, ForgetMove, RecordHolding,
           classification, message, action, mailbox, run, schedule, TypeOK, MutexOK,
           FlightOK, Checked, Visible, Procs, LockedSteps, MoveSteps, CommitSteps,
           AdminSteps, SchedulerSteps, SyncSteps, RowsOK, PlaceOK, MutexOK, Eligible,
           Classify, AttemptsOK, HiddenAgrees, CandidatesAreEligible
<1>46. QED
  BY <1>1, <1>2, <1>3, <1>4, <1>5, <1>6, <1>7, <1>8, <1>9, <1>10,
            <1>11, <1>12, <1>13, <1>14, <1>15, <1>16, <1>17, <1>18, <1>19,
            <1>20, <1>21, <1>22, <1>23, <1>24, <1>25, <1>26, <1>27, <1>28,
            <1>29, <1>30, <1>31, <1>32, <1>33, <1>34, <1>35, <1>36, <1>37,
            <1>38, <1>39, <1>40, <1>41, <1>42, <1>43, <1>44, <1>45
  DEF Next, Work, AdminStep, DatabaseStep, SchedulerStep, SyncStep, Environment

\* Every action keeps what handlers in progress rely on, and the agreement of the
\* database and the mailbox, the handlers without mutex included.
LEMMA PlaceStep == ASSUME IInv, Next PROVE PlaceOK'
<1> USE ProcsAssumption
<1> USE DEF IInv, Goto, Acquire, Release, Return, GraphMove, ForgetMove, RecordHolding,
           classification, message, action, mailbox, run, schedule, TypeOK, MutexOK,
           FlightOK, Checked, Moved, Visible, Procs, LockedSteps, MoveSteps,
           CommitSteps, AdminSteps, SchedulerSteps, SyncSteps, RowsOK, PlaceOK,
           HiddenAgrees, RemoteAgrees, InFlight, Folders
<1>1. ASSUME NEW p \in Admins, NEW m \in Messages, ApproveCleanup(p, m)
      PROVE  PlaceOK'
  BY <1>1 DEF ApproveCleanup, Approvable
<1>2. ASSUME NEW p \in Admins, NEW S \in SUBSET Messages, ApproveCleanupBatch(p, S)
      PROVE  PlaceOK'
  BY <1>2 DEF ApproveCleanupBatch, Approvable
<1>3. ASSUME NEW p \in Admins, ApproveMove(p)
      PROVE  PlaceOK'
  BY <1>3 DEF ApproveMove
<1>4. ASSUME NEW p \in Admins, ApproveCommit(p)
      PROVE  PlaceOK'
  BY <1>4 DEF ApproveCommit
<1>5. ASSUME NEW p \in Admins, BatchCommit(p)
      PROVE  PlaceOK'
  BY <1>5 DEF BatchCommit
<1>6. ASSUME NEW p \in Admins, BatchConflict(p)
      PROVE  PlaceOK'
  BY <1>6 DEF BatchConflict
<1>7. ASSUME NEW p \in Admins, NEW m \in Messages, RestoreCleanup(p, m)
      PROVE  PlaceOK'
  BY <1>7, OriginalType DEF RestoreCleanup, Restorable
<1>8. ASSUME NEW p \in Admins, RestoreMove(p)
      PROVE  PlaceOK'
  BY <1>8 DEF RestoreMove
<1>9. ASSUME NEW p \in Admins, RestoreCommit(p)
      PROVE  PlaceOK'
  BY <1>9 DEF RestoreCommit
<1>10. ASSUME NEW p \in Admins, NEW m \in Messages, MoveMessageToDeletedItems(p, m)
      PROVE  PlaceOK'
  BY <1>10 DEF MoveMessageToDeletedItems
<1>11. ASSUME NEW p \in Admins, TrashMove(p)
      PROVE  PlaceOK'
  BY <1>11 DEF TrashMove
<1>12. ASSUME NEW p \in Admins, TrashCommit(p)
      PROVE  PlaceOK'
  BY <1>12 DEF TrashCommit
<1>13. ASSUME NEW p \in Admins, NEW m \in Messages,
             NEW flag \in {"flagged", "unflagged"}, SetMessageFlagged(p, m, flag)
      PROVE  PlaceOK'
  BY <1>13 DEF SetMessageFlagged
<1>14. ASSUME NEW p \in Admins, FlagPatch(p)
      PROVE  PlaceOK'
  BY <1>14 DEF FlagPatch
<1>15. ASSUME NEW p \in Admins, FlagCommit(p)
      PROVE  PlaceOK'
  BY <1>15, RefreshFacts DEF FlagCommit
<1>16. ASSUME NEW m \in Messages, RetryCleanup(m)
      PROVE  PlaceOK'
  BY <1>16 DEF RetryCleanup
<1>17. ASSUME NEW m \in Messages, NEW v \in Verdicts, CorrectMessageCategory(m, v.category)
      PROVE  PlaceOK'
  <2>1. RefreshCandidates({m})
    BY <1>17 DEF CorrectMessageCategory
  <2>2. \A q \in Procs : \A n \in targets'[q] :
          n \in Messages /\ n \in targets[q]
    BY <1>17 DEF CorrectMessageCategory
  <2>3. ASSUME NEW q \in Procs, NEW n \in targets'[q]
        PROVE  Checked(q, n)' /\ (n \notin astray' => Moved(q, n)')
    <3>1. /\ state[n] \in {"holding", "deleted"} => state'[n] = state[n]
          /\ state'[n] \in {"holding", "failed", "restored", "deleted"} => state'[n] = state[n]
          /\ state[n] \in {"candidate", "dismissed"} => state'[n] \in {"candidate", "dismissed"}
          /\ state[n] = "failed" => state'[n] \in {"failed", "candidate", "dismissed"}
      BY <2>1, <2>2, RefreshFacts
    <3>2. QED BY <1>17, <2>2, <3>1 DEF CorrectMessageCategory
  <2>4. RemoteAgrees'
    BY <1>17, <2>1, RefreshFacts DEF CorrectMessageCategory
  <2>5. QED BY <1>17, <2>3, <2>4 DEF CorrectMessageCategory
<1>18. ASSUME SetAccountCleanupProtected
      PROVE  PlaceOK'
  <2>1. RefreshCandidates({m \in Messages : m \notin remoteDeleted})
    BY <1>18 DEF SetAccountCleanupProtected
  <2>2. \A q \in Procs : \A n \in targets'[q] :
          n \in Messages /\ n \in targets[q]
    BY <1>18 DEF SetAccountCleanupProtected
  <2>3. ASSUME NEW q \in Procs, NEW n \in targets'[q]
        PROVE  Checked(q, n)' /\ (n \notin astray' => Moved(q, n)')
    <3>1. /\ state[n] \in {"holding", "deleted"} => state'[n] = state[n]
          /\ state'[n] \in {"holding", "failed", "restored", "deleted"} => state'[n] = state[n]
          /\ state[n] \in {"candidate", "dismissed"} => state'[n] \in {"candidate", "dismissed"}
          /\ state[n] = "failed" => state'[n] \in {"failed", "candidate", "dismissed"}
      BY <2>1, <2>2, RefreshFacts
    <3>2. QED BY <1>18, <2>2, <3>1 DEF SetAccountCleanupProtected
  <2>4. RemoteAgrees'
    BY <1>18, <2>1, RefreshFacts DEF SetAccountCleanupProtected
  <2>5. QED BY <1>18, <2>3, <2>4 DEF SetAccountCleanupProtected
<1>19. ASSUME ProcessDueCleanup
      PROVE  PlaceOK'
  BY <1>19 DEF ProcessDueCleanup
<1>20. ASSUME NEW m \in Messages, CompleteCleanup(m)
      PROVE  PlaceOK'
  BY <1>20 DEF CompleteCleanup, Eligible
<1>21. ASSUME NEW m \in Messages, CompleteConflict(m)
      PROVE  PlaceOK'
  BY <1>21 DEF CompleteConflict
<1>22. ASSUME CleanBlock
      PROVE  PlaceOK'
  BY <1>22 DEF CleanBlock
<1>23. ASSUME CleanMove
      PROVE  PlaceOK'
  BY <1>23 DEF CleanMove
<1>24. ASSUME CleanCommit
      PROVE  PlaceOK'
  BY <1>24 DEF CleanCommit
<1>25. ASSUME CleanRollback
      PROVE  PlaceOK'
  BY <1>25 DEF CleanRollback
<1>26. ASSUME NEW m \in Messages, CountFailure(m)
      PROVE  PlaceOK'
  BY <1>26 DEF CountFailure, CountAs
<1>27. ASSUME NEW m \in Messages, RecordCleanupFailure(m)
      PROVE  PlaceOK'
  BY <1>27 DEF RecordCleanupFailure
<1>28. ASSUME SyncAccount
      PROVE  PlaceOK'
  BY <1>28 DEF SyncAccount
<1>29. ASSUME NEW m \in Messages, NEW f \in Folders, FetchEntry(m, f)
      PROVE  PlaceOK'
  BY <1>29 DEF FetchEntry
<1>30. ASSUME NEW m \in Messages,
             NEW flag \in BOOLEAN, NEW v \in Verdicts, ApplyPresent(m, flag, v)
      PROVE  PlaceOK'
  BY <1>30, RefreshFacts DEF ApplyPresent
<1>31. ASSUME NEW m \in Messages, ApplyRemoved(m)
      PROVE  PlaceOK'
  BY <1>31 DEF ApplyRemoved
<1>32. ASSUME RescueVerificationMessages
      PROVE  PlaceOK'
  BY <1>32 DEF RescueVerificationMessages
<1>33. ASSUME NEW m \in Messages, RescueMove(m)
      PROVE  PlaceOK'
  BY <1>33 DEF RescueMove
<1>34. ASSUME RescueCommit
      PROVE  PlaceOK'
  BY <1>34 DEF RescueCommit
<1>35. ASSUME SyncEnd
      PROVE  PlaceOK'
  BY <1>35 DEF SyncEnd
<1>36. ASSUME ReclassifyRead
      PROVE  PlaceOK'
  BY <1>36 DEF ReclassifyRead
<1>37. ASSUME ReclassifyApply
      PROVE  PlaceOK'
  <2>1. RefreshCandidates(targets[Reclassifier])
    BY <1>37 DEF ReclassifyApply
  <2>2. \A q \in Procs : \A n \in targets'[q] :
          n \in Messages /\ n \in targets[q]
    BY <1>37 DEF ReclassifyApply
  <2>3. ASSUME NEW q \in Procs, NEW n \in targets'[q]
        PROVE  Checked(q, n)' /\ (n \notin astray' => Moved(q, n)')
    <3>1. /\ state[n] \in {"holding", "deleted"} => state'[n] = state[n]
          /\ state'[n] \in {"holding", "failed", "restored", "deleted"} => state'[n] = state[n]
          /\ state[n] \in {"candidate", "dismissed"} => state'[n] \in {"candidate", "dismissed"}
          /\ state[n] = "failed" => state'[n] \in {"failed", "candidate", "dismissed"}
      BY <2>1, <2>2, RefreshFacts
    <3>2. QED BY <1>37, <2>2, <3>1 DEF ReclassifyApply
  <2>4. RemoteAgrees'
    BY <1>37, <2>1, RefreshFacts DEF ReclassifyApply
  <2>5. QED BY <1>37, <2>3, <2>4 DEF ReclassifyApply
<1>38. ASSUME NEW p \in Procs, Rollback(p)
      PROVE  PlaceOK'
  BY <1>38 DEF Rollback
<1>39. ASSUME NEW m \in Messages, GraceElapses(m)
      PROVE  PlaceOK'
  BY <1>39 DEF GraceElapses
<1>40. ASSUME NEW m \in Messages, RetryElapses(m)
      PROVE  PlaceOK'
  BY <1>40 DEF RetryElapses
<1>41. ASSUME NEW m \in Messages, NEW place \in UserPlaces, UserMoves(m, place)
      PROVE  PlaceOK'
  BY <1>41 DEF UserMoves
<1>42. ASSUME Crash
      PROVE  PlaceOK'
  BY <1>42 DEF Crash
<1>43. ASSUME NEW m \in Messages, CompleteUnread(m)
      PROVE  PlaceOK'
  BY <1>43 DEF CompleteUnread
<1>44. ASSUME NEW m \in Messages, CountUnread(m)
      PROVE  PlaceOK'
  BY <1>44 DEF CountUnread, CountAs
<1>45. ASSUME NEW m \in Messages, RecordUnwritten(m)
      PROVE  PlaceOK'
  BY <1>45 DEF RecordUnwritten
<1> HIDE ProcsAssumption
<1> HIDE DEF IInv, Goto, Acquire, Release, Return, GraphMove, ForgetMove, RecordHolding,
           classification, message, action, mailbox, run, schedule, TypeOK, MutexOK,
           FlightOK, Checked, Moved, Visible, Procs, LockedSteps, MoveSteps,
           CommitSteps, AdminSteps, SchedulerSteps, SyncSteps, RowsOK, PlaceOK,
           HiddenAgrees, RemoteAgrees, InFlight, Folders
<1>46. QED
  BY <1>1, <1>2, <1>3, <1>4, <1>5, <1>6, <1>7, <1>8, <1>9, <1>10,
            <1>11, <1>12, <1>13, <1>14, <1>15, <1>16, <1>17, <1>18, <1>19,
            <1>20, <1>21, <1>22, <1>23, <1>24, <1>25, <1>26, <1>27, <1>28,
            <1>29, <1>30, <1>31, <1>32, <1>33, <1>34, <1>35, <1>36, <1>37,
            <1>38, <1>39, <1>40, <1>41, <1>42, <1>43, <1>44, <1>45
  DEF Next, Work, AdminStep, DatabaseStep, SchedulerStep, SyncStep, Environment

\* No action breaks the four action properties where the invariant holds.
LEMMA StepIsSafe == ASSUME IInv, Next PROVE SafeStep
<1> USE ProcsAssumption
<1> USE DEF IInv, Goto, Acquire, Release, Return, GraphMove, ForgetMove, RecordHolding,
           classification, message, action, mailbox, run, schedule, TypeOK, MutexOK,
           FlightOK, Checked, Visible, Procs, LockedSteps, MoveSteps, CommitSteps,
           AdminSteps, SchedulerSteps, SyncSteps, RowsOK, PlaceOK, Moved, Classify,
           SafeStep, TrashedByScheduler
<1>1. ASSUME NEW p \in Admins, NEW m \in Messages, ApproveCleanup(p, m)
      PROVE  SafeStep
  BY <1>1 DEF ApproveCleanup
<1>2. ASSUME NEW p \in Admins, NEW S \in SUBSET Messages, ApproveCleanupBatch(p, S)
      PROVE  SafeStep
  BY <1>2 DEF ApproveCleanupBatch
<1>3. ASSUME NEW p \in Admins, ApproveMove(p)
      PROVE  SafeStep
  BY <1>3 DEF ApproveMove
<1>4. ASSUME NEW p \in Admins, ApproveCommit(p)
      PROVE  SafeStep
  BY <1>4 DEF ApproveCommit
<1>5. ASSUME NEW p \in Admins, BatchCommit(p)
      PROVE  SafeStep
  BY <1>5 DEF BatchCommit
<1>6. ASSUME NEW p \in Admins, BatchConflict(p)
      PROVE  SafeStep
  BY <1>6 DEF BatchConflict
<1>7. ASSUME NEW p \in Admins, NEW m \in Messages, RestoreCleanup(p, m)
      PROVE  SafeStep
  BY <1>7 DEF RestoreCleanup
<1>8. ASSUME NEW p \in Admins, RestoreMove(p)
      PROVE  SafeStep
  BY <1>8 DEF RestoreMove
<1>9. ASSUME NEW p \in Admins, RestoreCommit(p)
      PROVE  SafeStep
  BY <1>9 DEF RestoreCommit
<1>10. ASSUME NEW p \in Admins, NEW m \in Messages, MoveMessageToDeletedItems(p, m)
      PROVE  SafeStep
  BY <1>10 DEF MoveMessageToDeletedItems
<1>11. ASSUME NEW p \in Admins, TrashMove(p)
      PROVE  SafeStep
  BY <1>11 DEF TrashMove
<1>12. ASSUME NEW p \in Admins, TrashCommit(p)
      PROVE  SafeStep
  BY <1>12 DEF TrashCommit
<1>13. ASSUME NEW p \in Admins, NEW m \in Messages,
             NEW flag \in {"flagged", "unflagged"}, SetMessageFlagged(p, m, flag)
      PROVE  SafeStep
  BY <1>13 DEF SetMessageFlagged
<1>14. ASSUME NEW p \in Admins, FlagPatch(p)
      PROVE  SafeStep
  BY <1>14 DEF FlagPatch
<1>15. ASSUME NEW p \in Admins, FlagCommit(p)
      PROVE  SafeStep
  BY <1>15, RefreshFacts DEF FlagCommit
<1>16. ASSUME NEW m \in Messages, RetryCleanup(m)
      PROVE  SafeStep
  BY <1>16 DEF RetryCleanup
<1>17. ASSUME NEW m \in Messages, NEW v \in Verdicts, CorrectMessageCategory(m, v.category)
      PROVE  SafeStep
  BY <1>17, RefreshFacts DEF CorrectMessageCategory
<1>18. ASSUME SetAccountCleanupProtected
      PROVE  SafeStep
  BY <1>18, RefreshFacts DEF SetAccountCleanupProtected
<1>19. ASSUME ProcessDueCleanup
      PROVE  SafeStep
  BY <1>19 DEF ProcessDueCleanup
<1>20. ASSUME NEW m \in Messages, CompleteCleanup(m)
      PROVE  SafeStep
  BY <1>20 DEF CompleteCleanup
<1>21. ASSUME NEW m \in Messages, CompleteConflict(m)
      PROVE  SafeStep
  BY <1>21 DEF CompleteConflict
<1>22. ASSUME CleanBlock
      PROVE  SafeStep
  BY <1>22 DEF CleanBlock
<1>23. ASSUME CleanMove
      PROVE  SafeStep
  BY <1>23 DEF CleanMove
<1>24. ASSUME CleanCommit
      PROVE  SafeStep
  BY <1>24 DEF CleanCommit
<1>25. ASSUME CleanRollback
      PROVE  SafeStep
  BY <1>25 DEF CleanRollback
<1>26. ASSUME NEW m \in Messages, CountFailure(m)
      PROVE  SafeStep
  BY <1>26 DEF CountFailure, CountAs
<1>27. ASSUME NEW m \in Messages, RecordCleanupFailure(m)
      PROVE  SafeStep
  BY <1>27 DEF RecordCleanupFailure
<1>28. ASSUME SyncAccount
      PROVE  SafeStep
  BY <1>28 DEF SyncAccount
<1>29. ASSUME NEW m \in Messages, NEW f \in Folders, FetchEntry(m, f)
      PROVE  SafeStep
  BY <1>29 DEF FetchEntry
<1>30. ASSUME NEW m \in Messages,
             NEW flag \in BOOLEAN, NEW v \in Verdicts, ApplyPresent(m, flag, v)
      PROVE  SafeStep
  BY <1>30, RefreshFacts DEF ApplyPresent
<1>31. ASSUME NEW m \in Messages, ApplyRemoved(m)
      PROVE  SafeStep
  BY <1>31 DEF ApplyRemoved
<1>32. ASSUME RescueVerificationMessages
      PROVE  SafeStep
  BY <1>32 DEF RescueVerificationMessages
<1>33. ASSUME NEW m \in Messages, RescueMove(m)
      PROVE  SafeStep
  BY <1>33 DEF RescueMove
<1>34. ASSUME RescueCommit
      PROVE  SafeStep
  BY <1>34 DEF RescueCommit
<1>35. ASSUME SyncEnd
      PROVE  SafeStep
  BY <1>35 DEF SyncEnd
<1>36. ASSUME ReclassifyRead
      PROVE  SafeStep
  BY <1>36 DEF ReclassifyRead
<1>37. ASSUME ReclassifyApply
      PROVE  SafeStep
  BY <1>37, RefreshFacts DEF ReclassifyApply
<1>38. ASSUME NEW p \in Procs, Rollback(p)
      PROVE  SafeStep
  BY <1>38 DEF Rollback
<1>39. ASSUME NEW m \in Messages, GraceElapses(m)
      PROVE  SafeStep
  BY <1>39 DEF GraceElapses
<1>40. ASSUME NEW m \in Messages, RetryElapses(m)
      PROVE  SafeStep
  BY <1>40 DEF RetryElapses
<1>41. ASSUME NEW m \in Messages, NEW place \in UserPlaces, UserMoves(m, place)
      PROVE  SafeStep
  BY <1>41 DEF UserMoves
<1>42. ASSUME Crash
      PROVE  SafeStep
  BY <1>42 DEF Crash
<1>43. ASSUME NEW m \in Messages, CompleteUnread(m)
      PROVE  SafeStep
  BY <1>43 DEF CompleteUnread
<1>44. ASSUME NEW m \in Messages, CountUnread(m)
      PROVE  SafeStep
  BY <1>44 DEF CountUnread, CountAs
<1>45. ASSUME NEW m \in Messages, RecordUnwritten(m)
      PROVE  SafeStep
  BY <1>45 DEF RecordUnwritten
<1> HIDE ProcsAssumption
<1> HIDE DEF IInv, Goto, Acquire, Release, Return, GraphMove, ForgetMove, RecordHolding,
           classification, message, action, mailbox, run, schedule, TypeOK, MutexOK,
           FlightOK, Checked, Visible, Procs, LockedSteps, MoveSteps, CommitSteps,
           AdminSteps, SchedulerSteps, SyncSteps, RowsOK, PlaceOK, Moved, Classify,
           SafeStep, TrashedByScheduler
<1>46. QED
  BY <1>1, <1>2, <1>3, <1>4, <1>5, <1>6, <1>7, <1>8, <1>9, <1>10,
            <1>11, <1>12, <1>13, <1>14, <1>15, <1>16, <1>17, <1>18, <1>19,
            <1>20, <1>21, <1>22, <1>23, <1>24, <1>25, <1>26, <1>27, <1>28,
            <1>29, <1>30, <1>31, <1>32, <1>33, <1>34, <1>35, <1>36, <1>37,
            <1>38, <1>39, <1>40, <1>41, <1>42, <1>43, <1>44, <1>45
  DEF Next, Work, AdminStep, DatabaseStep, SchedulerStep, SyncStep, Environment

------------------------------------------------------------------------------
(* The clean-up keeps its promise: every action lets each message take one of *)
(* the promised steps.                                                        *)

\* What the promise lets a message do.
Promised(m) ==
  \/ Promise!Ask(m)
  \/ /\ Promise!Asks(m)
     /\ Promise!Rest(m) \/ Promise!Evaluate(m) \/ Promise!Block(m) \/ Promise!Retry(m)
  \/ /\ AskedOf(m)' = "nothing"
     /\ \/ Promise!Approve(m) \/ Promise!Strand(m) \/ Promise!Restore(m)
        \/ Promise!Complete(m) \/ Promise!Discard(m)

\* The row and the place of a message stay as they are.
Unmoved(m) == state'[m] = state[m] /\ (m \in hidden' <=> m \in hidden)
\* A request stays or ends.
AsksOn(m) == AskedOf(m)' \in {AskedOf(m), "nothing"}

\* The stages by the state of the row, before and after a step.
LEMMA StageFacts ==
  ASSUME NEW m
  PROVE  /\ state[m] = "candidate" => StageOf(m) = "proposed"
         /\ state[m] = "holding" => StageOf(m) = "held"
         /\ state[m] = "failed" => StageOf(m) = "blocked"
         /\ state[m] = "deleted" => StageOf(m) = "gone"
         /\ state[m] \in {"none", "dismissed", "restored"} =>
              StageOf(m) = IF m \in hidden THEN "lost" ELSE "open"
         /\ state'[m] = "candidate" => StageOf(m)' = "proposed"
         /\ state'[m] = "holding" => StageOf(m)' = "held"
         /\ state'[m] = "failed" => StageOf(m)' = "blocked"
         /\ state'[m] = "deleted" => StageOf(m)' = "gone"
         /\ state'[m] \in {"none", "dismissed", "restored"} =>
              StageOf(m)' = IF m \in hidden' THEN "lost" ELSE "open"
BY DEF StageOf

\* An unmoved message keeps its stage.
LEMMA StageKept == ASSUME NEW m, Unmoved(m) PROVE StageOf(m)' = StageOf(m)
BY DEF Unmoved, StageOf

\* Nothing is asked for while the mutex is not an administrator's.
LEMMA NotAsked ==
  /\ \A m : lock \notin Admins => AskedOf(m) = "nothing"
  /\ \A m : lock' \notin Admins => AskedOf(m)' = "nothing"
BY DEF AskedOf

\* A request stands while the holder of the mutex stays where it is.
LEMMA AskedStays ==
  ASSUME NEW m, lock' = lock,
         lock \in Admins => pc'[lock] = pc[lock] /\ targets'[lock] = targets[lock]
  PROVE  AskedOf(m)' = AskedOf(m)
BY DEF AskedOf

\* The holder of the mutex is an administrator at a step that was asked for.
LEMMA AskedFacts ==
  ASSUME MutexOK, NEW p \in Admins, NEW m, pc[p] \in LockedSteps, m \in targets[p]
  PROVE  lock = p /\ AskedOf(m) = AskedBy(pc[p])
BY DEF MutexOK, AskedOf, Procs

\* An unmoved message whose request stays or ends rests.
LEMMA Resting ==
  ASSUME NEW m \in Messages, Unmoved(m), AsksOn(m)
  PROVE  Promised(m)
<1>1. Promise!Rest(m)
  BY StageKept DEF Unmoved, Promise!Rest, Promise!Keeps
<1>2. Promise!Asks(m)
  BY DEF AsksOn, Promise!Asks
<1> QED BY <1>1, <1>2 DEF Promised

\* A re-evaluation moves rows between open, proposed and lost, and hides nothing.
LEMMA Evaluating ==
  ASSUME TypeOK, HiddenAgrees, NEW S, RefreshCandidates(S), hidden' = hidden,
         NEW m \in Messages, AsksOn(m)
  PROVE  Promised(m)
<1>1. CASE state'[m] = state[m]
  BY <1>1, Resting DEF Unmoved
<1>2. CASE state'[m] # state[m]
  <2>1. /\ state[m] \in {"none", "candidate", "dismissed", "restored", "failed"}
        /\ state'[m] \in {"candidate", "dismissed"}
    BY <1>2 DEF RefreshCandidates, Refreshed
  <2>2. state[m] = "failed" => m \in hidden
    BY DEF HiddenAgrees
  <2>3. \/ m \notin hidden /\ Promise!Goes(m, {"open", "proposed"}, {"open", "proposed"})
        \/ m \in hidden /\ Promise!Goes(m, {"proposed", "blocked", "lost"}, {"proposed", "lost"})
    BY <2>1, <2>2, StageFacts DEF Promise!Goes
  <2>4. Promise!Evaluate(m)
    BY <2>3 DEF Promise!Evaluate, Promise!Keeps
  <2>5. Promise!Asks(m)
    BY DEF AsksOn, Promise!Asks
  <2> QED BY <2>4, <2>5 DEF Promised
<1> QED BY <1>1, <1>2

------------------------------------------------------------------------------
(* The actions that leave the rows and the inbox view alone.                 *)

Requesting(p) ==
  \/ \E m \in Messages : ApproveCleanup(p, m) \/ RestoreCleanup(p, m) \/ MoveMessageToDeletedItems(p, m)
  \/ \E S \in SUBSET Messages : ApproveCleanupBatch(p, S)

Quiet(p) ==
  \/ \E m \in Messages : \E flag \in {"flagged", "unflagged"} : SetMessageFlagged(p, m, flag)
  \/ ApproveMove(p) \/ BatchConflict(p) \/ RestoreMove(p) \/ TrashMove(p) \/ FlagPatch(p)

QuietScheduler ==
  \/ ProcessDueCleanup \/ CleanMove \/ CleanRollback
  \/ \E m \in Messages : \/ CompleteCleanup(m) \/ CompleteConflict(m) \/ CompleteUnread(m)
                         \/ CountFailure(m) \/ CountUnread(m) \/ RecordUnwritten(m)

QuietSync ==
  \/ SyncAccount \/ RescueVerificationMessages \/ RescueCommit \/ SyncEnd \/ ReclassifyRead
  \/ \E m \in Messages : \E f \in Folders : FetchEntry(m, f)
  \/ \E m \in Messages : ApplyRemoved(m) \/ RescueMove(m)

LEMMA QuietSteps ==
  ASSUME \/ \E p \in Admins : Requesting(p) \/ Quiet(p)
         \/ QuietScheduler \/ QuietSync \/ Environment \/ Crash
  PROVE  state' = state /\ hidden' = hidden
<1> USE DEF message, action
<1>1. CASE \E p \in Admins : Requesting(p) \/ Quiet(p)
  BY <1>1 DEF Requesting, Quiet, ApproveCleanup, RestoreCleanup, MoveMessageToDeletedItems,
     SetMessageFlagged, ApproveCleanupBatch, ApproveMove, BatchConflict, RestoreMove, TrashMove,
     FlagPatch
<1>2. CASE QuietScheduler
  BY <1>2 DEF QuietScheduler, ProcessDueCleanup, CleanMove, CleanRollback, CompleteCleanup,
     CompleteConflict, CompleteUnread, CountFailure, CountUnread, CountAs, RecordUnwritten
<1>3. CASE QuietSync
  BY <1>3 DEF QuietSync, SyncAccount, RescueVerificationMessages, RescueCommit, SyncEnd,
     ReclassifyRead, FetchEntry, ApplyRemoved, RescueMove
<1>4. CASE Environment
  BY <1>4 DEF Environment, Rollback, GraceElapses, RetryElapses, UserMoves
<1>5. CASE Crash
  BY <1>5 DEF Crash
<1> QED BY <1>1, <1>2, <1>3, <1>4, <1>5

\* A request is made for what the stage and the place of its messages allow.
LEMMA RequestIsAllowed ==
  ASSUME IInv, NEW p \in Admins, Requesting(p), NEW m \in Messages
  PROVE  Promised(m)
<1> USE ProcsAssumption DEF IInv, RowsOK, TypeOK, Procs, Acquire, Goto
<1>1. Unmoved(m) /\ lock = NoProc /\ lock' = p /\ AskedOf(m) = "nothing"
  <2>1. Unmoved(m)
    BY QuietSteps DEF Unmoved
  <2>2. lock = NoProc /\ lock' = p
    BY DEF Requesting, ApproveCleanup, ApproveCleanupBatch, RestoreCleanup, MoveMessageToDeletedItems
  <2>3. lock \notin Admins
    BY <2>2
  <2> QED BY <2>1, <2>2, <2>3, NotAsked
<1>2. Promise!Rest(m)
  BY <1>1, StageKept DEF Unmoved, Promise!Rest, Promise!Keeps
<1>3. CASE m \notin targets'[p]
  <2>1. AskedOf(m)' = "nothing"
    BY <1>1, <1>3 DEF AskedOf
  <2> QED BY <1>1, <2>1, Resting DEF AsksOn
<1>4. CASE m \in targets'[p]
  <2>1. AskedOf(m)' = AskedBy(pc'[p])
    BY <1>1, <1>4 DEF AskedOf
  <2>2. \/ AskedOf(m)' = "approval" /\ state[m] = "candidate"
        \/ AskedOf(m)' = "deletion" /\ m \notin hidden
        \/ AskedOf(m)' = "restoration" /\ state[m] \in {"holding", "failed"}
    <3>1. CASE \E n \in Messages : ApproveCleanup(p, n)
      <4>1. pc'[p] = "approve.move" /\ state[m] = "candidate"
        BY <3>1, <1>4 DEF ApproveCleanup, Approvable
      <4> QED BY <2>1, <4>1 DEF AskedBy
    <3>2. CASE \E S \in SUBSET Messages : ApproveCleanupBatch(p, S)
      <4>1. pc'[p] = "batch.move" /\ state[m] = "candidate"
        BY <3>2, <1>4 DEF ApproveCleanupBatch, Approvable
      <4> QED BY <2>1, <4>1 DEF AskedBy
    <3>3. CASE \E n \in Messages : RestoreCleanup(p, n)
      <4>1. pc'[p] = "restore.move" /\ state[m] \in {"holding", "failed"}
        BY <3>3, <1>4 DEF RestoreCleanup, Restorable
      <4> QED BY <2>1, <4>1 DEF AskedBy
    <3>4. CASE \E n \in Messages : MoveMessageToDeletedItems(p, n)
      <4>1. pc'[p] = "trash.move" /\ m \notin hidden
        BY <3>4, <1>4 DEF MoveMessageToDeletedItems, Visible
      <4> QED BY <2>1, <4>1 DEF AskedBy
    <3> QED BY <3>1, <3>2, <3>3, <3>4 DEF Requesting
  <2>3. Promise!Ask(m)
    BY <1>1, <1>2, <2>2, StageFacts DEF Promise!Ask
  <2> QED BY <2>3 DEF Promised
<1> QED BY <1>3, <1>4

\* The administrators' steps that only call Graph keep a request or give it up.
LEMMA QuietRequests ==
  ASSUME IInv, NEW p \in Admins, Quiet(p), NEW m \in Messages
  PROVE  Promised(m)
<1> USE ProcsAssumption DEF IInv, RowsOK, TypeOK, Procs, Acquire, Release, Return, Goto
<1>1. Unmoved(m)
  BY QuietSteps DEF Unmoved
<1>2. CASE \E n \in Messages : \E flag \in {"flagged", "unflagged"} : SetMessageFlagged(p, n, flag)
  <2>1. lock' = lock /\ lock # p
    BY <1>2 DEF SetMessageFlagged, MutexOK, LockedSteps, MoveSteps, CommitSteps
  <2>2. \A q \in Procs : q # p => pc'[q] = pc[q] /\ targets'[q] = targets[q]
    BY <1>2 DEF SetMessageFlagged
  <2>3. AskedOf(m)' = AskedOf(m)
    BY <2>1, <2>2, AskedStays
  <2> QED BY <1>1, <2>3, Resting DEF AsksOn
<1>3. CASE FlagPatch(p)
  <2>1. \/ lock' = NoProc
        \/ lock' = p /\ pc'[p] = "flag.commit"
    BY <1>3 DEF FlagPatch
  <2>2. AskedOf(m)' = "nothing"
    BY <2>1 DEF AskedOf, AskedBy
  <2> QED BY <1>1, <2>2, Resting DEF AsksOn
<1>4. CASE ApproveMove(p) \/ BatchConflict(p) \/ RestoreMove(p) \/ TrashMove(p)
  <2>1. pc[p] \in {"approve.move", "batch.move", "batch.commit", "restore.move", "trash.move"}
    BY <1>4 DEF ApproveMove, BatchConflict, RestoreMove, TrashMove
  <2>2. lock = p
    BY <2>1 DEF MutexOK, LockedSteps, MoveSteps, CommitSteps
  <2>3. \/ lock' = NoProc
        \/ /\ lock' = p /\ targets'[p] \subseteq targets[p]
           /\ AskedBy(pc'[p]) = AskedBy(pc[p])
    BY <1>4, <2>2 DEF ApproveMove, BatchConflict, RestoreMove, TrashMove, AskedBy
  <2>4. AsksOn(m)
    BY <2>2, <2>3 DEF AsksOn, AskedOf
  <2> QED BY <1>1, <2>4, Resting
<1> QED BY <1>2, <1>3, <1>4 DEF Quiet

\* A step of the scheduler that frees or takes the mutex, or leaves it alone, leaves
\* the administrators' requests alone.
LEMMA SchedulerAsksOn ==
  ASSUME IInv, NEW m,
         \/ QuietScheduler \/ CleanBlock \/ CleanCommit
         \/ \E n \in Messages : RecordCleanupFailure(n)
  PROVE  AsksOn(m)
<1> USE ProcsAssumption DEF IInv, RowsOK, TypeOK, Procs, Acquire, Release, Return, Goto
<1>1. \A q \in Admins : pc'[q] = pc[q] /\ targets'[q] = targets[q]
  BY DEF QuietScheduler, ProcessDueCleanup, CleanMove, CleanRollback, CompleteCleanup,
     CompleteConflict, CompleteUnread, CountFailure, CountUnread, CountAs, RecordUnwritten,
     CleanBlock, CleanCommit, RecordCleanupFailure, run
<1>2. lock' = lock \/ lock' \notin Admins
  BY DEF QuietScheduler, ProcessDueCleanup, CleanMove, CleanRollback, CompleteCleanup,
     CompleteConflict, CompleteUnread, CountFailure, CountUnread, CountAs, RecordUnwritten,
     CleanBlock, CleanCommit, RecordCleanupFailure, run
<1> QED BY <1>1, <1>2, AskedStays, NotAsked DEF AsksOn

\* So does one of the sync worker or of the reclassification.
LEMMA SyncAsksOn ==
  ASSUME IInv, NEW m,
         \/ QuietSync \/ ReclassifyApply
         \/ \E n \in Messages : \E flag \in BOOLEAN : \E v \in Verdicts : ApplyPresent(n, flag, v)
  PROVE  AsksOn(m)
<1> USE ProcsAssumption DEF IInv, RowsOK, TypeOK, Procs, Acquire, Release, Return, Goto
<1>1. \A q \in Admins : pc'[q] = pc[q] /\ targets'[q] = targets[q]
  BY DEF QuietSync, SyncAccount, RescueVerificationMessages, RescueCommit, SyncEnd, ReclassifyRead,
     FetchEntry, ApplyRemoved, RescueMove, ReclassifyApply, ApplyPresent
<1>2. lock' = lock \/ lock' \notin Admins
  BY DEF QuietSync, SyncAccount, RescueVerificationMessages, RescueCommit, SyncEnd, ReclassifyRead,
     FetchEntry, ApplyRemoved, RescueMove, ReclassifyApply, ApplyPresent
<1> QED BY <1>1, <1>2, AskedStays, NotAsked DEF AsksOn

\* A failed transaction and a crash give requests up; time and the owner do not touch them.
LEMMA EnvironmentAsksOn ==
  ASSUME IInv, Environment \/ Crash, NEW m
  PROVE  AsksOn(m)
<1> USE ProcsAssumption DEF IInv, RowsOK, TypeOK, Procs
<1>1. CASE Crash
  BY <1>1, NotAsked DEF Crash, AsksOn
<1>2. CASE \E p \in Procs : Rollback(p)
  BY <1>2, NotAsked DEF Rollback, Return, Release, AsksOn
<1>3. CASE run' = run
  BY <1>3, AskedStays DEF run, AsksOn
<1> QED BY <1>1, <1>2, <1>3 DEF Environment, GraceElapses, RetryElapses, UserMoves, run

------------------------------------------------------------------------------
(* The actions that change a row or the inbox view.                          *)

\* Approvals, restorations and deletions by hand, as they are recorded.
LEMMA Deciding ==
  ASSUME IInv, NEW p \in Admins, NEW m \in Messages,
         ApproveCommit(p) \/ BatchCommit(p) \/ RestoreCommit(p) \/ TrashCommit(p)
  PROVE  Promised(m)
<1>1. /\ p \in Procs /\ targets[p] \subseteq Messages
      /\ \A n \in targets[p] : Checked(p, n)
      /\ HiddenAgrees /\ state \in [Messages -> States] /\ MutexOK
  BY DEF IInv, RowsOK, PlaceOK, FlightOK, TypeOK, Procs
<1>2. AskedOf(m)' = "nothing"
  <2>1. lock' = NoProc
    BY DEF ApproveCommit, BatchCommit, RestoreCommit, TrashCommit, Return, Release
  <2> QED BY <2>1, ProcsAssumption, NotAsked DEF Procs
<1>3. m \in targets[p] => AskedOf(m) = AskedBy(pc[p])
  BY <1>1, AskedFacts DEF ApproveCommit, BatchCommit, RestoreCommit, TrashCommit, LockedSteps,
     CommitSteps
<1>4. CASE m \notin targets[p]
  <2>1. Unmoved(m)
    BY <1>4 DEF ApproveCommit, BatchCommit, RestoreCommit, TrashCommit, RecordHolding, Unmoved
  <2> QED BY <1>2, <2>1, Resting DEF AsksOn
<1>5. CASE m \in targets[p] /\ (ApproveCommit(p) \/ BatchCommit(p))
  <2>1. m \in hidden'
    BY <1>5 DEF ApproveCommit, BatchCommit, RecordHolding
  <2>2. state[m] \in {"candidate", "dismissed"}
    BY <1>1, <1>5 DEF ApproveCommit, BatchCommit, Checked
  <2>3. AskedOf(m) = "approval"
    BY <1>3, <1>5 DEF ApproveCommit, BatchCommit, AskedBy
  <2>4. CASE state[m] = "candidate"
    <3>1. state'[m] = "holding"
      BY <1>1, <1>5, <2>4 DEF ApproveCommit, BatchCommit, RecordHolding
    <3>2. Promise!Approve(m)
      BY <2>1, <2>3, <2>4, <3>1, StageFacts DEF Promise!Approve, Promise!Goes
    <3> QED BY <1>2, <3>2 DEF Promised
  <2>5. CASE state[m] = "dismissed"
    <3>1. state'[m] = "dismissed"
      BY <1>1, <1>5, <2>5 DEF ApproveCommit, BatchCommit, RecordHolding
    <3>2. CASE m \in hidden
      BY <1>2, <2>1, <2>5, <3>1, <3>2, Resting DEF Unmoved, AsksOn
    <3>3. CASE m \notin hidden
      <4>1. Promise!Strand(m)
        BY <2>1, <2>3, <2>5, <3>1, <3>3, StageFacts
        DEF Promise!Strand, Promise!Goes, Promise!Leaves
      <4> QED BY <1>2, <4>1 DEF Promised
    <3> QED BY <3>2, <3>3
  <2> QED BY <2>2, <2>4, <2>5
<1>6. CASE m \in targets[p] /\ RestoreCommit(p)
  <2>1. m \notin hidden' /\ state'[m] = "restored"
    BY <1>1, <1>6 DEF RestoreCommit
  <2>2. state[m] \in {"holding", "failed", "candidate", "dismissed"}
    BY <1>1, <1>6 DEF RestoreCommit, Checked
  <2>3. AskedOf(m) = "restoration"
    BY <1>3, <1>6 DEF RestoreCommit, AskedBy
  <2>4. CASE state[m] = "dismissed" /\ m \notin hidden
    <3>1. StageOf(m)' = StageOf(m)
      BY <2>1, <2>4, StageFacts
    <3>2. Promise!Rest(m) /\ Promise!Asks(m)
      BY <1>2, <2>1, <2>4, <3>1 DEF Promise!Rest, Promise!Keeps, Promise!Asks
    <3> QED BY <3>2 DEF Promised
  <2>5. CASE ~(state[m] = "dismissed" /\ m \notin hidden)
    <3>1. Promise!Restore(m)
      BY <2>1, <2>2, <2>3, <2>5, StageFacts DEF Promise!Restore, Promise!Goes
    <3> QED BY <1>2, <3>1 DEF Promised
  <2> QED BY <2>4, <2>5
<1>7. CASE m \in targets[p] /\ TrashCommit(p)
  <2>1. m \notin hidden /\ m \in hidden'
    BY <1>1, <1>7 DEF TrashCommit, Visible
  <2>2. state[m] \in {"none", "candidate", "dismissed", "restored"}
    BY <1>1, <2>1 DEF HiddenAgrees, States
  <2>3. state'[m] = IF state[m] = "none" THEN "none" ELSE "deleted"
    BY <1>1, <1>7, <2>2 DEF TrashCommit
  <2>4. \/ Promise!Goes(m, {"open", "proposed"}, {"gone"})
        \/ Promise!Goes(m, {"open"}, {"lost"})
    BY <2>1, <2>2, <2>3, StageFacts DEF Promise!Goes
  <2>5. AskedOf(m) = "deletion"
    BY <1>3, <1>7 DEF TrashCommit, AskedBy
  <2>6. Promise!Discard(m)
    BY <2>1, <2>4, <2>5 DEF Promise!Discard, Promise!Leaves
  <2> QED BY <1>2, <2>6 DEF Promised
<1> QED BY <1>4, <1>5, <1>6, <1>7

\* The scheduler's records.
LEMMA Cleaning ==
  ASSUME IInv, NEW m \in Messages,
         \/ CleanBlock \/ CleanCommit
         \/ \E n \in Messages : RecordCleanupFailure(n)
  PROVE  Promised(m)
<1>1. /\ \A n \in targets[Scheduler] : Checked(Scheduler, n)
      /\ HiddenAgrees /\ state \in [Messages -> States]
  BY DEF IInv, RowsOK, PlaceOK, FlightOK, TypeOK, Procs
<1>2. AsksOn(m)
  BY SchedulerAsksOn
<1>3. CASE state'[m] = state[m]
  <2>1. m \in hidden' <=> m \in hidden
    <3>1. CASE CleanCommit
      <4>1. \A n \in targets[Scheduler] : state[n] = "holding"
        BY <1>1, <3>1 DEF CleanCommit, Checked
      <4>2. m \notin targets[Scheduler]
        BY <1>1, <1>3, <3>1, <4>1 DEF CleanCommit
      <4> QED BY <3>1, <4>2 DEF CleanCommit
    <3>2. CASE ~CleanCommit
      BY <3>2 DEF CleanBlock, RecordCleanupFailure, message
    <3> QED BY <3>1, <3>2
  <2> QED BY <1>2, <1>3, <2>1, Resting DEF Unmoved
<1>4. CASE state'[m] # state[m] /\ CleanCommit
  <2>1. state[m] = "holding" /\ state'[m] = "deleted"
    BY <1>4 DEF CleanCommit
  <2>2. m \in hidden /\ m \in hidden'
    BY <1>1, <1>4, <2>1 DEF CleanCommit, HiddenAgrees
  <2>3. AskedOf(m) = "nothing"
    <3>1. lock = Scheduler
      BY <1>4 DEF CleanCommit, IInv, RowsOK, MutexOK, LockedSteps, CommitSteps, Procs
    <3> QED BY <3>1, ProcsAssumption, NotAsked
  <2>4. Promise!Complete(m)
    BY <2>1, <2>2, <2>3, StageFacts DEF Promise!Complete, Promise!Goes, Promise!Keeps
  <2>5. AskedOf(m)' = "nothing"
    BY <1>2, <2>3 DEF AsksOn
  <2> QED BY <2>4, <2>5 DEF Promised
<1>5. CASE state'[m] # state[m] /\ ~CleanCommit
  <2>1. hidden' = hidden
    BY <1>5 DEF CleanBlock, RecordCleanupFailure, message
  <2>2. state[m] = "holding" /\ state'[m] = "failed"
    BY <1>1, <1>5 DEF CleanBlock, RecordCleanupFailure
  <2>3. Promise!Block(m)
    BY <2>1, <2>2, StageFacts DEF Promise!Block, Promise!Goes, Promise!Keeps
  <2> QED BY <1>2, <2>3 DEF Promised, AsksOn, Promise!Asks
<1> QED BY <1>3, <1>4, <1>5

\* An administrator's request to try again needs no mutex.
LEMMA Retrying ==
  ASSUME IInv, NEW m \in Messages, NEW n \in Messages, RetryCleanup(n)
  PROVE  Promised(m)
<1>1. hidden' = hidden /\ AskedOf(m)' = AskedOf(m)
  BY AskedStays DEF RetryCleanup, message, run
<1>2. CASE m # n
  BY <1>1, <1>2, Resting DEF RetryCleanup, Unmoved, AsksOn, IInv, TypeOK
<1>3. CASE m = n
  <2>1. state[m] = "failed" /\ state'[m] = "holding"
    BY <1>3 DEF RetryCleanup, IInv, TypeOK
  <2>2. Promise!Retry(m)
    BY <1>1, <2>1, StageFacts DEF Promise!Retry, Promise!Goes, Promise!Keeps
  <2> QED BY <1>1, <2>2 DEF Promised, Promise!Asks
<1> QED BY <1>2, <1>3

\* Every action, for every message.
LEMMA StepIsPromised ==
  ASSUME IInv, Next, NEW m \in Messages
  PROVE  Promised(m)
<1>1. TypeOK /\ HiddenAgrees
  BY DEF IInv, RowsOK
<1>2. CASE \E p \in Admins : Requesting(p)
  BY <1>2, RequestIsAllowed
<1>3. CASE \E p \in Admins : Quiet(p)
  BY <1>3, QuietRequests
<1>4. CASE QuietScheduler \/ QuietSync \/ Environment \/ Crash
  <2>1. Unmoved(m)
    BY <1>4, QuietSteps DEF Unmoved
  <2>2. AsksOn(m)
    BY <1>4, SchedulerAsksOn, SyncAsksOn, EnvironmentAsksOn
  <2> QED BY <2>1, <2>2, Resting
<1>5. CASE \E p \in Admins : ApproveCommit(p) \/ BatchCommit(p) \/ RestoreCommit(p) \/ TrashCommit(p)
  BY <1>5, Deciding
<1>6. CASE \/ CleanBlock \/ CleanCommit
           \/ \E n \in Messages : RecordCleanupFailure(n)
  BY <1>6, Cleaning
<1>7. CASE \E n \in Messages : RetryCleanup(n)
  BY <1>7, Retrying
<1>8. ASSUME NEW p \in Admins, FlagCommit(p)
      PROVE  Promised(m)
  <2>1. lock' \notin Admins
    BY <1>8, ProcsAssumption DEF FlagCommit, Return, Release, Procs
  <2> QED BY <1>1, <1>8, <2>1, Evaluating, NotAsked DEF FlagCommit, message, AsksOn
<1>9. ASSUME NEW n \in Messages, NEW v \in Verdicts, CorrectMessageCategory(n, v.category)
      PROVE  Promised(m)
  <2>1. AsksOn(m)
    BY <1>9, AskedStays DEF CorrectMessageCategory, run, AsksOn
  <2> QED BY <1>1, <1>9, <2>1, Evaluating DEF CorrectMessageCategory, message
<1>10. CASE SetAccountCleanupProtected
  <2>1. AsksOn(m)
    BY <1>10, AskedStays DEF SetAccountCleanupProtected, run, AsksOn
  <2> QED BY <1>1, <1>10, <2>1, Evaluating DEF SetAccountCleanupProtected, message
<1>11. ASSUME NEW n \in Messages, NEW flag \in BOOLEAN, NEW v \in Verdicts, ApplyPresent(n, flag, v)
      PROVE  Promised(m)
  <2>1. AsksOn(m)
    BY <1>11, SyncAsksOn
  <2> QED BY <1>1, <1>11, <2>1, Evaluating DEF ApplyPresent
<1>12. CASE ReclassifyApply
  <2>1. AsksOn(m)
    BY <1>12, SyncAsksOn
  <2> QED BY <1>1, <1>12, <2>1, Evaluating DEF ReclassifyApply, message
<1> QED
  BY <1>2, <1>3, <1>4, <1>5, <1>6, <1>7, <1>8, <1>9, <1>10, <1>11, <1>12
  DEF Next, Work, AdminStep, DatabaseStep, SchedulerStep, SyncStep, Requesting, Quiet,
      QuietScheduler, QuietSync

\* The account after its first synchronisation has mail open or proposed, all in view.
LEMMA InitPromise == Init => Promise!Init
<1> SUFFICES ASSUME Init PROVE Promise!Init
  OBVIOUS
<1>1. \A m \in Messages : state[m] \in {"none", "candidate"} /\ m \notin hidden
  BY DEF Init, Refreshed
<1>2. [m \in Messages |-> StageOf(m)] \in [Messages -> {"open", "proposed"}]
  BY <1>1, StageFacts
<1>3. \A m \in Messages : AskedOf(m) = "nothing"
  BY ProcsAssumption, NotAsked DEF Init, Procs
<1> QED BY <1>2, <1>3 DEF Init, Promise!Init

\* Stages and requests stay in range.
LEMMA PromiseTypes ==
  ASSUME TypeOK'
  PROVE  /\ [m \in Messages |-> StageOf(m)'] \in [Messages -> Promise!Stages]
         /\ [m \in Messages |-> AskedOf(m)'] \in [Messages -> Promise!Requests]
<1>1. ASSUME NEW m \in Messages PROVE StageOf(m)' \in Promise!Stages
  BY StageFacts DEF TypeOK, States, Promise!Stages
<1>2. ASSUME NEW m \in Messages PROVE AskedOf(m)' \in Promise!Requests
  BY DEF AskedOf, AskedBy, Promise!Requests
<1> QED BY <1>1, <1>2

\* A step of the clean-up is a step or a stutter of the promise.
LEMMA PromiseStep == IInv /\ [Next]_vars => [Promise!Next]_(Promise!promiseVars)
<1> SUFFICES ASSUME IInv, [Next]_vars PROVE [Promise!Next]_(Promise!promiseVars)
  OBVIOUS
<1>1. CASE UNCHANGED vars
  <2>1. \A m \in Messages : StageOf(m)' = StageOf(m) /\ AskedOf(m)' = AskedOf(m)
    BY <1>1 DEF vars, StageOf, AskedOf
  <2> QED BY <1>1, <2>1 DEF vars, Promise!promiseVars
<1>2. CASE Next
  <2>1. TypeOK'
    BY <1>2, TypeStep
  <2>2. /\ [m \in Messages |-> StageOf(m)]' \in [Messages -> Promise!Stages]
        /\ [m \in Messages |-> AskedOf(m)]' \in [Messages -> Promise!Requests]
    BY <2>1, PromiseTypes
  <2>3. \A m \in Messages : Promised(m)
    BY <1>2, StepIsPromised
  <2> QED BY <2>2, <2>3 DEF Promise!Next, Promised
<1> QED BY <1>1, <1>2

------------------------------------------------------------------------------
(* The theorems.                                                             *)

\* The account as it is after its first synchronisation satisfies the invariant.
LEMMA InitIInv == Init => IInv
<1> SUFFICES ASSUME Init PROVE IInv
  OBVIOUS
<1> USE VerdictsAssumption, ProcsAssumption, AttemptsAssumption
<1>1. TypeOK
  <2>1. state \in [Messages -> States]
    BY DEF Init, Refreshed, States
  <2>2. category \in [Messages -> Categories] /\ ruleProtected \subseteq Messages
    BY DEF Init
  <2>3. remote \in [Messages -> Places] /\ folder \in [Messages -> Folders]
    BY DEF Init, Places
  <2>4. /\ attempts \in [Messages -> 0 .. MaxAttempts]
        /\ counted \in 0 .. MaxAttempts
    BY DEF Init
  <2>5. QED
    BY <2>1, <2>2, <2>3, <2>4 DEF Init, TypeOK, Folders, Places, Procs, FreeSteps, Args
<1>2. MutexOK
  BY DEF Init, MutexOK, Procs, LockedSteps, MoveSteps, CommitSteps, AdminSteps,
         SchedulerSteps, SyncSteps
<1>3. FlightOK /\ AttemptsOK
  BY DEF Init, FlightOK, AttemptsOK, Refreshed, Procs
<1>4. HiddenAgrees /\ CandidatesAreEligible
  BY DEF Init, HiddenAgrees, CandidatesAreEligible, Refreshed
<1>5. RemoteAgrees
  BY DEF Init, RemoteAgrees, Refreshed, Visible
<1>6. QED
  BY <1>1, <1>2, <1>3, <1>4, <1>5 DEF IInv, RowsOK, PlaceOK

\* A step that changes no variable keeps the invariant.
LEMMA StutterIInv == IInv /\ UNCHANGED vars => IInv'
BY DEF vars, IInv, TypeOK, MutexOK, FlightOK, Checked, Moved, Visible, AttemptsOK, RowsOK, PlaceOK,
       HiddenAgrees, RemoteAgrees, InFlight, CandidatesAreEligible, Eligible

\* The inductive invariant holds in every reachable state.
THEOREM Invariance == Spec => []IInv
<1>1. IInv /\ [Next]_vars => IInv'
  BY TypeStep, RowsStep, PlaceStep, StutterIInv DEF IInv
<1>2. QED
  BY InitIInv, <1>1, PTL DEF Spec

\* Types, for every number of messages and administrators and every attempt limit.
THEOREM TypeCorrect == Spec => []TypeOK
BY Invariance, PTL DEF IInv

\* Hidden and restored mail: what the inbox shows agrees with the clean-up list.
THEOREM HiddenCorrect == Spec => []HiddenAgrees
BY Invariance, PTL DEF IInv, RowsOK

\* The database knows where mail is, except for the moves it was not told of.
THEOREM RemoteCorrect == Spec => []RemoteAgrees
BY Invariance, PTL DEF IInv, PlaceOK

\* No handler, alone or interleaved, leaves protected mail up for approval.
THEOREM CandidatesCorrect == Spec => []CandidatesAreEligible
BY Invariance, PTL DEF IInv, RowsOK

\* The final move only ever takes held mail without a star.
THEOREM FlaggedMailIsSafe == Spec => OnlyHeldUnflaggedIsTrashed
<1>1. IInv /\ [Next]_vars => [\A m \in Messages :
                                      TrashedByScheduler(m) => state[m] = "holding" /\ m \notin flagged]_vars
  BY StepIsSafe, TypeStep DEF SafeStep, IInv, TypeOK, vars
<1>2. QED
  BY Invariance, <1>1, PTL DEF Spec, OnlyHeldUnflaggedIsTrashed

\* Corrections survive every interleaving with sync and reclassification.
THEOREM CorrectionsAreSafe == Spec => CorrectionSticks
<1>1. IInv /\ [Next]_vars => [\A m \in manual :
                                      m \in manual' /\ (category'[m] # category[m] => UNCHANGED pc)]_vars
  BY StepIsSafe, TypeStep DEF SafeStep, IInv, TypeOK, vars
<1>2. QED
  BY Invariance, <1>1, PTL DEF Spec, CorrectionSticks

\* The life cycle is the promised one, whatever happens at the same time.
THEOREM PromiseIsKept == Spec => KeepsPromise
<1>1. QED
  BY Invariance, InitPromise, PromiseStep, PTL DEF Spec, KeepsPromise, Promise!Spec

\* Mail recorded as moved to Deleted Items is not proposed, approved, held or restored again.
THEOREM DeletionIsFinal ==
  Spec => [][\A m \in Messages : state[m] = "deleted" => state'[m] = "deleted"]_vars
<1>1. IInv /\ [Next]_vars => [\A m \in Messages : state[m] = "deleted" => state'[m] = "deleted"]_vars
  BY StepIsSafe, TypeStep DEF SafeStep, IInv, TypeOK, vars
<1>2. QED
  BY Invariance, <1>1, PTL DEF Spec

\* A failed Graph call, or a failed item of a batch, never hides mail.
THEOREM NothingHiddenTooEarly == Spec => HiddenOnlyAfterMove
<1>1. IInv /\ [Next]_vars => [\A m \in hidden' \ hidden :
                                      m \notin astray => remote[m] \in {"holding", "deleteditems"}]_vars
  BY StepIsSafe, TypeStep DEF SafeStep, IInv, TypeOK, vars
<1>2. QED
  BY Invariance, <1>1, PTL DEF Spec, HiddenOnlyAfterMove
==============================================================================
