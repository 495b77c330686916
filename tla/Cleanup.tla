------------------------------- MODULE Cleanup -------------------------------
(***************************************************************************)
(* The cleanup life cycle of one mailbox account (internal/mail: cleanup,  *)
(* batch, manual_delete, classification and sync).                         *)
(*                                                                         *)
(* Three parties act on a message: administrators (HTTP handlers), the     *)
(* server's background goroutines (cleanup scheduler, sync worker, start-up *)
(* reclassification), and the owner, who may move mail in Outlook.  What   *)
(* the server knows is the two SQLite rows `messages` and                  *)
(* `cleanup_actions'; where the mail really is, is the remote mailbox.     *)
(* Handlers that call Microsoft Graph hold the account mutex for their     *)
(* whole duration, but the mailbox and the database cannot change in one   *)
(* step: every such handler is check, move, commit.  Handlers that only    *)
(* touch the database take no mutex and run between those steps.           *)
(***************************************************************************)
EXTENDS Naturals, FiniteSets

CONSTANTS
  Messages,        \* the synchronised messages of the account
  Admins,          \* concurrent administrator requests
  Scheduler,       \* the cleanup scheduler goroutine
  Syncer,          \* the sync worker that holds this account's job
  Reclassifier,    \* the reclassification goroutine New's Start launches
  NoProc,          \* the account mutex is free
  Verdicts,        \* what the classifier may answer: category and protection
  UserPlaces,      \* where the owner moves mail in Outlook
  MaxAttempts      \* failed clean-up attempts before giving up (8 in the code)

Folders == {"inbox", "junkemail"}
Places == Folders \cup {"holding", "deleteditems", "elsewhere"}
Categories == {"important", "verification", "marketing", "spam", "normal", "uncertain"}
States == {"none", "candidate", "dismissed", "holding", "restored", "deleted", "failed"}
Procs == Admins \cup {Scheduler, Syncer, Reclassifier}

ASSUME ProcsAssumption ==
  /\ Scheduler \notin Admins /\ Syncer \notin Admins /\ Reclassifier \notin Admins
  /\ Scheduler # Syncer /\ Scheduler # Reclassifier /\ Syncer # Reclassifier
  /\ NoProc \notin Procs
ASSUME VerdictsAssumption ==
  Verdicts \subseteq [category : Categories, protected : BOOLEAN]
ASSUME PlacesAssumption == UserPlaces \subseteq Places
ASSUME AttemptsAssumption == MaxAttempts \in Nat \ {0}

VARIABLES
  accountLocked,   \* accounts.cleanup_protected
  category,        \* messages.category
  ruleProtected,   \* messages.cleanup_protected
  manual,          \* messages.classification_source = 'manual'
  flagged,         \* messages.is_flagged
  hidden,          \* messages.hidden_from_inbox
  remoteDeleted,   \* messages.remote_deleted
  folder,          \* messages.folder_id
  state,           \* cleanup_actions.state; "none" when there is no row
  original,        \* cleanup_actions.original_folder_graph_id
  attempts,        \* cleanup_actions.attempt_count
  due,             \* execute_after_utc is set and has passed
  waiting,         \* next_retry_at_utc is set and has not passed
  remote,          \* the mailbox: the folder each message is really in
  lock,            \* the account mutex (Service.accountLock)
  pc,              \* where each process is
  targets,         \* the messages its step is about
  arg,             \* the destination, folder or flag it carries
  dueList,         \* ids ProcessDueCleanup selected and has not handled yet
  rescueList,      \* candidates rescueVerificationMessages has not moved yet
  counted,         \* attempt_count as recordCleanupFailure read it
  astray           \* history: moved by the owner, or by a move never recorded

classification == <<category, ruleProtected, manual>>
message == <<hidden, remoteDeleted, folder>>
action == <<state, original, attempts, due, waiting>>
mailbox == <<remote, astray>>
run == <<lock, pc, targets, arg>>
schedule == <<dueList, rescueList, counted>>
vars == <<accountLocked, category, ruleProtected, manual, flagged, hidden, remoteDeleted,
          folder, state, original, attempts, due, waiting, remote, lock, pc, targets,
          arg, dueList, rescueList, counted, astray>>

\* The steps at which a process holds the account mutex.
CommitSteps == {"approve.commit", "batch.commit", "restore.commit", "trash.commit",
                "clean.commit", "rescue.commit"}
MoveSteps == {"approve.move", "batch.move", "restore.move", "trash.move",
              "clean.move"}
LockedSteps == MoveSteps \cup CommitSteps \cup
               {"flag.commit", "clean.block", "sync.page", "sync.present", "sync.removed",
                "sync.rescue"}
FreeSteps == {"idle", "flag.wait", "reclassify.apply", "clean.fail", "clean.save"}
Args == Folders \cup {"none", "flagged", "unflagged"}

------------------------------------------------------------------------------
(* Eligibility, and what a re-evaluation makes of the cleanup_actions row.   *)

Eligible(m) ==
  /\ ~accountLocked
  /\ m \notin flagged
  /\ m \notin ruleProtected
  /\ category[m] \in {"marketing", "spam"}

\* Mutated form: the upsert of a candidate does not look at the present state.
RefreshedUnguarded(s, eligible) ==
  CASE eligible /\ s # "holding" -> "candidate"
    [] ~eligible /\ s \in {"candidate", "restored", "failed"} -> "dismissed"
    [] OTHER -> s

Refreshed(s, eligible) ==
  CASE eligible /\ s \in {"none", "candidate", "dismissed", "restored", "failed"} -> "candidate"
    [] ~eligible /\ s \in {"candidate", "restored", "failed"} -> "dismissed"
    [] OTHER -> s

\* Re-evaluates the messages of S, in the transaction that changed their inputs.
RefreshCandidates(S) ==
  state' = [m \in Messages |-> IF m \in S THEN Refreshed(state[m], Eligible(m)') ELSE state[m]]

OriginalOf(m) == IF original[m] # "none" THEN original[m] ELSE folder[m]

------------------------------------------------------------------------------
(* Control: what a process does next, and the mutex.                         *)

Goto(p, step, S, a) ==
  /\ pc' = [pc EXCEPT ![p] = step]
  /\ targets' = [targets EXCEPT ![p] = S]
  /\ arg' = [arg EXCEPT ![p] = a]

\* Mutated form: the handler does not wait for the account mutex.
AcquireAtOnce(p, step, S, a) == lock' = p /\ Goto(p, step, S, a)
Acquire(p, step, S, a) == lock = NoProc /\ lock' = p /\ Goto(p, step, S, a)
Release(p, step, S) == lock' = NoProc /\ Goto(p, step, S, "none")
Return(p) == Release(p, "idle", {})

\* A Graph move: the messages of `moved' really moved, those of `known' were reported so.
GraphMove(moved, known, place) ==
  /\ remote' = [m \in Messages |-> IF m \in moved THEN place ELSE remote[m]]
  /\ astray' = (astray \ known) \cup (moved \ known)

\* The transaction after the move failed: the mailbox stays as it was moved.
ForgetMove(p) == astray' = astray \cup targets[p] /\ UNCHANGED remote

------------------------------------------------------------------------------
(* Approval, one message (ApproveCleanup) or a selection (ApproveCleanupBatch).*)

Approvable(m) == state[m] = "candidate" /\ Eligible(m)

ApproveCleanup(p, m) ==
  /\ pc[p] = "idle" /\ Approvable(m)
  /\ Acquire(p, "approve.move", {m}, "none")
  /\ UNCHANGED <<accountLocked, classification, flagged, message, action, mailbox, schedule>>

ApproveCleanupBatch(p, S) ==
  /\ pc[p] = "idle"
  /\ \E m \in S : Approvable(m)
  /\ Acquire(p, "batch.move", {m \in S : Approvable(m)}, "none")
  /\ UNCHANGED <<accountLocked, classification, flagged, message, action, mailbox, schedule>>

\* Mutated form: the failed items of a batch are recorded like the moved ones.
ApproveMoveAll(p) ==
  /\ pc[p] \in {"approve.move", "batch.move"}
  /\ \E moved \in SUBSET targets[p] : \E known \in SUBSET moved :
       /\ GraphMove(moved, known, "holding")
       /\ IF known = {} THEN Return(p)
          ELSE /\ Goto(p, IF pc[p] = "batch.move" THEN "batch.commit" ELSE "approve.commit",
                       targets[p], "none")
               /\ UNCHANGED lock
  /\ UNCHANGED <<accountLocked, classification, flagged, message, action, schedule>>

\* The reply of the move, or of each request of the $batch; none reported: give up.
ApproveMove(p) ==
  /\ pc[p] \in {"approve.move", "batch.move"}
  /\ \E moved \in SUBSET targets[p] : \E known \in SUBSET moved :
       /\ GraphMove(moved, known, "holding")
       /\ IF known = {} THEN Return(p)
          ELSE /\ Goto(p, IF pc[p] = "batch.move" THEN "batch.commit" ELSE "approve.commit",
                       known, "none")
               /\ UNCHANGED lock
  /\ UNCHANGED <<accountLocked, classification, flagged, message, action, schedule>>

\* The columns an approval writes for the messages of S whose row it matches (H).
RecordHolding(S, H) ==
  /\ hidden' = hidden \cup S
  /\ remoteDeleted' = remoteDeleted \ S
  /\ state' = [m \in Messages |-> IF m \in H THEN "holding" ELSE state[m]]
  /\ original' = [m \in Messages |-> IF m \in H THEN OriginalOf(m) ELSE original[m]]
  /\ attempts' = [m \in Messages |-> IF m \in H THEN 0 ELSE attempts[m]]
  /\ due' = due \ H
  /\ waiting' = waiting \ H
  /\ UNCHANGED folder

\* ApproveCleanup does not look at the number of rows its second UPDATE matched.
ApproveCommit(p) ==
  /\ pc[p] = "approve.commit"
  /\ RecordHolding(targets[p], {m \in targets[p] : state[m] = "candidate"})
  /\ Return(p)
  /\ UNCHANGED <<accountLocked, classification, flagged, mailbox, schedule>>

\* recordCleanupApprovals does, and rolls the whole chunk back.
BatchCommit(p) ==
  /\ pc[p] = "batch.commit"
  /\ \A m \in targets[p] : state[m] = "candidate"
  /\ RecordHolding(targets[p], targets[p])
  /\ Return(p)
  /\ UNCHANGED <<accountLocked, classification, flagged, mailbox, schedule>>

BatchConflict(p) ==
  /\ pc[p] = "batch.commit"
  /\ \E m \in targets[p] : state[m] # "candidate"
  /\ ForgetMove(p)
  /\ Return(p)
  /\ UNCHANGED <<accountLocked, classification, flagged, message, action, schedule>>

------------------------------------------------------------------------------
(* RestoreCleanup and RetryCleanup.                                          *)

Restorable(m) == state[m] \in {"holding", "failed"}

RestoreCleanup(p, m) ==
  /\ pc[p] = "idle" /\ Restorable(m)
  /\ Acquire(p, "restore.move", {m}, OriginalOf(m))
  /\ UNCHANGED <<accountLocked, classification, flagged, message, action, mailbox, schedule>>

RestoreMove(p) ==
  /\ pc[p] = "restore.move"
  /\ \E moved \in SUBSET targets[p] : \E known \in SUBSET moved :
       /\ GraphMove(moved, known, arg[p])
       /\ IF known = {} THEN Return(p)
          ELSE Goto(p, "restore.commit", known, arg[p]) /\ UNCHANGED lock
  /\ UNCHANGED <<accountLocked, classification, flagged, message, action, schedule>>

RestoreCommit(p) ==
  /\ pc[p] = "restore.commit"
  /\ hidden' = hidden \ targets[p]
  /\ remoteDeleted' = remoteDeleted \ targets[p]
  /\ state' = [m \in Messages |-> IF m \in targets[p] THEN "restored" ELSE state[m]]
  /\ waiting' = waiting \ targets[p]
  /\ Return(p)
  /\ UNCHANGED <<accountLocked, classification, flagged, folder, original, attempts, due,
                 mailbox, schedule>>

\* One UPDATE, without the account mutex.
RetryCleanup(m) ==
  /\ state[m] = "failed"
  /\ state' = [state EXCEPT ![m] = "holding"]
  /\ attempts' = [attempts EXCEPT ![m] = 0]
  /\ waiting' = waiting \ {m}
  /\ UNCHANGED <<accountLocked, classification, flagged, message, original, due, mailbox,
                 run, schedule>>

------------------------------------------------------------------------------
(* MoveMessageToDeletedItems: the administrator deletes one visible message. *)

Visible(m) == m \notin hidden /\ m \notin remoteDeleted

MoveMessageToDeletedItems(p, m) ==
  /\ pc[p] = "idle" /\ Visible(m)
  /\ Acquire(p, "trash.move", {m}, "none")
  /\ UNCHANGED <<accountLocked, classification, flagged, message, action, mailbox, schedule>>

TrashMove(p) ==
  /\ pc[p] = "trash.move"
  /\ \E moved \in SUBSET targets[p] : \E known \in SUBSET moved :
       /\ GraphMove(moved, known, "deleteditems")
       /\ IF known = {} THEN Return(p)
          ELSE Goto(p, "trash.commit", known, "none") /\ UNCHANGED lock
  /\ UNCHANGED <<accountLocked, classification, flagged, message, action, schedule>>

TrashCommit(p) ==
  /\ pc[p] = "trash.commit"
  /\ \A m \in targets[p] : Visible(m)
  /\ hidden' = hidden \cup targets[p]
  /\ LET done == {m \in targets[p] : state[m] \in {"candidate", "dismissed", "restored", "failed"}}
     IN  /\ state' = [m \in Messages |-> IF m \in done THEN "deleted" ELSE state[m]]
         /\ waiting' = waiting \ done
  /\ Return(p)
  /\ UNCHANGED <<accountLocked, classification, flagged, remoteDeleted, folder, original,
                 attempts, due, mailbox, schedule>>

------------------------------------------------------------------------------
(* SetMessageFlagged, CorrectMessageCategory, SetAccountCleanupProtected.    *)

\* The row is read before the mutex is taken and not read again after it.
SetMessageFlagged(p, m, flag) ==
  /\ pc[p] = "idle" /\ m \notin remoteDeleted
  /\ Goto(p, "flag.wait", {m}, flag)
  /\ UNCHANGED <<accountLocked, classification, flagged, message, action, mailbox, schedule, lock>>

FlagPatch(p) ==
  /\ pc[p] = "flag.wait" /\ lock = NoProc
  /\ \/ Acquire(p, "flag.commit", targets[p], arg[p])
     \/ Goto(p, "idle", {}, "none") /\ UNCHANGED lock
  /\ UNCHANGED <<accountLocked, classification, flagged, message, action, mailbox, schedule>>

FlagCommit(p) ==
  /\ pc[p] = "flag.commit"
  /\ flagged' = IF arg[p] = "flagged" THEN flagged \cup targets[p] ELSE flagged \ targets[p]
  /\ UNCHANGED <<accountLocked, classification>>
  /\ RefreshCandidates(targets[p])
  /\ Return(p)
  /\ UNCHANGED <<message, original, attempts, due, waiting, mailbox, schedule>>

CorrectMessageCategory(m, c) ==
  /\ m \notin remoteDeleted
  /\ category' = [category EXCEPT ![m] = c]
  /\ manual' = manual \cup {m}
  /\ UNCHANGED <<accountLocked, ruleProtected, flagged>>
  /\ RefreshCandidates({m})
  /\ UNCHANGED <<message, original, attempts, due, waiting, mailbox, run, schedule>>

\* Mutated form: the candidates of the account are not evaluated again.
SetProtectedWithoutRefresh ==
  /\ accountLocked' = ~accountLocked
  /\ UNCHANGED <<classification, flagged, message, action, mailbox, run, schedule>>

SetAccountCleanupProtected ==
  /\ accountLocked' = ~accountLocked
  /\ UNCHANGED <<classification, flagged>>
  /\ RefreshCandidates({m \in Messages : m \notin remoteDeleted})
  /\ UNCHANGED <<message, original, attempts, due, waiting, mailbox, run, schedule>>

------------------------------------------------------------------------------
(* The cleanup scheduler: ProcessDueCleanup, once a minute.                  *)

\* At most 20 are listed, and an error that ends the rows early is not looked at.
ProcessDueCleanup ==
  /\ pc[Scheduler] = "idle" /\ dueList = {}
  /\ dueList' \in SUBSET {m \in Messages : state[m] = "holding" /\ m \in due /\ m \notin waiting}
  /\ dueList' # {}
  /\ UNCHANGED <<accountLocked, classification, flagged, message, action, mailbox, run,
                 rescueList, counted>>

\* Mutated form: the protections are not checked again before the final move.
CompleteUnchecked(m) ==
  /\ pc[Scheduler] = "idle" /\ m \in dueList /\ state[m] = "holding"
  /\ Acquire(Scheduler, "clean.move", {m}, "none")
  /\ dueList' = dueList \ {m}
  /\ UNCHANGED <<accountLocked, classification, flagged, message, action, mailbox,
                 rescueList, counted>>

\* completeCleanup, under the mutex: the state is read again, the due time is not.
CompleteCleanup(m) ==
  /\ pc[Scheduler] = "idle" /\ m \in dueList /\ state[m] = "holding"
  /\ Acquire(Scheduler, IF Eligible(m) THEN "clean.move" ELSE "clean.block", {m}, "none")
  /\ dueList' = dueList \ {m}
  /\ UNCHANGED <<accountLocked, classification, flagged, message, action, mailbox,
                 rescueList, counted>>

CompleteConflict(m) ==
  /\ pc[Scheduler] = "idle" /\ m \in dueList /\ state[m] # "holding"
  /\ dueList' = dueList \ {m}
  /\ UNCHANGED <<accountLocked, classification, flagged, message, action, mailbox, run,
                 rescueList, counted>>

\* One of its two loads of the record failed: a failed attempt like any other.
CompleteUnread(m) ==
  /\ pc[Scheduler] = "idle" /\ m \in dueList
  /\ Goto(Scheduler, "clean.fail", {m}, "none")
  /\ dueList' = dueList \ {m}
  /\ UNCHANGED <<accountLocked, classification, flagged, message, action, mailbox, lock,
                 rescueList, counted>>

\* The message became protected while it was held: the row fails, or the UPDATE does.
CleanBlock ==
  /\ pc[Scheduler] = "clean.block"
  /\ \/ /\ state' = [m \in Messages |->
                       IF m \in targets[Scheduler] /\ state[m] = "holding" THEN "failed" ELSE state[m]]
        /\ waiting' = waiting \ {m \in targets[Scheduler] : state[m] = "holding"}
        /\ Return(Scheduler)
     \/ /\ Release(Scheduler, "clean.fail", targets[Scheduler])
        /\ UNCHANGED <<state, waiting>>
  /\ UNCHANGED <<accountLocked, classification, flagged, message, original, attempts, due,
                 mailbox, schedule>>

CleanMove ==
  /\ pc[Scheduler] = "clean.move"
  /\ \E moved \in SUBSET targets[Scheduler] : \E known \in SUBSET moved :
       /\ GraphMove(moved, known, "deleteditems")
       /\ IF known = {} THEN Release(Scheduler, "clean.fail", targets[Scheduler])
          ELSE Goto(Scheduler, "clean.commit", known, "none") /\ UNCHANGED lock
  /\ UNCHANGED <<accountLocked, classification, flagged, message, action, schedule>>

CleanCommit ==
  /\ pc[Scheduler] = "clean.commit"
  /\ hidden' = hidden \cup targets[Scheduler]
  /\ LET done == {m \in targets[Scheduler] : state[m] = "holding"}
     IN  /\ state' = [m \in Messages |-> IF m \in done THEN "deleted" ELSE state[m]]
         /\ waiting' = waiting \ done
  /\ Return(Scheduler)
  /\ UNCHANGED <<accountLocked, classification, flagged, remoteDeleted, folder, original,
                 attempts, due, mailbox, schedule>>

CleanRollback ==
  /\ pc[Scheduler] = "clean.commit"
  /\ ForgetMove(Scheduler)
  /\ Release(Scheduler, "clean.fail", targets[Scheduler])
  /\ UNCHANGED <<accountLocked, classification, flagged, message, action, schedule>>

\* recordCleanupFailure: a SELECT, then an UPDATE, both after the mutex is released,
\* and the errors of both are ignored.
CountAs(m, n) ==
  /\ pc[Scheduler] = "clean.fail" /\ m \in targets[Scheduler]
  /\ counted' = n
  /\ Goto(Scheduler, "clean.save", {m}, "none")
  /\ UNCHANGED <<accountLocked, classification, flagged, message, action, mailbox, lock,
                 dueList, rescueList>>

CountFailure(m) == CountAs(m, attempts[m] + 1)

\* The SELECT failed: the count starts again.
CountUnread(m) == CountAs(m, 1)

\* Mutated form: the last attempt does not fail the action.
RecordOneTooMany(m) ==
  /\ pc[Scheduler] = "clean.save" /\ m \in targets[Scheduler]
  /\ IF state[m] = "holding"
     THEN /\ state' = [state EXCEPT ![m] = IF counted > MaxAttempts THEN "failed" ELSE "holding"]
          /\ attempts' = [attempts EXCEPT ![m] = counted]
          /\ waiting' = waiting \cup {m}
     ELSE UNCHANGED <<state, attempts, waiting>>
  /\ counted' = 0
  /\ Goto(Scheduler, "idle", {}, "none")
  /\ UNCHANGED <<accountLocked, classification, flagged, message, original, due, mailbox,
                 lock, dueList, rescueList>>

\* Mutated form: the attempt is not counted.
RecordWithoutCount(m) ==
  /\ pc[Scheduler] = "clean.save" /\ m \in targets[Scheduler]
  /\ IF state[m] = "holding"
     THEN /\ state' = [state EXCEPT ![m] = IF counted >= MaxAttempts THEN "failed" ELSE "holding"]
          /\ attempts' = [attempts EXCEPT ![m] = @]
          /\ waiting' = waiting \cup {m}
     ELSE UNCHANGED <<state, attempts, waiting>>
  /\ counted' = 0
  /\ Goto(Scheduler, "idle", {}, "none")
  /\ UNCHANGED <<accountLocked, classification, flagged, message, original, due, mailbox,
                 lock, dueList, rescueList>>

RecordCleanupFailure(m) ==
  /\ pc[Scheduler] = "clean.save" /\ m \in targets[Scheduler]
  /\ IF state[m] = "holding"
     THEN /\ state' = [state EXCEPT ![m] = IF counted >= MaxAttempts THEN "failed" ELSE "holding"]
          /\ attempts' = [attempts EXCEPT ![m] = counted]
          /\ waiting' = waiting \cup {m}
     ELSE UNCHANGED <<state, attempts, waiting>>
  /\ counted' = 0
  /\ Goto(Scheduler, "idle", {}, "none")
  /\ UNCHANGED <<accountLocked, classification, flagged, message, original, due, mailbox,
                 lock, dueList, rescueList>>

\* The UPDATE failed: the attempt is not counted, and nothing delays the next one.
RecordUnwritten(m) ==
  /\ pc[Scheduler] = "clean.save" /\ m \in targets[Scheduler]
  /\ counted' = 0
  /\ Goto(Scheduler, "idle", {}, "none")
  /\ UNCHANGED <<accountLocked, classification, flagged, message, action, mailbox,
                 lock, dueList, rescueList>>

------------------------------------------------------------------------------
(* The sync worker: delta pages, then the rescue of verification mail.       *)

SyncAccount ==
  /\ pc[Syncer] = "idle"
  /\ Acquire(Syncer, "sync.page", {}, "none")
  /\ UNCHANGED <<accountLocked, classification, flagged, message, action, mailbox, schedule>>

\* One entry of a delta page of folder f, as the mailbox is when the page is read.
FetchEntry(m, f) ==
  /\ pc[Syncer] = "sync.page"
  /\ Goto(Syncer, IF remote[m] = f THEN "sync.present" ELSE "sync.removed", {m}, f)
  /\ UNCHANGED <<accountLocked, classification, flagged, message, action, mailbox, schedule, lock>>

\* The classifier's answer is stored unless an administrator corrected the message.
Classify(m, v) ==
  IF m \in manual THEN UNCHANGED classification
  ELSE /\ category' = [category EXCEPT ![m] = v.category]
       /\ ruleProtected' = IF v.protected THEN ruleProtected \cup {m} ELSE ruleProtected \ {m}
       /\ UNCHANGED manual

ApplyPresent(m, flag, v) ==
  /\ pc[Syncer] = "sync.present" /\ m \in targets[Syncer]
  /\ folder' = [folder EXCEPT ![m] = arg[Syncer]]
  /\ remoteDeleted' = remoteDeleted \ {m}
  /\ flagged' = IF flag THEN flagged \cup {m} ELSE flagged \ {m}
  /\ Classify(m, v)
  /\ UNCHANGED accountLocked
  /\ RefreshCandidates({m})
  /\ astray' = IF m \notin hidden /\ remote[m] = arg[Syncer] THEN astray \ {m} ELSE astray
  /\ Goto(Syncer, "sync.page", {}, "none")
  /\ UNCHANGED <<hidden, original, attempts, due, waiting, remote, lock, schedule>>

\* Mutated form: tombstones of held mail count as well.
ApplyRemovedHidden(m) ==
  /\ pc[Syncer] = "sync.removed" /\ m \in targets[Syncer]
  /\ remoteDeleted' = IF folder[m] = arg[Syncer] THEN remoteDeleted \cup {m} ELSE remoteDeleted
  /\ Goto(Syncer, "sync.page", {}, "none")
  /\ UNCHANGED <<accountLocked, classification, flagged, hidden, folder, action, mailbox,
                 lock, schedule>>

\* A tombstone counts only for the folder the row is in, and never for hidden mail.
ApplyRemoved(m) ==
  /\ pc[Syncer] = "sync.removed" /\ m \in targets[Syncer]
  /\ remoteDeleted' = IF folder[m] = arg[Syncer] /\ m \notin hidden
                      THEN remoteDeleted \cup {m} ELSE remoteDeleted
  /\ Goto(Syncer, "sync.page", {}, "none")
  /\ UNCHANGED <<accountLocked, classification, flagged, hidden, folder, action, mailbox,
                 lock, schedule>>

\* After the pages: the junk mail classified as verification is listed, then moved one by one.
RescueVerificationMessages ==
  /\ pc[Syncer] = "sync.page"
  /\ rescueList' = {m \in Messages : folder[m] = "junkemail" /\ category[m] = "verification" /\ Visible(m)}
  /\ Goto(Syncer, "sync.rescue", {}, "none")
  /\ UNCHANGED <<accountLocked, classification, flagged, message, action, mailbox, lock,
                 dueList, counted>>

RescueMove(m) ==
  /\ pc[Syncer] = "sync.rescue" /\ m \in rescueList
  /\ \E moved \in SUBSET {m} : \E known \in SUBSET moved :
       /\ GraphMove(moved, known, "inbox")
       /\ IF known = {} THEN Return(Syncer) /\ rescueList' = {}
          ELSE /\ Goto(Syncer, "rescue.commit", known, "none")
               /\ rescueList' = rescueList \ known
               /\ UNCHANGED lock
  /\ UNCHANGED <<accountLocked, classification, flagged, message, action, dueList, counted>>

RescueCommit ==
  /\ pc[Syncer] = "rescue.commit"
  /\ folder' = [m \in Messages |->
                  IF m \in targets[Syncer] /\ m \notin remoteDeleted THEN "inbox" ELSE folder[m]]
  /\ Goto(Syncer, "sync.rescue", {}, "none")
  /\ UNCHANGED <<accountLocked, classification, flagged, hidden, remoteDeleted, action,
                 mailbox, schedule, lock>>

\* The pages and the rescue are done, or a request or a transaction failed.
SyncEnd ==
  /\ pc[Syncer] \in {"sync.page", "sync.present", "sync.removed", "sync.rescue"}
  /\ Return(Syncer)
  /\ rescueList' = {}
  /\ UNCHANGED <<accountLocked, classification, flagged, message, action, mailbox, dueList, counted>>

------------------------------------------------------------------------------
(* ReclassifyAll reads a batch outside the transaction that applies it.      *)

ReclassifyRead ==
  /\ pc[Reclassifier] = "idle"
  /\ Goto(Reclassifier, "reclassify.apply",
          {m \in Messages : m \notin remoteDeleted /\ m \notin manual}, "none")
  /\ UNCHANGED <<accountLocked, classification, flagged, message, action, mailbox, schedule, lock>>

\* Mutated form: the UPDATE does not spare corrected messages.
ReclassifyAnyway ==
  /\ pc[Reclassifier] = "reclassify.apply"
  /\ \E v \in [targets[Reclassifier] -> Verdicts] :
       LET open == targets[Reclassifier]
       IN  /\ category' = [m \in Messages |-> IF m \in open THEN v[m].category ELSE category[m]]
           /\ ruleProtected' = {m \in Messages : IF m \in open THEN v[m].protected
                                                               ELSE m \in ruleProtected}
  /\ UNCHANGED <<accountLocked, flagged, manual>>
  /\ RefreshCandidates(targets[Reclassifier])
  /\ Goto(Reclassifier, "idle", {}, "none")
  /\ UNCHANGED <<message, original, attempts, due, waiting, mailbox, lock, schedule>>

ReclassifyApply ==
  /\ pc[Reclassifier] = "reclassify.apply"
  /\ \E v \in [targets[Reclassifier] -> Verdicts] :
       LET open == targets[Reclassifier] \ manual
       IN  /\ category' = [m \in Messages |-> IF m \in open THEN v[m].category ELSE category[m]]
           /\ ruleProtected' = {m \in Messages : IF m \in open THEN v[m].protected
                                                               ELSE m \in ruleProtected}
  /\ UNCHANGED <<accountLocked, flagged, manual>>
  /\ RefreshCandidates(targets[Reclassifier])
  /\ Goto(Reclassifier, "idle", {}, "none")
  /\ UNCHANGED <<message, original, attempts, due, waiting, mailbox, lock, schedule>>

------------------------------------------------------------------------------
(* Failures, time, the owner in Outlook, and a crash of the server.          *)

\* A transaction after a successful Graph call fails (every handler but the scheduler's).
Rollback(p) ==
  /\ pc[p] \in (CommitSteps \cup {"flag.commit"}) \ {"clean.commit"}
  /\ IF pc[p] = "flag.commit" THEN UNCHANGED mailbox ELSE ForgetMove(p)
  /\ Return(p)
  /\ rescueList' = IF p = Syncer THEN {} ELSE rescueList
  /\ UNCHANGED <<accountLocked, classification, flagged, message, action, dueList, counted>>

GraceElapses(m) ==
  /\ state[m] = "holding" /\ m \notin due
  /\ due' = due \cup {m}
  /\ UNCHANGED <<accountLocked, classification, flagged, message, state, original, attempts,
                 waiting, mailbox, run, schedule>>

RetryElapses(m) ==
  /\ m \in waiting
  /\ waiting' = waiting \ {m}
  /\ UNCHANGED <<accountLocked, classification, flagged, message, state, original, attempts,
                 due, mailbox, run, schedule>>

UserMoves(m, place) ==
  /\ remote[m] # place
  /\ remote' = [remote EXCEPT ![m] = place]
  /\ astray' = astray \cup {m}
  /\ UNCHANGED <<accountLocked, classification, flagged, message, action, run, schedule>>

\* The process dies; a move that was sent but not recorded stays done.
Crash ==
  /\ \E p \in Procs : pc[p] # "idle"
  /\ pc' = [p \in Procs |-> "idle"]
  /\ targets' = [p \in Procs |-> {}]
  /\ arg' = [p \in Procs |-> "none"]
  /\ lock' = NoProc
  /\ dueList' = {} /\ rescueList' = {} /\ counted' = 0
  /\ astray' = astray \cup {m \in Messages : \E p \in Procs : pc[p] \in CommitSteps /\ m \in targets[p]}
  /\ UNCHANGED <<accountLocked, classification, flagged, message, action, remote>>

------------------------------------------------------------------------------
\* The account right after its first synchronisation.
Init ==
  /\ accountLocked = FALSE
  /\ \E v \in [Messages -> Verdicts] :
       /\ category = [m \in Messages |-> v[m].category]
       /\ ruleProtected = {m \in Messages : v[m].protected}
  /\ manual = {} /\ flagged = {} /\ hidden = {} /\ remoteDeleted = {}
  /\ folder \in [Messages -> Folders]
  /\ state = [m \in Messages |-> Refreshed("none", Eligible(m))]
  /\ original = [m \in Messages |-> "none"]
  /\ attempts = [m \in Messages |-> 0]
  /\ due = {} /\ waiting = {}
  /\ remote = folder
  /\ lock = NoProc
  /\ pc = [p \in Procs |-> "idle"]
  /\ targets = [p \in Procs |-> {}]
  /\ arg = [p \in Procs |-> "none"]
  /\ dueList = {} /\ rescueList = {} /\ counted = 0 /\ astray = {}

AdminStep(p) ==
  \/ \E m \in Messages : \/ ApproveCleanup(p, m)
                         \/ RestoreCleanup(p, m)
                         \/ MoveMessageToDeletedItems(p, m)
                         \/ \E flag \in {"flagged", "unflagged"} : SetMessageFlagged(p, m, flag)
  \/ \E S \in SUBSET Messages : ApproveCleanupBatch(p, S)
  \/ ApproveMove(p) \/ ApproveCommit(p) \/ BatchCommit(p) \/ BatchConflict(p)
  \/ RestoreMove(p) \/ RestoreCommit(p)
  \/ TrashMove(p) \/ TrashCommit(p)
  \/ FlagPatch(p) \/ FlagCommit(p)

DatabaseStep ==
  \/ \E m \in Messages : RetryCleanup(m)
  \/ \E m \in Messages : \E v \in Verdicts : CorrectMessageCategory(m, v.category)
  \/ SetAccountCleanupProtected

SchedulerStep ==
  \/ ProcessDueCleanup
  \/ \E m \in Messages : CompleteCleanup(m) \/ CompleteConflict(m) \/ CompleteUnread(m)
  \/ CleanBlock \/ CleanMove \/ CleanCommit \/ CleanRollback
  \/ \E m \in Messages : CountFailure(m) \/ CountUnread(m)
  \/ \E m \in Messages : RecordCleanupFailure(m) \/ RecordUnwritten(m)

SyncStep ==
  \/ SyncAccount
  \/ \E m \in Messages : \E f \in Folders : FetchEntry(m, f)
  \/ \E m \in Messages : \E flag \in BOOLEAN : \E v \in Verdicts : ApplyPresent(m, flag, v)
  \/ RescueVerificationMessages
  \/ \E m \in Messages : ApplyRemoved(m) \/ RescueMove(m)
  \/ RescueCommit \/ SyncEnd

Environment ==
  \/ \E p \in Procs : Rollback(p)
  \/ \E m \in Messages : GraceElapses(m) \/ RetryElapses(m)
  \/ \E m \in Messages : \E place \in UserPlaces : UserMoves(m, place)

Work ==
  \/ \E p \in Admins : AdminStep(p)
  \/ DatabaseStep \/ SchedulerStep \/ SyncStep
  \/ ReclassifyRead \/ ReclassifyApply
  \/ Environment

Next == Work \/ Crash

Spec == Init /\ [][Next]_vars

------------------------------------------------------------------------------
(* Safety.                                                                   *)

\* Every column, the mutex and every handler's local state stay in range; a
\* held message never has its retry budget used up (recordCleanupFailure).
TypeOK ==
  /\ accountLocked \in BOOLEAN
  /\ category \in [Messages -> Categories]
  /\ ruleProtected \subseteq Messages /\ manual \subseteq Messages /\ flagged \subseteq Messages
  /\ hidden \subseteq Messages /\ remoteDeleted \subseteq Messages
  /\ folder \in [Messages -> Folders]
  /\ state \in [Messages -> States]
  /\ original \in [Messages -> Folders \cup {"none"}]
  /\ attempts \in [Messages -> 0 .. MaxAttempts]
  /\ due \subseteq Messages /\ waiting \subseteq Messages
  /\ remote \in [Messages -> Places]
  /\ lock \in Procs \cup {NoProc}
  /\ pc \in [Procs -> LockedSteps \cup FreeSteps]
  /\ targets \in [Procs -> SUBSET Messages]
  /\ arg \in [Procs -> Args]
  /\ dueList \subseteq Messages /\ rescueList \subseteq Messages
  /\ counted \in 0 .. MaxAttempts
  /\ astray \subseteq Messages

\* Mail in the clean-up area, failed there or put in Deleted Items is hidden
\* and not taken for remotely deleted; restored mail is back in the inbox view.
HiddenAgrees ==
  \A m \in Messages :
    /\ state[m] \in {"holding", "failed"} => m \in hidden /\ m \notin remoteDeleted
    /\ state[m] = "deleted" => m \in hidden
    /\ state[m] = "restored" => m \notin hidden

InFlight(m) == \E p \in Procs : pc[p] \in CommitSteps /\ m \in targets[p]

\* The database and the mailbox agree on where a message is, unless the owner
\* moved it, a move was never recorded, or its commit is under way: held mail
\* is in the holding folder, deleted mail in Deleted Items, visible mail in a
\* synchronised folder.
RemoteAgrees ==
  \A m \in Messages : m \notin astray /\ ~InFlight(m) =>
    /\ state[m] \in {"holding", "failed"} => remote[m] = "holding"
    /\ state[m] = "deleted" => remote[m] = "deleteditems"
    /\ Visible(m) => remote[m] \in Folders

\* The review list never offers mail that a protection covers, whichever of the
\* handlers (flag, category, account, sync, reclassification) changed it last.
CandidatesAreEligible ==
  \A m \in Messages : state[m] = "candidate" /\ m \notin remoteDeleted => Eligible(m)

\* Mail is hidden only after its own move is known to have succeeded: neither a
\* failed Graph call nor a failed item of a batch hides anything.
HiddenOnlyAfterMove ==
  [][\A m \in hidden' \ hidden : m \notin astray => remote[m] \in {"holding", "deleteditems"}]_vars

TrashedByScheduler(m) ==
  /\ pc[Scheduler] = "clean.move" /\ pc'[Scheduler] # "clean.move"
  /\ remote[m] # "deleteditems" /\ remote'[m] = "deleteditems"

\* The scheduler only moves mail to Deleted Items that is approved and held, and
\* that carries no star at that moment, even if it was starred while held.
OnlyHeldUnflaggedIsTrashed ==
  [][\A m \in Messages : TrashedByScheduler(m) => state[m] = "holding" /\ m \notin flagged]_vars

\* A category the administrator corrected is never overwritten by a running sync
\* or reclassification, also when those had read the message before.
CorrectionSticks ==
  [][\A m \in manual : m \in manual' /\ (category'[m] # category[m] => UNCHANGED pc)]_vars

\* The clean-up keeps its promise (module CleanupPromise).  A row that lost its place
\* counts as open, and so does a message without one; out of view it is lost.
StageOf(m) ==
  CASE state[m] = "candidate" -> "proposed"
    [] state[m] = "holding" -> "held"
    [] state[m] = "failed" -> "blocked"
    [] state[m] = "deleted" -> "gone"
    [] OTHER -> IF m \in hidden THEN "lost" ELSE "open"

\* What the administrator whose request holds the account mutex has asked for.
AskedBy(step) ==
  CASE step \in {"approve.move", "approve.commit", "batch.move", "batch.commit"} -> "approval"
    [] step \in {"trash.move", "trash.commit"} -> "deletion"
    [] step \in {"restore.move", "restore.commit"} -> "restoration"
    [] OTHER -> "nothing"

AskedOf(m) ==
  IF lock \in Admins /\ m \in targets[lock] THEN AskedBy(pc[lock]) ELSE "nothing"

Promise == INSTANCE CleanupPromise WITH
  stage <- [m \in Messages |-> StageOf(m)],
  shown <- Messages \ hidden,
  asked <- [m \in Messages |-> AskedOf(m)]

\* Mail leaves the inbox view only by an approval that was asked for when it was
\* proposed, or by a deletion asked for when it was in view; it comes back only by a
\* restoration asked for when it had been put aside; no completion overtakes such a
\* request; and mail recorded as moved to Deleted Items is not proposed, approved,
\* held or restored again: whatever the handlers that evaluate, flag, synchronise
\* or retry do at the same time.  The one exception is named in CleanupPromise (Strand).
KeepsPromise == Promise!Spec

\* Held mail keeps its 14 days of grace: the scheduler moves it to Deleted
\* Items only after the deadline of its own approval.
GraceIsRespected ==
  [][\A m \in Messages : TrashedByScheduler(m) => m \in due]_vars

\* Approved mail that is still hidden is never dropped from the clean-up list:
\* a dismissed row can be neither restored, retried nor approved again.
ApprovedMailIsRecoverable ==
  [][\A m \in Messages : state[m] \in {"holding", "failed"} /\ m \in hidden' =>
       state'[m] # "dismissed"]_vars

\* Mail the owner puts back in Outlook is visible again once a sync has seen it.
OutlookRestoreIsSeen ==
  [][\A m \in Messages :
       /\ pc[Syncer] = "sync.present" /\ targets[Syncer] = {m} /\ pc'[Syncer] = "sync.page"
       /\ state[m] = "deleted"
       => m \notin hidden']_vars

------------------------------------------------------------------------------
(* Liveness.  Graph calls time out, so every handler step is weakly fair; the *)
(* account mutex is a Go mutex, which starves no waiter; time passes.         *)

AdminEnds(p) ==
  \/ ApproveMove(p) \/ ApproveCommit(p) \/ BatchCommit(p) \/ BatchConflict(p)
  \/ RestoreMove(p) \/ RestoreCommit(p) \/ TrashMove(p) \/ TrashCommit(p)
  \/ FlagCommit(p) \/ Rollback(p)

SchedulerEnds ==
  \/ \E m \in Messages : \/ CompleteConflict(m)
                         \/ CountFailure(m) \/ CountUnread(m)
                         \/ RecordCleanupFailure(m) \/ RecordUnwritten(m)
  \/ ProcessDueCleanup \/ CleanBlock \/ CleanMove \/ CleanCommit \/ CleanRollback

Fairness ==
  /\ \A p \in Admins : WF_vars(AdminEnds(p))
  /\ WF_vars(SyncEnd) /\ WF_vars(RescueCommit)
  /\ WF_vars(SchedulerEnds)
  /\ SF_vars(\E m \in Messages : CompleteCleanup(m))
  /\ \A m \in Messages : WF_vars(RetryElapses(m))

LiveSpec == Init /\ [][Work]_vars /\ Fairness

\* The SELECT or the UPDATE of a failure's record failed, and attempts went uncounted.
CountIsLost(m) == (attempts[m] # 0 /\ CountUnread(m)) \/ RecordUnwritten(m)

\* Held mail whose grace has elapsed does not stay in the holding folder for ever,
\* however often Graph or the transactions of the clean-up fail: it is cleaned up,
\* fails for good, or an administrator takes it back.  Only if the record of its
\* failures is itself lost again and again (recordCleanupFailure ignores the errors of
\* its two statements) may it stay.
DueMailIsSettled ==
  \A m \in Messages :
    \/ []<><<CountIsLost(m)>>_vars
    \/ (state[m] = "holding" /\ m \in due) ~> state[m] # "holding"
==============================================================================
