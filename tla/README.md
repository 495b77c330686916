# Formal specifications of outlook-mail-manager

TLA+ models of the server's core (Go, SQLite, Microsoft Graph), the TLC
configurations that check them on small instances, and theorems that TLAPS proves
for every instance.  Every definition is translated from the source;
`PROJECT.json` gives the lines.

## 1. Inventory

One Go process serves a single administrator's browser and read-only API clients,
synchronises up to a thousand Outlook mailboxes through Microsoft Graph, and keeps
its state in one SQLite database (WAL, immediate transactions, four connections).
A small second process, the updater, replaces the server's container.

| Component | State | Operations | Talks to | Hard behaviour |
|---|---|---|---|---|
| Clean-up (`mail/cleanup.go`, `batch.go`, `manual_delete.go`) | `cleanup_actions`, `messages.hidden_from_inbox`, account mutex | approve (single, batch), restore, retry, star, protect, move to Deleted Items, minute scheduler | Graph moves, classification, sync | mailbox and database change in two steps; a crash between them; unlocked re-evaluations during a move; stale due list |
| Synchronisation (`mail/sync.go`, `client.go`) | `messages`, `folders`, `sync_cursors` | folder discovery, delta pages, tombstones, cursor reset, rescue of verification mail | Graph, classifier, notifications | entries of two folders out of order, own moves seen as deletions, crash after a page |
| Job queues (`mail/service.go`) | two bounded channels, `backgroundJobs`, account mutexes | manual sync, sync of all, scheduler cycle, workers | synchronisation | full queues, de-duplication, waiting callers, shut-down |
| Classification (`mail/classification.go`) | category, source, protection, rules | correct, reclassify all, rule changes | clean-up candidates | verdicts computed outside the transaction that writes them |
| Notifications (`notify/*.go`) | `notification_deliveries`, channels, rules, wake channel | enqueue (mail, system, test), claim, send, record, retry | Telegram, PushPlus, WXPush, Bark | two workers, lost answers, restart recovery, lost wake-ups, deletion in mid-flight |
| Accounts and tokens (`accounts/token_manager.go`, `batch.go`, `health_checks.go`) | `accounts.status`, failure counters, `account_tokens.token_version` | refresh, disable, enable, health check | Microsoft token endpoint, Graph, sync | compare-and-set on the version, stale status written back, disabling during a refresh |
| Device authorisation (`accounts/oauth.go`) | jobs in memory | start, poll, confirm, restart, cancel | token endpoint, accounts | job replaced or cancelled while it is being finalised |
| Credential import (`accounts/oauth_import.go`) | `oauth_import_jobs`, `oauth_import_items` with staged cipher text | start, process with four workers, finish, resume at unlock | token endpoint, accounts | two resumptions of one job, crash before the staged secret is cleared |
| Administrator (`auth/*.go`, `datakey`, `secretbox`) | `admins`, sessions, set-up token, key ring, node key file | set up, log in, unlock at start, log out | all users of the data key | one-time TOTP steps, key file and database written separately |
| Updater (`updater/service.go`, `maintenance/updates.go`) | job files, `.env`, process lock | start, verify, pull, back up, restart, roll back, recover | Docker, GitHub, cosign | crash between any two steps, failed rollback |
| Maintenance (`maintenance/service.go`) | backup files, settings | backup, diagnosis | database | mostly input and output |
| API tokens (`apitoken/service.go`) | `api_tokens` | create, verify, revoke, delete | HTTP | expiry, scope and revocation races |
| HTTP, configuration, database, web client | none of their own | routing, migrations, wiring | all services | none beyond the services' |

What must be right, component by component: the clean-up never hides or deletes mail
it was not told to, and never loses track of it; the queue sends each notification,
once unless a result was lost; an account's status follows its credentials; an
authorisation binds one Microsoft user to one account; an import handles each line
once and forgets its secret; a login code works once; an update ends on a running
version, the old one or the new one.

## 2. Modules

| Module | What it models |
|---|---|
| `CleanupPromise` | Abstract: the life of one message in the clean-up |
| `Cleanup` | The clean-up life cycle of one account: rows, mailbox, mutex, all handlers; implements `CleanupPromise` |
| `MCCleanup` | Values and symmetry of its instances |
| `CleanupProofs` | Inductive invariant, theorems and the refinement proof about `Cleanup` |
| `NotifyPromise` | Abstract: what the notification centre promises of one delivery |
| `Notify` | The delivery queue, its callers, its workers, restarts; implements `NotifyPromise` |
| `MCNotify` | Symmetry of its instances |
| `NotifyProofs` | Inductive invariant, theorems and the refinement proof about `Notify` |
| `Account` | Status, failure counters and token row of one account, with everything that writes them |
| `MCAccount` | Symmetry of its instances |
| `AccountProofs` | Inductive invariant and theorems about `Account` |
| `Authorize` | Device authorisations, credential replacements and the credential import over one table of accounts |
| `AuthorizeProofs` | Inductive invariant and theorems about `Authorize` |
| `JobQueue` | The two job queues of the mail service, callers, workers, scheduler, shut-down |
| `JobQueueProofs` | Inductive invariant and theorems about `JobQueue` |
| `Unlock` | Set-up, log-in, sessions, the data key in memory and the node key file over restarts |
| `UnlockProofs` | Inductive invariant and theorems about `Unlock` |
| `Updater` | An update: updater processes, settings file, containers, database and its copies |
| `UpdaterProofs` | Inductive invariant and theorems about `Updater` |
| `MCDeployment` | The last four for TLC, one at work in each behaviour |
| `DeploymentProofs` | The composition implements each of the four, and keeps what they promise |

`Cleanup`, `Notify` and `Account` have runs of their own.  The four modules around the
mail share no variable and call nothing of each other (they meet only where one
constrains the environment of another: an unlock resumes imports and starts the
queues, an update restarts the server, and each module has that as an action of its
own).  `MCDeployment` therefore checks their sum, not their product: `part` says which
one is at work, the others stay in their initial state.  That nothing is lost by taking
them together is proved in `DeploymentProofs`.

### 2.1 Cleanup

The database (`category`, `flagged`, `hidden`, `state`, `attempts`, ...) and the
mailbox (`remote`) are separate variables, because the code cannot change both in one
step.  Administrator requests, the clean-up scheduler, the sync worker and the
start-up reclassification are processes with a program counter.  A handler that calls
Graph is three actions: the check (`ApproveCleanup`, `RestoreCleanup`,
`MoveMessageToDeletedItems`, `CompleteCleanup`, ...) which takes the account mutex,
the move (`ApproveMove`, ... through `GraphMove`: done, done but the answer lost, or
not done), and the commit (`ApproveCommit`, ...) or `Rollback`.  Handlers that only
touch the database (`CorrectMessageCategory`, `SetAccountCleanupProtected`,
`RetryCleanup`, re-evaluations) take no mutex in the code and are single steps that
may fall between the three.  `RefreshCandidates` is part of every action whose
transaction calls `refreshCleanupCandidateTx`.  `ProcessDueCleanup` snapshots its list;
`CompleteCleanup` handles one entry later.  `SyncAccount`, `FetchEntry`,
`ApplyPresent`, `ApplyRemoved` and the rescue are the sync worker; a page is applied
entry by entry, which is coarser in the code (one transaction) for the fields of one
message only.  `Crash` ends every handler where it is; `UserMoves` is the owner in
Outlook.  Time is abstract: `GraceElapses` and `RetryElapses` may happen at any moment.

Statements fail as in the code: a failed load of a due record is a failed attempt
(`CompleteUnread`), the due list may end early (`ProcessDueCleanup` takes any nonempty
part of it), and `recordCleanupFailure` ignores the errors of its SELECT (`CountUnread`:
the count starts again at one) and of its UPDATE (`RecordUnwritten`: nothing is counted).

`CleanupPromise` forgets all of this but three things about a message: its stage (open,
proposed, held, blocked, gone, or lost: out of view and none of these), whether it is in
view, and what an administrator has asked for and not been answered yet.  `StageOf` and
`AskedOf` map the values of `cleanup_actions.state` and the handler that holds the
account mutex to them.  An approval can be asked for only of proposed mail, a deletion
only of mail in view, a restoration only of held or blocked mail; and `KeepsPromise` says
that every step of `Cleanup` takes each message along one way the promise has.  So mail
leaves the view only by an approval that was asked for while it was proposed or by a
deletion asked for while it was in view, comes back only by a restoration that was asked
for, is not completed under such a request, and stays deleted once it is.  One way is an
exception, and named as such: `Strand`, the late approval of section 6.

### 2.2 Notify

`status`, `attempts`, `waiting` and `order` are the columns of
`notification_deliveries` (a delivery is a source and a channel, which is what its
dedupe key says).  A caller lists its channels (`EnqueueMessage`, `EnqueueSystem`,
`TestChannel`), inserts row after row (`InsertDelivery`, `InsertFails`) and signals
(`EnqueueReturns`).  A worker is `ClaimDelivery` (one transaction), `Send`, and
`RecordSent` or `RecordFailure`, each of which may fail instead (`ClaimFails`,
`RecordFails`), then sleeps on `wake` (`Wake`) or the ticker (`Tick`).  Deleting a
channel or an account removes rows under a worker's hands.  `Start` queues interrupted
deliveries again, or silently fails to; `Crash` ends the process anywhere.
`accepted`, `doubt` and `quiet` are history: what the push service really took, whose
answer never reached the row, and what the code leaves to the 30 second ticker.

### 2.3 Account

`status`, `token` (version, authorisation, age), `tokenFailures`, `syncFailures` and
`waiting` are the columns.  A user of a token, a health check or the sync worker, walks
through `accessToken`: it takes the mutex and loads (`LoadRefused`, `LoadUsable`,
`LoadDue`), notes the attempt (`MarkAttempt`), asks Microsoft (`Redeem`,
`RedeemFails`) and records the result under the version it loaded (`CommitRefresh`,
`MarkReauthorization`, `RecordConfigurationError`, `RecordTemporaryFailure`); a result
for a version that is gone sends it round the loop once more (`Retry`).  With the lease
it calls Graph (`GraphAccepts`, `GraphRejects`, `GraphFails`) and writes its own verdict
(`RecordHealth`, `RecordGraphDenial`, `RecordGraphFailure`, `SyncSucceeds`,
`RecordSyncFailure`).  `PersistAuthorization` stands for every way to store a new
authorisation, and `AuthorizationFails` for the failed ones; `Disable`, `Enable` and
`Delete` are the administrator; none of these takes the mutex.  `Abandon` is a
cancelled request, a failed statement or the end of the process.  Time is abstract: a
token becomes due and expires, a retry delay passes, at any moment.  Counters stop at
the threshold, beyond which the code does not distinguish them.  `grants`, `refused`,
`spent` and `late` are history.

### 2.4 Authorize

`rows` are address, Microsoft user and status of the accounts; `flow` and `current`
are the in-memory jobs and the map from account to job of `oauth.go`; `poller` is the
goroutine or request at work for a flow, `edit` the administrator's change that has
committed but not yet invalidated the flow.  `StartAuthorization` reads the account,
`RegisterAuthorization` is the answer of Microsoft that replaces whatever flow the
account has by then, `PollAuthorization` looks at the state again when somebody has
consented, `ConfirmAuthorization` and `RestartAuthorization` answer a question about
another address, `StoreAuthorization` is the transaction and `FinishAuthorization` its
outcome.  `ReplaceOAuthCredentials` does the same in one request (`ValidateReplacement`,
`StoreReplacement`); a flow stands for it without a job.  `UpdateAccount`, `SetDisabled`
and `Delete` are `EditAddress`, `Disable` and `Delete`, each followed by
`InvalidateAuthorization` in a step of its own, as in the code.

`import` and `line` are `oauth_import_jobs` and `oauth_import_items`, with the staged
secret; `run` is one call of `processOAuthImport`, `task` one of its lines:
`LoadLine`, `CheckLine` (mark and look up), `ValidateLine`, `CreateAccount`,
`StoreLine`, `RemoveAccount` (the roll-back of a created account) and `CompleteLine`,
then `FinishOAuthImport`.  A statement of the import may fail wherever the code has one:
the processing cannot be marked or listed (`ProcessFails`), a row of the list cannot be
read or the list ends early (`List`), the SELECT of a line fails (`LoadLine`), a line is
not marked (`CheckLine`), the created account stays (`RemoveAccount`), the verdict is not
written (`CompleteLine`), the import is not completed (`FinishFails`).  A line given up in
this way is `"dropped"`, and `neglected` once its processing has completed the import
all the same.  `StopServer` ends all of it; `ResumeOAuthImports` begins a processing at an
unlock, also beside one that is at work.  Both ways store through `Storable` and
`PersistAuthorization`.  `stopped`, `doubled` and `neglected` are history.

### 2.5 JobQueue

The variables are the fields of `mail.Service`: `highPriority`, `background`,
`backgroundJobs`, and the goroutines.  `SyncAccount` and `EnqueueAll` are requests that
`Send` into the bounded queue and may `Leave` (cancelled or timed out); the rows
cursor of `EnqueueAll` holds a database connection until its last send
(`FreeConnection`), and any number of them may do so, as many as there are connections.
A worker looks at the callers' queue first (`TakeFirst`), then waits for either
(`TakeAny`), takes the account's lock (`LockAccount`), needs a connection
(`Synchronise`) and takes the mark away and answers (`Release`).  The
scheduler is `Plan`, `Mark`, `Queue`, `GiveUpQueueing` and `Wait`, cut short by
`UpdateSettings`.  `Close` cancels the context.  What a synchronisation does to mail is
`Cleanup`, to the account `Account`.

### 2.6 Unlock

`admin` is the row: the data key its secrets are sealed with, the node key that seals
the automatic unlocking, and the last one-time step; a key or a ciphertext is named by
a number.  A request walks through `BeginSetup`, `StartSetup`, `TakeChallenge` or
`ReadAdmin`, `VerifyLogin`, then `ReadNodeKey`, `WriteNodeKey`, `Commit` and
`UnlockKeyring`: no lock covers them, only `Commit` is a transaction.  `Boot` is
`ValidateStartup` and `AutoUnlock`; `ServerStops`, `NodeKeyLost`, `BackUp` and
`RestoreCopy` are the world.  `opened`, `used`, `lost` and `collided` are history.

### 2.7 Updater

`env` is the version in the settings file, `app` the container, `database` the live
file (schema and contents), `kept` what lies in copies that no code deletes, `backups`
those an administrator may delete, `oneOff` the one-off containers that back up and
restore, `updateLock` the lock file, `jobs` the job files.  A job is one action per
step of `runJob` and `rollback`: each may fail, where a command may fail before or
after its effect, and `UpdaterDies` may come between any two.  A one-off container goes
on when the command that started it is killed, so its steps (`CreateUpdateBackup`,
`RestoreStages`, `RestoreArchives`, `RestoreActivates`) are actions of its own, as are
those of the application (`CreateDatabase`, `Migrate`, `Serve`, `Write`, ...).
`StartUpdater` is the recovery: it only marks the open jobs.  `OperatorUp` is the
operator who looks after an interrupted update.  `stored`, `began` and `exposed` are
history.

## 3. Runs

| Run | Question | Bounds |
|---|---|---|
| `cleanup_safety` | rows, mailbox and protections stay consistent; the abstract life cycle is kept | 1 message, 1 administrator, scheduler, sync, reclassification, 2 attempts |
| `cleanup_batch` | nothing is hidden that was not moved, batches included | 2 messages, marketing only, owner passive |
| `cleanup_liveness` | due mail is settled | 1 message, no crashes |
| `cleanup_grace`, `cleanup_recoverable`, `cleanup_outlook_restore` | three disagreements of code and docs (section 6) | as `cleanup_safety` |
| `notify_safety` | exclusive claims, truthful results, no lost wake-up, the promise of one delivery | 1 message, 2 channels, 2 workers, 1 caller, 2 attempts, 3 with retries |
| `notify_liveness` | queued deliveries are settled | an alert, a test, 1 channel, 1 worker, 2 callers, no crashes |
| `account_safety` | tokens, verdicts and status agree whatever overlaps | 1 check, 1 sync, threshold 2, 2 token versions |
| `account_sync_failure` | a disagreement of code and tests (section 6) | 2 checks, 1 sync, 1 version |
| `deployment_safety` | Update: outcomes are true, nothing is lost, no old image on a new schema. Unlocking: one session per code, the right key in memory, restarts unlock. Authorisation: one account per user, cancelled flows store nothing, links are confirmed, a completed import keeps a credential or an open line only where a failed statement left it. Queues: each mark and each waiting caller has exactly one job | 2 updaters, 2 versions, 2 jobs, 1 write; 2 requests, 2 data keys, 2 node keys, 1 restore; 2 accounts, addresses, people and flows, 1 line, 2 processings, 1 stop; 2 synchronised accounts, 2 workers, 1 caller, capacities 1, 1 connection |
| `deployment_liveness` | an import completes; nobody waits for ever | 1 account and line, 2 processings, 2 stops; 1 worker, 2 callers, 1 connection |

The bounds are enough for what the properties relate.  The clean-up's handlers act on
one message each, so that one message meets every pair of handlers; two are needed
only for a batch, whose items may fail separately.  The second failed attempt is the
last, so that both the retry and the surrender happen.  Two notification workers are
what the code starts; two channels make the order of the queue and the failing insert
in the middle matter; a second caller makes the dedupe key matter.  `MaxTries` bounds
the administrator's retries and lets one exceed `MaxAttempts`.  Two users of a token
contend for the mutex and for the replacement of a rejected token, and two versions
make one of them old; the check reaches every branch of the token manager, the sync
every writer of the second counter.  Threshold 2 (3 in the code) separates the first
failure from the one that degrades.  `cleanup_safety` has the constraint `Bounds` of
`MCCleanup`: mail whose category the administrator corrected is not also mail that failed
to be cleaned (in the step or recorded), or that its owner or a crash moved.
What follows a correction and what
follows a failure are both explored, each beside everything else.  The theorems remove
all these bounds for safety.

In `deployment_safety` two of everything that contends is what the properties
relate: two updaters for the lock file, two requests for a code, a set-up or the key
file, two accounts for a person, two workers for an account.  The second version is
the one with a newer schema, the second job the one that meets the leftovers of the
first.  One connection, which a listing of all accounts takes from the workers, is the
pool at its limit (four in the code, with four such listings).

The run follows the steps that stay within `Bounds` (`BoundedSpec`), which cuts four
things.  One account at a time is disabled or deleted: no handler relates the status of
two accounts.  The authorisation is checked as three parts: device flows with one
replacement and the administrator, the import with stops and the administrator (where an
edit, which has no flow to invalidate, is over before anything else happens), and one
device flow beside the import (`devices and import`), where no edit is under way.  Of the
import, a line that still has its credential is given up only where the import is alone
and no second processing has begun, and a stop together with a second processing is
looked at only while no account is out of use: each pair of stops, failures, overlapping
processings and accounts out of use but the one of failures and overlaps is explored.
And states in which a database was replaced under somebody's feet (`exposed`: a restore at
work beside a running application, another update or another restore) are not explored:
there the properties claim nothing, because the code promises nothing (a `compose stop`
that failed is ignored by the roll-back, and a killed command leaves its container at
work).  The theorems have none of these restrictions but the last, which the properties
state themselves.

Deadlock checking is off where all processes may be at rest: nothing then is due.

## 4. Fairness

Liveness is checked without crashes (a server that keeps crashing promises nothing).

* `Cleanup`: the scheduler runs every minute, Graph calls have a 30 second timeout and
  the database a busy timeout, so every handler that began ends; the list of due mail is
  not refused for ever; `CompleteCleanup` is strongly fair because the account mutex is a
  Go mutex, which starves no waiter, and because not every load of a record fails.  What is
  not assumed is that failures get recorded: `DueMailIsSettled` says instead that mail may
  stay held only if attempts go uncounted again and again (`CountIsLost`).
* `Notify`: the ticker fires, sends end (HTTP timeout), a started worker goes on.  The
  claim is strongly fair: its transaction does not fail for ever.  Signals (`Wake`),
  callers and administrators get no fairness.
* `Authorize`: a processing of the import is a goroutine whose requests have timeouts;
  after a stop, or a statement that failed, somebody unlocks again, and every log-in is an
  unlock (auth/service.go:398), which resumes the imports.  Listing and completing an import are
  strongly fair: these statements do not fail every time.  Stops are bounded (`MaxStops`),
  and `ImportCompletes` holds over all of them.
* `JobQueue`: workers and scheduler are goroutines.  Go channels, mutexes and the
  connection pool serve those who wait in turn, hence strong fairness of `Send`,
  `LockAccount` and `Synchronise`.  Requests get fairness to leave when the server shuts
  down, which cancels them, and a request for all accounts to leave in any case: its client
  goes away, or the server's `ReadTimeout` of 15 seconds (cmd/server/main.go:136) ends its
  context.  Without that assumption `NobodyWaitsForever` is false: listings on every
  connection and the workers wait for each other.  A request that waits for its own
  synchronisation is not assumed to give up.  The
  choice between the two queues in `TakeAny` gets none: `NobodyWaitsForever` holds
  because of the first look at the callers' queue.

## 5. Proofs

TLAPS proves every theorem listed in `PROJECT.json` for all values of the constants,
from the named assumptions on the constants only (process names differ, limits are
positive, sources are disjoint).

`CleanupProofs`: `HiddenAgrees` and `RemoteAgrees` are not inductive, because a handler
commits on the strength of what it checked one or two steps earlier.  `IInv` adds the
mutex discipline (`MutexOK`: a process is at a locked step exactly when it holds the
mutex), what a checked handler may still rely on although unlocked handlers run
(`Checked`: for instance, a message being approved is a candidate or has been dismissed
meanwhile, never held), where a message is between move and commit (`Moved`) and the
attempt budget.  The action properties follow from `IInv` and the step (`SafeStep`).
The refinement of `CleanupPromise` (`PromiseIsKept`) stands on the same invariant: each
action is one of a few kinds for the rows (`QuietSteps`, `Evaluating`, `Deciding`,
`Cleaning`), and `Checked` excludes what the guards alone would allow, such as an
approval that commits on a message that was held, restored or deleted since its check.
That a request is still the one that was asked for follows from the mutex discipline: its
handler holds the account mutex from the check to the commit.
`DeletionIsFinal` is the same fact about one stage, said of the columns.

`NotifyProofs`: `NoDoubleSend` needs to know who knows that a delivery was taken: its
row says so, or a worker that is about to record it, or it is in doubt (`TallyOK`).
That holds only while claims are exclusive (`ClaimIsExclusive`), which holds because
only a queued row is claimed and only failed rows are retried.  The refinement of
`NotifyPromise` is proved step by step from the same invariant.

`AccountProofs`: the token manager's mutex orders its own callers only, so the argument
is about versions.  A version is never reused (`Advance`), hence whatever a user read
or leased is either what is stored or older than it (`Past`, `Known`), and each write
that compares versions writes something true.  `SpentOK` (while a redeemed refresh
token is stored, its redeemer holds the mutex and is about to store the answer) gives
`RedeemedOnce`.  `StillStep` and `KnownKept` carry this over the steps of others, and
`KnownOwn` over a user's own.  `DisabledStays` follows from the guards alone.

`AuthorizeProofs`: a link is written by the one transaction only, so `RowStep` says
what any step may do to the rows, and `OneAccountPerPerson` is inductive.  For
`CancelledFlowStoresNothing`, `FlowOK` ties what works for a flow to the state of the
flow: a cancelled one is left as failed or gone, and only one that waits or was
confirmed goes on to store.  For the import, `TaskOK` says what a line in hand knows,
and `Settling` that without a second processing each line either has its verdict and no
secret, or is open with its secret and, while the import is being worked on, in hand or
given up; hence exactly the neglected lines of a completed import are open, and a stop
loses nothing.  `Secrets` needs no such condition: a line that still has its secret is in
the hands of every processing at work or was given up by it, whoever settles it in the
end, and a processing completes the import only when its hands are empty, so a credential
left in a completed import is on a line that was neglected.  `Backed` of the
action property follows from `FlowOK` and `TaskOK`: what is about to be stored was
confirmed or is of the address that was read.

`JobQueueProofs`: `Once` says that a marked account is in exactly one of three places
(the scheduler's hand, one position of the queue, one worker) without counting; it is
inductive with the queues' bounds and the emptiness of idle workers' hands.  The
cardinality of the property is derived from it last (`Counting`).  `Owed` says the
same of callers: while one has no answer, whether it waits or has left, its job is at
one position of the callers' queue or at one worker, and otherwise nowhere.  Together
they are `JobsAreExact`; the second stands on the first, not the other way round.

`UnlockProofs`: requests hold what they read before a transaction of somebody else.
`RequestOK` says what stays true of it: a login's key is the row's, because a row is
never replaced while the server is up; a seal is the key file's, unless two requests
made one at once.  `UsedOK` (used steps are at most the row's last one) gives
`OneSessionPerCode`.

`UpdaterProofs`: `Control` gives each stage of the one job at work (`LockOK`) what its
container has done and which version the settings name.  `Data` says that no schema
that may still come back is above an image that may still be started (`Low`), and what
the job's backup holds (`WorkOK`, `RestoreFits`).  That the truth of an outcome needs all
of this is the point: "rolled back" is true because the backup was complete, taken
while nothing ran, and restored before the old image started.

`DeploymentProofs`: a step of the composition is a step or a stutter of every part
(`StepOfParts`), so it implements their specifications (`ImplementsUpdater`,
`ImplementsUnlock`, and with the fairness of the live one `ImplementsAuthorize` and
`ImplementsJobQueue`), their invariants hold together (`PartsInvariance`), and
`PartsKeepTheirPromises` states what `deployment_safety` checks of
`Spec`: the run explores the steps of `Spec` that stay within `Bounds` (`BoundedSpec`) on
small constants, the theorems have neither restriction.

Every type invariant, safety invariant, action property and refinement of a passing run
is a theorem.  Model-checked only: liveness (`DueMailIsSettled`, `QueuedIsSettled`,
`ImportCompletes`, `NobodyWaitsForever`), since the prover handles neither ENABLED nor
the fairness that is built on it; the fairness of the composition is passed on as it
stands, without looking into it.

## 6. Disagreements found

Each of the first four is a run that expects a violation, with the trace as its evidence.

1. `cleanup_grace`: an entry of a stale due list is executed although the message was
   restored and approved again meanwhile; `completeCleanup` re-reads only the state.
   The new approval gets no 14 days.
2. `cleanup_recoverable`: blocked mail (starred or protected while held) becomes
   `failed`, and the next re-evaluation turns that into `dismissed`; the mail stays
   hidden and no operation of the clean-up accepts it any more.
3. `cleanup_outlook_restore`: mail restored in Outlook, as the README tells the owner
   to, stays hidden, because the upsert does not clear `hidden_from_inbox`.
4. `account_sync_failure`: a refresh that fails for the moment writes the status it
   loaded before it began.  If sync failures degraded the account since, it is active
   again, which tests rule out for refreshes and checks; the next failure repairs it.

Three more are part of the models, as named exceptions of properties that hold
otherwise:

5. Late approval (`CleanupPromise!Strand`).  `ApproveCleanup` commits `hidden_from_inbox`
   after the move without looking whether its second UPDATE met a row (cleanup.go:162-174).
   If a re-evaluation withdrew the proposal during the move, the mail ends hidden in the
   holding folder with no row from which it could be restored or completed, against
   README.md:9 and :38 (a recovery period of 14 days) and SECURITY.md:17.
6. Neglected lines (`neglected`).  `processOAuthImport` completes the import whatever became of
   its lines, and the errors of the statements that load a line (oauth_import.go:219-221),
   list the lines (178-184) or write a verdict (493) are ignored: such a line stays open, with
   its credential, in an import that is never resumed.  docs/oauth-credential-import.md:39
   says that the credential is cleared at once; here only the purge after 24 hours does it.
7. Lost records (`CountIsLost`).  `recordCleanupFailure` ignores the errors of its SELECT and
   of its UPDATE (cleanup.go:445 and 452); while these fail, due mail that cannot be moved
   stays held and is never reported as failed.

## 7. Plan

Done: the clean-up, notifications, accounts and tokens; the job queues; authorisation
and import; unlocking; updates; the abstract life cycles of clean-up and delivery with
their refinement proofs; a theorem for every safety property.  Left, most important first:

1. Extensions of `Cleanup`: delta cursors with resets and lost pages; the holding folder
   that the owner may delete.
2. An unlock, a stop and an update as one action of the whole deployment, so that
   import, queues, notifications and keyring are checked against the same restarts.
3. Pure algorithms (retry delays, disk classes, precedence of classification and
   notification rules) against reference definitions.
4. API tokens: a use that races with a revocation.

## 8. Not modelled

Parsing and rendering of mail, full-text search, HTML sanitising, audit rows, page and
query code, ciphers and password hashing (their results are taken as given), SQL below
the transaction, the web client, container and shell tooling.  SQLite transactions
are atomic steps, since all of them are immediate and the engine serialises writers.

Of the modelled parts:

* Clean-up and synchronisation: a transaction that protects an account reads its list of
  messages to the end (`SetAccountCleanupProtected` does not ask whether that list broke
  off); delta cursors, paging and 410 resets; the clean-up
  scheduler and the first reclassification are steps of `Cleanup`, not of `JobQueue`.
* Notifications and accounts: the WXPush token cache, rule matching, the limit on
  refreshes at the same time, the queue of health checks.
* `Authorize`: the Microsoft client configuration (its change cancels no flow), error
  codes, the slots that bound concurrent validations, more than one import, the purge
  of imports completed a day ago.  With
  overwriting off, the model reaches an import that replaces an authorisation made
  while the line was being validated: the account was looked up before.  No property
  forbids it.
* `JobQueue`: `Status`, the intervals, and the starvation of scheduled jobs by an endless
  stream of manual ones, which the two queues intend.
* `Unlock`: rate limits, the counter of failed logins, session expiry by time, ciphers.
* `Updater`: the HTTP interface of the daemon, the check for releases in the
  application, signatures and digests (they decide only whether a step fails), and a
  restore that the operator runs by hand.
* API tokens, HTTP routing, listings and diagnosis: single statements or queries
  without a protocol between steps.
