------------------------------ MODULE JobQueue ------------------------------
(* The job queues of mail synchronisation: callers ask for one account and   *)
(* wait, or for all of them; a scheduler queues the accounts that are due,   *)
(* each once; workers take jobs, the callers' first. Listing the accounts    *)
(* holds a database connection while the queue is full.                      *)
EXTENDS Naturals, Sequences, FiniteSets

CONSTANTS
  Synced,         \* accounts with mail to synchronise
  Workers,        \* goroutines of worker
  Callers,        \* requests at the same time
  Nobody,         \* caller of a job that nobody waits for
  HighCapacity,   \* slots of highPriority
  BackgroundCapacity, \* slots of background
  Connections     \* of the database pool

ASSUME JobQueueConstants ==
  /\ Nobody \notin Callers /\ Nobody \notin Synced
  /\ HighCapacity \in Nat \ {0} /\ BackgroundCapacity \in Nat \ {0}
  /\ Connections \in Nat \ {0}

VARIABLES
  started,         \* Start has run
  stopping,        \* ctx is cancelled
  highPriority,    \* the callers' jobs
  background,      \* the scheduler's jobs
  backgroundJobs,  \* accounts marked as queued or running
  worker,          \* what each worker does, and its job
  scheduler,       \* what the scheduler does, its plan and the account in hand
  settingsChanged, \* a signal waits for the scheduler
  caller           \* what each caller does, and the accounts it still has to send

queueVars == <<started, stopping, highPriority, background, backgroundJobs, worker, scheduler,
               settingsChanged, caller>>

Job(a, c, m) == [account |-> a, from |-> c, manual |-> m]
NoJob    == Job(Nobody, Nobody, FALSE)
Out      == [step |-> "out", accounts |-> {}]
Listing  == {c \in Callers : caller[c].step = "all"}
FreeConnection == Cardinality(Listing) < Connections
Moved(s) == [scheduler EXCEPT !.step = s]

JobQueueInit ==
  /\ started = FALSE /\ stopping = FALSE
  /\ highPriority = <<>> /\ background = <<>>
  /\ backgroundJobs = {}
  /\ worker = [w \in Workers |-> [step |-> "off", job |-> NoJob]]
  /\ scheduler = [step |-> "off", plan |-> {}, hand |-> Nobody]
  /\ settingsChanged = FALSE
  /\ caller = [c \in Callers |-> Out]

\* Start, at the first unlock.
Start ==
  /\ ~started /\ ~stopping
  /\ started' = TRUE
  /\ worker' = [w \in Workers |-> [step |-> "idle", job |-> NoJob]]
  /\ scheduler' = Moved("planning")
  /\ UNCHANGED <<stopping, highPriority, background, backgroundJobs, settingsChanged, caller>>

\* Close cancels ctx; it returns when the goroutines have ended.
Close ==
  /\ ~stopping /\ stopping' = TRUE
  /\ UNCHANGED <<started, highPriority, background, backgroundJobs, worker, scheduler,
                 settingsChanged, caller>>

\* UpdateSettings: one signal at most waits for the scheduler.
UpdateSettings ==
  /\ ~stopping /\ settingsChanged' = TRUE
  /\ UNCHANGED <<started, stopping, highPriority, background, backgroundJobs, worker, scheduler,
                 caller>>
-----------------------------------------------------------------------------
(* Callers. None comes after Close: the server no longer listens.            *)

SyncAccount(c, a) ==
  /\ ~stopping /\ caller[c] = Out /\ FreeConnection
  /\ caller' = [caller EXCEPT ![c] = [step |-> "sync", accounts |-> {a}]]
  /\ UNCHANGED <<started, stopping, highPriority, background, backgroundJobs, worker, scheduler,
                 settingsChanged>>

\* EnqueueAll lists the accounts and keeps the cursor, and its connection. Nothing
\* limits such requests but the connections there are.
EnqueueAll(c, A) ==
  /\ started /\ ~stopping /\ caller[c] = Out /\ FreeConnection
  /\ A # {}
  /\ caller' = [caller EXCEPT ![c] = [step |-> "all", accounts |-> A]]
  /\ UNCHANGED <<started, stopping, highPriority, background, backgroundJobs, worker, scheduler,
                 settingsChanged>>

Send(c) ==
  /\ caller[c].step \in {"sync", "all"} /\ Len(highPriority) < HighCapacity
  /\ \E a \in caller[c].accounts :
       LET rest == caller[c].accounts \ {a} IN
       IF caller[c].step = "sync"
       THEN /\ highPriority' = Append(highPriority, Job(a, c, TRUE))
            /\ caller' = [caller EXCEPT ![c].step = "waiting"]
       ELSE /\ highPriority' = Append(highPriority, Job(a, Nobody, TRUE))
            /\ caller' = [caller EXCEPT ![c] = IF rest = {} THEN Out ELSE [@ EXCEPT !.accounts = rest]]
  /\ UNCHANGED <<started, stopping, background, backgroundJobs, worker, scheduler,
                 settingsChanged>>

\* Bug: a request for all accounts does not look at its context while it sends.
LeaveUnlessListing(c) ==
  /\ caller[c].step \in {"sync", "waiting"}
  /\ caller' = [caller EXCEPT ![c] = IF @.step = "waiting" THEN [@ EXCEPT !.step = "left"] ELSE Out]
  /\ UNCHANGED <<started, stopping, highPriority, background, backgroundJobs, worker, scheduler,
                 settingsChanged>>

\* The request is cancelled or times out; the job goes on for nobody.
Leave(c) ==
  /\ caller[c].step \in {"sync", "all", "waiting"}
  /\ caller' = [caller EXCEPT ![c] = IF @.step = "waiting" THEN [@ EXCEPT !.step = "left"] ELSE Out]
  /\ UNCHANGED <<started, stopping, highPriority, background, backgroundJobs, worker, scheduler,
                 settingsChanged>>
-----------------------------------------------------------------------------
(* Workers.                                                                  *)

Took(w, j) == worker' = [worker EXCEPT ![w] = [step |-> "taken", job |-> j]]
TakeHigh(w) ==
  /\ highPriority # <<>> /\ highPriority' = Tail(highPriority)
  /\ Took(w, Head(highPriority)) /\ UNCHANGED background
TakeBackground(w) ==
  /\ background # <<>> /\ background' = Tail(background)
  /\ Took(w, Head(background)) /\ UNCHANGED highPriority

\* First look: a caller's job, if there is one.
TakeFirst(w) ==
  /\ worker[w].step = "idle"
  /\ \/ TakeHigh(w)
     \/ /\ highPriority = <<>>
        /\ worker' = [worker EXCEPT ![w].step = "looking"]
        /\ UNCHANGED <<highPriority, background>>
  /\ UNCHANGED <<started, stopping, backgroundJobs, scheduler, settingsChanged, caller>>

\* Then whatever comes, or the end.
TakeAny(w) ==
  /\ worker[w].step = "looking"
  /\ \/ TakeHigh(w) \/ TakeBackground(w)
     \/ /\ stopping
        /\ worker' = [worker EXCEPT ![w].step = "ended"]
        /\ UNCHANGED <<highPriority, background>>
  /\ UNCHANGED <<started, stopping, backgroundJobs, scheduler, settingsChanged, caller>>

\* syncAccount takes the account's lock,
LockAccount(w) ==
  /\ worker[w].step = "taken"
  /\ \A v \in Workers : worker[v].step = "syncing" => worker[v].job.account # worker[w].job.account
  /\ worker' = [worker EXCEPT ![w].step = "syncing"]
  /\ UNCHANGED <<started, stopping, highPriority, background, backgroundJobs, scheduler,
                 settingsChanged, caller>>

\* and cannot do without the database, unless it is told to stop.
Synchronise(w) ==
  /\ worker[w].step = "syncing" /\ (FreeConnection \/ stopping)
  /\ worker' = [worker EXCEPT ![w].step = "synced"]
  /\ UNCHANGED <<started, stopping, highPriority, background, backgroundJobs, scheduler,
                 settingsChanged, caller>>

\* Bug: a caller's job takes the mark away too.
ReleaseAny(w) ==
  /\ worker[w].step = "synced"
  /\ LET j == worker[w].job IN
     /\ backgroundJobs' = backgroundJobs \ {j.account}
     /\ caller' = IF j.from = Nobody THEN caller ELSE [caller EXCEPT ![j.from] = Out]
  /\ worker' = [worker EXCEPT ![w] = [step |-> "idle", job |-> NoJob]]
  /\ UNCHANGED <<started, stopping, highPriority, background, scheduler, settingsChanged>>

\* The mark goes with the scheduler's job, and the caller has its answer.
Release(w) ==
  /\ worker[w].step = "synced"
  /\ LET j == worker[w].job IN
     /\ backgroundJobs' = IF j.manual THEN backgroundJobs ELSE backgroundJobs \ {j.account}
     /\ caller' = IF j.from = Nobody THEN caller ELSE [caller EXCEPT ![j.from] = Out]
  /\ worker' = [worker EXCEPT ![w] = [step |-> "idle", job |-> NoJob]]
  /\ UNCHANGED <<started, stopping, highPriority, background, scheduler, settingsChanged>>

Work(w) == TakeFirst(w) \/ TakeAny(w) \/ LockAccount(w) \/ Synchronise(w) \/ Release(w)
-----------------------------------------------------------------------------
(* The scheduler.                                                            *)

\* scheduledAccounts: the accounts that are due; none when the listing fails.
Plan ==
  /\ scheduler.step = "planning" /\ (FreeConnection \/ stopping)
  /\ \E A \in SUBSET Synced : scheduler' = [step |-> "pacing", plan |-> A, hand |-> Nobody]
  /\ UNCHANGED <<started, stopping, highPriority, background, backgroundJobs, worker,
                 settingsChanged, caller>>

\* enqueueBackground marks the next account; one that is marked is passed over.
Mark ==
  /\ scheduler.step = "pacing"
  /\ \E a \in scheduler.plan :
       IF a \in backgroundJobs
       THEN /\ scheduler' = [scheduler EXCEPT !.plan = @ \ {a},
                                              !.step = IF stopping THEN "ended" ELSE @]
            /\ UNCHANGED backgroundJobs
       ELSE /\ scheduler' = [step |-> "queueing", plan |-> scheduler.plan \ {a}, hand |-> a]
            /\ backgroundJobs' = backgroundJobs \cup {a}
  /\ UNCHANGED <<started, stopping, highPriority, background, worker, settingsChanged, caller>>

\* Bug: the queue has no end.
QueueUnbounded ==
  /\ scheduler.step = "queueing"
  /\ background' = Append(background, Job(scheduler.hand, Nobody, FALSE))
  /\ scheduler' = [scheduler EXCEPT !.step = "pacing", !.hand = Nobody]
  /\ UNCHANGED <<started, stopping, highPriority, backgroundJobs, worker, settingsChanged, caller>>

Queue ==
  /\ scheduler.step = "queueing" /\ Len(background) < BackgroundCapacity
  /\ background' = Append(background, Job(scheduler.hand, Nobody, FALSE))
  /\ scheduler' = [scheduler EXCEPT !.step = "pacing", !.hand = Nobody]
  /\ UNCHANGED <<started, stopping, highPriority, backgroundJobs, worker, settingsChanged, caller>>

GiveUpQueueing ==
  /\ scheduler.step = "queueing" /\ stopping
  /\ backgroundJobs' = backgroundJobs \ {scheduler.hand}
  /\ scheduler' = [scheduler EXCEPT !.step = "ended", !.hand = Nobody]
  /\ UNCHANGED <<started, stopping, highPriority, background, worker, settingsChanged, caller>>

\* waitForSchedule, for the next account or, a second at least, the next cycle.
Wait ==
  /\ scheduler.step = "pacing"
  /\ \/ /\ scheduler.plan = {} /\ ~stopping
        /\ scheduler' = Moved("planning") /\ UNCHANGED settingsChanged
     \/ /\ settingsChanged /\ settingsChanged' = FALSE
        /\ scheduler' = [scheduler EXCEPT !.step = "planning", !.plan = {}]
     \/ /\ stopping
        /\ scheduler' = Moved("ended") /\ UNCHANGED settingsChanged
  /\ UNCHANGED <<started, stopping, highPriority, background, backgroundJobs, worker, caller>>

Schedule == Plan \/ Mark \/ Queue \/ GiveUpQueueing \/ Wait
-----------------------------------------------------------------------------
Call(c) ==
  \/ \E a \in Synced : SyncAccount(c, a)
  \/ \E A \in SUBSET Synced : EnqueueAll(c, A)
  \/ Send(c) \/ Leave(c)

JobQueueNext ==
  \/ Start \/ Close \/ UpdateSettings \/ Schedule
  \/ \E w \in Workers : Work(w)
  \/ \E c \in Callers : Call(c)

\* Channels, locks and the connection pool serve those who wait in turn; the rest are
\* goroutines. A request for all accounts ends with its client or the server's
\* ReadTimeout; of one that waits for an answer this is not assumed.
JobQueueFairness ==
  /\ WF_queueVars(Schedule)
  /\ \A w \in Workers :
       WF_queueVars(Work(w)) /\ SF_queueVars(LockAccount(w)) /\ SF_queueVars(Synchronise(w))
  /\ \A c \in Callers :
       /\ SF_queueVars(Send(c))
       /\ WF_queueVars((stopping \/ c \in Listing) /\ Leave(c))

JobQueueSpec == JobQueueInit /\ [][JobQueueNext]_queueVars /\ JobQueueFairness
-----------------------------------------------------------------------------
(* Properties.                                                               *)

SyncJobs == [account : Synced \cup {Nobody}, from : Callers \cup {Nobody}, manual : BOOLEAN]

JobQueueTypeOK ==
  /\ started \in BOOLEAN /\ stopping \in BOOLEAN /\ settingsChanged \in BOOLEAN
  /\ highPriority \in Seq(SyncJobs) /\ Len(highPriority) <= HighCapacity
  /\ background \in Seq(SyncJobs) /\ Len(background) <= BackgroundCapacity
  /\ backgroundJobs \subseteq Synced
  /\ worker \in [Workers -> [step : {"off", "idle", "looking", "taken", "syncing", "synced",
                                     "ended"}, job : SyncJobs]]
  /\ scheduler \in [step : {"off", "planning", "pacing", "queueing", "ended"},
                    plan : SUBSET Synced, hand : Synced \cup {Nobody}]
  /\ caller \in [Callers -> [step : {"out", "sync", "all", "waiting", "left"},
                             accounts : SUBSET Synced]]

\* Where the scheduler's job for an account is: in its hand, queued or at a worker.
Places(a) ==
  {<<"hand", 0>> : h \in {scheduler.hand} \cap {a}}
  \cup {<<"queued", i>> : i \in {i \in DOMAIN background : background[i].account = a}}
  \cup {<<"working", w>> : w \in {w \in Workers : worker[w].job.account = a
                                                  /\ ~worker[w].job.manual}}

\* Where the job of a caller's SyncAccount is: queued or at a worker.
AnswerFrom(c) ==
  {<<"queued", i>> : i \in {i \in DOMAIN highPriority : highPriority[i].from = c}}
  \cup {<<"working", w>> : w \in {w \in Workers : worker[w].job.from = c}}

\* An account is marked exactly while there is one background job for it: it is
\* never queued twice, and no failure, stop or caller leaves a mark behind that
\* would keep the account from ever being scheduled again. A caller that has sent
\* its job and has no answer, whether it still waits or has left, has exactly one
\* job under way: none is lost, and none is done twice or for another caller.
JobsAreExact ==
  /\ \A a \in Synced : Cardinality(Places(a)) = IF a \in backgroundJobs THEN 1 ELSE 0
  /\ \A c \in Callers :
       Cardinality(AnswerFrom(c)) = IF caller[c].step \in {"waiting", "left"} THEN 1 ELSE 0

\* Once the service runs, a caller of SyncAccount has its answer in the end,
\* however many jobs the scheduler and the others queue, also when requests for all
\* accounts hold every connection that the workers need; and Close returns.
NobodyWaitsForever ==
  /\ \A c \in Callers : (started /\ caller[c].step \in {"sync", "waiting"})
                          ~> caller[c].step \notin {"sync", "waiting"}
  /\ stopping ~> (scheduler.step \in {"off", "ended"}
                    /\ \A w \in Workers : worker[w].step \in {"off", "ended"})
===============================================================================
