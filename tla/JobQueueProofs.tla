----------------------------- MODULE JobQueueProofs -----------------------------
(* Theorems about the job queues, for every number of accounts, workers and  *)
(* callers and all capacities.                                               *)
EXTENDS JobQueue, FiniteSetTheorems, SequenceTheorems, TLAPS

\* The jobs of each queue.
HighJobs == {j \in SyncJobs : j.manual = TRUE /\ j.account \in Synced}
BackgroundJobs ==
  {j \in SyncJobs : j.manual = FALSE /\ j.account \in Synced /\ j.from = Nobody}

QueuesOK ==
  /\ highPriority \in Seq(HighJobs) /\ Len(highPriority) <= HighCapacity
  /\ background \in Seq(BackgroundJobs) /\ Len(background) <= BackgroundCapacity

\* A worker without a job holds none, and the scheduler an account only while
\* it queues it; neither does anything before Start.
WorkersOK ==
  /\ \A w \in Workers :
       worker[w].step \in {"off", "idle", "looking", "ended"} => worker[w].job = NoJob
  /\ ~started => \A w \in Workers : worker[w].step = "off"

SchedulerOK ==
  /\ scheduler.step = "queueing" => scheduler.hand \in Synced
  /\ scheduler.step # "queueing" => scheduler.hand = Nobody
  /\ ~started => scheduler.step = "off"

\* The one place where the scheduler's job for an account is.
QueuedAt(a, i) == i \in 1..Len(background) /\ background[i].account = a
WorkingAt(a, w) == worker[w].job.account = a /\ worker[w].job.manual = FALSE

Once(a) ==
  /\ \A i, j \in Nat : QueuedAt(a, i) /\ QueuedAt(a, j) => i = j
  /\ \A v, w \in Workers : WorkingAt(a, v) /\ WorkingAt(a, w) => v = w
  /\ \A i \in Nat : QueuedAt(a, i) => scheduler.hand # a
  /\ \A w \in Workers : WorkingAt(a, w) =>
       scheduler.hand # a /\ \A i \in Nat : ~QueuedAt(a, i)
  /\ a \in backgroundJobs <=> \/ scheduler.hand = a
                              \/ \E i \in Nat : QueuedAt(a, i)
                              \/ \E w \in Workers : WorkingAt(a, w)

WorkerTypes ==
  worker \in [Workers -> [step : {"off", "idle", "looking", "taken", "syncing", "synced",
                                  "ended"}, job : SyncJobs]]

SchedulerTypes ==
  /\ backgroundJobs \subseteq Synced
  /\ scheduler \in [step : {"off", "planning", "pacing", "queueing", "ended"},
                    plan : SUBSET Synced, hand : Synced \cup {Nobody}]

CallerTypes ==
  caller \in [Callers -> [step : {"out", "sync", "all", "waiting", "left"},
                          accounts : SUBSET Synced]]

FlagTypes == started \in BOOLEAN /\ stopping \in BOOLEAN /\ settingsChanged \in BOOLEAN

JobQueueIInv ==
  /\ QueuesOK /\ WorkerTypes /\ SchedulerTypes /\ CallerTypes /\ FlagTypes
  /\ WorkersOK /\ SchedulerOK
  /\ \A a \in Synced : Once(a)
-----------------------------------------------------------------------------
(* Types.                                                                    *)

LEMMA Widening ==
  ASSUME NEW S, NEW T, S \subseteq T, NEW s \in Seq(S)
  PROVE  s \in Seq(T)
OBVIOUS

LEMMA JobQueueTyping == JobQueueIInv => JobQueueTypeOK
<1> SUFFICES ASSUME JobQueueIInv PROVE JobQueueTypeOK
  OBVIOUS
<1>1. HighJobs \subseteq SyncJobs /\ BackgroundJobs \subseteq SyncJobs
  BY DEF HighJobs, BackgroundJobs
<1>2. highPriority \in Seq(SyncJobs) /\ background \in Seq(SyncJobs)
  BY <1>1, Widening DEF JobQueueIInv, QueuesOK
<1> QED BY <1>2 DEF JobQueueIInv, QueuesOK, WorkerTypes, SchedulerTypes, CallerTypes, FlagTypes,
     JobQueueTypeOK

LEMMA NoJobType ==
  /\ NoJob \in SyncJobs /\ NoJob.account \notin Synced /\ NoJob.account = Nobody
BY JobQueueConstants DEF NoJob, Job, SyncJobs

\* The jobs that callers and the scheduler make.
LEMMA SyncJobTypes ==
  ASSUME NEW a \in Synced
  PROVE  /\ \A c \in Callers \cup {Nobody} : Job(a, c, TRUE) \in HighJobs
         /\ Job(a, Nobody, FALSE) \in BackgroundJobs /\ Job(a, Nobody, FALSE).account = a
BY DEF Job, HighJobs, BackgroundJobs, SyncJobs

\* Jobs that come and go at the ends of the queues.
LEMMA Queueing ==
  ASSUME NEW S, NEW q \in Seq(S)
  PROVE  /\ \A j \in S : /\ Append(q, j) \in Seq(S) /\ Len(Append(q, j)) = Len(q) + 1
                         /\ \A i \in 1..Len(q) : Append(q, j)[i] = q[i]
                         /\ Append(q, j)[Len(q) + 1] = j
         /\ Len(q) \in Nat
         /\ q # <<>> => /\ Head(q) \in S /\ Head(q) = q[1] /\ Tail(q) \in Seq(S)
                        /\ Len(q) # 0 /\ Len(Tail(q)) = Len(q) - 1
                        /\ \A i \in 1..Len(Tail(q)) : Tail(q)[i] = q[i + 1]
<1>1. q # <<>> => Head(q) = q[1] /\ Len(q) # 0
  BY EmptySeq, LenProperties
<1> QED BY <1>1, AppendProperties, HeadTailProperties, LenProperties
-----------------------------------------------------------------------------
(* One place for each job.                                                   *)

\* Nothing moves.
LEMMA Staying ==
  ASSUME NEW a \in Synced, Once(a), scheduler'.hand = scheduler.hand, UNCHANGED background,
         a \in backgroundJobs' <=> a \in backgroundJobs,
         \A w \in Workers : WorkingAt(a, w)' <=> WorkingAt(a, w)
  PROVE  Once(a)'
<1>1. \A i \in Nat : QueuedAt(a, i)' <=> QueuedAt(a, i)
  BY DEF QueuedAt
<1> QED BY <1>1 DEF Once

\* The scheduler takes an account that is not marked, and marks it.
LEMMA Marking ==
  ASSUME NEW a \in Synced, Once(a), NEW b \in Synced, b \notin backgroundJobs,
         scheduler.hand = Nobody, scheduler'.hand = b,
         backgroundJobs' = backgroundJobs \cup {b},
         UNCHANGED <<background, worker>>
  PROVE  Once(a)'
<1>1. /\ \A i \in Nat : QueuedAt(a, i)' <=> QueuedAt(a, i)
      /\ \A w \in Workers : WorkingAt(a, w)' <=> WorkingAt(a, w)
  BY DEF QueuedAt, WorkingAt
<1>2. scheduler.hand # a
  BY JobQueueConstants
<1>3. CASE a = b
  <2>1. /\ \A i \in Nat : ~QueuedAt(a, i)
        /\ \A w \in Workers : ~WorkingAt(a, w)
    BY <1>3 DEF Once
  <2>2. scheduler'.hand = a /\ a \in backgroundJobs'
    BY <1>3
  <2> QED BY <1>1, <2>1, <2>2 DEF Once
<1>4. CASE a # b
  <2>1. scheduler'.hand # a /\ (a \in backgroundJobs' <=> a \in backgroundJobs)
    BY <1>4
  <2> QED BY <1>1, <1>2, <2>1 DEF Once
<1> QED BY <1>3, <1>4

\* It puts the account into the queue.
LEMMA HandingOver ==
  ASSUME NEW a \in Synced, Once(a), NEW n \in Nat, n = Len(background),
         NEW b \in Synced, scheduler.hand = b, scheduler'.hand = Nobody,
         Len(background') = n + 1, background'[n + 1].account = b,
         \A i \in 1..n : background'[i] = background[i],
         UNCHANGED <<backgroundJobs, worker>>
  PROVE  Once(a)'
<1>1. n + 1 \in Nat
  OBVIOUS
<1>2. ASSUME NEW i \in Nat
      PROVE  QueuedAt(a, i)' <=> QueuedAt(a, i) \/ (i = n + 1 /\ a = b)
  <2>1. CASE i \in 1..n
    <3>1. background'[i].account = background[i].account /\ i # n + 1 /\ i \in 1..n + 1
      BY <2>1
    <3> QED BY <2>1, <3>1 DEF QueuedAt
  <2>2. CASE i = n + 1
    <3>1. i \notin 1..n /\ i \in 1..n + 1 /\ background'[i].account = b
      BY <2>2
    <3> QED BY <2>2, <3>1 DEF QueuedAt
  <2>3. CASE i \notin 1..n + 1
    BY <2>3 DEF QueuedAt
  <2> QED BY <2>1, <2>2, <2>3
<1>3. \A w \in Workers : WorkingAt(a, w)' <=> WorkingAt(a, w)
  BY DEF WorkingAt
<1>4. scheduler'.hand # a
  BY JobQueueConstants
<1>5. CASE a = b
  <2>1. /\ scheduler.hand = a /\ a \in backgroundJobs'
        /\ \A i \in Nat : ~QueuedAt(a, i)
        /\ \A w \in Workers : ~WorkingAt(a, w)
    BY <1>5 DEF Once
  <2>2. \A i \in Nat : QueuedAt(a, i)' <=> i = n + 1
    BY <1>2, <1>5, <2>1
  <2>3. n + 1 \in Nat
    BY <1>1
  <2> QED BY <1>3, <1>4, <2>1, <2>2, <2>3 DEF Once
<1>6. CASE a # b
  <2>1. \A i \in Nat : QueuedAt(a, i)' <=> QueuedAt(a, i)
    BY <1>2, <1>6
  <2>2. scheduler.hand # a
    BY <1>6
  <2> QED BY <1>3, <1>4, <2>1, <2>2 DEF Once
<1> QED BY <1>5, <1>6

\* A worker without a job takes the next one out of it.
LEMMA TakingUp ==
  ASSUME NEW a \in Synced, Once(a), background \in Seq(BackgroundJobs), background # <<>>,
         NEW v \in Workers, worker[v].job = NoJob, worker'[v].job = Head(background),
         \A w \in Workers \ {v} : worker'[w].job = worker[w].job,
         background' = Tail(background),
         UNCHANGED <<backgroundJobs, scheduler>>
  PROVE  Once(a)'
<1> DEFINE n == Len(background)
<1>1. /\ n \in Nat /\ n # 0 /\ Len(background') = n - 1
      /\ Head(background) = background[1] /\ Head(background).manual = FALSE
      /\ \A i \in 1..(n - 1) : background'[i] = background[i + 1]
  BY Queueing DEF BackgroundJobs
<1>2. \A i \in Nat : QueuedAt(a, i)' <=> i # 0 /\ QueuedAt(a, i + 1)
  BY <1>1 DEF QueuedAt
<1>3. WorkingAt(a, v)' <=> QueuedAt(a, 1)
  BY <1>1 DEF WorkingAt, QueuedAt
<1>4. ~WorkingAt(a, v)
  BY NoJobType DEF WorkingAt
<1>5. \A w \in Workers : w # v => (WorkingAt(a, w)' <=> WorkingAt(a, w))
  BY DEF WorkingAt
<1>6. \A i \in Nat : QueuedAt(a, i) => i # 0 /\ (i = 1 \/ QueuedAt(a, i - 1)')
  <2> SUFFICES ASSUME NEW i \in Nat, QueuedAt(a, i), i # 1
               PROVE  i # 0 /\ QueuedAt(a, i - 1)'
    BY DEF QueuedAt
  <2>1. i # 0 /\ i - 1 \in Nat /\ i - 1 # 0 /\ (i - 1) + 1 = i
    BY DEF QueuedAt
  <2> QED BY <1>2, <2>1
<1>7. CASE QueuedAt(a, 1)
  <2>1. /\ \A i \in Nat : QueuedAt(a, i) => i = 1
        /\ \A w \in Workers : ~WorkingAt(a, w)
        /\ scheduler'.hand # a /\ a \in backgroundJobs'
    BY <1>7 DEF Once
  <2>2. \A i \in Nat : ~QueuedAt(a, i)'
    BY <1>2, <2>1
  <2>3. \A w \in Workers : WorkingAt(a, w)' <=> w = v
    BY <1>3, <1>5, <1>7, <2>1
  <2> QED BY <2>1, <2>2, <2>3 DEF Once
<1>8. CASE ~QueuedAt(a, 1)
  <2>1. \A w \in Workers : WorkingAt(a, w)' <=> WorkingAt(a, w)
    BY <1>3, <1>4, <1>5, <1>8
  <2>2. \A i, j \in Nat : QueuedAt(a, i)' /\ QueuedAt(a, j)' => i = j
    <3> SUFFICES ASSUME NEW i \in Nat, NEW j \in Nat, QueuedAt(a, i)', QueuedAt(a, j)'
                 PROVE  i = j
      OBVIOUS
    <3>1. QueuedAt(a, i + 1) /\ QueuedAt(a, j + 1) /\ i + 1 \in Nat /\ j + 1 \in Nat
      BY <1>2
    <3>2. i + 1 = j + 1
      BY <3>1 DEF Once
    <3> QED BY <3>2
  <2>3. (\E i \in Nat : QueuedAt(a, i)') <=> (\E i \in Nat : QueuedAt(a, i))
    <3>1. ASSUME NEW i \in Nat, QueuedAt(a, i) PROVE i - 1 \in Nat /\ QueuedAt(a, i - 1)'
      BY <1>6, <1>8, <3>1
    <3>2. ASSUME NEW i \in Nat, QueuedAt(a, i)' PROVE i + 1 \in Nat /\ QueuedAt(a, i + 1)
      BY <1>2, <3>2
    <3> QED BY <3>1, <3>2
  <2> QED BY <2>1, <2>2, <2>3 DEF Once
<1> QED BY <1>7, <1>8

\* The mark goes with the job.
LEMMA Unmarking ==
  ASSUME NEW a \in Synced, Once(a), NEW b \in Synced, UNCHANGED background,
         backgroundJobs' = backgroundJobs \ {b},
         a # b => /\ scheduler'.hand = a <=> scheduler.hand = a
                  /\ \A w \in Workers : WorkingAt(a, w)' <=> WorkingAt(a, w),
         scheduler'.hand # b, \A i \in Nat : ~QueuedAt(b, i),
         \A w \in Workers : ~WorkingAt(b, w)'
  PROVE  Once(a)'
<1>1. \A i \in Nat : QueuedAt(a, i)' <=> QueuedAt(a, i)
  BY DEF QueuedAt
<1>2. CASE a = b
  BY <1>1, <1>2 DEF Once
<1>3. CASE a # b
  BY <1>1, <1>3 DEF Once
<1> QED BY <1>2, <1>3
-----------------------------------------------------------------------------
(* The steps of the workers.                                                 *)

\* A worker turns to another step, with the job it has or another one.
LEMMA WorkerTurns ==
  ASSUME WorkerTypes, NEW w \in Workers,
         NEW s \in {"off", "idle", "looking", "taken", "syncing", "synced", "ended"}
  PROVE  /\ worker' = [worker EXCEPT ![w].step = s] =>
              /\ WorkerTypes' /\ worker'[w].step = s /\ worker'[w].job = worker[w].job
              /\ \A v \in Workers \ {w} : worker'[v] = worker[v]
         /\ \A j \in SyncJobs : worker' = [worker EXCEPT ![w] = [step |-> s, job |-> j]] =>
              /\ WorkerTypes' /\ worker'[w].step = s /\ worker'[w].job = j
              /\ \A v \in Workers \ {w} : worker'[v] = worker[v]
BY DEF WorkerTypes

\* A step of a worker changes nothing else but queues, marks and callers.
LEMMA WorkFrame ==
  ASSUME NEW w \in Workers, Work(w)
  PROVE  UNCHANGED <<started, stopping, scheduler, settingsChanged>>
BY DEF Work, TakeFirst, TakeAny, LockAccount, Synchronise, Release

\* What a worker takes.
LEMMA TakingHigh ==
  ASSUME JobQueueIInv, NEW w \in Workers, worker[w].step \in {"idle", "looking"}, TakeHigh(w),
         UNCHANGED <<started, stopping, backgroundJobs, scheduler, settingsChanged, caller>>
  PROVE  JobQueueIInv'
<1> DEFINE j == Head(highPriority)
<1>1. /\ j \in HighJobs /\ Tail(highPriority) \in Seq(HighJobs)
      /\ Len(Tail(highPriority)) <= HighCapacity
  BY JobQueueConstants, Queueing DEF JobQueueIInv, QueuesOK, TakeHigh
<1>2. worker' = [worker EXCEPT ![w] = [step |-> "taken", job |-> j]]
  BY DEF TakeHigh, Took
<1>3. highPriority' = Tail(highPriority) /\ UNCHANGED background
  BY DEF TakeHigh
<1> HIDE DEF j
<1>4. j \in SyncJobs /\ j.manual = TRUE
  BY <1>1 DEF HighJobs
<1>5. /\ WorkerTypes' /\ worker'[w].step = "taken" /\ worker'[w].job = j
      /\ \A v \in Workers \ {w} : worker'[v] = worker[v]
  BY <1>2, <1>4, WorkerTurns DEF JobQueueIInv
<1>6. worker[w].job = NoJob /\ started
  BY DEF JobQueueIInv, WorkersOK
<1>7. WorkersOK'
  BY <1>5, <1>6 DEF JobQueueIInv, WorkersOK
<1>8. QueuesOK'
  BY <1>1, <1>3 DEF JobQueueIInv, QueuesOK
<1>9. ASSUME NEW a \in Synced PROVE Once(a)'
  <2>1. ~WorkingAt(a, w) /\ ~WorkingAt(a, w)'
    BY <1>4, <1>5, <1>6, NoJobType DEF WorkingAt
  <2>2. \A v \in Workers \ {w} : WorkingAt(a, v)' <=> WorkingAt(a, v)
    BY <1>5 DEF WorkingAt
  <2>3. \A v \in Workers : WorkingAt(a, v)' <=> WorkingAt(a, v)
    BY <2>1, <2>2
  <2>4. Once(a)
    BY DEF JobQueueIInv
  <2> QED BY <1>3, <2>3, <2>4, Staying
<1> QED BY <1>5, <1>7, <1>8, <1>9
     DEF JobQueueIInv, SchedulerTypes, CallerTypes, FlagTypes, SchedulerOK

LEMMA TakingBackground ==
  ASSUME JobQueueIInv, NEW w \in Workers, worker[w].step = "looking", TakeBackground(w),
         UNCHANGED <<started, stopping, backgroundJobs, scheduler, settingsChanged, caller>>
  PROVE  JobQueueIInv'
<1> DEFINE j == Head(background)
<1>1. /\ j \in BackgroundJobs /\ Tail(background) \in Seq(BackgroundJobs)
      /\ Len(Tail(background)) <= BackgroundCapacity
  BY JobQueueConstants, Queueing DEF JobQueueIInv, QueuesOK, TakeBackground
<1>2. worker' = [worker EXCEPT ![w] = [step |-> "taken", job |-> j]]
  BY DEF TakeBackground, Took
<1>3. background # <<>> /\ background' = Tail(background) /\ UNCHANGED highPriority
  BY DEF TakeBackground
<1>4. j = Head(background)
  OBVIOUS
<1> HIDE DEF j
<1>5. j \in SyncJobs
  BY <1>1 DEF BackgroundJobs
<1>6. /\ WorkerTypes' /\ worker'[w].step = "taken" /\ worker'[w].job = j
      /\ \A v \in Workers \ {w} : worker'[v] = worker[v]
  BY <1>2, <1>5, WorkerTurns DEF JobQueueIInv
<1>7. worker[w].job = NoJob /\ started
  BY DEF JobQueueIInv, WorkersOK
<1>8. WorkersOK'
  BY <1>6, <1>7 DEF JobQueueIInv, WorkersOK
<1>9. QueuesOK'
  BY <1>1, <1>3 DEF JobQueueIInv, QueuesOK
<1>10. ASSUME NEW a \in Synced PROVE Once(a)'
  <2>1. Once(a) /\ background \in Seq(BackgroundJobs)
    BY DEF JobQueueIInv, QueuesOK
  <2> QED BY <1>3, <1>4, <1>6, <1>7, <2>1, TakingUp
<1> QED BY <1>6, <1>8, <1>9, <1>10
     DEF JobQueueIInv, SchedulerTypes, CallerTypes, FlagTypes, SchedulerOK

\* A worker goes on with what it has.
LEMMA GoingOn ==
  ASSUME JobQueueIInv, NEW w \in Workers,
         NEW s \in {"looking", "syncing", "synced", "ended"},
         worker' = [worker EXCEPT ![w].step = s],
         s \in {"looking", "ended"} => worker[w].job = NoJob, worker[w].step # "off",
         UNCHANGED <<started, stopping, highPriority, background, backgroundJobs, scheduler,
                     settingsChanged, caller>>
  PROVE  JobQueueIInv'
<1>1. /\ WorkerTypes' /\ worker'[w].step = s /\ worker'[w].job = worker[w].job
      /\ \A v \in Workers \ {w} : worker'[v] = worker[v]
  BY WorkerTurns DEF JobQueueIInv
<1>2. started
  BY DEF JobQueueIInv, WorkersOK
<1>3. WorkersOK'
  BY <1>1, <1>2 DEF JobQueueIInv, WorkersOK
<1>4. ASSUME NEW a \in Synced PROVE Once(a)'
  <2>1. \A v \in Workers : WorkingAt(a, v)' <=> WorkingAt(a, v)
    BY <1>1 DEF WorkingAt
  <2>2. Once(a)
    BY DEF JobQueueIInv
  <2> QED BY <2>1, <2>2, Staying
<1> QED BY <1>1, <1>3, <1>4
     DEF JobQueueIInv, QueuesOK, SchedulerTypes, CallerTypes, FlagTypes, SchedulerOK

LEMMA Releasing ==
  ASSUME JobQueueIInv, NEW w \in Workers, Release(w)
  PROVE  JobQueueIInv'
<1> DEFINE j == worker[w].job
<1>1. /\ worker[w].step = "synced"
      /\ worker' = [worker EXCEPT ![w] = [step |-> "idle", job |-> NoJob]]
      /\ backgroundJobs' = IF j.manual THEN backgroundJobs ELSE backgroundJobs \ {j.account}
      /\ caller' = IF j.from = Nobody THEN caller ELSE [caller EXCEPT ![j.from] = Out]
      /\ UNCHANGED <<started, stopping, highPriority, background, scheduler, settingsChanged>>
  BY DEF Release
<1>2. j \in SyncJobs /\ j.manual \in BOOLEAN
  BY DEF JobQueueIInv, WorkerTypes, SyncJobs
<1>3. /\ WorkerTypes' /\ worker'[w].step = "idle" /\ worker'[w].job = NoJob
      /\ \A v \in Workers \ {w} : worker'[v] = worker[v]
  BY <1>1, NoJobType, WorkerTurns DEF JobQueueIInv
<1>4. started
  BY <1>1 DEF JobQueueIInv, WorkersOK
<1>5. WorkersOK'
  BY <1>1, <1>3, <1>4 DEF JobQueueIInv, WorkersOK
<1>6. CallerTypes'
  BY <1>1 DEF JobQueueIInv, CallerTypes, Out
<1>7. backgroundJobs' \subseteq Synced
  BY <1>1 DEF JobQueueIInv, SchedulerTypes
<1>8. ASSUME NEW a \in Synced PROVE Once(a)'
  <2>1. Once(a)
    BY DEF JobQueueIInv
  <2>2. ~WorkingAt(a, w)'
    BY <1>3, NoJobType DEF WorkingAt
  <2>3. \A v \in Workers \ {w} : WorkingAt(a, v)' <=> WorkingAt(a, v)
    BY <1>3 DEF WorkingAt
  <2>4. CASE j.manual = TRUE \/ j.account \notin Synced
    <3>1. ~WorkingAt(a, w)
      BY <2>4 DEF WorkingAt
    <3>2. a \in backgroundJobs' <=> a \in backgroundJobs
      BY <1>1, <2>4
    <3>3. \A v \in Workers : WorkingAt(a, v)' <=> WorkingAt(a, v)
      BY <2>2, <2>3, <3>1
    <3> QED BY <1>1, <2>1, <3>2, <3>3, Staying
  <2>5. CASE j.manual = FALSE /\ j.account \in Synced
    <3>0. PICK b \in Synced : b = j.account
      BY <2>5
    <3>1. Once(b) /\ WorkingAt(b, w)
      BY <2>5, <3>0 DEF JobQueueIInv, WorkingAt
    <3>2. /\ scheduler.hand # b /\ \A i \in Nat : ~QueuedAt(b, i)
          /\ \A v \in Workers \ {w} : ~WorkingAt(b, v)
      BY <3>1 DEF Once
    <3>3. \A v \in Workers : ~WorkingAt(b, v)'
      <4>1. ~WorkingAt(b, w)'
        BY <1>3, NoJobType DEF WorkingAt
      <4>2. \A v \in Workers \ {w} : WorkingAt(b, v)' <=> WorkingAt(b, v)
        BY <1>3 DEF WorkingAt
      <4> QED BY <3>2, <4>1, <4>2
    <3>4. a # b => ~WorkingAt(a, w)
      BY <3>0 DEF WorkingAt
    <3>5. a # b => \A v \in Workers : WorkingAt(a, v)' <=> WorkingAt(a, v)
      BY <2>2, <2>3, <3>4
    <3>6. backgroundJobs' = backgroundJobs \ {b}
      BY <1>1, <2>5, <3>0
    <3>7. UNCHANGED background /\ scheduler' = scheduler
      BY <1>1
    <3> QED BY <2>1, <3>2, <3>3, <3>5, <3>6, <3>7, Unmarking
  <2> QED BY <1>2, <2>4, <2>5
<1>9. QueuesOK'
  BY <1>1 DEF JobQueueIInv, QueuesOK
<1> QED BY <1>1, <1>3, <1>5, <1>6, <1>7, <1>8, <1>9
     DEF JobQueueIInv, SchedulerTypes, FlagTypes, SchedulerOK

LEMMA WorkStep ==
  ASSUME JobQueueIInv, NEW w \in Workers, Work(w)
  PROVE  JobQueueIInv'
<1>1. worker[w].step \in {"idle", "looking", "ended"} => worker[w].job = NoJob
  BY DEF JobQueueIInv, WorkersOK
<1>2. CASE TakeFirst(w)
  BY <1>1, <1>2, TakingHigh, GoingOn DEF TakeFirst
<1>3. CASE TakeAny(w)
  BY <1>1, <1>3, TakingHigh, TakingBackground, GoingOn DEF TakeAny
<1>4. CASE LockAccount(w)
  BY <1>4, GoingOn DEF LockAccount
<1>5. CASE Synchronise(w)
  BY <1>5, GoingOn DEF Synchronise
<1> QED BY <1>2, <1>3, <1>4, <1>5, Releasing DEF Work
-----------------------------------------------------------------------------
(* The steps of the scheduler and of the callers.                            *)

\* The scheduler moves on with nothing in its hand.
LEMMA EmptyHanded ==
  ASSUME JobQueueIInv, started, SchedulerTypes', scheduler'.hand = Nobody, scheduler.hand = Nobody,
         scheduler'.step # "queueing", settingsChanged' \in BOOLEAN,
         UNCHANGED <<started, stopping, highPriority, background, backgroundJobs, worker, caller>>
  PROVE  JobQueueIInv'
<1>1. SchedulerOK'
  BY DEF SchedulerOK
<1>2. ASSUME NEW a \in Synced PROVE Once(a)'
  <2>1. \A w \in Workers : WorkingAt(a, w)' <=> WorkingAt(a, w)
    BY DEF WorkingAt
  <2>2. Once(a)
    BY DEF JobQueueIInv
  <2> QED BY <2>1, <2>2, Staying
<1> QED BY <1>1, <1>2
     DEF JobQueueIInv, QueuesOK, WorkerTypes, CallerTypes, FlagTypes, WorkersOK

\* It works on its own variables, and only after Start.
LEMMA ScheduleFrame ==
  ASSUME JobQueueIInv, Schedule
  PROVE  /\ UNCHANGED <<started, stopping, highPriority, worker, caller>> /\ started
         /\ Queue \/ UNCHANGED background
<1>1. scheduler.step # "off"
  BY DEF Schedule, Plan, Mark, Queue, GiveUpQueueing, Wait
<1> QED BY <1>1
        DEF JobQueueIInv, SchedulerOK, FlagTypes, Schedule, Plan, Mark, Queue, GiveUpQueueing, Wait

LEMMA ScheduleStep ==
  ASSUME JobQueueIInv, Schedule
  PROVE  JobQueueIInv'
<1>1. /\ UNCHANGED <<started, stopping, highPriority, worker, caller>> /\ started
      /\ settingsChanged \in BOOLEAN /\ background \in Seq(BackgroundJobs)
  BY ScheduleFrame DEF JobQueueIInv, FlagTypes, QueuesOK
<1>2. /\ scheduler \in [step : {"off", "planning", "pacing", "queueing", "ended"},
                        plan : SUBSET Synced, hand : Synced \cup {Nobody}]
      /\ backgroundJobs \subseteq Synced
      /\ scheduler.step # "queueing" => scheduler.hand = Nobody
      /\ scheduler.step = "queueing" => scheduler.hand \in Synced
  BY DEF JobQueueIInv, SchedulerTypes, SchedulerOK
<1>3. CASE Plan
  <2>1. PICK A \in SUBSET Synced : scheduler' = [step |-> "pacing", plan |-> A, hand |-> Nobody]
    BY <1>3 DEF Plan
  <2>2. /\ SchedulerTypes' /\ scheduler'.hand = Nobody /\ scheduler'.step = "pacing"
        /\ scheduler.hand = Nobody /\ UNCHANGED <<background, backgroundJobs, settingsChanged>>
    BY <1>2, <1>3, <2>1 DEF Plan, SchedulerTypes
  <2> QED BY <1>1, <2>2, EmptyHanded
<1>4. CASE Wait
  <2>1. scheduler.hand = Nobody /\ UNCHANGED <<background, backgroundJobs>>
        /\ settingsChanged' \in BOOLEAN
    BY <1>1, <1>2, <1>4 DEF Wait
  <2>2. CASE \E s \in {"planning", "ended"} : scheduler' = Moved(s)
    <3>1. /\ SchedulerTypes' /\ scheduler'.hand = Nobody /\ scheduler'.step # "queueing"
      BY <1>2, <2>1, <2>2 DEF Moved, SchedulerTypes
    <3> QED BY <1>1, <2>1, <3>1, EmptyHanded
  <2>3. CASE scheduler' = [scheduler EXCEPT !.step = "planning", !.plan = {}]
    <3> DEFINE q == [scheduler EXCEPT !.step = "planning"]
    <3>1. /\ q \in [step : {"off", "planning", "pacing", "queueing", "ended"},
                    plan : SUBSET Synced, hand : Synced \cup {Nobody}]
          /\ q.hand = Nobody /\ q.step = "planning"
      BY <1>2, <2>1
    <3>2. scheduler' = [q EXCEPT !.plan = {}]
      BY <1>2, <2>3
    <3> HIDE DEF q
    <3>3. /\ SchedulerTypes' /\ scheduler'.hand = Nobody /\ scheduler'.step = "planning"
      BY <1>2, <2>1, <3>1, <3>2 DEF SchedulerTypes
    <3> QED BY <1>1, <2>1, <3>3, EmptyHanded
  <2> QED BY <1>4, <2>2, <2>3 DEF Wait
<1>5. CASE Mark
  <2>1. PICK a \in scheduler.plan :
          \/ /\ a \in backgroundJobs /\ UNCHANGED backgroundJobs
             /\ scheduler' = [scheduler EXCEPT !.plan = @ \ {a},
                                               !.step = IF stopping THEN "ended" ELSE @]
          \/ /\ a \notin backgroundJobs
             /\ scheduler' = [step |-> "queueing", plan |-> scheduler.plan \ {a}, hand |-> a]
             /\ backgroundJobs' = backgroundJobs \cup {a}
    BY <1>5 DEF Mark
  <2>2. scheduler.step = "pacing" /\ scheduler.hand = Nobody /\ a \in Synced
        /\ UNCHANGED <<background, settingsChanged>>
    BY <1>2, <1>5 DEF Mark
  <2>3. CASE a \in backgroundJobs
    <3> DEFINE s == IF stopping THEN "ended" ELSE "pacing"
               q == [scheduler EXCEPT !.plan = scheduler.plan \ {a}]
    <3>1. /\ q \in [step : {"off", "planning", "pacing", "queueing", "ended"},
                    plan : SUBSET Synced, hand : Synced \cup {Nobody}]
          /\ q.hand = Nobody
      BY <1>2, <2>2
    <3>2. s \in {"ended", "pacing"} /\ scheduler' = [q EXCEPT !.step = s]
      BY <1>2, <2>1, <2>2, <2>3
    <3> HIDE DEF q, s
    <3>3. /\ SchedulerTypes' /\ scheduler'.hand = Nobody /\ scheduler'.step \in {"ended", "pacing"}
          /\ UNCHANGED backgroundJobs
      BY <1>2, <2>1, <2>3, <3>1, <3>2 DEF SchedulerTypes
    <3> QED BY <1>1, <2>2, <3>3, EmptyHanded
  <2>4. CASE a \notin backgroundJobs
    <3>1. /\ scheduler' = [step |-> "queueing", plan |-> scheduler.plan \ {a}, hand |-> a]
          /\ backgroundJobs' = backgroundJobs \cup {a}
      BY <2>1, <2>4
    <3>2. /\ SchedulerTypes' /\ scheduler'.step = "queueing" /\ scheduler'.hand = a
      BY <1>2, <2>2, <3>1 DEF SchedulerTypes
    <3>3. SchedulerOK'
      BY <1>1, <2>2, <3>2 DEF SchedulerOK
    <3>4. ASSUME NEW b \in Synced PROVE Once(b)'
      BY <1>1, <2>2, <2>4, <3>1, <3>2, Marking DEF JobQueueIInv
    <3> QED BY <1>1, <2>2, <3>2, <3>3, <3>4
         DEF JobQueueIInv, QueuesOK, WorkerTypes, CallerTypes, FlagTypes, WorkersOK
  <2> QED BY <2>3, <2>4
<1>6. CASE Queue
  <2>1. /\ scheduler.step = "queueing" /\ Len(background) < BackgroundCapacity
        /\ UNCHANGED <<backgroundJobs, settingsChanged>>
        /\ scheduler' = [scheduler EXCEPT !.step = "pacing", !.hand = Nobody]
    BY <1>6 DEF Queue
  <2>2. PICK b \in Synced : b = scheduler.hand
    BY <1>2, <2>1
  <2>3. /\ SchedulerTypes' /\ scheduler'.step = "pacing" /\ scheduler'.hand = Nobody
    <3> DEFINE q == [scheduler EXCEPT !.step = "pacing"]
    <3>1. /\ q \in [step : {"off", "planning", "pacing", "queueing", "ended"},
                    plan : SUBSET Synced, hand : Synced \cup {Nobody}]
          /\ q.step = "pacing"
      BY <1>2
    <3>2. scheduler' = [q EXCEPT !.hand = Nobody]
      BY <1>2, <2>1
    <3> HIDE DEF q
    <3> QED BY <1>2, <2>1, <3>1, <3>2 DEF SchedulerTypes
  <2>4. SchedulerOK'
    BY <1>1, <2>3 DEF SchedulerOK
  <2>5. /\ Len(background) \in Nat /\ Len(background') = Len(background) + 1
        /\ background'[Len(background) + 1].account = b
        /\ \A i \in 1..Len(background) : background'[i] = background[i]
        /\ background' \in Seq(BackgroundJobs)
    <3> DEFINE j == Job(b, Nobody, FALSE)
    <3>1. j \in BackgroundJobs /\ j.account = b
      BY SyncJobTypes
    <3>2. background' = Append(background, j)
      BY <1>6, <2>2 DEF Queue
    <3> HIDE DEF j
    <3> QED BY <1>1, <3>1, <3>2, Queueing
  <2>6. QueuesOK'
    BY <1>1, <2>1, <2>5, JobQueueConstants DEF JobQueueIInv, QueuesOK
  <2>7. PICK n \in Nat : n = Len(background)
    BY <2>5
  <2>8. ASSUME NEW a \in Synced PROVE Once(a)'
    <3>1. /\ Once(a) /\ Len(background') = n + 1 /\ background'[n + 1].account = b
          /\ \A i \in 1..n : background'[i] = background[i]
      BY <2>5, <2>7 DEF JobQueueIInv
    <3> QED BY <1>1, <2>1, <2>2, <2>3, <2>7, <3>1, HandingOver
  <2> QED BY <1>1, <2>1, <2>3, <2>4, <2>6, <2>8
       DEF JobQueueIInv, WorkerTypes, CallerTypes, FlagTypes, WorkersOK
<1>7. CASE GiveUpQueueing
  <2>1. /\ scheduler.step = "queueing" /\ UNCHANGED <<background, settingsChanged>>
        /\ scheduler' = [scheduler EXCEPT !.step = "ended", !.hand = Nobody]
        /\ backgroundJobs' = backgroundJobs \ {scheduler.hand}
    BY <1>7 DEF GiveUpQueueing
  <2>2. PICK b \in Synced : b = scheduler.hand
    BY <1>2, <2>1
  <2>3. /\ SchedulerTypes' /\ scheduler'.step = "ended" /\ scheduler'.hand = Nobody
    <3> DEFINE q == [scheduler EXCEPT !.step = "ended"]
    <3>1. /\ q \in [step : {"off", "planning", "pacing", "queueing", "ended"},
                    plan : SUBSET Synced, hand : Synced \cup {Nobody}]
          /\ q.step = "ended"
      BY <1>2
    <3>2. scheduler' = [q EXCEPT !.hand = Nobody]
      BY <1>2, <2>1
    <3> HIDE DEF q
    <3> QED BY <1>2, <2>1, <3>1, <3>2 DEF SchedulerTypes
  <2>4. SchedulerOK'
    BY <1>1, <2>3 DEF SchedulerOK
  <2>5. Once(b)
    BY DEF JobQueueIInv
  <2>6. /\ \A i \in Nat : ~QueuedAt(b, i)
        /\ \A w \in Workers : ~WorkingAt(b, w)
    BY <2>2, <2>5 DEF Once
  <2>7. \A a \in Synced, w \in Workers : WorkingAt(a, w)' <=> WorkingAt(a, w)
    BY <1>1 DEF WorkingAt
  <2>8. ASSUME NEW a \in Synced PROVE Once(a)'
    <3>1. /\ Once(a) /\ backgroundJobs' = backgroundJobs \ {b} /\ scheduler'.hand # b
          /\ a # b => (scheduler'.hand = a <=> scheduler.hand = a)
          /\ \A w \in Workers : ~WorkingAt(b, w)'
      BY <2>1, <2>2, <2>3, <2>6, <2>7, JobQueueConstants DEF JobQueueIInv
    <3> QED BY <2>1, <2>6, <2>7, <3>1, Unmarking
  <2> QED BY <1>1, <2>1, <2>3, <2>4, <2>8
       DEF JobQueueIInv, QueuesOK, WorkerTypes, CallerTypes, FlagTypes, WorkersOK
<1> QED BY <1>3, <1>4, <1>5, <1>6, <1>7 DEF Schedule

\* What is asked of the service leaves the workers and the scheduler alone.
LEMMA AskingFrame ==
  ASSUME JobQueueIInv, UNCHANGED <<started, background, backgroundJobs, worker, scheduler>>,
         highPriority' \in Seq(HighJobs), Len(highPriority') <= HighCapacity,
         CallerTypes', stopping' \in BOOLEAN, settingsChanged' \in BOOLEAN
  PROVE  JobQueueIInv'
<1>1. ASSUME NEW a \in Synced PROVE Once(a)'
  <2>1. \A w \in Workers : WorkingAt(a, w)' <=> WorkingAt(a, w)
    BY DEF WorkingAt
  <2>2. Once(a)
    BY DEF JobQueueIInv
  <2> QED BY <2>1, <2>2, Staying
<1> QED BY <1>1
     DEF JobQueueIInv, QueuesOK, WorkerTypes, SchedulerTypes, FlagTypes, WorkersOK, SchedulerOK

LEMMA CallStep ==
  ASSUME JobQueueIInv, NEW c \in Callers, Call(c)
  PROVE  JobQueueIInv'
<1> DEFINE Steps == {"out", "sync", "all", "waiting", "left"}
           Asks  == [step : Steps, accounts : SUBSET Synced]
<1>1. /\ highPriority \in Seq(HighJobs) /\ Len(highPriority) <= HighCapacity
      /\ stopping \in BOOLEAN /\ settingsChanged \in BOOLEAN
      /\ caller \in [Callers -> Asks]
  BY DEF JobQueueIInv, QueuesOK, FlagTypes, CallerTypes
<1>2. /\ UNCHANGED <<started, background, backgroundJobs, worker, scheduler>>
      /\ UNCHANGED <<stopping, settingsChanged>>
  BY DEF Call, SyncAccount, EnqueueAll, Send, Leave
<1>3. Out \in Asks
  BY DEF Out
<1>4. ASSUME NEW q \in Asks, caller' = [caller EXCEPT ![c] = q] PROVE CallerTypes'
  BY <1>1, <1>4 DEF CallerTypes
<1>5. ASSUME NEW s \in Steps, caller' = [caller EXCEPT ![c].step = s] PROVE CallerTypes'
  BY <1>1, <1>5 DEF CallerTypes
<1>6. CASE (\E a \in Synced : SyncAccount(c, a)) \/ (\E A \in SUBSET Synced : EnqueueAll(c, A))
  <2>1. CallerTypes' /\ UNCHANGED highPriority
    BY <1>4, <1>6 DEF SyncAccount, EnqueueAll
  <2> QED BY <1>1, <1>2, <2>1, AskingFrame
<1>7. CASE Leave(c)
  <2>1. CASE caller[c].step = "waiting"
    <3>1. [caller[c] EXCEPT !.step = "left"] \in Asks
      BY <1>1
    <3>2. CallerTypes' /\ UNCHANGED highPriority
      BY <1>4, <1>7, <2>1, <3>1 DEF Leave
    <3> QED BY <1>1, <1>2, <3>2, AskingFrame
  <2>2. CASE caller[c].step # "waiting"
    <3>1. CallerTypes' /\ UNCHANGED highPriority
      BY <1>3, <1>4, <1>7, <2>2 DEF Leave
    <3> QED BY <1>1, <1>2, <3>1, AskingFrame
  <2> QED BY <2>1, <2>2
<1>8. CASE Send(c)
  <2>1. PICK a \in caller[c].accounts, d \in Callers \cup {Nobody} :
          highPriority' = Append(highPriority, Job(a, d, TRUE))
    BY <1>8 DEF Send
  <2>2. a \in Synced /\ Len(highPriority) < HighCapacity
    BY <1>1, <1>8 DEF Send
  <2>3. highPriority' \in Seq(HighJobs) /\ Len(highPriority') <= HighCapacity
    <3> DEFINE j == Job(a, d, TRUE)
    <3>1. j \in HighJobs /\ highPriority' = Append(highPriority, j)
      BY <2>1, <2>2, SyncJobTypes
    <3> HIDE DEF j
    <3>2. Len(highPriority') = Len(highPriority) + 1 /\ Len(highPriority) \in Nat
          /\ highPriority' \in Seq(HighJobs)
      BY <1>1, <3>1, Queueing
    <3> QED BY <2>2, <3>2, JobQueueConstants
  <2>4. CallerTypes'
    <3>1. CASE caller[c].step = "sync"
      BY <1>5, <1>8, <3>1 DEF Send
    <3>2. CASE caller[c].step # "sync"
      <4>1. PICK b \in caller[c].accounts :
              caller' = [caller EXCEPT ![c] = IF caller[c].accounts \ {b} = {} THEN Out
                          ELSE [caller[c] EXCEPT !.accounts = caller[c].accounts \ {b}]]
        BY <1>8, <3>2 DEF Send
      <4>2. [caller[c] EXCEPT !.accounts = caller[c].accounts \ {b}] \in Asks
        BY <1>1
      <4> QED BY <1>3, <1>4, <4>1, <4>2
    <3> QED BY <3>1, <3>2
  <2> QED BY <1>1, <1>2, <2>3, <2>4, AskingFrame
<1> QED BY <1>6, <1>7, <1>8 DEF Call

LEMMA ServiceStep ==
  ASSUME JobQueueIInv, Start \/ Close \/ UpdateSettings
  PROVE  JobQueueIInv'
<1>1. CASE Start
  <2>1. /\ ~started /\ started' = TRUE
        /\ worker' = [w \in Workers |-> [step |-> "idle", job |-> NoJob]]
        /\ scheduler' = [scheduler EXCEPT !.step = "planning"]
        /\ UNCHANGED <<stopping, highPriority, background, backgroundJobs, settingsChanged, caller>>
    BY <1>1 DEF Start, Moved
  <2>2. WorkerTypes' /\ WorkersOK'
    BY <2>1, NoJobType DEF WorkerTypes, WorkersOK
  <2>3. scheduler.hand = Nobody
    BY <2>1 DEF JobQueueIInv, SchedulerOK
  <2>4. SchedulerTypes' /\ SchedulerOK' /\ scheduler'.hand = scheduler.hand
    BY <2>1, <2>3 DEF JobQueueIInv, SchedulerTypes, SchedulerOK
  <2>5. ASSUME NEW a \in Synced PROVE Once(a)'
    <3>1. \A w \in Workers : worker[w].job = NoJob /\ worker'[w].job = NoJob
      BY <2>1 DEF JobQueueIInv, WorkersOK
    <3>2. \A w \in Workers : WorkingAt(a, w)' <=> WorkingAt(a, w)
      BY <3>1 DEF WorkingAt
    <3>3. Once(a)
      BY DEF JobQueueIInv
    <3> QED BY <2>1, <2>4, <3>2, <3>3, Staying
  <2> QED BY <2>1, <2>2, <2>4, <2>5 DEF JobQueueIInv, QueuesOK, CallerTypes, FlagTypes
<1>2. CASE Close \/ UpdateSettings
  BY <1>2, AskingFrame DEF JobQueueIInv, QueuesOK, CallerTypes, FlagTypes, Close, UpdateSettings
<1> QED BY <1>1, <1>2
-----------------------------------------------------------------------------
(* The invariant.                                                            *)

LEMMA JobQueueInitIInv == JobQueueInit => JobQueueIInv
<1> SUFFICES ASSUME JobQueueInit PROVE JobQueueIInv
  OBVIOUS
<1>1. QueuesOK
  BY EmptySeq, JobQueueConstants DEF JobQueueInit, QueuesOK
<1>2. WorkerTypes /\ WorkersOK
  BY NoJobType DEF JobQueueInit, WorkerTypes, WorkersOK
<1>3. SchedulerTypes /\ SchedulerOK /\ CallerTypes /\ FlagTypes
  BY DEF JobQueueInit, SchedulerTypes, SchedulerOK, CallerTypes, FlagTypes, Out
<1>4. ASSUME NEW a \in Synced PROVE Once(a)
  <2>1. Len(background) = 0 /\ scheduler.hand # a /\ a \notin backgroundJobs
    BY EmptySeq, JobQueueConstants DEF JobQueueInit
  <2>2. \A i \in Nat : ~QueuedAt(a, i)
    BY <2>1 DEF QueuedAt
  <2>3. \A w \in Workers : ~WorkingAt(a, w)
    BY NoJobType DEF JobQueueInit, WorkingAt
  <2> QED BY <2>1, <2>2, <2>3 DEF Once
<1> QED BY <1>1, <1>2, <1>3, <1>4 DEF JobQueueIInv

\* Every step, and every stutter, keeps it.
LEMMA JobQueueStep ==
  JobQueueIInv /\ [JobQueueNext]_queueVars => JobQueueIInv'
<1> SUFFICES ASSUME JobQueueIInv, [JobQueueNext]_queueVars PROVE JobQueueIInv'
  OBVIOUS
<1>1. CASE UNCHANGED queueVars
  <2>1. UNCHANGED <<started, stopping, highPriority, background, backgroundJobs, worker,
                    scheduler, settingsChanged, caller>>
    BY <1>1 DEF queueVars
  <2> QED BY <2>1, AskingFrame DEF JobQueueIInv, QueuesOK, CallerTypes, FlagTypes
<1>2. CASE JobQueueNext
  BY <1>2, ServiceStep, ScheduleStep, WorkStep, CallStep DEF JobQueueNext
<1> QED BY <1>1, <1>2

\* The invariant holds in every reachable state.
THEOREM JobQueueInvariance == JobQueueSpec => []JobQueueIInv
<1> QED BY JobQueueInitIInv, JobQueueStep, PTL DEF JobQueueSpec

\* Every variable keeps its type, and no queue is longer than its channel.
THEOREM JobQueueTypes == JobQueueSpec => []JobQueueTypeOK
<1> QED BY JobQueueInvariance, JobQueueTyping, PTL

\* One place or none is what Once says.
LEMMA Counting ==
  ASSUME NEW a \in Synced, Once(a), background \in Seq(BackgroundJobs), WorkerTypes
  PROVE  Cardinality(Places(a)) = IF a \in backgroundJobs THEN 1 ELSE 0
<1>1. DOMAIN background = 1..Len(background) /\ Len(background) \in Nat
  BY LenProperties
<1>2. \A p : p \in Places(a) <=>
        \/ p = <<"hand", 0>> /\ scheduler.hand = a
        \/ \E i \in Nat : QueuedAt(a, i) /\ p = <<"queued", i>>
        \/ \E w \in Workers : WorkingAt(a, w) /\ p = <<"working", w>>
  <2>1. \A p : p \in {<<"hand", 0>> : h \in {scheduler.hand} \cap {a}}
                 <=> p = <<"hand", 0>> /\ scheduler.hand = a
    OBVIOUS
  <2>2. \A p : p \in {<<"queued", i>> : i \in {i \in DOMAIN background : background[i].account = a}}
                 <=> \E i \in Nat : QueuedAt(a, i) /\ p = <<"queued", i>>
    BY <1>1 DEF QueuedAt
  <2>3. \A w \in Workers :
          worker[w].job.account = a /\ ~worker[w].job.manual <=> WorkingAt(a, w)
    BY DEF WorkerTypes, SyncJobs, WorkingAt
  <2>4. \A p : p \in {<<"working", w>> : w \in {w \in Workers : worker[w].job.account = a
                                                             /\ ~worker[w].job.manual}}
                 <=> \E w \in Workers : WorkingAt(a, w) /\ p = <<"working", w>>
    BY <2>3
  <2> QED BY <2>1, <2>2, <2>4 DEF Places
<1>3. CASE a \notin backgroundJobs
  <2>1. Places(a) = {}
    BY <1>2, <1>3 DEF Once
  <2> QED BY <1>3, <2>1, FS_EmptySet
<1>4. CASE a \in backgroundJobs
  <2>1. CASE scheduler.hand = a
    <3>1. Places(a) = {<<"hand", 0>>}
      BY <1>2, <2>1 DEF Once
    <3> QED BY <1>4, <3>1, FS_Singleton
  <2>2. ASSUME NEW i \in Nat, QueuedAt(a, i)
        PROVE  Cardinality(Places(a)) = 1
    <3>1. Places(a) = {<<"queued", i>>}
      BY <1>2, <2>2 DEF Once
    <3> QED BY <3>1, FS_Singleton
  <2>3. ASSUME NEW w \in Workers, WorkingAt(a, w)
        PROVE  Cardinality(Places(a)) = 1
    <3>1. Places(a) = {<<"working", w>>}
      BY <1>2, <2>3 DEF Once
    <3> QED BY <3>1, FS_Singleton
  <2> QED BY <1>4, <2>1, <2>2, <2>3 DEF Once
<1> QED BY <1>3, <1>4

-----------------------------------------------------------------------------
(* The callers' jobs. This stands on JobQueueIInv, and JobQueueIInv does not *)
(* need it.                                                                  *)

\* The one place where the job of a caller is.
AskedAt(c, i) == i \in 1..Len(highPriority) /\ highPriority[i].from = c
ServedBy(c, w) == worker[w].job.from = c
Unanswered(c) == caller[c].step \in {"waiting", "left"}

Owed(c) ==
  /\ \A i, j \in Nat : AskedAt(c, i) /\ AskedAt(c, j) => i = j
  /\ \A v, w \in Workers : ServedBy(c, v) /\ ServedBy(c, w) => v = w
  /\ \A w \in Workers : ServedBy(c, w) => \A i \in Nat : ~AskedAt(c, i)
  /\ Unanswered(c) <=> (\E i \in Nat : AskedAt(c, i)) \/ (\E w \in Workers : ServedBy(c, w))

AllOwed == \A c \in Callers : Owed(c)

\* No job of the caller moves.
LEMMA OwedStays ==
  ASSUME NEW c \in Callers, Owed(c), UNCHANGED highPriority,
         Unanswered(c)' <=> Unanswered(c),
         \A w \in Workers : ServedBy(c, w)' <=> ServedBy(c, w)
  PROVE  Owed(c)'
<1>1. \A i \in Nat : AskedAt(c, i)' <=> AskedAt(c, i)
  BY DEF AskedAt
<1> QED BY <1>1 DEF Owed

\* A job comes into the queue; if it is the caller's, it is the only one.
LEMMA OwedIsSent ==
  ASSUME NEW c \in Callers, Owed(c), NEW n \in Nat, n = Len(highPriority),
         Len(highPriority') = n + 1, \A i \in 1..n : highPriority'[i] = highPriority[i],
         highPriority'[n + 1].from = c => ~Unanswered(c),
         Unanswered(c)' <=> Unanswered(c) \/ highPriority'[n + 1].from = c,
         UNCHANGED worker
  PROVE  Owed(c)'
<1>1. \A w \in Workers : ServedBy(c, w)' <=> ServedBy(c, w)
  BY DEF ServedBy
<1>2. ASSUME NEW i \in Nat
      PROVE  AskedAt(c, i)' <=> AskedAt(c, i) \/ (i = n + 1 /\ highPriority'[n + 1].from = c)
  <2>1. CASE i \in 1..n
    <3>1. highPriority'[i].from = highPriority[i].from /\ i # n + 1 /\ i \in 1..n + 1
      BY <2>1
    <3> QED BY <2>1, <3>1 DEF AskedAt
  <2>2. CASE i = n + 1
    <3>1. i \notin 1..n /\ i \in 1..n + 1
      BY <2>2
    <3> QED BY <2>2, <3>1 DEF AskedAt
  <2>3. CASE i \notin 1..n + 1
    BY <2>3 DEF AskedAt
  <2> QED BY <2>1, <2>2, <2>3
<1>3. CASE highPriority'[n + 1].from = c
  <2>1. /\ \A i \in Nat : ~AskedAt(c, i)
        /\ \A w \in Workers : ~ServedBy(c, w)
    BY <1>3 DEF Owed
  <2>2. \A i \in Nat : AskedAt(c, i)' <=> i = n + 1
    BY <1>2, <1>3, <2>1
  <2>3. n + 1 \in Nat /\ Unanswered(c)'
    BY <1>3
  <2> QED BY <1>1, <2>1, <2>2, <2>3 DEF Owed
<1>4. CASE highPriority'[n + 1].from # c
  <2>1. /\ \A i \in Nat : AskedAt(c, i)' <=> AskedAt(c, i)
        /\ Unanswered(c)' <=> Unanswered(c)
    BY <1>2, <1>4
  <2> QED BY <1>1, <2>1 DEF Owed
<1> QED BY <1>3, <1>4

\* A worker without a job takes the next one out of it.
LEMMA OwedIsTaken ==
  ASSUME NEW c \in Callers, Owed(c), highPriority \in Seq(HighJobs), highPriority # <<>>,
         NEW v \in Workers, worker[v].job = NoJob, worker'[v].job = Head(highPriority),
         \A w \in Workers \ {v} : worker'[w].job = worker[w].job,
         highPriority' = Tail(highPriority), UNCHANGED caller
  PROVE  Owed(c)'
<1> DEFINE n == Len(highPriority)
<1>1. /\ n \in Nat /\ n # 0 /\ Len(highPriority') = n - 1
      /\ Head(highPriority) = highPriority[1]
      /\ \A i \in 1..(n - 1) : highPriority'[i] = highPriority[i + 1]
  BY Queueing
<1>2. \A i \in Nat : AskedAt(c, i)' <=> i # 0 /\ AskedAt(c, i + 1)
  BY <1>1 DEF AskedAt
<1>3. ServedBy(c, v)' <=> AskedAt(c, 1)
  BY <1>1 DEF ServedBy, AskedAt
<1>4. ~ServedBy(c, v)
  BY JobQueueConstants DEF ServedBy, NoJob, Job
<1>5. \A w \in Workers : w # v => (ServedBy(c, w)' <=> ServedBy(c, w))
  BY DEF ServedBy
<1>6. Unanswered(c)' <=> Unanswered(c)
  BY DEF Unanswered
<1>7. CASE AskedAt(c, 1)
  <2>1. /\ \A i \in Nat : AskedAt(c, i) => i = 1
        /\ \A w \in Workers : ~ServedBy(c, w)
        /\ Unanswered(c)
    BY <1>7 DEF Owed
  <2>2. \A i \in Nat : ~AskedAt(c, i)'
    BY <1>2, <2>1
  <2>3. \A w \in Workers : ServedBy(c, w)' <=> w = v
    BY <1>3, <1>5, <1>7, <2>1
  <2> QED BY <1>6, <2>1, <2>2, <2>3 DEF Owed
<1>8. CASE ~AskedAt(c, 1)
  <2>1. \A w \in Workers : ServedBy(c, w)' <=> ServedBy(c, w)
    BY <1>3, <1>4, <1>5, <1>8
  <2>2. \A i, j \in Nat : AskedAt(c, i)' /\ AskedAt(c, j)' => i = j
    <3> SUFFICES ASSUME NEW i \in Nat, NEW j \in Nat, AskedAt(c, i)', AskedAt(c, j)'
                 PROVE  i = j
      OBVIOUS
    <3>1. AskedAt(c, i + 1) /\ AskedAt(c, j + 1) /\ i + 1 \in Nat /\ j + 1 \in Nat
      BY <1>2
    <3>2. i + 1 = j + 1
      BY <3>1 DEF Owed
    <3> QED BY <3>2
  <2>3. ASSUME NEW i \in Nat, AskedAt(c, i) PROVE i - 1 \in Nat /\ AskedAt(c, i - 1)'
    <3>1. i # 0 /\ i # 1
      BY <1>8, <2>3 DEF AskedAt
    <3>2. i - 1 \in Nat /\ i - 1 # 0 /\ (i - 1) + 1 = i
      BY <3>1
    <3> QED BY <1>2, <2>3, <3>2
  <2>4. ASSUME NEW i \in Nat, AskedAt(c, i)' PROVE i + 1 \in Nat /\ AskedAt(c, i + 1)
    BY <1>2, <2>4
  <2>5. (\E i \in Nat : AskedAt(c, i)') <=> (\E i \in Nat : AskedAt(c, i))
    BY <2>3, <2>4
  <2> QED BY <1>6, <2>1, <2>2, <2>5 DEF Owed
<1> QED BY <1>7, <1>8

\* The caller whose job is done has its answer, and nobody else.
LEMMA OwedIsReleased ==
  ASSUME JobQueueIInv, AllOwed, NEW w \in Workers, Release(w), NEW c \in Callers
  PROVE  Owed(c)'
<1>1. /\ worker' = [worker EXCEPT ![w] = [step |-> "idle", job |-> NoJob]]
      /\ caller' = IF worker[w].job.from = Nobody THEN caller
                   ELSE [caller EXCEPT ![worker[w].job.from] = Out]
      /\ UNCHANGED highPriority
  BY DEF Release
<1>2. /\ worker'[w].job = NoJob
      /\ \A v \in Workers \ {w} : worker'[v] = worker[v]
  BY <1>1, NoJobType, WorkerTurns DEF JobQueueIInv
<1>3. Owed(c)
  BY DEF AllOwed
<1>4. ~ServedBy(c, w)' /\ \A v \in Workers : v # w => (ServedBy(c, v)' <=> ServedBy(c, v))
  BY <1>2, JobQueueConstants DEF ServedBy, NoJob, Job
<1>5. CASE worker[w].job.from = c
  <2>1. ServedBy(c, w)
    BY <1>5 DEF ServedBy
  <2>2. /\ \A i \in Nat : ~AskedAt(c, i)
        /\ \A v \in Workers : ServedBy(c, v) => v = w
    BY <1>3, <2>1 DEF Owed
  <2>3. \A i \in Nat : ~AskedAt(c, i)'
    BY <1>1, <2>2 DEF AskedAt
  <2>4. \A v \in Workers : ~ServedBy(c, v)'
    BY <1>4, <2>2
  <2>5. caller'[c].step = "out"
    BY <1>1, <1>5, JobQueueConstants DEF JobQueueIInv, CallerTypes, Out
  <2>6. ~Unanswered(c)'
    BY <2>5 DEF Unanswered
  <2> QED BY <2>3, <2>4, <2>6 DEF Owed
<1>6. CASE worker[w].job.from # c
  <2>1. \A v \in Workers : ServedBy(c, v)' <=> ServedBy(c, v)
    BY <1>4, <1>6 DEF ServedBy
  <2>2. caller'[c] = caller[c]
    BY <1>1, <1>6 DEF JobQueueIInv, CallerTypes
  <2>3. Unanswered(c)' <=> Unanswered(c)
    BY <2>2 DEF Unanswered
  <2> QED BY <1>1, <1>3, <2>1, <2>3, OwedStays
<1> QED BY <1>5, <1>6

LEMMA OwedWork ==
  ASSUME JobQueueIInv, AllOwed, NEW w \in Workers, Work(w), NEW c \in Callers
  PROVE  Owed(c)'
<1>1. Owed(c) /\ highPriority \in Seq(HighJobs) /\ background \in Seq(BackgroundJobs)
  BY DEF AllOwed, JobQueueIInv, QueuesOK
<1>2. worker[w].step \in {"idle", "looking"} => worker[w].job = NoJob
  BY DEF JobQueueIInv, WorkersOK
<1>3. ASSUME worker[w].step \in {"idle", "looking"}, TakeHigh(w), UNCHANGED caller
      PROVE  Owed(c)'
  <2> DEFINE j == Head(highPriority)
  <2>1. /\ highPriority # <<>> /\ highPriority' = Tail(highPriority)
        /\ worker' = [worker EXCEPT ![w] = [step |-> "taken", job |-> j]]
    BY <1>3 DEF TakeHigh, Took
  <2>2. j \in SyncJobs
    BY <1>1, <2>1, Queueing DEF HighJobs
  <2>3. j = Head(highPriority)
    OBVIOUS
  <2> HIDE DEF j
  <2>4. worker'[w].job = j /\ \A v \in Workers \ {w} : worker'[v].job = worker[v].job
    BY <2>1, <2>2, WorkerTurns DEF JobQueueIInv
  <2> QED BY <1>1, <1>2, <1>3, <2>1, <2>3, <2>4, OwedIsTaken
<1>4. ASSUME UNCHANGED <<highPriority, caller>>,
             \A v \in Workers : worker'[v].job.from = worker[v].job.from
      PROVE  Owed(c)'
  <2>1. /\ Unanswered(c)' <=> Unanswered(c)
        /\ \A v \in Workers : ServedBy(c, v)' <=> ServedBy(c, v)
    BY <1>4 DEF Unanswered, ServedBy
  <2> QED BY <1>1, <1>4, <2>1, OwedStays
<1>5. ASSUME worker[w].step = "looking", TakeBackground(w), UNCHANGED caller
      PROVE  Owed(c)'
  <2> DEFINE j == Head(background)
  <2>1. /\ background # <<>> /\ UNCHANGED highPriority
        /\ worker' = [worker EXCEPT ![w] = [step |-> "taken", job |-> j]]
    BY <1>5 DEF TakeBackground, Took
  <2>2. j \in SyncJobs /\ j.from = Nobody
    BY <1>1, <2>1, Queueing DEF BackgroundJobs
  <2> HIDE DEF j
  <2>3. worker'[w].job = j /\ \A v \in Workers \ {w} : worker'[v] = worker[v]
    BY <2>1, <2>2, WorkerTurns DEF JobQueueIInv
  <2>4. worker[w].job.from = Nobody
    BY <1>2, <1>5 DEF NoJob, Job
  <2>5. \A v \in Workers : worker'[v].job.from = worker[v].job.from
    BY <2>2, <2>3, <2>4
  <2> QED BY <1>4, <1>5, <2>1, <2>5
<1>6. ASSUME NEW s \in {"looking", "syncing", "synced", "ended"},
             worker' = [worker EXCEPT ![w].step = s], UNCHANGED <<highPriority, caller>>
      PROVE  Owed(c)'
  <2>1. \A v \in Workers : worker'[v].job = worker[v].job
    BY <1>6, WorkerTurns DEF JobQueueIInv
  <2> QED BY <1>4, <1>6, <2>1
<1>7. CASE TakeFirst(w)
  BY <1>3, <1>6, <1>7 DEF TakeFirst
<1>8. CASE TakeAny(w)
  BY <1>3, <1>5, <1>6, <1>8 DEF TakeAny
<1>9. CASE LockAccount(w)
  BY <1>6, <1>9 DEF LockAccount
<1>10. CASE Synchronise(w)
  BY <1>6, <1>10 DEF Synchronise
<1> QED BY <1>7, <1>8, <1>9, <1>10, OwedIsReleased DEF Work

LEMMA OwedCall ==
  ASSUME JobQueueIInv, AllOwed, NEW d \in Callers, Call(d), NEW c \in Callers
  PROVE  Owed(c)'
<1>1. Owed(c) /\ highPriority \in Seq(HighJobs) /\ UNCHANGED worker
  BY DEF AllOwed, JobQueueIInv, QueuesOK, Call, SyncAccount, EnqueueAll, Send, Leave
<1>2. caller \in [Callers -> [step : {"out", "sync", "all", "waiting", "left"},
                              accounts : SUBSET Synced]]
  BY DEF JobQueueIInv, CallerTypes
<1>3. \A w \in Workers : ServedBy(c, w)' <=> ServedBy(c, w)
  BY <1>1 DEF ServedBy
<1>4. CASE (\E a \in Synced : SyncAccount(d, a)) \/ (\E A \in SUBSET Synced : EnqueueAll(d, A))
  <2>1. /\ caller[d].step = "out" /\ caller'[d].step \in {"sync", "all"}
        /\ c # d => caller'[c] = caller[c]
        /\ UNCHANGED highPriority
    BY <1>2, <1>4 DEF SyncAccount, EnqueueAll, Out
  <2>2. Unanswered(c)' <=> Unanswered(c)
    BY <2>1 DEF Unanswered
  <2> QED BY <1>1, <1>3, <2>1, <2>2, OwedStays
<1>5. CASE Leave(d)
  <2>1. /\ IF caller[d].step = "waiting" THEN caller'[d].step = "left"
           ELSE caller[d].step \in {"sync", "all"} /\ caller'[d].step = "out"
        /\ c # d => caller'[c] = caller[c]
        /\ UNCHANGED highPriority
    BY <1>2, <1>5 DEF Leave, Out
  <2>2. Unanswered(c)' <=> Unanswered(c)
    BY <2>1 DEF Unanswered
  <2> QED BY <1>1, <1>3, <2>1, <2>2, OwedStays
<1>6. CASE Send(d)
  <2>1. PICK a \in caller[d].accounts :
          IF caller[d].step = "sync"
          THEN /\ highPriority' = Append(highPriority, Job(a, d, TRUE))
               /\ caller' = [caller EXCEPT ![d].step = "waiting"]
          ELSE /\ highPriority' = Append(highPriority, Job(a, Nobody, TRUE))
               /\ caller' = [caller EXCEPT ![d] = IF caller[d].accounts \ {a} = {} THEN Out
                               ELSE [caller[d] EXCEPT !.accounts = caller[d].accounts \ {a}]]
    BY <1>6 DEF Send
  <2>2. a \in Synced /\ caller[d].step \in {"sync", "all"}
    BY <1>2, <1>6 DEF Send
  <2> DEFINE e == IF caller[d].step = "sync" THEN d ELSE Nobody
             j == Job(a, e, TRUE)
  <2>3. j \in HighJobs /\ j.from = e /\ highPriority' = Append(highPriority, j)
    BY <2>1, <2>2, SyncJobTypes DEF Job
  <2>4. /\ caller[d].step = "sync" => caller'[d].step = "waiting"
        /\ caller[d].step # "sync" => caller'[d].step \in {"out", "all"}
        /\ c # d => caller'[c] = caller[c]
    <3>1. CASE caller[d].step = "sync"
      BY <1>2, <2>1, <3>1
    <3>2. CASE caller[d].step # "sync"
      <4> DEFINE q == [caller[d] EXCEPT !.accounts = caller[d].accounts \ {a}]
      <4>1. q.step = "all" /\ Out.step = "out"
        BY <1>2, <2>2, <3>2 DEF Out
      <4>2. caller' = [caller EXCEPT ![d] = IF caller[d].accounts \ {a} = {} THEN Out ELSE q]
        BY <2>1, <3>2
      <4> HIDE DEF q
      <4> QED BY <1>2, <3>2, <4>1, <4>2
    <3> QED BY <3>1, <3>2
  <2>5. e = c => ~Unanswered(c)
    BY <2>2, JobQueueConstants DEF Unanswered
  <2>6. Unanswered(c)' <=> Unanswered(c) \/ e = c
    BY <2>2, <2>4, JobQueueConstants DEF Unanswered
  <2> HIDE DEF e, j
  <2>7. PICK n \in Nat : n = Len(highPriority)
    BY <1>1, Queueing
  <2>8. /\ Len(highPriority') = n + 1 /\ highPriority'[n + 1].from = e
        /\ \A i \in 1..n : highPriority'[i] = highPriority[i]
    BY <1>1, <2>3, <2>7, Queueing
  <2> QED BY <1>1, <2>5, <2>6, <2>7, <2>8, OwedIsSent
<1> QED BY <1>4, <1>5, <1>6 DEF Call

LEMMA OwedInit == JobQueueInit => AllOwed
<1> SUFFICES ASSUME JobQueueInit, NEW c \in Callers PROVE Owed(c)
  BY DEF AllOwed
<1>1. Len(highPriority) = 0 /\ ~Unanswered(c)
  BY EmptySeq DEF JobQueueInit, Unanswered, Out
<1>2. \A i \in Nat : ~AskedAt(c, i)
  BY <1>1 DEF AskedAt
<1>3. \A w \in Workers : ~ServedBy(c, w)
  BY JobQueueConstants DEF JobQueueInit, ServedBy, NoJob, Job
<1> QED BY <1>1, <1>2, <1>3 DEF Owed

LEMMA OwedStep ==
  JobQueueIInv /\ AllOwed /\ [JobQueueNext]_queueVars => AllOwed'
<1> SUFFICES ASSUME JobQueueIInv, AllOwed, [JobQueueNext]_queueVars, NEW c \in Callers
             PROVE  Owed(c)'
  BY DEF AllOwed
<1>1. Owed(c)
  BY DEF AllOwed
<1>2. ASSUME UNCHANGED <<highPriority, caller>>, \A w \in Workers : worker'[w].job = worker[w].job
      PROVE  Owed(c)'
  <2>1. /\ Unanswered(c)' <=> Unanswered(c)
        /\ \A w \in Workers : ServedBy(c, w)' <=> ServedBy(c, w)
    BY <1>2 DEF Unanswered, ServedBy
  <2> QED BY <1>1, <1>2, <2>1, OwedStays
<1>3. CASE UNCHANGED queueVars
  BY <1>2, <1>3 DEF queueVars
<1>4. CASE Start
  BY <1>2, <1>4 DEF JobQueueIInv, WorkersOK, Start
<1>5. CASE Close \/ UpdateSettings
  BY <1>2, <1>5 DEF Close, UpdateSettings
<1>6. CASE Schedule
  BY <1>2, <1>6, ScheduleFrame
<1>7. CASE \E w \in Workers : Work(w)
  BY <1>7, OwedWork
<1>8. CASE \E d \in Callers : Call(d)
  BY <1>8, OwedCall
<1> QED BY <1>3, <1>4, <1>5, <1>6, <1>7, <1>8 DEF JobQueueNext

\* A caller without an answer has exactly one job under way.
THEOREM CallersAreOwed == JobQueueSpec => []AllOwed
<1> QED BY OwedInit, OwedStep, JobQueueInvariance, PTL DEF JobQueueSpec

LEMMA CountingAnswers ==
  ASSUME NEW c \in Callers, Owed(c), highPriority \in Seq(HighJobs)
  PROVE  Cardinality(AnswerFrom(c)) = IF Unanswered(c) THEN 1 ELSE 0
<1>1. DOMAIN highPriority = 1..Len(highPriority) /\ Len(highPriority) \in Nat
  BY LenProperties
<1>2. \A p : p \in AnswerFrom(c) <=>
        \/ \E i \in Nat : AskedAt(c, i) /\ p = <<"queued", i>>
        \/ \E w \in Workers : ServedBy(c, w) /\ p = <<"working", w>>
  BY <1>1 DEF AnswerFrom, AskedAt, ServedBy
<1>3. CASE ~Unanswered(c)
  <2>1. AnswerFrom(c) = {}
    BY <1>2, <1>3 DEF Owed
  <2> QED BY <1>3, <2>1, FS_EmptySet
<1>4. CASE Unanswered(c)
  <2>1. ASSUME NEW i \in Nat, AskedAt(c, i)
        PROVE  Cardinality(AnswerFrom(c)) = 1
    <3>1. AnswerFrom(c) = {<<"queued", i>>}
      BY <1>2, <2>1 DEF Owed
    <3> QED BY <3>1, FS_Singleton
  <2>2. ASSUME NEW w \in Workers, ServedBy(c, w)
        PROVE  Cardinality(AnswerFrom(c)) = 1
    <3>1. AnswerFrom(c) = {<<"working", w>>}
      BY <1>2, <2>2 DEF Owed
    <3> QED BY <3>1, FS_Singleton
  <2> QED BY <1>4, <2>1, <2>2 DEF Owed
<1> QED BY <1>3, <1>4

\* What the two invariants say in the words of the property.
LEMMA JobQueueInvariants == JobQueueIInv /\ AllOwed => JobsAreExact
<1> QED BY Counting, CountingAnswers
        DEF JobQueueIInv, QueuesOK, AllOwed, Unanswered, JobsAreExact

\* An account is marked exactly while one job of the scheduler is about it, and
\* a caller is without an answer exactly while one job of its is under way.
THEOREM JobsHaveOnePlace == JobQueueSpec => []JobsAreExact
<1> QED BY JobQueueInvariance, CallersAreOwed, JobQueueInvariants, PTL
===============================================================================
