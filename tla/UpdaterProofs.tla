----------------------------- MODULE UpdaterProofs -----------------------------
(* Theorems about the update of a deployment, for every number of updater    *)
(* processes, releases, jobs and writes.                                     *)
EXTENDS Updater, TLAPS

Step(p) == oneOff[work[p].job].step

\* One process is at work, the owner of the lock, on an open job.
LockOK(p) ==
  stage[p] \in Busy =>
    updateLock = p /\ work[p].job \in Jobs /\ jobs[work[p].job] = "open"

\* A job begins without a container and without a backup; only a container
\* between its two renames has a safety copy.
OneOffOK(j) ==
  /\ jobs[j] = "none" => oneOff[j].step = "none"
  /\ oneOff[j].step # "archived" => oneOff[j].safety = Missing
  /\ oneOff[j].step = "none" => \A b \in backups : b.job # j

\* What the stage of a job says of its container, its versions and the settings.
StageOK(p) ==
  /\ stage[p] \in {"checking", "pulling", "switching", "stopping"} => Step(p) = "none"
  /\ stage[p] = "backing_up" => Step(p) \in {"copying", "done", "failed"}
  /\ stage[p] \in {"restarting", "awaiting", "halting"} => Step(p) = "done"
  /\ stage[p] = "restoring" => Step(p) \in {"staging", "staged", "archived", "done", "failed"}
  /\ stage[p] \in {"reverting", "recreating", "confirming"} =>
       Step(p) \in {"none", "copying", "done", "failed"}
  /\ stage[p] \in Busy \ {"checking"} =>
       work[p].previous \in Releases /\ work[p].previous < work[p].next
  /\ stage[p] \in {"pulling", "switching", "recreating", "confirming"} =>
       env = work[p].previous
  /\ stage[p] \in {"stopping", "backing_up", "restarting", "awaiting", "halting",
                   "restoring", "reverting"} => env = work[p].next
  /\ stage[p] \in {"awaiting", "confirming"} => app.version = env

\* A database of this schema may come back: no image at work or wanted is older.
Low(s) ==
  /\ s <= env
  /\ \A p \in Updaters : stage[p] \in Busy \ {"checking"} => s <= work[p].previous

\* The database fits the application and the settings,
DatabaseFits ==
  /\ database.schema <= env
  /\ app.state # "stopped" => app.version <= env /\ database.schema <= app.version
  /\ app.state = "running" => database # Missing /\ database.schema >= app.version

\* and so will the one that a container at work puts in its place.
RestoreFits(j) ==
  /\ oneOff[j].step = "staging" => \A b \in backups : b.job = j => Low(b.copy.schema)
  /\ Replacing(j) => Low(oneOff[j].temporary.schema)
  /\ oneOff[j].step = "archived" =>
       database = Missing /\ oneOff[j].safety.schema <= env

\* The job keeps what there was when it began, in the database or the backup,
\* and until the new version starts, the old one can go on with it.
WorkOK(p) ==
  /\ stage[p] \in Busy \ {"restoring"} => began[p] \subseteq database.rows
  /\ stage[p] \in {"pulling", "switching", "stopping", "backing_up", "restarting",
                   "reverting"} =>
       /\ database.schema <= work[p].previous
       /\ app.state # "stopped" => app.version <= work[p].previous
  /\ stage[p] \in {"backing_up", "restarting", "awaiting", "halting", "restoring"} =>
       \A b \in backups : b.job = work[p].job =>
         b.copy.schema <= work[p].previous /\ began[p] \subseteq b.copy.rows
  /\ stage[p] = "restoring" /\ Replacing(work[p].job) =>
       began[p] \subseteq oneOff[work[p].job].temporary.rows
  /\ stage[p] = "restoring" /\ Step(p) = "done" =>
       /\ app.state = "stopped" /\ database.schema <= work[p].previous
       /\ began[p] \subseteq database.rows

Control == \A p \in Updaters : LockOK(p) /\ StageOK(p)
Data ==
  /\ ~Exposed /\ DatabaseFits /\ NothingIsLost
  /\ \A j \in Jobs : RestoreFits(j)
  /\ \A p \in Updaters : WorkOK(p)

UpdaterIInv ==
  /\ UpdaterTypeOK /\ Control
  /\ \A j \in Jobs : OneOffOK(j)
  /\ ~exposed => Data
-----------------------------------------------------------------------------
(* Types.                                                                    *)

Conditions == {"none", "copying", "staging", "staged", "archived", "done", "failed"}
Containers == [step : Conditions, temporary : Copies, safety : Copies]
Tasks  == [job : 0..MaxJobs, previous : 0..MaxVersion, next : 0..MaxVersion]
Stages == Busy \cup {"down", "ready"}

FileTypes ==
  /\ database \in Copies /\ kept \subseteq Writes /\ backups \subseteq Backups
  /\ oneOff \in [Jobs -> Containers]

AppTypes ==
  /\ latest \in Releases /\ env \in Releases /\ stored \subseteq Writes
  /\ app \in [version : Releases, state : {"stopped", "starting", "running"}]

ProcessTypes ==
  /\ updateLock \in Updaters \cup {NoUpdater}
  /\ stage \in [Updaters -> Stages]
  /\ work \in [Updaters -> Tasks]
  /\ jobs \in [Jobs -> Outcomes]
  /\ began \in [Updaters -> SUBSET Writes]

LEMMA UpdaterTyping ==
  UpdaterTypeOK <=> FileTypes /\ AppTypes /\ ProcessTypes /\ exposed \in BOOLEAN
BY DEF UpdaterTypeOK, FileTypes, AppTypes, ProcessTypes, Conditions, Containers, Tasks,
   Stages

\* The values things start with have their types.
LEMMA Initially ==
  /\ Missing \in Copies /\ Idle \in Containers /\ NoWork \in Tasks
  /\ 1 \in Releases
BY UpdaterConstants DEF Missing, Copies, Idle, Containers, Conditions, NoWork, Tasks,
   Releases

\* The condition of a container changes, or all of it.
LEMMA ContainerChanges ==
  ASSUME oneOff \in [Jobs -> Containers], NEW j \in Jobs
  PROVE  /\ \A s \in Conditions : OneOff(j, s) =>
              /\ oneOff' \in [Jobs -> Containers]
              /\ \A k \in Jobs \ {j} : oneOff'[k] = oneOff[k]
              /\ oneOff'[j].step = s /\ oneOff'[j].temporary = oneOff[j].temporary
              /\ oneOff'[j].safety = oneOff[j].safety
         /\ \A c \in Containers : oneOff' = [oneOff EXCEPT ![j] = c] =>
              /\ oneOff' \in [Jobs -> Containers]
              /\ \A k \in Jobs \ {j} : oneOff'[k] = oneOff[k]
              /\ oneOff'[j] = c
<1>1. ASSUME NEW s \in Conditions, OneOff(j, s)
      PROVE  /\ oneOff' \in [Jobs -> Containers]
             /\ \A k \in Jobs \ {j} : oneOff'[k] = oneOff[k]
             /\ oneOff'[j].step = s /\ oneOff'[j].temporary = oneOff[j].temporary
             /\ oneOff'[j].safety = oneOff[j].safety
  <2>1. oneOff[j] \in Containers
    OBVIOUS
  <2>2. [oneOff[j] EXCEPT !.step = s] \in Containers
    BY <2>1 DEF Containers
  <2>3. oneOff'[j] = [oneOff[j] EXCEPT !.step = s]
    BY <1>1 DEF OneOff
  <2>4. oneOff' \in [Jobs -> Containers] /\ \A k \in Jobs \ {j} : oneOff'[k] = oneOff[k]
    BY <1>1, <2>2 DEF OneOff
  <2> QED BY <2>1, <2>3, <2>4 DEF Containers
<1>2. ASSUME NEW c \in Containers, oneOff' = [oneOff EXCEPT ![j] = c]
      PROVE  /\ oneOff' \in [Jobs -> Containers]
             /\ \A k \in Jobs \ {j} : oneOff'[k] = oneOff[k]
             /\ oneOff'[j] = c
  BY <1>2
<1> QED BY <1>1, <1>2

\* What a container holds with a step, a copy and a safety copy of its own.
Holding(s, t, u) == [step |-> s, temporary |-> t, safety |-> u]

\* What each step of a container does to the containers.
LEMMA ContainerSteps ==
  ASSUME FileTypes, NEW j \in Jobs, RunOneOff(j)
  PROVE  /\ \A k \in Jobs \ {j} : oneOff'[k] = oneOff[k]
         /\ oneOff' \in [Jobs -> Containers]
         /\ \/ /\ CreateUpdateBackup(j) /\ oneOff'[j].step \in {"done", "failed"}
               /\ oneOff'[j].safety = oneOff[j].safety
            \/ /\ RestoreStages(j) /\ oneOff'[j].safety \in {Missing, oneOff[j].safety}
               /\ \/ oneOff'[j].step = "failed"
                  \/ \E b \in backups : b.job = j /\ oneOff'[j] = Holding("staged", b.copy, Missing)
            \/ /\ RestoreArchives(j)
               /\ \/ /\ oneOff'[j].step = "failed" /\ UNCHANGED database
                     /\ oneOff'[j].safety = oneOff[j].safety
                  \/ /\ oneOff'[j] = Holding("archived", oneOff[j].temporary, database)
                     /\ database' = Missing
            \/ /\ RestoreActivates(j)
               /\ \/ /\ oneOff'[j] = Holding("done", Missing, Missing)
                     /\ database' = oneOff[j].temporary
                     /\ kept' = kept \cup oneOff[j].safety.rows
                  \/ /\ oneOff'[j] = Holding("failed", Missing, Missing) /\ UNCHANGED kept
                     /\ database' = IF oneOff[j].safety = Missing THEN database
                                    ELSE oneOff[j].safety
            \/ OneOffDies(j) /\ oneOff'[j] = Holding("failed", Missing, Missing)
<1> DEFINE C == \A k \in Jobs \ {j} : oneOff'[k] = oneOff[k]
           T == oneOff' \in [Jobs -> Containers]
<1>1. oneOff \in [Jobs -> Containers] /\ oneOff[j] \in Containers /\ backups \subseteq Backups
  BY DEF FileTypes
<1>2. Missing \in Copies /\ database \in Copies
  BY Initially DEF FileTypes
<1>3. \A s \in Conditions : [Idle EXCEPT !.step = s] = Holding(s, Missing, Missing)
  BY DEF Idle, Holding
<1>4. \A s \in Conditions, t, u \in Copies : Holding(s, t, u) \in Containers
  BY DEF Holding, Containers
<1>5. CASE CreateUpdateBackup(j)
  <2>1. OneOff(j, "done") \/ OneOff(j, "failed")
    BY <1>5 DEF CreateUpdateBackup
  <2> QED BY <1>1, <1>5, <2>1, ContainerChanges DEF Conditions
<1>6. CASE RestoreStages(j)
  <2>1. CASE OneOff(j, "failed")
    BY <1>1, <1>6, <2>1, ContainerChanges DEF Conditions
  <2>2. ASSUME NEW b \in backups, b.job = j,
               oneOff' = [oneOff EXCEPT ![j] = [Idle EXCEPT !.step = "staged",
                                                           !.temporary = b.copy]]
        PROVE  C /\ T /\ oneOff'[j] = Holding("staged", b.copy, Missing)
    <3>1. [Idle EXCEPT !.step = "staged", !.temporary = b.copy]
            = Holding("staged", b.copy, Missing)
      <4> DEFINE i == [Idle EXCEPT !.step = "staged"]
      <4>1. i = Holding("staged", Missing, Missing)
        BY <1>3 DEF Conditions
      <4> HIDE DEF i
      <4>2. [i EXCEPT !.temporary = b.copy] = Holding("staged", b.copy, Missing)
        BY <4>1 DEF Holding
      <4> QED BY <4>2 DEF i
    <3>2. Holding("staged", b.copy, Missing) \in Containers
      BY <1>1, <1>2, <1>4 DEF Backups, Conditions
    <3> QED BY <1>1, <2>2, <3>1, <3>2, ContainerChanges
  <2>3. ASSUME NEW b \in backups PROVE Holding("staged", b.copy, Missing).safety = Missing
    BY DEF Holding
  <2> QED BY <1>6, <2>1, <2>2, <2>3 DEF RestoreStages
<1>7. CASE RestoreArchives(j)
  <2>1. CASE OneOff(j, "failed") /\ UNCHANGED database
    BY <1>1, <1>7, <2>1, ContainerChanges DEF Conditions
  <2>2. CASE /\ oneOff' = [oneOff EXCEPT ![j].step = "archived", ![j].safety = database]
             /\ database' = Missing
    <3> DEFINE h == Holding("archived", oneOff[j].temporary, database)
    <3>1. h \in Containers
      BY <1>1, <1>2, <1>4 DEF Containers, Conditions
    <3>2. oneOff' = [oneOff EXCEPT ![j] = h]
      <4> DEFINE m == [oneOff EXCEPT ![j].step = "archived"]
      <4>1. m \in [Jobs -> Containers] /\ m[j].temporary = oneOff[j].temporary
            /\ m[j].step = "archived" /\ \A k \in Jobs \ {j} : m[k] = oneOff[k]
        <5>1. [oneOff[j] EXCEPT !.step = "archived"] \in Containers
          BY <1>1 DEF Containers, Conditions
        <5> QED BY <1>1, <5>1 DEF Containers
      <4> HIDE DEF m
      <4>2. oneOff' = [m EXCEPT ![j].safety = database]
        BY <2>2 DEF m
      <4>3. [m[j] EXCEPT !.safety = database] = h
        BY <4>1 DEF Holding, Containers
      <4>4. oneOff' = [m EXCEPT ![j] = h]
        BY <4>1, <4>2, <4>3
      <4> HIDE DEF h
      <4> QED BY <1>1, <4>1, <4>4
    <3> HIDE DEF h
    <3>3. C /\ T /\ oneOff'[j] = h
      BY <1>1, <3>1, <3>2, ContainerChanges
    <3> QED BY <1>7, <2>2, <3>3 DEF h
  <2> QED BY <1>7, <2>1, <2>2 DEF RestoreArchives
<1>8. CASE RestoreActivates(j)
  <2>1. ASSUME NEW s \in Conditions, oneOff' = [oneOff EXCEPT ![j] = [Idle EXCEPT !.step = s]]
        PROVE  C /\ T /\ oneOff'[j] = Holding(s, Missing, Missing)
    BY <1>1, <1>2, <1>3, <1>4, <2>1, ContainerChanges
  <2> QED BY <1>8, <2>1 DEF RestoreActivates, Conditions
<1>9. CASE OneOffDies(j)
  BY <1>1, <1>2, <1>3, <1>4, <1>9, ContainerChanges DEF OneOffDies, Conditions
<1> QED BY <1>5, <1>6, <1>7, <1>8, <1>9 DEF RunOneOff

\* What becomes of its condition and of its safety copy.
LEMMA ContainerEnds ==
  ASSUME FileTypes, NEW j \in Jobs, RunOneOff(j)
  PROVE  /\ \/ oneOff[j].step = "copying" /\ oneOff'[j].step \in {"done", "failed"}
            \/ oneOff[j].step \in {"staging", "staged", "archived"}
               /\ oneOff'[j].step \in {"staged", "archived", "done", "failed"}
         /\ oneOff'[j].step # "archived" =>
              \/ oneOff'[j].safety = Missing
              \/ oneOff'[j].safety = oneOff[j].safety /\ oneOff[j].step # "archived"
<1>1. \A s \in Conditions, t, u \in Copies :
        Holding(s, t, u).step = s /\ Holding(s, t, u).safety = u
  BY DEF Holding
<1>2. Missing \in Copies /\ database \in Copies /\ oneOff[j].temporary \in Copies
  BY Initially DEF FileTypes, Containers
<1>3. \A b \in backups : b.copy \in Copies
  BY DEF FileTypes, Backups
<1>4. /\ CreateUpdateBackup(j) => oneOff[j].step = "copying"
      /\ RestoreStages(j) => oneOff[j].step = "staging"
      /\ RestoreArchives(j) => oneOff[j].step = "staged"
      /\ RestoreActivates(j) => oneOff[j].step = "archived"
      /\ OneOffDies(j) => oneOff[j].step \in {"copying", "staging", "staged", "archived"}
  BY DEF CreateUpdateBackup, RestoreStages, RestoreArchives, RestoreActivates, OneOffDies
<1>5. CASE OneOffDies(j) /\ oneOff'[j] = Holding("failed", Missing, Missing)
  <2>1. oneOff'[j].step = "failed" /\ oneOff'[j].safety = Missing
    BY <1>5 DEF Holding
  <2> QED BY <1>4, <1>5, <2>1
<1>6. CASE RestoreActivates(j)
           /\ \E t \in {"done", "failed"} : oneOff'[j] = Holding(t, Missing, Missing)
  <2>1. oneOff'[j].step \in {"done", "failed"} /\ oneOff'[j].safety = Missing
    BY <1>6 DEF Holding
  <2> QED BY <1>4, <1>6, <2>1
<1>7. CASE RestoreArchives(j) /\ oneOff'[j] = Holding("archived", oneOff[j].temporary, database)
  BY <1>1, <1>2, <1>4, <1>7 DEF Conditions
<1>8. CASE RestoreStages(j) /\ \E b \in backups : oneOff'[j] = Holding("staged", b.copy, Missing)
  BY <1>1, <1>2, <1>3, <1>4, <1>8 DEF Conditions
<1> QED BY <1>4, <1>5, <1>6, <1>7, <1>8, ContainerSteps

\* Other processes are not touched.
Others(p) ==
  \A q \in Updaters \ {p} :
    stage'[q] = stage[q] /\ work'[q] = work[q] /\ began'[q] = began[q]

\* A job that goes on, with the same work.
LEMMA Proceeding ==
  ASSUME ProcessTypes, NEW p \in Updaters, NEW s \in Busy, Proceed(p, s)
  PROVE  /\ ProcessTypes' /\ Others(p) /\ stage'[p] = s
         /\ UNCHANGED <<updateLock, work, jobs, began>>
BY DEF ProcessTypes, Proceed, Reach, Others, Stages

\* A job that ends, with an outcome or without.
LEMMA Ending ==
  ASSUME ProcessTypes, NEW p \in Updaters, NEW o \in Outcomes, EndJob(p, o)
  PROVE  /\ ProcessTypes' /\ Others(p) /\ stage'[p] = "ready" /\ updateLock' = NoUpdater
         /\ \A k \in Jobs : jobs'[k] # jobs[k] => k = work[p].job /\ jobs'[k] = o
<1>1. work' \in [Updaters -> Tasks] /\ \A q \in Updaters \ {p} : work'[q] = work[q]
  BY Initially DEF EndJob, ProcessTypes
<1>2. stage' \in [Updaters -> Stages] /\ stage'[p] = "ready"
      /\ \A q \in Updaters \ {p} : stage'[q] = stage[q]
  BY DEF EndJob, ProcessTypes, Reach, Stages
<1>3. began' \in [Updaters -> SUBSET Writes]
      /\ \A q \in Updaters \ {p} : began'[q] = began[q]
  BY DEF EndJob, ProcessTypes
<1>4. jobs' \in [Jobs -> Outcomes]
      /\ \A k \in Jobs : jobs'[k] # jobs[k] => k = work[p].job /\ jobs'[k] = o
  BY DEF EndJob, ProcessTypes
<1> QED BY <1>1, <1>2, <1>3, <1>4 DEF EndJob, ProcessTypes, Others

\* The release is chosen.
Choosing(p, v) ==
  /\ work' = [work EXCEPT ![p].previous = env, ![p].next = v]
  /\ Reach(p, "pulling")
  /\ UNCHANGED <<updateLock, jobs, began>>

LEMMA Chosen ==
  ASSUME ProcessTypes, env \in Releases, NEW p \in Updaters, NEW v \in Releases,
         Choosing(p, v)
  PROVE  /\ ProcessTypes' /\ Others(p) /\ stage'[p] = "pulling"
         /\ work'[p].job = work[p].job
         /\ work'[p].previous = env /\ work'[p].next = v
         /\ UNCHANGED <<updateLock, jobs, began>>
<1>1. /\ work \in [Updaters -> Tasks] /\ work[p] \in Tasks
      /\ env \in 0..MaxVersion /\ v \in 0..MaxVersion
  BY UpdaterConstants DEF ProcessTypes, Releases
<1> DEFINE m == [work EXCEPT ![p].previous = env]
<1>2. [work[p] EXCEPT !.previous = env] \in Tasks
  BY <1>1 DEF Tasks
<1>3. m \in [Updaters -> Tasks] /\ \A q \in Updaters \ {p} : m[q] = work[q]
  BY <1>1, <1>2
<1>4. m[p].job = work[p].job /\ m[p].previous = env
  BY <1>1 DEF Tasks
<1> HIDE DEF m
<1>5. work' = [m EXCEPT ![p].next = v]
  BY DEF Choosing, m
<1>6. [m[p] EXCEPT !.next = v] \in Tasks
  BY <1>1, <1>3 DEF Tasks
<1>7. work' \in [Updaters -> Tasks] /\ \A q \in Updaters \ {p} : work'[q] = work[q]
  BY <1>3, <1>5, <1>6
<1>8. /\ work'[p].job = work[p].job /\ work'[p].previous = env /\ work'[p].next = v
  BY <1>3, <1>4, <1>5 DEF Tasks
<1>9. stage' \in [Updaters -> Stages] /\ stage'[p] = "pulling"
      /\ \A q \in Updaters \ {p} : stage'[q] = stage[q]
  BY DEF Choosing, Reach, ProcessTypes, Stages, Busy
<1> QED BY <1>7, <1>8, <1>9 DEF Choosing, ProcessTypes, Others

\* A step of a job ends it, chooses the release or goes on to another stage.
LEMMA JobSteps ==
  ASSUME UpdaterTypeOK, NEW p \in Updaters, RunJob(p)
  PROVE  /\ ProcessTypes' /\ Others(p) /\ stage[p] \in Busy
         /\ UNCHANGED <<latest, stored, database, kept, backups>>
         /\ \/ \E o \in Outcomes \ {"none", "open"} : EndJob(p, o)
            \/ \E v \in Releases : CheckRelease(p) /\ v > env /\ Choosing(p, v)
            \/ \E s \in Busy : Proceed(p, s) /\ ~CheckRelease(p)
<1>1. ProcessTypes /\ env \in Releases
  BY UpdaterTyping DEF AppTypes
<1>2. stage[p] \in Busy /\ UNCHANGED <<latest, stored, database, kept, backups>>
  BY DEF RunJob, CheckRelease, PullImage, SwitchVersion, StopForBackup, BackupReturns,
     UpNewVersion, AwaitHealth, StopForRollback, RestoreReturns, RevertVersion,
     UpPreviousVersion, ConfirmHealth, Busy, deployment, files
<1>3. CASE CheckRelease(p)
  <2>1. \/ EndJob(p, "failed")
        \/ \E v \in Releases : v > env /\ Choosing(p, v)
    BY <1>3 DEF CheckRelease, Acceptable, Choosing
  <2> QED BY <1>1, <1>2, <1>3, <2>1, Ending, Chosen DEF Outcomes
<1>4. CASE ~CheckRelease(p)
  <2>1. \/ EndJob(p, "failed") \/ EndJob(p, "broken") \/ EndJob(p, "completed")
        \/ EndJob(p, "recovered")
        \/ \E s \in Busy : Proceed(p, s)
    BY <1>4 DEF RunJob, PullImage, SwitchVersion, StopForBackup, BackupReturns,
       UpNewVersion, AwaitHealth, StopForRollback, RestoreReturns, RevertVersion,
       UpPreviousVersion, ConfirmHealth, Busy
  <2> QED BY <1>1, <1>2, <1>4, <2>1, Ending, Proceeding DEF Outcomes
<1> QED BY <1>3, <1>4

\* A stop, a start of the container or a failed one leave it a container.
LEMMA ComposeTypes ==
  ASSUME app \in [version : Releases, state : {"stopped", "starting", "running"}],
         env \in Releases
  PROVE  /\ Stop => app' \in [version : Releases, state : {"stopped", "starting", "running"}]
                      /\ app'.version = app.version /\ app'.state = "stopped"
         /\ Up => app' \in [version : Releases, state : {"stopped", "starting", "running"}]
                    /\ app'.version = env /\ app'.state = "starting"
         /\ app' = [version |-> env, state |-> "stopped"] =>
              app' \in [version : Releases, state : {"stopped", "starting", "running"}]
                /\ app'.version = env /\ app'.state = "stopped"
BY DEF Stop, Up

\* The steps of a job keep the types.
LEMMA JobTypes ==
  ASSUME UpdaterTypeOK, NEW p \in Updaters, RunJob(p), LockOK(p), StageOK(p)
  PROVE  FileTypes' /\ AppTypes' /\ ProcessTypes'
<1>1. FileTypes /\ AppTypes /\ ProcessTypes
  BY UpdaterTyping
<1>2. /\ ProcessTypes' /\ stage[p] \in Busy
      /\ UNCHANGED <<latest, stored, database, kept, backups>>
  BY JobSteps
<1>3. work[p].job \in Jobs /\ work[p] \in Tasks
  BY <1>1, <1>2 DEF LockOK, ProcessTypes
<1>4. oneOff' \in [Jobs -> Containers]
  <2>1. CASE StopForBackup(p)
    BY <1>1, <1>3, <2>1, ContainerChanges DEF StopForBackup, FileTypes, Conditions
  <2>2. CASE StopForRollback(p)
    <3>1. [Idle EXCEPT !.step = "staging"] \in Containers
      BY Initially DEF Containers, Conditions
    <3> QED BY <1>1, <1>3, <2>2, <3>1, ContainerChanges DEF StopForRollback, FileTypes
  <2>3. CASE UNCHANGED oneOff
    BY <1>1, <2>3 DEF FileTypes
  <2> QED BY <2>1, <2>2, <2>3 DEF RunJob, CheckRelease, PullImage, SwitchVersion,
      BackupReturns, UpNewVersion, AwaitHealth, RestoreReturns, RevertVersion,
      UpPreviousVersion, ConfirmHealth, files
<1>5. app' \in [version : Releases, state : {"stopped", "starting", "running"}]
  <2>1. StopFails \/ Up \/ UpFails \/ UNCHANGED app
    BY DEF RunJob, CheckRelease, PullImage, SwitchVersion, StopForBackup, BackupReturns,
       UpNewVersion, AwaitHealth, StopForRollback, RestoreReturns, RevertVersion,
       UpPreviousVersion, ConfirmHealth, deployment, StopFails
  <2> QED BY <1>1, <2>1, ComposeTypes DEF AppTypes, StopFails, UpFails
<1>6. env' \in Releases
  <2>1. \/ env' = env
        \/ env' \in {work[p].next, work[p].previous} /\ stage[p] \in Busy \ {"checking"}
    BY <1>2 DEF RunJob, CheckRelease, PullImage, SwitchVersion, StopForBackup,
       BackupReturns, UpNewVersion, AwaitHealth, StopForRollback, RestoreReturns,
       RevertVersion, UpPreviousVersion, ConfirmHealth, deployment
  <2>2. stage[p] \in Busy \ {"checking"} =>
          work[p].previous \in Releases /\ work[p].next \in Releases
    BY <1>3, UpdaterConstants DEF StageOK, Tasks, Releases
  <2> QED BY <1>1, <2>1, <2>2 DEF AppTypes
<1> QED BY <1>1, <1>2, <1>4, <1>5, <1>6 DEF FileTypes, AppTypes

\* So do the steps of a container,
LEMMA ContainerTypes ==
  ASSUME UpdaterTypeOK, NEW j \in Jobs, RunOneOff(j)
  PROVE  FileTypes' /\ AppTypes' /\ ProcessTypes'
<1>1. FileTypes /\ AppTypes /\ ProcessTypes
  BY UpdaterTyping
<1>2. oneOff' \in [Jobs -> Containers]
  BY <1>1, ContainerSteps
<1>3. UNCHANGED <<deployment, updater>>
  BY DEF RunOneOff, CreateUpdateBackup, RestoreStages, RestoreArchives, RestoreActivates,
     OneOffDies
<1>4. AppTypes' /\ ProcessTypes'
  BY <1>1, <1>3 DEF deployment, updater, AppTypes, ProcessTypes
<1>5. /\ oneOff[j].safety \in Copies /\ oneOff[j].temporary \in Copies
      /\ oneOff[j].safety.rows \subseteq Writes /\ Missing \in Copies
  BY <1>1, Initially DEF FileTypes, Containers, Copies
<1>6. database' \in Copies /\ kept' \subseteq Writes
  BY <1>1, <1>5 DEF RunOneOff, CreateUpdateBackup, RestoreStages, RestoreArchives,
     RestoreActivates, OneOffDies, FileTypes
<1>7. backups' \subseteq Backups
  <2>1. [job |-> j, copy |-> database] \in Backups
    BY <1>1 DEF FileTypes, Backups, Jobs
  <2> QED BY <1>1, <2>1 DEF RunOneOff, CreateUpdateBackup, RestoreStages, RestoreArchives,
          RestoreActivates, OneOffDies, FileTypes
<1> QED BY <1>2, <1>4, <1>6, <1>7 DEF FileTypes

\* What happens besides jobs and containers.
Around ==
  \/ \E p \in Updaters : StartUpdater(p) \/ UpdaterDies(p) \/ StartJob(p)
  \/ Application \/ Publish \/ OperatorUp

\* and everything else.
LEMMA AroundTypes ==
  ASSUME UpdaterTypeOK, Around
  PROVE  FileTypes' /\ AppTypes' /\ ProcessTypes'
<1>1. FileTypes /\ AppTypes /\ ProcessTypes
  BY UpdaterTyping
<1>2. ASSUME NEW p \in Updaters, StartUpdater(p) PROVE ProcessTypes'
  BY <1>1, <1>2 DEF StartUpdater, Reach, RecoverInterruptedJobs, ProcessTypes, Stages,
     Outcomes
<1>3. ASSUME NEW p \in Updaters, UpdaterDies(p) PROVE ProcessTypes'
  <2>1. work' \in [Updaters -> Tasks]
    BY <1>1, <1>3, Initially DEF UpdaterDies, ProcessTypes
  <2> QED BY <1>1, <1>3, <2>1 DEF UpdaterDies, Reach, ProcessTypes, Stages
<1>4. ASSUME NEW p \in Updaters, StartJob(p) PROVE ProcessTypes'
  <2>1. ASSUME NEW j \in Jobs PROVE [NoWork EXCEPT !.job = j] \in Tasks
    BY Initially DEF Tasks, Jobs
  <2>2. work' \in [Updaters -> Tasks]
    BY <1>1, <1>4, <2>1 DEF StartJob, ProcessTypes
  <2>3. database.rows \subseteq Writes
    BY <1>1 DEF FileTypes, Copies
  <2>4. began' \in [Updaters -> SUBSET Writes]
    BY <1>1, <1>4, <2>3 DEF StartJob, ProcessTypes
  <2> QED BY <1>1, <1>4, <2>2, <2>4 DEF StartJob, Reach, ProcessTypes, Stages, Busy,
          Outcomes
<1>5. ASSUME NEW p \in Updaters, StartUpdater(p) \/ UpdaterDies(p) \/ StartJob(p)
      PROVE  FileTypes' /\ AppTypes'
  BY <1>1, <1>5 DEF StartUpdater, UpdaterDies, StartJob, deployment, files, FileTypes,
     AppTypes
<1>6. ASSUME CreateDatabase \/ Migrate \/ CreateBackup \/ DeleteBackup
      PROVE  FileTypes'
  <2>1. /\ app.version \in Releases /\ database \in Copies /\ kept \subseteq Writes
        /\ backups \subseteq Backups /\ oneOff \in [Jobs -> Containers]
    BY <1>1 DEF AppTypes, FileTypes
  <2>2. database' \in Copies
    <3>1. [schema |-> app.version, rows |-> {}] \in Copies
      BY <2>1, UpdaterConstants DEF Copies, Releases
    <3>2. database.schema < app.version => database.schema + 1 \in 0..MaxVersion
      BY <2>1, UpdaterConstants DEF Copies, Releases
    <3>3. database.schema < app.version =>
            [database EXCEPT !.schema = database.schema + 1] \in Copies
      BY <2>1, <3>2 DEF Copies
    <3> QED BY <1>6, <2>1, <3>1, <3>3 DEF CreateDatabase, Migrate, CreateBackup, DeleteBackup
  <2>3. backups' \subseteq Backups
    <3>1. [job |-> 0, copy |-> database] \in Backups
      BY <2>1, UpdaterConstants DEF Backups
    <3> QED BY <1>6, <2>1, <3>1 DEF CreateDatabase, Migrate, CreateBackup, DeleteBackup
  <2>4. kept' \subseteq Writes
    BY <1>6, <2>1 DEF CreateDatabase, Migrate, CreateBackup, DeleteBackup, Copies
  <2> QED BY <1>6, <2>1, <2>2, <2>3, <2>4
          DEF CreateDatabase, Migrate, CreateBackup, DeleteBackup, FileTypes
<1>7. ASSUME CreateDatabase \/ Migrate \/ CreateBackup \/ DeleteBackup
      PROVE  AppTypes' /\ ProcessTypes'
  BY <1>1, <1>7 DEF CreateDatabase, Migrate, CreateBackup, DeleteBackup, deployment,
     updater, AppTypes, ProcessTypes
<1>8. ASSUME Serve \/ ServerDies \/ Publish \/ OperatorUp
      PROVE  FileTypes' /\ ProcessTypes'
  BY <1>1, <1>8 DEF Serve, ServerDies, Publish, OperatorUp, updater, files, FileTypes,
     ProcessTypes
<1>9. ASSUME Serve \/ ServerDies \/ Publish \/ OperatorUp
      PROVE  AppTypes'
  <2>1. CASE Serve \/ ServerDies
    BY <1>1, <2>1 DEF Serve, ServerDies, AppTypes
  <2>2. CASE Publish
    BY <1>1, <2>2, UpdaterConstants DEF Publish, AppTypes, Releases
  <2>3. CASE OperatorUp
    BY <1>1, <2>3, ComposeTypes DEF OperatorUp, AppTypes
  <2> QED BY <1>9, <2>1, <2>2, <2>3
<1>10. ASSUME NEW w \in Writes, Write(w)
       PROVE  FileTypes' /\ AppTypes' /\ ProcessTypes'
  <2>1. ProcessTypes'
    BY <1>1, <1>10 DEF Write, updater, ProcessTypes
  <2>2. AppTypes'
    BY <1>1, <1>10 DEF Write, AppTypes
  <2>3. [database EXCEPT !.rows = database.rows \cup {w}] \in Copies
    BY <1>1 DEF FileTypes, Copies
  <2>4. FileTypes'
    BY <1>1, <1>10, <2>3 DEF Write, FileTypes
  <2> QED BY <2>1, <2>2, <2>4
<1> QED BY <1>2, <1>3, <1>4, <1>5, <1>6, <1>7, <1>8, <1>9, <1>10 DEF Around, Application

\* Types hold in every step.
LEMMA UpdaterTypesStep ==
  ASSUME UpdaterIInv, [UpdaterNext]_updaterVars
  PROVE  UpdaterTypeOK'
<1>1. UpdaterTypeOK /\ Control
  BY DEF UpdaterIInv
<1>2. ASSUME UpdaterNext PROVE FileTypes' /\ AppTypes' /\ ProcessTypes' /\ exposed' \in BOOLEAN
  <2>1. exposed' \in BOOLEAN
    BY <1>2 DEF UpdaterNext
  <2>2. \/ \E p \in Updaters : RunJob(p)
        \/ \E j \in Jobs : RunOneOff(j)
        \/ Around
    BY <1>2 DEF UpdaterNext, Around
  <2> QED BY <1>1, <2>1, <2>2, JobTypes, ContainerTypes, AroundTypes DEF Control
<1>3. CASE UNCHANGED updaterVars
  BY <1>1, <1>3 DEF UpdaterTypeOK, updaterVars, deployment, files, updater
<1>4. FileTypes' /\ AppTypes' /\ ProcessTypes' /\ exposed' \in BOOLEAN => UpdaterTypeOK'
  BY DEF UpdaterTypeOK, FileTypes, AppTypes, ProcessTypes, Conditions, Containers, Tasks,
     Stages
<1> QED BY <1>2, <1>3, <1>4
-----------------------------------------------------------------------------
(* Control: the lock, the stages and the containers.                         *)

\* Nothing is claimed of a process that is not at work.
LEMMA AtRest ==
  ASSUME NEW q \in Updaters, stage'[q] \notin Busy
  PROVE  LockOK(q)' /\ StageOK(q)' /\ WorkOK(q)'
BY DEF LockOK, StageOK, WorkOK, Busy

\* At most one process is at work.
LEMMA OnlyOne ==
  ASSUME Control, NEW p \in Updaters, stage[p] \in Busy, NEW q \in Updaters \ {p}
  PROVE  stage[q] \notin Busy
BY DEF Control, LockOK

\* While a process is at work, the lock is not free.
LEMMA LockFree ==
  ASSUME Control, updateLock = NoUpdater, NEW q \in Updaters
  PROVE  stage[q] \notin Busy
BY UpdaterConstants DEF Control, LockOK

\* A step of a job that does not end it leads to a stage with its claims true.
LEMMA JobStages ==
  ASSUME UpdaterTypeOK, Control, NEW p \in Updaters, RunJob(p), ~CheckRelease(p),
         NEW s \in Busy, Proceed(p, s)
  PROVE  StageOK(p)'
<1> DEFINE j == work[p].job
<1>1. /\ stage'[p] = s /\ work'[p] = work[p] /\ stage[p] \in Busy /\ j \in Jobs
      /\ StageOK(p) /\ oneOff \in [Jobs -> Containers]
  BY UpdaterTyping, Proceeding, JobSteps DEF Control, LockOK, FileTypes
<1>e. \A o \in {"failed", "broken", "completed", "recovered"} : ~EndJob(p, o)
  BY <1>1, UpdaterTyping DEF EndJob, Reach, ProcessTypes, Busy
<1>p. \A t \in Busy : Proceed(p, t) => s = t
  BY <1>1, UpdaterTyping DEF Proceed, Reach, ProcessTypes
<1> USE DEF StageOK, Step, Busy
<1>3. CASE PullImage(p)
  <2>1. s = "switching" /\ stage[p] = "pulling" /\ UNCHANGED <<env, oneOff>>
    BY <1>1, <1>e, <1>p, <1>3 DEF PullImage, deployment, files
  <2> QED BY <1>1, <2>1
<1>4. CASE SwitchVersion(p)
  <2>1. s = "stopping" /\ stage[p] = "switching" /\ env' = work[p].next /\ UNCHANGED oneOff
    BY <1>1, <1>e, <1>p, <1>4 DEF SwitchVersion, files
  <2> QED BY <1>1, <2>1
<1>5. CASE StopForBackup(p)
  <2>1. stage[p] = "stopping" /\ UNCHANGED env
    BY <1>5 DEF StopForBackup
  <2>2. \/ s = "backing_up" /\ OneOff(j, "copying")
        \/ s = "reverting" /\ UNCHANGED oneOff
    BY <1>1, <1>e, <1>p, <1>5 DEF StopForBackup
  <2>3. s = "backing_up" => oneOff'[j].step = "copying"
    BY <1>1, <2>2, ContainerChanges DEF Conditions
  <2> QED BY <1>1, <2>1, <2>2, <2>3
<1>6. CASE BackupReturns(p)
  <2>1. /\ stage[p] = "backing_up" /\ UNCHANGED <<env, oneOff>>
        /\ (s = "restarting" /\ Step(p) = "done") \/ s = "reverting"
    BY <1>1, <1>e, <1>p, <1>6 DEF BackupReturns, deployment, files
  <2> QED BY <1>1, <2>1
<1>7. CASE UpNewVersion(p)
  <2>1. /\ stage[p] = "restarting" /\ UNCHANGED <<env, oneOff>>
        /\ (s = "awaiting" /\ app'.version = env) \/ s = "halting"
    BY <1>1, <1>e, <1>p, <1>7 DEF UpNewVersion, Up, files
  <2> QED BY <1>1, <2>1
<1>8. CASE AwaitHealth(p)
  <2>1. s = "halting" /\ stage[p] = "awaiting" /\ UNCHANGED <<env, oneOff>>
    BY <1>1, <1>e, <1>p, <1>8 DEF AwaitHealth, deployment, files
  <2> QED BY <1>1, <2>1
<1>9. CASE StopForRollback(p)
  <2>1. s = "restoring" /\ stage[p] = "halting" /\ UNCHANGED env
    BY <1>1, <1>e, <1>p, <1>9 DEF StopForRollback
  <2>2. oneOff'[j].step = "staging"
    BY <1>1, <1>e, <1>p, <1>9 DEF StopForRollback, Idle
  <2> QED BY <1>1, <2>1, <2>2
<1>10. CASE RestoreReturns(p)
  <2>1. /\ s = "reverting" /\ stage[p] = "restoring" /\ UNCHANGED <<env, oneOff>>
        /\ Step(p) = "done"
    BY <1>1, <1>e, <1>p, <1>10 DEF RestoreReturns, deployment, files
  <2> QED BY <1>1, <2>1
<1>11. CASE RevertVersion(p)
  <2>1. /\ s = "recreating" /\ stage[p] = "reverting" /\ env' = work[p].previous
        /\ UNCHANGED oneOff
    BY <1>1, <1>e, <1>p, <1>11 DEF RevertVersion, files
  <2> QED BY <1>1, <2>1
<1>12. CASE UpPreviousVersion(p)
  <2>1. /\ s = "confirming" /\ stage[p] = "recreating" /\ app'.version = env
        /\ UNCHANGED <<env, oneOff>>
    BY <1>1, <1>e, <1>p, <1>12 DEF UpPreviousVersion, Up, files
  <2> QED BY <1>1, <2>1
<1>13. CASE ConfirmHealth(p)
  BY <1>1, <1>e, <1>p, <1>13 DEF ConfirmHealth
<1> QED BY <1>3, <1>4, <1>5, <1>6, <1>7, <1>8, <1>9, <1>10, <1>11, <1>12, <1>13 DEF RunJob

\* So a job keeps control,
LEMMA JobControl ==
  ASSUME UpdaterTypeOK, Control, NEW p \in Updaters, RunJob(p)
  PROVE  Control'
<1>1. /\ Others(p) /\ stage[p] \in Busy
      /\ \/ \E o \in Outcomes \ {"none", "open"} : EndJob(p, o)
         \/ \E v \in Releases : CheckRelease(p) /\ v > env /\ Choosing(p, v)
         \/ \E s \in Busy : Proceed(p, s) /\ ~CheckRelease(p)
  BY JobSteps
<1>2. ASSUME NEW q \in Updaters \ {p} PROVE LockOK(q)' /\ StageOK(q)'
  <2>1. stage'[q] \notin Busy
    BY <1>1, OnlyOne DEF Others
  <2> QED BY <2>1, AtRest
<1>3. ProcessTypes /\ env \in Releases /\ LockOK(p) /\ StageOK(p)
  BY UpdaterTyping DEF Control, AppTypes
<1>4. LockOK(p)' /\ StageOK(p)'
  <2>1. ASSUME NEW o \in Outcomes, EndJob(p, o) PROVE stage'[p] \notin Busy
    BY <1>3, <2>1, Ending DEF Busy
  <2>2. ASSUME NEW v \in Releases, CheckRelease(p), v > env, Choosing(p, v)
        PROVE  LockOK(p)' /\ StageOK(p)'
    <3>1. /\ stage'[p] = "pulling" /\ work'[p].job = work[p].job
          /\ work'[p].previous = env /\ work'[p].next = v
          /\ UNCHANGED <<updateLock, jobs>>
      BY <1>3, <2>2, Chosen
    <3>2. stage[p] = "checking" /\ UNCHANGED <<env, app, oneOff>>
      BY <2>2 DEF CheckRelease, deployment, files
    <3>3. LockOK(p)'
      BY <1>3, <3>1, <3>2 DEF LockOK, Busy
    <3>4. StageOK(p)'
      BY <1>3, <2>2, <3>1, <3>2 DEF StageOK, Step, Releases
    <3> QED BY <3>3, <3>4
  <2>3. ASSUME NEW s \in Busy, Proceed(p, s), ~CheckRelease(p)
        PROVE  LockOK(p)' /\ StageOK(p)'
    BY <1>1, <1>3, <2>3, JobStages DEF LockOK, Proceed
  <2> QED BY <1>1, <2>1, <2>2, <2>3, AtRest
<1> QED BY <1>2, <1>4 DEF Control

\* a container too, whatever its step,
LEMMA ContainerControl ==
  ASSUME UpdaterTypeOK, Control, NEW j \in Jobs, RunOneOff(j)
  PROVE  Control'
<1>1. UNCHANGED <<deployment, updater>>
  BY DEF RunOneOff, CreateUpdateBackup, RestoreStages, RestoreArchives, RestoreActivates,
     OneOffDies
<1>2. /\ \A k \in Jobs \ {j} : oneOff'[k] = oneOff[k]
      /\ \/ oneOff[j].step = "copying" /\ oneOff'[j].step \in {"done", "failed"}
         \/ oneOff[j].step \in {"staging", "staged", "archived"}
            /\ oneOff'[j].step \in {"staged", "archived", "done", "failed"}
  <2>1. FileTypes
    BY UpdaterTyping
  <2> QED BY <2>1, ContainerSteps, ContainerEnds
<1>3. ASSUME NEW p \in Updaters PROVE LockOK(p)' /\ StageOK(p)'
  <2>1. LockOK(p) /\ StageOK(p)
    BY DEF Control
  <2>2. LockOK(p)'
    BY <1>1, <2>1 DEF updater, LockOK
  <2>3. CASE stage[p] \in Busy
    <3>1. work[p].job \in Jobs
      BY <2>1, <2>3 DEF LockOK
    <3> QED BY <1>1, <1>2, <2>1, <2>2, <3>1 DEF StageOK, Step, deployment, updater
  <2>4. CASE stage[p] \notin Busy
    BY <1>1, <2>4, AtRest DEF updater
  <2> QED BY <2>3, <2>4
<1> QED BY <1>3 DEF Control

\* and the processes that start, die or take a job; the rest cannot disturb it.
LEMMA AroundControl ==
  ASSUME UpdaterTypeOK, Control, \A j \in Jobs : OneOffOK(j), Around
  PROVE  Control'
<1>1. ProcessTypes /\ AppTypes
  BY UpdaterTyping
<1>2. ASSUME NEW p \in Updaters, StartUpdater(p) PROVE Control'
  <2>1. ASSUME NEW q \in Updaters PROVE LockOK(q)' /\ StageOK(q)'
    <3>1. CASE stage'[q] \notin Busy
      BY <3>1, AtRest
    <3>2. CASE stage'[q] \in Busy
      <4>1. q # p /\ stage'[q] = stage[q] /\ UNCHANGED <<updateLock, work, env, app, oneOff>>
        BY <1>1, <1>2, <3>2
        DEF StartUpdater, Reach, ProcessTypes, Busy, deployment, files
      <4>2. updateLock # NoUpdater /\ LockOK(q) /\ StageOK(q)
        BY <3>2, <4>1, LockFree DEF Control
      <4>3. UNCHANGED jobs
        BY <1>2, <4>2 DEF StartUpdater, RecoverInterruptedJobs, LockIsFree
      <4>4. LockOK(q)'
        BY <4>1, <4>2, <4>3 DEF LockOK
      <4>5. StageOK(q)'
        BY <4>1, <4>2 DEF StageOK, Step
      <4> QED BY <4>4, <4>5
    <3> QED BY <3>1, <3>2
  <2> QED BY <2>1 DEF Control
<1>3. ASSUME NEW p \in Updaters, UpdaterDies(p) PROVE Control'
  <2>1. ASSUME NEW q \in Updaters PROVE LockOK(q)' /\ StageOK(q)'
    <3>1. CASE stage'[q] \notin Busy
      BY <3>1, AtRest
    <3>2. CASE stage'[q] \in Busy
      <4>1. /\ q # p /\ stage'[q] = stage[q] /\ work'[q] = work[q]
            /\ UNCHANGED <<jobs, env, app, oneOff>>
        BY <1>1, <1>3, <3>2
        DEF UpdaterDies, Reach, ProcessTypes, Busy, deployment, files
      <4>2. LockOK(q) /\ StageOK(q)
        BY DEF Control
      <4>3. updateLock = q
        BY <3>2, <4>1, <4>2 DEF LockOK
      <4>4. updateLock' = updateLock
        BY <1>3, <4>1, <4>3 DEF UpdaterDies
      <4>5. LockOK(q)'
        BY <4>1, <4>2, <4>4 DEF LockOK
      <4>6. StageOK(q)'
        BY <4>1, <4>2 DEF StageOK, Step
      <4> QED BY <4>5, <4>6
    <3> QED BY <3>1, <3>2
  <2> QED BY <2>1 DEF Control
<1>4. ASSUME NEW p \in Updaters, StartJob(p) PROVE Control'
  <2>1. updateLock = NoUpdater /\ updateLock' = p /\ UNCHANGED <<oneOff, env, app>>
    BY <1>4 DEF StartJob, LockIsFree, files, deployment
  <2>2. PICK j \in Jobs : /\ jobs[j] = "none" /\ jobs' = [jobs EXCEPT ![j] = "open"]
                          /\ work' = [work EXCEPT ![p] = [NoWork EXCEPT !.job = j]]
    BY <1>4 DEF StartJob
  <2>3. stage'[p] = "checking" /\ \A q \in Updaters \ {p} : stage'[q] = stage[q]
    BY <1>1, <1>4 DEF StartJob, Reach, ProcessTypes
  <2>4. work'[p].job = j /\ jobs'[j] = "open" /\ oneOff[j].step = "none"
    BY <1>1, <2>2 DEF ProcessTypes, NoWork, OneOffOK
  <2>5. LockOK(p)' /\ StageOK(p)'
    BY <2>1, <2>3, <2>4 DEF LockOK, StageOK, Step
  <2>6. ASSUME NEW q \in Updaters \ {p} PROVE LockOK(q)' /\ StageOK(q)'
    BY <2>1, <2>3, LockFree, AtRest
  <2> QED BY <2>5, <2>6 DEF Control
<1>5. CASE UNCHANGED <<updater, oneOff, env>> /\ app'.version = app.version
  <2>1. ASSUME NEW q \in Updaters PROVE LockOK(q)' /\ StageOK(q)'
    BY <1>5 DEF Control, LockOK, StageOK, Step, updater
  <2> QED BY <2>1 DEF Control
<1>6. CASE OperatorUp
  <2>1. updateLock = NoUpdater /\ UNCHANGED stage
    BY <1>6 DEF OperatorUp, LockIsFree, updater
  <2> QED BY <2>1, LockFree, AtRest DEF Control
<1>7. ASSUME Application \/ Publish PROVE Control'
  <2>1. UNCHANGED <<updater, oneOff, env>> /\ app'.version = app.version
    BY <1>1, <1>7 DEF Application, CreateDatabase, Migrate, Serve, ServerDies, Write,
       CreateBackup, DeleteBackup, Publish, deployment, files, AppTypes
  <2> QED BY <1>5, <2>1
<1> QED BY <1>2, <1>3, <1>4, <1>6, <1>7 DEF Around

\* The containers stay as their jobs and their steps say.
LEMMA OneOffsStep ==
  ASSUME UpdaterIInv, UpdaterNext, NEW k \in Jobs
  PROVE  OneOffOK(k)'
<1>1. UpdaterTypeOK /\ FileTypes /\ ProcessTypes /\ Control /\ OneOffOK(k)
  BY UpdaterTyping DEF UpdaterIInv
<1> USE DEF OneOffOK
<1>2. ASSUME NEW p \in Updaters, RunJob(p) PROVE OneOffOK(k)'
  <2> DEFINE j == work[p].job
  <2>1. /\ UNCHANGED backups /\ stage[p] \in Busy /\ j \in Jobs /\ jobs[j] = "open"
        /\ oneOff \in [Jobs -> Containers]
    BY <1>1, <1>2, JobSteps DEF Control, LockOK, FileTypes
  <2>2. jobs'[k] = "none" => jobs[k] = "none" /\ k # j
    <3>1. ASSUME NEW o \in Outcomes \ {"none", "open"}, EndJob(p, o)
          PROVE  jobs'[k] = "none" => jobs[k] = "none" /\ k # j
      BY <1>1, <2>1, <3>1, Ending
    <3>2. CASE UNCHANGED jobs
      BY <2>1, <3>2
    <3> QED BY <1>1, <1>2, <3>1, <3>2, JobSteps DEF Proceed, Choosing
  <2>3. CASE oneOff'[k] = oneOff[k]
    BY <1>1, <2>1, <2>2, <2>3
  <2>4. CASE oneOff'[k] # oneOff[k]
    <3>1. \/ StopForBackup(p) /\ OneOff(j, "copying")
          \/ oneOff' = [oneOff EXCEPT ![j] = [Idle EXCEPT !.step = "staging"]]
      BY <1>2, <2>4 DEF RunJob, CheckRelease, PullImage, SwitchVersion, StopForBackup,
         BackupReturns, UpNewVersion, AwaitHealth, StopForRollback, RestoreReturns,
         RevertVersion, UpPreviousVersion, ConfirmHealth, files
    <3>2. k = j
      BY <2>1, <2>4, <3>1, ContainerChanges DEF Conditions
    <3>3. CASE StopForBackup(p) /\ OneOff(j, "copying")
      <4>1. oneOff[j].step = "none"
        BY <1>1, <3>3 DEF StopForBackup, Control, StageOK, Step
      <4>2. oneOff'[j].step = "copying" /\ oneOff'[j].safety = oneOff[j].safety
        BY <2>1, <3>3, ContainerChanges DEF Conditions
      <4> QED BY <1>1, <2>2, <3>2, <4>1, <4>2
    <3>4. CASE oneOff' = [oneOff EXCEPT ![j] = [Idle EXCEPT !.step = "staging"]]
      <4>1. oneOff'[j].step = "staging" /\ oneOff'[j].safety = Missing
        BY <2>1, <3>4 DEF Idle
      <4> QED BY <2>2, <3>2, <4>1
    <3> QED BY <3>1, <3>3, <3>4
  <2> QED BY <2>3, <2>4
<1>3. ASSUME NEW j \in Jobs, RunOneOff(j) PROVE OneOffOK(k)'
  <2>1. UNCHANGED jobs /\ jobs[j] # "none"
    <3>1. OneOffOK(j) /\ oneOff[j].step # "none"
      BY <1>3 DEF UpdaterIInv, RunOneOff, CreateUpdateBackup, RestoreStages, RestoreArchives,
         RestoreActivates, OneOffDies
    <3> QED BY <1>3, <3>1 DEF RunOneOff, CreateUpdateBackup, RestoreStages, RestoreArchives,
            RestoreActivates, OneOffDies, updater
  <2>2. backups' \subseteq backups \cup {[job |-> j, copy |-> database]}
    BY <1>3 DEF RunOneOff, CreateUpdateBackup, RestoreStages, RestoreArchives,
       RestoreActivates, OneOffDies
  <2>3. CASE k # j
    <3>1. oneOff'[k] = oneOff[k]
      BY <1>1, <1>3, <2>3, ContainerSteps
    <3> QED BY <1>1, <2>1, <2>2, <2>3, <3>1
  <2>4. CASE k = j
    <3>1. oneOff'[j].step # "none"
      BY <1>1, <1>3, ContainerEnds
    <3>2. oneOff'[j].step # "archived" => oneOff'[j].safety = Missing
      BY <1>1, <1>3, <2>4, ContainerEnds
    <3> QED BY <2>1, <2>4, <3>1, <3>2
  <2> QED BY <2>3, <2>4
<1>4. CASE Around
  <2>1. UNCHANGED oneOff /\ \A b \in backups' : b \in backups \/ b.job = 0
    BY <1>4 DEF Around, StartUpdater, UpdaterDies, StartJob, Application, Publish,
       OperatorUp, CreateDatabase, Migrate, Serve, ServerDies, Write, CreateBackup,
       DeleteBackup, files
  <2>2. jobs'[k] = "none" => jobs[k] = "none"
    <3>1. ASSUME NEW p \in Updaters, StartUpdater(p) PROVE jobs'[k] = "none" => jobs[k] = "none"
      BY <3>1 DEF StartUpdater, RecoverInterruptedJobs
    <3>2. ASSUME NEW p \in Updaters, StartJob(p) PROVE jobs'[k] = "none" => jobs[k] = "none"
      BY <1>1, <3>2 DEF StartJob, ProcessTypes
    <3>3. CASE UNCHANGED jobs
      BY <3>3
    <3> QED BY <1>4, <3>1, <3>2, <3>3 DEF Around, UpdaterDies, Application, Publish,
            OperatorUp, CreateDatabase, Migrate, Serve, ServerDies, Write, CreateBackup,
            DeleteBackup, updater
  <2>3. k # 0
    BY DEF Jobs
  <2> QED BY <1>1, <2>1, <2>2, <2>3
<1> QED BY <1>2, <1>3, <1>4 DEF UpdaterNext, Around
-----------------------------------------------------------------------------
(* Data: what holds as long as no database was replaced under anybody's feet. *)

\* A container at work is alone: the application is stopped, and no other job
\* or restore goes on.
LEMMA Alone ==
  ASSUME ~Exposed, NEW j \in Jobs, Replacing(j)
  PROVE  /\ app.state = "stopped"
         /\ \A p \in Updaters : stage[p] \in Busy => work[p].job = j
         /\ \A k \in Jobs \ {j} : ~Replacing(k)
BY DEF Exposed

\* What the types say of the versions, the schema and the rows.
Numbers ==
  /\ env \in Nat /\ env > 0 /\ app.version \in Nat /\ app.version > 0
  /\ database.schema \in Nat
  /\ \A b \in backups : b.copy.schema \in Nat
  /\ \A j \in Jobs : oneOff[j].safety.schema \in Nat /\ oneOff[j].temporary.schema \in Nat
  /\ \A p \in Updaters : work[p].previous \in Nat /\ work[p].next \in Nat

LEMMA NumbersOK == UpdaterTypeOK => Numbers
<1> SUFFICES ASSUME UpdaterTypeOK PROVE Numbers
  OBVIOUS
<1>1. FileTypes /\ AppTypes /\ ProcessTypes
  BY UpdaterTyping
<1>2. \A c \in Copies : c.schema \in Nat
  BY UpdaterConstants DEF Copies
<1>3. \A b \in backups : b.copy.schema \in Nat
  BY <1>1, <1>2 DEF FileTypes, Backups
<1>4. \A j \in Jobs : oneOff[j].safety.schema \in Nat /\ oneOff[j].temporary.schema \in Nat
  BY <1>1, <1>2 DEF FileTypes, Containers
<1>5. \A p \in Updaters : work[p].previous \in Nat /\ work[p].next \in Nat
  BY <1>1, UpdaterConstants DEF ProcessTypes, Tasks
<1>6. /\ env \in Nat /\ env > 0 /\ app.version \in Nat /\ app.version > 0
      /\ database.schema \in Nat
  BY <1>1, <1>2, UpdaterConstants DEF AppTypes, FileTypes, Releases
<1> QED BY <1>3, <1>4, <1>5, <1>6 DEF Numbers

\* What a step of a job does to the settings and the container.
LEMMA JobDeployment ==
  ASSUME UpdaterTypeOK, Control, Numbers, NEW p \in Updaters, RunJob(p)
  PROVE  /\ \/ env' = env
            \/ stage[p] = "switching" /\ env' = work[p].next /\ env' > env /\ UNCHANGED app
            \/ stage[p] = "reverting" /\ env' = work[p].previous /\ UNCHANGED app
         /\ \/ UNCHANGED app
            \/ /\ stage[p] \in {"stopping", "halting"} /\ UNCHANGED env
               /\ app'.version = app.version /\ app'.state = "stopped"
            \/ /\ stage[p] \in {"restarting", "recreating"} /\ UNCHANGED env
               /\ app'.version = env /\ app'.state \in {"starting", "stopped"}
<1>1. AppTypes /\ StageOK(p)
  BY UpdaterTyping DEF Control
<1>2. CASE SwitchVersion(p) \/ RevertVersion(p)
  BY <1>1, <1>2 DEF SwitchVersion, RevertVersion, StageOK, Busy, Numbers
<1>3. CASE StopForBackup(p) \/ StopForRollback(p)
  <2>1. StopFails /\ stage[p] \in {"stopping", "halting"} /\ UNCHANGED env
    BY <1>3 DEF StopForBackup, StopForRollback, StopFails
  <2> QED BY <1>1, <2>1, ComposeTypes DEF StopFails, AppTypes
<1>4. CASE UpNewVersion(p) \/ UpPreviousVersion(p)
  <2>1. UpFails /\ stage[p] \in {"restarting", "recreating"} /\ UNCHANGED env
    BY <1>4 DEF UpNewVersion, UpPreviousVersion, UpFails
  <2> QED BY <1>1, <2>1, ComposeTypes DEF UpFails, AppTypes
<1>5. CASE UNCHANGED <<env, app>>
  BY <1>5
<1> QED BY <1>2, <1>3, <1>4, <1>5 DEF RunJob, CheckRelease, PullImage, BackupReturns,
        AwaitHealth, RestoreReturns, ConfirmHealth, deployment

\* The database fits the application and the settings after a step of a job,
LEMMA JobFits ==
  ASSUME UpdaterTypeOK, Control, Data, NEW p \in Updaters, RunJob(p)
  PROVE  DatabaseFits'
<1>1. Numbers /\ DatabaseFits /\ WorkOK(p) /\ UNCHANGED database
  BY NumbersOK, JobSteps DEF Data
<1>2. app.state = "stopped" \/ stage[p] # "reverting" \/ app.version <= work[p].previous
  BY <1>1 DEF WorkOK
<1>3. stage[p] = "reverting" => database.schema <= work[p].previous
  BY <1>1 DEF WorkOK
<1>4. CASE UNCHANGED app
  <2>1. env' \in Nat /\ database.schema <= env'
        /\ (app.state # "stopped" => app.version <= env')
    BY <1>1, <1>2, <1>3, <1>4, JobDeployment DEF DatabaseFits, Numbers
  <2> QED BY <1>1, <1>4, <2>1 DEF DatabaseFits
<1>5. CASE UNCHANGED env /\ ~UNCHANGED app
  BY <1>1, <1>5, JobDeployment DEF DatabaseFits, Numbers
<1> QED BY <1>1, <1>4, <1>5, JobDeployment

\* after a step of a container,
LEMMA ContainerFits ==
  ASSUME UpdaterTypeOK, Data, NEW j \in Jobs, RunOneOff(j)
  PROVE  DatabaseFits'
<1>1. Numbers /\ DatabaseFits /\ RestoreFits(j) /\ ~Exposed /\ UNCHANGED <<app, env>>
  BY NumbersOK DEF Data, RunOneOff, CreateUpdateBackup, RestoreStages, RestoreArchives,
     RestoreActivates, OneOffDies, deployment
<1>2. CASE UNCHANGED database
  BY <1>1, <1>2 DEF DatabaseFits
<1>3. CASE ~UNCHANGED database
  <2>1. RestoreArchives(j) \/ RestoreActivates(j)
    BY <1>3 DEF RunOneOff, CreateUpdateBackup, RestoreStages, OneOffDies
  <2>2. Replacing(j)
    BY <2>1 DEF RestoreArchives, RestoreActivates, Replacing
  <2>3. app.state = "stopped"
    BY <1>1, <2>2, Alone
  <2>4. database'.schema <= env
    <3>1. CASE RestoreArchives(j)
      BY <1>1, <1>3, <3>1 DEF RestoreArchives, Missing, Numbers
    <3>2. CASE RestoreActivates(j)
      BY <1>1, <1>3, <2>2, <3>2 DEF RestoreActivates, RestoreFits, Low, DatabaseFits
    <3> QED BY <2>1, <3>1, <3>2
  <2> QED BY <1>1, <2>3, <2>4 DEF DatabaseFits
<1> QED BY <1>2, <1>3

\* and after everything else.
LEMMA AroundFits ==
  ASSUME UpdaterTypeOK, Data, Around
  PROVE  DatabaseFits'
<1>1. Numbers /\ DatabaseFits
  BY NumbersOK DEF Data
<1>2. database \in Copies /\ database.schema \in Nat
  BY <1>1, UpdaterTyping DEF FileTypes, Numbers
<1>3. app \in [version : Releases, state : {"stopped", "starting", "running"}]
  BY UpdaterTyping DEF AppTypes
<1>4. CASE CreateDatabase
  <2>1. database'.schema = app.version /\ UNCHANGED <<env, app>> /\ app.state = "starting"
    BY <1>4 DEF CreateDatabase, deployment
  <2> QED BY <1>1, <2>1 DEF DatabaseFits, Numbers
<1>5. CASE Migrate
  <2>1. /\ database'.schema = database.schema + 1 /\ UNCHANGED <<env, app>>
        /\ app.state = "starting" /\ database.schema < app.version
    BY <1>2, <1>5 DEF Migrate, deployment, Copies
  <2> QED BY <1>1, <2>1 DEF DatabaseFits, Numbers
<1>6. CASE Serve \/ ServerDies
  <2>1. /\ app'.version = app.version /\ UNCHANGED <<env, database>>
        /\ app.state # "stopped"
        /\ app'.state = "running" => database # Missing /\ database.schema >= app.version
    BY <1>3, <1>6 DEF Serve, ServerDies, files
  <2> QED BY <1>1, <2>1 DEF DatabaseFits, Numbers
<1>7. ASSUME NEW w \in Writes, Write(w) PROVE DatabaseFits'
  <2>1. /\ database'.schema = database.schema /\ UNCHANGED <<env, app>>
        /\ app.state = "running"
    BY <1>2, <1>7 DEF Write, Copies
  <2>2. database' # Missing
    BY <1>1, <2>1 DEF DatabaseFits, Missing, Numbers
  <2> QED BY <1>1, <2>1, <2>2 DEF DatabaseFits, Numbers
<1>8. CASE OperatorUp
  <2>1. /\ app'.version = env /\ app'.state = "starting" /\ UNCHANGED <<env, database>>
    BY <1>8 DEF OperatorUp, Up, files
  <2> QED BY <1>1, <2>1 DEF DatabaseFits, Numbers
<1>9. CASE UNCHANGED <<env, app, database>>
  BY <1>1, <1>9 DEF DatabaseFits
<1> QED BY <1>4, <1>5, <1>6, <1>7, <1>8, <1>9 DEF Around, StartUpdater, UpdaterDies,
        StartJob, Application, CreateBackup, DeleteBackup, Publish, deployment, files

\* Where the writes are: live, kept, or put aside by a restore at work.
Aside == UNION {oneOff[j].safety.rows : j \in Jobs}

LEMMA AsideOf ==
  ASSUME NEW w
  PROVE  w \in Aside <=> \E j \in Jobs : w \in oneOff[j].safety.rows
BY DEF Aside

\* No write is lost by a step of a container,
LEMMA ContainerLosesNothing ==
  ASSUME UpdaterTypeOK, \A k \in Jobs : OneOffOK(k), Data, NEW j \in Jobs, RunOneOff(j),
         NEW w, w \in database.rows \cup kept \cup Aside
  PROVE  w \in (database.rows \cup kept \cup Aside)'
<1>1. FileTypes /\ RestoreFits(j) /\ OneOffOK(j)
  BY UpdaterTyping DEF Data
<1>2. \A k \in Jobs \ {j} : oneOff'[k] = oneOff[k]
  BY <1>1, ContainerSteps
<1>3. w \in Aside' <=> \E k \in Jobs : w \in oneOff'[k].safety.rows
  BY DEF Aside
<1>4. CASE \E k \in Jobs \ {j} : w \in oneOff[k].safety.rows
  BY <1>2, <1>3, <1>4
<1>5. w \in Aside => w \in oneOff[j].safety.rows \/ \E k \in Jobs \ {j} : w \in oneOff[k].safety.rows
  BY AsideOf
<1>6. CASE w \in database.rows \cup kept \/ w \in oneOff[j].safety.rows
  <2>1. w \in oneOff[j].safety.rows => oneOff[j].step = "archived"
    BY <1>1 DEF OneOffOK, Missing
  <2>2. CASE UNCHANGED <<database, kept>> /\ oneOff[j].step # "archived"
    BY <1>6, <2>1, <2>2
  <2>3. CASE OneOffDies(j)
    BY <1>6, <2>3 DEF OneOffDies
  <2>4. CASE RestoreArchives(j)
    <3>1. UNCHANGED kept /\ oneOff[j].step = "staged"
      BY <2>4 DEF RestoreArchives
    <3>2. \/ UNCHANGED database
          \/ oneOff'[j] = Holding("archived", oneOff[j].temporary, database)
      BY <1>1, <2>4, ContainerSteps
         DEF CreateUpdateBackup, RestoreStages, RestoreActivates, OneOffDies, RestoreArchives
    <3>3. oneOff'[j] = Holding("archived", oneOff[j].temporary, database)
            => oneOff'[j].safety.rows = database.rows
      BY DEF Holding
    <3> QED BY <1>3, <1>6, <2>1, <3>1, <3>2, <3>3
  <2>5. CASE RestoreActivates(j)
    <3>1. database = Missing /\ oneOff[j].step = "archived"
      BY <1>1, <2>5 DEF RestoreActivates, RestoreFits
    <3>2. w \in kept \cup oneOff[j].safety.rows
      BY <1>6, <3>1 DEF Missing
    <3>3. \/ kept' = kept \cup oneOff[j].safety.rows
          \/ UNCHANGED kept /\ (oneOff[j].safety.rows # {} => database' = oneOff[j].safety)
      BY <2>5 DEF RestoreActivates, Missing
    <3> QED BY <3>2, <3>3
  <2> QED BY <2>2, <2>3, <2>4, <2>5 DEF RunOneOff, CreateUpdateBackup, RestoreStages
<1> QED BY <1>4, <1>5, <1>6

\* by a step of a job, which may only reset a container without a safety copy,
LEMMA JobLosesNothing ==
  ASSUME UpdaterTypeOK, Control, \A k \in Jobs : OneOffOK(k),
         NEW p \in Updaters, RunJob(p),
         NEW w, w \in database.rows \cup kept \cup Aside
  PROVE  w \in (database.rows \cup kept \cup Aside)'
<1> DEFINE j == work[p].job
<1>1. FileTypes /\ UNCHANGED <<database, kept>> /\ j \in Jobs /\ StageOK(p) /\ OneOffOK(j)
  BY UpdaterTyping, JobSteps DEF Control, LockOK
<1>2. ASSUME NEW k \in Jobs, w \in oneOff[k].safety.rows PROVE w \in oneOff'[k].safety.rows
  <2>1. CASE StopForBackup(p)
    <3>1. UNCHANGED oneOff \/ OneOff(j, "copying")
      BY <2>1 DEF StopForBackup
    <3> QED BY <1>1, <1>2, <3>1, ContainerChanges DEF FileTypes, Conditions
  <2>2. CASE StopForRollback(p)
    <3>1. oneOff[j].safety = Missing
      BY <1>1, <2>2 DEF StopForRollback, StageOK, Step, OneOffOK
    <3>2. k # j
      BY <1>2, <3>1 DEF Missing
    <3> QED BY <1>1, <1>2, <2>2, <3>2 DEF StopForRollback, FileTypes
  <2>3. CASE UNCHANGED oneOff
    BY <1>2, <2>3
  <2> QED BY <2>1, <2>2, <2>3 DEF RunJob, CheckRelease, PullImage, SwitchVersion,
          BackupReturns, UpNewVersion, AwaitHealth, RestoreReturns, RevertVersion,
          UpPreviousVersion, ConfirmHealth, files
<1>3. w \in Aside' <=> \E k \in Jobs : w \in oneOff'[k].safety.rows
  BY DEF Aside
<1> QED BY <1>1, <1>2, <1>3, AsideOf

\* or by anything else; and what is stored is in one of these places.
LEMMA NothingLostStep ==
  ASSUME UpdaterIInv, Data, UpdaterNext
  PROVE  NothingIsLost'
<1>1. UpdaterTypeOK /\ FileTypes /\ Control /\ \A k \in Jobs : OneOffOK(k)
  BY UpdaterTyping DEF UpdaterIInv
<1> SUFFICES ASSUME ~exposed', NEW w \in stored'
             PROVE  w \in (database.rows \cup kept \cup Aside)'
  BY DEF NothingIsLost, Aside
<1>2. ~exposed
  BY DEF UpdaterNext
<1>3. \A v \in stored : v \in database.rows \cup kept \cup Aside
  BY <1>2 DEF Data, NothingIsLost, Aside
<1>4. ASSUME NEW p \in Updaters, RunJob(p) PROVE w \in (database.rows \cup kept \cup Aside)'
  <2>1. w \in stored
    BY <1>1, <1>4, JobSteps
  <2> QED BY <1>1, <1>3, <1>4, <2>1, JobLosesNothing
<1>5. ASSUME NEW j \in Jobs, RunOneOff(j) PROVE w \in (database.rows \cup kept \cup Aside)'
  <2>1. w \in stored
    BY <1>5 DEF RunOneOff, CreateUpdateBackup, RestoreStages, RestoreArchives,
       RestoreActivates, OneOffDies, deployment
  <2> QED BY <1>1, <1>3, <1>5, <2>1, ContainerLosesNothing
<1>6. CASE Around
  <2>1. UNCHANGED oneOff /\ Aside' = Aside
    BY <1>6 DEF Aside, Around, StartUpdater, UpdaterDies, StartJob, Application, Publish,
       OperatorUp, CreateDatabase, Migrate, Serve, ServerDies, Write, CreateBackup,
       DeleteBackup, files
  <2>2. ASSUME NEW v \in Writes, Write(v)
        PROVE  w \in database'.rows \cup kept' \cup Aside
    <3>1. stored' = stored \cup {v} /\ database \in Copies
      BY <1>1, <2>2 DEF Write, FileTypes
    <3>2. CASE database = Missing
      BY <1>3, <2>2, <3>1, <3>2 DEF Write
    <3>3. CASE database # Missing
      <4>1. database'.rows = database.rows \cup {v} /\ kept' = kept
        BY <2>2, <3>1, <3>3 DEF Write, Copies
      <4> QED BY <1>3, <3>1, <4>1
    <3> QED BY <3>2, <3>3
  <2>3. CASE CreateDatabase
    BY <1>3, <2>1, <2>3 DEF CreateDatabase, Missing, deployment
  <2>4. CASE Migrate
    <3>1. database \in Copies /\ w \in stored
      BY <1>1, <2>4 DEF Migrate, FileTypes, deployment
    <3>2. database'.rows = database.rows
      BY <2>4, <3>1 DEF Migrate, Copies
    <3> QED BY <1>3, <2>1, <2>4, <3>1, <3>2 DEF Migrate
  <2>5. CASE UNCHANGED <<stored, database, kept>>
    BY <1>3, <2>1, <2>5
  <2> QED
    BY <1>6, <2>1, <2>2, <2>3, <2>4, <2>5 DEF Around, StartUpdater, UpdaterDies, StartJob,
       Application, Publish, OperatorUp, Serve, ServerDies, CreateBackup, DeleteBackup,
       deployment, files
<1> QED BY <1>4, <1>5, <1>6 DEF UpdaterNext, Around

\* A schema that is low stays low: the settings go down only to a version that
\* it does not exceed,
LEMMA JobKeepsLow ==
  ASSUME UpdaterTypeOK, Control, NEW p \in Updaters, RunJob(p), NEW s \in Nat, Low(s)
  PROVE  Low(s)'
<1>1. /\ Numbers /\ StageOK(p) /\ ProcessTypes /\ Others(p) /\ stage[p] \in Busy
      /\ env \in Releases /\ work[p].previous \in Nat
  BY NumbersOK, UpdaterTyping, JobSteps DEF Control, AppTypes, Numbers
<1>2. s <= env /\ (stage[p] # "checking" => s <= work[p].previous)
  BY <1>1 DEF Low
<1>3. s <= env'
  BY <1>1, <1>2, JobDeployment DEF Numbers
<1>4. ASSUME NEW q \in Updaters, stage'[q] \in Busy \ {"checking"}
      PROVE  s <= work'[q].previous
  <2>1. CASE q # p
    BY <1>1, <1>4, <2>1, OnlyOne DEF Others
  <2>2. CASE q = p
    <3>1. ASSUME NEW o \in Outcomes \ {"none", "open"}, EndJob(p, o) PROVE FALSE
      BY <1>1, <1>4, <2>2, <3>1, Ending DEF Busy
    <3>2. ASSUME NEW v \in Releases, Choosing(p, v) PROVE work'[p].previous = env
      BY <1>1, <3>2, Chosen
    <3>3. ASSUME NEW t \in Busy, Proceed(p, t), ~CheckRelease(p)
          PROVE  work'[p].previous = work[p].previous /\ stage[p] # "checking"
      BY <3>3 DEF Proceed, RunJob, PullImage, SwitchVersion, StopForBackup, BackupReturns,
         UpNewVersion, AwaitHealth, StopForRollback, RestoreReturns, RevertVersion,
         UpPreviousVersion, ConfirmHealth
    <3> QED BY <1>2, <2>2, <3>1, <3>2, <3>3, JobSteps
  <2> QED BY <2>1, <2>2
<1> QED BY <1>3, <1>4 DEF Low

\* and everything else leaves settings and versions alone.
LEMMA OthersKeepLow ==
  ASSUME UpdaterTypeOK, Around \/ \E j \in Jobs : RunOneOff(j), NEW s \in Nat, Low(s)
  PROVE  Low(s)'
<1>1. ProcessTypes
  BY UpdaterTyping
<1>2. UNCHANGED env
  BY DEF Around, StartUpdater, UpdaterDies, StartJob, Application, Publish, OperatorUp,
     CreateDatabase, Migrate, Serve, ServerDies, Write, CreateBackup, DeleteBackup,
     RunOneOff, CreateUpdateBackup, RestoreStages, RestoreArchives, RestoreActivates,
     OneOffDies, deployment
<1>3. ASSUME NEW q \in Updaters, stage'[q] \in Busy \ {"checking"}
      PROVE  stage'[q] = stage[q] /\ work'[q] = work[q]
  <2>1. ASSUME NEW p \in Updaters, StartUpdater(p) \/ UpdaterDies(p) \/ StartJob(p)
        PROVE  stage'[q] = stage[q] /\ work'[q] = work[q]
    <3>1. q # p
      BY <1>1, <1>3, <2>1 DEF StartUpdater, UpdaterDies, StartJob, Reach, ProcessTypes, Busy
    <3> QED BY <1>1, <2>1, <3>1 DEF StartUpdater, UpdaterDies, StartJob, Reach, ProcessTypes
  <2>2. CASE UNCHANGED updater
    BY <2>2 DEF updater
  <2> QED BY <2>1, <2>2 DEF Around, Application, Publish, OperatorUp, CreateDatabase,
          Migrate, Serve, ServerDies, Write, CreateBackup, DeleteBackup, RunOneOff,
          CreateUpdateBackup, RestoreStages, RestoreArchives, RestoreActivates, OneOffDies
<1> QED BY <1>2, <1>3 DEF Low

\* What a restore brings back fits, after a step of a job,
LEMMA JobRestores ==
  ASSUME UpdaterTypeOK, Control, Data, NEW p \in Updaters, RunJob(p), NEW k \in Jobs
  PROVE  RestoreFits(k)'
<1> DEFINE j == work[p].job
<1>1. /\ Numbers /\ FileTypes /\ StageOK(p) /\ WorkOK(p) /\ RestoreFits(k) /\ ~Exposed
      /\ UNCHANGED <<database, backups>> /\ stage[p] \in Busy /\ j \in Jobs /\ Others(p)
  BY NumbersOK, UpdaterTyping, JobSteps DEF Control, Data, LockOK
<1>2. \A s \in Nat : Low(s) => Low(s)'
  BY JobKeepsLow
<1>3. CASE oneOff'[k] = oneOff[k]
  <2>1. oneOff[k].step = "staging" => \A b \in backups : b.job = k => Low(b.copy.schema)'
    BY <1>1, <1>2 DEF RestoreFits, Numbers
  <2>2. Replacing(k) => Low(oneOff[k].temporary.schema)'
    <3>1. oneOff[k].temporary.schema \in Nat
      BY <1>1 DEF Numbers
    <3>2. ASSUME NEW s \in Nat, s = oneOff[k].temporary.schema, Low(s)
          PROVE  Low(oneOff[k].temporary.schema)'
      <4>1. Low(s)'
        BY <1>2, <3>2
      <4>2. s = oneOff'[k].temporary.schema
        BY <1>3, <3>2
      <4> QED BY <4>1, <4>2 DEF Low
    <3> QED BY <1>1, <3>1, <3>2 DEF RestoreFits
  <2>3. oneOff[k].step = "archived" =>
          database' = Missing /\ oneOff[k].safety.schema <= env'
    <3>1. oneOff[k].step = "archived" => Replacing(k)
      BY DEF Replacing
    <3>2. oneOff[k].step = "archived" => j = k
      BY <1>1, <3>1, Alone
    <3>3. oneOff[k].step = "archived" => stage[p] # "reverting"
      BY <1>1, <3>2 DEF StageOK, Step
    <3> QED BY <1>1, <3>3, JobDeployment DEF RestoreFits, Numbers
  <2>4. Replacing(k)' => Replacing(k)
    BY <1>3 DEF Replacing
  <2> QED BY <1>1, <1>3, <2>1, <2>2, <2>3, <2>4 DEF RestoreFits
<1>4. CASE oneOff'[k] # oneOff[k]
  <2>1. \/ StopForBackup(p) /\ OneOff(j, "copying")
        \/ StopForRollback(p)
    BY <1>4 DEF RunJob, CheckRelease, PullImage, SwitchVersion, StopForBackup,
       BackupReturns, UpNewVersion, AwaitHealth, StopForRollback, RestoreReturns,
       RevertVersion, UpPreviousVersion, ConfirmHealth, files
  <2>2. CASE StopForBackup(p) /\ OneOff(j, "copying")
    <3>1. k = j /\ oneOff'[k].step = "copying"
      BY <1>1, <1>4, <2>2, ContainerChanges DEF FileTypes, Conditions
    <3> QED BY <3>1 DEF RestoreFits, Replacing
  <2>3. CASE StopForRollback(p)
    <3>1. k = j /\ oneOff'[k].step = "staging"
      BY <1>1, <1>4, <2>3 DEF StopForRollback, FileTypes, Idle
    <3>2. stage[p] = "halting" /\ UNCHANGED env
      BY <2>3 DEF StopForRollback
    <3>3. \A b \in backups : b.job = k => b.copy.schema <= work[p].previous
      BY <1>1, <3>1, <3>2 DEF WorkOK
    <3>4. work[p].previous <= env
      BY <1>1, <3>2, JobSteps DEF StageOK, Numbers
    <3>5. \A q \in Updaters : stage'[q] \in Busy => work'[q].previous = work[p].previous
      BY <1>1, <2>3, OnlyOne DEF Others, StopForRollback, Proceed
    <3>6. ASSUME NEW b \in backups, b.job = k PROVE Low(b.copy.schema)'
      BY <1>1, <3>2, <3>3, <3>4, <3>5, <3>6 DEF Low, Numbers
    <3> QED BY <1>1, <3>1, <3>6 DEF RestoreFits, Replacing
  <2> QED BY <2>1, <2>2, <2>3
<1> QED BY <1>3, <1>4

\* A restore that is not touched goes on fitting.
LEMMA Untouched ==
  ASSUME Numbers, NEW k \in Jobs, RestoreFits(k), oneOff'[k] = oneOff[k], env' = env,
         \A s \in Nat : Low(s) => Low(s)',
         oneOff[k].step = "archived" => UNCHANGED database,
         \A b \in backups' : b.job = k => b \in backups
  PROVE  RestoreFits(k)'
<1>1. oneOff'[k].step = "staging" => \A b \in backups' : b.job = k => Low(b.copy.schema)'
  <2>1. ASSUME oneOff[k].step = "staging", NEW b \in backups', b.job = k
        PROVE  Low(b.copy.schema)'
    BY <2>1 DEF RestoreFits, Numbers
  <2> QED BY <2>1
<1>2. Replacing(k) => Low(oneOff[k].temporary.schema)'
  <2>1. oneOff[k].temporary.schema \in Nat
    BY DEF Numbers
  <2>2. ASSUME NEW s \in Nat, s = oneOff[k].temporary.schema, Low(s)
        PROVE  Low(oneOff[k].temporary.schema)'
    <3>1. Low(s)' /\ s = oneOff'[k].temporary.schema
      BY <2>2
    <3> QED BY <3>1 DEF Low
  <2> QED BY <2>1, <2>2 DEF RestoreFits
<1>3. Replacing(k)' <=> Replacing(k)
  BY DEF Replacing
<1> QED BY <1>1, <1>2, <1>3 DEF RestoreFits

\* after a step of a container
LEMMA ContainerRestores ==
  ASSUME UpdaterTypeOK, Data, NEW j \in Jobs, RunOneOff(j), NEW k \in Jobs
  PROVE  RestoreFits(k)'
<1>1. /\ Numbers /\ FileTypes /\ RestoreFits(k) /\ ~Exposed /\ DatabaseFits
  BY NumbersOK, UpdaterTyping DEF Data
<1>2. \A s \in Nat : Low(s) => Low(s)'
  BY OthersKeepLow
<1>3. env' = env /\ backups' \subseteq backups \cup {[job |-> j, copy |-> database]}
  BY DEF RunOneOff, CreateUpdateBackup, RestoreStages, RestoreArchives, RestoreActivates,
     OneOffDies, deployment
<1>4. CASE k # j
  <2>1. oneOff'[k] = oneOff[k]
    BY <1>1, <1>4, ContainerSteps
  <2>2. oneOff[k].step = "archived" => UNCHANGED database
    <3>1. oneOff[k].step = "archived" => ~Replacing(j)
      BY <1>1, <1>4, Alone DEF Replacing
    <3> QED BY <3>1 DEF RunOneOff, CreateUpdateBackup, RestoreStages, RestoreArchives,
            RestoreActivates, OneOffDies, Replacing
  <2>3. \A b \in backups' : b.job = k => b \in backups
    BY <1>3, <1>4
  <2> QED BY <1>1, <1>2, <1>3, <2>1, <2>2, <2>3, Untouched
<1>5. CASE k = j
  <2>1. CASE oneOff'[j].step \in {"done", "failed"}
    BY <1>5, <2>1 DEF RestoreFits, Replacing
  <2>2. ASSUME RestoreStages(j), NEW b \in backups, b.job = j,
               oneOff'[j] = Holding("staged", b.copy, Missing)
        PROVE  RestoreFits(k)'
    <3>1. Low(b.copy.schema)
      BY <1>1, <1>5, <2>2 DEF RestoreStages, RestoreFits
    <3>2. PICK s \in Nat : s = b.copy.schema
      BY <1>1 DEF Numbers
    <3>3. Low(s)'
      BY <1>2, <3>1, <3>2
    <3>4. oneOff'[j].step = "staged" /\ oneOff'[j].temporary.schema = s
      BY <2>2, <3>2 DEF Holding
    <3>5. Low(oneOff[j].temporary.schema)'
      BY <3>3, <3>4 DEF Low
    <3> QED BY <1>5, <3>4, <3>5 DEF RestoreFits, Replacing
  <2>3. ASSUME RestoreArchives(j), database' = Missing,
               oneOff'[j] = Holding("archived", oneOff[j].temporary, database)
        PROVE  RestoreFits(k)'
    <3>1. PICK s \in Nat : s = oneOff[j].temporary.schema
      BY <1>1 DEF Numbers
    <3>2. Low(s)
      BY <1>1, <1>5, <2>3, <3>1 DEF RestoreArchives, RestoreFits, Replacing
    <3>3. Low(s)'
      BY <1>2, <3>2
    <3>4. /\ oneOff'[j].step = "archived" /\ oneOff'[j].temporary.schema = s
          /\ oneOff'[j].safety = database
      BY <2>3, <3>1 DEF Holding
    <3>5. Low(oneOff[j].temporary.schema)'
      BY <3>3, <3>4 DEF Low
    <3>6. database.schema <= env'
      BY <1>1, <1>3 DEF DatabaseFits
    <3> QED BY <1>5, <2>3, <3>4, <3>5, <3>6 DEF RestoreFits, Replacing
  <2>4. \A s \in {"done", "failed"} : Holding(s, Missing, Missing).step = s
    BY DEF Holding
  <2> QED BY <1>1, <2>1, <2>2, <2>3, <2>4, ContainerSteps
<1> QED BY <1>4, <1>5

\* and after everything else.
LEMMA AroundRestores ==
  ASSUME UpdaterTypeOK, Data, Around, NEW k \in Jobs
  PROVE  RestoreFits(k)'
<1>1. Numbers /\ RestoreFits(k) /\ ~Exposed
  BY NumbersOK DEF Data
<1>2. UNCHANGED <<env, oneOff>> /\ \A b \in backups' : b.job = k => b \in backups
  <2>1. ASSUME NEW b \in backups', b.job = k PROVE b \in backups
    <3>1. b \in backups \/ b.job = 0
      BY DEF Around, StartUpdater, UpdaterDies, StartJob, Application, Publish, OperatorUp,
         CreateDatabase, Migrate, Serve, ServerDies, Write, CreateBackup, DeleteBackup,
         files
    <3> QED BY <2>1, <3>1 DEF Jobs
  <2>2. UNCHANGED <<env, oneOff>>
    BY DEF Around, StartUpdater, UpdaterDies, StartJob, Application, Publish, OperatorUp,
       CreateDatabase, Migrate, Serve, ServerDies, Write, CreateBackup, DeleteBackup,
       deployment, files
  <2> QED BY <2>1, <2>2
<1>3. oneOff[k].step = "archived" => UNCHANGED database
  <2>1. oneOff[k].step = "archived" => app.state = "stopped"
    BY <1>1, Alone DEF Replacing
  <2> QED BY <2>1 DEF Around, StartUpdater, UpdaterDies, StartJob, Application, Publish,
          OperatorUp, CreateDatabase, Migrate, Serve, ServerDies, Write, CreateBackup,
          DeleteBackup, files
<1>4. \A s \in Nat : Low(s) => Low(s)'
  BY OthersKeepLow
<1> QED BY <1>1, <1>2, <1>3, <1>4, Untouched

\* From which stage a job goes on to which.
LEMMA Transitions ==
  ASSUME ProcessTypes, NEW p \in Updaters, RunJob(p), ~CheckRelease(p),
         NEW s \in Busy, Proceed(p, s)
  PROVE  \/ stage[p] = "pulling" /\ s = "switching"
         \/ stage[p] = "switching" /\ s = "stopping"
         \/ stage[p] = "stopping" /\ s = "backing_up"
         \/ stage[p] \in {"stopping", "backing_up"} /\ s = "reverting"
         \/ stage[p] = "backing_up" /\ s = "restarting"
         \/ stage[p] \in {"restarting", "awaiting"} /\ s \in {"awaiting", "halting"}
         \/ StopForRollback(p) /\ s = "restoring"
         \/ stage[p] = "restoring" /\ s = "reverting" /\ Step(p) = "done" /\ UNCHANGED app
         \/ stage[p] \in {"reverting", "recreating"} /\ s \in {"recreating", "confirming"}
<1>1. stage'[p] = s
  BY Proceeding
<1>2. \A t \in Busy : Proceed(p, t) => t = s
  BY DEF Proceed, Reach, ProcessTypes
<1>3. \A o \in {"failed", "broken", "completed", "recovered"} : ~EndJob(p, o)
  BY <1>1 DEF EndJob, Reach, ProcessTypes, Busy
<1>4. CASE PullImage(p)
  BY <1>2, <1>3, <1>4 DEF PullImage, Busy
<1>5. CASE SwitchVersion(p)
  BY <1>2, <1>3, <1>5 DEF SwitchVersion, Busy
<1>6. CASE StopForBackup(p)
  BY <1>2, <1>6 DEF StopForBackup, Busy
<1>7. CASE BackupReturns(p)
  BY <1>2, <1>7 DEF BackupReturns, Busy
<1>8. CASE UpNewVersion(p)
  BY <1>2, <1>8 DEF UpNewVersion, Busy
<1>9. CASE AwaitHealth(p)
  BY <1>2, <1>3, <1>9 DEF AwaitHealth, Busy
<1>10. CASE StopForRollback(p)
  <2>1. s = "restoring"
    BY <1>2, <1>10 DEF StopForRollback, Busy
  <2> QED BY <1>10, <2>1
<1>11. CASE RestoreReturns(p)
  BY <1>2, <1>3, <1>11 DEF RestoreReturns, Busy, Step, deployment
<1>12. CASE RevertVersion(p)
  BY <1>2, <1>3, <1>12 DEF RevertVersion, Busy
<1>13. CASE UpPreviousVersion(p)
  BY <1>2, <1>3, <1>13 DEF UpPreviousVersion, Busy
<1>14. CASE ConfirmHealth(p)
  BY <1>3, <1>14 DEF ConfirmHealth
<1> QED BY <1>4, <1>5, <1>6, <1>7, <1>8, <1>9, <1>10, <1>11, <1>12, <1>13, <1>14
        DEF RunJob

\* A job keeps what it needs to go back, in its own steps,
LEMMA JobWork ==
  ASSUME UpdaterTypeOK, Control, \A j \in Jobs : OneOffOK(j), Data,
         NEW p \in Updaters, RunJob(p)
  PROVE  WorkOK(p)'
<1> DEFINE j == work[p].job
<1>1. /\ Numbers /\ FileTypes /\ ProcessTypes /\ StageOK(p) /\ WorkOK(p) /\ DatabaseFits
      /\ UNCHANGED <<database, backups>> /\ stage[p] \in Busy /\ j \in Jobs /\ OneOffOK(j)
  BY NumbersOK, UpdaterTyping, JobSteps DEF Control, Data, LockOK
<1>2. env \in Releases
  BY UpdaterTyping DEF AppTypes
<1>3. ASSUME NEW o \in Outcomes, EndJob(p, o) PROVE WorkOK(p)'
  BY <1>1, <1>3, Ending, AtRest DEF Busy
<1>4. ASSUME NEW v \in Releases, CheckRelease(p), Choosing(p, v) PROVE WorkOK(p)'
  <2>1. stage'[p] = "pulling" /\ work'[p].previous = env /\ UNCHANGED began
    BY <1>1, <1>2, <1>4, Chosen
  <2>2. stage[p] = "checking" /\ UNCHANGED app
    BY <1>4 DEF CheckRelease, deployment
  <2>3. began[p] \subseteq database.rows
    BY <1>1, <2>2 DEF WorkOK, Busy
  <2> QED BY <1>1, <2>1, <2>2, <2>3 DEF WorkOK, DatabaseFits
<1>5. ASSUME NEW s \in Busy, Proceed(p, s), ~CheckRelease(p) PROVE WorkOK(p)'
  <2>1. /\ stage'[p] = s /\ work'[p] = work[p] /\ began'[p] = began[p]
    BY <1>1, <1>5, Proceeding
  <2>2. app'.state # "stopped" /\ stage[p] \in {"pulling", "switching", "stopping", "backing_up"}
          => app.state # "stopped" /\ app'.version = app.version
    BY <1>1, JobDeployment
  <2>3. CASE \/ stage[p] = "pulling" /\ s = "switching"
             \/ stage[p] = "switching" /\ s = "stopping"
             \/ stage[p] = "backing_up" /\ s = "restarting"
             \/ stage[p] \in {"stopping", "backing_up"} /\ s = "reverting"
    BY <1>1, <2>1, <2>2, <2>3 DEF WorkOK, Busy
  <2>4. CASE stage[p] = "stopping" /\ s = "backing_up"
    <3>1. \A b \in backups : b.job # j
      BY <1>1, <2>4 DEF OneOffOK, StageOK, Step
    <3> QED BY <1>1, <2>1, <2>2, <2>4, <3>1 DEF WorkOK, Busy
  <2>5. CASE \/ stage[p] \in {"restarting", "awaiting"} /\ s \in {"awaiting", "halting"}
             \/ stage[p] \in {"reverting", "recreating"} /\ s \in {"recreating", "confirming"}
    BY <1>1, <2>1, <2>5 DEF WorkOK, Busy
  <2>6. CASE StopForRollback(p) /\ s = "restoring"
    <3>1. stage[p] = "halting" /\ oneOff'[j].step = "staging"
      BY <1>1, <2>6 DEF StopForRollback, FileTypes, Idle
    <3> QED BY <1>1, <2>1, <2>6, <3>1 DEF WorkOK, Busy, Replacing, Step
  <2>7. CASE stage[p] = "restoring" /\ s = "reverting" /\ Step(p) = "done" /\ UNCHANGED app
    BY <1>1, <2>1, <2>7 DEF WorkOK, Busy
  <2> QED BY <1>1, <1>5, <2>3, <2>4, <2>5, <2>6, <2>7, Transitions
<1> QED BY <1>3, <1>4, <1>5, JobSteps

\* in the steps of the containers,
LEMMA ContainerWork ==
  ASSUME UpdaterTypeOK, Control, Data, NEW j \in Jobs, RunOneOff(j), ~Exposed',
         NEW p \in Updaters
  PROVE  WorkOK(p)'
<1>1. /\ Numbers /\ FileTypes /\ StageOK(p) /\ WorkOK(p) /\ LockOK(p) /\ RestoreFits(j)
      /\ ~Exposed
  BY NumbersOK, UpdaterTyping DEF Control, Data
<1>2. UNCHANGED <<stage, work, began, app, env>>
  BY DEF RunOneOff, CreateUpdateBackup, RestoreStages, RestoreArchives, RestoreActivates,
     OneOffDies, updater, deployment
<1>3. CASE stage[p] \notin Busy
  BY <1>2, <1>3, AtRest
<1>4. CASE stage[p] \in Busy /\ work[p].job # j
  <2>1. work[p].job \in Jobs /\ oneOff'[work[p].job] = oneOff[work[p].job]
    BY <1>1, <1>4, ContainerSteps DEF LockOK
  <2>2. ~Replacing(j)
    BY <1>1, <1>4, Alone
  <2>3. UNCHANGED database
    BY <2>2 DEF Replacing, RunOneOff, CreateUpdateBackup, RestoreStages, RestoreArchives,
       RestoreActivates, OneOffDies
  <2>4. \A b \in backups' : b.job = work[p].job => b \in backups
    <3>1. backups' \subseteq backups \cup {[job |-> j, copy |-> database]}
      BY DEF RunOneOff, CreateUpdateBackup, RestoreStages, RestoreArchives,
         RestoreActivates, OneOffDies
    <3> QED BY <1>4, <3>1
  <2> QED BY <1>1, <1>2, <2>1, <2>3, <2>4 DEF WorkOK, Replacing, Step
<1>5. CASE stage[p] \in Busy /\ work[p].job = j
  <2>1. CASE CreateUpdateBackup(j)
    <3>1. /\ UNCHANGED database /\ oneOff[j].step = "copying"
          /\ \A b \in backups' : b \in backups \/ b.copy = database
      BY <2>1 DEF CreateUpdateBackup
    <3>2. stage[p] \in {"backing_up", "reverting", "recreating", "confirming"}
      BY <1>1, <1>5, <3>1 DEF StageOK, Step, Busy
    <3> QED BY <1>1, <1>2, <1>5, <3>1, <3>2 DEF WorkOK, Busy
  <2>2. CASE ~CreateUpdateBackup(j) /\ oneOff[j].step = "copying"
    <3>1. UNCHANGED <<database, backups>>
      BY <2>2 DEF RunOneOff, CreateUpdateBackup, RestoreStages, RestoreArchives,
         RestoreActivates, OneOffDies
    <3>2. stage[p] \in {"backing_up", "reverting", "recreating", "confirming"}
      BY <1>1, <1>5, <2>2 DEF StageOK, Step, Busy
    <3> QED BY <1>1, <1>2, <1>5, <3>1, <3>2 DEF WorkOK, Busy
  <2>3. CASE oneOff[j].step # "copying"
    <3>1. UNCHANGED backups /\ oneOff[j].step \in {"staging", "staged", "archived"}
      BY <2>3 DEF RunOneOff, CreateUpdateBackup, RestoreStages, RestoreArchives,
         RestoreActivates, OneOffDies
    <3>2. stage[p] = "restoring"
      BY <1>1, <1>5, <3>1 DEF StageOK, Step, Busy
    <3>3. \A b \in backups : b.job = j =>
            b.copy.schema <= work[p].previous /\ began[p] \subseteq b.copy.rows
      BY <1>1, <1>5, <3>2 DEF WorkOK
    <3>4. CASE oneOff'[j].step = "failed"
      BY <1>2, <1>5, <3>1, <3>2, <3>3, <3>4 DEF WorkOK, Replacing, Step
    <3>5. ASSUME NEW b \in backups, b.job = j, oneOff'[j] = Holding("staged", b.copy, Missing)
          PROVE  WorkOK(p)'
      <4>1. oneOff'[j].step = "staged" /\ oneOff'[j].temporary.rows = b.copy.rows
        BY <3>5 DEF Holding
      <4> QED BY <1>2, <1>5, <3>1, <3>2, <3>3, <3>5, <4>1 DEF WorkOK, Replacing, Step
    <3>6. CASE RestoreArchives(j) /\ oneOff'[j] = Holding("archived", oneOff[j].temporary, database)
      <4>1. oneOff'[j].step = "archived"
            /\ oneOff'[j].temporary.rows = oneOff[j].temporary.rows
        BY <3>6 DEF Holding
      <4>2. began[p] \subseteq oneOff[j].temporary.rows
        BY <1>1, <1>5, <3>2, <3>6 DEF RestoreArchives, Replacing, WorkOK
      <4> QED BY <1>2, <1>5, <3>1, <3>2, <3>3, <4>1, <4>2 DEF WorkOK, Replacing, Step
    <3>7. CASE RestoreActivates(j) /\ database' = oneOff[j].temporary
               /\ oneOff'[j] = Holding("done", Missing, Missing)
      <4>1. Replacing(j) /\ oneOff'[j].step = "done"
        BY <3>7 DEF RestoreActivates, Replacing, Holding
      <4>2. /\ app.state = "stopped" /\ began[p] \subseteq database'.rows
            /\ database'.schema <= work[p].previous
        BY <1>1, <1>5, <3>2, <3>7, <4>1, Alone DEF WorkOK, RestoreFits, Low, Busy
      <4> QED BY <1>2, <1>5, <3>1, <3>2, <3>3, <4>1, <4>2 DEF WorkOK, Replacing, Step
    <3>8. Holding("failed", Missing, Missing).step = "failed"
      BY DEF Holding
    <3> QED BY <1>1, <2>3, <3>4, <3>5, <3>6, <3>7, <3>8, ContainerSteps
            DEF CreateUpdateBackup
  <2> QED BY <2>1, <2>2, <2>3
<1> QED BY <1>3, <1>4, <1>5

\* and whatever else happens.
LEMMA AroundWork ==
  ASSUME UpdaterTypeOK, Control, Data, Around, NEW p \in Updaters
  PROVE  WorkOK(p)'
<1>1. /\ Numbers /\ FileTypes /\ ProcessTypes /\ WorkOK(p) /\ DatabaseFits /\ LockOK(p)
  BY NumbersOK, UpdaterTyping DEF Control, Data
<1>2. CASE stage'[p] \notin Busy
  BY <1>2, AtRest
<1>3. ASSUME stage'[p] \in Busy,
             NEW q \in Updaters, StartUpdater(q) \/ UpdaterDies(q) \/ StartJob(q)
      PROVE  WorkOK(p)'
  <2>1. UNCHANGED <<app, database, backups, oneOff>>
    BY <1>3 DEF StartUpdater, UpdaterDies, StartJob, deployment, files
  <2>2. CASE StartJob(q) /\ q = p
    <3>1. stage'[p] = "checking" /\ began'[p] = database.rows
      BY <1>1, <2>2 DEF StartJob, Reach, ProcessTypes
    <3> QED BY <2>1, <3>1 DEF WorkOK
  <2>3. CASE ~StartJob(q) \/ q # p
    <3>1. stage'[p] = stage[p] /\ work'[p] = work[p] /\ began'[p] = began[p]
      BY <1>1, <1>3, <2>3 DEF StartUpdater, UpdaterDies, StartJob, Reach, ProcessTypes, Busy
    <3> QED BY <1>1, <2>1, <3>1 DEF WorkOK, Replacing, Step
  <2> QED BY <2>2, <2>3
<1>4. ASSUME stage'[p] \in Busy, UNCHANGED <<stage, work, began, oneOff>>,
             \A b \in backups' : b.job \in Jobs => b \in backups,
             app'.version = app.version, app'.state # "stopped" <=> app.state # "stopped",
             database.rows \subseteq database'.rows,
             \/ database'.schema = database.schema
             \/ app.state # "stopped" /\ database'.schema <= app.version
      PROVE  WorkOK(p)'
  <2>1. work[p].job \in Jobs
    BY <1>1, <1>4 DEF LockOK
  <2>2. work[p].previous \in Nat /\ app.version \in Nat /\ database.schema \in Nat
    BY <1>1 DEF Numbers
  <2>3. database'.schema \in Nat
    <3>1. FileTypes'
      BY AroundTypes
    <3> QED BY <3>1, UpdaterConstants DEF FileTypes, Copies
  <2> QED BY <1>1, <1>4, <2>1, <2>2, <2>3 DEF WorkOK, Replacing, Step
<1>5. ASSUME stage'[p] \in Busy, Application \/ Publish PROVE WorkOK(p)'
  <2>1. UNCHANGED <<stage, work, began, oneOff>>
    BY <1>5 DEF Application, Publish, CreateDatabase, Migrate, Serve, ServerDies, Write,
       CreateBackup, DeleteBackup, updater, files
  <2>2. \A b \in backups' : b.job \in Jobs => b \in backups
    <3>1. \A b \in backups' : b \in backups \/ b.job = 0
      BY <1>5 DEF Application, Publish, CreateDatabase, Migrate, Serve, ServerDies, Write,
         CreateBackup, DeleteBackup, files
    <3> QED BY <3>1 DEF Jobs
  <2>3. app'.version = app.version /\ (app'.state # "stopped" <=> app.state # "stopped")
    <3>1. app \in [version : Releases, state : {"stopped", "starting", "running"}]
      BY UpdaterTyping DEF AppTypes
    <3> QED BY <1>5, <3>1 DEF Application, Publish, CreateDatabase, Migrate, Serve,
            ServerDies, Write, CreateBackup, DeleteBackup, deployment
  <2>4. database.rows \subseteq database'.rows
        /\ \/ database'.schema = database.schema
           \/ app.state # "stopped" /\ database'.schema <= app.version
    <3>1. database \in Copies /\ app.version \in Nat /\ database.schema \in Nat
      BY <1>1 DEF FileTypes, Numbers
    <3>2. CASE CreateDatabase
      <4>1. database'.schema = app.version /\ database.rows = {} /\ app.state = "starting"
        BY <3>2 DEF CreateDatabase, Missing
      <4> QED BY <3>1, <4>1
    <3>3. CASE Migrate
      <4>1. /\ database'.schema = database.schema + 1 /\ database'.rows = database.rows
            /\ app.state = "starting" /\ database.schema < app.version
        BY <3>1, <3>3 DEF Migrate, Copies
      <4> QED BY <3>1, <4>1
    <3>4. ASSUME NEW w \in Writes, Write(w)
          PROVE  database.rows \subseteq database'.rows /\ database'.schema = database.schema
      BY <3>1, <3>4 DEF Write, Copies
    <3>5. CASE UNCHANGED database
      BY <3>5
    <3> QED BY <1>5, <3>2, <3>3, <3>4, <3>5 DEF Application, Publish, Serve, ServerDies,
            CreateBackup, DeleteBackup, files
  <2> QED BY <1>4, <1>5, <2>1, <2>2, <2>3, <2>4
<1>6. ASSUME OperatorUp PROVE stage'[p] \notin Busy
  BY <1>6, LockFree DEF OperatorUp, LockIsFree, updater
<1> QED BY <1>2, <1>3, <1>5, <1>6 DEF Around
-----------------------------------------------------------------------------
(* Theorems.                                                                 *)

\* The invariant holds at the start.
LEMMA UpdaterInitIInv == UpdaterInit => UpdaterIInv
<1> SUFFICES ASSUME UpdaterInit PROVE UpdaterIInv
  OBVIOUS
<1>1. UpdaterTypeOK
  <2>1. Missing \in Copies /\ Idle \in Containers /\ NoWork \in Tasks /\ 1 \in Releases
    BY Initially
  <2>2. [schema |-> 1, rows |-> {}] \in Copies
    BY UpdaterConstants DEF Copies
  <2>3. FileTypes
    BY <2>1, <2>2 DEF UpdaterInit, FileTypes
  <2>4. AppTypes
    BY <2>1 DEF UpdaterInit, AppTypes
  <2>5. ProcessTypes
    BY <2>1 DEF UpdaterInit, ProcessTypes, Stages, Outcomes
  <2> QED BY <2>3, <2>4, <2>5, UpdaterTyping DEF UpdaterInit
<1>2. \A p \in Updaters : stage[p] \notin Busy
  BY DEF UpdaterInit, Busy
<1>3. \A p \in Updaters : LockOK(p) /\ StageOK(p) /\ WorkOK(p)
  BY <1>2 DEF LockOK, StageOK, WorkOK, Busy
<1>4. \A j \in Jobs : oneOff[j].step = "none" /\ oneOff[j].safety = Missing
  BY DEF UpdaterInit, Idle
<1>5. \A j \in Jobs : OneOffOK(j) /\ RestoreFits(j) /\ ~Replacing(j)
  BY <1>4 DEF UpdaterInit, OneOffOK, RestoreFits, Replacing
<1>6. ~Exposed
  BY <1>5 DEF Exposed
<1>7. DatabaseFits /\ NothingIsLost
  BY DEF UpdaterInit, DatabaseFits, NothingIsLost, Missing
<1> QED BY <1>1, <1>3, <1>5, <1>6, <1>7 DEF UpdaterIInv, Control, Data

\* A step keeps the data as long as it exposes nothing.
LEMMA DataStep ==
  ASSUME UpdaterIInv, UpdaterNext, ~exposed'
  PROVE  Data'
<1>1. ~Exposed' /\ Data /\ UpdaterTypeOK /\ Control /\ \A j \in Jobs : OneOffOK(j)
  BY DEF UpdaterNext, UpdaterIInv
<1>2. NothingIsLost'
  BY <1>1, NothingLostStep
<1>3. ASSUME NEW p \in Updaters, RunJob(p) PROVE Data'
  <2>1. ASSUME NEW q \in Updaters PROVE WorkOK(q)'
    <3>1. CASE q = p
      BY <1>1, <1>3, <3>1, JobWork
    <3>2. CASE q # p
      BY <1>1, <1>3, <3>2, JobSteps, OnlyOne, AtRest DEF Others
    <3> QED BY <3>1, <3>2
  <2> QED BY <1>1, <1>2, <1>3, <2>1, JobFits, JobRestores DEF Data
<1>4. ASSUME NEW j \in Jobs, RunOneOff(j) PROVE Data'
  BY <1>1, <1>2, <1>4, ContainerFits, ContainerRestores, ContainerWork DEF Data
<1>5. CASE Around
  BY <1>1, <1>2, <1>5, AroundFits, AroundRestores, AroundWork DEF Data
<1> QED BY <1>3, <1>4, <1>5 DEF UpdaterNext, Around

\* Every step, and every stutter, keeps it.
LEMMA UpdaterStep ==
  UpdaterIInv /\ [UpdaterNext]_updaterVars => UpdaterIInv'
<1> SUFFICES ASSUME UpdaterIInv, [UpdaterNext]_updaterVars PROVE UpdaterIInv'
  OBVIOUS
<1>1. CASE UpdaterNext
  <2>1. Control'
    BY <1>1, JobControl, ContainerControl, AroundControl DEF UpdaterIInv, UpdaterNext, Around
  <2> QED BY <1>1, <2>1, UpdaterTypesStep, OneOffsStep, DataStep DEF UpdaterIInv
<1>2. CASE UNCHANGED updaterVars
  <2>1. UNCHANGED <<latest, env, app, stored, database, kept, backups, oneOff,
                    updateLock, stage, work, jobs, began, exposed>>
    BY <1>2 DEF updaterVars, deployment, files, updater
  <2>2. UpdaterTypeOK'
    BY UpdaterTypesStep
  <2>3. Control'
    BY <2>1 DEF UpdaterIInv, Control, LockOK, StageOK, Step
  <2>4. \A j \in Jobs : OneOffOK(j)'
    BY <2>1 DEF UpdaterIInv, OneOffOK
  <2>5. Data => Data'
    BY <2>1 DEF Data, Exposed, Replacing, DatabaseFits, NothingIsLost, RestoreFits, Low,
       WorkOK, Step
  <2> QED BY <2>1, <2>2, <2>3, <2>4, <2>5 DEF UpdaterIInv
<1> QED BY <1>1, <1>2

\* The strengthened invariant holds in every behaviour.
THEOREM UpdaterInvariance == UpdaterSpec => []UpdaterIInv
<1> QED BY UpdaterInitIInv, UpdaterStep, PTL DEF UpdaterSpec

\* Types: files, containers, processes and histories stay what they are.
THEOREM UpdaterTypes == UpdaterSpec => []UpdaterTypeOK
<1>1. UpdaterIInv => UpdaterTypeOK
  BY DEF UpdaterIInv
<1> QED BY UpdaterInvariance, <1>1, PTL

\* Nobody works on a job whose file tells an outcome.
THEOREM OutcomesAreFinal == UpdaterSpec => []OutcomeIsFinal
<1>1. UpdaterIInv => OutcomeIsFinal
  BY DEF UpdaterIInv, Control, LockOK, OutcomeIsFinal
<1> QED BY UpdaterInvariance, <1>1, PTL

\* What the application acknowledged is in the database or in a copy.
THEOREM NothingGetsLost == UpdaterSpec => []NothingIsLost
<1>1. UpdaterIInv => NothingIsLost
  BY DEF UpdaterIInv, Data, NothingIsLost
<1> QED BY UpdaterInvariance, <1>1, PTL

\* No image serves a database that a newer one has migrated.
THEOREM OldImagesKeepOff == UpdaterSpec => []OldImageKeepsOff
<1>1. UpdaterIInv => OldImageKeepsOff
  BY DEF UpdaterIInv, Data, DatabaseFits, OldImageKeepsOff
<1> QED BY UpdaterInvariance, <1>1, PTL

\* Only the steps after a health check write that the job went well.
LEMMA Outcome ==
  ASSUME UpdaterIInv, UpdaterNext, NEW p \in Updaters, stage[p] \in Busy,
         jobs'[work[p].job] # jobs[work[p].job]
  PROVE  /\ jobs'[work[p].job] = "completed" => stage[p] = "awaiting" /\ app.state = "running"
         /\ jobs'[work[p].job] = "recovered" =>
              stage[p] = "confirming" /\ app.state = "running"
<1> DEFINE j == work[p].job
<1>1. UpdaterTypeOK /\ ProcessTypes /\ Control /\ updateLock = p /\ j \in Jobs
  BY UpdaterTyping DEF UpdaterIInv, Control, LockOK
<1>2. updateLock # NoUpdater
  BY <1>1, UpdaterConstants
<1>3. \E q \in Updaters : RunJob(q)
  BY <1>2 DEF UpdaterNext, StartUpdater, RecoverInterruptedJobs, LockIsFree, UpdaterDies,
     StartJob, Application, Publish, OperatorUp, CreateDatabase, Migrate, Serve,
     ServerDies, Write, CreateBackup, DeleteBackup, RunOneOff, CreateUpdateBackup,
     RestoreStages, RestoreArchives, RestoreActivates, OneOffDies, updater
<1>4. RunJob(p)
  BY <1>1, <1>3, JobSteps, OnlyOne
<1>5. \A o \in Outcomes : EndJob(p, o) => jobs'[j] = o
  BY <1>1, Ending
<1>6. "failed" \in Outcomes /\ "broken" \in Outcomes /\ "completed" \in Outcomes
      /\ "recovered" \in Outcomes
  BY DEF Outcomes
<1>7. CASE AwaitHealth(p)
  BY <1>5, <1>6, <1>7 DEF AwaitHealth, Proceed
<1>8. CASE ConfirmHealth(p)
  BY <1>5, <1>6, <1>8 DEF ConfirmHealth
<1>9. CASE ~AwaitHealth(p) /\ ~ConfirmHealth(p)
  <2>1. EndJob(p, "failed") \/ EndJob(p, "broken") \/ UNCHANGED jobs
    BY <1>4, <1>9 DEF RunJob, CheckRelease, PullImage, SwitchVersion, StopForBackup,
       BackupReturns, UpNewVersion, StopForRollback, RestoreReturns, RevertVersion,
       UpPreviousVersion, Proceed
  <2> QED BY <1>5, <1>6, <2>1
<1> QED BY <1>7, <1>8, <1>9

\* What the file of a job tells was true when it was written.
THEOREM OutcomesAreTrue == UpdaterSpec => OutcomeIsTrue
<1>1. UpdaterIInv /\ [UpdaterNext]_updaterVars =>
        [\A p \in Updaters : stage[p] \in Busy => Truthful(p)]_updaterVars
  <2> SUFFICES ASSUME UpdaterIInv, UpdaterNext, NEW p \in Updaters, stage[p] \in Busy,
                      jobs'[work[p].job] # jobs[work[p].job], ~exposed
               PROVE  Truthful(p)
    BY DEF Truthful
  <2>1. /\ Numbers /\ StageOK(p) /\ WorkOK(p) /\ DatabaseFits
    BY NumbersOK DEF UpdaterIInv, Control, Data
  <2>2. CASE stage[p] = "awaiting" /\ app.state = "running"
    <3>1. app.version = env /\ env = work[p].next /\ began[p] \subseteq database.rows
      BY <2>1, <2>2 DEF StageOK, WorkOK, Busy
    <3>2. database.schema = app.version
      BY <2>1, <2>2 DEF DatabaseFits, Numbers
    <3>3. jobs'[work[p].job] # "recovered"
      BY <2>2, Outcome
    <3> QED BY <2>2, <3>1, <3>2, <3>3 DEF Truthful
  <2>3. CASE stage[p] = "confirming" /\ app.state = "running"
    <3>1. app.version = env /\ env = work[p].previous /\ began[p] \subseteq database.rows
      BY <2>1, <2>3 DEF StageOK, WorkOK, Busy
    <3>2. jobs'[work[p].job] # "completed"
      BY <2>3, Outcome
    <3> QED BY <2>3, <3>1, <3>2 DEF Truthful
  <2> QED BY <2>2, <2>3, Outcome DEF Truthful
<1> QED BY UpdaterInvariance, <1>1, PTL DEF UpdaterSpec, OutcomeIsTrue
===============================================================================
