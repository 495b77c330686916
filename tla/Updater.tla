------------------------------- MODULE Updater -------------------------------
(* A deployment and what changes its version: the updater processes on the   *)
(* host (the daemon and --once share a lock file), the settings file the     *)
(* container is created from, the application container, the one-off         *)
(* containers that back up and restore, and the database with its copies.    *)
(* Any process may die at any step, a command may fail before or after its   *)
(* effect, and a one-off container outlives the command that started it.     *)
(* Every release is taken to bring one migration.                            *)
EXTENDS Naturals, FiniteSets

CONSTANTS
  Updaters,    \* updater processes
  NoUpdater,   \* owner of a free lock file
  Writes,      \* what users store, each once
  MaxVersion,  \* bound: releases published
  MaxJobs      \* bound: update jobs started

ASSUME UpdaterConstants ==
  /\ NoUpdater \notin Updaters
  /\ MaxVersion \in Nat \ {0} /\ MaxJobs \in Nat

VARIABLES
  latest,     \* newest release published
  env,        \* APP_VERSION and APP_IMAGE in the settings file
  app,        \* the application container: its version and its condition
  database,   \* the live database file: its schema and what it holds
  kept,       \* contents of the copies that no code deletes
  backups,    \* copies an administrator may delete
  oneOff,     \* job -> its one-off container
  updateLock, \* owner of the lock file
  stage,      \* where an updater process is
  work,       \* its job, the version before and the version wanted
  jobs,       \* job -> the outcome its file tells
  stored,     \* history: writes the application acknowledged
  began,      \* history: contents of the live database when the job began
  exposed     \* history: a database was replaced under somebody's feet

deployment == <<latest, env, app, stored>>
files      == <<database, kept, backups, oneOff>>
updater    == <<updateLock, stage, work, jobs, began>>
updaterVars == <<deployment, files, updater, exposed>>

Releases == 1..MaxVersion
Jobs     == 1..MaxJobs
Missing  == [schema |-> 0, rows |-> {}]
Copies   == [schema : 0..MaxVersion, rows : SUBSET Writes]
Backups  == [job : 0..MaxJobs, copy : Copies]
Idle     == [step |-> "none", temporary |-> Missing, safety |-> Missing]
NoWork   == [job |-> 0, previous |-> 0, next |-> 0]
Busy     == {"checking", "pulling", "switching", "stopping", "backing_up",
             "restarting", "awaiting", "halting", "restoring", "reverting",
             "recreating", "confirming"}
Outcomes == {"none", "open", "completed", "failed", "recovered", "broken", "interrupted"}

\* A restore is at work beside the application, another update or another restore.
Replacing(j) == oneOff[j].step \in {"staged", "archived"}
Exposed ==
  \E j \in Jobs : Replacing(j) /\
    \/ app.state # "stopped"
    \/ \E p \in Updaters : stage[p] \in Busy /\ work[p].job # j
    \/ \E k \in Jobs \ {j} : Replacing(k)

UpdaterInit ==
  /\ latest = 1 /\ env = 1
  /\ app = [version |-> 1, state |-> "running"]
  /\ database = [schema |-> 1, rows |-> {}]
  /\ kept = {} /\ backups = {}
  /\ oneOff = [j \in Jobs |-> Idle]
  /\ updateLock = NoUpdater
  /\ stage = [p \in Updaters |-> "down"]
  /\ work = [p \in Updaters |-> NoWork]
  /\ jobs = [j \in Jobs |-> "none"]
  /\ stored = {}
  /\ began = [p \in Updaters |-> {}]
  /\ exposed = FALSE
-----------------------------------------------------------------------------
(* The updater: one job, from the lock to the outcome.                       *)

\* acquireProcessLock: the file is locked by nobody.
LockIsFree == updateLock = NoUpdater

Reach(p, s) == stage' = [stage EXCEPT ![p] = s]

\* Bug: a start marks the open jobs without asking whether one is at work.
RecoverAnyJob == jobs' = [j \in Jobs |-> IF jobs[j] = "open" THEN "interrupted" ELSE jobs[j]]

\* recoverInterruptedJobs, when nobody holds the lock; else jobs are left.
RecoverInterruptedJobs ==
  IF LockIsFree
  THEN jobs' = [j \in Jobs |-> IF jobs[j] = "open" THEN "interrupted" ELSE jobs[j]]
  ELSE UNCHANGED jobs

StartUpdater(p) ==
  /\ stage[p] = "down"
  /\ Reach(p, "ready")
  /\ RecoverInterruptedJobs
  /\ UNCHANGED <<deployment, files, updateLock, work, began>>

\* The process dies: the kernel drops its lock, the job file stays as it is.
UpdaterDies(p) ==
  /\ stage[p] # "down"
  /\ Reach(p, "down")
  /\ updateLock' = IF updateLock = p THEN NoUpdater ELSE updateLock
  /\ work' = [work EXCEPT ![p] = NoWork]
  /\ began' = [began EXCEPT ![p] = {}]
  /\ UNCHANGED <<deployment, files, jobs>>

\* startJob, RunOnce: refused while another process holds the lock, and when
\* the job cannot be saved.
StartJob(p) ==
  /\ stage[p] = "ready" /\ LockIsFree
  /\ \E j \in Jobs :
       /\ jobs[j] = "none" /\ \A i \in 1..j - 1 : jobs[i] # "none"
       /\ jobs' = [jobs EXCEPT ![j] = "open"]
       /\ work' = [work EXCEPT ![p] = [NoWork EXCEPT !.job = j]]
  /\ updateLock' = p
  /\ Reach(p, "checking")
  /\ began' = [began EXCEPT ![p] = database.rows]
  /\ UNCHANGED <<deployment, files>>

\* The job ends: its outcome is saved, unless that fails, and the lock is free.
EndJob(p, outcome) ==
  /\ Reach(p, "ready")
  /\ updateLock' = NoUpdater
  /\ work' = [work EXCEPT ![p] = NoWork]
  /\ began' = [began EXCEPT ![p] = {}]
  /\ \/ jobs' = [jobs EXCEPT ![work[p].job] = outcome]
     \/ UNCHANGED jobs

Proceed(p, s) == Reach(p, s) /\ UNCHANGED <<updateLock, work, jobs, began>>

\* fetchRelease answers with some signed release; a downgrade is refused.
Acceptable(v) == v \in 1..latest /\ v > env

CheckRelease(p) ==
  /\ stage[p] = "checking"
  /\ \/ \E v \in Releases :
          /\ Acceptable(v)
          /\ work' = [work EXCEPT ![p].previous = env, ![p].next = v]
          /\ Reach(p, "pulling")
          /\ UNCHANGED <<updateLock, jobs, began>>
     \/ EndJob(p, "failed")
  /\ UNCHANGED <<deployment, files>>

PullImage(p) ==
  /\ stage[p] = "pulling"
  /\ Proceed(p, "switching") \/ EndJob(p, "failed")
  /\ UNCHANGED <<deployment, files>>

\* updateEnvFile: an error may come after the rename.
SwitchVersion(p) ==
  /\ stage[p] = "switching"
  /\ \/ env' = work[p].next /\ Proceed(p, "stopping")
     \/ env' \in {env, work[p].next} /\ EndJob(p, "failed")
  /\ UNCHANGED <<latest, app, stored, files>>

\* compose stop: the container is down, or the command failed and it may be.
Stop == app' = [app EXCEPT !.state = "stopped"]
StopFails == Stop \/ UNCHANGED app

OneOff(j, s) == oneOff' = [oneOff EXCEPT ![j].step = s]

\* The service is stopped and a one-off container begins the backup.
StopForBackup(p) ==
  /\ stage[p] = "stopping"
  /\ \/ /\ Stop
        /\ Proceed(p, "backing_up")
        /\ OneOff(work[p].job, "copying")
     \/ /\ StopFails
        /\ Proceed(p, "reverting")
        /\ UNCHANGED oneOff
  /\ UNCHANGED <<latest, env, stored, database, kept, backups>>

\* createBackup returns: the name of the backup, an error, or the command is
\* killed at the deadline and the container goes on alone.
BackupReturns(p) ==
  /\ stage[p] = "backing_up"
  /\ \/ oneOff[work[p].job].step = "done" /\ Proceed(p, "restarting")
     \/ Proceed(p, "reverting")
  /\ UNCHANGED <<deployment, files>>

\* compose up --force-recreate: from the settings file; it may fail at any point.
Up == app' = [version |-> env, state |-> "starting"]
UpFails == Up \/ UNCHANGED app \/ app' = [version |-> env, state |-> "stopped"]

UpNewVersion(p) ==
  /\ stage[p] = "restarting"
  /\ \/ Up /\ Proceed(p, "awaiting")
     \/ UpFails /\ Proceed(p, "halting")
  /\ UNCHANGED <<latest, env, stored, files>>

\* Bug: the update is complete without the health check.
CompleteAnyway(p) ==
  /\ stage[p] = "awaiting"
  /\ EndJob(p, "completed")
  /\ UNCHANGED <<deployment, files>>

\* waitForHealth: an answer of the application, or none in time.
AwaitHealth(p) ==
  /\ stage[p] = "awaiting"
  /\ \/ app.state = "running" /\ EndJob(p, "completed")
     \/ Proceed(p, "halting")
  /\ UNCHANGED <<deployment, files>>

\* rollback: an error of stop is ignored, then a one-off container restores.
StopForRollback(p) ==
  /\ stage[p] = "halting"
  /\ StopFails
  /\ Proceed(p, "restoring")
  /\ oneOff' = [oneOff EXCEPT ![work[p].job] = [Idle EXCEPT !.step = "staging"]]
  /\ UNCHANGED <<latest, env, stored, database, kept, backups>>

RestoreReturns(p) ==
  /\ stage[p] = "restoring"
  /\ \/ oneOff[work[p].job].step = "done" /\ Proceed(p, "reverting")
     \/ EndJob(p, "broken")
  /\ UNCHANGED <<deployment, files>>

\* rollback, restorePreviousDeployment: the settings of before.
RevertVersion(p) ==
  /\ stage[p] = "reverting"
  /\ \/ env' = work[p].previous /\ Proceed(p, "recreating")
     \/ env' \in {env, work[p].previous} /\ EndJob(p, "broken")
  /\ UNCHANGED <<latest, app, stored, files>>

UpPreviousVersion(p) ==
  /\ stage[p] = "recreating"
  /\ \/ Up /\ Proceed(p, "confirming")
     \/ UpFails /\ EndJob(p, "broken")
  /\ UNCHANGED <<latest, env, stored, files>>

ConfirmHealth(p) ==
  /\ stage[p] = "confirming"
  /\ \/ app.state = "running" /\ EndJob(p, "recovered")
     \/ EndJob(p, "broken")
  /\ UNCHANGED <<deployment, files>>

RunJob(p) ==
  \/ CheckRelease(p) \/ PullImage(p) \/ SwitchVersion(p) \/ StopForBackup(p)
  \/ BackupReturns(p) \/ UpNewVersion(p) \/ AwaitHealth(p) \/ StopForRollback(p)
  \/ RestoreReturns(p) \/ RevertVersion(p) \/ UpPreviousVersion(p) \/ ConfirmHealth(p)
-----------------------------------------------------------------------------
(* The one-off containers.                                                   *)

\* Bug: the backup is taken by the ordinary command, which migrates first.
CreateMigratedBackup(j) ==
  /\ oneOff[j].step = "copying"
  /\ \/ /\ database # Missing
        /\ database' = [database EXCEPT !.schema = env]
        /\ backups' = backups \cup {[job |-> j, copy |-> database']}
        /\ OneOff(j, "done")
     \/ OneOff(j, "failed") /\ UNCHANGED <<backups, database>>
  /\ UNCHANGED <<deployment, updater, kept>>

\* CreateUpdateBackup: a verified copy; the new image migrates nothing here.
CreateUpdateBackup(j) ==
  /\ oneOff[j].step = "copying"
  /\ \/ /\ database # Missing
        /\ backups' = backups \cup {[job |-> j, copy |-> database]}
        /\ OneOff(j, "done")
     \/ OneOff(j, "failed") /\ UNCHANGED backups
  /\ UNCHANGED <<deployment, updater, database, kept>>

\* Restore: the backup is verified and copied next to the database.
RestoreStages(j) ==
  /\ oneOff[j].step = "staging"
  /\ \/ \E b \in backups :
          /\ b.job = j
          /\ oneOff' = [oneOff EXCEPT ![j] = [Idle EXCEPT !.step = "staged",
                                                          !.temporary = b.copy]]
     \/ OneOff(j, "failed")
  /\ UNCHANGED <<deployment, updater, database, kept, backups>>

\* Bug: the database to be replaced is removed, not put aside.
RestoreRemoves(j) ==
  /\ oneOff[j].step = "staged"
  /\ \/ OneOff(j, "archived") /\ database' = Missing
     \/ OneOff(j, "failed") /\ UNCHANGED database
  /\ UNCHANGED <<deployment, updater, kept, backups>>

\* The current database, when there is one, becomes the safety copy.
RestoreArchives(j) ==
  /\ oneOff[j].step = "staged"
  /\ \/ /\ oneOff' = [oneOff EXCEPT ![j].step = "archived", ![j].safety = database]
        /\ database' = Missing
     \/ OneOff(j, "failed") /\ UNCHANGED database
  /\ UNCHANGED <<deployment, updater, kept, backups>>

\* The copy takes its place, or the safety copy goes back.
RestoreActivates(j) ==
  /\ oneOff[j].step = "archived"
  /\ \/ /\ database' = oneOff[j].temporary
        /\ kept' = kept \cup oneOff[j].safety.rows
        /\ oneOff' = [oneOff EXCEPT ![j] = [Idle EXCEPT !.step = "done"]]
     \/ /\ database' = IF oneOff[j].safety = Missing THEN database ELSE oneOff[j].safety
        /\ oneOff' = [oneOff EXCEPT ![j] = [Idle EXCEPT !.step = "failed"]]
        /\ UNCHANGED kept
  /\ UNCHANGED <<deployment, updater, backups>>

\* The container is killed; a safety copy it made stays where it is.
OneOffDies(j) ==
  /\ oneOff[j].step \in {"copying", "staging", "staged", "archived"}
  /\ kept' = kept \cup oneOff[j].safety.rows
  /\ oneOff' = [oneOff EXCEPT ![j] = [Idle EXCEPT !.step = "failed"]]
  /\ UNCHANGED <<deployment, updater, database, backups>>

RunOneOff(j) ==
  \/ CreateUpdateBackup(j) \/ RestoreStages(j) \/ RestoreArchives(j)
  \/ RestoreActivates(j) \/ OneOffDies(j)
-----------------------------------------------------------------------------
(* The application, its administrator and the world.                         *)

\* Open: a missing database is created empty, an older one is copied, then
\* migrated one release after the other; a newer one is taken as it is.
CreateDatabase ==
  /\ app.state = "starting" /\ database = Missing
  /\ database' = [schema |-> app.version, rows |-> {}]
  /\ UNCHANGED <<deployment, updater, kept, backups, oneOff>>

Migrate ==
  /\ app.state = "starting" /\ database # Missing /\ database.schema < app.version
  /\ database' = [database EXCEPT !.schema = @ + 1]
  /\ kept' = kept \cup database.rows
  /\ UNCHANGED <<deployment, updater, backups, oneOff>>

Serve ==
  /\ app.state = "starting" /\ database # Missing /\ database.schema >= app.version
  /\ app' = [app EXCEPT !.state = "running"]
  /\ UNCHANGED <<latest, env, stored, updater, files>>

\* The process ends by itself; the container is restarted unless stopped.
ServerDies ==
  /\ app.state = "running"
  /\ app' = [app EXCEPT !.state = "starting"]
  /\ UNCHANGED <<latest, env, stored, updater, files>>

\* A write that lands in the open file, wherever that has been moved to.
Write(w) ==
  /\ app.state = "running" /\ w \notin stored
  /\ stored' = stored \cup {w}
  /\ IF database = Missing
     THEN kept' = kept \cup {w} /\ UNCHANGED database
     ELSE database' = [database EXCEPT !.rows = @ \cup {w}] /\ UNCHANGED kept
  /\ UNCHANGED <<latest, env, app, updater, backups, oneOff>>

\* CreateBackup; job 0, and one such backup at a time (bound).
CreateBackup ==
  /\ app.state = "running" /\ database # Missing
  /\ \A b \in backups : b.job # 0
  /\ backups' = backups \cup {[job |-> 0, copy |-> database]}
  /\ UNCHANGED <<deployment, updater, database, kept, oneOff>>

DeleteBackup ==
  /\ app.state = "running"
  /\ \E b \in backups : backups' = backups \ {b}
  /\ UNCHANGED <<deployment, updater, database, kept, oneOff>>

Publish ==
  /\ latest < MaxVersion /\ latest' = latest + 1
  /\ UNCHANGED <<env, app, stored, updater, files>>

\* The operator looks after an interrupted update: nothing is at work any more.
OperatorUp ==
  /\ LockIsFree
  /\ \A j \in Jobs : oneOff[j].step \in {"none", "done", "failed"}
  /\ app.state = "stopped" \/ app.version # env
  /\ Up
  /\ UNCHANGED <<latest, env, stored, updater, files>>

Application ==
  \/ CreateDatabase \/ Migrate \/ Serve \/ ServerDies \/ \E w \in Writes : Write(w)
  \/ CreateBackup \/ DeleteBackup

UpdaterNext ==
  /\ \/ \E p \in Updaters : StartUpdater(p) \/ UpdaterDies(p) \/ StartJob(p) \/ RunJob(p)
     \/ \E j \in Jobs : RunOneOff(j)
     \/ Application \/ Publish \/ OperatorUp
  /\ exposed' = (exposed \/ Exposed')

UpdaterSpec == UpdaterInit /\ [][UpdaterNext]_updaterVars
-----------------------------------------------------------------------------
(* Properties.                                                               *)

UpdaterTypeOK ==
  /\ latest \in Releases /\ env \in Releases
  /\ app \in [version : Releases, state : {"stopped", "starting", "running"}]
  /\ database \in Copies /\ kept \subseteq Writes /\ backups \subseteq Backups
  /\ oneOff \in [Jobs -> [step : {"none", "copying", "staging", "staged", "archived",
                                  "done", "failed"},
                          temporary : Copies, safety : Copies]]
  /\ updateLock \in Updaters \cup {NoUpdater}
  /\ stage \in [Updaters -> Busy \cup {"down", "ready"}]
  /\ work \in [Updaters -> [job : 0..MaxJobs, previous : 0..MaxVersion,
                            next : 0..MaxVersion]]
  /\ jobs \in [Jobs -> Outcomes]
  /\ stored \subseteq Writes /\ began \in [Updaters -> SUBSET Writes]
  /\ exposed \in BOOLEAN

\* rollback restores the database before it goes back to the old image: an
\* image never serves a database that a newer one has migrated, whatever died
\* on the way, unless the restore ran beside an application that would not stop.
OldImageKeepsOff ==
  exposed \/ (app.state = "running" => database.schema <= app.version)

\* Restore and migrate put aside what they replace: whatever the application
\* acknowledged is in the live database or in a copy that no code deletes,
\* also between the two renames of a restore and after a crash there.
NothingIsLost ==
  exposed \/ stored \subseteq
    database.rows \cup kept \cup UNION {oneOff[j].safety.rows : j \in Jobs}

\* A job file that tells an outcome is about a job that nobody works on: a
\* starting updater never declares the job of a living one interrupted.
OutcomeIsFinal ==
  \A p \in Updaters : stage[p] \in Busy =>
    updateLock = p /\ jobs[work[p].job] = "open"

\* The outcome of a job, when its file is written with one.
Truthful(p) ==
  LET outcome == jobs'[work[p].job] IN
  outcome # jobs[work[p].job] /\ ~exposed =>
    /\ outcome = "completed" =>
         /\ app.state = "running" /\ app.version = work[p].next /\ env = app.version
         /\ database.schema = app.version /\ began[p] \subseteq database.rows
    /\ outcome = "recovered" =>
         /\ app.state = "running" /\ app.version = work[p].previous /\ env = app.version
         /\ began[p] \subseteq database.rows

\* What a job file says was true when it was written: "completed" means the
\* new version serves its own schema; "rolled back" that the version of before
\* serves, with everything the database held when the job began.
OutcomeIsTrue == [][\A p \in Updaters : stage[p] \in Busy => Truthful(p)]_updaterVars
===============================================================================
