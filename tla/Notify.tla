-------------------------------- MODULE Notify --------------------------------
(***************************************************************************)
(* The notification centre (internal/notify/service.go): deliveries are     *)
(* rows of notification_deliveries, queued by callers (mail synchronisation,*)
(* system alerts, the administrator's channel test) and sent by a pool of   *)
(* workers.  A worker claims a row, calls the push service and records the  *)
(* result: three steps, between which everything else may happen, the end   *)
(* of the process included.  Workers sleep on a channel of capacity one     *)
(* (wake) and on a 30 second ticker.                                        *)
(***************************************************************************)
EXTENDS Naturals, Sequences, FiniteSets

CONSTANTS
  Mails,         \* messages the synchronisation may save
  Alerts,        \* system events of one day (dedupe key: event and day)
  Tests,         \* channel tests; each has a random dedupe key
  Channels,      \* notification channels
  Workers,       \* delivery workers (2 in the code)
  Callers,       \* goroutines that enqueue
  Nobody,        \* no source, or no delivery
  MaxAttempts,   \* failures before a delivery is given up (5 in the code)
  MaxTries       \* bound of the model: failures with administrators' retries

Sources == Mails \cup Alerts \cup Tests
Deliveries == Sources \X Channels
SourceOf(d) == d[1]
ChannelOf(d) == d[2]

ASSUME SourcesAssumption ==
  /\ Mails \cap Alerts = {} /\ Mails \cap Tests = {} /\ Alerts \cap Tests = {}
  /\ Nobody \notin Sources \cup Deliveries
ASSUME TriesAssumption ==
  MaxAttempts \in Nat \ {0} /\ MaxTries \in Nat /\ MaxAttempts <= MaxTries

VARIABLES
  channel,       \* notification_channels: absent, enabled, disabled or deleted
  mail,          \* the messages rows: absent, saved or deleted
  unannounced,   \* newMessageIDs a committed page has not passed on yet
  job,           \* the source a caller is enqueueing
  remaining,     \* the channels it still has to insert a delivery for
  status,        \* notification_deliveries.status; "none" before, "gone" after
  attempts,      \* attempt_count
  waiting,       \* next_retry_at_utc is set and has not passed
  order,         \* the deliveries in the order of their insertion
  pc,            \* where each worker is; "off" while the process is down
  held,          \* the delivery it claimed
  tried,         \* attempt_count as its claim read it
  reply,         \* what the push service answered
  wake,          \* the wake channel holds a token
  accepted,      \* history: how often the push service took a delivery (2: twice or more)
  doubt,         \* history: taken, but the answer never reached the row
  quiet          \* history: became claimable without a wake-up call

queue == <<status, attempts, waiting, order>>
callers == <<unannounced, job, remaining>>
workers == <<pc, held, tried, reply>>
history == <<accepted, doubt, quiet>>
vars == <<channel, mail, unannounced, job, remaining, status, attempts, waiting, order,
          pc, held, tried, reply, wake, accepted, doubt, quiet>>

Statuses == {"none", "queued", "sending", "sent", "failed", "gone"}
Steps == {"off", "poll", "parked", "sending", "record"}
Existing == {c \in Channels : channel[c] \in {"enabled", "disabled"}}
Busy == {w \in Workers : pc[w] \in {"sending", "record"}}

Init ==
  /\ channel = [c \in Channels |-> "absent"]
  /\ mail = [m \in Mails |-> "absent"]
  /\ unannounced = {}
  /\ job = [k \in Callers |-> Nobody]
  /\ remaining = [k \in Callers |-> {}]
  /\ status = [d \in Deliveries |-> "none"]
  /\ attempts = [d \in Deliveries |-> 0]
  /\ waiting = {}
  /\ order = <<>>
  /\ pc = [w \in Workers |-> "off"]
  /\ held = [w \in Workers |-> Nobody]
  /\ tried = [w \in Workers |-> 0]
  /\ reply = [w \in Workers |-> "none"]
  /\ wake = FALSE
  /\ accepted = [d \in Deliveries |-> 0]
  /\ doubt = {}
  /\ quiet = {}

------------------------------------------------------------------------------
(* What claimDelivery's query selects.                                       *)

Due == {d \in Deliveries : /\ status[d] = "queued"
                           /\ channel[ChannelOf(d)] = "enabled"
                           /\ d \notin waiting}

Earlier(d, e) ==
  \E i, j \in 1 .. Len(order) : order[i] = d /\ order[j] = e /\ i < j

FirstDue(d) == d \in Due /\ \A e \in Due \ {d} : Earlier(d, e)

------------------------------------------------------------------------------
(* Channels, and the deletion of an account's mail.                          *)

CreateChannel(c, value) ==
  /\ channel[c] = "absent"
  /\ channel' = [channel EXCEPT ![c] = value]
  /\ UNCHANGED <<mail, callers, queue, workers, wake, history>>

\* Enabling a channel makes its deliveries claimable, but wakes nobody.
UpdateChannel(c, value) ==
  /\ c \in Existing
  /\ channel' = [channel EXCEPT ![c] = value]
  /\ UNCHANGED <<mail, callers, queue, workers, wake, accepted, doubt>>
  /\ quiet' = quiet \cup (Due' \ Due)

\* The rows of S are deleted; a worker that claimed one of them is not told.
Remove(S) ==
  status' = [d \in Deliveries |-> IF d \in S /\ status[d] # "none" THEN "gone" ELSE status[d]]

DeleteChannel(c) ==
  /\ c \in Existing
  /\ channel' = [channel EXCEPT ![c] = "deleted"]
  /\ Remove(Sources \X {c})
  /\ UNCHANGED <<mail, callers, attempts, waiting, order, workers, wake, history>>

\* accounts.Service.deleteAccountRows, as far as one message of the account is concerned.
DeleteMail(m) ==
  /\ mail[m] = "saved"
  /\ mail' = [mail EXCEPT ![m] = "deleted"]
  /\ Remove({m} \X Channels)
  /\ UNCHANGED <<channel, callers, attempts, waiting, order, workers, wake, history>>

------------------------------------------------------------------------------
(* Enqueueing: list the channels, insert one row after the other, signal.    *)

Begin(k, s, S) ==
  /\ job[k] = Nobody
  /\ job' = [job EXCEPT ![k] = s]
  /\ remaining' = [remaining EXCEPT ![k] = S]

\* applyPage commits a page; the messages it did not have are announced afterwards.
SavePage(S) ==
  /\ S # {} /\ \A m \in S : mail[m] = "absent"
  /\ mail' = [m \in Mails |-> IF m \in S THEN "saved" ELSE mail[m]]
  /\ unannounced' = unannounced \cup S
  /\ UNCHANGED <<channel, job, remaining, queue, workers, wake, history>>

\* The rules match some of the channels there are, enabled or not.
EnqueueMessage(k, m) ==
  /\ m \in unannounced /\ mail[m] = "saved"
  /\ \E S \in SUBSET Existing : Begin(k, m, S)
  /\ unannounced' = unannounced \ {m}
  /\ UNCHANGED <<channel, mail, queue, workers, wake, history>>

\* The message cannot be loaded: applyPage ignores the error.
EnqueueMessageFails(m) ==
  /\ m \in unannounced
  /\ unannounced' = unannounced \ {m}
  /\ UNCHANGED <<channel, mail, job, remaining, queue, workers, wake, history>>

EnqueueSystem(k, a) ==
  /\ \E S \in SUBSET {c \in Channels : channel[c] = "enabled"} : Begin(k, a, S)
  /\ UNCHANGED <<channel, mail, unannounced, queue, workers, wake, history>>

TestChannel(k, t, c) ==
  /\ c \in Existing
  /\ \A d \in {t} \X Channels : status[d] = "none"
  /\ \A other \in Callers : job[other] # t
  /\ Begin(k, t, {c})
  /\ UNCHANGED <<channel, mail, unannounced, queue, workers, wake, history>>

\* The dedupe key makes a second insertion do nothing.
Insert(d) ==
  IF status[d] = "none"
  THEN status' = [status EXCEPT ![d] = "queued"] /\ order' = Append(order, d)
  ELSE UNCHANGED <<status, order>>

InsertDelivery(k, c) ==
  /\ c \in remaining[k] /\ c \in Existing
  /\ job[k] \in Mails => mail[job[k]] = "saved"
  /\ remaining' = [remaining EXCEPT ![k] = @ \ {c}]
  /\ Insert(<<job[k], c>>)
  /\ UNCHANGED <<channel, mail, unannounced, job, attempts, waiting, workers, wake, history>>

\* Channel, rule or message is gone, or the database fails: the other channels are
\* left out and the rows already inserted wake nobody.
InsertFails(k) ==
  /\ remaining[k] # {}
  /\ job' = [job EXCEPT ![k] = Nobody]
  /\ remaining' = [remaining EXCEPT ![k] = {}]
  /\ quiet' = quiet \cup {d \in Due : SourceOf(d) = job[k]}
  /\ UNCHANGED <<channel, mail, unannounced, queue, workers, wake, accepted, doubt>>

\* Mutated form: the caller returns without the signal.
EnqueueReturnsQuietly(k) ==
  /\ job[k] # Nobody /\ remaining[k] = {}
  /\ job' = [job EXCEPT ![k] = Nobody]
  /\ UNCHANGED <<channel, mail, unannounced, remaining, queue, workers, wake, history>>

EnqueueReturns(k) ==
  /\ job[k] # Nobody /\ remaining[k] = {}
  /\ job' = [job EXCEPT ![k] = Nobody]
  /\ wake' = TRUE
  /\ UNCHANGED <<channel, mail, unannounced, remaining, queue, workers, history>>

\* Mutated forms: a delivery may be retried while it is being sent, or after it was sent.
RetryUnfinished(d) ==
  /\ status[d] \in {"sending", "failed"} /\ attempts[d] < MaxTries
  /\ status' = [status EXCEPT ![d] = "queued"]
  /\ waiting' = waiting \ {d}
  /\ wake' = TRUE
  /\ UNCHANGED <<channel, mail, callers, attempts, order, workers, history>>
RetrySent(d) ==
  /\ status[d] \in {"sent", "failed"} /\ attempts[d] < MaxTries
  /\ status' = [status EXCEPT ![d] = "queued"]
  /\ waiting' = waiting \ {d}
  /\ wake' = TRUE
  /\ UNCHANGED <<channel, mail, callers, attempts, order, workers, history>>

\* attempt_count stays: a retried delivery has one more attempt.
RetryDelivery(d) ==
  /\ status[d] = "failed" /\ attempts[d] < MaxTries
  /\ status' = [status EXCEPT ![d] = "queued"]
  /\ waiting' = waiting \ {d}
  /\ wake' = TRUE
  /\ UNCHANGED <<channel, mail, callers, attempts, order, workers, history>>

------------------------------------------------------------------------------
(* The workers.                                                              *)

\* Mutated form: the claim does not mark the row.
ClaimWithoutMark(w, d) ==
  /\ pc[w] = "poll" /\ FirstDue(d)
  /\ pc' = [pc EXCEPT ![w] = "sending"]
  /\ held' = [held EXCEPT ![w] = d]
  /\ tried' = [tried EXCEPT ![w] = attempts[d]]
  /\ quiet' = quiet \ {d}
  /\ UNCHANGED <<channel, mail, callers, queue, reply, wake, accepted, doubt>>

\* One immediate transaction: the oldest claimable row becomes 'sending'.
ClaimDelivery(w, d) ==
  /\ pc[w] = "poll" /\ FirstDue(d)
  /\ status' = [status EXCEPT ![d] = "sending"]
  /\ pc' = [pc EXCEPT ![w] = "sending"]
  /\ held' = [held EXCEPT ![w] = d]
  /\ tried' = [tried EXCEPT ![w] = attempts[d]]
  /\ quiet' = quiet \ {d}
  /\ UNCHANGED <<channel, mail, callers, attempts, waiting, order, reply, wake, accepted, doubt>>

Park(w) == pc' = [pc EXCEPT ![w] = "parked"]

NothingDue(w) ==
  /\ pc[w] = "poll" /\ Due = {}
  /\ Park(w)
  /\ quiet' = {}
  /\ UNCHANGED <<channel, mail, callers, queue, held, tried, reply, wake, accepted, doubt>>

\* The claim's transaction fails; the worker sleeps although there may be work.
ClaimFails(w) ==
  /\ pc[w] = "poll"
  /\ Park(w)
  /\ quiet' = quiet \cup Due
  /\ UNCHANGED <<channel, mail, callers, queue, held, tried, reply, wake, accepted, doubt>>

Wake(w) ==
  /\ pc[w] = "parked" /\ wake
  /\ wake' = FALSE
  /\ pc' = [pc EXCEPT ![w] = "poll"]
  /\ UNCHANGED <<channel, mail, callers, queue, held, tried, reply, history>>

\* Mutated form: the worker has no ticker.
TickNever(w) ==
  /\ pc[w] = "parked" /\ wake
  /\ pc' = [pc EXCEPT ![w] = "poll"]
  /\ UNCHANGED <<channel, mail, callers, queue, held, tried, reply, wake, history>>

Tick(w) ==
  /\ pc[w] = "parked"
  /\ pc' = [pc EXCEPT ![w] = "poll"]
  /\ UNCHANGED <<channel, mail, callers, queue, held, tried, reply, wake, history>>

\* The push service takes the message or refuses it, or takes it and the answer is lost.
Send(w) ==
  /\ pc[w] = "sending"
  /\ pc' = [pc EXCEPT ![w] = "record"]
  /\ \E outcome \in {"taken", "refused", "lost"} :
       /\ reply' = [reply EXCEPT ![w] = IF outcome = "taken" THEN "ok" ELSE "error"]
       /\ accepted' = [accepted EXCEPT ![held[w]] = IF outcome # "refused" /\ @ < 2 THEN @ + 1 ELSE @]
       /\ doubt' = IF outcome = "lost" THEN doubt \cup {held[w]} ELSE doubt
  /\ UNCHANGED <<channel, mail, callers, queue, held, tried, wake, quiet>>

\* The worker is done with its delivery and looks for the next one.
Finish(w, step) ==
  /\ pc' = [pc EXCEPT ![w] = step]
  /\ held' = [held EXCEPT ![w] = Nobody]
  /\ tried' = [tried EXCEPT ![w] = 0]
  /\ reply' = [reply EXCEPT ![w] = "none"]

\* Mutated form: the error of the send is ignored.
RecordAnyReply(w) ==
  /\ pc[w] = "record"
  /\ status' = [status EXCEPT ![held[w]] = IF @ = "gone" THEN @ ELSE "sent"]
  /\ waiting' = waiting \ {held[w]}
  /\ Finish(w, "poll")
  /\ UNCHANGED <<channel, mail, callers, attempts, order, wake, history>>

\* The UPDATE names the row by its id only; a deleted row is not matched.
RecordSent(w) ==
  /\ pc[w] = "record" /\ reply[w] = "ok"
  /\ status' = [status EXCEPT ![held[w]] = IF @ = "gone" THEN @ ELSE "sent"]
  /\ waiting' = waiting \ {held[w]}
  /\ Finish(w, "poll")
  /\ UNCHANGED <<channel, mail, callers, attempts, order, wake, history>>

\* Mutated form: a delivery is never given up.
RecordFailureForEver(w) ==
  /\ pc[w] = "record" /\ reply[w] = "error"
  /\ LET d == held[w]
     IN  /\ status' = [status EXCEPT ![d] = IF @ = "gone" THEN @ ELSE "queued"]
         /\ attempts' = [attempts EXCEPT ![d] = tried[w] + 1]
         /\ waiting' = waiting \cup {d}
  /\ Finish(w, "poll")
  /\ UNCHANGED <<channel, mail, callers, order, wake, history>>

RecordFailure(w) ==
  /\ pc[w] = "record" /\ reply[w] = "error"
  /\ LET d == held[w]
     IN  /\ status' = [status EXCEPT ![d] = IF @ = "gone" THEN @
                                            ELSE IF tried[w] + 1 >= MaxAttempts THEN "failed"
                                            ELSE "queued"]
         /\ attempts' = [attempts EXCEPT ![d] = IF status[d] = "gone" THEN @ ELSE tried[w] + 1]
         /\ waiting' = waiting \cup {d}
  /\ Finish(w, "poll")
  /\ UNCHANGED <<channel, mail, callers, order, wake, history>>

\* The UPDATE fails: the row stays 'sending' until the next start, the worker sleeps.
RecordFails(w) ==
  /\ pc[w] = "record"
  /\ doubt' = IF reply[w] = "ok" THEN doubt \cup {held[w]} ELSE doubt
  /\ quiet' = quiet \cup Due
  /\ Finish(w, "parked")
  /\ UNCHANGED <<channel, mail, callers, queue, wake, accepted>>

RetryElapses(d) ==
  /\ d \in waiting /\ status[d] = "queued"
  /\ waiting' = waiting \ {d}
  /\ quiet' = quiet \cup {d}
  /\ UNCHANGED <<channel, mail, callers, status, attempts, order, workers, wake, accepted, doubt>>

------------------------------------------------------------------------------
(* Start and end of the process.                                             *)

\* Interrupted deliveries are queued again, unless that UPDATE fails: its error is ignored.
Start ==
  /\ \A w \in Workers : pc[w] = "off"
  /\ \/ /\ status' = [d \in Deliveries |-> IF status[d] = "sending" THEN "queued" ELSE status[d]]
        /\ waiting' = {d \in waiting : status[d] # "sending"}
     \/ UNCHANGED <<status, waiting>>
  /\ pc' = [w \in Workers |-> "poll"]
  /\ wake' = TRUE
  /\ UNCHANGED <<channel, mail, callers, attempts, order, held, tried, reply, history>>

\* The end of the process, wanted (Close cancels what is running) or not.
Crash ==
  /\ \E w \in Workers : pc[w] # "off"
  /\ unannounced' = {}
  /\ job' = [k \in Callers |-> Nobody]
  /\ remaining' = [k \in Callers |-> {}]
  /\ pc' = [w \in Workers |-> "off"]
  /\ held' = [w \in Workers |-> Nobody]
  /\ tried' = [w \in Workers |-> 0]
  /\ reply' = [w \in Workers |-> "none"]
  /\ wake' = FALSE
  /\ doubt' = doubt \cup {held[w] : w \in {v \in Workers : reply[v] = "ok"}}
  /\ UNCHANGED <<channel, mail, queue, accepted, quiet>>

------------------------------------------------------------------------------
Channel ==
  \E c \in Channels :
    \/ \E value \in {"enabled", "disabled"} : CreateChannel(c, value) \/ UpdateChannel(c, value)
    \/ DeleteChannel(c)
Caller(k) ==
  \/ \E m \in Mails : EnqueueMessage(k, m)
  \/ \E a \in Alerts : EnqueueSystem(k, a)
  \/ \E t \in Tests, c \in Channels : TestChannel(k, t, c)
  \/ \E c \in Channels : InsertDelivery(k, c)
  \/ InsertFails(k) \/ EnqueueReturns(k)
Worker(w) ==
  \/ \E d \in Deliveries : ClaimDelivery(w, d)
  \/ NothingDue(w) \/ ClaimFails(w) \/ Wake(w) \/ Tick(w) \/ Send(w)
  \/ RecordSent(w) \/ RecordFailure(w) \/ RecordFails(w)

Running ==
  \/ Channel
  \/ \E m \in Mails : DeleteMail(m) \/ EnqueueMessageFails(m)
  \/ \E S \in SUBSET Mails : SavePage(S)
  \/ \E k \in Callers : Caller(k)
  \/ \E w \in Workers : Worker(w)
  \/ \E d \in Deliveries : RetryDelivery(d) \/ RetryElapses(d)
  \/ Start

Next == Running \/ Crash

Spec == Init /\ [][Next]_vars

\* Without crashes.  Strong fairness of the claim: the database does not fail for ever.
Fairness ==
  /\ WF_vars(Start)
  /\ \A d \in Deliveries : WF_vars(RetryElapses(d))
  /\ \A w \in Workers :
       /\ SF_vars(\E d \in Deliveries : ClaimDelivery(w, d))
       /\ WF_vars(Tick(w)) /\ WF_vars(Send(w))
       /\ WF_vars(NothingDue(w)) /\ WF_vars(RecordSent(w)) /\ WF_vars(RecordFailure(w))

LiveSpec == Init /\ [][Running]_vars /\ Fairness

------------------------------------------------------------------------------
(* Properties.                                                               *)

\* Every column and every variable of the goroutines has a value of its type; the
\* number of attempts stays within what the administrator asked for.
TypeOK ==
  /\ channel \in [Channels -> {"absent", "enabled", "disabled", "deleted"}]
  /\ mail \in [Mails -> {"absent", "saved", "deleted"}]
  /\ unannounced \subseteq Mails
  /\ job \in [Callers -> Sources \cup {Nobody}]
  /\ remaining \in [Callers -> SUBSET Channels]
  /\ status \in [Deliveries -> Statuses]
  /\ attempts \in [Deliveries -> 0 .. MaxTries]
  /\ waiting \subseteq Deliveries
  /\ order \in Seq(Deliveries)
  /\ pc \in [Workers -> Steps]
  /\ held \in [Workers -> Deliveries \cup {Nobody}]
  /\ tried \in [Workers -> 0 .. MaxTries]
  /\ reply \in [Workers -> {"none", "ok", "error"}]
  /\ wake \in BOOLEAN
  /\ accepted \in [Deliveries -> 0 .. 2]
  /\ doubt \subseteq Deliveries
  /\ quiet \subseteq Deliveries

\* No two workers ever have the same delivery, and what a worker has claimed is marked
\* so in the database unless it was deleted meanwhile: the final UPDATE of processOne,
\* which names only the id, cannot overwrite a row that is somebody else's by now.
ClaimIsExclusive ==
  \A w \in Busy :
    /\ status[held[w]] \in {"sending", "gone"}
    /\ \A v \in Busy \ {w} : held[v] # held[w]

\* A delivery shown as sent was taken by the push service, whatever the workers, the
\* restarts and the retries did in between.
SentWasAccepted == \A d \in Deliveries : status[d] = "sent" => accepted[d] > 0

\* The push service takes a delivery twice only when an earlier success could not be
\* recorded: the answer was lost, the database failed, or the process ended in between.
NoDoubleSend == \A d \in Deliveries : accepted[d] = 2 => d \in doubt

\* When all workers sleep and no wake-up call is pending, each claimable delivery either
\* belongs to a caller that has still to signal, or is one the code leaves to the ticker.
NoLostWakeup ==
  (~wake /\ \A w \in Workers : pc[w] = "parked") =>
    \A d \in Due : d \in quiet \/ \E k \in Callers : job[k] = SourceOf(d)

\* A queued delivery of an enabled channel does not stay queued for ever: it is sent,
\* given up or deleted, its channel is disabled, or its result could not be recorded.
Stranded(d) == status[d] = "sending" /\ \A w \in Busy : held[w] # d
QueuedIsSettled ==
  \A d \in Deliveries :
    (status[d] = "queued" /\ channel[ChannelOf(d)] = "enabled") ~>
      (status[d] \in {"sent", "failed", "gone"} \/ channel[ChannelOf(d)] # "enabled"
         \/ Stranded(d))

\* The abstract promise: queued and sending deliveries are pending, and nothing is
\* delivered that the service has not received, delivered twice over or called back.
PromiseOf(s) ==
  CASE s = "none" -> "absent" [] s \in {"queued", "sending"} -> "pending"
    [] s = "sent" -> "delivered" [] s = "failed" -> "abandoned" [] s = "gone" -> "forgotten"
Promise == INSTANCE NotifyPromise WITH
  promise <- [d \in Deliveries |-> PromiseOf(status[d])],
  received <- {d \in Deliveries : accepted[d] > 0}
KeepsPromise == Promise!Spec
================================================================================
