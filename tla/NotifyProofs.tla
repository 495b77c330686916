------------------------------ MODULE NotifyProofs ------------------------------
(* Theorems about the notification centre, for every number of messages,      *)
(* channels, workers and callers and every attempt limit.                     *)
EXTENDS Notify, TLAPS

\* What a worker holds: a delivery from its claim to its final UPDATE.
HoldsOK ==
  \A w \in Workers :
    /\ w \in Busy => held[w] \in Deliveries
    /\ w \notin Busy => held[w] = Nobody
    /\ pc[w] = "record" <=> reply[w] \in {"ok", "error"}

\* A delivery that may be sent (again) has attempts left.
TriesOK ==
  /\ \A d \in Deliveries : status[d] \in {"none", "queued", "sending"} => attempts[d] < MaxTries
  /\ \A w \in Busy : tried[w] < MaxTries

\* A caller has channels left only while it has a source.
CallersOK == \A k \in Callers : job[k] = Nobody => remaining[k] = {}

\* There are no deliveries to channels that are still to be created.
ChannelsOK ==
  \A d \in Deliveries : channel[ChannelOf(d)] = "absent" => status[d] = "none"

RowsOK == HoldsOK /\ TriesOK /\ CallersOK /\ ChannelsOK /\ ClaimIsExclusive

\* Who knows that the service took d: the row, or the worker about to record it.  A
\* worker that has not been told so holds d untaken, unless d is in doubt.
TallyOK ==
  /\ \A d \in Deliveries \ doubt :
       accepted[d] > 0 =>
         \/ status[d] \in {"sent", "gone"}
         \/ \E w \in Workers : pc[w] = "record" /\ reply[w] = "ok" /\ held[w] = d
  /\ \A w \in Busy : reply[w] # "ok" => accepted[held[w]] = 0 \/ held[w] \in doubt
  /\ \A w \in Workers : reply[w] = "ok" => accepted[held[w]] > 0
  /\ SentWasAccepted /\ NoDoubleSend

IInv == TypeOK /\ RowsOK /\ TallyOK /\ NoLostWakeup

------------------------------------------------------------------------------
(* Each part of the invariant is kept by each action, given the whole of it.   *)

\* A delivery is a source and a channel.
LEMMA DeliveryParts ==
  ASSUME NEW d \in Deliveries
  PROVE  SourceOf(d) \in Sources /\ SourceOf(d) # Nobody /\ ChannelOf(d) \in Channels
BY SourcesAssumption DEF Deliveries, SourceOf, ChannelOf

\* An insertion changes one row, and only where there is none.
LEMMA InsertFacts ==
  ASSUME status \in [Deliveries -> Statuses], order \in Seq(Deliveries),
         NEW d \in Deliveries, Insert(d)
  PROVE  /\ order' \in Seq(Deliveries) /\ status' \in [Deliveries -> Statuses]
         /\ status'[d] = IF status[d] = "none" THEN "queued" ELSE status[d]
         /\ \A e \in Deliveries \ {d} : status'[e] = status[e]
BY DEF Insert, Statuses

\* What insertDelivery does, with d for the delivery: it is of the caller's source, its
\* row is queued if there is none, and all else is left alone.
Inserted(k, c, d) ==
  /\ SourceOf(d) = job[k] /\ ChannelOf(d) = c /\ channel[c] # "absent" /\ job[k] # Nobody
  /\ order' \in Seq(Deliveries) /\ status' \in [Deliveries -> Statuses]
  /\ status'[d] = IF status[d] = "none" THEN "queued" ELSE status[d]
  /\ \A e \in Deliveries \ {d} : status'[e] = status[e]
  /\ remaining' = [remaining EXCEPT ![k] = @ \ {c}]
  /\ UNCHANGED <<channel, mail, unannounced, job, attempts, waiting, pc, held, tried,
                 reply, wake, accepted, doubt, quiet>>

LEMMA InsertedParts ==
  ASSUME IInv, NEW k \in Callers, NEW c \in Channels, InsertDelivery(k, c)
  PROVE  \E d \in Deliveries : Inserted(k, c, d)
<1> DEFINE d == <<job[k], c>>
<1>1. /\ job[k] \in Sources /\ c \in Channels
      /\ status \in [Deliveries -> Statuses] /\ order \in Seq(Deliveries)
  BY DEF IInv, TypeOK, RowsOK, CallersOK, InsertDelivery
<1>2. d \in Deliveries /\ SourceOf(d) = job[k] /\ ChannelOf(d) = c
  BY <1>1 DEF Deliveries, SourceOf, ChannelOf
<1>3. Insert(d)
  BY DEF InsertDelivery
<1>4. /\ channel[c] # "absent" /\ job[k] # Nobody
      /\ remaining' = [remaining EXCEPT ![k] = @ \ {c}]
      /\ UNCHANGED <<channel, mail, unannounced, job, attempts, waiting, pc, held, tried,
                     reply, wake, accepted, doubt, quiet>>
  BY DEF IInv, RowsOK, CallersOK, InsertDelivery, Existing, workers, history
<1>5. QED
  <2> HIDE DEF d
  <2>1. Inserted(k, c, d)
    BY <1>1, <1>2, <1>3, <1>4, InsertFacts DEF Inserted
  <2>2. QED
    BY <1>2, <2>1

\* Every action keeps the types; attempts need TriesOK.
LEMMA TypeStep == ASSUME IInv, Next PROVE TypeOK'
<1> USE SourcesAssumption, TriesAssumption
<1> USE DEF IInv, TypeOK, RowsOK, HoldsOK, TriesOK, CallersOK, ChannelsOK,
            ClaimIsExclusive, Statuses, Steps, Existing, Busy, Begin, Remove, Park,
            Finish, queue, callers, workers, history
<1>1. ASSUME NEW c \in Channels, NEW value \in {"enabled", "disabled"},
             CreateChannel(c, value)
      PROVE  TypeOK'
  BY <1>1 DEF CreateChannel
<1>2. ASSUME NEW c \in Channels, NEW value \in {"enabled", "disabled"},
             UpdateChannel(c, value)
      PROVE  TypeOK'
  BY <1>2 DEF UpdateChannel, Due
<1>3. ASSUME NEW c \in Channels, DeleteChannel(c)
      PROVE  TypeOK'
  BY <1>3 DEF DeleteChannel
<1>4. ASSUME NEW m \in Mails, DeleteMail(m)
      PROVE  TypeOK'
  BY <1>4 DEF DeleteMail
<1>5. ASSUME NEW m \in Mails, EnqueueMessageFails(m)
      PROVE  TypeOK'
  BY <1>5 DEF EnqueueMessageFails
<1>6. ASSUME NEW S \in SUBSET Mails, SavePage(S)
      PROVE  TypeOK'
  BY <1>6 DEF SavePage
<1>7. ASSUME NEW k \in Callers, NEW m \in Mails, EnqueueMessage(k, m)
      PROVE  TypeOK'
  BY <1>7 DEF EnqueueMessage, Sources
<1>8. ASSUME NEW k \in Callers, NEW a \in Alerts, EnqueueSystem(k, a)
      PROVE  TypeOK'
  BY <1>8 DEF EnqueueSystem, Sources
<1>9. ASSUME NEW k \in Callers, NEW t \in Tests, NEW c \in Channels, TestChannel(k, t, c)
      PROVE  TypeOK'
  BY <1>9 DEF TestChannel, Sources
<1>10. ASSUME NEW k \in Callers, NEW c \in Channels, InsertDelivery(k, c)
      PROVE  TypeOK'
  <2>1. PICK d \in Deliveries : Inserted(k, c, d)
    BY <1>10, InsertedParts
  <2>2. QED
    BY <2>1 DEF Inserted
<1>11. ASSUME NEW k \in Callers, InsertFails(k)
      PROVE  TypeOK'
  BY <1>11 DEF InsertFails, Due
<1>12. ASSUME NEW k \in Callers, EnqueueReturns(k)
      PROVE  TypeOK'
  BY <1>12 DEF EnqueueReturns
<1>13. ASSUME NEW w \in Workers, NEW d \in Deliveries, ClaimDelivery(w, d)
      PROVE  TypeOK'
  BY <1>13 DEF ClaimDelivery, FirstDue, Due
<1>14. ASSUME NEW w \in Workers, NothingDue(w)
      PROVE  TypeOK'
  BY <1>14 DEF NothingDue
<1>15. ASSUME NEW w \in Workers, ClaimFails(w)
      PROVE  TypeOK'
  BY <1>15 DEF ClaimFails, Due
<1>16. ASSUME NEW w \in Workers, Wake(w)
      PROVE  TypeOK'
  BY <1>16 DEF Wake
<1>17. ASSUME NEW w \in Workers, Tick(w)
      PROVE  TypeOK'
  BY <1>17 DEF Tick
<1>18. ASSUME NEW w \in Workers, Send(w)
      PROVE  TypeOK'
  BY <1>18 DEF Send
<1>19. ASSUME NEW w \in Workers, RecordSent(w)
      PROVE  TypeOK'
  BY <1>19 DEF RecordSent
<1>20. ASSUME NEW w \in Workers, RecordFailure(w)
      PROVE  TypeOK'
  BY <1>20 DEF RecordFailure
<1>21. ASSUME NEW w \in Workers, RecordFails(w)
      PROVE  TypeOK'
  BY <1>21 DEF RecordFails, Due
<1>22. ASSUME NEW d \in Deliveries, RetryDelivery(d)
      PROVE  TypeOK'
  BY <1>22 DEF RetryDelivery
<1>23. ASSUME NEW d \in Deliveries, RetryElapses(d)
      PROVE  TypeOK'
  BY <1>23 DEF RetryElapses
<1>24. ASSUME Start
      PROVE  TypeOK'
  BY <1>24 DEF Start
<1>25. ASSUME Crash
      PROVE  TypeOK'
  <2>1. \A w \in Workers : reply[w] = "ok" => held[w] \in Deliveries
    OBVIOUS
  <2>2. doubt' \subseteq Deliveries
    BY <1>25, <2>1 DEF Crash
  <2>3. /\ remaining' \in [Callers -> SUBSET Channels] /\ job' \in [Callers -> Sources \cup {Nobody}]
        /\ tried' \in [Workers -> 0 .. MaxTries] /\ held' \in [Workers -> Deliveries \cup {Nobody}]
        /\ pc' \in [Workers -> Steps] /\ reply' \in [Workers -> {"none", "ok", "error"}]
    BY <1>25 DEF Crash
  <2>4. QED
    BY <1>25, <2>2, <2>3 DEF Crash
<1> HIDE SourcesAssumption, TriesAssumption
<1> HIDE DEF IInv, TypeOK, RowsOK, HoldsOK, TriesOK, CallersOK, ChannelsOK,
            ClaimIsExclusive, Statuses, Steps, Existing, Busy, Begin, Remove, Park,
            Finish, queue, callers, workers, history
<1>26. QED
  BY <1>1, <1>2, <1>3, <1>4, <1>5, <1>6, <1>7, <1>8, <1>9, <1>10, <1>11, <1>12, <1>13,
     <1>14, <1>15, <1>16, <1>17, <1>18, <1>19, <1>20, <1>21, <1>22, <1>23, <1>24, <1>25
  DEF Next, Running, Channel, Caller, Worker

\* Every action keeps the claims exclusive and the attempts bounded.
LEMMA RowsStep == ASSUME IInv, Next PROVE RowsOK'
<1> USE SourcesAssumption, TriesAssumption, DeliveryParts
<1> USE DEF IInv, TypeOK, RowsOK, HoldsOK, TriesOK, CallersOK, ChannelsOK,
            ClaimIsExclusive, Statuses, Steps, Existing, Busy, Begin, Remove, Park,
            Finish, queue, callers, workers, history
<1>1. ASSUME NEW c \in Channels, NEW value \in {"enabled", "disabled"},
             CreateChannel(c, value)
      PROVE  RowsOK'
  BY <1>1 DEF CreateChannel
<1>2. ASSUME NEW c \in Channels, NEW value \in {"enabled", "disabled"},
             UpdateChannel(c, value)
      PROVE  RowsOK'
  BY <1>2 DEF UpdateChannel
<1>3. ASSUME NEW c \in Channels, DeleteChannel(c)
      PROVE  RowsOK'
  BY <1>3 DEF DeleteChannel
<1>4. ASSUME NEW m \in Mails, DeleteMail(m)
      PROVE  RowsOK'
  BY <1>4 DEF DeleteMail
<1>5. ASSUME NEW m \in Mails, EnqueueMessageFails(m)
      PROVE  RowsOK'
  BY <1>5 DEF EnqueueMessageFails
<1>6. ASSUME NEW S \in SUBSET Mails, SavePage(S)
      PROVE  RowsOK'
  BY <1>6 DEF SavePage
<1>7. ASSUME NEW k \in Callers, NEW m \in Mails, EnqueueMessage(k, m)
      PROVE  RowsOK'
  BY <1>7 DEF EnqueueMessage, Sources
<1>8. ASSUME NEW k \in Callers, NEW a \in Alerts, EnqueueSystem(k, a)
      PROVE  RowsOK'
  BY <1>8 DEF EnqueueSystem, Sources
<1>9. ASSUME NEW k \in Callers, NEW t \in Tests, NEW c \in Channels, TestChannel(k, t, c)
      PROVE  RowsOK'
  BY <1>9 DEF TestChannel, Sources
<1>10. ASSUME NEW k \in Callers, NEW c \in Channels, InsertDelivery(k, c)
      PROVE  RowsOK'
  <2>1. PICK d \in Deliveries : Inserted(k, c, d)
    BY <1>10, InsertedParts
  <2>2. ClaimIsExclusive'
    <3>1. \A e \in Deliveries : status[e] # "none" => status'[e] = status[e]
      BY <2>1 DEF Inserted
    <3>2. Busy' = Busy /\ held' = held
      BY <2>1 DEF Inserted
    <3>3. \A v \in Busy : held[v] \in Deliveries /\ v \in Workers /\ status[held[v]] # "none"
      OBVIOUS
    <3>4. QED
      <4> HIDE DEF Busy
      <4>1. ClaimIsExclusive
        OBVIOUS
      <4>2. QED
        <5> HIDE DEF IInv
        <5>1. QED BY <3>1, <3>2, <3>3, <4>1
  <2>3. HoldsOK'
    BY <2>1 DEF Inserted
  <2>4. TriesOK'
    BY <2>1 DEF Inserted
  <2>5. CallersOK' /\ ChannelsOK'
    BY <2>1 DEF Inserted
  <2>6. QED
    BY <2>2, <2>3, <2>4, <2>5
<1>11. ASSUME NEW k \in Callers, InsertFails(k)
      PROVE  RowsOK'
  BY <1>11 DEF InsertFails
<1>12. ASSUME NEW k \in Callers, EnqueueReturns(k)
      PROVE  RowsOK'
  BY <1>12 DEF EnqueueReturns
<1>13. ASSUME NEW w \in Workers, NEW d \in Deliveries, ClaimDelivery(w, d)
      PROVE  RowsOK'
  <2>1. status[d] = "queued" /\ d # Nobody
    BY <1>13 DEF ClaimDelivery, FirstDue, Due
  <2>2. \A v \in Busy : held[v] # d /\ v # w
    BY <1>13, <2>1 DEF ClaimDelivery
  <2>3. Busy' = Busy \cup {w} /\ held' = [held EXCEPT ![w] = d] /\ status' = [status EXCEPT ![d] = "sending"]
    BY <1>13 DEF ClaimDelivery
  <2>4. ClaimIsExclusive'
    BY <2>1, <2>2, <2>3, <1>13
  <2>5. HoldsOK' /\ TriesOK' /\ CallersOK' /\ ChannelsOK'
    BY <1>13, <2>1 DEF ClaimDelivery
  <2>6. QED
    BY <2>4, <2>5
<1>14. ASSUME NEW w \in Workers, NothingDue(w)
      PROVE  RowsOK'
  BY <1>14 DEF NothingDue
<1>15. ASSUME NEW w \in Workers, ClaimFails(w)
      PROVE  RowsOK'
  BY <1>15 DEF ClaimFails
<1>16. ASSUME NEW w \in Workers, Wake(w)
      PROVE  RowsOK'
  BY <1>16 DEF Wake
<1>17. ASSUME NEW w \in Workers, Tick(w)
      PROVE  RowsOK'
  BY <1>17 DEF Tick
<1>18. ASSUME NEW w \in Workers, Send(w)
      PROVE  RowsOK'
  BY <1>18 DEF Send
<1>19. ASSUME NEW w \in Workers, RecordSent(w)
      PROVE  RowsOK'
  BY <1>19 DEF RecordSent
<1>20. ASSUME NEW w \in Workers, RecordFailure(w)
      PROVE  RowsOK'
  BY <1>20 DEF RecordFailure
<1>21. ASSUME NEW w \in Workers, RecordFails(w)
      PROVE  RowsOK'
  BY <1>21 DEF RecordFails
<1>22. ASSUME NEW d \in Deliveries, RetryDelivery(d)
      PROVE  RowsOK'
  BY <1>22 DEF RetryDelivery
<1>23. ASSUME NEW d \in Deliveries, RetryElapses(d)
      PROVE  RowsOK'
  BY <1>23 DEF RetryElapses
<1>24. ASSUME Start
      PROVE  RowsOK'
  BY <1>24 DEF Start
<1>25. ASSUME Crash
      PROVE  RowsOK'
  BY <1>25 DEF Crash
<1> HIDE SourcesAssumption, TriesAssumption, DeliveryParts
<1> HIDE DEF IInv, TypeOK, RowsOK, HoldsOK, TriesOK, CallersOK, ChannelsOK,
            ClaimIsExclusive, Statuses, Steps, Existing, Busy, Begin, Remove, Park,
            Finish, queue, callers, workers, history
<1>26. QED
  BY <1>1, <1>2, <1>3, <1>4, <1>5, <1>6, <1>7, <1>8, <1>9, <1>10, <1>11, <1>12, <1>13,
     <1>14, <1>15, <1>16, <1>17, <1>18, <1>19, <1>20, <1>21, <1>22, <1>23, <1>24, <1>25
  DEF Next, Running, Channel, Caller, Worker

\* Every action keeps the tally of what the push service took.
LEMMA TallyStep == ASSUME IInv, Next PROVE TallyOK'
<1> USE SourcesAssumption
<1> USE DEF IInv, TypeOK, RowsOK, HoldsOK, ClaimIsExclusive, Busy, Statuses, Steps,
            TallyOK, SentWasAccepted, NoDoubleSend, Begin, Remove, Park, Finish, queue,
            callers, workers, history
<1>1. ASSUME NEW c \in Channels, NEW value \in {"enabled", "disabled"},
             CreateChannel(c, value)
      PROVE  TallyOK'
  BY <1>1 DEF CreateChannel
<1>2. ASSUME NEW c \in Channels, NEW value \in {"enabled", "disabled"},
             UpdateChannel(c, value)
      PROVE  TallyOK'
  BY <1>2 DEF UpdateChannel
<1>3. ASSUME NEW c \in Channels, DeleteChannel(c)
      PROVE  TallyOK'
  BY <1>3 DEF DeleteChannel
<1>4. ASSUME NEW m \in Mails, DeleteMail(m)
      PROVE  TallyOK'
  BY <1>4 DEF DeleteMail
<1>5. ASSUME NEW m \in Mails, EnqueueMessageFails(m)
      PROVE  TallyOK'
  BY <1>5 DEF EnqueueMessageFails
<1>6. ASSUME NEW S \in SUBSET Mails, SavePage(S)
      PROVE  TallyOK'
  BY <1>6 DEF SavePage
<1>7. ASSUME NEW k \in Callers, NEW m \in Mails, EnqueueMessage(k, m)
      PROVE  TallyOK'
  BY <1>7 DEF EnqueueMessage
<1>8. ASSUME NEW k \in Callers, NEW a \in Alerts, EnqueueSystem(k, a)
      PROVE  TallyOK'
  BY <1>8 DEF EnqueueSystem
<1>9. ASSUME NEW k \in Callers, NEW t \in Tests, NEW c \in Channels, TestChannel(k, t, c)
      PROVE  TallyOK'
  BY <1>9 DEF TestChannel
<1>10. ASSUME NEW k \in Callers, NEW c \in Channels, InsertDelivery(k, c)
      PROVE  TallyOK'
  <2>1. PICK d \in Deliveries : Inserted(k, c, d)
    BY <1>10, InsertedParts
  <2>2. \A e \in Deliveries : status'[e] # status[e] => status[e] = "none" /\ status'[e] = "queued"
    BY <2>1 DEF Inserted
  <2>3. UNCHANGED <<pc, held, reply, accepted, doubt>>
    BY <2>1 DEF Inserted
  <2>4. SentWasAccepted' /\ NoDoubleSend'
    BY <2>2, <2>3
  <2>5. \A e \in Deliveries \ doubt' :
          accepted'[e] > 0 =>
            \/ status'[e] \in {"sent", "gone"}
            \/ \E w \in Workers : pc'[w] = "record" /\ reply'[w] = "ok" /\ held'[w] = e
    <3> TAKE e \in Deliveries \ doubt'
    <3> HAVE accepted'[e] > 0
    <3>1. CASE status[e] \in {"sent", "gone"}
      BY <3>1, <2>2
    <3>2. CASE \E w \in Workers : pc[w] = "record" /\ reply[w] = "ok" /\ held[w] = e
      BY <3>2, <2>3
    <3>3. QED
      BY <3>1, <3>2, <2>3
  <2>6. /\ \A w \in Busy' : reply'[w] # "ok" => accepted'[held'[w]] = 0 \/ held'[w] \in doubt'
        /\ \A w \in Workers : reply'[w] = "ok" => accepted'[held'[w]] > 0
    BY <2>3
  <2>7. QED
    BY <2>4, <2>5, <2>6 DEF TallyOK
<1>11. ASSUME NEW k \in Callers, InsertFails(k)
      PROVE  TallyOK'
  BY <1>11 DEF InsertFails
<1>12. ASSUME NEW k \in Callers, EnqueueReturns(k)
      PROVE  TallyOK'
  BY <1>12 DEF EnqueueReturns
<1>13. ASSUME NEW w \in Workers, NEW d \in Deliveries, ClaimDelivery(w, d)
      PROVE  TallyOK'
  BY <1>13 DEF ClaimDelivery, FirstDue, Due
<1>14. ASSUME NEW w \in Workers, NothingDue(w)
      PROVE  TallyOK'
  BY <1>14 DEF NothingDue
<1>15. ASSUME NEW w \in Workers, ClaimFails(w)
      PROVE  TallyOK'
  BY <1>15 DEF ClaimFails
<1>16. ASSUME NEW w \in Workers, Wake(w)
      PROVE  TallyOK'
  BY <1>16 DEF Wake
<1>17. ASSUME NEW w \in Workers, Tick(w)
      PROVE  TallyOK'
  BY <1>17 DEF Tick
<1>18. ASSUME NEW w \in Workers, Send(w)
      PROVE  TallyOK'
  BY <1>18 DEF Send
<1>19. ASSUME NEW w \in Workers, RecordSent(w)
      PROVE  TallyOK'
  BY <1>19 DEF RecordSent
<1>20. ASSUME NEW w \in Workers, RecordFailure(w)
      PROVE  TallyOK'
  BY <1>20 DEF RecordFailure
<1>21. ASSUME NEW w \in Workers, RecordFails(w)
      PROVE  TallyOK'
  BY <1>21 DEF RecordFails
<1>22. ASSUME NEW d \in Deliveries, RetryDelivery(d)
      PROVE  TallyOK'
  BY <1>22 DEF RetryDelivery
<1>23. ASSUME NEW d \in Deliveries, RetryElapses(d)
      PROVE  TallyOK'
  BY <1>23 DEF RetryElapses
<1>24. ASSUME Start
      PROVE  TallyOK'
  <2>1. \A w \in Workers : pc[w] = "off" /\ held'[w] = held[w] /\ reply'[w] = reply[w]
    BY <1>24 DEF Start
  <2>2. \A d \in Deliveries : status'[d] # status[d] => status[d] = "sending" /\ status'[d] = "queued"
    BY <1>24 DEF Start
  <2>3. accepted' = accepted /\ doubt' = doubt /\ \A w \in Workers : pc'[w] = "poll"
    BY <1>24 DEF Start
  <2>4. QED
    BY <2>1, <2>2, <2>3
<1>25. ASSUME Crash
      PROVE  TallyOK'
  BY <1>25 DEF Crash
<1> HIDE SourcesAssumption
<1> HIDE DEF IInv, TypeOK, RowsOK, HoldsOK, ClaimIsExclusive, Busy, Statuses, Steps,
            TallyOK, SentWasAccepted, NoDoubleSend, Begin, Remove, Park, Finish, queue,
            callers, workers, history
<1>26. QED
  BY <1>1, <1>2, <1>3, <1>4, <1>5, <1>6, <1>7, <1>8, <1>9, <1>10, <1>11, <1>12, <1>13,
     <1>14, <1>15, <1>16, <1>17, <1>18, <1>19, <1>20, <1>21, <1>22, <1>23, <1>24, <1>25
  DEF Next, Running, Channel, Caller, Worker

\* Every action leaves a wake-up call, an awake worker or a known reason.
LEMMA WakeStep == ASSUME IInv, Next PROVE NoLostWakeup'
<1> USE SourcesAssumption, DeliveryParts
<1> USE DEF IInv, TypeOK, NoLostWakeup, Due, Existing, Begin, Remove, Park, Finish,
            RowsOK, CallersOK, HoldsOK, ChannelsOK, Steps, queue, callers, workers,
            history
<1>1. ASSUME NEW c \in Channels, NEW value \in {"enabled", "disabled"},
             CreateChannel(c, value)
      PROVE  NoLostWakeup'
  BY <1>1 DEF CreateChannel
<1>2. ASSUME NEW c \in Channels, NEW value \in {"enabled", "disabled"},
             UpdateChannel(c, value)
      PROVE  NoLostWakeup'
  BY <1>2 DEF UpdateChannel
<1>3. ASSUME NEW c \in Channels, DeleteChannel(c)
      PROVE  NoLostWakeup'
  BY <1>3 DEF DeleteChannel
<1>4. ASSUME NEW m \in Mails, DeleteMail(m)
      PROVE  NoLostWakeup'
  BY <1>4 DEF DeleteMail
<1>5. ASSUME NEW m \in Mails, EnqueueMessageFails(m)
      PROVE  NoLostWakeup'
  BY <1>5 DEF EnqueueMessageFails
<1>6. ASSUME NEW S \in SUBSET Mails, SavePage(S)
      PROVE  NoLostWakeup'
  BY <1>6 DEF SavePage
<1>7. ASSUME NEW k \in Callers, NEW m \in Mails, EnqueueMessage(k, m)
      PROVE  NoLostWakeup'
  BY <1>7 DEF EnqueueMessage
<1>8. ASSUME NEW k \in Callers, NEW a \in Alerts, EnqueueSystem(k, a)
      PROVE  NoLostWakeup'
  BY <1>8 DEF EnqueueSystem
<1>9. ASSUME NEW k \in Callers, NEW t \in Tests, NEW c \in Channels, TestChannel(k, t, c)
      PROVE  NoLostWakeup'
  BY <1>9 DEF TestChannel
<1>10. ASSUME NEW k \in Callers, NEW c \in Channels, InsertDelivery(k, c)
      PROVE  NoLostWakeup'
  <2>1. PICK d \in Deliveries : Inserted(k, c, d)
    BY <1>10, InsertedParts
  <2>2. QED
    BY <2>1 DEF Inserted
<1>11. ASSUME NEW k \in Callers, InsertFails(k)
      PROVE  NoLostWakeup'
  BY <1>11 DEF InsertFails
<1>12. ASSUME NEW k \in Callers, EnqueueReturns(k)
      PROVE  NoLostWakeup'
  BY <1>12 DEF EnqueueReturns
<1>13. ASSUME NEW w \in Workers, NEW d \in Deliveries, ClaimDelivery(w, d)
      PROVE  NoLostWakeup'
  BY <1>13 DEF ClaimDelivery
<1>14. ASSUME NEW w \in Workers, NothingDue(w)
      PROVE  NoLostWakeup'
  BY <1>14 DEF NothingDue
<1>15. ASSUME NEW w \in Workers, ClaimFails(w)
      PROVE  NoLostWakeup'
  BY <1>15 DEF ClaimFails
<1>16. ASSUME NEW w \in Workers, Wake(w)
      PROVE  NoLostWakeup'
  BY <1>16 DEF Wake
<1>17. ASSUME NEW w \in Workers, Tick(w)
      PROVE  NoLostWakeup'
  BY <1>17 DEF Tick
<1>18. ASSUME NEW w \in Workers, Send(w)
      PROVE  NoLostWakeup'
  BY <1>18 DEF Send
<1>19. ASSUME NEW w \in Workers, RecordSent(w)
      PROVE  NoLostWakeup'
  BY <1>19 DEF RecordSent
<1>20. ASSUME NEW w \in Workers, RecordFailure(w)
      PROVE  NoLostWakeup'
  BY <1>20 DEF RecordFailure
<1>21. ASSUME NEW w \in Workers, RecordFails(w)
      PROVE  NoLostWakeup'
  BY <1>21 DEF RecordFails
<1>22. ASSUME NEW d \in Deliveries, RetryDelivery(d)
      PROVE  NoLostWakeup'
  BY <1>22 DEF RetryDelivery
<1>23. ASSUME NEW d \in Deliveries, RetryElapses(d)
      PROVE  NoLostWakeup'
  BY <1>23 DEF RetryElapses
<1>24. ASSUME Start
      PROVE  NoLostWakeup'
  BY <1>24 DEF Start
<1>25. ASSUME Crash
      PROVE  NoLostWakeup'
  BY <1>25 DEF Crash
<1> HIDE SourcesAssumption, DeliveryParts
<1> HIDE DEF IInv, TypeOK, NoLostWakeup, Due, Existing, Begin, Remove, Park, Finish,
            RowsOK, CallersOK, HoldsOK, ChannelsOK, Steps, queue, callers, workers,
            history
<1>26. QED
  BY <1>1, <1>2, <1>3, <1>4, <1>5, <1>6, <1>7, <1>8, <1>9, <1>10, <1>11, <1>12, <1>13,
     <1>14, <1>15, <1>16, <1>17, <1>18, <1>19, <1>20, <1>21, <1>22, <1>23, <1>24, <1>25
  DEF Next, Running, Channel, Caller, Worker


------------------------------------------------------------------------------
(* The refinement: every step of the queue is a step of the promise, or none.  *)

\* Each status stands for one stage of the promise.
LEMMA PromiseFacts ==
  /\ PromiseOf("none") = "absent" /\ PromiseOf("queued") = "pending"
  /\ PromiseOf("sending") = "pending" /\ PromiseOf("sent") = "delivered"
  /\ PromiseOf("failed") = "abandoned" /\ PromiseOf("gone") = "forgotten"
BY DEF PromiseOf

\* A step that changes the stage of one delivery is one of the function of stages.
LEMMA Becomes ==
  ASSUME NEW d \in Deliveries, NEW stage, PromiseOf(status'[d]) = stage,
         \A e \in Deliveries \ {d} : status'[e] = status[e]
  PROVE  [e \in Deliveries |-> PromiseOf(status'[e])] =
           [[e \in Deliveries |-> PromiseOf(status[e])] EXCEPT ![d] = stage]
OBVIOUS

\* A step of the rows from S to "gone" is Forget, whatever deleted them.
LEMMA RemoveForgets ==
  ASSUME TypeOK, NEW S, Remove(S), accepted' = accepted
  PROVE  \E F \in SUBSET Deliveries : Promise!Forget(F)
<1> DEFINE F == {d \in Deliveries : d \in S /\ status[d] # "none"}
<1>1. \A d \in F : PromiseOf(status[d]) # "absent"
  BY PromiseFacts DEF TypeOK, Statuses
<1>2. \A d \in Deliveries : status'[d] = IF d \in F THEN "gone" ELSE status[d]
  BY DEF Remove
<1>3. Promise!Forget(F)
  BY <1>1, <1>2, PromiseFacts DEF Promise!Forget
<1>4. QED
  BY <1>3

\* Every action is one of the promise, or leaves its stage as it is.
LEMMA PromiseStep == ASSUME IInv, Next PROVE [Promise!Next]_(Promise!pvars)
<1> USE DEF IInv, TypeOK, RowsOK, HoldsOK, ClaimIsExclusive, TallyOK, Busy, Finish,
            Begin, Park, queue, callers, workers, history
<1>1. ASSUME NEW c \in Channels, NEW value \in {"enabled", "disabled"},
             CreateChannel(c, value)
      PROVE  [Promise!Next]_(Promise!pvars)
  <2>1. UNCHANGED <<status, accepted>>
    BY <1>1 DEF CreateChannel
  <2>2. QED
    BY <2>1 DEF Promise!pvars
<1>2. ASSUME NEW c \in Channels, NEW value \in {"enabled", "disabled"},
             UpdateChannel(c, value)
      PROVE  [Promise!Next]_(Promise!pvars)
  <2>1. UNCHANGED <<status, accepted>>
    BY <1>2 DEF UpdateChannel
  <2>2. QED
    BY <2>1 DEF Promise!pvars
<1>3. ASSUME NEW c \in Channels, DeleteChannel(c)
      PROVE  [Promise!Next]_(Promise!pvars)
  <2>1. \E F \in SUBSET Deliveries : Promise!Forget(F)
    BY <1>3, RemoveForgets DEF DeleteChannel
  <2>2. QED
    BY <2>1 DEF Promise!Next
<1>4. ASSUME NEW m \in Mails, DeleteMail(m)
      PROVE  [Promise!Next]_(Promise!pvars)
  <2>1. \E F \in SUBSET Deliveries : Promise!Forget(F)
    BY <1>4, RemoveForgets DEF DeleteMail
  <2>2. QED
    BY <2>1 DEF Promise!Next
<1>5. ASSUME NEW m \in Mails, EnqueueMessageFails(m)
      PROVE  [Promise!Next]_(Promise!pvars)
  <2>1. UNCHANGED <<status, accepted>>
    BY <1>5 DEF EnqueueMessageFails
  <2>2. QED
    BY <2>1 DEF Promise!pvars
<1>6. ASSUME NEW S \in SUBSET Mails, SavePage(S)
      PROVE  [Promise!Next]_(Promise!pvars)
  <2>1. UNCHANGED <<status, accepted>>
    BY <1>6 DEF SavePage
  <2>2. QED
    BY <2>1 DEF Promise!pvars
<1>7. ASSUME NEW k \in Callers, NEW m \in Mails, EnqueueMessage(k, m)
      PROVE  [Promise!Next]_(Promise!pvars)
  <2>1. UNCHANGED <<status, accepted>>
    BY <1>7 DEF EnqueueMessage
  <2>2. QED
    BY <2>1 DEF Promise!pvars
<1>8. ASSUME NEW k \in Callers, NEW a \in Alerts, EnqueueSystem(k, a)
      PROVE  [Promise!Next]_(Promise!pvars)
  <2>1. UNCHANGED <<status, accepted>>
    BY <1>8 DEF EnqueueSystem
  <2>2. QED
    BY <2>1 DEF Promise!pvars
<1>9. ASSUME NEW k \in Callers, NEW t \in Tests, NEW c \in Channels, TestChannel(k, t, c)
      PROVE  [Promise!Next]_(Promise!pvars)
  <2>1. UNCHANGED <<status, accepted>>
    BY <1>9 DEF TestChannel
  <2>2. QED
    BY <2>1 DEF Promise!pvars
<1>10. ASSUME NEW k \in Callers, NEW c \in Channels, InsertDelivery(k, c)
      PROVE  [Promise!Next]_(Promise!pvars)
  <2>1. PICK d \in Deliveries : Inserted(k, c, d)
    BY <1>10, InsertedParts
  <2> USE DEF Inserted
  <2> HIDE DEF IInv
  <2>2. CASE status[d] = "none"
    <3>1. PromiseOf(status[d]) = "absent" /\ PromiseOf(status'[d]) = "pending"
      BY <2>1, <2>2, PromiseFacts
    <3>2. Promise!Accept(d)
      BY <2>1, <3>1, Becomes DEF Promise!Accept, Promise!Become
    <3>3. QED
      BY <2>1, <3>2 DEF Promise!Next
  <2>3. CASE status[d] # "none"
    <3>1. \A e \in Deliveries : status'[e] = status[e]
      BY <2>1, <2>3
    <3>2. QED
      BY <2>1, <3>1 DEF Promise!pvars
  <2>4. QED
    BY <2>2, <2>3
<1>11. ASSUME NEW k \in Callers, InsertFails(k)
      PROVE  [Promise!Next]_(Promise!pvars)
  <2>1. UNCHANGED <<status, accepted>>
    BY <1>11 DEF InsertFails
  <2>2. QED
    BY <2>1 DEF Promise!pvars
<1>12. ASSUME NEW k \in Callers, EnqueueReturns(k)
      PROVE  [Promise!Next]_(Promise!pvars)
  <2>1. UNCHANGED <<status, accepted>>
    BY <1>12 DEF EnqueueReturns
  <2>2. QED
    BY <2>1 DEF Promise!pvars
<1>13. ASSUME NEW w \in Workers, NEW d \in Deliveries, ClaimDelivery(w, d)
      PROVE  [Promise!Next]_(Promise!pvars)
  <2>1. \A e \in Deliveries : PromiseOf(status'[e]) = PromiseOf(status[e])
    BY <1>13, PromiseFacts DEF ClaimDelivery, FirstDue, Due
  <2>2. accepted' = accepted
    BY <1>13 DEF ClaimDelivery, FirstDue, Due
  <2>3. QED
    BY <2>1, <2>2 DEF Promise!pvars
<1>14. ASSUME NEW w \in Workers, NothingDue(w)
      PROVE  [Promise!Next]_(Promise!pvars)
  <2>1. UNCHANGED <<status, accepted>>
    BY <1>14 DEF NothingDue
  <2>2. QED
    BY <2>1 DEF Promise!pvars
<1>15. ASSUME NEW w \in Workers, ClaimFails(w)
      PROVE  [Promise!Next]_(Promise!pvars)
  <2>1. UNCHANGED <<status, accepted>>
    BY <1>15 DEF ClaimFails
  <2>2. QED
    BY <2>1 DEF Promise!pvars
<1>16. ASSUME NEW w \in Workers, Wake(w)
      PROVE  [Promise!Next]_(Promise!pvars)
  <2>1. UNCHANGED <<status, accepted>>
    BY <1>16 DEF Wake
  <2>2. QED
    BY <2>1 DEF Promise!pvars
<1>17. ASSUME NEW w \in Workers, Tick(w)
      PROVE  [Promise!Next]_(Promise!pvars)
  <2>1. UNCHANGED <<status, accepted>>
    BY <1>17 DEF Tick
  <2>2. QED
    BY <2>1 DEF Promise!pvars
<1>18. ASSUME NEW w \in Workers, Send(w)
      PROVE  [Promise!Next]_(Promise!pvars)
  <2>1. PICK d \in Deliveries :
          /\ d = held[w] /\ status[d] \in {"sending", "gone"}
          /\ accepted \in [Deliveries -> 0 .. 2]
    BY <1>18 DEF Send
  <2>2. UNCHANGED status
    BY <1>18 DEF Send
  <2> HIDE DEF IInv
  <2>3. CASE accepted' = accepted
    BY <2>2, <2>3 DEF Promise!pvars
  <2>4. CASE accepted' # accepted
    <3>1. accepted' = [accepted EXCEPT ![d] = accepted[d] + 1]
      BY <1>18, <2>1, <2>4 DEF Send
    <3>2. accepted'[d] > 0 /\ \A e \in Deliveries \ {d} : accepted'[e] = accepted[e]
      BY <2>1, <3>1
    <3>3. PromiseOf(status[d]) \in {"pending", "forgotten"}
      BY <2>1, PromiseFacts
    <3>4. {e \in Deliveries : accepted'[e] > 0} = {e \in Deliveries : accepted[e] > 0} \cup {d}
      BY <2>1, <3>2
    <3>5. Promise!Receive(d)
      BY <2>1, <2>2, <3>3, <3>4 DEF Promise!Receive
    <3>6. Promise!Next
      BY <3>5 DEF Promise!Next
    <3>7. QED
      BY <3>6
  <2>5. QED
    BY <2>3, <2>4
<1>19. ASSUME NEW w \in Workers, RecordSent(w)
      PROVE  [Promise!Next]_(Promise!pvars)
  <2> DEFINE d == held[w]
  <2>1. d \in Deliveries /\ status[d] \in {"sending", "gone"}
    BY <1>19 DEF RecordSent
  <2>2. accepted' = accepted
    BY <1>19 DEF RecordSent
  <2>3. \A e \in Deliveries \ {d} : status'[e] = status[e]
    BY <1>19, <2>1 DEF RecordSent
  <2>4. CASE status[d] = "sending"
    <3>1. status' = [status EXCEPT ![d] = "sent"] /\ accepted[d] > 0
      BY <1>19, <2>1, <2>4 DEF RecordSent
    <3>2. Promise!Deliver(d)
      BY <2>1, <2>2, <2>4, <3>1, PromiseFacts DEF Promise!Deliver, Promise!Become
    <3>3. QED
      BY <2>1, <3>2 DEF Promise!Next
  <2>5. CASE status[d] = "gone"
    <3>1. status' = status
      BY <1>19, <2>1, <2>5 DEF RecordSent
    <3>2. QED
      BY <2>2, <3>1 DEF Promise!pvars
  <2>6. QED
    BY <2>1, <2>4, <2>5
<1>20. ASSUME NEW w \in Workers, RecordFailure(w)
      PROVE  [Promise!Next]_(Promise!pvars)
  <2> DEFINE d == held[w]
  <2>1. d \in Deliveries /\ status[d] \in {"sending", "gone"}
    BY <1>20 DEF RecordFailure
  <2>2. accepted' = accepted
    BY <1>20 DEF RecordFailure
  <2>3. \A e \in Deliveries \ {d} : status'[e] = status[e]
    BY <1>20, <2>1 DEF RecordFailure
  <2>4. CASE status'[d] = "failed" /\ status[d] = "sending"
    <3>0. PromiseOf(status[d]) = "pending" /\ PromiseOf(status'[d]) = "abandoned"
      BY <2>1, <2>4, PromiseFacts
    <3> HIDE DEF IInv, d
    <3>1. Promise!Abandon(d)
      BY <2>1, <2>2, <2>3, <3>0, Becomes DEF Promise!Abandon, Promise!Become
    <3>2. QED
      BY <2>1, <3>1 DEF Promise!Next
  <2>5. CASE ~(status'[d] = "failed" /\ status[d] = "sending")
    <3>1. PromiseOf(status'[d]) = PromiseOf(status[d])
      BY <1>20, <2>1, <2>5, PromiseFacts DEF RecordFailure
    <3>2. \A e \in Deliveries : PromiseOf(status'[e]) = PromiseOf(status[e])
      BY <2>3, <3>1
    <3>3. QED
      BY <2>2, <3>2 DEF Promise!pvars
  <2>6. QED
    BY <2>4, <2>5
<1>21. ASSUME NEW w \in Workers, RecordFails(w)
      PROVE  [Promise!Next]_(Promise!pvars)
  <2>1. UNCHANGED <<status, accepted>>
    BY <1>21 DEF RecordFails
  <2>2. QED
    BY <2>1 DEF Promise!pvars
<1>22. ASSUME NEW d \in Deliveries, RetryDelivery(d)
      PROVE  [Promise!Next]_(Promise!pvars)
  <2>1. Promise!Revive(d)
    BY <1>22, PromiseFacts DEF RetryDelivery, Promise!Revive, Promise!Become
  <2>2. QED
    BY <2>1 DEF Promise!Next
<1>23. ASSUME NEW d \in Deliveries, RetryElapses(d)
      PROVE  [Promise!Next]_(Promise!pvars)
  <2>1. UNCHANGED <<status, accepted>>
    BY <1>23 DEF RetryElapses
  <2>2. QED
    BY <2>1 DEF Promise!pvars
<1>24. ASSUME Start
      PROVE  [Promise!Next]_(Promise!pvars)
  <2>1. \A e \in Deliveries : PromiseOf(status'[e]) = PromiseOf(status[e])
    BY <1>24, PromiseFacts DEF Start
  <2>2. accepted' = accepted
    BY <1>24 DEF Start
  <2>3. QED
    BY <2>1, <2>2 DEF Promise!pvars
<1>25. ASSUME Crash
      PROVE  [Promise!Next]_(Promise!pvars)
  <2>1. UNCHANGED <<status, accepted>>
    BY <1>25 DEF Crash
  <2>2. QED
    BY <2>1 DEF Promise!pvars
<1> HIDE DEF IInv, TypeOK, RowsOK, HoldsOK, ClaimIsExclusive, TallyOK, Busy, Finish,
            Begin, Park, queue, callers, workers, history
<1>26. QED
  BY <1>1, <1>2, <1>3, <1>4, <1>5, <1>6, <1>7, <1>8, <1>9, <1>10, <1>11, <1>12, <1>13,
     <1>14, <1>15, <1>16, <1>17, <1>18, <1>19, <1>20, <1>21, <1>22, <1>23, <1>24, <1>25
  DEF Next, Running, Channel, Caller, Worker

------------------------------------------------------------------------------
(* The theorems.                                                              *)

\* Nothing is queued, claimed or taken at first.
LEMMA InitIInv == Init => IInv
<1> SUFFICES ASSUME Init PROVE IInv
  OBVIOUS
<1> USE SourcesAssumption, TriesAssumption
<1>1. TypeOK
  <2>1. order \in Seq(Deliveries) /\ 0 \in 0 .. MaxTries
    BY DEF Init
  <2>2. /\ attempts \in [Deliveries -> 0 .. MaxTries] /\ tried \in [Workers -> 0 .. MaxTries]
        /\ remaining \in [Callers -> SUBSET Channels] /\ accepted \in [Deliveries -> 0 .. 2]
    BY <2>1 DEF Init
  <2>3. /\ job \in [Callers -> Sources \cup {Nobody}] /\ status \in [Deliveries -> Statuses]
        /\ pc \in [Workers -> Steps] /\ held \in [Workers -> Deliveries \cup {Nobody}]
    BY DEF Init, Statuses, Steps
  <2>4. QED
    BY <2>1, <2>2, <2>3 DEF Init, TypeOK
<1>2. RowsOK
  BY DeliveryParts DEF Init, RowsOK, HoldsOK, TriesOK, CallersOK, ChannelsOK, ClaimIsExclusive, Busy
<1>3. TallyOK /\ NoLostWakeup
  BY DEF Init, TallyOK, SentWasAccepted, NoDoubleSend, NoLostWakeup, Due, Busy
<1>4. QED
  BY <1>1, <1>2, <1>3 DEF IInv

\* A step that changes no variable keeps the invariant.
LEMMA StutterIInv == IInv /\ UNCHANGED vars => IInv'
BY DEF vars, IInv, TypeOK, RowsOK, HoldsOK, TriesOK, CallersOK, ChannelsOK, ClaimIsExclusive, Busy,
       TallyOK, SentWasAccepted, NoDoubleSend, NoLostWakeup, Due

\* The inductive invariant holds in every reachable state.
THEOREM Invariance == Spec => []IInv
<1>1. IInv /\ [Next]_vars => IInv'
  BY TypeStep, RowsStep, TallyStep, WakeStep, StutterIInv DEF IInv
<1>2. QED
  BY InitIInv, <1>1, PTL DEF Spec

\* Types, and attempts within MaxTries, for every number of workers and channels.
THEOREM TypeCorrect == Spec => []TypeOK
BY Invariance, PTL DEF IInv

\* Two workers never process the same delivery.
THEOREM ClaimsAreExclusive == Spec => []ClaimIsExclusive
BY Invariance, PTL DEF IInv, RowsOK

\* What is shown as sent was taken by the push service.
THEOREM SentIsTrue == Spec => []SentWasAccepted
BY Invariance, PTL DEF IInv, TallyOK

\* A second sending has a lost result behind it, with any number of restarts and retries.
THEOREM DoubleSendsAreExplained == Spec => []NoDoubleSend
BY Invariance, PTL DEF IInv, TallyOK

\* A wake channel of capacity one is enough for any number of workers and callers.
THEOREM WakeupsAreNotLost == Spec => []NoLostWakeup
BY Invariance, PTL DEF IInv

\* The delivery queue implements the promise of NotifyPromise.
THEOREM PromiseIsKept == Spec => KeepsPromise
<1>1. Init => Promise!Init
  BY PromiseFacts DEF Init, Promise!Init
<1>2. IInv /\ [Next]_vars => [Promise!Next]_(Promise!pvars)
  <2>1. ASSUME UNCHANGED vars PROVE UNCHANGED Promise!pvars
    BY <2>1 DEF vars, Promise!pvars
  <2>2. QED
    BY PromiseStep, <2>1
<1>3. QED
  BY <1>1, <1>2, Invariance, PTL DEF Spec, KeepsPromise, Promise!Spec
================================================================================
