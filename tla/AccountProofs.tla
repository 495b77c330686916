---------------------------- MODULE AccountProofs ----------------------------
(* Theorems about an account and its token, for every number of checkers and *)
(* of tokens, and every threshold.                                           *)
EXTENDS Account, TLAPS

\* A version number read earlier is one the row had; no later one exists.
Past(v) == status # "deleted" => v <= token.version

\* The columns that belong together.
RowsOK ==
  /\ status = "deleted" => token = NoToken
  /\ Past(grants)
  /\ NewestGrantWins /\ ~late
  /\ StatusMatchesToken /\ DegradedHasCause

\* What user p may rely on, whatever the others did since it read the rows.
Known(p) ==
  /\ pc[p] \in Locked => lock = p
  /\ pc[p] \in Locked \ {"retrying"} => loaded[p].status \in {"active", "degraded"}
  /\ pc[p] \notin Locked \ {"retrying"} => loaded[p] = NoLoad
  /\ Past(loaded[p].token.version)
  /\ Current(loaded[p].token.version) => loaded[p].token.grant = token.grant
  /\ Past(rejected[p])
  /\ Current(rejected[p]) => refused
  /\ pc[p] # "renewed" => /\ Past(lease[p].version)
                          /\ Current(lease[p].version) => lease[p] = LeaseOf(token)
  /\ pc[p] = "renewed" => /\ lease[p].version = loaded[p].token.version + 1
                          /\ lease[p].grant = loaded[p].token.grant
  /\ pc[p] \in {"marking", "redeeming"} /\ Current(loaded[p].token.version)
       => loaded[p].token.age # "fresh" \/ refused

\* The answer that is not lost is in the hands of a user about to store it.
SpentOK ==
  spent => \E p \in Users : pc[p] = "renewed" /\ Current(loaded[p].token.version)

IInv == TypeOK /\ RowsOK /\ (\A p \in Users : Known(p)) /\ SpentOK

-----------------------------------------------------------------------------
(* Types.                                                                    *)

RowTypes ==
  /\ status \in Statuses /\ token \in Tokens
  /\ tokenFailures \in Counts /\ syncFailures \in Counts /\ waiting \in BOOLEAN
  /\ grants \in Versions
  /\ refused \in BOOLEAN /\ spent \in BOOLEAN /\ late \in BOOLEAN

UserTypes ==
  /\ lock \in Users \cup {Nobody}
  /\ pc \in [Users -> Steps]
  /\ attempt \in [Users -> {1, 2}]
  /\ rejected \in [Users -> Versions]
  /\ loaded \in [Users -> Loads]
  /\ lease \in [Users -> Leases]

\* Types, split into those of the rows and those of the users.
LEMMA Typing == TypeOK <=> RowTypes /\ UserTypes
BY DEF TypeOK, RowTypes, UserTypes

\* The values a user holds when it holds nothing have their types.
LEMMA Nothing ==
  /\ 0 \in Versions /\ 0 \in Counts /\ NoToken \in Tokens /\ NoLease \in Leases
  /\ NoLoad \in Loads
  /\ {"idle", "acquiring", "calling", "healthy", "denied", "failing"} \subseteq Steps
  /\ Locked \subseteq Steps
BY ConstantsOK DEF Versions, Counts, Tokens, Leases, Loads, NoToken, NoLease, NoLoad,
   Ages, Statuses, Steps

\* What a user does with its own state is well typed.
LEMMA UserStep ==
  ASSUME UserTypes, NEW p \in Users
  PROVE  /\ Rest(p) => UserTypes'
         /\ Refuse(p) => UserTypes'
         /\ Retry(p) => UserTypes'
         /\ \A v \in Versions : Ask(p, v) => UserTypes'
         /\ \A l \in Leases : Provide(p, l) => UserTypes'
         /\ \A step \in Steps : Conclude(p, step) => UserTypes'
         /\ \A step \in Steps :
              Goto(p, step) /\ UNCHANGED <<lock, attempt, rejected, loaded, lease>>
                => UserTypes'
<1> USE Nothing
<1>1. Rest(p) => UserTypes'
  BY DEF UserTypes, Rest, Goto, Release
<1>2. Refuse(p) => UserTypes'
  BY <1>1 DEF UserTypes, Refuse, Goto, Release
<1>3. Retry(p) => UserTypes'
  BY <1>2 DEF UserTypes, Retry, Goto, Locked
<1>4. ASSUME NEW v \in Versions, Ask(p, v) PROVE UserTypes'
  BY <1>4 DEF UserTypes, Ask, Goto
<1>5. ASSUME NEW l \in Leases, Provide(p, l) PROVE UserTypes'
  BY <1>5 DEF UserTypes, Provide, Goto, Release
<1>6. ASSUME NEW step \in Steps, Conclude(p, step) PROVE UserTypes'
  BY <1>6 DEF UserTypes, Conclude, Goto
<1>7. ASSUME NEW step \in Steps, Goto(p, step),
             UNCHANGED <<lock, attempt, rejected, loaded, lease>>
      PROVE  UserTypes'
  BY <1>7 DEF UserTypes, Goto
<1>8. QED
  BY <1>1, <1>2, <1>3, <1>4, <1>5, <1>6, <1>7

\* A count stays below the threshold, and is positive after a failure.
LEMMA Counting ==
  ASSUME NEW n \in Counts
  PROVE  OneMore(n) \in Counts /\ OneMore(n) > 0
BY ConstantsOK DEF Counts, OneMore

\* The state of a user's own is typed after each of its steps.
LEMMA UserTypeStep ==
  ASSUME TypeOK, NEW p \in Users, Refresh(p) \/ Use(p)
  PROVE  UserTypes'
<1> USE Typing, UserStep, Nothing
<1>1. ASSUME LoadRefused(p) PROVE UserTypes'
  BY <1>1 DEF LoadRefused
<1>2. ASSUME LoadUsable(p) PROVE UserTypes'
  <2>1. LeaseOf(token) \in Leases
    BY DEF RowTypes, Tokens, Leases, LeaseOf
  <2>2. QED
    BY <1>2, <2>1 DEF LoadUsable
<1>3. ASSUME LoadDue(p) PROVE UserTypes'
  BY <1>3 DEF LoadDue, RowTypes, UserTypes, Goto, Locked, Loads
<1>4. ASSUME MarkAttempt(p) PROVE UserTypes'
  BY <1>4 DEF MarkAttempt, Locked
<1>5. ASSUME MarkFails(p) PROVE UserTypes'
  BY <1>5 DEF MarkFails, Locked
<1>6. ASSUME Redeem(p) PROVE UserTypes'
  BY <1>6, ConstantsOK DEF Redeem, RowTypes, UserTypes, Goto, Locked, Loads, Tokens,
     Leases, Versions
<1>7. ASSUME RedeemFails(p) PROVE UserTypes'
  BY <1>7 DEF RedeemFails, Locked
<1>8. ASSUME CommitRefresh(p) PROVE UserTypes'
  <2>1. lease[p] \in Leases
    BY DEF UserTypes
  <2>2. QED
    BY <1>8, <2>1 DEF CommitRefresh
<1>9. ASSUME MarkReauthorization(p) PROVE UserTypes'
  BY <1>9 DEF MarkReauthorization
<1>10. ASSUME RecordConfigurationError(p) PROVE UserTypes'
  BY <1>10 DEF RecordConfigurationError
<1>11. ASSUME RecordTemporaryFailure(p) PROVE UserTypes'
  <2>1. LeaseOf(loaded[p].token) \in Leases
    BY DEF UserTypes, Loads, Tokens, Leases, LeaseOf
  <2>2. QED
    BY <1>11, <2>1 DEF RecordTemporaryFailure
<1>12. ASSUME CheckAccount(p) PROVE UserTypes'
  BY <1>12 DEF CheckAccount
<1>13. ASSUME SyncAccount(p) PROVE UserTypes'
  BY <1>13 DEF SyncAccount
<1>14. ASSUME GraphAccepts(p) PROVE UserTypes'
  BY <1>14 DEF GraphAccepts
<1>15. ASSUME GraphRejects(p) PROVE UserTypes'
  <2>1. lease[p].version \in Versions
    BY DEF UserTypes, Leases
  <2>2. QED
    BY <1>15, <2>1 DEF GraphRejects
<1>16. ASSUME GraphFails(p) PROVE UserTypes'
  BY <1>16 DEF GraphFails
<1>17. ASSUME RecordHealth(p) PROVE UserTypes'
  BY <1>17 DEF RecordHealth
<1>18. ASSUME RecordGraphDenial(p) PROVE UserTypes'
  BY <1>18 DEF RecordGraphDenial
<1>19. ASSUME RecordGraphFailure(p) PROVE UserTypes'
  BY <1>19 DEF RecordGraphFailure
<1>20. ASSUME SyncSucceeds(p) PROVE UserTypes'
  BY <1>20 DEF SyncSucceeds
<1>21. ASSUME RecordSyncFailure(p) PROVE UserTypes'
  BY <1>21 DEF RecordSyncFailure
<1>22. ASSUME Abandon(p) PROVE UserTypes'
  BY <1>22 DEF Abandon
<1>23. QED
  BY <1>1, <1>2, <1>3, <1>4, <1>5, <1>6, <1>7, <1>8, <1>9, <1>10, <1>11, <1>12, <1>13,
     <1>14, <1>15, <1>16, <1>17, <1>18, <1>19, <1>20, <1>21, <1>22 DEF Refresh, Use

\* The rows and the history are typed after each step.
LEMMA RowTypeStep == ASSUME IInv, Next PROVE RowTypes'
<1> USE Typing, Nothing DEF IInv, row, past
<1>1. ASSUME NEW p \in Users, LoadRefused(p) PROVE RowTypes'
  BY <1>1 DEF LoadRefused, RowTypes
<1>2. ASSUME NEW p \in Users, LoadUsable(p) PROVE RowTypes'
  BY <1>2 DEF LoadUsable, RowTypes
<1>3. ASSUME NEW p \in Users, LoadDue(p) PROVE RowTypes'
  BY <1>3 DEF LoadDue, RowTypes
<1>4. ASSUME NEW p \in Users, MarkAttempt(p) PROVE RowTypes'
  BY <1>4 DEF MarkAttempt, RowTypes
<1>5. ASSUME NEW p \in Users, MarkFails(p) PROVE RowTypes'
  BY <1>5 DEF MarkFails, RowTypes
<1>6. ASSUME NEW p \in Users, Redeem(p) PROVE RowTypes'
  BY <1>6 DEF Redeem, RowTypes, Current
<1>7. ASSUME NEW p \in Users, RedeemFails(p) PROVE RowTypes'
  BY <1>7 DEF RedeemFails, RowTypes
<1>8. ASSUME NEW p \in Users, CommitRefresh(p) PROVE RowTypes'
  <2>1. lease[p].version \in Versions /\ lease[p].grant \in Versions
    BY DEF UserTypes, Leases
  <2>2. [version |-> lease[p].version, grant |-> lease[p].grant, age |-> "fresh"] \in Tokens
    BY <2>1 DEF Tokens, Ages
  <2>3. QED
    BY <1>8, <2>2 DEF CommitRefresh, RowTypes, Statuses
<1>9. ASSUME NEW p \in Users, MarkReauthorization(p) PROVE RowTypes'
  BY <1>9, Counting DEF MarkReauthorization, RowTypes, Statuses
<1>10. ASSUME NEW p \in Users, RecordConfigurationError(p) PROVE RowTypes'
  BY <1>10 DEF RecordConfigurationError, RowTypes
<1>11. ASSUME NEW p \in Users, RecordTemporaryFailure(p) PROVE RowTypes'
  <2>1. loaded[p].status \in Statuses /\ OneMore(loaded[p].failures) \in Counts
    BY Counting DEF UserTypes, Loads
  <2>2. QED
    BY <1>11, <2>1 DEF RecordTemporaryFailure, RowTypes, Statuses
<1>12. ASSUME NEW p \in Users, CheckAccount(p) PROVE RowTypes'
  BY <1>12 DEF CheckAccount, RowTypes
<1>13. ASSUME NEW p \in Users, SyncAccount(p) PROVE RowTypes'
  BY <1>13 DEF SyncAccount, RowTypes
<1>14. ASSUME NEW p \in Users, GraphAccepts(p) PROVE RowTypes'
  BY <1>14 DEF GraphAccepts, RowTypes
<1>15. ASSUME NEW p \in Users, GraphRejects(p) PROVE RowTypes'
  BY <1>15 DEF GraphRejects, RowTypes, Current
<1>16. ASSUME NEW p \in Users, GraphFails(p) PROVE RowTypes'
  BY <1>16 DEF GraphFails, RowTypes
<1>17. ASSUME NEW p \in Users, RecordHealth(p) PROVE RowTypes'
  BY <1>17 DEF RecordHealth, RowTypes, Statuses
<1>18. ASSUME NEW p \in Users, RecordGraphDenial(p) PROVE RowTypes'
  BY <1>18, Counting DEF RecordGraphDenial, RowTypes, Statuses
<1>19. ASSUME NEW p \in Users, RecordGraphFailure(p) PROVE RowTypes'
  BY <1>19, Counting DEF RecordGraphFailure, RowTypes, Statuses
<1>20. ASSUME NEW p \in Users, SyncSucceeds(p) PROVE RowTypes'
  BY <1>20 DEF SyncSucceeds, RowTypes, Statuses
<1>21. ASSUME NEW p \in Users, RecordSyncFailure(p) PROVE RowTypes'
  BY <1>21, Counting DEF RecordSyncFailure, RowTypes, Statuses
<1>22. ASSUME NEW p \in Users, Abandon(p) PROVE RowTypes'
  BY <1>22 DEF Abandon, RowTypes
<1>23. ASSUME PersistAuthorization PROVE RowTypes'
  <2>1. /\ token.version \in Nat /\ grants \in Nat
        /\ token.version < MaxVersion /\ grants <= token.version
    BY <1>23 DEF PersistAuthorization, RowTypes, RowsOK, Past, Listed, Tokens, Versions
  <2>2. token.version + 1 \in Versions /\ grants + 1 \in Versions
    BY <2>1, ConstantsOK DEF Versions
  <2>3. token' \in Tokens /\ grants' \in Versions
    BY <1>23, <2>2 DEF PersistAuthorization, Tokens, Ages
  <2>4. QED
    BY <1>23, <2>3 DEF PersistAuthorization, RowTypes, Statuses
<1>24. ASSUME AuthorizationFails PROVE RowTypes'
  BY <1>24, Counting DEF AuthorizationFails, RowTypes, Statuses
<1>25. ASSUME Disable PROVE RowTypes'
  BY <1>25 DEF Disable, RowTypes, Statuses
<1>26. ASSUME Enable PROVE RowTypes'
  BY <1>26 DEF Enable, RowTypes, Statuses
<1>27. ASSUME Delete PROVE RowTypes'
  BY <1>27 DEF Delete, RowTypes, Statuses
<1>28. ASSUME TokenAges PROVE RowTypes'
  BY <1>28 DEF TokenAges, RowTypes, Tokens, Ages
<1>29. ASSUME RetryElapses PROVE RowTypes'
  BY <1>29 DEF RetryElapses, RowTypes
<1>30. QED
  BY <1>1, <1>2, <1>3, <1>4, <1>5, <1>6, <1>7, <1>8, <1>9, <1>10, <1>11, <1>12, <1>13,
     <1>14, <1>15, <1>16, <1>17, <1>18, <1>19, <1>20, <1>21, <1>22, <1>23, <1>24, <1>25,
     <1>26, <1>27, <1>28, <1>29 DEF Next, Refresh, Use, Others

\* Every variable is typed after each step.
LEMMA TypeStep == ASSUME IInv, Next PROVE TypeOK'
<1>1. ASSUME NEW p \in Users, Refresh(p) \/ Use(p) PROVE UserTypes'
  BY <1>1, UserTypeStep DEF IInv
<1>2. ASSUME Others PROVE UserTypes'
  <2>1. UNCHANGED user
    BY <1>2 DEF Others, PersistAuthorization, AuthorizationFails, Disable, Enable, Delete,
                TokenAges, RetryElapses
  <2>2. QED
    BY <2>1, Typing DEF IInv, UserTypes, user
<1>3. UserTypes'
  BY <1>1, <1>2 DEF Next
<1>4. QED
  BY <1>3, RowTypeStep DEF TypeOK, RowTypes, UserTypes

-----------------------------------------------------------------------------
(* Rows.                                                                     *)

Columns == <<status, token, tokenFailures, syncFailures, grants, late>>

\* Nothing is said of columns that a step leaves alone.
LEMMA SameRows == ASSUME RowsOK, UNCHANGED Columns PROVE RowsOK'
BY DEF RowsOK, Columns, Past, NewestGrantWins, HasToken, StatusMatchesToken,
   DegradedHasCause

\* The columns go together after each step.
LEMMA RowsStep == ASSUME IInv, Next PROVE RowsOK'
<1> USE DEF IInv
<1>1. RowTypes /\ UserTypes
  BY Typing
<1> USE DEF RowsOK, Past, NewestGrantWins, HasToken, StatusMatchesToken, DegradedHasCause,
            Listed, Current, Judged
<1>2. ASSUME NEW p \in Users,
             \/ LoadRefused(p) \/ LoadUsable(p) \/ LoadDue(p) \/ MarkAttempt(p)
             \/ MarkFails(p) \/ Redeem(p) \/ RedeemFails(p) \/ RecordConfigurationError(p)
             \/ CheckAccount(p) \/ SyncAccount(p) \/ GraphAccepts(p) \/ GraphRejects(p)
             \/ GraphFails(p) \/ Abandon(p)
      PROVE  RowsOK'
  <2>1. UNCHANGED Columns
    BY <1>2 DEF Columns, row, past, LoadRefused, LoadUsable, LoadDue, MarkAttempt,
       MarkFails,
                Redeem, RedeemFails, RecordConfigurationError, CheckAccount, SyncAccount,
                GraphAccepts, GraphRejects, GraphFails, Abandon
  <2>2. QED
    BY <2>1, SameRows
<1>3. ASSUME NEW p \in Users, CommitRefresh(p) PROVE RowsOK'
  <2>1. CASE ~Current(loaded[p].token.version)
    BY <1>3, <2>1, SameRows DEF CommitRefresh, Columns
  <2>2. CASE Current(loaded[p].token.version)
    <3>1. /\ lease[p].version = token.version + 1 /\ lease[p].grant = token.grant
          /\ token.version \in Nat /\ grants \in Nat
      BY <1>1, <1>3, <2>2 DEF CommitRefresh, Known, RowTypes, Tokens, Versions
    <3>2. /\ token'.version = token.version + 1 /\ token'.grant = token.grant
          /\ UNCHANGED <<grants, late, syncFailures>>
          /\ IF Listed
             THEN status' = (IF syncFailures = 0 THEN "active" ELSE status)
             ELSE UNCHANGED <<status, tokenFailures>>
      BY <1>3, <2>2, <3>1 DEF CommitRefresh
    <3>3. status # "deleted"
      BY <1>1, <2>2 DEF NoToken
    <3>4. syncFailures # 0 => syncFailures > 0
      BY <1>1 DEF RowTypes, Counts
    <3>5. QED
      BY <2>2, <3>1, <3>2, <3>3, <3>4
  <2>3. QED
    BY <2>1, <2>2
<1>4. ASSUME NEW p \in Users, MarkReauthorization(p) PROVE RowsOK'
  <2>1. CASE ~Judged(loaded[p].token.version)
    BY <1>4, <2>1, SameRows DEF MarkReauthorization, Columns
  <2>2. CASE Judged(loaded[p].token.version)
    BY <1>4, <2>2 DEF MarkReauthorization, Known
  <2>3. QED
    BY <2>1, <2>2
<1>5. ASSUME NEW p \in Users, RecordTemporaryFailure(p) PROVE RowsOK'
  <2>1. CASE ~Judged(loaded[p].token.version)
    BY <1>5, <2>1, SameRows DEF RecordTemporaryFailure, Columns, past
  <2>2. CASE Judged(loaded[p].token.version)
    <3>1. loaded[p].status \in {"active", "degraded"}
      BY <1>5 DEF RecordTemporaryFailure, Known, Locked
    <3>2. tokenFailures' > 0
      BY <1>1, <1>5, <2>2, Counting DEF RecordTemporaryFailure, UserTypes, Loads
    <3>3. /\ status' \in {"active", "degraded"}
          /\ UNCHANGED <<token, grants, late>>
      BY <1>5, <2>2, <3>1 DEF RecordTemporaryFailure, past
    <3>4. QED
      BY <2>2, <3>2, <3>3
  <2>3. QED
    BY <2>1, <2>2
<1>6. ASSUME NEW p \in Users, RecordHealth(p) PROVE RowsOK'
  <2>1. syncFailures # 0 => syncFailures > 0
    BY <1>1 DEF RowTypes, Counts
  <2>2. QED
    BY <1>6, <2>1 DEF RecordHealth, past
<1>7. ASSUME NEW p \in Users, RecordGraphDenial(p) PROVE RowsOK'
  <2>1. CASE ~Judged(lease[p].version)
    BY <1>7, <2>1, SameRows DEF RecordGraphDenial, Columns
  <2>2. CASE Judged(lease[p].version)
    <3>1. lease[p].grant = token.grant
      BY <1>7, <2>2 DEF RecordGraphDenial, Known, LeaseOf
    <3>2. QED
      BY <1>7, <2>2, <3>1 DEF RecordGraphDenial
  <2>3. QED
    BY <2>1, <2>2
<1>8. ASSUME NEW p \in Users, RecordGraphFailure(p) PROVE RowsOK'
  <2>1. CASE ~Judged(lease[p].version)
    BY <1>8, <2>1, SameRows DEF RecordGraphFailure, Columns, past
  <2>2. CASE Judged(lease[p].version)
    <3>1. tokenFailures' > 0
      BY <1>1, <1>8, <2>2, Counting DEF RecordGraphFailure, RowTypes
    <3>2. QED
      BY <1>8, <2>2, <3>1 DEF RecordGraphFailure, past
  <2>3. QED
    BY <2>1, <2>2
<1>9. ASSUME NEW p \in Users, SyncSucceeds(p) PROVE RowsOK'
  BY <1>9 DEF SyncSucceeds, past
<1>10. ASSUME NEW p \in Users, RecordSyncFailure(p) PROVE RowsOK'
  <2>1. Listed => syncFailures' > 0
    BY <1>1, <1>10, Counting DEF RecordSyncFailure, RowTypes
  <2>2. QED
    BY <1>10, <2>1 DEF RecordSyncFailure, past
<1>11. ASSUME PersistAuthorization PROVE RowsOK'
  BY <1>1, <1>11 DEF PersistAuthorization, RowTypes, Tokens, Versions
<1>12. ASSUME AuthorizationFails PROVE RowsOK'
  <2>1. tokenFailures' > 0
    BY <1>1, <1>12, Counting DEF AuthorizationFails, RowTypes
  <2>2. QED
    BY <1>12, <2>1 DEF AuthorizationFails
<1>13. ASSUME Disable PROVE RowsOK'
  BY <1>13 DEF Disable, past
<1>14. ASSUME Enable PROVE RowsOK'
  BY <1>14 DEF Enable, past
<1>15. ASSUME Delete PROVE RowsOK'
  BY <1>15 DEF Delete, NoToken
<1>16. ASSUME TokenAges PROVE RowsOK'
  BY <1>1, <1>16 DEF TokenAges, past, RowTypes, Tokens, NoToken
<1>17. ASSUME RetryElapses PROVE RowsOK'
  BY <1>17, SameRows DEF RetryElapses, past, Columns
<1>18. QED
  BY <1>2, <1>3, <1>4, <1>5, <1>6, <1>7, <1>8, <1>9, <1>10, <1>11, <1>12, <1>13, <1>14,
     <1>15, <1>16, <1>17 DEF Next, Refresh, Use, Others

-----------------------------------------------------------------------------
(* What users know.                                                          *)

\* The row of the token moves on: it keeps its version and authorisation, it
\* gets a version it never had, or it is gone for good.
Advance ==
  /\ status = "deleted" => status' = "deleted"
  /\ \/ /\ token'.version = token.version /\ token'.grant = token.grant
        /\ refused => refused'
        /\ status' = "deleted" => status = "deleted"
     \/ /\ token'.version > token.version
     \/ /\ token' = NoToken /\ status' = "deleted"

\* A step leaves what belongs to user q alone.
Still(q) ==
  /\ pc'[q] = pc[q] /\ rejected'[q] = rejected[q] /\ loaded'[q] = loaded[q]
  /\ lease'[q] = lease[q]
  /\ lock = q => lock' = q

\* Each step moves the token row on.
LEMMA AdvanceStep == ASSUME IInv, Next PROVE Advance
<1> USE DEF IInv, Advance
<1>1. /\ token.version \in Nat /\ (status = "deleted" => token.version = 0)
      /\ \A p \in Users : loaded[p].status \in Statuses
  BY Typing DEF RowTypes, UserTypes, Tokens, Versions, Loads, RowsOK, NoToken
<1>2. ASSUME NEW p \in Users,
             \/ LoadRefused(p) \/ LoadUsable(p) \/ LoadDue(p) \/ MarkAttempt(p)
             \/ MarkFails(p) \/ Redeem(p) \/ RedeemFails(p) \/ RecordConfigurationError(p)
             \/ CheckAccount(p) \/ SyncAccount(p) \/ GraphAccepts(p) \/ GraphRejects(p)
             \/ GraphFails(p) \/ Abandon(p)
      PROVE  Advance
  <2>1. UNCHANGED <<status, token>>
    BY <1>2 DEF row, LoadRefused, LoadUsable, LoadDue, MarkAttempt, MarkFails, Redeem,
                RedeemFails, RecordConfigurationError, CheckAccount, SyncAccount, GraphAccepts,
                GraphRejects, GraphFails, Abandon
  <2>2. refused => refused'
    BY <1>2 DEF past, LoadRefused, LoadUsable, LoadDue, MarkAttempt, MarkFails, Redeem,
                RedeemFails, RecordConfigurationError, CheckAccount, SyncAccount, GraphAccepts,
                GraphRejects, GraphFails, Abandon
  <2>3. QED
    BY <2>1, <2>2
<1>3. ASSUME NEW p \in Users, CommitRefresh(p) PROVE Advance
  <2>1. CASE ~Current(loaded[p].token.version)
    BY <1>3, <2>1 DEF CommitRefresh
  <2>2. CASE Current(loaded[p].token.version)
    <3>1. token'.version = token.version + 1
      BY <1>3, <2>2 DEF CommitRefresh, Known, Current
    <3>2. status # "deleted"
      BY <1>1, <2>2 DEF Current
    <3>3. QED
      BY <1>1, <3>1, <3>2
  <2>3. QED
    BY <2>1, <2>2
<1>4. ASSUME NEW p \in Users,
             \/ MarkReauthorization(p) \/ RecordHealth(p) \/ RecordGraphDenial(p)
             \/ RecordGraphFailure(p) \/ SyncSucceeds(p) \/ RecordSyncFailure(p)
      PROVE  Advance
  BY <1>4 DEF past, Judged, Listed, MarkReauthorization, RecordHealth, RecordGraphDenial,
              RecordGraphFailure, SyncSucceeds, RecordSyncFailure
<1>5. ASSUME NEW p \in Users, RecordTemporaryFailure(p) PROVE Advance
  <2>1. loaded[p].status \in {"active", "degraded"}
    BY <1>5 DEF RecordTemporaryFailure, Known, Locked
  <2>2. QED
    BY <1>5, <2>1 DEF RecordTemporaryFailure, Judged, Listed, past
<1>6. ASSUME Others PROVE Advance
  <2>1. CASE PersistAuthorization
    BY <1>1, <2>1 DEF PersistAuthorization, Listed
  <2>2. CASE TokenAges
    BY <2>2, Typing DEF TokenAges, past, RowTypes, Tokens
  <2>3. CASE AuthorizationFails \/ Disable \/ Enable \/ Delete \/ RetryElapses
    BY <2>3 DEF AuthorizationFails, Disable, Enable, Delete, RetryElapses, past, Listed,
       HasToken
  <2>4. QED
    BY <1>6, <2>1, <2>2, <2>3 DEF Others
<1>7. QED
  BY <1>2, <1>3, <1>4, <1>5, <1>6 DEF Next, Refresh, Use

\* A user that is left alone still knows what it knew.
LEMMA KnownKept ==
  ASSUME IInv, TypeOK', RowsOK', Advance, NEW q \in Users, Still(q)
  PROVE  Known(q)'
<1>1. /\ Known(q) /\ token.version \in Nat /\ token'.version \in Nat
      /\ loaded[q].token.version \in Nat /\ lease[q].version \in Nat /\ rejected[q] \in Nat
  BY DEF IInv, TypeOK, Tokens, Versions, Loads, Leases
<1>2. \A v \in Nat : Past(v) => Past(v)'
  BY <1>1 DEF Past, Advance
<1>3. ASSUME NEW v \in Nat, Past(v), Current(v)'
      PROVE  Current(v) /\ token'.grant = token.grant /\ (refused => refused')
  <2>1. status' # "deleted" /\ status # "deleted"
    BY <1>3 DEF Current, RowsOK, NoToken, Advance
  <2>2. ~(token'.version > token.version)
    BY <1>1, <1>3, <2>1 DEF Current, Past
  <2>3. QED
    BY <1>3, <2>1, <2>2 DEF Advance, Current
<1>4. \A v \in Nat : Past(v) /\ Current(v)' => LeaseOf(token)' = LeaseOf(token)
  BY <1>3 DEF Current, LeaseOf
<1>5. QED
  BY <1>1, <1>2, <1>3, <1>4 DEF Known, Still, Locked

\* A user's step leaves the others alone, and the administrator's leave all.
LEMMA StillStep ==
  ASSUME IInv, NEW q \in Users
  PROVE  /\ Others => Still(q)
         /\ \A p \in Users \ {q} : Refresh(p) \/ Use(p) => Still(q)
<1> USE DEF IInv
<1>1. /\ pc \in [Users -> Steps] /\ rejected \in [Users -> Versions]
      /\ loaded \in [Users -> Loads] /\ lease \in [Users -> Leases]
      /\ q # Nobody
  BY ConstantsOK DEF TypeOK
<1>2. Others => Still(q)
  BY DEF Others, PersistAuthorization, AuthorizationFails, Disable, Enable, Delete,
     TokenAges,
         RetryElapses, user, Still
<1>3. ASSUME NEW p \in Users \ {q}
      PROVE  /\ Rest(p) => Still(q)
             /\ Refuse(p) => Still(q)
             /\ Retry(p) => Still(q)
             /\ \A v : Ask(p, v) => Still(q)
             /\ \A l : Provide(p, l) => Still(q)
             /\ \A step : Conclude(p, step) => Still(q)
             /\ \A step : Goto(p, step) /\ UNCHANGED <<lock, attempt, rejected, loaded, lease>>
                  => Still(q)
  <2> USE <1>1 DEF Still, Goto, Release
  <2>1. Rest(p) => Still(q)
    BY DEF Rest
  <2>2. Refuse(p) => Still(q)
    BY <2>1 DEF Refuse
  <2>3. Retry(p) => Still(q)
    BY <2>2 DEF Retry
  <2>4. ASSUME NEW v, Ask(p, v) PROVE Still(q)
    BY <2>4 DEF Ask
  <2>5. ASSUME NEW l, Provide(p, l) PROVE Still(q)
    BY <2>5 DEF Provide
  <2>6. ASSUME NEW step, Conclude(p, step) PROVE Still(q)
    BY <2>6 DEF Conclude
  <2>7. QED
    BY <2>1, <2>2, <2>3, <2>4, <2>5, <2>6
<1>4. ASSUME NEW p \in Users \ {q}, Refresh(p) PROVE Still(q)
  <2>1. CASE LoadDue(p)
    <3>1. lock # q
      BY <1>1, <2>1 DEF LoadDue, Entered, Known, Locked
    <3>2. QED
      BY <1>1, <2>1, <3>1 DEF LoadDue, Goto, Still
  <2>2. CASE Redeem(p)
    BY <1>1, <2>2 DEF Redeem, Goto, Still
  <2>3. CASE LoadRefused(p) \/ LoadUsable(p)
    BY <1>3, <2>3 DEF LoadRefused, LoadUsable
  <2>4. CASE MarkAttempt(p) \/ MarkFails(p) \/ RedeemFails(p)
    BY <1>3, <2>4 DEF MarkAttempt, MarkFails, RedeemFails
  <2>5. CASE CommitRefresh(p)
    BY <1>3, <2>5 DEF CommitRefresh
  <2>6. CASE MarkReauthorization(p) \/ RecordConfigurationError(p)
    BY <1>3, <2>6 DEF MarkReauthorization, RecordConfigurationError
  <2>7. CASE RecordTemporaryFailure(p)
    BY <1>3, <2>7 DEF RecordTemporaryFailure
  <2>8. QED
    BY <1>4, <2>1, <2>2, <2>3, <2>4, <2>5, <2>6, <2>7 DEF Refresh
<1>5. ASSUME NEW p \in Users \ {q}, Use(p) PROVE Still(q)
  <2>1. CASE CheckAccount(p) \/ SyncAccount(p)
    BY <1>3, <2>1 DEF CheckAccount, SyncAccount
  <2>2. CASE GraphAccepts(p) \/ GraphRejects(p) \/ GraphFails(p)
    BY <1>3, <2>2 DEF GraphAccepts, GraphRejects, GraphFails
  <2>3. CASE \/ RecordHealth(p) \/ RecordGraphDenial(p) \/ RecordGraphFailure(p)
             \/ SyncSucceeds(p) \/ RecordSyncFailure(p) \/ Abandon(p)
    BY <1>3, <2>3 DEF RecordHealth, RecordGraphDenial, RecordGraphFailure, SyncSucceeds,
                      RecordSyncFailure, Abandon
  <2>4. QED
    BY <1>5, <2>1, <2>2, <2>3 DEF Use
<1>6. QED
  BY <1>2, <1>4, <1>5

\* The version that Graph rejected stays a version the row has had, and if it
\* is stored, it has been refused.
LEMMA RejectedKept ==
  ASSUME IInv, TypeOK', RowsOK', Advance, NEW p \in Users, rejected'[p] \in {0, rejected[p]}
  PROVE  Past(rejected[p])' /\ (Current(rejected[p])' => refused')
<1>1. /\ Known(p) /\ token.version \in Nat /\ token'.version \in Nat /\ rejected[p] \in Nat
      /\ rejected'[p] \in Nat
  BY DEF IInv, TypeOK, Tokens, Versions
<1>2. ASSUME Current(rejected[p])' PROVE refused'
  <2>1. /\ status' # "deleted" /\ status # "deleted" /\ rejected'[p] = rejected[p]
        /\ rejected[p] > 0 /\ token'.version = rejected[p]
    BY <1>1, <1>2 DEF Current, RowsOK, NoToken, Advance
  <2>2. rejected[p] <= token.version
    BY <1>1, <2>1 DEF Known, Past
  <2>3. token'.version = token.version /\ (refused => refused')
    BY <1>1, <2>1, <2>2 DEF Advance
  <2>4. QED
    BY <1>1, <2>1, <2>3 DEF Known, Current
<1>3. Past(rejected[p])'
  BY <1>1 DEF Known, Past, Advance
<1>4. QED
  BY <1>2, <1>3

\* A user that holds neither what it loaded nor a lease knows little.
LEMMA KnowsNothing ==
  ASSUME IInv, TypeOK', RowsOK', Advance, NEW p \in Users,
         pc'[p] \notin Locked \/ (pc'[p] = "retrying" /\ lock' = p),
         loaded'[p] = NoLoad, lease'[p] = NoLease, rejected'[p] \in {0, rejected[p]}
  PROVE  Known(p)'
<1>1. token'.version \in Nat
  BY DEF TypeOK, Tokens, Versions
<1>2. /\ Past(0)' /\ ~Current(0)'
      /\ loaded'[p].token.version = 0 /\ lease'[p].version = 0
  BY <1>1 DEF Past, Current, NoLoad, NoLease, NoToken
<1>3. pc'[p] # "renewed" /\ pc'[p] \notin {"marking", "redeeming"}
      /\ pc'[p] \notin Locked \ {"retrying"}
  BY DEF Locked
<1>4. QED
  BY <1>2, <1>3, RejectedKept DEF Known

\* What a user knows after the steps by which it starts, gives up, goes round
\* or gets a lease that is up to date.
LEMMA OwnStep ==
  ASSUME IInv, TypeOK', RowsOK', Advance, NEW p \in Users
  PROVE  /\ Rest(p) => Known(p)'
         /\ Refuse(p) => Known(p)'
         /\ Retry(p) /\ lock = p => Known(p)'
         /\ Ask(p, 0) /\ loaded[p] = NoLoad => Known(p)'
         /\ \A l : /\ Provide(p, l) /\ l.version \in Nat /\ Past(l.version)'
                   /\ Current(l.version)' => l = LeaseOf(token)'
                   => Known(p)'
<1>1. /\ pc \in [Users -> Steps] /\ rejected \in [Users -> Versions]
      /\ loaded \in [Users -> Loads] /\ lease \in [Users -> Leases]
      /\ attempt \in [Users -> {1, 2}]
  BY DEF IInv, TypeOK
<1>2. Rest(p) => Known(p)'
  BY <1>1, KnowsNothing DEF Rest, Goto, Release, Locked
<1>3. Refuse(p) => Known(p)'
  BY <1>1, <1>2, KnowsNothing DEF Refuse, Goto, Release, Locked
<1>4. Retry(p) /\ lock = p => Known(p)'
  BY <1>1, <1>3, KnowsNothing DEF Retry, Goto
<1>5. Ask(p, 0) /\ loaded[p] = NoLoad => Known(p)'
  BY <1>1, KnowsNothing DEF Ask, Goto, Locked
<1>6. ASSUME NEW l, Provide(p, l), l.version \in Nat, Past(l.version)',
             Current(l.version)' => l = LeaseOf(token)'
      PROVE  Known(p)'
  <2>1. /\ pc'[p] = "calling" /\ loaded'[p] = NoLoad /\ lease'[p] = l
        /\ rejected'[p] = rejected[p]
    BY <1>1, <1>6 DEF Provide, Goto
  <2>2. /\ Past(rejected[p])' /\ (Current(rejected[p])' => refused')
    BY <2>1, RejectedKept
  <2>3. Past(0)' /\ ~Current(0)' /\ NoLoad.token.version = 0
    BY DEF Past, Current, NoLoad, NoToken, TypeOK, Tokens, Versions
  <2>4. QED
    BY <1>6, <2>1, <2>2, <2>3 DEF Known, Locked
<1>7. QED
  BY <1>2, <1>3, <1>4, <1>5, <1>6

\* What a user knows after a step of its own.
LEMMA KnownOwn ==
  ASSUME IInv, TypeOK', RowsOK', Advance, NEW p \in Users, Refresh(p) \/ Use(p)
  PROVE  Known(p)'
<1> USE DEF IInv
<1>1. /\ pc \in [Users -> Steps] /\ rejected \in [Users -> Versions]
      /\ loaded \in [Users -> Loads] /\ lease \in [Users -> Leases]
      /\ lease[p].version \in Nat /\ loaded[p].token.version \in Nat
      /\ token.version \in Nat /\ rejected[p] \in Nat
  BY DEF TypeOK, Loads, Leases, Tokens, Versions
<1>2. Known(p)
  OBVIOUS
<1>3. CASE LoadRefused(p)
  BY <1>3, OwnStep DEF LoadRefused
<1>4. CASE LoadUsable(p)
  <2>1. token' = token /\ status' = status
    BY <1>4 DEF LoadUsable, row
  <2>2. /\ LeaseOf(token).version \in Nat /\ Past(LeaseOf(token).version)'
        /\ LeaseOf(token) = LeaseOf(token)'
    BY <1>1, <2>1 DEF LeaseOf, Past
  <2>3. QED
    BY <1>4, <2>2, OwnStep DEF LoadUsable
<1>5. CASE LoadDue(p)
  <2>1. /\ pc'[p] = "marking" /\ lock' = p /\ rejected'[p] = rejected[p]
        /\ lease'[p] = lease[p] /\ loaded'[p].status = status /\ loaded'[p].token = token
        /\ UNCHANGED <<status, token, refused>> /\ pc[p] # "renewed"
    BY <1>1, <1>5 DEF LoadDue, Goto, row, past, Entered
  <2>2. status \in {"active", "degraded"}
    BY <1>5 DEF LoadDue, RowsOK, StatusMatchesToken, HasToken, NoToken, TypeOK, Statuses
  <2>3. token.age # "fresh" \/ (rejected[p] > 0 /\ token.version = rejected[p])
    BY <1>5 DEF LoadDue, Usable, ShouldForce
  <2>4. QED
    BY <1>1, <1>2, <2>1, <2>2, <2>3 DEF Known, Locked, Past, Current, LeaseOf
<1>6. CASE MarkAttempt(p)
  <2>1. CASE Current(loaded[p].token.version)
    BY <1>1, <1>2, <1>6, <2>1
       DEF MarkAttempt, Goto, row, past, Known, Locked, Past, Current, LeaseOf
  <2>2. CASE ~Current(loaded[p].token.version)
    BY <1>2, <1>6, <2>2, OwnStep DEF MarkAttempt, Known, Locked
  <2>3. QED
    BY <2>1, <2>2
<1>7. CASE MarkFails(p) \/ RedeemFails(p)
  BY <1>1, <1>2, <1>7
     DEF MarkFails, RedeemFails, Goto, row, past, Known, Locked, Past, Current, LeaseOf
<1>8. CASE Redeem(p)
  BY <1>1, <1>2, <1>8 DEF Redeem, Goto, row, Known, Locked, Past, Current, LeaseOf
<1>9. CASE CommitRefresh(p)
  <2>1. CASE Current(loaded[p].token.version)
    <3>1. PICK l \in Leases : l = lease[p]
      BY <1>1
    <3>2. /\ token'.version = l.version /\ token'.grant = l.grant
          /\ Provide(p, l) /\ l.version \in Nat
      BY <1>1, <1>9, <2>1, <3>1 DEF CommitRefresh
    <3>3. l = LeaseOf(token)' /\ Past(l.version)'
      BY <3>2 DEF LeaseOf, Past, Leases
    <3>4. QED
      BY <3>2, <3>3, OwnStep
  <2>2. CASE ~Current(loaded[p].token.version)
    BY <1>2, <1>9, <2>2, OwnStep DEF CommitRefresh, Known, Locked
  <2>3. QED
    BY <2>1, <2>2
<1>10. CASE MarkReauthorization(p) \/ RecordConfigurationError(p)
  BY <1>2, <1>10, OwnStep DEF MarkReauthorization, RecordConfigurationError, Known, Locked
<1>11. CASE RecordTemporaryFailure(p)
  <2>1. PICK l : l = LeaseOf(loaded[p].token)
    OBVIOUS
  <2>2. Judged(loaded[p].token.version)
          => l.version \in Nat /\ Past(l.version)' /\ l = LeaseOf(token)'
    BY <1>1, <1>2, <1>11, <2>1
       DEF RecordTemporaryFailure, Judged, Known, Current, LeaseOf, Past
  <2>3. lock = p
    BY <1>2, <1>11 DEF RecordTemporaryFailure, Known, Locked
  <2>4. \/ Judged(loaded[p].token.version) /\ Provide(p, l)
        \/ Refuse(p) \/ Retry(p)
    BY <1>11, <2>1 DEF RecordTemporaryFailure
  <2>5. QED
    BY <2>2, <2>3, <2>4, OwnStep
<1>12. CASE CheckAccount(p) \/ SyncAccount(p)
  BY <1>2, <1>12, OwnStep DEF CheckAccount, SyncAccount, Known, Locked
<1>13. CASE GraphAccepts(p) \/ GraphRejects(p) \/ GraphFails(p)
  <2>1. PICK l \in Leases : l = lease[p]
    BY <1>1
  <2>2. /\ pc[p] = "calling" /\ loaded[p] = NoLoad /\ UNCHANGED <<status, token>>
        /\ refused => refused'
    BY <1>2, <1>13 DEF GraphAccepts, GraphRejects, GraphFails, row, past, Known, Locked
  <2>3. Past(l.version)' /\ (Current(l.version)' => l = LeaseOf(token)')
    BY <1>2, <2>1, <2>2 DEF Known, Past, Current, LeaseOf
  <2>4. Past(0)' /\ ~Current(0)' /\ NoLease.version = 0 /\ NoLoad.token.version = 0
    BY <1>1, <2>2 DEF Past, Current, NoLoad, NoToken, NoLease
  <2>5. ASSUME NEW step \in {"healthy", "denied", "failing"}, Conclude(p, step)
        PROVE  Known(p)'
    <3>1. /\ pc'[p] = step /\ rejected'[p] = 0 /\ loaded'[p] = NoLoad
          /\ lease'[p] \in {l, NoLease}
      BY <1>1, <2>1, <2>2, <2>5 DEF Conclude, Goto
    <3>2. QED
      BY <2>3, <2>4, <3>1 DEF Known, Locked
  <2>6. ASSUME Ask(p, l.version), refused' = (refused \/ Current(l.version))
        PROVE  Known(p)'
    <3>1. /\ pc'[p] = "acquiring" /\ rejected'[p] = l.version /\ loaded'[p] = NoLoad
          /\ lease'[p] = NoLease
      BY <1>1, <2>2, <2>6 DEF Ask, Goto
    <3>2. Current(l.version)' => refused'
      BY <2>2, <2>6 DEF Current
    <3>3. QED
      BY <2>3, <2>4, <3>1, <3>2 DEF Known, Locked
  <2>7. CASE GraphAccepts(p)
    BY <2>2, <2>5, <2>7, OwnStep DEF GraphAccepts
  <2>8. CASE GraphRejects(p)
    BY <2>1, <2>5, <2>6, <2>8 DEF GraphRejects
  <2>9. CASE GraphFails(p)
    BY <2>5, <2>9 DEF GraphFails
  <2>10. QED
    BY <1>13, <2>7, <2>8, <2>9
<1>14. CASE \/ RecordHealth(p) \/ RecordGraphDenial(p) \/ RecordGraphFailure(p)
            \/ SyncSucceeds(p) \/ RecordSyncFailure(p) \/ Abandon(p)
  BY <1>14, OwnStep DEF RecordHealth, RecordGraphDenial, RecordGraphFailure, SyncSucceeds,
                        RecordSyncFailure, Abandon
<1>15. QED
  BY <1>3, <1>4, <1>5, <1>6, <1>7, <1>8, <1>9, <1>10, <1>11, <1>12, <1>13, <1>14
     DEF Refresh, Use

\* What users know stays true after each step, whoever takes it.
LEMMA KnownStep == ASSUME IInv, Next PROVE (\A q \in Users : Known(q))'
<1>1. TypeOK' /\ RowsOK' /\ Advance
  BY TypeStep, RowsStep, AdvanceStep
<1>2. ASSUME NEW q \in Users PROVE Known(q)'
  <2>1. CASE Refresh(q) \/ Use(q)
    BY <1>1, <2>1, KnownOwn
  <2>2. CASE Others \/ \E p \in Users \ {q} : Refresh(p) \/ Use(p)
    BY <1>1, <2>2, StillStep, KnownKept
  <2>3. QED
    BY <2>1, <2>2 DEF Next
<1>3. QED
  BY <1>2

-----------------------------------------------------------------------------
(* The answer of the token endpoint.                                         *)

\* While the redeemed token is stored, somebody is about to replace it: a step
\* that stores or deletes a token ends that, every other leaves it so.
LEMMA SpentStep == ASSUME IInv, Next PROVE SpentOK'
<1> SUFFICES ASSUME spent'
             PROVE  (\E p \in Users : pc[p] = "renewed" /\ Current(loaded[p].token.version))'
  BY DEF SpentOK
<1>1. pc \in [Users -> Steps] /\ loaded \in [Users -> Loads]
  BY DEF IInv, TypeOK
<1>2. ASSUME NEW p \in Users, Redeem(p)
      PROVE  (pc[p] = "renewed" /\ Current(loaded[p].token.version))'
  BY <1>1, <1>2 DEF Redeem, Goto, row, Current
<1>3. ASSUME NEW p \in Users, Refresh(p), ~Redeem(p)
      PROVE  spent /\ UNCHANGED token /\ ~(CommitRefresh(p) /\ Current(loaded[p].token.version))
  BY <1>3 DEF Refresh, LoadRefused, LoadUsable, LoadDue, MarkAttempt, MarkFails,
     RedeemFails,
              CommitRefresh, MarkReauthorization, RecordConfigurationError,
              RecordTemporaryFailure, row, past
<1>4. ASSUME NEW p \in Users, Use(p)
      PROVE  spent /\ UNCHANGED token /\ pc[p] # "renewed"
  <2>1. CASE Abandon(p)
    BY <2>1 DEF Abandon, row
  <2>2. CASE ~Abandon(p)
    BY <1>4, <2>2 DEF Use, CheckAccount, SyncAccount, GraphAccepts, GraphRejects,
       GraphFails,
              RecordHealth, RecordGraphDenial, RecordGraphFailure, SyncSucceeds,
              RecordSyncFailure, row, past
  <2>3. QED
    BY <2>1, <2>2
<1>5. ASSUME Others PROVE spent /\ token'.version = token.version
  <2>1. CASE TokenAges
    BY <2>1, Typing DEF IInv, TokenAges, past, RowTypes, Tokens
  <2>2. CASE ~TokenAges
    BY <1>5, <2>2 DEF Others, PersistAuthorization, AuthorizationFails, Disable, Enable,
       Delete,
                      RetryElapses, past
  <2>3. QED
    BY <2>1, <2>2
<1>6. ASSUME ~\E p \in Users : Redeem(p)
      PROVE  \E p \in Users : (pc[p] = "renewed" /\ Current(loaded[p].token.version))'
  <2>1. spent /\ token'.version = token.version
    BY <1>3, <1>4, <1>5, <1>6 DEF Next
  <2>2. PICK q \in Users : pc[q] = "renewed" /\ Current(loaded[q].token.version)
    BY <2>1 DEF IInv, SpentOK
  <2>3. ~Refresh(q) /\ ~Use(q)
    <3>1. ~Use(q)
      BY <1>4, <2>2
    <3>2. ~CommitRefresh(q)
      BY <1>3, <1>6, <2>2 DEF Refresh
    <3>3. ~Refresh(q)
      BY <1>6, <2>2, <3>2 DEF Refresh, LoadRefused, LoadUsable, LoadDue, Entered,
         MarkAttempt,
         MarkFails, RedeemFails, MarkReauthorization, RecordConfigurationError,
         RecordTemporaryFailure
    <3>4. QED
      BY <3>1, <3>3
  <2>4. Still(q)
    BY <2>3, StillStep DEF Next
  <2>5. QED
    BY <2>1, <2>2, <2>4 DEF Still, Current
<1>7. QED
  BY <1>2, <1>6

-----------------------------------------------------------------------------
(* The inductive invariant.                                                  *)

\* The invariant holds in the initial state.
LEMMA InitStep == Init => IInv
<1> SUFFICES ASSUME Init PROVE IInv
  OBVIOUS
<1>1. TypeOK
  BY ConstantsOK, Nothing DEF Init, TypeOK, Statuses, Steps
<1>2. RowsOK
  BY DEF Init, RowsOK, Past, NewestGrantWins, HasToken, StatusMatchesToken,
     DegradedHasCause,
         NoToken
<1>3. ASSUME NEW p \in Users PROVE Known(p)
  BY DEF Init, Known, Locked, Past, Current, NoLoad, NoLease, NoToken
<1>4. SpentOK
  BY DEF Init, SpentOK
<1>5. QED
  BY <1>1, <1>2, <1>3, <1>4 DEF IInv

\* A step that changes no variable keeps everything.
LEMMA StutterStep == ASSUME IInv, UNCHANGED vars PROVE IInv'
<1> USE DEF vars, row, user, past
<1>1. TypeOK'
  BY DEF IInv, TypeOK
<1>2. RowsOK'
  BY SameRows DEF IInv, Columns
<1>3. ASSUME NEW p \in Users PROVE Known(p)'
  BY DEF IInv, Known, Past, Current, LeaseOf
<1>4. SpentOK'
  BY DEF IInv, SpentOK, Current
<1>5. QED
  BY <1>1, <1>2, <1>3, <1>4 DEF IInv

\* The invariant holds in every state: whatever the other writers did since a
\* user read the rows, it is right about what it still relies on.
THEOREM Invariance == Spec => []IInv
<1>1. IInv /\ [Next]_vars => IInv'
  <2>1. ASSUME IInv, Next PROVE IInv'
    BY <2>1, TypeStep, RowsStep, KnownStep, SpentStep DEF IInv
  <2>2. QED
    BY <2>1, StutterStep
<1>2. QED
  BY InitStep, <1>1, PTL DEF Spec

-----------------------------------------------------------------------------
(* The properties.                                                           *)

\* Every variable keeps its type; in particular nobody asks for a token more
\* than twice in accessToken's loop.
THEOREM TypeCorrect == Spec => []TypeOK
<1>1. IInv => TypeOK
  BY DEF IInv
<1>2. QED
  BY <1>1, Invariance, PTL

\* No refresh that began under an older authorisation overwrites a newer one.
THEOREM NewestGrant == Spec => []NewestGrantWins
<1>1. IInv => NewestGrantWins
  BY DEF IInv, RowsOK
<1>2. QED
  BY <1>1, Invariance, PTL

\* No late refusal of an older token makes the account ask for a new consent.
THEOREM CurrentVerdicts == Spec => []VerdictsAreCurrent
<1>1. IInv => VerdictsAreCurrent
  BY DEF IInv, RowsOK, VerdictsAreCurrent
<1>2. QED
  BY <1>1, Invariance, PTL

\* A lease whose version is stored is the stored token.
THEOREM LeaseNames == Spec => []LeaseNamesItsToken
<1>1. IInv => LeaseNamesItsToken
  BY DEF IInv, Known, LeaseNamesItsToken
<1>2. QED
  BY <1>1, Invariance, PTL

\* No refresh token is redeemed for an access token that has been replaced.
THEOREM ReasonedRefresh == Spec => []RefreshHasReason
<1>1. IInv => RefreshHasReason
  BY DEF IInv, Known, RefreshHasReason
<1>2. QED
  BY <1>1, Invariance, PTL

\* No two users redeem the same refresh token: the first one holds the mutex
\* until its answer is stored.
THEOREM SingleRedemption == Spec => []RedeemedOnce
<1>1. ASSUME IInv PROVE RedeemedOnce
  <2>1. SUFFICES ASSUME NEW p \in Users, pc[p] = "redeeming", spent PROVE FALSE
    BY DEF RedeemedOnce
  <2>2. PICK q \in Users : pc[q] = "renewed"
    BY <1>1, <2>1 DEF IInv, SpentOK
  <2>3. lock = p /\ lock = q
    BY <1>1, <2>1, <2>2 DEF IInv, Known, Locked
  <2>4. QED
    BY <2>1, <2>2, <2>3
<1>2. QED
  BY <1>1, Invariance, PTL

\* An account is degraded only while a failure is on record.
THEOREM CauseOfDegradation == Spec => []DegradedHasCause
<1>1. IInv => DegradedHasCause
  BY DEF IInv, RowsOK
<1>2. QED
  BY <1>1, Invariance, PTL

\* Status and token row agree.
THEOREM StatusAndToken == Spec => []StatusMatchesToken
<1>1. IInv => StatusMatchesToken
  BY DEF IInv, RowsOK
<1>2. QED
  BY <1>1, Invariance, PTL

\* Nothing but the administrator's own actions ends a disabled or a deleted
\* status.
THEOREM DisabledAccountStays == Spec => DisabledStays
<1> DEFINE Stays == /\ status = "disabled" => status' \in {"disabled", "deleted"} \/ Enable
                    /\ status = "deleted" => status' = "deleted"
<1>1. ASSUME NEW p \in Users, Refresh(p) PROVE Stays
  BY <1>1 DEF Refresh, LoadRefused, LoadUsable, LoadDue, MarkAttempt, MarkFails, Redeem,
              RedeemFails, CommitRefresh, MarkReauthorization, RecordConfigurationError,
              RecordTemporaryFailure, Judged, Listed, row
<1>2. ASSUME NEW p \in Users, Use(p) PROVE Stays
  BY <1>2 DEF Use, CheckAccount, SyncAccount, GraphAccepts, GraphRejects, GraphFails,
              RecordHealth, RecordGraphDenial, RecordGraphFailure, SyncSucceeds,
              RecordSyncFailure, Abandon, Judged, Listed, row
<1>3. ASSUME Others PROVE Stays
  BY <1>3 DEF Others, PersistAuthorization, AuthorizationFails, Disable, Enable, Delete,
              TokenAges, RetryElapses, Listed, HasToken, NoToken
<1>4. [Next]_vars => [Stays]_vars
  BY <1>1, <1>2, <1>3 DEF Next
<1>5. QED
  BY <1>4, PTL DEF Spec, DisabledStays
===============================================================================
