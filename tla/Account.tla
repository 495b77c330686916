------------------------------- MODULE Account -------------------------------
(* One Outlook account: its status, its failure counters and its token row,  *)
(* under everything that writes them: the token manager, the health check,   *)
(* the sync worker, finished or failed authorisations and the administrator. *)
(* The token manager serialises its callers with a mutex per account; all    *)
(* others write the same rows without it, and rely on the token version.     *)
EXTENDS Naturals

CONSTANTS
  Checkers,   \* callers of CheckAccount: health check worker, administrator
  Syncer,     \* the sync worker that holds the account's mail mutex
  Nobody,     \* owner of a free mutex
  Threshold,  \* degradedThreshold: failures in a row that degrade an account
  MaxVersion  \* bound: tokens stored for the account

Users == Checkers \cup {Syncer}

ASSUME ConstantsOK ==
  /\ Syncer \notin Checkers /\ Nobody \notin Users
  /\ Threshold \in Nat \ {0} /\ MaxVersion \in Nat

VARIABLES
  status,         \* accounts.status, "deleted" once the row is gone
  token,          \* the account_tokens row; version 0 when there is none
  tokenFailures,  \* accounts.consecutive_failures, counted up to Threshold
  syncFailures,   \* accounts.sync_failures, counted up to Threshold
  waiting,        \* accounts.next_retry_at_utc lies in the future
  lock,           \* owner of the token manager's mutex
  pc,             \* where a user is
  attempt,        \* its round of accessToken's loop
  rejected,       \* version that Graph rejected and it asks to replace, or 0
  loaded,         \* what load read
  lease,          \* the access token it uses, or is about to store
  grants,         \* history: authorisations stored so far
  refused,        \* history: Graph answered the stored access token with 401
  spent,          \* history: the stored refresh token is redeemed, the answer not lost
  late            \* history: the last verdict was on an older authorisation

row  == <<status, token, tokenFailures, syncFailures, waiting>>
user == <<lock, pc, attempt, rejected, loaded, lease>>
past == <<grants, refused, spent, late>>
vars == <<row, user, past>>

Statuses == {"pending", "active", "degraded", "reauth_required", "disabled", "deleted"}
Ages     == {"fresh", "due", "expired"}
Counts   == 0..Threshold
Versions == 0..MaxVersion
Tokens   == [version : Versions, grant : Versions, age : Ages]
Leases   == [version : Versions, grant : Versions]
Loads    == [status : Statuses, token : Tokens, failures : Counts]
Locked   == {"retrying", "marking", "redeeming", "renewed", "revoked",
             "misconfigured", "unavailable"}
Steps    == Locked \cup {"idle", "acquiring", "calling", "healthy", "denied", "failing"}

NoToken == [version |-> 0, grant |-> 0, age |-> "fresh"]
NoLease == [version |-> 0, grant |-> 0]
NoLoad  == [status |-> "deleted", token |-> NoToken, failures |-> 0]

OneMore(n)  == IF n < Threshold THEN n + 1 ELSE n
LeaseOf(t)  == [version |-> t.version, grant |-> t.grant]
HasToken    == token.version > 0
Listed      == status \notin {"disabled", "deleted"}
\* EXISTS (SELECT 1 FROM account_tokens WHERE token_version = ?)
Current(v)  == v > 0 /\ token.version = v

Init ==
  /\ status = "pending" /\ token = NoToken
  /\ tokenFailures = 0 /\ syncFailures = 0 /\ waiting = FALSE
  /\ lock = Nobody
  /\ pc = [p \in Users |-> "idle"]
  /\ attempt = [p \in Users |-> 1]
  /\ rejected = [p \in Users |-> 0]
  /\ loaded = [p \in Users |-> NoLoad]
  /\ lease = [p \in Users |-> NoLease]
  /\ grants = 0
  /\ refused = FALSE /\ spent = FALSE /\ late = FALSE
-----------------------------------------------------------------------------
(* Callers of the token manager.                                             *)

Goto(p, step) == pc' = [pc EXCEPT ![p] = step]

Release(p) == lock' = IF lock = p THEN Nobody ELSE lock

\* p forgets what it holds and is at rest.
Rest(p) ==
  /\ Goto(p, "idle")
  /\ Release(p)
  /\ attempt' = [attempt EXCEPT ![p] = 1]
  /\ rejected' = [rejected EXCEPT ![p] = 0]
  /\ loaded' = [loaded EXCEPT ![p] = NoLoad]
  /\ lease' = [lease EXCEPT ![p] = NoLease]

\* p asks for an access token; a version says which one Graph rejected.
Ask(p, version) ==
  /\ Goto(p, "acquiring")
  /\ rejected' = [rejected EXCEPT ![p] = version]
  /\ lease' = [lease EXCEPT ![p] = NoLease]
  /\ UNCHANGED <<lock, attempt, loaded>>

CheckAccount(p) ==
  /\ p \in Checkers /\ pc[p] = "idle" /\ Listed
  /\ Ask(p, 0)
  /\ UNCHANGED <<row, past>>

SyncAccount(p) ==
  /\ p = Syncer /\ pc[p] = "idle" /\ status \in {"active", "degraded"}
  /\ Ask(p, 0)
  /\ UNCHANGED <<row, past>>

\* accessToken returns an error: a check ends, a sync records it or, while it
\* still looks for the folders, ends too.
Refuse(p) ==
  \/ Rest(p)
  \/ /\ p = Syncer
     /\ Goto(p, "failing")
     /\ Release(p)
     /\ attempt' = [attempt EXCEPT ![p] = 1]
     /\ rejected' = [rejected EXCEPT ![p] = 0]
     /\ loaded' = [loaded EXCEPT ![p] = NoLoad]
     /\ lease' = [lease EXCEPT ![p] = NoLease]

\* accessToken returns the lease l.
Provide(p, l) ==
  /\ Goto(p, "calling")
  /\ Release(p)
  /\ attempt' = [attempt EXCEPT ![p] = 1]
  /\ loaded' = [loaded EXCEPT ![p] = NoLoad]
  /\ lease' = [lease EXCEPT ![p] = l]
  /\ UNCHANGED rejected

\* Bug: the loop has no limit.
RetryForEver(p) ==
  /\ Goto(p, "retrying")
  /\ attempt' = [attempt EXCEPT ![p] = @ + 1]
  /\ loaded' = [loaded EXCEPT ![p] = NoLoad]
  /\ lease' = [lease EXCEPT ![p] = NoLease]
  /\ UNCHANGED <<lock, rejected>>

\* The loop goes round once more when somebody else changed the token.
Retry(p) ==
  IF attempt[p] = 1
  THEN /\ Goto(p, "retrying")
       /\ attempt' = [attempt EXCEPT ![p] = 2]
       /\ loaded' = [loaded EXCEPT ![p] = NoLoad]
       /\ lease' = [lease EXCEPT ![p] = NoLease]
       /\ UNCHANGED <<lock, rejected>>
  ELSE Refuse(p)

\* A cancelled request, a failed statement or the end of the process: whatever
\* p had obtained is lost.
Abandon(p) ==
  /\ pc[p] # "idle"
  /\ Rest(p)
  /\ spent' = IF pc[p] = "renewed" THEN FALSE ELSE spent
  /\ UNCHANGED <<row, grants, refused, late>>

-----------------------------------------------------------------------------
(* accessToken.  The token manager's statements are steps of their own: the  *)
(* mutex does not keep the other writers out.                                *)

\* Bug: callers are not serialised.
EnteredAnyway(p) == pc[p] \in {"acquiring", "retrying"}

\* The lock is taken with the first round, and kept for the second.
Entered(p) ==
  \/ pc[p] = "acquiring" /\ lock = Nobody
  \/ pc[p] = "retrying"

\* Bug: a rejected token is replaced although it has been already.
ShouldForceAnyway(p) == rejected[p] > 0

ShouldForce(p) == rejected[p] > 0 /\ token.version = rejected[p]
Usable(p) ==
  /\ ~ShouldForce(p)
  /\ token.age = "fresh" \/ (waiting /\ token.age = "due")
Delayed(p) == ~ShouldForce(p) /\ waiting /\ token.age = "expired"

LoadRefused(p) ==
  /\ Entered(p)
  /\ ~HasToken \/ status \in {"disabled", "reauth_required"} \/ Delayed(p)
  /\ Refuse(p)
  /\ UNCHANGED <<row, past>>

LoadUsable(p) ==
  /\ Entered(p)
  /\ HasToken /\ status \notin {"disabled", "reauth_required"} /\ Usable(p)
  /\ Provide(p, LeaseOf(token))
  /\ UNCHANGED <<row, past>>

LoadDue(p) ==
  /\ Entered(p)
  /\ HasToken /\ status \notin {"disabled", "reauth_required"}
  /\ ~Usable(p) /\ ~Delayed(p)
  /\ lock' = p
  /\ Goto(p, "marking")
  /\ loaded' = [loaded EXCEPT ![p] =
                  [status |-> status, token |-> token, failures |-> tokenFailures]]
  /\ UNCHANGED <<row, attempt, rejected, lease, past>>

\* refresh notes the attempt, under the version it loaded.
MarkAttempt(p) ==
  /\ pc[p] = "marking"
  /\ IF Current(loaded[p].token.version)
     THEN Goto(p, "redeeming") /\ UNCHANGED <<lock, attempt, rejected, loaded, lease>>
     ELSE Retry(p)
  /\ UNCHANGED <<row, past>>

\* The account has no client identifier, or the note fails, which counts as a
\* network error.
MarkFails(p) ==
  /\ pc[p] = "marking"
  /\ \E outcome \in {"misconfigured", "unavailable"} : Goto(p, outcome)
  /\ UNCHANGED <<row, lock, attempt, rejected, loaded, lease, past>>

\* The token endpoint redeems the refresh token.
Redeem(p) ==
  /\ pc[p] = "redeeming" /\ loaded[p].token.version < MaxVersion
  /\ spent' = Current(loaded[p].token.version)
  /\ lease' = [lease EXCEPT ![p] = [version |-> loaded[p].token.version + 1,
                                    grant |-> loaded[p].token.grant]]
  /\ Goto(p, "renewed")
  /\ UNCHANGED <<row, lock, attempt, rejected, loaded, grants, refused, late>>

\* It refuses the token, the client or the request, grants too little, or its
\* answer does not arrive.
RedeemFails(p) ==
  /\ pc[p] = "redeeming"
  /\ \E answer \in {"revoked", "misconfigured", "unavailable"} : Goto(p, answer)
  /\ UNCHANGED <<row, lock, attempt, rejected, loaded, lease, past>>

\* Bug: the new token is stored without comparing versions.
CommitRefreshBlindly(p) ==
  /\ pc[p] = "renewed" /\ HasToken
  /\ token' = [version |-> lease[p].version, grant |-> lease[p].grant, age |-> "fresh"]
  /\ refused' = FALSE /\ spent' = FALSE
  /\ IF Listed
     THEN /\ status' = IF syncFailures = 0 THEN "active" ELSE status
          /\ tokenFailures' = 0 /\ waiting' = FALSE
     ELSE UNCHANGED <<status, tokenFailures, waiting>>
  /\ Provide(p, lease[p])
  /\ UNCHANGED <<syncFailures, grants, late>>

CommitRefresh(p) ==
  /\ pc[p] = "renewed"
  /\ IF Current(loaded[p].token.version)
     THEN /\ token' = [version |-> lease[p].version, grant |-> lease[p].grant, age |-> "fresh"]
          /\ refused' = FALSE /\ spent' = FALSE
          /\ IF Listed
             THEN /\ status' = IF syncFailures = 0 THEN "active" ELSE status
                  /\ tokenFailures' = 0 /\ waiting' = FALSE
             ELSE UNCHANGED <<status, tokenFailures, waiting>>
          /\ Provide(p, lease[p])
     ELSE Retry(p) /\ UNCHANGED <<token, refused, spent, status, tokenFailures, waiting>>
  /\ UNCHANGED <<syncFailures, grants, late>>

\* Bugs: verdicts are recorded without comparing versions, or although the
\* account has been disabled.
JudgedBlindly(version) == Listed /\ HasToken
JudgedUnlisted(version) == Current(version)

\* The version the verdict is about is still stored, and the account listed.
Judged(version) == Listed /\ Current(version)

MarkReauthorization(p) ==
  /\ pc[p] = "revoked"
  /\ IF Judged(loaded[p].token.version)
     THEN /\ status' = "reauth_required" /\ late' = (loaded[p].token.grant # grants)
          /\ tokenFailures' = OneMore(tokenFailures) /\ waiting' = FALSE
          /\ Refuse(p)
     ELSE Retry(p) /\ UNCHANGED <<status, late, tokenFailures, waiting>>
  /\ UNCHANGED <<token, syncFailures, grants, refused, spent>>

RecordConfigurationError(p) ==
  /\ pc[p] = "misconfigured"
  /\ IF Current(loaded[p].token.version) THEN Refuse(p) ELSE Retry(p)
  /\ UNCHANGED <<row, past>>

\* Status and count are computed from what was loaded.  A token that has not
\* expired yet is used all the same.
RecordTemporaryFailure(p) ==
  /\ pc[p] = "unavailable"
  /\ LET old == loaded[p]
         failures == OneMore(old.failures)
     IN IF Judged(old.token.version)
        THEN /\ status' = IF failures = Threshold /\ old.status = "active"
                          THEN "degraded" ELSE old.status
             /\ tokenFailures' = failures /\ waiting' = TRUE
             /\ IF old.token.age # "expired"
                THEN Provide(p, LeaseOf(old.token)) ELSE Refuse(p)
        ELSE Retry(p) /\ UNCHANGED <<status, tokenFailures, waiting>>
  /\ UNCHANGED <<token, syncFailures, past>>
-----------------------------------------------------------------------------
(* The lease is used for a call of Graph.                                    *)

\* p is done with Graph; only a check still needs to know which token it used.
Conclude(p, step) ==
  /\ Goto(p, step)
  /\ rejected' = [rejected EXCEPT ![p] = 0]
  /\ lease' = IF p = Syncer THEN [lease EXCEPT ![p] = NoLease] ELSE lease
  /\ UNCHANGED <<lock, attempt, loaded>>

\* A sync goes on with its next request, or is through.
GraphAccepts(p) ==
  /\ pc[p] = "calling"
  /\ (p = Syncer /\ Ask(p, 0)) \/ Conclude(p, "healthy")
  /\ UNCHANGED <<row, past>>

\* 401: the token is replaced once per request.
GraphRejects(p) ==
  /\ pc[p] = "calling"
  /\ refused' = (refused \/ Current(lease[p].version))
  /\ IF rejected[p] = 0
     THEN Ask(p, lease[p].version)
     ELSE Conclude(p, IF p = Syncer THEN "failing" ELSE "denied")
  /\ UNCHANGED <<row, grants, spent, late>>

\* 403, or no answer.
GraphFails(p) ==
  /\ pc[p] = "calling"
  /\ (p \in Checkers /\ Conclude(p, "denied")) \/ Conclude(p, "failing")
  /\ UNCHANGED <<row, past>>

RecordHealth(p) ==
  /\ p \in Checkers /\ pc[p] = "healthy"
  /\ IF Judged(lease[p].version)
     THEN /\ status' = IF syncFailures = 0 THEN "active" ELSE status
          /\ tokenFailures' = 0 /\ waiting' = FALSE
     ELSE UNCHANGED <<status, tokenFailures, waiting>>
  /\ Rest(p)
  /\ UNCHANGED <<token, syncFailures, past>>

RecordGraphDenial(p) ==
  /\ pc[p] = "denied"
  /\ IF Judged(lease[p].version)
     THEN /\ status' = "reauth_required" /\ late' = (lease[p].grant # grants)
          /\ tokenFailures' = OneMore(tokenFailures)
     ELSE UNCHANGED <<status, late, tokenFailures>>
  /\ Rest(p)
  /\ UNCHANGED <<token, syncFailures, waiting, grants, refused, spent>>

RecordGraphFailure(p) ==
  /\ p \in Checkers /\ pc[p] = "failing"
  /\ IF Judged(lease[p].version)
     THEN /\ tokenFailures' = OneMore(tokenFailures)
          /\ status' = IF tokenFailures' = Threshold THEN "degraded" ELSE status
     ELSE UNCHANGED <<status, tokenFailures>>
  /\ Rest(p)
  /\ UNCHANGED <<token, syncFailures, waiting, past>>

\* Bug: the failures are forgotten, but the account stays degraded.
SyncSucceedsQuietly(p) ==
  /\ p = Syncer /\ pc[p] = "healthy"
  /\ syncFailures' = IF Listed /\ status # "reauth_required" THEN 0 ELSE syncFailures
  /\ Rest(p)
  /\ UNCHANGED <<status, token, tokenFailures, waiting, past>>

SyncSucceeds(p) ==
  /\ p = Syncer /\ pc[p] = "healthy"
  /\ IF Listed /\ status # "reauth_required"
     THEN /\ syncFailures' = 0
          /\ status' = IF status = "degraded" THEN "active" ELSE status
     ELSE UNCHANGED <<status, syncFailures>>
  /\ Rest(p)
  /\ UNCHANGED <<token, tokenFailures, waiting, past>>

RecordSyncFailure(p) ==
  /\ p = Syncer /\ pc[p] = "failing"
  /\ IF Listed
     THEN /\ syncFailures' = OneMore(syncFailures)
          /\ status' = IF syncFailures' = Threshold /\ status = "active"
                       THEN "degraded" ELSE status
     ELSE UNCHANGED <<status, syncFailures>>
  /\ Rest(p)
  /\ UNCHANGED <<token, tokenFailures, waiting, past>>
-----------------------------------------------------------------------------
(* Writers that do not ask for a token.                                      *)

\* Bug: replacing the token row does not change its version.
PersistSameVersion ==
  /\ Listed /\ grants < MaxVersion
  /\ grants' = grants + 1
  /\ token' = [version |-> IF HasToken THEN token.version ELSE 1, grant |-> grants',
               age |-> "fresh"]
  /\ refused' = FALSE /\ spent' = FALSE
  /\ status' = "active" /\ tokenFailures' = 0 /\ waiting' = FALSE
  /\ UNCHANGED <<syncFailures, user, late>>

\* persistAuthorization: a device authorisation, an import or a replaced
\* credential is stored, whatever the account's users are doing.
PersistAuthorization ==
  /\ Listed /\ token.version < MaxVersion
  /\ grants' = grants + 1
  /\ token' = [version |-> token.version + 1, grant |-> grants', age |-> "fresh"]
  /\ refused' = FALSE /\ spent' = FALSE
  /\ status' = "active" /\ tokenFailures' = 0 /\ waiting' = FALSE
  /\ UNCHANGED <<syncFailures, user, late>>

\* recordAuthorizationFailure: an attempt to authorise failed, or showed that
\* the owner has to consent again.
AuthorizationFails ==
  /\ Listed
  /\ tokenFailures' = OneMore(tokenFailures)
  /\ \/ status' = "reauth_required" /\ late' = FALSE
     \/ UNCHANGED <<status, late>>
  /\ UNCHANGED <<token, syncFailures, waiting, user, grants, refused, spent>>

Disable ==
  /\ Listed
  /\ status' = "disabled"
  /\ UNCHANGED <<token, tokenFailures, syncFailures, waiting, user, past>>

\* Bug: an account without a token is enabled like any other.
EnableAlways ==
  /\ status = "disabled"
  /\ status' = IF syncFailures > 0 THEN "degraded" ELSE "active"
  /\ UNCHANGED <<token, tokenFailures, syncFailures, waiting, user, past>>

Enable ==
  /\ status = "disabled"
  /\ status' = IF ~HasToken THEN "pending"
               ELSE IF syncFailures > 0 THEN "degraded" ELSE "active"
  /\ UNCHANGED <<token, tokenFailures, syncFailures, waiting, user, past>>

\* DeleteBatch: the rows go; the identifier is never used again.
Delete ==
  /\ status # "deleted"
  /\ status' = "deleted" /\ token' = NoToken
  /\ tokenFailures' = 0 /\ syncFailures' = 0 /\ waiting' = FALSE
  /\ refused' = FALSE /\ spent' = FALSE
  /\ UNCHANGED <<user, grants, late>>

\* refreshAt, then access_expires_at_utc pass.
TokenAges ==
  /\ HasToken /\ token.age # "expired"
  /\ token' = [token EXCEPT !.age = IF @ = "fresh" THEN "due" ELSE "expired"]
  /\ UNCHANGED <<status, tokenFailures, syncFailures, waiting, user, past>>

RetryElapses ==
  /\ waiting /\ waiting' = FALSE
  /\ UNCHANGED <<status, token, tokenFailures, syncFailures, user, past>>

-----------------------------------------------------------------------------
Refresh(p) ==
  \/ LoadRefused(p) \/ LoadUsable(p) \/ LoadDue(p)
  \/ MarkAttempt(p) \/ MarkFails(p) \/ Redeem(p) \/ RedeemFails(p)
  \/ CommitRefresh(p) \/ MarkReauthorization(p)
  \/ RecordConfigurationError(p) \/ RecordTemporaryFailure(p)

Use(p) ==
  \/ CheckAccount(p) \/ SyncAccount(p)
  \/ GraphAccepts(p) \/ GraphRejects(p) \/ GraphFails(p)
  \/ RecordHealth(p) \/ RecordGraphDenial(p) \/ RecordGraphFailure(p)
  \/ SyncSucceeds(p) \/ RecordSyncFailure(p)
  \/ Abandon(p)

Others ==
  \/ PersistAuthorization \/ AuthorizationFails
  \/ Disable \/ Enable \/ Delete
  \/ TokenAges \/ RetryElapses

Next == (\E p \in Users : Refresh(p) \/ Use(p)) \/ Others

Spec == Init /\ [][Next]_vars
-----------------------------------------------------------------------------
(* Properties.                                                               *)

\* Every variable keeps its type.
TypeOK ==
  /\ status \in Statuses /\ token \in Tokens
  /\ tokenFailures \in Counts /\ syncFailures \in Counts /\ waiting \in BOOLEAN
  /\ lock \in Users \cup {Nobody}
  /\ pc \in [Users -> Steps]
  /\ attempt \in [Users -> {1, 2}]
  /\ rejected \in [Users -> Versions]
  /\ loaded \in [Users -> Loads]
  /\ lease \in [Users -> Leases]
  /\ grants \in Versions
  /\ refused \in BOOLEAN /\ spent \in BOOLEAN /\ late \in BOOLEAN

\* The stored token belongs to the authorisation stored last: a refresh that
\* began under an older one does not overwrite it.
NewestGrantWins == HasToken => token.grant = grants

\* A required re-authorisation is a verdict about the authorisation stored
\* last, or the outcome of a failed attempt at a new one; a refusal of an older
\* token that comes in late does not discredit its successor.
VerdictsAreCurrent == status = "reauth_required" => ~late

\* The version of a lease names its token: a lease of the version that is stored
\* is the token that is stored.  The forced refresh after a 401 relies on it.
LeaseNamesItsToken ==
  \A p \in Users : pc[p] = "calling" /\ Current(lease[p].version)
    => lease[p] = LeaseOf(token)

\* A refresh token is redeemed because its access token was about to expire, or
\* because Graph rejected that access token, not one that has been replaced.
RefreshHasReason ==
  \A p \in Users : pc[p] = "redeeming" =>
    loaded[p].token.age # "fresh" \/ refused \/ ~Current(loaded[p].token.version)

\* No two users redeem the same refresh token; it is redeemed again only if
\* the process lost the answer.
RedeemedOnce ==
  \A p \in Users : pc[p] = "redeeming" /\ spent => ~Current(loaded[p].token.version)

\* An account is shown as degraded only while some failure is on record: no
\* order of successes and failures leaves the status behind.
DegradedHasCause == status = "degraded" => tokenFailures > 0 \/ syncFailures > 0

\* An account that is offered for synchronisation has a token; a pending one
\* has none.
StatusMatchesToken ==
  /\ status \in {"active", "degraded"} => HasToken
  /\ status = "pending" => ~HasToken

\* A disabled account stays disabled until the administrator enables or deletes
\* it, although refreshes, checks and syncs may be under way; a deleted one
\* stays deleted.
DisabledStays ==
  [][/\ status = "disabled" => status' \in {"disabled", "deleted"} \/ Enable
     /\ status = "deleted" => status' = "deleted"]_vars

\* Tests say that neither a token refresh nor a check hides an existing sync
\* failure (TestSuccessfulTokenRefreshDoesNotHideExistingSyncFailure,
\* TestCheckAccountDoesNotHideExistingSyncFailure).
RefreshHidesNoSyncFailure ==
  [][status = "degraded" /\ syncFailures > 0 /\ (\E p \in Users : Refresh(p))
       => status' # "active"]_vars
===============================================================================
