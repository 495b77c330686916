------------------------------ MODULE Authorize ------------------------------
(* How an imported account gets its Microsoft credentials: device-code       *)
(* authorisations, which live in memory, and credential imports, which are   *)
(* staged in the database and resumed at every unlock. Both store through    *)
(* the same transaction, while the administrator edits, disables and deletes *)
(* accounts. The server may stop at any step.                                *)
EXTENDS Naturals, FiniteSets

CONSTANTS
  Accounts,   \* account ids; an id is never used again
  Addresses,  \* mail addresses
  People,     \* stable Microsoft user ids
  MailOf,     \* person -> the primary address Microsoft tells
  Imported,   \* address -> the id made up when the profile cannot be read
  Flows,      \* device authorisations
  Lines,      \* lines of the credential import
  Runs,       \* processings of the import at the same time
  Overwrite,  \* overwrite_existing
  Nothing,    \* no person, account, address or flow
  MaxStops    \* bound: stops of the server

ASSUME AuthorizeConstants ==
  /\ MailOf \in [People -> Addresses] /\ Imported \in [Addresses -> People]
  /\ \A x \in Addresses : MailOf[Imported[x]] = x
  /\ Nothing \notin Accounts \cup Addresses \cup People \cup Flows
  /\ Overwrite \in BOOLEAN /\ MaxStops \in Nat

VARIABLES
  rows,     \* the accounts table
  flow,     \* authorisation jobs
  current,  \* accountJobs: the flow an account has, or Nothing
  poller,   \* what is at work for a flow
  edit,     \* an administrator's change whose flow is not invalidated yet
  import,   \* state of the import job
  line,     \* its lines: address, owner of the credential, state, staged secret
  run,      \* where a processing is
  task,     \* run and line -> where the line's processing is and what it found
  stops,    \* stops so far
  stopped,  \* history: flows cancelled before they began to store
  doubled,  \* history: two processings of the import at the same time
  neglected \* history: lines given up without a verdict by a processing that completed

authorizeFlows  == <<flow, current, poller, stopped>>
authorizeImport == <<import, line, run, task, doubled, neglected>>
authorizeVars   == <<rows, authorizeFlows, edit, authorizeImport, stops>>

NoAccount == [address |-> Nothing, person |-> Nothing, status |-> "absent"]
NoFlow    == [state |-> "none", account |-> Nothing, address |-> Nothing,
              person |-> Nothing, confirmed |-> FALSE]
NoLine    == [address |-> Nothing, person |-> Nothing, state |-> "none", secret |-> FALSE]
NoTask    == [step |-> "none", account |-> Nothing, person |-> Nothing, found |-> "nothing"]
NoEdit    == [account |-> Nothing, address |-> Nothing]
Verdicts  == {"created", "updated", "skipped", "failed"}
Open      == {"queued", "running"}
Present(a) == rows[a].status \notin {"absent", "deleted"}
Holder(x)  == {a \in Accounts : Present(a) /\ rows[a].address = x}

AuthorizeInit ==
  /\ rows = [a \in Accounts |-> NoAccount]
  /\ flow = [f \in Flows |-> NoFlow]
  /\ current = [a \in Accounts |-> Nothing]
  /\ poller = [f \in Flows |-> "none"]
  /\ edit = NoEdit
  /\ import = "none"
  /\ line = [l \in Lines |-> NoLine]
  /\ run = [r \in Runs |-> "idle"]
  /\ task = [r \in Runs |-> [l \in Lines |-> NoTask]]
  /\ stops = 0 /\ stopped = {} /\ doubled = FALSE /\ neglected = {}
-----------------------------------------------------------------------------
(* The accounts table, and the administrator.                                *)

\* Import: a new address becomes a pending account.
ImportAccount(a, x) ==
  /\ rows[a].status = "absent" /\ Holder(x) = {}
  /\ rows' = [rows EXCEPT ![a] = [address |-> x, person |-> Nothing, status |-> "pending"]]
  /\ UNCHANGED <<authorizeFlows, edit, authorizeImport, stops>>

\* Bug: the transaction does not look for the person under another account.
StorableAnywhere(a, u) == Present(a) /\ rows[a].status # "disabled"

\* persistAuthorization refuses a person of another account, and an account
\* that is disabled or gone by now.
Storable(a, u) ==
  /\ Present(a) /\ rows[a].status # "disabled"
  /\ \A b \in Accounts \ {a} : rows[b].person # u

PersistAuthorization(a, u) ==
  rows' = [rows EXCEPT ![a].person = u, ![a].status = "active"]

\* Who the credential of somebody turns out to belong to, for an account of this
\* address and person: the profile may be out of reach.
Profile(owner, person, address) ==
  {owner, IF person # Nothing THEN person ELSE Imported[address]}

\* The same person as before, or one of this address.
Fits(u, person, address) ==
  IF person # Nothing THEN u = person ELSE MailOf[u] = address

\* UpdateAccount, SetDisabled and Delete commit first and invalidate then.
EditAddress(a, x) ==
  /\ edit = NoEdit /\ Present(a) /\ rows[a].address # x /\ Holder(x) = {}
  /\ rows' = [rows EXCEPT ![a].address = x]
  /\ edit' = [account |-> a, address |-> rows[a].address]
  /\ UNCHANGED <<authorizeFlows, authorizeImport, stops>>

Disable(a) ==
  /\ edit = NoEdit /\ Present(a) /\ rows[a].status # "disabled"
  /\ rows' = [rows EXCEPT ![a].status = "disabled"]
  /\ edit' = [account |-> a, address |-> Nothing]
  /\ UNCHANGED <<authorizeFlows, authorizeImport, stops>>

Enable(a) ==
  /\ edit = NoEdit /\ rows[a].status = "disabled"
  /\ rows' = [rows EXCEPT ![a].status = IF rows[a].person = Nothing THEN "pending" ELSE "active"]
  /\ UNCHANGED <<authorizeFlows, edit, authorizeImport, stops>>

Delete(a) ==
  /\ edit = NoEdit /\ Present(a)
  /\ rows' = [rows EXCEPT ![a] = [NoAccount EXCEPT !.status = "deleted"]]
  /\ edit' = [account |-> a, address |-> Nothing]
  /\ UNCHANGED <<authorizeFlows, authorizeImport, stops>>

\* Flows in G are cancelled; one that is storing goes on.
Cancel(G) == stopped' = stopped \cup {f \in G : flow[f].state \in {"waiting", "confirmation_required"}}

\* invalidateAuthorization: the account's flow fails, if it is for the address.
InvalidateAuthorization ==
  /\ edit # NoEdit
  /\ LET G == {f \in Flows : f = current[edit.account] /\ flow[f].state # "gone"
                               /\ edit.address \in {Nothing, flow[f].address}}
     IN /\ flow' = [f \in Flows |-> IF f \in G THEN [flow[f] EXCEPT !.state = "failed"]
                                               ELSE flow[f]]
        /\ Cancel(G)
  /\ edit' = NoEdit
  /\ UNCHANGED <<rows, current, poller, authorizeImport, stops>>

Administer ==
  \/ \E a \in Accounts, x \in Addresses : ImportAccount(a, x) \/ EditAddress(a, x)
  \/ \E a \in Accounts : Disable(a) \/ Enable(a) \/ Delete(a)
  \/ InvalidateAuthorization
-----------------------------------------------------------------------------
(* Device authorisations.                                                    *)

InProgress(f) == flow[f].state \in {"waiting", "confirmation_required", "finalizing"}

\* StartAuthorization reads the account and asks Microsoft, without the lock.
StartAuthorization(f, a) ==
  /\ flow[f].state = "none" /\ poller[f] = "none"
  /\ Present(a) /\ rows[a].status # "disabled"
  /\ current[a] \in Flows => ~InProgress(current[a])
  /\ flow' = [flow EXCEPT ![f] = [NoFlow EXCEPT !.account = a, !.address = rows[a].address]]
  /\ poller' = [poller EXCEPT ![f] = "requesting"]
  /\ UNCHANGED <<rows, current, edit, authorizeImport, stops, stopped>>

\* The answer replaces whatever flow the account has by now.
RegisterAuthorization(f) ==
  /\ poller[f] = "requesting"
  /\ LET a == flow[f].account
         G == {g \in Flows : g = current[a]}
     IN /\ flow' = [g \in Flows |-> IF g = f THEN [flow[f] EXCEPT !.state = "waiting"]
                                    ELSE IF g \in G THEN [flow[g] EXCEPT !.state = "gone"]
                                    ELSE flow[g]]
        /\ Cancel(G)
        /\ current' = [current EXCEPT ![a] = f]
  /\ poller' = [poller EXCEPT ![f] = "polling"]
  /\ UNCHANGED <<rows, edit, authorizeImport, stops>>

RequestFails(f) ==
  /\ poller[f] = "requesting"
  /\ flow' = [flow EXCEPT ![f] = NoFlow]
  /\ poller' = [poller EXCEPT ![f] = "none"]
  /\ UNCHANGED <<rows, current, edit, authorizeImport, stops, stopped>>

\* Bug: a flow that was cancelled while Microsoft answered is not left alone.
PollCancelled(f) ==
  /\ poller[f] = "polling"
  /\ \E u \in People :
       IF MailOf[u] = flow[f].address
       THEN /\ flow' = [flow EXCEPT ![f].state = "finalizing", ![f].person = u]
            /\ poller' = [poller EXCEPT ![f] = "storing"]
       ELSE /\ flow' = [flow EXCEPT ![f].state = "confirmation_required", ![f].person = u]
            /\ poller' = [poller EXCEPT ![f] = "none"]
  /\ UNCHANGED <<rows, current, edit, authorizeImport, stops, stopped>>

\* Bug: any address will do.
PollAnyAddress(f) ==
  /\ poller[f] = "polling"
  /\ \E u \in People :
       IF flow[f].state = "waiting"
       THEN /\ flow' = [flow EXCEPT ![f].state = "finalizing", ![f].person = u]
            /\ poller' = [poller EXCEPT ![f] = "storing"]
       ELSE poller' = [poller EXCEPT ![f] = "none"] /\ UNCHANGED flow
  /\ UNCHANGED <<rows, current, edit, authorizeImport, stops, stopped>>

\* pollAuthorization: somebody consented; an unexpected address is asked back,
\* a flow that no longer waits is dropped.
PollAuthorization(f) ==
  /\ poller[f] = "polling"
  /\ \E u \in People :
       IF flow[f].state # "waiting"
       THEN poller' = [poller EXCEPT ![f] = "none"] /\ UNCHANGED flow
       ELSE IF MailOf[u] = flow[f].address
       THEN /\ flow' = [flow EXCEPT ![f].state = "finalizing", ![f].person = u]
            /\ poller' = [poller EXCEPT ![f] = "storing"]
       ELSE /\ flow' = [flow EXCEPT ![f].state = "confirmation_required", ![f].person = u]
            /\ poller' = [poller EXCEPT ![f] = "none"]
  /\ UNCHANGED <<rows, current, edit, authorizeImport, stops, stopped>>

\* failAuthorization: also over what somebody else made of the flow.
FailAuthorization(f) ==
  /\ poller[f] = "polling"
  /\ flow' = [flow EXCEPT ![f].state = IF @ = "gone" THEN @ ELSE "failed"]
  /\ poller' = [poller EXCEPT ![f] = "none"]
  /\ UNCHANGED <<rows, current, edit, authorizeImport, stops, stopped>>

\* ConfirmAuthorization: in time, or the flow has expired.
ConfirmAuthorization(f) ==
  /\ flow[f].state = "confirmation_required"
  /\ \/ /\ flow' = [flow EXCEPT ![f].state = "finalizing", ![f].confirmed = TRUE]
        /\ poller' = [poller EXCEPT ![f] = "storing"]
     \/ /\ flow' = [flow EXCEPT ![f].state = "failed"]
        /\ UNCHANGED poller
  /\ UNCHANGED <<rows, current, edit, authorizeImport, stops, stopped>>

\* RestartAuthorization forgets the flow, and calls StartAuthorization.
RestartAuthorization(f) ==
  /\ flow[f].state = "confirmation_required"
  /\ Cancel({f})
  /\ flow' = [flow EXCEPT ![f].state = "gone", ![f].person = Nothing]
  /\ current' = [a \in Accounts |-> IF current[a] = f THEN Nothing ELSE current[a]]
  /\ UNCHANGED <<rows, poller, edit, authorizeImport, stops>>

StoreAuthorization(f) ==
  /\ poller[f] = "storing"
  /\ \/ /\ Storable(flow[f].account, flow[f].person)
        /\ PersistAuthorization(flow[f].account, flow[f].person)
        /\ poller' = [poller EXCEPT ![f] = "stored"]
     \/ poller' = [poller EXCEPT ![f] = "refused"] /\ UNCHANGED rows
  /\ UNCHANGED <<flow, current, edit, authorizeImport, stops, stopped>>

\* finishAuthorization: the outcome, whatever state the flow is in by now.
FinishAuthorization(f) ==
  /\ poller[f] \in {"stored", "refused"}
  /\ flow' = [flow EXCEPT ![f].person = Nothing,
                          ![f].state = IF @ = "gone" THEN @
                                       ELSE IF poller[f] = "stored" THEN "completed" ELSE "failed"]
  /\ poller' = [poller EXCEPT ![f] = "none"]
  /\ UNCHANGED <<rows, current, edit, authorizeImport, stops, stopped>>

\* The start cannot be recorded: the flow is taken back before it polls.
DiscardAuthorization(f) ==
  /\ poller[f] = "polling" /\ flow[f].state # "gone"
  /\ Cancel({f})
  /\ flow' = [flow EXCEPT ![f].state = "gone"]
  /\ current' = [a \in Accounts |-> IF current[a] = f THEN Nothing ELSE current[a]]
  /\ poller' = [poller EXCEPT ![f] = "none"]
  /\ UNCHANGED <<rows, edit, authorizeImport, stops>>

\* ReplaceOAuthCredentials reads the account (confirmed: it is linked already),
ReplaceOAuthCredentials(f, a) ==
  /\ flow[f].state = "none" /\ poller[f] = "none"
  /\ Present(a) /\ rows[a].status # "disabled"
  /\ flow' = [flow EXCEPT ![f] = [NoFlow EXCEPT !.account = a, !.address = rows[a].address,
                                 !.person = rows[a].person,
                                 !.confirmed = rows[a].person # Nothing]]
  /\ poller' = [poller EXCEPT ![f] = "replacing"]
  /\ UNCHANGED <<rows, current, edit, authorizeImport, stops, stopped>>

\* asks Microsoft about the new credential,
ValidateReplacement(f) ==
  /\ poller[f] = "replacing"
  /\ \/ \E owner \in People : \E u \in Profile(owner, flow[f].person, flow[f].address) :
          /\ Fits(u, flow[f].person, flow[f].address)
          /\ flow' = [flow EXCEPT ![f].person = u]
          /\ poller' = [poller EXCEPT ![f] = "replaced"]
     \/ /\ flow' = [flow EXCEPT ![f] = NoFlow]
        /\ poller' = [poller EXCEPT ![f] = "none"]
  /\ UNCHANGED <<rows, current, edit, authorizeImport, stops, stopped>>

\* and stores it.
StoreReplacement(f) ==
  /\ poller[f] = "replaced"
  /\ \/ /\ Storable(flow[f].account, flow[f].person)
        /\ PersistAuthorization(flow[f].account, flow[f].person)
     \/ UNCHANGED rows
  /\ flow' = [flow EXCEPT ![f] = NoFlow]
  /\ poller' = [poller EXCEPT ![f] = "none"]
  /\ UNCHANGED <<current, edit, authorizeImport, stops, stopped>>

AuthorizeDevice(f) ==
  \/ \E a \in Accounts : StartAuthorization(f, a) \/ ReplaceOAuthCredentials(f, a)
  \/ RegisterAuthorization(f) \/ RequestFails(f) \/ DiscardAuthorization(f)
  \/ PollAuthorization(f) \/ FailAuthorization(f)
  \/ ConfirmAuthorization(f) \/ RestartAuthorization(f)
  \/ StoreAuthorization(f) \/ FinishAuthorization(f)
  \/ ValidateReplacement(f) \/ StoreReplacement(f)
-----------------------------------------------------------------------------
(* The credential import.                                                    *)

Begin(r) ==
  /\ run[r] = "idle"
  /\ run' = [run EXCEPT ![r] = "begun"]
  /\ doubled' = (doubled \/ \E q \in Runs : run[q] # "idle")
  /\ UNCHANGED neglected

\* StartOAuthImport: one transaction stages all lines, then the run begins.
StartOAuthImport(r) ==
  /\ import = "none"
  /\ \E where \in [Lines -> Addresses], whose \in [Lines -> People] :
       /\ \A k, l \in Lines : where[k] = where[l] => k = l
       /\ line' = [l \in Lines |-> [address |-> where[l], person |-> whose[l],
                                    state |-> "queued", secret |-> TRUE]]
  /\ import' = "queued"
  /\ Begin(r)
  /\ UNCHANGED <<rows, authorizeFlows, edit, task, stops>>

\* Bug: only imports that nobody has begun are resumed.
ResumeQueuedImports(r) ==
  /\ import = "queued"
  /\ Begin(r)
  /\ UNCHANGED <<rows, authorizeFlows, edit, import, line, task, stops>>

\* ResumeOAuthImports, called at every unlock, also while a run is at work.
ResumeOAuthImports(r) ==
  /\ import \in Open
  /\ Begin(r)
  /\ UNCHANGED <<rows, authorizeFlows, edit, import, line, task, stops>>

\* The lines of S are in hand, but the processing may fail to read some of them.
List(r, S) ==
  /\ run[r] = "begun"
  /\ IF import \in Open
     THEN /\ import' = "running"
          /\ run' = [run EXCEPT ![r] = "working"]
          /\ \E unread \in SUBSET S :
               task' = [task EXCEPT ![r] = [l \in Lines |->
                 IF l \in S THEN [NoTask EXCEPT !.step = IF l \in unread THEN "dropped" ELSE "listed"]
                 ELSE NoTask]]
     ELSE run' = [run EXCEPT ![r] = "idle"] /\ UNCHANGED <<import, task>>
  /\ UNCHANGED <<rows, authorizeFlows, edit, line, stops, doubled, neglected>>

\* Bug: lines that a stop left in progress are not listed again.
ListQueuedLines(r) == List(r, {l \in Lines : line[l].state = "queued"})

\* processOAuthImport marks the import and lists the lines still open; a row that
\* cannot be read, or an end of the rows before the last one, is not noticed.
ProcessOAuthImport(r) == List(r, {l \in Lines : line[l].state \in Open})

\* It cannot mark the import, or not list its lines, and leaves it for the next unlock.
ProcessFails(r) ==
  /\ run[r] = "begun"
  /\ UNCHANGED import \/ (import \in Open /\ import' = "running")
  /\ run' = [run EXCEPT ![r] = "idle"]
  /\ UNCHANGED <<rows, authorizeFlows, edit, line, task, stops, doubled, neglected>>

Become(r, l, s) == task' = [task EXCEPT ![r][l].step = s]

\* The staged secret is read; if there is none, or the SELECT fails, the line is given up.
LoadLine(r, l) ==
  /\ task[r][l].step = "listed"
  /\ Become(r, l, "dropped") \/ (line[l].secret /\ Become(r, l, "loaded"))
  /\ UNCHANGED <<rows, authorizeFlows, edit, import, line, run, stops, doubled, neglected>>

\* The line is marked, whatever its state (an error is ignored), and the account looked up.
CheckLine(r, l) ==
  /\ task[r][l].step = "loaded"
  /\ line' \in {line, [line EXCEPT ![l].state = "running"]}
  /\ \/ /\ Holder(line[l].address) = {}
        /\ Become(r, l, "validating")
     \/ \E a \in Holder(line[l].address) :
          task' = [task EXCEPT ![r][l] = [account |-> a, person |-> rows[a].person,
            found |-> IF rows[a].person = Nothing THEN "account" ELSE "person",
            step |-> IF rows[a].status = "disabled" THEN "failed"
                     ELSE IF rows[a].person # Nothing /\ ~Overwrite THEN "skipped"
                     ELSE "validating"]]
     \/ Become(r, l, "failed")
  /\ UNCHANGED <<rows, authorizeFlows, edit, import, run, stops, doubled, neglected>>

\* validateImportedCredential, and the comparison with what was looked up.
ValidateLine(r, l) ==
  /\ task[r][l].step = "validating"
  /\ \/ \E u \in Profile(line[l].person, task[r][l].person, line[l].address) :
          /\ Fits(u, task[r][l].person, line[l].address)
          /\ task' = [task EXCEPT ![r][l].person = u,
                                  ![r][l].step = IF task[r][l].account = Nothing
                                                 THEN "creating" ELSE "storing"]
     \/ Become(r, l, "failed")
  /\ UNCHANGED <<rows, authorizeFlows, edit, import, line, run, stops, doubled, neglected>>

\* A pending account is inserted, unless the address is taken by now.
CreateAccount(r, l) ==
  /\ task[r][l].step = "creating"
  /\ \/ \E a \in Accounts :
          /\ rows[a].status = "absent" /\ Holder(line[l].address) = {}
          /\ rows' = [rows EXCEPT ![a] = [address |-> line[l].address, person |-> Nothing,
                                          status |-> "pending"]]
          /\ task' = [task EXCEPT ![r][l].account = a, ![r][l].found = "nothing",
                                  ![r][l].step = "storing"]
     \/ Become(r, l, "failed") /\ UNCHANGED rows
  /\ UNCHANGED <<authorizeFlows, edit, import, line, run, stops, doubled, neglected>>

StoreLine(r, l) ==
  /\ task[r][l].step = "storing"
  /\ \/ /\ Storable(task[r][l].account, task[r][l].person)
        /\ PersistAuthorization(task[r][l].account, task[r][l].person)
        /\ Become(r, l, IF task[r][l].found = "nothing" THEN "created" ELSE "updated")
     \/ /\ Become(r, l, IF task[r][l].found = "nothing" THEN "removing" ELSE "failed")
        /\ UNCHANGED rows
  /\ UNCHANGED <<authorizeFlows, edit, import, line, run, stops, doubled, neglected>>

\* The account inserted for the line goes again, unless it is linked by now or the
\* DELETE fails.
RemoveAccount(r, l) ==
  /\ task[r][l].step = "removing"
  /\ rows' \in {rows, [rows EXCEPT ![task[r][l].account] =
                  IF @.status = "pending" THEN [NoAccount EXCEPT !.status = "deleted"] ELSE @]}
  /\ Become(r, l, "failed")
  /\ UNCHANGED <<authorizeFlows, edit, import, line, run, stops, doubled, neglected>>

\* completeOAuthImportItem: the verdict, and the staged secret goes; if the UPDATE fails,
\* nobody notices.
CompleteLine(r, l) ==
  /\ task[r][l].step \in Verdicts
  /\ \/ /\ line' = [line EXCEPT ![l].state = task[r][l].step, ![l].secret = FALSE]
        /\ task' = [task EXCEPT ![r][l] = NoTask]
     \/ Become(r, l, "dropped") /\ UNCHANGED line
  /\ UNCHANGED <<rows, authorizeFlows, edit, import, run, stops, doubled, neglected>>

ProcessLine(r, l) ==
  \/ LoadLine(r, l) \/ CheckLine(r, l) \/ ValidateLine(r, l) \/ CreateAccount(r, l)
  \/ StoreLine(r, l) \/ RemoveAccount(r, l) \/ CompleteLine(r, l)

\* finishOAuthImport, when the goroutines have returned: whatever became of the lines,
\* the import is completed, unless that UPDATE fails.
Returned(r) == run[r] = "working" /\ \A l \in Lines : task[r][l].step \in {"none", "dropped"}
EndRun(r) ==
  /\ run' = [run EXCEPT ![r] = "idle"]
  /\ task' = [task EXCEPT ![r] = [l \in Lines |-> NoTask]]

FinishOAuthImport(r) ==
  /\ Returned(r) /\ EndRun(r)
  /\ import' = "completed"
  /\ neglected' = neglected \cup {l \in Lines : task[r][l].step = "dropped"}
  /\ UNCHANGED <<rows, authorizeFlows, edit, line, stops, doubled>>

FinishFails(r) ==
  /\ Returned(r) /\ EndRun(r)
  /\ UNCHANGED <<rows, authorizeFlows, edit, import, line, stops, doubled, neglected>>

RunImport(r) ==
  \/ ProcessOAuthImport(r) \/ FinishOAuthImport(r) \/ \E l \in Lines : ProcessLine(r, l)

\* The server stops: flows and processings are gone, the tables stay.
StopServer ==
  /\ stops < MaxStops /\ stops' = stops + 1
  /\ flow' = [f \in Flows |-> IF flow[f].state = "none" THEN NoFlow
                              ELSE [flow[f] EXCEPT !.state = "gone", !.person = Nothing]]
  /\ current' = [a \in Accounts |-> Nothing]
  /\ poller' = [f \in Flows |-> "none"]
  /\ edit' = NoEdit
  /\ run' = [r \in Runs |-> "idle"]
  /\ task' = [r \in Runs |-> [l \in Lines |-> NoTask]]
  /\ UNCHANGED <<rows, import, line, stopped, doubled, neglected>>

AuthorizeNext ==
  \/ Administer
  \/ \E f \in Flows : AuthorizeDevice(f)
  \/ \E r \in Runs : \/ StartOAuthImport(r) \/ ResumeOAuthImports(r) \/ RunImport(r)
                     \/ ProcessFails(r) \/ FinishFails(r)
  \/ StopServer

\* The goroutines of a processing run; after a stop or a failure the next unlock (every
\* log-in is one) resumes; the database does not fail every time.
AuthorizeFairness ==
  /\ \A r \in Runs : WF_authorizeVars(RunImport(r))
  /\ SF_authorizeVars(\E r \in Runs : ProcessOAuthImport(r))
  /\ SF_authorizeVars(\E r \in Runs : FinishOAuthImport(r))
  /\ WF_authorizeVars(/\ \A r \in Runs : run[r] = "idle"
                      /\ \E r \in Runs : ResumeOAuthImports(r))

AuthorizeSpec == AuthorizeInit /\ [][AuthorizeNext]_authorizeVars /\ AuthorizeFairness
-----------------------------------------------------------------------------
(* Properties.                                                               *)

Somebody == People \cup {Nothing}
Anywhere == Addresses \cup {Nothing}
Anyone   == Accounts \cup {Nothing}
FlowStates == {"none", "waiting", "confirmation_required", "finalizing", "completed",
               "failed", "gone"}
TaskSteps == {"none", "dropped", "listed", "loaded", "validating", "creating", "storing",
              "removing"}
             \cup Verdicts

AuthorizeTypeOK ==
  /\ rows \in [Accounts -> [address : Anywhere, person : Somebody,
                            status : {"absent", "pending", "active", "disabled", "deleted"}]]
  /\ flow \in [Flows -> [state : FlowStates, account : Anyone, address : Anywhere,
                         person : Somebody, confirmed : BOOLEAN]]
  /\ current \in [Accounts -> Flows \cup {Nothing}]
  /\ poller \in [Flows -> {"none", "requesting", "polling", "storing", "stored", "refused",
                            "replacing", "replaced"}]
  /\ edit \in [account : Anyone, address : Anywhere]
  /\ import \in {"none", "queued", "running", "completed"}
  /\ line \in [Lines -> [address : Anywhere, person : Somebody, secret : BOOLEAN,
                         state : {"none", "queued", "running"} \cup Verdicts]]
  /\ run \in [Runs -> {"idle", "begun", "working"}]
  /\ task \in [Runs -> [Lines -> [step : TaskSteps, account : Anyone, person : Somebody,
                                  found : {"nothing", "account", "person"}]]]
  /\ stops \in 0..MaxStops /\ stopped \subseteq Flows /\ doubled \in BOOLEAN
  /\ neglected \subseteq Lines

\* However device flows and imports race, a Microsoft user is linked to one
\* account, and a pending account to none.
OneAccountPerPerson ==
  /\ \A a, b \in Accounts : rows[a].person # Nothing /\ rows[a].person = rows[b].person => a = b
  /\ \A a \in Accounts : rows[a].status = "pending" => rows[a].person = Nothing

\* A flow that was replaced, restarted or invalidated before it began to store
\* never links the account, although Microsoft's answer may still be under way.
CancelledFlowStoresNothing == \A f \in stopped : poller[f] # "stored"

\* Who becomes an account's person in a step had confirmed that another address
\* is theirs, has this one, or was found for an address that the account or the
\* line had before it was edited; it is the flow or line at work that found them.
Backed(a) ==
  LET u == rows'[a].person IN
  \/ u \in {rows[a].person, Nothing}
  \/ MailOf[u] = rows[a].address
  \/ \E f \in Flows : /\ poller[f] \in {"storing", "replaced"}
                      /\ flow[f].account = a /\ flow[f].person = u
                      /\ flow[f].confirmed \/ flow[f].address # rows[a].address
  \/ \E r \in Runs, l \in Lines :
       /\ task[r][l].step = "storing"
       /\ task[r][l].account = a /\ task[r][l].person = u
       /\ task[r][l].found = "person" \/ line[l].address # rows[a].address

\* An account is linked to a person of another address only when that was
\* confirmed, when it was linked to that person before the credential was asked
\* about, or when the address was edited after the flow or the import had read
\* it: an edit does not reach what is being stored.
AliasIsConfirmed == [][\A a \in Accounts : Backed(a)]_authorizeVars

\* A completed import keeps no credential, also after stops in the middle and
\* however many processings unlocks began side by side; and it has a verdict for
\* every line, unless there were two at work at once. What a processing that
\* completed the import gave up because a statement failed (nobody looks at the
\* error) is the only exception, and such a line is left open as it was.
CompletedImportIsSettled ==
  import = "completed" =>
    \A l \in Lines :
      /\ line[l].secret => l \in neglected
      /\ ~doubled => (line[l].state \in Verdicts <=> l \notin neglected)

\* An import is completed in the end, however often the server was stopped and
\* whichever of its statements failed.
ImportCompletes == (import \in Open) ~> (import = "completed")
===============================================================================
