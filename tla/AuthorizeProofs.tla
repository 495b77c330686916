----------------------------- MODULE AuthorizeProofs -----------------------------
(* Theorems about device authorisations and the credential import, for every *)
(* number of accounts, people, flows, lines and processings.                 *)
EXTENDS Authorize, TLAPS

\* A Microsoft user is linked to one account, and an account has an address.
RowsOK ==
  /\ OneAccountPerPerson
  /\ \A a \in Accounts : Present(a) => rows[a].address \in Addresses

\* What works for a flow says in which state the flow can be: before it is
\* registered it has none, one that waits is polled, one that asks back has
\* nobody at work, and one that was stopped never gets to the database.
\* What is stored was confirmed, or is the credential of the flow's address.
FlowOK(f) ==
  /\ flow[f].state = "none" =>
       poller[f] \in {"none", "requesting", "replacing", "replaced"}
  /\ poller[f] \in {"requesting", "replacing", "replaced"} => flow[f].state = "none"
  /\ flow[f].state = "waiting" => poller[f] = "polling"
  /\ flow[f].state = "confirmation_required" => poller[f] = "none"
  /\ f \in stopped => flow[f].state \in {"failed", "gone"} /\ poller[f] \in {"none", "polling"}
  /\ poller[f] = "requesting" => flow[f].account \in Accounts
  /\ poller[f] = "replacing" =>
       /\ flow[f].confirmed \/ flow[f].person = Nothing
       /\ flow[f].address \in Addresses
  /\ poller[f] \in {"storing", "replaced"} =>
       flow[f].confirmed \/ MailOf[flow[f].person] = flow[f].address

\* An account's flow has been registered.
CurrentOK(a) == current[a] \in Flows => flow[current[a]].state # "none"

\* Only a processing that lists the lines has any in hand, and they have been
\* staged.
RunOK(r) ==
  /\ import = "none" => run[r] = "idle"
  /\ run[r] # "working" => \A l \in Lines : task[r][l].step = "none"

\* A line in hand knows nobody until the account is looked up; the credential
\* that is stored is the line's address, or of the person linked already.
TaskOK(r, l) ==
  LET t == task[r][l] IN
  /\ t.step \in {"listed", "loaded"} => t = [NoTask EXCEPT !.step = t.step]
  /\ t.step = "validating" =>
       \/ t.person = Nothing /\ t.found # "person"
       \/ t.account # Nothing /\ t.found = "person"
  /\ t.step = "creating" => MailOf[t.person] = line[l].address
  /\ t.step = "storing" => t.found = "person" \/ MailOf[t.person] = line[l].address

\* One processing at a time settles the lines: a line is open and has its
\* secret, or it has a verdict and none; the open ones are in hand or given up,
\* and when the import is completed those given up are the neglected ones.
Settled(l) == line[l].state \in Verdicts /\ ~line[l].secret
Pending(l) == line[l].state \in Open /\ line[l].secret
Settling ==
  /\ \A q, r \in Runs : run[q] # "idle" /\ run[r] # "idle" => q = r
  /\ import # "none" => \A l \in Lines : Settled(l) \/ Pending(l)
  /\ \A r \in Runs, l \in Lines : task[r][l].step # "none" => Pending(l)
  /\ \A r \in Runs : run[r] = "working" =>
       import # "completed" /\ \A l \in Lines : Pending(l) => task[r][l].step # "none"
  /\ import = "completed" => \A l \in Lines : Settled(l) <=> l \notin neglected
  /\ import # "completed" => neglected = {}

\* A line with a secret is open, and every processing at work has it in hand or has
\* given it up, so that whoever completes the import neglects it.
Secrets ==
  /\ \A l \in Lines : line[l].secret => line[l].state \in Open
  /\ \A r \in Runs, l \in Lines : run[r] = "working" /\ line[l].secret => task[r][l].step # "none"
  /\ import = "completed" => \A l \in Lines : line[l].secret => l \in neglected

FlowInv ==
  /\ \A f \in Flows : FlowOK(f)
  /\ \A a \in Accounts : CurrentOK(a)

ImportInv ==
  /\ import # "none" => \A l \in Lines : line[l].address \in Addresses
  /\ \A r \in Runs : RunOK(r)
  /\ \A r \in Runs, l \in Lines : TaskOK(r, l)
  /\ Secrets
  /\ ~doubled => Settling

AuthorizeIInv ==
  /\ AuthorizeTypeOK /\ RowsOK /\ FlowInv /\ ImportInv
  /\ edit # NoEdit => edit.account \in Accounts
-----------------------------------------------------------------------------
(* The accounts table.                                                       *)

AccountRows == [address : Anywhere, person : Somebody,
                status : {"absent", "pending", "active", "disabled", "deleted"}]

RowTypes == rows \in [Accounts -> AccountRows]

FlowTypes ==
  /\ flow \in [Flows -> [state : FlowStates, account : Anyone, address : Anywhere,
                         person : Somebody, confirmed : BOOLEAN]]
  /\ current \in [Accounts -> Flows \cup {Nothing}]
  /\ poller \in [Flows -> {"none", "requesting", "polling", "storing", "stored", "refused",
                            "replacing", "replaced"}]
  /\ stopped \subseteq Flows

EditTypes == edit \in [account : Anyone, address : Anywhere]

ImportTypes ==
  /\ import \in {"none", "queued", "running", "completed"}
  /\ line \in [Lines -> [address : Anywhere, person : Somebody, secret : BOOLEAN,
                         state : {"none", "queued", "running"} \cup Verdicts]]
  /\ run \in [Runs -> {"idle", "begun", "working"}]
  /\ task \in [Runs -> [Lines -> [step : TaskSteps, account : Anyone, person : Somebody,
                                  found : {"nothing", "account", "person"}]]]
  /\ doubled \in BOOLEAN /\ neglected \subseteq Lines

LEMMA AuthorizeTyping ==
  AuthorizeTypeOK <=> /\ RowTypes /\ FlowTypes /\ EditTypes /\ ImportTypes
                      /\ stops \in 0..MaxStops
BY DEF AuthorizeTypeOK, RowTypes, AccountRows, FlowTypes, EditTypes, ImportTypes

LEMMA NextTyping ==
  ASSUME RowTypes', FlowTypes', EditTypes', ImportTypes', stops' \in 0..MaxStops
  PROVE  AuthorizeTypeOK'
BY DEF AuthorizeTypeOK, RowTypes, AccountRows, FlowTypes, EditTypes, ImportTypes

ImportAction(r) ==
  \/ StartOAuthImport(r) \/ ResumeOAuthImports(r) \/ RunImport(r)
  \/ ProcessFails(r) \/ FinishFails(r)

\* An action of a flow leaves the import alone, and the other way round.
LEMMA DeviceFrame ==
  ASSUME NEW f \in Flows, AuthorizeDevice(f)
  PROVE  UNCHANGED <<edit, stops>> /\ UNCHANGED authorizeImport
BY DEF AuthorizeDevice, StartAuthorization, ReplaceOAuthCredentials,
   RegisterAuthorization, RequestFails, DiscardAuthorization, PollAuthorization,
   FailAuthorization, ConfirmAuthorization, RestartAuthorization, StoreAuthorization,
   FinishAuthorization, ValidateReplacement, StoreReplacement

LEMMA ImportFrame ==
  ASSUME NEW r \in Runs, ImportAction(r)
  PROVE  UNCHANGED <<edit, stops>> /\ UNCHANGED authorizeFlows
BY DEF ImportAction, StartOAuthImport, ResumeOAuthImports, RunImport, ProcessOAuthImport, List,
   ProcessFails, FinishOAuthImport, FinishFails, ProcessLine, LoadLine, CheckLine, ValidateLine, CreateAccount,
   StoreLine, RemoveAccount, CompleteLine

\* Somebody is about to link the account to the person.
Linking(a, u) ==
  \/ \E f \in Flows : /\ poller[f] \in {"storing", "replaced"}
                      /\ flow[f].account = a /\ flow[f].person = u
  \/ \E r \in Runs, l \in Lines : /\ task[r][l].step = "storing"
                                  /\ task[r][l].account = a /\ task[r][l].person = u

\* A row becomes another one that is linked to nobody new.
Rewritten(a, w) ==
  /\ rows' = [rows EXCEPT ![a] = w]
  /\ w.person \in {rows[a].person, Nothing}
  /\ w.status = "pending" => w.person = Nothing
  /\ w.status \notin {"absent", "deleted"} => w.address \in Addresses

Linked(a, u) == Linking(a, u) /\ Storable(a, u) /\ PersistAuthorization(a, u)

\* What any step does to the accounts table.
RowStep ==
  \/ UNCHANGED rows
  \/ \E a \in Accounts, w \in AccountRows : Rewritten(a, w)
  \/ \E a \in Accounts, u \in Somebody : Linked(a, u)

LEMMA NoAccountType ==
  /\ NoAccount \in AccountRows /\ [NoAccount EXCEPT !.status = "deleted"] \in AccountRows
  /\ [NoAccount EXCEPT !.status = "deleted"].person = Nothing
  /\ [NoAccount EXCEPT !.status = "deleted"].status = "deleted"
BY DEF NoAccount, AccountRows, Anywhere, Somebody

\* The administrator links nobody.
LEMMA AdministratorRows ==
  ASSUME RowTypes, RowsOK, Administer
  PROVE  RowStep
<1>1. ASSUME NEW a \in Accounts, NEW x \in Addresses, ImportAccount(a, x)
      PROVE  RowStep
  <2> DEFINE w == [address |-> x, person |-> Nothing, status |-> "pending"]
  <2>1. w \in AccountRows /\ Rewritten(a, w)
    BY <1>1 DEF ImportAccount, Rewritten, AccountRows, Anywhere, Somebody
  <2> QED BY <2>1 DEF RowStep
<1>2. ASSUME NEW a \in Accounts, NEW x \in Addresses, EditAddress(a, x)
      PROVE  RowStep
  <2> DEFINE w == [rows[a] EXCEPT !.address = x]
  <2>1. w \in AccountRows /\ Rewritten(a, w)
    BY <1>2 DEF EditAddress, Rewritten, RowTypes, AccountRows, Anywhere, RowsOK,
       OneAccountPerPerson
  <2> QED BY <2>1 DEF RowStep
<1>3. ASSUME NEW a \in Accounts, Disable(a)
      PROVE  RowStep
  <2> DEFINE w == [rows[a] EXCEPT !.status = "disabled"]
  <2>1. w \in AccountRows /\ Rewritten(a, w)
    BY <1>3 DEF Disable, Rewritten, RowTypes, AccountRows, RowsOK
  <2> QED BY <2>1 DEF RowStep
<1>4. ASSUME NEW a \in Accounts, Enable(a)
      PROVE  RowStep
  <2> DEFINE s == IF rows[a].person = Nothing THEN "pending" ELSE "active"
             w == [rows[a] EXCEPT !.status = s]
  <2>1. s \in {"pending", "active"} /\ (s = "pending" => rows[a].person = Nothing)
    OBVIOUS
  <2>2. rows' = [rows EXCEPT ![a] = w] /\ Present(a)
    BY <1>4 DEF Enable, Present
  <2> HIDE DEF s
  <2>3. w \in AccountRows /\ Rewritten(a, w)
    BY <2>1, <2>2 DEF Rewritten, RowTypes, AccountRows, RowsOK
  <2> QED BY <2>3 DEF RowStep
<1>5. ASSUME NEW a \in Accounts, Delete(a)
      PROVE  RowStep
  <2>1. Rewritten(a, [NoAccount EXCEPT !.status = "deleted"])
    BY <1>5, NoAccountType DEF Delete, Rewritten
  <2> QED BY <2>1, NoAccountType DEF RowStep
<1>6. InvalidateAuthorization => RowStep
  BY DEF InvalidateAuthorization, RowStep
<1> QED BY <1>1, <1>2, <1>3, <1>4, <1>5, <1>6 DEF Administer

\* A flow that is storing links its account, and no other action of a flow does.
LEMMA FlowRows ==
  ASSUME RowTypes, FlowTypes, NEW f \in Flows, AuthorizeDevice(f)
  PROVE  RowStep
<1>1. flow[f].person \in Somebody
  BY DEF FlowTypes
<1>2. ASSUME NEW s \in {"storing", "replaced"}, poller[f] = s,
             Storable(flow[f].account, flow[f].person),
             PersistAuthorization(flow[f].account, flow[f].person)
      PROVE  RowStep
  <2>1. CASE flow[f].account \in Accounts
    <3>1. Linked(flow[f].account, flow[f].person)
      BY <1>2, <2>1 DEF Linked, Linking
    <3> QED BY <1>1, <2>1, <3>1 DEF RowStep
  <2>2. CASE flow[f].account \notin Accounts
    <3>1. rows' = rows
      BY <1>2, <2>2 DEF PersistAuthorization, RowTypes
    <3> QED BY <3>1 DEF RowStep
  <2> QED BY <2>1, <2>2
<1>3. StoreAuthorization(f) \/ StoreReplacement(f) => RowStep
  BY <1>2 DEF StoreAuthorization, StoreReplacement, RowStep
<1> QED BY <1>3 DEF AuthorizeDevice, RowStep, StartAuthorization, ReplaceOAuthCredentials,
     RegisterAuthorization, RequestFails, DiscardAuthorization, PollAuthorization,
     FailAuthorization, ConfirmAuthorization, RestartAuthorization, FinishAuthorization,
     ValidateReplacement

\* So does a line; one whose account cannot be linked takes it back.
LEMMA ImportRows ==
  ASSUME RowTypes, ImportTypes, RowsOK, ImportInv, NEW r \in Runs,
         ImportAction(r)
  PROVE  RowStep
<1>1. ASSUME NEW l \in Lines, CreateAccount(r, l)
      PROVE  RowStep
  <2>1. CASE UNCHANGED rows
    BY <2>1 DEF RowStep
  <2>2. CASE rows' # rows
    <3> DEFINE w == [address |-> line[l].address, person |-> Nothing, status |-> "pending"]
    <3>1. PICK a \in Accounts : rows' = [rows EXCEPT ![a] = w]
      BY <1>1, <2>2 DEF CreateAccount
    <3>2. line[l].address \in Addresses
      BY <1>1 DEF CreateAccount, ImportInv, RunOK
    <3>3. w \in AccountRows /\ Rewritten(a, w)
      BY <3>1, <3>2 DEF Rewritten, AccountRows, Anywhere, Somebody
    <3> QED BY <3>3 DEF RowStep
  <2> QED BY <2>1, <2>2
<1>2. ASSUME NEW l \in Lines, StoreLine(r, l)
      PROVE  RowStep
  <2> DEFINE a == task[r][l].account
             u == task[r][l].person
  <2>1. u \in Somebody /\ task[r][l].step = "storing"
    BY <1>2 DEF ImportTypes, StoreLine
  <2>2. UNCHANGED rows \/ (Storable(a, u) /\ PersistAuthorization(a, u))
    BY <1>2 DEF StoreLine
  <2>3. CASE a \in Accounts
    BY <2>1, <2>2, <2>3 DEF RowStep, Linked, Linking
  <2>4. CASE a \notin Accounts
    BY <2>2, <2>4 DEF RowStep, PersistAuthorization, RowTypes
  <2> QED BY <2>3, <2>4
<1>3. ASSUME NEW l \in Lines, RemoveAccount(r, l)
      PROVE  RowStep
  <2> DEFINE a == task[r][l].account
             gone == [NoAccount EXCEPT !.status = "deleted"]
             w == IF rows[a].status = "pending" THEN gone ELSE rows[a]
  <2>1. rows' = rows \/ rows' = [rows EXCEPT ![a] = w]
    BY <1>3 DEF RemoveAccount
  <2>2. CASE a \in Accounts /\ rows' = [rows EXCEPT ![a] = w]
    <3>1. CASE w = gone
      <4> HIDE DEF gone, w
      <4>1. Rewritten(a, gone) /\ gone \in AccountRows
        BY <2>2, <3>1, NoAccountType DEF Rewritten, gone
      <4> QED BY <2>2, <4>1 DEF RowStep
    <3>2. CASE w = rows[a]
      <4>1. w \in AccountRows /\ Rewritten(a, w)
        BY <2>2, <3>2 DEF Rewritten, RowTypes, RowsOK, OneAccountPerPerson,
           Present
      <4> QED BY <2>2, <4>1 DEF RowStep
    <3> QED BY <3>1, <3>2
  <2>3. CASE a \notin Accounts \/ rows' = rows
    BY <2>1, <2>3 DEF RowStep, RowTypes
  <2> QED BY <2>1, <2>2, <2>3
<1> QED BY <1>1, <1>2, <1>3 DEF ImportAction, RowStep, StartOAuthImport, ResumeOAuthImports,
     RunImport, ProcessOAuthImport, List, ProcessFails, FinishOAuthImport, FinishFails, ProcessLine, LoadLine, CheckLine, ValidateLine,
     CompleteLine

LEMMA EveryRowStep ==
  ASSUME AuthorizeIInv, AuthorizeNext
  PROVE  RowStep
<1>1. RowTypes /\ FlowTypes /\ ImportTypes /\ RowsOK
  BY AuthorizeTyping DEF AuthorizeIInv
<1> QED BY <1>1, AdministratorRows, FlowRows, ImportRows
        DEF AuthorizeIInv, AuthorizeNext, ImportAction, StopServer, RowStep

\* The table keeps its types, and its people one account each.
LEMMA RowsStep ==
  ASSUME RowTypes, RowsOK, RowStep
  PROVE  RowTypes' /\ RowsOK'
<1>1. CASE UNCHANGED rows
  BY <1>1 DEF RowTypes, RowsOK, OneAccountPerPerson, Present
<1>2. ASSUME NEW a \in Accounts, NEW w \in AccountRows, Rewritten(a, w)
      PROVE  RowTypes' /\ RowsOK'
  BY <1>2 DEF RowTypes, Rewritten, RowsOK, OneAccountPerPerson, Present
<1>3. ASSUME NEW a \in Accounts, NEW u \in Somebody, Linked(a, u)
      PROVE  RowTypes' /\ RowsOK'
  <2> DEFINE linked == [rows[a] EXCEPT !.person = u]
             w == [linked EXCEPT !.status = "active"]
  <2>1. rows' = [rows EXCEPT ![a] = w]
    BY <1>3 DEF Linked, PersistAuthorization, RowTypes
  <2>2. linked \in AccountRows /\ linked.person = u
        /\ linked.address = rows[a].address
    BY DEF RowTypes, AccountRows
  <2> HIDE DEF linked
  <2>3. w \in AccountRows /\ w.person = u /\ w.status = "active"
        /\ w.address = rows[a].address
    BY <2>2 DEF AccountRows
  <2> HIDE DEF w
  <2>4. \A b \in Accounts \ {a} : rows[b].person # u
    BY <1>3 DEF Linked, Storable
  <2>5. rows[a].address \in Addresses
    BY <1>3 DEF Linked, Storable, RowsOK
  <2>6. RowTypes'
    BY <2>1, <2>3 DEF RowTypes
  <2>7. \A b \in Accounts : rows'[b] = IF b = a THEN w ELSE rows[b]
    BY <2>1 DEF RowTypes
  <2> QED BY <2>3, <2>4, <2>5, <2>6, <2>7 DEF RowsOK, OneAccountPerPerson, Present
<1> QED BY <1>1, <1>2, <1>3 DEF RowStep
-----------------------------------------------------------------------------
(* Device authorisations.                                                    *)

FlowRecords == [state : FlowStates, account : Anyone, address : Anywhere,
                person : Somebody, confirmed : BOOLEAN]
Pollers == {"none", "requesting", "polling", "storing", "stored", "refused",
            "replacing", "replaced"}

LEMMA NoFlowType == NoFlow \in FlowRecords
BY DEF NoFlow, FlowRecords, FlowStates, Anyone, Anywhere, Somebody

\* The flow gets this state and person, and keeps the rest.
Turned(f, s, u) ==
  /\ flow' \in [Flows -> FlowRecords]
  /\ \A g \in Flows \ {f} : flow'[g] = flow[g]
  /\ flow'[f].state = s /\ flow'[f].person = u
  /\ flow'[f].account = flow[f].account /\ flow'[f].address = flow[f].address
  /\ flow'[f].confirmed = flow[f].confirmed

LEMMA Turning ==
  ASSUME FlowTypes, NEW f \in Flows, NEW s \in FlowStates
  PROVE  /\ flow' = [flow EXCEPT ![f].state = s] => Turned(f, s, flow[f].person)
         /\ \A u \in Somebody :
              \/ flow' = [flow EXCEPT ![f].state = s, ![f].person = u]
              \/ flow' = [flow EXCEPT ![f].person = u, ![f].state = s]
              => Turned(f, s, u)
<1>1. flow \in [Flows -> FlowRecords] /\ flow[f] \in FlowRecords
  BY DEF FlowTypes, FlowRecords
<1> DEFINE r == [flow[f] EXCEPT !.state = s]
<1>2. /\ r \in FlowRecords /\ r.state = s /\ r.person = flow[f].person
      /\ r.account = flow[f].account /\ r.address = flow[f].address
      /\ r.confirmed = flow[f].confirmed
  BY <1>1 DEF FlowRecords
<1>3. ASSUME flow' = [flow EXCEPT ![f].state = s]
      PROVE  Turned(f, s, flow[f].person)
  <2>1. flow' = [flow EXCEPT ![f] = r]
    BY <1>3
  <2> HIDE DEF r
  <2> QED BY <1>1, <1>2, <2>1 DEF Turned
<1>4. ASSUME NEW u \in Somebody,
             \/ flow' = [flow EXCEPT ![f].state = s, ![f].person = u]
             \/ flow' = [flow EXCEPT ![f].person = u, ![f].state = s]
      PROVE  Turned(f, s, u)
  <2> DEFINE q == [r EXCEPT !.person = u]
  <2>1. flow' = [flow EXCEPT ![f] = q]
    BY <1>1, <1>4
  <2> HIDE DEF r
  <2>2. /\ q \in FlowRecords /\ q.state = s /\ q.person = u
        /\ q.account = flow[f].account /\ q.address = flow[f].address
        /\ q.confirmed = flow[f].confirmed
    BY <1>2 DEF FlowRecords
  <2> HIDE DEF q
  <2> QED BY <1>1, <2>1, <2>2 DEF Turned
<1> QED BY <1>3, <1>4

\* A step of one flow keeps the others, and no account loses sight of it.
LEMMA FlowAlone ==
  ASSUME FlowTypes, FlowInv, FlowTypes', NEW f \in Flows,
         \A g \in Flows \ {f} : /\ flow'[g] = flow[g] /\ poller'[g] = poller[g]
                                /\ g \in stopped' => g \in stopped,
         FlowOK(f)',
         \A a \in Accounts : current'[a] \in {current[a], Nothing},
         flow'[f].state = "none" => flow[f].state = "none"
  PROVE  FlowInv'
<1>1. ASSUME NEW g \in Flows \ {f} PROVE FlowOK(g)'
  BY DEF FlowInv, FlowOK
<1>2. ASSUME NEW a \in Accounts PROVE CurrentOK(a)'
  BY AuthorizeConstants DEF FlowInv, CurrentOK
<1> QED BY <1>1, <1>2 DEF FlowInv

\* The poller of a flow changes, and no flow is stopped but this one.
PollerTo(f, p) ==
  poller' = [poller EXCEPT ![f] = p]

LEMMA FlowTurns ==
  ASSUME FlowTypes, FlowInv, NEW f \in Flows, NEW s \in FlowStates, NEW u \in Somebody,
         NEW p \in Pollers, Turned(f, s, u),
         PollerTo(f, p) \/ (UNCHANGED poller /\ p = poller[f]),
         UNCHANGED stopped \/ Cancel({f}),
         UNCHANGED current
           \/ current' = [a \in Accounts |-> IF current[a] = f THEN Nothing ELSE current[a]],
         s = "none" => flow[f].state = "none",
         s = "none" => p \in {"none", "requesting", "replacing", "replaced"},
         p \in {"requesting", "replacing", "replaced"} => s = "none",
         s = "waiting" => p = "polling",
         s = "confirmation_required" => p = "none",
         f \in stopped' => s \in {"failed", "gone"} /\ p \in {"none", "polling"},
         p = "requesting" => flow[f].account \in Accounts,
         p = "replacing" => /\ flow[f].confirmed \/ u = Nothing
                            /\ flow[f].address \in Addresses,
         p \in {"storing", "replaced"} => flow[f].confirmed \/ MailOf[u] = flow[f].address
  PROVE  FlowTypes' /\ FlowInv'
<1>1. poller' \in [Flows -> Pollers] /\ poller'[f] = p
      /\ \A g \in Flows \ {f} : poller'[g] = poller[g]
  BY DEF FlowTypes, PollerTo, Pollers
<1>2. stopped' \subseteq stopped \cup {f}
  BY DEF Cancel
<1>3. current' \in [Accounts -> Flows \cup {Nothing}]
      /\ \A a \in Accounts : current'[a] \in {current[a], Nothing}
  BY DEF FlowTypes
<1>4. FlowTypes'
  BY <1>1, <1>2, <1>3 DEF FlowTypes, Turned, FlowRecords, Pollers
<1>5. FlowOK(f)'
  BY <1>1 DEF Turned, FlowOK
<1> QED BY <1>1, <1>2, <1>3, <1>4, <1>5, FlowAlone DEF Turned

\* Each action of a flow, by the state it leaves the flow in.
LEMMA DeviceKeepsFlows ==
  ASSUME RowTypes, RowsOK, FlowTypes, FlowInv, NEW f \in Flows, AuthorizeDevice(f)
  PROVE  (FlowTypes /\ FlowInv)'
<1> USE DEF PollerTo, Pollers, FlowStates
<1> DEFINE s == flow[f].state
           u == flow[f].person
<1>1. /\ FlowTypes /\ FlowOK(f) /\ s \in FlowStates /\ u \in Somebody /\ Nothing \in Somebody
      /\ poller[f] \in Pollers
  BY DEF FlowInv, FlowTypes, Somebody
<1>2. ASSUME NEW a \in Accounts, StartAuthorization(f, a)
      PROVE  (FlowTypes /\ FlowInv)'
  <2> DEFINE q == [NoFlow EXCEPT !.account = a]
             r == [q EXCEPT !.address = rows[a].address]
  <2>1. q \in FlowRecords /\ q.state = "none" /\ q.account = a
    BY NoFlowType DEF FlowRecords, NoFlow, Anyone
  <2>2. rows[a].address \in Anywhere
    BY DEF RowTypes, AccountRows
  <2>3. flow' = [flow EXCEPT ![f] = r]
    BY <1>2 DEF StartAuthorization, NoFlow
  <2> HIDE DEF q
  <2>4. r \in FlowRecords /\ r.state = "none" /\ r.account = a
    BY <2>1, <2>2 DEF FlowRecords
  <2> HIDE DEF r
  <2>5. /\ poller' = [poller EXCEPT ![f] = "requesting"] /\ UNCHANGED <<current, stopped>>
        /\ s = "none"
    BY <1>2 DEF StartAuthorization
  <2>6. FlowTypes'
    BY <1>1, <2>3, <2>4, <2>5 DEF FlowTypes, FlowRecords
  <2>7. flow'[f] = r /\ poller'[f] = "requesting"
    BY <1>1, <2>3, <2>4, <2>5 DEF FlowTypes
  <2>8. FlowOK(f)'
    BY <1>1, <2>4, <2>5, <2>7 DEF FlowOK
  <2>9. \A g \in Flows \ {f} : flow'[g] = flow[g] /\ poller'[g] = poller[g]
    BY <1>1, <2>3, <2>5 DEF FlowTypes
  <2> QED BY <2>5, <2>6, <2>8, <2>9, FlowAlone
<1>3. ASSUME NEW a \in Accounts, ReplaceOAuthCredentials(f, a)
      PROVE  (FlowTypes /\ FlowInv)'
  <2> DEFINE linked == rows[a].person # Nothing
             q1 == [NoFlow EXCEPT !.account = a]
             q2 == [q1 EXCEPT !.address = rows[a].address]
             q3 == [q2 EXCEPT !.person = rows[a].person]
             r == [q3 EXCEPT !.confirmed = linked]
  <2>1. /\ rows[a].address \in Addresses /\ rows[a].person \in Somebody
        /\ rows[a].address \in Anywhere
    BY <1>3 DEF RowTypes, AccountRows, RowsOK, Anywhere, ReplaceOAuthCredentials
  <2>2. linked \in BOOLEAN /\ (linked \/ rows[a].person = Nothing)
    OBVIOUS
  <2>3. flow' = [flow EXCEPT ![f] = r]
    BY <1>3 DEF ReplaceOAuthCredentials
  <2> HIDE DEF linked
  <2>4. q1 \in FlowRecords /\ q1.state = "none"
    BY NoFlowType DEF FlowRecords, NoFlow, Anyone
  <2> HIDE DEF q1
  <2>5. q2 \in FlowRecords /\ q2.state = "none" /\ q2.address = rows[a].address
    BY <2>1, <2>4 DEF FlowRecords
  <2> HIDE DEF q2
  <2>6. /\ q3 \in FlowRecords /\ q3.state = "none" /\ q3.address = rows[a].address
         /\ q3.person = rows[a].person
    BY <2>1, <2>5 DEF FlowRecords
  <2> HIDE DEF q3
  <2>7. /\ r \in FlowRecords /\ r.state = "none" /\ r.address = rows[a].address
        /\ r.person = rows[a].person /\ r.confirmed = linked
    BY <2>2, <2>6 DEF FlowRecords
  <2> HIDE DEF r
  <2>8. /\ poller' = [poller EXCEPT ![f] = "replacing"] /\ UNCHANGED <<current, stopped>>
        /\ s = "none"
    BY <1>3 DEF ReplaceOAuthCredentials
  <2>9. FlowTypes'
    BY <1>1, <2>3, <2>7, <2>8 DEF FlowTypes, FlowRecords
  <2>10. flow'[f] = r /\ poller'[f] = "replacing"
    BY <1>1, <2>3, <2>8 DEF FlowTypes
  <2>11. FlowOK(f)'
    BY <1>1, <2>1, <2>2, <2>7, <2>8, <2>10 DEF FlowOK
  <2>12. \A g \in Flows \ {f} : flow'[g] = flow[g] /\ poller'[g] = poller[g]
    BY <1>1, <2>3, <2>8 DEF FlowTypes
  <2> QED BY <2>8, <2>9, <2>11, <2>12, FlowAlone
\* The record of a flow that came to nothing is taken back.
<1>4. ASSUME flow' = [flow EXCEPT ![f] = NoFlow], poller' = [poller EXCEPT ![f] = "none"],
             UNCHANGED <<current, stopped>>, s = "none"
      PROVE  (FlowTypes /\ FlowInv)'
  <2>1. FlowTypes'
    BY <1>1, <1>4, NoFlowType DEF FlowTypes, FlowRecords
  <2>2. flow'[f] = NoFlow /\ poller'[f] = "none"
    BY <1>1, <1>4 DEF FlowTypes
  <2>3. FlowOK(f)'
    BY <1>1, <1>4, <2>2 DEF FlowOK, NoFlow
  <2>4. \A g \in Flows \ {f} : flow'[g] = flow[g] /\ poller'[g] = poller[g]
    BY <1>1, <1>4 DEF FlowTypes
  <2> QED BY <1>4, <2>1, <2>3, <2>4, FlowAlone
<1>5. RequestFails(f) => (FlowTypes /\ FlowInv)'
  BY <1>1, <1>4 DEF RequestFails, FlowOK
<1>6. StoreReplacement(f) => (FlowTypes /\ FlowInv)'
  BY <1>1, <1>4 DEF StoreReplacement, FlowOK
<1>7. CASE RegisterAuthorization(f)
  <2> DEFINE a == flow[f].account
             new(g) == IF g = f THEN "waiting"
                       ELSE IF g = current[a] THEN "gone" ELSE flow[g].state
  <2>1. s = "none" /\ f \notin stopped
    BY <1>1, <1>7 DEF RegisterAuthorization, FlowOK
  <2>2. flow' = [g \in Flows |-> [flow[g] EXCEPT !.state = new(g)]]
    <3>1. ASSUME NEW g \in Flows
          PROVE  flow[g] = [flow[g] EXCEPT !.state = flow[g].state]
      BY <1>1 DEF FlowTypes
    <3> QED BY <1>7, <3>1 DEF RegisterAuthorization
  <2>3. \A g \in Flows : new(g) \in FlowStates
    BY <1>1 DEF FlowTypes
  <2> HIDE DEF new
  <2>4. /\ flow' \in [Flows -> FlowRecords]
        /\ \A g \in Flows : /\ flow'[g].state = new(g) /\ flow'[g].person = flow[g].person
                            /\ flow'[g].account = flow[g].account
                            /\ flow'[g].address = flow[g].address
                            /\ flow'[g].confirmed = flow[g].confirmed
    BY <1>1, <2>2, <2>3 DEF FlowTypes, FlowRecords
  <2>5. /\ poller' \in [Flows -> Pollers] /\ poller'[f] = "polling"
        /\ \A g \in Flows \ {f} : poller'[g] = poller[g]
        /\ current' \in [Accounts -> Flows \cup {Nothing}]
        /\ \A b \in Accounts : current'[b] = IF b = a THEN f ELSE current[b]
        /\ stopped' = stopped \cup {g \in Flows : g = current[a]
                                      /\ flow[g].state \in {"waiting", "confirmation_required"}}
    BY <1>1, <1>7 DEF RegisterAuthorization, FlowTypes, Cancel
  <2>6. FlowTypes'
    BY <1>1, <2>4, <2>5 DEF FlowTypes, FlowRecords
  <2>7. FlowOK(f)'
    BY <1>1, <2>1, <2>4, <2>5 DEF FlowOK, new
  <2>8. ASSUME NEW g \in Flows \ {f} PROVE FlowOK(g)'
    <3>1. FlowOK(g) /\ (g = current[a] /\ a \in Accounts => flow[g].state # "none")
      BY DEF FlowInv, CurrentOK
    <3>2. a \in Accounts
      BY <1>1, <1>7 DEF RegisterAuthorization, FlowOK
    <3>3. CASE g = current[a]
      BY <2>4, <2>5, <3>1, <3>2, <3>3 DEF FlowOK, new
    <3>4. CASE g # current[a]
      BY <2>4, <2>5, <3>1, <3>4 DEF FlowOK, new
    <3> QED BY <3>3, <3>4
  <2>9. ASSUME NEW b \in Accounts PROVE CurrentOK(b)'
    <3>1. CurrentOK(b)
      BY DEF FlowInv
    <3>2. \A g \in Flows : flow'[g].state = "none" => flow[g].state = "none" /\ g # f
      BY <2>4 DEF new
    <3> QED BY <2>5, <3>1, <3>2 DEF CurrentOK
  <2> QED BY <2>6, <2>7, <2>8, <2>9 DEF FlowInv
<1>8. CASE PollAuthorization(f)
  <2>1. ASSUME NEW v \in People, s = "waiting",
               flow' = [flow EXCEPT ![f].state = "finalizing", ![f].person = v],
               poller' = [poller EXCEPT ![f] = "storing"], MailOf[v] = flow[f].address,
               UNCHANGED <<current, stopped>>
        PROVE  (FlowTypes /\ FlowInv)'
    <3>1. v \in Somebody /\ Turned(f, "finalizing", v)
      BY <1>1, <2>1, Turning DEF Somebody
    <3> QED BY <1>1, <2>1, <3>1, FlowTurns DEF FlowOK
  <2>2. ASSUME NEW v \in People, s = "waiting",
               flow' = [flow EXCEPT ![f].state = "confirmation_required", ![f].person = v],
               poller' = [poller EXCEPT ![f] = "none"], UNCHANGED <<current, stopped>>
        PROVE  (FlowTypes /\ FlowInv)'
    <3>1. v \in Somebody /\ Turned(f, "confirmation_required", v)
      BY <1>1, <2>2, Turning DEF Somebody
    <3> QED BY <1>1, <2>2, <3>1, FlowTurns DEF FlowOK
  <2>3. ASSUME s # "waiting", UNCHANGED <<flow, current, stopped>>, poller[f] = "polling",
               poller' = [poller EXCEPT ![f] = "none"]
        PROVE  (FlowTypes /\ FlowInv)'
    <3>1. Turned(f, s, u)
      BY <1>1, <2>3 DEF Turned, FlowTypes, FlowRecords
    <3> QED BY <1>1, <2>3, <3>1, FlowTurns DEF FlowOK
  <2> QED BY <1>8, <2>1, <2>2, <2>3 DEF PollAuthorization
<1>9. CASE FailAuthorization(f)
  <2> DEFINE t == IF s = "gone" THEN s ELSE "failed"
  <2>1. t \in FlowStates /\ t \in {"gone", "failed"} /\ Turned(f, t, u)
    <3>1. flow' = [flow EXCEPT ![f].state = t] /\ t \in {"gone", "failed"}
      BY <1>9 DEF FailAuthorization
    <3> QED BY <1>1, <3>1, Turning
  <2> HIDE DEF t
  <2> QED BY <1>1, <1>9, <2>1, FlowTurns DEF FailAuthorization
<1>10. CASE RestartAuthorization(f)
  <2>1. Turned(f, "gone", Nothing)
    BY <1>1, <1>10, Turning DEF RestartAuthorization
  <2> QED BY <1>1, <1>10, <2>1, FlowTurns DEF RestartAuthorization, FlowOK
<1>11. CASE StoreAuthorization(f)
  <2>1. PICK p \in {"stored", "refused"} : poller' = [poller EXCEPT ![f] = p]
    BY <1>11 DEF StoreAuthorization
  <2>2. poller[f] = "storing" /\ UNCHANGED <<flow, current, stopped>>
    BY <1>11 DEF StoreAuthorization
  <2>3. Turned(f, s, u)
    BY <1>1, <2>2 DEF Turned, FlowTypes, FlowRecords
  <2> QED BY <1>1, <2>1, <2>2, <2>3, FlowTurns DEF FlowOK
<1>12. CASE FinishAuthorization(f)
  <2> DEFINE t == IF s = "gone" THEN s
                  ELSE IF poller[f] = "stored" THEN "completed" ELSE "failed"
  <2>1. t \in {"gone", "completed", "failed"} /\ t \in FlowStates
    OBVIOUS
  <2>2. flow' = [flow EXCEPT ![f].person = Nothing, ![f].state = t]
    BY <1>1, <1>12 DEF FinishAuthorization, FlowTypes
  <2>3. f \notin stopped /\ poller' = [poller EXCEPT ![f] = "none"]
        /\ UNCHANGED <<current, stopped>>
    BY <1>1, <1>12 DEF FinishAuthorization, FlowOK
  <2> HIDE DEF t
  <2>4. Turned(f, t, Nothing)
    BY <1>1, <2>1, <2>2, Turning
  <2> QED BY <1>1, <2>1, <2>3, <2>4, FlowTurns
<1>13. CASE DiscardAuthorization(f)
  <2>1. Turned(f, "gone", u)
    BY <1>1, <1>13, Turning DEF DiscardAuthorization
  <2> QED BY <1>1, <1>13, <2>1, FlowTurns DEF DiscardAuthorization
<1>14. CASE ConfirmAuthorization(f)
  <2>1. ASSUME flow' = [flow EXCEPT ![f].state = "failed"], UNCHANGED <<poller, current, stopped>>,
               s = "confirmation_required"
        PROVE  (FlowTypes /\ FlowInv)'
    <3>1. Turned(f, "failed", u)
      BY <1>1, <2>1, Turning
    <3> QED BY <1>1, <2>1, <3>1, FlowTurns DEF FlowOK
  <2>2. ASSUME flow' = [flow EXCEPT ![f].state = "finalizing", ![f].confirmed = TRUE],
               poller' = [poller EXCEPT ![f] = "storing"], UNCHANGED <<current, stopped>>,
               s = "confirmation_required"
        PROVE  (FlowTypes /\ FlowInv)'
    <3> DEFINE q == [flow[f] EXCEPT !.state = "finalizing"]
               r == [q EXCEPT !.confirmed = TRUE]
    <3>1. q \in FlowRecords /\ q.state = "finalizing"
      BY <1>1 DEF FlowTypes, FlowRecords
    <3>2. flow' = [flow EXCEPT ![f] = r]
      BY <1>1, <2>2 DEF FlowTypes
    <3> HIDE DEF q
    <3>3. r \in FlowRecords /\ r.state = "finalizing" /\ r.confirmed
      BY <3>1 DEF FlowRecords
    <3> HIDE DEF r
    <3>4. flow \in [Flows -> FlowRecords] /\ poller \in [Flows -> Pollers]
      BY <1>1 DEF FlowTypes, FlowRecords
    <3>5. flow' \in [Flows -> FlowRecords] /\ flow'[f] = r
      BY <3>2, <3>3, <3>4
    <3>6. poller' \in [Flows -> Pollers] /\ poller'[f] = "storing"
      BY <2>2, <3>4
    <3>7. FlowTypes'
      BY <1>1, <2>2, <3>5, <3>6 DEF FlowTypes, FlowRecords
    <3>8. f \notin stopped
      BY <1>1, <2>2 DEF FlowOK
    <3>9. FlowOK(f)'
      BY <2>2, <3>3, <3>8, <3>5, <3>6 DEF FlowOK
    <3>10. \A g \in Flows \ {f} : flow'[g] = flow[g] /\ poller'[g] = poller[g]
      BY <1>1, <2>2, <3>2 DEF FlowTypes
    <3> QED BY <1>1, <2>2, <3>3, <3>9, <3>10, <3>7, <3>5, FlowAlone
  <2> QED BY <1>14, <2>1, <2>2 DEF ConfirmAuthorization
<1>15. CASE ValidateReplacement(f)
  <2>1. s = "none" /\ UNCHANGED <<current, stopped>>
    BY <1>1, <1>15 DEF ValidateReplacement, FlowOK
  <2>2. ASSUME NEW owner \in People, NEW v \in Profile(owner, u, flow[f].address),
               Fits(v, u, flow[f].address), flow' = [flow EXCEPT ![f].person = v],
               poller[f] = "replacing", poller' = [poller EXCEPT ![f] = "replaced"]
        PROVE  (FlowTypes /\ FlowInv)'
    <3>1. v \in Somebody
      <4>1. flow[f].address \in Addresses
        BY <1>1, <2>2 DEF FlowOK
      <4>2. Imported[flow[f].address] \in People
        BY <4>1, AuthorizeConstants
      <4> QED BY <1>1, <2>2, <4>2 DEF Profile, Somebody
    <3>2. Turned(f, s, v)
      <4> DEFINE r == [flow[f] EXCEPT !.person = v]
      <4>1. /\ r \in FlowRecords /\ r.person = v /\ r.state = s
            /\ r.account = flow[f].account /\ r.address = flow[f].address
            /\ r.confirmed = flow[f].confirmed
        BY <1>1, <3>1 DEF FlowTypes, FlowRecords
      <4>2. flow' = [flow EXCEPT ![f] = r]
        BY <2>2
      <4> HIDE DEF r
      <4> QED BY <1>1, <4>1, <4>2 DEF Turned, FlowTypes, FlowRecords
    <3>3. flow[f].confirmed \/ MailOf[v] = flow[f].address
      BY <1>1, <2>2 DEF FlowOK, Fits
    <3>4. f \notin stopped
      BY <1>1, <2>1 DEF FlowOK
    <3> QED BY <1>1, <2>1, <2>2, <3>1, <3>2, <3>3, <3>4, FlowTurns
  <2> QED BY <1>4, <1>15, <2>1, <2>2 DEF ValidateReplacement
<1> QED BY <1>2, <1>3, <1>5, <1>6, <1>7, <1>8, <1>9, <1>10, <1>11, <1>12, <1>13, <1>14, <1>15
     DEF AuthorizeDevice

\* The administrator stops a flow, and so does the end of the server.
LEMMA InvalidationKeepsFlows ==
  ASSUME FlowTypes, FlowInv, edit # NoEdit => edit.account \in Accounts,
         InvalidateAuthorization
  PROVE  (FlowTypes /\ FlowInv)'
<1> DEFINE G == {f \in Flows : f = current[edit.account] /\ flow[f].state # "gone"
                                /\ edit.address \in {Nothing, flow[f].address}}
           new(f) == IF f \in G THEN "failed" ELSE flow[f].state
<1>1. \A f \in G : f \in Flows /\ flow[f].state # "none"
  BY DEF InvalidateAuthorization, FlowInv, CurrentOK
<1>2. flow' = [f \in Flows |-> [flow[f] EXCEPT !.state = new(f)]]
  <2>1. ASSUME NEW f \in Flows
        PROVE  flow[f] = [flow[f] EXCEPT !.state = flow[f].state]
    BY DEF FlowTypes
  <2> QED BY <2>1 DEF InvalidateAuthorization
<1>3. stopped' = stopped \cup {f \in G : flow[f].state \in {"waiting", "confirmation_required"}}
      /\ UNCHANGED <<current, poller>>
  BY DEF InvalidateAuthorization, Cancel
<1> HIDE DEF G
<1>4. \A f \in Flows : new(f) \in FlowStates
  BY DEF FlowTypes, FlowStates
<1> HIDE DEF new
<1>5. /\ flow' \in [Flows -> FlowRecords]
      /\ \A f \in Flows : /\ flow'[f].state = new(f) /\ flow'[f].person = flow[f].person
                          /\ flow'[f].address = flow[f].address
                          /\ flow'[f].account = flow[f].account
                          /\ flow'[f].confirmed = flow[f].confirmed
  BY <1>2, <1>4 DEF FlowTypes, FlowRecords
<1>6. FlowTypes'
  BY <1>1, <1>3, <1>5 DEF FlowTypes, FlowRecords
<1>7. ASSUME NEW f \in Flows PROVE FlowOK(f)'
  BY <1>1, <1>3, <1>5 DEF FlowInv, FlowOK, new
<1>8. ASSUME NEW a \in Accounts PROVE CurrentOK(a)'
  BY <1>1, <1>3, <1>5 DEF FlowInv, CurrentOK, new
<1> QED BY <1>6, <1>7, <1>8 DEF FlowInv

LEMMA StopKeepsFlows ==
  ASSUME FlowTypes, FlowInv, StopServer
  PROVE  (FlowTypes /\ FlowInv)'
<1>1. ASSUME NEW f \in Flows, flow[f].state # "none"
      PROVE  /\ [flow[f] EXCEPT !.state = "gone", !.person = Nothing] \in FlowRecords
             /\ [flow[f] EXCEPT !.state = "gone", !.person = Nothing].state = "gone"
  <2> DEFINE q == [flow[f] EXCEPT !.state = "gone"]
  <2>1. q \in FlowRecords /\ q.state = "gone"
    BY DEF FlowTypes, FlowRecords, FlowStates
  <2>2. [q EXCEPT !.person = Nothing] \in FlowRecords
        /\ [q EXCEPT !.person = Nothing].state = "gone"
    <3> HIDE DEF q
    <3> QED BY <2>1 DEF FlowRecords, Somebody
  <2> QED BY <2>2 DEF FlowTypes
<1>2. /\ flow' \in [Flows -> FlowRecords]
      /\ \A f \in Flows : flow'[f].state = IF flow[f].state = "none" THEN "none" ELSE "gone"
  BY <1>1, NoFlowType DEF StopServer, NoFlow
<1>3. /\ current' = [a \in Accounts |-> Nothing]
      /\ poller' = [f \in Flows |-> "none"] /\ UNCHANGED stopped
  BY DEF StopServer
<1>4. FlowTypes'
  BY <1>2, <1>3 DEF FlowTypes, FlowRecords
<1>5. ASSUME NEW f \in Flows PROVE FlowOK(f)'
  BY <1>2, <1>3 DEF FlowInv, FlowOK
<1>6. ASSUME NEW a \in Accounts PROVE CurrentOK(a)'
  BY <1>3, AuthorizeConstants DEF CurrentOK
<1> QED BY <1>4, <1>5, <1>6 DEF FlowInv

LEMMA UnchangedFlows ==
  ASSUME FlowTypes, FlowInv, UNCHANGED authorizeFlows
  PROVE  (FlowTypes /\ FlowInv)'
BY DEF FlowTypes, FlowInv, FlowOK, CurrentOK, authorizeFlows

\* The flows, under any step.
LEMMA FlowsStep ==
  ASSUME AuthorizeIInv, AuthorizeNext
  PROVE  (FlowTypes /\ FlowInv)'
<1>1. /\ RowTypes /\ FlowTypes /\ RowsOK /\ FlowInv
      /\ edit # NoEdit => edit.account \in Accounts
  BY AuthorizeTyping DEF AuthorizeIInv
<1>2. Administer => UNCHANGED authorizeFlows \/ InvalidateAuthorization
  BY DEF Administer, ImportAccount, EditAddress, Disable, Enable, Delete
<1> QED BY <1>1, <1>2, ImportFrame, DeviceKeepsFlows, InvalidationKeepsFlows, StopKeepsFlows,
     UnchangedFlows DEF AuthorizeNext, ImportAction
-----------------------------------------------------------------------------
(* The credential import.                                                    *)

LineRecords == [address : Anywhere, person : Somebody, secret : BOOLEAN,
                state : {"none", "queued", "running"} \cup Verdicts]
TaskRecords == [step : TaskSteps, account : Anyone, person : Somebody,
                found : {"nothing", "account", "person"}]

LEMMA NoTaskType ==
  /\ NoTask \in TaskRecords /\ NoTask.step = "none"
  /\ \A s \in {"listed", "dropped"} : /\ [NoTask EXCEPT !.step = s] \in TaskRecords
                                      /\ [NoTask EXCEPT !.step = s].step = s
BY DEF NoTask, TaskRecords, TaskSteps, Anyone, Somebody

\* A line in hand is worked on by a processing that lists the lines, alone
\* unless a second one was begun.
LEMMA InHand ==
  ASSUME ImportTypes, ImportInv, NEW r \in Runs, NEW l \in Lines, task[r][l].step # "none"
  PROVE  /\ run[r] = "working" /\ import # "none" /\ line[l].address \in Addresses
         /\ ~doubled => /\ import # "completed" /\ Pending(l) /\ ~Settled(l)
                        /\ \A q \in Runs, k \in Lines : task[q][k].step # "none" => q = r
<1>1. run[r] = "working" /\ import # "none"
  BY DEF ImportInv, RunOK
<1>2. ASSUME ~doubled
      PROVE  /\ import # "completed" /\ Pending(l) /\ ~Settled(l)
             /\ \A q \in Runs, k \in Lines : task[q][k].step # "none" => q = r
  <2>1. Settling /\ Pending(l)
    BY <1>2 DEF ImportInv, Settling
  <2>2. ~Settled(l)
    BY <2>1 DEF Pending, Settled, Open, Verdicts
  <2>3. \A q \in Runs, k \in Lines : task[q][k].step # "none" => run[q] = "working"
    BY DEF ImportInv, RunOK
  <2> QED BY <1>1, <2>1, <2>2, <2>3 DEF Settling
<1> QED BY <1>1, <1>2 DEF ImportInv

\* One processing turns to something else with one line, and may write the line.
LineAt(l, s, b) ==
  /\ line' \in [Lines -> LineRecords]
  /\ \A k \in Lines \ {l} : line'[k] = line[k]
  /\ line'[l].address = line[l].address
  /\ line'[l].state = s /\ line'[l].secret = b

TaskAt(r, l, t) == task' = [task EXCEPT ![r][l] = t]

LEMMA LineAlone ==
  ASSUME ImportTypes, ImportInv, NEW r \in Runs, NEW l \in Lines, task[r][l].step # "none",
         NEW t \in TaskRecords, TaskAt(r, l, t),
         NEW s \in {"none", "queued", "running"} \cup Verdicts, NEW b \in BOOLEAN,
         LineAt(l, s, b),
         UNCHANGED <<import, run, doubled, neglected>>,
         t.step \in {"listed", "loaded"} => t = [NoTask EXCEPT !.step = t.step],
         t.step = "validating" =>
           \/ t.person = Nothing /\ t.found # "person"
           \/ t.account # Nothing /\ t.found = "person",
         t.step = "creating" => MailOf[t.person] = line[l].address,
         t.step = "storing" => t.found = "person" \/ MailOf[t.person] = line[l].address,
         b => line[l].secret /\ s \in Open /\ t.step # "none",
         ~doubled => \/ t.step # "none" /\ s \in Open /\ b
                     \/ t.step = "none" /\ s \in Verdicts /\ ~b
  PROVE  (ImportTypes /\ ImportInv)'
<1>1. /\ task' \in [Runs -> [Lines -> TaskRecords]]
      /\ \A q \in Runs, k \in Lines :
           task'[q][k] = IF q = r /\ k = l THEN t ELSE task[q][k]
  BY DEF ImportTypes, TaskRecords, TaskAt
<1>2. ImportTypes'
  BY <1>1 DEF ImportTypes, TaskRecords, LineAt, LineRecords
<1>3. \A k \in Lines : line'[k].address = line[k].address
  BY DEF LineAt
<1>4. ASSUME NEW q \in Runs, NEW k \in Lines PROVE TaskOK(q, k)'
  <2>1. CASE q = r /\ k = l
    <3>1. task'[q][k] = t
      BY <1>1, <2>1
    <3> QED BY <1>3, <2>1, <3>1 DEF TaskOK
  <2>2. CASE ~(q = r /\ k = l)
    <3>1. task'[q][k] = task[q][k]
      BY <1>1, <2>2
    <3> QED BY <1>3, <3>1 DEF ImportInv, TaskOK
  <2> QED BY <2>1, <2>2
<1>5. ASSUME NEW q \in Runs PROVE RunOK(q)'
  <2>1. run[r] = "working"
    BY InHand
  <2> QED BY <1>1, <2>1 DEF ImportInv, RunOK
<1>6. ASSUME ~doubled PROVE Settling'
  <2>1. Settling /\ import # "completed" /\ Pending(l)
        /\ \A q \in Runs, k \in Lines : task[q][k].step # "none" => q = r
    BY <1>6, InHand DEF ImportInv
  <2>2. \A k \in Lines \ {l} : (Settled(k)' <=> Settled(k)) /\ (Pending(k)' <=> Pending(k))
    BY DEF LineAt, Settled, Pending
  <2>3. CASE t.step # "none" /\ s \in Open /\ b
    <3>1. Pending(l)'
      BY <2>3 DEF LineAt, Pending
    <3> QED BY <1>1, <2>1, <2>2, <2>3, <3>1 DEF Settling
  <2>4. CASE t.step = "none" /\ s \in Verdicts /\ ~b
    <3>1. Settled(l)' /\ ~Pending(l)'
      BY <2>4 DEF LineAt, Settled, Pending, Open, Verdicts
    <3>2. \A q \in Runs, k \in Lines : task'[q][k].step # "none" => k # l \/ q # r
      BY <1>1, <2>4
    <3> QED BY <1>1, <2>1, <2>2, <2>4, <3>1, <3>2 DEF Settling
  <2> QED BY <1>6, <2>3, <2>4
<1>7. import' # "none" => \A k \in Lines : line'[k].address \in Addresses
  BY <1>3 DEF ImportInv
<1>8. Secrets'
  <2>1. \A k \in Lines : line'[k].secret => line[k].secret
    BY DEF LineAt
  <2>2. ASSUME NEW k \in Lines, line'[k].secret PROVE line'[k].state \in Open
    <3>1. CASE k = l
      BY <2>2, <3>1 DEF LineAt
    <3>2. CASE k # l
      BY <2>2, <3>2 DEF LineAt, ImportInv, Secrets
    <3> QED BY <3>1, <3>2
  <2>3. ASSUME NEW q \in Runs, NEW k \in Lines, run'[q] = "working", line'[k].secret
        PROVE  task'[q][k].step # "none"
    <3>1. CASE q = r /\ k = l
      <4>1. b
        BY <2>3, <3>1 DEF LineAt
      <4> QED BY <1>1, <3>1, <4>1
    <3>2. CASE ~(q = r /\ k = l)
      BY <1>1, <2>1, <2>3, <3>2 DEF ImportInv, Secrets
    <3> QED BY <3>1, <3>2
  <2> QED BY <2>1, <2>2, <2>3 DEF ImportInv, Secrets
<1> QED BY <1>2, <1>4, <1>5, <1>6, <1>7, <1>8 DEF ImportInv

\* The line itself stays as it is.
LEMMA LineSame ==
  ASSUME ImportTypes, UNCHANGED line, NEW l \in Lines
  PROVE  /\ LineAt(l, line[l].state, line[l].secret)
         /\ line[l].state \in {"none", "queued", "running"} \cup Verdicts
         /\ line[l].secret \in BOOLEAN
BY DEF ImportTypes, LineAt, LineRecords

LEMMA Becoming ==
  ASSUME ImportTypes, NEW r \in Runs, NEW l \in Lines, NEW s \in TaskSteps
  PROVE  LET t == [task[r][l] EXCEPT !.step = s]
         IN /\ Become(r, l, s) => TaskAt(r, l, t)
            /\ t \in TaskRecords /\ t.step = s
            /\ t.account = task[r][l].account /\ t.person = task[r][l].person
            /\ t.found = task[r][l].found
<1>1. task[r][l] \in TaskRecords
  BY DEF ImportTypes, TaskRecords
<1> QED BY <1>1 DEF Become, TaskAt, TaskRecords

LEMMA LineKeepsImport ==
  ASSUME RowTypes, RowsOK, ImportTypes, ImportInv, NEW r \in Runs, NEW l \in Lines,
         ProcessLine(r, l)
  PROVE  (ImportTypes /\ ImportInv)'
<1> DEFINE t == task[r][l]
           to(s) == [t EXCEPT !.step = s]
<1>1. t \in TaskRecords /\ TaskOK(r, l)
  BY DEF ImportTypes, TaskRecords, ImportInv
<1>2. /\ t.step # "none" => /\ line[l].address \in Addresses
                            /\ ~doubled => line[l].state \in Open /\ line[l].secret
      /\ line[l].secret => line[l].state \in Open
  BY InHand DEF Pending, ImportInv, Secrets
\* A line that goes on, knowing what it knows.
<1>3. ASSUME NEW s \in TaskSteps \ {"none"}, Become(r, l, s), t.step # "none",
             UNCHANGED <<import, line, run, doubled, neglected>>,
             s = "validating" => \/ t.person = Nothing /\ t.found # "person"
                                 \/ t.account # Nothing /\ t.found = "person",
             s \in {"listed", "loaded"} => t.step = "listed",
             s \notin {"creating", "storing"}
      PROVE  (ImportTypes /\ ImportInv)'
  <2>1. TaskAt(r, l, to(s)) /\ to(s) \in TaskRecords /\ to(s).step = s
        /\ to(s).account = t.account /\ to(s).person = t.person /\ to(s).found = t.found
    BY <1>3, Becoming
  <2>2. s \in {"listed", "loaded"} => to(s) = [NoTask EXCEPT !.step = s]
    BY <1>1, <1>3, NoTaskType DEF TaskOK, NoTask, TaskRecords
  <2> HIDE DEF to
  <2> QED BY <1>2, <1>3, <2>1, <2>2, LineAlone, LineSame
<1>4. CASE LoadLine(r, l)
  <2>1. t.step = "listed" /\ UNCHANGED <<import, line, run, doubled, neglected>>
    BY <1>4 DEF LoadLine
  <2>2. Become(r, l, "dropped") \/ Become(r, l, "loaded")
    BY <1>4 DEF LoadLine
  <2> QED BY <1>3, <2>1, <2>2 DEF TaskSteps
<1>5. CASE CheckLine(r, l)
  <2>1. /\ t.step = "loaded" /\ t = [NoTask EXCEPT !.step = "loaded"]
        /\ UNCHANGED <<import, run, doubled, neglected>>
    BY <1>1, <1>5 DEF CheckLine, TaskOK
  <2>2. /\ \E s \in {"running", line[l].state} : LineAt(l, s, line[l].secret)
        /\ line[l].secret \in BOOLEAN
        /\ line[l].state \in {"none", "queued", "running"} \cup Verdicts
    <3>1. line \in [Lines -> LineRecords]
      BY DEF ImportTypes, LineRecords
    <3>2. line' \in {line, [line EXCEPT ![l].state = "running"]}
      BY <1>5 DEF CheckLine
    <3>3. CASE line' = line
      BY <3>3, LineSame
    <3>4. CASE line' = [line EXCEPT ![l].state = "running"]
      BY <3>1, <3>4 DEF LineAt, LineRecords
    <3> QED BY <3>1, <3>2, <3>3, <3>4, LineSame DEF LineRecords
  <2>3. ASSUME NEW w \in TaskRecords, TaskAt(r, l, w),
               w.step \in {"failed", "skipped", "validating"},
               w.step = "validating" => \/ w.person = Nothing /\ w.found # "person"
                                        \/ w.account # Nothing /\ w.found = "person"
        PROVE  (ImportTypes /\ ImportInv)'
    <3> DEFINE b == line[l].secret
    <3>1. PICK s \in {"running", line[l].state} : LineAt(l, s, b)
      BY <2>2
    <3>2. /\ b \in BOOLEAN /\ (~doubled => b) /\ (b => line[l].secret)
      BY <1>2, <2>1, <2>2
    <3>3. /\ s \in {"none", "queued", "running"} \cup Verdicts
          /\ b => s \in Open
          /\ ~doubled => s \in Open
      BY <1>2, <2>1, <2>2, <3>1 DEF Open
    <3>4. w.step \notin {"none", "listed", "loaded", "creating", "storing"}
      BY <2>3
    <3>5. /\ b => line[l].secret /\ s \in Open /\ w.step # "none"
          /\ ~doubled => w.step # "none" /\ s \in Open /\ b
      BY <3>2, <3>3, <3>4
    <3>6. task[r][l].step # "none" /\ UNCHANGED <<import, run, doubled, neglected>>
      BY <2>1
    <3> HIDE DEF b, t
    <3>7. /\ w.step \in {"listed", "loaded"} => w = [NoTask EXCEPT !.step = w.step]
          /\ w.step = "creating" => MailOf[w.person] = line[l].address
          /\ w.step = "storing" => w.found = "person" \/ MailOf[w.person] = line[l].address
      BY <3>4
    <3> QED BY <2>3, <3>1, <3>2, <3>3, <3>5, <3>6, <3>7, LineAlone
  <2>4. CASE Become(r, l, "validating")
    <3>1. "validating" \in TaskSteps
      BY DEF TaskSteps
    <3>2. /\ TaskAt(r, l, to("validating")) /\ to("validating") \in TaskRecords
          /\ to("validating").step = "validating" /\ to("validating").person = t.person
          /\ to("validating").found = t.found
      BY <2>4, <3>1, Becoming
    <3>3. t.person = Nothing /\ t.found = "nothing"
      BY <2>1 DEF NoTask
    <3> HIDE DEF to
    <3> QED BY <2>3, <3>2, <3>3
  <2>5. ASSUME NEW a \in Holder(line[l].address), NEW s \in {"failed", "skipped", "validating"},
               NEW w \in TaskRecords, w.account = a, w.person = rows[a].person, w.step = s,
               w.found = IF rows[a].person = Nothing THEN "account" ELSE "person",
               TaskAt(r, l, w)
        PROVE  (ImportTypes /\ ImportInv)'
    <3>1. w.account # Nothing
      BY <2>5, AuthorizeConstants DEF Holder
    <3>2. \/ w.person = Nothing /\ w.found # "person"
          \/ w.found = "person"
      BY <2>5
    <3> QED BY <2>3, <2>5, <3>1, <3>2
  <2>6. CASE ~Become(r, l, "validating") /\ ~Become(r, l, "failed")
    <3>1. PICK a \in Holder(line[l].address) :
            task' = [task EXCEPT ![r][l] = [account |-> a, person |-> rows[a].person,
              found |-> IF rows[a].person = Nothing THEN "account" ELSE "person",
              step |-> IF rows[a].status = "disabled" THEN "failed"
                       ELSE IF rows[a].person # Nothing /\ ~Overwrite THEN "skipped"
                       ELSE "validating"]]
      BY <1>5, <2>6 DEF CheckLine
    <3> DEFINE known == IF rows[a].person = Nothing THEN "account" ELSE "person"
               s == IF rows[a].status = "disabled" THEN "failed"
                    ELSE IF rows[a].person # Nothing /\ ~Overwrite THEN "skipped"
                    ELSE "validating"
               w == [account |-> a, person |-> rows[a].person, found |-> known, step |-> s]
    <3>2. TaskAt(r, l, w)
      BY <3>1 DEF TaskAt
    <3>3. s \in {"failed", "skipped", "validating"} /\ known \in {"account", "person"}
          /\ a \in Anyone /\ rows[a].person \in Somebody
      BY DEF Holder, Anyone, RowTypes, AccountRows
    <3>4. known = IF rows[a].person = Nothing THEN "account" ELSE "person"
      OBVIOUS
    <3> HIDE DEF s, known
    <3>5. /\ w \in TaskRecords /\ w.account = a /\ w.person = rows[a].person
          /\ w.found = known /\ w.step = s
      BY <3>3 DEF TaskRecords, TaskSteps, Verdicts
    <3> HIDE DEF w
    <3> QED BY <2>5, <3>2, <3>3, <3>4, <3>5
  <2>7. CASE Become(r, l, "failed")
    <3>1. "failed" \in TaskSteps
      BY DEF TaskSteps, Verdicts
    <3>2. /\ TaskAt(r, l, to("failed")) /\ to("failed") \in TaskRecords
          /\ to("failed").step = "failed"
      BY <2>7, <3>1, Becoming
    <3> HIDE DEF to
    <3> QED BY <2>3, <3>2
  <2> QED BY <2>4, <2>6, <2>7
<1>6. CASE ValidateLine(r, l)
  <2>1. t.step = "validating" /\ UNCHANGED <<import, line, run, doubled, neglected>>
    BY <1>6 DEF ValidateLine
  <2>2. Become(r, l, "failed") => (ImportTypes /\ ImportInv)'
    BY <1>3, <2>1 DEF TaskSteps, Verdicts
  <2>3. ASSUME NEW u \in Profile(line[l].person, t.person, line[l].address),
               Fits(u, t.person, line[l].address),
               task' = [task EXCEPT ![r][l].person = u,
                                    ![r][l].step = IF task[r][l].account = Nothing
                                                   THEN "creating" ELSE "storing"]
        PROVE  (ImportTypes /\ ImportInv)'
    <3> DEFINE s == IF t.account = Nothing THEN "creating" ELSE "storing"
               v == [t EXCEPT !.person = u]
               w == [v EXCEPT !.step = s]
    <3>1. s \in {"creating", "storing"} /\ (s = "creating" => t.account = Nothing)
      OBVIOUS
    <3>2. TaskAt(r, l, w)
      BY <2>3 DEF TaskAt, ImportTypes
    <3> HIDE DEF s
    <3>3. u \in Somebody
      <4>1. Imported[line[l].address] \in People /\ line[l].person \in Somebody
        BY <1>2, <2>1, AuthorizeConstants DEF ImportTypes
      <4> QED BY <1>1, <4>1 DEF Profile, Somebody, TaskRecords
    <3>4. v \in TaskRecords /\ v.person = u /\ v.account = t.account /\ v.found = t.found
      BY <1>1, <3>3 DEF TaskRecords
    <3> HIDE DEF v
    <3>5. /\ w \in TaskRecords /\ w.person = u /\ w.step = s /\ w.found = t.found
      BY <3>1, <3>4 DEF TaskRecords, TaskSteps
    <3> HIDE DEF w
    <3>6. s = "creating" => MailOf[u] = line[l].address
      BY <1>1, <2>1, <2>3, <3>1 DEF TaskOK, Fits
    <3>7. s = "storing" => t.found = "person" \/ MailOf[u] = line[l].address
      BY <1>1, <2>1, <2>3 DEF TaskOK, Fits
    <3> QED BY <1>2, <2>1, <3>1, <3>2, <3>5, <3>6, <3>7, LineAlone, LineSame
  <2> QED BY <1>6, <2>2, <2>3 DEF ValidateLine
<1>7. CASE CreateAccount(r, l)
  <2>1. t.step = "creating" /\ UNCHANGED <<import, line, run, doubled, neglected>>
    BY <1>7 DEF CreateAccount
  <2>2. Become(r, l, "failed") => (ImportTypes /\ ImportInv)'
    BY <1>3, <2>1 DEF TaskSteps, Verdicts
  <2>3. ASSUME NEW a \in Accounts,
               task' = [task EXCEPT ![r][l].account = a, ![r][l].found = "nothing",
                                    ![r][l].step = "storing"]
        PROVE  (ImportTypes /\ ImportInv)'
    <3> DEFINE v == [t EXCEPT !.account = a]
               q == [v EXCEPT !.found = "nothing"]
               w == [q EXCEPT !.step = "storing"]
    <3>1. TaskAt(r, l, w)
      BY <2>3 DEF TaskAt, ImportTypes
    <3>2. v \in TaskRecords /\ v.person = t.person
      BY <1>1 DEF TaskRecords, Anyone
    <3> HIDE DEF v
    <3>3. q \in TaskRecords /\ q.person = t.person
      BY <3>2 DEF TaskRecords
    <3> HIDE DEF q
    <3>4. w \in TaskRecords /\ w.person = t.person /\ w.step = "storing"
      BY <3>3 DEF TaskRecords, TaskSteps
    <3> HIDE DEF w
    <3>5. MailOf[t.person] = line[l].address
      BY <1>1, <2>1 DEF TaskOK
    <3> QED BY <1>2, <2>1, <3>1, <3>4, <3>5, LineAlone, LineSame
  <2> QED BY <1>7, <2>2, <2>3 DEF CreateAccount
<1>8. CASE StoreLine(r, l)
  <2>1. t.step = "storing" /\ UNCHANGED <<import, line, run, doubled, neglected>>
    BY <1>8 DEF StoreLine
  <2>2. \E s \in {"created", "updated", "removing", "failed"} : Become(r, l, s)
    BY <1>8 DEF StoreLine
  <2> QED BY <1>3, <2>1, <2>2 DEF TaskSteps, Verdicts
<1>9. CASE RemoveAccount(r, l)
  <2>1. t.step = "removing" /\ UNCHANGED <<import, line, run, doubled, neglected>>
        /\ Become(r, l, "failed")
    BY <1>9 DEF RemoveAccount
  <2> QED BY <1>3, <2>1 DEF TaskSteps, Verdicts
<1>10. CASE CompleteLine(r, l)
  <2>1. /\ t.step \in Verdicts /\ t.step # "none"
        /\ UNCHANGED <<import, run, doubled, neglected>>
    BY <1>10 DEF CompleteLine, Verdicts
  <2>2. CASE Become(r, l, "dropped") /\ UNCHANGED line
    BY <1>3, <2>1, <2>2 DEF TaskSteps
  <2>3. CASE ~(Become(r, l, "dropped") /\ UNCHANGED line)
    <3> DEFINE v == [line[l] EXCEPT !.state = t.step]
               w == [v EXCEPT !.secret = FALSE]
    <3>1. line \in [Lines -> LineRecords] /\ line[l] \in LineRecords
      BY DEF ImportTypes, LineRecords
    <3>2. line' = [line EXCEPT ![l] = w] /\ TaskAt(r, l, NoTask)
      BY <1>10, <2>3, <3>1 DEF CompleteLine, TaskAt
    <3>3. v \in LineRecords /\ v.address = line[l].address /\ v.state = t.step
      BY <2>1, <3>1 DEF LineRecords
    <3> HIDE DEF v
    <3>4. /\ w \in LineRecords /\ w.address = line[l].address /\ w.state = t.step
          /\ w.secret = FALSE
      BY <3>3 DEF LineRecords
    <3> HIDE DEF w
    <3>5. LineAt(l, t.step, FALSE)
      BY <3>1, <3>2, <3>4 DEF LineAt
    <3> QED BY <2>1, <3>2, <3>5, NoTaskType, LineAlone
  <2> QED BY <2>2, <2>3
<1> QED BY <1>4, <1>5, <1>6, <1>7, <1>8, <1>9, <1>10 DEF ProcessLine

\* The lines are staged, and a processing begins.
LEMMA StagingKeepsImport ==
  ASSUME ImportTypes, ImportInv, NEW r \in Runs, StartOAuthImport(r)
  PROVE  (ImportTypes /\ ImportInv)'
<1>1. PICK where \in [Lines -> Addresses], whose \in [Lines -> People] :
        line' = [l \in Lines |-> [address |-> where[l], person |-> whose[l],
                                  state |-> "queued", secret |-> TRUE]]
  BY DEF StartOAuthImport
<1>2. /\ import = "none" /\ import' = "queued" /\ UNCHANGED <<task, neglected>>
      /\ run' = [run EXCEPT ![r] = "begun"]
      /\ doubled' = (doubled \/ \E q \in Runs : run[q] # "idle")
  BY DEF StartOAuthImport, Begin
<1>3. /\ \A q \in Runs : run[q] = "idle" /\ run'[q] = IF q = r THEN "begun" ELSE "idle"
      /\ \A q \in Runs, l \in Lines : task'[q][l].step = "none"
  BY <1>2 DEF ImportTypes, ImportInv, RunOK
<1>4. ImportTypes'
  <2>1. line' \in [Lines -> LineRecords]
    BY <1>1 DEF LineRecords, Anywhere, Somebody
  <2>2. doubled' \in BOOLEAN
    BY <1>2
  <2>3. run' \in [Runs -> {"idle", "begun", "working"}]
    BY <1>2 DEF ImportTypes
  <2> QED BY <1>2, <2>1, <2>2, <2>3 DEF ImportTypes, LineRecords
<1>5. \A l \in Lines : line'[l].address \in Addresses /\ Pending(l)'
  BY <1>1 DEF Pending, Open
<1>6. ASSUME ~doubled' PROVE Settling'
  <2>1. neglected = {}
    BY <1>2, <1>6 DEF ImportInv, Settling
  <2> QED BY <1>2, <1>3, <1>5, <2>1 DEF Settling
<1>7. \A q \in Runs : RunOK(q)' /\ \A l \in Lines : TaskOK(q, l)'
  BY <1>2, <1>3 DEF RunOK, TaskOK
<1>8. Secrets'
  BY <1>2, <1>3, <1>5 DEF Secrets, Pending
<1> QED BY <1>4, <1>5, <1>6, <1>7, <1>8 DEF ImportInv

\* An unlock begins one more.
LEMMA ResumingKeepsImport ==
  ASSUME ImportTypes, ImportInv, NEW r \in Runs, ResumeOAuthImports(r)
  PROVE  (ImportTypes /\ ImportInv)'
<1>1. /\ import \in Open /\ UNCHANGED <<import, line, task, neglected>> /\ run[r] = "idle"
      /\ run' = [run EXCEPT ![r] = "begun"]
      /\ doubled' = (doubled \/ \E q \in Runs : run[q] # "idle")
  BY DEF ResumeOAuthImports, Begin
<1>2. import # "none"
  BY <1>1 DEF Open
<1>3. \A q \in Runs : run'[q] = IF q = r THEN "begun" ELSE run[q]
  BY <1>1 DEF ImportTypes
<1>4. doubled' \in BOOLEAN
  BY <1>1
<1>5. ImportTypes'
  BY <1>1, <1>4 DEF ImportTypes
<1>6. ASSUME ~doubled' PROVE Settling'
  <2>1. ~doubled /\ \A q \in Runs : run[q] = "idle"
    BY <1>1, <1>6
  <2>2. Settling
    BY <2>1 DEF ImportInv
  <2> QED BY <1>1, <1>3, <2>1, <2>2 DEF Settling, Settled, Pending
<1>7. \A q \in Runs : RunOK(q)'
  BY <1>1, <1>2, <1>3 DEF ImportInv, RunOK
<1>8. \A q \in Runs, l \in Lines : TaskOK(q, l)'
  BY <1>1 DEF ImportInv, TaskOK
<1>9. Secrets'
  BY <1>1, <1>3 DEF ImportInv, Secrets
<1> QED BY <1>1, <1>5, <1>6, <1>7, <1>8, <1>9 DEF ImportInv

\* A processing lists the open lines, unless the import is completed by now.
LEMMA ListingKeepsImport ==
  ASSUME ImportTypes, ImportInv, NEW r \in Runs, ProcessOAuthImport(r)
  PROVE  (ImportTypes /\ ImportInv)'
<1> DEFINE S == {l \in Lines : line[l].state \in Open}
<1>1. run[r] = "begun" /\ List(r, S) /\ UNCHANGED <<line, doubled, neglected>>
  BY DEF ProcessOAuthImport, List
<1>2. CASE import \in Open
  <2>0. PICK unread \in SUBSET S :
          task' = [task EXCEPT ![r] = [l \in Lines |->
            IF l \in S THEN [NoTask EXCEPT !.step = IF l \in unread THEN "dropped" ELSE "listed"]
            ELSE NoTask]]
    BY <1>1, <1>2 DEF List
  <2> DEFINE step(l) == IF l \in unread THEN "dropped" ELSE "listed"
             mine(l) == IF l \in S THEN [NoTask EXCEPT !.step = step(l)] ELSE NoTask
  <2>1. /\ import' = "running" /\ run' = [run EXCEPT ![r] = "working"]
        /\ task' = [task EXCEPT ![r] = [l \in Lines |-> mine(l)]]
    BY <1>1, <1>2, <2>0 DEF List
  <2>2. \A l \in Lines : /\ mine(l) \in TaskRecords /\ mine(l).step \in {"none", "dropped", "listed"}
                         /\ mine(l).step # "none" <=> line[l].state \in Open
                         /\ mine(l).step = "listed" => mine(l) = [NoTask EXCEPT !.step = "listed"]
    <3> TAKE l \in Lines
    <3>1. step(l) \in {"listed", "dropped"}
      OBVIOUS
    <3> HIDE DEF step
    <3> QED BY <3>1, NoTaskType DEF NoTask
  <2> HIDE DEF mine
  <2>3. /\ task' \in [Runs -> [Lines -> TaskRecords]]
        /\ \A q \in Runs, l \in Lines :
             task'[q][l] = IF q = r THEN mine(l) ELSE task[q][l]
    BY <2>1, <2>2 DEF ImportTypes, TaskRecords
  <2>4. /\ run' \in [Runs -> {"idle", "begun", "working"}]
        /\ \A q \in Runs : run'[q] = IF q = r THEN "working" ELSE run[q]
    BY <2>1 DEF ImportTypes
  <2>5. ImportTypes'
    BY <1>1, <2>1, <2>3, <2>4 DEF ImportTypes, TaskRecords
  <2>6. import # "none" /\ import # "completed"
    BY <1>2 DEF Open
  <2>7. ASSUME NEW q \in Runs PROVE RunOK(q)'
    BY <2>1, <2>3, <2>4 DEF ImportInv, RunOK
  <2>8. ASSUME NEW q \in Runs, NEW l \in Lines PROVE TaskOK(q, l)'
    <3>1. CASE q = r
      <4>1. task'[q][l] = mine(l)
        BY <2>3, <3>1
      <4> QED BY <2>2, <4>1 DEF TaskOK
    <3>2. CASE q # r
      <4>1. task'[q][l] = task[q][l]
        BY <2>3, <3>2
      <4> QED BY <1>1, <4>1 DEF ImportInv, TaskOK
    <3> QED BY <3>1, <3>2
  <2>9. ASSUME ~doubled' PROVE Settling'
    <3>1. Settling
      BY <1>1, <2>9 DEF ImportInv
    <3>2. \A q \in Runs : q # r => run[q] = "idle"
      BY <1>1, <3>1 DEF Settling
    <3>3. \A q \in Runs, l \in Lines : q # r => task[q][l].step = "none"
      BY <3>2 DEF ImportInv, RunOK
    <3>4. \A l \in Lines : /\ Settled(l)' <=> Settled(l)
                           /\ Pending(l)' <=> Pending(l)
                           /\ Pending(l) <=> line[l].state \in Open
      BY <1>1, <2>6, <3>1 DEF Settling, Settled, Pending, Open, Verdicts
    <3>5. import' # "completed" /\ neglected' = {}
      BY <1>1, <2>1, <2>6, <3>1 DEF Settling
    <3> QED BY <2>1, <2>2, <2>3, <2>4, <2>6, <3>1, <3>2, <3>3, <3>4, <3>5 DEF Settling
  <2>10. Secrets'
    <3>1. ASSUME NEW q \in Runs, NEW l \in Lines, run'[q] = "working", line'[l].secret
          PROVE  task'[q][l].step # "none"
      <4>1. line[l].secret /\ line[l].state \in Open
        BY <1>1, <3>1 DEF ImportInv, Secrets
      <4>2. q = r => task'[q][l] = mine(l) /\ mine(l).step # "none"
        BY <2>2, <2>3, <4>1
      <4>3. q # r => task'[q][l] = task[q][l] /\ run[q] = "working"
        BY <2>3, <2>4, <3>1
      <4> QED BY <4>1, <4>2, <4>3 DEF ImportInv, Secrets
    <3> QED BY <1>1, <2>1, <3>1 DEF ImportInv, Secrets
  <2> QED BY <1>1, <2>1, <2>5, <2>6, <2>7, <2>8, <2>9, <2>10 DEF ImportInv
<1>3. CASE import \notin Open
  <2>1. run' = [run EXCEPT ![r] = "idle"] /\ UNCHANGED <<import, task>>
    BY <1>1, <1>3 DEF List
  <2>2. /\ run' \in [Runs -> {"idle", "begun", "working"}]
        /\ \A q \in Runs : run'[q] = IF q = r THEN "idle" ELSE run[q]
    BY <2>1 DEF ImportTypes
  <2>3. ImportTypes'
    BY <1>1, <2>1, <2>2 DEF ImportTypes
  <2>4. \A q \in Runs : RunOK(q)'
    BY <1>1, <2>1, <2>2 DEF ImportInv, RunOK
  <2>5. \A q \in Runs, l \in Lines : TaskOK(q, l)'
    BY <1>1, <2>1 DEF ImportInv, TaskOK
  <2>6. ASSUME ~doubled' PROVE Settling'
    BY <1>1, <2>1, <2>2, <2>6 DEF ImportInv, Settling, Settled, Pending
  <2>7. Secrets'
    BY <1>1, <2>1, <2>2 DEF ImportInv, Secrets
  <2> QED BY <1>1, <2>1, <2>3, <2>4, <2>5, <2>6, <2>7 DEF ImportInv
<1> QED BY <1>2, <1>3

\* A processing that failed before it listed leaves the lines for the next one.
LEMMA FailureKeepsImport ==
  ASSUME ImportTypes, ImportInv, NEW r \in Runs, ProcessFails(r)
  PROVE  (ImportTypes /\ ImportInv)'
<1>1. /\ run[r] = "begun" /\ run' = [run EXCEPT ![r] = "idle"]
      /\ UNCHANGED <<line, task, doubled, neglected>>
      /\ UNCHANGED import \/ (import \in Open /\ import' = "running")
  BY DEF ProcessFails
<1>2. /\ run' \in [Runs -> {"idle", "begun", "working"}]
      /\ \A q \in Runs : run'[q] = IF q = r THEN "idle" ELSE run[q]
  BY <1>1 DEF ImportTypes
<1>3. ImportTypes' /\ (import' = "none" <=> import = "none")
      /\ (import' = "completed" <=> import = "completed")
  BY <1>1, <1>2 DEF ImportTypes, Open
<1>4. \A q \in Runs : RunOK(q)' /\ \A l \in Lines : TaskOK(q, l)'
  BY <1>1, <1>2, <1>3 DEF ImportInv, RunOK, TaskOK
<1>5. ASSUME ~doubled' PROVE Settling'
  BY <1>1, <1>2, <1>3, <1>5 DEF ImportInv, Settling, Settled, Pending
<1>6. Secrets'
  BY <1>1, <1>2, <1>3 DEF ImportInv, Secrets
<1> QED BY <1>1, <1>3, <1>4, <1>5, <1>6 DEF ImportInv

\* The import is completed, or not, when no line is in hand.
LEMMA FinishKeepsImport ==
  ASSUME ImportTypes, ImportInv, NEW r \in Runs, FinishOAuthImport(r) \/ FinishFails(r)
  PROVE  (ImportTypes /\ ImportInv)'
<1> DEFINE given == {l \in Lines : task[r][l].step = "dropped"}
<1>1. /\ run[r] = "working" /\ \A l \in Lines : task[r][l].step # "none" <=> l \in given
      /\ run' = [run EXCEPT ![r] = "idle"]
      /\ task' = [task EXCEPT ![r] = [l \in Lines |-> NoTask]]
      /\ UNCHANGED <<line, doubled>>
      /\ \/ UNCHANGED <<import, neglected>>
         \/ import' = "completed" /\ neglected' = neglected \cup given
  BY DEF FinishOAuthImport, FinishFails, Returned, EndRun
<1>2. given \subseteq Lines
  OBVIOUS
<1> HIDE DEF given
<1>3. /\ run' \in [Runs -> {"idle", "begun", "working"}]
      /\ \A q \in Runs : run'[q] = IF q = r THEN "idle" ELSE run[q]
  BY <1>1 DEF ImportTypes
<1>4. /\ task' \in [Runs -> [Lines -> TaskRecords]]
      /\ \A q \in Runs, l \in Lines :
           task'[q][l] = IF q = r THEN NoTask ELSE task[q][l]
  BY <1>1, NoTaskType DEF ImportTypes, TaskRecords
<1>5. ImportTypes'
  BY <1>1, <1>2, <1>3, <1>4 DEF ImportTypes, TaskRecords
<1>6. import # "none"
  BY <1>1 DEF ImportInv, RunOK
<1>7. \A q \in Runs : RunOK(q)'
  BY <1>1, <1>3, <1>4, <1>6, NoTaskType DEF ImportInv, RunOK
<1>8. ASSUME NEW q \in Runs, NEW l \in Lines PROVE TaskOK(q, l)'
  <2>1. CASE q = r
    <3>1. task'[q][l].step = "none"
      BY <1>4, <2>1, NoTaskType
    <3> QED BY <3>1 DEF TaskOK
  <2>2. CASE q # r
    <3>1. task'[q][l] = task[q][l]
      BY <1>4, <2>2
    <3> QED BY <1>1, <3>1 DEF ImportInv, TaskOK
  <2> QED BY <2>1, <2>2
<1>9. ASSUME ~doubled' PROVE Settling'
  <2>1. Settling /\ import # "completed" /\ neglected = {}
    BY <1>1, <1>9 DEF ImportInv, Settling
  <2>2. \A l \in Lines : (Settled(l)' <=> Settled(l)) /\ (Pending(l)' <=> Pending(l))
    BY <1>1 DEF Settled, Pending
  <2>3. \A l \in Lines : Pending(l) <=> l \in given
    BY <1>1, <2>1 DEF Settling
  <2>4. \A l \in Lines : Settled(l) <=> l \notin given
    BY <1>6, <2>1, <2>3 DEF Settling, Settled, Pending
  <2>5. \A q \in Runs : run'[q] = "idle" /\ \A l \in Lines : task'[q][l].step = "none"
    BY <1>1, <1>3, <1>4, <2>1, NoTaskType DEF ImportInv, RunOK, Settling
  <2>6. import' # "none" => \A l \in Lines : Settled(l)' \/ Pending(l)'
    BY <1>6, <2>1, <2>2 DEF Settling
  <2>7. import' = "completed" => \A l \in Lines : Settled(l)' <=> l \notin neglected'
    BY <1>1, <2>1, <2>2, <2>4
  <2>8. import' # "completed" => neglected' = {}
    BY <1>1, <2>1
  <2> QED BY <2>5, <2>6, <2>7, <2>8 DEF Settling
<1>10. Secrets'
  <2>1. \A l \in Lines : line[l].secret => line[l].state \in Open /\ l \in given
    BY <1>1 DEF ImportInv, Secrets
  <2>2. \A q \in Runs, l \in Lines :
          run'[q] = "working" /\ line'[l].secret => task'[q][l].step # "none"
    BY <1>1, <1>3, <1>4 DEF ImportInv, Secrets
  <2>3. import' = "completed" => \A l \in Lines : line'[l].secret => l \in neglected'
    BY <1>1, <2>1 DEF ImportInv, Secrets
  <2> QED BY <1>1, <2>1, <2>2, <2>3 DEF Secrets
<1> QED BY <1>1, <1>5, <1>6, <1>7, <1>8, <1>9, <1>10 DEF ImportInv

\* The processings end with the server, and leave their lines as they are.
LEMMA StopKeepsImport ==
  ASSUME ImportTypes, ImportInv, StopServer
  PROVE  (ImportTypes /\ ImportInv)'
<1>1. /\ run' = [r \in Runs |-> "idle"] /\ task' = [r \in Runs |-> [l \in Lines |-> NoTask]]
      /\ UNCHANGED <<import, line, doubled, neglected>>
  BY DEF StopServer
<1>2. \A r \in Runs : run'[r] = "idle" /\ \A l \in Lines : task'[r][l].step = "none"
  BY <1>1, NoTaskType
<1>3. ImportTypes'
  <2>1. task' \in [Runs -> [Lines -> TaskRecords]]
    BY <1>1, NoTaskType
  <2>2. run' \in [Runs -> {"idle", "begun", "working"}]
    BY <1>1
  <2>3. /\ import' \in {"none", "queued", "running", "completed"}
        /\ line' \in [Lines -> LineRecords] /\ doubled' \in BOOLEAN /\ neglected' \subseteq Lines
    BY <1>1 DEF ImportTypes, LineRecords
  <2> QED BY <2>1, <2>2, <2>3 DEF ImportTypes, LineRecords, TaskRecords
<1>4. ASSUME NEW r \in Runs PROVE RunOK(r)' /\ \A l \in Lines : TaskOK(r, l)'
  <2>1. RunOK(r)'
    BY <1>2 DEF RunOK
  <2>2. ASSUME NEW l \in Lines PROVE TaskOK(r, l)'
    BY <1>2 DEF TaskOK
  <2> QED BY <2>1, <2>2
<1>5. ASSUME ~doubled' PROVE Settling'
  BY <1>1, <1>2, <1>5 DEF ImportInv, Settling, Settled, Pending
<1>6. Secrets'
  BY <1>1, <1>2 DEF ImportInv, Secrets
<1> QED BY <1>1, <1>3, <1>4, <1>5, <1>6 DEF ImportInv

LEMMA UnchangedImport ==
  ASSUME ImportTypes, ImportInv, UNCHANGED authorizeImport
  PROVE  (ImportTypes /\ ImportInv)'
<1>1. UNCHANGED <<import, line, run, task, doubled, neglected>>
  BY DEF authorizeImport
<1>2. ImportTypes'
  BY <1>1 DEF ImportTypes
<1>3. \A r \in Runs : RunOK(r)' /\ \A l \in Lines : TaskOK(r, l)'
  BY <1>1 DEF ImportInv, RunOK, TaskOK
<1>4. ASSUME ~doubled' PROVE Settling'
  BY <1>1, <1>4 DEF ImportInv, Settling, Settled, Pending
<1>5. Secrets'
  BY <1>1 DEF ImportInv, Secrets
<1> QED BY <1>1, <1>2, <1>3, <1>4, <1>5 DEF ImportInv

\* The import, under any step.
LEMMA ImportStep ==
  ASSUME AuthorizeIInv, AuthorizeNext
  PROVE  (ImportTypes /\ ImportInv)'
<1>1. RowTypes /\ RowsOK /\ ImportTypes /\ ImportInv
  BY AuthorizeTyping DEF AuthorizeIInv
<1>2. Administer => UNCHANGED authorizeImport
  BY DEF Administer, ImportAccount, EditAddress, Disable, Enable, Delete, InvalidateAuthorization
<1> QED BY <1>1, <1>2, DeviceFrame, StagingKeepsImport, ResumingKeepsImport, ListingKeepsImport,
     FailureKeepsImport, FinishKeepsImport, LineKeepsImport, StopKeepsImport, UnchangedImport
     DEF AuthorizeNext, RunImport
-----------------------------------------------------------------------------
(* The invariant.                                                            *)

\* An edit that is not done is of an account.
LEMMA EditStep ==
  ASSUME AuthorizeIInv, AuthorizeNext
  PROVE  /\ EditTypes' /\ (edit' # NoEdit => edit'.account \in Accounts)
         /\ stops' \in 0..MaxStops
<1>1. /\ RowTypes /\ EditTypes /\ stops \in 0..MaxStops /\ MaxStops \in Nat
      /\ edit # NoEdit => edit.account \in Accounts
  BY AuthorizeTyping, AuthorizeConstants DEF AuthorizeIInv
<1>2. NoEdit \in [account : Anyone, address : Anywhere]
  BY DEF NoEdit, Anyone, Anywhere
<1>3. UNCHANGED edit \/ edit' = NoEdit
      \/ (\E a \in Accounts : \/ edit' = [account |-> a, address |-> Nothing]
                              \/ edit' = [account |-> a, address |-> rows[a].address])
  <2>1. Administer =>
          \/ UNCHANGED edit \/ edit' = NoEdit
          \/ \E a \in Accounts : \/ edit' = [account |-> a, address |-> Nothing]
                                 \/ edit' = [account |-> a, address |-> rows[a].address]
    BY DEF Administer, ImportAccount, EditAddress, Disable, Enable, Delete,
       InvalidateAuthorization
  <2>2. StopServer => edit' = NoEdit
    BY DEF StopServer
  <2> QED BY <2>1, <2>2, DeviceFrame, ImportFrame DEF AuthorizeNext, ImportAction
<1>4. UNCHANGED stops \/ StopServer
  <2>1. Administer => UNCHANGED stops
    BY DEF Administer, ImportAccount, EditAddress, Disable, Enable, Delete,
       InvalidateAuthorization
  <2> QED BY <2>1, DeviceFrame, ImportFrame DEF AuthorizeNext, ImportAction
<1>5. stops' \in 0..MaxStops
  <2>1. StopServer => stops < MaxStops /\ stops' = stops + 1
    BY DEF StopServer
  <2> QED BY <1>1, <1>4, <2>1
<1>6. EditTypes' /\ (edit' # NoEdit => edit'.account \in Accounts)
  BY <1>1, <1>2, <1>3 DEF EditTypes, RowTypes, AccountRows, Anyone, Anywhere
<1> QED BY <1>5, <1>6

LEMMA AuthorizeInitIInv == AuthorizeInit => AuthorizeIInv
<1> SUFFICES ASSUME AuthorizeInit PROVE AuthorizeIInv
  OBVIOUS
<1>1. RowTypes /\ RowsOK
  BY NoAccountType DEF AuthorizeInit, RowTypes, RowsOK, OneAccountPerPerson, Present, NoAccount
<1>2. FlowTypes
  BY NoFlowType DEF AuthorizeInit, FlowTypes, FlowRecords
<1>3. FlowInv
  BY AuthorizeConstants DEF AuthorizeInit, FlowInv, FlowOK, CurrentOK, NoFlow
<1>4. ImportTypes
  BY NoTaskType DEF AuthorizeInit, ImportTypes, TaskRecords, NoLine, Anywhere, Somebody
<1>5. \A r \in Runs : RunOK(r) /\ \A l \in Lines : TaskOK(r, l)
  BY NoTaskType DEF AuthorizeInit, RunOK, TaskOK
<1>6. Settling
  BY NoTaskType DEF AuthorizeInit, Settling
<1>7. Secrets
  BY NoTaskType DEF AuthorizeInit, Secrets, NoLine
<1>8. EditTypes /\ stops \in 0..MaxStops /\ edit = NoEdit
  BY AuthorizeConstants DEF AuthorizeInit, EditTypes, NoEdit, Anyone, Anywhere
<1>9. import = "none"
  BY DEF AuthorizeInit
<1> QED BY <1>1, <1>2, <1>3, <1>4, <1>5, <1>6, <1>7, <1>8, <1>9, AuthorizeTyping
        DEF AuthorizeIInv, ImportInv

LEMMA Frame ==
  ASSUME AuthorizeIInv, UNCHANGED authorizeVars
  PROVE  AuthorizeIInv'
<1>1. /\ UNCHANGED <<rows, edit, stops>> /\ UNCHANGED authorizeFlows /\ UNCHANGED authorizeImport
  BY DEF authorizeVars
<1>2. /\ RowTypes /\ RowsOK /\ FlowTypes /\ FlowInv /\ EditTypes /\ ImportTypes /\ ImportInv
      /\ stops \in 0..MaxStops /\ (edit # NoEdit => edit.account \in Accounts)
  BY AuthorizeTyping DEF AuthorizeIInv
<1>3. RowTypes' /\ RowsOK' /\ EditTypes'
  BY <1>1, <1>2 DEF RowTypes, RowsOK, OneAccountPerPerson, Present, EditTypes
<1> QED BY <1>1, <1>2, <1>3, UnchangedFlows, UnchangedImport, NextTyping DEF AuthorizeIInv, NoEdit

\* Every step, and every stutter, keeps it.
LEMMA AuthorizeStep ==
  AuthorizeIInv /\ [AuthorizeNext]_authorizeVars => AuthorizeIInv'
<1> SUFFICES ASSUME AuthorizeIInv, AuthorizeNext PROVE AuthorizeIInv'
  BY Frame
<1>1. RowTypes' /\ RowsOK'
  BY EveryRowStep, RowsStep, AuthorizeTyping DEF AuthorizeIInv
<1> QED BY <1>1, FlowsStep, ImportStep, EditStep, NextTyping DEF AuthorizeIInv, NoEdit

\* The invariant holds in every reachable state.
THEOREM AuthorizeInvariance == AuthorizeSpec => []AuthorizeIInv
<1> QED BY AuthorizeInitIInv, AuthorizeStep, PTL DEF AuthorizeSpec

\* Every variable keeps its type.
THEOREM AuthorizeTypes == AuthorizeSpec => []AuthorizeTypeOK
<1>1. AuthorizeIInv => AuthorizeTypeOK
  BY DEF AuthorizeIInv
<1> QED BY AuthorizeInvariance, <1>1, PTL

\* What the invariant says in the words of the properties.
LEMMA AuthorizeInvariants ==
  AuthorizeIInv =>
    OneAccountPerPerson /\ CancelledFlowStoresNothing /\ CompletedImportIsSettled
<1> SUFFICES ASSUME AuthorizeIInv
             PROVE  OneAccountPerPerson /\ CancelledFlowStoresNothing /\ CompletedImportIsSettled
  OBVIOUS
<1>1. OneAccountPerPerson
  BY DEF AuthorizeIInv, RowsOK
<1>2. ASSUME NEW f \in stopped PROVE poller[f] # "stored"
  <2>1. f \in Flows
    BY AuthorizeTyping DEF AuthorizeIInv, FlowTypes
  <2> QED BY <2>1 DEF AuthorizeIInv, FlowInv, FlowOK
<1>3. ASSUME import = "completed", NEW l \in Lines
      PROVE  /\ line[l].secret => l \in neglected
             /\ ~doubled => (line[l].state \in Verdicts <=> l \notin neglected)
  <2>1. line[l].secret => l \in neglected
    BY <1>3 DEF AuthorizeIInv, ImportInv, Secrets
  <2>2. ASSUME ~doubled PROVE line[l].state \in Verdicts <=> l \notin neglected
    <3>1. Settling
      BY <2>2 DEF AuthorizeIInv, ImportInv
    <3>2. Settled(l) <=> line[l].state \in Verdicts
      BY <1>3, <3>1 DEF Settling, Settled, Pending, Open, Verdicts
    <3> QED BY <1>3, <3>1, <3>2 DEF Settling
  <2> QED BY <2>1, <2>2
<1> QED BY <1>1, <1>2, <1>3 DEF CancelledFlowStoresNothing, CompletedImportIsSettled

\* A Microsoft user is linked to one account.
THEOREM PeopleHaveOneAccount == AuthorizeSpec => []OneAccountPerPerson
<1> QED BY AuthorizeInvariance, AuthorizeInvariants, PTL

\* A flow that was stopped before it began to store links nobody.
THEOREM CancelledFlowsStoreNothing == AuthorizeSpec => []CancelledFlowStoresNothing
<1> QED BY AuthorizeInvariance, AuthorizeInvariants, PTL

\* A completed import has forgotten its secrets and settled its lines, but for what
\* the processing that completed it gave up because a statement failed.
THEOREM CompletedImportsAreSettled == AuthorizeSpec => []CompletedImportIsSettled
<1> QED BY AuthorizeInvariance, AuthorizeInvariants, PTL

\* Every step that links an account has asked about its address.
LEMMA LinkingIsBacked ==
  AuthorizeIInv /\ [AuthorizeNext]_authorizeVars =>
    [\A a \in Accounts : Backed(a)]_authorizeVars
<1> SUFFICES ASSUME AuthorizeIInv, AuthorizeNext, NEW a \in Accounts PROVE Backed(a)
  OBVIOUS
<1>1. RowTypes /\ RowStep
  BY EveryRowStep, AuthorizeTyping DEF AuthorizeIInv
<1>2. CASE UNCHANGED rows
  BY <1>2 DEF Backed
<1>3. ASSUME NEW b \in Accounts, NEW w \in AccountRows, Rewritten(b, w)
      PROVE  Backed(a)
  <2>1. rows'[a] = IF a = b THEN w ELSE rows[a]
    BY <1>1, <1>3 DEF Rewritten, RowTypes
  <2> QED BY <1>3, <2>1 DEF Rewritten, Backed
<1>4. ASSUME NEW b \in Accounts, NEW u \in Somebody, Linked(b, u)
      PROVE  Backed(a)
  <2>1. rows'[a].person = IF a = b THEN u ELSE rows[a].person
    BY <1>1, <1>4 DEF Linked, PersistAuthorization, RowTypes, AccountRows
  <2>2. CASE a # b
    BY <2>1, <2>2 DEF Backed
  <2>3. CASE a = b /\ \E f \in Flows : /\ poller[f] \in {"storing", "replaced"}
                                       /\ flow[f].account = b /\ flow[f].person = u
    <3>1. PICK f \in Flows : /\ poller[f] \in {"storing", "replaced"}
                             /\ flow[f].account = a /\ flow[f].person = u
      BY <2>3
    <3>2. flow[f].confirmed \/ MailOf[u] = flow[f].address
      BY <3>1 DEF AuthorizeIInv, FlowInv, FlowOK
    <3>3. flow[f].confirmed \/ flow[f].address # rows[a].address \/ MailOf[u] = rows[a].address
      BY <3>2
    <3> QED BY <2>1, <2>3, <3>1, <3>3 DEF Backed
  <2>4. CASE a = b /\ \E r \in Runs, l \in Lines :
                        /\ task[r][l].step = "storing"
                        /\ task[r][l].account = b /\ task[r][l].person = u
    <3>1. PICK r \in Runs, l \in Lines :
            /\ task[r][l].step = "storing"
            /\ task[r][l].account = a /\ task[r][l].person = u
      BY <2>4
    <3>2. task[r][l].found = "person" \/ MailOf[u] = line[l].address
      BY <3>1 DEF AuthorizeIInv, ImportInv, TaskOK
    <3> QED BY <2>1, <2>4, <3>1, <3>2 DEF Backed
  <2> QED BY <1>4, <2>2, <2>3, <2>4 DEF Linked, Linking
<1> QED BY <1>1, <1>2, <1>3, <1>4 DEF RowStep

\* Who links an account knows its address, or has been told otherwise.
THEOREM AliasesAreConfirmed == AuthorizeSpec => AliasIsConfirmed
<1> QED BY AuthorizeInvariance, LinkingIsBacked, PTL DEF AuthorizeSpec, AliasIsConfirmed
===============================================================================
