----------------------------- MODULE MCDeployment -----------------------------
(* The parts around the mail for TLC, one of them at work in a behaviour: they *)
(* share no state, so their sum is checked instead of their product. The model *)
(* values of the processes serve every part.                                   *)
EXTENDS Updater, Unlock, Authorize, JobQueue, TLC

CONSTANTS x, y, p, q
VARIABLE part

MCMailOf   == [u \in People |-> IF u = p THEN x ELSE y]
MCImported == [a \in Addresses |-> IF a = x THEN p ELSE q]
MCSymmetry == {f @@ g : f \in Permutations(Updaters), g \in Permutations(Accounts)}

deploymentVars == <<part, updaterVars, unlockVars, authorizeVars, queueVars>>

\* Device authorisations, the import, and one of each are separate parts.
Authorizing == {"devices", "import", "devices and import"}

Init ==
  /\ part \in {"update", "unlock", "queue"} \cup Authorizing
  /\ UpdaterInit /\ UnlockInit /\ AuthorizeInit /\ JobQueueInit
  /\ part # "unlock" => admin = NoRow

Next ==
  /\ \/ part = "update" /\ UpdaterNext
     \/ part = "unlock" /\ UnlockNext
     \/ part \in Authorizing /\ AuthorizeNext
     \/ part = "queue" /\ JobQueueNext
  /\ part # "update" => UNCHANGED updaterVars
  /\ part # "unlock" => UNCHANGED unlockVars
  /\ part \notin Authorizing => UNCHANGED authorizeVars
  /\ part # "queue" => UNCHANGED queueVars
  /\ UNCHANGED part

Spec == Init /\ [][Next]_deploymentVars

\* The two parts with something to wait for, under the fairness of their modules.
LiveInit == Init /\ part \in {"import", "queue"}
LiveSpec ==
  /\ LiveInit /\ [][Next]_deploymentVars
  /\ AuthorizeFairness /\ JobQueueFairness

Replacements == {f \in Flows : poller[f] \in {"replacing", "replaced"}}
OutOfUse     == {a \in Accounts : rows[a].status \in {"disabled", "deleted"}}

\* Bounds: nothing is claimed once a database was replaced under somebody's feet;
\* one account at a time is disabled or deleted; the parts of the authorisation
\* do what they are named for, and the server stops only in the import. A line
\* that still has its secret is given up only in the import, by a processing that
\* is never beside another one; a stop and two processings at once are looked at
\* only while no account is out of use.
Bounds ==
  /\ ~exposed
  /\ Cardinality(OutOfUse) <= IF doubled /\ stops > 0 THEN 0 ELSE 1
  /\ part = "devices" =>
       /\ import = "none" /\ stops = 0
       /\ Cardinality(Replacements) <= IF edit = NoEdit THEN 1 ELSE 0
  /\ part = "import" => \A f \in Flows : flow[f].state = "none" /\ poller[f] = "none"
  /\ part = "devices and import" \/ doubled =>
       \A r \in Runs, l \in Lines : task[r][l].step = "dropped" => ~line[l].secret
  /\ part = "devices and import" =>
       /\ edit = NoEdit /\ stops = 0 /\ ~doubled /\ Replacements = {}
       /\ \A f, g \in Flows : flow[f].state # "none" /\ flow[g].state # "none" => f = g

\* The steps of Spec that stay within the bounds. Where no flow is in progress an
\* edit has nothing to invalidate, and is over before anything else happens.
BoundedNext ==
  /\ Next /\ Bounds'
  /\ part = "import" /\ edit # NoEdit => edit' = NoEdit
BoundedSpec == Init /\ [][BoundedNext]_deploymentVars

\* The part at work keeps its types (the others do not move).
TypeOK ==
  /\ part = "update" => UpdaterTypeOK
  /\ part = "unlock" => UnlockTypeOK
  /\ part \in Authorizing => AuthorizeTypeOK
  /\ part = "queue" => JobQueueTypeOK
===============================================================================
