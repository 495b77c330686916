--------------------------- MODULE DeploymentProofs ---------------------------
(* Theorems about the parts of a deployment taken together: a step of one    *)
(* leaves the others alone, so the composition implements the specification  *)
(* of each part, and each part's invariant holds in it for every constant,   *)
(* without the bounds of the runs.                                           *)
EXTENDS MCDeployment, UpdaterProofs, UnlockProofs, AuthorizeProofs, JobQueueProofs

\* The invariants of the parts.
PartsInv == UpdaterIInv /\ UnlockIInv /\ AuthorizeIInv /\ JobQueueIInv /\ AllOwed

LEMMA InitParts == Init => UpdaterInit /\ UnlockInit /\ AuthorizeInit /\ JobQueueInit
<1> QED BY DEF Init

LEMMA InitPartsInv == Init => PartsInv
<1> QED BY InitParts, UpdaterInitIInv, UnlockInitIInv, AuthorizeInitIInv, JobQueueInitIInv,
          OwedInit DEF PartsInv

\* A step of the composition is a step or a stutter of each part.
LEMMA StepOfParts ==
  [Next]_deploymentVars =>
    /\ [UpdaterNext]_updaterVars /\ [UnlockNext]_unlockVars
    /\ [AuthorizeNext]_authorizeVars /\ [JobQueueNext]_queueVars
<1> SUFFICES ASSUME [Next]_deploymentVars
             PROVE  /\ [UpdaterNext]_updaterVars /\ [UnlockNext]_unlockVars
                    /\ [AuthorizeNext]_authorizeVars /\ [JobQueueNext]_queueVars
  OBVIOUS
<1>1. CASE UNCHANGED deploymentVars
  BY <1>1 DEF deploymentVars
<1>2. CASE Next
  <2>1. part = "update" \/ UNCHANGED updaterVars
    BY <1>2 DEF Next
  <2>2. part = "unlock" \/ UNCHANGED unlockVars
    BY <1>2 DEF Next
  <2>3. part \in Authorizing \/ UNCHANGED authorizeVars
    BY <1>2 DEF Next
  <2>4. part = "queue" \/ UNCHANGED queueVars
    BY <1>2 DEF Next
  <2>5. part = "update" => UpdaterNext
    BY <1>2 DEF Next, Authorizing
  <2>6. part = "unlock" => UnlockNext
    BY <1>2 DEF Next, Authorizing
  <2>7. part \in Authorizing => AuthorizeNext
    BY <1>2 DEF Next, Authorizing
  <2>8. part = "queue" => JobQueueNext
    BY <1>2 DEF Next, Authorizing
  <2> QED BY <2>1, <2>2, <2>3, <2>4, <2>5, <2>6, <2>7, <2>8
<1> QED BY <1>1, <1>2

LEMMA PartsInvStep == PartsInv /\ [Next]_deploymentVars => PartsInv'
<1> QED BY StepOfParts, UpdaterStep, UnlockStep, AuthorizeStep, JobQueueStep, OwedStep
        DEF PartsInv

\* The invariants of all the parts hold together.
THEOREM PartsInvariance == Spec => []PartsInv
<1> QED BY InitPartsInv, PartsInvStep, PTL DEF Spec

\* Types: the part at work, whichever it is, keeps its types.
THEOREM DeploymentTypes == Spec => []TypeOK
<1>1. PartsInv => TypeOK
  BY AuthorizeTyping, JobQueueTyping DEF PartsInv, TypeOK, UpdaterIInv, UnlockIInv, AuthorizeIInv
<1> QED BY PartsInvariance, <1>1, PTL

\* The composition implements the update: the other parts only stutter it.
THEOREM ImplementsUpdater == Spec => UpdaterSpec
<1> QED BY InitParts, StepOfParts, PTL DEF Spec, UpdaterSpec

\* It implements set-up, log-in and unlocking.
THEOREM ImplementsUnlock == Spec => UnlockSpec
<1> QED BY InitParts, StepOfParts, PTL DEF Spec, UnlockSpec

\* The live composition implements the authorisations and the import, with their fairness.
THEOREM ImplementsAuthorize == LiveSpec => AuthorizeSpec
<1>1. LiveInit => AuthorizeInit
  BY InitParts DEF LiveInit
<1> QED BY <1>1, StepOfParts, PTL DEF LiveSpec, AuthorizeSpec

\* It implements the job queues, with the fairness of workers and scheduler.
THEOREM ImplementsJobQueue == LiveSpec => JobQueueSpec
<1>1. LiveInit => JobQueueInit
  BY InitParts DEF LiveInit
<1> QED BY <1>1, StepOfParts, PTL DEF LiveSpec, JobQueueSpec

\* The parts keep together what each of them promises: every property that
\* deployment_safety checks of BoundedSpec, of the whole of Spec.
Kept ==
  /\ OldImageKeepsOff /\ NothingIsLost /\ OutcomeIsFinal
  /\ OneSessionPerCode /\ KeyringFitsRow /\ RestartUnlocks
  /\ OneAccountPerPerson /\ CancelledFlowStoresNothing /\ CompletedImportIsSettled
  /\ JobsAreExact

\* Update, unlocking, authorisation and job queues keep their promises side by side.
THEOREM PartsKeepTheirPromises == Spec => []Kept /\ OutcomeIsTrue /\ AliasIsConfirmed
<1>1. Spec => /\ []OldImageKeepsOff /\ []NothingIsLost /\ []OutcomeIsFinal
              /\ []OneSessionPerCode /\ []KeyringFitsRow /\ []RestartUnlocks
              /\ OutcomeIsTrue
  BY ImplementsUpdater, ImplementsUnlock, OldImagesKeepOff, NothingGetsLost, OutcomesAreFinal,
     CodesOpenOneSession, KeyringIsTheRows, RestartsUnlock, OutcomesAreTrue
<1>2. PartsInv =>
        /\ OneAccountPerPerson /\ CancelledFlowStoresNothing /\ CompletedImportIsSettled
        /\ JobsAreExact
  BY AuthorizeInvariants, JobQueueInvariants DEF PartsInv
<1>3. PartsInv /\ [Next]_deploymentVars => [\A a \in Accounts : Backed(a)]_authorizeVars
  BY StepOfParts, LinkingIsBacked DEF PartsInv
<1>4. Spec => AliasIsConfirmed
  BY PartsInvariance, <1>3, PTL DEF Spec, AliasIsConfirmed
<1>5. Spec => []Kept
  BY PartsInvariance, <1>1, <1>2, PTL DEF Kept
<1> QED BY <1>1, <1>4, <1>5
===============================================================================
