------------------------------ MODULE MCCleanup ------------------------------
(* One account for TLC: marketing mail that may be cleaned, verification mail *)
(* that is protected and rescued from junk.                                   *)
EXTENDS Cleanup, TLC

MCVerdicts == {[category |-> "marketing", protected |-> FALSE],
               [category |-> "verification", protected |-> TRUE]}
MCMarketing == {[category |-> "marketing", protected |-> FALSE]}
MCUserPlaces == {"inbox", "elsewhere"}
MessageSymmetry == Permutations(Messages)

\* Bound: mail the administrator has corrected does not fail to be cleaned, nor is
\* it moved by its owner or by a handler that crashed, as well.
Bounds ==
  \A m \in manual : /\ attempts[m] = 0 /\ m \notin astray
                     /\ pc[Scheduler] \notin {"clean.fail", "clean.save"}

\* Two messages: administrators and failures only, for batches that succeed in part.
BatchNext ==
  \/ \E p \in Admins : AdminStep(p) \/ Rollback(p)
  \/ DatabaseStep
BatchSpec == Init /\ [][BatchNext]_vars
==============================================================================
