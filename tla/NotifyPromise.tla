----------------------------- MODULE NotifyPromise -----------------------------
(***************************************************************************)
(* What the notification centre promises about one delivery, whatever its   *)
(* queue, its workers and its restarts do: it is accepted once, ends as     *)
(* delivered or abandoned, is taken up again only from abandoned, and is    *)
(* never called delivered before the push service has received it.          *)
(***************************************************************************)
CONSTANT Deliveries

VARIABLES promise, received

pvars == <<promise, received>>

Init ==
  /\ promise = [d \in Deliveries |-> "absent"]
  /\ received = {}

Become(d, from, to) == promise[d] \in from /\ promise' = [promise EXCEPT ![d] = to]

Accept(d) == Become(d, {"absent"}, "pending") /\ UNCHANGED received
Deliver(d) == d \in received /\ Become(d, {"pending"}, "delivered") /\ UNCHANGED received
Abandon(d) == Become(d, {"pending"}, "abandoned") /\ UNCHANGED received
Revive(d) == Become(d, {"abandoned"}, "pending") /\ UNCHANGED received

\* A message that is on its way is not called back when its delivery is forgotten.
Receive(d) ==
  /\ promise[d] \in {"pending", "forgotten"}
  /\ received' = received \cup {d}
  /\ UNCHANGED promise

\* The channel or the account of the deliveries in S is deleted.
Forget(S) ==
  /\ \A d \in S : promise[d] # "absent"
  /\ promise' = [d \in Deliveries |-> IF d \in S THEN "forgotten" ELSE promise[d]]
  /\ UNCHANGED received

Next ==
  \/ \E d \in Deliveries : Accept(d) \/ Deliver(d) \/ Abandon(d) \/ Revive(d) \/ Receive(d)
  \/ \E S \in SUBSET Deliveries : Forget(S)

Spec == Init /\ [][Next]_pvars
================================================================================
