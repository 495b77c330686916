---------------------------- MODULE CleanupPromise ----------------------------
(***************************************************************************)
(* What the clean-up promises about every message, whatever its handlers,  *)
(* its scheduler, the synchronisation and the restarts do.  Mail leaves    *)
(* the inbox view only because an administrator asked for it: by an        *)
(* approval asked for when the mail was proposed, or by a deletion asked   *)
(* for when it was in view.  It comes back only by a restoration asked for *)
(* when it had been put aside, and mail that is gone stays so.  One step   *)
(* may concern several messages, each in its own way.                      *)
(***************************************************************************)
CONSTANT Messages

VARIABLES
  stage,  \* how far the clean-up of a message has come
  shown,  \* the messages the clean-up and its administrators leave in view
  asked   \* what an administrator has asked for and has not been answered yet

promiseVars == <<stage, shown, asked>>

\* "lost": out of view, and neither held, blocked nor gone.
Stages == {"open", "proposed", "held", "blocked", "gone", "lost"}
Requests == {"nothing", "approval", "deletion", "restoration"}

Init ==
  /\ stage \in [Messages -> {"open", "proposed"}]
  /\ shown = Messages
  /\ asked = [m \in Messages |-> "nothing"]

Goes(m, from, to) == stage[m] \in from /\ stage'[m] \in to
Leaves(m) == m \in shown /\ m \notin shown'
Keeps(m) == m \in shown' <=> m \in shown
Rest(m) == stage'[m] = stage[m] /\ Keeps(m)

\* An administrator asks for what the message's stage and place allow.
Ask(m) ==
  /\ asked[m] = "nothing" /\ Rest(m)
  /\ \/ asked'[m] = "approval" /\ stage[m] = "proposed"
     \/ asked'[m] = "deletion" /\ m \in shown
     \/ asked'[m] = "restoration" /\ stage[m] \in {"held", "blocked"}

\* What is known of the message is evaluated again; blocked mail loses its place too.
Evaluate(m) ==
  /\ Keeps(m)
  /\ \/ m \in shown /\ Goes(m, {"open", "proposed"}, {"open", "proposed"})
     \/ m \notin shown /\ Goes(m, {"proposed", "blocked", "lost"}, {"proposed", "lost"})

Approve(m) == asked[m] = "approval" /\ Goes(m, {"proposed"}, {"held"}) /\ m \notin shown'
\* The exception: the proposal was withdrawn when the mail was already on its way, and
\* nothing is left from which it can be restored.
Strand(m) == asked[m] = "approval" /\ Goes(m, {"open"}, {"lost"}) /\ Leaves(m)
Restore(m) ==
  /\ asked[m] = "restoration"
  /\ Goes(m, {"held", "blocked", "proposed", "lost"}, {"open"}) /\ m \in shown'
Block(m) == Goes(m, {"held"}, {"blocked"}) /\ Keeps(m)
Retry(m) == Goes(m, {"blocked"}, {"held"}) /\ Keeps(m)
Complete(m) == asked[m] = "nothing" /\ Goes(m, {"held"}, {"gone"}) /\ Keeps(m)

\* Deleted by hand; of mail that was never proposed there is no record to keep.
Discard(m) ==
  /\ asked[m] = "deletion" /\ Leaves(m)
  /\ Goes(m, {"open", "proposed"}, {"gone"}) \/ Goes(m, {"open"}, {"lost"})

\* A request stays, is answered or is given up; it is never another one suddenly.
Asks(m) == asked'[m] \in {asked[m], "nothing"}

Next ==
  /\ stage' \in [Messages -> Stages] /\ shown' \subseteq Messages
  /\ asked' \in [Messages -> Requests]
  /\ \A m \in Messages :
       \/ Ask(m)
       \/ Asks(m) /\ (Rest(m) \/ Evaluate(m) \/ Block(m) \/ Retry(m))
       \/ asked'[m] = "nothing" /\ (Approve(m) \/ Strand(m) \/ Restore(m) \/ Complete(m) \/ Discard(m))

Spec == Init /\ [][Next]_promiseVars
===============================================================================
