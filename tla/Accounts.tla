------------------------------- MODULE Accounts -------------------------------
(***************************************************************************)
(* What the deployment markers are there for: the accounts of the users    *)
(* live in one place, Synapse or Matrix Authentication Service, they move  *)
(* from the first to the second at most once, and never back.              *)
(***************************************************************************)
VARIABLE home    \* "none" before the first deployment, "synapse", "mas"

Init == home = "none"

\* The first deployment that serves users decides.
Settle == home = "none" /\ home' \in {"synapse", "mas"}

\* syn2mas.
Move == home = "synapse" /\ home' = "mas"

Next == Settle \/ Move

Spec == Init /\ [][Next]_home
===============================================================================
