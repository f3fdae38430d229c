---------------------------- MODULE WriteOnceStore ----------------------------
(***************************************************************************)
(* What the rest of the chart relies on init-secrets for: a store of       *)
(* credentials in which a key, once it has a value, keeps it.  Synapse,    *)
(* Matrix Authentication Service and PostgreSQL all read their common      *)
(* passwords from it, at different times, and a server name is bound to    *)
(* its signing key for ever.                                               *)
(*                                                                         *)
(* A store of somebody else's is out of bounds, whatever it contains; and  *)
(* nobody but an administrator takes a store away.                         *)
(***************************************************************************)
CONSTANTS Keys, Values, None

VARIABLES
  owner,    \* "nobody" when there is no store, "us", or "others"
  store     \* the value of every key

vars == <<owner, store>>

NoData == [k \in Keys |-> None]

Init ==
  \/ owner = "nobody" /\ store = NoData
  \/ owner \in {"us", "others"} /\ store \in [Keys -> Values \cup {None}]

Create ==
  /\ owner = "nobody"
  /\ owner' = "us"
  /\ UNCHANGED store

Generate(k, v) ==
  /\ owner = "us"
  /\ store[k] = None
  /\ store' = [store EXCEPT ![k] = v]
  /\ UNCHANGED owner

OthersProvide ==
  /\ owner = "nobody"
  /\ owner' = "others"
  /\ store' \in [Keys -> Values \cup {None}]

OthersDelete ==
  /\ owner # "nobody"
  /\ owner' = "nobody"
  /\ store' = NoData

Next ==
  \/ Create
  \/ \E k \in Keys, v \in Values : Generate(k, v)
  \/ OthersProvide
  \/ OthersDelete

Spec == Init /\ [][Next]_vars
===============================================================================
