---------------------------- MODULE AtomicMarkers -----------------------------
(***************************************************************************)
(* What the hook Jobs of the chart use deployment-markers for: command     *)
(* lines whose entries are carried out one after the other, each of them   *)
(* in one step on the markers, as if nobody else were at work.             *)
(*                                                                         *)
(* A Job of the pre step checks an entry, one of the post step stores it.  *)
(* The markers of somebody else are out of bounds, and a line that is not  *)
(* well formed does nothing at all.  A line may be begun again until it is *)
(* done, in particular after a step whose effect its Job has not learned.  *)
(***************************************************************************)
EXTENDS Naturals, Sequences

CONSTANTS
  Keys, Values, None,
  Procs,
  Jobs         \* the command lines

VARIABLES
  owner,       \* "nobody" when there are no markers, "us", or "others"
  markers,     \* the value of every key
  job,         \* the command line of a process
  passed       \* how many of its entries a process has behind it

vars == <<owner, markers, job, passed>>

NoMarkers == [k \in Keys |-> None]

Init ==
  /\ \/ owner = "nobody" /\ markers = NoMarkers
     \/ owner \in {"us", "others"} /\ markers \in [Keys -> Values \cup {None}]
  /\ job \in [Procs -> Jobs]
  /\ passed = [p \in Procs |-> 0]

\* Every label has its equals sign, every marker its four fields.
WellFormed(j) ==
  /\ j.labelsParse
  /\ \A i \in DOMAIN j.markers : j.markers[i].fields > 3

HasEntries(p) == passed[p] < Len(job[p].markers)

Handles(p, step) ==
  /\ owner = "us"
  /\ WellFormed(job[p])
  /\ job[p].step = step
  /\ HasEntries(p)

Entry(p) == job[p].markers[passed[p] + 1]

Passes(p) == passed' = [passed EXCEPT ![p] = @ + 1]

Create(p) ==
  /\ owner = "nobody"
  /\ WellFormed(job[p])
  /\ owner' = "us"
  /\ UNCHANGED <<markers, job, passed>>

Check(p) ==
  /\ Handles(p, "pre")
  /\ markers[Entry(p).key] \in Entry(p).allowedValues \cup {None}
  /\ Passes(p)
  /\ UNCHANGED <<owner, markers, job>>

Store(p) ==
  /\ Handles(p, "post")
  /\ markers' = [markers EXCEPT ![Entry(p).key] = Entry(p).newValue]
  /\ Passes(p) \/ UNCHANGED passed
  /\ UNCHANGED <<owner, job>>

BeginAgain(p) ==
  /\ HasEntries(p)
  /\ passed' = [passed EXCEPT ![p] = 0]
  /\ UNCHANGED <<owner, markers, job>>

OthersProvide ==
  /\ owner = "nobody"
  /\ owner' = "others"
  /\ markers' \in [Keys -> Values \cup {None}]
  /\ UNCHANGED <<job, passed>>

OthersDelete ==
  /\ owner # "nobody"
  /\ owner' = "nobody"
  /\ markers' = NoMarkers
  /\ UNCHANGED <<job, passed>>

Next ==
  \/ \E p \in Procs : Create(p) \/ Check(p) \/ Store(p) \/ BeginAgain(p)
  \/ OthersProvide
  \/ OthersDelete

Spec == Init /\ [][Next]_vars
===============================================================================
