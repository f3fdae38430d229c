------------------------------ MODULE JobBackoff -------------------------------
(***************************************************************************)
(* When Kubernetes gives up a hook Job of the chart.  The kubelet and the  *)
(* Job controller are not part of the repository: what is written here is  *)
(* what the Jobs' backoffLimit and restartPolicy OnFailure ask of them.    *)
(*                                                                         *)
(* The kubelet restarts a failed container in its pod, each pod counting   *)
(* its own restarts.  The controller adds up those of all pods of the Job  *)
(* that are pending or running, a terminating one and its replacement      *)
(* alike, and fails the Job as soon as the sum reaches the limit.  It does *)
(* so some time after the restart that reached it, so that the container   *)
(* may have gone on, or be restarted once more, before it is stopped.      *)
(***************************************************************************)
EXTENDS Naturals, FiniteSets

CONSTANTS
  Procs,           \* the containers of the pods, of one Job or of several
  BackoffLimit,    \* backoffLimit of the Jobs
  MaxRestarts      \* bound on the restarts of a container

ASSUME BackoffAssumption ==
  /\ IsFiniteSet(Procs)
  /\ BackoffLimit \in Nat \ {0}
  /\ MaxRestarts \in Nat /\ BackoffLimit <= MaxRestarts

\* The restarts of the pods together, of which count[p] are those of p.
Sum(pods, count) ==
  Cardinality({r \in pods \X (1..MaxRestarts) : r[2] <= count[r[1]]})

PastBackoffLimit(pods, count) == Sum(pods, count) >= BackoffLimit
===============================================================================
