------------------------------ MODULE MCSyn2Mas -------------------------------
(***************************************************************************)
(* Small instances of Syn2Mas: Synapse's main process and a worker.        *)
(***************************************************************************)
EXTENDS Syn2Mas

CONSTANTS main, worker

\* Both run, or the worker is installed with no replicas.
BothScales == {[s \in Sts |-> 1], [s \in Sts |-> IF s = main THEN 1 ELSE 0]}
RunScales  == {[s \in Sts |-> 1]}
\* The Role names every StatefulSet, or not the worker that the upgrade
\* itself disables.
BothGrants == {Sts, {main}}
AllGranted == {Sts}
===============================================================================
