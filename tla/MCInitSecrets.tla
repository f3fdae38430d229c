---------------------------- MODULE MCInitSecrets -----------------------------
(***************************************************************************)
(* The hook Job with the chart's default components and with all of them,  *)
(* and no credential provided.                                             *)
(***************************************************************************)
EXTENDS InitSecrets

CONSTANTS p1, chart1, generated

Default ==
  [synapse |-> TRUE, mas |-> TRUE, rtc |-> TRUE, hookshot |-> FALSE,
   postgres |-> TRUE, databases |-> {}, provided |-> {}]

ChartJobs ==
  {[labels |-> chart1, labelsParse |-> TRUE, requests |-> GeneratedSecrets(v)] :
     v \in {Default, [Default EXCEPT !.synapse = FALSE],
            [Default EXCEPT !.hookshot = TRUE]}}

NoObject == [exists |-> FALSE, labels |-> Foreign, data |-> NoData, rv |-> 0]

FirstInstall == {NoObject}
===============================================================================
