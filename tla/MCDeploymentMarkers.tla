------------------------- MODULE MCDeploymentMarkers --------------------------
(***************************************************************************)
(* Small instances of DeploymentMarkers.  The keys are the chart's         *)
(* MATRIX_STACK_MSC3861 and a second one, so that two processes can work   *)
(* on different keys of one ConfigMap.                                     *)
(***************************************************************************)
EXTENDS DeploymentMarkers, TLC

CONSTANTS
  msc3861, other,                    \* keys
  legacy_auth, syn2mas_migrated,     \* values
  chart1, chart2                     \* the labels of two chart versions

CONSTANTS p1, p2

M(k, v, allowed) ==
  [key |-> k, newValue |-> v, allowedValues |-> allowed, fields |-> 4]

J(step, labels, markers) ==
  [step |-> step, labels |-> labels, labelsParse |-> TRUE, markers |-> markers]

Migrate  == M(msc3861, syn2mas_migrated, {legacy_auth})
Legacy   == M(msc3861, legacy_auth, {legacy_auth})
OtherKey == M(other, legacy_auth, {legacy_auth})
NoAllowedValues == [Migrate EXCEPT !.fields = 3]

\* The steps of a migration, a list of two markers, an older chart's job,
\* and command lines written by hand: the second marker of a list lacks its
\* allowed values, a label its value, the step does not exist.
SafetyJobs ==
  {J("pre",  chart1, << Migrate >>),
   J("post", chart1, << Migrate >>),
   J("post", chart1, << OtherKey, Migrate >>),
   J("pre",  chart2, << OtherKey, Legacy >>),
   J("post", chart2, << OtherKey, NoAllowedValues >>),
   [J("post", chart2, << Migrate >>) EXCEPT !.labelsParse = FALSE],
   J("unknown", chart2, << Migrate >>)}

\* What the chart renders: one marker, here with the post steps of two
\* releases that disagree about its value.
LivenessJobs ==
  {J("post", chart1, << Migrate >>),
   J("post", chart2, << Legacy >>),
   J("pre",  chart2, << Legacy >>)}

With(value) == [NoData EXCEPT ![msc3861] = value]

NoObject == [exists |-> FALSE, labels |-> Foreign, data |-> NoData, rv |-> 0]
Ours(value) ==
  [exists |-> TRUE, labels |-> chart1, data |-> With(value), rv |-> 0]
Others ==
  [exists |-> TRUE, labels |-> Foreign, data |-> With(legacy_auth), rv |-> 0]

SafetyObjects   == {NoObject, Ours(legacy_auth), Others}
LivenessObjects == {NoObject, Ours(legacy_auth), Ours(syn2mas_migrated)}

ProcSymmetry == Permutations(Procs)
===============================================================================
