-------------------------- MODULE MCGenerateSecrets ---------------------------
(***************************************************************************)
(* Small instances of GenerateSecrets: three of the chart's keys and two   *)
(* values, so that generating a value again can be told from keeping it.   *)
(***************************************************************************)
EXTENDS GenerateSecrets, TLC

CONSTANTS
  SYNAPSE_SIGNING_KEY, MAS_RSA_PRIVATE_KEY, SYNAPSE_EXTRA,  \* keys
  v1, v2,                                                \* values
  chart1, chart2,                                        \* labels
  p1, p2                                                 \* processes

R(k, t, args) == [key |-> k, type |-> t, args |-> args]

J(labels, requests) ==
  [labels |-> labels, labelsParse |-> TRUE, requests |-> requests]

SigningKey   == R(SYNAPSE_SIGNING_KEY, "signingkey", << >>)
RSAKey       == R(MAS_RSA_PRIVATE_KEY, "rsa", << "4096", "der" >>)
NoFormat     == R(MAS_RSA_PRIVATE_KEY, "rsa", << "4096" >>)
Extra        == R(SYNAPSE_EXTRA, "rand32", << >>)
UnknownExtra == R(SYNAPSE_EXTRA, "extra", << >>)

\* Two lists in a different order, one whose second generator fails and one
\* with a type nobody knows.
SafetyJobs ==
  {J(chart1, << SigningKey, RSAKey >>),
   J(chart2, << RSAKey, Extra >>),
   J(chart1, << SigningKey, NoFormat >>),
   J(chart1, << UnknownExtra, SigningKey >>)}

\* The pods of one Job: a pod and its replacement.
LivenessJobs == {J(chart2, << SigningKey, RSAKey >>)}

NoObject == [exists |-> FALSE, labels |-> Foreign, data |-> NoData, rv |-> 0]
Ours ==
  [exists |-> TRUE, labels |-> chart1, rv |-> 0,
   data |-> [NoData EXCEPT ![SYNAPSE_SIGNING_KEY] = v1]]
Others == [Ours EXCEPT !.labels = Foreign]

SafetyObjects   == {NoObject, Ours, Others}
LivenessObjects == {NoObject, Ours}
===============================================================================
