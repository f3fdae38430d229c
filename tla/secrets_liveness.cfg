(* The chart: backoffLimit 6. A pod and its replacement, three faults, one more
   than the budget, nobody else at work. *)
CONSTANTS
  SYNAPSE_SIGNING_KEY = SYNAPSE_SIGNING_KEY
  MAS_RSA_PRIVATE_KEY = MAS_RSA_PRIVATE_KEY
  SYNAPSE_EXTRA = SYNAPSE_EXTRA
  v1 = v1
  v2 = v2
  chart1 = chart1
  chart2 = chart2
  p1 = p1
  p2 = p2
  None = None
  Foreign = Foreign
  Keys = {SYNAPSE_SIGNING_KEY, MAS_RSA_PRIVATE_KEY}
  Values = {v1, v2}
  SeededKey = v2
  Sizes = {"4096"}
  Templates = {"hookshot-registration.yaml"}
  Labels = {chart1, chart2}
  Procs = {p1, p2}
  Jobs <- LivenessJobs
  InitialObjects <- LivenessObjects
  BackoffLimit = 6
  MaxRestarts = 6
  MaxFaults = 3
  MaxAdmin = 0
SPECIFICATION FairSpec
INVARIANT RestartsArePaidFor
INVARIANT ListNeverGivesUp
PROPERTY GenerationCompletes
CHECK_DEADLOCK FALSE
