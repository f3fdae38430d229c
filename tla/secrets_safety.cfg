(* Two processes, any of four command lines each, one fault, one restart,
   one intervention by somebody else. *)
CONSTANTS
  SYNAPSE_SIGNING_KEY = SYNAPSE_SIGNING_KEY
  MAS_RSA_PRIVATE_KEY = MAS_RSA_PRIVATE_KEY
  SYNAPSE_EXTRA = SYNAPSE_EXTRA
  v1 = v1
  v2 = v2
  chart1 = chart1
  chart2 = chart2
  p1 = p1
  p2 = p2
  None = None
  Foreign = Foreign
  Keys = {SYNAPSE_SIGNING_KEY, MAS_RSA_PRIVATE_KEY, SYNAPSE_EXTRA}
  Values = {v1, v2}
  SeededKey = v2
  Sizes = {"4096"}
  Templates = {"hookshot-registration.yaml"}
  Labels = {chart1, chart2}
  Procs = {p1, p2}
  Jobs <- SafetyJobs
  InitialObjects <- SafetyObjects
  BackoffLimit = 1
  MaxRestarts = 1
  MaxFaults = 1
  MaxAdmin = 1
SPECIFICATION Spec
INVARIANT TypeOK
INVARIANT CopyIsCurrent
INVARIANT GeneratedIsThere
PROPERTY ImplementsWriteOnce
CHECK_DEADLOCK FALSE
