(* The chart: one key, one marker in a list, backoffLimit 6. Two processes,
   four faults, nobody else at work. *)
CONSTANTS
  msc3861 = msc3861
  other = other
  legacy_auth = legacy_auth
  syn2mas_migrated = syn2mas_migrated
  chart1 = chart1
  chart2 = chart2
  p1 = p1
  p2 = p2
  None = None
  Foreign = Foreign
  Keys = {msc3861}
  Values = {legacy_auth, syn2mas_migrated}
  Labels = {chart1, chart2}
  Procs = {p1, p2}
  Jobs <- LivenessJobs
  InitialObjects <- LivenessObjects
  BackoffLimit = 6
  MaxRestarts = 6
  MaxFaults = 4
  MaxAdmin = 0
SPECIFICATION FairSpec
INVARIANT RestartsArePaidFor
INVARIANT NeverGivesUp
PROPERTY PostCompletes
CHECK_DEADLOCK FALSE
