(* Two processes, any of four command lines each, one fault, one restart,
   one intervention by somebody else. *)
CONSTANTS
  msc3861 = msc3861
  other = other
  legacy_auth = legacy_auth
  syn2mas_migrated = syn2mas_migrated
  chart1 = chart1
  chart2 = chart2
  p1 = p1
  p2 = p2
  None = None
  Foreign = Foreign
  Keys = {msc3861, other}
  Values = {legacy_auth, syn2mas_migrated}
  Labels = {chart1, chart2}
  Procs = {p1, p2}
  Jobs <- SafetyJobs
  InitialObjects <- SafetyObjects
  BackoffLimit = 1
  MaxRestarts = 1
  MaxFaults = 1
  MaxAdmin = 1
SPECIFICATION Spec
SYMMETRY ProcSymmetry
INVARIANT TypeOK
INVARIANT CopyIsCurrent
PROPERTY OnlyPostWritesItsKey
PROPERTY PreChecksCurrentValue
PROPERTY ForeignIsLeftAlone
PROPERTY PostLeavesNoKeyOut
PROPERTY ImplementsAtomicMarkers
CHECK_DEADLOCK FALSE
