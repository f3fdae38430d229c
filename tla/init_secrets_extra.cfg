(* A first installation with the chart's defaults: one pod, no fault, nobody
   else at work. *)
CONSTANTS
  p1 = p1
  chart1 = chart1
  generated = generated
  None = None
  Foreign = Foreign
  Keys <- CredentialKeys
  Values = {generated}
  SeededKey = generated
  Sizes = {"4096"}
  Templates = {"hookshot-registration.yaml"}
  Labels = {chart1}
  Procs = {p1}
  Jobs <- ChartJobs
  InitialObjects <- FirstInstall
  BackoffLimit = 6
  MaxRestarts = 6
  MaxFaults = 0
  MaxAdmin = 0
SPECIFICATION FairSpec
PROPERTY HookGenerates
CHECK_DEADLOCK FALSE
