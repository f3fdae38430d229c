(* One pod is evicted while the job starts. No call fails. *)
CONSTANTS
  main = main
  worker = worker
  Sts = {main, worker}
  MaxReplicas = 1
  Scales <- RunScales
  Grants <- AllGranted
  Strays = {FALSE}
  MaxRetries = 1
  MaxAttempts = 1
  MaxErrors = 0
  MaxEvictions = 1
  MaxKills = 0
SPECIFICATION Spec
INVARIANT DownWhileMigrating
CHECK_DEADLOCK FALSE
