(* No call fails, nothing is evicted or killed. Two attempts. *)
CONSTANTS
  main = main
  worker = worker
  Sts = {main, worker}
  MaxReplicas = 1
  Scales <- RunScales
  Grants <- AllGranted
  Strays = {FALSE}
  MaxRetries = 1
  MaxAttempts = 2
  MaxErrors = 0
  MaxEvictions = 0
  MaxKills = 0
SPECIFICATION Spec
INVARIANT BackUnlessIgnored
CHECK_DEADLOCK FALSE
