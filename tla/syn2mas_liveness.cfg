(* One attempt. One call fails, one pod is evicted, the job is killed. *)
CONSTANTS
  main = main
  worker = worker
  Sts = {main, worker}
  MaxReplicas = 1
  Scales <- BothScales
  Grants <- BothGrants
  Strays = {TRUE, FALSE}
  MaxRetries = 1
  MaxAttempts = 1
  MaxErrors = 1
  MaxEvictions = 1
  MaxKills = 1
SPECIFICATION FairSpec
PROPERTY AttemptEnds
PROPERTY ScaleReturns
PROPERTY ReturnsFromRest
CHECK_DEADLOCK FALSE
