(* Main process and worker, two attempts, one failed call, one eviction, one
   kill, with and without a stray pod. *)
CONSTANTS
  main = main
  worker = worker
  Sts = {main, worker}
  MaxReplicas = 1
  Scales <- BothScales
  Grants <- BothGrants
  Strays = {TRUE, FALSE}
  MaxRetries = 1
  MaxAttempts = 2
  MaxErrors = 1
  MaxEvictions = 1
  MaxKills = 1
SPECIFICATION Spec
INVARIANT TypeOK
INVARIANT MigratesAlone
INVARIANT InstalledUnlessLost
INVARIANT UndisturbedIsDown
PROPERTY ScalesBack
CHECK_DEADLOCK FALSE
