(* Three files, one change of what is mounted, two faults, one crash of the
   server. *)
CONSTANTS
  PASSWORD = PASSWORD
  UNSET = UNSET
  secret1 = secret1
  secret2 = secret2
  Missing = Missing
  Invalid = Invalid
  VariablesOf <- Variables
  Substitute <- Substituted
  Merge <- DeepMerge
  Empty <- EmptyDocument
  Sources <- MCSources
  Paths <- MCPaths
  ArrayOverwriteKeys = {"permissions"}
  Environment = {PASSWORD}
  SecretValues = {secret1, secret2}
  MaxChanges = 1
  MaxFaults = 2
  None = None
  MaxCrashes = 1
SPECIFICATION MCSpec
INVARIANT TypeOK
INVARIANT MergeIsReference
INVARIANT RunsOnWholeConfig
INVARIANT RunsOnMountedConfig
INVARIANT ScriptRunsThrough
INVARIANT WaitedForDatabase
INVARIANT PasswordsAgree
PROPERTY PodStarts
PROPERTY MainConnects
CHECK_DEADLOCK FALSE
