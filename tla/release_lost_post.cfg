(* As the run release, without rollbacks. *)
CONSTANTS
  NoValues = NoValues
  Values <- DefaultValues
  Followed <- SharedSecret
  KnownTypes = {"rand32", "signingkey", "hex32", "rsa", "ecdsaprime256v1", "registration", "extra"}
  MayRollBack = FALSE
  MaxHistory = 1
SPECIFICATION Spec
PROPERTY MasIsNotDisabled
CHECK_DEADLOCK FALSE
