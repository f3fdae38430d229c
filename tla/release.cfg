(* Every combination of the values that decide the mode, credentials generated
   or provided, failures anywhere, jobs left behind, rollbacks to any of two
   kept revisions, and an operator who is free to do what the properties make
   an exception of. *)
CONSTANTS
  NoValues = NoValues
  Values <- AllValues
  Followed <- SharedSecret
  KnownTypes = {"rand32", "signingkey", "hex32", "rsa", "ecdsaprime256v1", "registration", "extra"}
  MayRollBack = TRUE
  MaxHistory = 2
SPECIFICATION Spec
INVARIANT TypeOK
INVARIANT MarkerIsTrue
INVARIANT LegacyOnlyInWindow
INVARIANT CredentialsArePresent
PROPERTY ImplementsAccounts
PROPERTY MarkerNeverGoesBack
CHECK_DEADLOCK FALSE
