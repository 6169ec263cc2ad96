CONSTANTS
  u1 = u1
  u2 = u2
  Procs = {p1, p2}
  Configured <- TwoUsers
  Admin = admin
  Seeds = 2
  MaxAttempts = 2
  MaxCrashes = 1
  MaxOutages = 1
SPECIFICATION FairSpec
INVARIANTS TypeOK SecretsBounded ServesWithSecret SeedsBounded ConfiguredUsersExist
PROPERTY EventuallyServing
CHECK_DEADLOCK FALSE
