CONSTANTS
  u1 = u1
  u2 = u2
  Procs = {p1, p2}
  Configured <- NoUsers
  Admin = admin
  Seeds = 2
  MaxAttempts = 2
  MaxCrashes = 0
  MaxOutages = 0
SPECIFICATION Spec
INVARIANT SingletonSecret
