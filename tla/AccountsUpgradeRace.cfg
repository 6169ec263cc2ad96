CONSTANTS
  Users = {alice}
  Passwords = {p1, p2}
  LegacyUsers = {alice}
  Subs = {}
  Requests = {r1, r2}
  NoSub = NoSub
  NoUser = NoUser
  Unusable = Unusable
  Workload <- PasswordWorkload
SPECIFICATION Spec
PROPERTY UpgradeKeepsPassword
