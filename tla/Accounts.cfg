CONSTANTS
  Users = {alice, bob}
  Passwords = {p1, p2}
  LegacyUsers = {alice}
  Subs = {s1, s2}
  Requests = {r1, r2}
  NoSub = NoSub
  NoUser = NoUser
  Unusable = Unusable
  Workload <- EveryOperation
  Callers = {c1}
  MaxAttempts = 2
  Window = 2
  MaxClock = 6
  SigningKeys = {k1, k2}
  Logins = {l1, l2}
SPECIFICATION MCSpec
SYMMETRY Symmetry
CONSTRAINT Apart
INVARIANTS LoginsTypeOK LoginLeavesNoLegacyHash IdentitiesSound DoorSound
