CONSTANTS
  Users = {alice}
  Admins = {alice}
  Jtis = {j1, j2, j3}
  Requests = {r1, r2}
  NoUser = NoUser
  NoJti = NoJti
  Workload <- EveryOperation
  Life = 1
  Ttl = 2
  ApiLife = 1
  MaxTime = 3
SPECIFICATION Spec
SYMMETRY Symmetry
CONSTRAINT SmallMix
INVARIANTS TypeOK LoggedOutStaysOut RetiredApiTokenStaysOut
PROPERTY PurgeOnlyExpired
