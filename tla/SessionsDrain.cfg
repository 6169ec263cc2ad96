CONSTANTS
  Users = {alice}
  Admins = {}
  Jtis = {j1, j2}
  Requests = {r1, r2}
  NoUser = NoUser
  NoJti = NoJti
  Workload <- DrainWorkload
  Life = 1
  Ttl = 2
  ApiLife = 0
  MaxTime = 2
  Services = {"a"}
  PageKinds = {"stack", "service"}
  MaxVersion = 2
  Names = {"a", "b"}
  ListKinds = {"secrets", "users", "registries", "nodes"}
  Workers = {"b"}
  MaxWrites = 3
  Messages = {"m1", "m2"}
  Noise = {"noise"}
  MaxVisible = 2
  MaxToasts = 4
  Hosts = {"a", "b"}
  CurveRanges = {"1h"}
  MaxMoves = 1
SPECIFICATION SettlingSpec
CONSTRAINT SmallSettling
PROPERTIES EndedTokensDrain ScreensSettle
CHECK_DEADLOCK FALSE
