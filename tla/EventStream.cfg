CONSTANTS
  Tokens = {t1, t2}
  Requests = {r1, r2}
  NoToken = NoToken
  NoRow = NoRow
  Ttl = 0
  MaxTime = 1
  RingSize = 2
  MaxEvents = 3
  CloseEarly = TRUE
  Nodes = {n1, n2, n3}
  NodeRequests = {q1}
  MaxNodeIndex = 2
  Machines = {"m1", "m2"}
  HostOf <- HostNames
  Deployed <- ListedServices
  Containers = {"t1", "t2"}
  ServiceOf <- ServicesOfTasks
  Stacked = {"shop", "gone"}
  Labels = {"data"}
  Namespaces = {"shop"}
  Manifests <- SmallManifests
  Hashes = {"h1"}
  Strays <- SmallStrays
  Applies = {a1, a2}
  Buckets = 3
  Levels = {"low", "high"}
  MaxHalfDays = 17
  MaxCount = 1
  Viewers = {"v1", "v2"}
SPECIFICATION MCSpec
SYMMETRY Symmetry
CONSTRAINT SmallParts
INVARIANTS ClusterTypeOK SpentIsFinal FeedShowsLatest StreamIsComplete NodesSound ListsSound ReadingsHonest
PROPERTY ImplementsSingleUse
CHECK_DEADLOCK FALSE
