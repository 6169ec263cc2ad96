CONSTANTS
  web = web
  agent = agent
  shop = shop
  jobs = jobs
  Ids = {i1, i2, i3}
  Stacks = {shop, jobs}
  Names = {web, agent}
  StackOf <- StacksOfNames
  GlobalNames = {agent}
  Images = {v1, v2}
  Requests = {r1, r2}
  MaxReplicas = 1
  MaxIndex = 2
  None = None
SPECIFICATION Spec
SYMMETRY Symmetry
CONSTRAINT SmallMix
INVARIANTS TypeOK SweepReachesAll DeploysOwnFile
PROPERTY ImplementsAtomicServices
CHECK_DEADLOCK FALSE
