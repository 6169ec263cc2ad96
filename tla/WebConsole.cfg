CONSTANTS
  Users = {alice, bob}
  NoUser = NoUser
  NoProfile = NoProfile
  Seeds = 2
  MaxSignIns = 3
  MaxRefreshes = 2
  MaxReloads = 1
  Services = {"a", "b"}
  PageKinds = {"stack", "service", "task"}
  MaxVersion = 3
  Names = {"a", "b"}
  ListKinds = {"stacks", "services", "secrets", "configs", "users", "registries", "nodes"}
  Workers = {"b"}
  MaxWrites = 3
  Langs = {"en", "pl", "zh"}
  NoLang = "nolang"
  MaxTokens = 2
  MaxItems = 2
  Values = {"v", "w"}
  Passwords = {"p", "q"}
  Nothing = "nothing"
  Messages = {"m1", "m2", "m3"}
  Noise = {"noise"}
  MaxVisible = 2
  MaxToasts = 4
  Stacks <- ListedStacks
  Levels = {0, 1}
  TopSize = 2
  ChartRanges = {"1h", "6h", "24h"}
  Hosts = {"a", "b"}
  CurveRanges = {"1h", "6h"}
  MaxMoves = 1
  MapHosts = {"a", "b"}
  ChipLists <- SomeChips
  Usages = {10, 45}
  MaxEntries = 2
SPECIFICATION ConsoleSpec
CONSTRAINT SmallConsole
INVARIANTS WebTypeOK OverlayCovers ProfileMatchesSession NoForeignRefusal ScreensTruthful FiguresRight
PROPERTY LoaderLeaves
CHECK_DEADLOCK FALSE
