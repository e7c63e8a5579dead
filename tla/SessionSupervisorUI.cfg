\* The supervisor alone: one thread, a crash, a restart, two failures.
CONSTANTS
  s1 = s1  s2 = s2
  c1 = c1  c2 = c2
  codex = codex  claude = claude  hermes = hermes  opencode = opencode
  None = None  Pending = Pending
  Sessions = {s1, s2}
  Muxes = {t1, t2}
  Conversations = {c1, c2}
  Providers = {codex}
  Scanning = {codex}
  Provider <- AllCodex
  Catalog <- OneCatalog
  Fixed <- NoneFixed
  RecentHold = {}
  UI = ui
  Monitors = {}
  Refreshers = {}
  MaxInstances = 2
  MaxFaults = 2
SPECIFICATION Spec
SYMMETRY Symmetry
CHECK_DEADLOCK FALSE
INVARIANTS TypeOK RowsNameTheirAgent RunningIsTracked NothingLeftBehind CloseEndsAgents
PROPERTIES KillsItsOwn ImplementsLifecycle
