\* A session resumed while the worker holds its old row.
CONSTANTS
  s1 = s1  s2 = s2
  c1 = c1  c2 = c2
  codex = codex  claude = claude  hermes = hermes  opencode = opencode
  None = None  Pending = Pending
  Sessions = {s1}
  Muxes = {t1, t2}
  Conversations = {c1}
  Providers = {codex}
  Scanning = {codex}
  Provider <- AllCodex
  Catalog <- OneCatalog
  Fixed <- NoneFixed
  RecentHold = {}
  UI = ui
  Monitors = {mon}
  Refreshers = {}
  MaxInstances = 1
  MaxFaults = 0
SPECIFICATION Spec
CHECK_DEADLOCK FALSE
INVARIANTS CloseEndsAgents
