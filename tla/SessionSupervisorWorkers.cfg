\* A worker thread beside the UI thread, and a restart of the app.
CONSTANTS
  s1 = s1  s2 = s2
  c1 = c1  c2 = c2
  codex = codex  claude = claude  hermes = hermes  opencode = opencode
  None = None  Pending = Pending
  Sessions = {s1, s2}
  Muxes = {t1, t2}
  Conversations = {c1, c2}
  Providers = {codex, claude}
  Scanning = {codex}
  Provider <- MixedProvider
  Catalog <- MixedCatalog
  Fixed <- MixedFixed
  RecentHold = {claude}
  UI = ui
  Monitors = {}
  Refreshers = {ref}
  MaxInstances = 2
  MaxFaults = 0
SPECIFICATION Spec
SYMMETRY MuxSymmetry
CHECK_DEADLOCK FALSE
INVARIANTS RowsNameTheirAgent
