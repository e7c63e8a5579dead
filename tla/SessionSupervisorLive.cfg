\* One session the pending token of which names its conversation, and the monitor.
CONSTANTS
  s1 = s1  s2 = s2
  c1 = c1  c2 = c2
  codex = codex  claude = claude  hermes = hermes  opencode = opencode
  None = None  Pending = Pending
  Sessions = {s1}
  Muxes = {t1, t2}
  Conversations = {c1}
  Providers = {hermes}
  Scanning = {hermes}
  Provider <- AllHermes
  Catalog <- OneCatalog
  Fixed <- HermesFixed
  RecentHold = {hermes}
  UI = ui
  Monitors = {mon}
  Refreshers = {}
  MaxInstances = 2
  MaxFaults = 1
SPECIFICATION FairSpec
CHECK_DEADLOCK FALSE
PROPERTIES UnmistakenIsNoticed ClosingEnds ResumeUnlocks
