CONSTANTS
  main = main
  linked1 = linked1
  sub = sub
  home = home
  s1 = s1
  claude = claude
  codex = codex
  Folders <- MCFolders
  Top <- MCTop
  MainTree = main
  Home = home
  Bootstrap = main
  NewTrees <- MCNewTrees
  Sessions = {s1}
  Providers = {codex, claude}
  DefaultProvider = codex
  None = None
  MaxActions = 3
  MaxFaults = 1
SPECIFICATION Spec
INVARIANTS TypeOK AgentsHaveRows TargetSticks RemovedStaysGone
PROPERTY AgentKeepsItsFolder
CHECK_DEADLOCK FALSE
