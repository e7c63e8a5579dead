SPECIFICATION Spec
CONSTANTS
  None = None
  Screens <- AllScreens
  MaxOpens = 1
  MaxFaults = 1
INVARIANT TypeOK
PROPERTIES
  ExitIsShown
  RefreshSettles
  MonitorSettles
CHECK_DEADLOCK FALSE
