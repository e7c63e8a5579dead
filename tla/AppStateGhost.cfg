\* One session and one action: a deleted session is still on the screen.
CONSTANTS
  s1 = s1
  s2 = s2
  a1 = a1
  a2 = a2
  None = None
  Sessions <- OneSession
  Aliases <- OneAlias
  FirstAlias = a1
  MaxActions = 1
  MaxFaults = 0
SPECIFICATION Spec
PROPERTY DeletedIsDropped
CHECK_DEADLOCK FALSE
