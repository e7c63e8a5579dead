\* Two sessions and two names: what the user decided, and what is shown in the end.
CONSTANTS
  s1 = s1
  s2 = s2
  a1 = a1
  a2 = a2
  None = None
  Sessions <- TwoSessions
  Aliases <- TwoAliases
  FirstAlias = a1
  MaxActions = 2
  MaxFaults = 1
SPECIFICATION FairSpec
INVARIANT TypeOK
PROPERTIES DecisionSticks RefreshServed Converges
CHECK_DEADLOCK FALSE
