\* One worker whose provider's pending tokens are not known.
CONSTANTS
  w1 = w1  w2 = w2  r1 = r1  r2 = r2  k1 = k1  k2 = k2
  None = None
  Sessions = {w1}
  Kind <- BoardKind
  Marked = {}
  LiveStates <- AnyState
  LastAlias = 3
  BuiltIn = {direct, standard}
  Standard = standard
  CustomKeys = {k1, k2}
  Prompts = {text}
  Blank = blank
  MaxActions = 3
  MaxCrashes = 1
SPECIFICATION Spec
CHECK_DEADLOCK FALSE
INVARIANTS EntriesAreResolved
