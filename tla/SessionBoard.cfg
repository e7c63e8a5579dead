\* Two workers, a router and its successor, one crash.
CONSTANTS
  w1 = w1  w2 = w2  r1 = r1  r2 = r2  k1 = k1  k2 = k2
  None = None
  Sessions = {w1, w2, r1, r2}
  Kind <- BoardKind
  Marked = {w1, w2, r1, r2}
  LiveStates <- AnyState
  LastAlias = 3
  BuiltIn = {direct, standard}
  Standard = standard
  CustomKeys = {k1, k2}
  Prompts = {text}
  Blank = blank
  MaxActions = 3
  MaxCrashes = 1
SYMMETRY Interchangeable
SPECIFICATION Spec
CHECK_DEADLOCK FALSE
INVARIANTS TypeOK BoardIsCurrent SelectionIsLive ManifestListsWorkers PresetExists SavedIsCurrent
PROPERTIES OrderIsTheUsers
