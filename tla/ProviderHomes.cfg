\* All four providers, a session in the workspace, a worker and a user.
CONSTANTS
  c1 = c1  w1 = w1  o1 = o1  o2 = o2
  None = None
  Providers <- AllProviders
  Sessions = {c1, w1}
  Controls = {c1}
  Blank = {w1}
  Outsiders = {o1, o2}
  MaxChanges = 2
  MaxFaults = 2
SYMMETRY Interchangeable
SPECIFICATION Spec
INVARIANTS TypeOK TalkIsListed
PROPERTIES StartsComplete ResumesWhereItTalked
