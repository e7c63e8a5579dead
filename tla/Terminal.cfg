\* Two sessions, one panel, a command without an answer.
CONSTANTS
  s1 = s1  s2 = s2  b1 = b1  b2 = b2  b3 = b3
  None = None
  Sessions = {s1, s2}
  OpenCode = {s2}
  Codex = {s1}
  Panels = {p1}
  Buffers = {b1, b2}
  Top = 2
  MaxFaults = 1
SPECIFICATION FairSpec
INVARIANTS TypeOK NoPasteLeft PasteIsTruthful
PROPERTIES ClientsStartReady WheelReturns
