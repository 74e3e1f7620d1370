SPECIFICATION Spec
CONSTANTS
  Jobs = {j1}
  Servers = {s1}
  IdMod = 4
  MaxMs = 0
  Signals = {9, 24}
  MayBreak = TRUE
  Blank = Blank
  Unread = Unread
INVARIANTS ZeroMeansRan
