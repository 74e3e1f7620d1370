SPECIFICATION Spec
CONSTANTS
  Jobs = {j1, j2}
  Servers = {s1}
  IdMod = 4
  MaxMs = 0
  Signals = {9, 24}
  MayBreak = FALSE
  Blank = Blank
  Unread = Unread
INVARIANTS NamesUnique
