SPECIFICATION Spec
CONSTANTS
  Jobs = {j1, j2}
  Servers = {s1, s2}
  IdMod = 4
  MaxMs = 1
  Signals = {9, 24}
  MayBreak = TRUE
  Blank = Blank
  Unread = Unread
SYMMETRY JobSymmetry
INVARIANTS TypeOK FreshName OwnVerdict NothingLeftOver SignTells
