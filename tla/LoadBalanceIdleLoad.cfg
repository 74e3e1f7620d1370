SPECIFICATION Spec
CONSTANTS
  Workers = {w1, w2}
  Main = main
  NoThread = NoThread
  Empty = Empty
  NumMachines = 2
  LoadMod = 4
  MayRefuse = {}
  MaxPresses = 0
INVARIANTS IdleLoadsZero
