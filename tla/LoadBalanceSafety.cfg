SPECIFICATION Spec
CONSTANTS
  Workers = {w1, w2}
  Main = main
  NoThread = NoThread
  Empty = Empty
  NumMachines = 3
  LoadMod = 3
  MayRefuse = {0}
  MaxPresses = 2
SYMMETRY WorkerSymmetry
CHECK_DEADLOCK FALSE
INVARIANTS TypeOK MachinesPartitioned LoadExact NoRetryOnFailed ScanKeepsLeast FirstPressBlocksNobody
PROPERTIES ListsStableDuringScan
