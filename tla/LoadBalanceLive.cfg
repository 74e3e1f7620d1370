SPECIFICATION FairSpec
CONSTANTS
  Workers = {w1, w2}
  Main = main
  NoThread = NoThread
  Empty = Empty
  NumMachines = 2
  LoadMod = 3
  MayRefuse = {0}
  MaxPresses = 1
PROPERTIES JudgeReturns RecoveryWorks ImplementsDispatch
