SPECIFICATION FairSpec
CONSTANTS
  Workers = {w1, w2}
  Main = main
  NoThread = NoThread
  Empty = Empty
  NumMachines = 2
  LoadMod = 4
  MayRefuse = {}
  MaxPresses = 2
CHECK_DEADLOCK FALSE
PROPERTIES RecoveryWorks
