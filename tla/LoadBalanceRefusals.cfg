SPECIFICATION FairSpec
CONSTANTS
  Workers = {w1}
  Main = main
  NoThread = NoThread
  Empty = Empty
  NumMachines = 2
  LoadMod = 4
  MayRefuse = {0}
  MaxPresses = 0
PROPERTIES RefusalTriesAnother
