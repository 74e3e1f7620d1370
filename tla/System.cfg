SPECIFICATION FairSpec
CONSTANTS
  MaxClicks = 2
  Machine = {m1, m2}
  Empty = Empty
  Statuses = {200, 500}
  Ports = {1, 2, 3, 4}
  NoPort = NoPort
  MaxPresses = 1
  MayCrash = {m1}
  MaxCrashes = 1
CHECK_DEADLOCK FALSE
INVARIANTS TypeOK OncePerMachine WorksForSomebody OldResultsReplaced
PROPERTIES ClicksComeBack
