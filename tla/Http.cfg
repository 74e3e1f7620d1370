SPECIFICATION FairSpec
CONSTANTS
  Threads = {t1, t2}
  Conns = {c1, c2, c3, c4}
  NoConn = NoConn
  KeepAliveMax = 2
  MaxOpen = 3
  Requests = {"keep", "close", "hang"}
  AcceptMayFail = TRUE
CHECK_DEADLOCK FALSE
INVARIANTS TypeOK OnePlace NoLostWakeup NothingLeftWhenReturned ToldBeforeLast
PROPERTIES ImplementsService WorkersComeBack Served ShutdownEnds
