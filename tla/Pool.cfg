SPECIFICATION FairSpec
CONSTANTS
  Workers = {w1, w2, w3, w4}
  Conns = {c1, c2}
  Nobody = Nobody
  NoConn = NoConn
INVARIANTS TypeOK ExclusiveUse NoLostWakeup
PROPERTIES OnlyExceptionsLose ImplementsService ServesWhileFree QueryReturns
