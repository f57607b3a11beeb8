SPECIFICATION FairSpec
CONSTANTS
  Threads = {t1, t2, t3}
  Conns = {c1, c2, c3}
  NoConn = NoConn
  PoolSize = 2
  CountMod = 8
INVARIANTS
  ExclusiveOwnership
  PooledConnectionsClean
  CountersAgree
  NoLostWakeup
PROPERTIES
  EveryCallReturns
  ImplementsLeasePool
CHECK_DEADLOCK TRUE
