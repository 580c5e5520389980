SPECIFICATION FairSpec
CONSTANTS
  Requests = {r1, r2, r3}
  Main = Main
  Nobody = Nobody
  PoolSize = 2
  Faults = {"redis", "database", "publish", "close"}
INVARIANT TypeOK
INVARIANT MetricsAddUp
INVARIANT WaitersHoldNothing
INVARIANT OneConnection
INVARIANT IInv
PROPERTY EveryRequestEnds
