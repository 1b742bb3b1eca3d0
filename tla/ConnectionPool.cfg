SPECIFICATION FairSpec
CONSTANTS
  NoThread = NoThread
  NoConnection = NoConnection
  Threads = {t1, t2, t3, t4}
  Connections = {c1, c2}
INVARIANTS
  TypeOK
  Exclusive
  TakeFindsConnection
  NoLostWakeup
  AtMostOneMissesClose
PROPERTIES
  AwakeLeavesClosedPool
  IdleConnectionsAreTaken
  ImplementsLease
CHECK_DEADLOCK FALSE
