SPECIFICATION MysqlSpec
CONSTANTS
  NoThread = NoThread
  NoConnection = NoConnection
  Checker = Checker
  Threads = {t1, t2, t3, t4}
  Connections = {c1, c2, c3, c4, c5}
  Initial = {c1, c2}
  MaxChecks = 1
INVARIANTS
  FoundDeadAreGone
CHECK_DEADLOCK FALSE
