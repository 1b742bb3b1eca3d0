SPECIFICATION Spec
CONSTANTS
  v1 = v1
  v2 = v2
  s1 = s1
  s2 = s2
  u1 = u1
  u2 = u2
  NoServer = NoServer
  NoSession = NoSession
  NoUser = NoUser
  Servers <- TwoServers
  Sessions <- TwoSessions
  Users <- TwoUsers
  Messages <- LoginsAndText
  Patient = {}
  Garbage <- FirstUser
  RedisFails = {FALSE}
  MaxPosts = 3
  MaxRestarts = 1
SYMMETRY SymmetryOfTwo
INVARIANTS
  TypeOK
  OnlyToTheUser
  AnsweredInOrder
  MapHoldsLatestLogin
  
  ClosedLeavesNothing
CHECK_DEADLOCK FALSE
