SPECIFICATION Spec
CONSTANTS
  v1 = v1
  v2 = v2
  s1 = s1
  s2 = s2
  u1 = u1
  u2 = u2
  NoServer = NoServer
  NoSession = NoSession
  NoUser = NoUser
  Servers <- OneServer
  Sessions <- TwoSessions
  Users <- FirstUser
  Messages <- JustLogin
  Patient = {}
  Garbage = {NoUser}
  RedisFails = {FALSE}
  MaxPosts = 2
  MaxRestarts = 0
PROPERTIES
  CloseEndsOwnBinding
CHECK_DEADLOCK FALSE
