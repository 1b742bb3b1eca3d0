SPECIFICATION FairSpec
CONSTANTS
  v1 = v1
  v2 = v2
  s1 = s1
  s2 = s2
  u1 = u1
  u2 = u2
  NoServer = NoServer
  NoSession = NoSession
  NoUser = NoUser
  Servers <- TwoServers
  Sessions <- TwoSessions
  Users <- TwoUsers
  Messages <- TalkToEachOther
  Patient <- TwoSessions
  Garbage = {NoUser}
  RedisFails = {FALSE}
  MaxPosts = 4
  MaxRestarts = 1
PROPERTIES
  AllAnswered
CHECK_DEADLOCK FALSE
