SPECIFICATION Spec
CONSTANTS
  a1 = a1
  a2 = a2
  b1 = b1
  b2 = b2
  c1 = c1
  c2 = c2
  d1 = d1
  d2 = d2
  d3 = d3
  Unset = Unset
  NoToken = NoToken
  Nobody = Nobody
  Emails <- As
  Names <- Bs
  Calls <- Cs
  Forms <- Ds
  Logins <- Cs
  Accounts <- As
  ChatServers <- Bs
  People <- As
  Workers <- Bs
  MaxRequests = 3
SYMMETRY Symmetry
INVARIANTS
  RegistrationInv
  FriendshipInv
PROPERTIES
  AccountSteps
CHECK_DEADLOCK FALSE
