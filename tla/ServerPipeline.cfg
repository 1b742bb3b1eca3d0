SPECIFICATION PipeSpec
CONSTANTS
  Own = Own
  Messages = {Own, Unhandled, Other}
  Unhandled = Unhandled
  kMaxSendQueue = 1
  MaxPosts = 3
  MaxNotifies = 1
  MaxSends = 4
INVARIANTS
  PipeTypeOK
  HandledInOrder
  NeverSleepsOnMessage
  StopLosesNothing
  WritesTheFront
  WireInOrder
  NoneStranded
  RepliesAnswerRequests
PROPERTIES
  QueueIsServed
CHECK_DEADLOCK FALSE
