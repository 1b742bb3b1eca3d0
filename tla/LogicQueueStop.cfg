SPECIFICATION QueueFairSpec
CONSTANTS
  Messages = {a, b}
  MaxPosts = 2
PROPERTIES
  StopIsSeen
CHECK_DEADLOCK FALSE
