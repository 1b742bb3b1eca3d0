SPECIFICATION Spec
\* A pool that missed its stop waits for ever, and the rest has ended.
CHECK_DEADLOCK FALSE
INVARIANTS
  WorkIsServed
  CoroutinesAreServed
PROPERTIES
  WorkIsDone
