SPECIFICATION Spec
CONSTANTS
  t1 = t1
  t2 = t2
SYMMETRY Symmetry
\* A program may end, and bounds are reached.
CHECK_DEADLOCK FALSE
INVARIANTS
  ShowsWhatIsThere
  StaysInOrder
  FailsOnlyAsKnown
