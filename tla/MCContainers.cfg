SPECIFICATION Spec
CONSTANTS
  t1 = t1
  t2 = t2
  t3 = t3
  t4 = t4
  n1 = n1
  n2 = n2
  n3 = n3
  n4 = n4
  Null = Null
SYMMETRY Symmetry
\* Every thread has made its calls.
CHECK_DEADLOCK FALSE
INVARIANTS
  MemorySafe
  Reclaimed
  HoldsWhatWasPut
  NoneSleepsInVain
