CONSTANTS
  Distances <- MCDistances
  MaxUnplugged = 1
SPECIFICATION FairSpec
INVARIANTS
  IInv
  RunsOnlyWhileHeld
PROPERTY
  EndsWhenTold
\* The programs come to their ends.
CHECK_DEADLOCK FALSE
