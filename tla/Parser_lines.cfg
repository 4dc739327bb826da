CONSTANT
  Lines <- MCLines
SPECIFICATION FairSpec
INVARIANT
  IInv
PROPERTY
  ParseEnds
\* A line is parsed once.
CHECK_DEADLOCK FALSE
