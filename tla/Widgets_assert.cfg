\* Every line has a length, as display.cpp asserts.
SPECIFICATION Spec
CONSTANTS
  Width = 178
  Height = 128
  t1 = t1
  t2 = t2
  Texts <- MCTexts
INVARIANTS LinesHaveLength
CHECK_DEADLOCK FALSE
