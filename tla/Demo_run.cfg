CONSTANTS
  InPorts = {in1}
  OutPorts = {outA}
  MaxFiles = 2
SPECIFICATION MenusFairSpec
INVARIANTS
  MenusIInv
  CarefulUserSurvives
PROPERTIES
  MenusClose
\* The program comes to its end.
CHECK_DEADLOCK FALSE
