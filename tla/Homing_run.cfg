\* Two homings, from the menu or a G28 message, one after or during the other.
CONSTANTS
  m1 = m1
  s1 = s1
  MenuHomers <- OneMenu
  ServerHomers <- OneServer
  Loop = Loop
  NoOne = NoOne
SPECIFICATION FairSpec
INVARIANTS IInv NoDanglingWidget CompleteResults OneMotorDriven
PROPERTIES HomingEnds ExitEnds DialogCloses
CHECK_DEADLOCK FALSE
