\* Ok pressed while a motor is driven.
CONSTANTS
  m1 = m1
  s1 = s1
  MenuHomers <- OneMenu
  ServerHomers = {}
  Loop = Loop
  NoOne = NoOne
SPECIFICATION Spec
INVARIANT OkStopsMotors
CHECK_DEADLOCK FALSE
