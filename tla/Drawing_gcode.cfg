\* Moves, one after the other, on tables homed to either side.
CONSTANTS
  g1 = g1
  g2 = g2
  None = None
  Gos <- OneGo
  Layouts <- Tables
  Coordinates <- Signed
  Unit = 2
  InchPerMm = 2
  DefaultSpeed = 1
  Small = 1
  Big = 1
  MaxRaw = 1
SPECIFICATION FairSpec
PROPERTIES GCodeWithinLimits StepsAsAsked MovesEnd
