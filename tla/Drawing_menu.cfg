\* Overlapping moves from the menu and the server.
CONSTANTS
  g1 = g1
  g2 = g2
  None = None
  Gos <- TwoGos
  Layouts <- Plain
  Coordinates <- One
  Unit = 2
  InchPerMm = 1
  DefaultSpeed = 1
  Small = 1
  Big = 2
  MaxRaw = 1
SPECIFICATION Spec
INVARIANTS IInv AtRestWhenDone
SYMMETRY AnyGo
