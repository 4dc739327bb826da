\* Devices plugged in and out at two directories, caches of two streams.
CONSTANTS
  o1 = o1
  d1 = d1
  d2 = d2
  address = address
  driver_name = driver_name
  speed = speed
  None = None
  Dirs <- TwoDirs
  Matched <- Address
  Others <- Speed
  Objects <- OneObject
  CacheSize = 2
  MaxPlugs = 3
SPECIFICATION Spec
INVARIANT IInv
PROPERTIES WritesTakeEffect OneRetryIsEnough ConnectedToMatch
SYMMETRY AnyDir
