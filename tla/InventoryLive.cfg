\* One connection and its container: streams that break, fallbacks that fail.
SPECIFICATION FairSpec
CONSTANTS
  c1 = c1
  c2 = c2
  k1 = k1
  k2 = k2
  Conns = {c1}
  Containers = {k1}
  Owner <- OnlyOne
  Requests = {1, 2}
  None = None
  MaxRenders = 2
  MaxWire = 1
  MaxEvents = 2
  MaxBreaks = 1
CHECK_DEADLOCK FALSE
INVARIANT
  RefreshingHasStream
PROPERTY
  RefreshEnds
