\* A container that is deleted while another connection is refreshed.
SPECIFICATION Spec
CONSTANTS
  c1 = c1
  c2 = c2
  k1 = k1
  k2 = k2
  Conns = {c1, c2}
  Containers = {k1, k2}
  Owner <- OneEach
  Requests = {1, 2}
  None = None
  MaxRenders = 2
  MaxWire = 1
  MaxEvents = 1
  MaxBreaks = 0
CHECK_DEADLOCK FALSE
PROPERTY
  OthersUntouched
