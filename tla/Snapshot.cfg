\* Three overlapping requests for one connection that changes.
SPECIFICATION FairSpec
CONSTANTS
  Calls = {q1, q2, q3}
  Conns = {c1}
  None = None
  Failed = Failed
  MaxVersion = 1
CHECK_DEADLOCK FALSE
INVARIANTS
  TypeOK
  FreshAfterInvalidate
  OneLoadPerEntry
  NoLostWakeUp
PROPERTIES
  KeepsPromise
  CallsReturn
