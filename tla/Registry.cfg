\* A connection saved by an earlier run, three overlapping requests, restarts.
SPECIFICATION Spec
CONSTANTS
  Ids = {c1, q1, q2, q3}
  Saved = {c1}
  Managed = {c1}
  Requests = {q1, q2, q3}
  None = None
  MaxSecrets = 2
SYMMETRY Symmetry
CHECK_DEADLOCK FALSE
INVARIANTS
  TypeOK
  RestartFindsAll
  NoOrphanSecret
  RecordKeepsSecrets
  ActionNeedsOptIn
