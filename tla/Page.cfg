\* Two merged sources of one tab, replaced once, with one render that waits.
SPECIFICATION Spec
CONSTANTS
  t1 = t1
  t2 = t2
  Targets = {t1, t2}
  MaxRecords = 2
  MaxStreams = 2
  MaxWaiting = 1
  BufferSize = 2
  Evicted = 1
  TailLines = 1
  RingSize = 2
  Taken = 1
  Structured = {1}
SYMMETRY Symmetry
CHECK_DEADLOCK FALSE
INVARIANTS
  TypeOK
  NothingLeftBehind
  SeenIsBuffered
  NoRepeats
