\* internal/activity: what the manager owes in the end, and the refinement of
\* LiveFeed; two viewers, two upstreams, one or two records each.
SPECIFICATION FairSpec
CONSTANTS
  Viewers = {v1, v2}
  Keys = {k1}
  Streams = {s1, s2}
  None = None
  RingSize = 1
  MinCapacity = 1
  Headroom = 1
  Buffer = 1
  MaxRecords = 1
  Payload = "activity"
CHECK_DEADLOCK FALSE
PROPERTIES
  UpstreamReleased
  EndReachesViewer
  LeaverIsForgotten
  KeepsPromise
