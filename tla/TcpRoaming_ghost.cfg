\* What the comment on detach_stream promises, refuted: an ended session
\* stays in the map when a candidate was attached as its carrier left.
SPECIFICATION Spec
CONSTANTS
  Slot = {0, 1}
  Transport = {1, 2}
  MaxEpoch = 2
  MaxStreams = 2
  MaxOrphans = 1
INVARIANT EndedSessionIsUnmapped
CHECK_DEADLOCK FALSE
