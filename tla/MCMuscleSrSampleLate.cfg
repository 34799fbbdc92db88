\* A delay close to the distance between two edges.
CONSTANTS
  Channels <- TwoChannels
  Chips <- TwoChips
  MUSCLE_FRAME = 24
  FRAME = 15
  GAP = 5
  TOL = 1
  MARGIN = 2
  Layouts <- PackedLayouts
  AHEAD = 3
  DELAY = 5
  FrameLatency = 3
  Latency = 1
  SampleLatency = 1
  MaxRequests = 3
  Manual = FALSE
  Faulty = {}
SPECIFICATION Spec
\* A halted timer stops for good, and so does a run out of requests.
CHECK_DEADLOCK FALSE
INVARIANT SampleNotEarly
