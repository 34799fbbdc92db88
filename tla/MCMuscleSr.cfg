\* Interrupts served as late as catching up allows, not wired up, or dying;
\* emergency stops.
CONSTANTS
  Channels <- TwoChannels
  Chips <- TwoChips
  MUSCLE_FRAME = 24
  FRAME = 12
  GAP = 4
  TOL = 1
  MARGIN = 2
  Layouts <- PackedLayouts
  AHEAD = 3
  DELAY = 0
  FrameLatency = 3
  Latency = 5
  SampleLatency = 1
  MaxRequests = 3
  Manual = FALSE
  Faulty = {"edge", "frame", "stop"}
SPECIFICATION FairSpec
\* A halted timer stops for good, and so does a run out of requests.
CHECK_DEADLOCK FALSE
INVARIANTS
  BuildIsPrivate OutputsFollowWindows LatestCommitWins
  OneWireAtATime OffUnlessSound
PROPERTIES RelaxTurnsOff DeadCompareHalts StartupEnds
