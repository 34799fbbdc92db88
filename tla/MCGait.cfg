\* All interleavings of ticks, starts, switches, stops and IMU samples.
CONSTANTS
  REACH_TICKS = 2
  MaxTicks = 2
  Followed = 3
SPECIFICATION FairSpec
INVARIANTS TwoLegsSupport OneTickChain
PROPERTY SwingEnds
