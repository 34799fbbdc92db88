\* A switch from trot to crawl while two legs swing.
CONSTANTS
  REACH_TICKS = 2
  MaxTicks = 2
  Followed = 3
SPECIFICATION Spec
PROPERTY LiftOffsAreChecked
