\* Two limbs of four muscles, on or off; a frame that does not divide evenly;
\* the queued schedule() runs in the end.
CONSTANTS
  MUSCLE_LIMBS = 2
  MUSCLE_FRAME = 15
  Pcts <- PctsOnOff
SPECIFICATION FairSpec
INVARIANTS TypeOK AntagonistsExclusive UnfittedRelaxed BoardNeverOverlaps ScheduleCurrent
PROPERTIES ReleaseReachesBoard ImplementsTable
