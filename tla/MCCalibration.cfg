\* A ramp of two steps of two samples, a ring of two readings.
CONSTANTS
  vint = vint
  MUSCLE_LIMBS = 2
  Muscles = {1}
  Others = {3}
  FITTED <- TwoLimbs
  WC_START_PCT = 1
  WC_STEP_PCT = 1
  WC_MAX_PCT = 2
  WC_SAMPLES = 2
  WC_MIN_POINTS = 2
  WC_MAX_POINTS = 3
  RING = 3
  Results = {1}
  Uncalibrated = none
  KeyOrder <- TwoKeys
  Items <- OneItem
  Values = {1}
  Default = 0
  CALIB_FILE = calib
  CALIB_TMP = tmp
  EOL = eol
  KEYQ = 2
  MaxLoads = 2
SPECIFICATION FairSpec
INVARIANTS TypeOK RunHoldsItsTimer SamplesAreOfThisStep FileIsOldOrNew SavedIsRestored EchoComesBack
PROPERTY RunEnds
