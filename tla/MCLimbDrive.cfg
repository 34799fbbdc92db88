\* Transfers lost, restarts, percentages over 100.
CONSTANTS
  LIMB_COUNT = 2
  DAC_MAX_CODE = 5
  MAX_MV = 3
  CODES = 8
  Pcts = {0, 50, 255}
  Curves <- SixCurves
  MaxFaults = 2
SPECIFICATION Spec
INVARIANTS ResetConfigures CalibrationIsWhole
PROPERTIES NeverBeyondSaturation CalibrationEnds
