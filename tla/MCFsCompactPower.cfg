\* The power fails while the log is compacted.
CONSTANTS
  x = x
  y = y
  f = f
  g = g
  h = h
  EOL = eol
  ERASED = erased
  Names <- TwoNames
  Truncated <- Identity
  Texts <- TwoTexts
  SECTOR = 3
  SECTORS = 2
  FS_BUF = 3
  FS_MAX_FILES = 2
  MaxGeneration = 7
  MaxFaults = 1
  Faults = {"crash"}
SPECIFICATION Spec
\* Generations are bounded.
CHECK_DEADLOCK FALSE
INVARIANT PowerLossSafe
