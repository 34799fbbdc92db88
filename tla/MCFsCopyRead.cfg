\* A read fails in the middle of a copy to the tail.
CONSTANTS
  x = x
  y = y
  f = f
  g = g
  h = h
  EOL = eol
  ERASED = erased
  Names <- TwoNames
  Truncated <- Identity
  Texts <- LineTexts
  SECTOR = 2
  SECTORS = 4
  FS_BUF = 2
  FS_MAX_FILES = 2
  MaxGeneration = 7
  MaxFaults = 1
  Faults = {"read"}
SPECIFICATION Spec
\* Generations are bounded.
CHECK_DEADLOCK FALSE
INVARIANT NeverProgramsTwice
