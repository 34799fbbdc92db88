\* The log fills up and is compacted; writes and erases fail, or the power does.
CONSTANTS
  x = x
  y = y
  f = f
  g = g
  h = h
  EOL = eol
  ERASED = erased
  Names <- ThreeNames
  Truncated <- Identity
  Texts <- LineTexts
  SECTOR = 2
  SECTORS = 4
  FS_BUF = 2
  FS_MAX_FILES = 2
  MaxGeneration = 5
  MaxFaults = 1
  Faults = {"write", "erase", "crash"}
SPECIFICATION Spec
SYMMETRY NameSymmetry
\* Generations are bounded.
CHECK_DEADLOCK FALSE
INVARIANTS NeverProgramsTwice TailErased EntriesNest PowerLossSafeOutsideCompact
PROPERTY ImplementsStore
PROPERTY NoSpaceMeansFull
