\* Output to a pipe: a truncated file is reported as written.
CONSTANTS
  Factor = 2
  MaxChunk = 1536
  IntRange = 2048
  FileSizes <- MCFileSizes
  Outputs = {"pipe"}
  Others = {"shrink"}
  Faults = {}
SPECIFICATION Spec
CHECK_DEADLOCK FALSE
INVARIANT NoMismatchedSizes
