\* Output to a file or a pipe, input that is shortened and grows, every failure.
CONSTANTS
  Factor = 2
  MaxChunk = 1536
  IntRange = 2048
  FileSizes <- MCFileSizes
  Outputs = {"pipe", "file"}
  Others = {"shrink", "grow"}
  Faults = {"flush", "splice", "read", "eintr", "pad"}
SPECIFICATION Spec
CHECK_DEADLOCK FALSE
INVARIANTS TypeOK ContentsWhole TotalIsWritten Contiguous BypassOnlyWhenEmpty
  StreamAligned
PROPERTIES Returns
