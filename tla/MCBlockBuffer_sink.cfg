\* Every write() outcome: safety and the refinement of ByteSink.
CONSTANTS
  Factor = 2
  Handles = {0, 3}
  Requests <- MCRequests
  Chunks <- MCChunks
  Faults = {"eintr", "error", "zero"}
  MaxEmitted = 2048
SPECIFICATION Spec
INVARIANTS TypeOK BlockNeverRefused FreshRoomIsZero WholeRecords
PROPERTIES RefinesSink FlushReturns
