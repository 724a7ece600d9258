\* Each format, with nothing failing once a member has begun, and with every
\* call failing.
CONSTANTS
  Factor = 3
  MaxFiles = 3
  Formats = {"none", "gnu", "pax"}
  Inputs <- MCInputs
  Hardlinks = TRUE
  FaultSets <- MCFaultSets
SPECIFICATION Spec
INVARIANTS RoundTrip TotalCounts HardlinkTargets EarlierMembersReadable
PROPERTIES AppendOnly RefinesSink Finishes
