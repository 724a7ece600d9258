\* GNU extensions, with two long names in a member.
CONSTANTS
  Factor = 2
  MaxFiles = 3
  Formats = {"gnu"}
  Inputs <- MCAllInputs
  Hardlinks = TRUE
  FaultSets = {{}}
SPECIFICATION Spec
INVARIANT RoundTrip
