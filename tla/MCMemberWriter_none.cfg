\* Without extensions a long name is a warning.
CONSTANTS
  Factor = 2
  MaxFiles = 3
  Formats = {"none"}
  Inputs <- MCInputs
  Hardlinks = TRUE
  FaultSets = {{}}
SPECIFICATION Spec
INVARIANT FinishDies
