\* Other processes remove and replace entries; everything may fail.
CONSTANTS
  Nodes <- MCNodes
  Parent <- MCParent
  Kind <- MCKind
  Behind <- MCBehind
  Arguments <- MCArguments
  Replacements <- MCReplacements
  MatchedPaths = {"leaf"}
  Flags <- MCFlags
  Descriptors = {0, 3, 4, 5, 6}
  Inherited <- MCInherited
  Faults = {"denied", "readdir", "warn", "fatal", "flush"}
SPECIFICATION Spec
CHECK_DEADLOCK FALSE
INVARIANTS ParentFirst NothingMissingUnreported ExcludedByPath NoDescriptorLeaks BodiesFollow
PROPERTIES Terminates
