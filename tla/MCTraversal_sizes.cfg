\* A symbolic link is made a regular file between open() and lstat().
CONSTANTS
  Nodes <- MCNodes
  Parent <- MCParent
  Kind <- MCKind
  Behind <- MCBehind
  Arguments <- MCTop
  Replacements <- MCLinkToFile
  MatchedPaths = {}
  Flags = {{}}
  Descriptors = {0, 3, 4, 5, 6}
  Inherited = {{0}}
  Faults = {}
SPECIFICATION Spec
CHECK_DEADLOCK FALSE
INVARIANT NoMismatchedSizes
