\* Two archives of three entries, to two handles.
CONSTANTS
  h1 = h1
  h2 = h2
  file = file
  twin = twin
  Handles = {h1, h2}
  Files <- MCFiles
  UserNames = {"user"}
  None = None
  Options <- MCOptions
  MaxEntries = 3
  MaxArchives = 2
  MaxDisturbances = 1
SYMMETRY MCSymmetry
SPECIFICATION Spec
INVARIANTS Delivered OneNamePerUser ContentsOnce
PROPERTIES BlamesTheCulprit
CHECK_DEADLOCK FALSE
