SPECIFICATION Spec
CONSTANTS
  GrowBy = {0, 1, 3}
  DEFAULT_GROWTH_FACTOR = 2
  Items = {a, b}
  Null = Null
  Junk = Junk
  SizeRange = 16
  MaxCount = 7
INVARIANTS TypeOK NoHoarding
PROPERTIES RefinesList
