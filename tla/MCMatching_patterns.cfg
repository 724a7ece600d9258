SPECIFICATION Spec
CONSTANTS
  Alphabet <- MCAlphabet
  Patterns <- MCPatterns
  Companions <- MCCompanions
  Files <- MCFiles
  Names <- MCNames
  NL = NL
  ZERO = ZERO
  Closed = Closed
  BuffLength = 1
  MaxPatterns = 2
  MaxAsked = 2
INVARIANTS LinesRead UnmatchedCounted
PROPERTIES Decided ReadingEnds
