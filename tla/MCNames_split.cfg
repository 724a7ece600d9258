\* Names given, cleaned, substituted and split.  A walk may end at any entry.
CONSTANTS
  Letters = {"a", "b", "e", "p", "q", "dot", "slash"}
  SuffixSize = 100
  PrefixSize = 155
  SizeDigits = 2
  MaxFileSize = 64
  Sizes = {1, 63, 64, 65}
  Given <- MCGiven
  Entries <- MCEntries
  MaxDepth = 2
SPECIFICATION Spec
CHECK_DEADLOCK FALSE
INVARIANTS NamedAsWished FieldsFit TruncatedOnlyWhenMust
