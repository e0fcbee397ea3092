SPECIFICATION Spec
CONSTANTS
  Specs <- MCSpecs
  MaxHuman = 1
  MaxAgent = 0
  Files <- MCFiles
  Texts <- MCTexts
  MaxSubmissions = 1
  MaxRefs = 2
  Within <- MCWithin
INVARIANT NeitherMeansHuman
CHECK_DEADLOCK FALSE
