\* Eight verbs of an agent against two signals for a human.
SPECIFICATION Spec
CONSTANTS
  Specs <- MCSpecs
  MaxHuman = 2
  MaxAgent = 8
  Files <- MCFiles
  Texts <- MCTexts
  MaxSubmissions = 0
  MaxRefs = 0
  Within <- MCWithin
INVARIANT BeatsCounterScore
CHECK_DEADLOCK FALSE
