\* The templates only, and submissions of a screenshot and the link to a post.
SPECIFICATION Spec
CONSTANTS
  Specs = {}
  MaxHuman = 1
  MaxAgent = 0
  Files <- PostFiles
  Texts <- MCTexts
  MaxSubmissions = 1
  MaxRefs = 2
  Within <- MCWithin
INVARIANT PastedCounts
CHECK_DEADLOCK FALSE
