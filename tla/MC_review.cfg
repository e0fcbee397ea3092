\* From the request to the ranking.
SPECIFICATION Spec
CONSTANTS
  Specs <- MCSpecs
  MaxHuman = 3
  MaxAgent = 9
  Files <- MCFiles
  Texts <- MCTexts
  MaxSubmissions = 3
  MaxRefs = 3
  Within <- MCWithin
INVARIANTS TypeOK Matching ScoreAddsUp OptionalNeverCosts
INVARIANTS ExactBelowEightVerbs ListingOnlySettlesTies StrongestStandsOut
PROPERTIES PhraseMovesOneWay AttachNeverCosts
CHECK_DEADLOCK FALSE
