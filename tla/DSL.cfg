SPECIFICATION Spec
CONSTANTS
  Names <- MCNames
  Counts <- MCCounts
  Fractions <- MCFractions
  Strings <- MCStrings
  ValueOf <- MCValueOf
  PreEventMA <- MCPreEventMA
  Stocks <- MCStocks
  Latest <- MCLatest
  AllowedFields <- MCFields
  Clauses <- ClauseWords
  Vocabularies <- MCVocabularies
INVARIANT ParserFollowsGrammar
INVARIANT EvaluationIsTyped
INVARIANT SearchFindsWhatIsEvaluated
CHECK_DEADLOCK FALSE
