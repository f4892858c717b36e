\* Every posting, every answer of the LLM and every error.
SPECIFICATION EvaluationSpec
CONSTANTS
  None = None
  Scale = 5
  Confidence = 3
  Tolerance = 1
  MatchScore = 3
  BandWidth = 1
  WeightChoices <- Either
  MaxAttempts = 3
INVARIANTS CheapFiltersFirst ScoreIsEarned ScoreIsAMean
