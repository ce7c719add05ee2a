SPECIFICATION Spec
CONSTANTS
  nvidia = nvidia
  gemini = gemini
  Idle = Idle
  Models <- TwoProviders
  Providers <- TwoProviders
  RuleOrder <- OrderOfRules
  DefaultMinConfidence = 6
  Datasets <- SomeDatasets
  Asked <- SomeRuns
  StaticFindings <- SomeStatic
  Reviewed <- SomeReviews
  Verdicts <- SomeVerdicts
  Concurrency = 2
  MaxRounds = 2
  Histories <- SomeHistories
  Sampled <- BothModels
  SampleSize = 2
  Raters = {1, 2, 3}
  Ratings = {1, 2, 5}
INVARIANT ScoredFromCompleteWork
CHECK_DEADLOCK FALSE
