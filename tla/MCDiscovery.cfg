CONSTANTS
  Deployment = {d1, d2}
  Fact <- Varied
  MaxRows = 3
  Fanout = 2
  MaxCandidates = 2
SPECIFICATION Spec
SYMMETRY Interchangeable
INVARIANTS TeardownIsSafe RecommendationsAreNew EachCandidateOnce
PROPERTY NothingNewAfterAbort
