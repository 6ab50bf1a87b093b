SPECIFICATION FairSpec
CONSTANTS
  Main = main
  Workers = {w1, w2}
  Flows = {f1, f2, f3}
  Programs <- Marked
  None = none
INVARIANTS
  NothingOutlivesItsBoundary
  AnswersAsLinear
  DomainsFit
  StartsAfterItsInputs
PROPERTY
  RunEnds
