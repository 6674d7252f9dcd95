\* Every dependency graph of four nodes, under every policy.
CONSTANTS
  N = 4
  Workflows <- EveryShape
  StoreFaults = FALSE
SPECIFICATION FairSpec
INVARIANTS SuccessMeansAllDone ReportIsComplete ExclusiveBranches
PROPERTIES ImplementsDagRun Terminates
