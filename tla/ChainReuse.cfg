\* Two executions of the dependency graphs of four nodes, two of them conditions.
CONSTANTS
  N = 4
  Graphs <- EveryGraph
  e1 = e1  e2 = e2
  Execs = {e1, e2}
  Nobody = Nobody
  Prompted = {4}
  Usage <- SomeUsage
  Ceiling = 1
  Verdicts <- SomeVerdicts
SPECIFICATION ReuseSpec
INVARIANTS AnswerIsRight  AloneRunsLikeNew
