\* Two runs, one of which a reader follows, on each backend; one restart.
CONSTANTS
  Runs = {x, y}
  Blueprints = {b}
  Inline = Inline
  Readers = {p}
  MaxCrashes = 1
SPECIFICATION FairServer
INVARIANTS EventHasResult AckedIsComplete
PROPERTIES  PollerAnswered
CHECK_DEADLOCK FALSE
