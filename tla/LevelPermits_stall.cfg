CONSTANTS
  NumTasks = 4
  Heavy <- HeavyTooMany
  MaxParallel = 2
SPECIFICATION Spec
INVARIANT CanProceed
CHECK_DEADLOCK FALSE
