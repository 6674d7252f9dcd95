\* Eight nodes, three of them LLM nodes, four permits.
CONSTANTS
  NumTasks = 8
  Heavy <- HeavyFits
  MaxParallel = 4
SPECIFICATION FairSpec
INVARIANTS PermitInv NoPermitStall
PROPERTIES ImplementsAdmission LevelTerminates
