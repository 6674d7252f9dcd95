SPECIFICATION MCSpec
CONSTANTS
  Callers = {r1, r2}
  Providers = {"openai", "anthropic"}
  Leaky = {"openai"}
  Texts <- MCTexts
  MaxRetries = 1
  Columns = {"id", "qty", "note"}
  KeyColumn = "id"
  Required = {"id", "qty"}
  Values = {1, 2}
  Blank = 0
  Tables <- MCTables
  Retries = 1
INVARIANTS SummaryIsOfTheFile SuccessMeansSummarised
PROPERTIES ImplementsTable PipelineEnds
