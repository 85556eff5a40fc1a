\* Three callers for two processes; three lines in batches of two for two workers.
CONSTANTS
  Callers = {c1, c2, c3}
  Size = 2
  RestartBudget = 1
  MaxStarts = 3
  NumLines = 3
  Untranslated = {2}
  SourceOf <- Dialogue
  BatchSize = 2
  MaxConcurrency = 2
  MaxAttempts = 2
  MaxTokensPerJob = 1
  CacheMayFail = TRUE
SPECIFICATION WorkSpec
INVARIANTS WorkTypeOK LeaseIsExclusive ProcessCap LinesGetTheirAnswers SpendingIsBounded
PROPERTIES WaitersProceed TranslateReturns
CHECK_DEADLOCK FALSE
