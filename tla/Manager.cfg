CONSTANTS
  A = A  B = B  f1 = f1  f2 = f2  f3 = f3  g3 = g3
  NTasks = 3
  Providers <- MCProviders
  Files <- MCFiles
  Provider <- MCProvider
  Chain <- MCChain
  Limit <- MCLimit
  Quiet <- MCQuiet
  Workers = 2
  PerProvider = 2
  Retries = 1
  Overwrite = {2}
  MaxRuns = 2
SPECIFICATION Spec
INVARIANTS
  TypeOK
  SlotAccounting
  QuietPeriodExclusive
  EventsMatchResult
  CompletedMeansPresent
PROPERTIES
  DeliveredKept
  ImplementsBatch
  RunEnds
