CONSTANTS
  Kinds <- MCKinds
  Candidates = 2
  Attempts = 2
  MaxSessions = 2
  MaxFaults = 2
SPECIFICATION Spec
INVARIANTS
  TypeOK
  NothingLost
PROPERTIES
  RestoredStays
  Repairs
