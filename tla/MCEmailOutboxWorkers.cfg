\* Two workers racing for two letters, with lost outcomes.
SPECIFICATION Spec
CONSTANTS
  Workers = {w1, w2}
  NumMails = 2
  MaxAttempts = 2
  BatchSize = 2
  Horizon = 4
  MaxFaults = 2
INVARIANTS
  TypeOK
  NoNeedlessDuplicates
PROPERTIES
  BackoffUnlessRaced
  KeepsPromise
CHECK_DEADLOCK FALSE
