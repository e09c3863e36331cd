\* Requests and settlements, one timer per lot, racing on a bid lot and a BIN lot; no extensions.
SPECIFICATION LockSpec
SYMMETRY Sessions
CONSTANTS
  Users = {1, 2, 3}
  NoUser = NoUser
  Sellers = {1, 2}
  NumLots = 2
  Prices = {1, 2}
  Amounts = {2, 3}
  Deposits = {2}
  StartBalance = 3
  MaxUserBalance = 4
  CommissionPercent = 50
  Window = 2
  Extend = 2
  MaxExtensions = 0
  Durations = {1}
  Latency = 1
  Horizon = 2
  LastDeadline = 0
  MaxRows = 1
  Procs = {p1, p2}
  Workload <- Handling
  Timers = 1
INVARIANTS
  SessionOK
  HandlersNeverCycle
PROPERTIES
  AtomicHandlers
CHECK_DEADLOCK FALSE
