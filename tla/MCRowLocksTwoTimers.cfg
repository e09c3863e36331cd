\* Two processes with a timer for the same lot.
SPECIFICATION LockSpec
SYMMETRY Sessions
CONSTANTS
  Users = {1, 2}
  NoUser = NoUser
  Sellers = {1, 2}
  NumLots = 1
  Prices = {1, 2}
  Amounts = {2, 3}
  Deposits = {1, 2}
  StartBalance = 4
  MaxUserBalance = 4
  CommissionPercent = 50
  Window = 2
  Extend = 2
  MaxExtensions = 0
  Durations = {1, 2}
  Latency = 1
  Horizon = 2
  LastDeadline = 0
  MaxRows = 1
  Procs = {p1, p2}
  Workload <- OneBid
  Timers = 2
INVARIANTS
  SettledAtMostOnce
CHECK_DEADLOCK FALSE
