\* Two lots, two users who both sell and bid and one who only bids; deposits and withdrawals.
SPECIFICATION Spec
SYMMETRY Accounts
CONSTANTS
  Users = {u1, u2, u3}
  NoUser = NoUser
  Sellers = {u1, u2}
  NumLots = 2
  Prices = {1}
  Amounts = {2, 3}
  Deposits = {2}
  StartBalance = 3
  MaxUserBalance = 5
  CommissionPercent = 50
  Window = 1
  Extend = 1
  MaxExtensions = 1
  Durations = {1}
  Latency = 0
  Horizon = 1
  LastDeadline = 0
  MaxRows = 1
INVARIANTS
  Solvent
  RowsMatchSale
  SoldMeansPaid
  RunningBalance
CHECK_DEADLOCK FALSE
