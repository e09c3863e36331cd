\* Two lots of one seller, two bidders; deadlines, extensions, late commits and reviews.
SPECIFICATION ReviewsSpec
SYMMETRY Accounts
CONSTANTS
  Users = {u1, u2, u3}
  NoUser = NoUser
  Sellers = {u1}
  NumLots = 2
  Prices = {1}
  Amounts = {2, 3, 4}
  Deposits = {2}
  StartBalance = 5
  MaxUserBalance = 6
  CommissionPercent = 50
  Window = 2
  Extend = 2
  MaxExtensions = 2
  Durations = {2}
  Latency = 1
  Horizon = 3
  LastDeadline = 4
  MaxRows = 0
  Posts = {p1, p2}
  NoPost = NoPost
  EditWindow = 1
INVARIANTS
  TypeOK
  BidsAscendToPrice
  LifetimeBounded
  ReviewsFollowSales
PROPERTIES
  DeadlineNeverRecedes
  FinishedIsFinal
CHECK_DEADLOCK FALSE
