\* A seller and two others, two handlers at a time.
SPECIFICATION Spec
SYMMETRY Alike
CONSTANTS
  Users = {s, a, b}
  Seller = s
  NoUser = NoUser
  Jobs = {j1, j2}
  Workloads <- Together
  Wishes <- Settings
  MaxBids = 2
  MaxLots = 2
  MaxWarnings = 3
  MaxSaves = 2
  MaxSubs = 2
INVARIANTS
  TypeOK
  LettersComeWithRows
  ToldOnce
  NobodyMissed
PROPERTIES
  SettingsTakeHold
CHECK_DEADLOCK FALSE
