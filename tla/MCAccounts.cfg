\* Two requests of one account at a time.
SPECIFICATION UploadsSpec
SYMMETRY Alike
CONSTANTS
  Passwords = {old, new}
  NoPassword = NoPassword
  Requests = {r1, r2}
  NoRequest = NoRequest
  Procs = {p1, p2}
  NoProc = NoProc
  Tiers <- TwoTiers
  Throttle = 1
  LinkTTL = 1
  Workloads <- Together
  Horizon = 2
  MaxVersion = 2
  MaxFailures = 3
  MaxLetters = 2
  MaxSockets = 2
  Sizes = {1, 2}
  Quota = 2
  Window = 2
  MaxUploads = 3
INVARIANTS
  TypeOK
  NothingLost
  RotationEndsSockets
  WindowAddsUp
  AvatarMatchesDisk
PROPERTIES
  FailuresAreSpaced
  RotationsAreProved
  ResetLettersSpaced
CHECK_DEADLOCK FALSE
