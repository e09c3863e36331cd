\* Three sockets of one address on a lot and a user, two fan-outs at a time.
SPECIFICATION Spec
SYMMETRY Interchangeable
CONSTANTS
  Clients = {c1, c2, c3}
  NoKey = NoKey
  NoClient = NoClient
  Lots = {lot}
  Users = {user}
  IPs = {ip1}
  MaxPerIp = 2
  Senders = {s1, s2}
INVARIANTS
  TypeOK
  SlotsMatchSockets
PROPERTIES
  EveryoneHears
  LostOnlyToOldFanOut
CHECK_DEADLOCK FALSE
