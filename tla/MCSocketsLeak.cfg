\* Two sockets of one address whose handshakes may fail.
SPECIFICATION Spec
SYMMETRY Interchangeable
CONSTANTS
  Clients = {c1, c2}
  NoKey = NoKey
  NoClient = NoClient
  Lots = {lot}
  Users = {user}
  IPs = {ip1}
  MaxPerIp = 2
  Senders = {s1, s2}
INVARIANT
  SlotsAlwaysReleased
CHECK_DEADLOCK FALSE
