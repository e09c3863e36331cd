\* Two processes; the leader stops, or loses its connection or its ping.
SPECIFICATION Spec
CONSTANTS
  Workers = {w1, w2}
  NoWorker = NoWorker
  Lots = {1}
  Durations = {2}
  Lead = 3
  Window = 2
  Extend = 2
  MaxExtensions = 1
  Horizon = 4
  MaxDeletions = 0
  Faults = {"leader stops", "connection drops", "ping times out"}
  MaxFaults = 1
INVARIANTS
  LeaderHasLock
  EveryOpenLotIsWatched
PROPERTIES
  EveryLotCloses
CHECK_DEADLOCK FALSE
