\* A follower that armed a lot is restarted while the leader lives.
SPECIFICATION Spec
CONSTANTS
  Workers = {w1, w2}
  NoWorker = NoWorker
  Lots = {1}
  Durations = {2}
  Lead = 3
  Window = 2
  Extend = 2
  MaxExtensions = 1
  Horizon = 2
  MaxDeletions = 0
  Faults = {"follower stops"}
  MaxFaults = 1
PROPERTIES
  EveryLotCloses
CHECK_DEADLOCK FALSE
