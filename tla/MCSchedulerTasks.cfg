\* One process where settlements, warnings, purchases and the process itself fail.
SPECIFICATION Spec
CONSTANTS
  Workers = {w1}
  NoWorker = NoWorker
  Lots = {1}
  Durations = {2, 4}
  Lead = 3
  Window = 2
  Extend = 2
  MaxExtensions = 1
  Horizon = 6
  MaxDeletions = 1
  Faults = {"leader stops", "purchase fails", "settlement fails", "warning fails"}
  MaxFaults = 1
INVARIANTS
  TypeOK
  FiresOnce
CHECK_DEADLOCK FALSE
