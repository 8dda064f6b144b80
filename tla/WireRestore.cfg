\* Three wireways; a restart.
SPECIFICATION Spec
CONSTANTS
  N = 3
  MaxBridges = 3
  NoAddr = NoAddr
  Lives = 2
  MaxKept = 2
  MaxNew = 1
INVARIANTS EntriesAsBridged IndexMoved RecordCurrent
PROPERTIES StarRestored EntriesRestored
CHECK_DEADLOCK FALSE
