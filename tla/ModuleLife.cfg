\* The module is loaded and unloaded under traffic.
SPECIFICATION LifeSpec
CONSTANTS
  NCpu = 2
  HookCpus <- FirstCpu
INVARIANTS LifeFaults
PROPERTIES Unloads
CHECK_DEADLOCK FALSE
