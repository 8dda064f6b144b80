\* Three CPUs, hooks on two.
SPECIFICATION WakeFairSpec
CONSTANTS
  NCpu = 3
  HookCpus <- FirstCpus
INVARIANTS SleepIsAnnounced
PROPERTY WakeupReturns
