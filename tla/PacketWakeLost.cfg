SPECIFICATION WakeSpec
CONSTANTS
  NCpu = 2
  HookCpus <- AllCpus
INVARIANT NoLostWakeup
