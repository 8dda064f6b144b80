SPECIFICATION PathFairSpec
CONSTANTS
  NCpu = 2
  HookCpus <- FirstCpu
  Writers <- FirstCpu
  Readers <- BothCpus
  Polls = 1
  BlkLen = 2
  BlkCnt = 2
  Suggest = 1
  QuietTicks = 0
  IntHalf = 64
  MaxW = 3
INVARIANTS NoWorkAllAsleep
PROPERTIES DrainedUnlessLost HookReturns
