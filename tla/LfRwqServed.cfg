\* Partial grants of three permits a block, two at a time; a fair timer.
SPECIFICATION FairSpec
CONSTANTS
  Writers = {w1}
  Readers = {r1, r2}
  BlkLen = 3
  BlkCnt = 2
  Suggest = 2
  QuietTicks = 0
  IntHalf = 64
  MaxW = 4
INVARIANTS LocalsOK PermitLedger TicketsCovered
PROPERTIES TicketServed
