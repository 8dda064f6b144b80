\* One and a half laps of a queue of two blocks of two slots.
SPECIFICATION Spec
CONSTANTS
  Writers = {w1, w2}
  Readers = {r1, r2}
  BlkLen = 2
  BlkCnt = 2
  Suggest = 2
  QuietTicks = 0
  IntHalf = 64
  MaxW = 6
SYMMETRY Symmetry
INVARIANTS TypeOK OpenedOnce NoOverlap OwnWord ReadLedger
PROPERTIES Refines
