\* Two zones of two blocks; contents of one version.
SPECIFICATION Spec
CONSTANTS
  N = 2
  Trees <- First
  Count = 2
  BlockSize <- TwoSizes
  RecLen <- TwoRecords
  HeadLen = 96
  MediaHead = 32
  Versions = 1
INVARIANTS TypeOK BlocksOwned ReadBack RootIsSaved ZonesApart
PROPERTIES GrantsFresh StuckWhenFull
