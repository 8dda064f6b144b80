\* From scratch, and around the growth of the cache and its end.
SPECIFICATION Spec
CONSTANTS
  Callers = {c1, c2}
  Loader = c1
  Names = {10, 90}
  Main = 10
  Order = 2
  Earlier <- AllFrom
  Offsets <- SomeIds
  MaxCalls = 3
INVARIANTS ListedOnce IdsAsAliased MapsCollectors
CHECK_DEADLOCK FALSE
