\* Four names, the fourth of which splits the leaf of three; a restart.  With six blocks
\* to a zone a process goes on after a split that went astray, up to the next split.
\* The last process may end, and a zone may be used up.
SPECIFICATION Spec
CONSTANTS
  K = 4
  Size = 4
  MaxIds = 6
  Lives = 2
INVARIANTS
  ViewsAgree
  Sorted
  OnlyUpperHalfLost
  BrokenIsLast
  IdsTaken
CHECK_DEADLOCK FALSE
