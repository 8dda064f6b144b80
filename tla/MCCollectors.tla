--------------------------- MODULE MCCollectors ---------------------------
(* Two callers and pages of four entries: the module is being loaded, or   *)
(* there are as many collectors as the cache takes before it grows, or     *)
(* before it would need a second page.                                     *)
EXTENDS Collectors

\* The first, the last id before and the first after each growth, one beyond all.
SomeIds == {1, 7, 8, 16, 40}

AllFrom == {0, 7, 15}
=============================================================================
