--------------------------- MODULE MCModuleLife ---------------------------
(* Two CPUs, the first of which handles the network interrupts: its hooks  *)
(* wake the thread that is stopped last.                                   *)
EXTENDS ModuleLife

FirstCpu == {0}
=============================================================================
