----------------------------- MODULE MCRcvPath -----------------------------
(* Two CPUs, each with a thread; packets arrive on the first.   *)
EXTENDS RcvPath

BothCpus == {0, 1}
FirstCpu == {0}
=============================================================================
