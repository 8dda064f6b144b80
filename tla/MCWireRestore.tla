--------------------------- MODULE MCWireRestore ---------------------------
(* Three wireways; three bridges in the first process, or two of them and  *)
(* what a successor makes of them, which itself makes one at most.         *)
EXTENDS WireRestore
=============================================================================
