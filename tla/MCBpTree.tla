----------------------------- MODULE MCBpTree -----------------------------
(* Instances of BpTree for TLC. *)
EXTENDS BpTree
=============================================================================
