------------------------------ MODULE MCLfRwq ------------------------------
(* Small instances of the receive queue for TLC.                           *)
EXTENDS LfRwqInv, TLC

\* Hooks are interchangeable, and so are threads: nothing compares them.
Symmetry == Permutations(Writers) \cup Permutations(Readers)
=============================================================================
