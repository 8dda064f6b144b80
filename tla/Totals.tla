------------------------------ MODULE Totals ------------------------------
(***************************************************************************)
(* The sum of a function over a finite set, for functions whose values are *)
(* 0..N: every key contributes as many tokens as its value says.  Stated   *)
(* by Cardinality rather than by a fold so that a change of one value can  *)
(* be proved to change the sum by the difference (RcvPath_proofs).         *)
(***************************************************************************)
EXTENDS Integers, FiniteSets

\* The tokens of f: one for each key and each unit of its value.
Tokens(S, N, f) == {x \in S \X (1..N) : x[2] <= f[x[1]]}

Total(S, N, f) == Cardinality(Tokens(S, N, f))
=============================================================================
