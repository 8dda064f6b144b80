----------------------------- MODULE RcvQueue -----------------------------
(***************************************************************************)
(* What the receive queue promises its users, without any of its           *)
(* mechanism: words are accepted in a total order (their position), never  *)
(* beyond the capacity, every accepted word is delivered at most once, and *)
(* a word overtakes at most as many older ones as there are receive        *)
(* threads.  LfRwq implements this specification (LfRwqProps!Refines).     *)
(***************************************************************************)
EXTENDS Naturals, FiniteSets

CONSTANTS
  Capacity,  \* words the queue holds
  Unit,      \* words that are reused together, a block
  Lanes      \* receive threads

VARIABLES accepted, delivered
qvars == <<accepted, delivered>>

QInit == accepted = 0 /\ delivered = {}

Round(p)   == p \div Capacity
BlockOf(p) == (p % Capacity) \div Unit

\* The words that were in the block of position p before it came round again.
Predecessors(p) == {x \in 0..(p - 1) : BlockOf(x) = BlockOf(p) /\ Round(x) < Round(p)}

Accept ==
  /\ Predecessors(accepted) \subseteq delivered
  /\ accepted' = accepted + 1
  /\ UNCHANGED delivered

Older(p) == (0..(p - 1)) \ delivered

Deliver(p) ==
  /\ p \notin delivered
  /\ Cardinality(Older(p)) < Lanes
  /\ delivered' = delivered \cup {p}
  /\ UNCHANGED accepted

QNext == Accept \/ \E p \in 0..(accepted - 1) : Deliver(p)

QSpec == QInit /\ [][QNext]_qvars
=============================================================================
