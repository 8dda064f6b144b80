----------------------------- MODULE LfRwqInv -----------------------------
(***************************************************************************)
(* The invariant behind NoOverlap, OwnWord and Refines.  NoOverlap is not  *)
(* inductive: that a claimed slot is empty depends on what the tickets of  *)
(* earlier laps did, on which positions were opened and on what r_cnt      *)
(* counts.  Each part below is one of these relations.                     *)
(***************************************************************************)
EXTENDS LfRwqProps

\* The reader owns a ticket whose word it has not taken out.
HasTicket(r) == rpc[r] \in {"spin", "clear"}

\* The hook, or the timer, owns a position it has not filled.
HookPending(w) == wpc[w] \in {"test", "store"}
TimerPending == spc \in {"test", "store"}

\* The positions that used the block of p in earlier laps.
Earlier(p) == {x \in 0..(p - 1) : Blk(x) = Blk(p) /\ Lap(x) < Lap(p)}

\* The words of block b that were taken out.
ConsumedIn(b) == {p \in consumed : Blk(p) = b}

-----------------------------------------------------------------------------
(* Tickets are distinct, and every ticket drawn is either still held or    *)
(* its word has been taken out.                                            *)
TicketInv ==
  /\ consumed \subseteq 0..(r_idx - 1)
  /\ \A r \in Readers : HasTicket(r) => ticket[r] \in (0..(r_idx - 1)) \ consumed
  /\ \A r, s \in Readers : r # s /\ HasTicket(r) /\ HasTicket(s) => ticket[r] # ticket[s]
  /\ \A t \in 0..(r_idx - 1) : t \in consumed \/ \E r \in Readers : HasTicket(r) /\ ticket[r] = t

(* A hook issues permits only after it stored the first word of a block.   *)
OpenerInv == \A w \in Writers : wpc[w] = "alloc" => Starts(wi[w])

(* The timer only claims positions inside a block, up to its end.          *)
PadInv ==
  /\ spc # "idle" => ~Starts(si)
  /\ spc \in {"claim", "test", "store"} => snum = PadLen(si)

(* A hook about to claim a position saw room for it; counts never shrink.  *)
RoomInv == \A w \in Writers : wpc[w] = "claim" => RoomFor(wi[w])

(* A block is entered again only when all words of its earlier laps are    *)
(* out: what the comparison of r_cnt with the lap (lf_rwq.c 122-123) is    *)
(* for, although it looks only at the number of words read.                *)
ReuseAfterRead == \A p \in 0..(w_idx - 1) : Earlier(p) \subseteq consumed

(* An occupied slot holds the word of one of its positions, and that word  *)
(* has not been taken out; a reader about to clear a slot finds its word.  *)
SlotInv ==
  /\ consumed \subseteq 0..(w_idx - 1)
  /\ \A s \in Slots : q[s] # Empty => q[s] \in (0..(w_idx - 1)) \ consumed /\ Slot(q[s]) = s
  /\ \A r \in Readers : rpc[r] = "clear" => datum[r] = ticket[r] /\ q[Slot(ticket[r])] = ticket[r]

(* A claimed position is owned by one hook or the timer until it is filled.*)
ClaimInv ==
  /\ \A w \in Writers : HookPending(w) =>
       wi[w] \in (0..(w_idx - 1)) \ consumed /\ q[Slot(wi[w])] # wi[w]
  /\ TimerPending => si \in (0..(w_idx - 1)) \ consumed /\ q[Slot(si)] # si
  /\ \A v, w \in Writers : v # w /\ HookPending(v) /\ HookPending(w) => wi[v] # wi[w]
  /\ \A w \in Writers : HookPending(w) /\ TimerPending => wi[w] # si
=============================================================================
