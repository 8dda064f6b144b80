---------------------------- MODULE LfRwqProps ----------------------------
(* The correctness properties of the receive queue (LfRwq).                *)
EXTENDS LfRwq, Totals

-----------------------------------------------------------------------------
\* Permits a thread has subtracted from r_permit and will add back.
Debt(r) == CASE rpc[r] = "back" -> Suggest
             [] rpc[r] = "trim" -> -left[r]
             [] OTHER -> 0

\* Permits a thread was granted and has not turned into a ticket.
InHand(r) == CASE rpc[r] = "trim" -> left[r] + Suggest
               [] rpc[r] \in {"spin", "clear"} -> pmt[r] - 1
               [] OTHER -> pmt[r]

Owed == Total(Readers, Suggest, [r \in Readers |-> Debt(r)])
Held == Total(Readers, Suggest, [r \in Readers |-> InHand(r)])

\* Hooks that claimed the first position of a block and have not yet issued its permits.
Openers == {w \in Writers : wpc[w] \in {"test", "store", "alloc"} /\ Starts(wi[w])}

\* Blocks of which at least one position is claimed, over all laps.
BlocksClaimed == (w_idx + BlkLen - 1) \div BlkLen

\* Words of block b a thread has taken out and not yet published in r_cnt.
Unpublished(b, r) ==
  (IF local_idx[r] = b THEN read_cnt[r] ELSE 0)
    + (IF rpc[r] = "turn" /\ Blk(ticket[r]) = b THEN 1 ELSE 0)

-----------------------------------------------------------------------------
(* Type correctness of every variable of the queue, its hooks, threads and *)
(* timer (lf_rwq.h 6-23 and the locals of the functions).                  *)
TypeOK ==
  /\ w_idx \in Nat /\ r_idx \in Nat
  /\ q \in [Slots -> Nat \cup {Empty}]
  /\ r_cnt \in [Blks -> Nat]
  /\ r_permit \in Int /\ dbg_p_total \in Nat
  /\ consumed \subseteq Nat \cup {Empty}
  /\ wpc \in [Writers -> {"idle", "check", "claim", "retry", "test", "store", "alloc"}]
  /\ wi \in [Writers -> Nat]
  /\ rpc \in [Readers -> {"take", "back", "trim", "ticket", "spin", "clear",
                          "turn", "publish"}]
  /\ left \in [Readers -> (-Suggest)..0]
  /\ pmt \in [Readers -> 0..Suggest]
  /\ ticket \in [Readers -> Nat]
  /\ datum \in [Readers -> Nat \cup {Empty}]
  /\ read_cnt \in [Readers -> 0..Suggest]
  /\ local_idx \in [Readers -> Blks]
  /\ seen \in Int /\ quiet \in 0..(QuietTicks + 1)
  /\ spc \in {"idle", "check", "claim", "test", "store"}
  /\ si \in Nat /\ snum \in 0..BlkLen

(* What the locals of the threads and of the timer are worth at each       *)
(* control point: a thread polls with empty hands and an empty count,      *)
(* draws tickets only on a permit, and counts no more reads than it was    *)
(* granted; the timer stores fillers only while w_num says so.  This is    *)
(* what makes TypeOK inductive.                                            *)
LocalsOK ==
  /\ \A r \in Readers :
       /\ rpc[r] \in {"take", "back", "trim"} => pmt[r] = 0 /\ read_cnt[r] = 0
       /\ rpc[r] = "trim" => left[r] \in (1 - Suggest)..(-1)
       /\ rpc[r] \in {"ticket", "spin", "clear"} => pmt[r] >= 1
       /\ rpc[r] = "publish" => pmt[r] = 0
       /\ pmt[r] + read_cnt[r] + (IF rpc[r] = "turn" THEN 1 ELSE 0) <= Suggest
  /\ spc \in {"claim", "test", "store"} => snum >= 1

(* lfrwq_get_rpermit's subtract-then-repair loses and invents no permit:   *)
(* what is left, what threads owe back, what they hold and what became     *)
(* tickets is what lfrwq_pre_alloc issued, at every step of every thread.  *)
PermitLedger == r_permit + Owed + Held + r_idx = dbg_p_total

(* What the threads owe covers any shortfall of r_permit, so a grant is    *)
(* always backed by permits that were issued.                              *)
PermitsBacked == r_permit + Owed >= 0

(* No thread waits on a slot of a block nobody has opened: tickets never   *)
(* run past the permits issued (the busy wait of lfrwq_deq, lines 40-43).  *)
TicketsCovered == r_idx <= dbg_p_total

(* Every block that was entered got its permits from exactly one hook, or  *)
(* that hook is still on its way: losing the first word's cmpxchg, a full  *)
(* queue or the timer's padding never opens a block twice or not at all.   *)
OpenedOnce == dbg_p_total + BlkLen * Cardinality(Openers) = BlkLen * BlocksClaimed

(* "inq overlap find" cannot happen, in a hook or in the timer: whoever    *)
(* claimed a position finds its slot empty until it fills it itself.       *)
NoOverlap ==
  /\ \A w \in Writers : wpc[w] \in {"test", "store"} => q[Slot(wi[w])] = Empty
  /\ spc \in {"test", "store"} => q[Slot(si)] = Empty

(* The word a thread takes out is the word of its ticket's position, not   *)
(* one of an earlier or later lap that uses the same slot.                 *)
OwnWord == \A r \in Readers : rpc[r] = "clear" => datum[r] = ticket[r]

(* r_cnt, which decides whether a block may be reused, plus the counts the *)
(* threads still carry is the number of words read from the block.  A      *)
(* count booked to the wrong block would free a block with unread words.   *)
ReadLedger ==
  \A b \in Blks :
    r_cnt[b] + Total(Readers, Suggest, [r \in Readers |-> Unpublished(b, r)])
      = Cardinality({p \in consumed : Blk(p) = b})

(* The queue implements RcvQueue: bounded, no loss, no duplication, and    *)
(* reordering limited by the number of threads.                            *)
Abstract == INSTANCE RcvQueue
  WITH Capacity <- QLen, Unit <- BlkLen, Lanes <- Cardinality(Readers),
       accepted <- w_idx, delivered <- consumed
Refines == Abstract!QSpec

(* A ticket that was drawn is served although no packet may ever come      *)
(* again: the busy wait on an unwritten slot is ended by the timer, which  *)
(* pads the block (wireway_dev.c 258-275).                                 *)
TicketServed == \A p \in 0..(MaxW - 1) : r_idx > p ~> p \in consumed

(* Every word that was accepted is taken out eventually (of RcvPath, where *)
(* threads that poll in vain go to sleep; here they may keep the permits   *)
(* from one another for ever).                                             *)
Drained == \A p \in 0..(MaxW - 1) : w_idx > p ~> p \in consumed
=============================================================================
