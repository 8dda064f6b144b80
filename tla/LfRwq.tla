------------------------------- MODULE LfRwq -------------------------------
(***************************************************************************)
(* The lock-free receive queue of the kernel module (lf_rwq.c) with its    *)
(* three kinds of clients: hooks that enqueue packets (lfrwq_inq), receive *)
(* threads that obtain read permits, dequeue and publish how much they     *)
(* read (the loop of packet_rcv_process), and the timer that pads a        *)
(* half-filled block (wireway_packet_timer, lfrwq_soft_inq).               *)
(*                                                                         *)
(* Every access to shared memory is a step of its own.  A queued word is   *)
(* named by the position its cmpxchg claimed, so that a reader can tell    *)
(* whether it was handed the word that belongs to its ticket; the 0 of an  *)
(* empty slot is Empty.  Masks and shifts by powers of two are % and \div. *)
(***************************************************************************)
EXTENDS Integers, FiniteSets

CONSTANTS
  Writers,     \* hooks running lfrwq_inq at the same time
  Readers,     \* receive threads
  BlkLen,      \* slots of a block (blk_len)
  BlkCnt,      \* blocks of the queue (blk_cnt)
  Suggest,     \* permits a thread asks for at once (r_pmt_sgest)
  QuietTicks,  \* ticks without a new packet before the timer pads (5)
  IntHalf,     \* 2^31: the timer keeps w_idx in an int
  MaxW         \* BOUND: no new lfrwq_inq starts once w_idx reaches MaxW

ASSUME WritersAssumption == IsFiniteSet(Writers)
ASSUME ReadersAssumption == IsFiniteSet(Readers) /\ Readers # {}
ASSUME GeometryAssumption ==
  /\ BlkLen \in Nat \ {0}
  /\ BlkCnt \in Nat \ {0}
  /\ Suggest \in 1..BlkLen
ASSUME TimerAssumption == QuietTicks \in Nat /\ IntHalf \in Nat \ {0}
ASSUME BoundAssumption == MaxW \in Nat

VARIABLES
  w_idx, r_idx,    \* next position to claim, next ticket to hand out
  q,               \* the slots
  r_cnt,           \* per block: reads published so far
  r_permit,        \* permits not yet taken; transiently negative
  dbg_p_total,     \* permits ever issued
  consumed,        \* history: positions whose word a reader has taken out
  wpc, wi,         \* hook: control point, its local w_idx
  rpc, left, pmt, ticket, datum, read_cnt, local_idx,   \* receive thread
  seen, quiet,     \* timer statics: local_w_idx, local_count
  spc, si, snum    \* lfrwq_soft_inq: control point, w_idx, w_num

queueVars  == <<w_idx, r_idx, q, r_cnt, r_permit, dbg_p_total, consumed>>
writerVars == <<wpc, wi>>
readerVars == <<rpc, left, pmt, ticket, datum, read_cnt, local_idx>>
timerVars  == <<seen, quiet, spc, si, snum>>
vars == <<queueVars, writerVars, readerVars, timerVars>>

-----------------------------------------------------------------------------
QLen  == BlkLen * BlkCnt
Slots == 0..(QLen - 1)
Blks  == 0..(BlkCnt - 1)
Empty == -1

Slot(p)   == p % QLen
Lap(p)    == p \div QLen
Blk(p)    == (p % QLen) \div BlkLen
Starts(p) == (p % QLen) % BlkLen = 0

\* MUTANT: the room test forgets that lap n needs n complete reads.
RoomForOneLapLate(p) == r_cnt[Blk(p)] \div BlkLen + 1 >= Lap(p)

\* The room test of both enqueue paths: all earlier laps of the block are read.
RoomFor(p) == r_cnt[Blk(p)] \div BlkLen >= Lap(p)

\* MUTANT: a two-bit local_w_idx.
AsTwoBits(x) == ((x + 2) % 4) - 2

\* Conversion of a u64 to the timer's int; the result may be negative, and then
\* (converted back to u64) equals no index the queue reaches.
AsInt(x) == ((x + IntHalf) % (2 * IntHalf)) - IntHalf

\* MUTANT: one filler too many.
PadLenPlusOne(p) == BlkLen - (Slot(p) % BlkLen) + 1

\* Fillers from position p to the end of its block (w_num).
PadLen(p) == BlkLen - (Slot(p) % BlkLen)

\* MUTANT: no permits are taken for one.
NothingLeftStrict(n) == n < 0

\* lfrwq_get_rpermit's "left + suggest <= 0" for a permit count of n.
NothingLeft(n) == n <= 0

\* MUTANT: the excess of a partial grant stays with the caller.
ExcessKept(l) == 0

\* What a partial grant gives back, for a remainder of l < 0 permits.
Excess(l) == -l

\* MUTANT: one read more than permitted.
MoreOrPublishLate(n) == IF n >= 0 THEN "ticket" ELSE "publish"

\* Where a thread goes on with n permits in hand.
MoreOrPublish(n) == IF n > 0 THEN "ticket" ELSE "publish"

Init ==
  /\ w_idx = 0 /\ r_idx = 0
  /\ q = [s \in Slots |-> Empty]
  /\ r_cnt = [b \in Blks |-> 0]
  /\ r_permit = 0 /\ dbg_p_total = 0
  /\ consumed = {}
  /\ wpc = [w \in Writers |-> "idle"] /\ wi = [w \in Writers |-> 0]
  /\ rpc = [r \in Readers |-> "take"]
  /\ left = [r \in Readers |-> 0] /\ pmt = [r \in Readers |-> 0]
  /\ ticket = [r \in Readers |-> 0] /\ datum = [r \in Readers |-> Empty]
  /\ read_cnt = [r \in Readers |-> 0] /\ local_idx = [r \in Readers |-> 0]
  /\ seen = 1 /\ quiet = 0
  /\ spc = "idle" /\ si = 0 /\ snum = 0

-----------------------------------------------------------------------------
(* lfrwq_inq, run by a hook.  Locals that are dead are reset to 0.         *)

\* Reads w_idx: at the call, and again after a cmpxchg that lost.
InqLoad(w) ==
  /\ \/ wpc[w] = "idle" /\ w_idx < MaxW
     \/ wpc[w] = "retry"
  /\ wi' = [wi EXCEPT ![w] = w_idx]
  /\ wpc' = [wpc EXCEPT ![w] = "check"]
  /\ UNCHANGED <<queueVars, readerVars, timerVars>>

\* Reads the block's read count; a full queue makes the call return -1.
InqCheck(w) ==
  /\ wpc[w] = "check"
  /\ \/ /\ RoomFor(wi[w])
        /\ wpc' = [wpc EXCEPT ![w] = "claim"]
        /\ UNCHANGED wi
     \/ /\ ~RoomFor(wi[w])
        /\ wpc' = [wpc EXCEPT ![w] = "idle"]
        /\ wi' = [wi EXCEPT ![w] = 0]
  /\ UNCHANGED <<queueVars, readerVars, timerVars>>

\* The cmpxchg that claims the position, or loses it to another writer.
InqClaim(w) ==
  /\ wpc[w] = "claim"
  /\ \/ /\ w_idx = wi[w]
        /\ w_idx' = w_idx + 1
        /\ wpc' = [wpc EXCEPT ![w] = "test"]
     \/ /\ w_idx # wi[w]
        /\ wpc' = [wpc EXCEPT ![w] = "retry"]
        /\ UNCHANGED w_idx
  /\ UNCHANGED <<r_idx, q, r_cnt, r_permit, dbg_p_total, consumed, wi,
                 readerVars, timerVars>>

\* "inq overlap find": the claimed slot is still occupied, the call returns -1.
InqTest(w) ==
  /\ wpc[w] = "test"
  /\ \/ /\ q[Slot(wi[w])] = Empty
        /\ wpc' = [wpc EXCEPT ![w] = "store"]
        /\ UNCHANGED wi
     \/ /\ q[Slot(wi[w])] # Empty
        /\ wpc' = [wpc EXCEPT ![w] = "idle"]
        /\ wi' = [wi EXCEPT ![w] = 0]
  /\ UNCHANGED <<queueVars, readerVars, timerVars>>

InqStore(w) ==
  /\ wpc[w] = "store"
  /\ q' = [q EXCEPT ![Slot(wi[w])] = wi[w]]
  /\ \/ /\ Starts(wi[w])
        /\ wpc' = [wpc EXCEPT ![w] = "alloc"]
        /\ UNCHANGED wi
     \/ /\ ~Starts(wi[w])
        /\ wpc' = [wpc EXCEPT ![w] = "idle"]
        /\ wi' = [wi EXCEPT ![w] = 0]
  /\ UNCHANGED <<w_idx, r_idx, r_cnt, r_permit, dbg_p_total, consumed,
                 readerVars, timerVars>>

\* lfrwq_pre_alloc: the first word of a block brings permits for all of it.
InqAlloc(w) ==
  /\ wpc[w] = "alloc"
  /\ r_permit' = r_permit + BlkLen
  /\ dbg_p_total' = dbg_p_total + BlkLen
  /\ wpc' = [wpc EXCEPT ![w] = "idle"]
  /\ wi' = [wi EXCEPT ![w] = 0]
  /\ UNCHANGED <<w_idx, r_idx, q, r_cnt, consumed, readerVars, timerVars>>

-----------------------------------------------------------------------------
(* lfrwq_get_rpermit                                                       *)

PermitTake(r) ==
  /\ rpc[r] = "take"
  /\ r_permit' = r_permit - Suggest
  /\ \/ /\ NothingLeft(r_permit)
        /\ rpc' = [rpc EXCEPT ![r] = "back"]
        /\ UNCHANGED <<left, pmt>>
     \/ /\ ~NothingLeft(r_permit) /\ r_permit < Suggest
        /\ rpc' = [rpc EXCEPT ![r] = "trim"]
        /\ left' = [left EXCEPT ![r] = r_permit - Suggest]
        /\ UNCHANGED pmt
     \/ /\ ~NothingLeft(r_permit) /\ r_permit >= Suggest
        /\ rpc' = [rpc EXCEPT ![r] = "ticket"]
        /\ pmt' = [pmt EXCEPT ![r] = Suggest]
        /\ UNCHANGED left
  /\ UNCHANGED <<w_idx, r_idx, q, r_cnt, dbg_p_total, consumed, ticket, datum,
                 read_cnt, local_idx, writerVars, timerVars>>

\* Nothing to take: the permits go back.  A positive result retries at once, any
\* other makes the call return 0, and the thread's loop calls it again.
PermitBack(r) ==
  /\ rpc[r] = "back"
  /\ r_permit' = r_permit + Suggest
  /\ rpc' = [rpc EXCEPT ![r] = "take"]
  /\ UNCHANGED <<w_idx, r_idx, q, r_cnt, dbg_p_total, consumed, left, pmt,
                 ticket, datum, read_cnt, local_idx, writerVars, timerVars>>

\* Fewer than Suggest were left: the excess goes back, the rest is granted.
PermitTrim(r) ==
  /\ rpc[r] = "trim"
  /\ r_permit' = r_permit + Excess(left[r])
  /\ pmt' = [pmt EXCEPT ![r] = left[r] + Suggest]
  /\ left' = [left EXCEPT ![r] = 0]
  /\ rpc' = [rpc EXCEPT ![r] = "ticket"]
  /\ UNCHANGED <<w_idx, r_idx, q, r_cnt, dbg_p_total, consumed, ticket, datum,
                 read_cnt, local_idx, writerVars, timerVars>>

-----------------------------------------------------------------------------
(* lfrwq_deq and the accounting of packet_rcv_process around it            *)

DeqTicket(r) ==
  /\ rpc[r] = "ticket"
  /\ ticket' = [ticket EXCEPT ![r] = r_idx]
  /\ r_idx' = r_idx + 1
  /\ rpc' = [rpc EXCEPT ![r] = "spin"]
  /\ UNCHANGED <<w_idx, q, r_cnt, r_permit, dbg_p_total, consumed, left, pmt,
                 datum, read_cnt, local_idx, writerVars, timerVars>>

\* The read that ends the busy wait on the slot.
DeqLoad(r) ==
  /\ rpc[r] = "spin"
  /\ q[Slot(ticket[r])] # Empty
  /\ datum' = [datum EXCEPT ![r] = q[Slot(ticket[r])]]
  /\ rpc' = [rpc EXCEPT ![r] = "clear"]
  /\ UNCHANGED <<queueVars, left, pmt, ticket, read_cnt, local_idx, writerVars,
                 timerVars>>

\* The thread's accounting of a word read in block b: one permit less, one read
\* more.  A read in another block than the last makes it publish the old count.
Account(r, b) ==
  /\ pmt' = [pmt EXCEPT ![r] = @ - 1]
  /\ \/ /\ read_cnt[r] = 0 \/ b = local_idx[r]
        /\ read_cnt' = [read_cnt EXCEPT ![r] = @ + 1]
        /\ local_idx' = [local_idx EXCEPT ![r] = b]
        /\ ticket' = [ticket EXCEPT ![r] = 0]
        /\ rpc' = [rpc EXCEPT ![r] = MoreOrPublish(pmt[r] - 1)]
     \/ /\ read_cnt[r] # 0 /\ b # local_idx[r]
        /\ rpc' = [rpc EXCEPT ![r] = "turn"]
        /\ UNCHANGED <<read_cnt, local_idx, ticket>>

\* Empties the slot and returns its block number.
DeqClear(r) ==
  /\ rpc[r] = "clear"
  /\ q' = [q EXCEPT ![Slot(ticket[r])] = Empty]
  /\ consumed' = consumed \cup {datum[r]}
  /\ datum' = [datum EXCEPT ![r] = Empty]
  /\ Account(r, Blk(ticket[r]))
  /\ UNCHANGED <<w_idx, r_idx, r_cnt, r_permit, dbg_p_total, left, writerVars,
                 timerVars>>

\* MUTANT: the count of the block that was left is booked to the new one.
TurnedToBlock(r) == Blk(ticket[r])

\* The block whose reads the thread has counted.
CountedBlock(r) == local_idx[r]

\* lfrwq_add_rcnt for the block that was left.
PublishTurn(r) ==
  /\ rpc[r] = "turn"
  /\ r_cnt' = [r_cnt EXCEPT ![CountedBlock(r)] = @ + read_cnt[r]]
  /\ read_cnt' = [read_cnt EXCEPT ![r] = 1]
  /\ local_idx' = [local_idx EXCEPT ![r] = Blk(ticket[r])]
  /\ ticket' = [ticket EXCEPT ![r] = 0]
  /\ rpc' = [rpc EXCEPT ![r] = MoreOrPublish(pmt[r])]
  /\ UNCHANGED <<w_idx, r_idx, q, r_permit, dbg_p_total, consumed, left, pmt,
                 datum, writerVars, timerVars>>

\* lfrwq_add_rcnt when the permits are used up.
PublishRest(r) ==
  /\ rpc[r] = "publish"
  /\ r_cnt' = [r_cnt EXCEPT ![CountedBlock(r)] = @ + read_cnt[r]]
  /\ read_cnt' = [read_cnt EXCEPT ![r] = 0]
  /\ local_idx' = [local_idx EXCEPT ![r] = 0]
  /\ rpc' = [rpc EXCEPT ![r] = "take"]
  /\ UNCHANGED <<w_idx, r_idx, q, r_permit, dbg_p_total, consumed, left, pmt,
                 ticket, datum, writerVars, timerVars>>

-----------------------------------------------------------------------------
(* wireway_packet_timer and lfrwq_soft_inq                                 *)

\* A tick that sees w_idx moved, or not quiet for long enough.
TickWatch ==
  /\ spc = "idle"
  /\ \/ seen # w_idx /\ seen' = AsInt(w_idx) /\ quiet' = 0
     \/ seen = w_idx /\ quiet <= QuietTicks /\ quiet' = quiet + 1 /\ UNCHANGED seen
  /\ UNCHANGED <<spc, si, snum, queueVars, writerVars, readerVars>>

\* A tick that pads; soft_inq returns at once when w_idx starts a block.
TickPad ==
  /\ spc = "idle"
  /\ seen = w_idx /\ quiet > QuietTicks
  /\ quiet' = 0
  /\ \/ Starts(seen) /\ UNCHANGED <<spc, si>>
     \/ ~Starts(seen) /\ spc' = "check" /\ si' = seen
  /\ UNCHANGED <<seen, snum, queueVars, writerVars, readerVars>>

SoftCheck ==
  /\ spc = "check"
  /\ \/ /\ RoomFor(si)
        /\ spc' = "claim"
        /\ snum' = PadLen(si)
        /\ UNCHANGED si
     \/ ~RoomFor(si) /\ spc' = "idle" /\ si' = 0 /\ UNCHANGED snum
  /\ UNCHANGED <<seen, quiet, queueVars, writerVars, readerVars>>

\* The cmpxchg; losing it ends the padding.
SoftClaim ==
  /\ spc = "claim"
  /\ \/ w_idx = si /\ w_idx' = w_idx + 1 /\ spc' = "test" /\ UNCHANGED <<si, snum>>
     \/ w_idx # si /\ spc' = "idle" /\ si' = 0 /\ snum' = 0 /\ UNCHANGED w_idx
  /\ UNCHANGED <<seen, quiet, r_idx, q, r_cnt, r_permit, dbg_p_total, consumed,
                 writerVars, readerVars>>

SoftTest ==
  /\ spc = "test"
  /\ \/ q[Slot(si)] = Empty /\ spc' = "store" /\ UNCHANGED <<si, snum>>
     \/ q[Slot(si)] # Empty /\ spc' = "idle" /\ si' = 0 /\ snum' = 0
  /\ UNCHANGED <<seen, quiet, queueVars, writerVars, readerVars>>

\* Stores the filler word and goes on until w_num runs out.
SoftStore ==
  /\ spc = "store"
  /\ q' = [q EXCEPT ![Slot(si)] = si]
  /\ snum' = snum - 1
  /\ \/ snum - 1 > 0 /\ spc' = "claim" /\ si' = si + 1
     \/ snum - 1 = 0 /\ spc' = "idle" /\ si' = 0
  /\ UNCHANGED <<seen, quiet, w_idx, r_idx, r_cnt, r_permit, dbg_p_total,
                 consumed, writerVars, readerVars>>

-----------------------------------------------------------------------------
\* The steps of a call of lfrwq_inq after its first read.
Hook(w) ==
  \/ wpc[w] = "retry" /\ InqLoad(w)
  \/ InqCheck(w) \/ InqClaim(w) \/ InqTest(w) \/ InqStore(w) \/ InqAlloc(w)

Thread(r) ==
  \/ PermitTake(r) \/ PermitBack(r) \/ PermitTrim(r)
  \/ DeqTicket(r) \/ DeqLoad(r) \/ DeqClear(r)
  \/ PublishTurn(r) \/ PublishRest(r)

Timer == TickWatch \/ TickPad \/ SoftCheck \/ SoftClaim \/ SoftTest \/ SoftStore

Next ==
  \/ \E w \in Writers : InqLoad(w) \/ Hook(w)
  \/ \E r \in Readers : Thread(r)
  \/ Timer

Spec == Init /\ [][Next]_vars

(* A hook runs with interrupts off and finishes; the kernel schedules the  *)
(* threads (they are kept awake here; RcvPath adds sleeping) and re-arms   *)
(* the timer.  No fairness asks for new packets.                           *)
FairSpec ==
  /\ Spec
  /\ \A w \in Writers : WF_vars(Hook(w))
  /\ \A r \in Readers : WF_vars(Thread(r))
  /\ WF_vars(Timer)
=============================================================================
