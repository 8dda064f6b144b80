--------------------------- MODULE RcvPath_proofs ---------------------------
(* Theorems on the receive queue and on the receive path that it is part   *)
(* of.  Those on the queue hold for any number of hooks and threads, any   *)
(* geometry and any timer, from the queue's own assumptions: its types and *)
(* permits; then that no word is overwritten, lost to another lap or read  *)
(* twice, and that the queue implements RcvQueue.  Those on the path hold  *)
(* for any number of CPUs, any of them with hooks.                         *)
EXTENDS RcvPath, LfRwqInv, PacketWake_proofs, FiniteSetTheorems, FunctionTheorems

-----------------------------------------------------------------------------
(* Facts about Total, the sum of a function over a finite set of keys.     *)

(* The tokens of a function are finitely many, so its total is a number.   *)
LEMMA TotalType ==
  ASSUME NEW S, IsFiniteSet(S), NEW N \in Nat, NEW f
  PROVE  IsFiniteSet(Tokens(S, N, f)) /\ Total(S, N, f) \in Nat
  <1>1. IsFiniteSet(1..N)
    BY FS_Interval
  <1>2. IsFiniteSet(S \X (1..N))
    BY <1>1, FS_Product
  <1>3. Tokens(S, N, f) \subseteq S \X (1..N)
    BY DEF Tokens
  <1>4. IsFiniteSet(Tokens(S, N, f))
    BY <1>2, <1>3, FS_Subset
  <1>5. QED
    BY <1>4, FS_CardinalityType DEF Total

(* Functions that agree on the keys have the same total.                   *)
LEMMA TotalSame ==
  ASSUME NEW S, NEW N \in Nat, NEW f, NEW g, \A x \in S : f[x] = g[x]
  PROVE  Total(S, N, f) = Total(S, N, g)
  BY DEF Total, Tokens

(* A function that is 0 everywhere has total 0.                            *)
LEMMA TotalZero ==
  ASSUME NEW S, NEW N \in Nat, NEW f, \A x \in S : f[x] = 0
  PROVE  Total(S, N, f) = 0
  <1>1. Tokens(S, N, f) = {}
    BY DEF Tokens
  <1>2. QED
    BY <1>1, FS_EmptySet DEF Total

(* n pairs share a first component.                                        *)
LEMMA PairsOfOneKey ==
  ASSUME NEW k, NEW n \in Nat
  PROVE  IsFiniteSet({k} \X (1..n)) /\ Cardinality({k} \X (1..n)) = n
  <1> DEFINE A == {k}
             B == 1..n
  <1>1. IsFiniteSet(A) /\ Cardinality(A) = 1
    BY FS_Singleton
  <1>2. IsFiniteSet(B) /\ Cardinality(B) = n
    BY FS_Interval
  <1> HIDE DEF A, B
  <1>3. IsFiniteSet(A \X B) /\ Cardinality(A \X B) = Cardinality(A) * Cardinality(B)
    BY <1>1, <1>2, FS_Product
  <1>4. IsFiniteSet(A \X B) /\ Cardinality(A \X B) = n
    BY <1>1, <1>2, <1>3
  <1>5. QED
    BY <1>4 DEF A, B

(* The cardinality of a disjoint union.                                    *)
LEMMA DisjointUnion ==
  ASSUME NEW A, NEW B, IsFiniteSet(A), IsFiniteSet(B), A \cap B = {}
  PROVE  Cardinality(A \cup B) = Cardinality(A) + Cardinality(B)
  <1>1. Cardinality(A \cap B) = 0
    BY FS_EmptySet
  <1>2. Cardinality(A) \in Nat /\ Cardinality(B) \in Nat
    BY FS_CardinalityType
  <1>3. Cardinality(A \cup B) = Cardinality(A) + Cardinality(B) - Cardinality(A \cap B)
    BY FS_Union
  <1>4. QED
    BY <1>1, <1>2, <1>3

(* One key contributes its value: the rest of the tokens are untouched.    *)
LEMMA TotalSplit ==
  ASSUME NEW S, IsFiniteSet(S), NEW N \in Nat, NEW f \in [S -> 0..N], NEW k \in S
  PROVE  Total(S, N, f) = Cardinality({x \in Tokens(S, N, f) : x[1] # k}) + f[k]
  <1> DEFINE Rest == {x \in Tokens(S, N, f) : x[1] # k}
             Own  == {k} \X (1..f[k])
  <1>1. IsFiniteSet(Rest)
    BY TotalType, FS_Subset
  <1>2. IsFiniteSet(Own) /\ Cardinality(Own) = f[k]
    <2>1. f[k] \in Nat
      OBVIOUS
    <2>2. QED
      BY <2>1, PairsOfOneKey
  <1>3. Tokens(S, N, f) = Rest \cup Own
    <2>1. Own \subseteq Tokens(S, N, f)
      BY DEF Tokens
    <2>2. ASSUME NEW x \in Tokens(S, N, f), x[1] = k
          PROVE  x \in Own
      BY <2>2 DEF Tokens
    <2>3. QED
      BY <2>1, <2>2
  <1>4. Rest \cap Own = {}
    OBVIOUS
  <1> HIDE DEF Rest, Own
  <1>5. Cardinality(Rest \cup Own) = Cardinality(Rest) + Cardinality(Own)
    BY <1>1, <1>2, <1>4, DisjointUnion
  <1>6. Total(S, N, f) = Cardinality(Rest) + f[k]
    BY <1>2, <1>3, <1>5 DEF Total
  <1>7. QED
    BY <1>6 DEF Rest

(* Changing the value of one key changes the total by the difference.      *)
LEMMA TotalUpdate ==
  ASSUME NEW S, IsFiniteSet(S), NEW N \in Nat,
         NEW f \in [S -> 0..N], NEW g \in [S -> 0..N],
         NEW k \in S, \A x \in S \ {k} : g[x] = f[x]
  PROVE  Total(S, N, g) = Total(S, N, f) - f[k] + g[k]
  <1> DEFINE Rest(h) == {x \in Tokens(S, N, h) : x[1] # k}
  <1>1. Rest(g) = Rest(f)
    BY DEF Tokens
  <1>2. Cardinality(Rest(f)) \in Nat
    BY TotalType, FS_Subset, FS_CardinalityType
  <1>3. Total(S, N, f) = Cardinality(Rest(f)) + f[k]
    BY TotalSplit
  <1>4. Total(S, N, g) = Cardinality(Rest(g)) + g[k]
    BY TotalSplit
  <1>5. f[k] \in Nat /\ g[k] \in Nat
    OBVIOUS
  <1> HIDE DEF Rest
  <1>6. QED
    BY <1>1, <1>2, <1>3, <1>4, <1>5

-----------------------------------------------------------------------------
(* Positions map to slots and blocks of the queue.                         *)

\* The queue has at least one slot.
LEMMA QLenPositive == QLen \in Nat \ {0}
  BY GeometryAssumption DEF QLen

(* The slot of a position is a slot of the queue.                          *)
LEMMA SlotType ==
  ASSUME NEW p \in Nat
  PROVE  Slot(p) \in Slots /\ Slot(p) \in Nat
  BY QLenPositive DEF Slot, Slots

(* A slot number below a * b is in one of the first b groups of a slots.   *)
LEMMA GroupBound ==
  ASSUME NEW a \in Nat \ {0}, NEW b \in Nat \ {0}, NEW s \in 0..(a * b - 1)
  PROVE  s \div a \in 0..(b - 1)
  <1> DEFINE d == s \div a
  <1>1. d \in Nat /\ a * d <= s
    OBVIOUS
  <1>2. ASSUME d >= b
        PROVE  FALSE
    <2>1. a * d >= a * b
      BY <1>1, <1>2
    <2>2. QED
      BY <1>1, <2>1
  <1>3. QED
    BY <1>1, <1>2

(* The block of a position is a block of the queue.                        *)
LEMMA BlkType ==
  ASSUME NEW p \in Nat
  PROVE  Blk(p) \in Blks
  <1>1. p % QLen \in 0..(BlkLen * BlkCnt - 1)
    BY SlotType DEF Slot, Slots, QLen
  <1>2. QED
    BY <1>1, GroupBound, GeometryAssumption DEF Blk, Blks

-----------------------------------------------------------------------------
(* Type correctness.                                                       *)

IInv == TypeOK /\ LocalsOK

\* The initial values have their types.
LEMMA InitTyped == Init => IInv
  <1> SUFFICES ASSUME Init PROVE IInv
    OBVIOUS
  <1> USE GeometryAssumption, TimerAssumption
  <1>1. 0 \in Blks /\ 0 \in 0..Suggest /\ 0 \in (-Suggest)..0
    BY DEF Blks
  <1>2. TypeOK
    BY <1>1 DEF Init, TypeOK, Empty
  <1>3. LocalsOK
    BY DEF Init, LocalsOK
  <1>4. QED
    BY <1>2, <1>3 DEF IInv

(* The enqueue path.                                                       *)
LEMMA HookTyped ==
  ASSUME IInv, NEW w \in Writers, InqLoad(w) \/ Hook(w)
  PROVE  IInv'
  <1> USE GeometryAssumption DEF IInv, TypeOK, LocalsOK, queueVars, readerVars, timerVars
  <1>1. CASE InqLoad(w)
    BY <1>1 DEF InqLoad
  <1>2. CASE InqCheck(w)
    <2>1. CASE RoomFor(wi[w])
      BY <1>2, <2>1 DEF InqCheck
    <2>2. CASE ~RoomFor(wi[w])
      <3>1. wpc' = [wpc EXCEPT ![w] = "idle"] /\ wi' = [wi EXCEPT ![w] = 0]
        BY <1>2, <2>2 DEF InqCheck
      <3>2. UNCHANGED <<queueVars, readerVars, timerVars>>
        BY <1>2 DEF InqCheck
      <3>3. QED
        BY <3>1, <3>2
    <2>3. QED
      BY <2>1, <2>2
  <1>3. CASE InqClaim(w)
    BY <1>3 DEF InqClaim
  <1>4. CASE InqTest(w)
    BY <1>4 DEF InqTest
  <1>5. CASE InqStore(w)
    <2>1. Slot(wi[w]) \in Slots
      BY SlotType
    <2>2. CASE Starts(wi[w])
      BY <1>5, <2>1, <2>2 DEF InqStore
    <2>3. CASE ~Starts(wi[w])
      BY <1>5, <2>1, <2>3 DEF InqStore
    <2>4. QED
      BY <2>2, <2>3
  <1>6. CASE InqAlloc(w)
    BY <1>6 DEF InqAlloc
  <1>7. QED
    BY <1>1, <1>2, <1>3, <1>4, <1>5, <1>6 DEF Hook

(* Permits: what lfrwq_get_rpermit leaves in its locals.                   *)
LEMMA PermitTyped ==
  ASSUME IInv, NEW r \in Readers, PermitTake(r) \/ PermitBack(r) \/ PermitTrim(r)
  PROVE  IInv'
  <1> USE GeometryAssumption
      DEF IInv, TypeOK, LocalsOK, writerVars, timerVars, NothingLeft, Excess
  <1>1. CASE PermitTake(r)
    <2>1. CASE rpc' = [rpc EXCEPT ![r] = "back"]
      BY <1>1, <2>1 DEF PermitTake
    <2>2. CASE rpc' = [rpc EXCEPT ![r] = "trim"]
      <3>1. r_permit - Suggest \in (1 - Suggest)..(-1)
        BY <1>1, <2>2 DEF PermitTake
      <3>2. /\ left' = [left EXCEPT ![r] = r_permit - Suggest] /\ pmt' = pmt
            /\ r_permit' = r_permit - Suggest /\ read_cnt' = read_cnt
            /\ pmt[r] = 0 /\ read_cnt[r] = 0
        BY <1>1, <2>2 DEF PermitTake
      <3>3. LocalsOK'
        BY <1>1, <2>2, <3>1, <3>2 DEF PermitTake
      <3>4. TypeOK'
        BY <1>1, <2>2, <3>1, <3>2 DEF PermitTake
      <3>5. QED
        BY <3>3, <3>4
    <2>3. CASE rpc' = [rpc EXCEPT ![r] = "ticket"]
      <3>1. /\ pmt' = [pmt EXCEPT ![r] = Suggest] /\ left' = left
            /\ r_permit' = r_permit - Suggest /\ read_cnt' = read_cnt
            /\ pmt[r] = 0 /\ read_cnt[r] = 0
        BY <1>1, <2>3 DEF PermitTake
      <3>2. LocalsOK'
        BY <1>1, <2>3, <3>1 DEF PermitTake
      <3>3. TypeOK'
        BY <1>1, <2>3, <3>1 DEF PermitTake
      <3>4. QED
        BY <3>2, <3>3
    <2>4. QED
      BY <1>1, <2>1, <2>2, <2>3 DEF PermitTake
  <1>2. CASE PermitBack(r)
    BY <1>2 DEF PermitBack
  <1>3. CASE PermitTrim(r)
    BY <1>3 DEF PermitTrim
  <1>4. QED
    BY <1>1, <1>2, <1>3

(* Dequeueing and publishing.                                              *)
LEMMA DequeueTyped ==
  ASSUME IInv, NEW r \in Readers,
         DeqTicket(r) \/ DeqLoad(r) \/ DeqClear(r) \/ PublishTurn(r) \/ PublishRest(r)
  PROVE  IInv'
  <1> USE GeometryAssumption
      DEF IInv, TypeOK, LocalsOK, queueVars, writerVars, timerVars
  <1>0. Slot(ticket[r]) \in Slots /\ Blk(ticket[r]) \in Blks
    BY SlotType, BlkType
  <1>1. CASE DeqTicket(r)
    BY <1>1 DEF DeqTicket
  <1>2. CASE DeqLoad(r)
    BY <1>0, <1>2 DEF DeqLoad
  <1>3. CASE DeqClear(r)
    <2> DEFINE b == Blk(ticket[r])
               n == pmt[r] - 1
    <2>1. n \in 0..(Suggest - 1) /\ pmt' = [pmt EXCEPT ![r] = n]
      BY <1>3 DEF DeqClear, Account
    <2>2. q' \in [Slots -> Nat \cup {Empty}] /\ consumed' \subseteq Nat \cup {Empty}
      BY <1>0, <1>3 DEF DeqClear, Account
    <2>3. CASE read_cnt[r] = 0 \/ b = local_idx[r]
      <3>1. /\ read_cnt' = [read_cnt EXCEPT ![r] = @ + 1]
            /\ local_idx' = [local_idx EXCEPT ![r] = b]
            /\ ticket' = [ticket EXCEPT ![r] = 0]
            /\ rpc' = [rpc EXCEPT ![r] = MoreOrPublish(n)]
        BY <1>3, <2>3 DEF DeqClear, Account
      <3>2. read_cnt[r] + 1 \in 0..Suggest /\ n + read_cnt[r] + 1 <= Suggest
        BY <1>3, <2>1 DEF DeqClear, Account
      <3>3. MoreOrPublish(n) \in {"ticket", "publish"} /\ (MoreOrPublish(n) = "ticket" <=> n > 0)
        BY <2>1 DEF MoreOrPublish
      <3>4. TypeOK'
        BY <1>0, <1>3, <2>1, <2>2, <3>1, <3>2, <3>3 DEF DeqClear, Account
      <3>5. UNCHANGED <<left, spc, snum>>
        BY <1>3 DEF DeqClear, Account
      <3>6. CASE n > 0
        <4>1. rpc' = [rpc EXCEPT ![r] = "ticket"]
          BY <3>1, <3>6 DEF MoreOrPublish
        <4>2. LocalsOK'
          BY <2>1, <3>1, <3>2, <3>5, <3>6, <4>1
        <4>3. QED
          BY <3>4, <4>2
      <3>7. CASE n = 0
        <4>1. rpc' = [rpc EXCEPT ![r] = "publish"]
          BY <3>1, <3>7 DEF MoreOrPublish
        <4>2. LocalsOK'
          BY <2>1, <3>1, <3>2, <3>5, <3>7, <4>1
        <4>3. QED
          BY <3>4, <4>2
      <3>8. QED
        BY <2>1, <3>6, <3>7
    <2>4. CASE ~(read_cnt[r] = 0 \/ b = local_idx[r])
      <3>1. /\ read_cnt' = read_cnt /\ local_idx' = local_idx /\ ticket' = ticket
            /\ rpc' = [rpc EXCEPT ![r] = "turn"]
        BY <1>3, <2>4 DEF DeqClear, Account
      <3>2. TypeOK'
        BY <1>3, <2>1, <2>2, <3>1 DEF DeqClear, Account
      <3>3. LocalsOK'
        BY <1>3, <2>1, <3>1 DEF DeqClear, Account
      <3>4. QED
        BY <3>2, <3>3
    <2>5. QED
      BY <2>3, <2>4
  <1>4. CASE PublishTurn(r)
    BY <1>0, <1>4 DEF PublishTurn, MoreOrPublish, CountedBlock
  <1>5. CASE PublishRest(r)
    <2>1. 0 \in Blks
      BY DEF Blks
    <2>2. r_cnt[local_idx[r]] + read_cnt[r] \in Nat
      OBVIOUS
    <2>3. QED
      BY <1>5, <2>1, <2>2 DEF PublishRest, CountedBlock
  <1>6. QED
    BY <1>1, <1>2, <1>3, <1>4, <1>5

(* The timer.                                                              *)
LEMMA TimerTyped ==
  ASSUME IInv, Timer
  PROVE  IInv'
  <1> USE GeometryAssumption, TimerAssumption
      DEF IInv, TypeOK, LocalsOK, queueVars, writerVars, readerVars
  <1>1. CASE TickWatch
    BY <1>1 DEF TickWatch, AsInt
  <1>2. CASE TickPad
    BY <1>2 DEF TickPad
  <1>3. CASE SoftCheck
    <2>1. PadLen(si) \in 1..BlkLen
      BY SlotType DEF PadLen
    <2>2. QED
      BY <1>3, <2>1 DEF SoftCheck
  <1>4. CASE SoftClaim
    BY <1>4 DEF SoftClaim
  <1>5. CASE SoftTest
    BY <1>5 DEF SoftTest
  <1>6. CASE SoftStore
    <2>1. Slot(si) \in Slots
      BY SlotType
    <2>2. QED
      BY <1>6, <2>1 DEF SoftStore
  <1>7. QED
    BY <1>1, <1>2, <1>3, <1>4, <1>5, <1>6 DEF Timer

\* Every step keeps types and locals.
LEMMA NextTyped == IInv /\ [Next]_vars => IInv'
  <1> SUFFICES ASSUME IInv, [Next]_vars PROVE IInv'
    OBVIOUS
  <1>1. ASSUME NEW w \in Writers, InqLoad(w) \/ Hook(w)
        PROVE  IInv'
    BY <1>1, HookTyped
  <1>2. ASSUME NEW r \in Readers, Thread(r)
        PROVE  IInv'
    BY <1>2, PermitTyped, DequeueTyped DEF Thread
  <1>3. CASE Timer
    BY <1>3, TimerTyped
  <1>4. CASE UNCHANGED vars
    BY <1>4 DEF IInv, TypeOK, LocalsOK, vars, queueVars, writerVars, readerVars, timerVars
  <1>5. QED
    BY <1>1, <1>2, <1>3, <1>4 DEF Next

(* Every variable keeps its type, in a queue of any geometry with any      *)
(* number of hooks and threads.                                            *)
THEOREM TypeCorrect == Spec => []TypeOK
  <1>1. IInv => TypeOK
    BY DEF IInv
  <1>2. QED
    BY <1>1, InitTyped, NextTyped, PTL DEF Spec

(* Threads draw tickets only on permits and count no more reads than they  *)
(* were granted; the timer stores fillers only up to the end of the block. *)
THEOREM LocalsCorrect == Spec => []LocalsOK
  <1>1. IInv => LocalsOK
    BY DEF IInv
  <1>2. QED
    BY <1>1, InitTyped, NextTyped, PTL DEF Spec

-----------------------------------------------------------------------------
(* The permit ledger.                                                      *)

PermitInv == IInv /\ PermitLedger /\ PermitsBacked

LedgerTyped ==
  /\ \A r \in Readers : Debt(r) \in 0..Suggest /\ InHand(r) \in 0..Suggest
  /\ Owed \in Nat /\ Held \in Nat

(* The two functions that are summed have values 0..Suggest.               *)
LEMMA LedgerTypes == IInv => LedgerTyped
  <1> SUFFICES ASSUME IInv PROVE LedgerTyped
    OBVIOUS
  <1> USE GeometryAssumption
  <1>1. ASSUME NEW r \in Readers
        PROVE  Debt(r) \in 0..Suggest /\ InHand(r) \in 0..Suggest
    <2> USE DEF IInv, TypeOK, LocalsOK
    <2>1. CASE rpc[r] = "back"
      BY <2>1 DEF Debt, InHand
    <2>2. CASE rpc[r] = "trim"
      BY <2>2 DEF Debt, InHand
    <2>3. CASE rpc[r] \in {"spin", "clear"}
      BY <2>3 DEF Debt, InHand
    <2>4. CASE rpc[r] \in {"take", "ticket", "turn", "publish"}
      BY <2>4 DEF Debt, InHand
    <2>5. QED
      BY <2>1, <2>2, <2>3, <2>4
  <1>2. Suggest \in Nat
    OBVIOUS
  <1>3. Owed \in Nat /\ Held \in Nat
    BY <1>2, ReadersAssumption, TotalType DEF Owed, Held
  <1>4. QED
    BY <1>1, <1>3 DEF LedgerTyped

(* A step that touches the debt and the hand of one thread only changes    *)
(* the sums by what it changes for that thread.                            *)
LEMMA LedgerUpdate ==
  ASSUME IInv, IInv', NEW r \in Readers,
         \A x \in Readers \ {r} : Debt(x)' = Debt(x) /\ InHand(x)' = InHand(x)
  PROVE  /\ Owed' = Owed - Debt(r) + Debt(r)'
         /\ Held' = Held - InHand(r) + InHand(r)'
  <1> DEFINE debt  == [x \in Readers |-> Debt(x)]
             debtN == [x \in Readers |-> Debt(x)']
             hand  == [x \in Readers |-> InHand(x)]
             handN == [x \in Readers |-> InHand(x)']
  <1>1. /\ debt \in [Readers -> 0..Suggest] /\ hand \in [Readers -> 0..Suggest]
        /\ debtN \in [Readers -> 0..Suggest] /\ handN \in [Readers -> 0..Suggest]
    <2>1. LedgerTyped /\ LedgerTyped'
      BY LedgerTypes, PTL
    <2>2. QED
      BY <2>1 DEF LedgerTyped
  <1>2. /\ debt[r] = Debt(r) /\ debtN[r] = Debt(r)'
        /\ hand[r] = InHand(r) /\ handN[r] = InHand(r)'
        /\ \A x \in Readers \ {r} : debtN[x] = debt[x] /\ handN[x] = hand[x]
    OBVIOUS
  <1>3. Suggest \in Nat
    BY GeometryAssumption
  <1>4. /\ Owed = Total(Readers, Suggest, debt) /\ Owed' = Total(Readers, Suggest, debtN)
        /\ Held = Total(Readers, Suggest, hand) /\ Held' = Total(Readers, Suggest, handN)
    BY DEF Owed, Held
  <1> HIDE DEF debt, debtN, hand, handN
  <1>5. Total(Readers, Suggest, debtN) = Total(Readers, Suggest, debt) - debt[r] + debtN[r]
    <2>1. /\ debt \in [Readers -> 0..Suggest] /\ debtN \in [Readers -> 0..Suggest]
          /\ \A x \in Readers \ {r} : debtN[x] = debt[x]
      BY <1>1, <1>2
    <2>2. QED
      BY <1>3, <2>1, ReadersAssumption, TotalUpdate
  <1>6. Total(Readers, Suggest, handN) = Total(Readers, Suggest, hand) - hand[r] + handN[r]
    <2>1. /\ hand \in [Readers -> 0..Suggest] /\ handN \in [Readers -> 0..Suggest]
          /\ \A x \in Readers \ {r} : handN[x] = hand[x]
      BY <1>1, <1>2
    <2>2. QED
      BY <1>3, <2>1, ReadersAssumption, TotalUpdate
  <1>7. QED
    BY <1>2, <1>4, <1>5, <1>6

(* A step that leaves the threads alone leaves the sums alone.             *)
LEMMA LedgerSame ==
  ASSUME rpc' = rpc, left' = left, pmt' = pmt
  PROVE  Owed' = Owed /\ Held' = Held
  BY DEF Owed, Held, Debt, InHand

(* Only lfrwq_pre_alloc, among the steps of hooks and timer, moves a       *)
(* permit: it issues BlkLen of them.                                       *)
LEMMA OthersLedger ==
  ASSUME PermitInv, (\E w \in Writers : InqLoad(w) \/ Hook(w)) \/ Timer \/ UNCHANGED vars
  PROVE  PermitLedger' /\ PermitsBacked'
  <1>1. Owed \in Nat /\ Held \in Nat
    BY LedgerTypes DEF PermitInv, LedgerTyped
  <1>2. r_permit \in Int /\ r_idx \in Nat /\ dbg_p_total \in Nat
    BY DEF PermitInv, IInv, TypeOK
  <1> DEFINE Issued == /\ rpc' = rpc /\ left' = left /\ pmt' = pmt /\ r_idx' = r_idx
                       /\ \/ /\ r_permit' = r_permit
                             /\ dbg_p_total' = dbg_p_total
                          \/ /\ r_permit' = r_permit + BlkLen
                             /\ dbg_p_total' = dbg_p_total + BlkLen
  <1>3. Issued
    <2> USE DEF queueVars, writerVars, readerVars, timerVars
    <2>1. ASSUME NEW w \in Writers, InqLoad(w) \/ Hook(w)
          PROVE  Issued
      BY <2>1 DEF Hook, InqLoad, InqCheck, InqClaim, InqTest, InqStore, InqAlloc
    <2>2. CASE Timer
      BY <2>2 DEF Timer, TickWatch, TickPad, SoftCheck, SoftClaim, SoftTest, SoftStore
    <2>3. CASE UNCHANGED vars
      BY <2>3 DEF vars
    <2>4. QED
      BY <2>1, <2>2, <2>3
  <1>4. Owed' = Owed /\ Held' = Held
    BY <1>3, LedgerSame
  <1>5. BlkLen \in Nat
    BY GeometryAssumption
  <1>6. r_permit + Owed + Held + r_idx = dbg_p_total /\ r_permit + Owed >= 0
    BY DEF PermitInv, PermitLedger, PermitsBacked
  <1>7. r_permit' + Owed' + Held' + r_idx' = dbg_p_total' /\ r_permit' + Owed' >= 0
    BY <1>1, <1>2, <1>3, <1>4, <1>5, <1>6
  <1>8. QED
    BY <1>7 DEF PermitLedger, PermitsBacked

(* Every step of a thread moves permits between r_permit, what is owed,    *)
(* what is in hand and the tickets drawn.                                  *)
LEMMA ThreadLedger ==
  ASSUME PermitInv, IInv', NEW r \in Readers, Thread(r)
  PROVE  PermitLedger' /\ PermitsBacked'
  <1> DEFINE Others == \A x \in Readers \ {r} : Debt(x)' = Debt(x) /\ InHand(x)' = InHand(x)
  <1>1. /\ Owed \in Nat /\ Held \in Nat /\ Debt(r) \in 0..Suggest /\ InHand(r) \in 0..Suggest
        /\ Debt(r)' \in 0..Suggest /\ InHand(r)' \in 0..Suggest
    <2>1. LedgerTyped /\ LedgerTyped'
      BY LedgerTypes, PTL DEF PermitInv
    <2>2. QED
      BY <2>1 DEF LedgerTyped
  <1>2. /\ r_permit \in Int /\ r_idx \in Nat /\ dbg_p_total \in Nat
        /\ pmt \in [Readers -> 0..Suggest] /\ left \in [Readers -> (-Suggest)..0]
        /\ rpc \in [Readers -> {"take", "back", "trim", "ticket", "spin", "clear",
                                "turn", "publish"}]
    BY DEF PermitInv, IInv, TypeOK
  <1>3. /\ rpc[r] \in {"take", "back", "trim"} => pmt[r] = 0
        /\ rpc[r] = "publish" => pmt[r] = 0
    BY DEF PermitInv, IInv, LocalsOK
  <1>4. Suggest \in Nat \ {0}
    BY GeometryAssumption
  <1>5. ASSUME Others,
               /\ r_permit' + Debt(r)' + InHand(r)' + r_idx' = r_permit + Debt(r) + InHand(r) + r_idx
               /\ dbg_p_total' = dbg_p_total
               /\ \/ r_permit' + Debt(r)' = r_permit + Debt(r)
                  \/ r_permit' + Debt(r)' >= 0 /\ Debt(r) = 0
               /\ r_permit' \in Int /\ r_idx' \in Nat
        PROVE  PermitLedger' /\ PermitsBacked'
    <2>1. Owed' = Owed - Debt(r) + Debt(r)' /\ Held' = Held - InHand(r) + InHand(r)'
      BY <1>5, LedgerUpdate DEF PermitInv
    <2>2. QED
      BY <1>1, <1>2, <1>5, <2>1 DEF PermitInv, PermitLedger, PermitsBacked
  <1> USE DEF Debt, InHand
  <1>6. CASE PermitTake(r)
    <2>1. Others /\ r_idx' = r_idx /\ dbg_p_total' = dbg_p_total
      BY <1>2, <1>6 DEF PermitTake
    <2>2. CASE rpc' = [rpc EXCEPT ![r] = "back"]
      <3>1. r_permit' = r_permit - Suggest /\ pmt' = pmt /\ rpc[r] = "take"
        BY <1>6, <2>2, <1>2 DEF PermitTake
      <3>2. Debt(r) = 0 /\ Debt(r)' = Suggest /\ InHand(r) = 0 /\ InHand(r)' = 0
        BY <1>2, <1>3, <2>2, <3>1
      <3>3. QED
        BY <1>2, <1>4, <1>5, <2>1, <3>1, <3>2
    <2>3. CASE rpc' = [rpc EXCEPT ![r] = "trim"]
      <3>1. /\ r_permit' = r_permit - Suggest /\ left' = [left EXCEPT ![r] = r_permit - Suggest]
            /\ rpc[r] = "take" /\ r_permit > 0 /\ r_permit < Suggest
        BY <1>6, <2>3, <1>2 DEF PermitTake, NothingLeft
      <3>2. /\ Debt(r) = 0 /\ Debt(r)' = Suggest - r_permit
            /\ InHand(r) = 0 /\ InHand(r)' = r_permit
        BY <1>2, <1>3, <1>4, <2>3, <3>1
      <3>3. QED
        BY <1>2, <1>4, <1>5, <2>1, <3>1, <3>2
    <2>4. CASE rpc' = [rpc EXCEPT ![r] = "ticket"]
      <3>1. /\ r_permit' = r_permit - Suggest /\ pmt' = [pmt EXCEPT ![r] = Suggest]
            /\ rpc[r] = "take" /\ r_permit >= Suggest
        BY <1>6, <2>4, <1>2 DEF PermitTake, NothingLeft
      <3>2. Debt(r) = 0 /\ Debt(r)' = 0 /\ InHand(r) = 0 /\ InHand(r)' = Suggest
        BY <1>2, <1>3, <1>4, <2>4, <3>1
      <3>3. QED
        BY <1>2, <1>4, <1>5, <2>1, <3>1, <3>2
    <2>5. QED
      BY <1>6, <2>2, <2>3, <2>4 DEF PermitTake
  <1>7. CASE PermitBack(r)
    <2>1. /\ Others /\ r_idx' = r_idx /\ dbg_p_total' = dbg_p_total
          /\ r_permit' = r_permit + Suggest
      BY <1>2, <1>7 DEF PermitBack
    <2>2. Debt(r) = Suggest /\ Debt(r)' = 0 /\ InHand(r) = 0 /\ InHand(r)' = 0
      BY <1>2, <1>3, <1>7 DEF PermitBack
    <2>3. QED
      BY <1>2, <1>4, <1>5, <2>1, <2>2
  <1>8. CASE PermitTrim(r)
    <2>1. /\ Others /\ r_idx' = r_idx /\ dbg_p_total' = dbg_p_total
          /\ r_permit' = r_permit - left[r]
      BY <1>2, <1>8 DEF PermitTrim, Excess
    <2>2. /\ Debt(r) = -left[r] /\ Debt(r)' = 0
          /\ InHand(r) = left[r] + Suggest /\ InHand(r)' = left[r] + Suggest
      BY <1>2, <1>3, <1>8 DEF PermitTrim
    <2>3. QED
      BY <1>2, <1>4, <1>5, <2>1, <2>2
  <1>9. CASE DeqTicket(r)
    <2>1. Others /\ r_idx' = r_idx + 1 /\ dbg_p_total' = dbg_p_total /\ r_permit' = r_permit
      BY <1>2, <1>9 DEF DeqTicket
    <2>2. /\ Debt(r) = 0 /\ Debt(r)' = 0
          /\ InHand(r) = pmt[r] /\ InHand(r)' = pmt[r] - 1
      BY <1>2, <1>9 DEF DeqTicket
    <2>3. QED
      BY <1>2, <1>4, <1>5, <2>1, <2>2
  <1>10. ASSUME DeqLoad(r) \/ DeqClear(r) \/ PublishTurn(r) \/ PublishRest(r)
         PROVE  PermitLedger' /\ PermitsBacked'
    <2>1. Others /\ r_idx' = r_idx /\ dbg_p_total' = dbg_p_total /\ r_permit' = r_permit
      BY <1>2, <1>10 DEF DeqLoad, DeqClear, Account, PublishTurn, PublishRest, queueVars
    <2>2. Debt(r) = 0 /\ Debt(r)' = 0 /\ InHand(r)' = InHand(r)
      BY <1>2, <1>10 DEF DeqLoad, DeqClear, Account, PublishTurn, PublishRest, queueVars, MoreOrPublish
    <2>3. QED
      BY <1>1, <1>2, <1>4, <1>5, <2>1, <2>2
  <1>11. QED
    BY <1>6, <1>7, <1>8, <1>9, <1>10 DEF Thread

\* Every step keeps the ledger of permits.
LEMMA PermitStep == PermitInv /\ [Next]_vars => PermitInv'
  <1> SUFFICES ASSUME PermitInv, [Next]_vars PROVE PermitInv'
    OBVIOUS
  <1>1. IInv'
    BY NextTyped DEF PermitInv
  <1>2. PermitLedger' /\ PermitsBacked'
    BY <1>1, OthersLedger, ThreadLedger DEF Next
  <1>3. QED
    BY <1>1, <1>2 DEF PermitInv

\* The ledger balances in the empty queue.
LEMMA InitPermits == Init => PermitInv
  <1> SUFFICES ASSUME Init PROVE PermitInv
    OBVIOUS
  <1>1. Suggest \in Nat
    BY GeometryAssumption
  <1>2. \A r \in Readers : Debt(r) = 0 /\ InHand(r) = 0
    BY DEF Init, Debt, InHand
  <1>3. Owed = 0 /\ Held = 0
    BY <1>1, <1>2, TotalZero DEF Owed, Held
  <1>4. QED
    BY <1>3, InitTyped DEF Init, PermitInv, PermitLedger, PermitsBacked

(* No interleaving of lfrwq_get_rpermit, lfrwq_pre_alloc and lfrwq_deq     *)
(* loses or invents a permit.                                              *)
THEOREM PermitsConserved == Spec => []PermitLedger
  <1>1. PermitInv => PermitLedger
    BY DEF PermitInv
  <1>2. QED
    BY <1>1, InitPermits, PermitStep, PTL DEF Spec

(* Permits that were issued cover the tickets that were drawn.             *)
LEMMA PermitsCover == PermitInv => TicketsCovered
  <1> SUFFICES ASSUME PermitInv PROVE TicketsCovered
    OBVIOUS
  <1>1. Owed \in Nat /\ Held \in Nat
    BY LedgerTypes DEF PermitInv, LedgerTyped
  <1>2. r_permit \in Int /\ r_idx \in Nat /\ dbg_p_total \in Nat
    BY DEF PermitInv, IInv, TypeOK
  <1>3. QED
    BY <1>1, <1>2 DEF PermitInv, PermitLedger, PermitsBacked, TicketsCovered

(* A ticket is backed by a permit: no thread ever waits for a word in a    *)
(* block that no hook has opened.                                          *)
THEOREM NoTicketWithoutPermit == Spec => []TicketsCovered
  BY PermitsCover, InitPermits, PermitStep, PTL DEF Spec

-----------------------------------------------------------------------------
(* Arithmetic of the queue's positions: how laps, blocks and slots relate, *)
(* and how many positions of a block lie before another.                   *)

(* Division.                                                               *)

\* A number is a multiple of n, its quotient, and a remainder below n.
LEMMA DivMod ==
  ASSUME NEW x \in Nat, NEW n \in Nat \ {0}
  PROVE  x \div n \in Nat /\ x % n \in 0..(n - 1) /\ x = n * (x \div n) + (x % n)
  <1>1. x \div n \in Nat
    OBVIOUS
  <1>2. x % n \in 0..(n - 1)
    OBVIOUS
  <1>3. x = n * (x \div n) + (x % n)
    OBVIOUS
  <1>4. QED
    BY <1>1, <1>2, <1>3

\* Multiplication by n keeps the order.
LEMMA ProductOrder ==
  ASSUME NEW n \in Nat, NEW a \in Int, NEW b \in Int, a <= b
  PROVE  n * a <= n * b
  <1>1. (b - a) \in Nat
    OBVIOUS
  <1>2. n * (b - a) \in Nat
    BY <1>1
  <1>3. n * (b - a) = n * b - n * a
    OBVIOUS
  <1>4. n * a \in Int /\ n * b \in Int
    OBVIOUS
  <1>5. QED
    BY <1>2, <1>3, <1>4

\* Multiples of n that differ do so by at least n.
LEMMA ProductGap ==
  ASSUME NEW n \in Nat, NEW a \in Int, NEW b \in Int, a < b
  PROVE  n * a + n <= n * b /\ n * a \in Int /\ n * b \in Int
  <1>1. n * (a + 1) <= n * b
    BY ProductOrder
  <1>2. n * (a + 1) = n * a + n
    OBVIOUS
  <1>3. n * a \in Int /\ n * b \in Int
    OBVIOUS
  <1>4. QED
    BY <1>1, <1>2, <1>3

(* Nothing but the quotient and the remainder has their property.          *)
LEMMA DivModUnique ==
  ASSUME NEW n \in Nat \ {0}, NEW a \in Nat, NEW r \in 0..(n - 1), NEW x, x = n * a + r
  PROVE  x \in Nat /\ x \div n = a /\ x % n = r
  <1>1. n * a \in Nat
    OBVIOUS
  <1>2. x \in Nat
    BY <1>1
  <1> DEFINE d == x \div n
             m == x % n
  <1>3. d \in Nat /\ m \in 0..(n - 1) /\ x = n * d + m
    BY <1>2, DivMod
  <1> HIDE DEF d, m
  <1>4. ~(d < a)
    <2> SUFFICES ASSUME d < a PROVE FALSE
      OBVIOUS
    <2>1. n * d + n <= n * a /\ n * d \in Int
      BY <1>3, ProductGap
    <2>2. QED
      BY <1>1, <1>3, <2>1
  <1>5. ~(a < d)
    <2> SUFFICES ASSUME a < d PROVE FALSE
      OBVIOUS
    <2>1. n * a + n <= n * d /\ n * d \in Int
      BY <1>3, ProductGap
    <2>2. QED
      BY <1>1, <1>3, <2>1
  <1>6. d = a
    BY <1>3, <1>4, <1>5
  <1>7. m = r
    BY <1>1, <1>3, <1>6
  <1>8. QED
    BY <1>2, <1>6, <1>7 DEF d, m

-----------------------------------------------------------------------------
(* Arithmetic of positions.                                                *)

\* The place of a position in its block.
Off(p) == Slot(p) % BlkLen

(* A position is its lap, its block and its place in the block.            *)
LEMMA Parts ==
  ASSUME NEW p \in Nat
  PROVE  /\ Lap(p) \in Nat /\ Blk(p) \in Blks /\ Blk(p) \in Nat
         /\ Off(p) \in 0..(BlkLen - 1) /\ Slot(p) \in Slots /\ Slot(p) \in Nat
         /\ p = QLen * Lap(p) + Slot(p)
         /\ Slot(p) = BlkLen * Blk(p) + Off(p)
  <1>1. Slot(p) \in Slots /\ Slot(p) \in Nat /\ Blk(p) \in Blks
    BY SlotType, BlkType
  <1>2. Lap(p) \in Nat /\ p = QLen * Lap(p) + Slot(p)
    BY DivMod, QLenPositive DEF Lap, Slot
  <1>3. Off(p) \in 0..(BlkLen - 1) /\ Slot(p) = BlkLen * Blk(p) + Off(p) /\ Blk(p) \in Nat
    BY <1>1, DivMod, GeometryAssumption DEF Off, Slot, Blk
  <1>4. QED
    BY <1>1, <1>2, <1>3

(* The masks of lf_rwq.c, first by len - 1 and then by blk_len - 1, leave  *)
(* what a single one by blk_len - 1 leaves.                                *)
LEMMA OffIsMod ==
  ASSUME NEW p \in Nat
  PROVE  Off(p) = p % BlkLen
  <1> DEFINE a == BlkCnt * Lap(p) + Blk(p)
             o == Off(p)
  <1>1. a \in Nat /\ o \in 0..(BlkLen - 1) /\ BlkLen \in Nat \ {0}
    <2>1. Lap(p) \in Nat /\ Blk(p) \in Nat /\ Off(p) \in 0..(BlkLen - 1)
      BY Parts
    <2>2. BlkCnt \in Nat /\ BlkLen \in Nat \ {0}
      BY GeometryAssumption
    <2>3. QED
      BY <2>1, <2>2
  <1>2. p = BlkLen * a + o
    <2> DEFINE x == BlkCnt * Lap(p)
    <2>1. /\ Lap(p) \in Nat /\ Blk(p) \in Nat /\ o \in Nat
          /\ p = QLen * Lap(p) + Slot(p) /\ Slot(p) = BlkLen * Blk(p) + o
      BY Parts, GeometryAssumption
    <2>2. BlkCnt \in Nat /\ BlkLen \in Nat
      BY GeometryAssumption
    <2>3. x \in Nat /\ QLen * Lap(p) = BlkLen * x
      BY <2>1, <2>2 DEF QLen
    <2> HIDE DEF x
    <2>4. BlkLen * (x + Blk(p)) = BlkLen * x + BlkLen * Blk(p)
      BY <2>1, <2>2, <2>3
    <2>5. a = x + Blk(p)
      BY DEF x
    <2> HIDE DEF a, o
    <2>6. QED
      BY <2>1, <2>2, <2>3, <2>4, <2>5
  <1> HIDE DEF a, o
  <1>3. p % BlkLen = o
    BY <1>1, <1>2, DivModUnique
  <1>4. QED
    BY <1>3 DEF o

\* A position starts a block where its place is 0.
LEMMA StartsIsMod ==
  ASSUME NEW p \in Nat
  PROVE  /\ Starts(p) <=> Off(p) = 0
         /\ Starts(p) <=> p % BlkLen = 0
  BY OffIsMod DEF Starts, Off, Slot

\* The first position of p's block, in p's lap.
First(p) == p - Off(p)

\* The first position of p's block is in p's lap and block and starts it.
LEMMA FirstOfBlock ==
  ASSUME NEW p \in Nat
  PROVE  /\ First(p) \in 0..p
         /\ Lap(First(p)) = Lap(p) /\ Blk(First(p)) = Blk(p) /\ Starts(First(p))
  <1> DEFINE f == First(p)
             l == Lap(p)
             b == Blk(p)
             s == BlkLen * b
             e == QLen * l
  <1>1. /\ l \in Nat /\ b \in Nat /\ QLen \in Nat \ {0} /\ BlkLen \in Nat \ {0}
        /\ Off(p) \in 0..(BlkLen - 1) /\ Slot(p) \in 0..(QLen - 1)
        /\ p = e + Slot(p) /\ Slot(p) = s + Off(p)
    BY Parts, QLenPositive, GeometryAssumption DEF Slots
  <1>2. s \in Nat /\ e \in Nat
    BY <1>1
  <1> HIDE DEF s, e, b, l
  <1>3. s \in 0..(QLen - 1) /\ f = e + s /\ f \in 0..p
    BY <1>1, <1>2 DEF First
  <1> HIDE DEF f
  <1>4. f = QLen * l + s
    BY <1>3 DEF e
  <1>5. f \div QLen = l /\ f % QLen = s
    <2>1. QLen \in Nat \ {0} /\ l \in Nat /\ s \in 0..(QLen - 1) /\ f = QLen * l + s
      BY <1>1, <1>3, <1>4
    <2>2. QED
      BY <2>1, DivModUnique
  <1>6. s = BlkLen * b + 0 /\ 0 \in 0..(BlkLen - 1)
    BY <1>1 DEF s
  <1>7. s \div BlkLen = b /\ s % BlkLen = 0
    <2>1. BlkLen \in Nat \ {0} /\ b \in Nat
      BY <1>1
    <2>2. QED
      BY <2>1, <1>6, DivModUnique
  <1>8. QED
    BY <1>3, <1>5, <1>7 DEF Lap, Blk, Starts, f, l, b

(* Positions of the same block and lap have the same place only if they    *)
(* are the same; positions of the same slot differ in their lap.           *)
LEMMA SamePlace ==
  ASSUME NEW x \in Nat, NEW y \in Nat, Lap(x) = Lap(y), Blk(x) = Blk(y), Off(x) = Off(y)
  PROVE  x = y
  BY Parts, Zenon

\* A position of an earlier lap lies before the first of the lap.
LEMMA LapOrder ==
  ASSUME NEW x \in Nat, NEW y \in Nat, Lap(x) < Lap(y)
  PROVE  x < y - Slot(y)
  <1> DEFINE e == QLen * Lap(x)
             g == QLen * Lap(y)
  <1>1. /\ x = e + Slot(x) /\ y = g + Slot(y)
        /\ Slot(x) \in 0..(QLen - 1) /\ Slot(y) \in 0..(QLen - 1) /\ QLen \in Nat
    BY Parts, QLenPositive DEF Slots
  <1>2. e + QLen <= g /\ e \in Int /\ g \in Int
    <2>1. QLen \in Nat /\ Lap(x) \in Int /\ Lap(y) \in Int
      BY Parts, QLenPositive
    <2>2. QED
      BY <2>1, ProductGap, Zenon
  <1> HIDE DEF e, g
  <1>3. QED
    BY <1>1, <1>2

\* The earlier of two positions of a slot belongs to an earlier lap.
LEMMA SameSlot ==
  ASSUME NEW x \in Nat, NEW y \in Nat, Slot(x) = Slot(y), x < y
  PROVE  x \in Earlier(y)
  <1>1. Blk(x) = Blk(y)
    BY DEF Blk, Slot
  <1>2. ~(Lap(y) < Lap(x))
    <2> SUFFICES ASSUME Lap(y) < Lap(x) PROVE FALSE
      OBVIOUS
    <2>1. y < x - Slot(x)
      BY LapOrder
    <2>2. QED
      BY <2>1, Parts
  <1>3. Lap(x) # Lap(y)
    <2> SUFFICES ASSUME Lap(x) = Lap(y) PROVE FALSE
      OBVIOUS
    <2>1. x = y
      BY Parts, Zenon
    <2>2. QED
      BY <2>1
  <1>4. Lap(x) < Lap(y)
    BY <1>2, <1>3, Parts
  <1>5. QED
    BY <1>1, <1>4 DEF Earlier

(* The predecessors of a position are those of the first of its block.     *)
LEMMA EarlierOfFirst ==
  ASSUME NEW p \in Nat
  PROVE  Earlier(p) = Earlier(First(p))
  <1>1. ASSUME NEW x \in Earlier(p)
        PROVE  x \in 0..(First(p) - 1)
    <2>1. x \in Nat /\ Lap(x) < Lap(p)
      BY DEF Earlier
    <2>2. x < p - Slot(p)
      BY <2>1, LapOrder
    <2>3. Off(p) <= Slot(p) /\ Off(p) \in Nat /\ Slot(p) \in Nat
      <3>1. BlkLen * Blk(p) \in Nat
        BY Parts, GeometryAssumption
      <3>2. QED
        BY <3>1, Parts, GeometryAssumption
    <2>4. QED
      BY <2>1, <2>2, <2>3 DEF First
  <1>2. First(p) \in 0..p
    BY FirstOfBlock
  <1>3. \A x \in 0..(First(p) - 1) : x \in 0..(p - 1)
    BY <1>2
  <1>4. QED
    BY <1>1, <1>3, FirstOfBlock DEF Earlier

-----------------------------------------------------------------------------
(* Arithmetic of BlocksClaimed.                                            *)

Ceil(n) == (n + BlkLen - 1) \div BlkLen

(* Claiming the first position of a block enters one block more.           *)
LEMMA CeilStart ==
  ASSUME NEW n \in Nat, n % BlkLen = 0
  PROVE  Ceil(n) \in Nat /\ BlkLen * Ceil(n) = n /\ Ceil(n + 1) = Ceil(n) + 1
  <1> DEFINE a == n \div BlkLen
             u == n + BlkLen - 1
             v == n + 1 + BlkLen - 1
  <1>0. BlkLen \in Nat \ {0}
    BY GeometryAssumption
  <1>1. a \in Nat /\ n = BlkLen * a
    <2>1. n = BlkLen * a + (n % BlkLen) /\ a \in Nat
      BY <1>0, DivMod, Zenon
    <2> HIDE DEF a
    <2>2. QED
      BY <2>1, <1>0
  <1> HIDE DEF a
  <1>2. u = BlkLen * a + (BlkLen - 1) /\ BlkLen - 1 \in 0..(BlkLen - 1)
    BY <1>0, <1>1
  <1>3. v = BlkLen * (a + 1) + 0 /\ 0 \in 0..(BlkLen - 1) /\ a + 1 \in Nat
    BY <1>0, <1>1
  <1> HIDE DEF u, v
  <1>4. u \div BlkLen = a
    BY <1>0, <1>1, <1>2, DivModUnique
  <1>5. v \div BlkLen = a + 1
    BY <1>0, <1>3, DivModUnique
  <1>6. QED
    BY <1>1, <1>4, <1>5 DEF Ceil, u, v

(* Claiming a position inside a block enters none.                         *)
LEMMA CeilInside ==
  ASSUME NEW n \in Nat, n % BlkLen # 0
  PROVE  Ceil(n) \in Nat /\ Ceil(n + 1) = Ceil(n)
  <1> DEFINE a == n \div BlkLen
             o == n % BlkLen
             u == n + BlkLen - 1
             v == n + 1 + BlkLen - 1
  <1>0. BlkLen \in Nat \ {0}
    BY GeometryAssumption
  <1>1. a \in Nat /\ n = BlkLen * a + o /\ o \in 0..(BlkLen - 1)
    BY <1>0, DivMod, Zenon
  <1>2. o # 0
    OBVIOUS
  <1> HIDE DEF a, o
  <1>3. u = BlkLen * (a + 1) + (o - 1) /\ o - 1 \in 0..(BlkLen - 1) /\ a + 1 \in Nat
    BY <1>0, <1>1, <1>2
  <1>4. v = BlkLen * (a + 1) + o
    BY <1>0, <1>1
  <1> HIDE DEF u, v
  <1>5. u \div BlkLen = a + 1
    BY <1>0, <1>3, DivModUnique
  <1>6. v \div BlkLen = a + 1
    <2>1. a + 1 \in Nat /\ o \in 0..(BlkLen - 1)
      BY <1>1, <1>3
    <2>2. QED
      BY <2>1, <1>0, <1>4, DivModUnique
  <1>7. QED
    BY <1>3, <1>5, <1>6 DEF Ceil, u, v

(* The first position of a block that was entered has been claimed.        *)
LEMMA CeilCovers ==
  ASSUME NEW n \in Nat, NEW t \in Nat, t < BlkLen * Ceil(n)
  PROVE  First(t) < n
  <1> DEFINE a == t \div BlkLen
             c == Ceil(n)
             o == Off(t)
             A == BlkLen * a
             C == BlkLen * c
  <1>1. BlkLen \in Nat \ {0} /\ n + BlkLen - 1 \in Nat
    BY GeometryAssumption
  <1>2. a \in Nat /\ t = A + o /\ o \in Nat
    <2>1. a \in Nat /\ t = A + (t % BlkLen) /\ t % BlkLen \in 0..(BlkLen - 1)
      BY <1>1, DivMod, Zenon
    <2>2. o = t % BlkLen
      BY OffIsMod
    <2> HIDE DEF a, A, o
    <2>3. QED
      BY <2>1, <2>2, <1>1
  <1>3. c \in Nat /\ C <= n + BlkLen - 1
    <2> DEFINE u == n + BlkLen - 1
               r == u % BlkLen
    <2>1. c = u \div BlkLen
      BY DEF Ceil
    <2>2. c \in Nat /\ u = C + r /\ r \in 0..(BlkLen - 1)
      BY <1>1, <2>1, DivMod, Zenon
    <2>3. C \in Nat
      BY <1>1, <2>2
    <2> HIDE DEF c, C, r
    <2>4. QED
      BY <1>1, <2>2, <2>3
  <1>4. A \in Nat /\ C \in Nat /\ t < C
    BY <1>1, <1>2, <1>3
  <1> HIDE DEF a, c
  <1>5. a < c
    <2> SUFFICES ASSUME c <= a PROVE FALSE
      BY <1>2, <1>3
    <2>1. C <= A
      BY <1>1, <1>2, <1>3, ProductOrder
    <2> HIDE DEF A, C
    <2>2. QED
      BY <1>2, <1>4, <2>1
  <1>6. A + BlkLen <= C
    BY <1>1, <1>2, <1>3, <1>5, ProductGap
  <1> HIDE DEF A, C
  <1>7. First(t) = A
    BY <1>2, <1>4 DEF First, o
  <1>8. QED
    BY <1>1, <1>3, <1>4, <1>6, <1>7

-----------------------------------------------------------------------------
(* Counting.                                                               *)

(* A block holds BlkLen words in each lap.                                 *)
LEMMA EarlierBound ==
  ASSUME NEW p \in Nat
  PROVE  IsFiniteSet(Earlier(p)) /\ Cardinality(Earlier(p)) <= Lap(p) * BlkLen
  <1> DEFINE E == Earlier(p)
             L == 0..(Lap(p) - 1)
             O == 0..(BlkLen - 1)
             f == [x \in E |-> <<Lap(x), Off(x)>>]
  <1>0. Lap(p) \in Nat /\ BlkLen \in Nat
    BY Parts, GeometryAssumption
  <1>1. \A x \in E : x \in Nat /\ Blk(x) = Blk(p) /\ Lap(x) < Lap(p)
    BY DEF Earlier
  <1>2. \A x \in E : Lap(x) \in L /\ Off(x) \in O
    BY <1>0, <1>1, Parts
  <1>3. \A x, y \in E : Lap(x) = Lap(y) /\ Off(x) = Off(y) => x = y
    BY <1>1, SamePlace
  <1> HIDE DEF E, L, O
  <1>4. f \in Injection(E, L \X O)
    <2>1. f \in [E -> L \X O]
      BY <1>2
    <2>2. ASSUME NEW x \in E, NEW y \in E, f[x] = f[y] PROVE x = y
      BY <1>3, <2>2
    <2>3. QED
      BY <2>1, <2>2 DEF Injection, IsInjective
  <1>5. /\ IsFiniteSet(L) /\ Cardinality(L) = Lap(p)
        /\ IsFiniteSet(O) /\ Cardinality(O) = BlkLen
    <2>1. ASSUME NEW n \in Nat
          PROVE  IsFiniteSet(0..(n - 1)) /\ Cardinality(0..(n - 1)) = n
      <3>1. 0 \in Int /\ n - 1 \in Int
        OBVIOUS
      <3>2. /\ IsFiniteSet(0..(n - 1))
            /\ Cardinality(0..(n - 1)) = IF 0 > n - 1 THEN 0 ELSE (n - 1) - 0 + 1
        BY <3>1, FS_Interval, Zenon
      <3>3. QED
        BY <3>2
    <2>2. QED
      BY <1>0, <2>1 DEF L, O
  <1>6. IsFiniteSet(L \X O) /\ Cardinality(L \X O) = Lap(p) * BlkLen
    BY <1>5, FS_Product
  <1> HIDE DEF f
  <1>7. IsFiniteSet(E) /\ Cardinality(E) <= Cardinality(L \X O)
    BY <1>4, <1>6, FS_Injection
  <1>8. QED
    BY <1>6, <1>7 DEF E

(* Before the first position of a block its words are those of earlier     *)
(* laps.                                                                   *)
LEMMA BeforeBlock ==
  ASSUME NEW p \in Nat, Starts(p), NEW x \in 0..(p - 1), Blk(x) = Blk(p)
  PROVE  x \in Earlier(p)
  <1>1. Off(p) = 0
    BY StartsIsMod
  <1>2. ~(Lap(p) < Lap(x))
    <2> SUFFICES ASSUME Lap(p) < Lap(x) PROVE FALSE
      OBVIOUS
    <2>1. p < x - Slot(x)
      BY LapOrder
    <2>2. QED
      BY <2>1, Parts
  <1>3. Lap(p) # Lap(x)
    <2> SUFFICES ASSUME Lap(p) = Lap(x) PROVE FALSE
      OBVIOUS
    <2> DEFINE e == QLen * Lap(p)
               s == BlkLen * Blk(p)
    <2>1. /\ p = e + Slot(p) /\ Slot(p) = s + Off(p) /\ x = e + Slot(x) /\ Slot(x) = s + Off(x)
          /\ Off(x) \in 0..(BlkLen - 1)
      BY Parts
    <2>2. e \in Int /\ s \in Int
      <3>1. /\ QLen \in Int /\ Lap(p) \in Int
            /\ BlkLen \in Int /\ Blk(p) \in Int
        BY Parts, QLenPositive, GeometryAssumption
      <3>2. QED
        BY <3>1
    <2> HIDE DEF e, s
    <2>3. QED
      BY <1>1, <2>1, <2>2
  <1>4. Lap(x) < Lap(p)
    BY <1>2, <1>3, Parts
  <1>5. QED
    BY <1>4 DEF Earlier

(* The room test compares the reads of the block with those of its earlier *)
(* laps.                                                                   *)
LEMMA RoomMeans ==
  ASSUME NEW p \in Nat, r_cnt \in [Blks -> Nat]
  PROVE  RoomFor(p) <=> r_cnt[Blk(p)] >= BlkLen * Lap(p)
  <1> DEFINE n == r_cnt[Blk(p)]
             d == n \div BlkLen
             m == n % BlkLen
             l == Lap(p)
  <1>1. n \in Nat /\ l \in Nat /\ BlkLen \in Nat \ {0}
    BY Parts, GeometryAssumption
  <1>2. d \in Nat /\ m \in 0..(BlkLen - 1) /\ n = BlkLen * d + m
    BY <1>1, DivMod, Zenon
  <1>3. RoomFor(p) <=> d >= l
    BY DEF RoomFor
  <1> HIDE DEF d, m, l, n
  <1>4. ASSUME d >= l PROVE n >= BlkLen * l
    <2>1. BlkLen * l <= BlkLen * d /\ BlkLen * l \in Int /\ BlkLen * d \in Int
      BY <1>1, <1>2, <1>4, ProductOrder
    <2>2. QED
      BY <1>1, <1>2, <2>1
  <1>5. ASSUME d < l PROVE n < BlkLen * l
    <2>1. BlkLen * d + BlkLen <= BlkLen * l /\ BlkLen * l \in Int /\ BlkLen * d \in Int
      BY <1>1, <1>2, <1>5, ProductGap
    <2>2. QED
      BY <1>1, <1>2, <2>1
  <1>6. BlkLen * l \in Int
    BY <1>1
  <1>7. RoomFor(p) <=> n >= BlkLen * l
    BY <1>1, <1>2, <1>3, <1>4, <1>5, <1>6
  <1>8. QED
    BY <1>7 DEF n, l

(* The positions of a padding follow each other within a block.            *)
LEMMA NextInBlock ==
  ASSUME NEW p \in Nat, PadLen(p) - 1 > 0
  PROVE  ~Starts(p + 1) /\ PadLen(p + 1) = PadLen(p) - 1
  <1> DEFINE a == p \div BlkLen
             o == Off(p)
             v == p + 1
             u == Off(p) + 1
  <1>1. BlkLen \in Nat \ {0} /\ o \in 0..(BlkLen - 1) /\ PadLen(p) = BlkLen - o
    BY GeometryAssumption, Parts DEF PadLen, Off
  <1>2. a \in Nat /\ p = BlkLen * a + o
    <2>1. a \in Nat /\ p = BlkLen * a + (p % BlkLen)
      BY <1>1, DivMod, Zenon
    <2>2. QED
      BY <2>1, OffIsMod
  <1>3. BlkLen * a \in Nat
    BY <1>1, <1>2
  <1> HIDE DEF a, o
  <1>4. u \in 0..(BlkLen - 1) /\ v = BlkLen * a + u
    BY <1>1, <1>2, <1>3 DEF o
  <1> HIDE DEF u, v
  <1>5. v % BlkLen = u
    <2>1. BlkLen \in Nat \ {0} /\ a \in Nat /\ u \in 0..(BlkLen - 1) /\ v = BlkLen * a + u
      BY <1>1, <1>2, <1>4
    <2>2. QED
      BY <2>1, DivModUnique
  <1>6. Off(p + 1) = o + 1
    BY <1>5, OffIsMod DEF o, u, v
  <1>7. PadLen(p + 1) = BlkLen - Off(p + 1) /\ (Starts(p + 1) <=> Off(p + 1) = 0)
    BY StartsIsMod DEF PadLen, Off
  <1>8. QED
    BY <1>1, <1>6, <1>7

-----------------------------------------------------------------------------
(* The invariant, and what follows from it in a state.                     *)

QInv ==
  /\ PermitInv /\ OpenedOnce /\ OpenerInv /\ ReadLedger
  /\ TicketInv /\ PadInv /\ RoomInv
  /\ ReuseAfterRead /\ SlotInv /\ ClaimInv

\* The relations between positions, tickets, slots and words.
OrderInv == TicketInv /\ ReuseAfterRead /\ SlotInv /\ ClaimInv

\* The invariant includes the types of all variables.
LEMMA QTypes ==
  ASSUME QInv
  PROVE  TypeOK /\ IInv /\ LocalsOK
  BY DEF QInv, PermitInv, IInv

(* Two words that were claimed and not read do not share a slot.           *)
LEMMA NoSharing ==
  ASSUME ReuseAfterRead, w_idx \in Nat, NEW x \in (0..(w_idx - 1)) \ consumed,
         NEW y \in (0..(w_idx - 1)) \ consumed, Slot(x) = Slot(y)
  PROVE  x = y
  <1>1. x \in Nat /\ y \in Nat
    OBVIOUS
  <1>2. ~(x < y)
    BY <1>1, SameSlot DEF ReuseAfterRead
  <1>3. ~(y < x)
    BY <1>1, SameSlot DEF ReuseAfterRead
  <1>4. QED
    BY <1>1, <1>2, <1>3

\* Tickets never outnumber the permits issued.
LEMMA QInvCovers == QInv => TicketsCovered
  BY PermitsCover DEF QInv

\* The word in a claimed slot would be one of an earlier lap that was not read.
LEMMA QNoOverlap == QInv => NoOverlap
  <1> SUFFICES ASSUME QInv PROVE NoOverlap
    OBVIOUS
  <1>1. TypeOK
    BY QTypes
  <1>2. ASSUME NEW p \in (0..(w_idx - 1)) \ consumed, q[Slot(p)] # p
        PROVE  q[Slot(p)] = Empty
    <2> SUFFICES ASSUME q[Slot(p)] # Empty PROVE FALSE
      OBVIOUS
    <2>1. Slot(p) \in Slots /\ w_idx \in Nat
      BY <1>1, SlotType DEF TypeOK
    <2>2. q[Slot(p)] \in (0..(w_idx - 1)) \ consumed /\ Slot(q[Slot(p)]) = Slot(p)
      BY <2>1 DEF QInv, SlotInv
    <2>3. QED
      BY <1>2, <2>1, <2>2, NoSharing DEF QInv
  <1>3. QED
    BY <1>2 DEF QInv, ClaimInv, HookPending, TimerPending, NoOverlap

(* A ticket lies in a block that was opened: the words of earlier laps in  *)
(* its slot are out.                                                       *)
LEMMA TicketOpened ==
  ASSUME QInv, NEW t \in 0..(r_idx - 1)
  PROVE  First(t) < w_idx /\ Earlier(t) \subseteq consumed
  <1>1. w_idx \in Nat /\ r_idx \in Nat /\ dbg_p_total \in Nat
    BY QTypes DEF TypeOK
  <1>2. r_idx <= dbg_p_total
    BY QInvCovers DEF TicketsCovered
  <1>3. Cardinality(Openers) \in Nat
    <2>1. IsFiniteSet(Openers)
      BY WritersAssumption, FS_Subset DEF Openers
    <2>2. QED
      BY <2>1, FS_CardinalityType
  <1> DEFINE n == Cardinality(Openers)
             C == BlkLen * Ceil(w_idx)
             O == BlkLen * n
  <1>4. O \in Nat
    BY <1>3, GeometryAssumption
  <1>5. dbg_p_total + O = C
    BY DEF QInv, OpenedOnce, BlocksClaimed, Ceil
  <1> HIDE DEF O, C, n
  <1>6. t < C
    BY <1>1, <1>2, <1>4, <1>5
  <1>7. First(t) < w_idx
    BY <1>1, <1>6, CeilCovers DEF C
  <1>8. First(t) \in 0..(w_idx - 1)
    BY <1>1, <1>7, FirstOfBlock
  <1>9. Earlier(First(t)) \subseteq consumed
    BY <1>8 DEF QInv, ReuseAfterRead
  <1>10. QED
    BY <1>7, <1>9, EarlierOfFirst

(* The slot of a ticket holds nothing but the word of the ticket.          *)
LEMMA TicketWord ==
  ASSUME QInv, NEW t \in (0..(r_idx - 1)) \ consumed, q[Slot(t)] # Empty
  PROVE  q[Slot(t)] = t
  <1> DEFINE x == q[Slot(t)]
  <1>1. w_idx \in Nat /\ r_idx \in Nat
    BY QTypes DEF TypeOK
  <1>2. x \in (0..(w_idx - 1)) \ consumed /\ Slot(x) = Slot(t)
    BY SlotType DEF QInv, SlotInv
  <1> HIDE DEF x
  <1>3. ~(x < t)
    <2> SUFFICES ASSUME x < t PROVE FALSE
      OBVIOUS
    <2>1. x \in Earlier(t)
      BY <1>1, <1>2, SameSlot
    <2>2. QED
      BY <1>2, <2>1, TicketOpened
  <1>4. ~(t < x)
    <2> SUFFICES ASSUME t < x PROVE FALSE
      OBVIOUS
    <2>1. t \in Earlier(x)
      BY <1>1, <1>2, SameSlot
    <2>2. QED
      BY <1>2, <2>1 DEF QInv, ReuseAfterRead
  <1>5. x = t
    BY <1>1, <1>2, <1>3, <1>4
  <1>6. QED
    BY <1>5 DEF x

(* The reads of a block that were published are at most those that were    *)
(* made.                                                                   *)
LEMMA CountedReads ==
  ASSUME QInv, NEW b \in Blks
  PROVE  r_cnt[b] <= Cardinality(ConsumedIn(b))
  <1>1. r_cnt[b] \in Nat /\ Suggest \in Nat
    BY QTypes, GeometryAssumption DEF TypeOK
  <1>2. Total(Readers, Suggest, [r \in Readers |-> Unpublished(b, r)]) \in Nat
    BY <1>1, ReadersAssumption, TotalType
  <1>3. r_cnt[b] + Total(Readers, Suggest, [r \in Readers |-> Unpublished(b, r)])
          = Cardinality(ConsumedIn(b))
    BY DEF QInv, ReadLedger, ConsumedIn
  <1>4. QED
    BY <1>1, <1>2, <1>3

(* The next position may be claimed only when the earlier laps of its      *)
(* block are out: by the room test at the start of a block, and inside a   *)
(* block because its start was claimed before.                             *)
LEMMA ClaimAfterRead ==
  ASSUME QInv, Starts(w_idx) => RoomFor(w_idx)
  PROVE  Earlier(w_idx) \subseteq consumed
  <1> DEFINE p == w_idx
             b == Blk(p)
             E == Earlier(p)
             C == ConsumedIn(b)
  <1>1. p \in Nat /\ r_cnt \in [Blks -> Nat] /\ b \in Blks /\ r_cnt[b] \in Nat
    BY QTypes, BlkType DEF TypeOK
  <1>2. CASE Starts(p)
    <2>1. C \subseteq E
      <3>1. \A x \in C : x \in 0..(p - 1) /\ Blk(x) = b
        BY DEF QInv, SlotInv, ConsumedIn
      <3>2. QED
        BY <1>1, <1>2, <3>1, BeforeBlock
    <2>2. IsFiniteSet(E) /\ Cardinality(E) <= Lap(p) * BlkLen
      BY <1>1, EarlierBound
    <2>3. r_cnt[b] >= BlkLen * Lap(p)
      BY <1>1, <1>2, RoomMeans
    <2>4. r_cnt[b] <= Cardinality(C)
      BY <1>1, CountedReads
    <2>5. Lap(p) * BlkLen = BlkLen * Lap(p) /\ BlkLen * Lap(p) \in Int
      <3>1. Lap(p) \in Int /\ BlkLen \in Int
        BY <1>1, Parts, GeometryAssumption
      <3>2. QED
        BY <3>1
    <2>6. IsFiniteSet(C) /\ Cardinality(C) <= Cardinality(E)
      BY <2>1, <2>2, FS_Subset
    <2>7. Cardinality(E) \in Int /\ Cardinality(C) \in Int
      BY <2>2, <2>6, FS_CardinalityType
    <2> DEFINE cc == Cardinality(C)
               ce == Cardinality(E)
               bl == BlkLen * Lap(p)
               rc == r_cnt[b]
    <2>8. cc \in Int /\ ce \in Int /\ bl \in Int /\ rc \in Int
          /\ ce <= bl /\ rc >= bl /\ rc <= cc /\ cc <= ce
      BY <1>1, <2>2, <2>3, <2>4, <2>5, <2>6, <2>7
    <2> HIDE DEF cc, ce, bl, rc
    <2>9. cc = ce
      BY <2>8
    <2> HIDE DEF C, E
    <2>10. E = C
      BY <2>1, <2>2, <2>9, FS_Subset DEF cc, ce
    <2>11. QED
      BY <2>10 DEF C, E, ConsumedIn
  <1>3. CASE ~Starts(p)
    <2>1. First(p) \in 0..p /\ First(p) # p
      BY <1>1, <1>3, FirstOfBlock
    <2>2. First(p) \in 0..(p - 1)
      BY <1>1, <2>1
    <2>3. Earlier(First(p)) \subseteq consumed
      BY <2>2 DEF QInv, ReuseAfterRead
    <2>4. QED
      BY <1>1, <2>3, EarlierOfFirst
  <1>4. QED
    BY <1>2, <1>3

-----------------------------------------------------------------------------
(* The steps and the relations of OrderInv.                                *)

\* The control points of hooks and threads.
HookPoints   == {"idle", "check", "claim", "retry", "test", "store", "alloc"}
ThreadPoints == {"take", "back", "trim", "ticket", "spin", "clear", "turn", "publish"}

\* A step that moves no word, claims no position and draws no ticket.
Quiet ==
  /\ UNCHANGED <<w_idx, r_idx, q, consumed>>
  /\ \A r \in Readers :
       /\ HasTicket(r)' <=> HasTicket(r)
       /\ rpc'[r] = "clear" <=> rpc[r] = "clear"
       /\ HasTicket(r) => ticket'[r] = ticket[r] /\ datum'[r] = datum[r]
  /\ \A w \in Writers : HookPending(w)' => HookPending(w) /\ wi'[w] = wi[w]
  /\ TimerPending' => TimerPending /\ si' = si

\* Such a step keeps the relations.
LEMMA QuietKeeps ==
  ASSUME QInv, Quiet
  PROVE  OrderInv'
  <1> USE DEF QInv, Quiet
  <1>1. TicketInv'
    BY DEF TicketInv
  <1>2. ReuseAfterRead'
    BY DEF ReuseAfterRead
  <1>3. SlotInv'
    BY DEF SlotInv, HasTicket
  <1>4. ClaimInv'
    BY DEF ClaimInv
  <1>5. QED
    BY <1>1, <1>2, <1>3, <1>4 DEF OrderInv

\* Loads, tests and the issue of permits are quiet.
LEMMA QuietHook ==
  ASSUME QInv, NEW w \in Writers, InqLoad(w) \/ InqCheck(w) \/ InqTest(w) \/ InqAlloc(w)
  PROVE  Quiet
  <1> USE QTypes DEF TypeOK, Quiet, HasTicket, HookPending, TimerPending,
                     queueVars, readerVars, timerVars
  <1>1. CASE InqLoad(w)
    BY <1>1 DEF InqLoad
  <1>2. CASE InqCheck(w)
    BY <1>2 DEF InqCheck
  <1>3. CASE InqTest(w)
    BY <1>3 DEF InqTest
  <1>4. CASE InqAlloc(w)
    BY <1>4 DEF InqAlloc
  <1>5. QED
    BY <1>1, <1>2, <1>3, <1>4

\* Obtaining permits and publishing counts is quiet.
LEMMA QuietThread ==
  ASSUME QInv, NEW r \in Readers,
         PermitTake(r) \/ PermitBack(r) \/ PermitTrim(r) \/ PublishTurn(r) \/ PublishRest(r)
  PROVE  Quiet
  <1> USE QTypes DEF TypeOK, Quiet, HasTicket, HookPending, TimerPending,
                     writerVars, timerVars
  <1>1. CASE PermitTake(r)
    BY <1>1 DEF PermitTake
  <1>2. CASE PermitBack(r)
    BY <1>2 DEF PermitBack
  <1>3. CASE PermitTrim(r)
    BY <1>3 DEF PermitTrim
  <1>4. CASE PublishTurn(r)
    BY <1>4 DEF PublishTurn, MoreOrPublish
  <1>5. CASE PublishRest(r)
    BY <1>5 DEF PublishRest
  <1>6. QED
    BY <1>1, <1>2, <1>3, <1>4, <1>5

\* The timer's ticks and tests are quiet.
LEMMA QuietTimer ==
  ASSUME QInv, TickWatch \/ TickPad \/ SoftCheck \/ SoftTest \/ UNCHANGED vars
  PROVE  Quiet
  <1> USE QTypes DEF TypeOK, Quiet, HasTicket, HookPending, TimerPending,
                     queueVars, readerVars, writerVars, timerVars
  <1>1. CASE TickWatch
    BY <1>1 DEF TickWatch
  <1>2. CASE TickPad
    BY <1>2 DEF TickPad
  <1>3. CASE SoftCheck
    BY <1>3 DEF SoftCheck
  <1>4. CASE SoftTest
    BY <1>4 DEF SoftTest
  <1>5. CASE UNCHANGED vars
    BY <1>5 DEF vars
  <1>6. QED
    BY <1>1, <1>2, <1>3, <1>4, <1>5

(* Claiming the next position: ReuseAfterRead is what may be lost.         *)
LEMMA NewPosition ==
  ASSUME QInv, w_idx' = w_idx + 1, Starts(w_idx) => RoomFor(w_idx),
         UNCHANGED <<r_idx, q, consumed, rpc, ticket, datum>>
  PROVE  /\ TicketInv' /\ ReuseAfterRead' /\ SlotInv'
         /\ w_idx \in (0..w_idx) \ consumed /\ q[Slot(w_idx)] # w_idx
  <1>1. w_idx \in Nat
    BY QTypes DEF TypeOK
  <1>2. TicketInv'
    BY DEF QInv, TicketInv, HasTicket
  <1>3. ReuseAfterRead'
    <2>1. \A p \in 0..w_idx : p \in 0..(w_idx - 1) \/ p = w_idx
      BY <1>1
    <2>2. \A p \in 0..w_idx : Earlier(p) \subseteq consumed
      BY <2>1, ClaimAfterRead DEF QInv, ReuseAfterRead
    <2>3. w_idx' - 1 = w_idx
      BY <1>1
    <2>4. QED
      BY <2>2, <2>3 DEF ReuseAfterRead
  <1>4. SlotInv'
    <2>1. \A x \in 0..(w_idx - 1) : x \in 0..(w_idx' - 1)
      BY <1>1
    <2>2. QED
      BY <2>1 DEF QInv, SlotInv
  <1>5. w_idx \notin consumed
    BY <1>1 DEF QInv, SlotInv
  <1>6. q[Slot(w_idx)] # w_idx
    <2>1. Slot(w_idx) \in Slots /\ w_idx # Empty
      BY <1>1, SlotType DEF Empty
    <2>2. q[Slot(w_idx)] # Empty => q[Slot(w_idx)] \in 0..(w_idx - 1)
      BY <2>1 DEF QInv, SlotInv
    <2>3. QED
      BY <1>1, <2>1, <2>2
  <1>7. QED
    BY <1>1, <1>2, <1>3, <1>4, <1>5, <1>6

\* A hook's cmpxchg on w_idx, won or lost.
LEMMA InqClaimOrder ==
  ASSUME QInv, NEW w \in Writers, InqClaim(w)
  PROVE  OrderInv'
  <1>0. w_idx \in Nat /\ wpc \in [Writers -> HookPoints] /\ wi \in [Writers -> Nat]
    BY QTypes DEF TypeOK, HookPoints, ThreadPoints
  <1>1. CASE w_idx # wi[w]
    <2>1. Quiet
      BY <1>0, <1>1 DEF InqClaim, Quiet, HasTicket, HookPending, TimerPending, readerVars, timerVars
    <2>2. QED
      BY <2>1, QuietKeeps
  <1>2. CASE w_idx = wi[w]
    <2>1. /\ w_idx' = w_idx + 1 /\ wpc' = [wpc EXCEPT ![w] = "test"] /\ wpc[w] = "claim"
          /\ UNCHANGED <<r_idx, q, consumed, rpc, ticket, datum, wi, spc, si>>
      BY <1>2 DEF InqClaim, readerVars, timerVars
    <2>2. RoomFor(w_idx)
      BY <1>2, <2>1 DEF QInv, RoomInv
    <2>3. /\ TicketInv' /\ ReuseAfterRead' /\ SlotInv'
          /\ w_idx \in (0..w_idx) \ consumed /\ q[Slot(w_idx)] # w_idx
      BY <2>1, <2>2, NewPosition
    <2>4. ClaimInv'
      <3>1. \A v \in Writers : HookPending(v)' <=> HookPending(v) \/ v = w
        BY <1>0, <2>1 DEF HookPending
      <3>2. TimerPending' <=> TimerPending
        BY <2>1 DEF TimerPending
      <3>3. ~HookPending(w)
        BY <2>1 DEF HookPending
      <3>4. \A x \in 0..(w_idx - 1) : x \in 0..(w_idx' - 1) /\ x # w_idx
        BY <1>0, <2>1
      <3>5. w_idx \in (0..(w_idx' - 1)) \ consumed
        BY <1>0, <2>1, <2>3
      <3>6. QED
        BY <1>2, <2>1, <2>3, <3>1, <3>2, <3>3, <3>4, <3>5 DEF QInv, ClaimInv
    <2>5. QED
      BY <2>3, <2>4 DEF OrderInv
  <1>3. QED
    BY <1>1, <1>2

\* The timer's cmpxchg on w_idx, won or lost.
LEMMA SoftClaimOrder ==
  ASSUME QInv, SoftClaim
  PROVE  OrderInv'
  <1>0. w_idx \in Nat
    BY QTypes DEF TypeOK
  <1>1. CASE w_idx # si
    <2>1. Quiet
      BY <1>1 DEF SoftClaim, Quiet, HasTicket, HookPending, TimerPending, readerVars, writerVars
    <2>2. QED
      BY <2>1, QuietKeeps
  <1>2. CASE w_idx = si
    <2>1. /\ w_idx' = w_idx + 1 /\ spc' = "test" /\ spc = "claim"
          /\ UNCHANGED <<r_idx, q, consumed, rpc, ticket, datum, wpc, wi, si>>
      BY <1>2 DEF SoftClaim, readerVars, writerVars
    <2>2. ~Starts(w_idx)
      BY <1>2, <2>1 DEF QInv, PadInv
    <2>3. /\ TicketInv' /\ ReuseAfterRead' /\ SlotInv'
          /\ w_idx \in (0..w_idx) \ consumed /\ q[Slot(w_idx)] # w_idx
      BY <2>1, <2>2, NewPosition
    <2>4. ClaimInv'
      <3>1. \A v \in Writers : HookPending(v)' <=> HookPending(v)
        BY <2>1 DEF HookPending
      <3>2. TimerPending'
        BY <2>1 DEF TimerPending
      <3>4. \A x \in 0..(w_idx - 1) : x \in 0..(w_idx' - 1) /\ x # w_idx
        BY <1>0, <2>1
      <3>5. w_idx \in (0..(w_idx' - 1)) \ consumed
        BY <1>0, <2>1, <2>3
      <3>6. QED
        BY <1>2, <2>1, <2>3, <3>1, <3>2, <3>4, <3>5 DEF QInv, ClaimInv
    <2>5. QED
      BY <2>3, <2>4 DEF OrderInv
  <1>3. QED
    BY <1>1, <1>2

(* Filling a claimed slot: the slot was empty, so no word is lost.         *)
LEMMA StoreKeeps ==
  ASSUME QInv, NEW p \in (0..(w_idx - 1)) \ consumed, q[Slot(p)] = Empty,
         q' = [q EXCEPT ![Slot(p)] = p],
         UNCHANGED <<w_idx, r_idx, consumed, rpc, ticket, datum>>
  PROVE  /\ TicketInv' /\ ReuseAfterRead' /\ SlotInv'
         /\ \A x \in Nat : x # p /\ q[Slot(x)] # x => q'[Slot(x)] # x
  <1>1. /\ w_idx \in Nat /\ p \in Nat /\ q \in [Slots -> Nat \cup {Empty}]
        /\ ticket \in [Readers -> Nat] /\ Slot(p) \in Slots
    BY QTypes, SlotType DEF TypeOK
  <1>2. TicketInv'
    BY DEF QInv, TicketInv, HasTicket
  <1>3. ReuseAfterRead'
    BY DEF QInv, ReuseAfterRead
  <1>4. SlotInv'
    <2>1. \A s \in Slots : q'[s] = IF s = Slot(p) THEN p ELSE q[s]
      BY <1>1
    <2>2. \A r \in Readers : Slot(ticket[r]) \in Slots /\ ticket[r] # Empty
      BY <1>1, SlotType DEF Empty
    <2>3. \A r \in Readers : rpc[r] = "clear" => Slot(ticket[r]) # Slot(p)
      BY <2>2 DEF QInv, SlotInv
    <2>4. \A r \in Readers : rpc'[r] = "clear" =>
            datum'[r] = ticket'[r] /\ q'[Slot(ticket[r])] = ticket[r]
      BY <2>1, <2>2, <2>3 DEF QInv, SlotInv
    <2>5. \A s \in Slots : q'[s] # Empty => q'[s] \in (0..(w_idx - 1)) \ consumed /\ Slot(q'[s]) = s
      BY <2>1 DEF QInv, SlotInv
    <2>6. QED
      BY <2>4, <2>5 DEF QInv, SlotInv
  <1>5. \A x \in Nat : x # p /\ q[Slot(x)] # x => q'[Slot(x)] # x
    BY <1>1, SlotType
  <1>6. QED
    BY <1>2, <1>3, <1>4, <1>5

\* A hook stores its word.
LEMMA InqStoreOrder ==
  ASSUME QInv, NEW w \in Writers, InqStore(w)
  PROVE  OrderInv'
  <1>0. w_idx \in Nat /\ wpc \in [Writers -> HookPoints] /\ wi \in [Writers -> Nat] /\ si \in Nat
    BY QTypes DEF TypeOK, HookPoints, ThreadPoints
  <1>1. /\ q' = [q EXCEPT ![Slot(wi[w])] = wi[w]] /\ wpc[w] = "store"
        /\ UNCHANGED <<w_idx, r_idx, consumed, rpc, ticket, datum, spc, si>>
        /\ wpc'[w] \in {"alloc", "idle"}
        /\ \A v \in Writers \ {w} : wpc'[v] = wpc[v] /\ wi'[v] = wi[v]
    BY <1>0 DEF InqStore, readerVars, timerVars
  <1>2. wi[w] \in (0..(w_idx - 1)) \ consumed /\ q[Slot(wi[w])] = Empty
    BY <1>1, QNoOverlap DEF QInv, ClaimInv, HookPending, NoOverlap
  <1>3. /\ TicketInv' /\ ReuseAfterRead' /\ SlotInv'
        /\ \A x \in Nat : x # wi[w] /\ q[Slot(x)] # x => q'[Slot(x)] # x
    BY <1>1, <1>2, StoreKeeps
  <1>4. ClaimInv'
    <2>1. \A v \in Writers : HookPending(v)' => HookPending(v) /\ v # w /\ wi'[v] = wi[v]
      BY <1>1 DEF HookPending
    <2>2. TimerPending' <=> TimerPending
      BY <1>1 DEF TimerPending
    <2>3. HookPending(w)
      BY <1>1 DEF HookPending
    <2>4. QED
      BY <1>0, <1>1, <1>3, <2>1, <2>2, <2>3 DEF QInv, ClaimInv
  <1>5. QED
    BY <1>3, <1>4 DEF OrderInv

\* The timer stores a filler.
LEMMA SoftStoreOrder ==
  ASSUME QInv, SoftStore
  PROVE  OrderInv'
  <1>0. w_idx \in Nat /\ wi \in [Writers -> Nat] /\ si \in Nat /\ snum \in 0..BlkLen
    BY QTypes DEF TypeOK
  <1>1. /\ q' = [q EXCEPT ![Slot(si)] = si] /\ spc = "store"
        /\ UNCHANGED <<w_idx, r_idx, consumed, rpc, ticket, datum, wpc, wi>>
        /\ spc' \in {"claim", "idle"}
    BY <1>0 DEF SoftStore, readerVars, writerVars
  <1>2. si \in (0..(w_idx - 1)) \ consumed /\ q[Slot(si)] = Empty
    BY <1>1, QNoOverlap DEF QInv, ClaimInv, TimerPending, NoOverlap
  <1>3. /\ TicketInv' /\ ReuseAfterRead' /\ SlotInv'
        /\ \A x \in Nat : x # si /\ q[Slot(x)] # x => q'[Slot(x)] # x
    BY <1>1, <1>2, StoreKeeps
  <1>4. ClaimInv'
    <2>1. \A v \in Writers : HookPending(v)' <=> HookPending(v)
      BY <1>1 DEF HookPending
    <2>2. ~TimerPending' /\ TimerPending
      BY <1>1 DEF TimerPending
    <2>3. QED
      BY <1>0, <1>1, <1>3, <2>1, <2>2 DEF QInv, ClaimInv
  <1>5. QED
    BY <1>3, <1>4 DEF OrderInv

\* Drawing a ticket: no other thread holds it.
LEMMA DeqTicketOrder ==
  ASSUME QInv, NEW r \in Readers, DeqTicket(r)
  PROVE  OrderInv'
  <1>0. /\ r_idx \in Nat /\ ticket \in [Readers -> Nat] /\ rpc \in [Readers -> ThreadPoints]
    BY QTypes DEF TypeOK, HookPoints, ThreadPoints
  <1>1. /\ r_idx' = r_idx + 1 /\ ticket' = [ticket EXCEPT ![r] = r_idx]
        /\ rpc[r] = "ticket" /\ rpc' = [rpc EXCEPT ![r] = "spin"]
        /\ UNCHANGED <<w_idx, q, consumed, datum, wpc, wi, spc, si>>
    BY DEF DeqTicket, writerVars, timerVars
  <1>2. TicketInv'
    <2>1. \A x \in 0..(r_idx - 1) : x \in 0..(r_idx' - 1) /\ x # r_idx
      BY <1>0, <1>1
    <2>2. \A x \in 0..(r_idx' - 1) : x \in 0..(r_idx - 1) \/ x = r_idx
      BY <1>0, <1>1
    <2>3. r_idx \in 0..(r_idx' - 1) /\ r_idx \notin consumed
      BY <1>0, <1>1, <2>1 DEF QInv, TicketInv
    <2>4. \A s \in Readers : HasTicket(s)' <=> HasTicket(s) \/ s = r
      BY <1>0, <1>1 DEF HasTicket
    <2>5. ~HasTicket(r)
      BY <1>1 DEF HasTicket
    <2>6. \A s \in Readers : ticket'[s] = IF s = r THEN r_idx ELSE ticket[s]
      BY <1>0, <1>1
    <2>7. consumed' \subseteq 0..(r_idx' - 1)
      BY <1>1, <2>1 DEF QInv, TicketInv
    <2>8. \A s \in Readers : HasTicket(s)' => ticket'[s] \in (0..(r_idx' - 1)) \ consumed'
      BY <1>1, <2>1, <2>3, <2>4, <2>5, <2>6 DEF QInv, TicketInv
    <2>9. \A s, t \in Readers : s # t /\ HasTicket(s)' /\ HasTicket(t)' => ticket'[s] # ticket'[t]
      BY <2>1, <2>4, <2>5, <2>6 DEF QInv, TicketInv
    <2>10. \A x \in 0..(r_idx' - 1) :
             x \in consumed' \/ \E s \in Readers : HasTicket(s)' /\ ticket'[s] = x
      BY <1>1, <2>2, <2>4, <2>5, <2>6 DEF QInv, TicketInv
    <2>11. QED
      BY <2>7, <2>8, <2>9, <2>10 DEF TicketInv
  <1>3. ReuseAfterRead'
    BY <1>1 DEF QInv, ReuseAfterRead
  <1>4. SlotInv'
    <2>1. \A s \in Readers : rpc'[s] = "clear" => rpc[s] = "clear" /\ ticket'[s] = ticket[s]
      BY <1>0, <1>1
    <2>2. QED
      BY <1>1, <2>1 DEF QInv, SlotInv
  <1>5. ClaimInv'
    BY <1>1 DEF QInv, ClaimInv, HookPending, TimerPending
  <1>6. QED
    BY <1>2, <1>3, <1>4, <1>5 DEF OrderInv

\* The busy wait ends with the word of the ticket.
LEMMA DeqLoadOrder ==
  ASSUME QInv, NEW r \in Readers, DeqLoad(r)
  PROVE  OrderInv'
  <1>0. ticket \in [Readers -> Nat] /\ rpc \in [Readers -> ThreadPoints] /\ datum \in [Readers -> Nat \cup {Empty}]
    BY QTypes DEF TypeOK, HookPoints, ThreadPoints
  <1>1. /\ rpc[r] = "spin" /\ rpc' = [rpc EXCEPT ![r] = "clear"]
        /\ q[Slot(ticket[r])] # Empty /\ datum' = [datum EXCEPT ![r] = q[Slot(ticket[r])]]
        /\ UNCHANGED <<w_idx, r_idx, q, consumed, ticket, wpc, wi, spc, si>>
    BY DEF DeqLoad, queueVars, writerVars, timerVars
  <1>2. q[Slot(ticket[r])] = ticket[r]
    <2>1. ticket[r] \in (0..(r_idx - 1)) \ consumed
      BY <1>1 DEF QInv, TicketInv, HasTicket
    <2>2. QED
      BY <1>1, <2>1, TicketWord
  <1>3. \A s \in Readers : HasTicket(s)' <=> HasTicket(s)
    BY <1>0, <1>1 DEF HasTicket
  <1>4. TicketInv'
    BY <1>1, <1>3 DEF QInv, TicketInv
  <1>5. ReuseAfterRead'
    BY <1>1 DEF QInv, ReuseAfterRead
  <1>6. SlotInv'
    <2>1. \A s \in Readers : rpc'[s] = "clear" =>
            datum'[s] = ticket[s] /\ q[Slot(ticket[s])] = ticket[s]
      BY <1>0, <1>1, <1>2 DEF QInv, SlotInv
    <2>2. QED
      BY <1>1, <2>1 DEF QInv, SlotInv
  <1>7. ClaimInv'
    BY <1>1 DEF QInv, ClaimInv, HookPending, TimerPending
  <1>8. QED
    BY <1>4, <1>5, <1>6, <1>7 DEF OrderInv

\* Emptying the slot takes out the word of the ticket and no other.
LEMMA DeqClearOrder ==
  ASSUME QInv, NEW r \in Readers, DeqClear(r)
  PROVE  OrderInv'
  <1> DEFINE t == ticket[r]
  <1>0. /\ ticket \in [Readers -> Nat] /\ rpc \in [Readers -> ThreadPoints] /\ r_idx \in Nat /\ w_idx \in Nat
        /\ datum \in [Readers -> Nat \cup {Empty}] /\ q \in [Slots -> Nat \cup {Empty}]
        /\ t \in Nat /\ Slot(t) \in Slots /\ wi \in [Writers -> Nat] /\ si \in Nat
    BY QTypes, SlotType DEF TypeOK, HookPoints, ThreadPoints
  <1>1. /\ rpc[r] = "clear" /\ q' = [q EXCEPT ![Slot(t)] = Empty]
        /\ consumed' = consumed \cup {datum[r]}
        /\ datum' = [datum EXCEPT ![r] = Empty]
        /\ UNCHANGED <<w_idx, r_idx, wpc, wi, spc, si>>
        /\ rpc'[r] \in {"ticket", "publish", "turn"}
        /\ \A s \in Readers \ {r} : rpc'[s] = rpc[s] /\ ticket'[s] = ticket[s]
    BY <1>0 DEF DeqClear, Account, MoreOrPublish, writerVars, timerVars
  <1>2. /\ datum[r] = t /\ q[Slot(t)] = t /\ t \in (0..(r_idx - 1)) \ consumed
        /\ t # Empty
    BY <1>0, <1>1 DEF QInv, SlotInv, TicketInv, HasTicket, Empty
  <1>3. t \in (0..(w_idx - 1)) \ consumed /\ consumed' = consumed \cup {t}
    BY <1>0, <1>1, <1>2 DEF QInv, SlotInv
  <1>4. \A s \in Readers : HasTicket(s)' => HasTicket(s) /\ s # r /\ ticket'[s] = ticket[s]
    BY <1>1 DEF HasTicket
  <1>5. \A s \in Readers : HasTicket(s) => HasTicket(s)' \/ s = r
    BY <1>1 DEF HasTicket
  <1>6. HasTicket(r)
    BY <1>1 DEF HasTicket
  <1> HIDE DEF t
  <1>7. TicketInv'
    <2>1. consumed' \subseteq 0..(r_idx' - 1)
      BY <1>1, <1>2, <1>3 DEF QInv, TicketInv
    <2>2. \A s \in Readers : HasTicket(s)' => ticket'[s] \in (0..(r_idx' - 1)) \ consumed'
      BY <1>1, <1>3, <1>4, <1>6 DEF QInv, TicketInv, t
    <2>3. \A s, u \in Readers : s # u /\ HasTicket(s)' /\ HasTicket(u)' => ticket'[s] # ticket'[u]
      BY <1>4 DEF QInv, TicketInv
    <2>4. \A x \in 0..(r_idx' - 1) :
            x \in consumed' \/ \E s \in Readers : HasTicket(s)' /\ ticket'[s] = x
      BY <1>1, <1>3, <1>4, <1>5 DEF QInv, TicketInv, t
    <2>5. QED
      BY <2>1, <2>2, <2>3, <2>4 DEF TicketInv
  <1>8. ReuseAfterRead'
    BY <1>1, <1>3 DEF QInv, ReuseAfterRead
  <1>9. \A s \in Slots : q'[s] = IF s = Slot(t) THEN Empty ELSE q[s]
    BY <1>0, <1>1
  <1>10. SlotInv'
    <2>1. consumed' \subseteq 0..(w_idx' - 1)
      BY <1>1, <1>3 DEF QInv, SlotInv
    <2>2. \A s \in Slots : q'[s] # Empty => q'[s] \in (0..(w_idx - 1)) \ consumed' /\ Slot(q'[s]) = s
      BY <1>3, <1>9 DEF QInv, SlotInv
    <2>3. ASSUME NEW s \in Readers, rpc'[s] = "clear"
          PROVE  datum'[s] = ticket'[s] /\ q'[Slot(ticket'[s])] = ticket'[s]
      <3>1. s # r /\ rpc[s] = "clear" /\ ticket'[s] = ticket[s] /\ datum'[s] = datum[s]
        BY <1>0, <1>1, <2>3
      <3>2. datum[s] = ticket[s] /\ q[Slot(ticket[s])] = ticket[s] /\ ticket[s] # t
        BY <1>6, <3>1 DEF QInv, SlotInv, TicketInv, HasTicket, t
      <3>3. Slot(ticket[s]) # Slot(t) /\ Slot(ticket[s]) \in Slots
        BY <1>0, <1>2, <3>2, SlotType
      <3>4. QED
        BY <1>9, <3>1, <3>2, <3>3
    <2>4. QED
      BY <1>1, <2>1, <2>2, <2>3 DEF SlotInv
  <1>11. ClaimInv'
    <2>1. ASSUME NEW x \in (0..(w_idx - 1)) \ consumed, q[Slot(x)] # x
          PROVE  x \in (0..(w_idx' - 1)) \ consumed' /\ q'[Slot(x)] # x
      <3>1. x # t /\ x \in Nat /\ Slot(x) \in Slots /\ x # Empty
        BY <1>0, <1>2, <2>1, SlotType DEF Empty
      <3>2. QED
        BY <1>1, <1>3, <1>9, <2>1, <3>1
    <2>2. (\A w \in Writers : HookPending(w)' <=> HookPending(w)) /\ (TimerPending' <=> TimerPending)
      BY <1>1 DEF HookPending, TimerPending
    <2>3. QED
      BY <1>1, <2>1, <2>2 DEF QInv, ClaimInv
  <1>12. QED
    BY <1>7, <1>8, <1>10, <1>11 DEF OrderInv

\* Every step of hooks, threads and timer keeps the relations.
LEMMA OrderStep ==
  ASSUME QInv, [Next]_vars
  PROVE  OrderInv'
  <1>1. ASSUME NEW w \in Writers, InqLoad(w) \/ Hook(w)
        PROVE  OrderInv'
    BY <1>1, QuietKeeps, QuietHook, InqClaimOrder, InqStoreOrder DEF Hook
  <1>2. ASSUME NEW r \in Readers, Thread(r)
        PROVE  OrderInv'
    BY <1>2, QuietKeeps, QuietThread, DeqTicketOrder, DeqLoadOrder, DeqClearOrder DEF Thread
  <1>3. CASE Timer \/ UNCHANGED vars
    BY <1>3, QuietKeeps, QuietTimer, SoftClaimOrder, SoftStoreOrder DEF Timer
  <1>4. QED
    BY <1>1, <1>2, <1>3 DEF Next

-----------------------------------------------------------------------------
(* The timer's padding and the room test.                                  *)

\* The timer stays inside the block it pads.
LEMMA PadStep ==
  ASSUME QInv, [Next]_vars
  PROVE  PadInv'
  <1> USE DEF PadInv
  <1>0. PadInv /\ si \in Nat /\ w_idx \in Nat /\ snum \in 0..BlkLen /\ seen \in Int
    BY QTypes DEF QInv, TypeOK
  <1>1. ASSUME UNCHANGED <<spc, si, snum>> PROVE PadInv'
    BY <1>0, <1>1
  <1>2. ASSUME NEW w \in Writers, InqLoad(w) \/ Hook(w) PROVE PadInv'
    BY <1>1, <1>2 DEF Hook, InqLoad, InqCheck, InqClaim, InqTest, InqStore, InqAlloc, timerVars
  <1>3. ASSUME NEW r \in Readers, Thread(r) PROVE PadInv'
    BY <1>1, <1>3 DEF Thread, PermitTake, PermitBack, PermitTrim, DeqTicket, DeqLoad,
                      DeqClear, PublishTurn, PublishRest, timerVars
  <1>4. CASE TickWatch
    BY <1>1, <1>4 DEF TickWatch
  <1>5. CASE TickPad
    BY <1>0, <1>5 DEF TickPad
  <1>6. CASE SoftCheck
    BY <1>0, <1>6 DEF SoftCheck
  <1>7. CASE SoftClaim
    BY <1>0, <1>7 DEF SoftClaim
  <1>8. CASE SoftTest
    BY <1>0, <1>8 DEF SoftTest
  <1>9. CASE SoftStore
    <2>1. spc = "store" /\ snum = PadLen(si) /\ ~Starts(si) /\ snum' = snum - 1
      BY <1>0, <1>9 DEF SoftStore
    <2>2. CASE snum - 1 > 0
      <3>1. ~Starts(si + 1) /\ PadLen(si + 1) = PadLen(si) - 1
        BY <1>0, <2>1, <2>2, NextInBlock
      <3>2. spc' = "claim" /\ si' = si + 1
        BY <1>9, <2>2 DEF SoftStore
      <3>3. QED
        BY <2>1, <3>1, <3>2
    <2>3. CASE ~(snum - 1 > 0)
      BY <1>9, <2>3 DEF SoftStore
    <2>4. QED
      BY <2>2, <2>3
  <1>10. CASE UNCHANGED vars
    BY <1>1, <1>10 DEF vars, timerVars
  <1>11. QED
    BY <1>2, <1>3, <1>4, <1>5, <1>6, <1>7, <1>8, <1>9, <1>10 DEF Next, Timer

(* Read counts never shrink.                                               *)
LEMMA CountsGrow ==
  ASSUME QInv, [Next]_vars
  PROVE  \A b \in Blks : r_cnt'[b] >= r_cnt[b]
  <1>0. /\ r_cnt \in [Blks -> Nat] /\ local_idx \in [Readers -> Blks]
        /\ \A r \in Readers : read_cnt[r] \in Nat
    BY QTypes, GeometryAssumption DEF TypeOK
  <1>1. ASSUME r_cnt' = r_cnt PROVE \A b \in Blks : r_cnt'[b] >= r_cnt[b]
    BY <1>0, <1>1
  <1>2. ASSUME NEW w \in Writers, InqLoad(w) \/ Hook(w)
        PROVE  r_cnt' = r_cnt
    BY <1>2 DEF Hook, InqLoad, InqCheck, InqClaim, InqTest, InqStore, InqAlloc, queueVars
  <1>3. ASSUME NEW r \in Readers, Thread(r)
        PROVE  \A b \in Blks : r_cnt'[b] >= r_cnt[b]
    <2>1. CASE PublishTurn(r) \/ PublishRest(r)
      <3>1. r_cnt' = [r_cnt EXCEPT ![local_idx[r]] = @ + read_cnt[r]]
        BY <2>1 DEF PublishTurn, PublishRest, CountedBlock
      <3>2. QED
        BY <1>0, <3>1
    <2>2. CASE ~(PublishTurn(r) \/ PublishRest(r))
      <3>1. r_cnt' = r_cnt
        BY <1>3, <2>2 DEF Thread, PermitTake, PermitBack, PermitTrim, DeqTicket, DeqLoad,
                          DeqClear, queueVars
      <3>2. QED
        BY <1>1, <3>1
    <2>3. QED
      BY <2>1, <2>2
  <1>4. CASE Timer \/ UNCHANGED vars
    <2>1. r_cnt' = r_cnt
      BY <1>4 DEF Timer, TickWatch, TickPad, SoftCheck, SoftClaim, SoftTest, SoftStore,
                  queueVars, vars
    <2>2. QED
      BY <1>1, <2>1
  <1>5. QED
    BY <1>1, <1>2, <1>3, <1>4 DEF Next

(* What a step does to the control points of the hooks.                    *)
LEMMA HooksMove ==
  ASSUME QInv, [Next]_vars
  PROVE  \A w \in Writers :
           /\ wpc'[w] = "claim" => wi'[w] = wi[w] /\ (wpc[w] = "claim" \/ RoomFor(wi[w]))
           /\ wpc'[w] = "alloc" => wi'[w] = wi[w] /\ (wpc[w] = "alloc" \/ Starts(wi[w]))
  <1> DEFINE Goal == \A w \in Writers :
           /\ wpc'[w] = "claim" => wi'[w] = wi[w] /\ (wpc[w] = "claim" \/ RoomFor(wi[w]))
           /\ wpc'[w] = "alloc" => wi'[w] = wi[w] /\ (wpc[w] = "alloc" \/ Starts(wi[w]))
  <1>0. wpc \in [Writers -> HookPoints] /\ wi \in [Writers -> Nat]
    BY QTypes DEF TypeOK, HookPoints
  <1>1. ASSUME UNCHANGED <<wpc, wi>> PROVE Goal
    BY <1>1
  <1>2. ASSUME NEW r \in Readers, Thread(r) PROVE Goal
    BY <1>1, <1>2 DEF Thread, PermitTake, PermitBack, PermitTrim, DeqTicket, DeqLoad,
                      DeqClear, PublishTurn, PublishRest, writerVars
  <1>3. CASE Timer \/ UNCHANGED vars
    BY <1>1, <1>3 DEF Timer, TickWatch, TickPad, SoftCheck, SoftClaim, SoftTest, SoftStore,
                      writerVars, vars
  <1>4. ASSUME NEW w \in Writers, InqLoad(w) \/ Hook(w) PROVE Goal
    <2>1. CASE InqLoad(w)
      BY <1>0, <2>1 DEF InqLoad
    <2>2. CASE InqCheck(w)
      BY <1>0, <2>2 DEF InqCheck
    <2>3. CASE InqClaim(w)
      BY <1>0, <2>3 DEF InqClaim
    <2>4. CASE InqTest(w)
      BY <1>0, <2>4 DEF InqTest
    <2>5. CASE InqStore(w)
      BY <1>0, <2>5 DEF InqStore
    <2>6. CASE InqAlloc(w)
      BY <1>0, <2>6 DEF InqAlloc
    <2>7. QED
      BY <1>4, <2>1, <2>2, <2>3, <2>4, <2>5, <2>6 DEF Hook
  <1>5. QED
    BY <1>2, <1>3, <1>4 DEF Next

\* Room that was seen stays, because read counts never shrink.
LEMMA RoomStep ==
  ASSUME QInv, PermitInv', [Next]_vars
  PROVE  RoomInv' /\ OpenerInv'
  <1>1. OpenerInv'
    BY HooksMove DEF QInv, OpenerInv
  <1>2. r_cnt \in [Blks -> Nat] /\ r_cnt' \in [Blks -> Nat] /\ wi \in [Writers -> Nat]
    BY QTypes DEF PermitInv, IInv, TypeOK
  <1>3. ASSUME NEW w \in Writers, wpc'[w] = "claim"
        PROVE  RoomFor(wi[w])' /\ wi'[w] = wi[w]
    <2>1. wi'[w] = wi[w] /\ RoomFor(wi[w]) /\ wi[w] \in Nat
      BY <1>2, <1>3, HooksMove DEF QInv, RoomInv
    <2> DEFINE p == wi[w]
               n == BlkLen * Lap(p)
    <2>2. Blk(p) \in Blks /\ n \in Int
      <3>1. Blk(p) \in Blks /\ Lap(p) \in Int /\ BlkLen \in Int
        BY <2>1, Parts, GeometryAssumption
      <3>2. QED
        BY <3>1
    <2>3. r_cnt[Blk(p)] >= n
      BY <1>2, <2>1, RoomMeans
    <2>4. r_cnt'[Blk(p)] >= n
      <3>1. r_cnt'[Blk(p)] >= r_cnt[Blk(p)] /\ r_cnt'[Blk(p)] \in Int /\ r_cnt[Blk(p)] \in Int
        BY <1>2, <2>2, CountsGrow
      <3> HIDE DEF n
      <3>2. QED
        BY <2>2, <2>3, <3>1
    <2>5. r_cnt'[Blk(p)] \div BlkLen >= Lap(p)
      <3> DEFINE c == r_cnt'[Blk(p)]
                 d == c \div BlkLen
                 m == c % BlkLen
                 l == Lap(p)
      <3>1. c \in Nat /\ BlkLen \in Nat \ {0} /\ l \in Nat
        BY <1>2, <2>1, <2>2, Parts, GeometryAssumption
      <3>2. d \in Nat /\ m \in 0..(BlkLen - 1) /\ c = BlkLen * d + m
        BY <3>1, DivMod, Zenon
      <3>3. c >= BlkLen * l
        BY <2>4
      <3> HIDE DEF c, d, m, l
      <3>4. ASSUME d < l PROVE FALSE
        <4>1. BlkLen * d + BlkLen <= BlkLen * l /\ BlkLen * l \in Int /\ BlkLen * d \in Int
          BY <3>1, <3>2, <3>4, ProductGap
        <4>2. QED
          BY <3>1, <3>2, <3>3, <4>1
      <3>5. QED
        BY <3>1, <3>2, <3>4 DEF c, d, l
    <2>6. QED
      BY <2>1, <2>5 DEF RoomFor
  <1>4. QED
    BY <1>1, <1>3 DEF RoomInv

-----------------------------------------------------------------------------
(* Every block is opened once.                                             *)

\* The hook is one of Openers.
Opens(w) == wpc[w] \in {"test", "store", "alloc"} /\ Starts(wi[w])

(* A step in which the hooks on their way to issue permits stay the same.  *)
LEMMA OpenersStay ==
  ASSUME QInv, dbg_p_total' = dbg_p_total, Ceil(w_idx') = Ceil(w_idx),
         \A w \in Writers : Opens(w)' <=> Opens(w)
  PROVE  OpenedOnce'
  <1>1. Openers' = Openers
    BY DEF Openers, Opens
  <1>2. QED
    BY <1>1 DEF QInv, OpenedOnce, BlocksClaimed, Ceil

\* There are finitely many hooks on their way to issue permits.
LEMMA OpenersCount == IsFiniteSet(Openers) /\ Cardinality(Openers) \in Nat
  <1>1. IsFiniteSet(Openers)
    BY WritersAssumption, FS_Subset DEF Openers
  <1>2. QED
    BY <1>1, FS_CardinalityType

\* Claiming the first position of a block adds one hook that will open it.
LEMMA InqClaimOpens ==
  ASSUME QInv, NEW w \in Writers, InqClaim(w)
  PROVE  OpenedOnce'
  <1>0. w_idx \in Nat /\ wpc \in [Writers -> HookPoints] /\ wi \in [Writers -> Nat]
        /\ BlkLen \in Nat /\ dbg_p_total \in Nat
    BY QTypes, GeometryAssumption DEF TypeOK, HookPoints
  <1>1. CASE w_idx # wi[w]
    BY <1>0, <1>1, OpenersStay DEF InqClaim, Opens
  <1>2. CASE w_idx = wi[w]
    <2>1. /\ w_idx' = w_idx + 1 /\ wpc' = [wpc EXCEPT ![w] = "test"] /\ wpc[w] = "claim"
          /\ UNCHANGED <<wi, dbg_p_total>>
      BY <1>2 DEF InqClaim
    <2>2. CASE Starts(w_idx)
      <3>1. Openers' = Openers \cup {w} /\ w \notin Openers
        BY <1>0, <1>2, <2>1, <2>2 DEF Openers
      <3>2. Cardinality(Openers') = Cardinality(Openers) + 1
        BY <3>1, OpenersCount, FS_AddElement
      <3>3. Ceil(w_idx + 1) = Ceil(w_idx) + 1 /\ Ceil(w_idx) \in Nat
        BY <1>0, <2>2, StartsIsMod, CeilStart
      <3> DEFINE n == Cardinality(Openers)
                 c == Ceil(w_idx)
      <3>4. dbg_p_total + BlkLen * n = BlkLen * c /\ n \in Nat
        BY OpenersCount DEF QInv, OpenedOnce, BlocksClaimed, Ceil
      <3>5. BlkLen * (n + 1) = BlkLen * n + BlkLen /\ BlkLen * (c + 1) = BlkLen * c + BlkLen
            /\ BlkLen * n \in Int /\ BlkLen * c \in Int
        <4>1. ASSUME NEW x \in Nat
              PROVE  BlkLen * (x + 1) = BlkLen * x + BlkLen /\ BlkLen * x \in Int
          BY <1>0
        <4>2. QED
          BY <3>3, <3>4, <4>1
      <3>6. dbg_p_total' + BlkLen * Cardinality(Openers') = BlkLen * Ceil(w_idx')
        <4> HIDE DEF n, c
        <4>1. dbg_p_total + BlkLen * (n + 1) = BlkLen * (c + 1)
          BY <1>0, <3>4, <3>5
        <4>2. Ceil(w_idx') = c + 1 /\ Cardinality(Openers') = n + 1 /\ dbg_p_total' = dbg_p_total
          BY <2>1, <3>2, <3>3 DEF n, c
        <4>3. QED
          BY <4>1, <4>2
      <3>7. QED
        BY <3>6 DEF OpenedOnce, BlocksClaimed, Ceil
    <2>3. CASE ~Starts(w_idx)
      <3>1. Ceil(w_idx') = Ceil(w_idx)
        BY <1>0, <2>1, <2>3, StartsIsMod, CeilInside
      <3>2. \A v \in Writers : Opens(v)' <=> Opens(v)
        BY <1>0, <1>2, <2>1, <2>3 DEF Opens
      <3>3. QED
        BY <2>1, <3>1, <3>2, OpenersStay
    <2>4. QED
      BY <2>2, <2>3
  <1>3. QED
    BY <1>1, <1>2

\* Issuing the permits ends the opening of a block.
LEMMA InqAllocOpens ==
  ASSUME QInv, NEW w \in Writers, InqAlloc(w)
  PROVE  OpenedOnce'
  <1>0. wpc \in [Writers -> HookPoints] /\ wi \in [Writers -> Nat]
        /\ BlkLen \in Nat /\ dbg_p_total \in Nat /\ w_idx \in Nat
    BY QTypes, GeometryAssumption DEF TypeOK, HookPoints
  <1>1. /\ dbg_p_total' = dbg_p_total + BlkLen /\ w_idx' = w_idx
        /\ wpc[w] = "alloc" /\ wpc' = [wpc EXCEPT ![w] = "idle"] /\ wi' = [wi EXCEPT ![w] = 0]
    BY DEF InqAlloc
  <1>2. Openers' = Openers \ {w} /\ w \in Openers
    <2>1. Starts(wi[w])
      BY <1>1 DEF QInv, OpenerInv
    <2>2. QED
      BY <1>0, <1>1, <2>1 DEF Openers
  <1> DEFINE n == Cardinality(Openers)
             m == Cardinality(Openers')
             C == BlkLen * Ceil(w_idx)
  <1>3. m = n - 1 /\ n \in Nat
    BY <1>2, OpenersCount, FS_RemoveElement
  <1>4. dbg_p_total + BlkLen * n = C
    BY DEF QInv, OpenedOnce, BlocksClaimed, Ceil
  <1>5. dbg_p_total' + BlkLen * m = C
    <2> HIDE DEF n, m, C
    <2>1. BlkLen * m = BlkLen * n - BlkLen /\ BlkLen * n \in Int
      BY <1>0, <1>3
    <2>2. QED
      BY <1>0, <1>1, <1>4, <2>1
  <1>6. QED
    BY <1>1, <1>5 DEF OpenedOnce, BlocksClaimed, Ceil

\* Every step keeps the count of blocks opened.
LEMMA OpenedStep ==
  ASSUME QInv, [Next]_vars
  PROVE  OpenedOnce'
  <1>0. wpc \in [Writers -> HookPoints] /\ wi \in [Writers -> Nat] /\ w_idx \in Nat
    BY QTypes DEF TypeOK, HookPoints
  <1>1. ASSUME UNCHANGED <<wpc, wi, w_idx, dbg_p_total>> PROVE OpenedOnce'
    BY <1>1, OpenersStay DEF Opens
  <1>2. ASSUME NEW r \in Readers, Thread(r) PROVE OpenedOnce'
    BY <1>1, <1>2 DEF Thread, PermitTake, PermitBack, PermitTrim, DeqTicket, DeqLoad,
                      DeqClear, PublishTurn, PublishRest, writerVars, queueVars
  <1>3. CASE Timer \/ UNCHANGED vars
    <2>1. CASE SoftClaim /\ w_idx = si
      <3>1. w_idx' = w_idx + 1 /\ UNCHANGED <<wpc, wi, dbg_p_total>> /\ spc = "claim"
        BY <2>1 DEF SoftClaim, writerVars
      <3>2. ~Starts(w_idx)
        BY <2>1, <3>1 DEF QInv, PadInv
      <3>3. Ceil(w_idx') = Ceil(w_idx)
        BY <1>0, <3>1, <3>2, StartsIsMod, CeilInside
      <3>4. QED
        BY <3>1, <3>3, OpenersStay DEF Opens
    <2>2. CASE ~(SoftClaim /\ w_idx = si)
      BY <1>1, <1>3, <2>2 DEF Timer, TickWatch, TickPad, SoftCheck, SoftClaim, SoftTest,
                              SoftStore, writerVars, queueVars, vars
    <2>3. QED
      BY <2>1, <2>2
  <1>4. ASSUME NEW w \in Writers, InqLoad(w) \/ Hook(w) PROVE OpenedOnce'
    <2>1. CASE InqLoad(w)
      BY <1>0, <2>1, OpenersStay DEF InqLoad, Opens, queueVars
    <2>2. CASE InqCheck(w)
      BY <1>0, <2>2, OpenersStay DEF InqCheck, Opens, queueVars
    <2>3. CASE InqTest(w)
      <3>1. q[Slot(wi[w])] = Empty
        BY <2>3, QNoOverlap DEF NoOverlap, InqTest
      <3>2. QED
        BY <1>0, <2>3, <3>1, OpenersStay DEF InqTest, Opens, queueVars
    <2>4. CASE InqStore(w)
      BY <1>0, <2>4, OpenersStay DEF InqStore, Opens
    <2>5. QED
      BY <1>4, <2>1, <2>2, <2>3, <2>4, InqClaimOpens, InqAllocOpens DEF Hook
  <1>5. QED
    BY <1>2, <1>3, <1>4 DEF Next

-----------------------------------------------------------------------------
(* What was read and what was published.                                   *)

Unread(b) == Total(Readers, Suggest, [r \in Readers |-> Unpublished(b, r)])

UnpublishedTyped == \A b \in Blks, r \in Readers : Unpublished(b, r) \in 0..Suggest

\* A thread carries at most as many reads as it was granted.
LEMMA UnpublishedType == IInv => UnpublishedTyped
  <1> SUFFICES ASSUME IInv, NEW b \in Blks, NEW r \in Readers
               PROVE  Unpublished(b, r) \in 0..Suggest
    BY DEF UnpublishedTyped
  <1>1. /\ read_cnt[r] \in 0..Suggest /\ pmt[r] \in 0..Suggest /\ Suggest \in Nat \ {0}
        /\ pmt[r] + read_cnt[r] + (IF rpc[r] = "turn" THEN 1 ELSE 0) <= Suggest
    BY GeometryAssumption DEF IInv, TypeOK, LocalsOK
  <1>2. QED
    BY <1>1 DEF Unpublished

(* A step that touches the counts of one thread.                           *)
LEMMA ReadUpdate ==
  ASSUME QInv, IInv', NEW r \in Readers, NEW b \in Blks, NEW d \in Nat,
         \A x \in Readers \ {r} : Unpublished(b, x)' = Unpublished(b, x),
         r_cnt'[b] + Unpublished(b, r)' = r_cnt[b] + Unpublished(b, r) + d
  PROVE  r_cnt'[b] + Unread(b)' = r_cnt[b] + Unread(b) + d
  <1> DEFINE f == [x \in Readers |-> Unpublished(b, x)]
             g == [x \in Readers |-> Unpublished(b, x)']
  <1>1. UnpublishedTyped /\ UnpublishedTyped'
    BY QTypes, UnpublishedType, PTL
  <1>2. f \in [Readers -> 0..Suggest] /\ g \in [Readers -> 0..Suggest]
    BY <1>1 DEF UnpublishedTyped
  <1>3. /\ f[r] = Unpublished(b, r) /\ g[r] = Unpublished(b, r)'
        /\ \A x \in Readers \ {r} : g[x] = f[x]
    OBVIOUS
  <1>4. Unread(b) = Total(Readers, Suggest, f) /\ Unread(b)' = Total(Readers, Suggest, g)
    BY DEF Unread
  <1>5. Suggest \in Nat /\ r_cnt[b] \in Nat /\ r_cnt'[b] \in Nat
    BY QTypes, GeometryAssumption DEF IInv, TypeOK
  <1> HIDE DEF f, g
  <1>6. Total(Readers, Suggest, g) = Total(Readers, Suggest, f) - f[r] + g[r]
    BY <1>2, <1>3, <1>5, ReadersAssumption, TotalUpdate
  <1>7. Total(Readers, Suggest, f) \in Nat /\ f[r] \in Nat /\ g[r] \in Nat
    BY <1>2, <1>5, ReadersAssumption, TotalType
  <1>8. QED
    BY <1>3, <1>4, <1>5, <1>6, <1>7

\* The ledger of one block.
Booked(b) == r_cnt[b] + Unread(b) = Cardinality(ConsumedIn(b))

\* ReadLedger is the ledger of every block.
LEMMA BookedMeans == ReadLedger <=> \A b \in Blks : Booked(b)
  BY DEF ReadLedger, Booked, Unread, ConsumedIn

\* A step that touches no count keeps the ledger.
LEMMA BookedStays ==
  ASSUME QInv, UNCHANGED <<r_cnt, consumed>>,
         \A b \in Blks, r \in Readers : Unpublished(b, r)' = Unpublished(b, r)
  PROVE  ReadLedger'
  <1>1. \A b \in Blks : Unread(b)' = Unread(b)
    BY DEF Unread
  <1>2. \A b \in Blks : Booked(b)'
    BY <1>1, BookedMeans DEF QInv, Booked, ConsumedIn
  <1>3. QED
    BY <1>2 DEF ReadLedger, Booked, Unread, ConsumedIn

\* A read is counted once, for the block it was made in.
LEMMA DeqClearBooked ==
  ASSUME QInv, IInv', NEW r \in Readers, DeqClear(r)
  PROVE  ReadLedger'
  <1> DEFINE t == ticket[r]
  <1>0. /\ t \in Nat /\ Blk(t) \in Blks /\ w_idx \in Nat /\ local_idx \in [Readers -> Blks]
        /\ rpc \in [Readers -> ThreadPoints] /\ read_cnt \in [Readers -> 0..Suggest]
        /\ ticket \in [Readers -> Nat] /\ Suggest \in Nat /\ r_cnt \in [Blks -> Nat]
    BY QTypes, BlkType, GeometryAssumption DEF TypeOK, ThreadPoints
  <1>1. rpc[r] = "clear" /\ consumed' = consumed \cup {t} /\ r_cnt' = r_cnt
    BY DEF DeqClear, QInv, SlotInv
  <1>2. t \notin consumed
    BY <1>1 DEF QInv, TicketInv, HasTicket
  <1>3. /\ \A x \in Readers \ {r} : /\ rpc'[x] = rpc[x] /\ ticket'[x] = ticket[x]
                                    /\ read_cnt'[x] = read_cnt[x] /\ local_idx'[x] = local_idx[x]
        /\ \/ /\ read_cnt[r] = 0 \/ Blk(t) = local_idx[r]
              /\ read_cnt'[r] = read_cnt[r] + 1 /\ local_idx'[r] = Blk(t)
              /\ rpc'[r] # "turn"
           \/ /\ read_cnt' = read_cnt /\ local_idx' = local_idx /\ ticket' = ticket
              /\ rpc'[r] = "turn"
    BY <1>0 DEF DeqClear, Account, MoreOrPublish
  <1>4. ASSUME NEW b \in Blks
        PROVE  r_cnt'[b] + Unread(b)' = Cardinality(ConsumedIn(b)')
    <2> DEFINE d == IF b = Blk(t) THEN 1 ELSE 0
    <2>1. \A x \in Readers \ {r} : Unpublished(b, x)' = Unpublished(b, x)
      BY <1>3 DEF Unpublished
    <2>2. r_cnt'[b] + Unpublished(b, r)' = r_cnt[b] + Unpublished(b, r) + d
      <3>1. r_cnt'[b] = r_cnt[b] /\ r_cnt[b] \in Nat /\ read_cnt[r] \in Nat
        BY <1>0, <1>1
      <3>2. Unpublished(b, r) = IF local_idx[r] = b THEN read_cnt[r] ELSE 0
        BY <1>1, <3>1 DEF Unpublished
      <3>3. Unpublished(b, r)' = Unpublished(b, r) + d
        BY <1>3, <3>1, <3>2 DEF Unpublished
      <3>4. Unpublished(b, r) \in Nat
        BY <3>1, <3>2
      <3> HIDE DEF d
      <3>5. d \in Nat
        BY DEF d
      <3>6. QED
        BY <3>1, <3>3, <3>4, <3>5
    <2>3. r_cnt'[b] + Unread(b)' = r_cnt[b] + Unread(b) + d
      BY <2>1, <2>2, ReadUpdate
    <2>4. r_cnt[b] + Unread(b) = Cardinality(ConsumedIn(b))
      BY BookedMeans DEF QInv, Booked
    <2>5. Cardinality(ConsumedIn(b)') = Cardinality(ConsumedIn(b)) + d
      <3>1. IsFiniteSet(ConsumedIn(b)) /\ Cardinality(ConsumedIn(b)) \in Nat
        <4>1. IsFiniteSet(0..(w_idx - 1))
          BY <1>0, FS_Interval
        <4>2. ConsumedIn(b) \subseteq 0..(w_idx - 1)
          BY DEF QInv, SlotInv, ConsumedIn
        <4>3. QED
          BY <4>1, <4>2, FS_Subset, FS_CardinalityType
      <3>2. CASE b = Blk(t)
        <4>1. ConsumedIn(b)' = ConsumedIn(b) \cup {t} /\ t \notin ConsumedIn(b)
          BY <1>1, <1>2, <3>2 DEF ConsumedIn
        <4>2. QED
          BY <3>1, <3>2, <4>1, FS_AddElement
      <3>3. CASE b # Blk(t)
        <4>1. ConsumedIn(b)' = ConsumedIn(b)
          BY <1>1, <3>3 DEF ConsumedIn
        <4>2. QED
          BY <3>1, <3>3, <4>1
      <3>4. QED
        BY <3>2, <3>3
    <2>6. QED
      BY <2>3, <2>4, <2>5
  <1>5. QED
    BY <1>4 DEF ReadLedger, Unread, ConsumedIn

\* Publishing moves the thread's count to r_cnt of the same block.
LEMMA PublishBooked ==
  ASSUME QInv, IInv', NEW r \in Readers, PublishTurn(r) \/ PublishRest(r)
  PROVE  ReadLedger'
  <1>0. /\ local_idx \in [Readers -> Blks] /\ ticket \in [Readers -> Nat]
        /\ rpc \in [Readers -> ThreadPoints] /\ read_cnt \in [Readers -> 0..Suggest]
        /\ Suggest \in Nat /\ r_cnt \in [Blks -> Nat]
    BY QTypes, GeometryAssumption DEF TypeOK, ThreadPoints
  <1>1. /\ r_cnt' = [r_cnt EXCEPT ![local_idx[r]] = @ + read_cnt[r]] /\ consumed' = consumed
        /\ \A x \in Readers \ {r} : /\ rpc'[x] = rpc[x] /\ ticket'[x] = ticket[x]
                                    /\ read_cnt'[x] = read_cnt[x] /\ local_idx'[x] = local_idx[x]
        /\ \/ /\ rpc[r] = "turn" /\ read_cnt'[r] = 1 /\ local_idx'[r] = Blk(ticket[r])
              /\ rpc'[r] # "turn"
           \/ rpc[r] = "publish" /\ read_cnt'[r] = 0 /\ rpc'[r] # "turn"
    BY <1>0 DEF PublishTurn, PublishRest, CountedBlock, MoreOrPublish
  <1>2. ASSUME NEW b \in Blks
        PROVE  r_cnt'[b] + Unread(b)' = Cardinality(ConsumedIn(b)')
    <2>1. \A x \in Readers \ {r} : Unpublished(b, x)' = Unpublished(b, x)
      BY <1>1 DEF Unpublished
    <2>2. r_cnt'[b] + Unpublished(b, r)' = r_cnt[b] + Unpublished(b, r) + 0
      <3>1. /\ r_cnt'[b] = r_cnt[b] + (IF local_idx[r] = b THEN read_cnt[r] ELSE 0)
            /\ r_cnt[b] \in Nat /\ read_cnt[r] \in Nat
        BY <1>0, <1>1
      <3>2. CASE rpc[r] = "turn"
        <4>1. Unpublished(b, r)' = IF Blk(ticket[r]) = b THEN 1 ELSE 0
          BY <1>1, <3>2 DEF Unpublished
        <4>2. Unpublished(b, r) = (IF local_idx[r] = b THEN read_cnt[r] ELSE 0)
                                     + (IF Blk(ticket[r]) = b THEN 1 ELSE 0)
          BY <3>2 DEF Unpublished
        <4>3. QED
          BY <3>1, <4>1, <4>2
      <3>3. CASE rpc[r] = "publish"
        <4>1. Unpublished(b, r)' = 0
          BY <1>1, <3>3 DEF Unpublished
        <4>2. Unpublished(b, r) = IF local_idx[r] = b THEN read_cnt[r] ELSE 0
          BY <3>1, <3>3 DEF Unpublished
        <4>3. QED
          BY <3>1, <4>1, <4>2
      <3>4. QED
        BY <1>1, <3>2, <3>3
    <2>3. r_cnt'[b] + Unread(b)' = r_cnt[b] + Unread(b) + 0
      BY <2>1, <2>2, ReadUpdate
    <2>4. r_cnt[b] + Unread(b) = Cardinality(ConsumedIn(b))
      BY BookedMeans DEF QInv, Booked
    <2>5. ConsumedIn(b)' = ConsumedIn(b)
      BY <1>1 DEF ConsumedIn
    <2>6. Unread(b) \in Nat /\ r_cnt[b] \in Nat
      BY <1>0, ReadersAssumption, TotalType DEF Unread
    <2>7. QED
      BY <2>3, <2>4, <2>5, <2>6
  <1>3. QED
    BY <1>2 DEF ReadLedger, Unread, ConsumedIn

\* Every step keeps the ledger of reads.
LEMMA ReadStep ==
  ASSUME QInv, IInv', [Next]_vars
  PROVE  ReadLedger'
  <1>0. /\ rpc \in [Readers -> ThreadPoints] /\ ticket \in [Readers -> Nat]
    BY QTypes DEF TypeOK, ThreadPoints
  <1>1. ASSUME UNCHANGED <<r_cnt, consumed, rpc, read_cnt, local_idx, ticket>>
        PROVE  ReadLedger'
    BY <1>1, BookedStays DEF Unpublished
  <1>2. ASSUME NEW w \in Writers, InqLoad(w) \/ Hook(w) PROVE ReadLedger'
    BY <1>1, <1>2 DEF Hook, InqLoad, InqCheck, InqClaim, InqTest, InqStore, InqAlloc,
                      queueVars, readerVars
  <1>3. CASE Timer \/ UNCHANGED vars
    BY <1>1, <1>3 DEF Timer, TickWatch, TickPad, SoftCheck, SoftClaim, SoftTest, SoftStore,
                      queueVars, readerVars, vars
  <1>4. ASSUME NEW r \in Readers, Thread(r) PROVE ReadLedger'
    <2>1. CASE DeqClear(r) \/ PublishTurn(r) \/ PublishRest(r)
      BY <2>1, DeqClearBooked, PublishBooked
    <2>2. CASE ~(DeqClear(r) \/ PublishTurn(r) \/ PublishRest(r))
      <3>1. /\ UNCHANGED <<r_cnt, consumed, read_cnt, local_idx>>
            /\ rpc[r] # "turn" /\ rpc'[r] # "turn"
            /\ \A x \in Readers \ {r} : rpc'[x] = rpc[x] /\ ticket'[x] = ticket[x]
        BY <1>0, <1>4, <2>2 DEF Thread, PermitTake, PermitBack, PermitTrim, DeqTicket,
                                DeqLoad, queueVars
      <3>2. \A b \in Blks, x \in Readers : Unpublished(b, x)' = Unpublished(b, x)
        BY <3>1 DEF Unpublished
      <3>3. QED
        BY <3>1, <3>2, BookedStays
    <2>3. QED
      BY <2>1, <2>2
  <1>5. QED
    BY <1>2, <1>3, <1>4 DEF Next

-----------------------------------------------------------------------------
(* The theorems.                                                           *)

\* The invariant is inductive.
LEMMA QStep == QInv /\ [Next]_vars => QInv'
  <1> SUFFICES ASSUME QInv, [Next]_vars PROVE QInv'
    OBVIOUS
  <1>1. PermitInv'
    BY PermitStep DEF QInv
  <1>2. IInv'
    BY <1>1 DEF PermitInv
  <1>3. QED
    BY <1>1, <1>2, OrderStep, PadStep, RoomStep, OpenedStep, ReadStep DEF QInv, OrderInv

\* The invariant holds in the empty queue.
LEMMA QStart == Init => QInv
  <1> SUFFICES ASSUME Init PROVE QInv
    OBVIOUS
  <1>1. PermitInv
    BY InitPermits
  <1>2. BlkLen \in Nat \ {0} /\ Suggest \in Nat
    BY GeometryAssumption
  <1>3. OpenedOnce
    <2>1. Openers = {}
      BY DEF Init, Openers
    <2>2. Cardinality(Openers) = 0
      BY <2>1, FS_EmptySet
    <2>3. (0 + BlkLen - 1) \div BlkLen = 0
      <3> DEFINE u == 0 + BlkLen - 1
      <3>1. u = BlkLen * 0 + (BlkLen - 1) /\ 0 \in Nat /\ BlkLen - 1 \in 0..(BlkLen - 1)
        BY <1>2
      <3> HIDE DEF u
      <3>2. u \div BlkLen = 0
        BY <1>2, <3>1, DivModUnique
      <3>3. QED
        BY <3>2 DEF u
    <2>4. QED
      BY <1>2, <2>2, <2>3 DEF Init, OpenedOnce, BlocksClaimed
  <1>4. ReadLedger
    <2>1. ASSUME NEW b \in Blks
          PROVE  Unread(b) = 0 /\ Cardinality(ConsumedIn(b)) = 0
      <3>1. \A r \in Readers : Unpublished(b, r) = 0
        BY DEF Init, Unpublished
      <3>2. Unread(b) = 0
        BY <1>2, <3>1, TotalZero DEF Unread
      <3>3. ConsumedIn(b) = {}
        BY DEF Init, ConsumedIn
      <3>4. QED
        BY <3>2, <3>3, FS_EmptySet
    <2>2. QED
      BY <2>1 DEF Init, ReadLedger, Unread, ConsumedIn
  <1>5. OpenerInv /\ PadInv /\ RoomInv
    BY DEF Init, OpenerInv, PadInv, RoomInv
  <1>6. TicketInv
    BY DEF Init, TicketInv, HasTicket
  <1>7. ReuseAfterRead /\ SlotInv /\ ClaimInv
    BY DEF Init, ReuseAfterRead, SlotInv, ClaimInv, HookPending, TimerPending
  <1>8. QED
    BY <1>1, <1>3, <1>4, <1>5, <1>6, <1>7 DEF QInv

(* "inq overlap find" (lf_rwq.c 137 and 186) is unreachable: whoever       *)
(* claimed a slot finds it empty, for any number of hooks and threads, any *)
(* geometry and any number of laps.                                        *)
THEOREM NeverOverlaps == Spec => []NoOverlap
  BY QStart, QStep, QNoOverlap, PTL DEF Spec

(* A thread takes out the word of its own ticket, in whatever order the    *)
(* threads and hooks that share a slot over the laps are scheduled.        *)
THEOREM TakesOwnWord == Spec => []OwnWord
  <1>1. QInv => OwnWord
    BY DEF QInv, SlotInv, OwnWord
  <1>2. QED
    BY QStart, QStep, <1>1, PTL DEF Spec

(* The reads published and those still carried by the threads are the      *)
(* words read, for each block.                                             *)
THEOREM ReadsAccounted == Spec => []ReadLedger
  <1>1. QInv => ReadLedger
    BY DEF QInv
  <1>2. QED
    BY QStart, QStep, <1>1, PTL DEF Spec

(* A block that was entered is opened by exactly one hook.                 *)
THEOREM BlocksOpenedOnce == Spec => []OpenedOnce
  <1>1. QInv => OpenedOnce
    BY DEF QInv
  <1>2. QED
    BY QStart, QStep, <1>1, PTL DEF Spec

-----------------------------------------------------------------------------
(* The queue implements RcvQueue.                                          *)

\* RcvQueue's predecessors of a position are the queue's.
LEMMA AbstractEarlier ==
  ASSUME NEW p \in Nat
  PROVE  Abstract!Predecessors(p) = Earlier(p)
  BY DEF Abstract!Predecessors, Abstract!BlockOf, Abstract!Round, Earlier, Blk, Lap

\* The instance has its own copy of the library's operator.
LEMMA SameCardinality == \A S : Abstract!Cardinality(S) = Cardinality(S)
  BY Zenon DEF Abstract!Cardinality, Cardinality

(* A word overtakes only words whose tickets other threads hold.           *)
LEMMA OvertakesFew ==
  ASSUME QInv, NEW r \in Readers, HasTicket(r)
  PROVE  Cardinality((0..(ticket[r] - 1)) \ consumed) < Cardinality(Readers)
  <1> DEFINE O == (0..(ticket[r] - 1)) \ consumed
             R == Readers \ {r}
             f == [x \in O |-> CHOOSE s \in R : HasTicket(s) /\ ticket[s] = x]
  <1>1. ticket[r] \in 0..(r_idx - 1) /\ r_idx \in Nat
    BY QTypes DEF QInv, TicketInv, TypeOK
  <1>2. ASSUME NEW x \in O
        PROVE  \E s \in R : HasTicket(s) /\ ticket[s] = x
    <2>1. x \in 0..(r_idx - 1) /\ x # ticket[r] /\ x \notin consumed
      BY <1>1
    <2>2. QED
      BY <2>1 DEF QInv, TicketInv
  <1> HIDE DEF O, R
  <1>3. \A x \in O : f[x] \in R /\ ticket[f[x]] = x
    BY <1>2
  <1>4. f \in Injection(O, R)
    <2>1. f \in [O -> R]
      BY <1>3
    <2> HIDE DEF f
    <2>2. ASSUME NEW x \in O, NEW y \in O, f[x] = f[y] PROVE x = y
      BY <1>3, <2>2
    <2>3. QED
      BY <2>1, <2>2 DEF Injection, IsInjective
  <1>5. IsFiniteSet(R) /\ Cardinality(R) = Cardinality(Readers) - 1
    BY ReadersAssumption, FS_RemoveElement DEF R
  <1>6. Cardinality(O) <= Cardinality(R) /\ IsFiniteSet(O)
    BY <1>4, <1>5, FS_Injection
  <1>7. Cardinality(O) \in Nat /\ Cardinality(R) \in Nat /\ Cardinality(Readers) \in Nat
    BY <1>5, <1>6, ReadersAssumption, FS_CardinalityType
  <1>8. Cardinality(O) < Cardinality(Readers)
    BY <1>5, <1>6, <1>7
  <1>9. QED
    BY <1>8 DEF O

\* Claiming a position accepts a word.
LEMMA ClaimAccepts ==
  ASSUME QInv, w_idx' = w_idx + 1, consumed' = consumed, Starts(w_idx) => RoomFor(w_idx)
  PROVE  Abstract!Accept
  <1>1. w_idx \in Nat
    BY QTypes DEF TypeOK
  <1>2. Abstract!Predecessors(w_idx) \subseteq consumed
    BY <1>1, AbstractEarlier, ClaimAfterRead
  <1>3. QED
    BY <1>2 DEF Abstract!Accept

\* Emptying a slot delivers a word.
LEMMA ClearDelivers ==
  ASSUME QInv, NEW r \in Readers, DeqClear(r)
  PROVE  \E p \in 0..(w_idx - 1) : Abstract!Deliver(p)
  <1> DEFINE t == ticket[r]
  <1>1. rpc[r] = "clear" /\ w_idx' = w_idx /\ consumed' = consumed \cup {t} /\ HasTicket(r)
    BY DEF DeqClear, QInv, SlotInv, HasTicket
  <1>2. t \notin consumed /\ t \in 0..(w_idx - 1)
    <2>1. q[Slot(t)] = t /\ Slot(t) \in Slots /\ t # Empty
      BY <1>1, QTypes, SlotType DEF QInv, SlotInv, TypeOK, Empty
    <2>2. QED
      BY <2>1 DEF QInv, SlotInv
  <1>3. Cardinality(Abstract!Older(t)) < Cardinality(Readers)
    BY <1>1, OvertakesFew DEF Abstract!Older
  <1>4. Abstract!Deliver(t)
    BY <1>1, <1>2, <1>3, SameCardinality DEF Abstract!Deliver
  <1>5. QED
    BY <1>2, <1>4

\* Every step is one of RcvQueue or none.
LEMMA StepRefines ==
  QInv /\ [Next]_vars => [Abstract!QNext]_Abstract!qvars
  <1> SUFFICES ASSUME QInv, [Next]_vars PROVE Abstract!QNext \/ UNCHANGED <<w_idx, consumed>>
    BY DEF Abstract!qvars
  <1>1. ASSUME NEW w \in Writers, InqLoad(w) \/ Hook(w)
        PROVE  Abstract!QNext \/ UNCHANGED <<w_idx, consumed>>
    <2>1. CASE InqClaim(w) /\ w_idx = wi[w]
      <3>1. RoomFor(w_idx) /\ w_idx' = w_idx + 1 /\ consumed' = consumed
        BY <2>1 DEF InqClaim, QInv, RoomInv
      <3>2. QED
        BY <3>1, ClaimAccepts DEF Abstract!QNext
    <2>2. CASE ~(InqClaim(w) /\ w_idx = wi[w])
      BY <1>1, <2>2 DEF Hook, InqLoad, InqCheck, InqClaim, InqTest, InqStore, InqAlloc, queueVars
    <2>3. QED
      BY <2>1, <2>2
  <1>2. ASSUME NEW r \in Readers, Thread(r)
        PROVE  Abstract!QNext \/ UNCHANGED <<w_idx, consumed>>
    <2>1. CASE DeqClear(r)
      BY <2>1, ClearDelivers DEF Abstract!QNext
    <2>2. CASE ~DeqClear(r)
      BY <1>2, <2>2 DEF Thread, PermitTake, PermitBack, PermitTrim, DeqTicket, DeqLoad,
                        PublishTurn, PublishRest, queueVars
    <2>3. QED
      BY <2>1, <2>2
  <1>3. CASE Timer \/ UNCHANGED vars
    <2>1. CASE SoftClaim /\ w_idx = si
      <3>1. ~Starts(w_idx) /\ w_idx' = w_idx + 1 /\ consumed' = consumed
        BY <2>1 DEF SoftClaim, QInv, PadInv
      <3>2. QED
        BY <3>1, ClaimAccepts DEF Abstract!QNext
    <2>2. CASE ~(SoftClaim /\ w_idx = si)
      BY <1>3, <2>2 DEF Timer, TickWatch, TickPad, SoftCheck, SoftClaim, SoftTest, SoftStore,
                        queueVars, vars
    <2>3. QED
      BY <2>1, <2>2
  <1>4. QED
    BY <1>1, <1>2, <1>3 DEF Next

(* The queue implements RcvQueue: it is bounded, delivers every word at    *)
(* most once and lets a word overtake fewer older ones than there are      *)
(* threads.                                                                *)
THEOREM Implements == Spec => Refines
  <1>1. Init => Abstract!QInit
    BY DEF Init, Abstract!QInit
  <1>2. QED
    BY <1>1, QStart, QStep, StepRefines, PTL DEF Spec, Refines, Abstract!QSpec


-----------------------------------------------------------------------------
(* The inductive invariant of the handshake.                               *)

\* A thread counts its empty polls between two calls of lfrwq_get_rpermit, and is in
\* packet_rcv_wait only after Polls of them.
Counts ==
  /\ count \in [Cpus -> 0..Polls]
  /\ \A t \in Cpus : /\ kpc[t] # "work" => count[t] = Polls
                     /\ count[t] = Polls => rpc[t] = "take"

\* Permits that are there or will be once all threads have repaired the count.
Avail == r_permit + Owed > 0

\* The thread will poll again before it sleeps; or it was marked "run", and sleeps only
\* if the wake-up was lost.
Alert(t) ==
  \/ kpc[t] = "work" /\ count[t] < Polls
  \/ kpc[t] = "cancel"
  \/ task_state[t] = "run"

\* The hook has not yet passed over the first thread that is not its own CPU's.
Fresh(c) == hpc[c] \in {"scan", "mark"} /\ hi[c] <= (IF c = 0 THEN 1 ELSE 0)

\* Permits are never left to threads that all intend to sleep.
Handed == Avail => (\E t \in Cpus : Alert(t)) \/ (\E c \in Cpus : Fresh(c))

\* Only CPUs with hooks run them.
OwnHooks == \A c \in Cpus \ HookCpus : hpc[c] = "idle"

PathInv == PermitInv /\ WakeInv /\ Counts /\ OwnHooks /\ (NCpu > 1 => Handed)

-----------------------------------------------------------------------------
(* Sums.                                                                   *)

\* Who owes permits is awake.
OwedByAlert == Owed > 0 => \E u \in Cpus : Alert(u)

\* If something is owed, some thread is repairing the count, so it is awake.
LEMMA OwedBySome == Counts => OwedByAlert
  <1> SUFFICES ASSUME Counts, Owed > 0 PROVE \E u \in Cpus : Alert(u)
    BY DEF OwedByAlert
  <1>1. \E r \in Readers : Debt(r) # 0
    <2> SUFFICES ASSUME \A r \in Readers : Debt(r) = 0 PROVE FALSE
      OBVIOUS
    <2>1. Suggest \in Nat
      BY GeometryAssumption
    <2>2. Owed = 0
      BY <2>1, TotalZero DEF Owed
    <2>3. QED
      BY <2>2
  <1>2. PICK r \in Readers : Debt(r) # 0
    BY <1>1
  <1>3. rpc[r] \in {"back", "trim"}
    BY <1>2 DEF Debt
  <1>4. r \in Cpus /\ Polls \in Nat
    BY PathAssumption
  <1>5. count[r] # Polls /\ kpc[r] = "work"
    BY <1>3, <1>4 DEF Counts
  <1>6. count[r] < Polls
    BY <1>4, <1>5 DEF Counts
  <1>7. QED
    BY <1>4, <1>5, <1>6 DEF Alert

-----------------------------------------------------------------------------
(* The path takes only the steps of its parts.                             *)

\* Every step is one of the queue, or leaves the queue alone.
LEMMA QueueSteps == [PathNext]_pathVars => [Next]_vars
  BY PathAssumption
  DEF PathNext, pathVars, HookEnqueue, HookWakeup, ThreadWork, ThreadWait, PathTimer, Next

\* Every step is one of the protocol of sleeping and waking, or leaves it alone.
LEMMA WakeSteps ==
  ASSUME OwnHooks, [PathNext]_pathVars
  PROVE  [WakeNext]_wakeVars
  <1>1. CASE UNCHANGED pathVars
    BY <1>1 DEF pathVars
  <1>2. ASSUME NEW c \in Writers, HookEnqueue(c) \/ HookWakeup(c)
        PROVE  [WakeNext]_wakeVars
    BY <1>2, PathAssumption DEF HookEnqueue, HookWakeup, WakeNext
  <1>3. ASSUME NEW t \in Cpus, ThreadWork(t)
        PROVE  [WakeNext]_wakeVars
    BY <1>3 DEF ThreadWork
  <1>4. ASSUME NEW t \in Cpus, ThreadWait(t)
        PROVE  [WakeNext]_wakeVars
    <2>1. hpc[t] = "idle"
      BY <1>4, PathAssumption DEF ThreadWait, HookActive, OwnHooks
    <2>2. QED
      BY <1>4, <2>1 DEF ThreadWait, WakeNext
  <1>5. CASE PathTimer
    BY <1>5 DEF PathTimer
  <1>6. QED
    BY <1>1, <1>2, <1>3, <1>4, <1>5 DEF PathNext

\* Hooks stay on their CPUs.
LEMMA OwnHooksStep ==
  ASSUME WakeInv, OwnHooks, [WakeNext]_wakeVars
  PROVE  OwnHooks'
  BY DEF WakeInv, WakeTypeOK, OwnHooks, WakeNext, wakeVars, Wait, WaitMark, WaitCancel, WaitArm,
         WaitResume, WakeStart, Wakeup, WakeScan, WakeMark, WakeProcess, WakeRetest

-----------------------------------------------------------------------------
(* The steps.                                                              *)

\* A step of the queue that is not a thread's leaves alone what threads do and owe, and
\* either adds no permit or ends a call of lfrwq_inq.
LEMMA EnqueueKeeps ==
  ASSUME TypeOK, NEW c \in Writers, InqLoad(c) \/ Hook(c)
  PROVE  rpc' = rpc /\ Owed' = Owed /\ (r_permit' = r_permit \/ wpc'[c] = "idle")
  <1>1. /\ rpc' = rpc /\ left' = left /\ pmt' = pmt
        /\ r_permit' = r_permit \/ wpc'[c] = "idle"
    BY DEF TypeOK, Hook, InqLoad, InqCheck, InqClaim, InqTest, InqStore, InqAlloc,
           queueVars, readerVars
  <1>2. QED
    BY <1>1, LedgerSame

\* The hook's way through the queue, up to the beginning of the wake-up.
LEMMA HookEnqueueStep ==
  ASSUME PathInv, NEW c \in Writers, HookEnqueue(c)
  PROVE  Counts' /\ (NCpu > 1 => Handed')
  <1>1. /\ rpc' = rpc /\ Owed' = Owed /\ count' = count /\ (r_permit' = r_permit \/ wpc'[c] = "idle")
        /\ c \in Cpus
    BY EnqueueKeeps, PathAssumption, HookCpusAssumption DEF HookEnqueue, PathInv, PermitInv, IInv
  <1>2. CASE wpc'[c] = "idle"
    <2>1. WakeStart(c)
      BY <1>2 DEF HookEnqueue
    <2>2. Fresh(c)' /\ kpc' = kpc
      BY <1>1, <2>1 DEF WakeStart, Fresh, PathInv, WakeInv, WakeTypeOK
    <2>3. QED
      BY <1>1, <2>2 DEF Handed, Counts, PathInv
  <1>3. CASE wpc'[c] # "idle"
    <2>1. r_permit' = r_permit /\ UNCHANGED wakeVars
      BY <1>1, <1>3 DEF HookEnqueue
    <2>2. QED
      BY <1>1, <2>1 DEF Handed, Counts, PathInv, Avail, Alert, Fresh, wakeVars
  <1>4. QED
    BY <1>2, <1>3

\* The wake-up: whoever passes a thread that is not its own CPU's found it marked or has
\* marked it.
LEMMA HookWakeupStep ==
  ASSUME PathInv, NEW c \in Writers, HookWakeup(c)
  PROVE  Counts' /\ (NCpu > 1 => Handed')
  <1>1. /\ c \in Cpus /\ Cpus = 0..(NCpu - 1) /\ NCpu \in Nat /\ c \in Nat
        /\ r_permit' = r_permit /\ rpc' = rpc /\ left' = left /\ count' = count
        /\ task_state \in [Cpus -> {"idle", "wait", "running", "run"}]
        /\ hpc \in [Cpus -> {"idle", "scan", "mark", "wake", "retest"}] /\ hi \in [Cpus -> 0..NCpu]
        /\ hpc[c] \in {"mark", "wake", "retest"} => hi[c] \in Cpus
    BY PathAssumption, HookCpusAssumption, CpuAssumption
    DEF HookWakeup, vars, queueVars, readerVars, PathInv, WakeInv, WakeTypeOK, HasTarget, Cpus
  <1>2. Avail' <=> Avail
    BY <1>1 DEF Avail, Owed, Debt
  <1>3. kpc' = kpc
    BY DEF HookWakeup, Wakeup, WakeScan, WakeMark, WakeProcess, WakeRetest
  <1>4. Counts'
    BY <1>1, <1>3 DEF PathInv, Counts
  <1>5. ASSUME NCpu > 1, Avail
        PROVE  (\E t \in Cpus : Alert(t)') \/ (\E d \in Cpus : Fresh(d)')
    <2>1. Handed /\ Wakeup(c)
      BY <1>5 DEF PathInv, HookWakeup
    <2>2. CASE WakeMark(c)
      BY <1>1, <2>2 DEF WakeMark, Alert
    <2>3. CASE ~WakeMark(c)
      <3>1. task_state' = task_state
        BY <2>1, <2>3 DEF Wakeup, WakeScan, WakeProcess, WakeRetest
      <3>2. \A t \in Cpus : Alert(t) => Alert(t)'
        BY <1>1, <1>3, <3>1 DEF Alert
      <3>3. ASSUME NEW d \in Cpus, Fresh(d), d # c
            PROVE  Fresh(d)'
        BY <1>1, <2>1, <3>3 DEF Fresh, Wakeup, WakeScan, WakeMark, WakeProcess, WakeRetest
      <3>4. ASSUME Fresh(c)
            PROVE  Fresh(c)' \/ \E t \in Cpus : Alert(t)'
        <4>1. WakeScan(c)
          BY <2>1, <2>3, <3>4 DEF Fresh, Wakeup, WakeProcess, WakeRetest
        <4>2. hi[c] < NCpu /\ hi[c] \in Cpus
          BY <1>1, <1>5, <3>4 DEF Fresh
        <4>3. CASE task_state[hi[c]] = "run"
          BY <3>1, <4>2, <4>3 DEF Alert
        <4>4. CASE hi[c] = c
          BY <1>1, <3>4, <4>1, <4>2, <4>4 DEF WakeScan, Fresh, NextThread
        <4>5. CASE hi[c] # c /\ task_state[hi[c]] # "run"
          BY <1>1, <3>4, <4>1, <4>2, <4>5 DEF WakeScan, Fresh
        <4>6. QED
          BY <4>3, <4>4, <4>5
      <3>5. QED
        BY <1>5, <2>1, <3>2, <3>3, <3>4 DEF Handed
    <2>4. QED
      BY <2>2, <2>3
  <1>6. NCpu > 1 => Handed'
    BY <1>2, <1>5 DEF Handed
  <1>7. QED
    BY <1>4, <1>6

\* A thread at work.  Who finds nothing for the last time leaves permits only to threads
\* that are about to give back what they took.
LEMMA ThreadWorkStep ==
  ASSUME PathInv, PermitInv', WakeInv', NEW t \in Cpus, ThreadWork(t)
  PROVE  Counts' /\ Handed'
  <1>1. /\ kpc[t] = "work" /\ count[t] < Polls /\ Thread(t) /\ Counted(t) /\ UNCHANGED wakeVars
        /\ t \in Readers /\ Polls \in Nat \ {0} /\ count \in [Cpus -> 0..Polls]
        /\ rpc \in [Readers -> {"take", "back", "trim", "ticket", "spin", "clear", "turn", "publish"}]
    BY PathAssumption DEF ThreadWork, PathInv, Counts, PermitInv, IInv, TypeOK
  <1>2. \A u \in Cpus \ {t} : rpc'[u] = rpc[u] /\ count'[u] = count[u]
    <2>1. \A u \in Cpus \ {t} : rpc'[u] = rpc[u]
      BY <1>1, PathAssumption
      DEF Thread, PermitTake, PermitBack, PermitTrim, DeqTicket, DeqLoad, DeqClear, Account,
          PublishTurn, PublishRest
    <2>2. \A u \in Cpus \ {t} : count'[u] = count[u]
      BY <1>1 DEF Counted
    <2>3. QED
      BY <2>1, <2>2
  <1>3. CASE PollsEmpty(t)
    <2>1. PermitBack(t)
      BY <1>1, <1>3 DEF PollsEmpty, Thread, PermitTake, PermitBack, PermitTrim, DeqTicket, DeqLoad,
                        DeqClear, PublishTurn, PublishRest
    <2>2. rpc'[t] = "take" /\ r_permit' <= 0 /\ count' = [count EXCEPT ![t] = count[t] + 1]
      BY <1>1, <1>3, <2>1, PathAssumption DEF PollsEmpty, PermitBack, Counted
    <2>3. Counts'
      BY <1>1, <1>2, <2>2 DEF PathInv, Counts, wakeVars
    <2>4. r_permit' \in Int /\ Owed' \in Nat
      <3>1. LedgerTyped'
        BY LedgerTypes, PTL DEF PermitInv
      <3>2. QED
        BY <3>1 DEF LedgerTyped, PermitInv, IInv, TypeOK
    <2>5. Avail' => (Owed > 0)'
      <3>1. r_permit' <= 0
        BY <2>2
      <3>2. ASSUME NEW n \in Nat, NEW p \in Int, p <= 0, p + n > 0
            PROVE  n > 0
        BY <3>2
      <3>3. Avail' => r_permit' + Owed' > 0
        BY DEF Avail
      <3>4. r_permit' + Owed' > 0 => Owed' > 0
        BY <2>4, <3>1, <3>2
      <3>5. QED
        BY <3>3, <3>4
    <2>6. OwedByAlert'
      BY <2>3, OwedBySome, PTL
    <2>7. QED
      BY <2>3, <2>5, <2>6 DEF Handed, OwedByAlert
  <1>4. CASE ~PollsEmpty(t)
    <2>1. count'[t] < Polls /\ count' \in [Cpus -> 0..Polls]
      BY <1>1, <1>4 DEF Counted
    <2>2. Counts'
      BY <1>1, <1>2, <2>1 DEF PathInv, Counts, wakeVars
    <2>3. Alert(t)'
      BY <1>1, <2>1 DEF Alert, wakeVars
    <2>4. QED
      BY <2>2, <2>3 DEF Handed
  <1>5. QED
    BY <1>3, <1>4

\* A thread in packet_rcv_wait: it goes to sleep unmarked only if it was not the one that
\* would have polled again.
LEMMA ThreadWaitStep ==
  ASSUME PathInv, NEW t \in Cpus, ThreadWait(t)
  PROVE  Counts' /\ (Handed => Handed')
  <1>1. /\ Wait(t) /\ count[t] = Polls /\ Polls \in Nat \ {0} /\ count \in [Cpus -> 0..Polls]
        /\ count' = [count EXCEPT ![t] = IF kpc'[t] = "work" THEN 0 ELSE count[t]]
        /\ r_permit' = r_permit /\ rpc' = rpc /\ left' = left
        /\ hpc' = hpc /\ hi' = hi
        /\ task_state \in [Cpus -> {"idle", "wait", "running", "run"}]
        /\ kpc \in [Cpus -> {"work", "cancel", "arm", "asleep"}]
    BY PathAssumption
    DEF ThreadWait, vars, queueVars, readerVars, PathInv, Counts, WakeInv, WakeTypeOK, Wait,
        WaitMark, WaitCancel, WaitArm, WaitResume
  <1>2. /\ Avail' <=> Avail
        /\ \A c \in Cpus : Fresh(c)' <=> Fresh(c)
    BY <1>1 DEF Avail, Owed, Debt, Fresh
  <1>3. \A u \in Cpus \ {t} : /\ kpc'[u] = kpc[u] /\ task_state'[u] = task_state[u]
                              /\ count'[u] = count[u]
    BY <1>1 DEF Wait, WaitMark, WaitCancel, WaitArm, WaitResume
  <1>4. \A u \in Cpus \ {t} : Alert(u) => Alert(u)'
    BY <1>3 DEF Alert
  <1>5. Counts'
    BY <1>1, <1>3 DEF PathInv, Counts, Wait, WaitMark, AfterMark, WaitCancel, WaitArm, WaitResume
  <1>6. Alert(t) => Alert(t)'
    BY <1>1 DEF Alert, Wait, WaitMark, AfterMark, WaitCancel, WaitArm, WaitResume
  <1>7. QED
    BY <1>2, <1>4, <1>5, <1>6 DEF Handed

\* At first there are no permits.
LEMMA PathStart == PathInit => PathInv
  <1> SUFFICES ASSUME PathInit PROVE PathInv
    OBVIOUS
  <1>1. PermitInv /\ WakeInv
    BY InitPermits, InitInv DEF PathInit
  <1>2. Counts /\ OwnHooks
    BY PathAssumption DEF PathInit, Init, WakeInit, Counts, OwnHooks
  <1>3. ~Avail
    <2>1. \A r \in Readers : Debt(r) = 0
      BY DEF PathInit, Init, Debt
    <2>2. Suggest \in Nat
      BY GeometryAssumption
    <2>3. Owed = 0
      BY <2>1, <2>2, TotalZero DEF Owed
    <2>4. QED
      BY <2>3 DEF Avail, PathInit, Init
  <1>4. QED
    BY <1>1, <1>2, <1>3 DEF PathInv, Handed

\* The invariant is inductive.
LEMMA PathStep == PathInv /\ [PathNext]_pathVars => PathInv'
  <1> SUFFICES ASSUME PathInv, [PathNext]_pathVars PROVE PathInv'
    OBVIOUS
  <1>1. PermitInv' /\ WakeInv' /\ OwnHooks'
    BY QueueSteps, WakeSteps, PermitStep, NextKeepsInv, OwnHooksStep DEF PathInv
  <1>2. ASSUME NEW c \in Writers, HookEnqueue(c) \/ HookWakeup(c)
        PROVE  Counts' /\ (NCpu > 1 => Handed')
    BY <1>2, HookEnqueueStep, HookWakeupStep
  <1>3. ASSUME NEW t \in Cpus, ThreadWork(t) \/ ThreadWait(t)
        PROVE  Counts' /\ (NCpu > 1 => Handed')
    BY <1>1, <1>3, ThreadWorkStep, ThreadWaitStep DEF PathInv
  <1>4. CASE PathTimer \/ UNCHANGED pathVars
    <2>1. UNCHANGED <<r_permit, rpc, left, wakeVars, count>>
      BY <1>4 DEF PathTimer, pathVars, vars, queueVars, readerVars, Timer, TickWatch, TickPad,
                  SoftCheck, SoftClaim, SoftTest, SoftStore
    <2>2. (Avail' <=> Avail) /\ \A t \in Cpus : (Alert(t)' <=> Alert(t)) /\ (Fresh(t)' <=> Fresh(t))
      BY <2>1 DEF Avail, Owed, Debt, Alert, Fresh, wakeVars
    <2>3. Counts'
      BY <2>1 DEF PathInv, Counts, wakeVars
    <2>4. QED
      BY <1>1, <2>2, <2>3 DEF PathInv, Handed
  <1>5. QED
    BY <1>1, <1>2, <1>3, <1>4 DEF PathInv, PathNext

-----------------------------------------------------------------------------
(* The theorems.                                                           *)

\* The path, with hooks, threads and timer in the order of the code, takes only steps of
\* the queue and of the sleep protocol: what is proved of either holds of the whole.
THEOREM PathImplementsParts == PathSpec => Spec /\ WakeSpec
  <1>1. PathInit => Init /\ WakeInit
    BY DEF PathInit
  <1>2. PathInv /\ [PathNext]_pathVars => [WakeNext]_wakeVars
    BY WakeSteps DEF PathInv
  <1>3. QED
    BY <1>1, <1>2, QueueSteps, PathStart, PathStep, PTL DEF PathSpec, Spec, WakeSpec

\* No permit is left when all threads sleep as they announced and no hook is under way:
\* a hook that issues permits while threads count their last empty polls finds one of
\* them, and permits that are only borrowed come back to a thread that is awake.  On one
\* CPU this fails, since a hook passes over the thread of its own CPU (line 110).
THEOREM NeverAllAsleep == NCpu > 1 => (PathSpec => []NoWorkAllAsleep)
  <1> SUFFICES ASSUME NCpu > 1 PROVE PathSpec => []NoWorkAllAsleep
    OBVIOUS
  <1>1. PathInv => NoWorkAllAsleep
    <2> SUFFICES ASSUME PathInv,
                        \A t \in Cpus : Sleeps(t) /\ task_state[t] = "wait",
                        \A c \in Cpus : ~HookActive(c)
                 PROVE  r_permit = 0
      BY DEF NoWorkAllAsleep
    <2>1. \A t \in Cpus : ~Alert(t)
      BY DEF Sleeps, Alert
    <2>2. \A c \in Cpus : ~Fresh(c)
      BY PathAssumption DEF PathInv, OwnHooks, HookActive, Fresh
    <2>3. ~(Owed > 0) /\ ~Avail
      BY <2>1, <2>2, OwedBySome DEF PathInv, Handed, OwedByAlert
    <2>4. r_permit \in Int /\ Owed \in Nat /\ r_permit + Owed >= 0
      BY LedgerTypes DEF PathInv, PermitInv, LedgerTyped, IInv, TypeOK, PermitsBacked
    <2>5. QED
      BY <2>3, <2>4 DEF Avail
  <1>2. QED
    BY <1>1, PathStart, PathStep, PTL DEF PathSpec
=============================================================================
