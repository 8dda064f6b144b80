-------------------------- MODULE UdpTrans_proofs --------------------------
(* Theorems on requests and replies, for any number of senders and calls.  *)
EXTENDS UdpTrans, FiniteSetTheorems, WellFoundedInduction, TLAPS

Pcs == {"idle", "keyed", "sent", "framed", "waiting"}
Asked(s) == call[s].pc \in {"sent", "framed", "waiting"}
Framed(s) == call[s].pc \in {"framed", "waiting"}
Keyed(s) == call[s].pc = "keyed"

UdpTypes ==
  /\ keyNum \in 0..(Long - 1)
  /\ IsFiniteSet(sent)
  /\ sent \subseteq [by : Senders, nr : Nat, key : 0..(Long - 1)]
  /\ call \in [Senders -> [pc : Pcs, nr : Nat, key : 0..(Long - 1), awake : BOOLEAN]]
  /\ \A s \in Senders : frame[s] = [key |-> frame[s].key, reply |-> frame[s].reply]
  /\ DOMAIN frame = Senders

\* A call sends one request, with its key; those of earlier calls have lower numbers.
OneRequest ==
  /\ \A m \in sent : \/ m.nr < call[m.by].nr
                     \/ m = Request(m.by) /\ Asked(m.by)
  /\ \A s \in Senders : Asked(s) => Request(s) \in sent

\* No two senders count the key at once.
OneKeyed ==
  \A r, s \in Senders : Keyed(r) /\ Keyed(s) => r = s

\* The key counts the requests, until it has gone round.
KeysCount ==
  /\ keyNum = Cardinality(sent) % Long
  /\ \A s \in Senders : Keyed(s) => call[s].key = keyNum
  /\ \A m \in sent : m.key < Cardinality(sent)
  /\ \A m, n \in sent : m.key = n.key => m = n

\* The reply in a frame answers a request with the frame's key.
RepliesByKey ==
  \A s \in Senders : Framed(s) =>
    frame[s].reply = {} \/ \E m \in sent : frame[s].reply = {m} /\ m.key = frame[s].key

Rounded == Cardinality(sent) > Long

UdpInv ==
  /\ UdpTypes /\ OneRequest /\ RepliesByKey
  /\ ~raced => OneKeyed
  /\ ~raced /\ ~Rounded => KeysCount

-----------------------------------------------------------------------------
\* At first nobody has sent anything.
LEMMA InitUdp == Init => UdpInv
  <1> SUFFICES ASSUME Init PROVE UdpInv
    OBVIOUS
  <1>1. IsFiniteSet(sent) /\ Cardinality(sent) = 0
    BY FS_EmptySet DEF Init
  <1>2. Long \in Nat /\ Long > 0 /\ 0 % Long = 0
    BY UdpAssumption
  <1>3. QED
    BY <1>1, <1>2 DEF Init, UdpInv, UdpTypes, Pcs, OneRequest, RepliesByKey, OneKeyed, KeysCount,
       Asked, Framed, Keyed

\* A request that is sent is new.
LEMMA SendCounts ==
  ASSUME UdpInv, NEW s \in Senders, Send(s)
  PROVE  /\ Request(s) \notin sent
         /\ IsFiniteSet(sent') /\ Cardinality(sent') = Cardinality(sent) + 1
  <1>1. Request(s) \notin sent
    BY DEF UdpInv, UdpTypes, OneRequest, Request, Asked, Send, At
  <1>2. QED
    BY <1>1, FS_AddElement DEF UdpInv, UdpTypes, Send

\* Only Send changes the key and the requests.
LEMMA SendKeeps ==
  ASSUME UdpInv, NEW s \in Senders, Send(s)
  PROVE  UdpInv'
  <1>0. Long \in Nat \ {0} /\ Cardinality(sent) \in Nat
    BY UdpAssumption, FS_CardinalityType DEF UdpInv, UdpTypes
  <1>1. call[s].key \in 0..(Long - 1) /\ call[s].nr \in Nat /\ call[s].pc = "keyed"
    BY DEF UdpInv, UdpTypes, Send, At
  <1>2. UdpTypes'
    <2>1. keyNum' \in 0..(Long - 1)
      BY <1>0, <1>1 DEF Send
    <2>2. Request(s) \in [by : Senders, nr : Nat, key : 0..(Long - 1)]
      BY <1>1 DEF Request
    <2>3. call' \in [Senders -> [pc : Pcs, nr : Nat, key : 0..(Long - 1), awake : BOOLEAN]]
      BY DEF UdpInv, UdpTypes, Send, Goes, Pcs
    <2>4. QED
      BY <2>1, <2>2, <2>3, SendCounts DEF UdpInv, UdpTypes, Send
  <1>3. \A r \in Senders : /\ Request(r)' = Request(r)
                           /\ call'[r].pc = IF r = s THEN "sent" ELSE call[r].pc
                           /\ call'[r].key = call[r].key /\ call'[r].nr = call[r].nr
    BY DEF UdpInv, UdpTypes, Send, Goes, Request
  <1>4. OneRequest'
    <2>1. \A m \in sent' : m \in sent \/ m = Request(s)
      BY DEF Send
    <2>2. Request(s).by = s
      BY DEF Request
    <2>3. \A m \in sent : m.by \in Senders
      BY DEF UdpInv, UdpTypes
    <2>4. QED
      BY <1>3, <2>1, <2>2, <2>3 DEF UdpInv, OneRequest, Asked, Send
  <1>5. RepliesByKey'
    BY <1>3 DEF UdpInv, RepliesByKey, Framed, Send
  <1>6. ~raced' => OneKeyed'
    BY <1>3 DEF UdpInv, OneKeyed, Keyed, Send
  <1>7. ASSUME ~raced', ~Rounded' PROVE KeysCount'
    <2>1. ~raced /\ ~Rounded /\ Cardinality(sent) < Long
      <3>1. raced' = raced /\ Cardinality(sent') = Cardinality(sent) + 1
        BY SendCounts DEF Send
      <3>2. ~raced
        BY <1>7, <3>1
      <3>3. ~(Cardinality(sent') > Long)
        BY <1>7 DEF Rounded
      <3>4. QED
        BY <1>0, <3>1, <3>2, <3>3 DEF Rounded
    <2>2. KeysCount /\ OneKeyed
      BY <2>1 DEF UdpInv
    <2>3. call[s].key = Cardinality(sent)
      <3>1. Cardinality(sent) % Long = Cardinality(sent)
        BY <1>0, <2>1
      <3>2. QED
        BY <1>1, <2>2, <3>1 DEF KeysCount, Keyed
    <2>4. keyNum' = Cardinality(sent') % Long
      BY <2>3, SendCounts DEF Send
    <2>5. \A r \in Senders : ~Keyed(r)'
      BY <1>1, <1>3, <2>2 DEF OneKeyed, Keyed
    <2>6. Request(s).key = Cardinality(sent)
      BY <2>3 DEF Request
    <2>7. \A m \in sent : m.key < Cardinality(sent) /\ m.key \in Nat
      BY <2>2 DEF KeysCount, UdpInv, UdpTypes
    <2>8. sent' = sent \cup {Request(s)} /\ Cardinality(sent') = Cardinality(sent) + 1
      BY SendCounts DEF Send
    <2>9. QED
      BY <1>0, <2>2, <2>4, <2>5, <2>6, <2>7, <2>8 DEF KeysCount
  <1>8. QED
    BY <1>2, <1>4, <1>5, <1>6, <1>7 DEF UdpInv

\* A call that returns.
LEMMA Resumed ==
  ASSUME NEW s \in Senders, Resume(s), UdpTypes
  PROVE  /\ call' \in [Senders -> [pc : Pcs, nr : Nat, key : 0..(Long - 1), awake : BOOLEAN]]
         /\ \A r \in Senders \ {s} : call'[r] = call[r]
         /\ call'[s].pc = "idle" /\ call'[s].nr = call[s].nr + 1
  <1> DEFINE R == [pc : Pcs, nr : Nat, key : 0..(Long - 1), awake : BOOLEAN]
             c == [pc |-> "idle", nr |-> call[s].nr + 1, key |-> 0, awake |-> FALSE]
  <1>1. call \in [Senders -> R]
    BY DEF UdpTypes
  <1>2. c \in R /\ c.pc = "idle" /\ c.nr = call[s].nr + 1
    BY <1>1, UdpAssumption DEF Pcs
  <1>3. call' = [call EXCEPT ![s] = c]
    BY DEF Resume
  <1> HIDE DEF c, R
  <1>4. call' \in [Senders -> R] /\ (\A r \in Senders \ {s} : call'[r] = call[r]) /\ call'[s] = c
    BY <1>1, <1>2, <1>3
  <1>5. QED
    BY <1>2, <1>4 DEF c, R

\* The other steps of a sender.
LEMMA SenderKeeps ==
  ASSUME UdpInv, NEW s \in Senders,
         KeyRead(s) \/ Prepare(s) \/ Enlist(s) \/ TimeOut(s) \/ Resume(s)
  PROVE  UdpInv'
  <1>0. UNCHANGED <<keyNum, sent>>
    BY DEF KeyRead, Prepare, Enlist, TimeOut, Resume
  <1>1. call' \in [Senders -> [pc : Pcs, nr : Nat, key : 0..(Long - 1), awake : BOOLEAN]]
    <2> USE DEF UdpInv, UdpTypes, Pcs
    <2>0. call \in [Senders -> [pc : Pcs, nr : Nat, key : 0..(Long - 1), awake : BOOLEAN]]
      OBVIOUS
    <2>1. CASE KeyRead(s)
      <3>1. /\ call' = [call EXCEPT ![s] = [@ EXCEPT !.pc = "keyed", !.key = keyNum]]
            /\ keyNum \in 0..(Long - 1)
        BY <2>1 DEF KeyRead
      <3>2. [call[s] EXCEPT !.pc = "keyed", !.key = keyNum]
              \in [pc : Pcs, nr : Nat, key : 0..(Long - 1), awake : BOOLEAN]
        BY <2>0, <3>1
      <3>3. QED
        BY <2>0, <3>1, <3>2
    <2>2. CASE Prepare(s) \/ Enlist(s)
      <3>1. \E pc \in Pcs : call' = [call EXCEPT ![s].pc = pc] \/ call' = call
        BY <2>2 DEF Prepare, Enlist, Goes
      <3>2. QED
        BY <2>0, <3>1
    <2>3. CASE TimeOut(s)
      BY <2>3 DEF TimeOut
    <2>4. CASE Resume(s)
      BY <2>4, Resumed
    <2>5. QED
      BY <2>1, <2>2, <2>3, <2>4
  <1>2. /\ DOMAIN frame' = Senders
        /\ \A r \in Senders : frame'[r] = [key |-> frame'[r].key, reply |-> frame'[r].reply]
    BY DEF UdpInv, UdpTypes, KeyRead, Prepare, Enlist, TimeOut, Resume
  <1>3. \A r \in Senders \ {s} : call'[r] = call[r] /\ frame'[r] = frame[r]
    BY DEF UdpInv, UdpTypes, KeyRead, Prepare, Enlist, TimeOut, Resume, Goes
  <1>4. UdpTypes'
    BY <1>0, <1>1, <1>2 DEF UdpInv, UdpTypes
  <1>5. OneRequest'
    <2>1. CASE KeyRead(s)
      <3>1. call'[s].nr = call[s].nr /\ ~Asked(s) /\ ~Asked(s)'
        BY <2>1 DEF KeyRead, At, Asked, UdpInv, UdpTypes
      <3>2. QED
        BY <1>0, <1>3, <3>1 DEF UdpInv, UdpTypes, OneRequest, Asked, Request
    <2>2. CASE Prepare(s) \/ Enlist(s) \/ TimeOut(s)
      <3>1. call'[s].nr = call[s].nr /\ call'[s].key = call[s].key /\ Asked(s) /\ Asked(s)'
        BY <2>2 DEF Prepare, Enlist, TimeOut, Goes, At, Asked, UdpInv, UdpTypes
      <3>2. QED
        BY <1>0, <1>3, <3>1 DEF UdpInv, UdpTypes, OneRequest, Asked, Request
    <2>3. CASE Resume(s)
      <3>1. call'[s].nr = call[s].nr + 1 /\ call[s].nr \in Nat /\ ~Asked(s)'
        BY <2>3, Resumed DEF Asked, UdpInv, UdpTypes
      <3>2. Request(s).nr = call[s].nr
        BY DEF Request
      <3>3. \A m \in sent : m.by = s => m.nr \in Nat /\ m.nr <= call[s].nr
        BY <3>1, <3>2 DEF UdpInv, UdpTypes, OneRequest
      <3>4. QED
        BY <1>0, <1>3, <3>1, <3>3 DEF UdpInv, UdpTypes, OneRequest, Asked, Request
    <2>4. QED
      BY <2>1, <2>2, <2>3
  <1>6. RepliesByKey'
    <2>1. Framed(s)' => (frame'[s].reply = {} \/ (Framed(s) /\ frame'[s] = frame[s]))
      <3>1. CASE Resume(s)
        BY <3>1, Resumed DEF Framed, UdpInv
      <3>2. CASE KeyRead(s)
        BY <3>2 DEF UdpInv, UdpTypes, Framed, KeyRead
      <3>3. CASE Prepare(s) \/ Enlist(s) \/ TimeOut(s)
        BY <3>3 DEF UdpInv, UdpTypes, Framed, Prepare, Enlist, TimeOut, At, Goes
      <3>4. QED
        BY <3>1, <3>2, <3>3
    <2>2. QED
      BY <1>0, <1>3, <2>1 DEF UdpInv, RepliesByKey, Framed
  <1>7. /\ ~raced' => OneKeyed'
        /\ ~raced' /\ ~Rounded' => KeysCount'
    <2>1. CASE KeyRead(s)
      <3>1. ~raced' => ~raced /\ \A r \in Senders : ~Keyed(r)
        BY <2>1, Zenon DEF KeyRead, Keyed
      <3>2. Keyed(s)' /\ call'[s].key = keyNum
        BY <2>1 DEF KeyRead, Keyed, UdpInv, UdpTypes
      <3>3. \A r \in Senders : r # s => (Keyed(r)' <=> Keyed(r))
        BY <1>3 DEF Keyed
      <3>4. ~raced' => OneKeyed'
        BY <3>1, <3>3 DEF OneKeyed
      <3>5. ~raced' /\ ~Rounded' => KeysCount'
        BY <1>0, <3>1, <3>2, <3>3 DEF KeysCount, Rounded, UdpInv
      <3>6. QED
        BY <3>4, <3>5
    <2>2. CASE ~KeyRead(s)
      <3>1. ~Keyed(s)' /\ raced' = raced
        BY <2>2 DEF UdpInv, UdpTypes, Keyed, Prepare, Enlist, TimeOut, Resume, At, Goes
      <3>2. QED
        BY <1>0, <1>3, <3>1 DEF UdpInv, OneKeyed, KeysCount, Keyed, Rounded
    <2>3. QED
      BY <2>1, <2>2
  <1>8. QED
    BY <1>4, <1>5, <1>6, <1>7 DEF UdpInv

\* A walk that finds somebody has found one of those it looks for, in a live frame.
LEMMA AnsweredHasKey ==
  ASSUME NEW m \in sent, NEW n \in Answered(m), Upto[n] # Head
  PROVE  Upto[n] \in Senders /\ frame[Upto[n]].key = m.key /\ ~Dead(Upto[n])
  BY DEF Answered, Walks, Stops, WithKey

\* A reply goes to a waiter with its key.
LEMMA WakeKeeps ==
  ASSUME UdpInv, NEW m \in sent, Wake(m)
  PROVE  UdpInv'
  <1>1. UNCHANGED <<keyNum, sent, raced>>
    BY DEF Wake
  <1>2. CASE Fails(WithKey(m)) /\ UNCHANGED <<frame, call>>
    BY <1>1, <1>2 DEF UdpInv, UdpTypes, OneRequest, RepliesByKey, OneKeyed, KeysCount, Rounded,
       Asked, Framed, Keyed, Request
  <1>3. ASSUME NEW n \in Answered(m), Upto[n] # Head,
               frame' = [frame EXCEPT ![Upto[n]].reply = {m}],
               call' = [call EXCEPT ![Upto[n]].awake = (call[Upto[n]].pc = "waiting")]
        PROVE  UdpInv'
    <2> DEFINE x == Upto[n]
    <2>1. x \in Senders /\ frame[x].key = m.key /\ ~Dead(x)
      BY <1>3, AnsweredHasKey
    <2> HIDE DEF x
    <2>2. /\ frame' = [frame EXCEPT ![x].reply = {m}]
          /\ call' = [call EXCEPT ![x].awake = (call[x].pc = "waiting")]
      BY <1>3 DEF x
    <2>3. call' \in [Senders -> [pc : Pcs, nr : Nat, key : 0..(Long - 1), awake : BOOLEAN]]
      <3>1. ASSUME NEW b \in BOOLEAN
            PROVE  [call EXCEPT ![x].awake = b] \in [Senders -> [pc : Pcs, nr : Nat, key : 0..(Long - 1), awake : BOOLEAN]]
        BY <2>1 DEF UdpInv, UdpTypes
      <3>2. (call[x].pc = "waiting") \in BOOLEAN
        OBVIOUS
      <3>3. QED
        BY <2>2, <3>1, <3>2, Zenon
    <2>4. \A s \in Senders : /\ call'[s].pc = call[s].pc /\ call'[s].nr = call[s].nr
                             /\ call'[s].key = call[s].key
      BY <2>2 DEF UdpInv, UdpTypes
    <2>5. /\ DOMAIN frame' = Senders
          /\ \A s \in Senders : s # x => frame'[s] = frame[s]
          /\ frame'[x] = [frame[x] EXCEPT !.reply = {m}]
      BY <2>1, <2>2 DEF UdpInv, UdpTypes
    <2>6. frame[x] = [key |-> frame[x].key, reply |-> frame[x].reply]
      BY <2>1 DEF UdpInv, UdpTypes
    <2>7. frame'[x] = [key |-> m.key, reply |-> {m}]
      BY <2>1, <2>5, <2>6
    <2>8. UdpTypes'
      BY <1>1, <2>3, <2>5, <2>7 DEF UdpInv, UdpTypes
    <2>9. OneRequest' /\ (~raced' => OneKeyed') /\ (~raced' /\ ~Rounded' => KeysCount')
      BY <1>1, <2>4 DEF UdpInv, UdpTypes, OneRequest, OneKeyed, KeysCount, Rounded, Asked, Keyed, Request
    <2>10. RepliesByKey'
      BY <1>1, <2>4, <2>5, <2>7 DEF UdpInv, RepliesByKey, Framed
    <2>11. QED
      BY <2>8, <2>9, <2>10 DEF UdpInv
  <1>4. QED
    BY <1>2, <1>3 DEF Wake

\* The invariant is inductive.
LEMMA UdpKeeps == UdpInv /\ [Next]_vars => UdpInv'
  <1> SUFFICES ASSUME UdpInv, [Next]_vars PROVE UdpInv'
    OBVIOUS
  <1>1. ASSUME NEW s \in Senders, Step(s) PROVE UdpInv'
    BY <1>1, SendKeeps, SenderKeeps DEF Step
  <1>2. ASSUME NEW m \in sent, Wake(m) PROVE UdpInv'
    BY <1>2, WakeKeeps
  <1>3. CASE UNCHANGED vars
    BY <1>3 DEF vars, UdpInv, UdpTypes, OneRequest, RepliesByKey, OneKeyed, KeysCount, Rounded,
       Asked, Framed, Keyed, Request
  <1>4. QED
    BY <1>1, <1>2, <1>3 DEF Next

\* The key tells the requests apart, so a waiter with its own key holds its own reply.
LEMMA OwnByKey == UdpInv => (Rounded \/ ReplyIsOwn)
  <1> SUFFICES ASSUME UdpInv, ~Rounded, NEW s \in Senders, call[s].pc = "waiting",
                      frame[s].reply # {}, ~raced, frame[s].key = call[s].key
               PROVE  frame[s].reply = {Request(s)}
    BY DEF ReplyIsOwn
  <1>1. PICK m \in sent : frame[s].reply = {m} /\ m.key = frame[s].key
    BY DEF UdpInv, RepliesByKey, Framed
  <1>2. Request(s) \in sent /\ Request(s).key = call[s].key
    BY DEF UdpInv, OneRequest, Asked, Request
  <1>3. m = Request(s)
    BY <1>1, <1>2 DEF UdpInv, KeysCount
  <1>4. QED
    BY <1>1, <1>3

(* The reply a waiter holds answers its own request (udp_trans.c 38-104,   *)
(* 278), for any number of senders and of late, early or repeated          *)
(* replies, as long as fewer than 2^64 requests have gone out: the key is  *)
(* all that tells them apart, and it comes round after that.               *)
THEOREM RepliesAreOwn == Spec => [](Cardinality(sent) <= Long => ReplyIsOwn)
  <1>1. UdpInv => (Cardinality(sent) <= Long => ReplyIsOwn)
    <2> SUFFICES ASSUME UdpInv, Cardinality(sent) <= Long PROVE ReplyIsOwn
      OBVIOUS
    <2>1. ~Rounded
      BY FS_CardinalityType, UdpAssumption DEF UdpInv, UdpTypes, Rounded
    <2>2. QED
      BY <2>1, OwnByKey
  <1>2. QED
    BY InitUdp, UdpKeeps, <1>1, PTL DEF Spec

-----------------------------------------------------------------------------
(* Induction, which the provers do not do by themselves.                   *)

\* A set of numbers has a least element.
LEMMA LeastNat ==
  ASSUME NEW C \in SUBSET Nat, C # {}
  PROVE  \E m \in C : \A n \in C : m <= n
  <1> DEFINE R == {ss \in Nat \X Nat : ss[1] < ss[2]}
  <1>1. IsWellFoundedOn(R, Nat)
    BY NatLessThanWellFounded DEF OpToRel
  <1>2. PICK m \in C : \A n \in C : ~(<<n, m>> \in R)
    <2> HIDE DEF R
    <2>1. QED
      BY <1>1, WFMin
  <1>3. \A n \in C : ~(n < m)
    BY <1>2
  <1>4. QED
    BY <1>3

\* A set with 0 and every successor has all numbers.
LEMMA Induction ==
  ASSUME NEW C \in SUBSET Nat, 0 \in C, \A k \in Nat : k \in C => k + 1 \in C
  PROVE  C = Nat
  <1> SUFFICES ASSUME Nat \ C # {} PROVE FALSE
    OBVIOUS
  <1>1. PICK m \in Nat \ C : \A n \in Nat \ C : m <= n
    BY LeastNat
  <1>2. m - 1 \in Nat /\ m - 1 \in C
    BY <1>1
  <1>3. QED
    BY <1>1, <1>2

\* A walk from h on along f exists.
LEMMA WalkExists ==
  ASSUME NEW D, NEW f \in [D -> D], NEW h \in D
  PROVE  \E W : W = [k \in Nat |-> IF k = 0 THEN h ELSE f[W[k - 1]]]
  <1> DEFINE Good(n, g) == /\ g \in [0..n -> D] /\ g[0] = h
                           /\ \A k \in 1..n : g[k] = f[g[k - 1]]
             C == {n \in Nat : \E g \in [0..n -> D] : Good(n, g)}
             W == [n \in Nat |-> (CHOOSE g \in [0..n -> D] : Good(n, g))[n]]
  <1>1. 0 \in C
    <2>1. Good(0, [k \in 0..0 |-> h])
      OBVIOUS
    <2>2. QED
      BY <2>1
  <1>2. ASSUME NEW n \in Nat, n \in C PROVE n + 1 \in C
    <2>1. PICK g \in [0..n -> D] : Good(n, g)
      BY <1>2
    <2> DEFINE e == [k \in 0..(n + 1) |-> IF k = n + 1 THEN f[g[n]] ELSE g[k]]
    <2>2. e \in [0..(n + 1) -> D] /\ e[0] = h
      BY <2>1
    <2>3. \A k \in 1..(n + 1) : e[k] = f[e[k - 1]]
      BY <2>1
    <2> HIDE DEF e
    <2>4. QED
      BY <2>2, <2>3
  <1>3. C = Nat
    <2> HIDE DEF C
    <2>1. QED
      BY <1>1, <1>2, Induction DEF C
  <1>4. ASSUME NEW m \in Nat, NEW n \in Nat, m <= n, NEW a, NEW b, Good(m, a), Good(n, b)
        PROVE  a[m] = b[m]
    <2> DEFINE E == {k \in Nat : k <= m => a[k] = b[k]}
    <2>1. 0 \in E
      BY <1>4
    <2>2. \A k \in Nat : k \in E => k + 1 \in E
      BY <1>4
    <2>3. E = Nat
      <3> HIDE DEF E
      <3>1. QED
        BY <2>1, <2>2, Induction DEF E
    <2>4. QED
      BY <2>3
  <1>5. \A n \in Nat : \E g \in [0..n -> D] : Good(n, g) /\ W[n] = g[n]
    BY <1>3
  <1> HIDE DEF W
  <1>6. W = [k \in Nat |-> IF k = 0 THEN h ELSE f[W[k - 1]]]
    <2>1. W[0] = h
      BY <1>5
    <2>2. ASSUME NEW k \in Nat \ {0} PROVE W[k] = f[W[k - 1]]
      <3>1. PICK a \in [0..k -> D] : Good(k, a) /\ W[k] = a[k]
        BY <1>5
      <3>2. k - 1 \in Nat
        OBVIOUS
      <3>3. PICK b \in [0..(k - 1) -> D] : Good(k - 1, b) /\ W[k - 1] = b[k - 1]
        BY <1>5, <3>2
      <3>4. a[k - 1] = b[k - 1]
        BY <3>1, <3>2, <3>3, <1>4
      <3>5. QED
        BY <3>1, <3>3, <3>4
    <2>3. W = [k \in Nat |-> W[k]]
      BY DEF W
    <2>4. QED
      BY <2>1, <2>2, <2>3
  <1>7. QED
    BY <1>6

-----------------------------------------------------------------------------
(* The list of waiters.                                                    *)

\* A sender has been in the list once it waited, and stays there; while its first call
\* waits, its node is where it was put.
Again(s)  == s \in Senders /\ call[s].nr > 0
First(s)  == s \in Senders /\ call[s].nr = 0 /\ call[s].pc = "waiting"
Joined    == {s \in Senders : Again(s) \/ First(s)}
Fresh     == \A s \in Senders : call[s].nr = 0
Places    == Senders \cup {Head}

ListTypes == UdpTypes /\ next \in [Places -> Places]

\* The list leads to nobody else.
Closed == \A u \in Joined \cup {Head} : next[u] \in Joined \cup {Head}

\* The waiters of first calls are in an order that the list follows, except where it leads
\* to a frame that is used again, and it leaves none out before a first call returns.
Follows(pos) ==
  /\ pos[Head] = 0
  /\ \A s \in Senders : First(s) => pos[s] > 0
  /\ \A s, t \in Senders : First(s) /\ First(t) /\ pos[s] = pos[t] => s = t
  /\ \A u \in Places : (u = Head \/ First(u)) /\ First(next[u]) => pos[u] < pos[next[u]]
LeavesOut(pos, u, s) == pos[u] < pos[s] /\ (next[u] = Head \/ pos[s] < pos[next[u]])
Complete(pos) ==
  Fresh => \A u \in Places, s \in Senders : (u = Head \/ First(u)) /\ First(s) => ~LeavesOut(pos, u, s)

Orderly ==
  \E pos \in [Places -> 0..Cardinality(Joined)] : Follows(pos) /\ Complete(pos)

ListInv ==
  /\ ListTypes /\ Closed
  /\ IF lock = "free" THEN Orderly ELSE WaitersListed

\* Where the list leads.
LEMMA UptoSteps ==
  ASSUME ListTypes, Closed
  PROVE  /\ Upto[0] = Head /\ \A k \in Nat : Upto[k + 1] = next[Upto[k]]
         /\ \A k \in Nat : Upto[k] \in Joined \cup {Head}
  <1>1. Upto = [k \in Nat |-> IF k = 0 THEN Head ELSE next[Upto[k - 1]]]
    <2>1. \E W : W = [k \in Nat |-> IF k = 0 THEN Head ELSE next[W[k - 1]]]
      <3>1. next \in [Places -> Places] /\ Head \in Places
        BY DEF ListTypes, Places
      <3>2. QED
        BY <3>1, WalkExists
    <2>2. QED
      BY <2>1 DEF Upto
  <1> HIDE DEF Upto
  <1>2. Upto[0] = Head /\ \A k \in Nat : Upto[k + 1] = next[Upto[k]]
    BY <1>1
  <1> DEFINE C == {k \in Nat : Upto[k] \in Joined \cup {Head}}
  <1>3. 0 \in C
    BY <1>2
  <1>4. \A k \in Nat : k \in C => k + 1 \in C
    BY <1>2 DEF Closed
  <1>5. C = Nat
    <2> HIDE DEF C
    <2>1. QED
      BY <1>3, <1>4, Induction DEF C
  <1>6. QED
    BY <1>2, <1>5

\* There are as many places as senders at most.
LEMMA JoinedCounts ==
  /\ IsFiniteSet(Joined) /\ Cardinality(Joined) \in Nat /\ Cardinality(Senders) \in Nat
  /\ Cardinality(Joined) <= Cardinality(Senders)
  BY UdpAssumption, FS_Subset, FS_CardinalityType DEF Joined

\* A walk stops, unless a second call waits or is about to.
LEMMA WalkStops ==
  ASSUME ListTypes, Closed, Orderly, NEW S,
         \A s \in Senders : call[s].nr > 0 => Dead(s)
  PROVE  \E n \in Lengths : Stops(S, n)
  <1> DEFINE N == Cardinality(Senders)
             Ends(k) == Upto[k] = Head \/ Dead(Upto[k]) \/ Upto[k] \in S
  <1>1. /\ Upto[0] = Head /\ \A k \in Nat : Upto[k + 1] = next[Upto[k]]
        /\ \A k \in Nat : Upto[k] \in Joined \cup {Head}
    BY UptoSteps
  <1>2. PICK pos \in [Places -> 0..Cardinality(Joined)] : Follows(pos)
    BY DEF Orderly
  <1>3. N \in Nat /\ Cardinality(Joined) \in Nat /\ Cardinality(Joined) <= N
    BY JoinedCounts
  <1>4. \A k \in Nat : Upto[k] \in Places
    BY <1>1 DEF Joined, Places
  <1> HIDE DEF Upto, N
  <1>5. \E k \in 1..(N + 1) : Ends(k)
    <2> SUFFICES ASSUME \A k \in 1..(N + 1) : ~Ends(k) PROVE FALSE
      OBVIOUS
    <2> DEFINE C == {k \in Nat : k <= N + 1 => pos[Upto[k]] >= k /\ (k > 0 => First(Upto[k]))}
    <2>1. 0 \in C
      BY <1>1, <1>2 DEF Follows
    <2>2. ASSUME NEW k \in Nat, k \in C PROVE k + 1 \in C
      <3>1. SUFFICES ASSUME k + 1 <= N + 1
                     PROVE  pos[Upto[k + 1]] >= k + 1 /\ First(Upto[k + 1])
        OBVIOUS
      <3>2. pos[Upto[k]] >= k /\ (Upto[k] = Head \/ First(Upto[k]))
        BY <1>1, <1>3, <2>2, <3>1
      <3>3. ~Ends(k + 1) /\ Upto[k + 1] \in Joined \cup {Head}
        BY <1>1, <1>3, <3>1
      <3>4. First(Upto[k + 1])
        BY <3>3 DEF Joined, Again
      <3>5. pos[Upto[k]] < pos[Upto[k + 1]]
        BY <1>1, <1>2, <1>4, <3>2, <3>4 DEF Follows
      <3>6. pos[Upto[k]] \in Nat /\ pos[Upto[k + 1]] \in Nat
        BY <1>2, <1>3, <1>4
      <3>7. QED
        BY <3>2, <3>4, <3>5, <3>6
    <2>3. C = Nat
      <3> HIDE DEF C
      <3>1. QED
        BY <2>1, <2>2, Induction DEF C
    <2>4. pos[Upto[N + 1]] >= N + 1
      BY <1>3, <2>3
    <2>5. pos[Upto[N + 1]] \in 0..Cardinality(Joined)
      BY <1>2, <1>3, <1>4
    <2>6. QED
      BY <1>3, <2>4, <2>5
  <1> DEFINE M == {k \in 1..(N + 1) : Ends(k)}
  <1>6. PICK n \in M : \A k \in M : n <= k
    <2> HIDE DEF Ends
    <2>1. M \in SUBSET Nat /\ M # {}
      BY <1>3, <1>5
    <2> HIDE DEF M
    <2>2. QED
      BY <2>1, LeastNat
  <1>7. \A k \in 1..(n - 1) : ~Ends(k)
    BY <1>3, <1>6
  <1>8. Stops(S, n) /\ n \in Lengths
    BY <1>6, <1>7 DEF Stops, Lengths, N
  <1>9. QED
    BY <1>8

\* Before a first call returns no walk fails.
LEMMA FreshWalks ==
  ASSUME ListTypes, Closed, Orderly, Fresh, NEW S
  PROVE  \E n \in Lengths : Walks(S, n)
  <1>1. PICK n \in Lengths : Stops(S, n)
    BY WalkStops DEF Fresh, ListTypes
  <1>2. n \in Nat /\ \A k \in Nat : Upto[k] \in Joined \cup {Head}
    BY UptoSteps, JoinedCounts DEF Lengths
  <1>3. Upto[n] = Head \/ ~Dead(Upto[n])
    BY <1>2 DEF Joined, First, Again, Fresh, Dead
  <1>4. QED
    BY <1>1, <1>3 DEF Walks

\* And the list has all who wait.
LEMMA FreshList ==
  ASSUME ListTypes, Closed, Orderly, Fresh
  PROVE  \E n \in Lengths :
           /\ Upto[n] = Head
           /\ {Upto[k] : k \in 1..(n - 1)} = {s \in Senders : call[s].pc = "waiting"}
  <1>1. PICK n \in Lengths : Walks({}, n)
    BY FreshWalks
  <1>2. /\ Upto[0] = Head /\ \A k \in Nat : Upto[k + 1] = next[Upto[k]]
        /\ \A k \in Nat : Upto[k] \in Joined \cup {Head}
    BY UptoSteps
  <1>3. n \in Nat \ {0}
    BY JoinedCounts DEF Lengths
  <1>4. \A s : First(s) <=> s \in Senders /\ call[s].pc = "waiting"
    BY DEF First, Fresh
  <1>5. Joined = {s \in Senders : First(s)}
    BY DEF Joined, Again, Fresh
  <1>6. Upto[n] = Head /\ \A k \in 1..(n - 1) : Upto[k] # Head
    <2>1. Upto[n] \in Joined => ~Dead(Upto[n])
      BY <1>4, <1>5 DEF Dead
    <2>2. QED
      BY <1>1, <1>2, <1>3, <2>1 DEF Walks, Stops
  <1>7. \A k \in 1..(n - 1) : First(Upto[k])
    BY <1>2, <1>3, <1>5, <1>6
  <1>8. ASSUME NEW s \in Senders, First(s)
        PROVE  \E k \in 1..(n - 1) : Upto[k] = s
    <2> SUFFICES ASSUME \A k \in 1..(n - 1) : Upto[k] # s PROVE FALSE
      OBVIOUS
    <2>1. PICK pos \in [Places -> 0..Cardinality(Joined)] : Follows(pos) /\ Complete(pos)
      BY DEF Orderly
    <2>2. \A u \in Places : pos[u] \in Nat
      BY <2>1, JoinedCounts
    <2>3. \A k \in 0..(n - 1) : Upto[k] \in Places /\ (Upto[k] = Head \/ First(Upto[k]))
      BY <1>2, <1>3, <1>7 DEF Places, First
    <2> DEFINE C == {k \in Nat : k <= n - 1 => pos[Upto[k]] < pos[s]}
    <2>4. 0 \in C
      BY <1>2, <1>8, <2>1 DEF Follows
    <2>5. ASSUME NEW k \in Nat, k \in C PROVE k + 1 \in C
      <3>1. SUFFICES ASSUME k + 1 <= n - 1 PROVE pos[Upto[k + 1]] < pos[s]
        OBVIOUS
      <3>2. pos[Upto[k]] < pos[s] /\ Upto[k + 1] = next[Upto[k]]
        BY <1>2, <1>3, <2>5, <3>1
      <3>3. ~LeavesOut(pos, Upto[k], s)
        BY <1>3, <1>8, <2>1, <2>3, <3>1 DEF Complete
      <3>4. Upto[k + 1] # Head /\ First(Upto[k + 1]) /\ Upto[k + 1] # s
        BY <1>3, <1>6, <1>7, <3>1
      <3>5. pos[Upto[k + 1]] # pos[s]
        BY <1>8, <2>1, <3>4 DEF Follows, First
      <3>6. ~(pos[s] < pos[Upto[k + 1]])
        BY <3>2, <3>3, <3>4 DEF LeavesOut
      <3>7. pos[s] \in Nat /\ pos[Upto[k + 1]] \in Nat
        BY <2>2, <3>4 DEF Places, First
      <3>8. QED
        BY <3>5, <3>6, <3>7
    <2>6. C = Nat
      <3> HIDE DEF C
      <3>1. QED
        BY <2>4, <2>5, Induction DEF C
    <2>7. pos[Upto[n - 1]] < pos[s] /\ next[Upto[n - 1]] = Head
      <3>1. n - 1 \in Nat /\ n - 1 \in C
        BY <1>3, <2>6
      <3>2. next[Upto[n - 1]] = Upto[n]
        BY <1>2, <1>3, <3>1
      <3>3. QED
        BY <1>6, <3>1, <3>2
    <2>8. ~LeavesOut(pos, Upto[n - 1], s)
      BY <1>3, <1>8, <2>1, <2>3 DEF Complete
    <2>9. QED
      BY <2>7, <2>8 DEF LeavesOut
  <1>9. {Upto[k] : k \in 1..(n - 1)} = {s \in Senders : call[s].pc = "waiting"}
    BY <1>4, <1>7, <1>8
  <1>10. QED
    BY <1>6, <1>9

\* The list starts empty.
LEMMA InitList == Init => ListInv
  <1> SUFFICES ASSUME Init PROVE ListInv
    OBVIOUS
  <1>1. ListTypes /\ lock = "free" /\ \A s \in Senders : ~Again(s) /\ ~First(s)
    <2>1. UdpTypes
      BY InitUdp DEF UdpInv
    <2>2. QED
      BY <2>1 DEF Init, ListTypes, Places, Again, First
  <1>2. Joined = {} /\ next[Head] = Head
    BY <1>1 DEF Joined, Init
  <1>3. Closed
    BY <1>2 DEF Closed
  <1>4. Orderly
    <2> DEFINE pos == [u \in Places |-> 0]
    <2>1. pos \in [Places -> 0..Cardinality(Joined)]
      BY JoinedCounts
    <2>2. Follows(pos) /\ Complete(pos)
      BY <1>1 DEF Follows, Complete, First, Places
    <2> HIDE DEF pos
    <2>3. QED
      BY <2>1, <2>2 DEF Orderly
  <1>5. QED
    BY <1>1, <1>3, <1>4 DEF ListInv

\* A step of a sender that is not at the list.
LEMMA OffListKeeps ==
  ASSUME ListInv, UdpTypes', NEW s \in Senders,
         KeyRead(s) \/ Send(s) \/ Prepare(s) \/ TimeOut(s) \/ Resume(s)
  PROVE  ListInv'
  <1>1. lock = "free" /\ lock' = "free" /\ ListTypes /\ Closed /\ Orderly
    BY DEF ListInv, KeyRead, Send, Prepare, TimeOut, Resume, At
  <1>2. /\ DOMAIN call' = Senders /\ \A r \in Senders \ {s} : call'[r] = call[r]
        /\ call'[s].nr = call[s].nr \/ (Resume(s) /\ call'[s].nr = call[s].nr + 1)
    <2> USE DEF ListTypes, UdpTypes, Pcs
    <2>1. CASE KeyRead(s)
      BY <1>1, <2>1 DEF KeyRead
    <2>2. CASE Send(s) \/ Prepare(s)
      BY <1>1, <2>2 DEF Send, Prepare, Goes
    <2>3. CASE TimeOut(s)
      BY <1>1, <2>3 DEF TimeOut
    <2>4. CASE Resume(s)
      BY <1>1, <2>4, Resumed
    <2>5. QED
      BY <2>1, <2>2, <2>3, <2>4
  <1>3. call[s].nr \in Nat
    BY <1>1 DEF ListTypes, UdpTypes
  <1>4. \A r \in Places : next'[r] = next[r] \/ (r = s /\ next'[s] = s /\ call[s].pc = "sent")
    BY <1>1 DEF ListTypes, UdpTypes, Places, KeyRead, Send, Prepare, TimeOut, Resume, At
  <1>5. ListTypes'
    <2>1. next' \in [Places -> Places]
      BY <1>1 DEF ListTypes, UdpTypes, Places, KeyRead, Send, Prepare, TimeOut, Resume
    <2>2. QED
      BY <2>1 DEF ListTypes
  <1>6. \A r : /\ Again(r) => Again(r)'
               /\ First(r)' => First(r)
               /\ First(r) => First(r)' \/ Again(r)'
               /\ First(r) /\ Again(r)' => ~Fresh'
               /\ Again(r)' => Again(r) \/ First(r)
    <2>1. First(s)' => First(s)
      <3>1. CASE TimeOut(s)
        BY <1>2, <3>1 DEF First, TimeOut, At
      <3>2. CASE ~TimeOut(s)
        <4>1. call'[s].pc # "waiting"
          <5>1. CASE Resume(s)
            BY <1>1, <5>1, Resumed DEF ListTypes, UdpTypes
          <5>2. CASE KeyRead(s)
            BY <1>1, <5>2 DEF ListTypes, UdpTypes, KeyRead
          <5>3. CASE Send(s) \/ Prepare(s)
            BY <1>1, <5>3 DEF ListTypes, UdpTypes, Send, Prepare, Goes
          <5>4. QED
            BY <3>2, <5>1, <5>2, <5>3
        <4>2. QED
          BY <4>1 DEF First
      <3>3. QED
        BY <3>1, <3>2
    <2>2. First(s) => First(s)' \/ Again(s)'
      <3>1. First(s) => TimeOut(s) \/ Resume(s)
        BY DEF First, KeyRead, Send, Prepare, At
      <3>2. CASE TimeOut(s)
        BY <1>1, <1>2, <3>2 DEF ListTypes, UdpTypes, First, TimeOut
      <3>3. CASE Resume(s)
        <4>1. call'[s].nr = call[s].nr + 1
          BY <1>1, <3>3, Resumed DEF ListTypes, UdpTypes
        <4>2. QED
          BY <1>3, <4>1 DEF Again
      <3>4. QED
        BY <3>1, <3>2, <3>3
    <2>3. Again(s) => Again(s)'
      BY <1>2, <1>3 DEF Again
    <2>4. Again(s)' => Again(s) \/ First(s)
      BY <1>2, <1>3 DEF Again, First, Resume, At
    <2>5. \A r \in Senders \ {s} : (First(r)' <=> First(r)) /\ (Again(r)' <=> Again(r))
      BY <1>2 DEF First, Again
    <2>6. \A r : First(r) /\ Again(r)' => ~Fresh'
      BY <1>3 DEF First, Again, Fresh
    <2>7. QED
      BY <2>1, <2>2, <2>3, <2>4, <2>5, <2>6 DEF First, Again
  <1>7. Joined' = Joined
    BY <1>6 DEF Joined
  <1>8. Closed'
    BY <1>1, <1>4, <1>7 DEF Closed, Joined, Places
  <1>9. Orderly'
    <2>1. PICK pos \in [Places -> 0..Cardinality(Joined)] : Follows(pos) /\ Complete(pos)
      BY <1>1 DEF Orderly
    <2>2. \A u \in Places : u = Head \/ First(u) => next'[u] = next[u]
      BY <1>4, UdpAssumption DEF First
    <2>3. Follows(pos)'
      <3>1. \A u \in Places : (u = Head \/ First(u)') /\ First(next[u])' =>
              (u = Head \/ First(u)) /\ First(next[u]) /\ next'[u] = next[u]
        BY <1>6, <2>2
      <3>2. \A u \in Places : (u = Head \/ First(u)') => next'[u] = next[u]
        BY <1>6, <2>2
      <3>3. QED
        BY <1>6, <2>1, <3>1, <3>2 DEF Follows
    <2>4. Complete(pos)'
      <3> SUFFICES ASSUME Fresh', NEW u \in Places, NEW r \in Senders,
                          (u = Head \/ First(u)'), First(r)'
                   PROVE  ~LeavesOut(pos, u, r)'
        BY DEF Complete
      <3>1. Fresh
        BY <1>2, <1>3 DEF Fresh
      <3>2. (u = Head \/ First(u)) /\ First(r) /\ next'[u] = next[u]
        BY <1>6, <2>2
      <3>3. ~LeavesOut(pos, u, r)
        BY <2>1, <3>1, <3>2 DEF Complete
      <3>4. QED
        BY <3>2, <3>3 DEF LeavesOut
    <2>5. QED
      BY <1>7, <2>1, <2>3, <2>4 DEF Orderly
  <1>10. QED
    BY <1>1, <1>5, <1>8, <1>9 DEF ListInv

\* A walk that fails leaves the lock taken, but not for ever before a second call.
LEMMA FailsWell ==
  ASSUME ListInv, UdpTypes', lock = "free", NEW S, Fails(S), UNCHANGED <<next, call>>
  PROVE  ListInv'
  <1>1. ListTypes /\ Closed /\ Orderly /\ ~Fresh
    BY FreshWalks DEF ListInv, Fails
  <1>2. lock' # "free"
    BY DEF Fails
  <1>3. lock' = "hung" => \E s \in Senders : call[s].nr > 0 /\ ~Dead(s)
    BY <1>1, WalkStops DEF Fails
  <1>4. \A s \in Senders : ~Dead(s) => call[s].pc \in {"framed", "waiting"}
    BY <1>1 DEF ListTypes, UdpTypes, Pcs, Dead
  <1>5. ListTypes' /\ Closed'
    BY <1>1 DEF ListTypes, UdpTypes, Closed, Joined, Again, First
  <1>6. WaitersListed'
    BY <1>1, <1>3, <1>4 DEF WaitersListed, Fresh
  <1>7. QED
    BY <1>2, <1>5, <1>6 DEF ListInv

\* A reply changes neither the list nor who is in it.
LEMMA WakeListed ==
  ASSUME ListInv, UdpTypes', NEW m \in sent, Wake(m)
  PROVE  ListInv'
  <1>1. CASE Fails(WithKey(m)) /\ UNCHANGED <<frame, call>>
    BY <1>1, FailsWell DEF Wake
  <1>2. ASSUME NEW x, call' = [call EXCEPT ![x].awake = (call[x].pc = "waiting")],
               UNCHANGED <<next, lock>>, lock = "free"
        PROVE  ListInv'
    <2>1. /\ DOMAIN call' = Senders
          /\ \A s \in Senders : call'[s].nr = call[s].nr /\ call'[s].pc = call[s].pc
      BY <1>2 DEF ListInv, ListTypes, UdpTypes
    <2>2. ListTypes'
      BY <1>2, <2>1 DEF ListInv, ListTypes
    <2>3. \A s : (First(s)' <=> First(s)) /\ (Again(s)' <=> Again(s))
      BY <2>1 DEF First, Again
    <2>4. Joined' = Joined /\ (Fresh' <=> Fresh)
      BY <2>1, <2>3 DEF Joined, Fresh
    <2>5. Closed'
      BY <1>2, <2>4 DEF ListInv, Closed
    <2>6. Orderly'
      BY <1>2, <2>3, <2>4 DEF ListInv, Orderly, Follows, Complete, LeavesOut
    <2>7. QED
      BY <1>2, <2>2, <2>5, <2>6 DEF ListInv
  <1>3. QED
    BY <1>1, <1>2 DEF Wake

\* A new waiter goes right behind the node at which its walk stopped; in the order, behind
\* that node if it waits for the first time, and else in front.
LEMMA EnlistWell ==
  ASSUME ListInv, UdpTypes', NEW s \in Senders, Enlist(s)
  PROVE  ListInv'
  <1>1. lock = "free" /\ call[s].pc = "framed" /\ ListTypes /\ Closed /\ Orderly
    BY DEF ListInv, Enlist, At
  <1>2. CASE Fails(NotLess(s)) /\ UNCHANGED <<next, call>>
    BY <1>1, <1>2, FailsWell
  <1>3. ASSUME NEW n \in Reached(s), Add(s, Upto[n]),
               Goes(s, "waiting"), lock' = "free"
        PROVE  ListInv'
    <2> DEFINE u == Upto[n]
    <2>1. u \in Joined \cup {Head} /\ (u = Head \/ ~Dead(u))
      <3>1. n \in Nat
        BY JoinedCounts DEF Reached, Lengths
      <3>2. Walks(NotLess(s), n)
        BY DEF Reached
      <3>3. QED
        BY <1>1, <3>1, <3>2, UptoSteps DEF Walks
    <2> HIDE DEF u
    <2>2. s # Head /\ u \in Places /\ ~First(s)
      BY <1>1, <2>1, UdpAssumption DEF Places, Joined, First
    <2>3. /\ DOMAIN call' = Senders /\ \A r \in Senders \ {s} : call'[r] = call[r]
          /\ call'[s].pc = "waiting" /\ call'[s].nr = call[s].nr
      BY <1>1, <1>3 DEF ListTypes, UdpTypes, Goes
    <2>4. \A r : (First(r)' <=> First(r) \/ (r = s /\ ~Again(s))) /\ (Again(r)' <=> Again(r))
      BY <1>1, <2>3 DEF First, Again, ListTypes, UdpTypes
    <2>5. Joined' = Joined \cup {s} /\ (Fresh' <=> Fresh)
      BY <2>3, <2>4 DEF Joined, Fresh
    <2>6. /\ next' \in [Places -> Places] /\ next'[s] = IF u = s THEN s ELSE next[u]
          /\ next'[u] = s /\ \A x \in Places \ {s, u} : next'[x] = next[x]
      <3>1. s \in Places /\ DOMAIN next = Places
            /\ next' = [x \in DOMAIN next |-> IF x = u THEN s ELSE IF x = s THEN next[u] ELSE next[x]]
        BY <1>1, <1>3 DEF u, Places, Add, ListTypes
      <3>2. QED
        BY <1>1, <2>2, <3>1 DEF ListTypes, UdpTypes
    <2>7. ListTypes'
      BY <1>1, <2>3, <2>6 DEF ListTypes, UdpTypes, Pcs
    <2>8. Closed'
      BY <1>1, <2>1, <2>5, <2>6 DEF Closed, Joined, Places
    <2>9. Orderly'
      <3>1. PICK pos \in [Places -> 0..Cardinality(Joined)] : Follows(pos) /\ Complete(pos)
        BY <1>1 DEF Orderly
      <3>2. \A x \in Places : pos[x] \in Nat
        BY <3>1, JoinedCounts
      <3>3. CASE Again(s)
        <4>1. Joined' = Joined /\ \A r : First(r)' <=> First(r)
          BY <2>4, <2>5, <3>3 DEF Joined
        <4>2. ~First(s) /\ \A x \in Places : (x = Head \/ First(x)) => x = u \/ next'[x] = next[x]
          BY <2>2, <2>6
        <4>3. Follows(pos)'
          BY <2>2, <2>6, <3>1, <4>1, <4>2 DEF Follows
        <4>4. ~Fresh'
          BY <2>5, <3>3, <1>1 DEF Fresh, Again, ListTypes, UdpTypes
        <4>5. QED
          BY <3>1, <4>1, <4>3, <4>4 DEF Orderly, Complete
      <3>4. CASE ~Again(s)
        <4>1. s \notin Joined /\ u # s /\ \A r : First(r)' <=> First(r) \/ r = s
          BY <2>1, <2>2, <2>4, <3>4 DEF Joined
        <4>2. Cardinality(Joined') = Cardinality(Joined) + 1 /\ Cardinality(Joined) \in Nat
          BY <2>5, <4>1, JoinedCounts, FS_AddElement
        <4>3. PICK at \in 0..Cardinality(Joined) :
                \/ (u = Head \/ First(u)) /\ at = pos[u]
                \/ ~(u = Head \/ First(u)) /\ at = 0
          <5>1. pos[u] \in 0..Cardinality(Joined) /\ 0 \in 0..Cardinality(Joined)
            BY <2>2, <3>1, <4>2
          <5>2. QED
            BY <5>1
        <4>4. PICK new \in [Places -> 0..Cardinality(Joined')] :
                new = [x \in Places |-> IF x = s THEN at + 1
                                        ELSE IF pos[x] > at THEN pos[x] + 1 ELSE pos[x]]
          <5> DEFINE c == Cardinality(Joined)
                     f == [x \in Places |-> IF x = s THEN at + 1
                                           ELSE IF pos[x] > at THEN pos[x] + 1 ELSE pos[x]]
          <5>1. c \in Nat /\ Cardinality(Joined') = c + 1 /\ at \in 0..c
            BY <4>2, <4>3
          <5>2. \A x \in Places : pos[x] \in 0..c
            BY <3>1
          <5> HIDE DEF c
          <5>3. f \in [Places -> 0..(c + 1)]
            BY <5>1, <5>2
          <5>4. QED
            BY <5>1, <5>3
        <4>5. /\ new[s] = at + 1
              /\ \A x \in Places \ {s} : new[x] = IF pos[x] > at THEN pos[x] + 1 ELSE pos[x]
          BY <4>4 DEF Places
        <4>6. ASSUME NEW x \in Places \ {s}, NEW y \in Places \ {s}
              PROVE  /\ new[x] < new[y] <=> pos[x] < pos[y]
                     /\ new[x] = new[y] <=> pos[x] = pos[y]
          <5>1. pos[x] \in Nat /\ pos[y] \in Nat /\ at \in Nat
            BY <3>2, <4>2, <4>3
          <5>2. /\ new[x] = IF pos[x] > at THEN pos[x] + 1 ELSE pos[x]
                /\ new[y] = IF pos[y] > at THEN pos[y] + 1 ELSE pos[y]
            BY <4>5
          <5>3. QED
            BY <5>1, <5>2
        <4>7. ASSUME NEW x \in Places \ {s}
              PROVE  /\ new[x] < new[s] <=> pos[x] <= at
                     /\ new[s] < new[x] <=> at < pos[x]
                     /\ new[x] # new[s]
          BY <3>2, <4>2, <4>3, <4>5
        <4>8. /\ s \in Places /\ Head \in Places /\ Head # s
              /\ \A x : First(x) => x \in Places \ {s}
          BY <2>2 DEF Places, First
        \* What the new node leads to waits already.
        <4>9. /\ next'[u] = s /\ next'[s] = next[u]
              /\ \A x \in Places \ {s, u} : next'[x] = next[x]
              /\ \A x \in Places : First(x) => First(next[x]) \/ next[x] = Head \/ Again(next[x])
              /\ First(next[u]) \/ next[u] = Head \/ Again(next[u])
              /\ First(next[Head]) \/ next[Head] = Head \/ Again(next[Head])
          <5>1. \A x \in Joined \cup {Head} : First(next[x]) \/ next[x] = Head \/ Again(next[x])
            BY <1>1 DEF Closed, Joined
          <5>2. \A x : First(x) => x \in Joined
            BY DEF First, Joined
          <5>3. QED
            BY <2>1, <2>6, <4>1, <5>1, <5>2
        <4>10. \A x : x = u \/ x = Head \/ First(x) => next[x] # s
          <5>1. \A x \in Joined \cup {Head} : next[x] \in Joined \cup {Head}
            BY <1>1 DEF Closed
          <5>2. \A x : First(x) => x \in Joined
            BY DEF First, Joined
          <5>3. QED
            BY <2>1, <4>1, <4>8, <5>1, <5>2
        <4>11. Follows(new)'
          <5>1. new[Head] = 0
            BY <3>1, <4>3, <4>5, <4>8, <3>2 DEF Follows
          <5>2. \A r \in Senders : First(r)' => new[r] > 0
            <6>1. \A r \in Senders : First(r) => pos[Head] < pos[r]
              BY <3>1 DEF Follows
            <6>2. \A r \in Senders : First(r) => new[Head] < new[r]
              BY <4>6, <4>8, <6>1
            <6>3. new[s] > 0
              BY <4>3, <4>5
            <6>4. QED
              BY <4>1, <5>1, <6>2, <6>3
          <5>3. \A r, t \in Senders : First(r)' /\ First(t)' /\ new[r] = new[t] => r = t
            BY <3>1, <4>1, <4>6, <4>7, <4>8 DEF Follows
          <5>4. ASSUME NEW x \in Places, x = Head \/ First(x)', First(next[x])'
                PROVE  new[x] < new[next'[x]]
            <6>1. CASE x = u
              <7>1. u = Head \/ First(u)
                BY <4>1, <5>4, <6>1
              <7>2. at = pos[u] /\ at \in Nat
                BY <4>2, <4>3, <7>1
              <7>3. u \in Places \ {s}
                BY <2>2, <4>1
              <7>4. new[u] < new[s] <=> pos[u] <= at
                BY <4>7, <7>3
              <7>5. new[u] < new[s]
                BY <7>2, <7>4
              <7>6. QED
                BY <4>9, <6>1, <7>5
            <6>2. CASE x = s
              <7>1. First(next[u]) /\ next'[s] = next[u]
                BY <4>1, <4>9, <4>10, <5>4, <6>2
              <7>2. next[u] \in Senders /\ next[u] \in Places \ {s} /\ pos[next[u]] > 0
                BY <3>1, <4>8, <7>1 DEF Follows, First
              <7>3. pos[next[u]] > at
                BY <2>2, <3>1, <4>3, <7>1, <7>2 DEF Follows
              <7>4. QED
                BY <4>7, <6>2, <7>1, <7>2, <7>3
            <6>3. CASE x \notin {s, u}
              <7>1. (x = Head \/ First(x)) /\ next'[x] = next[x]
                BY <4>1, <4>9, <5>4, <6>3
              <7>2. First(next[x])
                BY <4>1, <4>10, <5>4, <7>1
              <7>3. QED
                BY <3>1, <4>6, <4>8, <6>3, <7>1, <7>2 DEF Follows
            <6>4. QED
              BY <6>1, <6>2, <6>3
          <5>5. QED
            BY <5>1, <5>2, <5>3, <5>4 DEF Follows
        <4>12. Complete(new)'
          <5> SUFFICES ASSUME Fresh', NEW x \in Places, NEW r \in Senders,
                              x = Head \/ First(x)', First(r)', LeavesOut(new, x, r)'
                       PROVE  FALSE
            BY DEF Complete
          <5>1. Fresh /\ \A y : ~Again(y)
            BY <2>5 DEF Fresh, Again
          <5>2. (u = Head \/ First(u)) /\ at = pos[u]
            BY <2>1, <4>3, <5>1 DEF Joined
          <5>3. new[x] < new[r] /\ (next'[x] = Head \/ new[r] < new[next'[x]])
            BY DEF LeavesOut
          <5>4. \A y \in Places, t \in Senders :
                  (y = Head \/ First(y)) /\ First(t) /\ pos[y] < pos[t] =>
                    next[y] # Head /\ ~(pos[t] < pos[next[y]])
            BY <3>1, <5>1 DEF Complete, LeavesOut
          <5>5. \A y \in Places : y = Head \/ First(y) => next[y] = Head \/ First(next[y])
            BY <4>9, <5>1
          <5>6. r # s => First(r) /\ r \in Places \ {s}
            BY <4>1, <4>8
          <5>7. CASE x = s
            <6>1. First(r) /\ r \in Places \ {s} /\ next'[s] = next[u]
              BY <2>6, <4>1, <4>2, <4>3, <4>5, <5>3, <5>6, <5>7
            <6>2. pos[u] < pos[r]
              BY <4>7, <5>2, <5>3, <5>7, <6>1
            <6>3. next[u] # Head => next[u] \in Places \ {s} /\ pos[r] < pos[next[u]]
              BY <2>2, <4>6, <4>8, <5>2, <5>3, <5>5, <5>7, <6>1
            <6>4. QED
              BY <2>2, <5>2, <5>4, <6>1, <6>2, <6>3
          <5>8. CASE x = u
            <6>1. next'[u] = s /\ s # Head /\ u \in Places \ {s}
              BY <2>2, <4>1, <4>9
            <6>2. new[u] < new[r] /\ new[r] < new[s]
              BY <5>3, <5>8, <6>1
            <6>3. First(r) /\ r \in Places \ {s}
              BY <4>2, <4>3, <4>5, <5>6, <6>2
            <6>4. pos[u] < pos[r] /\ pos[r] <= pos[u]
              BY <4>6, <4>7, <5>2, <6>1, <6>2, <6>3
            <6>5. QED
              BY <2>2, <3>2, <6>3, <6>4
          <5>9. CASE x \notin {s, u}
            <6>1. /\ x \in Places \ {s} /\ (x = Head \/ First(x)) /\ next'[x] = next[x]
                  /\ (next[x] = Head \/ First(next[x])) /\ next[x] \in Places \ {s}
              BY <4>1, <4>8, <4>9, <5>5, <5>9
            <6>2. CASE r # s
              <7>1. First(r) /\ r \in Places \ {s}
                BY <5>6, <6>2
              <7>2. pos[x] < pos[r] /\ (next[x] = Head \/ pos[r] < pos[next[x]])
                BY <4>6, <5>3, <6>1, <7>1
              <7>3. QED
                BY <5>4, <6>1, <7>1, <7>2
            <6>3. CASE r = s
              <7>1. pos[x] <= pos[u] /\ (next[x] = Head \/ pos[u] < pos[next[x]])
                BY <4>7, <5>2, <5>3, <6>1, <6>3
              <7>2. First(u) /\ pos[x] # pos[u]
                BY <2>2, <3>1, <3>2, <4>8, <5>2, <5>9, <6>1, <7>1 DEF Follows, First
              <7>3. pos[x] < pos[u] /\ u \in Senders
                BY <2>2, <3>2, <6>1, <7>1, <7>2 DEF First
              <7>4. QED
                BY <5>4, <6>1, <7>1, <7>2, <7>3
            <6>4. QED
              BY <6>2, <6>3
          <5>10. QED
            BY <5>7, <5>8, <5>9
        <4>13. QED
          BY <4>4, <4>11, <4>12 DEF Orderly
      <3>5. QED
        BY <3>3, <3>4
    <2>10. QED
      BY <1>3, <2>7, <2>8, <2>9 DEF ListInv
  <1>4. QED
    BY <1>1, <1>2, <1>3 DEF Enlist

\* The invariant is inductive.
LEMMA ListKeeps == UdpInv /\ ListInv /\ [Next]_vars => ListInv'
  <1> SUFFICES ASSUME UdpInv, ListInv, [Next]_vars PROVE ListInv'
    OBVIOUS
  <1>1. UdpTypes'
    BY UdpKeeps DEF UdpInv
  <1>2. ASSUME NEW s \in Senders, Step(s) PROVE ListInv'
    BY <1>1, <1>2, OffListKeeps, EnlistWell DEF Step
  <1>3. ASSUME NEW m \in sent, Wake(m) PROVE ListInv'
    BY <1>1, <1>3, WakeListed
  <1>4. CASE UNCHANGED vars
    <2>1. next' = next /\ call' = call /\ lock' = lock
      BY <1>4 DEF vars
    <2>2. Upto' = Upto
      BY <2>1 DEF Upto
    <2>3. WaitersListed' <=> WaitersListed
      BY <2>1, <2>2 DEF WaitersListed
    <2>4. Closed' /\ ListTypes'
      BY <1>1, <2>1 DEF ListInv, ListTypes, Closed, Joined, First, Again
    <2>5. Orderly' <=> Orderly
      BY <2>1 DEF Orderly, Follows, Complete, LeavesOut, Joined, First, Again, Fresh
    <2>6. QED
      BY <2>1, <2>3, <2>4, <2>5 DEF ListInv
  <1>5. QED
    BY <1>2, <1>3, <1>4 DEF Next

(* Until a first call returns the list leads through all who wait and back *)
(* (udp_trans.c 38-104), and it takes a second call to tie it into a loop  *)
(* in which the lock is held for ever, for any number of senders.          *)
THEOREM AllListed == Spec => []WaitersListed
  <1>1. ListInv => WaitersListed
    BY FreshList DEF ListInv, WaitersListed, Fresh
  <1>2. QED
    BY InitUdp, UdpKeeps, InitList, ListKeeps, <1>1, PTL DEF Spec
=============================================================================
