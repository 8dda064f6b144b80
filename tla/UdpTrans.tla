------------------------------ MODULE UdpTrans ------------------------------
(***************************************************************************)
(* Requests and replies over UDP in the kernel module (udp_trans.c).       *)
(* send_udp_packet_no_fagment sends a request with a key and then waits    *)
(* for a reply with that key, on a list whose nodes lie in the frames of   *)
(* udp_trans_wait; udp_trans_wake gives a reply to the first waiter with   *)
(* its key.  The build calls neither at present; the peer and the network  *)
(* are modelled as what they may do to them: replies get lost, come twice, *)
(* late, or before the sender waits.                                       *)
(*                                                                         *)
(* Nobody is ever taken off the list (line 64 asks for an empty node), so  *)
(* it leads through frames of calls that have returned.  Who reads such a  *)
(* frame is not followed further; a sender that calls again may find its   *)
(* old frame under the new one and ties the list into a loop.              *)
(***************************************************************************)
EXTENDS Integers, FiniteSets

CONSTANTS
  Senders,
  Long,     \* 2^64: keys are unsigned long,
  IntHalf,  \* 2^31: but udp_trans_wait takes an int
  Junk,     \* keys that a freed packet may seem to hold
  MaxCalls  \* MaxCalls[s]: bound on the calls of a sender

Head == "head"

ASSUME UdpAssumption ==
  /\ IsFiniteSet(Senders) /\ Head \notin Senders
  /\ IntHalf \in Nat \ {0} /\ Long \in Nat /\ Long >= 2 * IntHalf
  /\ Junk \subseteq 0..(Long - 1)
  /\ MaxCalls \in [Senders -> Nat]

VARIABLES
  keyNum,   \* wireway_msg_key_num
  sent,     \* the requests sent, each with its sender, call and key
  call,     \* what each sender is at, and the calls that it has returned from
  next,     \* the list of waiters
  frame,    \* the waiters: key and reply, if any
  lock,     \* "free", "hung" with the lock taken, or "wild" after a dead frame
  raced     \* history: two senders were in wireway_msg_key_num++ at once

vars == <<keyNum, sent, call, next, frame, lock, raced>>

\* unsigned long to int and back: the upper half becomes greater than any other key.
Narrowed(k) ==
  LET n == k % (2 * IntHalf) IN IF n < IntHalf THEN n ELSE n + Long - 2 * IntHalf

Init ==
  /\ keyNum = 0
  /\ sent = {}
  /\ call = [s \in Senders |-> [pc |-> "idle", nr |-> 0, key |-> 0, awake |-> FALSE]]
  /\ next = [x \in Senders \cup {Head} |-> x]
  /\ frame = [s \in Senders |-> [key |-> 0, reply |-> {}]]
  /\ lock = "free"
  /\ raced = FALSE

At(s, pc) == lock = "free" /\ call[s].pc = pc
Goes(s, pc) == call' = [call EXCEPT ![s].pc = pc]

\* The list from the head on, as far as it can be read.
Upto[n \in Nat] == IF n = 0 THEN Head ELSE next[Upto[n - 1]]
Dead(s) == call[s].pc \in {"idle", "keyed", "sent"}

\* A walk that stops at the first waiter of S: where it stops, or how it fails.
Stops(S, n) ==
  /\ \A k \in 1..(n - 1) : Upto[k] # Head /\ ~Dead(Upto[k]) /\ Upto[k] \notin S
  /\ \/ Upto[n] = Head
     \/ Upto[n] # Head /\ (Dead(Upto[n]) \/ Upto[n] \in S)
Lengths == 1..(Cardinality(Senders) + 1)
Walks(S, n) == n \in Lengths /\ Stops(S, n) /\ (Upto[n] = Head \/ ~Dead(Upto[n]))
Fails(S) ==
  /\ ~\E n \in Lengths : Walks(S, n)
  /\ lock' = IF \E n \in Lengths : Stops(S, n) THEN "wild" ELSE "hung"

-----------------------------------------------------------------------------
(* wireway_msg_key_num++ is a read and, at the latest when the packet      *)
(* leaves, a write.                                                        *)
KeyRead(s) ==
  /\ At(s, "idle") /\ call[s].nr < MaxCalls[s]
  /\ call' = [call EXCEPT ![s] = [@ EXCEPT !.pc = "keyed", !.key = keyNum]]
  /\ raced' = (raced \/ \E r \in Senders : call[r].pc = "keyed")
  /\ UNCHANGED <<keyNum, sent, next, frame, lock>>

Request(s) == [by |-> s, nr |-> call[s].nr, key |-> call[s].key]

Send(s) ==
  /\ At(s, "keyed")
  /\ keyNum' = (call[s].key + 1) % Long
  /\ sent' = sent \cup {Request(s)}
  /\ Goes(s, "sent")
  /\ UNCHANGED <<next, frame, lock, raced>>

\* The key is read again from the packet, which may have been freed, and the frame is
\* set up before the lock is taken.
Prepare(s) ==
  /\ At(s, "sent")
  /\ next' = [next EXCEPT ![s] = s]
  /\ \E k \in {call[s].key} \cup Junk :
       frame' = [frame EXCEPT ![s] = [key |-> Narrowed(k), reply |-> {}]]
  /\ Goes(s, "framed")
  /\ UNCHANGED <<keyNum, sent, lock, raced>>

NotLess(s) == {x \in Senders : frame[x].key >= frame[s].key}
Reached(s) == {n \in Lengths : Walks(NotLess(s), n)}

\* MUTANT: the node is initialised after it is in the list.
AddUnlinked(s, u) ==
  next' = [x \in DOMAIN next |-> IF x \in {u, s} THEN s ELSE next[x]]

\* list_add of the sender's node behind node u; it comes last that u leads to the new node,
\* which ties a node that finds itself in the list to itself.
Add(s, u) ==
  next' = [x \in DOMAIN next |-> IF x = u THEN s ELSE IF x = s THEN next[u] ELSE next[x]]

\* After the first waiter whose key is not less, or after the head.
Enlist(s) ==
  /\ At(s, "framed")
  /\ \/ /\ \E n \in Reached(s) : Add(s, Upto[n])
        /\ Goes(s, "waiting")
        /\ UNCHANGED lock
     \/ Fails(NotLess(s)) /\ UNCHANGED <<next, call>>
  /\ UNCHANGED <<keyNum, sent, frame, raced>>

\* MUTANT: schedule() in place of schedule_timeout().
NoTimeOut(s) == FALSE /\ UNCHANGED vars

\* schedule_timeout wakes the sender if nobody did.
TimeOut(s) ==
  /\ At(s, "waiting") /\ ~call[s].awake
  /\ call' = [call EXCEPT ![s].awake = TRUE]
  /\ UNCHANGED <<keyNum, sent, next, frame, lock, raced>>

\* The node is removed if it is in no list; the frame and the packet are gone.
Resume(s) ==
  /\ At(s, "waiting") /\ call[s].awake
  /\ call' = [call EXCEPT ![s] = [pc |-> "idle", nr |-> @.nr + 1, key |-> 0, awake |-> FALSE]]
  /\ frame' = [frame EXCEPT ![s] = [key |-> 0, reply |-> {}]]
  /\ UNCHANGED <<keyNum, sent, next, lock, raced>>

WithKey(m) == {x \in Senders : frame[x].key = m.key}

\* MUTANT: the first waiter gets the reply.
AnsweredFirst(m) == {n \in {1} : Walks(Senders, n)}

Answered(m) == {n \in Lengths : Walks(WithKey(m), n)}

(* udp_trans_wake with the reply to a request, once, again or never.       *)
Wake(m) ==
  /\ lock = "free"
  /\ \/ \E n \in Answered(m) :
          LET x == Upto[n]
          IN /\ x # Head
             /\ frame' = [frame EXCEPT ![x].reply = {m}]
             /\ call' = [call EXCEPT ![x].awake = (call[x].pc = "waiting")]
             /\ UNCHANGED lock
     \/ Fails(WithKey(m)) /\ UNCHANGED <<frame, call>>
  /\ UNCHANGED <<keyNum, sent, next, raced>>

Step(s) ==
  KeyRead(s) \/ Send(s) \/ Prepare(s) \/ Enlist(s) \/ TimeOut(s) \/ Resume(s)
Next == (\E s \in Senders : Step(s)) \/ (\E m \in sent : Wake(m))

\* A sender runs until it waits, and its time-out comes.
Spec == Init /\ [][Next]_vars /\ \A s \in Senders : WF_vars(Step(s))

-----------------------------------------------------------------------------
(* The reply that a waiter holds answers its own request: no late or       *)
(* repeated reply to another call is taken for it.  The key is all there   *)
(* is to tell them apart, so this takes that no two senders count it at    *)
(* once, and that the waiter has the key of its request, which is lost if  *)
(* the packet was freed or the key is no int.                              *)
ReplyIsOwn ==
  \A s \in Senders :
    call[s].pc = "waiting" /\ frame[s].reply # {} =>
      frame[s].reply = {Request(s)} \/ raced \/ frame[s].key # call[s].key

(* Until a first call returns the list leads back to its head through all  *)
(* the waiting senders and through nobody else, so that no walk fails; and *)
(* only a second call of a sender can tie the list into a loop in which    *)
(* the lock is held for ever.                                              *)
WaitersListed ==
  /\ (\A s \in Senders : call[s].nr = 0) =>
       /\ lock = "free"
       /\ \E n \in Lengths :
            /\ Upto[n] = Head
            /\ {Upto[k] : k \in 1..(n - 1)} = {s \in Senders : call[s].pc = "waiting"}
  /\ lock = "hung" => \E s \in Senders : call[s].nr > 0 /\ call[s].pc \in {"framed", "waiting"}

(* A call returns, also if its request or the reply is lost, comes early   *)
(* or goes to somebody else, unless the kernel hangs or dies in the list.  *)
Returns ==
  \A s \in Senders : (call[s].pc = "keyed") ~> (call[s].pc = "idle" \/ lock # "free")
=============================================================================
