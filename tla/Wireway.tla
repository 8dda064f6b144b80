------------------------------ MODULE Wireway ------------------------------
(***************************************************************************)
(* The wireways of the server (wireway_func.c, wireway_core.c): a wireway  *)
(* has two peers; attach_wireway gives an unused peer an address,          *)
(* bridge_wireway joins a peer to another wireway that is active.  Both    *)
(* extend the peers' forwarding entries (fib) and save the wireways.       *)
(*                                                                         *)
(* The points of a wireway are a list.  A bridge is one object with a node *)
(* in two lists, "bridge" in the list of its master (the wireway bridged   *)
(* to) and "slave" in that of its slave (the wireway of the bridged peer). *)
(* A bridge refers to points by their index in a list, a number taken when *)
(* it is made.  Names stand for wireways; the tree that finds them by name *)
(* is BpTree, and creation, which it follows write by write, is one step   *)
(* here.  Every peer is in and out, as init_wireway makes it, and what is  *)
(* attached has an address of its own, as in test_wireway.                 *)
(***************************************************************************)
EXTENDS Integers, Sequences, FiniteSets, SequencesExt

CONSTANTS
  N,          \* wireways
  MaxBridges, \* bound on the bridges made in one process
  NoAddr      \* 0xEFEFEFEF, the address of an idle peer

\* A record holds MAX_POINT_NUM_PER_BLOCK points; longer lists are not modelled.
ASSUME WirewayAssumption ==
  /\ N \in Nat \ {0}
  /\ MaxBridges \in 0..10
  /\ NoAddr \notin (1..N) \X {0, 1}

VARIABLES
  mem,    \* what the process has in memory
  disk,   \* the saved records, as they are if the process ends by itself
  held,   \* the same without the last write, which stdio holds back
  proc,   \* "run", or why the process is not followed further
  astray  \* history: an index led to a peer that was not meant

wireVars == <<mem, disk, held, proc, astray>>

Wires  == 1..N
Points == Wires \X {0, 1}
Addrs  == Points \cup {NoAddr}
NoWire == 0
NoPoint  == <<NoWire, 0>>
NoRecord == [state |-> "none", points |-> <<>>]

\* A process that has not looked anything up: the tree holds names, no wireways.
EmptyMem ==
  [state  |-> [w \in Wires |-> "none"],
   list   |-> [w \in Wires |-> <<>>],
   pstate |-> [p \in Points |-> "idle"],
   addr   |-> [p \in Points |-> NoAddr],
   fib    |-> [p \in Points |-> {}],
   index  |-> [p \in Points |-> p[2]],
   bridge |-> <<>>,
   tree   |-> {}]

WireInit ==
  /\ mem = EmptyMem
  /\ disk = [w \in Wires |-> NoRecord]
  /\ held = disk
  /\ proc = "run"
  /\ astray = FALSE

-----------------------------------------------------------------------------
(* Points and indices. *)

IndexOf(m, w, n) == (CHOOSE i \in DOMAIN m.list[w] : m.list[w][i] = n) - 1

\* get_peer_by_index; NoPoint is NULL.
PeerAt(m, w, i) ==
  IF i + 1 \in DOMAIN m.list[w] /\ m.list[w][i + 1][1] = "peer"
  THEN <<w, m.list[w][i + 1][2]>> ELSE NoPoint

BridgesOf(m, w) == {b \in DOMAIN m.bridge : <<"bridge", b>> \in Range(m.list[w])}
SlavePoint(m, b) == PeerAt(m, m.bridge[b].slave, m.bridge[b].point_index)

\* assign_point_index: peers and bridges of w learn where they stand.
Indexed(m, w) ==
  [m EXCEPT
     !.index = [p \in Points |-> IF p[1] = w THEN IndexOf(m, w, <<"peer", p[2]>>) ELSE @[p]],
     !.bridge = [b \in DOMAIN @ |->
       IF b \in BridgesOf(m, w) THEN [@[b] EXCEPT !.index = IndexOf(m, w, <<"bridge", b>>)]
       ELSE @[b]]]

\* The peer a bridge was made for: its slave node stands before peer 0 or after peer 1.
BridgedPeer(m, b) ==
  LET s == m.bridge[b].slave
  IN <<s, IF IndexOf(m, s, <<"slave", b>>) < IndexOf(m, s, <<"peer", 0>>) THEN 0 ELSE 1>>

-----------------------------------------------------------------------------
(* Forwarding entries. *)

\* Entries between p and each of S, both ways.
Linked(m, p, S) ==
  [m EXCEPT !.fib = [x \in Points |->
     m.fib[x] \cup (IF x = p THEN {<<m.addr[p], m.addr[y]>> : y \in S} ELSE {})
              \cup (IF x \in S THEN {<<m.addr[x], m.addr[p]>>} ELSE {})]]

\* Bridges to w that update_wireway_fib(p, w) looks at; with p on w it only reports them.
Passed(m, p, w) ==
  {b \in BridgesOf(m, w) : w # p[1] /\ m.bridge[b].slave # p[1]}

\* MUTANT: only the peers of w.
TargetsPeers(m, p, w) == {<<w, 0>>, <<w, 1>>} \ {p}

\* Whom update_wireway_fib(p, w) links p with.  The test of the peers' state lets idle
\* ones pass, and no list node has the type of a bridged peer (lines 674-719).
Targets(m, p, w) ==
  ({<<w, 0>>, <<w, 1>>} \ {p}) \cup {SlavePoint(m, b) : b \in Passed(m, p, w)}

UpdateFib(m, p, w) == Linked(m, p, Targets(m, p, w))

-----------------------------------------------------------------------------
(* Records. *)

Desc(m, w, n) ==
  CASE n[1] = "peer"   -> [type |-> "peer", state |-> m.pstate[<<w, n[2]>>],
                           addr |-> m.addr[<<w, n[2]>>]]
    [] n[1] = "bridge" -> LET b == m.bridge[n[2]]
                          IN [type |-> "bridge", wire |-> b.slave, location |-> b.location,
                              slave_point_index |-> b.slave_point_index]
    [] n[1] = "slave"  -> LET b == m.bridge[n[2]]
                          IN [type |-> "slave", wire |-> b.master,
                              point_index |-> b.point_index,
                              bridge_index |-> b.index]

Record(m, w) ==
  [state |-> m.state[w], points |-> [i \in DOMAIN m.list[w] |-> Desc(m, w, m.list[w][i])]]

Save(m, w, d) == [d EXCEPT ![w] = Record(m, w)]

-----------------------------------------------------------------------------
(* create_wireway: refuses a name that is known, in memory or on disk. *)
Create(w) ==
  /\ proc = "run"
  /\ disk[w] = NoRecord
  /\ mem' = [mem EXCEPT !.state[w] = "init", !.list[w] = <<<<"peer", 0>>, <<"peer", 1>>>>,
                        !.tree = @ \cup {w}]
  /\ disk' = Save(mem', w, disk)
  /\ held' = disk'
  /\ UNCHANGED <<proc, astray>>

Idle(m, w) == {e \in {0, 1} : m.pstate[<<w, e>>] = "idle"}
Unused(m, w) == <<w, IF 0 \in Idle(m, w) THEN 0 ELSE 1>>

\* What a wireway becomes when one of its peers turns active, and its entries then.
NextState(s) ==
  CASE s = "init" -> "attaching" [] s = "attaching" -> "active" [] OTHER -> s

Activated(m, p) ==
  LET w  == p[1]
      m1 == [m EXCEPT !.pstate[p] = "active", !.state[w] = NextState(@)]
  IN IF m.state[w] = "attaching" THEN UpdateFib(m1, p, w) ELSE m1

\* MUTANT: the record is written before the peer is activated.
AttachSavedFirst(w) ==
  /\ proc = "run"
  /\ w \in mem.tree
  /\ Idle(mem, w) # {}
  /\ LET p == Unused(mem, w)
         m == [mem EXCEPT !.addr[p] = p]
     IN mem' = Activated(m, p) /\ disk' = Save(m, w, disk)
  /\ held' = disk
  /\ UNCHANGED <<proc, astray>>

(* attach_wireway, of a wireway that the tree finds.  With no unused peer it *)
(* returns 1.                                                              *)
Attach(w) ==
  /\ proc = "run"
  /\ w \in mem.tree
  /\ Idle(mem, w) # {}
  /\ LET p == Unused(mem, w)
     IN mem' = Activated([mem EXCEPT !.addr[p] = p], p)
  /\ disk' = Save(mem', w, disk)
  /\ held' = disk
  /\ UNCHANGED <<proc, astray>>

-----------------------------------------------------------------------------
(* bridge_wireway(d, p). *)

\* Right after the first peer of d (insert_bridge_point).
AfterPeer(list, e, n) ==
  LET i == CHOOSE i \in DOMAIN list : list[i] = <<"peer", e>>
  IN InsertAt(list, i + 1, n)

\* A peer that is active is linked with d (lines 147-153), if its own wireway is active by now.
Links(m, p) == m.pstate[p] = "active" /\ m.state[p[1]] = "active"

\* MUTANT: the peers are not counted again after the slave's node is in the list.
WithSlaveUncounted(m, p, b) ==
  [m EXCEPT !.list[p[1]] = IF p[2] = 0 THEN <<<<"slave", b>>>> \o @
                           ELSE AfterPeer(@, 1, <<"slave", b>>)]

\* The slave's node before peer 0 or after peer 1, and the peers counted again.
WithSlave(m, p, b) ==
  Indexed([m EXCEPT !.list[p[1]] = IF p[2] = 0 THEN <<<<"slave", b>>>> \o @
                                   ELSE AfterPeer(@, 1, <<"slave", b>>)], p[1])

\* The bridge with its nodes in both lists, and the indices it keeps.
Made(m, d, p) ==
  LET b  == Len(m.bridge) + 1
      m1 == WithSlave(m, p, b)
      m2 == [m1 EXCEPT
               !.list[d] = AfterPeer(@, 0, <<"bridge", b>>),
               !.bridge = Append(@, [master |-> d, slave |-> p[1], location |-> -1, index |-> 0,
                                     point_index |-> m1.index[p], slave_point_index |-> 0,
                                     linked |-> Links(m, p)])]
  IN [Indexed(m2, d) EXCEPT
        !.bridge[b].slave_point_index = IndexOf(m2, p[1], <<"slave", b>>)]

\* An idle peer takes the address of d's second peer: both peers have the same priority.
Located(m, d, p) ==
  LET b == Len(m.bridge)
  IN [m EXCEPT !.addr[SlavePoint(m, b)] = m.addr[<<d, 1>>],
               !.bridge[b].location = m.index[<<d, 1>>]]

Bridged(m, d, p) ==
  LET m1 == Made(m, d, p)
  IN CASE m.pstate[p] = "idle" -> Activated(Located(m1, d, p), p)
       [] Links(m, p)          -> UpdateFib(m1, p, d)
       [] OTHER                -> m1

(* A bridge of a wireway in memory whose index leads to no peer ends the   *)
(* process, which reads through the NULL it gets (lines 734-735).          *)
Bridge(d, p) ==
  /\ proc = "run"
  /\ {d, p[1]} \subseteq mem.tree
  /\ mem.state[d] = "active"
  /\ Len(mem.bridge) < MaxBridges
  /\ LET m1   == Made(mem, d, p)
         used == IF Links(mem, p) THEN Passed(m1, p, d) ELSE {}
     IN IF \E b \in used : SlavePoint(m1, b) = NoPoint
        THEN proc' = "dead" /\ UNCHANGED <<mem, disk, held, astray>>
        ELSE /\ mem' = Bridged(mem, d, p)
             /\ astray' = (astray \/ \E b \in used : SlavePoint(m1, b) # BridgedPeer(m1, b))
             /\ held' = Save(mem', p[1], disk)
             /\ disk' = Save(mem', d, held')
             /\ UNCHANGED proc

WireNext ==
  \/ \E w \in Wires : Create(w) \/ Attach(w)
  \/ \E d \in Wires, p \in Points : Bridge(d, p)

WireSpec == WireInit /\ [][WireNext]_wireVars

-----------------------------------------------------------------------------
Ids == DOMAIN mem.bridge

\* Wireways this process made itself, and the bridges between them.
Own(w) == mem.state[w] \notin {"none", "restoring"}
\* Bridges with both nodes in a list.
Whole == {b \in Ids : NoWire \notin {mem.bridge[b].master, mem.bridge[b].slave}}
OwnIds == {b \in Ids : Own(mem.bridge[b].slave) /\ Own(mem.bridge[b].master)}

(* The forwarding entries are those the bridges call for: a peer reaches   *)
(* the other peer of its wireway once both are active; a peer bridged      *)
(* while its wireway is active reaches the peers bridged to and the peers  *)
(* other wireways had bridged there before; nobody else.  Entries always   *)
(* come in pairs, one on each side, and never name an address that is not  *)
(* in use.  update_wireway_fib adds them one call at a time and removes    *)
(* none, so what was right when a bridge was made must stay right.         *)
\* b makes x reach y: x was bridged to y's wireway, or after y to the same one.
Reaches(b, x, y) ==
  LET w == mem.bridge[b].master
  IN /\ mem.bridge[b].linked /\ BridgedPeer(mem, b) = x /\ w # x[1]
     /\ \/ y[1] = w
        \/ \E c \in 1..(b - 1) : mem.bridge[c].master = w /\ BridgedPeer(mem, c) = y
     /\ y[1] # x[1]
Joined(x, y) ==
  \/ x # y /\ x[1] = y[1] /\ mem.state[x[1]] = "active"
  \/ \E b \in Ids : Reaches(b, x, y) \/ Reaches(b, y, x)

EntriesAsBridged ==
  proc = "run" /\ ~astray =>
    \A x \in Points : Own(x[1]) =>
      mem.fib[x] = {<<mem.addr[x], mem.addr[y]>> : y \in {y \in Points : Joined(x, y)}}

(* The index by which a bridge finds the peer it was made for is out of    *)
(* date exactly when a node was put before that peer since: the slave of a *)
(* bridge of peer 0, or, for peer 1, a bridge to its wireway, the bridge   *)
(* itself included when it leads back to its own wireway.                  *)
Moves(c, b) ==
  LET p == BridgedPeer(mem, b)
  IN \/ c > b /\ BridgedPeer(mem, c) = <<p[1], 0>>
     \/ c >= b /\ p[2] = 1 /\ mem.bridge[c].master = p[1]

IndexMoved ==
  proc = "run" =>
    \A b \in OwnIds :
      SlavePoint(mem, b) # BridgedPeer(mem, b) <=> \E c \in Whole : Moves(c, b)

(* What is saved of a wireway is what is in memory, in the same order,     *)
(* although a bridge changes two wireways and moves points of both.  Only  *)
(* the index of a bridge that the slave's record keeps may lag behind: the *)
(* slave is not saved when a later bridge moves that one.                  *)
SameDesc(d, now) ==
  IF now.type # "slave" THEN d = now
  ELSE /\ d.type = "slave" /\ d.wire = now.wire /\ d.point_index = now.point_index
       /\ d.bridge_index <= now.bridge_index

RecordCurrent ==
  proc = "run" =>
    \A w \in {w \in mem.tree : Own(w)} :
      LET now == Record(mem, w)
      IN /\ disk[w].state = now.state
         /\ Len(disk[w].points) = Len(now.points)
         /\ \A i \in DOMAIN now.points : SameDesc(disk[w].points[i], now.points[i])
=============================================================================
