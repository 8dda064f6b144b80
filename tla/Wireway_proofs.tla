--------------------------- MODULE Wireway_proofs ---------------------------
(* Theorems on the wireways of one process, for any number of wireways and *)
(* bridges.                                                                *)
EXTENDS Wireway, SequenceTheorems, TLAPS

-----------------------------------------------------------------------------
(* Lists in which every node stands once, and insertion into them.         *)

Once(s) == \A i, j \in DOMAIN s : s[i] = s[j] => i = j
Place(s, n) == CHOOSE i \in DOMAIN s : s[i] = n

\* n before the i-th element of s.
Put(s, i, n) ==
  [j \in 1..(Len(s) + 1) |-> IF j < i THEN s[j] ELSE IF j = i THEN n ELSE s[j - 1]]

\* Both ways in which the code inserts are that.
LEMMA InsertIsPut ==
  ASSUME NEW S, NEW s \in Seq(S), NEW n \in S, NEW i \in 1..(Len(s) + 1)
  PROVE  InsertAt(s, i, n) = Put(s, i, n) /\ <<n>> \o s = Put(s, 1, n)
  <1>1. /\ SubSeq(s, 1, i - 1) \in Seq(S) /\ Len(SubSeq(s, 1, i - 1)) = i - 1
        /\ \A j \in 1..(i - 1) : SubSeq(s, 1, i - 1)[j] = s[j]
    OBVIOUS
  <1>2. /\ SubSeq(s, i, Len(s)) \in Seq(S) /\ Len(SubSeq(s, i, Len(s))) = Len(s) - i + 1
        /\ \A j \in 1..(Len(s) - i + 1) : SubSeq(s, i, Len(s))[j] = s[i + j - 1]
    OBVIOUS
  <1> DEFINE a == SubSeq(s, 1, i - 1)
             c == SubSeq(s, i, Len(s))
  <1> HIDE DEF a, c
  <1>3. /\ a \o <<n>> \in Seq(S) /\ Len(a \o <<n>>) = i
        /\ \A j \in 1..(i - 1) : (a \o <<n>>)[j] = s[j]
        /\ (a \o <<n>>)[i] = n
    <2>1. <<n>> \in Seq(S) /\ Len(<<n>>) = 1 /\ <<n>>[1] = n
      OBVIOUS
    <2>2. a \in Seq(S) /\ Len(a) = i - 1 /\ \A j \in 1..(i - 1) : a[j] = s[j]
      BY <1>1 DEF a
    <2> DEFINE one == <<n>>
    <2> HIDE DEF one
    <2>3. /\ a \o one \in Seq(S) /\ Len(a \o one) = i
          /\ \A j \in 1..i : (a \o one)[j] = IF j <= i - 1 THEN a[j] ELSE one[j - (i - 1)]
      <3>1. one \in Seq(S) /\ Len(one) = 1
        BY <2>1 DEF one
      <3>2. /\ a \o one \in Seq(S) /\ Len(a \o one) = Len(a) + Len(one)
            /\ \A j \in 1..(Len(a) + Len(one)) :
                 (a \o one)[j] = IF j <= Len(a) THEN a[j] ELSE one[j - Len(a)]
        BY <2>2, <3>1, ConcatProperties
      <3>3. QED
        BY <2>2, <3>1, <3>2
    <2>4. one[1] = n
      BY <2>1 DEF one
    <2>5. QED
      BY <2>2, <2>3, <2>4 DEF one
  <1>4. /\ (a \o <<n>>) \o c \in Seq(S) /\ Len((a \o <<n>>) \o c) = Len(s) + 1
        /\ \A j \in 1..i : ((a \o <<n>>) \o c)[j] = (a \o <<n>>)[j]
        /\ \A j \in (i + 1)..(Len(s) + 1) : ((a \o <<n>>) \o c)[j] = c[j - i]
    <2> DEFINE ab == a \o <<n>>
    <2>1. ab \in Seq(S) /\ Len(ab) = i
      BY <1>3
    <2>2. c \in Seq(S) /\ Len(c) = Len(s) - i + 1
      BY <1>2 DEF c
    <2> HIDE DEF ab
    <2>3. /\ ab \o c \in Seq(S) /\ Len(ab \o c) = Len(ab) + Len(c)
          /\ \A j \in 1..(Len(ab) + Len(c)) :
               (ab \o c)[j] = IF j <= Len(ab) THEN ab[j] ELSE c[j - Len(ab)]
      BY <2>1, <2>2, ConcatProperties
    <2>4. QED
      BY <2>1, <2>2, <2>3 DEF ab
  <1>5. \A j \in (i + 1)..(Len(s) + 1) : ((a \o <<n>>) \o c)[j] = s[j - 1]
    <2> DEFINE abc == (a \o <<n>>) \o c
    <2>1. \A j \in (i + 1)..(Len(s) + 1) : abc[j] = c[j - i]
      BY <1>4
    <2>2. \A j \in 1..(Len(s) - i + 1) : c[j] = s[i + j - 1]
      BY <1>2 DEF c
    <2> HIDE DEF abc
    <2>3. ASSUME NEW j \in (i + 1)..(Len(s) + 1) PROVE abc[j] = s[j - 1]
      <3>1. Len(s) \in Nat
        OBVIOUS
      <3>2. j - i \in 1..(Len(s) - i + 1) /\ i + (j - i) - 1 = j - 1
        BY <3>1
      <3>3. c[j - i] = s[i + (j - i) - 1]
        BY <2>2, <3>2
      <3>4. QED
        BY <2>1, <3>2, <3>3
    <2>4. QED
      BY <2>3 DEF abc
  <1>6. (a \o <<n>>) \o c = Put(s, i, n)
    <2> DEFINE abc == (a \o <<n>>) \o c
    <2>1. DOMAIN abc = 1..(Len(s) + 1) /\ abc = [j \in 1..(Len(s) + 1) |-> abc[j]]
      BY <1>4, LenProperties
    <2>2. /\ \A j \in 1..(i - 1) : abc[j] = s[j]
          /\ abc[i] = n
          /\ \A j \in (i + 1)..(Len(s) + 1) : abc[j] = s[j - 1]
      BY <1>3, <1>4, <1>5
    <2> HIDE DEF abc
    <2>3. \A j \in 1..(Len(s) + 1) : abc[j] = IF j < i THEN s[j] ELSE IF j = i THEN n ELSE s[j - 1]
      BY <2>2
    <2>4. QED
      BY <2>1, <2>3 DEF Put, abc
  <1>7. InsertAt(s, i, n) = Put(s, i, n)
    BY <1>6 DEF InsertAt, a, c
  <1>8. <<n>> \o s = Put(s, 1, n)
    BY DEF Put
  <1>9. QED
    BY <1>7, <1>8

\* Where an element stands.
LEMMA PlaceOf ==
  ASSUME NEW s, Once(s), NEW n \in Range(s)
  PROVE  /\ Place(s, n) \in DOMAIN s /\ s[Place(s, n)] = n
         /\ \A i \in DOMAIN s : s[i] = n <=> i = Place(s, n)
  <1>1. \E i \in DOMAIN s : s[i] = n
    BY DEF Range
  <1>2. Place(s, n) \in DOMAIN s /\ s[Place(s, n)] = n
    BY <1>1 DEF Place
  <1>3. QED
    BY <1>2 DEF Once

\* Insertion moves what stands behind by one place.
LEMMA PutPlaces ==
  ASSUME NEW S, NEW s \in Seq(S), Once(s), NEW n \in S, n \notin Range(s),
         NEW i \in 1..(Len(s) + 1)
  PROVE  /\ Put(s, i, n) \in Seq(S) /\ Once(Put(s, i, n)) /\ Range(Put(s, i, n)) = Range(s) \cup {n}
         /\ Place(Put(s, i, n), n) = i
         /\ \A x \in Range(s) : Place(Put(s, i, n), x) = IF Place(s, x) < i THEN Place(s, x)
                                                         ELSE Place(s, x) + 1
  <1> DEFINE t == Put(s, i, n)
  <1>1. /\ DOMAIN t = 1..(Len(s) + 1) /\ DOMAIN s = 1..Len(s) /\ Len(s) \in Nat
        /\ \A j \in 1..(i - 1) : t[j] = s[j]
        /\ t[i] = n
        /\ \A j \in (i + 1)..(Len(s) + 1) : t[j] = s[j - 1]
    BY DEF Put
  <1>2. t \in Seq(S)
    <2>1. \A j \in 1..(Len(s) + 1) : t[j] \in S
      <3> TAKE j \in 1..(Len(s) + 1)
      <3>1. j \in 1..(i - 1) \/ j = i \/ j \in (i + 1)..(Len(s) + 1)
        OBVIOUS
      <3>2. QED
        BY <1>1, <3>1
    <2>2. t = [j \in 1..(Len(s) + 1) |-> t[j]]
      BY DEF Put
    <2>3. t \in [1..(Len(s) + 1) -> S]
      BY <2>1, <2>2
    <2>4. Len(s) + 1 \in Nat
      BY <1>1
    <2>5. QED
      BY <2>3, <2>4
  <1> HIDE DEF t
  <1>3. \A j \in DOMAIN s : t[IF j < i THEN j ELSE j + 1] = s[j]
    BY <1>1
  <1>4. Range(t) = Range(s) \cup {n}
    <2>1. Range(t) \subseteq Range(s) \cup {n}
      <3> SUFFICES ASSUME NEW j \in 1..(Len(s) + 1) PROVE t[j] \in Range(s) \cup {n}
        BY <1>1 DEF Range
      <3>1. j \in 1..(i - 1) \/ j = i \/ j \in (i + 1)..(Len(s) + 1)
        OBVIOUS
      <3>2. CASE j \in 1..(i - 1)
        <4>1. j \in DOMAIN s /\ t[j] = s[j]
          BY <1>1, <3>2
        <4>2. QED
          BY <4>1 DEF Range
      <3>3. CASE j \in (i + 1)..(Len(s) + 1)
        <4>1. j - 1 \in DOMAIN s /\ t[j] = s[j - 1]
          BY <1>1, <3>3
        <4>2. QED
          BY <4>1 DEF Range
      <3>4. QED
        BY <1>1, <3>1, <3>2, <3>3
    <2>2. Range(s) \cup {n} \subseteq Range(t)
      <3>1. n \in Range(t)
        BY <1>1 DEF Range
      <3>2. ASSUME NEW j \in DOMAIN s PROVE s[j] \in Range(t)
        <4>1. (IF j < i THEN j ELSE j + 1) \in DOMAIN t
          BY <1>1
        <4>2. QED
          BY <1>3, <4>1 DEF Range
      <3>3. QED
        BY <3>1, <3>2 DEF Range
    <2>3. QED
      BY <2>1, <2>2
  <1>5. Once(t)
    <2> SUFFICES ASSUME NEW j \in 1..(Len(s) + 1), NEW k \in 1..(Len(s) + 1), t[j] = t[k]
                 PROVE  j = k
      BY <1>1 DEF Once
    <2>1. \A a \in DOMAIN s : s[a] # n
      BY DEF Range
    <2>2. /\ j \in 1..(i - 1) \/ j = i \/ j \in (i + 1)..(Len(s) + 1)
          /\ k \in 1..(i - 1) \/ k = i \/ k \in (i + 1)..(Len(s) + 1)
      OBVIOUS
    <2>3. /\ j # i => \E a \in DOMAIN s : t[j] = s[a] /\ a = IF j < i THEN j ELSE j - 1
          /\ k # i => \E a \in DOMAIN s : t[k] = s[a] /\ a = IF k < i THEN k ELSE k - 1
      BY <1>1, <2>2
    <2>4. QED
      BY <1>1, <2>1, <2>2, <2>3 DEF Once
  <1>6. Place(t, n) = i
    BY <1>1, <1>4, <1>5, PlaceOf
  <1>7. ASSUME NEW x \in Range(s)
        PROVE  Place(t, x) = IF Place(s, x) < i THEN Place(s, x) ELSE Place(s, x) + 1
    <2>1. Place(s, x) \in DOMAIN s /\ s[Place(s, x)] = x
      BY PlaceOf
    <2>2. (IF Place(s, x) < i THEN Place(s, x) ELSE Place(s, x) + 1) \in DOMAIN t
      BY <1>1, <2>1
    <2>3. x \in Range(t)
      BY <1>4
    <2>4. QED
      BY <1>3, <1>5, <2>1, <2>2, <2>3, PlaceOf
  <1>8. QED
    BY <1>2, <1>4, <1>5, <1>6, <1>7 DEF t

-----------------------------------------------------------------------------
(* The inductive invariant, of a memory m.                                 *)

Ends   == {0, 1}
Nodes  == {"peer", "bridge", "slave"} \X Nat
Peer(e) == <<"peer", e>>
Bri(b)  == <<"bridge", b>>
Sla(b)  == <<"slave", b>>

BridgeRec == [master : Wires, slave : Wires, location : Int, index : Int, point_index : Int,
              slave_point_index : Int, linked : BOOLEAN]
Memory ==
  [state  : [Wires -> {"none", "init", "attaching", "active"}],
   list   : [Wires -> Seq(Nodes)],
   pstate : [Points -> {"idle", "active"}],
   addr   : [Points -> Addrs],
   fib    : [Points -> SUBSET (Addrs \X Addrs)],
   index  : [Points -> Int],
   bridge : Seq(BridgeRec),
   tree   : SUBSET Wires]

\* What the list of a wireway holds.
NodesOf(m, w) ==
  {Peer(0), Peer(1)} \cup {Bri(b) : b \in {b \in DOMAIN m.bridge : m.bridge[b].master = w}}
                    \cup {Sla(b) : b \in {b \in DOMAIN m.bridge : m.bridge[b].slave = w}}

\* The lists of the wireways that were made, each node in them once, and no others.
Lists(m) ==
  /\ \A w \in Wires : w \notin m.tree => m.state[w] = "none"
  /\ \A w \in m.tree : /\ m.state[w] # "none"
                       /\ Once(m.list[w]) /\ Range(m.list[w]) = NodesOf(m, w)
                       /\ Place(m.list[w], Peer(0)) < Place(m.list[w], Peer(1))
  /\ \A b \in DOMAIN m.bridge : {m.bridge[b].master, m.bridge[b].slave} \subseteq m.tree

\* Peers and the master's nodes of bridges know where they stand.
Counted(m) ==
  /\ \A w \in Wires, e \in Ends : w \notin m.tree => m.index[<<w, e>>] = e
  /\ \A w \in m.tree, e \in Ends : m.index[<<w, e>>] = Place(m.list[w], Peer(e)) - 1
  /\ \A b \in DOMAIN m.bridge :
       m.bridge[b].index = Place(m.list[m.bridge[b].master], Bri(b)) - 1

\* c moved the peer of b since b was made.
MovesIn(m, c, b) ==
  LET p == BridgedPeer(m, b)
  IN \/ c > b /\ BridgedPeer(m, c) = <<p[1], 0>>
     \/ c >= b /\ p[2] = 1 /\ m.bridge[c].master = p[1]

\* A bridge's peer stands where its index says, or behind that if it was moved.
PeerPlace(m, b) == LET p == BridgedPeer(m, b) IN Place(m.list[p[1]], Peer(p[2]))
Moved(m) ==
  \A b \in DOMAIN m.bridge :
    /\ m.bridge[b].point_index >= 0
    /\ IF \E c \in DOMAIN m.bridge : MovesIn(m, c, b)
       THEN m.bridge[b].point_index + 1 < PeerPlace(m, b)
       ELSE m.bridge[b].point_index + 1 = PeerPlace(m, b)

\* The number of active peers is what the wireway's state says.
StatedAt(m, w) ==
  /\ m.state[w] \in {"none", "init"} => \A e \in Ends : m.pstate[<<w, e>>] = "idle"
  /\ m.state[w] = "attaching" =>
       \E e \in Ends : m.pstate[<<w, e>>] = "active" /\ m.pstate[<<w, 1 - e>>] = "idle"
  /\ m.state[w] = "active" => \A e \in Ends : m.pstate[<<w, e>>] = "active"
Stated(m) ==
  /\ \A w \in Wires : StatedAt(m, w)
  /\ \A b \in DOMAIN m.bridge :
       /\ m.pstate[BridgedPeer(m, b)] = "active"
       /\ m.state[m.bridge[b].master] = "active"

\* The records on disk.
SavedDesc(d, now) == SameDesc(d, now) /\ (now.type = "slave" => d.bridge_index \in Int)
SavedWire(m, files, w) ==
  /\ files[w].state = m.state[w]
  /\ Len(files[w].points) = Len(m.list[w])
  /\ \A i \in DOMAIN m.list[w] : SavedDesc(files[w].points[i], Desc(m, w, m.list[w][i]))
Saved(m, files) == DOMAIN files = Wires /\ \A w \in m.tree : SavedWire(m, files, w)

\* The entries.
ReachesIn(m, b, x, y) ==
  LET w == m.bridge[b].master
  IN /\ m.bridge[b].linked /\ BridgedPeer(m, b) = x /\ w # x[1]
     /\ \/ y[1] = w
        \/ \E c \in 1..(b - 1) : m.bridge[c].master = w /\ BridgedPeer(m, c) = y
     /\ y[1] # x[1]
JoinedIn(m, x, y) ==
  \/ x # y /\ x[1] = y[1] /\ m.state[x[1]] = "active"
  \/ \E b \in DOMAIN m.bridge : ReachesIn(m, b, x, y) \/ ReachesIn(m, b, y, x)
EntriesOf(m, x) == {<<m.addr[x], m.addr[y]>> : y \in {y \in Points : JoinedIn(m, x, y)}}
Entered(m) == \A x \in Points : m.fib[x] = EntriesOf(m, x)

WireOk(m, files, gone) ==
  /\ m \in Memory /\ Lists(m) /\ Counted(m) /\ Moved(m) /\ Stated(m)
  /\ Saved(m, files)
  /\ gone \in BOOLEAN /\ (~gone => Entered(m))

WireInv == WireOk(mem, disk, astray)

-----------------------------------------------------------------------------
(* The lists of a bridge.                                                  *)

\* b's node of the slave is put before peer 0 or after peer 1 of p's wireway ...
SlavePut(list, p, b) ==
  [list EXCEPT ![p[1]] = Put(list[p[1]],
                             IF p[2] = 0 THEN 1 ELSE Place(list[p[1]], Peer(1)) + 1, Sla(b))]
\* ... and its node of the master after peer 0 of d.
BridgePut(list, d, b) ==
  [list EXCEPT ![d] = Put(list[d], Place(list[d], Peer(0)) + 1, Bri(b))]

\* Lists of a set of wireways with their peers.
Listed(list, tree) ==
  /\ tree \subseteq Wires /\ list \in [Wires -> Seq(Nodes)]
  /\ \A v \in tree : /\ Once(list[v]) /\ {Peer(0), Peer(1)} \subseteq Range(list[v])
                     /\ Place(list[v], Peer(0)) < Place(list[v], Peer(1))

\* The nodes behind are moved by one, those before are not.
SlaveShifts(list, new, tree, p, b) ==
  \A v \in tree :
    /\ Range(new[v]) = Range(list[v]) \cup (IF v = p[1] THEN {Sla(b)} ELSE {})
    /\ \A n \in Range(list[v]) :
         Place(new[v], n) =
           Place(list[v], n) + IF v = p[1] /\ (p[2] = 0 \/ Place(list[v], n) > Place(list[v], Peer(1)))
                               THEN 1 ELSE 0
BridgeShifts(list, new, tree, d, b) ==
  \A v \in tree :
    /\ Range(new[v]) = Range(list[v]) \cup (IF v = d THEN {Bri(b)} ELSE {})
    /\ \A n \in Range(list[v]) :
         Place(new[v], n) =
           Place(list[v], n) + IF v = d /\ Place(list[v], n) > Place(list[v], Peer(0))
                               THEN 1 ELSE 0

\* A node's place is a number within its list.
LEMMA PlaceIn ==
  ASSUME NEW list, NEW tree, Listed(list, tree), NEW v \in tree, NEW n \in Range(list[v])
  PROVE  /\ Place(list[v], n) \in 1..Len(list[v]) /\ Len(list[v]) \in Nat
         /\ list[v] \in Seq(Nodes) /\ DOMAIN list[v] = 1..Len(list[v])
         /\ list[v][Place(list[v], n)] = n
         /\ \A i \in DOMAIN list[v] : list[v][i] = n <=> i = Place(list[v], n)
  <1>1. list[v] \in Seq(Nodes) /\ Once(list[v])
    BY DEF Listed
  <1>2. DOMAIN list[v] = 1..Len(list[v]) /\ Len(list[v]) \in Nat
    BY <1>1
  <1>3. QED
    BY <1>1, <1>2, PlaceOf

\* Two nodes do not stand at one place.
LEMMA PlacesDiffer ==
  ASSUME NEW list, NEW tree, Listed(list, tree), NEW v \in tree,
         NEW n \in Range(list[v]), NEW o \in Range(list[v]), Place(list[v], n) = Place(list[v], o)
  PROVE  n = o
  BY PlaceIn

\* The slave's node.
LEMMA SlavePutShifts ==
  ASSUME NEW list, NEW tree, Listed(list, tree), NEW p \in Points, p[1] \in tree, NEW b \in Nat,
         Sla(b) \notin Range(list[p[1]])
  PROVE  LET new == SlavePut(list, p, b)
         IN /\ Listed(new, tree) /\ SlaveShifts(list, new, tree, p, b)
            /\ Place(new[p[1]], Sla(b)) =
                 IF p[2] = 0 THEN 1 ELSE Place(list[p[1]], Peer(1)) + 1
  <1> DEFINE w == p[1]
             i == IF p[2] = 0 THEN 1 ELSE Place(list[w], Peer(1)) + 1
             t == Put(list[w], i, Sla(b))
             new == SlavePut(list, p, b)
  <1>1. /\ list[w] \in Seq(Nodes) /\ Once(list[w]) /\ {Peer(0), Peer(1)} \subseteq Range(list[w])
        /\ Place(list[w], Peer(0)) < Place(list[w], Peer(1)) /\ w \in Wires
        /\ list \in [Wires -> Seq(Nodes)]
    BY DEF Listed
  <1>2. /\ \A n \in Range(list[w]) : Place(list[w], n) \in 1..Len(list[w])
        /\ Len(list[w]) \in Nat
    BY <1>1, PlaceIn
  <1>3. i \in 1..(Len(list[w]) + 1)
    BY <1>1, <1>2
  <1>4. Sla(b) \in Nodes
    BY DEF Sla, Nodes
  <1> HIDE DEF i
  <1>5. /\ t \in Seq(Nodes) /\ Once(t) /\ Range(t) = Range(list[w]) \cup {Sla(b)}
        /\ Place(t, Sla(b)) = i
        /\ \A x \in Range(list[w]) : Place(t, x) = IF Place(list[w], x) < i THEN Place(list[w], x)
                                                   ELSE Place(list[w], x) + 1
    BY <1>1, <1>3, <1>4, PutPlaces
  <1> HIDE DEF t
  <1>6. new = [list EXCEPT ![w] = t]
    BY DEF SlavePut, t, i
  <1> HIDE DEF new
  <1>7. new[w] = t /\ \A v \in Wires \ {w} : new[v] = list[v]
    BY <1>1, <1>6
  <1>8. new \in [Wires -> Seq(Nodes)]
    BY <1>1, <1>5, <1>6
  <1>9. \A n \in Range(list[w]) :
          Place(t, n) = Place(list[w], n) + IF p[2] = 0 \/ Place(list[w], n) > Place(list[w], Peer(1))
                                            THEN 1 ELSE 0
    BY <1>1, <1>2, <1>5 DEF i
  <1>10. SlaveShifts(list, new, tree, p, b)
    <2> SUFFICES ASSUME NEW v \in tree
                 PROVE  /\ Range(new[v]) = Range(list[v]) \cup (IF v = w THEN {Sla(b)} ELSE {})
                        /\ \A n \in Range(list[v]) :
                             Place(new[v], n) =
                               Place(list[v], n) + IF v = w /\ (p[2] = 0 \/ Place(list[v], n) > Place(list[v], Peer(1)))
                                                   THEN 1 ELSE 0
      BY DEF SlaveShifts
    <2>1. CASE v = w
      BY <1>5, <1>7, <1>9, <2>1
    <2>2. CASE v # w
      <3>1. new[v] = list[v] /\ v \in Wires
        BY <1>7, <2>2 DEF Listed
      <3>2. \A n \in Range(list[v]) : Place(list[v], n) \in Nat
        BY PlaceIn
      <3>3. QED
        BY <2>2, <3>1, <3>2
    <2>3. QED
      BY <2>1, <2>2
  <1>11. Listed(new, tree)
    <2> SUFFICES ASSUME NEW v \in tree
                 PROVE  /\ Once(new[v]) /\ {Peer(0), Peer(1)} \subseteq Range(new[v])
                        /\ Place(new[v], Peer(0)) < Place(new[v], Peer(1))
      BY <1>8 DEF Listed
    <2>1. CASE v = w
      BY <1>1, <1>2, <1>5, <1>7, <1>9, <2>1
    <2>2. CASE v # w
      BY <1>7, <2>2 DEF Listed
    <2>3. QED
      BY <2>1, <2>2
  <1>12. QED
    BY <1>5, <1>7, <1>10, <1>11 DEF new, i

\* The master's node.
LEMMA BridgePutShifts ==
  ASSUME NEW list, NEW tree, Listed(list, tree), NEW d \in tree, NEW b \in Nat,
         Bri(b) \notin Range(list[d])
  PROVE  LET new == BridgePut(list, d, b)
         IN Listed(new, tree) /\ BridgeShifts(list, new, tree, d, b)
  <1> DEFINE i == Place(list[d], Peer(0)) + 1
             t == Put(list[d], i, Bri(b))
             new == BridgePut(list, d, b)
  <1>1. /\ list[d] \in Seq(Nodes) /\ Once(list[d]) /\ {Peer(0), Peer(1)} \subseteq Range(list[d])
        /\ Place(list[d], Peer(0)) < Place(list[d], Peer(1)) /\ d \in Wires
        /\ list \in [Wires -> Seq(Nodes)]
    BY DEF Listed
  <1>2. /\ \A n \in Range(list[d]) : Place(list[d], n) \in 1..Len(list[d])
        /\ Len(list[d]) \in Nat
    BY <1>1, PlaceIn
  <1>3. i \in 1..(Len(list[d]) + 1)
    BY <1>1, <1>2
  <1>4. Bri(b) \in Nodes
    BY DEF Bri, Nodes
  <1> HIDE DEF i
  <1>5. /\ t \in Seq(Nodes) /\ Once(t) /\ Range(t) = Range(list[d]) \cup {Bri(b)}
        /\ \A x \in Range(list[d]) : Place(t, x) = IF Place(list[d], x) < i THEN Place(list[d], x)
                                                   ELSE Place(list[d], x) + 1
    BY <1>1, <1>3, <1>4, PutPlaces
  <1> HIDE DEF t
  <1>6. new = [list EXCEPT ![d] = t]
    BY DEF BridgePut, t, i
  <1> HIDE DEF new
  <1>7. new[d] = t /\ \A v \in Wires \ {d} : new[v] = list[v]
    BY <1>1, <1>6
  <1>8. new \in [Wires -> Seq(Nodes)]
    BY <1>1, <1>5, <1>6
  <1>9. \A n \in Range(list[d]) :
          Place(t, n) = Place(list[d], n) + IF Place(list[d], n) > Place(list[d], Peer(0)) THEN 1 ELSE 0
    BY <1>1, <1>2, <1>5 DEF i
  <1>10. BridgeShifts(list, new, tree, d, b)
    <2> SUFFICES ASSUME NEW v \in tree
                 PROVE  /\ Range(new[v]) = Range(list[v]) \cup (IF v = d THEN {Bri(b)} ELSE {})
                        /\ \A n \in Range(list[v]) :
                             Place(new[v], n) =
                               Place(list[v], n) + IF v = d /\ Place(list[v], n) > Place(list[v], Peer(0))
                                                   THEN 1 ELSE 0
      BY DEF BridgeShifts
    <2>1. CASE v = d
      BY <1>5, <1>7, <1>9, <2>1
    <2>2. CASE v # d
      <3>1. new[v] = list[v] /\ v \in Wires
        BY <1>7, <2>2 DEF Listed
      <3>2. \A n \in Range(list[v]) : Place(list[v], n) \in Nat
        BY PlaceIn
      <3>3. QED
        BY <2>2, <3>1, <3>2
    <2>3. QED
      BY <2>1, <2>2
  <1>11. Listed(new, tree)
    <2> SUFFICES ASSUME NEW v \in tree
                 PROVE  /\ Once(new[v]) /\ {Peer(0), Peer(1)} \subseteq Range(new[v])
                        /\ Place(new[v], Peer(0)) < Place(new[v], Peer(1))
      BY <1>8 DEF Listed
    <2>1. CASE v = d
      BY <1>1, <1>2, <1>5, <1>7, <1>9, <2>1
    <2>2. CASE v # d
      BY <1>7, <2>2 DEF Listed
    <2>3. QED
      BY <2>1, <2>2
  <1>12. QED
    BY <1>10, <1>11 DEF new

-----------------------------------------------------------------------------
(* The indices.                                                            *)

\* All that is said of a bridge but where its master's node stands.
SameBridge(a, b) ==
  /\ a.master = b.master /\ a.slave = b.slave /\ a.location = b.location
  /\ a.point_index = b.point_index /\ a.slave_point_index = b.slave_point_index
  /\ a.linked = b.linked

\* A memory with the state and the entries of another.
SameRest(m, n) ==
  /\ n.state = m.state /\ n.pstate = m.pstate /\ n.addr = m.addr /\ n.fib = m.fib
  /\ n.tree = m.tree

\* Where the peers and the bridges of w stand.
CountedAt(m, w) ==
  /\ \A e \in Ends : m.index[<<w, e>>] = Place(m.list[w], Peer(e)) - 1
  /\ \A b \in DOMAIN m.bridge :
       Bri(b) \in Range(m.list[w]) => m.bridge[b].index = Place(m.list[w], Bri(b)) - 1

\* assign_point_index changes nothing else.
LEMMA IndexedIs ==
  ASSUME NEW m \in Memory, Listed(m.list, m.tree), NEW w \in m.tree
  PROVE  LET n == Indexed(m, w)
         IN /\ n \in Memory /\ SameRest(m, n) /\ n.list = m.list
            /\ Len(n.bridge) = Len(m.bridge) /\ DOMAIN n.bridge = DOMAIN m.bridge
            /\ CountedAt(n, w)
            /\ \A v \in Wires \ {w}, e \in Ends : n.index[<<v, e>>] = m.index[<<v, e>>]
            /\ \A b \in DOMAIN m.bridge :
                 /\ SameBridge(n.bridge[b], m.bridge[b])
                 /\ Bri(b) \notin Range(m.list[w]) => n.bridge[b] = m.bridge[b]
  <1> DEFINE index == [p \in Points |-> IF p[1] = w THEN IndexOf(m, w, <<"peer", p[2]>>)
                                        ELSE m.index[p]]
             bridge == [b \in DOMAIN m.bridge |->
                          IF b \in BridgesOf(m, w)
                          THEN [m.bridge[b] EXCEPT !.index = IndexOf(m, w, <<"bridge", b>>)]
                          ELSE m.bridge[b]]
             n == Indexed(m, w)
  <1>1. /\ m.index \in [Points -> Int] /\ m.bridge \in Seq(BridgeRec)
        /\ DOMAIN m = {"state", "list", "pstate", "addr", "fib", "index", "bridge", "tree"}
        /\ w \in Wires
    BY DEF Memory, Listed
  <1>2. n = [m EXCEPT !.index = index, !.bridge = bridge]
    BY <1>1 DEF Indexed
  <1>3. \A o : IndexOf(m, w, o) = Place(m.list[w], o) - 1
    BY DEF IndexOf, Place
  <1>4. \A o \in Range(m.list[w]) : Place(m.list[w], o) \in Nat
    BY PlaceIn
  <1>5. \A e \in Ends : Peer(e) \in Range(m.list[w])
    BY DEF Listed, Ends
  <1>6. \A p \in Points : p[2] \in Ends /\ p[1] \in Wires
    BY DEF Points, Ends
  <1>7. index \in [Points -> Int]
    <2> SUFFICES ASSUME NEW p \in Points PROVE index[p] \in Int
      OBVIOUS
    <2>1. IndexOf(m, w, <<"peer", p[2]>>) \in Int
      BY <1>3, <1>4, <1>5, <1>6 DEF Peer
    <2>2. QED
      BY <1>1, <2>1
  <1>8. /\ DOMAIN m.bridge = 1..Len(m.bridge) /\ Len(m.bridge) \in Nat
        /\ \A b \in DOMAIN m.bridge : m.bridge[b] \in BridgeRec
    BY <1>1
  <1>9. \A b \in DOMAIN m.bridge :
          IF Bri(b) \in Range(m.list[w])
          THEN bridge[b] = [m.bridge[b] EXCEPT !.index = Place(m.list[w], Bri(b)) - 1]
          ELSE bridge[b] = m.bridge[b]
    BY <1>3 DEF BridgesOf, Bri
  <1>10. \A b \in DOMAIN m.bridge : Bri(b) \in Range(m.list[w]) => Place(m.list[w], Bri(b)) - 1 \in Int
    BY <1>4
  <1>11. /\ DOMAIN bridge = DOMAIN m.bridge
         /\ bridge = [b \in DOMAIN m.bridge |-> bridge[b]]
    OBVIOUS
  <1> HIDE DEF bridge
  <1>12. \A b \in DOMAIN m.bridge :
           /\ bridge[b] \in BridgeRec /\ SameBridge(bridge[b], m.bridge[b])
           /\ Bri(b) \in Range(m.list[w]) => bridge[b].index = Place(m.list[w], Bri(b)) - 1
           /\ Bri(b) \notin Range(m.list[w]) => bridge[b] = m.bridge[b]
    <2> TAKE b \in DOMAIN m.bridge
    <2>1. m.bridge[b] \in BridgeRec
      BY <1>8
    <2>2. CASE Bri(b) \in Range(m.list[w])
      <3> DEFINE x == Place(m.list[w], Bri(b)) - 1
      <3>1. bridge[b] = [m.bridge[b] EXCEPT !.index = x] /\ x \in Int
        BY <1>9, <1>10, <2>2
      <3> HIDE DEF x
      <3>2. /\ bridge[b] \in BridgeRec /\ SameBridge(bridge[b], m.bridge[b])
            /\ bridge[b].index = x
        BY <2>1, <3>1 DEF BridgeRec, SameBridge
      <3>3. QED
        BY <2>2, <3>2 DEF x
    <2>3. CASE Bri(b) \notin Range(m.list[w])
      BY <1>9, <2>1, <2>3 DEF SameBridge
    <2>4. QED
      BY <2>2, <2>3
  <1>13. bridge \in Seq(BridgeRec) /\ Len(bridge) = Len(m.bridge)
    <2>1. bridge \in [1..Len(m.bridge) -> BridgeRec]
      BY <1>8, <1>11, <1>12
    <2>2. bridge \in Seq(BridgeRec)
      BY <1>8, <2>1
    <2>3. DOMAIN bridge = 1..Len(bridge) /\ Len(bridge) \in Nat
      BY <2>2
    <2>4. QED
      BY <1>8, <1>11, <2>2, <2>3
  <1>14. \A e \in Ends : index[<<w, e>>] = Place(m.list[w], Peer(e)) - 1
    <2> TAKE e \in Ends
    <2>1. <<w, e>> \in Points
      BY <1>1 DEF Points, Ends
    <2>2. QED
      BY <1>3, <2>1 DEF Peer
  <1>15. \A v \in Wires \ {w}, e \in Ends : index[<<v, e>>] = m.index[<<v, e>>]
    BY DEF Points, Ends
  <1> HIDE DEF index
  <1>16. /\ n.index = index /\ n.bridge = bridge /\ n.list = m.list /\ SameRest(m, n)
    BY <1>1, <1>2 DEF SameRest
  <1>17. n \in Memory
    BY <1>2, <1>7, <1>13 DEF Memory
  <1> HIDE DEF n
  <1>18. CountedAt(n, w)
    BY <1>11, <1>12, <1>14, <1>16 DEF CountedAt
  <1>19. QED
    BY <1>11, <1>12, <1>13, <1>15, <1>16, <1>17, <1>18 DEF n

-----------------------------------------------------------------------------
(* Both nodes of a bridge.                                                 *)

BothPut(list, d, p, b) == BridgePut(SlavePut(list, p, b), d, b)

\* What moves peer 0 of v, and peer 1: a bridge b of p to d.
MovesFirst(v, p) == v = p[1] /\ p[2] = 0
One(moved) == IF moved THEN 1 ELSE 0

BothShift(list, new, tree, d, p, b) ==
  \A v \in tree :
    /\ Range(new[v]) = Range(list[v]) \cup (IF v = p[1] THEN {Sla(b)} ELSE {})
                                      \cup (IF v = d THEN {Bri(b)} ELSE {})
    /\ \A n, o \in Range(list[v]) :
         Place(new[v], n) < Place(new[v], o) <=> Place(list[v], n) < Place(list[v], o)
    /\ \A n \in Range(list[v]) : Place(new[v], n) >= Place(list[v], n)
    /\ Place(new[v], Peer(0)) = Place(list[v], Peer(0)) + One(MovesFirst(v, p))
    /\ Place(new[v], Peer(1)) = Place(list[v], Peer(1)) + One(MovesFirst(v, p)) + One(v = d)

\* One list after one of the two insertions.
LEMMA OrderKept ==
  ASSUME NEW list, NEW new, NEW tree, Listed(list, tree), Listed(new, tree),
         NEW d \in tree, NEW p \in Points, p[1] \in tree, NEW b \in Nat,
         \/ SlaveShifts(list, new, tree, p, b)
         \/ BridgeShifts(list, new, tree, d, b),
         NEW v \in tree
  PROVE  /\ Range(list[v]) \subseteq Range(new[v])
         /\ \A n, o \in Range(list[v]) :
              Place(new[v], n) < Place(new[v], o) <=> Place(list[v], n) < Place(list[v], o)
         /\ \A n \in Range(list[v]) : Place(new[v], n) >= Place(list[v], n)
  <1>1. \A n \in Range(list[v]) : Place(list[v], n) \in Nat
    BY PlaceIn
  <1>2. {Peer(0), Peer(1)} \subseteq Range(list[v])
    BY DEF Listed
  <1>3. Range(list[v]) \subseteq Range(new[v])
    BY DEF SlaveShifts, BridgeShifts
  <1>4. ASSUME NEW n \in Range(list[v]), NEW o \in Range(list[v])
        PROVE  /\ Place(new[v], n) < Place(new[v], o) <=> Place(list[v], n) < Place(list[v], o)
               /\ Place(new[v], n) >= Place(list[v], n)
    <2>1. CASE SlaveShifts(list, new, tree, p, b)
      BY <1>1, <1>2, <2>1 DEF SlaveShifts
    <2>2. CASE BridgeShifts(list, new, tree, d, b)
      BY <1>1, <1>2, <2>2 DEF BridgeShifts
    <2>3. QED
      BY <2>1, <2>2
  <1>5. QED
    BY <1>3, <1>4

\* The nodes of a list after a bridge of p to d, and the number by which the bridge knows p.
LEMMA BothPutShift ==
  ASSUME NEW list, NEW tree, Listed(list, tree), NEW d \in tree, NEW p \in Points,
         p[1] \in tree, NEW b \in Nat,
         \A v \in tree : Sla(b) \notin Range(list[v]) /\ Bri(b) \notin Range(list[v])
  PROVE  LET new == BothPut(list, d, p, b)
             w   == p[1]
         IN /\ Listed(SlavePut(list, p, b), tree) /\ Listed(new, tree)
            /\ BothShift(list, new, tree, d, p, b)
            /\ Place(new[w], Sla(b)) < Place(new[w], Peer(0)) <=> p[2] = 0
            /\ Place(SlavePut(list, p, b)[w], Peer(p[2])) =
                 Place(list[w], Peer(p[2])) + One(p[2] = 0)
            /\ \A v \in Wires : v # w => SlavePut(list, p, b)[v] = list[v]
            /\ \A v \in Wires : v # d => new[v] = SlavePut(list, p, b)[v]
  <1> DEFINE w   == p[1]
             mid == SlavePut(list, p, b)
             new == BothPut(list, d, p, b)
  <1>1. /\ Listed(mid, tree) /\ SlaveShifts(list, mid, tree, p, b)
        /\ Place(mid[w], Sla(b)) = IF p[2] = 0 THEN 1 ELSE Place(list[w], Peer(1)) + 1
    BY SlavePutShifts
  <1>2. Bri(b) # Sla(b)
    BY DEF Bri, Sla
  <1>3. Bri(b) \notin Range(mid[d])
    BY <1>1, <1>2 DEF SlaveShifts
  <1>4. new = BridgePut(mid, d, b)
    BY DEF BothPut
  <1>5. \A v \in Wires : (v # w => mid[v] = list[v]) /\ (v # d => new[v] = mid[v])
    <2>1. w \in Wires /\ d \in Wires /\ list \in [Wires -> Seq(Nodes)] /\ mid \in [Wires -> Seq(Nodes)]
      BY <1>1 DEF Listed
    <2>2. \A v \in Wires : v # w => mid[v] = list[v]
      BY <2>1 DEF SlavePut
    <2> HIDE DEF mid, new
    <2>3. \A v \in Wires : v # d => new[v] = mid[v]
      BY <1>4, <2>1 DEF BridgePut
    <2>4. QED
      BY <2>2, <2>3
  <1> HIDE DEF mid, new
  <1>6. Listed(new, tree) /\ BridgeShifts(mid, new, tree, d, b)
    BY <1>1, <1>3, <1>4, BridgePutShifts
  <1>7. \A v \in tree : {Peer(0), Peer(1)} \subseteq Range(list[v])
                        /\ Place(list[v], Peer(0)) < Place(list[v], Peer(1))
    BY DEF Listed
  <1>8. \A v \in tree : \A n \in Range(list[v]) :
           /\ Place(list[v], n) \in Nat
           /\ n \in Range(mid[v]) /\ Place(mid[v], n) \in Nat
           /\ n \in Range(new[v]) /\ Place(new[v], n) \in Nat
    <2> TAKE v \in tree
    <2> TAKE n \in Range(list[v])
    <2>1. n \in Range(mid[v]) /\ n \in Range(new[v])
      BY <1>1, <1>6 DEF SlaveShifts, BridgeShifts
    <2>2. QED
      BY <1>1, <1>6, <2>1, PlaceIn
  <1>9. BothShift(list, new, tree, d, p, b)
    <2> SUFFICES ASSUME NEW v \in tree
                 PROVE  /\ Range(new[v]) = Range(list[v]) \cup (IF v = p[1] THEN {Sla(b)} ELSE {})
                                                          \cup (IF v = d THEN {Bri(b)} ELSE {})
                        /\ \A n, o \in Range(list[v]) :
                             Place(new[v], n) < Place(new[v], o) <=> Place(list[v], n) < Place(list[v], o)
                        /\ \A n \in Range(list[v]) : Place(new[v], n) >= Place(list[v], n)
                        /\ Place(new[v], Peer(0)) = Place(list[v], Peer(0)) + One(MovesFirst(v, p))
                        /\ Place(new[v], Peer(1)) = Place(list[v], Peer(1)) + One(MovesFirst(v, p))
                                                                            + One(v = d)
      BY DEF BothShift
    <2>1. Range(new[v]) = Range(list[v]) \cup (IF v = p[1] THEN {Sla(b)} ELSE {})
                                         \cup (IF v = d THEN {Bri(b)} ELSE {})
      BY <1>1, <1>6 DEF SlaveShifts, BridgeShifts
    <2>2. /\ \A n, o \in Range(list[v]) :
               Place(mid[v], n) < Place(mid[v], o) <=> Place(list[v], n) < Place(list[v], o)
          /\ \A n \in Range(list[v]) : Place(mid[v], n) >= Place(list[v], n)
      BY <1>1, OrderKept
    <2>3. /\ \A n, o \in Range(mid[v]) :
               Place(new[v], n) < Place(new[v], o) <=> Place(mid[v], n) < Place(mid[v], o)
          /\ \A n \in Range(mid[v]) : Place(new[v], n) >= Place(mid[v], n)
      BY <1>1, <1>6, OrderKept
    <2>4. Place(new[v], Peer(0)) = Place(list[v], Peer(0)) + One(MovesFirst(v, p))
      <3>1. Place(mid[v], Peer(0)) = Place(list[v], Peer(0)) + One(MovesFirst(v, p))
        BY <1>1, <1>7, <1>8 DEF SlaveShifts, One, MovesFirst
      <3>2. Place(new[v], Peer(0)) = Place(mid[v], Peer(0))
        BY <1>6, <1>7, <1>8 DEF BridgeShifts
      <3>3. QED
        BY <3>1, <3>2
    <2>5. Place(new[v], Peer(1)) = Place(list[v], Peer(1)) + One(MovesFirst(v, p)) + One(v = d)
      <3>1. Place(mid[v], Peer(1)) = Place(list[v], Peer(1)) + One(MovesFirst(v, p))
        BY <1>1, <1>7, <1>8 DEF SlaveShifts, One, MovesFirst
      <3>2. Place(mid[v], Peer(0)) < Place(mid[v], Peer(1))
        BY <1>1 DEF Listed
      <3>3. Place(new[v], Peer(1)) = Place(mid[v], Peer(1)) + One(v = d)
        BY <1>6, <1>7, <1>8, <3>2 DEF BridgeShifts, One
      <3>4. One(MovesFirst(v, p)) \in Nat /\ One(v = d) \in Nat
        BY DEF One
      <3>5. QED
        BY <1>7, <1>8, <3>1, <3>3, <3>4
    <2>6. /\ \A n, o \in Range(list[v]) :
               Place(new[v], n) < Place(new[v], o) <=> Place(list[v], n) < Place(list[v], o)
          /\ \A n \in Range(list[v]) : Place(new[v], n) >= Place(list[v], n)
      BY <1>8, <2>2, <2>3
    <2>7. QED
      BY <2>1, <2>4, <2>5, <2>6
  <1>10. p[2] \in Ends
    BY DEF Points, Ends
  <1>11. Place(mid[w], Peer(p[2])) = Place(list[w], Peer(p[2])) + One(p[2] = 0)
    BY <1>1, <1>7, <1>8, <1>10 DEF SlaveShifts, One, Ends
  <1>12. Place(new[w], Sla(b)) < Place(new[w], Peer(0)) <=> p[2] = 0
    <2>1. Sla(b) \in Range(mid[w]) /\ Peer(0) \in Range(mid[w])
      BY <1>1, <1>7 DEF SlaveShifts
    <2>2. Place(new[w], Sla(b)) < Place(new[w], Peer(0))
            <=> Place(mid[w], Sla(b)) < Place(mid[w], Peer(0))
      BY <1>1, <1>6, <2>1, OrderKept
    <2>3. Place(mid[w], Peer(0)) = Place(list[w], Peer(0)) + One(p[2] = 0)
      BY <1>1, <1>7, <1>8 DEF SlaveShifts, One
    <2>4. Place(list[w], Peer(0)) \in Nat \ {0} /\ Place(list[w], Peer(1)) \in Nat
      <3>1. Place(list[w], Peer(0)) \in 1..Len(list[w]) /\ Len(list[w]) \in Nat
        BY <1>7, PlaceIn
      <3>2. QED
        BY <1>7, <1>8, <3>1
    <2>5. QED
      BY <1>1, <1>7, <2>2, <2>3, <2>4 DEF One
  <1>13. QED
    BY <1>1, <1>5, <1>6, <1>9, <1>11, <1>12 DEF mid, new

-----------------------------------------------------------------------------
(* A bridge is made.                                                       *)

\* The wireways of a memory have lists with both peers.
LEMMA ListsListed ==
  ASSUME NEW m \in Memory, Lists(m)
  PROVE  /\ Listed(m.list, m.tree)
         /\ DOMAIN m.bridge = 1..Len(m.bridge) /\ Len(m.bridge) \in Nat
         /\ \A b \in DOMAIN m.bridge : m.bridge[b] \in BridgeRec
         /\ \A v \in m.tree : Range(m.list[v]) = NodesOf(m, v)
  <1>1. m.tree \subseteq Wires /\ m.list \in [Wires -> Seq(Nodes)] /\ m.bridge \in Seq(BridgeRec)
    BY DEF Memory
  <1>2. \A v \in m.tree : {Peer(0), Peer(1)} \subseteq Range(m.list[v])
    BY DEF Lists, NodesOf
  <1>3. QED
    BY <1>1, <1>2 DEF Listed, Lists

\* The nodes of the bridges that the list of v holds.
LEMMA NodesIn ==
  ASSUME NEW m \in Memory, Lists(m), NEW v \in m.tree, NEW b \in Nat
  PROVE  /\ Bri(b) \in Range(m.list[v]) <=> b \in DOMAIN m.bridge /\ m.bridge[b].master = v
         /\ Sla(b) \in Range(m.list[v]) <=> b \in DOMAIN m.bridge /\ m.bridge[b].slave = v
  BY ListsListed DEF NodesOf, Bri, Sla, Peer

\* AfterPeer puts a node behind the peer.
LEMMA AfterPeerIs ==
  ASSUME NEW list, NEW tree, Listed(list, tree), NEW v \in tree, NEW e \in Ends, NEW n \in Nodes
  PROVE  AfterPeer(list[v], e, n) = Put(list[v], Place(list[v], Peer(e)) + 1, n)
  <1>1. Peer(e) \in Range(list[v])
    BY DEF Listed, Ends
  <1>2. /\ Place(list[v], Peer(e)) \in 1..Len(list[v]) /\ Len(list[v]) \in Nat
        /\ list[v] \in Seq(Nodes)
    BY <1>1, PlaceIn
  <1>3. Place(list[v], Peer(e)) + 1 \in 1..(Len(list[v]) + 1)
    BY <1>2
  <1>4. InsertAt(list[v], Place(list[v], Peer(e)) + 1, n)
          = Put(list[v], Place(list[v], Peer(e)) + 1, n)
    BY <1>2, <1>3, InsertIsPut
  <1>5. QED
    BY <1>4 DEF AfterPeer, Place, Peer

\* What the program changes is what the lists above say.
LEMMA SlaveNodePut ==
  ASSUME NEW m \in Memory, Listed(m.list, m.tree), NEW p \in Points, p[1] \in m.tree, NEW b \in Nat
  PROVE  WithSlave(m, p, b) = Indexed([m EXCEPT !.list = SlavePut(m.list, p, b)], p[1])
  <1>1. Sla(b) \in Nodes /\ m.list[p[1]] \in Seq(Nodes)
    BY DEF Sla, Nodes, Listed
  <1>2. 1 \in 1..(Len(m.list[p[1]]) + 1)
    BY <1>1
  <1>3. <<Sla(b)>> \o m.list[p[1]] = Put(m.list[p[1]], 1, Sla(b))
    BY <1>1, <1>2, InsertIsPut
  <1>4. 1 \in Ends
    BY DEF Ends
  <1>5. AfterPeer(m.list[p[1]], 1, Sla(b)) = Put(m.list[p[1]], Place(m.list[p[1]], Peer(1)) + 1, Sla(b))
    BY <1>1, <1>4, AfterPeerIs
  <1>6. (IF p[2] = 0 THEN <<Sla(b)>> \o m.list[p[1]] ELSE AfterPeer(m.list[p[1]], 1, Sla(b)))
          = Put(m.list[p[1]], IF p[2] = 0 THEN 1 ELSE Place(m.list[p[1]], Peer(1)) + 1, Sla(b))
    BY <1>3, <1>5
  <1>7. QED
    BY <1>6 DEF WithSlave, SlavePut, Sla

\* What is left of m but one more bridge.
LEMMA MadeIs ==
  ASSUME NEW m \in Memory, Lists(m), Counted(m), NEW d \in m.tree, NEW p \in Points, p[1] \in m.tree
  PROVE  LET n == Made(m, d, p)
             b == Len(m.bridge) + 1
         IN /\ n \in Memory /\ SameRest(m, n) /\ Counted(n)
            /\ n.list = BothPut(m.list, d, p, b)
            /\ Len(n.bridge) = b
            /\ \A c \in DOMAIN m.bridge : SameBridge(n.bridge[c], m.bridge[c])
            /\ n.bridge[b].master = d /\ n.bridge[b].slave = p[1]
            /\ n.bridge[b].linked = Links(m, p)
            /\ n.bridge[b].point_index = Place(SlavePut(m.list, p, b)[p[1]], Peer(p[2])) - 1
  <1> DEFINE w   == p[1]
             b   == Len(m.bridge) + 1
             mid == SlavePut(m.list, p, b)
             new == BothPut(m.list, d, p, b)
             k   == [m EXCEPT !.list = mid]
             m1  == Indexed(k, w)
             rec == [master |-> d, slave |-> w, location |-> -1, index |-> 0,
                     point_index |-> m1.index[p], slave_point_index |-> 0, linked |-> Links(m, p)]
             m2  == [m1 EXCEPT !.list = new, !.bridge = Append(m1.bridge, rec)]
             m3  == Indexed(m2, d)
             at  == IndexOf(m2, w, <<"slave", b>>)
             n   == Made(m, d, p)
  <1>1. /\ Listed(m.list, m.tree) /\ b \in Nat
        /\ DOMAIN m.bridge = 1..Len(m.bridge) /\ Len(m.bridge) \in Nat
        /\ w \in Wires /\ d \in Wires /\ p[2] \in Ends /\ p = <<w, p[2]>>
        /\ m.tree \subseteq Wires
    <2>1. Listed(m.list, m.tree) /\ DOMAIN m.bridge = 1..Len(m.bridge) /\ Len(m.bridge) \in Nat
      BY ListsListed
    <2>2. w \in Wires /\ p[2] \in Ends /\ p = <<w, p[2]>>
      BY DEF Points, Ends
    <2>3. m.tree \subseteq Wires
      BY DEF Memory
    <2>4. b \in Nat
      BY <2>1
    <2>5. QED
      BY <2>1, <2>2, <2>3, <2>4
  <1>2. \A v \in m.tree : Sla(b) \notin Range(m.list[v]) /\ Bri(b) \notin Range(m.list[v])
    BY <1>1, NodesIn
  <1>3. /\ Listed(mid, m.tree) /\ Listed(new, m.tree) /\ BothShift(m.list, new, m.tree, d, p, b)
        /\ \A v \in Wires : v # w => mid[v] = m.list[v]
        /\ \A v \in Wires : v # d => new[v] = mid[v]
    BY <1>1, <1>2, BothPutShift
  <1>4. SlaveShifts(m.list, mid, m.tree, p, b)
    BY <1>1, <1>2, SlavePutShifts
  <1>5. WithSlave(m, p, b) = m1
    BY <1>1, SlaveNodePut
  <1>6. /\ k \in Memory /\ k.list = mid /\ SameRest(m, k) /\ k.index = m.index /\ k.bridge = m.bridge
    <2>1. mid \in [Wires -> Seq(Nodes)]
      BY <1>3 DEF Listed
    <2> HIDE DEF mid
    <2>2. QED
      BY <2>1 DEF Memory, SameRest
  <1> HIDE DEF mid, new, k
  <1>7. k.tree = m.tree
    BY <1>6 DEF SameRest
  <1>8. /\ m1 \in Memory /\ SameRest(k, m1) /\ m1.list = mid
        /\ Len(m1.bridge) = Len(m.bridge) /\ DOMAIN m1.bridge = DOMAIN m.bridge
        /\ CountedAt(m1, w)
        /\ \A v \in Wires \ {w}, e \in Ends : m1.index[<<v, e>>] = m.index[<<v, e>>]
        /\ \A c \in DOMAIN m.bridge :
             /\ SameBridge(m1.bridge[c], m.bridge[c])
             /\ Bri(c) \notin Range(mid[w]) => m1.bridge[c] = m.bridge[c]
    BY <1>3, <1>6, <1>7, IndexedIs
  <1>9. m1.tree = m.tree /\ SameRest(m, m1)
    BY <1>6, <1>8 DEF SameRest
  <1>10. m1.index[p] = Place(mid[w], Peer(p[2])) - 1 /\ m1.index[p] \in Int
    BY <1>1, <1>8 DEF CountedAt, Memory
  <1>11. Links(m, p) \in BOOLEAN
    BY DEF Links
  <1> HIDE DEF m1
  <1>12. rec \in BridgeRec
    BY <1>1, <1>10, <1>11 DEF BridgeRec
  <1>13. rec.point_index = m1.index[p] /\ rec.master = d /\ rec.slave = w /\ rec.linked = Links(m, p)
    OBVIOUS
  <1> HIDE DEF rec
  <1>14. n = [m3 EXCEPT !.bridge[b].slave_point_index = at]
    <2>1. AfterPeer(mid[d], 0, <<"bridge", b>>) = Put(mid[d], Place(mid[d], Peer(0)) + 1, Bri(b))
      <3>1. Bri(b) \in Nodes /\ 0 \in Ends
        BY <1>1 DEF Bri, Nodes, Ends
      <3>2. AfterPeer(mid[d], 0, Bri(b)) = Put(mid[d], Place(mid[d], Peer(0)) + 1, Bri(b))
        BY <1>3, <3>1, AfterPeerIs
      <3>3. QED
        BY <3>2 DEF Bri
    <2>2. [m1 EXCEPT !.list[d] = AfterPeer(@, 0, <<"bridge", b>>), !.bridge = Append(@, rec)] = m2
      <3>1. new = [mid EXCEPT ![d] = Put(mid[d], Place(mid[d], Peer(0)) + 1, Bri(b))]
        BY DEF new, mid, BothPut, BridgePut
      <3>2. new = [m1.list EXCEPT ![d] = AfterPeer(m1.list[d], 0, <<"bridge", b>>)]
        BY <1>8, <2>1, <3>1
      <3>3. QED
        BY <3>2
    <2>3. QED
      BY <1>5, <2>2 DEF Made, rec
  <1>15. m1.bridge \in Seq(BridgeRec) /\ new \in [Wires -> Seq(Nodes)]
    BY <1>3, <1>8 DEF Memory, Listed
  <1>16. /\ Append(m1.bridge, rec) \in Seq(BridgeRec) /\ Len(Append(m1.bridge, rec)) = b
         /\ Append(m1.bridge, rec)[b] = rec
         /\ \A c \in DOMAIN m.bridge : Append(m1.bridge, rec)[c] = m1.bridge[c]
    BY <1>1, <1>8, <1>12, <1>15
  <1>17. /\ m2 \in Memory /\ SameRest(m1, m2) /\ m2.list = new /\ m2.index = m1.index
         /\ m2.bridge = Append(m1.bridge, rec)
    BY <1>8, <1>15, <1>16 DEF Memory, SameRest
  <1> HIDE DEF m2
  <1>18. m2.tree = m.tree /\ SameRest(m, m2)
    BY <1>9, <1>17 DEF SameRest
  <1>19. DOMAIN m2.bridge = 1..b /\ Len(m2.bridge) = b
    BY <1>16, <1>17
  <1>20. /\ m3 \in Memory /\ SameRest(m2, m3) /\ m3.list = new
         /\ Len(m3.bridge) = b /\ DOMAIN m3.bridge = 1..b
         /\ CountedAt(m3, d)
         /\ \A v \in Wires \ {d}, e \in Ends : m3.index[<<v, e>>] = m1.index[<<v, e>>]
         /\ \A c \in 1..b :
              /\ SameBridge(m3.bridge[c], m2.bridge[c])
              /\ Bri(c) \notin Range(new[d]) => m3.bridge[c] = m2.bridge[c]
    <2>1. m2 \in Memory /\ Listed(m2.list, m2.tree) /\ d \in m2.tree
      BY <1>3, <1>17, <1>18
    <2>2. /\ m3 \in Memory /\ SameRest(m2, m3) /\ m3.list = m2.list
          /\ Len(m3.bridge) = Len(m2.bridge) /\ DOMAIN m3.bridge = DOMAIN m2.bridge
          /\ CountedAt(m3, d)
          /\ \A v \in Wires \ {d}, e \in Ends : m3.index[<<v, e>>] = m2.index[<<v, e>>]
          /\ \A c \in DOMAIN m2.bridge :
               /\ SameBridge(m3.bridge[c], m2.bridge[c])
               /\ Bri(c) \notin Range(m2.list[d]) => m3.bridge[c] = m2.bridge[c]
      BY <2>1, IndexedIs
    <2> HIDE DEF m3
    <2>3. QED
      BY <1>17, <1>19, <2>2
  <1> HIDE DEF m3
  <1>21. at \in Int
    <2>1. Sla(b) \in Range(new[w])
      BY <1>3 DEF BothShift
    <2>2. Place(new[w], Sla(b)) \in Nat
      <3>1. Place(new[w], Sla(b)) \in 1..Len(new[w])
        BY <1>3, <2>1, PlaceIn
      <3>2. QED
        BY <3>1
    <2>3. QED
      BY <1>17, <2>2 DEF IndexOf, Place, Sla
  <1> HIDE DEF at
  <1>22. /\ n \in Memory /\ SameRest(m3, n) /\ n.list = new /\ n.index = m3.index
         /\ Len(n.bridge) = b /\ DOMAIN n.bridge = 1..b
         /\ \A c \in 1..b : n.bridge[c] = IF c = b THEN [m3.bridge[b] EXCEPT !.slave_point_index = at]
                                          ELSE m3.bridge[c]
    <2> DEFINE last == [m3.bridge[b] EXCEPT !.slave_point_index = at]
               bridge == [m3.bridge EXCEPT ![b] = last]
    <2>1. m3.bridge \in Seq(BridgeRec) /\ b \in 1..b
      BY <1>1, <1>20 DEF Memory
    <2>2. last \in BridgeRec
      <3>1. m3.bridge[b] \in BridgeRec
        BY <1>20, <2>1
      <3>2. QED
        BY <1>21, <3>1 DEF BridgeRec
    <2> HIDE DEF last
    <2>3. bridge \in Seq(BridgeRec) /\ Len(bridge) = b /\ DOMAIN bridge = 1..b
      BY <1>20, <2>1, <2>2
    <2>4. \A c \in 1..b : bridge[c] = IF c = b THEN last ELSE m3.bridge[c]
      BY <1>20
    <2> HIDE DEF bridge
    <2>5. n = [m3 EXCEPT !.bridge = bridge]
      BY <1>14 DEF bridge, last
    <2> HIDE DEF n
    <2>6. n \in Memory /\ n.bridge = bridge /\ SameRest(m3, n) /\ n.list = new /\ n.index = m3.index
      BY <1>20, <2>3, <2>5 DEF Memory, SameRest
    <2>7. QED
      BY <2>3, <2>4, <2>6 DEF last
  <1> HIDE DEF n
  <1>23. n.tree = m.tree /\ SameRest(m, n)
    BY <1>18, <1>20, <1>22 DEF SameRest
  <1>24. \A c \in 1..b : /\ n.bridge[c].master = m3.bridge[c].master
                         /\ n.bridge[c].slave = m3.bridge[c].slave
                         /\ n.bridge[c].location = m3.bridge[c].location
                         /\ n.bridge[c].point_index = m3.bridge[c].point_index
                         /\ n.bridge[c].linked = m3.bridge[c].linked
                         /\ n.bridge[c].index = m3.bridge[c].index
    <2>1. \A c \in 1..b : m3.bridge[c] \in BridgeRec
      BY <1>20 DEF Memory
    <2> TAKE c \in 1..b
    <2>2. CASE c # b
      BY <1>22, <2>2
    <2>3. CASE c = b
      <3>1. n.bridge[b] = [m3.bridge[b] EXCEPT !.slave_point_index = at] /\ m3.bridge[b] \in BridgeRec
        BY <1>22, <2>1, <2>3
      <3>2. QED
        BY <2>3, <3>1 DEF BridgeRec
    <2>4. QED
      BY <2>2, <2>3
  <1>25. \A c \in DOMAIN m.bridge : SameBridge(n.bridge[c], m.bridge[c])
    <2> TAKE c \in DOMAIN m.bridge
    <2>1. c \in 1..b /\ c # b
      BY <1>1
    <2>2. n.bridge[c] = m3.bridge[c] /\ SameBridge(m3.bridge[c], m1.bridge[c])
      BY <1>16, <1>17, <1>20, <1>22, <2>1
    <2>3. QED
      BY <1>8, <2>2 DEF SameBridge
  <1>26. /\ n.bridge[b].master = d /\ n.bridge[b].slave = w /\ n.bridge[b].linked = Links(m, p)
         /\ n.bridge[b].point_index = m1.index[p]
    <2>1. b \in 1..b
      BY <1>1
    <2>2. SameBridge(m3.bridge[b], rec)
      BY <1>16, <1>17, <1>20, <2>1
    <2>3. QED
      BY <1>13, <1>24, <2>1, <2>2 DEF SameBridge
  <1>27. Counted(n)
    <2>1. ASSUME NEW v \in Wires, NEW e \in Ends, v \notin m.tree PROVE n.index[<<v, e>>] = e
      <3>1. v # w /\ v # d
        BY <2>1
      <3>2. QED
        BY <1>8, <1>20, <1>22, <2>1, <3>1 DEF Counted
    <2>2. ASSUME NEW v \in m.tree, NEW e \in Ends
          PROVE  n.index[<<v, e>>] = Place(n.list[v], Peer(e)) - 1
      <3>0. v \in Wires
        BY <1>1
      <3>1. CASE v = d
        BY <1>20, <1>22, <3>1 DEF CountedAt
      <3>2. CASE v # d /\ v = w
        BY <1>1, <1>3, <1>8, <1>20, <1>22, <3>2 DEF CountedAt
      <3>3. CASE v # d /\ v # w
        BY <1>3, <1>8, <1>20, <1>22, <3>0, <3>3 DEF Counted
      <3>4. QED
        BY <3>1, <3>2, <3>3
    <2>3. ASSUME NEW c \in 1..b
          PROVE  n.bridge[c].index = Place(n.list[n.bridge[c].master], Bri(c)) - 1
      <3> DEFINE v == n.bridge[c].master
      <3>1. CASE c = b
        <4>1. Bri(b) \in Range(new[d])
          BY <1>3 DEF BothShift
        <4>2. b \in DOMAIN m3.bridge
          BY <1>20, <3>1
        <4>3. m3.bridge[b].index = Place(new[d], Bri(b)) - 1
          BY <1>20, <4>1, <4>2 DEF CountedAt
        <4>4. QED
          BY <1>22, <1>24, <1>26, <3>1, <4>3
      <3>2. CASE c # b
        <4>1. c \in DOMAIN m.bridge /\ c \in Nat
          BY <1>1, <3>2
        <4>2. v = m.bridge[c].master /\ v \in m.tree /\ v \in Wires
          BY <1>1, <1>25, <4>1 DEF SameBridge, Lists
        <4>3. \A u \in m.tree : Bri(c) \in Range(m.list[u]) <=> u = v
          BY <4>1, <4>2, NodesIn
        <4>4. Bri(c) # Bri(b) /\ \A a : Bri(c) # Sla(a)
          BY <3>2 DEF Bri, Sla
        <4>5. (Bri(c) \in Range(mid[w]) <=> v = w) /\ (Bri(c) \in Range(new[d]) <=> v = d)
          <5>1. Bri(c) \in Range(mid[w]) <=> Bri(c) \in Range(m.list[w])
            BY <1>4, <4>4 DEF SlaveShifts
          <5>2. Bri(c) \in Range(new[d]) <=> Bri(c) \in Range(m.list[d])
            BY <1>3, <4>4 DEF BothShift
          <5>3. QED
            BY <4>3, <5>1, <5>2
        <4>6. n.bridge[c].index = m3.bridge[c].index
          BY <1>24
        <4>7. CASE v = d
          <5>1. m3.bridge[c].index = Place(new[d], Bri(c)) - 1
            BY <1>20, <4>5, <4>7 DEF CountedAt
          <5>2. QED
            BY <1>22, <4>6, <4>7, <5>1
        <4>8. CASE v # d
          <5>1. m3.bridge[c] = m1.bridge[c] /\ new[v] = mid[v]
            BY <1>3, <1>16, <1>17, <1>20, <4>1, <4>2, <4>5, <4>8
          <5>2. CASE v = w
            <6>1. m1.bridge[c].index = Place(mid[w], Bri(c)) - 1
              BY <1>8, <4>1, <4>5, <5>2 DEF CountedAt
            <6>2. QED
              BY <1>22, <4>6, <5>1, <5>2, <6>1
          <5>3. CASE v # w
            BY <1>3, <1>8, <1>22, <4>1, <4>2, <4>5, <4>6, <5>1, <5>3 DEF Counted
          <5>4. QED
            BY <5>2, <5>3
        <4>9. QED
          BY <4>7, <4>8 
      <3>3. QED
        BY <3>1, <3>2
    <2>4. QED
      BY <1>22, <1>23, <2>1, <2>2, <2>3 DEF Counted
  <1>28. QED
    BY <1>10, <1>22, <1>23, <1>25, <1>26, <1>27 DEF n, mid, new

-----------------------------------------------------------------------------
(* The peers of the bridges.                                               *)

\* n is m with a bridge of p to d, its last one.
OneMore(m, n, d, p) ==
  LET b == Len(m.bridge) + 1
  IN /\ n \in Memory /\ SameRest(m, n) /\ Counted(n)
     /\ Listed(n.list, m.tree) /\ BothShift(m.list, n.list, m.tree, d, p, b)
     /\ Place(n.list[p[1]], Sla(b)) < Place(n.list[p[1]], Peer(0)) <=> p[2] = 0
     /\ \A v \in Wires : v # p[1] /\ v # d => n.list[v] = m.list[v]
     /\ Len(n.bridge) = b
     /\ \A c \in DOMAIN m.bridge : SameBridge(n.bridge[c], m.bridge[c])
     /\ n.bridge[b].master = d /\ n.bridge[b].slave = p[1]
     /\ n.bridge[b].linked = Links(m, p)
     /\ n.bridge[b].point_index + 1 = Place(m.list[p[1]], Peer(p[2])) + One(p[2] = 0)

\* What may be bridged.
Bridgeable(m, d, p) ==
  m \in Memory /\ Lists(m) /\ Counted(m) /\ d \in m.tree /\ p \in Points /\ p[1] \in m.tree

\* Made makes one more bridge.
LEMMA MadeOneMore ==
  ASSUME NEW m, NEW d, NEW p, Bridgeable(m, d, p)
  PROVE  OneMore(m, Made(m, d, p), d, p)
  <1> DEFINE n == Made(m, d, p)
             b == Len(m.bridge) + 1
             w == p[1]
  <1>0. m \in Memory /\ Lists(m) /\ Counted(m) /\ d \in m.tree /\ p \in Points /\ w \in m.tree
    BY DEF Bridgeable
  <1>1. Listed(m.list, m.tree) /\ b \in Nat /\ p[2] \in Ends
    <2>1. Listed(m.list, m.tree) /\ Len(m.bridge) \in Nat
      BY <1>0, ListsListed
    <2>2. p[2] \in Ends
      BY <1>0 DEF Points, Ends
    <2>3. QED
      BY <2>1, <2>2
  <1>2. \A v \in m.tree : Sla(b) \notin Range(m.list[v]) /\ Bri(b) \notin Range(m.list[v])
    <2>1. b \notin DOMAIN m.bridge
      BY <1>0, ListsListed
    <2>2. QED
      BY <1>0, <1>1, <2>1, NodesIn
  <1>3. /\ n \in Memory /\ SameRest(m, n) /\ Counted(n)
        /\ n.list = BothPut(m.list, d, p, b)
        /\ Len(n.bridge) = b
        /\ \A c \in DOMAIN m.bridge : SameBridge(n.bridge[c], m.bridge[c])
        /\ n.bridge[b].master = d /\ n.bridge[b].slave = w
        /\ n.bridge[b].linked = Links(m, p)
        /\ n.bridge[b].point_index = Place(SlavePut(m.list, p, b)[w], Peer(p[2])) - 1
    BY <1>0, MadeIs
  <1> HIDE DEF n
  <1>4. /\ Listed(n.list, m.tree) /\ BothShift(m.list, n.list, m.tree, d, p, b)
        /\ Place(n.list[w], Sla(b)) < Place(n.list[w], Peer(0)) <=> p[2] = 0
        /\ Place(SlavePut(m.list, p, b)[w], Peer(p[2])) = Place(m.list[w], Peer(p[2])) + One(p[2] = 0)
        /\ \A v \in Wires : v # w => SlavePut(m.list, p, b)[v] = m.list[v]
        /\ \A v \in Wires : v # d => n.list[v] = SlavePut(m.list, p, b)[v]
    <2> DEFINE new == BothPut(m.list, d, p, b)
    <2>1. /\ Listed(new, m.tree) /\ BothShift(m.list, new, m.tree, d, p, b)
          /\ Place(new[w], Sla(b)) < Place(new[w], Peer(0)) <=> p[2] = 0
          /\ Place(SlavePut(m.list, p, b)[w], Peer(p[2])) = Place(m.list[w], Peer(p[2])) + One(p[2] = 0)
          /\ \A v \in Wires : v # w => SlavePut(m.list, p, b)[v] = m.list[v]
          /\ \A v \in Wires : v # d => new[v] = SlavePut(m.list, p, b)[v]
      <3>1. /\ Listed(m.list, m.tree) /\ d \in m.tree /\ p \in Points /\ p[1] \in m.tree
            /\ b \in Nat
        BY <1>0, <1>1
      <3>2. \A v \in m.tree : Sla(b) \notin Range(m.list[v]) /\ Bri(b) \notin Range(m.list[v])
        BY <1>2
      <3> HIDE DEF b
      <3>3. QED
        BY <3>1, <3>2, BothPutShift
    <2>2. n.list = new
      BY <1>3
    <2> HIDE DEF new
    <2>3. QED
      BY <2>1, <2>2
  <1>5. Place(m.list[w], Peer(p[2])) \in Nat /\ One(p[2] = 0) \in Nat
    <2>1. Peer(p[2]) \in Range(m.list[w])
      BY <1>0, <1>1 DEF Listed, Ends
    <2>2. Place(m.list[w], Peer(p[2])) \in 1..Len(m.list[w])
      BY <1>0, <1>1, <2>1, PlaceIn
    <2>3. QED
      BY <2>2 DEF One
  <1>6. n.bridge[b].point_index + 1 = Place(m.list[w], Peer(p[2])) + One(p[2] = 0)
    BY <1>3, <1>4, <1>5
  <1>7. QED
    BY <1>3, <1>4, <1>6 DEF OneMore, n

\* The peer of a bridge, by the places of its node and of peer 0.
Side(m, b) ==
  IF Place(m.list[m.bridge[b].slave], Sla(b)) < Place(m.list[m.bridge[b].slave], Peer(0)) THEN 0 ELSE 1

\* A bridge's peer is a peer of its slave.
LEMMA BridgedIs ==
  ASSUME NEW m \in Memory, Lists(m), NEW b \in DOMAIN m.bridge
  PROVE  /\ BridgedPeer(m, b) = <<m.bridge[b].slave, Side(m, b)>>
         /\ BridgedPeer(m, b) \in Points
         /\ {m.bridge[b].slave, m.bridge[b].master} \subseteq m.tree
         /\ Peer(Side(m, b)) \in Range(m.list[m.bridge[b].slave]) /\ Side(m, b) \in Ends
         /\ Sla(b) \in Range(m.list[m.bridge[b].slave])
  <1> DEFINE s == m.bridge[b].slave
  <1>1. Listed(m.list, m.tree) /\ s \in m.tree /\ m.bridge[b].master \in m.tree /\ b \in Nat
    BY ListsListed DEF Lists
  <1>2. Sla(b) \in Range(m.list[s]) /\ {Peer(0), Peer(1)} \subseteq Range(m.list[s])
    BY <1>1, NodesIn DEF Listed
  <1>3. Place(m.list[s], Sla(b)) \in Nat /\ Place(m.list[s], Peer(0)) \in Nat
    <2>1. /\ Place(m.list[s], Sla(b)) \in 1..Len(m.list[s])
          /\ Place(m.list[s], Peer(0)) \in 1..Len(m.list[s])
      BY <1>1, <1>2, PlaceIn
    <2>2. QED
      BY <2>1
  <1>4. /\ IndexOf(m, s, <<"slave", b>>) = Place(m.list[s], Sla(b)) - 1
        /\ IndexOf(m, s, <<"peer", 0>>) = Place(m.list[s], Peer(0)) - 1
    BY DEF IndexOf, Place, Sla, Peer
  <1>5. IndexOf(m, s, <<"slave", b>>) < IndexOf(m, s, <<"peer", 0>>)
          <=> Place(m.list[s], Sla(b)) < Place(m.list[s], Peer(0))
    BY <1>3, <1>4
  <1>6. BridgedPeer(m, b) = <<s, Side(m, b)>>
    BY <1>5 DEF BridgedPeer, Side
  <1>7. Side(m, b) \in Ends
    BY DEF Side, Ends
  <1>8. s \in Wires
    BY <1>1 DEF Listed
  <1>9. QED
    BY <1>1, <1>2, <1>6, <1>7, <1>8 DEF Points, Ends

\* The lists after one more bridge.
LEMMA OneMoreLists ==
  ASSUME NEW m, NEW d, NEW p, Bridgeable(m, d, p), NEW n, OneMore(m, n, d, p)
  PROVE  /\ Lists(n) /\ DOMAIN n.bridge = 1..(Len(m.bridge) + 1)
         /\ DOMAIN m.bridge = 1..Len(m.bridge) /\ Len(m.bridge) \in Nat
  <1> DEFINE b == Len(m.bridge) + 1
             w == p[1]
  <1>1. m \in Memory /\ Lists(m) /\ d \in m.tree /\ p \in Points /\ w \in m.tree
    BY DEF Bridgeable
  <1>2. DOMAIN m.bridge = 1..Len(m.bridge) /\ Len(m.bridge) \in Nat /\ m.tree \subseteq Wires
    BY <1>1, ListsListed DEF Memory
  <1>3. /\ n \in Memory /\ SameRest(m, n)
        /\ Listed(n.list, m.tree) /\ BothShift(m.list, n.list, m.tree, d, p, b)
        /\ Len(n.bridge) = b
        /\ \A c \in DOMAIN m.bridge : SameBridge(n.bridge[c], m.bridge[c])
        /\ n.bridge[b].master = d /\ n.bridge[b].slave = w
    BY DEF OneMore
  <1>4. n.tree = m.tree /\ n.state = m.state
    BY <1>3 DEF SameRest
  <1>5. DOMAIN n.bridge = 1..b
    <2>1. n.bridge \in Seq(BridgeRec)
      BY <1>3 DEF Memory
    <2>2. QED
      BY <1>3, <2>1
  <1>6. /\ \A c \in DOMAIN m.bridge : /\ n.bridge[c].master = m.bridge[c].master
                                      /\ n.bridge[c].slave = m.bridge[c].slave
        /\ \A c \in DOMAIN n.bridge : c \in DOMAIN m.bridge \/ c = b
        /\ DOMAIN m.bridge \subseteq DOMAIN n.bridge /\ b \in DOMAIN n.bridge
    BY <1>2, <1>3, <1>5 DEF SameBridge
  <1>7. ASSUME NEW v \in m.tree PROVE Range(n.list[v]) = NodesOf(n, v)
    <2>1. Range(n.list[v]) = NodesOf(m, v) \cup (IF v = w THEN {Sla(b)} ELSE {})
                                           \cup (IF v = d THEN {Bri(b)} ELSE {})
      BY <1>1, <1>3, ListsListed DEF BothShift
    <2> DEFINE Masters(x) == {c \in DOMAIN x.bridge : x.bridge[c].master = v}
               Slaves(x)  == {c \in DOMAIN x.bridge : x.bridge[c].slave = v}
    <2>2. Masters(n) = Masters(m) \cup (IF v = d THEN {b} ELSE {})
      BY <1>3, <1>6
    <2>3. Slaves(n) = Slaves(m) \cup (IF v = w THEN {b} ELSE {})
      BY <1>3, <1>6
    <2>4. \A x : NodesOf(x, v) = {Peer(0), Peer(1)} \cup {Bri(c) : c \in Masters(x)}
                                                    \cup {Sla(c) : c \in Slaves(x)}
      BY DEF NodesOf
    <2> HIDE DEF Masters, Slaves
    <2>5. {Bri(c) : c \in Masters(n)} = {Bri(c) : c \in Masters(m)} \cup (IF v = d THEN {Bri(b)} ELSE {})
      BY <2>2
    <2>6. {Sla(c) : c \in Slaves(n)} = {Sla(c) : c \in Slaves(m)} \cup (IF v = w THEN {Sla(b)} ELSE {})
      BY <2>3
    <2>7. QED
      BY <2>1, <2>4, <2>5, <2>6
  <1>8. \A c \in DOMAIN n.bridge : {n.bridge[c].master, n.bridge[c].slave} \subseteq m.tree
    BY <1>1, <1>3, <1>6 DEF Lists
  <1>9. Lists(n)
    BY <1>1, <1>3, <1>4, <1>7, <1>8 DEF Lists, Listed
  <1>10. QED
    BY <1>2, <1>5, <1>9

\* The peers of the old bridges, and the last one's.
LEMMA OneMoreBridged ==
  ASSUME NEW m, NEW d, NEW p, Bridgeable(m, d, p), NEW n, OneMore(m, n, d, p)
  PROVE  /\ \A c \in DOMAIN m.bridge : BridgedPeer(n, c) = BridgedPeer(m, c)
         /\ BridgedPeer(n, Len(m.bridge) + 1) = p
  <1> DEFINE b == Len(m.bridge) + 1
             w == p[1]
  <1>1. m \in Memory /\ Lists(m) /\ d \in m.tree /\ p \in Points /\ w \in m.tree
    BY DEF Bridgeable
  <1>2. /\ Lists(n) /\ DOMAIN n.bridge = 1..b /\ DOMAIN m.bridge = 1..Len(m.bridge)
        /\ Len(m.bridge) \in Nat
    BY OneMoreLists
  <1>3. /\ n \in Memory /\ BothShift(m.list, n.list, m.tree, d, p, b)
        /\ \A c \in DOMAIN m.bridge : SameBridge(n.bridge[c], m.bridge[c])
        /\ n.bridge[b].slave = w
        /\ Place(n.list[w], Sla(b)) < Place(n.list[w], Peer(0)) <=> p[2] = 0
    BY DEF OneMore
  <1>4. ASSUME NEW c \in DOMAIN m.bridge PROVE BridgedPeer(n, c) = BridgedPeer(m, c)
    <2> DEFINE s == m.bridge[c].slave
    <2>1. /\ BridgedPeer(m, c) = <<s, Side(m, c)>> /\ s \in m.tree
          /\ Sla(c) \in Range(m.list[s])
      BY <1>1, BridgedIs
    <2>2. c \in DOMAIN n.bridge
      BY <1>2
    <2>3. BridgedPeer(n, c) = <<s, Side(n, c)>> /\ n.bridge[c].slave = s
      BY <1>2, <1>3, <2>2, BridgedIs DEF SameBridge
    <2>4. Peer(0) \in Range(m.list[s])
      BY <1>1, <2>1, ListsListed DEF Listed
    <2>5. Place(n.list[s], Sla(c)) < Place(n.list[s], Peer(0))
            <=> Place(m.list[s], Sla(c)) < Place(m.list[s], Peer(0))
      BY <1>3, <2>1, <2>4 DEF BothShift
    <2>6. Side(n, c) = Side(m, c)
      BY <2>3, <2>5 DEF Side
    <2>7. QED
      BY <2>1, <2>3, <2>6
  <1>5. BridgedPeer(n, b) = p
    <2>1. b \in DOMAIN n.bridge
      BY <1>2
    <2>2. BridgedPeer(n, b) = <<w, Side(n, b)>>
      BY <1>2, <1>3, <2>1, BridgedIs
    <2>3. Side(n, b) = 0 <=> p[2] = 0
      BY <1>3 DEF Side
    <2>4. Side(n, b) \in {0, 1} /\ p[2] \in {0, 1} /\ p = <<w, p[2]>>
      BY <1>1 DEF Side, Points
    <2>5. QED
      BY <2>2, <2>3, <2>4
  <1>6. QED
    BY <1>4, <1>5

\* Where the peers of the bridges stand, and what moved them.
LEMMA OneMoreMoved ==
  ASSUME NEW m, NEW d, NEW p, Bridgeable(m, d, p), NEW n, OneMore(m, n, d, p), Moved(m)
  PROVE  Moved(n)
  <1> DEFINE b == Len(m.bridge) + 1
             w == p[1]
  <1>1. /\ m \in Memory /\ Lists(m) /\ d \in m.tree /\ p \in Points /\ w \in m.tree
        /\ p[2] \in Ends /\ p = <<w, p[2]>>
    BY DEF Bridgeable, Points, Ends
  <1>2. /\ Lists(n) /\ DOMAIN n.bridge = 1..b /\ DOMAIN m.bridge = 1..Len(m.bridge)
        /\ Len(m.bridge) \in Nat
    BY OneMoreLists
  <1>3. /\ n \in Memory /\ BothShift(m.list, n.list, m.tree, d, p, b)
        /\ \A c \in DOMAIN m.bridge : SameBridge(n.bridge[c], m.bridge[c])
        /\ n.bridge[b].slave = w /\ n.bridge[b].master = d
        /\ n.bridge[b].point_index + 1 = Place(m.list[w], Peer(p[2])) + One(p[2] = 0)
    BY DEF OneMore
  <1>4. /\ \A c \in DOMAIN m.bridge : BridgedPeer(n, c) = BridgedPeer(m, c)
        /\ BridgedPeer(n, b) = p
    BY OneMoreBridged
  <1>5. \A v \in m.tree, e \in Ends : Place(m.list[v], Peer(e)) \in Nat \ {0}
    <2> TAKE v \in m.tree, e \in Ends
    <2>1. Peer(e) \in Range(m.list[v]) /\ Listed(m.list, m.tree)
      BY <1>1, ListsListed DEF Listed, Ends
    <2>2. Place(m.list[v], Peer(e)) \in 1..Len(m.list[v])
      BY <2>1, PlaceIn
    <2>3. QED
      BY <2>2
  <1>6. \A c \in DOMAIN n.bridge : n.bridge[c].point_index \in Int
    <2>1. \A c \in DOMAIN n.bridge : n.bridge[c] \in BridgeRec
      BY <1>2, <1>3, ListsListed
    <2>2. QED
      BY <2>1 DEF BridgeRec
  <1>7. \A v \in m.tree, e \in Ends :
          Place(n.list[v], Peer(e)) = Place(m.list[v], Peer(e)) + One(MovesFirst(v, p))
                                                                + One(e = 1 /\ v = d)
    <2> TAKE v \in m.tree, e \in Ends
    <2>1. CASE e = 0
      <3>1. Place(n.list[v], Peer(0)) = Place(m.list[v], Peer(0)) + One(MovesFirst(v, p))
        BY <1>3 DEF BothShift
      <3>2. One(e = 1 /\ v = d) = 0 /\ One(MovesFirst(v, p)) \in Nat
        BY <2>1 DEF One
      <3>3. Place(m.list[v], Peer(0)) \in Nat
        BY <1>5, <2>1
      <3>4. QED
        BY <2>1, <3>1, <3>2, <3>3
    <2>2. CASE e = 1
      <3>1. Place(n.list[v], Peer(1)) = Place(m.list[v], Peer(1)) + One(MovesFirst(v, p)) + One(v = d)
        BY <1>3 DEF BothShift
      <3>2. One(e = 1 /\ v = d) = One(v = d)
        BY <2>2 DEF One
      <3>3. QED
        BY <2>2, <3>1, <3>2
    <2>3. QED
      BY <2>1, <2>2 DEF Ends
  <1>8. ASSUME NEW a \in DOMAIN n.bridge
        PROVE  /\ n.bridge[a].point_index >= 0
               /\ IF \E c \in DOMAIN n.bridge : MovesIn(n, c, a)
                  THEN n.bridge[a].point_index + 1 < PeerPlace(n, a)
                  ELSE n.bridge[a].point_index + 1 = PeerPlace(n, a)
    <2>1. CASE a = b
      <3>1. PeerPlace(n, a) = Place(n.list[w], Peer(p[2]))
        BY <1>4, <2>1 DEF PeerPlace
      <3>2. (\E c \in DOMAIN n.bridge : MovesIn(n, c, a)) <=> p[2] = 1 /\ d = w
        <4>1. \A c \in DOMAIN n.bridge : MovesIn(n, c, a) <=> c = b /\ p[2] = 1 /\ d = w
          BY <1>2, <1>3, <1>4, <2>1 DEF MovesIn
        <4>2. b \in DOMAIN n.bridge
          BY <1>2
        <4>3. QED
          BY <4>1, <4>2
      <3>3. /\ Place(n.list[w], Peer(p[2])) = Place(m.list[w], Peer(p[2])) + One(MovesFirst(w, p))
                                                + One(p[2] = 1 /\ w = d)
            /\ Place(m.list[w], Peer(p[2])) \in Nat \ {0}
        BY <1>1, <1>5, <1>7
      <3>4. One(MovesFirst(w, p)) = One(p[2] = 0)
        BY DEF One, MovesFirst
      <3>5. n.bridge[a].point_index \in Int
        BY <1>6
      <3>6. QED
        BY <1>3, <2>1, <3>1, <3>2, <3>3, <3>4, <3>5 DEF One
    <2>2. CASE a # b
      <3>1. a \in DOMAIN m.bridge /\ a \in 1..Len(m.bridge)
        BY <1>2, <2>2
      <3> DEFINE q == BridgedPeer(m, a)
      <3>2. /\ q \in Points /\ q[1] \in m.tree /\ q[2] \in Ends /\ BridgedPeer(n, a) = q
            /\ n.bridge[a].point_index = m.bridge[a].point_index
        <4>1. q \in Points /\ q[1] \in m.tree
          BY <1>1, <3>1, BridgedIs
        <4>2. q[2] \in Ends
          BY <4>1 DEF Points, Ends
        <4>3. QED
          BY <1>3, <1>4, <3>1, <4>1, <4>2 DEF SameBridge
      <3> HIDE DEF q
      <3>3. \A c \in DOMAIN m.bridge : MovesIn(n, c, a) <=> MovesIn(m, c, a)
        BY <1>3, <1>4, <3>1 DEF MovesIn, SameBridge
      <3>4. MovesIn(n, b, a) <=> MovesFirst(q[1], p) \/ (q[2] = 1 /\ q[1] = d)
        <4>1. b > a /\ b >= a
          BY <1>2, <3>1
        <4>2. p = <<q[1], 0>> <=> MovesFirst(q[1], p)
          BY <1>1 DEF MovesFirst
        <4>3. QED
          <5>1. MovesIn(n, b, a) <=> \/ b > a /\ p = <<q[1], 0>>
                                     \/ b >= a /\ q[2] = 1 /\ n.bridge[b].master = q[1]
            BY <1>4, <3>2 DEF MovesIn
          <5>2. QED
            BY <1>3, <4>1, <4>2, <5>1
      <3>5. (\E c \in DOMAIN n.bridge : MovesIn(n, c, a))
              <=> (\E c \in DOMAIN m.bridge : MovesIn(m, c, a)) \/ MovesIn(n, b, a)
        <4>1. /\ \A c \in DOMAIN n.bridge : c \in DOMAIN m.bridge \/ c = b
              /\ b \in DOMAIN n.bridge /\ DOMAIN m.bridge \subseteq DOMAIN n.bridge
          BY <1>2
        <4>2. QED
          BY <3>3, <4>1
      <3>6. /\ PeerPlace(m, a) = Place(m.list[q[1]], Peer(q[2]))
            /\ PeerPlace(n, a) = Place(n.list[q[1]], Peer(q[2]))
        BY <3>2 DEF PeerPlace, q
      <3>7. /\ PeerPlace(n, a) = PeerPlace(m, a) + One(MovesFirst(q[1], p)) + One(q[2] = 1 /\ q[1] = d)
            /\ PeerPlace(m, a) \in Nat
        BY <1>5, <1>7, <3>2, <3>6
      <3>8. /\ m.bridge[a].point_index >= 0 /\ m.bridge[a].point_index \in Int
            /\ IF \E c \in DOMAIN m.bridge : MovesIn(m, c, a)
               THEN m.bridge[a].point_index + 1 < PeerPlace(m, a)
               ELSE m.bridge[a].point_index + 1 = PeerPlace(m, a)
        BY <1>6, <3>1, <3>2 DEF Moved
      <3>9. QED
        <4> DEFINE Before == \E c \in DOMAIN m.bridge : MovesIn(m, c, a)
                   Now    == MovesFirst(q[1], p) \/ (q[2] = 1 /\ q[1] = d)
                   After  == \E c \in DOMAIN n.bridge : MovesIn(n, c, a)
        <4>1. After <=> Before \/ Now
          BY <3>4, <3>5
        <4>2. IF Now THEN PeerPlace(n, a) > PeerPlace(m, a) ELSE PeerPlace(n, a) = PeerPlace(m, a)
          BY <3>7 DEF One
        <4>3. PeerPlace(n, a) \in Nat
          BY <3>7 DEF One
        <4>4. IF Before THEN m.bridge[a].point_index + 1 < PeerPlace(m, a)
              ELSE m.bridge[a].point_index + 1 = PeerPlace(m, a)
          BY <3>8
        <4> HIDE DEF Before, Now, After
        <4>5. IF After THEN n.bridge[a].point_index + 1 < PeerPlace(n, a)
              ELSE n.bridge[a].point_index + 1 = PeerPlace(n, a)
          BY <3>2, <3>7, <3>8, <4>1, <4>2, <4>3, <4>4
        <4>6. QED
          BY <3>2, <3>8, <4>5 DEF After
    <2>3. QED
      BY <2>1, <2>2
  <1>9. QED
    BY <1>8 DEF Moved

-----------------------------------------------------------------------------
(* Steps that leave the lists alone.                                       *)

\* Only the state of wireways and peers, addresses, entries and locations may differ.
SameLists(m, n) ==
  /\ n \in Memory /\ n.list = m.list /\ n.index = m.index /\ n.tree = m.tree
  /\ Len(n.bridge) = Len(m.bridge)
  /\ \A c \in DOMAIN m.bridge :
       /\ n.bridge[c].master = m.bridge[c].master /\ n.bridge[c].slave = m.bridge[c].slave
       /\ n.bridge[c].index = m.bridge[c].index /\ n.bridge[c].linked = m.bridge[c].linked
       /\ n.bridge[c].point_index = m.bridge[c].point_index
       /\ n.bridge[c].slave_point_index = m.bridge[c].slave_point_index

\* All that is said of the lists stays true.
LEMMA ListsKept ==
  ASSUME NEW m \in Memory, Lists(m), NEW n, SameLists(m, n),
         \A v \in Wires : n.state[v] = "none" <=> m.state[v] = "none"
  PROVE  /\ Lists(n) /\ DOMAIN n.bridge = DOMAIN m.bridge
         /\ Counted(m) => Counted(n)
         /\ Moved(m) => Moved(n)
         /\ \A c \in DOMAIN m.bridge : BridgedPeer(n, c) = BridgedPeer(m, c)
  <1>1. n \in Memory /\ n.list = m.list /\ n.index = m.index /\ n.tree = m.tree
    BY DEF SameLists
  <1>2. DOMAIN n.bridge = DOMAIN m.bridge
    <2>1. m.bridge \in Seq(BridgeRec) /\ n.bridge \in Seq(BridgeRec)
      BY <1>1 DEF Memory
    <2>2. QED
      BY <2>1 DEF SameLists
  <1>3. \A c \in DOMAIN m.bridge :
          /\ n.bridge[c].master = m.bridge[c].master /\ n.bridge[c].slave = m.bridge[c].slave
          /\ n.bridge[c].index = m.bridge[c].index
          /\ n.bridge[c].point_index = m.bridge[c].point_index
    BY DEF SameLists
  <1>4. \A c \in DOMAIN m.bridge : BridgedPeer(n, c) = BridgedPeer(m, c)
    <2>1. \A v, o : IndexOf(n, v, o) = IndexOf(m, v, o)
      BY <1>1 DEF IndexOf
    <2>2. QED
      BY <1>3, <2>1 DEF BridgedPeer
  <1>5. \A v : NodesOf(n, v) = NodesOf(m, v)
    <2> TAKE v
    <2>1. /\ {b \in DOMAIN n.bridge : n.bridge[b].master = v} = {b \in DOMAIN m.bridge : m.bridge[b].master = v}
          /\ {b \in DOMAIN n.bridge : n.bridge[b].slave = v} = {b \in DOMAIN m.bridge : m.bridge[b].slave = v}
      BY <1>2, <1>3
    <2>2. QED
      BY <2>1 DEF NodesOf
  <1>6. Lists(n)
    <2>1. m.tree \subseteq Wires
      BY DEF Memory
    <2>2. QED
      BY <1>1, <1>2, <1>3, <1>5, <2>1 DEF Lists
  <1>7. Counted(m) => Counted(n)
    BY <1>1, <1>2, <1>3 DEF Counted
  <1>8. Moved(m) => Moved(n)
    <2>1. \A b, c \in DOMAIN m.bridge : MovesIn(n, c, b) <=> MovesIn(m, c, b)
      BY <1>3, <1>4 DEF MovesIn
    <2>2. \A b \in DOMAIN m.bridge : PeerPlace(n, b) = PeerPlace(m, b)
      BY <1>1, <1>4 DEF PeerPlace
    <2>3. \A b \in DOMAIN m.bridge : (\E c \in DOMAIN n.bridge : MovesIn(n, c, b))
                                       <=> (\E c \in DOMAIN m.bridge : MovesIn(m, c, b))
      BY <1>2, <2>1
    <2>4. QED
      BY <1>2, <1>3, <2>2, <2>3 DEF Moved
  <1>9. QED
    BY <1>2, <1>4, <1>6, <1>7, <1>8

\* A bridge's index leads to its peer unless that was moved.
LEMMA FoundUnlessMoved ==
  ASSUME NEW m \in Memory, Lists(m), Moved(m), NEW b \in DOMAIN m.bridge
  PROVE  SlavePoint(m, b) # BridgedPeer(m, b) <=> \E c \in DOMAIN m.bridge : MovesIn(m, c, b)
  <1> DEFINE s == m.bridge[b].slave
             i == m.bridge[b].point_index
             e == Side(m, b)
  <1>1. /\ Listed(m.list, m.tree) /\ BridgedPeer(m, b) = <<s, e>> /\ s \in m.tree
        /\ Peer(e) \in Range(m.list[s]) /\ e \in Ends /\ s \in Wires /\ m.bridge[b] \in BridgeRec
    BY ListsListed, BridgedIs DEF Listed
  <1>2. i \in Int
    BY <1>1 DEF BridgeRec
  <1>3. /\ DOMAIN m.list[s] = 1..Len(m.list[s]) /\ Place(m.list[s], Peer(e)) \in DOMAIN m.list[s]
        /\ \A j \in DOMAIN m.list[s] : m.list[s][j] = Peer(e) <=> j = Place(m.list[s], Peer(e))
        /\ \A j \in DOMAIN m.list[s] : m.list[s][j] \in Nodes
    <2>1. Listed(m.list, m.tree) /\ s \in m.tree /\ Peer(e) \in Range(m.list[s])
      BY <1>1
    <2> HIDE DEF s, e
    <2>2. /\ Place(m.list[s], Peer(e)) \in 1..Len(m.list[s]) /\ m.list[s] \in Seq(Nodes)
          /\ DOMAIN m.list[s] = 1..Len(m.list[s])
          /\ \A j \in DOMAIN m.list[s] : m.list[s][j] = Peer(e) <=> j = Place(m.list[s], Peer(e))
      BY <2>1, PlaceIn
    <2>3. QED
      BY <2>2
  <1>4. PeerPlace(m, b) = Place(m.list[s], Peer(e))
    <2>1. PeerPlace(m, b) = Place(m.list[BridgedPeer(m, b)[1]], Peer(BridgedPeer(m, b)[2]))
      BY DEF PeerPlace
    <2>2. BridgedPeer(m, b)[1] = s /\ BridgedPeer(m, b)[2] = e
      BY <1>1
    <2>3. QED
      BY <2>1, <2>2
  <1>5. i + 1 = PeerPlace(m, b) <=> ~\E c \in DOMAIN m.bridge : MovesIn(m, c, b)
    <2> DEFINE Some == \E c \in DOMAIN m.bridge : MovesIn(m, c, b)
    <2>1. IF Some THEN i + 1 < PeerPlace(m, b) ELSE i + 1 = PeerPlace(m, b)
      <3>1. \A x \in DOMAIN m.bridge :
              IF \E c \in DOMAIN m.bridge : MovesIn(m, c, x)
              THEN m.bridge[x].point_index + 1 < PeerPlace(m, x)
              ELSE m.bridge[x].point_index + 1 = PeerPlace(m, x)
        BY DEF Moved
      <3>2. QED
        BY <3>1
    <2>2. PeerPlace(m, b) \in Nat
      <3>1. Place(m.list[s], Peer(e)) \in 1..Len(m.list[s])
        BY <1>3
      <3> HIDE DEF s, e
      <3>2. QED
        BY <1>4, <3>1
    <2> HIDE DEF Some, i
    <2>3. i + 1 = PeerPlace(m, b) <=> ~Some
      BY <1>2, <2>1, <2>2
    <2>4. QED
      BY <2>3 DEF Some, i
  <1>6. SlavePoint(m, b) = <<s, e>> <=> i + 1 = Place(m.list[s], Peer(e))
    <2>1. SlavePoint(m, b) = IF i + 1 \in DOMAIN m.list[s] /\ m.list[s][i + 1][1] = "peer"
                             THEN <<s, m.list[s][i + 1][2]>> ELSE NoPoint
      BY DEF SlavePoint, PeerAt
    <2>2. NoPoint # <<s, e>>
      BY <1>1 DEF NoPoint, NoWire, Wires
    <2>3. \A j \in DOMAIN m.list[s] :
            m.list[s][j] = Peer(e) <=> m.list[s][j][1] = "peer" /\ m.list[s][j][2] = e
      <3>1. ASSUME NEW t \in Nodes, NEW g PROVE t = <<"peer", g>> <=> t[1] = "peer" /\ t[2] = g
        BY DEF Nodes
      <3>2. QED
        BY <1>3, <3>1 DEF Peer
    <2> HIDE DEF s, i, e
    <2>4. CASE i + 1 \in DOMAIN m.list[s]
      BY <1>3, <2>1, <2>2, <2>3, <2>4
    <2>5. CASE i + 1 \notin DOMAIN m.list[s]
      BY <1>3, <2>1, <2>2, <2>5
    <2>6. QED
      BY <2>4, <2>5
  <1>7. QED
    BY <1>1, <1>4, <1>5, <1>6

-----------------------------------------------------------------------------
(* Who is joined with whom.                                                *)

\* A bridge makes the same peers reach the same ones when the lists are left alone.
LEMMA ReachesKept ==
  ASSUME NEW m, NEW n, NEW b \in Nat,
         \A c \in 1..b : /\ n.bridge[c].master = m.bridge[c].master
                         /\ n.bridge[c].linked = m.bridge[c].linked
                         /\ BridgedPeer(n, c) = BridgedPeer(m, c),
         NEW c \in 1..b, NEW x, NEW y
  PROVE  ReachesIn(n, c, x, y) <=> ReachesIn(m, c, x, y)
  BY DEF ReachesIn

\* Peers that are joined are active.
LEMMA JoinedActive ==
  ASSUME NEW m \in Memory, Lists(m), Stated(m), NEW x \in Points, NEW y \in Points, JoinedIn(m, x, y)
  PROVE  m.pstate[x] = "active" /\ m.pstate[y] = "active"
  <1>0. \A b \in DOMAIN m.bridge : /\ m.pstate[BridgedPeer(m, b)] = "active"
                                    /\ m.state[m.bridge[b].master] = "active"
    BY DEF Stated
  <1>1. ASSUME NEW v \in Wires, m.state[v] = "active", NEW q \in Points, q[1] = v
        PROVE  m.pstate[q] = "active"
    <2>1. q = <<v, q[2]>> /\ q[2] \in Ends
      BY <1>1 DEF Points, Ends
    <2>2. QED
      BY <1>1, <2>1 DEF Stated, StatedAt
  <1>2. CASE x # y /\ x[1] = y[1] /\ m.state[x[1]] = "active"
    <2>1. x[1] \in Wires
      BY DEF Points
    <2>2. QED
      BY <1>1, <1>2, <2>1
  <1>3. ASSUME NEW b \in DOMAIN m.bridge, NEW u \in Points, NEW v \in Points, ReachesIn(m, b, u, v)
        PROVE  m.pstate[u] = "active" /\ m.pstate[v] = "active"
    <2>1. /\ DOMAIN m.bridge = 1..Len(m.bridge) /\ Len(m.bridge) \in Nat
          /\ m.bridge[b].master \in Wires
      BY ListsListed DEF BridgeRec
    <2>2. m.pstate[u] = "active"
      BY <1>0, <1>3 DEF ReachesIn
    <2>3. CASE v[1] = m.bridge[b].master
      BY <1>0, <1>1, <2>1, <2>2, <2>3
    <2>4. CASE \E c \in 1..(b - 1) : m.bridge[c].master = m.bridge[b].master /\ BridgedPeer(m, c) = v
      <3>1. PICK c \in 1..(b - 1) : BridgedPeer(m, c) = v
        BY <2>4
      <3>2. c \in DOMAIN m.bridge
        BY <2>1
      <3>3. QED
        BY <1>0, <2>2, <3>1, <3>2
    <2>5. QED
      BY <1>3, <2>2, <2>3, <2>4 DEF ReachesIn
  <1>4. QED
    BY <1>2, <1>3 DEF JoinedIn

\* Entries are added between p and each of S, both ways.
Entries(n, p, S, x) ==
  (IF x = p THEN {<<n.addr[p], n.addr[y]>> : y \in S} ELSE {})
    \cup (IF x \in S THEN {<<n.addr[x], n.addr[p]>>} ELSE {})

\* In n, p is joined with each of S besides.
JoinedAlso(m, n, p, S) ==
  \A x, y \in Points : JoinedIn(n, x, y) <=> \/ JoinedIn(m, x, y)
                                             \/ x = p /\ y \in S
                                             \/ y = p /\ x \in S

\* What is right before is right after if p is joined with just these.
LEMMA EnteredMore ==
  ASSUME NEW m, NEW n, Entered(m), NEW p \in Points, NEW S \in SUBSET Points,
         JoinedAlso(m, n, p, S),
         \A x, y \in Points : JoinedIn(m, x, y) => n.addr[x] = m.addr[x] /\ n.addr[y] = m.addr[y],
         \A x \in Points : n.fib[x] = m.fib[x] \cup Entries(n, p, S, x)
  PROVE  Entered(n)
  <1> SUFFICES ASSUME NEW x \in Points PROVE n.fib[x] = EntriesOf(n, x)
    BY DEF Entered
  <1>1. m.fib[x] = {<<m.addr[x], m.addr[y]>> : y \in {y \in Points : JoinedIn(m, x, y)}}
    BY DEF Entered, EntriesOf
  <1>2. m.fib[x] = {<<n.addr[x], n.addr[y]>> : y \in {y \in Points : JoinedIn(m, x, y)}}
    BY <1>1
  <1>3. Entries(n, p, S, x) = {<<n.addr[x], n.addr[y]>> :
                                 y \in {y \in Points : (x = p /\ y \in S) \/ (y = p /\ x \in S)}}
    BY DEF Entries
  <1>4. EntriesOf(n, x) = {<<n.addr[x], n.addr[y]>> : y \in {y \in Points : JoinedIn(m, x, y)}}
          \cup {<<n.addr[x], n.addr[y]>> : y \in {y \in Points : (x = p /\ y \in S) \/ (y = p /\ x \in S)}}
    BY DEF EntriesOf, JoinedAlso
  <1>5. QED
    BY <1>2, <1>3, <1>4

-----------------------------------------------------------------------------
(* A peer is activated.                                                    *)

\* The other peer of the wireway.
Other(p) == <<p[1], 1 - p[2]>>

\* Whom a peer that is activated is linked with.
OtherIf(m, p) == IF m.state[p[1]] = "attaching" THEN {Other(p)} ELSE {}

\* Linked adds just those entries.
LEMMA LinkedIs ==
  ASSUME NEW m \in Memory, NEW p \in Points, NEW S \in SUBSET Points
  PROVE  LET n == Linked(m, p, S)
         IN /\ n \in Memory /\ SameLists(m, n)
            /\ n.state = m.state /\ n.pstate = m.pstate /\ n.addr = m.addr /\ n.bridge = m.bridge
            /\ \A x \in Points : n.fib[x] = m.fib[x] \cup Entries(m, p, S, x)
  <1> DEFINE fib == [x \in Points |->
                       m.fib[x] \cup (IF x = p THEN {<<m.addr[p], m.addr[y]>> : y \in S} ELSE {})
                                \cup (IF x \in S THEN {<<m.addr[x], m.addr[p]>>} ELSE {})]
             n == Linked(m, p, S)
  <1>1. m.addr \in [Points -> Addrs] /\ m.fib \in [Points -> SUBSET (Addrs \X Addrs)]
    BY DEF Memory
  <1>2. fib \in [Points -> SUBSET (Addrs \X Addrs)]
    BY <1>1
  <1>3. \A x \in Points : fib[x] = m.fib[x] \cup Entries(m, p, S, x)
    BY DEF Entries
  <1>4. n = [m EXCEPT !.fib = fib]
    BY DEF Linked
  <1> HIDE DEF fib, n
  <1>5. /\ n \in Memory /\ n.fib = fib /\ n.list = m.list /\ n.index = m.index /\ n.tree = m.tree
        /\ n.state = m.state /\ n.pstate = m.pstate /\ n.addr = m.addr /\ n.bridge = m.bridge
    BY <1>2, <1>4 DEF Memory
  <1>6. SameLists(m, n)
    BY <1>5 DEF SameLists
  <1>7. QED
    BY <1>3, <1>5, <1>6 DEF n

\* The first peer makes a wireway attaching, the second makes it active and is linked.
ActivatedTo(m, n, p) ==
  /\ n \in Memory /\ SameLists(m, n) /\ n.addr = m.addr /\ n.bridge = m.bridge
  /\ n.pstate = [m.pstate EXCEPT ![p] = "active"]
  /\ n.state = [m.state EXCEPT ![p[1]] = NextState(@)]
  /\ NextState(m.state[p[1]]) = IF m.state[p[1]] = "init" THEN "attaching" ELSE "active"
  /\ \A x \in Points : n.fib[x] = m.fib[x] \cup Entries(m, p, OtherIf(m, p), x)

\* p's wireway has no bridges to look at: p is linked with the other peer.
LEMMA ActivatedIs ==
  ASSUME NEW m \in Memory, NEW p \in Points, m.state[p[1]] \in {"init", "attaching"}
  PROVE  ActivatedTo(m, Activated(m, p), p)
  <1> DEFINE w  == p[1]
             m1 == [m EXCEPT !.pstate[p] = "active", !.state[w] = NextState(@)]
             n  == Activated(m, p)
  <1>1. w \in Wires /\ p = <<w, p[2]>> /\ p[2] \in {0, 1}
    BY DEF Points
  <1>2. NextState(m.state[w]) = IF m.state[w] = "init" THEN "attaching" ELSE "active"
    BY DEF NextState
  <1>3. /\ m1 \in Memory /\ m1.list = m.list /\ m1.index = m.index /\ m1.tree = m.tree
        /\ m1.bridge = m.bridge /\ m1.addr = m.addr /\ m1.fib = m.fib
        /\ m1.pstate = [m.pstate EXCEPT ![p] = "active"]
        /\ m1.state = [m.state EXCEPT ![w] = NextState(@)]
    <2>1. m.pstate \in [Points -> {"idle", "active"}]
          /\ m.state \in [Wires -> {"none", "init", "attaching", "active"}]
      BY DEF Memory
    <2>2. /\ [m.pstate EXCEPT ![p] = "active"] \in [Points -> {"idle", "active"}]
          /\ [m.state EXCEPT ![w] = NextState(@)] \in [Wires -> {"none", "init", "attaching", "active"}]
      BY <1>1, <1>2, <2>1
    <2>3. QED
      BY <2>2 DEF Memory
  <1>4. n = IF m.state[w] = "attaching" THEN UpdateFib(m1, p, w) ELSE m1
    BY DEF Activated
  <1>5. Targets(m1, p, w) = {Other(p)} /\ Other(p) \in Points
    <2>1. Passed(m1, p, w) = {}
      BY DEF Passed
    <2>2. {<<w, 0>>, <<w, 1>>} \ {p} = {Other(p)} /\ Other(p) \in Points
      BY <1>1 DEF Other, Points
    <2>3. QED
      BY <2>1, <2>2 DEF Targets
  <1> HIDE DEF m1, n
  <1>6. CASE m.state[w] = "attaching"
    <2>1. n = Linked(m1, p, {Other(p)})
      BY <1>4, <1>5, <1>6 DEF UpdateFib
    <2>2. /\ n \in Memory /\ SameLists(m1, n)
          /\ n.state = m1.state /\ n.pstate = m1.pstate /\ n.addr = m1.addr /\ n.bridge = m1.bridge
          /\ \A x \in Points : n.fib[x] = m1.fib[x] \cup Entries(m1, p, {Other(p)}, x)
      BY <1>3, <1>5, <2>1, LinkedIs
    <2>3. SameLists(m, n)
      BY <1>3, <2>2 DEF SameLists
    <2>4. \A x \in Points : n.fib[x] = m.fib[x] \cup Entries(m, p, OtherIf(m, p), x)
      BY <1>3, <1>6, <2>2 DEF Entries, OtherIf
    <2>5. QED
      BY <1>2, <1>3, <2>2, <2>3, <2>4 DEF n, ActivatedTo
  <1>7. CASE m.state[w] # "attaching"
    <2>1. n = m1
      BY <1>4, <1>7
    <2>2. SameLists(m, n)
      BY <1>3, <2>1 DEF SameLists
    <2>3. \A x \in Points : Entries(m, p, OtherIf(m, p), x) = {}
      BY <1>7 DEF Entries, OtherIf
    <2>4. QED
      BY <1>2, <1>3, <2>1, <2>2, <2>3 DEF n, ActivatedTo
  <1>8. QED
    BY <1>6, <1>7

\* What becomes of wireway v.
Turned(m, n, p, v) ==
  /\ StatedAt(n, v)
  /\ n.state[v] = "none" <=> m.state[v] = "none"
  /\ m.state[v] = "active" => n.state[v] = "active"
  /\ n.state[v] = "active" <=> \/ m.state[v] = "active"
                               \/ v = p[1] /\ m.state[v] = "attaching"
  /\ \A q \in Points : m.pstate[q] = "active" => n.pstate[q] = "active"

\* The states still count the active peers.
LEMMA ActivatedStated ==
  ASSUME NEW m, NEW n, NEW p \in Points, m \in Memory, Stated(m),
         m.pstate[p] = "idle", m.state[p[1]] \in {"init", "attaching"},
         n.pstate = [m.pstate EXCEPT ![p] = "active"],
         n.state = [m.state EXCEPT ![p[1]] = IF m.state[p[1]] = "init" THEN "attaching" ELSE "active"],
         NEW v \in Wires
  PROVE  Turned(m, n, p, v)
  <1>1. /\ m.pstate \in [Points -> {"idle", "active"}]
        /\ m.state \in [Wires -> {"none", "init", "attaching", "active"}]
        /\ p[1] \in Wires /\ p = <<p[1], p[2]>> /\ p[2] \in Ends
        /\ \A e \in Ends : <<v, e>> \in Points /\ 1 - e \in Ends
    BY DEF Memory, Points, Ends
  <1>2. \A q \in Points : n.pstate[q] = IF q = p THEN "active" ELSE m.pstate[q]
    BY <1>1
  <1>3. n.state[v] = IF v = p[1] THEN (IF m.state[v] = "init" THEN "attaching" ELSE "active")
                     ELSE m.state[v]
    BY <1>1
  <1>4. /\ m.state[v] \in {"none", "init"} => \A e \in Ends : m.pstate[<<v, e>>] = "idle"
        /\ m.state[v] = "attaching" =>
             \E e \in Ends : m.pstate[<<v, e>>] = "active" /\ m.pstate[<<v, 1 - e>>] = "idle"
        /\ m.state[v] = "active" => \A e \in Ends : m.pstate[<<v, e>>] = "active"
    BY DEF Stated, StatedAt
  <1>5. CASE v # p[1]
    <2>1. \A e \in Ends : <<v, e>> # p
      BY <1>1, <1>5
    <2>2. n.state[v] = m.state[v] /\ \A e \in Ends : n.pstate[<<v, e>>] = m.pstate[<<v, e>>]
      BY <1>1, <1>2, <1>3, <1>5, <2>1
    <2>3. QED
      BY <1>1, <1>2, <1>4, <1>5, <2>2 DEF Turned, StatedAt
  <1>6. CASE v = p[1] /\ m.state[v] = "init"
    <2>1. n.state[v] = "attaching"
      BY <1>3, <1>6
    <2>2. /\ p = <<v, p[2]>> /\ n.pstate[<<v, p[2]>>] = "active"
          /\ n.pstate[<<v, 1 - p[2]>>] = "idle"
      <3>1. <<v, 1 - p[2]>> # p /\ <<v, 1 - p[2]>> \in Points /\ 1 - p[2] \in Ends
        BY <1>1, <1>6 DEF Ends
      <3>2. QED
        BY <1>1, <1>2, <1>4, <1>6, <3>1
    <2>3. QED
      BY <1>1, <1>2, <1>6, <2>1, <2>2 DEF Turned, StatedAt
  <1>7. CASE v = p[1] /\ m.state[v] = "attaching"
    <2>1. n.state[v] = "active"
      BY <1>3, <1>7
    <2>2. PICK e \in Ends : m.pstate[<<v, e>>] = "active" /\ m.pstate[<<v, 1 - e>>] = "idle"
      BY <1>4, <1>7
    <2>3. e # p[2]
      BY <1>1, <1>7, <2>2
    <2>4. \A g \in Ends : g = e \/ g = p[2]
      BY <1>1, <2>3 DEF Ends
    <2>5. \A g \in Ends : n.pstate[<<v, g>>] = "active"
      BY <1>1, <1>2, <1>7, <2>2, <2>4
    <2>6. QED
      BY <1>2, <1>7, <2>1, <2>5 DEF Turned, StatedAt
  <1>8. QED
    BY <1>5, <1>6, <1>7

-----------------------------------------------------------------------------
(* Records.                                                                *)

\* A node of a list is a peer, or belongs to a bridge of the wireway.
LEMMA NodeOf ==
  ASSUME NEW m \in Memory, Lists(m), NEW v \in m.tree, NEW i \in DOMAIN m.list[v]
  PROVE  \/ \E e \in Ends : m.list[v][i] = Peer(e)
         \/ \E b \in DOMAIN m.bridge : m.list[v][i] = Bri(b)
         \/ \E b \in DOMAIN m.bridge : m.list[v][i] = Sla(b)
  <1>1. m.list[v][i] \in NodesOf(m, v)
    BY ListsListed DEF Range
  <1>2. QED
    BY <1>1 DEF NodesOf, Ends

\* The descriptions of the three kinds of nodes.
LEMMA DescIs ==
  ASSUME NEW m, NEW v
  PROVE  /\ \A e : Desc(m, v, Peer(e)) = [type |-> "peer", state |-> m.pstate[<<v, e>>],
                                          addr |-> m.addr[<<v, e>>]]
         /\ \A b : Desc(m, v, Bri(b)) =
              [type |-> "bridge", wire |-> m.bridge[b].slave, location |-> m.bridge[b].location,
               slave_point_index |-> m.bridge[b].slave_point_index]
         /\ \A b : Desc(m, v, Sla(b)) =
              [type |-> "slave", wire |-> m.bridge[b].master,
               point_index |-> m.bridge[b].point_index, bridge_index |-> m.bridge[b].index]
  BY DEF Desc, Peer, Bri, Sla

\* Of the files, w's is written anew.
Rewritten(m, w, files, later) ==
  /\ DOMAIN later = Wires /\ SavedWire(m, later, w)
  /\ \A v \in Wires \ {w} : later[v] = files[v]

\* What is saved of w is what is in memory.
LEMMA SaveIs ==
  ASSUME NEW m \in Memory, Lists(m), NEW files, DOMAIN files = Wires, NEW w \in m.tree
  PROVE  Rewritten(m, w, files, Save(m, w, files))
  <1> DEFINE now == Save(m, w, files)
  <1>1. w \in Wires /\ DOMAIN m.list[w] = 1..Len(m.list[w]) /\ Len(m.list[w]) \in Nat
    BY ListsListed DEF Memory, Listed
  <1>2. /\ DOMAIN now = Wires /\ now[w] = Record(m, w)
        /\ \A v \in Wires \ {w} : now[v] = files[v]
    BY <1>1 DEF Save
  <1>3. /\ now[w].state = m.state[w] /\ Len(now[w].points) = Len(m.list[w])
        /\ \A i \in DOMAIN m.list[w] : now[w].points[i] = Desc(m, w, m.list[w][i])
    <2>1. /\ Record(m, w).state = m.state[w]
          /\ Record(m, w).points = [i \in 1..Len(m.list[w]) |-> Desc(m, w, m.list[w][i])]
      BY <1>1 DEF Record
    <2>2. QED
      BY <1>1, <1>2, <2>1
  <1> HIDE DEF now
  <1>4. ASSUME NEW i \in DOMAIN m.list[w]
        PROVE  SavedDesc(now[w].points[i], Desc(m, w, m.list[w][i]))
    <2>1. CASE \E e \in Ends : m.list[w][i] = Peer(e)
      <3>1. PICK e \in Ends : m.list[w][i] = Peer(e)
        BY <2>1
      <3>2. Desc(m, w, Peer(e)) = [type |-> "peer", state |-> m.pstate[<<w, e>>],
                                   addr |-> m.addr[<<w, e>>]]
        BY DescIs
      <3>3. Desc(m, w, Peer(e)).type = "peer"
        BY <3>2
      <3>4. QED
        BY <1>3, <3>1, <3>3 DEF SavedDesc, SameDesc
    <2>2. CASE \E b \in DOMAIN m.bridge : m.list[w][i] = Bri(b)
      <3>1. PICK b \in DOMAIN m.bridge : m.list[w][i] = Bri(b)
        BY <2>2
      <3>2. Desc(m, w, Bri(b)) =
              [type |-> "bridge", wire |-> m.bridge[b].slave, location |-> m.bridge[b].location,
               slave_point_index |-> m.bridge[b].slave_point_index]
        BY DescIs
      <3>3. Desc(m, w, Bri(b)).type = "bridge"
        BY <3>2
      <3>4. QED
        BY <1>3, <3>1, <3>3 DEF SavedDesc, SameDesc
    <2>3. CASE \E b \in DOMAIN m.bridge : m.list[w][i] = Sla(b)
      <3>1. PICK b \in DOMAIN m.bridge : m.list[w][i] = Sla(b)
        BY <2>3
      <3>2. m.bridge[b].index \in Int
        BY ListsListed DEF BridgeRec
      <3>3. QED
        <4>1. Desc(m, w, Sla(b)) =
                [type |-> "slave", wire |-> m.bridge[b].master,
                 point_index |-> m.bridge[b].point_index, bridge_index |-> m.bridge[b].index]
          BY DescIs
        <4> DEFINE r == Desc(m, w, Sla(b))
        <4>2. r.type = "slave" /\ r.bridge_index = m.bridge[b].index
          BY <4>1
        <4> HIDE DEF r
        <4>3. SavedDesc(r, r)
          BY <3>2, <4>2 DEF SavedDesc, SameDesc
        <4>4. QED
          BY <1>3, <3>1, <4>3 DEF r
    <2>4. QED
      BY <2>1, <2>2, <2>3, NodeOf
  <1>5. QED
    BY <1>2, <1>3, <1>4 DEF SavedWire, now, Rewritten

\* The record of v need not be written again when only indices of bridges of others grow.
LEMMA SavedLater ==
  ASSUME NEW m \in Memory, Lists(m), NEW v \in m.tree, NEW files, SavedWire(m, files, v),
         NEW later, later[v] = files[v], NEW n \in Memory,
         n.state[v] = m.state[v], n.list[v] = m.list[v],
         \A e \in Ends : n.pstate[<<v, e>>] = m.pstate[<<v, e>>] /\ n.addr[<<v, e>>] = m.addr[<<v, e>>],
         DOMAIN m.bridge \subseteq DOMAIN n.bridge,
         \A c \in DOMAIN m.bridge : SameBridge(n.bridge[c], m.bridge[c])
                                    /\ n.bridge[c].index >= m.bridge[c].index
  PROVE  SavedWire(n, later, v)
  <1>1. /\ later[v].state = n.state[v] /\ Len(later[v].points) = Len(n.list[v])
        /\ DOMAIN n.list[v] = DOMAIN m.list[v]
    BY DEF SavedWire
  <1>2. ASSUME NEW i \in DOMAIN m.list[v]
        PROVE  SavedDesc(later[v].points[i], Desc(n, v, n.list[v][i]))
    <2>1. SavedDesc(later[v].points[i], Desc(m, v, m.list[v][i]))
      BY DEF SavedWire
    <2>2. CASE \E e \in Ends : m.list[v][i] = Peer(e)
      <3>1. Desc(n, v, n.list[v][i]) = Desc(m, v, m.list[v][i])
        <4>1. PICK e \in Ends : m.list[v][i] = Peer(e)
          BY <2>2
        <4>2. Desc(m, v, Peer(e)) = [type |-> "peer", state |-> m.pstate[<<v, e>>],
                                        addr |-> m.addr[<<v, e>>]]
          BY DEF Desc, Peer
        <4>3. Desc(n, v, Peer(e)) = [type |-> "peer", state |-> n.pstate[<<v, e>>],
                                        addr |-> n.addr[<<v, e>>]]
          BY DEF Desc, Peer
        <4>4. QED
          BY <4>1, <4>2, <4>3
      <3>2. QED
        BY <2>1, <3>1
    <2>3. CASE \E b \in DOMAIN m.bridge : m.list[v][i] = Bri(b)
      <3>1. Desc(n, v, n.list[v][i]) = Desc(m, v, m.list[v][i])
        <4>1. PICK b \in DOMAIN m.bridge : m.list[v][i] = Bri(b)
          BY <2>3
        <4>2. Desc(m, v, Bri(b)) =
                   [type |-> "bridge", wire |-> m.bridge[b].slave, location |-> m.bridge[b].location,
                    slave_point_index |-> m.bridge[b].slave_point_index]
          BY DEF Desc, Bri
        <4>3. Desc(n, v, Bri(b)) =
                   [type |-> "bridge", wire |-> n.bridge[b].slave, location |-> n.bridge[b].location,
                    slave_point_index |-> n.bridge[b].slave_point_index]
          BY DEF Desc, Bri
        <4>4. SameBridge(n.bridge[b], m.bridge[b])
          OBVIOUS
        <4>5. Desc(n, v, Bri(b)) = Desc(m, v, Bri(b))
          BY <4>2, <4>3, <4>4 DEF SameBridge
        <4>6. QED
          BY <4>1, <4>5
      <3>2. QED
        BY <2>1, <3>1
    <2>4. CASE \E b \in DOMAIN m.bridge : m.list[v][i] = Sla(b)
      <3>1. PICK b \in DOMAIN m.bridge : m.list[v][i] = Sla(b)
        BY <2>4
      <3>2. m.bridge[b].index \in Int /\ n.bridge[b].index \in Int
        <4>1. b \in DOMAIN n.bridge
          OBVIOUS
        <4>2. \A c \in DOMAIN n.bridge : n.bridge[c] \in BridgeRec
          <5>1. n.bridge \in Seq(BridgeRec)
            BY DEF Memory
          <5>2. QED
            BY <5>1
        <4>3. QED
          BY <4>1, <4>2, ListsListed DEF BridgeRec
      <3>3. SameBridge(n.bridge[b], m.bridge[b]) /\ n.bridge[b].index >= m.bridge[b].index
        OBVIOUS
      <3>4. /\ Desc(m, v, m.list[v][i]) =
                 [type |-> "slave", wire |-> m.bridge[b].master,
                  point_index |-> m.bridge[b].point_index, bridge_index |-> m.bridge[b].index]
            /\ Desc(n, v, n.list[v][i]) =
                 [type |-> "slave", wire |-> m.bridge[b].master,
                  point_index |-> m.bridge[b].point_index, bridge_index |-> n.bridge[b].index]
        <4>1. Desc(m, v, Sla(b)) =
                   [type |-> "slave", wire |-> m.bridge[b].master,
                    point_index |-> m.bridge[b].point_index, bridge_index |-> m.bridge[b].index]
          BY DEF Desc, Sla
        <4>2. Desc(n, v, Sla(b)) =
                   [type |-> "slave", wire |-> n.bridge[b].master,
                    point_index |-> n.bridge[b].point_index, bridge_index |-> n.bridge[b].index]
          BY DEF Desc, Sla
        <4>3. n.list[v][i] = Sla(b) /\ m.list[v][i] = Sla(b)
          BY <3>1
        <4>4. /\ n.bridge[b].master = m.bridge[b].master
              /\ n.bridge[b].point_index = m.bridge[b].point_index
          BY <3>3 DEF SameBridge
        <4>5. QED
          BY <4>1, <4>2, <4>3, <4>4
      <3> DEFINE r == later[v].points[i]
      <3>5. /\ r.type = "slave" /\ r.wire = m.bridge[b].master
            /\ r.point_index = m.bridge[b].point_index
            /\ r.bridge_index <= m.bridge[b].index /\ r.bridge_index \in Int
        BY <2>1, <3>4 DEF SavedDesc, SameDesc
      <3> HIDE DEF r
      <3>6. r.bridge_index <= n.bridge[b].index
        BY <3>2, <3>3, <3>5
      <3>7. SavedDesc(r, Desc(n, v, n.list[v][i]))
        BY <3>4, <3>5, <3>6 DEF SavedDesc, SameDesc
      <3>8. QED
        BY <3>7 DEF r
    <2>5. QED
      BY <2>2, <2>3, <2>4, NodeOf
  <1>3. QED
    BY <1>1, <1>2 DEF SavedWire

-----------------------------------------------------------------------------
(* Wireways are created and attached.                                      *)

\* A bridge makes x and y reach each other.
Crossed(m, x, y) == \E b \in DOMAIN m.bridge : ReachesIn(m, b, x, y) \/ ReachesIn(m, b, y, x)
SameCrossed(m, n) == \A x, y \in Points : Crossed(n, x, y) <=> Crossed(m, x, y)

\* p's wireway turns active if it was attaching, no other does.
Activates(m, n, p) ==
  \A v \in Wires : n.state[v] = "active" <=> \/ m.state[v] = "active"
                                             \/ v = p[1] /\ m.state[v] = "attaching"

\* A wireway that turns active joins its two peers.
LEMMA JoinedGrows ==
  ASSUME NEW m, NEW n, NEW p \in Points, Activates(m, n, p), SameCrossed(m, n)
  PROVE  OtherIf(m, p) \in SUBSET Points /\ JoinedAlso(m, n, p, OtherIf(m, p))
  <1>1. Other(p) \in Points /\ p = <<p[1], p[2]>> /\ p[2] \in {0, 1} /\ p[1] \in Wires
    BY DEF Other, Points
  <1>2. OtherIf(m, p) \in SUBSET Points
    BY <1>1 DEF OtherIf
  <1>3. ASSUME NEW x \in Points, NEW y \in Points
        PROVE  JoinedIn(n, x, y) <=> \/ JoinedIn(m, x, y)
                                     \/ x = p /\ y \in OtherIf(m, p)
                                     \/ y = p /\ x \in OtherIf(m, p)
    <2>1. /\ JoinedIn(n, x, y) <=> (x # y /\ x[1] = y[1] /\ n.state[x[1]] = "active") \/ Crossed(n, x, y)
          /\ JoinedIn(m, x, y) <=> (x # y /\ x[1] = y[1] /\ m.state[x[1]] = "active") \/ Crossed(m, x, y)
      BY DEF JoinedIn, Crossed
    <2>2. Crossed(n, x, y) <=> Crossed(m, x, y)
      BY DEF SameCrossed
    <2>3. x[1] \in Wires /\ x = <<x[1], x[2]>> /\ y = <<y[1], y[2]>> /\ x[2] \in {0, 1} /\ y[2] \in {0, 1}
      BY DEF Points
    <2>4. x # y /\ x[1] = p[1] /\ y[1] = p[1] <=> \/ x = p /\ y = Other(p)
                                                  \/ y = p /\ x = Other(p)
      BY <1>1, <2>3 DEF Other
    <2>5. CASE m.state[p[1]] = "attaching"
      <3>1. OtherIf(m, p) = {Other(p)}
        BY <2>5 DEF OtherIf
      <3>2. n.state[x[1]] = "active" <=> m.state[x[1]] = "active" \/ x[1] = p[1]
        BY <2>3, <2>5 DEF Activates
      <3>3. QED
        BY <2>1, <2>2, <2>4, <3>1, <3>2
    <2>6. CASE m.state[p[1]] # "attaching"
      <3>1. OtherIf(m, p) = {}
        BY <2>6 DEF OtherIf
      <3>2. n.state[x[1]] = "active" <=> m.state[x[1]] = "active"
        BY <2>3, <2>6 DEF Activates
      <3>3. QED
        BY <2>1, <2>2, <3>1, <3>2
    <2>7. QED
      BY <2>5, <2>6
  <1>4. QED
    BY <1>2, <1>3 DEF JoinedAlso

\* The bridges of m and n are between the same peers and wireways.
SameEnds(m, n) ==
  /\ DOMAIN n.bridge = DOMAIN m.bridge
  /\ \A c \in DOMAIN m.bridge : /\ n.bridge[c].master = m.bridge[c].master
                                /\ n.bridge[c].linked = m.bridge[c].linked
                                /\ BridgedPeer(n, c) = BridgedPeer(m, c)

\* Bridges between the same peers reach the same ones.
LEMMA ReachSame ==
  ASSUME NEW m \in Memory, Lists(m), NEW n, SameEnds(m, n)
  PROVE  SameCrossed(m, n)
  <1> DEFINE b == Len(m.bridge)
  <1> USE DEF SameEnds
  <1>1. DOMAIN m.bridge = 1..b /\ DOMAIN n.bridge = 1..b /\ b \in Nat
    BY ListsListed
  <1>2. ASSUME NEW x, NEW y, NEW c \in 1..b
        PROVE  ReachesIn(n, c, x, y) <=> ReachesIn(m, c, x, y)
    BY <1>1, ReachesKept
  <1>3. QED
    BY <1>1, <1>2 DEF SameCrossed, Crossed

\* The unused peer is idle, and its wireway has one.
LEMMA UnusedIs ==
  ASSUME NEW m \in Memory, Lists(m), Stated(m), NEW w \in m.tree, Idle(m, w) # {}
  PROVE  /\ Unused(m, w) \in Points /\ Unused(m, w)[1] = w /\ m.pstate[Unused(m, w)] = "idle"
         /\ m.state[w] \in {"init", "attaching"}
  <1>1. w \in Wires /\ m.state[w] \in {"init", "attaching", "active"}
    <2>1. w \in Wires /\ m.state \in [Wires -> {"none", "init", "attaching", "active"}]
      BY DEF Memory
    <2>2. m.state[w] # "none"
      BY DEF Lists
    <2>3. QED
      BY <2>1, <2>2
  <1>2. m.pstate[Unused(m, w)] = "idle" /\ Unused(m, w) \in Points /\ Unused(m, w)[1] = w
    BY <1>1 DEF Unused, Idle, Points
  <1>3. m.state[w] # "active"
    BY <1>1, <1>2 DEF Unused, Stated, StatedAt, Ends
  <1>4. QED
    BY <1>1, <1>2, <1>3

\* attach_wireway.
LEMMA AttachStep ==
  ASSUME NEW m, NEW files, NEW gone, WireOk(m, files, gone), NEW w \in m.tree, Idle(m, w) # {},
         NEW p, p = Unused(m, w), NEW n, n = Activated([m EXCEPT !.addr[p] = p], p)
  PROVE  WireOk(n, Save(n, w, files), gone)
  <1> DEFINE m0 == [m EXCEPT !.addr[p] = p]
  <1>1. /\ m \in Memory /\ Lists(m) /\ Counted(m) /\ Moved(m) /\ Stated(m) /\ Saved(m, files)
        /\ gone \in BOOLEAN /\ (~gone => Entered(m))
    BY DEF WireOk
  <1>2. /\ p \in Points /\ p[1] = w /\ m.pstate[p] = "idle"
        /\ m.state[w] \in {"init", "attaching"} /\ w \in Wires
    <2>1. w \in Wires
      BY <1>1 DEF Memory
    <2>2. QED
      BY <1>1, <2>1, UnusedIs
  <1>3. /\ m0 \in Memory /\ SameLists(m, m0) /\ m0.bridge = m.bridge /\ m0.state = m.state
        /\ m0.pstate = m.pstate /\ m0.fib = m.fib
        /\ \A x \in Points : x # p => m0.addr[x] = m.addr[x]
    <2>1. m.addr \in [Points -> Addrs] /\ p \in Addrs
      BY <1>1, <1>2 DEF Memory, Addrs
    <2>2. [m.addr EXCEPT ![p] = p] \in [Points -> Addrs]
      BY <2>1
    <2>3. /\ m0 \in Memory /\ m0.bridge = m.bridge /\ m0.state = m.state /\ m0.list = m.list
          /\ m0.pstate = m.pstate /\ m0.fib = m.fib /\ m0.index = m.index /\ m0.tree = m.tree
          /\ m0.addr = [m.addr EXCEPT ![p] = p]
      BY <1>1, <2>2 DEF Memory
    <2> HIDE DEF m0
    <2>4. SameLists(m, m0)
      BY <2>3 DEF SameLists
    <2>5. QED
      BY <2>1, <2>3, <2>4
  <1>4. n = Activated(m0, p)
    OBVIOUS
  <1> HIDE DEF m0
  <1>5. /\ n \in Memory /\ SameLists(m0, n) /\ n.addr = m0.addr /\ n.bridge = m0.bridge
        /\ n.pstate = [m.pstate EXCEPT ![p] = "active"]
        /\ n.state = [m.state EXCEPT ![w] = IF m.state[w] = "init" THEN "attaching" ELSE "active"]
        /\ \A x \in Points : n.fib[x] = m.fib[x] \cup Entries(n, p, OtherIf(m, p), x)
    <2>0. m0.state[p[1]] \in {"init", "attaching"}
      BY <1>2, <1>3
    <2>1. ActivatedTo(m0, n, p)
      BY <1>2, <1>3, <1>4, <2>0, ActivatedIs
    <2>2. \A x : Entries(m0, p, OtherIf(m0, p), x) = Entries(n, p, OtherIf(m, p), x)
      BY <1>3, <2>1 DEF Entries, OtherIf, ActivatedTo
    <2>3. n.state = [m.state EXCEPT ![w] = IF m.state[w] = "init" THEN "attaching" ELSE "active"]
      BY <1>2, <1>3, <2>1 DEF ActivatedTo
    <2>4. QED
      BY <1>3, <2>1, <2>2, <2>3 DEF ActivatedTo
  <1>6. SameLists(m, n) /\ n.bridge = m.bridge
    BY <1>3, <1>5 DEF SameLists
  <1>7. /\ \A v \in Wires : /\ StatedAt(n, v)
                            /\ n.state[v] = "none" <=> m.state[v] = "none"
                            /\ m.state[v] = "active" => n.state[v] = "active"
                            /\ n.state[v] = "active" <=> \/ m.state[v] = "active"
                                                         \/ v = w /\ m.state[v] = "attaching"
        /\ \A q \in Points : m.pstate[q] = "active" => n.pstate[q] = "active"
    <2>1. \A v \in Wires : Turned(m, n, p, v)
      <3>1. /\ m \in Memory /\ Stated(m)
            /\ n.pstate = [m.pstate EXCEPT ![p] = "active"]
            /\ n.state = [m.state EXCEPT ![p[1]] =
                             IF m.state[p[1]] = "init" THEN "attaching" ELSE "active"]
            /\ p \in Points /\ m.pstate[p] = "idle" /\ m.state[p[1]] \in {"init", "attaching"}
        BY <1>1, <1>2, <1>5
      <3>2. QED
        BY <3>1, ActivatedStated
    <2>2. ASSUME NEW v \in Wires
          PROVE  /\ StatedAt(n, v)
                 /\ n.state[v] = "none" <=> m.state[v] = "none"
                 /\ m.state[v] = "active" => n.state[v] = "active"
                 /\ n.state[v] = "active" <=> \/ m.state[v] = "active"
                                              \/ v = w /\ m.state[v] = "attaching"
      <3>1. Turned(m, n, p, v) /\ p[1] = w
        BY <1>2, <2>1
      <3>2. QED
        BY <3>1 DEF Turned
    <2>3. \A q \in Points : m.pstate[q] = "active" => n.pstate[q] = "active"
      <3>1. Turned(m, n, p, w)
        BY <1>2, <2>1
      <3>2. QED
        BY <3>1 DEF Turned
    <2>4. QED
      BY <2>2, <2>3
  <1>8. /\ Lists(n) /\ DOMAIN n.bridge = DOMAIN m.bridge /\ Counted(n) /\ Moved(n)
        /\ \A c \in DOMAIN m.bridge : BridgedPeer(n, c) = BridgedPeer(m, c)
    BY <1>1, <1>6, <1>7, ListsKept
  <1>9. Stated(n)
    <2>1. \A b \in DOMAIN m.bridge : BridgedPeer(m, b) \in Points /\ m.bridge[b].master \in Wires
      BY <1>1, BridgedIs DEF Memory
    <2>2. QED
      BY <1>1, <1>6, <1>7, <1>8, <2>1 DEF Stated
  <1>10. ~gone => Entered(n)
    <2> SUFFICES ASSUME Entered(m) PROVE Entered(n)
      BY <1>1
    <2>1. SameCrossed(m, n)
      <3>1. SameEnds(m, n)
        BY <1>6, <1>8 DEF SameEnds
      <3>2. QED
        BY <1>1, <3>1, ReachSame
    <2>2. Activates(m, n, p)
      BY <1>2, <1>7 DEF Activates
    <2>3. OtherIf(m, p) \in SUBSET Points /\ JoinedAlso(m, n, p, OtherIf(m, p))
      BY <1>2, <2>1, <2>2, JoinedGrows
    <2>4. \A x, y \in Points : JoinedIn(m, x, y) => n.addr[x] = m.addr[x] /\ n.addr[y] = m.addr[y]
      <3> SUFFICES ASSUME NEW x \in Points, NEW y \in Points, JoinedIn(m, x, y)
                   PROVE  n.addr[x] = m.addr[x] /\ n.addr[y] = m.addr[y]
        OBVIOUS
      <3>1. m.pstate[x] = "active" /\ m.pstate[y] = "active"
        BY <1>1, JoinedActive
      <3>2. QED
        BY <1>2, <1>3, <1>5, <3>1
    <2>5. QED
      BY <1>2, <1>5, <2>3, <2>4, EnteredMore
  <1>11. Saved(n, Save(n, w, files))
    <2>1. n.tree = m.tree /\ n.list = m.list
      BY <1>6 DEF SameLists
    <2>2. /\ DOMAIN Save(n, w, files) = Wires /\ SavedWire(n, Save(n, w, files), w)
          /\ \A v \in Wires \ {w} : Save(n, w, files)[v] = files[v]
      <3>1. DOMAIN files = Wires /\ w \in n.tree /\ n \in Memory /\ Lists(n)
        BY <1>1, <1>5, <1>8, <2>1 DEF Saved
      <3>2. Rewritten(n, w, files, Save(n, w, files))
        BY <3>1, SaveIs
      <3>3. QED
        BY <3>2 DEF Rewritten
    <2>3. ASSUME NEW v \in m.tree, v # w PROVE SavedWire(n, Save(n, w, files), v)
      <3>1. v \in Wires /\ SavedWire(m, files, v) /\ Save(n, w, files)[v] = files[v]
        BY <1>1, <2>2, <2>3 DEF Saved, Memory
      <3>2. n.state[v] = m.state[v] /\ n.list[v] = m.list[v]
        <4>1. m.state \in [Wires -> {"none", "init", "attaching", "active"}]
          BY <1>1 DEF Memory
        <4>2. QED
          BY <1>2, <1>5, <2>1, <2>3, <3>1, <4>1
      <3>3. \A e \in Ends : /\ n.pstate[<<v, e>>] = m.pstate[<<v, e>>]
                            /\ n.addr[<<v, e>>] = m.addr[<<v, e>>]
        <4> TAKE e \in Ends
        <4>1. <<v, e>> \in Points /\ <<v, e>> # p
          BY <1>2, <2>3, <3>1 DEF Points, Ends
        <4>2. QED
          <5>1. m.pstate \in [Points -> {"idle", "active"}]
            BY <1>1 DEF Memory
          <5>2. QED
            BY <1>2, <1>3, <1>5, <4>1, <5>1
      <3>4. \A c \in DOMAIN m.bridge : SameBridge(n.bridge[c], m.bridge[c])
                                       /\ n.bridge[c].index >= m.bridge[c].index
        <4> TAKE c \in DOMAIN m.bridge
        <4>1. m.bridge[c].index \in Int
          BY <1>1, ListsListed DEF BridgeRec
        <4>2. QED
          BY <1>6, <4>1 DEF SameBridge
      <3>5. QED
        <4>1. /\ m \in Memory /\ Lists(m) /\ n \in Memory /\ DOMAIN m.bridge \subseteq DOMAIN n.bridge
              /\ SavedWire(m, files, v) /\ Save(n, w, files)[v] = files[v]
          BY <1>1, <1>5, <1>8, <3>1
        <4> DEFINE later == Save(n, w, files)
        <4> HIDE DEF later
        <4>2. later[v] = files[v]
          BY <4>1 DEF later
        <4>3. SavedWire(n, later, v)
          BY <3>2, <3>3, <3>4, <4>1, <4>2, SavedLater
        <4>4. QED
          BY <4>3 DEF later
    <2>4. QED
      BY <2>1, <2>2, <2>3 DEF Saved
  <1>12. QED
    BY <1>1, <1>5, <1>8, <1>9, <1>10, <1>11 DEF WireOk

\* create_wireway, of a wireway that is not in the tree.
LEMMA CreateStep ==
  ASSUME NEW m, NEW files, NEW gone, WireOk(m, files, gone), NEW w \in Wires, w \notin m.tree,
         NEW n, n = [m EXCEPT !.state[w] = "init", !.list[w] = <<<<"peer", 0>>, <<"peer", 1>>>>,
                              !.tree = @ \cup {w}]
  PROVE  WireOk(n, Save(n, w, files), gone)
  <1> DEFINE two == <<Peer(0), Peer(1)>>
  <1>1. /\ m \in Memory /\ Lists(m) /\ Counted(m) /\ Moved(m) /\ Stated(m) /\ Saved(m, files)
        /\ gone \in BOOLEAN /\ (~gone => Entered(m))
    BY DEF WireOk
  <1>2. /\ two \in Seq(Nodes) /\ DOMAIN two = {1, 2} /\ two[1] = Peer(0) /\ two[2] = Peer(1)
        /\ Peer(0) # Peer(1)
    BY DEF Nodes, Peer
  <1>3. /\ m.state \in [Wires -> {"none", "init", "attaching", "active"}]
        /\ m.list \in [Wires -> Seq(Nodes)] /\ m.tree \subseteq Wires
    BY <1>1 DEF Memory
  <1>4. /\ n \in Memory /\ n.pstate = m.pstate /\ n.addr = m.addr /\ n.fib = m.fib
        /\ n.index = m.index /\ n.bridge = m.bridge /\ n.tree = m.tree \cup {w}
        /\ n.state = [m.state EXCEPT ![w] = "init"] /\ n.list = [m.list EXCEPT ![w] = two]
    <2>1. n = [m EXCEPT !.state[w] = "init", !.list[w] = two, !.tree = @ \cup {w}]
      BY DEF Peer
    <2> HIDE DEF two
    <2>2. /\ [m.state EXCEPT ![w] = "init"] \in [Wires -> {"none", "init", "attaching", "active"}]
          /\ [m.list EXCEPT ![w] = two] \in [Wires -> Seq(Nodes)]
          /\ m.tree \cup {w} \in SUBSET Wires
      BY <1>2, <1>3
    <2> DEFINE state == [m.state EXCEPT ![w] = "init"]
               list  == [m.list EXCEPT ![w] = two]
               tree  == m.tree \cup {w}
    <2>3. /\ n = [m EXCEPT !.state = state, !.list = list, !.tree = tree]
      BY <1>1, <2>1 DEF Memory
    <2> HIDE DEF state, list, tree
    <2>4. /\ state \in [Wires -> {"none", "init", "attaching", "active"}]
          /\ list \in [Wires -> Seq(Nodes)] /\ tree \in SUBSET Wires
      BY <2>2 DEF state, list, tree
    <2>5. /\ n \in Memory /\ n.pstate = m.pstate /\ n.addr = m.addr /\ n.fib = m.fib
          /\ n.index = m.index /\ n.bridge = m.bridge
          /\ n.tree = tree /\ n.state = state /\ n.list = list
      BY <1>1, <2>3, <2>4 DEF Memory
    <2>6. QED
      BY <2>5 DEF state, list, tree
  <1>5. /\ Once(two) /\ Range(two) = {Peer(0), Peer(1)}
        /\ Place(two, Peer(0)) = 1 /\ Place(two, Peer(1)) = 2
    <2>1. Once(two) /\ Range(two) = {Peer(0), Peer(1)}
      BY <1>2 DEF Once, Range
    <2>2. Peer(0) \in Range(two) /\ Peer(1) \in Range(two)
      BY <2>1
    <2> HIDE DEF two
    <2>3. \A i \in DOMAIN two : two[i] = Peer(0) <=> i = Place(two, Peer(0))
      BY <2>1, <2>2, PlaceOf
    <2>4. \A i \in DOMAIN two : two[i] = Peer(1) <=> i = Place(two, Peer(1))
      BY <2>1, <2>2, PlaceOf
    <2>5. QED
      BY <1>2, <2>1, <2>3, <2>4
  <1> HIDE DEF two
  <1>6. /\ n.list[w] = two /\ n.state[w] = "init"
        /\ \A v \in Wires \ {w} : n.list[v] = m.list[v] /\ n.state[v] = m.state[v]
    BY <1>3, <1>4
  <1>7. \A b \in DOMAIN m.bridge :
          /\ m.bridge[b].master \in m.tree /\ m.bridge[b].slave \in m.tree
          /\ m.bridge[b].master # w /\ m.bridge[b].slave # w
          /\ m.bridge[b].master \in Wires /\ m.bridge[b].slave \in Wires
    BY <1>1, <1>3 DEF Lists
  <1>8. /\ Lists(n) /\ m.state[w] = "none"
    <2>1. NodesOf(n, w) = {Peer(0), Peer(1)}
      BY <1>4, <1>7 DEF NodesOf
    <2>2. \A v : NodesOf(n, v) = NodesOf(m, v)
      BY <1>4 DEF NodesOf
    <2>3. m.state[w] = "none"
      BY <1>1 DEF Lists
    <2>4. \A v \in n.tree : /\ n.state[v] # "none"
                            /\ Once(n.list[v]) /\ Range(n.list[v]) = NodesOf(n, v)
                            /\ Place(n.list[v], Peer(0)) < Place(n.list[v], Peer(1))
      <3> TAKE v \in n.tree
      <3>1. CASE v = w
        BY <1>5, <1>6, <2>1, <3>1
      <3>2. CASE v # w
        <4>1. v \in m.tree /\ v \in Wires \ {w}
          BY <1>3, <1>4, <3>2
        <4>2. QED
          BY <1>1, <1>6, <2>2, <4>1 DEF Lists
      <3>3. QED
        BY <3>1, <3>2
    <2>5. QED
      BY <1>1, <1>4, <1>6, <1>7, <2>3, <2>4 DEF Lists
  <1>9. Counted(n)
    <2>1. \A v \in Wires, e \in Ends : v \notin n.tree => n.index[<<v, e>>] = e
      BY <1>1, <1>4 DEF Counted
    <2>2. ASSUME NEW v \in n.tree, NEW e \in Ends
          PROVE  n.index[<<v, e>>] = Place(n.list[v], Peer(e)) - 1
      <3>1. CASE v = w
        <4>1. n.index[<<w, e>>] = e
          BY <1>1, <1>4 DEF Counted
        <4>2. QED
          BY <1>5, <1>6, <3>1, <4>1 DEF Ends
      <3>2. CASE v # w
        <4>1. v \in m.tree /\ v \in Wires \ {w}
          BY <1>3, <1>4, <3>2
        <4>2. QED
          BY <1>1, <1>4, <1>6, <4>1 DEF Counted
      <3>3. QED
        BY <3>1, <3>2
    <2>3. \A b \in DOMAIN n.bridge : n.bridge[b].index = Place(n.list[n.bridge[b].master], Bri(b)) - 1
      BY <1>1, <1>4, <1>6, <1>7 DEF Counted
    <2>4. QED
      BY <2>1, <2>2, <2>3 DEF Counted
  <1>10. \A b \in DOMAIN m.bridge : BridgedPeer(n, b) = BridgedPeer(m, b)
    <2> TAKE b \in DOMAIN m.bridge
    <2>1. \A o : IndexOf(n, m.bridge[b].slave, o) = IndexOf(m, m.bridge[b].slave, o)
      <3>1. n.list[m.bridge[b].slave] = m.list[m.bridge[b].slave]
        BY <1>6, <1>7
      <3>2. QED
        BY <3>1 DEF IndexOf
    <2>2. QED
      BY <1>4, <2>1 DEF BridgedPeer
  <1>11. Moved(n)
    <2>1. \A b, c \in DOMAIN m.bridge : MovesIn(n, c, b) <=> MovesIn(m, c, b)
      BY <1>4, <1>10 DEF MovesIn
    <2>2. \A b \in DOMAIN m.bridge : PeerPlace(n, b) = PeerPlace(m, b)
      <3> TAKE b \in DOMAIN m.bridge
      <3>1. BridgedPeer(m, b)[1] = m.bridge[b].slave
        BY <1>1, BridgedIs
      <3>2. QED
        BY <1>6, <1>7, <1>10, <3>1 DEF PeerPlace
    <2>3. \A b \in DOMAIN m.bridge : (\E c \in DOMAIN n.bridge : MovesIn(n, c, b))
                                       <=> (\E c \in DOMAIN m.bridge : MovesIn(m, c, b))
      BY <1>4, <2>1
    <2>4. QED
      BY <1>1, <1>4, <2>2, <2>3 DEF Moved
  <1>12. Stated(n)
    <2>1. ASSUME NEW v \in Wires PROVE StatedAt(n, v)
      <3>1. StatedAt(m, v)
        BY <1>1 DEF Stated
      <3>2. QED
        BY <1>4, <1>6, <1>8, <3>1 DEF StatedAt
    <2>2. \A b \in DOMAIN n.bridge : /\ n.pstate[BridgedPeer(n, b)] = "active"
                                     /\ n.state[n.bridge[b].master] = "active"
      BY <1>1, <1>4, <1>6, <1>7, <1>10 DEF Stated
    <2>3. QED
      BY <2>1, <2>2 DEF Stated
  <1>13. Entered(m) => Entered(n)
    <2>1. SameCrossed(m, n)
      <3>1. SameEnds(m, n)
        BY <1>4, <1>10 DEF SameEnds
      <3>2. m \in Memory /\ Lists(m)
        BY <1>1
      <3>3. QED
        BY <3>1, <3>2, ReachSame
    <2>2. ASSUME NEW x \in Points, NEW y \in Points PROVE JoinedIn(n, x, y) <=> JoinedIn(m, x, y)
      <3>1. x[1] \in Wires
        BY DEF Points
      <3>2. n.state[x[1]] = "active" <=> m.state[x[1]] = "active"
        BY <1>6, <1>8, <3>1
      <3>3. Crossed(n, x, y) <=> Crossed(m, x, y)
        BY <2>1 DEF SameCrossed
      <3>4. QED
        BY <3>2, <3>3 DEF JoinedIn, Crossed
    <2>3. \A x \in Points : EntriesOf(n, x) = EntriesOf(m, x)
      BY <1>4, <2>2 DEF EntriesOf
    <2>4. QED
      BY <1>4, <2>3 DEF Entered
  <1>14. Saved(n, Save(n, w, files))
    <2>1. /\ DOMAIN Save(n, w, files) = Wires /\ SavedWire(n, Save(n, w, files), w)
          /\ \A v \in Wires \ {w} : Save(n, w, files)[v] = files[v]
      <3>1. DOMAIN files = Wires /\ w \in n.tree
        BY <1>1, <1>4 DEF Saved
      <3>2. QED
        <4>1. n \in Memory /\ Lists(n)
          BY <1>4, <1>8
        <4>2. Rewritten(n, w, files, Save(n, w, files))
          BY <3>1, <4>1, SaveIs
        <4>3. QED
          BY <4>2 DEF Rewritten
    <2>2. ASSUME NEW v \in m.tree PROVE SavedWire(n, Save(n, w, files), v)
      <3>1. /\ v \in Wires \ {w} /\ SavedWire(m, files, v) /\ Save(n, w, files)[v] = files[v]
        BY <1>1, <1>3, <2>1 DEF Saved
      <3>2. \A c \in DOMAIN m.bridge : SameBridge(n.bridge[c], m.bridge[c])
                                       /\ n.bridge[c].index >= m.bridge[c].index
        <4> TAKE c \in DOMAIN m.bridge
        <4>1. m.bridge[c].index \in Int
          BY <1>1, ListsListed DEF BridgeRec
        <4>2. QED
          BY <1>4, <4>1 DEF SameBridge
      <3>3. n.state[v] = m.state[v] /\ n.list[v] = m.list[v]
        BY <1>6, <3>1
      <3>4. QED
        BY <1>1, <1>4, <3>1, <3>2, <3>3, SavedLater
    <2>3. QED
      BY <1>4, <2>1, <2>2 DEF Saved
  <1>15. QED
    BY <1>1, <1>4, <1>8, <1>9, <1>11, <1>12, <1>13, <1>14 DEF WireOk

-----------------------------------------------------------------------------
(* A peer is bridged.                                                      *)

\* n has the bridges of m and one of p to d.
Grown(m, n, d, p) ==
  LET b == Len(m.bridge) + 1
  IN /\ n \in Memory /\ Lists(n) /\ Counted(n) /\ Moved(n) /\ n.tree = m.tree
     /\ b \in Nat /\ DOMAIN n.bridge = 1..b /\ DOMAIN m.bridge = 1..(b - 1)
     /\ \A c \in DOMAIN m.bridge : /\ SameBridge(n.bridge[c], m.bridge[c])
                                   /\ n.bridge[c].index >= m.bridge[c].index
                                   /\ BridgedPeer(n, c) = BridgedPeer(m, c)
     /\ BridgedPeer(n, b) = p /\ n.bridge[b].master = d /\ n.bridge[b].slave = p[1]
     /\ n.bridge[b].linked = Links(m, p)
     /\ \A v \in Wires : v # p[1] /\ v # d => n.list[v] = m.list[v]

\* So it is when the bridge is made ...
LEMMA OneMoreGrown ==
  ASSUME NEW m, NEW d, NEW p, Bridgeable(m, d, p), Moved(m), NEW n, OneMore(m, n, d, p)
  PROVE  Grown(m, n, d, p)
  <1> DEFINE b == Len(m.bridge) + 1
  <1>1. /\ m \in Memory /\ Lists(m) /\ Counted(m)
        /\ n \in Memory /\ Lists(n) /\ Counted(n) /\ Moved(n) /\ n.tree = m.tree
        /\ b \in Nat /\ DOMAIN n.bridge = 1..b /\ DOMAIN m.bridge = 1..(b - 1)
    <2>1. DOMAIN m.bridge = 1..Len(m.bridge) /\ Len(m.bridge) \in Nat /\ Lists(n)
          /\ DOMAIN n.bridge = 1..(Len(m.bridge) + 1)
      BY OneMoreLists
    <2>2. Moved(n)
      BY OneMoreMoved
    <2>3. n \in Memory /\ Counted(n) /\ n.tree = m.tree
      BY DEF OneMore, SameRest
    <2>4. m \in Memory /\ Lists(m) /\ Counted(m)
      BY DEF Bridgeable
    <2>5. QED
      BY <2>1, <2>2, <2>3, <2>4
  <1>2. /\ \A c \in DOMAIN m.bridge : BridgedPeer(n, c) = BridgedPeer(m, c)
        /\ BridgedPeer(n, b) = p
    BY OneMoreBridged
  <1>3. /\ \A c \in DOMAIN m.bridge : SameBridge(n.bridge[c], m.bridge[c])
        /\ n.bridge[b].master = d /\ n.bridge[b].slave = p[1] /\ n.bridge[b].linked = Links(m, p)
        /\ \A v \in Wires : v # p[1] /\ v # d => n.list[v] = m.list[v]
        /\ BothShift(m.list, n.list, m.tree, d, p, b) /\ Listed(n.list, m.tree)
    BY DEF OneMore
  <1>4. ASSUME NEW c \in DOMAIN m.bridge PROVE n.bridge[c].index >= m.bridge[c].index
    <2> DEFINE v == m.bridge[c].master
               was == Place(m.list[v], Bri(c))
               is  == Place(n.list[v], Bri(c))
    <2>1. c \in Nat /\ c \in DOMAIN n.bridge /\ v \in m.tree
      BY <1>1 DEF Lists
    <2>2. Bri(c) \in Range(m.list[v])
      BY <1>1, <2>1, NodesIn
    <2>3. is >= was /\ Bri(c) \in Range(n.list[v])
      BY <1>3, <2>1, <2>2 DEF BothShift
    <2>4. was \in Nat /\ is \in Nat
      <3>1. was \in 1..Len(m.list[v])
        <4>1. Listed(m.list, m.tree)
          BY <1>1, ListsListed
        <4>2. QED
          BY <2>1, <2>2, <4>1, PlaceIn
      <3>2. is \in 1..Len(n.list[v])
        BY <1>3, <2>1, <2>3, PlaceIn
      <3>3. QED
        BY <3>1, <3>2
    <2>5. m.bridge[c].index = was - 1
      BY <1>1 DEF Counted
    <2>6. n.bridge[c].index = is - 1
      <3>1. n.bridge[c].master = v
        BY <1>3 DEF SameBridge
      <3>2. QED
        BY <1>1, <2>1, <3>1 DEF Counted
    <2> HIDE DEF was, is
    <2>7. QED
      BY <2>3, <2>4, <2>5, <2>6
  <1>5. QED
    BY <1>1, <1>2, <1>3, <1>4 DEF Grown

\* ... and after steps that leave the lists alone.
LEMMA SameGrown ==
  ASSUME NEW m, NEW k, NEW n, NEW d, NEW p, Grown(m, k, d, p), SameLists(k, n),
         \A v \in Wires : n.state[v] = "none" <=> k.state[v] = "none",
         \A c \in DOMAIN m.bridge : n.bridge[c].location = k.bridge[c].location
  PROVE  Grown(m, n, d, p)
  <1> DEFINE b == Len(m.bridge) + 1
  <1>1. /\ k \in Memory /\ Lists(k) /\ Counted(k) /\ Moved(k) /\ k.tree = m.tree
        /\ b \in Nat /\ DOMAIN k.bridge = 1..b /\ DOMAIN m.bridge = 1..(b - 1)
        /\ \A c \in DOMAIN m.bridge : /\ SameBridge(k.bridge[c], m.bridge[c])
                                      /\ k.bridge[c].index >= m.bridge[c].index
                                      /\ BridgedPeer(k, c) = BridgedPeer(m, c)
        /\ BridgedPeer(k, b) = p /\ k.bridge[b].master = d /\ k.bridge[b].slave = p[1]
        /\ k.bridge[b].linked = Links(m, p)
        /\ \A v \in Wires : v # p[1] /\ v # d => k.list[v] = m.list[v]
    BY DEF Grown
  <1>2. /\ Lists(n) /\ DOMAIN n.bridge = DOMAIN k.bridge /\ Counted(n) /\ Moved(n)
        /\ \A c \in DOMAIN k.bridge : BridgedPeer(n, c) = BridgedPeer(k, c)
    BY <1>1, ListsKept
  <1>3. n \in Memory /\ n.list = k.list /\ n.tree = k.tree
    BY DEF SameLists
  <1>4. \A c \in 1..b :
          /\ n.bridge[c].master = k.bridge[c].master /\ n.bridge[c].slave = k.bridge[c].slave
          /\ n.bridge[c].index = k.bridge[c].index /\ n.bridge[c].linked = k.bridge[c].linked
          /\ n.bridge[c].point_index = k.bridge[c].point_index
          /\ n.bridge[c].slave_point_index = k.bridge[c].slave_point_index
    BY <1>1 DEF SameLists
  <1>5. b \in 1..b /\ DOMAIN m.bridge \subseteq 1..b
    BY <1>1
  <1>6. \A c \in DOMAIN m.bridge : /\ SameBridge(n.bridge[c], m.bridge[c])
                                   /\ n.bridge[c].index >= m.bridge[c].index
                                   /\ BridgedPeer(n, c) = BridgedPeer(m, c)
    <2> TAKE c \in DOMAIN m.bridge
    <2>1. c \in 1..b /\ c \in DOMAIN k.bridge
      BY <1>1, <1>5
    <2>2. SameBridge(n.bridge[c], m.bridge[c])
      <3>1. SameBridge(k.bridge[c], m.bridge[c])
        BY <1>1
      <3>2. k.bridge[c].location = n.bridge[c].location
        BY <2>1 DEF SameLists
      <3>3. QED
        BY <1>4, <2>1, <3>1, <3>2 DEF SameBridge
    <2>3. n.bridge[c].index = k.bridge[c].index /\ k.bridge[c].index >= m.bridge[c].index
      BY <1>1, <1>4, <2>1
    <2>4. BridgedPeer(n, c) = BridgedPeer(k, c) /\ BridgedPeer(k, c) = BridgedPeer(m, c)
      BY <1>1, <1>2, <2>1
    <2>5. QED
      BY <2>2, <2>3, <2>4
  <1>7. /\ BridgedPeer(n, b) = p /\ n.bridge[b].master = d /\ n.bridge[b].slave = p[1]
        /\ n.bridge[b].linked = Links(m, p)
    BY <1>1, <1>2, <1>4, <1>5
  <1>8. n.tree = m.tree /\ DOMAIN n.bridge = 1..b
        /\ \A v \in Wires : v # p[1] /\ v # d => n.list[v] = m.list[v]
    BY <1>1, <1>2, <1>3
  <1> HIDE DEF b
  <1>9. QED
    BY <1>1, <1>2, <1>3, <1>6, <1>7, <1>8 DEF Grown, b

\* Of wireways and peers that the bridge does not join, states and addresses stay.
OthersStay(m, n, d, p) ==
  /\ \A v \in Wires : v # p[1] /\ v # d => n.state[v] = m.state[v]
  /\ \A q \in Points : q # p => n.pstate[q] = m.pstate[q] /\ n.addr[q] = m.addr[q]

\* Both wireways are saved, and nothing but the indices of bridges changed of the others.
LEMMA GrownSaved ==
  ASSUME NEW m \in Memory, Lists(m), NEW n, NEW d \in m.tree, NEW p \in Points, p[1] \in m.tree,
         Grown(m, n, d, p), NEW files, Saved(m, files), OthersStay(m, n, d, p)
  PROVE  Saved(n, Save(n, d, Save(n, p[1], files)))
  <1> DEFINE w     == p[1]
             mid   == Save(n, w, files)
             later == Save(n, d, mid)
  <1>1. /\ n \in Memory /\ Lists(n) /\ n.tree = m.tree /\ w \in n.tree /\ d \in n.tree
        /\ DOMAIN m.bridge \subseteq DOMAIN n.bridge /\ m.tree \subseteq Wires
        /\ \A c \in DOMAIN m.bridge : /\ SameBridge(n.bridge[c], m.bridge[c])
                                      /\ n.bridge[c].index >= m.bridge[c].index
        /\ \A v \in Wires : v # w /\ v # d => n.list[v] = m.list[v]
    BY DEF Grown, Memory
  <1>2. DOMAIN files = Wires
    BY DEF Saved
  <1>3. Rewritten(n, w, files, mid)
    BY <1>1, <1>2, SaveIs
  <1>4. Rewritten(n, d, mid, later)
    <2>1. DOMAIN mid = Wires
      BY <1>3 DEF Rewritten
    <2> HIDE DEF mid
    <2>2. QED
      BY <1>1, <2>1, SaveIs
  <1> HIDE DEF mid, later
  <1>5. ASSUME NEW v \in m.tree PROVE SavedWire(n, later, v)
    <2>0. v \in Wires
      BY <1>1
    <2>1. CASE v = d
      BY <1>4, <2>1 DEF Rewritten
    <2>2. CASE v # d /\ v = w
      <3>1. later[v] = mid[v] /\ SavedWire(n, mid, v)
        BY <1>3, <1>4, <2>0, <2>2 DEF Rewritten
      <3>2. QED
        BY <3>1 DEF SavedWire
    <2>3. CASE v # d /\ v # w
      <3>1. later[v] = files[v] /\ SavedWire(m, files, v)
        BY <1>3, <1>4, <2>0, <2>3 DEF Rewritten, Saved
      <3>2. \A e \in Ends : /\ n.pstate[<<v, e>>] = m.pstate[<<v, e>>]
                            /\ n.addr[<<v, e>>] = m.addr[<<v, e>>]
        <4> TAKE e \in Ends
        <4>1. <<v, e>> \in Points /\ <<v, e>> # p
          BY <2>0, <2>3 DEF Points, Ends
        <4>2. QED
          BY <4>1 DEF OthersStay
      <3>3. n.state[v] = m.state[v] /\ n.list[v] = m.list[v]
        BY <1>1, <2>0, <2>3 DEF OthersStay
      <3>4. QED
        BY <1>1, <3>1, <3>2, <3>3, SavedLater
    <2>4. QED
      BY <2>1, <2>2, <2>3
  <1>6. DOMAIN later = Wires
    BY <1>4 DEF Rewritten
  <1>7. QED
    BY <1>1, <1>5, <1>6 DEF Saved, later, mid

\* The bridges' peers and masters are active.
LEMMA GrownStated ==
  ASSUME NEW m \in Memory, Lists(m), Stated(m), NEW n, NEW d \in m.tree, NEW p \in Points,
         Grown(m, n, d, p), m.state[d] = "active", n.pstate[p] = "active",
         \A v \in Wires : StatedAt(n, v) /\ (m.state[v] = "active" => n.state[v] = "active"),
         \A q \in Points : m.pstate[q] = "active" => n.pstate[q] = "active"
  PROVE  Stated(n)
  <1> DEFINE b == Len(m.bridge) + 1
  <1>1. /\ \A c \in DOMAIN m.bridge : /\ n.bridge[c].master = m.bridge[c].master
                                      /\ BridgedPeer(n, c) = BridgedPeer(m, c)
        /\ BridgedPeer(n, b) = p /\ n.bridge[b].master = d
        /\ \A c \in DOMAIN n.bridge : c \in DOMAIN m.bridge \/ c = b
    BY DEF Grown, SameBridge
  <1>2. \A c \in DOMAIN m.bridge : BridgedPeer(m, c) \in Points /\ m.bridge[c].master \in Wires
    BY BridgedIs DEF Memory
  <1>3. d \in Wires
    BY DEF Memory
  <1>4. \A c \in DOMAIN m.bridge : /\ m.pstate[BridgedPeer(m, c)] = "active"
                                   /\ m.state[m.bridge[c].master] = "active"
    BY DEF Stated
  <1> HIDE DEF b
  <1>5. ASSUME NEW c \in DOMAIN n.bridge
        PROVE  n.pstate[BridgedPeer(n, c)] = "active" /\ n.state[n.bridge[c].master] = "active"
    <2>1. CASE c = b
      BY <1>1, <1>3, <2>1
    <2>2. CASE c \in DOMAIN m.bridge
      BY <1>1, <1>2, <1>4, <2>2
    <2>3. QED
      BY <1>1, <2>1, <2>2
  <1>6. QED
    BY <1>5 DEF Stated

\* Whom the last bridge lets p reach: the peers of d and those bridged to d before.
Reached(m, d, p) ==
  {y \in Points : /\ d # p[1] /\ y[1] # p[1]
                  /\ \/ y[1] = d
                     \/ \E c \in DOMAIN m.bridge : m.bridge[c].master = d /\ BridgedPeer(m, c) = y}

\* A bridge that is not linked joins nobody, one that is joins p with those.
LEMMA GrownCrossed ==
  ASSUME NEW m, NEW n, NEW d, NEW p \in Points, Grown(m, n, d, p), NEW x \in Points, NEW y \in Points
  PROVE  Crossed(n, x, y) <=> \/ Crossed(m, x, y)
                              \/ Links(m, p) /\ x = p /\ y \in Reached(m, d, p)
                              \/ Links(m, p) /\ y = p /\ x \in Reached(m, d, p)
  <1> DEFINE b == Len(m.bridge) + 1
  <1>1. /\ b \in Nat /\ DOMAIN n.bridge = 1..b /\ DOMAIN m.bridge = 1..(b - 1)
        /\ \A c \in DOMAIN m.bridge : /\ n.bridge[c].master = m.bridge[c].master
                                      /\ n.bridge[c].linked = m.bridge[c].linked
                                      /\ BridgedPeer(n, c) = BridgedPeer(m, c)
        /\ BridgedPeer(n, b) = p /\ n.bridge[b].master = d /\ n.bridge[b].linked = Links(m, p)
    BY DEF Grown, SameBridge
  <1> HIDE DEF b
  <1>2. ASSUME NEW u \in Points, NEW v \in Points, NEW c \in 1..(b - 1)
        PROVE  ReachesIn(n, c, u, v) <=> ReachesIn(m, c, u, v)
    <2>1. b - 1 \in Nat
      BY <1>1
    <2>2. QED
      BY <1>1, <2>1, ReachesKept
  <1>3. ASSUME NEW u \in Points, NEW v \in Points
        PROVE  ReachesIn(n, b, u, v) <=> Links(m, p) /\ u = p /\ v \in Reached(m, d, p)
    <2>1. (\E c \in 1..(b - 1) : n.bridge[c].master = d /\ BridgedPeer(n, c) = v)
            <=> (\E c \in DOMAIN m.bridge : m.bridge[c].master = d /\ BridgedPeer(m, c) = v)
      BY <1>1
    <2> DEFINE Before == \E c \in 1..(b - 1) : n.bridge[c].master = d /\ BridgedPeer(n, c) = v
    <2>2. v \in Reached(m, d, p) <=> d # p[1] /\ v[1] # p[1] /\ (v[1] = d \/ Before)
      BY <2>1 DEF Reached
    <2>3. ReachesIn(n, b, u, v) <=> /\ Links(m, p) /\ p = u /\ d # u[1]
                                    /\ v[1] = d \/ Before
                                    /\ v[1] # u[1]
      BY <1>1 DEF ReachesIn
    <2> HIDE DEF Before
    <2>4. QED
      BY <2>2, <2>3
  <1>4. Crossed(n, x, y) <=> \/ \E c \in 1..(b - 1) : ReachesIn(n, c, x, y) \/ ReachesIn(n, c, y, x)
                             \/ ReachesIn(n, b, x, y) \/ ReachesIn(n, b, y, x)
    <2>1. /\ \A c \in 1..b : c \in 1..(b - 1) \/ c = b
          /\ 1..(b - 1) \subseteq 1..b
      BY <1>1
    <2>2. b \in 1..b
      <3>1. Len(m.bridge) + 1 \in Nat /\ DOMAIN m.bridge = 1..Len(m.bridge) => b \in 1..b
        <4>1. b \in Nat
          BY <1>1
        <4>2. b # 0
          BY <1>1 DEF Grown, b
        <4>3. QED
          BY <4>1, <4>2
      <3>2. QED
        BY <1>1, <3>1 DEF b
    <2>3. QED
      BY <1>1, <2>1, <2>2 DEF Crossed
  <1>5. Crossed(m, x, y) <=> \E c \in 1..(b - 1) : ReachesIn(m, c, x, y) \/ ReachesIn(m, c, y, x)
    BY <1>1 DEF Crossed
  <1>6. QED
    BY <1>2, <1>3, <1>4, <1>5

\* What update_wireway_fib links p with, if every index leads to the peer that is meant.
LEMMA LinkTargets ==
  ASSUME NEW m \in Memory, Lists(m), NEW k, NEW d \in m.tree, NEW p \in Points, p[1] \in m.tree,
         Grown(m, k, d, p), Links(m, p), k.state = m.state,
         \A c \in Passed(k, p, d) : SlavePoint(k, c) = BridgedPeer(k, c)
  PROVE  Targets(k, p, d) \in SUBSET Points /\ JoinedAlso(m, k, p, Targets(k, p, d))
  <1> DEFINE b == Len(m.bridge) + 1
             S == Targets(k, p, d)
             w == p[1]
  <1>1. /\ k \in Memory /\ Lists(k) /\ k.tree = m.tree
        /\ b \in Nat /\ DOMAIN k.bridge = 1..b /\ DOMAIN m.bridge = 1..(b - 1)
        /\ \A c \in DOMAIN m.bridge : /\ k.bridge[c].master = m.bridge[c].master
                                      /\ k.bridge[c].slave = m.bridge[c].slave
                                      /\ BridgedPeer(k, c) = BridgedPeer(m, c)
        /\ BridgedPeer(k, b) = p /\ k.bridge[b].master = d /\ k.bridge[b].slave = w
    BY DEF Grown, SameBridge
  <1>2. /\ d \in Wires /\ w \in Wires /\ p = <<w, p[2]>> /\ p[2] \in {0, 1}
        /\ <<d, 0>> \in Points /\ <<d, 1>> \in Points
    BY DEF Memory, Points
  <1>3. BridgesOf(k, d) = {c \in 1..b : k.bridge[c].master = d}
    <2>1. \A c \in 1..b : <<"bridge", c>> \in Range(k.list[d]) <=> k.bridge[c].master = d
      <3> TAKE c \in 1..b
      <3>1. c \in Nat /\ c \in DOMAIN k.bridge /\ d \in k.tree
        BY <1>1
      <3>2. Bri(c) \in Range(k.list[d]) <=> c \in DOMAIN k.bridge /\ k.bridge[c].master = d
        BY <1>1, <3>1, NodesIn
      <3>3. QED
        BY <3>1, <3>2 DEF Bri
    <2>2. QED
      BY <1>1, <2>1 DEF BridgesOf
  <1> HIDE DEF b
  <1>4. S = ({<<d, 0>>, <<d, 1>>} \ {p}) \cup {BridgedPeer(k, c) : c \in Passed(k, p, d)}
    BY DEF Targets
  <1>5. CASE d = w
    <2>1. Passed(k, p, d) = {}
      BY <1>5 DEF Passed
    <2>2. S = {Other(p)} /\ Other(p) \in Points
      BY <1>2, <1>4, <1>5, <2>1 DEF Other, Points
    <2>3. JoinedIn(m, p, Other(p)) /\ JoinedIn(m, Other(p), p)
      BY <1>2, <1>5 DEF JoinedIn, Other, Links
    <2>4. ASSUME NEW x \in Points, NEW y \in Points PROVE JoinedIn(k, x, y) <=> JoinedIn(m, x, y)
      <3>1. Crossed(k, x, y) <=> Crossed(m, x, y)
        <4>1. Reached(m, d, p) = {}
          BY <1>5 DEF Reached
        <4>2. QED
          BY <4>1, GrownCrossed
      <3>2. QED
        BY <3>1 DEF JoinedIn, Crossed
    <2>5. QED
      BY <2>2, <2>3, <2>4 DEF JoinedAlso
  <1>6. CASE d # w
    <2>1. Passed(k, p, d) = {c \in DOMAIN m.bridge : m.bridge[c].master = d /\ m.bridge[c].slave # w}
      <3>1. ASSUME NEW c \in 1..b
            PROVE  c \in Passed(k, p, d) <=> c \in DOMAIN m.bridge /\ m.bridge[c].master = d
                                             /\ m.bridge[c].slave # w
        <4>1. c \in Passed(k, p, d) <=> k.bridge[c].master = d /\ k.bridge[c].slave # w
          BY <1>3, <1>6 DEF Passed
        <4>2. CASE c = b
          <5>1. c \notin DOMAIN m.bridge
            BY <1>1, <4>2
          <5>2. QED
            BY <1>1, <4>1, <4>2, <5>1
        <4>3. CASE c # b
          <5>1. c \in DOMAIN m.bridge
            BY <1>1, <4>3
          <5>2. QED
            BY <1>1, <4>1, <5>1
        <4>4. QED
          BY <4>2, <4>3
      <3>2. Passed(k, p, d) \subseteq 1..b
        BY <1>3 DEF Passed
      <3>3. DOMAIN m.bridge \subseteq 1..b
        BY <1>1
      <3>4. QED
        BY <3>1, <3>2, <3>3
    <2>2. \A c \in DOMAIN m.bridge : /\ BridgedPeer(m, c) \in Points
                                     /\ BridgedPeer(m, c)[1] = m.bridge[c].slave
      BY BridgedIs
    <2>3. S = Reached(m, d, p)
      <3>1. \A y \in Points : y[1] = d <=> y = <<d, 0>> \/ y = <<d, 1>>
        BY DEF Points
      <3>2. p # <<d, 0>> /\ p # <<d, 1>>
        BY <1>2, <1>6
      <3>3. S \subseteq Points
        BY <1>1, <1>2, <1>4, <2>1, <2>2
      <3>4. ASSUME NEW y \in Points PROVE y \in S <=> y \in Reached(m, d, p)
        <4>1. y \in S <=> \/ y[1] = d
                          \/ \E c \in DOMAIN m.bridge : /\ m.bridge[c].master = d
                                                        /\ m.bridge[c].slave # w
                                                        /\ BridgedPeer(m, c) = y
          BY <1>1, <1>4, <2>1, <3>1, <3>2
        <4>2. (\E c \in DOMAIN m.bridge : /\ m.bridge[c].master = d /\ m.bridge[c].slave # w
                                          /\ BridgedPeer(m, c) = y)
                <=> y[1] # w /\ \E c \in DOMAIN m.bridge : m.bridge[c].master = d /\ BridgedPeer(m, c) = y
          BY <2>2
        <4>3. y \in Reached(m, d, p)
                <=> /\ y[1] # w
                    /\ \/ y[1] = d
                       \/ \E c \in DOMAIN m.bridge : m.bridge[c].master = d /\ BridgedPeer(m, c) = y
          BY <1>6 DEF Reached
        <4>4. y[1] = d => y[1] # w
          BY <1>6
        <4>5. QED
          BY <4>1, <4>2, <4>3, <4>4
      <3>5. Reached(m, d, p) \subseteq Points
        BY DEF Reached
      <3>6. QED
        BY <3>3, <3>4, <3>5
    <2> HIDE DEF S
    <2>4. ASSUME NEW x \in Points, NEW y \in Points
          PROVE  JoinedIn(k, x, y) <=> \/ JoinedIn(m, x, y)
                                       \/ x = p /\ y \in S
                                       \/ y = p /\ x \in S
      <3>1. Crossed(k, x, y) <=> \/ Crossed(m, x, y)
                                 \/ x = p /\ y \in S
                                 \/ y = p /\ x \in S
        BY <2>3, GrownCrossed
      <3>2. /\ JoinedIn(k, x, y) <=> (x # y /\ x[1] = y[1] /\ k.state[x[1]] = "active") \/ Crossed(k, x, y)
            /\ JoinedIn(m, x, y) <=> (x # y /\ x[1] = y[1] /\ m.state[x[1]] = "active") \/ Crossed(m, x, y)
        BY DEF JoinedIn, Crossed
      <3>3. QED
        BY <3>1, <3>2
    <2>5. S \in SUBSET Points
      BY <2>3 DEF Reached
    <2>6. QED
      BY <2>4, <2>5 DEF JoinedAlso, S
  <1>7. QED
    BY <1>5, <1>6

\* The index of the bridge that was made leads to p.
LEMMA MadeFound ==
  ASSUME NEW m, NEW k, NEW d, NEW p \in Points, Grown(m, k, d, p), d # p[1]
  PROVE  SlavePoint(k, Len(k.bridge)) = p /\ Len(k.bridge) \in DOMAIN k.bridge
                                          /\ Len(k.bridge) \notin DOMAIN m.bridge
  <1> DEFINE b == Len(m.bridge) + 1
  <1>1. /\ k \in Memory /\ Lists(k) /\ Moved(k)
        /\ b \in Nat /\ DOMAIN k.bridge = 1..b /\ DOMAIN m.bridge = 1..(b - 1)
        /\ BridgedPeer(k, b) = p /\ k.bridge[b].master = d
    BY DEF Grown
  <1>2. Len(k.bridge) = b
    <2>1. DOMAIN k.bridge = 1..Len(k.bridge) /\ Len(k.bridge) \in Nat
      BY <1>1, ListsListed
    <2> HIDE DEF b
    <2>2. QED
      BY <1>1, <2>1
  <1> HIDE DEF b
  <1>3. b \in DOMAIN k.bridge
    <2>1. b # 0
      <3>1. ASSUME b = 0 PROVE FALSE
        <4>1. DOMAIN k.bridge = {}
          BY <1>1, <3>1
        <4>2. Len(m.bridge) = -1
          BY <3>1, <1>2 DEF b
        <4>3. QED
          BY <1>1, <1>2, <3>1, <4>1, ListsListed DEF b
      <3>2. QED
        BY <3>1
    <2>2. QED
      BY <1>1, <2>1
  <1>4. \A c \in DOMAIN k.bridge : ~MovesIn(k, c, b)
    BY <1>1 DEF MovesIn
  <1>5. SlavePoint(k, b) = p
    BY <1>1, <1>3, <1>4, FoundUnlessMoved
  <1>6. QED
    BY <1>1, <1>2, <1>3, <1>5

\* An idle peer takes an address, and the bridge its location.
LocatedTo(k, n, p) ==
  /\ SameLists(k, n) /\ n.state = k.state /\ n.pstate = k.pstate /\ n.fib = k.fib
  /\ \A x \in Points : x # p => n.addr[x] = k.addr[x]
  /\ \A c \in DOMAIN k.bridge : c # Len(k.bridge) => n.bridge[c] = k.bridge[c]

(* Located writes the address of p and the location of the last bridge, and *)
(* leaves everything else of the memory alone.                              *)
LEMMA LocatedIs ==
  ASSUME NEW k \in Memory, NEW d \in Wires, NEW p \in Points,
         SlavePoint(k, Len(k.bridge)) = p, Len(k.bridge) \in DOMAIN k.bridge
  PROVE  LocatedTo(k, Located(k, d, p), p)
  <1> DEFINE b      == Len(k.bridge)
             addr   == [k.addr EXCEPT ![p] = k.addr[<<d, 1>>]]
             last   == [k.bridge[b] EXCEPT !.location = k.index[<<d, 1>>]]
             bridge == [k.bridge EXCEPT ![b] = last]
             n      == Located(k, d, p)
  <1>1. /\ k.addr \in [Points -> Addrs] /\ k.bridge \in Seq(BridgeRec) /\ k.index \in [Points -> Int]
        /\ <<d, 1>> \in Points
    BY DEF Memory, Points
  <1>2. addr \in [Points -> Addrs] /\ \A x \in Points : x # p => addr[x] = k.addr[x]
    BY <1>1
  <1>3. /\ last \in BridgeRec
        /\ last.master = k.bridge[b].master /\ last.slave = k.bridge[b].slave
        /\ last.index = k.bridge[b].index /\ last.linked = k.bridge[b].linked
        /\ last.point_index = k.bridge[b].point_index
        /\ last.slave_point_index = k.bridge[b].slave_point_index
    <2>1. k.bridge[b] \in BridgeRec /\ k.index[<<d, 1>>] \in Int
      BY <1>1
    <2>2. QED
      BY <2>1 DEF BridgeRec
  <1>4. n = [k EXCEPT !.addr = addr, !.bridge = bridge]
    BY DEF Located
  <1> HIDE DEF addr, last
  <1>5. /\ bridge \in Seq(BridgeRec) /\ Len(bridge) = Len(k.bridge) /\ bridge[b] = last
        /\ \A c \in DOMAIN k.bridge : c # b => bridge[c] = k.bridge[c]
    BY <1>1, <1>3
  <1> HIDE DEF bridge, n
  <1>6. /\ n \in Memory /\ n.list = k.list /\ n.index = k.index /\ n.tree = k.tree
        /\ n.state = k.state /\ n.pstate = k.pstate /\ n.fib = k.fib
        /\ n.addr = addr /\ n.bridge = bridge
    BY <1>2, <1>4, <1>5 DEF Memory
  <1>7. SameLists(k, n)
    BY <1>3, <1>5, <1>6 DEF SameLists
  <1>8. QED
    BY <1>2, <1>5, <1>6, <1>7 DEF LocatedTo, n

\* What bridging p to wireway d makes of the lists, the states and p's peer.
BridgeGoes(m, n, d, p) ==
  /\ Grown(m, n, d, p)
  /\ \A v \in Wires : /\ StatedAt(n, v)
                      /\ m.state[v] = "active" => n.state[v] = "active"
                      /\ v # p[1] => n.state[v] = m.state[v]
  /\ n.pstate[p] = "active"
  /\ \A q \in Points : /\ m.pstate[q] = "active" => n.pstate[q] = "active"
                       /\ q # p => n.pstate[q] = m.pstate[q] /\ n.addr[q] = m.addr[q]

\* A bridge of an idle peer.
LEMMA BridgeIdle ==
  ASSUME NEW m, NEW d, NEW p, Bridgeable(m, d, p), Moved(m), Stated(m), m.state[d] = "active",
         m.pstate[p] = "idle"
  PROVE  /\ BridgeGoes(m, Bridged(m, d, p), d, p)
         /\ Entered(m) => Entered(Bridged(m, d, p))
  <1> DEFINE w == p[1]
             k == Made(m, d, p)
             h == Located(k, d, p)
             n == Bridged(m, d, p)
  <1>1. /\ m \in Memory /\ Lists(m) /\ d \in m.tree /\ p \in Points /\ w \in m.tree
        /\ d \in Wires /\ w \in Wires
    BY DEF Bridgeable, Memory
  <1>2. OneMore(m, k, d, p)
    BY MadeOneMore
  <1>3. n = Activated(h, p)
    <2>1. ~Links(m, p)
      BY DEF Links
    <2> HIDE DEF h
    <2>2. QED
      BY <2>1 DEF Bridged, h
  <1> HIDE DEF k
  <1>4. Grown(m, k, d, p) /\ k \in Memory /\ SameRest(m, k)
    BY <1>2, OneMoreGrown DEF OneMore
  <1>5. d # w
    <2>1. p = <<w, p[2]>> /\ p[2] \in Ends
      BY <1>1 DEF Points, Ends
    <2>2. d = w => m.pstate[p] = "active"
      BY <1>1, <2>1 DEF Stated, StatedAt
    <2>3. QED
      BY <2>2
  <1>6. /\ SlavePoint(k, Len(k.bridge)) = p /\ Len(k.bridge) \in DOMAIN k.bridge
        /\ Len(k.bridge) \notin DOMAIN m.bridge
    BY <1>1, <1>4, <1>5, MadeFound
  <1>7. LocatedTo(k, h, p)
    BY <1>1, <1>4, <1>6, LocatedIs
  <1> HIDE DEF h, n
  <1>8. m.state[w] \in {"init", "attaching"}
    <2>1. m.state[w] \in {"none", "init", "attaching", "active"}
      BY <1>1 DEF Memory
    <2>2. m.state[w] # "none"
      BY <1>1 DEF Lists
    <2>3. p = <<w, p[2]>> /\ p[2] \in Ends
      BY <1>1 DEF Points, Ends
    <2>4. m.state[w] # "active"
      BY <1>1, <2>3 DEF Stated, StatedAt
    <2>5. QED
      BY <2>1, <2>2, <2>4
  <1>9. /\ h \in Memory /\ h.state = m.state /\ h.pstate = m.pstate /\ h.fib = m.fib
        /\ \A x \in Points : x # p => h.addr[x] = m.addr[x]
        /\ SameLists(k, h)
    BY <1>4, <1>7 DEF LocatedTo, SameRest, SameLists
  <1>10. ActivatedTo(h, n, p)
    <2>1. h.state[p[1]] \in {"init", "attaching"}
      BY <1>8, <1>9
    <2>2. QED
      BY <1>1, <1>3, <1>9, <2>1, ActivatedIs
  <1>11. /\ n.addr = h.addr /\ n.bridge = h.bridge
         /\ n.pstate = [m.pstate EXCEPT ![p] = "active"]
         /\ n.state = [m.state EXCEPT ![p[1]] = IF m.state[p[1]] = "init" THEN "attaching" ELSE "active"]
         /\ \A x \in Points : n.fib[x] = m.fib[x] \cup Entries(n, p, OtherIf(m, p), x)
    <2>1. \A x : Entries(h, p, OtherIf(h, p), x) = Entries(n, p, OtherIf(m, p), x)
      BY <1>9, <1>10 DEF Entries, OtherIf, ActivatedTo
    <2>2. n.state = [m.state EXCEPT ![p[1]] = IF m.state[p[1]] = "init" THEN "attaching" ELSE "active"]
      BY <1>9, <1>10 DEF ActivatedTo
    <2>3. QED
      BY <1>9, <1>10, <2>1, <2>2 DEF ActivatedTo
  <1>12. SameLists(k, n)
    BY <1>9, <1>10, <1>11 DEF ActivatedTo, SameLists
  <1>13. /\ \A v \in Wires : /\ StatedAt(n, v)
                             /\ n.state[v] = "none" <=> m.state[v] = "none"
                             /\ m.state[v] = "active" => n.state[v] = "active"
                             /\ n.state[v] = "active" <=> \/ m.state[v] = "active"
                                                          \/ v = p[1] /\ m.state[v] = "attaching"
         /\ \A q \in Points : m.pstate[q] = "active" => n.pstate[q] = "active"
    <2>1. \A v \in Wires : Turned(m, n, p, v)
      <3> TAKE v \in Wires
      <3>1. /\ n.pstate = [m.pstate EXCEPT ![p] = "active"]
            /\ n.state = [m.state EXCEPT ![p[1]] = IF m.state[p[1]] = "init" THEN "attaching" ELSE "active"]
        BY <1>11
      <3>2. QED
        BY <1>1, <1>8, <3>1, ActivatedStated
    <2>2. QED
      BY <1>1, <2>1 DEF Turned
  <1>14. Grown(m, n, d, p)
    <2>1. \A c \in DOMAIN m.bridge : n.bridge[c].location = k.bridge[c].location
      <3> TAKE c \in DOMAIN m.bridge
      <3>1. c \in DOMAIN k.bridge /\ c # Len(k.bridge)
        BY <1>4, <1>6 DEF Grown
      <3>2. QED
        BY <1>7, <1>11, <3>1 DEF LocatedTo
    <2>2. \A v \in Wires : n.state[v] = "none" <=> k.state[v] = "none"
      BY <1>4, <1>13 DEF SameRest
    <2>3. QED
      BY <1>4, <1>12, <2>1, <2>2, SameGrown
  <1>15. BridgeGoes(m, n, d, p)
    <2>1. /\ m.pstate \in [Points -> {"idle", "active"}]
          /\ m.state \in [Wires -> {"none", "init", "attaching", "active"}]
      BY <1>1 DEF Memory
    <2>2. /\ n.pstate[p] = "active"
          /\ \A q \in Points : q # p => n.pstate[q] = m.pstate[q] /\ n.addr[q] = m.addr[q]
      BY <1>1, <1>9, <1>11, <2>1
    <2>3. \A v \in Wires : v # p[1] => n.state[v] = m.state[v]
      BY <1>11, <2>1
    <2>4. QED
      BY <1>13, <1>14, <2>2, <2>3 DEF BridgeGoes
  <1>16. Entered(m) => Entered(n)
    <2> SUFFICES ASSUME Entered(m) PROVE Entered(n)
      OBVIOUS
    <2>1. ~Links(m, p)
      BY DEF Links
    <2>2. SameCrossed(m, n)
      <3>1. \A x, y \in Points : Crossed(n, x, y) <=> Crossed(m, x, y)
        BY <1>1, <1>14, <2>1, GrownCrossed
      <3>2. QED
        BY <3>1 DEF SameCrossed
    <2>3. Activates(m, n, p)
      BY <1>13 DEF Activates
    <2>4. OtherIf(m, p) \in SUBSET Points /\ JoinedAlso(m, n, p, OtherIf(m, p))
      BY <1>1, <2>2, <2>3, JoinedGrows
    <2>5. \A x, y \in Points : JoinedIn(m, x, y) => n.addr[x] = m.addr[x] /\ n.addr[y] = m.addr[y]
      <3> SUFFICES ASSUME NEW x \in Points, NEW y \in Points, JoinedIn(m, x, y)
                   PROVE  n.addr[x] = m.addr[x] /\ n.addr[y] = m.addr[y]
        OBVIOUS
      <3>1. m.pstate[x] = "active" /\ m.pstate[y] = "active"
        BY <1>1, JoinedActive
      <3>2. QED
        BY <1>9, <1>11, <3>1
    <2>6. QED
      BY <1>1, <1>11, <2>4, <2>5, EnteredMore
  <1>17. QED
    BY <1>15, <1>16 DEF n

\* An index leads to a peer or to none.
LEMMA SlavePointIn ==
  ASSUME NEW m \in Memory, Lists(m), NEW b \in DOMAIN m.bridge, SlavePoint(m, b) # NoPoint
  PROVE  SlavePoint(m, b) \in Points
  <1> DEFINE s == m.bridge[b].slave
             i == m.bridge[b].point_index + 1
  <1>1. s \in m.tree /\ s \in Wires
    BY BridgedIs DEF Memory
  <1>2. /\ i \in DOMAIN m.list[s] /\ m.list[s][i][1] = "peer"
        /\ SlavePoint(m, b) = <<s, m.list[s][i][2]>>
    BY DEF SlavePoint, PeerAt
  <1> HIDE DEF s, i
  <1>3. \E e \in Ends : m.list[s][i] = Peer(e)
    <2>1. /\ \A c : Bri(c)[1] = "bridge" /\ Sla(c)[1] = "slave"
      BY DEF Bri, Sla
    <2>2. QED
      BY <1>1, <1>2, <2>1, NodeOf
  <1>4. QED
    BY <1>1, <1>2, <1>3 DEF Points, Ends, Peer

\* What is told apart when p is bridged: indices that lead to no peer, and to another.
Followed(m, k, d, p) == IF Links(m, p) THEN Passed(k, p, d) ELSE {}
NoneLost(m, k, d, p) == \A c \in Followed(m, k, d, p) : SlavePoint(k, c) # NoPoint
NoneAstray(m, k, d, p) == \A c \in Followed(m, k, d, p) : SlavePoint(k, c) = BridgedPeer(k, c)

\* A bridge of a peer that is active.
LEMMA BridgeActive ==
  ASSUME NEW m, NEW d, NEW p, Bridgeable(m, d, p), Moved(m), Stated(m), m.state[d] = "active",
         m.pstate[p] # "idle", NoneLost(m, Made(m, d, p), d, p)
  PROVE  /\ BridgeGoes(m, Bridged(m, d, p), d, p)
         /\ Entered(m) /\ NoneAstray(m, Made(m, d, p), d, p) => Entered(Bridged(m, d, p))
  <1> DEFINE w == p[1]
             k == Made(m, d, p)
             n == Bridged(m, d, p)
             S == Targets(k, p, d)
  <1>1. /\ m \in Memory /\ Lists(m) /\ d \in m.tree /\ p \in Points /\ w \in m.tree
        /\ d \in Wires /\ w \in Wires
    BY DEF Bridgeable, Memory
  <1>2. OneMore(m, k, d, p)
    BY MadeOneMore
  <1>3. n = IF Links(m, p) THEN UpdateFib(k, p, d) ELSE k
    <2> HIDE DEF k
    <2>1. Links(m, p) \in BOOLEAN
      BY DEF Links
    <2>2. QED
      BY <2>1 DEF Bridged, k
  <1> HIDE DEF k, n
  <1>4. Grown(m, k, d, p) /\ k \in Memory /\ SameRest(m, k)
    BY <1>2, OneMoreGrown DEF OneMore
  <1>5. m.pstate[p] = "active"
    BY <1>1 DEF Memory
  <1>6. /\ k.state = m.state /\ k.pstate = m.pstate /\ k.addr = m.addr /\ k.fib = m.fib
    BY <1>4 DEF SameRest
  <1>7. \A v \in Wires : StatedAt(m, v)
    BY DEF Stated
  <1>8. ASSUME NEW o, Grown(m, o, d, p), o.state = m.state, o.pstate = m.pstate, o.addr = m.addr
        PROVE  BridgeGoes(m, o, d, p)
    BY <1>5, <1>7, <1>8 DEF BridgeGoes, StatedAt
  <1>9. CASE ~Links(m, p)
    <2>1. n = k
      BY <1>3, <1>9
    <2>2. BridgeGoes(m, k, d, p)
      BY <1>4, <1>6, <1>8
    <2>3. ASSUME Entered(m) PROVE Entered(k)
      <3>1. ASSUME NEW x \in Points, NEW y \in Points PROVE JoinedIn(k, x, y) <=> JoinedIn(m, x, y)
        <4>1. Crossed(k, x, y) <=> Crossed(m, x, y)
          BY <1>1, <1>4, <1>9, GrownCrossed
        <4>2. QED
          BY <1>6, <4>1 DEF JoinedIn, Crossed
      <3>2. \A x \in Points : EntriesOf(k, x) = EntriesOf(m, x)
        BY <1>6, <3>1 DEF EntriesOf
      <3>3. QED
        BY <1>6, <2>3, <3>2 DEF Entered
    <2>4. QED
      BY <2>1, <2>2, <2>3 DEF k, n
  <1>10. CASE Links(m, p)
    <2>1. n = Linked(k, p, S)
      BY <1>3, <1>10 DEF UpdateFib
    <2>2. S \in SUBSET Points
      <3>1. Passed(k, p, d) \subseteq DOMAIN k.bridge
        BY DEF Passed, BridgesOf
      <3>2. \A c \in Passed(k, p, d) : SlavePoint(k, c) # NoPoint
        BY <1>10 DEF NoneLost, Followed, k
      <3>3. \A c \in Passed(k, p, d) : SlavePoint(k, c) \in Points
        <4>1. Lists(k)
          BY <1>4 DEF Grown
        <4>2. QED
          BY <1>4, <3>1, <3>2, <4>1, SlavePointIn
      <3>4. {<<d, 0>>, <<d, 1>>} \subseteq Points
        BY <1>1 DEF Points
      <3>5. QED
        BY <3>3, <3>4 DEF Targets
    <2> HIDE DEF S
    <2>3. /\ n \in Memory /\ SameLists(k, n)
          /\ n.state = k.state /\ n.pstate = k.pstate /\ n.addr = k.addr /\ n.bridge = k.bridge
          /\ \A x \in Points : n.fib[x] = k.fib[x] \cup Entries(k, p, S, x)
      BY <1>1, <1>4, <2>1, <2>2, LinkedIs
    <2>4. Grown(m, n, d, p)
      <3>1. \A v \in Wires : n.state[v] = "none" <=> k.state[v] = "none"
        BY <2>3
      <3>2. \A c \in DOMAIN m.bridge : n.bridge[c].location = k.bridge[c].location
        BY <2>3
      <3>3. QED
        BY <1>4, <2>3, <3>1, <3>2, SameGrown
    <2>5. BridgeGoes(m, n, d, p)
      <3>1. n.state = m.state /\ n.pstate = m.pstate /\ n.addr = m.addr
        BY <1>6, <2>3
      <3>2. QED
        BY <1>8, <2>4, <3>1
    <2>6. ASSUME Entered(m), NoneAstray(m, k, d, p) PROVE Entered(n)
      <3>1. \A c \in Passed(k, p, d) : SlavePoint(k, c) = BridgedPeer(k, c)
        BY <1>10, <2>6 DEF NoneAstray, Followed
      <3>2. JoinedAlso(m, k, p, S)
        <4>1. k.state = m.state
          BY <1>6
        <4>2. JoinedAlso(m, k, p, Targets(k, p, d))
          BY <1>1, <1>4, <1>10, <3>1, <4>1, LinkTargets
        <4>3. QED
          BY <4>2 DEF S
      <3>3. \A x, y \in Points : JoinedIn(n, x, y) <=> JoinedIn(k, x, y)
        <4>1. SameCrossed(k, n)
          <5>1. Lists(k)
            BY <1>4 DEF Grown
          <5>2. \A v \in Wires : n.state[v] = "none" <=> k.state[v] = "none"
            BY <2>3
          <5>3. \A c \in DOMAIN k.bridge : BridgedPeer(n, c) = BridgedPeer(k, c)
            BY <1>4, <2>3, <5>1, <5>2, ListsKept
          <5>4. SameEnds(k, n)
            BY <2>3, <5>3 DEF SameEnds
          <5>5. QED
            BY <1>4, <5>1, <5>4, ReachSame
        <4>2. \A x, y \in Points : Crossed(n, x, y) <=> Crossed(k, x, y)
          BY <4>1 DEF SameCrossed
        <4>3. n.state = k.state
          BY <2>3
        <4>4. QED
          BY <4>2, <4>3 DEF JoinedIn, Crossed
      <3>4. JoinedAlso(m, n, p, S)
        BY <3>2, <3>3 DEF JoinedAlso
      <3>5. \A x, y \in Points : JoinedIn(m, x, y) => n.addr[x] = m.addr[x] /\ n.addr[y] = m.addr[y]
        BY <1>6, <2>3
      <3>6. \A x \in Points : n.fib[x] = m.fib[x] \cup Entries(n, p, S, x)
        BY <1>6, <2>3 DEF Entries
      <3>7. QED
        BY <1>1, <2>2, <2>6, <3>4, <3>5, <3>6, EnteredMore
    <2>7. QED
      BY <2>5, <2>6 DEF k, n
  <1>11. QED
    BY <1>9, <1>10

\* bridge_wireway, when every index it follows leads to a peer.
LEMMA BridgeStep ==
  ASSUME NEW m, NEW files, NEW gone, WireOk(m, files, gone), NEW d \in m.tree, NEW p \in Points,
         p[1] \in m.tree, m.state[d] = "active", NoneLost(m, Made(m, d, p), d, p),
         NEW n, n = Bridged(m, d, p), NEW after \in BOOLEAN,
         ~after => ~gone /\ NoneAstray(m, Made(m, d, p), d, p)
  PROVE  WireOk(n, Save(n, d, Save(n, p[1], files)), after)
  <1>1. /\ m \in Memory /\ Lists(m) /\ Counted(m) /\ Moved(m) /\ Stated(m) /\ Saved(m, files)
        /\ gone \in BOOLEAN /\ (~gone => Entered(m))
    BY DEF WireOk
  <1>2. Bridgeable(m, d, p)
    BY <1>1 DEF Bridgeable
  <1>3. /\ BridgeGoes(m, n, d, p)
        /\ Entered(m) /\ NoneAstray(m, Made(m, d, p), d, p) => Entered(n)
    <2>1. CASE m.pstate[p] = "idle"
      BY <1>1, <1>2, <2>1, BridgeIdle
    <2>2. CASE m.pstate[p] # "idle"
      BY <1>1, <1>2, <2>2, BridgeActive
    <2>3. QED
      BY <2>1, <2>2
  <1>4. Grown(m, n, d, p)
    BY <1>3 DEF BridgeGoes
  <1>5. n \in Memory /\ Lists(n) /\ Counted(n) /\ Moved(n)
    BY <1>4 DEF Grown
  <1>6. Stated(n)
    <2>1. /\ n.pstate[p] = "active"
          /\ \A v \in Wires : StatedAt(n, v) /\ (m.state[v] = "active" => n.state[v] = "active")
          /\ \A q \in Points : m.pstate[q] = "active" => n.pstate[q] = "active"
      BY <1>3 DEF BridgeGoes
    <2>2. QED
      BY <1>1, <1>4, <2>1, GrownStated
  <1>7. Saved(n, Save(n, d, Save(n, p[1], files)))
    <2>1. OthersStay(m, n, d, p)
      BY <1>3 DEF BridgeGoes, OthersStay
    <2>2. /\ m \in Memory /\ Lists(m) /\ d \in m.tree /\ p \in Points /\ p[1] \in m.tree
          /\ Saved(m, files)
      BY <1>1
    <2>3. QED
      BY <1>4, <2>1, <2>2, GrownSaved
  <1>8. ~after => Entered(n)
    BY <1>1, <1>3
  <1>9. QED
    BY <1>5, <1>6, <1>7, <1>8 DEF WireOk

-----------------------------------------------------------------------------
(* The specification.                                                      *)

\* Nothing is in memory at first.
LEMMA WireInvInit == WireInit => WireInv
  <1> SUFFICES ASSUME WireInit PROVE WireInv
    OBVIOUS
  <1>1. mem = EmptyMem /\ DOMAIN disk = Wires /\ astray = FALSE
    BY DEF WireInit
  <1>2. /\ mem.state = [w \in Wires |-> "none"] /\ mem.list = [w \in Wires |-> <<>>]
        /\ mem.pstate = [p \in Points |-> "idle"] /\ mem.addr = [p \in Points |-> NoAddr]
        /\ mem.fib = [p \in Points |-> {}] /\ mem.index = [p \in Points |-> p[2]]
        /\ mem.bridge = <<>> /\ mem.tree = {}
    BY <1>1 DEF EmptyMem
  <1>3. \A p \in Points : p[1] \in Wires /\ p[2] \in {0, 1}
    BY DEF Points
  <1>4. mem \in Memory
    <2>1. /\ [w \in Wires |-> "none"] \in [Wires -> {"none", "init", "attaching", "active"}]
          /\ [w \in Wires |-> <<>>] \in [Wires -> Seq(Nodes)]
          /\ [p \in Points |-> "idle"] \in [Points -> {"idle", "active"}]
          /\ [p \in Points |-> NoAddr] \in [Points -> Addrs]
          /\ [p \in Points |-> {}] \in [Points -> SUBSET (Addrs \X Addrs)]
          /\ [p \in Points |-> p[2]] \in [Points -> Int]
          /\ <<>> \in Seq(BridgeRec)
      BY <1>3 DEF Addrs
    <2>2. QED
      BY <1>1, <2>1 DEF EmptyMem, Memory
  <1>5. DOMAIN mem.bridge = {}
    BY <1>2
  <1>6. \A w \in Wires, e \in Ends : <<w, e>> \in Points /\ mem.index[<<w, e>>] = e
                                     /\ mem.pstate[<<w, e>>] = "idle"
    <2> TAKE w \in Wires, e \in Ends
    <2>1. <<w, e>> \in Points
      BY DEF Points, Ends
    <2>2. QED
      BY <1>2, <2>1
  <1>7. Lists(mem) /\ Counted(mem) /\ Moved(mem) /\ Saved(mem, disk)
    <2>1. Lists(mem)
      BY <1>2, <1>5 DEF Lists
    <2>2. Counted(mem)
      BY <1>2, <1>5, <1>6 DEF Counted
    <2>3. Moved(mem)
      BY <1>5 DEF Moved
    <2>4. Saved(mem, disk)
      BY <1>1, <1>2 DEF Saved
    <2>5. QED
      BY <2>1, <2>2, <2>3, <2>4
  <1>8. Stated(mem)
    <2>1. \A w \in Wires : StatedAt(mem, w)
      <3> TAKE w \in Wires
      <3>1. mem.state[w] = "none"
        BY <1>2
      <3>2. \A e \in Ends : mem.pstate[<<w, e>>] = "idle"
        BY <1>6
      <3>3. QED
        BY <3>1, <3>2 DEF StatedAt
    <2>2. QED
      BY <1>5, <2>1 DEF Stated
  <1>9. Entered(mem)
    <2>1. \A x, y \in Points : ~JoinedIn(mem, x, y)
      BY <1>2, <1>3, <1>5 DEF JoinedIn
    <2>2. \A x \in Points : EntriesOf(mem, x) = {}
      BY <2>1 DEF EntriesOf
    <2>3. QED
      BY <1>2, <2>2 DEF Entered
  <1>10. QED
    BY <1>1, <1>4, <1>7, <1>8, <1>9 DEF WireInv, WireOk

\* Every step keeps the invariant.
LEMMA WireInvNext == WireInv /\ [WireNext]_wireVars => WireInv'
  <1> SUFFICES ASSUME WireInv, [WireNext]_wireVars PROVE WireInv'
    OBVIOUS
  <1>1. WireOk(mem, disk, astray)
    BY DEF WireInv
  <1>2. ASSUME NEW w \in Wires, Create(w) PROVE WireInv'
    <2>1. w \notin mem.tree
      <3>1. ASSUME w \in mem.tree PROVE FALSE
        <4>1. SavedWire(mem, disk, w) /\ mem.state[w] # "none"
          BY <1>1, <3>1 DEF WireOk, Saved, Lists
        <4>2. disk[w].state = "none"
          BY <1>2 DEF Create, NoRecord
        <4>3. QED
          BY <4>1, <4>2 DEF SavedWire
      <3>2. QED
        BY <3>1
    <2>2. /\ mem' = [mem EXCEPT !.state[w] = "init", !.list[w] = <<<<"peer", 0>>, <<"peer", 1>>>>,
                                !.tree = @ \cup {w}]
          /\ disk' = Save(mem', w, disk) /\ astray' = astray
      BY <1>2 DEF Create
    <2>3. WireOk(mem', Save(mem', w, disk), astray)
      BY <1>1, <2>1, <2>2, CreateStep
    <2>4. QED
      BY <2>2, <2>3 DEF WireInv
  <1>3. ASSUME NEW w \in Wires, Attach(w) PROVE WireInv'
    <2> DEFINE p == Unused(mem, w)
    <2>1. /\ w \in mem.tree /\ Idle(mem, w) # {}
          /\ mem' = Activated([mem EXCEPT !.addr[p] = p], p)
          /\ disk' = Save(mem', w, disk) /\ astray' = astray
      BY <1>3 DEF Attach
    <2> HIDE DEF p
    <2>2. WireOk(mem', Save(mem', w, disk), astray)
      <3>1. p = Unused(mem, w)
        BY DEF p
      <3>2. QED
        BY <1>1, <2>1, <3>1, AttachStep
    <2>3. QED
      BY <2>1, <2>2 DEF WireInv
  <1>4. ASSUME NEW d \in Wires, NEW p \in Points, Bridge(d, p) PROVE WireInv'
    <2> DEFINE k == Made(mem, d, p)
               used == Followed(mem, k, d, p)
    <2>1. /\ d \in mem.tree /\ p[1] \in mem.tree /\ mem.state[d] = "active"
          /\ IF \E b \in used : SlavePoint(k, b) = NoPoint
             THEN UNCHANGED <<mem, disk, astray>>
             ELSE /\ mem' = Bridged(mem, d, p)
                  /\ astray' = (astray \/ \E b \in used : SlavePoint(k, b) # BridgedPeer(k, b))
                  /\ disk' = Save(mem', d, Save(mem', p[1], disk))
      BY <1>4 DEF Bridge, Followed
    <2> HIDE DEF k, used
    <2>2. CASE \E b \in used : SlavePoint(k, b) = NoPoint
      BY <1>1, <2>1, <2>2 DEF WireInv
    <2>3. CASE ~\E b \in used : SlavePoint(k, b) = NoPoint
      <3>1. NoneLost(mem, k, d, p)
        BY <2>3 DEF NoneLost, used
      <3>2. astray' \in BOOLEAN /\ (~astray' => ~astray /\ NoneAstray(mem, k, d, p))
        BY <1>1, <2>1, <2>3 DEF NoneAstray, WireOk, used
      <3>3. mem' = Bridged(mem, d, p) /\ disk' = Save(mem', d, Save(mem', p[1], disk))
        BY <2>1, <2>3
      <3>4. WireOk(mem', Save(mem', d, Save(mem', p[1], disk)), astray')
        BY <1>1, <2>1, <3>1, <3>2, <3>3, BridgeStep DEF k
      <3>5. QED
        BY <3>3, <3>4 DEF WireInv
    <2>4. QED
      BY <2>2, <2>3
  <1>5. CASE UNCHANGED wireVars
    BY <1>1, <1>5 DEF wireVars, WireInv
  <1>6. QED
    BY <1>2, <1>3, <1>4, <1>5 DEF WireNext

\* The invariant holds in every state of one process.
THEOREM WireInvHolds == WireSpec => []WireInv
  <1>1. QED
    BY WireInvInit, WireInvNext, PTL DEF WireSpec

\* An index leads to the peer that was bridged until a node is put before that peer: in
\* bridge_wireway the index is read from the point after its own slave node is in the
\* list, and not again when later bridges move the point.
THEOREM IndexMovedHolds == WireSpec => []IndexMoved
  <1>1. WireInv => IndexMoved
    <2> SUFFICES ASSUME WireInv, NEW b \in OwnIds
                 PROVE  SlavePoint(mem, b) # BridgedPeer(mem, b) <=> \E c \in Whole : Moves(c, b)
      BY DEF IndexMoved
    <2>1. mem \in Memory /\ Lists(mem) /\ Moved(mem) /\ b \in DOMAIN mem.bridge
      BY DEF WireInv, WireOk, OwnIds, Ids
    <2>2. Whole = DOMAIN mem.bridge
      <3>1. \A c \in DOMAIN mem.bridge : mem.bridge[c].master \in 1..N /\ mem.bridge[c].slave \in 1..N
        BY <2>1, ListsListed DEF BridgeRec, Wires
      <3>2. NoWire \notin 1..N
        BY DEF NoWire
      <3>3. QED
        BY <3>1, <3>2 DEF Whole, Ids
    <2>3. \A c : Moves(c, b) <=> MovesIn(mem, c, b)
      BY DEF Moves, MovesIn
    <2>4. QED
      BY <2>1, <2>2, <2>3, FoundUnlessMoved
  <1>2. QED
    BY <1>1, WireInvHolds, PTL

\* As long as no index led update_wireway_fib to a peer that was not meant, the entries
\* are the pairs that the bridges and the attached peers call for, and no others.
THEOREM EntriesAsBridgedHolds == WireSpec => []EntriesAsBridged
  <1>1. WireInv => EntriesAsBridged
    <2> SUFFICES ASSUME WireInv, ~astray, NEW x \in Points
                 PROVE  mem.fib[x] = {<<mem.addr[x], mem.addr[y]>> : y \in {y \in Points : Joined(x, y)}}
      BY DEF EntriesAsBridged
    <2>1. mem.fib[x] = EntriesOf(mem, x)
      BY DEF WireInv, WireOk, Entered
    <2>2. \A b, u, v : Reaches(b, u, v) <=> ReachesIn(mem, b, u, v)
      BY DEF Reaches, ReachesIn
    <2>3. \A y \in Points : Joined(x, y) <=> JoinedIn(mem, x, y)
      BY <2>2 DEF Joined, JoinedIn, Ids
    <2>4. QED
      BY <2>1, <2>3 DEF EntriesOf
  <1>2. QED
    BY <1>1, WireInvHolds, PTL

\* The records that create_wireway, attach_wireway and bridge_wireway save are what is in
\* memory, but for the index of a bridge in its slave's record: a later bridge may move
\* that bridge further back in its master's list, and saves its own two wireways only.
THEOREM RecordCurrentHolds == WireSpec => []RecordCurrent
  <1>1. WireInv => RecordCurrent
    <2> SUFFICES ASSUME WireInv, NEW w \in mem.tree
                 PROVE  /\ disk[w].state = Record(mem, w).state
                        /\ Len(disk[w].points) = Len(Record(mem, w).points)
                        /\ \A i \in DOMAIN Record(mem, w).points :
                             SameDesc(disk[w].points[i], Record(mem, w).points[i])
      BY DEF RecordCurrent
    <2>1. mem \in Memory /\ Lists(mem) /\ SavedWire(mem, disk, w)
      BY DEF WireInv, WireOk, Saved
    <2>2. DOMAIN mem.list[w] = 1..Len(mem.list[w]) /\ Len(mem.list[w]) \in Nat
      BY <2>1, ListsListed DEF Listed
    <2>3. /\ Record(mem, w).state = mem.state[w]
          /\ Record(mem, w).points = [i \in 1..Len(mem.list[w]) |-> Desc(mem, w, mem.list[w][i])]
      BY <2>2 DEF Record
    <2>4. Len(Record(mem, w).points) = Len(mem.list[w])
      BY <2>2, <2>3
    <2>5. QED
      BY <2>1, <2>2, <2>3, <2>4 DEF SavedWire, SavedDesc
  <1>2. QED
    BY <1>1, WireInvHolds, PTL
=============================================================================
