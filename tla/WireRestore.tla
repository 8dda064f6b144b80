---------------------------- MODULE WireRestore ----------------------------
(***************************************************************************)
(* Wireways across the end of a process.  A new process has the tree of    *)
(* names and loads a wireway when its name is looked up, or when all are   *)
(* printed, and with it whatever it is bridged with, record by record      *)
(* (wireway_func.c 23-447); then it makes the forwarding entries anew.     *)
(*                                                                         *)
(* A process that reads through NULL or through memory nobody has set ends *)
(* ("dead"); one that puts a node into a list twice is not followed        *)
(* further ("corrupt").  Recursive: for TLC only.                          *)
(***************************************************************************)
EXTENDS Wireway

CONSTANTS
  Lives,   \* bound on the processes
  MaxKept, \* bound on the bridges of a process that has a successor
  MaxNew   \* bound on those of a successor that makes one

VARIABLES
  seen,   \* the restore list
  tail,   \* the list ends in NULL: its first element's next is left as malloc found it
  life    \* the number of the process

restVars == <<mem, disk, held, proc, astray, seen, tail, life>>

Init == WireInit /\ seen = {} /\ tail = TRUE /\ life = 1

-----------------------------------------------------------------------------
(* Loading, on a heap: memory, the restore list, and how it went. *)

InMem(h, x) == x \in h.seen \cup h.mem.tree

\* find_wireway_restore_list runs off the end of the list unless it finds x.
Lost(h, x) == x \notin h.seen /\ ~tail

\* MUTANT: the node before it.
NodeBefore(h, x, type, i) ==
  LET list == h.mem.list[x]
  IN IF i \in DOMAIN list /\ list[i][1] = type THEN list[i][2] ELSE 0

\* The object whose node of that type stands at index i of x; 0 is NULL.
NodeAt(h, x, type, i) ==
  LET list == h.mem.list[x]
  IN IF i + 1 \in DOMAIN list /\ list[i + 1][1] = type THEN list[i + 1][2] ELSE 0

\* A bridge_point from malloc.
Unset == [master |-> NoWire, slave |-> NoWire, location |-> -1, index |-> 0,
          point_index |-> -1, slave_point_index |-> -1, linked |-> FALSE]
New(h) == [h EXCEPT !.mem.bridge = Append(@, Unset)]

Enlist(h, w, n) == [h EXCEPT !.mem.list[w] = Append(@, n)]
Fail(h, st) == [h EXCEPT !.st = st]

LoadPeer(h, w, e, i, desc) ==
  Enlist([h EXCEPT !.mem.index[<<w, e>>] = i, !.mem.pstate[<<w, e>>] = desc.state, !.mem.addr[<<w, e>>] = desc.addr,
                   !.mem.fib[<<w, e>>] = {}], w, <<"peer", e>>)

\* The master's half of a bridge: the object is found through the slave's node.
LoadBridge(h, w, i, desc) ==
  LET found == InMem(h, desc.wire)
      h1    == IF found THEN h ELSE New(h)
      b     == IF found THEN NodeAt(h, desc.wire, "slave", desc.slave_point_index)
                        ELSE Len(h1.mem.bridge)
  IN CASE Lost(h, desc.wire) \/ b = 0         -> Fail(h, "dead")
       [] h1.mem.bridge[b].master # NoWire    -> Fail(h, "corrupt")
       [] OTHER -> Enlist([h1 EXCEPT !.mem.bridge[b].master = w, !.mem.bridge[b].index = i,
                                     !.mem.bridge[b].location = desc.location,
                                     !.mem.bridge[b].slave_point_index = desc.slave_point_index],
                          w, <<"bridge", b>>)

\* The slave's half: without an object at the master's index it is passed over.
LoadSlave(h, w, desc) ==
  LET found == InMem(h, desc.wire)
      h1    == IF found THEN h ELSE New(h)
      b     == IF found THEN NodeAt(h, desc.wire, "bridge", desc.bridge_index)
                        ELSE Len(h1.mem.bridge)
  IN CASE Lost(h, desc.wire)                  -> Fail(h, "dead")
       [] b = 0                               -> h
       [] h1.mem.bridge[b].slave # NoWire     -> Fail(h, "corrupt")
       [] OTHER -> Enlist([h1 EXCEPT !.mem.bridge[b].slave = w,
                                     !.mem.bridge[b].point_index = desc.point_index],
                          w, <<"slave", b>>)

HasBridges(w) == \E i \in DOMAIN disk[w].points : disk[w].points[i].type # "peer"

RECURSIVE LoadWire(_, _), LoadPoints(_, _, _, _)

\* load_wireway_node_no_fib.  A second object for a name puts its bridges' nodes into
\* lists they are in already.
LoadWire(h, w) ==
  IF w \in h.seen /\ HasBridges(w) THEN Fail(h, "corrupt")
  ELSE LoadPoints([h EXCEPT !.mem.state[w] = "restoring", !.mem.list[w] = <<>>,
                            !.seen = @ \cup {w}], w, 1, FALSE)

\* restore_relate_wireway_node
Relate(h, x) ==
  IF x \in h.mem.tree THEN h
  ELSE LET h1 == LoadWire(h, x)
       IN IF h1.st = "run" THEN [h1 EXCEPT !.mem.tree = @ \cup {x}] ELSE h1

\* The points from the i-th on.  need_load_relate_wireway, once set, stays set.
LoadPoints(h, w, i, need) ==
  IF h.st # "run" \/ i > Len(disk[w].points) THEN h
  ELSE LET desc == disk[w].points[i]
           end  == Cardinality({j \in 1..(i - 1) : disk[w].points[j].type = "peer"})
           more == need \/ ~InMem(h, desc.wire)
           h1   == IF desc.type = "bridge" THEN LoadBridge(h, w, i - 1, desc) ELSE LoadSlave(h, w, desc)
           h2   == IF h1.st = "run" /\ h1 # h /\ more THEN Relate(h1, desc.wire) ELSE h1
       IN IF desc.type = "peer" THEN LoadPoints(LoadPeer(h, w, end, i - 1, desc), w, i + 1, need)
          ELSE LoadPoints(h2, w, i + 1, more)

-----------------------------------------------------------------------------
(* The entries of what was loaded. *)

\* MUTANT: p itself included.
RestoredWithSelf(m, p, d) ==
  LET Peers == {q \in {<<d, 0>>, <<d, 1>>} : <<"peer", q[2]>> \in Range(m.list[d])}
  IN Linked(m, p, IF p[1] # d THEN Peers
                  ELSE {q \in Peers : IndexOf(m, d, <<"peer", q[2]>>) >= m.index[p]})

\* restore_fib_by_point: all peers of d, or those past p's index where p is one of them.
Restored(m, p, d) ==
  LET Peers == {q \in {<<d, 0>>, <<d, 1>>} : <<"peer", q[2]>> \in Range(m.list[d])}
  IN Linked(m, p, IF p[1] # d THEN Peers
                  ELSE {q \in Peers : IndexOf(m, d, <<"peer", q[2]>>) > m.index[p]})

RECURSIVE FibWalk(_, _, _, _), FibNodes(_, _, _, _, _)

\* restore_wireway_fib(f, t), which goes on to every wireway t is bridged with but f.
\* Coming back to where it has been it never ends, and runs out of stack.
FibWalk(h, f, t, path) ==
  IF t = NoWire \/ <<f, t>> \in path THEN Fail(h, "dead")
  ELSE FibNodes(h, f, t, 1, path \cup {<<f, t>>})

FibNodes(h, f, t, i, path) ==
  IF h.st # "run" \/ i > Len(h.mem.list[t]) THEN h
  ELSE LET n    == h.mem.list[t][i]
           b    == h.mem.bridge[n[2]]
           away == IF n[1] = "bridge" THEN b.slave ELSE b.master
           p    == IF away = NoWire THEN NoPoint ELSE SlavePoint(h.mem, n[2])
           onto == IF n[1] = "bridge" THEN t ELSE b.master
           h1   == CASE n[1] = "bridge" /\ b.location # -1 -> h
                     [] p = NoPoint -> Fail(h, "dead")
                     [] OTHER       -> [h EXCEPT !.mem = Restored(@, p, onto)]
       IN CASE n[1] = "peer" ->
                 FibNodes([h EXCEPT !.mem = Restored(@, <<t, n[2]>>, t)], f, t, i + 1, path)
            [] n[1] # "peer" /\ away = f -> FibNodes(h, f, t, i + 1, path)
            [] OTHER ->
                 FibNodes(IF h1.st = "run" THEN FibWalk(h1, t, away, path) ELSE h1,
                          f, t, i + 1, path)

\* load_wireway_node
Load(h, w) ==
  LET h1 == LoadWire(h, w)
  IN IF h1.st = "run" THEN FibWalk(h1, w, w, {}) ELSE h1

-----------------------------------------------------------------------------
Heap == [mem |-> mem, seen |-> seen, st |-> "run"]

Becomes(h) ==
  /\ UNCHANGED <<disk, held, astray, tail, life>>
  /\ proc' = h.st
  /\ IF h.st = "run" THEN mem' = h.mem /\ seen' = h.seen ELSE UNCHANGED <<mem, seen>>

Waiting == {w \in Wires : disk[w] # NoRecord /\ w \notin mem.tree}

(* lookup_wireway of a wireway that is not in memory yet, by itself or as  *)
(* the first thing attach_wireway and bridge_wireway do.                   *)
Lookup(w) ==
  /\ proc = "run"
  /\ w \in Waiting
  /\ LET h == Load(Heap, w)
     IN Becomes(IF h.st = "run" THEN [h EXCEPT !.mem.tree = @ \cup {w}] ELSE h)

RECURSIVE LoadFrom(_, _)
LoadFrom(h, w) ==
  IF w > N \/ h.st # "run" THEN h
  ELSE LoadFrom(IF w \in Waiting /\ w \notin h.mem.tree THEN Load(h, w) ELSE h, w + 1)

(* print_wireway loads what is not in memory and does not keep it in the   *)
(* tree.                                                                   *)
PrintAll ==
  /\ proc = "run"
  /\ Waiting # {}
  /\ Becomes(LoadFrom(Heap, 1))

(* The end of the process and its successor.  If it is killed, or dies,    *)
(* the last write is lost.                                                 *)
Restart ==
  /\ proc # "corrupt"
  /\ life < Lives
  /\ Len(mem.bridge) <= MaxKept
  /\ life' = life + 1
  /\ disk' \in IF proc = "run" THEN {disk, held} ELSE {held}
  /\ held' = disk'
  /\ tail' \in BOOLEAN
  /\ mem' = EmptyMem /\ seen' = {} /\ proc' = "run" /\ astray' = FALSE

InProcess ==
  /\ WireNext
  /\ life > 1 /\ mem'.bridge # mem.bridge => Len(mem'.bridge) <= MaxNew
  /\ UNCHANGED <<seen, tail, life>>

Next == InProcess \/ (\E w \in Wires : Lookup(w)) \/ PrintAll \/ Restart

Spec == Init /\ [][Next]_restVars

-----------------------------------------------------------------------------
Bridging(w) == {i \in DOMAIN disk[w].points : disk[w].points[i].type # "peer"}
Near(w)     == {disk[w].points[i].wire : i \in Bridging(w)}
Around(w)   == Near(w) \cup {w}

\* The half of a bridge that is the i-th point of w's record has its other half where it says.
Matched(w, i) ==
  LET d == disk[w].points[i]
      o == disk[d.wire].points
      j == 1 + IF d.type = "bridge" THEN d.slave_point_index ELSE d.bridge_index
  IN /\ j \in DOMAIN o
     /\ o[j].type = (IF d.type = "bridge" THEN "slave" ELSE "bridge")
     /\ o[j].wire = w
     /\ i - 1 = IF d.type = "bridge" THEN o[j].bridge_index ELSE o[j].slave_point_index

\* A slave's index leads to a peer of its own wireway.
LeadsToPeer(w, i) ==
  LET d == disk[w].points[i]
  IN d.type = "slave" => /\ d.point_index + 1 \in DOMAIN disk[w].points
                         /\ disk[w].points[d.point_index + 1].type = "peer"

\* w is bridged once with each neighbour, they with nobody else, and their records agree.
Star(w) ==
  /\ w \notin Near(w)
  /\ Cardinality(Near(w)) = Cardinality(Bridging(w))
  /\ \A x \in Near(w) : Near(x) = {w} /\ Cardinality(Bridging(x)) = 1
  /\ \A x \in Around(w) : \A i \in Bridging(x) : Matched(x, i) /\ LeadsToPeer(x, i)

\* A look-up of the middle of a star of which nothing is loaded yet.
LookupOfStar(w) ==
  w \in Waiting /\ tail /\ Star(w) /\ Around(w) \cap (seen \cup mem.tree) = {} /\ Lookup(w)

(* Looking up the middle of a star, whatever else is in memory, brings     *)
(* back all of it, each wireway once and with its points as saved, though  *)
(* each half of a bridge is found through the other wireway's half-loaded  *)
(* list.  From an end of it the same need not be so: the flag that has the *)
(* relatives loaded stays set (line 293), and with three wireways in a row *)
(* the first is loaded a second time while it is being loaded.             *)
StarRestored ==
  [][\A w \in Wires : LookupOfStar(w) =>
       /\ proc' = "run"
       /\ Around(w) \subseteq mem'.tree
       /\ \A x \in Around(w) : Record(mem', x).points = disk[x].points]_restVars

(* The entries that are made anew after a look-up: between the two peers   *)
(* of each wireway, attached or not; and between a bridged peer and the    *)
(* peers bridged to, if the bridge assigned it no address or if it is the  *)
(* slave that was looked up.  So they depend on which of the two is looked *)
(* up first, and entries between two slaves of one master do not return.   *)
Crosses(w, x, y) ==
  \E b \in DOMAIN mem'.bridge :
    /\ mem'.bridge[b].master = y[1] /\ mem'.bridge[b].slave = x[1]
    /\ SlavePoint(mem', b) = x
    /\ mem'.bridge[b].location = -1 \/ x[1] = w
EntriesRestored ==
  [][\A w \in Wires : LookupOfStar(w) =>
       \A x \in Around(w) \X {0, 1} :
         mem'.fib[x] =
           {<<mem'.addr[x], mem'.addr[y]>> : y \in {y \in Points :
              y # x /\ (y[1] = x[1] \/ Crosses(w, x, y) \/ Crosses(w, y, x))}}]_restVars
=============================================================================
