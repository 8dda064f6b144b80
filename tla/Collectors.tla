----------------------------- MODULE Collectors -----------------------------
(***************************************************************************)
(* The collectors of the kernel module (netfilter_mod/wireway_func.c): a   *)
(* list searched by name and a radix table of pages searched by id, both   *)
(* without a lock.  Callers create collectors by ioctl and map them by     *)
(* mmap; the one that loads the module makes the cache and the main        *)
(* collector while the device is open to the others already (dev_init).    *)
(*                                                                         *)
(* A page of the cache has 2^Order entries, of which an id selects one by  *)
(* its low Order bits, while get_size_order returns Order + 1, the bits    *)
(* that each level shifts away.  Page and queue allocations may fail only  *)
(* where the code looks.  prev pointers are written and never read.        *)
(***************************************************************************)
EXTENDS Integers, Sequences, FiniteSets

CONSTANTS
  Callers,  \* processes at the device
  Loader,   \* the one that loads the module
  Names,    \* numbers in the order of strcmp
  Main,     \* "collector/main"
  Order,    \* logarithm of the entries of a page (9)
  Earlier,  \* numbers of collectors made before, one by one
  Offsets,  \* ids that are mapped, whether there is such a collector or not
  MaxCalls  \* bound on the calls

ASSUME CollectorsAssumption ==
  /\ Loader \in Callers
  /\ Names \subseteq Nat /\ Main \in Nat
  /\ Order \in Nat \ {0} /\ Offsets \subseteq Nat /\ MaxCalls \in Nat
  /\ \A k \in Earlier : k \in 0..(4 * 2^Order - 1)

VARIABLES
  node,     \* the collectors allocated
  next,     \* next[n] of the list of collectors; 0 is its head
  nextId,   \* collector_global_id
  cache,    \* collector_cache
  pages,    \* the pages of the cache
  loc,      \* what each caller is at
  calls,    \* bound: calls so far
  oops,     \* "no", or how the kernel died: "null" or "wild" pointers
  torn      \* history: the cache grew while another caller was inserting

vars == <<node, next, nextId, cache, pages, loc, calls, oops, torn>>

Size  == 2^Order
Shift == Order + 1
Low(id)  == id % Size
High(id, h) == id \div 2^(h * Shift)  \* id >> (h * shift)
Index(id, h) == Low(High(id, h - 1))  \* where a level looks

\* What the prover, which knows nothing of powers, has to be told of those that occur.
ASSUME PowersAssumption ==
  /\ Size \in Nat \ {0, 1} /\ \A h \in 0..3 : 2^(h * Shift) \in Nat \ {0}
  /\ 2^(0 * Shift) = 1 /\ 2^Shift = 2 * Size /\ 2^(2 * Shift) = 2^Shift * 2^Shift

Null == <<"null", 0>>
ZeroPage == [i \in 0..(Size - 1) |-> Null]
NoCache == [on |-> FALSE, high |-> 1, prefix |-> 0, top |-> 1]
Idle == [pc |-> "idle", name |-> 0, cur |-> 0, node |-> 0, id |-> 0,
         high |-> 0, page |-> 0, prefix |-> 0, met |-> {}, grew |-> FALSE]

Mapping(q)   == loc[q].pc \in {"mapTop", "mapWalk"}
Creating(q)  == loc[q].pc \notin {"idle", "boot"} /\ ~Mapping(q)
Growing(q)   == loc[q].pc \in {"grow", "growHigh", "growLink"}
Inserting(q) == Growing(q) \/ loc[q].pc \in {"top", "fill", "store"}

-----------------------------------------------------------------------------
(* The state after k creations, one by one, of names in rising order.      *)
First(k, lo, s) ==
  LET I == {i \in lo..k : i \div 2^Shift = lo \div 2^Shift /\ i # 0 /\ Low(i) = s}
  IN IF I = {} THEN Null ELSE <<"node", CHOOSE i \in I : \A j \in I : i <= j>>
Filled(k, lo) == [s \in 0..(Size - 1) |-> First(k, lo, s)]

Before(k) ==
  /\ node = [i \in 1..k |-> [name |-> Main + i - 1, id |-> i, met |-> {}, done |-> TRUE, cached |-> TRUE]]
  /\ next = [i \in 0..k |-> IF i = 0 THEN k ELSE i - 1]
  /\ nextId = k + 1
  /\ IF k < 2^Shift
     THEN cache = [NoCache EXCEPT !.on = (k > 0)] /\ pages = <<Filled(k, 0)>>
     ELSE /\ cache = [NoCache EXCEPT !.on = TRUE, !.high = 2, !.top = 2]
          /\ pages = <<Filled(k, 0),
                       [ZeroPage EXCEPT ![0] = <<"page", 1>>, ![1] = <<"page", 3>>],
                       Filled(k, 2^Shift)>>

Init ==
  /\ \E k \in Earlier :
       /\ Before(k)
       /\ loc = [p \in Callers |-> IF k = 0 /\ p = Loader THEN [Idle EXCEPT !.pc = "boot"] ELSE Idle]
  /\ calls = 0 /\ oops = "no" /\ torn = FALSE

-----------------------------------------------------------------------------
At(p, pc)  == oops = "no" /\ loc[p].pc = pc
Goes(p, l) == loc' = [loc EXCEPT ![p] = l]
Listed == <<node, next, nextId>>
Table  == <<cache, pages>>

\* Creations that are under way together know each other's names.
Begins(p, name, pc) ==
  LET Q == {q \in Callers \ {p} : Creating(q)}
  IN loc' = [q \in Callers |->
       CASE q = p   -> [Idle EXCEPT !.pc = pc, !.name = name, !.cur = next[0],
                                    !.met = {loc[r].name : r \in Q}]
         [] q \in Q -> [loc[q] EXCEPT !.met = @ \cup {name}]
         [] OTHER   -> loc[q]]

\* wireway_dev_init: the cache, then the main collector, which nobody looks up first.
Boot ==
  /\ At(Loader, "boot")
  /\ cache' = [cache EXCEPT !.on = TRUE]
  /\ Begins(Loader, Main, "scan")
  /\ UNCHANGED <<Listed, pages, calls, oops, torn>>

\* wireway_dev_ioctl, WIREWAY_IOC_CREATE_COLLECTOR
Create(p) ==
  /\ At(p, "idle") /\ calls < MaxCalls
  /\ calls' = calls + 1
  /\ \E x \in Names : Begins(p, x, "lookup")
  /\ UNCHANGED <<Listed, Table, oops, torn>>

\* MUTANT: the look-up, too, stops at the first greater name.
LookupStops(p) ==
  /\ At(p, "lookup")
  /\ LET l == loc[p]
     IN Goes(p, CASE l.cur = 0 \/ node[l.cur].name > l.name -> [l EXCEPT !.pc = "scan", !.cur = next[0]]
                  [] l.cur # 0 /\ node[l.cur].name = l.name -> Idle
                  [] OTHER -> [l EXCEPT !.cur = next[l.cur]])
  /\ UNCHANGED <<Listed, Table, calls, oops, torn>>

\* lookup_collector, node by node.
Lookup(p) ==
  /\ At(p, "lookup")
  /\ LET l == loc[p]
     IN Goes(p, CASE l.cur = 0 -> [l EXCEPT !.pc = "scan", !.cur = next[0]]
                  [] l.cur # 0 /\ node[l.cur].name = l.name -> Idle
                  [] OTHER -> [l EXCEPT !.cur = next[l.cur]])
  /\ UNCHANGED <<Listed, Table, calls, oops, torn>>

\* create_collector's own walk stops at the first greater name.
Scan(p) ==
  /\ At(p, "scan")
  /\ LET l == loc[p]
     IN Goes(p, CASE l.cur # 0 /\ node[l.cur].name = l.name -> Idle
                  [] l.cur # 0 /\ node[l.cur].name < l.name -> [l EXCEPT !.cur = next[l.cur]]
                  [] OTHER -> [l EXCEPT !.pc = "idRead"])
  /\ UNCHANGED <<Listed, Table, calls, oops, torn>>

\* get_collector_id: a read, then a write.
IdRead(p) ==
  /\ At(p, "idRead")
  /\ Goes(p, [loc[p] EXCEPT !.pc = "idWrite", !.id = nextId])
  /\ UNCHANGED <<Listed, Table, calls, oops, torn>>

\* The id is used up even if there is no memory for the queue.
IdWrite(p) ==
  /\ At(p, "idWrite")
  /\ nextId' = loc[p].id + 1
  /\ \/ /\ node' = Append(node, [name |-> loc[p].name, id |-> loc[p].id, met |-> {},
                                 done |-> FALSE, cached |-> FALSE])
        /\ Goes(p, [loc[p] EXCEPT !.pc = "link", !.node = Len(node')])
     \/ Goes(p, Idle) /\ UNCHANGED node
  /\ UNCHANGED <<next, Table, calls, oops, torn>>

\* list_add after cur: the new node's next is read, then the node is published.
Link(p) ==
  /\ At(p, "link")
  /\ next' = [n \in DOMAIN next \cup {loc[p].node} |->
                IF n = loc[p].node THEN next[loc[p].cur] ELSE next[n]]
  /\ Goes(p, [loc[p] EXCEPT !.pc = "publish"])
  /\ UNCHANGED <<node, nextId, Table, calls, oops, torn>>

Publish(p) ==
  /\ At(p, "publish")
  /\ next' = [next EXCEPT ![loc[p].cur] = loc[p].node]
  /\ Goes(p, [loc[p] EXCEPT !.pc = "insert"])
  /\ UNCHANGED <<node, nextId, Table, calls, oops, torn>>

Finish(p, cached) ==
  /\ node' = [node EXCEPT ![loc[p].node] = [@ EXCEPT !.done = TRUE, !.met = loc[p].met,
                                                     !.cached = cached]]
  /\ Goes(p, Idle)

-----------------------------------------------------------------------------
(* cache_id_insert: it reads high first, then the top page and the prefix, *)
(* which a growth changes in the opposite order.                           *)
Insert(p) ==
  /\ At(p, "insert")
  /\ \/ /\ cache.on
        /\ Goes(p, [loc[p] EXCEPT !.pc = "top", !.high = cache.high])
        /\ torn' = (torn \/ \E q \in Callers : Growing(q))
        /\ UNCHANGED node
     \/ ~cache.on /\ Finish(p, FALSE) /\ UNCHANGED torn
  /\ UNCHANGED <<next, nextId, Table, calls, oops>>

Fits(l) == High(l.id, l.high) = cache.prefix

InsertTop(p) ==
  /\ At(p, "top")
  /\ Goes(p, [loc[p] EXCEPT !.pc = IF Fits(loc[p]) THEN "fill" ELSE "grow", !.page = cache.top,
                            !.prefix = cache.prefix])
  /\ torn' = (torn \/ (~Fits(loc[p]) /\ \E q \in Callers \ {p} : Inserting(q)))
  /\ UNCHANGED <<Listed, Table, calls, oops>>

\* A new top page, seen by look-ups from here on, and a page for the id.
Grow(p) ==
  /\ At(p, "grow")
  /\ pages' = pages \o <<ZeroPage, ZeroPage>>
  /\ cache' = [cache EXCEPT !.top = Len(pages) + 1, !.prefix = High(loc[p].id, loc[p].high + 1)]
  /\ loc' = [q \in Callers |->
       CASE q = p      -> [loc[q] EXCEPT !.pc = "growHigh", !.cur = Len(pages) + 1]
         [] Mapping(q) -> [loc[q] EXCEPT !.grew = TRUE]
         [] OTHER      -> loc[q]]
  /\ UNCHANGED <<Listed, calls, oops, torn>>

\* MUTANT: the new level is not counted.
GrowHighForgets(p) ==
  /\ At(p, "growHigh")
  /\ Goes(p, [loc[p] EXCEPT !.pc = "growLink"])
  /\ UNCHANGED <<Listed, Table, calls, oops, torn>>

GrowHigh(p) ==
  /\ At(p, "growHigh")
  /\ cache' = [cache EXCEPT !.high = @ + 1]
  /\ Goes(p, [loc[p] EXCEPT !.pc = "growLink"])
  /\ UNCHANGED <<Listed, pages, calls, oops, torn>>

\* MUTANT: the old page is not hung into the new one.
GrowLinkForgets(p) ==
  /\ At(p, "growLink")
  /\ pages' = [pages EXCEPT ![loc[p].cur][Low(High(loc[p].id, loc[p].high))] =
                              <<"page", loc[p].cur + 1>>]
  /\ Goes(p, [loc[p] EXCEPT !.pc = "fill", !.page = loc[p].cur + 1, !.cur = 0])
  /\ UNCHANGED <<Listed, cache, calls, oops, torn>>

\* The old top goes to entry prefix, the new page to the entry of the id, which is an
\* entry of the page for all ids below 2^(2 * Order + 1); the walk goes on with the old
\* number of levels.
GrowLink(p) ==
  /\ At(p, "growLink")
  /\ LET l == loc[p]
     IN /\ pages' = [pages EXCEPT ![l.cur] =
                       [s \in 0..(Size - 1) |-> IF s = High(l.id, l.high) THEN <<"page", l.cur + 1>>
                                                 ELSE IF s = l.prefix THEN <<"page", l.page>>
                                                 ELSE pages[l.cur][s]]]
        /\ Goes(p, [l EXCEPT !.pc = "fill", !.page = l.cur + 1, !.cur = 0])
  /\ UNCHANGED <<Listed, cache, calls, oops, torn>>

\* Down a level.  A page that is missing is written to (line 246); an entry that is
\* taken makes the insertion fail, which nobody notices.
Fill(p) ==
  /\ At(p, "fill")
  /\ LET l == loc[p]
         e == pages[l.page][Index(l.id, l.high)]
     IN \/ l.high = 1 /\ e = Null /\ Goes(p, [l EXCEPT !.pc = "store"]) /\ UNCHANGED <<node, oops>>
        \/ l.high = 1 /\ e # Null /\ Finish(p, TRUE) /\ UNCHANGED oops
        \/ /\ l.high > 1 /\ e[1] = "page"
           /\ Goes(p, [l EXCEPT !.page = e[2], !.high = @ - 1])
           /\ UNCHANGED <<node, oops>>
        \/ /\ l.high > 1 /\ e[1] # "page"
           /\ oops' = IF e = Null THEN "null" ELSE "wild"
           /\ UNCHANGED <<node, loc>>
  /\ UNCHANGED <<next, nextId, Table, calls, torn>>

Store(p) ==
  /\ At(p, "store")
  /\ pages' = [pages EXCEPT ![loc[p].page][Low(loc[p].id)] = <<"node", loc[p].node>>]
  /\ Finish(p, TRUE)
  /\ UNCHANGED <<next, nextId, cache, calls, oops, torn>>

-----------------------------------------------------------------------------
(* wireway_dev_mmap: cache_id_lookup of the offset.                        *)
Map(p, id) ==
  /\ At(p, "idle") /\ calls < MaxCalls /\ cache.on
  /\ calls' = calls + 1
  /\ Goes(p, [Idle EXCEPT !.pc = "mapTop", !.id = id, !.high = cache.high,
                          !.grew = \E q \in Callers : Growing(q)])
  /\ UNCHANGED <<Listed, Table, oops, torn>>

MapTop(p) ==
  /\ At(p, "mapTop")
  /\ Goes(p, IF Fits(loc[p]) THEN [loc[p] EXCEPT !.pc = "mapWalk", !.page = cache.top] ELSE Idle)
  /\ UNCHANGED <<Listed, Table, calls, oops, torn>>

\* Whatever the last level holds is taken for a collector.
MapWalk(p) ==
  /\ At(p, "mapWalk")
  /\ LET l == loc[p]
         e == pages[l.page][Index(l.id, l.high)]
     IN \/ (e = Null \/ (l.high = 1 /\ e[1] = "node")) /\ Goes(p, Idle) /\ UNCHANGED oops
        \/ /\ l.high > 1 /\ e[1] = "page"
           /\ Goes(p, [l EXCEPT !.page = e[2], !.high = @ - 1])
           /\ UNCHANGED oops
        \/ /\ e[1] = IF l.high = 1 THEN "page" ELSE "node"
           /\ oops' = "wild"
           /\ UNCHANGED loc
  /\ UNCHANGED <<Listed, Table, calls, torn>>

Making(p) ==
  \/ Lookup(p) \/ Scan(p) \/ IdRead(p) \/ IdWrite(p) \/ Link(p) \/ Publish(p)
  \/ Insert(p) \/ InsertTop(p) \/ Grow(p) \/ GrowHigh(p) \/ GrowLink(p) \/ Fill(p) \/ Store(p)

Next ==
  \/ Boot
  \/ \E p \in Callers : Create(p) \/ Making(p) \/ MapTop(p) \/ MapWalk(p)
  \/ \E p \in Callers, id \in Offsets : Map(p, id)

Spec == Init /\ [][Next]_vars

-----------------------------------------------------------------------------
Nodes == DOMAIN node

\* Who is on the list: the k-th node from the head on.
Walk[k \in Nat] == IF k = 0 THEN 0 ELSE next[Walk[k - 1]]
OnList == {Walk[k] : k \in 1..Len(node)} \ {0}

(* The list always leads back to its head, however creations interleave.   *)
(* A collector is on it once it is made, unless another was being made at  *)
(* the same time: two list_adds after one node lose one of the two.  A     *)
(* name is there twice only if both were made alongside others, though not *)
(* necessarily of that name: a lost node comes back when a third, linked   *)
(* to it already, is published; or if it is the main collector's, which    *)
(* the loader makes without a look-up: one that a caller made by ioctl     *)
(* before is in no cache, for there was none.                              *)
ListedOnce ==
  /\ \E k \in 1..(Len(node) + 1) : Walk[k] = 0
  /\ \A n \in Nodes : node[n].done /\ n \notin OnList => node[n].met # {}
  /\ \A m, n \in OnList :
       node[m].done /\ node[n].done /\ m # n /\ node[m].name = node[n].name =>
         \/ {} \notin {node[m].met, node[n].met}
         \/ node[m].name = Main /\ FALSE \in {node[m].cached, node[n].cached}

\* What a look-up that nothing disturbs returns; two levels are all there are then.
Found(id) ==
  LET e == pages[cache.top][Index(id, cache.high)]
  IN IF High(id, cache.high) # cache.prefix THEN Null
     ELSE IF cache.high = 1 \/ e = Null THEN e ELSE pages[e[2]][Index(id, 1)]

\* Ids that the masks make one: they differ only in bits that no level looks at.
Alias(i, j) == Index(i, 1) = Index(j, 1) /\ Index(i, 2) = Index(j, 2)

\* The ids that two levels have an entry for.
Beyond == Size * 2^Shift
InRange == \A n \in Nodes : node[n].id < Beyond

Cached == {n \in Nodes : node[n].cached}

(* An id leads to the first collector made with an id that looks the same  *)
(* in the cache, as every second run of 2^Order ids does, or to one made   *)
(* alongside it, and to none if there is no such collector: also across    *)
(* the growth of the cache.  The kernel dies of the first id that needs a  *)
(* second page below the new top, and of nothing else.  All this as long   *)
(* as ids are in range and the cache does not grow under two callers.      *)
IdsAsAliased ==
  ~torn /\ InRange =>
    /\ oops = "null" =>
         \E p \in Callers : /\ loc[p].pc = "fill" /\ Index(loc[p].id, 2) # 0
                            /\ \A n \in Cached : Index(node[n].id, 2) # Index(loc[p].id, 2)
    /\ oops = "no" /\ (\A q \in Callers : ~Inserting(q)) =>
         \A id \in 0..(Beyond - 1) :
           LET C == {n \in Cached : Alias(node[n].id, id)}
           IN \/ C = {} /\ Found(id) = Null
              \/ \E n \in C : /\ Found(id) = <<"node", n>>
                              /\ \A m \in C : n <= m \/ node[m].name \in node[n].met

(* mmap takes nothing for a collector that is none, unless the cache grew  *)
(* during the look-up, when the top page may be taken for the last level,  *)
(* or had grown under two callers at once.                                 *)
MapsCollectors ==
  oops = "wild" => torn \/ \E p \in Callers : loc[p].grew
=============================================================================
