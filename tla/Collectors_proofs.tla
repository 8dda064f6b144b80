------------------------- MODULE Collectors_proofs -------------------------
(* Theorems about the collectors' cache of ids, their list, and what an id *)
(* is found to lead to, for any number of callers, any names and any size  *)
(* of the cache's pages.                                                   *)
EXTENDS Collectors, FiniteSetTheorems, WellFoundedInduction, TLAPS

-----------------------------------------------------------------------------
(* The inductive invariant, while no insertion disturbs a growth.          *)

Entry == {"null", "page", "node"} \X Nat
Page  == [0..(Size - 1) -> Entry]
Collector == [name : Nat, id : Nat, met : SUBSET Nat, done : BOOLEAN, cached : BOOLEAN]
Cache == [on : BOOLEAN, high : 1..3, prefix : Int, top : 1..5]
Pcs   == {"idle", "boot", "lookup", "scan", "idRead", "idWrite", "link", "publish", "insert",
          "top", "grow", "growHigh", "growLink", "fill", "store", "mapTop", "mapWalk"}
Place == [pc : Pcs, name : Nat, cur : Nat, node : Nat, id : Nat, high : 0..3, page : 0..5,
          prefix : Int, met : SUBSET Nat, grew : BOOLEAN]

Types ==
  /\ node \in Seq(Collector) /\ nextId \in Nat
  /\ cache \in Cache
  /\ pages \in Seq(Page)
  /\ loc \in [Callers -> Place]

\* The list has no end but its head, and a creation holds on to a node of it.
OnTheWay == {"lookup", "scan", "idRead", "idWrite", "link", "publish"}
Links ==
  /\ next \in [DOMAIN next -> DOMAIN next] /\ DOMAIN next \subseteq Nat /\ 0 \in DOMAIN next
  /\ \A p \in Callers : /\ loc[p].pc \in OnTheWay => loc[p].cur \in DOMAIN next
                        /\ loc[p].pc = "publish" => loc[p].node \in DOMAIN next

\* Pages are made two by two, a top and one more of the old top's level; only pages of
\* the last level hold collectors, and the others hold pages of the level below.
Level(i) == IF i \in {1, 3} THEN 1 ELSE IF i \in {2, 5} THEN 2 ELSE 3
HasLevel(i, h) == i \in DOMAIN pages /\ Level(i) = h
EntryFits(e, h) ==
  \/ e = Null
  \/ h = 1 /\ e[1] = "node"
  \/ h > 1 /\ e[1] = "page" /\ HasLevel(e[2], h - 1)
Levelled ==
  /\ \A i \in DOMAIN pages, s \in 0..(Size - 1) : EntryFits(pages[i][s], Level(i))
  /\ Len(pages) \in {1, 3, 5}
  /\ Len(pages) = 5 => pages[5] = ZeroPage

\* The cache has as many levels as it says, except between the two writes of a growth.
\* Whoever makes it grow to a third level dies of the page it has just made.
Rising(q) == loc[q].pc \in {"growHigh", "growLink"}
Doomed(q) == loc[q].pc = "fill" /\ loc[q].page = 5 /\ loc[q].high = 2
Steady == HasLevel(cache.top, cache.high) /\ Len(pages) = 2 * cache.high - 1

Alone == \A p, q \in Callers : Growing(p) /\ Inserting(q) => p = q
Tops ==
  /\ (\A q \in Callers : ~Rising(q)) => Steady
  /\ \A p \in Callers :
       Rising(p) =>
         /\ Len(pages) = 2 * loc[p].high + 1 /\ cache.top = Len(pages) - 1 /\ loc[p].cur = cache.top
         /\ cache.high = loc[p].high + (IF loc[p].pc = "growHigh" THEN 0 ELSE 1)
  /\ Len(pages) = 5 => \E q \in Callers : Rising(q) \/ Doomed(q)

\* A walk that no growth overtook is on a page of the level that it takes it for, and
\* every look-up is on some page.
Well(p) ==
  /\ loc[p].pc \in {"top", "grow"} => loc[p].high = cache.high
  /\ loc[p].pc \in {"grow", "growHigh", "growLink", "fill", "store"} =>
       HasLevel(loc[p].page, loc[p].high)
  /\ loc[p].pc = "store" => loc[p].high = 1
  /\ loc[p].pc \in {"mapTop", "mapWalk"} => loc[p].high # 0
  /\ loc[p].pc = "mapTop" /\ ~loc[p].grew =>
       loc[p].high = cache.high /\ \A q \in Callers : ~Rising(q)
  /\ loc[p].pc = "mapWalk" => loc[p].page \in DOMAIN pages
  /\ loc[p].pc = "mapWalk" /\ ~loc[p].grew => HasLevel(loc[p].page, loc[p].high)
Walks == \A p \in Callers : Well(p)

Shape == Types /\ Links
Ordered == Levelled /\ Alone /\ Tops /\ Walks
CacheInv ==
  ~torn => /\ oops = "wild" => \E p \in Callers : loc[p].grew
           /\ oops = "no" => Shape /\ Ordered

-----------------------------------------------------------------------------
(* Ids and pages.                                                          *)

\* Shifted ids are numbers.
LEMMA HighType ==
  ASSUME NEW id \in Nat, NEW h \in 0..3
  PROVE  High(id, h) \in Nat
  <1>1. 2^(h * Shift) \in Nat \ {0}
    BY PowersAssumption
  <1>2. \A m \in Nat \ {0} : id \div m \in Nat
    OBVIOUS
  <1>3. QED
    BY <1>1, <1>2 DEF High

\* Every level finds an entry of its page.
LEMMA IndexType ==
  ASSUME NEW id \in Nat, NEW h \in 1..3
  PROVE  Index(id, h) \in 0..(Size - 1)
  <1>1. High(id, h - 1) \in Nat
    BY HighType
  <1>2. \A x \in Nat, m \in Nat \ {0} : x % m \in 0..(m - 1)
    OBVIOUS
  <1>3. QED
    BY <1>1, <1>2, PowersAssumption DEF Index, Low

\* The last of them is the lowest bits of the id.
LEMMA LowType ==
  ASSUME NEW id \in Nat
  PROVE  Low(id) \in 0..(Size - 1)
  <1>1. \A m \in Nat \ {0} : id % m \in 0..(m - 1)
    OBVIOUS
  <1>2. QED
    BY <1>1, PowersAssumption DEF Low

\* Switching the cache on or off changes no level of it.
LEMMA SwitchedOn ==
  ASSUME NEW c \in Cache, NEW b \in BOOLEAN
  PROVE  /\ [c EXCEPT !.on = b] \in Cache
         /\ [c EXCEPT !.on = b].high = c.high /\ [c EXCEPT !.on = b].top = c.top
  BY DEF Cache

\* Nor does a new top change whether it is on.
LEMMA Topped ==
  ASSUME NEW c \in Cache, NEW h \in 1..3, NEW t \in 1..5
  PROVE  [c EXCEPT !.high = h, !.top = t] \in Cache
  BY DEF Cache

\* The place of a caller that does nothing.
LEMMA IdleIsPlace == Idle \in Place /\ Idle.pc = "idle"
  BY DEF Idle, Place, Pcs

\* A new page is a page.
LEMMA ZeroIsPage == ZeroPage \in Page
  BY DEF ZeroPage, Page, Entry, Null

\* A set of numbers has a least element.
LEMMA LeastNat ==
  ASSUME NEW C \in SUBSET Nat, C # {}
  PROVE  \E m \in C : \A n \in C : m <= n
  <1> DEFINE R == {ss \in Nat \X Nat : ss[1] < ss[2]}
  <1>1. IsWellFoundedOn(R, Nat)
    BY NatLessThanWellFounded DEF OpToRel
  <1>2. PICK m \in C : \A n \in C : ~(<<n, m>> \in R)
    <2> HIDE DEF R
    <2>1. QED
      BY <1>1, WFMin
  <1>3. \A n \in C : ~(n < m)
    BY <1>2
  <1>4. QED
    BY <1>3

\* A page as creations one by one fill it holds collectors.
LEMMA FilledPage ==
  ASSUME NEW k \in Nat, NEW lo \in Nat
  PROVE  /\ Filled(k, lo) \in Page
         /\ \A s \in 0..(Size - 1) : Filled(k, lo)[s] = Null \/ Filled(k, lo)[s][1] = "node"
  <1>1. ASSUME NEW s \in 0..(Size - 1)
        PROVE  First(k, lo, s) \in Entry /\ (First(k, lo, s) = Null \/ First(k, lo, s)[1] = "node")
    <2> DEFINE I == {i \in lo..k : i \div 2^Shift = lo \div 2^Shift /\ i # 0 /\ Low(i) = s}
    <2>1. CASE I = {}
      BY <2>1 DEF First, Entry, Null
    <2>2. CASE I # {}
      <3>1. I \in SUBSET Nat
        OBVIOUS
      <3> DEFINE m == CHOOSE i \in I : \A j \in I : i <= j
      <3>2. m \in Nat
        <4> HIDE DEF I
        <4>1. QED
          BY <2>2, <3>1, LeastNat
      <3>3. First(k, lo, s) = <<"node", m>>
        BY <2>2 DEF First
      <3> HIDE DEF m
      <3>4. QED
        BY <3>2, <3>3 DEF Entry
    <2>3. QED
      BY <2>1, <2>2
  <1>2. QED
    BY <1>1 DEF Filled, Page

-----------------------------------------------------------------------------
(* The first states.                                                       *)

\* Collectors made one by one leave the list and the cache in order.
LEMMA BeforeShape ==
  ASSUME NEW k \in Earlier, Before(k)
  PROVE  /\ node \in Seq(Collector) /\ nextId \in Nat
         /\ next \in [0..k -> 0..k]
         /\ cache \in Cache
         /\ pages \in Seq(Page) /\ Levelled /\ Steady /\ Len(pages) # 5
  <1>1. k \in Nat /\ Main \in Nat
    <2>1. 4 * 2^Order \in Int
      BY PowersAssumption DEF Size
    <2>2. QED
      BY <2>1, CollectorsAssumption
  <1>2. node \in Seq(Collector)
    <2>1. \A i \in 1..k : [name |-> Main + i - 1, id |-> i, met |-> {}, done |-> TRUE, cached |-> TRUE]
                            \in Collector
      BY <1>1 DEF Collector
    <2>2. QED
      BY <1>1, <2>1 DEF Before
  <1>3. nextId \in Nat /\ next \in [0..k -> 0..k]
    BY <1>1 DEF Before
  <1>4. Filled(k, 0) \in Page /\ \A s \in 0..(Size - 1) :
          Filled(k, 0)[s] = Null \/ Filled(k, 0)[s][1] = "node"
    BY <1>1, FilledPage
  <1>5. CASE k < 2^Shift
    <2>1. pages = <<Filled(k, 0)>> /\ cache = [NoCache EXCEPT !.on = (k > 0)]
      BY <1>5 DEF Before
    <2>2. cache \in Cache
      <3>1. NoCache \in Cache /\ (k > 0) \in BOOLEAN
        BY DEF NoCache, Cache
      <3>2. QED
        BY <2>1, <3>1 DEF Cache
    <2>3. cache.high = 1 /\ cache.top = 1
      BY <2>1 DEF NoCache
    <2>4. pages \in Seq(Page) /\ Len(pages) = 1 /\ DOMAIN pages = 1..1 /\ pages[1] = Filled(k, 0)
      BY <2>1, <1>4
    <2>5. Levelled
      BY <2>4, <1>4 DEF Levelled, EntryFits, Level
    <2>6. QED
      BY <1>2, <1>3, <2>2, <2>3, <2>4, <2>5 DEF Steady, HasLevel, Level
  <1>6. CASE ~(k < 2^Shift)
    <2> DEFINE top == [ZeroPage EXCEPT ![0] = <<"page", 1>>, ![1] = <<"page", 3>>]
    <2>1. /\ pages = <<Filled(k, 0), top, Filled(k, 2^Shift)>>
          /\ cache = [NoCache EXCEPT !.on = TRUE, !.high = 2, !.top = 2]
      BY <1>6 DEF Before
    <2>2. cache \in Cache
      <3>1. NoCache \in Cache
        BY DEF NoCache, Cache
      <3>2. [NoCache EXCEPT !.high = 2, !.top = 2] \in Cache
        <4>1. 2 \in 1..3 /\ 2 \in 1..5
          OBVIOUS
        <4>2. QED
          BY <3>1, <4>1, Topped, Zenon
      <3>3. cache = [[NoCache EXCEPT !.high = 2, !.top = 2] EXCEPT !.on = TRUE]
        BY <2>1 DEF NoCache
      <3>4. QED
        BY <3>2, <3>3, TRUE \in BOOLEAN, SwitchedOn
    <2>3. cache.high = 2 /\ cache.top = 2
      BY <2>1 DEF NoCache
    <2>4. 2^Shift \in Nat
      <3>1. 2^(1 * Shift) \in Nat /\ Shift \in Int
        BY PowersAssumption, CollectorsAssumption DEF Shift
      <3>2. 1 * Shift = Shift
        BY <3>1
      <3>3. QED
        BY <3>1, <3>2
    <2>5. Filled(k, 2^Shift) \in Page /\ \A s \in 0..(Size - 1) :
            Filled(k, 2^Shift)[s] = Null \/ Filled(k, 2^Shift)[s][1] = "node"
      BY <1>1, <2>4, FilledPage
    <2>6. top \in Page /\ \A s \in 0..(Size - 1) : top[s] \in {Null, <<"page", 1>>, <<"page", 3>>}
      BY DEF Page, Entry, ZeroPage, Null
    <2> HIDE DEF top
    <2>7. /\ pages \in Seq(Page) /\ Len(pages) = 3 /\ DOMAIN pages = 1..3
          /\ pages[1] = Filled(k, 0) /\ pages[2] = top /\ pages[3] = Filled(k, 2^Shift)
      BY <2>1, <2>5, <2>6, <1>4
    <2>8. Levelled
      <3>1. ASSUME NEW i \in DOMAIN pages, NEW s \in 0..(Size - 1)
            PROVE  EntryFits(pages[i][s], Level(i))
        <4>1. i = 1 \/ i = 2 \/ i = 3
          BY <2>7
        <4>2. HasLevel(1, 1) /\ HasLevel(3, 1)
          BY <2>7 DEF HasLevel, Level
        <4>3. CASE i = 2
          BY <2>6, <2>7, <4>2, <4>3 DEF EntryFits, Level
        <4>4. CASE i \in {1, 3}
          BY <1>4, <2>5, <2>7, <4>4 DEF EntryFits, Level
        <4>5. QED
          BY <4>1, <4>3, <4>4
      <3>2. QED
        BY <2>7, <3>1 DEF Levelled
    <2>9. QED
      BY <1>2, <1>3, <2>2, <2>3, <2>7, <2>8 DEF Steady, HasLevel, Level
  <1>7. QED
    BY <1>5, <1>6

\* The kernel starts with the module being loaded, or with collectors there.
LEMMA InitCache == Init => CacheInv
  <1> SUFFICES ASSUME Init PROVE Shape /\ Ordered /\ oops = "no"
    BY DEF CacheInv
  <1>1. PICK k \in Earlier :
          /\ Before(k)
          /\ loc = [p \in Callers |-> IF k = 0 /\ p = Loader THEN [Idle EXCEPT !.pc = "boot"] ELSE Idle]
    BY DEF Init
  <1>2. \A p \in Callers : loc[p] \in Place /\ loc[p].pc \in {"idle", "boot"}
    <2>1. Idle \in Place /\ Idle.pc = "idle"
      BY IdleIsPlace
    <2>2. [Idle EXCEPT !.pc = "boot"] \in Place /\ [Idle EXCEPT !.pc = "boot"].pc = "boot"
      BY <2>1 DEF Place, Pcs
    <2>3. QED
      BY <1>1, <2>1, <2>2
  <1>3. loc \in [Callers -> Place]
    BY <1>1, <1>2
  <1>4. Types
    BY <1>1, <1>3, BeforeShape DEF Types
  <1>5. DOMAIN next = 0..k /\ k \in Nat
    <2>1. 4 * 2^Order \in Int
      BY PowersAssumption DEF Size
    <2>2. QED
      BY <1>1, <2>1, CollectorsAssumption, BeforeShape
  <1>6. Links
    BY <1>1, <1>2, <1>5, BeforeShape DEF Links, OnTheWay
  <1>7. \A p \in Callers : ~Rising(p) /\ ~Growing(p)
    BY <1>2 DEF Rising, Growing
  <1>8. Tops /\ Alone /\ Levelled
    BY <1>1, <1>7, BeforeShape DEF Tops, Alone
  <1>9. Walks
    BY <1>2 DEF Walks, Well
  <1>10. QED
    BY <1>4, <1>6, <1>8, <1>9 DEF Shape, Ordered, Init
-----------------------------------------------------------------------------
(* Callers that are not at the cache.                                      *)

AtCache == {"top", "grow", "growHigh", "growLink", "fill", "store", "mapTop", "mapWalk"}
Still(q) ==
  /\ loc'[q].pc = loc[q].pc /\ loc'[q].high = loc[q].high /\ loc'[q].page = loc[q].page
  /\ loc'[q].cur = loc[q].cur /\ loc'[q].grew = loc[q].grew

\* A step of one who is elsewhere leaves the walks and the growth as they are.
LEMMA Bystanders ==
  ASSUME Ordered, pages' = pages, cache'.high = cache.high, cache'.top = cache.top,
         \A q \in Callers : Still(q) \/ (loc[q].pc \notin AtCache /\ loc'[q].pc \notin AtCache)
  PROVE  Ordered'
  <1>1. Levelled'
    BY DEF Ordered, Levelled, EntryFits, HasLevel
  <1>2. \A q \in Callers : /\ Growing(q)' <=> Growing(q)
                           /\ Inserting(q)' <=> Inserting(q)
                           /\ Rising(q)' <=> Rising(q)
                           /\ Doomed(q)' <=> Doomed(q)
    BY DEF Still, AtCache, Growing, Inserting, Rising, Doomed
  <1>3. Alone'
    BY <1>2 DEF Ordered, Alone
  <1>4. Steady' <=> Steady
    BY DEF Steady, HasLevel
  <1>5. \A p \in Callers : Rising(p) => Still(p)
    BY DEF Rising, AtCache
  <1>6. Tops'
    BY <1>2, <1>4, <1>5 DEF Ordered, Tops, Still
  <1>7. Walks'
    <2> SUFFICES ASSUME NEW p \in Callers PROVE Well(p)'
      BY DEF Walks
    <2>1. Well(p)
      BY DEF Ordered, Walks
    <2>2. CASE Still(p)
      BY <1>2, <2>1, <2>2 DEF Well, Still, HasLevel
    <2>3. CASE loc'[p].pc \notin AtCache
      BY <2>3 DEF Well, AtCache
    <2>4. QED
      BY <2>2, <2>3
  <1>8. QED
    BY <1>1, <1>3, <1>6, <1>7 DEF Ordered

\* One caller moves, the others stay where they are.
LEMMA Moves ==
  ASSUME Types, NEW p \in Callers, NEW l \in Place, Goes(p, l)
  PROVE  /\ loc' \in [Callers -> Place] /\ loc'[p] = l
         /\ \A q \in Callers : q # p => loc'[q] = loc[q] /\ Still(q)
  BY DEF Types, Goes, Still

\* The list as it is, and one caller that moves along it or leaves it.
LEMMA SameLinks ==
  ASSUME Links, next' = next, NEW p \in Callers,
         \A q \in Callers : q # p => /\ loc'[q].pc = loc[q].pc /\ loc'[q].cur = loc[q].cur
                                     /\ loc'[q].node = loc[q].node,
         loc'[p].pc \in OnTheWay => loc'[p].cur \in DOMAIN next,
         loc'[p].pc = "publish" => loc'[p].node \in DOMAIN next
  PROVE  Links'
  <1>1. \A q \in Callers : q = p \/ q # p
    OBVIOUS
  <1>2. QED
    BY <1>1 DEF Links

\* A caller that starts to create a collector.
LEMMA Beginning ==
  ASSUME Shape, NEW p \in Callers, NEW x \in Nat, NEW pc \in {"scan", "lookup"}, Begins(p, x, pc)
  PROVE  /\ loc' \in [Callers -> Place]
         /\ loc'[p].pc = pc /\ loc'[p].cur \in DOMAIN next
         /\ \A q \in Callers : q # p => Still(q) /\ loc'[q].node = loc[q].node
  <1> DEFINE Q == {q \in Callers \ {p} : Creating(q)}
             met == {loc[r].name : r \in Q}
             mine == [Idle EXCEPT !.pc = pc, !.name = x, !.cur = next[0], !.met = met]
  <1>1. loc \in [Callers -> Place] /\ next[0] \in DOMAIN next /\ next[0] \in Nat
    BY DEF Shape, Types, Links
  <1>2. met \in SUBSET Nat
    BY <1>1 DEF Place
  <1>3. loc' = [q \in Callers |-> CASE q = p   -> mine
                                    [] q \in Q -> [loc[q] EXCEPT !.met = @ \cup {x}]
                                    [] OTHER   -> loc[q]]
    BY DEF Begins
  <1> HIDE DEF met
  <1>4. mine \in Place /\ mine.pc = pc /\ mine.cur = next[0]
    <2>1. Idle \in Place
      BY IdleIsPlace
    <2>2. \A l \in Place : [l EXCEPT !.pc = pc, !.name = x, !.cur = next[0], !.met = met] \in Place
      BY <1>1, <1>2 DEF Place, Pcs
    <2>3. QED
      BY <2>1, <2>2 DEF Idle
  <1>5. ASSUME NEW l \in Place
        PROVE  /\ [l EXCEPT !.met = @ \cup {x}] \in Place
               /\ [l EXCEPT !.met = @ \cup {x}].pc = l.pc
               /\ [l EXCEPT !.met = @ \cup {x}].high = l.high
               /\ [l EXCEPT !.met = @ \cup {x}].page = l.page
               /\ [l EXCEPT !.met = @ \cup {x}].cur = l.cur
               /\ [l EXCEPT !.met = @ \cup {x}].grew = l.grew
               /\ [l EXCEPT !.met = @ \cup {x}].node = l.node
    BY DEF Place
  <1>6. loc'[p] = mine
    BY <1>3
  <1> HIDE DEF mine
  <1>7. ASSUME NEW q \in Callers, q # p
        PROVE  loc'[q] \in Place /\ Still(q) /\ loc'[q].node = loc[q].node
    <2>1. CASE q \in Q
      <3>1. loc'[q] = [loc[q] EXCEPT !.met = @ \cup {x}]
        BY <1>3, <1>7, <2>1
      <3>2. QED
        BY <1>1, <1>5, <3>1 DEF Still
    <2>2. CASE q \notin Q
      <3>1. loc'[q] = loc[q]
        BY <1>3, <1>7, <2>2
      <3>2. QED
        BY <1>1, <3>1 DEF Still
    <2>3. QED
      BY <2>1, <2>2
  <1>8. loc' \in [Callers -> Place]
    <2>1. \A q \in Callers : loc'[q] \in Place
      BY <1>4, <1>6, <1>7
    <2>2. DOMAIN loc' = Callers /\ loc' = [q \in Callers |-> loc'[q]]
      BY <1>3
    <2>3. QED
      BY <2>1, <2>2
  <1>9. QED
    BY <1>1, <1>4, <1>6, <1>7, <1>8

\* The module is loaded; a collector is asked for.
LEMMA BeginsWell ==
  ASSUME Shape, Ordered, Boot \/ \E p \in Callers : Create(p)
  PROVE  Shape' /\ Ordered' /\ oops' = "no"
  <1>1. CASE Boot
    <2>1. /\ loc[Loader].pc = "boot" /\ oops' = "no" /\ Begins(Loader, Main, "scan")
          /\ cache' = [cache EXCEPT !.on = TRUE] /\ UNCHANGED <<node, next, nextId, pages>>
      BY <1>1 DEF Boot, At, Listed
    <2>2. Loader \in Callers /\ Main \in Nat
      BY CollectorsAssumption
    <2>3. cache' \in Cache /\ cache'.high = cache.high /\ cache'.top = cache.top
      BY <2>1, SwitchedOn, TRUE \in BOOLEAN DEF Shape, Types
    <2>4. /\ loc' \in [Callers -> Place] /\ loc'[Loader].pc = "scan"
          /\ loc'[Loader].cur \in DOMAIN next
          /\ \A q \in Callers : q # Loader => Still(q) /\ loc'[q].node = loc[q].node
      BY <2>1, <2>2, Beginning
    <2>5. Types'
      BY <2>1, <2>3, <2>4 DEF Shape, Types
    <2>6. Links'
      BY <2>1, <2>2, <2>4, SameLinks DEF Shape, Still
    <2>7. Ordered'
      <3>1. loc[Loader].pc \notin AtCache /\ loc'[Loader].pc \notin AtCache
        BY <2>1, <2>4 DEF AtCache
      <3>2. \A q \in Callers : Still(q) \/ (loc[q].pc \notin AtCache /\ loc'[q].pc \notin AtCache)
        BY <2>4, <3>1
      <3>3. QED
        BY <2>1, <2>3, <3>2, Bystanders
    <2>8. QED
      BY <2>1, <2>5, <2>6, <2>7 DEF Shape
  <1>2. ASSUME NEW p \in Callers, Create(p)
        PROVE  Shape' /\ Ordered' /\ oops' = "no"
    <2>1. PICK x \in Names : Begins(p, x, "lookup")
      BY <1>2 DEF Create
    <2>2. /\ loc[p].pc = "idle" /\ oops' = "no" /\ x \in Nat
          /\ UNCHANGED <<node, next, nextId, cache, pages>>
      BY <1>2, CollectorsAssumption DEF Create, At, Listed, Table
    <2>3. /\ loc' \in [Callers -> Place] /\ loc'[p].pc = "lookup" /\ loc'[p].cur \in DOMAIN next
          /\ \A q \in Callers : q # p => Still(q) /\ loc'[q].node = loc[q].node
      BY <2>1, <2>2, Beginning
    <2>4. Types'
      BY <2>2, <2>3 DEF Shape, Types
    <2>5. Links'
      BY <2>2, <2>3, SameLinks DEF Shape, Still
    <2>6. Ordered'
      <3>1. loc[p].pc \notin AtCache /\ loc'[p].pc \notin AtCache
        BY <2>2, <2>3 DEF AtCache
      <3>2. \A q \in Callers : Still(q) \/ (loc[q].pc \notin AtCache /\ loc'[q].pc \notin AtCache)
        BY <2>3, <3>1
      <3>3. QED
        BY <2>2, <3>2, Bystanders
    <2>7. QED
      BY <2>2, <2>4, <2>5, <2>6 DEF Shape
  <1>3. QED
    BY <1>1, <1>2

\* A creation on its way to the cache.
LEMMA ListsWell ==
  ASSUME Shape, Ordered, NEW p \in Callers,
         Lookup(p) \/ Scan(p) \/ IdRead(p) \/ IdWrite(p) \/ Link(p) \/ Publish(p)
  PROVE  Shape' /\ Ordered' /\ oops' = "no"
  <1> USE DEF Shape
  <1>1. /\ loc[p].pc \in OnTheWay /\ oops' = "no" /\ UNCHANGED <<cache, pages>>
        /\ loc[p].pc \notin AtCache
    BY DEF Lookup, Scan, IdRead, IdWrite, Link, Publish, At, Table, OnTheWay, AtCache
  <1>2. loc[p] \in Place /\ loc[p].cur \in DOMAIN next /\ Idle \in Place
    BY <1>1, IdleIsPlace DEF Types, Links
  <1>3. next[0] \in DOMAIN next /\ next[0] \in Nat /\ next[loc[p].cur] \in DOMAIN next
        /\ next[loc[p].cur] \in Nat
    BY <1>2 DEF Links
  <1>4. /\ Idle.pc \notin OnTheWay /\ Idle.pc \notin AtCache /\ Idle.pc # "publish"
    BY IdleIsPlace DEF OnTheWay, AtCache
  \* Where p goes keeps the types and leaves the cache to the others.
  <1>5. ASSUME NEW l \in Place, Goes(p, l), l.pc \notin AtCache
        PROVE  /\ loc' \in [Callers -> Place] /\ Ordered' /\ loc'[p] = l
               /\ \A q \in Callers : q # p => loc'[q] = loc[q]
    <2>1. /\ loc' \in [Callers -> Place] /\ loc'[p] = l
          /\ \A q \in Callers : q # p => loc'[q] = loc[q] /\ Still(q)
      BY <1>5, Moves
    <2>2. \A q \in Callers : Still(q) \/ (loc[q].pc \notin AtCache /\ loc'[q].pc \notin AtCache)
      BY <1>1, <1>5, <2>1
    <2>3. Ordered'
      BY <1>1, <2>2, Bystanders
    <2>4. QED
      BY <2>1, <2>3
  <1>6. ASSUME Lookup(p) \/ Scan(p) \/ IdRead(p)
        PROVE  Shape' /\ Ordered'
    <2>1. UNCHANGED <<node, next, nextId>>
      BY <1>6 DEF Lookup, Scan, IdRead, Listed
    <2>2. PICK l \in Place :
            /\ Goes(p, l) /\ l.pc \in {"idle", "lookup", "scan", "idRead", "idWrite"}
            /\ l.pc # "idle" => l.cur \in DOMAIN next
      <3>1. CASE Lookup(p)
        <4>1. \/ Goes(p, [loc[p] EXCEPT !.pc = "scan", !.cur = next[0]])
              \/ Goes(p, Idle)
              \/ Goes(p, [loc[p] EXCEPT !.cur = next[loc[p].cur]]) /\ loc[p].pc = "lookup"
          BY <3>1 DEF Lookup, At
        <4>2. [loc[p] EXCEPT !.pc = "scan", !.cur = next[0]] \in Place
              /\ [loc[p] EXCEPT !.pc = "scan", !.cur = next[0]].pc = "scan"
              /\ [loc[p] EXCEPT !.pc = "scan", !.cur = next[0]].cur = next[0]
          BY <1>2, <1>3 DEF Place, Pcs
        <4>3. [loc[p] EXCEPT !.cur = next[loc[p].cur]] \in Place
              /\ [loc[p] EXCEPT !.cur = next[loc[p].cur]].pc = loc[p].pc
              /\ [loc[p] EXCEPT !.cur = next[loc[p].cur]].cur = next[loc[p].cur]
          BY <1>2, <1>3 DEF Place
        <4>4. QED
          BY <1>2, <1>3, <4>1, <4>2, <4>3, IdleIsPlace
      <3>2. CASE Scan(p)
        <4>1. \/ Goes(p, Idle)
              \/ Goes(p, [loc[p] EXCEPT !.cur = next[loc[p].cur]]) /\ loc[p].pc = "scan"
              \/ Goes(p, [loc[p] EXCEPT !.pc = "idRead"])
          BY <3>2 DEF Scan, At
        <4>2. [loc[p] EXCEPT !.pc = "idRead"] \in Place
              /\ [loc[p] EXCEPT !.pc = "idRead"].pc = "idRead"
              /\ [loc[p] EXCEPT !.pc = "idRead"].cur = loc[p].cur
          BY <1>2, <1>3 DEF Place, Pcs
        <4>3. [loc[p] EXCEPT !.cur = next[loc[p].cur]] \in Place
              /\ [loc[p] EXCEPT !.cur = next[loc[p].cur]].pc = loc[p].pc
              /\ [loc[p] EXCEPT !.cur = next[loc[p].cur]].cur = next[loc[p].cur]
          BY <1>2, <1>3 DEF Place
        <4>4. QED
          BY <1>2, <1>3, <4>1, <4>2, <4>3, IdleIsPlace
      <3>3. CASE IdRead(p)
        <4>1. [loc[p] EXCEPT !.pc = "idWrite", !.id = nextId] \in Place
              /\ [loc[p] EXCEPT !.pc = "idWrite", !.id = nextId].pc = "idWrite"
              /\ [loc[p] EXCEPT !.pc = "idWrite", !.id = nextId].cur = loc[p].cur
          BY <1>2, <1>3 DEF Types, Place, Pcs
        <4>2. QED
          BY <1>2, <3>3, <4>1 DEF IdRead
      <3>4. QED
        BY <1>6, <3>1, <3>2, <3>3
    <2>3. l.pc \notin AtCache /\ l.pc # "publish" /\ (l.pc \in OnTheWay => l.cur \in DOMAIN next)
      BY <2>2 DEF AtCache, OnTheWay
    <2>4. /\ loc' \in [Callers -> Place] /\ Ordered' /\ loc'[p] = l
          /\ \A q \in Callers : q # p => loc'[q] = loc[q]
      BY <1>5, <2>2, <2>3
    <2>5. Links'
      BY <2>1, <2>3, <2>4, SameLinks
    <2>6. QED
      BY <1>1, <2>1, <2>4, <2>5 DEF Types
  <1>7. CASE IdWrite(p)
    <2>1. nextId' = loc[p].id + 1 /\ next' = next
      BY <1>7 DEF IdWrite
    <2>2. nextId' \in Nat
      BY <1>2, <2>1 DEF Place
    <2>3. PICK l \in Place :
            /\ Goes(p, l) /\ l.pc \in {"idle", "link"} /\ (l.pc = "link" => l.cur = loc[p].cur)
            /\ node' \in Seq(Collector)
      <3> DEFINE c == [name |-> loc[p].name, id |-> loc[p].id, met |-> {},
                       done |-> FALSE, cached |-> FALSE]
      <3>1. c \in Collector
        BY <1>2 DEF Collector, Place
      <3>2. CASE Goes(p, Idle) /\ UNCHANGED node
        BY <1>2, <3>2, IdleIsPlace DEF Types
      <3>3. CASE node' = Append(node, c) /\ Goes(p, [loc[p] EXCEPT !.pc = "link", !.node = Len(node')])
        <4> HIDE DEF c
        <4>1. node' \in Seq(Collector) /\ Len(node') \in Nat
          BY <3>1, <3>3 DEF Types
        <4>2. [loc[p] EXCEPT !.pc = "link", !.node = Len(node')] \in Place
              /\ [loc[p] EXCEPT !.pc = "link", !.node = Len(node')].pc = "link"
              /\ [loc[p] EXCEPT !.pc = "link", !.node = Len(node')].cur = loc[p].cur
          BY <1>2, <4>1 DEF Place, Pcs
        <4>3. QED
          BY <3>3, <4>1, <4>2
      <3>4. QED
        BY <1>7, <3>2, <3>3 DEF IdWrite
    <2>4. l.pc \notin AtCache /\ l.pc # "publish" /\ (l.pc \in OnTheWay => l.cur \in DOMAIN next)
      BY <1>2, <2>3 DEF AtCache, OnTheWay
    <2>5. /\ loc' \in [Callers -> Place] /\ Ordered' /\ loc'[p] = l
          /\ \A q \in Callers : q # p => loc'[q] = loc[q]
      BY <1>5, <2>3, <2>4
    <2>6. Links'
      BY <2>1, <2>4, <2>5, SameLinks
    <2>7. QED
      BY <1>1, <2>2, <2>3, <2>5, <2>6 DEF Types
  <1>8. CASE Link(p)
    <2> DEFINE l == [loc[p] EXCEPT !.pc = "publish"]
    <2>1. l \in Place /\ l.pc = "publish" /\ l.cur = loc[p].cur /\ l.node = loc[p].node
          /\ loc[p].node \in Nat
      BY <1>2 DEF Place, Pcs
    <2>2. /\ Goes(p, l) /\ UNCHANGED <<node, nextId>>
          /\ next' = [n \in DOMAIN next \cup {loc[p].node} |->
                        IF n = loc[p].node THEN next[loc[p].cur] ELSE next[n]]
      BY <1>8 DEF Link
    <2> HIDE DEF l
    <2>3. l.pc \notin AtCache
      BY <2>1 DEF AtCache
    <2>4. /\ loc' \in [Callers -> Place] /\ Ordered' /\ loc'[p] = l
          /\ \A q \in Callers : q # p => loc'[q] = loc[q]
      BY <1>5, <2>1, <2>2, <2>3
    <2>5. /\ DOMAIN next' = DOMAIN next \cup {loc[p].node}
          /\ \A n \in DOMAIN next' : next'[n] \in DOMAIN next
      BY <1>3, <2>2 DEF Links
    <2>6. next' \in [DOMAIN next' -> DOMAIN next'] /\ DOMAIN next' \subseteq Nat /\ 0 \in DOMAIN next'
      BY <2>1, <2>2, <2>5 DEF Links
    <2>7. Links'
      BY <1>2, <2>1, <2>4, <2>5, <2>6 DEF Links
    <2>8. QED
      BY <1>1, <2>2, <2>4, <2>7 DEF Types
  <1>9. CASE Publish(p)
    <2> DEFINE l == [loc[p] EXCEPT !.pc = "insert"]
    <2>1. l \in Place /\ l.pc = "insert"
      BY <1>2 DEF Place, Pcs
    <2>2. /\ Goes(p, l) /\ UNCHANGED <<node, nextId>> /\ loc[p].pc = "publish"
          /\ next' = [next EXCEPT ![loc[p].cur] = loc[p].node]
      BY <1>9 DEF Publish, At
    <2> HIDE DEF l
    <2>3. l.pc \notin AtCache /\ l.pc \notin OnTheWay /\ l.pc # "publish"
      BY <2>1 DEF AtCache, OnTheWay
    <2>4. /\ loc' \in [Callers -> Place] /\ Ordered' /\ loc'[p] = l
          /\ \A q \in Callers : q # p => loc'[q] = loc[q]
      BY <1>5, <2>1, <2>2, <2>3
    <2>5. loc[p].node \in DOMAIN next /\ DOMAIN next' = DOMAIN next
          /\ next' \in [DOMAIN next -> DOMAIN next]
      BY <2>2 DEF Links
    <2>6. Links'
      BY <2>3, <2>4, <2>5 DEF Links
    <2>7. QED
      BY <1>1, <2>2, <2>4, <2>6 DEF Types
  <1>10. QED
    BY <1>1, <1>6, <1>7, <1>8, <1>9
-----------------------------------------------------------------------------
(* Callers at the cache.                                                   *)

\* There are one, three or five pages, each with its entries.
LEMMA PageFacts ==
  ASSUME Types, Levelled
  PROVE  /\ Len(pages) \in {1, 3, 5} /\ DOMAIN pages = 1..Len(pages)
         /\ DOMAIN pages \subseteq 1..5
         /\ \A i \in DOMAIN pages : pages[i] \in Page
  BY DEF Types, Levelled

\* What a level of a walk reads.
LEMMA Reads ==
  ASSUME Types, Levelled, NEW p \in Callers, loc[p].page \in DOMAIN pages, loc[p].high # 0
  PROVE  EntryFits(pages[loc[p].page][Index(loc[p].id, loc[p].high)], Level(loc[p].page))
  <1>1. loc[p].id \in Nat /\ loc[p].high \in 1..3
    BY DEF Types, Place
  <1>2. Index(loc[p].id, loc[p].high) \in 0..(Size - 1)
    BY <1>1, IndexType
  <1>3. QED
    BY <1>2 DEF Levelled

\* The collector is made and its caller returns.
LEMMA Ending ==
  ASSUME node \in Seq(Collector), NEW p \in Callers, loc[p].met \in SUBSET Nat,
         NEW b \in BOOLEAN, Finish(p, b)
  PROVE  node' \in Seq(Collector) /\ Goes(p, Idle)
  <1> DEFINE n == loc[p].node
             done(c) == [c EXCEPT !.done = TRUE, !.met = loc[p].met, !.cached = b]
  <1>1. loc[p].met \in SUBSET Nat /\ node \in Seq(Collector)
    OBVIOUS
  <1>2. ASSUME NEW c \in Collector PROVE done(c) \in Collector
    <2>1. [c EXCEPT !.met = loc[p].met] \in Collector
      BY <1>1 DEF Collector
    <2>2. ASSUME NEW d \in Collector, NEW x \in BOOLEAN, NEW y \in BOOLEAN
          PROVE  [d EXCEPT !.done = x, !.cached = y] \in Collector
      BY DEF Collector
    <2>3. done(c) = [[c EXCEPT !.met = loc[p].met] EXCEPT !.done = TRUE, !.cached = b]
      BY DEF Collector
    <2>4. QED
      BY <2>1, <2>2, <2>3, TRUE \in BOOLEAN
  <1>3. node' = [node EXCEPT ![n] = done(node[n])]
    BY DEF Finish
  <1> HIDE DEF done
  <1>4. CASE n \in DOMAIN node
    <2>1. done(node[n]) \in Collector
      BY <1>1, <1>2, <1>4
    <2>2. QED
      BY <1>1, <1>3, <1>4, <2>1 DEF Finish
  <1>5. CASE n \notin DOMAIN node
    <2>1. node' = node
      BY <1>1, <1>3, <1>5
    <2>2. QED
      BY <1>1, <2>1 DEF Finish
  <1>6. QED
    BY <1>4, <1>5

\* The same of a caller that is at the cache.
LEMMA Finishing ==
  ASSUME Types, NEW p \in Callers, NEW b \in BOOLEAN, Finish(p, b)
  PROVE  node' \in Seq(Collector) /\ Goes(p, Idle)
  <1>1. loc[p] \in Place /\ node \in Seq(Collector)
    BY DEF Types
  <1>2. loc[p].met \in SUBSET Nat
    BY <1>1 DEF Place
  <1>3. QED
    BY <1>1, <1>2, Ending

\* A step of a caller that changes neither levels nor tops, unless it is due to die.
LEMMA OneWalks ==
  ASSUME Types, Ordered, Levelled', cache' = cache,
         Len(pages') = Len(pages), DOMAIN pages' = DOMAIN pages,
         NEW p \in Callers, \A q \in Callers : q # p => Still(q),
         ~Rising(p), ~Rising(p)', ~Doomed(p), Well(p)',
         Growing(p)' => \A q \in Callers : q # p => ~Inserting(q),
         Inserting(p)' => \A q \in Callers : q # p => ~Growing(q)
  PROVE  Ordered'
  <1>1. ASSUME NEW q \in Callers, q # p
        PROVE  /\ Growing(q)' <=> Growing(q)
               /\ Inserting(q)' <=> Inserting(q)
               /\ Rising(q)' <=> Rising(q)
               /\ Doomed(q)' <=> Doomed(q)
    BY <1>1 DEF Still, Growing, Inserting, Rising, Doomed
  <1>2. \A q \in Callers : Rising(q)' <=> Rising(q)
    BY <1>1
  <1>3. Alone'
    <2> SUFFICES ASSUME NEW q \in Callers, NEW r \in Callers, Growing(q)', Inserting(r)', q # r
                 PROVE  FALSE
      BY DEF Alone
    <2>1. CASE q = p
      BY <1>1, <2>1
    <2>2. CASE r = p
      BY <1>1, <2>2
    <2>3. CASE q # p /\ r # p
      BY <1>1, <2>3 DEF Ordered, Alone
    <2>4. QED
      BY <2>1, <2>2, <2>3
  <1>4. Tops'
    <2>1. Steady' <=> Steady
      BY DEF Steady, HasLevel
    <2>2. ASSUME NEW q \in Callers, Rising(q) PROVE Still(q)
      BY <2>2
    <2>3. (\E q \in Callers : Rising(q) \/ Doomed(q)) => \E q \in Callers : Rising(q)' \/ Doomed(q)'
      BY <1>1
    <2>4. QED
      BY <1>2, <2>1, <2>2, <2>3 DEF Ordered, Tops, Still
  <1>5. Walks'
    <2> SUFFICES ASSUME NEW q \in Callers, q # p PROVE Well(q)'
      BY DEF Walks
    <2>1. Well(q) /\ Still(q)
      BY DEF Ordered, Walks
    <2>2. QED
      BY <1>2, <2>1 DEF Well, Still, HasLevel
  <1>6. QED
    BY <1>3, <1>4, <1>5 DEF Ordered

\* While nobody grows the cache its top is of the level that it says.
LEMMA Settled ==
  ASSUME Types, Ordered
  PROVE  /\ cache.top \in DOMAIN pages
         /\ (\A q \in Callers : ~Rising(q)) => HasLevel(cache.top, cache.high)
  <1>1. CASE \A q \in Callers : ~Rising(q)
    BY <1>1 DEF Ordered, Tops, Steady, HasLevel
  <1>2. ASSUME NEW q \in Callers, Rising(q) PROVE cache.top \in DOMAIN pages
    <2>1. cache.top = Len(pages) - 1 /\ Len(pages) = 2 * loc[q].high + 1 /\ cache.top \in 1..5
      BY <1>2 DEF Ordered, Tops, Types, Cache
    <2>2. QED
      BY <2>1, PageFacts DEF Ordered
  <1>3. QED
    BY <1>1, <1>2

\* A growing caller is alone in the cache.
LEMMA NoneGrows ==
  ASSUME Ordered, NEW p \in Callers, Inserting(p), ~Rising(p)
  PROVE  \A q \in Callers : ~Rising(q) /\ (q # p => ~Growing(q))
  BY DEF Ordered, Alone, Rising, Growing

\* A caller that returns from the cache leaves it to the others.
LEMMA Leaving ==
  ASSUME Shape, Ordered, Levelled', cache' = cache, next' = next, nextId' = nextId,
         Len(pages') = Len(pages), DOMAIN pages' = DOMAIN pages, pages' \in Seq(Page),
         NEW p \in Callers, ~Rising(p), ~Doomed(p), Goes(p, Idle), node' \in Seq(Collector)
  PROVE  Shape' /\ Ordered'
  <1> USE DEF Shape
  <1>1. /\ loc' \in [Callers -> Place] /\ loc'[p] = Idle
        /\ \A q \in Callers : q # p => loc'[q] = loc[q] /\ Still(q)
    BY Moves, IdleIsPlace
  <1>2. loc'[p].pc = "idle"
    BY <1>1, IdleIsPlace
  <1>3. ~Rising(p)' /\ ~Inserting(p)' /\ ~Growing(p)' /\ Well(p)'
    BY <1>2 DEF Rising, Inserting, Growing, Well
  <1>4. Ordered'
    BY <1>1, <1>3, OneWalks
  <1>5. Links'
    BY <1>1, <1>2, SameLinks DEF OnTheWay
  <1>6. QED
    BY <1>1, <1>4, <1>5 DEF Types

\* A caller that walks on, the cache being as it was.
LEMMA WalkingOn ==
  ASSUME Shape, Ordered, cache' = cache, next' = next, nextId' = nextId, pages' = pages,
         node' = node, NEW p \in Callers, ~Rising(p), ~Doomed(p), NEW l \in Place, Goes(p, l),
         l.pc \in AtCache, ~Rising(p)', Well(p)',
         Growing(p)' => \A q \in Callers : q # p => ~Inserting(q),
         Inserting(p)' => \A q \in Callers : q # p => ~Growing(q)
  PROVE  Shape' /\ Ordered'
  <1> USE DEF Shape
  <1>1. /\ loc' \in [Callers -> Place] /\ loc'[p] = l
        /\ \A q \in Callers : q # p => loc'[q] = loc[q] /\ Still(q)
    BY Moves
  <1>2. Levelled'
    BY DEF Ordered, Levelled, EntryFits, HasLevel
  <1>3. Ordered'
    BY <1>1, <1>2, OneWalks
  <1>4. Links'
    BY <1>1, SameLinks DEF OnTheWay, AtCache
  <1>5. QED
    BY <1>1, <1>3, <1>4 DEF Types

\* cache_id_insert begins; it read high while no growth was under way.
LEMMA InsertsWell ==
  ASSUME Shape, Ordered, NEW p \in Callers, Insert(p), ~torn'
  PROVE  Shape' /\ Ordered' /\ oops' = "no"
  <1> USE DEF Shape
  <1>1. /\ loc[p].pc = "insert" /\ oops' = "no" /\ UNCHANGED <<next, nextId, cache, pages>>
        /\ loc[p] \in Place /\ cache.high \in 0..3
    BY DEF Insert, At, Table, Types, Cache
  <1>2. ~Rising(p) /\ ~Doomed(p)
    BY <1>1 DEF Rising, Doomed
  <1>3. Levelled'
    BY <1>1 DEF Ordered, Levelled, EntryFits, HasLevel
  <1>4. CASE Finish(p, FALSE)
    <2>1. node' \in Seq(Collector) /\ Goes(p, Idle)
      BY <1>4, Finishing, FALSE \in BOOLEAN
    <2>2. QED
      BY <1>1, <1>2, <1>3, <2>1, Leaving DEF Types
  <1>5. CASE /\ Goes(p, [loc[p] EXCEPT !.pc = "top", !.high = cache.high])
             /\ torn' = (torn \/ \E q \in Callers : Growing(q))
             /\ UNCHANGED node
    <2> DEFINE l == [loc[p] EXCEPT !.pc = "top", !.high = cache.high]
    <2>1. l \in Place /\ l.pc = "top" /\ l.high = cache.high
      BY <1>1 DEF Place, Pcs
    <2>2. \A q \in Callers : ~Growing(q)
      BY <1>5
    <2>3. Goes(p, l) /\ node' = node
      BY <1>5
    <2> HIDE DEF l
    <2>4. loc'[p] = l
      BY <2>1, <2>3, Moves
    <2>5. ~Rising(p)' /\ ~Growing(p)' /\ Well(p)' /\ l.pc \in AtCache
      BY <1>1, <2>1, <2>4 DEF Rising, Growing, Well, AtCache
    <2>6. QED
      BY <1>1, <1>2, <2>1, <2>2, <2>3, <2>5, WalkingOn
  <1>6. QED
    BY <1>4, <1>5 DEF Insert

\* It reads the top and the prefix: the top is of the level it expects.
LEMMA ReadsTopWell ==
  ASSUME Shape, Ordered, NEW p \in Callers, InsertTop(p), ~torn'
  PROVE  Shape' /\ Ordered' /\ oops' = "no"
  <1> USE DEF Shape
  <1> DEFINE pc == IF Fits(loc[p]) THEN "fill" ELSE "grow"
             l == [loc[p] EXCEPT !.pc = pc, !.page = cache.top, !.prefix = cache.prefix]
  <1>1. /\ loc[p].pc = "top" /\ oops' = "no" /\ UNCHANGED <<node, next, nextId, cache, pages>>
        /\ loc[p] \in Place /\ Goes(p, l)
        /\ torn' = (torn \/ (~Fits(loc[p]) /\ \E q \in Callers \ {p} : Inserting(q)))
    BY DEF InsertTop, At, Listed, Table, Types
  <1>2. pc \in {"fill", "grow"} /\ (pc = "grow" => ~Fits(loc[p]))
    OBVIOUS
  <1> HIDE DEF pc
  <1>3. l \in Place /\ l.pc = pc /\ l.page = cache.top /\ l.high = loc[p].high
    <2>1. cache.top \in 0..5 /\ cache.prefix \in Int /\ pc \in Pcs
      BY <1>2 DEF Types, Cache, Pcs
    <2>2. QED
      BY <1>1, <2>1 DEF Place
  <1>4. ~Rising(p) /\ ~Doomed(p) /\ Inserting(p)
    BY <1>1 DEF Rising, Doomed, Inserting
  <1>5. \A q \in Callers : ~Rising(q) /\ (q # p => ~Growing(q))
    BY <1>4, NoneGrows
  <1>6. HasLevel(cache.top, cache.high) /\ loc[p].high = cache.high
    BY <1>1, <1>5, Settled DEF Ordered, Walks, Well
  <1> HIDE DEF l
  <1>7. loc'[p] = l
    BY <1>1, <1>3, Moves
  <1>8. ~Rising(p)' /\ Well(p)' /\ l.pc \in AtCache
    BY <1>1, <1>2, <1>3, <1>6, <1>7 DEF Rising, Well, AtCache, HasLevel
  <1>9. Growing(p)' => \A q \in Callers : q # p => ~Inserting(q)
    <2>1. Growing(p)' => ~Fits(loc[p])
      BY <1>2, <1>3, <1>7 DEF Growing
    <2>2. QED
      BY <1>1, <2>1
  <1>10. QED
    BY <1>1, <1>3, <1>4, <1>5, <1>8, <1>9, WalkingOn

\* One level down, or to the entry of the id, or to the kernel's end.
LEMMA FillsWell ==
  ASSUME Shape, Ordered, NEW p \in Callers, Fill(p)
  PROVE  (Shape' /\ Ordered' /\ oops' = "no") \/ oops' = "null"
  <1> USE DEF Shape
  <1> DEFINE i == Index(loc[p].id, loc[p].high)
             e == pages[loc[p].page][i]
  <1>1. /\ loc[p].pc = "fill" /\ oops = "no" /\ UNCHANGED <<next, nextId, cache, pages>>
        /\ loc[p] \in Place
    BY DEF Fill, At, Table, Types
  <1>2. HasLevel(loc[p].page, loc[p].high)
    BY <1>1 DEF Ordered, Walks, Well
  <1>3. loc[p].high \in 1..3
    BY <1>1, <1>2 DEF HasLevel, Level, Place
  <1>4. EntryFits(e, loc[p].high)
    BY <1>2, <1>3, Reads DEF Ordered, HasLevel
  <1>5. Doomed(p) => e = Null /\ loc[p].high > 1
    <2> SUFFICES ASSUME Doomed(p) PROVE e = Null /\ loc[p].high > 1
      OBVIOUS
    <2>1. loc[p].page = 5 /\ loc[p].high = 2 /\ Len(pages) = 5
      BY <1>2, PageFacts DEF Doomed, HasLevel, Ordered
    <2>2. pages[5] = ZeroPage /\ i \in 0..(Size - 1)
      BY <1>1, <1>3, <2>1, IndexType DEF Ordered, Levelled, Place
    <2>3. QED
      BY <2>1, <2>2 DEF ZeroPage
  <1>6. ~Rising(p) /\ Inserting(p)
    BY <1>1 DEF Rising, Inserting
  <1>7. \A q \in Callers : ~Rising(q) /\ (q # p => ~Growing(q))
    BY <1>6, NoneGrows
  <1>8. Levelled'
    BY <1>1 DEF Ordered, Levelled, EntryFits, HasLevel
  <1> HIDE DEF e
  <1>9. ASSUME NEW l \in Place, Goes(p, l), ~Doomed(p), node' = node,
               l.pc \in {"fill", "store"}, HasLevel(l.page, l.high), l.pc = "store" => l.high = 1
        PROVE  Shape' /\ Ordered'
    <2>1. loc'[p] = l
      BY <1>9, Moves
    <2>2. ~Rising(p)' /\ ~Growing(p)' /\ Well(p)' /\ l.pc \in AtCache
      BY <1>1, <1>9, <2>1 DEF Rising, Growing, Well, AtCache, HasLevel
    <2>3. QED
      BY <1>1, <1>6, <1>7, <1>9, <2>2, WalkingOn
  <1>10. CASE loc[p].high = 1 /\ e = Null /\ Goes(p, [loc[p] EXCEPT !.pc = "store"])
              /\ UNCHANGED <<node, oops>>
    <2> DEFINE l == [loc[p] EXCEPT !.pc = "store"]
    <2>1. /\ l \in Place /\ l.pc = "store" /\ l.high = loc[p].high /\ l.page = loc[p].page
      BY <1>1 DEF Place, Pcs
    <2>2. Goes(p, l) /\ node' = node /\ oops' = oops
      BY <1>10
    <2>3. ~Doomed(p)
      BY <1>5, <1>10
    <2> HIDE DEF l
    <2>4. HasLevel(l.page, l.high) /\ l.high = 1
      BY <1>2, <1>10, <2>1
    <2>5. Shape' /\ Ordered'
      BY <1>9, <2>1, <2>2, <2>3, <2>4
    <2>6. QED
      BY <1>1, <2>2, <2>5
  <1>11. CASE loc[p].high = 1 /\ e # Null /\ Finish(p, TRUE) /\ UNCHANGED oops
    <2>1. node' \in Seq(Collector) /\ Goes(p, Idle)
      BY <1>11, Finishing, TRUE \in BOOLEAN
    <2>2. QED
      BY <1>1, <1>5, <1>6, <1>8, <1>11, <2>1, Leaving DEF Types
  <1>12. CASE /\ loc[p].high > 1 /\ e[1] = "page" /\ UNCHANGED <<node, oops>>
              /\ Goes(p, [loc[p] EXCEPT !.page = e[2], !.high = @ - 1])
    <2>1. e # Null
      BY <1>12 DEF Null
    <2>2. HasLevel(e[2], loc[p].high - 1)
      BY <1>4, <1>12, <2>1 DEF EntryFits
    <2>3. e[2] \in 0..5 /\ loc[p].high - 1 \in 0..3
      BY <1>3, <2>2, PageFacts DEF HasLevel, Ordered
    <2>4. /\ [loc[p] EXCEPT !.page = e[2], !.high = @ - 1] \in Place
          /\ [loc[p] EXCEPT !.page = e[2], !.high = @ - 1].pc = "fill"
          /\ [loc[p] EXCEPT !.page = e[2], !.high = @ - 1].high = loc[p].high - 1
          /\ [loc[p] EXCEPT !.page = e[2], !.high = @ - 1].page = e[2]
      BY <1>1, <2>3 DEF Place
    <2>5. QED
      BY <1>1, <1>5, <1>9, <1>12, <2>1, <2>2, <2>4
  <1>13. CASE loc[p].high > 1 /\ e[1] # "page" /\ oops' = IF e = Null THEN "null" ELSE "wild"
    BY <1>4, <1>13 DEF EntryFits
  <1>14. QED
    BY <1>10, <1>11, <1>12, <1>13 DEF Fill, e

\* The entry of the id is in a page of the last level.
LEMMA StoresWell ==
  ASSUME Shape, Ordered, NEW p \in Callers, Store(p)
  PROVE  Shape' /\ Ordered' /\ oops' = "no"
  <1> USE DEF Shape
  <1> DEFINE g == loc[p].page
             s == Low(loc[p].id)
             e == <<"node", loc[p].node>>
  <1>1. /\ loc[p].pc = "store" /\ oops' = "no" /\ UNCHANGED <<next, nextId, cache>>
        /\ loc[p] \in Place /\ pages' = [pages EXCEPT ![g] = [pages[g] EXCEPT ![s] = e]]
        /\ Finish(p, TRUE)
    BY DEF Store, At, Types
  <1>2. HasLevel(g, 1) /\ g \in DOMAIN pages /\ Level(g) = 1
    BY <1>1 DEF Ordered, Walks, Well, HasLevel
  <1>3. e \in Entry /\ EntryFits(e, 1)
    BY <1>1 DEF Entry, EntryFits, Place
  <1>4. pages[g] \in Page
    BY <1>2, PageFacts DEF Ordered
  <1> HIDE DEF e
  <1>5. [pages[g] EXCEPT ![s] = e] \in Page
    BY <1>3, <1>4 DEF Page
  <1>6. pages' \in Seq(Page) /\ Len(pages') = Len(pages) /\ DOMAIN pages' = DOMAIN pages
    BY <1>1, <1>2, <1>5 DEF Types
  <1>7. Levelled'
    <2>1. ASSUME NEW i \in DOMAIN pages, NEW t \in 0..(Size - 1)
          PROVE  EntryFits(pages'[i][t], Level(i))
      <3>1. CASE i = g /\ t = s
        <4>1. pages'[i][t] = e
          BY <1>1, <1>2, <1>4, <3>1 DEF Types, Page
        <4>2. QED
          BY <1>2, <1>3, <3>1, <4>1
      <3>2. CASE ~(i = g /\ t = s)
        <4>1. pages'[i][t] = pages[i][t]
          BY <1>1, <1>2, <1>4, <3>2 DEF Types, Page
        <4>2. QED
          BY <4>1 DEF Ordered, Levelled
      <3>3. QED
        BY <3>1, <3>2
    <2>2. ASSUME Len(pages) = 5 PROVE pages'[5] = ZeroPage
      <3>1. g # 5
        BY <1>2 DEF Level
      <3>2. 5 \in DOMAIN pages
        BY <2>2, PageFacts DEF Ordered
      <3>3. pages'[5] = pages[5]
        BY <1>1, <3>1, <3>2 DEF Types
      <3>4. QED
        BY <2>2, <3>3 DEF Ordered, Levelled
    <2>3. \A x, h : EntryFits(x, h)' <=> EntryFits(x, h)
      BY <1>6 DEF EntryFits, HasLevel
    <2>4. Len(pages) \in {1, 3, 5}
      BY PageFacts DEF Ordered
    <2>5. QED
      BY <1>6, <2>1, <2>2, <2>3, <2>4 DEF Levelled, EntryFits, HasLevel
  <1>8. ~Rising(p) /\ ~Doomed(p)
    BY <1>1 DEF Rising, Doomed
  <1>9. node' \in Seq(Collector) /\ Goes(p, Idle)
    BY <1>1, Finishing, TRUE \in BOOLEAN
  <1>10. QED
    BY <1>1, <1>6, <1>7, <1>8, <1>9, Leaving
-----------------------------------------------------------------------------
(* Growth.                                                                 *)

\* Whoever grows the cache is alone in it, and every look-up that has yet to read the
\* top while the growth is visible knows of it.
LEMMA Growers ==
  ASSUME Ordered, NEW p \in Callers, Growing(p)
  PROVE  /\ \A q \in Callers : q # p => ~Inserting(q) /\ ~Growing(q) /\ ~Rising(q)
         /\ Rising(p) => \A q \in Callers : loc[q].pc = "mapTop" => loc[q].grew
  <1>1. \A q \in Callers : q # p => ~Inserting(q)
    BY DEF Ordered, Alone
  <1>2. \A q \in Callers : Rising(q) \/ Growing(q) => Inserting(q)
    BY DEF Rising, Inserting, Growing
  <1>3. Rising(p) => \A q \in Callers : loc[q].pc = "mapTop" => loc[q].grew
    BY DEF Ordered, Walks, Well
  <1>4. QED
    BY <1>1, <1>2, <1>3

\* What keeps the order of the cache while p grows it and the others are still: p's own
\* part, and that look-ups that have yet to read the top know of it.
LEMMA GrowthKeeps ==
  ASSUME Ordered, NEW p \in Callers, Growing(p), Levelled', DOMAIN pages \subseteq DOMAIN pages',
         \A q \in Callers : q # p => loc'[q].pc = loc[q].pc,
         \A q \in Callers : q # p => loc'[q].page = loc[q].page /\ loc'[q].high = loc[q].high,
         \A q \in Callers : q # p /\ loc[q].grew => loc'[q].grew,
         Rising(p)' => \A q \in Callers : q # p /\ loc[q].pc = "mapTop" => loc'[q].grew,
         ~Rising(p) => Rising(p)',
         Well(p)', ~Rising(p)' => Steady' /\ (Len(pages') = 5 => Doomed(p)'),
         Rising(p)' =>
           /\ Len(pages') = 2 * loc'[p].high + 1 /\ cache'.top = Len(pages') - 1
           /\ loc'[p].cur = cache'.top
           /\ cache'.high = loc'[p].high + (IF loc'[p].pc = "growHigh" THEN 0 ELSE 1)
  PROVE  Ordered'
  <1>1. \A q \in Callers : q # p => ~Inserting(q)' /\ ~Growing(q)' /\ ~Rising(q)'
    BY Growers DEF Inserting, Growing, Rising
  <1>2. Alone'
    BY <1>1 DEF Alone
  <1>3. Tops'
    <2>1. \A q \in Callers : Rising(q)' => q = p
      BY <1>1
    <2>2. CASE Rising(p)'
      BY <2>1, <2>2 DEF Tops
    <2>3. CASE ~Rising(p)'
      BY <2>1, <2>3 DEF Tops
    <2>4. QED
      BY <2>2, <2>3
  <1>4. Walks'
    <2> SUFFICES ASSUME NEW q \in Callers, q # p PROVE Well(q)'
      BY DEF Walks
    <2>1. /\ loc[q].pc \notin {"top", "grow", "growHigh", "growLink", "fill", "store"}
          /\ Well(q)
      BY Growers DEF Inserting, Growing, Ordered, Walks
    <2>2. loc'[q].pc = "mapTop" => loc'[q].grew
      BY <2>1, Growers
    <2>3. QED
      BY <2>1, <2>2 DEF Well, HasLevel
  <1>5. QED
    BY <1>2, <1>3, <1>4 DEF Ordered

\* A caller marked as overtaken is otherwise where it was.
LEMMA Overtaken ==
  ASSUME NEW l \in Place
  PROVE  /\ [l EXCEPT !.grew = TRUE] \in Place /\ [l EXCEPT !.grew = TRUE].grew
         /\ [l EXCEPT !.grew = TRUE].pc = l.pc /\ [l EXCEPT !.grew = TRUE].high = l.high
         /\ [l EXCEPT !.grew = TRUE].page = l.page /\ [l EXCEPT !.grew = TRUE].cur = l.cur
         /\ [l EXCEPT !.grew = TRUE].node = l.node
  <1>1. ASSUME NEW b \in BOOLEAN
        PROVE  /\ [l EXCEPT !.grew = b] \in Place /\ [l EXCEPT !.grew = b].grew = b
               /\ [l EXCEPT !.grew = b].pc = l.pc /\ [l EXCEPT !.grew = b].high = l.high
               /\ [l EXCEPT !.grew = b].page = l.page /\ [l EXCEPT !.grew = b].cur = l.cur
               /\ [l EXCEPT !.grew = b].node = l.node
    BY DEF Place
  <1>2. QED
    BY <1>1, TRUE \in BOOLEAN

\* An entry may lead to a page of the level below, now and after a growth.
LEMMA PageFits ==
  ASSUME NEW j, NEW h \in Nat \ {0}, HasLevel(j, h)
  PROVE  EntryFits(<<"page", j>>, h + 1)
  <1>1. h + 1 > 1 /\ h + 1 - 1 = h
    OBVIOUS
  <1>2. <<"page", j>>[1] = "page" /\ <<"page", j>>[2] = j
    OBVIOUS
  <1>3. QED
    BY <1>1, <1>2 DEF EntryFits

\* Two pages are appended, the first of which becomes the top: there were one or three,
\* for with five somebody would be in the cache who grew it before.
LEMMA GrowsWell ==
  ASSUME Shape, Ordered, NEW p \in Callers, Grow(p)
  PROVE  Shape' /\ Ordered' /\ oops' = "no"
  <1> USE DEF Shape
  <1> DEFINE n == Len(pages)
             x == High(loc[p].id, loc[p].high + 1)
             l == [loc[p] EXCEPT !.pc = "growHigh", !.cur = n + 1]
  <1>0. n \in Nat /\ DOMAIN pages = 1..n /\ pages \in Seq(Page)
    BY DEF Types
  <1>1. /\ loc[p].pc = "grow" /\ oops' = "no" /\ UNCHANGED <<node, next, nextId>>
        /\ loc[p] \in Place
        /\ pages' = pages \o <<ZeroPage, ZeroPage>>
        /\ cache' = [cache EXCEPT !.top = n + 1, !.prefix = x]
    <2>1. loc[p].pc = "grow" /\ oops' = "no" /\ UNCHANGED <<node, next, nextId>>
      BY DEF Grow, At, Listed
    <2>2. loc[p] \in Place
      BY DEF Types
    <2>3. /\ pages' = pages \o <<ZeroPage, ZeroPage>>
          /\ cache' = [cache EXCEPT !.top = n + 1, !.prefix = x]
      BY DEF Grow
    <2>4. QED
      BY <2>1, <2>2, <2>3
  <1> DEFINE to(q) == CASE q = p      -> [loc[q] EXCEPT !.pc = "growHigh", !.cur = n + 1]
                        [] Mapping(q) -> [loc[q] EXCEPT !.grew = TRUE]
                        [] OTHER      -> loc[q]
  <1>22. loc' = [q \in Callers |-> to(q)]
    BY DEF Grow
  <1>2. Growing(p) /\ Inserting(p) /\ ~Rising(p) /\ ~Doomed(p)
    BY <1>1 DEF Growing, Inserting, Rising, Doomed
  <1>3. \A q \in Callers : ~Rising(q) /\ (q # p => ~Inserting(q))
    BY <1>2, Growers
  <1>4. n \in {1, 3}
    <2>1. \A q \in Callers : ~Doomed(q)
      BY <1>2, <1>3 DEF Doomed, Inserting
    <2>2. n # 5
      BY <1>3, <2>1 DEF Ordered, Tops
    <2>3. QED
      BY <2>2 DEF Ordered, Levelled
  <1>5. /\ cache.high = loc[p].high /\ HasLevel(loc[p].page, loc[p].high)
        /\ n = 2 * cache.high - 1 /\ cache.high \in {1, 2}
    <2>1. n = 2 * cache.high - 1
      BY <1>3 DEF Ordered, Tops, Steady
    <2>2. cache.high \in {1, 2}
      BY <1>4, <2>1 DEF Types, Cache
    <2>3. QED
      BY <1>1, <2>1, <2>2 DEF Ordered, Walks, Well
  <1>6. /\ pages' \in Seq(Page) /\ Len(pages') = n + 2 /\ DOMAIN pages' = 1..(n + 2)
        /\ \A i \in 1..n : pages'[i] = pages[i]
        /\ pages'[n + 1] = ZeroPage /\ pages'[n + 2] = ZeroPage
    BY <1>0, <1>1, ZeroIsPage
  <1>7. DOMAIN pages = 1..n
    BY <1>0
  <1>8. Levelled'
    <2> DEFINE Fitting(e, h) == \/ e = Null
                                \/ h = 1 /\ e[1] = "node"
                                \/ /\ h > 1 /\ e[1] = "page"
                                   /\ e[2] \in 1..(n + 2) /\ Level(e[2]) = h - 1
    <2>1. ASSUME NEW i \in 1..(n + 2), NEW s \in 0..(Size - 1)
          PROVE  Fitting(pages'[i][s], Level(i))
      <3>1. CASE i \in 1..n
        <4>1. EntryFits(pages[i][s], Level(i)) /\ pages'[i] = pages[i]
          BY <1>6, <1>7, <3>1 DEF Ordered, Levelled
        <4>2. \A j : j \in DOMAIN pages => j \in 1..(n + 2)
          BY <1>0
        <4>3. QED
          BY <4>1, <4>2 DEF EntryFits, HasLevel
      <3>2. CASE i \notin 1..n
        <4>1. i = n + 1 \/ i = n + 2
          BY <1>0, <3>2
        <4>2. pages'[i] = ZeroPage
          BY <1>6, <4>1
        <4>3. pages'[i][s] = Null
          BY <4>2 DEF ZeroPage
        <4>4. QED
          BY <4>3
      <3>3. QED
        BY <3>1, <3>2
    <2>2. Len(pages') \in {1, 3, 5} /\ (Len(pages') = 5 => pages'[5] = ZeroPage)
      <3>1. n = 1 \/ n = 3
        BY <1>4
      <3>2. CASE n = 1
        BY <1>6, <3>2
      <3>3. CASE n = 3
        <4>1. n + 2 = 5
          BY <3>3
        <4>2. QED
          BY <1>6, <4>1
      <3>4. QED
        BY <3>1, <3>2, <3>3
    <2>3. QED
      BY <1>6, <2>1, <2>2 DEF Levelled, EntryFits, HasLevel
  <1>9. x \in Nat /\ n + 1 \in 1..5 /\ n + 1 \in Nat
    <2>1. loc[p].high + 1 \in 0..3 /\ loc[p].id \in Nat
      BY <1>1, <1>5 DEF Place
    <2>2. x \in Nat
      BY <2>1, HighType
    <2>3. n + 1 \in 1..5 /\ n + 1 \in Nat
      <3>1. \A k \in {1, 3} : k + 1 \in 1..5 /\ k + 1 \in Nat
        OBVIOUS
      <3>2. QED
        BY <1>4, <3>1
    <2>4. QED
      BY <2>2, <2>3
  <1> HIDE DEF x
  <1>10. cache' \in Cache /\ cache'.high = cache.high /\ cache'.top = n + 1
    <2>1. cache \in Cache
      BY DEF Types
    <2>2. ASSUME NEW y \in Int, NEW t \in 1..5
          PROVE  /\ [cache EXCEPT !.top = t, !.prefix = y] \in Cache
                 /\ [cache EXCEPT !.top = t, !.prefix = y].high = cache.high
                 /\ [cache EXCEPT !.top = t, !.prefix = y].top = t
      BY <2>1 DEF Cache
    <2>3. x \in Int
      BY <1>9
    <2>4. /\ [cache EXCEPT !.top = n + 1, !.prefix = x] \in Cache
          /\ [cache EXCEPT !.top = n + 1, !.prefix = x].high = cache.high
          /\ [cache EXCEPT !.top = n + 1, !.prefix = x].top = n + 1
      BY <1>9, <2>2, <2>3
    <2>5. QED
      BY <1>1, <2>4
  <1>11. /\ l \in Place /\ l.pc = "growHigh" /\ l.cur = n + 1 /\ l.high = loc[p].high
         /\ l.page = loc[p].page
    BY <1>1, <1>9 DEF Place, Pcs
  <1> HIDE DEF l
  <1>12. loc'[p] = l
    <2>1. to(p) = l
      BY <1>1 DEF l, Mapping
    <2> HIDE DEF to
    <2>2. QED
      BY <1>22, <2>1
  <1>13. ASSUME NEW q \in Callers, q # p
         PROVE  /\ loc'[q] \in Place /\ loc'[q].pc = loc[q].pc /\ loc'[q].high = loc[q].high
                /\ loc'[q].page = loc[q].page /\ loc'[q].cur = loc[q].cur
                /\ loc'[q].node = loc[q].node
                /\ (loc[q].grew => loc'[q].grew) /\ (loc[q].pc = "mapTop" => loc'[q].grew)
    <2>1. loc[q] \in Place
      BY DEF Types
    <2>2. CASE Mapping(q)
      <3>1. loc'[q] = [loc[q] EXCEPT !.grew = TRUE]
        BY <1>22, <1>13, <2>2
      <3>2. QED
        BY <2>1, <3>1, Overtaken
    <2>3. CASE ~Mapping(q)
      <3>1. loc'[q] = loc[q] /\ loc[q].pc # "mapTop"
        BY <1>22, <1>13, <2>3 DEF Mapping
      <3>2. QED
        BY <2>1, <3>1
    <2>4. QED
      BY <2>2, <2>3
  <1>14. loc' \in [Callers -> Place]
    <2>1. \A q \in Callers : loc'[q] \in Place
      BY <1>11, <1>12, <1>13
    <2> HIDE DEF to
    <2>2. DOMAIN loc' = Callers /\ loc' = [q \in Callers |-> loc'[q]]
      BY <1>22
    <2>3. QED
      BY <2>1, <2>2
  <1>15. Well(p)' /\ Rising(p)'
    <2>1. loc'[p].pc = "growHigh" /\ loc'[p].page = loc[p].page /\ loc'[p].high = loc[p].high
      BY <1>11, <1>12
    <2>2. loc[p].page \in 1..(n + 2) /\ Level(loc[p].page) = loc[p].high
      <3>1. loc[p].page \in 1..n /\ Level(loc[p].page) = loc[p].high
        BY <1>5, <1>7 DEF HasLevel
      <3>2. QED
        BY <1>0, <3>1
    <2>3. QED
      BY <1>6, <2>1, <2>2 DEF Well, Rising, HasLevel
  <1>16. /\ Len(pages') = 2 * loc'[p].high + 1 /\ cache'.top = Len(pages') - 1
         /\ loc'[p].cur = cache'.top /\ loc'[p].pc = "growHigh" /\ cache'.high = loc'[p].high
    BY <1>4, <1>5, <1>6, <1>10, <1>11, <1>12
  <1>17. DOMAIN pages \subseteq DOMAIN pages'
    BY <1>4, <1>6, <1>7
  <1>18. cache'.high = loc'[p].high + (IF loc'[p].pc = "growHigh" THEN 0 ELSE 1)
    BY <1>5, <1>10, <1>16
  <1>19. Ordered'
    BY <1>2, <1>8, <1>13, <1>15, <1>16, <1>17, <1>18, GrowthKeeps
  <1>20. Links'
    BY <1>1, <1>11, <1>12, <1>13, SameLinks DEF OnTheWay
  <1>21. QED
    BY <1>1, <1>6, <1>10, <1>14, <1>19, <1>20 DEF Types

\* The new level is counted.
LEMMA GrowsHighWell ==
  ASSUME Shape, Ordered, NEW p \in Callers, GrowHigh(p)
  PROVE  Shape' /\ Ordered' /\ oops' = "no"
  <1> USE DEF Shape
  <1> DEFINE l == [loc[p] EXCEPT !.pc = "growLink"]
  <1>1. /\ loc[p].pc = "growHigh" /\ oops' = "no" /\ UNCHANGED <<node, next, nextId, pages>>
        /\ loc[p] \in Place /\ cache' = [cache EXCEPT !.high = @ + 1] /\ Goes(p, l)
    BY DEF GrowHigh, At, Listed, Types
  <1>2. Growing(p) /\ Rising(p)
    BY <1>1 DEF Growing, Rising
  <1>3. /\ Len(pages) = 2 * loc[p].high + 1 /\ cache.top = Len(pages) - 1
        /\ loc[p].cur = cache.top /\ cache.high = loc[p].high
        /\ HasLevel(loc[p].page, loc[p].high)
    BY <1>1, <1>2 DEF Ordered, Tops, Walks, Well, Place
  <1>4. cache.high + 1 \in 1..3
    BY <1>1, <1>3, PageFacts DEF Ordered, Types, Cache
  <1>5. cache' \in Cache /\ cache'.high = cache.high + 1 /\ cache'.top = cache.top
    BY <1>1, <1>4 DEF Types, Cache
  <1>6. /\ l \in Place /\ l.pc = "growLink" /\ l.cur = loc[p].cur /\ l.high = loc[p].high
        /\ l.page = loc[p].page
    BY <1>1 DEF Place, Pcs
  <1> HIDE DEF l
  <1>7. /\ loc' \in [Callers -> Place] /\ loc'[p] = l
        /\ \A q \in Callers : q # p => loc'[q] = loc[q] /\ Still(q)
    BY <1>1, <1>6, Moves
  <1>8. Levelled'
    BY <1>1 DEF Ordered, Levelled, EntryFits, HasLevel
  <1>9. Well(p)' /\ Rising(p)'
    BY <1>1, <1>3, <1>6, <1>7 DEF Well, Rising, HasLevel
  <1>10. /\ Len(pages') = 2 * loc'[p].high + 1 /\ cache'.top = Len(pages') - 1
         /\ loc'[p].cur = cache'.top
         /\ cache'.high = loc'[p].high + (IF loc'[p].pc = "growHigh" THEN 0 ELSE 1)
    BY <1>1, <1>3, <1>5, <1>6, <1>7
  <1>11. \A q \in Callers : loc[q].pc = "mapTop" => loc[q].grew
    BY <1>2, Growers
  <1>12. Ordered'
    BY <1>1, <1>2, <1>7, <1>8, <1>9, <1>10, <1>11, GrowthKeeps
  <1>13. Links'
    BY <1>1, <1>6, <1>7, SameLinks DEF OnTheWay
  <1>14. QED
    BY <1>1, <1>5, <1>7, <1>12, <1>13 DEF Types

\* The old top and the new page hang below the new top; the walk goes on at the new page.
LEMMA GrowsLinkWell ==
  ASSUME Shape, Ordered, NEW p \in Callers, GrowLink(p)
  PROVE  Shape' /\ Ordered' /\ oops' = "no"
  <1> USE DEF Shape
  <1> DEFINE t == loc[p].cur
             x == High(loc[p].id, loc[p].high)
             g == [s \in 0..(Size - 1) |-> IF s = x THEN <<"page", t + 1>>
                                            ELSE IF s = loc[p].prefix THEN <<"page", loc[p].page>>
                                            ELSE pages[t][s]]
             l == [loc[p] EXCEPT !.pc = "fill", !.page = t + 1, !.cur = 0]
  <1>1. /\ loc[p].pc = "growLink" /\ oops' = "no" /\ UNCHANGED <<node, next, nextId, cache>>
        /\ loc[p] \in Place /\ pages' = [pages EXCEPT ![t] = g] /\ Goes(p, l)
    BY DEF GrowLink, At, Listed, Types
  <1>2. Growing(p) /\ Rising(p) /\ Inserting(p)
    BY <1>1 DEF Growing, Rising, Inserting
  <1>3. /\ Len(pages) = 2 * loc[p].high + 1 /\ cache.top = Len(pages) - 1
        /\ t = cache.top /\ cache.high = loc[p].high + 1
        /\ HasLevel(loc[p].page, loc[p].high)
    BY <1>1, <1>2 DEF Ordered, Tops, Walks, Well
  <1>4. /\ Len(pages) \in {1, 3, 5} /\ DOMAIN pages = 1..Len(pages)
        /\ \A i \in DOMAIN pages : pages[i] \in Page
    BY PageFacts DEF Ordered
  <1>5. \/ loc[p].high = 1 /\ t = 2 /\ Len(pages) = 3
        \/ loc[p].high = 2 /\ t = 4 /\ Len(pages) = 5
    <2>1. loc[p].high \in 0..3 /\ loc[p].high # 0
      BY <1>1, <1>3 DEF Place, HasLevel, Level
    <2>2. QED
      BY <1>3, <1>4, <2>1
  <1>6. t \in DOMAIN pages /\ t + 1 \in DOMAIN pages /\ t + 1 \in 0..5
        /\ Level(t) = loc[p].high + 1 /\ Level(t + 1) = loc[p].high
    BY <1>4, <1>5 DEF Level
  <1>7. \A s \in 0..(Size - 1) : g[s] \in {pages[t][s], <<"page", loc[p].page>>, <<"page", t + 1>>}
    BY <1>4, <1>6 DEF Page
  <1>8. g \in Page
    <2>1. <<"page", loc[p].page>> \in Entry /\ <<"page", t + 1>> \in Entry
      BY <1>1, <1>6 DEF Entry, Place
    <2>2. QED
      BY <1>4, <1>6, <2>1 DEF Page
  <1> HIDE DEF g
  <1>9. /\ pages' \in Seq(Page) /\ Len(pages') = Len(pages) /\ DOMAIN pages' = DOMAIN pages
        /\ pages'[t] = g /\ \A i \in DOMAIN pages : i # t => pages'[i] = pages[i]
    BY <1>1, <1>6, <1>8 DEF Types
  <1>10. Levelled'
    <2>1. ASSUME NEW i \in DOMAIN pages, NEW s \in 0..(Size - 1)
          PROVE  EntryFits(pages'[i][s], Level(i))
      <3>1. EntryFits(pages[i][s], Level(i))
        BY DEF Ordered, Levelled
      <3>2. CASE i = t
        <4>1. loc[p].high \in Nat \ {0} /\ HasLevel(t + 1, loc[p].high)
          BY <1>5, <1>6 DEF HasLevel
        <4>2. EntryFits(<<"page", loc[p].page>>, loc[p].high + 1)
          BY <1>3, <4>1, PageFits
        <4>3. EntryFits(<<"page", t + 1>>, loc[p].high + 1)
          BY <4>1, PageFits
        <4>4. QED
          BY <1>6, <1>7, <1>9, <3>1, <3>2, <4>2, <4>3
      <3>3. CASE i # t
        BY <1>9, <3>1, <3>3
      <3>4. QED
        BY <3>2, <3>3
    <2>2. \A y, h : EntryFits(y, h)' <=> EntryFits(y, h)
      BY <1>9 DEF EntryFits, HasLevel
    <2>3. Len(pages) = 5 => pages'[5] = ZeroPage
      BY <1>4, <1>5, <1>9 DEF Ordered, Levelled
    <2>4. QED
      BY <1>4, <1>9, <2>1, <2>2, <2>3 DEF Levelled, EntryFits, HasLevel
  <1>11. /\ l \in Place /\ l.pc = "fill" /\ l.page = t + 1 /\ l.high = loc[p].high
    BY <1>1, <1>6 DEF Place, Pcs
  <1> HIDE DEF l
  <1>12. /\ loc' \in [Callers -> Place] /\ loc'[p] = l
         /\ \A q \in Callers : q # p => loc'[q] = loc[q] /\ Still(q)
    BY <1>1, <1>11, Moves
  <1>13. Well(p)' /\ ~Rising(p)'
    BY <1>6, <1>9, <1>11, <1>12 DEF Well, Rising, HasLevel
  <1>14. Steady'
    <2>1. HasLevel(t, loc[p].high + 1)
      BY <1>6 DEF HasLevel
    <2>2. Len(pages) = 2 * (loc[p].high + 1) - 1
      <3>1. \A h \in {1, 2} : 2 * (h + 1) - 1 = 2 * h + 1
        OBVIOUS
      <3>2. QED
        BY <1>3, <1>5, <3>1
    <2>3. QED
      BY <1>1, <1>3, <1>9, <2>1, <2>2 DEF Steady, HasLevel
  <1>15. Len(pages') = 5 => Doomed(p)'
    BY <1>5, <1>9, <1>11, <1>12 DEF Doomed
  <1>16. Ordered'
    BY <1>2, <1>9, <1>10, <1>12, <1>13, <1>14, <1>15, GrowthKeeps
  <1>17. Links'
    BY <1>1, <1>11, <1>12, SameLinks DEF OnTheWay
  <1>18. QED
    BY <1>1, <1>9, <1>12, <1>16, <1>17 DEF Types
-----------------------------------------------------------------------------
(* Look-ups.                                                               *)

\* A look-up notes whether a growth is under way as it begins.
LEMMA MapsWell ==
  ASSUME Shape, Ordered, NEW p \in Callers, NEW id \in Offsets, Map(p, id)
  PROVE  Shape' /\ Ordered' /\ oops' = "no"
  <1> USE DEF Shape
  <1> DEFINE grows == \E q \in Callers : Growing(q)
             l == [Idle EXCEPT !.pc = "mapTop", !.id = id, !.high = cache.high, !.grew = grows]
  <1>1. /\ loc[p].pc = "idle" /\ oops' = "no" /\ UNCHANGED <<node, next, nextId, cache, pages>>
        /\ Goes(p, l)
    BY DEF Map, At, Listed, Table
  <1>2. grows \in BOOLEAN
    OBVIOUS
  <1>3. grows = FALSE => \A q \in Callers : ~Rising(q)
    BY DEF Rising, Growing
  <1> HIDE DEF grows
  <1>4. /\ l \in Place /\ l.pc = "mapTop" /\ l.high = cache.high /\ l.grew = grows
    <2>1. Idle \in Place /\ id \in Nat /\ cache.high \in 0..3
      BY IdleIsPlace, CollectorsAssumption DEF Types, Cache
    <2> DEFINE Asks(k, h, b) == [k EXCEPT !.pc = "mapTop", !.id = id, !.high = h, !.grew = b]
    <2>2. \A k \in Place, h \in 0..3, b \in BOOLEAN :
            /\ Asks(k, h, b) \in Place /\ Asks(k, h, b).pc = "mapTop"
            /\ Asks(k, h, b).high = h /\ Asks(k, h, b).grew = b
      <3> SUFFICES ASSUME NEW k \in Place, NEW h \in 0..3, NEW b \in BOOLEAN
                   PROVE  /\ Asks(k, h, b) \in Place /\ Asks(k, h, b).pc = "mapTop"
                          /\ Asks(k, h, b).high = h /\ Asks(k, h, b).grew = b
        OBVIOUS
      <3>1. QED
        BY <2>1 DEF Place, Pcs
    <2>3. l = Asks(Idle, cache.high, grows)
      OBVIOUS
    <2> HIDE DEF Asks, l
    <2>4. QED
      BY <1>2, <2>1, <2>2, <2>3
  <1> HIDE DEF l
  <1>5. loc'[p] = l /\ \A q \in Callers : q # p => loc'[q] = loc[q]
    BY <1>1, <1>4, Moves
  <1>6. ~Rising(p) /\ ~Doomed(p) /\ ~Rising(p)' /\ ~Growing(p)' /\ ~Inserting(p)'
    BY <1>1, <1>4, <1>5 DEF Rising, Doomed, Growing, Inserting
  <1>7. Well(p)'
    <2>1. cache.high # 0
      BY DEF Types, Cache
    <2>2. ~loc'[p].grew => \A q \in Callers : ~Rising(q)
      BY <1>2, <1>3, <1>4, <1>5
    <2>3. ~loc'[p].grew => \A q \in Callers : ~Rising(q)'
      BY <1>5, <1>6, <2>2 DEF Rising
    <2>4. QED
      BY <1>1, <1>4, <1>5, <2>1, <2>3 DEF Well
  <1>8. QED
    BY <1>1, <1>4, <1>6, <1>7, WalkingOn DEF AtCache

\* It reads the top and the prefix.
LEMMA MapsTopWell ==
  ASSUME Shape, Ordered, NEW p \in Callers, MapTop(p)
  PROVE  Shape' /\ Ordered' /\ oops' = "no"
  <1> USE DEF Shape
  <1> DEFINE l == [loc[p] EXCEPT !.pc = "mapWalk", !.page = cache.top]
  <1>1. /\ loc[p].pc = "mapTop" /\ oops' = "no" /\ UNCHANGED <<node, next, nextId, cache, pages>>
        /\ Goes(p, l) \/ Goes(p, Idle)
    BY DEF MapTop, At, Listed, Table
  <1>2. ~Rising(p) /\ ~Doomed(p)
    BY <1>1 DEF Rising, Doomed
  <1>3. Levelled'
    BY <1>1 DEF Ordered, Levelled, EntryFits, HasLevel
  <1>4. CASE Goes(p, Idle)
    BY <1>1, <1>2, <1>3, <1>4, Leaving DEF Types
  <1>5. CASE Goes(p, l)
    <2>1. /\ l \in Place /\ l.pc = "mapWalk" /\ l.page = cache.top /\ l.high = loc[p].high
          /\ l.grew = loc[p].grew
      <3>1. cache.top \in 0..5 /\ loc[p] \in Place
        BY DEF Types, Cache
      <3>2. QED
        BY <3>1 DEF Place, Pcs
    <2> HIDE DEF l
    <2>2. loc'[p] = l
      BY <1>5, <2>1, Moves
    <2>3. ~Rising(p)' /\ ~Growing(p)' /\ ~Inserting(p)' /\ l.pc \in AtCache
      BY <2>1, <2>2 DEF Rising, Growing, Inserting, AtCache
    <2>4. cache.top \in DOMAIN pages
      BY Settled
    <2>5. loc[p].high # 0 /\ (~loc[p].grew => HasLevel(cache.top, loc[p].high))
      BY <1>1, Settled DEF Ordered, Walks, Well
    <2>6. Well(p)'
      BY <1>1, <2>1, <2>2, <2>4, <2>5 DEF Well, HasLevel
    <2>7. QED
      BY <1>1, <1>2, <1>5, <2>1, <2>3, <2>6, WalkingOn
  <1>6. QED
    BY <1>1, <1>4, <1>5

\* One level down, or to what the last level holds; the kernel dies of something else
\* only under a growth.
LEMMA MapsDownWell ==
  ASSUME Shape, Ordered, NEW p \in Callers, MapWalk(p)
  PROVE  \/ Shape' /\ Ordered' /\ oops' = "no"
         \/ oops' = "wild" /\ loc' = loc /\ loc[p].grew
  <1> USE DEF Shape
  <1> DEFINE e == pages[loc[p].page][Index(loc[p].id, loc[p].high)]
             l == [loc[p] EXCEPT !.page = e[2], !.high = @ - 1]
  <1>1. /\ loc[p].pc = "mapWalk" /\ oops = "no" /\ UNCHANGED <<node, next, nextId, cache, pages>>
        /\ loc[p] \in Place
    BY DEF MapWalk, At, Listed, Table, Types
  <1>2. ~Rising(p) /\ ~Doomed(p)
    BY <1>1 DEF Rising, Doomed
  <1>3. Levelled'
    BY <1>1 DEF Ordered, Levelled, EntryFits, HasLevel
  <1>4. /\ loc[p].page \in DOMAIN pages /\ loc[p].high # 0
        /\ ~loc[p].grew => HasLevel(loc[p].page, loc[p].high)
    BY <1>1 DEF Ordered, Walks, Well
  <1>5. EntryFits(e, Level(loc[p].page)) /\ loc[p].high \in 1..3
    BY <1>1, <1>4, Reads DEF Ordered, Place
  <1>6. ~loc[p].grew => EntryFits(e, loc[p].high)
    BY <1>4, <1>5 DEF HasLevel
  <1> HIDE DEF e
  <1>7. CASE Goes(p, Idle) /\ UNCHANGED oops
    BY <1>1, <1>2, <1>3, <1>7, Leaving DEF Types
  <1>8. CASE loc[p].high > 1 /\ e[1] = "page" /\ Goes(p, l) /\ UNCHANGED oops
    <2>1. e # Null
      BY <1>8 DEF Null
    <2>2. HasLevel(e[2], Level(loc[p].page) - 1)
      BY <1>5, <1>8, <2>1 DEF EntryFits
    <2>3. e[2] \in DOMAIN pages /\ e[2] \in 0..5 /\ loc[p].high - 1 \in 0..3 /\ loc[p].high - 1 # 0
      BY <1>5, <1>8, <2>2, PageFacts DEF HasLevel, Ordered
    <2>4. /\ l \in Place /\ l.pc = "mapWalk" /\ l.page = e[2] /\ l.high = loc[p].high - 1
          /\ l.grew = loc[p].grew
      BY <1>1, <2>3 DEF Place
    <2>5. ~loc[p].grew => HasLevel(e[2], loc[p].high - 1)
      BY <1>6, <1>8, <2>1 DEF EntryFits
    <2> HIDE DEF l
    <2>6. loc'[p] = l
      BY <1>8, <2>4, Moves
    <2>7. ~Rising(p)' /\ ~Growing(p)' /\ ~Inserting(p)' /\ l.pc \in AtCache
      BY <2>4, <2>6 DEF Rising, Growing, Inserting, AtCache
    <2>8. Well(p)'
      BY <1>1, <2>3, <2>4, <2>5, <2>6 DEF Well, HasLevel
    <2>9. QED
      BY <1>1, <1>2, <1>8, <2>4, <2>7, <2>8, WalkingOn
  <1>9. CASE /\ e[1] = IF loc[p].high = 1 THEN "page" ELSE "node"
             /\ oops' = "wild" /\ UNCHANGED loc
    <2>1. ~EntryFits(e, loc[p].high)
      BY <1>5, <1>9 DEF EntryFits, Null
    <2>2. QED
      BY <1>6, <1>9, <2>1
  <1>10. QED
    BY <1>1, <1>7, <1>8, <1>9 DEF MapWalk, e, l

-----------------------------------------------------------------------------
(* What follows.                                                           *)

\* Only a kernel that lives does anything, and what is torn stays so.
LEMMA Runs ==
  ASSUME Next
  PROVE  oops = "no" /\ (torn => torn')
  <1>1. Boot => oops = "no" /\ torn' = torn
    BY DEF Boot, At
  <1>2. ASSUME NEW p \in Callers,
               \/ Create(p) \/ Lookup(p) \/ Scan(p) \/ IdRead(p) \/ IdWrite(p) \/ Link(p)
               \/ Publish(p) \/ MapTop(p) \/ MapWalk(p) \/ \E id \in Offsets : Map(p, id)
        PROVE  oops = "no" /\ torn' = torn
    BY <1>2 DEF Create, Lookup, Scan, IdRead, IdWrite, Link, Publish, MapTop, MapWalk, Map, At
  <1>3. ASSUME NEW p \in Callers,
               \/ Insert(p) \/ InsertTop(p) \/ Grow(p) \/ GrowHigh(p) \/ GrowLink(p)
               \/ Fill(p) \/ Store(p)
        PROVE  oops = "no" /\ (torn => torn')
    <2>1. oops = "no"
      BY <1>3 DEF Insert, InsertTop, Grow, GrowHigh, GrowLink, Fill, Store, At
    <2>2. torn => torn'
      BY <1>3 DEF Insert, InsertTop, Grow, GrowHigh, GrowLink, Fill, Store
    <2>3. QED
      BY <2>1, <2>2
  <1>4. QED
    BY <1>1, <1>2, <1>3 DEF Next, Making

\* The invariant holds in every state.
LEMMA CacheInvHolds == Spec => []CacheInv
  <1>1. CacheInv /\ [Next]_vars => CacheInv'
    <2> SUFFICES ASSUME CacheInv, [Next]_vars, ~torn' PROVE CacheInv'
      BY DEF CacheInv
    <2>1. CASE UNCHANGED vars
      BY <2>1 DEF vars, CacheInv, Shape, Ordered, Types, Links, Levelled, EntryFits, HasLevel,
                  Alone, Growing, Inserting, Tops, Rising, Doomed, Steady, Walks, Well
    <2>2. ASSUME Shape' /\ Ordered' /\ oops' = "no" PROVE CacheInv'
      BY <2>2 DEF CacheInv
    <2>3. CASE Next
      <3>1. oops = "no" /\ ~torn
        BY <2>3, Runs
      <3>2. Shape /\ Ordered
        BY <3>1 DEF CacheInv
      <3>3. CASE Boot \/ \E p \in Callers : Create(p)
        BY <2>2, <3>2, <3>3, BeginsWell
      <3>4. ASSUME NEW p \in Callers, Making(p) PROVE CacheInv'
        <4>1. CASE Lookup(p) \/ Scan(p) \/ IdRead(p) \/ IdWrite(p) \/ Link(p) \/ Publish(p)
          BY <2>2, <3>2, <4>1, ListsWell
        <4>2. CASE Insert(p) \/ InsertTop(p)
          BY <2>2, <3>2, <4>2, InsertsWell, ReadsTopWell
        <4>3. CASE Grow(p) \/ GrowHigh(p) \/ GrowLink(p)
          BY <2>2, <3>2, <4>3, GrowsWell, GrowsHighWell, GrowsLinkWell
        <4>4. CASE Fill(p)
          <5>1. (Shape' /\ Ordered' /\ oops' = "no") \/ oops' = "null"
            BY <3>2, <4>4, FillsWell
          <5>2. QED
            BY <2>2, <5>1 DEF CacheInv
        <4>5. CASE Store(p)
          BY <2>2, <3>2, <4>5, StoresWell
        <4>6. QED
          BY <3>4, <4>1, <4>2, <4>3, <4>4, <4>5 DEF Making
      <3>5. ASSUME NEW p \in Callers, MapTop(p) PROVE CacheInv'
        BY <2>2, <3>2, <3>5, MapsTopWell
      <3>6. ASSUME NEW p \in Callers, MapWalk(p) PROVE CacheInv'
        <4>1. (Shape' /\ Ordered' /\ oops' = "no") \/ (oops' = "wild" /\ loc' = loc /\ loc[p].grew)
          BY <3>2, <3>6, MapsDownWell
        <4>2. QED
          BY <2>2, <4>1 DEF CacheInv
      <3>7. ASSUME NEW p \in Callers, NEW id \in Offsets, Map(p, id) PROVE CacheInv'
        BY <2>2, <3>2, <3>7, MapsWell
      <3>8. QED
        BY <2>3, <3>3, <3>4, <3>5, <3>6, <3>7 DEF Next
    <2>4. QED
      BY <2>1, <2>3
  <1>2. QED
    BY <1>1, InitCache, PTL DEF Spec

\* cache_id_lookup takes only collectors for collectors, unless the cache grew while it
\* looked or had grown under two callers at once: for pages of any size, any number of
\* callers and any order of creations.
THEOREM LookupsFindCollectors == Spec => []MapsCollectors
  <1>1. CacheInv => MapsCollectors
    BY DEF CacheInv, MapsCollectors
  <1>2. QED
    BY <1>1, CacheInvHolds, PTL

\* The same invariant of the cache, of interest by itself: its pages are a tree of the
\* depth that its header says.
THEOREM PagesAreLevels == Spec => [](oops = "no" /\ ~torn => Levelled /\ Tops)
  <1>1. CacheInv => (oops = "no" /\ ~torn => Levelled /\ Tops)
    BY DEF CacheInv, Ordered
  <1>2. QED
    BY <1>1, CacheInvHolds, PTL

-----------------------------------------------------------------------------
(* The list of collectors.  Nothing of this depends on the cache.          *)

Outside == {"idle", "boot", "mapTop", "mapWalk"}
Placed  == {"insert", "top", "grow", "growHigh", "growLink", "fill", "store"}
Holding == {"link", "publish"} \cup Placed

Seated(l) ==
  /\ DOMAIN l = {"pc", "name", "cur", "node", "id", "high", "page", "prefix", "met", "grew"}
  /\ l.pc \in Pcs /\ l.name \in Nat /\ l.id \in Nat /\ l.met \in SUBSET Nat
ListTypes ==
  /\ node \in Seq(Collector) /\ nextId \in Nat
  /\ DOMAIN cache = {"on", "high", "prefix", "top"} /\ cache.on \in BOOLEAN
  /\ DOMAIN loc = Callers
  /\ \A p \in Callers : Seated(loc[p])

\* Every creation has a node of its own, which is in the list from Link on.
Owned ==
  /\ 0 \in DOMAIN next /\ DOMAIN next \subseteq 0..Len(node)
  /\ next \in [DOMAIN next -> DOMAIN next]
  /\ \A p \in Callers : loc[p].pc \in Holding =>
       /\ loc[p].node \in Nodes
       /\ ~node[loc[p].node].done /\ node[loc[p].node].name = loc[p].name
       /\ node[loc[p].node].id = loc[p].id
       /\ loc[p].node \in DOMAIN next <=> loc[p].pc # "link"
  /\ \A p, q \in Callers :
       loc[p].pc \in Holding /\ loc[q].pc \in Holding /\ loc[p].node = loc[q].node => p = q
  /\ \A n \in Nodes : node[n].done => n \in DOMAIN next
  /\ \A n \in Nodes : node[n].cached => node[n].done

\* Those who are at it together know each other's names, and a collector that is made knows
\* those of older ones that are still being made.
Acquainted == \A p, q \in Callers : Creating(p) /\ Creating(q) /\ p # q => loc[q].name \in loc[p].met
Overtook ==
  \A n \in Nodes, p \in Callers :
    node[n].done /\ loc[p].pc \in Holding /\ loc[p].node < n => loc[p].name \in node[n].met

\* Nothing is cached before there is a cache.
Early ==
  /\ loc[Loader].pc = "boot" => ~cache.on
  /\ ~cache.on => /\ \A n \in Nodes : ~node[n].cached
                  /\ \A p \in Callers : loc[p].pc \notin AtCache

Basics == ListTypes /\ Owned /\ Acquainted /\ Overtook /\ Early

\* The nodes have an order that the list follows, and so do the links that callers are
\* about to make.
Along(pos) ==
  /\ pos[0] = 0
  /\ \A m, n \in DOMAIN next : pos[m] = pos[n] => m = n
  /\ \A u \in DOMAIN next : next[u] # 0 => pos[u] < pos[next[u]]
  /\ \A p \in Callers : loc[p].pc = "publish" => pos[loc[p].cur] < pos[loc[p].node]

\* G has all nodes that are in the list or may come into it (again).
Pending(n) == \E p \in Callers : loc[p].pc = "publish" /\ n = loc[p].node
Reach(G) ==
  /\ 0 \in G /\ \A u \in G : next[u] \in G
  /\ \A p \in Callers : /\ loc[p].pc \in OnTheWay => loc[p].cur \in G
                        /\ loc[p].pc = "publish" => loc[p].node \in G
Edge(G, u, v) ==
  \/ u \in G /\ v = next[u]
  \/ \E p \in Callers : loc[p].pc = "publish" /\ u = loc[p].cur /\ v = loc[p].node

\* Nodes that were made alone are not left out; as long as a caller is alone, none is, but
\* for its own where it is to be put.
Jumps(pos, u, v, n) == pos[u] < pos[n] /\ (v = 0 \/ pos[n] < pos[v])
Single(p)  == Creating(p) /\ loc[p].met = {}
Unmet(n) == n \in Nodes /\ node[n].done /\ node[n].met = {}
Solo(n) ==
  \/ Unmet(n)
  \/ \E p \in Callers : Single(p) /\ loc[p].pc \in Placed /\ n = loc[p].node
NoneLost(pos, G) ==
  /\ \A n \in Nodes : Solo(n) => n \in G /\ \A u, v \in DOMAIN next : Edge(G, u, v) => ~Jumps(pos, u, v, n)
  /\ \A p \in Callers : Single(p) =>
       /\ \A n \in G : ~Pending(n) => \A u, v \in DOMAIN next : Edge(G, u, v) => ~Jumps(pos, u, v, n)
       /\ loc[p].pc = "publish" =>
            \A u, v \in DOMAIN next : Edge(G, u, v) /\ u # loc[p].cur => ~Jumps(pos, u, v, loc[p].node)

\* A caller that looks for a name has not passed it, and goes no further: except for the
\* main collector, which the loader makes without a look.
Ahead(pos, p, n) ==
  \/ loc[p].pc = "lookup" /\ loc[p].cur # 0 /\ pos[loc[p].cur] <= pos[n]
  \/ loc[p].name = Main /\ ~node[n].cached
NoneTwice(pos, G) ==
  /\ \A p \in Callers, n \in Nodes : Creating(p) /\ node[n].name = loc[p].name =>
       /\ Unmet(n) => Ahead(pos, p, n)
       /\ Single(p) /\ n \in G /\ ~(loc[p].pc \in Holding /\ n = loc[p].node) => Ahead(pos, p, n)
  /\ \A m, n \in Nodes :
       Unmet(n) /\ m \in G /\ node[m].done /\ m # n /\ node[m].name = node[n].name =>
         node[n].name = Main /\ FALSE \in {node[m].cached, node[n].cached}

Lined(pos, G) == Along(pos) /\ Reach(G) /\ NoneLost(pos, G) /\ NoneTwice(pos, G)
Orders == [DOMAIN next -> 0..(Cardinality(DOMAIN next) - 1)]
ListInv == Basics /\ \E pos \in Orders, G \in SUBSET DOMAIN next : Lined(pos, G)

-----------------------------------------------------------------------------
(* What a step does to the list and to those who are at it.                *)

Rests(q) == /\ loc'[q].pc = loc[q].pc /\ loc'[q].name = loc[q].name /\ loc'[q].cur = loc[q].cur
            /\ loc'[q].node = loc[q].node /\ loc'[q].id = loc[q].id /\ loc'[q].met = loc[q].met
OthersRest(p) == \A q \in Callers : q # p => Rests(q)
Keeps(p) == loc'[p].name = loc[p].name /\ loc'[p].node = loc[p].node /\ loc'[p].met = loc[p].met
Holds(p) == Keeps(p) /\ loc'[p].id = loc[p].id

\* Along the list, at the cache, or off.
GoesOn(p) ==
  /\ node' = node /\ next' = next /\ OthersRest(p)
  /\ loc[p].pc # "publish" /\ loc'[p].pc # "boot" /\ (loc'[p].pc \in AtCache => cache.on)
  /\ \/ loc'[p].pc \in Outside
     \/ Holds(p) /\ loc[p].pc \in Placed /\ loc'[p].pc \in Placed
     \/ /\ Keeps(p) /\ loc[p].pc \in {"scan", "idRead"} /\ loc'[p].pc \in {"scan", "idRead", "idWrite"}
        /\ loc'[p].cur \in {loc[p].cur, next[loc[p].cur]}
     \/ /\ Keeps(p) /\ loc[p].pc = "lookup" /\ loc[p].cur = 0
        /\ loc'[p].pc = "scan" /\ loc'[p].cur = next[0]
     \/ /\ Keeps(p) /\ loc[p].pc = "lookup" /\ loc[p].cur # 0 /\ node[loc[p].cur].name # loc[p].name
        /\ loc'[p].pc = "lookup" /\ loc'[p].cur = next[loc[p].cur]

Makes(p) ==
  /\ next' = next /\ OthersRest(p) /\ loc[p].pc = "idWrite"
  /\ \E c \in Collector : /\ c.name = loc[p].name /\ c.id = loc[p].id
                          /\ ~c.done /\ c.met = {} /\ ~c.cached
                          /\ node' = Append(node, c)
  /\ loc'[p].pc = "link" /\ loc'[p].node = Len(node) + 1 /\ loc'[p].cur = loc[p].cur
  /\ loc'[p].name = loc[p].name /\ loc'[p].met = loc[p].met /\ loc'[p].id = loc[p].id

HangsOn(p) ==
  /\ node' = node /\ OthersRest(p) /\ Holds(p) /\ loc'[p].cur = loc[p].cur
  /\ loc[p].pc = "link" /\ loc'[p].pc = "publish"
  /\ next' = [n \in DOMAIN next \cup {loc[p].node} |->
                IF n = loc[p].node THEN next[loc[p].cur] ELSE next[n]]

Publishes(p) ==
  /\ node' = node /\ OthersRest(p) /\ Holds(p)
  /\ loc[p].pc = "publish" /\ loc'[p].pc = "insert"
  /\ next' = [next EXCEPT ![loc[p].cur] = loc[p].node]

\* The new collector may be the one of another caller for all this says.
Finishes(p) ==
  /\ next' = next /\ OthersRest(p) /\ loc[p].pc \in Placed /\ loc'[p].pc = "idle"
  /\ \E c \in BOOLEAN :
       /\ c => cache.on
       /\ node' = [node EXCEPT ![loc[p].node] = [@ EXCEPT !.done = TRUE, !.met = loc[p].met, !.cached = c]]

\* One caller moves.
LEMMA Turns ==
  ASSUME ListTypes, NEW p \in Callers, NEW l, Goes(p, l), Seated(l)
  PROVE  /\ DOMAIN loc' = Callers /\ loc'[p] = l /\ OthersRest(p)
         /\ \A q \in Callers : Seated(loc'[q])
  <1>1. DOMAIN loc' = Callers /\ loc'[p] = l /\ \A q \in Callers : q # p => loc'[q] = loc[q]
    BY DEF Goes, ListTypes
  <1>2. QED
    BY <1>1 DEF OthersRest, Rests, ListTypes

\* What the growth writes.
LEMMA GrowWrites ==
  ASSUME NEW p \in Callers, Grow(p)
  PROVE  /\ loc[p].pc = "grow" /\ UNCHANGED <<node, next, nextId>>
         /\ cache' = [cache EXCEPT !.top = Len(pages) + 1, !.prefix = High(loc[p].id, loc[p].high + 1)]
         /\ loc' = [q \in Callers |->
                      CASE q = p      -> [loc[q] EXCEPT !.pc = "growHigh", !.cur = Len(pages) + 1]
                        [] Mapping(q) -> [loc[q] EXCEPT !.grew = TRUE]
                        [] OTHER      -> loc[q]]
  <1> DEFINE to(q) == CASE q = p      -> [loc[q] EXCEPT !.pc = "growHigh", !.cur = Len(pages) + 1]
                        [] Mapping(q) -> [loc[q] EXCEPT !.grew = TRUE]
                        [] OTHER      -> loc[q]
  <1>1. loc[p].pc = "grow" /\ UNCHANGED <<node, next, nextId>>
    BY DEF Grow, At, Listed
  <1>2. cache' = [cache EXCEPT !.top = Len(pages) + 1, !.prefix = High(loc[p].id, loc[p].high + 1)]
    BY DEF Grow
  <1>3. loc' = [q \in Callers |-> to(q)]
    BY DEF Grow
  <1>4. QED
    BY <1>1, <1>2, <1>3

\* Each step of a caller is, for the list, of one of five kinds.
LEMMA Steps ==
  ASSUME Basics, NEW p \in Callers, Making(p) \/ MapTop(p) \/ MapWalk(p) \/ \E id \in Offsets : Map(p, id)
  PROVE  /\ ListTypes' /\ cache'.on = cache.on
         /\ GoesOn(p) \/ Makes(p) \/ HangsOn(p) \/ Publishes(p) \/ Finishes(p)
  <1> USE DEF Basics
  <1>1. Seated(loc[p]) /\ Seated(Idle) /\ Idle.pc = "idle"
    BY DEF ListTypes, Seated, Idle, Pcs
  <1>10. loc[p].pc \in AtCache => cache.on
    BY DEF Early
  <1>2. CASE Lookup(p)
    <2>1. CASE Goes(p, Idle)
      BY <1>1, <1>2, <2>1, Turns DEF Lookup, At, Listed, Table, ListTypes, GoesOn, Outside, AtCache
    <2>2. CASE loc[p].cur = 0 /\ Goes(p, [loc[p] EXCEPT !.pc = "scan", !.cur = next[0]])
      <3> DEFINE l == [loc[p] EXCEPT !.pc = "scan", !.cur = next[0]]
      <3>1. Seated(l) /\ l.pc = "scan" /\ l.cur = next[0] /\ l.name = loc[p].name /\ l.node = loc[p].node
            /\ l.met = loc[p].met
        BY <1>1 DEF Seated, Pcs
      <3> HIDE DEF l
      <3>2. QED
        BY <1>1, <1>2, <2>2, <3>1, Turns DEF l, Lookup, Listed, Table, ListTypes, GoesOn, Keeps, At, AtCache
    <2>3. CASE /\ loc[p].cur # 0 /\ node[loc[p].cur].name # loc[p].name
               /\ Goes(p, [loc[p] EXCEPT !.cur = next[loc[p].cur]])
      <3> DEFINE l == [loc[p] EXCEPT !.cur = next[loc[p].cur]]
      <3>1. /\ Seated(l) /\ l.cur = next[loc[p].cur] /\ l.pc = loc[p].pc
            /\ l.name = loc[p].name /\ l.node = loc[p].node /\ l.met = loc[p].met
        BY <1>1 DEF Seated
      <3> HIDE DEF l
      <3>2. QED
        BY <1>1, <1>2, <2>3, <3>1, Turns DEF l, Lookup, Listed, Table, ListTypes, GoesOn, Keeps, At, AtCache
    <2>4. QED
      BY <1>2, <2>1, <2>2, <2>3 DEF Lookup
  <1>3. CASE Scan(p)
    <2>1. CASE Goes(p, Idle)
      BY <1>1, <1>3, <2>1, Turns DEF Scan, At, Listed, Table, ListTypes, GoesOn, Outside, AtCache
    <2>2. CASE Goes(p, [loc[p] EXCEPT !.cur = next[loc[p].cur]])
      <3> DEFINE l == [loc[p] EXCEPT !.cur = next[loc[p].cur]]
      <3>1. /\ Seated(l) /\ l.cur = next[loc[p].cur] /\ l.pc = loc[p].pc
            /\ l.name = loc[p].name /\ l.node = loc[p].node /\ l.met = loc[p].met
        BY <1>1 DEF Seated
      <3> HIDE DEF l
      <3>2. QED
        BY <1>1, <1>3, <2>2, <3>1, Turns DEF l, Scan, Listed, Table, ListTypes, GoesOn, Keeps, At, AtCache
    <2>3. CASE Goes(p, [loc[p] EXCEPT !.pc = "idRead"])
      <3> DEFINE l == [loc[p] EXCEPT !.pc = "idRead"]
      <3>1. /\ Seated(l) /\ l.cur = loc[p].cur /\ l.pc = "idRead"
            /\ l.name = loc[p].name /\ l.node = loc[p].node /\ l.met = loc[p].met
        BY <1>1 DEF Seated, Pcs
      <3> HIDE DEF l
      <3>2. QED
        BY <1>1, <1>3, <2>3, <3>1, Turns DEF l, Scan, Listed, Table, ListTypes, GoesOn, Keeps, At, AtCache
    <2>4. QED
      BY <1>3, <2>1, <2>2, <2>3 DEF Scan
  <1>4. CASE IdRead(p)
    <2> DEFINE l == [loc[p] EXCEPT !.pc = "idWrite", !.id = nextId]
    <2>1. /\ Seated(l) /\ l.cur = loc[p].cur /\ l.pc = "idWrite"
          /\ l.name = loc[p].name /\ l.node = loc[p].node /\ l.met = loc[p].met
      BY <1>1 DEF Seated, Pcs, ListTypes
    <2>2. Goes(p, l) /\ loc[p].pc = "idRead" /\ UNCHANGED <<node, next, nextId, cache>>
      BY <1>4 DEF IdRead, At, Listed, Table
    <2> HIDE DEF l
    <2>3. QED
      BY <1>1, <2>1, <2>2, Turns DEF ListTypes, GoesOn, Keeps, AtCache
  <1>5. CASE IdWrite(p)
    <2> DEFINE c == [name |-> loc[p].name, id |-> loc[p].id, met |-> {}, done |-> FALSE, cached |-> FALSE]
               l == [loc[p] EXCEPT !.pc = "link", !.node = Len(node')]
    <2>1. loc[p].pc = "idWrite" /\ nextId' \in Nat /\ UNCHANGED <<next, cache>>
      BY <1>1, <1>5 DEF IdWrite, At, Table, Seated
    <2>2. CASE Goes(p, Idle) /\ node' = node
      BY <1>1, <2>1, <2>2, Turns DEF ListTypes, GoesOn, Outside, AtCache
    <2>3. CASE Goes(p, l) /\ node' = Append(node, c)
      <3>1. c \in Collector /\ c.name = loc[p].name /\ c.id = loc[p].id /\ ~c.done /\ c.met = {} /\ ~c.cached
        BY <1>1 DEF Seated, Collector
      <3>2. /\ Seated(l) /\ l.pc = "link" /\ l.node = Len(node') /\ l.cur = loc[p].cur
            /\ l.name = loc[p].name /\ l.id = loc[p].id /\ l.met = loc[p].met
        BY <1>1 DEF Seated, Pcs
      <3> HIDE DEF c, l
      <3>3. node' \in Seq(Collector) /\ Len(node') = Len(node) + 1
        BY <2>3, <3>1 DEF ListTypes
      <3>4. QED
        BY <2>1, <2>3, <3>1, <3>2, <3>3, Turns DEF ListTypes, Makes
    <2>4. QED
      BY <1>5, <2>2, <2>3 DEF IdWrite
  <1>6. CASE Link(p)
    <2> DEFINE l == [loc[p] EXCEPT !.pc = "publish"]
    <2>1. /\ Seated(l) /\ l.cur = loc[p].cur /\ l.pc = "publish"
          /\ l.name = loc[p].name /\ l.node = loc[p].node /\ l.id = loc[p].id /\ l.met = loc[p].met
      BY <1>1 DEF Seated, Pcs
    <2>2. /\ Goes(p, l) /\ loc[p].pc = "link" /\ UNCHANGED <<node, nextId, cache>>
          /\ next' = [n \in DOMAIN next \cup {loc[p].node} |->
                        IF n = loc[p].node THEN next[loc[p].cur] ELSE next[n]]
      BY <1>6 DEF Link, At, Table
    <2> HIDE DEF l
    <2>3. QED
      BY <1>1, <2>1, <2>2, Turns DEF ListTypes, HangsOn, Holds, Keeps
  <1>7. CASE Publish(p)
    <2> DEFINE l == [loc[p] EXCEPT !.pc = "insert"]
    <2>1. /\ Seated(l) /\ l.cur = loc[p].cur /\ l.pc = "insert"
          /\ l.name = loc[p].name /\ l.node = loc[p].node /\ l.id = loc[p].id /\ l.met = loc[p].met
      BY <1>1 DEF Seated, Pcs
    <2>2. /\ Goes(p, l) /\ loc[p].pc = "publish" /\ UNCHANGED <<node, nextId, cache>>
          /\ next' = [next EXCEPT ![loc[p].cur] = loc[p].node]
      BY <1>7 DEF Publish, At, Table
    <2> HIDE DEF l
    <2>3. QED
      BY <1>1, <2>1, <2>2, Turns DEF ListTypes, Publishes, Holds, Keeps
  <1>8. ASSUME NEW c \in BOOLEAN, Finish(p, c), loc[p].pc \in Placed, c => cache.on,
               UNCHANGED <<next, nextId>>
        PROVE  DOMAIN loc' = Callers /\ (\A q \in Callers : Seated(loc'[q])) /\ node' \in Seq(Collector)
               /\ Finishes(p)
    <2>1. /\ DOMAIN loc' = Callers /\ loc'[p] = Idle /\ OthersRest(p)
          /\ \A q \in Callers : Seated(loc'[q])
      BY <1>1, <1>8, Turns DEF Finish
    <2>2. node' = [node EXCEPT ![loc[p].node] = [@ EXCEPT !.done = TRUE, !.met = loc[p].met, !.cached = c]]
      BY <1>8 DEF Finish
    <2>4. node' \in Seq(Collector)
      BY <1>1, <1>8, Ending DEF ListTypes, Seated
    <2>5. QED
      BY <1>1, <1>8, <2>1, <2>2, <2>4, Zenon DEF Finishes
  \* Within the cache.
  <1>9. ASSUME NEW l, Goes(p, l), Seated(l), loc[p].pc \in Placed, l.pc \in Placed,
               l.name = loc[p].name, l.node = loc[p].node, l.id = loc[p].id, l.met = loc[p].met,
               loc[p].pc \in AtCache \/ cache.on, UNCHANGED <<node, next, nextId>>
        PROVE  DOMAIN loc' = Callers /\ (\A q \in Callers : Seated(loc'[q])) /\ GoesOn(p)
    <2>1. /\ DOMAIN loc' = Callers /\ loc'[p] = l /\ OthersRest(p)
          /\ \A q \in Callers : Seated(loc'[q])
      BY <1>9, Turns
    <2>2. QED
      BY <1>9, <1>10, <2>1 DEF GoesOn, Holds, Keeps, Placed
  <1>11. CASE Insert(p)
    <2>1. loc[p].pc = "insert" /\ UNCHANGED <<next, nextId, cache>>
      BY <1>11 DEF Insert, At, Table
    <2>2. CASE ~cache.on /\ Finish(p, FALSE)
      BY <1>8, <2>1, <2>2 DEF Placed, ListTypes
    <2>3. CASE cache.on /\ Goes(p, [loc[p] EXCEPT !.pc = "top", !.high = cache.high]) /\ node' = node
      <3> DEFINE l == [loc[p] EXCEPT !.pc = "top", !.high = cache.high]
      <3>1. /\ Seated(l) /\ l.pc = "top"
            /\ l.name = loc[p].name /\ l.node = loc[p].node /\ l.id = loc[p].id /\ l.met = loc[p].met
        BY <1>1 DEF Seated, Pcs
      <3> HIDE DEF l
      <3>2. QED
        BY <1>9, <2>1, <2>3, <3>1 DEF l, Placed, AtCache, ListTypes
    <2>4. QED
      BY <1>11, <2>2, <2>3 DEF Insert
  <1>12. CASE InsertTop(p)
    <2> DEFINE l == [loc[p] EXCEPT !.pc = IF Fits(loc[p]) THEN "fill" ELSE "grow", !.page = cache.top,
                                   !.prefix = cache.prefix]
    <2>1. loc[p].pc = "top" /\ UNCHANGED <<node, next, nextId, cache>> /\ Goes(p, l)
      BY <1>12 DEF InsertTop, At, Listed, Table
    <2>2. /\ Seated(l) /\ l.pc \in {"fill", "grow"}
          /\ l.name = loc[p].name /\ l.node = loc[p].node /\ l.id = loc[p].id /\ l.met = loc[p].met
      BY <1>1 DEF Seated, Pcs
    <2> HIDE DEF l
    <2>3. QED
      BY <1>9, <2>1, <2>2 DEF Placed, AtCache, ListTypes
  <1>13. CASE Grow(p)
    <2> DEFINE to(q) == CASE q = p      -> [loc[q] EXCEPT !.pc = "growHigh", !.cur = Len(pages) + 1]
                          [] Mapping(q) -> [loc[q] EXCEPT !.grew = TRUE]
                          [] OTHER      -> loc[q]
    <2>0. loc[p].pc = "grow" /\ UNCHANGED <<node, next, nextId>>
      BY <1>13, GrowWrites
    <2>1. cache' = [cache EXCEPT !.top = Len(pages) + 1, !.prefix = High(loc[p].id, loc[p].high + 1)]
      BY <1>13, GrowWrites
    <2>2. loc' = [q \in Callers |-> to(q)]
      BY <1>13, GrowWrites
    <2>3. DOMAIN cache' = DOMAIN cache /\ cache'.on = cache.on
      BY <2>1 DEF ListTypes
    <2>4. /\ Seated(loc'[p]) /\ loc'[p].pc = "growHigh" /\ Holds(p)
      <3> DEFINE l == [loc[p] EXCEPT !.pc = "growHigh", !.cur = Len(pages) + 1]
      <3>1. /\ Seated(l) /\ l.pc = "growHigh"
            /\ l.name = loc[p].name /\ l.node = loc[p].node /\ l.id = loc[p].id /\ l.met = loc[p].met
        BY <1>1 DEF Seated, Pcs
      <3>2. loc'[p] = l
        <4>1. loc'[p] = to(p)
          BY <2>2
        <4>2. to(p) = l
          BY <2>0 DEF Mapping
        <4>3. QED
          BY <4>1, <4>2
      <3> HIDE DEF l
      <3>3. QED
        BY <3>1, <3>2 DEF Holds, Keeps
    <2>5. ASSUME NEW q \in Callers, q # p PROVE Seated(loc'[q]) /\ Rests(q)
      <3>1. CASE loc'[q] = loc[q]
        BY <3>1 DEF Rests, ListTypes
      <3>2. CASE loc'[q] = [loc[q] EXCEPT !.grew = TRUE]
        BY <3>2 DEF Rests, ListTypes, Seated
      <3>3. QED
        BY <2>2, <2>5, <3>1, <3>2
    <2>6. DOMAIN loc' = Callers
      BY <2>2
    <2>7. QED
      BY <2>0, <2>3, <2>4, <2>5, <2>6, <1>10 DEF ListTypes, GoesOn, OthersRest, Placed, AtCache
  <1>14. CASE GrowHigh(p)
    <2> DEFINE l == [loc[p] EXCEPT !.pc = "growLink"]
    <2>1. /\ loc[p].pc = "growHigh" /\ UNCHANGED <<node, next, nextId>> /\ Goes(p, l)
          /\ cache' = [cache EXCEPT !.high = @ + 1]
      BY <1>14 DEF GrowHigh, At, Listed
    <2>2. DOMAIN cache' = DOMAIN cache /\ cache'.on = cache.on
      BY <2>1 DEF ListTypes
    <2>3. /\ Seated(l) /\ l.pc = "growLink"
          /\ l.name = loc[p].name /\ l.node = loc[p].node /\ l.id = loc[p].id /\ l.met = loc[p].met
      BY <1>1 DEF Seated, Pcs
    <2> HIDE DEF l
    <2>4. QED
      BY <1>9, <2>1, <2>2, <2>3 DEF Placed, AtCache, ListTypes
  <1>15. CASE GrowLink(p)
    <2> DEFINE l == [loc[p] EXCEPT !.pc = "fill", !.page = loc[p].cur + 1, !.cur = 0]
    <2>1. loc[p].pc = "growLink" /\ UNCHANGED <<node, next, nextId, cache>> /\ Goes(p, l)
      BY <1>15 DEF GrowLink, At, Listed
    <2>2. /\ Seated(l) /\ l.pc = "fill"
          /\ l.name = loc[p].name /\ l.node = loc[p].node /\ l.id = loc[p].id /\ l.met = loc[p].met
      BY <1>1 DEF Seated, Pcs
    <2> HIDE DEF l
    <2>3. QED
      BY <1>9, <2>1, <2>2 DEF Placed, AtCache, ListTypes
  <1>16. CASE Fill(p)
    <2> DEFINE e == pages[loc[p].page][Index(loc[p].id, loc[p].high)]
    <2>1. loc[p].pc = "fill" /\ UNCHANGED <<next, nextId, cache>>
      BY <1>16 DEF Fill, At, Table
    <2>2. CASE Goes(p, [loc[p] EXCEPT !.pc = "store"]) /\ node' = node
      <3> DEFINE l == [loc[p] EXCEPT !.pc = "store"]
      <3>1. /\ Seated(l) /\ l.pc = "store"
            /\ l.name = loc[p].name /\ l.node = loc[p].node /\ l.id = loc[p].id /\ l.met = loc[p].met
        BY <1>1 DEF Seated, Pcs
      <3> HIDE DEF l
      <3>2. QED
        BY <1>9, <2>1, <2>2, <3>1 DEF l, Placed, AtCache, ListTypes
    <2>3. CASE Finish(p, TRUE)
      BY <1>8, <1>10, <2>1, <2>3 DEF Placed, AtCache, ListTypes
    <2>4. CASE Goes(p, [loc[p] EXCEPT !.page = e[2], !.high = @ - 1]) /\ node' = node
      <3> DEFINE l == [loc[p] EXCEPT !.page = e[2], !.high = @ - 1]
      <3>1. /\ Seated(l) /\ l.pc = loc[p].pc
            /\ l.name = loc[p].name /\ l.node = loc[p].node /\ l.id = loc[p].id /\ l.met = loc[p].met
        BY <1>1 DEF Seated, Pcs
      <3> HIDE DEF l
      <3>2. QED
        BY <1>9, <2>1, <2>4, <3>1 DEF l, Placed, AtCache, ListTypes
    <2>5. CASE UNCHANGED <<node, loc>>
      BY <1>10, <2>1, <2>5 DEF ListTypes, AtCache, GoesOn, OthersRest, Rests, Holds, Keeps, Placed
    <2>6. QED
      BY <1>16, <2>2, <2>3, <2>4, <2>5 DEF Fill
  <1>17. CASE Store(p)
    <2>1. loc[p].pc = "store" /\ UNCHANGED <<next, nextId, cache>> /\ Finish(p, TRUE)
      BY <1>17 DEF Store, At
    <2>2. QED
      BY <1>8, <1>10, <2>1 DEF Placed, AtCache, ListTypes
  \* Off the list.
  <1>18. ASSUME NEW l, Goes(p, l), Seated(l), l.pc \in Outside \ {"boot"}, loc[p].pc # "publish",
                l.pc \in AtCache => cache.on, UNCHANGED <<node, next, nextId, cache>>
         PROVE  ListTypes' /\ GoesOn(p)
    BY <1>18, Turns DEF ListTypes, GoesOn
  <1>19. CASE \E id \in Offsets : Map(p, id)
    <2>1. PICK id \in Offsets : Map(p, id)
      BY <1>19
    <2> DEFINE grows == \E q \in Callers : Growing(q)
               l == [Idle EXCEPT !.pc = "mapTop", !.id = id, !.high = cache.high, !.grew = grows]
    <2>2. Goes(p, l) /\ UNCHANGED <<node, next, nextId, cache>>
      BY <2>1 DEF Map, Listed, Table
    <2> HIDE DEF grows
    <2>3. Seated(l) /\ l.pc = "mapTop"
      BY <1>1, CollectorsAssumption DEF Seated, Pcs
    <2> HIDE DEF l
    <2>4. QED
      BY <1>18, <2>1, <2>2, <2>3 DEF Outside, Map, At
  <1>20. CASE MapTop(p)
    <2> DEFINE l == [loc[p] EXCEPT !.pc = "mapWalk", !.page = cache.top]
    <2>1. (Goes(p, Idle) \/ Goes(p, l)) /\ UNCHANGED <<node, next, nextId, cache>>
      BY <1>20 DEF MapTop, Listed, Table
    <2>2. Seated(l) /\ l.pc = "mapWalk"
      BY <1>1 DEF Seated, Pcs
    <2> HIDE DEF l
    <2>3. QED
      BY <1>1, <1>10, <1>18, <1>20, <2>1, <2>2 DEF Outside, AtCache, MapTop, At
  <1>21. CASE MapWalk(p)
    <2> DEFINE e == pages[loc[p].page][Index(loc[p].id, loc[p].high)]
               l == [loc[p] EXCEPT !.page = e[2], !.high = @ - 1]
    <2>1. /\ loc[p].pc = "mapWalk" /\ UNCHANGED <<node, next, nextId, cache>>
          /\ Goes(p, Idle) \/ Goes(p, l) \/ loc' = loc
      BY <1>21 DEF MapWalk, Listed, Table, At
    <2>2. Seated(l) /\ l.pc = "mapWalk"
      BY <1>1, <2>1 DEF Seated, Pcs
    <2> HIDE DEF l
    <2>3. CASE loc' = loc
      BY <1>10, <2>1, <2>3 DEF ListTypes, AtCache, GoesOn, OthersRest, Rests, Outside
    <2>4. QED
      BY <1>1, <1>10, <1>18, <2>1, <2>2, <2>3 DEF Outside, AtCache
  <1>22. QED
    BY <1>2, <1>3, <1>4, <1>5, <1>6, <1>7, <1>11, <1>12, <1>13, <1>14, <1>15, <1>16, <1>17, <1>19,
       <1>20, <1>21 DEF Making

\* A creation begins; who is at one already meets it.
LEMMA Started ==
  ASSUME ListTypes, NEW p \in Callers, NEW x \in Nat, NEW pc \in {"scan", "lookup"},
         Begins(p, x, pc), next[0] \in Nat
  PROVE  /\ DOMAIN loc' = Callers /\ \A q \in Callers : Seated(loc'[q])
         /\ loc'[p].pc = pc /\ loc'[p].name = x /\ loc'[p].cur = next[0]
         /\ loc'[p].met = {} => \A q \in Callers : q # p => ~Creating(q)
         /\ \A q \in Callers : q # p =>
              /\ loc'[q].pc = loc[q].pc /\ loc'[q].name = loc[q].name /\ loc'[q].cur = loc[q].cur
              /\ loc'[q].node = loc[q].node /\ loc'[q].id = loc[q].id
              /\ IF Creating(q) THEN loc'[q].met = loc[q].met \cup {x} /\ loc[q].name \in loc'[p].met
                               ELSE loc'[q].met = loc[q].met
  <1> DEFINE Q == {q \in Callers \ {p} : Creating(q)}
             met == {loc[r].name : r \in Q}
             mine == [Idle EXCEPT !.pc = pc, !.name = x, !.cur = next[0], !.met = met]
  <1>1. met \in SUBSET Nat /\ (met = {} => Q = {}) /\ \A r \in Q : loc[r].name \in met
    <2>1. \A r \in Q : loc[r].name \in Nat
      BY DEF ListTypes, Seated
    <2>2. QED
      BY <2>1
  <1>2. loc' = [q \in Callers |-> CASE q = p   -> mine
                                    [] q \in Q -> [loc[q] EXCEPT !.met = @ \cup {x}]
                                    [] OTHER   -> loc[q]]
    BY DEF Begins
  <1> HIDE DEF met
  <1>3. Seated(mine) /\ mine.pc = pc /\ mine.name = x /\ mine.cur = next[0] /\ mine.met = met
    BY <1>1 DEF Seated, Idle, Pcs
  <1> HIDE DEF mine
  <1>4. loc'[p] = mine
    BY <1>2
  <1>5. ASSUME NEW q \in Callers, q # p
        PROVE  /\ Seated(loc'[q])
               /\ loc'[q].pc = loc[q].pc /\ loc'[q].name = loc[q].name /\ loc'[q].cur = loc[q].cur
               /\ loc'[q].node = loc[q].node /\ loc'[q].id = loc[q].id
               /\ IF Creating(q) THEN loc'[q].met = loc[q].met \cup {x} /\ loc[q].name \in loc'[p].met
                               ELSE loc'[q].met = loc[q].met
    <2>1. CASE q \in Q
      <3>1. loc'[q] = [loc[q] EXCEPT !.met = @ \cup {x}]
        BY <1>2, <1>5, <2>1
      <3>2. Seated(loc[q]) /\ Creating(q) /\ loc[q].name \in loc'[p].met
        BY <1>1, <1>3, <1>4, <2>1 DEF ListTypes
      <3>3. QED
        BY <3>1, <3>2 DEF Seated
    <2>2. CASE q \notin Q
      <3>1. loc'[q] = loc[q]
        BY <1>2, <1>5, <2>2
      <3>2. ~Creating(q)
        BY <1>5, <2>2
      <3>3. QED
        BY <3>1, <3>2 DEF ListTypes
    <2>3. QED
      BY <2>1, <2>2
  <1>6. DOMAIN loc' = Callers
    BY <1>2
  <1>7. Q = {} => \A q \in Callers : q # p => ~Creating(q)
    OBVIOUS
  <1> HIDE DEF Q
  <1>8. \A q \in Callers : Seated(loc'[q])
    BY <1>3, <1>4, <1>5
  <1>9. QED
    BY <1>1, <1>3, <1>4, <1>5, <1>6, <1>7, <1>8

-----------------------------------------------------------------------------
(* Owners, loners, and the time before the cache.                          *)

\* Where creations are.
LEMMA CreatingFacts ==
  ASSUME NEW q
  PROVE  /\ Creating(q) <=> loc[q].pc \notin Outside
         /\ loc[q].pc \in Holding => Creating(q)
  BY DEF Creating, Mapping, Outside, Holding, Placed

\* Nodes are numbered from 1 on.
LEMMA NodeFacts ==
  ASSUME ListTypes
  PROVE  /\ Len(node) \in Nat /\ Nodes = 1..Len(node) /\ 0 \notin Nodes
         /\ \A n \in Nodes : node[n] \in Collector
  BY DEF ListTypes, Nodes

\* Creations only end, but for the one that begins.
LEMMA AcquaintedKeeps ==
  ASSUME Acquainted,
         \A q \in Callers : Creating(q)' => /\ Creating(q)
                                            /\ loc'[q].name = loc[q].name /\ loc'[q].met = loc[q].met
  PROVE  Acquainted'
  BY DEF Acquainted

\* A caller that goes on keeps what it has.
LEMMA GoesOnBasics ==
  ASSUME Basics, ListTypes', cache'.on = cache.on, NEW p \in Callers, GoesOn(p)
  PROVE  Owned' /\ Acquainted'
  <1>1. \A q \in Callers : Creating(q)' => /\ Creating(q)
                                     /\ loc'[q].name = loc[q].name /\ loc'[q].met = loc[q].met
    <2>1. Creating(p)' => Creating(p) /\ Keeps(p)
      BY DEF GoesOn, Holds, Creating, Mapping, Outside, Placed
    <2>2. QED
      BY <2>1 DEF GoesOn, OthersRest, Rests, Holds, Keeps, Creating, Mapping
  <1>2. Acquainted'
    BY <1>1, AcquaintedKeeps DEF Basics
  <1>3. \A q \in Callers : loc'[q].pc \in Holding =>
          /\ loc[q].pc \in Holding /\ loc'[q].node = loc[q].node
          /\ loc'[q].name = loc[q].name /\ loc'[q].id = loc[q].id
          /\ loc'[q].pc = "link" <=> loc[q].pc = "link"
    <2>2. loc'[p].pc \in Holding =>
            /\ loc[p].pc \in Placed /\ loc'[p].pc \in Placed /\ Holds(p)
      BY DEF GoesOn, Holding, Placed, Outside
    <2>3. QED
      BY <2>2 DEF GoesOn, OthersRest, Rests, Holds, Keeps, Holding, Placed
  <1>4. Owned'
    BY <1>3 DEF Basics, Owned, GoesOn, Nodes
  <1>5. QED
    BY <1>2, <1>4

\* The new node is the caller's, and nobody else's.
LEMMA MakesBasics ==
  ASSUME Basics, ListTypes', NEW p \in Callers, Makes(p)
  PROVE  /\ Owned' /\ Acquainted' /\ Nodes' = Nodes \cup {Len(node) + 1}
         /\ \A n \in Nodes : node'[n] = node[n]
         /\ ~node'[Len(node) + 1].done /\ ~node'[Len(node) + 1].cached
  <1>1. PICK c \in Collector : /\ c.name = loc[p].name /\ c.id = loc[p].id
                               /\ ~c.done /\ c.met = {} /\ ~c.cached
                               /\ node' = Append(node, c)
    BY DEF Makes
  <1>2. /\ node \in Seq(Collector) /\ Len(node) \in Nat /\ Nodes = 1..Len(node)
        /\ Nodes' = Nodes \cup {Len(node) + 1} /\ Len(node') = Len(node) + 1
        /\ \A n \in Nodes : node'[n] = node[n]
        /\ node'[Len(node) + 1] = c
    BY <1>1, NodeFacts DEF Basics, ListTypes, Nodes
  <1>3. \A q \in Callers : Creating(q)' => /\ Creating(q)
                                     /\ loc'[q].name = loc[q].name /\ loc'[q].met = loc[q].met
    BY DEF Makes, OthersRest, Rests, Creating, Mapping
  <1>4. Acquainted'
    BY <1>3, AcquaintedKeeps DEF Basics
  <1>5. \A q \in Callers : q # p /\ loc'[q].pc \in Holding =>
          /\ loc[q].pc \in Holding /\ loc'[q].node = loc[q].node
          /\ loc'[q].name = loc[q].name /\ loc'[q].id = loc[q].id
          /\ loc'[q].pc = loc[q].pc
    BY DEF Makes, OthersRest, Rests
  <1>6. /\ 0 \in DOMAIN next' /\ DOMAIN next' \subseteq 0..Len(node')
        /\ next' \in [DOMAIN next' -> DOMAIN next']
    BY <1>2 DEF Basics, Owned, Makes
  <1>7. ASSUME NEW q \in Callers, loc'[q].pc \in Holding
        PROVE  /\ loc'[q].node \in Nodes'
               /\ ~node'[loc'[q].node].done /\ node'[loc'[q].node].name = loc'[q].name
               /\ node'[loc'[q].node].id = loc'[q].id
               /\ loc'[q].node \in DOMAIN next' <=> loc'[q].pc # "link"
    <2>1. CASE q = p
      BY <1>1, <1>2, <2>1 DEF Makes, Basics, Owned
    <2>2. CASE q # p
      BY <1>2, <1>5, <1>7, <2>2 DEF Makes, Basics, Owned
    <2>3. QED
      BY <2>1, <2>2
  <1>8. \A q, r \in Callers :
          loc'[q].pc \in Holding /\ loc'[r].pc \in Holding /\ loc'[q].node = loc'[r].node => q = r
    <2>1. \A q \in Callers : q # p /\ loc'[q].pc \in Holding => loc'[q].node # loc'[p].node
      <3>1. \A q \in Callers : q # p /\ loc'[q].pc \in Holding => loc'[q].node \in 1..Len(node)
        BY <1>2, <1>5 DEF Basics, Owned
      <3>2. QED
        BY <1>2, <3>1 DEF Makes
    <2>2. QED
      BY <1>5, <2>1 DEF Basics, Owned
  <1>9. \A n \in Nodes' : (node'[n].done => n \in DOMAIN next') /\ (node'[n].cached => node'[n].done)
    BY <1>1, <1>2 DEF Makes, Basics, Owned
  <1>10. QED
    BY <1>1, <1>2, <1>4, <1>6, <1>7, <1>8, <1>9 DEF Owned

\* The new node gets its link, and is in the domain of links from here on.
LEMMA HangsOnBasics ==
  ASSUME Basics, ListTypes', NEW p \in Callers, HangsOn(p), loc[p].cur \in DOMAIN next
  PROVE  /\ Owned' /\ Acquainted' /\ DOMAIN next' = DOMAIN next \cup {loc[p].node}
         /\ loc[p].node \in Nodes /\ loc[p].node \notin DOMAIN next
         /\ next'[loc[p].node] = next[loc[p].cur]
         /\ \A n \in DOMAIN next : next'[n] = next[n]
  <1>1. /\ loc[p].pc = "link" /\ loc[p].pc \in Holding /\ loc'[p].pc = "publish" /\ node' = node
        /\ Nodes' = Nodes
    BY DEF HangsOn, Holding, Nodes
  <1>2. loc[p].node \in Nodes /\ loc[p].node \notin DOMAIN next /\ Nodes \subseteq 0..Len(node)
    BY <1>1, NodeFacts DEF Basics, Owned
  <1>3. /\ DOMAIN next' = DOMAIN next \cup {loc[p].node}
        /\ next'[loc[p].node] = next[loc[p].cur]
        /\ \A n \in DOMAIN next : next'[n] = next[n]
    BY <1>2 DEF HangsOn
  <1>4. \A q \in Callers : Creating(q)' => /\ Creating(q)
                                     /\ loc'[q].name = loc[q].name /\ loc'[q].met = loc[q].met
    BY DEF HangsOn, OthersRest, Rests, Holds, Keeps, Creating, Mapping
  <1>5. Acquainted'
    BY <1>4, AcquaintedKeeps DEF Basics
  <1>6. \A q \in Callers : /\ loc'[q].node = loc[q].node
                           /\ loc'[q].name = loc[q].name /\ loc'[q].id = loc[q].id
                           /\ loc'[q].pc \in Holding <=> loc[q].pc \in Holding
                           /\ q # p => loc'[q].pc = loc[q].pc
    BY <1>1 DEF HangsOn, OthersRest, Rests, Holds, Keeps, Holding
  <1>7. \A q \in Callers : q # p /\ loc[q].pc \in Holding => loc[q].node # loc[p].node
    BY <1>1 DEF Basics, Owned
  <1>8. next' \in [DOMAIN next' -> DOMAIN next']
    BY <1>3 DEF HangsOn, Basics, Owned
  <1>9. ASSUME NEW q \in Callers, loc'[q].pc \in Holding
        PROVE  /\ loc'[q].node \in Nodes'
               /\ ~node'[loc'[q].node].done /\ node'[loc'[q].node].name = loc'[q].name
               /\ node'[loc'[q].node].id = loc'[q].id
               /\ loc'[q].node \in DOMAIN next' <=> loc'[q].pc # "link"
    <2>1. CASE q = p
      <3>1. /\ ~node[loc[p].node].done /\ node[loc[p].node].name = loc[p].name
            /\ node[loc[p].node].id = loc[p].id
        BY <1>1 DEF Basics, Owned
      <3>2. QED
        BY <1>1, <1>2, <1>3, <1>6, <2>1, <3>1
    <2>2. CASE q # p
      <3>1. loc[q].pc \in Holding /\ loc[q].node # loc[p].node
        BY <1>6, <1>7, <1>9, <2>2
      <3>2. /\ loc[q].node \in Nodes
            /\ ~node[loc[q].node].done /\ node[loc[q].node].name = loc[q].name
            /\ node[loc[q].node].id = loc[q].id
            /\ loc[q].node \in DOMAIN next <=> loc[q].pc # "link"
        BY <3>1 DEF Basics, Owned
      <3>3. QED
        BY <1>1, <1>3, <1>6, <2>2, <3>1, <3>2
    <2>3. QED
      BY <2>1, <2>2
  <1>10. 0 \in DOMAIN next' /\ DOMAIN next' \subseteq 0..Len(node')
    BY <1>1, <1>2, <1>3 DEF Basics, Owned
  <1>11. \A q, r \in Callers :
          loc'[q].pc \in Holding /\ loc'[r].pc \in Holding /\ loc'[q].node = loc'[r].node => q = r
    BY <1>6 DEF Basics, Owned
  <1>12. \A n \in Nodes' : (node'[n].done => n \in DOMAIN next') /\ (node'[n].cached => node'[n].done)
    BY <1>1, <1>3 DEF Basics, Owned
  <1>13. QED
    BY <1>2, <1>3, <1>5, <1>8, <1>9, <1>10, <1>11, <1>12 DEF Owned

\* The predecessor's link goes to the new node.
LEMMA PublishesBasics ==
  ASSUME Basics, ListTypes', NEW p \in Callers, Publishes(p), loc[p].cur \in DOMAIN next
  PROVE  /\ Owned' /\ Acquainted' /\ DOMAIN next' = DOMAIN next
         /\ loc[p].node \in Nodes /\ loc[p].node \in DOMAIN next /\ node' = node
         /\ next'[loc[p].cur] = loc[p].node
         /\ \A n \in DOMAIN next : n # loc[p].cur => next'[n] = next[n]
  <1>1. /\ loc[p].pc = "publish" /\ loc[p].pc \in Holding /\ loc'[p].pc = "insert" /\ node' = node
        /\ Nodes' = Nodes
    BY DEF Publishes, Holding, Nodes
  <1>2. loc[p].node \in Nodes /\ loc[p].node \in DOMAIN next
    BY <1>1 DEF Basics, Owned
  <1>3. /\ DOMAIN next' = DOMAIN next /\ next' \in [DOMAIN next -> DOMAIN next]
        /\ next'[loc[p].cur] = loc[p].node
        /\ \A n \in DOMAIN next : n # loc[p].cur => next'[n] = next[n]
    BY <1>2 DEF Publishes, Basics, Owned
  <1>4. \A q \in Callers : Creating(q)' => /\ Creating(q)
                                     /\ loc'[q].name = loc[q].name /\ loc'[q].met = loc[q].met
    BY DEF Publishes, OthersRest, Rests, Holds, Keeps, Creating, Mapping
  <1>5. Acquainted'
    BY <1>4, AcquaintedKeeps DEF Basics
  <1>6. \A q \in Callers : /\ loc'[q].node = loc[q].node
                           /\ loc'[q].name = loc[q].name /\ loc'[q].id = loc[q].id
                           /\ loc'[q].pc \in Holding <=> loc[q].pc \in Holding
                           /\ loc'[q].pc = "link" <=> loc[q].pc = "link"
    BY <1>1 DEF Publishes, OthersRest, Rests, Holds, Keeps, Holding, Placed
  <1>7. Owned'
    BY <1>1, <1>3, <1>6 DEF Basics, Owned
  <1>8. QED
    BY <1>1, <1>2, <1>3, <1>5, <1>7

\* A finished node is nobody's, and those who were in a creation with its caller stay acquainted.
LEMMA FinishesBasics ==
  ASSUME Basics, ListTypes', NEW p \in Callers, Finishes(p)
  PROVE  /\ Owned' /\ Acquainted' /\ Nodes' = Nodes /\ loc[p].node \in Nodes
         /\ loc[p].node \in DOMAIN next /\ next' = next
         /\ \A n \in Nodes : /\ node'[n].name = node[n].name /\ node'[n].id = node[n].id
                            /\ (n # loc[p].node => node'[n] = node[n])
         /\ node'[loc[p].node].done /\ node'[loc[p].node].met = loc[p].met
         /\ node'[loc[p].node].cached => cache.on
  <1>1. PICK c \in BOOLEAN :
          /\ c => cache.on
          /\ node' = [node EXCEPT ![loc[p].node] = [@ EXCEPT !.done = TRUE, !.met = loc[p].met, !.cached = c]]
    BY DEF Finishes
  <1>2. /\ loc[p].pc \in Placed /\ loc'[p].pc = "idle" /\ loc[p].pc \in Holding /\ loc[p].pc # "link"
        /\ next' = next /\ OthersRest(p)
    BY DEF Finishes, Holding, Placed
  <1>3. loc[p].node \in Nodes /\ loc[p].node \in DOMAIN next
    BY <1>2 DEF Basics, Owned
  <1>4. /\ node[loc[p].node] \in Collector /\ Nodes = 1..Len(node) /\ Nodes' = Nodes
        /\ Len(node') = Len(node)
    BY <1>1, <1>3, NodeFacts DEF Basics, ListTypes, Nodes
  <1>5. /\ node'[loc[p].node].name = node[loc[p].node].name
        /\ node'[loc[p].node].id = node[loc[p].node].id /\ node'[loc[p].node].done
        /\ node'[loc[p].node].met = loc[p].met /\ node'[loc[p].node].cached = c
    <2> DEFINE e == [node[loc[p].node] EXCEPT !.done = TRUE, !.met = loc[p].met, !.cached = c]
    <2>1. /\ e.name = node[loc[p].node].name /\ e.id = node[loc[p].node].id
          /\ e.done /\ e.met = loc[p].met /\ e.cached = c
      BY <1>4 DEF Collector
    <2>2. node' = [node EXCEPT ![loc[p].node] = e]
      BY <1>1
    <2> HIDE DEF e
    <2>3. QED
      BY <1>3, <2>1, <2>2 DEF Nodes
  <1>6. \A n \in Nodes : n # loc[p].node => node'[n] = node[n]
    BY <1>1 DEF Nodes
  <1>7. \A q \in Callers : Creating(q)' => /\ Creating(q)
                                     /\ loc'[q].name = loc[q].name /\ loc'[q].met = loc[q].met
    BY <1>2 DEF OthersRest, Rests, Creating, Mapping
  <1>8. Acquainted'
    BY <1>7, AcquaintedKeeps DEF Basics
  <1>9. \A q \in Callers : loc'[q].pc \in Holding =>
           /\ q # p /\ loc'[q].pc = loc[q].pc /\ loc'[q].node = loc[q].node
           /\ loc'[q].name = loc[q].name /\ loc'[q].id = loc[q].id
           /\ loc[q].node # loc[p].node
    <2>1. \A q \in Callers : loc'[q].pc \in Holding =>
            /\ q # p /\ loc'[q].pc = loc[q].pc /\ loc'[q].node = loc[q].node
            /\ loc'[q].name = loc[q].name /\ loc'[q].id = loc[q].id
      BY <1>2 DEF OthersRest, Rests, Holding, Placed
    <2>2. QED
      BY <1>2, <2>1 DEF Basics, Owned
  <1>10. Owned'
    BY <1>2, <1>3, <1>4, <1>5, <1>6, <1>9 DEF Basics, Owned
  <1>11. QED
    BY <1>1, <1>2, <1>3, <1>4, <1>5, <1>6, <1>8, <1>10

\* A finished node knows the names of older ones that are being made, as its caller did.
LEMMA OvertookKeeps ==
  ASSUME Basics, ListTypes', NEW p \in Callers,
         GoesOn(p) \/ Makes(p) \/ HangsOn(p) \/ Publishes(p) \/ Finishes(p)
  PROVE  Overtook'
  <1>1. CASE GoesOn(p) \/ HangsOn(p) \/ Publishes(p)
    <2>1. node' = node /\ Nodes' = Nodes
      BY <1>1 DEF GoesOn, HangsOn, Publishes, Nodes
    <2>2. \A q \in Callers : loc'[q].pc \in Holding =>
            loc[q].pc \in Holding /\ loc'[q].node = loc[q].node /\ loc'[q].name = loc[q].name
      BY <1>1 DEF GoesOn, HangsOn, Publishes, OthersRest, Rests, Holds, Keeps, Holding, Placed, Outside
    <2>3. QED
      BY <2>1, <2>2 DEF Basics, Overtook
  <1>2. CASE Makes(p)
    <2>1. /\ Nodes' = Nodes \cup {Len(node) + 1} /\ \A n \in Nodes : node'[n] = node[n]
          /\ ~node'[Len(node) + 1].done
      BY <1>2, MakesBasics
    <2>2. Len(node) \in Nat /\ Nodes = 1..Len(node) /\ loc'[p].node = Len(node) + 1
      BY <1>2, NodeFacts DEF Basics, Makes
    <2>3. \A q \in Callers : q # p => Rests(q)
      BY <1>2 DEF Makes, OthersRest
    <2>4. \A n \in Nodes : ~(loc'[p].node < n)
      BY <2>2
    <2>5. QED
      BY <2>1, <2>3, <2>4 DEF Basics, Overtook, Rests
  <1>3. CASE Finishes(p)
    <2>1. /\ Nodes' = Nodes
          /\ \A n \in Nodes : n # loc[p].node => node'[n] = node[n]
          /\ node'[loc[p].node].met = loc[p].met
      BY <1>3, FinishesBasics
    <2>2. Creating(p) /\ \A q \in Callers : loc'[q].pc \in Holding =>
            q # p /\ loc[q].pc \in Holding /\ Creating(q) /\ Rests(q)
      BY <1>3 DEF Finishes, OthersRest, Rests, Creating, Mapping, Holding, Placed
    <2>3. QED
      BY <2>1, <2>2 DEF Basics, Overtook, Acquainted, Rests
  <1>4. QED
    BY <1>1, <1>2, <1>3

\* So a step but the beginning of a creation leaves the basics as they are.
LEMMA BasicsKeep ==
  ASSUME Basics, NEW p \in Callers, loc[p].pc \in OnTheWay => loc[p].cur \in DOMAIN next,
         Making(p) \/ MapTop(p) \/ MapWalk(p) \/ \E id \in Offsets : Map(p, id)
  PROVE  Basics'
  <1>1. /\ ListTypes' /\ cache'.on = cache.on
        /\ GoesOn(p) \/ Makes(p) \/ HangsOn(p) \/ Publishes(p) \/ Finishes(p)
    BY Steps
  <1>3. Owned' /\ Acquainted' /\ Overtook'
    <2>1. Owned' /\ Acquainted'
      BY <1>1, GoesOnBasics, MakesBasics, HangsOnBasics, PublishesBasics, FinishesBasics
         DEF HangsOn, Publishes, OnTheWay
    <2>2. QED
      BY <1>1, <2>1, OvertookKeeps
  <1>4. \A q \in Callers : /\ loc'[q].pc = "boot" => loc[q].pc = "boot"
                           /\ loc'[q].pc \in AtCache => cache.on \/ loc[q].pc \in AtCache
    BY <1>1 DEF GoesOn, Makes, HangsOn, Publishes, Finishes, OthersRest, Rests, AtCache
  <1>5. ~cache.on => \A n \in Nodes' : ~node'[n].cached
    <2>1. CASE GoesOn(p) \/ HangsOn(p) \/ Publishes(p)
      BY <2>1 DEF GoesOn, HangsOn, Publishes, Nodes, Basics, Early
    <2>2. CASE Makes(p)
      BY <1>1, <2>2, MakesBasics DEF Basics, Early
    <2>3. CASE Finishes(p)
      BY <1>1, <2>3, FinishesBasics DEF Basics, Early
    <2>4. QED
      BY <1>1, <2>1, <2>2, <2>3
  <1>6. Early'
    BY <1>1, <1>4, <1>5, CollectorsAssumption DEF Basics, Early
  <1>7. QED
    BY <1>1, <1>3, <1>6 DEF Basics

-----------------------------------------------------------------------------
(* Each step keeps the list in line.                                       *)

\* Links and links about to be made depend on links and callers only.
LEMMA SameEdges ==
  ASSUME NEW pos, NEW G, next' = next,
         \A q \in Callers : /\ loc'[q].pc = "publish" <=> loc[q].pc = "publish"
                            /\ loc[q].pc = "publish" => loc'[q].cur = loc[q].cur /\ loc'[q].node = loc[q].node
  PROVE  /\ Along(pos)' <=> Along(pos)
         /\ \A u, v : Edge(G, u, v)' <=> Edge(G, u, v)
         /\ \A n : Pending(n)' <=> Pending(n)
  BY DEF Along, Edge, Pending

\* Whoever is alone in a creation is the only one in it.
LEMMA SingleOne ==
  ASSUME Acquainted, NEW p \in Callers, Single(p)
  PROVE  /\ \A q \in Callers : Creating(q) => q = p
         /\ \A q \in Callers : loc[q].pc = "publish" => q = p
         /\ loc[p].pc # "publish" => \A n : ~Pending(n)
  <1>1. \A q \in Callers : Creating(q) => q = p
    BY DEF Acquainted, Single
  <1>2. \A q \in Callers : loc[q].pc = "publish" => Creating(q)
    BY DEF Creating, Mapping
  <1>3. QED
    BY <1>1, <1>2 DEF Pending

\* A caller that goes on leaves the list as it was, and does not pass its name.
LEMMA GoesOnLined ==
  ASSUME Basics, NEW pos \in Orders, NEW G \in SUBSET DOMAIN next, Lined(pos, G),
         NEW p \in Callers, GoesOn(p), Basics'
  PROVE  Lined(pos, G)' /\ Orders' = Orders
  <1>1. /\ node' = node /\ next' = next /\ Nodes' = Nodes
        /\ \A q \in Callers : q # p => Rests(q)
    BY DEF GoesOn, OthersRest, Nodes
  <1>2. \A q \in Callers :
          /\ loc'[q].pc = "publish" <=> loc[q].pc = "publish"
          /\ loc[q].pc = "publish" => loc'[q].cur = loc[q].cur /\ loc'[q].node = loc[q].node
    <2>1. loc'[p].pc # "publish" /\ loc[p].pc # "publish"
      BY DEF GoesOn, Outside, Placed
    <2>2. QED
      BY <1>1, <2>1 DEF Rests
  <1>3. /\ Along(pos)' /\ \A u, v : Edge(G, u, v)' <=> Edge(G, u, v)
        /\ \A n : Pending(n)' <=> Pending(n)
    BY <1>1, <1>2, SameEdges DEF Lined
  <1>4. /\ pos[0] = 0 /\ \A n \in DOMAIN next : pos[n] \in Int
        /\ \A m, n \in DOMAIN next : pos[m] = pos[n] => m = n
    BY DEF Lined, Along, Orders
  \* Where p was.
  <1>5. Creating(p)' =>
          /\ Creating(p) /\ Keeps(p)
          /\ loc'[p].pc \in Placed => loc[p].pc \in Placed
          /\ loc'[p].pc \in Holding <=> loc[p].pc \in Holding
    BY DEF GoesOn, Holds, Creating, Mapping, Outside, Placed, Holding
  <1>6. loc'[p].pc \in OnTheWay => loc[p].pc \in OnTheWay /\ loc'[p].cur \in {loc[p].cur, next[loc[p].cur], next[0]}
    BY DEF GoesOn, OnTheWay, Outside, Placed
  <1>7. \A q \in Callers :
          /\ Creating(q)' => Creating(q) /\ loc'[q].met = loc[q].met /\ loc'[q].name = loc[q].name
                             /\ loc'[q].node = loc[q].node /\ (loc'[q].pc \in Holding <=> loc[q].pc \in Holding)
          /\ Single(q)' => Single(q)
          /\ Single(q)' /\ loc'[q].pc \in Placed => loc[q].pc \in Placed /\ loc'[q].node = loc[q].node
    BY <1>1, <1>5 DEF Rests, Keeps, Single, Creating, Mapping
  <1>8. Reach(G)'
    <2>1. 0 \in G /\ (\A u \in G : next[u] \in G)
          /\ \A q \in Callers : /\ loc[q].pc \in OnTheWay => loc[q].cur \in G
                                /\ loc[q].pc = "publish" => loc[q].node \in G
      BY DEF Lined, Reach
    <2>2. loc'[p].pc \in OnTheWay => loc'[p].cur \in G
      BY <1>6, <2>1
    <2>3. \A q \in Callers : loc'[q].pc \in OnTheWay => loc'[q].cur \in G
      BY <1>1, <2>1, <2>2 DEF Rests
    <2>4. QED
      BY <1>1, <1>2, <2>1, <2>3 DEF Reach
  <1>9. \A n : (Unmet(n)' <=> Unmet(n)) /\ (Solo(n)' => Solo(n))
    BY <1>1, <1>7 DEF Unmet, Solo
  <1>10. NoneLost(pos, G)'
    <2>1. NoneLost(pos, G)
      BY DEF Lined
    <2>2. \A n \in Nodes : Solo(n)' => n \in G /\ \A u, v \in DOMAIN next : Edge(G, u, v)' => ~Jumps(pos, u, v, n)
      BY <1>3, <1>9, <2>1 DEF NoneLost, Jumps
    <2>3. ASSUME NEW q \in Callers, Single(q)'
          PROVE  /\ \A n \in G : ~Pending(n)' => \A u, v \in DOMAIN next : Edge(G, u, v)' => ~Jumps(pos, u, v, n)
                 /\ loc'[q].pc = "publish" =>
                      \A u, v \in DOMAIN next : Edge(G, u, v)' /\ u # loc'[q].cur => ~Jumps(pos, u, v, loc'[q].node)
      BY <1>2, <1>3, <1>7, <2>1, <2>3 DEF NoneLost, Jumps
    <2>4. QED
      BY <1>1, <2>2, <2>3 DEF NoneLost
  <1>11. ASSUME NEW q \in Callers, NEW n \in Nodes, Creating(q)', node[n].name = loc'[q].name
         PROVE  /\ Unmet(n)' => Ahead(pos, q, n)'
                /\ Single(q)' /\ n \in G /\ ~(loc'[q].pc \in Holding /\ n = loc'[q].node) => Ahead(pos, q, n)'
    <2>1. /\ Creating(q) /\ node[n].name = loc[q].name /\ (Single(q)' => Single(q))
          /\ loc'[q].pc \in Holding /\ n = loc'[q].node <=> loc[q].pc \in Holding /\ n = loc[q].node
      BY <1>7, <1>11
    <2>2. /\ Unmet(n) => Ahead(pos, q, n)
          /\ Single(q) /\ n \in G /\ ~(loc[q].pc \in Holding /\ n = loc[q].node) => Ahead(pos, q, n)
      BY <2>1 DEF Lined, NoneTwice
    <2>3. CASE q # p
      <3>1. Ahead(pos, q, n)' <=> Ahead(pos, q, n)
        BY <1>1, <2>3 DEF Ahead, Rests
      <3>2. QED
        BY <1>9, <2>1, <2>2, <3>1
    <2>4. CASE q = p
      <3>1. CASE loc[p].name = Main /\ ~node[n].cached
        BY <1>1, <1>5, <1>11, <2>4, <3>1 DEF Ahead, Keeps
      <3>2. CASE loc[p].pc = "lookup" /\ loc[p].cur # 0 /\ pos[loc[p].cur] <= pos[n]
        <4>1. /\ loc'[p].pc = "lookup" /\ loc'[p].cur = next[loc[p].cur] /\ node[loc[p].cur].name # loc[p].name
          BY <1>11, <2>4, <3>2 DEF GoesOn, Placed, Creating, Mapping, Outside
        <4>2. loc[p].cur \in G /\ loc[p].cur \in DOMAIN next /\ next[loc[p].cur] \in DOMAIN next
          BY <3>2 DEF Lined, Reach, OnTheWay
        <4>3. Edge(G, loc[p].cur, next[loc[p].cur])
          BY <4>2 DEF Edge
        <4>4. Unmet(n) \/ (Single(p) /\ n \in G) => ~Jumps(pos, loc[p].cur, next[loc[p].cur], n)
          <5>1. Single(p) => ~Pending(n)
            BY <3>2, SingleOne DEF Basics
          <5>2. Unmet(n) => Solo(n)
            BY DEF Solo
          <5>3. QED
            BY <4>2, <4>3, <5>1, <5>2 DEF Lined, NoneLost
        <4>5. Unmet(n) \/ (Single(p) /\ n \in G) =>
                next[loc[p].cur] # 0 /\ pos[next[loc[p].cur]] <= pos[n]
          <5>1. n \in DOMAIN next \/ ~(Unmet(n) \/ (Single(p) /\ n \in G))
            BY DEF Basics, Owned, Unmet
          <5>2. n # loc[p].cur
            BY <2>1, <2>4, <4>1
          <5>3. QED
            BY <1>4, <3>2, <4>2, <4>4, <5>1, <5>2 DEF Jumps
        <4>6. Unmet(n) \/ (Single(p) /\ n \in G) => Ahead(pos, p, n)'
          BY <4>1, <4>5 DEF Ahead
        <4>7. QED
          BY <1>9, <2>1, <2>4, <4>6 DEF Ahead
      <3>3. QED
        BY <1>9, <2>1, <2>2, <2>4, <3>1, <3>2 DEF Ahead
    <2>5. QED
      BY <2>3, <2>4
  <1>12. NoneTwice(pos, G)'
    <2>1. \A m, n \in Nodes :
            Unmet(n)' /\ m \in G /\ node[m].done /\ m # n /\ node[m].name = node[n].name =>
              node[n].name = Main /\ FALSE \in {node[m].cached, node[n].cached}
      BY <1>9 DEF Lined, NoneTwice
    <2>2. QED
      BY <1>1, <1>11, <2>1 DEF NoneTwice
  <1>13. QED
    BY <1>1, <1>3, <1>8, <1>10, <1>12 DEF Lined, Orders

\* A collector that is allocated is in no list yet.
LEMMA MakesLined ==
  ASSUME Basics, NEW pos \in Orders, NEW G \in SUBSET DOMAIN next, Lined(pos, G),
         NEW p \in Callers, Makes(p), Basics'
  PROVE  Lined(pos, G)' /\ Orders' = Orders
  <1>1. /\ next' = next /\ \A q \in Callers : q # p => Rests(q)
        /\ loc[p].pc = "idWrite" /\ loc'[p].pc = "link" /\ loc'[p].cur = loc[p].cur
        /\ loc'[p].name = loc[p].name /\ loc'[p].met = loc[p].met /\ loc'[p].node = Len(node) + 1
    BY DEF Makes, OthersRest
  <1>2. /\ Nodes' = Nodes \cup {Len(node) + 1} /\ \A n \in Nodes : node'[n] = node[n]
        /\ ~node'[Len(node) + 1].done
    BY MakesBasics DEF Basics
  <1>3. Len(node) + 1 \notin DOMAIN next /\ Len(node) + 1 \notin G /\ Nodes = 1..Len(node)
    BY NodeFacts DEF Basics, Owned
  <1>4. \A q \in Callers :
          /\ loc'[q].pc = "publish" <=> loc[q].pc = "publish"
          /\ loc[q].pc = "publish" => loc'[q].cur = loc[q].cur /\ loc'[q].node = loc[q].node
    BY <1>1 DEF Rests
  <1>5. /\ Along(pos)' /\ \A u, v : Edge(G, u, v)' <=> Edge(G, u, v)
        /\ \A n : Pending(n)' <=> Pending(n)
    BY <1>1, <1>4, SameEdges DEF Lined
  <1>6. Reach(G)'
    <2>1. \A q \in Callers : /\ loc'[q].pc \in OnTheWay <=> loc[q].pc \in OnTheWay
                             /\ loc'[q].cur = loc[q].cur
      BY <1>1 DEF Rests, OnTheWay
    <2>2. QED
      BY <1>1, <1>4, <2>1 DEF Lined, Reach
  <1>7. \A q \in Callers : /\ Creating(q)' <=> Creating(q)
                           /\ Single(q)' <=> Single(q)
                           /\ loc'[q].name = loc[q].name
                           /\ loc'[q].pc \in Placed <=> loc[q].pc \in Placed
                           /\ q # p => loc'[q].node = loc[q].node
    BY <1>1 DEF Rests, Creating, Mapping, Single, Placed
  <1>8. \A n : Unmet(n)' <=> Unmet(n)
    BY <1>2, <1>3 DEF Unmet
  <1>9. \A n : Solo(n)' <=> Solo(n)
    BY <1>1, <1>7, <1>8 DEF Solo, Placed
  <1>10. NoneLost(pos, G)'
    <2>1. NoneLost(pos, G)
      BY DEF Lined
    <2>2. \A n \in Nodes' : Solo(n)' => n \in G /\ \A u, v \in DOMAIN next : Edge(G, u, v)' => ~Jumps(pos, u, v, n)
      <3>1. \A n : Solo(n) => n \in Nodes
        BY DEF Solo, Unmet, Basics, Owned, Holding
      <3>2. QED
        BY <1>5, <1>9, <2>1, <3>1 DEF NoneLost
    <2>3. ASSUME NEW q \in Callers, Single(q)'
          PROVE  /\ \A n \in G : ~Pending(n)' => \A u, v \in DOMAIN next : Edge(G, u, v)' => ~Jumps(pos, u, v, n)
                 /\ loc'[q].pc = "publish" =>
                      \A u, v \in DOMAIN next : Edge(G, u, v)' /\ u # loc'[q].cur => ~Jumps(pos, u, v, loc'[q].node)
      BY <1>4, <1>5, <1>7, <2>1, <2>3 DEF NoneLost
    <2>4. QED
      BY <1>1, <2>2, <2>3 DEF NoneLost
  <1>11. NoneTwice(pos, G)'
    <2>1. NoneTwice(pos, G)
      BY DEF Lined
    <2>2. ASSUME NEW q \in Callers, NEW n \in Nodes', Creating(q)', node'[n].name = loc'[q].name
          PROVE  /\ Unmet(n)' => Ahead(pos, q, n)'
                 /\ Single(q)' /\ n \in G /\ ~(loc'[q].pc \in Holding /\ n = loc'[q].node) => Ahead(pos, q, n)'
      <3>1. CASE n = Len(node) + 1
        BY <1>2, <1>3, <3>1 DEF Unmet
      <3>2. CASE n \in Nodes
        <4>1. /\ Unmet(n) => Ahead(pos, q, n)
              /\ Single(q) /\ n \in G /\ ~(loc[q].pc \in Holding /\ n = loc[q].node) => Ahead(pos, q, n)
          BY <1>2, <1>7, <2>1, <2>2, <3>2 DEF NoneTwice
        <4>2. Ahead(pos, q, n) => Ahead(pos, q, n)'
          BY <1>1, <1>2, <3>2 DEF Ahead, Rests
        <4>3. ~(loc'[q].pc \in Holding /\ n = loc'[q].node) => ~(loc[q].pc \in Holding /\ n = loc[q].node)
          BY <1>1 DEF Rests, Holding, Placed
        <4>4. QED
          BY <1>7, <1>8, <4>1, <4>2, <4>3
      <3>3. QED
        BY <1>2, <3>1, <3>2
    <2>3. \A m, n \in Nodes' :
            Unmet(n)' /\ m \in G /\ node'[m].done /\ m # n /\ node'[m].name = node'[n].name =>
              node'[n].name = Main /\ FALSE \in {node'[m].cached, node'[n].cached}
      <3> TAKE m, n \in Nodes'
      <3> HAVE Unmet(n)' /\ m \in G /\ node'[m].done /\ m # n /\ node'[m].name = node'[n].name
      <3>1. Unmet(n) /\ n \in Nodes /\ m \in Nodes /\ node'[n] = node[n] /\ node'[m] = node[m]
        BY <1>2, <1>3, <1>8 DEF Unmet
      <3>2. QED
        BY <2>1, <3>1 DEF NoneTwice
    <2>4. QED
      BY <2>2, <2>3 DEF NoneTwice
  <1>12. QED
    BY <1>1, <1>5, <1>6, <1>10, <1>11 DEF Lined, Orders

\* A collector is made: it comes in line with those made alone if it was made alone itself.
LEMMA FinishesLined ==
  ASSUME Basics, NEW pos \in Orders, NEW G \in SUBSET DOMAIN next, Lined(pos, G),
         NEW p \in Callers, Finishes(p), Basics'
  PROVE  Lined(pos, G)' /\ Orders' = Orders
  <1> DEFINE k == loc[p].node
  <1>1. /\ next' = next /\ \A q \in Callers : q # p => Rests(q)
        /\ loc[p].pc \in Placed /\ loc'[p].pc = "idle"
    BY DEF Finishes, OthersRest
  <1>2. /\ Nodes' = Nodes /\ k \in Nodes /\ k \in DOMAIN next
        /\ \A n \in Nodes : node'[n].name = node[n].name /\ (n # k => node'[n] = node[n])
        /\ node'[k].done /\ node'[k].met = loc[p].met /\ (node'[k].cached => cache.on)
    BY FinishesBasics DEF Basics
  <1>3. Creating(p) /\ ~Creating(p)' /\ node[k].name = loc[p].name /\ ~node[k].done
        /\ loc[p].pc \in Holding /\ loc[p].pc # "publish"
    BY <1>1 DEF Basics, Owned, Creating, Mapping, Placed, Holding
  <1>4. \A q \in Callers :
          /\ loc'[q].pc = "publish" <=> loc[q].pc = "publish"
          /\ loc[q].pc = "publish" => loc'[q].cur = loc[q].cur /\ loc'[q].node = loc[q].node
    BY <1>1, <1>3 DEF Rests
  <1>5. /\ Along(pos)' /\ \A u, v : Edge(G, u, v)' <=> Edge(G, u, v)
        /\ \A n : Pending(n)' <=> Pending(n)
    BY <1>1, <1>4, SameEdges DEF Lined
  <1>6. Reach(G)'
    <2>1. \A q \in Callers : loc'[q].pc \in OnTheWay => loc[q].pc \in OnTheWay /\ loc'[q].cur = loc[q].cur
      BY <1>1 DEF Rests, OnTheWay
    <2>2. QED
      BY <1>1, <1>4, <2>1 DEF Lined, Reach
  <1>7. \A q \in Callers : Creating(q)' => /\ q # p /\ Creating(q) /\ ~Single(q) /\ ~Single(q)'
                                           /\ Rests(q)
    BY <1>1, <1>3 DEF Basics, Acquainted, Single, Rests, Creating, Mapping
  \* Who was alone was the only one.
  <1>8. \A q \in Callers : ~Single(q)'
    BY <1>7 DEF Single
  <1>9. \A n : Unmet(n)' => Unmet(n) \/ (n = k /\ Single(p))
    BY <1>2, <1>3 DEF Unmet, Single
  <1>10. \A n : Solo(n)' => Solo(n)
    BY <1>1, <1>8, <1>9 DEF Solo
  <1>11. NoneLost(pos, G)'
    BY <1>1, <1>2, <1>5, <1>8, <1>10 DEF Lined, NoneLost
  <1>12. NoneTwice(pos, G)'
    <2>1. NoneTwice(pos, G)
      BY DEF Lined
    <2>2. ASSUME NEW q \in Callers, NEW n \in Nodes, Creating(q)', node'[n].name = loc'[q].name, Unmet(n)'
          PROVE  Ahead(pos, q, n)'
      <3>1. ~Single(p)
        BY <1>3, <1>7, <2>2 DEF Basics, Acquainted, Single
      <3>2. Unmet(n) /\ n # k /\ node'[n] = node[n]
        BY <1>2, <1>3, <1>9, <2>2, <3>1 DEF Unmet
      <3>3. Ahead(pos, q, n)
        BY <1>7, <2>1, <2>2, <3>2 DEF NoneTwice, Rests
      <3>4. QED
        BY <1>7, <2>2, <3>2, <3>3 DEF Ahead, Rests
    <2>3. ASSUME NEW m \in Nodes, NEW n \in Nodes, Unmet(n)', m \in G, node'[m].done, m # n,
                 node'[m].name = node'[n].name
          PROVE  node'[n].name = Main /\ FALSE \in {node'[m].cached, node'[n].cached}
      <3>0. node'[m].cached \in BOOLEAN /\ node'[n].cached \in BOOLEAN
        <4>1. node' \in Seq(Collector) /\ m \in DOMAIN node' /\ n \in DOMAIN node'
          BY <1>2 DEF Basics, ListTypes, Nodes
        <4>2. node'[m] \in Collector /\ node'[n] \in Collector
          BY <4>1
        <4>3. QED
          BY <4>2 DEF Collector
      <3>1. loc[p].pc # "lookup"
        BY <1>1 DEF Placed
      <3>2. CASE m = k
        <4>1. Unmet(n) /\ n # k /\ node'[n] = node[n]
          BY <1>2, <1>9, <2>3, <3>2
        <4>2. Ahead(pos, p, n)
          BY <1>2, <1>3, <2>1, <2>3, <3>2, <4>1 DEF NoneTwice
        <4>3. QED
          <5>1. loc[p].name = Main /\ ~node[n].cached
            BY <3>1, <4>2 DEF Ahead
          <5>2. node'[n].cached = FALSE
            BY <3>0, <4>1, <5>1
          <5>3. node'[n].name = Main
            BY <1>2, <1>3, <2>3, <3>2, <5>1
          <5>4. QED
            BY <5>2, <5>3
      <3>3. CASE n = k
        <4>1. Single(p) /\ m # k /\ node'[m] = node[m]
          BY <1>2, <1>3, <1>9, <2>3, <3>3 DEF Unmet
        <4>2. Ahead(pos, p, m)
          BY <1>2, <1>3, <2>1, <2>3, <3>3, <4>1 DEF NoneTwice
        <4>3. QED
          <5>1. loc[p].name = Main /\ ~node[m].cached
            BY <3>1, <4>2 DEF Ahead
          <5>2. node'[m].cached = FALSE
            BY <3>0, <4>1, <5>1
          <5>3. node'[n].name = Main
            BY <1>2, <1>3, <2>3, <3>3, <5>1
          <5>4. QED
            BY <5>2, <5>3
      <3>4. CASE m # k /\ n # k
        BY <1>2, <1>9, <2>1, <2>3, <3>4 DEF NoneTwice
      <3>5. QED
        BY <3>2, <3>3, <3>4
    <2>4. QED
      BY <1>2, <1>8, <2>2, <2>3 DEF NoneTwice
  <1>13. QED
    BY <1>1, <1>5, <1>6, <1>11, <1>12 DEF Lined, Orders

\* In the order new, k comes right behind c, and nothing else changes.
Behind(new, D, k, pos, c) ==
  /\ \A x, y \in D : /\ new[x] < new[y] <=> pos[x] < pos[y]
                     /\ new[x] = new[y] <=> pos[x] = pos[y]
  /\ \A x \in D : /\ new[x] < new[k] <=> pos[x] <= pos[c]
                  /\ new[k] < new[x] <=> pos[c] < pos[x]
                  /\ new[x] # new[k] /\ (pos[x] = 0 => new[x] = 0)

\* There is room in an order right behind any of those that are in it.
LEMMA Shifted ==
  ASSUME NEW D, IsFiniteSet(D), NEW k, k \notin D, NEW c \in D,
         NEW pos \in [D -> 0..(Cardinality(D) - 1)]
  PROVE  \E new \in [D \cup {k} -> 0..(Cardinality(D \cup {k}) - 1)] :
           Behind(new, D, k, pos, c)
  <1> DEFINE d == Cardinality(D)
  <1>1. d \in Nat /\ Cardinality(D \cup {k}) = d + 1
    BY FS_CardinalityType, FS_AddElement
  <1>2. pos \in [D -> 0..(d - 1)]
    OBVIOUS
  <1> HIDE DEF d
  <1> DEFINE new == [x \in D \cup {k} |-> IF x = k THEN pos[c] + 1
                                          ELSE IF pos[x] > pos[c] THEN pos[x] + 1 ELSE pos[x]]
  <1>3. \A x \in D : pos[x] \in 0..(d - 1)
    BY <1>2
  <1>4. new \in [D \cup {k} -> 0..d]
    BY <1>1, <1>3
  <1>5. /\ new[k] = pos[c] + 1
        /\ \A x \in D : new[x] = IF pos[x] > pos[c] THEN pos[x] + 1 ELSE pos[x]
    OBVIOUS
  <1> HIDE DEF new
  <1>6. ASSUME NEW x \in D, NEW y \in D
        PROVE  /\ new[x] < new[y] <=> pos[x] < pos[y]
               /\ new[x] = new[y] <=> pos[x] = pos[y]
    <2>1. pos[x] \in Nat /\ pos[y] \in Nat /\ pos[c] \in Nat
      BY <1>1, <1>3
    <2>2. QED
      BY <1>5, <2>1
  <1>7. ASSUME NEW x \in D
        PROVE  /\ new[x] < new[k] <=> pos[x] <= pos[c]
               /\ new[k] < new[x] <=> pos[c] < pos[x]
               /\ new[x] # new[k] /\ (pos[x] = 0 => new[x] = 0)
    <2>1. pos[x] \in Nat /\ pos[c] \in Nat
      BY <1>1, <1>3
    <2>2. QED
      BY <1>5, <2>1
  <1>8. d = Cardinality(D \cup {k}) - 1
    BY <1>1
  <1>9. QED
    BY <1>4, <1>6, <1>7, <1>8 DEF Behind

\* The list is finite, and orders are whole numbers.
LEMMA OrderFacts ==
  ASSUME ListTypes, Owned
  PROVE  /\ IsFiniteSet(DOMAIN next) /\ Cardinality(DOMAIN next) \in Nat
         /\ Cardinality(DOMAIN next) <= Len(node) + 1
         /\ \A pos \in Orders : \A n \in DOMAIN next : pos[n] \in Nat /\ pos[n] <= Len(node)
  <1>1. Len(node) \in Nat /\ DOMAIN next \subseteq 0..Len(node)
    BY NodeFacts DEF Owned
  <1>2. IsFiniteSet(0..Len(node)) /\ Cardinality(0..Len(node)) = Len(node) + 1
    BY <1>1, FS_Interval
  <1>3. /\ IsFiniteSet(DOMAIN next) /\ Cardinality(DOMAIN next) \in Nat
        /\ Cardinality(DOMAIN next) <= Len(node) + 1
    BY <1>1, <1>2, FS_Subset, FS_CardinalityType
  <1>4. QED
    BY <1>1, <1>3 DEF Orders

\* A collector that is about to be published comes right behind the one it is linked to.
LEMMA HangsOnLined ==
  ASSUME Basics, NEW pos \in Orders, NEW G \in SUBSET DOMAIN next, Lined(pos, G),
         NEW p \in Callers, HangsOn(p), Basics'
  PROVE  \E new \in Orders', H \in SUBSET DOMAIN next' : Lined(new, H)'
  <1>0. PICK k, c, D : k = loc[p].node /\ c = loc[p].cur /\ D = DOMAIN next
    OBVIOUS
  <1> DEFINE H == G \cup {k}
  <1>1. /\ node' = node /\ Nodes' = Nodes /\ \A q \in Callers : q # p => Rests(q)
        /\ Keeps(p) /\ loc'[p].cur = c /\ loc[p].pc = "link" /\ loc'[p].pc = "publish"
    BY <1>0 DEF HangsOn, Holds, OthersRest, Nodes
  <1>2. c \in G /\ c \in D /\ next[c] \in D /\ next[c] \in G /\ 0 \in G
    BY <1>0, <1>1 DEF Lined, Reach, OnTheWay
  <1>3. /\ DOMAIN next' = D \cup {k} /\ k \in Nodes /\ k \notin D /\ k \notin G
        /\ next'[k] = next[c] /\ \A n \in D : next'[n] = next[n]
    BY <1>0, <1>2, HangsOnBasics DEF Basics
  <1>4. ~node[k].done /\ node[k].name = loc[p].name /\ k # 0 /\ Creating(p)
    BY <1>0, <1>1, <1>3, NodeFacts, CreatingFacts DEF Basics, Owned, Holding
  <1>5. /\ IsFiniteSet(D) /\ \A n \in D : pos[n] \in Nat
        /\ pos \in [D -> 0..(Cardinality(D) - 1)]
    BY <1>0, OrderFacts DEF Basics, Orders
  <1>6. PICK new \in [D \cup {k} -> 0..(Cardinality(D \cup {k}) - 1)] :
           Behind(new, D, k, pos, c)
    <2>1. IsFiniteSet(D) /\ k \notin D /\ c \in D /\ pos \in [D -> 0..(Cardinality(D) - 1)]
      BY <1>2, <1>3, <1>5
    <2>2. QED
      BY <2>1, Shifted
  <1>6a. /\ \A x, y \in D : /\ new[x] < new[y] <=> pos[x] < pos[y]
                            /\ new[x] = new[y] <=> pos[x] = pos[y]
         /\ \A x \in D : /\ new[x] < new[k] <=> pos[x] <= pos[c]
                         /\ new[k] < new[x] <=> pos[c] < pos[x]
                         /\ new[x] # new[k] /\ (pos[x] = 0 => new[x] = 0)
    BY <1>6 DEF Behind
  <1>7. new \in Orders' /\ H \in SUBSET DOMAIN next'
    BY <1>0, <1>3, <1>6 DEF Orders
  <1>8. \A n \in D \cup {k} : new[n] \in Int
    BY <1>6
  <1>9. /\ Along(pos) /\ Reach(G) /\ NoneLost(pos, G) /\ NoneTwice(pos, G)
    BY DEF Lined
  <1>10. \A q \in Callers : /\ loc'[q].cur = loc[q].cur /\ loc'[q].node = loc[q].node
                            /\ loc'[q].name = loc[q].name /\ loc'[q].met = loc[q].met
                            /\ q # p => loc'[q].pc = loc[q].pc
                            /\ loc'[q].pc \in OnTheWay <=> loc[q].pc \in OnTheWay
                            /\ loc'[q].pc \in Holding <=> loc[q].pc \in Holding
                            /\ loc'[q].pc \in Placed <=> loc[q].pc \in Placed
                            /\ Creating(q)' <=> Creating(q)
                            /\ Single(q)' <=> Single(q)
    BY <1>0, <1>1 DEF Rests, Keeps, OnTheWay, Holding, Placed, Creating, Mapping, Single
  <1>11. \A q \in Callers : q # p /\ loc[q].pc = "publish" => loc[q].cur \in D /\ loc[q].node \in D
    BY <1>0, <1>9 DEF Reach, OnTheWay
  <1>12. Along(new)'
    <2>1. new[0] = 0
      BY <1>0, <1>2, <1>6a, <1>9 DEF Along
    <2>2. \A m, n \in DOMAIN next' : new[m] = new[n] => m = n
      BY <1>0, <1>3, <1>6a, <1>9 DEF Along
    <2>3. ASSUME NEW u \in DOMAIN next', next'[u] # 0
          PROVE  new[u] < new[next'[u]]
      <3>1. CASE u = k
        BY <1>0, <1>2, <1>3, <1>6a, <1>9, <2>3, <3>1 DEF Along
      <3>2. CASE u \in D
        <4>1. next[u] \in D /\ next'[u] = next[u]
          BY <1>0, <1>3, <3>2 DEF Basics, Owned
        <4>2. pos[u] < pos[next[u]]
          BY <1>0, <1>9, <2>3, <3>2, <4>1 DEF Along
        <4>3. QED
          BY <1>6a, <3>2, <4>1, <4>2
      <3>3. QED
        BY <1>3, <3>1, <3>2
    <2>4. ASSUME NEW q \in Callers, loc'[q].pc = "publish"
          PROVE  new[loc'[q].cur] < new[loc'[q].node]
      <3>1. CASE q = p
        BY <1>0, <1>2, <1>5, <1>6a, <1>10, <3>1
      <3>2. CASE q # p
        BY <1>0, <1>6a, <1>9, <1>10, <1>11, <2>4, <3>2 DEF Along
      <3>3. QED
        BY <3>1, <3>2
    <2>5. QED
      BY <2>1, <2>2, <2>3, <2>4 DEF Along
  <1>13. Reach(H)'
    <2>1. \A u \in H : next'[u] \in H
      BY <1>0, <1>2, <1>3, <1>9 DEF Reach
    <2>2. \A q \in Callers : /\ loc'[q].pc \in OnTheWay => loc'[q].cur \in H
                             /\ loc'[q].pc = "publish" => loc'[q].node \in H
      BY <1>0, <1>2, <1>9, <1>10 DEF Reach
    <2>3. QED
      BY <1>2, <2>1, <2>2 DEF Reach
  \* The edges: those there were, and two that lead past the new node.
  <1>14. ASSUME NEW u \in DOMAIN next', NEW v \in DOMAIN next', Edge(H, u, v)'
         PROVE  \/ u \in D /\ v \in D /\ Edge(G, u, v)
                \/ u = k /\ v = next[c]
                \/ u = c /\ v = k
    <2>1. CASE u \in H /\ v = next'[u]
      <3>1. CASE u = k
        BY <1>3, <2>1, <3>1
      <3>2. CASE u \in G
        <4>1. u \in D /\ next'[u] = next[u] /\ next[u] \in G
          BY <1>0, <1>3, <1>9, <3>2 DEF Reach
        <4>2. QED
          BY <1>0, <2>1, <3>2, <4>1 DEF Edge
      <3>3. QED
        BY <2>1, <3>1, <3>2
    <2>2. CASE \E q \in Callers : loc'[q].pc = "publish" /\ u = loc'[q].cur /\ v = loc'[q].node
      <3>1. PICK q \in Callers : loc'[q].pc = "publish" /\ u = loc'[q].cur /\ v = loc'[q].node
        BY <2>2
      <3>2. CASE q = p
        BY <1>0, <1>10, <3>1, <3>2
      <3>3. CASE q # p
        BY <1>0, <1>10, <1>11, <3>1, <3>3 DEF Edge
      <3>4. QED
        BY <3>2, <3>3
    <2>3. QED
      BY <1>14, <2>1, <2>2 DEF Edge
  <1>15. Edge(G, c, next[c])
    BY <1>2 DEF Edge
  <1>16. ASSUME NEW n \in D, \A u, v \in D : Edge(G, u, v) => ~Jumps(pos, u, v, n),
                NEW u \in DOMAIN next', NEW v \in DOMAIN next', Edge(H, u, v)', Jumps(new, u, v, n)
         PROVE  FALSE
    <2>1. CASE u \in D /\ v \in D /\ Edge(G, u, v)
      BY <1>6a, <1>16, <2>1 DEF Jumps
    <2>2. CASE u = k /\ v = next[c]
      BY <1>2, <1>6a, <1>15, <1>16, <2>2 DEF Jumps
    <2>3. CASE u = c /\ v = k
      <3>1. pos[c] < pos[n] /\ new[n] < new[k]
        BY <1>2, <1>4, <1>6a, <1>16, <2>3 DEF Jumps
      <3>2. QED
        BY <1>2, <1>5, <1>6a, <3>1
    <2>4. QED
      BY <1>14, <1>16, <2>1, <2>2, <2>3
  <1>17. \A n : /\ Unmet(n)' <=> Unmet(n)
                /\ Solo(n)' <=> Solo(n)
                /\ Pending(n)' <=> Pending(n) \/ n = k
    BY <1>0, <1>1, <1>10 DEF Unmet, Solo, Pending
  <1>18. \A q \in Callers : Single(q) => q = p
    BY <1>0, <1>4, SingleOne DEF Basics
  <1>19. NoneLost(new, H)'
    <2>1. ASSUME NEW n \in Nodes, Solo(n)
          PROVE  n \in H /\ \A u, v \in DOMAIN next' : Edge(H, u, v)' => ~Jumps(new, u, v, n)
      BY <1>0, <1>9, <1>16, <2>1 DEF NoneLost
    <2>2. ASSUME NEW n \in H, ~Pending(n)', Single(p)
          PROVE  \A u, v \in DOMAIN next' : Edge(H, u, v)' => ~Jumps(new, u, v, n)
      <3>1. n \in G /\ n \in D /\ ~Pending(n)
        BY <1>0, <1>17, <2>2
      <3>2. QED
        BY <1>0, <1>9, <1>16, <2>2, <3>1 DEF NoneLost
    <2>3. ASSUME Single(p), NEW u \in DOMAIN next', NEW v \in DOMAIN next', Edge(H, u, v)', u # c,
                 Jumps(new, u, v, k)
          PROVE  FALSE
      <3>1. new[u] < new[k] /\ (v = 0 \/ new[k] < new[v])
        BY <2>3 DEF Jumps
      <3>2. u # k
        BY <1>3, <1>8, <3>1
      <3>3. u \in D /\ v \in D /\ Edge(G, u, v)
        BY <1>14, <2>3, <3>2
      <3>4. Jumps(pos, u, v, c)
        BY <1>0, <1>2, <1>5, <1>6a, <1>9, <2>3, <3>1, <3>3 DEF Jumps, Along
      <3>5. ~Pending(c)
        BY <1>1, <2>3, SingleOne DEF Basics
      <3>6. QED
        BY <1>0, <1>2, <1>9, <2>3, <3>3, <3>4, <3>5 DEF NoneLost
    <2>4. ASSUME NEW q \in Callers, Single(q)'
          PROVE  /\ \A n \in H : ~Pending(n)' => \A u, v \in DOMAIN next' : Edge(H, u, v)' => ~Jumps(new, u, v, n)
                 /\ loc'[q].pc = "publish" =>
                      \A u, v \in DOMAIN next' : Edge(H, u, v)' /\ u # loc'[q].cur => ~Jumps(new, u, v, loc'[q].node)
      <3>1. q = p /\ Single(p) /\ loc'[q].cur = c /\ loc'[q].node = k
        BY <1>0, <1>10, <1>18, <2>4
      <3>2. QED
        BY <2>2, <2>3, <3>1
    <2>5. \A n \in Nodes' : Solo(n)' => n \in H /\ \A u, v \in DOMAIN next' : Edge(H, u, v)' => ~Jumps(new, u, v, n)
      BY <1>0, <1>1, <1>17, <2>1
    <2>6. QED
      BY <2>4, <2>5 DEF NoneLost, Jumps
  <1>20. NoneTwice(new, H)'
    <2>1. ASSUME NEW q \in Callers, NEW n \in Nodes, n \in D, Ahead(pos, q, n)
          PROVE  Ahead(new, q, n)'
      <3>1. CASE loc[q].name = Main /\ ~node[n].cached
        BY <1>1, <1>10, <3>1 DEF Ahead
      <3>2. CASE loc[q].pc = "lookup" /\ loc[q].cur # 0 /\ pos[loc[q].cur] <= pos[n]
        <4>1. q # p /\ loc[q].cur \in D
          BY <1>0, <1>1, <1>9, <3>2 DEF Reach, OnTheWay
        <4>2. new[loc[q].cur] <= new[n]
          BY <1>5, <1>6a, <1>8, <3>2, <4>1, <2>1
        <4>3. QED
          BY <1>10, <3>2, <4>1, <4>2 DEF Ahead
      <3>3. QED
        BY <2>1, <3>1, <3>2 DEF Ahead
    <2>2. ASSUME NEW q \in Callers, NEW n \in Nodes, Creating(q)', node[n].name = loc'[q].name
          PROVE  /\ Unmet(n)' => Ahead(new, q, n)'
                 /\ Single(q)' /\ n \in H /\ ~(loc'[q].pc \in Holding /\ n = loc'[q].node) => Ahead(new, q, n)'
      <3>1. Creating(q) /\ node[n].name = loc[q].name
        BY <1>10, <2>2
      <3>2. Unmet(n)' => Ahead(new, q, n)'
        <4>1. Unmet(n) => n \in D
          BY <1>0 DEF Unmet, Basics, Owned
        <4>2. QED
          BY <1>9, <1>17, <2>1, <3>1, <4>1 DEF NoneTwice
      <3>3. ASSUME Single(q)', n \in H, ~(loc'[q].pc \in Holding /\ n = loc'[q].node)
            PROVE  Ahead(new, q, n)'
        <4>1. q = p /\ Single(q) /\ ~(loc[q].pc \in Holding /\ n = loc[q].node)
          BY <1>10, <1>18, <3>3
        <4>2. n \in G /\ n \in D
          BY <1>0, <1>1, <3>3, <4>1 DEF Holding
        <4>3. QED
          BY <1>9, <2>1, <3>1, <4>1, <4>2 DEF NoneTwice
      <3>4. QED
        BY <3>2, <3>3
    <2>3. \A m, n \in Nodes :
            Unmet(n)' /\ m \in H /\ node[m].done /\ m # n /\ node[m].name = node[n].name =>
              node[n].name = Main /\ FALSE \in {node[m].cached, node[n].cached}
      BY <1>0, <1>4, <1>9, <1>17 DEF NoneTwice
    <2>4. QED
      BY <1>1, <2>2, <2>3 DEF NoneTwice
  <1>21. Lined(new, H)'
    BY <1>12, <1>13, <1>19, <1>20 DEF Lined
  <1>22. QED
    BY <1>7, <1>21

\* A collector that is published cuts off what lay between, but nothing made alone.
LEMMA PublishesLined ==
  ASSUME Basics, NEW pos \in Orders, NEW G \in SUBSET DOMAIN next, Lined(pos, G),
         NEW p \in Callers, Publishes(p), Basics'
  PROVE  Lined(pos, G)' /\ Orders' = Orders /\ DOMAIN next' = DOMAIN next
  <1>0. PICK k, c : k = loc[p].node /\ c = loc[p].cur
    OBVIOUS
  <1>1. /\ node' = node /\ Nodes' = Nodes /\ \A q \in Callers : q # p => Rests(q)
        /\ Keeps(p) /\ loc[p].pc = "publish" /\ loc'[p].pc = "insert"
    BY DEF Publishes, Holds, OthersRest, Nodes
  <1>2. Along(pos) /\ Reach(G) /\ NoneLost(pos, G) /\ NoneTwice(pos, G)
    BY DEF Lined
  <1>3. c \in G /\ k \in G /\ c \in DOMAIN next /\ pos[c] < pos[k]
    BY <1>0, <1>1, <1>2 DEF Reach, Along, OnTheWay
  <1>4. /\ DOMAIN next' = DOMAIN next /\ k \in Nodes
        /\ next'[c] = k /\ \A n \in DOMAIN next : n # c => next'[n] = next[n]
    BY <1>0, <1>3, PublishesBasics DEF Basics
  <1>5. Creating(p) /\ k # 0
    BY <1>1, <1>4, NodeFacts, CreatingFacts DEF Basics, Holding
  <1>6. \A n \in DOMAIN next : pos[n] \in Int
    BY OrderFacts DEF Basics
  <1>7. \A q \in Callers : /\ loc'[q].node = loc[q].node /\ loc'[q].name = loc[q].name
                           /\ loc'[q].met = loc[q].met
                           /\ q # p => loc'[q].pc = loc[q].pc /\ loc'[q].cur = loc[q].cur
                           /\ loc'[q].pc \in Holding <=> loc[q].pc \in Holding
                           /\ Creating(q)' <=> Creating(q)
                           /\ Single(q)' <=> Single(q)
    BY <1>1 DEF Rests, Keeps, Holding, Placed, Creating, Mapping, Single
  <1>8. Along(pos)'
    <2>1. ASSUME NEW u \in DOMAIN next', next'[u] # 0
          PROVE  pos[u] < pos[next'[u]]
      BY <1>2, <1>3, <1>4, <2>1 DEF Along
    <2>2. \A q \in Callers : loc'[q].pc = "publish" => pos[loc'[q].cur] < pos[loc'[q].node]
      BY <1>1, <1>2, <1>7 DEF Along
    <2>3. QED
      BY <1>2, <1>4, <2>1, <2>2 DEF Along
  <1>9. Reach(G)'
    <2>1. \A u \in G : next'[u] \in G
      BY <1>2, <1>3, <1>4 DEF Reach
    <2>2. \A q \in Callers : /\ loc'[q].pc \in OnTheWay => loc'[q].cur \in G
                             /\ loc'[q].pc = "publish" => loc'[q].node \in G
      BY <1>1, <1>2, <1>7 DEF Reach, OnTheWay
    <2>3. QED
      BY <1>2, <2>1, <2>2 DEF Reach
  \* What leads past the new node now was about to do so.
  <1>10. ASSUME NEW u, NEW v, Edge(G, u, v)'
         PROVE  Edge(G, u, v) /\ (u = c => v = k \/ \E q \in Callers : q # p /\ loc[q].pc = "publish")
    <2>1. CASE u \in G /\ v = next'[u]
      BY <1>0, <1>1, <1>4, <2>1 DEF Edge
    <2>2. CASE \E q \in Callers : loc'[q].pc = "publish" /\ u = loc'[q].cur /\ v = loc'[q].node
      BY <1>1, <1>7, <2>2 DEF Edge
    <2>3. QED
      BY <1>10, <2>1, <2>2 DEF Edge
  <1>11. \A n : /\ Unmet(n)' <=> Unmet(n)
                /\ Pending(n) => Pending(n)' \/ n = k
    BY <1>0, <1>1, <1>7 DEF Unmet, Pending
  <1>12. \A n : Solo(n)' => Solo(n) \/ (Single(p) /\ n = k)
    <2>1. \A q \in Callers : q # p => (loc'[q].pc \in Placed <=> loc[q].pc \in Placed)
      BY <1>7
    <2>2. QED
      BY <1>0, <1>7, <1>11, <2>1 DEF Solo
  <1>13. \A q \in Callers : Single(q) => q = p
    BY <1>5, SingleOne DEF Basics
  <1>14. ASSUME Single(p), NEW u \in DOMAIN next, NEW v \in DOMAIN next, Edge(G, u, v)', Jumps(pos, u, v, k)
         PROVE  FALSE
    <2>1. CASE u = c
      <3>1. v = k
        BY <1>10, <1>14, <2>1, SingleOne DEF Basics
      <3>2. QED
        BY <1>3, <1>5, <1>6, <1>14, <3>1 DEF Jumps
    <2>2. CASE u # c
      BY <1>0, <1>1, <1>2, <1>10, <1>14, <2>2 DEF NoneLost
    <2>3. QED
      BY <2>1, <2>2
  <1>15. NoneLost(pos, G)'
    <2>1. ASSUME NEW n \in Nodes, Solo(n)'
          PROVE  n \in G /\ \A u, v \in DOMAIN next : Edge(G, u, v)' => ~Jumps(pos, u, v, n)
      <3>1. CASE Solo(n)
        BY <1>2, <1>10, <3>1 DEF NoneLost
      <3>2. CASE Single(p) /\ n = k
        BY <1>3, <1>14, <3>2
      <3>3. QED
        BY <1>12, <2>1, <3>1, <3>2
    <2>2. ASSUME NEW n \in G, ~Pending(n)', Single(p)
          PROVE  \A u, v \in DOMAIN next : Edge(G, u, v)' => ~Jumps(pos, u, v, n)
      <3>1. CASE n = k
        BY <1>14, <2>2, <3>1
      <3>2. CASE ~Pending(n)
        BY <1>2, <1>10, <2>2, <3>2 DEF NoneLost
      <3>3. QED
        BY <1>11, <2>2, <3>1, <3>2
    <2>3. ASSUME NEW q \in Callers, Single(q)'
          PROVE  q = p /\ Single(p) /\ loc'[q].pc # "publish"
      BY <1>1, <1>7, <1>13, <2>3
    <2>4. QED
      BY <1>1, <1>4, <2>1, <2>2, <2>3 DEF NoneLost, Jumps
  <1>16. NoneTwice(pos, G)'
    <2>1. \A q \in Callers, n \in Nodes : Ahead(pos, q, n) => Ahead(pos, q, n)'
      BY <1>1, <1>7 DEF Ahead
    <2>2. ASSUME NEW q \in Callers, NEW n \in Nodes, Creating(q)', node[n].name = loc'[q].name
          PROVE  /\ Unmet(n)' => Ahead(pos, q, n)'
                 /\ Single(q)' /\ n \in G /\ ~(loc'[q].pc \in Holding /\ n = loc'[q].node) => Ahead(pos, q, n)'
      BY <1>2, <1>7, <1>11, <2>1, <2>2 DEF NoneTwice
    <2>3. \A m, n \in Nodes :
            Unmet(n)' /\ m \in G /\ node[m].done /\ m # n /\ node[m].name = node[n].name =>
              node[n].name = Main /\ FALSE \in {node[m].cached, node[n].cached}
      BY <1>2, <1>11 DEF NoneTwice
    <2>4. QED
      BY <1>1, <2>2, <2>3 DEF NoneTwice
  <1>17. QED
    BY <1>4, <1>8, <1>9, <1>15, <1>16 DEF Lined, Orders

\* Of the nodes from which the list leads on, those that it leads to from its head are a
\* chain, and have all that no link jumps.
LEMMA ChainOf ==
  ASSUME Basics, NEW pos \in Orders, Along(pos), NEW G \in SUBSET DOMAIN next,
         0 \in G, \A u \in G : next[u] \in G
  PROVE  \E H \in SUBSET G :
           /\ 0 \in H /\ \A u \in H : next[u] \in H
           /\ \A u, n \in H : ~Jumps(pos, u, next[u], n)
           /\ \A n \in G : (\A u \in G : ~Jumps(pos, u, next[u], n)) => n \in H
  <1> DEFINE Closed(S) == 0 \in S /\ \A u \in S : next[u] \in S
             H == {n \in G : \A S \in SUBSET G : Closed(S) => n \in S}
  <1>1. /\ pos[0] = 0 /\ \A n \in G : pos[n] \in Nat /\ pos[n] <= Len(node)
        /\ \A m, n \in G : pos[m] = pos[n] => m = n
        /\ \A u \in G : next[u] # 0 => pos[u] < pos[next[u]]
    BY OrderFacts DEF Basics, Along
  <1>2. Closed(G)
    OBVIOUS
  <1>3. H \in SUBSET G /\ Closed(H)
    <2>1. 0 \in H
      OBVIOUS
    <2>2. ASSUME NEW u \in H PROVE next[u] \in H
      <3>1. u \in G /\ next[u] \in G /\ \A S \in SUBSET G : Closed(S) => u \in S
        BY <1>2
      <3>2. \A S \in SUBSET G : Closed(S) => next[u] \in S
        BY <3>1
      <3> HIDE DEF Closed
      <3>3. QED
        BY <3>1, <3>2
    <2>3. QED
      BY <2>1, <2>2
  <1>4. ASSUME NEW S, S \in SUBSET H, Closed(S)
        PROVE  S = H
    <2>1. S \in SUBSET G
      BY <1>3, <1>4
    <2> HIDE DEF Closed
    <2>2. QED
      BY <1>4, <2>1
  <1> HIDE DEF H
  \* No link jumps the head, nor what follows one that none jumps.
  <1> DEFINE C == {n \in H : \A u \in H : ~Jumps(pos, u, next[u], n)}
  <1>5. 0 \in C
    BY <1>1, <1>3 DEF Jumps
  <1>6. ASSUME NEW n \in C PROVE next[n] \in C
    <2> DEFINE m == next[n]
    <2>1. n \in H /\ m \in H /\ n \in G /\ m \in G /\ \A u \in H : ~Jumps(pos, u, next[u], n)
      BY <1>3
    <2>2. ASSUME NEW u \in H, Jumps(pos, n, m, u) PROVE FALSE
      <3> DEFINE S == {x \in H : pos[x] <= pos[n] \/ (m # 0 /\ pos[m] <= pos[x])}
      <3>1. u \notin S
        BY <1>1, <1>3, <2>1, <2>2 DEF Jumps
      <3>2. 0 \in S
        BY <1>1, <1>3, <2>1
      <3>3. ASSUME NEW x \in S PROVE next[x] \in S
        <4>1. x \in H /\ x \in G /\ next[x] \in H /\ next[x] \in G
          BY <1>3
        <4>2. CASE x = n
          BY <1>1, <2>1, <3>2, <4>1, <4>2
        <4>3. CASE x # n /\ pos[x] <= pos[n]
          <5>1. pos[x] < pos[n]
            BY <1>1, <2>1, <4>1, <4>3
          <5>2. ~Jumps(pos, x, next[x], n)
            BY <2>1, <4>1
          <5>3. pos[next[x]] <= pos[n]
            BY <1>1, <2>1, <4>1, <5>1, <5>2 DEF Jumps
          <5>4. QED
            BY <4>1, <5>3
        <4>4. CASE m # 0 /\ pos[m] <= pos[x]
          <5>1. CASE next[x] = 0
            BY <3>2, <5>1
          <5>2. CASE next[x] # 0
            <6>1. pos[m] <= pos[next[x]]
              BY <1>1, <2>1, <4>1, <4>4, <5>2
            <6>2. QED
              BY <4>1, <4>4, <6>1
          <5>3. QED
            BY <5>1, <5>2
        <4>5. QED
          BY <4>2, <4>3, <4>4
      <3>4. S = H
        <4>1. S \in SUBSET H /\ Closed(S)
          BY <3>2, <3>3
        <4> HIDE DEF S, Closed
        <4>2. QED
          BY <1>4, <4>1
      <3>5. QED
        BY <2>2, <3>1, <3>4
    <2>3. ASSUME NEW u \in H, Jumps(pos, u, next[u], m) PROVE FALSE
      <3>1. u \in G /\ next[u] \in H /\ next[u] \in G
        BY <1>3
      <3>2. ~Jumps(pos, u, next[u], n) /\ ~Jumps(pos, n, m, u)
        BY <2>1, <2>2
      <3>3. pos[u] < pos[m] /\ (next[u] = 0 \/ pos[m] < pos[next[u]])
        BY <2>3 DEF Jumps
      <3>4. m # 0 /\ pos[n] < pos[m]
        BY <1>1, <2>1, <3>1, <3>3
      <3>5. ~(pos[u] < pos[n])
        BY <1>1, <2>1, <3>1, <3>2, <3>3, <3>4 DEF Jumps
      <3>6. u # n
        BY <1>1, <2>1, <3>3, <3>4
      <3>7. pos[n] < pos[u]
        BY <1>1, <2>1, <3>1, <3>5, <3>6
      <3>8. QED
        BY <1>1, <2>1, <3>1, <3>2, <3>3, <3>7 DEF Jumps
    <2>4. QED
      BY <2>1, <2>3
  <1>7. C = H
    <2>1. C \in SUBSET H /\ Closed(C)
      BY <1>5, <1>6
    <2> HIDE DEF C, Closed
    <2>2. QED
      BY <1>4, <2>1
  \* The list cannot pass what no link jumps without an end.
  <1>8. ASSUME NEW n \in G, \A u \in G : ~Jumps(pos, u, next[u], n), n \notin H
        PROVE  FALSE
    <2> DEFINE S == {x \in H : pos[x] < pos[n]}
               M == {Len(node) - pos[x] : x \in S}
    <2>1. 0 \in S
      BY <1>1, <1>3, <1>8
    <2>2. ASSUME NEW x \in S PROVE next[x] \in S /\ pos[x] < pos[next[x]]
      <3>1. x \in H /\ x \in G /\ next[x] \in H /\ next[x] \in G /\ pos[x] < pos[n]
        BY <1>3
      <3>2. ~Jumps(pos, x, next[x], n) /\ next[x] # n
        BY <1>8, <3>1
      <3>3. next[x] # 0 /\ pos[next[x]] <= pos[n]
        BY <1>1, <1>8, <3>1, <3>2 DEF Jumps
      <3>4. QED
        BY <1>1, <1>8, <3>1, <3>2, <3>3
    <2>3. Len(node) \in Nat /\ \A x \in S : pos[x] \in Nat /\ pos[x] <= Len(node)
      BY <1>1, <1>3, NodeFacts DEF Basics
    <2> HIDE DEF S
    <2>4. M \in SUBSET Nat /\ M # {}
      BY <2>1, <2>3
    <2>5. PICK d \in M : \A e \in M : d <= e
      BY <2>4, LeastNat
    <2>6. PICK x \in S : d = Len(node) - pos[x]
      BY <2>5
    <2>7. Len(node) - pos[next[x]] \in M
      BY <2>2
    <2>8. d <= Len(node) - pos[next[x]]
      BY <2>5, <2>7
    <2>9. QED
      BY <2>2, <2>3, <2>6, <2>8
  <1>9. \A u, n \in H : ~Jumps(pos, u, next[u], n)
    BY <1>7
  <1>10. QED
    BY <1>3, <1>8, <1>9

\* What a creation begins with: by ioctl with a look-up, by the loader without one.
Starts(p, x, pc) ==
  /\ Begins(p, x, pc) /\ UNCHANGED <<node, next, nextId>>
  /\ \/ pc = "lookup" /\ loc[p].pc = "idle" /\ cache' = cache
     \/ pc = "scan" /\ loc[p].pc = "boot" /\ p = Loader /\ x = Main
        /\ cache' = [cache EXCEPT !.on = TRUE]

\* A creation that begins meets those under way.
LEMMA StartFacts ==
  ASSUME Basics, NEW p \in Callers, NEW x \in Nat, NEW pc, Starts(p, x, pc)
  PROVE  /\ Basics'
         /\ node' = node /\ next' = next /\ Nodes' = Nodes
         /\ loc'[p].pc = pc /\ loc'[p].name = x /\ loc'[p].cur = next[0]
         /\ pc \in {"scan", "lookup"} /\ ~Creating(p)
         /\ pc = "scan" => x = Main /\ \A n \in Nodes : ~node[n].cached
         /\ loc'[p].met = {} => \A q \in Callers : ~Creating(q)
         /\ \A q \in Callers : q # p =>
              /\ loc'[q].pc = loc[q].pc /\ loc'[q].name = loc[q].name /\ loc'[q].cur = loc[q].cur
              /\ loc'[q].node = loc[q].node /\ loc'[q].id = loc[q].id
              /\ Creating(q)' <=> Creating(q)
              /\ loc[q].met \subseteq loc'[q].met
              /\ IF Creating(q) THEN loc'[q].met # {} ELSE loc'[q].met = loc[q].met
  <1>1. pc \in {"scan", "lookup"} /\ Begins(p, x, pc) /\ node' = node /\ next' = next /\ nextId' = nextId
        /\ Nodes' = Nodes
    BY DEF Starts, Nodes
  <1>2. next[0] \in Nat
    BY NodeFacts DEF Basics, Owned
  <1>3. /\ DOMAIN loc' = Callers /\ \A q \in Callers : Seated(loc'[q])
        /\ loc'[p].pc = pc /\ loc'[p].name = x /\ loc'[p].cur = next[0]
        /\ loc'[p].met = {} => \A q \in Callers : q # p => ~Creating(q)
        /\ \A q \in Callers : q # p =>
             /\ loc'[q].pc = loc[q].pc /\ loc'[q].name = loc[q].name /\ loc'[q].cur = loc[q].cur
             /\ loc'[q].node = loc[q].node /\ loc'[q].id = loc[q].id
             /\ IF Creating(q) THEN loc'[q].met = loc[q].met \cup {x} /\ loc[q].name \in loc'[p].met
                               ELSE loc'[q].met = loc[q].met
    BY <1>1, <1>2, Started DEF Basics
  <1>4. ~Creating(p) /\ loc[p].pc \in {"idle", "boot"} /\ (loc[p].pc = "boot" => p = Loader)
    BY DEF Starts, Creating
  <1>5. \A q \in Callers : q # p => (Creating(q)' <=> Creating(q))
    BY <1>3 DEF Creating, Mapping
  <1>6. Acquainted'
    <2> SUFFICES ASSUME NEW q \in Callers, NEW u \in Callers, Creating(q)', Creating(u)', q # u
                 PROVE  loc'[u].name \in loc'[q].met
      BY DEF Acquainted
    <2>1. CASE q = p
      BY <1>3, <1>5, <2>1
    <2>2. CASE u = p
      BY <1>3, <1>5, <2>2
    <2>3. CASE q # p /\ u # p
      BY <1>3, <1>5, <2>3 DEF Basics, Acquainted
    <2>4. QED
      BY <2>1, <2>2, <2>3
  <1>7. DOMAIN cache' = DOMAIN cache /\ cache'.on \in BOOLEAN /\ (cache.on => cache'.on)
        /\ (pc = "lookup" => cache' = cache) /\ (pc = "scan" => cache'.on)
    BY DEF Starts, Basics, ListTypes
  <1>8. ListTypes'
    BY <1>1, <1>3, <1>7 DEF Basics, ListTypes
  <1>9. Owned'
    <2>1. \A q \in Callers : loc'[q].pc \in Holding =>
            /\ loc[q].pc \in Holding /\ loc'[q].pc = loc[q].pc
            /\ loc'[q].node = loc[q].node /\ loc'[q].name = loc[q].name /\ loc'[q].id = loc[q].id
      BY <1>1, <1>3 DEF Holding, Placed
    <2>2. QED
      BY <1>1, <2>1 DEF Basics, Owned
  <1>13. Overtook'
    <2>1. \A q \in Callers : loc'[q].pc \in Holding =>
            loc[q].pc \in Holding /\ loc'[q].node = loc[q].node /\ loc'[q].name = loc[q].name
      BY <1>1, <1>3 DEF Holding, Placed
    <2>2. QED
      BY <1>1, <2>1 DEF Basics, Overtook
  <1>10. Early'
    <2>1. loc'[Loader].pc = "boot" => ~cache'.on
      BY <1>1, <1>3, <1>7, CollectorsAssumption DEF Starts, Basics, Early
    <2>2. \A q \in Callers : loc'[q].pc \in AtCache => loc[q].pc \in AtCache
      BY <1>1, <1>3 DEF AtCache
    <2>3. QED
      BY <1>1, <1>7, <2>1, <2>2 DEF Basics, Early
  <1>11. pc = "scan" => x = Main /\ \A n \in Nodes : ~node[n].cached
    BY DEF Starts, Basics, Early
  <1>12. QED
    BY <1>1, <1>3, <1>4, <1>5, <1>6, <1>8, <1>9, <1>10, <1>11, <1>13 DEF Basics

\* Nobody who was alone stays alone, and the list is as it was.
LEMMA BeginsLined ==
  ASSUME Basics, NEW pos \in Orders, NEW G \in SUBSET DOMAIN next, Lined(pos, G),
         NEW p \in Callers, NEW x \in Nat, NEW pc, Starts(p, x, pc)
  PROVE  (\E H \in SUBSET DOMAIN next : Lined(pos, H)') /\ Orders' = Orders /\ next' = next
  <1>1. /\ node' = node /\ next' = next /\ Nodes' = Nodes
        /\ loc'[p].pc = pc /\ loc'[p].name = x /\ loc'[p].cur = next[0]
        /\ pc \in {"scan", "lookup"} /\ ~Creating(p)
        /\ pc = "scan" => x = Main /\ \A n \in Nodes : ~node[n].cached
        /\ loc'[p].met = {} => \A q \in Callers : ~Creating(q)
    BY StartFacts
  <1>2. \A q \in Callers : q # p =>
          /\ loc'[q].pc = loc[q].pc /\ loc'[q].name = loc[q].name /\ loc'[q].cur = loc[q].cur
          /\ loc'[q].node = loc[q].node
          /\ Creating(q)' <=> Creating(q)
          /\ Creating(q) => loc'[q].met # {}
    BY StartFacts
  <1>3. Along(pos) /\ Reach(G) /\ NoneLost(pos, G) /\ NoneTwice(pos, G)
    BY DEF Lined
  <1>4. \A q \in Callers :
          /\ loc'[q].pc = "publish" <=> loc[q].pc = "publish"
          /\ loc[q].pc = "publish" => loc'[q].cur = loc[q].cur /\ loc'[q].node = loc[q].node
    BY <1>1, <1>2 DEF Creating, Mapping
  <1>5. /\ Along(pos)' /\ \A H : \A u, v : Edge(H, u, v)' <=> Edge(H, u, v)
    BY <1>1, <1>3, <1>4, SameEdges
  <1>6. /\ \A n : Unmet(n)' <=> Unmet(n)
        /\ \A q \in Callers : Single(q)' => q = p
        /\ \A n : Solo(n)' => Unmet(n)
    <2>1. \A q \in Callers : Single(q)' => q = p
      BY <1>2 DEF Single
    <2>2. loc'[p].pc \notin Placed
      BY <1>1 DEF Placed
    <2>3. QED
      BY <1>1, <2>1, <2>2 DEF Unmet, Solo
  <1>7. ASSUME NEW H \in SUBSET G, 0 \in H, \A u \in H : next[u] \in H,
               \A q \in Callers : q # p => /\ loc[q].pc \in OnTheWay => loc[q].cur \in H
                                           /\ loc[q].pc = "publish" => loc[q].node \in H
        PROVE  Reach(H)'
    <2>1. \A q \in Callers : /\ loc'[q].pc \in OnTheWay => loc'[q].cur \in H
                             /\ loc'[q].pc = "publish" => loc'[q].node \in H
      BY <1>1, <1>2, <1>7
    <2>2. QED
      BY <1>1, <1>7, <2>1 DEF Reach
  \* From the head nothing that no link jumps is passed.
  <1>8. ASSUME NEW n \in Nodes, n \in DOMAIN next, x = node[n].name, ~Jumps(pos, 0, next[0], n)
        PROVE  Ahead(pos, p, n)'
    <2>1. CASE pc = "scan"
      BY <1>1, <1>8, <2>1 DEF Ahead
    <2>2. CASE pc = "lookup"
      <3>1. /\ 0 \in DOMAIN next /\ next[0] \in DOMAIN next /\ n # 0
            /\ \A m \in DOMAIN next : pos[m] \in Nat
        BY NodeFacts, OrderFacts DEF Basics, Owned
      <3>2. pos[0] = 0 /\ pos[n] # pos[0]
        BY <1>3, <1>8, <3>1 DEF Along
      <3>3. next[0] # 0 /\ pos[next[0]] <= pos[n]
        BY <1>8, <3>1, <3>2 DEF Jumps
      <3>4. QED
        BY <1>1, <2>2, <3>3 DEF Ahead
    <2>3. QED
      BY <1>1, <2>1, <2>2
  <1>9. \A n \in Nodes : Unmet(n) => /\ n \in G /\ n \in DOMAIN next
                                     /\ \A u, v \in DOMAIN next : Edge(G, u, v) => ~Jumps(pos, u, v, n)
    BY <1>3 DEF NoneLost, Solo
  <1>10. 0 \in G /\ \A u \in G : u \in DOMAIN next /\ next[u] \in G /\ next[u] \in DOMAIN next
                                 /\ Edge(G, u, next[u])
    BY <1>3 DEF Reach, Edge
  <1>11. ASSUME NEW q \in Callers, NEW n \in Nodes, Creating(q)', node[n].name = loc'[q].name, Unmet(n)
         PROVE  Ahead(pos, q, n)'
    <2>1. CASE q = p
      BY <1>1, <1>8, <1>9, <1>10, <1>11, <2>1
    <2>2. CASE q # p
      <3>1. Ahead(pos, q, n)
        BY <1>2, <1>3, <1>11, <2>2 DEF NoneTwice
      <3>2. QED
        BY <1>1, <1>2, <2>2, <3>1 DEF Ahead
    <2>3. QED
      BY <2>1, <2>2
  <1>12. ASSUME NEW H \in SUBSET G
         PROVE  \A m, n \in Nodes :
                  Unmet(n)' /\ m \in H /\ node[m].done /\ m # n /\ node[m].name = node[n].name =>
                    node[n].name = Main /\ FALSE \in {node[m].cached, node[n].cached}
    BY <1>3, <1>6 DEF NoneTwice
  <1>13. CASE \E q \in Callers : Creating(q)
    <2>1. \A q \in Callers : ~Single(q)'
      BY <1>1, <1>6, <1>13 DEF Single
    <2>2. Reach(G)'
      BY <1>3, <1>7 DEF Reach
    <2>3. NoneLost(pos, G)'
      BY <1>1, <1>5, <1>6, <1>9, <2>1 DEF NoneLost
    <2>4. NoneTwice(pos, G)'
      BY <1>1, <1>6, <1>11, <1>12, <2>1 DEF NoneTwice
    <2>5. QED
      BY <1>1, <1>5, <2>2, <2>3, <2>4 DEF Lined, Orders
  <1>14. CASE \A q \in Callers : ~Creating(q)
    <2>1. PICK H \in SUBSET G :
            /\ 0 \in H /\ \A u \in H : next[u] \in H
            /\ \A u, n \in H : ~Jumps(pos, u, next[u], n)
            /\ \A n \in G : (\A u \in G : ~Jumps(pos, u, next[u], n)) => n \in H
      BY <1>3, <1>10, ChainOf
    <2>2. \A q \in Callers : loc[q].pc \notin OnTheWay
      BY <1>14 DEF Creating, Mapping, OnTheWay
    <2>3. Reach(H)'
      BY <1>7, <2>1, <2>2 DEF OnTheWay
    <2>4. \A u, v : Edge(H, u, v)' => u \in H /\ v = next[u] /\ Edge(G, u, v)
      <3>1. \A u, v : Edge(H, u, v) => u \in H /\ v = next[u] /\ Edge(G, u, v)
        BY <2>2 DEF Edge, OnTheWay
      <3>2. \A u, v : Edge(H, u, v)' <=> Edge(H, u, v)
        BY <1>5
      <3>3. QED
        BY <3>1, <3>2
    <2>5. \A n \in Nodes : Unmet(n) => n \in H
      BY <1>9, <1>10, <2>1
    <2>6. NoneLost(pos, H)'
      <3>1. \A n \in Nodes : Solo(n)' => n \in H /\ \A u, v \in DOMAIN next : Edge(H, u, v)' => ~Jumps(pos, u, v, n)
        BY <1>6, <1>9, <2>4, <2>5
      <3>2. \A n \in H : \A u, v \in DOMAIN next : Edge(H, u, v)' => ~Jumps(pos, u, v, n)
        BY <2>1, <2>4
      <3>3. \A q \in Callers : Single(q)' => loc'[q].pc # "publish"
        BY <1>1, <1>6
      <3>4. QED
        BY <1>1, <3>1, <3>2, <3>3 DEF NoneLost, Jumps
    <2>7. NoneTwice(pos, H)'
      <3>1. ASSUME NEW q \in Callers, NEW n \in Nodes, Creating(q)', node[n].name = loc'[q].name, n \in H
            PROVE  Ahead(pos, q, n)'
        <4>1. q = p
          BY <1>2, <1>14, <3>1
        <4>2. ~Jumps(pos, 0, next[0], n) /\ n \in DOMAIN next
          BY <2>1, <3>1
        <4>3. QED
          BY <1>1, <1>8, <3>1, <4>1, <4>2
      <3>2. QED
        <4>1. \A q \in Callers, n \in Nodes : Creating(q)' /\ node[n].name = loc'[q].name =>
                /\ Unmet(n)' => Ahead(pos, q, n)'
                /\ Single(q)' /\ n \in H /\ ~(loc'[q].pc \in Holding /\ n = loc'[q].node) => Ahead(pos, q, n)'
          BY <1>6, <1>11, <3>1
        <4>2. \A m, n \in Nodes :
                Unmet(n)' /\ m \in H /\ node[m].done /\ m # n /\ node[m].name = node[n].name =>
                  node[n].name = Main /\ FALSE \in {node[m].cached, node[n].cached}
          BY <1>12
        <4>3. node' = node /\ Nodes' = Nodes
          BY <1>1
        <4>4. QED
          BY <4>1, <4>2, <4>3 DEF NoneTwice
    <2>8. QED
      BY <1>1, <1>5, <2>3, <2>6, <2>7 DEF Lined, Orders
  <1>15. QED
    BY <1>13, <1>14

\* Collectors made one by one, each at the head, are in line.
LEMMA InitLined == Init => ListInv
  <1> SUFFICES ASSUME Init PROVE ListInv
    OBVIOUS
  <1>1. PICK k \in Earlier :
          /\ Before(k)
          /\ loc = [p \in Callers |-> IF k = 0 /\ p = Loader THEN [Idle EXCEPT !.pc = "boot"] ELSE Idle]
    BY DEF Init
  <1>2. k \in Nat /\ Main \in Nat /\ 2^Shift \in Nat \ {0}
    <2>1. 4 * 2^Order \in Int
      BY PowersAssumption DEF Size
    <2>2. 2^(1 * Shift) \in Nat \ {0} /\ 1 * Shift = Shift
      BY PowersAssumption, CollectorsAssumption DEF Shift
    <2>3. QED
      BY <2>1, <2>2, CollectorsAssumption
  <1>3. /\ node = [i \in 1..k |-> [name |-> Main + i - 1, id |-> i, met |-> {}, done |-> TRUE, cached |-> TRUE]]
        /\ next = [i \in 0..k |-> IF i = 0 THEN k ELSE i - 1]
    BY <1>1 DEF Before
  <1>4. /\ node \in Seq(Collector) /\ nextId \in Nat /\ cache \in Cache
        /\ next \in [0..k -> 0..k] /\ DOMAIN next = 0..k
    BY <1>1, BeforeShape
  <1>5. /\ Nodes = 1..k /\ Len(node) = k
        /\ \A n \in Nodes : node[n].name = Main + n - 1 /\ node[n].done /\ node[n].cached
    BY <1>2, <1>3, <1>4 DEF Nodes
  <1>6. \A p \in Callers : /\ Seated(loc[p]) /\ loc[p].pc \in {"idle", "boot"}
                           /\ loc[p].pc = "boot" => k = 0
    <2>1. /\ Seated(Idle) /\ Idle.pc = "idle"
          /\ Seated([Idle EXCEPT !.pc = "boot"]) /\ [Idle EXCEPT !.pc = "boot"].pc = "boot"
      BY DEF Seated, Idle, Pcs
    <2> HIDE DEF Idle
    <2>2. QED
      BY <1>1, <2>1
  <1>7. \A p \in Callers : /\ ~Creating(p) /\ loc[p].pc \notin Holding /\ loc[p].pc \notin OnTheWay
                           /\ loc[p].pc \notin AtCache
    BY <1>6 DEF Creating, Holding, Placed, OnTheWay, AtCache
  <1>8. cache.on <=> k > 0
    <2>1. CASE k < 2^Shift
      <3>1. cache = [NoCache EXCEPT !.on = (k > 0)]
        BY <1>1, <2>1 DEF Before
      <3>2. QED
        BY <3>1 DEF NoCache
    <2>2. CASE ~(k < 2^Shift)
      <3>1. cache = [NoCache EXCEPT !.on = TRUE, !.high = 2, !.top = 2]
        BY <1>1, <2>2 DEF Before
      <3>2. cache.on
        BY <3>1 DEF NoCache
      <3>3. QED
        BY <1>2, <2>2, <3>2
    <2>3. QED
      BY <2>1, <2>2
  <1>9. Basics
    <2>1. ListTypes
      BY <1>1, <1>4, <1>6 DEF ListTypes, Cache
    <2>2. Owned
      <3>1. 0 \in DOMAIN next /\ DOMAIN next \subseteq 0..Len(node) /\ next \in [DOMAIN next -> DOMAIN next]
        BY <1>2, <1>4, <1>5
      <3>2. /\ \A n \in Nodes : node[n].done => n \in DOMAIN next
            /\ \A n \in Nodes : node[n].cached => node[n].done
        BY <1>2, <1>4, <1>5
      <3>3. \A p \in Callers : ~(loc[p].pc \in Holding)
        BY <1>7
      <3>4. QED
        BY <3>1, <3>2, <3>3, Zenon DEF Owned
    <2>3. Acquainted /\ Overtook
      BY <1>7 DEF Acquainted, Overtook
    <2>4. Early
      BY <1>2, <1>5, <1>6, <1>7, <1>8, CollectorsAssumption DEF Early
    <2>5. QED
      BY <2>1, <2>2, <2>3, <2>4 DEF Basics
  <1>10. PICK pos : pos = [i \in 0..k |-> IF i = 0 THEN 0 ELSE k + 1 - i]
    OBVIOUS
  <1>11. pos \in Orders
    <2>1. Cardinality(0..k) - 1 = k
      BY <1>2, FS_Interval
    <2>2. pos \in [0..k -> 0..k]
      BY <1>2, <1>10
    <2>3. QED
      BY <1>4, <2>1, <2>2 DEF Orders
  <1>12. /\ pos[0] = 0 /\ \A i \in 1..k : pos[i] = k + 1 - i
         /\ next[0] = k /\ \A i \in 1..k : next[i] = i - 1
    BY <1>2, <1>3, <1>10
  <1>13. Along(pos)
    <2>1. \A m, n \in 0..k : pos[m] = pos[n] => m = n
      BY <1>2, <1>12
    <2>2. \A u \in 0..k : next[u] # 0 => pos[u] < pos[next[u]]
      BY <1>2, <1>12
    <2>3. QED
      BY <1>4, <1>7, <1>12, <2>1, <2>2 DEF Along, OnTheWay
  <1>14. Reach(0..k)
    BY <1>2, <1>4, <1>7 DEF Reach, OnTheWay
  <1>15. NoneLost(pos, 0..k)
    <2>1. ASSUME NEW u \in 0..k, NEW v \in 0..k, NEW n \in 0..k, v = next[u], Jumps(pos, u, v, n)
          PROVE  FALSE
      BY <1>2, <1>12, <2>1 DEF Jumps
    <2>2. \A u, v : Edge(0..k, u, v) => v = next[u]
      BY <1>7 DEF Edge, OnTheWay
    <2>3. \A p \in Callers : ~Single(p)
      BY <1>7 DEF Single
    <2>4. \A n \in 0..k : \A u, v \in DOMAIN next : Edge(0..k, u, v) => ~Jumps(pos, u, v, n)
      BY <1>4, <2>1, <2>2
    <2>5. \A n \in Nodes : n \in 0..k
      BY <1>2, <1>5
    <2>6. QED
      BY <2>3, <2>4, <2>5 DEF NoneLost
  <1>16. NoneTwice(pos, 0..k)
    <2>1. \A m, n \in Nodes : node[m].name = node[n].name => m = n
      BY <1>2, <1>5
    <2>2. QED
      BY <1>7, <2>1 DEF NoneTwice
  <1>17. 0..k \in SUBSET DOMAIN next
    BY <1>4
  <1>18. Lined(pos, 0..k)
    BY <1>13, <1>14, <1>15, <1>16 DEF Lined
  <1>19. QED
    BY <1>9, <1>11, <1>17, <1>18 DEF ListInv

\* A step that changes nothing.
LEMMA StandsStill ==
  ASSUME Basics, NEW pos, NEW G, Lined(pos, G), UNCHANGED vars
  PROVE  Basics' /\ Lined(pos, G)' /\ Orders' = Orders /\ next' = next
  <1>1. /\ node' = node /\ next' = next /\ nextId' = nextId /\ cache' = cache /\ loc' = loc
        /\ Nodes' = Nodes
    BY DEF vars, Nodes
  <1>2. ListTypes' /\ Owned'
    BY <1>1 DEF Basics, ListTypes, Owned, Seated
  <1>3. Acquainted' /\ Overtook' /\ Early'
    BY <1>1 DEF Basics, Acquainted, Overtook, Early, Creating, Mapping
  <1>4. /\ Along(pos)' /\ \A u, v : Edge(G, u, v)' <=> Edge(G, u, v)
        /\ \A n : Pending(n)' <=> Pending(n)
    BY <1>1, SameEdges DEF Lined
  <1>5. Reach(G)'
    BY <1>1 DEF Lined, Reach
  <1>6. /\ \A q : /\ Creating(q)' <=> Creating(q)
                  /\ Single(q)' <=> Single(q)
        /\ \A n : /\ Unmet(n)' <=> Unmet(n)
                  /\ Solo(n)' <=> Solo(n)
    BY <1>1 DEF Creating, Mapping, Single, Unmet, Solo
  <1>7. NoneLost(pos, G)'
    BY <1>1, <1>4, <1>6 DEF Lined, NoneLost, Jumps
  <1>8. NoneTwice(pos, G)'
    <2>1. \A q, n : Ahead(pos, q, n)' <=> Ahead(pos, q, n)
      BY <1>1 DEF Ahead
    <2>2. QED
      BY <1>1, <1>6, <2>1 DEF Lined, NoneTwice
  <1>9. QED
    BY <1>1, <1>2, <1>3, <1>4, <1>5, <1>7, <1>8 DEF Basics, Lined, Orders

\* So the invariant of the list is inductive.
LEMMA ListKeeps == ListInv /\ [Next]_vars => ListInv'
  <1> SUFFICES ASSUME ListInv, [Next]_vars PROVE ListInv'
    OBVIOUS
  <1>1. Basics
    BY DEF ListInv
  <1>2. PICK pos \in Orders, G \in SUBSET DOMAIN next : Lined(pos, G)
    BY DEF ListInv
  <1>3. ASSUME Basics', next' = next, Orders' = Orders, NEW H \in SUBSET DOMAIN next, Lined(pos, H)'
        PROVE  ListInv'
    BY <1>3 DEF ListInv
  <1>4. CASE UNCHANGED vars
    BY <1>1, <1>2, <1>3, <1>4, StandsStill
  <1>5. ASSUME NEW p \in Callers, NEW x \in Nat, NEW pc, Starts(p, x, pc)
        PROVE  ListInv'
    <2>1. Basics'
      BY <1>1, <1>5, StartFacts
    <2>2. (\E H \in SUBSET DOMAIN next : Lined(pos, H)') /\ Orders' = Orders /\ next' = next
      BY <1>1, <1>2, <1>5, BeginsLined
    <2>3. QED
      BY <1>3, <2>1, <2>2
  <1>6. CASE Boot
    <2>1. Starts(Loader, Main, "scan")
      BY <1>6 DEF Boot, Starts, At, Listed
    <2>2. QED
      BY <1>5, <2>1, CollectorsAssumption
  <1>7. ASSUME NEW p \in Callers, Create(p) PROVE ListInv'
    <2>1. PICK x \in Names : Begins(p, x, "lookup")
      BY <1>7 DEF Create
    <2>2. Starts(p, x, "lookup")
      BY <1>7, <2>1 DEF Create, Starts, At, Listed, Table
    <2>3. QED
      BY <1>5, <2>2, CollectorsAssumption
  <1>8. ASSUME NEW p \in Callers, Making(p) \/ MapTop(p) \/ MapWalk(p) \/ \E id \in Offsets : Map(p, id)
        PROVE  ListInv'
    <2>1. loc[p].pc \in OnTheWay => loc[p].cur \in DOMAIN next
      BY <1>2 DEF Lined, Reach
    <2>2. Basics'
      BY <1>1, <1>8, <2>1, BasicsKeep
    <2>3. GoesOn(p) \/ Makes(p) \/ HangsOn(p) \/ Publishes(p) \/ Finishes(p)
      BY <1>1, <1>8, Steps
    <2>4. CASE GoesOn(p) \/ Makes(p) \/ Finishes(p)
      <3>1. Lined(pos, G)' /\ Orders' = Orders
        BY <1>1, <1>2, <2>2, <2>4, GoesOnLined, MakesLined, FinishesLined
      <3>2. next' = next
        BY <2>4 DEF GoesOn, Makes, Finishes
      <3>3. QED
        BY <1>2, <1>3, <2>2, <3>1, <3>2
    <2>5. CASE HangsOn(p)
      <3>1. \E new \in Orders', H \in SUBSET DOMAIN next' : Lined(new, H)'
        BY <1>1, <1>2, <2>2, <2>5, HangsOnLined
      <3>2. QED
        BY <2>2, <3>1 DEF ListInv
    <2>6. CASE Publishes(p)
      <3>1. Lined(pos, G)' /\ Orders' = Orders /\ DOMAIN next' = DOMAIN next
        BY <1>1, <1>2, <2>2, <2>6, PublishesLined
      <3>2. QED
        BY <1>2, <2>2, <3>1 DEF ListInv
    <2>7. QED
      BY <2>3, <2>4, <2>5, <2>6
  <1>9. QED
    BY <1>4, <1>6, <1>7, <1>8 DEF Next

-----------------------------------------------------------------------------
(* What the walk from the head finds.                                      *)

\* A set of numbers that has 0 and with a number the next one has all.
LEMMA Induction ==
  ASSUME NEW C \in SUBSET Nat, 0 \in C, \A k \in Nat : k \in C => k + 1 \in C
  PROVE  C = Nat
  <1> SUFFICES ASSUME Nat \ C # {} PROVE FALSE
    OBVIOUS
  <1>1. PICK m \in Nat \ C : \A n \in Nat \ C : m <= n
    BY LeastNat
  <1>2. m - 1 \in Nat /\ m - 1 \in C
    BY <1>1
  <1>3. QED
    BY <1>1, <1>2

\* A walk from h on along f exists.
LEMMA WalkExists ==
  ASSUME NEW D, NEW f \in [D -> D], NEW h \in D
  PROVE  \E W : W = [k \in Nat |-> IF k = 0 THEN h ELSE f[W[k - 1]]]
  <1> DEFINE Good(n, g) == /\ g \in [0..n -> D] /\ g[0] = h
                           /\ \A k \in 1..n : g[k] = f[g[k - 1]]
             C == {n \in Nat : \E g \in [0..n -> D] : Good(n, g)}
             W == [n \in Nat |-> (CHOOSE g \in [0..n -> D] : Good(n, g))[n]]
  <1>1. 0 \in C
    <2>1. Good(0, [k \in 0..0 |-> h])
      OBVIOUS
    <2>2. QED
      BY <2>1
  <1>2. ASSUME NEW n \in Nat, n \in C PROVE n + 1 \in C
    <2>1. PICK g \in [0..n -> D] : Good(n, g)
      BY <1>2
    <2> DEFINE e == [k \in 0..(n + 1) |-> IF k = n + 1 THEN f[g[n]] ELSE g[k]]
    <2>2. e \in [0..(n + 1) -> D] /\ e[0] = h
      BY <2>1
    <2>3. \A k \in 1..(n + 1) : e[k] = f[e[k - 1]]
      BY <2>1
    <2> HIDE DEF e
    <2>4. QED
      BY <2>2, <2>3
  <1>3. C = Nat
    <2> HIDE DEF C
    <2>1. QED
      BY <1>1, <1>2, Induction DEF C
  <1>4. ASSUME NEW m \in Nat, NEW n \in Nat, m <= n, NEW a, NEW b, Good(m, a), Good(n, b)
        PROVE  a[m] = b[m]
    <2> DEFINE E == {k \in Nat : k <= m => a[k] = b[k]}
    <2>1. 0 \in E
      BY <1>4
    <2>2. \A k \in Nat : k \in E => k + 1 \in E
      BY <1>4
    <2>3. E = Nat
      <3> HIDE DEF E
      <3>1. QED
        BY <2>1, <2>2, Induction DEF E
    <2>4. QED
      BY <2>3
  <1>5. \A n \in Nat : \E g \in [0..n -> D] : Good(n, g) /\ W[n] = g[n]
    BY <1>3
  <1> HIDE DEF W
  <1>6. W = [k \in Nat |-> IF k = 0 THEN h ELSE f[W[k - 1]]]
    <2>1. W[0] = h
      BY <1>5
    <2>2. ASSUME NEW k \in Nat \ {0} PROVE W[k] = f[W[k - 1]]
      <3>1. PICK a \in [0..k -> D] : Good(k, a) /\ W[k] = a[k]
        BY <1>5
      <3>2. k - 1 \in Nat
        OBVIOUS
      <3>3. PICK b \in [0..(k - 1) -> D] : Good(k - 1, b) /\ W[k - 1] = b[k - 1]
        BY <1>5, <3>2
      <3>4. a[k - 1] = b[k - 1]
        BY <3>1, <3>2, <3>3, <1>4
      <3>5. QED
        BY <3>1, <3>3, <3>4
    <2>3. W = [k \in Nat |-> W[k]]
      BY DEF W
    <2>4. QED
      BY <2>1, <2>2, <2>3
  <1>7. QED
    BY <1>6

\* Where the list leads.
LEMMA WalkSteps ==
  ASSUME Owned
  PROVE  Walk[0] = 0 /\ \A k \in Nat : Walk[k + 1] = next[Walk[k]]
  <1>1. Walk = [k \in Nat |-> IF k = 0 THEN 0 ELSE next[Walk[k - 1]]]
    <2>1. \E W : W = [k \in Nat |-> IF k = 0 THEN 0 ELSE next[W[k - 1]]]
      <3>1. next \in [DOMAIN next -> DOMAIN next] /\ 0 \in DOMAIN next
        BY DEF Owned
      <3>2. QED
        BY <3>1, WalkExists
    <2>2. QED
      BY <2>1 DEF Walk
  <1> HIDE DEF Walk
  <1>2. QED
    BY <1>1

\* What the invariant says of the walk from the head is the property.
LEMMA ListedWell == ListInv => ListedOnce
  <1> SUFFICES ASSUME ListInv PROVE ListedOnce
    OBVIOUS
  <1>1. Basics
    BY DEF ListInv
  <1>2. PICK pos \in Orders, G \in SUBSET DOMAIN next : Lined(pos, G)
    BY DEF ListInv
  <1>3. Along(pos) /\ Reach(G) /\ NoneLost(pos, G) /\ NoneTwice(pos, G)
    BY <1>2 DEF Lined
  <1>4. PICK N : N = Len(node)
    OBVIOUS
  <1>5. N \in Nat /\ Nodes = 1..N /\ \A n \in DOMAIN next : pos[n] \in Nat /\ pos[n] <= N
    BY <1>1, <1>4, NodeFacts, OrderFacts DEF Basics
  <1>6. Walk[0] = 0 /\ \A k \in Nat : Walk[k + 1] = next[Walk[k]]
    BY <1>1, WalkSteps DEF Basics
  <1>7. \A k \in Nat : Walk[k] \in G /\ Walk[k] \in DOMAIN next
    <2> DEFINE C == {k \in Nat : Walk[k] \in G}
    <2>1. 0 \in C
      BY <1>3, <1>6 DEF Reach
    <2>2. \A k \in Nat : k \in C => k + 1 \in C
      BY <1>3, <1>6 DEF Reach
    <2>3. C = Nat
      <3> HIDE DEF C
      <3>1. QED
        BY <2>1, <2>2, Induction DEF C
    <2>4. QED
      BY <2>3
  <1>8. \E k \in 1..(N + 1) : Walk[k] = 0
    <2> SUFFICES ASSUME \A k \in 1..(N + 1) : Walk[k] # 0 PROVE FALSE
      OBVIOUS
    <2> DEFINE C == {k \in Nat : k <= N + 1 => pos[Walk[k]] >= k}
    <2>1. 0 \in C
      BY <1>5, <1>7
    <2>2. ASSUME NEW k \in Nat, k \in C PROVE k + 1 \in C
      <3>1. SUFFICES ASSUME k + 1 <= N + 1 PROVE pos[Walk[k + 1]] >= k + 1
        OBVIOUS
      <3>2. pos[Walk[k]] >= k /\ next[Walk[k]] # 0
        <4>1. pos[Walk[k]] >= k
          BY <1>5, <2>2, <3>1
        <4>2. k + 1 \in 1..(N + 1) /\ Walk[k + 1] = next[Walk[k]]
          BY <1>5, <1>6, <3>1
        <4>3. QED
          BY <4>1, <4>2
      <3>3. pos[Walk[k]] < pos[Walk[k + 1]]
        BY <1>3, <1>6, <1>7, <3>2 DEF Along
      <3>4. pos[Walk[k]] \in Nat /\ pos[Walk[k + 1]] \in Nat
        BY <1>5, <1>7
      <3>5. QED
        BY <3>2, <3>3, <3>4
    <2>3. C = Nat
      <3> HIDE DEF C
      <3>1. QED
        BY <2>1, <2>2, Induction DEF C
    <2>4. pos[Walk[N + 1]] >= N + 1
      BY <1>5, <2>3
    <2>5. pos[Walk[N + 1]] \in Nat /\ pos[Walk[N + 1]] <= N
      BY <1>5, <1>7
    <2>6. QED
      BY <1>5, <2>4, <2>5
  <1>9. ASSUME NEW n \in Nodes, Unmet(n) PROVE n \in OnList
    <2> SUFFICES ASSUME \A k \in 1..N : Walk[k] # n PROVE FALSE
      BY <1>4, <1>5 DEF OnList
    <2>1. /\ n \in DOMAIN next /\ 0 \in DOMAIN next /\ n # 0 /\ pos[0] = 0 /\ pos[n] # 0
          /\ pos[n] \in Nat /\ pos[n] <= N
      BY <1>1, <1>3, <1>5, <1>9 DEF Along, Basics, Owned, Unmet
    <2>2. \A u \in G : ~Jumps(pos, u, next[u], n)
      BY <1>3, <1>9 DEF NoneLost, Solo, Edge, Reach
    <2> DEFINE C == {k \in Nat : k <= N => pos[Walk[k]] < pos[n] /\ pos[Walk[k]] >= k}
    <2>3. 0 \in C
      BY <1>6, <2>1
    <2>4. ASSUME NEW k \in Nat, k \in C PROVE k + 1 \in C
      <3>1. SUFFICES ASSUME k + 1 <= N
                     PROVE  pos[Walk[k + 1]] < pos[n] /\ pos[Walk[k + 1]] >= k + 1
        OBVIOUS
      <3>2. /\ pos[Walk[k]] < pos[n] /\ pos[Walk[k]] >= k
            /\ Walk[k + 1] # n /\ Walk[k + 1] = next[Walk[k]]
        BY <1>5, <1>6, <2>4, <3>1
      <3>3. /\ Walk[k] \in G /\ Walk[k] \in DOMAIN next /\ Walk[k + 1] \in DOMAIN next
            /\ pos[Walk[k]] \in Nat /\ pos[Walk[k + 1]] \in Nat
        BY <1>5, <1>7
      <3>4. Walk[k + 1] # 0 /\ pos[Walk[k + 1]] <= pos[n]
        BY <2>1, <2>2, <3>2, <3>3 DEF Jumps
      <3>5. pos[Walk[k]] < pos[Walk[k + 1]] /\ pos[Walk[k + 1]] # pos[n]
        BY <1>3, <2>1, <3>2, <3>3, <3>4 DEF Along
      <3>6. QED
        BY <2>1, <3>2, <3>3, <3>4, <3>5
    <2>5. C = Nat
      <3> HIDE DEF C
      <3>1. QED
        BY <2>3, <2>4, Induction DEF C
    <2>6. pos[Walk[N]] < pos[n] /\ pos[Walk[N]] >= N
      BY <1>5, <2>5
    <2>7. pos[Walk[N]] \in Nat
      BY <1>5, <1>7
    <2>8. QED
      BY <1>5, <2>1, <2>6, <2>7
  <1>10. \A n \in OnList : n \in Nodes /\ n \in G
    BY <1>1, <1>4, <1>5, <1>7 DEF OnList, Basics, Owned
  <1>11. ASSUME NEW m \in Nodes, NEW n \in Nodes, m \in G, node[m].done, node[n].done, m # n,
                node[m].name = node[n].name, node[n].met = {}
         PROVE  node[m].name = Main /\ FALSE \in {node[m].cached, node[n].cached}
    BY <1>3, <1>11 DEF NoneTwice, Unmet
  <1>12. ASSUME NEW m \in OnList, NEW n \in OnList, node[m].done, node[n].done, m # n,
                node[m].name = node[n].name
         PROVE  \/ {} \notin {node[m].met, node[n].met}
                \/ node[m].name = Main /\ FALSE \in {node[m].cached, node[n].cached}
    <2>1. CASE node[n].met = {}
      BY <1>10, <1>11, <1>12, <2>1
    <2>2. CASE node[m].met = {}
      BY <1>10, <1>11, <1>12, <2>2
    <2>3. QED
      BY <2>1, <2>2
  <1>13. \A n \in Nodes : node[n].done /\ n \notin OnList => node[n].met # {}
    BY <1>9 DEF Unmet
  <1>14. QED
    BY <1>4, <1>8, <1>12, <1>13 DEF ListedOnce

\* lookup_collector and create_collector keep the list in one piece and every collector on
\* it that was made alone, once, for any number of callers and of creations.
THEOREM AllListedOnce == Spec => []ListedOnce
  <1>1. QED
    BY InitLined, ListKeeps, ListedWell, PTL DEF Spec

-----------------------------------------------------------------------------
(* The ids.  As long as the cache does not grow under two callers at once  *)
(* and all ids are in range, there is one leaf page (1), or there are two  *)
(* (1 and 3) below a top page (2).                                         *)

\* The leaf page of the ids whose second index is j.
Leaf(g, j) ==
  \/ g = 1 /\ j = 0
  \/ g = 3 /\ j # 0 /\ Len(pages) = 3 /\ pages[2][j] = <<"page", 3>>
Taken(id) == \E g \in {1, 3} : Leaf(g, Index(id, 2)) /\ pages[g][Index(id, 1)] # Null

\* A collector in an entry was begun before the others whose ids lead there, or alongside.
Begun(n, m) == n <= m \/ node[m].name \in node[n].met
Heads(n, g, s) ==
  /\ pages[g][s] = <<"node", n>> /\ Leaf(g, Index(node[n].id, 2)) /\ Index(node[n].id, 1) = s
  /\ \A m \in Cached : Alias(node[m].id, node[n].id) => Begun(n, m)

\* Who makes the cache grow has the leaf page in hand, and who inserts is at the top or at
\* its own leaf page; an entry that was found free may be filled only by those it met.
Growth(p) ==
  /\ Growing(p) => /\ loc[p].high = 1 /\ loc[p].page = 1 /\ loc[p].prefix = 0
                   /\ High(loc[p].id, 1) # 0
  /\ Rising(p) => pages[2] = ZeroPage /\ pages[3] = ZeroPage
Bound(p) ==
  /\ loc[p].pc \in {"fill", "store"} =>
       loc[p].page = 2 \/ (loc[p].high = 1 /\ Leaf(loc[p].page, Index(loc[p].id, 2)))
  /\ loc[p].pc = "store" =>
       \A m \in Cached : Alias(node[m].id, loc[p].id) => node[m].name \in loc[p].met

Tree ==
  /\ Len(pages) \in {1, 3} /\ cache.prefix = 0
  /\ Len(pages) = 3 /\ (\A q \in Callers : ~Rising(q)) =>
       /\ pages[2][0] = <<"page", 1>>
       /\ \A j \in 1..(Size - 1) : pages[2][j] \in {Null, <<"page", 3>>}
       /\ \A i, j \in 1..(Size - 1) : Leaf(3, i) /\ Leaf(3, j) => i = j
  /\ \A p \in Callers : Growth(p)
Slots ==
  /\ \A n \in Cached : Taken(node[n].id)
  /\ \A g \in {1, 3}, s \in 0..(Size - 1) :
       g <= Len(pages) /\ pages[g][s] # Null => \E n \in Cached : Heads(n, g, s)
  /\ \A p \in Callers : Bound(p)

Unhung ==
  \E p \in Callers : /\ loc[p].pc = "fill" /\ Index(loc[p].id, 2) # 0
                     /\ \A n \in Cached : Index(node[n].id, 2) # Index(loc[p].id, 2)
IdInv == ~torn /\ InRange => (oops = "no" => Tree /\ Slots) /\ (oops = "null" => Unhung)

-----------------------------------------------------------------------------
(* Shifts and masks of ids in range.                                       *)

\* What is below c times b has a quotient by b below c.
LEMMA Quotient ==
  ASSUME NEW a \in Nat, NEW b \in Nat \ {0}, NEW c \in Nat, a < c * b
  PROVE  a \div b \in Nat /\ a \div b < c
  <1> DEFINE d == a \div b
  <1>1. d \in Nat /\ b * d <= a
    <2>1. d \in Nat
      OBVIOUS
    <2>2. a = b * d + (a % b) /\ a % b \in Nat /\ b * d \in Int
      OBVIOUS
    <2>3. QED
      BY <2>1, <2>2
  <1> HIDE DEF d
  <1>2. ASSUME c <= d PROVE FALSE
    <2>1. (d - c) \in Nat
      BY <1>1, <1>2
    <2>2. b * (d - c) \in Nat
      BY <2>1
    <2>3. b * (d - c) = b * d - c * b /\ b * d \in Int /\ c * b \in Int
      BY <1>1
    <2>4. QED
      BY <1>1, <2>2, <2>3
  <1>3. QED
    BY <1>1, <1>2 DEF d

\* A remainder that is there already.
LEMMA SmallMod ==
  ASSUME NEW m \in Nat \ {0}, NEW x \in 0..(m - 1)
  PROVE  x % m = x
  <1>1. x \in Nat /\ x < 1 * m
    OBVIOUS
  <1>2. x \div m = 0
    BY <1>1, Quotient
  <1>3. x = m * (x \div m) + (x % m) /\ x % m \in Int
    OBVIOUS
  <1>4. QED
    BY <1>2, <1>3

\* An id in range is found by two digits, of which the second is what its shift leaves.
LEMMA Digits ==
  ASSUME NEW id \in Nat, id < Beyond
  PROVE  /\ High(id, 0) = id /\ High(id, 1) \in 0..(Size - 1) /\ High(id, 2) = 0
         /\ Index(id, 1) = Low(id) /\ Index(id, 2) = High(id, 1)
         /\ Low(id) \in 0..(Size - 1)
  <1> DEFINE B == 2^Shift
  <1>1. /\ Size \in Nat \ {0} /\ B = 2 * Size /\ B \in Nat \ {0}
        /\ 2^(0 * Shift) = 1 /\ 2^(1 * Shift) = B /\ 2^(2 * Shift) = B * B
    <2>1. 1 * Shift = Shift
      BY CollectorsAssumption DEF Shift
    <2>2. QED
      BY <2>1, PowersAssumption
  <1>2. id < Size * B
    BY DEF Beyond
  <1> HIDE DEF B
  <1>3. High(id, 0) = id
    BY <1>1 DEF High
  <1>4. High(id, 1) \in 0..(Size - 1)
    <2>1. id \div B \in Nat /\ id \div B < Size
      BY <1>1, <1>2, Quotient
    <2>2. QED
      BY <1>1, <2>1 DEF High
  <1>5. High(id, 2) = 0
    <2>1. B * B = Size * B + Size * B
      BY <1>1
    <2>2. Size * B \in Nat /\ B * B \in Nat \ {0} /\ 1 * (B * B) = B * B
      BY <1>1
    <2>3. id < 1 * (B * B)
      BY <1>2, <2>1, <2>2
    <2>4. id \div (B * B) = 0
      BY <2>2, <2>3, Quotient
    <2>5. QED
      BY <1>1, <2>4 DEF High
  <1>6. Index(id, 1) = Low(id)
    BY <1>3 DEF Index
  <1>7. Index(id, 2) = High(id, 1)
    <2>1. High(id, 1) % Size = High(id, 1)
      BY <1>1, <1>4, SmallMod
    <2>2. QED
      BY <2>1 DEF Index, Low
  <1>8. QED
    BY <1>3, <1>4, <1>5, <1>6, <1>7, LowType

-----------------------------------------------------------------------------
(* Steps that leave the pages as they are.                                 *)

AtPages == {"grow", "growHigh", "growLink", "fill", "store"}
Sits(q) ==
  loc'[q].pc \in AtPages =>
    /\ loc'[q].pc = loc[q].pc /\ loc'[q].id = loc[q].id /\ loc'[q].high = loc[q].high
    /\ loc'[q].page = loc[q].page /\ loc'[q].prefix = loc[q].prefix
    /\ loc[q].met \subseteq loc'[q].met
SameCached ==
  /\ Nodes \subseteq Nodes' /\ Cached' = Cached
  /\ \A n \in Cached : node'[n] = node[n]

\* Callers that stay where they are, or come to a place of theirs, leave the ids in order.
LEMMA Stays ==
  ASSUME Tree, Slots, pages' = pages, cache'.prefix = cache.prefix, SameCached,
         \A q \in Callers : Rising(q)' <=> Rising(q),
         \A q \in Callers : Sits(q) \/ (Growth(q)' /\ Bound(q)')
  PROVE  Tree' /\ Slots'
  <1>1. \A g, j : Leaf(g, j)' <=> Leaf(g, j)
    BY DEF Leaf
  <1>2. \A id : Taken(id)' <=> Taken(id)
    BY <1>1 DEF Taken
  <1>3. \A m, n \in Cached : Begun(n, m)' <=> Begun(n, m)
    BY DEF Begun, SameCached
  <1>4. \A n \in Cached : \A g, s : Heads(n, g, s)' <=> Heads(n, g, s)
    BY <1>1, <1>3 DEF Heads, SameCached
  <1>5. ASSUME NEW q \in Callers, Sits(q) PROVE Growth(q)' /\ Bound(q)'
    <2>1. Growth(q) /\ Bound(q)
      BY DEF Tree, Slots
    <2>2. Growth(q)'
      BY <1>5, <2>1 DEF Growth, Sits, AtPages, Growing, Rising
    <2>3. Bound(q)'
      <3>1. loc'[q].pc \in {"fill", "store"} =>
              /\ loc'[q].pc = loc[q].pc /\ loc'[q].id = loc[q].id /\ loc'[q].high = loc[q].high
              /\ loc'[q].page = loc[q].page /\ loc[q].met \subseteq loc'[q].met
        BY <1>5 DEF Sits, AtPages
      <3>2. QED
        BY <1>1, <2>1, <3>1 DEF Bound, SameCached
    <2>4. QED
      BY <2>2, <2>3
  <1>6. Tree'
    BY <1>1, <1>5 DEF Tree
  <1>7. Slots'
    <2>1. ASSUME NEW n \in Cached' PROVE Taken(node[n].id)'
      <3>1. n \in Cached /\ node'[n] = node[n]
        BY <2>1 DEF SameCached
      <3>2. Taken(node[n].id)
        BY <3>1 DEF Slots
      <3>3. QED
        BY <1>1, <3>1, <3>2 DEF Taken
    <2>2. ASSUME NEW g \in {1, 3}, NEW s \in 0..(Size - 1), g <= Len(pages'), pages'[g][s] # Null
          PROVE  \E n \in Cached' : Heads(n, g, s)'
      <3>1. PICK n \in Cached : Heads(n, g, s)
        BY <2>2 DEF Slots
      <3>2. QED
        BY <1>4, <3>1 DEF SameCached
    <2>3. QED
      BY <1>5, <2>1, <2>2 DEF Slots
  <1>8. QED
    BY <1>6, <1>7

\* A collector that is being made is not in the cache yet.
LEMMA Unmade ==
  ASSUME Basics, NEW p \in Callers, loc[p].pc \in Holding
  PROVE  /\ loc[p].node \in Nodes /\ loc[p].node \notin Cached
         /\ node[loc[p].node].id = loc[p].id /\ node[loc[p].node].name = loc[p].name
  BY DEF Basics, Owned, Cached

\* Ids stay, and so do the collectors in the cache unless one comes in.
LEMMA NodesStay ==
  ASSUME Basics, ListTypes', NEW p \in Callers,
         GoesOn(p) \/ Makes(p) \/ HangsOn(p) \/ Publishes(p) \/ Finishes(p)
  PROVE  /\ \A n \in Nodes : n \in Nodes' /\ node'[n].id = node[n].id
         /\ ~Finishes(p) \/ ~cache.on => SameCached
  <1>1. CASE GoesOn(p) \/ HangsOn(p) \/ Publishes(p)
    <2>1. node' = node /\ Nodes' = Nodes
      BY <1>1 DEF GoesOn, HangsOn, Publishes, Nodes
    <2>2. QED
      BY <2>1 DEF SameCached, Cached
  <1>2. CASE Makes(p)
    <2>1. /\ Nodes' = Nodes \cup {Len(node) + 1} /\ \A n \in Nodes : node'[n] = node[n]
          /\ ~node'[Len(node) + 1].cached
      BY <1>2, MakesBasics
    <2>2. QED
      BY <2>1 DEF SameCached, Cached
  <1>3. CASE Finishes(p)
    <2>1. /\ Nodes' = Nodes /\ loc[p].node \in Nodes
          /\ \A n \in Nodes : node'[n].id = node[n].id /\ (n # loc[p].node => node'[n] = node[n])
          /\ node'[loc[p].node].cached => cache.on
      BY <1>3, FinishesBasics
    <2>2. loc[p].node \notin Cached
      BY <1>3, Unmade DEF Finishes, Holding
    <2>3. ~cache.on => SameCached
      BY <2>1, <2>2 DEF SameCached, Cached
    <2>4. Finishes(p)
      BY <1>3
    <2>5. QED
      BY <2>1, <2>3, <2>4
  <1>4. QED
    BY <1>1, <1>2, <1>3

\* A creation begins.
LEMMA BeginsPaged ==
  ASSUME Basics, Tree, Slots, NEW p \in Callers, NEW x \in Nat, NEW pc, Starts(p, x, pc),
         pages' = pages
  PROVE  Tree' /\ Slots' /\ Nodes' = Nodes /\ node' = node
  <1>1. /\ node' = node /\ Nodes' = Nodes /\ pc \in {"scan", "lookup"} /\ loc'[p].pc = pc
        /\ \A q \in Callers : q # p =>
             /\ loc'[q].pc = loc[q].pc /\ loc'[q].id = loc[q].id
             /\ loc[q].met \subseteq loc'[q].met
    BY StartFacts
  <1>2. ASSUME NEW q \in Callers, q # p
        PROVE  /\ loc'[q].high = loc[q].high /\ loc'[q].page = loc[q].page
               /\ loc'[q].prefix = loc[q].prefix
    <2>1. loc'[q] = loc[q] \/ loc'[q] = [loc[q] EXCEPT !.met = @ \cup {x}]
      BY <1>2 DEF Starts, Begins
    <2>2. Seated(loc[q])
      BY DEF Basics, ListTypes
    <2>3. QED
      BY <2>1, <2>2 DEF Seated
  <1>3. cache'.prefix = cache.prefix
    BY DEF Starts, Basics, ListTypes
  <1>4. \A q \in Callers : Sits(q)
    BY <1>1, <1>2 DEF Sits, AtPages
  <1>5. \A q \in Callers : Rising(q)' <=> Rising(q)
    <2>1. ~Rising(p)' /\ ~Rising(p)
      BY <1>1 DEF Rising, Starts
    <2>2. QED
      BY <1>1, <2>1 DEF Rising
  <1>6. SameCached
    BY <1>1 DEF SameCached, Cached
  <1>7. QED
    BY <1>1, <1>3, <1>4, <1>5, <1>6, Stays

\* A caller that is not at the pages moves.
LEMMA AsidePaged ==
  ASSUME Basics, Tree, Slots, NEW p \in Callers,
         \/ Lookup(p) \/ Scan(p) \/ IdRead(p) \/ IdWrite(p) \/ Link(p) \/ Publish(p)
         \/ Insert(p) \/ MapTop(p) \/ MapWalk(p) \/ \E id \in Offsets : Map(p, id)
  PROVE  Tree' /\ Slots'
  <1>1. DOMAIN loc = Callers /\ Seated(loc[p])
    BY DEF Basics, ListTypes
  <1>2. pages' = pages /\ cache' = cache
    BY DEF Lookup, Scan, IdRead, IdWrite, Link, Publish, Insert, MapTop, MapWalk, Map, Table
  <1>3. loc[p].pc \notin AtPages /\ (~Insert(p) => loc[p].pc \notin Placed)
    BY DEF Lookup, Scan, IdRead, IdWrite, Link, Publish, Insert, MapTop, MapWalk, Map, At, AtPages, Placed
  <1>4. \A q \in Callers : q # p => loc'[q] = loc[q]
    <2>1. CASE Lookup(p) \/ Scan(p) \/ IdRead(p) \/ IdWrite(p) \/ Link(p) \/ Publish(p)
      BY <1>1, <2>1 DEF Lookup, Scan, IdRead, IdWrite, Link, Publish, Goes
    <2>2. CASE Insert(p) \/ MapTop(p) \/ MapWalk(p) \/ \E id \in Offsets : Map(p, id)
      BY <1>1, <2>2 DEF Insert, Finish, MapTop, MapWalk, Map, Goes
    <2>3. QED
      BY <2>1, <2>2
  <1>5. /\ ListTypes' /\ (GoesOn(p) \/ Makes(p) \/ HangsOn(p) \/ Publishes(p) \/ Finishes(p))
    BY Steps DEF Making
  <1>6. Insert(p) => \/ loc'[p].pc = "top"
                     \/ ~cache.on /\ loc'[p].pc = "idle"
    <2>1. /\ [loc[p] EXCEPT !.pc = "top", !.high = cache.high].pc = "top"
          /\ Idle.pc = "idle"
      BY <1>1 DEF Seated, Idle
    <2>2. QED
      BY <1>1, <2>1 DEF Insert, Finish, Goes
  <1>7. loc'[p].pc \notin AtPages
    <2>1. CASE Insert(p)
      BY <1>6, <2>1 DEF AtPages
    <2>2. CASE ~Insert(p)
      BY <1>3, <1>5, <2>2 DEF GoesOn, Makes, HangsOn, Publishes, Finishes, AtPages, Outside
    <2>3. QED
      BY <2>1, <2>2
  <1>8. Finishes(p) => ~cache.on
    BY <1>3, <1>6 DEF Finishes
  <1>9. SameCached
    BY <1>5, <1>8, NodesStay
  <1>10. \A q \in Callers : Sits(q) /\ (Rising(q)' <=> Rising(q))
    BY <1>3, <1>4, <1>7 DEF Sits, AtPages, Rising
  <1>11. QED
    BY <1>2, <1>9, <1>10, Stays

\* A caller at the pages moves.
LEMMA MovesPaged ==
  ASSUME Tree, Slots, pages' = pages, cache'.prefix = cache.prefix, node' = node,
         NEW p \in Callers, \A q \in Callers : q # p => loc'[q] = loc[q],
         Rising(p)' <=> Rising(p), Growth(p)', Bound(p)'
  PROVE  Tree' /\ Slots'
  <1>1. SameCached
    BY DEF SameCached, Cached, Nodes
  <1>2. \A q \in Callers : q # p => Sits(q) /\ (Rising(q)' <=> Rising(q))
    BY DEF Sits, Rising
  <1>3. \A q \in Callers : /\ Rising(q)' <=> Rising(q)
                           /\ Sits(q) \/ (Growth(q)' /\ Bound(q)')
    BY <1>2
  <1>4. QED
    BY <1>1, <1>3, Stays

\* Who has made a node has an id in range.
LEMMA HeldInRange ==
  ASSUME Basics, InRange, NEW p \in Callers, loc[p].pc \in Holding
  PROVE  loc[p].id \in Nat /\ loc[p].id < Beyond
  BY Unmade DEF InRange, Basics, ListTypes, Seated

\* There are one or two levels, with the page on top that belongs there.
LEMMA Storeys ==
  ASSUME Shape, Ordered, Tree, \A q \in Callers : ~Rising(q)
  PROVE  \/ cache.high = 1 /\ cache.top = 1 /\ Len(pages) = 1
         \/ cache.high = 2 /\ cache.top = 2 /\ Len(pages) = 3
  <1>1. HasLevel(cache.top, cache.high) /\ Len(pages) = 2 * cache.high - 1
    BY DEF Ordered, Tops, Steady
  <1>2. cache.high \in {1, 2} /\ (cache.high = 1 <=> Len(pages) = 1)
    BY <1>1 DEF Tree, Shape, Types, Cache
  <1>3. DOMAIN pages = 1..Len(pages)
    BY PageFacts DEF Shape, Ordered
  <1>4. QED
    BY <1>1, <1>2, <1>3 DEF Tree, HasLevel, Level

\* The insertion reads the top.
LEMMA InsertTopPaged ==
  ASSUME Shape, Ordered, Basics, Tree, Slots, InRange, NEW p \in Callers, InsertTop(p)
  PROVE  Tree' /\ Slots'
  <1> DEFINE pc == IF Fits(loc[p]) THEN "fill" ELSE "grow"
             l == [loc[p] EXCEPT !.pc = pc, !.page = cache.top, !.prefix = cache.prefix]
  <1>1. /\ loc[p].pc = "top" /\ UNCHANGED <<node, cache, pages>>
        /\ loc[p] \in Place /\ DOMAIN loc = Callers /\ Goes(p, l)
    BY DEF InsertTop, At, Listed, Table, Shape, Types
  <1>2. /\ l.pc = pc /\ l.page = cache.top /\ l.prefix = cache.prefix /\ l.high = loc[p].high
        /\ l.id = loc[p].id
    BY <1>1 DEF Place
  <1> HIDE DEF l
  <1>3. loc'[p] = l /\ \A q \in Callers : q # p => loc'[q] = loc[q]
    BY <1>1 DEF Goes
  <1>4. \A q \in Callers : ~Rising(q)
    <2>1. Inserting(p) /\ ~Rising(p)
      BY <1>1 DEF Inserting, Rising
    <2>2. QED
      BY <2>1, NoneGrows DEF Shape
  <1>5. loc[p].high = cache.high
    BY <1>1 DEF Ordered, Walks, Well
  <1>6. /\ High(loc[p].id, 1) \in 0..(Size - 1) /\ High(loc[p].id, 2) = 0
        /\ Index(loc[p].id, 2) = High(loc[p].id, 1)
    BY <1>1, HeldInRange, Digits DEF Holding, Placed
  <1>7. cache.prefix = 0 /\ (Fits(loc[p]) <=> High(loc[p].id, cache.high) = 0)
    BY <1>5 DEF Tree, Fits
  <1>8. CASE Fits(loc[p])
    <2>1. pc = "fill"
      BY <1>8
    <2>2. loc'[p].pc = "fill" /\ loc'[p].page = cache.top /\ loc'[p].high = cache.high /\ loc'[p].id = loc[p].id
      BY <1>2, <1>3, <1>5, <2>1
    <2>3. Growth(p)' /\ ~Rising(p)'
      BY <2>2 DEF Growth, Growing, Rising
    <2>4. Bound(p)'
      <3>1. CASE cache.high = 2
        BY <1>4, <2>2, <3>1, Storeys DEF Bound
      <3>2. CASE cache.high = 1
        BY <1>4, <1>6, <1>7, <1>8, <2>2, <3>2, Storeys DEF Bound, Leaf
      <3>3. QED
        BY <1>4, <3>1, <3>2, Storeys
    <2>5. QED
      BY <1>1, <1>3, <1>4, <2>3, <2>4, MovesPaged
  <1>9. CASE ~Fits(loc[p])
    <2>1. pc = "grow"
      BY <1>9
    <2>2. cache.high = 1 /\ cache.top = 1
      BY <1>4, <1>6, <1>7, <1>9, Storeys
    <2>3. /\ loc'[p].pc = "grow" /\ loc'[p].page = 1 /\ loc'[p].high = 1 /\ loc'[p].id = loc[p].id
          /\ loc'[p].prefix = 0
      BY <1>2, <1>3, <1>5, <1>7, <2>1, <2>2
    <2>4. Growth(p)' /\ ~Rising(p)' /\ Bound(p)'
      BY <1>7, <1>9, <2>2, <2>3 DEF Growth, Growing, Rising, Bound, High
    <2>5. QED
      BY <1>1, <1>3, <1>4, <2>4, MovesPaged
  <1>10. QED
    BY <1>8, <1>9

-----------------------------------------------------------------------------
(* Growth.                                                                 *)

\* Two pages are added, and the new leaf page has nothing yet.
LEMMA Rehung ==
  ASSUME Basics, Slots, node' = node, \A j \in 0..(Size - 1) : ~Leaf(3, j), pages'[1] = pages[1], Len(pages') = 3,
         pages'[3] = ZeroPage, 1 <= Len(pages), \A q \in Callers : Bound(q)'
  PROVE  Slots'
  <1>1. Nodes' = Nodes /\ Cached' = Cached
    BY DEF Nodes, Cached
  <1>2. ASSUME NEW n \in Cached' PROVE Taken(node[n].id)'
    <2>1. Index(node[n].id, 2) \in 0..(Size - 1)
      <3>1. node[n] \in Collector
        BY <1>1, <1>2, NodeFacts DEF Basics, Cached
      <3>2. node[n].id \in Nat
        BY <3>1 DEF Collector
      <3>3. 2 \in 1..3
        OBVIOUS
      <3>4. QED
        BY <3>2, <3>3, IndexType, Zenon
    <2>2. Leaf(1, Index(node[n].id, 2)) /\ pages[1][Index(node[n].id, 1)] # Null
      BY <1>1, <1>2, <2>1 DEF Slots, Taken
    <2>3. QED
      BY <2>2 DEF Taken, Leaf
  <1>3. ASSUME NEW g \in {1, 3}, NEW s \in 0..(Size - 1), pages'[g][s] # Null
        PROVE  \E n \in Cached' : Heads(n, g, s)'
    <2>1. g = 1
      BY <1>3 DEF ZeroPage
    <2>2. PICK n \in Cached : Heads(n, 1, s)
      BY <1>3, <2>1 DEF Slots
    <2>3. Heads(n, 1, s)'
      BY <1>1, <2>2 DEF Heads, Leaf, Begun
    <2>4. QED
      BY <1>1, <2>1, <2>3
  <1>4. QED
    BY <1>2, <1>3 DEF Slots

\* The cache grows by two pages, which are empty yet.
LEMMA GrowPaged ==
  ASSUME Shape, Ordered, Basics, Tree, Slots, InRange, NEW p \in Callers, Grow(p)
  PROVE  Tree' /\ Slots'
  <1>1. /\ loc[p].pc = "grow" /\ node' = node
        /\ cache' = [cache EXCEPT !.top = Len(pages) + 1, !.prefix = High(loc[p].id, loc[p].high + 1)]
        /\ pages' = pages \o <<ZeroPage, ZeroPage>>
    BY GrowWrites DEF Grow
  <1> DEFINE to(q) == CASE q = p      -> [loc[q] EXCEPT !.pc = "growHigh", !.cur = Len(pages) + 1]
                        [] Mapping(q) -> [loc[q] EXCEPT !.grew = TRUE]
                        [] OTHER      -> loc[q]
  <1>15. loc' = [q \in Callers |-> to(q)]
    BY DEF Grow
  <1>2. Growing(p) /\ ~Rising(p)
    BY <1>1 DEF Growing, Rising
  <1>3. \A q \in Callers : ~Rising(q) /\ (q # p => ~Inserting(q))
    BY <1>2, Growers DEF Shape
  <1>4. /\ loc[p].high = 1 /\ loc[p].page = 1 /\ loc[p].prefix = 0 /\ High(loc[p].id, 1) # 0
        /\ loc[p].high = cache.high
    BY <1>1, <1>2 DEF Tree, Growth, Ordered, Walks, Well
  <1>5. Len(pages) = 1 /\ pages \in Seq(Page)
    BY <1>3, <1>4, Storeys DEF Shape, Types
  <1>6. /\ Len(pages') = 3 /\ pages'[1] = pages[1] /\ pages'[2] = ZeroPage /\ pages'[3] = ZeroPage
    <2> DEFINE n == Len(pages)
    <2>1. n \in Nat /\ DOMAIN pages = 1..n /\ pages \in Seq(Page)
      BY <1>5
    <2>2. pages' = pages \o <<ZeroPage, ZeroPage>>
      BY <1>1
    <2>3. /\ pages' \in Seq(Page) /\ Len(pages') = n + 2 /\ DOMAIN pages' = 1..(n + 2)
          /\ \A i \in 1..n : pages'[i] = pages[i]
          /\ pages'[n + 1] = ZeroPage /\ pages'[n + 2] = ZeroPage
      BY <2>1, <2>2, ZeroIsPage
    <2>4. QED
      BY <1>5, <2>3
  <1>7. cache'.prefix = 0
    <2>1. cache \in Cache /\ loc[p].high + 1 = 2
      BY <1>4 DEF Shape, Types
    <2>2. High(loc[p].id, 2) = 0
      BY <1>1, HeldInRange, Digits DEF Holding, Placed
    <2>3. cache'.prefix = High(loc[p].id, 2)
      BY <1>1, <2>1 DEF Cache
    <2>4. QED
      BY <2>2, <2>3
  <1>8. /\ loc'[p].pc = "growHigh" /\ loc'[p].id = loc[p].id /\ loc'[p].high = loc[p].high
        /\ loc'[p].page = loc[p].page /\ loc'[p].prefix = loc[p].prefix
    <2> DEFINE l == [loc[p] EXCEPT !.pc = "growHigh", !.cur = Len(pages) + 1]
    <2>1. loc'[p] = to(p) /\ to(p) = l
      BY <1>1, <1>15 DEF Mapping
    <2>2. loc[p] \in Place
      BY DEF Shape, Types
    <2> HIDE DEF to
    <2>3. QED
      BY <2>1, <2>2 DEF Place
  <1>9. ASSUME NEW q \in Callers, q # p
        PROVE  loc'[q].pc = loc[q].pc /\ loc'[q].pc \notin AtPages
    <2>1. loc'[q] = loc[q] \/ loc'[q] = [loc[q] EXCEPT !.grew = TRUE]
      BY <1>9, <1>15
    <2>2. loc[q] \in Place
      BY DEF Shape, Types
    <2>3. loc'[q].pc = loc[q].pc
      BY <2>1, <2>2, Overtaken
    <2>4. QED
      BY <1>3, <1>9, <2>3 DEF Inserting, Growing, AtPages
  <1>10. \A q \in Callers : Growth(q)' /\ Bound(q)'
    <2>1. Growth(p)' /\ Bound(p)'
      BY <1>4, <1>6, <1>8 DEF Growth, Bound, Growing, Rising, High
    <2>2. ASSUME NEW q \in Callers, q # p PROVE Growth(q)' /\ Bound(q)'
      BY <1>9, <2>2 DEF Growth, Bound, Growing, Rising, AtPages
    <2>3. QED
      BY <2>1, <2>2
  <1>11. Rising(p)'
    BY <1>8 DEF Rising
  <1>12. Tree'
    BY <1>6, <1>7, <1>10, <1>11 DEF Tree
  <1>13. Slots'
    <2>1. \A j \in 0..(Size - 1) : ~Leaf(3, j)
      BY <1>5 DEF Leaf
    <2>2. QED
      BY <1>1, <1>5, <1>6, <1>10, <2>1, Rehung
  <1>14. QED
    BY <1>12, <1>13

\* The new level is counted.
LEMMA GrowHighPaged ==
  ASSUME Shape, Tree, Slots, NEW p \in Callers, GrowHigh(p)
  PROVE  Tree' /\ Slots'
  <1> DEFINE l == [loc[p] EXCEPT !.pc = "growLink"]
  <1>1. /\ loc[p].pc = "growHigh" /\ node' = node /\ pages' = pages
        /\ cache' = [cache EXCEPT !.high = @ + 1]
        /\ loc[p] \in Place /\ DOMAIN loc = Callers /\ Goes(p, l)
    BY DEF GrowHigh, At, Listed, Shape, Types
  <1>2. /\ l.pc = "growLink" /\ l.page = loc[p].page /\ l.prefix = loc[p].prefix
        /\ l.high = loc[p].high /\ l.id = loc[p].id
    BY <1>1 DEF Place
  <1> HIDE DEF l
  <1>3. loc'[p] = l /\ \A q \in Callers : q # p => loc'[q] = loc[q]
    BY <1>1 DEF Goes
  <1>4. cache'.prefix = cache.prefix
    BY <1>1 DEF Shape, Types, Cache
  <1>5. Growth(p)
    BY DEF Tree
  <1>6. Rising(p) /\ Rising(p)' /\ Growth(p)' /\ Bound(p)'
    BY <1>1, <1>2, <1>3, <1>5 DEF Growth, Bound, Growing, Rising, High
  <1>7. QED
    BY <1>1, <1>3, <1>4, <1>6, MovesPaged

\* The old page and the new leaf page are hung into the new top, where the id looks.
LEMMA GrowLinkPaged ==
  ASSUME Shape, Ordered, Basics, Tree, Slots, InRange, NEW p \in Callers, GrowLink(p)
  PROVE  Tree' /\ Slots'
  <1> DEFINE l == [loc[p] EXCEPT !.pc = "fill", !.page = loc[p].cur + 1, !.cur = 0]
  <1>1. /\ loc[p].pc = "growLink" /\ node' = node /\ cache' = cache
        /\ loc[p] \in Place /\ DOMAIN loc = Callers /\ Goes(p, l)
    BY DEF GrowLink, At, Listed, Shape, Types
  <1>2. Growing(p) /\ Rising(p)
    BY <1>1 DEF Growing, Rising
  <1>3. \A q \in Callers : q # p => ~Inserting(q) /\ ~Rising(q)
    BY <1>2, Growers
  <1>4. /\ loc[p].high = 1 /\ loc[p].page = 1 /\ loc[p].prefix = 0 /\ High(loc[p].id, 1) # 0
        /\ pages[2] = ZeroPage /\ pages[3] = ZeroPage
    BY <1>2 DEF Tree, Growth
  <1>5. Len(pages) = 3 /\ loc[p].cur = 2 /\ pages \in Seq(Page)
    <2>1. /\ Len(pages) = 2 * loc[p].high + 1 /\ cache.top = Len(pages) - 1
          /\ loc[p].cur = cache.top
      BY <1>2 DEF Ordered, Tops
    <2>2. QED
      BY <1>4, <2>1 DEF Shape, Types
  <1>6. /\ High(loc[p].id, 1) \in 1..(Size - 1) /\ Index(loc[p].id, 2) = High(loc[p].id, 1)
        /\ Size \in Nat \ {0, 1}
    BY <1>1, <1>4, HeldInRange, Digits, PowersAssumption DEF Holding, Placed
  <1> DEFINE h == High(loc[p].id, 1)
             new == [s \in 0..(Size - 1) |-> IF s = h THEN <<"page", 3>>
                                             ELSE IF s = 0 THEN <<"page", 1>> ELSE pages[2][s]]
  <1>7. pages' = [pages EXCEPT ![2] = new]
    <2>1. pages' = [pages EXCEPT ![loc[p].cur] =
                       [s \in 0..(Size - 1) |-> IF s = High(loc[p].id, loc[p].high) THEN <<"page", loc[p].cur + 1>>
                                                 ELSE IF s = loc[p].prefix THEN <<"page", loc[p].page>>
                                                 ELSE pages[loc[p].cur][s]]]
      BY DEF GrowLink
    <2>2. QED
      BY <1>4, <1>5, <2>1
  <1>8. /\ new[0] = <<"page", 1>> /\ new[h] = <<"page", 3>>
        /\ \A s \in 1..(Size - 1) : s # h => new[s] = Null
    BY <1>4, <1>6 DEF ZeroPage
  <1> HIDE DEF new
  <1>9. Len(pages') = 3 /\ pages'[1] = pages[1] /\ pages'[2] = new /\ pages'[3] = ZeroPage
    BY <1>4, <1>5, <1>7
  <1>10. loc'[p].pc = "fill" /\ loc'[p].page = 3 /\ loc'[p].high = 1 /\ loc'[p].id = loc[p].id
    <2>1. l.pc = "fill" /\ l.page = 3 /\ l.high = 1 /\ l.id = loc[p].id
      BY <1>1, <1>4, <1>5 DEF Place
    <2>2. loc'[p] = l
      BY <1>1 DEF Goes
    <2> HIDE DEF l
    <2>3. QED
      BY <2>1, <2>2
  <1>11. \A q \in Callers : q # p => loc'[q] = loc[q] /\ loc[q].pc \notin AtPages
    BY <1>1, <1>3 DEF Goes, Inserting, Growing, AtPages
  <1>12. ASSUME NEW j \in 0..(Size - 1) PROVE ~Leaf(3, j)
    <2>1. pages[2][j] = <<"null", 0>>
      BY <1>4 DEF ZeroPage, Null
    <2>2. QED
      BY <2>1 DEF Leaf
  <1>13. \A q \in Callers : ~Rising(q)' /\ Growth(q)' /\ Bound(q)'
    <2>1. PICK k \in 1..(Size - 1) : k = h
      BY <1>6
    <2>2. pages'[2][k] = <<"page", 3>> /\ k # 0 /\ Index(loc'[p].id, 2) = k
      BY <1>6, <1>8, <1>9, <1>10, <2>1
    <2>6. Leaf(3, k)'
      BY <1>9, <2>2 DEF Leaf
    <2>7. Bound(p)'
      BY <1>10, <2>2, <2>6 DEF Bound
    <2>3. Growth(p)' /\ ~Rising(p)'
      BY <1>10 DEF Growth, Growing, Rising
    <2>4. ASSUME NEW q \in Callers, q # p PROVE ~Rising(q)' /\ Growth(q)' /\ Bound(q)'
      BY <1>11, <2>4 DEF Growth, Growing, Rising, Bound, AtPages
    <2>5. QED
      BY <2>3, <2>4, <2>7
  <1>14. Slots'
    BY <1>1, <1>5, <1>9, <1>12, <1>13, Rehung
  <1>15. Tree'
    <2>1. \A j \in 1..(Size - 1) : Leaf(3, j)' => j = h
      BY <1>8, <1>9 DEF Leaf, Null
    <2>2. \A j \in 1..(Size - 1) : new[j] \in {Null, <<"page", 3>>}
      BY <1>8
    <2>3. cache'.prefix = 0
      BY <1>1 DEF Tree
    <2>4. QED
      BY <1>8, <1>9, <1>13, <2>1, <2>2, <2>3 DEF Tree
  <1>16. QED
    BY <1>14, <1>15

-----------------------------------------------------------------------------
(* A collector comes into the cache.                                       *)

\* There is one leaf page for an id.
LEMMA OneLeaf ==
  ASSUME NEW g, NEW h, NEW j, Leaf(g, j), Leaf(h, j)
  PROVE  g = h
  BY DEF Leaf

\* The entry of its id is taken already, or is now; in this case all others that lead there
\* have met it.
Enters(p, g, s) ==
  /\ Finish(p, TRUE) /\ cache' = cache /\ next' = next
  /\ g <= Len(pages) /\ Leaf(g, Index(loc[p].id, 2)) /\ s = Index(loc[p].id, 1)
  /\ Len(pages') = Len(pages) /\ (Len(pages) = 3 => pages'[2] = pages[2])
  /\ \A h \in {1, 3}, t \in 0..(Size - 1) :
       h <= Len(pages) /\ (h # g \/ t # s) => pages'[h][t] = pages[h][t]
  /\ \/ pages[g][s] # Null /\ pages'[g][s] = pages[g][s]
     \/ /\ pages'[g][s] = <<"node", loc[p].node>>
        /\ \A m \in Cached : Alias(node[m].id, loc[p].id) => node[m].name \in loc[p].met

\* So the collector that comes in leaves the ids in order.
LEMMA Entered ==
  ASSUME Basics, Tree, Slots, NEW p \in Callers, Fill(p) \/ Store(p),
         \A q \in Callers : ~Rising(q), NEW g \in {1, 3}, NEW s \in 0..(Size - 1), Enters(p, g, s)
  PROVE  Tree' /\ Slots'
  <1>0. PICK k : k = loc[p].node
    OBVIOUS
  <1>1. loc[p].pc \in {"fill", "store"} /\ cache.on
    BY DEF Fill, Store, At, Basics, Early, AtCache
  <1>2. Finishes(p) /\ ListTypes' /\ loc'[p].pc = "idle"
    <2>1. ListTypes'
      BY Steps DEF Making
    <2>2. loc' = [loc EXCEPT ![p] = Idle] /\ Idle.pc = "idle" /\ DOMAIN loc = Callers
      BY DEF Enters, Finish, Goes, Idle, Basics, ListTypes
    <2>3. loc'[p].pc = "idle" /\ OthersRest(p)
      BY <2>2 DEF OthersRest, Rests
    <2>4. QED
      BY <1>1, <2>1, <2>3 DEF Enters, Finishes, Finish, Placed
  <1>3. /\ Nodes' = Nodes /\ k \in Nodes /\ k \notin Cached
        /\ node[k].id = loc[p].id /\ node[k].name = loc[p].name
        /\ \A n \in Nodes : /\ node'[n].name = node[n].name /\ node'[n].id = node[n].id
                            /\ (n # k => node'[n] = node[n])
        /\ node'[k].met = loc[p].met
    BY <1>0, <1>1, <1>2, FinishesBasics, Unmade DEF Holding, Placed
  <1>4. Cached' = Cached \cup {k}
    <2>1. node'[k].cached
      <3> DEFINE c == [node[k] EXCEPT !.done = TRUE, !.met = loc[p].met, !.cached = TRUE]
      <3>1. c.cached = TRUE
        BY <1>3, NodeFacts DEF Basics, Collector
      <3>2. node' = [node EXCEPT ![k] = c]
        BY <1>0 DEF Enters, Finish
      <3> HIDE DEF c
      <3>3. QED
        BY <1>3, <3>1, <3>2 DEF Nodes
    <2>2. QED
      BY <1>3, <2>1 DEF Cached
  <1>5. \A h, j : Leaf(h, j)' <=> Leaf(h, j)
    BY DEF Leaf, Enters
  \* Older collectors in the cache have met the one that comes in.
  <1>6. \A n \in Cached : Begun(n, k)'
    <2> SUFFICES ASSUME NEW n \in Cached, ~(n <= k) PROVE node'[k].name \in node'[n].met
      BY DEF Begun
    <2>1. n \in Nodes /\ node[n].done /\ node'[n] = node[n]
      BY <1>3 DEF Cached, Basics, Owned
    <2>2. k < n
      BY <1>3, <2>1, NodeFacts DEF Basics
    <2>3. loc[p].pc \in Holding /\ loc[p].node = k
      BY <1>0, <1>1 DEF Holding, Placed
    <2>4. loc[p].name \in node[n].met
      BY <2>1, <2>2, <2>3 DEF Basics, Overtook
    <2>5. QED
      BY <1>3, <2>1, <2>4
  <1>7. \A n \in Cached : n \in Nodes /\ n # k /\ node'[n] = node[n]
    BY <1>3 DEF Cached
  <1>8. \A m, n \in Cached : Begun(n, m) => Begun(n, m)'
    BY <1>7 DEF Begun
  <1>9. ASSUME NEW n \in Cached, NEW h \in {1, 3}, NEW t \in 0..(Size - 1), Heads(n, h, t),
               pages'[h][t] = pages[h][t]
        PROVE  Heads(n, h, t)'
    <2>1. \A m \in Cached' : Alias(node'[m].id, node'[n].id) => Begun(n, m)'
      BY <1>4, <1>6, <1>7, <1>8, <1>9 DEF Heads
    <2>2. QED
      BY <1>5, <1>7, <1>9, <2>1 DEF Heads
  <1>10. \A h \in {1, 3}, t \in 0..(Size - 1) : h <= Len(pages) /\ pages[h][t] # Null => pages'[h][t] # Null
    BY DEF Null, Enters
  <1>11. ASSUME NEW n \in Cached' PROVE Taken(node[n].id)'
    <2>1. CASE n = k
      <3>1. PICK j : j = Index(loc[p].id, 2)
        OBVIOUS
      <3>2. node'[n].id = loc[p].id /\ Leaf(g, j)'
        BY <1>3, <1>5, <2>1, <3>1 DEF Enters
      <3>3. pages'[g][s] # Null /\ s = Index(loc[p].id, 1)
        BY DEF Null, Enters
      <3>4. QED
        BY <3>1, <3>2, <3>3 DEF Taken
    <2>2. CASE n # k
      <3>1. n \in Cached /\ node'[n] = node[n]
        BY <1>4, <1>7, <2>2
      <3>2. PICK h \in {1, 3} : Leaf(h, Index(node[n].id, 2)) /\ pages[h][Index(node[n].id, 1)] # Null
        BY <3>1 DEF Slots, Taken
      <3>3. h <= Len(pages)
        BY <3>2 DEF Leaf, Tree
      <3>4. Index(node[n].id, 1) \in 0..(Size - 1)
        <4>1. node[n] \in Collector
          BY <1>7, <3>1, NodeFacts DEF Basics
        <4>2. node[n].id \in Nat
          BY <4>1 DEF Collector
        <4>3. QED
          BY <4>2, IndexType
      <3>5. QED
        BY <1>5, <1>10, <3>1, <3>2, <3>3, <3>4 DEF Taken
    <2>3. QED
      BY <2>1, <2>2
  <1>12. ASSUME NEW h \in {1, 3}, NEW t \in 0..(Size - 1), h <= Len(pages'), pages'[h][t] # Null
         PROVE  \E n \in Cached' : Heads(n, h, t)'
    <2>1. CASE pages'[h][t] = pages[h][t]
      <3>1. PICK n \in Cached : Heads(n, h, t)
        BY <1>12, <2>1 DEF Slots, Enters
      <3>2. QED
        BY <1>4, <1>9, <2>1, <3>1
    <2>2. CASE pages'[h][t] # pages[h][t]
      <3>1. /\ h = g /\ t = s /\ pages'[g][s] = <<"node", k>>
            /\ \A m \in Cached : Alias(node[m].id, loc[p].id) => node[m].name \in loc[p].met
        BY <1>0, <1>12, <2>2 DEF Enters
      <3>2. k <= k
        BY <1>3, NodeFacts DEF Basics
      <3>3. \A m \in Cached' : Alias(node'[m].id, node'[k].id) => Begun(k, m)'
        BY <1>3, <1>4, <1>7, <3>1, <3>2 DEF Begun
      <3>4. Heads(k, g, s)'
        BY <1>3, <1>5, <3>1, <3>3 DEF Heads, Enters
      <3>5. QED
        BY <1>4, <3>1, <3>4
    <2>3. QED
      BY <2>1, <2>2
  <1>13. \A q \in Callers : q # p => loc'[q] = loc[q]
    BY DEF Enters, Finish, Goes, Basics, ListTypes
  <1>14. \A q \in Callers : (Rising(q)' <=> Rising(q)) /\ Growth(q)'
    <2>1. ~Rising(p)' /\ ~Rising(p) /\ ~Growing(p)'
      BY <1>1, <1>2 DEF Rising, Growing
    <2>2. \A q \in Callers : Growth(q)
      BY DEF Tree
    <2>3. \A q \in Callers : ~Rising(q)'
      BY <1>13, <2>1 DEF Rising
    <2>4. \A q \in Callers : Growing(q)' => Growing(q) /\ loc'[q] = loc[q]
      BY <1>13, <2>1 DEF Growing
    <2>5. QED
      BY <2>2, <2>3, <2>4 DEF Growth
  <1>15. \A q \in Callers : Bound(q)'
    <2>1. Bound(p)'
      BY <1>2 DEF Bound
    <2>2. ASSUME NEW q \in Callers, q # p PROVE Bound(q)'
      <3>1. Bound(q) /\ loc'[q] = loc[q]
        BY <1>13, <2>2 DEF Slots
      <3>2. loc[q].pc = "store" => loc[p].name \in loc[q].met
        BY <1>1, <2>2 DEF Basics, Acquainted, Creating, Mapping
      <3>3. ASSUME loc[q].pc = "store", NEW m \in Cached', Alias(node'[m].id, loc[q].id)
            PROVE  node'[m].name \in loc[q].met
        BY <1>3, <1>4, <1>7, <3>1, <3>2, <3>3 DEF Bound
      <3>4. QED
        BY <1>5, <3>1, <3>3 DEF Bound
    <2>3. QED
      BY <2>1, <2>2
  <1>16. Tree'
    BY <1>5, <1>14 DEF Tree, Enters
  <1>17. Slots'
    BY <1>11, <1>12, <1>15 DEF Slots
  <1>18. QED
    BY <1>16, <1>17

\* Who is past the top is in page 2, which is of the second level, or at its leaf page.
LEMMA Past ==
  ASSUME Shape, Ordered, Basics, Tree, Slots, InRange, NEW p \in Callers, loc[p].pc \in {"fill", "store"}
  PROVE  /\ \A q \in Callers : ~Rising(q)
         /\ DOMAIN pages = 1..Len(pages) /\ loc[p].page \in DOMAIN pages /\ loc[p].high \in {1, 2}
         /\ loc[p].high = 2 <=> loc[p].page = 2
         /\ loc[p].high = 1 => loc[p].page \in {1, 3} /\ Leaf(loc[p].page, Index(loc[p].id, 2))
         /\ loc[p].high = 2 => Len(pages) = 3
         /\ Index(loc[p].id, 1) = Low(loc[p].id)
         /\ Index(loc[p].id, 1) \in 0..(Size - 1) /\ Index(loc[p].id, 2) \in 0..(Size - 1)
  <1>1. \A q \in Callers : ~Rising(q)
    BY NoneGrows DEF Inserting, Rising
  <1>2. DOMAIN pages = 1..Len(pages) /\ Len(pages) \in {1, 3}
    BY PageFacts DEF Shape, Ordered, Tree
  <1>3. loc[p].page \in DOMAIN pages /\ Level(loc[p].page) = loc[p].high
    BY DEF Ordered, Walks, Well, HasLevel
  <1>4. loc[p].page \in {1, 2, 3}
    BY <1>2, <1>3
  <1>5. loc[p].page # 2 => loc[p].high = 1 /\ Leaf(loc[p].page, Index(loc[p].id, 2))
    BY DEF Slots, Bound
  <1>6. loc[p].page = 2 => loc[p].high = 2 /\ Len(pages) = 3
    BY <1>2, <1>3 DEF Level
  <1>7. /\ Index(loc[p].id, 1) = Low(loc[p].id)
        /\ Index(loc[p].id, 1) \in 0..(Size - 1) /\ Index(loc[p].id, 2) \in 0..(Size - 1)
    BY HeldInRange, Digits DEF Holding, Placed
  <1>8. QED
    BY <1>1, <1>2, <1>3, <1>4, <1>5, <1>6, <1>7

\* The collector is written into the leaf page of its id.
LEMMA StorePaged ==
  ASSUME Shape, Ordered, Basics, Tree, Slots, InRange, NEW p \in Callers, Store(p)
  PROVE  Tree' /\ Slots'
  <1> DEFINE e == <<"node", loc[p].node>>
  <1>1. PICK g, s : g = loc[p].page /\ s = Index(loc[p].id, 1)
    OBVIOUS
  <1>2. /\ loc[p].pc = "store" /\ cache' = cache /\ next' = next /\ Finish(p, TRUE)
        /\ pages' = [pages EXCEPT ![loc[p].page] = [pages[loc[p].page] EXCEPT ![Low(loc[p].id)] = e]]
    BY DEF Store, At
  <1>3. /\ \A q \in Callers : ~Rising(q)
        /\ g \in DOMAIN pages /\ loc[p].high = 1 /\ g \in {1, 3} /\ Leaf(g, Index(loc[p].id, 2))
        /\ s = Low(loc[p].id) /\ s \in 0..(Size - 1) /\ DOMAIN pages = 1..Len(pages)
    <2>1. loc[p].high = 1
      BY <1>2 DEF Ordered, Walks, Well
    <2>2. QED
      BY <1>1, <1>2, <2>1, Past
  <1> HIDE DEF e
  <1>4. pages' = [pages EXCEPT ![g] = [pages[g] EXCEPT ![s] = e]]
    BY <1>1, <1>2, <1>3
  <1>5. pages \in Seq(Page) /\ pages[g] \in Page
    BY <1>3, PageFacts DEF Shape, Types, Ordered
  <1>6. /\ Len(pages') = Len(pages) /\ pages'[g][s] = e
        /\ \A h \in DOMAIN pages : h # g => pages'[h] = pages[h]
        /\ \A t \in 0..(Size - 1) : t # s => pages'[g][t] = pages[g][t]
    BY <1>3, <1>4, <1>5 DEF Page
  <1>7. \A h \in {1, 3}, t \in 0..(Size - 1) :
          h <= Len(pages) /\ (h # g \/ t # s) => pages'[h][t] = pages[h][t]
    BY <1>3, <1>6
  <1>8. Len(pages) = 3 => pages'[2] = pages[2]
    BY <1>3, <1>6
  <1>9. \A m \in Cached : Alias(node[m].id, loc[p].id) => node[m].name \in loc[p].met
    BY <1>2 DEF Slots, Bound
  <1>10. g <= Len(pages)
    BY <1>3
  <1>11. Enters(p, g, s)
    BY <1>1, <1>2, <1>3, <1>6, <1>7, <1>8, <1>9, <1>10 DEF Enters, e
  <1>12. QED
    BY <1>3, <1>11, Entered

\* The walk goes down to the leaf page of the id, or finds that there is none.
LEMMA FillPaged ==
  ASSUME Shape, Ordered, Basics, Tree, Slots, InRange, NEW p \in Callers, Fill(p)
  PROVE  (oops' = "no" => Tree' /\ Slots') /\ (oops' = "null" => Unhung')
  <1> DEFINE e == pages[loc[p].page][Index(loc[p].id, loc[p].high)]
  <1>1. /\ loc[p].pc = "fill" /\ oops = "no" /\ cache' = cache /\ next' = next /\ pages' = pages
        /\ loc[p] \in Place /\ DOMAIN loc = Callers
    BY DEF Fill, At, Table, Shape, Types
  <1>2. PICK g, s, j : g = loc[p].page /\ s = Index(loc[p].id, 1) /\ j = Index(loc[p].id, 2)
    OBVIOUS
  <1>3. /\ \A q \in Callers : ~Rising(q)
        /\ loc[p].high \in {1, 2} /\ s \in 0..(Size - 1) /\ j \in 0..(Size - 1)
        /\ loc[p].high = 1 => g \in {1, 3} /\ Leaf(g, j) /\ g <= Len(pages)
        /\ loc[p].high = 2 => g = 2 /\ Len(pages) = 3
    BY <1>1, <1>2, Past
  <1>4. /\ loc[p].high = 1 => e = pages[g][s]
        /\ loc[p].high = 2 => e = pages[2][j]
    BY <1>2, <1>3
  \* Nobody in the cache has an id that looks the same as one whose entry is free.
  <1>5. ASSUME NEW m \in Cached, Alias(node[m].id, loc[p].id), loc[p].high = 1, e = Null PROVE FALSE
    <2>1. PICK h \in {1, 3} : Leaf(h, Index(node[m].id, 2)) /\ pages[h][Index(node[m].id, 1)] # Null
      BY DEF Slots, Taken
    <2>2. Index(node[m].id, 2) = j /\ Index(node[m].id, 1) = s
      BY <1>2, <1>5 DEF Alias
    <2>3. h = g
      BY <1>3, <1>5, <2>1, <2>2, OneLeaf
    <2>4. QED
      BY <1>4, <1>5, <2>1, <2>2, <2>3
  <1> HIDE DEF e
  <1>6. CASE /\ loc[p].high = 1 /\ e = Null /\ Goes(p, [loc[p] EXCEPT !.pc = "store"])
             /\ UNCHANGED <<node, oops>>
    <2> DEFINE l == [loc[p] EXCEPT !.pc = "store"]
    <2>1. /\ l.pc = "store" /\ l.page = loc[p].page /\ l.high = loc[p].high /\ l.id = loc[p].id
          /\ l.met = loc[p].met
      BY <1>1 DEF Place
    <2>2. Goes(p, l) /\ node' = node /\ oops' = oops
      BY <1>6
    <2> HIDE DEF l
    <2>3. loc'[p] = l /\ \A q \in Callers : q # p => loc'[q] = loc[q]
      BY <1>1, <2>2 DEF Goes
    <2>4. ~Rising(p)' /\ Growth(p)'
      BY <2>1, <2>3 DEF Rising, Growth, Growing
    <2>5. Bound(p)'
      <3>1. Leaf(g, j)' /\ loc'[p].page = g /\ Index(loc'[p].id, 2) = j /\ loc'[p].high = 1
        BY <1>1, <1>2, <1>3, <1>6, <2>1, <2>3 DEF Leaf
      <3>2. \A m \in Cached' : ~Alias(node'[m].id, loc'[p].id)
        BY <1>5, <1>6, <2>1, <2>2, <2>3 DEF Cached, Nodes
      <3>3. QED
        BY <3>1, <3>2 DEF Bound
    <2>6. QED
      BY <1>1, <1>3, <2>2, <2>3, <2>4, <2>5, MovesPaged
  <1>7. CASE loc[p].high = 1 /\ e # Null /\ Finish(p, TRUE) /\ UNCHANGED oops
    <2>1. Enters(p, g, s)
      BY <1>1, <1>2, <1>3, <1>4, <1>7 DEF Enters
    <2>2. g \in {1, 3} /\ s \in 0..(Size - 1) /\ \A q \in Callers : ~Rising(q)
      BY <1>3, <1>7
    <2>3. Tree' /\ Slots'
      BY <2>1, <2>2, Entered
    <2>4. QED
      BY <1>1, <1>7, <2>3
  <1>8. loc[p].high = 2 => /\ j = 0 => e = <<"page", 1>>
                           /\ j # 0 => e \in {Null, <<"page", 3>>}
    BY <1>3, <1>4 DEF Tree
  <1>9. CASE /\ loc[p].high > 1 /\ e[1] = "page" /\ UNCHANGED <<node, oops>>
             /\ Goes(p, [loc[p] EXCEPT !.page = e[2], !.high = @ - 1])
    <2> DEFINE l == [loc[p] EXCEPT !.page = e[2], !.high = @ - 1]
    <2>1. loc[p].high = 2 /\ e # Null
      BY <1>3, <1>9 DEF Null
    <2>2. Leaf(e[2], j)
      BY <1>3, <1>4, <1>8, <2>1 DEF Leaf
    <2>3. l.pc = "fill" /\ l.page = e[2] /\ l.high = 1 /\ l.id = loc[p].id
      BY <1>1, <2>1 DEF Place
    <2>4. Goes(p, l) /\ node' = node /\ oops' = oops
      BY <1>9
    <2> HIDE DEF l
    <2>5. loc'[p] = l /\ \A q \in Callers : q # p => loc'[q] = loc[q]
      BY <1>1, <2>4 DEF Goes
    <2>6. ~Rising(p)' /\ Growth(p)'
      BY <2>3, <2>5 DEF Rising, Growth, Growing
    <2>7. PICK h : h = e[2]
      OBVIOUS
    <2>8. Leaf(h, j)' /\ loc'[p].page = h /\ Index(loc'[p].id, 2) = j
      BY <1>1, <1>2, <2>2, <2>3, <2>5, <2>7 DEF Leaf
    <2>9. Bound(p)'
      BY <2>3, <2>5, <2>8 DEF Bound
    <2>10. QED
      BY <1>1, <1>3, <2>4, <2>5, <2>6, <2>9, MovesPaged
  <1>10. CASE /\ loc[p].high > 1 /\ e[1] # "page" /\ oops' = (IF e = Null THEN "null" ELSE "wild")
              /\ UNCHANGED <<node, loc>>
    <2>1. loc[p].high = 2 /\ j # 0 /\ e = Null
      BY <1>3, <1>8, <1>10
    <2>2. ASSUME NEW n \in Cached, Index(node[n].id, 2) = j PROVE FALSE
      <3>1. PICK h \in {1, 3} : Leaf(h, j)
        BY <2>2 DEF Slots, Taken
      <3>2. QED
        BY <1>4, <2>1, <3>1 DEF Leaf, Null
    <2>3. Unhung
      BY <1>1, <1>2, <2>1, <2>2 DEF Unhung
    <2>4. Unhung'
      BY <1>10, <2>3 DEF Unhung, Cached, Nodes
    <2>5. QED
      BY <1>10, <2>1, <2>4
  <1>11. QED
    BY <1>6, <1>7, <1>9, <1>10 DEF Fill, e

-----------------------------------------------------------------------------
(* The ids in the first states, and in all.                                *)

\* Ids below twice the entries of two shifts have second index 0 or 1.
LEMMA FirstDigits ==
  ASSUME NEW i \in Nat, i < 2 * 2^Shift
  PROVE  /\ i < Beyond /\ Index(i, 1) = Low(i) /\ Low(i) \in 0..(Size - 1)
         /\ Index(i, 2) = i \div 2^Shift /\ Index(i, 2) \in {0, 1}
         /\ Index(i, 2) = 0 <=> i < 2^Shift
  <1> DEFINE B == 2^Shift
  <1>1. B \in Nat \ {0} /\ Size \in Nat \ {0, 1} /\ B = 2 * Size
    BY PowersAssumption
  <1>2. 2^(1 * Shift) = B
    <2>1. 1 * Shift = Shift
      BY CollectorsAssumption DEF Shift
    <2>2. QED
      BY <2>1
  <1>3. i < 2 * B /\ i \in Nat
    OBVIOUS
  <1>4. Beyond = Size * B
    BY DEF Beyond
  <1> HIDE DEF B
  <1>5. i < Beyond
    <2>1. (Size - 2) * B \in Nat /\ Size * B = (Size - 2) * B + 2 * B
      <3>1. Size - 2 \in Nat
        BY <1>1
      <3>2. QED
        BY <1>1, <3>1
    <2>2. QED
      BY <1>1, <1>3, <1>4, <2>1
  <1>6. Index(i, 2) = i \div B
    BY <1>2, <1>5, Digits DEF High
  <1>7. i \div B \in Nat /\ i \div B < 2
    BY <1>1, <1>3, Quotient
  <1>8. i \div B = 0 <=> i < B
    <2>1. i = B * (i \div B) + (i % B) /\ i % B \in 0..(B - 1)
      BY <1>1
    <2>2. QED
      BY <1>1, <1>7, <2>1
  <1>9. QED
    BY <1>5, <1>6, <1>7, <1>8, Digits DEF B

\* An entry of a leaf page leads to the first collector for it.
LEMMA Filling ==
  ASSUME NEW k \in Nat, k < 2 * 2^Shift, NEW j \in {0, 1}, NEW s \in 0..(Size - 1)
  PROVE  LET f == Filled(k, j * 2^Shift)[s]
             I == {i \in 1..k : Index(i, 2) = j /\ Index(i, 1) = s}
         IN \/ I = {} /\ f = Null
            \/ \E n \in I : f = <<"node", n>> /\ \A i \in I : n <= i
  <1> DEFINE lo == j * 2^Shift
             J == {i \in lo..k : i \div 2^Shift = lo \div 2^Shift /\ i # 0 /\ Low(i) = s}
             I == {i \in 1..k : Index(i, 2) = j /\ Index(i, 1) = s}
             m == CHOOSE i \in I : \A h \in I : i <= h
  <1>1. 2^Shift \in Nat \ {0}
    BY PowersAssumption
  <1>2. lo \div 2^Shift = j
    <2>1. \A b \in Nat \ {0} : (0 * b) \div b = 0 /\ (1 * b) \div b = 1
      OBVIOUS
    <2>2. j = 0 \/ j = 1
      OBVIOUS
    <2>3. QED
      BY <1>1, <2>1, <2>2
  <1>3. J = I
    <2>1. ASSUME NEW i \in J PROVE i \in I
      <3>1. i \in Nat /\ i < 2 * 2^Shift /\ i \in 1..k /\ Low(i) = s /\ i \div 2^Shift = j
        BY <1>1, <1>2
      <3>2. QED
        BY <3>1, FirstDigits
    <2>2. ASSUME NEW i \in I PROVE i \in J
      <3>1. i \in Nat /\ i < 2 * 2^Shift /\ i \in 1..k /\ Index(i, 2) = j /\ Index(i, 1) = s
        BY <1>1
      <3>2. Low(i) = s /\ i \div 2^Shift = j /\ (j = 0 <=> i < 2^Shift)
        BY <3>1, FirstDigits
      <3>3. i \in lo..k
        BY <1>1, <3>1, <3>2
      <3>4. QED
        BY <1>2, <3>1, <3>2, <3>3
    <2>3. QED
      BY <2>1, <2>2
  <1>4. Filled(k, lo)[s] = First(k, lo, s)
    BY DEF Filled
  <1>5. First(k, lo, s) = IF J = {} THEN Null ELSE <<"node", CHOOSE i \in J : \A h \in J : i <= h>>
    BY DEF First
  <1> HIDE DEF J
  <1>6. First(k, lo, s) = IF I = {} THEN Null ELSE <<"node", m>>
    BY <1>3, <1>5
  <1>7. I \in SUBSET Nat
    OBVIOUS
  <1> HIDE DEF I, lo
  <1>8. I # {} => m \in I /\ \A h \in I : m <= h
    BY <1>7, LeastNat
  <1> HIDE DEF m
  <1>9. \/ I = {} /\ First(k, lo, s) = Null
        \/ \E n \in I : First(k, lo, s) = <<"node", n>> /\ \A i \in I : n <= i
    BY <1>6, <1>8
  <1>10. QED
    BY <1>4, <1>9 DEF I, lo

\* The levels that collectors made one by one leave behind.
LEMMA BeforePages ==
  ASSUME NEW k \in Earlier, Before(k)
  PROVE  /\ k \in Nat /\ k < 2 * 2^Shift /\ cache.prefix = 0 /\ Nodes = 1..k /\ Cached = 1..k
         /\ \A n \in 1..k : node[n].id = n
         /\ pages[1] = Filled(k, 0 * 2^Shift)
         /\ \/ k < 2^Shift /\ Len(pages) = 1
            \/ /\ Len(pages) = 3 /\ pages[2][0] = <<"page", 1>>
               /\ \A i \in 1..(Size - 1) : pages[2][i] = IF i = 1 THEN <<"page", 3>> ELSE Null
               /\ pages[3] = Filled(k, 1 * 2^Shift)
  <1>1. Size \in Nat \ {0, 1} /\ 2^Shift = 2 * Size
    BY PowersAssumption
  <1>2. k \in Nat /\ k < 2 * 2^Shift
    <2>1. k \in 0..(4 * Size - 1)
      BY CollectorsAssumption DEF Size
    <2>2. QED
      BY <1>1, <2>1
  <1>3. /\ Nodes = 1..k /\ Cached = 1..k /\ \A n \in 1..k : node[n].id = n
    BY <1>2 DEF Before, Nodes, Cached
  <1>4. 0 * 2^Shift = 0 /\ 1 * 2^Shift = 2^Shift
    BY <1>1
  <1>5. CASE k < 2^Shift
    <2>1. pages = <<Filled(k, 0)>> /\ cache = [NoCache EXCEPT !.on = (k > 0)]
      BY <1>5 DEF Before
    <2>2. cache.prefix = 0
      BY <2>1 DEF NoCache
    <2>3. Len(pages) = 1 /\ pages[1] = Filled(k, 0)
      BY <2>1
    <2>4. QED
      BY <1>2, <1>3, <1>4, <1>5, <2>2, <2>3
  <1>6. CASE ~(k < 2^Shift)
    <2> DEFINE top == [ZeroPage EXCEPT ![0] = <<"page", 1>>, ![1] = <<"page", 3>>]
    <2>1. /\ pages = <<Filled(k, 0), top, Filled(k, 2^Shift)>>
          /\ cache = [NoCache EXCEPT !.on = TRUE, !.high = 2, !.top = 2]
      BY <1>6 DEF Before
    <2>2. cache.prefix = 0
      BY <2>1 DEF NoCache
    <2>3. top[0] = <<"page", 1>> /\ \A i \in 1..(Size - 1) : top[i] = IF i = 1 THEN <<"page", 3>> ELSE Null
      <3>1. DOMAIN ZeroPage = 0..(Size - 1) /\ \A i \in 0..(Size - 1) : ZeroPage[i] = Null
        BY DEF ZeroPage
      <3>2. /\ 0 \in 0..(Size - 1) /\ 1 \in 0..(Size - 1)
            /\ \A i \in 1..(Size - 1) : i \in 0..(Size - 1) /\ i # 0
        BY <1>1
      <3>3. top[0] = <<"page", 1>> /\ top[1] = <<"page", 3>>
        BY <3>1, <3>2
      <3>4. \A i \in 0..(Size - 1) : i \notin {0, 1} => top[i] = Null
        BY <3>1
      <3>5. \A i \in 1..(Size - 1) : i # 1 => top[i] = Null
        BY <3>2, <3>4
      <3> HIDE DEF top
      <3>6. QED
        BY <3>3, <3>5
    <2> HIDE DEF top
    <2>4. Len(pages) = 3 /\ pages[1] = Filled(k, 0) /\ pages[2] = top /\ pages[3] = Filled(k, 2^Shift)
      BY <2>1
    <2>5. QED
      BY <1>2, <1>3, <1>4, <2>2, <2>3, <2>4
  <1>7. QED
    BY <1>5, <1>6

\* Collectors made one by one leave the ids in order.
LEMMA InitPaged == Init => Tree /\ Slots
  <1> SUFFICES ASSUME Init PROVE Tree /\ Slots
    OBVIOUS
  <1>1. PICK k \in Earlier :
          /\ Before(k)
          /\ loc = [p \in Callers |-> IF k = 0 /\ p = Loader THEN [Idle EXCEPT !.pc = "boot"] ELSE Idle]
    BY DEF Init
  <1>2. /\ k \in Nat /\ k < 2 * 2^Shift /\ cache.prefix = 0 /\ Nodes = 1..k /\ Cached = 1..k
        /\ \A n \in 1..k : node[n].id = n
    BY <1>1, BeforePages
  <1>3. \A q \in Callers : loc[q].pc \in {"idle", "boot"}
    <2>1. Idle.pc = "idle" /\ [Idle EXCEPT !.pc = "boot"].pc = "boot"
      BY DEF Idle
    <2>2. QED
      BY <1>1, <2>1
  <1>4. \A q \in Callers : ~Rising(q) /\ Growth(q) /\ Bound(q)
    BY <1>3 DEF Rising, Growing, Growth, Bound
  <1> DEFINE leaf(j) == IF j = 0 THEN 1 ELSE 3
  <1>5. ASSUME NEW j \in {0, 1}, j = 1 => Len(pages) = 3
        PROVE  Leaf(leaf(j), j) /\ pages[leaf(j)] = Filled(k, j * 2^Shift)
    BY <1>1, <1>5, BeforePages, PowersAssumption DEF Leaf
  <1>6. Len(pages) = 3 \/ (k < 2^Shift /\ Len(pages) = 1)
    BY <1>1, BeforePages
  <1>7. Tree
    <2>1. Len(pages) = 3 =>
            /\ pages[2][0] = <<"page", 1>>
            /\ \A i \in 1..(Size - 1) : pages[2][i] = IF i = 1 THEN <<"page", 3>> ELSE Null
      BY <1>1, BeforePages
    <2>2. \A i \in 1..(Size - 1) : Leaf(3, i) => i = 1
      BY <2>1 DEF Leaf, Null
    <2>3. QED
      BY <1>2, <1>4, <1>6, <2>1, <2>2 DEF Tree
  <1>8. ASSUME NEW n \in 1..k PROVE
          /\ n \in Nat /\ n < 2 * 2^Shift
          /\ Index(n, 1) \in 0..(Size - 1) /\ Index(n, 2) \in {0, 1} /\ (Index(n, 2) = 1 => Len(pages) = 3)
    <2>1. n \in Nat /\ n < 2 * 2^Shift
      BY <1>2, PowersAssumption
    <2>2. k < 2^Shift => n < 2^Shift
      BY <1>2, PowersAssumption
    <2>3. QED
      BY <1>6, <2>1, <2>2, FirstDigits
  <1>9. ASSUME NEW n \in Cached PROVE Taken(node[n].id)
    <2>1. n \in 1..k /\ node[n].id = n
      BY <1>2
    <2>2. PICK j, s : j = Index(n, 2) /\ s = Index(n, 1)
      OBVIOUS
    <2>3. j \in {0, 1} /\ s \in 0..(Size - 1) /\ (j = 1 => Len(pages) = 3)
      BY <1>8, <2>1, <2>2
    <2>4. Leaf(leaf(j), j) /\ pages[leaf(j)] = Filled(k, j * 2^Shift)
      BY <1>5, <2>3
    <2>5. n \in {i \in 1..k : Index(i, 2) = j /\ Index(i, 1) = s}
      BY <2>1, <2>2
    <2>6. Filled(k, j * 2^Shift)[s] # Null
      BY <1>2, <2>3, <2>5, Filling DEF Null
    <2>7. QED
      BY <2>1, <2>2, <2>3, <2>4, <2>6 DEF Taken
  <1>10. ASSUME NEW g \in {1, 3}, NEW s \in 0..(Size - 1), g <= Len(pages), pages[g][s] # Null
         PROVE  \E n \in Cached : Heads(n, g, s)
    <2> DEFINE j == IF g = 1 THEN 0 ELSE 1
               I == {i \in 1..k : Index(i, 2) = j /\ Index(i, 1) = s}
    <2>1. j \in {0, 1} /\ (j = 1 => Len(pages) = 3) /\ leaf(j) = g
      BY <1>6, <1>10
    <2>2. Leaf(g, j) /\ pages[g] = Filled(k, j * 2^Shift)
      BY <1>5, <2>1
    <2> HIDE DEF j
    <2>3. PICK n \in I : Filled(k, j * 2^Shift)[s] = <<"node", n>> /\ \A i \in I : n <= i
      BY <1>2, <1>10, <2>1, <2>2, Filling
    <2>4. /\ n \in 1..k /\ node[n].id = n /\ Index(n, 2) = j /\ Index(n, 1) = s
      BY <1>2, <2>3
    <2>5. \A m \in Cached : Alias(node[m].id, node[n].id) => m \in I
      BY <1>2, <2>4 DEF Alias
    <2> HIDE DEF I
    <2>6. Heads(n, g, s)
      BY <2>2, <2>3, <2>4, <2>5 DEF Heads, Begun
    <2>7. QED
      BY <1>2, <2>4, <2>6
  <1>11. QED
    BY <1>4, <1>7, <1>9, <1>10 DEF Slots

\* A step that changes nothing.
LEMMA Untouched ==
  ASSUME UNCHANGED vars, IdInv
  PROVE  IdInv'
  <1>1. /\ node' = node /\ cache' = cache /\ pages' = pages /\ loc' = loc /\ oops' = oops
        /\ torn' = torn /\ Nodes' = Nodes /\ Cached' = Cached
    BY DEF vars, Nodes, Cached
  <1>2. /\ InRange' <=> InRange
        /\ Unhung' <=> Unhung
        /\ \A g, j : Leaf(g, j)' <=> Leaf(g, j)
    BY <1>1 DEF InRange, Unhung, Leaf
  <1>3. Tree => Tree'
    BY <1>1, <1>2 DEF Tree, Growth, Growing, Rising
  <1>4. Slots => Slots'
    BY <1>1, <1>2 DEF Slots, Taken, Heads, Begun, Bound
  <1>5. QED
    BY <1>1, <1>2, <1>3, <1>4 DEF IdInv

\* A living kernel's step, with all ids in range after it.
LEMMA IdSteps ==
  ASSUME Shape, Ordered, Basics, Basics', (Tree /\ Slots) \/ ~InRange, Next, InRange'
  PROVE  (oops' = "no" => Tree' /\ Slots') /\ (oops' = "null" => Unhung')
  <1>1. ASSUME NEW p \in Callers, NEW x \in Nat, NEW pc, Starts(p, x, pc), pages' = pages, oops' = "no"
        PROVE  Tree' /\ Slots'
    <2>1. node' = node /\ Nodes' = Nodes
      BY <1>1, StartFacts
    <2>2. InRange
      BY <2>1 DEF InRange
    <2>3. QED
      BY <1>1, <2>2, BeginsPaged
  <1>2. CASE Boot
    <2>1. Starts(Loader, Main, "scan") /\ pages' = pages /\ oops' = "no" /\ Loader \in Callers /\ Main \in Nat
      BY <1>2, CollectorsAssumption DEF Boot, Starts, At, Listed
    <2>2. QED
      BY <1>1, <2>1
  <1>3. ASSUME NEW p \in Callers, Create(p)
        PROVE  oops' = "no" /\ Tree' /\ Slots'
    <2>1. PICK x \in Names : Begins(p, x, "lookup")
      BY <1>3 DEF Create
    <2>2. Starts(p, x, "lookup") /\ x \in Nat /\ pages' = pages /\ oops' = "no"
      BY <1>3, <2>1, CollectorsAssumption DEF Create, Starts, At, Listed, Table
    <2>3. QED
      BY <1>1, <2>2
  <1>4. ASSUME NEW p \in Callers, Making(p) \/ MapTop(p) \/ MapWalk(p) \/ \E id \in Offsets : Map(p, id)
        PROVE  (oops' = "no" => Tree' /\ Slots') /\ (oops' = "null" => Unhung')
    <2>1. /\ ListTypes' /\ (GoesOn(p) \/ Makes(p) \/ HangsOn(p) \/ Publishes(p) \/ Finishes(p))
      BY <1>4, Steps
    <2>2. \A n \in Nodes : n \in Nodes' /\ node'[n].id = node[n].id
      BY <2>1, NodesStay
    <2>3. InRange /\ Tree /\ Slots
      <3>1. InRange
        BY <2>2 DEF InRange
      <3>2. QED
        BY <3>1
    <2>4. CASE \/ Lookup(p) \/ Scan(p) \/ IdRead(p) \/ IdWrite(p) \/ Link(p) \/ Publish(p)
               \/ Insert(p) \/ MapTop(p) \/ MapWalk(p) \/ \E id \in Offsets : Map(p, id)
      <3>1. Tree' /\ Slots'
        BY <2>3, <2>4, AsidePaged
      <3>2. oops' # "null"
        BY <2>4 DEF Lookup, Scan, IdRead, IdWrite, Link, Publish, Insert, MapTop, MapWalk, Map, At
      <3>3. QED
        BY <3>1, <3>2
    <2>5. CASE InsertTop(p) \/ Grow(p) \/ GrowHigh(p) \/ GrowLink(p) \/ Store(p)
      <3>1. Tree' /\ Slots'
        BY <2>3, <2>5, InsertTopPaged, GrowPaged, GrowHighPaged, GrowLinkPaged, StorePaged
      <3>2. oops' # "null"
        BY <2>5 DEF InsertTop, Grow, GrowHigh, GrowLink, Store, At
      <3>3. QED
        BY <3>1, <3>2
    <2>6. CASE Fill(p)
      BY <2>3, <2>6, FillPaged
    <2>7. QED
      BY <1>4, <2>4, <2>5, <2>6 DEF Making
  <1>5. QED
    BY <1>2, <1>3, <1>4 DEF Next

\* So the invariant is inductive, given those of the cache and of the list.
LEMMA IdKeeps ==
  ASSUME CacheInv, ListInv, ListInv', IdInv, [Next]_vars
  PROVE  IdInv'
  <1>1. CASE UNCHANGED vars
    BY <1>1, Untouched
  <1>2. CASE Next
    <2> SUFFICES ASSUME ~torn', InRange' PROVE (oops' = "no" => Tree' /\ Slots') /\ (oops' = "null" => Unhung')
      BY DEF IdInv
    <2>1. oops = "no" /\ ~torn
      BY <1>2, Runs
    <2>2. Shape /\ Ordered /\ Basics /\ Basics' /\ ((Tree /\ Slots) \/ ~InRange)
      BY <2>1 DEF CacheInv, ListInv, IdInv
    <2>3. QED
      BY <1>2, <2>2, IdSteps
  <1>3. QED
    BY <1>1, <1>2

\* What a look-up of an id in range reads.
LEMMA Finds ==
  ASSUME Shape, Ordered, Tree, Slots, \A q \in Callers : ~Rising(q), NEW id \in Nat, id < Beyond
  PROVE  \/ \E g \in {1, 3} : /\ Leaf(g, Index(id, 2)) /\ g <= Len(pages)
                               /\ Found(id) = pages[g][Index(id, 1)]
         \/ Found(id) = Null /\ \A g \in {1, 3} : ~Leaf(g, Index(id, 2))
  <1>1. PICK s, j : s = Index(id, 1) /\ j = Index(id, 2)
    OBVIOUS
  <1>2. /\ High(id, 1) = j /\ High(id, 2) = 0 /\ j \in 0..(Size - 1) /\ s \in 0..(Size - 1)
    BY <1>1, Digits
  <1>3. cache.prefix = 0
    BY DEF Tree
  <1>4. CASE cache.high = 1 /\ cache.top = 1 /\ Len(pages) = 1
    <2>1. Found(id) = IF j # 0 THEN Null ELSE pages[1][s]
      BY <1>1, <1>2, <1>3, <1>4 DEF Found
    <2>2. QED
      BY <1>1, <1>4, <2>1 DEF Leaf
  <1>5. CASE cache.high = 2 /\ cache.top = 2 /\ Len(pages) = 3
    <2>1. Found(id) = IF pages[2][j] = Null THEN Null ELSE pages[pages[2][j][2]][s]
      BY <1>1, <1>2, <1>3, <1>5 DEF Found
    <2>2. j = 0 => pages[2][j] = <<"page", 1>>
      BY <1>5 DEF Tree
    <2>3. j # 0 => pages[2][j] \in {Null, <<"page", 3>>}
      BY <1>2, <1>5 DEF Tree
    <2>4. CASE pages[2][j] = Null
      BY <1>1, <2>1, <2>2, <2>4 DEF Leaf, Null
    <2>5. CASE pages[2][j] # Null
      BY <1>1, <1>5, <2>1, <2>2, <2>3, <2>5 DEF Leaf
    <2>6. QED
      BY <2>4, <2>5
  <1>6. QED
    BY <1>4, <1>5, Storeys

\* The invariant gives the property: what a leaf page has is what ids that look alike find.
LEMMA FoundFirst == CacheInv /\ IdInv => IdsAsAliased
  <1> SUFFICES ASSUME CacheInv, IdInv, ~torn, InRange
               PROVE  /\ oops = "null" => Unhung
                      /\ oops = "no" /\ (\A q \in Callers : ~Inserting(q)) =>
                           \A id \in 0..(Beyond - 1) :
                             LET C == {n \in Cached : Alias(node[n].id, id)}
                             IN \/ C = {} /\ Found(id) = Null
                                \/ \E n \in C : /\ Found(id) = <<"node", n>>
                                                /\ \A m \in C : n <= m \/ node[m].name \in node[n].met
    BY DEF IdsAsAliased, Unhung
  <1>1. oops = "null" => Unhung
    BY DEF IdInv
  <1>2. ASSUME oops = "no", \A q \in Callers : ~Inserting(q), NEW id \in 0..(Beyond - 1)
        PROVE  LET C == {n \in Cached : Alias(node[n].id, id)}
               IN \/ C = {} /\ Found(id) = Null
                  \/ \E n \in C : /\ Found(id) = <<"node", n>>
                                  /\ \A m \in C : n <= m \/ node[m].name \in node[n].met
    <2> DEFINE C == {n \in Cached : Alias(node[n].id, id)}
    <2>1. Shape /\ Ordered /\ Tree /\ Slots
      BY <1>2 DEF CacheInv, IdInv
    <2>2. \A q \in Callers : ~Rising(q)
      BY <1>2 DEF Inserting, Growing, Rising
    <2>3. id \in Nat /\ id < Beyond
      BY PowersAssumption DEF Beyond
    <2>4. PICK s, j : s = Index(id, 1) /\ j = Index(id, 2)
      OBVIOUS
    <2>5. s \in 0..(Size - 1) /\ j \in 0..(Size - 1)
      BY <2>3, <2>4, Digits
    <2>6. \A m \in C : m \in Cached /\ Index(node[m].id, 1) = s /\ Index(node[m].id, 2) = j
      BY <2>4 DEF Alias
    <2>7. \A m \in C : \E g \in {1, 3} : Leaf(g, j) /\ pages[g][s] # Null
      BY <2>1, <2>6 DEF Slots, Taken
    <2>8. CASE Found(id) = Null /\ \A g \in {1, 3} : ~Leaf(g, j)
      BY <2>7, <2>8
    <2>9. ASSUME NEW g \in {1, 3}, Leaf(g, j), g <= Len(pages), Found(id) = pages[g][s]
          PROVE  \/ C = {} /\ Found(id) = Null
                 \/ \E n \in C : /\ Found(id) = <<"node", n>>
                                 /\ \A m \in C : n <= m \/ node[m].name \in node[n].met
      <3>1. CASE pages[g][s] = Null
        BY <2>7, <2>9, <3>1, OneLeaf
      <3>2. CASE pages[g][s] # Null
        <4>1. PICK n \in Cached : Heads(n, g, s)
          BY <2>1, <2>5, <2>9, <3>2 DEF Slots
        <4>2. PICK i : i = Index(node[n].id, 2)
          OBVIOUS
        <4>3. /\ pages[g][s] = <<"node", n>> /\ Leaf(g, i) /\ Index(node[n].id, 1) = s
              /\ \A m \in Cached : Alias(node[m].id, node[n].id) => Begun(n, m)
          BY <4>1, <4>2 DEF Heads
        <4>4. i \in 0..(Size - 1)
          <5>1. node[n] \in Collector
            BY <2>1 DEF Shape, Types, Cached, Nodes
          <5>2. node[n].id \in Nat
            BY <5>1 DEF Collector
          <5>3. QED
            BY <4>2, <5>2, IndexType
        <4>5. i = j
          <5>1. CASE g = 1
            BY <2>9, <4>3, <5>1 DEF Leaf
          <5>2. CASE g = 3
            <6>1. i \in 1..(Size - 1) /\ j \in 1..(Size - 1) /\ Len(pages) = 3
              BY <2>5, <2>9, <4>3, <4>4, <5>2 DEF Leaf
            <6>2. QED
              BY <2>1, <2>2, <2>9, <4>3, <5>2, <6>1 DEF Tree
          <5>3. QED
            BY <5>1, <5>2
        <4>6. n \in C
          BY <2>4, <4>2, <4>3, <4>5 DEF Alias
        <4>7. \A m \in C : Begun(n, m)
          BY <2>6, <4>2, <4>3, <4>5 DEF Alias
        <4>8. QED
          BY <2>9, <4>3, <4>6, <4>7 DEF Begun
      <3>3. QED
        BY <3>1, <3>2
    <2>10. QED
      BY <2>1, <2>2, <2>3, <2>4, <2>8, <2>9, Finds
  <1>3. QED
    BY <1>1, <1>2

\* As long as ids are in range and the cache did not grow under two callers at once, an id
\* leads to the first collector whose id looks the same, or to one made alongside it, and
\* the kernel dies of missing pages only where one is missing: for any size of the pages,
\* any number of callers and any order of their steps.
THEOREM IdsFindTheFirst == Spec => []IdsAsAliased
  <1>1. Init => IdInv
    BY InitPaged DEF Init, IdInv
  <1>2. CacheInv /\ ListInv /\ ListInv' /\ IdInv /\ [Next]_vars => IdInv'
    BY IdKeeps
  <1>3. CacheInv /\ IdInv => IdsAsAliased
    BY FoundFirst
  <1>4. Spec => []ListInv
    BY InitLined, ListKeeps, PTL DEF Spec
  <1>5. QED
    BY <1>1, <1>2, <1>3, <1>4, CacheInvHolds, PTL DEF Spec
=============================================================================
