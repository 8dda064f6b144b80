--------------------------- MODULE BpTree_proofs ---------------------------
(* Theorems on the tree of names and its files, for any number of names,   *)
(* blocks and processes and any size of a node.                            *)
EXTENDS BpTree, FiniteSetTheorems, WellFoundedInduction, TLAPS

-----------------------------------------------------------------------------
(* The inductive invariant.                                                *)

Making   == {"allocWire", "allocName", "saveName", "saveWire", "insert"}
NewPcs   == {"saveRoot", "saveHead"}
SplitPcs == {"saveLeft", "saveRight", "parent", "wild", "saveTop", "saveTopHead",
             "saveLeftAgain", "saveRightAgain"}
Alive == pc # "down"

\* Names that the tree on file should hold.
Present == known \ cutoff

New == [key |-> kid, data |-> did]

Block == [n : 0..(Size - 1), leaf : BOOLEAN, keys : [Slots -> Ids], ptrs : [Slots -> Ids]]
NamesFile == [used : 0..MaxIds, rec : [Ids -> Names \cup {NoName}]]
WiresFile == [used : 0..MaxIds, rec : [Ids -> Ids \cup {NoId}]]
NodesFile == [used : 0..MaxIds, rec : [Ids -> Block], root : Ids \cup {NoId}]
AllFiles  == [names : NamesFile, wires : WiresFile, nodes : NodesFile]
Leaf == [n : 0..(Size - 1), keys : [Slots -> Names \cup {NoName}],
         objs : [Slots -> Ids \cup {NoId}], parent : {"null", "wild"}]

Types ==
  /\ disk \in AllFiles /\ cache \in AllFiles
  /\ pc \in {"down", "idle", "null", "garbage", "find"} \cup Making \cup NewPcs \cup SplitPcs
  /\ tree \in {"none", "leaf", "inner"}
  /\ arg \in Names \cup {NoName}
  /\ kid \in Ids /\ did \in Ids /\ leafId \in Ids /\ newId \in Ids /\ top \in Ids
  /\ mem \in Leaf
  /\ blk \in Block /\ right \in Block
  /\ known \subseteq Names /\ cutoff \subseteq Names /\ broken \subseteq [key : Ids, data : Ids]

\* What a stream holds back only adds to its file.
Extends(f, g) ==
  /\ f.names.used <= g.names.used /\ f.wires.used <= g.wires.used
  /\ \A i \in Ids : f.names.rec[i] \in {NoName, g.names.rec[i]}
  /\ \A i \in Ids : f.wires.rec[i] \in {NoId, g.wires.rec[i]}

\* Records are written to blocks that are marked.
RecordsMarked(f) ==
  /\ \A i \in Ids : f.names.rec[i] # NoName => i < f.names.used
  /\ \A i \in Ids : f.wires.rec[i] # NoId => i < f.wires.used
  /\ f.nodes.root < f.nodes.used

Streamed ==
  /\ Extends(disk, cache)
  /\ RecordsMarked(disk) /\ RecordsMarked(cache)
  /\ pc = "down" => cache = disk

\* The ids of the entries are below the numbers of blocks in use.
Taken(nodes, names, wires) ==
  \A e \in Entries(nodes) : e.key < names /\ e.data < wires

\* The names of a leaf, those that are on file, ascend.
Ascending(b, rec) ==
  \A s, t \in 0..(b.n - 1) :
    s < t /\ rec[b.keys[s]] # NoName /\ rec[b.keys[t]] # NoName => rec[b.keys[s]] < rec[b.keys[t]]
Below(b, rec, x) == \A s \in 0..(b.n - 1) : rec[b.keys[s]] # NoName => rec[b.keys[s]] < x
NotBelow(b, rec, x) == \A s \in 0..(b.n - 1) : rec[b.keys[s]] # NoName => rec[b.keys[s]] >= x

SortedIn(nodes, rec) ==
  LET root == nodes.rec[nodes.root]
      x == rec[root.keys[0]]
  IN /\ \A b \in Leaves(nodes) : Ascending(b, rec)
     /\ nodes.root # NoId /\ ~root.leaf /\ x # NoName =>
          Below(nodes.rec[root.ptrs[0]], rec, x) /\ NotBelow(nodes.rec[root.ptrs[1]], rec, x)

\* This holds of both views of the nodes with any view of the other two files.
NodesGood ==
  \A nodes \in {disk.nodes, cache.nodes} :
    Taken(nodes, disk.names.used, disk.wires.used) /\ SortedIn(nodes, cache.names.rec)

\* Where an operation may be with which tree.
TreeByPc ==
  /\ pc \in Making => tree \in {"none", "leaf"}
  /\ pc \in NewPcs => tree = "none"
  /\ pc \in SplitPcs => tree = "leaf"
  /\ pc \in Making \cup NewPcs \cup SplitPcs => arg \in Names \ Present
  /\ pc = "find" => tree = "inner"

NoTree ==
  Alive /\ tree = "none" =>
    cache.nodes.root = NoId /\ disk.nodes.root = NoId /\ known = {}

\* Until a leaf is split the root is a leaf, in both views.
LeafOnly ==
  Alive /\ tree # "inner" /\ pc \notin SplitPcs =>
    \A nodes \in {disk.nodes, cache.nodes} : nodes.root # NoId => nodes.rec[nodes.root].leaf

\* The leaf in memory, its block and the record.
LeafView ==
  Alive /\ tree = "leaf" /\ pc \notin SplitPcs =>
    /\ cache.nodes.root = leafId /\ cache.nodes.rec[leafId] = blk
    /\ mem.n = blk.n
    /\ \A s \in 0..(mem.n - 1) :
         /\ mem.keys[s] = cache.names.rec[blk.keys[s]]
         /\ mem.objs[s] \in {NoId, blk.ptrs[s]}

\* A leaf that is worked on has all its names, and a name to be created is not there.
AllNamed ==
  tree = "leaf" =>
    /\ pc \in {"idle"} \cup Making => \A s \in 0..(mem.n - 1) : mem.keys[s] # NoName
    /\ pc \in Making => \A s \in 0..(mem.n - 1) : mem.keys[s] # arg

KnownOn == Alive /\ pc \notin SplitPcs => NamesOn(cache) = Present

\* Ids are fresh until the records of the new wireway are written.
FreshWire ==
  pc \in {"allocName", "saveName", "saveWire"} =>
    /\ cache.wires.rec[did] = NoId /\ did < cache.wires.used
    /\ \A e \in Entries(disk.nodes) \cup Entries(cache.nodes) : e.data < did
FreshName ==
  pc = "saveName" =>
    /\ cache.names.rec[kid] = NoName /\ kid < cache.names.used
    /\ \A e \in Entries(disk.nodes) \cup Entries(cache.nodes) : e.key < kid
Named ==
  pc \in {"saveWire", "insert"} \cup NewPcs \cup SplitPcs =>
    cache.names.rec[kid] = arg /\ kid < disk.names.used
Wired ==
  pc \in {"insert"} \cup NewPcs \cup SplitPcs =>
    cache.wires.rec[did] = kid /\ did < disk.wires.used

\* The broken entries are those the process found so.
BrokenFrom ==
  /\ Alive => \A e \in broken : e.key < disk.names.used
  /\ pc \in {"saveName", "saveWire", "insert"} \cup NewPcs \cup SplitPcs => \A e \in broken : e.key # kid
  /\ Alive => \A e \in Entries(cache.nodes) : e \in broken <=> ~Whole(cache, e)

\* How far name and wireway of an entry that is not broken may lag behind on disk: only
\* the last one created may, and it no longer does when another is inserted.
OnDiskOr(e, E) == e \in broken \/ Whole(disk, e) \/ e \in E
Lag ==
  /\ pc \in {"idle", "allocWire"} /\ tree = "leaf" =>
       \A e \in Entries(cache.nodes) : OnDiskOr(e, {New})
  /\ pc = "allocName" => disk.wires.rec = cache.wires.rec
  /\ pc \in {"saveName", "saveWire", "insert"} =>
       \A e \in Entries(cache.nodes) : OnDiskOr(e, {})

\* A leaf on disk may hold the last entry while the stream of names still holds back its
\* name; from these steps on kid is the next name's id and that name has been written.
Renamed == {"saveName", "saveWire", "insert"} \cup NewPcs
DiskWhole ==
  Alive => \A e \in Entries(disk.nodes) :
             \/ e \in broken \/ Whole(disk, e)
             \/ pc \notin Renamed /\ e.key = kid /\ Whole(cache, e)

\* The leaf of a new tree, before the head of the file leads to it.
NewLeaf ==
  pc \in NewPcs =>
    /\ blk.n = 1 /\ blk.leaf /\ blk.keys[0] = kid /\ blk.ptrs[0] = did
    /\ mem.n = 1 /\ mem.keys[0] = arg /\ mem.objs[0] = did
    /\ leafId < cache.nodes.used
    /\ pc = "saveHead" => cache.nodes.rec[leafId] = blk

-----------------------------------------------------------------------------
(* While a leaf is split.                                                  *)

Both == Keys(blk) \cup Keys(right)

HalvesSorted ==
  /\ blk.n = Half /\ right.n = Size - Half /\ blk.leaf
  /\ Ascending(blk, cache.names.rec) /\ Ascending(right, cache.names.rec)
  /\ \A e \in Both : cache.names.rec[e.key] # NoName
  /\ \A s \in 0..(blk.n - 1), t \in 0..(right.n - 1) :
       cache.names.rec[blk.keys[s]] < cache.names.rec[right.keys[t]]

HalvesHold ==
  /\ {cache.names.rec[e.key] : e \in {e \in Both : Whole(cache, e)}} = Present \cup {arg}
  /\ \A e \in Both : /\ e.key < disk.names.used /\ e.data < disk.wires.used
                     /\ e \in broken <=> ~Whole(cache, e)
                     /\ OnDiskOr(e, {New})
  /\ Entries(disk.nodes) \subseteq Both /\ Entries(cache.nodes) \subseteq Both
  /\ Keys(blk) \ {New} \subseteq Entries(cache.nodes)
  /\ Present \ UpperHalf \subseteq NamesOn(disk)

\* A record and the block in memory, of which only the parent may differ.
SameBlock(b, c) ==
  /\ b.n = c.n /\ b.leaf = c.leaf
  /\ \A s \in 0..(b.n - 1) : b.keys[s] = c.keys[s] /\ b.ptrs[s] = c.ptrs[s]

TopBlock(b) ==
  b.n = 1 /\ ~b.leaf /\ b.keys[0] = right.keys[0] /\ b.ptrs[0] = leafId /\ b.ptrs[1] = newId

HalvesSaved ==
  /\ leafId # newId /\ leafId < cache.nodes.used /\ newId < cache.nodes.used
  /\ pc \notin {"saveLeftAgain", "saveRightAgain"} =>
       cache.nodes.root = leafId /\ cache.nodes.rec[leafId].leaf
  /\ pc # "saveLeft" => SameBlock(cache.nodes.rec[leafId], blk)
  /\ pc \notin {"saveLeft", "saveRight"} => SameBlock(cache.nodes.rec[newId], right)
  /\ pc \notin {"saveLeft", "saveRight", "parent", "wild"} =>
       top \notin {leafId, newId} /\ top < cache.nodes.used
  /\ pc \in {"saveTopHead", "saveLeftAgain", "saveRightAgain"} => TopBlock(cache.nodes.rec[top])
  /\ pc \in {"saveLeftAgain", "saveRightAgain"} => cache.nodes.root = top

Halves == pc \in SplitPcs => HalvesSorted /\ HalvesHold /\ HalvesSaved

\* The lower half, to which the process returns if the leaf's parent leads nowhere.
HalfView ==
  pc \in {"saveLeft", "saveRight", "parent"} =>
    /\ mem.n = blk.n
    /\ \A s \in 0..(mem.n - 1) :
         /\ mem.keys[s] = cache.names.rec[blk.keys[s]]
         /\ mem.objs[s] \in {NoId, blk.ptrs[s]}
    /\ pc # "saveLeft" => cache.nodes.rec[leafId] = blk
    /\ pc = "parent" => disk.nodes.root = leafId /\ disk.nodes.rec[leafId].leaf

TreeInv ==
  /\ Types /\ Streamed /\ NodesGood /\ TreeByPc /\ NoTree /\ LeafOnly /\ LeafView /\ AllNamed
  /\ KnownOn /\ FreshWire /\ FreshName /\ Named /\ Wired /\ BrokenFrom /\ Lag /\ DiskWhole
  /\ OnlyUpperHalfLost /\ NewLeaf /\ Halves /\ HalfView

-----------------------------------------------------------------------------
(* Sizes, leaves and entries.                                              *)

\* The sizes as the arithmetic below needs them.
LEMMA Sizes ==
  /\ Size \in Nat /\ Size >= 4 /\ 0 \in Slots /\ 1 \in Slots /\ Size - 1 \in Slots
  /\ Half \in Nat /\ Half >= 2 /\ Half <= Size - 2
  /\ MaxIds \in Nat \ {0} /\ 0 \in Ids /\ NoId \notin Ids /\ Ids \subseteq Nat
  /\ K \in Nat /\ NoName \notin Names /\ Names \subseteq Nat /\ Slots \subseteq Nat
  BY TreeAssumption DEF Half, Slots, Ids, NoId, NoName, Names

\* An entry of a block is what stands in one of its slots.
LEMMA EntryOfSlot ==
  ASSUME NEW b \in Block
  PROVE  /\ \A s \in 0..(b.n - 1) : /\ [key |-> b.keys[s], data |-> b.ptrs[s]] \in Keys(b)
                                    /\ b.keys[s] \in Ids /\ b.ptrs[s] \in Ids
         /\ \A e \in Keys(b) : /\ e.key \in Ids /\ e.data \in Ids
                               /\ \E s \in 0..(b.n - 1) : e.key = b.keys[s] /\ e.data = b.ptrs[s]
                               /\ e = [key |-> e.key, data |-> e.data]
  <1>1. \A s \in 0..(b.n - 1) : b.keys[s] \in Ids /\ b.ptrs[s] \in Ids
    BY Sizes DEF Block, Slots
  <1>2. QED
    BY <1>1 DEF Keys

\* No root, a leaf, two leaves.
LEMMA NoLeaves ==
  ASSUME NEW nodes, nodes.root = NoId
  PROVE  Leaves(nodes) = {} /\ Entries(nodes) = {}
  BY DEF Leaves, Entries

\* A file whose root is a leaf holds that leaf's entries.
LEMMA OneLeaf ==
  ASSUME NEW nodes, nodes.root # NoId, nodes.rec[nodes.root].leaf
  PROVE  Leaves(nodes) = {nodes.rec[nodes.root]} /\ Entries(nodes) = Keys(nodes.rec[nodes.root])
  BY DEF Leaves, Entries

\* A file whose root is the inner node of make_new_root holds those of its two leaves.
LEMMA TwoLeaves ==
  ASSUME NEW nodes, nodes.root # NoId, NEW b, b = nodes.rec[nodes.root], ~b.leaf, b.n = 1
  PROVE  /\ Leaves(nodes) = {nodes.rec[b.ptrs[0]], nodes.rec[b.ptrs[1]]}
         /\ Entries(nodes) = Keys(nodes.rec[b.ptrs[0]]) \cup Keys(nodes.rec[b.ptrs[1]])
  <1>1. 0..b.n = {0, 1}
    OBVIOUS
  <1>2. Leaves(nodes) = {nodes.rec[b.ptrs[0]], nodes.rec[b.ptrs[1]]}
    BY <1>1 DEF Leaves
  <1>3. QED
    BY <1>2 DEF Entries

\* Entries depend on the root and the records.
LEMMA SameEntries ==
  ASSUME NEW m, NEW n, m.root = n.root, m.rec = n.rec
  PROVE  Leaves(m) = Leaves(n) /\ Entries(m) = Entries(n)
  BY DEF Leaves, Entries

\* Leaves are blocks.
LEMMA LeafTyped ==
  ASSUME NEW nodes \in NodesFile
  PROVE  Leaves(nodes) \subseteq Block
  <1>1. CASE nodes.root = NoId
    BY <1>1, NoLeaves
  <1>2. CASE nodes.root # NoId
    <2> DEFINE b == nodes.rec[nodes.root]
    <2>1. b \in Block
      BY <1>2 DEF NodesFile
    <2>2. b.n \in 0..(Size - 1) /\ b.ptrs \in [Slots -> Ids]
      BY <2>1 DEF Block
    <2>3. \A s \in 0..b.n : s \in Slots
      BY <2>2, Sizes DEF Slots
    <2>4. \A s \in 0..b.n : nodes.rec[b.ptrs[s]] \in Block
      BY <2>2, <2>3 DEF NodesFile
    <2>5. QED
      BY <1>2, <2>1, <2>4 DEF Leaves
  <1>3. QED
    BY <1>1, <1>2

\* Entries lead from the id of a name to the id of a wireway.
LEMMA EntryTyped ==
  ASSUME NEW nodes \in NodesFile, NEW e \in Entries(nodes)
  PROVE  e.key \in Ids /\ e.data \in Ids /\ e = [key |-> e.key, data |-> e.data]
  <1>1. PICK b \in Leaves(nodes) : e \in Keys(b)
    BY DEF Entries
  <1>2. b \in Block
    BY LeafTyped
  <1>3. QED
    BY <1>1, <1>2, EntryOfSlot

-----------------------------------------------------------------------------
(* More names on file.                                                     *)

\* What is whole stays whole, with its name, when files are extended.
LEMMA WholeGrows ==
  ASSUME NEW f \in AllFiles, NEW g \in AllFiles, Extends(f, g), NEW e,
         e.key \in Ids, e.data \in Ids, Whole(f, e)
  PROVE  Whole(g, e) /\ g.names.rec[e.key] = f.names.rec[e.key]
  <1>1. f.names.rec[e.key] = g.names.rec[e.key] /\ f.names.rec[e.key] # NoName
    BY DEF Extends, Whole
  <1>2. f.wires.rec[e.data] = e.key /\ f.wires.rec[e.data] \in {NoId, g.wires.rec[e.data]}
    BY DEF Extends, Whole
  <1>3. e.key # NoId
    BY Sizes
  <1>4. QED
    BY <1>1, <1>2, <1>3 DEF Whole

\* With fewer names on file what is sorted stays sorted.
LEMMA SortedFewer ==
  ASSUME NEW nodes \in NodesFile, NEW rec, NEW more, SortedIn(nodes, more),
         \A i \in Ids : rec[i] \in {NoName, more[i]}
  PROVE  SortedIn(nodes, rec)
  <1>1. ASSUME NEW b \in Block, Ascending(b, more) PROVE Ascending(b, rec)
    BY <1>1, EntryOfSlot DEF Ascending
  <1>2. \A b \in Leaves(nodes) : Ascending(b, rec)
    BY <1>1, LeafTyped DEF SortedIn
  <1>3. ASSUME nodes.root # NoId, ~nodes.rec[nodes.root].leaf,
               rec[nodes.rec[nodes.root].keys[0]] # NoName
        PROVE  /\ Below(nodes.rec[nodes.rec[nodes.root].ptrs[0]], rec, rec[nodes.rec[nodes.root].keys[0]])
               /\ NotBelow(nodes.rec[nodes.rec[nodes.root].ptrs[1]], rec, rec[nodes.rec[nodes.root].keys[0]])
    <2> DEFINE b == nodes.rec[nodes.root]
               low == nodes.rec[b.ptrs[0]]
               high == nodes.rec[b.ptrs[1]]
               x == rec[b.keys[0]]
    <2>1. b \in Block
      BY <1>3 DEF NodesFile
    <2>2. b.keys[0] \in Ids /\ b.ptrs[0] \in Ids /\ b.ptrs[1] \in Ids
      BY <2>1, Sizes DEF Block
    <2>3. x = more[b.keys[0]]
      BY <1>3, <2>2
    <2>4. low \in Block /\ high \in Block
      BY <2>2 DEF NodesFile
    <2>5. Below(low, more, x) /\ NotBelow(high, more, x)
      BY <1>3, <2>3 DEF SortedIn
    <2>6. Below(low, rec, x)
      BY <2>4, <2>5, EntryOfSlot DEF Below
    <2>7. NotBelow(high, rec, x)
      BY <2>4, <2>5, EntryOfSlot DEF NotBelow
    <2>8. QED
      BY <2>6, <2>7
  <1>4. QED
    BY <1>2, <1>3 DEF SortedIn

\* Of a root that is a leaf only the names of its entries matter.
LEMMA SortedLeaf ==
  ASSUME NEW nodes \in NodesFile, nodes.root # NoId => nodes.rec[nodes.root].leaf,
         NEW rec, NEW old, SortedIn(nodes, old),
         \A e \in Entries(nodes) : rec[e.key] = old[e.key]
  PROVE  SortedIn(nodes, rec)
  <1>1. CASE nodes.root = NoId
    BY <1>1, NoLeaves DEF SortedIn
  <1>2. CASE nodes.root # NoId
    <2> DEFINE b == nodes.rec[nodes.root]
    <2>1. b \in Block /\ b.leaf
      BY <1>2 DEF NodesFile
    <2>2. Leaves(nodes) = {b} /\ Entries(nodes) = Keys(b)
      BY <1>2, <2>1, OneLeaf
    <2>3. \A s \in 0..(b.n - 1) : rec[b.keys[s]] = old[b.keys[s]]
      <3> TAKE s \in 0..(b.n - 1)
      <3>1. [key |-> b.keys[s], data |-> b.ptrs[s]] \in Entries(nodes)
        BY <2>1, <2>2, EntryOfSlot
      <3> DEFINE e == [key |-> b.keys[s], data |-> b.ptrs[s]]
      <3>2. rec[e.key] = old[e.key]
        BY <3>1
      <3>3. QED
        BY <3>2
    <2>4. Ascending(b, old)
      BY <2>2 DEF SortedIn
    <2>5. Ascending(b, rec)
      BY <2>3, <2>4 DEF Ascending
    <2>6. QED
      BY <2>1, <2>2, <2>5 DEF SortedIn
  <1>3. QED
    BY <1>1, <1>2

-----------------------------------------------------------------------------
(* Writing to the files.                                                   *)

\* A write to the zone of names: the disk has the file as it was, the process its new state.
LEMMA WriteNames ==
  ASSUME Types, NEW f \in NamesFile, Write("names", f)
  PROVE  /\ disk' \in AllFiles /\ cache' \in AllFiles
         /\ disk'.names = cache.names /\ cache'.names = f
         /\ UNCHANGED <<disk.wires, disk.nodes, cache.wires, cache.nodes>>
  BY DEF Types, AllFiles, Write

\* The same for the zone of wireways.
LEMMA WriteWires ==
  ASSUME Types, NEW f \in WiresFile, Write("wires", f)
  PROVE  /\ disk' \in AllFiles /\ cache' \in AllFiles
         /\ disk'.wires = cache.wires /\ cache'.wires = f
         /\ UNCHANGED <<disk.names, disk.nodes, cache.names, cache.nodes>>
  BY DEF Types, AllFiles, Write

\* The same for the zone of nodes.
LEMMA WriteNodes ==
  ASSUME Types, NEW f \in NodesFile, Write("nodes", f)
  PROVE  /\ disk' \in AllFiles /\ cache' \in AllFiles
         /\ disk'.nodes = cache.nodes /\ cache'.nodes = f
         /\ UNCHANGED <<disk.names, disk.wires, cache.names, cache.wires>>
  BY DEF Types, AllFiles, Write

\* A stream that only adds to its file leaves it extended.
LEMMA WriteStreams ==
  ASSUME Types, Streamed, Extends(cache, cache'), RecordsMarked(cache'), pc' # "down",
         disk' \in AllFiles, cache' \in AllFiles,
         disk'.names \in {disk.names, cache.names}, disk'.wires \in {disk.wires, cache.wires},
         disk'.nodes \in {disk.nodes, cache.nodes}
  PROVE  Streamed' /\ Extends(disk, disk')
  <1> DEFINE Older(f) == f.names.used \in Nat /\ f.wires.used \in Nat
  <1>1. Older(disk) /\ Older(cache) /\ Older(disk') /\ Older(cache')
    BY Sizes DEF Types, AllFiles, NamesFile, WiresFile
  <1>2. Extends(disk, disk')
    BY <1>1 DEF Streamed, Extends
  <1>3. Extends(disk', cache')
    BY <1>1 DEF Streamed, Extends
  <1>4. RecordsMarked(disk')
    BY DEF Streamed, RecordsMarked
  <1>5. QED
    BY <1>2, <1>3, <1>4 DEF Streamed

\* A step of an operation that leaves the nodes alone and adds to the other files
\* neither a name nor a wireway of an entry.
Adds ==
  /\ Types' /\ Streamed' /\ Extends(disk, disk') /\ Extends(cache, cache')
  /\ UNCHANGED <<disk.nodes, cache.nodes>>
  /\ \A e \in Entries(disk.nodes) \cup Entries(cache.nodes) :
       cache'.names.rec[e.key] = cache.names.rec[e.key]
  /\ \A e \in Entries(cache.nodes) : Whole(cache', e) => Whole(cache, e)
  /\ pc \in {"idle"} \cup Making /\ pc' \in {"idle", "garbage"} \cup Making
  /\ pc' \in Making => pc \in Making
  /\ pc # "allocName" => kid' = kid /\ (pc' \in Renamed => pc \in Renamed)
  /\ tree # "inner"
  /\ UNCHANGED <<arg, tree, known, last, cutoff, broken, blk, leafId>>
  /\ mem'.n = mem.n /\ mem'.keys = mem.keys
  /\ tree = "leaf" => \A s \in 0..(mem.n - 1) : mem'.objs[s] \in {mem.objs[s], blk.ptrs[s]}

\* Entries stay broken or whole.
LEMMA AddsWhole ==
  ASSUME TreeInv, Adds
  PROVE  /\ \A e \in Entries(cache.nodes) : Whole(cache', e) <=> Whole(cache, e)
         /\ \A e \in Entries(cache.nodes) \cup Entries(disk.nodes) : Whole(disk, e) => Whole(disk', e)
         /\ \A e \in Entries(cache.nodes) \cup Entries(disk.nodes) : e.key \in Ids /\ e.data \in Ids
         /\ Broken(cache') = Broken(cache) /\ NamesOn(cache') = NamesOn(cache)
  <1>1. disk \in AllFiles /\ cache \in AllFiles /\ disk' \in AllFiles /\ cache' \in AllFiles
        /\ disk.nodes \in NodesFile /\ cache.nodes \in NodesFile
    BY DEF TreeInv, Types, Adds, AllFiles
  <1>2. \A e \in Entries(cache.nodes) \cup Entries(disk.nodes) : e.key \in Ids /\ e.data \in Ids
    BY <1>1, EntryTyped
  <1>3. \A e \in Entries(cache.nodes) : Whole(cache', e) <=> Whole(cache, e)
    BY <1>1, <1>2, WholeGrows DEF Adds
  <1>4. \A e \in Entries(cache.nodes) \cup Entries(disk.nodes) : Whole(disk, e) => Whole(disk', e)
    BY <1>1, <1>2, WholeGrows DEF Adds
  <1>5. cache'.nodes = cache.nodes
    BY DEF Adds
  <1>6. Broken(cache') = Broken(cache)
    BY <1>3, <1>5 DEF Broken
  <1>7. \A e \in Entries(cache.nodes) : cache'.names.rec[e.key] = cache.names.rec[e.key]
    BY DEF Adds
  <1>8. NamesOn(cache') = NamesOn(cache)
    BY <1>5, <1>6, <1>7 DEF NamesOn
  <1>9. QED
    BY <1>2, <1>3, <1>4, <1>6, <1>8

\* A write of a new name or wireway changes nothing that the nodes lead to.
LEMMA AddsKeeps ==
  ASSUME TreeInv, Adds
  PROVE  /\ NodesGood' /\ TreeByPc' /\ NoTree' /\ LeafOnly' /\ LeafView' /\ AllNamed' /\ KnownOn'
         /\ OnlyUpperHalfLost' /\ NewLeaf' /\ Halves' /\ HalfView'
         /\ pc # "allocName" => DiskWhole'
         /\ \A e \in broken' : e.key < disk'.names.used
         /\ \A e \in Entries(cache'.nodes) : e \in broken' <=> ~Whole(cache', e)
  <1>1. disk.nodes \in NodesFile /\ cache.nodes \in NodesFile
        /\ disk.names.used \in Nat /\ disk.wires.used \in Nat
        /\ disk'.names.used \in Nat /\ disk'.wires.used \in Nat
        /\ disk.names.used <= disk'.names.used /\ disk.wires.used <= disk'.wires.used
    BY DEF TreeInv, Types, Adds, AllFiles, NamesFile, WiresFile, Extends
  <1>2. pc \notin SplitPcs /\ pc' \notin SplitPcs /\ pc \notin NewPcs /\ pc' \notin NewPcs
        /\ pc # "down" /\ pc' # "down" /\ pc # "find" /\ pc' # "find" /\ tree' = tree /\ tree # "inner"
    BY DEF Adds, SplitPcs, NewPcs, Making
  <1>3. \A e \in Entries(cache.nodes) \cup Entries(disk.nodes) : e.key \in Ids /\ e.data \in Ids
    BY AddsWhole
  <1>4. disk'.nodes = disk.nodes /\ cache'.nodes = cache.nodes
    BY DEF Adds
  <1>5. NodesGood'
    <2> SUFFICES ASSUME NEW nodes \in {disk.nodes, cache.nodes}
                 PROVE  /\ Taken(nodes, disk'.names.used, disk'.wires.used)
                        /\ SortedIn(nodes, cache'.names.rec)
      BY <1>4 DEF NodesGood
    <2>1. Taken(nodes, disk.names.used, disk.wires.used) /\ SortedIn(nodes, cache.names.rec)
      BY DEF TreeInv, NodesGood
    <2>2. Taken(nodes, disk'.names.used, disk'.wires.used)
      <3> SUFFICES ASSUME NEW e \in Entries(nodes)
                   PROVE  e.key < disk'.names.used /\ e.data < disk'.wires.used
        BY DEF Taken
      <3>1. e.key < disk.names.used /\ e.data < disk.wires.used
        BY <2>1 DEF Taken
      <3>2. e.key \in Nat /\ e.data \in Nat
        BY <1>3, Sizes
      <3>3. QED
        BY <1>1, <3>1, <3>2
    <2>3. nodes.root # NoId => nodes.rec[nodes.root].leaf
      BY <1>2 DEF TreeInv, LeafOnly, Alive
    <2>4. \A e \in Entries(nodes) : cache'.names.rec[e.key] = cache.names.rec[e.key]
      BY DEF Adds
    <2>5. SortedIn(nodes, cache'.names.rec)
      BY <1>1, <2>1, <2>3, <2>4, SortedLeaf
    <2>6. QED
      BY <2>2, <2>5
  <1>6. TreeByPc'
    BY <1>2 DEF TreeInv, TreeByPc, Present, Adds
  <1>7. NoTree'
    BY <1>2, <1>4 DEF TreeInv, NoTree, Adds, Alive
  <1>8. LeafOnly'
    BY <1>2, <1>4 DEF TreeInv, LeafOnly, Alive
  <1>9. LeafView'
    <2> SUFFICES ASSUME tree = "leaf"
                 PROVE  LeafView'
      BY <1>2 DEF LeafView
    <2>1. /\ cache.nodes.root = leafId /\ cache.nodes.rec[leafId] = blk
          /\ mem.n = blk.n
          /\ \A s \in 0..(mem.n - 1) : mem.keys[s] = cache.names.rec[blk.keys[s]]
                                       /\ mem.objs[s] \in {NoId, blk.ptrs[s]}
      BY <1>2 DEF TreeInv, LeafView, Alive
    <2>2. blk \in Block /\ leafId \in Ids /\ leafId # NoId
      BY Sizes DEF TreeInv, Types
    <2>3. Entries(cache.nodes) = Keys(blk)
      BY <1>2, <2>1, <2>2, OneLeaf DEF TreeInv, LeafOnly, Alive
    <2>4. \A s \in 0..(mem.n - 1) : cache'.names.rec[blk.keys[s]] = cache.names.rec[blk.keys[s]]
      <3> SUFFICES ASSUME NEW s \in 0..(mem.n - 1)
                   PROVE  cache'.names.rec[blk.keys[s]] = cache.names.rec[blk.keys[s]]
        OBVIOUS
      <3>1. [key |-> blk.keys[s], data |-> blk.ptrs[s]] \in Entries(cache.nodes)
        BY <2>1, <2>2, <2>3, EntryOfSlot
      <3>2. QED
        BY <3>1 DEF Adds
    <2>5. UNCHANGED <<blk, leafId>> /\ mem'.n = mem.n /\ mem'.keys = mem.keys
          /\ \A s \in 0..(mem.n - 1) : mem'.objs[s] \in {mem.objs[s], blk.ptrs[s]}
      BY DEF Adds
    <2>6. QED
      BY <1>4, <2>1, <2>4, <2>5 DEF LeafView
  <1>10. AllNamed'
    BY <1>2 DEF TreeInv, AllNamed, Adds, Making
  <1>11. KnownOn'
    BY <1>2, AddsWhole DEF TreeInv, KnownOn, Present, Alive, Adds
  <1>12. \A e \in Entries(disk.nodes) :
            e \in broken \/ Whole(disk', e) \/ (pc \notin Renamed /\ e.key = kid /\ Whole(cache', e))
    <2> SUFFICES ASSUME NEW e \in Entries(disk.nodes)
                 PROVE  e \in broken \/ Whole(disk', e)
                        \/ (pc \notin Renamed /\ e.key = kid /\ Whole(cache', e))
      OBVIOUS
    <2>1. e \in broken \/ Whole(disk, e) \/ (pc \notin Renamed /\ e.key = kid /\ Whole(cache, e))
      BY <1>2 DEF TreeInv, DiskWhole, Alive
    <2>2. Whole(cache, e) => Whole(cache', e)
      BY <1>3, WholeGrows DEF TreeInv, Adds, Types
    <2>3. Whole(disk, e) => Whole(disk', e)
      BY AddsWhole
    <2>4. QED
      BY <2>1, <2>2, <2>3
  <1>13. pc # "allocName" => DiskWhole'
    <2>1. broken' = broken
      BY DEF Adds
    <2>2. pc # "allocName" => kid' = kid /\ (pc' \in Renamed => pc \in Renamed)
      BY DEF Adds
    <2>3. QED
      BY <1>2, <1>4, <1>12, <2>1, <2>2 DEF DiskWhole
  <1>14. OnlyUpperHalfLost'
    <2>1. Splitting => pc \in SplitPcs
      BY DEF Splitting, SplitPcs
    <2>2. known \ ({last} \cup cutoff) \subseteq NamesOn(disk)
      BY <1>2, <2>1 DEF TreeInv, OnlyUpperHalfLost
    <2>3. \A e \in Entries(disk.nodes) \ Broken(disk) :
             /\ e \in Entries(disk'.nodes) \ Broken(disk')
             /\ disk'.names.rec[e.key] = disk.names.rec[e.key]
      BY <1>3, <1>4, WholeGrows DEF Broken, TreeInv, Adds, Types
    <2>4. NamesOn(disk) \subseteq NamesOn(disk')
      BY <2>3 DEF NamesOn
    <2>5. ~Splitting'
      BY <1>2 DEF Splitting, SplitPcs
    <2>6. QED
      BY <2>2, <2>4, <2>5 DEF OnlyUpperHalfLost, Adds
  <1>15. NewLeaf' /\ Halves' /\ HalfView'
    BY <1>2 DEF NewLeaf, Halves, HalfView, SplitPcs
  <1>16. \A e \in broken' : e.key < disk'.names.used
    <2>1. \A e \in broken : e.key < disk.names.used
      BY <1>2 DEF TreeInv, BrokenFrom, Alive
    <2>2. broken' = broken /\ \A e \in broken : e.key \in Nat
      BY Sizes DEF TreeInv, Types, Adds
    <2>3. QED
      BY <1>1, <2>1, <2>2
  <1>17. \A e \in Entries(cache'.nodes) : e \in broken' <=> ~Whole(cache', e)
    BY <1>2, <1>4, AddsWhole DEF TreeInv, BrokenFrom, Alive, Adds
  <1>18. QED
    BY <1>5, <1>6, <1>7, <1>8, <1>9, <1>10, <1>11, <1>13, <1>14, <1>15, <1>16, <1>17

\* The files' parts.
LEMMA FileTypes ==
  ASSUME Types
  PROVE  /\ \A f \in {disk, cache} :
              /\ f \in AllFiles /\ f.names \in NamesFile /\ f.wires \in WiresFile
              /\ f.nodes \in NodesFile
              /\ f.names.used \in 0..MaxIds /\ f.wires.used \in 0..MaxIds /\ f.nodes.used \in 0..MaxIds
              /\ f.names.rec \in [Ids -> Names \cup {NoName}] /\ f.wires.rec \in [Ids -> Ids \cup {NoId}]
              /\ f.nodes.rec \in [Ids -> Block]
         /\ kid \in Ids /\ did \in Ids /\ MaxIds \in Nat
  BY Sizes DEF Types, AllFiles, NamesFile, WiresFile, NodesFile

\* The block of a wireway (alloc_wireway_inst).
LEMMA AllocWireInv ==
  ASSUME TreeInv, AllocWire
  PROVE  TreeInv'
  <1> DEFINE f == [cache.wires EXCEPT !.used = did' + 1]
  <1>1. Types /\ Streamed
    BY DEF TreeInv
  <1>2. pc = "allocWire" /\ pc' = "allocName" /\ did' \in Ids /\ did' = cache.wires.used /\ did' < MaxIds
        /\ Write("wires", f)
        /\ UNCHANGED <<arg, tree, mem, kid, leafId, blk, newId, right, top, history>>
    BY DEF AllocWire, Take
  <1>3. f \in WiresFile /\ f.rec = cache.wires.rec /\ f.used = cache.wires.used + 1
    BY <1>1, <1>2, FileTypes DEF WiresFile
  <1>4. /\ disk' \in AllFiles /\ cache' \in AllFiles
        /\ disk'.wires = cache.wires /\ cache'.wires = f
        /\ UNCHANGED <<disk.names, disk.nodes, cache.names, cache.nodes>>
    BY <1>1, <1>2, <1>3, WriteWires
  <1>5. Types'
    BY <1>1, <1>2, <1>4 DEF Types, Making, history
  <1>6. Extends(cache, cache')
    BY <1>1, <1>3, <1>4, FileTypes DEF Extends
  <1>7. RecordsMarked(cache')
    BY <1>1, <1>3, <1>4, FileTypes, Sizes DEF Streamed, RecordsMarked
  <1>8. Streamed' /\ Extends(disk, disk')
    BY <1>1, <1>2, <1>4, <1>6, <1>7, WriteStreams
  <1>9. \A e : Whole(cache', e) <=> Whole(cache, e)
    BY <1>3, <1>4 DEF Whole
  <1>10. Adds
    BY <1>2, <1>4, <1>5, <1>6, <1>8, <1>9
    DEF Adds, Making, NewPcs, Renamed, TreeInv, TreeByPc, history
  <1>11. \A e \in Entries(disk.nodes) \cup Entries(cache.nodes) : e.data < did'
    <2> SUFFICES ASSUME NEW nodes \in {disk.nodes, cache.nodes}, NEW e \in Entries(nodes)
                 PROVE  e.data < did'
      OBVIOUS
    <2>1. e.data \in Nat
      BY <1>1, EntryTyped, FileTypes, Sizes
    <2>2. e.data < disk.wires.used
      BY DEF TreeInv, NodesGood, Taken
    <2>3. disk.wires.used <= cache.wires.used
      BY <1>1 DEF Streamed, Extends
    <2>4. QED
      BY <1>1, <1>2, <2>1, <2>2, <2>3, FileTypes
  <1>12. cache.wires.rec[did'] = NoId
    BY <1>1, <1>2, FileTypes, Sizes DEF Streamed, RecordsMarked
  <1>13. FreshWire'
    BY <1>1, <1>2, <1>3, <1>4, <1>11, <1>12, FileTypes DEF FreshWire
  <1>14. FreshName' /\ Named' /\ Wired' /\ BrokenFrom' /\ Lag'
    BY <1>2, <1>3, <1>4, <1>10, AddsKeeps DEF FreshName, Named, Wired, BrokenFrom, Lag, NewPcs, SplitPcs
  <1>15. QED
    BY <1>2, <1>5, <1>8, <1>10, <1>13, <1>14, AddsKeeps DEF TreeInv

\* The block of its name.
LEMMA AllocNameInv ==
  ASSUME TreeInv, AllocName
  PROVE  TreeInv'
  <1> DEFINE f == [cache.names EXCEPT !.used = kid' + 1]
  <1>1. Types /\ Streamed
    BY DEF TreeInv
  <1>2. pc = "allocName" /\ pc' = "saveName" /\ kid' \in Ids /\ kid' = cache.names.used /\ kid' < MaxIds
        /\ Write("names", f)
        /\ UNCHANGED <<arg, tree, mem, did, leafId, blk, newId, right, top, history>>
    BY DEF AllocName, Take
  <1>3. f \in NamesFile /\ f.rec = cache.names.rec /\ f.used = cache.names.used + 1
    BY <1>1, <1>2, FileTypes DEF NamesFile
  <1>4. /\ disk' \in AllFiles /\ cache' \in AllFiles
        /\ disk'.names = cache.names /\ cache'.names = f
        /\ UNCHANGED <<disk.wires, disk.nodes, cache.wires, cache.nodes>>
    BY <1>1, <1>2, <1>3, WriteNames
  <1>5. Types'
    BY <1>1, <1>2, <1>4 DEF Types, Making, history
  <1>6. Extends(cache, cache')
    BY <1>1, <1>3, <1>4, FileTypes DEF Extends
  <1>7. RecordsMarked(cache')
    BY <1>1, <1>3, <1>4, FileTypes, Sizes DEF Streamed, RecordsMarked
  <1>8. Streamed' /\ Extends(disk, disk')
    BY <1>1, <1>2, <1>4, <1>6, <1>7, WriteStreams
  <1>9. \A e : Whole(cache', e) <=> Whole(cache, e)
    BY <1>3, <1>4 DEF Whole
  <1>10. Adds
    BY <1>2, <1>3, <1>4, <1>5, <1>6, <1>8, <1>9
    DEF Adds, Making, NewPcs, Renamed, TreeInv, TreeByPc, history
  <1>11. \A e \in Entries(disk.nodes) \cup Entries(cache.nodes) : e.key < kid'
    <2> SUFFICES ASSUME NEW nodes \in {disk.nodes, cache.nodes}, NEW e \in Entries(nodes)
                 PROVE  e.key < kid'
      OBVIOUS
    <2>1. e.key \in Nat
      BY <1>1, EntryTyped, FileTypes, Sizes
    <2>2. e.key < disk.names.used
      BY DEF TreeInv, NodesGood, Taken
    <2>3. disk.names.used <= cache.names.used
      BY <1>1 DEF Streamed, Extends
    <2>4. QED
      BY <1>1, <1>2, <2>1, <2>2, <2>3, FileTypes
  <1>12. cache.names.rec[kid'] = NoName
    BY <1>1, <1>2, FileTypes, Sizes DEF Streamed, RecordsMarked
  <1>13. FreshName'
    BY <1>1, <1>2, <1>3, <1>4, <1>11, <1>12, FileTypes DEF FreshName
  <1>14. FreshWire' /\ Named' /\ Wired'
    BY <1>2, <1>4 DEF TreeInv, FreshWire, Named, Wired, NewPcs, SplitPcs
  <1>15. BrokenFrom'
    <2> SUFFICES ASSUME NEW e \in broken PROVE e.key # kid'
      BY <1>2, <1>10, AddsKeeps DEF BrokenFrom, history
    <2>1. e.key < disk.names.used /\ e.key \in Nat
      BY <1>1, <1>2, Sizes DEF TreeInv, BrokenFrom, Alive, Types
    <2>2. disk.names.used <= cache.names.used
      BY <1>1 DEF Streamed, Extends
    <2>3. QED
      BY <1>1, <1>2, <2>1, <2>2, FileTypes
  <1>16. Lag'
    <2> SUFFICES ASSUME NEW e \in Entries(cache.nodes), e \notin broken PROVE Whole(disk', e)
      BY <1>2, <1>4 DEF Lag, OnDiskOr, history
    <2>1. Whole(cache, e)
      BY <1>2 DEF TreeInv, BrokenFrom, Alive
    <2>2. disk.wires.rec = cache.wires.rec
      BY <1>2 DEF TreeInv, Lag
    <2>3. QED
      BY <1>4, <2>1, <2>2 DEF Whole
  <1>17. DiskWhole'
    <2> SUFFICES ASSUME NEW e \in Entries(disk.nodes), e \notin broken PROVE Whole(disk', e)
      BY <1>2, <1>4 DEF DiskWhole, history
    <2>1. Whole(disk, e) \/ Whole(cache, e)
      BY <1>2 DEF TreeInv, DiskWhole, Alive
    <2>2. CASE Whole(disk, e)
      BY <1>10, <2>2, AddsWhole
    <2>3. CASE Whole(cache, e)
      <3>1. disk.wires.rec = cache.wires.rec
        BY <1>2 DEF TreeInv, Lag
      <3>2. QED
        BY <1>4, <2>3, <3>1 DEF Whole
    <2>4. QED
      BY <2>1, <2>2, <2>3
  <1>18. QED
    BY <1>5, <1>8, <1>10, <1>13, <1>14, <1>15, <1>16, <1>17, AddsKeeps DEF TreeInv

\* The name is saved.
LEMMA SaveNameInv ==
  ASSUME TreeInv, SaveName
  PROVE  TreeInv'
  <1> DEFINE f == [cache.names EXCEPT !.rec = [@ EXCEPT ![kid] = arg]]
  <1>1. Types /\ Streamed
    BY DEF TreeInv
  <1>2. pc = "saveName" /\ pc' = "saveWire" /\ Write("names", f)
        /\ UNCHANGED <<arg, tree, mem, insertion, history>>
    BY DEF SaveName, SaveRecord
  <1>3. arg \in Names /\ kid \in Ids
    BY <1>1, <1>2 DEF TreeInv, TreeByPc, Making, Types
  <1>4. cache.names.rec[kid] = NoName /\ kid < cache.names.used
        /\ \A e \in Entries(disk.nodes) \cup Entries(cache.nodes) : e.key < kid
    BY <1>2 DEF TreeInv, FreshName
  <1>5. /\ f \in NamesFile /\ f.rec[kid] = arg /\ f.used = cache.names.used
        /\ \A i \in Ids : i # kid => f.rec[i] = cache.names.rec[i]
    BY <1>1, <1>3, FileTypes DEF NamesFile
  <1>6. /\ disk' \in AllFiles /\ cache' \in AllFiles
        /\ disk'.names = cache.names /\ cache'.names = f
        /\ UNCHANGED <<disk.wires, disk.nodes, cache.wires, cache.nodes>>
    BY <1>1, <1>2, <1>5, WriteNames
  <1>7. Types'
    BY <1>1, <1>2, <1>6 DEF Types, Making, history, insertion
  <1>8. Extends(cache, cache')
    BY <1>1, <1>4, <1>5, <1>6, FileTypes DEF Extends
  <1>9. RecordsMarked(cache')
    BY <1>1, <1>4, <1>5, <1>6 DEF Streamed, RecordsMarked
  <1>10. Streamed' /\ Extends(disk, disk')
    BY <1>1, <1>2, <1>6, <1>8, <1>9, WriteStreams
  <1>11. \A e \in Entries(disk.nodes) \cup Entries(cache.nodes) :
            cache'.names.rec[e.key] = cache.names.rec[e.key]
    <2> SUFFICES ASSUME NEW nodes \in {disk.nodes, cache.nodes}, NEW e \in Entries(nodes)
                 PROVE  cache'.names.rec[e.key] = cache.names.rec[e.key]
      OBVIOUS
    <2>1. e.key \in Ids
      BY <1>1, EntryTyped, FileTypes
    <2>2. e.key < kid
      BY <1>4
    <2>3. QED
      BY <1>3, <1>5, <1>6, <2>1, <2>2, Sizes
  <1>12. \A e \in Entries(cache.nodes) : Whole(cache', e) => Whole(cache, e)
    BY <1>6, <1>11 DEF Whole
  <1>13. Adds
    BY <1>2, <1>6, <1>7, <1>8, <1>10, <1>11, <1>12
    DEF Adds, Making, NewPcs, Renamed, TreeInv, TreeByPc, history, insertion
  <1>14. FreshWire'
    BY <1>2, <1>6 DEF TreeInv, FreshWire, insertion
  <1>15. FreshName' /\ Named' /\ Wired'
    BY <1>2, <1>4, <1>5, <1>6 DEF FreshName, Named, Wired, NewPcs, SplitPcs, insertion
  <1>16. BrokenFrom'
    BY <1>2, <1>13, AddsKeeps DEF TreeInv, BrokenFrom, history, insertion
  <1>17. Lag'
    BY <1>2, <1>6, <1>13, AddsWhole DEF TreeInv, Lag, OnDiskOr, history
  <1>18. QED
    BY <1>2, <1>7, <1>10, <1>13, <1>14, <1>15, <1>16, <1>17, AddsKeeps DEF TreeInv

\* The wireway is saved.
LEMMA SaveWireInv ==
  ASSUME TreeInv, SaveWire
  PROVE  TreeInv'
  <1> DEFINE f == [cache.wires EXCEPT !.rec = [@ EXCEPT ![did] = kid]]
  <1>1. Types /\ Streamed
    BY DEF TreeInv
  <1>2. pc = "saveWire" /\ pc' = "insert" /\ Write("wires", f)
        /\ UNCHANGED <<arg, tree, mem, insertion, history>>
    BY DEF SaveWire, SaveRecord
  <1>3. kid \in Ids /\ did \in Ids
    BY <1>1 DEF Types
  <1>4. cache.wires.rec[did] = NoId /\ did < cache.wires.used
        /\ \A e \in Entries(disk.nodes) \cup Entries(cache.nodes) : e.data < did
    BY <1>2 DEF TreeInv, FreshWire
  <1>5. /\ f \in WiresFile /\ f.rec[did] = kid /\ f.used = cache.wires.used
        /\ \A i \in Ids : i # did => f.rec[i] = cache.wires.rec[i]
    BY <1>1, <1>3, FileTypes DEF WiresFile
  <1>6. /\ disk' \in AllFiles /\ cache' \in AllFiles
        /\ disk'.wires = cache.wires /\ cache'.wires = f
        /\ UNCHANGED <<disk.names, disk.nodes, cache.names, cache.nodes>>
    BY <1>1, <1>2, <1>5, WriteWires
  <1>7. Types'
    BY <1>1, <1>2, <1>6 DEF Types, Making, history, insertion
  <1>8. Extends(cache, cache')
    BY <1>1, <1>4, <1>5, <1>6, FileTypes DEF Extends
  <1>9. RecordsMarked(cache')
    BY <1>1, <1>4, <1>5, <1>6 DEF Streamed, RecordsMarked
  <1>10. Streamed' /\ Extends(disk, disk')
    BY <1>1, <1>2, <1>6, <1>8, <1>9, WriteStreams
  <1>11. \A e \in Entries(cache.nodes) : Whole(cache', e) => Whole(cache, e)
    <2> SUFFICES ASSUME NEW e \in Entries(cache.nodes), Whole(cache', e)
                 PROVE  Whole(cache, e)
      OBVIOUS
    <2>1. e.data \in Ids
      BY <1>1, EntryTyped, FileTypes
    <2>2. e.data < did
      BY <1>4
    <2>3. cache'.wires.rec[e.data] = cache.wires.rec[e.data]
      BY <1>3, <1>5, <1>6, <2>1, <2>2, Sizes
    <2>4. QED
      BY <1>6, <2>3 DEF Whole
  <1>12. Adds
    BY <1>2, <1>6, <1>7, <1>8, <1>10, <1>11
    DEF Adds, Making, NewPcs, Renamed, TreeInv, TreeByPc, history, insertion
  <1>13. FreshWire' /\ FreshName'
    BY <1>2 DEF FreshWire, FreshName
  <1>14. Named'
    BY <1>2, <1>6 DEF TreeInv, Named, insertion
  <1>15. Wired'
    BY <1>4, <1>5, <1>6, <1>2 DEF Wired, insertion
  <1>16. BrokenFrom'
    BY <1>2, <1>12, AddsKeeps DEF TreeInv, BrokenFrom, history, insertion
  <1>17. Lag'
    BY <1>2, <1>6, <1>12, AddsWhole DEF TreeInv, Lag, OnDiskOr, history
  <1>18. QED
    BY <1>2, <1>7, <1>10, <1>12, <1>13, <1>14, <1>15, <1>16, <1>17, AddsKeeps DEF TreeInv

\* The slot of a name found.
LEMMA FoundSlot ==
  ASSUME TreeInv, NEW x, Finds, NEW s \in At(x)
  PROVE  tree = "leaf" /\ s \in 0..(mem.n - 1) /\ s \in Slots /\ mem.n \in 0..(Size - 1)
         /\ blk.ptrs[s] \in Ids /\ mem.objs \in [Slots -> Ids \cup {NoId}]
  <1>1. tree = "leaf" /\ s \in 0..(mem.n - 1)
    BY DEF At
  <1>2. mem.n \in 0..(Size - 1) /\ blk.ptrs \in [Slots -> Ids] /\ mem.objs \in [Slots -> Ids \cup {NoId}]
    BY DEF TreeInv, Types, Block, Leaf
  <1>3. QED
    BY <1>1, <1>2, Sizes DEF Slots

\* find of a name in the tree whose wireway is not in memory loads it.
LEMMA LoadInv ==
  ASSUME TreeInv, NEW x \in Names, Load(x)
  PROVE  TreeInv'
  <1>1. Types /\ Streamed
    BY DEF TreeInv
  <1>2. PICK s \in At(x) :
          /\ mem' = [mem EXCEPT !.objs[s] = blk.ptrs[s]]
          /\ pc' = IF cache.wires.rec[blk.ptrs[s]] = NoId THEN "garbage" ELSE "idle"
    BY DEF Load
  <1>3. /\ pc = "idle" /\ tree # "inner" /\ pc' \in {"idle", "garbage"}
        /\ disk' = [disk EXCEPT !.wires = cache.wires, !.names = cache.names]
        /\ UNCHANGED <<cache, arg, tree, insertion, history>>
    BY <1>2 DEF Load, Finds
  <1>4. s \in 0..(mem.n - 1) /\ s \in Slots /\ blk.ptrs[s] \in Ids
        /\ mem.objs \in [Slots -> Ids \cup {NoId}]
    BY FoundSlot DEF Load
  <1>5. /\ disk' \in AllFiles /\ disk'.names = cache.names /\ disk'.wires = cache.wires
        /\ disk'.nodes = disk.nodes
    BY <1>1, <1>3 DEF Types, AllFiles
  <1>6. /\ mem'.n = mem.n /\ mem'.keys = mem.keys
        /\ mem'.objs = [mem.objs EXCEPT ![s] = blk.ptrs[s]]
        /\ mem' \in Leaf
    BY <1>1, <1>2, <1>4 DEF Types, Leaf
  <1>7. \A t \in 0..(mem.n - 1) : mem'.objs[t] \in {mem.objs[t], blk.ptrs[t]}
    <2>1. mem.n \in 0..(Size - 1)
      BY <1>1 DEF Types, Leaf
    <2>2. QED
      BY <1>4, <1>6, <2>1, Sizes DEF Slots
  <1>8. Types'
    BY <1>1, <1>3, <1>5, <1>6 DEF Types, history, insertion
  <1>9. Extends(cache, cache') /\ RecordsMarked(cache') /\ cache' \in AllFiles
    BY <1>1, <1>3, FileTypes DEF Extends, Streamed
  <1>10. Streamed' /\ Extends(disk, disk')
    BY <1>1, <1>3, <1>5, <1>9, WriteStreams
  <1>11. Adds
    BY <1>3, <1>5, <1>6, <1>7, <1>8, <1>9, <1>10 DEF Adds, Making, NewPcs, Renamed, history, insertion
  <1>12. FreshWire' /\ FreshName' /\ Named' /\ Wired'
    BY <1>3 DEF FreshWire, FreshName, Named, Wired, NewPcs, SplitPcs
  <1>13. BrokenFrom'
    BY <1>3, <1>11, AddsKeeps DEF BrokenFrom, NewPcs, SplitPcs
  <1>14. Lag'
    BY <1>3, <1>11, AddsWhole DEF TreeInv, Lag, OnDiskOr, New, history, insertion
  <1>15. QED
    BY <1>3, <1>8, <1>10, <1>11, <1>12, <1>13, <1>14, AddsKeeps DEF TreeInv

\* attach_wireway of a wireway in memory saves it as it is.
LEMMA AttachInv ==
  ASSUME TreeInv, NEW x \in Names, Attach(x)
  PROVE  TreeInv'
  <1>1. Types /\ Streamed
    BY DEF TreeInv
  <1>2. PICK s \in At(x) : mem.objs[s] # NoId
                           /\ SaveRecord("wires", mem.objs[s], cache.wires.rec[mem.objs[s]])
    BY DEF Attach
  <1> DEFINE f == [cache.wires EXCEPT !.rec = [@ EXCEPT ![mem.objs[s]] = cache.wires.rec[mem.objs[s]]]]
  <1>3. /\ pc = "idle" /\ tree # "inner" /\ Write("wires", f)
        /\ UNCHANGED <<pc, arg, tree, mem, insertion, history>>
    BY <1>2 DEF Attach, Finds, SaveRecord
  <1>4. f = cache.wires /\ f \in WiresFile
    BY <1>1, FileTypes DEF WiresFile
  <1>5. /\ disk' \in AllFiles /\ cache' \in AllFiles
        /\ disk'.wires = cache.wires /\ cache'.wires = cache.wires
        /\ UNCHANGED <<disk.names, disk.nodes, cache.names, cache.nodes>>
    BY <1>1, <1>3, <1>4, WriteWires
  <1>6. Types'
    BY <1>1, <1>3, <1>5 DEF Types, history, insertion
  <1>7. Extends(cache, cache') /\ RecordsMarked(cache')
    BY <1>1, <1>5, FileTypes DEF Extends, Streamed, RecordsMarked
  <1>8. Streamed' /\ Extends(disk, disk')
    BY <1>1, <1>3, <1>5, <1>7, WriteStreams
  <1>9. \A e : Whole(cache', e) <=> Whole(cache, e)
    BY <1>5 DEF Whole
  <1>10. Adds
    BY <1>3, <1>5, <1>6, <1>7, <1>8, <1>9 DEF Adds, Making, NewPcs, Renamed, history, insertion
  <1>11. FreshWire' /\ FreshName' /\ Named' /\ Wired'
    BY <1>3 DEF FreshWire, FreshName, Named, Wired, NewPcs, SplitPcs
  <1>12. BrokenFrom'
    BY <1>3, <1>10, AddsKeeps DEF BrokenFrom, NewPcs, SplitPcs
  <1>13. Lag'
    BY <1>3, <1>5, <1>10, AddsWhole DEF TreeInv, Lag, OnDiskOr, New, history, insertion
  <1>14. QED
    BY <1>3, <1>6, <1>8, <1>10, <1>11, <1>12, <1>13, AddsKeeps DEF TreeInv

\* A leaf in memory is the tree on file.
LEMMA LeafEntries ==
  ASSUME TreeInv, Alive, tree = "leaf", pc \notin SplitPcs
  PROVE  /\ blk \in Block /\ blk.leaf /\ mem.n = blk.n
         /\ cache.nodes.root = leafId /\ leafId # NoId /\ cache.nodes.rec[leafId] = blk
         /\ Leaves(cache.nodes) = {blk} /\ Entries(cache.nodes) = Keys(blk)
         /\ \A s \in 0..(blk.n - 1) : mem.keys[s] = cache.names.rec[blk.keys[s]]
  <1>1. /\ cache.nodes.root = leafId /\ cache.nodes.rec[leafId] = blk /\ mem.n = blk.n
        /\ \A s \in 0..(mem.n - 1) : mem.keys[s] = cache.names.rec[blk.keys[s]]
    BY DEF TreeInv, LeafView
  <1>2. blk \in Block /\ leafId # NoId
    BY Sizes DEF TreeInv, Types
  <1>3. blk.leaf
    BY <1>1, <1>2 DEF TreeInv, LeafOnly
  <1>4. QED
    BY <1>1, <1>2, <1>3, OneLeaf

\* create_wireway, up to its first write.
LEMMA CreateInv ==
  ASSUME TreeInv, NEW x \in Names, Create(x)
  PROVE  TreeInv'
  <1>1. /\ pc = "idle" /\ tree \in {"none", "leaf"} /\ At(x) = {}
        /\ pc' = "allocWire" /\ arg' = x
        /\ UNCHANGED <<files, tree, mem, insertion, history>>
    BY DEF Create, Finds, TreeInv, Types
  <1>2. UNCHANGED <<disk, cache, tree, mem, kid, did, leafId, blk, newId, right, top,
                    life, known, last, cutoff, broken>>
    BY <1>1 DEF files, insertion, history
  <1>3. x \notin Present
    <2>1. CASE tree = "none"
      BY <1>1, <2>1 DEF TreeInv, NoTree, Present, Alive
    <2>2. CASE tree = "leaf"
      <3> SUFFICES ASSUME x \in Present PROVE FALSE
        OBVIOUS
      <3>1. NamesOn(cache) = Present
        BY <1>1 DEF TreeInv, KnownOn, Alive, SplitPcs
      <3>2. PICK e \in Entries(cache.nodes) : cache.names.rec[e.key] = x
        BY <3>1 DEF NamesOn
      <3>3. PICK s \in 0..(blk.n - 1) : e.key = blk.keys[s]
        BY <1>1, <2>2, LeafEntries, EntryOfSlot DEF Alive, SplitPcs
      <3>4. s \in At(x)
        BY <1>1, <2>2, <3>2, <3>3, LeafEntries DEF At, Alive, SplitPcs
      <3>5. QED
        BY <1>1, <3>4
    <2>3. QED
      BY <1>1, <2>1, <2>2
  <1>4. Types'
    BY <1>1, <1>2 DEF TreeInv, Types, Making
  <1>5. Streamed' /\ NodesGood'
    BY <1>1, <1>2 DEF TreeInv, Streamed, NodesGood
  <1>6. TreeByPc'
    BY <1>1, <1>2, <1>3 DEF TreeByPc, Present, Making, NewPcs, SplitPcs
  <1>7. NoTree' /\ LeafOnly' /\ LeafView'
    BY <1>1, <1>2 DEF TreeInv, NoTree, LeafOnly, LeafView, Alive, SplitPcs
  <1>8. AllNamed'
    <2>1. tree = "leaf" => \A s \in 0..(mem.n - 1) : mem.keys[s] # x
      BY <1>1 DEF At
    <2>2. QED
      BY <1>1, <1>2, <2>1 DEF TreeInv, AllNamed
  <1>9. KnownOn'
    BY <1>1, <1>2 DEF TreeInv, KnownOn, Present, Alive, SplitPcs
  <1>10. FreshWire' /\ FreshName' /\ Named' /\ Wired'
    BY <1>1 DEF FreshWire, FreshName, Named, Wired, NewPcs, SplitPcs
  <1>11. BrokenFrom'
    BY <1>1, <1>2 DEF TreeInv, BrokenFrom, Alive, NewPcs, SplitPcs
  <1>12. Lag' /\ DiskWhole'
    BY <1>1, <1>2 DEF TreeInv, Lag, DiskWhole, OnDiskOr, New, Renamed, NewPcs, Alive
  <1>13. OnlyUpperHalfLost'
    BY <1>1, <1>2 DEF TreeInv, OnlyUpperHalfLost, Splitting
  <1>14. NewLeaf' /\ Halves' /\ HalfView'
    BY <1>1 DEF NewLeaf, Halves, HalfView, NewPcs, SplitPcs
  <1>15. QED
    BY <1>4, <1>5, <1>6, <1>7, <1>8, <1>9, <1>10, <1>11, <1>12, <1>13, <1>14 DEF TreeInv

\* A search that does not return.
LEMMA LostInv ==
  ASSUME TreeInv, NEW x \in Names, AttachNone(x) \/ FindLoops(x)
  PROVE  TreeInv'
  <1>1. /\ pc = "idle" /\ pc' \in {"null", "find"} /\ arg' \in Names \cup {NoName}
        /\ pc' = "find" => tree = "inner"
        /\ UNCHANGED <<disk, cache, tree, mem, kid, did, leafId, blk, newId, right, top,
                       life, known, last, cutoff, broken>>
    BY DEF AttachNone, FindLoops, Finds, files, insertion, history, TreeInv, Types
  <1>2. Types'
    BY <1>1 DEF TreeInv, Types
  <1>3. Streamed' /\ NodesGood'
    BY <1>1 DEF TreeInv, Streamed, NodesGood
  <1>4. TreeByPc' /\ AllNamed'
    BY <1>1 DEF TreeByPc, AllNamed, Making, NewPcs, SplitPcs
  <1>5. NoTree' /\ LeafOnly' /\ LeafView' /\ KnownOn'
    BY <1>1 DEF TreeInv, NoTree, LeafOnly, LeafView, KnownOn, Present, Alive, SplitPcs
  <1>6. FreshWire' /\ FreshName' /\ Named' /\ Wired'
    BY <1>1 DEF FreshWire, FreshName, Named, Wired, NewPcs, SplitPcs
  <1>7. BrokenFrom'
    BY <1>1 DEF TreeInv, BrokenFrom, Alive, NewPcs, SplitPcs
  <1>8. Lag' /\ DiskWhole'
    BY <1>1 DEF TreeInv, Lag, DiskWhole, OnDiskOr, New, Renamed, NewPcs, Alive
  <1>9. OnlyUpperHalfLost'
    BY <1>1 DEF TreeInv, OnlyUpperHalfLost, Splitting
  <1>10. NewLeaf' /\ Halves' /\ HalfView'
    BY <1>1 DEF NewLeaf, Halves, HalfView, NewPcs, SplitPcs
  <1>11. QED
    BY <1>2, <1>3, <1>4, <1>5, <1>6, <1>7, <1>8, <1>9, <1>10 DEF TreeInv

\* Nothing happens.
LEMMA StutterInv ==
  ASSUME TreeInv, UNCHANGED vars
  PROVE  TreeInv'
  <1>1. UNCHANGED <<disk, cache, pc, arg, tree, mem, kid, did, leafId, blk, newId, right, top,
                    life, known, last, cutoff, broken>>
    BY DEF vars, files, insertion, history
  <1>2. Types' /\ Streamed' /\ NodesGood' /\ TreeByPc' /\ NoTree' /\ LeafOnly'
    BY <1>1 DEF TreeInv, Types, Streamed, NodesGood, TreeByPc, Present, NoTree, LeafOnly, Alive
  <1>3. LeafView' /\ AllNamed' /\ KnownOn' /\ FreshWire' /\ FreshName' /\ Named' /\ Wired'
    BY <1>1 DEF TreeInv, LeafView, AllNamed, KnownOn, Present, FreshWire, FreshName, Named, Wired,
                Alive
  <1>4. BrokenFrom' /\ Lag' /\ DiskWhole' /\ OnlyUpperHalfLost' /\ NewLeaf'
    BY <1>1 DEF TreeInv, BrokenFrom, Lag, DiskWhole, OnDiskOr, New, OnlyUpperHalfLost, Splitting,
                UpperHalf, NewLeaf, Alive
  <1>5. Halves' /\ HalfView'
    BY <1>1 DEF TreeInv, Halves, HalvesSorted, HalvesHold, HalvesSaved, HalfView, Both, OnDiskOr,
                New, TopBlock, Present, UpperHalf
  <1>6. QED
    BY <1>2, <1>3, <1>4, <1>5 DEF TreeInv

\* The first process starts on empty files.
LEMMA InitInv ==
  ASSUME Init
  PROVE  TreeInv
  <1>1. NoBlock \in Block /\ NoLeaf \in Leaf
    BY Sizes DEF NoBlock, NoLeaf, Zeros, Block, Leaf, NoName
  <1>2. NoFiles \in AllFiles
    BY Sizes, <1>1 DEF NoFiles, AllFiles, NamesFile, WiresFile, NodesFile
  <1>3. Types
    BY Sizes, <1>1, <1>2 DEF Init, Types
  <1>4. /\ disk = NoFiles /\ cache = NoFiles /\ pc = "down" /\ tree = "none"
        /\ NoFiles.nodes.root = NoId /\ NoFiles.nodes.used = 0
        /\ NoFiles.names.used = 0 /\ NoFiles.wires.used = 0
        /\ \A i \in Ids : NoFiles.names.rec[i] = NoName /\ NoFiles.wires.rec[i] = NoId
    BY DEF Init, NoFiles
  <1>5. Streamed
    BY <1>4 DEF Streamed, Extends, RecordsMarked, NoId
  <1>6. NodesGood
    BY <1>4, NoLeaves DEF NodesGood, Taken, SortedIn
  <1>7. QED
    BY <1>3, <1>4, <1>5, <1>6
    DEF TreeInv, TreeByPc, NoTree, LeafOnly, LeafView, AllNamed, KnownOn, FreshWire, FreshName,
        Named, Wired, BrokenFrom, Lag, DiskWhole, OnlyUpperHalfLost, NewLeaf, Halves, HalfView,
        Alive, Making, NewPcs, SplitPcs

-----------------------------------------------------------------------------
(* The ends and the beginnings of processes.                               *)

\* A process ends between any two writes: any mixture of the streams' last writes remains.
LEMMA CrashInv ==
  ASSUME TreeInv, Crash
  PROVE  TreeInv'
  <1>1. Types /\ Streamed /\ NodesGood
    BY DEF TreeInv
  <1>2. PICK flushed \in SUBSET Streams :
          disk' = [z \in Streams |-> IF z \in flushed THEN cache[z] ELSE disk[z]]
    BY DEF Crash
  <1>3. /\ pc' = "down" /\ cache' = disk' /\ arg' = NoName
        /\ kid' = 0 /\ did' = 0 /\ leafId' = 0 /\ newId' = 0 /\ top' = 0
        /\ tree' = "none" /\ mem' = NoLeaf /\ blk' = NoBlock /\ right' = NoBlock
        /\ UNCHANGED history
    BY DEF Crash
  <1>4. /\ disk'.names \in {disk.names, cache.names} /\ disk'.wires \in {disk.wires, cache.wires}
        /\ disk'.nodes \in {disk.nodes, cache.nodes} /\ disk' \in AllFiles
    BY <1>1, <1>2 DEF Streams, Types, AllFiles
  <1>5. NoBlock \in Block /\ NoLeaf \in Leaf
    BY Sizes DEF NoBlock, NoLeaf, Zeros, Block, Leaf, NoName
  <1>6. Types'
    BY <1>1, <1>3, <1>4, <1>5, Sizes DEF Types, history
  <1>7. Extends(disk', disk')
    BY <1>4 DEF Extends, AllFiles, NamesFile, WiresFile
  <1>8. RecordsMarked(disk')
    BY <1>1, <1>4 DEF Streamed, RecordsMarked
  <1>9. Streamed'
    BY <1>3, <1>7, <1>8 DEF Streamed
  <1>10. NodesGood'
    <2> DEFINE nodes == disk'.nodes
    <2>1. Taken(nodes, disk.names.used, disk.wires.used) /\ SortedIn(nodes, cache.names.rec)
      BY <1>1, <1>4 DEF NodesGood
    <2>2. nodes \in NodesFile
      BY <1>4 DEF AllFiles
    <2>3. SortedIn(nodes, disk'.names.rec)
      <3>1. \A i \in Ids : disk'.names.rec[i] \in {NoName, cache.names.rec[i]}
        BY <1>1, <1>4 DEF Streamed, Extends
      <3>2. QED
        BY <2>1, <2>2, <3>1, SortedFewer
    <2>4. Taken(nodes, disk'.names.used, disk'.wires.used)
      <3> SUFFICES ASSUME NEW e \in Entries(nodes)
                   PROVE  e.key < disk'.names.used /\ e.data < disk'.wires.used
        BY DEF Taken
      <3>1. e.key \in Nat /\ e.data \in Nat
        BY <2>2, EntryTyped, Sizes
      <3>2. e.key < disk.names.used /\ e.data < disk.wires.used
        BY <2>1 DEF Taken
      <3>3. disk.names.used <= disk'.names.used /\ disk.wires.used <= disk'.wires.used
        BY <1>1, <1>4, FileTypes DEF Streamed, Extends
      <3>4. disk'.names.used \in Nat /\ disk'.wires.used \in Nat
        BY <1>4 DEF AllFiles, NamesFile, WiresFile
      <3>5. QED
        BY <1>1, <3>1, <3>2, <3>3, <3>4, FileTypes
    <2>5. QED
      BY <1>3, <2>3, <2>4 DEF NodesGood
  <1>11. QED
    BY <1>3, <1>6, <1>9, <1>10
    DEF TreeInv, TreeByPc, NoTree, LeafOnly, LeafView, AllNamed, KnownOn, FreshWire, FreshName,
        Named, Wired, BrokenFrom, Lag, DiskWhole, OnlyUpperHalfLost, NewLeaf, Halves, HalfView,
        Alive, Making, NewPcs, SplitPcs

\* What a process that starts finds is what it knows.
LEMMA StartInv ==
  ASSUME TreeInv, Start
  PROVE  TreeInv'
  <1>1. Types /\ Streamed /\ NodesGood
    BY DEF TreeInv
  <1>2. /\ pc = "down" /\ UNCHANGED <<disk, cache, arg, kid, did, newId, right, top>>
        /\ known' = NamesOn(cache) /\ last' = NoName /\ cutoff' = {} /\ broken' = Broken(cache)
        /\ RestoreNone \/ RestoreLeaf \/ RestoreInner
    BY DEF Start, files
  <1>3. cache = disk
    BY <1>1, <1>2 DEF Streamed
  <1> DEFINE nodes == cache.nodes
  <1>4. nodes \in NodesFile /\ cache.names.rec \in [Ids -> Names \cup {NoName}] /\ Ids \subseteq Nat
        /\ \A e \in Entries(nodes) : e.key \in Ids /\ e.data \in Ids
                                     /\ e = [key |-> e.key, data |-> e.data]
    BY <1>1, FileTypes, EntryTyped, Sizes
  <1>5. known' \subseteq Names
    <2>1. \A e \in Entries(nodes) \ Broken(cache) :
             cache.names.rec[e.key] \in Names
      BY <1>4 DEF Broken, Whole
    <2>2. QED
      BY <1>2, <2>1 DEF NamesOn
  <1>6. broken' \subseteq [key : Ids, data : Ids]
    BY <1>2, <1>4 DEF Broken
  <1>7. \A e \in Entries(nodes) : e \in broken' <=> ~Whole(cache, e)
    BY <1>2 DEF Broken
  <1>8. \A e \in broken' : e.key < disk.names.used
    BY <1>1, <1>2, <1>3 DEF Broken, NodesGood, Taken
  <1>9. pc' \in {"idle", "garbage", "null"}
    BY <1>2 DEF RestoreNone, RestoreLeaf, RestoreInner, KeysRead
  <1>10. Streamed'
    BY <1>1, <1>2, <1>9 DEF Streamed
  <1>11. NodesGood'
    BY <1>1, <1>2 DEF NodesGood
  <1>12. KnownOn'
    BY <1>2 DEF KnownOn, Present
  <1>13. TreeByPc' /\ FreshWire' /\ FreshName' /\ Named' /\ Wired' /\ NewLeaf' /\ Halves' /\ HalfView'
    BY <1>9 DEF TreeByPc, FreshWire, FreshName, Named, Wired, NewLeaf, Halves, HalfView, Making,
                NewPcs, SplitPcs
  <1>14. BrokenFrom'
    BY <1>2, <1>7, <1>8, <1>9 DEF BrokenFrom, NewPcs, SplitPcs
  <1>15. Lag' /\ DiskWhole'
    BY <1>2, <1>3, <1>7, <1>9 DEF Lag, DiskWhole, OnDiskOr
  <1>16. OnlyUpperHalfLost'
    BY <1>2, <1>3 DEF OnlyUpperHalfLost
  <1>17. Types' /\ NoTree' /\ LeafOnly' /\ LeafView' /\ AllNamed'
    <2>1. CASE RestoreNone
      <3>1. nodes.root = NoId /\ tree' = "none" /\ pc' = "idle" /\ UNCHANGED <<mem, leafId, blk>>
        BY <2>1 DEF RestoreNone
      <3>2. known' = {}
        BY <1>2, <3>1, NoLeaves DEF NamesOn
      <3>3. Types'
        BY <1>1, <1>2, <1>5, <1>6, <3>1 DEF Types
      <3>4. QED
        BY <1>2, <1>3, <3>1, <3>2, <3>3 DEF NoTree, LeafOnly, LeafView, AllNamed
    <2>2. CASE RestoreLeaf
      <3>1. /\ nodes.root # NoId /\ Restored.leaf
            /\ tree' = "leaf" /\ leafId' = nodes.root /\ blk' = Restored /\ pc' \in KeysRead
        BY <2>2 DEF RestoreLeaf
      <3>2. nodes.root \in Ids /\ Restored \in Block
        BY <1>4, <3>1 DEF NodesFile, Restored
      <3>3. Restored.n \in 0..(Size - 1) /\ \A s \in 0..(Restored.n - 1) : s \in Slots
            /\ Restored.keys[s] \in Ids
        BY <3>2, Sizes DEF Block, Slots
      <3> DEFINE keys == [s \in Slots |-> IF s < Restored.n
                                          THEN cache.names.rec[Restored.keys[s]] ELSE NoName]
      <3>4. keys \in [Slots -> Names \cup {NoName}]
        <4> SUFFICES ASSUME NEW s \in Slots PROVE keys[s] \in Names \cup {NoName}
          OBVIOUS
        <4>1. Restored.keys[s] \in Ids
          BY <3>2 DEF Block
        <4>2. QED
          BY <1>4, <4>1
      <3>5. /\ mem'.n = Restored.n /\ mem'.keys = keys /\ mem'.objs = [s \in Slots |-> NoId]
            /\ mem' \in Leaf
        <4>1. PICK bytes \in {"null", "wild"} :
                mem' = [NoLeaf EXCEPT !.n = Restored.n, !.parent = bytes, !.keys = keys]
          BY <2>2 DEF RestoreLeaf
        <4>2. mem' = [n |-> Restored.n, keys |-> keys, objs |-> [s \in Slots |-> NoId],
                      parent |-> bytes]
          BY <4>1 DEF NoLeaf
        <4> HIDE DEF keys
        <4>3. QED
          BY <3>3, <3>4, <4>2 DEF Leaf
      <3>6. Types'
        BY <1>1, <1>2, <1>5, <1>6, <1>9, <3>1, <3>2, <3>5 DEF Types
      <3>7. \A s \in 0..(mem'.n - 1) : /\ mem'.keys[s] = cache.names.rec[Restored.keys[s]]
                                       /\ mem'.objs[s] = NoId
        BY <3>3, <3>5
      <3>8. LeafView'
        BY <1>2, <3>1, <3>5, <3>7 DEF LeafView, Restored
      <3>9. AllNamed'
        <4>1. pc' = "idle" => \A s \in 0..(Restored.n - 1) : cache.names.rec[Restored.keys[s]] # NoName
          BY <3>1 DEF KeysRead
        <4>2. QED
          BY <1>9, <3>5, <3>7, <4>1 DEF AllNamed, Making
      <3>10. NoTree' /\ LeafOnly'
        BY <1>2, <1>3, <3>1 DEF NoTree, LeafOnly, Restored
      <3>11. QED
        BY <3>6, <3>8, <3>9, <3>10
    <2>3. CASE RestoreInner
      <3>1. tree' = "inner" /\ pc' = "null" /\ UNCHANGED <<mem, leafId, blk>>
        BY <2>3 DEF RestoreInner
      <3>2. Types'
        BY <1>1, <1>2, <1>5, <1>6, <3>1 DEF Types
      <3>3. QED
        BY <3>1, <3>2 DEF NoTree, LeafOnly, LeafView, AllNamed
    <2>4. QED
      BY <1>2, <2>1, <2>2, <2>3
  <1>18. QED
    BY <1>10, <1>11, <1>12, <1>13, <1>14, <1>15, <1>16, <1>17 DEF TreeInv

-----------------------------------------------------------------------------
(* The first leaf.                                                         *)

\* A step that writes a leaf to which the head of the file does not lead yet.
LEMMA NewTreeKeeps ==
  ASSUME TreeInv, pc \in {"insert", "saveRoot"}, pc' \in NewPcs, tree = "none",
         Types', Streamed',
         cache'.nodes.root = cache.nodes.root, disk'.nodes = cache.nodes,
         UNCHANGED <<disk.names, disk.wires, cache.names, cache.wires,
                     arg, tree, kid, did, history>>
  PROVE  /\ NodesGood' /\ TreeByPc' /\ NoTree' /\ LeafOnly' /\ LeafView' /\ AllNamed' /\ KnownOn'
         /\ FreshWire' /\ FreshName' /\ Named' /\ Wired' /\ BrokenFrom' /\ Lag' /\ DiskWhole'
         /\ OnlyUpperHalfLost' /\ Halves' /\ HalfView'
  <1>1. /\ pc # "down" /\ pc' # "down" /\ tree' = "none"
        /\ UNCHANGED <<arg, kid, did, known, last, cutoff, broken>>
    BY DEF NewPcs, history
  <1>2. cache.nodes.root = NoId /\ disk.nodes.root = NoId /\ known = {}
    BY <1>1 DEF TreeInv, NoTree, Alive
  <1>3. /\ cache'.nodes.root = NoId /\ disk'.nodes.root = NoId
        /\ Entries(cache'.nodes) = {} /\ Entries(disk'.nodes) = {}
        /\ Leaves(cache'.nodes) = {} /\ Leaves(disk'.nodes) = {}
    BY <1>2, NoLeaves
  <1>4. NodesGood'
    BY <1>3 DEF NodesGood, Taken, SortedIn
  <1>5. TreeByPc'
    BY <1>1 DEF TreeInv, TreeByPc, Present, Making, NewPcs, SplitPcs
  <1>6. NoTree' /\ LeafOnly' /\ LeafView' /\ AllNamed'
    BY <1>1, <1>2, <1>3 DEF NoTree, LeafOnly, LeafView, AllNamed
  <1>7. KnownOn'
    BY <1>1, <1>2, <1>3 DEF KnownOn, Present, NamesOn
  <1>8. FreshWire' /\ FreshName' /\ Named' /\ Wired'
    BY <1>1 DEF TreeInv, FreshWire, FreshName, Named, Wired, NewPcs, SplitPcs
  <1>9. BrokenFrom'
    BY <1>1, <1>3 DEF TreeInv, BrokenFrom, Alive, NewPcs
  <1>10. Lag' /\ DiskWhole'
    BY <1>1, <1>3 DEF Lag, DiskWhole, NewPcs
  <1>11. OnlyUpperHalfLost' /\ Halves' /\ HalfView'
    BY <1>1, <1>2 DEF OnlyUpperHalfLost, Halves, HalfView, NewPcs, SplitPcs
  <1>12. QED
    BY <1>4, <1>5, <1>6, <1>7, <1>8, <1>9, <1>10, <1>11

\* make_new_tree takes a block for the first leaf.
LEMMA NewTreeInv ==
  ASSUME TreeInv, NewTree
  PROVE  TreeInv'
  <1> DEFINE f == [cache.nodes EXCEPT !.used = leafId' + 1]
  <1>1. Types /\ Streamed
    BY DEF TreeInv
  <1>2. /\ pc = "insert" /\ tree = "none" /\ pc' = "saveRoot"
        /\ leafId' \in Ids /\ leafId' = cache.nodes.used /\ leafId' < MaxIds /\ Write("nodes", f)
        /\ mem' = [NoLeaf EXCEPT !.n = 1, !.keys[0] = arg, !.objs[0] = did]
        /\ blk' = [NoBlock EXCEPT !.n = 1, !.leaf = TRUE, !.keys[0] = kid, !.ptrs[0] = did]
        /\ UNCHANGED <<arg, tree, kid, did, newId, right, top, history>>
    BY DEF NewTree, Take
  <1>3. f \in NodesFile /\ f.rec = cache.nodes.rec /\ f.root = cache.nodes.root
        /\ f.used = cache.nodes.used + 1
    BY <1>1, <1>2, FileTypes DEF NodesFile
  <1>4. /\ disk' \in AllFiles /\ cache' \in AllFiles
        /\ disk'.nodes = cache.nodes /\ cache'.nodes = f
        /\ UNCHANGED <<disk.names, disk.wires, cache.names, cache.wires>>
    BY <1>1, <1>2, <1>3, WriteNodes
  <1>5. /\ blk'.n = 1 /\ blk'.leaf /\ blk'.keys[0] = kid /\ blk'.ptrs[0] = did /\ blk' \in Block
    <2>1. Zeros \in [Slots -> Ids] /\ kid \in Ids /\ did \in Ids
      BY <1>1, Sizes DEF Zeros, Types
    <2>2. /\ [Zeros EXCEPT ![0] = kid] \in [Slots -> Ids] /\ [Zeros EXCEPT ![0] = kid][0] = kid
          /\ [Zeros EXCEPT ![0] = did] \in [Slots -> Ids] /\ [Zeros EXCEPT ![0] = did][0] = did
      BY <2>1, Sizes
    <2>3. blk' = [n |-> 1, leaf |-> TRUE, keys |-> [Zeros EXCEPT ![0] = kid],
                  ptrs |-> [Zeros EXCEPT ![0] = did]]
      BY <1>2 DEF NoBlock
    <2>4. QED
      BY <2>2, <2>3, Sizes DEF Block
  <1>6. /\ mem'.n = 1 /\ mem'.keys[0] = arg /\ mem'.objs[0] = did
        /\ mem' \in Leaf
    <2>1. /\ Zeros \in [Slots -> Names \cup {NoName}] /\ arg \in Names \cup {NoName}
          /\ [s \in Slots |-> NoId] \in [Slots -> Ids \cup {NoId}] /\ did \in Ids
      BY <1>1, Sizes DEF Zeros, Types, NoName
    <2>2. /\ [Zeros EXCEPT ![0] = arg] \in [Slots -> Names \cup {NoName}]
          /\ [Zeros EXCEPT ![0] = arg][0] = arg
          /\ [[s \in Slots |-> NoId] EXCEPT ![0] = did] \in [Slots -> Ids \cup {NoId}]
          /\ [[s \in Slots |-> NoId] EXCEPT ![0] = did][0] = did
      BY <2>1, Sizes
    <2>3. mem' = [n |-> 1, keys |-> [Zeros EXCEPT ![0] = arg],
                  objs |-> [[s \in Slots |-> NoId] EXCEPT ![0] = did], parent |-> "null"]
      BY <1>2 DEF NoLeaf
    <2>4. QED
      BY <2>2, <2>3, Sizes DEF Leaf
  <1>7. Types'
    BY <1>1, <1>2, <1>4, <1>5, <1>6 DEF Types, NewPcs, history
  <1>8. Extends(cache, cache')
    BY <1>1, <1>4, FileTypes DEF Extends
  <1>9. RecordsMarked(cache')
    <2>1. cache.nodes.root \in Int /\ cache.nodes.used \in Nat
      <3>1. cache.nodes \in NodesFile
        BY <1>1, FileTypes
      <3>2. cache.nodes.root \in Ids \cup {NoId} /\ cache.nodes.used \in 0..MaxIds
        BY <3>1 DEF NodesFile
      <3>3. QED
        BY <3>2, TreeAssumption DEF NoId, Ids
    <2>2. RecordsMarked(cache)
      BY <1>1 DEF Streamed
    <2>3. cache'.nodes.root < cache'.nodes.used
      BY <1>3, <1>4, <2>1, <2>2 DEF RecordsMarked
    <2>4. QED
      BY <1>4, <2>2, <2>3 DEF RecordsMarked
  <1>10. Streamed'
    BY <1>1, <1>2, <1>4, <1>8, <1>9, WriteStreams
  <1>11. NewLeaf'
    BY <1>1, <1>2, <1>3, <1>4, <1>5, <1>6, FileTypes DEF NewLeaf
  <1>12. QED
    BY <1>2, <1>3, <1>4, <1>7, <1>10, <1>11, NewTreeKeeps DEF TreeInv, NewPcs

\* make_new_tree saves the leaf.
LEMMA SaveNewTreeInv ==
  ASSUME TreeInv, SaveNewTree
  PROVE  TreeInv'
  <1> DEFINE f == [cache.nodes EXCEPT !.rec = [@ EXCEPT ![leafId] = blk]]
  <1>1. Types /\ Streamed /\ NewLeaf
    BY DEF TreeInv
  <1>2. /\ pc = "saveRoot" /\ pc' = "saveHead" /\ Write("nodes", f)
        /\ UNCHANGED <<arg, tree, mem, insertion, history>>
    BY DEF SaveNewTree, SaveRecord
  <1>3. leafId \in Ids /\ blk \in Block
    BY <1>1 DEF Types
  <1>4. f \in NodesFile /\ f.rec[leafId] = blk /\ f.root = cache.nodes.root
        /\ f.used = cache.nodes.used
    BY <1>1, <1>3, FileTypes DEF NodesFile
  <1>5. /\ disk' \in AllFiles /\ cache' \in AllFiles
        /\ disk'.nodes = cache.nodes /\ cache'.nodes = f
        /\ UNCHANGED <<disk.names, disk.wires, cache.names, cache.wires>>
    BY <1>1, <1>2, <1>4, WriteNodes
  <1>6. Types'
    BY <1>1, <1>2, <1>5 DEF Types, NewPcs, history, insertion
  <1>7. Extends(cache, cache') /\ RecordsMarked(cache')
    BY <1>1, <1>4, <1>5, FileTypes DEF Extends, Streamed, RecordsMarked
  <1>8. Streamed'
    BY <1>1, <1>2, <1>5, <1>7, WriteStreams
  <1>9. NewLeaf'
    BY <1>1, <1>2, <1>4, <1>5 DEF NewLeaf, insertion, NewPcs
  <1>10. tree = "none"
    BY <1>2 DEF TreeInv, TreeByPc, NewPcs
  <1>11. QED
    BY <1>2, <1>4, <1>5, <1>6, <1>8, <1>9, <1>10, NewTreeKeeps DEF TreeInv, NewPcs, insertion

\* make_new_tree makes it the root on file.
LEMMA SaveNewHeadInv ==
  ASSUME TreeInv, SaveNewHead
  PROVE  TreeInv'
  <1> DEFINE f == [cache.nodes EXCEPT !.root = leafId]
  <1>1. Types /\ Streamed
    BY DEF TreeInv
  <1>2. /\ pc = "saveHead" /\ pc' = "idle" /\ arg' = NoName /\ Write("nodes", f) /\ tree' = "leaf"
        /\ known' = known \cup {arg} /\ last' = arg /\ cutoff' = cutoff \ {arg}
        /\ UNCHANGED <<mem, kid, did, leafId, blk, newId, right, top, life, broken>>
    BY DEF SaveNewHead, SaveRootId, Created, CreatedBut, Return, insertion
  <1>3. /\ blk.n = 1 /\ blk.leaf /\ blk.keys[0] = kid /\ blk.ptrs[0] = did
        /\ mem.n = 1 /\ mem.keys[0] = arg /\ mem.objs[0] = did
        /\ leafId < cache.nodes.used /\ cache.nodes.rec[leafId] = blk
    BY <1>2 DEF TreeInv, NewLeaf, NewPcs
  <1>4. tree = "none" /\ arg \in Names \ Present /\ cache.nodes.root = NoId /\ known = {}
    BY <1>2 DEF TreeInv, TreeByPc, NoTree, NewPcs, Alive
  <1>5. leafId \in Ids /\ leafId # NoId /\ blk \in Block /\ kid \in Ids /\ did \in Ids
        /\ arg # NoName
    BY <1>1, <1>4, Sizes DEF Types
  <1>6. f \in NodesFile /\ f.rec = cache.nodes.rec /\ f.root = leafId /\ f.used = cache.nodes.used
    BY <1>1, <1>5, FileTypes DEF NodesFile
  <1>7. /\ disk' \in AllFiles /\ cache' \in AllFiles
        /\ disk'.nodes = cache.nodes /\ cache'.nodes = f
        /\ UNCHANGED <<disk.names, disk.wires, cache.names, cache.wires>>
    BY <1>1, <1>2, <1>6, WriteNodes
  <1>8. Leaves(disk'.nodes) = {} /\ Entries(disk'.nodes) = {} /\ disk'.nodes.root = NoId
    BY <1>4, <1>7, NoLeaves
  <1>9. /\ cache'.nodes.root = leafId /\ cache'.nodes.rec[leafId] = blk
        /\ Leaves(cache'.nodes) = {blk} /\ Entries(cache'.nodes) = Keys(blk)
    <2>1. /\ cache'.nodes.root = leafId /\ cache'.nodes.rec[leafId] = blk
          /\ cache'.nodes.root # NoId
      BY <1>3, <1>5, <1>6, <1>7
    <2>2. cache'.nodes.rec[cache'.nodes.root].leaf
      BY <1>3, <2>1
    <2>3. QED
      BY <2>1, <2>2, OneLeaf
  <1>10. Keys(blk) = {New}
    <2>1. 0..(blk.n - 1) = {0}
      BY <1>3
    <2>2. QED
      BY <1>3, <2>1 DEF Keys, New
  <1>11. /\ cache.names.rec[kid] = arg /\ kid < disk.names.used
         /\ cache.wires.rec[did] = kid /\ did < disk.wires.used
         /\ New \notin broken /\ New.key = kid /\ New.data = did
         /\ \A e \in broken : e.key < disk.names.used
    BY <1>2 DEF TreeInv, Named, Wired, BrokenFrom, New, NewPcs, Alive
  <1>12. Whole(cache', New)
    BY <1>5, <1>7, <1>11 DEF Whole
  <1>13. Types'
    BY <1>1, <1>2, <1>4, <1>7 DEF Types
  <1>14. Extends(cache, cache')
    BY <1>1, <1>7, FileTypes DEF Extends
  <1>15. RecordsMarked(cache')
    BY <1>1, <1>3, <1>6, <1>7 DEF Streamed, RecordsMarked
  <1>16. Streamed'
    BY <1>1, <1>2, <1>7, <1>14, <1>15, WriteStreams
  <1>17. NodesGood'
    <2>1. Taken(disk'.nodes, disk'.names.used, disk'.wires.used)
          /\ Taken(cache'.nodes, disk'.names.used, disk'.wires.used)
      BY <1>7, <1>8, <1>9, <1>10, <1>11 DEF Taken
    <2>2. SortedIn(disk'.nodes, cache'.names.rec)
      BY <1>8 DEF SortedIn
    <2>3. Ascending(blk, cache'.names.rec)
      BY <1>3 DEF Ascending
    <2>4. SortedIn(cache'.nodes, cache'.names.rec)
      BY <1>3, <1>9, <2>3 DEF SortedIn
    <2>5. QED
      BY <2>1, <2>2, <2>4 DEF NodesGood
  <1>18. TreeByPc' /\ NoTree'
    BY <1>2 DEF TreeByPc, NoTree, Making, NewPcs, SplitPcs
  <1>19. LeafOnly'
    BY <1>3, <1>8, <1>9 DEF LeafOnly
  <1>20. LeafView'
    <2>1. \A s \in 0..(mem.n - 1) : s = 0
      BY <1>3
    <2>2. QED
      BY <1>2, <1>3, <1>7, <1>9, <1>11, <2>1 DEF LeafView
  <1>21. AllNamed'
    <2>1. \A s \in 0..(mem.n - 1) : s = 0
      BY <1>3
    <2>2. QED
      BY <1>2, <1>3, <1>5, <2>1 DEF AllNamed, Making
  <1>22. KnownOn'
    <2>1. Broken(cache') = {}
      BY <1>9, <1>10, <1>12 DEF Broken
    <2>2. NamesOn(cache') = {arg}
      BY <1>7, <1>9, <1>10, <1>11, <2>1 DEF NamesOn
    <2>3. QED
      BY <1>2, <1>4, <2>2 DEF KnownOn, Present
  <1>23. FreshWire' /\ FreshName' /\ Named' /\ Wired' /\ NewLeaf' /\ Halves' /\ HalfView'
    BY <1>2 DEF FreshWire, FreshName, Named, Wired, NewLeaf, Halves, HalfView, NewPcs, SplitPcs
  <1>24. BrokenFrom'
    BY <1>2, <1>7, <1>9, <1>10, <1>11, <1>12 DEF BrokenFrom, NewPcs, SplitPcs
  <1>25. Lag'
    <2>1. New' = New
      BY <1>2 DEF New
    <2>2. QED
      BY <1>2, <1>9, <1>10, <2>1 DEF Lag, OnDiskOr
  <1>26. DiskWhole'
    BY <1>8 DEF DiskWhole
  <1>27. OnlyUpperHalfLost'
    BY <1>2, <1>4 DEF OnlyUpperHalfLost
  <1>28. QED
    BY <1>13, <1>16, <1>17, <1>18, <1>19, <1>20, <1>21, <1>22, <1>23, <1>24, <1>25, <1>26, <1>27
    DEF TreeInv

-----------------------------------------------------------------------------
(* Where a name goes.                                                      *)

\* A set of naturals has a least element.
LEMMA LeastNat ==
  ASSUME NEW C \in SUBSET Nat, C # {}
  PROVE  \E m \in C : \A n \in C : m <= n
  <1> DEFINE R == {ss \in Nat \X Nat : ss[1] < ss[2]}
  <1>1. IsWellFoundedOn(R, Nat)
    BY NatLessThanWellFounded DEF OpToRel
  <1>2. PICK m \in C : \A n \in C : ~(<<n, m>> \in R)
    <2> HIDE DEF R
    <2>1. QED
      BY <1>1, WFMin
  <1>3. \A n \in C : ~(n < m)
    BY <1>2
  <1>4. QED
    BY <1>3

\* In an ascending row the smaller names come first, and Index counts them.
LEMMA IndexParts ==
  ASSUME Types, NEW x \in Names,
         \A s, t \in 0..(mem.n - 1) : s < t => mem.keys[s] < mem.keys[t]
  PROVE  /\ Index(x) \in 0..mem.n
         /\ \A s \in 0..(mem.n - 1) : mem.keys[s] < x <=> s < Index(x)
  <1> DEFINE n == mem.n
             S == {s \in 0..(n - 1) : mem.keys[s] < x}
             C == {s \in 0..n : s \notin S}
  <1>1. n \in 0..(Size - 1) /\ n \in Nat /\ x \in Nat /\ 0..n \subseteq Nat
    BY Sizes DEF Types, Leaf
  <1>2. \A s \in 0..(n - 1) : mem.keys[s] \in Nat
    <2>1. mem.keys \in [Slots -> Names \cup {NoName}]
      BY DEF Types, Leaf
    <2>2. 0..(n - 1) \subseteq Slots
      BY <1>1, Sizes DEF Slots
    <2>3. QED
      BY <2>1, <2>2, Sizes DEF NoName
  <1>3. n \in C /\ C \subseteq Nat
    BY <1>1
  <1>4. PICK m \in C : \A s \in C : m <= s
    BY <1>3, LeastNat
  <1>5. m \in 0..n /\ m \in Nat
    BY <1>1, <1>4
  <1>6. ASSUME NEW s \in 0..(n - 1), s < m PROVE mem.keys[s] < x
    BY <1>1, <1>4, <1>5, <1>6
  <1>7. ASSUME NEW s \in 0..(n - 1), ~(s < m) PROVE ~(mem.keys[s] < x)
    <2>1. m \in 0..(n - 1) /\ ~(mem.keys[m] < x)
      BY <1>1, <1>4, <1>5, <1>7
    <2>2. s = m \/ m < s
      BY <1>1, <1>5, <1>7
    <2>3. CASE m < s
      <3>1. mem.keys[m] < mem.keys[s]
        BY <2>1, <2>3
      <3>2. QED
        BY <1>1, <1>2, <2>1, <3>1
    <2>4. QED
      BY <2>1, <2>2, <2>3
  <1>8. S = 0..(m - 1)
    BY <1>1, <1>5, <1>6, <1>7
  <1>9. Cardinality(S) = m
    <2>1. 0 \in Int /\ m - 1 \in Int
      BY <1>5
    <2>2. Cardinality(0..(m - 1)) = IF 0 > m - 1 THEN 0 ELSE (m - 1) - 0 + 1
      BY <2>1, FS_Interval
    <2>3. m \in Nat
      BY <1>5
    <2>4. Cardinality(0..(m - 1)) = m
      BY <2>2, <2>3
    <2>5. QED
      BY <1>8, <2>4
  <1>10. Index(x) = m
    BY <1>9 DEF Index
  <1>11. QED
    BY <1>5, <1>6, <1>7, <1>10

\* The leaf that a name enters is in order, and the name is not there.
LEMMA LeafInOrder ==
  ASSUME TreeInv, pc = "insert", tree = "leaf"
  PROVE  /\ \A s \in 0..(mem.n - 1) : mem.keys[s] \in Names \ {arg}
         /\ \A s, t \in 0..(mem.n - 1) : s < t => mem.keys[s] < mem.keys[t]
         /\ arg \in Names \ Present
         /\ Index(arg) \in 0..mem.n
         /\ \A s \in 0..(mem.n - 1) : mem.keys[s] < arg <=> s < Index(arg)
         /\ \A s \in 0..(mem.n - 1) : mem.keys[s] > arg <=> s >= Index(arg)
  <1>1. Types /\ Alive /\ pc \notin SplitPcs
    BY DEF TreeInv, Alive, SplitPcs
  <1>2. /\ blk \in Block /\ mem.n = blk.n /\ Leaves(cache.nodes) = {blk}
        /\ \A s \in 0..(blk.n - 1) : mem.keys[s] = cache.names.rec[blk.keys[s]]
    BY <1>1, LeafEntries
  <1>3. mem.n \in 0..(Size - 1) /\ 0..(mem.n - 1) \subseteq Slots
        /\ mem.keys \in [Slots -> Names \cup {NoName}]
    BY <1>1, Sizes DEF Types, Leaf, Slots
  <1>4. \A s \in 0..(mem.n - 1) : mem.keys[s] \in Names \ {arg}
    BY <1>3 DEF TreeInv, AllNamed, Making
  <1>5. Ascending(blk, cache.names.rec)
    BY <1>2 DEF TreeInv, NodesGood, SortedIn
  <1>6. \A s, t \in 0..(mem.n - 1) : s < t => mem.keys[s] < mem.keys[t]
    <2> SUFFICES ASSUME NEW s \in 0..(mem.n - 1), NEW t \in 0..(mem.n - 1), s < t
                 PROVE  mem.keys[s] < mem.keys[t]
      OBVIOUS
    <2>1. mem.keys[s] # NoName /\ mem.keys[t] # NoName
      BY <1>4, Sizes
    <2>2. QED
      BY <1>2, <1>5, <2>1 DEF Ascending
  <1>7. arg \in Names \ Present
    BY DEF TreeInv, TreeByPc, Making
  <1>8. /\ Index(arg) \in 0..mem.n
        /\ \A s \in 0..(mem.n - 1) : mem.keys[s] < arg <=> s < Index(arg)
    BY <1>1, <1>6, <1>7, IndexParts
  <1>9. \A s \in 0..(mem.n - 1) : mem.keys[s] > arg <=> s >= Index(arg)
    <2> SUFFICES ASSUME NEW s \in 0..(mem.n - 1)
                 PROVE  mem.keys[s] > arg <=> s >= Index(arg)
      OBVIOUS
    <2>1. mem.keys[s] \in Nat /\ arg \in Nat /\ mem.keys[s] # arg
      BY <1>4, <1>7, Sizes
    <2>2. Index(arg) \in Int /\ s \in Int
      BY <1>3, <1>8
    <2>3. QED
      BY <1>8, <2>1, <2>2
  <1>10. QED
    BY <1>4, <1>6, <1>7, <1>8, <1>9

\* What enters an array is of the type of its elements.
LEMMA ShiftedType ==
  ASSUME NEW T, NEW f \in [Slots -> T], NEW i \in Nat, NEW m, NEW x \in T
  PROVE  Shifted(f, i, m, x) \in [Slots -> T]
  <1> SUFFICES ASSUME NEW s \in Slots
               PROVE  (IF s < i \/ s > m THEN f[s] ELSE IF s = i THEN x ELSE f[s - 1]) \in T
    BY DEF Shifted
  <1>1. CASE s < i \/ s > m
    BY <1>1
  <1>2. CASE ~(s < i \/ s > m) /\ s # i
    <2>1. s \in Nat /\ s - 1 \in Slots
      BY <1>2, Sizes DEF Slots
    <2>2. QED
      BY <1>2, <2>1
  <1>3. QED
    BY <1>1, <1>2

\* The entries of the leaf together with the new one, in the order of their names.
LEMMA Entered ==
  ASSUME TreeInv, pc = "insert", tree = "leaf",
         NEW p \in Nat, NEW q \in Nat, mem.n <= p, mem.n <= q,
         NEW keys, keys = Shifted(blk.keys, Index(arg), p, kid),
         NEW ptrs, ptrs = Shifted(blk.ptrs, Index(arg), p, did),
         NEW names, names = Shifted(mem.keys, Index(arg), q, arg),
         NEW objs, objs = Shifted(mem.objs, Index(arg), q, did)
  PROVE  /\ \A s \in 0..mem.n : /\ s \in Slots /\ names[s] \in Names
                                /\ cache.names.rec[keys[s]] = names[s]
                                /\ objs[s] \in {NoId, ptrs[s]}
         /\ \A s, t \in 0..mem.n : s < t => names[s] < names[t]
         /\ {[key |-> keys[s], data |-> ptrs[s]] : s \in 0..mem.n} = Keys(blk) \cup {New}
  <1> DEFINE i == Index(arg)
             n == mem.n
             rec == cache.names.rec
  <1>1. /\ n \in 0..(Size - 1) /\ n \in Nat /\ i \in 0..n /\ i \in Nat /\ \A s \in 0..n : s \in Slots
        /\ arg \in Names /\ arg \in Nat
    BY LeafInOrder, Sizes DEF TreeInv, Types, Leaf, Slots
  <1>2. /\ blk.n = n /\ \A s \in 0..(n - 1) : mem.keys[s] = rec[blk.keys[s]]
                                             /\ mem.objs[s] \in {NoId, blk.ptrs[s]}
    BY DEF TreeInv, LeafView, Alive, SplitPcs
  <1>3. rec[kid] = arg
    BY DEF TreeInv, Named
  <1> DEFINE At3(f, x, s) == IF s < i THEN f[s] ELSE IF s = i THEN x ELSE f[s - 1]
  <1>4. ASSUME NEW s \in 0..n
        PROVE  /\ keys[s] = At3(blk.keys, kid, s) /\ ptrs[s] = At3(blk.ptrs, did, s)
               /\ names[s] = At3(mem.keys, arg, s) /\ objs[s] = At3(mem.objs, did, s)
    <2>1. i \in Nat /\ p \in Nat /\ q \in Nat /\ s \in Slots /\ s <= p /\ s <= q
      BY <1>1
    <2> HIDE DEF i, n
    <2>2. Shifted(blk.keys, i, p, kid)[s] = At3(blk.keys, kid, s)
      BY <2>1, Sizes DEF Shifted
    <2>3. Shifted(blk.ptrs, i, p, did)[s] = At3(blk.ptrs, did, s)
      BY <2>1, Sizes DEF Shifted
    <2>4. Shifted(mem.keys, i, q, arg)[s] = At3(mem.keys, arg, s)
      BY <2>1, Sizes DEF Shifted
    <2>5. Shifted(mem.objs, i, q, did)[s] = At3(mem.objs, did, s)
      BY <2>1, Sizes DEF Shifted
    <2>6. QED
      BY <2>2, <2>3, <2>4, <2>5 DEF i
  <1> HIDE DEF i
  <1>5. ASSUME NEW s \in 0..n
        PROVE  /\ s \in Slots /\ names[s] \in Names /\ rec[keys[s]] = names[s]
               /\ objs[s] \in {NoId, ptrs[s]}
    <2>1. \A r \in 0..(n - 1) : mem.keys[r] \in Names
      BY LeafInOrder
    <2>2. CASE s < i
      <3>1. s \in 0..(n - 1)
        BY <1>1, <2>2
      <3>2. QED
        BY <1>1, <1>2, <1>4, <2>1, <2>2, <3>1
    <2>3. CASE s = i
      BY <1>1, <1>3, <1>4, <2>3
    <2>4. CASE s > i
      <3>1. s - 1 \in 0..(n - 1) /\ ~(s < i) /\ s # i
        BY <1>1, <2>4
      <3>2. QED
        BY <1>1, <1>2, <1>4, <2>1, <3>1
    <2>5. QED
      BY <1>1, <2>2, <2>3, <2>4
  <1>6. ASSUME NEW s \in 0..n, NEW t \in 0..n, s < t
        PROVE  names[s] < names[t]
    <2>1. /\ \A r \in 0..(n - 1) : mem.keys[r] \in Nat
          /\ \A r, u \in 0..(n - 1) : r < u => mem.keys[r] < mem.keys[u]
          /\ \A r \in 0..(n - 1) : r < i => mem.keys[r] < arg
          /\ \A r \in 0..(n - 1) : r >= i => mem.keys[r] > arg
      BY LeafInOrder, Sizes DEF i
    <2>2. CASE t < i
      <3>1. s \in 0..(n - 1) /\ t \in 0..(n - 1) /\ s < i
        BY <1>1, <1>6, <2>2
      <3>2. QED
        BY <1>4, <1>6, <2>1, <2>2, <3>1
    <2>3. CASE t = i
      <3>1. s \in 0..(n - 1) /\ s < i
        BY <1>1, <1>6, <2>3
      <3>2. QED
        BY <1>1, <1>4, <2>1, <2>3, <3>1
    <2>4. CASE t > i
      <3>1. t - 1 \in 0..(n - 1) /\ t - 1 >= i /\ names[t] = mem.keys[t - 1]
        BY <1>1, <1>4, <2>4
      <3>2. CASE s < i
        <4>1. s \in 0..(n - 1) /\ names[s] = mem.keys[s]
          BY <1>1, <1>4, <3>2
        <4>2. s < t - 1
          BY <1>1, <3>1, <3>2
        <4>3. QED
          BY <2>1, <3>1, <4>1, <4>2
      <3>3. CASE s = i
        BY <1>1, <1>4, <2>1, <3>1, <3>3
      <3>4. CASE s > i
        <4>1. s - 1 \in 0..(n - 1) /\ names[s] = mem.keys[s - 1]
          BY <1>1, <1>4, <3>4
        <4>2. s - 1 < t - 1
          BY <1>1, <1>6
        <4>3. QED
          BY <2>1, <3>1, <4>1, <4>2
      <3>5. QED
        BY <1>1, <3>2, <3>3, <3>4
    <2>5. QED
      BY <1>1, <2>2, <2>3, <2>4
  <1>7. {[key |-> keys[s], data |-> ptrs[s]] : s \in 0..n} = Keys(blk) \cup {New}
    <2> DEFINE E(s) == [key |-> keys[s], data |-> ptrs[s]]
               B(s) == [key |-> blk.keys[s], data |-> blk.ptrs[s]]
    <2>1. ASSUME NEW s \in 0..n PROVE E(s) \in Keys(blk) \cup {New}
      <3>1. CASE s < i
        <4>1. s \in 0..(blk.n - 1) /\ E(s) = B(s)
          BY <1>1, <1>2, <1>4, <3>1
        <4>2. QED
          BY <4>1 DEF Keys
      <3>2. CASE s = i
        BY <1>1, <1>4, <3>2 DEF New
      <3>3. CASE s > i
        <4>1. s - 1 \in 0..(blk.n - 1) /\ E(s) = B(s - 1)
          BY <1>1, <1>2, <1>4, <3>3
        <4>2. QED
          BY <4>1 DEF Keys
      <3>4. QED
        BY <1>1, <3>1, <3>2, <3>3
    <2>2. i \in 0..n /\ E(i) = New
      BY <1>1, <1>4 DEF New
    <2>3. ASSUME NEW s \in 0..(blk.n - 1) PROVE \E t \in 0..n : E(t) = B(s)
      <3>1. CASE s < i
        <4>1. s \in 0..n /\ E(s) = B(s)
          BY <1>1, <1>2, <1>4, <3>1
        <4>2. QED
          BY <4>1
      <3>2. CASE s >= i
        <4>1. s + 1 \in 0..n /\ ~(s + 1 < i) /\ s + 1 # i /\ (s + 1) - 1 = s
          BY <1>1, <1>2, <3>2
        <4>2. E(s + 1) = B(s)
          BY <1>4, <4>1
        <4>3. QED
          BY <4>1, <4>2
      <3>3. QED
        BY <1>1, <1>2, <3>1, <3>2
    <2>4. \A e \in Keys(blk) : \E s \in 0..(blk.n - 1) : e = B(s)
      BY DEF Keys
    <2> HIDE DEF E, B
    <2>5. \A e \in Keys(blk) \cup {New} : \E t \in 0..n : e = E(t)
      BY <2>2, <2>3, <2>4
    <2>6. {E(s) : s \in 0..n} = Keys(blk) \cup {New}
      BY <2>1, <2>5
    <2>7. QED
      BY <2>6 DEF E
  <1>8. QED
    BY <1>5, <1>6, <1>7

\* The wireway that is inserted is on file.
LEMMA NewWhole ==
  ASSUME TreeInv, pc \in {"insert"} \cup NewPcs \cup SplitPcs
  PROVE  /\ cache.names.rec[kid] = arg /\ kid < disk.names.used /\ did < disk.wires.used
         /\ arg \in Names \ Present /\ arg # NoName
         /\ New.key = kid /\ New.data = did /\ New \notin broken /\ Whole(cache, New)
         /\ kid \in Ids /\ did \in Ids
  <1>1. /\ cache.names.rec[kid] = arg /\ kid < disk.names.used
        /\ cache.wires.rec[did] = kid /\ did < disk.wires.used
    BY DEF TreeInv, Named, Wired
  <1>2. arg \in Names \ Present /\ arg # NoName
    BY Sizes DEF TreeInv, TreeByPc, Making
  <1>3. New.key = kid /\ New.data = did
    BY DEF New
  <1>4. New \notin broken
    BY <1>3 DEF TreeInv, BrokenFrom
  <1>5. kid \in Ids /\ did \in Ids
    BY DEF TreeInv, Types
  <1>6. QED
    BY <1>1, <1>2, <1>3, <1>4, <1>5 DEF Whole

\* When a leaf that is there is written again its names were on disk before.
LEMMA LeafOnDisk ==
  ASSUME TreeInv, pc = "insert", disk'.nodes = cache.nodes,
         UNCHANGED <<disk.names, disk.wires>>
  PROVE  /\ \A e \in Entries(cache.nodes) : e \in broken \/ Whole(disk, e)
         /\ Present \subseteq NamesOn(disk')
  <1>1. \A e \in Entries(cache.nodes) : e \in broken \/ Whole(disk, e)
    BY DEF TreeInv, Lag, OnDiskOr
  <1>2. ASSUME NEW x \in Present PROVE x \in NamesOn(disk')
    <2>1. PICK e \in Entries(cache.nodes) : cache.names.rec[e.key] = x /\ Whole(cache, e)
      BY DEF TreeInv, KnownOn, NamesOn, Broken, Alive, SplitPcs
    <2>2. Whole(disk, e)
      BY <1>1, <2>1 DEF TreeInv, BrokenFrom, Alive
    <2>3. e.key \in Ids
      BY EntryTyped, FileTypes DEF TreeInv
    <2>4. disk.names.rec[e.key] = x
      BY <2>1, <2>2, <2>3 DEF TreeInv, Streamed, Extends, Whole
    <2>5. Whole(disk', e) /\ disk'.names.rec[e.key] = x /\ e \in Entries(disk'.nodes)
      BY <2>2, <2>4 DEF Whole
    <2>6. QED
      BY <2>5 DEF NamesOn, Broken
  <1>3. QED
    BY <1>1, <1>2

\* insert_into_leaf shifts both arrays, puts the entry in and saves the leaf.
LEMMA InsertInv ==
  ASSUME TreeInv, InsertIntoLeaf
  PROVE  TreeInv'
  <1> DEFINE i     == Index(arg)
             keys  == Shifted(blk.keys, i, mem.n + 1, kid)
             ptrs  == Shifted(blk.ptrs, i, mem.n + 1, did)
             names == Shifted(mem.keys, i, mem.n, arg)
             objs  == Shifted(mem.objs, i, mem.n, did)
             f     == [cache.nodes EXCEPT !.rec = [@ EXCEPT ![leafId] = blk']]
  <1>1. Types /\ Streamed
    BY DEF TreeInv
  <1>2. /\ pc = "insert" /\ tree = "leaf" /\ mem.n < Size - 1 /\ Write("nodes", f)
        /\ mem' = [mem EXCEPT !.n = @ + 1, !.keys = names, !.objs = objs]
        /\ blk' = [blk EXCEPT !.n = mem.n + 1, !.keys = keys, !.ptrs = ptrs]
        /\ pc' = "idle" /\ arg' = NoName
        /\ known' = known \cup {arg} /\ last' = arg /\ cutoff' = cutoff \ {arg}
        /\ UNCHANGED <<tree, kid, did, leafId, newId, right, top, life, broken>>
    BY DEF InsertIntoLeaf, BlockWith, RoomInLeaf, SaveRecord, Created, CreatedBut, Return
  <1>3. /\ blk \in Block /\ blk.leaf /\ mem.n = blk.n
        /\ cache.nodes.root = leafId /\ leafId # NoId /\ cache.nodes.rec[leafId] = blk
        /\ Leaves(cache.nodes) = {blk} /\ Entries(cache.nodes) = Keys(blk)
    BY <1>2, LeafEntries DEF Alive, SplitPcs
  <1>4. mem.n \in 0..(Size - 2) /\ i \in Nat /\ mem.n \in Nat /\ mem.n + 1 \in Nat
        /\ mem.keys \in [Slots -> Names \cup {NoName}] /\ mem.objs \in [Slots -> Ids \cup {NoId}]
        /\ arg \in Names /\ leafId \in Ids
    BY <1>1, <1>2, LeafInOrder, Sizes DEF Types, Leaf
  <1>5. keys \in [Slots -> Ids] /\ ptrs \in [Slots -> Ids]
    BY <1>1, <1>3, <1>4, ShiftedType DEF Types, Block
  <1>6. names \in [Slots -> Names \cup {NoName}] /\ objs \in [Slots -> Ids \cup {NoId}]
    BY <1>1, <1>4, ShiftedType DEF Types
  <1>7. /\ blk'.n = mem.n + 1 /\ blk'.leaf /\ blk'.keys = keys /\ blk'.ptrs = ptrs /\ blk' \in Block
        /\ mem'.n = mem.n + 1 /\ mem'.keys = names /\ mem'.objs = objs
        /\ mem' \in Leaf
    <2>1. mem.n + 1 \in 0..(Size - 1)
      BY <1>4, Sizes
    <2> HIDE DEF keys, ptrs, names, objs
    <2>2. /\ blk'.n = mem.n + 1 /\ blk'.leaf /\ blk'.keys = keys /\ blk'.ptrs = ptrs /\ blk' \in Block
      BY <1>1, <1>2, <1>3, <1>5, <2>1 DEF Types, Block
    <2>3. /\ mem'.n = mem.n + 1 /\ mem'.keys = names /\ mem'.objs = objs /\ mem' \in Leaf
      BY <1>1, <1>2, <1>6, <2>1 DEF Types, Leaf
    <2>4. QED
      BY <2>2, <2>3
  <1>8. /\ \A s \in 0..mem.n : /\ names[s] \in Names /\ cache.names.rec[keys[s]] = names[s]
                               /\ objs[s] \in {NoId, ptrs[s]}
        /\ \A s, t \in 0..mem.n : s < t => names[s] < names[t]
        /\ {[key |-> keys[s], data |-> ptrs[s]] : s \in 0..mem.n} = Keys(blk) \cup {New}
    BY <1>2, <1>4, Entered
  <1> HIDE DEF keys, ptrs, names, objs
  <1>9. /\ 0..(blk'.n - 1) = 0..mem.n /\ 0..(mem'.n - 1) = 0..mem.n
        /\ blk'.keys = keys /\ blk'.ptrs = ptrs /\ mem'.keys = names /\ mem'.objs = objs
        /\ mem'.n = blk'.n
    BY <1>4, <1>7
  <1>10. Keys(blk') = Keys(blk) \cup {New}
    BY <1>8, <1>9 DEF Keys
  <1>11. f \in NodesFile /\ f.rec[leafId] = blk' /\ f.root = leafId /\ f.used = cache.nodes.used
    BY <1>1, <1>3, <1>4, <1>7, FileTypes DEF NodesFile
  <1>12. /\ disk' \in AllFiles /\ cache' \in AllFiles
         /\ disk'.nodes = cache.nodes /\ cache'.nodes = f
         /\ UNCHANGED <<disk.names, disk.wires, cache.names, cache.wires>>
    BY <1>1, <1>2, <1>11, WriteNodes
  <1>13. /\ cache'.nodes.root = leafId /\ cache'.nodes.rec[leafId] = blk'
         /\ Leaves(cache'.nodes) = {blk'} /\ Entries(cache'.nodes) = Keys(blk) \cup {New}
    <2>1. cache'.nodes.root = leafId /\ cache'.nodes.rec[leafId] = blk' /\ cache'.nodes.root # NoId
      BY <1>3, <1>11, <1>12
    <2>2. cache'.nodes.rec[cache'.nodes.root].leaf
      BY <1>7, <2>1
    <2>3. QED
      BY <1>10, <2>1, <2>2, OneLeaf
  <1>14. /\ cache.names.rec[kid] = arg /\ kid < disk.names.used /\ did < disk.wires.used
         /\ arg \in Names \ Present
         /\ New.key = kid /\ New.data = did /\ New \notin broken /\ Whole(cache, New)
    BY <1>2, NewWhole
  <1>15. \A e : (Whole(cache', e) <=> Whole(cache, e)) /\ (Whole(disk', e) <=> Whole(disk, e))
    BY <1>12 DEF Whole
  <1>16. /\ \A e \in Entries(cache.nodes) : e \in broken \/ Whole(disk, e)
         /\ Present \subseteq NamesOn(disk')
    BY <1>2, <1>12, LeafOnDisk
  <1>17. Types'
    BY <1>1, <1>2, <1>4, <1>7, <1>12 DEF Types
  <1>18. Extends(cache, cache') /\ RecordsMarked(cache')
    BY <1>1, <1>3, <1>11, <1>12, FileTypes DEF Extends, Streamed, RecordsMarked
  <1>19. Streamed'
    BY <1>1, <1>2, <1>12, <1>18, WriteStreams
  <1>20. NodesGood'
    <2>1. Taken(cache.nodes, disk.names.used, disk.wires.used) /\ SortedIn(cache.nodes, cache.names.rec)
      BY DEF TreeInv, NodesGood
    <2>2. Taken(cache'.nodes, disk.names.used, disk.wires.used)
      BY <1>3, <1>13, <1>14, <2>1 DEF Taken
    <2>3. Ascending(blk', cache.names.rec)
      <3> SUFFICES ASSUME NEW s \in 0..(blk'.n - 1), NEW t \in 0..(blk'.n - 1), s < t
                   PROVE  cache.names.rec[blk'.keys[s]] < cache.names.rec[blk'.keys[t]]
        BY DEF Ascending
      <3>1. s \in 0..mem.n /\ t \in 0..mem.n
        BY <1>9
      <3>2. cache.names.rec[keys[s]] < cache.names.rec[keys[t]]
        BY <1>8, <3>1
      <3>3. QED
        BY <1>9, <3>2
    <2>4. SortedIn(cache'.nodes, cache.names.rec)
      BY <1>7, <1>13, <2>3 DEF SortedIn
    <2>5. QED
      BY <1>12, <2>1, <2>2, <2>4 DEF NodesGood
  <1>21. TreeByPc' /\ NoTree' /\ FreshWire' /\ FreshName' /\ Named' /\ Wired' /\ NewLeaf' /\ Halves'
         /\ HalfView'
    BY <1>2 DEF TreeByPc, NoTree, FreshWire, FreshName, Named, Wired, NewLeaf, Halves, HalfView,
                Making, NewPcs, SplitPcs
  <1>22. LeafOnly'
    BY <1>3, <1>7, <1>12, <1>13 DEF LeafOnly
  <1>23. LeafView'
    BY <1>2, <1>8, <1>9, <1>12, <1>13 DEF LeafView
  <1>24. AllNamed'
    BY <1>2, <1>8, <1>9, Sizes DEF AllNamed, Making
  <1>25. KnownOn'
    <2>1. Broken(cache') = Broken(cache)
      BY <1>3, <1>13, <1>14, <1>15 DEF Broken
    <2>2. Entries(cache'.nodes) \ Broken(cache') = (Entries(cache.nodes) \ Broken(cache)) \cup {New}
      BY <1>3, <1>13, <1>14, <2>1 DEF Broken
    <2>3. NamesOn(cache') = NamesOn(cache) \cup {arg}
      BY <1>12, <1>14, <2>2 DEF NamesOn
    <2>4. NamesOn(cache) = Present
      BY <1>2 DEF TreeInv, KnownOn, Alive, SplitPcs
    <2>5. Present' = Present \cup {arg}
      BY <1>2 DEF Present
    <2>6. QED
      BY <2>3, <2>4, <2>5 DEF KnownOn
  <1>26. BrokenFrom'
    BY <1>2, <1>3, <1>12, <1>13, <1>14, <1>15
    DEF TreeInv, BrokenFrom, Alive, NewPcs, SplitPcs
  <1>27. Lag' /\ DiskWhole'
    <2>1. New' = New /\ broken' = broken
      BY <1>2 DEF New
    <2>2. QED
      BY <1>2, <1>3, <1>12, <1>13, <1>15, <1>16, <2>1 DEF Lag, DiskWhole, OnDiskOr
  <1>28. OnlyUpperHalfLost'
    BY <1>2, <1>16 DEF OnlyUpperHalfLost, Present
  <1>29. QED
    BY <1>17, <1>19, <1>20, <1>21, <1>22, <1>23, <1>24, <1>25, <1>26, <1>27, <1>28 DEF TreeInv

-----------------------------------------------------------------------------
(* The split.                                                              *)

\* Blocks of which only the parent differs hold the same entries.
LEMMA SameKeys ==
  ASSUME NEW b \in Block, NEW c \in Block, SameBlock(b, c), NEW rec
  PROVE  Keys(b) = Keys(c) /\ (Ascending(b, rec) <=> Ascending(c, rec))
  <1>1. b.n = c.n /\ \A s \in 0..(b.n - 1) : b.keys[s] = c.keys[s] /\ b.ptrs[s] = c.ptrs[s]
    BY DEF SameBlock
  <1> DEFINE I == 0..(b.n - 1)
  <1>2. /\ Keys(b) = {[key |-> b.keys[s], data |-> b.ptrs[s]] : s \in I}
        /\ Keys(c) = {[key |-> c.keys[s], data |-> c.ptrs[s]] : s \in I}
    BY <1>1 DEF Keys
  <1>3. Keys(b) = Keys(c)
    BY <1>1, <1>2
  <1>4. Ascending(b, rec) <=> Ascending(c, rec)
    BY <1>1 DEF Ascending
  <1>5. QED
    BY <1>3, <1>4

\* A root that is a leaf.
LEMMA OneHalf ==
  ASSUME NEW nodes \in NodesFile, NEW b \in Block, nodes.root # NoId,
         SameBlock(nodes.rec[nodes.root], b), b.leaf, NEW rec, Ascending(b, rec)
  PROVE  Entries(nodes) = Keys(b) /\ SortedIn(nodes, rec)
  <1> DEFINE r == nodes.rec[nodes.root]
  <1>1. r \in Block /\ r.leaf
    BY DEF NodesFile, SameBlock
  <1>2. Keys(r) = Keys(b) /\ Ascending(r, rec)
    BY <1>1, SameKeys
  <1>3. Leaves(nodes) = {r} /\ Entries(nodes) = Keys(r)
    BY <1>1, OneLeaf
  <1>4. QED
    BY <1>1, <1>2, <1>3 DEF SortedIn

\* A new root over two leaves.
LEMMA TwoHalves ==
  ASSUME NEW nodes \in NodesFile, NEW b \in Block, NEW c \in Block, NEW r \in Block,
         nodes.root # NoId, r = nodes.rec[nodes.root], r.n = 1, ~r.leaf, r.keys[0] = c.keys[0],
         SameBlock(nodes.rec[r.ptrs[0]], b), SameBlock(nodes.rec[r.ptrs[1]], c),
         NEW rec \in [Ids -> Nat], Ascending(b, rec), Ascending(c, rec),
         c.n > 0, \A s \in 0..(c.n - 1) : rec[c.keys[s]] # NoName,
         \A s \in 0..(b.n - 1), t \in 0..(c.n - 1) : rec[b.keys[s]] < rec[c.keys[t]]
  PROVE  Entries(nodes) = Keys(b) \cup Keys(c) /\ SortedIn(nodes, rec)
  <1> DEFINE low == nodes.rec[r.ptrs[0]]
             high == nodes.rec[r.ptrs[1]]
  <1>1. r.ptrs[0] \in Ids /\ r.ptrs[1] \in Ids
    BY Sizes DEF Block
  <1>2. low \in Block /\ high \in Block
    BY <1>1 DEF NodesFile
  <1>3. /\ Keys(low) = Keys(b) /\ Ascending(low, rec)
        /\ Keys(high) = Keys(c) /\ Ascending(high, rec)
    BY <1>2, SameKeys
  <1>4. /\ low.n = b.n /\ \A s \in 0..(b.n - 1) : low.keys[s] = b.keys[s]
        /\ high.n = c.n /\ \A s \in 0..(c.n - 1) : high.keys[s] = c.keys[s]
    BY DEF SameBlock
  <1>5. c.n \in Nat /\ c.n - 1 \in Nat /\ 0 \in 0..(c.n - 1)
    <2>1. c.n \in 0..(Size - 1)
      BY DEF Block
    <2>2. QED
      BY <2>1, Sizes
  <1>6. Leaves(nodes) = {low, high} /\ Entries(nodes) = Keys(low) \cup Keys(high)
    BY TwoLeaves
  <1>7. Below(low, rec, rec[r.keys[0]])
    BY <1>4, <1>5 DEF Below
  <1>8. NotBelow(high, rec, rec[r.keys[0]])
    <2> SUFFICES ASSUME NEW s \in 0..(c.n - 1)
                 PROVE  rec[c.keys[s]] >= rec[c.keys[0]]
      BY <1>4 DEF NotBelow
    <2>1. rec[c.keys[s]] \in Nat /\ rec[c.keys[0]] \in Nat
      BY <1>5, EntryOfSlot
    <2>2. CASE s = 0
      BY <2>1, <2>2
    <2>3. CASE s # 0
      <3>1. 0 < s
        BY <1>5, <2>3
      <3>2. rec[c.keys[0]] < rec[c.keys[s]]
        BY <1>5, <3>1 DEF Ascending
      <3>3. QED
        BY <2>1, <3>2
    <2>4. QED
      BY <2>2, <2>3
  <1>9. QED
    BY <1>3, <1>6, <1>7, <1>8 DEF SortedIn

\* What the conditions on the two halves come to.
LEMMA HalvesFacts ==
  ASSUME TreeInv, pc \in SplitPcs
  PROVE  /\ tree = "leaf" /\ Alive /\ blk \in Block /\ right \in Block
         /\ leafId \in Ids /\ newId \in Ids /\ leafId # newId /\ top \in Ids
         /\ leafId < cache.nodes.used /\ newId < cache.nodes.used
         /\ HalvesSorted /\ HalvesHold /\ HalvesSaved
         /\ \A e \in Both : e.key \in Ids /\ e.data \in Ids
  <1>1. tree = "leaf" /\ Alive
    BY DEF TreeInv, TreeByPc, SplitPcs, Alive
  <1>2. /\ blk \in Block /\ right \in Block /\ leafId \in Ids /\ newId \in Ids /\ top \in Ids
    BY DEF TreeInv, Types
  <1>3. HalvesSorted /\ HalvesHold /\ HalvesSaved
    BY DEF TreeInv, Halves
  <1>4. \A e \in Both : e.key \in Ids /\ e.data \in Ids
    BY <1>2, EntryOfSlot DEF Both
  <1>5. QED
    BY <1>1, <1>2, <1>3, <1>4 DEF HalvesSaved

\* The tree on file while the halves are written: one of them, or both.
LEMMA HalvesOnFile ==
  ASSUME NEW nodes \in NodesFile, NEW b \in Block, NEW c \in Block, NEW l \in Ids, NEW n \in Ids,
         NEW rec \in [Ids -> Nat],
         b.leaf, c.n = Size - Half, Ascending(b, rec), Ascending(c, rec),
         \A s \in 0..(c.n - 1) : rec[c.keys[s]] # NoName,
         \A s \in 0..(b.n - 1), t \in 0..(c.n - 1) : rec[b.keys[s]] < rec[c.keys[t]],
         SameBlock(nodes.rec[l], b),
         \/ nodes.root = l
         \/ /\ nodes.root \in Ids /\ nodes.rec[nodes.root].n = 1 /\ ~nodes.rec[nodes.root].leaf
            /\ nodes.rec[nodes.root].keys[0] = c.keys[0]
            /\ nodes.rec[nodes.root].ptrs[0] = l /\ nodes.rec[nodes.root].ptrs[1] = n
            /\ SameBlock(nodes.rec[n], c)
  PROVE  /\ SortedIn(nodes, rec)
         /\ IF nodes.root = l THEN Entries(nodes) = Keys(b) ELSE Entries(nodes) = Keys(b) \cup Keys(c)
  <1>1. CASE nodes.root = l
    <2>1. nodes.root # NoId
      BY <1>1, Sizes
    <2>2. QED
      BY <1>1, <2>1, OneHalf
  <1>2. CASE nodes.root # l
    <2> DEFINE r == nodes.rec[nodes.root]
    <2>1. nodes.root # NoId /\ r \in Block
      BY <1>2, Sizes DEF NodesFile
    <2>2. c.n > 0
      BY Sizes
    <2>3. /\ r.n = 1 /\ ~r.leaf /\ r.keys[0] = c.keys[0]
          /\ SameBlock(nodes.rec[r.ptrs[0]], b) /\ SameBlock(nodes.rec[r.ptrs[1]], c)
      BY <1>2
    <2>4. Entries(nodes) = Keys(b) \cup Keys(c) /\ SortedIn(nodes, rec)
      BY <2>1, <2>2, <2>3, TwoHalves
    <2>5. QED
      BY <1>2, <2>4
  <1>3. QED
    BY <1>1, <1>2

\* A step that writes a half, or the new root, and nothing else.
HalfStep ==
  /\ pc \in SplitPcs /\ Types' /\ Streamed' /\ disk'.nodes = cache.nodes
  /\ UNCHANGED <<disk.names, disk.wires, cache.names, cache.wires, kid, did, leafId, newId, broken>>
  /\ SameBlock(blk', blk) /\ SameBlock(right', right)

\* A step of the split that touches only the zone of nodes keeps the halves.
LEMMA HalfStepKeeps ==
  ASSUME TreeInv, HalfStep
  PROVE  /\ HalvesSorted' /\ Both' = Both
         /\ \A e : (Whole(cache', e) <=> Whole(cache, e)) /\ (Whole(disk', e) <=> Whole(disk, e))
         /\ cache.names.rec \in [Ids -> Nat]
  <1>1. blk' \in Block /\ right' \in Block
    BY DEF HalfStep, Types
  <1>2. /\ Keys(blk') = Keys(blk) /\ Keys(right') = Keys(right)
        /\ Ascending(blk', cache.names.rec) /\ Ascending(right', cache.names.rec)
    BY <1>1, HalvesFacts, SameKeys DEF HalfStep, HalvesSorted
  <1>3. Both' = Both
    BY <1>2 DEF Both
  <1>4. /\ blk'.n = blk.n /\ right'.n = right.n /\ blk'.leaf = blk.leaf
        /\ \A s \in 0..(blk.n - 1) : blk'.keys[s] = blk.keys[s]
        /\ \A s \in 0..(right.n - 1) : right'.keys[s] = right.keys[s]
    BY DEF HalfStep, SameBlock
  <1>5. cache'.names = cache.names /\ disk'.names = disk.names
        /\ cache'.wires = cache.wires /\ disk'.wires = disk.wires
    BY DEF HalfStep
  <1>6. HalvesSorted
    BY HalvesFacts DEF HalfStep
  <1>7. HalvesSorted'
    BY <1>2, <1>3, <1>4, <1>5, <1>6 DEF HalvesSorted
  <1>8. \A e : (Whole(cache', e) <=> Whole(cache, e)) /\ (Whole(disk', e) <=> Whole(disk, e))
    BY <1>5 DEF Whole
  <1>9. cache.names.rec \in [Ids -> Nat]
    BY FileTypes, Sizes DEF TreeInv, NoName
  <1>10. QED
    BY <1>3, <1>7, <1>8, <1>9

\* What a step of the split leaves on disk: the names of the lower half, and of both
\* halves when the tree on file led to both.
LEMMA HalvesOnDisk ==
  ASSUME TreeInv, HalfStep
  PROVE  /\ Present \ UpperHalf \subseteq NamesOn(disk')
         /\ Entries(cache.nodes) = Both => Present \subseteq NamesOn(disk')
  <1> SUFFICES ASSUME NEW x \in Present, x \notin UpperHalf \/ Entries(cache.nodes) = Both
               PROVE  x \in NamesOn(disk')
    OBVIOUS
  <1>1. /\ HalvesHold /\ Alive /\ right \in Block /\ \A e \in Both : e.key \in Ids
        /\ \A e : Whole(disk', e) <=> Whole(disk, e)
    BY HalvesFacts, HalfStepKeeps DEF HalfStep
  <1>2. PICK e \in Both : cache.names.rec[e.key] = x /\ Whole(cache, e)
    BY <1>1 DEF HalvesHold
  <1>3. e \notin broken /\ e # New
    BY <1>1, <1>2, NewWhole DEF HalvesHold, HalfStep
  <1>4. Whole(disk, e)
    BY <1>1, <1>2, <1>3 DEF HalvesHold, OnDiskOr
  <1>5. disk.names.rec[e.key] = x
    BY <1>1, <1>2, <1>4 DEF TreeInv, Streamed, Extends, Whole
  <1>6. e \in Entries(cache.nodes)
    <2>1. CASE Entries(cache.nodes) = Both
      BY <1>2, <2>1
    <2>2. CASE x \notin UpperHalf
      <3>1. e \notin Keys(right)
        BY <1>1, <1>2, <2>2, EntryOfSlot DEF UpperHalf
      <3>2. QED
        BY <1>1, <1>2, <1>3, <3>1 DEF HalvesHold, Both
    <2>3. QED
      BY <2>1, <2>2
  <1>7. e \in Entries(disk'.nodes) /\ disk'.names.rec[e.key] = x /\ Whole(disk', e)
    BY <1>1, <1>4, <1>5, <1>6 DEF HalfStep
  <1>8. QED
    BY <1>7 DEF NamesOn, Broken

\* The tree that the process sees while the halves are written.
TreeOfHalves ==
  /\ SortedIn(cache.nodes, cache.names.rec)
  /\ Keys(blk) \subseteq Entries(cache.nodes) /\ Entries(cache.nodes) \subseteq Both
  /\ pc \in {"saveLeftAgain", "saveRightAgain"} => Entries(cache.nodes) = Both

\* Whichever of the two halves are saved, the file is a tree in order.
LEMMA HalvesTree ==
  Types /\ HalvesSorted /\ HalvesSaved /\ pc \in SplitPcs \ {"saveLeft"} => TreeOfHalves
  <1> SUFFICES ASSUME Types, HalvesSorted, HalvesSaved, pc \in SplitPcs \ {"saveLeft"}
               PROVE  TreeOfHalves
    OBVIOUS
  <1> DEFINE nodes == cache.nodes
             rec == cache.names.rec
  <1>1. /\ nodes \in NodesFile /\ rec \in [Ids -> Nat]
        /\ blk \in Block /\ right \in Block /\ leafId \in Ids /\ newId \in Ids /\ top \in Ids
    <2>1. nodes \in NodesFile /\ rec \in [Ids -> Names \cup {NoName}]
      BY FileTypes
    <2>2. rec \in [Ids -> Nat]
      BY <2>1, Sizes DEF NoName
    <2>3. QED
      BY <2>1, <2>2 DEF Types
  <1>2. /\ blk.leaf /\ right.n = Size - Half /\ Ascending(blk, rec) /\ Ascending(right, rec)
        /\ \A s \in 0..(blk.n - 1), t \in 0..(right.n - 1) : rec[blk.keys[s]] < rec[right.keys[t]]
    BY DEF HalvesSorted
  <1>3. \A s \in 0..(right.n - 1) : rec[right.keys[s]] # NoName
    <2> SUFFICES ASSUME NEW s \in 0..(right.n - 1) PROVE rec[right.keys[s]] # NoName
      OBVIOUS
    <2>1. [key |-> right.keys[s], data |-> right.ptrs[s]] \in Both
      BY <1>1, EntryOfSlot DEF Both
    <2>2. QED
      BY <2>1 DEF HalvesSorted
  <1>4. SameBlock(nodes.rec[leafId], blk)
    BY DEF HalvesSaved
  <1>5. CASE pc \notin {"saveLeftAgain", "saveRightAgain"}
    <2>1. nodes.root = leafId
      BY <1>5 DEF HalvesSaved
    <2>2. Entries(nodes) = Keys(blk) /\ SortedIn(nodes, rec)
      BY <1>1, <1>2, <1>3, <1>4, <2>1, HalvesOnFile
    <2>3. QED
      BY <1>5, <2>2 DEF TreeOfHalves, Both
  <1>6. CASE pc \in {"saveLeftAgain", "saveRightAgain"}
    <2>1. /\ nodes.root = top /\ top # leafId
          /\ nodes.rec[top].n = 1 /\ ~nodes.rec[top].leaf /\ nodes.rec[top].keys[0] = right.keys[0]
          /\ nodes.rec[top].ptrs[0] = leafId /\ nodes.rec[top].ptrs[1] = newId
          /\ SameBlock(nodes.rec[newId], right)
      BY <1>6 DEF HalvesSaved, TopBlock
    <2>2. Entries(nodes) = Keys(blk) \cup Keys(right) /\ SortedIn(nodes, rec)
      BY <1>1, <1>2, <1>3, <1>4, <2>1, HalvesOnFile
    <2>3. QED
      BY <2>2 DEF TreeOfHalves, Both
  <1>7. QED
    BY <1>5, <1>6

\* The parts of the invariant that every step of a split keeps alike.
LEMMA HalvesKeep ==
  ASSUME TreeInv, HalfStep, HalvesSaved', HalfView', pc' \in SplitPcs \ {"saveLeft"},
         pc' = "saveRightAgain" => pc = "saveLeftAgain",
         UNCHANGED <<arg, tree, known, last, cutoff>>
  PROVE  TreeInv'
  <1>1. /\ tree = "leaf" /\ tree' = "leaf" /\ HalvesSorted /\ HalvesHold
        /\ HalvesSorted' /\ Both' = Both
        /\ \A e : (Whole(cache', e) <=> Whole(cache, e)) /\ (Whole(disk', e) <=> Whole(disk, e))
    BY HalvesFacts, HalfStepKeeps DEF HalfStep
  <1>2. pc \notin Making /\ pc \notin NewPcs /\ pc' \notin Making /\ pc' \notin NewPcs
        /\ pc' \notin {"down", "idle", "find"} /\ pc \notin {"down", "idle", "find"} /\ pc' \in SplitPcs
        /\ pc \in SplitPcs /\ pc' \notin Renamed
    BY DEF HalfStep, SplitPcs, Making, NewPcs, Renamed
  <1>3. /\ cache'.names = cache.names /\ disk'.names = disk.names
        /\ cache'.wires = cache.wires /\ disk'.wires = disk.wires
        /\ UNCHANGED <<arg, known, last, cutoff, broken, kid, did>> /\ disk'.nodes = cache.nodes
        /\ Present' = Present
    BY DEF HalfStep, Present
  <1>4. /\ SortedIn(cache'.nodes, cache.names.rec) /\ Entries(cache'.nodes) \subseteq Both
        /\ Keys(blk') \subseteq Entries(cache'.nodes)
    <2>1. (Types /\ HalvesSorted /\ HalvesSaved /\ pc \in SplitPcs \ {"saveLeft"} => TreeOfHalves)'
      BY HalvesTree, PTL
    <2>2. TreeOfHalves'
      BY <1>1, <2>1 DEF HalfStep
    <2>3. QED
      BY <1>1, <1>3, <2>2 DEF TreeOfHalves
  <1>5. Entries(disk'.nodes) \subseteq Both
    BY <1>1, <1>3 DEF HalvesHold
  <1>6. NodesGood'
    <2>1. SortedIn(cache.nodes, cache.names.rec)
      BY DEF TreeInv, NodesGood
    <2>2. \A e \in Both : e.key < disk.names.used /\ e.data < disk.wires.used
      BY <1>1 DEF HalvesHold
    <2>3. /\ Taken(cache'.nodes, disk.names.used, disk.wires.used)
          /\ Taken(disk'.nodes, disk.names.used, disk.wires.used)
      BY <1>4, <1>5, <2>2 DEF Taken
    <2>4. QED
      BY <1>3, <1>4, <2>1, <2>3 DEF NodesGood
  <1>7. TreeByPc'
    BY <1>1, <1>2, <1>3 DEF TreeInv, TreeByPc
  <1>8. NoTree' /\ LeafOnly' /\ LeafView' /\ AllNamed' /\ KnownOn' /\ NewLeaf'
    BY <1>1, <1>2 DEF NoTree, LeafOnly, LeafView, AllNamed, KnownOn, NewLeaf
  <1>9. FreshWire' /\ FreshName' /\ Lag'
    BY <1>2 DEF FreshWire, FreshName, Lag, SplitPcs
  <1>10. Named' /\ Wired'
    BY <1>2, <1>3 DEF TreeInv, Named, Wired
  <1>11. BrokenFrom'
    BY <1>1, <1>2, <1>3, <1>4 DEF TreeInv, BrokenFrom, HalvesHold, Alive
  <1>12. New' = New
    BY <1>3 DEF New
  <1>13. DiskWhole'
    <2>1. New.key = kid /\ Whole(cache, New)
      BY <1>2, NewWhole
    <2>2. \A e \in Both : e \in broken \/ Whole(disk, e) \/ e = New
      BY <1>1 DEF HalvesHold, OnDiskOr
    <2>3. QED
      BY <1>1, <1>2, <1>3, <1>5, <2>1, <2>2 DEF DiskWhole
  <1>14. UpperHalf' = UpperHalf
    BY <1>3 DEF HalfStep, SameBlock, UpperHalf
  <1>15. Present \ UpperHalf \subseteq NamesOn(disk')
    BY HalvesOnDisk
  <1>16. HalvesHold'
    <2>1. {e \in Both : Whole(cache', e)} = {e \in Both : Whole(cache, e)}
      BY <1>1
    <2>2. \A e \in Both : /\ e.key < disk.names.used /\ e.data < disk.wires.used
                          /\ e \in broken <=> ~Whole(cache, e)
                          /\ e \in broken \/ Whole(disk, e) \/ e \in {New}
      BY <1>1 DEF HalvesHold, OnDiskOr
    <2>3. {cache.names.rec[e.key] : e \in {e \in Both : Whole(cache, e)}} = Present \cup {arg}
      BY <1>1 DEF HalvesHold
    <2>4. QED
      BY <1>1, <1>3, <1>4, <1>5, <1>12, <1>14, <1>15, <2>1, <2>2, <2>3 DEF HalvesHold, OnDiskOr
  <1>17. OnlyUpperHalfLost'
    <2>1. CASE pc' = "saveRightAgain"
      <3>1. pc = "saveLeftAgain"
        BY <2>1
      <3>2. Entries(cache.nodes) = Both
        BY <3>1, HalvesTree, HalvesFacts DEF TreeOfHalves, SplitPcs, TreeInv
      <3>3. Present \subseteq NamesOn(disk')
        BY <3>2, HalvesOnDisk
      <3>4. QED
        BY <1>3, <3>3 DEF OnlyUpperHalfLost, Present
    <2>2. CASE pc' # "saveRightAgain"
      <3>1. Splitting'
        BY <2>2 DEF Splitting, SplitPcs
      <3>2. QED
        BY <1>3, <1>14, <1>15, <3>1 DEF OnlyUpperHalfLost, Present
    <2>3. QED
      BY <2>1, <2>2
  <1>18. QED
    BY <1>1, <1>6, <1>7, <1>8, <1>9, <1>10, <1>11, <1>13, <1>16, <1>17
    DEF TreeInv, Halves, HalfStep

\* One of the halves is saved (save_bptree_node).
LEMMA SaveHalfInv ==
  ASSUME TreeInv, SaveLeft \/ SaveRight \/ SaveLeftAgain
  PROVE  TreeInv'
  <1> DEFINE id == IF pc = "saveRight" THEN newId ELSE leafId
             b == IF pc = "saveRight" THEN right ELSE blk
             f == [cache.nodes EXCEPT !.rec = [@ EXCEPT ![id] = b]]
  <1>1. Types /\ Streamed
    BY DEF TreeInv
  <1>2. /\ \/ pc = "saveLeft" /\ pc' = "saveRight"
           \/ pc = "saveRight" /\ pc' = "parent"
           \/ pc = "saveLeftAgain" /\ pc' = "saveRightAgain"
        /\ Write("nodes", f)
        /\ UNCHANGED <<arg, tree, mem, kid, did, leafId, blk, newId, right, top,
                       life, known, last, cutoff, broken>>
    BY DEF SaveLeft, SaveRight, SaveLeftAgain, SaveRecord, insertion, history
  <1>3. pc \in SplitPcs /\ pc' \in SplitPcs \ {"saveLeft"}
    BY <1>2 DEF SplitPcs
  <1>4. /\ blk \in Block /\ right \in Block /\ leafId \in Ids /\ newId \in Ids /\ leafId # newId
        /\ id \in Ids /\ b \in Block /\ blk.leaf /\ HalvesSaved
    BY <1>3, HalvesFacts DEF HalvesSorted
  <1>5. /\ f \in NodesFile /\ f.rec[id] = b /\ f.root = cache.nodes.root /\ f.used = cache.nodes.used
        /\ \A i \in Ids : i # id => f.rec[i] = cache.nodes.rec[i]
    BY <1>1, <1>4, FileTypes DEF NodesFile
  <1> HIDE DEF f
  <1>6. /\ disk' \in AllFiles /\ cache' \in AllFiles
        /\ disk'.nodes = cache.nodes /\ cache'.nodes = f
        /\ UNCHANGED <<disk.names, disk.wires, cache.names, cache.wires>>
    BY <1>1, <1>2, <1>5, WriteNodes
  <1>7. Types'
    BY <1>1, <1>2, <1>3, <1>6 DEF Types
  <1>8. Extends(cache, cache') /\ RecordsMarked(cache')
    BY <1>1, <1>5, <1>6, FileTypes DEF Extends, Streamed, RecordsMarked
  <1>9. Streamed'
    BY <1>1, <1>2, <1>6, <1>8, WriteStreams
  <1>10. SameBlock(blk', blk) /\ SameBlock(right', right)
    BY <1>2 DEF SameBlock
  <1>11. HalfStep
    BY <1>2, <1>3, <1>6, <1>7, <1>9, <1>10 DEF HalfStep
  <1>12. SameBlock(blk, blk) /\ SameBlock(right, right)
    BY DEF SameBlock
  <1>13. top \in Ids
    BY <1>1 DEF Types
  <1>14. HalvesSaved'
    <2>1. CASE pc = "saveLeft"
      BY <1>2, <1>4, <1>5, <1>6, <1>12, <2>1 DEF HalvesSaved
    <2>2. CASE pc = "saveRight"
      BY <1>2, <1>4, <1>5, <1>6, <1>12, <2>2 DEF HalvesSaved
    <2>3. CASE pc = "saveLeftAgain"
      BY <1>2, <1>4, <1>5, <1>6, <1>12, <1>13, <2>3 DEF HalvesSaved, TopBlock
    <2>4. QED
      BY <1>2, <2>1, <2>2, <2>3
  <1>15. HalfView'
    BY <1>2, <1>4, <1>5, <1>6 DEF TreeInv, HalfView, HalvesSaved
  <1>16. QED
    BY <1>2, <1>3, <1>11, <1>14, <1>15, HalvesKeep

\* Blocks that show the same as a third show the same.
LEMMA SameAsBoth ==
  ASSUME NEW a, NEW b, NEW c, SameBlock(a, b), SameBlock(c, b)
  PROVE  SameBlock(a, c)
  <1>1. a.n = b.n /\ c.n = b.n /\ a.leaf = b.leaf /\ c.leaf = b.leaf
    BY DEF SameBlock
  <1>2. ASSUME NEW s \in 0..(a.n - 1)
        PROVE  a.keys[s] = c.keys[s] /\ a.ptrs[s] = c.ptrs[s]
    BY <1>1 DEF SameBlock
  <1>3. QED
    BY <1>1, <1>2 DEF SameBlock

\* make_new_root takes a block for the root.
LEMMA AllocTopInv ==
  ASSUME TreeInv, AllocTop
  PROVE  TreeInv'
  <1> DEFINE f == [cache.nodes EXCEPT !.used = top' + 1]
  <1>1. Types /\ Streamed
    BY DEF TreeInv
  <1>2. /\ pc = "parent" /\ pc' = "saveTop"
        /\ top' \in Ids /\ top' = cache.nodes.used /\ top' < MaxIds /\ Write("nodes", f)
        /\ blk' = [blk EXCEPT !.keys[Size - 1] = top']
        /\ right' = [right EXCEPT !.keys[Size - 1] = top']
        /\ UNCHANGED <<arg, tree, mem, kid, did, leafId, newId, life, known, last, cutoff, broken>>
    BY DEF AllocTop, Take, history
  <1>3. pc \in SplitPcs /\ pc' \in SplitPcs \ {"saveLeft"}
    BY <1>2 DEF SplitPcs
  <1>4. /\ blk \in Block /\ right \in Block /\ leafId \in Ids /\ newId \in Ids /\ leafId # newId
        /\ blk.leaf /\ HalvesSaved /\ blk.n = Half /\ right.n = Size - Half
        /\ leafId < cache.nodes.used /\ newId < cache.nodes.used
    BY <1>3, HalvesFacts DEF HalvesSorted
  <1>5. /\ f \in NodesFile /\ f.rec = cache.nodes.rec /\ f.root = cache.nodes.root
        /\ f.used = cache.nodes.used + 1
    BY <1>1, <1>2, FileTypes DEF NodesFile
  <1> HIDE DEF f
  <1>6. /\ disk' \in AllFiles /\ cache' \in AllFiles
        /\ disk'.nodes = cache.nodes /\ cache'.nodes = f
        /\ UNCHANGED <<disk.names, disk.wires, cache.names, cache.wires>>
    BY <1>1, <1>2, <1>5, WriteNodes
  <1>7. ASSUME NEW b \in Block
        PROVE  /\ [b EXCEPT !.keys[Size - 1] = top'] \in Block
               /\ b.n \in 0..(Size - 1)
               /\ SameBlock([b EXCEPT !.keys[Size - 1] = top'], b)
    <2>1. /\ b.n \in 0..(Size - 1) /\ b.keys \in [Slots -> Ids]
          /\ [b.keys EXCEPT ![Size - 1] = top'] \in [Slots -> Ids]
      BY <1>2 DEF Block
    <2>2. [b EXCEPT !.keys[Size - 1] = top'] \in Block
      BY <2>1 DEF Block
    <2>3. ASSUME NEW s \in 0..(b.n - 1) PROVE s \in Slots /\ s # Size - 1
      BY <2>1, Sizes DEF Slots
    <2>4. SameBlock([b EXCEPT !.keys[Size - 1] = top'], b)
      BY <2>1, <2>3 DEF SameBlock, Block
    <2>5. QED
      BY <2>1, <2>2, <2>4
  <1>8. /\ blk' \in Block /\ right' \in Block
        /\ SameBlock(blk', blk) /\ SameBlock(right', right)
    BY <1>2, <1>4, <1>7
  <1>9. Types'
    BY <1>1, <1>2, <1>3, <1>6, <1>8 DEF Types
  <1>10. Extends(cache, cache')
    BY <1>1, <1>6, FileTypes DEF Extends
  <1>11. RecordsMarked(cache')
    <2>1. cache.nodes.root = leafId
      BY <1>2, <1>4 DEF HalvesSaved
    <2>2. cache'.nodes.root < cache'.nodes.used
      BY <1>1, <1>4, <1>5, <1>6, <2>1, FileTypes, Sizes
    <2>3. QED
      BY <1>1, <1>6, <2>2 DEF Streamed, RecordsMarked
  <1>12. Streamed'
    BY <1>1, <1>2, <1>6, <1>10, <1>11, WriteStreams
  <1>13. HalfStep
    BY <1>2, <1>3, <1>6, <1>8, <1>9, <1>12 DEF HalfStep
  <1>14. HalvesSaved'
    <2>1. /\ cache.nodes.root = leafId /\ cache.nodes.rec[leafId].leaf
          /\ SameBlock(cache.nodes.rec[leafId], blk) /\ SameBlock(cache.nodes.rec[newId], right)
      BY <1>2, <1>4 DEF HalvesSaved
    <2>2. SameBlock(cache.nodes.rec[leafId], blk') /\ SameBlock(cache.nodes.rec[newId], right')
      BY <1>8, <2>1, SameAsBoth
    <2>3. /\ top' \notin {leafId, newId} /\ top' < cache'.nodes.used
          /\ leafId < cache'.nodes.used /\ newId < cache'.nodes.used
      BY <1>1, <1>2, <1>4, <1>5, <1>6, FileTypes, Sizes
    <2>4. QED
      BY <1>2, <1>4, <1>5, <1>6, <2>1, <2>2, <2>3 DEF HalvesSaved
  <1>15. HalfView'
    BY <1>2 DEF HalfView
  <1>16. QED
    BY <1>2, <1>3, <1>13, <1>14, <1>15, HalvesKeep

\* make_new_root saves it.
LEMMA SaveTopInv ==
  ASSUME TreeInv, SaveTop
  PROVE  TreeInv'
  <1> DEFINE b == [NoBlock EXCEPT !.n = 1, !.keys[0] = right.keys[0],
                                  !.ptrs[0] = leafId, !.ptrs[1] = newId]
             f == [cache.nodes EXCEPT !.rec = [@ EXCEPT ![top] = b]]
  <1>1. Types /\ Streamed
    BY DEF TreeInv
  <1>2. /\ pc = "saveTop" /\ pc' = "saveTopHead" /\ Write("nodes", f)
        /\ UNCHANGED <<arg, tree, mem, kid, did, leafId, blk, newId, right, top,
                       life, known, last, cutoff, broken>>
    BY DEF SaveTop, SaveRecord, insertion, history
  <1>3. pc \in SplitPcs /\ pc' \in SplitPcs \ {"saveLeft"}
    BY <1>2 DEF SplitPcs
  <1>4. /\ right \in Block /\ leafId \in Ids /\ newId \in Ids /\ top \in Ids /\ HalvesSaved
        /\ right.keys[0] \in Ids
    BY <1>3, HalvesFacts, Sizes DEF Block
  <1>5. TopBlock(b) /\ b \in Block
    <2>1. NoBlock \in Block /\ NoBlock.leaf = FALSE
      BY Sizes DEF NoBlock, Zeros, Block
    <2>2. ASSUME NEW c \in Block
          PROVE  /\ [c EXCEPT !.n = 1] \in Block /\ [c EXCEPT !.n = 1].n = 1
                 /\ [c EXCEPT !.n = 1].leaf = c.leaf
      BY Sizes DEF Block
    <2>3. ASSUME NEW c \in Block, NEW x \in Ids
          PROVE  /\ [c EXCEPT !.keys[0] = x] \in Block /\ [c EXCEPT !.keys[0] = x].n = c.n
                 /\ [c EXCEPT !.keys[0] = x].leaf = c.leaf /\ [c EXCEPT !.keys[0] = x].keys[0] = x
      BY Sizes DEF Block
    <2>4. ASSUME NEW c \in Block, NEW x \in Ids, NEW s \in Slots
          PROVE  /\ [c EXCEPT !.ptrs[s] = x] \in Block /\ [c EXCEPT !.ptrs[s] = x].n = c.n
                 /\ [c EXCEPT !.ptrs[s] = x].leaf = c.leaf /\ [c EXCEPT !.ptrs[s] = x].keys = c.keys
                 /\ [c EXCEPT !.ptrs[s] = x].ptrs[s] = x
                 /\ \A t \in Slots : t # s => [c EXCEPT !.ptrs[s] = x].ptrs[t] = c.ptrs[t]
      BY DEF Block
    <2> DEFINE c1 == [NoBlock EXCEPT !.n = 1]
               c2 == [c1 EXCEPT !.keys[0] = right.keys[0]]
               c3 == [c2 EXCEPT !.ptrs[0] = leafId]
               c4 == [c3 EXCEPT !.ptrs[1] = newId]
    <2>5. b = c4
      OBVIOUS
    <2>6. c1 \in Block /\ c1.n = 1 /\ c1.leaf = FALSE
      BY <2>1, <2>2
    <2> HIDE DEF c1
    <2>7. c2 \in Block /\ c2.n = 1 /\ c2.leaf = FALSE /\ c2.keys[0] = right.keys[0]
      BY <1>4, <2>3, <2>6
    <2> HIDE DEF c2
    <2>8. c3 \in Block /\ c3.n = 1 /\ c3.leaf = FALSE /\ c3.keys[0] = right.keys[0] /\ c3.ptrs[0] = leafId
      BY <1>4, <2>4, <2>7, Sizes
    <2> HIDE DEF c3
    <2>9. /\ c4 \in Block /\ c4.n = 1 /\ c4.leaf = FALSE /\ c4.keys[0] = right.keys[0]
          /\ c4.ptrs[0] = leafId /\ c4.ptrs[1] = newId
      BY <1>4, <2>4, <2>8, Sizes
    <2> HIDE DEF c4, b
    <2>10. QED
      BY <2>5, <2>9 DEF TopBlock
  <1> HIDE DEF b
  <1>6. /\ f \in NodesFile /\ f.rec[top] = b /\ f.root = cache.nodes.root /\ f.used = cache.nodes.used
        /\ \A i \in Ids : i # top => f.rec[i] = cache.nodes.rec[i]
    BY <1>1, <1>4, <1>5, FileTypes DEF NodesFile
  <1> HIDE DEF f
  <1>7. /\ disk' \in AllFiles /\ cache' \in AllFiles
        /\ disk'.nodes = cache.nodes /\ cache'.nodes = f
        /\ UNCHANGED <<disk.names, disk.wires, cache.names, cache.wires>>
    BY <1>1, <1>2, <1>6, WriteNodes
  <1>8. Types'
    BY <1>1, <1>2, <1>3, <1>7 DEF Types
  <1>9. Extends(cache, cache') /\ RecordsMarked(cache')
    BY <1>1, <1>6, <1>7, FileTypes DEF Extends, Streamed, RecordsMarked
  <1>10. Streamed'
    BY <1>1, <1>2, <1>7, <1>9, WriteStreams
  <1>11. SameBlock(blk', blk) /\ SameBlock(right', right)
    BY <1>2 DEF SameBlock
  <1>12. HalfStep
    BY <1>2, <1>3, <1>7, <1>8, <1>10, <1>11 DEF HalfStep
  <1>13. HalvesSaved'
    BY <1>2, <1>4, <1>5, <1>6, <1>7 DEF HalvesSaved, TopBlock
  <1>14. HalfView'
    BY <1>2 DEF HalfView
  <1>15. QED
    BY <1>2, <1>3, <1>12, <1>13, <1>14, HalvesKeep

\* The new root enters the zone's header.
LEMMA SaveTopHeadInv ==
  ASSUME TreeInv, SaveTopHead
  PROVE  TreeInv'
  <1> DEFINE f == [cache.nodes EXCEPT !.root = top]
  <1>1. Types /\ Streamed
    BY DEF TreeInv
  <1>2. /\ pc = "saveTopHead" /\ pc' = "saveLeftAgain" /\ Write("nodes", f)
        /\ UNCHANGED <<arg, tree, mem, kid, did, leafId, blk, newId, right, top,
                       life, known, last, cutoff, broken>>
    BY DEF SaveTopHead, SaveRootId, insertion, history
  <1>3. pc \in SplitPcs /\ pc' \in SplitPcs \ {"saveLeft"}
    BY <1>2 DEF SplitPcs
  <1>4. top \in Ids /\ HalvesSaved /\ top < cache.nodes.used
    BY <1>2, <1>3, HalvesFacts DEF HalvesSaved
  <1>5. f \in NodesFile /\ f.rec = cache.nodes.rec /\ f.root = top /\ f.used = cache.nodes.used
    BY <1>1, <1>4, FileTypes DEF NodesFile
  <1> HIDE DEF f
  <1>6. /\ disk' \in AllFiles /\ cache' \in AllFiles
        /\ disk'.nodes = cache.nodes /\ cache'.nodes = f
        /\ UNCHANGED <<disk.names, disk.wires, cache.names, cache.wires>>
    BY <1>1, <1>2, <1>5, WriteNodes
  <1>7. Types'
    BY <1>1, <1>2, <1>3, <1>6 DEF Types
  <1>8. Extends(cache, cache') /\ RecordsMarked(cache')
    BY <1>1, <1>4, <1>5, <1>6, FileTypes DEF Extends, Streamed, RecordsMarked
  <1>9. Streamed'
    BY <1>1, <1>2, <1>6, <1>8, WriteStreams
  <1>10. SameBlock(blk', blk) /\ SameBlock(right', right)
    BY <1>2 DEF SameBlock
  <1>11. HalfStep
    BY <1>2, <1>3, <1>6, <1>7, <1>9, <1>10 DEF HalfStep
  <1>12. HalvesSaved'
    BY <1>2, <1>4, <1>5, <1>6 DEF HalvesSaved, TopBlock
  <1>13. HalfView'
    BY <1>2 DEF HalfView
  <1>14. QED
    BY <1>2, <1>3, <1>11, <1>12, <1>13, HalvesKeep

\* The last save of make_new_root.
LEMMA SaveRightAgainInv ==
  ASSUME TreeInv, SaveRightAgain
  PROVE  TreeInv'
  <1> DEFINE f == [cache.nodes EXCEPT !.rec = [@ EXCEPT ![newId] = right]]
  <1>1. Types /\ Streamed
    BY DEF TreeInv
  <1>2. /\ pc = "saveRightAgain" /\ pc' = "idle" /\ arg' = NoName /\ Write("nodes", f)
        /\ tree' = "inner" /\ known' = known \cup {arg} /\ last' = arg /\ cutoff' = cutoff \ {arg}
        /\ UNCHANGED <<mem, kid, did, leafId, blk, newId, right, top, life, broken>>
    BY DEF SaveRightAgain, SaveRecord, Created, CreatedBut, Return, insertion
  <1>3. pc \in SplitPcs
    BY <1>2 DEF SplitPcs
  <1>4. /\ blk \in Block /\ right \in Block /\ leafId \in Ids /\ newId \in Ids /\ leafId # newId
        /\ top \in Ids /\ HalvesSorted /\ HalvesHold /\ HalvesSaved
        /\ \A e \in Both : e.key \in Ids /\ e.data \in Ids
    BY <1>3, HalvesFacts
  <1>5. /\ cache.nodes.root = top /\ top \notin {leafId, newId} /\ SameBlock(cache.nodes.rec[leafId], blk)
        /\ TopBlock(cache.nodes.rec[top])
    BY <1>2, <1>4 DEF HalvesSaved
  <1>6. /\ f \in NodesFile /\ f.rec[newId] = right /\ f.root = cache.nodes.root /\ f.used = cache.nodes.used
        /\ \A i \in Ids : i # newId => f.rec[i] = cache.nodes.rec[i]
    BY <1>1, <1>4, FileTypes DEF NodesFile
  <1> HIDE DEF f
  <1>7. /\ disk' \in AllFiles /\ cache' \in AllFiles
        /\ disk'.nodes = cache.nodes /\ cache'.nodes = f
        /\ UNCHANGED <<disk.names, disk.wires, cache.names, cache.wires>>
    BY <1>1, <1>2, <1>6, WriteNodes
  <1>8. /\ cache.names.rec[kid] = arg /\ arg \in Names \ Present
        /\ New.key = kid /\ New.data = did /\ New \notin broken /\ Whole(cache, New)
    BY <1>3, NewWhole
  <1>9. Types'
    BY <1>1, <1>2, <1>7, <1>8 DEF Types
  <1>10. Extends(cache, cache') /\ RecordsMarked(cache')
    BY <1>1, <1>6, <1>7, FileTypes DEF Extends, Streamed, RecordsMarked
  <1>11. Streamed'
    BY <1>1, <1>2, <1>7, <1>10, WriteStreams
  <1>12. SameBlock(blk', blk) /\ SameBlock(right', right) /\ SameBlock(right, right)
    BY <1>2 DEF SameBlock
  <1>13. HalfStep
    BY <1>2, <1>3, <1>7, <1>9, <1>11, <1>12 DEF HalfStep
  <1>14. \A e : (Whole(cache', e) <=> Whole(cache, e)) /\ (Whole(disk', e) <=> Whole(disk, e))
    BY <1>13, HalfStepKeeps
  <1>15. Entries(cache.nodes) = Both /\ SortedIn(cache.nodes, cache.names.rec)
    BY <1>1, <1>2, <1>3, <1>4, HalvesTree DEF TreeOfHalves
  <1>16. Entries(cache'.nodes) = Both /\ SortedIn(cache'.nodes, cache.names.rec)
    <2> DEFINE rec == cache.names.rec
    <2>1. rec \in [Ids -> Nat]
      BY <1>13, HalfStepKeeps
    <2>2. /\ blk.leaf /\ right.n = Size - Half /\ Ascending(blk, rec) /\ Ascending(right, rec)
          /\ \A s \in 0..(blk.n - 1), t \in 0..(right.n - 1) : rec[blk.keys[s]] < rec[right.keys[t]]
      BY <1>4 DEF HalvesSorted
    <2>3. \A s \in 0..(right.n - 1) : rec[right.keys[s]] # NoName
      <3> SUFFICES ASSUME NEW s \in 0..(right.n - 1) PROVE rec[right.keys[s]] # NoName
        OBVIOUS
      <3>1. [key |-> right.keys[s], data |-> right.ptrs[s]] \in Both
        BY <1>4, EntryOfSlot DEF Both
      <3>2. QED
        BY <1>4, <3>1 DEF HalvesSorted
    <2>4. /\ f.root \in Ids /\ f.root # leafId
          /\ f.rec[f.root].n = 1 /\ ~f.rec[f.root].leaf /\ f.rec[f.root].keys[0] = right.keys[0]
          /\ f.rec[f.root].ptrs[0] = leafId /\ f.rec[f.root].ptrs[1] = newId
          /\ SameBlock(f.rec[newId], right) /\ SameBlock(f.rec[leafId], blk)
      BY <1>4, <1>5, <1>6, <1>12 DEF TopBlock
    <2> HIDE DEF rec
    <2>5. f \in NodesFile /\ blk \in Block /\ right \in Block /\ leafId \in Ids /\ newId \in Ids
      BY <1>4, <1>6
    <2>6. Entries(f) = Keys(blk) \cup Keys(right) /\ SortedIn(f, rec)
      BY <2>1, <2>2, <2>3, <2>4, <2>5, HalvesOnFile
    <2>7. QED
      BY <1>7, <2>6 DEF Both, rec
  <1>17. \A e \in Both : /\ e.key < disk.names.used /\ e.data < disk.wires.used
                         /\ e \in broken <=> ~Whole(cache, e)
                         /\ e \in broken \/ Whole(disk, e) \/ e \in {New}
    BY <1>4 DEF HalvesHold, OnDiskOr
  <1>18. NodesGood'
    <2>1. /\ Taken(cache'.nodes, disk.names.used, disk.wires.used)
          /\ Taken(cache.nodes, disk.names.used, disk.wires.used)
      BY <1>15, <1>16, <1>17 DEF Taken
    <2>2. QED
      BY <1>7, <1>15, <1>16, <2>1 DEF NodesGood
  <1>19. TreeByPc' /\ NoTree' /\ LeafOnly' /\ LeafView' /\ AllNamed' /\ FreshWire' /\ FreshName'
         /\ Named' /\ Wired' /\ NewLeaf' /\ Halves' /\ HalfView' /\ Lag'
    BY <1>2 DEF TreeByPc, NoTree, LeafOnly, LeafView, AllNamed, FreshWire, FreshName, Named, Wired,
                NewLeaf, Halves, HalfView, Lag, Making, NewPcs, SplitPcs
  <1>20. KnownOn'
    <2>1. Entries(cache'.nodes) \ Broken(cache') = {e \in Both : Whole(cache, e)}
      BY <1>14, <1>16 DEF Broken
    <2>2. NamesOn(cache') = {cache.names.rec[e.key] : e \in {e \in Both : Whole(cache, e)}}
      BY <1>7, <2>1 DEF NamesOn
    <2>3. Present' = Present \cup {arg}
      BY <1>2, <1>8 DEF Present
    <2>4. QED
      BY <1>4, <2>2, <2>3 DEF KnownOn, HalvesHold
  <1>21. BrokenFrom'
    BY <1>2, <1>3, <1>7, <1>14, <1>16, <1>17 DEF TreeInv, BrokenFrom, Alive, NewPcs, SplitPcs
  <1>22. DiskWhole'
    <2>1. New' = New /\ broken' = broken
      BY <1>2 DEF New
    <2>2. QED
      BY <1>2, <1>7, <1>8, <1>14, <1>15, <1>17, <2>1 DEF DiskWhole, Renamed, NewPcs
  <1>23. OnlyUpperHalfLost'
    <2>1. Present \subseteq NamesOn(disk')
      BY <1>13, <1>15, HalvesOnDisk
    <2>2. QED
      BY <1>2, <2>1 DEF OnlyUpperHalfLost, Present
  <1>24. QED
    BY <1>9, <1>11, <1>18, <1>19, <1>20, <1>21, <1>22, <1>23 DEF TreeInv

\* How a full leaf and the new entry are shared out to two blocks.
SharedOut(keys, ptrs, names, rec, b, c) ==
  /\ \A s \in 0..(Size - 1) : names[s] \in Names /\ rec[keys[s]] = names[s]
  /\ \A s, t \in 0..(Size - 1) : s < t => names[s] < names[t]
  /\ b.n = Half /\ \A s \in 0..(Half - 1) : b.keys[s] = keys[s] /\ b.ptrs[s] = ptrs[s]
  /\ c.n = Size - Half
  /\ \A s \in 0..(Size - Half - 1) : c.keys[s] = keys[s + Half] /\ c.ptrs[s] = ptrs[s + Half]

\* The split's two halves hold the entries of the temporary arrays and are in order.
LEMMA Shared ==
  ASSUME NEW keys, NEW ptrs, NEW names, NEW rec, NEW b, NEW c,
         SharedOut(keys, ptrs, names, rec, b, c)
  PROVE  /\ Keys(b) \cup Keys(c) = {[key |-> keys[s], data |-> ptrs[s]] : s \in 0..(Size - 1)}
         /\ Ascending(b, rec) /\ Ascending(c, rec)
         /\ \A e \in Keys(b) \cup Keys(c) : rec[e.key] # NoName
         /\ \A s \in 0..(b.n - 1), t \in 0..(c.n - 1) : rec[b.keys[s]] < rec[c.keys[t]]
  <1> DEFINE E(s) == [key |-> keys[s], data |-> ptrs[s]]
             L == 0..(Half - 1)
             H == 0..(Size - Half - 1)
             A == 0..(Size - 1)
  <1> USE DEF SharedOut
  <1>1. /\ \A s \in L : s \in A
        /\ \A s \in H : s + Half \in A
        /\ \A s \in A : s \in L \/ (s - Half \in H /\ (s - Half) + Half = s)
        /\ \A s \in L, t \in H : s < t + Half
        /\ \A s, t \in H : s < t => s + Half < t + Half
    BY Sizes
  <1>2. 0..(b.n - 1) = L /\ 0..(c.n - 1) = H
    OBVIOUS
  <1>3. Keys(b) = {E(s) : s \in L}
    BY <1>2 DEF Keys
  <1>4. Keys(c) = {E(s + Half) : s \in H}
    BY <1>2 DEF Keys
  <1>5. Keys(b) \cup Keys(c) = {E(s) : s \in A}
    <2>1. \A e \in Keys(b) \cup Keys(c) : \E s \in A : e = E(s)
      BY <1>1, <1>3, <1>4
    <2>2. ASSUME NEW s \in A PROVE E(s) \in Keys(b) \cup Keys(c)
      <3>1. CASE s \in L
        BY <1>3, <3>1
      <3>2. CASE s - Half \in H /\ (s - Half) + Half = s
        BY <1>4, <3>2
      <3>3. QED
        BY <1>1, <3>1, <3>2
    <2> HIDE DEF E, A
    <2>3. QED
      BY <2>1, <2>2
  <1>6. Ascending(b, rec)
    <2> SUFFICES ASSUME NEW s \in L, NEW t \in L, s < t PROVE rec[b.keys[s]] < rec[b.keys[t]]
      BY <1>2 DEF Ascending
    <2>1. names[s] < names[t]
      BY <1>1
    <2>2. QED
      BY <1>1, <2>1
  <1>7. Ascending(c, rec)
    <2> SUFFICES ASSUME NEW s \in H, NEW t \in H, s < t PROVE rec[c.keys[s]] < rec[c.keys[t]]
      BY <1>2 DEF Ascending
    <2>1. s + Half \in A /\ t + Half \in A /\ s + Half < t + Half
      BY <1>1
    <2>2. names[s + Half] < names[t + Half]
      BY <2>1
    <2>3. QED
      BY <2>1, <2>2
  <1>8. \A e \in Keys(b) \cup Keys(c) : rec[e.key] # NoName
    <2> SUFFICES ASSUME NEW s \in A PROVE rec[E(s).key] # NoName
      BY <1>5
    <2>1. QED
      BY Sizes
  <1>9. \A s \in L, t \in H : rec[b.keys[s]] < rec[c.keys[t]]
    <2> SUFFICES ASSUME NEW s \in L, NEW t \in H PROVE rec[b.keys[s]] < rec[c.keys[t]]
      OBVIOUS
    <2>1. s \in A /\ t + Half \in A /\ s < t + Half
      BY <1>1
    <2>2. names[s] < names[t + Half]
      BY <2>1
    <2>3. QED
      BY <2>1, <2>2
  <1>10. QED
    BY <1>2, <1>5, <1>6, <1>7, <1>8, <1>9

\* A block with other contents is a block.
LEMMA BlockWithRows ==
  ASSUME NEW b \in Block, NEW n \in 0..(Size - 1), NEW k \in [Slots -> Ids], NEW p \in [Slots -> Ids]
  PROVE  /\ [b EXCEPT !.n = n, !.keys = k, !.ptrs = p] \in Block
         /\ [b EXCEPT !.n = n, !.ptrs = p, !.keys = k] \in Block
  BY DEF Block

\* insert_into_leaf_after_splitting shares the entries between the old leaf and a new one.
LEMMA SplitInv ==
  ASSUME TreeInv, Split
  PROVE  TreeInv'
  <1> DEFINE i     == Index(arg)
             keys  == Shifted(blk.keys, i, Size - 1, kid)
             ptrs  == Shifted(blk.ptrs, i, Size - 1, did)
             names == Shifted(mem.keys, i, Size - 1, arg)
             objs  == Shifted(mem.objs, i, Size - 1, did)
             Low(g, h) == [s \in Slots |-> IF s < Half THEN g[s] ELSE h[s]]
             High(g)   == [s \in Slots |-> IF s < Size - Half THEN g[s + Half] ELSE 0]
             f == [cache.nodes EXCEPT !.used = newId' + 1]
  <1>1. Types /\ Streamed
    BY DEF TreeInv
  <1>2. /\ pc = "insert" /\ tree = "leaf" /\ ~(mem.n < Size - 1) /\ pc' = "saveLeft"
        /\ newId' \in Ids /\ newId' = cache.nodes.used /\ newId' < MaxIds /\ Write("nodes", f)
        /\ mem' = [mem EXCEPT !.n = Half, !.keys = Low(names, mem.keys), !.objs = Low(objs, mem.objs)]
        /\ blk' = [blk EXCEPT !.n = Half, !.keys = Low(keys, @),
                              !.ptrs = [Low(ptrs, @) EXCEPT ![Size - 1] = newId']]
        /\ right' = [NoBlock EXCEPT !.n = Size - Half, !.ptrs = High(ptrs),
                       !.keys = [High(keys) EXCEPT ![Size - 1] = blk.keys[Size - 1]]]
        /\ UNCHANGED <<arg, tree, kid, did, leafId, top, life, known, last, cutoff, broken>>
    BY DEF Split, Take, RoomInLeaf, history
  <1>3. /\ blk \in Block /\ blk.leaf /\ mem.n = blk.n
        /\ cache.nodes.root = leafId /\ leafId # NoId /\ cache.nodes.rec[leafId] = blk
        /\ Leaves(cache.nodes) = {blk} /\ Entries(cache.nodes) = Keys(blk)
    BY <1>2, LeafEntries DEF Alive, SplitPcs
  <1>4. /\ mem.n = Size - 1 /\ Size - 1 \in Nat /\ i \in Nat
        /\ mem.keys \in [Slots -> Names \cup {NoName}] /\ mem.objs \in [Slots -> Ids \cup {NoId}]
        /\ arg \in Names /\ leafId \in Ids
        /\ blk.keys \in [Slots -> Ids] /\ blk.ptrs \in [Slots -> Ids] /\ kid \in Ids /\ did \in Ids
    <2>1. mem.n \in 0..(Size - 1) /\ i \in 0..mem.n
      BY <1>1, <1>2, LeafInOrder DEF Types, Leaf
    <2>2. mem.n = Size - 1 /\ Size - 1 \in Nat /\ i \in Nat
      BY <1>2, <2>1, Sizes
    <2>3. QED
      BY <1>1, <1>2, <1>3, <2>2, LeafInOrder DEF Types, Block, Leaf
  <1>5. keys \in [Slots -> Ids] /\ ptrs \in [Slots -> Ids]
    BY <1>4, ShiftedType
  <1>6. names \in [Slots -> Names \cup {NoName}] /\ objs \in [Slots -> Ids \cup {NoId}]
    BY <1>4, ShiftedType
  <1>7. /\ \A s \in 0..(Size - 1) : names[s] \in Names /\ cache.names.rec[keys[s]] = names[s]
                                       /\ objs[s] \in {NoId, ptrs[s]}
        /\ \A s, t \in 0..(Size - 1) : s < t => names[s] < names[t]
        /\ {[key |-> keys[s], data |-> ptrs[s]] : s \in 0..(Size - 1)} = Keys(blk) \cup {New}
    <2>1. mem.n <= Size - 1
      BY <1>4
    <2>2. /\ \A s \in 0..mem.n : names[s] \in Names /\ cache.names.rec[keys[s]] = names[s]
                                   /\ objs[s] \in {NoId, ptrs[s]}
          /\ \A s, t \in 0..mem.n : s < t => names[s] < names[t]
          /\ {[key |-> keys[s], data |-> ptrs[s]] : s \in 0..mem.n} = Keys(blk) \cup {New}
      BY <1>2, <1>4, <2>1, Entered
    <2>3. QED
      BY <1>4, <2>2
  <1> HIDE DEF keys, ptrs, names, objs, i
  <1>8. /\ mem' \in Leaf /\ mem'.n = Half
        /\ \A s \in 0..(Half - 1) : mem'.keys[s] = names[s] /\ mem'.objs[s] = objs[s]
    <2> DEFINE k == Low(names, mem.keys)
               o == Low(objs, mem.objs)
    <2>1. k \in [Slots -> Names \cup {NoName}] /\ o \in [Slots -> Ids \cup {NoId}]
      BY <1>4, <1>6
    <2>2. \A s \in 0..(Half - 1) : k[s] = names[s] /\ o[s] = objs[s]
      <3>1. \A s \in 0..(Half - 1) : s \in Slots /\ s < Half
        BY Sizes DEF Slots
      <3>2. QED
        BY <3>1
    <2>3. mem' = [mem EXCEPT !.n = Half, !.keys = k, !.objs = o] /\ mem \in Leaf
      BY <1>1, <1>2 DEF Types
    <2>4. Half \in 0..(Size - 1)
      BY Sizes
    <2> HIDE DEF k, o
    <2>5. mem' \in Leaf /\ mem'.n = Half /\ mem'.keys = k /\ mem'.objs = o
      BY <2>1, <2>3, <2>4 DEF Leaf
    <2>6. QED
      BY <2>2, <2>5
  <1>9. /\ blk' \in Block /\ blk'.n = Half /\ blk'.leaf
        /\ \A s \in 0..(Half - 1) : blk'.keys[s] = keys[s] /\ blk'.ptrs[s] = ptrs[s]
    <2>1. Low(keys, blk.keys) \in [Slots -> Ids] /\ Low(ptrs, blk.ptrs) \in [Slots -> Ids]
      BY <1>4, <1>5
    <2>2. [Low(ptrs, blk.ptrs) EXCEPT ![Size - 1] = newId'] \in [Slots -> Ids]
      BY <1>2, <2>1
    <2>3. /\ blk'.n = Half /\ blk'.leaf = blk.leaf /\ blk'.keys = Low(keys, blk.keys)
          /\ blk'.ptrs = [Low(ptrs, blk.ptrs) EXCEPT ![Size - 1] = newId']
      BY <1>2, <1>3 DEF Block
    <2>4. blk' \in Block
      <3>1. Half \in 0..(Size - 1)
        BY Sizes
      <3> DEFINE k == Low(keys, blk.keys)
                 p == [Low(ptrs, blk.ptrs) EXCEPT ![Size - 1] = newId']
      <3>2. k \in [Slots -> Ids] /\ p \in [Slots -> Ids]
        BY <2>1, <2>2
      <3>3. blk' = [blk EXCEPT !.n = Half, !.keys = k, !.ptrs = p]
        BY <1>2
      <3>4. blk \in Block
        BY <1>3
      <3> HIDE DEF k, p
      <3>5. [blk EXCEPT !.n = Half, !.keys = k, !.ptrs = p] \in Block
        BY <3>1, <3>2, <3>4, BlockWithRows
      <3>6. QED
        BY <3>3, <3>5
    <2>5. \A s \in 0..(Half - 1) : s \in Slots /\ s < Half /\ s # Size - 1
      BY Sizes DEF Slots
    <2>6. \A s \in 0..(Half - 1) : blk'.keys[s] = keys[s] /\ blk'.ptrs[s] = ptrs[s]
      BY <2>1, <2>3, <2>5
    <2>7. QED
      BY <1>3, <2>3, <2>4, <2>6
  <1>10. /\ right' \in Block /\ right'.n = Size - Half
         /\ \A s \in 0..(Size - Half - 1) : right'.keys[s] = keys[s + Half] /\ right'.ptrs[s] = ptrs[s + Half]
    <2>1. High(keys) \in [Slots -> Ids] /\ High(ptrs) \in [Slots -> Ids]
      <3>1. \A s \in Slots : s < Size - Half => s + Half \in Slots
        BY Sizes DEF Slots
      <3>2. QED
        BY <1>5, <3>1, Sizes
    <2>2. [High(keys) EXCEPT ![Size - 1] = blk.keys[Size - 1]] \in [Slots -> Ids]
      BY <1>4, <2>1, Sizes
    <2>3. NoBlock \in Block
      BY Sizes DEF NoBlock, Zeros, Block
    <2>4. /\ right'.n = Size - Half /\ right'.ptrs = High(ptrs)
          /\ right'.keys = [High(keys) EXCEPT ![Size - 1] = blk.keys[Size - 1]]
      BY <1>2, <2>3 DEF Block
    <2>5. right' \in Block
      <3>1. Size - Half \in 0..(Size - 1)
        BY Sizes
      <3> HIDE DEF High
      <3>2. QED
        BY <1>2, <2>1, <2>2, <2>3, <3>1, BlockWithRows
    <2>6. \A s \in 0..(Size - Half - 1) : s \in Slots /\ s < Size - Half /\ s # Size - 1
      BY Sizes DEF Slots
    <2>7. \A s \in 0..(Size - Half - 1) : right'.keys[s] = keys[s + Half] /\ right'.ptrs[s] = ptrs[s + Half]
      BY <2>1, <2>4, <2>6
    <2>8. QED
      BY <2>4, <2>5, <2>7
  <1>11. /\ f \in NodesFile /\ f.rec = cache.nodes.rec /\ f.root = cache.nodes.root
         /\ f.used = cache.nodes.used + 1
    BY <1>1, <1>2, FileTypes DEF NodesFile
  <1>12. /\ disk' \in AllFiles /\ cache' \in AllFiles
         /\ disk'.nodes = cache.nodes /\ cache'.nodes = f
         /\ UNCHANGED <<disk.names, disk.wires, cache.names, cache.wires>>
    BY <1>1, <1>2, <1>11, WriteNodes
  <1>13. /\ cache.names.rec[kid] = arg /\ kid < disk.names.used /\ did < disk.wires.used
         /\ arg \in Names \ Present
         /\ New.key = kid /\ New.data = did /\ New \notin broken /\ Whole(cache, New)
    BY <1>2, NewWhole
  <1>14. \A e : (Whole(cache', e) <=> Whole(cache, e)) /\ (Whole(disk', e) <=> Whole(disk, e))
    BY <1>12 DEF Whole
  <1>15. /\ \A e \in Entries(cache.nodes) : e \in broken \/ Whole(disk, e)
         /\ Present \subseteq NamesOn(disk')
    BY <1>2, <1>12, LeafOnDisk
  <1>16. /\ Leaves(cache'.nodes) = {blk} /\ Entries(cache'.nodes) = Keys(blk)
         /\ cache'.nodes.root = leafId /\ cache'.nodes.rec = cache.nodes.rec
    <2>1. cache'.nodes.root = cache.nodes.root /\ cache'.nodes.rec = cache.nodes.rec
      BY <1>11, <1>12
    <2>2. Leaves(cache'.nodes) = Leaves(cache.nodes) /\ Entries(cache'.nodes) = Entries(cache.nodes)
      BY <2>1, SameEntries
    <2>3. QED
      BY <1>3, <2>1, <2>2
  <1>17. Types'
    BY <1>1, <1>2, <1>8, <1>9, <1>10, <1>12 DEF Types, SplitPcs
  <1>18. leafId < cache.nodes.used /\ cache.nodes.used \in Nat /\ leafId \in Nat
    BY <1>1, <1>3, <1>4, FileTypes, Sizes DEF Streamed, RecordsMarked
  <1>19. Extends(cache, cache')
    BY <1>1, <1>12, FileTypes DEF Extends
  <1>20. RecordsMarked(cache')
    BY <1>1, <1>3, <1>11, <1>12, <1>18 DEF Streamed, RecordsMarked
  <1>21. Streamed'
    BY <1>1, <1>2, <1>12, <1>19, <1>20, WriteStreams
  <1>22. Taken(cache.nodes, disk.names.used, disk.wires.used) /\ SortedIn(cache.nodes, cache.names.rec)
    BY DEF TreeInv, NodesGood
  <1>23. NodesGood'
    <2>1. Taken(cache'.nodes, disk.names.used, disk.wires.used)
      BY <1>3, <1>16, <1>22 DEF Taken
    <2>2. SortedIn(cache'.nodes, cache.names.rec)
      BY <1>3, <1>16, <1>22 DEF SortedIn
    <2>3. QED
      BY <1>12, <1>22, <2>1, <2>2 DEF NodesGood
  <1>24. TreeByPc' /\ NoTree' /\ LeafOnly' /\ LeafView' /\ AllNamed' /\ KnownOn' /\ FreshWire'
         /\ FreshName' /\ NewLeaf' /\ Lag'
    BY <1>2, <1>13 DEF TreeByPc, Present, NoTree, LeafOnly, LeafView, AllNamed, KnownOn, FreshWire,
                       FreshName, NewLeaf, Lag, Making, NewPcs, SplitPcs
  <1>25. Named' /\ Wired'
    BY <1>2, <1>12 DEF TreeInv, Named, Wired, SplitPcs
  <1>26. BrokenFrom'
    BY <1>2, <1>3, <1>12, <1>14, <1>16 DEF TreeInv, BrokenFrom, Alive, SplitPcs
  <1>27. New' = New /\ broken' = broken
    BY <1>2 DEF New
  <1>28. DiskWhole'
    BY <1>2, <1>12, <1>14, <1>15, <1>27 DEF DiskWhole
  <1>29. OnlyUpperHalfLost'
    BY <1>2, <1>15 DEF OnlyUpperHalfLost, Present
  <1>30. /\ Both' = Keys(blk) \cup {New}
         /\ Ascending(blk', cache.names.rec) /\ Ascending(right', cache.names.rec)
         /\ \A e \in Both' : cache.names.rec[e.key] # NoName
         /\ \A s \in 0..(blk'.n - 1), t \in 0..(right'.n - 1) :
              cache.names.rec[blk'.keys[s]] < cache.names.rec[right'.keys[t]]
    <2>1. /\ Keys(blk') \cup Keys(right') = Keys(blk) \cup {New}
          /\ Ascending(blk', cache.names.rec) /\ Ascending(right', cache.names.rec)
          /\ \A e \in Keys(blk') \cup Keys(right') : cache.names.rec[e.key] # NoName
          /\ \A s \in 0..(blk'.n - 1), t \in 0..(right'.n - 1) :
               cache.names.rec[blk'.keys[s]] < cache.names.rec[right'.keys[t]]
      <3>1. /\ \A s \in 0..(Size - 1) : names[s] \in Names /\ cache.names.rec[keys[s]] = names[s]
            /\ \A s, t \in 0..(Size - 1) : s < t => names[s] < names[t]
        BY <1>7
      <3>2. /\ blk'.n = Half /\ right'.n = Size - Half
            /\ \A s \in 0..(Half - 1) : blk'.keys[s] = keys[s] /\ blk'.ptrs[s] = ptrs[s]
            /\ \A s \in 0..(Size - Half - 1) : /\ right'.keys[s] = keys[s + Half]
                                                /\ right'.ptrs[s] = ptrs[s + Half]
        BY <1>9, <1>10
      <3>3. /\ Keys(blk') \cup Keys(right') =
                 {[key |-> keys[s], data |-> ptrs[s]] : s \in 0..(Size - 1)}
            /\ Ascending(blk', cache.names.rec) /\ Ascending(right', cache.names.rec)
            /\ \A e \in Keys(blk') \cup Keys(right') : cache.names.rec[e.key] # NoName
            /\ \A s \in 0..(blk'.n - 1), t \in 0..(right'.n - 1) :
                 cache.names.rec[blk'.keys[s]] < cache.names.rec[right'.keys[t]]
        <4>1. SharedOut(keys, ptrs, names, cache.names.rec, blk', right')
          BY <3>1, <3>2 DEF SharedOut
        <4>2. QED
          BY <4>1, Shared
      <3>4. QED
        BY <1>7, <3>3
    <2>2. QED
      BY <2>1 DEF Both
  <1>31. HalvesSorted'
    BY <1>9, <1>10, <1>12, <1>30 DEF HalvesSorted
  <1>32. HalvesHold'
    <2> DEFINE B == Keys(blk) \cup {New}
    <2>1. {cache.names.rec[e.key] : e \in {e \in B : Whole(cache, e)}} = Present \cup {arg}
      <3>1. NamesOn(cache) = Present
        BY <1>2 DEF TreeInv, KnownOn, Alive, SplitPcs
      <3>2. NamesOn(cache) = {cache.names.rec[e.key] : e \in {e \in Keys(blk) : Whole(cache, e)}}
        <4>1. Entries(cache.nodes) \ Broken(cache) = {e \in Keys(blk) : Whole(cache, e)}
          BY <1>3 DEF Broken
        <4>2. QED
          BY <4>1 DEF NamesOn
      <3>3. {e \in B : Whole(cache, e)} = {e \in Keys(blk) : Whole(cache, e)} \cup {New}
        BY <1>13
      <3>4. QED
        BY <1>13, <3>1, <3>2, <3>3
    <2>2. \A e \in B : e.key < disk.names.used /\ e.data < disk.wires.used
      BY <1>3, <1>13, <1>22 DEF Taken
    <2>3. \A e \in B : e \in broken <=> ~Whole(cache, e)
      BY <1>2, <1>3, <1>13 DEF TreeInv, BrokenFrom, Alive
    <2>4. \A e \in B : e \in broken \/ Whole(disk, e) \/ e \in {New}
      BY <1>3, <1>15
    <2>5. {e \in B : Whole(cache', e)} = {e \in B : Whole(cache, e)}
      BY <1>14
    <2>6. Entries(disk'.nodes) \subseteq B /\ Entries(cache'.nodes) \subseteq B
      BY <1>3, <1>12, <1>16
    <2>7. arg' = arg /\ Present' = Present /\ Both' = B
      BY <1>2, <1>30 DEF Present
    <2>8. Keys(blk') \ {New} \subseteq Entries(cache'.nodes)
      BY <1>16, <1>30 DEF Both
    <2>9. Present \ UpperHalf' \subseteq NamesOn(disk')
      BY <1>15
    <2> HIDE DEF B
    <2>10. QED
      BY <1>12, <1>14, <1>27, <2>1, <2>2, <2>3, <2>4, <2>5, <2>6, <2>7, <2>8, <2>9
      DEF HalvesHold, OnDiskOr
  <1>33. HalvesSaved'
    <2>1. leafId' = leafId /\ leafId # newId' /\ leafId < cache'.nodes.used /\ newId' < cache'.nodes.used
      BY <1>2, <1>11, <1>12, <1>18
    <2>2. cache'.nodes.rec[leafId].leaf
      BY <1>3, <1>16
    <2>3. QED
      BY <1>2, <1>16, <2>1, <2>2 DEF HalvesSaved
  <1>34. HalfView'
    <2>1. \A s \in 0..(Half - 1) : s \in 0..(Size - 1)
      BY Sizes
    <2>2. \A s \in 0..(mem'.n - 1) : /\ mem'.keys[s] = cache'.names.rec[blk'.keys[s]]
                                     /\ mem'.objs[s] \in {NoId, blk'.ptrs[s]}
      BY <1>7, <1>8, <1>9, <1>12, <2>1
    <2>3. QED
      BY <1>2, <1>8, <1>9, <2>2 DEF HalfView
  <1>35. QED
    BY <1>17, <1>21, <1>23, <1>24, <1>25, <1>26, <1>28, <1>29, <1>31, <1>32, <1>33, <1>34
    DEF TreeInv, Halves

\* The leaf was restored and its parent leads to memory of no account: the process goes on
\* with the lower half.
LEMMA IntoNowhereInv ==
  ASSUME TreeInv, IntoNowhere
  PROVE  TreeInv'
  <1> DEFINE rec == cache.names.rec
  <1>1. Types /\ Streamed /\ NodesGood
    BY DEF TreeInv
  <1>2. /\ pc = "parent" /\ pc' = "idle" /\ arg' = NoName
        /\ known' = known \cup {arg} /\ last' = arg /\ cutoff' = (cutoff \ {arg}) \cup UpperHalf
        /\ UNCHANGED <<disk, cache, tree, mem, kid, did, leafId, blk, newId, right, top, life, broken>>
    BY DEF IntoNowhere, CreatedBut, Return, files, insertion
  <1>3. pc \in SplitPcs /\ Splitting
    BY <1>2 DEF SplitPcs, Splitting
  <1>4. /\ tree = "leaf" /\ blk \in Block /\ right \in Block /\ leafId \in Ids /\ leafId # NoId
        /\ HalvesSorted /\ HalvesHold /\ HalvesSaved /\ blk.leaf
        /\ \A e \in Both : e.key \in Ids /\ e.data \in Ids
    BY <1>3, HalvesFacts, Sizes DEF HalvesSorted
  <1>5. /\ cache.nodes.root = leafId /\ cache.nodes.rec[leafId] = blk
        /\ disk.nodes.root = leafId /\ disk.nodes.rec[leafId].leaf
        /\ mem.n = blk.n
        /\ \A s \in 0..(mem.n - 1) : /\ mem.keys[s] = rec[blk.keys[s]]
                                     /\ mem.objs[s] \in {NoId, blk.ptrs[s]}
    BY <1>2, <1>4 DEF TreeInv, HalfView, HalvesSaved
  <1>6. Entries(cache.nodes) = Keys(blk)
    BY <1>4, <1>5, OneLeaf
  <1>7. /\ arg \in Names \ Present /\ arg # NoName /\ New.key = kid /\ Whole(cache, New)
    BY <1>3, NewWhole
  <1>8. \A e \in Both : /\ e \in broken \/ Whole(disk, e) \/ e = New
                        /\ (e \in broken <=> ~Whole(cache, e))
    BY <1>4 DEF HalvesHold, OnDiskOr
  <1>9. /\ \A e \in Keys(right) : rec[e.key] \in UpperHalf
        /\ \A e \in Keys(blk) : rec[e.key] \notin UpperHalf
        /\ UpperHalf \subseteq Names
    <2>1. ASSUME NEW t \in 0..(right.n - 1) PROVE rec[right.keys[t]] \in Names
      <3>1. [key |-> right.keys[t], data |-> right.ptrs[t]] \in Both /\ right.keys[t] \in Ids
        BY <1>4, EntryOfSlot DEF Both
      <3>2. rec[right.keys[t]] # NoName
        BY <1>4, <3>1 DEF HalvesSorted
      <3>3. QED
        BY <1>1, <3>1, <3>2, FileTypes
    <2>2. \A e \in Keys(right) : rec[e.key] \in UpperHalf
      BY <1>4, EntryOfSlot DEF UpperHalf
    <2>3. ASSUME NEW e \in Keys(blk) PROVE rec[e.key] \notin UpperHalf
      <3>1. PICK s \in 0..(blk.n - 1) : e.key = blk.keys[s]
        BY <1>4, EntryOfSlot
      <3>2. ASSUME NEW t \in 0..(right.n - 1) PROVE rec[right.keys[t]] # rec[e.key]
        <4>1. rec[blk.keys[s]] < rec[right.keys[t]]
          BY <1>4 DEF HalvesSorted
        <4>2. rec[right.keys[t]] \in Nat
          BY <2>1, Sizes
        <4>3. QED
          BY <3>1, <4>1, <4>2
      <3>3. QED
        BY <3>2 DEF UpperHalf
    <2>4. QED
      BY <2>1, <2>2, <2>3 DEF UpperHalf
  <1>10. Present' = (Present \cup {arg}) \ UpperHalf
    BY <1>2, <1>7 DEF Present
  <1>11. NamesOn(cache) = (Present \cup {arg}) \ UpperHalf
    <2>1. NamesOn(cache) = {rec[e.key] : e \in {e \in Keys(blk) : Whole(cache, e)}}
      <3>1. Entries(cache.nodes) \ Broken(cache) = {e \in Keys(blk) : Whole(cache, e)}
        BY <1>6 DEF Broken
      <3>2. QED
        BY <3>1 DEF NamesOn
    <2>2. {rec[e.key] : e \in {e \in Both : Whole(cache, e)}} = Present \cup {arg}
      BY <1>4 DEF HalvesHold
    <2>3. Both = Keys(blk) \cup Keys(right)
      BY DEF Both
    <2> HIDE DEF rec
    <2>4. QED
      BY <1>9, <2>1, <2>2, <2>3
  <1>12. Types'
    BY <1>1, <1>2, <1>7, <1>9 DEF Types
  <1>13. Streamed' /\ NodesGood'
    BY <1>1, <1>2 DEF Streamed, NodesGood
  <1>14. TreeByPc' /\ NoTree' /\ FreshWire' /\ FreshName' /\ Named' /\ Wired' /\ NewLeaf' /\ Halves'
         /\ HalfView'
    BY <1>2, <1>4 DEF TreeByPc, NoTree, FreshWire, FreshName, Named, Wired, NewLeaf, Halves, HalfView,
                      Making, NewPcs, SplitPcs
  <1>15. LeafOnly' /\ LeafView'
    BY <1>2, <1>4, <1>5 DEF LeafOnly, LeafView
  <1>16. AllNamed'
    <2>1. \A s \in 0..(mem.n - 1) : mem.keys[s] # NoName
      <3> SUFFICES ASSUME NEW s \in 0..(blk.n - 1) PROVE rec[blk.keys[s]] # NoName
        BY <1>5
      <3>1. [key |-> blk.keys[s], data |-> blk.ptrs[s]] \in Both
        BY <1>4, EntryOfSlot DEF Both
      <3>2. QED
        BY <1>4, <3>1 DEF HalvesSorted
    <2>2. QED
      BY <1>2, <2>1 DEF AllNamed, Making
  <1>17. KnownOn'
    BY <1>2, <1>10, <1>11 DEF KnownOn
  <1>18. BrokenFrom'
    BY <1>2, <1>3, <1>6, <1>8 DEF TreeInv, BrokenFrom, Alive, Both, NewPcs, SplitPcs
  <1>19. Lag'
    <2>1. New' = New
      BY <1>2 DEF New
    <2>2. QED
      BY <1>2, <1>6, <1>8, <2>1 DEF Lag, OnDiskOr, Both
  <1>20. DiskWhole'
    <2>1. Entries(disk.nodes) \subseteq Both
      BY <1>4 DEF HalvesHold
    <2>2. QED
      BY <1>2, <1>7, <1>8, <2>1 DEF DiskWhole, Renamed, NewPcs
  <1>21. OnlyUpperHalfLost'
    <2>1. Present \ UpperHalf \subseteq NamesOn(disk)
      BY <1>4 DEF HalvesHold
    <2>2. known' \ ({last'} \cup cutoff') \subseteq Present \ UpperHalf
      BY <1>2 DEF Present
    <2>3. QED
      BY <1>2, <2>1, <2>2 DEF OnlyUpperHalfLost
  <1>22. QED
    BY <1>12, <1>13, <1>14, <1>15, <1>16, <1>17, <1>18, <1>19, <1>20, <1>21 DEF TreeInv

\* It leads to other memory, which is not followed.
LEMMA IntoAnythingInv ==
  ASSUME TreeInv, IntoAnything
  PROVE  TreeInv'
  <1>1. /\ pc = "parent" /\ pc' = "wild" /\ pc \in SplitPcs /\ pc' \in SplitPcs
        /\ UNCHANGED <<disk, cache, arg, tree, mem, kid, did, leafId, blk, newId, right, top,
                       life, known, last, cutoff, broken>>
    BY DEF IntoAnything, files, insertion, history, SplitPcs
  <1>2. Types' /\ Streamed' /\ NodesGood'
    BY <1>1 DEF TreeInv, Types, Streamed, NodesGood
  <1>3. TreeByPc'
    BY <1>1 DEF TreeInv, TreeByPc, Present, Making, NewPcs
  <1>4. NoTree' /\ LeafOnly' /\ LeafView' /\ AllNamed' /\ KnownOn' /\ NewLeaf' /\ HalfView'
    BY <1>1 DEF TreeInv, TreeByPc, NoTree, LeafOnly, LeafView, AllNamed, KnownOn, NewLeaf, HalfView,
                Making, NewPcs
  <1>5. FreshWire' /\ FreshName' /\ Lag'
    BY <1>1 DEF FreshWire, FreshName, Lag
  <1>6. Named' /\ Wired' /\ BrokenFrom'
    BY <1>1 DEF TreeInv, Named, Wired, BrokenFrom, Alive
  <1>7. DiskWhole'
    BY <1>1 DEF TreeInv, DiskWhole, Renamed, NewPcs, Alive
  <1>8. OnlyUpperHalfLost'
    BY <1>1 DEF TreeInv, OnlyUpperHalfLost, Splitting, UpperHalf
  <1>9. Halves'
    BY <1>1 DEF TreeInv, Halves, HalvesSorted, HalvesHold, HalvesSaved, Both, OnDiskOr, New,
                Present, UpperHalf
  <1>10. QED
    BY <1>2, <1>3, <1>4, <1>5, <1>6, <1>7, <1>8, <1>9 DEF TreeInv

-----------------------------------------------------------------------------
(* The theorems.                                                           *)

\* The invariant of the tree: files, memory and what is between two writes agree, for any
\* number of names and processes, any size of a node and whatever malloc left in the parent
\* of a restored leaf, up to a write through it; all theorems below follow from it.
THEOREM TreeInvHolds == Spec => []TreeInv
  <1>1. Init => TreeInv
    BY InitInv
  <1>2. TreeInv /\ [Next]_vars => TreeInv'
    <2> SUFFICES ASSUME TreeInv, [Next]_vars PROVE TreeInv'
      OBVIOUS
    <2>1. CASE UNCHANGED vars
      BY <2>1, StutterInv
    <2>2. CASE Start \/ Crash
      BY <2>2, StartInv, CrashInv
    <2>3. CASE NewWire
      BY <2>3, AllocWireInv, AllocNameInv, SaveNameInv, SaveWireInv DEF NewWire
    <2>4. CASE Insert
      BY <2>4, NewTreeInv, SaveNewTreeInv, SaveNewHeadInv, InsertInv DEF Insert
    <2>5. CASE NewRoot
      BY <2>5, SplitInv, SaveHalfInv, IntoNowhereInv, IntoAnythingInv, AllocTopInv, SaveTopInv,
         SaveTopHeadInv, SaveRightAgainInv
      DEF NewRoot
    <2>6. ASSUME NEW x \in Names, Search(x) PROVE TreeInv'
      BY <2>6, CreateInv, LoadInv, AttachInv, LostInv DEF Search
    <2>7. QED
      BY <2>1, <2>2, <2>3, <2>4, <2>5, <2>6 DEF Next
  <1>3. QED
    BY <1>1, <1>2, PTL DEF Spec

\* Between two calls of create_wireway and lookup_wireway the names in the three zone
\* files, as the process reads them, are those created or restored but for the upper halves
\* that insert_into_parent left without a parent, and the leaf in memory, its block and the
\* block's record agree slot by slot: however many names came in, through both loops of
\* insert_into_leaf, and whatever was lost by processes before.
THEOREM TreeViewsAgree == Spec => []ViewsAgree
  <1>1. TreeInv => ViewsAgree
    BY DEF TreeInv, KnownOn, Present, LeafView, ViewsAgree, Alive, SplitPcs
  <1>2. QED
    BY <1>1, TreeInvHolds, PTL

\* The leaves on disk ascend by name without a name twice, and the key of a new root
\* parts its two leaves, at whatever write of insert_into_leaf,
\* insert_into_leaf_after_splitting or make_new_root the process ended.
THEOREM TreeSorted == Spec => []Sorted
  <1>1. ASSUME TreeInv PROVE Sorted
    <2> DEFINE nodes == disk.nodes
               rec == disk.names.rec
               root == nodes.rec[nodes.root]
    <2>1. nodes \in NodesFile /\ SortedIn(nodes, cache.names.rec)
      BY <1>1, FileTypes DEF TreeInv, NodesGood
    <2>2. SortedIn(nodes, rec)
      <3>1. \A i \in Ids : rec[i] \in {NoName, cache.names.rec[i]}
        BY <1>1 DEF TreeInv, Streamed, Extends
      <3> HIDE DEF nodes, rec
      <3>2. QED
        BY <2>1, <3>1, SortedFewer
    <2>3. \A b \in Leaves(nodes) : Ascending(b, rec)
      BY <2>2 DEF SortedIn
    <2>4. ASSUME nodes.root # NoId, ~root.leaf, rec[root.keys[0]] # NoName
          PROVE  /\ Below(nodes.rec[root.ptrs[0]], rec, rec[root.keys[0]])
                 /\ NotBelow(nodes.rec[root.ptrs[1]], rec, rec[root.keys[0]])
      BY <2>2, <2>4 DEF SortedIn
    <2>5. ASSUME NEW b \in Leaves(nodes), NEW s \in Slots, NEW t \in Slots, s < t,
                 s \in 0..(b.n - 1), rec[b.keys[s]] # NoName,
                 t \in 0..(b.n - 1), rec[b.keys[t]] # NoName
          PROVE  rec[b.keys[s]] < rec[b.keys[t]]
      BY <2>3, <2>5 DEF Ascending
    <2>6. ASSUME nodes.root # NoId, ~root.leaf, rec[root.keys[0]] # NoName, NEW s \in Slots
          PROVE  /\ LET b == nodes.rec[root.ptrs[0]]
                    IN s \in 0..(b.n - 1) /\ rec[b.keys[s]] # NoName => rec[b.keys[s]] < rec[root.keys[0]]
                 /\ LET b == nodes.rec[root.ptrs[1]]
                    IN s \in 0..(b.n - 1) /\ rec[b.keys[s]] # NoName => rec[b.keys[s]] >= rec[root.keys[0]]
      BY <2>4, <2>6 DEF Below, NotBelow
    <2>7. QED
      BY <2>5, <2>6 DEF Sorted
  <1>2. QED
    BY <1>1, TreeInvHolds, PTL

\* Whatever a process loses when it ends, a name created before the last one is on disk,
\* but for the upper half of a leaf: of the one being split, or of a restored one whose
\* split insert_into_parent did not finish.  The writes of alloc_wireway_inst, init_wireway
\* and insert_into_leaf for one name push out those of the name before it.
THEOREM TreeKept == Spec => []OnlyUpperHalfLost
  <1>1. TreeInv => OnlyUpperHalfLost
    BY DEF TreeInv
  <1>2. QED
    BY <1>1, TreeInvHolds, PTL

\* An entry on disk whose name or wireway is not on disk has the last name's id, or was so
\* when wireway_tree_restore read it: the three zone files, each with a stream of
\* its own, drift apart by one creation at most.
THEOREM TreeBrokenIsLast == Spec => []BrokenIsLast
  <1>1. ASSUME TreeInv PROVE BrokenIsLast
    <2> SUFFICES ASSUME Alive, NEW e \in Entries(disk.nodes), ~Whole(disk, e)
                 PROVE  e \in broken \/ e.key = kid
      BY DEF BrokenIsLast, Broken, Alive
    <2>1. QED
      BY <1>1 DEF TreeInv, DiskWhole
  <1>2. QED
    BY <1>1, TreeInvHolds, PTL

\* The ids in the entries on disk are taken in the bitmaps on disk of the zones of names
\* and wireways, so alloc_block_from_zone of a later process gives them to nobody else.
THEOREM TreeIdsTaken == Spec => []IdsTaken
  <1>1. TreeInv => IdsTaken
    BY DEF TreeInv, NodesGood, Taken, IdsTaken
  <1>2. QED
    BY <1>1, TreeInvHolds, PTL
=============================================================================
