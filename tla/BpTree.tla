------------------------------- MODULE BpTree -------------------------------
(***************************************************************************)
(* The tree of wireway names (bptree.c) and its copy in the block store,   *)
(* as create_wireway and lookup_wireway drive it.  A create writes to three*)
(* zone files, in many steps, and the process may end between any two; each*)
(* file's stream holds back its last write (see BlockStore).               *)
(*                                                                         *)
(* Once the root is an inner node no operation returns from find_leaf, and *)
(* no later process restores the tree: what would follow (insertion into   *)
(* inner nodes, loading of children) is not reached and not modelled.      *)
(* What a process does with bytes that malloc left is followed so far: in  *)
(* place of a key or wireway they end what is modelled of it ("garbage").  *)
(* As the parent of a restored leaf they count when that leaf is split: if *)
(* they are not NULL the process dies of them, writes over the tree or into*)
(* a file through them ("wild": where what is modelled ends for good), or  *)
(* writes where nothing of this module lies, and goes on.                  *)
(***************************************************************************)
EXTENDS Integers, FiniteSets

CONSTANTS
  K,      \* names, numbered as strcmp orders them
  Size,   \* size, pointer_size: pointers of a node
  MaxIds, \* bound: blocks of a zone that are ever allocated
  Lives   \* bound: processes, one after the other

Names == 1..K
Slots == 0..(Size - 1)
Ids   == 0..(MaxIds - 1)

ASSUME TreeAssumption == K \in Nat /\ MaxIds \in Nat \ {0} /\ Lives \in Nat
                         /\ Size \in Nat /\ Size >= 4

VARIABLES
  disk, cache,   \* zone files: what the kernel has, what the process sees
  pc,            \* "down", "idle", "null", "garbage", "wild" or a step of an operation
  arg,           \* the name in create_wireway
  kid, did,      \* name_id and wireway_id of the wireway being created
  tree,          \* node_root in memory: "none", "leaf" or "inner"
  mem,           \* the leaf in memory
  leafId, blk,   \* its block
  newId, right,  \* the block split off it
  top,           \* id of the new root's block
  life,          \* processes started so far
  known, last,   \* history: names created or restored, the last one created
  cutoff,        \* history: of them, those that a split has left without a parent
  broken         \* history: entries that were not whole when the process started

insertion == <<kid, did, leafId, blk, newId, right, top>>
history == <<life, known, last, cutoff, broken>>
files == <<disk, cache>>
vars == <<files, pc, arg, tree, mem, insertion, history>>

NoName == 0
NoId   == -1

Zeros == [s \in Slots |-> 0]

\* node_block: name ids and pointers by slot; keys' last slot is what follows keys_id,
\* namely parent_id.
NoBlock == [n |-> 0, leaf |-> FALSE, keys |-> Zeros, ptrs |-> Zeros]

\* A leaf in memory: keys and, for each, the id of the wireway it points to, if any;
\* its parent is NULL or "wild".
NoLeaf == [n |-> 0, keys |-> Zeros, objs |-> [s \in Slots |-> NoId], parent |-> "null"]

\* The zones of names, wireways and nodes: blocks allocated, records, root_id.  A
\* wireway's record stands for its name_id.
Streams == {"names", "wires", "nodes"}
NoFiles ==
  [names |-> [used |-> 0, rec |-> [i \in Ids |-> NoName]],
   wires |-> [used |-> 0, rec |-> [i \in Ids |-> NoId]],
   nodes |-> [used |-> 0, rec |-> [i \in Ids |-> NoBlock], root |-> NoId]]

Init ==
  /\ disk = NoFiles /\ cache = NoFiles
  /\ pc = "down" /\ arg = NoName /\ life = 0
  /\ kid = 0 /\ did = 0 /\ leafId = 0 /\ newId = 0 /\ top = 0
  /\ tree = "none" /\ mem = NoLeaf /\ blk = NoBlock /\ right = NoBlock
  /\ known = {} /\ last = NoName /\ cutoff = {} /\ broken = {}

-----------------------------------------------------------------------------
(* What the files say                                                      *)

Keys(b) == {[key |-> b.keys[s], data |-> b.ptrs[s]] : s \in 0..(b.n - 1)}

\* The leaves of the tree on file.
Leaves(nodes) ==
  IF nodes.root = NoId THEN {}
  ELSE LET b == nodes.rec[nodes.root]
       IN IF b.leaf THEN {b} ELSE {nodes.rec[b.ptrs[s]] : s \in 0..b.n}

\* Their keys, each with the ids of its name and its wireway.
Entries(nodes) == UNION {Keys(b) : b \in Leaves(nodes)}

\* Name and wireway of an entry are on file.
Whole(f, e) == f.names.rec[e.key] # NoName /\ f.wires.rec[e.data] = e.key

Broken(f) == {e \in Entries(f.nodes) : ~Whole(f, e)}

NamesOn(f) == {f.names.rec[e.key] : e \in Entries(f.nodes) \ Broken(f)}

-----------------------------------------------------------------------------
(* Streams: fseek and fwrite (see BlockStore)                              *)

\* MUTANT: the stream holds back every write.
WriteHeldBack(z, f) ==
  /\ UNCHANGED disk
  /\ cache' = [cache EXCEPT ![z] = f]

Write(z, f) ==
  /\ disk' = [disk EXCEPT ![z] = cache[z]]
  /\ cache' = [cache EXCEPT ![z] = f]

\* MUTANT: the bit of the block is not set.
TakeUnmarked(z, id) ==
  /\ id = cache[z].used /\ id < MaxIds
  /\ Write(z, cache[z])

\* alloc_block_from_zone: the next block, and the bitmap.
Take(z, id) ==
  /\ id = cache[z].used /\ id < MaxIds
  /\ Write(z, [cache[z] EXCEPT !.used = id + 1])

SaveRecord(z, id, r) == Write(z, [cache[z] EXCEPT !.rec = [@ EXCEPT ![id] = r]])
SaveRootId(id) == Write("nodes", [cache.nodes EXCEPT !.root = id])

-----------------------------------------------------------------------------
(* Starting: wireway_tree_restore                                          *)

Restored == cache.nodes.rec[cache.nodes.root]

\* The name that ends the file of names: it was written without its final zero, and
\* a read goes on into bytes that malloc left.
AtEnd(id) == \A i \in Ids : i > id => cache.names.rec[i] = NoName

\* load_bptree_node reads the names of the keys.
KeysRead ==
  LET ids == {Restored.keys[s] : s \in 0..(Restored.n - 1)}
  IN IF \E id \in ids : cache.names.rec[id] = NoName THEN {"garbage"}
     ELSE IF \E id \in ids : AtEnd(id) THEN {"idle", "garbage"}
     ELSE {"idle"}

RestoreNone ==
  /\ cache.nodes.root = NoId
  /\ tree' = "none" /\ pc' = "idle"
  /\ UNCHANGED <<mem, leafId, blk>>

\* load_bptree_node does not set the parent, nor does wireway_tree_restore.
RestoreLeaf ==
  /\ cache.nodes.root # NoId /\ Restored.leaf
  /\ tree' = "leaf" /\ leafId' = cache.nodes.root /\ blk' = Restored
  /\ \E bytes \in {"null", "wild"} :
       mem' = [NoLeaf EXCEPT !.n = Restored.n, !.parent = bytes,
                 !.keys = [s \in Slots |-> IF s < Restored.n
                                           THEN cache.names.rec[Restored.keys[s]] ELSE NoName]]
  /\ pc' \in KeysRead

\* print_tree follows the children, which are not loaded.
RestoreInner ==
  /\ cache.nodes.root # NoId /\ ~Restored.leaf
  /\ tree' = "inner" /\ pc' = "null"
  /\ UNCHANGED <<mem, leafId, blk>>

Start ==
  /\ pc = "down" /\ life < Lives /\ life' = life + 1
  /\ RestoreNone \/ RestoreLeaf \/ RestoreInner
  /\ known' = NamesOn(cache) /\ last' = NoName /\ cutoff' = {} /\ broken' = Broken(cache)
  /\ UNCHANGED <<files, arg, kid, did, newId, right, top>>

-----------------------------------------------------------------------------
(* create_wireway, lookup_wireway, attach_wireway: the search              *)

\* Slots of the leaf that hold the name.
At(x) == IF tree = "leaf" THEN {s \in 0..(mem.n - 1) : mem.keys[s] = x} ELSE {}

\* find_leaf returns the leaf or NULL.
Finds == pc = "idle" /\ tree # "inner"

\* find_leaf at an inner root: it moves to a child only when it has loaded the child,
\* and make_new_root has put both there.  It goes round for ever.
FindLoops(x) ==
  /\ pc = "idle" /\ tree = "inner"
  /\ pc' = "find" /\ arg' = x
  /\ UNCHANGED <<files, tree, mem, insertion, history>>

Return == pc' = "idle" /\ arg' = NoName

\* create_wireway, unless is_wireway_exist.
Create(x) ==
  /\ Finds /\ At(x) = {}
  /\ pc' = "allocWire" /\ arg' = x
  /\ UNCHANGED <<files, tree, mem, insertion, history>>

\* find: load_wireway_node reads the wireway's block and its name.
Load(x) ==
  /\ Finds
  /\ \E s \in At(x) :
       /\ mem.objs[s] = NoId
       /\ mem' = [mem EXCEPT !.objs[s] = blk.ptrs[s]]
       /\ pc' = IF cache.wires.rec[blk.ptrs[s]] = NoId THEN "garbage" ELSE "idle"
  /\ disk' = [disk EXCEPT !.wires = cache.wires, !.names = cache.names]
  /\ UNCHANGED <<cache, arg, tree, insertion, history>>

\* attach_wireway of a wireway in memory saves it (unless both of its peers are in
\* use: then it does nothing).
Attach(x) ==
  /\ Finds
  /\ \E s \in At(x) :
       LET id == mem.objs[s] IN id # NoId /\ SaveRecord("wires", id, cache.wires.rec[id])
  /\ UNCHANGED <<pc, arg, tree, mem, insertion, history>>

\* attach_wireway of a name that is not there follows the NULL.
AttachNone(x) ==
  /\ Finds /\ At(x) = {}
  /\ pc' = "null"
  /\ UNCHANGED <<files, arg, tree, mem, insertion, history>>

-----------------------------------------------------------------------------
(* create_wireway: the wireway                                             *)

\* alloc_wireway_inst
AllocWire ==
  /\ pc = "allocWire" /\ pc' = "allocName"
  /\ did' \in Ids /\ Take("wires", did')
  /\ UNCHANGED <<arg, tree, mem, kid, leafId, blk, newId, right, top, history>>

\* init_wireway: save_name
AllocName ==
  /\ pc = "allocName" /\ pc' = "saveName"
  /\ kid' \in Ids /\ Take("names", kid')
  /\ UNCHANGED <<arg, tree, mem, did, leafId, blk, newId, right, top, history>>

SaveName ==
  /\ pc = "saveName" /\ pc' = "saveWire"
  /\ SaveRecord("names", kid, arg)
  /\ UNCHANGED <<arg, tree, mem, insertion, history>>

\* MUTANT: the block is left to attach_wireway to save.
SaveWireLater ==
  /\ pc = "saveWire" /\ pc' = "insert"
  /\ UNCHANGED <<files, arg, tree, mem, insertion, history>>

\* init_wireway: save_wireway_block
SaveWire ==
  /\ pc = "saveWire" /\ pc' = "insert"
  /\ SaveRecord("wires", did, kid)
  /\ UNCHANGED <<arg, tree, mem, insertion, history>>

\* create_wireway returns; the split that it made, if any, has cut off these names.
CreatedBut(names) ==
  /\ Return
  /\ known' = known \union {arg} /\ last' = arg
  /\ cutoff' = (cutoff \ {arg}) \union names
  /\ UNCHANGED <<life, broken>>

Created == CreatedBut({})

-----------------------------------------------------------------------------
(* insert_wireway_tree: make_new_tree                                      *)

NewTree ==
  /\ pc = "insert" /\ tree = "none" /\ pc' = "saveRoot"
  /\ leafId' \in Ids /\ Take("nodes", leafId')
  /\ mem' = [NoLeaf EXCEPT !.n = 1, !.keys[0] = arg, !.objs[0] = did]
  /\ blk' = [NoBlock EXCEPT !.n = 1, !.leaf = TRUE, !.keys[0] = kid, !.ptrs[0] = did]
  /\ UNCHANGED <<arg, tree, kid, did, newId, right, top, history>>

SaveNewTree ==
  /\ pc = "saveRoot" /\ pc' = "saveHead"
  /\ SaveRecord("nodes", leafId, blk)
  /\ UNCHANGED <<arg, tree, mem, insertion, history>>

SaveNewHead ==
  /\ pc = "saveHead"
  /\ SaveRootId(leafId)
  /\ tree' = "leaf"
  /\ Created
  /\ UNCHANGED <<mem, insertion>>

-----------------------------------------------------------------------------
(* insert_into_leaf                                                        *)

\* MUTANT: the comparison starts at the second key.
IndexFromOne(x) == Cardinality({s \in 1..(mem.n - 1) : mem.keys[s] < x})

\* Where a new name goes.
Index(x) == Cardinality({s \in 0..(mem.n - 1) : mem.keys[s] < x})

\* x enters f at i, and what was at i up to m - 1 moves up.
Shifted(f, i, m, x) ==
  [s \in Slots |-> IF s < i \/ s > m THEN f[s] ELSE IF s = i THEN x ELSE f[s - 1]]

RoomInLeaf == mem.n < Size - 1

\* MUTANT: only the keys of the block move up.
BlockWithKeys(i, m) ==
  [blk EXCEPT !.n = mem.n + 1, !.keys = Shifted(@, i, m, kid), !.ptrs[i] = did]

\* The block with the new entry at i.  It is shifted by one slot more than the keys in
\* memory, for which num_keys has been counted up.
BlockWith(i, m) ==
  [blk EXCEPT !.n = mem.n + 1, !.keys = Shifted(@, i, m, kid), !.ptrs = Shifted(@, i, m, did)]

InsertIntoLeaf ==
  /\ pc = "insert" /\ tree = "leaf" /\ RoomInLeaf
  /\ LET i == Index(arg)
     IN /\ mem' = [mem EXCEPT !.n = @ + 1, !.keys = Shifted(@, i, mem.n, arg),
                              !.objs = Shifted(@, i, mem.n, did)]
        /\ blk' = BlockWith(i, mem.n + 1)
  /\ SaveRecord("nodes", leafId, blk')
  /\ Created
  /\ UNCHANGED <<tree, kid, did, leafId, newId, right, top>>

-----------------------------------------------------------------------------
(* insert_into_leaf_after_splitting, make_new_root                         *)

Half == Size \div 2

\* The lower half of the keys and the new one stay, the others go to a new block,
\* which is not marked as a leaf.
Split ==
  /\ pc = "insert" /\ tree = "leaf" /\ ~RoomInLeaf /\ pc' = "saveLeft"
  /\ newId' \in Ids /\ Take("nodes", newId')
  /\ LET i    == Index(arg)
         keys == Shifted(blk.keys, i, Size - 1, kid)
         ptrs == Shifted(blk.ptrs, i, Size - 1, did)
         Low(f, g) == [s \in Slots |-> IF s < Half THEN f[s] ELSE g[s]]
         High(f)   == [s \in Slots |-> IF s < Size - Half THEN f[s + Half] ELSE 0]
     IN /\ mem' = [mem EXCEPT !.n = Half, !.keys = Low(Shifted(@, i, Size - 1, arg), @),
                              !.objs = Low(Shifted(@, i, Size - 1, did), @)]
        /\ blk' = [blk EXCEPT !.n = Half, !.keys = Low(keys, @),
                              !.ptrs = [Low(ptrs, @) EXCEPT ![Size - 1] = newId']]
        /\ right' = [NoBlock EXCEPT !.n = Size - Half, !.ptrs = High(ptrs),
                       !.keys = [High(keys) EXCEPT ![Size - 1] = blk.keys[Size - 1]]]
  /\ UNCHANGED <<arg, tree, kid, did, leafId, top, history>>

SaveLeft ==
  /\ pc = "saveLeft" /\ pc' = "saveRight"
  /\ SaveRecord("nodes", leafId, blk)
  /\ UNCHANGED <<arg, tree, mem, insertion, history>>

SaveRight ==
  /\ pc = "saveRight" /\ pc' = "parent"
  /\ SaveRecord("nodes", newId, right)
  /\ UNCHANGED <<arg, tree, mem, insertion, history>>

\* The names that a split moves to the new block.
UpperHalf == {cache.names.rec[right.keys[s]] : s \in 0..(right.n - 1)}

\* insert_into_parent calls insert_into_node for a parent that is none, which saves
\* nothing; the root remains the old leaf.
IntoNowhere ==
  /\ pc = "parent" /\ mem.parent = "wild"
  /\ CreatedBut(UpperHalf)
  /\ UNCHANGED <<files, tree, mem, insertion>>

\* It, or insert_into_node_after_splitting, overwrites the tree or saves blocks.
IntoAnything ==
  /\ pc = "parent" /\ mem.parent = "wild"
  /\ pc' = "wild"
  /\ UNCHANGED <<files, arg, tree, mem, insertion, history>>

\* make_new_root.  The last slot of keys is parent_id.
AllocTop ==
  /\ pc = "parent" /\ mem.parent = "null" /\ pc' = "saveTop"
  /\ top' \in Ids /\ Take("nodes", top')
  /\ blk' = [blk EXCEPT !.keys[Size - 1] = top']
  /\ right' = [right EXCEPT !.keys[Size - 1] = top']
  /\ UNCHANGED <<arg, tree, mem, kid, did, leafId, newId, history>>

SaveTop ==
  /\ pc = "saveTop" /\ pc' = "saveTopHead"
  /\ SaveRecord("nodes", top,
       [NoBlock EXCEPT !.n = 1, !.keys[0] = right.keys[0],
                       !.ptrs[0] = leafId, !.ptrs[1] = newId])
  /\ UNCHANGED <<arg, tree, mem, insertion, history>>

SaveTopHead ==
  /\ pc = "saveTopHead" /\ pc' = "saveLeftAgain"
  /\ SaveRootId(top)
  /\ UNCHANGED <<arg, tree, mem, insertion, history>>

SaveLeftAgain ==
  /\ pc = "saveLeftAgain" /\ pc' = "saveRightAgain"
  /\ SaveRecord("nodes", leafId, blk)
  /\ UNCHANGED <<arg, tree, mem, insertion, history>>

SaveRightAgain ==
  /\ pc = "saveRightAgain"
  /\ SaveRecord("nodes", newId, right)
  /\ tree' = "inner"
  /\ Created
  /\ UNCHANGED <<mem, insertion>>

-----------------------------------------------------------------------------
(* The end of a process, and the behaviours                                *)

\* Killed, the process loses what its streams hold; ended, it flushes them one by
\* one, and may be killed in between.  What its memory held is gone.
Crash ==
  /\ pc \notin {"down", "wild"} /\ pc' = "down"
  /\ \E flushed \in SUBSET Streams :
       disk' = [z \in Streams |-> IF z \in flushed THEN cache[z] ELSE disk[z]]
  /\ cache' = disk'
  /\ arg' = NoName
  /\ kid' = 0 /\ did' = 0 /\ leafId' = 0 /\ newId' = 0 /\ top' = 0
  /\ tree' = "none" /\ mem' = NoLeaf /\ blk' = NoBlock /\ right' = NoBlock
  /\ UNCHANGED history

Search(x) == Create(x) \/ Load(x) \/ Attach(x) \/ AttachNone(x) \/ FindLoops(x)
NewWire == AllocWire \/ AllocName \/ SaveName \/ SaveWire
Insert == NewTree \/ SaveNewTree \/ SaveNewHead \/ InsertIntoLeaf
NewRoot == \/ Split \/ SaveLeft \/ SaveRight \/ IntoNowhere \/ IntoAnything \/ AllocTop
           \/ SaveTop \/ SaveTopHead \/ SaveLeftAgain \/ SaveRightAgain

Next ==
  \/ Start \/ Crash \/ NewWire \/ Insert \/ NewRoot
  \/ \E x \in Names : Search(x)

Spec == Init /\ [][Next]_vars

\* A process that has begun an operation keeps running.
FairSpec == Spec /\ WF_vars(NewWire \/ Insert \/ NewRoot)

-----------------------------------------------------------------------------
(* Properties                                                              *)

\* Between operations the files hold, as the process sees them, the names created or
\* restored, but for those that splits of a restored leaf have cut off and that were
\* not created again, and no others; and the leaf in memory, its block and the block's
\* record agree slot by slot: insert_into_leaf shifts two pairs of arrays by two loops.
ViewsAgree ==
  pc = "idle" =>
    /\ NamesOn(cache) = known \ cutoff
    /\ tree = "leaf" =>
         /\ cache.nodes.root = leafId /\ cache.nodes.rec[leafId] = blk
         /\ mem.n = blk.n
         /\ \A s \in 0..(mem.n - 1) :
              /\ mem.keys[s] = cache.names.rec[blk.keys[s]]
              /\ mem.objs[s] \in {NoId, blk.ptrs[s]}

\* The leaves on disk are sorted by name, no name comes twice, and the root's key
\* parts its two leaves, at whatever step the process ended.
Sorted ==
  LET NameAt(b, s) == disk.names.rec[b.keys[s]]
      OnDisk(b, s) == s \in 0..(b.n - 1) /\ NameAt(b, s) # NoName
      root == disk.nodes.rec[disk.nodes.root]
  IN /\ \A b \in Leaves(disk.nodes), s, t \in Slots :
          s < t /\ OnDisk(b, s) /\ OnDisk(b, t) => NameAt(b, s) < NameAt(b, t)
     /\ disk.nodes.root # NoId /\ ~root.leaf /\ NameAt(root, 0) # NoName =>
          /\ \A s \in Slots : LET b == disk.nodes.rec[root.ptrs[0]]
                              IN OnDisk(b, s) => NameAt(b, s) < NameAt(root, 0)
          /\ \A s \in Slots : LET b == disk.nodes.rec[root.ptrs[1]]
                              IN OnDisk(b, s) => NameAt(b, s) >= NameAt(root, 0)

\* A split is under way and the root on disk does not lead to both halves yet.
Splitting == pc \in {"saveRight", "parent", "wild", "saveTop", "saveTopHead", "saveLeftAgain"}

\* Whatever a process loses when it ends, a name created before the last one is on
\* disk, but for the upper half of a leaf: of one that is being split, or of a restored
\* one whose split went astray.
OnlyUpperHalfLost ==
  pc # "down" =>
    known \ ({last} \union cutoff \union (IF Splitting THEN UpperHalf ELSE {}))
      \subseteq NamesOn(disk)

\* An entry on disk without its name or its wireway is that of the last wireway
\* created, or was there when the process started: the three files drift apart by one
\* creation at most.
BrokenIsLast ==
  pc # "down" => \A e \in Broken(disk) : e \in broken \/ e.key = kid

\* The ids of the entries on disk are marked in the bitmaps of the other two files on
\* disk, so that no later process gives them to another wireway.
IdsTaken ==
  \A e \in Entries(disk.nodes) : e.key < disk.names.used /\ e.data < disk.wires.used

\* An operation comes to an end, or the process does: what the series of create_wireway
\* calls in test_wireway2 of wireway_core.c (inside #if 0 by now) takes for granted.
OpsReturn == pc = "find" ~> pc # "find"
=============================================================================
