---------------------------- MODULE BlockStore ----------------------------
(***************************************************************************)
(* The block store (storage_sys.c): each zone is a file with a header, a   *)
(* bitmap and equal blocks, written through a stdio stream.  A process     *)
(* registers the zones in a fixed order, creating or restoring each, and   *)
(* then allocates, saves and reads blocks; it may be killed at any time.   *)
(*                                                                         *)
(* disk is what the kernel holds of each file, cache what the process sees *)
(* of it through its stream: they differ by the last write, which stays in *)
(* the stream's buffer until the next fseek.  Blocks belong to callers,    *)
(* named by the zone whose id they use.  Following the uninitialised next  *)
(* of a new zone at worst kills the process, which it may do anyway.       *)
(***************************************************************************)
EXTENDS Integers

CONSTANTS
  N,          \* zones that a process registers, in this order
  Trees,      \* those that hold the nodes of a tree and its root
  Count,      \* blocks of a zone (block_count, per_media_count)
  BlockSize,  \* block_size of each zone
  RecLen,     \* length of the records that each caller saves
  HeadLen,    \* sizeof(storage_zone)
  MediaHead,  \* sizeof(storage_media)
  Versions    \* bound: distinguishable contents of a caller's records

Zones  == 1..N
Blocks == 0..(Count - 1)

ASSUME SizeAssumption ==
  /\ N \in Nat \ {0} /\ Count \in Nat \ {0} /\ Versions \in Nat
  /\ Trees \subseteq Zones
  /\ HeadLen \in Nat /\ MediaHead \in Nat
  /\ BlockSize \in [Zones -> Nat] /\ RecLen \in [Zones -> Nat]

ASSUME FitAssumption == \A z \in Zones : 0 < RecLen[z] /\ RecLen[z] <= BlockSize[z]

VARIABLES
  disk, cache,  \* files
  mode,         \* "down", "register", "create", "serve" or "stuck"
  turn,         \* the zone being registered
  nid,          \* global_zone_id
  linked,       \* zones on global_zone_head->zone_list, in order of registration
  zone,         \* their storage_zone and storage_media
  idOf,         \* storage_zone_..._id, what reg_storage_zone returned
  held, saved,  \* history: blocks each caller holds, what it last saved there
  cut           \* history: an earlier process did not create all zones

memory == <<mode, turn, nid, linked, zone, idOf, held, saved, cut>>
vars == <<disk, cache, memory>>

NoId    == -1
NoRoot  == -1
Empty   == [by |-> 0, ver |-> 0]
Content == [by : 0..N, ver : 0..Versions]   \* version 0: a mixture of writes

\* A zone file: "absent", "zeros" (no header yet) or "written".
File == [state : {"absent", "zeros", "written"}, id : Nat, root : Int,
         bits : SUBSET (0..Count), data : [Blocks -> Content]]

Unwritten == [b \in Blocks |-> Empty]

NoFile == [state |-> "absent", id |-> 0, root |-> 0, bits |-> {}, data |-> Unwritten]

Nobody  == [z \in Zones |-> {}]
Nothing == [z \in Zones |-> Unwritten]

Init ==
  /\ disk = [z \in Zones |-> NoFile] /\ cache = disk
  /\ mode = "down" /\ turn = 1 /\ nid = 0 /\ linked = {}
  /\ zone = [z \in Zones |-> NoFile]
  /\ idOf = [z \in Zones |-> NoId]
  /\ held = Nobody /\ saved = Nothing
  /\ cut = FALSE

-----------------------------------------------------------------------------
(* Layout of a file                                                        *)

\* Length of a zone's bitmap record; 8 is sizeof(long).
MediaLen == MediaHead + (Count \div 8 + 1) * 8

\* MUTANT: one block size for all zones.
OffsetUniform(z, b) == b * 64 + HeadLen + MediaLen

\* Where block b starts.
Offset(z, b) == b * BlockSize[z] + HeadLen + MediaLen

\* The blocks of zone z that a record of caller by, written at block b, reaches.
Touched(z, by, b) ==
  {c \in Blocks : /\ Offset(z, c) < Offset(z, b) + RecLen[by]
                  /\ Offset(z, b) < Offset(z, c) + BlockSize[z]}

-----------------------------------------------------------------------------
(* Streams and memory                                                      *)

\* fseek, then fwrite: the previous write leaves the buffer.
Write(z, f) ==
  /\ disk' = [disk EXCEPT ![z] = cache[z]]
  /\ cache' = [cache EXCEPT ![z] = f]

Flush(z) ==
  /\ disk' = [disk EXCEPT ![z] = cache[z]]
  /\ UNCHANGED cache

\* Zone z is the first on a list whose structure carries this id.
FirstWith(list, zones, id, z) ==
  /\ z \in list /\ zones[z].id = id
  /\ \A y \in list : zones[y].id = id => z <= y

\* get_zone(id) returns zone z.
Leads(id, z) == FirstWith(linked, zone, id, z)

HasMedia(z) == zone[z].state = "written"

\* What caller by's record of version v leaves of a file's blocks.
WithRecord(data, z, by, b, v) ==
  [c \in Blocks |-> IF c = b THEN [by |-> by, ver |-> v]
                    ELSE IF c \in Touched(z, by, b) THEN [data[c] EXCEPT !.ver = 0]
                    ELSE data[c]]

\* find_next_zero_bit finds bit b; it yields Count when the zone is full.
FirstFree(bits, b) ==
  \/ b \in Blocks \ bits /\ 0..(b - 1) \subseteq bits
  \/ b = Count /\ Blocks \subseteq bits

-----------------------------------------------------------------------------
(* storage_sys_init: reg_storage_zone for each zone in turn                *)

Start ==
  /\ mode = "down"
  /\ mode' = "register"
  /\ UNCHANGED <<disk, cache, turn, nid, linked, zone, idOf, held, saved, cut>>

\* The end of reg_storage_zone(turn), its storage_zone being f: the zone goes to
\* the end of the list.  Its caller holds the blocks that have its records.
Enlist(f) ==
  /\ linked' = linked \union {turn}
  /\ zone' = [zone EXCEPT ![turn] = f]
  /\ idOf' = [idOf EXCEPT ![turn] = f.id]
  /\ \E home \in Zones :
       LET data == cache'[home].data
           mine == {b \in Blocks : data[b].by = turn}
       IN /\ FirstWith(linked', zone', f.id, home)
          /\ held' = [held EXCEPT ![turn] = mine]
          /\ saved' = [saved EXCEPT ![turn] =
                         [b \in Blocks |-> IF b \in mine THEN data[b] ELSE Empty]]
  /\ turn' = turn + 1
  /\ mode' = IF turn = N THEN "serve" ELSE "register"
  /\ UNCHANGED cut

\* MUTANT: the bitmap is not read from the file.
RestoreHead ==
  /\ mode = "register" /\ disk[turn].state # "absent"
  /\ UNCHANGED <<disk, cache, nid>>
  /\ Enlist([disk[turn] EXCEPT !.bits = {}])

\* restore_storage_zone; a file without a header gives a zone of zeros.
Restore ==
  /\ mode = "register" /\ disk[turn].state # "absent"
  /\ UNCHANGED <<disk, cache, nid>>
  /\ Enlist(disk[turn])

\* alloc_storage_zone up to posix_fallocate: the file exists, without a header.
Create ==
  /\ mode = "register" /\ disk[turn].state = "absent"
  /\ disk' = [disk EXCEPT ![turn].state = "zeros"]
  /\ cache' = [cache EXCEPT ![turn].state = "zeros"]
  /\ mode' = "create"
  /\ UNCHANGED <<turn, nid, linked, zone, idOf, held, saved, cut>>

\* The header of a new zone.
NewZone(id) == [state |-> "written", id |-> id, root |-> NoRoot,
                bits |-> {}, data |-> Unwritten]

\* MUTANT: the next new zone gets the same id.
CompleteSameId ==
  /\ mode = "create"
  /\ disk' = [disk EXCEPT ![turn] = NewZone(nid)]
  /\ cache' = [cache EXCEPT ![turn] = NewZone(nid)]
  /\ UNCHANGED nid
  /\ Enlist(NewZone(nid))

\* MUTANT: the number moves on in reg_storage_zone, too.
CompleteSkipsId ==
  /\ mode = "create"
  /\ nid' = nid + 2
  /\ disk' = [disk EXCEPT ![turn] = NewZone(nid)]
  /\ cache' = [cache EXCEPT ![turn] = NewZone(nid)]
  /\ Enlist(NewZone(nid))

\* The rest of it: the header, flushed by the fseek before the bitmap is written.
Complete ==
  /\ mode = "create"
  /\ nid' = nid + 1
  /\ disk' = [disk EXCEPT ![turn] = NewZone(nid)]
  /\ cache' = [cache EXCEPT ![turn] = NewZone(nid)]
  /\ Enlist(NewZone(nid))

\* The file cannot be opened or memory runs out: the list of all zones is freed.
RegFail ==
  /\ mode = "register"
  /\ linked' = {}
  /\ zone' = [z \in Zones |-> NoFile]
  /\ turn' = turn + 1
  /\ mode' = IF turn = N THEN "serve" ELSE "register"
  /\ cut' = (cut \/ disk[turn].state # "written")
  /\ UNCHANGED <<disk, cache, nid, idOf, held, saved>>

-----------------------------------------------------------------------------
(* Calls of a process that serves                                          *)

\* Caller by calls with its zone id and get_zone finds zone z, which has a bitmap.
\* Without a zone the calls do nothing, without a bitmap alloc_block_from_zone does
\* nothing and the others divide by the zone's block count of zero (see Crash).
Calls(by, z) == mode = "serve" /\ Leads(idOf[by], z) /\ HasMedia(z)

\* MUTANT: the zone structure is marked, the bitmap record is not written.
AllocUnwritten(by) ==
  \E z \in Zones, b \in 0..Count :
    /\ Calls(by, z) /\ FirstFree(zone[z].bits, b)
    /\ zone' = [zone EXCEPT ![z].bits = @ \union {b}]
    /\ held' = [held EXCEPT ![by] = @ \union {b}]
    /\ UNCHANGED <<disk, cache, mode, turn, nid, linked, idOf, saved, cut>>

\* alloc_block_from_zone
Alloc(by) ==
  \E z \in Zones, b \in 0..Count :
    /\ Calls(by, z) /\ FirstFree(zone[z].bits, b)
    /\ zone' = [zone EXCEPT ![z].bits = @ \union {b}]
    /\ Write(z, [cache[z] EXCEPT !.bits = zone[z].bits \union {b}])
    /\ held' = [held EXCEPT ![by] = @ \union {b}]
    /\ UNCHANGED <<mode, turn, nid, linked, idOf, saved, cut>>

\* MUTANT: the number of a block's file is counted from one.
StuckEarly(by) ==
  /\ \E z \in Zones : Calls(by, z)
  /\ held[by] # {}
  /\ mode' = "stuck"
  /\ UNCHANGED <<disk, cache, turn, nid, linked, zone, idOf, held, saved, cut>>

\* An id past the last block names a second file: find_file_stream never returns.
Stuck(by) ==
  /\ \E z \in Zones : Calls(by, z)
  /\ Count \in held[by]
  /\ mode' = "stuck"
  /\ UNCHANGED <<disk, cache, turn, nid, linked, zone, idOf, held, saved, cut>>

Saved(by, b, v) == saved' = [saved EXCEPT ![by][b] = [by |-> by, ver |-> v]]

\* save_data, save_data_offset of a block the caller holds
Save(by, b, v) ==
  \E z \in Zones :
    /\ Calls(by, z) /\ b \in held[by]
    /\ Write(z, [cache[z] EXCEPT !.data = WithRecord(@, z, by, b, v)])
    /\ Saved(by, b, v)
    /\ UNCHANGED <<mode, turn, nid, linked, zone, idOf, held, cut>>

\* MUTANT: the header leaves the buffer before the node.
SaveRootFirst(by, b, v) ==
  \E z \in Zones :
    /\ Calls(by, z) /\ b \in held[by]
    /\ zone' = [zone EXCEPT ![z].root = b]
    /\ disk' = [disk EXCEPT ![z] = [cache[z] EXCEPT !.root = b]]
    /\ cache' = [cache EXCEPT ![z].root = b,
                              ![z].data = WithRecord(@, z, by, b, v)]
    /\ Saved(by, b, v)
    /\ UNCHANGED <<mode, turn, nid, linked, idOf, held, cut>>

\* save_bptree_root_node: the node, then the header with its id (two writes, of
\* which the first has left the buffer when the second is made).
SaveRoot(by, b, v) ==
  \E z \in Zones :
    LET f == [cache[z] EXCEPT !.data = WithRecord(@, z, by, b, v)]
    IN /\ Calls(by, z) /\ b \in held[by]
       /\ zone' = [zone EXCEPT ![z].root = b]
       /\ disk' = [disk EXCEPT ![z] = f]
       /\ cache' = [cache EXCEPT ![z] = [f EXCEPT !.root = b]]
       /\ Saved(by, b, v)
       /\ UNCHANGED <<mode, turn, nid, linked, idOf, held, cut>>

\* read_data of a block the caller holds; a tree's root is one of them.
Read(by, b) ==
  \E z \in Zones :
    /\ Calls(by, z) /\ b \in held[by]
    /\ Flush(z)
    /\ UNCHANGED memory

\* What a file may be after a crash that caught g in place of f: the last write is
\* lost, done, or left half of a record.
Remains(f, g) ==
  {f, g} \union
  {[f EXCEPT !.data = [b \in Blocks |-> IF f.data[b] = g.data[b] THEN f.data[b]
                                        ELSE [g.data[b] EXCEPT !.ver = 0]]]}

\* The process dies.  Reading the root of a zone of zeros kills it, too: its
\* block_count divides by zero.
Crash ==
  /\ mode # "down"
  /\ disk' \in [Zones -> UNION {Remains(disk[z], cache[z]) : z \in Zones}]
  /\ \A z \in Zones : disk'[z] \in Remains(disk[z], cache[z])
  /\ cache' = disk'
  /\ cut' = (cut \/ \E z \in Zones : disk[z].state # "written")
  /\ mode' = "down" /\ turn' = 1 /\ nid' = 0 /\ linked' = {}
  /\ zone' = [z \in Zones |-> NoFile]
  /\ idOf' = [z \in Zones |-> NoId]
  /\ held' = Nobody /\ saved' = Nothing

Next ==
  \/ Start \/ Restore \/ Create \/ Complete \/ RegFail \/ Crash
  \/ \E by \in Zones :
       \/ Alloc(by) \/ Stuck(by)
       \/ \E b \in Blocks : Read(by, b)
       \/ \E b \in Blocks, v \in 1..Versions : Save(by, b, v)
       \/ by \in Trees /\ \E b \in Blocks, v \in 1..Versions : SaveRoot(by, b, v)

Spec == Init /\ [][Next]_vars

-----------------------------------------------------------------------------
(* Properties                                                              *)

TypeOK ==
  /\ disk \in [Zones -> File] /\ cache \in [Zones -> File]
  /\ mode \in {"down", "register", "create", "serve", "stuck"}
  /\ turn \in 1..(N + 1) /\ nid \in 0..N
  /\ linked \subseteq Zones
  /\ zone \in [Zones -> File]
  /\ idOf \in [Zones -> {NoId} \union Nat]
  /\ held \in [Zones -> SUBSET (0..Count)]
  /\ saved \in [Zones -> [Blocks -> Content]]
  /\ cut \in BOOLEAN

\* A block with data on disk is marked in the bitmap on disk, so that no later
\* process takes it for free (alloc_block_from_zone writes the bitmap before the
\* caller can save).
BlocksOwned ==
  ~cut => \A z \in Zones, b \in Blocks :
            disk[z].data[b] # Empty => b \in disk[z].bits

\* The id that reg_storage_zone returned for a zone leads to that zone or to none,
\* over restarts and after a failed registration (ids count from 0 in every process,
\* restored zones keep theirs).
ZonesApart ==
  ~cut => \A z, y \in Zones : Leads(idOf[z], y) => y = z

\* A caller reads from a block it holds what it last saved there: neither other
\* records nor the stream's buffer come between.
ReadBack ==
  ~cut => \A by, z \in Zones : Calls(by, z) =>
            \A b \in held[by] \intersect Blocks : cache[z].data[b] = saved[by][b]

\* A root id in a header on disk names a block that a node was written to
\* (save_bptree_root_node writes the node first).
RootIsSaved ==
  ~cut => \A z \in Zones :
            disk[z].state = "written" /\ disk[z].root # NoRoot =>
              disk[z].root \in Blocks /\ disk[z].data[disk[z].root].by = z

\* An allocation yields a block that its caller does not hold and no process has
\* ever written, or an id past the last block.
GrantsFresh ==
  [][~cut => \A by \in Zones : Alloc(by) =>
       \E b \in 0..Count :
         /\ held'[by] = held[by] \union {b}
         /\ b # Count => b \notin held[by] /\ cache[by].data[b] = Empty]_vars

\* find_file_stream searches for ever only for a caller whose id leads to a full zone.
\* Unless a start was cut short that is the caller's own zone, and a block of it that
\* the caller does not hold was lost by a process that ended before it saved anything
\* there: no other caller uses up its blocks.
StuckWhenFull ==
  [][\A by, z \in Zones : Stuck(by) /\ Calls(by, z) =>
       /\ Blocks \subseteq zone[z].bits
       /\ ~cut => z = by /\ \A b \in Blocks \ held[by] : cache[by].data[b] = Empty]_vars
=============================================================================
