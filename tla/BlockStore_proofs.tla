------------------------- MODULE BlockStore_proofs -------------------------
(* Theorems on the block store, for any number of zones, blocks and        *)
(* contents, whatever the sizes, over any number of crashes.               *)
EXTENDS BlockStore, TLAPS

-----------------------------------------------------------------------------
(* The inductive invariant.                                                *)

\* Before a process serves, its streams hold nothing back; a zone is under
\* registration until the last is done.
Phases ==
  /\ mode \in {"down", "register", "create"} => cache = disk
  /\ mode \in {"register", "create"} => turn <= N /\ nid < turn
  /\ mode = "create" => disk[turn].state = "zeros"
  /\ mode = "down" => turn = 1 /\ nid = 0 /\ linked = {}

\* The first process creates the zones in order and numbers them from 0.
FirstPass ==
  \/ \A z \in Zones : disk[z].state = "written"
  \/ mode = "down" /\ \A z \in Zones : disk[z].state = "absent"
  \/ /\ mode \in {"register", "create"} /\ nid = turn - 1
     /\ \A z \in Zones : /\ z < turn => disk[z].state = "written"
                         /\ z > turn => disk[z].state = "absent"
     /\ mode = "register" => disk[turn].state = "absent"

\* A file as the zone's own callers leave it.
GoodFile(f, z) ==
  /\ f.state = "written" => f.id = z - 1 /\ f.root \in {NoRoot} \union Blocks
  /\ f.state # "written" => f.data = Unwritten
  /\ f.state = "written" /\ f.root # NoRoot => f.data[f.root].by = z
  /\ \A b \in Blocks : f.data[b] # Empty => f.data[b].by = z /\ b \in f.bits

\* At most one write is in the buffer: a record, or the bitmap, or the header.
OneWrite(f, g) ==
  /\ f.state = g.state /\ f.id = g.id
  /\ f.data # g.data => f.bits = g.bits /\ f.root = g.root

GoodFiles ==
  \A z \in Zones : /\ GoodFile(disk[z], z) /\ GoodFile(cache[z], z)
                   /\ OneWrite(disk[z], cache[z])

\* What a process has in memory of zone z agrees with the file, and its caller holds
\* only blocks that are marked, among them all that hold data.
InStep(z) ==
  /\ zone[z].state = "written" /\ cache[z].state = "written"
  /\ zone[z].id = z - 1 /\ zone[z].bits = cache[z].bits
  /\ held[z] \subseteq zone[z].bits
  /\ \A b \in Blocks : IF b \in held[z] THEN saved[z][b] = cache[z].data[b]
                      ELSE saved[z][b] = Empty /\ cache[z].data[b] = Empty

Memory ==
  /\ \A z \in linked : InStep(z)
  /\ \A z \in Zones : idOf[z] \in {NoId, z - 1}

-----------------------------------------------------------------------------
(* The layout of a file.                                                   *)

\* A record of a zone's own caller reaches no block but its own: blocks follow each
\* other at block_size, and no record is longer.
LEMMA RecordAlone ==
  ASSUME NEW z \in Zones, NEW b \in Blocks
  PROVE  Touched(z, z, b) = {b}
  <1> DEFINE S == BlockSize[z]
  <1> DEFINE K == HeadLen + MediaLen
  <1>1. S \in Nat /\ RecLen[z] \in Nat /\ 0 < RecLen[z] /\ RecLen[z] <= S
    BY SizeAssumption, FitAssumption
  <1>2. Blocks \subseteq Nat /\ Count \in Nat
    BY SizeAssumption DEF Blocks
  <1>3. MediaLen \in Int /\ K \in Int
    BY <1>2, SizeAssumption DEF MediaLen
  <1>4. \A c \in Blocks : Offset(z, c) = c * S + K /\ c * S \in Nat
    BY <1>1, <1>2, <1>3, SizeAssumption DEF Offset
  <1>5. ASSUME NEW c \in Blocks, NEW d \in Blocks, c < d
        PROVE  c * S + S <= d * S
    <2>1. (c + 1) * S <= d * S
      BY <1>1, <1>2, <1>5
    <2>2. (c + 1) * S = c * S + S
      BY <1>1, <1>2
    <2>3. QED
      BY <2>1, <2>2
  <1>6. ASSUME NEW c \in Touched(z, z, b)
        PROVE  c = b
    <2>1. c \in Blocks /\ c * S + K < b * S + K + RecLen[z] /\ b * S + K < c * S + K + S
      BY <1>4, <1>6 DEF Touched
    <2>2. ~(c < b)
      <3>1. SUFFICES ASSUME c < b PROVE FALSE
        OBVIOUS
      <3>2. c * S + S <= b * S
        BY <1>5, <2>1, <3>1
      <3>3. QED
        BY <1>1, <1>3, <1>4, <2>1, <3>2
    <2>3. ~(b < c)
      <3>1. SUFFICES ASSUME b < c PROVE FALSE
        OBVIOUS
      <3>2. b * S + S <= c * S
        BY <1>5, <2>1, <3>1
      <3>3. QED
        BY <1>1, <1>3, <1>4, <2>1, <3>2
    <2>4. QED
      BY <1>2, <2>1, <2>2, <2>3
  <1>7. b \in Touched(z, z, b)
    BY <1>1, <1>3, <1>4 DEF Touched
  <1>8. QED
    BY <1>6, <1>7

\* Contents and files of the right shape stay so.
LEMMA RecordShape ==
  ASSUME NEW data \in [Blocks -> Content], NEW z, NEW by \in Zones, NEW b, NEW v \in 1..Versions
  PROVE  WithRecord(data, z, by, b, v) \in [Blocks -> Content]
  <1>1. [by |-> by, ver |-> v] \in Content
    BY SizeAssumption DEF Content, Zones
  <1>2. \A c \in Blocks : [data[c] EXCEPT !.ver = 0] \in Content
    BY SizeAssumption DEF Content
  <1>3. QED
    BY <1>1, <1>2 DEF WithRecord

\* A record of the zone's own caller fills its block and leaves the others.
LEMMA OwnRecord ==
  ASSUME NEW data \in [Blocks -> Content], NEW z \in Zones, NEW b \in Blocks,
         NEW v \in 1..Versions
  PROVE  /\ WithRecord(data, z, z, b, v)[b] = [by |-> z, ver |-> v]
         /\ \A c \in Blocks \ {b} : WithRecord(data, z, z, b, v)[c] = data[c]
  BY RecordAlone DEF WithRecord

\* The files that a process starts from are files.
LEMMA NewShape ==
  /\ NoFile \in File /\ Unwritten \in [Blocks -> Content] /\ Empty \in Content
  /\ \A id \in Nat : NewZone(id) \in File
  <1>1. Empty \in Content
    BY SizeAssumption DEF Empty, Content
  <1>2. Unwritten \in [Blocks -> Content]
    BY <1>1 DEF Unwritten
  <1>3. NoFile \in File
    BY <1>2 DEF NoFile, File
  <1>4. \A id \in Nat : NewZone(id) \in File
    BY <1>2 DEF NewZone, File, NoRoot
  <1>5. QED
    BY <1>1, <1>2, <1>3, <1>4

\* Changing one field of a file leaves a file, and the other fields.
LEMMA FileUpdates ==
  ASSUME NEW f \in File
  PROVE  /\ [f EXCEPT !.state = "zeros"] \in File
         /\ [f EXCEPT !.state = "zeros"].state = "zeros"
         /\ \A S \in SUBSET (0..Count) : [f EXCEPT !.bits = S] \in File
         /\ \A r \in Int : [f EXCEPT !.root = r] \in File
         /\ \A d \in [Blocks -> Content] : [f EXCEPT !.data = d] \in File
  <1>1. [f EXCEPT !.state = "zeros"] \in File /\ [f EXCEPT !.state = "zeros"].state = "zeros"
    BY DEF File
  <1>2. ASSUME NEW S \in SUBSET (0..Count) PROVE [f EXCEPT !.bits = S] \in File
    BY DEF File
  <1>3. ASSUME NEW r \in Int PROVE [f EXCEPT !.root = r] \in File
    BY DEF File
  <1>4. ASSUME NEW d \in [Blocks -> Content] PROVE [f EXCEPT !.data = d] \in File
    BY DEF File
  <1>5. QED
    BY <1>1, <1>2, <1>3, <1>4

\* What a crash leaves of a file is a file.
LEMMA RemainsShape ==
  ASSUME NEW f \in File, NEW g \in File, NEW h \in Remains(f, g)
  PROVE  h \in File
  <1>1. \A b \in Blocks : f.data[b] \in Content /\ g.data[b] \in Content
    BY DEF File
  <1>2. \A c \in Content : [c EXCEPT !.ver = 0] \in Content
    BY SizeAssumption DEF Content
  <1>3. [b \in Blocks |-> IF f.data[b] = g.data[b] THEN f.data[b]
                          ELSE [g.data[b] EXCEPT !.ver = 0]] \in [Blocks -> Content]
    BY <1>1, <1>2
  <1>4. QED
    BY <1>3 DEF Remains, File

-----------------------------------------------------------------------------
(* Types and phases.                                                       *)

TypesAndPhases == TypeOK /\ Phases

\* The first process starts from files and memory of the right shape.
LEMMA InitTypes == Init => TypesAndPhases
  <1> SUFFICES ASSUME Init PROVE TypesAndPhases
    OBVIOUS
  <1>1. mode = "down" /\ turn = 1 /\ nid = 0 /\ linked = {} /\ cut = FALSE /\ cache = disk
    BY DEF Init
  <1>2. 1 \in 1..(N + 1) /\ 0 \in 0..N
    BY SizeAssumption
  <1>3. disk \in [Zones -> File] /\ zone \in [Zones -> File]
    BY NewShape DEF Init
  <1>4. idOf \in [Zones -> {NoId} \union Nat] /\ held \in [Zones -> SUBSET (0..Count)]
    BY DEF Init, Nobody
  <1>5. saved \in [Zones -> [Blocks -> Content]]
    BY NewShape DEF Init, Nothing
  <1>6. TypeOK
    BY <1>1, <1>2, <1>3, <1>4, <1>5 DEF TypeOK
  <1>7. QED
    BY <1>1, <1>6 DEF TypesAndPhases, Phases

\* Putting a zone on the list keeps the types and moves on to the next.
LEMMA EnlistTypes ==
  ASSUME TypesAndPhases, turn \in Zones, NEW f \in File, Enlist(f),
         cache' \in [Zones -> File], disk' = cache', nid' \in 0..N, nid' <= turn
  PROVE  /\ linked' \subseteq Zones /\ turn' \in 1..(N + 1)
         /\ mode' \in {"register", "serve"}
         /\ mode' = "register" => turn' <= N /\ nid' < turn'
         /\ zone' \in [Zones -> File]
         /\ idOf' \in [Zones -> {NoId} \union Nat]
         /\ held' \in [Zones -> SUBSET (0..Count)]
         /\ saved' \in [Zones -> [Blocks -> Content]]
         /\ cut' \in BOOLEAN
  <1> USE DEF TypesAndPhases, TypeOK
  <1>1. turn \in Nat /\ turn <= N /\ N \in Nat
    BY SizeAssumption DEF Zones
  <1>2. linked' \subseteq Zones /\ cut' \in BOOLEAN /\ zone' \in [Zones -> File]
    BY DEF Enlist
  <1>3. idOf' \in [Zones -> {NoId} \union Nat]
    BY DEF Enlist, File
  <1>4. turn' = turn + 1 /\ mode' = IF turn = N THEN "serve" ELSE "register"
    BY DEF Enlist
  <1>5. PICK home \in Zones :
          LET data == cache'[home].data
              mine == {b \in Blocks : data[b].by = turn}
          IN /\ held' = [held EXCEPT ![turn] = mine]
             /\ saved' = [saved EXCEPT ![turn] =
                            [b \in Blocks |-> IF b \in mine THEN data[b] ELSE Empty]]
    BY DEF Enlist
  <1>6. \A b \in Blocks : cache'[home].data[b] \in Content
    BY DEF File
  <1>7. held' \in [Zones -> SUBSET (0..Count)]
    BY <1>5, SizeAssumption DEF Blocks
  <1>8. saved' \in [Zones -> [Blocks -> Content]]
    BY <1>5, <1>6, NewShape
  <1>9. turn' \in 1..(N + 1) /\ (mode' = "register" => turn' <= N /\ nid' < turn')
    BY <1>1, <1>4
  <1>10. QED
    BY <1>2, <1>3, <1>4, <1>7, <1>8, <1>9

\* Every step of a registration keeps the types and the phases.
LEMMA RegisterTypes ==
  ASSUME TypesAndPhases, Start \/ Restore \/ Create \/ Complete \/ RegFail
  PROVE  TypesAndPhases'
  <1> USE DEF TypesAndPhases, TypeOK, Phases
  <1>0. N \in Nat \ {0}
    BY SizeAssumption
  <1>1. CASE Start
    BY <1>0, <1>1 DEF Start
  <1>2. CASE Restore
    <2>1. turn \in Zones /\ disk[turn] \in File /\ cache = disk
      BY <1>0, <1>2 DEF Restore, Zones
    <2>2. nid' \in 0..N /\ nid' <= turn
      BY <1>0, <1>2 DEF Restore
    <2>3. Enlist(disk[turn]) /\ UNCHANGED <<disk, cache, nid>>
      BY <1>2 DEF Restore
    <2>4. QED
      BY <2>1, <2>2, <2>3, EnlistTypes
  <1>3. CASE Create
    <2>1. turn \in Zones /\ mode = "register" /\ mode' = "create" /\ turn <= N /\ nid < turn
      BY <1>0, <1>3 DEF Create, Zones
    <2> DEFINE f == [disk[turn] EXCEPT !.state = "zeros"]
    <2>a. f \in File /\ f.state = "zeros"
      BY <2>1, FileUpdates
    <2>b. disk' = [disk EXCEPT ![turn] = f] /\ cache' = disk'
      BY <1>3, <2>1 DEF Create
    <2>2. disk' \in [Zones -> File] /\ cache' = disk' /\ disk'[turn].state = "zeros"
      BY <2>1, <2>a, <2>b
    <2>3. QED
      BY <1>3, <2>1, <2>2 DEF Create
  <1>4. CASE Complete
    <2>1. turn \in Zones /\ nid \in Nat /\ nid' = nid + 1 /\ nid < turn /\ turn <= N
      BY <1>0, <1>4 DEF Complete, Zones
    <2>2. NewZone(nid) \in File
      BY <2>1, NewShape
    <2>3. disk' \in [Zones -> File] /\ disk' = cache'
      BY <1>4, <2>2 DEF Complete
    <2>4. nid' \in 0..N /\ nid' <= turn
      BY <1>0, <2>1 DEF Zones
    <2>5. Enlist(NewZone(nid))
      BY <1>4 DEF Complete
    <2>6. QED
      BY <2>1, <2>2, <2>3, <2>4, <2>5, EnlistTypes
  <1>5. CASE RegFail
    <2>1. turn \in 1..N /\ turn' = turn + 1 /\ nid' = nid
      BY <1>0, <1>5 DEF RegFail
    <2>2. mode' \in {"serve", "register"} /\ turn' \in 1..(N + 1)
          /\ (mode' = "register" => turn' <= N /\ nid' < turn')
      BY <1>0, <1>5, <2>1 DEF RegFail
    <2>3. linked' = {} /\ zone' \in [Zones -> File] /\ cut' \in BOOLEAN
      BY <1>5, NewShape DEF RegFail
    <2>4. cache' = disk' /\ UNCHANGED <<disk, cache, nid, idOf, held, saved>>
      BY <1>5 DEF RegFail
    <2>5. QED
      BY <2>1, <2>2, <2>3, <2>4
  <1>6. QED
    BY <1>1, <1>2, <1>3, <1>4, <1>5

\* The calls of a serving process change one file and what belongs to it.
LEMMA CallTypes ==
  ASSUME TypesAndPhases, NEW by \in Zones,
         \/ Alloc(by) \/ Stuck(by)
         \/ \E b \in Blocks : Read(by, b)
         \/ \E b \in Blocks, v \in 1..Versions : Save(by, b, v) \/ SaveRoot(by, b, v)
  PROVE  TypesAndPhases'
  <1> USE DEF TypesAndPhases, TypeOK
  <1>0. /\ Blocks \subseteq 0..Count /\ Blocks \subseteq Int
        /\ \A v \in 1..Versions : [by |-> by, ver |-> v] \in Content
    <2>1. Blocks \subseteq 0..Count /\ Blocks \subseteq Int
      BY SizeAssumption DEF Blocks
    <2>2. by \in 0..N /\ \A v \in 1..Versions : v \in 0..Versions
      BY SizeAssumption DEF Zones
    <2>3. QED
      BY <2>1, <2>2 DEF Content
  <1>1. ASSUME mode' \in {"serve", "stuck"}, mode = "serve", UNCHANGED <<turn, nid, linked, idOf, cut>>,
               disk' \in [Zones -> File], cache' \in [Zones -> File], zone' \in [Zones -> File],
               held' \in [Zones -> SUBSET (0..Count)],
               saved' \in [Zones -> [Blocks -> Content]]
        PROVE  TypesAndPhases'
    BY <1>1 DEF Phases
  <1>2. CASE Alloc(by)
    <2>1. PICK z \in Zones, b \in 0..Count :
            /\ mode = "serve"
            /\ zone' = [zone EXCEPT ![z].bits = @ \union {b}]
            /\ Write(z, [cache[z] EXCEPT !.bits = zone[z].bits \union {b}])
            /\ held' = [held EXCEPT ![by] = @ \union {b}]
      BY <1>2 DEF Alloc, Calls
    <2>2. UNCHANGED <<mode, turn, nid, linked, idOf, saved, cut>>
      BY <1>2 DEF Alloc
    <2> DEFINE S == zone[z].bits \union {b}
    <2>3. S \in SUBSET (0..Count)
      BY DEF File
    <2>4. [zone[z] EXCEPT !.bits = S] \in File /\ [cache[z] EXCEPT !.bits = S] \in File
      BY <2>3, FileUpdates
    <2>5. zone' = [zone EXCEPT ![z] = [zone[z] EXCEPT !.bits = S]]
      BY <2>1
    <2>6. zone' \in [Zones -> File]
      BY <2>4, <2>5
    <2>7. disk' \in [Zones -> File] /\ cache' \in [Zones -> File]
      BY <2>1, <2>4 DEF Write
    <2>8. held' \in [Zones -> SUBSET (0..Count)]
      BY <2>1
    <2>9. QED
      BY <1>1, <2>1, <2>2, <2>6, <2>7, <2>8
  <1>3. CASE Stuck(by)
    BY <1>1, <1>3 DEF Stuck, Calls
  <1>4. CASE \E b \in Blocks : Read(by, b)
    <2>1. /\ mode = "serve" /\ UNCHANGED memory /\ UNCHANGED cache
          /\ \E z \in Zones : disk' = [disk EXCEPT ![z] = cache[z]]
      BY <1>4 DEF Read, Calls, Flush
    <2>2. disk' \in [Zones -> File]
      BY <2>1
    <2>3. QED
      BY <1>1, <2>1, <2>2 DEF memory
  <1>5. ASSUME NEW b \in Blocks, NEW v \in 1..Versions, Save(by, b, v) \/ SaveRoot(by, b, v)
        PROVE  TypesAndPhases'
    <2>1. saved' \in [Zones -> [Blocks -> Content]]
      <3>1. saved' = [saved EXCEPT ![by] = [saved[by] EXCEPT ![b] = [by |-> by, ver |-> v]]]
        BY <1>5 DEF Save, SaveRoot, Saved
      <3>2. [saved[by] EXCEPT ![b] = [by |-> by, ver |-> v]] \in [Blocks -> Content]
        BY <1>0
      <3>3. QED
        BY <3>1, <3>2
    <2>2. mode = "serve" /\ UNCHANGED <<mode, turn, nid, linked, idOf, held, cut>>
      BY <1>5 DEF Save, SaveRoot, Calls
    <2> DEFINE f(z) == [cache[z] EXCEPT !.data = WithRecord(cache[z].data, z, by, b, v)]
    <2> DEFINE g(z) == [f(z) EXCEPT !.root = b]
    <2>3. ASSUME NEW z \in Zones
          PROVE  f(z) \in File /\ g(z) \in File /\ [zone[z] EXCEPT !.root = b] \in File
      <3>1. WithRecord(cache[z].data, z, by, b, v) \in [Blocks -> Content]
        BY RecordShape DEF File
      <3>2. f(z) \in File
        BY <3>1, FileUpdates
      <3>3. QED
        BY <1>0, <3>2, FileUpdates
    <2>4. CASE Save(by, b, v)
      <3>1. \E z \in Zones : disk' = [disk EXCEPT ![z] = cache[z]]
                             /\ cache' = [cache EXCEPT ![z] = f(z)]
        BY <2>4 DEF Save, Write
      <3>2. disk' \in [Zones -> File] /\ cache' \in [Zones -> File] /\ zone' = zone
        BY <2>3, <2>4, <3>1 DEF Save
      <3>3. QED
        BY <1>1, <2>1, <2>2, <3>2
    <2>5. CASE SaveRoot(by, b, v)
      <3>1. PICK z \in Zones : /\ disk' = [disk EXCEPT ![z] = f(z)]
                               /\ cache' = [cache EXCEPT ![z] = g(z)]
                               /\ zone' = [zone EXCEPT ![z] = [zone[z] EXCEPT !.root = b]]
        BY <2>5 DEF SaveRoot
      <3>2. disk' \in [Zones -> File] /\ cache' \in [Zones -> File] /\ zone' \in [Zones -> File]
        BY <2>3, <3>1
      <3>3. QED
        BY <1>1, <2>1, <2>2, <3>2
    <2>6. QED
      BY <1>5, <2>4, <2>5
  <1>6. QED
    BY <1>2, <1>3, <1>4, <1>5

\* What is left after a crash has the right shape.
LEMMA CrashTypes ==
  ASSUME TypesAndPhases, Crash
  PROVE  TypesAndPhases'
  <1> USE DEF TypesAndPhases, TypeOK
  <1>1. /\ mode' = "down" /\ turn' = 1 /\ nid' = 0 /\ linked' = {} /\ cache' = disk'
        /\ cut' \in BOOLEAN
    BY DEF Crash
  <1>2. disk' \in [Zones -> File]
    <2>1. DOMAIN disk' = Zones /\ disk' = [z \in Zones |-> disk'[z]]
      BY DEF Crash
    <2>2. \A z \in Zones : disk'[z] \in File
      BY RemainsShape DEF Crash
    <2>3. QED
      BY <2>1, <2>2
  <1>3. 1 \in 1..(N + 1) /\ 0 \in 0..N
    BY SizeAssumption
  <1>4. zone' \in [Zones -> File]
    BY NewShape DEF Crash
  <1>5. idOf' \in [Zones -> {NoId} \union Nat] /\ held' \in [Zones -> SUBSET (0..Count)]
    BY DEF Crash, Nobody
  <1>6. saved' \in [Zones -> [Blocks -> Content]]
    BY NewShape DEF Crash, Nothing
  <1>7. TypeOK'
    BY <1>1, <1>2, <1>3, <1>4, <1>5, <1>6
  <1>8. QED
    BY <1>1, <1>7 DEF Phases

\* Every step keeps the types and the phases.
LEMMA NextTypes == TypesAndPhases /\ [Next]_vars => TypesAndPhases'
  <1> SUFFICES ASSUME TypesAndPhases, [Next]_vars PROVE TypesAndPhases'
    OBVIOUS
  <1>1. CASE Start \/ Restore \/ Create \/ Complete \/ RegFail
    BY <1>1, RegisterTypes
  <1>2. CASE Crash
    BY <1>2, CrashTypes
  <1>3. ASSUME NEW by \in Zones,
               \/ Alloc(by) \/ Stuck(by)
               \/ \E b \in Blocks : Read(by, b)
               \/ \E b \in Blocks, v \in 1..Versions : Save(by, b, v) \/ SaveRoot(by, b, v)
        PROVE  TypesAndPhases'
    BY <1>3, CallTypes
  <1>4. CASE UNCHANGED vars
    BY <1>4 DEF vars, memory, TypesAndPhases, TypeOK, Phases
  <1>5. QED
    BY <1>1, <1>2, <1>3, <1>4 DEF Next

\* The types of all variables, over restarts and failures.
THEOREM StoreTypes == Spec => []TypeOK
  <1>1. TypesAndPhases => TypeOK
    BY DEF TypesAndPhases
  <1>2. QED
    BY <1>1, InitTypes, NextTypes, PTL DEF Spec

-----------------------------------------------------------------------------
(* Files and memory while no process was cut short.                        *)

CoreInv == ~cut => FirstPass /\ GoodFiles /\ Memory

\* Files that hold no record are good.
LEMMA GoodEmpty ==
  ASSUME NEW z \in Zones
  PROVE  /\ GoodFile(NoFile, z)
         /\ GoodFile(NewZone(z - 1), z)
         /\ \A f \in File : GoodFile(f, z) /\ f.state = "absent"
                              => GoodFile([f EXCEPT !.state = "zeros"], z)
  <1>1. \A b \in Blocks : Unwritten[b] = Empty
    BY DEF Unwritten
  <1>2. GoodFile(NoFile, z)
    BY <1>1 DEF NoFile, GoodFile
  <1>3. GoodFile(NewZone(z - 1), z)
    BY <1>1 DEF NewZone, GoodFile
  <1>4. ASSUME NEW f \in File, GoodFile(f, z), f.state = "absent"
        PROVE  GoodFile([f EXCEPT !.state = "zeros"], z)
    BY <1>4 DEF GoodFile, File
  <1>5. QED
    BY <1>2, <1>3, <1>4

\* A crash leaves a good file: a record that is lost or mixed has its bit on disk.
LEMMA GoodRemains ==
  ASSUME NEW z \in Zones, NEW f \in File, NEW g \in File, NEW h \in Remains(f, g),
         GoodFile(f, z), GoodFile(g, z), OneWrite(f, g)
  PROVE  GoodFile(h, z) /\ h.state = f.state
  <1> DEFINE d == [b \in Blocks |-> IF f.data[b] = g.data[b] THEN f.data[b]
                                    ELSE [g.data[b] EXCEPT !.ver = 0]]
  <1> DEFINE t == [f EXCEPT !.data = d]
  <1>1. CASE h = f \/ h = g
    BY <1>1 DEF OneWrite
  <1>2. CASE h = t
    <2>1. \A b \in Blocks : f.data[b] \in Content /\ g.data[b] \in Content
      BY DEF File
    <2>2. h.state = f.state /\ h.id = f.id /\ h.root = f.root /\ h.bits = f.bits /\ h.data = d
      BY <1>2 DEF File
    <2>3. f.data \in [Blocks -> Content] /\ g.data \in [Blocks -> Content]
      BY DEF File
    <2>4. CASE f.data = g.data
      <3>1. d = f.data
        BY <2>3, <2>4
      <3> HIDE DEF d
      <3>2. h.state = f.state /\ h.id = f.id /\ h.root = f.root /\ h.bits = f.bits /\ h.data = f.data
        BY <2>2, <3>1
      <3>3. QED
        BY <3>2 DEF GoodFile
    <2>5. CASE f.data # g.data
      <3>1. f.bits = g.bits /\ f.root = g.root /\ f.state = g.state
        BY <2>5 DEF OneWrite
      <3>2. f.state = "written"
        BY <2>5, <3>1 DEF GoodFile
      <3>3. ASSUME NEW b \in Blocks
            PROVE  d[b].by = f.data[b].by \/ d[b].by = g.data[b].by
        BY <2>1 DEF Content
      <3>4. ASSUME NEW b \in Blocks, d[b] # Empty
            PROVE  d[b].by = z /\ b \in f.bits
        <4>1. CASE f.data[b] = g.data[b]
          BY <3>4, <4>1 DEF GoodFile
        <4>2. CASE f.data[b] # g.data[b]
          <5>1. d[b] = [g.data[b] EXCEPT !.ver = 0]
            BY <4>2
          <5>2. [Empty EXCEPT !.ver = 0] = Empty
            BY DEF Empty
          <5>3. g.data[b] # Empty
            BY <3>4, <5>1, <5>2
          <5>4. d[b].by = g.data[b].by
            BY <2>1, <5>1 DEF Content
          <5>5. QED
            BY <3>1, <5>3, <5>4 DEF GoodFile
        <4>3. QED
          BY <4>1, <4>2
      <3>5. f.root # NoRoot => d[f.root].by = z
        <4>1. f.root # NoRoot => f.root \in Blocks /\ f.data[f.root].by = z /\ g.data[f.root].by = z
          BY <3>1, <3>2 DEF GoodFile
        <4>2. QED
          BY <3>3, <4>1
      <3>6. f.id = z - 1 /\ f.root \in {NoRoot} \union Blocks
        BY <3>2 DEF GoodFile
      <3>7. QED
        BY <2>2, <3>2, <3>4, <3>5, <3>6 DEF GoodFile
    <2>6. QED
      BY <2>4, <2>5
  <1>3. QED
    BY <1>1, <1>2 DEF Remains

\* Files that do not exist and an empty memory agree.
LEMMA InitCore == Init => CoreInv
  <1> SUFFICES ASSUME Init PROVE FirstPass /\ GoodFiles /\ Memory
    BY DEF CoreInv
  <1>1. \A z \in Zones : disk[z] = NoFile /\ cache[z] = NoFile /\ idOf[z] = NoId
    BY DEF Init
  <1>2. mode = "down" /\ linked = {}
    BY DEF Init
  <1>3. FirstPass
    BY <1>1, <1>2 DEF FirstPass, NoFile
  <1>4. GoodFiles
    BY <1>1, GoodEmpty DEF GoodFiles, OneWrite
  <1>5. QED
    BY <1>1, <1>2, <1>3, <1>4 DEF Memory

\* Enlisting a zone whose file carries its number: its caller is led to it.
LEMMA EnlistMemory ==
  ASSUME TypesAndPhases, Memory, turn \in Zones, NEW f \in File, f.state = "written",
         GoodFile(f, turn), cache'[turn] = f, Enlist(f),
         \A z \in linked \ {turn} : cache'[z] = cache[z]
  PROVE  Memory'
  <1> USE DEF TypesAndPhases, TypeOK
  <1>0. Zones \subseteq Int /\ linked \subseteq Zones /\ f.id = turn - 1
    BY DEF Zones, GoodFile
  <1>1. PICK home \in Zones :
          LET data == cache'[home].data
              mine == {b \in Blocks : data[b].by = turn}
          IN /\ FirstWith(linked', zone', f.id, home)
             /\ held' = [held EXCEPT ![turn] = mine]
             /\ saved' = [saved EXCEPT ![turn] =
                            [b \in Blocks |-> IF b \in mine THEN data[b] ELSE Empty]]
    BY DEF Enlist
  <1>2. /\ linked' = linked \union {turn}
        /\ zone' = [zone EXCEPT ![turn] = f]
        /\ idOf' = [idOf EXCEPT ![turn] = f.id]
    BY DEF Enlist
  <1>3. home = turn
    <2>1. home \in linked \union {turn} /\ zone'[home].id = turn - 1
      BY <1>0, <1>1, <1>2 DEF FirstWith
    <2>2. home # turn => home \in linked /\ zone'[home] = zone[home]
      BY <1>2, <2>1
    <2>3. \A z \in linked : zone[z].id = z - 1
      BY DEF Memory, InStep
    <2>4. home # turn => home - 1 = turn - 1
      BY <2>1, <2>2, <2>3
    <2>5. home \in Int /\ turn \in Int
      BY <1>0
    <2>6. QED
      BY <2>4, <2>5
  <1>4. ASSUME NEW z \in Zones, z = turn
        PROVE  InStep(z)'
    <2>1. zone'[z] = f /\ cache'[z] = f /\ held'[z] = {b \in Blocks : f.data[b].by = z}
      BY <1>1, <1>2, <1>3, <1>4
    <2>2. \A b \in Blocks : saved'[z][b] = IF f.data[b].by = z THEN f.data[b] ELSE Empty
      <3>1. saved'[z] = [b \in Blocks |-> IF f.data[b].by = z THEN f.data[b] ELSE Empty]
        BY <1>1, <1>3, <1>4
      <3>2. QED
        BY <3>1
    <2>3. \A b \in Blocks : f.data[b].by = z => f.data[b] # Empty
      BY <1>0, <1>4 DEF Empty, Zones
    <2>4. held'[z] \subseteq f.bits
      BY <1>4, <2>1, <2>3 DEF GoodFile
    <2>5. f.id = z - 1
      BY <1>0, <1>4
    <2>6. \A b \in Blocks : f.data[b].by # z => f.data[b] = Empty
      BY <1>4 DEF GoodFile
    <2>7. QED
      BY <2>1, <2>2, <2>4, <2>5, <2>6 DEF InStep
  <1>5. ASSUME NEW z \in linked, z # turn
        PROVE  InStep(z)'
    <2>1. z \in Zones /\ zone'[z] = zone[z] /\ held'[z] = held[z] /\ saved'[z] = saved[z]
          /\ cache'[z] = cache[z]
      BY <1>0, <1>1, <1>2, <1>5
    <2>2. QED
      BY <2>1 DEF Memory, InStep
  <1>6. \A z \in Zones : idOf'[z] \in {NoId, z - 1}
    BY <1>0, <1>2 DEF Memory
  <1>7. \A z \in linked' : InStep(z)'
    BY <1>0, <1>2, <1>4, <1>5
  <1>8. QED
    BY <1>6, <1>7 DEF Memory

\* A registration numbers the zones in order and reads back what the files hold.
LEMMA RegisterCore ==
  ASSUME TypesAndPhases, CoreInv, Start \/ Restore \/ Create \/ Complete \/ RegFail
  PROVE  CoreInv'
  <1> USE DEF TypesAndPhases, TypeOK
  <1> SUFFICES ASSUME ~cut' PROVE FirstPass' /\ GoodFiles' /\ Memory'
    BY DEF CoreInv
  <1>0. /\ FirstPass /\ GoodFiles /\ Memory
        /\ N \in Nat \ {0} /\ Zones = 1..N
    BY SizeAssumption DEF CoreInv, Zones, Start, Restore, Create, Complete, RegFail, Enlist
  <1>1. CASE Start
    <2>1. mode' = "register" /\ UNCHANGED <<disk, cache, linked, zone, idOf, held, saved, turn, nid>>
      BY <1>1 DEF Start
    <2>2. mode = "down" /\ turn = 1 /\ nid = 0
      BY <1>1 DEF Start, Phases
    <2>3. FirstPass'
      BY <1>0, <2>1, <2>2 DEF FirstPass
    <2>4. QED
      BY <1>0, <2>1, <2>3 DEF GoodFiles, Memory, InStep
  <1>2. CASE Restore
    <2>1. /\ turn \in Zones /\ mode = "register" /\ disk[turn].state # "absent" /\ cache = disk
          /\ UNCHANGED <<disk, cache>> /\ Enlist(disk[turn])
      BY <1>0, <1>2 DEF Restore, Phases
    <2>2. \A z \in Zones : disk[z].state = "written"
      BY <1>0, <2>1 DEF FirstPass
    <2>3. FirstPass' /\ GoodFiles'
      BY <1>0, <2>1, <2>2 DEF FirstPass, GoodFiles
    <2>4. Memory'
      <3>1. disk[turn] \in File /\ GoodFile(disk[turn], turn) /\ cache'[turn] = disk[turn]
        BY <1>0, <2>1 DEF GoodFiles
      <3>2. QED
        BY <1>0, <2>1, <2>2, <3>1, EnlistMemory
    <2>5. QED
      BY <2>3, <2>4
  <1>3. CASE Create
    <2> DEFINE f == [disk[turn] EXCEPT !.state = "zeros"]
    <2>1. /\ turn \in Zones /\ mode = "register" /\ disk[turn].state = "absent" /\ cache = disk
          /\ mode' = "create" /\ disk' = [disk EXCEPT ![turn] = f] /\ cache' = disk'
          /\ UNCHANGED <<turn, nid, linked, zone, idOf, held, saved>>
      BY <1>0, <1>3 DEF Create, Phases
    <2>2. nid = turn - 1 /\ \A z \in Zones : /\ z < turn => disk[z].state = "written"
                                             /\ z > turn => disk[z].state = "absent"
      BY <1>0, <2>1 DEF FirstPass
    <2>3. GoodFile(f, turn)
      BY <1>0, <2>1, GoodEmpty DEF GoodFiles
    <2>4. \A z \in Zones : z # turn => disk'[z] = disk[z]
      BY <2>1
    <2>5. FirstPass'
      BY <1>0, <2>1, <2>2, <2>4 DEF FirstPass
    <2>6. GoodFiles'
      <3>1. disk'[turn] = f /\ cache' = disk'
        BY <2>1
      <3>2. \A z \in Zones : GoodFile(disk'[z], z)
        BY <1>0, <2>3, <2>4, <3>1 DEF GoodFiles
      <3>3. QED
        BY <3>1, <3>2 DEF GoodFiles, OneWrite
    <2>7. Memory'
      <3>1. \A z \in linked : z # turn /\ z \in Zones
        BY <1>0, <2>1 DEF Memory, InStep
      <3>2. QED
        BY <1>0, <2>1, <2>4, <3>1 DEF Memory, InStep
    <2>8. QED
      BY <2>5, <2>6, <2>7
  <1>4. CASE Complete
    <2> DEFINE f == NewZone(nid)
    <2>1. /\ turn \in Zones /\ mode = "create" /\ disk[turn].state = "zeros" /\ cache = disk
          /\ turn' = turn + 1 /\ mode' = (IF turn = N THEN "serve" ELSE "register")
          /\ nid' = nid + 1 /\ disk' = [disk EXCEPT ![turn] = f] /\ cache' = disk'
          /\ Enlist(f)
      <3>1. /\ mode = "create" /\ nid' = nid + 1 /\ Enlist(f)
            /\ disk' = [disk EXCEPT ![turn] = f] /\ cache' = [cache EXCEPT ![turn] = f]
        BY <1>4 DEF Complete
      <3>2. turn' = turn + 1 /\ mode' = (IF turn = N THEN "serve" ELSE "register")
        BY <3>1 DEF Enlist
      <3>3. turn \in Zones /\ disk[turn].state = "zeros" /\ cache = disk
        BY <1>0, <3>1 DEF Phases
      <3>4. QED
        BY <3>1, <3>2, <3>3
    <2>2. nid = turn - 1 /\ \A z \in Zones : /\ z < turn => disk[z].state = "written"
                                             /\ z > turn => disk[z].state = "absent"
      BY <1>0, <2>1 DEF FirstPass
    <2>3. GoodFile(f, turn) /\ f.state = "written" /\ f \in File
      BY <2>1, <2>2, GoodEmpty, NewShape DEF NewZone
    <2>4. \A z \in Zones : z # turn => disk'[z] = disk[z]
      BY <2>1
    <2>5. disk'[turn] = f /\ cache'[turn] = f
      BY <2>1
    <2>6. FirstPass'
      BY <1>0, <2>1, <2>2, <2>3, <2>4, <2>5 DEF FirstPass
    <2>7. GoodFiles'
      <3>1. \A z \in Zones : GoodFile(disk'[z], z)
        BY <1>0, <2>3, <2>4, <2>5 DEF GoodFiles
      <3>2. QED
        BY <2>1, <3>1 DEF GoodFiles, OneWrite
    <2>8. \A z \in linked \ {turn} : cache'[z] = cache[z]
      BY <2>1
    <2>9. Memory'
      BY <1>0, <2>1, <2>3, <2>5, <2>8, EnlistMemory
    <2>10. QED
      BY <2>6, <2>7, <2>9
  <1>5. CASE RegFail
    <2>a. mode = "register" /\ disk[turn].state = "written"
          /\ linked' = {} /\ UNCHANGED <<disk, cache, idOf>>
      BY <1>5, Zenon DEF RegFail
    <2>1. turn \in Zones
      BY <1>0, <2>a DEF Phases
    <2>2. \A z \in Zones : disk[z].state = "written"
      BY <1>0, <2>a, <2>1 DEF FirstPass
    <2>3. QED
      BY <1>0, <2>a, <2>2 DEF FirstPass, GoodFiles, Memory
  <1>6. QED
    BY <1>1, <1>2, <1>3, <1>4, <1>5

\* A caller's zone id leads to its own zone, which is in step with its file.
LEMMA LedHome ==
  ASSUME TypesAndPhases, Memory, NEW by \in Zones, NEW z \in Zones, Leads(idOf[by], z)
  PROVE  z = by /\ z \in linked /\ InStep(z)
  <1>1. z \in linked /\ zone[z].id = idOf[by] /\ InStep(z)
    BY DEF Leads, FirstWith, Memory
  <1>2. zone[z].id = z - 1
    BY <1>1 DEF InStep
  <1>3. idOf[by] \in {NoId, by - 1}
    BY DEF Memory
  <1>4. z \in Nat \ {0} /\ by \in Nat
    BY SizeAssumption DEF Zones
  <1>5. z - 1 # NoId
    BY <1>4 DEF NoId
  <1>6. z - 1 = by - 1
    BY <1>1, <1>2, <1>3, <1>5
  <1>7. QED
    BY <1>1, <1>4, <1>6

\* One zone's file moves on by a write (or a flush), and what belongs to it with it.
LEMMA OneZoneCore ==
  ASSUME TypesAndPhases, FirstPass, GoodFiles, Memory, mode = "serve",
         NEW z \in linked, NEW f, NEW g,
         disk' = [disk EXCEPT ![z] = f], cache' = [cache EXCEPT ![z] = g],
         GoodFile(f, z), GoodFile(g, z), OneWrite(f, g), f.state = "written",
         UNCHANGED <<linked, idOf>>, InStep(z)',
         \A y \in linked \ {z} : /\ zone'[y] = zone[y]
                                 /\ held'[y] = held[y] /\ saved'[y] = saved[y]
  PROVE  FirstPass' /\ GoodFiles' /\ Memory'
  <1> USE DEF TypesAndPhases, TypeOK
  <1>1. z \in Zones /\ disk'[z] = f /\ cache'[z] = g
    OBVIOUS
  <1>2. \A y \in Zones : y # z => disk'[y] = disk[y] /\ cache'[y] = cache[y]
    OBVIOUS
  <1>3. \A y \in Zones : disk[y].state = "written"
    BY DEF FirstPass
  <1>4. FirstPass'
    BY <1>1, <1>2, <1>3 DEF FirstPass
  <1>5. GoodFiles'
    BY <1>1, <1>2 DEF GoodFiles
  <1>6. ASSUME NEW y \in linked, y # z
        PROVE  InStep(y)'
    BY <1>2, <1>6 DEF Memory, InStep
  <1>7. QED
    BY <1>4, <1>5, <1>6 DEF Memory

\* An allocation marks a block without data, in memory and in the file.
LEMMA AllocCore ==
  ASSUME TypesAndPhases, CoreInv, NEW by \in Zones, Alloc(by)
  PROVE  CoreInv'
  <1> USE DEF TypesAndPhases, TypeOK
  <1> SUFFICES ASSUME ~cut' PROVE FirstPass' /\ GoodFiles' /\ Memory'
    BY DEF CoreInv
  <1>1. FirstPass /\ GoodFiles /\ Memory /\ UNCHANGED <<mode, turn, nid, linked, idOf, saved, cut>>
    BY DEF CoreInv, Alloc
  <1>2. PICK z \in Zones, b \in 0..Count :
          /\ Calls(by, z) /\ FirstFree(zone[z].bits, b)
          /\ zone' = [zone EXCEPT ![z].bits = @ \union {b}]
          /\ Write(z, [cache[z] EXCEPT !.bits = zone[z].bits \union {b}])
          /\ held' = [held EXCEPT ![by] = @ \union {b}]
    BY DEF Alloc
  <1>3. z = by /\ z \in linked /\ InStep(z) /\ mode = "serve"
    BY <1>1, <1>2, LedHome DEF Calls
  <1> DEFINE S == zone[z].bits \union {b}
  <1> DEFINE g == [cache[z] EXCEPT !.bits = S]
  <1>4. cache[z] \in File /\ zone[z] \in File /\ S \in SUBSET (0..Count)
    BY DEF File
  <1>5. /\ g.state = cache[z].state /\ g.id = cache[z].id /\ g.root = cache[z].root
        /\ g.bits = S /\ g.data = cache[z].data
    BY <1>4 DEF File
  <1>6. zone[z].bits = cache[z].bits /\ cache[z].state = "written"
    BY <1>3 DEF InStep
  <1>7. GoodFile(cache[z], z)
    BY <1>1 DEF GoodFiles
  <1>8. disk' = [disk EXCEPT ![z] = cache[z]] /\ cache' = [cache EXCEPT ![z] = g]
    BY <1>2 DEF Write
  <1> HIDE DEF g
  <1>9. GoodFile(g, z) /\ OneWrite(cache[z], g)
    BY <1>5, <1>6, <1>7 DEF GoodFile, OneWrite
  <1>10. InStep(z)'
    <2>1. cache'[z] = g /\ held'[z] = held[z] \union {b} /\ saved'[z] = saved[z]
      BY <1>1, <1>2, <1>3, <1>8
    <2>2. zone'[z].state = zone[z].state /\ zone'[z].id = zone[z].id /\ zone'[z].bits = S
      <3>1. zone'[z] = [zone[z] EXCEPT !.bits = S]
        BY <1>2
      <3>2. QED
        BY <1>4, <3>1 DEF File
    <2>3. b \in Blocks => b \notin zone[z].bits
      BY <1>2, SizeAssumption DEF FirstFree, Blocks
    <2>4. b \in Blocks => b \notin held[z] /\ cache[z].data[b] = Empty
      BY <1>3, <1>6, <1>7, <2>3 DEF InStep, GoodFile
    <2>5. \A c \in Blocks : IF c \in held[z] \union {b} THEN saved[z][c] = cache[z].data[c]
                            ELSE saved[z][c] = Empty /\ cache[z].data[c] = Empty
      BY <1>3, <2>4 DEF InStep
    <2>6. held[z] \union {b} \subseteq S
      BY <1>3 DEF InStep
    <2>7. g.state = "written" /\ g.bits = S /\ g.data = cache[z].data
      BY <1>5, <1>6
    <2>8. zone[z].state = "written" /\ zone[z].id = z - 1
      BY <1>3 DEF InStep
    <2>9. QED
      BY <2>1, <2>2, <2>5, <2>6, <2>7, <2>8 DEF InStep
  <1>11. \A y \in linked \ {z} : zone'[y] = zone[y] /\ held'[y] = held[y] /\ saved'[y] = saved[y]
    BY <1>1, <1>2, <1>3
  <1>12. QED
    BY <1>1, <1>3, <1>6, <1>7, <1>8, <1>9, <1>10, <1>11, OneZoneCore

\* The file of zone z once its caller's record is in block b.
WithOwn(z, b, v) == [cache[z] EXCEPT !.data = WithRecord(cache[z].data, z, z, b, v)]

\* A saved record in the zone's file: only its own block changes.
LEMMA SaveFile ==
  ASSUME TypesAndPhases, GoodFiles, NEW z \in Zones, InStep(z),
         NEW b \in Blocks, b \in held[z], NEW v \in 1..Versions
  PROVE  LET f == WithOwn(z, b, v)
         IN  /\ f \in File /\ GoodFile(f, z) /\ OneWrite(cache[z], f)
             /\ f.state = "written" /\ f.bits = cache[z].bits /\ f.root = cache[z].root
             /\ f.id = cache[z].id
             /\ f.data[b] = [by |-> z, ver |-> v]
             /\ \A c \in Blocks \ {b} : f.data[c] = cache[z].data[c]
  <1> USE DEF TypesAndPhases, TypeOK
  <1> DEFINE d == WithRecord(cache[z].data, z, z, b, v)
  <1> DEFINE f == WithOwn(z, b, v)
  <1>1. cache[z] \in File /\ cache[z].data \in [Blocks -> Content]
    BY DEF File
  <1>2. d \in [Blocks -> Content]
    BY <1>1, RecordShape
  <1>4. d[b] = [by |-> z, ver |-> v] /\ \A c \in Blocks \ {b} : d[c] = cache[z].data[c]
    <2>1. ASSUME NEW data \in [Blocks -> Content]
          PROVE  /\ WithRecord(data, z, z, b, v)[b] = [by |-> z, ver |-> v]
                 /\ \A c \in Blocks \ {b} : WithRecord(data, z, z, b, v)[c] = data[c]
      BY OwnRecord
    <2>2. QED
      BY <1>1, <2>1
  <1> HIDE DEF d
  <1>5. f \in File /\ f.state = cache[z].state /\ f.id = cache[z].id /\ f.root = cache[z].root
        /\ f.bits = cache[z].bits /\ f.data = d
    BY <1>1, <1>2, FileUpdates DEF d, File, WithOwn
  <1> HIDE DEF f
  <1>6. f.state = "written" /\ b \in f.bits
    BY <1>5 DEF InStep
  <1>7. GoodFile(f, z)
    <2>1. GoodFile(cache[z], z)
      BY DEF GoodFiles
    <2>2. f.id = z - 1 /\ f.root \in {NoRoot} \union Blocks
      BY <1>5, <1>6, <2>1 DEF GoodFile
    <2>3. f.root # NoRoot => f.data[f.root].by = z
      <3>1. f.root # NoRoot => cache[z].data[f.root].by = z
        BY <1>5, <1>6, <2>1 DEF GoodFile
      <3>2. f.root = b => f.data[f.root].by = z
        BY <1>4, <1>5
      <3>3. f.root \in Blocks \ {b} => f.data[f.root] = cache[z].data[f.root]
        BY <1>4, <1>5
      <3>4. QED
        BY <2>2, <3>1, <3>2, <3>3
    <2>4. \A c \in Blocks : f.data[c] # Empty => f.data[c].by = z /\ c \in f.bits
      BY <1>4, <1>5, <1>6, <2>1 DEF GoodFile
    <2>5. QED
      BY <1>6, <2>2, <2>3, <2>4 DEF GoodFile
  <1>8. OneWrite(cache[z], f)
    BY <1>5 DEF OneWrite
  <1>9. QED
    BY <1>4, <1>5, <1>6, <1>7, <1>8 DEF f

\* A record, with or without the root id in the header, goes to a marked block.
LEMMA SaveCore ==
  ASSUME TypesAndPhases, CoreInv, NEW by \in Zones, NEW b \in Blocks, NEW v \in 1..Versions,
         Save(by, b, v) \/ SaveRoot(by, b, v)
  PROVE  CoreInv'
  <1> USE DEF TypesAndPhases, TypeOK
  <1> SUFFICES ASSUME ~cut' PROVE FirstPass' /\ GoodFiles' /\ Memory'
    BY DEF CoreInv
  <1>1. /\ FirstPass /\ GoodFiles /\ Memory
        /\ UNCHANGED <<mode, turn, nid, linked, idOf, held, cut>>
    BY DEF CoreInv, Save, SaveRoot
  <1> DEFINE F(z) == [cache[z] EXCEPT !.data = WithRecord(cache[z].data, z, by, b, v)]
  <1>2. PICK z \in Zones :
          /\ Calls(by, z) /\ b \in held[by]
          /\ saved' = [saved EXCEPT ![by] = [saved[by] EXCEPT ![b] = [by |-> by, ver |-> v]]]
          /\ \/ /\ zone' = zone
                /\ disk' = [disk EXCEPT ![z] = cache[z]]
                /\ cache' = [cache EXCEPT ![z] = F(z)]
             \/ /\ zone' = [zone EXCEPT ![z] = [zone[z] EXCEPT !.root = b]]
                /\ disk' = [disk EXCEPT ![z] = F(z)]
                /\ cache' = [cache EXCEPT ![z] = [F(z) EXCEPT !.root = b]]
    BY DEF Save, SaveRoot, Saved, Write
  <1>3. z = by /\ z \in linked /\ InStep(z) /\ mode = "serve"
    BY <1>1, <1>2, LedHome DEF Calls
  <1> DEFINE f == F(z)
  <1> DEFINE g == [f EXCEPT !.root = b]
  <1>4. /\ f \in File /\ GoodFile(f, z) /\ OneWrite(cache[z], f)
        /\ f.state = "written" /\ f.bits = cache[z].bits /\ f.root = cache[z].root
        /\ f.id = cache[z].id
        /\ f.data[b] = [by |-> z, ver |-> v]
        /\ \A c \in Blocks \ {b} : f.data[c] = cache[z].data[c]
    <2>1. f = WithOwn(z, b, v)
      BY <1>3 DEF WithOwn
    <2>2. GoodFiles /\ InStep(z) /\ b \in held[z]
      BY <1>1, <1>2, <1>3
    <2> HIDE DEF f, F
    <2>3. QED
      BY <2>1, <2>2, SaveFile
  <1>5. GoodFile(cache[z], z) /\ cache[z].state = "written"
    BY <1>1, <1>3 DEF GoodFiles, InStep
  <1> HIDE DEF f
  <1>6. /\ g.state = f.state /\ g.id = f.id /\ g.root = b /\ g.bits = f.bits /\ g.data = f.data
    BY <1>4 DEF File
  <1> HIDE DEF g
  <1>7. GoodFile(g, z) /\ OneWrite(f, g)
    <2>1. g.data[g.root].by = z
      BY <1>4, <1>6
    <2>2. QED
      BY <1>4, <1>6, <2>1 DEF GoodFile, OneWrite
  <1>8. \A y \in linked \ {z} : held'[y] = held[y] /\ saved'[y] = saved[y]
    BY <1>1, <1>2, <1>3
  <1>9. \A c \in Blocks : IF c \in held'[z] THEN saved'[z][c] = f.data[c]
                          ELSE saved'[z][c] = Empty /\ f.data[c] = Empty
    <2>1. saved'[z] = [saved[z] EXCEPT ![b] = [by |-> z, ver |-> v]] /\ held'[z] = held[z]
      BY <1>1, <1>2, <1>3
    <2>2. saved'[z][b] = [by |-> z, ver |-> v] /\ \A c \in Blocks \ {b} : saved'[z][c] = saved[z][c]
      BY <2>1
    <2>3. b \in held[z] /\ saved'[z][b] = f.data[b]
      BY <1>2, <1>3, <1>4, <2>2
    <2>4. \A c \in Blocks \ {b} : IF c \in held[z] THEN saved[z][c] = f.data[c]
                                  ELSE saved[z][c] = Empty /\ f.data[c] = Empty
      BY <1>3, <1>4 DEF InStep
    <2>5. QED
      BY <2>1, <2>2, <2>3, <2>4
  <1>10. held'[z] \subseteq f.bits
    BY <1>1, <1>3, <1>4 DEF InStep
  <1>11. zone[z].state = "written" /\ zone[z].id = z - 1 /\ zone[z].bits = f.bits
    BY <1>3, <1>4 DEF InStep
  <1>12. CASE /\ zone' = zone
              /\ disk' = [disk EXCEPT ![z] = cache[z]]
              /\ cache' = [cache EXCEPT ![z] = f]
    <2>1. cache'[z] = f /\ zone'[z] = zone[z]
      BY <1>12
    <2>2. InStep(z)'
      BY <1>4, <1>9, <1>10, <1>11, <2>1 DEF InStep
    <2>3. \A y \in linked \ {z} : zone'[y] = zone[y]
      BY <1>12
    <2>4. QED
      BY <1>1, <1>3, <1>4, <1>5, <1>8, <1>12, <2>2, <2>3, OneZoneCore
  <1>13. CASE /\ zone' = [zone EXCEPT ![z] = [zone[z] EXCEPT !.root = b]]
              /\ disk' = [disk EXCEPT ![z] = f]
              /\ cache' = [cache EXCEPT ![z] = g]
    <2>1. cache'[z] = g /\ zone'[z] = [zone[z] EXCEPT !.root = b]
      BY <1>13
    <2>2. zone'[z].state = zone[z].state /\ zone'[z].id = zone[z].id /\ zone'[z].bits = zone[z].bits
      BY <2>1 DEF File
    <2>3. InStep(z)'
      BY <1>4, <1>6, <1>9, <1>10, <1>11, <2>1, <2>2 DEF InStep
    <2>4. \A y \in linked \ {z} : zone'[y] = zone[y]
      BY <1>13
    <2>5. QED
      BY <1>1, <1>3, <1>4, <1>7, <1>8, <1>13, <2>3, <2>4, OneZoneCore
  <1>14. QED
    BY <1>2, <1>12, <1>13 DEF f, g

\* A read only empties the buffer.
LEMMA ReadCore ==
  ASSUME TypesAndPhases, CoreInv, NEW by \in Zones,
         Stuck(by) \/ \E b \in Blocks : Read(by, b)
  PROVE  CoreInv'
  <1> USE DEF TypesAndPhases, TypeOK
  <1> SUFFICES ASSUME ~cut' PROVE FirstPass' /\ GoodFiles' /\ Memory'
    BY DEF CoreInv
  <1>1. FirstPass /\ GoodFiles /\ Memory /\ mode = "serve"
        /\ UNCHANGED <<linked, idOf, zone, held, saved>>
    BY DEF CoreInv, Stuck, Read, Calls, memory
  <1>2. CASE Stuck(by)
    <2>1. UNCHANGED <<disk, cache>>
      BY <1>2 DEF Stuck
    <2>2. QED
      BY <1>1, <2>1 DEF FirstPass, GoodFiles, Memory, InStep
  <1>3. CASE \E b \in Blocks : Read(by, b)
    <2>1. PICK z \in Zones : Calls(by, z) /\ disk' = [disk EXCEPT ![z] = cache[z]] /\ cache' = cache
      BY <1>3 DEF Read, Flush
    <2>2. z \in linked /\ InStep(z)
      BY <1>1, <2>1, LedHome DEF Calls
    <2>3. GoodFile(cache[z], z) /\ cache[z].state = "written" /\ OneWrite(cache[z], cache[z])
      BY <1>1, <2>2 DEF GoodFiles, InStep, OneWrite
    <2>4. cache' = [cache EXCEPT ![z] = cache[z]]
      BY <2>1
    <2>5. InStep(z)'
      BY <1>1, <2>1, <2>2 DEF InStep
    <2>6. QED
      BY <1>1, <2>1, <2>2, <2>3, <2>4, <2>5, OneZoneCore
  <1>4. QED
    BY <1>2, <1>3

\* A crash of a process that had created all zones leaves good files.
LEMMA CrashCore ==
  ASSUME TypesAndPhases, CoreInv, Crash
  PROVE  CoreInv'
  <1> USE DEF TypesAndPhases, TypeOK
  <1> SUFFICES ASSUME ~cut' PROVE FirstPass' /\ GoodFiles' /\ Memory'
    BY DEF CoreInv
  <1>1. ~cut /\ \A z \in Zones : disk[z].state = "written"
    BY Zenon DEF Crash
  <1>2. GoodFiles
    BY <1>1 DEF CoreInv
  <1>3. ASSUME NEW z \in Zones
        PROVE  GoodFile(disk'[z], z) /\ disk'[z].state = "written"
    <2>1. disk[z] \in File /\ cache[z] \in File
      OBVIOUS
    <2>2. disk'[z] \in Remains(disk[z], cache[z])
      BY DEF Crash
    <2>3. GoodFile(disk[z], z) /\ GoodFile(cache[z], z) /\ OneWrite(disk[z], cache[z])
      BY <1>2 DEF GoodFiles
    <2>4. disk[z].state = "written"
      BY <1>1
    <2>5. QED
      BY <2>1, <2>2, <2>3, <2>4, GoodRemains
  <1>4. linked' = {} /\ cache' = disk' /\ \A z \in Zones : idOf'[z] = NoId
    BY DEF Crash
  <1>5. QED
    BY <1>3, <1>4 DEF FirstPass, GoodFiles, OneWrite, Memory

Strong == TypesAndPhases /\ CoreInv

\* The inductive invariant holds throughout.
LEMMA StrongInvariant == Spec => []Strong
  <1>1. Init => Strong
    BY InitTypes, InitCore DEF Strong
  <1>2. Strong /\ [Next]_vars => Strong'
    <2> SUFFICES ASSUME TypesAndPhases, CoreInv, [Next]_vars PROVE CoreInv'
      BY NextTypes DEF Strong
    <2>1. CASE Start \/ Restore \/ Create \/ Complete \/ RegFail
      BY <2>1, RegisterCore
    <2>2. CASE Crash
      BY <2>2, CrashCore
    <2>3. ASSUME NEW by \in Zones, Alloc(by) PROVE CoreInv'
      BY <2>3, AllocCore
    <2>4. ASSUME NEW by \in Zones, Stuck(by) \/ \E b \in Blocks : Read(by, b) PROVE CoreInv'
      BY <2>4, ReadCore
    <2>5. ASSUME NEW by \in Zones, NEW b \in Blocks, NEW v \in 1..Versions,
                 Save(by, b, v) \/ SaveRoot(by, b, v)
          PROVE  CoreInv'
      BY <2>5, SaveCore
    <2>6. CASE UNCHANGED vars
      BY <2>6 DEF vars, memory, CoreInv, FirstPass, GoodFiles, Memory, InStep
    <2>7. QED
      BY <2>1, <2>2, <2>3, <2>4, <2>5, <2>6 DEF Next
  <1>3. QED
    BY <1>1, <1>2, PTL DEF Spec

-----------------------------------------------------------------------------
(* What follows.                                                           *)

\* Data on disk lies in blocks that the bitmap on disk marks, whatever write a
\* crash cut off (alloc_block_from_zone writes the bitmap before data can be saved).
THEOREM BlocksStayOwned == Spec => []BlocksOwned
  <1>1. Strong => BlocksOwned
    BY DEF Strong, CoreInv, GoodFiles, GoodFile, BlocksOwned
  <1>2. QED
    BY <1>1, StrongInvariant, PTL

\* A zone id, new or restored, leads get_zone to the zone that it was returned for.
THEOREM ZonesStayApart == Spec => []ZonesApart
  <1>1. Strong => ZonesApart
    <2> SUFFICES ASSUME TypesAndPhases, CoreInv, ~cut, NEW z \in Zones, NEW y \in Zones,
                        Leads(idOf[z], y)
                 PROVE  y = z
      BY DEF Strong, ZonesApart
    <2>1. QED
      BY LedHome DEF CoreInv
  <1>2. QED
    BY <1>1, StrongInvariant, PTL

\* read_data returns what save_data last wrote to the block, for block sizes that
\* the records fit.
THEOREM SavedIsRead == Spec => []ReadBack
  <1>1. Strong => ReadBack
    <2> SUFFICES ASSUME TypesAndPhases, CoreInv, ~cut, NEW by \in Zones, NEW z \in Zones,
                        Calls(by, z), NEW b \in held[by] \intersect Blocks
                 PROVE  cache[z].data[b] = saved[by][b]
      BY DEF Strong, ReadBack
    <2>1. z = by /\ InStep(z)
      BY LedHome DEF CoreInv, Calls
    <2>2. QED
      BY <2>1 DEF InStep
  <1>2. QED
    BY <1>1, StrongInvariant, PTL

\* The root id in a header on disk names a block with a node of the tree
\* (save_bptree_root_node writes the node first).
THEOREM RootsAreSaved == Spec => []RootIsSaved
  <1>1. Strong => RootIsSaved
    BY DEF Strong, CoreInv, GoodFiles, GoodFile, RootIsSaved
  <1>2. QED
    BY <1>1, StrongInvariant, PTL

\* alloc_block_from_zone yields a block that nobody ever wrote, or none.
THEOREM GrantsAreFresh == Spec => GrantsFresh
  <1> DEFINE Fresh(by) == \E b \in 0..Count :
               /\ held'[by] = held[by] \union {b}
               /\ b # Count => b \notin held[by] /\ cache[by].data[b] = Empty
  <1> DEFINE Step == ~cut => \A by \in Zones : Alloc(by) => Fresh(by)
  <1>1. ASSUME TypesAndPhases, CoreInv, ~cut, NEW by \in Zones, Alloc(by)
        PROVE  Fresh(by)
    <2>1. PICK z \in Zones, b \in 0..Count :
            /\ Calls(by, z) /\ FirstFree(zone[z].bits, b)
            /\ held' = [held EXCEPT ![by] = @ \union {b}]
      BY <1>1 DEF Alloc
    <2>2. z = by /\ InStep(z)
      BY <1>1, <2>1, LedHome DEF CoreInv, Calls
    <2>3. held'[by] = held[by] \union {b}
      BY <1>1, <2>1 DEF TypesAndPhases, TypeOK
    <2>4. b # Count => b \in Blocks /\ b \notin zone[z].bits
      BY <2>1 DEF FirstFree
    <2>5. b # Count => b \notin held[by]
      BY <2>2, <2>4 DEF InStep
    <2>6. b # Count => cache[by].data[b] = Empty
      <3>1. GoodFile(cache[z], z) /\ zone[z].bits = cache[z].bits
        BY <1>1, <2>2 DEF CoreInv, GoodFiles, InStep
      <3>2. QED
        BY <2>2, <2>4, <3>1 DEF GoodFile
    <2>7. QED
      BY <2>3, <2>5, <2>6
  <1>2. Strong => Step
    BY <1>1 DEF Strong
  <1>3. Strong /\ [Next]_vars => [Step]_vars
    BY <1>2
  <1>4. Step <=> (~cut => \A by \in Zones : Alloc(by) => Fresh(by))
    OBVIOUS
  <1> HIDE DEF Step
  <1>5. [][Step]_vars <=> GrantsFresh
    BY <1>4, PTL DEF GrantsFresh
  <1>6. QED
    BY <1>3, <1>5, StrongInvariant, PTL DEF Spec
-----------------------------------------------------------------------------
(* Where the search for a stream never ends, whatever became of the files. *)

\* Only a process that serves hands out the id past the last block, and only for a
\* zone that is full, as zones then remain: bits are never cleared, and the list and
\* the ids on it stay as they are.
FullInv ==
  /\ mode \in {"down", "register", "create"} => \A by \in Zones : Count \notin held[by]
  /\ \A by, z \in Zones :
       Count \in held[by] /\ Leads(idOf[by], z) => Blocks \subseteq zone[z].bits

\* The id past the last block is no block's.
LEMMA CountIsNoBlock == Count \notin Blocks
  BY SizeAssumption DEF Blocks

\* An id leads to one zone: the first on the list that carries it.
LEMMA LeadsToOne ==
  ASSUME NEW id, NEW y \in Zones, NEW z \in Zones, Leads(id, y), Leads(id, z)
  PROVE  y = z
  <1>1. y <= z /\ z <= y
    BY DEF Leads, FirstWith
  <1>2. y \in Int /\ z \in Int
    BY SizeAssumption DEF Zones
  <1>3. QED
    BY <1>1, <1>2

\* A step that keeps the list and its ids, clears no bit and hands out no id past the
\* last block keeps what follows from that id.
LEMMA FullKept ==
  ASSUME TypesAndPhases, FullInv, mode = "serve", mode' = "serve",
         linked' = linked, idOf' = idOf, held' = held,
         \A z \in Zones : zone'[z].id = zone[z].id /\ zone[z].bits \subseteq zone'[z].bits
  PROVE  FullInv'
  <1>1. ASSUME NEW id, NEW z \in Zones, Leads(id, z)'
        PROVE  Leads(id, z)
    <2>1. linked \subseteq Zones
      BY DEF TypesAndPhases, TypeOK
    <2>2. QED
      BY <1>1, <2>1 DEF Leads, FirstWith
  <1>2. ASSUME NEW by \in Zones, NEW z \in Zones, Count \in held[by], Leads(idOf[by], z)'
        PROVE  Blocks \subseteq zone'[z].bits
    BY <1>1, <1>2 DEF FullInv
  <1>3. QED
    BY <1>2 DEF FullInv

\* Registration hands out no ids.
LEMMA RegisterFull ==
  ASSUME TypesAndPhases, FullInv, Start \/ Restore \/ Create \/ Complete \/ RegFail
  PROVE  FullInv'
  <1>1. mode \in {"down", "register", "create"} /\ mode' # "stuck"
    BY DEF Start, Restore, Create, Complete, RegFail, Enlist
  <1>2. \A by \in Zones : Count \notin held[by]
    BY <1>1 DEF FullInv
  <1>3. ASSUME NEW f, Enlist(f)
        PROVE  \A by \in Zones : Count \notin held'[by]
    <2>1. \E mine \in SUBSET Blocks : held' = [held EXCEPT ![turn] = mine]
      BY <1>3 DEF Enlist
    <2>2. QED
      BY <1>2, <2>1, CountIsNoBlock DEF TypesAndPhases, TypeOK
  <1>4. \A by \in Zones : Count \notin held'[by]
    BY <1>2, <1>3 DEF Start, Restore, Create, Complete, RegFail
  <1>5. QED
    BY <1>1, <1>4 DEF FullInv

\* An allocation that finds no free bit has found them all set.
LEMMA AllocFull ==
  ASSUME TypesAndPhases, FullInv, NEW by \in Zones, Alloc(by)
  PROVE  FullInv'
  <1> USE DEF TypesAndPhases, TypeOK
  <1>1. PICK z \in Zones, b \in 0..Count :
          /\ mode = "serve" /\ Leads(idOf[by], z) /\ FirstFree(zone[z].bits, b)
          /\ zone' = [zone EXCEPT ![z].bits = @ \union {b}]
          /\ held' = [held EXCEPT ![by] = @ \union {b}]
          /\ UNCHANGED <<mode, linked, idOf>>
    BY DEF Alloc, Calls
  <1>2. \A y \in Zones : zone'[y].id = zone[y].id /\ zone[y].bits \subseteq zone'[y].bits
    BY <1>1 DEF File
  <1>3. ASSUME NEW id, NEW y \in Zones, Leads(id, y)'
        PROVE  Leads(id, y)
    BY <1>1, <1>2, <1>3 DEF Leads, FirstWith
  <1>4. ASSUME NEW c \in Zones, NEW y \in Zones, Count \in held'[c], Leads(idOf[c], y)
        PROVE  Blocks \subseteq zone'[y].bits
    <2>1. CASE Count \in held[c]
      BY <1>2, <1>4, <2>1 DEF FullInv
    <2>2. CASE Count \notin held[c]
      <3>1. c = by /\ b = Count
        BY <1>1, <1>4, <2>2
      <3>2. y = z
        BY <1>1, <1>4, <3>1, LeadsToOne
      <3>3. Blocks \subseteq zone[z].bits
        BY <1>1, <3>1, CountIsNoBlock DEF FirstFree
      <3>4. QED
        BY <1>2, <3>2, <3>3
    <2>3. QED
      BY <2>1, <2>2
  <1>5. QED
    BY <1>1, <1>3, <1>4 DEF FullInv

\* Saving and reading change neither what is free nor who is led where.
LEMMA CallFull ==
  ASSUME TypesAndPhases, FullInv, NEW by \in Zones, NEW b \in Blocks,
         Read(by, b) \/ \E v \in 1..Versions : Save(by, b, v) \/ SaveRoot(by, b, v)
  PROVE  FullInv'
  <1> USE DEF TypesAndPhases, TypeOK
  <1>1. mode = "serve" /\ UNCHANGED <<mode, linked, idOf, held>>
    BY DEF Read, Save, SaveRoot, Calls, memory
  <1>2. zone' = zone \/ \E z \in Zones : zone' = [zone EXCEPT ![z].root = b]
    BY DEF Read, Save, SaveRoot, memory
  <1>3. ASSUME NEW y \in Zones
        PROVE  zone'[y].id = zone[y].id /\ zone'[y].bits = zone[y].bits
    <2>1. CASE zone' = zone
      BY <2>1
    <2>2. ASSUME NEW z \in Zones, zone' = [zone EXCEPT ![z].root = b]
          PROVE  zone'[y].id = zone[y].id /\ zone'[y].bits = zone[y].bits
      <3>1. zone'[y] = zone[y] \/ zone'[y] = [zone[y] EXCEPT !.root = b]
        BY <2>2
      <3>2. zone[y] \in File
        OBVIOUS
      <3>3. QED
        BY <3>1, <3>2 DEF File
    <2>3. QED
      BY <1>2, <2>1, <2>2
  <1>4. QED
    BY <1>1, <1>3, FullKept

\* Being stuck changes nothing else.
LEMMA StuckFull ==
  ASSUME TypesAndPhases, FullInv, NEW by \in Zones, Stuck(by)
  PROVE  FullInv'
  <1>1. mode' = "stuck" /\ UNCHANGED <<linked, zone, idOf, held>>
    BY DEF Stuck
  <1>2. QED
    BY <1>1 DEF FullInv, Leads, FirstWith

\* The invariant holds throughout.
LEMMA FullInvariant == Spec => []FullInv
  <1>1. Init => FullInv
    BY DEF Init, FullInv, Nobody
  <1>2. TypesAndPhases /\ FullInv /\ [Next]_vars => FullInv'
    <2> SUFFICES ASSUME TypesAndPhases, FullInv, [Next]_vars PROVE FullInv'
      OBVIOUS
    <2>1. CASE Start \/ Restore \/ Create \/ Complete \/ RegFail
      BY <2>1, RegisterFull
    <2>2. CASE Crash
      BY <2>2 DEF Crash, Nobody, FullInv
    <2>3. ASSUME NEW by \in Zones, Alloc(by) PROVE FullInv'
      BY <2>3, AllocFull
    <2>4. ASSUME NEW by \in Zones, Stuck(by) PROVE FullInv'
      BY <2>4, StuckFull
    <2>5. ASSUME NEW by \in Zones, NEW b \in Blocks,
                 Read(by, b) \/ \E v \in 1..Versions : Save(by, b, v) \/ SaveRoot(by, b, v)
          PROVE  FullInv'
      BY <2>5, CallFull
    <2>6. CASE UNCHANGED vars
      BY <2>6 DEF vars, memory, FullInv, Leads
    <2>7. QED
      BY <2>1, <2>2, <2>3, <2>4, <2>5, <2>6 DEF Next
  <1>3. QED
    BY <1>1, <1>2, InitTypes, NextTypes, PTL DEF Spec

\* find_file_stream searches for ever only for a caller whose id leads to a full zone,
\* also when an earlier process was cut short; otherwise that is its own zone, in
\* which it holds every block but those that hold no data.
THEOREM StuckIsFull == Spec => StuckWhenFull
  <1> DEFINE Full(by, z) ==
               /\ Blocks \subseteq zone[z].bits
               /\ ~cut => z = by /\ \A b \in Blocks \ held[by] : cache[by].data[b] = Empty
  <1> DEFINE Step == \A by, z \in Zones : Stuck(by) /\ Calls(by, z) => Full(by, z)
  <1>1. ASSUME TypesAndPhases, CoreInv, FullInv, NEW by \in Zones, NEW z \in Zones,
               Stuck(by), Calls(by, z)
        PROVE  Full(by, z)
    <2>1. Count \in held[by] /\ Leads(idOf[by], z)
      BY <1>1 DEF Stuck, Calls
    <2>2. Blocks \subseteq zone[z].bits
      BY <1>1, <2>1 DEF FullInv
    <2>3. ASSUME ~cut
          PROVE  z = by /\ \A b \in Blocks \ held[by] : cache[by].data[b] = Empty
      <3>1. z = by /\ InStep(z)
        BY <1>1, <2>1, <2>3, LedHome DEF CoreInv
      <3>2. QED
        BY <3>1 DEF InStep
    <2>4. QED
      BY <2>2, <2>3
  <1>2. Strong /\ FullInv => Step
    BY <1>1 DEF Strong
  <1>3. Strong /\ FullInv /\ [Next]_vars => [Step]_vars
    BY <1>2
  <1>4. Step <=> \A by, z \in Zones : Stuck(by) /\ Calls(by, z) => Full(by, z)
    OBVIOUS
  <1> HIDE DEF Step
  <1>5. [][Step]_vars <=> StuckWhenFull
    BY <1>4, PTL DEF StuckWhenFull
  <1>6. QED
    BY <1>3, <1>5, StrongInvariant, FullInvariant, PTL DEF Spec
=============================================================================
