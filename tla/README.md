# Wireway in TLA+

Wireway connects user entities by named "wireways". The repository holds two
programs: a kernel module (`src/netfilter_mod/`) that takes UDP packets off the
network stack into a lock-free queue drained by one kernel thread per CPU, and a
user-space server (`src/*.c`) that keeps wireways, their points and forwarding
entries, a B+ tree of their names and a block store under both.

## 1. Inventory

| Part | Source | State | Operations | Hard because | Correct when |
|---|---|---|---|---|---|
| receive queue | `netfilter_mod/lf_rwq.c` | slots `q`, `w_idx`, `r_idx`, per-block `r_cnt`, `r_permit` | `lfrwq_inq`, `lfrwq_soft_inq`, `lfrwq_get_rpermit`, `lfrwq_deq`, `lfrwq_add_rcnt` | lock-free; many writers, readers, a timer; permits go below zero and are repaired; slots are reused lap after lap | no word lost, duplicated or read in the wrong lap; permits conserved; no slot claimed while occupied; every ticket served |
| receive threads | `netfilter_mod/wireway_dev.c` | `p_control->task_state`, the kernel's `task->state`, locals | `packet_rcv_process`, `packet_rcv_wait`, `packet_rcv_wakeup` | sleeping against waking without a lock | no wake-up lost; the waker returns; no packet left behind |
| padding timer | `wireway_dev.c` 255-284 | statics `local_w_idx`, `local_count` | `wireway_packet_timer` | races the hooks for positions; int against u64 | half-filled blocks are completed |
| netfilter hook | `netfilter_mod/filter_func.c` | none of its own | `sample` | runs on any CPU in softirq context | enqueues once, wakes, returns |
| UDP request/reply | `netfilter_mod/udp_trans.c` | list of waiters under a spin lock | `udp_trans_wait`, `udp_trans_wake`, `send_udp_packet_no_fagment` | time-out against late reply | a reply goes to its own request; calls return; the list holds the waiters |
| collectors, id cache | `netfilter_mod/wireway_func.c` | list by name, radix table of ids | `create_collector`, `lookup_collector`, `cache_id_insert`, `cache_id_lookup` | growth of the table while others read it; unlocked list | what was inserted is found, by name and by id |
| load/unload, device | `filter_func.c` 655-667, `wireway_dev.c` 356-601 | `p_control`, threads, timers, hooks | init, exit, ioctl, mmap | order of teardown while everything runs | nothing used after it is freed; `rmmod` returns |
| block store | `storage_sys.c` | zone list, bitmaps, root ids; zone files and their stdio streams | register, create, restore a zone; allocate, save, read a block; save a root | restart from the files, a kill with a write in the buffer, full zones, a registration that fails | a zone id leads to its zone; no block is given out twice; data is read back; a root has its node |
| B+ tree | `bptree.c` | nodes in memory, blocks on disk | find, insert, split, load | two copies; several writes per insert | lookup finds what was inserted; disk and memory agree |
| wireways | `wireway_func.c`, `wireway_core.c` | points, bridges, forwarding entries, restore list | create, attach, bridge, save, restore | objects in two lists, referred to by index; recursive restore over bridges | entries as the bridges call for, on both sides; records as in memory; restored as saved |
| user entities | `user_entity*.c` | entity, its ports and wireways | register in two steps, serialise | never reached (section 6) | - |
| server threads | `thread_main.c`, `msg_queue.c`, `main.c` | message queues | threads, queue operations | shared queues | - |

Interactions. The hook calls `lfrwq_inq` and then `packet_rcv_wakeup`; a thread
calls `lfrwq_get_rpermit`, `lfrwq_deq` per permit and `lfrwq_add_rcnt` when its
reads leave a block, and `packet_rcv_wait` after 100 empty polls; the timer calls
`lfrwq_soft_inq`. All meet in the queue's shared words and in `task_state`. In the
server, wireways are inserted in the B+ tree, whose nodes are saved through the
block store; lookups load nodes and wireways back.

The queue in one paragraph: positions are claimed by a compare-and-swap of
`w_idx`; position p uses slot p mod len, lap p / len, and the block of `blk_len`
slots around it. A hook may claim p only when the block's `r_cnt`, the number of
reads ever published for it, covers all earlier laps. Whoever stores the first word
of a block issues permits for the whole block. A thread that obtained permits draws
tickets from `r_idx`, busy-waits on the ticket's slot, empties it and later
publishes how many it read per block.

## 2. Modules

| Module | Stands for |
|---|---|
| `LfRwq` | the queue with its hooks, threads and timer; every access to shared memory is one action |
| `LfRwqProps` | its properties; the refinement to `RcvQueue` |
| `LfRwqInv` | the relations an inductive proof of the order properties needs |
| `RcvQueue` | what the queue promises: a bounded sequence, delivery at most once, overtaking at most as far as there are threads |
| `PacketWake` | sleeping and waking: `packet_rcv_wait` and `packet_rcv_wakeup` on every CPU |
| `RcvPath` | the whole receive path: `LfRwq` and `PacketWake` composed with the poll counter and the exclusion of a CPU's thread by a hook on that CPU |
| `Totals` | sums over the threads |
| `PacketWake_proofs` | theorems on sleeping and waking |
| `RcvPath_proofs` | theorems on the queue (types, permits, order, and the refinement) and on the whole receive path |
| `BlockStore` | the server's block store: zone files, streams, zones in memory, registration, calls, crashes; its properties |
| `BlockStore_proofs` | theorems on the block store |
| `BpTree` | the tree of names in memory and in the three zone files, as creating, looking up, attaching and restarting drive it; its properties |
| `BpTree_proofs` | theorems on the tree |
| `Wireway` | wireways in one process: creation, attaching, bridging, with lists, indices, forwarding entries and records |
| `Wireway_proofs` | theorems on the wireways of one process |
| `WireRestore` | the same across the end of a process: the recursive loading from the records (for TLC only) |
| `Collectors` | collectors by name and by id, created and mapped by several callers without a lock |
| `Collectors_proofs` | theorems on the id cache, the list, and what ids lead to |
| `UdpTrans` | requests, waiters, replies and time-outs over UDP |
| `UdpTrans_proofs` | theorems on replies and on the list of waiters |
| `ModuleLife` | loading and unloading of the module with hooks, threads and timers running; extends `PacketWake` |
| `ModuleLife_proofs` | theorem on loading and unloading |
| `MCLfRwq`, `MCPacketWake`, `MCRcvPath`, `MCBlockStore`, `MCBpTree`, `MCWireRestore`, `MCCollectors`, `MCUdpTrans`, `MCModuleLife` | instances for TLC |

**Correspondence.** `w_idx r_idx q r_cnt r_permit dbg_p_total` are the fields of
`lfrwq_t`. A word in `q` is represented by the position whose compare-and-swap
claimed it, so that a reader can tell whether it got the word of its own ticket;
packet and filler are not distinguished, since the queue never does. `wpc`/`wi` are
a hook's place in `lfrwq_inq` and its local `w_idx`; `rpc left pmt ticket datum
read_cnt local_idx` a thread's place in `packet_rcv_process` with the calls it makes
and its locals `left`, `local_pmt`, the ticket drawn, `*ppdata`, `read_cnt`,
`local_idx`; `seen quiet spc si snum` the timer's statics and the locals of
`lfrwq_soft_inq`. Locals that are dead are reset, which changes no behaviour.
`consumed` is a history variable: the positions whose word has been taken out.
Shifts and masks by powers of two are \div and %. Memory is sequentially
consistent: all shared words but the slots and `r_cnt` are accessed by locked x86
instructions, and the plain accesses to those are volatile and ordered by them.

In `PacketWake`, `task_state` is the field of the same name, `kstate` the kernel's
`task->state`: `set_current_state` arms it, `schedule` returns once it is runnable,
`wake_up_process` makes it so and returns 0 if it was. `kpc` and `hpc`/`hi` are the
control points of the thread and of the hook and the hook's loop index.

In `BlockStore`, `disk` is what the kernel holds of each zone file and survives the
death of the process; `cache` is the file as the process sees it through its stream.
They differ by the last `fwrite`: every write and read of the source is preceded by
an `fseek`, which empties the buffer. `zone` is the list of `storage_zone`s with their
`storage_media` (id, root id, bitmap), `linked` which of them `global_zone_head` leads
to, `idOf` what `reg_storage_zone` returned to each caller (`storage_zone_key_id` and
the others), `nid` `global_zone_id`. A caller is named by the zone whose id it uses:
the tree's nodes, the names, the wireway structures. `held`, `saved` and `cut` are
history variables: the blocks a caller got or finds in its file, what it last saved
there, and whether some process died or failed before all zone files had their header.
`alloc_key_disk`, `save_name`, `save_bptree_node` and `save_wireway_block` are `Alloc`
and `Save` of their caller. A block keeps who wrote it and a version (0: a mixture);
which blocks a record reaches is computed from the sizes in bytes (`Offset`,
`Touched`). In the bitmap, bit `Count` is the one that a full zone sets beyond its
last block. `Crash` leaves the last write done, lost or half done. The store is the
one of `storage_sys_init`; in this commit its caller (`wireway_core.c` 265-280) is
commented out and ignores its result, hence `RegFail` goes on to the next zone.
`user_entity_core.c` registers two more zones the same way.

In `BpTree`, `disk` and `cache` are as in `BlockStore`, reduced to what its theorems let a
caller rely on: a zone is the number of blocks allocated, their records and, for nodes,
the root id. One action is one write to a file, between which the process may end
(`Crash`: each stream flushed or not). `tree` is `wireway_tree_control.node_root`, `mem`
the leaf (`keys`, and the wireways `pointers` leads to), `blk` its `node_block`, whose last
key slot is `parent_id`, the field after `keys_id`; `newId`, `right`, `top` belong to a split;
`kid`, `did` are `name_id` and `wireway_id` of the wireway under creation. `mem.parent` is the
leaf's `parent`: NULL for a leaf that the process made itself, and one of NULL and `wild` for a
restored one, since `load_bptree_node` leaves it as `malloc` gave it. Names are numbered
in the order of `strcmp`; a wireway's record stands for its `name_id`. A search that reads
memory only is one action with the step that follows it. `known`, `last`, `cutoff` and `broken`
are history variables. What the process does once it has read bytes that malloc left in place
of a key or a wireway (`garbage`) or followed NULL (`null`) is not modelled, except that it ends.
When a restored leaf with a wild parent is split, `insert_into_parent` takes those bytes for a
node: either what it writes there touches nothing of this module, and the creation returns with
the upper half cut off (`IntoNowhere`, `cutoff`), or it writes over the tree or into a file
(`IntoAnything`), and nothing is said of what follows (`wild`; an end by a fault is `Crash`).

In `Wireway`, `mem` is the memory of the server: `state` of each `wireway_node`, `list` its
`point_list` (each node a peer, or a bridge by number, as master or as slave), `addr`,
`fib`, `index` and `pstate` of the peers, and the `bridge_point`s in the order they were made.
A bridge is one object with two list nodes; `SlavePoint` is what `get_peer_by_index` returns
for the index it keeps, `BridgedPeer` the peer it was made for. `disk` and `held` are the
records with and without the last `fwrite`, which the end of a process may drop. `proc` ends a
process that follows NULL (`dead`) or puts a node into a list twice (`corrupt`). In
`WireRestore`, `seen` and `tail` are `wirewayRestoreList` and whether it ends in NULL, and a
look-up runs `load_wireway_node` with all it calls, including the entries made anew.

In `Collectors`, `node` and `next` are the collectors and `collector_list`, `nextId` is
`collector_global_id`, `cache` and `pages` are `collector_cache` with the pages below it, and
`loc` holds each caller's place and locals. Every read or write of what callers share is an action:
look-ups node by node, `collector_global_id++` and `list_add` in two halves, the growth in
three. `met`, `done`, `cached`, `grew` and `torn` are history: who was in a creation at the same
time, and whether the cache grew under two callers.

In `UdpTrans`, `call` is where each sender is, `frame` its `udp_trans_waitor` (key and reply), and
`next` the list. The network is the set `sent`: any request sent may be answered at any time,
never or again. `lock` is the spin lock, with the two ways a walk can fail: a loop (`hung`, with
the lock held) or a frame of a call that has returned (`wild`).

In `ModuleLife`, `life` is the place in `filter_init` or `filter_exit`, `tpc` a thread's place in
`packet_rcv_process`, `timer` the state of the two timers, `hookNum` and `full` the hook's copy
of `thread_num` and whether it will call `show_packet_rcv_control`. `fault` names who first
used what was not there; nothing is modelled after it.

**Abstracted.** Statistics, printing, cycle counters; the packet itself; the length
of a timer period; overflow of 64-bit indices (a queue fed at full line rate does not
reach 2^63). The timer's `int` is kept (`AsInt`, width `IntHalf`). In `LfRwq`,
`PacketWake` and `RcvPath` the creation of the threads is the initial state; `ModuleLife` has it
step by step.

## 3. Runs

| Run | Module, cfg | Shows |
|---|---|---|
| queue_laps | `MCLfRwq`, `LfRwqLaps.cfg` | `TypeOK`, `OpenedOnce`, `NoOverlap`, `OwnWord`, `ReadLedger`, `Refines` (implements `RcvQueue`) with two hooks, two threads, the timer |
| queue_served | `MCLfRwq`, `LfRwqServed.cfg` | `LocalsOK`, `PermitLedger`, `TicketsCovered`, and `TicketServed` under fairness |
| wakeup_returns | `MCPacketWake`, `PacketWake.cfg` | `SleepIsAnnounced`, `WakeupReturns`, three threads, hooks on two of the CPUs |
| wakeup_lost | `MCPacketWake`, `PacketWakeLost.cfg` | the lost wake-up (expected violation of `NoLostWakeup`) |
| path_live | `MCRcvPath`, `RcvPathLive.cfg` | `NoWorkAllAsleep`, `DrainedUnlessLost`, `HookReturns` |
| store_blocks | `MCBlockStore`, `BlockStore.cfg` | `TypeOK`, `BlocksOwned`, `ReadBack`, `RootIsSaved`, `ZonesApart`, `StuckWhenFull`, `GrantsFresh`: two zones of two blocks, one with a tree |
| tree | `MCBpTree`, `BpTree.cfg` | `ViewsAgree`, `Sorted`, `OnlyUpperHalfLost`, `BrokenIsLast`, `IdsTaken` over a restart, the restored leaf with any parent |
| tree_loops | `MCBpTree`, `BpTreeLoops.cfg` | the endless search (expected violation of `OpsReturn`) |
| wireway | `MCWireRestore`, `WireRestore.cfg` | `EntriesAsBridged`, `IndexMoved`, `RecordCurrent` in both processes, `StarRestored`, `EntriesRestored` for look-ups in the second |
| collectors | `MCCollectors`, `Collectors.cfg` | `ListedOnce`, `IdsAsAliased`, `MapsCollectors` |
| udp_trans | `MCUdpTrans`, `UdpTrans.cfg` | `ReplyIsOwn`, `WaitersListed`, and `Returns` under fairness |
| module_life | `MCModuleLife`, `ModuleLife.cfg` | `LifeFaults`, and `Unloads` under fairness |

Bounds. `MaxW` stops new enqueues: 6 positions in a queue of 4 (blocks of 2) is one
and a half laps, so a slot and a block are reused while readers of the earlier lap
are still on their way, which is where every ordering hazard lies; a third lap
repeats the second with larger numbers (the proofs have no such bound). Two hooks and
two threads give every pairwise race; queue_served has grants that do not divide a block,
so partial grants, debts and reads across a block boundary happen. `QuietTicks` 0 (5
in the code) and `Polls` 1 (100) shorten counting without removing a step: the
counters gate an action and the others may always intervene. `IntHalf` 64 lies
above every index reached: within 31 bits of packets; the narrow case is what the
mutant `AsTwoBits` shows (padding stops and `TicketServed` fails), a real limit of
the code after 2^31 packets. Hooks and threads are interchangeable in the safety
runs (symmetry); the liveness runs use none. Nothing deadlocks: the timer always
ticks.

The block store has no bound on crashes: its state space is finite. Two blocks per
zone let a record run into a neighbour, the last block be the full one, and a root move
from one node to another; two zones of different block sizes tell the sizes apart.
A failed registration of either zone loses the list
made so far, and a zone fills at its second allocation. `Versions` 1 suffices because an
older record differs from a newer one only when it is lost or mixed, which is version
0 or no record. The lengths are those of a 64-bit build (97, 64 and 424 bytes per block).

In the run tree a node has 4 pointers, 3 keys (5 and 4 in the code, and in tree_loops): four names
fill a leaf in any order and split it at each position, and each half has two entries as the
smaller one has with 5. `Lives` 2 gives one restart, from whatever the first
process left; `MaxIds` 6 lets a process go on after a split that went astray and create again
names that it cut off, up to the next split. A further process would start from the
same kinds of files, with more blocks that nothing refers to. The theorems have no such bounds.

Three wireways are the least with a bridge in the middle: a chain of three, a star, a triangle,
a bridge back to the same wireway and two bridges between the same two all occur; three
bridges (`MaxBridges`) put nodes before and after each other in one list. Only states of at most
two bridges (`MaxKept`) have a successor, which itself makes a bridge only when it has none
in memory yet (`MaxNew` 1): more than one new bridge is what the first process is there for.
`Lives` 2 is one restart, and a further process would load records that look like those of the first.

Pages of four entries (`Order` 2; 512 in the code) grow the cache at id 8 and end it at 16: the run
starts from scratch, from 7 and from 15 collectors (`Earlier`), so that three more calls by two
callers cross each of these places while the other is anywhere in its own call. `Names` are the main
collector's, which is there already or about to be, and one greater than all, so that new collectors
meet at both ends of the list. A third caller would
only add to what one of the two does in between; the theorems have no such bounds.

Keys of two and four bits (`IntHalf` 2, `Long` 16; 2^31 and 2^64 in the code) let the third request
have a key that is no `int`, as every key is for half of the time once 2^31 requests were sent. One of
three senders calls twice, which is what it takes to find an old frame in the list. The keys do not wrap
around in the run: it would take 2^64 requests.

Two CPUs, hooks on the one whose thread is stopped last: its hooks wake the other CPU's thread, find
it gone, and may try for ever to wake it, which with the hooks on the other CPU they cannot. More CPUs
add threads in the same states.

Fairness. A hook runs with interrupts off or in softirq context and finishes: weak
fairness of its steps. Threads are scheduled and the timer re-arms itself: weak
fairness. In `PacketWake` alone hooks may arrive without end, so a thread needs
strong fairness: it runs again and again between hooks (softirqs are deferred under
load). The same holds in `ModuleLife`. A sender in
`UdpTrans` runs until it waits, and its time-out comes. No fairness asks for packets, replies or
calls to arrive. `WakeupReturns` states its further
premises in the property: every thread runs out of work from time to time, and packets
cease in the end. With three CPUs and packets without end TLC shows a schedule in
which the hook of one CPU loops in lines 124-131 for ever: hooks of another CPU mark
the thread again each time just before it would wait, and each re-test finds it
`thread_running`. Two CPUs are too few for this.

## 4. What the checks found

* **Lost wake-up** (`wireway_dev.c` 115-132 against 82-95). A hook that finds a thread
  between the exchange to `thread_wait` and `set_current_state` marks it
  `thread_run`, gets 0 from `wake_up_process` and gives up; the thread then sleeps
  uninterruptibly and every later hook passes over it because it is marked. Eight
  steps, run wakeup_lost.
* `DrainedUnlessLost` shows that this is the only way to strand a packet when
  packets arrive on one CPU of two.
* The block store keeps its properties over crashes once every zone file exists with
  its header. Before that it does not, and the properties say so (`~cut`): a process
  that dies between `posix_fallocate` and the first `fseek` leaves a file that is
  restored as a zone of zeros with id 0 and no bitmap, and after a partly finished
  first start the ids count from 0 again, so that two zones can share one. The
  source says nothing of either case.
* A full zone: `alloc_block_from_zone` then returns an id past the last block, and
  whatever is saved there loops in `find_file_stream` (`Stuck`). `StuckWhenFull` shows
  that the id of whoever loops leads to a zone that is full, and after starts that were not cut
  short to the caller's own one: what the caller does not hold of it was lost by processes that
  ended between an allocation and the first save to the block. After a start that was cut short two zones may share an id,
  and a caller may loop because another one filled the zone that its id leads to.
* **Search without end** (`bptree.c` 191-199). `find_leaf` steps to a child only right after
  loading it; once a split has made the root an inner node with its children in memory, no
  create, lookup or attach returns: in a process that begins without a tree the sixth creation at
  the latest (run tree_loops). The nineteen creations of `test_wireway2` would get there, but all except
  the first now stand inside `#if 0` (`wireway_core.c` 241-262).
* **Split of a restored leaf** (`bptree.c` 389-391). `load_bptree_node` (86-119) sets no `parent`,
  and neither does `wireway_tree_restore`, so `insert_into_parent` branches on what `malloc` left. Unless
  that is NULL no new root is made: the creation may return with half of the leaf's names no longer to be
  found, in memory or on disk, or write through a pointer that is none. `ViewsAgree` and
  `OnlyUpperHalfLost` say that nothing else is lost in the first case; of the second only the process's
  state on the way there is claimed.
* A process that ends during a split may lose half the names of the leaf, however old
  (`OnlyUpperHalfLost` excepts exactly those, in these steps): the old leaf is written without its upper
  half before anything leads to the new one. A process that starts with an inner root dies in
  `print_tree`, which follows children that are not loaded. The new leaf is saved without
  its leaf mark.
* A name is saved without its final zero, so the last name in the file is read back with
  whatever malloc left behind it (`AtEnd`).
* **Bridges find their peers by stale indices** (`wireway_func.c` 734-746). A bridge keeps the index
  that its peer had in the list when it was made. `IndexMoved` says exactly when it is out of date: a
  node was put before that peer since. `update_wireway_fib` then makes entries for another point, or
  follows NULL (`astray`, `dead`); otherwise the entries are those the bridges call for.
* **A restart loses entries, or the process.** `StarRestored` and `EntriesRestored` say what a look-up
  brings back of a wireway and its neighbours: all the points, but entries between two slaves of
  one master never, and entries over a bridge only if it was made before its peer was active or the slave is
  looked up first. With three wireways in a row, looked up from an end, the flag that asks for relatives
  stays set (line 293) and a wireway is loaded a second time while it is being loaded (`corrupt`).
  The first element of the restore list has an uninitialised `next` (line 38): a search that does not find
  its wireway at once reads it (`Lost`).
* **The id cache masks one bit less than it shifts** (`get_size_order` returns one more than the
  logarithm). Hence every second run of 512 ids looks like the one before: such a collector's insertion
  fails unnoticed and its id leads to the earlier one (`IdsAsAliased`, for ids below `Beyond`, which two
  levels have an entry for). The first id that needs a
  second page below the top writes through NULL (line 246 of `netfilter_mod/wireway_func.c`), in the
  code the 2048 id pages apart, in the run id 16.
* **The list of collectors is not locked**: two creations side by side can make one name twice or lose a
  collector from the list, and only they can (`ListedOnce`). A `mmap` during the growth takes a page for a
  collector, and only then (`MapsCollectors`).
* **Waiters never leave the list** (`udp_trans.c` 64: the test is the wrong way round). As long as no call
  has returned the list is what it should be; after that walks go through dead frames, and a second call of
  a sender can tie it into a loop under the lock (`WaitersListed`). Keys are counted without a lock and passed as
  `int`; apart from that a reply never reaches another request (`ReplyIsOwn`). The build calls neither side.
* **Unloading** (`LifeFaults`, `Unloads`). Hooks and the debug timer use the control block after `kfree`, and
  tasks of threads that have ended; a timer whose handler runs at `del_timer` outlives the module; `rmmod`
  hangs if a thread falls asleep just after `kthread_stop` woke it, or a hook spins in lines 124-131. The
  threads themselves never use a freed block, and the busy wait of `lfrwq_deq` does not keep `rmmod`, since
  the padding timer is deleted last; that holds while the queue's index fits the timer's `int` (`Fed`), beyond
  which padding stops as in `TicketServed`'s mutant.
* Two facts that shaped the properties: threads that poll can keep the last permits
  from each other for ever by taking and giving them back in turn (broken only by
  sleeping, which is why `Drained` is checked in `RcvPath`, not in `LfRwq`); and a
  hook never wakes the thread of its own CPU (line 110), so on one CPU a sleeping
  thread stays asleep: the runs have two.

## 5. Proofs

`RcvPath_proofs` first proves of the queue, for any hooks, threads, geometry and number of laps, from the
named assumptions of `LfRwq` on the constants only:

* `TypeCorrect`, `LocalsCorrect`: `TypeOK` alone is not inductive (a count could
  leave its range); `IInv == TypeOK /\ LocalsOK` is, because `LocalsOK` bounds a
  thread's permits and counts at each control point.
* `PermitsConserved`: the sum of what is left, owed, held and turned into tickets is
  what was issued. The proof follows each thread's own contribution
  (`ThreadLedger`) and the sum over the threads (changing one summand changes the
  total by the difference).
* `NoTicketWithoutPermit`: with `PermitsBacked`, tickets never outnumber permits.

The lemmas on sums do without induction over sets: a total is the cardinality of a
set of pairs (`Tokens`), so the library's cardinality theorems suffice.

It goes on to prove `NeverOverlaps`, `TakesOwnWord`, `ReadsAccounted`,
`BlocksOpenedOnce` and `Implements` (the refinement) from one inductive invariant,
`QInv`. None of the five properties is inductive alone; the parts of `QInv` are in
`LfRwqInv`, and the argument is a circle that only closes when all are taken together:

1. *Reuse.* A hook claims the first position of a block when the block's `r_cnt` is at
   least `BlkLen` times the lap (`RoomInv`; counts only grow, so the test may be old).
   `ReadLedger` turns that number into words read. The words read from the block lie
   in earlier laps (all are below `w_idx`), and there are at most `BlkLen` times the
   lap of those (`EarlierBound`): so all of them are read (`ClaimAfterRead`). Inside a
   block the first position was claimed before, with the same predecessors
   (`EarlierOfFirst`). This gives `ReuseAfterRead`.
2. *Slots.* By 1 two words that are claimed and not read never share a slot
   (`NoSharing`), so a claimed slot is empty: `NoOverlap`.
3. *Tickets.* A ticket is below the permits issued (`TicketsCovered`), and those are
   `BlkLen` for each block opened (`OpenedOnce`), so the block of a ticket has been
   entered and by 1 the slot's earlier words are out; a later word cannot be in yet,
   since the ticket's own is not read. What a thread finds is its own word
   (`TicketWord`), hence `OwnWord`.
4. *Counting.* By 3 a read adds exactly one word to its block, and the thread carries
   the count with the number of that block until it is published: `ReadLedger`, which
   step 1 uses. By 2 a hook that claimed the start of a block does store its word and
   issue the permits: `OpenedOnce`, which step 3 uses.
5. *Refinement.* A claim is `Accept` by 1; emptying a slot is `Deliver` of the ticket:
   older words not taken out are tickets of other threads (`TicketInv`), so there are
   fewer than threads (`OvertakesFew`).

Before that comes the arithmetic: uniqueness of quotient and remainder, and
what follows for laps, blocks and slots of any size (not only powers of two).

`PacketWake_proofs`: `WakeTypeCorrect` and `SleepsAnnounced` for any number of CPUs,
from an invariant that ties the mark to the thread's place (`Announced`) and the
hook's index to its place (`HasTarget`).

Of the whole path `RcvPath_proofs` shows `PathImplementsParts` (the whole takes only steps of `LfRwq` and of
`PacketWake`, so what is proved of either holds of it) and `NeverAllAsleep`, that is
`NoWorkAllAsleep` for any two or more CPUs, any of them with hooks. The invariant
(`Handed`): if permits are there, or will be once every thread has repaired the count
(`Avail`), then some thread will poll again before it sleeps or is marked "run"
(`Alert`), or some hook's wake-up has not yet passed the first thread it may wake
(`Fresh`). A hook that issues permits begins its wake-up in the same step; passing a
thread it has found it marked or marks it; and a thread whose last poll found nothing
either leaves no permits, or leaves some that others owe, who are awake (`OwedBySome`).
With one CPU the property fails: a hook passes over the thread of its own CPU.

`BlockStore_proofs` proves, for any zones, blocks and contents and any sizes that the
records fit (`FitAssumption`; `RecordAlone` is the arithmetic), `StoreTypes`,
`BlocksStayOwned`, `ZonesStayApart`, `SavedIsRead`, `RootsAreSaved`, `GrantsAreFresh`
and `StuckIsFull`. All but the last follow from one inductive invariant, `Strong`:

1. `Phases`: a process that does not serve yet has empty buffers, so `cache = disk`,
   and the zone under registration is not listed.
2. `FirstPass`: unless a start was cut short, either all files have headers or the
   first process is creating them in order, with `nid = turn - 1`. So zone z has the id
   z - 1, now and after every restart, which is what keeps the zones apart.
3. `GoodFiles`: in both views of a file every block with data is marked and its writer
   is the zone's caller, and a root names such a block; the two views differ by
   one write, which changes either data or header and bitmap, never both
   (`OneWrite`). Hence whatever mixture of the two a crash leaves is good again
   (`GoodRemains`).
4. `Memory`: bitmap, holders and saved records of a listed zone agree with `cache`.

None of the properties is inductive alone: `RootIsSaved` needs that a later record in
the root's block is the tree's own (2), `GrantsFresh` that a bitmap restored after a
crash marks all data (3), `ReadBack` that a block is held by one caller only (2, 4).
Like the properties, all but `StoreTypes` and the first half of `StuckIsFull` are about stores whose
first start was not cut short. `StuckIsFull` has an invariant of its own, `FullInv`, for the first half: only a
serving process hands out the id past the last block, it does so
only when the bitmap of the zone it is led to is full, no bit is ever cleared, and the list of zones
does not change while the process serves. The second half, that the zone is the caller's own (2) and that its
blocks which the caller does not hold have no data (4), follows from `Strong`.

`ModuleLife_proofs`: `OnlyKnownFaults` for any number of CPUs, any of them with hooks.
The invariant `LifeInv` says for each stage of `filter_init` and `filter_exit` whether
there is a control block (`ControlByStage`), that threads that have not ended have one
(`ThreadsServed`, which needs that they are stopped one by one before the block is
freed: `StoppedInTurn`), that no hook does anything before a thread has made itself
known (`HooksWait`: why no hook finds a null block although hooks are registered
first), and that a timer that is on after `del_timer` had its handler running then
(`TimersLate`). The steps of `PacketWake` keep `WakeInv` by that module's own lemmas.

`BpTree_proofs`: `TreeViewsAgree`, `TreeSorted`, `TreeKept`, `TreeBrokenIsLast` and
`TreeIdsTaken` for any number of names, blocks and processes and any size of a node,
from one inductive invariant, `TreeInv` (`TreeInvHolds`):

1. *Files.* Each stream only extends its file (`Extends`), and what is recorded is
   marked in the bitmap (`RecordsMarked`), so the ids of a new entry belong to no other
   (`New`). The three files on disk lag behind the process by the creation at hand and
   the one before at most (`Lag`): the allocations of the next creation push out what
   the one before left in the streams of names and wireways. This gives `IdsTaken`,
   `OnlyUpperHalfLost` and, with `BrokenFrom` (the broken entries that the process sees
   are those found when it started), `BrokenIsLast`.
2. *Leaf.* `ViewsAgree` is kept by both loops of `insert_into_leaf`, which shift by
   different lengths, because the place of the new name parts smaller from greater
   names (`IndexParts`, from a least element) and each shift keeps the order and adds
   just the new entry (`Entered`).
3. *Split.* Between the writes of `insert_into_leaf_after_splitting` and
   `make_new_root` the two halves hold the entries of the full leaf and the new one
   (`Shared`, `HalvesHold`), in order (`HalvesSorted`), and `HalvesSaved` says which of
   them, and of the root, are on file at which place. Whichever are, the file is a tree
   in order (`HalvesTree`), and holds on disk all names but those of the upper half, or all when the
   root leads to both (`HalvesOnDisk`). If no root is made, because the parent of a restored leaf
   was not NULL, the lower half alone remains the tree, in memory as on file (`HalfView`): the names of
   the upper one move to `cutoff` and are `Present` no more.
4. *Ends.* An end leaves, for each of the three files, the state before or after its
   last write; fewer entries of an ordered tree are ordered (`SortedFewer`), and by 1 and
   3 every such mixture satisfies what the next process starts from.

`Wireway_proofs`: `IndexMovedHolds`, `EntriesAsBridgedHolds` and `RecordCurrentHolds` for
any number of wireways and bridges in one process (`WireSpec`), from one inductive
invariant, `WireInv` (`WireInvHolds`). Its parts, each of which needs the ones before:

1. *Lists* (`Lists`, `Counted`). Every node stands once in the list of its wireway, the
   peers in order, and peers and the masters' nodes of bridges know their place. Each
   insertion puts one node before another (`InsertIsPut`) and moves what follows by one
   place, and the renumbering of the code counts just those.
2. *Indices* (`Moved`). The index that a bridge keeps is its peer's place, or less if a
   node was put before the peer since; places never shrink, so an index that was
   overtaken never becomes right again. With the list's nodes being distinct this is
   `IndexMoved`.
3. *States* (`Stated`). A wireway's state counts its active peers, and a bridge has an
   active peer and an active master. So a bridge finds the state of its peer's wireway
   as the branches of `bridge_wireway` expect, and an idle peer is never bridged back to
   its own wireway.
4. *Entries* (`Entered`, as long as no stale index was followed). The activation of a
   peer adds its partner, a bridge of an active peer adds the new master and those
   bridged there before; what either makes `Joined` is exactly what the calls of
   `update_wireway_fib` write, on both sides, and nothing that was joined is parted. The
   address that a new peer takes is new in all its entries because it had none
   (an idle peer is joined to nobody).
5. *Records* (`Saved`). A bridge changes the lists of two wireways and saves those two;
   that a third one's record stays right needs that nothing in it depends on the other
   wireways but the index of a bridge in its master's list, which only grows.

`EntriesAsBridged` alone is not inductive, since an entry is written at the place a stale
index may lead to (2) and for the states found (3); nor is `RecordCurrent`, since a record
of wrong length or order would go unnoticed (1). `WireInv` was first checked by TLC
with three wireways and three bridges (66,242 states).

`UdpTrans_proofs`: `RepliesAreOwn` for any number of senders, requests and replies. The
key is a 64-bit counter, and the theorem says for how long that is enough: as long as
no more requests have gone out than there are keys. Then the keys of requests differ
(`KeysCount`), a frame that waits has sent one request with its key (`OneRequest`), and
a reply was given to it by its key (`RepliesByKey`).

`AllListed` proves `WaitersListed` for any number of senders and whatever their keys. Its invariant,
`ListInv`, does not compare keys at all (narrowed to `int` they may come in any order); it needs:

1. *Closed*. The list leads only to the head and to senders that have waited, so a walk meets
   no other (`Closed`; that a walk exists for any links is `WalkExists`).
2. *Order*. The waiters of first calls have places in an order that the list follows, except where
   it runs into a frame that is used again (`Follows`): `Enlist` puts a new waiter right behind the
   node where its walk stopped, and reuses the order with that place opened. So walks that
   meet only such waiters come back to the head, and a loop needs a second call (`WalkStops`).
3. *Nobody left out*. Before a first call returns no link passes over a waiter (`Complete`), so the
   walk from the head meets all of them (`FreshList`).

Induction along the list is by a least counterexample in a set of numbers (`LeastNat`,
`Induction`), from the library's theorem that their order is well-founded.

`Collectors_proofs`: `LookupsFindCollectors` and `PagesAreLevels` for any number of
callers and pages of any size, from `CacheInv`, which holds until two callers grow the
cache at once (`torn`, which the code does not exclude). Pages are made two by two, and
while only one caller at a time grows the cache each page has a fixed level in the tree
(`Levelled`: only pages of the last level hold collectors; `Tops`: the header names a
page of the depth it states). A caller that is to make the third level dies of the page
that it just made (`Doomed`), so there are never
more than five pages. A look-up that was not overtaken by a growth is at a page of the
level that it takes it for (`Walks`).

`AllListedOnce` proves `ListedOnce`, for any callers and names and any interleaving of the unlocked
`list_add`s. `ListInv` says that there are an order `pos` of the nodes and a set `G` such that

1. the links go forward in the order, and so do those that callers are about to make (`Along`):
   the list never ties a loop, since a node is published where it was linked;
2. `G` has every node that is in the list or may come (back) into it (`Reach`): a node that
   another publication cut off, and the node linked to it that somebody has still to publish;
3. a node made alone is in `G`, and no link, present or about to be made, passes over it, and while a
   caller is alone none passes over any node but the one it is about to publish (`NoneLost`);
4. a caller that looks for a name has not passed the node that has it (`NoneTwice`), except for the main
   collector, which the loader makes without a look.

`HangsOn` gives the new node a place in the order right behind its predecessor's (`Shifted`). Who is alone
is told by `met`: those who create at the same time know each other's names (`Acquainted`), and
a collector that is made knows those of older ones that are still being made (`Overtook`).

`IdsFindTheFirst` proves `IdsAsAliased` for pages of any size and any number of callers. `IdInv` adds
to the two invariants above what the pages hold, with ids as two digits (`Digits`):

1. *Tree*. There is one leaf page, or there are two below one top (`Storeys`); each second digit has at
   most one leaf page, and all but zero share the second one (`Leaf`). Who makes the cache grow
   has the first leaf page in hand, and its id has another second digit (`Growth`).
2. *Slots*. The entry of every cached collector's id is taken, and what it holds is a collector
   whose id looks the same and that was begun before all others of that look, or alongside them
   (`Heads`). A collector that comes into the cache later than an older id was in creation when the
   one in the entry was finished (`Overtook`), and one that overwrites an entry which it had found free met
   all that came in since (`Bound`, `Acquainted`).
3. *Death*. An insertion that finds no page to go down to has a second digit that no cached collector
   has, for by 1 and 2 those have a leaf page (`Unhung`).

`Entered` is the step that brings a collector in, whether it found the entry taken or took it. The
assumption `PowersAssumption` of `Collectors` is no assumption on the code: that powers of two are
positive integers and multiply as they do is arithmetic which the prover lacks; TLC evaluates it.

Only model-checked:

* the loading of `WireRestore`, a recursion over records (nested `RECURSIVE` operators are out of the
  prover's reach), and with it `StarRestored` and `EntriesRestored`, and
  `EntriesAsBridged`, `IndexMoved`, `RecordCurrent` in a second process;
* liveness (`TicketServed`, `WakeupReturns`, `DrainedUnlessLost`, `HookReturns`, `Returns`,
  `Unloads`), which the prover cannot handle under fairness.

## 6. Not modelled

`PROJECT.json` lists every part with its status and every hazard with the properties that cover it.

* *User entities* (`user_entity_core.c`). `alloc_user_entity_inst` saves a block and returns NULL, always;
  `init_user_entity` has no return statement; `load_user_entity` loads only if its own load failed. No
  entity ever exists, and what would use one (`thread_main.c`) is inside `#if 0`. The two-step registration
  and the serialised layout have no behaviour in this commit that a property could be about.
* *Server threads and message queues*. `msg_queue_create` puts a queue on the list only if it could not be
  created; the threads' work is inside `#if 0`; `main` forks and opens the device.
* *Insertion into inner nodes and deletion* of `bptree.c`: `find_leaf` does not return once the root is an
  inner node, and deletion has no caller.
* *A wireway of more than twelve points*: `save_wireway` (line 503) writes past its block; the bounds stay
  below. *Collector ids from 2^(2\*Order+1) on* and names of 32 characters and more, which are refused.
* *Buddy system* of the block store (a stub), and media files beyond the first, which no code creates.
* *Hardware memory order* beyond what section 2 says; failures of the device registration.
* Code copied from Linux (bitmaps, bit operations, the IP receive path in `filter_func.c`), generated build
  files, printing of device state (`netdevice_check.c`), the memory-merge experiment.

What could follow: an abstract store that `BlockStore` implements.
