---------------------------- MODULE ModuleLife ----------------------------
(***************************************************************************)
(* Loading and unloading the kernel module (filter_init and filter_exit,   *)
(* wireway_dev.c) while hooks, receive threads and timers run: who is      *)
(* started and stopped in which order, and who still uses the control      *)
(* block, a thread's task or the module's code when it is gone.            *)
(*                                                                         *)
(* packet_rcv_wait and packet_rcv_wakeup are those of PacketWake.  Of the  *)
(* queue there is left that a thread which took a permit waits, without a  *)
(* look at kthread_should_stop, for a word that a hook or the timer's      *)
(* padding brings.  The first use of what is gone ends a behaviour.  The   *)
(* device is closed when the module is unloaded (fops.owner).              *)
(***************************************************************************)
EXTENDS PacketWake

VARIABLES
  life,        \* what filter_init or filter_exit is at, and for which CPU
  control,     \* p_control: "none", "live" or "freed"
  thread_num,  \* p_control->thread_num
  hookNum,     \* packet_rcv_wakeup's copy of it, on each CPU
  full,        \* whether the hook on a CPU found the queue full
  collector,   \* whether collector_main is set
  tpc,         \* receive thread: where in its loop
  dry,         \* whether it waits for a word
  stop,        \* what kthread_should_stop returns
  timer,       \* "off", "pending" or "running"
  late,        \* history: del_timer came while the handler ran
  fault        \* <<who, what>> used what was not there

hookVars == <<hookNum, full>>
threadVars == <<tpc, dry, stop>>
lifeVars == <<wakeVars, life, control, thread_num, hookVars, collector, threadVars, timer, late, fault>>

Timers == {"packet", "debug"}
NoFault == <<"nobody", "nothing">>

LifeInit ==
  /\ WakeInit
  /\ life = <<"hooks", 0>>
  /\ control = "none"
  /\ thread_num = 0
  /\ hookNum = [c \in Cpus |-> 0]
  /\ full = [c \in Cpus |-> FALSE]
  /\ collector = FALSE
  /\ tpc = [t \in Cpus |-> "none"]
  /\ dry = [t \in Cpus |-> FALSE]
  /\ stop = [t \in Cpus |-> FALSE]
  /\ timer = [x \in Timers |-> "off"]
  /\ late = FALSE
  /\ fault = NoFault

At(stage) == fault = NoFault /\ life[1] = stage
Cpu == life[2]
Faults(who, what) ==
  /\ fault' = <<who, what>>
  /\ UNCHANGED <<wakeVars, life, control, thread_num, hookVars, collector, threadVars, timer, late>>

HookActive(c) == hpc[c] # "idle" \/ full[c]
Hooked == life[1] \notin {"hooks", "gone"}
Missing == IF control = "none" THEN "null" ELSE "freed"

\* show_packet_rcv_control reads the control block and every thread's task.
Shown(who) ==
  \/ control # "live" /\ Faults(who, Missing)
  \/ \E t \in 0..(thread_num - 1) :
       control = "live" /\ tpc[t] \in {"err", "exited"} /\ Faults(who, "task")
CanShow == control = "live" /\ \A t \in 0..(thread_num - 1) : tpc[t] \notin {"err", "exited"}

-----------------------------------------------------------------------------
(* filter_init: the hooks first, then the device.                          *)
RegisterHooks ==
  /\ At("hooks")
  /\ life' = <<"alloc", 0>>
  /\ UNCHANGED <<wakeVars, control, thread_num, hookVars, collector, threadVars, timer, late, fault>>

\* packet_process_init; without memory no thread is made, and the timers run.
AllocControl ==
  /\ At("alloc")
  /\ \/ control' = "live" /\ life' = <<"create", 0>>
     \/ control' = "none" /\ life' = <<"timers", 0>>
  /\ UNCHANGED <<wakeVars, thread_num, hookVars, collector, threadVars, timer, late, fault>>

\* A thread that cannot be made is counted all the same.
CreateThread ==
  /\ At("create") /\ Cpu < NCpu
  /\ \E made \in {"made", "err"} : tpc' = [tpc EXCEPT ![Cpu] = made]
  /\ kstate' = [kstate EXCEPT ![Cpu] = "uninterruptible"]
  /\ thread_num' = thread_num + 1
  /\ life' = <<"start", Cpu>>
  /\ UNCHANGED <<task_state, kpc, hpc, hi, control, hookVars, collector, dry, stop, timer, late, fault>>

StartThread ==
  /\ At("start")
  /\ kstate' = IF tpc[Cpu] = "err" THEN kstate ELSE [kstate EXCEPT ![Cpu] = "runnable"]
  /\ life' = <<IF Cpu + 1 = NCpu THEN "timers" ELSE "create", Cpu + 1>>
  /\ UNCHANGED <<task_state, kpc, hpc, hi, control, thread_num, hookVars, collector, threadVars,
                 timer, late, fault>>

\* Both timers are added, then the threads shown.
AddTimers ==
  /\ At("timers")
  /\ timer' = [x \in Timers |-> "pending"]
  /\ life' = <<"show", 0>>
  /\ UNCHANGED <<wakeVars, control, thread_num, hookVars, collector, threadVars, late, fault>>

Show ==
  /\ At("show")
  /\ \/ Shown("loader")
     \/ /\ CanShow
        /\ life' = <<"loaded", 0>>
        /\ UNCHANGED <<wakeVars, control, thread_num, hookVars, collector, threadVars, timer, late, fault>>

-----------------------------------------------------------------------------
(* filter_exit: wireway_dev_exit, then the hooks.                          *)
\* MUTANT: the timers are deleted before the threads are stopped.
RmmodTimersFirst ==
  /\ At("loaded")
  /\ life' = <<"stop", 0>>
  /\ timer' = [x \in Timers |-> "off"]
  /\ UNCHANGED <<wakeVars, control, thread_num, hookVars, collector, threadVars, late, fault>>

Rmmod ==
  /\ At("loaded")
  /\ life' = <<"stop", 0>>
  /\ UNCHANGED <<wakeVars, control, thread_num, hookVars, collector, threadVars, timer, late, fault>>

\* kthread_stop: the flag, the wake-up, and the wait for the thread's end.
StopFlag ==
  /\ At("stop")
  /\ stop' = [stop EXCEPT ![Cpu] = TRUE]
  /\ life' = <<"stopWake", Cpu>>
  /\ UNCHANGED <<wakeVars, control, thread_num, hookVars, collector, tpc, dry, timer, late, fault>>

StopWake ==
  /\ At("stopWake")
  /\ kstate' = [kstate EXCEPT ![Cpu] = "runnable"]
  /\ life' = <<"stopWait", Cpu>>
  /\ UNCHANGED <<task_state, kpc, hpc, hi, control, thread_num, hookVars, collector, threadVars,
                 timer, late, fault>>

StopWait ==
  /\ At("stopWait") /\ tpc[Cpu] = "exited"
  /\ life' = IF Cpu + 1 = NCpu THEN <<"free", 0>> ELSE <<"stop", Cpu + 1>>
  /\ UNCHANGED <<wakeVars, control, thread_num, hookVars, collector, threadVars, timer, late, fault>>

Free ==
  /\ At("free")
  /\ control' = "freed"
  /\ life' = <<"del", 0>>
  /\ UNCHANGED <<wakeVars, thread_num, hookVars, collector, threadVars, timer, late, fault>>

\* MUTANT: one timer is forgotten.
DelTimersOne ==
  /\ At("del")
  /\ timer' = [timer EXCEPT !["packet"] = IF @ = "pending" THEN "off" ELSE @]
  /\ late' = (timer["packet"] = "running")
  /\ life' = <<"unhook", 0>>
  /\ UNCHANGED <<wakeVars, control, thread_num, hookVars, collector, threadVars, fault>>

\* del_timer of both does not wait for a handler that runs on another CPU.
DelTimers ==
  /\ At("del")
  /\ timer' = [x \in Timers |-> IF timer[x] = "pending" THEN "off" ELSE timer[x]]
  /\ late' = (\E x \in Timers : timer[x] = "running")
  /\ life' = <<"unhook", 0>>
  /\ UNCHANGED <<wakeVars, control, thread_num, hookVars, collector, threadVars, fault>>

\* nf_unregister_hook lets hooks that have begun come to their end.
Unhook ==
  /\ At("unhook") /\ \A c \in Cpus : ~HookActive(c)
  /\ life' = <<"gone", 0>>
  /\ UNCHANGED <<wakeVars, control, thread_num, hookVars, collector, threadVars, timer, late, fault>>

Load == RegisterHooks \/ AllocControl \/ CreateThread \/ StartThread \/ AddTimers \/ Show
Unload == StopFlag \/ StopWake \/ StopWait \/ Free \/ DelTimers \/ Unhook

-----------------------------------------------------------------------------
(* packet_rcv_process.  A hook holds the CPU of its thread.                *)
Runs(t, pc) == fault = NoFault /\ ~HookActive(t) /\ kstate[t] = "runnable" /\ tpc[t] = pc

\* A thread that is stopped before it ever ran does not run.
ThreadStart(t) ==
  /\ Runs(t, "made")
  /\ tpc' = [tpc EXCEPT ![t] = IF stop[t] THEN "exited" ELSE "top"]
  /\ collector' = (collector \/ ~stop[t])
  /\ UNCHANGED <<wakeVars, life, control, thread_num, hookVars, dry, stop, timer, late, fault>>

\* A round: nothing to do, a permit and no word yet, or a wait.
ThreadTakes(t) ==
  /\ Runs(t, "top") /\ kpc[t] = "work"
  /\ \E pc \in {"end", "deq"} : /\ tpc' = [tpc EXCEPT ![t] = pc]
                                /\ dry' = [dry EXCEPT ![t] = (pc = "deq")]
  /\ UNCHANGED <<wakeVars, life, control, thread_num, hookVars, collector, stop, timer, late, fault>>

ThreadDequeues(t) ==
  /\ Runs(t, "deq") /\ ~dry[t]
  /\ tpc' = [tpc EXCEPT ![t] = "end"]
  /\ UNCHANGED <<wakeVars, life, control, thread_num, hookVars, collector, dry, stop, timer, late, fault>>

ThreadWaits(t) ==
  /\ fault = NoFault /\ ~HookActive(t) /\ tpc[t] = "top"
  /\ Wait(t)
  /\ tpc' = [tpc EXCEPT ![t] = IF kpc'[t] = "work" THEN "end" ELSE @]
  /\ fault' = IF control = "live" THEN fault ELSE <<"thread", Missing>>
  /\ UNCHANGED <<life, control, thread_num, hookVars, collector, dry, stop, timer, late>>

ThreadEnds(t) ==
  /\ Runs(t, "end")
  /\ tpc' = [tpc EXCEPT ![t] = IF stop[t] THEN "exited" ELSE "top"]
  /\ UNCHANGED <<wakeVars, life, control, thread_num, hookVars, collector, dry, stop, timer, late, fault>>

ThreadStep(t) ==
  ThreadStart(t) \/ ThreadTakes(t) \/ ThreadDequeues(t) \/ ThreadWaits(t) \/ ThreadEnds(t)

-----------------------------------------------------------------------------
\* Every thread that waits for a word gets one, from a packet or from the padding: the
\* timer pads as long as the queue's index fits its int (see AsInt in LfRwq).
Fed == dry' = [t \in Cpus |-> FALSE]

(* sample: a packet is enqueued, or the queue is full, and                 *)
(* packet_rcv_wakeup begins.                                               *)
HookEnters(c) ==
  /\ fault = NoFault /\ Hooked /\ collector /\ ~HookActive(c)
  /\ \/ /\ control = "live"
        /\ WakeStart(c)
        /\ hookNum' = [hookNum EXCEPT ![c] = thread_num]
        /\ \/ Fed /\ UNCHANGED full
           \/ full' = [full EXCEPT ![c] = TRUE] /\ UNCHANGED dry
        /\ UNCHANGED <<life, control, thread_num, collector, tpc, stop, timer, late, fault>>
     \/ control # "live" /\ Faults("hook", Missing)

\* All steps of packet_rcv_wakeup read the control block, and one a thread's task.
HookWakes(c) ==
  /\ fault = NoFault /\ hpc[c] # "idle"
  /\ \/ /\ control = "live"
        /\ hpc[c] = "scan" => hi[c] < hookNum[c]
        /\ hpc[c] = "wake" => tpc[hi[c]] \notin {"err", "exited"}
        /\ Wakeup(c)
        /\ UNCHANGED <<life, control, thread_num, hookVars, collector, threadVars, timer, late, fault>>
     \/ /\ control = "live" /\ hpc[c] = "scan" /\ hi[c] = hookNum[c]
        /\ hpc' = [hpc EXCEPT ![c] = "idle"]
        /\ hi' = [hi EXCEPT ![c] = 0]
        /\ UNCHANGED <<task_state, kstate, kpc, life, control, thread_num, hookVars, collector,
                       threadVars, timer, late, fault>>
     \/ /\ control = "live" /\ hpc[c] = "wake" /\ tpc[hi[c]] \in {"err", "exited"}
        /\ Faults("hook", "task")
     \/ control # "live" /\ Faults("hook", Missing)

\* With a full queue the threads are shown in the end.
HookShows(c) ==
  /\ fault = NoFault /\ hpc[c] = "idle" /\ full[c]
  /\ \/ Shown("hook")
     \/ /\ CanShow
        /\ full' = [full EXCEPT ![c] = FALSE]
        /\ UNCHANGED <<wakeVars, life, control, thread_num, hookNum, collector, threadVars, timer, late,
                       fault>>

HookStep(c) == HookWakes(c) \/ HookShows(c)

\* wireway_packet_timer and debug_timer_process begin.
Expire(x) ==
  /\ fault = NoFault /\ timer[x] = "pending"
  /\ \/ life[1] = "gone" /\ Faults(x, "code")
     \/ life[1] # "gone" /\ x = "debug" /\ Shown(x)
     \/ /\ life[1] # "gone" /\ (x = "debug" => CanShow)
        /\ timer' = [timer EXCEPT ![x] = "running"]
        /\ IF x = "packet" /\ collector THEN Fed ELSE UNCHANGED dry
        /\ UNCHANGED <<wakeVars, life, control, thread_num, hookVars, collector, tpc, stop, late, fault>>

\* add_timer at the end of the handler.
Rearm(x) ==
  /\ fault = NoFault /\ timer[x] = "running"
  /\ \/ life[1] = "gone" /\ Faults(x, "code")
     \/ /\ life[1] # "gone"
        /\ timer' = [timer EXCEPT ![x] = "pending"]
        /\ UNCHANGED <<wakeVars, life, control, thread_num, hookVars, collector, threadVars, late, fault>>

LifeNext ==
  \/ Load \/ Rmmod \/ Unload
  \/ \E t \in Cpus : ThreadStep(t)
  \/ \E c \in HookCpus : HookEnters(c) \/ HookStep(c)
  \/ \E x \in Timers : Expire(x) \/ Rearm(x)

(* A thread runs between the hooks of its CPU; the loader, a hook that has *)
(* begun and the timers go on.                                             *)
LifeSpec ==
  /\ LifeInit /\ [][LifeNext]_lifeVars
  /\ WF_lifeVars(Load \/ Unload)
  /\ \A t \in Cpus : SF_lifeVars(ThreadStep(t))
  /\ \A c \in HookCpus : WF_lifeVars(HookStep(c))
  /\ \A x \in Timers : WF_lifeVars(Expire(x) \/ Rearm(x))

-----------------------------------------------------------------------------
(* What loading and unloading leave to go wrong, and nothing besides: the  *)
(* loader itself finds no control block (if there was no memory for it);   *)
(* hooks and the debug timer use the block after it was freed, or the task *)
(* of a thread that was not made or has ended; a timer outlives the module *)
(* if its handler ran when it was deleted.  No thread ever uses a freed    *)
(* block, and no hook comes before there is one.                           *)
LifeFaults ==
  fault \in {NoFault,
             <<"loader", "null">>, <<"loader", "task">>, <<"debug", "null">>,
             <<"hook", "freed">>, <<"debug", "freed">>, <<"hook", "task">>, <<"debug", "task">>}
    \/ (late /\ fault \in {<<"packet", "code">>, <<"debug", "code">>})

\* kthread_stop has woken the thread, which went to sleep after that.
MissedStop(t) == Sleeps(t) /\ life = <<"stopWait", t>>

\* packet_rcv_wakeup tries again and again to wake a thread that is at work.
Spins(c) == hpc[c] \in {"wake", "retest"}

(* rmmod returns, unless something gone was used, a thread misses its stop *)
(* (it had decided to sleep and had not set its state when it was woken,   *)
(* and no packet wakes it again), or a hook tries for ever to wake a       *)
(* thread that never runs out of work.  A thread in the busy wait of       *)
(* lfrwq_deq does not hold rmmod up, since the timers are deleted last and *)
(* until then the padding feeds it (while the queue's index fits an int).  *)
Unloads ==
  life[1] = "stop" ~> (\/ life[1] = "gone" \/ fault # NoFault
                       \/ \E t \in Cpus : []MissedStop(t)
                       \/ \E c \in HookCpus : []Spins(c))
=============================================================================
