---------------------------- MODULE PacketWake ----------------------------
(***************************************************************************)
(* How the receive threads go to sleep and are woken (wireway_dev.c):      *)
(* packet_rcv_wait, run by the thread that is bound to a CPU, and          *)
(* packet_rcv_wakeup, run by the hook in softirq context of a CPU.  While  *)
(* a hook runs on a CPU, that CPU's thread does not.                       *)
(*                                                                         *)
(* task->state of the kernel is kstate: set_current_state arms it,         *)
(* schedule() returns once it is runnable, wake_up_process makes it so and *)
(* returns 0 when it already was.                                          *)
(***************************************************************************)
EXTENDS Naturals

CONSTANTS
  NCpu,      \* online CPUs, each with one thread (thread_num)
  HookCpus   \* the CPUs that handle network interrupts

ASSUME CpuAssumption == NCpu \in Nat \ {0}

Cpus == 0..(NCpu - 1)

ASSUME HookCpusAssumption == HookCpus \subseteq Cpus

VARIABLES
  task_state,  \* p_control->task_state: "idle", "wait", "running" or "run"
  kstate,      \* task->state
  kpc,         \* thread: "work" outside packet_rcv_wait
  hpc, hi      \* hook: control point in packet_rcv_wakeup, its loop index

wakeVars == <<task_state, kstate, kpc, hpc, hi>>

WakeInit ==
  /\ task_state = [t \in Cpus |-> "idle"]
  /\ kstate = [t \in Cpus |-> "runnable"]
  /\ kpc = [t \in Cpus |-> "work"]
  /\ hpc = [c \in Cpus |-> "idle"]
  /\ hi = [c \in Cpus |-> 0]

-----------------------------------------------------------------------------
(* packet_rcv_wait                                                         *)

\* MUTANT: a mark set while the thread was polling is overlooked.
AfterMarkBlind(s) == "arm"

\* What the thread does after it found its state to be s.
AfterMark(s) == IF s = "run" THEN "cancel" ELSE "arm"

\* The exchange that announces the wait; a thread marked "run" in the meantime
\* does not sleep.
WaitMark(t) ==
  /\ kpc[t] = "work"
  /\ task_state' = [task_state EXCEPT ![t] = "wait"]
  /\ kpc' = [kpc EXCEPT ![t] = AfterMark(task_state[t])]
  /\ UNCHANGED <<kstate, hpc, hi>>

\* Marks itself running and yields the CPU.
WaitCancel(t) ==
  /\ kpc[t] = "cancel"
  /\ task_state' = [task_state EXCEPT ![t] = "running"]
  /\ kpc' = [kpc EXCEPT ![t] = "work"]
  /\ UNCHANGED <<kstate, hpc, hi>>

\* MUTANT: marked running before schedule() rather than after it.
WaitArmRunning(t) ==
  /\ kpc[t] = "arm"
  /\ kstate' = [kstate EXCEPT ![t] = "uninterruptible"]
  /\ task_state' = [task_state EXCEPT ![t] = "running"]
  /\ kpc' = [kpc EXCEPT ![t] = "asleep"]
  /\ UNCHANGED <<hpc, hi>>

\* set_current_state(TASK_UNINTERRUPTIBLE)
WaitArm(t) ==
  /\ kpc[t] = "arm"
  /\ kstate' = [kstate EXCEPT ![t] = "uninterruptible"]
  /\ kpc' = [kpc EXCEPT ![t] = "asleep"]
  /\ UNCHANGED <<task_state, hpc, hi>>

\* schedule() returns and the thread marks itself running.
WaitResume(t) ==
  /\ kpc[t] = "asleep"
  /\ kstate[t] = "runnable"
  /\ task_state' = [task_state EXCEPT ![t] = "running"]
  /\ kpc' = [kpc EXCEPT ![t] = "work"]
  /\ UNCHANGED <<kstate, hpc, hi>>

Wait(t) == WaitMark(t) \/ WaitCancel(t) \/ WaitArm(t) \/ WaitResume(t)

-----------------------------------------------------------------------------
(* packet_rcv_wakeup on CPU c                                              *)

\* MUTANT: round robin that never ends when every thread is marked.
NextThreadWraps(i) == (i + 1) % NCpu

NextThread(i) == i + 1

WakeStart(c) ==
  /\ hpc[c] = "idle"
  /\ hpc' = [hpc EXCEPT ![c] = "scan"]
  /\ hi' = [hi EXCEPT ![c] = 0]
  /\ UNCHANGED <<task_state, kstate, kpc>>

\* The thread of the hook's own CPU and one already marked are passed over; the
\* loop that runs out of threads returns 0.
WakeScan(c) ==
  /\ hpc[c] = "scan"
  /\ \/ /\ hi[c] = NCpu
        /\ hpc' = [hpc EXCEPT ![c] = "idle"]
        /\ hi' = [hi EXCEPT ![c] = 0]
     \/ /\ hi[c] < NCpu
        /\ hi[c] = c \/ task_state[hi[c]] = "run"
        /\ hi' = [hi EXCEPT ![c] = NextThread(@)]
        /\ UNCHANGED hpc
     \/ /\ hi[c] < NCpu
        /\ hi[c] # c /\ task_state[hi[c]] # "run"
        /\ hpc' = [hpc EXCEPT ![c] = "mark"]
        /\ UNCHANGED hi
  /\ UNCHANGED <<task_state, kstate, kpc>>

\* The exchange that marks the thread; one that is awake needs no more.
WakeMark(c) ==
  /\ hpc[c] = "mark"
  /\ task_state' = [task_state EXCEPT ![hi[c]] = "run"]
  /\ \/ /\ task_state[hi[c]] \in {"run", "running"}
        /\ hpc' = [hpc EXCEPT ![c] = "scan"]
        /\ hi' = [hi EXCEPT ![c] = NextThread(@)]
     \/ /\ task_state[hi[c]] \notin {"run", "running"}
        /\ hpc' = [hpc EXCEPT ![c] = "wake"]
        /\ UNCHANGED hi
  /\ UNCHANGED <<kstate, kpc>>

\* wake_up_process; success makes the call return 1.
WakeProcess(c) ==
  /\ hpc[c] = "wake"
  /\ \/ /\ kstate[hi[c]] = "uninterruptible"
        /\ kstate' = [kstate EXCEPT ![hi[c]] = "runnable"]
        /\ hpc' = [hpc EXCEPT ![c] = "idle"]
        /\ hi' = [hi EXCEPT ![c] = 0]
     \/ /\ kstate[hi[c]] = "runnable"
        /\ hpc' = [hpc EXCEPT ![c] = "retest"]
        /\ UNCHANGED <<kstate, hi>>
  /\ UNCHANGED <<task_state, kpc>>

\* The test that decides whether wake_up_process is tried again; giving up makes
\* the call return 1 as well.
WakeRetest(c) ==
  /\ hpc[c] = "retest"
  /\ \/ /\ task_state[hi[c]] # "running"
        /\ hpc' = [hpc EXCEPT ![c] = "idle"]
        /\ hi' = [hi EXCEPT ![c] = 0]
     \/ /\ task_state[hi[c]] = "running"
        /\ hpc' = [hpc EXCEPT ![c] = "wake"]
        /\ UNCHANGED hi
  /\ UNCHANGED <<task_state, kstate, kpc>>

Wakeup(c) == WakeScan(c) \/ WakeMark(c) \/ WakeProcess(c) \/ WakeRetest(c)

-----------------------------------------------------------------------------
\* The protocol by itself: a thread may run out of work at any time, a hook may
\* run on any of its CPUs at any time.
WakeNext ==
  \/ \E t \in Cpus : hpc[t] = "idle" /\ Wait(t)
  \/ \E c \in HookCpus : WakeStart(c) \/ Wakeup(c)

WakeSpec == WakeInit /\ [][WakeNext]_wakeVars

(* A hook that started runs on.  A thread gets its CPU again and again     *)
(* between hooks (softirqs are deferred under load), hence strong          *)
(* fairness; whether it ever runs out of work is left open.                *)
WakeFairSpec ==
  /\ WakeSpec
  /\ \A c \in HookCpus : WF_wakeVars(Wakeup(c))
  /\ \A t \in Cpus : SF_wakeVars(hpc[t] = "idle" /\ kpc[t] # "work" /\ Wait(t))

-----------------------------------------------------------------------------
(* Type correctness of the control block and of the locals.                *)
WakeTypeOK ==
  /\ task_state \in [Cpus -> {"idle", "wait", "running", "run"}]
  /\ kstate \in [Cpus -> {"runnable", "uninterruptible"}]
  /\ kpc \in [Cpus -> {"work", "cancel", "arm", "asleep"}]
  /\ hpc \in [Cpus -> {"idle", "scan", "mark", "wake", "retest"}]
  /\ hi \in [Cpus -> 0..NCpu]

Sleeps(t) == kpc[t] = "asleep" /\ kstate[t] = "uninterruptible"
BeingWoken(t) == \E c \in Cpus : hpc[c] \in {"wake", "retest"} /\ hi[c] = t

\* Every later wakeup passes over a thread marked "run", so a sleeping one that is
\* marked sleeps for ever unless some hook is still about to wake it.
Lost(t) == Sleeps(t) /\ task_state[t] = "run" /\ ~BeingWoken(t)

(* packet_rcv_wakeup wakes the thread it marks: its comment "wake up       *)
(* process" (wireway_dev.c 122) and its result 1 say so.                   *)
NoLostWakeup == \A t \in Cpus : ~Lost(t)

(* packet_rcv_wakeup, which loops in softirq context until the thread it   *)
(* marked is woken or changes state, returns - provided every thread runs  *)
(* out of work from time to time and packets cease.  Without the latter a  *)
(* third CPU's hooks can mark the thread again just in time to make it     *)
(* cancel its waits, for as long as packets arrive.                        *)
WakeupReturns ==
  (/\ \A t \in Cpus : []<>(kpc[t] # "work")
   /\ <>[][~\E c \in HookCpus : WakeStart(c)]_wakeVars)
    => \A c \in HookCpus : hpc[c] # "idle" ~> hpc[c] = "idle"

(* A thread sleeps only as announced: it is still marked "wait", or a hook *)
(* has marked it "run".  A thread that slept as "running" would only be    *)
(* marked, not woken, by packet_rcv_wakeup (line 120).                     *)
SleepIsAnnounced ==
  \A t \in Cpus : Sleeps(t) => task_state[t] \in {"wait", "run"}
=============================================================================
