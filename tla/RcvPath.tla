------------------------------ MODULE RcvPath ------------------------------
(***************************************************************************)
(* The kernel receive path as a whole: on each CPU the netfilter hook      *)
(* (sample, filter_func.c) enqueues a packet and then runs                 *)
(* packet_rcv_wakeup whether or not the queue took it; on each CPU a       *)
(* thread (packet_rcv_process) drains the queue and sleeps after Polls     *)
(* calls of lfrwq_get_rpermit in a row that returned 0; the timer pads.    *)
(* The queue is LfRwq, the sleeping PacketWake; this module adds the       *)
(* poll counter, the order of the calls and the exclusion of a CPU's       *)
(* thread by a hook running on that CPU.                                   *)
(***************************************************************************)
EXTENDS LfRwqProps, PacketWake

CONSTANT Polls   \* empty polls before a thread sleeps (100)

\* Each CPU has a thread, and each CPU with network interrupts a hook.
ASSUME PathAssumption == /\ Writers = HookCpus /\ Readers = Cpus
                         /\ Polls \in Nat \ {0}

VARIABLE count   \* the thread's empty polls in a row

pathVars == <<vars, wakeVars, count>>

PathInit == Init /\ WakeInit /\ count = [t \in Cpus |-> 0]

\* The hook holds the CPU from its first read of the queue to the end of the wakeup.
HookActive(c) == c \in Writers /\ (wpc[c] # "idle" \/ hpc[c] # "idle")

-----------------------------------------------------------------------------
(* sample, filter_func.c 85-131                                            *)

\* A step of lfrwq_inq; when it returns, with 0 or -1, packet_rcv_wakeup begins.
HookEnqueue(c) ==
  /\ hpc[c] = "idle"
  /\ InqLoad(c) \/ Hook(c)
  /\ IF wpc'[c] = "idle" THEN WakeStart(c) ELSE UNCHANGED wakeVars
  /\ UNCHANGED count

HookWakeup(c) == Wakeup(c) /\ UNCHANGED <<vars, count>>

-----------------------------------------------------------------------------
(* packet_rcv_process                                                      *)

\* lfrwq_get_rpermit is about to return 0.
PollsEmpty(t) == rpc[t] = "back" /\ r_permit + Suggest <= 0

\* The poll counter across a step of the queue's code.
Counted(t) ==
  count' = [count EXCEPT ![t] =
              IF PollsEmpty(t) THEN @ + 1 ELSE IF pmt'[t] > 0 THEN 0 ELSE @]

ThreadWork(t) ==
  /\ ~HookActive(t) /\ kpc[t] = "work" /\ count[t] < Polls
  /\ Thread(t)
  /\ Counted(t)
  /\ UNCHANGED wakeVars

\* packet_rcv_wait, after which the count starts again.
ThreadWait(t) ==
  /\ ~HookActive(t) /\ count[t] = Polls
  /\ Wait(t)
  /\ count' = [count EXCEPT ![t] = IF kpc'[t] = "work" THEN 0 ELSE @]
  /\ UNCHANGED vars

-----------------------------------------------------------------------------
PathTimer == Timer /\ UNCHANGED <<wakeVars, count>>

HookStep(c) == (wpc[c] # "idle" /\ HookEnqueue(c)) \/ HookWakeup(c)
ThreadStep(t) == ThreadWork(t) \/ ThreadWait(t)

PathNext ==
  \/ \E c \in Writers : HookEnqueue(c) \/ HookWakeup(c)
  \/ \E t \in Cpus : ThreadWork(t) \/ ThreadWait(t)
  \/ PathTimer

PathSpec == PathInit /\ [][PathNext]_pathVars

(* The hook, once entered, and the timer always go on.  A thread is        *)
(* runnable only between hooks on its CPU; packets are bounded by MaxW, so *)
(* weak fairness is enough.                                                *)
PathFairSpec ==
  /\ PathSpec
  /\ \A c \in Writers : WF_pathVars(HookStep(c))
  /\ \A t \in Cpus : WF_pathVars(ThreadStep(t))
  /\ WF_pathVars(PathTimer)

-----------------------------------------------------------------------------
(* The handshake between "no permits, so I sleep" and "new permits, so I   *)
(* wake someone" works wherever the wake-up itself does: with all threads  *)
(* asleep as announced and no hook under way, no permit is left untaken.   *)
NoWorkAllAsleep ==
  (/\ \A t \in Cpus : Sleeps(t) /\ task_state[t] = "wait"
   /\ \A c \in Cpus : ~HookActive(c)) => r_permit = 0

(* Every accepted word is taken out eventually, unless a thread is lost to *)
(* the race of NoLostWakeup: nothing else can strand a packet, neither the *)
(* permit protocol nor a half-filled block nor a thread going to sleep.    *)
DrainedUnlessLost ==
  ([]\A t \in Cpus : ~Lost(t)) => Drained

(* A hook that holds a CPU lets go of it.                                  *)
HookReturns == \A c \in Cpus : HookActive(c) ~> ~HookActive(c)
=============================================================================
