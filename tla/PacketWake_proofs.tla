------------------------- MODULE PacketWake_proofs -------------------------
(* Theorems on the sleep and wake-up protocol, for any number of CPUs.     *)
EXTENDS PacketWake, TLAPS

\* A hook past its scan has a thread in hand.
HasTarget ==
  \A c \in Cpus : hpc[c] \in {"mark", "wake", "retest"} => hi[c] \in Cpus

\* From the exchange that announces the wait to the end of the sleep the thread is
\* marked "wait", or "run" by a hook.
Announced ==
  \A t \in Cpus : kpc[t] \in {"arm", "asleep"} => task_state[t] \in {"wait", "run"}

WakeInv == WakeTypeOK /\ HasTarget /\ Announced

\* At first no thread sleeps and no hook is at work.
LEMMA InitInv == WakeInit => WakeInv
  BY CpuAssumption DEF WakeInit, WakeInv, WakeTypeOK, HasTarget, Announced, Cpus

\* The steps of packet_rcv_wait keep the invariant.
LEMMA WaitKeepsInv ==
  ASSUME WakeInv, NEW t \in Cpus, Wait(t)
  PROVE  WakeInv'
  <1> USE DEF WakeInv, WakeTypeOK, HasTarget, Announced
  <1>1. CASE WaitMark(t)
    BY <1>1 DEF WaitMark, AfterMark
  <1>2. CASE WaitCancel(t)
    BY <1>2 DEF WaitCancel
  <1>3. CASE WaitArm(t)
    BY <1>3 DEF WaitArm
  <1>4. CASE WaitResume(t)
    BY <1>4 DEF WaitResume
  <1>5. QED
    BY <1>1, <1>2, <1>3, <1>4 DEF Wait

\* The steps of packet_rcv_wakeup keep the invariant.
LEMMA WakeupKeepsInv ==
  ASSUME WakeInv, NEW c \in Cpus, WakeStart(c) \/ Wakeup(c)
  PROVE  WakeInv'
  <1> USE DEF WakeInv, WakeTypeOK, HasTarget, Announced
  <1>0. NCpu \in Nat /\ \A i \in 0..NCpu : i < NCpu => i \in Cpus /\ i + 1 \in 0..NCpu
    BY CpuAssumption DEF Cpus
  <1>1. CASE WakeStart(c)
    BY <1>0, <1>1 DEF WakeStart
  <1>2. CASE WakeScan(c)
    <2>1. UNCHANGED <<task_state, kstate, kpc>>
      BY <1>2 DEF WakeScan
    <2>2. CASE hpc' = [hpc EXCEPT ![c] = "idle"] /\ hi' = [hi EXCEPT ![c] = 0]
      BY <1>0, <2>1, <2>2
    <2>3. CASE hpc[c] = "scan" /\ hi[c] < NCpu /\ hi' = [hi EXCEPT ![c] = hi[c] + 1] /\ hpc' = hpc
      <3>1. hi[c] + 1 \in 0..NCpu
        BY <1>0, <2>3
      <3>2. QED
        BY <2>1, <2>3, <3>1
    <2>4. CASE hi[c] < NCpu /\ hpc' = [hpc EXCEPT ![c] = "mark"] /\ hi' = hi
      <3>1. hi[c] \in Cpus
        BY <1>0, <2>4
      <3>2. QED
        BY <2>1, <2>4, <3>1
    <2>5. QED
      BY <1>2, <2>2, <2>3, <2>4 DEF WakeScan, NextThread
  <1>3. CASE WakeMark(c)
    <2>1. hi[c] \in Cpus /\ hi[c] + 1 \in 0..NCpu
      BY <1>0, <1>3, CpuAssumption DEF WakeMark, Cpus
    <2>2. QED
      BY <1>3, <2>1 DEF WakeMark, NextThread
  <1>4. CASE WakeProcess(c)
    BY <1>0, <1>4 DEF WakeProcess
  <1>5. CASE WakeRetest(c)
    BY <1>0, <1>5 DEF WakeRetest
  <1>6. QED
    BY <1>1, <1>2, <1>3, <1>4, <1>5 DEF Wakeup

\* The invariant is inductive.
LEMMA NextKeepsInv == WakeInv /\ [WakeNext]_wakeVars => WakeInv'
  <1> SUFFICES ASSUME WakeInv, [WakeNext]_wakeVars PROVE WakeInv'
    OBVIOUS
  <1>1. ASSUME NEW t \in Cpus, Wait(t) PROVE WakeInv'
    BY <1>1, WaitKeepsInv
  <1>2. ASSUME NEW c \in HookCpus, WakeStart(c) \/ Wakeup(c) PROVE WakeInv'
    BY <1>2, WakeupKeepsInv, HookCpusAssumption
  <1>3. CASE UNCHANGED wakeVars
    BY <1>3 DEF WakeInv, WakeTypeOK, HasTarget, Announced, wakeVars
  <1>4. QED
    BY <1>1, <1>2, <1>3 DEF WakeNext

(* The control block and the locals of wireway_dev.c 79-163 keep their     *)
(* types; the index of the thread that a hook marks is that of a thread.   *)
THEOREM WakeTypeCorrect == WakeSpec => []WakeTypeOK
  <1>1. WakeInv => WakeTypeOK
    BY DEF WakeInv
  <1>2. QED
    BY InitInv, NextKeepsInv, <1>1, PTL DEF WakeSpec

(* A thread that sleeps is marked "wait" or "run", whatever hooks do to    *)
(* the mark between its exchange (line 82) and its schedule (line 95).     *)
THEOREM SleepsAnnounced == WakeSpec => []SleepIsAnnounced
  <1>1. WakeInv => SleepIsAnnounced
    BY DEF WakeInv, Announced, SleepIsAnnounced, Sleeps
  <1>2. QED
    BY InitInv, NextKeepsInv, <1>1, PTL DEF WakeSpec
=============================================================================
