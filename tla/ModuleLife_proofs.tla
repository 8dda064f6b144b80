------------------------- MODULE ModuleLife_proofs -------------------------
(* Theorem on loading and unloading the kernel module, for any number of   *)
(* CPUs and any of them with hooks.                                        *)
EXTENDS ModuleLife, PacketWake_proofs

Loading == {"create", "start"}
Stopping == {"stop", "stopWake", "stopWait"}
Serving == {"loaded", "free"} \cup Stopping
Leaving == {"unhook", "gone"}
Stages == {"hooks", "alloc", "timers", "show", "del"} \cup Loading \cup Serving \cup Leaving

AtWork == {"made", "top", "deq", "end"}

LifeTypes ==
  /\ life[1] \in Stages /\ life[2] \in Nat
  /\ control \in {"none", "live", "freed"}
  /\ tpc \in [Cpus -> AtWork \cup {"none", "err", "exited"}]
  /\ full \in [Cpus -> BOOLEAN]
  /\ timer \in [Timers -> {"off", "pending", "running"}]

\* The stage says whether there is a control block; only without memory is there
\* none when the timers start.
ControlByStage ==
  /\ life[1] \in {"hooks", "alloc"} => control = "none"
  /\ life[1] \in Loading \cup Serving => control = "live"
  /\ life[1] \in {"timers", "show"} => control # "freed"
  /\ life[1] \in {"del"} \cup Leaving => control = "freed"

\* Threads that have not ended have a control block, since they are stopped one by
\* one before it is freed.
ThreadsServed == \A t \in Cpus : tpc[t] \in AtWork => control = "live"
StoppedInTurn ==
  /\ life[1] \in Stopping => life[2] \in Cpus /\ \A t \in Cpus : t < life[2] => tpc[t] = "exited"
  /\ life[1] = "free" => \A t \in Cpus : tpc[t] = "exited"

\* Hooks do nothing before a thread has set collector_main.
HooksWait == control = "none" => ~collector /\ \A c \in Cpus : ~HookActive(c)

\* A timer that is on after del_timer had its handler running then.
TimersLate == life[1] \in Leaving /\ ~late => \A x \in Timers : timer[x] = "off"

Places == ControlByStage /\ ThreadsServed /\ StoppedInTurn /\ HooksWait /\ TimersLate

LifeInv == WakeInv /\ LifeTypes /\ Places /\ LifeFaults

USE DEF Loading, Stopping, Serving, Leaving, Stages, AtWork, Timers

-----------------------------------------------------------------------------
\* At first nothing is loaded and nothing runs.
LEMMA InitLife == LifeInit => LifeInv
  <1> SUFFICES ASSUME LifeInit PROVE LifeInv
    OBVIOUS
  <1>1. WakeInv
    BY InitInv DEF LifeInit
  <1>2. LifeTypes
    BY DEF LifeInit, LifeTypes
  <1>3. HooksWait
    BY DEF LifeInit, WakeInit, HooksWait, HookActive
  <1>4. ControlByStage /\ ThreadsServed /\ StoppedInTurn /\ TimersLate
    BY DEF LifeInit, ControlByStage, ThreadsServed, StoppedInTurn, TimersLate
  <1>5. LifeFaults
    BY DEF LifeInit, LifeFaults
  <1>6. QED
    BY <1>1, <1>2, <1>3, <1>4, <1>5 DEF LifeInv, Places

\* What a step leaves alone stays right.
LEMMA WakeStays == WakeInv /\ UNCHANGED wakeVars => WakeInv'
  BY DEF WakeInv, WakeTypeOK, HasTarget, Announced, wakeVars

\* A step of filter_init keeps the invariant.
LEMMA LoadKeeps == LifeInv /\ Load => LifeInv'
  <1> SUFFICES ASSUME LifeInv, Load PROVE LifeInv'
    OBVIOUS
  <1> USE DEF LifeInv, LifeTypes, Places, ControlByStage, ThreadsServed, StoppedInTurn,
              HooksWait, HookActive, TimersLate, At, Cpu, hookVars, threadVars, wakeVars
  <1>1. CASE RegisterHooks
    BY <1>1, WakeStays DEF RegisterHooks, LifeFaults
  <1>2. CASE AllocControl
    BY <1>2, WakeStays DEF AllocControl, LifeFaults
  <1>3. CASE CreateThread
    <2>1. WakeInv'
      BY <1>3 DEF CreateThread, WakeInv, WakeTypeOK, HasTarget, Announced
    <2>2. control = "live" /\ life[1] = "create" /\ life' = <<"start", life[2]>>
          /\ UNCHANGED <<control, full, timer, collector, late, fault>>
      BY <1>3 DEF CreateThread
    <2>3. tpc' \in [Cpus -> AtWork \cup {"none", "err", "exited"}]
      BY <1>3 DEF CreateThread
    <2>4. LifeTypes'
      BY <2>2, <2>3
    <2>5. Places' /\ LifeFaults'
      BY <2>2 DEF LifeFaults
    <2>6. QED
      BY <2>1, <2>4, <2>5
  <1>4. CASE StartThread
    <2>1. WakeInv'
      BY <1>4 DEF StartThread, WakeInv, WakeTypeOK, HasTarget, Announced
    <2>2. life'[1] \in {"timers", "create"} /\ life'[2] \in Nat
      BY <1>4 DEF StartThread
    <2>3. QED
      BY <1>4, <2>1, <2>2 DEF StartThread, LifeFaults
  <1>5. CASE AddTimers
    BY <1>5, WakeStays DEF AddTimers, LifeFaults
  <1>6. CASE Show
    <2>1. CASE Shown("loader")
      <3>1. UNCHANGED <<wakeVars, life, control, tpc, full, timer, collector, late>>
        BY <2>1 DEF Shown, Faults
      <3>2. fault' \in {<<"loader", "null">>, <<"loader", "task">>}
        BY <1>6, <2>1 DEF Show, Shown, Faults, Missing
      <3>3. QED
        BY <3>1, <3>2, WakeStays DEF LifeFaults
    <2>2. CASE ~Shown("loader")
      BY <1>6, <2>2, WakeStays DEF Show, CanShow, LifeFaults
    <2>3. QED
      BY <2>1, <2>2
  <1>7. QED
    BY <1>1, <1>2, <1>3, <1>4, <1>5, <1>6 DEF Load

\* A step of filter_exit keeps the invariant.
LEMMA UnloadKeeps == LifeInv /\ (Rmmod \/ Unload) => LifeInv'
  <1> SUFFICES ASSUME LifeInv, Rmmod \/ Unload PROVE LifeInv'
    OBVIOUS
  <1> USE DEF LifeInv, LifeTypes, Places, ControlByStage, ThreadsServed, StoppedInTurn,
              HooksWait, HookActive, TimersLate, At, Cpu, hookVars, threadVars, wakeVars
  <1>0. NCpu \in Nat /\ 0 \in Cpus /\ \A t \in Cpus : t \in Nat /\ t < NCpu
    BY CpuAssumption DEF Cpus
  <1>1. CASE Rmmod
    BY <1>0, <1>1, WakeStays DEF Rmmod, LifeFaults
  <1>2. CASE StopFlag
    BY <1>2, WakeStays DEF StopFlag, LifeFaults
  <1>3. CASE StopWake
    <2>1. WakeInv'
      BY <1>3 DEF StopWake, WakeInv, WakeTypeOK, HasTarget, Announced
    <2>2. QED
      BY <1>3, <2>1 DEF StopWake, LifeFaults
  <1>4. CASE StopWait
    <2>1. life[2] \in Cpus /\ \A t \in Cpus : t < life[2] + 1 => tpc[t] = "exited"
      BY <1>0, <1>4 DEF StopWait
    <2>2. CASE life[2] + 1 = NCpu
      BY <1>0, <1>4, <2>1, <2>2, WakeStays DEF StopWait, LifeFaults
    <2>3. CASE life[2] + 1 # NCpu
      <3>1. life[2] + 1 \in Cpus
        BY <2>1, <2>3, CpuAssumption DEF Cpus
      <3>2. QED
        BY <1>4, <2>1, <2>3, <3>1, WakeStays DEF StopWait, LifeFaults
    <2>4. QED
      BY <2>2, <2>3
  <1>5. CASE Free
    BY <1>5, WakeStays DEF Free, LifeFaults
  <1>6. CASE DelTimers
    <2>1. \A x \in Timers : timer'[x] \in {"off", "running"} /\ (timer'[x] = "running" => timer[x] = "running")
      BY <1>6 DEF DelTimers
    <2>2. timer' \in [Timers -> {"off", "pending", "running"}]
      BY <1>6 DEF DelTimers
    <2>3. ~late' => \A x \in Timers : timer[x] # "running"
      BY <1>6, Zenon DEF DelTimers
    <2>4. QED
      BY <1>6, <2>1, <2>2, <2>3, WakeStays DEF DelTimers, LifeFaults
  <1>7. CASE Unhook
    BY <1>7, WakeStays DEF Unhook, LifeFaults
  <1>8. QED
    BY <1>1, <1>2, <1>3, <1>4, <1>5, <1>6, <1>7 DEF Unload

\* A step of a receive thread keeps the invariant; the control block is there.
LEMMA ThreadKeeps ==
  ASSUME LifeInv, NEW t \in Cpus, ThreadStep(t)
  PROVE  LifeInv'
  <1> USE DEF LifeInv, LifeTypes, Places, ControlByStage, ThreadsServed, StoppedInTurn,
              HooksWait, TimersLate, Runs, hookVars, threadVars
  <1>0. tpc[t] \in AtWork /\ control = "live" /\ fault = NoFault
    BY DEF ThreadStep, ThreadStart, ThreadTakes, ThreadDequeues, ThreadWaits, ThreadEnds
  <1>1. UNCHANGED <<life, control, full, timer, late>>
    BY DEF ThreadStep, ThreadStart, ThreadTakes, ThreadDequeues, ThreadWaits, ThreadEnds
  <1>2. fault' = NoFault
    BY <1>0 DEF ThreadStep, ThreadStart, ThreadTakes, ThreadDequeues, ThreadWaits, ThreadEnds
  <1>3. tpc' \in [Cpus -> AtWork \cup {"none", "err", "exited"}]
        /\ \A u \in Cpus : tpc'[u] # tpc[u] => u = t
    BY DEF ThreadStep, ThreadStart, ThreadTakes, ThreadDequeues, ThreadWaits, ThreadEnds
  <1>4. WakeInv'
    <2>1. CASE ThreadWaits(t)
      BY <2>1, WaitKeepsInv DEF ThreadWaits
    <2>2. CASE ~ThreadWaits(t)
      BY <2>2, WakeStays DEF ThreadStep, ThreadStart, ThreadTakes, ThreadDequeues, ThreadEnds
    <2>3. QED
      BY <2>1, <2>2
  <1>5. LifeFaults'
    BY <1>2 DEF LifeFaults
  <1>6. QED
    BY <1>0, <1>1, <1>3, <1>4, <1>5

\* A step of a hook keeps the invariant: it finds a control block, or a freed one.
LEMMA HookKeeps ==
  ASSUME LifeInv, NEW c \in Cpus, HookEnters(c) \/ HookStep(c)
  PROVE  LifeInv'
  <1> USE DEF LifeInv, LifeTypes, Places, hookVars, threadVars
  <1>0. control # "none"
    BY DEF HooksWait, HookEnters, HookStep, HookWakes, HookShows, HookActive
  <1>1. UNCHANGED <<life, control, tpc, timer, late>>
    BY DEF HookEnters, HookStep, HookWakes, HookShows, Faults, Shown
  <1>2. full' \in [Cpus -> BOOLEAN]
    BY DEF HookEnters, HookStep, HookWakes, HookShows, Faults, Shown
  <1>3. fault' \in {fault, <<"hook", "freed">>, <<"hook", "task">>}
    BY <1>0 DEF HookEnters, HookStep, HookWakes, HookShows, Faults, Shown, Missing
  <1>4. WakeInv'
    <2>1. CASE WakeStart(c) \/ Wakeup(c)
      BY <2>1, WakeupKeepsInv
    <2>2. CASE hpc' = [hpc EXCEPT ![c] = "idle"] /\ hi' = [hi EXCEPT ![c] = 0]
               /\ UNCHANGED <<task_state, kstate, kpc>>
      BY <2>2, CpuAssumption DEF WakeInv, WakeTypeOK, HasTarget, Announced
    <2>3. CASE UNCHANGED wakeVars
      BY <2>3, WakeStays
    <2>4. QED
      BY <2>1, <2>2, <2>3 DEF HookEnters, HookStep, HookWakes, HookShows, Faults, Shown
  <1>5. LifeFaults'
    BY <1>1, <1>3 DEF LifeFaults
  <1>6. Places'
    BY <1>0, <1>1 DEF ControlByStage, ThreadsServed, StoppedInTurn, HooksWait, TimersLate
  <1>7. QED
    BY <1>1, <1>2, <1>4, <1>5, <1>6

\* A step of a timer keeps the invariant: after the module is gone it runs only late.
LEMMA TimerKeeps ==
  ASSUME LifeInv, NEW x \in Timers, Expire(x) \/ Rearm(x)
  PROVE  LifeInv'
  <1> USE DEF LifeInv, LifeTypes, Places, hookVars, threadVars
  <1>1. UNCHANGED <<wakeVars, life, control, tpc, full, collector, late>>
    BY DEF Expire, Rearm, Faults, Shown
  <1>2. timer' \in [Timers -> {"off", "pending", "running"}] /\ (timer[x] = "off" => timer' = timer)
    BY DEF Expire, Rearm, Faults, Shown
  <1>3. timer[x] # "off"
    BY DEF Expire, Rearm
  <1>4. fault' \in {fault, <<"debug", "null">>, <<"debug", "freed">>, <<"debug", "task">>}
        \/ (life[1] = "gone" /\ fault' \in {<<"packet", "code">>, <<"debug", "code">>})
    BY DEF Expire, Rearm, Faults, Shown, Missing
  <1>5. LifeFaults'
    BY <1>1, <1>3, <1>4 DEF LifeFaults, TimersLate
  <1>6. HooksWait'
    BY <1>1 DEF HooksWait, HookActive, wakeVars
  <1>7. ControlByStage' /\ ThreadsServed' /\ StoppedInTurn' /\ TimersLate'
    BY <1>1, <1>3 DEF ControlByStage, ThreadsServed, StoppedInTurn, TimersLate
  <1>8. QED
    BY <1>1, <1>2, <1>5, <1>6, <1>7, WakeStays

\* The invariant is inductive.
LEMMA LifeKeeps == LifeInv /\ [LifeNext]_lifeVars => LifeInv'
  <1> SUFFICES ASSUME LifeInv, [LifeNext]_lifeVars PROVE LifeInv'
    OBVIOUS
  <1>1. CASE Load \/ Rmmod \/ Unload
    BY <1>1, LoadKeeps, UnloadKeeps
  <1>2. ASSUME NEW t \in Cpus, ThreadStep(t) PROVE LifeInv'
    BY <1>2, ThreadKeeps
  <1>3. ASSUME NEW c \in HookCpus, HookEnters(c) \/ HookStep(c) PROVE LifeInv'
    BY <1>3, HookKeeps, HookCpusAssumption
  <1>4. ASSUME NEW x \in Timers, Expire(x) \/ Rearm(x) PROVE LifeInv'
    BY <1>4, TimerKeeps
  <1>5. CASE UNCHANGED lifeVars
    <2>1. WakeInv' /\ LifeFaults'
      BY <1>5, WakeStays DEF lifeVars, LifeInv, LifeFaults
    <2>2. HooksWait'
      BY <1>5 DEF lifeVars, hookVars, wakeVars, LifeInv, Places, HooksWait, HookActive
    <2>3. QED
      BY <1>5, <2>1, <2>2 DEF lifeVars, hookVars, threadVars, LifeInv, LifeTypes, Places,
         ControlByStage, ThreadsServed, StoppedInTurn, TimersLate
  <1>6. QED
    BY <1>1, <1>2, <1>3, <1>4, <1>5 DEF LifeNext

(* Loading and unloading (wireway_dev.c, filter_func.c) let nobody but     *)
(* hooks and the debug timer use the freed control block or a thread that  *)
(* has ended, in particular no receive thread, and no timer outlives the   *)
(* module but one whose handler ran while it was deleted.                  *)
THEOREM OnlyKnownFaults == LifeSpec => []LifeFaults
  <1>1. LifeInv => LifeFaults
    BY DEF LifeInv
  <1>2. QED
    BY InitLife, LifeKeeps, <1>1, PTL DEF LifeSpec
=============================================================================
