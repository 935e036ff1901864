-------------------------------- MODULE Kernel --------------------------------
(***************************************************************************)
(* The runtime (runtime.c): the loop of runtime_step, one action for each  *)
(* part of an iteration, the shell commands that may run between two ticks, *)
(* and the SIGALRM handler of timer.c, which may run at any time.          *)
(*                                                                         *)
(* As in Executor, workloads are not enumerated: at an instruction boundary *)
(* (remaining[p] = 0) the next instruction is any.  An instruction of IPC, *)
(* synchronisation or memory is one that takes no tick and may wake a      *)
(* process that waits for a resource, or one that blocks (modules Sync and *)
(* Ipc say which).                                                         *)
(***************************************************************************)
EXTENDS Sched

CONSTANTS Commands,       \* the commands that are used
          InitAlgos,      \* the policy that is set right after runtime_init
          DefaultQuantum, \* DEFAULT_QUANTUM
          Quanta,         \* arguments of the quantum command
          Prios,          \* arguments of run and prio
          Nices,          \* arguments of nice
          MaxBurst,       \* bound: ticks of a CPU instruction
          MaxIo,          \* bound: ticks of an IO instruction
          MaxGuard        \* MAX_DISPATCH_GUARD

VARIABLES remaining,  \* remaining[p]: ticks left of the CPU instruction of p
          resched,    \* g_need_resched (nothing sets rt->need_resched)
          armed,      \* the interval timer is armed
          phase,      \* where runtime_step is; "shell" is outside of it
          guard,      \* iterations of the inner loop for this tick
          ran         \* history: CPU ticks of the current process since dispatch

ASSUME KernelAssumption ==
  /\ InitAlgos \subseteq Algos
  /\ DefaultQuantum \in 1 .. MaxQuantum
  /\ Quanta \subseteq 0 .. MaxQuantum
  /\ Prios \subseteq Int /\ Nices \subseteq -20 .. 19
  /\ MaxBurst \in Nat /\ MaxIo \in Nat
  /\ MaxGuard \in Nat \ {0}

loopVars == <<remaining, resched, armed, phase, guard, ran>>
vars == <<state, current, sched, pcb, tick, loopVars>>

\* runtime_init; the policy is then set as bench_one does.
KernelInit ==
  /\ LifecycleInit
  /\ tick = 0
  /\ \E a \in InitAlgos : sched = Cleared(a, DefaultQuantum)
  /\ pcb = [p \in Pid |-> NewPcb(0)]
  /\ remaining = [p \in Pid |-> 0]
  /\ resched = FALSE /\ armed = FALSE
  /\ phase = "shell" /\ guard = 0 /\ ran = 0

\* proc_set_state and proc_mark_exited refuse what is not a valid transition,
\* and most callers do not ask whether they did.
Moved(p, to) ==
  IF ValidTransition(state[p], to) THEN [state EXCEPT ![p] = to] ELSE state

\* enqueue_ready for the members of S, with the scheduler and the PCBs as they
\* are at the call: who cannot become READY is not queued.
EnqueueReady(S, sc, pc) ==
  LET ready == {p \in S : ValidTransition(state[p], "READY")} IN
  /\ state' = [p \in Pid |-> IF p \in ready THEN "READY" ELSE state[p]]
  /\ pcb' = [p \in Pid |-> IF p \in ready THEN [pc[p] EXCEPT !.age = 0] ELSE pc[p]]
  /\ sched' = Enqueued(sc, pcb', ready)

-----------------------------------------------------------------------------
(***************************************************************************)
(* Shell commands                                                          *)
(***************************************************************************)
Command(c) == phase = "shell" /\ c \in Commands

\* runtime_run_workload: proc_create hands out the next pid.
RunWorkload(p, prio) ==
  /\ Command("run")
  /\ \A q \in Pid : q < p => state[q] # "UNUSED"
  /\ state[p] = "UNUSED"
  /\ EnqueueReady({p}, sched, [pcb EXCEPT ![p] = NewPcb(prio)])
  /\ UNCHANGED <<current, tick, loopVars>>

\* Mutants of KillProcess: the queues are not rebuilt; current_pid stays.
KillProcessNoRebuild(p) ==
  /\ Command("kill")
  /\ state[p] # "UNUSED"
  /\ state' = Moved(p, "EXITED")
  /\ current' = IF current = p THEN None ELSE current
  /\ pcb' = [pcb EXCEPT ![p].wakeIn = None, ![p].age = 0]
  /\ remaining' = [remaining EXCEPT ![p] = 0]
  /\ UNCHANGED <<sched, tick, resched, armed, phase, guard, ran>>

KillProcessKeepsCurrent(p) ==
  /\ Command("kill")
  /\ state[p] # "UNUSED"
  /\ state' = Moved(p, "EXITED")
  /\ pcb' = [pcb EXCEPT ![p].wakeIn = None, ![p].age = 0]
  /\ remaining' = [remaining EXCEPT ![p] = 0]
  /\ sched' = Rebuilt(sched, state', pcb')
  /\ UNCHANGED <<current, tick, resched, armed, phase, guard, ran>>

\* runtime_kill: the CPU is taken away before it is known whether p had not
\* exited already; the rebuild drops p from the queues.
KillProcess(p) ==
  /\ Command("kill")
  /\ state[p] # "UNUSED"
  /\ state' = Moved(p, "EXITED")
  /\ current' = IF current = p THEN None ELSE current
  /\ IF ValidTransition(state[p], "EXITED")
     THEN /\ pcb' = [pcb EXCEPT ![p].wakeIn = None, ![p].age = 0]
          /\ remaining' = [remaining EXCEPT ![p] = 0]
          /\ sched' = Rebuilt(sched, state', pcb')
     ELSE UNCHANGED <<pcb, remaining, sched>>
  /\ UNCHANGED <<tick, resched, armed, phase, guard, ran>>

\* runtime_set_scheduler: sched_set_algo forgets who runs.
SetScheduler(a) ==
  /\ Command("sched")
  /\ sched' = Rebuilt(Cleared(a, sched.quantum), state, pcb)
  /\ UNCHANGED <<lifecycleVars, pcb, tick, loopVars>>

SetQuantum(n) ==
  /\ Command("quantum")
  /\ sched' = [sched EXCEPT !.quantum = IF n = 0 THEN 1 ELSE n]
  /\ UNCHANGED <<lifecycleVars, pcb, tick, loopVars>>

\* The heap is not rebuilt here; runtime_step does it before it picks.
SetPriority(p, n) ==
  /\ Command("prio")
  /\ state[p] # "UNUSED"
  /\ pcb' = [pcb EXCEPT ![p].base = Clamp(n), ![p].prio = Clamp(n)]
  /\ UNCHANGED <<lifecycleVars, sched, tick, loopVars>>

SetNice(p, n) ==
  /\ Command("nice")
  /\ state[p] # "UNUSED"
  /\ pcb' = [pcb EXCEPT ![p].prio = Clamp(pcb[p].base + n)]
  /\ UNCHANGED <<lifecycleVars, sched, tick, loopVars>>

\* timer_start forgets a pending reschedule request of the timer.
Start ==
  /\ Command("start")
  /\ armed' = TRUE
  /\ resched' = FALSE
  /\ UNCHANGED <<lifecycleVars, sched, pcb, tick, remaining, phase, guard, ran>>

\* timer_stop leaves it pending.
Stop ==
  /\ Command("stop")
  /\ armed' = FALSE
  /\ UNCHANGED <<lifecycleVars, sched, pcb, tick, remaining, resched, phase, guard, ran>>

\* on_sigalrm
Sigalrm ==
  /\ armed
  /\ resched' = TRUE
  /\ UNCHANGED <<lifecycleVars, sched, pcb, tick, remaining, armed, phase, guard, ran>>

\* runtime_step for one tick.  A step of n ticks is n of these.
Step ==
  /\ phase = "shell"
  /\ phase' = "wake" /\ guard' = 1
  /\ UNCHANGED <<lifecycleVars, sched, pcb, tick, remaining, resched, armed, ran>>

-----------------------------------------------------------------------------
(***************************************************************************)
(* An iteration of the inner loop of runtime_step                          *)
(***************************************************************************)
Due == {p \in Pid : state[p] = "BLOCKED" /\ pcb[p].wakeIn = 0}

Woken == [p \in Pid |-> IF p \in Due THEN [pcb[p] EXCEPT !.wakeIn = None, !.age = 0]
                        ELSE pcb[p]]

\* Mutants of WakeAndAge: the queues are rebuilt for every policy; for none.
WakeAndAgeRebuilds ==
  /\ phase = "wake"
  /\ state' = [p \in Pid |-> IF p \in Due THEN "READY" ELSE state[p]]
  /\ pcb' = [p \in Pid |-> [Woken[p] EXCEPT !.prio = AgedPrio(Woken, p)]]
  /\ sched' = Rebuilt(sched, state', pcb')
  /\ phase' = IF current = None THEN "dispatch" ELSE "exec"
  /\ UNCHANGED <<current, tick, remaining, resched, armed, guard, ran>>

WakeAndAgeNoRebuild ==
  /\ phase = "wake"
  /\ state' = [p \in Pid |-> IF p \in Due THEN "READY" ELSE state[p]]
  /\ pcb' = [p \in Pid |-> [Woken[p] EXCEPT !.prio = AgedPrio(Woken, p)]]
  /\ sched' = Enqueued(sched, Woken, Due)
  /\ phase' = IF current = None THEN "dispatch" ELSE "exec"
  /\ UNCHANGED <<current, tick, remaining, resched, armed, guard, ran>>

\* wake_blocked_by_time, sched_age_ready, and the rebuild or boost.  Under PRIO
\* the heap is made anew in every iteration, with the keys of this moment.
WakeAndAge ==
  /\ phase = "wake"
  /\ state' = [p \in Pid |-> IF p \in Due THEN "READY" ELSE state[p]]
  /\ pcb' = [p \in Pid |->
               [Woken[p] EXCEPT
                  !.prio = AgedPrio(Woken, p),
                  !.level = IF BoostDue /\ state[p] # "EXITED" THEN 0 ELSE @]]
  /\ sched' = IF sched.algo = "PRIO" \/ BoostDue
              THEN Rebuilt([sched EXCEPT !.sinceBoost = 0], state', pcb')
              ELSE Enqueued(sched, Woken, Due)
  /\ phase' = IF current = None THEN "dispatch" ELSE "exec"
  /\ UNCHANGED <<current, tick, remaining, resched, armed, guard, ran>>

\* dispatch finds nobody: an idle tick.
IdleTick ==
  /\ phase = "dispatch"
  /\ NothingToPick
  /\ sched' = Ticked(PickedNone)
  /\ pcb' = AfterTick(pcb)
  /\ tick' = Later(tick)
  /\ phase' = "shell" /\ guard' = 0
  /\ UNCHANGED <<lifecycleVars, remaining, resched, armed, ran>>

\* dispatch: sched_pick_next returns a READY process, which may become RUNNING.
DispatchNext(p) ==
  /\ phase = "dispatch"
  /\ PickNext(p)
  /\ state' = Moved(p, "RUNNING")
  /\ current' = p
  /\ phase' = "exec" /\ ran' = 0
  /\ UNCHANGED <<pcb, tick, remaining, resched, armed, guard>>

\* The current instruction of p is CPU, with n ticks to go; one of them passes.
CpuTick(p, n) ==
  /\ phase = "exec" /\ current = p
  /\ remaining[p] \in {0, n}
  /\ remaining' = [remaining EXCEPT ![p] = n - 1]
  /\ tick' = Later(tick)
  /\ ran' = Counted(ran)
  /\ phase' = "shell" /\ guard' = 0
  /\ UNCHANGED armed

\* maybe_preempt finds a reason after the tick.
Preempting(p) == resched \/ ShouldPreempt(OnTick(sched, p), p)

CpuContinues(p, n) ==
  /\ CpuTick(p, n)
  /\ ~ Preempting(p)
  /\ sched' = Ticked(OnTick(sched, p))
  /\ pcb' = AfterTick(pcb)
  /\ UNCHANGED <<lifecycleVars, resched>>

CpuPreempted(p, n) ==
  /\ CpuTick(p, n)
  /\ Preempting(p)
  /\ EnqueueReady({p}, Ticked(OnTick(sched, p)),
                  [AfterTick(pcb) EXCEPT ![p].level = DemotedLevel(@)])
  /\ current' = None
  /\ resched' = FALSE

\* execute_instruction returned false: once more, unless the guard ran out.
NoTick ==
  /\ phase' = IF guard < MaxGuard THEN "wake" ELSE "shell"
  /\ guard' = IF guard < MaxGuard THEN guard + 1 ELSE 0
  /\ UNCHANGED <<tick, remaining, resched, armed, ran>>

Executes(p) == phase = "exec" /\ current = p /\ remaining[p] = 0

\* block_current and exit_current: current_pid is reset in any case.
LeaveCpu(p, to) == state' = Moved(p, to) /\ current' = None

IoStart(p, n) ==
  /\ Executes(p)
  /\ LeaveCpu(p, "BLOCKED")
  /\ pcb' = [pcb EXCEPT ![p].wakeIn = n, ![p].age = 0]
  /\ UNCHANGED sched
  /\ NoTick

\* An instruction that finds its resource; S holds the process it wakes, if any.
Immediate(p, S) ==
  /\ Executes(p)
  /\ EnqueueReady(S, sched, pcb)
  /\ UNCHANGED current
  /\ NoTick

\* An instruction that must wait for its resource.
ResourceWait(p) ==
  /\ Executes(p)
  /\ LeaveCpu(p, "BLOCKED")
  /\ pcb' = [pcb EXCEPT ![p].age = 0]
  /\ UNCHANGED sched
  /\ NoTick

\* EXIT, and every error that ends the process.
ExitInsn(p) ==
  /\ Executes(p)
  /\ LeaveCpu(p, "EXITED")
  /\ pcb' = [pcb EXCEPT ![p].age = 0]
  /\ UNCHANGED sched
  /\ NoTick

\* The processes that wait for a resource, one at most.
Wakeable ==
  {{}} \cup {{p} : p \in {q \in Pid : state[q] = "BLOCKED" /\ pcb[q].wakeIn = None}}

-----------------------------------------------------------------------------
Execute(p) ==
  \/ \E n \in 1 .. MaxBurst : CpuContinues(p, n) \/ CpuPreempted(p, n)
  \/ \E n \in 1 .. MaxIo : IoStart(p, n)
  \/ \E S \in Wakeable : Immediate(p, S)
  \/ ResourceWait(p)
  \/ ExitInsn(p)

ShellCommand ==
  \/ \E p \in Pid, n \in Prios : RunWorkload(p, n) \/ SetPriority(p, n)
  \/ \E p \in Pid : KillProcess(p)
  \/ \E a \in Algos : SetScheduler(a)
  \/ \E n \in Quanta : SetQuantum(n)
  \/ \E p \in Pid, n \in Nices : SetNice(p, n)
  \/ Start
  \/ Stop

Loop == WakeAndAge \/ IdleTick \/ \E p \in Pid : DispatchNext(p) \/ Execute(p)

KernelNext == Step \/ Loop \/ ShellCommand \/ Sigalrm

KernelSpec == KernelInit /\ [][KernelNext]_vars

\* Somebody keeps stepping the runtime, and a workload is finite (at most 128
\* instructions, the last one EXIT): a process that is executed again and again
\* uses ticks or exits.
FairSpec ==
  /\ KernelSpec
  /\ WF_vars(Step) /\ WF_vars(Loop)
  /\ \A p \in Pid :
       SF_vars(ExitInsn(p) \/ \E n \in 1 .. MaxBurst : CpuContinues(p, n) \/ CpuPreempted(p, n))

-----------------------------------------------------------------------------
KernelTypeOK ==
  /\ LifecycleTypeOK
  /\ sched \in [algo : Algos, quantum : 1 .. MaxQuantum, queue : [Level -> Seq(Pid)],
                current : Pid \cup {None}, consumed : 0 .. MaxQuantum,
                sinceBoost : 0 .. BoostInterval]
  /\ pcb \in [Pid -> [prio : 0 .. MaxPrio, base : 0 .. MaxPrio, level : Level,
                      age : 0 .. MaxAge, wakeIn : (0 .. MaxIo) \cup {None}]]
  /\ tick \in 0 .. BoostInterval
  /\ remaining \in [Pid -> 0 .. MaxBurst]
  /\ resched \in BOOLEAN /\ armed \in BOOLEAN
  /\ phase \in {"shell", "wake", "dispatch", "exec"}
  /\ guard \in 0 .. MaxGuard
  /\ ran \in 0 .. MaxQuantum

\* The ready queues hold the READY processes and nothing else: a READY process
\* is queued once, on the level it belongs to, so that it can be picked, and no
\* process that has blocked, exited, been killed or been dispatched is left in
\* a queue (enqueue_ready against sched_pick_next, runtime_kill,
\* runtime_set_scheduler and the boost).
ReadyIffQueued ==
  \A p \in Pid, l \in Level :
    Cardinality({i \in DOMAIN sched.queue[l] : sched.queue[l][i] = p})
      = IF state[p] = "READY" /\ QueueOf(sched.algo, pcb, p) = l THEN 1 ELSE 0

\* "RR: bounded quantum" (README.md:113), and the same for the other preemptive
\* policies: a process leaves the CPU after at most as many ticks as the
\* greatest quantum that is ever set (the quantum command may raise or lower it
\* while the process runs).
QuantumEnforced == current # None /\ sched.algo # "FCFS" => ran < MaxQuantum

Before(p, q) ==
  \E i, j \in DOMAIN sched.queue[0] :
    i < j /\ sched.queue[0][i] = p /\ sched.queue[0][j] = q

\* The FIFO policies are FIFO: whatever runtime_step wakes, dispatches, preempts
\* or blocks, of two processes that stay READY the one that was readied first
\* stays ahead.  (runtime_kill and runtime_set_scheduler, which the shell calls
\* between two steps, rebuild the queue in the order of the process table.)
FifoOrder ==
  [][phase # "shell" /\ sched.algo \in {"FCFS", "RR"} =>
       \A p, q \in Pid :
         Before(p, q) /\ state'[p] = "READY" /\ state'[q] = "READY" => Before(p, q)']_vars

\* A process of the least priority runs: at a dispatch under PRIO nobody who is
\* READY should have gone first (heap_pop takes the root of an array).  Aging and
\* the prio and nice commands change the keys of the heap without touching it,
\* so this needs the rebuild of runtime.c:504-505 as well as heap_push.
LeastPriorityRuns ==
  [][sched.algo = "PRIO" /\ current = None /\ current' # None =>
       \A p \in Pid : state[p] = "READY" => pcb[p].prio >= pcb[current'].prio]_vars

\* A process whose IO time is over becomes READY.
IoEnds == \A p \in Pid : pcb[p].wakeIn # None ~> state[p] # "BLOCKED"

\* Nobody starves: a READY process runs, or is killed.
NoStarvation == \A p \in Pid : state[p] = "READY" ~> state[p] # "READY"
=============================================================================
