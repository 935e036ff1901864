-------------------------------- MODULE Session --------------------------------
(***************************************************************************)
(* A shell session as the process table sees it: proc.c with its pid index, *)
(* stacks and address spaces, the runtime's own slots and index beside it, *)
(* the accounting of ticks, the trace log (log.c), and the commands of     *)
(* shell.c that create, kill, step, reset and quit.                        *)
(*                                                                         *)
(* The scheduling policy is left open: any READY process may be dispatched *)
(* and any CPU tick may end with a preemption (modules Sched and Kernel say *)
(* which).  Workloads are CPU, IO and EXIT, loaded from files; a process   *)
(* that comes to another instruction has no step here, so what is shown is *)
(* about files of these three.                                             *)
(***************************************************************************)
EXTENDS Workload, FiniteSetsExt

CONSTANTS MaxProcs,   \* MOSRT_MAX_PROCS
          MaxEvents,  \* MOSRT_MAX_TRACE_EVENTS
          Files,      \* the files that a candidate path may name
          MaxPid,     \* bound: the last pid handed out between two resets
          MaxTick     \* bound: the ticks between two resets

VARIABLES procs,      \* g_ptable, and the stacks and address spaces in use
          rt,         \* runtime_t, with g_slot_by_pid
          trace,      \* trace_log_t
          mode        \* "shell" reads commands, "step" is in runtime_step, "quit"

sessionVars == <<procs, rt, trace, mode>>

ASSUME SessionAssumption ==
  /\ MaxProcs \in Nat \ {0} /\ MaxEvents \in Nat
  /\ MaxPid \in Nat /\ MaxTick \in 0 .. Modulus - 1
  /\ Files \ {NoFile} \subseteq Seq(Line)

NoPid == -1
NoSlot == -1
Never == -1    \* response_time = UINT64_MAX

Slots == 0 .. MaxProcs - 1
Indexed == 1 .. MaxProcs    \* the pids that have a place in the two indexes

-----------------------------------------------------------------------------
(***************************************************************************)
(* proc.c.  ps is the value of procs.                                      *)
(***************************************************************************)
NoPcb == [used |-> FALSE, pid |-> 0, state |-> "NEW", stack |-> FALSE, vm |-> FALSE,
          start |-> 0, finish |-> 0, response |-> 0, cpu |-> 0, wait |-> 0,
          wakeup |-> 0, code |-> 0,
          slept |-> 0]   \* history: ticks spent BLOCKED

\* memset, as proc_table_init leaves it.
NoProcs == [entries |-> [s \in Slots |-> NoPcb], nextPid |-> 1,
            index |-> [p \in Indexed |-> NoSlot], stacks |-> {}, vms |-> {}]

\* find_slot_by_pid
FindSlot(ps, pid) ==
  IF /\ pid \in Indexed /\ pid < ps.nextPid
     /\ ps.index[pid] # NoSlot
     /\ ps.entries[ps.index[pid]].used /\ ps.entries[ps.index[pid]].pid = pid
  THEN ps.index[pid] ELSE NoSlot

Found(ps, pid) == FindSlot(ps, pid) # NoSlot
Get(ps, pid) == ps.entries[FindSlot(ps, pid)]

FreeEntries(ps) == {s \in Slots : ~ ps.entries[s].used}

\* proc_create, when there is a free entry and stack_alloc gave a stack.
ProcCreate(ps, now) ==
  LET s == Min(FreeEntries(ps))
      pid == ps.nextPid IN
  [ps EXCEPT !.entries[s] = [NoPcb EXCEPT !.used = TRUE, !.pid = pid, !.stack = TRUE,
                                          !.start = now, !.response = Never],
             !.nextPid = @ + 1,
             !.index = [p \in Indexed |-> IF p = pid THEN s ELSE @[p]],
             !.stacks = @ \cup {pid}]

\* Mutant of ReleaseStack: the mapping is forgotten and not unmapped.
ReleaseStackForgets(ps, s) == [ps EXCEPT !.entries[s].stack = FALSE]

\* release_stack
ReleaseStack(ps, s) ==
  [ps EXCEPT !.entries[s].stack = FALSE,
             !.stacks = IF ps.entries[s].stack THEN @ \ {ps.entries[s].pid} ELSE @]

\* vm_proc_destroy
ReleaseVm(ps, s) ==
  [ps EXCEPT !.entries[s].vm = FALSE,
             !.vms = IF ps.entries[s].vm THEN @ \ {ps.entries[s].pid} ELSE @]

\* proc_set_state along an edge of proc_is_valid_transition
SetState(ps, pid, new, now) ==
  LET e == Get(ps, pid) IN
  [ps EXCEPT !.entries[FindSlot(ps, pid)] =
     [e EXCEPT !.state = new,
               !.response = IF new = "RUNNING" /\ @ = Never THEN now - e.start ELSE @]]

\* proc_mark_exited
MarkExited(ps, pid, code, now) ==
  LET s == FindSlot(ps, pid) IN
  ReleaseStack([ps EXCEPT !.entries[s] = [@ EXCEPT !.code = code, !.finish = now,
                                                   !.state = "EXITED", !.wakeup = 0]], s)

\* proc_destroy, for a pid that proc_get finds
ProcDestroy(ps, pid, code) ==
  LET s == FindSlot(ps, pid)
      freed == ReleaseVm(ReleaseStack(ps, s), s) IN
  [freed EXCEPT !.entries[s] = [@ EXCEPT !.code = code, !.state = "EXITED", !.used = FALSE],
                !.index[pid] = NoSlot]

\* proc_table_shutdown: vm_proc_destroy and release_stack for every entry.
Shutdown(ps) ==
  [ps EXCEPT !.entries = [s \in Slots |-> [@[s] EXCEPT !.stack = FALSE, !.vm = FALSE]],
             !.stacks = @ \ {ps.entries[s].pid : s \in {t \in Slots : ps.entries[t].stack}},
             !.vms = @ \ {ps.entries[s].pid : s \in {t \in Slots : ps.entries[t].vm}}]

\* account_ready_wait for every process, and the history of BLOCKED ticks.
Accounted(entries) ==
  [s \in Slots |->
     LET e == entries[s] IN
     [e EXCEPT !.wait = IF e.used /\ e.state = "READY" THEN @ + 1 ELSE @,
               !.slept = IF e.used /\ e.state = "BLOCKED" THEN @ + 1 ELSE @]]

-----------------------------------------------------------------------------
(***************************************************************************)
(* log.c.  Of the events the log holds, says keeps what the last one about *)
(* a change of state says of each process.                                 *)
(***************************************************************************)
Meaning == [READY |-> "READY", DISPATCH |-> "RUNNING", BLOCK |-> "BLOCKED",
            EXIT |-> "EXITED", KILL |-> "EXITED"]

NoTrace == [count |-> 0, dropped |-> FALSE, says |-> [p \in 1 .. MaxPid |-> "NEW"]]

\* trace_event: the first MaxEvents events are kept, the others are counted.
Traced(tr, pid, event) ==
  IF tr.count < MaxEvents
  THEN [tr EXCEPT !.count = @ + 1,
                  !.says = IF event \in DOMAIN Meaning
                           THEN [@ EXCEPT ![pid] = Meaning[event]] ELSE @]
  ELSE [tr EXCEPT !.dropped = TRUE]

\* Two calls of trace_event in one handler.
TracedBoth(tr, pid, first, second) == Traced(Traced(tr, pid, first), pid, second)

-----------------------------------------------------------------------------
(***************************************************************************)
(* Commands                                                                *)
(***************************************************************************)
EmptySlot == [used |-> FALSE, pid |-> 0, program |-> <<>>, pc |-> 1, left |-> 0]

Idle == [tick |-> 0, started |-> FALSE, current |-> NoPid, busy |-> 0, idle |-> 0,
         slots |-> [s \in Slots |-> EmptySlot], index |-> [p \in Indexed |-> NoSlot]]

\* shell_run_repl, runtime_init
SessionInit ==
  /\ procs = NoProcs
  /\ rt = Idle
  /\ trace = NoTrace
  /\ mode = "shell"

\* slot_index
SlotIndex(pid) ==
  IF /\ pid \in Indexed /\ rt.index[pid] # NoSlot
     /\ rt.slots[rt.index[pid]].used /\ rt.slots[rt.index[pid]].pid = pid
  THEN rt.index[pid] ELSE NoSlot

FreeSlots == {s \in Slots : ~ rt.slots[s].used}

\* The programs that the three candidates of a path can give.
Programs == UNION {Taken(c) : c \in [1 .. 3 -> Files]}

\* alloc_slot
AllocSlot(pid, program) ==
  LET i == Min(FreeSlots) IN
  rt' = [rt EXCEPT !.slots[i] = [EmptySlot EXCEPT !.used = TRUE, !.pid = pid, !.program = program],
                   !.index = [p \in Indexed |-> IF p = pid THEN i ELSE @[p]]]

\* Mutant of Populate: the slot is allocated before the address space.
PopulateSlotFirst(made, pid, program, vmFails) ==
  LET s == FindSlot(made, pid)
      owned == IF s = NoSlot \/ vmFails THEN made
               ELSE [made EXCEPT !.entries[s].vm = TRUE, !.vms = @ \cup {pid}] IN
  /\ FreeSlots # {}
  /\ AllocSlot(pid, program)
  /\ procs' = IF s # NoSlot /\ vmFails THEN ProcDestroy(owned, pid, 1)
              ELSE IF s = NoSlot THEN owned ELSE SetState(owned, pid, "READY", rt.tick)
  /\ trace' = IF s = NoSlot THEN Traced(trace, pid, "CREATE")
                 ELSE TracedBoth(trace, pid, "READY", "CREATE")

\* runtime_run_workload once proc_create has made pid, in made.  A pid without a
\* place in the index is not found again: it gets a slot, but no address space,
\* and enqueue_ready does nothing.
Populate(made, pid, program, vmFails) ==
  LET s == FindSlot(made, pid)
      owned == IF s = NoSlot \/ vmFails THEN made
               ELSE [made EXCEPT !.entries[s].vm = TRUE, !.vms = @ \cup {pid}] IN
  IF (s # NoSlot /\ vmFails) \/ FreeSlots = {}
  THEN /\ procs' = ProcDestroy(owned, pid, 1)
       /\ UNCHANGED <<rt, trace>>
  ELSE /\ AllocSlot(pid, program)
       /\ procs' = IF s = NoSlot THEN owned ELSE SetState(owned, pid, "READY", rt.tick)
       /\ trace' = IF s = NoSlot THEN Traced(trace, pid, "CREATE")
                 ELSE TracedBoth(trace, pid, "READY", "CREATE")

\* cmd_run.  A file that does not load, a full table and a stack that cannot be
\* mapped leave everything as it is; vm_proc_init may run out of memory.
RunWorkload(program, vmFails) ==
  /\ mode = "shell"
  /\ procs.nextPid <= MaxPid
  /\ FreeEntries(procs) # {}
  /\ Populate(ProcCreate(procs, rt.tick), procs.nextPid, program, vmFails)
  /\ UNCHANGED mode

\* Mutant of Kill: no event is traced.
KillUntraced(pid) ==
  /\ mode = "shell"
  /\ Found(procs, pid) /\ Get(procs, pid).state # "EXITED"
  /\ procs' = MarkExited(procs, pid, 130, rt.tick)
  /\ rt' = [rt EXCEPT !.current = IF @ = pid THEN NoPid ELSE @,
                      !.slots = [i \in Slots |-> IF i = SlotIndex(pid) THEN EmptySlot ELSE @[i]],
                      !.index = IF SlotIndex(pid) = NoSlot THEN @ ELSE [@ EXCEPT ![pid] = NoSlot]]
  /\ UNCHANGED <<trace, mode>>

\* cmd_kill, runtime_kill
Kill(pid) ==
  /\ mode = "shell"
  /\ Found(procs, pid) /\ Get(procs, pid).state # "EXITED"
  /\ procs' = MarkExited(procs, pid, 130, rt.tick)
  /\ rt' = [rt EXCEPT !.current = IF @ = pid THEN NoPid ELSE @,
                      !.slots = [i \in Slots |-> IF i = SlotIndex(pid) THEN EmptySlot ELSE @[i]],
                      !.index = IF SlotIndex(pid) = NoSlot THEN @ ELSE [@ EXCEPT ![pid] = NoSlot]]
  /\ trace' = Traced(trace, pid, "KILL")
  /\ UNCHANGED mode

\* cmd_start and cmd_stop
SetStarted(b) ==
  /\ mode = "shell"
  /\ rt' = [rt EXCEPT !.started = b]
  /\ UNCHANGED <<procs, trace, mode>>

\* cmd_reset: runtime_shutdown, runtime_init.  cmd_bench ends the same way: each
\* bench_one starts with runtime_init on the one process table there is.
Reset ==
  LET gone == Shutdown(procs) IN
  /\ mode = "shell"
  /\ procs' = [NoProcs EXCEPT !.stacks = gone.stacks, !.vms = gone.vms]
  /\ rt' = Idle
  /\ trace' = NoTrace
  /\ UNCHANGED mode

\* exit and quit call runtime_shutdown, and shell_run_repl calls it once more.
Quit ==
  /\ mode = "shell"
  /\ procs' = Shutdown(Shutdown(procs))
  /\ rt' = [rt EXCEPT !.started = FALSE, !.current = NoPid]
  /\ mode' = "quit"
  /\ UNCHANGED trace

-----------------------------------------------------------------------------
(***************************************************************************)
(* cmd_step: the loop of runtime_step                                      *)
(***************************************************************************)
\* A step of n ticks is n of these.
Step ==
  /\ mode = "shell" /\ rt.started
  /\ rt.tick < MaxTick
  /\ mode' = "step"
  /\ UNCHANGED <<procs, rt, trace>>

Due ==
  {s \in Slots : LET e == procs.entries[s] IN
     e.used /\ e.state = "BLOCKED" /\ e.wakeup \in 1 .. rt.tick}

\* wake_blocked_by_time for one process; the others follow before anything else.
WakeDue(s) ==
  LET pid == procs.entries[s].pid IN
  /\ mode = "step"
  /\ s \in Due
  /\ procs' = SetState([procs EXCEPT !.entries[s].wakeup = 0], pid, "READY", rt.tick)
  /\ trace' = TracedBoth(trace, pid, "READY", "WAKE")
  /\ UNCHANGED <<rt, mode>>

Ready == {s \in Slots : procs.entries[s].used /\ procs.entries[s].state = "READY"}

\* dispatch; the context that is switched to logs once and switches back.
Dispatch(s) ==
  LET pid == procs.entries[s].pid IN
  /\ mode = "step" /\ Due = {}
  /\ rt.current = NoPid
  /\ s \in Ready
  /\ procs' = SetState(procs, pid, "RUNNING", rt.tick)
  /\ rt' = [rt EXCEPT !.current = pid]
  /\ trace' = TracedBoth(trace, pid, "DISPATCH", "CTXSW")
  /\ UNCHANGED mode

\* dispatch found nobody.
IdleTick ==
  /\ mode = "step" /\ Due = {}
  /\ rt.current = NoPid /\ Ready = {}
  /\ procs' = [procs EXCEPT !.entries = Accounted(@)]
  /\ rt' = [rt EXCEPT !.idle = @ + 1, !.tick = @ + 1]
  /\ trace' = Traced(trace, NoPid, "IDLE")
  /\ mode' = "shell"

\* The slot of the process that runs, and the instruction at its pc.
Current == rt.slots[SlotIndex(rt.current)]
Op == Current.program[Current.pc].op
Ticks == Current.program[Current.pc].args[1]

\* execute_instruction gives up on the process, or its instruction is EXIT.
ExitCode ==
  IF SlotIndex(rt.current) = NoSlot THEN {1}
  ELSE IF Current.pc > Len(Current.program) \/ Op = "EXIT" THEN {0}
  ELSE IF Op = "CPU" /\ Current.left = 0 /\ Ticks = 0 THEN {1}
  ELSE {}

Executing == mode = "step" /\ Due = {} /\ rt.current # NoPid

\* exit_current: the runtime's slot stays in use, as the process's entry does.
ExitCurrent ==
  \E code \in ExitCode :
    /\ Executing
    /\ procs' = MarkExited(procs, rt.current, code, rt.tick)
    /\ rt' = [rt EXCEPT !.current = NoPid]
    /\ trace' = Traced(trace, rt.current, "EXIT")
    /\ UNCHANGED mode

\* Mutant of CpuTick: the READY processes are accounted after the preemption.
CpuTickLate(preempt) ==
  LET pid == rt.current
      i == SlotIndex(pid)
      left == (IF Current.left = 0 THEN Ticks ELSE Current.left) - 1
      pc == IF left = 0 THEN Current.pc + 1 ELSE Current.pc
      worked == [procs EXCEPT !.entries[FindSlot(procs, pid)].cpu = @ + 1]
      after == IF preempt THEN SetState(worked, pid, "READY", rt.tick + 1) ELSE worked IN
  /\ Executing /\ ExitCode = {} /\ Op = "CPU"
  /\ procs' = [after EXCEPT !.entries = Accounted(@)]
  /\ rt' = [rt EXCEPT !.busy = @ + 1, !.tick = @ + 1,
                      !.slots[i] = [@ EXCEPT !.left = left, !.pc = pc],
                      !.current = IF preempt THEN NoPid ELSE @]
  /\ trace' = LET tr == Traced(trace, pid, "CPU") IN
              IF preempt THEN TracedBoth(tr, pid, "READY", "YIELD") ELSE tr
  /\ mode' = "shell"

\* WORKLOAD_CPU: one tick, after which maybe_preempt may put the process back.
CpuTick(preempt) ==
  LET pid == rt.current
      i == SlotIndex(pid)
      left == (IF Current.left = 0 THEN Ticks ELSE Current.left) - 1
      pc == IF left = 0 THEN Current.pc + 1 ELSE Current.pc
      waited == [procs EXCEPT !.entries = Accounted(@)]
      worked == [waited EXCEPT !.entries[FindSlot(procs, pid)].cpu = @ + 1] IN
  /\ Executing /\ ExitCode = {} /\ Op = "CPU"
  /\ procs' = IF preempt THEN SetState(worked, pid, "READY", rt.tick + 1) ELSE worked
  /\ rt' = [rt EXCEPT !.busy = @ + 1, !.tick = @ + 1,
                      !.slots[i] = [@ EXCEPT !.left = left, !.pc = pc],
                      !.current = IF preempt THEN NoPid ELSE @]
  /\ trace' = LET tr == Traced(trace, pid, "CPU") IN
              IF preempt THEN TracedBoth(tr, pid, "READY", "YIELD") ELSE tr
  /\ mode' = "shell"

\* WORKLOAD_IO: wakeup_tick wraps, pc is advanced, block_current.
IoStart ==
  LET pid == rt.current
      s == FindSlot(procs, pid) IN
  /\ Executing /\ ExitCode = {} /\ Op = "IO"
  /\ procs' = SetState([procs EXCEPT !.entries[s].wakeup = (rt.tick + Ticks) % Modulus],
                       pid, "BLOCKED", rt.tick)
  /\ rt' = [rt EXCEPT !.current = NoPid, !.slots[SlotIndex(pid)].pc = @ + 1]
  /\ trace' = Traced(trace, pid, "BLOCK")
  /\ UNCHANGED mode

-----------------------------------------------------------------------------
SessionNext ==
  \/ \E program \in Programs, vmFails \in BOOLEAN : RunWorkload(program, vmFails)
  \/ \E pid \in 1 .. MaxPid : Kill(pid)
  \/ \E b \in BOOLEAN : SetStarted(b)
  \/ Reset
  \/ Quit
  \/ Step
  \/ \E s \in Slots : WakeDue(s) \/ Dispatch(s)
  \/ IdleTick
  \/ ExitCurrent
  \/ \E preempt \in BOOLEAN : CpuTick(preempt)
  \/ IoStart

SessionSpec == SessionInit /\ [][SessionNext]_sessionVars

-----------------------------------------------------------------------------
Used == {s \in Slots : procs.entries[s].used}

\* The process table, its pid index, the runtime's slots and their own index
\* stay together through failed runs, kills and exits (runtime.c:43, "Mirrors
\* proc.c pid_to_slot"): proc_get finds every process whose pid has a place in
\* the index, a live process finds its program, and a free entry of the process
\* table means a free slot, so that alloc_slot never fails after proc_create.
TablesAgree ==
  mode # "quit" =>
    /\ \A s \in Used : procs.entries[s].pid \in Indexed =>
         FindSlot(procs, procs.entries[s].pid) = s
    /\ \A s \in Used : procs.entries[s].state \in {"READY", "RUNNING", "BLOCKED"} =>
         SlotIndex(procs.entries[s].pid) # NoSlot
    /\ Used # Slots => FreeSlots # {}
    /\ rt.current # NoPid => Found(procs, rt.current) /\ Get(procs, rt.current).state = "RUNNING"

\* Every stack that is mapped belongs to one process that has not exited, and
\* every address space to one entry of the table; nothing is left when the shell
\* has quit (release_stack and vm_proc_destroy on each of the ways out: a failed
\* run, a kill, an exit, a reset, a quit).
ResourcesOwned ==
  /\ procs.stacks = {procs.entries[s].pid : s \in
       {t \in Used : mode # "quit" /\ procs.entries[t].state # "EXITED"}}
  /\ procs.vms = {procs.entries[s].pid : s \in
       {t \in Used : mode # "quit" /\ procs.entries[t].pid \in Indexed}}

\* Every tick of a process's life is accounted once, as CPU, as waiting or as
\* sleep, and every tick of the runtime as busy or idle; the turnaround time
\* that the metrics print is the sum (collect_metrics, runtime_print_metrics).
TicksAccounted ==
  /\ rt.tick = rt.busy + rt.idle
  /\ \A s \in Used :
       LET e == procs.entries[s]
           end == IF e.state = "EXITED" THEN e.finish ELSE rt.tick IN
       e.pid \in Indexed =>
         /\ end - e.start = e.cpu + e.wait + e.slept
         /\ e.response # Never => e.response \in 0 .. end - e.start

\* The trace tells the truth: as long as no event was dropped, the last event of
\* a process that speaks of its state gives the state it is in.
TraceReplays ==
  ~ trace.dropped =>
    \A s \in Used : trace.says[procs.entries[s].pid] = procs.entries[s].state

\* A process ends with EXIT or is killed: execute_instruction never gives up on
\* one because its slot, its program or a burst is missing.
NoInternalExit ==
  \A s \in Used : procs.entries[s].state = "EXITED" => procs.entries[s].code \in {0, 130}
=============================================================================
