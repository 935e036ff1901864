------------------------------- MODULE Executor -------------------------------
(***************************************************************************)
(* The frame that every workload instruction runs in (execute_instruction  *)
(* and the helpers it calls, runtime.c:141-189), for any scheduling policy: *)
(* dispatch may pick any READY process, and a CPU tick may or may not end  *)
(* with a preemption.  The modules of the blocking instructions add theirs *)
(* to this frame.                                                          *)
(*                                                                         *)
(* Workloads are not enumerated.  A process with insn[p] = None is between *)
(* instructions and its next one is any instruction; insn[p] = i is an     *)
(* instruction that blocked without advancing pc and is executed again,    *)
(* unchanged, when the process runs next.                                  *)
(***************************************************************************)
EXTENDS Lifecycle, Naturals

VARIABLES insn,     \* insn[p]: the instruction p is blocked in or must retry
          exitCode  \* exitCode[p]: pcb_t.exit_code, None while p is alive

executorVars == <<state, current, insn, exitCode>>

KilledCode == 130

ExecutorInit ==
  /\ LifecycleInit
  /\ insn = [p \in Pid |-> None]
  /\ exitCode = [p \in Pid |-> None]

\* p runs, and i is the instruction at its pc.
Executing(p, i) == current = p /\ insn[p] \in {None, i}

\* wake_pid for every member of S, then complete_immediate: p stays RUNNING
\* with pc advanced.
Complete(p, S) ==
  /\ Wake(S)
  /\ insn' = [insn EXCEPT ![p] = None]
  /\ UNCHANGED exitCode

\* block_current without complete_immediate: pc still points at i.
BlockIn(p, i) ==
  /\ Leave(p, "BLOCKED")
  /\ insn' = [insn EXCEPT ![p] = i]
  /\ UNCHANGED exitCode

\* exit_current: the PCB is kept, with its exit code.
ExitWith(p, code) ==
  /\ Leave(p, "EXITED")
  /\ insn' = [insn EXCEPT ![p] = None]
  /\ exitCode' = [exitCode EXCEPT ![p] = code]

\* WORKLOAD_EXIT, and pc past the last instruction.
ExitInsn(p) == insn[p] = None /\ ExitWith(p, 0)

\* WORKLOAD_CPU when maybe_preempt finds a reason to preempt.  (When it finds
\* none, nothing modelled here changes.)
CpuPreempted(p) ==
  /\ insn[p] = None
  /\ Leave(p, "READY")
  /\ UNCHANGED <<insn, exitCode>>

\* WORKLOAD_IO: pc is advanced before the process sleeps.
IoStart(p) ==
  /\ insn[p] = None
  /\ Leave(p, "BLOCKED")
  /\ UNCHANGED <<insn, exitCode>>

\* wake_blocked_by_time: only a process in IO has a wakeup_tick.
IoDone(p) ==
  /\ state[p] = "BLOCKED"
  /\ insn[p] = None
  /\ Wake({p})
  /\ UNCHANGED <<insn, exitCode>>

\* runtime_kill.  IPC and synchronisation objects are not touched.
KillCommand(p) ==
  /\ Kill(p)
  /\ insn' = [insn EXCEPT ![p] = None]
  /\ exitCode' = [exitCode EXCEPT ![p] = KilledCode]

\* Everything a process or the dispatcher does besides the instructions that
\* use IPC or synchronisation objects; killing is kept apart.
Background(p) ==
  \/ (Create(p) \/ Dispatch(p)) /\ UNCHANGED <<insn, exitCode>>
  \/ ExitInsn(p)
  \/ CpuPreempted(p)
  \/ IoStart(p)
  \/ IoDone(p)
=============================================================================
