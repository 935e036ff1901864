------------------------------ MODULE Lifecycle ------------------------------
(***************************************************************************)
(* What the process table (proc.c) and the dispatcher (runtime.c) promise  *)
(* about the five process states, whatever the scheduling policy is: at    *)
(* most one process runs, it is the runtime's current_pid, and a process   *)
(* changes state only along the edges of proc_is_valid_transition.  A PCB  *)
(* that proc_create has not handed out yet is "UNUSED"; NEW is the state   *)
(* between proc_create and enqueue_ready inside one call of                *)
(* runtime_run_workload, so no step starts or ends in it.                  *)
(***************************************************************************)
CONSTANTS Pid,      \* the pids that proc_create can hand out
          None      \* current_pid = -1, and "no instruction pending"

VARIABLES state,    \* state[p]: pcb_t.state
          current   \* runtime_t.current_pid

ASSUME NoneAssumption == None \notin Pid

lifecycleVars == <<state, current>>

States == {"UNUSED", "READY", "RUNNING", "BLOCKED", "EXITED"}

\* The processes that proc_get finds and that have not exited.
Alive == {p \in Pid : state[p] \notin {"UNUSED", "EXITED"}}

\* proc_is_valid_transition, with the pair UNUSED -> READY for NEW -> READY.
ValidTransition(from, to) ==
  \/ from = "UNUSED"  /\ to = "READY"
  \/ from = "READY"   /\ to \in {"RUNNING", "EXITED"}
  \/ from = "RUNNING" /\ to \in {"READY", "BLOCKED", "EXITED"}
  \/ from = "BLOCKED" /\ to \in {"READY", "EXITED"}

LifecycleInit ==
  /\ state = [p \in Pid |-> "UNUSED"]
  /\ current = None

\* runtime_run_workload: proc_create, then enqueue_ready (NEW -> READY).
Create(p) ==
  /\ state[p] = "UNUSED"
  /\ state' = [state EXCEPT ![p] = "READY"]
  /\ UNCHANGED current

\* dispatch: whatever pid sched_pick_next returned starts to run.
Dispatch(p) ==
  /\ current = None
  /\ state[p] = "READY"
  /\ state' = [state EXCEPT ![p] = "RUNNING"]
  /\ current' = p

\* The process that runs leaves the CPU for state s.
Leave(p, s) ==
  /\ current = p
  /\ state' = [state EXCEPT ![p] = s]
  /\ current' = None

\* wake_pid, applied to every member of S: only a BLOCKED process is readied.
WakeAll(S) ==
  state' = [p \in Pid |-> IF p \in S /\ state[p] = "BLOCKED"
                          THEN "READY" ELSE state[p]]

Wake(S) == WakeAll(S) /\ UNCHANGED current

\* runtime_kill: proc_mark_exited refuses an EXITED process, and the CPU is
\* taken away when the victim is the current process.
Kill(p) ==
  /\ p \in Alive
  /\ state' = [state EXCEPT ![p] = "EXITED"]
  /\ current' = IF current = p THEN None ELSE current

LifecycleNext ==
  \/ \E p \in Pid : Create(p) \/ Dispatch(p) \/ Kill(p)
  \/ \E p \in Pid, s \in {"READY", "BLOCKED", "EXITED"} : Leave(p, s)
  \/ \E S \in SUBSET Pid : Wake(S)

LifecycleSpec == LifecycleInit /\ [][LifecycleNext]_lifecycleVars

-----------------------------------------------------------------------------
LifecycleTypeOK ==
  /\ state \in [Pid -> States]
  /\ current \in Pid \cup {None}

\* The CPU belongs to one process: the RUNNING process is current_pid, and
\* current_pid is never a process that has blocked, exited or been killed
\* (dispatch, block_current, exit_current, maybe_preempt, runtime_kill).
RunningIsCurrent == \A p \in Pid : state[p] = "RUNNING" <=> current = p
=============================================================================
