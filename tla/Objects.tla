-------------------------------- MODULE Objects --------------------------------
(***************************************************************************)
(* Workloads that use semaphores, mutexes and message queues: the          *)
(* instructions of Sync and of Ipc over one process table, without kills.  *)
(* execute_instruction runs both kinds in the same frame (module Executor), *)
(* and no object knows of the wait lists of the others.                    *)
(*                                                                         *)
(* mix bounds a behaviour: the kinds of object its workloads use and the   *)
(* processes that are started.                                             *)
(***************************************************************************)
EXTENDS Executor, Integers, Sequences, FiniteSets

CONSTANTS SemId, MaxSems, MaxWaiters, MaxSurplus,
          QueueId, MaxQueues, Capacity, WaitqCapacity, MaxMsgs,
          Mixes         \* bound: the values of mix

VARIABLES sem, acquired, queue, sent, receivedBy, mix

ASSUME MixesAssumption == Mixes \subseteq [kinds : SUBSET {"sync", "ipc"}, pids : SUBSET Pid]

S == INSTANCE Sync
I == INSTANCE Ipc

\* The sizes of sync.h and ipc.h, as in the two modules; no instruction and no
\* exit code of an error is None.
ASSUME ObjectsAssumption ==
  /\ {MaxSems, MaxWaiters, MaxQueues, Capacity, WaitqCapacity} \subseteq Nat \ {0}
  /\ {MaxSurplus, MaxMsgs} \subseteq Nat
  /\ IsFiniteSet(Pid)
  /\ None \notin S!SyncInsn /\ None \notin I!IpcInsn
  /\ None \notin {S!SyncErrorCode, I!IpcErrorCode}

syncVars == <<sem, acquired>>
ipcVars == <<queue, sent, receivedBy>>
objectVars == <<executorVars, syncVars, ipcVars, mix>>

ObjectsInit == S!SyncInit /\ I!IpcInit /\ mix \in Mixes

\* The synchronisation and IPC cases of execute_instruction.
ObjectStep(p) ==
  \/ "sync" \in mix.kinds /\ S!SyncStep(p) /\ UNCHANGED <<ipcVars, mix>>
  \/ "ipc" \in mix.kinds /\ I!IpcStep(p) /\ UNCHANGED <<syncVars, mix>>

NoObject == UNCHANGED <<syncVars, ipcVars, mix>>

ObjectsNext == \E p \in mix.pids : ObjectStep(p) \/ (Background(p) /\ NoObject)

\* The shell does not kill, and the scheduler is fair.  Workloads are finite
\* (at most 128 instructions, the last one EXIT), so a process does not run
\* instructions forever without a preemption or its EXIT; round robin, the
\* default policy, dispatches every READY process in turn.
ObjectsSpec ==
  /\ ObjectsInit
  /\ [][ObjectsNext]_objectVars
  /\ \A p \in Pid :
       /\ SF_objectVars(Dispatch(p) /\ UNCHANGED <<insn, exitCode>> /\ NoObject)
       /\ WF_objectVars(ObjectStep(p) /\ insn[p] # None)
       /\ SF_objectVars((ExitInsn(p) \/ CpuPreempted(p)) /\ NoObject)

-----------------------------------------------------------------------------
\* A process asleep in SEM_WAIT, LOCK, SEND or RECV is listed once, by the
\* object and in the list that the instruction which should wake it pops, and
\* by no other object of either kind.
SleepersRegistered == S!SleepersRegistered /\ I!SleepersRegistered

\* A listed process sleeps in that very instruction, and what is reserved is
\* reserved for a process that is awake and about to retry it: neither sync_post
\* nor ipc_send or ipc_recv wakes a process out of an instruction on another
\* object, also when waiters[] and grants[] are full.
WaitersInPlace == S!WaitersInPlace /\ I!WaitersInPlace

\* No lost wakeup for senders, with other instructions between the receive and
\* the retry of the sender it woke.
NoLostSpace == I!NoLostSpace

Reserved(p) == (\E s \in SemId : p \in sem[s].grants) \/ (\E q \in QueueId : I!GrantsOf(p, q) # {})

\* A token or a message that was reserved for a woken process is taken by it.
GrantHonoured == \A p \in Pid : Reserved(p) ~> ~ Reserved(p)
=============================================================================
