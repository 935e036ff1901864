------------------------------ MODULE SyncProofs ------------------------------
(***************************************************************************)
(* Proofs for module Sync, for any processes, any ids and any sizes of the *)
(* tables.                                                                 *)
(***************************************************************************)
EXTENDS Sync, TLAPS, FiniteSetTheorems

-----------------------------------------------------------------------------
(***************************************************************************)
(* Types                                                                   *)
(***************************************************************************)
ProcTypeOK ==
  /\ LifecycleTypeOK
  /\ insn \in [Pid -> SyncInsn \cup {None}]
  /\ exitCode \in [Pid -> {None, 0, SyncErrorCode, KilledCode}]

LEMMA CompleteType ==
  ASSUME ProcTypeOK, NEW p \in Pid, NEW S \in SUBSET Pid, Complete(p, S)
  PROVE  ProcTypeOK'
BY DEF ProcTypeOK, LifecycleTypeOK, States, Complete, Wake, WakeAll

LEMMA BlockInType ==
  ASSUME ProcTypeOK, NEW p \in Pid, NEW i \in SyncInsn, BlockIn(p, i)
  PROVE  ProcTypeOK'
BY DEF ProcTypeOK, LifecycleTypeOK, States, BlockIn, Leave

LEMMA ExitWithType ==
  ASSUME ProcTypeOK, NEW p \in Pid, NEW c \in {0, SyncErrorCode}, ExitWith(p, c)
  PROVE  ProcTypeOK'
BY DEF ProcTypeOK, LifecycleTypeOK, States, ExitWith, Leave

LEMMA BackgroundType ==
  ASSUME ProcTypeOK, NEW p \in Pid, Background(p) \/ KillCommand(p)
  PROVE  ProcTypeOK'
<1> USE DEF ProcTypeOK, LifecycleTypeOK, States
<1>1. CASE (Create(p) \/ Dispatch(p)) /\ UNCHANGED <<insn, exitCode>>
      BY <1>1 DEF Create, Dispatch
<1>2. CASE ExitInsn(p)
      BY <1>2, ExitWithType DEF ExitInsn
<1>3. CASE CpuPreempted(p) \/ IoStart(p)
      BY <1>3 DEF CpuPreempted, IoStart, Leave
<1>4. CASE IoDone(p)
      BY <1>4 DEF IoDone, Wake, WakeAll
<1>5. CASE KillCommand(p)
      BY <1>5 DEF KillCommand, Kill
<1>6. QED BY <1>1, <1>2, <1>3, <1>4, <1>5 DEF Background

LEMMA OpenedType ==
  ASSUME SyncTypeOK, NEW op \in WaitOps, NEW s \in SemId
  PROVE  Opened(op, s) \in SemObject
<1>1. ASSUME NEW k \in {"sem", "mutex"} PROVE Created(k) \in SemObject
      BY <1>1 DEF Created, SemObject
<1>2. QED BY <1>1 DEF SyncTypeOK, Opened

LEMMA UpdateType ==
  ASSUME NEW m \in SemObject, NEW c \in Nat, NEW o \in Pid \cup {None},
         NEW w \in Seq(Pid), NEW g \in SUBSET Pid
  PROVE  /\ [m EXCEPT !.count = c, !.owner = o] \in SemObject
         /\ [m EXCEPT !.count = c] \in SemObject
         /\ [m EXCEPT !.owner = o, !.count = c] \in SemObject
         /\ [m EXCEPT !.waiters = w] \in SemObject
         /\ [m EXCEPT !.grants = g] \in SemObject
BY Zenon DEF SemObject

LEMMA WaitStepType ==
  ASSUME SyncTypeOK, NEW p \in Pid, NEW op \in WaitOps, NEW s \in SemId, WaitStep(p, op, s)
  PROVE  SyncTypeOK'
<1> DEFINE m == Opened(op, s)
<1>1. ProcTypeOK /\ m \in SemObject /\ [op |-> op, id |-> s] \in SyncInsn
      BY OpenedType DEF SyncTypeOK, ProcTypeOK, SyncInsn
<1>2. CASE WaitRefused(p, op, s) \/ WaitByOwner(p, op, s) \/ WaitOverflows(p, op, s)
      BY <1>1, <1>2, ExitWithType
         DEF WaitRefused, WaitByOwner, WaitOverflows, SyncTypeOK, ProcTypeOK, syncVars
<1>3. CASE WaitGranted(p, op, s) \/ WaitTakes(p, op, s)
  <2>1. ProcTypeOK'
        BY <1>1, <1>3, CompleteType DEF WaitGranted, WaitTakes
  <2>2. acquired' \in [SemId -> Int]
        BY <1>3 DEF WaitGranted, WaitTakes, SyncTypeOK
  <2>3. sem' \in [SemId -> SemObject]
    <3>1. CASE WaitGranted(p, op, s)
          BY <1>1, <3>1, UpdateType, Zenon DEF WaitGranted, SyncTypeOK, SemObject
    <3>2. CASE WaitTakes(p, op, s)
      <4> DEFINE o == IF m.kind = "mutex" THEN p ELSE m.owner
      <4>1. m.count - 1 \in Nat /\ o \in Pid \cup {None}
            BY <1>1, <3>2 DEF WaitTakes, SemObject
      <4>2. sem' = [sem EXCEPT ![s] = [m EXCEPT !.count = m.count - 1, !.owner = o]]
            BY <3>2 DEF WaitTakes
      <4> HIDE DEF o, m
      <4>3. [m EXCEPT !.count = m.count - 1, !.owner = o] \in SemObject
            BY <1>1, <4>1, Zenon DEF SemObject
      <4>4. QED BY <4>2, <4>3 DEF SyncTypeOK
    <3>3. QED BY <1>3, <3>1, <3>2
  <2>4. QED BY <2>1, <2>2, <2>3 DEF SyncTypeOK, ProcTypeOK
<1>4. CASE WaitBlocks(p, op, s)
  <2>1. ProcTypeOK'
        BY <1>1, <1>4, BlockInType DEF WaitBlocks
  <2>2. sem' \in [SemId -> SemObject]
    <3>1. m.waiters \in Seq(Pid) /\ Append(m.waiters, p) \in Seq(Pid)
          BY <1>1 DEF SemObject
    <3>2. QED BY <1>1, <1>4, <3>1, UpdateType, Zenon DEF WaitBlocks, SyncTypeOK
  <2>3. QED BY <1>4, <2>1, <2>2 DEF WaitBlocks, SyncTypeOK, ProcTypeOK
<1>5. QED BY <1>2, <1>3, <1>4 DEF WaitStep

LEMMA PostStepType ==
  ASSUME SyncTypeOK, NEW p \in Pid, NEW op \in PostOps, NEW s \in SemId, PostStep(p, op, s)
  PROVE  SyncTypeOK'
<1>1. ProcTypeOK /\ sem[s] \in SemObject
      BY DEF SyncTypeOK, ProcTypeOK
<1>2. CASE PostRefused(p, op, s)
      BY <1>1, <1>2, ExitWithType DEF PostRefused, SyncTypeOK, ProcTypeOK, syncVars
<1>3. CASE PostHandsOver(p, op, s)
  <2>1. Head(sem[s].waiters) \in Pid /\ Tail(sem[s].waiters) \in Seq(Pid)
        BY <1>1, <1>3 DEF PostHandsOver, SemObject
  <2>2. ProcTypeOK'
        BY <1>1, <1>3, <2>1, CompleteType DEF PostHandsOver
  <2>3. acquired' \in [SemId -> Int]
        BY <1>3 DEF PostHandsOver, SyncTypeOK
  <2>4. WithGrant(sem[s].grants, Head(sem[s].waiters)) \in SUBSET Pid
        BY <1>1, <2>1 DEF WithGrant, SemObject
  <2>5. sem' \in [SemId -> SemObject]
        BY <1>1, <1>3, <2>1, <2>4, Zenon DEF PostHandsOver, SyncTypeOK, SemObject
  <2>6. QED BY <2>2, <2>3, <2>5 DEF SyncTypeOK, ProcTypeOK
<1>4. CASE PostReturns(p, op, s)
  <2>1. ProcTypeOK'
        BY <1>1, <1>4, CompleteType DEF PostReturns
  <2>2. acquired' \in [SemId -> Int]
        BY <1>4 DEF PostReturns, SyncTypeOK
  <2>3. sem' \in [SemId -> SemObject]
    <3> DEFINE c == IF sem[s].count + 1 > 1 THEN 1 ELSE sem[s].count + 1
               k == IF sem[s].kind = "mutex"
                    THEN [sem[s] EXCEPT !.owner = None, !.count = c]
                    ELSE [sem[s] EXCEPT !.count = sem[s].count + 1]
    <3>1. c \in Nat /\ sem[s].count + 1 \in Nat /\ None \in Pid \cup {None}
          BY <1>1 DEF SemObject
    <3>2. sem' = [sem EXCEPT ![s] = k]
          BY <1>4 DEF PostReturns
    <3> HIDE DEF c
    <3>3. k \in SemObject
      <4>1. [sem[s] EXCEPT !.owner = None, !.count = c] \in SemObject
            BY <1>1, <3>1, Zenon DEF SemObject
      <4>2. [sem[s] EXCEPT !.count = sem[s].count + 1] \in SemObject
            BY <1>1, <3>1 DEF SemObject
      <4>3. QED BY <4>1, <4>2
    <3> HIDE DEF k
    <3>4. QED BY <3>2, <3>3 DEF SyncTypeOK
  <2>4. QED BY <2>1, <2>2, <2>3 DEF SyncTypeOK, ProcTypeOK
<1>5. QED BY <1>2, <1>3, <1>4 DEF PostStep

-----------------------------------------------------------------------------
(***************************************************************************)
(* The inductive invariant                                                 *)
(*                                                                         *)
(* MutualExclusion alone is not inductive: an UNLOCK by an owner whose     *)
(* LOCK has not completed would take the count of holders below zero.  No  *)
(* such owner ever runs another instruction (OwnerPending), because it was *)
(* a waiter, which was asleep in a wait on that very object (WaitersAsleep)*)
(* and listed only once (WaitersOnce).                                     *)
(***************************************************************************)
Listed(q, ws) == \E i \in DOMAIN ws : ws[i] = q
Distinct(ws) == \A i, j \in DOMAIN ws : ws[i] = ws[j] => i = j
Awaits(q, s) == insn[q] \in [op : WaitOps, id : {s}]

\* An id that is not in the table has no users.
NoneUnused ==
  \A s \in SemId : sem[s].kind = "none" =>
    /\ sem[s].owner = None /\ sem[s].count = 0
    /\ sem[s].waiters = <<>> /\ sem[s].grants = {}
    /\ acquired[s] = 0

MutexNoGrants == \A s \in SemId : sem[s].kind = "mutex" => sem[s].grants = {}

WaitersOnce == \A s \in SemId : Distinct(sem[s].waiters)

\* The waiters of a semaphore are in SEM_WAIT: LOCK is refused.
SemWaiters ==
  \A s \in SemId, q \in Pid :
    Listed(q, sem[s].waiters) /\ sem[s].kind = "sem" /\ state[q] # "EXITED" =>
      insn[q].op = "SEM_WAIT"

WaitersNotGranted ==
  \A s \in SemId : \A q \in sem[s].grants : ~ Listed(q, sem[s].waiters)

OwnerPending ==
  \A s \in SemId :
    sem[s].kind = "mutex" /\ sem[s].owner # None /\ acquired[s] = 0 =>
      \/ state[sem[s].owner] = "EXITED"
      \/ state[sem[s].owner] \in {"READY", "RUNNING"} /\ Awaits(sem[s].owner, s)

SleepersListed ==
  \A q \in Pid : state[q] = "BLOCKED" /\ insn[q] # None =>
    \E s \in SemId : Awaits(q, s) /\ Listed(q, sem[s].waiters)

ObjectInv == NoneUnused /\ NoIdleToken /\ MutualExclusion /\ MutexNoGrants /\ WaitersOnce
UserInv == /\ WaitersAsleep /\ SemWaiters /\ GrantsAwake /\ WaitersNotGranted
           /\ OwnerPending /\ SleepersListed

SyncInv == SyncTypeOK /\ RunningIsCurrent /\ ObjectInv /\ UserInv

LEMMA AppendListed ==
  ASSUME NEW ws \in Seq(Pid), NEW p \in Pid
  PROVE  /\ \A q \in Pid : Listed(q, Append(ws, p)) <=> Listed(q, ws) \/ q = p
         /\ Distinct(ws) /\ ~ Listed(p, ws) => Distinct(Append(ws, p))
BY DEF Listed, Distinct

LEMMA TailListed ==
  ASSUME NEW ws \in Seq(Pid), ws # <<>>
  PROVE  /\ Head(ws) \in Pid /\ Tail(ws) \in Seq(Pid)
         /\ Listed(Head(ws), ws)
         /\ \A q \in Pid : Listed(q, Tail(ws)) => Listed(q, ws)
         /\ \A q \in Pid : Listed(q, ws) => q = Head(ws) \/ Listed(q, Tail(ws))
         /\ Distinct(ws) => Distinct(Tail(ws)) /\ ~ Listed(Head(ws), Tail(ws))
<1>1. /\ Head(ws) \in Pid /\ Tail(ws) \in Seq(Pid)
      /\ Len(ws) \in Nat \ {0} /\ DOMAIN ws = 1 .. Len(ws) /\ Head(ws) = ws[1]
      /\ DOMAIN Tail(ws) = 1 .. Len(ws) - 1
      /\ \A i \in 1 .. Len(ws) - 1 : Tail(ws)[i] = ws[i + 1]
      OBVIOUS
<1>2. Listed(Head(ws), ws)
      BY <1>1 DEF Listed
<1>3. ASSUME NEW q \in Pid, Listed(q, Tail(ws)) PROVE Listed(q, ws)
  <2>1. PICK i \in 1 .. Len(ws) - 1 : Tail(ws)[i] = q
        BY <1>1, <1>3 DEF Listed
  <2>2. i + 1 \in DOMAIN ws /\ ws[i + 1] = q
        BY <1>1, <2>1
  <2>3. QED BY <2>2 DEF Listed
<1>4. ASSUME NEW q \in Pid, Listed(q, ws), q # Head(ws) PROVE Listed(q, Tail(ws))
  <2>1. PICK i \in 1 .. Len(ws) : ws[i] = q
        BY <1>1, <1>4 DEF Listed
  <2>2. i - 1 \in DOMAIN Tail(ws) /\ Tail(ws)[i - 1] = q
        BY <1>1, <1>4, <2>1
  <2>3. QED BY <2>2, Zenon DEF Listed
<1>5. ASSUME Distinct(ws) PROVE Distinct(Tail(ws)) /\ ~ Listed(Head(ws), Tail(ws))
      BY <1>1, <1>5 DEF Distinct, Listed
<1>6. QED BY <1>1, <1>2, <1>3, <1>4, <1>5

LEMMA SyncInitInv == SyncInit => SyncInv
<1> SUFFICES ASSUME SyncInit PROVE SyncInv
    OBVIOUS
<1> USE NoneAssumption DEF SyncInit, ExecutorInit, LifecycleInit, Unused
<1>1. SyncTypeOK
      BY DEF SyncTypeOK, LifecycleTypeOK, States, SemObject
<1>2. RunningIsCurrent
      BY Zenon DEF RunningIsCurrent
<1>3. ObjectInv
      BY DEF ObjectInv, NoneUnused, NoIdleToken, MutualExclusion, MutexNoGrants, WaitersOnce,
             Distinct
<1>4. UserInv
      BY DEF UserInv, WaitersAsleep, SemWaiters, GrantsAwake, WaitersNotGranted, OwnerPending,
             SleepersListed, Listed
<1>5. QED BY <1>1, <1>2, <1>3, <1>4 DEF SyncInv

-----------------------------------------------------------------------------
(***************************************************************************)
(* The invariant is kept                                                   *)
(***************************************************************************)
\* What the process that executes an instruction on s can be involved in.
LEMMA RunnerFacts ==
  ASSUME SyncInv, NEW p \in Pid, NEW op \in WaitOps \cup PostOps, NEW s \in SemId,
         Executing(p, [op |-> op, id |-> s])
  PROVE  /\ state[p] = "RUNNING"
         /\ \A t \in SemId : ~ Listed(p, sem[t].waiters)
         /\ \A t \in SemId : p \in sem[t].grants => t = s /\ op = "SEM_WAIT"
         /\ \A t \in SemId :
              sem[t].kind = "mutex" /\ sem[t].owner = p /\ acquired[t] = 0 =>
                t = s /\ op \in WaitOps
<1>1. state[p] = "RUNNING"
      BY DEF Executing, SyncInv, RunningIsCurrent
<1>2. insn[p] = None \/ insn[p] = [op |-> op, id |-> s]
      BY DEF Executing
<1>3. ASSUME NEW t \in SemId PROVE ~ Listed(p, sem[t].waiters)
      BY <1>1 DEF SyncInv, UserInv, WaitersAsleep, Listed
<1>4. ASSUME NEW t \in SemId PROVE None \notin [op : WaitOps, id : {t}]
      BY NoInsnAssumption DEF SyncInsn
<1>5. ASSUME NEW t \in SemId, p \in sem[t].grants PROVE t = s /\ op = "SEM_WAIT"
  <2>1. insn[p] = [op |-> "SEM_WAIT", id |-> t]
        BY <1>1, <1>5 DEF SyncInv, UserInv, GrantsAwake
  <2>2. [op |-> "SEM_WAIT", id |-> t] \in [op : WaitOps, id : {t}]
        BY DEF WaitOps
  <2>3. insn[p] = [op |-> op, id |-> s]
        BY <1>2, <1>4, <2>1, <2>2
  <2>4. [op |-> op, id |-> s].op = "SEM_WAIT" /\ [op |-> op, id |-> s].id = t
        BY <2>1, <2>3
  <2>5. QED BY <2>4
<1>6. ASSUME NEW t \in SemId, sem[t].kind = "mutex", sem[t].owner = p, acquired[t] = 0
      PROVE  t = s /\ op \in WaitOps
  <2>1. insn[p] \in [op : WaitOps, id : {t}]
        BY <1>1, <1>6, NoneAssumption DEF SyncInv, UserInv, OwnerPending, Awaits
  <2>2. insn[p] = [op |-> op, id |-> s]
        BY <1>2, <1>4, <2>1
  <2>3. [op |-> op, id |-> s].op \in WaitOps /\ [op |-> op, id |-> s].id = t
        BY <2>1, <2>2
  <2>4. QED BY <2>3
<1>7. QED BY <1>1, <1>3, <1>5, <1>6

\* Nothing in the tables refers to p.
Uninvolved(p) ==
  /\ \A t \in SemId : ~ Listed(p, sem[t].waiters) /\ p \notin sem[t].grants
  /\ \A t \in SemId :
       ~ (sem[t].kind = "mutex" /\ sem[t].owner = p /\ acquired[t] = 0)

\* A step of one process that leaves the tables alone.
LEMMA OneProcessMoves ==
  ASSUME SyncInv, UNCHANGED syncVars, SyncTypeOK', RunningIsCurrent', NEW p \in Pid,
         \A q \in Pid \ {p} : state'[q] = state[q] /\ insn'[q] = insn[q],
         \/ state'[p] = "EXITED"
         \/ Uninvolved(p) /\ (state'[p] = "BLOCKED" => insn'[p] = None)
         \/ state[p] = "READY" /\ state'[p] = "RUNNING" /\ insn'[p] = insn[p]
  PROVE  SyncInv'
<1> USE DEF syncVars
<1>1. ObjectInv'
      BY DEF SyncInv, ObjectInv, NoneUnused, NoIdleToken, MutualExclusion, MutexNoGrants,
             WaitersOnce
<1>2. WaitersAsleep'
  <2> SUFFICES ASSUME NEW s \in SemId, NEW i \in DOMAIN sem[s].waiters
               PROVE  \/ state'[sem[s].waiters[i]] = "EXITED"
                      \/ /\ state'[sem[s].waiters[i]] = "BLOCKED"
                         /\ insn'[sem[s].waiters[i]] \in [op : WaitOps, id : {s}]
      BY DEF WaitersAsleep
  <2> DEFINE w == sem[s].waiters[i]
  <2>1. w \in Pid /\ Listed(w, sem[s].waiters)
        BY DEF SyncInv, SyncTypeOK, SemObject, Listed
  <2>2. \/ state[w] = "EXITED"
        \/ state[w] = "BLOCKED" /\ insn[w] \in [op : WaitOps, id : {s}]
        BY DEF SyncInv, UserInv, WaitersAsleep
  <2> HIDE DEF w
  <2>3. w # p \/ state'[p] = "EXITED"
        BY <2>1, <2>2 DEF Uninvolved
  <2>4. QED BY <2>1, <2>2, <2>3 DEF w
<1>3. SemWaiters'
      BY DEF SyncInv, UserInv, SemWaiters, WaitersAsleep, Uninvolved
<1>4. GrantsAwake'
  <2> SUFFICES ASSUME NEW s \in SemId, NEW q \in sem[s].grants
               PROVE  \/ state'[q] = "EXITED"
                      \/ /\ state'[q] \in {"READY", "RUNNING"}
                         /\ insn'[q] = [op |-> "SEM_WAIT", id |-> s]
      BY Zenon DEF GrantsAwake
  <2>1. /\ q \in Pid
        /\ \/ state[q] = "EXITED"
           \/ /\ state[q] \in {"READY", "RUNNING"}
              /\ insn[q] = [op |-> "SEM_WAIT", id |-> s]
        BY DEF SyncInv, UserInv, GrantsAwake, SyncTypeOK, SemObject
  <2>2. CASE q = p
        BY <2>1, <2>2 DEF Uninvolved
  <2>3. CASE q # p
        BY <2>1, <2>3
  <2>4. QED BY <2>2, <2>3
<1>5. WaitersNotGranted'
      BY DEF SyncInv, UserInv, WaitersNotGranted
<1>6. OwnerPending'
  <2> SUFFICES ASSUME NEW s \in SemId,
                      sem[s].kind = "mutex", sem[s].owner # None, acquired[s] = 0
               PROVE  \/ state'[sem[s].owner] = "EXITED"
                      \/ /\ state'[sem[s].owner] \in {"READY", "RUNNING"}
                         /\ insn'[sem[s].owner] \in [op : WaitOps, id : {s}]
      BY DEF OwnerPending, Awaits
  <2> DEFINE o == sem[s].owner
  <2>1. /\ o \in Pid
        /\ \/ state[o] = "EXITED"
           \/ /\ state[o] \in {"READY", "RUNNING"}
              /\ insn[o] \in [op : WaitOps, id : {s}]
        BY DEF SyncInv, UserInv, OwnerPending, Awaits, SyncTypeOK, SemObject
  <2>2. CASE o = p
        BY <2>1, <2>2 DEF Uninvolved
  <2>3. CASE o # p
        BY <2>1, <2>3
  <2>4. QED BY <2>2, <2>3
<1>7. SleepersListed'
      BY DEF SyncInv, UserInv, SleepersListed, Awaits
<1>8. QED BY <1>1, <1>2, <1>3, <1>4, <1>5, <1>6, <1>7 DEF SyncInv, UserInv

LEMMA RunningKept ==
  ASSUME LifecycleTypeOK, RunningIsCurrent, [LifecycleNext]_lifecycleVars
  PROVE  RunningIsCurrent'
<1> USE NoneAssumption DEF LifecycleTypeOK, RunningIsCurrent, States
<1>1. ASSUME NEW p \in Pid, Create(p) PROVE RunningIsCurrent'
      BY <1>1 DEF Create
<1>2. ASSUME NEW p \in Pid, Dispatch(p) PROVE RunningIsCurrent'
      BY <1>2 DEF Dispatch
<1>3. ASSUME NEW p \in Pid, Kill(p) PROVE RunningIsCurrent'
      BY <1>3 DEF Kill, Alive
<1>4. ASSUME NEW p \in Pid, NEW s \in {"READY", "BLOCKED", "EXITED"}, Leave(p, s)
      PROVE  RunningIsCurrent'
      BY <1>4 DEF Leave
<1>5. ASSUME NEW S \in SUBSET Pid, Wake(S) PROVE RunningIsCurrent'
      BY <1>5 DEF Wake, WakeAll
<1>6. CASE UNCHANGED lifecycleVars
      BY <1>6 DEF lifecycleVars
<1>7. QED BY <1>1, <1>2, <1>3, <1>4, <1>5, <1>6 DEF LifecycleNext

\* The steps of Sync are steps of Lifecycle.
LEMMA SyncTakesLifecycleSteps ==
  ASSUME SyncTypeOK, [SyncNext]_vars
  PROVE  [LifecycleNext]_lifecycleVars
<1> USE DEF lifecycleVars
<1>1. ASSUME NEW p \in Pid, NEW S \in SUBSET Pid, Complete(p, S)
      PROVE  LifecycleNext
      BY <1>1 DEF Complete, LifecycleNext
<1>2. ASSUME NEW p \in Pid, NEW i, BlockIn(p, i)
      PROVE  LifecycleNext
      BY <1>2 DEF BlockIn, LifecycleNext
<1>3. ASSUME NEW p \in Pid, NEW c, ExitWith(p, c)
      PROVE  LifecycleNext
      BY <1>3 DEF ExitWith, LifecycleNext
<1>4. ASSUME NEW p \in Pid, Background(p) \/ KillCommand(p)
      PROVE  LifecycleNext
      BY <1>3, <1>4 DEF Background, ExitInsn, CpuPreempted, IoStart, IoDone, KillCommand,
                        LifecycleNext
<1>5. ASSUME NEW p \in Pid, NEW op, NEW s \in SemId, WaitStep(p, op, s)
      PROVE  LifecycleNext
      BY <1>1, <1>2, <1>3, <1>5
         DEF WaitStep, WaitRefused, WaitGranted, WaitByOwner, WaitBlocks, WaitOverflows, WaitTakes
<1>6. ASSUME NEW p \in Pid, NEW op, NEW s \in SemId, PostStep(p, op, s)
      PROVE  LifecycleNext
  <2>1. CASE PostRefused(p, op, s) \/ PostReturns(p, op, s)
        BY <1>1, <1>3, <2>1 DEF PostRefused, PostReturns
  <2>2. CASE PostHandsOver(p, op, s)
    <3>1. Head(sem[s].waiters) \in Pid
          BY <2>2 DEF PostHandsOver, SyncTypeOK, SemObject
    <3>2. QED BY <1>1, <2>2, <3>1 DEF PostHandsOver
  <2>3. QED BY <1>6, <2>1, <2>2 DEF PostStep
<1>7. CASE UNCHANGED vars
      BY <1>7 DEF vars, executorVars
<1>8. QED BY <1>4, <1>5, <1>6, <1>7 DEF SyncNext, QuietNext, SyncStep, KillStep

LEMMA SyncNextType ==
  ASSUME SyncTypeOK, [SyncNext]_vars
  PROVE  SyncTypeOK'
<1>1. ASSUME NEW p \in Pid, Background(p) \/ KillCommand(p), UNCHANGED syncVars
      PROVE  SyncTypeOK'
      BY <1>1, BackgroundType DEF SyncTypeOK, ProcTypeOK, syncVars
<1>2. CASE UNCHANGED vars
      BY <1>2 DEF vars, executorVars, syncVars, SyncTypeOK, LifecycleTypeOK
<1>3. QED BY <1>1, <1>2, WaitStepType, PostStepType DEF SyncNext, QuietNext, SyncStep, KillStep

\* A process between instructions is not referred to.
LEMMA IdleUninvolved ==
  ASSUME SyncInv, NEW p \in Pid,
         state[p] = "UNUSED" \/ (insn[p] = None /\ state[p] # "EXITED")
  PROVE  Uninvolved(p)
<1>1. ASSUME NEW t \in SemId
      PROVE  None \notin [op : WaitOps, id : {t}] /\ None # [op |-> "SEM_WAIT", id |-> t]
  <2>1. [op |-> "SEM_WAIT", id |-> t] \in SyncInsn /\ [op : WaitOps, id : {t}] \subseteq SyncInsn
        BY DEF SyncInsn, WaitOps
  <2>2. QED BY <2>1, NoInsnAssumption
<1>2. ASSUME NEW t \in SemId PROVE ~ Listed(p, sem[t].waiters)
      BY <1>1 DEF SyncInv, UserInv, WaitersAsleep, Listed
<1>3. ASSUME NEW t \in SemId PROVE p \notin sem[t].grants
      BY <1>1, Zenon DEF SyncInv, UserInv, GrantsAwake
<1>4. ASSUME NEW t \in SemId, sem[t].kind = "mutex", sem[t].owner = p, acquired[t] = 0
      PROVE  FALSE
      BY <1>1, <1>4, NoneAssumption DEF SyncInv, UserInv, OwnerPending, Awaits
<1>5. QED BY <1>2, <1>3, <1>4 DEF Uninvolved

LEMMA BackgroundInv ==
  ASSUME SyncInv, SyncTypeOK', RunningIsCurrent', NEW p \in Pid,
         Background(p) \/ KillCommand(p), UNCHANGED syncVars
  PROVE  SyncInv'
<1> USE DEF SyncInv, SyncTypeOK, LifecycleTypeOK
<1>1. CASE Create(p) /\ UNCHANGED <<insn, exitCode>>
  <2>1. Uninvolved(p)
        BY <1>1, IdleUninvolved DEF Create
  <2>2. /\ \A q \in Pid \ {p} : state'[q] = state[q] /\ insn'[q] = insn[q]
        /\ state'[p] = "READY"
        BY <1>1 DEF Create
  <2>3. QED BY <2>1, <2>2, OneProcessMoves
<1>2. CASE Dispatch(p) /\ UNCHANGED <<insn, exitCode>>
  <2>1. /\ \A q \in Pid \ {p} : state'[q] = state[q] /\ insn'[q] = insn[q]
        /\ state[p] = "READY" /\ state'[p] = "RUNNING" /\ insn'[p] = insn[p]
        BY <1>2 DEF Dispatch
  <2>2. QED BY <2>1, OneProcessMoves
<1>3. CASE ExitInsn(p) \/ KillCommand(p)
  <2>1. /\ \A q \in Pid \ {p} : state'[q] = state[q] /\ insn'[q] = insn[q]
        /\ state'[p] = "EXITED"
        BY <1>3 DEF ExitInsn, ExitWith, Leave, KillCommand, Kill
  <2>2. QED BY <2>1, OneProcessMoves
<1>4. CASE CpuPreempted(p) \/ IoStart(p) \/ IoDone(p)
  <2>1. insn[p] = None /\ state[p] # "EXITED"
        BY <1>4, NoneAssumption DEF CpuPreempted, IoStart, IoDone, Leave, RunningIsCurrent
  <2>2. /\ \A q \in Pid \ {p} : state'[q] = state[q] /\ insn'[q] = insn[q]
        /\ insn'[p] = None
        BY <1>4, <2>1 DEF CpuPreempted, IoStart, IoDone, Leave, Wake, WakeAll
  <2>3. QED BY <2>1, <2>2, IdleUninvolved, OneProcessMoves
<1>5. QED BY <1>1, <1>2, <1>3, <1>4 DEF Background

LEMMA ErrorExitInv ==
  ASSUME SyncInv, SyncTypeOK', RunningIsCurrent', NEW p \in Pid, NEW c,
         ExitWith(p, c), UNCHANGED syncVars
  PROVE  SyncInv'
<1>1. /\ \A q \in Pid \ {p} : state'[q] = state[q] /\ insn'[q] = insn[q]
      /\ state'[p] = "EXITED"
      BY DEF ExitWith, Leave, SyncInv, SyncTypeOK, LifecycleTypeOK
<1>2. QED BY <1>1, OneProcessMoves

-----------------------------------------------------------------------------
(***************************************************************************)
(* The steps that change an object.  ObjectOf(s) and UsersOf(s) are the    *)
(* parts of the invariant that speak of one object s.                      *)
(***************************************************************************)
ObjectOf(s) ==
  LET m == sem[s] IN
  /\ m.kind = "none" =>
       /\ m.owner = None /\ m.count = 0 /\ m.waiters = <<>> /\ m.grants = {}
       /\ acquired[s] = 0
  /\ m.waiters # <<>> => m.count = 0
  /\ m.kind = "mutex" =>
       /\ m.grants = {}
       /\ acquired[s] \in {0, 1}
       /\ acquired[s] = 1 => m.owner # None /\ m.count = 0
       /\ m.count = IF m.owner = None THEN 1 ELSE 0
  /\ Distinct(m.waiters)

Waiting(q, s) ==
  \/ state[q] = "EXITED"
  \/ /\ state[q] = "BLOCKED" /\ Awaits(q, s)
     /\ sem[s].kind = "sem" => insn[q].op = "SEM_WAIT"

Granted(q, s) ==
  \/ state[q] = "EXITED"
  \/ state[q] \in {"READY", "RUNNING"} /\ insn[q] = [op |-> "SEM_WAIT", id |-> s]

Pending(q, s) ==
  \/ state[q] = "EXITED"
  \/ state[q] \in {"READY", "RUNNING"} /\ Awaits(q, s)

UsersOf(s) ==
  /\ \A q \in Pid : Listed(q, sem[s].waiters) => Waiting(q, s)
  /\ \A q \in Pid : q \in sem[s].grants => Granted(q, s) /\ ~ Listed(q, sem[s].waiters)
  /\ sem[s].kind = "mutex" /\ sem[s].owner # None /\ acquired[s] = 0 =>
       Pending(sem[s].owner, s)

LEMMA InvOf ==
  ASSUME SyncInv
  PROVE  \A s \in SemId : ObjectOf(s) /\ UsersOf(s)
<1> SUFFICES ASSUME NEW s \in SemId PROVE ObjectOf(s) /\ UsersOf(s)
    OBVIOUS
<1> USE DEF SyncInv
<1>1. ObjectOf(s)
      BY DEF ObjectOf, ObjectInv, NoneUnused, NoIdleToken, MutualExclusion, MutexNoGrants,
             WaitersOnce
<1>2. UsersOf(s)
  <2>1. ASSUME NEW q \in Pid, Listed(q, sem[s].waiters) PROVE Waiting(q, s)
        BY <2>1 DEF UserInv, WaitersAsleep, SemWaiters, Waiting, Awaits, Listed
  <2>2. ASSUME NEW q \in Pid, q \in sem[s].grants
        PROVE  Granted(q, s) /\ ~ Listed(q, sem[s].waiters)
        BY <2>2 DEF UserInv, GrantsAwake, WaitersNotGranted, Granted
  <2>3. QED BY <2>1, <2>2 DEF UsersOf, UserInv, OwnerPending, Pending
<1>3. QED BY <1>1, <1>2

LEMMA OfInv ==
  ASSUME SyncTypeOK', RunningIsCurrent', SleepersListed',
         \A s \in SemId : ObjectOf(s)' /\ UsersOf(s)'
  PROVE  SyncInv'
<1>1. ObjectInv'
      BY DEF ObjectOf, ObjectInv, NoneUnused, NoIdleToken, MutualExclusion, MutexNoGrants,
             WaitersOnce
<1>2. \A s \in SemId : sem'[s].waiters \in Seq(Pid) /\ sem'[s].grants \subseteq Pid
      BY DEF SyncTypeOK, SemObject
<1>3. WaitersAsleep'
  <2> SUFFICES ASSUME NEW s \in SemId, NEW i \in DOMAIN sem'[s].waiters
               PROVE  \/ state'[sem'[s].waiters[i]] = "EXITED"
                      \/ /\ state'[sem'[s].waiters[i]] = "BLOCKED"
                         /\ insn'[sem'[s].waiters[i]] \in [op : WaitOps, id : {s}]
      BY DEF WaitersAsleep
  <2>1. sem'[s].waiters[i] \in Pid /\ Listed(sem'[s].waiters[i], sem'[s].waiters)
        BY <1>2 DEF Listed
  <2>2. QED BY <2>1 DEF UsersOf, Waiting, Awaits
<1>4. SemWaiters'
      BY DEF SemWaiters, UsersOf, Waiting
<1>5. GrantsAwake' /\ WaitersNotGranted'
      BY <1>2, Zenon DEF GrantsAwake, WaitersNotGranted, UsersOf, Granted
<1>6. OwnerPending'
      BY DEF OwnerPending, UsersOf, Pending
<1>7. QED BY <1>1, <1>3, <1>4, <1>5, <1>6 DEF SyncInv, UserInv

\* The objects that the instruction of p is not about: p does not use them,
\* and neither does the process that the instruction wakes.
LEMMA OtherObjects ==
  ASSUME SyncInv, NEW p \in Pid, NEW op \in WaitOps \cup PostOps, NEW s \in SemId,
         Executing(p, [op |-> op, id |-> s]),
         NEW t \in SemId \ {s}, sem'[t] = sem[t], acquired'[t] = acquired[t],
         \A q \in Pid \ {p} :
           /\ insn'[q] = insn[q]
           /\ \/ state'[q] = state[q]
              \/ state[q] = "BLOCKED" /\ Awaits(q, s)
  PROVE  ObjectOf(t)' /\ UsersOf(t)'
<1>1. ObjectOf(t) /\ UsersOf(t) /\ t \in SemId
      BY InvOf
<1>2. ObjectOf(t)'
      BY <1>1 DEF ObjectOf
<1>3. /\ state[p] = "RUNNING" /\ ~ Listed(p, sem[t].waiters) /\ p \notin sem[t].grants
      /\ ~ (sem[t].kind = "mutex" /\ sem[t].owner = p /\ acquired[t] = 0)
      BY RunnerFacts
<1>4. ASSUME NEW q \in Pid, q # p, state[q] = "BLOCKED" => ~ Awaits(q, s)
      PROVE  state'[q] = state[q] /\ insn'[q] = insn[q]
      BY <1>4
<1>5. ASSUME NEW q \in Pid, Awaits(q, t) PROVE ~ Awaits(q, s)
      BY <1>5 DEF Awaits
<1>6. ASSUME NEW q \in Pid, Listed(q, sem[t].waiters) PROVE Waiting(q, t)'
      BY <1>1, <1>3, <1>4, <1>5, <1>6 DEF UsersOf, Waiting, Awaits
<1>7. ASSUME NEW q \in Pid, q \in sem[t].grants PROVE Granted(q, t)'
      BY <1>1, <1>3, <1>4, <1>7 DEF UsersOf, Granted
<1>8. ASSUME sem[t].kind = "mutex", sem[t].owner # None, acquired[t] = 0
      PROVE  Pending(sem[t].owner, t)'
  <2>1. sem[t].owner \in Pid \ {p} /\ Pending(sem[t].owner, t)
        BY <1>1, <1>3, <1>8 DEF SyncInv, SyncTypeOK, SemObject, UsersOf
  <2>2. QED BY <1>4, <2>1 DEF Pending, Awaits
<1>9. QED BY <1>1, <1>2, <1>6, <1>7, <1>8 DEF UsersOf

LEMMA WaitGrantedInv ==
  ASSUME SyncInv, SyncTypeOK', RunningIsCurrent', NEW p \in Pid, NEW op \in WaitOps,
         NEW s \in SemId, WaitGranted(p, op, s)
  PROVE  SyncInv'
<1>1. Executing(p, [op |-> op, id |-> s]) /\ ObjectOf(s) /\ UsersOf(s)
      BY InvOf DEF WaitGranted, Waits
<1>2. s \in InTable /\ Opened(op, s) = sem[s] /\ p \in sem[s].grants
      BY DEF WaitGranted, Opened, Created
<1>3. /\ sem'[s].kind = sem[s].kind /\ sem'[s].owner = sem[s].owner
      /\ sem'[s].count = sem[s].count /\ sem'[s].waiters = sem[s].waiters
      /\ sem'[s].grants = sem[s].grants \ {p}
      /\ \A t \in SemId \ {s} : sem'[t] = sem[t] /\ acquired'[t] = acquired[t]
      BY <1>2 DEF WaitGranted, SyncInv, SyncTypeOK, SemObject
<1>4. /\ state' = state
      /\ \A q \in Pid \ {p} : insn'[q] = insn[q]
      /\ insn'[p] = None
      BY DEF WaitGranted, Complete, Wake, WakeAll, SyncInv, SyncTypeOK, LifecycleTypeOK
<1>5. sem[s].kind = "sem"
      BY <1>1, <1>2 DEF ObjectOf, InTable, SyncInv, SyncTypeOK, SemObject
<1>6. ObjectOf(s)'
      BY <1>1, <1>3, <1>5, Zenon DEF ObjectOf
<1>7. state[p] = "RUNNING"
      BY <1>1, RunnerFacts, Zenon
<1>8. UsersOf(s)'
  <2>1. ~ Listed(p, sem[s].waiters)
        BY <1>1, <1>2, Zenon DEF UsersOf
  <2>2. ASSUME NEW q \in Pid, Listed(q, sem'[s].waiters) PROVE Waiting(q, s)'
    <3>1. q # p /\ Waiting(q, s)
          BY <1>1, <1>3, <2>1, <2>2, Zenon DEF UsersOf
    <3>2. state'[q] = state[q] /\ insn'[q] = insn[q]
          BY <1>4, <3>1
    <3>3. QED BY <1>3, <3>1, <3>2, Zenon DEF Waiting, Awaits
  <2>3. ASSUME NEW q \in Pid, q \in sem'[s].grants
        PROVE  Granted(q, s)' /\ ~ Listed(q, sem'[s].waiters)
    <3>1. q # p /\ q \in sem[s].grants
          BY <1>3, <2>3
    <3>2. Granted(q, s) /\ ~ Listed(q, sem'[s].waiters)
          BY <1>1, <1>3, <3>1, Zenon DEF UsersOf
    <3>3. state'[q] = state[q] /\ insn'[q] = insn[q]
          BY <1>4, <3>1
    <3>4. QED BY <3>2, <3>3, Zenon DEF Granted
  <2>4. sem'[s].kind # "mutex"
        BY <1>3, <1>5
  <2>5. QED BY <2>2, <2>3, <2>4, Zenon DEF UsersOf
<1>9. SleepersListed'
      BY <1>2, <1>3, <1>4, <1>7 DEF SleepersListed, SyncInv, UserInv, Awaits
<1>10. \A t \in SemId \ {s} : ObjectOf(t)' /\ UsersOf(t)'
       BY <1>1, <1>3, <1>4, OtherObjects
<1>11. QED BY <1>6, <1>8, <1>9, <1>10, OfInv

LEMMA WaitTakesInv ==
  ASSUME SyncInv, SyncTypeOK', RunningIsCurrent', NEW p \in Pid, NEW op \in WaitOps,
         NEW s \in SemId, WaitTakes(p, op, s)
  PROVE  SyncInv'
<1> DEFINE m == Opened(op, s)
<1>1. /\ Executing(p, [op |-> op, id |-> s]) /\ ObjectOf(s) /\ UsersOf(s)
      /\ m \in SemObject /\ m.count > 0 /\ p \notin m.grants
      BY InvOf, OpenedType DEF WaitTakes, Contends, Waits, SyncInv
<1>2. /\ m.kind # "none" /\ m.waiters = <<>>
      /\ m.kind = "mutex" => m.count = 1 /\ acquired[s] = 0 /\ m.grants = {}
      /\ m.grants = sem[s].grants
  <2>1. CASE s \in InTable
    <3>1. m = sem[s] /\ m.kind # "none"
          BY <2>1 DEF Opened, InTable
    <3> HIDE DEF m
    <3>2. QED BY <1>1, <3>1 DEF ObjectOf, SemObject
  <2>2. CASE s \notin InTable
    <3>1. sem[s].kind = "none" /\ m = Created(IF op = "LOCK" THEN "mutex" ELSE "sem")
          BY <2>2 DEF Opened, InTable
    <3> HIDE DEF m
    <3>2. QED BY <1>1, <3>1 DEF ObjectOf, Created
  <2>3. QED BY <2>1, <2>2
<1>3. /\ sem'[s].kind = m.kind /\ sem'[s].owner = IF m.kind = "mutex" THEN p ELSE m.owner
      /\ sem'[s].count = m.count - 1 /\ sem'[s].waiters = <<>>
      /\ sem'[s].grants = m.grants
      /\ acquired'[s] = acquired[s] + 1
      /\ \A t \in SemId \ {s} : sem'[t] = sem[t] /\ acquired'[t] = acquired[t]
  <2> HIDE DEF m
  <2>1. QED BY <1>1, <1>2 DEF WaitTakes, SyncInv, SyncTypeOK, SemObject, m
<1>4. /\ state' = state
      /\ \A q \in Pid \ {p} : insn'[q] = insn[q]
      /\ insn'[p] = None
      BY DEF WaitTakes, Complete, Wake, WakeAll, SyncInv, SyncTypeOK, LifecycleTypeOK
<1>5. Distinct(sem'[s].waiters) /\ \A q \in Pid : ~ Listed(q, sem'[s].waiters)
      BY <1>3 DEF Listed, Distinct
<1> HIDE DEF m
<1>6. ObjectOf(s)'
      BY <1>1, <1>2, <1>3, <1>5, NoneAssumption, SMTT(40) DEF ObjectOf, SemObject
<1>7. state[p] = "RUNNING"
      BY <1>1, RunnerFacts, Zenon
<1>8. UsersOf(s)'
  <2>1. ASSUME NEW q \in Pid, q \in sem'[s].grants PROVE Granted(q, s)'
    <3>1. q # p /\ Granted(q, s)
          BY <1>1, <1>2, <1>3, <2>1, Zenon DEF UsersOf
    <3>2. QED BY <1>4, <3>1 DEF Granted
  <2>2. sem'[s].kind = "mutex" => acquired'[s] # 0
        BY <1>2, <1>3
  <2>3. QED BY <1>5, <2>1, <2>2 DEF UsersOf
<1>9. SleepersListed'
  <2> SUFFICES ASSUME NEW q \in Pid, state'[q] = "BLOCKED", insn'[q] # None
               PROVE  \E t \in SemId : Awaits(q, t)' /\ Listed(q, sem'[t].waiters)
      BY DEF SleepersListed
  <2>1. q # p /\ insn'[q] = insn[q] /\ state[q] = "BLOCKED"
        BY <1>4, <1>7
  <2>2. PICK t \in SemId : Awaits(q, t) /\ Listed(q, sem[t].waiters)
        BY <2>1 DEF SleepersListed, SyncInv, UserInv
  <2>3. t # s
    <3>1. sem[s].waiters = <<>>
      <4>1. CASE s \in InTable
            BY <1>2, <4>1, Zenon DEF m, Opened
      <4>2. CASE s \notin InTable
            BY <1>1, <4>2, Zenon DEF InTable, ObjectOf
      <4>3. QED BY <4>1, <4>2
    <3>2. ~ Listed(q, <<>>)
          BY DEF Listed
    <3>3. QED BY <2>2, <3>1, <3>2, Zenon
  <2>4. QED BY <1>3, <2>1, <2>2, <2>3 DEF Awaits
<1>10. \A t \in SemId \ {s} : ObjectOf(t)' /\ UsersOf(t)'
       BY <1>1, <1>3, <1>4, OtherObjects, Zenon
<1>11. QED BY <1>6, <1>8, <1>9, <1>10, OfInv

LEMMA WaitBlocksInv ==
  ASSUME SyncInv, SyncTypeOK', RunningIsCurrent', NEW p \in Pid, NEW op \in WaitOps,
         NEW s \in SemId, WaitBlocks(p, op, s)
  PROVE  SyncInv'
<1>1. Executing(p, [op |-> op, id |-> s]) /\ ObjectOf(s) /\ UsersOf(s)
      BY InvOf DEF WaitBlocks, Contends, Waits
<1>2. s \in InTable /\ Opened(op, s) = sem[s] /\ sem[s].count = 0
      BY DEF WaitBlocks, Opened, Created, SyncInv, SyncTypeOK, SemObject
<1>3. /\ p \notin sem[s].grants /\ ~ (sem[s].kind = "mutex" /\ sem[s].owner = p)
      /\ sem[s].kind = "sem" => op = "SEM_WAIT"
      BY <1>2 DEF WaitBlocks, Contends, Waits, CanOpen, WaitOps
<1>4. /\ state[p] = "RUNNING" /\ ~ Listed(p, sem[s].waiters)
      BY <1>1, RunnerFacts
<1>5. /\ sem'[s].kind = sem[s].kind /\ sem'[s].owner = sem[s].owner
      /\ sem'[s].count = sem[s].count /\ sem'[s].waiters = Append(sem[s].waiters, p)
      /\ sem'[s].grants = sem[s].grants
      /\ \A t \in SemId \ {s} : sem'[t] = sem[t]
      /\ acquired' = acquired
      BY <1>2, <1>4 DEF WaitBlocks, IsWaiter, Listed, SyncInv, SyncTypeOK, SemObject
<1>6. /\ \A q \in Pid \ {p} : state'[q] = state[q] /\ insn'[q] = insn[q]
      /\ state'[p] = "BLOCKED" /\ insn'[p] = [op |-> op, id |-> s]
      BY DEF WaitBlocks, BlockIn, Leave, SyncInv, SyncTypeOK, LifecycleTypeOK
<1>7. /\ \A q \in Pid : Listed(q, sem'[s].waiters) <=> Listed(q, sem[s].waiters) \/ q = p
      /\ Distinct(sem'[s].waiters)
  <2>1. sem[s].waiters \in Seq(Pid) /\ Distinct(sem[s].waiters)
        BY <1>1 DEF ObjectOf, SyncInv, SyncTypeOK, SemObject
  <2>2. QED BY <1>4, <1>5, <2>1, AppendListed
<1>8. ObjectOf(s)'
      BY <1>1, <1>2, <1>5, <1>7, Zenon DEF ObjectOf, InTable
<1>9. UsersOf(s)'
  <2>1. ASSUME NEW q \in Pid, Listed(q, sem'[s].waiters) PROVE Waiting(q, s)'
    <3>1. CASE q = p
          BY <1>3, <1>5, <1>6, <3>1 DEF Waiting, Awaits
    <3>2. CASE q # p
      <4>1. Listed(q, sem[s].waiters)
            BY <1>7, <2>1, <3>2, Zenon
      <4>2. Waiting(q, s)
            BY <1>1, <4>1, Zenon DEF UsersOf
      <4>3. state'[q] = state[q] /\ insn'[q] = insn[q]
            BY <1>6, <3>2
      <4>4. QED BY <1>5, <4>2, <4>3, Zenon DEF Waiting, Awaits
    <3>3. QED BY <3>1, <3>2
  <2>2. ASSUME NEW q \in Pid, q \in sem'[s].grants
        PROVE  Granted(q, s)' /\ ~ Listed(q, sem'[s].waiters)
        BY <1>1, <1>3, <1>5, <1>6, <1>7, <2>2, Zenon DEF UsersOf, Granted
  <2>3. ASSUME sem'[s].kind = "mutex", sem'[s].owner # None, acquired'[s] = 0
        PROVE  Pending(sem[s].owner, s)'
    <3>1. sem[s].owner \in Pid \ {p} /\ Pending(sem[s].owner, s)
          BY <1>1, <1>3, <1>5, <2>3, Zenon DEF UsersOf, SyncInv, SyncTypeOK, SemObject
    <3>2. QED BY <1>5, <1>6, <3>1 DEF Pending, Awaits
  <2>4. QED BY <2>1, <2>2, <2>3 DEF UsersOf
<1>10. SleepersListed'
  <2> SUFFICES ASSUME NEW q \in Pid, state'[q] = "BLOCKED", insn'[q] # None
               PROVE  \E t \in SemId : Awaits(q, t)' /\ Listed(q, sem'[t].waiters)
      BY DEF SleepersListed
  <2>1. CASE q = p
    <3>1. Awaits(q, s)'
          BY <1>6, <2>1 DEF Awaits
    <3>2. QED BY <1>7, <2>1, <3>1
  <2>2. CASE q # p
    <3>1. PICK t \in SemId : Awaits(q, t) /\ Listed(q, sem[t].waiters)
          BY <1>6, <2>2 DEF SleepersListed, SyncInv, UserInv
    <3>2. Awaits(q, t)' /\ Listed(q, sem'[t].waiters)
          BY <1>5, <1>6, <1>7, <2>2, <3>1, Zenon DEF Awaits
    <3>3. QED BY <3>2
  <2>3. QED BY <2>1, <2>2
<1>11. \A t \in SemId \ {s} : ObjectOf(t)' /\ UsersOf(t)'
       BY <1>1, <1>5, <1>6, OtherObjects
<1>12. QED BY <1>8, <1>9, <1>10, <1>11, OfInv

\* What the poster of an object knows of it: a mutex is its own, and its LOCK
\* is completed.
LEMMA PosterHolds ==
  ASSUME SyncInv, NEW p \in Pid, NEW op \in PostOps, NEW s \in SemId,
         Executing(p, [op |-> op, id |-> s]), MayPost(p, s)
  PROVE  /\ sem[s].kind \in {"sem", "mutex"}
         /\ sem[s].kind = "mutex" =>
              sem[s].owner = p /\ acquired[s] = 1 /\ sem[s].count = 0 /\ sem[s].grants = {}
<1>1. sem[s].kind \in {"sem", "mutex"}
      BY DEF MayPost, InTable, SyncInv, SyncTypeOK, SemObject
<1>2. ASSUME sem[s].kind = "mutex"
      PROVE  sem[s].owner = p /\ acquired[s] = 1 /\ sem[s].count = 0 /\ sem[s].grants = {}
  <2>1. sem[s].owner = p /\ ObjectOf(s)
        BY <1>2, InvOf DEF MayPost
  <2>2. acquired[s] # 0
        BY <1>2, <2>1, RunnerFacts DEF WaitOps, PostOps
  <2>3. QED BY <1>2, <2>1, <2>2, NoneAssumption DEF ObjectOf
<1>3. QED BY <1>1, <1>2

LEMMA PostReturnsInv ==
  ASSUME SyncInv, SyncTypeOK', RunningIsCurrent', NEW p \in Pid, NEW op \in PostOps,
         NEW s \in SemId, PostReturns(p, op, s)
  PROVE  SyncInv'
<1>1. /\ Executing(p, [op |-> op, id |-> s]) /\ ObjectOf(s) /\ UsersOf(s)
      /\ MayPost(p, s) /\ sem[s].waiters = <<>>
      BY InvOf DEF PostReturns
<1>2. /\ sem[s].kind \in {"sem", "mutex"}
      /\ sem[s].kind = "mutex" =>
           acquired[s] = 1 /\ sem[s].count = 0 /\ sem[s].grants = {}
      BY <1>1, PosterHolds
<1>3. /\ sem'[s].kind = sem[s].kind
      /\ sem'[s].waiters = <<>> /\ sem'[s].grants = sem[s].grants
      /\ sem[s].kind = "mutex" => sem'[s].owner = None /\ sem'[s].count = 1
      /\ acquired'[s] = acquired[s] - 1
      /\ \A t \in SemId \ {s} : sem'[t] = sem[t] /\ acquired'[t] = acquired[t]
      BY <1>1, <1>2 DEF PostReturns, SyncInv, SyncTypeOK, SemObject
<1>4. /\ state' = state
      /\ \A q \in Pid \ {p} : insn'[q] = insn[q]
      /\ insn'[p] = None
      BY DEF PostReturns, Complete, Wake, WakeAll, SyncInv, SyncTypeOK, LifecycleTypeOK
<1>5. Distinct(sem'[s].waiters) /\ \A q \in Pid : ~ Listed(q, sem'[s].waiters)
      BY <1>3 DEF Listed, Distinct
<1>6. ObjectOf(s)'
      BY <1>2, <1>3, <1>5 DEF ObjectOf
<1>7. state[p] = "RUNNING" /\ p \notin sem[s].grants
      BY <1>1, RunnerFacts DEF PostOps
<1>8. UsersOf(s)'
  <2>1. ASSUME NEW q \in Pid, q \in sem'[s].grants PROVE Granted(q, s)'
    <3>1. q # p /\ Granted(q, s)
          BY <1>1, <1>3, <1>7, <2>1 DEF UsersOf
    <3>2. QED BY <1>4, <3>1 DEF Granted
  <2>2. QED BY <1>3, <1>5, <2>1 DEF UsersOf
<1>9. SleepersListed'
  <2> SUFFICES ASSUME NEW q \in Pid, state'[q] = "BLOCKED", insn'[q] # None
               PROVE  \E t \in SemId : Awaits(q, t)' /\ Listed(q, sem'[t].waiters)
      BY DEF SleepersListed
  <2>1. q # p /\ insn'[q] = insn[q] /\ state[q] = "BLOCKED"
        BY <1>4, <1>7
  <2>2. PICK t \in SemId : Awaits(q, t) /\ Listed(q, sem[t].waiters)
        BY <2>1 DEF SleepersListed, SyncInv, UserInv
  <2>3. t # s
    <3>1. ~ Listed(q, <<>>)
          BY DEF Listed
    <3>2. QED BY <1>1, <2>2, <3>1, Zenon
  <2>4. QED BY <1>3, <2>1, <2>2, <2>3, Zenon DEF Awaits
<1>10. \A t \in SemId \ {s} : ObjectOf(t)' /\ UsersOf(t)'
       BY <1>1, <1>3, <1>4, OtherObjects, Zenon
<1>11. QED BY <1>6, <1>8, <1>9, <1>10, OfInv

LEMMA PostHandsOverInv ==
  ASSUME SyncInv, SyncTypeOK', RunningIsCurrent', NEW p \in Pid, NEW op \in PostOps,
         NEW s \in SemId, PostHandsOver(p, op, s)
  PROVE  SyncInv'
<1> DEFINE ws == sem[s].waiters
           w == Head(ws)
<1>1. /\ Executing(p, [op |-> op, id |-> s]) /\ ObjectOf(s) /\ UsersOf(s)
      /\ MayPost(p, s) /\ ws # <<>> /\ ws \in Seq(Pid)
      BY InvOf DEF PostHandsOver, SyncInv, SyncTypeOK, SemObject
<1>2. /\ sem[s].kind \in {"sem", "mutex"}
      /\ sem[s].kind = "mutex" =>
           acquired[s] = 1 /\ sem[s].count = 0 /\ sem[s].grants = {}
  <2>1. Executing(p, [op |-> op, id |-> s]) /\ MayPost(p, s)
        BY <1>1
  <2>2. QED BY <2>1, PosterHolds
<1>3. /\ w \in Pid /\ Tail(ws) \in Seq(Pid) /\ Listed(w, ws)
      /\ \A q \in Pid : Listed(q, Tail(ws)) => Listed(q, ws) /\ q # w
      /\ \A q \in Pid : Listed(q, ws) => q = w \/ Listed(q, Tail(ws))
      /\ Distinct(Tail(ws))
      BY <1>1, TailListed, Zenon DEF ObjectOf
<1>4. /\ sem'[s].kind = sem[s].kind
      /\ sem'[s].waiters = Tail(ws)
      /\ sem[s].kind = "mutex" => /\ sem'[s].owner = w /\ sem'[s].count = 0
                                  /\ sem'[s].grants = {}
      /\ sem[s].kind = "sem" => /\ sem'[s].count = sem[s].count
                                /\ sem'[s].grants \subseteq sem[s].grants \cup {w}
      /\ acquired'[s] = acquired[s] - 1
      /\ \A t \in SemId \ {s} : sem'[t] = sem[t] /\ acquired'[t] = acquired[t]
      BY <1>1, <1>2 DEF PostHandsOver, WithGrant, SyncInv, SyncTypeOK, SemObject
<1>5. /\ \A q \in Pid \ {w} : state'[q] = state[q]
      /\ state'[w] = IF state[w] = "BLOCKED" THEN "READY" ELSE state[w]
      /\ \A q \in Pid \ {p} : insn'[q] = insn[q]
      BY <1>3 DEF PostHandsOver, Complete, Wake, WakeAll, SyncInv, SyncTypeOK, LifecycleTypeOK
<1>6. state[p] = "RUNNING" /\ ~ Listed(p, ws) /\ p \notin sem[s].grants
      BY <1>1, RunnerFacts DEF PostOps
<1>7. Waiting(w, s) /\ w # p
      BY <1>1, <1>3, <1>6, Zenon DEF UsersOf
<1> HIDE DEF w, ws
<1>8. ObjectOf(s)'
  <2>1. ws # <<>> => sem[s].count = 0
        BY <1>1, Zenon DEF ObjectOf, ws
  <2>2. sem[s].count = 0
        BY <1>1, <2>1, Zenon
  <2>3. sem'[s].kind # "none" /\ sem'[s].count = 0 /\ Distinct(sem'[s].waiters)
    <3>1. CASE sem[s].kind = "mutex"
          BY <1>3, <1>4, <3>1
    <3>2. CASE sem[s].kind = "sem"
          BY <1>3, <1>4, <2>2, <3>2
    <3>3. QED BY <1>2, <3>1, <3>2
  <2>4. ASSUME sem'[s].kind = "mutex"
        PROVE  sem'[s].grants = {} /\ acquired'[s] = 0 /\ sem'[s].owner # None
    <3>1. sem[s].kind = "mutex" /\ w # None
          BY <1>3, <1>4, <2>4, NoneAssumption
    <3>2. acquired[s] = 1 /\ acquired'[s] = acquired[s] - 1
          BY <1>2, <1>4, <3>1
    <3>3. QED BY <1>4, <3>1, <3>2
  <2>5. QED BY <2>3, <2>4 DEF ObjectOf
<1>9. UsersOf(s)'
  <2>1. ASSUME NEW q \in Pid, Listed(q, sem'[s].waiters) PROVE Waiting(q, s)'
    <3>1. q # w /\ q # p /\ Waiting(q, s)
          BY <1>1, <1>3, <1>4, <1>6, <2>1, Zenon DEF UsersOf, ws
    <3>2. QED BY <1>4, <1>5, <3>1 DEF Waiting, Awaits
  <2>2. ASSUME NEW q \in Pid, q \in sem'[s].grants
        PROVE  Granted(q, s)' /\ ~ Listed(q, sem'[s].waiters)
    <3>1. sem[s].kind = "sem"
          BY <1>2, <1>4, <2>2
    <3>2. CASE q = w
      <4>1. state[w] = "EXITED" \/ insn[w] = [op |-> "SEM_WAIT", id |-> s]
            BY <1>7, <3>1 DEF Waiting, Awaits
      <4>2. Granted(q, s)'
            BY <1>3, <1>5, <1>7, <3>2, <4>1 DEF Granted, Waiting
      <4>3. QED BY <1>3, <1>4, <3>2, <4>2
    <3>3. CASE q # w
      <4>1. q \in sem[s].grants /\ q # p
            BY <1>4, <1>6, <2>2, <3>1, <3>3, Zenon
      <4>2. Granted(q, s) /\ ~ Listed(q, ws)
            BY <1>1, <4>1, Zenon DEF UsersOf, ws
      <4>3. QED BY <1>3, <1>4, <1>5, <3>3, <4>1, <4>2, Zenon DEF Granted
    <3>4. QED BY <3>2, <3>3
  <2>3. ASSUME sem'[s].kind = "mutex" PROVE Pending(sem[s].owner, s)'
    <3>1. sem'[s].owner = w
          BY <1>4, <2>3, Zenon
    <3>2. state'[w] = "EXITED" \/ (state'[w] = "READY" /\ Awaits(w, s))
          BY <1>3, <1>5, <1>7 DEF Waiting
    <3>3. insn'[w] = insn[w]
          BY <1>3, <1>5, <1>7
    <3>4. QED BY <3>1, <3>2, <3>3 DEF Pending, Awaits
  <2>4. QED BY <2>1, <2>2, <2>3 DEF UsersOf
<1>10. SleepersListed'
  <2> SUFFICES ASSUME NEW q \in Pid, state'[q] = "BLOCKED", insn'[q] # None
               PROVE  \E t \in SemId : Awaits(q, t)' /\ Listed(q, sem'[t].waiters)
      BY DEF SleepersListed
  <2>1. q # w /\ state[q] = "BLOCKED" /\ q # p /\ insn'[q] = insn[q]
        BY <1>3, <1>5, <1>6
  <2>2. PICK t \in SemId : Awaits(q, t) /\ Listed(q, sem[t].waiters)
        BY <2>1 DEF SleepersListed, SyncInv, UserInv
  <2>3. Listed(q, sem'[t].waiters)
        BY <1>3, <1>4, <2>1, <2>2 DEF ws
  <2>4. Awaits(q, t)'
        BY <2>1, <2>2 DEF Awaits
  <2>5. QED BY <2>3, <2>4
<1>11. \A t \in SemId \ {s} : ObjectOf(t)' /\ UsersOf(t)'
  <2>1. \A q \in Pid \ {p} :
          /\ insn'[q] = insn[q]
          /\ state'[q] = state[q] \/ (state[q] = "BLOCKED" /\ Awaits(q, s))
        BY <1>5, <1>7 DEF Waiting
  <2>2. QED BY <1>1, <1>4, <2>1, OtherObjects, Zenon DEF PostOps
<1>12. QED BY <1>8, <1>9, <1>10, <1>11, OfInv

LEMMA SyncNextInv == SyncInv /\ [SyncNext]_vars => SyncInv'
<1> SUFFICES ASSUME SyncInv, [SyncNext]_vars PROVE SyncInv'
    OBVIOUS
<1>1. SyncTypeOK'
      BY SyncNextType DEF SyncInv
<1>2. RunningIsCurrent'
      BY SyncTakesLifecycleSteps, RunningKept DEF SyncInv, SyncTypeOK
<1>3. ASSUME NEW p \in Pid, NEW op \in WaitOps, NEW s \in SemId, WaitStep(p, op, s)
      PROVE  SyncInv'
  <2>1. CASE WaitRefused(p, op, s) \/ WaitByOwner(p, op, s) \/ WaitOverflows(p, op, s)
        BY <1>1, <1>2, <2>1, ErrorExitInv DEF WaitRefused, WaitByOwner, WaitOverflows
  <2>2. QED BY <1>1, <1>2, <1>3, <2>1, WaitGrantedInv, WaitBlocksInv, WaitTakesInv DEF WaitStep
<1>4. ASSUME NEW p \in Pid, NEW op \in PostOps, NEW s \in SemId, PostStep(p, op, s)
      PROVE  SyncInv'
  <2>1. CASE PostRefused(p, op, s)
        BY <1>1, <1>2, <2>1, ErrorExitInv DEF PostRefused
  <2>2. QED BY <1>1, <1>2, <1>4, <2>1, PostHandsOverInv, PostReturnsInv DEF PostStep
<1>5. ASSUME NEW p \in Pid, Background(p) \/ KillCommand(p), UNCHANGED syncVars
      PROVE  SyncInv'
      BY <1>1, <1>2, <1>5, BackgroundInv
<1>6. CASE UNCHANGED vars
  <2>1. ObjectInv'
    <3>1. (NoneUnused /\ NoIdleToken /\ MutexNoGrants)'
          BY <1>6 DEF vars, syncVars, SyncInv, ObjectInv, NoneUnused, NoIdleToken, MutexNoGrants
    <3>2. MutualExclusion'
          BY <1>6 DEF vars, syncVars, SyncInv, ObjectInv, MutualExclusion
    <3>3. WaitersOnce'
          BY <1>6 DEF vars, syncVars, SyncInv, ObjectInv, WaitersOnce
    <3>4. QED BY <3>1, <3>2, <3>3 DEF ObjectInv
  <2>2. UserInv'
    <3>1. (WaitersAsleep /\ SemWaiters)'
          BY <1>6 DEF vars, executorVars, syncVars, SyncInv, UserInv, WaitersAsleep, SemWaiters
    <3>2. (GrantsAwake /\ WaitersNotGranted)'
          BY <1>6 DEF vars, executorVars, syncVars, SyncInv, UserInv, GrantsAwake,
                      WaitersNotGranted
    <3>3. (OwnerPending /\ SleepersListed)'
          BY <1>6 DEF vars, executorVars, syncVars, SyncInv, UserInv, OwnerPending,
                      SleepersListed, Awaits
    <3>4. QED BY <3>1, <3>2, <3>3 DEF UserInv
  <2>3. QED BY <1>1, <1>2, <2>1, <2>2 DEF SyncInv
<1>7. QED BY <1>3, <1>4, <1>5, <1>6 DEF SyncNext, QuietNext, SyncStep, KillStep

LEMMA SyncInvAlways == SyncSpec => []SyncInv
BY SyncInitInv, SyncNextInv, PTL DEF SyncSpec

-----------------------------------------------------------------------------
(***************************************************************************)
(* What follows                                                            *)
(***************************************************************************)
\* The tables keep their types whatever processes wait, post, exit or are
\* killed; in particular no count goes below zero.
THEOREM SyncTypeCorrect == SyncSpec => []SyncTypeOK
<1>1. SyncInv => SyncTypeOK
      BY DEF SyncInv
<1>2. QED BY <1>1, SyncInvAlways, PTL

\* Mutexes exclude, for any number of processes, kills included: sync_wait
\* and sync_post let at most one LOCK be held at a time.
THEOREM MutexesExclude == SyncSpec => []MutualExclusion
<1>1. SyncInv => MutualExclusion
      BY DEF SyncInv, ObjectInv
<1>2. QED BY <1>1, SyncInvAlways, PTL

\* Nobody waits beside a free token (sync_wait, sync_post).
THEOREM NoTokenIsIdle == SyncSpec => []NoIdleToken
<1>1. SyncInv => NoIdleToken
      BY DEF SyncInv, ObjectInv
<1>2. QED BY <1>1, SyncInvAlways, PTL

\* Tokens are reserved only for processes that are on their way to take them,
\* and only sleepers are listed (add_waiter, pop_waiter, add_grant, take_grant).
THEOREM ListsAreCurrent == SyncSpec => []WaitersInPlace
<1>1. SyncInv => WaitersInPlace
      BY DEF SyncInv, UserInv, WaitersInPlace
<1>2. QED BY <1>1, SyncInvAlways, PTL

\* No process sleeps in SEM_WAIT or LOCK without being listed, exactly once,
\* where the next post looks for it: when waiters[] is full sync_wait reports
\* an error instead of losing the process.
THEOREM NoSleeperIsLost == SyncSpec => []SleepersRegistered
<1>1. SyncInv => SleepersRegistered
  <2> SUFFICES ASSUME SyncInv, NEW p \in Pid, state[p] = "BLOCKED", NEW s \in SemId
               PROVE  Cardinality({i \in DOMAIN sem[s].waiters : sem[s].waiters[i] = p})
                        = IF Awaits(p, s) THEN 1 ELSE 0
      BY DEF SleepersRegistered, Awaits
  <2> DEFINE I == {i \in DOMAIN sem[s].waiters : sem[s].waiters[i] = p}
  <2>1. CASE Awaits(p, s)
    <3>1. insn[p] # None
          BY <2>1, NoInsnAssumption DEF Awaits, SyncInsn
    <3>2. PICK t \in SemId : Awaits(p, t) /\ Listed(p, sem[t].waiters)
          BY <3>1 DEF SyncInv, UserInv, SleepersListed
    <3>3. t = s
          BY <2>1, <3>2 DEF Awaits
    <3>4. PICK i \in DOMAIN sem[s].waiters : sem[s].waiters[i] = p
          BY <3>2, <3>3 DEF Listed
    <3>5. I = {i}
          BY <3>4 DEF SyncInv, ObjectInv, WaitersOnce, Distinct
    <3>6. QED BY <2>1, <3>5, FS_Singleton, Zenon
  <2>2. CASE ~ Awaits(p, s)
    <3>1. ~ Listed(p, sem[s].waiters)
          BY <2>2, InvOf DEF UsersOf, Waiting, Awaits
    <3>2. I = {}
          BY <3>1 DEF Listed
    <3>3. QED BY <2>2, <3>2, FS_EmptySet
  <2>3. QED BY <2>1, <2>2
<1>2. QED BY <1>1, SyncInvAlways, PTL

\* An owned mutex changes hands only by its owner's own post: nobody takes it
\* between sync_post, which names the next owner, and that owner's dispatch.
THEOREM OwnersAreNotBarged == SyncSpec => NoBarging
<1> DEFINE A == \A s \in SemId :
                  sem[s].owner # None /\ sem'[s].owner # sem[s].owner =>
                    current = sem[s].owner /\ acquired'[s] = acquired[s] - 1
<1>1. SyncInv /\ [SyncNext]_vars => [A]_vars
  <2> SUFFICES ASSUME SyncInv, SyncNext, NEW s \in SemId,
                      sem[s].owner # None, sem'[s].owner # sem[s].owner
               PROVE  current = sem[s].owner /\ acquired'[s] = acquired[s] - 1
      OBVIOUS
  <2>1. /\ ObjectOf(s) /\ sem[s] \in SemObject /\ DOMAIN sem = SemId
        /\ acquired \in [SemId -> Int]
        BY InvOf DEF SyncInv, SyncTypeOK
  <2>2. s \in InTable
        BY <2>1 DEF ObjectOf, InTable
  <2>3. ASSUME NEW p \in Pid, NEW op \in WaitOps, NEW t \in SemId, WaitStep(p, op, t)
        PROVE  FALSE
    <3>1. sem' # sem
          OBVIOUS
    <3>2. CASE WaitGranted(p, op, t) \/ WaitBlocks(p, op, t)
      <4>1. t = s /\ Opened(op, t) = sem[s]
            BY <2>1, <2>2, <3>2 DEF WaitGranted, WaitBlocks, Opened
      <4>2. CASE WaitGranted(p, op, t)
            BY <2>1, <4>1, <4>2 DEF WaitGranted, SemObject
      <4>3. CASE WaitBlocks(p, op, t)
            BY <2>1, <4>1, <4>3 DEF WaitBlocks, SemObject
      <4>4. QED BY <3>2, <4>2, <4>3
    <3>3. CASE WaitTakes(p, op, t)
      <4>1. t = s /\ Opened(op, t) = sem[s]
            BY <2>1, <2>2, <3>3 DEF WaitTakes, Opened
      <4>2. sem[s].kind = "mutex" /\ sem[s].count > 0
            BY <2>1, <3>3, <4>1 DEF WaitTakes, SemObject
      <4>3. QED BY <2>1, <4>2 DEF ObjectOf
    <3>4. QED BY <2>3, <3>1, <3>2, <3>3, Zenon
              DEF WaitStep, WaitRefused, WaitByOwner, WaitOverflows, syncVars
  <2>4. ASSUME NEW p \in Pid, NEW op \in PostOps, NEW t \in SemId, PostStep(p, op, t)
        PROVE  current = sem[s].owner /\ acquired'[s] = acquired[s] - 1
    <3>1. PostHandsOver(p, op, t) \/ PostReturns(p, op, t)
          BY <2>4 DEF PostStep, PostRefused, syncVars
    <3>2. t = s /\ current = p /\ MayPost(p, s) /\ acquired'[s] = acquired[s] - 1
          BY <2>1, <3>1 DEF PostHandsOver, PostReturns, Executing
    <3>3. sem[s].kind = "mutex"
      <4>1. CASE PostHandsOver(p, op, t)
            BY <2>1, <3>2, <4>1 DEF PostHandsOver, SemObject
      <4>2. CASE PostReturns(p, op, t)
            BY <2>1, <3>2, <4>2 DEF PostReturns, SemObject
      <4>3. QED BY <3>1, <4>1, <4>2
    <3>4. QED BY <3>2, <3>3 DEF MayPost
  <2>5. sem' # sem
        OBVIOUS
  <2>6. QED BY <2>3, <2>4, <2>5 DEF SyncNext, QuietNext, SyncStep, KillStep, syncVars
<1>2. QED BY <1>1, SyncInvAlways, PTL DEF SyncSpec, NoBarging

LEMMA Grants ==
  ASSUME NEW g \in SUBSET Pid
  PROVE  /\ Cardinality(g) \in Nat
         /\ \A q \in g : Cardinality(g \ {q}) = Cardinality(g) - 1
         /\ \A q \in Pid \ g : /\ Cardinality(g \cup {q}) = Cardinality(g) + 1
                               /\ Cardinality(g) < Cardinality(Pid)
<1>1. IsFiniteSet(g) /\ Cardinality(g) \in Nat /\ Cardinality(Pid) \in Nat
      BY SyncAssumption, FS_Subset, FS_CardinalityType
<1>2. \A q \in g : Cardinality(g \ {q}) = Cardinality(g) - 1
      BY <1>1, FS_RemoveElement, Zenon
<1>3. ASSUME NEW q \in Pid \ g
      PROVE  /\ Cardinality(g \cup {q}) = Cardinality(g) + 1
             /\ Cardinality(g) < Cardinality(Pid)
  <2>1. Cardinality(g \cup {q}) = Cardinality(g) + 1
        BY <1>1, FS_AddElement, Zenon
  <2>2. Cardinality(g \cup {q}) <= Cardinality(Pid)
        BY SyncAssumption, FS_Subset
  <2>3. QED BY <1>1, <2>1, <2>2
<1>4. QED BY <1>1, <1>2, <1>3

TokensOf(m, a) == m.count + Cardinality(m.grants) + a = 1

\* One step of a semaphore that is in the table when the step ends.
LEMMA TokensKept ==
  ASSUME Cardinality(Pid) <= MaxWaiters, SyncInv, TokensConserved, [SyncNext]_vars,
         NEW s \in SemId, sem'[s].kind = "sem"
  PROVE  TokensOf(sem'[s], acquired'[s])
<1> USE DEF TokensOf
<1>1. /\ ObjectOf(s) /\ UsersOf(s) /\ sem[s] \in SemObject /\ DOMAIN sem = SemId
      /\ acquired \in [SemId -> Int]
      /\ sem[s].kind = "sem" => TokensOf(sem[s], acquired[s])
      /\ Cardinality(sem[s].grants) \in Nat
      BY InvOf, Grants, Zenon DEF SyncInv, SyncTypeOK, SemObject, TokensConserved
<1>2. CASE sem'[s] = sem[s] /\ acquired'[s] = acquired[s]
      BY <1>1, <1>2
<1>3. ASSUME NEW p \in Pid, NEW op \in WaitOps, NEW t \in SemId, WaitStep(p, op, t)
      PROVE  TokensOf(sem'[s], acquired'[s])
  <2>1. CASE \/ t # s
             \/ WaitRefused(p, op, t) \/ WaitByOwner(p, op, t) \/ WaitOverflows(p, op, t)
        BY <1>1, <1>2, <1>3, <2>1
           DEF WaitStep, WaitRefused, WaitByOwner, WaitOverflows, WaitGranted, WaitBlocks,
               WaitTakes, syncVars
  <2>2. CASE t = s /\ WaitGranted(p, op, s)
    <3>1. Opened(op, s) = sem[s] /\ p \in sem[s].grants
          BY <2>2 DEF WaitGranted, Opened, Created
    <3>2. /\ sem'[s].kind = sem[s].kind /\ sem'[s].count = sem[s].count
          /\ sem'[s].grants = sem[s].grants \ {p} /\ acquired'[s] = acquired[s] + 1
          BY <1>1, <2>2, <3>1 DEF WaitGranted, SemObject
    <3>3. Cardinality(sem[s].grants \ {p}) = Cardinality(sem[s].grants) - 1
          BY <1>1, <3>1, Grants DEF SemObject
    <3>4. /\ sem[s].count \in Nat /\ acquired[s] \in Int
          /\ Cardinality(sem[s].grants) \in Nat
          BY <1>1, Zenon DEF SemObject
    <3>5. TokensOf(sem[s], acquired[s])
          BY <1>1, <3>2, Zenon
    <3>6. Cardinality(sem'[s].grants) = Cardinality(sem[s].grants) - 1
          BY <3>2, <3>3, Zenon
    <3>7. QED BY <3>2, <3>4, <3>5, <3>6
  <2>3. CASE t = s /\ WaitBlocks(p, op, s)
    <3>1. Opened(op, s) = sem[s] /\ acquired' = acquired
          BY <2>3 DEF WaitBlocks, Opened, Created
    <3>2. /\ sem'[s].kind = sem[s].kind /\ sem'[s].count = sem[s].count
          /\ sem'[s].grants = sem[s].grants
          BY <1>1, <2>3, <3>1 DEF WaitBlocks, SemObject
    <3>3. QED BY <1>1, <3>1, <3>2
  <2>4. CASE t = s /\ WaitTakes(p, op, s)
    <3> DEFINE m == Opened(op, s)
    <3>1. m \in SemObject /\ acquired'[s] = acquired[s] + 1
          BY <1>1, <2>4, OpenedType DEF WaitTakes, SyncInv
    <3>2. m.kind = "sem" => TokensOf(m, acquired[s])
      <4>1. CASE s \in InTable
            BY <1>1, <4>1 DEF Opened
      <4>2. CASE s \notin InTable
        <5>1. acquired[s] = 0
              BY <1>1, <4>2 DEF InTable, ObjectOf
        <5>2. m = Created(IF op = "LOCK" THEN "mutex" ELSE "sem")
              BY <4>2 DEF Opened
        <5>3. m.count = 1 /\ m.grants = {}
              BY <5>2 DEF Created
        <5>4. QED BY <5>1, <5>3, FS_EmptySet
      <4>3. QED BY <4>1, <4>2
    <3> HIDE DEF m
    <3>3. /\ sem'[s].kind = m.kind /\ sem'[s].count = m.count - 1
          /\ sem'[s].grants = m.grants
          BY <1>1, <2>4, <3>1 DEF WaitTakes, SemObject, m
    <3>4. Cardinality(m.grants) \in Nat /\ m.count \in Nat
          BY <3>1, Grants DEF SemObject
    <3>5. QED BY <1>1, <3>1, <3>2, <3>3, <3>4
  <2>5. QED BY <1>3, <2>1, <2>2, <2>3, <2>4, Zenon DEF WaitStep
<1>4. ASSUME NEW p \in Pid, NEW op \in PostOps, NEW t \in SemId, PostStep(p, op, t)
      PROVE  TokensOf(sem'[s], acquired'[s])
  <2>1. CASE t # s \/ PostRefused(p, op, t)
        BY <1>1, <1>2, <1>4, <2>1 DEF PostStep, PostRefused, PostHandsOver, PostReturns, syncVars
  <2>2. CASE t = s /\ PostHandsOver(p, op, s)
    <3> DEFINE w == Head(sem[s].waiters)
    <3>1. w \in Pid /\ Listed(w, sem[s].waiters)
          BY <1>1, <2>2, TailListed DEF PostHandsOver, SemObject
    <3>2. w \notin sem[s].grants
          BY <1>1, <3>1, Zenon DEF UsersOf
    <3>3. /\ Cardinality(sem[s].grants \cup {w}) = Cardinality(sem[s].grants) + 1
          /\ Cardinality(sem[s].grants) < Cardinality(Pid)
          BY <1>1, <3>1, <3>2, Grants, Zenon DEF SemObject
    <3>4. Cardinality(sem[s].grants) < MaxWaiters
          BY <1>1, <3>3, SyncAssumption, FS_CardinalityType
    <3>5. WithGrant(sem[s].grants, w) = sem[s].grants \cup {w}
          BY <3>4 DEF WithGrant
    <3>6. /\ sem[s].kind = "sem" /\ sem'[s].count = sem[s].count
          /\ sem'[s].grants = WithGrant(sem[s].grants, w) /\ acquired'[s] = acquired[s] - 1
          BY <1>1, <2>2 DEF PostHandsOver, SemObject
    <3> HIDE DEF w
    <3>7. /\ TokensOf(sem[s], acquired[s]) /\ sem[s].count \in Nat /\ acquired[s] \in Int
          /\ Cardinality(sem[s].grants) \in Nat
          BY <1>1, <3>6, Zenon DEF SemObject
    <3>8. Cardinality(sem'[s].grants) = Cardinality(sem[s].grants) + 1
          BY <3>3, <3>5, <3>6, Zenon
    <3>9. QED BY <3>6, <3>7, <3>8
  <2>3. CASE t = s /\ PostReturns(p, op, s)
    <3>1. /\ sem[s].kind = "sem" /\ sem'[s].count = sem[s].count + 1
          /\ sem'[s].grants = sem[s].grants /\ acquired'[s] = acquired[s] - 1
          BY <1>1, <2>3 DEF PostReturns, SemObject
    <3>2. /\ TokensOf(sem[s], acquired[s]) /\ sem[s].count \in Nat /\ acquired[s] \in Int
          /\ Cardinality(sem[s].grants) \in Nat
          BY <1>1, <3>1, Zenon DEF SemObject
    <3>3. Cardinality(sem'[s].grants) = Cardinality(sem[s].grants)
          BY <3>1, Zenon
    <3>4. QED BY <3>1, <3>2, <3>3
  <2>4. QED BY <1>4, <2>1, <2>2, <2>3 DEF PostStep
<1>5. QED BY <1>2, <1>3, <1>4
          DEF SyncNext, QuietNext, SyncStep, KillStep, vars, syncVars

\* No token is made or lost, as long as there are not more processes than
\* grants[] has places: sync_post wakes a waiter without reserving a token for
\* it when grants[] is full.
THEOREM TokensAreConserved ==
  ASSUME Cardinality(Pid) <= MaxWaiters
  PROVE  SyncSpec => []TokensConserved
<1>1. SyncInit => TokensConserved
      BY DEF SyncInit, TokensConserved, Unused
<1>2. SyncInv /\ TokensConserved /\ [SyncNext]_vars => TokensConserved'
      BY TokensKept DEF TokensConserved, TokensOf
<1>3. QED BY <1>1, <1>2, SyncInvAlways, PTL DEF SyncSpec
=============================================================================
