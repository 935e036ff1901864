--------------------------------- MODULE Sync ---------------------------------
(***************************************************************************)
(* sync.c: counting semaphores and mutexes, with the SEM_WAIT, SEM_POST,   *)
(* LOCK and UNLOCK cases of execute_instruction (runtime.c:276-325).       *)
(*                                                                         *)
(* An instruction is [op, id].  find_sem's table of g_sems is a function   *)
(* from ids to objects; an id that is not in the table has kind "none".    *)
(***************************************************************************)
EXTENDS Executor, Integers, Sequences, FiniteSets

CONSTANTS SemId,        \* ids a workload may name
          MaxSems,      \* MOSRT_MAX_SEMAPHORES, the size of the table
          MaxWaiters,   \* MOSRT_SYNC_WAITERS, the size of waiters[] and grants[]
          MaxSurplus    \* bound: completed posts exceed completed waits by at most this

VARIABLES sem,          \* sem[s]: the mosrt_sem_t with id s
          acquired      \* history: completed waits minus completed posts on s

ASSUME SyncAssumption ==
  /\ MaxSems \in Nat \ {0}
  /\ MaxWaiters \in Nat \ {0}
  /\ MaxSurplus \in Nat
  /\ IsFiniteSet(Pid)

syncVars == <<sem, acquired>>
vars == <<executorVars, syncVars>>

SyncErrorCode == 4

WaitOps == {"SEM_WAIT", "LOCK"}
PostOps == {"SEM_POST", "UNLOCK"}
SyncInsn == [op : WaitOps \cup PostOps, id : SemId]

ASSUME NoInsnAssumption == None \notin SyncInsn

Unused == [kind |-> "none", count |-> 0, owner |-> None,
           waiters |-> <<>>, grants |-> {}]

InTable == {s \in SemId : sem[s].kind # "none"}

\* create_common as sync_wait and sync_mutex_lock call it.
Created(kind) == [kind |-> kind, count |-> 1, owner |-> None,
                  waiters |-> <<>>, grants |-> {}]

\* The object sync_wait works on: op's id is created on first use.
Opened(op, s) ==
  IF s \in InTable THEN sem[s]
  ELSE Created(IF op = "LOCK" THEN "mutex" ELSE "sem")

\* There is an object to work on.  ensure_common also refuses to LOCK an id
\* that names a semaphore; sync_wait does not look at the kind.
CanOpen(op, s) ==
  IF s \in InTable THEN op = "LOCK" => sem[s].kind = "mutex"
  ELSE Cardinality(InTable) < MaxSems

IsWaiter(m, p) == \E i \in DOMAIN m.waiters : m.waiters[i] = p

SyncInit ==
  /\ ExecutorInit
  /\ sem = [s \in SemId |-> Unused]
  /\ acquired = [s \in SemId |-> 0]

-----------------------------------------------------------------------------
(***************************************************************************)
(* SEM_WAIT and LOCK: the outcomes of sync_wait, in the order of its tests *)
(***************************************************************************)
Waits(p, op, s) == Executing(p, [op |-> op, id |-> s]) /\ CanOpen(op, s)

\* No slot in the table, or LOCK on a semaphore: SYNC_ERROR.
WaitRefused(p, op, s) ==
  /\ Executing(p, [op |-> op, id |-> s])
  /\ ~ CanOpen(op, s)
  /\ ExitWith(p, SyncErrorCode)
  /\ UNCHANGED syncVars

\* take_grant: the token was reserved by the post that woke p.
WaitGranted(p, op, s) ==
  LET m == Opened(op, s) IN
  /\ Waits(p, op, s)
  /\ p \in m.grants
  /\ sem' = [sem EXCEPT ![s] = [m EXCEPT !.grants = @ \ {p}]]
  /\ acquired' = [acquired EXCEPT ![s] = @ + 1]
  /\ Complete(p, {})

\* The mutex already belongs to p: SYNC_ERROR.
WaitByOwner(p, op, s) ==
  LET m == Opened(op, s) IN
  /\ Waits(p, op, s)
  /\ p \notin m.grants
  /\ m.kind = "mutex" /\ m.owner = p
  /\ ExitWith(p, SyncErrorCode)
  /\ UNCHANGED syncVars

\* Past take_grant and the owner test.
Contends(p, op, s) ==
  LET m == Opened(op, s) IN
  /\ Waits(p, op, s)
  /\ p \notin m.grants
  /\ ~ (m.kind = "mutex" /\ m.owner = p)

\* Mutants of WaitBlocks: block although there is a token; do not add_waiter.
WaitBlocksAlways(p, op, s) ==
  LET m == Opened(op, s) IN
  /\ Contends(p, op, s)
  /\ IsWaiter(m, p) \/ Len(m.waiters) < MaxWaiters
  /\ sem' = [sem EXCEPT ![s] =
               [m EXCEPT !.waiters = IF IsWaiter(m, p) THEN @ ELSE Append(@, p)]]
  /\ UNCHANGED acquired
  /\ BlockIn(p, [op |-> op, id |-> s])

WaitBlocksUnlisted(p, op, s) ==
  LET m == Opened(op, s) IN
  /\ Contends(p, op, s)
  /\ m.count <= 0
  /\ sem' = [sem EXCEPT ![s] = m]
  /\ UNCHANGED acquired
  /\ BlockIn(p, [op |-> op, id |-> s])

\* No token: add_waiter, and block_current in the caller.
WaitBlocks(p, op, s) ==
  LET m == Opened(op, s) IN
  /\ Contends(p, op, s)
  /\ m.count <= 0
  /\ IsWaiter(m, p) \/ Len(m.waiters) < MaxWaiters
  /\ sem' = [sem EXCEPT ![s] =
               [m EXCEPT !.waiters = IF IsWaiter(m, p) THEN @ ELSE Append(@, p)]]
  /\ UNCHANGED acquired
  /\ BlockIn(p, [op |-> op, id |-> s])

\* No token and waiters[] is full: SYNC_ERROR.
WaitOverflows(p, op, s) ==
  LET m == Opened(op, s) IN
  /\ Contends(p, op, s)
  /\ m.count <= 0
  /\ ~ IsWaiter(m, p) /\ Len(m.waiters) >= MaxWaiters
  /\ ExitWith(p, SyncErrorCode)
  /\ UNCHANGED syncVars

\* Mutants of WaitTakes: the count is not decremented; the count is not tested.
WaitTakesAndLeaves(p, op, s) ==
  LET m == Opened(op, s) IN
  /\ Contends(p, op, s)
  /\ m.count > 0
  /\ sem' = [sem EXCEPT ![s] =
               [m EXCEPT !.owner = IF m.kind = "mutex" THEN p ELSE @]]
  /\ acquired' = [acquired EXCEPT ![s] = @ + 1]
  /\ Complete(p, {})

WaitTakesAnyway(p, op, s) ==
  LET m == Opened(op, s) IN
  /\ Contends(p, op, s)
  /\ sem' = [sem EXCEPT ![s] =
               [m EXCEPT !.count = IF @ > 0 THEN @ - 1 ELSE @,
                         !.owner = IF m.kind = "mutex" THEN p ELSE @]]
  /\ acquired' = [acquired EXCEPT ![s] = @ + 1]
  /\ Complete(p, {})

\* A free token: take it, and own the mutex.
WaitTakes(p, op, s) ==
  LET m == Opened(op, s) IN
  /\ Contends(p, op, s)
  /\ m.count > 0
  /\ sem' = [sem EXCEPT ![s] =
               [m EXCEPT !.count = @ - 1,
                         !.owner = IF m.kind = "mutex" THEN p ELSE @]]
  /\ acquired' = [acquired EXCEPT ![s] = @ + 1]
  /\ Complete(p, {})

-----------------------------------------------------------------------------
(***************************************************************************)
(* SEM_POST and UNLOCK: the outcomes of sync_post                          *)
(***************************************************************************)
MayPost(p, s) ==
  /\ s \in InTable
  /\ sem[s].kind = "mutex" => sem[s].owner = p

\* Unknown id, or a mutex of somebody else: SYNC_ERROR.
PostRefused(p, op, s) ==
  /\ Executing(p, [op |-> op, id |-> s])
  /\ ~ MayPost(p, s)
  /\ ExitWith(p, SyncErrorCode)
  /\ UNCHANGED syncVars

\* add_grant: refused silently when grants[] is full.
WithGrant(grants, p) ==
  IF p \in grants \/ Cardinality(grants) < MaxWaiters THEN grants \cup {p} ELSE grants

PostBounded(s) == acquired[s] > - MaxSurplus

\* Mutants of PostHandsOver: the waiter is not woken; it stays in waiters[].
PostHandsOverSilently(p, op, s) ==
  LET m == sem[s]
      w == Head(m.waiters)
      rest == [m EXCEPT !.waiters = Tail(@)] IN
  /\ Executing(p, [op |-> op, id |-> s])
  /\ MayPost(p, s)
  /\ m.waiters # <<>>
  /\ PostBounded(s)
  /\ sem' = [sem EXCEPT ![s] =
               IF m.kind = "mutex"
               THEN [rest EXCEPT !.owner = w, !.count = 0]
               ELSE [rest EXCEPT !.grants = WithGrant(@, w)]]
  /\ acquired' = [acquired EXCEPT ![s] = @ - 1]
  /\ Complete(p, {})

PostPeeks(p, op, s) ==
  LET m == sem[s]
      w == Head(m.waiters) IN
  /\ Executing(p, [op |-> op, id |-> s])
  /\ MayPost(p, s)
  /\ m.waiters # <<>>
  /\ PostBounded(s)
  /\ sem' = [sem EXCEPT ![s] =
               IF m.kind = "mutex"
               THEN [m EXCEPT !.owner = w, !.count = 0]
               ELSE [m EXCEPT !.grants = WithGrant(@, w)]]
  /\ acquired' = [acquired EXCEPT ![s] = @ - 1]
  /\ Complete(p, {w})

\* pop_waiter gave a pid: hand the mutex or a token to it, and wake it.
PostHandsOver(p, op, s) ==
  LET m == sem[s]
      w == Head(m.waiters)
      rest == [m EXCEPT !.waiters = Tail(@)] IN
  /\ Executing(p, [op |-> op, id |-> s])
  /\ MayPost(p, s)
  /\ m.waiters # <<>>
  /\ PostBounded(s)
  /\ sem' = [sem EXCEPT ![s] =
               IF m.kind = "mutex"
               THEN [rest EXCEPT !.owner = w, !.count = 0]
               ELSE [rest EXCEPT !.grants = WithGrant(@, w)]]
  /\ acquired' = [acquired EXCEPT ![s] = @ - 1]
  /\ Complete(p, {w})

\* Nobody waits: the token goes back (a mutex never holds more than one).
PostReturns(p, op, s) ==
  LET m == sem[s] IN
  /\ Executing(p, [op |-> op, id |-> s])
  /\ MayPost(p, s)
  /\ m.waiters = <<>>
  /\ PostBounded(s)
  /\ sem' = [sem EXCEPT ![s] =
               IF m.kind = "mutex"
               THEN [m EXCEPT !.owner = None, !.count = IF @ + 1 > 1 THEN 1 ELSE @ + 1]
               ELSE [m EXCEPT !.count = @ + 1]]
  /\ acquired' = [acquired EXCEPT ![s] = @ - 1]
  /\ Complete(p, {})

-----------------------------------------------------------------------------
WaitStep(p, op, s) ==
  \/ WaitRefused(p, op, s)
  \/ WaitGranted(p, op, s)
  \/ WaitByOwner(p, op, s)
  \/ WaitBlocks(p, op, s)
  \/ WaitOverflows(p, op, s)
  \/ WaitTakes(p, op, s)

PostStep(p, op, s) ==
  \/ PostRefused(p, op, s)
  \/ PostHandsOver(p, op, s)
  \/ PostReturns(p, op, s)

SyncStep(p) ==
  \/ \E op \in WaitOps, s \in SemId : WaitStep(p, op, s)
  \/ \E op \in PostOps, s \in SemId : PostStep(p, op, s)

\* Processes and the dispatcher; the shell does not kill.
QuietNext == \E p \in Pid : SyncStep(p) \/ (Background(p) /\ UNCHANGED syncVars)

KillStep(p) == KillCommand(p) /\ UNCHANGED syncVars

SyncNext == QuietNext \/ \E p \in Pid : KillStep(p)

SyncSpec == SyncInit /\ [][SyncNext]_vars

-----------------------------------------------------------------------------
SemObject == [kind : {"none", "sem", "mutex"}, count : Nat, owner : Pid \cup {None},
              waiters : Seq(Pid), grants : SUBSET Pid]

SyncTypeOK ==
  /\ LifecycleTypeOK
  /\ insn \in [Pid -> SyncInsn \cup {None}]
  /\ exitCode \in [Pid -> {None, 0, SyncErrorCode, KilledCode}]
  /\ sem \in [SemId -> SemObject]
  /\ acquired \in [SemId -> Int]

\* Nobody sleeps beside a free token: as long as somebody waits for a
\* semaphore or a mutex, its count is zero (sync_wait adds a waiter only when
\* there is no token, sync_post hands the token over before it counts it).
NoIdleToken == \A s \in SemId : sem[s].waiters # <<>> => sem[s].count = 0

\* A semaphore never makes or loses a token: what is counted, what is
\* reserved for a woken waiter and what has been taken add up to the one
\* token the semaphore was created with (take_grant and add_grant against the
\* decrement and increment of count).
TokensConserved ==
  \A s \in SemId : sem[s].kind = "sem" =>
    sem[s].count + Cardinality(sem[s].grants) + acquired[s] = 1

\* Mutual exclusion: at most one LOCK of a mutex is completed and not yet
\* undone by UNLOCK, and while one is, the mutex has an owner and no token.
MutualExclusion ==
  \A s \in SemId : sem[s].kind = "mutex" =>
    /\ acquired[s] \in {0, 1}
    /\ acquired[s] = 1 => sem[s].owner # None /\ sem[s].count = 0
    /\ sem[s].count = IF sem[s].owner = None THEN 1 ELSE 0

\* A process asleep in SEM_WAIT or LOCK can be found by the post that should
\* wake it: it is in the waiters of the object it waits for, once, and in no
\* other list; a process asleep in its IO is in none.
SleepersRegistered ==
  \A p \in Pid : state[p] = "BLOCKED" =>
    \A s \in SemId :
      Cardinality({i \in DOMAIN sem[s].waiters : sem[s].waiters[i] = p})
        = IF insn[p] \in [op : WaitOps, id : {s}] THEN 1 ELSE 0

\* A listed waiter is asleep in that very wait, or dead.  In particular a
\* post never wakes a process out of its IO.
WaitersAsleep ==
  \A s \in SemId : \A i \in DOMAIN sem[s].waiters :
    LET w == sem[s].waiters[i] IN
      \/ state[w] = "EXITED"
      \/ state[w] = "BLOCKED" /\ insn[w] \in [op : WaitOps, id : {s}]

\* A token is reserved only for a process that is awake and about to retry
\* the same wait, or for one that was killed after it was woken.
GrantsAwake ==
  \A s \in SemId : \A p \in sem[s].grants :
    \/ state[p] = "EXITED"
    \/ state[p] \in {"READY", "RUNNING"} /\ insn[p] = [op |-> "SEM_WAIT", id |-> s]

\* The lists name the right processes: a post wakes nobody out of an IO or out
\* of another wait, and nothing is kept for a process that is not coming.
WaitersInPlace == WaitersAsleep /\ GrantsAwake

\* A mutex with an owner goes to another process only through an UNLOCK (or
\* SEM_POST) by that owner: no third process takes it between the wakeup and
\* the dispatch of the new owner.
NoBarging ==
  [][\A s \in SemId :
       sem[s].owner # None /\ sem'[s].owner # sem[s].owner =>
         current = sem[s].owner /\ acquired'[s] = acquired[s] - 1]_vars

-----------------------------------------------------------------------------
\* README.md:135, "Mutex unlock transfers ownership to a selected waiter":
\* the waiter that was made the owner completes the LOCK it slept in.
HandoffCompletes ==
  [][\A p \in Pid, s \in SemId :
       current = p /\ insn[p] = [op |-> "LOCK", id |-> s] /\ sem[s].owner = p =>
         exitCode'[p] # SyncErrorCode]_vars
=============================================================================
