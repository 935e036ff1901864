-------------------------------- MODULE Sched --------------------------------
(***************************************************************************)
(* sched.c and the scheduling fields of pcb_t: the ready queues of the four *)
(* policies, picking, quantum, aging, demotion and boost.  The operators   *)
(* describe what a call of sched.c makes of a scheduler_t; module Kernel   *)
(* calls them in the order of runtime.c.                                   *)
(*                                                                         *)
(* Time is relative, so that the clock needs no bound: a record of when    *)
(* something happened is kept as the number of ticks since then.           *)
(***************************************************************************)
EXTENDS Lifecycle, Integers, Sequences, FiniteSets

CONSTANTS Levels,         \* MOSRT_MLFQ_LEVELS
          MaxPrio,        \* MOSRT_MAX_PRIO
          AgingInterval,  \* AGING_INTERVAL
          MaxAge,         \* bound: ages above it are only known modulo AgingInterval
          BoostInterval,  \* MLFQ_BOOST_INTERVAL
          MaxQuantum      \* bound: the largest quantum; ticks are counted up to it

VARIABLES sched,  \* scheduler_t: [algo, quantum, queue, current, consumed, sinceBoost]
          pcb,    \* pcb[p]: [prio, base, level, age, wakeIn]
          tick    \* runtime_t.tick, as far as BoostInterval

ASSUME SchedAssumption ==
  /\ Pid \subseteq Nat
  /\ IsFiniteSet(Pid)
  /\ Levels \in Nat \ {0}
  /\ MaxPrio \in Nat
  /\ AgingInterval \in Nat \ {0}
  /\ MaxAge \in Nat /\ MaxAge + 1 >= AgingInterval
  /\ BoostInterval \in Nat
  /\ MaxQuantum \in Nat \ {0}

Algos == {"FCFS", "RR", "PRIO", "MLFQ"}
Level == 0 .. Levels - 1

Clamp(n) == IF n < 0 THEN 0 ELSE IF n > MaxPrio THEN MaxPrio ELSE n

\* proc_create: age is tick - last_ready_tick while the process is READY or
\* RUNNING; wakeIn is wakeup_tick - tick, None when there is no wakeup_tick.
NewPcb(prio) == [prio |-> Clamp(prio), base |-> Clamp(prio), level |-> 0,
                 age |-> 0, wakeIn |-> None]

-----------------------------------------------------------------------------
(***************************************************************************)
(* Ready queues.  FCFS and RR use one FIFO and MLFQ uses one per level; the *)
(* heap of PRIO is kept in queue[0] too, as the array that it is.  It is   *)
(* ordered by fields of the PCBs, which change while a process is in it.   *)
(***************************************************************************)
Entries(q) == {q[i] : i \in DOMAIN q}

\* proc_for_each visits S by slot, and slots are handed out in pid order.
InSlotOrder(S) ==
  CHOOSE s \in [1 .. Cardinality(S) -> S] :
    \A i, j \in 1 .. Cardinality(S) : i < j => s[i] < s[j]

\* The queue that sched_enqueue pushes p to.
QueueOf(algo, pc, p) ==
  IF algo # "MLFQ" THEN 0
  ELSE IF pc[p].level >= Levels THEN Levels - 1 ELSE pc[p].level

\* prio_less: an older entry goes first among equals.
PrioLess(pc, p, q) ==
  \/ pc[p].prio < pc[q].prio
  \/ pc[p].prio = pc[q].prio /\ pc[p].age > pc[q].age

\* A loop whose body is the function f, from x on, after n rounds.  Each loop
\* below is given as many rounds as it can take, and a round that finds it
\* ended changes nothing.
Iterated(f, x, n) ==
  LET after[k \in Nat] == IF k = 0 THEN x ELSE f[after[k - 1]] IN after[n]

Swapped(h, i, j) == [h EXCEPT ![i] = h[j], ![j] = h[i]]

\* The loop of heap_push, for a heap and a place in it: the entry there is
\* swapped with its parent until it is not less.  Places count from 1.
SiftUp(pc) ==
  [hi \in Seq(Pid) \X Nat |->
     LET h == hi[1]
         i == hi[2] IN
     IF i \in 2 .. Len(h) /\ PrioLess(pc, h[i], h[i \div 2])
     THEN <<Swapped(h, i, i \div 2), i \div 2>> ELSE hi]

\* heap_push: an entry is never doubled.
HeapPush(pc, h, p) ==
  IF p \in Entries(h) THEN h
  ELSE Iterated(SiftUp(pc), <<Append(h, p), Len(h) + 1>>, Len(h))[1]

\* The loop of heap_pop: the entry at i is swapped with the lesser one of its
\* children until it is not greater.
Lesser(pc, h, i, j) == IF j <= Len(h) /\ PrioLess(pc, h[j], h[i]) THEN j ELSE i
SiftDown(pc) ==
  [hi \in Seq(Pid) \X Nat |->
     LET h == hi[1]
         i == hi[2]
         best == Lesser(pc, h, Lesser(pc, h, i, 2 * i), 2 * i + 1) IN
     IF i \in DOMAIN h /\ best # i THEN <<Swapped(h, i, best), best>> ELSE hi]

\* heap_pop takes the root away: the last entry replaces it and sinks.
HeapPop(pc, h) ==
  LET shorter == SubSeq([h EXCEPT ![1] = h[Len(h)]], 1, Len(h) - 1) IN
  Iterated(SiftDown(pc), <<shorter, 1>>, Len(shorter))[1]

\* The entries of s are pushed one by one.
PushNext(pc, s) ==
  [hk \in Seq(Pid) \X Nat |->
     IF hk[2] + 1 \in DOMAIN s
     THEN <<HeapPush(pc, hk[1], s[hk[2] + 1]), hk[2] + 1>> ELSE hk]
HeapPushAll(pc, h, s) == Iterated(PushNext(pc, s), <<h, 0>>, Len(s))[1]

\* sched_enqueue for every member of S, by slot: an entry is never doubled.
Enqueued(sc, pc, S) ==
  LET q == sc.queue IN
  [sc EXCEPT !.queue =
     IF sc.algo = "PRIO" THEN [q EXCEPT ![0] = HeapPushAll(pc, q[0], InSlotOrder(S))]
     ELSE [l \in Level |->
             q[l] \o InSlotOrder({p \in S \ Entries(q[l]) : QueueOf(sc.algo, pc, p) = l})]]

\* sched_init: also the clock of the last boost goes back to tick 0.
Cleared(algo, quantum) ==
  [algo |-> algo, quantum |-> quantum, queue |-> [l \in Level |-> <<>>],
   current |-> None, consumed |-> 0, sinceBoost |-> tick]

\* rebuild_ready_queues (runtime.c) for the process states st.
Rebuilt(sc, st, pc) ==
  Enqueued([Cleared(sc.algo, sc.quantum) EXCEPT !.current = sc.current,
                                                !.consumed = sc.consumed],
           pc, {p \in Pid : st[p] = "READY"})

\* queue_pop drops the entries that are not READY and takes the first that is.
ReadyAt(q) == {i \in DOMAIN q : state[q[i]] = "READY"}
FirstReady(q) == CHOOSE i \in ReadyAt(q) : \A j \in ReadyAt(q) : i <= j

\* sched_pick_next for the FIFO policies takes from the first level that has a
\* READY entry; the levels tried before are then empty.
FifoPicks(p) ==
  \E l \in Level :
    LET q == sched.queue[l] IN
    /\ ReadyAt(q) # {}
    /\ \A k \in Level : k < l => ReadyAt(sched.queue[k]) = {}
    /\ p = q[FirstReady(q)]
    /\ sched' = [sched EXCEPT
         !.queue = [k \in Level |-> IF k < l THEN <<>>
                                    ELSE IF k > l THEN @[k]
                                    ELSE SubSeq(q, FirstReady(q) + 1, Len(q))],
         !.current = p, !.consumed = 0]

\* heap_pop goes on until the root that it took away was READY.
DropStale ==
  [h \in Seq(Pid) |-> IF h # <<>> /\ state[h[1]] # "READY" THEN HeapPop(pcb, h) ELSE h]
HeapPicks(p) ==
  LET h == Iterated(DropStale, sched.queue[0], Len(sched.queue[0])) IN
  /\ h # <<>>
  /\ p = h[1]
  /\ sched' = [sched EXCEPT !.queue[0] = HeapPop(pcb, h), !.current = p, !.consumed = 0]

PickNext(p) == IF sched.algo = "PRIO" THEN HeapPicks(p) ELSE FifoPicks(p)

\* sched_pick_next returns -1: what was queued is dropped.
NothingToPick == \A l \in Level : ReadyAt(sched.queue[l]) = {}
PickedNone == [sched EXCEPT !.queue = [l \in Level |-> <<>>],
                            !.current = None, !.consumed = 0]

-----------------------------------------------------------------------------
\* sched_on_tick: only the process that sched_pick_next returned last counts.
Counted(n) == IF n < MaxQuantum THEN n + 1 ELSE n
OnTick(sc, p) == IF sc.current = p THEN [sc EXCEPT !.consumed = Counted(@)] ELSE sc

\* Mutant of ShouldPreempt: one tick too many.
ShouldPreemptLate(sc, p) ==
  /\ sc.algo # "FCFS"
  /\ \/ sc.algo = "PRIO" /\ \E q \in Entries(sc.queue[0]) : PrioLess(pcb, q, p)
     \/ sc.consumed > sc.quantum

\* sched_should_preempt
ShouldPreempt(sc, p) ==
  /\ sc.algo # "FCFS"
  /\ \/ sc.algo = "PRIO" /\ \E q \in Entries(sc.queue[0]) : PrioLess(pcb, q, p)
     \/ sc.consumed >= sc.quantum

\* sched_demote_after_quantum
DemotedLevel(l) ==
  IF sched.algo = "MLFQ" /\ l + 1 < Levels THEN l + 1 ELSE l

\* Mutants of AgedPrio: the least priority is not a floor; nobody ages.
AgedPrioNoFloor(pc, p) ==
  IF /\ sched.algo = "PRIO"
     /\ state'[p] = "READY"
     /\ pc[p].age > 0 /\ pc[p].age % AgingInterval = 0
  THEN pc[p].prio - 1 ELSE pc[p].prio

AgedPrioNever(pc, p) == pc[p].prio

\* age_one, in sched_age_ready: due for as long as the tick lasts.
AgedPrio(pc, p) ==
  IF /\ sched.algo = "PRIO"
     /\ state'[p] = "READY"
     /\ pc[p].prio > 0
     /\ pc[p].age > 0 /\ pc[p].age % AgingInterval = 0
  THEN pc[p].prio - 1 ELSE pc[p].prio

BoostDue == sched.algo = "MLFQ" /\ sched.sinceBoost >= BoostInterval

\* One tick passes: every age grows and every sleeper's rest shrinks.
Older(n) == IF n < MaxAge THEN n + 1 ELSE MaxAge + 1 - AgingInterval
Later(n) == IF n < BoostInterval THEN n + 1 ELSE n
Ticked(sc) == [sc EXCEPT !.sinceBoost = Later(@)]
\* Mutant of AfterTick: the clock stands still for sleepers.
AfterTickNoWake(pc) ==
  [p \in Pid |->
     [pc[p] EXCEPT !.age = IF state[p] \in {"READY", "RUNNING"} THEN Older(@) ELSE @]]

AfterTick(pc) ==
  [p \in Pid |->
     [pc[p] EXCEPT
        !.age = IF state[p] \in {"READY", "RUNNING"} THEN Older(@) ELSE @,
        !.wakeIn = IF @ \in {None, 0} THEN @ ELSE @ - 1]]
=============================================================================
