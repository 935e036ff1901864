# MOSRT in TLA+

MOSRT is a small operating system that runs inside one Unix process: a shell
starts *workloads*, and a runtime dispatches them tick by tick under one of four
scheduling policies, with message queues, semaphores, mutexes and demand-paged
virtual memory. This directory models it in TLA+, checks the models with TLC on
small instances and proves the most important facts with TLAPS for instances of
any size. Paths below are relative to `mosrt/src/` unless they start with
`README.md`, which is the repository's.

Contents: [inventory](#1-inventory), [modules](#2-modules),
[runs](#3-runs), [bounds](#4-bounds), [fairness](#5-fairness),
[proofs](#6-proofs), [disagreements](#7-disagreements-with-the-documentation),
[what is left out](#8-what-is-not-modelled), [plan](#9-plan).

## 1. Inventory

The program is single-threaded. What makes it hard is that a process is an
interpreter state that can be put aside between any two instructions, and that an
instruction that blocks is *executed again* when its process next runs. The one
real asynchronous event is SIGALRM.

| Part | Source | State | Operations | Used by |
|---|---|---|---|---|
| Process table | `proc.c` | PCBs: state, priorities, MLFQ level, clocks, exit code, stack, address space; index by pid | create, set state, mark exited, destroy, look up, iterate, shut down | everything |
| Tick loop and dispatcher | `runtime.c` | `current_pid`, `tick`, busy and idle ticks, slots with program, pc and remaining ticks of each process, their own index by pid | `runtime_step`, `dispatch`, `execute_instruction`, `maybe_preempt`, `block_current`, `exit_current`, `wake_pid`, `runtime_kill` | shell |
| Scheduler | `sched.c` | policy, quantum, FIFO, heap, MLFQ queues, consumed ticks, last boost | enqueue, pick, tick, preempt?, age, demote, boost, rebuild | tick loop |
| Timer | `timer.c` | armed, `g_need_resched` | start, stop, SIGALRM, poll and clear | tick loop |
| Message queues | `ipc.c` | items, two wait lists, grants, table of queues | SEND, RECV | tick loop |
| Semaphores, mutexes | `sync.c` | count, owner, waiters, grants, table | SEM_WAIT, SEM_POST, LOCK, UNLOCK | tick loop |
| VM access | `vm.c` | per-process page table, heap break | read, write, create, destroy | ACCESS, heap |
| Pager, frames, swap | `pager.c`, `frame.c`, `swap.c` | owners and contents of frames and slots, policy | fault, evict, page in, change policy | VM access |
| TLB, page tables | `tlb.c`, `page_table.c` | translations, permissions, present, dirty and swap bits | look up, insert, flush | VM access |
| Page replacement | `replacement_*.c` | frames known to the policy, their order | insert, update, evict | pager |
| Heap allocator | `vm_alloc.c` | block headers *inside* the paged heap, heap break | malloc, free | MMAP, MFREE |
| Workload parser | `workload.c` | none | load a file | shell |
| Trace log | `log.c` | the first 4096 events | append, print, export | everything |
| Shell | `shell.c` | none of its own | commands | user |

**How they interact.** An iteration of `runtime_step` wakes processes whose IO is
over, ages or boosts and possibly rebuilds the ready queues, dispatches if the CPU
is free, and executes one instruction. An instruction may take a tick (CPU), block
its process (IO, SEND, RECV, SEM_WAIT, LOCK, ACCESS on a swapped page), wake
another process, or end its own. Iterations go on until a tick has passed or
`MAX_DISPATCH_GUARD` of them were made.

**The hard behaviours.** A hand-off gives a message, token or mutex to a sleeper
that runs only later, and anybody may run in between. A kill ends a process
without taking it out of wait lists and grants. Every list has a limit. Rebuilding
queues loses order and counters. A TLB entry carries no process id and skips the
page table. An eviction takes the frame of any process, also of one that is asleep
in the middle of its retry. The heap's headers lie in that same memory, so `vm_malloc` and
`vm_free` can be refused halfway. Two tables with two indexes describe each process
and are filled and emptied on different paths. `PROJECT.json`
lists these as hazards, each with the properties that would show it going wrong.

**What must be true.** One process at most runs and states change along legal
edges; READY processes are exactly the queued ones and run eventually; mutexes
exclude; tokens and messages are neither made nor lost; nobody sleeps beside what
they wait for; messages arrive once and in order; no process sees another's
memory; what was written stays written; allocations of a process do not overlap; every
process finds its program, its stack and its address space, which are given back on
every path; and the metrics and the trace tell what happened.

## 2. Modules

```
Lifecycle <-- Executor <-- Sync
    ^            ^  ^----- Ipc     --> (refines) Channel
    |            |  ^----- Objects --> Sync, Ipc over one process table
    |            ^------- Paging <-- Replacement --> (refines) Paging
    +-- Sched <-- Kernel          --> (refines) Lifecycle
HeapAlloc.   Workload <-- Session.
Theorems: SyncProofs, IpcProofs <-- ChannelProofs, both <-- ObjectsProofs,
KernelProofs (and Lifecycle), PagingProofs (and Replacement),
SessionTables <-- SessionProofs (and Workload).   MC*: instances for TLC.
```

**Lifecycle** (`proc.c:177-231`, `runtime.c:71-139`) is the abstract
specification of the process table and the dispatcher: `state`, `current`, and
the steps create, dispatch, leave the CPU, wake, kill. Kernel has the calls of
`proc_set_state` as the runtime makes them, and implements Lifecycle; the modules above
Executor are built from Lifecycle's steps.

**Executor** (`runtime.c:86-189`, `527-547`) is the frame of an instruction.
Workloads are not enumerated: `insn[p] = None` means the next instruction of `p`
is any instruction, and `insn[p] = i` that `i` blocked without advancing the pc and
will be executed again. `Complete`, `BlockIn` and `ExitWith` are
`complete_immediate`, `block_current` and `exit_current`. Dispatching may pick
any READY process, so what is shown above Executor holds under every policy.

**Sync** (`sync.c`, `runtime.c:276-325`) has one action for each outcome of
`sync_wait` (refused, granted, already the owner, blocks, list full, takes) and of
`sync_post` (refused, hands over, returns the token). `sem[s]` is `mosrt_sem_t`;
`acquired[s]`, a history variable, counts completed waits minus completed posts.

**Ipc** (`ipc.c`, `runtime.c:239-275`) likewise for `ipc_send` and `ipc_recv`,
including the pop and wakeup of the other side that `execute_instruction` does
afterwards. Message `m` of a queue is the `m`-th one sent, and the history
variable `receivedBy` records who got it. **Channel** is what a queue promises: a
bounded FIFO with hand-off; Ipc implements it under the mapping `Chan(q)`.

**Sched** (`sched.c`) holds the policies as operators on the scheduler record:
`Enqueued`, `Rebuilt`, `PickNext`, `OnTick`, `ShouldPreempt`, `AgedPrio`,
`DemotedLevel`. The heap of PRIO is the array of the code: `HeapPush` and `HeapPop` are
its two sifting loops (`Iterated`), which compare the keys of the moment, so that the array
is out of order once a key has changed in place. Time is relative ("ticks since"), so
nothing counts for ever.

**Kernel** (`runtime.c:415-582`, `665-701`, `timer.c`) is the tick loop with its
four phases, the commands between two ticks and SIGALRM at any moment. `proc_set_state`
may refuse (`Moved`), and as in the code most callers go on as if it had not: they reset
`current_pid`, and the process that was picked becomes the current one. IPC,
synchronisation and memory instructions appear as "takes no tick and may wake a
sleeper" or "blocks"; Sync, Ipc and Paging say which.

**Paging** (`vm.c`, `pager.c`, `frame.c`, `swap.c`, `tlb.c`, `page_table.c`,
`runtime.c:326-405`, `vm_alloc.c:7-61`) has the actions of ACCESS: a TLB hit, a page
hit, a fault into a free frame, a fault that evicts, a refusal; a
major fault makes the access, sleeps and makes it again. Data are abstract: a page
holds `Zero` or what its own process wrote to it, `<<p, v>>`. MMAP and MFREE are
calls that touch headers in heap pages and grow the heap; a call is
several actions, and nothing else runs until it returns. The choices of a full TLB
and of a replacement policy are left open, so what is shown holds for
every policy.

**Objects** (`runtime.c:239-325`) runs the instructions of Sync and of Ipc over one
process table: a process may be woken from a semaphore and go to sleep in a queue while
the semaphore still keeps a token for it. It is also where the wait lists and the
tables are at their smallest, and where the liveness of grants is checked.

**Replacement** (`replacement_fifo.c`, `replacement_lru.c`, `replacement_clock.c`,
`pager.c:46-72`) has what each policy does in an access, exactly: the array of frames, the
ticks of lru (as ranks), the hand of clock and the referenced bits. What Paging does to the
victim (`FaultEvicts`, `VictimUnsaved`) is done to the frame that the array names, and
`NoVictim` happens when the array is empty; none of Paging's conditions on the choice is
assumed.

**HeapAlloc** (`vm_alloc.c`) is the heap of one process, word by word: the headers are in
`mem`, the break is `brk`, `live` is what the process was given and has not freed.
`MallocPlan` and `FreeWrites` give the headers that a call writes, in order, and
the actions are the call that completes and the call that the pager interrupts
after any of its writes, or in the middle of one when a header straddles two pages. It is
assumed that a word of the heap reads as it was last written. Finding 4 of section 7 shows
that the pager does not always keep this promise, so the properties of the heap are about
`vm_alloc.c` on a memory that does.

**Workload** (`workload.c`) says, as operators, which files load and to what program:
skipped lines, numbers that `strtoull` wraps, the EXIT that is added, the limit on
instructions, and the choice among three candidate paths. The lines that remain are
described, as the increasing sequence of their numbers (`InOrder`), and not computed, so
that the proofs can speak about every file.

**Session** (`proc.c`, `runtime.c:43-69`, `log.c`, `shell.c`) is a shell session
seen from the process table: `procs` (entries, pid index, stacks, address spaces), `rt`
(slots, their index, ticks), `trace`, and `mode` for where the shell is. Its
commands are run, kill, start, stop, step, reset or bench, and exit; in between
ticks pass, IO ends and processes are dispatched and preempted at will.

`PROJECT.json` maps each definition to the lines it stands for. Definitions whose
comment says *Mutant of* are defects put in on purpose: replacing the named
definition by one makes the property it is paired with fail.

## 3. Runs

| Run | Configuration | Shows |
|---|---|---|
| `sync` | `MCSync.cfg`, 53,000 states | Four processes, three ids used as semaphore or mutex in any mix with room for two, `waiters[]` of three places, kills at any point. Tokens are conserved, mutexes exclude, nobody waits beside a token, every sleeper is listed where the next post looks, lists and grants never name a process that is doing something else, a mutex is never barged. |
| `ipc` | `MCIpc.cfg`, 1,001,000 | Four processes, two ids for one queue of capacity two, wait lists of two places that do overflow, kills. Exactly-once, no message beside a waiting receiver, lists in place, and refinement of Channel, which includes order. |
| `objects` | `MCObjects.cfg`, 78,500 | Semaphores and queues apart with three processes and mixed with two; `waiters[]` and `grants[]` of one place, one queue for two ids; no kills. Every sleeper is listed by the one object it waits for, no wakeup is lost, what is reserved is taken (liveness). |
| `kernel` | `MCKernel.cfg`, 986,000 | All policies switched between ticks, with kills, IO, waits, aging, boost, priority and nice. The queues hold exactly the READY processes, FCFS and RR keep their order, PRIO dispatches a least priority although the heap goes out of order between rebuilds, the loop implements Lifecycle. |
| `kernel_live` | `MCKernelLive.cfg`, 184,000 | RR and PRIO, each kept for the whole session, with the quantum and the timer changed at will: nobody runs longer than the greatest quantum that is ever set, nobody starves (under PRIO because of aging), IO ends. |
| `paging` | `MCPaging.cfg`, 1,274,000 | Two processes, three pages each, two frames, one slot, one TLB entry. Pages, frames and slots belong together, translations are the running process's own, frames hold only their owner's data, clean pages can be evicted, nothing leaks, writes survive. |
| `policies` | `MCReplacement.cfg`, 613,000 | Two processes, two pages each, two frames, fifo, lru and clock changed at will. A policy's array is exactly what the pager may evict; under fifo and lru processes do not take each other's pages for ever. |
| `parts` | `MCParts.cfg`, 722,000 | The heap and the session, which share no state, side by side. Four heap pages of six words, requests of 0, 1, 2 and 5 words, any of them interrupted: allocations are disjoint, listed and untouched by headers, free neighbours are joined, the statistics add up. Two table entries for four pids and files with each kind of content: the tables agree, stacks and address spaces have owners, ticks are accounted, the trace is true, nobody ends with an internal error. |
| `handoff_completes` | `VHandoffCompletes.cfg` | **Fails.** See section 7. |
| `handoff_wakes` | `VHandoffWakes.cfg` | **Fails.** See section 7. |
| `mlfq_starvation` | `VMlfqStarvation.cfg` | **Fails.** See section 7. |
| `clean_pages` | `VCleanPages.cfg` | **Fails.** See section 7. |

Why the less obvious properties are worth having:

- `NoBarging` needs a third process to run between the wakeup and the dispatch of
  the new owner. `MutualExclusion` speaks about *completed* LOCKs, not about the
  owner field.
- `NoLostSpace` counts: every free place of a queue with sleeping senders has a
  woken sender or an uncollected grant on its way. One wakeup per receive is
  enough only because of that balance.
- `ImplementsChannel` would break if a receiver with a grant looked at the queue first, or
  if the queue, which holds two messages here, gave out the newer one.
- `LeastPriorityRuns` depends on the rebuild of `runtime.c:504`: without it a key that was
  lowered in place leaves a greater one at the root, and the first `heap_pop` returns it.
- `LifecycleSpec` in `kernel` says that `proc_set_state` refuses nothing that the runtime
  relies on. If a stale entry were dispatched, or `current_pid` outlived its process, the
  code would go on with a state that Lifecycle does not have.
- `SleepersRegistered` and `WaitersInPlace` in `objects` are about both kinds together: a
  process that a full `grants[]` could not serve must come back into the right list.
- `ReadyIffQueued` is broken by any path that changes a state without its queue or a
  level without its queue; a process that is READY and not queued is never seen again.
- `WritesSurvive` follows a written page, through a history variable that does not
  look at the dirty bit, over evictions and page-ins: the dirty bit is set on three
  paths, one of them outside of the pager.
- `CleanPagesTracked`: `evict` drops the victim from the policy before the pager
  finds swap full, so the policy forgets a resident frame; it forgets only frames
  that are dirty.
- `NothingLeaks` leaves out heap pages, for `heap_grow` does leak (section 7).
- `RetriesMakeProgress`: a major fault evicts, sleeps for the page-in latency and makes
  the access again; the page may be gone by then. It says that whoever sleeps twice was
  overtaken by an access that completed, so somebody always gets on.
- `PayloadsUntouched` looks one call ahead: no header that any next call would write lies
  in an allocation. A link that is wrong today is found before it does its damage.
- `LiveListed` and `LiveDisjoint` hold also after calls that were interrupted anywhere,
  `Coalesced` and `StatsExact` while all calls completed.
- `TablesAgree` explains why `alloc_slot` never fails after `proc_create`: a free entry of
  the one table means a free slot in the other, on every path.
- `TicksAccounted` ties six counters together: start to finish is CPU plus wait plus
  sleep, and the runtime's ticks are busy plus idle.

Deadlock is checked in the kernel runs: the loop always has a next step. In the
others the system may stop (everybody has exited, or waits for a post that no
workload makes), so it is off.

## 4. Bounds

- *Processes.* Four in Sync and Ipc are enough for an owner, a woken process, a
  sleeper and a third party that interferes; three in the kernel for a running one
  and an order between two; two in Paging for an owner and an intruder.
- *Objects.* Two semaphores let a process sleep in one list while it is granted
  another, and a third id finds the table full; one queue suffices for a queue's properties
  because queues share only the table, which `ipc` and `objects` fill with two ids for one place.
  `Mixes` bounds `objects`: three processes on one kind of object, two on both.
- *Limits.* Every limit of the code (wait lists, grants, tables, capacity, swap,
  frames, TLB, dispatch guard) is small enough to be reached in some run.
- *Order.* The queue of `ipc` has room for two messages of up to five, so that messages
  can overtake each other; three processes in the heap are a root with two children.
- *Counters.* `MaxSurplus` bounds posts ahead of waits and `MaxMsgs` the messages of
  a queue; the guard is on *starting* such an instruction, so it never strands
  a process inside one. `MaxBurst`, `MaxIo`, `MaxQuantum`, `MaxAge` and
  `BoostInterval` bound durations; a clock that has reached its bound stays there or
  wraps modulo the aging interval, which is all the code looks at.
- *Paging.* Three pages (read-only, data, heap) of two processes compete for two frames
  and one slot: evictions of own and foreign pages, page-ins, a full swap and stale
  translations all occur. Exit codes are left out of the state view.
- *Policies.* `policies` leaves out MMAP and MFREE (whose accesses make the same calls), IO
  and kills (which leave pages where they are), and the truncation of ticks to 32 bits.
  Two frames for two processes are the tightest case in which an access can succeed at all
  while the other process wants its page. The state view leaves out what
  no step reads: contents, the numbers of slots, the TLB before the dispatch that flushes it,
  and the referenced bits of exited processes.
- *Heap.* Four pages of six words hold several blocks, and headers straddle pages. The heap
  is followed up to its first interrupted `vm_free`; a process writes only into what it
  was given.
- *Session.* `MaxPid` and `MaxTick` bound what happens between two resets; the table has two
  entries, so it fills, failed starts push pids past the index, and the log of 16
  events overflows. Workloads consist of CPU, IO and EXIT, of at most three instructions
  (`MaxInsns`); a `uint64_t` has eight values (`Modulus`), so that the burst -1 wraps.
- *Symmetry* under permutations of processes, and of ids in `sync` and `ipc`, is used only in runs without
  liveness and without an order on pids.

## 5. Fairness

Safety needs none. Liveness assumes, in `ObjectsSpec`, strong fairness
of dispatching each READY process, which RR, the default policy, provides and
`kernel_live` shows; that a process that must retry does so once it
runs; and strong fairness of "is preempted or exits", because a workload has at
most 128 instructions and ends with EXIT. Kills are excluded there, as a killed
process never collects. In Kernel (`FairSpec`): someone keeps stepping (weak
fairness of `Step`), the loop proceeds (weak fairness of `Loop`), and a process
executed again and again uses a tick or exits, again because workloads are finite. No
fairness is assumed of the scheduler in Kernel: that is what is checked.
`RetriesMakeProgress` is an action property and needs none.

## 6. Proofs

The theorems hold for every value of the constants that satisfies the named assumptions: any
number of processes, semaphores, queues, levels, pages, frames and slots, and every size of
a table, list or TLB. The assumptions (`NoneAssumption`, `NoInsnAssumption`,
`SyncAssumption`, `IpcAssumption`, `SchedAssumption`, `KernelAssumption`,
`PagingAssumption`, `ObjectsAssumption`, `MixesAssumption`, `WorkloadAssumption`,
`SessionAssumption`) say that sizes are positive and sets finite, that "nobody" is not a
process nor "nothing to retry" an instruction, that files consist of lines, that pids,
pages, frames and slots are numbers, and that arguments of commands are in the ranges that
the shell accepts. TLC evaluates them in each run.

| Theorem | Statement |
|---|---|
| **SyncProofs** | |
| `SyncTypeCorrect` | `SyncTypeOK`, so no count falls below zero |
| `MutexesExclude` | `MutualExclusion`, kills included |
| `NoTokenIsIdle` | `NoIdleToken` |
| `ListsAreCurrent` | `WaitersInPlace`: `WaitersAsleep` and `GrantsAwake` |
| `NoSleeperIsLost` | `SleepersRegistered`, for every size of `waiters[]` |
| `OwnersAreNotBarged` | `NoBarging` |
| `TokensAreConserved` | `TokensConserved`, when there are no more processes than places in `grants[]` |
| **IpcProofs, ChannelProofs** | |
| `NeverMessageBesideWaiter` | `NoMessageBesideWaiter` |
| `WaitersAlwaysInPlace` | `WaitersInPlace`, for both wait lists and the grants |
| `MessagesExactlyOnce` | `ExactlyOnce`: a message is queued, reserved or received, and only one of them |
| `QueuesImplementChannel` | `ImplementsChannel`: each queue is a bounded FIFO channel with hand-off |
| `SleepersAlwaysRegistered` | `SleepersRegistered`, when there are no more processes than places in a wait list |
| `SpaceIsNeverLost` | `NoLostSpace`, without kills and when a wait list is as long as the queue |
| **ObjectsProofs** | |
| `MixedWorkloadsImplementSync` | ObjectsSpec implements SyncSpec, seen from the semaphores and mutexes |
| `MixedWorkloadsImplementIpc` | ObjectsSpec implements IpcQuietSpec, seen from the queues |
| `MixedWaitersInPlace` | `WaitersInPlace`, for lists and grants of both kinds |
| `MixedSleepersRegistered` | `SleepersRegistered`, when there are no more processes than places in a wait list of a queue |
| `MixedSpaceIsNeverLost` | `NoLostSpace`, when a wait list is as long as the queue |
| **KernelProofs** | |
| `RunningIsCurrentAlways` | LifecycleSpec keeps `RunningIsCurrent`: one process runs, and it is `current_pid` |
| `TransitionsValid` | every step moves every process along `proc_is_valid_transition` |
| `KernelTypesAlways` | `KernelTypeOK` |
| `ReadyAlwaysQueued` | `ReadyIffQueued`, under all four policies and changes between them |
| `LeastPriorityAlwaysRuns` | `LeastPriorityRuns`, with the heap as the loops of `heap_push` and `heap_pop` leave it |
| `FifoAlwaysKept` | `FifoOrder` |
| `KernelImplementsLifecycle` | KernelSpec implements LifecycleSpec: no call of `proc_set_state` is refused |
| `QuantumAlwaysEnforced` | `QuantumEnforced`, for the greatest quantum of the session and when the policy is not changed (`"sched" \notin Commands`) |
| **PagingProofs** | |
| `PagesNeverShare` | `PagesOwnTheirStore` |
| `TlbAlwaysOwn` | `TlbIsOwn` |
| `DataIsolated` | `FramesHoldOwnData` |
| `CleanPagesEvictable` | `CleanPagesTracked` |
| `NoStoreLeaks` | `NothingLeaks` |
| `WritesAlwaysSurvive` | `WritesSurvive` |
| `PoliciesImplementPaging` | ReplacementSpec implements PagingSpec: the victims of fifo, lru and clock are frames that the pager told them of |
| `PoliciesAlwaysTrack` | `PolicyTracks` |
| **SessionTables, SessionProofs** | |
| `SessionInvariant` | `SessionInv`, the inductive invariant |
| `TablesAlwaysAgree` | `TablesAgree` |
| `ResourcesAlwaysOwned` | `ResourcesOwned` |
| `TicksAlwaysAccounted` | `TicksAccounted` |
| `TraceAlwaysReplays` | `TraceReplays` |
| `NeverInternalExit` | `NoInternalExit` |

Each component has one inductive invariant, from which its theorems follow. As to the
hypotheses on sizes: a wait list of a queue has 128 places (`MOSRT_WAITQ_CAPACITY`) and a
queue holds 16 messages (`MOSRT_MSG_CAPACITY`), so the hypothesis of `NoLostSpace` holds for
the code as it is built; the table has room for 1024 processes (`MOSRT_MAX_PROCS`), so
`SleepersRegistered` is proved for sessions of up to 128 processes, and beyond that a
process that finds the list full is not registered (section 7).

**Sync** (`SyncInv`). `MutualExclusion` alone is not inductive: after a hand-off the owner
field already names a process whose LOCK has not completed, and an UNLOCK by it at that
moment would take the number of holders below zero. What excludes it is that such an owner
still has the LOCK to retry (`OwnerPending`), and to keep that one needs to know who
can be in a list: waiters are asleep in that very wait (`WaitersAsleep`), are listed
once (`WaitersOnce`) and hold no grant (`WaitersNotGranted`), grants belong to
processes about to retry (`GrantsAwake`), mutexes have no grants (`MutexNoGrants`), and
sleepers are listed (`SleepersListed`). The conjuncts about objects (`ObjectInv`) and
those about processes (`UserInv`) are kept apart, so that an action on object `s` by
process `p` needs an argument only for `s` and `p`; `OtherObjects` does the rest.
`TokensAreConserved` adds that a post finds room for its grant. Its condition cannot be
dropped: with more processes than places `add_grant` refuses silently and a token is gone.

**Ipc** (`IpcInv`). `ExactlyOnce` does not say *which* messages are still queued, and
without it a hand-off could reserve a message that overtakes another. `Messages` does: the
oldest `Left(q)` messages are reserved or received, each by one process, and the others are
the queue, in order. A hand-off keeps this only because a receiver waits only at an empty
queue, which is the last conjunct of `MessagesOf`. That the receiver collects *one* message,
and out of the right RECV, needs `UserOf`: lists name sleepers, each once, and who is asleep
has no grant. The facts about messages are lemmas on values (`EnqueueMessages`,
`HandOverMessages`, `CollectMessages` and `DequeueMessages`), which the actions then apply
to one queue. The refinement of Channel maps each action to a channel step, for the queue it
touches, and to a stutter for the others. `SleepersAlwaysRegistered` adds to `IpcInv` that
every sleeper is listed, which `waitq_add` guarantees only while the list has room; as lists
name sleepers, each once, they have room when they are as long as the set of processes.
`SpaceIsNeverLost` is a count (`QuietInv`): while somebody sleeps in SEND, the free places
are at most the retrying senders and the uncollected grants. A RECV that takes a message
frees one place and wakes one sender; one that collects a grant wakes one sender in its
place. A sender that failed because `grants[]` is full would break the balance, which is why
the hypothesis is there.

**Objects** (`ObjectsInv`). Nothing of Sync and Ipc is proved again. A mixed workload is
looked at twice: for the semaphores whoever executes SEND or RECV seems to compute, and
whoever sleeps in one seems to sleep in its IO (`syncInsn`, `syncCode`), and for the queues
the other way round. Seen like that every step is a step of Sync and a step of Ipc
(`BothSee`). Neither view can be followed alone: that a SEND wakes nobody out of a LOCK, so
that its wakeup is the end of an IO for Sync, is a fact about the queue's lists that Ipc's
invariant gives, and conversely. `ObjectsSound` collects these facts; `ObjectsInv`, from which
it follows, is `SyncInv` and `IpcInv` of the two views together. The module
instantiates Sync and Ipc under the views (`OnSync`, `OnIpc`), and the modules of
their proofs, whose lemmas are then used as they are; `SameSync` and `SameIpc` say that
the definitions reached by the two ways are the same.

**Kernel** (`KernelInv`). `ReadyIffQueued` counts entries; `QueuesHold` says the same
without counting: no queue has a repetition, and a process is in queue `l` exactly when it
is READY and belongs there. What makes it inductive is the rest of the loop: the process
that `maybe_preempt` queues is RUNNING, so it is in no queue yet, and that is
`RunningIsCurrent` of Lifecycle, which is why KernelProofs starts with the proofs for Lifecycle.
`QueuesHold` takes scheduler, states and PCBs as parameters, because it also has to hold in
the middle of a step: `WakeAndAge` wakes, ages, boosts and rebuilds. A
rebuild puts processes back in slot order, and that this order lists every one of them once
is `OrderExists`, by induction on the number of processes.

The heap is followed through its loops. A loop is a function applied again and again
(`Iterated`); `IteratedAlong` is the rule for what is true after `n` rounds, from what one
round does, and `LoopExists` shows that the recursive function behind it exists. One round of
`heap_push` keeps the heap ordered but for the entry that is climbing
(`OrderedBut`, `SiftUpStep`), and when it stops the whole is (`HeapPushFacts`); every loop
only rearranges entries (`Rearranged`), so nobody is lost or doubled even when the keys
have changed and the order is gone. That the root of an ordered heap is least is
`RootLeast`. `DispatchInv` is the part of the invariant that says when the order can be relied on:
in the phase of dispatch, right after the rebuild, and there nobody is current.
`HeapTakesOne` combines them, and `LeastPriorityAlwaysRuns` follows.

None of this could be done after the refinement of Lifecycle, nor the other way round: that
the process that is picked is READY, so that `proc_set_state` does not refuse it, is
`QueuesHold`, and that the states are those of a Lifecycle is needed to keep `QueuesHold`.
So `KernelInv` holds them all, `KernelTakesLifecycleSteps` is proved under it, and the
lemmas from `RunWorkloadCreates` to `DispatchPicks` show of each action that what it asks
for is not refused. `QuantumInv` ties the
scheduler's `consumed` to the ticks that the process really ran. Its condition
cannot be dropped: `sched_set_algo` forgets who runs (section 7).

**Paging** (`PagingInv`). `PagesOwnTheirStore` looks from page tables to frames, and a free
frame may be given out only if no page table names it, which is the other direction
(`FrameSound`, `SlotSound`). The heap is left out of that direction, for `heap_grow` drops
pages without freeing their store. `TlbIsOwn` needs that the victim's translation is
dropped before its frame has a new owner. `WritesSurvive` needs `Kept`: a page that was
written is in memory, dirty and intact, or in swap. The invariant is stated for any page
tables, owners, contents and slots (`Sound`), because a fault is two changes, an eviction
and a page-in, and it must hold in between (`EvictionSound`, `PageInSound`). Victims are
free choices among the tracked frames.

**Replacement** (`PolicyInv`). The array lists every tracked frame once and nothing else
(`Lists`), so `insert`, which looks for the frame first, and the removal that shifts the rest
to the left keep it, and the victim's index is always one of the array. For clock that is so
only because the hand is in the array (`HandInArray`) although it is moved before the
array shrinks; for lru because the index of the oldest entry is one of a nonempty finite set of
indexes. That tracked frames are allocated comes from Paging. So the victim is a tracked
frame, and an empty array means that there is none (`ChosenTracked`): the steps are steps of
Paging (`ReplacementSteps`), and all that is proved of Paging holds under each policy and
across changes between them. `PagingInv` and `PolicyInv` are kept together, as the one is
preserved by Paging's steps only.

**Session** (`SessionInv`). `TablesAgree` says what the commands rely on; what makes it
inductive is which processes have what (`EntryOK`, `SlotOK`): a process whose pid has a
place in the index has an address space, is no longer NEW and, while it lives, has a slot
that names it, and a process without such a pid stays NEW and is never dispatched. That
there is a free slot then follows by counting, as slots in use belong to different entries.
The stacks and the address spaces are those of the entries that must have one, so a path
that forgets to give one back breaks an equality. The facts about values (what `ProcCreate`,
`SetState`, `MarkExited` and `Traced` return, and that a change of one process's state or a
tick keeps the books) are in SessionTables, what each command and each pass of the loop does
in SessionProofs. `NeverInternalExit` rests on the loader: every program that
`workload_load` returns ends with EXIT and has no burst of zero (`BodyLines`, `InsnSound`),
for every file. Session has the steps of CPU, IO and EXIT: a process that comes to another
instruction takes none, so the theorems are about files of these three.

**Only model-checked.** All liveness (`NoStarvation`, `IoEnds`, `GrantHonoured`) and
everything with ENABLED, which the proof system does not handle. `RetriesMakeProgress`, which
holds when there is a frame for every process: its proof needs an invariant on the order of
the array of lru and fifo against who was overtaken, which is not written. HeapAlloc
(`LiveDisjoint`, `PayloadsUntouched`, `Coalesced`, `StatsExact`, `LiveListed`), where what
counts is what a recursive definition computes from a list of
headers: the library's induction theorems cannot be used by the installed
provers. (Where an induction over numbers was needed, as for `OrderExists`, it is made by
hand, from the least number for which the claim would fail; `LeastNat`. The loops of the
heap are proved in this way; the walks of `vm_alloc.c` along a list are not.)

## 7. Disagreements with the documentation

Four are kept as runs that must fail:

1. **A mutex that is handed over ends its new owner** (`handoff_completes`,
   `sync.c:118`). The woken process retries LOCK, is already the owner, gets
   SYNC_ERROR and exits with code 4, and the mutex stays locked. README.md:135
   describes the transfer as what prevents races.
2. **A message handed to a killed receiver is lost** (`handoff_wakes`, `ipc.c:101`).
   `runtime_kill` leaves the victim in `recv_waiters`. README.md:123: "direct grant +
   wake receiver".
3. **MLFQ starves after the first boost** (`mlfq_starvation`, `runtime.c:511`).
   `rebuild_ready_queues` clears `last_boost_tick` right after it was set, so each
   iteration boosts again and rebuilds in slot order. README.md:115 names the boost
   as starvation control.
4. **A clean page loses its contents** (`clean_pages`, `pager.c:194`). The page-in
   frees the slot and maps the page clean; evicted again before a write, it reads
   as zeros. `pager.c:160`: "their backing content is already correct in swap". A
   program that writes a byte, pushes its page out, reads it, pushes the page out
   again and reads it once more gets the byte the first time and zero the second.

Others met while modelling. The modules describe the code's behaviour in each
case, and the properties above are stated so as to hold in spite of it:

- a post whose first waiter was killed wakes nobody and adds no token
  (`runtime.c:78`, README.md:143-144);
- SEM_POST on an id that nobody waited on ends the poster (`sync.c:142`, README.md:338);
- a process that blocks on a full wait list is not registered (`ipc.c:16`, `ipc.h:41`);
- the wakeup for a free place may go to a killed sender (`runtime.c:269`), with the
  other senders asleep beside free space;
- after a change of policy the running process is not counted and may exceed any
  quantum (`runtime.c:574`, README.md:113);
- a step may end without a tick when the dispatch guard runs out (`runtime.c:501`, `runtime.h:21`);
- SIGALRM preempts under FCFS too (`runtime.c:169`, README.md:112);
- a kill reorders the FIFO by slot (`runtime.c:545`);
- `heap_grow` unmaps pages that the process had already touched above the break and
  leaves their frames or slots allocated (`vm_alloc.c:35-44`);
- the clock policy reads and clears bits of the faulting process's page table at the index
  of a *frame*, although `pager.c:134-136` says that "the evict handler will look up the
  specific owner page table". So it may evict the page that came in last, and two
  processes can take each other's pages without either completing an access:
  `RetriesMakeProgress` without its exception for clock fails after 16 steps;
- the hand of clock is advanced before the victim is taken out of the array, so it skips a
  frame (`replacement_clock.c:101-112`);
- lru and clock do not see accesses that hit the TLB (`vm.c:83`; `replacement.h:17`: "Called
  when a page is accessed");
- `vm_free` cannot report that the pager refused it, and the process goes on with a list
  whose links disagree (`vm_alloc.c:193`); later calls may then follow a link into user
  data. An ACCESS may also write over a header, which lies in the process's own heap;
- a failed start uses up its pid, so a process may get a pid above `MOSRT_MAX_PROCS`: the run
  succeeds, but no lookup finds the process, which stays NEW and cannot be killed
  (`proc.c:87`; `runtime.h:19`: "create a READY process");
- a candidate file with a syntax error is passed over as if it were missing, and the message
  says "failed to open" (`runtime.c:458-461`);
- a negative burst is accepted and becomes a huge one (`workload.c:28`), and `IO -1` at
  tick 1 is due at tick 0, which means never (`runtime.c:233`);
- the trace keeps the first 4096 events, not the last (`log.c:28`);
- exited processes keep their entry, slot, frames and swap until a reset, so a session can start
  at most `MOSRT_MAX_PROCS` processes between two resets.

## 8. What is not modelled

- Printing: the dumps of processes, queues, metrics, page tables, frames and TLB, the
  filter and the export of the trace, and the wording of messages. They do not feed back
  into the state. Splitting a line into words or fields (and at 256 bytes) is text I/O.
- Fault counters of the pager and the statistics of TLB and swap.
- The release of frames and slots in `vm_proc_destroy`, page by page: it runs only when
  everything is shut down, or for a new process that has no page yet. Session has
  the life of the address space.
- The victim inside a full TLB, which is a free choice among its entries.
- What heap calls do after an interrupted `vm_free`: it depends on user data read as headers.
- `tools/mosrt_bench.c`, a driver that times operations which are modelled.
- Data races: the only asynchronous access is to `g_need_resched`, which is
  `volatile sig_atomic_t`; its accesses are single actions.

## 9. Plan

Models:

1. **Memory**: the byte memory a process sees as the abstract specification of Paging,
   with the two known losses made explicit, and HeapAlloc on top of it.
2. `vm_proc_destroy` as a step of Paging, with what stays in the TLB and the policy.

Theorems:

1. HeapAlloc: `LiveDisjoint`, with the chain of headers as a set of blocks.
2. Replacement: `RetriesMakeProgress` under fifo and lru.
