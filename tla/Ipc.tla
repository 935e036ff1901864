--------------------------------- MODULE Ipc ---------------------------------
(***************************************************************************)
(* ipc.c: bounded message queues with direct hand-off, with the SEND and   *)
(* RECV cases of execute_instruction (runtime.c:239-275).                  *)
(*                                                                         *)
(* An instruction is [op, id].  The value a SEND carries is the number of  *)
(* messages sent to that queue so far plus one, so that no two messages of *)
(* a queue are alike and a smaller one was sent earlier.                   *)
(***************************************************************************)
EXTENDS Executor, Sequences, FiniteSets, Functions

CONSTANTS QueueId,      \* ids a workload may name
          MaxQueues,    \* MOSRT_MAX_MSG_QUEUES, the size of the table
          Capacity,     \* MOSRT_MSG_CAPACITY, the size of items[]
          WaitqCapacity,\* MOSRT_WAITQ_CAPACITY, of both wait lists and of grants[]
          MaxMsgs       \* bound: messages sent to one queue

VARIABLES queue,        \* queue[q]: the ipc_queue_t with id q
          sent,         \* history: number of messages sent to q
          receivedBy    \* history: receivedBy[q][m] is who received message m

ASSUME IpcAssumption ==
  /\ MaxQueues \in Nat \ {0}
  /\ Capacity \in Nat \ {0}
  /\ WaitqCapacity \in Nat \ {0}
  /\ MaxMsgs \in Nat
  /\ IsFiniteSet(Pid)

ipcVars == <<queue, sent, receivedBy>>
vars == <<executorVars, ipcVars>>

IpcErrorCode == 3

Msg == 1 .. MaxMsgs
Send(q) == [op |-> "SEND", id |-> q]
Recv(q) == [op |-> "RECV", id |-> q]
IpcInsn == [op : {"SEND", "RECV"}, id : QueueId]

ASSUME NoInsnAssumption == None \notin IpcInsn

\* used = FALSE is an id that is not in g_queues.  A grant is a message
\* reserved for one receiver.
Unused == [used |-> FALSE, items |-> <<>>, grants |-> {},
           sendWaiters |-> <<>>, recvWaiters |-> <<>>]

IpcInit ==
  /\ ExecutorInit
  /\ queue = [q \in QueueId |-> Unused]
  /\ sent = [q \in QueueId |-> 0]
  /\ receivedBy = [q \in QueueId |-> [m \in Msg |-> None]]

\* find_queue, or ipc_create_queue on first use when the table has room.
CanOpen(q) ==
  queue[q].used \/ Cardinality({r \in QueueId : queue[r].used}) < MaxQueues

Opened(q) == [queue[q] EXCEPT !.used = TRUE]

\* Mutant of WaitqAdd: nobody is listed.
WaitqAddNobody(waiters, p) == waiters

\* waitq_add: a pid is listed once, and is dropped when the list is full.
WaitqAdd(waiters, p) ==
  IF p \in Range(waiters) \/ Len(waiters) >= WaitqCapacity
  THEN waiters ELSE Append(waiters, p)

\* waitq_pop, and the pids (at most one) that it returns.
WaitqRest(waiters) == IF waiters = <<>> THEN <<>> ELSE Tail(waiters)
WaitqHead(waiters) == IF waiters = <<>> THEN {} ELSE {Head(waiters)}

\* waitq_remove: takes the first place that holds p out of the list.
WaitqRemove(waiters, p) ==
  LET isFirst(i) == waiters[i] = p /\ \A j \in 1 .. i - 1 : waiters[j] # p IN
  IF p \notin Range(waiters) THEN waiters
  ELSE LET i == CHOOSE i \in DOMAIN waiters : isFirst(i) IN
       SubSeq(waiters, 1, i - 1) \o SubSeq(waiters, i + 1, Len(waiters))

\* No slot in g_queues: IPC_ERROR.
IpcRefused(p, op, q) ==
  /\ Executing(p, [op |-> op, id |-> q])
  /\ ~ CanOpen(q)
  /\ ExitWith(p, IpcErrorCode)
  /\ UNCHANGED ipcVars

-----------------------------------------------------------------------------
(***************************************************************************)
(* SEND: the outcomes of ipc_send                                          *)
(***************************************************************************)
\* Bound: a SEND is begun only while MaxMsgs leaves a message for it and for
\* every SEND begun before, so the bound never stops one that is retried.
SendBounded(p, q) ==
  /\ sent[q] < MaxMsgs
  /\ \/ insn[p] = Send(q)
     \/ sent[q] + Cardinality({r \in Pid : insn[r] = Send(q)}) < MaxMsgs

Sends(p, q) == Executing(p, Send(q)) /\ CanOpen(q) /\ SendBounded(p, q)

\* Mutants of SendHandsOver: the receiver is not woken; it stays in the list.
SendHandsOverSilently(p, q) ==
  LET k == Opened(q)
      w == Head(k.recvWaiters) IN
  /\ Sends(p, q)
  /\ k.recvWaiters # <<>>
  /\ Cardinality(k.grants) < WaitqCapacity
  /\ sent' = [sent EXCEPT ![q] = @ + 1]
  /\ queue' = [queue EXCEPT ![q] =
                 [k EXCEPT !.grants = @ \cup {[pid |-> w, msg |-> sent[q] + 1]},
                           !.recvWaiters = Tail(@)]]
  /\ UNCHANGED receivedBy
  /\ Complete(p, {})

SendPeeks(p, q) ==
  LET k == Opened(q)
      w == Head(k.recvWaiters) IN
  /\ Sends(p, q)
  /\ k.recvWaiters # <<>>
  /\ Cardinality(k.grants) < WaitqCapacity
  /\ sent' = [sent EXCEPT ![q] = @ + 1]
  /\ queue' = [queue EXCEPT ![q] =
                 [k EXCEPT !.grants = @ \cup {[pid |-> w, msg |-> sent[q] + 1]}]]
  /\ UNCHANGED receivedBy
  /\ Complete(p, {w})

\* A receiver waits: grant_add for the first one, which the caller then pops
\* and wakes.
SendHandsOver(p, q) ==
  LET k == Opened(q)
      w == Head(k.recvWaiters) IN
  /\ Sends(p, q)
  /\ k.recvWaiters # <<>>
  /\ Cardinality(k.grants) < WaitqCapacity
  /\ sent' = [sent EXCEPT ![q] = @ + 1]
  /\ queue' = [queue EXCEPT ![q] =
                 [k EXCEPT !.grants = @ \cup {[pid |-> w, msg |-> sent[q] + 1]},
                           !.recvWaiters = Tail(@)]]
  /\ UNCHANGED receivedBy
  /\ Complete(p, {w})

\* A receiver waits and grants[] is full: IPC_ERROR.
SendGrantsFull(p, q) ==
  /\ Sends(p, q)
  /\ queue[q].recvWaiters # <<>>
  /\ Cardinality(queue[q].grants) >= WaitqCapacity
  /\ ExitWith(p, IpcErrorCode)
  /\ UNCHANGED ipcVars

\* The queue is full: ipc_wait_sender, block_current.
SendBlocks(p, q) ==
  LET k == Opened(q) IN
  /\ Sends(p, q)
  /\ k.recvWaiters = <<>>
  /\ Len(k.items) >= Capacity
  /\ queue' = [queue EXCEPT ![q] =
                 [k EXCEPT !.sendWaiters = WaitqAdd(@, p)]]
  /\ UNCHANGED <<sent, receivedBy>>
  /\ BlockIn(p, Send(q))

\* Mutant of SendQueues: waiting receivers are not looked for.
SendQueuesBeside(p, q) ==
  LET k == Opened(q) IN
  /\ Sends(p, q)
  /\ Len(k.items) < Capacity
  /\ sent' = [sent EXCEPT ![q] = @ + 1]
  /\ queue' = [queue EXCEPT ![q] = [k EXCEPT !.items = Append(@, sent[q] + 1)]]
  /\ UNCHANGED receivedBy
  /\ Complete(p, {})

\* There is room, and no receiver for ipc_pop_receiver_waiter to return.
SendQueues(p, q) ==
  LET k == Opened(q) IN
  /\ Sends(p, q)
  /\ k.recvWaiters = <<>>
  /\ Len(k.items) < Capacity
  /\ sent' = [sent EXCEPT ![q] = @ + 1]
  /\ queue' = [queue EXCEPT ![q] = [k EXCEPT !.items = Append(@, sent[q] + 1)]]
  /\ UNCHANGED receivedBy
  /\ Complete(p, {})

-----------------------------------------------------------------------------
(***************************************************************************)
(* RECV: the outcomes of ipc_recv                                          *)
(***************************************************************************)
Recvs(p, q) == Executing(p, Recv(q)) /\ CanOpen(q)

GrantsOf(p, q) == {g \in queue[q].grants : g.pid = p}

\* Mutant of Received: no sender is woken.
ReceivedSilently(p, q, m, k) ==
  /\ queue' = [queue EXCEPT ![q] = k]
  /\ receivedBy' = [receivedBy EXCEPT ![q][m] = p]
  /\ UNCHANGED sent
  /\ Complete(p, {})

\* A message was received: ipc_pop_sender_waiter, wake it, complete.
Received(p, q, m, k) ==
  /\ queue' = [queue EXCEPT ![q] = [k EXCEPT !.sendWaiters = WaitqRest(@)]]
  /\ receivedBy' = [receivedBy EXCEPT ![q][m] = p]
  /\ UNCHANGED sent
  /\ Complete(p, WaitqHead(k.sendWaiters))

\* grant_take: the oldest message reserved for p; waitq_remove takes p off
\* the list it may still be on.
RecvGranted(p, q) ==
  \E g \in GrantsOf(p, q) :
    /\ Recvs(p, q)
    /\ \A h \in GrantsOf(p, q) : g.msg <= h.msg
    /\ Received(p, q, g.msg,
                [Opened(q) EXCEPT !.grants = @ \ {g},
                                  !.recvWaiters = WaitqRemove(@, p)])

\* Somebody else is first in line, or nothing is queued.
MustWait(p, q) ==
  \/ queue[q].recvWaiters # <<>> /\ Head(queue[q].recvWaiters) # p
  \/ queue[q].items = <<>>

\* ipc_wait_receiver, block_current.
RecvBlocks(p, q) ==
  LET k == Opened(q) IN
  /\ Recvs(p, q)
  /\ GrantsOf(p, q) = {}
  /\ MustWait(p, q)
  /\ queue' = [queue EXCEPT ![q] =
                 [k EXCEPT !.recvWaiters = WaitqAdd(@, p)]]
  /\ UNCHANGED <<sent, receivedBy>>
  /\ BlockIn(p, Recv(q))

\* Mutants of RecvDequeues: the newest message goes first; the message stays in
\* the queue.
RecvDequeuesNewest(p, q) ==
  /\ Recvs(p, q)
  /\ GrantsOf(p, q) = {}
  /\ ~ MustWait(p, q)
  /\ LET n == Len(queue[q].items) IN
     Received(p, q, queue[q].items[n], [Opened(q) EXCEPT !.items = SubSeq(@, 1, n - 1)])

RecvPeeks(p, q) ==
  /\ Recvs(p, q)
  /\ GrantsOf(p, q) = {}
  /\ ~ MustWait(p, q)
  /\ Received(p, q, Head(queue[q].items), Opened(q))

RecvDequeues(p, q) ==
  /\ Recvs(p, q)
  /\ GrantsOf(p, q) = {}
  /\ ~ MustWait(p, q)
  /\ Received(p, q, Head(queue[q].items), [Opened(q) EXCEPT !.items = Tail(@)])

-----------------------------------------------------------------------------
IpcStep(p) ==
  \E q \in QueueId :
    \/ \E op \in {"SEND", "RECV"} : IpcRefused(p, op, q)
    \/ SendHandsOver(p, q)
    \/ SendGrantsFull(p, q)
    \/ SendBlocks(p, q)
    \/ SendQueues(p, q)
    \/ RecvGranted(p, q)
    \/ RecvBlocks(p, q)
    \/ RecvDequeues(p, q)

\* Processes and the dispatcher; the shell does not kill.
QuietNext == \E p \in Pid : IpcStep(p) \/ (Background(p) /\ UNCHANGED ipcVars)

KillStep(p) == KillCommand(p) /\ UNCHANGED ipcVars

IpcNext == QuietNext \/ \E p \in Pid : KillStep(p)

IpcSpec == IpcInit /\ [][IpcNext]_vars

\* Nobody is killed.
IpcQuietSpec == IpcInit /\ [][QuietNext]_vars

-----------------------------------------------------------------------------
Grant == [pid : Pid, msg : Msg]
QueueType == [used : BOOLEAN, items : Seq(Msg), grants : SUBSET Grant,
              sendWaiters : Seq(Pid), recvWaiters : Seq(Pid)]

\* No receiver waits beside a queued message: ipc_send gives a message to the
\* first waiting receiver instead of queueing it, and ipc_recv lines up behind
\* waiting receivers only while the queue is empty.
NoMessageBesideWaiter ==
  \A q \in QueueId : queue[q].recvWaiters # <<>> => queue[q].items = <<>>

\* Exactly once: every message that was sent is queued, reserved for one
\* receiver, or received, and only one of the three; the queue is in sending
\* order and everything in it is younger than everything that left it.
ExactlyOnce ==
  \A q \in QueueId :
    LET granted(m) == {g \in queue[q].grants : g.msg = m}
        places(m) == {i \in DOMAIN queue[q].items : queue[q].items[i] = m}
        oldest == sent[q] - Len(queue[q].items) + 1 IN
    /\ \A m \in 1 .. sent[q] :
         Cardinality(granted(m)) + Cardinality(places(m))
           + (IF receivedBy[q][m] = None THEN 0 ELSE 1) = 1
    /\ \A i \in DOMAIN queue[q].items : queue[q].items[i] = oldest + i - 1

\* The processes that were woken to retry a SEND on q.
Retrying(q) == {p \in Pid : state[p] \in {"READY", "RUNNING"} /\ insn[p] = Send(q)}

\* No lost wakeup: while senders sleep, every free place of the queue has a
\* woken sender on its way to it, or a message in the hands of a receiver that
\* will wake one when it collects it (ipc_pop_sender_waiter after every
\* receive).  A place taken by a process that was not woken leaves one too many
\* on the way, never one too few.
NoLostSpace ==
  \A q \in QueueId :
    queue[q].sendWaiters # <<>> =>
      Capacity - Len(queue[q].items)
        <= Cardinality(Retrying(q)) + Cardinality(queue[q].grants)

Listed(p, waiters) == Cardinality({i \in DOMAIN waiters : waiters[i] = p})

\* ipc.h:41-44, "Register a sender blocked on a full queue" and "Register a
\* receiver blocked on an empty queue": a process asleep in SEND or RECV is in
\* the list that the matching RECV or SEND pops, once, and in no other, and one
\* asleep in its IO is in none.
SleepersRegistered ==
  \A p \in Pid : state[p] = "BLOCKED" =>
    \A q \in QueueId :
      /\ Listed(p, queue[q].sendWaiters) = IF insn[p] = Send(q) THEN 1 ELSE 0
      /\ Listed(p, queue[q].recvWaiters) = IF insn[p] = Recv(q) THEN 1 ELSE 0

\* A listed waiter is asleep in that very instruction, or dead.
WaitersAsleep ==
  \A q \in QueueId :
    /\ \A p \in Range(queue[q].sendWaiters) :
         state[p] = "EXITED" \/ (state[p] = "BLOCKED" /\ insn[p] = Send(q))
    /\ \A p \in Range(queue[q].recvWaiters) :
         state[p] = "EXITED" \/ (state[p] = "BLOCKED" /\ insn[p] = Recv(q))

\* A message is reserved only for a process that is awake and about to retry
\* its RECV (one message per process), or for one that was killed.
GrantsAwake ==
  \A q \in QueueId : \A g \in queue[q].grants :
    \/ state[g.pid] = "EXITED"
    \/ /\ state[g.pid] \in {"READY", "RUNNING"}
       /\ insn[g.pid] = Recv(q)
       /\ GrantsOf(g.pid, q) = {g}

\* The lists name the right processes: a SEND or RECV wakes nobody out of
\* another instruction, and no message is kept for a process that is not coming.
WaitersInPlace == WaitersAsleep /\ GrantsAwake

\* Each queue is a bounded FIFO channel with hand-off (module Channel).
Chan(q) == INSTANCE Channel WITH
  sent <- sent[q],
  queued <- Range(queue[q].items),
  reserved <- queue[q].grants,
  receivedBy <- receivedBy[q]

ImplementsChannel ==
  /\ \A q \in QueueId : Chan(q)!ChannelInit
  /\ [][\A q \in QueueId : [Chan(q)!ChannelNext]_(Chan(q)!chanVars)]_vars

-----------------------------------------------------------------------------
\* README.md:123, "receiver waiting? -> direct grant + wake receiver": a
\* message is handed to a process that is woken by it.
HandoffWakes ==
  [][\A q \in QueueId : \A g \in queue'[q].grants \ queue[q].grants :
       state[g.pid] = "BLOCKED" /\ state'[g.pid] = "READY"]_vars
=============================================================================
