---------------------------- MODULE ChannelProofs ----------------------------
(***************************************************************************)
(* What module Ipc promises to those who use a queue, for any processes,   *)
(* any queue ids and any sizes of the tables: each message is in exactly   *)
(* one place, each queue implements Channel, no sleeper is forgotten and   *)
(* no free place is.  All of it builds on the invariant of IpcProofs.      *)
(***************************************************************************)
EXTENDS IpcProofs, FiniteSetTheorems

-----------------------------------------------------------------------------
(***************************************************************************)
(* Messages: each is in exactly one place, and each queue implements       *)
(* Channel.                                                                *)
(***************************************************************************)
\* Every message that ipc_send accepted is in exactly one place: the queue,
\* one grant, or one receiver; and the queue is in sending order.
THEOREM MessagesExactlyOnce == IpcSpec => []ExactlyOnce
<1>1. IpcInv => ExactlyOnce
  <2> SUFFICES ASSUME IpcInv, NEW q \in QueueId
               PROVE  /\ \A m \in 1 .. sent[q] :
                           Cardinality({g \in queue[q].grants : g.msg = m})
                             + Cardinality({i \in DOMAIN queue[q].items : queue[q].items[i] = m})
                             + (IF receivedBy[q][m] = None THEN 0 ELSE 1) = 1
                      /\ \A i \in DOMAIN queue[q].items :
                           queue[q].items[i] = sent[q] - Len(queue[q].items) + 1 + i - 1
      BY DEF ExactlyOnce
  <2>1. /\ Left(q) \in Nat /\ Messages(Left(q), queue[q].items, queue[q].grants, receivedBy[q])
        /\ sent[q] \in 0 .. MaxMsgs /\ queue[q].items \in Seq(Msg)
        /\ queue[q].grants \in SUBSET Grant
        BY DEF IpcInv, IpcTypeOK, QueueType, QueueInv, MessagesOf
  <2>2. /\ DOMAIN queue[q].items = 1 .. Len(queue[q].items) /\ Len(queue[q].items) \in Nat
        /\ sent[q] = Left(q) + Len(queue[q].items)
        BY <2>1 DEF Left
  <2>3. \A i \in DOMAIN queue[q].items :
          queue[q].items[i] = sent[q] - Len(queue[q].items) + 1 + i - 1
        BY <2>1, <2>2 DEF Messages
  <2>4. ASSUME NEW m \in 1 .. sent[q]
        PROVE  Cardinality({g \in queue[q].grants : g.msg = m})
                 + Cardinality({i \in DOMAIN queue[q].items : queue[q].items[i] = m})
                 + (IF receivedBy[q][m] = None THEN 0 ELSE 1) = 1
    <3> DEFINE granted == {g \in queue[q].grants : g.msg = m}
               places == {i \in DOMAIN queue[q].items : queue[q].items[i] = m}
    <3>1. m \in Msg /\ m \in Nat
          BY <2>1, IpcAssumption DEF Msg
    <3>2. Cardinality({}) = 0
          BY FS_EmptySet
    <3>3. CASE m <= Left(q)
      <4>1. places = {}
            BY <2>1, <2>2, <3>1, <3>3 DEF Messages
      <4>2. CASE receivedBy[q][m] = None
        <5>1. PICK g \in queue[q].grants : g.msg = m
              BY <2>1, <3>1, <3>3, <4>2 DEF Messages, Reserved
        <5>2. granted = {g}
              BY <2>1, <5>1 DEF Messages
        <5>3. Cardinality({g}) = 1
              BY FS_Singleton
        <5> HIDE DEF granted, places
        <5>4. Cardinality(granted) = 1 /\ Cardinality(places) = 0
              BY <3>2, <4>1, <5>2, <5>3
        <5>5. QED BY <4>2, <5>4 DEF granted, places
      <4>3. CASE receivedBy[q][m] # None
        <5>1. granted = {}
              BY <2>1, <3>1, <3>3, <4>3 DEF Messages, Reserved
        <5> HIDE DEF granted, places
        <5>2. Cardinality(granted) = 0 /\ Cardinality(places) = 0
              BY <3>2, <4>1, <5>1
        <5>3. QED BY <4>3, <5>2 DEF granted, places
      <4>4. QED BY <4>2, <4>3
    <3>4. CASE m > Left(q)
      <4>1. granted = {} /\ receivedBy[q][m] = None
            BY <2>1, <3>1, <3>4 DEF Messages, Reserved
      <4>2. places = {m - Left(q)}
            BY <2>1, <2>2, <3>1, <3>4 DEF Messages
      <4>3. Cardinality({m - Left(q)}) = 1
            BY FS_Singleton, Zenon
      <4> HIDE DEF granted, places
      <4>4. Cardinality(granted) = 0 /\ Cardinality(places) = 1
            BY <3>2, <4>1, <4>2, <4>3
      <4>5. QED BY <4>1, <4>4 DEF granted, places
    <3>5. QED BY <2>1, <3>1, <3>3, <3>4
  <2>5. QED BY <2>3, <2>4
<1>2. QED BY <1>1, IpcInvAlways, PTL

-----------------------------------------------------------------------------
(***************************************************************************)
(* Each queue implements Channel: its messages are the interval of the     *)
(* youngest ones, so the oldest of them is its head and their number is its *)
(* length                                                                  *)
(***************************************************************************)
LEMMA RangeInterval ==
  ASSUME NEW left \in Nat, NEW items \in Seq(Msg), NEW grants, NEW received,
         Messages(left, items, grants, received)
  PROVE  Range(items) = (left + 1) .. (left + Len(items))
<1>1. DOMAIN items = 1 .. Len(items) /\ Len(items) \in Nat
      OBVIOUS
<1>2. ASSUME NEW x \in Range(items) PROVE x \in (left + 1) .. (left + Len(items))
      BY <1>1 DEF Range, Messages
<1>3. ASSUME NEW x \in (left + 1) .. (left + Len(items)) PROVE x \in Range(items)
  <2>1. x - left \in DOMAIN items /\ items[x - left] = x
        BY <1>1 DEF Messages
  <2>2. QED BY <2>1 DEF Range
<1>4. QED BY <1>2, <1>3, Zenon

LEMMA QueuedCardinality ==
  ASSUME IpcInv, NEW q \in QueueId
  PROVE  Cardinality(Range(queue[q].items)) = Len(queue[q].items)
<1>1. /\ Left(q) \in Nat /\ Messages(Left(q), queue[q].items, queue[q].grants, receivedBy[q])
      /\ queue[q].items \in Seq(Msg)
      BY DEF IpcInv, IpcTypeOK, QueueType, QueueInv, MessagesOf
<1>2. PICK l, r : l = Left(q) + 1 /\ r = Left(q) + Len(queue[q].items)
      OBVIOUS
<1>3. Len(queue[q].items) \in Nat /\ l \in Int /\ r \in Int
      BY <1>1, <1>2
<1>4. Cardinality(l .. r) = IF l > r THEN 0 ELSE r - l + 1
      BY <1>3, FS_Interval
<1>5. Range(queue[q].items) = l .. r
      BY <1>1, <1>2, RangeInterval
<1>6. QED BY <1>1, <1>2, <1>3, <1>4, <1>5

LEMMA ChannelInitial == IpcInit => \A q \in QueueId : Chan(q)!ChannelInit
BY DEF IpcInit, Unused, Range, Msg, Chan!ChannelInit

\* The steps of the channel of q.
ChanStep(q) == [Chan(q)!ChannelNext]_(Chan(q)!chanVars)

LEMMA SameChannel ==
  ASSUME NEW q \in QueueId, sent'[q] = sent[q], receivedBy'[q] = receivedBy[q],
         queue'[q].items = queue[q].items, queue'[q].grants = queue[q].grants
  PROVE  ChanStep(q)
BY DEF ChanStep, Chan!chanVars

LEMMA SendHandsOverStep ==
  ASSUME IpcInv, NEW p \in Pid, NEW q \in QueueId, SendHandsOver(p, q)
  PROVE  ChanStep(q)
<1>1. PICK w, rest, k0 : /\ w = Head(queue[q].recvWaiters) /\ rest = Tail(queue[q].recvWaiters)
                         /\ k0 = Opened(q)
      BY Zenon
<1>2. /\ k0 \in QueueType /\ k0.items = queue[q].items /\ k0.grants = queue[q].grants
      /\ k0.recvWaiters = queue[q].recvWaiters
      BY <1>1, OpenedFacts DEF IpcInv
<1>3. PICK k1 : k1 = [k0 EXCEPT !.grants = queue[q].grants \cup {[pid |-> w, msg |-> sent[q] + 1]},
                                !.recvWaiters = rest]
      OBVIOUS
<1>4. /\ queue[q].recvWaiters # <<>> /\ queue' = [queue EXCEPT ![q] = k1]
      /\ sent' = [sent EXCEPT ![q] = @ + 1] /\ receivedBy' = receivedBy
      BY <1>1, <1>2, <1>3 DEF SendHandsOver
<1>5. /\ queue'[q].items = queue[q].items
      /\ queue'[q].grants = queue[q].grants \cup {[pid |-> w, msg |-> sent[q] + 1]}
      /\ sent'[q] = sent[q] + 1
      BY <1>2, <1>3, <1>4 DEF IpcInv, IpcTypeOK, QueueType
<1>6. queue[q].items = <<>> /\ w \in Pid
      BY <1>1, <1>4, TailFacts DEF IpcInv, IpcTypeOK, QueueType, QueueInv, MessagesOf
<1>7. Chan(q)!HandOver(w)
      BY <1>4, <1>5, <1>6 DEF Chan!HandOver, Range
<1>8. QED BY <1>6, <1>7 DEF ChanStep, Chan!ChannelNext

LEMMA SendQueuesStep ==
  ASSUME IpcInv, NEW p \in Pid, NEW q \in QueueId, SendQueues(p, q)
  PROVE  ChanStep(q)
<1>1. PICK k0 : k0 = Opened(q)
      OBVIOUS
<1>2. /\ k0 \in QueueType /\ k0.items = queue[q].items /\ k0.grants = queue[q].grants
      /\ queue[q].items \in Seq(Msg)
      BY <1>1, OpenedFacts DEF IpcInv, IpcTypeOK, QueueType
<1>3. PICK k1 : k1 = [k0 EXCEPT !.items = Append(queue[q].items, sent[q] + 1)]
      BY Zenon
<1>4. /\ Len(queue[q].items) < Capacity /\ queue' = [queue EXCEPT ![q] = k1]
      /\ sent' = [sent EXCEPT ![q] = @ + 1] /\ receivedBy' = receivedBy
      BY <1>1, <1>2, <1>3 DEF SendQueues
<1>5. /\ queue'[q].items = Append(queue[q].items, sent[q] + 1)
      /\ queue'[q].grants = queue[q].grants /\ sent'[q] = sent[q] + 1
      BY <1>2, <1>3, <1>4 DEF IpcInv, IpcTypeOK, QueueType
<1>6. ASSUME NEW items \in Seq(Msg), NEW m
      PROVE  Range(Append(items, m)) = Range(items) \cup {m}
  <2>1. /\ DOMAIN Append(items, m) = 1 .. Len(items) + 1 /\ Append(items, m)[Len(items) + 1] = m
        /\ \A i \in 1 .. Len(items) : Append(items, m)[i] = items[i]
        /\ DOMAIN items = 1 .. Len(items) /\ Len(items) \in Nat
        OBVIOUS
  <2>2. QED BY <2>1 DEF Range
<1>7. Chan(q)!Enqueue
  <2>1. Cardinality(Range(queue[q].items)) < Capacity
        BY <1>4, QueuedCardinality
  <2>2. Range(queue'[q].items) = Range(queue[q].items) \cup {sent[q] + 1}
        BY <1>2, <1>5, <1>6
  <2>3. receivedBy'[q] = receivedBy[q]
        BY <1>4
  <2>4. Chan(q)!Cardinality(Range(queue[q].items)) = Cardinality(Range(queue[q].items))
        BY DEF Chan!Cardinality, Cardinality
  <2>5. QED BY <1>5, <2>1, <2>2, <2>3, <2>4 DEF Chan!Enqueue
<1>8. QED BY <1>7 DEF ChanStep, Chan!ChannelNext

LEMMA RecvGrantedStep ==
  ASSUME IpcInv, NEW p \in Pid, NEW q \in QueueId, RecvGranted(p, q)
  PROVE  ChanStep(q)
<1>1. PICK g \in GrantsOf(p, q) :
        Received(p, q, g.msg, [Opened(q) EXCEPT !.grants = @ \ {g},
                                                !.recvWaiters = WaitqRemove(@, p)])
      BY Zenon DEF RecvGranted
<1>2. PICK k0, rest : k0 = Opened(q) /\ rest = WaitqRemove(k0.recvWaiters, p)
      OBVIOUS
<1>3. /\ k0 \in QueueType /\ k0.items = queue[q].items /\ k0.grants = queue[q].grants
      BY <1>2, OpenedFacts DEF IpcInv
<1>4. PICK k1 : k1 = [k0 EXCEPT !.grants = queue[q].grants \ {g}, !.recvWaiters = rest]
      OBVIOUS
<1>5. PICK k2 : k2 = [k1 EXCEPT !.sendWaiters = WaitqRest(@)]
      BY Zenon
<1>6. /\ queue' = [queue EXCEPT ![q] = k2]
      /\ receivedBy' = [receivedBy EXCEPT ![q][g.msg] = p] /\ sent' = sent
      BY <1>1, <1>2, <1>3, <1>4, <1>5 DEF Received
<1>7. k2.items = queue[q].items /\ k2.grants = queue[q].grants \ {g}
      BY <1>3, <1>4, <1>5 DEF QueueType
<1>8. /\ queue'[q].items = queue[q].items /\ queue'[q].grants = queue[q].grants \ {g}
      /\ receivedBy'[q] = [receivedBy[q] EXCEPT ![g.msg] = p]
      BY <1>6, <1>7 DEF IpcInv, IpcTypeOK
<1>9. /\ g \in queue[q].grants /\ g \in Grant /\ g.pid = p /\ g.msg \in Msg
      /\ queue[q].grants \in SUBSET Grant
      BY <1>1 DEF GrantsOf, Grant, IpcInv, IpcTypeOK, QueueType
<1>10. g = [pid |-> p, msg |-> g.msg]
       BY <1>9 DEF Grant
<1>11. receivedBy[q][g.msg] = None
  <2>1. /\ Left(q) \in Nat /\ receivedBy[q] \in [Msg -> Pid \cup {None}]
        /\ Messages(Left(q), queue[q].items, queue[q].grants, receivedBy[q])
        BY DEF IpcInv, IpcTypeOK, QueueInv, MessagesOf
  <2>2. g.msg <= Left(q)
        BY <1>9, <2>1 DEF Messages, Reserved, Msg
  <2>3. QED BY <1>9, <2>1, <2>2 DEF Messages, Reserved
<1>12. Chan(q)!Collect(p, g.msg)
       BY <1>6, <1>8, <1>9, <1>10, <1>11 DEF Chan!Collect
<1>13. QED BY <1>9, <1>12 DEF ChanStep, Chan!ChannelNext, Msg

LEMMA RecvDequeuesStep ==
  ASSUME IpcInv, NEW p \in Pid, NEW q \in QueueId, RecvDequeues(p, q)
  PROVE  ChanStep(q)
<1>1. PICK k0, m : k0 = Opened(q) /\ m = Head(queue[q].items)
      OBVIOUS
<1>2. /\ k0 \in QueueType /\ k0.items = queue[q].items /\ k0.grants = queue[q].grants
      BY <1>1, OpenedFacts DEF IpcInv
<1>3. PICK k1 : k1 = [k0 EXCEPT !.items = Tail(queue[q].items)]
      BY Zenon
<1>4. PICK k2 : k2 = [k1 EXCEPT !.sendWaiters = WaitqRest(@)]
      BY Zenon
<1>5. /\ GrantsOf(p, q) = {} /\ queue[q].items # <<>>
      /\ queue' = [queue EXCEPT ![q] = k2]
      /\ receivedBy' = [receivedBy EXCEPT ![q][m] = p] /\ sent' = sent
      BY <1>1, <1>2, <1>3, <1>4 DEF RecvDequeues, Received, MustWait
<1>6. k2.items = Tail(queue[q].items) /\ k2.grants = queue[q].grants
      BY <1>2, <1>3, <1>4 DEF QueueType
<1>7. /\ queue'[q].items = Tail(queue[q].items) /\ queue'[q].grants = queue[q].grants
      /\ receivedBy'[q] = [receivedBy[q] EXCEPT ![m] = p] /\ sent'[q] = sent[q]
      BY <1>5, <1>6 DEF IpcInv, IpcTypeOK
<1>8. PICK left : left = Left(q)
      OBVIOUS
<1>9. /\ left \in Nat /\ queue[q].items \in Seq(Msg) /\ sent[q] \in Nat
      /\ queue[q].grants \in SUBSET Grant /\ receivedBy[q] \in [Msg -> Pid \cup {None}]
      /\ Messages(left, queue[q].items, queue[q].grants, receivedBy[q])
      BY <1>8 DEF IpcInv, IpcTypeOK, QueueType, QueueInv, MessagesOf
<1>10. /\ m = left + 1 /\ m \in Msg /\ receivedBy[q][m] = None
       /\ Messages(left + 1, Tail(queue[q].items), queue[q].grants, receivedBy'[q])
  <2>1. /\ m = left + 1 /\ receivedBy[q][m] = None
        /\ Messages(left + 1, Tail(queue[q].items), queue[q].grants,
                    [receivedBy[q] EXCEPT ![m] = p])
        BY <1>1, <1>5, <1>9, DequeueMessages, Zenon
  <2>2. m \in Msg
        BY <1>1, <1>5, <1>9
  <2>3. QED BY <1>7, <2>1, <2>2
<1>11. /\ Len(queue[q].items) \in Nat \ {0} /\ Tail(queue[q].items) \in Seq(Msg)
       /\ Len(Tail(queue[q].items)) = Len(queue[q].items) - 1
       BY <1>5, <1>9
<1>12. /\ Range(queue[q].items) = (left + 1) .. (left + Len(queue[q].items))
       /\ Range(queue'[q].items) = (left + 2) .. (left + Len(queue[q].items))
  <2>1. Range(queue[q].items) = (left + 1) .. (left + Len(queue[q].items))
        BY <1>9, RangeInterval
  <2>2. left + 1 \in Nat
        BY <1>9
  <2>3. Range(Tail(queue[q].items)) =
          (left + 1 + 1) .. (left + 1 + Len(Tail(queue[q].items)))
        BY <1>10, <1>11, <2>2, RangeInterval, Zenon
  <2>4. /\ left + 1 + 1 = left + 2
        /\ left + 1 + Len(Tail(queue[q].items)) = left + Len(queue[q].items)
    <3>1. ASSUME NEW n \in Nat, NEW n1, n1 = n - 1
          PROVE  left + 1 + 1 = left + 2 /\ left + 1 + n1 = left + n
          BY <1>9, <3>1
    <3>2. QED BY <1>11, <3>1
  <2>5. QED BY <1>7, <2>1, <2>3, <2>4
<1>13. Chan(q)!Dequeue(p, m)
  <2>1. m \in Range(queue[q].items) /\ \A n \in Range(queue[q].items) : m <= n
        BY <1>9, <1>10, <1>11, <1>12
  <2>2. Range(queue'[q].items) = Range(queue[q].items) \ {m}
        BY <1>9, <1>10, <1>11, <1>12
  <2>3. \A r \in queue[q].grants : r.pid # p
        BY <1>5 DEF GrantsOf
  <2>4. QED BY <1>5, <1>7, <1>10, <2>1, <2>2, <2>3 DEF Chan!Dequeue
<1>14. QED BY <1>10, <1>13 DEF ChanStep, Chan!ChannelNext, Msg

\* SEND and RECV on q leave the other channels as they are.
LEMMA OtherChannels ==
  ASSUME IpcInv, NEW p \in Pid, NEW q \in QueueId, NEW t \in QueueId, t # q,
         \/ SendHandsOver(p, q) \/ SendBlocks(p, q) \/ SendQueues(p, q)
         \/ RecvGranted(p, q) \/ RecvBlocks(p, q) \/ RecvDequeues(p, q)
  PROVE  queue'[t] = queue[t] /\ sent'[t] = sent[t] /\ receivedBy'[t] = receivedBy[t]
<1>1. ASSUME NEW k, queue' = [queue EXCEPT ![q] = k] PROVE queue'[t] = queue[t]
      BY <1>1 DEF IpcInv, IpcTypeOK
<1>2. ASSUME NEW n, sent' = [sent EXCEPT ![q] = n] PROVE sent'[t] = sent[t]
      BY <1>2 DEF IpcInv, IpcTypeOK
<1>3. ASSUME NEW m, NEW k, Received(p, q, m, k)
      PROVE  queue'[t] = queue[t] /\ sent'[t] = sent[t] /\ receivedBy'[t] = receivedBy[t]
      BY <1>1, <1>3 DEF Received, IpcInv, IpcTypeOK
<1>4. CASE SendHandsOver(p, q) \/ SendQueues(p, q)
      BY <1>1, <1>2, <1>4 DEF SendHandsOver, SendQueues
<1>5. CASE SendBlocks(p, q) \/ RecvBlocks(p, q)
      BY <1>1, <1>5 DEF SendBlocks, RecvBlocks
<1>6. CASE RecvGranted(p, q) \/ RecvDequeues(p, q)
      BY <1>3, <1>6, Zenon DEF RecvGranted, RecvDequeues
<1>7. QED BY <1>4, <1>5, <1>6

\* Each message queue implements Channel: ipc_send and ipc_recv, with the wake
\* ups that follow them, take steps of a bounded FIFO channel with hand-off,
\* or leave the channel as it is.
THEOREM QueuesImplementChannel == IpcSpec => ImplementsChannel
<1>1. ASSUME IpcInv, [IpcNext]_vars, NEW t \in QueueId PROVE ChanStep(t)
  <2>1. CASE UNCHANGED vars \/ UNCHANGED ipcVars
        BY <2>1, SameChannel DEF vars, ipcVars
  <2>2. ASSUME NEW p \in Pid, IpcStep(p) PROVE ChanStep(t)
    <3>1. PICK q \in QueueId :
            \/ \E op \in {"SEND", "RECV"} : IpcRefused(p, op, q)
            \/ SendHandsOver(p, q) \/ SendGrantsFull(p, q)
            \/ SendBlocks(p, q) \/ SendQueues(p, q)
            \/ RecvGranted(p, q) \/ RecvBlocks(p, q) \/ RecvDequeues(p, q)
          BY <2>2 DEF IpcStep
    <3>2. CASE SendGrantsFull(p, q) \/ \E op \in {"SEND", "RECV"} : IpcRefused(p, op, q)
          BY <2>1, <3>2 DEF SendGrantsFull, IpcRefused
    <3>3. CASE t # q /\ ~ UNCHANGED ipcVars
      BY <1>1, <3>1, <3>2, <3>3, OtherChannels, SameChannel
    <3>4. CASE t = q /\ (SendBlocks(p, q) \/ RecvBlocks(p, q))
      <4>1. Opened(q) \in QueueType /\ Opened(q).items = queue[q].items
            /\ Opened(q).grants = queue[q].grants
            BY <1>1, OpenedFacts DEF IpcInv
      <4>2. sent' = sent /\ receivedBy' = receivedBy
            BY <3>4 DEF SendBlocks, RecvBlocks
      <4>3. \E ws : \/ queue' = [queue EXCEPT ![q] = [Opened(q) EXCEPT !.sendWaiters = ws]]
                    \/ queue' = [queue EXCEPT ![q] = [Opened(q) EXCEPT !.recvWaiters = ws]]
            BY <3>4 DEF SendBlocks, RecvBlocks
      <4>4. queue'[q].items = queue[q].items /\ queue'[q].grants = queue[q].grants
            BY <1>1, <4>1, <4>3 DEF IpcInv, IpcTypeOK, QueueType
      <4>5. QED BY <3>4, <4>2, <4>4, SameChannel
    <3>5. QED BY <1>1, <2>1, <3>1, <3>2, <3>3, <3>4, SendHandsOverStep, SendQueuesStep,
                 RecvGrantedStep, RecvDequeuesStep
  <2>3. QED BY <1>1, <2>1, <2>2 DEF IpcNext, QuietNext, KillStep
<1>2. IpcInv /\ [IpcNext]_vars => [\A q \in QueueId : ChanStep(q)]_vars
      BY <1>1
<1>3. QED BY <1>2, ChannelInitial, IpcInvAlways, PTL DEF IpcSpec, ImplementsChannel, ChanStep


-----------------------------------------------------------------------------
(***************************************************************************)
(* Sleepers and free places                                                *)
(*                                                                         *)
(* What an instruction of p on q does to the lists, to the number of       *)
(* messages and to the processes, whatever the messages are.               *)
(***************************************************************************)
\* Nothing else changes: the processes of S are woken if they sleep.
OnlyWakes(p, q, S) ==
  /\ \A t \in QueueId \ {q} : queue'[t] = queue[t]
  /\ \A r \in Pid \ {p} :
       /\ insn'[r] = insn[r]
       /\ state'[r] = IF r \in S /\ state[r] = "BLOCKED" THEN "READY" ELSE state[r]

\* p goes on, and the records of q are k before and l after the step.
Proceeds(p, q, i, S) ==
  /\ Executing(p, i) /\ OnlyWakes(p, q, S)
  /\ insn'[p] = None /\ state'[p] = "RUNNING"

Sleeps(p, q, i) ==
  /\ Executing(p, i) /\ OnlyWakes(p, q, {})
  /\ insn'[p] = i /\ state'[p] = "BLOCKED"

HandsOver(p, q, k, l) ==
  /\ k.recvWaiters # <<>> /\ Proceeds(p, q, Send(q), {Head(k.recvWaiters)})
  /\ l.used /\ l.items = k.items
  /\ l.sendWaiters = k.sendWaiters /\ l.recvWaiters = Tail(k.recvWaiters)
  /\ \E g : g \notin k.grants /\ l.grants = k.grants \cup {g}

Queues(p, q, k, l) ==
  /\ Proceeds(p, q, Send(q), {})
  /\ l.used /\ Len(l.items) = Len(k.items) + 1 /\ l.grants = k.grants
  /\ l.sendWaiters = k.sendWaiters /\ l.recvWaiters = k.recvWaiters

Lists(p, q, k, l) ==
  /\ l.used /\ l.items = k.items /\ l.grants = k.grants
  /\ \/ /\ Sleeps(p, q, Send(q)) /\ Len(k.items) >= Capacity
        /\ l.sendWaiters = WaitqAdd(k.sendWaiters, p) /\ l.recvWaiters = k.recvWaiters
     \/ /\ Sleeps(p, q, Recv(q))
        /\ l.sendWaiters = k.sendWaiters /\ l.recvWaiters = WaitqAdd(k.recvWaiters, p)

Takes(p, q, k, l) ==
  /\ Proceeds(p, q, Recv(q), WaitqHead(k.sendWaiters))
  /\ l.used /\ l.sendWaiters = WaitqRest(k.sendWaiters) /\ l.recvWaiters = k.recvWaiters
  /\ \/ l.items = k.items /\ \E g \in k.grants : l.grants = k.grants \ {g}
     \/ Len(l.items) = Len(k.items) - 1 /\ l.grants = k.grants

Fails(p, q, k, l) ==
  /\ \E i \in {Send(q), Recv(q)} : Executing(p, i)
  /\ OnlyWakes(p, q, {}) /\ state'[p] = "EXITED" /\ l = k
  /\ ~ k.used \/ Cardinality(k.grants) >= WaitqCapacity

Outcome(p, q, k, l) ==
  \/ HandsOver(p, q, k, l) \/ Queues(p, q, k, l) \/ Lists(p, q, k, l)
  \/ Takes(p, q, k, l) \/ Fails(p, q, k, l)

LEMMA QueueFields ==
  ASSUME IpcInv, NEW q \in QueueId
  PROVE  /\ ProcTypeOK /\ DOMAIN queue = QueueId
         /\ queue[q] \in QueueType /\ sent[q] \in 0 .. MaxMsgs
         /\ queue[q].items \in Seq(Msg) /\ queue[q].grants \in SUBSET Grant
         /\ queue[q].sendWaiters \in Seq(Pid) /\ queue[q].recvWaiters \in Seq(Pid)
         /\ Distinct(queue[q].sendWaiters) /\ Distinct(queue[q].recvWaiters)
BY DEF IpcInv, IpcTypeOK, QueueType, QueueInv, ListsOf

LEMMA OpenedUsed ==
  ASSUME IpcInv, NEW q \in QueueId
  PROVE  Opened(q).used = TRUE
BY DEF IpcInv, IpcTypeOK, QueueType, Opened

LEMMA Completed ==
  ASSUME IpcInv, NEW p \in Pid, NEW q \in QueueId, NEW i \in {Send(q), Recv(q)},
         NEW S \in SUBSET Pid, NEW l, Executing(p, i), Complete(p, S),
         queue' = [queue EXCEPT ![q] = l]
  PROVE  Proceeds(p, q, i, S) /\ queue'[q] = l
<1>1. state[p] = "RUNNING"
      BY RunnerFacts
<1>2. /\ insn'[p] = None
      /\ \A r \in Pid \ {p} : insn'[r] = insn[r]
      /\ \A r \in Pid : state'[r] = IF r \in S /\ state[r] = "BLOCKED"
                                    THEN "READY" ELSE state[r]
      BY QueueFields, CompleteFacts, Zenon
<1>3. queue'[q] = l /\ \A t \in QueueId \ {q} : queue'[t] = queue[t]
      BY QueueFields
<1>4. state'[p] = "RUNNING"
      BY <1>1, <1>2
<1>5. QED BY <1>2, <1>3, <1>4, Zenon DEF Proceeds, OnlyWakes

LEMMA FellAsleep ==
  ASSUME IpcInv, NEW p \in Pid, NEW q \in QueueId, NEW i \in {Send(q), Recv(q)},
         NEW l, Executing(p, i), BlockIn(p, i), queue' = [queue EXCEPT ![q] = l]
  PROVE  Sleeps(p, q, i) /\ queue'[q] = l
<1>1. i \in IpcInsn
      BY InsnFacts
<1>2. /\ state'[p] = "BLOCKED" /\ insn'[p] = i
      /\ \A r \in Pid \ {p} : state'[r] = state[r] /\ insn'[r] = insn[r]
      BY <1>1, QueueFields, BlockInFacts, Zenon
<1>3. queue'[q] = l /\ \A t \in QueueId \ {q} : queue'[t] = queue[t]
      BY QueueFields
<1>4. QED BY <1>2, <1>3 DEF Sleeps, OnlyWakes

LEMMA SendHandsOverOutcome ==
  ASSUME IpcInv, NEW p \in Pid, NEW q \in QueueId, SendHandsOver(p, q)
  PROVE  HandsOver(p, q, queue[q], queue'[q])
<1>1. PICK w, rest : w = Head(queue[q].recvWaiters) /\ rest = Tail(queue[q].recvWaiters)
      BY Zenon
<1>2. PICK g : g = [pid |-> w, msg |-> sent[q] + 1]
      BY Zenon
<1>3. PICK l : l = [Opened(q) EXCEPT !.grants = queue[q].grants \cup {g}, !.recvWaiters = rest]
      OBVIOUS
<1>4. /\ IpcTypeOK /\ Opened(q) \in QueueType
      BY OpenedFacts DEF IpcInv
<1>5. /\ Executing(p, Send(q)) /\ sent[q] < MaxMsgs /\ queue[q].recvWaiters # <<>>
      /\ queue' = [queue EXCEPT ![q] = l] /\ Complete(p, {w})
      BY <1>1, <1>2, <1>3, <1>4, OpenedFacts, Zenon DEF SendHandsOver, Sends, SendBounded
<1>6. {w} \in SUBSET Pid
      BY <1>1, <1>5, QueueFields, TailFacts
<1>7. Proceeds(p, q, Send(q), {w}) /\ queue'[q] = l
      BY <1>5, <1>6, Completed, Zenon
<1>8. /\ l.used = TRUE /\ l.items = queue[q].items /\ l.grants = queue[q].grants \cup {g}
      /\ l.sendWaiters = queue[q].sendWaiters /\ l.recvWaiters = rest
      BY <1>3, <1>4, OpenedFacts, OpenedUsed, Zenon DEF QueueType
<1>9. g \notin queue[q].grants
  <2>1. sent[q] + 1 \in Msg /\ g.msg = sent[q] + 1
        BY <1>2, <1>5, QueueFields, IpcAssumption DEF Msg
  <2>2. /\ Left(q) = sent[q]
        /\ \A m \in Msg : m > Left(q) => ~ Reserved(m, queue[q].grants)
        BY <1>5, QueueFields DEF IpcInv, QueueInv, MessagesOf, Messages, Left
  <2>3. sent[q] + 1 > Left(q)
        BY <2>2, QueueFields, IpcAssumption
  <2>4. QED BY <2>1, <2>2, <2>3, Zenon DEF Reserved
<1>10. QED BY <1>1, <1>5, <1>7, <1>8, <1>9, Zenon DEF HandsOver

LEMMA SendQueuesOutcome ==
  ASSUME IpcInv, NEW p \in Pid, NEW q \in QueueId, SendQueues(p, q)
  PROVE  Queues(p, q, queue[q], queue'[q])
<1>1. PICK l : l = [Opened(q) EXCEPT !.items = Append(queue[q].items, sent[q] + 1)]
      BY Zenon
<1>2. IpcTypeOK /\ Opened(q) \in QueueType
      BY OpenedFacts DEF IpcInv
<1>3. /\ Executing(p, Send(q)) /\ queue' = [queue EXCEPT ![q] = l] /\ Complete(p, {})
      BY <1>1, <1>2, OpenedFacts, Zenon DEF SendQueues, Sends
<1>4. Proceeds(p, q, Send(q), {}) /\ queue'[q] = l
      BY <1>3, Completed, Zenon
<1>5. /\ l.used = TRUE /\ l.items = Append(queue[q].items, sent[q] + 1)
      /\ l.grants = queue[q].grants
      /\ l.sendWaiters = queue[q].sendWaiters /\ l.recvWaiters = queue[q].recvWaiters
      BY <1>1, <1>2, OpenedFacts, OpenedUsed, Zenon DEF QueueType
<1>6. Len(l.items) = Len(queue[q].items) + 1
      BY <1>5, QueueFields
<1>7. QED BY <1>4, <1>5, <1>6, Zenon DEF Queues

LEMMA BlocksOutcome ==
  ASSUME IpcInv, NEW p \in Pid, NEW q \in QueueId, SendBlocks(p, q) \/ RecvBlocks(p, q)
  PROVE  Lists(p, q, queue[q], queue'[q])
<1>1. IpcTypeOK /\ Opened(q) \in QueueType
      BY OpenedFacts DEF IpcInv
<1>2. CASE SendBlocks(p, q)
  <2>1. PICK l : l = [Opened(q) EXCEPT !.sendWaiters = WaitqAdd(queue[q].sendWaiters, p)]
        BY Zenon
  <2>2. /\ Executing(p, Send(q)) /\ Len(queue[q].items) >= Capacity
        /\ queue' = [queue EXCEPT ![q] = l] /\ BlockIn(p, Send(q))
        BY <1>1, <1>2, <2>1, OpenedFacts, Zenon DEF SendBlocks, Sends
  <2>3. Sleeps(p, q, Send(q)) /\ queue'[q] = l
        BY <2>2, FellAsleep, Zenon
  <2>4. /\ l.used = TRUE /\ l.items = queue[q].items /\ l.grants = queue[q].grants
        /\ l.sendWaiters = WaitqAdd(queue[q].sendWaiters, p)
        /\ l.recvWaiters = queue[q].recvWaiters
        BY <1>1, <2>1, OpenedFacts, OpenedUsed, Zenon DEF QueueType
  <2>5. QED BY <2>2, <2>3, <2>4, Zenon DEF Lists
<1>3. CASE RecvBlocks(p, q)
  <2>1. PICK l : l = [Opened(q) EXCEPT !.recvWaiters = WaitqAdd(queue[q].recvWaiters, p)]
        BY Zenon
  <2>2. /\ Executing(p, Recv(q))
        /\ queue' = [queue EXCEPT ![q] = l] /\ BlockIn(p, Recv(q))
        BY <1>1, <1>3, <2>1, OpenedFacts, Zenon DEF RecvBlocks, Recvs
  <2>3. Sleeps(p, q, Recv(q)) /\ queue'[q] = l
        BY <2>2, FellAsleep, Zenon
  <2>4. /\ l.used = TRUE /\ l.items = queue[q].items /\ l.grants = queue[q].grants
        /\ l.sendWaiters = queue[q].sendWaiters
        /\ l.recvWaiters = WaitqAdd(queue[q].recvWaiters, p)
        BY <1>1, <2>1, OpenedFacts, OpenedUsed, Zenon DEF QueueType
  <2>5. QED BY <2>2, <2>3, <2>4, Zenon DEF Lists
<1>4. QED BY <1>2, <1>3

\* ipc_pop_sender_waiter after a message was received.
LEMMA ReceivedOutcome ==
  ASSUME IpcInv, NEW p \in Pid, NEW q \in QueueId, NEW m, NEW k \in QueueType,
         Executing(p, Recv(q)), Received(p, q, m, k), k.used = TRUE,
         k.sendWaiters = queue[q].sendWaiters, k.recvWaiters = queue[q].recvWaiters
  PROVE  /\ Proceeds(p, q, Recv(q), WaitqHead(queue[q].sendWaiters))
         /\ queue'[q].used = TRUE
         /\ queue'[q].sendWaiters = WaitqRest(queue[q].sendWaiters)
         /\ queue'[q].recvWaiters = queue[q].recvWaiters
         /\ queue'[q].items = k.items /\ queue'[q].grants = k.grants
<1>1. PICK l : l = [k EXCEPT !.sendWaiters = WaitqRest(queue[q].sendWaiters)]
      BY Zenon
<1>2. /\ queue' = [queue EXCEPT ![q] = l] /\ Complete(p, WaitqHead(queue[q].sendWaiters))
      BY <1>1, Zenon DEF Received
<1>3. WaitqHead(queue[q].sendWaiters) \in SUBSET Pid
      BY QueueFields, WaitqPopFacts
<1>4. Proceeds(p, q, Recv(q), WaitqHead(queue[q].sendWaiters)) /\ queue'[q] = l
      BY <1>2, <1>3, Completed, Zenon
<1>5. /\ l.used = TRUE /\ l.items = k.items /\ l.grants = k.grants
      /\ l.sendWaiters = WaitqRest(queue[q].sendWaiters)
      /\ l.recvWaiters = queue[q].recvWaiters
      BY <1>1 DEF QueueType
<1>6. QED BY <1>4, <1>5, Zenon

LEMMA RecvOutcome ==
  ASSUME IpcInv, NEW p \in Pid, NEW q \in QueueId, RecvGranted(p, q) \/ RecvDequeues(p, q)
  PROVE  Takes(p, q, queue[q], queue'[q])
<1>1. IpcTypeOK /\ Opened(q) \in QueueType
      BY OpenedFacts DEF IpcInv
<1>2. CASE RecvGranted(p, q)
  <2>1. PICK g \in GrantsOf(p, q) :
          /\ Recvs(p, q)
          /\ Received(p, q, g.msg, [Opened(q) EXCEPT !.grants = @ \ {g},
                                                    !.recvWaiters = WaitqRemove(@, p)])
        BY <1>2, Zenon DEF RecvGranted
  <2>2. g \in queue[q].grants /\ Executing(p, Recv(q))
        BY <2>1, Zenon DEF GrantsOf, Recvs
  <2>3. WaitqRemove(queue[q].recvWaiters, p) = queue[q].recvWaiters
        BY <2>2, RunnerFacts, QueueFields, WaitqRemoveAbsent
  <2>4. PICK k : k = [Opened(q) EXCEPT !.grants = queue[q].grants \ {g},
                                       !.recvWaiters = queue[q].recvWaiters]
        OBVIOUS
  <2>5. Received(p, q, g.msg, k)
        BY <1>1, <2>1, <2>3, <2>4, OpenedFacts, Zenon
  <2>6. k \in QueueType
    <3>1. queue[q].grants \ {g} \in SUBSET Grant
          BY QueueFields
    <3>2. QED BY <1>1, <2>4, <3>1, QueueFields, UpdateType, Zenon
  <2>7. /\ k.used = TRUE /\ k.items = queue[q].items /\ k.grants = queue[q].grants \ {g}
        /\ k.sendWaiters = queue[q].sendWaiters /\ k.recvWaiters = queue[q].recvWaiters
        BY <1>1, <2>4, OpenedFacts, OpenedUsed, Zenon DEF QueueType
  <2>8. QED BY <2>2, <2>5, <2>6, <2>7, ReceivedOutcome, ZenonT(30) DEF Takes
<1>3. CASE RecvDequeues(p, q)
  <2>1. queue[q].items # <<>> /\ Executing(p, Recv(q))
        BY <1>3, Zenon DEF RecvDequeues, MustWait, Recvs
  <2>2. PICK k : k = [Opened(q) EXCEPT !.items = Tail(queue[q].items)]
        BY Zenon
  <2>3. Received(p, q, Head(queue[q].items), k)
        BY <1>1, <1>3, <2>2, OpenedFacts, Zenon DEF RecvDequeues
  <2>4. /\ Tail(queue[q].items) \in Seq(Msg)
        /\ Len(Tail(queue[q].items)) = Len(queue[q].items) - 1
        BY <2>1, QueueFields
  <2>5. k \in QueueType
        BY <1>1, <2>2, <2>4, QueueFields, UpdateType, Zenon
  <2>6. /\ k.used = TRUE /\ k.items = Tail(queue[q].items) /\ k.grants = queue[q].grants
        /\ k.sendWaiters = queue[q].sendWaiters /\ k.recvWaiters = queue[q].recvWaiters
        BY <1>1, <2>2, OpenedFacts, OpenedUsed, Zenon DEF QueueType
  <2>7. QED BY <2>1, <2>3, <2>4, <2>5, <2>6, ReceivedOutcome, ZenonT(30) DEF Takes
<1>4. QED BY <1>2, <1>3

LEMMA FailsOutcome ==
  ASSUME IpcInv, NEW p \in Pid, NEW q \in QueueId,
         SendGrantsFull(p, q) \/ \E op \in {"SEND", "RECV"} : IpcRefused(p, op, q)
  PROVE  Fails(p, q, queue[q], queue'[q])
<1>1. PICK i \in {Send(q), Recv(q)} : Executing(p, i)
      BY Zenon DEF SendGrantsFull, Sends, IpcRefused, Send, Recv
<1>2. ExitWith(p, IpcErrorCode) /\ queue' = queue
      BY DEF SendGrantsFull, IpcRefused, ipcVars
<1>3. /\ state'[p] = "EXITED"
      /\ \A r \in Pid \ {p} : state'[r] = state[r] /\ insn'[r] = insn[r]
      BY <1>2, QueueFields, ExitWithFacts, Zenon
<1>4. OnlyWakes(p, q, {})
      BY <1>2, <1>3 DEF OnlyWakes
<1>5. ~ queue[q].used \/ Cardinality(queue[q].grants) >= WaitqCapacity
      BY Zenon DEF SendGrantsFull, IpcRefused, CanOpen
<1>6. QED BY <1>1, <1>2, <1>3, <1>4, <1>5, Zenon DEF Fails

LEMMA StepOutcome ==
  ASSUME IpcInv, NEW p \in Pid, IpcStep(p)
  PROVE  \E q \in QueueId : Outcome(p, q, queue[q], queue'[q])
<1>1. PICK q \in QueueId :
        \/ \E op \in {"SEND", "RECV"} : IpcRefused(p, op, q)
        \/ SendHandsOver(p, q) \/ SendGrantsFull(p, q)
        \/ SendBlocks(p, q) \/ SendQueues(p, q)
        \/ RecvGranted(p, q) \/ RecvBlocks(p, q) \/ RecvDequeues(p, q)
      BY Zenon DEF IpcStep
<1>2. QED BY <1>1, SendHandsOverOutcome, SendQueuesOutcome, BlocksOutcome, RecvOutcome,
             FailsOutcome, Zenon DEF Outcome

-----------------------------------------------------------------------------
(***************************************************************************)
(* Nobody is dropped from a list that has a place for every process        *)
(***************************************************************************)
Sleeper(p, q) ==
  state[p] = "BLOCKED" =>
    /\ insn[p] = Send(q) => InList(p, queue[q].sendWaiters)
    /\ insn[p] = Recv(q) => InList(p, queue[q].recvWaiters)

SleepersListed == \A p \in Pid, q \in QueueId : Sleeper(p, q)

LEMMA WaitqAddLists ==
  ASSUME Cardinality(Pid) <= WaitqCapacity, NEW ws \in Seq(Pid), Distinct(ws),
         NEW p \in Pid, ~ InList(p, ws)
  PROVE  /\ InList(p, WaitqAdd(ws, p))
         /\ \A r : InList(r, ws) => InList(r, WaitqAdd(ws, p))
<1>1. /\ IsFiniteSet(Pid) /\ Cardinality(Pid) \in Nat /\ WaitqCapacity \in Nat
      /\ Len(ws) \in Nat /\ DOMAIN ws = 1 .. Len(ws)
      BY IpcAssumption, FS_CardinalityType
<1>2. /\ IsFiniteSet(Pid \ {p}) /\ Cardinality(Pid \ {p}) = Cardinality(Pid) - 1
      BY <1>1, FS_RemoveElement
<1>3. ws \in Injection(1 .. Len(ws), Pid \ {p})
  <2>1. ws \in [1 .. Len(ws) -> Pid \ {p}]
        BY <1>1 DEF InList
  <2>2. QED BY <1>1, <2>1 DEF Injection, IsInjective, Distinct
<1>4. Cardinality(1 .. Len(ws)) <= Cardinality(Pid \ {p})
      BY <1>2, <1>3, FS_Injection, Zenon
<1>5. PICK n \in Nat : n = Len(ws)
      BY <1>1, Zenon
<1>6. Cardinality(1 .. n) = IF 1 > n THEN 0 ELSE n - 1 + 1
      BY FS_Interval
<1>7. n < WaitqCapacity
      BY <1>1, <1>2, <1>4, <1>5, <1>6
<1>10. p \notin Range(ws) /\ ~ (Len(ws) >= WaitqCapacity)
      BY <1>1, <1>5, <1>7 DEF InList, Range
<1>11. WaitqAdd(ws, p) = Append(ws, p)
      BY <1>10, Zenon DEF WaitqAdd
<1>8. /\ DOMAIN Append(ws, p) = 1 .. Len(ws) + 1 /\ Append(ws, p)[Len(ws) + 1] = p
      /\ \A i \in 1 .. Len(ws) : Append(ws, p)[i] = ws[i]
      OBVIOUS
<1>9. QED BY <1>1, <1>8, <1>11 DEF InList

LEMMA TailKeeps ==
  ASSUME NEW ws \in Seq(Pid), ws # <<>>, NEW r, InList(r, ws), r # Head(ws)
  PROVE  InList(r, Tail(ws))
<1>1. PICK i \in 1 .. Len(ws) : ws[i] = r
      BY DEF InList
<1>2. i # 1 /\ Len(ws) \in Nat \ {0} /\ DOMAIN Tail(ws) = 1 .. Len(ws) - 1
      BY <1>1
<1>3. i - 1 \in 1 .. Len(ws) - 1 /\ Tail(ws)[i - 1] = ws[i]
      BY <1>1, <1>2
<1>4. QED BY <1>1, <1>2, <1>3, Zenon DEF InList

LEMMA WaitqRestKeeps ==
  ASSUME NEW ws \in Seq(Pid), NEW r, InList(r, ws), r \notin WaitqHead(ws)
  PROVE  InList(r, WaitqRest(ws))
<1>1. ws # <<>>
      BY DEF InList
<1>2. QED BY <1>1, TailKeeps DEF WaitqRest, WaitqHead

\* The woken process sleeps no more; the lists keep the others.
LEMMA SleeperKept ==
  ASSUME NEW r, NEW t, Sleeper(r, t),
         state'[r] = "BLOCKED" =>
           /\ state[r] = "BLOCKED" /\ insn'[r] = insn[r]
           /\ InList(r, queue[t].sendWaiters) => InList(r, queue'[t].sendWaiters)
           /\ InList(r, queue[t].recvWaiters) => InList(r, queue'[t].recvWaiters)
  PROVE  Sleeper(r, t)'
BY DEF Sleeper, Send, Recv

LEMMA OutcomeSleepers ==
  ASSUME Cardinality(Pid) <= WaitqCapacity, IpcInv, SleepersListed,
         NEW p \in Pid, NEW q \in QueueId, Outcome(p, q, queue[q], queue'[q])
  PROVE  SleepersListed'
<1> SUFFICES ASSUME NEW r \in Pid, NEW t \in QueueId PROVE Sleeper(r, t)'
    BY Zenon DEF SleepersListed
<1>1. Sleeper(r, t)
      BY DEF SleepersListed
<1>2. CASE r # p /\ t # q
  <2>1. /\ queue'[t] = queue[t] /\ insn'[r] = insn[r]
        /\ state'[r] = "BLOCKED" => state[r] = "BLOCKED"
        BY <1>2, Zenon
        DEF Outcome, HandsOver, Queues, Lists, Takes, Fails, Proceeds, Sleeps, OnlyWakes
  <2>2. QED BY <1>1, <2>1, SleeperKept, Zenon
<1>3. CASE r # p /\ t = q
  <2>1. /\ insn'[r] = insn[r]
        /\ state'[r] = "BLOCKED" => state[r] = "BLOCKED"
        BY <1>3, Zenon
        DEF Outcome, HandsOver, Queues, Lists, Takes, Fails, Proceeds, Sleeps, OnlyWakes
  <2>2. ASSUME state'[r] = "BLOCKED"
        PROVE  /\ InList(r, queue[q].sendWaiters) => InList(r, queue'[q].sendWaiters)
               /\ InList(r, queue[q].recvWaiters) => InList(r, queue'[q].recvWaiters)
    <3>1. CASE HandsOver(p, q, queue[q], queue'[q])
      <4>1. r # Head(queue[q].recvWaiters)
            BY <1>3, <2>1, <2>2, <3>1 DEF HandsOver, Proceeds, OnlyWakes
      <4>2. QED BY <3>1, <4>1, QueueFields, TailKeeps DEF HandsOver
    <3>2. CASE Takes(p, q, queue[q], queue'[q])
      <4>1. r \notin WaitqHead(queue[q].sendWaiters)
            BY <1>3, <2>1, <2>2, <3>2 DEF Takes, Proceeds, OnlyWakes
      <4>2. QED BY <3>2, <4>1, QueueFields, WaitqRestKeeps DEF Takes
    <3>3. CASE Lists(p, q, queue[q], queue'[q])
      <4>1. ~ InList(p, queue[q].sendWaiters) /\ ~ InList(p, queue[q].recvWaiters)
            BY <3>3, RunnerFacts, Zenon DEF Lists, Sleeps
      <4>2. QED BY <3>3, <4>1, QueueFields, WaitqAddLists, Zenon DEF Lists
    <3>4. CASE Queues(p, q, queue[q], queue'[q]) \/ Fails(p, q, queue[q], queue'[q])
          BY <3>4, Zenon DEF Queues, Fails
    <3>5. QED BY <3>1, <3>2, <3>3, <3>4, Zenon DEF Outcome
  <2>3. QED BY <1>1, <1>3, <2>1, <2>2, SleeperKept, Zenon
<1>4. CASE r = p
  <2>1. CASE state'[p] # "BLOCKED"
        BY <1>4, <2>1 DEF Sleeper
  <2>2. CASE Lists(p, q, queue[q], queue'[q])
    <3>1. ~ InList(p, queue[q].sendWaiters) /\ ~ InList(p, queue[q].recvWaiters)
          BY <2>2, RunnerFacts DEF Lists, Sleeps
    <3>2. /\ insn'[p] = Send(q) => InList(p, queue'[q].sendWaiters)
          /\ insn'[p] = Recv(q) => InList(p, queue'[q].recvWaiters)
          /\ insn'[p] \in {Send(q), Recv(q)}
      <4>1. CASE /\ Sleeps(p, q, Send(q))
                 /\ queue'[q].sendWaiters = WaitqAdd(queue[q].sendWaiters, p)
        <5>1. InList(p, WaitqAdd(queue[q].sendWaiters, p))
              BY <3>1, QueueFields, WaitqAddLists, Zenon
        <5>2. QED BY <4>1, <5>1, InsnFacts DEF Sleeps
      <4>2. CASE /\ Sleeps(p, q, Recv(q))
                 /\ queue'[q].recvWaiters = WaitqAdd(queue[q].recvWaiters, p)
        <5>1. InList(p, WaitqAdd(queue[q].recvWaiters, p))
              BY <3>1, QueueFields, WaitqAddLists, Zenon
        <5>2. QED BY <4>2, <5>1, InsnFacts DEF Sleeps
      <4>3. QED BY <2>2, <4>1, <4>2, Zenon DEF Lists
    <3>3. /\ insn'[p] = Send(t) => t = q
          /\ insn'[p] = Recv(t) => t = q
          BY <3>2, InsnFacts
    <3>4. QED BY <1>4, <3>2, <3>3 DEF Sleeper, Send, Recv
  <2>3. QED BY <2>1, <2>2, Zenon DEF Outcome, HandsOver, Queues, Takes, Fails, Proceeds
<1>5. QED BY <1>2, <1>3, <1>4

\* The other steps of the dispatcher and of p.
Moves(p) ==
  /\ queue' = queue /\ insn'[p] = insn[p]
  /\ \A r \in Pid \ {p} : insn'[r] = insn[r] /\ state'[r] = state[r]
  /\ \/ state'[p] \in {"READY", "RUNNING"}
     \/ state'[p] \in {"BLOCKED", "EXITED"} /\ insn[p] = None

LEMMA BackgroundMoves ==
  ASSUME IpcInv, NEW p \in Pid, Background(p), UNCHANGED ipcVars
  PROVE  Moves(p)
<1>1. /\ DOMAIN state = Pid /\ DOMAIN insn = Pid /\ queue' = queue
      BY DEF IpcInv, IpcTypeOK, ProcTypeOK, LifecycleTypeOK, ipcVars
<1>2. CASE (Create(p) \/ Dispatch(p)) /\ UNCHANGED <<insn, exitCode>>
      BY <1>1, <1>2 DEF Create, Dispatch, Moves
<1>3. CASE ExitInsn(p)
      BY <1>1, <1>3 DEF ExitInsn, ExitWith, Leave, Moves
<1>4. CASE CpuPreempted(p)
      BY <1>1, <1>4 DEF CpuPreempted, Leave, Moves
<1>5. CASE IoStart(p)
      BY <1>1, <1>5 DEF IoStart, Leave, Moves
<1>6. CASE IoDone(p)
      BY <1>1, <1>6 DEF IoDone, Wake, WakeAll, Moves
<1>7. QED BY <1>2, <1>3, <1>4, <1>5, <1>6 DEF Background

LEMMA MovesSleepers ==
  ASSUME SleepersListed, NEW p \in Pid, Moves(p)
  PROVE  SleepersListed'
<1> SUFFICES ASSUME NEW r \in Pid, NEW t \in QueueId PROVE Sleeper(r, t)'
    BY Zenon DEF SleepersListed
<1>1. Sleeper(r, t) /\ queue' = queue /\ insn'[r] = insn[r]
      BY DEF SleepersListed, Moves
<1>2. CASE state'[r] = "BLOCKED" => state[r] = "BLOCKED"
      BY <1>1, <1>2, SleeperKept, Zenon
<1>3. CASE r = p /\ state'[r] = "BLOCKED"
      BY <1>1, <1>3, InsnFacts DEF Moves, Sleeper, Send, Recv
<1>4. QED BY <1>2, <1>3 DEF Moves

LEMMA KillSleepers ==
  ASSUME IpcInv, SleepersListed, NEW p \in Pid, KillStep(p)
  PROVE  SleepersListed'
<1> SUFFICES ASSUME NEW r \in Pid, NEW t \in QueueId PROVE Sleeper(r, t)'
    BY Zenon DEF SleepersListed
<1>1. /\ DOMAIN state = Pid /\ DOMAIN insn = Pid /\ queue' = queue
      BY DEF IpcInv, IpcTypeOK, ProcTypeOK, LifecycleTypeOK, KillStep, ipcVars
<1>2. /\ state'[r] = "BLOCKED" => state[r] = "BLOCKED"
      /\ state'[r] = "BLOCKED" => insn'[r] = insn[r]
      BY <1>1 DEF KillStep, KillCommand, Kill
<1>3. Sleeper(r, t)
      BY DEF SleepersListed
<1>4. QED BY <1>1, <1>2, <1>3, SleeperKept, Zenon

LEMMA SleepersNext ==
  ASSUME Cardinality(Pid) <= WaitqCapacity, IpcInv, SleepersListed, [IpcNext]_vars
  PROVE  SleepersListed'
<1>1. ASSUME NEW p \in Pid, IpcStep(p) PROVE SleepersListed'
      BY <1>1, StepOutcome, OutcomeSleepers, Zenon
<1>2. ASSUME NEW p \in Pid, Background(p), UNCHANGED ipcVars PROVE SleepersListed'
      BY <1>2, BackgroundMoves, MovesSleepers, Zenon
<1>3. CASE UNCHANGED vars
  <2>1. UNCHANGED <<state, insn, queue>>
        BY <1>3 DEF vars, executorVars, ipcVars
  <2>2. ASSUME NEW r \in Pid, NEW t \in QueueId PROVE Sleeper(r, t)'
        BY <2>1, SleeperKept, Zenon DEF SleepersListed
  <2>3. QED BY <2>2, Zenon DEF SleepersListed
<1>4. QED BY <1>1, <1>2, <1>3, KillSleepers, Zenon DEF IpcNext, QuietNext

LEMMA ListedOnce ==
  ASSUME NEW ws \in Seq(Pid), Distinct(ws), NEW p
  PROVE  Listed(p, ws) = IF InList(p, ws) THEN 1 ELSE 0
<1>1. CASE InList(p, ws)
  <2>1. PICK i \in DOMAIN ws : ws[i] = p
        BY <1>1 DEF InList
  <2>2. {j \in DOMAIN ws : ws[j] = p} = {i}
        BY <2>1 DEF Distinct
  <2>3. QED BY <1>1, <2>2, FS_Singleton, Zenon DEF Listed
<1>2. CASE ~ InList(p, ws)
  <2>1. {j \in DOMAIN ws : ws[j] = p} = {}
        BY <1>2 DEF InList
  <2>2. QED BY <1>2, <2>1, FS_EmptySet, Zenon DEF Listed
<1>3. QED BY <1>1, <1>2

LEMMA ListedRegistered == IpcInv /\ SleepersListed => SleepersRegistered
<1> SUFFICES ASSUME IpcInv, SleepersListed,
                    NEW p \in Pid, state[p] = "BLOCKED", NEW q \in QueueId
             PROVE  /\ Listed(p, queue[q].sendWaiters) = IF insn[p] = Send(q) THEN 1 ELSE 0
                    /\ Listed(p, queue[q].recvWaiters) = IF insn[p] = Recv(q) THEN 1 ELSE 0
    BY DEF SleepersRegistered
<1>1. /\ Listed(p, queue[q].sendWaiters) = IF InList(p, queue[q].sendWaiters) THEN 1 ELSE 0
      /\ Listed(p, queue[q].recvWaiters) = IF InList(p, queue[q].recvWaiters) THEN 1 ELSE 0
      BY QueueFields, ListedOnce, Zenon
<1>2. /\ InList(p, queue[q].sendWaiters) <=> insn[p] = Send(q)
      /\ InList(p, queue[q].recvWaiters) <=> insn[p] = Recv(q)
      BY DEF IpcInv, QueueInv, UserOf, AsleepIn, SleepersListed, Sleeper
<1>3. QED BY <1>1, <1>2

\* A process asleep in SEND or RECV is in the list that the matching RECV or
\* SEND pops, once, and in no other, as long as there are not more processes
\* than a list has places: waitq_add drops a pid when the list is full.
THEOREM SleepersAlwaysRegistered ==
  ASSUME Cardinality(Pid) <= WaitqCapacity
  PROVE  IpcSpec => []SleepersRegistered
<1>1. IpcInit => SleepersListed
      BY DEF IpcInit, ExecutorInit, LifecycleInit, SleepersListed, Sleeper
<1>2. IpcInv /\ SleepersListed /\ [IpcNext]_vars => SleepersListed'
      BY SleepersNext
<1>3. QED BY <1>1, <1>2, ListedRegistered, IpcInvAlways, PTL DEF IpcSpec


-----------------------------------------------------------------------------
(***************************************************************************)
(* Free places, as long as nobody is killed                                *)
(*                                                                         *)
(* A listed sender can be woken, so a receive that frees a place adds one  *)
(* to the senders on their way.  A kill would leave a dead sender in the   *)
(* list, and the wakeup meant for it would be lost.                        *)
(***************************************************************************)
SendersAlive(q) == \A r \in Pid : InList(r, queue[q].sendWaiters) => state[r] # "EXITED"

FreeReached(q) ==
  Capacity - Len(queue[q].items) <= Cardinality(Retrying(q)) + Cardinality(queue[q].grants)

QuietOf(q) ==
  /\ SendersAlive(q)
  /\ ~ queue[q].used => queue[q].sendWaiters = <<>>
  /\ queue[q].sendWaiters # <<>> => FreeReached(q)

QuietInv == \A q \in QueueId : QuietOf(q)

LEMMA PidSets ==
  ASSUME NEW A \in SUBSET Pid, NEW B \in SUBSET Pid
  PROVE  /\ Cardinality(A) \in Nat /\ Cardinality(B) \in Nat
         /\ A \subseteq B => Cardinality(A) <= Cardinality(B)
         /\ \A p : A \ {p} \subseteq B => Cardinality(A) <= Cardinality(B) + 1
         /\ \A p : p \notin A /\ A \cup {p} \subseteq B => Cardinality(A) + 1 <= Cardinality(B)
<1>1. /\ IsFiniteSet(A) /\ IsFiniteSet(B)
      /\ Cardinality(A) \in Nat /\ Cardinality(B) \in Nat
      BY IpcAssumption, FS_Subset, FS_CardinalityType
<1>2. A \subseteq B => Cardinality(A) <= Cardinality(B)
      BY <1>1, FS_Subset
<1>3. ASSUME NEW p, A \ {p} \subseteq B PROVE Cardinality(A) <= Cardinality(B) + 1
  <2>1. Cardinality(A \ {p}) <= Cardinality(B)
        BY <1>1, <1>3, FS_Subset
  <2>2. Cardinality(A \ {p}) = IF p \in A THEN Cardinality(A) - 1 ELSE Cardinality(A)
        BY <1>1, FS_RemoveElement, Zenon
  <2>3. QED BY <1>1, <2>1, <2>2
<1>4. ASSUME NEW p, p \notin A, A \cup {p} \subseteq B
      PROVE  Cardinality(A) + 1 <= Cardinality(B)
  <2>1. Cardinality(A \cup {p}) <= Cardinality(B)
        BY <1>1, <1>4, FS_Subset
  <2>2. Cardinality(A \cup {p}) = Cardinality(A) + 1
        BY <1>1, <1>4, FS_AddElement, Zenon
  <2>3. QED BY <1>1, <2>1, <2>2
<1>5. QED BY <1>1, <1>2, <1>3, <1>4

LEMMA GrantSets ==
  ASSUME IpcInv, NEW q \in QueueId
  PROVE  /\ Cardinality(queue[q].grants) \in Nat
         /\ \A g : g \notin queue[q].grants =>
              Cardinality(queue[q].grants \cup {g}) = Cardinality(queue[q].grants) + 1
         /\ \A g \in queue[q].grants :
              Cardinality(queue[q].grants \ {g}) = Cardinality(queue[q].grants) - 1
<1> DEFINE G == queue[q].grants
           message == [g \in G |-> g.msg]
<1>1. /\ G \in SUBSET Grant /\ \A g, h \in G : g.msg = h.msg => g = h
      BY DEF IpcInv, IpcTypeOK, QueueType, QueueInv, MessagesOf, Messages
<1>2. message \in Injection(G, Msg)
      BY <1>1 DEF Injection, IsInjective, Grant
<1>3. IsFiniteSet(Msg)
      BY IpcAssumption, FS_Interval DEF Msg
<1> HIDE DEF message
<1>4. IsFiniteSet(G)
      BY <1>2, <1>3, FS_Injection, Zenon
<1> HIDE DEF G
<1>5. /\ Cardinality(G) \in Nat
      /\ \A g : g \notin G => Cardinality(G \cup {g}) = Cardinality(G) + 1
      /\ \A g \in G : Cardinality(G \ {g}) = Cardinality(G) - 1
      BY <1>4, FS_CardinalityType, FS_AddElement, FS_RemoveElement, Zenon
<1>6. QED BY <1>5, Zenon DEF G

\* A free place reached by a sender or a message before the step is after it.
LEMMA StillReached ==
  ASSUME IpcInv, NEW q \in QueueId, FreeReached(q),
         queue'[q].items = queue[q].items, queue'[q].grants = queue[q].grants,
         Retrying(q) \subseteq Retrying(q)'
  PROVE  FreeReached(q)'
<1>1. Retrying(q) \in SUBSET Pid /\ Retrying(q)' \in SUBSET Pid
      BY DEF Retrying
<1>2. /\ Cardinality(Retrying(q)) \in Nat /\ Cardinality(Retrying(q)') \in Nat
      /\ Cardinality(Retrying(q)) <= Cardinality(Retrying(q)')
      BY <1>1, PidSets
<1>3. Len(queue[q].items) \in Nat /\ Capacity \in Nat
      BY QueueFields, IpcAssumption
<1>4. Cardinality(queue[q].grants) \in Nat
      BY GrantSets
<1>5. QED BY <1>2, <1>3, <1>4 DEF FreeReached

LEMMA OthersRetry ==
  ASSUME NEW p \in Pid, NEW q, NEW S, OnlyWakes(p, q, S), NEW t
  PROVE  Retrying(t) \ {p} \subseteq Retrying(t)'
<1> SUFFICES ASSUME NEW r \in Retrying(t), r # p PROVE r \in Retrying(t)'
    OBVIOUS
<1>1. r \in Pid /\ state[r] \in {"READY", "RUNNING"} /\ insn[r] = Send(t)
      BY DEF Retrying
<1>2. state'[r] = state[r] /\ insn'[r] = insn[r]
      BY <1>1 DEF OnlyWakes
<1>3. QED BY <1>1, <1>2 DEF Retrying, Send

\* p executes an instruction that is not SEND on t.
LEMMA NotRetrying ==
  ASSUME NEW p, NEW q \in QueueId, NEW t \in QueueId,
         \/ Executing(p, Recv(q))
         \/ Executing(p, Send(q)) /\ t # q
  PROVE  p \notin Retrying(t)
BY InsnFacts DEF Executing, Retrying

\* What an outcome does to every process and to every queue.
LEMMA OutcomeCommon ==
  ASSUME IpcInv, NEW p \in Pid, NEW q \in QueueId, Outcome(p, q, queue[q], queue'[q])
  PROVE  /\ \E i \in {Send(q), Recv(q)} : Executing(p, i)
         /\ \E S : OnlyWakes(p, q, S)
         /\ \A r \in Pid : r # p /\ state'[r] = "EXITED" => state[r] = "EXITED"
         /\ state'[p] = "EXITED" => Fails(p, q, queue[q], queue'[q])
<1>1. /\ \E i \in {Send(q), Recv(q)} : Executing(p, i)
      /\ state'[p] = "EXITED" => Fails(p, q, queue[q], queue'[q])
      BY Zenon DEF Outcome, HandsOver, Queues, Lists, Takes, Fails, Proceeds, Sleeps
<1>2. PICK S : OnlyWakes(p, q, S)
      BY Zenon DEF Outcome, HandsOver, Queues, Lists, Takes, Fails, Proceeds, Sleeps
<1>3. \A r \in Pid : r # p /\ state'[r] = "EXITED" => state[r] = "EXITED"
      BY <1>2 DEF OnlyWakes
<1>4. QED BY <1>1, <1>2, <1>3, Zenon

LEMMA OutcomeAlive ==
  ASSUME IpcInv, QuietInv, NEW p \in Pid, NEW q \in QueueId,
         Outcome(p, q, queue[q], queue'[q]), NEW t \in QueueId
  PROVE  SendersAlive(t)'
<1> SUFFICES ASSUME NEW r \in Pid, InList(r, queue'[t].sendWaiters), state'[r] = "EXITED"
             PROVE  FALSE
    BY DEF SendersAlive
<1>1. PICK i \in {Send(q), Recv(q)} : Executing(p, i)
      BY OutcomeCommon, Zenon
<1>2. ~ InList(p, queue[t].sendWaiters)
  <2>1. \A u \in QueueId : ~ InList(p, queue[u].sendWaiters)
    <3>1. CASE i = Send(q)
          BY <1>1, <3>1, RunnerFacts, Zenon
    <3>2. CASE i = Recv(q)
          BY <1>1, <3>2, RunnerFacts, Zenon
    <3>3. QED BY <3>1, <3>2, Zenon
  <2>2. QED BY <2>1, Zenon
<1>3. r # p => ~ InList(r, queue[t].sendWaiters)
      BY OutcomeCommon, Zenon DEF QuietInv, QuietOf, SendersAlive
<1>4. r = p => queue'[q] = queue[q]
      BY OutcomeCommon DEF Fails
<1>5. t # q => queue'[t] = queue[t]
      BY OutcomeCommon DEF OnlyWakes
<1>6. CASE t # q \/ r = p
      BY <1>2, <1>3, <1>4, <1>5, <1>6
<1>7. CASE t = q /\ r # p
  <2>1. queue[q].sendWaiters \in Seq(Pid)
        BY QueueFields
  <2>2. /\ InList(r, WaitqAdd(queue[q].sendWaiters, p)) => InList(r, queue[q].sendWaiters)
        /\ InList(r, WaitqRest(queue[q].sendWaiters)) => InList(r, queue[q].sendWaiters)
    <3>1. PICK ws \in Seq(Pid) : ws = queue[q].sendWaiters
          BY <2>1
    <3>2. InList(r, WaitqAdd(ws, p)) => InList(r, ws)
          BY <1>2, <1>7, <3>1, WaitqAddFacts
    <3>3. InList(r, WaitqRest(ws)) => InList(r, ws)
          BY WaitqPopFacts
    <3>4. QED BY <3>1, <3>2, <3>3, Zenon
  <2>3. \/ queue'[q].sendWaiters = queue[q].sendWaiters
        \/ queue'[q].sendWaiters = WaitqAdd(queue[q].sendWaiters, p)
        \/ queue'[q].sendWaiters = WaitqRest(queue[q].sendWaiters)
        BY Zenon DEF Outcome, HandsOver, Queues, Lists, Takes, Fails
  <2>4. QED BY <1>3, <1>7, <2>2, <2>3
<1>8. QED BY <1>6, <1>7

\* The queue that the instruction is about.
LEMMA OutcomeReached ==
  ASSUME Capacity <= WaitqCapacity, IpcInv, QuietInv, NEW p \in Pid, NEW q \in QueueId,
         Outcome(p, q, queue[q], queue'[q]), queue'[q].sendWaiters # <<>>
  PROVE  FreeReached(q)'
<1> DEFINE R == Retrying(q)
           S == Retrying(q)'
           G == queue[q].grants
           H == queue'[q].grants
           m == Len(queue[q].items)
           n == Len(queue'[q].items)
<1>1. /\ R \in SUBSET Pid /\ S \in SUBSET Pid /\ Cardinality(R) \in Nat /\ Cardinality(S) \in Nat
      BY PidSets DEF Retrying
<1>2. /\ m \in Nat /\ Capacity \in Nat /\ WaitqCapacity \in Nat /\ Cardinality(G) \in Nat
      BY QueueFields, GrantSets, IpcAssumption
<1>3. R \ {p} \subseteq S
      BY OutcomeCommon, OthersRetry
<1>4. queue[q].sendWaiters # <<>> => Capacity - m <= Cardinality(R) + Cardinality(G)
      BY DEF QuietInv, QuietOf, FreeReached
<1>5. CASE HandsOver(p, q, queue[q], queue'[q])
  <2>1. Cardinality(R) <= Cardinality(S) + 1
        BY <1>1, <1>3, PidSets
  <2>2. Cardinality(H) = Cardinality(G) + 1 /\ n = m /\ queue[q].sendWaiters # <<>>
        BY <1>5, GrantSets DEF HandsOver
  <2>3. QED BY <1>1, <1>2, <1>4, <2>1, <2>2 DEF FreeReached
<1>6. CASE Queues(p, q, queue[q], queue'[q])
  <2>1. Cardinality(R) <= Cardinality(S) + 1
        BY <1>1, <1>3, PidSets
  <2>2. Cardinality(H) = Cardinality(G) /\ n = m + 1 /\ queue[q].sendWaiters # <<>>
        BY <1>6 DEF Queues
  <2>3. QED BY <1>1, <1>2, <1>4, <2>1, <2>2 DEF FreeReached
<1>7. CASE Lists(p, q, queue[q], queue'[q])
  <2>1. Cardinality(H) = Cardinality(G) /\ n = m
        BY <1>7 DEF Lists
  <2>2. CASE Sleeps(p, q, Send(q)) /\ m >= Capacity
        BY <1>1, <1>2, <2>1, <2>2 DEF FreeReached
  <2>3. CASE Sleeps(p, q, Recv(q)) /\ queue'[q].sendWaiters = queue[q].sendWaiters
    <3>1. R \subseteq S
          BY <1>3, <2>3, NotRetrying DEF Sleeps
    <3>2. Cardinality(R) <= Cardinality(S)
          BY <1>1, <3>1, PidSets
    <3>3. QED BY <1>1, <1>2, <1>4, <2>1, <2>3, <3>2 DEF FreeReached
  <2>4. QED BY <1>7, <2>2, <2>3 DEF Lists
<1>8. CASE Takes(p, q, queue[q], queue'[q])
  <2>1. PICK ws \in Seq(Pid) : ws = queue[q].sendWaiters
        BY QueueFields
  <2>2. ws # <<>> /\ InList(Head(ws), ws) /\ Head(ws) \in Pid /\ WaitqHead(ws) = {Head(ws)}
        BY <1>8, <2>1, TailFacts DEF Takes, WaitqRest, WaitqHead
  <2>3. state[Head(ws)] = "BLOCKED" /\ insn[Head(ws)] = Send(q) /\ Head(ws) # p
    <3>1. UserOf(Head(ws), q) /\ SendersAlive(q)
          BY <2>2 DEF IpcInv, QueueInv, QuietInv, QuietOf
    <3>2. state[p] = "RUNNING"
          BY <1>8, RunnerFacts, Zenon DEF Takes, Proceeds
    <3>3. QED BY <2>1, <2>2, <3>1, <3>2, Zenon DEF UserOf, SendersAlive, AsleepIn
  <2>4. state'[Head(ws)] = "READY" /\ insn'[Head(ws)] = Send(q)
        BY <1>8, <2>1, <2>2, <2>3, Zenon DEF Takes, Proceeds, OnlyWakes
  <2>5. Head(ws) \in S /\ Head(ws) \notin R /\ p \notin R
        BY <1>8, <2>2, <2>3, <2>4, NotRetrying, Zenon DEF Retrying, Takes, Proceeds, Send
  <2>6. Cardinality(R) + 1 <= Cardinality(S)
    <3>1. R \cup {Head(ws)} \subseteq S
          BY <1>3, <2>5
    <3>2. QED BY <1>1, <2>5, <3>1, PidSets
  <2>7. Capacity - m <= Cardinality(R) + Cardinality(G)
        BY <1>4, <2>1, <2>2
  <2>8. CASE n = m /\ Cardinality(H) = Cardinality(G) - 1
        BY <1>1, <1>2, <2>6, <2>7, <2>8 DEF FreeReached
  <2>9. CASE n = m - 1 /\ Cardinality(H) = Cardinality(G)
    <3>1. Capacity - n <= Cardinality(S) + Cardinality(H) => FreeReached(q)'
          BY DEF FreeReached
    <3> HIDE DEF R, S, G, H, m, n
    <3>2. QED BY <1>1, <1>2, <2>6, <2>7, <2>9, <3>1
  <2>10. \A g \in G : Cardinality(G \ {g}) = Cardinality(G) - 1
        BY GrantSets
  <2>11. QED BY <1>8, <2>8, <2>9, <2>10, Zenon DEF Takes
<1>9. CASE Fails(p, q, queue[q], queue'[q])
  <2>1. Cardinality(H) = Cardinality(G) /\ n = m
        BY <1>9 DEF Fails
  <2>2. Cardinality(G) >= WaitqCapacity
        BY <1>9 DEF Fails, QuietInv, QuietOf
  <2>3. QED BY <1>1, <1>2, <2>1, <2>2 DEF FreeReached
<1>10. QED BY <1>5, <1>6, <1>7, <1>8, <1>9, Zenon DEF Outcome

LEMMA OutcomeQuiet ==
  ASSUME Capacity <= WaitqCapacity, IpcInv, QuietInv, NEW p \in Pid, NEW q \in QueueId,
         Outcome(p, q, queue[q], queue'[q])
  PROVE  QuietInv'
<1> SUFFICES ASSUME NEW t \in QueueId PROVE QuietOf(t)'
    BY Zenon DEF QuietInv
<1>1. SendersAlive(t)' /\ QuietOf(t)
      BY OutcomeAlive, Zenon DEF QuietInv
<1>2. CASE t = q
  <2>1. ~ queue'[q].used => queue'[q].sendWaiters = <<>>
        BY <1>1, <1>2, Zenon DEF QuietOf, Outcome, HandsOver, Queues, Lists, Takes, Fails
  <2>2. queue'[q].sendWaiters # <<>> => FreeReached(q)'
        BY OutcomeReached, Zenon
  <2>3. QED BY <1>1, <1>2, <2>1, <2>2, Zenon DEF QuietOf
<1>3. CASE t # q
  <2>1. queue'[t] = queue[t]
        BY <1>3, OutcomeCommon DEF OnlyWakes
  <2>2. p \notin Retrying(t)
        BY <1>3, OutcomeCommon, NotRetrying, ZenonT(30)
  <2>3. Retrying(t) \subseteq Retrying(t)'
        BY <2>2, OutcomeCommon, OthersRetry, Zenon
  <2>4. queue[t].sendWaiters # <<>> => FreeReached(t)'
        BY <1>1, <2>1, <2>3, StillReached, Zenon DEF QuietOf
  <2>5. QED BY <1>1, <2>1, <2>4, Zenon DEF QuietOf
<1>4. QED BY <1>2, <1>3

LEMMA MovesQuiet ==
  ASSUME IpcInv, QuietInv, NEW p \in Pid, Moves(p)
  PROVE  QuietInv'
<1> SUFFICES ASSUME NEW t \in QueueId PROVE QuietOf(t)'
    BY Zenon DEF QuietInv
<1>1. queue' = queue /\ QuietOf(t)
      BY DEF QuietInv, Moves
<1>2. Send(t) # None
      BY InsnFacts
<1>3. SendersAlive(t)'
  <2> SUFFICES ASSUME NEW r \in Pid, InList(r, queue[t].sendWaiters), state'[r] = "EXITED"
               PROVE  FALSE
      BY <1>1 DEF SendersAlive
  <2>1. state[r] = "BLOCKED" /\ insn[r] = Send(t)
        BY <1>1 DEF QuietOf, SendersAlive, IpcInv, QueueInv, UserOf, AsleepIn
  <2>2. QED BY <1>2, <2>1 DEF Moves
<1>4. Retrying(t) \subseteq Retrying(t)'
  <2> SUFFICES ASSUME NEW r \in Retrying(t) PROVE r \in Retrying(t)'
      OBVIOUS
  <2>1. r \in Pid /\ state[r] \in {"READY", "RUNNING"} /\ insn[r] = Send(t)
        BY DEF Retrying
  <2>2. CASE r # p
        BY <2>1, <2>2 DEF Moves, Retrying, Send
  <2>3. CASE r = p
        BY <1>2, <2>1, <2>3 DEF Moves, Retrying, Send
  <2>4. QED BY <2>2, <2>3
<1>5. queue[t].sendWaiters # <<>> => FreeReached(t)'
      BY <1>1, <1>4, StillReached, Zenon DEF QuietOf
<1>6. QED BY <1>1, <1>3, <1>5, Zenon DEF QuietOf

LEMMA QuietInvInit == IpcInit => QuietInv
<1> SUFFICES ASSUME IpcInit, NEW q \in QueueId PROVE QuietOf(q)
    BY DEF QuietInv
<1>1. queue[q].sendWaiters = <<>>
      BY DEF IpcInit, Unused
<1>2. QED BY <1>1 DEF QuietOf, SendersAlive, InList

LEMMA QuietInvNext ==
  ASSUME Capacity <= WaitqCapacity, IpcInv, QuietInv, [QuietNext]_vars
  PROVE  QuietInv'
<1>1. ASSUME NEW p \in Pid, IpcStep(p) PROVE QuietInv'
      BY <1>1, StepOutcome, OutcomeQuiet, Zenon
<1>2. ASSUME NEW p \in Pid, Background(p), UNCHANGED ipcVars PROVE QuietInv'
      BY <1>2, BackgroundMoves, MovesQuiet, Zenon
<1>3. CASE UNCHANGED vars
  <2>1. UNCHANGED <<state, insn, queue>>
        BY <1>3 DEF vars, executorVars, ipcVars
  <2>2. ASSUME NEW t \in QueueId PROVE QuietOf(t)'
    <3>1. SendersAlive(t)' = SendersAlive(t) /\ Retrying(t)' = Retrying(t)
          BY <2>1 DEF SendersAlive, Retrying, Send
    <3>2. FreeReached(t)' = FreeReached(t)
          BY <2>1, <3>1 DEF FreeReached
    <3>3. QED BY <2>1, <3>1, <3>2 DEF QuietInv, QuietOf
  <2>3. QED BY <2>2, Zenon DEF QuietInv
<1>4. QED BY <1>1, <1>2, <1>3, Zenon DEF QuietNext

\* No lost wakeup while nobody is killed: a free place of a queue on which
\* senders sleep has a woken sender, or a receiver that will wake one, on its
\* way to it.  A list must be as long as the queue: ipc_send fails, and the
\* place of its process in the queue stays free, when grants[] is full.
THEOREM SpaceIsNeverLost ==
  ASSUME Capacity <= WaitqCapacity
  PROVE  IpcQuietSpec => []NoLostSpace
<1>1. [QuietNext]_vars => [IpcNext]_vars
      BY DEF IpcNext
<1>2. IpcInv /\ QuietInv /\ [QuietNext]_vars => QuietInv'
      BY QuietInvNext
<1>3. QuietInv => NoLostSpace
      BY DEF QuietInv, QuietOf, FreeReached, NoLostSpace
<1>4. QED BY <1>1, <1>2, <1>3, QuietInvInit, IpcInitInv, IpcNextInv, PTL DEF IpcQuietSpec
=============================================================================
