------------------------------ MODULE IpcProofs ------------------------------
(***************************************************************************)
(* Proofs for module Ipc, for any processes, any queue ids and any sizes   *)
(* of the tables.                                                          *)
(***************************************************************************)
EXTENDS Ipc, TLAPS

(***************************************************************************)
(* The inductive invariant                                                 *)
(*                                                                         *)
(* Left(q) messages are not in the queue any more, or never were.  They are *)
(* the oldest ones, and each is reserved or received; the others are the   *)
(* queue.  This survives a hand-over because nothing is queued then (the   *)
(* last conjunct of MessagesOf).  A process is woken out of the right      *)
(* instruction, and finds at most one message, because the lists name      *)
(* sleeping processes, each once, and a process asleep has no message.     *)
(***************************************************************************)
ProcTypeOK == LifecycleTypeOK /\ insn \in [Pid -> IpcInsn \cup {None}]

IpcTypeOK ==
  /\ ProcTypeOK
  /\ queue \in [QueueId -> QueueType]
  /\ sent \in [QueueId -> 0 .. MaxMsgs]
  /\ receivedBy \in [QueueId -> [Msg -> Pid \cup {None}]]

Reserved(m, grants) == \E g \in grants : g.msg = m

\* Where the messages are when the first left ones are not queued.
Messages(left, items, grants, received) ==
  /\ \A i \in 1 .. Len(items) : items[i] = left + i
  /\ \A g, h \in grants : g.msg = h.msg => g = h
  /\ \A m \in Msg : m <= left => (Reserved(m, grants) <=> received[m] = None)
  /\ \A m \in Msg : m > left => ~ Reserved(m, grants) /\ received[m] = None

Left(q) == sent[q] - Len(queue[q].items)

MessagesOf(q) ==
  /\ Left(q) \in Nat
  /\ Messages(Left(q), queue[q].items, queue[q].grants, receivedBy[q])
  /\ queue[q].recvWaiters # <<>> => queue[q].items = <<>>

InList(p, ws) == \E i \in DOMAIN ws : ws[i] = p
Distinct(ws) == \A i, j \in DOMAIN ws : ws[i] = ws[j] => i = j

ListsOf(q) == Distinct(queue[q].sendWaiters) /\ Distinct(queue[q].recvWaiters)

AsleepIn(p, i) == state[p] = "EXITED" \/ (state[p] = "BLOCKED" /\ insn[p] = i)

Coming(p, q) ==
  \/ state[p] = "EXITED"
  \/ /\ state[p] \in {"READY", "RUNNING"} /\ insn[p] = Recv(q)
     /\ \A g, h \in GrantsOf(p, q) : g = h

\* What p may be doing when q refers to it.
UserOf(p, q) ==
  /\ InList(p, queue[q].sendWaiters) => AsleepIn(p, Send(q))
  /\ InList(p, queue[q].recvWaiters) => AsleepIn(p, Recv(q))
  /\ GrantsOf(p, q) # {} => Coming(p, q)

QueueInv(q) == MessagesOf(q) /\ ListsOf(q) /\ \A p \in Pid : UserOf(p, q)

IpcInv == IpcTypeOK /\ RunningIsCurrent /\ \A q \in QueueId : QueueInv(q)

-----------------------------------------------------------------------------
(***************************************************************************)
(* Lists of waiters                                                        *)
(***************************************************************************)
LEMMA WaitqAddFacts ==
  ASSUME NEW ws \in Seq(Pid), NEW p \in Pid, ~ InList(p, ws)
  PROVE  /\ WaitqAdd(ws, p) \in Seq(Pid)
         /\ \A r \in Pid : InList(r, WaitqAdd(ws, p)) => InList(r, ws) \/ r = p
         /\ Distinct(ws) => Distinct(WaitqAdd(ws, p))
BY DEF WaitqAdd, InList, Distinct, Range

LEMMA TailFacts ==
  ASSUME NEW ws \in Seq(Pid), ws # <<>>
  PROVE  /\ Head(ws) \in Pid /\ Tail(ws) \in Seq(Pid)
         /\ InList(Head(ws), ws)
         /\ \A r \in Pid : InList(r, Tail(ws)) => InList(r, ws)
         /\ Distinct(ws) => Distinct(Tail(ws)) /\ ~ InList(Head(ws), Tail(ws))
<1>1. /\ Head(ws) \in Pid /\ Tail(ws) \in Seq(Pid)
      /\ Len(ws) \in Nat \ {0} /\ DOMAIN ws = 1 .. Len(ws) /\ Head(ws) = ws[1]
      /\ DOMAIN Tail(ws) = 1 .. Len(ws) - 1
      /\ \A i \in 1 .. Len(ws) - 1 : Tail(ws)[i] = ws[i + 1]
      OBVIOUS
<1>2. InList(Head(ws), ws)
      BY <1>1 DEF InList
<1>3. ASSUME NEW r \in Pid, InList(r, Tail(ws)) PROVE InList(r, ws)
  <2>1. PICK i \in 1 .. Len(ws) - 1 : Tail(ws)[i] = r
        BY <1>1, <1>3 DEF InList
  <2>2. i + 1 \in DOMAIN ws /\ ws[i + 1] = r
        BY <1>1, <2>1
  <2>3. QED BY <2>2 DEF InList
<1>4. ASSUME Distinct(ws) PROVE Distinct(Tail(ws)) /\ ~ InList(Head(ws), Tail(ws))
      BY <1>1, <1>4 DEF Distinct, InList
<1>5. QED BY <1>1, <1>2, <1>3, <1>4

LEMMA WaitqPopFacts ==
  ASSUME NEW ws \in Seq(Pid)
  PROVE  /\ WaitqRest(ws) \in Seq(Pid) /\ WaitqHead(ws) \subseteq Pid
         /\ \A r \in WaitqHead(ws) : InList(r, ws)
         /\ \A r \in Pid : InList(r, WaitqRest(ws)) => InList(r, ws)
         /\ Distinct(ws) => /\ Distinct(WaitqRest(ws))
                            /\ \A r \in WaitqHead(ws) : ~ InList(r, WaitqRest(ws))
<1>1. CASE ws = <<>>
      BY <1>1 DEF WaitqRest, WaitqHead
<1>2. CASE ws # <<>>
      BY <1>2, TailFacts DEF WaitqRest, WaitqHead
<1>3. QED BY <1>1, <1>2

LEMMA WaitqRemoveAbsent ==
  ASSUME NEW ws \in Seq(Pid), NEW p \in Pid, ~ InList(p, ws)
  PROVE  WaitqRemove(ws, p) = ws
BY DEF WaitqRemove, InList, Range

-----------------------------------------------------------------------------
(***************************************************************************)
(* The four things that happen to a message                                *)
(***************************************************************************)
LEMMA EnqueueMessages ==
  ASSUME NEW left \in Nat, NEW items \in Seq(Msg), NEW grants, NEW received,
         Messages(left, items, grants, received)
  PROVE  Messages(left, Append(items, left + Len(items) + 1), grants, received)
<1> DEFINE more == Append(items, left + Len(items) + 1)
<1>1. ASSUME NEW i \in 1 .. Len(more) PROVE more[i] = left + i
  <2>1. CASE i \in 1 .. Len(items)
    <3>1. more[i] = items[i]
          BY <2>1
    <3>2. QED BY <2>1, <3>1 DEF Messages
  <2>2. CASE i \notin 1 .. Len(items)
    <3>1. i = Len(items) + 1
          BY <2>2
    <3>2. QED BY <3>1
  <2>3. QED BY <2>1, <2>2
<1> HIDE DEF more
<1>2. Messages(left, more, grants, received)
      BY <1>1 DEF Messages
<1>3. QED BY <1>2 DEF more

LEMMA HandOverMessages ==
  ASSUME NEW left \in Nat, left < MaxMsgs, NEW grants \in SUBSET Grant, NEW received,
         Messages(left, <<>>, grants, received), NEW w \in Pid
  PROVE  Messages(left + 1, <<>>, grants \cup {[pid |-> w, msg |-> left + 1]}, received)
<1> DEFINE g0 == [pid |-> w, msg |-> left + 1]
           after == grants \cup {g0}
<1>1. left + 1 \in Msg /\ g0.msg = left + 1
      BY IpcAssumption DEF Msg
<1>2. \A g \in grants : g.msg \in Msg /\ g.msg # left + 1
      BY <1>1 DEF Messages, Reserved, Grant
<1> HIDE DEF g0
<1>3. \A g, h \in after : g.msg = h.msg => g = h
      BY <1>1, <1>2 DEF Messages
<1>4. ASSUME NEW m \in Msg PROVE Reserved(m, after) <=> Reserved(m, grants) \/ m = left + 1
      BY <1>1 DEF Reserved
<1>5. ASSUME NEW m \in Msg, m <= left + 1 PROVE Reserved(m, after) <=> received[m] = None
      BY <1>1, <1>2, <1>4, <1>5 DEF Messages, Msg
<1>6. ASSUME NEW m \in Msg, m > left + 1 PROVE ~ Reserved(m, after) /\ received[m] = None
  <2>1. m > left /\ m # left + 1
        BY <1>6 DEF Msg
  <2>2. ~ Reserved(m, grants) /\ received[m] = None
        BY <2>1 DEF Messages
  <2>3. QED BY <1>4, <2>1, <2>2, Zenon
<1> HIDE DEF after
<1>7. Messages(left + 1, <<>>, after, received)
      BY <1>3, <1>5, <1>6 DEF Messages
<1>8. QED BY <1>7 DEF after, g0

LEMMA CollectMessages ==
  ASSUME NEW left \in Nat, NEW items, NEW grants \in SUBSET Grant,
         NEW received \in [Msg -> Pid \cup {None}],
         Messages(left, items, grants, received), NEW g \in grants, NEW p \in Pid
  PROVE  /\ Messages(left, items, grants \ {g}, [received EXCEPT ![g.msg] = p])
         /\ received[g.msg] = None
<1> DEFINE after == [received EXCEPT ![g.msg] = p]
<1>1. g.msg \in Msg /\ g.msg <= left /\ received[g.msg] = None
      BY DEF Messages, Reserved, Grant, Msg
<1>2. ASSUME NEW m \in Msg
      PROVE  /\ after[m] = IF m = g.msg THEN p ELSE received[m]
             /\ Reserved(m, grants \ {g}) <=> Reserved(m, grants) /\ m # g.msg
      BY <1>1 DEF Messages, Reserved
<1> HIDE DEF after
<1>3. Messages(left, items, grants \ {g}, after)
      BY <1>1, <1>2, NoneAssumption, Zenon DEF Messages
<1>4. QED BY <1>1, <1>3 DEF after

LEMMA DequeueMessages ==
  ASSUME NEW left \in Nat, NEW items \in Seq(Msg), items # <<>>,
         NEW grants \in SUBSET Grant, NEW received \in [Msg -> Pid \cup {None}],
         Messages(left, items, grants, received), NEW p \in Pid
  PROVE  /\ Messages(left + 1, Tail(items), grants, [received EXCEPT ![Head(items)] = p])
         /\ Head(items) = left + 1 /\ received[Head(items)] = None
<1> DEFINE after == [received EXCEPT ![Head(items)] = p]
<1>1. /\ Head(items) \in Msg /\ Head(items) = left + 1 /\ received[Head(items)] = None
      /\ ~ Reserved(left + 1, grants)
  <2>1. Head(items) = items[1] /\ 1 \in 1 .. Len(items) /\ items[1] \in Msg
        OBVIOUS
  <2>2. Head(items) \in Msg /\ Head(items) = left + 1
        BY <2>1 DEF Messages
  <2>3. QED BY <2>2 DEF Messages
<1>2. \A i \in 1 .. Len(Tail(items)) : Tail(items)[i] = left + 1 + i
      BY DEF Messages
<1>3. \A m \in Msg : after[m] = IF m = left + 1 THEN p ELSE received[m]
      BY <1>1
<1> HIDE DEF after
<1>4. Messages(left + 1, Tail(items), grants, after)
      BY <1>1, <1>2, <1>3, NoneAssumption DEF Messages, Msg
<1>5. QED BY <1>1, <1>4 DEF after

-----------------------------------------------------------------------------
(***************************************************************************)
(* The initial states, types, and the processes that a queue refers to     *)
(***************************************************************************)
LEMMA IpcInitInv == IpcInit => IpcInv
<1> SUFFICES ASSUME IpcInit PROVE IpcInv
    OBVIOUS
<1> USE NoneAssumption, IpcAssumption DEF IpcInit, ExecutorInit, LifecycleInit, Unused
<1>1. IpcTypeOK
      BY DEF IpcTypeOK, ProcTypeOK, LifecycleTypeOK, States, QueueType
<1>2. RunningIsCurrent
      BY Zenon DEF RunningIsCurrent
<1>3. ASSUME NEW q \in QueueId PROVE QueueInv(q)
      BY DEF QueueInv, MessagesOf, Left, Messages, Reserved, Msg, ListsOf, Distinct,
         UserOf, InList, GrantsOf
<1>4. QED BY <1>1, <1>2, <1>3 DEF IpcInv

LEMMA InsnFacts ==
  ASSUME NEW q \in QueueId, NEW t \in QueueId
  PROVE  /\ Send(q) \in IpcInsn /\ Recv(q) \in IpcInsn
         /\ Send(q) # None /\ Recv(q) # None
         /\ Send(q) # Recv(t)
         /\ Send(q) = Send(t) => q = t
         /\ Recv(q) = Recv(t) => q = t
<1>1. Send(q) \in IpcInsn /\ Recv(q) \in IpcInsn
      BY DEF Send, Recv, IpcInsn
<1>2. Send(q).op = "SEND" /\ Recv(t).op = "RECV" /\ Send(q).id = q /\ Recv(q).id = q
      BY DEF Send, Recv
<1>3. Send(t).id = t /\ Recv(t).id = t
      BY DEF Send, Recv
<1>4. QED BY <1>1, <1>2, <1>3, NoInsnAssumption

LEMMA CompleteFacts ==
  ASSUME ProcTypeOK, NEW p \in Pid, NEW S \in SUBSET Pid, Complete(p, S)
  PROVE  /\ ProcTypeOK'
         /\ insn'[p] = None
         /\ \A r \in Pid \ {p} : insn'[r] = insn[r]
         /\ \A r \in Pid : state'[r] = IF r \in S /\ state[r] = "BLOCKED"
                                     THEN "READY" ELSE state[r]
BY DEF ProcTypeOK, LifecycleTypeOK, States, Complete, Wake, WakeAll

LEMMA BlockInFacts ==
  ASSUME ProcTypeOK, NEW p \in Pid, NEW i \in IpcInsn, BlockIn(p, i)
  PROVE  /\ ProcTypeOK'
         /\ state'[p] = "BLOCKED" /\ insn'[p] = i
         /\ \A r \in Pid \ {p} : state'[r] = state[r] /\ insn'[r] = insn[r]
BY DEF ProcTypeOK, LifecycleTypeOK, States, BlockIn, Leave

LEMMA ExitWithFacts ==
  ASSUME ProcTypeOK, NEW p \in Pid, NEW c, ExitWith(p, c)
  PROVE  /\ ProcTypeOK'
         /\ state'[p] = "EXITED"
         /\ \A r \in Pid \ {p} : state'[r] = state[r] /\ insn'[r] = insn[r]
BY DEF ProcTypeOK, LifecycleTypeOK, States, ExitWith, Leave

\* q does not refer to p.
Absent(p, q) ==
  /\ ~ InList(p, queue[q].sendWaiters)
  /\ ~ InList(p, queue[q].recvWaiters)
  /\ GrantsOf(p, q) = {}

\* A process that the step does not touch, and a queue that refers to it no
\* more than before.
LEMMA UserKept ==
  ASSUME NEW p, NEW q, UserOf(p, q), state'[p] = state[p], insn'[p] = insn[p],
         InList(p, queue'[q].sendWaiters) => InList(p, queue[q].sendWaiters),
         InList(p, queue'[q].recvWaiters) => InList(p, queue[q].recvWaiters),
         GrantsOf(p, q)' \subseteq GrantsOf(p, q)
  PROVE  UserOf(p, q)'
<1>1. InList(p, queue'[q].sendWaiters) => AsleepIn(p, Send(q))'
      BY DEF UserOf, AsleepIn, Send
<1>2. InList(p, queue'[q].recvWaiters) => AsleepIn(p, Recv(q))'
      BY DEF UserOf, AsleepIn, Recv
<1>3. GrantsOf(p, q)' # {} => Coming(p, q)'
      BY DEF UserOf, Coming, Recv
<1>4. QED BY <1>1, <1>2, <1>3 DEF UserOf

\* A process between instructions, and one not created yet, is in no list and
\* has no message.
LEMMA IdleAbsent ==
  ASSUME IpcInv, NEW p \in Pid, NEW q \in QueueId,
         state[p] = "UNUSED" \/ (insn[p] = None /\ state[p] # "EXITED")
  PROVE  Absent(p, q)
BY InsnFacts DEF IpcInv, QueueInv, UserOf, AsleepIn, Coming, Absent

\* What may refer to a process that executes an instruction on q.
LEMMA RunnerFacts ==
  ASSUME IpcInv, NEW p \in Pid, NEW q \in QueueId, NEW i \in {Send(q), Recv(q)},
         Executing(p, i)
  PROVE  /\ state[p] = "RUNNING"
         /\ \A t \in QueueId : /\ ~ InList(p, queue[t].sendWaiters)
                              /\ ~ InList(p, queue[t].recvWaiters)
         /\ \A t \in QueueId : GrantsOf(p, t) # {} =>
              t = q /\ i = Recv(q) /\ \A g, h \in GrantsOf(p, q) : g = h
<1>1. state[p] = "RUNNING" /\ insn[p] \in {None, i}
      BY NoneAssumption DEF IpcInv, RunningIsCurrent, Executing
<1>2. ASSUME NEW t \in QueueId
      PROVE  ~ InList(p, queue[t].sendWaiters) /\ ~ InList(p, queue[t].recvWaiters)
      BY <1>1 DEF IpcInv, QueueInv, UserOf, AsleepIn
<1>3. ASSUME NEW t \in QueueId, GrantsOf(p, t) # {}
      PROVE  t = q /\ i = Recv(q) /\ \A g, h \in GrantsOf(p, q) : g = h
  <2>1. insn[p] = Recv(t) /\ \A g, h \in GrantsOf(p, t) : g = h
        BY <1>1, <1>3 DEF IpcInv, QueueInv, UserOf, Coming
  <2>2. i = Recv(t)
        BY <1>1, <2>1, InsnFacts
  <2>3. t = q /\ i = Recv(q)
        BY <2>2, InsnFacts
  <2>4. QED BY <2>1, <2>3
<1>4. QED BY <1>1, <1>2, <1>3

\* A process asleep in the SEND list of q is nowhere else; the same for RECV.
LEMMA SleeperFacts ==
  ASSUME IpcInv, NEW p \in Pid, NEW q \in QueueId, NEW t \in QueueId, state[p] = "BLOCKED"
  PROVE  /\ GrantsOf(p, t) = {}
         /\ InList(p, queue[q].sendWaiters) =>
              /\ insn[p] = Send(q) /\ ~ InList(p, queue[t].recvWaiters)
              /\ t # q => ~ InList(p, queue[t].sendWaiters)
         /\ InList(p, queue[q].recvWaiters) =>
              /\ insn[p] = Recv(q) /\ ~ InList(p, queue[t].sendWaiters)
              /\ t # q => ~ InList(p, queue[t].recvWaiters)
<1>1. UserOf(p, q) /\ UserOf(p, t)
      BY DEF IpcInv, QueueInv
<1>2. QED BY <1>1, InsnFacts DEF UserOf, AsleepIn, Coming

-----------------------------------------------------------------------------
(***************************************************************************)
(* The steps that change a queue keep the invariant                        *)
(***************************************************************************)
\* An instruction on q leaves the contents of the other queues alone.
LEMMA OtherQueues ==
  ASSUME IpcInv, NEW t \in QueueId,
         queue'[t] = queue[t], sent'[t] = sent[t], receivedBy'[t] = receivedBy[t]
  PROVE  MessagesOf(t)' /\ ListsOf(t)'
BY DEF IpcInv, QueueInv, MessagesOf, Left, ListsOf

\* find_queue leaves what the queue holds alone.
LEMMA OpenedFacts ==
  ASSUME IpcTypeOK, NEW q \in QueueId
  PROVE  /\ Opened(q) \in QueueType
         /\ Opened(q).items = queue[q].items /\ Opened(q).grants = queue[q].grants
         /\ Opened(q).sendWaiters = queue[q].sendWaiters
         /\ Opened(q).recvWaiters = queue[q].recvWaiters
BY Zenon DEF IpcTypeOK, QueueType, Opened

LEMMA UpdateType ==
  ASSUME NEW k \in QueueType, NEW items \in Seq(Msg), NEW grants \in SUBSET Grant,
         NEW senders \in Seq(Pid), NEW receivers \in Seq(Pid)
  PROVE  /\ [k EXCEPT !.items = items] \in QueueType
         /\ [k EXCEPT !.sendWaiters = senders] \in QueueType
         /\ [k EXCEPT !.recvWaiters = receivers] \in QueueType
         /\ [k EXCEPT !.grants = grants, !.recvWaiters = receivers] \in QueueType
<1> USE DEF QueueType
<1>1. [k EXCEPT !.items = items] \in QueueType
      BY Zenon
<1>2. [k EXCEPT !.sendWaiters = senders] \in QueueType
      BY Zenon
<1>3. [k EXCEPT !.recvWaiters = receivers] \in QueueType
      BY Zenon
<1>4. [k EXCEPT !.grants = grants, !.recvWaiters = receivers] \in QueueType
      BY Zenon
<1>5. QED BY <1>1, <1>2, <1>3, <1>4, Zenon

LEMMA SendHandsOverInv ==
  ASSUME IpcInv, NEW p \in Pid, NEW q \in QueueId, SendHandsOver(p, q)
  PROVE  IpcTypeOK' /\ \A t \in QueueId : QueueInv(t)'
<1>1. /\ IpcTypeOK /\ ProcTypeOK /\ sent[q] \in 0 .. MaxMsgs
      /\ queue[q].items \in Seq(Msg) /\ queue[q].grants \in SUBSET Grant
      /\ queue[q].sendWaiters \in Seq(Pid) /\ queue[q].recvWaiters \in Seq(Pid)
      BY DEF IpcInv, IpcTypeOK, QueueType
<1>2. PICK w, rest : w = Head(queue[q].recvWaiters) /\ rest = Tail(queue[q].recvWaiters)
      BY Zenon
<1>3. PICK g0 : g0 = [pid |-> w, msg |-> sent[q] + 1]
      BY Zenon
<1>4. PICK k1 : k1 = [Opened(q) EXCEPT !.grants = queue[q].grants \cup {g0}, !.recvWaiters = rest]
      OBVIOUS
<1>5. /\ Executing(p, Send(q)) /\ sent[q] < MaxMsgs /\ queue[q].recvWaiters # <<>>
      /\ queue' = [queue EXCEPT ![q] = k1] /\ sent' = [sent EXCEPT ![q] = sent[q] + 1]
      /\ receivedBy' = receivedBy /\ Complete(p, {w})
      BY <1>1, <1>2, <1>3, <1>4, OpenedFacts, Zenon DEF SendHandsOver, Sends, SendBounded
<1>6. /\ w \in Pid /\ rest \in Seq(Pid) /\ InList(w, queue[q].recvWaiters)
      /\ ~ InList(w, rest) /\ Distinct(rest)
      /\ \A r \in Pid : InList(r, rest) => InList(r, queue[q].recvWaiters)
      BY <1>1, <1>2, <1>5, TailFacts DEF IpcInv, QueueInv, ListsOf
<1>7. g0 \in Grant /\ g0.pid = w /\ sent[q] + 1 \in 0 .. MaxMsgs
      BY <1>1, <1>3, <1>5, <1>6, IpcAssumption DEF Grant, Msg
<1>8. /\ k1 \in QueueType /\ k1.items = queue[q].items
      /\ k1.grants = queue[q].grants \cup {g0}
      /\ k1.sendWaiters = queue[q].sendWaiters /\ k1.recvWaiters = rest
  <2>1. queue[q].grants \cup {g0} \in SUBSET Grant
        BY <1>1, <1>7
  <2>2. k1 \in QueueType
        BY <1>1, <1>4, <1>6, <2>1, OpenedFacts, UpdateType, Zenon
  <2>3. QED BY <1>1, <1>4, <2>2, OpenedFacts DEF QueueType
<1>9. /\ ProcTypeOK' /\ insn'[p] = None
      /\ \A r \in Pid \ {p} : insn'[r] = insn[r]
      /\ \A r \in Pid : state'[r] = IF r = w /\ state[r] = "BLOCKED" THEN "READY" ELSE state[r]
      BY <1>1, <1>5, <1>6, CompleteFacts
<1>10. /\ queue'[q] = k1 /\ sent'[q] = sent[q] + 1
       /\ \A t \in QueueId \ {q} : queue'[t] = queue[t] /\ sent'[t] = sent[t]
       BY <1>1, <1>5 DEF IpcTypeOK
<1>11. IpcTypeOK'
       BY <1>1, <1>5, <1>7, <1>8, <1>9 DEF IpcTypeOK
<1>12. MessagesOf(q)'
  <2>1. /\ queue[q].items = <<>> /\ Left(q) = sent[q]
        /\ Messages(sent[q], <<>>, queue[q].grants, receivedBy[q])
        BY <1>1, <1>5 DEF IpcInv, QueueInv, MessagesOf, Left
  <2>2. Messages(sent[q] + 1, <<>>, queue[q].grants \cup {g0}, receivedBy[q])
        BY <1>1, <1>3, <1>5, <1>6, <2>1, HandOverMessages
  <2>3. Left(q)' = sent[q] + 1
        BY <1>1, <1>8, <1>10, <2>1 DEF Left
  <2>4. /\ queue'[q].items = <<>> /\ queue'[q].grants = queue[q].grants \cup {g0}
        /\ receivedBy'[q] = receivedBy[q] /\ sent[q] + 1 \in Nat
        BY <1>1, <1>5, <1>8, <1>10, <2>1
  <2>5. QED BY <2>2, <2>3, <2>4 DEF MessagesOf
<1>13. ListsOf(q)'
       BY <1>6, <1>8, <1>10 DEF IpcInv, QueueInv, ListsOf
<1>14. ASSUME NEW r \in Pid, NEW t \in QueueId PROVE UserOf(r, t)'
  <2>1. state[p] = "RUNNING" /\ Absent(p, t) /\ w # p
        BY <1>5, <1>6, RunnerFacts, InsnFacts DEF Absent
  <2>2. /\ queue'[t].sendWaiters = queue[t].sendWaiters
        /\ InList(r, queue'[t].recvWaiters) => InList(r, queue[t].recvWaiters)
        BY <1>6, <1>8, <1>10
  <2>3. GrantsOf(r, t)' = IF r = w /\ t = q THEN GrantsOf(r, t) \cup {g0} ELSE GrantsOf(r, t)
        BY <1>7, <1>8, <1>10 DEF GrantsOf
  <2>4. CASE r = p
        BY <2>1, <2>2, <2>3, <2>4 DEF Absent, UserOf
  <2>5. CASE r # p /\ r # w
        BY <1>9, <2>2, <2>3, <2>5, UserKept DEF IpcInv, QueueInv
  <2>6. CASE r = w /\ state[w] = "BLOCKED"
    <3>1. /\ state'[w] = "READY" /\ insn'[w] = Recv(q)
          /\ ~ InList(w, queue[t].sendWaiters) /\ GrantsOf(w, t) = {}
          /\ t # q => ~ InList(w, queue[t].recvWaiters)
          BY <1>6, <1>9, <2>1, <2>6, SleeperFacts
    <3>2. ~ InList(w, queue'[t].recvWaiters)
          BY <1>6, <1>8, <1>10, <3>1
    <3>3. CASE t = q
      <4>1. GrantsOf(w, q)' = {g0}
            BY <2>3, <2>6, <3>1, <3>3
      <4>2. Coming(w, q)'
            BY <3>1, <4>1 DEF Coming, Recv
      <4>3. QED BY <2>2, <2>6, <3>1, <3>2, <3>3, <4>2 DEF UserOf
    <3>4. CASE t # q
          BY <2>2, <2>3, <2>6, <3>1, <3>2, <3>4 DEF UserOf
    <3>5. QED BY <3>3, <3>4
  <2>7. CASE r = w /\ state[w] # "BLOCKED"
    <3>1. state'[r] = "EXITED"
          BY <1>6, <1>9, <2>7 DEF IpcInv, QueueInv, UserOf, AsleepIn
    <3>2. QED BY <3>1 DEF UserOf, AsleepIn, Coming
  <2>8. QED BY <2>4, <2>5, <2>6, <2>7
<1>15. \A t \in QueueId \ {q} : MessagesOf(t)' /\ ListsOf(t)'
       BY <1>5, <1>10, OtherQueues
<1>16. QED BY <1>11, <1>12, <1>13, <1>14, <1>15 DEF QueueInv

\* A process that blocks is put into one list of q, if there is room.
LEMMA BlockedUsers ==
  ASSUME IpcInv, NEW p \in Pid, NEW q \in QueueId, NEW i \in {Send(q), Recv(q)},
         \A t \in QueueId : Absent(p, t), BlockIn(p, i), NEW r \in Pid, NEW t \in QueueId,
         queue'[t].grants = queue[t].grants,
         InList(r, queue'[t].sendWaiters) =>
           InList(r, queue[t].sendWaiters) \/ (r = p /\ t = q /\ i = Send(q)),
         InList(r, queue'[t].recvWaiters) =>
           InList(r, queue[t].recvWaiters) \/ (r = p /\ t = q /\ i = Recv(q))
  PROVE  UserOf(r, t)'
<1>1. /\ state'[p] = "BLOCKED" /\ insn'[p] = i
      /\ r # p => state'[r] = state[r] /\ insn'[r] = insn[r]
      BY BlockInFacts, InsnFacts DEF IpcInv, IpcTypeOK
<1>2. GrantsOf(r, t)' = GrantsOf(r, t)
      BY DEF GrantsOf
<1>3. CASE r # p
      BY <1>1, <1>2, <1>3, UserKept DEF IpcInv, QueueInv
<1>4. CASE r = p
  <2>1. InList(p, queue'[t].sendWaiters) => AsleepIn(p, Send(t))'
        BY <1>1, <1>4 DEF Absent, AsleepIn, Send
  <2>2. InList(p, queue'[t].recvWaiters) => AsleepIn(p, Recv(t))'
        BY <1>1, <1>4 DEF Absent, AsleepIn, Recv
  <2>3. QED BY <1>2, <1>4, <2>1, <2>2 DEF Absent, UserOf
<1>5. QED BY <1>3, <1>4

LEMMA SendBlocksInv ==
  ASSUME IpcInv, NEW p \in Pid, NEW q \in QueueId, SendBlocks(p, q)
  PROVE  IpcTypeOK' /\ \A t \in QueueId : QueueInv(t)'
<1>1. /\ IpcTypeOK /\ ProcTypeOK
      /\ queue[q].sendWaiters \in Seq(Pid) /\ queue[q].recvWaiters \in Seq(Pid)
      BY DEF IpcInv, IpcTypeOK, QueueType
<1>2. PICK ws : ws = WaitqAdd(queue[q].sendWaiters, p)
      OBVIOUS
<1>3. PICK k1 : k1 = [Opened(q) EXCEPT !.sendWaiters = ws]
      BY Zenon
<1>4. /\ Executing(p, Send(q)) /\ queue' = [queue EXCEPT ![q] = k1]
      /\ sent' = sent /\ receivedBy' = receivedBy /\ BlockIn(p, Send(q))
      BY <1>1, <1>2, <1>3, OpenedFacts, Zenon DEF SendBlocks, Sends
<1>5. \A t \in QueueId : Absent(p, t)
      BY <1>4, RunnerFacts, InsnFacts DEF Absent
<1>6. /\ ws \in Seq(Pid) /\ Distinct(ws)
      /\ \A r \in Pid : InList(r, ws) => InList(r, queue[q].sendWaiters) \/ r = p
      BY <1>1, <1>2, <1>5, WaitqAddFacts DEF Absent, IpcInv, QueueInv, ListsOf
<1>7. k1 \in QueueType
      BY <1>1, <1>3, <1>6, OpenedFacts, UpdateType, Zenon DEF QueueType
<1>8. /\ k1.items = queue[q].items /\ k1.grants = queue[q].grants
      /\ k1.sendWaiters = ws /\ k1.recvWaiters = queue[q].recvWaiters
      BY <1>1, <1>3, OpenedFacts DEF QueueType
<1>9. queue'[q] = k1 /\ \A t \in QueueId \ {q} : queue'[t] = queue[t]
      BY <1>1, <1>4 DEF IpcTypeOK
<1>10. IpcTypeOK'
  <2>1. ProcTypeOK'
        BY <1>1, <1>4, BlockInFacts, InsnFacts
  <2>2. QED BY <1>1, <1>4, <1>7, <2>1 DEF IpcTypeOK
<1>11. MessagesOf(q)' /\ ListsOf(q)'
       BY <1>4, <1>6, <1>8, <1>9 DEF IpcInv, QueueInv, MessagesOf, Left, ListsOf
<1>12. ASSUME NEW r \in Pid, NEW t \in QueueId PROVE UserOf(r, t)'
       BY <1>4, <1>5, <1>6, <1>8, <1>9, BlockedUsers
<1>13. \A t \in QueueId \ {q} : MessagesOf(t)' /\ ListsOf(t)'
       BY <1>4, <1>9, OtherQueues
<1>14. QED BY <1>10, <1>11, <1>12, <1>13 DEF QueueInv

LEMMA RecvBlocksInv ==
  ASSUME IpcInv, NEW p \in Pid, NEW q \in QueueId, RecvBlocks(p, q)
  PROVE  IpcTypeOK' /\ \A t \in QueueId : QueueInv(t)'
<1>1. /\ IpcTypeOK /\ ProcTypeOK
      /\ queue[q].sendWaiters \in Seq(Pid) /\ queue[q].recvWaiters \in Seq(Pid)
      BY DEF IpcInv, IpcTypeOK, QueueType
<1>2. PICK ws : ws = WaitqAdd(queue[q].recvWaiters, p)
      OBVIOUS
<1>3. PICK k1 : k1 = [Opened(q) EXCEPT !.recvWaiters = ws]
      BY Zenon
<1>4. /\ Executing(p, Recv(q)) /\ GrantsOf(p, q) = {} /\ MustWait(p, q)
      /\ queue' = [queue EXCEPT ![q] = k1]
      /\ sent' = sent /\ receivedBy' = receivedBy /\ BlockIn(p, Recv(q))
      BY <1>1, <1>2, <1>3, OpenedFacts, Zenon DEF RecvBlocks, Recvs
<1>5. \A t \in QueueId : Absent(p, t)
      BY <1>4, RunnerFacts DEF Absent
<1>6. /\ ws \in Seq(Pid) /\ Distinct(ws)
      /\ \A r \in Pid : InList(r, ws) => InList(r, queue[q].recvWaiters) \/ r = p
      BY <1>1, <1>2, <1>5, WaitqAddFacts DEF Absent, IpcInv, QueueInv, ListsOf
<1>7. k1 \in QueueType
      BY <1>1, <1>3, <1>6, OpenedFacts, UpdateType, Zenon DEF QueueType
<1>8. /\ k1.items = queue[q].items /\ k1.grants = queue[q].grants
      /\ k1.sendWaiters = queue[q].sendWaiters /\ k1.recvWaiters = ws
      BY <1>1, <1>3, OpenedFacts DEF QueueType
<1>9. queue'[q] = k1 /\ \A t \in QueueId \ {q} : queue'[t] = queue[t]
      BY <1>1, <1>4 DEF IpcTypeOK
<1>10. IpcTypeOK'
  <2>1. ProcTypeOK'
        BY <1>1, <1>4, BlockInFacts, InsnFacts
  <2>2. QED BY <1>1, <1>4, <1>7, <2>1 DEF IpcTypeOK
<1>11. MessagesOf(q)' /\ ListsOf(q)'
  <2>1. queue[q].items = <<>>
        BY <1>4 DEF MustWait, IpcInv, QueueInv, MessagesOf
  <2>2. QED BY <1>4, <1>6, <1>8, <1>9, <2>1 DEF IpcInv, QueueInv, MessagesOf, Left, ListsOf
<1>12. ASSUME NEW r \in Pid, NEW t \in QueueId PROVE UserOf(r, t)'
       BY <1>4, <1>5, <1>6, <1>8, <1>9, BlockedUsers
<1>13. \A t \in QueueId \ {q} : MessagesOf(t)' /\ ListsOf(t)'
       BY <1>4, <1>9, OtherQueues
<1>14. QED BY <1>10, <1>11, <1>12, <1>13 DEF QueueInv

LEMMA SendQueuesInv ==
  ASSUME IpcInv, NEW p \in Pid, NEW q \in QueueId, SendQueues(p, q)
  PROVE  IpcTypeOK' /\ \A t \in QueueId : QueueInv(t)'
<1>1. /\ IpcTypeOK /\ ProcTypeOK /\ sent[q] \in 0 .. MaxMsgs /\ queue[q].items \in Seq(Msg)
      BY DEF IpcInv, IpcTypeOK, QueueType
<1>2. PICK items : items = Append(queue[q].items, sent[q] + 1)
      BY Zenon
<1>3. PICK k1 : k1 = [Opened(q) EXCEPT !.items = items]
      BY Zenon
<1>4. /\ Executing(p, Send(q)) /\ sent[q] < MaxMsgs /\ queue[q].recvWaiters = <<>>
      /\ queue' = [queue EXCEPT ![q] = k1] /\ sent' = [sent EXCEPT ![q] = sent[q] + 1]
      /\ receivedBy' = receivedBy /\ Complete(p, {})
      BY <1>1, <1>2, <1>3, OpenedFacts, Zenon DEF SendQueues, Sends, SendBounded
<1>5. /\ items \in Seq(Msg) /\ Len(items) = Len(queue[q].items) + 1
      /\ sent[q] + 1 \in 0 .. MaxMsgs
      BY <1>1, <1>2, <1>4, IpcAssumption DEF Msg
<1>6. k1 \in QueueType
      BY <1>1, <1>3, <1>5, OpenedFacts DEF QueueType
<1>7. /\ k1.items = items /\ k1.grants = queue[q].grants
      /\ k1.sendWaiters = queue[q].sendWaiters /\ k1.recvWaiters = <<>>
      BY <1>1, <1>3, <1>4, OpenedFacts DEF QueueType
<1>8. /\ queue'[q] = k1 /\ sent'[q] = sent[q] + 1
      /\ \A t \in QueueId \ {q} : queue'[t] = queue[t] /\ sent'[t] = sent[t]
      BY <1>1, <1>4 DEF IpcTypeOK
<1>9. /\ ProcTypeOK' /\ insn'[p] = None
      /\ \A r \in Pid \ {p} : insn'[r] = insn[r]
      /\ \A r \in Pid : state'[r] = state[r]
      BY <1>1, <1>4, CompleteFacts
<1>10. IpcTypeOK'
       BY <1>1, <1>4, <1>5, <1>6, <1>9 DEF IpcTypeOK
<1>11. MessagesOf(q)'
  <2>1. /\ Left(q) \in Nat /\ sent[q] + 1 = Left(q) + Len(queue[q].items) + 1
        /\ Messages(Left(q), queue[q].items, queue[q].grants, receivedBy[q])
        BY <1>1 DEF IpcInv, QueueInv, MessagesOf, Left
  <2>2. Messages(Left(q), items, queue[q].grants, receivedBy[q])
        BY <1>1, <1>2, <2>1, EnqueueMessages
  <2>3. Left(q)' = Left(q)
        BY <1>1, <1>5, <1>7, <1>8, SMTT(20) DEF Left
  <2>4. QED BY <1>4, <1>7, <1>8, <2>1, <2>2, <2>3 DEF MessagesOf
<1>12. ListsOf(q)'
       BY <1>4, <1>7, <1>8 DEF IpcInv, QueueInv, ListsOf
<1>13. ASSUME NEW r \in Pid, NEW t \in QueueId PROVE UserOf(r, t)'
  <2>1. Absent(p, t) /\ UserOf(r, t)
        BY <1>4, RunnerFacts, InsnFacts, Zenon DEF Absent, IpcInv, QueueInv
  <2>2. /\ queue'[t].sendWaiters = queue[t].sendWaiters
        /\ queue'[t].recvWaiters = queue[t].recvWaiters
        /\ GrantsOf(r, t)' = GrantsOf(r, t)
        BY <1>4, <1>7, <1>8 DEF GrantsOf
  <2>3. CASE r = p
        BY <2>1, <2>2, <2>3 DEF Absent, UserOf
  <2>4. CASE r # p
        BY <1>9, <2>1, <2>2, <2>4, UserKept
  <2>5. QED BY <2>3, <2>4
<1>14. \A t \in QueueId \ {q} : MessagesOf(t)' /\ ListsOf(t)'
       BY <1>4, <1>8, OtherQueues
<1>15. QED BY <1>10, <1>11, <1>12, <1>13, <1>14 DEF QueueInv

\* The processes after a receive: the first waiting sender is woken.
LEMMA ReceivedUsers ==
  ASSUME IpcInv, NEW p \in Pid, NEW q \in QueueId, Executing(p, Recv(q)),
         Complete(p, WaitqHead(queue[q].sendWaiters)),
         queue'[q].sendWaiters = WaitqRest(queue[q].sendWaiters),
         queue'[q].recvWaiters = queue[q].recvWaiters,
         queue'[q].grants \subseteq queue[q].grants, GrantsOf(p, q)' = {},
         \A t \in QueueId \ {q} : queue'[t] = queue[t],
         NEW r \in Pid, NEW t \in QueueId
  PROVE  UserOf(r, t)'
<1>1. PICK ws : ws = queue[q].sendWaiters
      OBVIOUS
<1>2. /\ WaitqHead(ws) \subseteq Pid
      /\ \A w \in WaitqHead(ws) : InList(w, ws) /\ ~ InList(w, WaitqRest(ws))
      /\ InList(r, WaitqRest(ws)) => InList(r, ws)
  <2>1. ws \in Seq(Pid) /\ Distinct(ws)
        BY <1>1 DEF IpcInv, IpcTypeOK, QueueType, QueueInv, ListsOf
  <2>2. QED BY <2>1, WaitqPopFacts
<1>3. /\ r # p => insn'[r] = insn[r]
      /\ state'[r] = IF r \in WaitqHead(ws) /\ state[r] = "BLOCKED" THEN "READY" ELSE state[r]
      BY <1>1, <1>2, CompleteFacts DEF IpcInv, IpcTypeOK
<1>4. /\ state[p] = "RUNNING"
      /\ ~ InList(p, queue[t].sendWaiters) /\ ~ InList(p, queue[t].recvWaiters)
      /\ t # q => GrantsOf(p, t) = {}
      BY RunnerFacts
<1>5. /\ InList(r, queue'[t].sendWaiters) => InList(r, queue[t].sendWaiters)
      /\ queue'[t].recvWaiters = queue[t].recvWaiters
      /\ GrantsOf(r, t)' \subseteq GrantsOf(r, t)
      BY <1>1, <1>2 DEF GrantsOf
<1>6. CASE r = p
  <2>1. Absent(p, t)'
        BY <1>4, <1>5, <1>6, Zenon DEF Absent
  <2>2. QED BY <1>6, <2>1, Zenon DEF Absent, UserOf
<1>7. CASE r # p /\ (r \notin WaitqHead(ws) \/ state[r] # "BLOCKED")
      BY <1>3, <1>5, <1>7, UserKept, Zenon DEF IpcInv, QueueInv
<1>8. CASE r \in WaitqHead(ws) /\ state[r] = "BLOCKED"
  <2>1. /\ GrantsOf(r, t) = {} /\ ~ InList(r, queue[t].recvWaiters)
        /\ t # q => ~ InList(r, queue[t].sendWaiters)
        BY <1>1, <1>2, <1>8, SleeperFacts, Zenon
  <2>2. ~ InList(r, queue'[t].sendWaiters)
        BY <1>1, <1>2, <1>8, <2>1
  <2>3. QED BY <1>5, <2>1, <2>2, Zenon DEF UserOf
<1>9. QED BY <1>6, <1>7, <1>8

LEMMA RecvGrantedInv ==
  ASSUME IpcInv, NEW p \in Pid, NEW q \in QueueId, RecvGranted(p, q)
  PROVE  IpcTypeOK' /\ \A t \in QueueId : QueueInv(t)'
<1>1. /\ IpcTypeOK /\ ProcTypeOK /\ sent[q] \in 0 .. MaxMsgs
      /\ queue[q].items \in Seq(Msg) /\ queue[q].grants \in SUBSET Grant
      /\ queue[q].sendWaiters \in Seq(Pid) /\ queue[q].recvWaiters \in Seq(Pid)
      /\ receivedBy[q] \in [Msg -> Pid \cup {None}]
      BY DEF IpcInv, IpcTypeOK, QueueType
<1>2. PICK g \in GrantsOf(p, q) :
        /\ Recvs(p, q)
        /\ Received(p, q, g.msg, [Opened(q) EXCEPT !.grants = @ \ {g},
                                                  !.recvWaiters = WaitqRemove(@, p)])
      BY Zenon DEF RecvGranted
<1>3. /\ g \in queue[q].grants /\ g \in Grant /\ g.pid = p /\ g.msg \in Msg
      /\ Executing(p, Recv(q))
      BY <1>1, <1>2 DEF GrantsOf, Grant, Recvs
<1>4. /\ WaitqRemove(queue[q].recvWaiters, p) = queue[q].recvWaiters
      /\ \A h \in GrantsOf(p, q) : h = g
      BY <1>1, <1>2, <1>3, RunnerFacts, WaitqRemoveAbsent
<1>5. PICK k0 : k0 = [Opened(q) EXCEPT !.grants = queue[q].grants \ {g},
                                       !.recvWaiters = queue[q].recvWaiters]
      OBVIOUS
<1>6. /\ k0 \in QueueType /\ k0.items = queue[q].items /\ k0.grants = queue[q].grants \ {g}
      /\ k0.sendWaiters = queue[q].sendWaiters /\ k0.recvWaiters = queue[q].recvWaiters
  <2>1. queue[q].grants \ {g} \in SUBSET Grant
        BY <1>1
  <2>2. k0 \in QueueType
        BY <1>1, <1>5, <2>1, OpenedFacts, UpdateType, Zenon
  <2>3. QED BY <1>1, <1>5, <2>2, OpenedFacts DEF QueueType
<1>7. Received(p, q, g.msg, k0)
      BY <1>1, <1>2, <1>4, <1>5, OpenedFacts, Zenon
<1>8. PICK k1 : k1 = [k0 EXCEPT !.sendWaiters = WaitqRest(queue[q].sendWaiters)]
      BY Zenon
<1>9. /\ queue' = [queue EXCEPT ![q] = k1]
      /\ receivedBy' = [receivedBy EXCEPT ![q][g.msg] = p]
      /\ sent' = sent /\ Complete(p, WaitqHead(queue[q].sendWaiters))
      BY <1>6, <1>7, <1>8 DEF Received
<1>10. /\ WaitqRest(queue[q].sendWaiters) \in Seq(Pid)
       /\ WaitqHead(queue[q].sendWaiters) \subseteq Pid
       /\ Distinct(WaitqRest(queue[q].sendWaiters))
       BY <1>1, WaitqPopFacts DEF IpcInv, QueueInv, ListsOf
<1>11. /\ k1 \in QueueType /\ k1.items = queue[q].items /\ k1.grants = queue[q].grants \ {g}
       /\ k1.sendWaiters = WaitqRest(queue[q].sendWaiters)
       /\ k1.recvWaiters = queue[q].recvWaiters
       BY <1>6, <1>8, <1>10 DEF QueueType
<1>12. /\ queue'[q] = k1 /\ receivedBy'[q] = [receivedBy[q] EXCEPT ![g.msg] = p]
       /\ \A t \in QueueId \ {q} : queue'[t] = queue[t] /\ receivedBy'[t] = receivedBy[t]
       BY <1>1, <1>9 DEF IpcTypeOK
<1>13. IpcTypeOK'
  <2>1. ProcTypeOK'
        BY <1>1, <1>9, <1>10, CompleteFacts
  <2>2. receivedBy' \in [QueueId -> [Msg -> Pid \cup {None}]]
        BY <1>1, <1>3, <1>9 DEF IpcTypeOK
  <2>3. QED BY <1>1, <1>9, <1>11, <2>1, <2>2 DEF IpcTypeOK
<1>14. MessagesOf(q)'
  <2>1. /\ Left(q) \in Nat /\ Messages(Left(q), queue[q].items, queue[q].grants, receivedBy[q])
        BY DEF IpcInv, QueueInv, MessagesOf
  <2>2. Messages(Left(q), queue[q].items, queue[q].grants \ {g},
                 [receivedBy[q] EXCEPT ![g.msg] = p])
        BY <1>1, <1>3, <2>1, CollectMessages
  <2>3. Left(q)' = Left(q)
        BY <1>9, <1>11, <1>12 DEF Left
  <2>4. queue[q].recvWaiters # <<>> => queue[q].items = <<>>
        BY DEF IpcInv, QueueInv, MessagesOf
  <2>5. QED BY <1>11, <1>12, <2>1, <2>2, <2>3, <2>4, Zenon DEF MessagesOf
<1>15. ListsOf(q)'
       BY <1>10, <1>11, <1>12 DEF IpcInv, QueueInv, ListsOf
<1>16. GrantsOf(p, q)' = {}
       BY <1>4, <1>11, <1>12 DEF GrantsOf
<1>17. ASSUME NEW r \in Pid, NEW t \in QueueId PROVE UserOf(r, t)'
       BY <1>3, <1>9, <1>11, <1>12, <1>16, ReceivedUsers
<1>18. \A t \in QueueId \ {q} : MessagesOf(t)' /\ ListsOf(t)'
       BY <1>9, <1>12, OtherQueues
<1>19. QED BY <1>13, <1>14, <1>15, <1>17, <1>18 DEF QueueInv

LEMMA RecvDequeuesInv ==
  ASSUME IpcInv, NEW p \in Pid, NEW q \in QueueId, RecvDequeues(p, q)
  PROVE  IpcTypeOK' /\ \A t \in QueueId : QueueInv(t)'
<1>1. /\ IpcTypeOK /\ ProcTypeOK /\ sent[q] \in 0 .. MaxMsgs
      /\ queue[q].items \in Seq(Msg) /\ queue[q].grants \in SUBSET Grant
      /\ queue[q].sendWaiters \in Seq(Pid) /\ queue[q].recvWaiters \in Seq(Pid)
      /\ receivedBy[q] \in [Msg -> Pid \cup {None}]
      BY DEF IpcInv, IpcTypeOK, QueueType
<1>2. PICK k0 : k0 = [Opened(q) EXCEPT !.items = Tail(queue[q].items)]
      BY Zenon
<1>3. PICK m : m = Head(queue[q].items)
      OBVIOUS
<1>4. /\ Executing(p, Recv(q)) /\ GrantsOf(p, q) = {} /\ queue[q].items # <<>>
      /\ Received(p, q, m, k0)
      BY <1>1, <1>2, <1>3, OpenedFacts, Zenon DEF RecvDequeues, Recvs, MustWait
<1>5. /\ m \in Msg /\ Tail(queue[q].items) \in Seq(Msg)
      /\ Len(Tail(queue[q].items)) = Len(queue[q].items) - 1 /\ Len(queue[q].items) \in Nat
      BY <1>1, <1>3, <1>4
<1>6. /\ k0 \in QueueType /\ k0.items = Tail(queue[q].items) /\ k0.grants = queue[q].grants
      /\ k0.sendWaiters = queue[q].sendWaiters /\ k0.recvWaiters = queue[q].recvWaiters
  <2>1. k0 \in QueueType
        BY <1>1, <1>2, <1>5, OpenedFacts, UpdateType, Zenon
  <2>2. QED BY <1>1, <1>2, <2>1, OpenedFacts DEF QueueType
<1>7. PICK k1 : k1 = [k0 EXCEPT !.sendWaiters = WaitqRest(queue[q].sendWaiters)]
      BY Zenon
<1>8. /\ queue' = [queue EXCEPT ![q] = k1]
      /\ receivedBy' = [receivedBy EXCEPT ![q][m] = p]
      /\ sent' = sent /\ Complete(p, WaitqHead(queue[q].sendWaiters))
      BY <1>4, <1>6, <1>7 DEF Received
<1>9. /\ WaitqRest(queue[q].sendWaiters) \in Seq(Pid)
      /\ WaitqHead(queue[q].sendWaiters) \subseteq Pid
      /\ Distinct(WaitqRest(queue[q].sendWaiters))
      BY <1>1, WaitqPopFacts, Zenon DEF IpcInv, QueueInv, ListsOf
<1>10. /\ k1 \in QueueType /\ k1.items = Tail(queue[q].items) /\ k1.grants = queue[q].grants
       /\ k1.sendWaiters = WaitqRest(queue[q].sendWaiters)
       /\ k1.recvWaiters = queue[q].recvWaiters
       BY <1>6, <1>7, <1>9, Zenon DEF QueueType
<1>11. /\ queue'[q] = k1 /\ receivedBy'[q] = [receivedBy[q] EXCEPT ![m] = p]
       /\ \A t \in QueueId \ {q} : queue'[t] = queue[t] /\ receivedBy'[t] = receivedBy[t]
       BY <1>1, <1>8 DEF IpcTypeOK
<1>12. IpcTypeOK'
  <2>1. ProcTypeOK'
        BY <1>1, <1>8, <1>9, CompleteFacts
  <2>2. receivedBy' \in [QueueId -> [Msg -> Pid \cup {None}]]
        BY <1>1, <1>5, <1>8 DEF IpcTypeOK
  <2>3. QED BY <1>1, <1>8, <1>10, <2>1, <2>2 DEF IpcTypeOK
<1>13. MessagesOf(q)'
  <2>1. /\ Left(q) \in Nat /\ Messages(Left(q), queue[q].items, queue[q].grants, receivedBy[q])
        BY DEF IpcInv, QueueInv, MessagesOf
  <2>2. Messages(Left(q) + 1, Tail(queue[q].items), queue[q].grants,
                 [receivedBy[q] EXCEPT ![m] = p])
        BY <1>1, <1>3, <1>4, <2>1, DequeueMessages, Zenon
  <2>3. Left(q)' = Left(q) + 1
    <3>1. sent'[q] = sent[q] /\ sent[q] \in Nat /\ queue'[q].items = Tail(queue[q].items)
          BY <1>1, <1>8, <1>10, <1>11
    <3>2. QED BY <1>5, <3>1 DEF Left
  <2>4. queue[q].recvWaiters = <<>>
        BY <1>4, Zenon DEF IpcInv, QueueInv, MessagesOf
  <2>5. QED BY <1>10, <1>11, <2>1, <2>2, <2>3, <2>4 DEF MessagesOf
<1>14. ListsOf(q)'
       BY <1>9, <1>10, <1>11, Zenon DEF IpcInv, QueueInv, ListsOf
<1>15. GrantsOf(p, q)' = {}
       BY <1>4, <1>10, <1>11 DEF GrantsOf
<1>16. ASSUME NEW r \in Pid, NEW t \in QueueId PROVE UserOf(r, t)'
       BY <1>4, <1>8, <1>10, <1>11, <1>15, ReceivedUsers
<1>17. \A t \in QueueId \ {q} : MessagesOf(t)' /\ ListsOf(t)'
       BY <1>8, <1>11, OtherQueues
<1>18. QED BY <1>12, <1>13, <1>14, <1>16, <1>17 DEF QueueInv

-----------------------------------------------------------------------------
(***************************************************************************)
(* The steps that leave the queues alone keep the invariant                *)
(***************************************************************************)
LEMMA OneProcessMoves ==
  ASSUME IpcInv, UNCHANGED ipcVars, NEW p \in Pid,
         \A r \in Pid \ {p} : state'[r] = state[r] /\ insn'[r] = insn[r],
         \/ state'[p] = "EXITED"
         \/ \A q \in QueueId : Absent(p, q)
         \/ state[p] = "READY" /\ state'[p] = "RUNNING" /\ insn'[p] = insn[p]
  PROVE  \A q \in QueueId : QueueInv(q)'
<1> SUFFICES ASSUME NEW q \in QueueId PROVE QueueInv(q)'
    OBVIOUS
<1>1. /\ queue' = queue /\ sent' = sent /\ receivedBy' = receivedBy
      /\ \A r \in Pid : UserOf(r, q)
      BY DEF ipcVars, IpcInv, QueueInv
<1>2. MessagesOf(q)' /\ ListsOf(q)'
      BY <1>1, OtherQueues
<1>3. \A r \in Pid : GrantsOf(r, q)' = GrantsOf(r, q)
      BY <1>1 DEF GrantsOf
<1>4. ASSUME NEW r \in Pid, r # p PROVE UserOf(r, q)'
      BY <1>1, <1>3, <1>4, UserKept
<1>5. UserOf(p, q)'
  <2>1. CASE state'[p] = "EXITED"
        BY <2>1 DEF UserOf, AsleepIn, Coming
  <2>2. CASE \A t \in QueueId : Absent(p, t)
        BY <1>1, <1>3, <2>2, Zenon DEF Absent, UserOf
  <2>3. CASE state[p] = "READY" /\ state'[p] = "RUNNING" /\ insn'[p] = insn[p]
        BY <1>1, <1>3, <2>3, Zenon DEF UserOf, AsleepIn, Coming, Recv
  <2>4. QED BY <2>1, <2>2, <2>3
<1>6. QED BY <1>2, <1>4, <1>5, Zenon DEF QueueInv

LEMMA BackgroundInv ==
  ASSUME IpcInv, NEW p \in Pid, Background(p) \/ KillCommand(p), UNCHANGED ipcVars
  PROVE  IpcTypeOK' /\ \A q \in QueueId : QueueInv(q)'
<1>1. ProcTypeOK' => IpcTypeOK'
      BY DEF IpcInv, IpcTypeOK, ipcVars
<1> USE DEF IpcInv, IpcTypeOK, ProcTypeOK, LifecycleTypeOK, States
<1>2. CASE Create(p) /\ UNCHANGED <<insn, exitCode>>
  <2>1. \A q \in QueueId : Absent(p, q)
        BY <1>2, IdleAbsent DEF Create
  <2>2. ProcTypeOK' /\ \A r \in Pid \ {p} : state'[r] = state[r] /\ insn'[r] = insn[r]
        BY <1>2 DEF Create
  <2>3. QED BY <1>1, <2>1, <2>2, OneProcessMoves
<1>3. CASE Dispatch(p) /\ UNCHANGED <<insn, exitCode>>
  <2>1. /\ ProcTypeOK' /\ \A r \in Pid \ {p} : state'[r] = state[r] /\ insn'[r] = insn[r]
        /\ state[p] = "READY" /\ state'[p] = "RUNNING" /\ insn'[p] = insn[p]
        BY <1>3 DEF Dispatch
  <2>2. QED BY <1>1, <2>1, OneProcessMoves
<1>4. CASE ExitInsn(p) \/ KillCommand(p)
  <2>1. /\ ProcTypeOK' /\ \A r \in Pid \ {p} : state'[r] = state[r] /\ insn'[r] = insn[r]
        /\ state'[p] = "EXITED"
        BY <1>4, Zenon DEF ExitInsn, ExitWith, Leave, KillCommand, Kill
  <2>2. QED BY <1>1, <2>1, OneProcessMoves
<1>5. CASE CpuPreempted(p) \/ IoStart(p) \/ IoDone(p)
  <2>1. insn[p] = None /\ state[p] # "EXITED"
        BY <1>5, NoneAssumption DEF CpuPreempted, IoStart, IoDone, Leave, RunningIsCurrent
  <2>2. ProcTypeOK' /\ \A r \in Pid \ {p} : state'[r] = state[r] /\ insn'[r] = insn[r]
        BY <1>5 DEF CpuPreempted, IoStart, IoDone, Leave, Wake, WakeAll
  <2>3. \A q \in QueueId : Absent(p, q)
        BY <2>1, IdleAbsent
  <2>4. QED BY <1>1, <2>2, <2>3, OneProcessMoves
<1>6. QED BY <1>2, <1>3, <1>4, <1>5 DEF Background

LEMMA ErrorExitInv ==
  ASSUME IpcInv, NEW p \in Pid, NEW c, ExitWith(p, c), UNCHANGED ipcVars
  PROVE  IpcTypeOK' /\ \A q \in QueueId : QueueInv(q)'
<1>1. /\ ProcTypeOK' /\ state'[p] = "EXITED"
      /\ \A r \in Pid \ {p} : state'[r] = state[r] /\ insn'[r] = insn[r]
      BY ExitWithFacts DEF IpcInv, IpcTypeOK
<1>2. IpcTypeOK'
      BY <1>1 DEF IpcInv, IpcTypeOK, ipcVars
<1>3. QED BY <1>1, <1>2, OneProcessMoves

LEMMA RunningKept ==
  ASSUME LifecycleTypeOK, RunningIsCurrent, [LifecycleNext]_lifecycleVars
  PROVE  RunningIsCurrent'
<1> USE NoneAssumption DEF LifecycleTypeOK, RunningIsCurrent, States
<1>1. ASSUME NEW p \in Pid, Create(p) PROVE RunningIsCurrent'
      BY <1>1 DEF Create
<1>2. ASSUME NEW p \in Pid, Dispatch(p) PROVE RunningIsCurrent'
      BY <1>2 DEF Dispatch
<1>3. ASSUME NEW p \in Pid, Kill(p) PROVE RunningIsCurrent'
      BY <1>3 DEF Kill, Alive
<1>4. ASSUME NEW p \in Pid, NEW s \in {"READY", "BLOCKED", "EXITED"}, Leave(p, s)
      PROVE  RunningIsCurrent'
      BY <1>4 DEF Leave
<1>5. ASSUME NEW S \in SUBSET Pid, Wake(S) PROVE RunningIsCurrent'
      BY <1>5 DEF Wake, WakeAll
<1>6. CASE UNCHANGED lifecycleVars
      BY <1>6 DEF lifecycleVars
<1>7. QED BY <1>1, <1>2, <1>3, <1>4, <1>5, <1>6 DEF LifecycleNext

\* The steps of Ipc are steps of Lifecycle.
LEMMA IpcTakesLifecycleSteps ==
  ASSUME IpcInv, [IpcNext]_vars
  PROVE  [LifecycleNext]_lifecycleVars
<1>1. ASSUME NEW p \in Pid, NEW S \in SUBSET Pid, Complete(p, S)
      PROVE  LifecycleNext
      BY <1>1 DEF Complete, LifecycleNext
<1>2. ASSUME NEW p \in Pid, NEW i, BlockIn(p, i)
      PROVE  LifecycleNext
      BY <1>2 DEF BlockIn, LifecycleNext
<1>3. ASSUME NEW p \in Pid, NEW c, ExitWith(p, c)
      PROVE  LifecycleNext
      BY <1>3 DEF ExitWith, LifecycleNext
<1>4. ASSUME NEW p \in Pid, Background(p) \/ KillCommand(p)
      PROVE  LifecycleNext
      BY <1>3, <1>4 DEF Background, ExitInsn, CpuPreempted, IoStart, IoDone, KillCommand,
                        LifecycleNext
<1>5. ASSUME NEW q \in QueueId, NEW k, k.sendWaiters = queue[q].sendWaiters
      PROVE  WaitqHead(k.sendWaiters) \in SUBSET Pid
      BY <1>5, WaitqPopFacts DEF IpcInv, IpcTypeOK, QueueType
<1>6. ASSUME NEW p \in Pid, NEW q \in QueueId, NEW op, IpcRefused(p, op, q)
      PROVE  LifecycleNext
      BY <1>3, <1>6 DEF IpcRefused
<1>7. ASSUME NEW p \in Pid, NEW q \in QueueId, SendHandsOver(p, q)
      PROVE  LifecycleNext
  <2>1. Head(Opened(q).recvWaiters) \in Pid
        BY <1>7, OpenedFacts, TailFacts DEF SendHandsOver, IpcInv, IpcTypeOK, QueueType
  <2>2. QED BY <1>1, <1>7, <2>1 DEF SendHandsOver
<1>8. ASSUME NEW p \in Pid, NEW q \in QueueId,
             \/ SendGrantsFull(p, q) \/ SendBlocks(p, q)
             \/ SendQueues(p, q) \/ RecvBlocks(p, q)
      PROVE  LifecycleNext
      BY <1>1, <1>2, <1>3, <1>8 DEF SendGrantsFull, SendBlocks, SendQueues, RecvBlocks
<1>9. ASSUME NEW p \in Pid, NEW q \in QueueId, RecvGranted(p, q)
      PROVE  LifecycleNext
  <2>1. PICK g \in GrantsOf(p, q) :
          Received(p, q, g.msg, [Opened(q) EXCEPT !.grants = @ \ {g},
                                                  !.recvWaiters = WaitqRemove(@, p)])
        BY <1>9, Zenon DEF RecvGranted
  <2>2. PICK k : k = [Opened(q) EXCEPT !.grants = @ \ {g}, !.recvWaiters = WaitqRemove(@, p)]
        OBVIOUS
  <2>3. k.sendWaiters = queue[q].sendWaiters
        BY <2>2, OpenedFacts DEF IpcInv, QueueType
  <2>4. Complete(p, WaitqHead(k.sendWaiters))
        BY <2>1, <2>2 DEF Received
  <2>5. QED BY <1>1, <1>5, <2>3, <2>4
<1>10. ASSUME NEW p \in Pid, NEW q \in QueueId, RecvDequeues(p, q)
       PROVE  LifecycleNext
  <2>1. PICK k : k = [Opened(q) EXCEPT !.items = Tail(@)]
        BY Zenon
  <2>2. k.sendWaiters = queue[q].sendWaiters
        BY <2>1, OpenedFacts DEF IpcInv, QueueType
  <2>3. Complete(p, WaitqHead(k.sendWaiters))
        BY <1>10, <2>1 DEF RecvDequeues, Received
  <2>4. QED BY <1>1, <1>5, <2>2, <2>3
<1>11. CASE UNCHANGED vars
       BY <1>11 DEF vars, executorVars, lifecycleVars
<1>12. CASE IpcNext
  <2>1. ASSUME NEW p \in Pid, IpcStep(p) PROVE LifecycleNext
        BY <1>6, <1>7, <1>8, <1>9, <1>10, <2>1 DEF IpcStep
  <2>2. QED BY <1>4, <1>12, <2>1 DEF IpcNext, QuietNext, KillStep
<1>13. QED BY <1>11, <1>12

LEMMA IpcNextInv == IpcInv /\ [IpcNext]_vars => IpcInv'
<1> SUFFICES ASSUME IpcInv, [IpcNext]_vars PROVE IpcInv'
    OBVIOUS
<1>1. RunningIsCurrent'
      BY IpcTakesLifecycleSteps, RunningKept DEF IpcInv, IpcTypeOK, ProcTypeOK
<1>2. ASSUME NEW p \in Pid, IpcStep(p)
      PROVE  IpcTypeOK' /\ \A q \in QueueId : QueueInv(q)'
  <2>1. PICK q \in QueueId :
          \/ \E op \in {"SEND", "RECV"} : IpcRefused(p, op, q)
          \/ SendHandsOver(p, q) \/ SendGrantsFull(p, q)
          \/ SendBlocks(p, q) \/ SendQueues(p, q)
          \/ RecvGranted(p, q) \/ RecvBlocks(p, q) \/ RecvDequeues(p, q)
        BY <1>2 DEF IpcStep
  <2>2. CASE SendGrantsFull(p, q) \/ \E op \in {"SEND", "RECV"} : IpcRefused(p, op, q)
        BY <2>2, ErrorExitInv DEF SendGrantsFull, IpcRefused
  <2>3. QED BY <2>1, <2>2, SendHandsOverInv, SendBlocksInv, SendQueuesInv, RecvGrantedInv,
               RecvBlocksInv, RecvDequeuesInv
<1>3. CASE IpcNext
      BY <1>1, <1>2, <1>3, BackgroundInv DEF IpcInv, IpcNext, QuietNext, KillStep
<1>4. CASE UNCHANGED vars
  <2>1. UNCHANGED <<state, current, insn, queue, sent, receivedBy>>
        BY <1>4 DEF vars, executorVars, ipcVars
  <2>2. IpcTypeOK'
        BY <2>1 DEF IpcInv, IpcTypeOK, ProcTypeOK, LifecycleTypeOK
  <2>3. \A q \in QueueId : MessagesOf(q)' /\ ListsOf(q)'
        BY <2>1, OtherQueues
  <2>4. ASSUME NEW p \in Pid, NEW q \in QueueId PROVE UserOf(p, q)'
    <3>1. GrantsOf(p, q)' = GrantsOf(p, q)
          BY <2>1 DEF GrantsOf
    <3>2. QED BY <2>1, <3>1, UserKept DEF IpcInv, QueueInv
  <2>5. QED BY <1>1, <2>2, <2>3, <2>4 DEF IpcInv, QueueInv
<1>5. QED BY <1>3, <1>4

LEMMA IpcInvAlways == IpcSpec => []IpcInv
BY IpcInitInv, IpcNextInv, PTL DEF IpcSpec

-----------------------------------------------------------------------------
(***************************************************************************)
(* What the invariant says                                                 *)
(***************************************************************************)
\* No receiver waits beside a queued message, whatever SENDs and RECVs meet in
\* ipc_send and ipc_recv and whoever is killed in between.
THEOREM NeverMessageBesideWaiter == IpcSpec => []NoMessageBesideWaiter
<1>1. IpcInv => NoMessageBesideWaiter
      BY DEF IpcInv, QueueInv, MessagesOf, NoMessageBesideWaiter
<1>2. QED BY <1>1, IpcInvAlways, PTL

LEMMA InvWaiters == ASSUME IpcInv PROVE WaitersAsleep
<1> SUFFICES ASSUME NEW q \in QueueId
             PROVE  /\ \A p \in Range(queue[q].sendWaiters) : AsleepIn(p, Send(q))
                    /\ \A p \in Range(queue[q].recvWaiters) : AsleepIn(p, Recv(q))
    BY DEF WaitersAsleep, AsleepIn
<1>1. queue[q].sendWaiters \in Seq(Pid) /\ queue[q].recvWaiters \in Seq(Pid)
      BY DEF IpcInv, IpcTypeOK, QueueType
<1>2. ASSUME NEW ws \in Seq(Pid), NEW p \in Range(ws) PROVE p \in Pid /\ InList(p, ws)
      BY DEF Range, InList
<1>3. QED BY <1>1, <1>2, Zenon DEF IpcInv, QueueInv, UserOf

\* The wait lists name processes asleep in that very instruction, and a grant
\* names one process that is on its way to it; or they name a killed process.
THEOREM WaitersAlwaysInPlace == IpcSpec => []WaitersInPlace
<1>1. ASSUME IpcInv PROVE GrantsAwake
  <2> SUFFICES ASSUME NEW q \in QueueId, NEW g \in queue[q].grants
               PROVE  \/ state[g.pid] = "EXITED"
                      \/ /\ state[g.pid] \in {"READY", "RUNNING"}
                         /\ insn[g.pid] = Recv(q)
                         /\ GrantsOf(g.pid, q) = {g}
      BY DEF GrantsAwake
  <2>1. g.pid \in Pid /\ g \in GrantsOf(g.pid, q)
        BY <1>1 DEF IpcInv, IpcTypeOK, QueueType, Grant, GrantsOf
  <2>2. Coming(g.pid, q)
        BY <1>1, <2>1 DEF IpcInv, QueueInv, UserOf
  <2>3. QED BY <2>1, <2>2 DEF Coming
<1>2. QED BY <1>1, InvWaiters, IpcInvAlways, PTL DEF WaitersInPlace
=============================================================================
