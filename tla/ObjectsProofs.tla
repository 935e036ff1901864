---------------------------- MODULE ObjectsProofs ----------------------------
(***************************************************************************)
(* Proofs for module Objects, for any processes, any ids, any sizes of the *)
(* tables and any mix of instructions.                                     *)
(*                                                                         *)
(* A workload that uses objects of both kinds is, for the semaphores and   *)
(* mutexes alone, a behaviour of Sync, and for the queues alone, one of    *)
(* Ipc: whoever executes an instruction on an object of the other kind     *)
(* seems to compute, and whoever sleeps in one seems to sleep in its IO.   *)
(* So all that is proved of Sync and Ipc holds of mixed workloads.         *)
(***************************************************************************)
EXTENDS Objects, TLAPS

\* The instructions of K, and the exit codes other than that of an error of the
\* other kind, which is taken for an EXIT.
Only(K) == [p \in Pid |-> IF insn[p] \in K THEN insn[p] ELSE None]
Codes(error) == [p \in Pid |-> IF exitCode[p] = error THEN 0 ELSE exitCode[p]]

syncInsn == Only(S!SyncInsn)
syncCode == Codes(I!IpcErrorCode)
ipcInsn == Only(I!IpcInsn)
ipcCode == Codes(S!SyncErrorCode)

ObjectsTypeOK ==
  /\ state \in [Pid -> States]
  /\ insn \in [Pid -> S!SyncInsn \cup I!IpcInsn \cup {None}]
  /\ exitCode \in [Pid -> {None, 0, S!SyncErrorCode, I!IpcErrorCode}]
  /\ mix \in Mixes

\* What the inductive invariants of Sync and Ipc say of the lists.
ObjectsSound ==
  /\ ObjectsTypeOK
  /\ sem \in [SemId -> S!SemObject] /\ queue \in [QueueId -> I!QueueType]
  /\ S!WaitersAsleep /\ I!WaitersAsleep

-----------------------------------------------------------------------------
(***************************************************************************)
(* The views                                                               *)
(***************************************************************************)
LEMMA Kinds ==
  /\ S!SyncInsn \cap I!IpcInsn = {}
  /\ None \notin S!SyncInsn /\ None \notin I!IpcInsn
BY ObjectsAssumption DEF S!SyncInsn, I!IpcInsn, S!WaitOps, S!PostOps

LEMMA ViewOfComplete ==
  ASSUME ObjectsTypeOK, NEW K, None \notin K, NEW c, NEW p \in Pid, NEW W, Complete(p, W)
  PROVE  Only(K)' = [Only(K) EXCEPT ![p] = None] /\ Codes(c)' = Codes(c)
BY DEF ObjectsTypeOK, Complete, Only, Codes

LEMMA ViewOfBlockIn ==
  ASSUME ObjectsTypeOK, NEW K, None \notin K, NEW c, NEW p \in Pid, NEW i, BlockIn(p, i)
  PROVE  /\ Only(K)' = [Only(K) EXCEPT ![p] = IF i \in K THEN i ELSE None]
         /\ Codes(c)' = Codes(c)
BY DEF ObjectsTypeOK, BlockIn, Only, Codes

LEMMA ViewOfExit ==
  ASSUME ObjectsTypeOK, NEW K, None \notin K, NEW c, NEW p \in Pid, NEW d, ExitWith(p, d)
  PROVE  /\ Only(K)' = [Only(K) EXCEPT ![p] = None]
         /\ d = c => Codes(c)' = [Codes(c) EXCEPT ![p] = 0]
         /\ d # c => Codes(c)' = [Codes(c) EXCEPT ![p] = d]
BY DEF ObjectsTypeOK, ExitWith, Only, Codes

-----------------------------------------------------------------------------
(***************************************************************************)
(* A step that uses an object, for those who look at the other kind        *)
(***************************************************************************)
\* p executes an instruction of K, an error in which has that exit code; nobody
\* is woken out of an instruction that is not one of K.
Elsewhere(p, K, error) ==
  /\ current = p /\ insn[p] \in K \cup {None}
  /\ \/ Complete(p, {})
     \/ \E w \in Pid : Complete(p, {w}) /\ (state[w] = "BLOCKED" => insn[w] \in K)
     \/ \E i \in K : BlockIn(p, i)
     \/ ExitWith(p, error)

\* What that is for those who look only at the instructions of L.
Seems(p, L, error) ==
  \/ UNCHANGED <<state, current, Only(L), Codes(error)>>
  \/ \E w \in Pid : /\ state[w] = "BLOCKED" /\ Only(L)[w] = None /\ Wake({w})
                    /\ UNCHANGED <<Only(L), Codes(error)>>
  \/ Leave(p, "BLOCKED") /\ UNCHANGED <<Only(L), Codes(error)>>
  \/ /\ Leave(p, "EXITED") /\ Only(L)' = [Only(L) EXCEPT ![p] = None]
     /\ Codes(error)' = [Codes(error) EXCEPT ![p] = 0]

LEMMA ElsewhereView ==
  ASSUME ObjectsTypeOK, NEW K, NEW L, K \cap L = {}, None \notin K, None \notin L, NEW error,
         NEW p \in Pid, Elsewhere(p, K, error)
  PROVE  Only(L)[p] = None /\ Seems(p, L, error)
<1>1. Only(L)[p] = None
      BY DEF Elsewhere, Only
<1>2. Only(L) = [Only(L) EXCEPT ![p] = None]
      BY <1>1, Zenon DEF Only
<1>3. ASSUME NEW W, Complete(p, W)
      PROVE  Wake(W) /\ UNCHANGED <<Only(L), Codes(error)>>
      BY <1>2, <1>3, ViewOfComplete, Zenon DEF Complete
<1>4. CASE Complete(p, {})
  <2>1. state' = state /\ current' = current
        BY <1>3, <1>4 DEF ObjectsTypeOK, Wake, WakeAll
  <2>2. QED BY <1>1, <1>3, <1>4, <2>1, Zenon DEF Seems
<1>5. ASSUME NEW w \in Pid, Complete(p, {w}), state[w] = "BLOCKED" => insn[w] \in K
      PROVE  Seems(p, L, error)
  <2>1. CASE state[w] # "BLOCKED"
    <3>1. state' = state /\ current' = current
          BY <1>3, <1>5, <2>1 DEF ObjectsTypeOK, Wake, WakeAll
    <3>2. QED BY <1>3, <1>5, <3>1, Zenon DEF Seems
  <2>2. CASE state[w] = "BLOCKED"
    <3>1. Only(L)[w] = None
          BY <1>5, <2>2 DEF Only
    <3>2. QED BY <1>3, <1>5, <2>2, <3>1, Zenon DEF Seems
  <2>3. QED BY <2>1, <2>2, Zenon
<1>6. ASSUME NEW i \in K, BlockIn(p, i) PROVE Seems(p, L, error)
  <2>1. (IF i \in L THEN i ELSE None) = None
        OBVIOUS
  <2>2. UNCHANGED <<Only(L), Codes(error)>>
        BY <1>2, <1>6, <2>1, ViewOfBlockIn, Zenon
  <2>3. QED BY <1>6, <2>2, Zenon DEF Seems, BlockIn
<1>7. CASE ExitWith(p, error)
  <2>1. Only(L)' = [Only(L) EXCEPT ![p] = None] /\ Codes(error)' = [Codes(error) EXCEPT ![p] = 0]
        BY <1>7, ViewOfExit, Zenon
  <2>2. QED BY <1>1, <1>7, <2>1, Zenon DEF Seems, ExitWith
<1>8. QED BY <1>1, <1>4, <1>5, <1>6, <1>7, Zenon DEF Elsewhere

LEMMA SyncElsewhere ==
  ASSUME ObjectsSound, NEW p \in Pid, S!SyncStep(p)
  PROVE  Elsewhere(p, S!SyncInsn, S!SyncErrorCode)
<1>1. /\ \A W : S!Complete(p, W) => Complete(p, W)
      /\ \A i : S!BlockIn(p, i) => BlockIn(p, i)
      /\ S!ExitWith(p, S!SyncErrorCode) => ExitWith(p, S!SyncErrorCode)
      BY DEF S!Complete, Complete, S!Wake, Wake, S!WakeAll, WakeAll,
             S!BlockIn, BlockIn, S!Leave, Leave, S!ExitWith, ExitWith
<1>2. ASSUME NEW i \in S!SyncInsn, S!Executing(p, i)
      PROVE  current = p /\ insn[p] \in S!SyncInsn \cup {None}
      BY <1>2 DEF S!Executing
<1>3. ASSUME NEW op \in S!WaitOps, NEW s \in SemId, S!WaitStep(p, op, s)
      PROVE  Elsewhere(p, S!SyncInsn, S!SyncErrorCode)
  <2>1. [op |-> op, id |-> s] \in S!SyncInsn
        BY DEF S!SyncInsn
  <2>2. /\ S!Executing(p, [op |-> op, id |-> s])
        /\ \/ S!Complete(p, {}) \/ S!BlockIn(p, [op |-> op, id |-> s])
           \/ S!ExitWith(p, S!SyncErrorCode)
        BY <1>3, Zenon
        DEF S!WaitStep, S!WaitRefused, S!WaitGranted, S!WaitByOwner, S!WaitBlocks,
            S!WaitOverflows, S!WaitTakes, S!Contends, S!Waits
  <2>3. QED BY <1>1, <1>2, <2>1, <2>2, Zenon DEF Elsewhere
<1>4. ASSUME NEW op \in S!PostOps, NEW s \in SemId, S!PostStep(p, op, s)
      PROVE  Elsewhere(p, S!SyncInsn, S!SyncErrorCode)
  <2>1. [op |-> op, id |-> s] \in S!SyncInsn
        BY DEF S!SyncInsn
  <2>2. /\ S!Executing(p, [op |-> op, id |-> s])
        /\ \/ S!Complete(p, {}) \/ S!ExitWith(p, S!SyncErrorCode)
           \/ sem[s].waiters # <<>> /\ S!Complete(p, {Head(sem[s].waiters)})
        BY <1>4, Zenon DEF S!PostStep, S!PostRefused, S!PostHandsOver, S!PostReturns
  <2>3. ASSUME sem[s].waiters # <<>>
        PROVE  /\ Head(sem[s].waiters) \in Pid
               /\ state[Head(sem[s].waiters)] = "BLOCKED" =>
                    insn[Head(sem[s].waiters)] \in S!SyncInsn
    <3>1. sem[s].waiters \in Seq(Pid) /\ S!WaitersAsleep
          BY DEF ObjectsSound, S!SemObject
    <3>2. 1 \in DOMAIN sem[s].waiters /\ Head(sem[s].waiters) = sem[s].waiters[1]
          BY <2>3, <3>1
    <3>3. Head(sem[s].waiters) \in Pid
          BY <3>1, <3>2
    <3>4. ASSUME state[Head(sem[s].waiters)] = "BLOCKED"
          PROVE  insn[Head(sem[s].waiters)] \in [op : S!WaitOps, id : {s}]
          BY <3>1, <3>2, <3>4 DEF S!WaitersAsleep
    <3>5. QED BY <3>3, <3>4 DEF S!SyncInsn
  <2>4. QED BY <1>1, <1>2, <2>1, <2>2, <2>3, Zenon DEF Elsewhere
<1>5. QED BY <1>3, <1>4, Zenon DEF S!SyncStep

\* The first one in a list of a queue.
LEMMA IpcFirst ==
  ASSUME ObjectsSound, NEW q \in QueueId, NEW ws,
         ws = queue[q].sendWaiters \/ ws = queue[q].recvWaiters, ws # <<>>
  PROVE  Head(ws) \in Pid /\ (state[Head(ws)] = "BLOCKED" => insn[Head(ws)] \in I!IpcInsn)
<1>1. ws \in Seq(Pid)
      BY DEF ObjectsSound, I!QueueType
<1>2. 1 \in DOMAIN ws /\ Head(ws) = ws[1] /\ Head(ws) \in Pid
      BY <1>1
<1>3. Head(ws) \in I!Range(ws)
      BY <1>2 DEF I!Range
<1>4. state[Head(ws)] = "BLOCKED" => insn[Head(ws)] \in {I!Send(q), I!Recv(q)}
      BY <1>3 DEF ObjectsSound, I!WaitersAsleep
<1>5. QED BY <1>2, <1>4 DEF I!Send, I!Recv, I!IpcInsn

LEMMA IpcElsewhere ==
  ASSUME ObjectsSound, NEW p \in Pid, I!IpcStep(p)
  PROVE  Elsewhere(p, I!IpcInsn, I!IpcErrorCode)
<1>1. /\ \A W : I!Complete(p, W) => Complete(p, W)
      /\ \A i : I!BlockIn(p, i) => BlockIn(p, i)
      /\ I!ExitWith(p, I!IpcErrorCode) => ExitWith(p, I!IpcErrorCode)
      BY DEF I!Complete, Complete, I!Wake, Wake, I!WakeAll, WakeAll,
             I!BlockIn, BlockIn, I!Leave, Leave, I!ExitWith, ExitWith
<1>2. ASSUME NEW i \in I!IpcInsn, I!Executing(p, i)
      PROVE  current = p /\ insn[p] \in I!IpcInsn \cup {None}
      BY <1>2 DEF I!Executing
<1>3. ASSUME NEW q \in QueueId
      PROVE  /\ I!Send(q) \in I!IpcInsn /\ I!Recv(q) \in I!IpcInsn
             /\ \A op \in {"SEND", "RECV"} : [op |-> op, id |-> q] \in I!IpcInsn
      BY DEF I!Send, I!Recv, I!IpcInsn
<1>4. ASSUME NEW q \in QueueId, NEW op \in {"SEND", "RECV"}, I!IpcRefused(p, op, q)
      PROVE  Elsewhere(p, I!IpcInsn, I!IpcErrorCode)
      BY <1>1, <1>2, <1>3, <1>4, Zenon DEF I!IpcRefused, Elsewhere
<1>5. ASSUME NEW q \in QueueId,
             I!SendGrantsFull(p, q) \/ I!SendBlocks(p, q) \/ I!SendQueues(p, q)
      PROVE  Elsewhere(p, I!IpcInsn, I!IpcErrorCode)
      BY <1>1, <1>2, <1>3, <1>5, Zenon
      DEF I!SendGrantsFull, I!SendBlocks, I!SendQueues, I!Sends, Elsewhere
<1>6. ASSUME NEW q \in QueueId, I!SendHandsOver(p, q)
      PROVE  Elsewhere(p, I!IpcInsn, I!IpcErrorCode)
  <2>1. I!Opened(q).recvWaiters = queue[q].recvWaiters
        BY DEF ObjectsSound, I!QueueType, I!Opened
  <2>2. /\ I!Executing(p, I!Send(q)) /\ queue[q].recvWaiters # <<>>
        /\ I!Complete(p, {Head(queue[q].recvWaiters)})
        BY <1>6, <2>1, Zenon DEF I!SendHandsOver, I!Sends
  <2>3. QED BY <1>1, <1>2, <1>3, <2>2, IpcFirst, Zenon DEF Elsewhere
<1>7. ASSUME NEW q \in QueueId, I!RecvBlocks(p, q)
      PROVE  Elsewhere(p, I!IpcInsn, I!IpcErrorCode)
      BY <1>1, <1>2, <1>3, <1>7, Zenon DEF I!RecvBlocks, I!Recvs, Elsewhere
<1>8. ASSUME NEW q \in QueueId, I!RecvGranted(p, q) \/ I!RecvDequeues(p, q)
      PROVE  Elsewhere(p, I!IpcInsn, I!IpcErrorCode)
  <2>1. \A g : [I!Opened(q) EXCEPT !.grants = @ \ {g},
                                  !.recvWaiters = I!WaitqRemove(@, p)].sendWaiters
                 = queue[q].sendWaiters
        BY DEF ObjectsSound, I!QueueType, I!Opened
  <2>2. [I!Opened(q) EXCEPT !.items = Tail(@)].sendWaiters = queue[q].sendWaiters
        BY DEF ObjectsSound, I!QueueType, I!Opened
  <2>3. I!Executing(p, I!Recv(q)) /\ I!Complete(p, I!WaitqHead(queue[q].sendWaiters))
        BY <1>8, <2>1, <2>2, Zenon DEF I!RecvGranted, I!RecvDequeues, I!Recvs, I!Received
  <2>4. CASE queue[q].sendWaiters = <<>>
        BY <1>1, <1>2, <1>3, <2>3, <2>4, Zenon DEF I!WaitqHead, Elsewhere
  <2>5. CASE queue[q].sendWaiters # <<>>
    <3>1. I!WaitqHead(queue[q].sendWaiters) = {Head(queue[q].sendWaiters)}
          BY <2>5, Zenon DEF I!WaitqHead
    <3>2. QED BY <1>1, <1>2, <1>3, <2>3, <2>5, <3>1, IpcFirst, Zenon DEF Elsewhere
  <2>6. QED BY <2>4, <2>5, Zenon
<1>9. QED BY <1>4, <1>5, <1>6, <1>7, <1>8, Zenon DEF I!IpcStep

LEMMA TypesKept ==
  ASSUME ObjectsSound, [ObjectsNext]_objectVars
  PROVE  /\ insn' \in [Pid -> S!SyncInsn \cup I!IpcInsn \cup {None}]
         /\ exitCode' \in [Pid -> {None, 0, S!SyncErrorCode, I!IpcErrorCode}]
         /\ mix' \in Mixes
<1>1. ObjectsTypeOK /\ mix.pids \subseteq Pid
      BY MixesAssumption DEF ObjectsSound, ObjectsTypeOK
<1>2. ASSUME NEW p \in Pid, NEW K \in {S!SyncInsn, I!IpcInsn},
             NEW error \in {S!SyncErrorCode, I!IpcErrorCode}, Elsewhere(p, K, error)
      PROVE  /\ insn' \in [Pid -> S!SyncInsn \cup I!IpcInsn \cup {None}]
             /\ exitCode' \in [Pid -> {None, 0, S!SyncErrorCode, I!IpcErrorCode}]
  <2>1. CASE \E W : Complete(p, W)
        BY <1>1, <2>1 DEF ObjectsTypeOK, Complete
  <2>2. CASE \E i \in K : BlockIn(p, i)
        BY <1>1, <1>2, <2>2 DEF ObjectsTypeOK, BlockIn
  <2>3. CASE ExitWith(p, error)
        BY <1>1, <1>2, <2>3 DEF ObjectsTypeOK, ExitWith
  <2>4. QED BY <1>2, <2>1, <2>2, <2>3, Zenon DEF Elsewhere
<1>3. ASSUME NEW p \in Pid, Background(p)
      PROVE  /\ insn' \in [Pid -> S!SyncInsn \cup I!IpcInsn \cup {None}]
             /\ exitCode' \in [Pid -> {None, 0, S!SyncErrorCode, I!IpcErrorCode}]
  <2>1. CASE UNCHANGED <<insn, exitCode>>
        BY <1>1, <2>1 DEF ObjectsTypeOK
  <2>2. CASE ExitWith(p, 0)
        BY <1>1, <2>2 DEF ObjectsTypeOK, ExitWith
  <2>3. QED BY <1>3, <2>1, <2>2, Zenon DEF Background, ExitInsn, CpuPreempted, IoStart, IoDone
<1>4. CASE UNCHANGED objectVars
      BY <1>1, <1>4 DEF objectVars, executorVars, ObjectsTypeOK
<1>5. ASSUME NEW p \in Pid, ObjectStep(p) \/ (Background(p) /\ NoObject)
      PROVE  /\ insn' \in [Pid -> S!SyncInsn \cup I!IpcInsn \cup {None}]
             /\ exitCode' \in [Pid -> {None, 0, S!SyncErrorCode, I!IpcErrorCode}]
             /\ mix' = mix
  <2>1. mix' = mix
        BY <1>5 DEF ObjectStep, NoObject
  <2>2. S!SyncInsn \in {S!SyncInsn, I!IpcInsn} /\ I!IpcInsn \in {S!SyncInsn, I!IpcInsn}
        OBVIOUS
  <2>3. /\ S!SyncErrorCode \in {S!SyncErrorCode, I!IpcErrorCode}
        /\ I!IpcErrorCode \in {S!SyncErrorCode, I!IpcErrorCode}
        OBVIOUS
  <2>4. QED BY <1>2, <1>3, <1>5, <2>1, <2>2, <2>3, SyncElsewhere, IpcElsewhere, Zenon
            DEF ObjectStep
<1>6. mix \in Mixes
      BY <1>1 DEF ObjectsTypeOK
<1>7. QED BY <1>1, <1>4, <1>5, <1>6, Zenon DEF ObjectsNext

-----------------------------------------------------------------------------
(***************************************************************************)
(* The steps, seen by the semaphores                                       *)
(***************************************************************************)
OnSync == INSTANCE Sync WITH insn <- syncInsn, exitCode <- syncCode

LEMMA SyncExecuting ==
  ASSUME ObjectsTypeOK, NEW p \in Pid, NEW i, S!Executing(p, i)
  PROVE  /\ i \in S!SyncInsn => OnSync!Executing(p, i)
         /\ i \in S!SyncInsn => current = p /\ ipcInsn[p] = None
BY Kinds DEF ObjectsTypeOK, S!Executing, OnSync!Executing, syncInsn, ipcInsn, Only

LEMMA SyncComplete ==
  ASSUME ObjectsTypeOK, NEW p \in Pid, NEW W, S!Complete(p, W)
  PROVE  OnSync!Complete(p, W)
<1>1. Complete(p, W)
      BY DEF S!Complete, Complete, S!Wake, Wake, S!WakeAll, WakeAll
<1>2. /\ syncInsn' = [syncInsn EXCEPT ![p] = None] /\ syncCode' = syncCode
      BY <1>1, ViewOfComplete, Kinds DEF syncInsn, syncCode
<1>3. QED BY <1>1, <1>2 DEF Complete, Wake, WakeAll, OnSync!Complete, OnSync!Wake, OnSync!WakeAll

LEMMA SyncBlockIn ==
  ASSUME ObjectsTypeOK, NEW p \in Pid, NEW i \in S!SyncInsn, S!BlockIn(p, i)
  PROVE  OnSync!BlockIn(p, i)
<1>1. BlockIn(p, i)
      BY DEF S!BlockIn, BlockIn, S!Leave, Leave
<1>2. /\ syncInsn' = [syncInsn EXCEPT ![p] = i] /\ syncCode' = syncCode
      BY <1>1, ViewOfBlockIn, Kinds DEF syncInsn, syncCode
<1>3. QED BY <1>1, <1>2 DEF BlockIn, Leave, OnSync!BlockIn, OnSync!Leave

LEMMA SyncExit ==
  ASSUME ObjectsTypeOK, NEW p \in Pid, S!ExitWith(p, S!SyncErrorCode)
  PROVE  OnSync!ExitWith(p, OnSync!SyncErrorCode)
<1>1. ExitWith(p, 4)
      BY DEF S!ExitWith, ExitWith, S!Leave, Leave, S!SyncErrorCode
<1>2. syncInsn' = [syncInsn EXCEPT ![p] = None]
      BY <1>1, ViewOfExit, Kinds DEF syncInsn
<1>3. syncCode' = [syncCode EXCEPT ![p] = 4]
  <2>1. 4 # I!IpcErrorCode
        BY DEF I!IpcErrorCode
  <2>2. \A c : 4 # c => Codes(c)' = [Codes(c) EXCEPT ![p] = 4]
        BY <1>1, ViewOfExit, Kinds
  <2>3. QED BY <2>1, <2>2, Zenon DEF syncCode
<1>4. QED BY <1>1, <1>2, <1>3
          DEF ExitWith, Leave, OnSync!ExitWith, OnSync!Leave, OnSync!SyncErrorCode

LEMMA SyncCount == ASSUME NEW X PROVE OnSync!Cardinality(X) = S!Cardinality(X)
BY DEF OnSync!Cardinality, S!Cardinality

LEMMA SyncObjects ==
  ASSUME NEW op, NEW s, NEW p
  PROVE  /\ OnSync!Opened(op, s) = S!Opened(op, s)
         /\ OnSync!CanOpen(op, s) <=> S!CanOpen(op, s)
         /\ OnSync!MayPost(p, s) <=> S!MayPost(p, s)
         /\ OnSync!PostBounded(s) <=> S!PostBounded(s)
<1>1. OnSync!InTable = S!InTable
      BY DEF OnSync!InTable, S!InTable
<1>2. OnSync!Opened(op, s) = S!Opened(op, s)
      BY <1>1 DEF OnSync!Opened, S!Opened, OnSync!Created, S!Created
<1>3. OnSync!CanOpen(op, s) <=> S!CanOpen(op, s)
      BY <1>1, SyncCount DEF OnSync!CanOpen, S!CanOpen
<1>4. OnSync!MayPost(p, s) <=> S!MayPost(p, s)
      BY <1>1 DEF OnSync!MayPost, S!MayPost
<1>5. OnSync!PostBounded(s) <=> S!PostBounded(s)
      BY DEF OnSync!PostBounded, S!PostBounded
<1>6. QED BY <1>2, <1>3, <1>4, <1>5

LEMMA SyncWithGrant ==
  ASSUME NEW grants, NEW p
  PROVE  OnSync!WithGrant(grants, p) = S!WithGrant(grants, p)
BY SyncCount DEF OnSync!WithGrant, S!WithGrant

LEMMA SyncWait ==
  ASSUME ObjectsTypeOK, NEW p \in Pid, NEW op \in S!WaitOps, NEW s \in SemId, S!WaitStep(p, op, s)
  PROVE  OnSync!WaitStep(p, op, s)
<1> DEFINE i == [op |-> op, id |-> s]
<1>1. i \in S!SyncInsn
      BY DEF S!SyncInsn
<1>2. S!Waits(p, op, s) => OnSync!Waits(p, op, s)
      BY <1>1, SyncExecuting, SyncObjects DEF S!Waits, OnSync!Waits
<1>3. S!Contends(p, op, s) => OnSync!Contends(p, op, s)
      BY <1>2, SyncObjects DEF S!Contends, OnSync!Contends
<1>4. CASE S!WaitRefused(p, op, s)
  <2>1. OnSync!WaitRefused(p, op, s)
        BY <1>1, <1>4, SyncExecuting, SyncObjects, SyncExit
        DEF S!WaitRefused, OnSync!WaitRefused, S!syncVars, OnSync!syncVars
  <2>2. QED BY <2>1 DEF OnSync!WaitStep
<1>5. CASE S!WaitGranted(p, op, s)
  <2>1. OnSync!WaitGranted(p, op, s)
        BY <1>2, <1>5, SyncObjects, SyncComplete, Zenon DEF S!WaitGranted, OnSync!WaitGranted
  <2>2. QED BY <2>1 DEF OnSync!WaitStep
<1>6. CASE S!WaitByOwner(p, op, s)
  <2>1. OnSync!WaitByOwner(p, op, s)
        BY <1>2, <1>6, SyncObjects, SyncExit
        DEF S!WaitByOwner, OnSync!WaitByOwner, S!syncVars, OnSync!syncVars
  <2>2. QED BY <2>1 DEF OnSync!WaitStep
<1>7. CASE S!WaitBlocks(p, op, s)
  <2>1. OnSync!WaitBlocks(p, op, s)
        BY <1>1, <1>3, <1>7, SyncObjects, SyncBlockIn, Zenon
        DEF S!WaitBlocks, OnSync!WaitBlocks, S!IsWaiter, OnSync!IsWaiter
  <2>2. QED BY <2>1 DEF OnSync!WaitStep
<1>8. CASE S!WaitOverflows(p, op, s)
  <2>1. OnSync!WaitOverflows(p, op, s)
        BY <1>3, <1>8, SyncObjects, SyncExit
        DEF S!WaitOverflows, OnSync!WaitOverflows, S!IsWaiter, OnSync!IsWaiter,
            S!syncVars, OnSync!syncVars
  <2>2. QED BY <2>1 DEF OnSync!WaitStep
<1>9. CASE S!WaitTakes(p, op, s)
  <2>1. OnSync!WaitTakes(p, op, s)
        BY <1>3, <1>9, SyncObjects, SyncComplete, Zenon DEF S!WaitTakes, OnSync!WaitTakes
  <2>2. QED BY <2>1 DEF OnSync!WaitStep
<1>10. QED BY <1>4, <1>5, <1>6, <1>7, <1>8, <1>9 DEF S!WaitStep

LEMMA SyncPost ==
  ASSUME ObjectsTypeOK, NEW p \in Pid, NEW op \in S!PostOps, NEW s \in SemId, S!PostStep(p, op, s)
  PROVE  OnSync!PostStep(p, op, s)
<1> DEFINE i == [op |-> op, id |-> s]
<1>1. i \in S!SyncInsn
      BY DEF S!SyncInsn
<1>2. S!Executing(p, i) => OnSync!Executing(p, i)
      BY <1>1, SyncExecuting
<1>3. CASE S!PostRefused(p, op, s)
  <2>1. OnSync!PostRefused(p, op, s)
        BY <1>2, <1>3, SyncObjects, SyncExit
        DEF S!PostRefused, OnSync!PostRefused, S!syncVars, OnSync!syncVars
  <2>2. QED BY <2>1 DEF OnSync!PostStep
<1>4. CASE S!PostHandsOver(p, op, s)
  <2>1. OnSync!PostHandsOver(p, op, s)
        BY <1>2, <1>4, SyncObjects, SyncComplete, SyncWithGrant, Zenon
        DEF S!PostHandsOver, OnSync!PostHandsOver
  <2>2. QED BY <2>1 DEF OnSync!PostStep
<1>5. CASE S!PostReturns(p, op, s)
  <2>1. OnSync!PostReturns(p, op, s)
        BY <1>2, <1>5, SyncObjects, SyncComplete DEF S!PostReturns, OnSync!PostReturns
  <2>2. QED BY <2>1 DEF OnSync!PostStep
<1>6. QED BY <1>3, <1>4, <1>5 DEF S!PostStep

LEMMA SyncStepSeen ==
  ASSUME ObjectsTypeOK, NEW p \in Pid, S!SyncStep(p)
  PROVE  OnSync!SyncStep(p)
BY SyncWait, SyncPost
DEF S!SyncStep, OnSync!SyncStep, S!WaitOps, S!PostOps, OnSync!WaitOps, OnSync!PostOps

LEMMA SyncOverlooks ==
  ASSUME ObjectsTypeOK, NEW p \in Pid, Elsewhere(p, I!IpcInsn, I!IpcErrorCode)
  PROVE  UNCHANGED OnSync!executorVars \/ \E r \in Pid : OnSync!Background(r)
<1>1. syncInsn[p] = None /\ Seems(p, S!SyncInsn, I!IpcErrorCode)
      BY ElsewhereView, Kinds DEF syncInsn
<1>2. CASE UNCHANGED <<state, current, syncInsn, syncCode>>
      BY <1>2 DEF OnSync!executorVars
<1>3. ASSUME NEW w \in Pid, state[w] = "BLOCKED", syncInsn[w] = None, Wake({w}),
             UNCHANGED <<syncInsn, syncCode>>
      PROVE  OnSync!Background(w)
      BY <1>3 DEF OnSync!Background, OnSync!IoDone, Wake, WakeAll, OnSync!Wake, OnSync!WakeAll
<1>4. CASE Leave(p, "BLOCKED") /\ UNCHANGED <<syncInsn, syncCode>>
  <2>1. OnSync!Background(p)
        BY <1>1, <1>4 DEF OnSync!Background, OnSync!IoStart, Leave, OnSync!Leave
  <2>2. QED BY <2>1
<1>5. CASE /\ Leave(p, "EXITED") /\ syncInsn' = [syncInsn EXCEPT ![p] = None]
           /\ syncCode' = [syncCode EXCEPT ![p] = 0]
  <2>1. OnSync!Background(p)
        BY <1>1, <1>5 DEF OnSync!Background, OnSync!ExitInsn, OnSync!ExitWith, Leave, OnSync!Leave
  <2>2. QED BY <2>1
<1>6. QED BY <1>1, <1>2, <1>3, <1>4, <1>5, Zenon DEF Seems, syncInsn, syncCode

LEMMA SyncBackground ==
  ASSUME ObjectsTypeOK, NEW p \in Pid, Background(p)
  PROVE  OnSync!Background(p)
<1>1. UNCHANGED <<insn, exitCode>> => UNCHANGED <<syncInsn, syncCode>>
      BY DEF syncInsn, syncCode, Only, Codes
<1>2. insn[p] = None => syncInsn[p] = None
      BY DEF syncInsn, Only
<1>3. CASE (Create(p) \/ Dispatch(p)) /\ UNCHANGED <<insn, exitCode>>
  <2>1. OnSync!Create(p) \/ OnSync!Dispatch(p)
        BY <1>3 DEF Create, Dispatch, OnSync!Create, OnSync!Dispatch
  <2>2. QED BY <1>1, <1>3, <2>1, Zenon DEF OnSync!Background
<1>4. CASE ExitInsn(p)
  <2>1. syncInsn' = [syncInsn EXCEPT ![p] = None]
        BY <1>4, ViewOfExit, Kinds, Zenon DEF ExitInsn, syncInsn
  <2>2. 0 # I!IpcErrorCode
        BY DEF I!IpcErrorCode
  <2>3. syncCode' = [syncCode EXCEPT ![p] = 0]
        BY <1>4, <2>2, ViewOfExit, Kinds, Zenon DEF ExitInsn, syncCode
  <2>4. OnSync!ExitInsn(p)
        BY <1>2, <1>4, <2>1, <2>3
        DEF ExitInsn, ExitWith, Leave, OnSync!ExitInsn, OnSync!ExitWith, OnSync!Leave
  <2>5. QED BY <2>4, Zenon DEF OnSync!Background
<1>5. CASE CpuPreempted(p) \/ IoStart(p) \/ IoDone(p)
  <2>1. UNCHANGED <<syncInsn, syncCode>> /\ insn[p] = None
        BY <1>1, <1>5, Zenon DEF CpuPreempted, IoStart, IoDone
  <2>2. OnSync!CpuPreempted(p) \/ OnSync!IoStart(p) \/ OnSync!IoDone(p)
        BY <1>2, <1>5, <2>1
        DEF CpuPreempted, IoStart, IoDone, Leave, Wake, WakeAll, OnSync!CpuPreempted,
            OnSync!IoStart, OnSync!IoDone, OnSync!Leave, OnSync!Wake, OnSync!WakeAll
  <2>3. QED BY <2>2, Zenon DEF OnSync!Background
<1>6. QED BY <1>3, <1>4, <1>5, Zenon DEF Background

LEMMA SyncSeesStep ==
  ASSUME ObjectsSound, [ObjectsNext]_objectVars
  PROVE  [OnSync!SyncNext]_(OnSync!vars)
<1>1. mix.pids \subseteq Pid
      BY MixesAssumption DEF ObjectsSound, ObjectsTypeOK
<1>2. ObjectsTypeOK
      BY DEF ObjectsSound
<1>3. CASE UNCHANGED objectVars
      BY <1>3 DEF objectVars, executorVars, syncVars, OnSync!vars, OnSync!executorVars,
                  OnSync!syncVars, syncInsn, syncCode, Only, Codes
<1>4. ASSUME NEW p \in Pid, S!SyncStep(p) PROVE OnSync!SyncNext
      BY <1>2, <1>4, SyncStepSeen, Zenon DEF OnSync!SyncNext, OnSync!QuietNext
<1>5. ASSUME NEW p \in Pid, I!IpcStep(p), UNCHANGED syncVars
      PROVE  [OnSync!SyncNext]_(OnSync!vars)
  <2>1. UNCHANGED OnSync!syncVars
        BY <1>5 DEF syncVars, OnSync!syncVars
  <2>2. UNCHANGED OnSync!executorVars \/ \E r \in Pid : OnSync!Background(r)
        BY <1>2, <1>5, IpcElsewhere, SyncOverlooks, Zenon
  <2>3. QED BY <2>1, <2>2, Zenon DEF OnSync!SyncNext, OnSync!QuietNext, OnSync!vars
<1>6. ASSUME NEW p \in Pid, Background(p), NoObject PROVE OnSync!SyncNext
  <2>1. UNCHANGED OnSync!syncVars
        BY <1>6 DEF NoObject, syncVars, OnSync!syncVars
  <2>2. QED BY <1>2, <1>6, <2>1, SyncBackground, Zenon DEF OnSync!SyncNext, OnSync!QuietNext
<1>7. CASE ObjectsNext
      BY <1>1, <1>4, <1>5, <1>6, <1>7, Zenon DEF ObjectsNext, ObjectStep
<1>8. QED BY <1>3, <1>7, Zenon

LEMMA SyncInitSeen == ASSUME ObjectsInit PROVE OnSync!SyncInit
<1>1. /\ state = [p \in Pid |-> "UNUSED"] /\ current = None
      /\ insn = [p \in Pid |-> None] /\ exitCode = [p \in Pid |-> None]
      BY DEF ObjectsInit, S!SyncInit, S!ExecutorInit, S!LifecycleInit
<1>2. syncInsn = [p \in Pid |-> None] /\ syncCode = [p \in Pid |-> None]
      BY <1>1, ObjectsAssumption DEF syncInsn, syncCode, Only, Codes
<1>3. QED BY <1>1, <1>2
          DEF ObjectsInit, S!SyncInit, S!Unused, OnSync!SyncInit,
              OnSync!ExecutorInit, OnSync!LifecycleInit, OnSync!Unused

\* What the semaphores know of a process is what the process does.
LEMMA SyncReal ==
  ASSUME sem \in [SemId -> S!SemObject]
  PROVE  /\ OnSync!WaitersAsleep => S!WaitersAsleep
         /\ OnSync!WaitersInPlace => S!WaitersInPlace
         /\ OnSync!SleepersRegistered => S!SleepersRegistered
<1>1. \A p \in Pid, s \in SemId :
        /\ syncInsn[p] \in [op : OnSync!WaitOps, id : {s}] <=>
             insn[p] \in [op : S!WaitOps, id : {s}]
        /\ syncInsn[p] = [op |-> "SEM_WAIT", id |-> s] <=> insn[p] = [op |-> "SEM_WAIT", id |-> s]
  <2> SUFFICES ASSUME NEW p \in Pid, NEW s \in SemId
               PROVE  \A i \in [op : S!WaitOps, id : {s}] : syncInsn[p] = i <=> insn[p] = i
      BY DEF S!WaitOps, OnSync!WaitOps
  <2>1. [op : S!WaitOps, id : {s}] \subseteq S!SyncInsn
        BY DEF S!SyncInsn
  <2>2. QED BY <2>1, Kinds DEF syncInsn, Only
<1>2. ASSUME NEW s \in SemId
      PROVE  /\ \A i \in DOMAIN sem[s].waiters : sem[s].waiters[i] \in Pid
             /\ sem[s].grants \subseteq Pid
      BY DEF S!SemObject
<1>3. ASSUME OnSync!WaitersAsleep PROVE S!WaitersAsleep
  <2> SUFFICES ASSUME NEW s \in SemId, NEW i \in DOMAIN sem[s].waiters,
                      state[sem[s].waiters[i]] # "EXITED"
               PROVE  /\ state[sem[s].waiters[i]] = "BLOCKED"
                      /\ insn[sem[s].waiters[i]] \in [op : S!WaitOps, id : {s}]
      BY Zenon DEF S!WaitersAsleep
  <2>1. /\ state[sem[s].waiters[i]] = "BLOCKED"
        /\ syncInsn[sem[s].waiters[i]] \in [op : OnSync!WaitOps, id : {s}]
        BY <1>3, Zenon DEF OnSync!WaitersAsleep
  <2>2. QED BY <1>1, <1>2, <2>1, Zenon
<1>4. OnSync!GrantsAwake => S!GrantsAwake
      BY <1>1, <1>2, Zenon DEF OnSync!GrantsAwake, S!GrantsAwake
<1>5. OnSync!SleepersRegistered => S!SleepersRegistered
      BY <1>1, SyncCount, Zenon DEF OnSync!SleepersRegistered, S!SleepersRegistered
<1>6. QED BY <1>3, <1>4, <1>5, Zenon DEF OnSync!WaitersInPlace, S!WaitersInPlace

-----------------------------------------------------------------------------
(***************************************************************************)
(* The steps, seen by the queues                                           *)
(***************************************************************************)
OnIpc == INSTANCE Ipc WITH insn <- ipcInsn, exitCode <- ipcCode

LEMMA IpcExecuting ==
  ASSUME ObjectsTypeOK, NEW p \in Pid, NEW i, I!Executing(p, i)
  PROVE  /\ i \in I!IpcInsn => OnIpc!Executing(p, i)
         /\ i \in I!IpcInsn => current = p /\ syncInsn[p] = None
BY Kinds DEF ObjectsTypeOK, I!Executing, OnIpc!Executing, syncInsn, ipcInsn, Only

LEMMA IpcComplete ==
  ASSUME ObjectsTypeOK, NEW p \in Pid, NEW W, I!Complete(p, W)
  PROVE  OnIpc!Complete(p, W)
<1>1. Complete(p, W)
      BY DEF I!Complete, Complete, I!Wake, Wake, I!WakeAll, WakeAll
<1>2. /\ ipcInsn' = [ipcInsn EXCEPT ![p] = None] /\ ipcCode' = ipcCode
      BY <1>1, ViewOfComplete, Kinds DEF ipcInsn, ipcCode
<1>3. QED BY <1>1, <1>2 DEF Complete, Wake, WakeAll, OnIpc!Complete, OnIpc!Wake, OnIpc!WakeAll

LEMMA IpcBlockIn ==
  ASSUME ObjectsTypeOK, NEW p \in Pid, NEW i \in I!IpcInsn, I!BlockIn(p, i)
  PROVE  OnIpc!BlockIn(p, i)
<1>1. BlockIn(p, i)
      BY DEF I!BlockIn, BlockIn, I!Leave, Leave
<1>2. /\ ipcInsn' = [ipcInsn EXCEPT ![p] = i] /\ ipcCode' = ipcCode
      BY <1>1, ViewOfBlockIn, Kinds DEF ipcInsn, ipcCode
<1>3. QED BY <1>1, <1>2 DEF BlockIn, Leave, OnIpc!BlockIn, OnIpc!Leave

LEMMA IpcExit ==
  ASSUME ObjectsTypeOK, NEW p \in Pid, I!ExitWith(p, I!IpcErrorCode)
  PROVE  OnIpc!ExitWith(p, OnIpc!IpcErrorCode)
<1>1. ExitWith(p, 3)
      BY DEF I!ExitWith, ExitWith, I!Leave, Leave, I!IpcErrorCode
<1>2. ipcInsn' = [ipcInsn EXCEPT ![p] = None]
      BY <1>1, ViewOfExit, Kinds DEF ipcInsn
<1>3. ipcCode' = [ipcCode EXCEPT ![p] = 3]
  <2>1. 3 # S!SyncErrorCode
        BY DEF S!SyncErrorCode
  <2>2. \A c : 3 # c => Codes(c)' = [Codes(c) EXCEPT ![p] = 3]
        BY <1>1, ViewOfExit, Kinds
  <2>3. QED BY <2>1, <2>2, Zenon DEF ipcCode
<1>4. QED BY <1>1, <1>2, <1>3
          DEF ExitWith, Leave, OnIpc!ExitWith, OnIpc!Leave, OnIpc!IpcErrorCode

LEMMA IpcCount == ASSUME NEW X PROVE OnIpc!Cardinality(X) = I!Cardinality(X)
BY DEF OnIpc!Cardinality, I!Cardinality

LEMMA IpcLists ==
  ASSUME NEW ws, NEW p
  PROVE  /\ OnIpc!WaitqAdd(ws, p) = I!WaitqAdd(ws, p)
         /\ OnIpc!WaitqRemove(ws, p) = I!WaitqRemove(ws, p)
         /\ OnIpc!WaitqRest(ws) = I!WaitqRest(ws)
         /\ OnIpc!WaitqHead(ws) = I!WaitqHead(ws)
<1>1. OnIpc!WaitqAdd(ws, p) = I!WaitqAdd(ws, p)
      BY DEF OnIpc!WaitqAdd, I!WaitqAdd, OnIpc!Range, I!Range
<1>2. OnIpc!WaitqRemove(ws, p) = I!WaitqRemove(ws, p)
      BY DEF OnIpc!WaitqRemove, I!WaitqRemove, OnIpc!Range, I!Range
<1>3. OnIpc!WaitqRest(ws) = I!WaitqRest(ws) /\ OnIpc!WaitqHead(ws) = I!WaitqHead(ws)
      BY DEF OnIpc!WaitqRest, I!WaitqRest, OnIpc!WaitqHead, I!WaitqHead
<1>4. QED BY <1>1, <1>2, <1>3

LEMMA IpcQueues ==
  ASSUME NEW p, NEW q
  PROVE  /\ OnIpc!Opened(q) = I!Opened(q)
         /\ OnIpc!CanOpen(q) <=> I!CanOpen(q)
         /\ OnIpc!GrantsOf(p, q) = I!GrantsOf(p, q)
         /\ OnIpc!MustWait(p, q) <=> I!MustWait(p, q)
         /\ OnIpc!Send(q) = I!Send(q) /\ OnIpc!Recv(q) = I!Recv(q)
<1>1. OnIpc!Opened(q) = I!Opened(q)
      BY DEF OnIpc!Opened, I!Opened
<1>2. OnIpc!CanOpen(q) <=> I!CanOpen(q)
      BY IpcCount DEF OnIpc!CanOpen, I!CanOpen
<1>3. OnIpc!GrantsOf(p, q) = I!GrantsOf(p, q)
      BY DEF OnIpc!GrantsOf, I!GrantsOf
<1>4. OnIpc!MustWait(p, q) <=> I!MustWait(p, q)
      BY DEF OnIpc!MustWait, I!MustWait
<1>5. OnIpc!Send(q) = I!Send(q) /\ OnIpc!Recv(q) = I!Recv(q)
      BY DEF OnIpc!Send, I!Send, OnIpc!Recv, I!Recv
<1>6. QED BY <1>1, <1>2, <1>3, <1>4, <1>5

LEMMA IpcSends ==
  ASSUME ObjectsTypeOK, NEW p \in Pid, NEW q \in QueueId
  PROVE  /\ I!Sends(p, q) => OnIpc!Sends(p, q)
         /\ I!Recvs(p, q) => OnIpc!Recvs(p, q)
<1>1. I!Send(q) \in I!IpcInsn /\ I!Recv(q) \in I!IpcInsn
      BY DEF I!Send, I!Recv, I!IpcInsn
<1>2. I!Executing(p, I!Send(q)) => OnIpc!Executing(p, OnIpc!Send(q))
      BY <1>1, IpcExecuting, IpcQueues, Zenon
<1>3. I!Executing(p, I!Recv(q)) => OnIpc!Executing(p, OnIpc!Recv(q))
      BY <1>1, IpcExecuting, IpcQueues, Zenon
<1>4. \A r \in Pid : insn[r] = I!Send(q) <=> ipcInsn[r] = OnIpc!Send(q)
      BY <1>1, IpcQueues, Kinds DEF ObjectsTypeOK, ipcInsn, Only
<1>5. I!SendBounded(p, q) => OnIpc!SendBounded(p, q)
  <2>1. {r \in Pid : insn[r] = I!Send(q)} = {r \in Pid : ipcInsn[r] = OnIpc!Send(q)}
        BY <1>4
  <2>2. QED BY <1>4, <2>1, IpcCount DEF I!SendBounded, OnIpc!SendBounded
<1>6. I!Sends(p, q) => OnIpc!Sends(p, q)
      BY <1>2, <1>5, IpcQueues, Zenon DEF I!Sends, OnIpc!Sends
<1>7. I!Recvs(p, q) => OnIpc!Recvs(p, q)
      BY <1>3, IpcQueues, Zenon DEF I!Recvs, OnIpc!Recvs
<1>8. QED BY <1>6, <1>7

LEMMA IpcReceived ==
  ASSUME ObjectsTypeOK, NEW p \in Pid, NEW q, NEW m, NEW k, I!Received(p, q, m, k)
  PROVE  OnIpc!Received(p, q, m, k)
BY IpcComplete, IpcLists, Zenon DEF I!Received, OnIpc!Received

LEMMA IpcSendSeen ==
  ASSUME ObjectsTypeOK, NEW p \in Pid, NEW q \in QueueId
  PROVE  /\ I!SendHandsOver(p, q) => OnIpc!SendHandsOver(p, q)
         /\ I!SendGrantsFull(p, q) => OnIpc!SendGrantsFull(p, q)
         /\ I!SendBlocks(p, q) => OnIpc!SendBlocks(p, q)
         /\ I!SendQueues(p, q) => OnIpc!SendQueues(p, q)
<1>1. I!SendHandsOver(p, q) => OnIpc!SendHandsOver(p, q)
      BY IpcSends, IpcQueues, IpcComplete, IpcCount, Zenon DEF I!SendHandsOver, OnIpc!SendHandsOver
<1>2. I!SendGrantsFull(p, q) => OnIpc!SendGrantsFull(p, q)
      BY IpcSends, IpcExit, IpcCount, Zenon
      DEF I!SendGrantsFull, OnIpc!SendGrantsFull, I!ipcVars, OnIpc!ipcVars
<1>3. I!SendBlocks(p, q) => OnIpc!SendBlocks(p, q)
  <2>1. I!Send(q) \in I!IpcInsn
        BY DEF I!Send, I!IpcInsn
  <2>2. I!BlockIn(p, I!Send(q)) => OnIpc!BlockIn(p, OnIpc!Send(q))
        BY <2>1, IpcBlockIn, IpcQueues, Zenon
  <2>3. QED BY <2>2, IpcSends, IpcQueues, IpcLists, Zenon DEF I!SendBlocks, OnIpc!SendBlocks
<1>4. I!SendQueues(p, q) => OnIpc!SendQueues(p, q)
      BY IpcSends, IpcQueues, IpcComplete, Zenon DEF I!SendQueues, OnIpc!SendQueues
<1>5. QED BY <1>1, <1>2, <1>3, <1>4, Zenon

LEMMA IpcRecvSeen ==
  ASSUME ObjectsTypeOK, NEW p \in Pid, NEW q \in QueueId
  PROVE  /\ I!RecvGranted(p, q) => OnIpc!RecvGranted(p, q)
         /\ I!RecvBlocks(p, q) => OnIpc!RecvBlocks(p, q)
         /\ I!RecvDequeues(p, q) => OnIpc!RecvDequeues(p, q)
<1>1. I!RecvGranted(p, q) => OnIpc!RecvGranted(p, q)
      BY IpcSends, IpcQueues, IpcReceived, IpcLists, Zenon DEF I!RecvGranted, OnIpc!RecvGranted
<1>2. I!RecvBlocks(p, q) => OnIpc!RecvBlocks(p, q)
  <2>1. I!Recv(q) \in I!IpcInsn
        BY DEF I!Recv, I!IpcInsn
  <2>2. I!BlockIn(p, I!Recv(q)) => OnIpc!BlockIn(p, OnIpc!Recv(q))
        BY <2>1, IpcBlockIn, IpcQueues, Zenon
  <2>3. QED BY <2>2, IpcSends, IpcQueues, IpcLists, Zenon DEF I!RecvBlocks, OnIpc!RecvBlocks
<1>3. I!RecvDequeues(p, q) => OnIpc!RecvDequeues(p, q)
      BY IpcSends, IpcQueues, IpcReceived, Zenon DEF I!RecvDequeues, OnIpc!RecvDequeues
<1>4. QED BY <1>1, <1>2, <1>3, Zenon

LEMMA IpcStepSeen ==
  ASSUME ObjectsTypeOK, NEW p \in Pid, I!IpcStep(p)
  PROVE  OnIpc!IpcStep(p)
<1>1. ASSUME NEW op \in {"SEND", "RECV"}, NEW q \in QueueId, I!IpcRefused(p, op, q)
      PROVE  OnIpc!IpcRefused(p, op, q)
  <2>1. [op |-> op, id |-> q] \in I!IpcInsn
        BY DEF I!IpcInsn
  <2>2. QED BY <1>1, <2>1, IpcExecuting, IpcQueues, IpcExit, Zenon
            DEF I!IpcRefused, OnIpc!IpcRefused, I!ipcVars, OnIpc!ipcVars
<1>2. QED BY <1>1, IpcSendSeen, IpcRecvSeen, Zenon DEF I!IpcStep, OnIpc!IpcStep

LEMMA IpcOverlooks ==
  ASSUME ObjectsTypeOK, NEW p \in Pid, Elsewhere(p, S!SyncInsn, S!SyncErrorCode)
  PROVE  UNCHANGED OnIpc!executorVars \/ \E r \in Pid : OnIpc!Background(r)
<1>1. ipcInsn[p] = None /\ Seems(p, I!IpcInsn, S!SyncErrorCode)
      BY ElsewhereView, Kinds DEF ipcInsn
<1>2. CASE UNCHANGED <<state, current, ipcInsn, ipcCode>>
      BY <1>2 DEF OnIpc!executorVars
<1>3. ASSUME NEW w \in Pid, state[w] = "BLOCKED", ipcInsn[w] = None, Wake({w}),
             UNCHANGED <<ipcInsn, ipcCode>>
      PROVE  OnIpc!Background(w)
      BY <1>3 DEF OnIpc!Background, OnIpc!IoDone, Wake, WakeAll, OnIpc!Wake, OnIpc!WakeAll
<1>4. CASE Leave(p, "BLOCKED") /\ UNCHANGED <<ipcInsn, ipcCode>>
  <2>1. OnIpc!Background(p)
        BY <1>1, <1>4 DEF OnIpc!Background, OnIpc!IoStart, Leave, OnIpc!Leave
  <2>2. QED BY <2>1
<1>5. CASE /\ Leave(p, "EXITED") /\ ipcInsn' = [ipcInsn EXCEPT ![p] = None]
           /\ ipcCode' = [ipcCode EXCEPT ![p] = 0]
  <2>1. OnIpc!Background(p)
        BY <1>1, <1>5 DEF OnIpc!Background, OnIpc!ExitInsn, OnIpc!ExitWith, Leave, OnIpc!Leave
  <2>2. QED BY <2>1
<1>6. QED BY <1>1, <1>2, <1>3, <1>4, <1>5, Zenon DEF Seems, ipcInsn, ipcCode

LEMMA IpcBackground ==
  ASSUME ObjectsTypeOK, NEW p \in Pid, Background(p)
  PROVE  OnIpc!Background(p)
<1>1. UNCHANGED <<insn, exitCode>> => UNCHANGED <<ipcInsn, ipcCode>>
      BY DEF ipcInsn, ipcCode, Only, Codes
<1>2. insn[p] = None => ipcInsn[p] = None
      BY DEF ipcInsn, Only
<1>3. CASE (Create(p) \/ Dispatch(p)) /\ UNCHANGED <<insn, exitCode>>
  <2>1. OnIpc!Create(p) \/ OnIpc!Dispatch(p)
        BY <1>3 DEF Create, Dispatch, OnIpc!Create, OnIpc!Dispatch
  <2>2. QED BY <1>1, <1>3, <2>1, Zenon DEF OnIpc!Background
<1>4. CASE ExitInsn(p)
  <2>1. ipcInsn' = [ipcInsn EXCEPT ![p] = None]
        BY <1>4, ViewOfExit, Kinds, Zenon DEF ExitInsn, ipcInsn
  <2>2. 0 # S!SyncErrorCode
        BY DEF S!SyncErrorCode
  <2>3. ipcCode' = [ipcCode EXCEPT ![p] = 0]
        BY <1>4, <2>2, ViewOfExit, Kinds, Zenon DEF ExitInsn, ipcCode
  <2>4. OnIpc!ExitInsn(p)
        BY <1>2, <1>4, <2>1, <2>3
        DEF ExitInsn, ExitWith, Leave, OnIpc!ExitInsn, OnIpc!ExitWith, OnIpc!Leave
  <2>5. QED BY <2>4, Zenon DEF OnIpc!Background
<1>5. CASE CpuPreempted(p) \/ IoStart(p) \/ IoDone(p)
  <2>1. UNCHANGED <<ipcInsn, ipcCode>> /\ insn[p] = None
        BY <1>1, <1>5, Zenon DEF CpuPreempted, IoStart, IoDone
  <2>2. OnIpc!CpuPreempted(p) \/ OnIpc!IoStart(p) \/ OnIpc!IoDone(p)
        BY <1>2, <1>5, <2>1
        DEF CpuPreempted, IoStart, IoDone, Leave, Wake, WakeAll, OnIpc!CpuPreempted,
            OnIpc!IoStart, OnIpc!IoDone, OnIpc!Leave, OnIpc!Wake, OnIpc!WakeAll
  <2>3. QED BY <2>2, Zenon DEF OnIpc!Background
<1>6. QED BY <1>3, <1>4, <1>5, Zenon DEF Background

LEMMA IpcSeesStep ==
  ASSUME ObjectsSound, [ObjectsNext]_objectVars
  PROVE  [OnIpc!QuietNext]_(OnIpc!vars)
<1>1. mix.pids \subseteq Pid
      BY MixesAssumption DEF ObjectsSound, ObjectsTypeOK
<1>2. ObjectsTypeOK
      BY DEF ObjectsSound
<1>3. CASE UNCHANGED objectVars
      BY <1>3 DEF objectVars, executorVars, ipcVars, OnIpc!vars, OnIpc!executorVars,
                  OnIpc!ipcVars, ipcInsn, ipcCode, Only, Codes
<1>4. ASSUME NEW p \in Pid, I!IpcStep(p) PROVE OnIpc!QuietNext
      BY <1>2, <1>4, IpcStepSeen, Zenon DEF OnIpc!QuietNext
<1>5. ASSUME NEW p \in Pid, S!SyncStep(p), UNCHANGED ipcVars
      PROVE  [OnIpc!QuietNext]_(OnIpc!vars)
  <2>1. UNCHANGED OnIpc!ipcVars
        BY <1>5 DEF ipcVars, OnIpc!ipcVars
  <2>2. UNCHANGED OnIpc!executorVars \/ \E r \in Pid : OnIpc!Background(r)
        BY <1>2, <1>5, SyncElsewhere, IpcOverlooks, Zenon
  <2>3. QED BY <2>1, <2>2, Zenon DEF OnIpc!QuietNext, OnIpc!vars
<1>6. ASSUME NEW p \in Pid, Background(p), NoObject PROVE OnIpc!QuietNext
  <2>1. UNCHANGED OnIpc!ipcVars
        BY <1>6 DEF NoObject, ipcVars, OnIpc!ipcVars
  <2>2. QED BY <1>2, <1>6, <2>1, IpcBackground, Zenon DEF OnIpc!QuietNext
<1>7. CASE ObjectsNext
      BY <1>1, <1>4, <1>5, <1>6, <1>7, Zenon DEF ObjectsNext, ObjectStep
<1>8. QED BY <1>3, <1>7, Zenon

LEMMA IpcInitSeen == ASSUME ObjectsInit PROVE OnIpc!IpcInit
<1>1. /\ state = [p \in Pid |-> "UNUSED"] /\ current = None
      /\ insn = [p \in Pid |-> None] /\ exitCode = [p \in Pid |-> None]
      BY DEF ObjectsInit, S!SyncInit, S!ExecutorInit, S!LifecycleInit
<1>2. ipcInsn = [p \in Pid |-> None] /\ ipcCode = [p \in Pid |-> None]
      BY <1>1, ObjectsAssumption DEF ipcInsn, ipcCode, Only, Codes
<1>3. QED BY <1>1, <1>2
          DEF ObjectsInit, I!IpcInit, I!Unused, I!Msg, OnIpc!IpcInit,
              OnIpc!ExecutorInit, OnIpc!LifecycleInit, OnIpc!Unused, OnIpc!Msg

\* What the queues know of a process is what the process does.
LEMMA IpcReal ==
  ASSUME queue \in [QueueId -> I!QueueType]
  PROVE  /\ OnIpc!WaitersAsleep => I!WaitersAsleep
         /\ OnIpc!WaitersInPlace => I!WaitersInPlace
         /\ OnIpc!SleepersRegistered => I!SleepersRegistered
         /\ OnIpc!NoLostSpace => I!NoLostSpace
<1>1. \A p \in Pid, q \in QueueId :
        /\ ipcInsn[p] = OnIpc!Send(q) <=> insn[p] = I!Send(q)
        /\ ipcInsn[p] = OnIpc!Recv(q) <=> insn[p] = I!Recv(q)
  <2> SUFFICES ASSUME NEW p \in Pid, NEW q \in QueueId
               PROVE  /\ ipcInsn[p] = I!Send(q) <=> insn[p] = I!Send(q)
                      /\ ipcInsn[p] = I!Recv(q) <=> insn[p] = I!Recv(q)
      BY IpcQueues, Zenon
  <2>1. I!Send(q) \in I!IpcInsn /\ I!Recv(q) \in I!IpcInsn
        BY DEF I!Send, I!Recv, I!IpcInsn
  <2>2. QED BY <2>1, Kinds DEF ipcInsn, Only
<1>2. ASSUME NEW q \in QueueId
      PROVE  /\ I!Range(queue[q].sendWaiters) \subseteq Pid
             /\ I!Range(queue[q].recvWaiters) \subseteq Pid
             /\ \A g \in queue[q].grants : g.pid \in Pid
  <2>1. queue[q] \in I!QueueType
        OBVIOUS
  <2>2. queue[q].sendWaiters \in Seq(Pid) /\ queue[q].recvWaiters \in Seq(Pid)
        BY <2>1 DEF I!QueueType
  <2>3. \A g \in queue[q].grants : g.pid \in Pid
        BY <2>1 DEF I!QueueType, I!Grant
  <2>4. QED BY <2>2, <2>3 DEF I!Range
<1>3. \A ws : OnIpc!Range(ws) = I!Range(ws)
      BY DEF OnIpc!Range, I!Range
<1>4. OnIpc!WaitersAsleep => I!WaitersAsleep
      BY <1>1, <1>2, <1>3, Zenon DEF OnIpc!WaitersAsleep, I!WaitersAsleep
<1>5. OnIpc!GrantsAwake => I!GrantsAwake
      BY <1>1, <1>2, IpcQueues, Zenon DEF OnIpc!GrantsAwake, I!GrantsAwake
<1>6. OnIpc!SleepersRegistered => I!SleepersRegistered
  <2>1. \A p, ws : OnIpc!Listed(p, ws) = I!Listed(p, ws)
        BY IpcCount, Zenon DEF OnIpc!Listed, I!Listed
  <2>2. QED BY <1>1, <2>1 DEF OnIpc!SleepersRegistered, I!SleepersRegistered
<1>7. OnIpc!NoLostSpace => I!NoLostSpace
  <2>1. \A q \in QueueId : OnIpc!Retrying(q) = I!Retrying(q)
        BY <1>1 DEF OnIpc!Retrying, I!Retrying
  <2>2. QED BY <2>1, IpcCount DEF OnIpc!NoLostSpace, I!NoLostSpace
<1>8. QED BY <1>4, <1>5, <1>6, <1>7, Zenon DEF OnIpc!WaitersInPlace, I!WaitersInPlace

-----------------------------------------------------------------------------
(***************************************************************************)
(* Both together                                                           *)
(***************************************************************************)
LEMMA BothSee ==
  ObjectsSpec /\ []ObjectsSound => OnSync!SyncSpec /\ OnIpc!IpcQuietSpec
<1>1. ObjectsSpec => ObjectsInit /\ [][ObjectsNext]_objectVars
      BY PTL DEF ObjectsSpec
<1>2. ObjectsInit => OnSync!SyncInit /\ OnIpc!IpcInit
      BY SyncInitSeen, IpcInitSeen
<1>3. ObjectsSound /\ [ObjectsNext]_objectVars =>
        [OnSync!SyncNext]_(OnSync!vars) /\ [OnIpc!QuietNext]_(OnIpc!vars)
      BY SyncSeesStep, IpcSeesStep
<1>4. QED BY <1>1, <1>2, <1>3, PTL DEF OnSync!SyncSpec, OnIpc!IpcQuietSpec

LEMMA BothReal ==
  ASSUME ObjectsSound
  PROVE  /\ OnSync!WaitersInPlace /\ OnIpc!WaitersInPlace => WaitersInPlace
         /\ OnSync!SleepersRegistered /\ OnIpc!SleepersRegistered => SleepersRegistered
         /\ OnIpc!NoLostSpace => NoLostSpace
BY SyncReal, IpcReal, Zenon
DEF ObjectsSound, WaitersInPlace, SleepersRegistered, NoLostSpace

-----------------------------------------------------------------------------
(***************************************************************************)
(* What is proved of Sync, of what the semaphores see                      *)
(***************************************************************************)
SyncFacts == INSTANCE SyncProofs WITH insn <- syncInsn, exitCode <- syncCode

\* OnSync and SyncFacts are instances of the same definitions.
LEMMA SameSync ==
  /\ OnSync!SyncInit => SyncFacts!SyncInit
  /\ [OnSync!SyncNext]_(OnSync!vars) => [SyncFacts!SyncNext]_(SyncFacts!vars)
  /\ SyncFacts!WaitersAsleep => OnSync!WaitersAsleep
  /\ SyncFacts!WaitersInPlace => OnSync!WaitersInPlace
  /\ SyncFacts!SleepersRegistered => OnSync!SleepersRegistered
<1>1. /\ OnSync!SyncInit = SyncFacts!SyncInit
      /\ [OnSync!SyncNext]_(OnSync!vars) = [SyncFacts!SyncNext]_(SyncFacts!vars)
      /\ SyncFacts!WaitersAsleep = OnSync!WaitersAsleep
      /\ SyncFacts!WaitersInPlace = OnSync!WaitersInPlace
      /\ SyncFacts!SleepersRegistered = OnSync!SleepersRegistered
      BY Zenon
      DEF OnSync!Alive, SyncFacts!Alive, OnSync!Background, SyncFacts!Background,
          OnSync!BlockIn, SyncFacts!BlockIn, OnSync!CanOpen, SyncFacts!CanOpen,
          OnSync!Cardinality, SyncFacts!Cardinality, OnSync!Complete, SyncFacts!Complete,
          OnSync!Contends, SyncFacts!Contends, OnSync!CpuPreempted, SyncFacts!CpuPreempted,
          OnSync!Create, SyncFacts!Create, OnSync!Created, SyncFacts!Created, OnSync!Dispatch,
          SyncFacts!Dispatch, OnSync!Executing, SyncFacts!Executing, OnSync!ExecutorInit,
          SyncFacts!ExecutorInit, OnSync!ExitInsn, SyncFacts!ExitInsn, OnSync!ExitWith,
          SyncFacts!ExitWith, OnSync!GrantsAwake, SyncFacts!GrantsAwake, OnSync!InTable,
          SyncFacts!InTable, OnSync!IoDone, SyncFacts!IoDone, OnSync!IoStart, SyncFacts!IoStart,
          OnSync!IsFiniteSet, SyncFacts!IsFiniteSet, OnSync!IsWaiter, SyncFacts!IsWaiter,
          OnSync!Kill, SyncFacts!Kill, OnSync!KillCommand, SyncFacts!KillCommand,
          OnSync!KillStep, SyncFacts!KillStep, OnSync!KilledCode, SyncFacts!KilledCode,
          OnSync!Leave, SyncFacts!Leave, OnSync!LifecycleInit, SyncFacts!LifecycleInit,
          OnSync!MayPost, SyncFacts!MayPost, OnSync!Opened, SyncFacts!Opened,
          OnSync!PostBounded, SyncFacts!PostBounded, OnSync!PostHandsOver,
          SyncFacts!PostHandsOver, OnSync!PostOps, SyncFacts!PostOps, OnSync!PostRefused,
          SyncFacts!PostRefused, OnSync!PostReturns, SyncFacts!PostReturns, OnSync!PostStep,
          SyncFacts!PostStep, OnSync!QuietNext, SyncFacts!QuietNext, OnSync!SleepersRegistered,
          SyncFacts!SleepersRegistered, OnSync!SyncErrorCode, SyncFacts!SyncErrorCode,
          OnSync!SyncInit, SyncFacts!SyncInit, OnSync!SyncNext, SyncFacts!SyncNext,
          OnSync!SyncStep, SyncFacts!SyncStep, OnSync!Unused, SyncFacts!Unused,
          OnSync!WaitBlocks, SyncFacts!WaitBlocks, OnSync!WaitByOwner, SyncFacts!WaitByOwner,
          OnSync!WaitGranted, SyncFacts!WaitGranted, OnSync!WaitOps, SyncFacts!WaitOps,
          OnSync!WaitOverflows, SyncFacts!WaitOverflows, OnSync!WaitRefused,
          SyncFacts!WaitRefused, OnSync!WaitStep, SyncFacts!WaitStep, OnSync!WaitTakes,
          SyncFacts!WaitTakes, OnSync!WaitersAsleep, SyncFacts!WaitersAsleep,
          OnSync!WaitersInPlace, SyncFacts!WaitersInPlace, OnSync!Waits, SyncFacts!Waits,
          OnSync!Wake, SyncFacts!Wake, OnSync!WakeAll, SyncFacts!WakeAll, OnSync!WithGrant,
          SyncFacts!WithGrant, OnSync!executorVars, SyncFacts!executorVars,
          OnSync!lifecycleVars, SyncFacts!lifecycleVars, OnSync!syncVars, SyncFacts!syncVars,
          OnSync!vars, SyncFacts!vars
<1>2. QED BY <1>1, Zenon

LEMMA SyncConstants ==
  /\ None \notin SyncFacts!SyncInsn
  /\ MaxSems \in Nat \ {0} /\ MaxWaiters \in Nat \ {0} /\ MaxSurplus \in Nat
  /\ SyncFacts!IsFiniteSet(Pid)
  /\ None \notin Pid
<1>1. None \notin SyncFacts!SyncInsn
      BY ObjectsAssumption DEF S!SyncInsn, SyncFacts!SyncInsn, S!WaitOps, S!PostOps,
                               SyncFacts!WaitOps, SyncFacts!PostOps
<1>2. SyncFacts!IsFiniteSet(Pid)
      BY ObjectsAssumption DEF IsFiniteSet, SyncFacts!IsFiniteSet
<1>3. QED BY <1>1, <1>2, ObjectsAssumption, NoneAssumption

LEMMA SyncInvSound ==
  ASSUME SyncFacts!SyncInv
  PROVE  sem \in [SemId -> S!SemObject] /\ S!WaitersAsleep
<1>1. sem \in [SemId -> S!SemObject] /\ SyncFacts!WaitersAsleep
      BY DEF SyncFacts!SyncInv, SyncFacts!SyncTypeOK, SyncFacts!UserInv,
             SyncFacts!SemObject, S!SemObject
<1>2. QED BY <1>1, SameSync, SyncReal

LEMMA SyncInvInit == ASSUME ObjectsInit PROVE SyncFacts!SyncInv
BY SyncInitSeen, SameSync, SyncFacts!SyncInitInv, SyncConstants

LEMMA SyncInvNext ==
  ASSUME ObjectsSound, SyncFacts!SyncInv, [ObjectsNext]_objectVars
  PROVE  SyncFacts!SyncInv' /\ state' \in [Pid -> States]
<1>1. SyncFacts!SyncInv'
      BY SyncSeesStep, SameSync, SyncFacts!SyncNextInv, SyncConstants, Zenon
<1>2. QED BY <1>1 DEF SyncFacts!SyncInv, SyncFacts!SyncTypeOK, SyncFacts!LifecycleTypeOK,
                      SyncFacts!States, States

LEMMA SyncViewIsSound ==
  OnSync!SyncSpec => []OnSync!WaitersInPlace /\ []OnSync!SleepersRegistered
<1>1. OnSync!SyncSpec => SyncFacts!SyncSpec
      BY SameSync, PTL DEF OnSync!SyncSpec, SyncFacts!SyncSpec
<1>2. QED BY <1>1, SyncFacts!ListsAreCurrent, SyncFacts!NoSleeperIsLost, SyncConstants,
             SameSync, PTL

-----------------------------------------------------------------------------
(***************************************************************************)
(* What is proved of Ipc, of what the queues see                           *)
(***************************************************************************)
IpcFacts == INSTANCE ChannelProofs WITH insn <- ipcInsn, exitCode <- ipcCode

\* OnIpc and IpcFacts are instances of the same definitions.
LEMMA SameIpc ==
  /\ OnIpc!IpcInit => IpcFacts!IpcInit
  /\ [OnIpc!QuietNext]_(OnIpc!vars) => [IpcFacts!QuietNext]_(IpcFacts!vars)
  /\ IpcFacts!WaitersAsleep => OnIpc!WaitersAsleep
  /\ IpcFacts!WaitersInPlace => OnIpc!WaitersInPlace
  /\ IpcFacts!SleepersRegistered => OnIpc!SleepersRegistered
  /\ IpcFacts!NoLostSpace => OnIpc!NoLostSpace
<1>1. /\ OnIpc!IpcInit = IpcFacts!IpcInit
      /\ [OnIpc!QuietNext]_(OnIpc!vars) = [IpcFacts!QuietNext]_(IpcFacts!vars)
      /\ IpcFacts!WaitersAsleep = OnIpc!WaitersAsleep
      /\ IpcFacts!WaitersInPlace = OnIpc!WaitersInPlace
      /\ IpcFacts!SleepersRegistered = OnIpc!SleepersRegistered
      /\ IpcFacts!NoLostSpace = OnIpc!NoLostSpace
      BY Zenon
      DEF OnIpc!Alive, IpcFacts!Alive, OnIpc!Background, IpcFacts!Background, OnIpc!BlockIn,
          IpcFacts!BlockIn, OnIpc!CanOpen, IpcFacts!CanOpen, OnIpc!Cardinality,
          IpcFacts!Cardinality, OnIpc!Complete, IpcFacts!Complete, OnIpc!CpuPreempted,
          IpcFacts!CpuPreempted, OnIpc!Create, IpcFacts!Create, OnIpc!Dispatch,
          IpcFacts!Dispatch, OnIpc!Executing, IpcFacts!Executing, OnIpc!ExecutorInit,
          IpcFacts!ExecutorInit, OnIpc!ExitInsn, IpcFacts!ExitInsn, OnIpc!ExitWith,
          IpcFacts!ExitWith, OnIpc!GrantsAwake, IpcFacts!GrantsAwake, OnIpc!GrantsOf,
          IpcFacts!GrantsOf, OnIpc!IoDone, IpcFacts!IoDone, OnIpc!IoStart, IpcFacts!IoStart,
          OnIpc!IpcErrorCode, IpcFacts!IpcErrorCode, OnIpc!IpcInit, IpcFacts!IpcInit,
          OnIpc!IpcRefused, IpcFacts!IpcRefused, OnIpc!IpcStep, IpcFacts!IpcStep,
          OnIpc!IsFiniteSet, IpcFacts!IsFiniteSet, OnIpc!Leave, IpcFacts!Leave,
          OnIpc!LifecycleInit, IpcFacts!LifecycleInit, OnIpc!Listed, IpcFacts!Listed, OnIpc!Msg,
          IpcFacts!Msg, OnIpc!MustWait, IpcFacts!MustWait, OnIpc!NoLostSpace,
          IpcFacts!NoLostSpace, OnIpc!Opened, IpcFacts!Opened, OnIpc!QuietNext,
          IpcFacts!QuietNext, OnIpc!Range, IpcFacts!Range, OnIpc!Received, IpcFacts!Received,
          OnIpc!Recv, IpcFacts!Recv, OnIpc!RecvBlocks, IpcFacts!RecvBlocks, OnIpc!RecvDequeues,
          IpcFacts!RecvDequeues, OnIpc!RecvGranted, IpcFacts!RecvGranted, OnIpc!Recvs,
          IpcFacts!Recvs, OnIpc!Retrying, IpcFacts!Retrying, OnIpc!Send, IpcFacts!Send,
          OnIpc!SendBlocks, IpcFacts!SendBlocks, OnIpc!SendBounded, IpcFacts!SendBounded,
          OnIpc!SendGrantsFull, IpcFacts!SendGrantsFull, OnIpc!SendHandsOver,
          IpcFacts!SendHandsOver, OnIpc!SendQueues, IpcFacts!SendQueues, OnIpc!Sends,
          IpcFacts!Sends, OnIpc!SleepersRegistered, IpcFacts!SleepersRegistered, OnIpc!Unused,
          IpcFacts!Unused, OnIpc!WaitersAsleep, IpcFacts!WaitersAsleep, OnIpc!WaitersInPlace,
          IpcFacts!WaitersInPlace, OnIpc!WaitqAdd, IpcFacts!WaitqAdd, OnIpc!WaitqHead,
          IpcFacts!WaitqHead, OnIpc!WaitqRemove, IpcFacts!WaitqRemove, OnIpc!WaitqRest,
          IpcFacts!WaitqRest, OnIpc!Wake, IpcFacts!Wake, OnIpc!WakeAll, IpcFacts!WakeAll,
          OnIpc!executorVars, IpcFacts!executorVars, OnIpc!ipcVars, IpcFacts!ipcVars,
          OnIpc!lifecycleVars, IpcFacts!lifecycleVars, OnIpc!vars, IpcFacts!vars
<1>2. QED BY <1>1, Zenon

LEMMA IpcConstants ==
  /\ None \notin IpcFacts!IpcInsn
  /\ MaxQueues \in Nat \ {0} /\ Capacity \in Nat \ {0} /\ WaitqCapacity \in Nat \ {0}
  /\ MaxMsgs \in Nat
  /\ IpcFacts!IsFiniteSet(Pid)
  /\ None \notin Pid
<1>1. None \notin IpcFacts!IpcInsn
      BY ObjectsAssumption DEF I!IpcInsn, IpcFacts!IpcInsn
<1>2. IpcFacts!IsFiniteSet(Pid)
      BY ObjectsAssumption DEF IsFiniteSet, IpcFacts!IsFiniteSet
<1>3. QED BY <1>1, <1>2, ObjectsAssumption, NoneAssumption

LEMMA IpcInvSound ==
  ASSUME IpcFacts!IpcInv
  PROVE  queue \in [QueueId -> I!QueueType] /\ I!WaitersAsleep
<1>1. queue \in [QueueId -> I!QueueType]
      BY DEF IpcFacts!IpcInv, IpcFacts!IpcTypeOK, IpcFacts!QueueType, I!QueueType,
             IpcFacts!Grant, I!Grant, IpcFacts!Msg, I!Msg
<1>2. QED BY <1>1, IpcFacts!InvWaiters, IpcConstants, SameIpc, IpcReal, Zenon

LEMMA IpcInvInit == ASSUME ObjectsInit PROVE IpcFacts!IpcInv
BY IpcInitSeen, SameIpc, IpcFacts!IpcInitInv, IpcConstants

LEMMA IpcInvNext ==
  ASSUME ObjectsSound, IpcFacts!IpcInv, [ObjectsNext]_objectVars
  PROVE  IpcFacts!IpcInv'
<1>1. [IpcFacts!IpcNext]_(IpcFacts!vars)
      BY IpcSeesStep, SameIpc, Zenon DEF IpcFacts!IpcNext
<1>2. QED BY <1>1, IpcFacts!IpcNextInv, IpcConstants, Zenon

LEMMA IpcViewIsSound ==
  OnIpc!IpcQuietSpec =>
    /\ IpcFacts!IpcQuietSpec /\ IpcFacts!IpcSpec
    /\ []OnIpc!WaitersInPlace
<1>1. [IpcFacts!QuietNext]_(IpcFacts!vars) => [IpcFacts!IpcNext]_(IpcFacts!vars)
      BY Zenon DEF IpcFacts!IpcNext
<1>2. OnIpc!IpcQuietSpec => IpcFacts!IpcQuietSpec /\ IpcFacts!IpcSpec
      BY <1>1, SameIpc, PTL DEF OnIpc!IpcQuietSpec, IpcFacts!IpcQuietSpec, IpcFacts!IpcSpec
<1>3. QED BY <1>2, IpcFacts!WaitersAlwaysInPlace, IpcConstants, SameIpc, PTL

LEMMA IpcViewListsSleepers ==
  ASSUME Cardinality(Pid) <= WaitqCapacity
  PROVE  OnIpc!IpcQuietSpec => []OnIpc!SleepersRegistered
<1>1. IpcFacts!Cardinality(Pid) <= WaitqCapacity
      BY DEF IpcFacts!Cardinality, Cardinality
<1>2. QED BY <1>1, IpcFacts!SleepersAlwaysRegistered, IpcConstants, IpcViewIsSound, SameIpc,
             PTL

LEMMA IpcViewLosesNoSpace ==
  ASSUME Capacity <= WaitqCapacity
  PROVE  OnIpc!IpcQuietSpec => []OnIpc!NoLostSpace
BY IpcFacts!SpaceIsNeverLost, IpcConstants, IpcViewIsSound, SameIpc, PTL

-----------------------------------------------------------------------------
(***************************************************************************)
(* The inductive invariant: that of Sync and that of Ipc, of the views     *)
(***************************************************************************)
ObjectsInv == ObjectsTypeOK /\ SyncFacts!SyncInv /\ IpcFacts!IpcInv

LEMMA InvSound == ASSUME ObjectsInv PROVE ObjectsSound
BY SyncInvSound, IpcInvSound DEF ObjectsInv, ObjectsSound

LEMMA ObjectsInitInv == ObjectsInit => ObjectsInv
<1>1. ObjectsInit => ObjectsTypeOK
      BY DEF ObjectsInit, ObjectsTypeOK, S!SyncInit, S!ExecutorInit, S!LifecycleInit, States
<1>2. QED BY <1>1, SyncInvInit, IpcInvInit DEF ObjectsInv

LEMMA ObjectsNextInv == ObjectsInv /\ [ObjectsNext]_objectVars => ObjectsInv'
BY InvSound, SyncInvNext, IpcInvNext, TypesKept, Zenon DEF ObjectsInv, ObjectsTypeOK

LEMMA ObjectsAlwaysSound == ObjectsSpec => []ObjectsSound
<1>1. ObjectsSpec => []ObjectsInv
      BY ObjectsInitInv, ObjectsNextInv, PTL DEF ObjectsSpec
<1>2. QED BY <1>1, InvSound, PTL

-----------------------------------------------------------------------------
(***************************************************************************)
(* What follows                                                            *)
(***************************************************************************)
\* In every mixed workload the semaphores and mutexes behave as in Sync: SEND
\* and RECV (ipc_send, ipc_recv) change nothing that sync_wait and sync_post
\* depend on, and wake no process out of SEM_WAIT or LOCK.  What is proved of
\* SyncSpec (MutexesExclude, NoTokenIsIdle, OwnersAreNotBarged, ...) therefore
\* holds of mixed workloads.
THEOREM MixedWorkloadsImplementSync == ObjectsSpec => OnSync!SyncSpec
BY ObjectsAlwaysSound, BothSee, PTL

\* In every mixed workload the queues behave as in Ipc without kills: SEM_WAIT,
\* SEM_POST, LOCK and UNLOCK wake no process out of SEND or RECV.  What is proved
\* of IpcSpec (MessagesExactlyOnce, QueuesImplementChannel, ...) therefore holds
\* of mixed workloads.
THEOREM MixedWorkloadsImplementIpc == ObjectsSpec => OnIpc!IpcQuietSpec
BY ObjectsAlwaysSound, BothSee, PTL

\* The wait lists of both kinds name processes asleep in that very instruction,
\* and what is reserved is reserved for a process about to retry: sync_post,
\* ipc_send and ipc_recv wake no process out of an instruction on another object.
THEOREM MixedWaitersInPlace == ObjectsSpec => []WaitersInPlace
BY ObjectsAlwaysSound, BothSee, SyncViewIsSound, IpcViewIsSound, BothReal, PTL

\* Whoever sleeps in SEM_WAIT, LOCK, SEND or RECV is listed once where the
\* instruction that should wake it looks, and nowhere else, in a mixed workload
\* too.  waitq_add drops a process when its list is full: the hypothesis says that
\* there are not that many processes.
THEOREM MixedSleepersRegistered ==
  ASSUME Cardinality(Pid) <= WaitqCapacity
  PROVE  ObjectsSpec => []SleepersRegistered
BY ObjectsAlwaysSound, BothSee, SyncViewIsSound, IpcViewListsSleepers, BothReal, PTL

\* ipc_recv wakes a sender for every place it frees, also when woken senders and
\* receivers are delayed by their semaphores and mutexes.
THEOREM MixedSpaceIsNeverLost ==
  ASSUME Capacity <= WaitqCapacity
  PROVE  ObjectsSpec => []NoLostSpace
BY ObjectsAlwaysSound, BothSee, IpcViewLosesNoSpace, BothReal, PTL
=============================================================================
