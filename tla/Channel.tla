------------------------------- MODULE Channel -------------------------------
(***************************************************************************)
(* What a MOSRT message queue promises its processes: a bounded FIFO       *)
(* channel.  A message is queued, or handed to one receiver straight away  *)
(* when nothing is queued; messages leave the queue oldest first; a message*)
(* handed to a process is received by that process, before it takes another *)
(* one, and by nobody else; a message is received at most once.            *)
(***************************************************************************)
EXTENDS Naturals, FiniteSets

CONSTANTS Pid, None, Capacity, MaxMsgs

VARIABLES sent,       \* number of messages sent; message m is the m-th one
          queued,     \* the messages in the queue
          reserved,   \* the messages handed to a receiver: [pid, msg]
          receivedBy  \* receivedBy[m]: who received message m, or None

chanVars == <<sent, queued, reserved, receivedBy>>

ChannelInit ==
  /\ sent = 0
  /\ queued = {}
  /\ reserved = {}
  /\ receivedBy = [m \in 1 .. MaxMsgs |-> None]

Enqueue ==
  /\ Cardinality(queued) < Capacity
  /\ sent' = sent + 1
  /\ queued' = queued \cup {sent + 1}
  /\ UNCHANGED <<reserved, receivedBy>>

HandOver(p) ==
  /\ queued = {}
  /\ sent' = sent + 1
  /\ reserved' = reserved \cup {[pid |-> p, msg |-> sent + 1]}
  /\ UNCHANGED <<queued, receivedBy>>

Dequeue(p, m) ==
  /\ m \in queued
  /\ \A r \in reserved : r.pid # p
  /\ \A n \in queued : m <= n
  /\ queued' = queued \ {m}
  /\ receivedBy[m] = None
  /\ receivedBy' = [receivedBy EXCEPT ![m] = p]
  /\ UNCHANGED <<sent, reserved>>

Collect(p, m) ==
  /\ [pid |-> p, msg |-> m] \in reserved
  /\ reserved' = reserved \ {[pid |-> p, msg |-> m]}
  /\ receivedBy[m] = None
  /\ receivedBy' = [receivedBy EXCEPT ![m] = p]
  /\ UNCHANGED <<sent, queued>>

ChannelNext ==
  \/ Enqueue
  \/ \E p \in Pid : HandOver(p)
  \/ \E p \in Pid, m \in 1 .. MaxMsgs : Dequeue(p, m) \/ Collect(p, m)

ChannelSpec == ChannelInit /\ [][ChannelNext]_chanVars
=============================================================================
