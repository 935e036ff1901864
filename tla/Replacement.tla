----------------------------- MODULE Replacement -----------------------------
(***************************************************************************)
(* The three replacement policies (replacement_fifo.c, replacement_lru.c,  *)
(* replacement_clock.c) as the pager calls them.  Module Paging lets a     *)
(* policy choose any frame it was told of; here the victim is the one that *)
(* the array of the policy names, or none when the array is empty, and     *)
(* that this is a frame that Paging allows has to be shown.                *)
(*                                                                         *)
(* The frames a policy knows of are an array in all three: fifo evicts the *)
(* first, lru the first of those with the least tick, clock the first,     *)
(* from its hand on, whose referenced bit is clear.  The ticks are kept as *)
(* ranks: nothing but their order is used.  MMAP and MFREE, whose accesses *)
(* make the same calls, are left out.                                      *)
(***************************************************************************)
EXTENDS Paging, Sequences, Functions

\* clock takes the number of a frame for the number of a page.
ASSUME ReplacementAssumption == Frame \subseteq Vpn

VARIABLES order,       \* the frames in the array of the policy
          hand,        \* clock: index of the next frame to look at, from 0
          last,        \* lru: rank of last_tick of a frame in the array
          now,         \* rank of the current tick
          referenced,  \* pages whose pte has the referenced bit
          stuck        \* history: processes that sleep for a page, or must retry,
                       \* and since whose fault no ACCESS was completed

policyVars == <<order, hand, last, now, referenced>>
allVars == <<vars, policyVars, stuck>>

ReplacementInit ==
  /\ PagingInit
  /\ order = <<>> /\ hand = 0
  /\ last = [f \in Frame |-> 0] /\ now = 0
  /\ referenced = {}
  /\ stuck = {}

-----------------------------------------------------------------------------
(***************************************************************************)
(* The arrays                                                              *)
(***************************************************************************)
Uses(name, x, y) == IF policy = name THEN x ELSE y

\* insert: a frame is listed once.
Inserted(fs, f) == IF f \in Range(fs) THEN fs ELSE Append(fs, f)

\* Mutant of FifoVictim: the newest frame goes first.
FifoVictimNewest == Len(order)

\* fifo_evict
FifoVictim == 1

\* lru_evict: the least tick, the first one on a tie.
LruVictim == Min({i \in DOMAIN order : \A j \in DOMAIN order : last[order[i]] <= last[order[j]]})

\* clock_evict for a fault of p.  The frame at the hand is looked up as a page
\* number in the page table of p.  A referenced bit is cleared and the hand
\* moves on; after one round the frame it began with is found clear.
ClockAt(d) == ((hand + d) % Len(order)) + 1
ClockSteps(p) ==
  Min({Len(order)} \cup {d \in 0 .. Len(order) - 1 : <<p, order[ClockAt(d)]>> \notin referenced})
ClockVictim(p) == ClockAt(ClockSteps(p))
ClockCleared(p) == {<<p, order[ClockAt(d)]>> : d \in 0 .. ClockSteps(p) - 1}

\* The hand is advanced before the victim is taken out of the array.
ClockHand(p) ==
  IF Len(order) = 1 THEN 0 ELSE (ClockVictim(p) % Len(order)) % (Len(order) - 1)

VictimIndex(p) == Uses("fifo", FifoVictim, Uses("lru", LruVictim, ClockVictim(p)))

\* The frames behind the k-th move up.
ShiftedLeft(fs, k) == SubSeq(fs, 1, k - 1) \o SubSeq(fs, k + 1, Len(fs))

\* Mutant of Evicted: the victim stays in the array.
EvictedStays(p) == order

\* The array without the victim.
Evicted(p) == ShiftedLeft(order, VictimIndex(p))

-----------------------------------------------------------------------------
(***************************************************************************)
(* The calls of the policy in pager_access_page                            *)
(***************************************************************************)
Referenced(p, v) == referenced \cup {<<p, v>>}

\* last_tick is compared and never added to: ranks are kept dense, with 0 for
\* tick 0.
Ranked(ranks, n) ==
  LET values == {ranks[f] : f \in Frame} \cup {n}
      Rank(x) == Cardinality({y \in values : 0 < y /\ y <= x}) IN
  /\ last' = [f \in Frame |-> Rank(ranks[f])]
  /\ now' = Rank(n)

\* update and insert at the current tick; only lru has ticks.
Stamp(f) ==
  IF policy = "lru" THEN Ranked([last EXCEPT ![f] = now], now) ELSE UNCHANGED <<last, now>>

PolicyHit(p, v) ==
  LET f == pt[p][v].frame IN
  /\ referenced' = Referenced(p, v)
  /\ order' = Uses("lru", Inserted(order, f), order)
  /\ Stamp(f)
  /\ UNCHANGED hand

PolicyInsert(p, v) ==
  /\ referenced' = Referenced(p, v)
  /\ order' = Inserted(order, Min(FreeFrames))
  /\ Stamp(Min(FreeFrames))
  /\ UNCHANGED hand

\* evict: the victim leaves the array before the pager knows whether it can be
\* saved.
Chosen(p) == order[VictimIndex(p)]
ClearedBits(p) == Uses("clock", ClockCleared(p), {})

PolicyEvict(p) ==
  /\ order' = Evicted(p)
  /\ hand' = Uses("clock", ClockHand(p), hand)
  /\ referenced' = referenced \ ClearedBits(p)
  /\ UNCHANGED <<last, now>>

\* evict, and insert for the page that gets the frame.
PolicyReplace(p, v) ==
  /\ order' = Inserted(Evicted(p), Chosen(p))
  /\ hand' = Uses("clock", ClockHand(p), hand)
  /\ referenced' = (referenced \ ClearedBits(p)) \cup {<<p, v>>}
  /\ Stamp(Chosen(p))

-----------------------------------------------------------------------------
(***************************************************************************)
(* An access, with what the policy does in it                              *)
(***************************************************************************)
\* A hit in the TLB never gets to the policy.
HitServed(p, v, w) ==
  \/ TlbHit(p, v, w) /\ UNCHANGED policyVars
  \/ PageHit(p, v, w) /\ PolicyHit(p, v)

FaultServed(p, v, w) ==
  \/ FaultIntoFree(p, v, w) /\ PolicyInsert(p, v)
  \/ order # <<>> /\ FaultEvicts(p, v, w, Chosen(p)) /\ PolicyReplace(p, v)

Refused(p, v, w) ==
  \/ Forbidden(v, w) /\ UNCHANGED policyVars
  \/ order = <<>> /\ NoVictim(p, v, w) /\ UNCHANGED policyVars
  \/ order # <<>> /\ VictimUnsaved(p, v, w, Chosen(p)) /\ PolicyEvict(p)

\* AccessDone, AccessSleeps and AccessError of Paging.
AccessWithPolicy(p, v, w) ==
  /\ Accesses(p, v, w)
  /\ \/ /\ HitServed(p, v, w) \/ (~ IsMajor(p, v) /\ FaultServed(p, v, w))
        /\ Complete(p, {})
        /\ stuck' = {}
     \/ /\ IsMajor(p, v) /\ FaultServed(p, v, w)
        /\ BlockIn(p, Access(v, w))
        /\ stuck' = stuck \cup {p}
     \/ /\ Refused(p, v, w)
        /\ ExitWith(p, AccessErrorCode)
        /\ stuck' = {}

\* The other steps of p do not touch memory.  IO, which only delays, and kills,
\* which leave a process's pages where they are as EXIT does, are left out.
WithoutPolicy(p) ==
  /\ PageInDone(p) \/ Scheduled(p)
  /\ state[p] # "BLOCKED" => state'[p] # "BLOCKED"
  /\ UNCHANGED <<policyVars, stuck>>

\* The sequence of the members of S, a finite set of numbers, by number.
Ascending(S) ==
  {s \in [1 .. Cardinality(S) -> S] : \A i, j \in DOMAIN s : i < j => s[i] < s[j]}

\* pager_set_policy: insert at tick 0 for the allocated frames.
SetPolicyExactly(name) ==
  /\ SetPolicy(name)
  /\ order' \in Ascending(Allocated)
  /\ hand' = 0
  /\ last' = [f \in Frame |-> 0] /\ now' = 0
  /\ stuck' = {}
  /\ UNCHANGED referenced

\* A tick of a CPU instruction, or an idle one, as far as lru can tell.
Tick ==
  /\ policy = "lru"
  /\ Ranked(last, now + 1)
  /\ UNCHANGED <<vars, order, hand, referenced, stuck>>

ReplacementNext ==
  \/ \E p \in Pid, v \in Vpn, w \in BOOLEAN : AccessWithPolicy(p, v, w)
  \/ \E p \in Pid : WithoutPolicy(p)
  \/ \E name \in Policies : SetPolicyExactly(name)
  \/ Tick

ReplacementSpec == ReplacementInit /\ [][ReplacementNext]_allVars

-----------------------------------------------------------------------------
\* A policy keeps exact books: its array lists once each frame that it may be
\* asked to evict and nothing else, also after a failed eviction and a change
\* of policy, and the hand of clock is in the array.
PolicyTracks ==
  /\ Range(order) = tracked
  /\ tracked \subseteq Allocated
  /\ Len(order) = Cardinality(tracked)
  /\ hand \in 0 .. Max({0, Len(order) - 1})

\* Processes that take each other's pages do not wait for them in turn for ever:
\* a process that slept for a page and finds it evicted again (runtime.c:383
\* retries the ACCESS) has been overtaken by an ACCESS that was completed.  With
\* a frame for every process this holds under fifo and lru; clock, which looks
\* at the wrong page table, may evict the page that came in last.
RetriesMakeProgress ==
  [][policy # "clock" => \A p \in stuck : ~ (current = p /\ state'[p] = "BLOCKED")]_allVars
=============================================================================
