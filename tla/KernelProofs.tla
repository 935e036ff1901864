----------------------------- MODULE KernelProofs -----------------------------
(***************************************************************************)
(* Proofs for the process states, the scheduler and the runtime loop, for  *)
(* any number of processes and levels, any intervals and quanta.  The      *)
(* first part is about module Lifecycle, the second about the operators of *)
(* module Sched: what the loops of heap_push and heap_pop leave of the     *)
(* order of the heap, and what sched_enqueue, rebuild_ready_queues and     *)
(* sched_pick_next make of the ready queues.  The third part follows the   *)
(* actions of module Kernel.                                               *)
(***************************************************************************)
EXTENDS Kernel, FiniteSetTheorems, WellFoundedInduction, TLAPS

-----------------------------------------------------------------------------
(***************************************************************************)
(* The states of the processes                                             *)
(***************************************************************************)
LifecycleInv == LifecycleTypeOK /\ RunningIsCurrent

LEMMA LifecycleInitInv == LifecycleInit => LifecycleInv
BY NoneAssumption
   DEF LifecycleInit, LifecycleInv, LifecycleTypeOK, RunningIsCurrent, States

LEMMA LifecycleNextInv == LifecycleInv /\ [LifecycleNext]_lifecycleVars => LifecycleInv'
<1> SUFFICES ASSUME LifecycleInv, [LifecycleNext]_lifecycleVars
             PROVE  LifecycleInv'
    OBVIOUS
<1> USE NoneAssumption DEF LifecycleInv, LifecycleTypeOK, RunningIsCurrent, States
<1>1. ASSUME NEW p \in Pid, Create(p) PROVE LifecycleInv'
      BY <1>1 DEF Create
<1>2. ASSUME NEW p \in Pid, Dispatch(p) PROVE LifecycleInv'
      BY <1>2 DEF Dispatch
<1>3. ASSUME NEW p \in Pid, Kill(p) PROVE LifecycleInv'
      BY <1>3 DEF Kill, Alive
<1>4. ASSUME NEW p \in Pid, NEW s \in {"READY", "BLOCKED", "EXITED"}, Leave(p, s)
      PROVE  LifecycleInv'
      BY <1>4 DEF Leave
<1>5. ASSUME NEW S \in SUBSET Pid, Wake(S) PROVE LifecycleInv'
      BY <1>5 DEF Wake, WakeAll
<1>6. CASE UNCHANGED lifecycleVars
      BY <1>6 DEF lifecycleVars
<1>7. QED BY <1>1, <1>2, <1>3, <1>4, <1>5, <1>6 DEF LifecycleNext

\* At most one process is RUNNING and it is current_pid, in every behaviour
\* whose steps are those of dispatch, block_current, exit_current,
\* maybe_preempt, wake_pid and runtime_kill.
THEOREM RunningIsCurrentAlways ==
  LifecycleSpec => [](LifecycleTypeOK /\ RunningIsCurrent)
BY LifecycleInitInv, LifecycleNextInv, PTL DEF LifecycleSpec, LifecycleInv

\* Every step leaves a process in its state or moves it along
\* proc_is_valid_transition.
THEOREM TransitionsValid ==
  LifecycleSpec =>
    [][\A p \in Pid : state'[p] = state[p] \/ ValidTransition(state[p], state'[p])]_lifecycleVars
<1> DEFINE Valid(p) == state'[p] = state[p] \/ ValidTransition(state[p], state'[p])
<1>1. LifecycleInv /\ [LifecycleNext]_lifecycleVars => [\A p \in Pid : Valid(p)]_lifecycleVars
  <2> SUFFICES ASSUME LifecycleInv, LifecycleNext, NEW q \in Pid PROVE Valid(q)
      OBVIOUS
  <2> USE DEF LifecycleInv, LifecycleTypeOK, RunningIsCurrent, States, ValidTransition
  <2>1. ASSUME NEW p \in Pid, Create(p) PROVE Valid(q)
        BY <2>1 DEF Create
  <2>2. ASSUME NEW p \in Pid, Dispatch(p) PROVE Valid(q)
        BY <2>2 DEF Dispatch
  <2>3. ASSUME NEW p \in Pid, Kill(p) PROVE Valid(q)
        BY <2>3 DEF Kill, Alive
  <2>4. ASSUME NEW p \in Pid, NEW s \in {"READY", "BLOCKED", "EXITED"}, Leave(p, s)
        PROVE  Valid(q)
        BY <2>4 DEF Leave
  <2>5. ASSUME NEW S \in SUBSET Pid, Wake(S) PROVE Valid(q)
        BY <2>5 DEF Wake, WakeAll
  <2>6. QED BY <2>1, <2>2, <2>3, <2>4, <2>5 DEF LifecycleNext
<1>2. QED BY <1>1, LifecycleInitInv, LifecycleNextInv, PTL DEF LifecycleSpec

-----------------------------------------------------------------------------
(***************************************************************************)
(* Slot order                                                              *)
(***************************************************************************)
Ascending(s, n) == \A i, j \in 1 .. n : i < j => s[i] < s[j]

HasOrder(S) == \E s \in [1 .. Cardinality(S) -> S] : Ascending(s, Cardinality(S))

LEMMA LeastNat ==
  ASSUME NEW S, S \subseteq Nat, S # {}
  PROVE  \E x \in S : \A y \in S : x <= y
<1> DEFINE R == {ss \in Nat \X Nat : ss[1] < ss[2]}
<1>1. IsWellFoundedOn(R, Nat)
      BY Zenon, NatLessThanWellFounded DEF OpToRel
<1>2. \E x \in S : \A y \in S : ~ (<<y, x>> \in R)
  <2> HIDE DEF R
  <2>1. QED BY <1>1, WFMin, Zenon
<1>3. PICK x \in S : \A y \in S : ~ (<<y, x>> \in R)
      BY <1>2
<1>4. ASSUME NEW y \in S PROVE x <= y
  <2>1. x \in Nat /\ y \in Nat
        OBVIOUS
  <2>2. y < x => <<y, x>> \in R
        BY <2>1
  <2>3. QED BY <1>3, <2>1, <2>2
<1>5. QED BY <1>4

\* Induction, for a set of numbers.
LEMMA SetInduction ==
  ASSUME NEW S, 0 \in S, \A k \in Nat : k \in S => k + 1 \in S
  PROVE  Nat \subseteq S
<1> DEFINE Bad == Nat \ S
<1> SUFFICES ASSUME Bad # {} PROVE FALSE
    OBVIOUS
<1>1. PICK n \in Bad : \A y \in Bad : n <= y
      BY LeastNat, Zenon
<1>2. n \in Nat /\ n # 0 /\ n \notin S
      BY <1>1
<1>3. n - 1 \in Nat /\ (n - 1) + 1 = n /\ ~ (n <= n - 1)
      BY <1>2
<1>4. n - 1 \in S
      BY <1>1, <1>3
<1>5. QED BY <1>2, <1>3, <1>4

\* A set of pids can be listed in ascending order, if it can without its least.
LEMMA OrderWithLeast ==
  ASSUME NEW T, T \subseteq Nat, IsFiniteSet(T), NEW m \in T,
         \A y \in T : m <= y, HasOrder(T \ {m})
  PROVE  HasOrder(T)
<1> DEFINE U == T \ {m}
           n == Cardinality(U)
<1>1. IsFiniteSet(U) /\ n \in Nat /\ Cardinality(T) = n + 1
  <2>1. IsFiniteSet(U) /\ n = Cardinality(T) - 1
        BY FS_RemoveElement
  <2>2. n \in Nat /\ Cardinality(T) \in Nat
        BY <2>1, FS_CardinalityType
  <2>3. QED BY <2>1, <2>2
<1>2. PICK t \in [1 .. n -> U] : Ascending(t, n)
      BY Zenon DEF HasOrder
<1> HIDE DEF n
<1> DEFINE s == [i \in 1 .. n + 1 |-> IF i = 1 THEN m ELSE t[i - 1]]
<1>3. \A i \in 1 .. n + 1 : i # 1 => i - 1 \in 1 .. n /\ s[i] = t[i - 1] /\ s[i] \in U
  <2>1. \A i \in 1 .. n + 1 : i # 1 => i - 1 \in 1 .. n
        BY <1>1
  <2>2. QED BY <2>1, <1>2
<1>4. s \in [1 .. n + 1 -> T]
  <2>1. \A i \in 1 .. n + 1 : s[i] \in T
        BY <1>3
  <2>2. QED BY <2>1
<1>5. ASSUME NEW i \in 1 .. n + 1, NEW j \in 1 .. n + 1, i < j PROVE s[i] < s[j]
  <2>1. j # 1 /\ s[j] \in U /\ s[j] = t[j - 1] /\ j - 1 \in 1 .. n
        BY <1>1, <1>3, <1>5
  <2>2. CASE i = 1
    <3>1. s[i] = m /\ m <= s[j] /\ s[j] # m /\ m \in Nat /\ s[j] \in Nat
          BY <2>1, <2>2, Zenon
    <3> HIDE DEF s
    <3>2. QED BY <3>1
  <2>3. CASE i # 1
    <3>1. i - 1 \in 1 .. n /\ s[i] = t[i - 1] /\ i - 1 < j - 1
          BY <1>3, <2>3, <1>5, <1>1
    <3>2. t[i - 1] < t[j - 1]
          BY <3>1, <2>1, <1>2 DEF Ascending
    <3>3. QED BY <3>1, <3>2, <2>1
  <2>4. QED BY <2>2, <2>3
<1>6. Ascending(s, n + 1)
      BY <1>5, Zenon DEF Ascending
<1> HIDE DEF s
<1>7. QED BY <1>1, <1>4, <1>6, Zenon DEF HasOrder

LEMMA EmptyOrder == HasOrder({})
<1>1. Cardinality({}) = 0
      BY FS_EmptySet
<1>2. 1 .. 0 = {}
      OBVIOUS
<1> DEFINE s == [i \in 1 .. 0 |-> i]
<1>3. s \in [1 .. 0 -> {}]
      BY <1>2
<1>4. Ascending(s, 0)
      BY <1>2 DEF Ascending
<1> HIDE DEF s
<1>5. QED BY <1>1, <1>3, <1>4, Zenon DEF HasOrder

LEMMA OrderExists ==
  ASSUME NEW S, S \subseteq Nat, IsFiniteSet(S)
  PROVE  HasOrder(S)
<1> SUFFICES ASSUME ~ HasOrder(S) PROVE FALSE
    OBVIOUS
<1> DEFINE Bad == {n \in Nat : \E T \in SUBSET S : Cardinality(T) = n /\ ~ HasOrder(T)}
<1>1. ASSUME NEW T \in SUBSET S
      PROVE  IsFiniteSet(T) /\ Cardinality(T) \in Nat
      BY FS_Subset, FS_CardinalityType, Zenon
<1>2. PICK n \in Bad : \A k \in Bad : n <= k
  <2>1. Cardinality(S) \in Bad
        BY <1>1
  <2> HIDE DEF Bad
  <2>2. Bad \subseteq Nat
        BY DEF Bad
  <2>3. QED BY <2>1, <2>2, LeastNat, Zenon
<1>3. PICK T \in SUBSET S : Cardinality(T) = n /\ ~ HasOrder(T)
      BY <1>2
<1>4. T # {}
      BY <1>3, EmptyOrder
<1>5. PICK m \in T : \A y \in T : m <= y
  <2>1. T \subseteq Nat
        OBVIOUS
  <2>2. QED BY <2>1, <1>4, LeastNat, Zenon
<1>6. Cardinality(T \ {m}) < n
  <2>1. IsFiniteSet(T) /\ Cardinality(T) \in Nat
        BY <1>1
  <2>2. Cardinality(T \ {m}) = Cardinality(T) - 1
        BY <2>1, FS_RemoveElement, Zenon
  <2>3. QED BY <2>1, <2>2, <1>3
<1>7. HasOrder(T \ {m})
  <2>1. T \ {m} \in SUBSET S
        OBVIOUS
  <2>2. Cardinality(T \ {m}) \in Nat
        BY <1>1, <2>1
  <2>3. ~ (Cardinality(T \ {m}) \in Bad)
        BY <1>2, <1>6, <2>2
  <2>4. QED BY <2>1, <2>2, <2>3
<1>8. QED BY <1>1, <1>3, <1>5, <1>7, OrderWithLeast, Zenon

-----------------------------------------------------------------------------
(***************************************************************************)
(* The ready queues as sequences                                           *)
(***************************************************************************)
NoRepeats(q) == \A i, j \in DOMAIN q : q[i] = q[j] => i = j

Ahead(q, a, b) == \E i, j \in DOMAIN q : i < j /\ q[i] = a /\ q[j] = b

LEMMA NoEntries ==
  ASSUME NEW q \in Seq(Pid), DOMAIN q = {}
  PROVE  q = <<>>
<1>1. Len(q) \in Nat /\ DOMAIN q = 1 .. Len(q)
      OBVIOUS
<1>2. Len(q) = 0
      BY <1>1
<1>3. QED BY <1>2

\* What proc_for_each hands to sched_enqueue: every member of S, once.
LEMMA InSlotOrderFacts ==
  ASSUME NEW S, S \subseteq Pid
  PROVE  /\ InSlotOrder(S) \in Seq(S)
         /\ Entries(InSlotOrder(S)) = S
         /\ NoRepeats(InSlotOrder(S))
<1> DEFINE n == Cardinality(S)
           s == InSlotOrder(S)
<1>1. IsFiniteSet(S) /\ n \in Nat /\ S \subseteq Nat
      BY SchedAssumption, FS_Subset, FS_CardinalityType, Zenon
<1>2. \E t \in [1 .. n -> S] : \A i, j \in 1 .. n : i < j => t[i] < t[j]
      BY <1>1, OrderExists, Zenon DEF HasOrder, Ascending
<1>3. s \in [1 .. n -> S] /\ \A i, j \in 1 .. n : i < j => s[i] < s[j]
      BY <1>2, Zenon DEF InSlotOrder
<1> HIDE DEF n, s
<1>4. \A i, j \in 1 .. n : s[i] = s[j] => i = j
  <2> SUFFICES ASSUME NEW i \in 1 .. n, NEW j \in 1 .. n, s[i] = s[j], i # j PROVE FALSE
      OBVIOUS
  <2>1. s[i] \in Nat /\ s[j] \in Nat
        BY <1>1, <1>3, Zenon
  <2>2. i < j \/ j < i
        BY <1>1
  <2>3. QED BY <1>3, <2>1, <2>2
<1>5. s \in Seq(S) /\ DOMAIN s = 1 .. n
      BY <1>1, <1>3
<1>6. \A x \in S : \E i \in 1 .. n : s[i] = x
  <2>1. s \in Injection(1 .. n, S)
        BY <1>3, <1>4, Zenon DEF Injection, IsInjective
  <2>2. Cardinality(1 .. n) = n
        BY <1>1, FS_Interval
  <2>3. s \in Surjection(1 .. n, S)
        BY <1>1, <2>1, <2>2, FS_Injection DEF n
  <2>4. QED BY <2>3, Zenon DEF Surjection
<1>7. Entries(s) = S
      BY <1>3, <1>5, <1>6 DEF Entries
<1>8. QED BY <1>4, <1>5, <1>7 DEF s, NoRepeats

\* Pushing new entries keeps the old ones, in their order.
LEMMA ConcatFacts ==
  ASSUME NEW q \in Seq(Pid), NEW r \in Seq(Pid)
  PROVE  /\ q \o r \in Seq(Pid)
         /\ Entries(q \o r) = Entries(q) \cup Entries(r)
         /\ NoRepeats(q) /\ NoRepeats(r) /\ Entries(q) \cap Entries(r) = {}
              => NoRepeats(q \o r)
         /\ \A a, b : Ahead(q, a, b) => Ahead(q \o r, a, b)
<1> DEFINE c == q \o r
<1>1. /\ c \in Seq(Pid) /\ Len(c) = Len(q) + Len(r)
      /\ Len(q) \in Nat /\ Len(r) \in Nat
      /\ DOMAIN q = 1 .. Len(q) /\ DOMAIN r = 1 .. Len(r) /\ DOMAIN c = 1 .. Len(c)
      OBVIOUS
<1>2. \A i \in DOMAIN q : i \in DOMAIN c /\ c[i] = q[i]
      OBVIOUS
<1>3. \A i \in DOMAIN r : i + Len(q) \in DOMAIN c /\ c[i + Len(q)] = r[i]
      OBVIOUS
<1>4. \A i \in DOMAIN c : i \in DOMAIN q \/ (i - Len(q) \in DOMAIN r /\ c[i] = r[i - Len(q)])
      OBVIOUS
<1> HIDE DEF c
<1>5. Entries(c) = Entries(q) \cup Entries(r)
      BY <1>2, <1>3, <1>4 DEF Entries
<1>6. ASSUME NoRepeats(q), NoRepeats(r), Entries(q) \cap Entries(r) = {}
      PROVE  NoRepeats(c)
  <2> SUFFICES ASSUME NEW i \in DOMAIN c, NEW j \in DOMAIN c, c[i] = c[j] PROVE i = j
      BY DEF NoRepeats
  <2>1. \A k \in DOMAIN q, m \in DOMAIN r : q[k] # r[m]
        BY <1>6, Zenon DEF Entries
  <2>2. CASE i \in DOMAIN q /\ j \in DOMAIN q
        BY <2>2, <1>2, <1>6 DEF NoRepeats
  <2>3. CASE i \in DOMAIN q /\ j \notin DOMAIN q
        BY <2>3, <2>1, <1>2, <1>4
  <2>4. CASE i \notin DOMAIN q /\ j \in DOMAIN q
        BY <2>4, <2>1, <1>2, <1>4
  <2>5. CASE i \notin DOMAIN q /\ j \notin DOMAIN q
    <3>1. i - Len(q) = j - Len(q)
          BY <2>5, <1>4, <1>6 DEF NoRepeats
    <3>2. QED BY <3>1, <1>1
  <2>6. QED BY <2>2, <2>3, <2>4, <2>5
<1>7. \A a, b : Ahead(q, a, b) => Ahead(c, a, b)
      BY <1>2 DEF Ahead
<1>8. QED BY <1>1, <1>5, <1>6, <1>7 DEF c

\* Popping the first entry.
LEMMA PopFacts ==
  ASSUME NEW q \in Seq(Pid), q # <<>>, NoRepeats(q)
  PROVE  /\ SubSeq(q, 2, Len(q)) \in Seq(Pid)
         /\ Entries(SubSeq(q, 2, Len(q))) = Entries(q) \ {q[1]}
         /\ NoRepeats(SubSeq(q, 2, Len(q)))
         /\ \A a, b : a # q[1] /\ Ahead(q, a, b) => Ahead(SubSeq(q, 2, Len(q)), a, b)
<1> DEFINE r == SubSeq(q, 2, Len(q))
<1>0. Len(q) \in Nat /\ Len(q) >= 1 /\ DOMAIN q = 1 .. Len(q)
      OBVIOUS
<1>1. /\ r \in Seq(Pid) /\ Len(q) \in Nat /\ Len(q) >= 1 /\ Len(r) = Len(q) - 1
      /\ DOMAIN q = 1 .. Len(q) /\ DOMAIN r = 1 .. Len(r)
      BY <1>0
<1>2. \A i \in DOMAIN r : i + 1 \in DOMAIN q /\ r[i] = q[i + 1]
      OBVIOUS
<1>3. \A i \in DOMAIN q : i = 1 \/ (i - 1 \in DOMAIN r /\ r[i - 1] = q[i])
      OBVIOUS
<1> HIDE DEF r
<1>4. 1 \in DOMAIN q
      BY <1>1
<1>5. \A i \in DOMAIN r : r[i] # q[1]
      BY <1>1, <1>2, <1>4 DEF NoRepeats
<1>6. Entries(r) = Entries(q) \ {q[1]}
      BY <1>2, <1>3, <1>5 DEF Entries
<1>7. NoRepeats(r)
      BY <1>1, <1>2 DEF NoRepeats
<1>8. ASSUME NEW a, NEW b, a # q[1], Ahead(q, a, b) PROVE Ahead(r, a, b)
  <2>1. PICK i \in DOMAIN q, j \in DOMAIN q : i < j /\ q[i] = a /\ q[j] = b
        BY <1>8 DEF Ahead
  <2>2. i # 1 /\ j # 1
        BY <2>1, <1>8, <1>1
  <2>3. i - 1 \in DOMAIN r /\ r[i - 1] = a /\ j - 1 \in DOMAIN r /\ r[j - 1] = b /\ i - 1 < j - 1
        BY <2>1, <2>2, <1>1, <1>3
  <2>4. QED BY <2>3 DEF Ahead
<1>9. QED BY <1>1, <1>6, <1>7, <1>8 DEF r

-----------------------------------------------------------------------------
(***************************************************************************)
(* Loops.                                                                  *)
(***************************************************************************)
Rounds(f, x, g, n) == g[0] = x /\ \A k \in 1 .. n : g[k] = f[g[k - 1]]

LEMMA RoundsExist ==
  ASSUME NEW St, NEW f, \A y \in St : f[y] \in St, NEW x \in St, NEW n \in Nat
  PROVE  \E g \in [0 .. n -> St] : Rounds(f, x, g, n)
<1> DEFINE S == {m \in Nat : \E g \in [0 .. m -> St] : Rounds(f, x, g, m)}
<1>1. 0 \in S
  <2> DEFINE g == [k \in 0 .. 0 |-> x]
  <2>1. g \in [0 .. 0 -> St] /\ g[0] = x
        OBVIOUS
  <2>2. Rounds(f, x, g, 0)
        BY <2>1 DEF Rounds
  <2> HIDE DEF g
  <2>3. QED BY <2>1, <2>2
<1>2. ASSUME NEW m \in Nat, m \in S PROVE m + 1 \in S
  <2>1. PICK g \in [0 .. m -> St] : Rounds(f, x, g, m)
        BY <1>2
  <2> DEFINE h == [k \in 0 .. m + 1 |-> IF k = m + 1 THEN f[g[m]] ELSE g[k]]
  <2>2. \A k \in 0 .. m : k \in 0 .. m + 1 /\ h[k] = g[k]
        OBVIOUS
  <2>3. h[m + 1] = f[g[m]] /\ m + 1 \in 0 .. m + 1 /\ m \in 0 .. m /\ 0 \in 0 .. m
        OBVIOUS
  <2>4. h \in [0 .. m + 1 -> St]
    <3>1. \A k \in 0 .. m + 1 : k = m + 1 \/ k \in 0 .. m
          OBVIOUS
    <3>2. \A k \in 0 .. m + 1 : h[k] \in St
          BY <2>2, <2>3, <3>1
    <3>3. QED BY <3>2
  <2> HIDE DEF h
  <2>5. ASSUME NEW k \in 1 .. m + 1 PROVE h[k] = f[h[k - 1]]
    <3>1. k - 1 \in 0 .. m /\ (k \in 1 .. m \/ k = m + 1)
          OBVIOUS
    <3>2. CASE k = m + 1
      <4>1. k - 1 = m
            BY <3>2
      <4>2. QED BY <4>1, <3>2, <2>2, <2>3
    <3>3. CASE k \in 1 .. m
      <4>1. k \in 0 .. m
            BY <3>3
      <4>2. g[k] = f[g[k - 1]]
            BY <3>3, <2>1 DEF Rounds
      <4>3. QED BY <3>1, <4>1, <4>2, <2>2
    <3>4. QED BY <3>1, <3>2, <3>3
  <2>6. Rounds(f, x, h, m + 1)
        BY <2>1, <2>2, <2>3, <2>5 DEF Rounds
  <2>7. QED BY <2>4, <2>6
<1> HIDE DEF S
<1>3. n \in S
      BY <1>1, <1>2, SetInduction, Zenon
<1>4. QED BY <1>3 DEF S

LEMMA RoundsAgree ==
  ASSUME NEW f, NEW x, NEW m \in Nat, NEW n \in Nat, NEW g, NEW h,
         Rounds(f, x, g, m), Rounds(f, x, h, n), NEW k \in Nat, k <= m, k <= n
  PROVE  g[k] = h[k]
<1> DEFINE S == {i \in Nat : i <= m /\ i <= n => g[i] = h[i]}
<1>1. 0 \in S
      BY DEF Rounds
<1>2. ASSUME NEW i \in Nat, i \in S PROVE i + 1 \in S
  <2> SUFFICES ASSUME i + 1 <= m, i + 1 <= n PROVE g[i + 1] = h[i + 1]
      OBVIOUS
  <2>1. i + 1 \in 1 .. m /\ i + 1 \in 1 .. n /\ (i + 1) - 1 = i /\ i <= m /\ i <= n
        OBVIOUS
  <2>2. g[i] = h[i]
        BY <1>2, <2>1
  <2>3. g[i + 1] = f[g[(i + 1) - 1]] /\ h[i + 1] = f[h[(i + 1) - 1]]
        BY <2>1, Zenon DEF Rounds
  <2>4. QED BY <2>1, <2>2, <2>3
<1> HIDE DEF S
<1>3. k \in S
      BY <1>1, <1>2, SetInduction, Zenon
<1>4. QED BY <1>3 DEF S

LEMMA LoopExists ==
  ASSUME NEW St, NEW f, \A y \in St : f[y] \in St, NEW x \in St
  PROVE  \E g : g = [k \in Nat |-> IF k = 0 THEN x ELSE f[g[k - 1]]]
<1> DEFINE A(n) == CHOOSE g \in [0 .. n -> St] : Rounds(f, x, g, n)
           G == [n \in Nat |-> A(n)[n]]
<1>1. ASSUME NEW n \in Nat PROVE Rounds(f, x, A(n), n)
      BY RoundsExist, Zenon
<1> HIDE DEF A
<1>2. ASSUME NEW n \in Nat PROVE G[n] = IF n = 0 THEN x ELSE f[G[n - 1]]
  <2>1. CASE n = 0
        BY <2>1, <1>1 DEF Rounds
  <2>2. CASE n # 0
    <3>1. n - 1 \in Nat /\ n \in 1 .. n /\ n - 1 <= n /\ n - 1 <= n - 1
          BY <2>2
    <3>2. A(n)[n] = f[A(n)[n - 1]]
          BY <3>1, <1>1 DEF Rounds
    <3>3. A(n)[n - 1] = A(n - 1)[n - 1]
      <4>1. PICK m : m = n - 1
            OBVIOUS
      <4>2. m \in Nat /\ m <= n /\ m <= m
            BY <3>1, <4>1
      <4>3. Rounds(f, x, A(n), n) /\ Rounds(f, x, A(m), m)
            BY <4>2, <1>1
      <4>4. A(n)[m] = A(m)[m]
            BY <4>2, <4>3, RoundsAgree
      <4>5. QED BY <4>1, <4>4
    <3>4. QED BY <2>2, <3>1, <3>2, <3>3
  <2>3. QED BY <2>1, <2>2
<1>3. G = [k \in Nat |-> IF k = 0 THEN x ELSE f[G[k - 1]]]
  <2>1. G = [n \in Nat |-> G[n]]
        OBVIOUS
  <2> HIDE DEF G
  <2>2. QED BY <1>2, <2>1
<1>4. QED BY <1>3, Zenon

\* A loop keeps what each of its rounds keeps.
LEMMA IteratedAlong ==
  ASSUME NEW St, NEW f, \A y \in St : f[y] \in St, NEW x \in St,
         NEW P, x \in P[0], \A k \in Nat, y \in St : y \in P[k] => f[y] \in P[k + 1],
         NEW n \in Nat
  PROVE  Iterated(f, x, n) \in St /\ Iterated(f, x, n) \in P[n]
<1>1. PICK g : /\ g = [k \in Nat |-> IF k = 0 THEN x ELSE f[g[k - 1]]]
               /\ Iterated(f, x, n) = g[n]
  <2> DEFINE Def(g) == g = [k \in Nat |-> IF k = 0 THEN x ELSE f[g[k - 1]]]
  <2>1. Iterated(f, x, n) = (CHOOSE g : Def(g))[n]
        BY Zenon DEF Iterated
  <2>2. \E g : Def(g)
        BY LoopExists
  <2> HIDE DEF Def
  <2>3. Def(CHOOSE g : Def(g))
        BY <2>2, Zenon
  <2>4. QED BY <2>1, <2>3, Zenon DEF Def
<1>2. g[0] = x
      BY <1>1
<1>3. ASSUME NEW k \in Nat PROVE g[k + 1] = f[g[k]]
  <2>1. k + 1 \in Nat /\ k + 1 # 0 /\ (k + 1) - 1 = k
        OBVIOUS
  <2>2. QED BY <2>1, <1>1
<1> DEFINE S == {k \in Nat : g[k] \in St /\ g[k] \in P[k]}
<1>4. 0 \in S
      BY <1>2
<1>5. ASSUME NEW k \in Nat, k \in S PROVE k + 1 \in S
      BY <1>3, <1>5
<1> HIDE DEF S
<1>6. n \in S
      BY <1>4, <1>5, SetInduction, Zenon
<1>7. QED BY <1>1, <1>6 DEF S

-----------------------------------------------------------------------------
(***************************************************************************)
(* The heap of the priority policy                                         *)
(***************************************************************************)
\* The keys that prio_less compares are numbers.
HasKeys(pc) == \A p \in Pid : pc[p].prio \in Int /\ pc[p].age \in Int

\* prio_less is a strict weak order.
LEMMA PrioLessOrder ==
  ASSUME NEW pc, HasKeys(pc), NEW a \in Pid, NEW b \in Pid, NEW c \in Pid
  PROVE  /\ ~ PrioLess(pc, a, a)
         /\ PrioLess(pc, a, b) => ~ PrioLess(pc, b, a)
         /\ ~ PrioLess(pc, a, b) /\ ~ PrioLess(pc, b, c) => ~ PrioLess(pc, a, c)
BY DEF HasKeys, PrioLess

LEMMA SwappedFacts ==
  ASSUME NEW h \in Seq(Pid), NEW i \in DOMAIN h, NEW j \in DOMAIN h
  PROVE  /\ Swapped(h, i, j) \in Seq(Pid)
         /\ Len(Swapped(h, i, j)) = Len(h)
         /\ Swapped(h, i, j)[i] = h[j]
         /\ Swapped(h, i, j)[j] = h[i]
         /\ \A k \in DOMAIN h \ {i, j} : Swapped(h, i, j)[k] = h[k]
         /\ Entries(Swapped(h, i, j)) = Entries(h)
         /\ NoRepeats(h) => NoRepeats(Swapped(h, i, j))
<1> DEFINE s == Swapped(h, i, j)
<1>1. s \in Seq(Pid) /\ Len(s) = Len(h) /\ DOMAIN s = DOMAIN h
      BY DEF Swapped
<1>2. s[i] = h[j] /\ s[j] = h[i] /\ \A k \in DOMAIN h \ {i, j} : s[k] = h[k]
      BY DEF Swapped
<1> HIDE DEF s
<1>3. Entries(s) = Entries(h)
  <2>1. \A k \in DOMAIN h : \E m \in DOMAIN h : s[m] = h[k]
        BY <1>2
  <2>2. \A k \in DOMAIN h : \E m \in DOMAIN h : h[m] = s[k]
        BY <1>2
  <2>3. Entries(s) \subseteq Entries(h)
        BY <1>1, <2>2, Zenon DEF Entries
  <2>4. Entries(h) \subseteq Entries(s)
        BY <1>1, <2>1, Zenon DEF Entries
  <2>5. QED BY <2>3, <2>4
<1>4. NoRepeats(h) => NoRepeats(s)
      BY <1>1, <1>2 DEF NoRepeats
<1>5. QED BY <1>1, <1>2, <1>3, <1>4 DEF s

Places == Seq(Pid) \X Nat

\* No entry is less than its parent.
HeapOrdered(pc, h) == \A i \in 2 .. Len(h) : ~ PrioLess(pc, h[i], h[i \div 2])

LEMMA Parent ==
  ASSUME NEW i \in Nat, i >= 2
  PROVE  i \div 2 \in 1 .. i - 1
OBVIOUS

\* heap_push's loop, for a heap that is ordered but for the entry at i.
OrderedBut(pc, h, i) ==
  /\ \A j \in 2 .. Len(h) : j # i => ~ PrioLess(pc, h[j], h[j \div 2])
  /\ i >= 2 => \A j \in 2 .. Len(h) : j \div 2 = i => ~ PrioLess(pc, h[j], h[i \div 2])

LEMMA SiftUpStep ==
  ASSUME NEW pc, HasKeys(pc), NEW h \in Seq(Pid), NEW i \in 2 .. Len(h),
         OrderedBut(pc, h, i), PrioLess(pc, h[i], h[i \div 2])
  PROVE  OrderedBut(pc, Swapped(h, i, i \div 2), i \div 2)
<1>0. PICK m : m = i \div 2
      OBVIOUS
<1>1. Len(h) \in Nat /\ DOMAIN h = 1 .. Len(h) /\ i \in 1 .. Len(h) /\ m \in 1 .. i - 1
      /\ m \in DOMAIN h /\ i \in DOMAIN h
      BY <1>0
<1> DEFINE s == Swapped(h, i, m)
<1>2. /\ Len(s) = Len(h) /\ s[i] = h[m] /\ s[m] = h[i]
      /\ \A k \in DOMAIN h \ {i, m} : s[k] = h[k]
      BY <1>1, SwappedFacts
<1> HIDE DEF s
<1>3. \A k \in DOMAIN h : h[k] \in Pid
      OBVIOUS
<1>4. ASSUME NEW j \in 2 .. Len(h), j # m PROVE ~ PrioLess(pc, s[j], s[j \div 2])
  <2>1. j \in DOMAIN h /\ j \div 2 \in DOMAIN h /\ j \div 2 # j
        BY <1>1, Parent
  <2>2. CASE j = i
    <3>1. PrioLess(pc, h[i], h[m]) => ~ PrioLess(pc, h[m], h[i])
          BY <1>1, <1>3, PrioLessOrder
    <3>2. QED BY <2>2, <1>0, <1>2, <3>1
  <2>3. CASE j # i
    <3>1. s[j] = h[j] /\ ~ PrioLess(pc, h[j], h[j \div 2])
          BY <2>1, <2>3, <1>4, <1>2 DEF OrderedBut
    <3>2. CASE j \div 2 = i
      <4>1. ~ PrioLess(pc, h[j], h[m])
            BY <3>2, <1>0 DEF OrderedBut
      <4>2. QED BY <4>1, <3>1, <3>2, <1>2
    <3>3. CASE j \div 2 = m
      <4>1. PrioLess(pc, h[i], h[m])
            BY <1>0
      <4>2. ~ PrioLess(pc, h[m], h[i])
            BY <1>1, <1>3, <4>1, PrioLessOrder
      <4>3. ~ PrioLess(pc, h[j], h[i])
            BY <1>1, <1>3, <2>1, <3>1, <3>3, <4>2, PrioLessOrder
      <4>4. QED BY <3>1, <3>3, <4>3, <1>2
    <3>4. CASE j \div 2 # i /\ j \div 2 # m
          BY <3>1, <3>4, <2>1, <1>2
    <3>5. QED BY <3>2, <3>3, <3>4
  <2>4. QED BY <2>2, <2>3
<1>5. ASSUME m >= 2, NEW j \in 2 .. Len(h), j \div 2 = m
      PROVE  ~ PrioLess(pc, s[j], s[m \div 2])
  <2>1. j \in DOMAIN h /\ j # m /\ m \div 2 \in DOMAIN h /\ m \div 2 # m /\ m \div 2 # i
    <3>1. m \div 2 \in 1 .. m - 1 /\ j \div 2 \in 1 .. j - 1
          BY <1>1, <1>5, Parent
    <3>2. QED BY <1>1, <1>5, <3>1
  <2>2. s[m \div 2] = h[m \div 2]
        BY <1>2, <2>1
  <2>3. ~ PrioLess(pc, h[m], h[m \div 2])
        BY <1>1, <1>5 DEF OrderedBut
  <2>4. CASE j = i
        BY <2>2, <2>3, <2>4, <1>2
  <2>5. CASE j # i
    <3>1. s[j] = h[j] /\ ~ PrioLess(pc, h[j], h[m])
          BY <2>1, <2>5, <1>5, <1>2 DEF OrderedBut
    <3>2. ~ PrioLess(pc, h[j], h[m \div 2])
          BY <1>1, <1>3, <2>1, <2>3, <3>1, PrioLessOrder
    <3>3. QED BY <2>2, <3>1, <3>2
  <2>6. QED BY <2>4, <2>5
<1>6. OrderedBut(pc, s, m)
      BY <1>2, <1>4, <1>5 DEF OrderedBut
<1>7. QED BY <1>0, <1>6 DEF s

\* What every loop on a heap keeps: the entries, from the heap h on.
Rearranged(h) ==
  {hi \in Places :
     /\ Len(hi[1]) = Len(h) /\ Entries(hi[1]) = Entries(h)
     /\ NoRepeats(h) => NoRepeats(hi[1])}

LEMMA SwappedRearranged ==
  ASSUME NEW h, NEW hi \in Rearranged(h), NEW i \in DOMAIN hi[1], NEW j \in DOMAIN hi[1],
         NEW k \in Nat
  PROVE  <<Swapped(hi[1], i, j), k>> \in Rearranged(h)
<1>1. PICK g : g = hi[1]
      OBVIOUS
<1>2. g \in Seq(Pid) /\ Len(g) = Len(h) /\ Entries(g) = Entries(h)
      /\ (NoRepeats(h) => NoRepeats(g)) /\ i \in DOMAIN g /\ j \in DOMAIN g
      BY <1>1 DEF Rearranged, Places
<1>3. /\ Swapped(g, i, j) \in Seq(Pid) /\ Len(Swapped(g, i, j)) = Len(h)
      /\ Entries(Swapped(g, i, j)) = Entries(h)
      /\ NoRepeats(h) => NoRepeats(Swapped(g, i, j))
      BY <1>2, SwappedFacts
<1>4. PICK s : s = Swapped(g, i, j)
      OBVIOUS
<1>5. <<s, k>> \in Places /\ <<s, k>>[1] = s
      BY <1>3, <1>4 DEF Places
<1>6. <<s, k>> \in Rearranged(h)
      BY <1>3, <1>4, <1>5 DEF Rearranged
<1>7. QED BY <1>1, <1>4, <1>6

LEMMA SiftUpKeeps ==
  ASSUME NEW pc, NEW h, NEW hi \in Rearranged(h)
  PROVE  SiftUp(pc)[hi] \in Rearranged(h)
<1>1. PICK g, i : g = hi[1] /\ i = hi[2]
      OBVIOUS
<1>2. hi \in Seq(Pid) \X Nat /\ g \in Seq(Pid) /\ i \in Nat
      BY <1>1 DEF Rearranged, Places
<1>3. SiftUp(pc)[hi] = IF i \in 2 .. Len(g) /\ PrioLess(pc, g[i], g[i \div 2])
                       THEN <<Swapped(g, i, i \div 2), i \div 2>> ELSE hi
      BY <1>1, <1>2, Zenon DEF SiftUp
<1>4. CASE i \in 2 .. Len(g)
  <2>1. i \div 2 \in 1 .. i - 1
        BY <1>2, <1>4, Parent
  <2>2. i \in DOMAIN g /\ i \div 2 \in DOMAIN g /\ i \div 2 \in Nat
        BY <1>2, <1>4, <2>1
  <2>3. <<Swapped(g, i, i \div 2), i \div 2>> \in Rearranged(h)
        BY <1>1, <2>2, SwappedRearranged
  <2>4. QED BY <1>3, <2>3, Zenon
<1>5. QED BY <1>3, <1>4, Zenon

\* The heap after k rounds: the entry has moved up, or is where it belongs.
SiftedUp(pc, k) ==
  {hi \in Places :
     LET h == hi[1]
         i == hi[2] IN
     /\ i \in 1 .. Len(h)
     /\ OrderedBut(pc, h, i)
     /\ i <= Len(h) - k \/ i = 1 \/ ~ PrioLess(pc, h[i], h[i \div 2])}

LEMMA SiftUpClimbs ==
  ASSUME NEW pc, HasKeys(pc), NEW k \in Nat, NEW hi \in SiftedUp(pc, k)
  PROVE  SiftUp(pc)[hi] \in SiftedUp(pc, k + 1)
<1>1. PICK g, i : g = hi[1] /\ i = hi[2]
      OBVIOUS
<1>2. /\ hi \in Seq(Pid) \X Nat /\ g \in Seq(Pid) /\ i \in 1 .. Len(g) /\ Len(g) \in Nat
      /\ OrderedBut(pc, g, i)
      /\ i <= Len(g) - k \/ i = 1 \/ ~ PrioLess(pc, g[i], g[i \div 2])
      BY <1>1 DEF SiftedUp, Places
<1>3. SiftUp(pc)[hi] = IF i \in 2 .. Len(g) /\ PrioLess(pc, g[i], g[i \div 2])
                       THEN <<Swapped(g, i, i \div 2), i \div 2>> ELSE hi
      BY <1>1, <1>2, Zenon DEF SiftUp
<1>4. CASE i \in 2 .. Len(g) /\ PrioLess(pc, g[i], g[i \div 2])
  <2>1. PICK m, s : m = i \div 2 /\ s = Swapped(g, i, m)
        OBVIOUS
  <2>2. m \in 1 .. i - 1 /\ i \in DOMAIN g /\ m \in DOMAIN g /\ m \in Nat
        BY <1>2, <1>4, <2>1, Parent
  <2>3. s \in Seq(Pid) /\ Len(s) = Len(g)
        BY <1>2, <2>1, <2>2, SwappedFacts
  <2>4. OrderedBut(pc, s, m)
        BY <1>2, <1>4, <2>1, SiftUpStep
  <2>5. m \in 1 .. Len(s) /\ m <= Len(s) - (k + 1)
        BY <1>2, <1>4, <2>2, <2>3
  <2>6. <<s, m>> \in Places /\ <<s, m>>[1] = s /\ <<s, m>>[2] = m
        BY <2>2, <2>3 DEF Places
  <2>7. <<s, m>> \in SiftedUp(pc, k + 1)
        BY <2>4, <2>5, <2>6 DEF SiftedUp
  <2>8. QED BY <1>3, <1>4, <2>1, <2>7, Zenon
<1>5. CASE ~ (i \in 2 .. Len(g) /\ PrioLess(pc, g[i], g[i \div 2]))
  <2>1. i = 1 \/ ~ PrioLess(pc, g[i], g[i \div 2])
        BY <1>2, <1>5
  <2>2. hi \in SiftedUp(pc, k + 1)
        BY <1>1, <1>2, <2>1 DEF SiftedUp, Places
  <2>3. QED BY <1>3, <1>5, <2>2, Zenon
<1>6. QED BY <1>4, <1>5

\* heap_push adds its entry and keeps the others, and the heap's order.
LEMMA HeapPushFacts ==
  ASSUME NEW pc, NEW h \in Seq(Pid), NEW p \in Pid
  PROVE  /\ HeapPush(pc, h, p) \in Seq(Pid)
         /\ Entries(HeapPush(pc, h, p)) = Entries(h) \cup {p}
         /\ NoRepeats(h) => NoRepeats(HeapPush(pc, h, p))
         /\ HasKeys(pc) /\ HeapOrdered(pc, h) => HeapOrdered(pc, HeapPush(pc, h, p))
<1>1. CASE p \in Entries(h)
  <2>1. HeapPush(pc, h, p) = h
        BY <1>1 DEF HeapPush
  <2>2. QED BY <1>1, <2>1
<1>2. CASE p \notin Entries(h)
  <2>1. PICK a, n : a = Append(h, p) /\ n = Len(h)
        OBVIOUS
  <2>2. /\ n \in Nat /\ a \in Seq(Pid) /\ Len(a) = n + 1
        /\ DOMAIN h = 1 .. n /\ DOMAIN a = 1 .. n + 1
        /\ a[n + 1] = p /\ \A i \in 1 .. n : a[i] = h[i]
        BY <2>1
  <2>3. Entries(a) = Entries(h) \cup {p}
    <3>1. \A i \in 1 .. n + 1 : i \in 1 .. n \/ i = n + 1
          BY <2>2
    <3>2. \A i \in 1 .. n : i \in 1 .. n + 1
          BY <2>2
    <3>3. n + 1 \in 1 .. n + 1
          BY <2>2
    <3>4. QED BY <2>2, <3>1, <3>2, <3>3, Zenon DEF Entries
  <2>4. NoRepeats(h) => NoRepeats(a)
    <3>1. \A i \in 1 .. n + 1 : i \in 1 .. n \/ i = n + 1
          BY <2>2
    <3>2. \A i \in 1 .. n : a[i] # p
          BY <1>2, <2>2, Zenon DEF Entries
    <3>3. QED BY <2>2, <3>1, <3>2, Zenon DEF NoRepeats
  <2>5. <<a, n + 1>> \in Places /\ <<a, n + 1>>[1] = a /\ <<a, n + 1>>[2] = n + 1
        BY <2>2 DEF Places
  <2>6. <<a, n + 1>> \in Rearranged(a)
        BY <2>5 DEF Rearranged
  <2> DEFINE r == Iterated(SiftUp(pc), <<a, n + 1>>, n)
  <2>7. HeapPush(pc, h, p) = r[1]
        BY <1>2, <2>1, Zenon DEF HeapPush
  <2>8. r \in Rearranged(a)
    <3> DEFINE P == [k \in Nat |-> Rearranged(a)]
    <3>1. \A k \in Nat, y \in Rearranged(a) : y \in P[k] => SiftUp(pc)[y] \in P[k + 1]
          BY SiftUpKeeps
    <3>2. <<a, n + 1>> \in P[0]
          BY <2>6
    <3>3. \A y \in Rearranged(a) : SiftUp(pc)[y] \in Rearranged(a)
          BY SiftUpKeeps
    <3> HIDE DEF P, r
    <3>4. QED BY <2>2, <2>6, <3>1, <3>2, <3>3, IteratedAlong, Zenon DEF r
  <2>9. ASSUME HasKeys(pc), HeapOrdered(pc, h) PROVE HeapOrdered(pc, r[1])
    <3> DEFINE P == [k \in Nat |-> SiftedUp(pc, k)]
    <3>1. \A k \in Nat, y \in Rearranged(a) : y \in P[k] => SiftUp(pc)[y] \in P[k + 1]
          BY <2>9, SiftUpClimbs
    <3>2. <<a, n + 1>> \in P[0]
      <4>1. ASSUME NEW j \in 2 .. n PROVE ~ PrioLess(pc, a[j], a[j \div 2])
        <5>1. j \div 2 \in 1 .. j - 1
              BY Parent
        <5>2. j \in 1 .. n /\ j \div 2 \in 1 .. n
              BY <5>1, <2>2
        <5>3. ~ PrioLess(pc, h[j], h[j \div 2])
              BY <2>9, <2>1 DEF HeapOrdered
        <5>4. QED BY <5>2, <5>3, <2>2
      <4>2. \A j \in 2 .. n + 1 : j \div 2 # n + 1
            BY <2>2, Parent
      <4>3. \A j \in 2 .. n + 1 : j # n + 1 => j \in 2 .. n
            BY <2>2
      <4>4. OrderedBut(pc, a, n + 1)
            BY <2>2, <4>1, <4>2, <4>3 DEF OrderedBut
      <4>5. n + 1 \in 1 .. Len(a) /\ n + 1 <= Len(a) - 0
            BY <2>2
      <4>6. <<a, n + 1>> \in SiftedUp(pc, 0)
            BY <2>5, <4>4, <4>5 DEF SiftedUp
      <4>7. QED BY <4>6
    <3>3. \A y \in Rearranged(a) : SiftUp(pc)[y] \in Rearranged(a)
          BY SiftUpKeeps
    <3>4. P[n] = SiftedUp(pc, n)
          BY <2>2
    <3>5. r \in P[n]
      <4> HIDE DEF P, r
      <4>1. QED BY <2>2, <2>6, <3>1, <3>2, <3>3, IteratedAlong, Zenon DEF r
    <3>6. PICK g, i : g = r[1] /\ i = r[2]
          OBVIOUS
    <3> HIDE DEF P, r
    <3>7. /\ g \in Seq(Pid) /\ Len(g) = n + 1 /\ i \in 1 .. Len(g) /\ OrderedBut(pc, g, i)
          /\ i <= Len(g) - n \/ i = 1 \/ ~ PrioLess(pc, g[i], g[i \div 2])
          BY <2>2, <2>8, <3>4, <3>5, <3>6 DEF SiftedUp, Rearranged, Places
    <3>8. i = 1 \/ ~ PrioLess(pc, g[i], g[i \div 2])
          BY <2>2, <3>7
    <3>9. HeapOrdered(pc, g)
      <4> SUFFICES ASSUME NEW j \in 2 .. Len(g) PROVE ~ PrioLess(pc, g[j], g[j \div 2])
          BY DEF HeapOrdered
      <4>1. CASE j = i
            BY <4>1, <3>8
      <4>2. CASE j # i
            BY <4>2, <3>7 DEF OrderedBut
      <4>3. QED BY <4>1, <4>2
    <3>10. QED BY <3>6, <3>9
  <2> HIDE DEF r
  <2>10. r[1] \in Seq(Pid) /\ Entries(r[1]) = Entries(a) /\ (NoRepeats(a) => NoRepeats(r[1]))
        BY <2>8 DEF Rearranged, Places
  <2>11. QED BY <2>3, <2>4, <2>7, <2>9, <2>10
<1>3. QED BY <1>1, <1>2

LEMMA HeapPushAllFacts ==
  ASSUME NEW pc, NEW h \in Seq(Pid), NEW s \in Seq(Pid)
  PROVE  /\ HeapPushAll(pc, h, s) \in Seq(Pid)
         /\ Entries(HeapPushAll(pc, h, s)) = Entries(h) \cup Entries(s)
         /\ NoRepeats(h) => NoRepeats(HeapPushAll(pc, h, s))
         /\ HasKeys(pc) /\ HeapOrdered(pc, h) => HeapOrdered(pc, HeapPushAll(pc, h, s))
<1>1. PICK n : n = Len(s)
      OBVIOUS
<1>2. n \in Nat /\ DOMAIN s = 1 .. n /\ \A i \in 1 .. n : s[i] \in Pid
      BY <1>1
<1> DEFINE Taken(k) == {s[i] : i \in 1 .. k}
           Keeps(g) == /\ NoRepeats(h) => NoRepeats(g)
                       /\ HasKeys(pc) /\ HeapOrdered(pc, h) => HeapOrdered(pc, g)
           P == [k \in Nat |-> {gk \in Places : k <= n =>
                                   /\ gk[2] = k
                                   /\ Entries(gk[1]) = Entries(h) \cup Taken(k)
                                   /\ Keeps(gk[1])}]
           f == PushNext(pc, s)
<1>3. ASSUME NEW gk \in Places
      PROVE  /\ gk[1] \in Seq(Pid) /\ gk[2] \in Nat
             /\ f[gk] = IF gk[2] + 1 \in DOMAIN s
                        THEN <<HeapPush(pc, gk[1], s[gk[2] + 1]), gk[2] + 1>> ELSE gk
      BY Zenon DEF PushNext, Places
<1> HIDE DEF f
<1>4. ASSUME NEW gk \in Places PROVE f[gk] \in Places
  <2>1. CASE gk[2] + 1 \in DOMAIN s
    <3>1. PICK g, k, r : g = gk[1] /\ k = gk[2] + 1 /\ r = HeapPush(pc, g, s[k])
          OBVIOUS
    <3>0. gk[1] \in Seq(Pid) /\ gk[2] \in Nat
          BY <1>3, Zenon
    <3>2. g \in Seq(Pid) /\ k \in Nat /\ s[k] \in Pid
          BY <1>2, <2>1, <3>0, <3>1
    <3>3. r \in Seq(Pid)
          BY <3>1, <3>2, HeapPushFacts
    <3>4. f[gk] = <<r, k>>
          BY <1>3, <2>1, <3>1
    <3>5. QED BY <3>2, <3>3, <3>4 DEF Places
  <2>2. QED BY <1>3, <2>1, Zenon
<1>5. <<h, 0>> \in P[0]
  <2>1. <<h, 0>> \in Places /\ <<h, 0>>[1] = h /\ <<h, 0>>[2] = 0
        BY DEF Places
  <2>2. Taken(0) = {}
        OBVIOUS
  <2> HIDE DEF Taken
  <2>3. Entries(h) = Entries(h) \cup Taken(0)
        BY <2>2
  <2>4. QED BY <2>1, <2>3
<1>6. ASSUME NEW k \in Nat, NEW gk \in Places, gk \in P[k] PROVE f[gk] \in P[k + 1]
  <2> HIDE DEF Taken, Keeps
  <2> SUFFICES ASSUME k + 1 <= n
               PROVE  /\ f[gk][2] = k + 1
                      /\ Entries(f[gk][1]) = Entries(h) \cup Taken(k + 1)
                      /\ Keeps(f[gk][1])
      BY <1>4
  <2>0. k <= n
        BY <1>2
  <2>1. PICK g : g = gk[1]
        OBVIOUS
  <2>2. /\ gk[2] = k /\ g \in Seq(Pid) /\ Entries(g) = Entries(h) \cup Taken(k) /\ Keeps(g)
        /\ k + 1 \in 1 .. n
    <3>1. gk[1] \in Seq(Pid)
          BY <1>3, Zenon
    <3>2. gk[2] = k /\ Entries(g) = Entries(h) \cup Taken(k) /\ Keeps(g)
          BY <1>6, <2>0, <2>1
    <3>3. k + 1 \in 1 .. n
          BY <1>2
    <3>4. QED BY <2>1, <3>1, <3>2, <3>3
  <2>3. PICK r : r = HeapPush(pc, g, s[k + 1])
        OBVIOUS
  <2>4. f[gk] = <<r, k + 1>>
        BY <1>2, <1>3, <2>1, <2>2, <2>3
  <2>5. /\ Entries(r) = Entries(g) \cup {s[k + 1]}
        /\ NoRepeats(g) => NoRepeats(r)
        /\ HasKeys(pc) /\ HeapOrdered(pc, g) => HeapOrdered(pc, r)
    <3>1. s[k + 1] \in Pid
          BY <1>2, <2>2
    <3>2. PICK x : x = s[k + 1]
          OBVIOUS
    <3>3. g \in Seq(Pid) /\ x \in Pid /\ r = HeapPush(pc, g, x)
          BY <2>2, <2>3, <3>1, <3>2
    <3>4. /\ Entries(r) = Entries(g) \cup {x}
          /\ NoRepeats(g) => NoRepeats(r)
          /\ HasKeys(pc) /\ HeapOrdered(pc, g) => HeapOrdered(pc, r)
          BY <3>3, HeapPushFacts
    <3>5. QED BY <3>2, <3>4
  <2>6. Taken(k + 1) = Taken(k) \cup {s[k + 1]}
    <3>1. \A i \in 1 .. k + 1 : i \in 1 .. k \/ i = k + 1
          OBVIOUS
    <3>2. \A i \in 1 .. k : i \in 1 .. k + 1
          OBVIOUS
    <3>3. k + 1 \in 1 .. k + 1
          OBVIOUS
    <3>4. QED BY <3>1, <3>2, <3>3, Zenon DEF Taken
  <2>7. QED BY <2>2, <2>4, <2>5, <2>6 DEF Keeps
<1> DEFINE r == Iterated(f, <<h, 0>>, n)
<1>7. <<h, 0>> \in Places
      BY DEF Places
<1>8. r \in P[n] /\ r \in Places
  <2> HIDE DEF P, f, r
  <2>1. QED BY <1>2, <1>4, <1>5, <1>6, <1>7, IteratedAlong, Zenon DEF r
<1>9. HeapPushAll(pc, h, s) = r[1]
      BY <1>1, Zenon DEF HeapPushAll, f
<1>10. Taken(n) = Entries(s)
      BY <1>2, Zenon DEF Entries
<1>11. n <= n
      BY <1>2
<1> HIDE DEF f, r, Taken
<1>12. r[1] \in Seq(Pid) /\ Entries(r[1]) = Entries(h) \cup Taken(n) /\ Keeps(r[1])
      BY <1>2, <1>8, <1>11 DEF Places
<1>13. QED BY <1>9, <1>10, <1>12

LEMMA SiftDownKeeps ==
  ASSUME NEW pc, NEW h, NEW hi \in Rearranged(h)
  PROVE  SiftDown(pc)[hi] \in Rearranged(h)
<1>1. PICK g, i : g = hi[1] /\ i = hi[2]
      OBVIOUS
<1>2. hi \in Seq(Pid) \X Nat /\ g \in Seq(Pid) /\ i \in Nat
      BY <1>1 DEF Rearranged, Places
<1>3. PICK best : best = Lesser(pc, g, Lesser(pc, g, i, 2 * i), 2 * i + 1)
      OBVIOUS
<1>4. SiftDown(pc)[hi] = IF i \in DOMAIN g /\ best # i THEN <<Swapped(g, i, best), best>> ELSE hi
      BY <1>1, <1>2, <1>3, Zenon DEF SiftDown
<1>5. CASE i \in DOMAIN g
  <2>1. i \in 1 .. Len(g) /\ Len(g) \in Nat /\ DOMAIN g = 1 .. Len(g)
        BY <1>2, <1>5
  <2>2. \A a, b \in Nat : a \in DOMAIN g /\ b >= 1 => Lesser(pc, g, a, b) \in DOMAIN g
        BY <2>1 DEF Lesser
  <2>3. PICK a, b, c : a = 2 * i /\ b = Lesser(pc, g, i, a) /\ c = 2 * i + 1
        OBVIOUS
  <2>4. a \in Nat /\ c \in Nat /\ a >= 1 /\ c >= 1
        BY <2>1, <2>3
  <2>7. b \in DOMAIN g /\ b \in Nat
        BY <1>2, <2>1, <2>2, <2>3, <2>4
  <2>8. Lesser(pc, g, b, c) \in DOMAIN g
        BY <2>2, <2>4, <2>7
  <2>9. best \in DOMAIN g /\ best \in Nat
        BY <1>3, <2>1, <2>3, <2>8
  <2>5. <<Swapped(g, i, best), best>> \in Rearranged(h)
        BY <1>1, <1>5, <2>9, SwappedRearranged
  <2>6. QED BY <1>4, <2>5, Zenon
<1>6. QED BY <1>4, <1>5, Zenon

\* heap_pop takes the root and keeps the others.
LEMMA HeapPopFacts ==
  ASSUME NEW pc, NEW h \in Seq(Pid), h # <<>>, NoRepeats(h)
  PROVE  /\ HeapPop(pc, h) \in Seq(Pid)
         /\ Entries(HeapPop(pc, h)) = Entries(h) \ {h[1]}
         /\ NoRepeats(HeapPop(pc, h))
<1>1. PICK n, e : n = Len(h) /\ e = [h EXCEPT ![1] = h[n]]
      OBVIOUS
<1>2. PICK s : s = SubSeq(e, 1, n - 1)
      OBVIOUS
<1>3. n \in Nat /\ n >= 1 /\ DOMAIN h = 1 .. n /\ 1 \in 1 .. n /\ n \in 1 .. n
      BY <1>1
<1>4. /\ e \in Seq(Pid) /\ Len(e) = n /\ e[1] = h[n]
      /\ \A i \in 2 .. n : e[i] = h[i]
      BY <1>1, <1>3
<1>5. s \in Seq(Pid) /\ Len(s) = n - 1 /\ DOMAIN s = 1 .. n - 1 /\ \A i \in 1 .. n - 1 : s[i] = e[i]
      BY <1>2, <1>3, <1>4
<1>6. \A i \in 1 .. n - 1 : (i = 1 /\ s[i] = h[n]) \/ (i \in 2 .. n /\ i # n /\ s[i] = h[i])
      BY <1>3, <1>4, <1>5
<1>7. \A i \in 1 .. n - 1 : s[i] \in Entries(h) \ {h[1]}
  <2> SUFFICES ASSUME NEW i \in 1 .. n - 1 PROVE s[i] \in Entries(h) /\ s[i] # h[1]
      OBVIOUS
  <2>1. CASE i = 1
    <3>1. n # 1 /\ s[i] = h[n]
          BY <1>3, <1>6, <2>1
    <3>2. QED BY <1>3, <3>1 DEF NoRepeats, Entries
  <2>2. CASE i # 1
    <3>1. i \in 1 .. n /\ s[i] = h[i]
          BY <1>3, <1>6, <2>2
    <3>2. QED BY <1>3, <2>2, <3>1 DEF NoRepeats, Entries
  <2>3. QED BY <2>1, <2>2
<1>8. ASSUME NEW j \in 1 .. n, h[j] # h[1] PROVE \E i \in 1 .. n - 1 : s[i] = h[j]
  <2>1. j # 1
        BY <1>8
  <2>2. CASE j = n
    <3>1. 1 \in 1 .. n - 1 /\ s[1] = h[n]
          BY <1>3, <1>6, <2>1, <2>2
    <3>2. QED BY <2>2, <3>1
  <2>3. CASE j # n
    <3>1. j \in 1 .. n - 1 /\ s[j] = h[j]
          BY <1>3, <1>6, <2>1, <2>3
    <3>2. QED BY <3>1
  <2>4. QED BY <2>2, <2>3
<1>9. Entries(s) = Entries(h) \ {h[1]}
  <2>1. Entries(s) \subseteq Entries(h) \ {h[1]}
        BY <1>5, <1>7 DEF Entries
  <2>2. Entries(h) \ {h[1]} \subseteq Entries(s)
        BY <1>3, <1>5, <1>8 DEF Entries
  <2>3. QED BY <2>1, <2>2
<1>10. NoRepeats(s)
  <2> SUFFICES ASSUME NEW i \in 1 .. n - 1, NEW j \in 1 .. n - 1, s[i] = s[j] PROVE i = j
      BY <1>5 DEF NoRepeats
  <2>1. CASE i = 1 /\ j # 1
        BY <1>3, <1>6, <2>1 DEF NoRepeats
  <2>2. CASE i # 1 /\ j = 1
        BY <1>3, <1>6, <2>2 DEF NoRepeats
  <2>3. CASE i # 1 /\ j # 1
        BY <1>3, <1>6, <2>3 DEF NoRepeats
  <2>4. QED BY <2>1, <2>2, <2>3
<1>11. <<s, 1>> \in Rearranged(s)
      BY <1>5 DEF Rearranged, Places
<1> DEFINE r == Iterated(SiftDown(pc), <<s, 1>>, n - 1)
<1>12. HeapPop(pc, h) = r[1]
      BY <1>1, <1>2, <1>5, Zenon DEF HeapPop
<1>13. r \in Rearranged(s)
  <2> DEFINE P == [k \in Nat |-> Rearranged(s)]
  <2>1. \A k \in Nat, y \in Rearranged(s) : y \in P[k] => SiftDown(pc)[y] \in P[k + 1]
        BY SiftDownKeeps
  <2>2. <<s, 1>> \in P[0]
        BY <1>11
  <2>3. \A y \in Rearranged(s) : SiftDown(pc)[y] \in Rearranged(s)
        BY SiftDownKeeps
  <2>4. n - 1 \in Nat
        BY <1>3
  <2> HIDE DEF P, r
  <2>5. QED BY <1>11, <2>1, <2>2, <2>3, <2>4, IteratedAlong, Zenon DEF r
<1> HIDE DEF r
<1>14. QED BY <1>9, <1>10, <1>12, <1>13 DEF Rearranged, Places

\* The root of an ordered heap is least.
LEMMA RootLeast ==
  ASSUME NEW pc, HasKeys(pc), NEW h \in Seq(Pid), HeapOrdered(pc, h), NEW i \in DOMAIN h
  PROVE  ~ PrioLess(pc, h[i], h[1])
<1> DEFINE Bad == {j \in DOMAIN h : PrioLess(pc, h[j], h[1])}
<1> SUFFICES ASSUME Bad # {} PROVE FALSE
    OBVIOUS
<1>1. Len(h) \in Nat /\ DOMAIN h = 1 .. Len(h) /\ Bad \subseteq Nat
      OBVIOUS
<1>2. PICK j \in Bad : \A k \in Bad : j <= k
      BY <1>1, LeastNat, Zenon
<1>3. j \in 1 .. Len(h) /\ PrioLess(pc, h[j], h[1]) /\ \A k \in DOMAIN h : h[k] \in Pid
      BY <1>1, <1>2
<1>4. j # 1
      BY <1>1, <1>3, PrioLessOrder
<1>5. j \in 2 .. Len(h) /\ j \div 2 \in 1 .. j - 1 /\ j \div 2 \in DOMAIN h /\ 1 \in DOMAIN h
      BY <1>1, <1>3, <1>4, Parent
<1>6. ~ PrioLess(pc, h[j], h[j \div 2])
      BY <1>5 DEF HeapOrdered
<1>7. ~ (j \div 2 \in Bad)
      BY <1>1, <1>2, <1>5
<1>8. ~ PrioLess(pc, h[j \div 2], h[1])
      BY <1>5, <1>7
<1>9. QED BY <1>1, <1>3, <1>5, <1>6, <1>8, PrioLessOrder

\* Where every entry is READY, heap_pop takes the root.
LEMMA NothingStale ==
  ASSUME NEW h \in Seq(Pid), \A i \in DOMAIN h : state[h[i]] = "READY", NEW n \in Nat
  PROVE  Iterated(DropStale, h, n) = h
<1>1. DropStale[h] = h
  <2>1. h # <<>> => 1 \in DOMAIN h
        OBVIOUS
  <2>2. DropStale[h] = IF h # <<>> /\ state[h[1]] # "READY" THEN HeapPop(pcb, h) ELSE h
        BY Zenon DEF DropStale
  <2>3. QED BY <2>1, <2>2
<1> DEFINE P == [k \in Nat |-> {h}]
<1>2. h \in P[0] /\ \A k \in Nat, y \in {h} : y \in P[k] => DropStale[y] \in P[k + 1]
      BY <1>1
<1>3. \A y \in {h} : DropStale[y] \in {h}
      BY <1>1
<1>4. h \in {h}
      OBVIOUS
<1> HIDE DEF P
<1>5. Iterated(DropStale, h, n) \in {h}
      BY <1>2, <1>3, <1>4, IteratedAlong, Zenon
<1>6. QED BY <1>5

-----------------------------------------------------------------------------
(***************************************************************************)
(* sched_enqueue and rebuild_ready_queues.  QueuesHold is ReadyIffQueued   *)
(* for any scheduler, process states and PCBs, without counting.           *)
(***************************************************************************)
SchedType ==
  [algo : Algos, quantum : 1 .. MaxQuantum, queue : [Level -> Seq(Pid)],
   current : Pid \cup {None}, consumed : 0 .. MaxQuantum, sinceBoost : 0 .. BoostInterval]

PcbType ==
  [prio : 0 .. MaxPrio, base : 0 .. MaxPrio, level : Level,
   age : 0 .. MaxAge, wakeIn : (0 .. MaxIo) \cup {None}]

Belong(algo, st, pc, l) == {p \in Pid : st[p] = "READY" /\ QueueOf(algo, pc, p) = l}

QueueHolds(q, B) == NoRepeats(q) /\ Entries(q) = B

QueuesHold(sc, st, pc) ==
  \A l \in Level : QueueHolds(sc.queue[l], Belong(sc.algo, st, pc, l))

\* What sched_enqueue appends to queue l.
Pushed(sc, pc, S, l) ==
  InSlotOrder({p \in S \ Entries(sc.queue[l]) : QueueOf(sc.algo, pc, p) = l})

LEMMA PushedFacts ==
  ASSUME NEW sc, NEW pc, NEW S \in SUBSET Pid, NEW l
  PROVE  /\ Pushed(sc, pc, S, l) \in Seq(Pid)
         /\ NoRepeats(Pushed(sc, pc, S, l))
         /\ Entries(Pushed(sc, pc, S, l))
              = {p \in S \ Entries(sc.queue[l]) : QueueOf(sc.algo, pc, p) = l}
<1> DEFINE T == {p \in S \ Entries(sc.queue[l]) : QueueOf(sc.algo, pc, p) = l}
<1>1. T \subseteq Pid
      OBVIOUS
<1> HIDE DEF T
<1>2. InSlotOrder(T) \in Seq(T) /\ Entries(InSlotOrder(T)) = T /\ NoRepeats(InSlotOrder(T))
      BY <1>1, InSlotOrderFacts
<1>3. InSlotOrder(T) \in Seq(Pid)
      BY <1>1, <1>2
<1>4. QED BY <1>2, <1>3, Zenon DEF Pushed, T

\* The heap after sched_enqueue for every member of S.
HeapWith(sc, pc, S) == HeapPushAll(pc, sc.queue[0], InSlotOrder(S))

LEMMA HeapWithFacts ==
  ASSUME NEW sc \in SchedType, NEW pc, NEW S \in SUBSET Pid
  PROVE  /\ HeapWith(sc, pc, S) \in Seq(Pid)
         /\ Entries(HeapWith(sc, pc, S)) = Entries(sc.queue[0]) \cup S
         /\ NoRepeats(sc.queue[0]) => NoRepeats(HeapWith(sc, pc, S))
         /\ HasKeys(pc) /\ HeapOrdered(pc, sc.queue[0]) => HeapOrdered(pc, HeapWith(sc, pc, S))
<1>1. sc.queue[0] \in Seq(Pid)
  <2>1. 0 \in Level
        BY SchedAssumption DEF Level
  <2>2. QED BY <2>1 DEF SchedType
<1>2. InSlotOrder(S) \in Seq(S) /\ Entries(InSlotOrder(S)) = S
      BY InSlotOrderFacts
<1>3. InSlotOrder(S) \in Seq(Pid)
      BY <1>2
<1>4. PICK h \in Seq(Pid), s \in Seq(Pid) : h = sc.queue[0] /\ s = InSlotOrder(S)
      BY <1>1, <1>3
<1>5. /\ HeapPushAll(pc, h, s) \in Seq(Pid)
      /\ Entries(HeapPushAll(pc, h, s)) = Entries(h) \cup Entries(s)
      /\ NoRepeats(h) => NoRepeats(HeapPushAll(pc, h, s))
      /\ HasKeys(pc) /\ HeapOrdered(pc, h) => HeapOrdered(pc, HeapPushAll(pc, h, s))
      BY HeapPushAllFacts
<1>6. QED BY <1>2, <1>4, <1>5, Zenon DEF HeapWith

LEMMA EnqueuedFacts ==
  ASSUME NEW sc \in SchedType, NEW pc, NEW S \in SUBSET Pid
  PROVE  /\ Enqueued(sc, pc, S) \in SchedType
         /\ Enqueued(sc, pc, S).algo = sc.algo
         /\ Enqueued(sc, pc, S).quantum = sc.quantum
         /\ Enqueued(sc, pc, S).current = sc.current
         /\ Enqueued(sc, pc, S).consumed = sc.consumed
         /\ Enqueued(sc, pc, S).sinceBoost = sc.sinceBoost
         /\ \A l \in Level :
              Enqueued(sc, pc, S).queue[l] =
                IF sc.algo # "PRIO" THEN sc.queue[l] \o Pushed(sc, pc, S, l)
                ELSE IF l = 0 THEN HeapWith(sc, pc, S) ELSE sc.queue[l]
<1> DEFINE Q == [l \in Level |->
                  IF sc.algo # "PRIO" THEN sc.queue[l] \o Pushed(sc, pc, S, l)
                  ELSE IF l = 0 THEN HeapWith(sc, pc, S) ELSE sc.queue[l]]
<1>1. sc.queue \in [Level -> Seq(Pid)] /\ 0 \in Level
      BY SchedAssumption DEF SchedType, Level
<1>2. Enqueued(sc, pc, S) = [sc EXCEPT !.queue = Q]
  <2>1. CASE sc.algo = "PRIO"
    <3>1. [sc.queue EXCEPT ![0] = HeapWith(sc, pc, S)] = Q
          BY <1>1, <2>1
    <3>2. Enqueued(sc, pc, S)
            = [sc EXCEPT !.queue = [sc.queue EXCEPT ![0] = HeapWith(sc, pc, S)]]
          BY <2>1 DEF Enqueued, HeapWith, SchedType
    <3>3. QED BY <3>1, <3>2, Zenon
  <2>2. CASE sc.algo # "PRIO"
        BY <2>2 DEF Enqueued, SchedType, Pushed
  <2>3. QED BY <2>1, <2>2
<1>3. Q \in [Level -> Seq(Pid)]
  <2>1. ASSUME NEW l \in Level PROVE sc.queue[l] \o Pushed(sc, pc, S, l) \in Seq(Pid)
        BY <1>1, PushedFacts, ConcatFacts, Zenon
  <2>2. HeapWith(sc, pc, S) \in Seq(Pid)
        BY HeapWithFacts
  <2>3. QED BY <1>1, <2>1, <2>2
<1>4. \A l \in Level : Q[l] = IF sc.algo # "PRIO" THEN sc.queue[l] \o Pushed(sc, pc, S, l)
                             ELSE IF l = 0 THEN HeapWith(sc, pc, S) ELSE sc.queue[l]
      OBVIOUS
<1> HIDE DEF Q
<1>5. QED BY <1>2, <1>3, <1>4, Zenon DEF SchedType

\* enqueue_ready for the processes of S, which were not READY before.
LEMMA EnqueuedHolds ==
  ASSUME NEW sc \in SchedType, NEW st, NEW st2, NEW pc, NEW pc2, NEW S \in SUBSET Pid,
         QueuesHold(sc, st, pc),
         \A p \in S : st[p] # "READY",
         \A p \in Pid : st2[p] = "READY" <=> st[p] = "READY" \/ p \in S,
         \A p \in Pid : st[p] = "READY" => pc2[p].level = pc[p].level
  PROVE  QueuesHold(Enqueued(sc, pc2, S), st2, pc2)
<1> SUFFICES ASSUME NEW l \in Level
             PROVE  QueueHolds(Enqueued(sc, pc2, S).queue[l],
                               Belong(Enqueued(sc, pc2, S).algo, st2, pc2, l))
    BY DEF QueuesHold
<1>0. Enqueued(sc, pc2, S).algo = sc.algo
      BY EnqueuedFacts
<1> DEFINE q == sc.queue[l]
           r == Pushed(sc, pc2, S, l)
<1>1. q \in Seq(Pid) /\ r \in Seq(Pid)
      BY PushedFacts, Zenon DEF SchedType
<1>2. NoRepeats(q) /\ Entries(q) = Belong(sc.algo, st, pc, l)
      BY DEF QueuesHold, QueueHolds
<1>3. \A p \in Pid : st[p] = "READY" => QueueOf(sc.algo, pc2, p) = QueueOf(sc.algo, pc, p)
      BY DEF QueueOf
<1>4. CASE sc.algo # "PRIO"
  <2>1. Enqueued(sc, pc2, S).queue[l] = q \o r
        BY <1>4, EnqueuedFacts
  <2>2. NoRepeats(r) /\ Entries(r) = {p \in S \ Entries(q) : QueueOf(sc.algo, pc2, p) = l}
        BY PushedFacts
  <2> HIDE DEF q, r
  <2>3. Entries(q) \cup Entries(r) = Belong(sc.algo, st2, pc2, l)
        BY <1>2, <1>3, <2>2 DEF Belong
  <2>4. Entries(q) \cap Entries(r) = {}
        BY <2>2
  <2>5. QED BY <1>0, <1>1, <1>2, <2>1, <2>2, <2>3, <2>4, ConcatFacts, Zenon DEF QueueHolds
<1>5. CASE sc.algo = "PRIO"
  <2>1. \A p \in Pid : QueueOf(sc.algo, pc2, p) = 0 /\ QueueOf(sc.algo, pc, p) = 0
        BY <1>5 DEF QueueOf
  <2>2. CASE l = 0
    <3>1. Enqueued(sc, pc2, S).queue[l] = HeapWith(sc, pc2, S)
          BY <1>5, <2>2, EnqueuedFacts
    <3>2. /\ Entries(HeapWith(sc, pc2, S)) = Entries(q) \cup S
          /\ NoRepeats(HeapWith(sc, pc2, S))
          BY <1>2, <2>2, HeapWithFacts
    <3>3. Entries(q) \cup S = Belong(sc.algo, st2, pc2, l)
          BY <1>2, <2>1, <2>2 DEF Belong
    <3>4. QED BY <1>0, <3>1, <3>2, <3>3 DEF QueueHolds
  <2>3. CASE l # 0
    <3>1. Enqueued(sc, pc2, S).queue[l] = q
          BY <1>5, <2>3, EnqueuedFacts
    <3>2. Belong(sc.algo, st2, pc2, l) = {} /\ Belong(sc.algo, st, pc, l) = {}
          BY <2>1, <2>3 DEF Belong
    <3>3. QED BY <1>0, <1>2, <3>1, <3>2 DEF QueueHolds
  <2>4. QED BY <2>2, <2>3
<1>6. QED BY <1>4, <1>5

LEMMA SameQueues ==
  ASSUME NEW sc, NEW sc2, NEW st, NEW st2, NEW pc, NEW pc2,
         QueuesHold(sc, st, pc),
         sc2.queue = sc.queue, sc2.algo = sc.algo,
         \A p \in Pid : st2[p] = "READY" <=> st[p] = "READY",
         \A p \in Pid : st[p] = "READY" => pc2[p].level = pc[p].level
  PROVE  QueuesHold(sc2, st2, pc2)
<1> SUFFICES ASSUME NEW l \in Level
             PROVE  Belong(sc2.algo, st2, pc2, l) = Belong(sc.algo, st, pc, l)
    BY DEF QueuesHold
<1>1. \A p \in Pid : st[p] = "READY" => QueueOf(sc2.algo, pc2, p) = QueueOf(sc.algo, pc, p)
      BY DEF QueueOf
<1>2. QED BY <1>1 DEF Belong

LEMMA ClearedFacts ==
  ASSUME NEW a \in Algos, NEW n \in 1 .. MaxQuantum, tick \in 0 .. BoostInterval
  PROVE  /\ Cleared(a, n) \in SchedType
         /\ Cleared(a, n).algo = a
         /\ Cleared(a, n).quantum = n
         /\ Cleared(a, n).current = None
         /\ Cleared(a, n).consumed = 0
         /\ \A l \in Level : Cleared(a, n).queue[l] = <<>>
<1>1. [l \in Level |-> <<>>] \in [Level -> Seq(Pid)]
      OBVIOUS
<1>2. 0 \in 0 .. MaxQuantum
      BY SchedAssumption
<1>3. QED BY <1>1, <1>2 DEF Cleared, SchedType

LEMMA RebuiltFacts ==
  ASSUME NEW sc \in SchedType, NEW st, NEW pc, tick \in 0 .. BoostInterval
  PROVE  /\ Rebuilt(sc, st, pc) \in SchedType
         /\ Rebuilt(sc, st, pc).algo = sc.algo
         /\ Rebuilt(sc, st, pc).quantum = sc.quantum
         /\ Rebuilt(sc, st, pc).current = sc.current
         /\ Rebuilt(sc, st, pc).consumed = sc.consumed
         /\ QueuesHold(Rebuilt(sc, st, pc), st, pc)
         /\ sc.algo = "PRIO" /\ HasKeys(pc) => HeapOrdered(pc, Rebuilt(sc, st, pc).queue[0])
<1> DEFINE c == Cleared(sc.algo, sc.quantum)
           d == [c EXCEPT !.current = sc.current, !.consumed = sc.consumed]
           R == {p \in Pid : st[p] = "READY"}
<1>1. /\ sc.algo \in Algos /\ sc.quantum \in 1 .. MaxQuantum
      /\ sc.current \in Pid \cup {None} /\ sc.consumed \in 0 .. MaxQuantum
      BY DEF SchedType
<1>2. /\ c \in SchedType /\ c.algo = sc.algo /\ c.quantum = sc.quantum
      /\ \A l \in Level : c.queue[l] = <<>>
      BY <1>1, ClearedFacts
<1> HIDE DEF c
<1>3. /\ d \in SchedType /\ d.algo = sc.algo /\ d.quantum = sc.quantum
      /\ d.current = sc.current /\ d.consumed = sc.consumed
      /\ \A l \in Level : d.queue[l] = <<>>
  <2>1. d \in SchedType
        BY <1>1, <1>2, Zenon DEF SchedType
  <2>2. QED BY <1>1, <1>2, <2>1 DEF SchedType
<1>4. Rebuilt(sc, st, pc) = Enqueued(d, pc, R)
      BY Zenon DEF Rebuilt, c
<1> HIDE DEF d
<1>0. R \in SUBSET Pid
      OBVIOUS
<1>5. \A p \in Pid : p \in R <=> st[p] = "READY"
      OBVIOUS
<1> HIDE DEF R
<1>6. PICK none : none = [p \in Pid |-> "BLOCKED"]
      BY Zenon
<1>7. /\ Enqueued(d, pc, R) \in SchedType
      /\ Enqueued(d, pc, R).algo = sc.algo
      /\ Enqueued(d, pc, R).quantum = sc.quantum
      /\ Enqueued(d, pc, R).current = sc.current
      /\ Enqueued(d, pc, R).consumed = sc.consumed
      BY <1>3, <1>0, EnqueuedFacts
<1>8. QueuesHold(Enqueued(d, pc, R), st, pc)
  <2>1. Entries(<<>>) = {} /\ NoRepeats(<<>>)
        BY DEF Entries, NoRepeats
  <2>2. \A p \in Pid : none[p] # "READY"
        BY <1>6, Zenon
  <2>3. QueuesHold(d, none, pc)
        BY <1>3, <2>1, <2>2 DEF QueuesHold, QueueHolds, Belong
  <2>4. QED BY <1>3, <1>0, <1>5, <2>2, <2>3, EnqueuedHolds
<1>9. ASSUME sc.algo = "PRIO", HasKeys(pc) PROVE HeapOrdered(pc, Enqueued(d, pc, R).queue[0])
  <2>1. 0 \in Level
        BY SchedAssumption DEF Level
  <2>2. Enqueued(d, pc, R).queue[0] = HeapWith(d, pc, R)
        BY <1>0, <1>3, <1>9, <2>1, EnqueuedFacts
  <2>3. HeapOrdered(pc, d.queue[0])
    <3>1. d.queue[0] = <<>>
          BY <1>3, <2>1
    <3>2. QED BY <3>1 DEF HeapOrdered
  <2>4. QED BY <1>0, <1>3, <1>9, <2>2, <2>3, HeapWithFacts
<1>10. QED BY <1>4, <1>7, <1>8, <1>9

-----------------------------------------------------------------------------
(***************************************************************************)
(* sched_pick_next.  As long as the queues hold the READY processes only,  *)
(* no stale entry is skipped: the FIFO policies take the head of a queue.  *)
(***************************************************************************)
LEMMA AllReady ==
  ASSUME sched \in SchedType, QueuesHold(sched, state, pcb), NEW l \in Level
  PROVE  /\ sched.queue[l] \in Seq(Pid) /\ NoRepeats(sched.queue[l])
         /\ Entries(sched.queue[l]) = Belong(sched.algo, state, pcb, l)
         /\ ReadyAt(sched.queue[l]) = DOMAIN sched.queue[l]
<1>1. sched.queue[l] \in Seq(Pid)
      BY DEF SchedType
<1>2. NoRepeats(sched.queue[l]) /\ Entries(sched.queue[l]) = Belong(sched.algo, state, pcb, l)
      BY DEF QueuesHold, QueueHolds
<1>3. \A i \in DOMAIN sched.queue[l] : sched.queue[l][i] \in Entries(sched.queue[l])
      BY DEF Entries
<1>4. ReadyAt(sched.queue[l]) = DOMAIN sched.queue[l]
      BY <1>2, <1>3 DEF ReadyAt, Belong
<1>5. QED BY <1>1, <1>2, <1>4

\* Process p, and nobody else, has left the queues.
PickedFrom(sc, p, sc2) ==
  /\ sc2 \in SchedType
  /\ sc2.algo = sc.algo /\ sc2.quantum = sc.quantum
  /\ sc2.current = p /\ sc2.consumed = 0
  /\ \A l \in Level : QueueHolds(sc2.queue[l], Entries(sc.queue[l]) \ {p})

LEMMA FifoTakesHead ==
  ASSUME sched \in SchedType, QueuesHold(sched, state, pcb), NEW p \in Pid, FifoPicks(p)
  PROVE  /\ state[p] = "READY"
         /\ PickedFrom(sched, p, sched')
         /\ \A a \in Pid \ {p}, b \in Pid :
              Ahead(sched.queue[0], a, b) => Ahead(sched'.queue[0], a, b)
<1>1. PICK l \in Level :
        /\ ReadyAt(sched.queue[l]) # {}
        /\ \A k \in Level : k < l => ReadyAt(sched.queue[k]) = {}
        /\ p = sched.queue[l][FirstReady(sched.queue[l])]
        /\ sched' = [sched EXCEPT
             !.queue = [k \in Level |->
                          IF k < l THEN <<>>
                          ELSE IF k > l THEN @[k]
                          ELSE SubSeq(sched.queue[l], FirstReady(sched.queue[l]) + 1,
                                      Len(sched.queue[l]))],
             !.current = p, !.consumed = 0]
      BY Zenon DEF FifoPicks
<1> DEFINE q == sched.queue[l]
<1>2. q \in Seq(Pid) /\ NoRepeats(q) /\ ReadyAt(q) = DOMAIN q
      BY AllReady
<1>3. q # <<>> /\ 1 \in DOMAIN q /\ \A j \in DOMAIN q : j \in Nat /\ 1 <= j
  <2>1. DOMAIN q # {} /\ DOMAIN q = 1 .. Len(q) /\ Len(q) \in Nat
        BY <1>1, <1>2
  <2>2. QED BY <2>1
<1>4. FirstReady(q) = 1
  <2>1. FirstReady(q) \in DOMAIN q /\ \A j \in DOMAIN q : FirstReady(q) <= j
    <3>1. \E i \in DOMAIN q : \A j \in DOMAIN q : i <= j
          BY <1>3
    <3>2. QED BY <3>1, <1>2 DEF FirstReady
  <2>2. QED BY <1>3, <2>1
<1>5. p = q[1]
      BY <1>1, <1>4
<1>6. \A k \in Level : k < l => sched.queue[k] = <<>>
  <2>1. \A k \in Level : k < l => sched.queue[k] \in Seq(Pid) /\ DOMAIN sched.queue[k] = {}
        BY <1>1, AllReady, Zenon
  <2>2. QED BY <2>1, NoEntries, Zenon
<1> DEFINE Q == [k \in Level |-> IF k = l THEN SubSeq(q, 2, Len(q)) ELSE sched.queue[k]]
<1>7. sched' = [sched EXCEPT !.queue = Q, !.current = p, !.consumed = 0]
  <2>1. \A k \in Level : k \in Int
        BY SchedAssumption DEF Level
  <2>2. [k \in Level |-> IF k < l THEN <<>> ELSE IF k > l THEN sched.queue[k]
                         ELSE SubSeq(q, FirstReady(q) + 1, Len(q))] = Q
        BY <2>1, <1>4, <1>6
  <2>3. QED BY <1>1, <2>2, Zenon DEF SchedType
<1>8. /\ SubSeq(q, 2, Len(q)) \in Seq(Pid)
      /\ QueueHolds(SubSeq(q, 2, Len(q)), Entries(q) \ {p})
      /\ \A a, b : a # p /\ Ahead(q, a, b) => Ahead(SubSeq(q, 2, Len(q)), a, b)
      BY <1>2, <1>3, <1>5, PopFacts DEF QueueHolds
<1>9. p \in Entries(q)
      BY <1>3, <1>5 DEF Entries
<1>10. state[p] = "READY" /\ QueueOf(sched.algo, pcb, p) = l
      BY <1>9, AllReady DEF Belong
<1>11. \A k \in Level : Q[k] \in Seq(Pid) /\ QueueHolds(Q[k], Entries(sched.queue[k]) \ {p})
  <2> SUFFICES ASSUME NEW k \in Level, k # l
               PROVE  Q[k] \in Seq(Pid) /\ QueueHolds(Q[k], Entries(sched.queue[k]) \ {p})
      BY <1>8, Zenon
  <2>1. Q[k] = sched.queue[k]
        OBVIOUS
  <2>2. p \notin Entries(sched.queue[k])
        BY <1>10, AllReady DEF Belong
  <2>3. QED BY <2>1, <2>2, AllReady DEF QueueHolds
<1>12. 0 \in Level
      BY SchedAssumption DEF Level
<1>13. \A a \in Pid \ {p}, b \in Pid : Ahead(sched.queue[0], a, b) => Ahead(Q[0], a, b)
      BY <1>8, <1>12
<1>14. Q \in [Level -> Seq(Pid)]
      BY <1>11, Zenon
<1> HIDE DEF Q
<1>15. sched' \in SchedType
  <2>1. 0 \in 0 .. MaxQuantum
        BY SchedAssumption
  <2>2. QED BY <1>7, <1>14, <2>1, Zenon DEF SchedType
<1>16. sched'.algo = sched.algo /\ sched'.quantum = sched.quantum /\ sched'.queue = Q
       /\ sched'.current = p /\ sched'.consumed = 0
      BY <1>7, <1>15 DEF SchedType
<1>17. QED BY <1>10, <1>11, <1>13, <1>15, <1>16, Zenon DEF PickedFrom

LEMMA HeapTakesOne ==
  ASSUME sched \in SchedType, QueuesHold(sched, state, pcb), NEW p \in Pid, HeapPicks(p),
         sched.algo = "PRIO", HasKeys(pcb), HeapOrdered(pcb, sched.queue[0])
  PROVE  /\ state[p] = "READY"
         /\ PickedFrom(sched, p, sched')
         /\ \A a \in Pid : state[a] = "READY" => ~ PrioLess(pcb, a, p)
<1> DEFINE q == sched.queue[0]
           r == HeapPop(pcb, q)
<1>1. 0 \in Level
      BY SchedAssumption DEF Level
<1>2. q \in Seq(Pid) /\ NoRepeats(q) /\ Len(q) \in Nat
      BY <1>1, AllReady
<1>5. \A a \in Pid : QueueOf(sched.algo, pcb, a) = 0
      BY DEF QueueOf
<1>6. Entries(q) = {a \in Pid : state[a] = "READY"}
      BY <1>1, <1>5, AllReady DEF Belong
<1>3. /\ q # <<>> /\ p = q[1]
      /\ sched' = [sched EXCEPT !.queue[0] = r, !.current = p, !.consumed = 0]
  <2>1. \A i \in DOMAIN q : state[q[i]] = "READY"
        BY <1>6 DEF Entries
  <2>2. Iterated(DropStale, q, Len(q)) = q
        BY <1>2, <2>1, NothingStale
  <2>3. QED BY <2>2, Zenon DEF HeapPicks
<1>4. r \in Seq(Pid) /\ QueueHolds(r, Entries(q) \ {p})
      BY <1>2, <1>3, HeapPopFacts DEF QueueHolds
<1>7. state[p] = "READY"
  <2>1. 1 \in DOMAIN q
        BY <1>2, <1>3
  <2>2. QED BY <1>3, <1>6, <2>1 DEF Entries
<1>8. \A a \in Pid : state[a] = "READY" => ~ PrioLess(pcb, a, p)
  <2>1. \A a \in Pid : state[a] = "READY" => \E j \in DOMAIN q : q[j] = a
        BY <1>6 DEF Entries
  <2>2. \A j \in DOMAIN q : ~ PrioLess(pcb, q[j], q[1])
        BY <1>2, RootLeast
  <2>3. QED BY <1>3, <2>1, <2>2
<1> HIDE DEF r
<1> DEFINE Q == [sched.queue EXCEPT ![0] = r]
<1>9. sched' = [sched EXCEPT !.queue = Q, !.current = p, !.consumed = 0]
      BY <1>3
<1>10. \A k \in Level : Q[k] \in Seq(Pid) /\ QueueHolds(Q[k], Entries(sched.queue[k]) \ {p})
  <2> SUFFICES ASSUME NEW k \in Level, k # 0
               PROVE  Q[k] \in Seq(Pid) /\ QueueHolds(Q[k], Entries(sched.queue[k]) \ {p})
      BY <1>4, <1>1, Zenon DEF SchedType
  <2>1. Q[k] = sched.queue[k]
        BY DEF SchedType
  <2>2. p \notin Entries(sched.queue[k])
        BY <1>5, AllReady DEF Belong
  <2>3. QED BY <2>1, <2>2, AllReady DEF QueueHolds
<1>11. Q \in [Level -> Seq(Pid)]
      BY <1>10, Zenon DEF SchedType
<1> HIDE DEF Q
<1>12. sched' \in SchedType
  <2>1. 0 \in 0 .. MaxQuantum
        BY SchedAssumption
  <2>2. QED BY <1>9, <1>11, <2>1, Zenon DEF SchedType
<1>13. sched'.algo = sched.algo /\ sched'.quantum = sched.quantum /\ sched'.queue = Q
       /\ sched'.current = p /\ sched'.consumed = 0
      BY <1>9, <1>12 DEF SchedType
<1>14. QED BY <1>7, <1>8, <1>10, <1>12, <1>13 DEF PickedFrom

\* Dispatching what was picked keeps the queues right.
LEMMA PickedHolds ==
  ASSUME NEW sc, NEW sc2, NEW st, NEW st2, NEW pc, NEW p \in Pid,
         QueuesHold(sc, st, pc), PickedFrom(sc, p, sc2),
         \A a \in Pid : st2[a] = "READY" <=> st[a] = "READY" /\ a # p
  PROVE  QueuesHold(sc2, st2, pc)
<1> SUFFICES ASSUME NEW l \in Level
             PROVE  QueueHolds(sc2.queue[l], Belong(sc2.algo, st2, pc, l))
    BY DEF QueuesHold
<1>1. Entries(sc.queue[l]) \ {p} = Belong(sc2.algo, st2, pc, l)
      BY DEF QueuesHold, QueueHolds, PickedFrom, Belong
<1>2. QED BY <1>1 DEF PickedFrom

-----------------------------------------------------------------------------
(***************************************************************************)
(* The fields of scheduler_t and pcb_t stay in range                       *)
(***************************************************************************)
LEMMA ClampRange == \A n \in Int : Clamp(n) \in 0 .. MaxPrio
BY SchedAssumption DEF Clamp

LEMMA NewPcbType == \A n \in Int : NewPcb(n) \in PcbType
<1>1. 0 \in Level /\ 0 \in 0 .. MaxAge
      BY SchedAssumption DEF Level
<1>2. QED BY <1>1, ClampRange, Zenon DEF NewPcb, PcbType

LEMMA ZeroAge == 0 \in 0 .. MaxAge
BY SchedAssumption

LEMMA AgedPrioRange ==
  ASSUME NEW pc \in [Pid -> PcbType], NEW p \in Pid
  PROVE  AgedPrio(pc, p) \in 0 .. MaxPrio
<1>1. pc[p].prio \in 0 .. MaxPrio
      BY DEF PcbType
<1>2. AgedPrio(pc, p) = pc[p].prio \/ (pc[p].prio > 0 /\ AgedPrio(pc, p) = pc[p].prio - 1)
      BY DEF AgedPrio
<1>3. QED BY <1>1, <1>2, SchedAssumption

LEMMA OlderRange == \A n \in 0 .. MaxAge : Older(n) \in 0 .. MaxAge
BY SchedAssumption DEF Older

LEMMA AfterTickFacts ==
  ASSUME NEW pc \in [Pid -> PcbType]
  PROVE  /\ AfterTick(pc) \in [Pid -> PcbType]
         /\ \A p \in Pid : AfterTick(pc)[p].level = pc[p].level
<1> SUFFICES ASSUME NEW p \in Pid
             PROVE  AfterTick(pc)[p] \in PcbType /\ AfterTick(pc)[p].level = pc[p].level
    BY Zenon DEF AfterTick
<1> DEFINE n == IF state[p] \in {"READY", "RUNNING"} THEN Older(pc[p].age) ELSE pc[p].age
           w == IF pc[p].wakeIn \in {None, 0} THEN pc[p].wakeIn ELSE pc[p].wakeIn - 1
<1>1. pc[p].age \in 0 .. MaxAge /\ pc[p].wakeIn \in (0 .. MaxIo) \cup {None}
      BY DEF PcbType
<1>2. n \in 0 .. MaxAge
      BY <1>1, OlderRange
<1>3. w \in (0 .. MaxIo) \cup {None}
  <2>1. CASE pc[p].wakeIn \in {None, 0}
        BY <2>1, <1>1
  <2>2. CASE pc[p].wakeIn \notin {None, 0}
        BY <2>2, <1>1, KernelAssumption
  <2>3. QED BY <2>1, <2>2
<1>4. AfterTick(pc)[p] = [pc[p] EXCEPT !.age = n, !.wakeIn = w]
      BY DEF AfterTick, PcbType
<1> HIDE DEF n, w
<1>5. pc[p] \in PcbType
      OBVIOUS
<1>6. AfterTick(pc)[p] \in PcbType
      BY <1>2, <1>3, <1>4, <1>5, Zenon DEF PcbType
<1>7. AfterTick(pc)[p].level = pc[p].level
      BY <1>4, <1>5 DEF PcbType
<1>8. QED BY <1>6, <1>7

LEMMA SchedUpdates ==
  ASSUME NEW sc \in SchedType
  PROVE  /\ \A n \in 1 .. MaxQuantum : [sc EXCEPT !.quantum = n] \in SchedType
         /\ \A n \in 0 .. MaxQuantum : [sc EXCEPT !.consumed = n] \in SchedType
         /\ \A n \in 0 .. BoostInterval : [sc EXCEPT !.sinceBoost = n] \in SchedType
         /\ \A Q \in [Level -> Seq(Pid)] :
              [sc EXCEPT !.queue = Q, !.current = None, !.consumed = 0] \in SchedType
<1>1. 0 \in 0 .. MaxQuantum
      BY SchedAssumption
<1>2. \A n \in 1 .. MaxQuantum : [sc EXCEPT !.quantum = n] \in SchedType
      BY Zenon DEF SchedType
<1>3. \A n \in 0 .. MaxQuantum : [sc EXCEPT !.consumed = n] \in SchedType
      BY Zenon DEF SchedType
<1>4. \A n \in 0 .. BoostInterval : [sc EXCEPT !.sinceBoost = n] \in SchedType
      BY Zenon DEF SchedType
<1>5. \A Q \in [Level -> Seq(Pid)] :
        [sc EXCEPT !.queue = Q, !.current = None, !.consumed = 0] \in SchedType
      BY <1>1, Zenon DEF SchedType
<1>6. QED BY <1>2, <1>3, <1>4, <1>5, Zenon

\* sched_on_tick and the passing of the tick leave the queues alone.
LEMMA TickFacts ==
  ASSUME NEW sc \in SchedType, NEW p
  PROVE  /\ Ticked(sc) \in SchedType /\ Ticked(sc).queue = sc.queue /\ Ticked(sc).algo = sc.algo
         /\ Ticked(sc).quantum = sc.quantum /\ Ticked(sc).current = sc.current
         /\ Ticked(sc).consumed = sc.consumed
         /\ OnTick(sc, p) \in SchedType /\ OnTick(sc, p).queue = sc.queue
         /\ OnTick(sc, p).algo = sc.algo /\ OnTick(sc, p).quantum = sc.quantum
         /\ OnTick(sc, p).current = sc.current
         /\ OnTick(sc, p).consumed = IF sc.current = p THEN Counted(sc.consumed) ELSE sc.consumed
<1>1. sc.sinceBoost \in 0 .. BoostInterval /\ sc.consumed \in 0 .. MaxQuantum
      BY DEF SchedType
<1>2. Later(sc.sinceBoost) \in 0 .. BoostInterval
      BY <1>1, SchedAssumption DEF Later
<1>3. Counted(sc.consumed) \in 0 .. MaxQuantum
      BY <1>1, SchedAssumption DEF Counted
<1>4. Ticked(sc) \in SchedType
      BY <1>2, SchedUpdates, Zenon DEF Ticked
<1>5. OnTick(sc, p) \in SchedType
      BY <1>3, SchedUpdates, Zenon DEF OnTick
<1>6. QED BY <1>4, <1>5, Zenon DEF Ticked, OnTick, SchedType

-----------------------------------------------------------------------------
(***************************************************************************)
(* The runtime loop.  The invariant says that the CPU has one user, that   *)
(* the queues hold the READY processes, and that the heap is in order when *)
(* dispatch takes from it.  The three need each other: proc_set_state      *)
(* refuses nothing as long as they hold.                                   *)
(***************************************************************************)
\* The variables of the loop, and the clock.
LoopTypeOK ==
  /\ tick \in 0 .. BoostInterval
  /\ remaining \in [Pid -> 0 .. MaxBurst]
  /\ resched \in BOOLEAN /\ armed \in BOOLEAN
  /\ phase \in {"shell", "wake", "dispatch", "exec"}
  /\ guard \in 0 .. MaxGuard
  /\ ran \in 0 .. MaxQuantum

\* The scheduler and the PCBs.
SchedInv ==
  /\ sched \in SchedType
  /\ pcb \in [Pid -> PcbType]
  /\ QueuesHold(sched, state, pcb)

\* dispatch is reached without a current process, right after the rebuild.
DispatchInv ==
  phase = "dispatch" =>
    current = None /\ (sched.algo = "PRIO" => HeapOrdered(pcb, sched.queue[0]))

\* The inductive invariant: that the running process is not READY keeps
\* maybe_preempt from queueing it twice.
KernelInv == LifecycleInv /\ LoopTypeOK /\ SchedInv /\ DispatchInv

LEMMA KeysOf ==
  ASSUME NEW pc \in [Pid -> PcbType]
  PROVE  HasKeys(pc)
BY DEF HasKeys, PcbType

LEMMA KernelInvTypes == KernelInv => KernelTypeOK
BY DEF KernelInv, LifecycleInv, LoopTypeOK, SchedInv, KernelTypeOK, SchedType, PcbType

LEMMA KernelInitInv == KernelInit => KernelInv
<1> SUFFICES ASSUME KernelInit PROVE KernelInv
    OBVIOUS
<1>1. LifecycleInv
      BY LifecycleInitInv DEF KernelInit
<1>2. LoopTypeOK
  <2>1. 0 \in 0 .. BoostInterval /\ 0 \in 0 .. MaxBurst /\ 0 \in 0 .. MaxGuard
        /\ 0 \in 0 .. MaxQuantum
        BY SchedAssumption, KernelAssumption
  <2>2. QED BY <2>1, Zenon DEF KernelInit, LoopTypeOK
<1>3. PICK a \in Algos : sched = Cleared(a, DefaultQuantum)
      BY KernelAssumption DEF KernelInit
<1>4. sched \in SchedType /\ \A l \in Level : sched.queue[l] = <<>>
      BY <1>2, <1>3, ClearedFacts, KernelAssumption DEF LoopTypeOK
<1>5. pcb \in [Pid -> PcbType]
  <2>1. NewPcb(0) \in PcbType
        BY NewPcbType
  <2>2. QED BY <2>1 DEF KernelInit
<1>6. QueuesHold(sched, state, pcb)
  <2>1. Entries(<<>>) = {} /\ NoRepeats(<<>>)
        BY DEF Entries, NoRepeats
  <2>2. \A p \in Pid : state[p] # "READY"
        BY Zenon DEF KernelInit, LifecycleInit
  <2>3. QED BY <1>4, <2>1, <2>2 DEF QueuesHold, QueueHolds, Belong
<1>7. DispatchInv
      BY DEF KernelInit, DispatchInv
<1>8. QED BY <1>1, <1>2, <1>4, <1>5, <1>6, <1>7 DEF KernelInv, SchedInv

LEMMA LoopTypeKept == LoopTypeOK /\ [KernelNext]_vars => LoopTypeOK'
<1> SUFFICES ASSUME LoopTypeOK, [KernelNext]_vars PROVE LoopTypeOK'
    OBVIOUS
<1> USE SchedAssumption, KernelAssumption DEF LoopTypeOK, loopVars
<1>1. CASE Step
      BY <1>1 DEF Step
<1>2. CASE Sigalrm \/ Start \/ Stop
      BY <1>2, Zenon DEF Sigalrm, Start, Stop
<1>3. CASE UNCHANGED vars
      BY <1>3 DEF vars
<1>4. ASSUME NEW p \in Pid, NEW n, RunWorkload(p, n) \/ SetPriority(p, n) \/ SetNice(p, n)
      PROVE  LoopTypeOK'
      BY <1>4 DEF RunWorkload, SetPriority, SetNice
<1>5. ASSUME NEW x, SetScheduler(x) \/ SetQuantum(x) PROVE LoopTypeOK'
      BY <1>5 DEF SetScheduler, SetQuantum
<1>6. ASSUME NEW p \in Pid, KillProcess(p) PROVE LoopTypeOK'
      BY <1>6 DEF KillProcess
<1>7. CASE WakeAndAge
      BY <1>7, Zenon DEF WakeAndAge
<1>8. Later(tick) \in 0 .. BoostInterval /\ Counted(ran) \in 0 .. MaxQuantum
      BY DEF Later, Counted
<1>9. CASE IdleTick
      BY <1>8, <1>9 DEF IdleTick
<1>10. ASSUME NEW p \in Pid, DispatchNext(p) PROVE LoopTypeOK'
      BY <1>10 DEF DispatchNext
<1>11. ASSUME NEW p \in Pid, NEW n \in 1 .. MaxBurst, CpuTick(p, n), resched' \in BOOLEAN
       PROVE  LoopTypeOK'
  <2>1. remaining' \in [Pid -> 0 .. MaxBurst]
        BY <1>11 DEF CpuTick
  <2>2. QED BY <1>8, <1>11, <2>1 DEF CpuTick
<1>12. ASSUME NEW p \in Pid, NEW n \in 1 .. MaxBurst, CpuContinues(p, n) \/ CpuPreempted(p, n)
       PROVE  LoopTypeOK'
  <2>1. CpuTick(p, n) /\ resched' \in BOOLEAN
        BY <1>12, Zenon DEF CpuContinues, CpuPreempted
  <2>2. QED BY <1>11, <2>1
<1>13. NoTick => LoopTypeOK'
      BY DEF NoTick
<1>14. ASSUME NEW p \in Pid, Execute(p) PROVE LoopTypeOK'
      BY <1>12, <1>13, <1>14, Zenon DEF Execute, IoStart, Immediate, ResourceWait, ExitInsn
<1>15. QED BY <1>1, <1>2, <1>3, <1>4, <1>5, <1>6, <1>7, <1>9, <1>10, <1>14, Zenon
           DEF KernelNext, Loop, ShellCommand

-----------------------------------------------------------------------------
(***************************************************************************)
(* The process states.  No change that the runtime asks proc_set_state for *)
(* is refused, so that every action takes a step of Lifecycle.             *)
(***************************************************************************)
LEMMA StatesTyped ==
  ASSUME KernelInv
  PROVE  /\ state \in [Pid -> States]
         /\ \A p \in Pid : state[p] = "RUNNING" <=> current = p
BY DEF KernelInv, LifecycleInv, LifecycleTypeOK, RunningIsCurrent

LEMMA EnqueueReadyAll ==
  ASSUME NEW S \in SUBSET Pid, NEW sc, NEW pc, EnqueueReady(S, sc, pc),
         \A a \in S : ValidTransition(state[a], "READY")
  PROVE  /\ state' = [a \in Pid |-> IF a \in S THEN "READY" ELSE state[a]]
         /\ pcb' = [a \in Pid |-> IF a \in S THEN [pc[a] EXCEPT !.age = 0] ELSE pc[a]]
         /\ sched' = Enqueued(sc, pcb', S)
<1>1. {a \in S : ValidTransition(state[a], "READY")} = S
      BY Zenon
<1>2. QED BY <1>1, Zenon DEF EnqueueReady

LEMMA RunWorkloadCreates ==
  ASSUME KernelInv, NEW p \in Pid, NEW n \in Prios, RunWorkload(p, n)
  PROVE  /\ Create(p)
         /\ pcb' = [pcb EXCEPT ![p] = NewPcb(n)]
         /\ sched' = Enqueued(sched, pcb', {p})
<1>1. PICK pc : pc = [pcb EXCEPT ![p] = NewPcb(n)]
      OBVIOUS
<1>2. state[p] = "UNUSED" /\ EnqueueReady({p}, sched, pc) /\ current' = current
      BY <1>1 DEF RunWorkload
<1>3. \A a \in {p} : ValidTransition(state[a], "READY")
      BY <1>2 DEF ValidTransition
<1>4. {p} \in SUBSET Pid
      OBVIOUS
<1>5. /\ state' = [a \in Pid |-> IF a \in {p} THEN "READY" ELSE state[a]]
      /\ pcb' = [a \in Pid |-> IF a \in {p} THEN [pc[a] EXCEPT !.age = 0] ELSE pc[a]]
      /\ sched' = Enqueued(sched, pcb', {p})
      BY <1>2, <1>3, <1>4, EnqueueReadyAll
<1>6. state' = [state EXCEPT ![p] = "READY"]
      BY <1>5, StatesTyped
<1>7. pcb' = pc
  <2>1. pcb \in [Pid -> PcbType]
        BY DEF KernelInv, SchedInv
  <2>2. [NewPcb(n) EXCEPT !.age = 0] = NewPcb(n)
        BY DEF NewPcb
  <2>3. pc[p] = NewPcb(n) /\ pc = [a \in Pid |-> pc[a]]
        BY <1>1, <2>1
  <2>4. QED BY <1>5, <2>2, <2>3
<1>8. QED BY <1>1, <1>2, <1>5, <1>6, <1>7 DEF Create

\* Killing a process that has exited changes nothing.
LEMMA KillProcessKills ==
  ASSUME KernelInv, NEW p \in Pid, KillProcess(p)
  PROVE  \/ /\ Kill(p)
            /\ pcb' = [pcb EXCEPT ![p].wakeIn = None, ![p].age = 0]
            /\ sched' = Rebuilt(sched, state', pcb')
         \/ UNCHANGED <<lifecycleVars, pcb, sched>>
<1>1. /\ state[p] # "UNUSED" /\ state' = Moved(p, "EXITED")
      /\ current' = IF current = p THEN None ELSE current
      /\ IF ValidTransition(state[p], "EXITED")
         THEN /\ pcb' = [pcb EXCEPT ![p].wakeIn = None, ![p].age = 0]
              /\ sched' = Rebuilt(sched, state', pcb')
         ELSE UNCHANGED <<pcb, sched>>
      BY Zenon DEF KillProcess
<1>2. CASE state[p] = "EXITED"
  <2>1. ~ ValidTransition(state[p], "EXITED") /\ current # p
        BY <1>2, StatesTyped DEF ValidTransition
  <2>2. QED BY <1>1, <2>1 DEF Moved, lifecycleVars
<1>3. CASE state[p] # "EXITED"
  <2>1. p \in Alive /\ ValidTransition(state[p], "EXITED")
        BY <1>1, <1>3, StatesTyped DEF ValidTransition, Alive, States
  <2>2. QED BY <1>1, <2>1 DEF Moved, Kill
<1>4. QED BY <1>2, <1>3

LEMMA LeaveCpuLeaves ==
  ASSUME KernelInv, NEW p \in Pid, current = p, NEW s \in {"BLOCKED", "EXITED"}, LeaveCpu(p, s)
  PROVE  Leave(p, s)
<1>1. ValidTransition(state[p], s)
      BY StatesTyped DEF ValidTransition
<1>2. QED BY <1>1 DEF LeaveCpu, Moved, Leave

LEMMA CpuPreemptedLeaves ==
  ASSUME KernelInv, NEW p \in Pid, NEW n, CpuPreempted(p, n)
  PROVE  /\ Leave(p, "READY")
         /\ pcb' = [AfterTick(pcb) EXCEPT ![p].level = DemotedLevel(@), ![p].age = 0]
         /\ sched' = Enqueued(Ticked(OnTick(sched, p)), pcb', {p})
<1>1. PICK sc : sc = Ticked(OnTick(sched, p))
      OBVIOUS
<1>2. PICK pc : pc = [AfterTick(pcb) EXCEPT ![p].level = DemotedLevel(@)]
      OBVIOUS
<1>3. EnqueueReady({p}, sc, pc) /\ current = p /\ current' = None
      BY <1>1, <1>2 DEF CpuPreempted, CpuTick
<1>4. \A a \in {p} : ValidTransition(state[a], "READY")
      BY <1>3, StatesTyped DEF ValidTransition
<1>5. {p} \in SUBSET Pid
      OBVIOUS
<1>6. /\ state' = [a \in Pid |-> IF a \in {p} THEN "READY" ELSE state[a]]
      /\ pcb' = [a \in Pid |-> IF a \in {p} THEN [pc[a] EXCEPT !.age = 0] ELSE pc[a]]
      /\ sched' = Enqueued(sc, pcb', {p})
      BY <1>3, <1>4, <1>5, EnqueueReadyAll
<1>7. state' = [state EXCEPT ![p] = "READY"]
      BY <1>6, StatesTyped
<1>8. pcb' = [pc EXCEPT ![p].age = 0]
  <2>1. pc = [a \in Pid |-> pc[a]]
        BY <1>2 DEF AfterTick
  <2>2. QED BY <1>6, <2>1
<1>9. pcb' = [AfterTick(pcb) EXCEPT ![p].level = DemotedLevel(@), ![p].age = 0]
      BY <1>2, <1>8, Zenon
<1>10. QED BY <1>1, <1>3, <1>6, <1>7, <1>9 DEF Leave

LEMMA ImmediateWakes ==
  ASSUME NEW p \in Pid, NEW S \in Wakeable, Immediate(p, S)
  PROVE  /\ S \in SUBSET Pid /\ \A a \in S : state[a] = "BLOCKED"
         /\ Wake(S)
         /\ pcb' = [a \in Pid |-> IF a \in S THEN [pcb[a] EXCEPT !.age = 0] ELSE pcb[a]]
         /\ sched' = Enqueued(sched, pcb', S)
<1>1. S \in SUBSET Pid /\ \A a \in S : state[a] = "BLOCKED"
      BY DEF Wakeable
<1>2. \A a \in S : ValidTransition(state[a], "READY")
      BY <1>1 DEF ValidTransition
<1>3. EnqueueReady(S, sched, pcb) /\ current' = current
      BY DEF Immediate
<1>4. /\ state' = [a \in Pid |-> IF a \in S THEN "READY" ELSE state[a]]
      /\ pcb' = [a \in Pid |-> IF a \in S THEN [pcb[a] EXCEPT !.age = 0] ELSE pcb[a]]
      /\ sched' = Enqueued(sched, pcb', S)
      BY <1>1, <1>2, <1>3, EnqueueReadyAll
<1>5. Wake(S)
      BY <1>1, <1>3, <1>4 DEF Wake, WakeAll
<1>6. QED BY <1>1, <1>4, <1>5

LEMMA WakeAndAgeWakes ==
  ASSUME WakeAndAge
  PROVE  /\ Due \in SUBSET Pid /\ \A a \in Due : state[a] = "BLOCKED"
         /\ Wake(Due)
<1>1. Due \in SUBSET Pid /\ \A a \in Due : state[a] = "BLOCKED"
      BY DEF Due
<1>2. state' = [a \in Pid |-> IF a \in Due THEN "READY" ELSE state[a]] /\ current' = current
      BY Zenon DEF WakeAndAge
<1>3. QED BY <1>1, <1>2 DEF Wake, WakeAll

LEMMA DispatchPicks ==
  ASSUME KernelInv, NEW p \in Pid, DispatchNext(p)
  PROVE  Dispatch(p) /\ PickedFrom(sched, p, sched')
<1>1. sched \in SchedType /\ QueuesHold(sched, state, pcb) /\ HasKeys(pcb)
      BY KeysOf DEF KernelInv, SchedInv
<1>2. /\ current = None
      /\ sched.algo = "PRIO" => HeapOrdered(pcb, sched.queue[0])
      BY DEF DispatchNext, KernelInv, DispatchInv
<1>3. state[p] = "READY" /\ PickedFrom(sched, p, sched')
  <2>1. PickNext(p)
        BY DEF DispatchNext
  <2>2. CASE sched.algo = "PRIO"
    <3>1. HeapPicks(p)
          BY <2>1, <2>2 DEF PickNext
    <3>2. QED BY <1>1, <1>2, <2>2, <3>1, HeapTakesOne
  <2>3. CASE sched.algo # "PRIO"
    <3>1. FifoPicks(p)
          BY <2>1, <2>3 DEF PickNext
    <3>2. QED BY <1>1, <3>1, FifoTakesHead
  <2>4. QED BY <2>2, <2>3
<1>4. ValidTransition(state[p], "RUNNING")
      BY <1>3 DEF ValidTransition
<1>5. QED BY <1>2, <1>3, <1>4 DEF DispatchNext, Moved, Dispatch

LEMMA KernelTakesLifecycleSteps ==
  KernelInv /\ [KernelNext]_vars => [LifecycleNext]_lifecycleVars
<1> SUFFICES ASSUME KernelInv, [KernelNext]_vars PROVE [LifecycleNext]_lifecycleVars
    OBVIOUS
<1>1. ASSUME NEW p \in Pid, NEW n \in Prios, RunWorkload(p, n) PROVE LifecycleNext
      BY <1>1, RunWorkloadCreates, Zenon DEF LifecycleNext
<1>2. ASSUME NEW p \in Pid, KillProcess(p) PROVE LifecycleNext \/ UNCHANGED lifecycleVars
      BY <1>2, KillProcessKills, Zenon DEF LifecycleNext
<1>3. ASSUME NEW p \in Pid, DispatchNext(p) PROVE LifecycleNext
      BY <1>3, DispatchPicks, Zenon DEF LifecycleNext
<1>4. CASE WakeAndAge
      BY <1>4, WakeAndAgeWakes, Zenon DEF LifecycleNext
<1>5. ASSUME NEW p \in Pid, Execute(p) PROVE LifecycleNext \/ UNCHANGED lifecycleVars
  <2>1. ASSUME NEW n, CpuContinues(p, n) PROVE UNCHANGED lifecycleVars
        BY <2>1, Zenon DEF CpuContinues
  <2>2. ASSUME NEW n, CpuPreempted(p, n) PROVE LifecycleNext
        BY <2>2, CpuPreemptedLeaves, Zenon DEF LifecycleNext
  <2>3. ASSUME NEW n, IoStart(p, n) PROVE LifecycleNext
        BY <2>3, LeaveCpuLeaves, Zenon DEF IoStart, Executes, LifecycleNext
  <2>4. ASSUME NEW S \in Wakeable, Immediate(p, S) PROVE LifecycleNext
        BY <2>4, ImmediateWakes, Zenon DEF LifecycleNext
  <2>5. ASSUME ResourceWait(p) PROVE LifecycleNext
        BY <2>5, LeaveCpuLeaves, Zenon DEF ResourceWait, Executes, LifecycleNext
  <2>6. ASSUME ExitInsn(p) PROVE LifecycleNext
        BY <2>6, LeaveCpuLeaves, Zenon DEF ExitInsn, Executes, LifecycleNext
  <2>7. QED BY <1>5, <2>1, <2>2, <2>3, <2>4, <2>5, <2>6, Zenon DEF Execute
<1>6. CASE IdleTick \/ Step \/ Sigalrm \/ Start \/ Stop
      BY <1>6, Zenon DEF IdleTick, Step, Sigalrm, Start, Stop
<1>7. ASSUME NEW p \in Pid, NEW n, SetPriority(p, n) \/ SetNice(p, n)
      PROVE  UNCHANGED lifecycleVars
      BY <1>7, Zenon DEF SetPriority, SetNice
<1>8. ASSUME NEW x, SetScheduler(x) \/ SetQuantum(x) PROVE UNCHANGED lifecycleVars
      BY <1>8, Zenon DEF SetScheduler, SetQuantum
<1>9. CASE UNCHANGED vars
      BY <1>9 DEF vars, lifecycleVars
<1>10. QED BY <1>1, <1>2, <1>3, <1>4, <1>5, <1>6, <1>7, <1>8, <1>9, Zenon
           DEF KernelNext, Loop, ShellCommand

-----------------------------------------------------------------------------
(***************************************************************************)
(* Every action keeps the queues right.  Shell commands first.             *)
(***************************************************************************)
LEMMA RunWorkloadInv ==
  ASSUME KernelInv, NEW p \in Pid, NEW n \in Prios, RunWorkload(p, n)
  PROVE  SchedInv'
<1>1. sched \in SchedType /\ pcb \in [Pid -> PcbType] /\ QueuesHold(sched, state, pcb)
      /\ state \in [Pid -> States]
      BY DEF KernelInv, SchedInv, LifecycleInv, LifecycleTypeOK
<1>2. /\ state[p] = "UNUSED" /\ state' = [state EXCEPT ![p] = "READY"]
      /\ pcb' = [pcb EXCEPT ![p] = NewPcb(n)] /\ sched' = Enqueued(sched, pcb', {p})
      BY RunWorkloadCreates DEF Create
<1>3. NewPcb(n) \in PcbType
      BY NewPcbType, KernelAssumption
<1>4. pcb' \in [Pid -> PcbType]
      BY <1>1, <1>2, <1>3
<1>5. sched' \in SchedType
      BY <1>1, <1>2, EnqueuedFacts
<1>6. QueuesHold(Enqueued(sched, pcb', {p}), state', pcb')
  <2>1. \A a \in Pid : state'[a] = "READY" <=> state[a] = "READY" \/ a \in {p}
        BY <1>1, <1>2
  <2>2. \A a \in Pid : state[a] = "READY" => pcb'[a].level = pcb[a].level
        BY <1>1, <1>2
  <2>3. {p} \in SUBSET Pid /\ \A a \in {p} : state[a] # "READY"
        BY <1>2
  <2>4. QED BY <1>1, <2>1, <2>2, <2>3, EnqueuedHolds
<1>7. QED BY <1>2, <1>4, <1>5, <1>6 DEF SchedInv

LEMMA KillProcessInv ==
  ASSUME KernelInv, NEW p \in Pid, KillProcess(p)
  PROVE  SchedInv'
<1>1. sched \in SchedType /\ pcb \in [Pid -> PcbType] /\ tick \in 0 .. BoostInterval
      BY DEF KernelInv, SchedInv, LoopTypeOK
<1>2. CASE UNCHANGED <<lifecycleVars, pcb, sched>>
      BY <1>2 DEF KernelInv, SchedInv, lifecycleVars
<1>3. CASE /\ pcb' = [pcb EXCEPT ![p].wakeIn = None, ![p].age = 0]
           /\ sched' = Rebuilt(sched, state', pcb')
  <2>1. pcb' \in [Pid -> PcbType]
        BY <1>1, <1>3, ZeroAge, Zenon DEF PcbType
  <2>2. sched' \in SchedType /\ QueuesHold(sched', state', pcb')
        BY <1>1, <1>3, RebuiltFacts
  <2>3. QED BY <2>1, <2>2 DEF SchedInv
<1>4. QED BY <1>2, <1>3, KillProcessKills, Zenon

LEMMA SetSchedulerInv ==
  ASSUME KernelInv, NEW a \in Algos, SetScheduler(a)
  PROVE  SchedInv'
<1>1. sched \in SchedType /\ pcb \in [Pid -> PcbType] /\ tick \in 0 .. BoostInterval
      BY DEF KernelInv, SchedInv, LoopTypeOK
<1>2. sched' = Rebuilt(Cleared(a, sched.quantum), state, pcb) /\ state' = state /\ pcb' = pcb
      BY DEF SetScheduler, lifecycleVars
<1>3. Cleared(a, sched.quantum) \in SchedType
  <2>1. sched.quantum \in 1 .. MaxQuantum
        BY <1>1 DEF SchedType
  <2>2. QED BY <1>1, <2>1, ClearedFacts
<1>4. sched' \in SchedType /\ QueuesHold(sched', state, pcb)
      BY <1>1, <1>2, <1>3, RebuiltFacts
<1>5. QED BY <1>1, <1>2, <1>4 DEF SchedInv

LEMMA SetQuantumInv ==
  ASSUME KernelInv, NEW n \in Quanta, SetQuantum(n)
  PROVE  SchedInv'
<1>1. sched \in SchedType /\ pcb \in [Pid -> PcbType] /\ QueuesHold(sched, state, pcb)
      BY DEF KernelInv, SchedInv
<1>0. PICK k : k = IF n = 0 THEN 1 ELSE n
      OBVIOUS
<1>2. sched' = [sched EXCEPT !.quantum = k] /\ state' = state /\ pcb' = pcb
      BY <1>0 DEF SetQuantum, lifecycleVars
<1>3. k \in 1 .. MaxQuantum
      BY <1>0, SchedAssumption, KernelAssumption
<1>4. sched' \in SchedType /\ sched'.queue = sched.queue /\ sched'.algo = sched.algo
  <2>1. sched' \in SchedType
        BY <1>1, <1>2, <1>3, Zenon DEF SchedType
  <2>2. sched'.queue = sched.queue /\ sched'.algo = sched.algo
        BY <1>1, <1>2 DEF SchedType
  <2>3. QED BY <2>1, <2>2
<1>5. QueuesHold(sched', state', pcb')
      BY <1>1, <1>2, <1>4 DEF QueuesHold
<1>6. QED BY <1>1, <1>2, <1>4, <1>5 DEF SchedInv

LEMMA SetPrioInv ==
  ASSUME KernelInv, NEW p \in Pid, NEW n \in Int, SetPriority(p, n) \/ SetNice(p, n)
  PROVE  SchedInv'
<1>1. sched \in SchedType /\ pcb \in [Pid -> PcbType] /\ QueuesHold(sched, state, pcb)
      BY DEF KernelInv, SchedInv
<1>2. sched' = sched /\ state' = state
      BY DEF SetPriority, SetNice, lifecycleVars
<1>3. Clamp(n) \in 0 .. MaxPrio /\ Clamp(pcb[p].base + n) \in 0 .. MaxPrio
  <2>1. pcb[p].base \in Int
        BY <1>1 DEF PcbType
  <2>2. pcb[p].base + n \in Int
        BY <2>1
  <2>3. QED BY <2>2, ClampRange
<1>4. pcb' \in [Pid -> PcbType] /\ \A a \in Pid : pcb'[a].level = pcb[a].level
  <2>1. CASE SetPriority(p, n)
    <3>1. pcb' = [pcb EXCEPT ![p].base = Clamp(n), ![p].prio = Clamp(n)]
          BY <2>1 DEF SetPriority
    <3>2. pcb' \in [Pid -> PcbType]
          BY <1>1, <1>3, <3>1, Zenon DEF PcbType
    <3>3. QED BY <1>1, <3>1, <3>2 DEF PcbType
  <2>2. CASE SetNice(p, n)
    <3>1. pcb' = [pcb EXCEPT ![p].prio = Clamp(pcb[p].base + n)]
          BY <2>2 DEF SetNice
    <3>2. pcb' \in [Pid -> PcbType]
          BY <1>1, <1>3, <3>1, Zenon DEF PcbType
    <3>3. QED BY <1>1, <3>1, <3>2 DEF PcbType
  <2>3. QED BY <2>1, <2>2
<1>5. QueuesHold(sched', state', pcb')
      BY <1>1, <1>2, <1>4, SameQueues
<1>6. QED BY <1>1, <1>2, <1>4, <1>5 DEF SchedInv

\* The process that runs is not READY, and leaving the CPU for another state
\* than READY is none of the queues' business.
LEMMA LeaveFacts ==
  ASSUME KernelInv, NEW p \in Pid, NEW s \in {"READY", "BLOCKED", "EXITED"}, Leave(p, s)
  PROVE  /\ state[p] = "RUNNING"
         /\ \A a \in Pid : state'[a] = "READY" <=> state[a] = "READY" \/ (a = p /\ s = "READY")
BY DEF KernelInv, LifecycleInv, LifecycleTypeOK, RunningIsCurrent, Leave, States

LEMMA LeavesCpuInv ==
  ASSUME KernelInv, NEW p \in Pid,
         (\E n \in 1 .. MaxIo : IoStart(p, n)) \/ ResourceWait(p) \/ ExitInsn(p)
  PROVE  SchedInv'
<1>1. sched \in SchedType /\ pcb \in [Pid -> PcbType] /\ QueuesHold(sched, state, pcb)
      BY DEF KernelInv, SchedInv
<1>2. sched' = sched
      BY Zenon DEF IoStart, ResourceWait, ExitInsn
<1>3. PICK s \in {"BLOCKED", "EXITED"} : Leave(p, s)
      BY LeaveCpuLeaves, Zenon DEF IoStart, ResourceWait, ExitInsn, Executes
<1>4. \A a \in Pid : state'[a] = "READY" <=> state[a] = "READY"
      BY <1>3, LeaveFacts
<1>5. pcb' \in [Pid -> PcbType] /\ \A a \in Pid : pcb'[a].level = pcb[a].level
  <2>1. ASSUME NEW n \in 1 .. MaxIo, IoStart(p, n)
        PROVE  pcb' \in [Pid -> PcbType] /\ \A a \in Pid : pcb'[a].level = pcb[a].level
    <3>1. n \in 0 .. MaxIo
          BY KernelAssumption
    <3>2. pcb' = [pcb EXCEPT ![p].wakeIn = n, ![p].age = 0]
          BY <2>1 DEF IoStart
    <3>3. pcb' \in [Pid -> PcbType]
          BY <1>1, <3>1, <3>2, ZeroAge, Zenon DEF PcbType
    <3>4. QED BY <1>1, <3>2, <3>3 DEF PcbType
  <2>2. CASE ResourceWait(p) \/ ExitInsn(p)
    <3>1. pcb' = [pcb EXCEPT ![p].age = 0]
          BY <2>2 DEF ResourceWait, ExitInsn
    <3>2. pcb' \in [Pid -> PcbType]
          BY <1>1, <3>1, ZeroAge, Zenon DEF PcbType
    <3>3. QED BY <1>1, <3>1, <3>2 DEF PcbType
  <2>3. QED BY <2>1, <2>2
<1>6. QueuesHold(sched', state', pcb')
      BY <1>1, <1>2, <1>4, <1>5, SameQueues
<1>7. QED BY <1>1, <1>2, <1>5, <1>6 DEF SchedInv

\* wake_pid for processes that wait for a resource.
LEMMA ImmediateInv ==
  ASSUME KernelInv, NEW p \in Pid, NEW S \in Wakeable, Immediate(p, S)
  PROVE  SchedInv'
<1>1. sched \in SchedType /\ pcb \in [Pid -> PcbType] /\ QueuesHold(sched, state, pcb)
      /\ state \in [Pid -> States]
      BY DEF KernelInv, SchedInv, LifecycleInv, LifecycleTypeOK
<1>2. S \in SUBSET Pid /\ \A a \in S : state[a] = "BLOCKED"
      BY ImmediateWakes
<1>3. /\ state' = [a \in Pid |-> IF a \in S /\ state[a] = "BLOCKED" THEN "READY" ELSE state[a]]
      /\ pcb' = [a \in Pid |-> IF a \in S THEN [pcb[a] EXCEPT !.age = 0] ELSE pcb[a]]
      /\ sched' = Enqueued(sched, pcb', S)
      BY ImmediateWakes DEF Wake, WakeAll
<1>4. pcb' \in [Pid -> PcbType] /\ \A a \in Pid : pcb'[a].level = pcb[a].level
  <2>1. \A a \in Pid : [pcb[a] EXCEPT !.age = 0] \in PcbType
        BY <1>1, ZeroAge, Zenon DEF PcbType
  <2>2. \A a \in Pid : [pcb[a] EXCEPT !.age = 0].level = pcb[a].level
        BY <1>1 DEF PcbType
  <2>3. QED BY <1>1, <1>3, <2>1, <2>2
<1>5. sched' \in SchedType
      BY <1>1, <1>2, <1>3, EnqueuedFacts
<1>6. QueuesHold(Enqueued(sched, pcb', S), state', pcb')
  <2>1. \A a \in Pid : state'[a] = "READY" <=> state[a] = "READY" \/ a \in S
        BY <1>2, <1>3
  <2>2. \A a \in S : state[a] # "READY"
        BY <1>2
  <2>3. QED BY <1>1, <1>2, <1>4, <2>1, <2>2, EnqueuedHolds
<1>7. QED BY <1>3, <1>4, <1>5, <1>6 DEF SchedInv

\* Nothing was READY, so nothing is lost when sched_pick_next drops the queues.
LEMMA IdleTickInv ==
  ASSUME KernelInv, IdleTick
  PROVE  SchedInv'
<1>1. sched \in SchedType /\ pcb \in [Pid -> PcbType] /\ QueuesHold(sched, state, pcb)
      BY DEF KernelInv, SchedInv
<1>2. /\ NothingToPick /\ sched' = Ticked(PickedNone)
      /\ pcb' = AfterTick(pcb) /\ state' = state
      BY DEF IdleTick, lifecycleVars
<1>3. [l \in Level |-> <<>>] \in [Level -> Seq(Pid)]
      OBVIOUS
<1>0. 0 \in 0 .. MaxQuantum
      BY SchedAssumption
<1>4. PickedNone \in SchedType
      BY <1>0, <1>1, <1>3, Zenon DEF PickedNone, SchedType
<1>5. PickedNone.algo = sched.algo /\ PickedNone.queue = [l \in Level |-> <<>>]
      BY <1>1 DEF PickedNone, SchedType
<1>6. PickedNone.queue = sched.queue
  <2>1. ASSUME NEW l \in Level PROVE sched.queue[l] = <<>>
    <3>1. ReadyAt(sched.queue[l]) = {}
          BY <1>2, Zenon DEF NothingToPick
    <3>2. sched.queue[l] \in Seq(Pid) /\ ReadyAt(sched.queue[l]) = DOMAIN sched.queue[l]
          BY <1>1, AllReady, Zenon
    <3>3. QED BY <3>1, <3>2, NoEntries, Zenon
  <2>2. sched.queue \in [Level -> Seq(Pid)]
        BY <1>1 DEF SchedType
  <2>3. QED BY <1>5, <2>1, <2>2
<1>7. sched' \in SchedType /\ sched'.queue = sched.queue /\ sched'.algo = sched.algo
      BY <1>2, <1>4, <1>5, <1>6, TickFacts
<1>8. pcb' \in [Pid -> PcbType] /\ \A a \in Pid : pcb'[a].level = pcb[a].level
      BY <1>1, <1>2, AfterTickFacts
<1>9. QueuesHold(sched', state', pcb')
      BY <1>1, <1>2, <1>7, <1>8, SameQueues
<1>10. QED BY <1>7, <1>8, <1>9 DEF SchedInv

LEMMA DispatchNextInv ==
  ASSUME KernelInv, NEW p \in Pid, DispatchNext(p)
  PROVE  SchedInv'
<1>1. sched \in SchedType /\ pcb \in [Pid -> PcbType] /\ QueuesHold(sched, state, pcb)
      /\ state \in [Pid -> States]
      BY DEF KernelInv, SchedInv, LifecycleInv, LifecycleTypeOK
<1>2. state' = [state EXCEPT ![p] = "RUNNING"] /\ pcb' = pcb
      BY DispatchPicks DEF DispatchNext, Dispatch
<1>3. PickedFrom(sched, p, sched')
      BY DispatchPicks
<1>4. \A a \in Pid : state'[a] = "READY" <=> state[a] = "READY" /\ a # p
      BY <1>1, <1>2
<1>5. QueuesHold(sched', state', pcb)
      BY <1>1, <1>3, <1>4, PickedHolds
<1>6. sched' \in SchedType
      BY <1>3 DEF PickedFrom
<1>7. QED BY <1>1, <1>2, <1>5, <1>6 DEF SchedInv

LEMMA CpuContinuesInv ==
  ASSUME KernelInv, NEW p \in Pid, NEW n, CpuContinues(p, n)
  PROVE  SchedInv'
<1>1. sched \in SchedType /\ pcb \in [Pid -> PcbType] /\ QueuesHold(sched, state, pcb)
      BY DEF KernelInv, SchedInv
<1>2. sched' = Ticked(OnTick(sched, p)) /\ pcb' = AfterTick(pcb) /\ state' = state
      BY DEF CpuContinues, lifecycleVars
<1>3. sched' \in SchedType /\ sched'.queue = sched.queue /\ sched'.algo = sched.algo
      BY <1>1, <1>2, TickFacts
<1>4. pcb' \in [Pid -> PcbType] /\ \A a \in Pid : pcb'[a].level = pcb[a].level
      BY <1>1, <1>2, AfterTickFacts
<1>5. QueuesHold(sched', state', pcb')
      BY <1>1, <1>2, <1>3, <1>4, SameQueues
<1>6. QED BY <1>3, <1>4, <1>5 DEF SchedInv

\* maybe_preempt: the process is demoted first and then queued on its new level.
LEMMA CpuPreemptedInv ==
  ASSUME KernelInv, NEW p \in Pid, NEW n, CpuPreempted(p, n)
  PROVE  SchedInv'
<1>1. sched \in SchedType /\ pcb \in [Pid -> PcbType] /\ QueuesHold(sched, state, pcb)
      BY DEF KernelInv, SchedInv
<1>2. PICK tk : tk = AfterTick(pcb)
      OBVIOUS
<1>3. PICK sc : sc = Ticked(OnTick(sched, p))
      OBVIOUS
<1>4. /\ Leave(p, "READY")
      /\ pcb' = [tk EXCEPT ![p].level = DemotedLevel(@), ![p].age = 0]
      /\ sched' = Enqueued(sc, pcb', {p})
      BY <1>2, <1>3, CpuPreemptedLeaves
<1>5. tk \in [Pid -> PcbType] /\ \A a \in Pid : tk[a].level = pcb[a].level
      BY <1>1, <1>2, AfterTickFacts
<1>6. sc \in SchedType /\ sc.queue = sched.queue /\ sc.algo = sched.algo
      BY <1>1, <1>3, TickFacts
<1>7. PICK d : d = DemotedLevel(tk[p].level)
      OBVIOUS
<1>8. d \in Level
  <2>1. tk[p].level \in Level
        BY <1>5 DEF PcbType
  <2>2. QED BY <1>7, <2>1, SchedAssumption DEF DemotedLevel, Level
<1>9. pcb' = [tk EXCEPT ![p].level = d, ![p].age = 0]
      BY <1>4, <1>7
<1>10. pcb' \in [Pid -> PcbType]
      BY <1>5, <1>8, <1>9, ZeroAge, Zenon DEF PcbType
<1>11. \A a \in Pid \ {p} : pcb'[a].level = pcb[a].level
      BY <1>5, <1>9
<1>12. /\ state[p] = "RUNNING"
       /\ \A a \in Pid : state'[a] = "READY" <=> state[a] = "READY" \/ a \in {p}
      BY <1>4, LeaveFacts
<1>13. QueuesHold(sc, state, pcb)
      BY <1>1, <1>6 DEF QueuesHold
<1>14. QueuesHold(Enqueued(sc, pcb', {p}), state', pcb')
  <2>1. {p} \in SUBSET Pid /\ \A a \in {p} : state[a] # "READY"
        BY <1>12
  <2>2. \A a \in Pid : state[a] = "READY" => pcb'[a].level = pcb[a].level
        BY <1>11, <1>12
  <2>3. QED BY <1>6, <1>12, <1>13, <2>1, <2>2, EnqueuedHolds
<1>15. sched' \in SchedType
      BY <1>4, <1>6, EnqueuedFacts
<1>16. QED BY <1>4, <1>10, <1>14, <1>15 DEF SchedInv

\* wake_blocked_by_time, sched_age_ready and the boost: the PCBs.
Reset(r) == [r EXCEPT !.wakeIn = None, !.age = 0]
Aged(r, n, l) == [r EXCEPT !.prio = n, !.level = l]
BoostedLevel(a) == IF BoostDue /\ state[a] # "EXITED" THEN 0 ELSE Woken[a].level

LEMMA WokenFacts ==
  ASSUME KernelInv
  PROVE  Woken \in [Pid -> PcbType] /\ \A a \in Pid : Woken[a].level = pcb[a].level
<1>1. pcb \in [Pid -> PcbType]
      BY DEF KernelInv, SchedInv
<1>2. Woken = [a \in Pid |-> IF a \in Due THEN Reset(pcb[a]) ELSE pcb[a]]
      BY Zenon DEF Woken, Reset
<1>3. \A x \in PcbType : Reset(x) \in PcbType
      BY ZeroAge, Zenon DEF PcbType, Reset
<1>4. \A x \in PcbType : Reset(x).level = x.level
      BY DEF PcbType, Reset
<1>5. QED BY <1>1, <1>2, <1>3, <1>4

LEMMA WakeAndAgePcb ==
  ASSUME KernelInv, WakeAndAge
  PROVE  /\ pcb' \in [Pid -> PcbType]
         /\ ~ BoostDue => \A a \in Pid : pcb'[a].level = pcb[a].level
<1>1. pcb \in [Pid -> PcbType]
      BY DEF KernelInv, SchedInv
<1>2. Woken \in [Pid -> PcbType] /\ \A a \in Pid : Woken[a].level = pcb[a].level
      BY WokenFacts
<1>3. pcb' = [a \in Pid |-> Aged(Woken[a], AgedPrio(Woken, a), BoostedLevel(a))]
      BY Zenon DEF WakeAndAge, Aged, BoostedLevel
<1>4. \A r \in PcbType, n \in 0 .. MaxPrio, l \in Level : Aged(r, n, l) \in PcbType
      BY Zenon DEF Aged, PcbType
<1>5. \A r \in PcbType : \A n, l : Aged(r, n, l).level = l
      BY DEF Aged, PcbType
<1>6. ASSUME NEW a \in Pid
      PROVE  pcb'[a] \in PcbType /\ (~ BoostDue => pcb'[a].level = pcb[a].level)
  <2>1. Woken[a] \in PcbType /\ AgedPrio(Woken, a) \in 0 .. MaxPrio
        BY <1>2, AgedPrioRange
  <2>2. BoostedLevel(a) \in Level /\ (~ BoostDue => BoostedLevel(a) = pcb[a].level)
    <3>1. 0 \in Level
          BY SchedAssumption DEF Level
    <3>2. Woken[a].level \in Level
          BY <2>1 DEF PcbType
    <3>3. QED BY <1>2, <3>1, <3>2 DEF BoostedLevel
  <2>3. pcb'[a] = Aged(Woken[a], AgedPrio(Woken, a), BoostedLevel(a))
        BY <1>3
  <2>4. QED BY <1>4, <1>5, <2>1, <2>2, <2>3
<1>7. QED BY <1>3, <1>6, Zenon

LEMMA WakeAndAgeInv ==
  ASSUME KernelInv, WakeAndAge
  PROVE  SchedInv'
<1>1. sched \in SchedType /\ QueuesHold(sched, state, pcb) /\ tick \in 0 .. BoostInterval
      BY DEF KernelInv, SchedInv, LoopTypeOK
<1>2. pcb' \in [Pid -> PcbType]
      BY WakeAndAgePcb
<1>3. CASE sched.algo = "PRIO" \/ BoostDue
  <2>1. PICK sc : sc = [sched EXCEPT !.sinceBoost = 0]
        BY Zenon
  <2>2. sched' = Rebuilt(sc, state', pcb')
        BY <1>3, <2>1, Zenon DEF WakeAndAge
  <2>3. 0 \in 0 .. BoostInterval
        BY SchedAssumption
  <2>4. sc \in SchedType
        BY <1>1, <2>1, <2>3, Zenon DEF SchedType
  <2>5. sched' \in SchedType /\ QueuesHold(sched', state', pcb')
        BY <1>1, <2>2, <2>4, RebuiltFacts
  <2>6. QED BY <1>2, <2>5 DEF SchedInv
<1>4. CASE ~ (sched.algo = "PRIO" \/ BoostDue)
  <2>1. /\ sched' = Enqueued(sched, Woken, Due)
        /\ state' = [a \in Pid |-> IF a \in Due /\ state[a] = "BLOCKED"
                                   THEN "READY" ELSE state[a]]
        BY <1>4, WakeAndAgeWakes, Zenon DEF WakeAndAge, Wake, WakeAll
  <2>2. Due \in SUBSET Pid /\ \A a \in Due : state[a] = "BLOCKED"
        BY DEF Due
  <2>3. \A a \in Pid : state'[a] = "READY" <=> state[a] = "READY" \/ a \in Due
        BY <2>1, <2>2
  <2>4. \A a \in Pid : pcb'[a].level = pcb[a].level
        BY <1>4, WakeAndAgePcb
  <2>5. QueuesHold(Enqueued(sched, Woken, Due), state', Woken)
    <3>1. \A a \in Due : state[a] # "READY"
          BY <2>2
    <3>2. \A a \in Pid : Woken[a].level = pcb[a].level
          BY WokenFacts
    <3>3. QED BY <1>1, <2>2, <2>3, <3>1, <3>2, EnqueuedHolds
  <2>6. QueuesHold(sched', state', pcb')
    <3>1. \A a \in Pid : pcb'[a].level = Woken[a].level
          BY <2>4, WokenFacts
    <3>2. QED BY <2>1, <2>5, <3>1, SameQueues
  <2>7. sched' \in SchedType
        BY <1>1, <2>1, <2>2, EnqueuedFacts
  <2>8. QED BY <1>2, <2>6, <2>7 DEF SchedInv
<1>5. QED BY <1>3, <1>4

\* dispatch is reached from the rebuild, and the timer does not disturb it.
LEMMA DispatchInvKept ==
  ASSUME KernelInv, [KernelNext]_vars
  PROVE  DispatchInv'
<1>1. CASE Sigalrm \/ UNCHANGED vars
  <2>1. UNCHANGED <<sched, pcb, phase, current>>
        BY <1>1, Zenon DEF Sigalrm, vars, lifecycleVars, loopVars
  <2>2. QED BY <2>1 DEF KernelInv, DispatchInv
<1>2. CASE WakeAndAge
  <2>1. current' = current /\ phase' = IF current = None THEN "dispatch" ELSE "exec"
        BY <1>2, Zenon DEF WakeAndAge
  <2>2. sched \in SchedType /\ tick \in 0 .. BoostInterval
        BY DEF KernelInv, SchedInv, LoopTypeOK
  <2>3. HasKeys(pcb')
        BY <1>2, WakeAndAgePcb, KeysOf
  <2>4. ASSUME sched'.algo = "PRIO" PROVE HeapOrdered(pcb', sched'.queue[0])
    <3>1. PICK sc : sc = [sched EXCEPT !.sinceBoost = 0]
          BY Zenon
    <3>2. 0 \in 0 .. BoostInterval
          BY SchedAssumption
    <3>3. sc \in SchedType
          BY <2>2, <3>1, <3>2, Zenon DEF SchedType
    <3>4. sc.algo = sched.algo
          BY <2>2, <3>1 DEF SchedType
    <3>5. sched' = Rebuilt(sc, state', pcb') \/ sched' = Enqueued(sched, Woken, Due)
          BY <1>2, <3>1, Zenon DEF WakeAndAge
    <3>6. Due \in SUBSET Pid
          BY DEF Due
    <3>7. sched.algo = "PRIO"
      <4>1. Rebuilt(sc, state', pcb').algo = sched.algo
            BY <2>2, <3>3, <3>4, RebuiltFacts
      <4>2. Enqueued(sched, Woken, Due).algo = sched.algo
            BY <2>2, <3>6, EnqueuedFacts
      <4>3. QED BY <2>4, <3>5, <4>1, <4>2, Zenon
    <3>8. sched' = Rebuilt(sc, state', pcb')
          BY <1>2, <3>1, <3>7, Zenon DEF WakeAndAge
    <3>9. QED BY <2>2, <2>3, <3>3, <3>4, <3>7, <3>8, RebuiltFacts
  <2>5. QED BY <2>1, <2>4 DEF DispatchInv
<1>3. ASSUME NEW p, Execute(p) \/ DispatchNext(p) PROVE phase' # "dispatch"
  <2>1. NoTick => phase' # "dispatch"
        BY DEF NoTick
  <2>2. ASSUME NEW n, CpuTick(p, n) PROVE phase' # "dispatch"
        BY <2>2 DEF CpuTick
  <2>3. DispatchNext(p) => phase' # "dispatch"
        BY DEF DispatchNext
  <2>4. QED BY <1>3, <2>1, <2>2, <2>3, Zenon
            DEF Execute, CpuContinues, CpuPreempted, IoStart, Immediate, ResourceWait, ExitInsn
<1>4. CASE Step \/ IdleTick
      BY <1>4 DEF Step, IdleTick, DispatchInv
<1>5. CASE ShellCommand
  <2>1. phase = "shell" /\ phase' = phase
        BY <1>5, Zenon DEF ShellCommand, Command, RunWorkload, SetPriority, KillProcess,
           SetScheduler, SetQuantum, SetNice, Start, Stop, loopVars
  <2>2. QED BY <2>1 DEF DispatchInv
<1>6. QED BY <1>1, <1>2, <1>3, <1>4, <1>5, Zenon DEF KernelNext, Loop, DispatchInv

LEMMA KernelNextInv == KernelInv /\ [KernelNext]_vars => KernelInv'
<1> SUFFICES ASSUME KernelInv, [KernelNext]_vars PROVE KernelInv'
    OBVIOUS
<1>1. LifecycleInv' /\ LoopTypeOK'
      BY LifecycleNextInv, KernelTakesLifecycleSteps, LoopTypeKept DEF KernelInv
<1>2. SchedInv'
  <2>1. CASE Step \/ Sigalrm \/ Start \/ Stop \/ UNCHANGED vars
    <3>1. sched' = sched /\ pcb' = pcb /\ state' = state
          BY <2>1, Zenon DEF Step, Sigalrm, Start, Stop, vars, lifecycleVars
    <3>2. QED BY <3>1 DEF KernelInv, SchedInv
  <2>2. ASSUME NEW p \in Pid, NEW n \in Prios, RunWorkload(p, n) \/ SetPriority(p, n)
        PROVE  SchedInv'
    <3>1. n \in Int
          BY KernelAssumption
    <3>2. QED BY <2>2, <3>1, RunWorkloadInv, SetPrioInv
  <2>3. ASSUME NEW p \in Pid, NEW n \in Nices, SetNice(p, n) PROVE SchedInv'
    <3>1. n \in Int
          BY KernelAssumption
    <3>2. QED BY <2>3, <3>1, SetPrioInv
  <2>4. ASSUME NEW p \in Pid, Execute(p) PROVE SchedInv'
        BY <2>4, CpuContinuesInv, CpuPreemptedInv, ImmediateInv, LeavesCpuInv, Zenon DEF Execute
  <2>5. CASE ShellCommand
        BY <2>1, <2>2, <2>3, <2>5, KillProcessInv, SetSchedulerInv, SetQuantumInv, Zenon
           DEF ShellCommand
  <2>6. CASE Loop
        BY <2>4, <2>6, WakeAndAgeInv, IdleTickInv, DispatchNextInv, Zenon DEF Loop
  <2>7. QED BY <2>1, <2>5, <2>6, Zenon DEF KernelNext
<1>3. QED BY <1>1, <1>2, DispatchInvKept DEF KernelInv

LEMMA KernelInvAlways == KernelSpec => []KernelInv
BY KernelInitInv, KernelNextInv, PTL DEF KernelSpec

-----------------------------------------------------------------------------
\* Every index, level, priority, age and counter of the scheduler and of the
\* loop stays in the range that proc_create, sched_init, clamp and the guards
\* of sched.c give it.
THEOREM KernelTypesAlways == KernelSpec => []KernelTypeOK
BY KernelInvAlways, KernelInvTypes, PTL

\* A process of which the scheduler has one entry or none.
LEMMA CountEntries ==
  ASSUME NEW q \in Seq(Pid), NEW p, NoRepeats(q)
  PROVE  Cardinality({i \in DOMAIN q : q[i] = p}) = IF p \in Entries(q) THEN 1 ELSE 0
<1> DEFINE I == {i \in DOMAIN q : q[i] = p}
<1>1. CASE p \in Entries(q)
  <2>1. PICK i \in DOMAIN q : q[i] = p
        BY <1>1 DEF Entries
  <2>2. I = {i}
        BY <2>1 DEF NoRepeats
  <2>3. Cardinality({i}) = 1
        BY FS_Singleton, Zenon
  <2>4. QED BY <1>1, <2>2, <2>3, Zenon
<1>2. CASE p \notin Entries(q)
  <2>1. I = {}
        BY <1>2 DEF Entries
  <2>2. Cardinality({}) = 0
        BY FS_EmptySet, Zenon
  <2>3. QED BY <1>2, <2>1, <2>2, Zenon
<1>3. QED BY <1>1, <1>2

\* The ready queues hold exactly the READY processes, each of them once and on
\* its own level, whatever the shell, the timer and the loop do in between: a
\* READY process is never lost by sched_pick_next, a preemption, a boost or a
\* rebuild, and no dead or blocked process is ever left in a queue.
THEOREM ReadyAlwaysQueued == KernelSpec => []ReadyIffQueued
<1>1. KernelInv => ReadyIffQueued
  <2> SUFFICES ASSUME KernelInv, NEW p \in Pid, NEW l \in Level
               PROVE  Cardinality({i \in DOMAIN sched.queue[l] : sched.queue[l][i] = p})
                        = IF state[p] = "READY" /\ QueueOf(sched.algo, pcb, p) = l THEN 1 ELSE 0
      BY DEF ReadyIffQueued
  <2>1. /\ sched.queue[l] \in Seq(Pid) /\ NoRepeats(sched.queue[l])
        /\ Entries(sched.queue[l]) = Belong(sched.algo, state, pcb, l)
        BY AllReady DEF KernelInv, SchedInv
  <2>2. p \in Entries(sched.queue[l]) <=> state[p] = "READY" /\ QueueOf(sched.algo, pcb, p) = l
        BY <2>1 DEF Belong
  <2>3. Cardinality({i \in DOMAIN sched.queue[l] : sched.queue[l][i] = p})
          = IF p \in Entries(sched.queue[l]) THEN 1 ELSE 0
        BY <2>1, CountEntries
  <2>4. QED BY <2>2, <2>3
<1>2. QED BY <1>1, KernelInvAlways, PTL

\* Under the priority policy a dispatch takes a process of the least priority
\* value of all READY processes, although ages, nice and prio commands change
\* the keys of the heap between two rebuilds.
THEOREM LeastPriorityAlwaysRuns == KernelSpec => LeastPriorityRuns
<1>1. KernelInv /\ [KernelNext]_vars =>
        [sched.algo = "PRIO" /\ current = None /\ current' # None =>
           \A p \in Pid : state[p] = "READY" => pcb[p].prio >= pcb[current'].prio]_vars
  <2> SUFFICES ASSUME KernelInv, KernelNext,
                      sched.algo = "PRIO", current = None, current' # None,
                      NEW a \in Pid, state[a] = "READY"
               PROVE  pcb[a].prio >= pcb[current'].prio
      OBVIOUS
  <2>1. PICK p \in Pid : DispatchNext(p)
    <3>1. ~ (Step \/ Sigalrm \/ Start \/ Stop \/ WakeAndAge \/ IdleTick)
          BY Zenon DEF Step, Sigalrm, Start, Stop, WakeAndAge, IdleTick, lifecycleVars
    <3>2. ASSUME NEW p \in Pid PROVE ~ Execute(p)
      <4>1. current # p
            BY NoneAssumption
      <4>2. QED BY <4>1, Zenon DEF Execute, CpuContinues, CpuPreempted, CpuTick, IoStart,
                   Immediate, ResourceWait, ExitInsn, Executes
    <3>3. ASSUME NEW p, NEW n PROVE ~ (RunWorkload(p, n) \/ SetPriority(p, n) \/ SetNice(p, n))
          BY Zenon DEF RunWorkload, SetPriority, SetNice, lifecycleVars
    <3>4. ASSUME NEW p PROVE ~ (KillProcess(p) \/ SetScheduler(p) \/ SetQuantum(p))
          BY Zenon DEF KillProcess, SetScheduler, SetQuantum, lifecycleVars
    <3>5. QED BY <3>1, <3>2, <3>3, <3>4, Zenon DEF KernelNext, Loop, ShellCommand
  <2>2. current' = p /\ HeapPicks(p)
        BY <2>1 DEF DispatchNext, PickNext
  <2>3. state[p] = "READY" /\ ~ PrioLess(pcb, a, p)
    <3>1. HasKeys(pcb) /\ HeapOrdered(pcb, sched.queue[0])
          BY <2>1, KeysOf DEF KernelInv, SchedInv, DispatchNext, DispatchInv
    <3>2. QED BY <2>2, <3>1, HeapTakesOne DEF KernelInv, SchedInv
  <2>4. pcb[a].prio \in Int /\ pcb[p].prio \in Int
        BY DEF KernelInv, SchedInv, PcbType
  <2>5. QED BY <2>2, <2>3, <2>4 DEF PrioLess
<1>2. QED BY <1>1, KernelInvAlways, PTL DEF KernelSpec, LeastPriorityRuns

-----------------------------------------------------------------------------
LEMMA EnqueuedAhead ==
  ASSUME NEW sc \in SchedType, NEW pc, NEW S \in SUBSET Pid, NEW l \in Level, NEW a, NEW b,
         sc.algo # "PRIO", Ahead(sc.queue[l], a, b)
  PROVE  Ahead(Enqueued(sc, pc, S).queue[l], a, b)
<1>0. sc.queue[l] \in Seq(Pid)
      BY DEF SchedType
<1>1. Pushed(sc, pc, S, l) \in Seq(Pid)
      BY PushedFacts, Zenon
<1>2. Enqueued(sc, pc, S).queue[l] = sc.queue[l] \o Pushed(sc, pc, S, l)
      BY EnqueuedFacts
<1>3. Ahead(sc.queue[l] \o Pushed(sc, pc, S, l), a, b)
      BY <1>0, <1>1, ConcatFacts, Zenon
<1>4. QED BY <1>2, <1>3, Zenon

LEMMA FifoStep ==
  ASSUME KernelInv, KernelNext, phase # "shell", sched.algo \in {"FCFS", "RR"},
         NEW a \in Pid, NEW b \in Pid, Ahead(sched.queue[0], a, b), state'[a] = "READY"
  PROVE  Ahead(sched'.queue[0], a, b)
<1>1. sched \in SchedType /\ QueuesHold(sched, state, pcb) /\ state \in [Pid -> States]
      BY DEF KernelInv, SchedInv, LifecycleInv, LifecycleTypeOK
<1>2. 0 \in Level
      BY SchedAssumption DEF Level
<1>3. ASSUME sched' = sched PROVE Ahead(sched'.queue[0], a, b)
      BY <1>3
<1>4. CASE Sigalrm
      BY <1>3, <1>4 DEF Sigalrm
<1>5. CASE WakeAndAge
  <2>1. sched' = Enqueued(sched, Woken, Due) /\ sched.algo # "PRIO"
    <3>1. sched.algo # "PRIO" /\ ~ BoostDue
          BY DEF BoostDue
    <3>2. QED BY <1>5, <3>1, Zenon DEF WakeAndAge
  <2>2. Due \in SUBSET Pid
        BY DEF Due
  <2>3. QED BY <1>1, <1>2, <2>1, <2>2, EnqueuedAhead
<1>6. CASE IdleTick
  <2>1. ReadyAt(sched.queue[0]) = {}
        BY <1>2, <1>6, Zenon DEF IdleTick, NothingToPick
  <2>2. ReadyAt(sched.queue[0]) = DOMAIN sched.queue[0]
        BY <1>1, <1>2, AllReady, Zenon
  <2>3. QED BY <2>1, <2>2, Zenon DEF Ahead
<1>7. ASSUME NEW p \in Pid, DispatchNext(p) PROVE Ahead(sched'.queue[0], a, b)
  <2>1. FifoPicks(p)
    <3>1. sched.algo # "PRIO"
          OBVIOUS
    <3>2. QED BY <1>7, <3>1, Zenon DEF DispatchNext, PickNext
  <2>2. a # p
        BY <1>1, <1>7, DispatchPicks DEF Dispatch
  <2>3. QED BY <1>1, <2>1, <2>2, FifoTakesHead
<1>8. ASSUME NEW p \in Pid, Execute(p) PROVE Ahead(sched'.queue[0], a, b)
  <2>1. PICK sc : sc = Ticked(OnTick(sched, p))
        BY Zenon
  <2>2. sc \in SchedType /\ sc.queue = sched.queue /\ sc.algo = sched.algo
    <3>1. /\ OnTick(sched, p) \in SchedType /\ OnTick(sched, p).queue = sched.queue
          /\ OnTick(sched, p).algo = sched.algo
          BY <1>1, TickFacts, Zenon
    <3>2. QED BY <2>1, <3>1, TickFacts, Zenon
  <2>3. {p} \in SUBSET Pid /\ \A S \in Wakeable : S \in SUBSET Pid
        BY DEF Wakeable
  <2>4. ASSUME NEW n, CpuContinues(p, n) PROVE Ahead(sched'.queue[0], a, b)
        BY <2>1, <2>2, <2>4 DEF CpuContinues
  <2>5. ASSUME NEW n, CpuPreempted(p, n) PROVE Ahead(sched'.queue[0], a, b)
    <3>1. PICK pc : sched' = Enqueued(sc, pc, {p})
          BY <2>1, <2>5, CpuPreemptedLeaves, Zenon
    <3>2. Ahead(sc.queue[0], a, b) /\ sc.algo # "PRIO"
          BY <2>2
    <3>3. QED BY <1>2, <2>2, <2>3, <3>1, <3>2, EnqueuedAhead
  <2>6. ASSUME NEW S \in Wakeable, Immediate(p, S) PROVE Ahead(sched'.queue[0], a, b)
    <3>1. PICK pc : sched' = Enqueued(sched, pc, S)
          BY <2>6, ImmediateWakes, Zenon
    <3>2. sched.algo # "PRIO"
          OBVIOUS
    <3>3. QED BY <1>1, <1>2, <2>3, <3>1, <3>2, EnqueuedAhead, Zenon
  <2>7. ASSUME NEW n, IoStart(p, n) \/ ResourceWait(p) \/ ExitInsn(p) PROVE sched' = sched
        BY <2>7, Zenon DEF IoStart, ResourceWait, ExitInsn
  <2>8. QED BY <1>3, <1>8, <2>4, <2>5, <2>6, <2>7, Zenon DEF Execute
<1>9. ~ Step /\ ~ ShellCommand
      BY Zenon DEF Step, ShellCommand, Command, RunWorkload, SetPriority, KillProcess,
         SetScheduler, SetQuantum, SetNice, Start, Stop
<1>10. QED BY <1>4, <1>5, <1>6, <1>7, <1>8, <1>9, Zenon DEF KernelNext, Loop

\* FCFS and RR serve in the order of readying: while runtime_step works, of two
\* queued processes that stay READY the first stays ahead of the second.
THEOREM FifoAlwaysKept == KernelSpec => FifoOrder
<1>1. KernelInv /\ [KernelNext]_vars =>
        [phase # "shell" /\ sched.algo \in {"FCFS", "RR"} =>
           \A p, q \in Pid :
             Before(p, q) /\ state'[p] = "READY" /\ state'[q] = "READY" => Before(p, q)']_vars
  <2> SUFFICES ASSUME KernelInv, KernelNext, phase # "shell", sched.algo \in {"FCFS", "RR"},
                      NEW p \in Pid, NEW q \in Pid, Before(p, q), state'[p] = "READY"
               PROVE  Before(p, q)'
      OBVIOUS
  <2>1. Ahead(sched.queue[0], p, q)
        BY DEF Before, Ahead
  <2>2. Ahead(sched'.queue[0], p, q)
        BY <2>1, FifoStep
  <2>3. QED BY <2>2 DEF Before, Ahead
<1>2. QED BY <1>1, KernelInvAlways, PTL DEF KernelSpec, FifoOrder

\* The loop, the shell and the timer change process states and current_pid only
\* as the life cycle of proc.c and the dispatcher allow: proc_set_state never
\* refuses a change that they ask for without looking at its answer, dispatch
\* never gives the CPU to a second process, and no process leaves it but the one
\* that has it.
THEOREM KernelImplementsLifecycle == KernelSpec => LifecycleSpec
<1>1. KernelInit => LifecycleInit
      BY DEF KernelInit
<1>2. QED BY <1>1, KernelInvAlways, KernelTakesLifecycleSteps, PTL DEF KernelSpec, LifecycleSpec

-----------------------------------------------------------------------------
(***************************************************************************)
(* The quantum.  What sched_on_tick counts is what the process really ran, *)
(* because sched_pick_next was asked about this process last: dispatch is  *)
(* reached only without a current process.  The sched command breaks that  *)
(* link (sched_set_algo forgets who runs), so it is left out here.         *)
(***************************************************************************)
QuantumInv ==
  /\ phase = "dispatch" => current = None
  /\ current # None =>
       /\ sched.current = current
       /\ sched.consumed = ran
       /\ sched.algo # "FCFS" => ran < MaxQuantum

\* Whatever else a step does, it does not touch the accounting.
AccountKept ==
  /\ sched'.current = sched.current /\ sched'.consumed = sched.consumed
  /\ sched'.algo = sched.algo /\ ran' = ran
  /\ current' = current \/ current' = None
  /\ phase' = "dispatch" => current' = None

LEMMA AccountKeptInv ==
  ASSUME QuantumInv, AccountKept
  PROVE  QuantumInv'
BY DEF QuantumInv, AccountKept

LEMMA AccountUnchanged ==
  ASSUME QuantumInv, sched' = sched, ran' = ran, current' = current \/ current' = None,
         phase' = phase \/ phase' # "dispatch"
  PROVE  AccountKept
BY DEF QuantumInv, AccountKept

LEMMA ShellAccount ==
  ASSUME KernelInv, QuantumInv, ShellCommand, "sched" \notin Commands
  PROVE  AccountKept
<1>1. sched \in SchedType /\ tick \in 0 .. BoostInterval /\ phase = "shell"
      BY Zenon DEF KernelInv, SchedInv, LoopTypeOK, ShellCommand, Command, RunWorkload,
         SetPriority, KillProcess, SetScheduler, SetQuantum, SetNice, Start, Stop
<1>2. ASSUME NEW p \in Pid, NEW n \in Prios, RunWorkload(p, n) PROVE AccountKept
  <2>1. PICK pc : sched' = Enqueued(sched, pc, {p})
        BY <1>2, RunWorkloadCreates, Zenon
  <2>2. ran' = ran /\ current' = current /\ phase' = phase
        BY <1>2 DEF RunWorkload, loopVars
  <2>3. sched'.current = sched.current /\ sched'.consumed = sched.consumed
        /\ sched'.algo = sched.algo
        BY <1>1, <2>1, EnqueuedFacts
  <2>4. QED BY <1>1, <2>2, <2>3 DEF AccountKept
<1>3. ASSUME NEW p \in Pid, KillProcess(p) PROVE AccountKept
  <2>1. (\E st, pc : sched' = Rebuilt(sched, st, pc)) \/ sched' = sched
        BY <1>3, KillProcessKills, Zenon
  <2>2. ran' = ran /\ (current' = current \/ current' = None) /\ phase' = phase
        BY <1>3 DEF KillProcess
  <2>3. sched'.current = sched.current /\ sched'.consumed = sched.consumed
        /\ sched'.algo = sched.algo
        BY <1>1, <2>1, RebuiltFacts
  <2>4. QED BY <1>1, <2>2, <2>3 DEF AccountKept
<1>4. ASSUME NEW n \in Quanta, SetQuantum(n) PROVE AccountKept
  <2>1. PICK k : sched' = [sched EXCEPT !.quantum = k]
        BY <1>4, Zenon DEF SetQuantum
  <2>2. ran' = ran /\ current' = current /\ phase' = phase
        BY <1>4 DEF SetQuantum, lifecycleVars, loopVars
  <2>3. sched'.current = sched.current /\ sched'.consumed = sched.consumed
        /\ sched'.algo = sched.algo
        BY <1>1, <2>1 DEF SchedType
  <2>4. QED BY <1>1, <2>2, <2>3 DEF AccountKept
<1>5. ASSUME NEW p \in Pid, NEW n, SetPriority(p, n) \/ SetNice(p, n) PROVE AccountKept
  <2>1. sched' = sched /\ ran' = ran /\ current' = current /\ phase' = phase
        BY <1>5, Zenon DEF SetPriority, SetNice, lifecycleVars, loopVars
  <2>2. QED BY <2>1, AccountUnchanged
<1>6. CASE Start \/ Stop
  <2>1. sched' = sched /\ ran' = ran /\ current' = current /\ phase' = phase
        BY <1>6, Zenon DEF Start, Stop, lifecycleVars
  <2>2. QED BY <2>1, AccountUnchanged
<1>7. ASSUME NEW x PROVE ~ SetScheduler(x)
      BY Zenon DEF SetScheduler, Command
<1>8. QED BY <1>2, <1>3, <1>4, <1>5, <1>6, <1>7, Zenon DEF ShellCommand

LEMMA WakeAccount ==
  ASSUME KernelInv, QuantumInv, WakeAndAge
  PROVE  AccountKept
<1>1. sched \in SchedType /\ tick \in 0 .. BoostInterval
      BY DEF KernelInv, SchedInv, LoopTypeOK
<1>2. ran' = ran /\ current' = current /\ (phase' = "dispatch" => current = None)
  <2>1. ran' = ran /\ current' = current
        /\ phase' = IF current = None THEN "dispatch" ELSE "exec"
        BY Zenon DEF WakeAndAge
  <2>2. QED BY <2>1
<1>3. PICK sc : sc = [sched EXCEPT !.sinceBoost = 0]
      BY Zenon
<1>4. sc \in SchedType /\ sc.current = sched.current /\ sc.consumed = sched.consumed
      /\ sc.algo = sched.algo
  <2>1. 0 \in 0 .. BoostInterval
        BY SchedAssumption
  <2>2. sc \in SchedType
        BY <1>1, <1>3, <2>1, Zenon DEF SchedType
  <2>3. sc.current = sched.current /\ sc.consumed = sched.consumed /\ sc.algo = sched.algo
        BY <1>1, <1>3 DEF SchedType
  <2>4. QED BY <2>2, <2>3
<1>5. (\E st, pc : sched' = Rebuilt(sc, st, pc)) \/ sched' = Enqueued(sched, Woken, Due)
      BY <1>3, Zenon DEF WakeAndAge
<1>6. Due \in SUBSET Pid
      BY DEF Due
<1>7. sched'.current = sched.current /\ sched'.consumed = sched.consumed
      /\ sched'.algo = sched.algo
  <2>1. CASE sched' = Enqueued(sched, Woken, Due)
    <3>1. PICK e : e = Enqueued(sched, Woken, Due)
          OBVIOUS
    <3>2. e.current = sched.current /\ e.consumed = sched.consumed /\ e.algo = sched.algo
          BY <1>1, <1>6, <3>1, EnqueuedFacts
    <3>3. QED BY <2>1, <3>1, <3>2
  <2>2. ASSUME NEW st, NEW pc, sched' = Rebuilt(sc, st, pc)
        PROVE  sched'.current = sched.current /\ sched'.consumed = sched.consumed
               /\ sched'.algo = sched.algo
    <3>1. PICK e : e = Rebuilt(sc, st, pc)
          OBVIOUS
    <3>2. e.current = sc.current /\ e.consumed = sc.consumed /\ e.algo = sc.algo
          BY <1>1, <1>4, <3>1, RebuiltFacts
    <3>3. QED BY <1>4, <2>2, <3>1, <3>2
  <2>3. QED BY <1>5, <2>1, <2>2, Zenon
<1>8. QED BY <1>2, <1>7 DEF AccountKept

\* The process goes on only if the quantum is not used up.
LEMMA ContinueAccount ==
  ASSUME KernelInv, QuantumInv, NEW p \in Pid, NEW n, CpuContinues(p, n)
  PROVE  QuantumInv'
<1>1. sched \in SchedType
      BY DEF KernelInv, SchedInv
<1>2. /\ current = p /\ current' = current /\ ran' = Counted(ran) /\ phase' = "shell"
      /\ sched' = Ticked(OnTick(sched, p)) /\ ~ ShouldPreempt(OnTick(sched, p), p)
      BY DEF CpuContinues, CpuTick, Preempting, lifecycleVars
<1>3. PICK sc : sc = OnTick(sched, p)
      BY Zenon
<1>4. p # None
      BY NoneAssumption
<1>5. sched.current = p /\ sched.consumed = ran
      BY <1>2, <1>4 DEF QuantumInv
<1>6. sc \in SchedType /\ sc.algo = sched.algo /\ sc.current = p /\ sc.consumed = Counted(ran)
      BY <1>1, <1>3, <1>5, TickFacts
<1>7. sched'.algo = sc.algo /\ sched'.current = p /\ sched'.consumed = ran'
      BY <1>2, <1>3, <1>6, TickFacts
<1>8. sc.algo # "FCFS" => ran' < MaxQuantum
  <2>1. sc.quantum \in 1 .. MaxQuantum /\ sc.consumed \in 0 .. MaxQuantum
        BY <1>6 DEF SchedType
  <2>2. sc.algo # "FCFS" => ~ (sc.consumed >= sc.quantum)
        BY <1>2, <1>3, Zenon DEF ShouldPreempt
  <2>3. QED BY <1>2, <1>6, <2>1, <2>2, SchedAssumption
<1>9. QED BY <1>2, <1>7, <1>8, Zenon DEF QuantumInv

LEMMA QuantumNextInv ==
  ASSUME KernelInv, QuantumInv, [KernelNext]_vars, "sched" \notin Commands
  PROVE  QuantumInv'
<1>1. CASE Step \/ Sigalrm \/ UNCHANGED vars
  <2>1. sched' = sched /\ ran' = ran /\ current' = current
        BY <1>1, Zenon DEF Step, Sigalrm, vars, loopVars, lifecycleVars
  <2>2. phase' = phase \/ phase' = "wake"
        BY <1>1, Zenon DEF Step, Sigalrm, vars, loopVars
  <2>3. QED BY <2>1, <2>2, AccountUnchanged, AccountKeptInv
<1>2. CASE IdleTick
  <2>1. phase = "dispatch" /\ current' = current
        BY <1>2 DEF IdleTick, lifecycleVars
  <2>2. QED BY <2>1 DEF QuantumInv
<1>3. ASSUME NEW p \in Pid, DispatchNext(p) PROVE QuantumInv'
  <2>1. current' = p /\ ran' = 0 /\ phase' = "exec"
        BY <1>3 DEF DispatchNext
  <2>2. sched'.current = p /\ sched'.consumed = 0
        BY <1>3, DispatchPicks DEF PickedFrom
  <2>3. QED BY <2>1, <2>2, SchedAssumption DEF QuantumInv
<1>4. ASSUME NEW p \in Pid, Execute(p) PROVE QuantumInv'
  <2>1. ASSUME NEW n, CpuPreempted(p, n) PROVE QuantumInv'
        BY <2>1 DEF CpuPreempted, CpuTick, QuantumInv
  <2>2. ASSUME NEW n, IoStart(p, n) \/ ResourceWait(p) \/ ExitInsn(p) PROVE QuantumInv'
    <3>1. current' = None
          BY <2>2, Zenon DEF IoStart, ResourceWait, ExitInsn, LeaveCpu
    <3>2. QED BY <3>1 DEF QuantumInv
  <2>3. ASSUME NEW S \in Wakeable, Immediate(p, S) PROVE QuantumInv'
    <3>1. PICK pc : sched' = Enqueued(sched, pc, S)
          BY <2>3, ImmediateWakes, Zenon
    <3>2. S \in SUBSET Pid /\ sched \in SchedType
          BY DEF Wakeable, KernelInv, SchedInv
    <3>3. sched'.current = sched.current /\ sched'.consumed = sched.consumed
          /\ sched'.algo = sched.algo
          BY <3>1, <3>2, EnqueuedFacts
    <3>4. ran' = ran /\ current' = current /\ phase' # "dispatch"
          BY <2>3 DEF Immediate, NoTick
    <3>5. QED BY <3>3, <3>4, AccountKeptInv DEF AccountKept
  <2>4. QED BY <1>4, <2>1, <2>2, <2>3, ContinueAccount, Zenon DEF Execute
<1>5. CASE ShellCommand \/ WakeAndAge
      BY <1>5, ShellAccount, WakeAccount, AccountKeptInv
<1>6. QED BY <1>1, <1>2, <1>3, <1>4, <1>5, Zenon DEF KernelNext, Loop

\* Under every preemptive policy a process leaves the CPU after at most
\* MaxQuantum ticks, whatever the quantum command, kills, priorities and the
\* timer do meanwhile, as long as the policy itself is not changed.
THEOREM QuantumAlwaysEnforced ==
  ASSUME "sched" \notin Commands
  PROVE  KernelSpec => []QuantumEnforced
<1>1. KernelInit => QuantumInv
      BY Zenon DEF KernelInit, LifecycleInit, QuantumInv
<1>2. KernelInv /\ QuantumInv /\ [KernelNext]_vars => QuantumInv'
      BY QuantumNextInv
<1>3. QuantumInv => QuantumEnforced
      BY Zenon DEF QuantumInv, QuantumEnforced
<1>4. QED BY <1>1, <1>2, <1>3, KernelInvAlways, PTL DEF KernelSpec
=============================================================================
