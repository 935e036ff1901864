----------------------------- MODULE SessionTables -----------------------------
(***************************************************************************)
(* What module Session keeps true of the process table, the runtime's      *)
(* tables and the trace log, for tables and a log of any size and any set  *)
(* of workload files of CPU, IO and EXIT: the invariant, what the          *)
(* operations of proc.c and log.c do to the values of procs and trace, and *)
(* that a change of one process's state and a tick keep the books.         *)
(* SessionProofs shows it of a new process, and that the commands and the  *)
(* loop make no other changes.                                             *)
(***************************************************************************)
EXTENDS Session, FiniteSetTheorems, WellFoundedInduction, TLAPS

ProcStates == {"NEW", "READY", "RUNNING", "BLOCKED", "EXITED"}

PcbType ==
  [used : BOOLEAN, pid : Nat, state : ProcStates, stack : BOOLEAN, vm : BOOLEAN,
   start : Nat, finish : Nat, response : Int, cpu : Nat, wait : Nat, wakeup : Nat,
   code : Nat, slept : Nat]

IndexType == [Indexed -> Slots \cup {NoSlot}]

ProcTable ==
  [entries : [Slots -> PcbType], nextPid : Nat \ {0}, index : IndexType,
   stacks : SUBSET Nat, vms : SUBSET Nat]

\* The instruction at a pc of a loaded program has an op, and a burst, if it is
\* CPU or IO, is not zero.
Sound(program) ==
  \A i \in DOMAIN program :
    program[i].op \in {"CPU", "IO"} => program[i].args[1] \in Nat \ {0}

SlotType ==
  [used : BOOLEAN, pid : Nat, program : Programs \cup {<<>>}, pc : Nat \ {0}, left : Nat]

RuntimeType ==
  [tick : Nat, started : BOOLEAN, current : Nat \cup {NoPid}, busy : Nat, idle : Nat,
   slots : [Slots -> SlotType], index : IndexType]

TraceType == [count : Nat, dropped : BOOLEAN, says : [1 .. MaxPid -> ProcStates]]

\* The slot of a pid in the runtime's tables.
HasSlot(r, pid) ==
  /\ pid \in Indexed /\ r.index[pid] # NoSlot
  /\ r.slots[r.index[pid]].used /\ r.slots[r.index[pid]].pid = pid

Live(e) == e.state \in {"READY", "RUNNING", "BLOCKED"}

\* What holds of one entry of the process table between two commands.
EntryOK(ps, r, s) ==
  LET e == ps.entries[s] IN
  IF e.used
  THEN /\ e.pid \in 1 .. ps.nextPid - 1
       /\ e.stack <=> e.state # "EXITED"
       /\ e.state = "RUNNING" <=> r.current = e.pid
       /\ e.pid \in Indexed => /\ ps.index[e.pid] = s
                               /\ e.vm
                               /\ e.state # "NEW"
                               /\ Live(e) => HasSlot(r, e.pid)
       /\ e.pid \notin Indexed => e.state = "NEW" /\ ~ e.vm
  ELSE ~ e.stack /\ ~ e.vm

Owned(ps, pid) == \E s \in Slots : ps.entries[s].used /\ ps.entries[s].pid = pid

\* A slot in use belongs to a process in the table, and no other slot does.
SlotOK(ps, r, i) ==
  r.slots[i].used => /\ Owned(ps, r.slots[i].pid)
                     /\ \A j \in Slots : r.slots[j].used /\ r.slots[j].pid = r.slots[i].pid => j = i

Stacked(ps) == {s \in Slots : ps.entries[s].used /\ ps.entries[s].state # "EXITED"}
Mapped(ps) == {s \in Slots : ps.entries[s].used /\ ps.entries[s].pid \in Indexed}

TablesOK(ps, r) ==
  /\ \A s \in Slots : EntryOK(ps, r, s)
  /\ \A i \in Slots : SlotOK(ps, r, i)
  /\ r.current # NoPid => Owned(ps, r.current)
  /\ ps.stacks = {ps.entries[s].pid : s \in Stacked(ps)}
  /\ ps.vms = {ps.entries[s].pid : s \in Mapped(ps)}

\* The accounts of one process at the given tick.
EndOf(e, tick) == IF e.state = "EXITED" THEN e.finish ELSE tick
AccountOK(e, tick) ==
  e.used /\ e.pid \in Indexed =>
    /\ EndOf(e, tick) - e.start = e.cpu + e.wait + e.slept
    /\ e.response # Never => e.response \in 0 .. EndOf(e, tick) - e.start

AccountsOK(ps, r) ==
  /\ r.tick = r.busy + r.idle
  /\ \A s \in Slots : AccountOK(ps.entries[s], r.tick)

TraceOK(ps, tr) ==
  ~ tr.dropped =>
    /\ \A s \in Slots : ps.entries[s].used =>
         tr.says[ps.entries[s].pid] = ps.entries[s].state
    /\ \A pid \in 1 .. MaxPid : pid >= ps.nextPid => tr.says[pid] = "NEW"

\* A pid that was handed out is within the bound, and codes are those of EXIT
\* and of kill.
CodesOK(ps) ==
  /\ ps.nextPid <= MaxPid + 1
  /\ \A s \in Slots : LET e == ps.entries[s] IN
       e.used => /\ e.pid \in 1 .. ps.nextPid - 1
                 /\ e.state = "EXITED" => e.code \in {0, 130}

SessionTypeOK ==
  /\ procs \in ProcTable
  /\ rt \in RuntimeType
  /\ trace \in TraceType
  /\ mode \in {"shell", "step", "quit"}

SessionInv ==
  /\ SessionTypeOK
  /\ mode # "quit" => TablesOK(procs, rt)
  /\ mode = "quit" => procs.stacks = {} /\ procs.vms = {} /\ rt.current = NoPid
  /\ AccountsOK(procs, rt)
  /\ TraceOK(procs, trace)
  /\ CodesOK(procs)

-----------------------------------------------------------------------------
(***************************************************************************)
(* The process table                                                       *)
(***************************************************************************)
LEMMA LeastNat ==
  ASSUME NEW S, S \subseteq Nat, S # {}
  PROVE  Min(S) \in S
<1> DEFINE R == {ss \in Nat \X Nat : ss[1] < ss[2]}
<1>1. IsWellFoundedOn(R, Nat)
      BY Zenon, NatLessThanWellFounded DEF OpToRel
<1>2. \E x \in S : \A y \in S : ~ (<<y, x>> \in R)
  <2> HIDE DEF R
  <2>1. QED BY <1>1, WFMin, Zenon
<1>3. PICK x \in S : \A y \in S : ~ (<<y, x>> \in R)
      BY <1>2
<1>4. ASSUME NEW y \in S PROVE x <= y
  <2>1. x \in Nat /\ y \in Nat
        OBVIOUS
  <2>2. y < x => <<y, x>> \in R
        BY <2>1
  <2>3. QED BY <1>3, <2>1, <2>2
<1>5. QED BY <1>4, Zenon DEF Min

-----------------------------------------------------------------------------
(***************************************************************************)
(* The operations of proc.c on a value of procs                            *)
(***************************************************************************)
\* Only the entry s is written, and it stays the entry of the same process.
Writes(ps, q, s) ==
  /\ q \in ProcTable
  /\ q.nextPid = ps.nextPid /\ q.index = ps.index
  /\ \A t \in Slots : t # s => q.entries[t] = ps.entries[t]
  /\ q.entries[s].used = ps.entries[s].used /\ q.entries[s].pid = ps.entries[s].pid
  /\ q.entries[s].vm = ps.entries[s].vm /\ q.entries[s].start = ps.entries[s].start
  /\ q.vms = ps.vms

\* The stacks, or the address spaces, with that of one more process.
Plus(S, pid) == S \cup {pid}

SameAccount(e, f) == f.cpu = e.cpu /\ f.wait = e.wait /\ f.slept = e.slept

LEMMA SlotsNumbers == Slots \subseteq Nat /\ NoSlot \notin Slots /\ IsFiniteSet(Slots)
BY SessionAssumption, FS_Interval DEF Slots, NoSlot

LEMMA TableFields ==
  ASSUME NEW ps \in ProcTable
  PROVE  /\ ps.entries \in [Slots -> PcbType]
         /\ ps.nextPid \in Nat \ {0}
         /\ ps.index \in IndexType
         /\ ps.stacks \in SUBSET Nat
         /\ ps.vms \in SUBSET Nat
         /\ \A s \in Slots : ps.entries[s] \in PcbType
BY DEF ProcTable

WithEntries(ps, es) == [ps EXCEPT !.entries = es]

LEMMA TableWithEntries ==
  ASSUME NEW ps \in ProcTable, NEW es \in [Slots -> PcbType]
  PROVE  /\ WithEntries(ps, es) \in ProcTable
         /\ WithEntries(ps, es).entries = es
         /\ WithEntries(ps, es).nextPid = ps.nextPid
         /\ WithEntries(ps, es).index = ps.index
         /\ WithEntries(ps, es).stacks = ps.stacks
         /\ WithEntries(ps, es).vms = ps.vms
BY DEF ProcTable, WithEntries

WithStacks(ps, es, st) == [ps EXCEPT !.entries = es, !.stacks = st]

LEMMA TableWithStacks ==
  ASSUME NEW ps \in ProcTable, NEW es \in [Slots -> PcbType], NEW st \in SUBSET Nat
  PROVE  /\ WithStacks(ps, es, st) \in ProcTable
         /\ WithStacks(ps, es, st).entries = es
         /\ WithStacks(ps, es, st).nextPid = ps.nextPid
         /\ WithStacks(ps, es, st).index = ps.index
         /\ WithStacks(ps, es, st).stacks = st
         /\ WithStacks(ps, es, st).vms = ps.vms
BY Zenon DEF ProcTable, WithStacks

LEMMA PcbFields ==
  ASSUME NEW e \in PcbType
  PROVE  /\ e.used \in BOOLEAN /\ e.pid \in Nat /\ e.state \in ProcStates
         /\ e.stack \in BOOLEAN /\ e.vm \in BOOLEAN /\ e.start \in Nat /\ e.finish \in Nat
         /\ e.response \in Int /\ e.cpu \in Nat /\ e.wait \in Nat /\ e.wakeup \in Nat
         /\ e.code \in Nat /\ e.slept \in Nat
BY DEF PcbType

\* proc_set_state writes one entry; the response time is set once.
LEMMA SetStateFacts ==
  ASSUME NEW ps \in ProcTable, NEW pid, NEW s \in Slots, FindSlot(ps, pid) = s,
         NEW new \in ProcStates, NEW now \in Nat
  PROVE  LET q == SetState(ps, pid, new, now)
             e == ps.entries[s]
             f == q.entries[s] IN
         /\ Writes(ps, q, s)
         /\ q.stacks = ps.stacks
         /\ f.state = new
         /\ f.stack = e.stack /\ f.code = e.code /\ f.finish = e.finish
         /\ f.response = IF new = "RUNNING" /\ e.response = Never THEN now - e.start
                         ELSE e.response
         /\ SameAccount(e, f)
<1> DEFINE e == ps.entries[s]
           r == IF new = "RUNNING" /\ e.response = Never THEN now - e.start ELSE e.response
           f == [e EXCEPT !.state = new, !.response = r]
           es == [ps.entries EXCEPT ![s] = f]
           q == SetState(ps, pid, new, now)
<1>1. e \in PcbType /\ ps.entries \in [Slots -> PcbType]
      BY TableFields, Zenon
<1>2. r \in Int
      BY <1>1, PcbFields
<1>3. q = WithEntries(ps, es)
      BY <1>1 DEF SetState, Get, ProcTable, WithEntries
<1> HIDE DEF r, q
<1>4. f \in PcbType
      BY <1>1, <1>2, Zenon DEF PcbType
<1>5. /\ f.state = new /\ f.response = r /\ f.used = e.used /\ f.pid = e.pid /\ f.stack = e.stack
      /\ f.vm = e.vm /\ f.start = e.start /\ f.finish = e.finish /\ f.code = e.code
      /\ f.cpu = e.cpu /\ f.wait = e.wait /\ f.slept = e.slept
      BY <1>1 DEF PcbType
<1> HIDE DEF f
<1>6. es \in [Slots -> PcbType] /\ es[s] = f /\ \A t \in Slots : t # s => es[t] = ps.entries[t]
      BY <1>1, <1>4
<1> HIDE DEF es, e
<1>7. /\ q \in ProcTable /\ q.entries = es
      /\ q.nextPid = ps.nextPid /\ q.index = ps.index
      /\ q.stacks = ps.stacks /\ q.vms = ps.vms
      BY <1>3, <1>6, TableWithEntries, Zenon
<1>8. QED BY <1>5, <1>6, <1>7 DEF Writes, SameAccount, e, r, q

NoStack(e) == [e EXCEPT !.stack = FALSE]

\* release_stack unmaps the stack of one entry.
LEMMA ReleaseStackFacts ==
  ASSUME NEW ps \in ProcTable, NEW s \in Slots
  PROVE  LET q == ReleaseStack(ps, s)
             e == ps.entries[s] IN
         /\ q \in ProcTable
         /\ q.nextPid = ps.nextPid /\ q.index = ps.index /\ q.vms = ps.vms
         /\ q.stacks = IF e.stack THEN ps.stacks \ {e.pid} ELSE ps.stacks
         /\ \A t \in Slots : t # s => q.entries[t] = ps.entries[t]
         /\ q.entries[s] = NoStack(e)
<1> DEFINE e == ps.entries[s]
           f == NoStack(e)
           es == [ps.entries EXCEPT ![s] = f]
           st == IF e.stack THEN ps.stacks \ {e.pid} ELSE ps.stacks
           q == ReleaseStack(ps, s)
<1>1. e \in PcbType /\ ps.entries \in [Slots -> PcbType] /\ ps.stacks \in SUBSET Nat
      BY TableFields, Zenon
<1>2. q = WithStacks(ps, es, st)
      BY <1>1 DEF ReleaseStack, ProcTable, WithStacks, NoStack
<1> HIDE DEF q
<1>3. f \in PcbType
      BY <1>1, Zenon DEF PcbType, ProcStates, NoStack
<1>4. es \in [Slots -> PcbType] /\ es[s] = f /\ \A t \in Slots : t # s => es[t] = ps.entries[t]
      BY <1>1, <1>3
<1>5. st \in SUBSET Nat
      BY <1>1
<1> HIDE DEF es, e, st
<1>6. /\ q \in ProcTable /\ q.entries = es
      /\ q.nextPid = ps.nextPid /\ q.index = ps.index
      /\ q.stacks = st /\ q.vms = ps.vms
      BY <1>2, <1>4, <1>5, TableWithStacks
<1>7. QED BY <1>4, <1>6, Zenon DEF e, q, st

\* release_stack for an entry whose process is EXITED: its code and the tick it
\* ended are kept, its stack is unmapped.
LEMMA MarkExitedFacts ==
  ASSUME NEW ps \in ProcTable, NEW pid, NEW s \in Slots, FindSlot(ps, pid) = s,
         NEW code \in Nat, NEW now \in Nat
  PROVE  LET q == MarkExited(ps, pid, code, now)
             e == ps.entries[s]
             f == q.entries[s] IN
         /\ Writes(ps, q, s)
         /\ q.stacks = IF e.stack THEN ps.stacks \ {e.pid} ELSE ps.stacks
         /\ f.state = "EXITED" /\ ~ f.stack /\ f.code = code /\ f.finish = now
         /\ f.response = e.response
         /\ SameAccount(e, f)
<1> DEFINE e == ps.entries[s]
           f0 == [e EXCEPT !.code = code, !.finish = now, !.state = "EXITED", !.wakeup = 0]
           es == [ps.entries EXCEPT ![s] = f0]
           mid == WithEntries(ps, es)
           q == MarkExited(ps, pid, code, now)
           f == q.entries[s]
<1>1. e \in PcbType /\ ps.entries \in [Slots -> PcbType]
      BY TableFields, Zenon
<1>2. q = ReleaseStack(mid, s)
      BY <1>1 DEF MarkExited, WithEntries
<1> HIDE DEF q
<1>3. f0 \in PcbType
      BY <1>1, Zenon DEF PcbType, ProcStates
<1>4. /\ f0.state = "EXITED" /\ f0.response = e.response /\ f0.used = e.used /\ f0.pid = e.pid
      /\ f0.stack = e.stack /\ f0.vm = e.vm /\ f0.start = e.start /\ f0.finish = now
      /\ f0.code = code /\ f0.cpu = e.cpu /\ f0.wait = e.wait /\ f0.slept = e.slept
      BY <1>1 DEF PcbType
<1> HIDE DEF f0
<1>5. es \in [Slots -> PcbType] /\ es[s] = f0 /\ \A t \in Slots : t # s => es[t] = ps.entries[t]
      BY <1>1, <1>3
<1> HIDE DEF es, e
<1>6. /\ mid \in ProcTable /\ mid.entries = es
      /\ mid.nextPid = ps.nextPid /\ mid.index = ps.index
      /\ mid.stacks = ps.stacks /\ mid.vms = ps.vms
      BY <1>5, TableWithEntries, Zenon
<1> HIDE DEF mid
<1>7. /\ q \in ProcTable
      /\ q.nextPid = ps.nextPid /\ q.index = ps.index /\ q.vms = ps.vms
      /\ q.stacks = IF e.stack THEN ps.stacks \ {e.pid} ELSE ps.stacks
      /\ \A t \in Slots : t # s => q.entries[t] = ps.entries[t]
      /\ f = NoStack(f0)
  <2>1. mid.entries[s] = f0
        BY <1>5, <1>6
  <2>2. /\ q \in ProcTable
        /\ q.nextPid = mid.nextPid /\ q.index = mid.index /\ q.vms = mid.vms
        /\ q.stacks = IF f0.stack THEN mid.stacks \ {f0.pid} ELSE mid.stacks
        /\ \A t \in Slots : t # s => q.entries[t] = mid.entries[t]
        /\ f = NoStack(f0)
        BY <1>2, <1>6, <2>1, ReleaseStackFacts, Zenon
  <2>3. QED BY <1>4, <1>5, <1>6, <2>2
<1>8. /\ f.state = "EXITED" /\ f.response = e.response /\ f.used = e.used /\ f.pid = e.pid
      /\ f.stack = FALSE /\ f.vm = e.vm /\ f.start = e.start /\ f.finish = now /\ f.code = code
      /\ f.cpu = e.cpu /\ f.wait = e.wait /\ f.slept = e.slept
      BY <1>3, <1>4, <1>7 DEF PcbType, NoStack
<1> HIDE DEF f
<1>9. QED BY <1>7, <1>8 DEF Writes, SameAccount, e, q, f

\* What proc_create puts in the entry it takes.
NewPcb(pid, now) ==
  [NoPcb EXCEPT !.used = TRUE, !.pid = pid, !.stack = TRUE, !.start = now, !.response = Never]

LEMMA NewPcbFacts ==
  ASSUME NEW pid \in Nat, NEW now \in Nat
  PROVE  LET e == NewPcb(pid, now) IN
         /\ e \in PcbType
         /\ e.used /\ e.pid = pid /\ e.state = "NEW" /\ e.stack /\ ~ e.vm
         /\ e.start = now /\ e.response = Never /\ e.cpu = 0 /\ e.wait = 0 /\ e.slept = 0
<1> DEFINE e == NewPcb(pid, now)
<1>1. NoPcb \in PcbType /\ Never \in Int
      BY DEF NoPcb, PcbType, ProcStates, Never
<1>2. e \in PcbType
      BY <1>1, Zenon DEF NewPcb, PcbType
<1>3. /\ e.used /\ e.pid = pid /\ e.state = "NEW" /\ e.stack /\ ~ e.vm
      /\ e.start = now /\ e.response = Never /\ e.cpu = 0 /\ e.wait = 0 /\ e.slept = 0
      BY DEF NewPcb, NoPcb
<1>4. QED BY <1>2, <1>3, Zenon

WithNew(ps, es, n, ix, st) ==
  [ps EXCEPT !.entries = es, !.nextPid = n, !.index = ix, !.stacks = st]

LEMMA TableWithNew ==
  ASSUME NEW ps \in ProcTable, NEW es \in [Slots -> PcbType], NEW n \in Nat \ {0},
         NEW ix \in IndexType, NEW st \in SUBSET Nat
  PROVE  /\ WithNew(ps, es, n, ix, st) \in ProcTable
         /\ WithNew(ps, es, n, ix, st).entries = es
         /\ WithNew(ps, es, n, ix, st).nextPid = n
         /\ WithNew(ps, es, n, ix, st).index = ix
         /\ WithNew(ps, es, n, ix, st).stacks = st
         /\ WithNew(ps, es, n, ix, st).vms = ps.vms
BY Zenon DEF WithNew, ProcTable

WithVm(ps, es, vm) == [ps EXCEPT !.entries = es, !.vms = vm]

LEMMA TableWithVm ==
  ASSUME NEW ps \in ProcTable, NEW es \in [Slots -> PcbType], NEW vm \in SUBSET Nat
  PROVE  /\ WithVm(ps, es, vm) \in ProcTable
         /\ WithVm(ps, es, vm).entries = es
         /\ WithVm(ps, es, vm).nextPid = ps.nextPid
         /\ WithVm(ps, es, vm).index = ps.index
         /\ WithVm(ps, es, vm).stacks = ps.stacks
         /\ WithVm(ps, es, vm).vms = vm
BY Zenon DEF ProcTable, WithVm

\* vm_proc_init for the process in entry s.
GiveVm(ps, s, pid) == [ps EXCEPT !.entries[s].vm = TRUE, !.vms = @ \cup {pid}]

\* q is ps with an address space for the process in entry s, in the given state.
HasVm(ps, q, s, pid, st) ==
  /\ q \in ProcTable
  /\ q.nextPid = ps.nextPid /\ q.index = ps.index /\ q.stacks = ps.stacks
  /\ q.vms = Plus(ps.vms, pid)
  /\ \A t \in Slots : t # s => q.entries[t] = ps.entries[t]
  /\ q.entries[s].used = ps.entries[s].used /\ q.entries[s].pid = ps.entries[s].pid
  /\ q.entries[s].state = st
  /\ q.entries[s].stack = ps.entries[s].stack /\ q.entries[s].vm = TRUE
  /\ q.entries[s].start = ps.entries[s].start
  /\ q.entries[s].response = ps.entries[s].response
  /\ SameAccount(ps.entries[s], q.entries[s])

LEMMA GiveVmFacts ==
  ASSUME NEW ps \in ProcTable, NEW s \in Slots, NEW pid \in Nat
  PROVE  HasVm(ps, GiveVm(ps, s, pid), s, pid, ps.entries[s].state)
<1> DEFINE e == ps.entries[s]
           f == [e EXCEPT !.vm = TRUE]
           es == [ps.entries EXCEPT ![s] = f]
           vm == Plus(ps.vms, pid)
           q == GiveVm(ps, s, pid)
<1>1. e \in PcbType /\ ps.entries \in [Slots -> PcbType] /\ vm \in SUBSET Nat
  <2>1. ps.vms \in SUBSET Nat
        BY TableFields, Zenon
  <2>2. QED BY <2>1, TableFields DEF Plus
<1>2. q = WithVm(ps, es, vm)
      BY <1>1 DEF GiveVm, ProcTable, WithVm, Plus
<1> HIDE DEF q
<1>3. f \in PcbType
      BY <1>1, Zenon DEF PcbType
<1>4. /\ f.state = e.state /\ f.response = e.response /\ f.used = e.used /\ f.pid = e.pid
      /\ f.stack = e.stack /\ f.vm = TRUE /\ f.start = e.start
      /\ f.cpu = e.cpu /\ f.wait = e.wait /\ f.slept = e.slept
      BY <1>1 DEF PcbType
<1> HIDE DEF f
<1>5. es \in [Slots -> PcbType] /\ es[s] = f /\ \A t \in Slots : t # s => es[t] = ps.entries[t]
      BY <1>1, <1>3
<1> HIDE DEF es, e, vm
<1>6. /\ q \in ProcTable /\ q.entries = es
      /\ q.nextPid = ps.nextPid /\ q.index = ps.index
      /\ q.stacks = ps.stacks /\ q.vms = vm
      BY <1>1, <1>2, <1>5, TableWithVm
<1>7. HasVm(ps, q, s, pid, ps.entries[s].state)
      BY <1>4, <1>5, <1>6 DEF e, vm, SameAccount, HasVm
<1>8. QED BY <1>7 DEF q

\* vm_proc_init and enqueue_ready for a process that proc_create has made.
LEMMA ReadiedFacts ==
  ASSUME NEW ps \in ProcTable, NEW s \in Slots, NEW pid \in Indexed, NEW now \in Nat,
         ps.entries[s].used = TRUE, ps.entries[s].pid = pid, ps.index[pid] = s, pid < ps.nextPid
  PROVE  HasVm(ps, SetState(GiveVm(ps, s, pid), pid, "READY", now), s, pid, "READY")
<1> DEFINE g == GiveVm(ps, s, pid)
           q == SetState(g, pid, "READY", now)
<1>1. pid \in Nat
      BY SessionAssumption DEF Indexed
<1>2. HasVm(ps, g, s, pid, ps.entries[s].state)
      BY <1>1, GiveVmFacts, Zenon
<1> HIDE DEF g
<1>3. g \in ProcTable /\ FindSlot(g, pid) = s
      BY <1>2, SlotsNumbers DEF FindSlot, HasVm
<1>4. /\ Writes(g, q, s)
      /\ q.stacks = g.stacks
      /\ q.entries[s].state = "READY"
      /\ q.entries[s].stack = g.entries[s].stack
      /\ q.entries[s].response = g.entries[s].response
      /\ SameAccount(g.entries[s], q.entries[s])
  <2>1. "READY" \in ProcStates /\ "READY" # "RUNNING"
        BY DEF ProcStates
  <2>2. QED BY <1>3, <2>1, SetStateFacts
<1> HIDE DEF q
<1>5. HasVm(ps, q, s, pid, "READY")
      BY <1>2, <1>4 DEF Writes, SameAccount, HasVm
<1>6. QED BY <1>5 DEF q, g

\* q is ps with a new process in entry s.
HasNew(ps, q, s, now, st) ==
  /\ s \in Slots /\ ~ ps.entries[s].used
  /\ q \in ProcTable
  /\ \A t \in Slots : t # s => q.entries[t] = ps.entries[t]
  /\ q.entries[s].used = TRUE /\ q.entries[s].pid = ps.nextPid /\ q.entries[s].state = st
  /\ q.entries[s].stack = TRUE
  /\ q.entries[s].start = now /\ q.entries[s].response = Never
  /\ q.entries[s].cpu = 0 /\ q.entries[s].wait = 0 /\ q.entries[s].slept = 0
  /\ q.nextPid = ps.nextPid + 1
  /\ q.index = [p \in Indexed |-> IF p = ps.nextPid THEN s ELSE ps.index[p]]
  /\ q.stacks = Plus(ps.stacks, ps.nextPid)

\* proc_create takes the first free entry and, for a pid within the index, notes
\* it there.
LEMMA ProcCreateFacts ==
  ASSUME NEW ps \in ProcTable, FreeEntries(ps) # {}, NEW now \in Nat
  PROVE  LET q == ProcCreate(ps, now)
             s == Min(FreeEntries(ps)) IN
         /\ HasNew(ps, q, s, now, "NEW")
         /\ q.entries[s].vm = FALSE
         /\ q.vms = ps.vms
         /\ FindSlot(q, ps.nextPid) = IF ps.nextPid \in Indexed THEN s ELSE NoSlot
<1> DEFINE s == Min(FreeEntries(ps))
           f == NewPcb(ps.nextPid, now)
           es == [ps.entries EXCEPT ![s] = f]
           ix == [p \in Indexed |-> IF p = ps.nextPid THEN s ELSE ps.index[p]]
           st == Plus(ps.stacks, ps.nextPid)
           n == ps.nextPid + 1
           q == ProcCreate(ps, now)
<1>1. /\ ps.entries \in [Slots -> PcbType] /\ ps.nextPid \in Nat \ {0}
      /\ ps.index \in IndexType /\ ps.stacks \in SUBSET Nat /\ ps.vms \in SUBSET Nat
      BY TableFields, Zenon
<1>2. s \in FreeEntries(ps)
      BY SlotsNumbers, LeastNat, Zenon DEF FreeEntries
<1>3. s \in Slots /\ ~ ps.entries[s].used
      BY <1>2 DEF FreeEntries
<1>4. q = WithNew(ps, es, n, ix, st)
      BY <1>1 DEF ProcCreate, ProcTable, WithNew, NewPcb, Plus
<1> HIDE DEF q, s
<1>5. /\ f \in PcbType /\ f.used = TRUE /\ f.pid = ps.nextPid /\ f.state = "NEW"
      /\ f.stack = TRUE /\ f.vm = FALSE
      /\ f.start = now /\ f.response = Never /\ f.cpu = 0 /\ f.wait = 0 /\ f.slept = 0
      BY <1>1, NewPcbFacts
<1> HIDE DEF f
<1>6. es \in [Slots -> PcbType] /\ es[s] = f /\ \A t \in Slots : t # s => es[t] = ps.entries[t]
      BY <1>1, <1>3, <1>5
<1>7. ix \in IndexType
      BY <1>1, <1>3 DEF IndexType
<1>8. st \in SUBSET Nat /\ n \in Nat \ {0} /\ ps.nextPid < n
      BY <1>1 DEF Plus
<1>9. ps.nextPid \in Indexed => ix[ps.nextPid] = s
      OBVIOUS
<1> HIDE DEF es, st, n, ix
<1>10. /\ q \in ProcTable /\ q.entries = es /\ q.nextPid = n /\ q.stacks = st /\ q.vms = ps.vms
       /\ q.index = ix
       BY <1>4, <1>6, <1>7, <1>8, TableWithNew
<1>11. FindSlot(q, ps.nextPid) = IF ps.nextPid \in Indexed THEN s ELSE NoSlot
  <2>1. CASE ps.nextPid \in Indexed
    <3>1. s # NoSlot
          BY <1>3, SlotsNumbers
    <3>2. QED BY <1>5, <1>6, <1>8, <1>9, <1>10, <2>1, <3>1 DEF FindSlot
  <2>2. CASE ps.nextPid \notin Indexed
        BY <2>2 DEF FindSlot
  <2>3. QED BY <2>1, <2>2
<1>12. HasNew(ps, q, s, now, "NEW")
       BY <1>3, <1>5, <1>6, <1>10 DEF HasNew, ix, st, n
<1>13. q.entries[s].vm = FALSE
       BY <1>5, <1>6, <1>10
<1>14. QED BY <1>10, <1>11, <1>12, <1>13, Zenon DEF q, s

\* A pid with a place in the index, once runtime_run_workload has made it READY.
LEMMA StartedFacts ==
  ASSUME NEW ps \in ProcTable, FreeEntries(ps) # {}, NEW now \in Nat, ps.nextPid \in Indexed
  PROVE  LET made == ProcCreate(ps, now)
             s == FindSlot(made, ps.nextPid)
             q == SetState(GiveVm(made, s, ps.nextPid), ps.nextPid, "READY", now) IN
         /\ HasNew(ps, q, s, now, "READY")
         /\ q.entries[s].vm = TRUE
         /\ q.vms = Plus(ps.vms, ps.nextPid)
<1> DEFINE pid == ps.nextPid
           made == ProcCreate(ps, now)
           s == FindSlot(made, pid)
           q == SetState(GiveVm(made, s, pid), pid, "READY", now)
<1>1. pid \in Nat \ {0}
      BY TableFields
<1>2. HasNew(ps, made, s, now, "NEW") /\ made.vms = ps.vms
      BY ProcCreateFacts, Zenon
<1> HIDE DEF made, s
<1>3. /\ made \in ProcTable /\ s \in Slots /\ pid \in Indexed
      /\ made.entries[s].used = TRUE /\ made.entries[s].pid = pid
      /\ made.index[pid] = s /\ pid < made.nextPid
      BY <1>1, <1>2 DEF HasNew
<1> HIDE DEF pid
<1>4. HasVm(made, q, s, pid, "READY")
      BY <1>3, ReadiedFacts, Zenon
<1> HIDE DEF q
<1>5. HasNew(ps, q, s, now, "READY")
      BY <1>2, <1>4, Zenon DEF HasNew, HasVm, SameAccount, pid
<1>6. q.vms = Plus(ps.vms, pid) /\ q.entries[s].vm = TRUE
      BY <1>2, <1>4, Zenon DEF HasVm
<1>7. QED BY <1>5, <1>6, Zenon DEF q, made, s, pid

\* q is ps after a process was made in entry s and destroyed again.
HasFailed(ps, q, s) ==
  /\ s \in Slots /\ ~ ps.entries[s].used
  /\ q \in ProcTable
  /\ \A t \in Slots : t # s => q.entries[t] = ps.entries[t]
  /\ q.entries[s].used = FALSE /\ q.entries[s].stack = FALSE /\ q.entries[s].vm = FALSE
  /\ q.nextPid = ps.nextPid + 1
  /\ q.index = [p \in Indexed |-> IF p = ps.nextPid THEN NoSlot ELSE ps.index[p]]
  /\ q.stacks = Plus(ps.stacks, ps.nextPid) \ {ps.nextPid}
  /\ q.vms = ps.vms

\* vm_proc_destroy of a process that has no address space changes nothing.
LEMMA ReleaseNoVm ==
  ASSUME NEW ps \in ProcTable, NEW s \in Slots, ps.entries[s].vm = FALSE
  PROVE  ReleaseVm(ps, s) = ps
<1> DEFINE e == ps.entries[s]
           f == [e EXCEPT !.vm = FALSE]
           es == [ps.entries EXCEPT ![s] = f]
<1>1. e \in PcbType /\ ps.entries \in [Slots -> PcbType]
      BY TableFields, Zenon
<1>2. f = e
      BY <1>1, Zenon DEF PcbType
<1>3. es = ps.entries
      BY <1>1, <1>2, Zenon
<1>4. ReleaseVm(ps, s) = WithVm(ps, es, ps.vms)
      BY <1>1, Zenon DEF ReleaseVm, ProcTable, WithVm
<1> HIDE DEF es
<1>5. QED BY <1>3, <1>4, Zenon DEF WithVm, ProcTable

\* What proc_destroy leaves of an entry.
Freed(e) == [e EXCEPT !.code = 1, !.state = "EXITED", !.used = FALSE]

WithIndex(ps, es, ix) == [ps EXCEPT !.entries = es, !.index = ix]

LEMMA TableWithIndex ==
  ASSUME NEW ps \in ProcTable, NEW es \in [Slots -> PcbType], NEW ix \in IndexType
  PROVE  /\ WithIndex(ps, es, ix) \in ProcTable
         /\ WithIndex(ps, es, ix).entries = es
         /\ WithIndex(ps, es, ix).nextPid = ps.nextPid
         /\ WithIndex(ps, es, ix).index = ix
         /\ WithIndex(ps, es, ix).stacks = ps.stacks
         /\ WithIndex(ps, es, ix).vms = ps.vms
BY Zenon DEF ProcTable, WithIndex

\* proc_destroy of the process that proc_create has just made.
LEMMA FailedFacts ==
  ASSUME NEW ps \in ProcTable, FreeEntries(ps) # {}, NEW now \in Nat, ps.nextPid \in Indexed
  PROVE  LET made == ProcCreate(ps, now)
             s == FindSlot(made, ps.nextPid) IN
         HasFailed(ps, ProcDestroy(made, ps.nextPid, 1), s)
<1> DEFINE pid == ps.nextPid
           made == ProcCreate(ps, now)
           s == FindSlot(made, pid)
           q == ProcDestroy(made, pid, 1)
           r == ReleaseStack(made, s)
           es == [r.entries EXCEPT ![s] = Freed(r.entries[s])]
           ix == [r.index EXCEPT ![pid] = NoSlot]
<1>1. /\ HasNew(ps, made, s, now, "NEW") /\ made.vms = ps.vms /\ made.entries[s].vm = FALSE
      BY ProcCreateFacts, Zenon
<1> HIDE DEF made, s, pid
<1>2. /\ made \in ProcTable /\ s \in Slots /\ pid \in Indexed
      /\ made.entries[s].stack = TRUE /\ made.entries[s].pid = pid
      BY <1>1, Zenon DEF HasNew, pid
<1>3. /\ r \in ProcTable
      /\ r.nextPid = made.nextPid /\ r.index = made.index /\ r.vms = made.vms
      /\ r.stacks = made.stacks \ {pid}
      /\ \A t \in Slots : t # s => r.entries[t] = made.entries[t]
      /\ r.entries[s] = NoStack(made.entries[s])
      BY <1>2, ReleaseStackFacts, Zenon
<1>4. made.entries[s] \in PcbType /\ r.entries \in [Slots -> PcbType] /\ r.index \in IndexType
      BY <1>2, <1>3, TableFields
<1>5. /\ NoStack(made.entries[s]) \in PcbType
      /\ NoStack(made.entries[s]).stack = FALSE /\ NoStack(made.entries[s]).vm = FALSE
  <2>1. NoStack(made.entries[s]) \in PcbType
        BY <1>4, Zenon DEF NoStack, PcbType
  <2>2. QED BY <1>1, <1>4, <2>1 DEF NoStack, PcbType
<1>6. ReleaseVm(r, s) = r
      BY <1>2, <1>3, <1>5, ReleaseNoVm, Zenon
<1>7. q = WithIndex(r, es, ix)
      BY <1>3, <1>4, <1>6, Zenon DEF ProcDestroy, WithIndex, ProcTable, Freed, s
<1> HIDE DEF r, q
<1>8. \A e \in PcbType : /\ Freed(e) \in PcbType /\ Freed(e).used = FALSE
                         /\ Freed(e).stack = e.stack /\ Freed(e).vm = e.vm
  <2> SUFFICES ASSUME NEW e \in PcbType
               PROVE  /\ Freed(e) \in PcbType /\ Freed(e).used = FALSE
                      /\ Freed(e).stack = e.stack /\ Freed(e).vm = e.vm
      BY Zenon
  <2>1. 1 \in Nat
        OBVIOUS
  <2>2. Freed(e) \in PcbType
        BY <2>1, Zenon DEF Freed, PcbType, ProcStates
  <2>3. QED BY <2>2 DEF Freed, PcbType
<1>9. /\ es \in [Slots -> PcbType] /\ es[s] = Freed(NoStack(made.entries[s]))
      /\ \A t \in Slots : t # s => es[t] = r.entries[t]
      BY <1>2, <1>3, <1>4, <1>5, <1>8
<1>10. ix \in IndexType /\ ix = [p \in Indexed |-> IF p = pid THEN NoSlot ELSE made.index[p]]
       BY <1>2, <1>3, <1>4 DEF IndexType
<1>11. ix = [p \in Indexed |-> IF p = pid THEN NoSlot ELSE ps.index[p]]
       BY <1>1, <1>10 DEF HasNew, pid
<1> HIDE DEF es, ix
<1>12. /\ q \in ProcTable /\ q.entries = es /\ q.nextPid = r.nextPid /\ q.index = ix
       /\ q.stacks = r.stacks /\ q.vms = r.vms
       BY <1>3, <1>7, <1>9, <1>10, TableWithIndex
<1>13. q.entries[s].used = FALSE /\ q.entries[s].stack = FALSE /\ q.entries[s].vm = FALSE
       BY <1>5, <1>8, <1>9, <1>12
<1>14. \A t \in Slots : t # s => q.entries[t] = ps.entries[t]
       BY <1>1, <1>3, <1>9, <1>12 DEF HasNew
<1>15. HasFailed(ps, q, s)
       BY <1>1, <1>3, <1>11, <1>12, <1>13, <1>14 DEF HasFailed, HasNew, pid
<1>16. QED BY <1>15 DEF q, made, s, pid

\* q is ps with another wakeup_tick in entry s.
WithWakeup(ps, s, n) == [ps EXCEPT !.entries[s].wakeup = n]

LEMMA WakeupFacts ==
  ASSUME NEW ps \in ProcTable, NEW s \in Slots, NEW n \in Nat
  PROVE  LET q == WithWakeup(ps, s, n)
             e == ps.entries[s]
             f == q.entries[s] IN
         /\ Writes(ps, q, s)
         /\ q.stacks = ps.stacks
         /\ f.state = e.state
         /\ f.stack = e.stack /\ f.code = e.code /\ f.finish = e.finish
         /\ f.response = e.response
         /\ SameAccount(e, f)
<1> DEFINE e == ps.entries[s]
           f == [e EXCEPT !.wakeup = n]
           es == [ps.entries EXCEPT ![s] = f]
           q == WithWakeup(ps, s, n)
<1>1. e \in PcbType /\ ps.entries \in [Slots -> PcbType]
      BY TableFields, Zenon
<1>2. q = WithEntries(ps, es)
      BY <1>1 DEF WithWakeup, ProcTable, WithEntries
<1> HIDE DEF q
<1>3. f \in PcbType
      BY <1>1, Zenon DEF PcbType
<1>4. /\ f.state = e.state /\ f.response = e.response /\ f.used = e.used /\ f.pid = e.pid
      /\ f.stack = e.stack /\ f.vm = e.vm /\ f.start = e.start /\ f.finish = e.finish
      /\ f.code = e.code /\ f.cpu = e.cpu /\ f.wait = e.wait /\ f.slept = e.slept
      BY <1>1 DEF PcbType
<1> HIDE DEF f
<1>5. es \in [Slots -> PcbType] /\ es[s] = f /\ \A t \in Slots : t # s => es[t] = ps.entries[t]
      BY <1>1, <1>3
<1> HIDE DEF es, e
<1>6. /\ q \in ProcTable /\ q.entries = es
      /\ q.nextPid = ps.nextPid /\ q.index = ps.index
      /\ q.stacks = ps.stacks /\ q.vms = ps.vms
      BY <1>2, <1>5, TableWithEntries, Zenon
<1>7. QED BY <1>4, <1>5, <1>6 DEF Writes, SameAccount, e, q

\* f is e after a tick, in which it got n ticks of the CPU.
Aged(e, f, n) ==
  /\ f \in PcbType
  /\ f.used = e.used /\ f.pid = e.pid /\ f.state = e.state /\ f.stack = e.stack /\ f.vm = e.vm
  /\ f.start = e.start /\ f.finish = e.finish /\ f.response = e.response /\ f.code = e.code
  /\ f.cpu = e.cpu + n
  /\ e.used => f.wait = IF e.state = "READY" THEN e.wait + 1 ELSE e.wait
  /\ e.used => f.slept = IF e.state = "BLOCKED" THEN e.slept + 1 ELSE e.slept

SameShape(ps, q) ==
  /\ q \in ProcTable
  /\ q.nextPid = ps.nextPid /\ q.index = ps.index /\ q.stacks = ps.stacks /\ q.vms = ps.vms

LEMMA AccountedFacts ==
  ASSUME NEW ps \in ProcTable
  PROVE  LET q == [ps EXCEPT !.entries = Accounted(@)] IN
         /\ SameShape(ps, q)
         /\ \A s \in Slots : Aged(ps.entries[s], q.entries[s], 0)
<1> DEFINE es == Accounted(ps.entries)
           q == [ps EXCEPT !.entries = Accounted(@)]
<1>1. ps.entries \in [Slots -> PcbType]
      BY TableFields, Zenon
<1>2. ASSUME NEW s \in Slots
      PROVE  Aged(ps.entries[s], es[s], 0)
  <2> DEFINE e == ps.entries[s]
             w == IF e.used /\ e.state = "READY" THEN e.wait + 1 ELSE e.wait
             b == IF e.used /\ e.state = "BLOCKED" THEN e.slept + 1 ELSE e.slept
             f == [e EXCEPT !.wait = w, !.slept = b]
  <2>1. e \in PcbType
        BY <1>1
  <2>2. es[s] = f
        BY DEF Accounted
  <2>3. w \in Nat /\ b \in Nat /\ e.cpu \in Nat
        BY <2>1, PcbFields
  <2> HIDE DEF w, b
  <2>4. f \in PcbType
        BY <2>1, <2>3, Zenon DEF PcbType
  <2>5. /\ f.used = e.used /\ f.pid = e.pid /\ f.state = e.state /\ f.stack = e.stack
        /\ f.vm = e.vm /\ f.start = e.start /\ f.finish = e.finish /\ f.response = e.response
        /\ f.code = e.code /\ f.cpu = e.cpu /\ f.wait = w /\ f.slept = b
        BY <2>1 DEF PcbType
  <2>6. e.cpu = e.cpu + 0
        BY <2>3
  <2> HIDE DEF f, e
  <2>7. Aged(e, f, 0)
        BY <2>4, <2>5, <2>6 DEF Aged, w, b
  <2>8. QED BY <2>2, <2>7 DEF e
<1>3. es \in [Slots -> PcbType]
  <2>1. \A s \in Slots : es[s] \in PcbType
        BY <1>2, Zenon DEF Aged
  <2>2. QED BY <2>1, Zenon DEF Accounted
<1>4. q = WithEntries(ps, es)
      BY DEF WithEntries, ProcTable
<1> HIDE DEF es, q
<1>5. SameShape(ps, q) /\ q.entries = es
      BY <1>3, <1>4, TableWithEntries DEF SameShape
<1>6. QED BY <1>2, <1>5 DEF q

\* A tick of the CPU for the process in entry s.
LEMMA WorkedFacts ==
  ASSUME NEW ps \in ProcTable, NEW s \in Slots
  PROVE  LET waited == [ps EXCEPT !.entries = Accounted(@)]
             q == [waited EXCEPT !.entries[s].cpu = @ + 1] IN
         /\ SameShape(ps, q)
         /\ \A t \in Slots : Aged(ps.entries[t], q.entries[t], IF t = s THEN 1 ELSE 0)
<1> DEFINE w == [ps EXCEPT !.entries = Accounted(@)]
           q == [w EXCEPT !.entries[s].cpu = @ + 1]
           e == w.entries[s]
           f == [e EXCEPT !.cpu = e.cpu + 1]
           es == [w.entries EXCEPT ![s] = f]
<1>1. SameShape(ps, w) /\ \A t \in Slots : Aged(ps.entries[t], w.entries[t], 0)
      BY AccountedFacts, Zenon
<1> HIDE DEF w
<1>2. w \in ProcTable /\ e \in PcbType /\ w.entries \in [Slots -> PcbType]
  <2>1. w \in ProcTable
        BY <1>1 DEF SameShape
  <2>2. QED BY <2>1, TableFields
<1>3. e.cpu + 1 \in Nat
      BY <1>2, PcbFields
<1>4. q = WithEntries(w, es)
      BY <1>2 DEF ProcTable, WithEntries
<1> HIDE DEF q
<1>5. f \in PcbType
      BY <1>2, <1>3, Zenon DEF PcbType
<1>6. /\ f.state = e.state /\ f.response = e.response /\ f.used = e.used /\ f.pid = e.pid
      /\ f.stack = e.stack /\ f.vm = e.vm /\ f.start = e.start /\ f.finish = e.finish
      /\ f.code = e.code /\ f.cpu = e.cpu + 1 /\ f.wait = e.wait /\ f.slept = e.slept
      BY <1>2 DEF PcbType
<1> HIDE DEF f
<1>7. es \in [Slots -> PcbType] /\ es[s] = f /\ \A t \in Slots : t # s => es[t] = w.entries[t]
      BY <1>2, <1>5
<1> HIDE DEF es
<1>8. SameShape(w, q) /\ q.entries = es
      BY <1>2, <1>4, <1>7, TableWithEntries DEF SameShape
<1>9. Aged(ps.entries[s], f, 1)
  <2>1. Aged(ps.entries[s], e, 0) /\ ps.entries[s].cpu \in Nat
        BY <1>1, TableFields, PcbFields
  <2>2. e.cpu + 1 = ps.entries[s].cpu + 1
        BY <2>1 DEF Aged
  <2> HIDE DEF e
  <2>3. QED BY <1>5, <1>6, <2>1, <2>2 DEF Aged
<1>10. ASSUME NEW t \in Slots
       PROVE  Aged(ps.entries[t], q.entries[t], IF t = s THEN 1 ELSE 0)
       BY <1>1, <1>7, <1>8, <1>9
<1>11. SameShape(ps, q)
       BY <1>1, <1>8 DEF SameShape
<1>12. QED BY <1>10, <1>11 DEF q, w

-----------------------------------------------------------------------------
(***************************************************************************)
(* trace_event                                                             *)
(***************************************************************************)
\* q is tr with more events, the last of which about the state of pid says st.
Tells(tr, q, pid, st) ==
  /\ q \in TraceType
  /\ ~ q.dropped => ~ tr.dropped /\ q.says = [tr.says EXCEPT ![pid] = st]

\* q is tr with more events, none of which is about a change of state.
Silent(tr, q) ==
  /\ q \in TraceType
  /\ ~ q.dropped => ~ tr.dropped /\ q.says = tr.says

TraceKept(tr, says) == [tr EXCEPT !.count = @ + 1, !.says = says]
TraceDropped(tr) == [tr EXCEPT !.dropped = TRUE]

LEMMA TraceKeptFacts ==
  ASSUME NEW tr \in TraceType, NEW says \in [1 .. MaxPid -> ProcStates]
  PROVE  /\ TraceKept(tr, says) \in TraceType
         /\ TraceKept(tr, says).says = says
         /\ TraceKept(tr, says).dropped = tr.dropped
<1>1. tr.count + 1 \in Nat
      BY DEF TraceType
<1>2. TraceKept(tr, says) = [tr EXCEPT !.count = tr.count + 1, !.says = says]
      BY DEF TraceKept
<1>3. QED BY <1>1, <1>2, Zenon DEF TraceType

LEMMA TraceDroppedFacts ==
  ASSUME NEW tr \in TraceType
  PROVE  TraceDropped(tr) \in TraceType /\ TraceDropped(tr).dropped = TRUE
BY Zenon DEF TraceDropped, TraceType

LEMMA TracedSilent ==
  ASSUME NEW tr \in TraceType, NEW pid, NEW event, event \notin DOMAIN Meaning
  PROVE  Silent(tr, Traced(tr, pid, event))
<1>1. tr.says \in [1 .. MaxPid -> ProcStates]
      BY DEF TraceType
<1>2. \/ Traced(tr, pid, event) = TraceKept(tr, tr.says)
      \/ Traced(tr, pid, event) = TraceDropped(tr)
      BY DEF Traced, TraceKept, TraceDropped
<1>3. CASE Traced(tr, pid, event) = TraceKept(tr, tr.says)
      BY <1>1, <1>3, TraceKeptFacts DEF Silent
<1>4. CASE Traced(tr, pid, event) = TraceDropped(tr)
      BY <1>4, TraceDroppedFacts, Zenon DEF Silent
<1>5. QED BY <1>2, <1>3, <1>4

LEMMA TracedTells ==
  ASSUME NEW tr \in TraceType, NEW pid \in 1 .. MaxPid, NEW event \in DOMAIN Meaning
  PROVE  Tells(tr, Traced(tr, pid, event), pid, Meaning[event])
<1> DEFINE says == [tr.says EXCEPT ![pid] = Meaning[event]]
<1>1. Meaning[event] \in ProcStates
      BY DEF Meaning, ProcStates
<1>2. says \in [1 .. MaxPid -> ProcStates]
      BY <1>1 DEF TraceType
<1>3. \/ Traced(tr, pid, event) = TraceKept(tr, says)
      \/ Traced(tr, pid, event) = TraceDropped(tr)
      BY DEF Traced, TraceKept, TraceDropped
<1>4. CASE Traced(tr, pid, event) = TraceKept(tr, says)
  <2> HIDE DEF says
  <2>1. /\ Traced(tr, pid, event) \in TraceType
        /\ Traced(tr, pid, event).says = says
        /\ Traced(tr, pid, event).dropped = tr.dropped
        BY <1>2, <1>4, TraceKeptFacts
  <2>2. QED BY <2>1 DEF Tells, says
<1>5. CASE Traced(tr, pid, event) = TraceDropped(tr)
      BY <1>5, TraceDroppedFacts, Zenon DEF Tells
<1>6. QED BY <1>3, <1>4, <1>5

LEMMA TellsThenSilent ==
  ASSUME NEW tr, NEW mid, NEW q, NEW pid, NEW st, Tells(tr, mid, pid, st), Silent(mid, q)
  PROVE  Tells(tr, q, pid, st)
BY DEF Tells, Silent

LEMMA EventsOfState ==
  /\ \A e \in {"READY", "DISPATCH", "BLOCK", "EXIT", "KILL"} : e \in DOMAIN Meaning
  /\ \A e \in {"CREATE", "WAKE", "CTXSW", "IDLE", "CPU", "YIELD"} : e \notin DOMAIN Meaning
  /\ Meaning["READY"] = "READY" /\ Meaning["DISPATCH"] = "RUNNING"
  /\ Meaning["BLOCK"] = "BLOCKED" /\ Meaning["EXIT"] = "EXITED" /\ Meaning["KILL"] = "EXITED"
BY DEF Meaning

\* Two events in one handler, the first of which is about a change of state.
LEMMA BothTell ==
  ASSUME NEW tr \in TraceType, NEW pid \in 1 .. MaxPid,
         NEW first \in DOMAIN Meaning, NEW second, second \notin DOMAIN Meaning
  PROVE  Tells(tr, TracedBoth(tr, pid, first, second), pid, Meaning[first])
<1> DEFINE mid == Traced(tr, pid, first)
<1>1. Tells(tr, mid, pid, Meaning[first])
      BY TracedTells, Zenon
<1> HIDE DEF mid
<1>2. Silent(mid, Traced(mid, pid, second))
  <2>1. mid \in TraceType
        BY <1>1 DEF Tells
  <2>2. QED BY <2>1, TracedSilent, Zenon
<1>3. QED BY <1>1, <1>2, TellsThenSilent, Zenon DEF TracedBoth, mid

-----------------------------------------------------------------------------
(***************************************************************************)
(* A step that changes the state of one process                            *)
(***************************************************************************)
\* What the runtime's own tables may do in such a step: the slots of the other
\* processes stay, and no slot comes into use.
KeepsSlots(r, q, pid) ==
  /\ \A p \in Indexed : p # pid /\ HasSlot(r, p) => HasSlot(q, p)
  /\ \A i \in Slots : q.slots[i].used => r.slots[i].used /\ q.slots[i].pid = r.slots[i].pid

\* current_pid afterwards, when the process pid is in the state st.
NextCurrent(r, q, pid, st) ==
  /\ q.current = pid <=> st = "RUNNING"
  /\ r.current \notin {pid, NoPid} => q.current = r.current
  /\ r.current \in {pid, NoPid} => q.current \in {pid, NoPid}

LEMMA EntryFacts ==
  ASSUME NEW ps \in ProcTable, NEW r, NEW s \in Slots, EntryOK(ps, r, s), ps.entries[s].used
  PROVE  /\ ps.entries[s].pid \in 1 .. ps.nextPid - 1
         /\ ps.entries[s].pid \in Nat /\ ps.entries[s].state \in ProcStates
         /\ ps.entries[s].state # "NEW" <=> ps.entries[s].pid \in Indexed
         /\ ps.entries[s].pid \in Indexed => ps.index[ps.entries[s].pid] = s
BY TableFields, PcbFields DEF EntryOK

\* proc_get finds a process whose pid has a place in the index.
LEMMA Finds ==
  ASSUME NEW ps \in ProcTable, NEW r, NEW s \in Slots, EntryOK(ps, r, s), ps.entries[s].used,
         ps.entries[s].pid \in Indexed
  PROVE  FindSlot(ps, ps.entries[s].pid) = s
<1>1. /\ ps.entries[s].pid \in 1 .. ps.nextPid - 1 /\ ps.index[ps.entries[s].pid] = s
      BY EntryFacts
<1>2. s # NoSlot /\ ps.nextPid \in Nat
      BY SlotsNumbers, TableFields
<1>3. ps.entries[s].pid < ps.nextPid
      BY <1>1, <1>2
<1>4. QED BY <1>1, <1>2, <1>3 DEF FindSlot

LEMMA ChangeTables ==
  ASSUME NEW ps \in ProcTable, NEW q \in ProcTable, NEW r \in RuntimeType,
         NEW r2 \in RuntimeType, NEW s \in Slots,
         TablesOK(ps, r), Writes(ps, q, s),
         NEW pid \in Indexed, ps.entries[s].pid = pid, ps.entries[s].used,
         ps.entries[s].state # "EXITED",
         q.entries[s].state # "NEW",
         Live(q.entries[s]) => HasSlot(r2, pid),
         q.entries[s].stack <=> q.entries[s].state # "EXITED",
         q.stacks = IF q.entries[s].state = "EXITED" THEN ps.stacks \ {pid} ELSE ps.stacks,
         KeepsSlots(r, r2, pid), NextCurrent(r, r2, pid, q.entries[s].state)
  PROVE  TablesOK(q, r2)
<1>1. /\ \A t \in Slots : EntryOK(ps, r, t)
      /\ \A i \in Slots : SlotOK(ps, r, i)
      /\ r.current # NoPid => Owned(ps, r.current)
      /\ ps.stacks = {ps.entries[t].pid : t \in Stacked(ps)}
      /\ ps.vms = {ps.entries[t].pid : t \in Mapped(ps)}
      BY DEF TablesOK
<1>2. /\ q.nextPid = ps.nextPid /\ q.index = ps.index
      /\ \A t \in Slots : t # s => q.entries[t] = ps.entries[t]
      /\ q.entries[s].used = ps.entries[s].used /\ q.entries[s].pid = pid
      /\ q.entries[s].vm = ps.entries[s].vm
      /\ q.vms = ps.vms
      BY DEF Writes
<1>3. \A t \in Slots : /\ q.entries[t].used = ps.entries[t].used
                       /\ q.entries[t].pid = ps.entries[t].pid
      BY <1>2, Zenon
<1>4. \A t \in Slots : ps.entries[t].used /\ ps.entries[t].pid = pid => t = s
      BY <1>1, EntryFacts
<1>5. pid \in Nat /\ pid # NoPid
      BY SessionAssumption DEF Indexed, NoPid
<1>6. ASSUME NEW t \in Slots PROVE EntryOK(q, r2, t)
  <2>1. CASE t = s
    <3>1. EntryOK(ps, r, s)
          BY <1>1, SMTT(20)
    <3>2. QED BY <1>2, <1>3, <2>1, <3>1, SMTT(20) DEF EntryOK, NextCurrent
  <2>2. CASE t # s /\ ~ ps.entries[t].used
        BY <1>1, <1>2, <2>2, Zenon DEF EntryOK
  <2>3. CASE t # s /\ ps.entries[t].used
    <3>1. EntryOK(ps, r, t) /\ ps.entries[t].pid # pid /\ ps.entries[t].pid \in Nat
          BY <1>1, <1>4, <2>3, EntryFacts
    <3>2. ps.entries[t].pid # NoPid
          BY <3>1 DEF NoPid
    <3>3. r2.current = ps.entries[t].pid <=> r.current = ps.entries[t].pid
          BY <1>5, <3>1, <3>2 DEF NextCurrent
    <3>4. ps.entries[t].pid \in Indexed /\ HasSlot(r, ps.entries[t].pid) =>
            HasSlot(r2, ps.entries[t].pid)
          BY <3>1 DEF KeepsSlots
    <3>5. q.entries[t] = ps.entries[t]
          BY <1>2, <2>3
    <3>6. QED BY <1>2, <2>3, <3>1, <3>3, <3>4, <3>5, Zenon DEF EntryOK
  <2>4. QED BY <2>1, <2>2, <2>3
<1>7. ASSUME NEW p, Owned(ps, p) PROVE Owned(q, p)
      BY <1>3, <1>7 DEF Owned
<1>8. ASSUME NEW i \in Slots PROVE SlotOK(q, r2, i)
      BY <1>1, <1>7, Zenon DEF SlotOK, KeepsSlots
<1>9. r2.current # NoPid => Owned(q, r2.current)
  <2>1. Owned(q, pid)
        BY <1>2, Zenon DEF Owned
  <2>2. QED BY <1>1, <1>7, <2>1 DEF NextCurrent
<1>10. q.stacks = {q.entries[t].pid : t \in Stacked(q)}
  <2>1. s \in Stacked(ps)
        BY DEF Stacked
  <2>2. CASE q.entries[s].state = "EXITED"
    <3>1. Stacked(q) = Stacked(ps) \ {s}
          BY <1>2, <1>3, <2>2 DEF Stacked
    <3>2. \A t \in Stacked(ps) : t \in Slots /\ ps.entries[t].used
          BY DEF Stacked
    <3>3. QED BY <1>1, <1>3, <1>4, <2>1, <2>2, <3>1, <3>2
  <2>3. CASE q.entries[s].state # "EXITED"
    <3>1. Stacked(q) = Stacked(ps)
          BY <1>2, <1>3, <2>3 DEF Stacked
    <3>2. \A t \in Stacked(ps) : t \in Slots
          BY DEF Stacked
    <3>3. QED BY <1>1, <1>3, <2>3, <3>1, <3>2
  <2>4. QED BY <2>2, <2>3
<1>11. q.vms = {q.entries[t].pid : t \in Mapped(q)}
  <2>1. Mapped(q) = Mapped(ps)
        BY <1>3 DEF Mapped
  <2>2. \A t \in Mapped(ps) : t \in Slots
        BY DEF Mapped
  <2>3. QED BY <1>1, <1>2, <1>3, <2>1, <2>2, SMTT(20)
<1>12. QED BY <1>6, <1>8, <1>9, <1>10, <1>11 DEF TablesOK

\* q is ps with the process in entry s in the state st, from the tick now on.
Moves(ps, q, s, st, now) ==
  /\ Writes(ps, q, s)
  /\ q.entries[s].state = st
  /\ q.entries[s].stack <=> st # "EXITED"
  /\ q.stacks = IF st = "EXITED" THEN ps.stacks \ {ps.entries[s].pid} ELSE ps.stacks
  /\ SameAccount(ps.entries[s], q.entries[s])
  /\ st = "EXITED" => q.entries[s].finish = now /\ q.entries[s].code \in {0, 130}
  /\ \/ q.entries[s].response = ps.entries[s].response
     \/ q.entries[s].response = now - ps.entries[s].start

\* The four parts of the invariant together.
Good(ps, r, tr) ==
  /\ TablesOK(ps, r)
  /\ AccountsOK(ps, r)
  /\ TraceOK(ps, tr)
  /\ CodesOK(ps)

SameTime(r, r2) == r2.tick = r.tick /\ r2.busy = r.busy /\ r2.idle = r.idle

LEMMA MoveAccounts ==
  ASSUME NEW ps \in ProcTable, NEW q, NEW r \in RuntimeType, NEW r2, NEW s \in Slots, NEW st,
         AccountsOK(ps, r), Moves(ps, q, s, st, r.tick), SameTime(r, r2),
         ps.entries[s].state # "EXITED"
  PROVE  AccountsOK(q, r2)
<1>1. r.tick \in Nat /\ r2.tick = r.tick
      BY DEF RuntimeType, SameTime
<1>2. AccountOK(q.entries[s], r.tick)
  <2> DEFINE e == ps.entries[s]
             f == q.entries[s]
  <2>1. e \in PcbType /\ AccountOK(e, r.tick) /\ e.state # "EXITED"
        BY TableFields DEF AccountsOK
  <2>2. /\ f.used = e.used /\ f.pid = e.pid /\ f.start = e.start
        /\ f.cpu = e.cpu /\ f.wait = e.wait /\ f.slept = e.slept
        /\ f.state = "EXITED" => f.finish = r.tick
        /\ f.response = e.response \/ f.response = r.tick - e.start
        BY DEF Moves, Writes, SameAccount
  <2>3. EndOf(f, r.tick) = r.tick /\ EndOf(e, r.tick) = r.tick
        BY <2>1, <2>2 DEF EndOf
  <2>4. e.start \in Nat /\ e.cpu \in Nat /\ e.wait \in Nat /\ e.slept \in Nat
        BY <2>1, PcbFields
  <2> HIDE DEF e, f
  <2>5. AccountOK(f, r.tick)
    <3> SUFFICES ASSUME f.used, f.pid \in Indexed
                 PROVE  /\ r.tick - f.start = f.cpu + f.wait + f.slept
                        /\ f.response # Never => f.response \in 0 .. r.tick - f.start
        BY <2>3 DEF AccountOK
    <3>1. /\ r.tick - e.start = e.cpu + e.wait + e.slept
          /\ e.response # Never => e.response \in 0 .. r.tick - e.start
          BY <2>1, <2>2, <2>3 DEF AccountOK
    <3>2. r.tick - e.start \in 0 .. r.tick - e.start
          BY <1>1, <2>4, <3>1
    <3>3. QED BY <2>2, <3>1, <3>2
  <2>6. QED BY <2>5 DEF f
<1>3. \A t \in Slots : AccountOK(q.entries[t], r.tick)
      BY <1>2 DEF AccountsOK, Moves, Writes
<1>4. QED BY <1>1, <1>3 DEF AccountsOK, SameTime

LEMMA MoveTrace ==
  ASSUME NEW ps \in ProcTable, NEW q, NEW s \in Slots, NEW st, NEW now,
         NEW tr \in TraceType, NEW tr2,
         ps.entries[s].pid \in 1 .. MaxPid, ps.entries[s].used,
         \A t \in Slots : ps.entries[t].used /\ ps.entries[t].pid = ps.entries[s].pid => t = s,
         TraceOK(ps, tr), CodesOK(ps), Moves(ps, q, s, st, now),
         Tells(tr, tr2, ps.entries[s].pid, st)
  PROVE  TraceOK(q, tr2) /\ CodesOK(q)
<1> DEFINE pid == ps.entries[s].pid
<1>1. /\ q.nextPid = ps.nextPid /\ q.entries[s].state = st
      /\ \A t \in Slots : t # s => q.entries[t] = ps.entries[t]
      /\ q.entries[s].used = ps.entries[s].used /\ q.entries[s].pid = ps.entries[s].pid
      /\ st = "EXITED" => q.entries[s].code \in {0, 130}
      BY Zenon DEF Moves, Writes
<1>2. CodesOK(q)
      BY <1>1 DEF CodesOK
<1>3. ASSUME ~ tr2.dropped PROVE TraceOK(q, tr2)
  <2>1. /\ ~ tr.dropped /\ tr2.says = [tr.says EXCEPT ![pid] = st]
        /\ tr.says \in [1 .. MaxPid -> ProcStates]
        BY <1>3 DEF Tells, TraceType
  <2>2. /\ \A t \in Slots : ps.entries[t].used => tr.says[ps.entries[t].pid] = ps.entries[t].state
        /\ \A p \in 1 .. MaxPid : p >= ps.nextPid => tr.says[p] = "NEW"
        BY <2>1 DEF TraceOK
  <2>3. pid < ps.nextPid /\ ps.nextPid \in Nat
        BY TableFields DEF CodesOK
  <2>4. ASSUME NEW t \in Slots, q.entries[t].used
        PROVE  tr2.says[q.entries[t].pid] = q.entries[t].state
    <3>1. CASE t = s
      <4>1. tr2.says[pid] = st
            BY <2>1, Zenon
      <4>2. QED BY <1>1, <3>1, <4>1
    <3>2. CASE t # s
      <4>1. q.entries[t] = ps.entries[t] /\ ps.entries[t].used /\ ps.entries[t].pid # pid
            BY <1>1, <2>4, <3>2
      <4>2. ps.entries[t].pid \in 1 .. MaxPid
            BY <2>3, <4>1, SessionAssumption DEF CodesOK
      <4>3. QED BY <2>1, <2>2, <4>1, <4>2
    <3>3. QED BY <3>1, <3>2
  <2>5. ASSUME NEW p \in 1 .. MaxPid, p >= ps.nextPid PROVE tr2.says[p] = "NEW"
        BY <2>1, <2>2, <2>3, <2>5
  <2>6. QED BY <1>1, <2>4, <2>5, SMTT(20) DEF TraceOK
<1>4. QED BY <1>2, <1>3 DEF TraceOK

\* A change of state that the runtime's tables and the trace follow.
LEMMA MoveGood ==
  ASSUME NEW ps \in ProcTable, NEW q, NEW r \in RuntimeType, NEW r2 \in RuntimeType,
         NEW tr \in TraceType, NEW tr2, NEW s \in Slots, NEW st,
         Good(ps, r, tr), ps.entries[s].used,
         ps.entries[s].state \notin {"EXITED", "NEW"}, st # "NEW",
         Moves(ps, q, s, st, r.tick), Tells(tr, tr2, ps.entries[s].pid, st), SameTime(r, r2),
         st # "EXITED" => HasSlot(r2, ps.entries[s].pid),
         KeepsSlots(r, r2, ps.entries[s].pid), NextCurrent(r, r2, ps.entries[s].pid, st)
  PROVE  Good(q, r2, tr2)
<1> DEFINE pid == ps.entries[s].pid
<1>1. EntryOK(ps, r, s) /\ \A t \in Slots : EntryOK(ps, r, t)
      BY Zenon DEF Good, TablesOK
<1>2. pid \in Indexed
      BY <1>1, EntryFacts, Zenon
<1>3. \A t \in Slots : ps.entries[t].used /\ ps.entries[t].pid = pid => t = s
  <2>1. ASSUME NEW t \in Slots, ps.entries[t].used, ps.entries[t].pid = pid PROVE t = s
    <3>1. ps.index[ps.entries[t].pid] = t
          BY <1>1, <1>2, <2>1, EntryFacts, Zenon
    <3>2. ps.index[pid] = s
          BY <1>1, <1>2, EntryFacts, Zenon
    <3>3. QED BY <2>1, <3>1, <3>2, Zenon
  <2>2. QED BY <2>1, Zenon
<1>4. pid \in 1 .. MaxPid
  <2>1. CodesOK(ps)
        BY Zenon DEF Good
  <2>2. QED BY <2>1, SessionAssumption, TableFields, PcbFields, SMTT(20) DEF CodesOK
<1>5. TraceOK(q, tr2) /\ CodesOK(q)
  <2>1. TraceOK(ps, tr) /\ CodesOK(ps)
        BY Zenon DEF Good
  <2>2. QED BY <1>3, <1>4, <2>1, MoveTrace, Zenon
<1>6. AccountsOK(q, r2)
      BY MoveAccounts, Zenon DEF Good
<1>7. TablesOK(q, r2)
  <2>1. /\ q \in ProcTable /\ Writes(ps, q, s) /\ q.entries[s].state = st
        /\ q.entries[s].stack <=> q.entries[s].state # "EXITED"
        /\ q.stacks = IF q.entries[s].state = "EXITED" THEN ps.stacks \ {pid} ELSE ps.stacks
        BY Zenon DEF Moves, Writes
  <2>2. Live(q.entries[s]) => HasSlot(r2, pid)
        BY <2>1, Zenon DEF Live
  <2> HIDE DEF pid
  <2>3. QED BY <1>2, <2>1, <2>2, ChangeTables, Zenon DEF Good, pid
<1>8. QED BY <1>5, <1>6, <1>7 DEF Good

-----------------------------------------------------------------------------
(***************************************************************************)
(* A tick, and the runtime's own fields                                    *)
(***************************************************************************)
\* q has the slots of r, for the same processes.
SameRun(r, q) ==
  /\ q \in RuntimeType
  /\ q.index = r.index
  /\ \A i \in Slots : q.slots[i].used = r.slots[i].used /\ q.slots[i].pid = r.slots[i].pid

LEMMA RuntimeFields ==
  ASSUME NEW r \in RuntimeType
  PROVE  /\ r.tick \in Nat /\ r.busy \in Nat /\ r.idle \in Nat
         /\ r.current \in Nat \cup {NoPid} /\ r.started \in BOOLEAN
         /\ r.index \in IndexType /\ r.slots \in [Slots -> SlotType]
         /\ \A i \in Slots : r.slots[i] \in SlotType
BY DEF RuntimeType

LEMMA SameRunKeeps ==
  ASSUME NEW r \in RuntimeType, NEW q, SameRun(r, q)
  PROVE  /\ \A p : HasSlot(r, p) <=> HasSlot(q, p)
         /\ \A p : KeepsSlots(r, q, p)
<1>1. ASSUME NEW p PROVE HasSlot(r, p) <=> HasSlot(q, p)
  <2>1. CASE p \in Indexed /\ r.index[p] # NoSlot
    <3>1. r.index[p] \in Slots
          BY <2>1, RuntimeFields DEF IndexType
    <3>2. QED BY <2>1, <3>1 DEF HasSlot, SameRun
  <2>2. CASE ~ (p \in Indexed /\ r.index[p] # NoSlot)
        BY <2>2 DEF HasSlot, SameRun
  <2>3. QED BY <2>1, <2>2
<1>2. ASSUME NEW p PROVE KeepsSlots(r, q, p)
      BY <1>1 DEF KeepsSlots, SameRun
<1>3. QED BY <1>1, <1>2

LEMMA AgeTables ==
  ASSUME NEW ps \in ProcTable, NEW q, NEW r \in RuntimeType, NEW r2, NEW s,
         TablesOK(ps, r), SameShape(ps, q),
         \A t \in Slots : Aged(ps.entries[t], q.entries[t], IF t = s THEN 1 ELSE 0),
         SameRun(r, r2), r2.current = r.current
  PROVE  TablesOK(q, r2)
<1>1. \A t \in Slots : LET e == ps.entries[t]
                           f == q.entries[t] IN
        f.used = e.used /\ f.pid = e.pid /\ f.state = e.state /\ f.stack = e.stack /\ f.vm = e.vm
      BY Zenon DEF Aged
<1>2. q.nextPid = ps.nextPid /\ q.index = ps.index /\ q.stacks = ps.stacks /\ q.vms = ps.vms
      BY DEF SameShape
<1>3. \A t \in Slots : EntryOK(q, r2, t)
  <2> SUFFICES ASSUME NEW t \in Slots PROVE EntryOK(q, r2, t)
      OBVIOUS
  <2>1. EntryOK(ps, r, t)
        BY DEF TablesOK
  <2>2. HasSlot(r, ps.entries[t].pid) <=> HasSlot(r2, ps.entries[t].pid)
        BY SameRunKeeps
  <2>3. QED BY <1>1, <1>2, <2>1, <2>2, Zenon DEF EntryOK, Live
<1>4. \A p : Owned(ps, p) => Owned(q, p)
      BY <1>1 DEF Owned
<1>5. \A i \in Slots : SlotOK(q, r2, i)
  <2> SUFFICES ASSUME NEW i \in Slots PROVE SlotOK(q, r2, i)
      OBVIOUS
  <2>1. SlotOK(ps, r, i)
        BY DEF TablesOK
  <2>2. QED BY <1>4, <2>1 DEF SlotOK, SameRun
<1>6. Stacked(q) = Stacked(ps) /\ Mapped(q) = Mapped(ps)
      BY <1>1 DEF Stacked, Mapped
<1>7. q.stacks = {q.entries[t].pid : t \in Stacked(q)}
  <2>1. \A t \in Stacked(ps) : q.entries[t].pid = ps.entries[t].pid
        BY <1>1 DEF Stacked
  <2>2. QED BY <1>2, <1>6, <2>1 DEF TablesOK
<1>8. q.vms = {q.entries[t].pid : t \in Mapped(q)}
  <2>1. \A t \in Mapped(ps) : q.entries[t].pid = ps.entries[t].pid
        BY <1>1 DEF Mapped
  <2>2. QED BY <1>2, <1>6, <2>1 DEF TablesOK
<1>9. QED BY <1>3, <1>4, <1>5, <1>7, <1>8 DEF TablesOK

LEMMA AgeAccount ==
  ASSUME NEW e \in PcbType, NEW f, NEW n, Aged(e, f, n), NEW tick \in Nat, AccountOK(e, tick),
         e.used => (n = IF e.state = "RUNNING" THEN 1 ELSE 0),
         e.used /\ e.pid \in Indexed => e.state # "NEW"
  PROVE  AccountOK(f, tick + 1)
<1> SUFFICES ASSUME f.used, f.pid \in Indexed
             PROVE  /\ EndOf(f, tick + 1) - f.start = f.cpu + f.wait + f.slept
                    /\ f.response # Never => f.response \in 0 .. EndOf(f, tick + 1) - f.start
    BY DEF AccountOK
<1>1. /\ e.used /\ e.pid \in Indexed /\ f.state = e.state
      /\ f.start = e.start /\ f.finish = e.finish /\ f.response = e.response
      /\ f.cpu = e.cpu + n
      /\ f.wait = IF e.state = "READY" THEN e.wait + 1 ELSE e.wait
      /\ f.slept = IF e.state = "BLOCKED" THEN e.slept + 1 ELSE e.slept
      BY DEF Aged
<1>2. /\ EndOf(e, tick) - e.start = e.cpu + e.wait + e.slept
      /\ e.response # Never => e.response \in 0 .. EndOf(e, tick) - e.start
      BY <1>1 DEF AccountOK
<1>3. /\ e.start \in Nat /\ e.cpu \in Nat /\ e.wait \in Nat /\ e.slept \in Nat
      /\ e.finish \in Nat /\ e.response \in Int /\ e.state \in ProcStates
      BY PcbFields
<1>4. /\ e.state \in {"READY", "RUNNING", "BLOCKED", "EXITED"}
      /\ n = IF e.state = "RUNNING" THEN 1 ELSE 0
      BY <1>1, <1>3 DEF ProcStates
<1>5. CASE e.state = "EXITED"
  <2>1. EndOf(f, tick + 1) = e.finish /\ EndOf(e, tick) = e.finish
        BY <1>1, <1>5 DEF EndOf
  <2>2. f.cpu = e.cpu /\ f.wait = e.wait /\ f.slept = e.slept
        BY <1>1, <1>3, <1>4, <1>5
  <2>3. QED BY <1>1, <1>2, <2>1, <2>2
<1>6. CASE e.state # "EXITED"
  <2>1. EndOf(f, tick + 1) = tick + 1 /\ EndOf(e, tick) = tick
        BY <1>1, <1>6 DEF EndOf
  <2>2. f.cpu + f.wait + f.slept = e.cpu + e.wait + e.slept + 1
        BY <1>1, <1>3, <1>4, <1>6
  <2>3. (tick + 1) - e.start = e.cpu + e.wait + e.slept + 1
        BY <1>2, <1>3, <2>1
  <2>4. e.response # Never => e.response \in 0 .. (tick + 1) - e.start
        BY <1>2, <1>3, <2>1
  <2>5. QED BY <1>1, <2>1, <2>2, <2>3, <2>4, Zenon
<1>7. QED BY <1>5, <1>6

\* A tick that is accounted to the process in entry s, or to nobody.
LEMMA AgeGood ==
  ASSUME NEW ps \in ProcTable, NEW q, NEW r \in RuntimeType, NEW r2,
         NEW tr \in TraceType, NEW tr2, NEW s,
         Good(ps, r, tr), SameShape(ps, q),
         \A t \in Slots : Aged(ps.entries[t], q.entries[t], IF t = s THEN 1 ELSE 0),
         \A t \in Slots : ps.entries[t].used => (ps.entries[t].state = "RUNNING" <=> t = s),
         SameRun(r, r2), r2.current = r.current,
         r2.tick = r.tick + 1, r2.busy + r2.idle = r.busy + r.idle + 1, Silent(tr, tr2)
  PROVE  Good(q, r2, tr2)
<1>1. TablesOK(q, r2)
      BY AgeTables, Zenon DEF Good
<1>2. AccountsOK(q, r2)
  <2>1. ASSUME NEW t \in Slots PROVE AccountOK(q.entries[t], r.tick + 1)
    <3>1. ps.entries[t] \in PcbType /\ r.tick \in Nat
          BY TableFields, RuntimeFields
    <3>2. AccountOK(ps.entries[t], r.tick)
          BY DEF Good, AccountsOK
    <3>3. EntryOK(ps, r, t)
          BY Zenon DEF Good, TablesOK
    <3>4. ps.entries[t].used /\ ps.entries[t].pid \in Indexed => ps.entries[t].state # "NEW"
          BY <3>3, EntryFacts, Zenon
    <3>5. ps.entries[t].used =>
            (IF t = s THEN 1 ELSE 0) = IF ps.entries[t].state = "RUNNING" THEN 1 ELSE 0
          OBVIOUS
    <3>6. QED BY <3>1, <3>2, <3>4, <3>5, AgeAccount, Zenon
  <2>2. r2.tick = r2.busy + r2.idle
        BY RuntimeFields, Zenon DEF Good, AccountsOK
  <2>3. QED BY <2>1, <2>2 DEF AccountsOK
<1>3. CodesOK(q)
  <2>1. CodesOK(ps)
        BY Zenon DEF Good
  <2>2. \A t \in Slots : /\ q.entries[t].used = ps.entries[t].used
                        /\ q.entries[t].pid = ps.entries[t].pid
                        /\ q.entries[t].state = ps.entries[t].state
                        /\ q.entries[t].code = ps.entries[t].code
        BY Zenon DEF Aged
  <2>3. q.nextPid = ps.nextPid
        BY Zenon DEF SameShape
  <2>4. ASSUME NEW t \in Slots, q.entries[t].used
        PROVE  /\ q.entries[t].pid \in 1 .. q.nextPid - 1
               /\ q.entries[t].state = "EXITED" => q.entries[t].code \in {0, 130}
    <3>1. /\ ps.entries[t].pid \in 1 .. ps.nextPid - 1
          /\ ps.entries[t].state = "EXITED" => ps.entries[t].code \in {0, 130}
          BY <2>1, <2>2, <2>4, Zenon DEF CodesOK
    <3>2. QED BY <2>2, <2>3, <3>1, Zenon
  <2>5. q.nextPid <= MaxPid + 1
        BY <2>1, <2>3, Zenon DEF CodesOK
  <2>6. QED BY <2>4, <2>5, Zenon DEF CodesOK
<1>4. TraceOK(q, tr2)
  <2>1. TraceOK(ps, tr)
        BY Zenon DEF Good
  <2>2. \A t \in Slots : /\ q.entries[t].used = ps.entries[t].used
                        /\ q.entries[t].pid = ps.entries[t].pid
                        /\ q.entries[t].state = ps.entries[t].state
        BY Zenon DEF Aged
  <2>3. QED BY <2>1, <2>2 DEF TraceOK, SameShape, Silent
<1>5. QED BY <1>1, <1>2, <1>3, <1>4 DEF Good

-----------------------------------------------------------------------------
(***************************************************************************)
(* A step that makes a process                                             *)
(***************************************************************************)
\* q is r with the slot i taken for pid.
HasAlloc(r, q, i, pid) ==
  /\ i \in Slots /\ ~ r.slots[i].used
  /\ q \in RuntimeType
  /\ q.slots[i].used = TRUE /\ q.slots[i].pid = pid
  /\ \A j \in Slots : j # i => q.slots[j] = r.slots[j]
  /\ q.index = [p \in Indexed |-> IF p = pid THEN i ELSE r.index[p]]
  /\ q.current = r.current /\ SameTime(r, q)

LEMMA AllocKeeps ==
  ASSUME NEW r \in RuntimeType, NEW q, NEW i, NEW pid, HasAlloc(r, q, i, pid)
  PROVE  /\ \A p \in Indexed : p # pid /\ HasSlot(r, p) => HasSlot(q, p)
         /\ pid \in Indexed => HasSlot(q, pid)
<1>1. ASSUME NEW p \in Indexed, p # pid, HasSlot(r, p) PROVE HasSlot(q, p)
  <2>1. r.index[p] \in Slots /\ q.index[p] = r.index[p] /\ r.slots[r.index[p]].used
        BY <1>1, RuntimeFields DEF HasSlot, IndexType, HasAlloc
  <2>2. r.index[p] # i
        BY <2>1 DEF HasAlloc
  <2>3. QED BY <1>1, <2>1, <2>2 DEF HasSlot, HasAlloc
<1>2. ASSUME pid \in Indexed PROVE HasSlot(q, pid)
  <2>1. q.index[pid] = i /\ i # NoSlot
        BY <1>2, SlotsNumbers DEF HasAlloc
  <2>2. QED BY <1>2, <2>1 DEF HasSlot, HasAlloc
<1>3. QED BY <1>1, <1>2

\* The entries that were there before.
LEMMA OldEntry ==
  ASSUME NEW ps \in ProcTable, NEW q, NEW r, NEW r2, NEW t \in Slots, EntryOK(ps, r, t),
         q.entries[t] = ps.entries[t], q.nextPid = ps.nextPid + 1,
         \A p \in Indexed : p # ps.nextPid => q.index[p] = ps.index[p],
         r2.current = r.current,
         \A p \in Indexed : p # ps.nextPid /\ HasSlot(r, p) => HasSlot(r2, p)
  PROVE  EntryOK(q, r2, t)
<1>1. CASE ~ ps.entries[t].used
      BY <1>1 DEF EntryOK
<1>2. CASE ps.entries[t].used
  <2> DEFINE pid == ps.entries[t].pid
  <2>1. pid \in 1 .. ps.nextPid - 1 /\ ps.nextPid \in Nat
        BY <1>2, EntryFacts, TableFields, Zenon
  <2>2. pid # ps.nextPid /\ pid \in 1 .. q.nextPid - 1
        BY <2>1
  <2>3. pid \in Indexed => q.index[pid] = ps.index[pid]
        BY <2>2
  <2>4. pid \in Indexed /\ HasSlot(r, pid) => HasSlot(r2, pid)
        BY <2>2
  <2>5. QED BY <1>2, <2>2, <2>3, <2>4, Zenon DEF EntryOK
<1>3. QED BY <1>1, <1>2

\* No process, slot, stack or address space has the next pid yet.
LEMMA NextPidFresh ==
  ASSUME NEW ps \in ProcTable, NEW r \in RuntimeType, TablesOK(ps, r)
  PROVE  /\ \A t \in Slots : ps.entries[t].used => ps.entries[t].pid # ps.nextPid
         /\ \A i \in Slots : r.slots[i].used => r.slots[i].pid # ps.nextPid
         /\ r.current # ps.nextPid
         /\ ps.nextPid \notin ps.stacks
<1>1. ASSUME NEW t \in Slots, ps.entries[t].used PROVE ps.entries[t].pid # ps.nextPid
  <2>1. ps.entries[t].pid \in 1 .. ps.nextPid - 1 /\ ps.nextPid \in Nat
        BY <1>1, EntryFacts, TableFields, Zenon DEF TablesOK
  <2>2. QED BY <2>1
<1>2. \A p : Owned(ps, p) => p # ps.nextPid
      BY <1>1 DEF Owned
<1>3. \A i \in Slots : r.slots[i].used => r.slots[i].pid # ps.nextPid
      BY <1>2 DEF TablesOK, SlotOK
<1>4. r.current # ps.nextPid
  <2>1. ps.nextPid # NoPid
        BY TableFields DEF NoPid
  <2>2. QED BY <1>2, <2>1 DEF TablesOK
<1>5. ps.nextPid \notin ps.stacks
      BY <1>1 DEF TablesOK, Stacked
<1>6. QED BY <1>1, <1>3, <1>4, <1>5

\* Slots after alloc_slot.
LEMMA NewSlots ==
  ASSUME NEW ps \in ProcTable, NEW q, NEW r \in RuntimeType, NEW r2, NEW s \in Slots, NEW i,
         TablesOK(ps, r), ~ ps.entries[s].used,
         \A t \in Slots : t # s => q.entries[t] = ps.entries[t],
         q.entries[s].used, q.entries[s].pid = ps.nextPid,
         HasAlloc(r, r2, i, ps.nextPid)
  PROVE  /\ \A j \in Slots : SlotOK(q, r2, j)
         /\ r2.current # NoPid => Owned(q, r2.current)
<1>1. \A p : Owned(ps, p) => Owned(q, p)
      BY DEF Owned
<1>2. Owned(q, ps.nextPid)
      BY Zenon DEF Owned
<1>3. \A j \in Slots : r.slots[j].used => r.slots[j].pid # ps.nextPid
      BY NextPidFresh
<1>4. ASSUME NEW j \in Slots, r2.slots[j].used PROVE SlotOK(q, r2, j)
  <2>1. CASE j = i
        BY <1>2, <1>3, <2>1 DEF SlotOK, HasAlloc
  <2>2. CASE j # i
    <3>1. r2.slots[j] = r.slots[j] /\ SlotOK(ps, r, j)
          BY <2>2, Zenon DEF HasAlloc, TablesOK
    <3>2. QED BY <1>1, <1>3, <1>4, <3>1, SMTT(20) DEF SlotOK, HasAlloc
  <2>3. QED BY <2>1, <2>2
<1>5. \A j \in Slots : SlotOK(q, r2, j)
      BY <1>4, Zenon DEF SlotOK
<1>6. r2.current # NoPid => Owned(q, r2.current)
      BY <1>1 DEF HasAlloc, TablesOK
<1>7. QED BY <1>5, <1>6

\* Whose stacks and address spaces there are, with a process more.
LEMMA NewOwners ==
  ASSUME NEW ps \in ProcTable, NEW q, NEW s \in Slots, NEW r, TablesOK(ps, r),
         ~ ps.entries[s].used, \A t \in Slots : t # s => q.entries[t] = ps.entries[t],
         q.entries[s].used, q.entries[s].pid = ps.nextPid, q.entries[s].state # "EXITED",
         q.stacks = Plus(ps.stacks, ps.nextPid),
         q.vms = IF ps.nextPid \in Indexed THEN Plus(ps.vms, ps.nextPid) ELSE ps.vms
  PROVE  /\ q.stacks = {q.entries[t].pid : t \in Stacked(q)}
         /\ q.vms = {q.entries[t].pid : t \in Mapped(q)}
<1>1. Stacked(q) = Stacked(ps) \cup {s} /\ s \notin Stacked(ps)
      BY DEF Stacked
<1>2. \A t \in Stacked(ps) : q.entries[t] = ps.entries[t]
      BY DEF Stacked
<1>3. q.stacks = {q.entries[t].pid : t \in Stacked(q)}
      BY <1>1, <1>2 DEF TablesOK, Plus
<1>4. Mapped(q) = (IF ps.nextPid \in Indexed THEN Mapped(ps) \cup {s} ELSE Mapped(ps))
      BY DEF Mapped
<1>5. \A t \in Mapped(ps) : q.entries[t] = ps.entries[t]
      BY DEF Mapped
<1>6. q.vms = {q.entries[t].pid : t \in Mapped(q)}
  <2>1. CASE ps.nextPid \in Indexed
        BY <1>4, <1>5, <2>1 DEF TablesOK, Plus
  <2>2. CASE ps.nextPid \notin Indexed
        BY <1>4, <1>5, <2>2 DEF TablesOK
  <2>3. QED BY <2>1, <2>2
<1>7. QED BY <1>3, <1>6

\* A free entry of the process table means a free slot of the runtime: the slots
\* in use are those of different processes in the table.
LEMMA FreeSlotThere ==
  ASSUME NEW ps \in ProcTable, NEW r \in RuntimeType, TablesOK(ps, r),
         NEW s \in Slots, ~ ps.entries[s].used
  PROVE  \E i \in Slots : ~ r.slots[i].used
<1> SUFFICES ASSUME \A i \in Slots : r.slots[i].used PROVE FALSE
    OBVIOUS
<1> DEFINE U == {t \in Slots : ps.entries[t].used}
           f == [i \in Slots |-> CHOOSE t \in Slots :
                   ps.entries[t].used /\ ps.entries[t].pid = r.slots[i].pid]
<1>1. IsFiniteSet(Slots) /\ U \in SUBSET Slots /\ U # Slots
      BY SlotsNumbers
<1>2. ASSUME NEW i \in Slots PROVE f[i] \in U /\ ps.entries[f[i]].pid = r.slots[i].pid
  <2>1. \E t \in Slots : ps.entries[t].used /\ ps.entries[t].pid = r.slots[i].pid
        BY Zenon DEF TablesOK, SlotOK, Owned
  <2>2. QED BY <2>1
<1>3. f \in [Slots -> U]
      BY <1>2
<1> HIDE DEF U, f
<1>4. ASSUME NEW i \in Slots, NEW j \in Slots, f[i] = f[j] PROVE i = j
  <2>1. r.slots[i].pid = r.slots[j].pid /\ SlotOK(ps, r, i)
        BY <1>2, <1>4 DEF TablesOK
  <2>2. QED BY <2>1, Zenon DEF SlotOK
<1>5. f \in Injection(Slots, U)
      BY <1>3, <1>4, Zenon DEF Injection, IsInjective
<1>6. /\ IsFiniteSet(U) /\ Cardinality(U) <= Cardinality(Slots)
      /\ Cardinality(Slots) = Cardinality(U) => Slots = U
      BY <1>1, FS_Subset, Zenon
<1>7. Cardinality(Slots) <= Cardinality(U)
      BY <1>5, <1>6, FS_Injection, Zenon
<1>8. Cardinality(Slots) \in Nat /\ Cardinality(U) \in Nat
      BY <1>1, <1>6, FS_CardinalityType, Zenon
<1>9. QED BY <1>1, <1>6, <1>7, <1>8
=============================================================================
