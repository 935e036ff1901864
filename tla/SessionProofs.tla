----------------------------- MODULE SessionProofs -----------------------------
(***************************************************************************)
(* Proofs for module Session: what the loader returns, and that every      *)
(* command and every pass of the loop of runtime_step keeps the invariant  *)
(* of SessionTables.                                                       *)
(***************************************************************************)
EXTENDS SessionTables

-----------------------------------------------------------------------------
(***************************************************************************)
(* The loader                                                              *)
(***************************************************************************)
\* The instruction of an accepted line has no burst of zero.
LEMMA InsnSound ==
  ASSUME NEW line, (line \in Line /\ Accepted(line)) \/ line = Exit,
         Insn(line).op \in {"CPU", "IO"}
  PROVE  Insn(line).args[1] \in Nat \ {0}
<1>1. line.op \in {"CPU", "IO"} /\ line # Exit
      BY DEF Insn, Line, Exit
<1>2. InRange(line.args[1]) /\ U64(line.args[1]) # 0
      BY <1>1 DEF Accepted
<1>3. U64(line.args[1]) \in Nat
      BY <1>2, WorkloadAssumption DEF InRange, U64
<1>4. Insn(line) = [line EXCEPT !.args = <<U64(line.args[1])>>]
      BY <1>1 DEF Insn
<1>5. Insn(line).args = <<U64(line.args[1])>>
      BY <1>4 DEF Line
<1>6. QED BY <1>2, <1>3, <1>5

LEMMA BodyLines ==
  ASSUME NEW file \in Seq(Line), Loads(file), NEW body \in Bodies(file)
  PROVE  body \in Seq(Line) /\ \A i \in DOMAIN body : Accepted(body[i])
<1> DEFINE K == Kept(file)
           n == Cardinality(K)
<1>1. n \in Nat
  <2>1. IsFiniteSet(DOMAIN file)
        BY FS_Interval
  <2>2. K \subseteq DOMAIN file
        BY Zenon DEF Kept
  <2>3. QED BY <2>1, <2>2, FS_Subset, FS_CardinalityType
<1>2. PICK s \in [1 .. n -> K] : body = [i \in DOMAIN s |-> file[s[i]]]
      BY Zenon DEF Bodies, InOrder
<1> HIDE DEF n
<1>3. DOMAIN body = 1 .. n /\ \A i \in 1 .. n : body[i] = file[s[i]] /\ s[i] \in K
      BY <1>2
<1>4. \A i \in 1 .. n : body[i] \in Line /\ Accepted(body[i])
  <2> SUFFICES ASSUME NEW i \in 1 .. n PROVE body[i] \in Line /\ Accepted(body[i])
      OBVIOUS
  <2>1. body[i] = file[s[i]] /\ s[i] \in Kept(file)
        BY <1>3
  <2>2. s[i] \in DOMAIN file
        BY <2>1, Zenon DEF Kept
  <2>3. file[s[i]] \in Line
        BY <2>2
  <2>4. QED BY <2>1, <2>3, Zenon DEF Loads
<1>5. body \in Seq(Line)
      BY <1>1, <1>2, <1>4
<1>6. QED BY <1>3, <1>4, <1>5

LEMMA EndedLines ==
  ASSUME NEW body \in Seq(Line), \A i \in DOMAIN body : Accepted(body[i])
  PROVE  \A i \in DOMAIN Ended(body) :
           (Ended(body)[i] \in Line /\ Accepted(Ended(body)[i])) \/ Ended(body)[i] = Exit
<1>1. CASE Ended(body) = body
      BY <1>1
<1>2. CASE Ended(body) = Append(body, Exit)
      BY <1>2
<1>3. QED BY <1>1, <1>2 DEF Ended

\* No program that workload_load returns has a CPU or IO burst of zero, also
\* after the wrap-around of a negative number.
LEMMA ProgramsSound ==
  ASSUME NEW program \in Programs
  PROVE  Sound(program)
<1>1. PICK c \in [1 .. 3 -> Files] : program \in Taken(c)
      BY DEF Programs
<1>2. PICK i \in DOMAIN c : Loads(c[i]) /\ program \in Loaded(c[i])
      BY <1>1 DEF Taken
<1>3. PICK body \in Bodies(c[i]) : program = Program(body)
      BY <1>2 DEF Loaded
<1>4. c[i] \in Seq(Line)
      BY <1>2, SessionAssumption DEF Loads
<1>5. body \in Seq(Line) /\ \A k \in DOMAIN body : Accepted(body[k])
      BY <1>2, <1>3, <1>4, BodyLines, Zenon
<1>6. \A k \in DOMAIN Ended(body) :
        (Ended(body)[k] \in Line /\ Accepted(Ended(body)[k])) \/ Ended(body)[k] = Exit
      BY <1>5, EndedLines, Zenon
<1>7. ASSUME NEW k \in DOMAIN program, program[k].op \in {"CPU", "IO"}
      PROVE  program[k].args[1] \in Nat \ {0}
  <2>1. k \in DOMAIN Ended(body) /\ program[k] = Insn(Ended(body)[k])
        BY <1>3 DEF Program
  <2>2. QED BY <1>6, <1>7, <2>1, InsnSound, Zenon
<1>8. QED BY <1>7, Zenon DEF Sound

-----------------------------------------------------------------------------
(***************************************************************************)
(* A new process                                                           *)
(***************************************************************************)
\* What runtime_run_workload did with the new pid: it has an index entry, a
\* memory map and an event, or it has none of them.
NewOutcome(ps, q, s, st, tr, tr2) ==
  \/ /\ ps.nextPid \in Indexed /\ st = "READY"
     /\ q.entries[s].vm = TRUE /\ q.vms = Plus(ps.vms, ps.nextPid)
     /\ Tells(tr, tr2, ps.nextPid, "READY")
  \/ /\ ps.nextPid \notin Indexed /\ st = "NEW"
     /\ q.entries[s].vm = FALSE /\ q.vms = ps.vms
     /\ Silent(tr, tr2)

\* runtime_run_workload keeps the books, for a pid that has a place in the index
\* and for one that has none.
LEMMA NewGood ==
  ASSUME NEW ps \in ProcTable, NEW q, NEW r \in RuntimeType, NEW r2,
         NEW tr \in TraceType, NEW tr2, NEW s, NEW i, NEW st,
         Good(ps, r, tr), ps.nextPid <= MaxPid,
         HasNew(ps, q, s, r.tick, st), HasAlloc(r, r2, i, ps.nextPid),
         NewOutcome(ps, q, s, st, tr, tr2)
  PROVE  Good(q, r2, tr2)
<1> DEFINE pid == ps.nextPid
<1>1. /\ s \in Slots /\ ~ ps.entries[s].used /\ q.nextPid = pid + 1
      /\ \A t \in Slots : t # s => q.entries[t] = ps.entries[t]
      /\ q.entries[s].used = TRUE /\ q.entries[s].pid = pid /\ q.entries[s].state = st
      /\ q.entries[s].stack = TRUE
      /\ q.entries[s].start = r.tick /\ q.entries[s].response = Never
      /\ q.entries[s].cpu = 0 /\ q.entries[s].wait = 0 /\ q.entries[s].slept = 0
      /\ q.index = [p \in Indexed |-> IF p = pid THEN s ELSE ps.index[p]]
      /\ q.stacks = Plus(ps.stacks, pid)
      BY Zenon DEF HasNew
<1>0. /\ st \in {"READY", "NEW"} /\ st # "EXITED" /\ st # "RUNNING"
      /\ pid \in Indexed => st # "NEW" /\ q.entries[s].vm
      /\ pid \notin Indexed => st = "NEW" /\ ~ q.entries[s].vm
      BY Zenon DEF NewOutcome
<1>2. pid \in Nat \ {0} /\ pid \in 1 .. q.nextPid - 1 /\ pid \in 1 .. MaxPid
      BY <1>1, TableFields, SessionAssumption, SMTT(20)
<1>3. TablesOK(ps, r)
      BY DEF Good
<1>4. /\ r2.current = r.current
      /\ \A p \in Indexed : p # pid /\ HasSlot(r, p) => HasSlot(r2, p)
      /\ pid \in Indexed => HasSlot(r2, pid)
  <2>1. r2.current = r.current
        BY DEF HasAlloc
  <2>2. /\ \A p \in Indexed : p # pid /\ HasSlot(r, p) => HasSlot(r2, p)
        /\ pid \in Indexed => HasSlot(r2, pid)
        BY AllocKeeps, Zenon
  <2>3. QED BY <2>1, <2>2
<1>5. r.current # pid
      BY <1>3, NextPidFresh, Zenon
<1>6. ASSUME NEW t \in Slots PROVE EntryOK(q, r2, t)
  <2>1. CASE t # s
    <3>1. EntryOK(ps, r, t)
          BY <1>3, Zenon DEF TablesOK
    <3>2. \A p \in Indexed : p # pid => q.index[p] = ps.index[p]
          BY <1>1, SMTT(20)
    <3>3. q.entries[t] = ps.entries[t] /\ q.nextPid = ps.nextPid + 1
          BY <1>1, <2>1, Zenon
    <3>4. QED BY <1>4, <3>1, <3>2, <3>3, OldEntry, SMTT(20)
  <2>2. CASE t = s
    <3>1. pid \in Indexed => q.index[pid] = s
          BY <1>1, Zenon
    <3>2. r2.current # pid
          BY <1>4, <1>5, Zenon
    <3>3. QED BY <1>0, <1>1, <1>2, <1>4, <2>2, <3>1, <3>2, Zenon DEF EntryOK
  <2>3. QED BY <2>1, <2>2
<1>7. /\ \A j \in Slots : SlotOK(q, r2, j)
      /\ r2.current # NoPid => Owned(q, r2.current)
      BY <1>1, <1>3, NewSlots, ZenonT(20)
<1>8. /\ q.stacks = {q.entries[t].pid : t \in Stacked(q)}
      /\ q.vms = {q.entries[t].pid : t \in Mapped(q)}
      BY <1>1, <1>3, NewOwners, SMTT(20) DEF NewOutcome
<1>9. TablesOK(q, r2)
      BY <1>6, <1>7, <1>8, SMTT(20) DEF TablesOK
<1>10. AccountsOK(q, r2)
  <2>1. r2.tick = r.tick /\ r2.busy = r.busy /\ r2.idle = r.idle /\ r.tick \in Nat
        BY RuntimeFields, Zenon DEF HasAlloc, SameTime
  <2>2. AccountOK(q.entries[s], r.tick)
    <3>1. EndOf(q.entries[s], r.tick) = r.tick
          BY <1>0, <1>1, Zenon DEF EndOf
    <3>2. r.tick - q.entries[s].start = q.entries[s].cpu + q.entries[s].wait + q.entries[s].slept
          BY <1>1, <2>1, SMTT(20)
    <3>3. QED BY <1>1, <3>1, <3>2, SMTT(20) DEF AccountOK
  <2>3. \A t \in Slots : AccountOK(q.entries[t], r.tick)
        BY <1>1, <2>2, SMTT(20) DEF Good, AccountsOK
  <2>4. QED BY <2>1, <2>3, SMTT(20) DEF Good, AccountsOK
<1>11. CodesOK(q)
  <2>1. CodesOK(ps)
        BY DEF Good
  <2>2. ASSUME NEW t \in Slots, q.entries[t].used
        PROVE  /\ q.entries[t].pid \in 1 .. q.nextPid - 1
               /\ q.entries[t].state = "EXITED" => q.entries[t].code \in {0, 130}
    <3>1. CASE t = s
          BY <1>0, <1>1, <1>2, <3>1, Zenon
    <3>2. CASE t # s
          BY <1>1, <1>2, <2>1, <2>2, <3>2, SMTT(20) DEF CodesOK
    <3>3. QED BY <3>1, <3>2, Zenon
  <2>3. q.nextPid <= MaxPid + 1
        BY <1>1, <1>2, SessionAssumption, SMTT(20)
  <2>4. QED BY <2>2, <2>3, SMTT(20) DEF CodesOK
<1>12. TraceOK(q, tr2)
  <2> SUFFICES ASSUME ~ tr2.dropped PROVE TraceOK(q, tr2)
      BY SMTT(20) DEF TraceOK
  <2>1. ~ tr.dropped /\ tr.says \in [1 .. MaxPid -> ProcStates]
        BY Zenon DEF NewOutcome, Tells, Silent, TraceType
  <2>2. /\ \A t \in Slots : ps.entries[t].used => tr.says[ps.entries[t].pid] = ps.entries[t].state
        /\ \A p \in 1 .. MaxPid : p >= pid => tr.says[p] = "NEW"
        BY <2>1, Zenon DEF TraceOK, Good
  <2>3. tr2.says[pid] = st /\ \A p \in 1 .. MaxPid : p # pid => tr2.says[p] = tr.says[p]
    <3>1. CASE Tells(tr, tr2, pid, "READY") /\ st = "READY"
      <4>1. pid \in 1 .. MaxPid /\ tr2.says = [tr.says EXCEPT ![pid] = "READY"]
            BY <1>2, <3>1, Zenon DEF Tells
      <4>2. QED BY <2>1, <3>1, <4>1, Zenon
    <3>2. CASE Silent(tr, tr2) /\ st = "NEW"
      <4>1. tr.says[pid] = "NEW"
            BY <1>2, <2>2, SMTT(20)
      <4>2. QED BY <3>2, <4>1, Zenon DEF Silent
    <3>3. QED BY <3>1, <3>2, Zenon DEF NewOutcome
  <2>4. ASSUME NEW t \in Slots, q.entries[t].used
        PROVE  tr2.says[q.entries[t].pid] = q.entries[t].state
    <3>1. CASE t = s
          BY <1>1, <2>3, <3>1, SMTT(20)
    <3>2. CASE t # s
      <4>1. q.entries[t] = ps.entries[t] /\ ps.entries[t].used
            BY <1>1, <2>4, <3>2, SMTT(20)
      <4>2. ps.entries[t].pid \in 1 .. pid - 1
            BY <4>1, SMTT(20) DEF Good, CodesOK
      <4>3. ps.entries[t].pid \in 1 .. MaxPid /\ ps.entries[t].pid # pid
            BY <1>2, <4>2, SessionAssumption, SMTT(20)
      <4>4. QED BY <2>2, <2>3, <4>1, <4>3, SMTT(20)
    <3>3. QED BY <3>1, <3>2, Zenon
  <2>5. ASSUME NEW p \in 1 .. MaxPid, p >= q.nextPid PROVE tr2.says[p] = "NEW"
        BY <1>1, <1>2, <2>2, <2>3, <2>5, SMTT(20)
  <2>6. QED BY <2>4, <2>5, SMTT(20) DEF TraceOK
<1>13. QED BY <1>9, <1>10, <1>11, <1>12 DEF Good

\* runtime_run_workload takes everything back when vm_proc_init fails; only the
\* pid is used up.
LEMMA FailedGood ==
  ASSUME NEW ps \in ProcTable, NEW q, NEW r \in RuntimeType, NEW tr \in TraceType, NEW s,
         Good(ps, r, tr), ps.nextPid <= MaxPid, HasFailed(ps, q, s)
  PROVE  Good(q, r, tr)
<1>1. /\ s \in Slots /\ ~ ps.entries[s].used /\ q.nextPid = ps.nextPid + 1
      /\ \A t \in Slots : t # s => q.entries[t] = ps.entries[t]
      /\ q.entries[s].used = FALSE /\ q.entries[s].stack = FALSE /\ q.entries[s].vm = FALSE
      /\ q.index = [p \in Indexed |-> IF p = ps.nextPid THEN NoSlot ELSE ps.index[p]]
      /\ q.stacks = Plus(ps.stacks, ps.nextPid) \ {ps.nextPid}
      /\ q.vms = ps.vms
      BY Zenon DEF HasFailed
<1>2. TablesOK(ps, r) /\ CodesOK(ps) /\ ps.nextPid \in Nat
      BY TableFields, SMTT(20) DEF Good
<1>3. \A t \in Slots : q.entries[t].used =>
        ps.entries[t].used /\ q.entries[t] = ps.entries[t]
      BY <1>1, Zenon
<1>4. ASSUME NEW t \in Slots PROVE EntryOK(q, r, t)
  <2>1. CASE t # s
    <3>1. EntryOK(ps, r, t)
          BY <1>2, Zenon DEF TablesOK
    <3>2. \A p \in Indexed : p # ps.nextPid => q.index[p] = ps.index[p]
          BY <1>1
    <3>3. q.entries[t] = ps.entries[t] /\ q.nextPid = ps.nextPid + 1
          BY <1>1, <2>1
    <3>4. QED BY <3>1, <3>2, <3>3, OldEntry, SMTT(20)
  <2>2. CASE t = s
        BY <1>1, <2>2, Zenon DEF EntryOK
  <2>3. QED BY <2>1, <2>2
<1>5. \A p : Owned(ps, p) => Owned(q, p)
      BY <1>1 DEF Owned
<1>6. /\ \A j \in Slots : SlotOK(q, r, j)
      /\ r.current # NoPid => Owned(q, r.current)
      BY <1>2, <1>5, Zenon DEF TablesOK, SlotOK
<1>7. q.stacks = {q.entries[t].pid : t \in Stacked(q)}
  <2>1. Stacked(q) = Stacked(ps) /\ \A t \in Stacked(ps) : q.entries[t] = ps.entries[t]
        BY <1>1, Zenon DEF Stacked
  <2>2. q.stacks = ps.stacks
    <3>1. ps.nextPid \notin ps.stacks
          BY <1>2, NextPidFresh, SMTT(20)
    <3>2. QED BY <1>1, <3>1 DEF Plus
  <2>3. QED BY <1>2, <2>1, <2>2, Zenon DEF TablesOK
<1>8. q.vms = {q.entries[t].pid : t \in Mapped(q)}
  <2>1. Mapped(q) = Mapped(ps) /\ \A t \in Mapped(ps) : q.entries[t] = ps.entries[t]
        BY <1>1, Zenon DEF Mapped
  <2>2. QED BY <1>1, <1>2, <2>1, SMTT(20) DEF TablesOK
<1>9. TablesOK(q, r)
      BY <1>4, <1>6, <1>7, <1>8, Zenon DEF TablesOK
<1>10. AccountsOK(q, r)
  <2>1. \A t \in Slots : AccountOK(q.entries[t], r.tick)
        BY <1>1, <1>3, Zenon DEF Good, AccountsOK, AccountOK
  <2>2. QED BY <2>1, Zenon DEF Good, AccountsOK
<1>11. CodesOK(q)
  <2>1. q.nextPid <= MaxPid + 1
        BY <1>1, <1>2, SessionAssumption, SMTT(20)
  <2>2. ASSUME NEW t \in Slots, q.entries[t].used
        PROVE  /\ q.entries[t].pid \in 1 .. q.nextPid - 1
               /\ q.entries[t].state = "EXITED" => q.entries[t].code \in {0, 130}
        BY <1>1, <1>2, <1>3, <2>2, SMTT(20) DEF CodesOK
  <2>3. QED BY <2>1, <2>2, Zenon DEF CodesOK
<1>12. TraceOK(q, tr)
  <2>1. \A p \in 1 .. MaxPid : p >= q.nextPid => p >= ps.nextPid
        BY <1>1, <1>2
  <2>2. QED BY <1>3, <2>1, Zenon DEF Good, TraceOK
<1>13. QED BY <1>9, <1>10, <1>11, <1>12 DEF Good

-----------------------------------------------------------------------------
(***************************************************************************)
(* What the commands and the loop do to the runtime's tables               *)
(***************************************************************************)
WithCurrent(r, pid) == [r EXCEPT !.current = pid]

LEMMA WithCurrentFacts ==
  ASSUME NEW r \in RuntimeType, NEW pid \in Nat \cup {NoPid}
  PROVE  /\ SameRun(r, WithCurrent(r, pid)) /\ SameTime(r, WithCurrent(r, pid))
         /\ WithCurrent(r, pid).current = pid
<1> DEFINE q == WithCurrent(r, pid)
<1>1. /\ q \in RuntimeType /\ q.index = r.index /\ q.slots = r.slots /\ q.current = pid
      /\ q.tick = r.tick /\ q.busy = r.busy /\ q.idle = r.idle
      BY DEF RuntimeType, WithCurrent
<1> HIDE DEF q
<1>2. QED BY <1>1 DEF SameRun, SameTime, q

\* One slot with another pc and another rest of its burst.
WithPc(slots, i, pc, left) ==
  [slots EXCEPT ![i] = [slots[i] EXCEPT !.left = left, !.pc = pc]]

LEMMA WithPcFacts ==
  ASSUME NEW r \in RuntimeType, NEW i \in Slots, NEW pc \in Nat \ {0}, NEW left \in Nat
  PROVE  /\ WithPc(r.slots, i, pc, left) \in [Slots -> SlotType]
         /\ \A j \in Slots : /\ WithPc(r.slots, i, pc, left)[j].used = r.slots[j].used
                             /\ WithPc(r.slots, i, pc, left)[j].pid = r.slots[j].pid
<1> DEFINE e == r.slots[i]
           f == [e EXCEPT !.left = left, !.pc = pc]
<1>1. r.slots \in [Slots -> SlotType] /\ e \in SlotType
      BY RuntimeFields
<1>2. f \in SlotType /\ f.used = e.used /\ f.pid = e.pid
      BY <1>1, Zenon DEF SlotType
<1>3. WithPc(r.slots, i, pc, left) = [r.slots EXCEPT ![i] = f]
      BY DEF WithPc
<1> HIDE DEF f
<1>4. QED BY <1>1, <1>2, <1>3

WithSlots(r, c, slots, ix) == [r EXCEPT !.current = c, !.slots = slots, !.index = ix]
HasSlots(r, q, c, slots, ix) ==
  /\ q \in RuntimeType /\ SameTime(r, q)
  /\ q.current = c /\ q.slots = slots /\ q.index = ix

LEMMA WithSlotsFacts ==
  ASSUME NEW r \in RuntimeType, NEW c \in Nat \cup {NoPid},
         NEW slots \in [Slots -> SlotType], NEW ix \in IndexType
  PROVE  HasSlots(r, WithSlots(r, c, slots, ix), c, slots, ix)
BY Zenon DEF RuntimeType, WithSlots, SameTime, HasSlots

\* What alloc_slot puts in the slot it takes.
NewSlot(pid, program) == [EmptySlot EXCEPT !.used = TRUE, !.pid = pid, !.program = program]

LEMMA SlotsTyped ==
  /\ EmptySlot \in SlotType /\ EmptySlot.used = FALSE
  /\ \A pid \in Nat : \A program \in Programs :
       /\ NewSlot(pid, program) \in SlotType
       /\ NewSlot(pid, program).used = TRUE /\ NewSlot(pid, program).pid = pid
<1>1. EmptySlot \in SlotType /\ EmptySlot.used = FALSE
      BY DEF EmptySlot, SlotType
<1>2. ASSUME NEW pid \in Nat, NEW program \in Programs
      PROVE  /\ NewSlot(pid, program) \in SlotType
             /\ NewSlot(pid, program).used = TRUE /\ NewSlot(pid, program).pid = pid
  <2>1. NewSlot(pid, program) \in SlotType
        BY <1>1, Zenon DEF NewSlot, SlotType
  <2>2. NewSlot(pid, program).used = TRUE /\ NewSlot(pid, program).pid = pid
        BY DEF NewSlot, EmptySlot
  <2>3. QED BY <2>1, <2>2
<1>3. QED BY <1>1, <1>2, Zenon

LEMMA AllocSlotFacts ==
  ASSUME rt \in RuntimeType, NEW pid \in Nat, NEW program \in Programs,
         FreeSlots # {}, AllocSlot(pid, program)
  PROVE  HasAlloc(rt, rt', Min(FreeSlots), pid)
<1> DEFINE i == Min(FreeSlots)
           new == NewSlot(pid, program)
           slots == [rt.slots EXCEPT ![i] = new]
           ix == [p \in Indexed |-> IF p = pid THEN i ELSE rt.index[p]]
<1>1. i \in Slots /\ ~ rt.slots[i].used
  <2>1. i \in FreeSlots
        BY SlotsNumbers, LeastNat, Zenon DEF FreeSlots
  <2>2. QED BY <2>1 DEF FreeSlots
<1>2. rt' = WithSlots(rt, rt.current, slots, ix)
      BY Zenon DEF AllocSlot, WithSlots, NewSlot, RuntimeType
<1> HIDE DEF i
<1>3. new \in SlotType /\ new.used = TRUE /\ new.pid = pid
      BY SlotsTyped
<1> HIDE DEF new
<1>4. rt.slots \in [Slots -> SlotType] /\ rt.index \in IndexType /\ rt.current \in Nat \cup {NoPid}
      BY RuntimeFields
<1>5. /\ slots \in [Slots -> SlotType] /\ slots[i] = new
      /\ \A j \in Slots : j # i => slots[j] = rt.slots[j]
      BY <1>1, <1>3, <1>4
<1>6. ix \in IndexType
      BY <1>1, <1>4 DEF IndexType
<1> HIDE DEF slots, ix
<1>7. /\ rt' \in RuntimeType /\ SameTime(rt, rt')
      /\ rt'.current = rt.current /\ rt'.slots = slots /\ rt'.index = ix
  <2>1. HasSlots(rt, rt', rt.current, slots, ix)
        BY <1>2, <1>4, <1>5, <1>6, WithSlotsFacts, Zenon
  <2>2. QED BY <2>1 DEF HasSlots
<1>8. HasAlloc(rt, rt', i, pid)
      BY <1>1, <1>3, <1>5, <1>7 DEF HasAlloc, ix
<1>9. QED BY <1>8 DEF i

LEMMA SlotIndexFacts ==
  ASSUME rt \in RuntimeType, NEW pid
  PROVE  /\ SlotIndex(pid) # NoSlot <=> HasSlot(rt, pid)
         /\ HasSlot(rt, pid) => /\ SlotIndex(pid) \in Slots
                                /\ rt.slots[SlotIndex(pid)].used
                                /\ rt.slots[SlotIndex(pid)].pid = pid
<1>1. rt.index \in IndexType
      BY RuntimeFields
<1>2. HasSlot(rt, pid) => rt.index[pid] \in Slots
      BY <1>1 DEF HasSlot, IndexType
<1>3. QED BY <1>2, SlotsNumbers, Zenon DEF SlotIndex, HasSlot

\* runtime_kill gives back the slot of the process, and no other.
LEMMA KilledFacts ==
  ASSUME rt \in RuntimeType, NEW pid \in Indexed,
         rt' = [rt EXCEPT !.current = IF @ = pid THEN NoPid ELSE @,
                  !.slots = [i \in Slots |-> IF i = SlotIndex(pid) THEN EmptySlot ELSE @[i]],
                  !.index = IF SlotIndex(pid) = NoSlot THEN @ ELSE [@ EXCEPT ![pid] = NoSlot]]
  PROVE  /\ rt' \in RuntimeType /\ SameTime(rt, rt')
         /\ KeepsSlots(rt, rt', pid) /\ NextCurrent(rt, rt', pid, "EXITED")
<1> DEFINE c == IF rt.current = pid THEN NoPid ELSE rt.current
           slots == [i \in Slots |-> IF i = SlotIndex(pid) THEN EmptySlot ELSE rt.slots[i]]
           ix == IF SlotIndex(pid) = NoSlot THEN rt.index ELSE [rt.index EXCEPT ![pid] = NoSlot]
<1>1. rt.slots \in [Slots -> SlotType] /\ rt.index \in IndexType /\ rt.current \in Nat \cup {NoPid}
      BY RuntimeFields
<1>2. rt' = WithSlots(rt, c, slots, ix)
      BY DEF WithSlots
<1>3. slots \in [Slots -> SlotType]
      BY <1>1, SlotsTyped
<1>4. c \in Nat \cup {NoPid}
      BY <1>1
<1>5. ix \in IndexType /\ \A p \in Indexed : p # pid => ix[p] = rt.index[p]
      BY <1>1 DEF IndexType
<1>6. /\ rt' \in RuntimeType /\ SameTime(rt, rt')
      /\ rt'.current = c /\ rt'.slots = slots /\ rt'.index = ix
  <2> HIDE DEF c, slots, ix
  <2>1. HasSlots(rt, WithSlots(rt, c, slots, ix), c, slots, ix)
        BY <1>3, <1>4, <1>5, WithSlotsFacts
  <2>2. QED BY <1>2, <2>1, Zenon DEF HasSlots
<1>7. NextCurrent(rt, rt', pid, "EXITED")
  <2>1. pid # NoPid
        BY SessionAssumption DEF Indexed, NoPid
  <2>2. QED BY <1>6, <2>1 DEF NextCurrent
<1>8. ASSUME NEW p \in Indexed, p # pid, HasSlot(rt, p) PROVE HasSlot(rt', p)
  <2>1. rt'.index[p] = rt.index[p] /\ rt.index[p] \in Slots
        BY <1>1, <1>5, <1>6, <1>8 DEF HasSlot, IndexType
  <2>2. rt.index[p] # SlotIndex(pid)
    <3>1. rt.slots[rt.index[p]].pid = p
          BY <1>8 DEF HasSlot
    <3>2. QED BY <1>8, <2>1, <3>1, SlotIndexFacts, SlotsNumbers
  <2>3. rt'.slots[rt.index[p]] = rt.slots[rt.index[p]]
        BY <1>6, <2>1, <2>2
  <2>4. QED BY <1>8, <2>1, <2>3 DEF HasSlot
<1>9. ASSUME NEW i \in Slots, rt'.slots[i].used
      PROVE  rt.slots[i].used /\ rt'.slots[i].pid = rt.slots[i].pid
      BY <1>6, <1>9, SlotsTyped
<1>10. QED BY <1>6, <1>7, <1>8, <1>9, Zenon DEF KeepsSlots

-----------------------------------------------------------------------------
(***************************************************************************)
(* The process that runs                                                   *)
(***************************************************************************)
\* Between two commands the four parts of the invariant hold together.
LEMMA InvGood ==
  ASSUME SessionInv, mode # "quit"
  PROVE  /\ procs \in ProcTable /\ rt \in RuntimeType /\ trace \in TraceType
         /\ Good(procs, rt, trace)
BY DEF SessionInv, SessionTypeOK, Good

LEMMA GoodInv ==
  ASSUME procs' \in ProcTable, rt' \in RuntimeType, trace' \in TraceType,
         mode' \in {"shell", "step"}, Good(procs', rt', trace')
  PROVE  SessionInv'
BY DEF SessionInv, SessionTypeOK, Good

\* A process that is neither new nor gone is found by its pid, and owns a stack
\* and a slot.
LEMMA LiveFacts ==
  ASSUME NEW ps \in ProcTable, NEW r, NEW s \in Slots, TablesOK(ps, r),
         ps.entries[s].used, Live(ps.entries[s])
  PROVE  /\ ps.entries[s].pid \in Indexed
         /\ FindSlot(ps, ps.entries[s].pid) = s
         /\ ps.entries[s].stack = TRUE
         /\ HasSlot(r, ps.entries[s].pid)
<1>1. EntryOK(ps, r, s)
      BY DEF TablesOK
<1>2. ps.entries[s].pid \in Indexed
      BY <1>1, EntryFacts DEF Live
<1>3. ps.entries[s].stack \in BOOLEAN
      BY TableFields, PcbFields
<1>4. ps.entries[s].stack = TRUE /\ HasSlot(r, ps.entries[s].pid)
      BY <1>1, <1>2, <1>3, Zenon DEF EntryOK, Live
<1>5. FindSlot(ps, ps.entries[s].pid) = s
      BY <1>1, <1>2, Finds
<1>6. QED BY <1>2, <1>4, <1>5

\* current_pid is the pid of the one process that is RUNNING.
LEMMA CurrentEntry ==
  ASSUME NEW ps \in ProcTable, NEW r \in RuntimeType, TablesOK(ps, r), r.current # NoPid
  PROVE  LET s == FindSlot(ps, r.current) IN
         /\ s \in Slots /\ ps.entries[s].used /\ ps.entries[s].pid = r.current
         /\ ps.entries[s].state = "RUNNING"
         /\ \A t \in Slots : ps.entries[t].used => (ps.entries[t].state = "RUNNING" <=> t = s)
<1>1. PICK s \in Slots : ps.entries[s].used /\ ps.entries[s].pid = r.current
      BY DEF TablesOK, Owned
<1>2. \A t \in Slots : EntryOK(ps, r, t)
      BY DEF TablesOK
<1>3. ps.entries[s].state = "RUNNING"
      BY <1>1, <1>2, Zenon DEF EntryOK
<1>4. FindSlot(ps, r.current) = s
  <2>1. FindSlot(ps, ps.entries[s].pid) = s
        BY <1>1, <1>3, LiveFacts, Zenon DEF Live
  <2>2. QED BY <1>1, <2>1
<1>5. ASSUME NEW t \in Slots, ps.entries[t].used, ps.entries[t].state = "RUNNING" PROVE t = s
  <2>1. ps.entries[t].pid = r.current
        BY <1>2, <1>5, Zenon DEF EntryOK
  <2>2. FindSlot(ps, ps.entries[t].pid) = t
        BY <1>5, LiveFacts, Zenon DEF Live
  <2>3. QED BY <1>4, <2>1, <2>2
<1>6. QED BY <1>1, <1>3, <1>4, <1>5

\* A loaded program is a sequence.
LEMMA ProgramSeq ==
  ASSUME NEW program \in Programs \cup {<<>>}
  PROVE  Len(program) \in Nat /\ DOMAIN program = 1 .. Len(program)
<1>1. CASE program = <<>>
      BY <1>1
<1>2. CASE program \in Programs
  <2>1. PICK c \in [1 .. 3 -> Files] : program \in Taken(c)
        BY <1>2 DEF Programs
  <2>2. PICK i \in DOMAIN c : Loads(c[i]) /\ program \in Loaded(c[i])
        BY <2>1 DEF Taken
  <2>3. PICK body \in Bodies(c[i]) : program = Program(body)
        BY <2>2 DEF Loaded
  <2>4. c[i] \in Seq(Line)
        BY <2>2, SessionAssumption DEF Loads
  <2>5. body \in Seq(Line)
        BY <2>2, <2>3, <2>4, BodyLines, Zenon
  <2>6. DOMAIN Ended(body) = 1 .. Len(Ended(body)) /\ Len(Ended(body)) \in Nat
    <3>1. CASE Ended(body) = body
          BY <2>5, <3>1
    <3>2. CASE Ended(body) = Append(body, Exit)
          BY <2>5, <3>2
    <3>3. QED BY <3>1, <3>2 DEF Ended
  <2> DEFINE n == Len(Ended(body))
             F == {program[k] : k \in 1 .. n}
  <2>7. program = [k \in 1 .. n |-> program[k]] /\ n \in Nat
        BY <2>3, <2>6 DEF Program
  <2> HIDE DEF n
  <2>8. program \in Seq(F)
        BY <2>7
  <2>9. QED BY <2>8
<1>3. QED BY <1>1, <1>2

\* The process that runs has its slot and its program, and the burst at its pc is
\* not zero: execute_instruction gives up on none.
LEMMA CurrentSlot ==
  ASSUME rt \in RuntimeType, procs \in ProcTable, TablesOK(procs, rt), rt.current # NoPid
  PROVE  /\ HasSlot(rt, rt.current) /\ SlotIndex(rt.current) \in Slots
         /\ Current \in SlotType
         /\ ExitCode \subseteq {0}
         /\ ExitCode = {} => (Op \in {"CPU", "IO"} => Ticks \in Nat \ {0})
<1>1. HasSlot(rt, rt.current)
      BY CurrentEntry, LiveFacts, Zenon DEF Live
<1>2. SlotIndex(rt.current) \in Slots /\ SlotIndex(rt.current) # NoSlot
      BY <1>1, SlotIndexFacts
<1>3. Current \in SlotType
      BY <1>2, RuntimeFields DEF Current
<1>4. Current.program \in Programs \cup {<<>>} /\ Current.pc \in Nat \ {0} /\ Current.left \in Nat
      BY <1>3 DEF SlotType
<1>5. Len(Current.program) \in Nat /\ DOMAIN Current.program = 1 .. Len(Current.program)
      BY <1>4, ProgramSeq
<1>6. Sound(Current.program)
  <2>1. CASE Current.program = <<>>
        BY <2>1 DEF Sound
  <2>2. CASE Current.program \in Programs
        BY <2>2, ProgramsSound
  <2>3. QED BY <1>4, <2>1, <2>2
<1>7. ASSUME ~ (Current.pc > Len(Current.program)), Op \in {"CPU", "IO"} PROVE Ticks \in Nat \ {0}
  <2>1. Current.pc \in DOMAIN Current.program
        BY <1>4, <1>5, <1>7
  <2>2. QED BY <1>6, <1>7, <2>1 DEF Sound, Op, Ticks
<1>8. ExitCode \subseteq {0}
      BY <1>2, <1>7 DEF ExitCode
<1>9. ExitCode = {} => ~ (Current.pc > Len(Current.program))
      BY <1>2 DEF ExitCode
<1>10. QED BY <1>1, <1>2, <1>3, <1>7, <1>8, <1>9

-----------------------------------------------------------------------------
(***************************************************************************)
(* The steps                                                               *)
(***************************************************************************)
\* proc_set_state for a live process, after its wakeup_tick was written.
LEMMA WakeMoves ==
  ASSUME NEW ps \in ProcTable, NEW s \in Slots, NEW n \in Nat, NEW now \in Nat,
         FindSlot(ps, ps.entries[s].pid) = s, ps.entries[s].stack = TRUE,
         NEW st \in {"READY", "BLOCKED"}
  PROVE  Moves(ps, SetState(WithWakeup(ps, s, n), ps.entries[s].pid, st, now), s, st, now)
<1> DEFINE pid == ps.entries[s].pid
           w == WithWakeup(ps, s, n)
           q == SetState(w, pid, st, now)
           e == ps.entries[s]
           f == w.entries[s]
           g == q.entries[s]
<1>1. /\ Writes(ps, w, s) /\ w.stacks = ps.stacks
      /\ f.stack = e.stack /\ f.response = e.response /\ SameAccount(e, f)
      BY WakeupFacts, Zenon
<1> HIDE DEF w
<1>2. w \in ProcTable /\ FindSlot(w, pid) = s
  <2>1. /\ w \in ProcTable /\ w.nextPid = ps.nextPid /\ w.index = ps.index
        /\ \A t \in Slots : /\ w.entries[t].used = ps.entries[t].used
                            /\ w.entries[t].pid = ps.entries[t].pid
        BY <1>1 DEF Writes
  <2>2. /\ pid \in Indexed /\ pid < ps.nextPid /\ ps.index[pid] = s /\ s # NoSlot
        /\ ps.entries[s].used /\ ps.entries[s].pid = pid
        BY SlotsNumbers, Zenon DEF FindSlot
  <2>3. QED BY <2>1, <2>2, Zenon DEF FindSlot
<1>3. st \in ProcStates /\ st # "RUNNING" /\ st # "EXITED"
      BY DEF ProcStates
<1>4. /\ Writes(w, q, s) /\ q.stacks = w.stacks
      /\ g.state = st /\ g.stack = f.stack
      /\ g.response = f.response
      /\ SameAccount(f, g)
      BY <1>2, <1>3, SetStateFacts
<1> HIDE DEF q
<1>5. Writes(ps, q, s) /\ SameAccount(e, g)
      BY <1>1, <1>4, Zenon DEF Writes, SameAccount
<1>6. Moves(ps, q, s, st, now)
      BY <1>1, <1>3, <1>4, <1>5, Zenon DEF Moves
<1>7. QED BY <1>6 DEF q, w

LEMMA SetMoves ==
  ASSUME NEW ps \in ProcTable, NEW s \in Slots, NEW now \in Nat,
         FindSlot(ps, ps.entries[s].pid) = s, ps.entries[s].stack = TRUE,
         NEW st \in {"READY", "RUNNING"}
  PROVE  Moves(ps, SetState(ps, ps.entries[s].pid, st, now), s, st, now)
<1> DEFINE pid == ps.entries[s].pid
           q == SetState(ps, pid, st, now)
           e == ps.entries[s]
           g == q.entries[s]
<1>1. st \in ProcStates /\ st # "EXITED"
      BY DEF ProcStates
<1>2. /\ Writes(ps, q, s) /\ q.stacks = ps.stacks
      /\ g.state = st /\ g.stack = e.stack
      /\ g.response = IF st = "RUNNING" /\ e.response = Never THEN now - e.start ELSE e.response
      /\ SameAccount(e, g)
      BY <1>1, SetStateFacts
<1> HIDE DEF q
<1>3. Moves(ps, q, s, st, now)
      BY <1>1, <1>2, Zenon DEF Moves
<1>4. QED BY <1>3 DEF q

LEMMA ExitMoves ==
  ASSUME NEW ps \in ProcTable, NEW s \in Slots, NEW now \in Nat, NEW code \in {0, 130},
         FindSlot(ps, ps.entries[s].pid) = s, ps.entries[s].stack = TRUE
  PROVE  Moves(ps, MarkExited(ps, ps.entries[s].pid, code, now), s, "EXITED", now)
<1> DEFINE pid == ps.entries[s].pid
           q == MarkExited(ps, pid, code, now)
           e == ps.entries[s]
           g == q.entries[s]
<1>1. /\ Writes(ps, q, s) /\ q.stacks = IF e.stack THEN ps.stacks \ {e.pid} ELSE ps.stacks
      /\ g.state = "EXITED" /\ ~ g.stack /\ g.code = code /\ g.finish = now
      /\ g.response = e.response
      /\ SameAccount(e, g)
  <2>1. code \in Nat /\ FindSlot(ps, pid) = s
        OBVIOUS
  <2> HIDE DEF pid
  <2>2. QED BY <2>1, MarkExitedFacts
<1> HIDE DEF q
<1>2. Moves(ps, q, s, "EXITED", now)
      BY <1>1 DEF Moves
<1>3. QED BY <1>2 DEF q

LEMMA TableTyped ==
  ASSUME NEW ps, NEW q, NEW s, NEW st, NEW now, Moves(ps, q, s, st, now)
  PROVE  q \in ProcTable
BY DEF Moves, Writes

LEMMA TracePid ==
  ASSUME NEW ps \in ProcTable, NEW r, NEW tr, Good(ps, r, tr), NEW s \in Slots, ps.entries[s].used
  PROVE  ps.entries[s].pid \in 1 .. MaxPid
BY SessionAssumption, TableFields, PcbFields DEF Good, CodesOK

\* wake_blocked_by_time
LEMMA WakeDueInv ==
  ASSUME SessionInv, NEW s \in Slots, WakeDue(s)
  PROVE  SessionInv'
<1> DEFINE pid == procs.entries[s].pid
<1>1. /\ procs \in ProcTable /\ rt \in RuntimeType /\ trace \in TraceType /\ rt.tick \in Nat
      /\ Good(procs, rt, trace) /\ TablesOK(procs, rt)
      BY InvGood, RuntimeFields DEF WakeDue, Good
<1>2. procs.entries[s].used /\ procs.entries[s].state = "BLOCKED"
      BY DEF WakeDue, Due
<1>3. /\ pid \in Indexed /\ FindSlot(procs, pid) = s
      /\ procs.entries[s].stack = TRUE /\ HasSlot(rt, pid)
      BY <1>1, <1>2, LiveFacts, Zenon DEF Live
<1>4. procs' = SetState(WithWakeup(procs, s, 0), pid, "READY", rt.tick)
      BY DEF WakeDue, WithWakeup
<1>5. Moves(procs, procs', s, "READY", rt.tick)
      BY <1>1, <1>3, <1>4, WakeMoves, Zenon
<1>6. Tells(trace, trace', pid, "READY")
  <2>1. pid \in 1 .. MaxPid
        BY <1>1, <1>2, TracePid
  <2>2. trace' = TracedBoth(trace, pid, "READY", "WAKE")
        BY DEF WakeDue
  <2>3. QED BY <1>1, <2>1, <2>2, BothTell, EventsOfState, Zenon
<1>7. rt' = rt /\ mode' = "step"
      BY DEF WakeDue
<1>8. KeepsSlots(rt, rt', pid) /\ SameTime(rt, rt')
      BY <1>7 DEF KeepsSlots, SameTime
<1>9. NextCurrent(rt, rt', pid, "READY")
  <2>1. rt.current # pid
        BY <1>1, <1>2, Zenon DEF TablesOK, EntryOK
  <2>2. QED BY <1>7, <2>1 DEF NextCurrent
<1>10. Good(procs', rt', trace')
       BY <1>1, <1>2, <1>3, <1>5, <1>6, <1>7, <1>8, <1>9, MoveGood, Zenon
<1>11. procs' \in ProcTable /\ trace' \in TraceType
       BY <1>5, <1>6, TableTyped, Zenon DEF Tells
<1>12. QED BY <1>1, <1>7, <1>10, <1>11, GoodInv

\* dispatch
LEMMA DispatchInv ==
  ASSUME SessionInv, NEW s \in Slots, Dispatch(s)
  PROVE  SessionInv'
<1> DEFINE pid == procs.entries[s].pid
<1>1. /\ procs \in ProcTable /\ rt \in RuntimeType /\ trace \in TraceType /\ rt.tick \in Nat
      /\ Good(procs, rt, trace) /\ TablesOK(procs, rt)
      BY InvGood, RuntimeFields DEF Dispatch, Good
<1>2. procs.entries[s].used /\ procs.entries[s].state = "READY" /\ rt.current = NoPid
      BY DEF Dispatch, Ready
<1>3. /\ pid \in Indexed /\ FindSlot(procs, pid) = s
      /\ procs.entries[s].stack = TRUE /\ HasSlot(rt, pid)
      BY <1>1, <1>2, LiveFacts, Zenon DEF Live
<1>4. Moves(procs, procs', s, "RUNNING", rt.tick)
  <2>1. procs' = SetState(procs, pid, "RUNNING", rt.tick)
        BY DEF Dispatch
  <2>2. QED BY <1>1, <1>3, <2>1, SetMoves, Zenon
<1>5. Tells(trace, trace', pid, "RUNNING")
  <2>1. pid \in 1 .. MaxPid
        BY <1>1, <1>2, TracePid
  <2>2. trace' = TracedBoth(trace, pid, "DISPATCH", "CTXSW")
        BY DEF Dispatch
  <2>3. QED BY <1>1, <2>1, <2>2, BothTell, EventsOfState
<1>6. rt' = WithCurrent(rt, pid) /\ mode' = "step"
      BY DEF Dispatch, WithCurrent
<1>7. SameRun(rt, rt') /\ SameTime(rt, rt') /\ rt'.current = pid
  <2>1. pid \in Nat \cup {NoPid}
        BY <1>1, TableFields, PcbFields
  <2>2. QED BY <1>1, <1>6, <2>1, WithCurrentFacts, Zenon
<1>8. KeepsSlots(rt, rt', pid) /\ HasSlot(rt', pid)
      BY <1>1, <1>3, <1>7, SameRunKeeps, Zenon
<1>9. NextCurrent(rt, rt', pid, "RUNNING") /\ rt' \in RuntimeType
      BY <1>2, <1>7 DEF NextCurrent, SameRun
<1>10. Good(procs', rt', trace')
       BY <1>1, <1>2, <1>4, <1>5, <1>7, <1>8, <1>9, MoveGood, Zenon
<1>11. procs' \in ProcTable /\ trace' \in TraceType
       BY <1>4, <1>5, TableTyped DEF Tells
<1>12. QED BY <1>6, <1>9, <1>10, <1>11, GoodInv

\* What a step of the process that runs starts from.
LEMMA ExecutingFacts ==
  ASSUME SessionInv, Executing
  PROVE  LET s == FindSlot(procs, rt.current) IN
         /\ procs \in ProcTable /\ rt \in RuntimeType /\ trace \in TraceType /\ rt.tick \in Nat
         /\ Good(procs, rt, trace)
         /\ s \in Slots /\ procs.entries[s].used /\ procs.entries[s].pid = rt.current
         /\ procs.entries[s].state = "RUNNING" /\ procs.entries[s].stack = TRUE
         /\ rt.current \in Indexed /\ rt.current \in 1 .. MaxPid /\ HasSlot(rt, rt.current)
<1> DEFINE s == FindSlot(procs, rt.current)
<1>1. /\ procs \in ProcTable /\ rt \in RuntimeType /\ trace \in TraceType /\ rt.tick \in Nat
      /\ Good(procs, rt, trace) /\ TablesOK(procs, rt) /\ rt.current # NoPid
      BY InvGood, RuntimeFields DEF Executing, Good
<1>2. /\ s \in Slots /\ procs.entries[s].used /\ procs.entries[s].pid = rt.current
      /\ procs.entries[s].state = "RUNNING"
      BY <1>1, CurrentEntry
<1> HIDE DEF s
<1>3. /\ procs.entries[s].pid \in Indexed /\ procs.entries[s].stack = TRUE
      /\ HasSlot(rt, procs.entries[s].pid)
      BY <1>1, <1>2, LiveFacts, Zenon DEF Live
<1>4. procs.entries[s].pid \in 1 .. MaxPid
      BY <1>1, <1>2, TracePid
<1>5. QED BY <1>1, <1>2, <1>3, <1>4, Zenon DEF s

\* exit_current
LEMMA ExitCurrentInv ==
  ASSUME SessionInv, ExitCurrent
  PROVE  SessionInv'
<1> DEFINE s == FindSlot(procs, rt.current)
           pid == procs.entries[s].pid
<1>1. PICK code \in ExitCode :
        /\ Executing
        /\ procs' = MarkExited(procs, rt.current, code, rt.tick)
        /\ rt' = [rt EXCEPT !.current = NoPid]
        /\ trace' = Traced(trace, rt.current, "EXIT")
        /\ mode' = mode
      BY DEF ExitCurrent
<1>2. /\ procs \in ProcTable /\ rt \in RuntimeType /\ trace \in TraceType /\ rt.tick \in Nat
      /\ Good(procs, rt, trace)
      /\ s \in Slots /\ procs.entries[s].used /\ pid = rt.current
      /\ procs.entries[s].state = "RUNNING" /\ procs.entries[s].stack = TRUE
      /\ pid \in 1 .. MaxPid
  <2>1. Executing
        BY <1>1
  <2>2. /\ procs \in ProcTable /\ rt \in RuntimeType /\ trace \in TraceType /\ rt.tick \in Nat
        /\ Good(procs, rt, trace)
        /\ s \in Slots /\ procs.entries[s].used /\ procs.entries[s].pid = rt.current
        /\ procs.entries[s].state = "RUNNING" /\ procs.entries[s].stack = TRUE
        /\ rt.current \in 1 .. MaxPid
        BY <2>1, ExecutingFacts, Zenon
  <2>3. QED BY <2>2, Zenon
<1>3. code \in {0, 130}
      BY <1>1, <1>2, CurrentSlot DEF Good, Executing
<1>4. FindSlot(procs, pid) = s
      BY <1>2
<1> HIDE DEF s
<1>5. Moves(procs, procs', s, "EXITED", rt.tick)
  <2>1. procs' = MarkExited(procs, pid, code, rt.tick)
        BY <1>1, <1>2
  <2>2. QED BY <1>2, <1>3, <1>4, <2>1, ExitMoves, ZenonT(30)
<1>6. Tells(trace, trace', pid, "EXITED")
      BY <1>1, <1>2, TracedTells, EventsOfState
<1>7. SameRun(rt, rt') /\ SameTime(rt, rt') /\ rt'.current = NoPid
  <2>1. rt' = WithCurrent(rt, NoPid)
        BY <1>1 DEF WithCurrent
  <2>2. QED BY <1>2, <2>1, WithCurrentFacts, Zenon
<1>8. KeepsSlots(rt, rt', pid)
      BY <1>2, <1>7, SameRunKeeps, Zenon
<1>9. NextCurrent(rt, rt', pid, "EXITED") /\ rt' \in RuntimeType /\ mode' = "step"
      BY <1>1, <1>2, <1>7 DEF NextCurrent, SameRun, NoPid, Executing
<1>10. Good(procs', rt', trace')
  <2>1. procs.entries[s].state \notin {"EXITED", "NEW"}
        BY <1>2
  <2>2. QED BY <1>2, <1>5, <1>6, <1>7, <1>8, <1>9, <2>1, MoveGood, Zenon
<1>11. procs' \in ProcTable /\ trace' \in TraceType
       BY <1>5, <1>6, TableTyped DEF Tells
<1>12. QED BY <1>9, <1>10, <1>11, GoodInv

\* proc_get finds only a process in the table.
LEMMA FoundFacts ==
  ASSUME NEW ps \in ProcTable, NEW pid, Found(ps, pid)
  PROVE  LET s == FindSlot(ps, pid) IN
         s \in Slots /\ ps.entries[s].used /\ ps.entries[s].pid = pid /\ pid \in Indexed
<1>1. pid \in Indexed => ps.index[pid] \in Slots \cup {NoSlot}
      BY TableFields DEF IndexType
<1>2. QED BY <1>1, Zenon DEF Found, FindSlot

\* runtime_kill
LEMMA KillInv ==
  ASSUME SessionInv, NEW pid \in 1 .. MaxPid, Kill(pid)
  PROVE  SessionInv'
<1> DEFINE s == FindSlot(procs, pid)
<1>1. /\ procs \in ProcTable /\ rt \in RuntimeType /\ trace \in TraceType /\ rt.tick \in Nat
      /\ Good(procs, rt, trace) /\ TablesOK(procs, rt)
      BY InvGood, RuntimeFields DEF Kill, Good
<1>2. s \in Slots /\ procs.entries[s].used /\ procs.entries[s].pid = pid /\ pid \in Indexed
      BY <1>1, FoundFacts DEF Kill
<1>3. procs.entries[s].state \notin {"EXITED", "NEW"} /\ procs.entries[s].stack = TRUE
  <2>1. procs.entries[s].state # "EXITED"
        BY DEF Kill, Get
  <2>2. procs.entries[s].state \in ProcStates /\ procs.entries[s].state # "NEW"
        BY <1>1, <1>2, EntryFacts DEF TablesOK
  <2>3. Live(procs.entries[s])
        BY <2>1, <2>2 DEF Live, ProcStates
  <2>4. QED BY <1>1, <1>2, <2>1, <2>2, <2>3, LiveFacts, Zenon
<1>4. FindSlot(procs, procs.entries[s].pid) = s
      BY <1>2
<1> HIDE DEF s
<1>5. Moves(procs, procs', s, "EXITED", rt.tick)
  <2>1. procs' = MarkExited(procs, procs.entries[s].pid, 130, rt.tick)
        BY <1>2 DEF Kill
  <2>2. QED BY <1>1, <1>2, <1>3, <1>4, <2>1, ExitMoves, Zenon
<1>6. Tells(trace, trace', procs.entries[s].pid, "EXITED")
  <2>1. trace' = Traced(trace, pid, "KILL")
        BY DEF Kill
  <2>2. QED BY <1>1, <1>2, <2>1, TracedTells, EventsOfState, Zenon
<1>7. /\ rt' \in RuntimeType /\ SameTime(rt, rt')
      /\ KeepsSlots(rt, rt', procs.entries[s].pid)
      /\ NextCurrent(rt, rt', procs.entries[s].pid, "EXITED")
  <2>1. rt' \in RuntimeType /\ SameTime(rt, rt')
        /\ KeepsSlots(rt, rt', pid) /\ NextCurrent(rt, rt', pid, "EXITED")
        BY <1>1, <1>2, KilledFacts, Zenon DEF Kill
  <2>2. QED BY <1>2, <2>1, Zenon
<1>8. Good(procs', rt', trace')
      BY <1>1, <1>2, <1>3, <1>5, <1>6, <1>7, MoveGood, Zenon
<1>9. procs' \in ProcTable /\ trace' \in TraceType /\ mode' = "shell"
      BY <1>5, <1>6, TableTyped DEF Tells, Kill
<1>10. QED BY <1>7, <1>8, <1>9, GoodInv

\* The runtime's tables after WORKLOAD_IO.
LEMMA IoRuntime ==
  ASSUME rt \in RuntimeType, SlotIndex(rt.current) \in Slots,
         rt' = [rt EXCEPT !.current = NoPid, !.slots[SlotIndex(rt.current)].pc = @ + 1]
  PROVE  SameRun(rt, rt') /\ SameTime(rt, rt') /\ rt'.current = NoPid
<1> DEFINE i == SlotIndex(rt.current)
           e == rt.slots[i]
           slots == WithPc(rt.slots, i, e.pc + 1, e.left)
<1>1. rt.slots \in [Slots -> SlotType] /\ e \in SlotType /\ rt.index \in IndexType
      BY RuntimeFields
<1>2. e.pc + 1 \in Nat \ {0} /\ e.left \in Nat
      BY <1>1 DEF SlotType
<1>3. [e EXCEPT !.pc = e.pc + 1] = [e EXCEPT !.left = e.left, !.pc = e.pc + 1]
      BY <1>1, Zenon DEF SlotType
<1>4. rt' = WithSlots(rt, NoPid, slots, rt.index)
  <2>1. rt' = [rt EXCEPT !.current = NoPid,
                 !.slots = [rt.slots EXCEPT ![i] = [rt.slots[i] EXCEPT !.pc = e.pc + 1]]]
        BY <1>1 DEF RuntimeType
  <2>2. rt' = [rt EXCEPT !.current = NoPid, !.slots = slots]
        BY <1>3, <2>1, Zenon DEF WithPc
  <2> HIDE DEF slots
  <2>3. QED BY <2>2, Zenon DEF WithSlots, RuntimeType
<1>5. /\ slots \in [Slots -> SlotType]
      /\ \A j \in Slots : slots[j].used = rt.slots[j].used /\ slots[j].pid = rt.slots[j].pid
      BY <1>2, WithPcFacts, ZenonT(30)
<1> HIDE DEF slots
<1>6. HasSlots(rt, WithSlots(rt, NoPid, slots, rt.index), NoPid, slots, rt.index)
      BY <1>1, <1>5, WithSlotsFacts, Zenon
<1>7. QED BY <1>4, <1>5, <1>6 DEF HasSlots, SameRun

\* WORKLOAD_IO
LEMMA IoStartInv ==
  ASSUME SessionInv, IoStart
  PROVE  SessionInv'
<1> DEFINE s == FindSlot(procs, rt.current)
           pid == procs.entries[s].pid
<1>1. /\ procs \in ProcTable /\ rt \in RuntimeType /\ trace \in TraceType /\ rt.tick \in Nat
      /\ Good(procs, rt, trace)
      /\ s \in Slots /\ procs.entries[s].used /\ pid = rt.current
      /\ procs.entries[s].state = "RUNNING" /\ procs.entries[s].stack = TRUE
      /\ rt.current \in 1 .. MaxPid /\ HasSlot(rt, rt.current)
      BY ExecutingFacts, Zenon DEF IoStart
<1>2. /\ SlotIndex(rt.current) \in Slots
      /\ Ticks \in Nat
      BY <1>1, CurrentSlot DEF Good, Executing, IoStart
<1>3. (rt.tick + Ticks) % Modulus \in Nat
      BY <1>1, <1>2, WorkloadAssumption
<1>4. FindSlot(procs, pid) = s
      BY <1>1, Zenon
<1>5. procs' = SetState(WithWakeup(procs, s, (rt.tick + Ticks) % Modulus), pid, "BLOCKED", rt.tick)
      BY <1>1 DEF IoStart, WithWakeup
<1> HIDE DEF s
<1>6. Moves(procs, procs', s, "BLOCKED", rt.tick)
      BY <1>1, <1>3, <1>4, <1>5, WakeMoves, Zenon
<1>7. Tells(trace, trace', pid, "BLOCKED")
  <2>1. trace' = Traced(trace, pid, "BLOCK")
        BY <1>1 DEF IoStart
  <2>2. QED BY <1>1, <2>1, TracedTells, EventsOfState, Zenon
<1>8. SameRun(rt, rt') /\ SameTime(rt, rt') /\ rt'.current = NoPid
      BY <1>1, <1>2, IoRuntime, Zenon DEF IoStart
<1>9. KeepsSlots(rt, rt', pid) /\ HasSlot(rt', pid)
      BY <1>1, <1>8, SameRunKeeps, Zenon
<1>10. NextCurrent(rt, rt', pid, "BLOCKED") /\ rt' \in RuntimeType /\ mode' = "step"
       BY <1>1, <1>8 DEF NextCurrent, SameRun, NoPid, Executing, IoStart
<1>11. Good(procs', rt', trace')
  <2>1. procs.entries[s].state \notin {"EXITED", "NEW"}
        BY <1>1
  <2>2. QED BY <1>1, <1>6, <1>7, <1>8, <1>9, <1>10, <2>1, MoveGood, Zenon
<1>12. procs' \in ProcTable /\ trace' \in TraceType
       BY <1>6, <1>7, TableTyped DEF Tells
<1>13. QED BY <1>10, <1>11, <1>12, GoodInv

\* The runtime's tables after a tick of the CPU.
CpuUsed(r, i, left, pc, c) ==
  [r EXCEPT !.busy = @ + 1, !.tick = @ + 1,
            !.slots[i] = [@ EXCEPT !.left = left, !.pc = pc],
            !.current = c]

HasTicked(r, q, c) ==
  /\ SameRun(r, q) /\ q.current = c
  /\ q.tick = r.tick + 1 /\ q.busy + q.idle = r.busy + r.idle + 1

LEMMA CpuRuntime ==
  ASSUME NEW r \in RuntimeType, NEW i \in Slots, NEW left \in Nat, NEW pc \in Nat \ {0},
         NEW c \in Nat \cup {NoPid}
  PROVE  HasTicked(r, CpuUsed(r, i, left, pc, c), c)
<1> DEFINE slots == WithPc(r.slots, i, pc, left)
           busy == r.busy + 1
           tick == r.tick + 1
           q == CpuUsed(r, i, left, pc, c)
<1>1. r.busy \in Nat /\ r.idle \in Nat /\ busy \in Nat /\ tick \in Nat
      BY RuntimeFields
<1>2. /\ slots \in [Slots -> SlotType]
      /\ \A j \in Slots : slots[j].used = r.slots[j].used /\ slots[j].pid = r.slots[j].pid
      BY WithPcFacts
<1>3. q = [r EXCEPT !.busy = busy, !.tick = tick, !.slots = slots, !.current = c]
      BY Zenon DEF WithPc, CpuUsed
<1> HIDE DEF slots, busy, tick, q
<1>4. /\ q \in RuntimeType /\ q.index = r.index /\ q.slots = slots /\ q.current = c
      /\ q.tick = tick /\ q.busy = busy /\ q.idle = r.idle
      BY <1>1, <1>2, <1>3, Zenon DEF RuntimeType
<1>5. SameRun(r, q)
      BY <1>2, <1>4 DEF SameRun
<1>6. q.busy + q.idle = r.busy + r.idle + 1
      BY <1>1, <1>4 DEF busy
<1>7. HasTicked(r, q, c)
      BY <1>4, <1>5, <1>6 DEF HasTicked, tick
<1>8. QED BY <1>7 DEF q

\* WORKLOAD_CPU, with the preemption that may follow.
LEMMA CpuTickInv ==
  ASSUME SessionInv, NEW preempt \in BOOLEAN, CpuTick(preempt)
  PROVE  SessionInv'
<1> DEFINE s == FindSlot(procs, rt.current)
           pid == procs.entries[s].pid
           left == (IF Current.left = 0 THEN Ticks ELSE Current.left) - 1
           pc == IF left = 0 THEN Current.pc + 1 ELSE Current.pc
           c == IF preempt THEN NoPid ELSE rt.current
           waited == [procs EXCEPT !.entries = Accounted(@)]
           w == [waited EXCEPT !.entries[s].cpu = @ + 1]
           r1 == WithCurrent(rt', rt.current)
           tr == Traced(trace, rt.current, "CPU")
<1>1. /\ procs \in ProcTable /\ rt \in RuntimeType /\ trace \in TraceType /\ rt.tick \in Nat
      /\ Good(procs, rt, trace)
      /\ s \in Slots /\ procs.entries[s].used /\ pid = rt.current
      /\ procs.entries[s].state = "RUNNING" /\ procs.entries[s].stack = TRUE
      /\ rt.current \in 1 .. MaxPid /\ HasSlot(rt, rt.current)
      BY ExecutingFacts, Zenon DEF CpuTick
<1>2. SlotIndex(rt.current) \in Slots /\ Current \in SlotType /\ Ticks \in Nat \ {0}
      BY <1>1, CurrentSlot DEF Good, Executing, CpuTick
<1>3. left \in Nat /\ pc \in Nat \ {0} /\ c \in Nat \cup {NoPid}
      BY <1>1, <1>2 DEF SlotType
<1>4. /\ procs' = IF preempt THEN SetState(w, rt.current, "READY", rt.tick + 1) ELSE w
      /\ trace' = IF preempt THEN TracedBoth(tr, rt.current, "READY", "YIELD") ELSE tr
      /\ mode' = "shell"
      BY Zenon DEF CpuTick
<1>5. /\ SameRun(rt, rt') /\ rt'.current = c
      /\ rt'.tick = rt.tick + 1 /\ rt'.busy + rt'.idle = rt.busy + rt.idle + 1
  <2>1. rt' = CpuUsed(rt, SlotIndex(rt.current), left, pc, c)
        BY Zenon DEF CpuTick, CpuUsed
  <2> HIDE DEF left, pc, c
  <2>2. HasTicked(rt, rt', c)
        BY <1>1, <1>2, <1>3, <2>1, CpuRuntime, Zenon
  <2>3. QED BY <2>2 DEF HasTicked
<1>6. /\ SameShape(procs, w)
      /\ \A t \in Slots : Aged(procs.entries[t], w.entries[t], IF t = s THEN 1 ELSE 0)
  <2> HIDE DEF s
  <2>1. QED BY <1>1, WorkedFacts, Zenon
<1>7. \A t \in Slots : procs.entries[t].used => (procs.entries[t].state = "RUNNING" <=> t = s)
      BY <1>1, CurrentEntry DEF Good, Executing, CpuTick
<1> HIDE DEF w, s, left, pc
<1>8. Silent(trace, tr)
      BY <1>1, TracedSilent, EventsOfState, Zenon
<1> HIDE DEF tr
<1>9. w \in ProcTable /\ rt' \in RuntimeType /\ tr \in TraceType
      BY <1>5, <1>6, <1>8 DEF SameShape, SameRun, Silent
<1>10. CASE ~ preempt
  <2>1. rt'.current = rt.current
        BY <1>5, <1>10
  <2> HIDE DEF c
  <2>2. Good(w, rt', tr)
        BY <1>1, <1>5, <1>6, <1>7, <1>8, <2>1, AgeGood, Zenon
  <2>3. procs' = w /\ trace' = tr
        BY <1>4, <1>10
  <2>4. QED BY <1>4, <1>9, <2>2, <2>3, GoodInv
<1>11. CASE preempt
  <2> DEFINE f == w.entries[s]
  <2>1. SameRun(rt', r1) /\ SameTime(rt', r1) /\ r1.current = rt.current
    <3>1. rt.current \in Nat \cup {NoPid}
          BY <1>1
    <3>2. QED BY <1>9, <3>1, WithCurrentFacts, Zenon
  <2> HIDE DEF r1
  <2>2. /\ SameRun(rt, r1) /\ SameRun(r1, rt') /\ SameTime(r1, rt')
        /\ r1.tick = rt.tick + 1 /\ r1.busy + r1.idle = rt.busy + rt.idle + 1
        BY <1>5, <1>9, <2>1 DEF SameRun, SameTime
  <2>3. Good(w, r1, tr)
        BY <1>1, <1>6, <1>7, <1>8, <2>1, <2>2, AgeGood, Zenon
  <2>4. r1 \in RuntimeType /\ r1.tick \in Nat
        BY <2>1, RuntimeFields DEF SameRun
  <2>5. f.used /\ f.pid = rt.current /\ f.state = "RUNNING" /\ f.stack = TRUE
    <3>1. /\ f.used = procs.entries[s].used /\ f.pid = pid /\ f.state = procs.entries[s].state
          /\ f.stack = procs.entries[s].stack
          BY <1>1, <1>6, Zenon DEF Aged
    <3>2. QED BY <1>1, <3>1
  <2>6. FindSlot(w, f.pid) = s /\ HasSlot(r1, f.pid)
        BY <1>1, <1>9, <2>3, <2>5, LiveFacts, Zenon DEF Live, Good
  <2>7. Moves(w, procs', s, "READY", r1.tick)
    <3>1. procs' = SetState(w, f.pid, "READY", r1.tick)
          BY <1>4, <1>11, <2>2, <2>5, Zenon
    <3>2. QED BY <1>1, <1>9, <2>4, <2>5, <2>6, <3>1, SetMoves, Zenon
  <2>8. Tells(tr, trace', f.pid, "READY")
    <3>1. trace' = TracedBoth(tr, f.pid, "READY", "YIELD")
          BY <1>4, <1>11, <2>5
    <3>2. QED BY <1>1, <1>9, <2>5, <3>1, BothTell, EventsOfState, Zenon
  <2>9. KeepsSlots(r1, rt', f.pid) /\ HasSlot(rt', f.pid)
        BY <2>2, <2>4, <2>6, SameRunKeeps, Zenon
  <2>10. NextCurrent(r1, rt', f.pid, "READY")
         BY <1>1, <1>5, <1>11, <2>1, <2>5 DEF NextCurrent, NoPid
  <2>11. Good(procs', rt', trace')
    <3>1. f.state \notin {"EXITED", "NEW"}
          BY <2>5
    <3> HIDE DEF f
    <3>2. QED BY <1>1, <1>9, <2>2, <2>3, <2>4, <2>5, <2>7, <2>8, <2>9, <2>10, <3>1, MoveGood,
                 Zenon DEF f
  <2>12. procs' \in ProcTable /\ trace' \in TraceType
         BY <2>7, <2>8, TableTyped DEF Tells
  <2>13. QED BY <1>4, <1>9, <2>11, <2>12, GoodInv
<1>12. QED BY <1>10, <1>11

\* A tick in which nobody is dispatched.
LEMMA IdleTickInv ==
  ASSUME SessionInv, IdleTick
  PROVE  SessionInv'
<1>1. /\ procs \in ProcTable /\ rt \in RuntimeType /\ trace \in TraceType
      /\ Good(procs, rt, trace) /\ rt.current = NoPid /\ mode' = "shell"
      BY InvGood DEF IdleTick
<1>2. SameShape(procs, procs') /\ \A t \in Slots : Aged(procs.entries[t], procs'.entries[t], 0)
      BY <1>1, AccountedFacts, Zenon DEF IdleTick
<1>3. \A t \in Slots : Aged(procs.entries[t], procs'.entries[t], IF t = NoSlot THEN 1 ELSE 0)
      BY <1>2, SlotsNumbers
<1>4. \A t \in Slots : procs.entries[t].used => (procs.entries[t].state = "RUNNING" <=> t = NoSlot)
  <2> SUFFICES ASSUME NEW t \in Slots, procs.entries[t].used
               PROVE  procs.entries[t].state # "RUNNING" /\ t # NoSlot
      OBVIOUS
  <2>1. EntryOK(procs, rt, t) /\ procs.entries[t].pid \in Nat
        BY <1>1, EntryFacts, Zenon DEF Good, TablesOK
  <2>2. QED BY <1>1, <2>1, SlotsNumbers DEF EntryOK, NoPid
<1>5. /\ SameRun(rt, rt') /\ rt'.current = rt.current
      /\ rt'.tick = rt.tick + 1 /\ rt'.busy + rt'.idle = rt.busy + rt.idle + 1
  <2> DEFINE tick == rt.tick + 1
             idle == rt.idle + 1
  <2>1. tick \in Nat /\ idle \in Nat /\ rt.idle \in Nat /\ rt.busy \in Nat
        BY <1>1, RuntimeFields
  <2>2. rt' = [rt EXCEPT !.idle = idle, !.tick = tick]
        BY DEF IdleTick
  <2> HIDE DEF tick, idle
  <2>3. /\ rt' \in RuntimeType /\ rt'.index = rt.index /\ rt'.slots = rt.slots
        /\ rt'.current = rt.current /\ rt'.tick = tick /\ rt'.busy = rt.busy /\ rt'.idle = idle
        BY <1>1, <2>1, <2>2, Zenon DEF RuntimeType
  <2>4. QED BY <2>1, <2>3 DEF SameRun, tick, idle
<1>6. Silent(trace, trace')
      BY <1>1, TracedSilent, EventsOfState DEF IdleTick
<1>7. Good(procs', rt', trace')
      BY <1>1, <1>2, <1>3, <1>4, <1>5, <1>6, AgeGood, Zenon
<1>8. procs' \in ProcTable /\ rt' \in RuntimeType /\ trace' \in TraceType
      BY <1>2, <1>5, <1>6, Zenon DEF SameShape, SameRun, Silent
<1>9. QED BY <1>1, <1>7, <1>8, GoodInv

\* Only the fields of the runtime that Good looks at matter.
LEMMA GoodSame ==
  ASSUME NEW ps \in ProcTable, NEW r \in RuntimeType, NEW r2, NEW tr, Good(ps, r, tr),
         SameRun(r, r2), SameTime(r, r2), r2.current = r.current
  PROVE  Good(ps, r2, tr)
<1>1. TablesOK(ps, r)
      BY DEF Good
<1>2. ASSUME NEW t \in Slots PROVE EntryOK(ps, r2, t)
  <2>1. EntryOK(ps, r, t)
        BY <1>1, Zenon DEF TablesOK
  <2>2. HasSlot(r, ps.entries[t].pid) <=> HasSlot(r2, ps.entries[t].pid)
        BY SameRunKeeps, Zenon
  <2>3. QED BY <2>1, <2>2, Zenon DEF EntryOK
<1>3. ASSUME NEW i \in Slots PROVE SlotOK(ps, r2, i)
  <2>1. SlotOK(ps, r, i)
        BY <1>1, Zenon DEF TablesOK
  <2>2. QED BY <2>1 DEF SlotOK, SameRun
<1>4. TablesOK(ps, r2)
      BY <1>1, <1>2, <1>3, Zenon DEF TablesOK
<1>5. AccountsOK(ps, r2)
      BY DEF Good, AccountsOK, SameTime
<1>6. QED BY <1>4, <1>5 DEF Good

\* start and stop
LEMMA SetStartedInv ==
  ASSUME SessionInv, NEW b \in BOOLEAN, SetStarted(b)
  PROVE  SessionInv'
<1>1. /\ procs \in ProcTable /\ rt \in RuntimeType /\ trace \in TraceType
      /\ Good(procs, rt, trace)
      BY InvGood DEF SetStarted
<1>2. /\ rt' \in RuntimeType /\ rt'.index = rt.index /\ rt'.slots = rt.slots
      /\ rt'.current = rt.current /\ rt'.tick = rt.tick /\ rt'.busy = rt.busy /\ rt'.idle = rt.idle
      BY <1>1, Zenon DEF SetStarted, RuntimeType
<1>3. SameRun(rt, rt') /\ SameTime(rt, rt')
      BY <1>2 DEF SameRun, SameTime
<1>4. procs' = procs /\ trace' = trace /\ mode' = "shell"
      BY DEF SetStarted
<1>5. Good(procs, rt', trace)
      BY <1>1, <1>2, <1>3, GoodSame, Zenon
<1>6. QED BY <1>1, <1>2, <1>4, <1>5, GoodInv

LEMMA StepInv ==
  ASSUME SessionInv, Step
  PROVE  SessionInv'
<1>1. /\ procs \in ProcTable /\ rt \in RuntimeType /\ trace \in TraceType
      /\ Good(procs, rt, trace)
      BY InvGood DEF Step
<1>2. procs' = procs /\ rt' = rt /\ trace' = trace /\ mode' = "step"
      BY DEF Step
<1>3. QED BY <1>1, <1>2, GoodInv

\* cmd_run
LEMMA RunWorkloadInv ==
  ASSUME SessionInv, NEW program \in Programs, NEW vmFails \in BOOLEAN,
         RunWorkload(program, vmFails)
  PROVE  SessionInv'
<1> DEFINE pid == procs.nextPid
           made == ProcCreate(procs, rt.tick)
           s == FindSlot(made, pid)
           m == Min(FreeEntries(procs))
           ready == SetState(GiveVm(made, s, pid), pid, "READY", rt.tick)
<1>1. /\ procs \in ProcTable /\ rt \in RuntimeType /\ trace \in TraceType /\ rt.tick \in Nat
      /\ Good(procs, rt, trace) /\ TablesOK(procs, rt)
      BY InvGood, RuntimeFields, Zenon DEF RunWorkload, Good
<1>2. /\ pid \in Nat \ {0} /\ pid <= MaxPid /\ pid \in 1 .. MaxPid
      /\ FreeEntries(procs) # {} /\ mode' = "shell"
      BY <1>1, TableFields, SessionAssumption DEF RunWorkload
<1>3. FreeSlots # {}
      BY <1>1, <1>2, FreeSlotThere, Zenon DEF FreeEntries, FreeSlots
<1>4. /\ HasNew(procs, made, m, rt.tick, "NEW")
      /\ made.entries[m].vm = FALSE /\ made.vms = procs.vms
      /\ s = IF pid \in Indexed THEN m ELSE NoSlot
      BY <1>1, <1>2, ProcCreateFacts, Zenon
<1>5. m \in Slots /\ m # NoSlot
      BY <1>4, SlotsNumbers, Zenon DEF HasNew
<1>6. CASE pid \in Indexed /\ vmFails
  <2>1. procs' = ProcDestroy(made, pid, 1) /\ rt' = rt /\ trace' = trace
        BY <1>4, <1>5, <1>6 DEF RunWorkload, Populate
  <2>2. HasFailed(procs, procs', s)
        BY <1>1, <1>2, <1>6, <2>1, FailedFacts, Zenon
  <2> HIDE DEF s
  <2>3. Good(procs', rt, trace)
        BY <1>1, <1>2, <2>2, FailedGood, Zenon
  <2>4. procs' \in ProcTable
        BY <2>2 DEF HasFailed
  <2>5. QED BY <1>1, <1>2, <2>1, <2>3, <2>4, GoodInv
<1>7. CASE pid \in Indexed /\ ~ vmFails
  <2>1. s = m /\ s # NoSlot
        BY <1>4, <1>5, <1>7, Zenon
  <2>2. /\ AllocSlot(pid, program) /\ procs' = ready
        /\ trace' = TracedBoth(trace, pid, "READY", "CREATE")
        BY <1>3, <1>7, <2>1 DEF RunWorkload, Populate, GiveVm
  <2>3. /\ HasNew(procs, procs', s, rt.tick, "READY") /\ procs'.entries[s].vm = TRUE
        /\ procs'.vms = Plus(procs.vms, pid)
        BY <1>1, <1>2, <1>7, <2>2, StartedFacts, Zenon
  <2> HIDE DEF s, made
  <2>4. HasAlloc(rt, rt', Min(FreeSlots), pid)
        BY <1>1, <1>2, <1>3, <2>2, AllocSlotFacts
  <2>5. Tells(trace, trace', pid, "READY")
        BY <1>1, <1>2, <2>2, BothTell, EventsOfState
  <2>6. Good(procs', rt', trace')
        BY <1>1, <1>2, <1>7, <2>3, <2>4, <2>5, NewGood, Zenon DEF NewOutcome
  <2>7. procs' \in ProcTable /\ rt' \in RuntimeType /\ trace' \in TraceType
        BY <2>3, <2>4, <2>5, Zenon DEF HasNew, HasAlloc, Tells
  <2>8. QED BY <1>2, <2>6, <2>7, GoodInv
<1>8. CASE pid \notin Indexed
  <2>1. s = NoSlot
        BY <1>4, <1>8, Zenon
  <2>2. /\ AllocSlot(pid, program) /\ procs' = made
        /\ trace' = Traced(trace, pid, "CREATE")
        BY <1>3, <2>1 DEF RunWorkload, Populate
  <2> HIDE DEF s, made
  <2>3. HasAlloc(rt, rt', Min(FreeSlots), pid)
        BY <1>1, <1>2, <1>3, <2>2, AllocSlotFacts
  <2>4. Silent(trace, trace')
        BY <1>1, <2>2, TracedSilent, EventsOfState
  <2>5. Good(procs', rt', trace')
    <3>1. /\ HasNew(procs, procs', m, rt.tick, "NEW") /\ procs'.entries[m].vm = FALSE
          /\ procs'.vms = procs.vms
          BY <1>4, <2>2, Zenon
    <3>2. QED BY <1>1, <1>2, <1>8, <2>3, <2>4, <3>1, NewGood, Zenon DEF NewOutcome
  <2>6. procs' \in ProcTable /\ rt' \in RuntimeType /\ trace' \in TraceType
        BY <1>4, <2>2, <2>3, <2>4, Zenon DEF HasNew, HasAlloc, Silent
  <2>7. QED BY <1>2, <2>5, <2>6, GoodInv
<1>9. QED BY <1>6, <1>7, <1>8

-----------------------------------------------------------------------------
(***************************************************************************)
(* The beginning and the end of a session                                  *)
(***************************************************************************)
\* The empty tables.
LEMMA EmptyGood ==
  /\ NoProcs \in ProcTable /\ Idle \in RuntimeType /\ NoTrace \in TraceType
  /\ Good(NoProcs, Idle, NoTrace)
<1>1. NoPcb \in PcbType /\ NoPcb.used = FALSE /\ NoPcb.stack = FALSE /\ NoPcb.vm = FALSE
      BY DEF NoPcb, PcbType, ProcStates
<1> DEFINE es == [s \in Slots |-> NoPcb]
           ix == [p \in Indexed |-> NoSlot]
           slots == [s \in Slots |-> EmptySlot]
           says == [p \in 1 .. MaxPid |-> "NEW"]
<1>2. es \in [Slots -> PcbType] /\ ix \in IndexType /\ slots \in [Slots -> SlotType]
      BY <1>1, SlotsTyped DEF IndexType
<1>3. says \in [1 .. MaxPid -> ProcStates] /\ \A p \in 1 .. MaxPid : says[p] = "NEW"
      BY DEF ProcStates
<1>4. \A s \in Slots : es[s] = NoPcb /\ slots[s] = EmptySlot
      OBVIOUS
<1>5. /\ NoProcs = [entries |-> es, nextPid |-> 1, index |-> ix, stacks |-> {}, vms |-> {}]
      /\ Idle = [tick |-> 0, started |-> FALSE, current |-> NoPid, busy |-> 0, idle |-> 0,
                 slots |-> slots, index |-> ix]
      /\ NoTrace = [count |-> 0, dropped |-> FALSE, says |-> says]
      BY Zenon DEF NoProcs, Idle, NoTrace
<1> HIDE DEF es, ix, slots, says
<1>6. /\ NoProcs \in ProcTable /\ NoProcs.entries = es /\ NoProcs.nextPid = 1
      /\ NoProcs.stacks = {} /\ NoProcs.vms = {}
  <2>1. 1 \in Nat \ {0} /\ {} \in SUBSET Nat
        OBVIOUS
  <2>2. NoProcs \in ProcTable
        BY <1>2, <1>5, <2>1, Zenon DEF ProcTable
  <2>3. QED BY <1>5, <2>2, Zenon
<1>7. /\ Idle \in RuntimeType /\ Idle.slots = slots /\ Idle.current = NoPid
      /\ Idle.tick = 0 /\ Idle.busy = 0 /\ Idle.idle = 0
      BY <1>2, <1>5 DEF RuntimeType
<1>8. NoTrace \in TraceType /\ NoTrace.says = says
      BY <1>3, <1>5 DEF TraceType
<1>9. \A s \in Slots : NoProcs.entries[s] = NoPcb
      BY <1>4, <1>6
<1>10. TablesOK(NoProcs, Idle)
  <2>1. \A s \in Slots : EntryOK(NoProcs, Idle, s)
        BY <1>1, <1>9, Zenon DEF EntryOK
  <2>2. \A i \in Slots : SlotOK(NoProcs, Idle, i)
        BY <1>4, <1>7, SlotsTyped DEF SlotOK
  <2>3. Stacked(NoProcs) = {} /\ Mapped(NoProcs) = {}
        BY <1>1, <1>9 DEF Stacked, Mapped
  <2>4. QED BY <1>6, <1>7, <2>1, <2>2, <2>3, Zenon DEF TablesOK
<1>11. AccountsOK(NoProcs, Idle)
       BY <1>1, <1>7, <1>9 DEF AccountsOK, AccountOK
<1>12. CodesOK(NoProcs)
       BY <1>1, <1>6, <1>9, SessionAssumption DEF CodesOK
<1>13. TraceOK(NoProcs, NoTrace)
       BY <1>1, <1>3, <1>8, <1>9 DEF TraceOK
<1>14. QED BY <1>6, <1>7, <1>8, <1>10, <1>11, <1>12, <1>13 DEF Good

LEMMA InitInv ==
  ASSUME SessionInit
  PROVE  SessionInv
BY EmptyGood DEF SessionInit, SessionInv, SessionTypeOK, Good

\* q is ps after proc_table_shutdown.
HasShut(ps, q) ==
  /\ q \in ProcTable
  /\ q.nextPid = ps.nextPid
  /\ \A s \in Slots : /\ q.entries[s].used = ps.entries[s].used
                      /\ q.entries[s].pid = ps.entries[s].pid
                      /\ q.entries[s].state = ps.entries[s].state
                      /\ q.entries[s].start = ps.entries[s].start
                      /\ q.entries[s].finish = ps.entries[s].finish
                      /\ q.entries[s].response = ps.entries[s].response
                      /\ q.entries[s].code = ps.entries[s].code
                      /\ SameAccount(ps.entries[s], q.entries[s])
  /\ q.stacks = ps.stacks \ {ps.entries[s].pid : s \in {t \in Slots : ps.entries[t].stack}}
  /\ q.vms = ps.vms \ {ps.entries[s].pid : s \in {t \in Slots : ps.entries[t].vm}}

Bare(e) == [e EXCEPT !.stack = FALSE, !.vm = FALSE]

LEMMA BareFacts ==
  ASSUME NEW e \in PcbType
  PROVE  /\ Bare(e) \in PcbType
         /\ Bare(e).used = e.used /\ Bare(e).pid = e.pid /\ Bare(e).state = e.state
         /\ Bare(e).start = e.start /\ Bare(e).finish = e.finish /\ Bare(e).response = e.response
         /\ Bare(e).code = e.code /\ SameAccount(e, Bare(e))
<1>1. Bare(e) \in PcbType
      BY Zenon DEF Bare, PcbType
<1>2. /\ Bare(e).used = e.used /\ Bare(e).pid = e.pid /\ Bare(e).state = e.state
      /\ Bare(e).start = e.start /\ Bare(e).finish = e.finish /\ Bare(e).response = e.response
      /\ Bare(e).code = e.code /\ Bare(e).cpu = e.cpu /\ Bare(e).wait = e.wait
      /\ Bare(e).slept = e.slept
      BY DEF Bare, PcbType
<1>3. QED BY <1>1, <1>2 DEF SameAccount

WithOwners(ps, es, st, vm) == [ps EXCEPT !.entries = es, !.stacks = st, !.vms = vm]

LEMMA ShutdownFacts ==
  ASSUME NEW ps \in ProcTable
  PROVE  HasShut(ps, Shutdown(ps))
<1> DEFINE es == [s \in Slots |-> Bare(ps.entries[s])]
           st == ps.stacks \ {ps.entries[s].pid : s \in {t \in Slots : ps.entries[t].stack}}
           vm == ps.vms \ {ps.entries[s].pid : s \in {t \in Slots : ps.entries[t].vm}}
           q == Shutdown(ps)
<1>1. /\ ps.entries \in [Slots -> PcbType] /\ ps.stacks \in SUBSET Nat /\ ps.vms \in SUBSET Nat
      /\ \A s \in Slots : ps.entries[s] \in PcbType
      BY TableFields, Zenon
<1>2. es \in [Slots -> PcbType]
      BY <1>1, BareFacts
<1>3. st \in SUBSET Nat /\ vm \in SUBSET Nat
      BY <1>1
<1>4. q = WithOwners(ps, es, st, vm)
      BY Zenon DEF Shutdown, WithOwners, Bare
<1>5. \A s \in Slots : es[s] = Bare(ps.entries[s])
      OBVIOUS
<1> HIDE DEF es, st, vm, q
<1>6. /\ q \in ProcTable /\ q.entries = es /\ q.nextPid = ps.nextPid
      /\ q.stacks = st /\ q.vms = vm
      BY <1>2, <1>3, <1>4, Zenon DEF ProcTable, WithOwners
<1>7. ASSUME NEW s \in Slots
      PROVE  /\ q.entries[s].used = ps.entries[s].used
             /\ q.entries[s].pid = ps.entries[s].pid
             /\ q.entries[s].state = ps.entries[s].state
             /\ q.entries[s].start = ps.entries[s].start
             /\ q.entries[s].finish = ps.entries[s].finish
             /\ q.entries[s].response = ps.entries[s].response
             /\ q.entries[s].code = ps.entries[s].code
             /\ SameAccount(ps.entries[s], q.entries[s])
  <2>1. q.entries[s] = Bare(ps.entries[s]) /\ ps.entries[s] \in PcbType
        BY <1>1, <1>5, <1>6
  <2>2. QED BY <2>1, BareFacts
<1>8. HasShut(ps, q)
      BY <1>6, <1>7, Zenon DEF HasShut, st, vm
<1>9. QED BY <1>8 DEF q

\* Everything is given back: every stack is that of an entry that has one, and so
\* is every address space.
LEMMA ShutdownFrees ==
  ASSUME NEW ps \in ProcTable, NEW r, TablesOK(ps, r), NEW q, HasShut(ps, q)
  PROVE  q.stacks = {} /\ q.vms = {}
<1>1. \A s \in Stacked(ps) : s \in {t \in Slots : ps.entries[t].stack}
      BY Zenon DEF TablesOK, EntryOK, Stacked
<1>2. \A s \in Mapped(ps) : s \in {t \in Slots : ps.entries[t].vm}
      BY Zenon DEF TablesOK, EntryOK, Mapped
<1>3. /\ ps.stacks = {ps.entries[s].pid : s \in Stacked(ps)}
      /\ ps.vms = {ps.entries[s].pid : s \in Mapped(ps)}
      BY Zenon DEF TablesOK
<1>4. QED BY <1>1, <1>2, <1>3 DEF HasShut

LEMMA ShutdownKeeps ==
  ASSUME NEW ps \in ProcTable, NEW q, NEW r, NEW tr, HasShut(ps, q),
         AccountsOK(ps, r), TraceOK(ps, tr), CodesOK(ps)
  PROVE  AccountsOK(q, r) /\ TraceOK(q, tr) /\ CodesOK(q)
<1>1. CodesOK(q)
      BY DEF HasShut, CodesOK
<1>2. TraceOK(q, tr)
      BY Zenon DEF HasShut, TraceOK
<1>3. ASSUME NEW s \in Slots PROVE AccountOK(q.entries[s], r.tick)
  <2>1. AccountOK(ps.entries[s], r.tick)
        BY DEF AccountsOK
  <2>2. EndOf(q.entries[s], r.tick) = EndOf(ps.entries[s], r.tick)
        BY Zenon DEF HasShut, EndOf
  <2>3. QED BY <2>1, <2>2, Zenon DEF AccountOK, HasShut, SameAccount
<1>4. QED BY <1>1, <1>2, <1>3 DEF AccountsOK

\* reset leaves the tables of a new session, with no stack and no address space
\* of the old one.
LEMMA ResetInv ==
  ASSUME SessionInv, Reset
  PROVE  SessionInv'
<1>1. procs \in ProcTable /\ Good(procs, rt, trace)
      BY InvGood DEF Reset
<1>2. HasShut(procs, Shutdown(procs))
      BY <1>1, ShutdownFacts
<1>3. Shutdown(procs).stacks = {} /\ Shutdown(procs).vms = {}
      BY <1>1, <1>2, ShutdownFrees, Zenon DEF Good
<1>4. procs' = NoProcs
  <2>1. procs' = [NoProcs EXCEPT !.stacks = {}, !.vms = {}]
        BY <1>3, Zenon DEF Reset
  <2>2. QED BY <2>1, Zenon DEF NoProcs
<1>5. rt' = Idle /\ trace' = NoTrace /\ mode' = "shell"
      BY DEF Reset
<1>6. QED BY <1>4, <1>5, EmptyGood, GoodInv

LEMMA QuitInv ==
  ASSUME SessionInv, Quit
  PROVE  SessionInv'
<1> DEFINE mid == Shutdown(procs)
<1>1. /\ procs \in ProcTable /\ rt \in RuntimeType /\ trace \in TraceType
      /\ Good(procs, rt, trace)
      BY InvGood DEF Quit
<1>2. HasShut(procs, mid)
      BY <1>1, ShutdownFacts
<1>3. procs' = Shutdown(mid) /\ trace' = trace /\ mode' = "quit"
      BY DEF Quit
<1> HIDE DEF mid
<1>4. mid \in ProcTable /\ mid.stacks = {} /\ mid.vms = {}
      BY <1>1, <1>2, ShutdownFrees, Zenon DEF Good, HasShut
<1>5. HasShut(mid, procs')
      BY <1>3, <1>4, ShutdownFacts, Zenon
<1>6. procs' \in ProcTable /\ procs'.stacks = {} /\ procs'.vms = {}
      BY <1>4, <1>5 DEF HasShut
<1>7. /\ rt' \in RuntimeType /\ rt'.current = NoPid
      /\ rt'.tick = rt.tick /\ rt'.busy = rt.busy /\ rt'.idle = rt.idle
      BY <1>1, Zenon DEF Quit, RuntimeType
<1>8. AccountsOK(mid, rt) /\ TraceOK(mid, trace) /\ CodesOK(mid)
      BY <1>1, <1>2, ShutdownKeeps DEF Good
<1>9. AccountsOK(procs', rt) /\ TraceOK(procs', trace) /\ CodesOK(procs')
      BY <1>4, <1>5, <1>8, ShutdownKeeps
<1>10. AccountsOK(procs', rt')
       BY <1>7, <1>9 DEF AccountsOK
<1>11. QED BY <1>1, <1>3, <1>6, <1>7, <1>9, <1>10, Zenon DEF SessionInv, SessionTypeOK

LEMMA NextInv ==
  ASSUME SessionInv, [SessionNext]_sessionVars
  PROVE  SessionInv'
<1>1. CASE \E program \in Programs, vmFails \in BOOLEAN : RunWorkload(program, vmFails)
      BY <1>1, RunWorkloadInv
<1>2. CASE \E pid \in 1 .. MaxPid : Kill(pid)
      BY <1>2, KillInv
<1>3. CASE \E b \in BOOLEAN : SetStarted(b)
      BY <1>3, SetStartedInv
<1>4. CASE Reset \/ Quit \/ Step \/ IdleTick \/ ExitCurrent \/ IoStart
      BY <1>4, ResetInv, QuitInv, StepInv, IdleTickInv, ExitCurrentInv, IoStartInv
<1>5. CASE \E s \in Slots : WakeDue(s) \/ Dispatch(s)
      BY <1>5, WakeDueInv, DispatchInv
<1>6. CASE \E preempt \in BOOLEAN : CpuTick(preempt)
      BY <1>6, CpuTickInv
<1>7. CASE UNCHANGED sessionVars
  <2>1. procs' = procs /\ rt' = rt /\ trace' = trace /\ mode' = mode
        BY <1>7 DEF sessionVars
  <2>2. QED BY <2>1, Zenon DEF SessionInv, SessionTypeOK
<1>8. QED BY <1>1, <1>2, <1>3, <1>4, <1>5, <1>6, <1>7 DEF SessionNext

-----------------------------------------------------------------------------
(***************************************************************************)
(* Theorems                                                                *)
(***************************************************************************)
\* The inductive invariant of a session: the types of the tables, and how
\* g_ptable, its pid index, the runtime's slots, current_pid, the accounts and
\* the trace hang together between any two steps of shell.c and runtime_step.
THEOREM SessionInvariant == SessionSpec => []SessionInv
<1>1. SessionInit => SessionInv
      BY InitInv
<1>2. SessionInv /\ [SessionNext]_sessionVars => SessionInv'
      BY NextInv
<1>3. QED BY <1>1, <1>2, PTL DEF SessionSpec

LEMMA InvTablesAgree ==
  ASSUME SessionInv
  PROVE  TablesAgree
<1> SUFFICES ASSUME mode # "quit"
             PROVE  /\ \A s \in Used : procs.entries[s].pid \in Indexed =>
                         FindSlot(procs, procs.entries[s].pid) = s
                    /\ \A s \in Used : procs.entries[s].state \in {"READY", "RUNNING", "BLOCKED"} =>
                         SlotIndex(procs.entries[s].pid) # NoSlot
                    /\ Used # Slots => FreeSlots # {}
                    /\ rt.current # NoPid =>
                         Found(procs, rt.current) /\ Get(procs, rt.current).state = "RUNNING"
    BY Zenon DEF TablesAgree
<1>1. procs \in ProcTable /\ rt \in RuntimeType /\ TablesOK(procs, rt)
      BY InvGood DEF Good
<1>2. ASSUME NEW s \in Used, procs.entries[s].pid \in Indexed
      PROVE  FindSlot(procs, procs.entries[s].pid) = s
      BY <1>1, <1>2, Finds, Zenon DEF Used, TablesOK
<1>3. ASSUME NEW s \in Used, procs.entries[s].state \in {"READY", "RUNNING", "BLOCKED"}
      PROVE  SlotIndex(procs.entries[s].pid) # NoSlot
  <2>1. HasSlot(rt, procs.entries[s].pid)
        BY <1>1, <1>3, LiveFacts, Zenon DEF Used, Live
  <2>2. QED BY <1>1, <2>1, SlotIndexFacts
<1>4. ASSUME Used # Slots PROVE FreeSlots # {}
  <2>1. PICK s \in Slots : ~ procs.entries[s].used
        BY <1>4 DEF Used
  <2>2. QED BY <1>1, <2>1, FreeSlotThere DEF FreeSlots
<1>5. ASSUME rt.current # NoPid
      PROVE  Found(procs, rt.current) /\ Get(procs, rt.current).state = "RUNNING"
      BY <1>1, <1>5, CurrentEntry, SlotsNumbers DEF Found, Get
<1>6. QED BY <1>2, <1>3, <1>4, <1>5, Zenon

\* For tables of any size: g_ptable, pid_to_slot, the runtime's slots and
\* g_slot_by_pid never disagree, and alloc_slot never fails after proc_create.
THEOREM TablesAlwaysAgree == SessionSpec => []TablesAgree
BY SessionInvariant, InvTablesAgree, PTL

LEMMA InvResourcesOwned ==
  ASSUME SessionInv
  PROVE  ResourcesOwned
<1>1. CASE mode = "quit"
  <2>1. procs.stacks = {} /\ procs.vms = {}
        BY <1>1 DEF SessionInv
  <2>2. QED BY <1>1, <2>1 DEF ResourcesOwned
<1>2. CASE mode # "quit"
  <2>1. /\ procs.stacks = {procs.entries[s].pid : s \in Stacked(procs)}
        /\ procs.vms = {procs.entries[s].pid : s \in Mapped(procs)}
        BY <1>2, InvGood, Zenon DEF Good, TablesOK
  <2>2. /\ Stacked(procs) = {t \in Used : mode # "quit" /\ procs.entries[t].state # "EXITED"}
        /\ Mapped(procs) = {t \in Used : mode # "quit" /\ procs.entries[t].pid \in Indexed}
        BY <1>2 DEF Stacked, Mapped, Used
  <2>3. QED BY <2>1, <2>2 DEF ResourcesOwned
<1>3. QED BY <1>1, <1>2

\* No stack and no address space is leaked or released twice, on any way out of a
\* process or of the session.
THEOREM ResourcesAlwaysOwned == SessionSpec => []ResourcesOwned
BY SessionInvariant, InvResourcesOwned, PTL

LEMMA InvTicksAccounted ==
  ASSUME SessionInv
  PROVE  TicksAccounted
<1>1. rt.tick = rt.busy + rt.idle /\ \A s \in Slots : AccountOK(procs.entries[s], rt.tick)
      BY DEF SessionInv, AccountsOK
<1>2. QED BY <1>1, Zenon DEF TicksAccounted, AccountOK, EndOf, Used

\* Turnaround is CPU time, waiting time and sleep, for every process and at every
\* tick, whatever the scheduler does.
THEOREM TicksAlwaysAccounted == SessionSpec => []TicksAccounted
BY SessionInvariant, InvTicksAccounted, PTL

\* As long as trace_event dropped nothing, replaying the log gives the states of
\* the processes.
THEOREM TraceAlwaysReplays == SessionSpec => []TraceReplays
<1>1. SessionInv => TraceReplays
      BY DEF SessionInv, TraceOK, TraceReplays, Used
<1>2. QED BY <1>1, SessionInvariant, PTL

\* No process ends because execute_instruction finds no slot, no instruction or a
\* burst of zero, whatever workload_load accepted.
THEOREM NeverInternalExit == SessionSpec => []NoInternalExit
<1>1. SessionInv => NoInternalExit
      BY DEF SessionInv, CodesOK, NoInternalExit, Used
<1>2. QED BY <1>1, SessionInvariant, PTL
=============================================================================
