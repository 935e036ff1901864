-------------------------------- MODULE Paging --------------------------------
(***************************************************************************)
(* Virtual memory: vm.c, pager.c, frame.c, swap.c, tlb.c and page_table.c, *)
(* with the ACCESS, MMAP and MFREE cases of execute_instruction            *)
(* (runtime.c:326-405).                                                    *)
(*                                                                         *)
(* A page is <<p, v>>, page v of process p.  What a page, a frame or a     *)
(* swap slot holds is known only as far as Zero (as zero-filled) or the    *)
(* page it was written to: data <<p, v>> are bytes that p wrote to v.      *)
(*                                                                         *)
(* Which translation the TLB drops when it is full (least recent tick) and *)
(* which of the frames it was told of a replacement policy chooses are     *)
(* left open: nothing below depends on them.  Module Replacement has the   *)
(* policies.                                                               *)
(***************************************************************************)
EXTENDS Executor, FiniteSets, FiniteSetsExt

CONSTANTS Vpn,        \* virtual page numbers
          ReadOnly,   \* pages of the TEXT and RODATA segments
          HeapStart,  \* first page of the HEAP segment
          HeapPages,  \* VM_SEG_HEAP_MAX_PAGES
          Frame,      \* frames of g_ram
          Slot,       \* slots of g_swap_mem
          TlbSize,    \* VM_TLB_SIZE
          Policies,   \* the replacement policies that are used
          Zero        \* the contents of a zero-filled page

VARIABLES pt,         \* pt[p][v]: pte_t
          owner,      \* owner[f]: frame_meta_t, None when not allocated
          ram,        \* ram[f]: what frame f holds
          slot,       \* slot[s]: swap_meta_t and g_swap_mem of slot s
          tlb,        \* tlb[v]: the frame that the TLB gives for v, or None
          policy,     \* the replacement policy
          tracked,    \* the frames that the policy knows of
          brk,        \* brk[p]: heap pages below heap_break
          heapCall,   \* vm_malloc or vm_free that is under way
          unsaved     \* history: pages (outside the heap) written since they came in

Page == Pid \X Vpn
Heap == HeapStart .. HeapStart + HeapPages - 1

ASSUME PagingAssumption ==
  /\ Vpn \subseteq Nat /\ Frame \subseteq Nat /\ Slot \subseteq Nat
  /\ IsFiniteSet(Vpn) /\ IsFiniteSet(Frame) /\ IsFiniteSet(Slot)
  /\ HeapStart \in Nat /\ HeapPages \in Nat
  /\ ReadOnly \subseteq Vpn \ Heap /\ Heap \subseteq Vpn
  /\ TlbSize \in Nat \ {0}
  /\ "fifo" \in Policies /\ Policies \subseteq {"fifo", "lru", "clock"}
  /\ None \notin Frame \cup Slot \cup Page
  /\ Zero \notin Page

storeVars == <<pt, owner, ram, slot, tlb, policy, tracked, unsaved>>
heapVars == <<brk, heapCall>>
vars == <<executorVars, storeVars, heapVars>>

HeapErrorCode == 5
AccessErrorCode == 6

Access(v, w) == [op |-> "ACCESS", vpn |-> v, write |-> w]
AccessInsn == [op : {"ACCESS"}, vpn : Vpn, write : BOOLEAN]

ASSUME NoInsnAssumption == None \notin AccessInsn

\* page_table_init.  frame = None is !present, slot = None is !in_swap.
Unmapped == [frame |-> None, dirty |-> FALSE, slot |-> None]

NoTlb == [v \in Vpn |-> None]

Allocated == {f \in Frame : owner[f] # None}
FreeFrames == Frame \ Allocated
FreeSlots == {s \in Slot : slot[s].owner = None}

\* vm_init, and vm_proc_init for the processes to come.
PagingInit ==
  /\ ExecutorInit
  /\ pt = [p \in Pid |-> [v \in Vpn |-> Unmapped]]
  /\ owner = [f \in Frame |-> None]
  /\ ram = [f \in Frame |-> Zero]
  /\ slot = [s \in Slot |-> [owner |-> None, data |-> Zero]]
  /\ tlb = NoTlb
  /\ policy = "fifo"
  /\ tracked = {}
  /\ brk = [p \in Pid |-> 0]
  /\ heapCall = None
  /\ unsaved = {}

-----------------------------------------------------------------------------
(***************************************************************************)
(* vm_read_mem and vm_write_mem of a byte of page v of p; w is "write"     *)
(***************************************************************************)
\* page_table_get_segment_default_permissions against the access.
Permitted(v, w) == w => v \notin ReadOnly

\* tlb_insert into TLB t: one translation goes when all entries are in use.
TlbInserted(t, v, f) ==
  LET valid == {u \in Vpn : t[u] # None} IN
  IF v \in valid \/ Cardinality(valid) < TlbSize
  THEN {[t EXCEPT ![v] = f]}
  ELSE {[t EXCEPT ![u] = None, ![v] = f] : u \in valid}

\* The byte is read or written in frame f, which holds d.
Touch(p, v, w, f, d) ==
  /\ ram' = [ram EXCEPT ![f] = IF w THEN <<p, v>> ELSE d]
  /\ unsaved' = IF w /\ v \notin Heap THEN unsaved \cup {<<p, v>>}
                ELSE IF pt[p][v].frame = None THEN unsaved \ {<<p, v>>}
                ELSE unsaved

\* Mutant of TlbHit: only the pager sets the dirty bit.
TlbHitClean(p, v, w) ==
  /\ tlb[v] # None
  /\ Permitted(v, w)
  /\ Touch(p, v, w, tlb[v], ram[tlb[v]])
  /\ UNCHANGED <<pt, owner, slot, tlb, policy, tracked>>

\* The TLB has a translation: the page table is not looked at.
TlbHit(p, v, w) ==
  /\ tlb[v] # None
  /\ Permitted(v, w)
  /\ pt' = [pt EXCEPT ![p][v].dirty = @ \/ w]
  /\ Touch(p, v, w, tlb[v], ram[tlb[v]])
  /\ UNCHANGED <<owner, slot, tlb, policy, tracked>>

\* PAGER_HIT.  lru_update also tracks a frame it did not know of.
PageHit(p, v, w) ==
  LET f == pt[p][v].frame IN
  /\ tlb[v] = None
  /\ f # None
  /\ Permitted(v, w)
  /\ pt' = [pt EXCEPT ![p][v].dirty = @ \/ w]
  /\ Touch(p, v, w, f, ram[f])
  /\ tracked' = IF policy = "lru" THEN tracked \cup {f} ELSE tracked
  /\ tlb' \in TlbInserted(tlb, v, f)
  /\ UNCHANGED <<owner, slot, policy>>

IsMajor(p, v) == pt[p][v].slot # None

Faults(p, v, w) == tlb[v] = None /\ pt[p][v].frame = None /\ Permitted(v, w)

\* Mutants of PageIn: the frame is not cleared; the policy is not told; the
\* slot is not freed.
PageInUncleared(p, v, w, f, pt1, slot1, tlb1) ==
  LET s == pt1[p][v].slot IN
  /\ owner' = [owner EXCEPT ![f] = <<p, v>>]
  /\ Touch(p, v, w, f, IF IsMajor(p, v) THEN slot1[s].data ELSE ram[f])
  /\ slot' = IF IsMajor(p, v) THEN [slot1 EXCEPT ![s].owner = None] ELSE slot1
  /\ pt' = [pt1 EXCEPT ![p][v] = [frame |-> f, dirty |-> w, slot |-> None]]
  /\ tracked' = tracked \cup {f}
  /\ tlb' \in TlbInserted([tlb1 EXCEPT ![v] = None], v, f)
  /\ UNCHANGED policy

PageInUntracked(p, v, w, f, pt1, slot1, tlb1) ==
  LET s == pt1[p][v].slot IN
  /\ owner' = [owner EXCEPT ![f] = <<p, v>>]
  /\ Touch(p, v, w, f, IF IsMajor(p, v) THEN slot1[s].data ELSE Zero)
  /\ slot' = IF IsMajor(p, v) THEN [slot1 EXCEPT ![s].owner = None] ELSE slot1
  /\ pt' = [pt1 EXCEPT ![p][v] = [frame |-> f, dirty |-> w, slot |-> None]]
  /\ tracked' = tracked \ {f}
  /\ tlb' \in TlbInserted([tlb1 EXCEPT ![v] = None], v, f)
  /\ UNCHANGED policy

PageInKeepsSlot(p, v, w, f, pt1, slot1, tlb1) ==
  LET s == pt1[p][v].slot IN
  /\ owner' = [owner EXCEPT ![f] = <<p, v>>]
  /\ Touch(p, v, w, f, IF IsMajor(p, v) THEN slot1[s].data ELSE Zero)
  /\ slot' = slot1
  /\ pt' = [pt1 EXCEPT ![p][v] = [frame |-> f, dirty |-> w, slot |-> None]]
  /\ tracked' = tracked \cup {f}
  /\ tlb' \in TlbInserted([tlb1 EXCEPT ![v] = None], v, f)
  /\ UNCHANGED policy

\* The rest of pager_access_page once frame f is free for the page.  pt1,
\* slot1 and tlb1 are the tables as the eviction, if any, has left them; a
\* major fault was recognised before it.
PageIn(p, v, w, f, pt1, slot1, tlb1) ==
  LET s == pt1[p][v].slot IN
  /\ owner' = [owner EXCEPT ![f] = <<p, v>>]
  /\ Touch(p, v, w, f, IF IsMajor(p, v) THEN slot1[s].data ELSE Zero)
  /\ slot' = IF IsMajor(p, v) THEN [slot1 EXCEPT ![s].owner = None] ELSE slot1
  /\ pt' = [pt1 EXCEPT ![p][v] = [frame |-> f, dirty |-> w, slot |-> None]]
  /\ tracked' = tracked \cup {f}
  /\ tlb' \in TlbInserted([tlb1 EXCEPT ![v] = None], v, f)
  /\ UNCHANGED policy

\* frame_alloc finds a free frame, the first one.
FaultIntoFree(p, v, w) ==
  /\ Faults(p, v, w)
  /\ FreeFrames # {}
  /\ PageIn(p, v, w, Min(FreeFrames), pt, slot, tlb)

\* The page in frame f, which the policy chose.
VictimPte(f) == pt[owner[f][1]][owner[f][2]]

\* A dirty victim needs a slot, and there is none.
NoRoom(f) == VictimPte(f).dirty /\ VictimPte(f).slot = None /\ FreeSlots = {}

\* Mutant of FaultEvicts: the victim stays mapped.
FaultEvictsMapped(p, v, w, f) ==
  LET q == owner[f][1]
      u == owner[f][2]
      e == VictimPte(f)
      s == IF e.slot # None THEN e.slot ELSE Min(FreeSlots) IN
  /\ Faults(p, v, w)
  /\ FreeFrames = {}
  /\ ~ NoRoom(f)
  /\ PageIn(p, v, w, f,
            [pt EXCEPT ![q][u].slot = IF e.dirty THEN s ELSE @],
            IF e.dirty THEN [slot EXCEPT ![s] = [owner |-> <<q, u>>, data |-> ram[f]]]
            ELSE slot,
            [tlb EXCEPT ![u] = None])

\* RAM is full: the victim is written to swap if dirty and unmapped; its frame is freed and
\* given to the faulting page.
FaultEvicts(p, v, w, f) ==
  LET q == owner[f][1]
      u == owner[f][2]
      e == VictimPte(f)
      s == IF e.slot # None THEN e.slot ELSE Min(FreeSlots) IN
  /\ Faults(p, v, w)
  /\ FreeFrames = {}
  /\ ~ NoRoom(f)
  /\ PageIn(p, v, w, f,
            [pt EXCEPT ![q][u] = [frame |-> None, dirty |-> FALSE,
                                  slot |-> IF e.dirty THEN s ELSE e.slot]],
            IF e.dirty THEN [slot EXCEPT ![s] = [owner |-> <<q, u>>, data |-> ram[f]]]
            ELSE slot,
            [tlb EXCEPT ![u] = None])

Fault(p, v, w) ==
  \/ FaultIntoFree(p, v, w)
  \/ \E f \in tracked : FaultEvicts(p, v, w, f)

\* -1 from vm_read_mem or vm_write_mem for the permissions of the page.
Forbidden(v, w) == ~ Permitted(v, w) /\ UNCHANGED storeVars

\* -1 because the policy has nothing to evict.
NoVictim(p, v, w) == Faults(p, v, w) /\ FreeFrames = {} /\ UNCHANGED storeVars

\* -1 because the victim, which the policy no longer tracks, cannot be saved.
VictimUnsaved(p, v, w, f) ==
  /\ Faults(p, v, w)
  /\ FreeFrames = {}
  /\ NoRoom(f)
  /\ tracked' = tracked \ {f}
  /\ UNCHANGED <<pt, owner, ram, slot, tlb, policy, unsaved>>

OutOfMemory(p, v, w) ==
  \/ tracked = {} /\ NoVictim(p, v, w)
  \/ \E f \in tracked : VictimUnsaved(p, v, w, f)

AccessSucceeds(p, v, w) == TlbHit(p, v, w) \/ PageHit(p, v, w) \/ Fault(p, v, w)
AccessFails(p, v, w) == Forbidden(v, w) \/ OutOfMemory(p, v, w)

-----------------------------------------------------------------------------
(***************************************************************************)
(* ACCESS                                                                  *)
(***************************************************************************)
Accesses(p, v, w) ==
  Executing(p, Access(v, w)) /\ heapCall = None /\ UNCHANGED heapVars

\* No page had to be read from swap: complete_immediate.
AccessDone(p, v, w) ==
  /\ Accesses(p, v, w)
  /\ \/ TlbHit(p, v, w)
     \/ PageHit(p, v, w)
     \/ ~ IsMajor(p, v) /\ Fault(p, v, w)
  /\ Complete(p, {})

\* A major fault: the access was made, but p sleeps and will make it again.
AccessSleeps(p, v, w) ==
  /\ Accesses(p, v, w)
  /\ IsMajor(p, v)
  /\ Fault(p, v, w)
  /\ BlockIn(p, Access(v, w))

AccessError(p, v, w) ==
  /\ Accesses(p, v, w)
  /\ AccessFails(p, v, w)
  /\ ExitWith(p, AccessErrorCode)

\* wake_blocked_by_time, VM_PAGE_FAULT_LATENCY ticks later.
PageInDone(p) ==
  /\ heapCall = None
  /\ state[p] = "BLOCKED"
  /\ insn[p] # None
  /\ Wake({p})
  /\ UNCHANGED <<insn, exitCode, storeVars, heapVars>>

-----------------------------------------------------------------------------
(***************************************************************************)
(* MMAP and MFREE: vm_alloc.c reads and writes block headers in the heap   *)
(* through vm_read_mem and vm_write_mem, and moves heap_break.  Nothing    *)
(* else runs during the call.  Which headers it visits is left open.       *)
(***************************************************************************)
InHeapCall(p) == current = p /\ heapCall # None

HeapCallStart(p, op) ==
  /\ current = p
  /\ insn[p] = None
  /\ heapCall = None
  /\ heapCall' = op
  /\ UNCHANGED <<executorVars, storeVars, brk>>

\* read_hdr or write_hdr.  A major fault does not put p to sleep here.
HeapAccess(p, v, w) ==
  /\ InHeapCall(p)
  /\ v \in HeapStart .. HeapStart + brk[p] - 1
  /\ AccessSucceeds(p, v, w)
  /\ UNCHANGED <<executorVars, heapVars>>

\* It fails: vm_malloc returns 0, which ends p; vm_free just returns.
HeapAccessError(p, v, w) ==
  /\ InHeapCall(p)
  /\ v \in HeapStart .. HeapStart + brk[p] - 1
  /\ AccessFails(p, v, w)
  /\ heapCall' = None
  /\ IF heapCall = "MMAP" THEN ExitWith(p, HeapErrorCode) ELSE Complete(p, {})
  /\ UNCHANGED brk

\* heap_grow: the pages are unmapped, whatever they were before.
HeapGrow(p, n) ==
  /\ InHeapCall(p)
  /\ heapCall = "MMAP"
  /\ brk[p] + n <= HeapPages
  /\ brk' = [brk EXCEPT ![p] = @ + n]
  /\ pt' = [pt EXCEPT ![p] =
              [v \in Vpn |-> IF v - HeapStart \in brk[p] .. brk[p] + n - 1
                             THEN [@[v] EXCEPT !.frame = None, !.slot = None]
                             ELSE @[v]]]
  /\ UNCHANGED <<executorVars, owner, ram, slot, tlb, policy, tracked, unsaved, heapCall>>

\* The size is zero or too large, or heap_grow finds no address space.
MmapRefused(p) ==
  /\ InHeapCall(p)
  /\ heapCall = "MMAP"
  /\ heapCall' = None
  /\ ExitWith(p, HeapErrorCode)
  /\ UNCHANGED <<storeVars, brk>>

HeapCallDone(p) ==
  /\ InHeapCall(p)
  /\ heapCall' = None
  /\ Complete(p, {})
  /\ UNCHANGED <<storeVars, brk>>

HeapStep(p) ==
  \/ \E op \in {"MMAP", "MFREE"} : HeapCallStart(p, op)
  \/ \E v \in Heap, w \in BOOLEAN : HeapAccess(p, v, w) \/ HeapAccessError(p, v, w)
  \/ \E n \in 1 .. HeapPages : HeapGrow(p, n)
  \/ MmapRefused(p)
  \/ HeapCallDone(p)

-----------------------------------------------------------------------------
\* pager_set_policy: the new policy is told of every allocated frame.
SetPolicy(name) ==
  /\ heapCall = None
  /\ policy' = name
  /\ tracked' = Allocated
  /\ UNCHANGED <<executorVars, pt, owner, ram, slot, tlb, unsaved, heapVars>>

\* Mutant of Scheduled: the TLB is not flushed.
ScheduledNoFlush(p) ==
  /\ heapCall = None
  /\ Background(p)
  /\ UNCHANGED <<storeVars, heapVars>>

\* The TLB belongs to the process that was dispatched last: tlb_flush.
Scheduled(p) ==
  /\ heapCall = None
  /\ Background(p)
  /\ tlb' = IF current' \in {current, None} THEN tlb ELSE NoTlb
  /\ UNCHANGED <<pt, owner, ram, slot, policy, tracked, unsaved, heapVars>>

\* The PCB of a killed process stays, with its page table and its frames.
KillStep(p) == heapCall = None /\ KillCommand(p) /\ UNCHANGED <<storeVars, heapVars>>

AccessStep(p) ==
  \E v \in Vpn, w \in BOOLEAN :
    AccessDone(p, v, w) \/ AccessSleeps(p, v, w) \/ AccessError(p, v, w)

PagingNext ==
  \/ \E p \in Pid : AccessStep(p) \/ PageInDone(p) \/ HeapStep(p) \/ Scheduled(p) \/ KillStep(p)
  \/ \E name \in Policies : SetPolicy(name)

PagingSpec == PagingInit /\ [][PagingNext]_vars

-----------------------------------------------------------------------------
\* No two pages share a frame or a swap slot: the frame a page table points to
\* was allocated for that page and not given away since, and so was the slot
\* of a page in swap (frame_free and frame_alloc in the eviction, swap_free
\* after the page-in).
PagesOwnTheirStore ==
  \A p \in Pid, v \in Vpn :
    /\ pt[p][v].frame # None => owner[pt[p][v].frame] = <<p, v>>
    /\ pt[p][v].slot # None => slot[pt[p][v].slot].owner = <<p, v>>

\* The TLB is keyed by page number only, yet never leads the running process
\* to the frame of another process or of another page (tlb_flush in dispatch,
\* tlb_flush_entry in the eviction).
TlbIsOwn ==
  \A v \in Vpn : current # None /\ tlb[v] # None => owner[tlb[v]] = <<current, v>>

\* Isolation: a frame holds nothing but what its page was given by its own
\* process, and so does a page in swap; what another page left in the frame or
\* slot was overwritten (the zero fill, swap_in, swap_out).
FramesHoldOwnData ==
  /\ \A f \in Allocated : ram[f] \in {Zero, owner[f]}
  /\ \A s \in Slot \ FreeSlots : slot[s].data \in {Zero, slot[s].owner}

\* A frame that the policy has forgotten (evict drops it before swap turns out
\* to be full) is at least one that could not have been evicted: a clean
\* resident page can always be evicted.
CleanPagesTracked ==
  \A p \in Pid, v \in Vpn :
    pt[p][v].frame # None /\ ~ pt[p][v].dirty => pt[p][v].frame \in tracked

\* Frames and slots do not leak: outside of the heap, one that is allocated is
\* the one its page uses.  (In the heap, heap_grow unmaps pages that a process
\* touched above its break, and leaves their frames and slots allocated.)
NothingLeaks ==
  /\ \A f \in Allocated :
       owner[f][2] \notin Heap => pt[owner[f][1]][owner[f][2]].frame = f
  /\ \A s \in Slot \ FreeSlots :
       slot[s].owner[2] \notin Heap => pt[slot[s].owner[1]][slot[s].owner[2]].slot = s

Contents(p, v) ==
  IF pt[p][v].frame # None THEN ram[pt[p][v].frame]
  ELSE IF pt[p][v].slot # None THEN slot[pt[p][v].slot].data ELSE Zero

\* What was written since the page came in survives everything that happens to
\* the page: eviction, page-in, other processes, kills, a change of policy.
\* The dirty bit that saves it is set on three paths, one of which does not go
\* through the pager.  (Heap pages are left out for heap_grow, see NothingLeaks.)
WritesSurvive ==
  [][\A p \in Pid, v \in Vpn :
       <<p, v>> \in unsaved => Contents(p, v)' = <<p, v>>]_vars

-----------------------------------------------------------------------------
\* pager.c:159, "Clean pages can be safely discarded - their backing content is
\* already correct in swap (or was never modified)": an eviction does not
\* change what a page holds.
EvictionKeepsContents ==
  [][\A p \in Pid, v \in Vpn \ Heap :
       pt[p][v].frame # None /\ pt'[p][v].frame = None =>
         Contents(p, v)' = Contents(p, v)]_vars
=============================================================================
