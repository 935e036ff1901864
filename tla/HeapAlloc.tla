------------------------------ MODULE HeapAlloc ------------------------------
(***************************************************************************)
(* The heap of one process: vm_alloc.c under MMAP and MFREE.               *)
(*                                                                         *)
(* Blocks are a doubly linked list of headers that lie in the paged heap   *)
(* itself, in front of the bytes they describe.  The unit is the word of 4 *)
(* bytes to which sizes are rounded; a header is two words, (size, free)   *)
(* and (next, prev), and may straddle two pages.                           *)
(*                                                                         *)
(* Every header is read and written through the pager, which may refuse    *)
(* for want of frames and swap.  A call is then left half done: vm_malloc  *)
(* returns 0 and the process ends, vm_free returns and the process goes on *)
(* with a list that later calls may not understand.  The heap is followed  *)
(* up to its first interrupted vm_free, a bound of this model.             *)
(*                                                                         *)
(* mem is what the process sees: a word is assumed to read as it was last  *)
(* written.  The pager does not keep that promise for a page that was      *)
(* swapped in, only read and evicted again (EvictionKeepsContents of       *)
(* module Paging is violated); what follows is about vm_alloc.c on a       *)
(* memory that does.                                                       *)
(*                                                                         *)
(* A call is one action, for nothing runs during it.  Any live allocation  *)
(* may be freed, as the interface allows; the runtime's MFREE frees the    *)
(* latest one.  A process writes (ACCESS) only into what it was given.     *)
(***************************************************************************)
EXTENDS Naturals, Sequences, FiniteSets, FiniteSetsExt, SequencesExt

CONSTANTS PageWords,   \* VM_PAGE_SIZE in words
          HeapStart,   \* VM_SEG_HEAP_START in words
          HeapPages,   \* VM_SEG_HEAP_MAX_PAGES
          Sizes        \* the sizes asked for, in words

ASSUME HeapAssumption ==
  /\ PageWords \in Nat \ {0} /\ HeapPages \in Nat
  /\ HeapStart \in Nat \ {0} /\ HeapStart % PageWords = 0
  /\ Sizes \subseteq Nat

VARIABLES mem,     \* mem[a]: the word at a, a pair of 16-bit halves
          brk,     \* heap_break
          live,    \* history: the allocations the process holds
          status   \* "running", "ended", or "torn" by an interrupted vm_free

heapVars == <<mem, brk, live, status>>

HdrSize == 2
HeapEnd == HeapStart + HeapPages * PageWords
HeapAddr == HeapStart .. HeapEnd - 1
Blank == <<0, 0>>

HeapInit ==
  /\ mem = [a \in HeapAddr |-> Blank]
  /\ brk = HeapStart
  /\ live = {}
  /\ status = "running"

-----------------------------------------------------------------------------
Word(m, a) == IF a \in HeapAddr THEN m[a] ELSE Blank

\* read_hdr
Hdr(m, a) == [size |-> Word(m, a)[1], free |-> Word(m, a)[2] # 0,
              next |-> Word(m, a + 1)[1], prev |-> Word(m, a + 1)[2]]

\* A write_hdr that is to be made: header h at a, while the break is at top.
Write(a, h, top) == [at |-> a, hdr |-> h, top |-> top]

\* The first word of the header reaches the memory, and the second.
StoredHalf(m, w) == [m EXCEPT ![w.at] = <<w.hdr.size, IF w.hdr.free THEN 1 ELSE 0>>]
Stored(m, w) == [StoredHalf(m, w) EXCEPT ![w.at + 1] = <<w.hdr.next, w.hdr.prev>>]

Done(m, ws) == FoldLeft(Stored, m, ws)

\* What is in memory when the write after the first k of ws has failed.
HalfDone(m, ws, k) ==
  LET m0 == Done(m, SubSeq(ws, 1, k))
      w  == ws[k + 1] IN
  {m0} \cup IF w.at % PageWords = PageWords - 1 THEN {StoredHalf(m0, w)} ELSE {}

\* The blocks in the order of the list, as the loops of vm_alloc_malloc and
\* vm_alloc_get_stats visit them.  A link that does not lead forward ends the
\* sequence here; the loops would not end.
Chain(m, top) ==
  LET from[a \in HeapAddr] ==
        LET next == Hdr(m, a).next IN
        IF next \in a + 1 .. top - 1 THEN <<a>> \o from[next] ELSE <<a>>
  IN from[HeapStart]

Fits(m, a, n) == Hdr(m, a).free /\ Hdr(m, a).size >= n
Fitting(m, top, n) == SelectSeq(Chain(m, top), LAMBDA a : Fits(m, a, n))

\* Mutants of TakeWrites: the rest counts its own header as space; a block that
\* is not split is not marked.
TakeWritesOverlap(m, b, n, top) ==
  LET h    == Hdr(m, b)
      rest == b + HdrSize + n
      ws   == <<Write(rest, [size |-> h.size - n, free |-> TRUE,
                             next |-> h.next, prev |-> b], top),
                Write(b, [h EXCEPT !.size = n, !.free = FALSE, !.next = rest], top)>> IN
  IF h.size >= n + HdrSize + 1
  THEN IF h.next = 0 THEN ws
       ELSE Append(ws, Write(h.next, [Hdr(Done(m, ws), h.next) EXCEPT !.prev = rest], top))
  ELSE <<Write(b, [h EXCEPT !.free = FALSE], top)>>

TakeWritesUnmarked(m, b, n, top) ==
  LET h    == Hdr(m, b)
      rest == b + HdrSize + n
      ws   == <<Write(rest, [size |-> h.size - n - HdrSize, free |-> TRUE,
                             next |-> h.next, prev |-> b], top),
                Write(b, [h EXCEPT !.size = n, !.free = FALSE, !.next = rest], top)>> IN
  IF h.size >= n + HdrSize + 1
  THEN IF h.next = 0 THEN ws
       ELSE Append(ws, Write(h.next, [Hdr(Done(m, ws), h.next) EXCEPT !.prev = rest], top))
  ELSE <<Write(b, h, top)>>

\* Block b is taken for n words, and split if the rest is worth a header.
TakeWrites(m, b, n, top) ==
  LET h    == Hdr(m, b)
      rest == b + HdrSize + n
      ws   == <<Write(rest, [size |-> h.size - n - HdrSize, free |-> TRUE,
                             next |-> h.next, prev |-> b], top),
                Write(b, [h EXCEPT !.size = n, !.free = FALSE, !.next = rest], top)>> IN
  IF h.size >= n + HdrSize + 1
  THEN IF h.next = 0 THEN ws
       ELSE Append(ws, Write(h.next, [Hdr(Done(m, ws), h.next) EXCEPT !.prev = rest], top))
  ELSE <<Write(b, [h EXCEPT !.free = FALSE], top)>>

-----------------------------------------------------------------------------
\* The heap gets its first two pages on the first call.
FirstTop == IF brk = HeapStart THEN HeapStart + 2 * PageWords ELSE brk
FirstWrites ==
  IF brk = HeapStart
  THEN <<Write(HeapStart, [size |-> 2 * PageWords - HdrSize, free |-> TRUE,
                           next |-> 0, prev |-> 0], FirstTop)>>
  ELSE <<>>

\* heap_grow makes room for n words behind the last block.
GrownTop(n) == FirstTop + PageWords * ((HdrSize + n + PageWords - 1) \div PageWords)
GrowWrites(m, n) ==
  LET b == Last(Chain(m, FirstTop)) IN
  <<Write(FirstTop, [size |-> GrownTop(n) - FirstTop - HdrSize, free |-> TRUE,
                     next |-> 0, prev |-> b], GrownTop(n)),
    Write(b, [Hdr(m, b) EXCEPT !.next = FirstTop], GrownTop(n))>>

\* The writes of vm_alloc_malloc(n), and the block it takes.
MallocPlan(n) ==
  LET m0  == Done(mem, FirstWrites)
      fit == Fitting(m0, FirstTop, n)
      ws1 == GrowWrites(m0, n)
      m1  == Done(m0, ws1)
      b1  == Head(Fitting(m1, GrownTop(n), n)) IN
  IF fit # <<>>
  THEN [block |-> Head(fit), writes |-> FirstWrites \o TakeWrites(m0, Head(fit), n, FirstTop)]
  ELSE [block |-> b1, writes |-> FirstWrites \o ws1 \o TakeWrites(m1, b1, n, GrownTop(n))]

HasRoom(n) ==
  /\ n > 0
  /\ FirstTop <= HeapEnd
  /\ Fitting(Done(mem, FirstWrites), FirstTop, n) # <<>> \/ GrownTop(n) <= HeapEnd

Malloc(n) ==
  LET plan == MallocPlan(n) IN
  /\ status = "running"
  /\ HasRoom(n)
  /\ mem' = Done(mem, plan.writes)
  /\ brk' = Last(plan.writes).top
  /\ live' = live \cup {[addr |-> plan.block + HdrSize, size |-> n]}
  /\ UNCHANGED status

\* 0, and exit code 5: a size of zero, or no address space.
MallocRefused(n) ==
  /\ status = "running"
  /\ ~ HasRoom(n)
  /\ status' = "ended"
  /\ IF n > 0 /\ FirstTop <= HeapEnd
     THEN mem' = Done(mem, FirstWrites) /\ brk' = FirstTop
     ELSE UNCHANGED <<mem, brk>>
  /\ UNCHANGED live

\* 0, and exit code 5: the pager refused, in the search for a block or when a
\* header was to be written or to be read for it.
MallocFails(n) ==
  LET ws == MallocPlan(n).writes IN
  /\ status = "running"
  /\ n > 0 /\ FirstTop <= HeapEnd
  /\ \/ mem' \in {mem, Done(mem, FirstWrites)} /\ brk' = FirstTop
     \/ HasRoom(n) /\ \E k \in 0 .. Len(ws) - 1 :
          mem' \in HalfDone(mem, ws, k) /\ brk' = ws[k + 1].top
  /\ status' = "ended"
  /\ UNCHANGED live

-----------------------------------------------------------------------------
\* Mutants of JoinNext and JoinPrev: a block in use is joined; the header that
\* disappears is not counted; the block before is never joined.
JoinNextAny(m, b) ==
  LET h == Hdr(m, b)
      g == Hdr(m, h.next)
      j == Write(b, [h EXCEPT !.size = @ + HdrSize + g.size, !.next = g.next], brk) IN
  IF h.next = 0 THEN <<>>
  ELSE IF g.next = 0 THEN <<j>>
  ELSE <<j, Write(g.next, [Hdr(Done(m, <<j>>), g.next) EXCEPT !.prev = b], brk)>>

JoinNextShort(m, b) ==
  LET h == Hdr(m, b)
      g == Hdr(m, h.next)
      j == Write(b, [h EXCEPT !.size = @ + g.size, !.next = g.next], brk) IN
  IF h.next = 0 \/ ~ g.free THEN <<>>
  ELSE IF g.next = 0 THEN <<j>>
  ELSE <<j, Write(g.next, [Hdr(Done(m, <<j>>), g.next) EXCEPT !.prev = b], brk)>>

JoinPrevNever(m, b) == <<>>

\* The block behind b, and the block before it, are joined with it if free.
JoinNext(m, b) ==
  LET h == Hdr(m, b)
      g == Hdr(m, h.next)
      j == Write(b, [h EXCEPT !.size = @ + HdrSize + g.size, !.next = g.next], brk) IN
  IF h.next = 0 \/ ~ g.free THEN <<>>
  ELSE IF g.next = 0 THEN <<j>>
  ELSE <<j, Write(g.next, [Hdr(Done(m, <<j>>), g.next) EXCEPT !.prev = b], brk)>>

JoinPrev(m, b) ==
  LET h == Hdr(m, b)
      g == Hdr(m, h.prev)
      j == Write(h.prev, [g EXCEPT !.size = @ + HdrSize + h.size, !.next = h.next], brk) IN
  IF h.prev = 0 \/ ~ g.free THEN <<>>
  ELSE IF h.next = 0 THEN <<j>>
  ELSE <<j, Write(h.next, [Hdr(Done(m, <<j>>), h.next) EXCEPT !.prev = h.prev], brk)>>

\* The writes of vm_alloc_free for the allocation at a.
FreeWrites(a) ==
  LET b   == a - HdrSize
      h   == Hdr(mem, b)
      ws1 == <<Write(b, [h EXCEPT !.free = TRUE], brk)>>
      ws2 == ws1 \o JoinNext(Done(mem, ws1), b) IN
  IF h.free THEN <<>> ELSE ws2 \o JoinPrev(Done(mem, ws2), b)

\* Words that belong to no header of the list are data or left-overs; no link
\* leads to them, and the model does not keep them.
Listed(m) ==
  LET headers == ToSet(Chain(m, brk)) IN
  [a \in HeapAddr |-> IF {a, a - 1} \cap headers = {} THEN Blank ELSE m[a]]

Free(l) ==
  /\ status = "running"
  /\ l \in live
  /\ mem' = Listed(Done(mem, FreeWrites(l.addr)))
  /\ live' = live \ {l}
  /\ UNCHANGED <<brk, status>>

\* The pager refused: vm_alloc_free returns where it is.
FreeFails(l) ==
  LET ws == FreeWrites(l.addr) IN
  /\ status = "running"
  /\ l \in live
  /\ \E k \in 0 .. Len(ws) - 1 : mem' \in HalfDone(mem, ws, k)
  /\ live' = live \ {l}
  /\ status' = "torn"
  /\ UNCHANGED brk

HeapNext ==
  \/ \E n \in Sizes : Malloc(n) \/ MallocRefused(n) \/ MallocFails(n)
  \/ \E l \in live : Free(l) \/ FreeFails(l)

HeapSpec == HeapInit /\ [][HeapNext]_heapVars

-----------------------------------------------------------------------------
Blocks == IF brk = HeapStart THEN <<>> ELSE Chain(mem, brk)
Capacity(b) == Hdr(mem, b).size
IsFree(b) == Hdr(mem, b).free

\* vm_alloc_get_stats
Stats ==
  LET free == SelectSeq(Blocks, IsFree) IN
  [total |-> Len(Blocks),
   free  |-> Len(free),
   allocated |-> Len(Blocks) - Len(free),
   external  |-> FoldLeft(LAMBDA n, b : n + Capacity(b), 0, free)]

Block(l) == l.addr - HdrSize
Payload(l) == l.addr .. l.addr + l.size - 1
Extent(l) == Block(l) .. l.addr + l.size - 1

\* No two allocations of a process share a byte, headers included, and all of
\* them lie below the break: what vm_malloc returns is the caller's alone.
LiveDisjoint ==
  /\ \A l \in live : Extent(l) \subseteq HeapStart .. brk - 1
  /\ \A l1, l2 \in live : l1 # l2 => Extent(l1) \cap Extent(l2) = {}

\* Whatever call comes next, no header it writes lies in an allocation that
\* the call does not free: splitting, growing and joining follow only links
\* that lead to headers, never into bytes a process has been given.
PayloadsUntouched ==
  status = "running" =>
    /\ \A n \in Sizes : HasRoom(n) =>
         \A w \in ToSet(MallocPlan(n).writes), l \in live :
           {w.at, w.at + 1} \cap Payload(l) = {}
    /\ \A freed \in live : \A w \in ToSet(FreeWrites(freed.addr)), l \in live \ {freed} :
           {w.at, w.at + 1} \cap Payload(l) = {}

\* "All should coalesce back into a single block" (test_vm_alloc.c): no two
\* neighbours are both free, across any order of frees and also where the heap
\* has grown behind a free block.
Coalesced ==
  status = "running" =>
    \A i \in 1 .. Len(Blocks) - 1 : ~ (IsFree(Blocks[i]) /\ IsFree(Blocks[i + 1]))

\* The statistics account for the whole heap: as many allocated blocks as the
\* process holds, and every byte below the break in a header, in a free block
\* or in the block of an allocation.  No byte is lost to a split or a join.
StatsExact ==
  status = "running" =>
    /\ Stats.allocated = Cardinality(live)
    /\ brk - HeapStart = HdrSize * Stats.total + Stats.external
                          + FoldSet(LAMBDA l, n : n + Capacity(Block(l)), 0, live)

\* Every allocation stays in the list, marked as taken and large enough, so
\* that it is not given away again; one interrupted vm_free, with its header
\* written by half, does not yet change that.
LiveListed ==
  status # "ended" =>
    \A l \in live :
      /\ Block(l) \in ToSet(Blocks)
      /\ ~ IsFree(Block(l))
      /\ Capacity(Block(l)) >= l.size
=============================================================================
