----------------------------- MODULE PagingProofs -----------------------------
(***************************************************************************)
(* Proofs for module Paging, for any processes, pages, frames, slots and   *)
(* sizes of the TLB, and whatever frame a replacement policy chooses; and, *)
(* at the end, that the three policies of module Replacement choose one    *)
(* that it may choose.                                                     *)
(***************************************************************************)
EXTENDS Replacement, TLAPS, WellFoundedInduction, FiniteSetTheorems

-----------------------------------------------------------------------------
(***************************************************************************)
(* The inductive invariant                                                 *)
(*                                                                         *)
(* It is stated for any page tables t, owners o, contents r, slots s,      *)
(* tracked frames k and unsaved pages U, because it holds not only between *)
(* two steps but also in the middle of a fault, when the victim is gone    *)
(* and its frame is nobody's.                                              *)
(***************************************************************************)
Pte == [frame : Frame \cup {None}, dirty : BOOLEAN, slot : Slot \cup {None}]
SlotType == [owner : Page \cup {None}, data : Page \cup {Zero}]

StoreType(t, o, r, s, k, U) ==
  /\ t \in [Pid -> [Vpn -> Pte]]
  /\ o \in [Frame -> Page \cup {None}]
  /\ r \in [Frame -> Page \cup {Zero}]
  /\ s \in [Slot -> SlotType]
  /\ k \in SUBSET Frame
  /\ U \in SUBSET Page

\* What a page table entry points to belongs to its page; a page in memory is
\* not in swap too, and can be evicted if it is clean.
PageSound(t, o, s, k, p, v) ==
  /\ t[p][v].frame # None =>
       /\ o[t[p][v].frame] = <<p, v>>
       /\ t[p][v].slot = None
       /\ ~ t[p][v].dirty => t[p][v].frame \in k
  /\ t[p][v].slot # None => s[t[p][v].slot].owner = <<p, v>>

\* A frame that is nobody's is unknown to the policy; another one holds data of
\* its owner, which outside of the heap still uses it.
FrameSound(t, o, r, k, f) ==
  /\ o[f] = None => f \notin k
  /\ o[f] # None =>
       /\ r[f] \in {Zero, o[f]}
       /\ o[f][2] \notin Heap => t[o[f][1]][o[f][2]].frame = f

SlotSound(t, s, x) ==
  s[x].owner # None =>
    /\ s[x].data \in {Zero, s[x].owner}
    /\ s[x].owner[2] \notin Heap => t[s[x].owner[1]][s[x].owner[2]].slot = x

\* A page that was written since it came in is in memory and dirty, or in swap.
Kept(t, r, s, p, v) ==
  /\ v \notin Heap
  /\ IF t[p][v].frame # None
     THEN t[p][v].dirty /\ r[t[p][v].frame] = <<p, v>>
     ELSE t[p][v].slot # None /\ s[t[p][v].slot].data = <<p, v>>

Sound(t, o, r, s, k, U) ==
  /\ StoreType(t, o, r, s, k, U)
  /\ \A p \in Pid, v \in Vpn : PageSound(t, o, s, k, p, v)
  /\ \A f \in Frame : FrameSound(t, o, r, k, f)
  /\ \A x \in Slot : SlotSound(t, s, x)
  /\ \A p \in Pid, v \in Vpn : <<p, v>> \in U => Kept(t, r, s, p, v)

StoreInv == Sound(pt, owner, ram, slot, tracked, unsaved)

PagingInv ==
  /\ tlb \in [Vpn -> Frame \cup {None}]
  /\ brk \in [Pid -> 0 .. HeapPages]
  /\ StoreInv
  /\ TlbIsOwn

LEMMA LeastIn ==
  ASSUME NEW S, S \subseteq Nat, S # {}
  PROVE  \E x \in S : \A y \in S : x <= y
<1> DEFINE R == {ss \in Nat \X Nat : ss[1] < ss[2]}
<1>1. IsWellFoundedOn(R, Nat)
      BY Zenon, NatLessThanWellFounded DEF OpToRel
<1>2. \E x \in S : \A y \in S : ~ (<<y, x>> \in R)
  <2> HIDE DEF R
  <2>1. QED BY <1>1, WFMin, Zenon
<1>3. PICK x \in S : \A y \in S : ~ (<<y, x>> \in R)
      BY <1>2
<1>4. ASSUME NEW y \in S PROVE x <= y
  <2>1. x \in Nat /\ y \in Nat
        OBVIOUS
  <2>2. y < x => <<y, x>> \in R
        BY <2>1
  <2>3. QED BY <1>3, <2>1, <2>2
<1>5. QED BY <1>4

\* The first free frame or slot is one of the free ones.
LEMMA MinIn ==
  ASSUME NEW S, S \subseteq Nat, S # {}
  PROVE  Min(S) \in S
BY LeastIn, Zenon DEF Min

LEMMA PairParts == \A a, p, v : a = <<p, v>> => a[1] = p /\ a[2] = v
OBVIOUS

\* A page is a pair, and no page, frame or slot is one of the special values.
LEMMA PageFacts ==
  /\ None \notin Frame /\ None \notin Slot
  /\ \A p \in Pid, v \in Vpn : <<p, v>> \in Page /\ <<p, v>> # None /\ <<p, v>> # Zero
  /\ \A a \in Page : \E p \in Pid, v \in Vpn : a = <<p, v>>
  /\ \A p, q, u, v : <<p, v>> = <<q, u>> => p = q /\ v = u
<1>1. \A p \in Pid, v \in Vpn : <<p, v>> \in Page
      BY DEF Page
<1>2. None \notin Frame /\ None \notin Slot /\ None \notin Page /\ Zero \notin Page
      BY PagingAssumption
<1>3. \A a \in Page : \E p \in Pid, v \in Vpn : a = <<p, v>>
      BY DEF Page
<1>4. \A p, q, u, v : <<p, v>> = <<q, u>> => p = q /\ v = u
      OBVIOUS
<1>5. QED BY <1>1, <1>2, <1>3, <1>4

-----------------------------------------------------------------------------
(***************************************************************************)
(* What the pager does to the store                                        *)
(***************************************************************************)
\* The owner of frame f, page u of q, is evicted: the page is unmapped, and
\* saved in slot x if it is dirty.
Saved(t, r, s, f, q, u, t1, s1, x) ==
  /\ t[q][u].slot = x \/ (t[q][u].slot = None /\ s[x].owner = None)
  /\ t1[q][u].slot = x
  /\ s1[x].owner = <<q, u>> /\ s1[x].data = r[f]
  /\ \A y \in Slot \ {x} : s1[y] = s[y]

EvictedTo(t, r, s, f, q, u, t1, s1) ==
  /\ t1[q][u].frame = None
  /\ \A p \in Pid, v \in Vpn : p # q \/ v # u => t1[p][v] = t[p][v]
  /\ \/ ~ t[q][u].dirty /\ s1 = s /\ t1[q][u].slot = t[q][u].slot
     \/ t[q][u].dirty /\ \E x \in Slot : Saved(t, r, s, f, q, u, t1, s1, x)

LEMMA EvictionSound ==
  ASSUME NEW t, NEW o, NEW r, NEW s, NEW k, NEW U, Sound(t, o, r, s, k, U),
         NEW f \in Frame, NEW q \in Pid, NEW u \in Vpn, o[f] = <<q, u>>,
         NEW t1, NEW s1, EvictedTo(t, r, s, f, q, u, t1, s1),
         StoreType(t1, [o EXCEPT ![f] = None], r, s1, k \ {f}, U)
  PROVE  Sound(t1, [o EXCEPT ![f] = None], r, s1, k \ {f}, U)
<1> DEFINE o1 == [o EXCEPT ![f] = None]
           k1 == k \ {f}
<1> USE PageFacts
<1>0. /\ StoreType(t, o, r, s, k, U)
      /\ \A p \in Pid, v \in Vpn : PageSound(t, o, s, k, p, v)
      /\ \A g \in Frame : FrameSound(t, o, r, k, g)
      /\ \A x \in Slot : SlotSound(t, s, x)
      /\ \A p \in Pid, v \in Vpn : <<p, v>> \in U => Kept(t, r, s, p, v)
      BY DEF Sound
<1>1. StoreType(t1, o1, r, s1, k1, U)
      OBVIOUS
<1>a. o1[f] = None /\ \A g \in Frame \ {f} : o1[g] = o[g]
      BY <1>0 DEF StoreType
<1>b. \A p \in Pid, v \in Vpn : t[p][v] \in Pte /\ t1[p][v] \in Pte
      BY <1>0, <1>1 DEF StoreType
<1>c. /\ t1[q][u].frame = None
      /\ \A p \in Pid, v \in Vpn : p # q \/ v # u => t1[p][v] = t[p][v]
      BY DEF EvictedTo
<1>d. r[f] \in {Zero, <<q, u>>} /\ (u \notin Heap => t[q][u].frame = f)
  <2>1. FrameSound(t, o, r, k, f) /\ o[f] # None /\ o[f][1] = q /\ o[f][2] = u
        BY <1>0
  <2>2. QED BY <2>1 DEF FrameSound
\* Only the slot of the victim changes.
<1>e. ASSUME NEW x \in Slot, s1[x] # s[x]
      PROVE  /\ t1[q][u].slot = x /\ s1[x].owner = <<q, u>> /\ s1[x].data = r[f]
             /\ t[q][u].slot = x \/ s[x].owner = None
  <2>1. PICK y \in Slot : Saved(t, r, s, f, q, u, t1, s1, y)
        BY <1>e DEF EvictedTo
  <2>2. x = y
        BY <1>e, <2>1 DEF Saved
  <2>3. QED BY <2>1, <2>2 DEF Saved
<1>f. t[q][u].slot # None => t1[q][u].slot = t[q][u].slot
      BY DEF EvictedTo, Saved
<1>g. \/ t1[q][u].slot = t[q][u].slot /\ s1 = s /\ ~ t[q][u].dirty
      \/ t1[q][u].slot \in Slot /\ s1[t1[q][u].slot].owner = <<q, u>>
         /\ s1[t1[q][u].slot].data = r[f]
      BY DEF EvictedTo, Saved
<1>h. ASSUME NEW p \in Pid, NEW v \in Vpn, p # q \/ v # u, t[p][v].slot # None
      PROVE  s1[t[p][v].slot] = s[t[p][v].slot]
  <2>1. t[p][v].slot \in Slot
        BY <1>b, <1>h DEF Pte
  <2>2. s[t[p][v].slot].owner = <<p, v>>
        BY <1>0, <1>h DEF PageSound
  <2>3. t[q][u].slot # t[p][v].slot
    <3>1. t[q][u].slot # None => s[t[q][u].slot].owner = <<q, u>>
          BY <1>0, Zenon DEF PageSound
    <3>2. QED BY <1>h, <2>2, <3>1
  <2>4. QED BY <1>e, <2>1, <2>2, <2>3, Zenon
<1> HIDE DEF o1, k1
<1>2. ASSUME NEW p \in Pid, NEW v \in Vpn PROVE PageSound(t1, o1, s1, k1, p, v)
  <2>1. PageSound(t, o, s, k, p, v)
        BY <1>0
  <2>2. CASE p = q /\ v = u
        BY <1>c, <1>g, <2>1, <2>2, Zenon DEF PageSound
  <2>3. CASE p # q \/ v # u
    <3>1. t1[p][v] = t[p][v] /\ t[p][v] \in Pte
          BY <1>b, <1>c, <2>3
    <3>2. t[p][v].frame # f
          BY <2>1, <2>3 DEF PageSound
    <3>3. t[p][v].slot # None => s1[t[p][v].slot] = s[t[p][v].slot]
          BY <1>h, <2>3
    <3>4. QED BY <1>a, <2>1, <3>1, <3>2, <3>3, Zenon DEF PageSound, Pte, k1
  <2>4. QED BY <2>2, <2>3
<1>3. ASSUME NEW g \in Frame PROVE FrameSound(t1, o1, r, k1, g)
  <2>1. FrameSound(t, o, r, k, g)
        BY <1>0
  <2>2. CASE g = f \/ o[g] = None
        BY <1>a, <2>1, <2>2 DEF FrameSound, k1
  <2>3. CASE g # f /\ o[g] # None
    <3>1. PICK p \in Pid, v \in Vpn : o[g] = <<p, v>>
      <4>1. o[g] \in Page
            BY <1>0, <2>3 DEF StoreType
      <4>2. QED BY <4>1
    <3>2. r[g] \in {Zero, o[g]} /\ (v \notin Heap => t[p][v].frame = g)
          BY <2>1, <2>3, <3>1 DEF FrameSound
    <3>3. v \notin Heap => p # q \/ v # u
          BY <1>d, <2>3, <3>2
    <3>4. v \notin Heap => t1[p][v].frame = g
          BY <1>c, <3>2, <3>3
    <3>5. o1[g] = <<p, v>>
          BY <1>a, <2>3, <3>1
    <3>6. o1[g] # None /\ o1[g][1] = p /\ o1[g][2] = v
          BY <3>5
    <3>7. QED BY <3>1, <3>2, <3>4, <3>5, <3>6 DEF FrameSound
  <2>4. QED BY <2>2, <2>3
<1>4. ASSUME NEW x \in Slot PROVE SlotSound(t1, s1, x)
  <2>1. SlotSound(t, s, x)
        BY <1>0
  <2>2. CASE s1[x] = s[x] /\ s[x].owner = None
        BY <2>2 DEF SlotSound
  <2>3. CASE s1[x] = s[x] /\ s[x].owner # None
    <3>1. PICK p \in Pid, v \in Vpn : s[x].owner = <<p, v>>
      <4>1. s[x].owner \in Page
            BY <1>0, <2>3 DEF StoreType, SlotType
      <4>2. QED BY <4>1
    <3>2. v \notin Heap => t[p][v].slot = x
          BY <2>1, <2>3, <3>1 DEF SlotSound
    <3>3. v \notin Heap => t1[p][v].slot = x
          BY <1>c, <1>f, <3>2
    <3>4. QED BY <2>1, <2>3, <3>1, <3>3 DEF SlotSound
  <2>4. CASE s1[x] # s[x]
        BY <1>d, <1>e, <2>4 DEF SlotSound
  <2>5. QED BY <2>2, <2>3, <2>4
<1>5. ASSUME NEW p \in Pid, NEW v \in Vpn, <<p, v>> \in U PROVE Kept(t1, r, s1, p, v)
  <2>1. Kept(t, r, s, p, v)
        BY <1>0, <1>5
  <2>2. CASE p = q /\ v = u
    <3>1. t[q][u].frame = f /\ f # None
          BY <1>d, <2>1, <2>2 DEF Kept
    <3>2. t[q][u].dirty /\ r[f] = <<q, u>> /\ u \notin Heap
          BY <2>1, <2>2, <3>1 DEF Kept
    <3>3. QED BY <1>c, <1>g, <2>2, <3>2, Zenon DEF Kept
  <2>3. CASE p # q \/ v # u
    <3>1. t1[p][v] = t[p][v]
          BY <1>c, <2>3
    <3>2. t[p][v].slot # None => s1[t[p][v].slot] = s[t[p][v].slot]
          BY <1>h, <2>3
    <3>3. QED BY <2>1, <3>1, <3>2, Zenon DEF Kept
  <2>4. QED BY <2>2, <2>3
<1>6. QED BY <1>1, <1>2, <1>3, <1>4, <1>5, Zenon DEF Sound, o1, k1

\* Frame f is free and page v of p is not in memory; it comes from slot x or, if
\* x is None, it is zero-filled.
FreeFor(t, o, f, p, v, x) ==
  /\ o[f] = None /\ t[p][v].frame = None
  /\ x # None => x = t[p][v].slot
  /\ x = None => t[p][v].slot = None \/ v \in Heap

\* The page comes into the frame; it is dirty if it is written at once.
PagedIn(t, o, r, s, k, U, f, p, v, x, t1, o1, r1, s1, k1, U1) ==
  /\ FreeFor(t, o, f, p, v, x)
  /\ o1 = [o EXCEPT ![f] = <<p, v>>] /\ k1 = k \cup {f}
  /\ t1[p][v].frame = f /\ t1[p][v].slot = None
  /\ \A q \in Pid, u \in Vpn : q # p \/ u # v => t1[q][u] = t[q][u]
  /\ r1[f] = IF t1[p][v].dirty THEN <<p, v>> ELSE IF x # None THEN s[x].data ELSE Zero
  /\ \A g \in Frame \ {f} : r1[g] = r[g]
  /\ x # None => s1[x].owner = None
  /\ \A y \in Slot \ {x} : s1[y] = s[y]
  /\ U1 \subseteq U \cup {<<p, v>>}
  /\ <<p, v>> \in U1 => t1[p][v].dirty /\ v \notin Heap

LEMMA PageInSound ==
  ASSUME NEW t, NEW o, NEW r, NEW s, NEW k, NEW U, Sound(t, o, r, s, k, U),
         NEW f \in Frame, NEW p \in Pid, NEW v \in Vpn, NEW x,
         NEW t1, NEW o1, NEW r1, NEW s1, NEW k1, NEW U1,
         PagedIn(t, o, r, s, k, U, f, p, v, x, t1, o1, r1, s1, k1, U1),
         StoreType(t1, o1, r1, s1, k1, U1)
  PROVE  Sound(t1, o1, r1, s1, k1, U1)
<1> USE PageFacts
<1>0. /\ StoreType(t, o, r, s, k, U)
      /\ \A q \in Pid, u \in Vpn : PageSound(t, o, s, k, q, u)
      /\ \A g \in Frame : FrameSound(t, o, r, k, g)
      /\ \A y \in Slot : SlotSound(t, s, y)
      /\ \A q \in Pid, u \in Vpn : <<q, u>> \in U => Kept(t, r, s, q, u)
      BY DEF Sound
<1>9. /\ o[f] = None /\ t[p][v].frame = None /\ k1 = k \cup {f}
      /\ x # None => x = t[p][v].slot
      /\ x = None => t[p][v].slot = None \/ v \in Heap
      BY DEF PagedIn, FreeFor
<1>1. StoreType(t1, o1, r1, s1, k1, U1)
      OBVIOUS
<1>a. o1[f] = <<p, v>> /\ \A g \in Frame \ {f} : o1[g] = o[g]
      BY <1>9, <1>0 DEF StoreType, PagedIn
<1>b. \A q \in Pid, u \in Vpn : t[q][u] \in Pte
      BY <1>9, <1>0 DEF StoreType
<1>c. /\ t1[p][v].frame = f /\ t1[p][v].slot = None
      /\ \A q \in Pid, u \in Vpn : q # p \/ u # v => t1[q][u] = t[q][u]
      /\ \A g \in Frame \ {f} : r1[g] = r[g]
      BY DEF PagedIn
<1>d. x # None => x \in Slot /\ s[x].owner = <<p, v>> /\ s[x].data \in {Zero, <<p, v>>}
  <2>1. x # None => x \in Slot
        BY <1>9, <1>b DEF Pte
  <2>2. x # None => s[x].owner = <<p, v>>
    <3>1. PageSound(t, o, s, k, p, v)
          BY <1>0
    <3>2. QED BY <1>9, <3>1 DEF PageSound
  <2>3. QED BY <1>9, <1>0, <2>1, <2>2, Zenon DEF SlotSound
<1>e. r1[f] \in {Zero, <<p, v>>}
      BY <1>9, <1>d DEF PagedIn
\* Only the slot that the page came from changes.
<1>g. ASSUME NEW y \in Slot, s1[y] # s[y] PROVE y = x /\ s1[y].owner = None
      BY <1>9, <1>g, PageFacts DEF PagedIn
<1>h. ASSUME NEW q \in Pid, NEW u \in Vpn, q # p \/ u # v, t[q][u].slot # None
      PROVE  s1[t[q][u].slot] = s[t[q][u].slot]
  <2>1. t[q][u].slot \in Slot
        BY <1>9, <1>b, <1>h DEF Pte
  <2>2. s[t[q][u].slot].owner = <<q, u>>
        BY <1>9, <1>0, <1>h, Zenon DEF PageSound
  <2>3. t[q][u].slot # x
        BY <1>9, <1>d, <1>h, <2>2
  <2>4. QED BY <1>9, <1>g, <2>1, <2>3
<1>2. ASSUME NEW q \in Pid, NEW u \in Vpn PROVE PageSound(t1, o1, s1, k1, q, u)
  <2>1. PageSound(t, o, s, k, q, u)
        BY <1>9, <1>0
  <2>2. CASE q = p /\ u = v
        BY <1>9, <1>a, <1>c, <2>2 DEF PageSound
  <2>3. CASE q # p \/ u # v
    <3>1. t1[q][u] = t[q][u] /\ t[q][u] \in Pte
          BY <1>9, <1>b, <1>c, <2>3
    <3>2. t[q][u].frame # f
      <4>1. f # None /\ <<q, u>> # None
            OBVIOUS
      <4>2. QED BY <1>9, <2>1, <4>1, Zenon DEF PageSound
    <3>3. t[q][u].slot # None => s1[t[q][u].slot] = s[t[q][u].slot]
          BY <1>9, <1>h, <2>3
    <3>4. QED BY <1>9, <1>a, <2>1, <3>1, <3>2, <3>3, Zenon DEF PageSound, Pte
  <2>4. QED BY <1>9, <2>2, <2>3
<1>3. ASSUME NEW g \in Frame PROVE FrameSound(t1, o1, r1, k1, g)
  <2>1. FrameSound(t, o, r, k, g)
        BY <1>9, <1>0
  <2>2. CASE g = f
    <3>1. o1[g] = <<p, v>>
          BY <1>9, <1>a, <2>2
    <3>2. o1[g] # None /\ o1[g][1] = p /\ o1[g][2] = v
          BY <3>1
    <3>3. QED BY <1>9, <1>c, <1>e, <2>2, <3>1, <3>2 DEF FrameSound
  <2>3. CASE g # f /\ o[g] = None
        BY <1>9, <1>a, <2>1, <2>3 DEF FrameSound
  <2>4. CASE g # f /\ o[g] # None
    <3>1. PICK q \in Pid, u \in Vpn : o[g] = <<q, u>>
      <4>1. o[g] \in Page
            BY <1>9, <1>0, <2>4 DEF StoreType
      <4>2. QED BY <4>1
    <3>2. r[g] \in {Zero, o[g]} /\ (u \notin Heap => t[q][u].frame = g)
          BY <1>9, <2>1, <2>4, <3>1 DEF FrameSound
    <3>3. u \notin Heap => q # p \/ u # v
          BY <1>9, <3>2
    <3>4. u \notin Heap => t1[q][u].frame = g
          BY <1>9, <1>c, <3>2, <3>3
    <3>5. o1[g] = <<q, u>> /\ r1[g] = r[g]
          BY <1>9, <1>a, <1>c, <2>4, <3>1
    <3>6. o1[g] # None /\ o1[g][1] = q /\ o1[g][2] = u
          BY <3>5
    <3>7. QED BY <3>1, <3>2, <3>4, <3>5, <3>6 DEF FrameSound
  <2>5. QED BY <1>9, <2>2, <2>3, <2>4
<1>4. ASSUME NEW y \in Slot PROVE SlotSound(t1, s1, y)
  <2>1. SlotSound(t, s, y)
        BY <1>9, <1>0
  <2>2. CASE s1[y].owner = None
        BY <1>9, <2>2 DEF SlotSound
  <2>3. CASE s1[y].owner # None
    <3>0. s1[y] = s[y] /\ s[y].owner # None
          BY <1>9, <1>g, <2>3
    <3>1. PICK q \in Pid, u \in Vpn : s[y].owner = <<q, u>>
      <4>1. s[y].owner \in Page
            BY <1>9, <1>0, <3>0, Zenon DEF StoreType, SlotType
      <4>2. QED BY <4>1
    <3>2. u \notin Heap => t[q][u].slot = y
      <4>1. s[y].owner[1] = q /\ s[y].owner[2] = u
            BY <3>1, PairParts, Zenon
      <4>2. QED BY <2>1, <3>0, <4>1, Zenon DEF SlotSound
    <3>3. u \notin Heap => q # p \/ u # v
      <4>1. SUFFICES ASSUME u \notin Heap, q = p, u = v PROVE FALSE
            OBVIOUS
      <4>2. t[p][v].slot = y
            BY <3>2, <4>1
      <4>3. x = y
            BY <1>9, <4>1, <4>2
      <4>4. s1[y].owner = None
            BY <4>2, <4>3, Zenon DEF PagedIn
      <4>5. QED BY <1>9, <2>3, <4>4
    <3>4. u \notin Heap => t1[q][u].slot = y
          BY <1>9, <1>c, <3>2, <3>3
    <3>5. QED BY <1>9, <2>1, <3>0, <3>1, <3>4 DEF SlotSound
  <2>4. QED BY <1>9, <2>2, <2>3
<1>5. ASSUME NEW q \in Pid, NEW u \in Vpn, <<q, u>> \in U1 PROVE Kept(t1, r1, s1, q, u)
  <2>1. CASE q = p /\ u = v
    <3>1. t1[p][v].dirty /\ v \notin Heap
          BY <1>9, <1>5, <2>1, Zenon DEF PagedIn
    <3>2. r1[f] = <<p, v>>
          BY <3>1 DEF PagedIn
    <3>3. QED BY <1>9, <1>c, <2>1, <3>1, <3>2, Zenon DEF Kept
  <2>2. CASE q # p \/ u # v
    <3>1. <<q, u>> \in U
          BY <1>9, <1>5, <2>2, Zenon DEF PagedIn
    <3>2. Kept(t, r, s, q, u)
          BY <1>9, <1>0, <3>1, Zenon
    <3>3. t1[q][u] = t[q][u] /\ t[q][u] \in Pte
          BY <1>9, <1>b, <1>c, <2>2
    <3>4. t[q][u].slot # None => s1[t[q][u].slot] = s[t[q][u].slot]
          BY <1>9, <1>h, <2>2
    <3>5. t[q][u].frame # None => r1[t[q][u].frame] = r[t[q][u].frame]
      <4>0. PageSound(t, o, s, k, q, u)
            BY <1>9, <1>0
      <4>1. t[q][u].frame # f
        <5>1. f # None /\ <<q, u>> # None
              OBVIOUS
        <5>2. QED BY <1>9, <4>0, <5>1, Zenon DEF PageSound
      <4>2. t[q][u].frame # None => t[q][u].frame \in Frame
            BY <3>3, Zenon DEF Pte
      <4>3. QED BY <1>9, <1>c, <4>1, <4>2, Zenon
    <3>6. QED BY <3>2, <3>3, <3>4, <3>5, Zenon DEF Kept
  <2>3. QED BY <1>9, <2>1, <2>2, Zenon
<1>6. QED BY <1>9, <1>1, <1>2, <1>3, <1>4, <1>5 DEF Sound

\* The new entry e of the page, the contents c of the frame, and the pages that
\* are unsaved after the access.
Entered(s, U, f, p, v, x, e, c, U1) ==
  /\ e \in Pte /\ e.frame = f /\ e.slot = None
  /\ c = IF e.dirty THEN <<p, v>> ELSE IF x # None THEN s[x].data ELSE Zero
  /\ U1 \subseteq U \cup {<<p, v>>}
  /\ <<p, v>> \in U1 => e.dirty /\ v \notin Heap

\* A page that was unsaved comes back as it was written.
LEMMA PageInKeeps ==
  ASSUME NEW t, NEW o, NEW r, NEW s, NEW k, NEW U, Sound(t, o, r, s, k, U),
         NEW f, NEW p \in Pid, NEW v \in Vpn, NEW x, FreeFor(t, o, f, p, v, x),
         NEW e, NEW c, NEW U1, Entered(s, U, f, p, v, x, e, c, U1), <<p, v>> \in U
  PROVE  c = <<p, v>>
<1>1. Kept(t, r, s, p, v)
      BY DEF Sound
<1>2. QED BY <1>1 DEF Kept, FreeFor, Entered

\* The owner of frame f, page v of p, is read or written where it is.
Touched(t, r, k, U, f, p, v, t1, r1, k1, U1) ==
  /\ t1[p][v].frame = t[p][v].frame /\ t1[p][v].slot = t[p][v].slot
  /\ t[p][v].dirty => t1[p][v].dirty
  /\ \A q \in Pid, u \in Vpn : q # p \/ u # v => t1[q][u] = t[q][u]
  /\ r1[f] = r[f] \/ (r1[f] = <<p, v>> /\ t1[p][v].dirty)
  /\ \A g \in Frame \ {f} : r1[g] = r[g]
  /\ k \subseteq k1 /\ k1 \subseteq k \cup {f}
  /\ U1 \subseteq U \cup {<<p, v>>}
  /\ <<p, v>> \in U1 =>
       <<p, v>> \in U \/ (r1[f] = <<p, v>> /\ t1[p][v].dirty /\ v \notin Heap)

LEMMA TouchSound ==
  ASSUME NEW t, NEW o, NEW r, NEW s, NEW k, NEW U, Sound(t, o, r, s, k, U),
         NEW f \in Frame, NEW p \in Pid, NEW v \in Vpn, o[f] = <<p, v>>,
         NEW t1, NEW r1, NEW k1, NEW U1, Touched(t, r, k, U, f, p, v, t1, r1, k1, U1),
         StoreType(t1, o, r1, s, k1, U1)
  PROVE  Sound(t1, o, r1, s, k1, U1)
<1> USE PageFacts
<1>0. /\ StoreType(t, o, r, s, k, U)
      /\ \A q \in Pid, u \in Vpn : PageSound(t, o, s, k, q, u)
      /\ \A g \in Frame : FrameSound(t, o, r, k, g)
      /\ \A x \in Slot : SlotSound(t, s, x)
      /\ \A q \in Pid, u \in Vpn : <<q, u>> \in U => Kept(t, r, s, q, u)
      BY DEF Sound
<1>b. \A q \in Pid, u \in Vpn : t[q][u] \in Pte /\ t1[q][u] \in Pte
      BY <1>0 DEF StoreType
<1>c. /\ \A q \in Pid, u \in Vpn :
           t1[q][u].frame = t[q][u].frame /\ t1[q][u].slot = t[q][u].slot
      /\ \A q \in Pid, u \in Vpn : t[q][u].dirty => t1[q][u].dirty
      /\ \A q \in Pid, u \in Vpn : q # p \/ u # v => t1[q][u] = t[q][u]
      /\ \A g \in Frame \ {f} : r1[g] = r[g]
      /\ k \subseteq k1 /\ k1 \subseteq k \cup {f}
      BY Zenon DEF Touched
<1>d. r[f] \in {Zero, <<p, v>>} /\ (v \notin Heap => t[p][v].frame = f)
  <2>1. FrameSound(t, o, r, k, f) /\ o[f] # None /\ o[f][1] = p /\ o[f][2] = v
        BY <1>0, PairParts, Zenon
  <2>2. QED BY <2>1, Zenon DEF FrameSound
<1>2. ASSUME NEW q \in Pid, NEW u \in Vpn PROVE PageSound(t1, o, s, k1, q, u)
  <2>1. PageSound(t, o, s, k, q, u)
        BY <1>0, Zenon
  <2>2. CASE q = p /\ u = v
        BY <1>c, <2>1, <2>2, Zenon DEF PageSound
  <2>3. CASE q # p \/ u # v
    <3>1. t1[q][u] = t[q][u]
          BY <1>c, <2>3, Zenon
    <3>2. QED BY <1>c, <2>1, <3>1, Zenon DEF PageSound
  <2>4. QED BY <2>2, <2>3, Zenon
<1>3. ASSUME NEW g \in Frame PROVE FrameSound(t1, o, r1, k1, g)
  <2>1. FrameSound(t, o, r, k, g)
        BY <1>0, Zenon
  <2>2. CASE o[g] = None
    <3>1. g \notin k
          BY <2>1, <2>2 DEF FrameSound
    <3>2. g \notin k1
          BY <1>c, <2>2, <3>1, Zenon
    <3>3. QED BY <2>2, <3>2 DEF FrameSound
  <2>3. CASE o[g] # None
    <3>1. PICK q \in Pid, u \in Vpn : o[g] = <<q, u>>
      <4>1. o[g] \in Page
            BY <1>0, <2>3, Zenon DEF StoreType
      <4>2. QED BY <4>1
    <3>2. o[g][1] = q /\ o[g][2] = u
          BY <3>1, PairParts, Zenon
    <3>3. r[g] \in {Zero, o[g]} /\ (u \notin Heap => t[q][u].frame = g)
          BY <2>1, <2>3, <3>2, Zenon DEF FrameSound
    <3>4. r1[g] \in {Zero, o[g]}
          BY <1>c, <3>3, Zenon DEF Touched
    <3>5. u \notin Heap => t1[q][u].frame = g
          BY <1>c, <3>3, Zenon
    <3>6. QED BY <2>3, <3>2, <3>4, <3>5, Zenon DEF FrameSound
  <2>4. QED BY <2>2, <2>3
<1>4. ASSUME NEW x \in Slot PROVE SlotSound(t1, s, x)
  <2>1. SlotSound(t, s, x)
        BY <1>0, Zenon
  <2>2. CASE s[x].owner = None
        BY <2>2, Zenon DEF SlotSound
  <2>3. CASE s[x].owner # None
    <3>1. PICK q \in Pid, u \in Vpn : s[x].owner = <<q, u>>
      <4>1. s[x].owner \in Page
            BY <1>0, <2>3, Zenon DEF StoreType, SlotType
      <4>2. QED BY <4>1, Zenon
    <3>2. s[x].owner[1] = q /\ s[x].owner[2] = u
          BY <3>1, PairParts, Zenon
    <3>3. t1[q][u].slot = t[q][u].slot
          BY <1>c, Zenon
    <3>4. QED BY <2>1, <3>2, <3>3, Zenon DEF SlotSound
  <2>4. QED BY <2>2, <2>3, Zenon
<1>5. ASSUME NEW q \in Pid, NEW u \in Vpn, <<q, u>> \in U1 PROVE Kept(t1, r1, s, q, u)
  <2>0. v \notin Heap => t1[p][v].frame = f /\ f # None
        BY <1>c, <1>d, Zenon
  <2>1. CASE q = p /\ u = v /\ r1[f] = <<p, v>> /\ t1[p][v].dirty /\ v \notin Heap
        BY <2>0, <2>1, Zenon DEF Kept
  <2>2. CASE ~ (q = p /\ u = v /\ r1[f] = <<p, v>> /\ t1[p][v].dirty /\ v \notin Heap)
    <3>1. <<q, u>> \in U
          BY <1>5, <2>2, Zenon DEF Touched
    <3>2. Kept(t, r, s, q, u) /\ PageSound(t, o, s, k, q, u)
          BY <1>0, <3>1, Zenon
    <3>3. t[q][u].frame # None => r1[t[q][u].frame] = r[t[q][u].frame]
      <4>1. SUFFICES ASSUME t[q][u].frame # None PROVE r1[t[q][u].frame] = r[t[q][u].frame]
            BY Zenon
      <4>2. t[q][u].frame \in Frame
            BY <1>b, <4>1 DEF Pte
      <4>3. CASE t[q][u].frame # f
            BY <1>c, <4>2, <4>3, Zenon
      <4>4. CASE t[q][u].frame = f
        <5>1. q = p /\ u = v
          <6>1. o[f] = <<q, u>> /\ o[f] = <<p, v>>
                BY <3>2, <4>1, <4>4, Zenon DEF PageSound
          <6>2. o[f][1] = q /\ o[f][2] = u /\ o[f][1] = p /\ o[f][2] = v
                BY <6>1, PairParts, Zenon
          <6>3. QED BY <6>2, Zenon
        <5>2. r1[f] = r[f]
              BY <2>2, <3>2, <5>1, Zenon DEF Kept, Touched
        <5>3. QED BY <4>4, <5>2, Zenon
      <4>5. QED BY <4>3, <4>4, Zenon
    <3>4. /\ t1[q][u].frame = t[q][u].frame /\ t1[q][u].slot = t[q][u].slot
          /\ t[q][u].dirty => t1[q][u].dirty
          BY <1>c, Zenon
    <3>5. QED BY <3>2, <3>3, <3>4, Zenon DEF Kept
  <2>3. QED BY <2>1, <2>2, Zenon
<1>6. QED BY <1>2, <1>3, <1>4, <1>5, Zenon DEF Sound

-----------------------------------------------------------------------------
(***************************************************************************)
(* The updates of the model are such changes                               *)
(***************************************************************************)
LEMMA EntryUpdate ==
  ASSUME NEW T, NEW t \in [Pid -> [Vpn -> T]], NEW p \in Pid, NEW v \in Vpn, NEW e \in T
  PROVE  LET t1 == [t EXCEPT ![p][v] = e]
         IN  /\ t1 \in [Pid -> [Vpn -> T]]
             /\ t1[p][v] = e
             /\ \A q \in Pid, u \in Vpn : q # p \/ u # v => t1[q][u] = t[q][u]
OBVIOUS

\* The eviction of FaultEvicts.
Evict(t, o, r, s, k, f, q, u, x, t1, o1, s1, k1) ==
  /\ t[q][u].dirty => /\ x \in Slot
                      /\ t[q][u].slot = x \/ (t[q][u].slot = None /\ s[x].owner = None)
  /\ t1 = [t EXCEPT ![q][u] = [frame |-> None, dirty |-> FALSE,
                               slot |-> IF t[q][u].dirty THEN x ELSE t[q][u].slot]]
  /\ o1 = [o EXCEPT ![f] = None]
  /\ s1 = IF t[q][u].dirty THEN [s EXCEPT ![x] = [owner |-> <<q, u>>, data |-> r[f]]] ELSE s
  /\ k1 = k \ {f}

LEMMA EvictionStep ==
  ASSUME NEW t, NEW o, NEW r, NEW s, NEW k, NEW U, Sound(t, o, r, s, k, U),
         NEW f \in Frame, NEW q \in Pid, NEW u \in Vpn, o[f] = <<q, u>>, NEW x,
         NEW t1, NEW o1, NEW s1, NEW k1, Evict(t, o, r, s, k, f, q, u, x, t1, o1, s1, k1)
  PROVE  Sound(t1, o1, r, s1, k1, U)
<1> DEFINE d  == t[q][u].dirty
           e  == [frame |-> None, dirty |-> FALSE, slot |-> IF d THEN x ELSE t[q][u].slot]
<1>0. /\ t \in [Pid -> [Vpn -> Pte]] /\ s \in [Slot -> SlotType]
      /\ r \in [Frame -> Page \cup {Zero}] /\ o \in [Frame -> Page \cup {None}]
      BY DEF Sound, StoreType
<1>1. e \in Pte /\ t[q][u].dirty \in BOOLEAN
      BY <1>0 DEF Pte, Evict
<1>2. /\ t1 \in [Pid -> [Vpn -> Pte]] /\ t1[q][u] = e
      /\ \A p \in Pid, v \in Vpn : p # q \/ v # u => t1[p][v] = t[p][v]
  <2>1. t1 = [t EXCEPT ![q][u] = e]
        BY DEF Evict
  <2> HIDE DEF e
  <2>2. QED BY <1>0, <1>1, <2>1, EntryUpdate
<1>3. [owner |-> <<q, u>>, data |-> r[f]] \in SlotType
      BY <1>0, PageFacts DEF SlotType
<1>4. s1 \in [Slot -> SlotType] /\ o1 \in [Frame -> Page \cup {None}] /\ o1[f] = None
      BY <1>0, <1>3, Zenon DEF Evict
<1>5. d => Saved(t, r, s, f, q, u, t1, s1, x)
  <2> SUFFICES ASSUME d PROVE Saved(t, r, s, f, q, u, t1, s1, x)
      BY Zenon
  <2>1. t1[q][u].slot = x
        BY <1>2
  <2>2. s1[x] = [owner |-> <<q, u>>, data |-> r[f]] /\ \A y \in Slot \ {x} : s1[y] = s[y]
        BY <1>0 DEF Evict
  <2>3. QED BY <2>1, <2>2 DEF Saved, Evict
<1>6. ~ d => s1 = s /\ t1[q][u].slot = t[q][u].slot
      BY <1>2 DEF Evict
<1>7. t1[q][u].frame = None /\ t1[q][u].slot = IF d THEN x ELSE t[q][u].slot
  <2>1. e.frame = None /\ e.slot = IF d THEN x ELSE t[q][u].slot
        BY Zenon
  <2>2. t1[q][u] = e
        BY <1>2, Zenon
  <2>3. QED BY <2>1, <2>2, Zenon
<1> HIDE DEF e
<1>8. EvictedTo(t, r, s, f, q, u, t1, s1)
  <2>1. \A p \in Pid, v \in Vpn : p # q \/ v # u => t1[p][v] = t[p][v]
        BY <1>2, Zenon
  <2>2. d => x \in Slot
        BY DEF Evict
  <2>3. QED BY <1>1, <2>1, <2>2, <1>5, <1>6, <1>7, Zenon DEF EvictedTo
<1>9. StoreType(t1, o1, r, s1, k1, U)
      BY <1>2, <1>4, Zenon DEF Sound, StoreType, Evict
<1>10. QED BY <1>8, <1>9, EvictionSound, Zenon DEF Evict

\* A translation that is inserted in the TLB displaces at most others.
LEMMA TlbInsertedFacts ==
  ASSUME NEW b \in [Vpn -> Frame \cup {None}], NEW v \in Vpn, NEW f \in Frame,
         NEW n \in TlbInserted(b, v, f)
  PROVE  /\ n \in [Vpn -> Frame \cup {None}]
         /\ \A u \in Vpn : n[u] # None => (u = v /\ n[u] = f) \/ n[u] = b[u]
BY DEF TlbInserted

-----------------------------------------------------------------------------
(***************************************************************************)
(* vm_read_mem and vm_write_mem                                            *)
(***************************************************************************)
TlbType == tlb \in [Vpn -> Frame \cup {None}]

\* The translations in the TLB are those of process p.
TlbOf(p) == \A v \in Vpn : tlb[v] # None => owner[tlb[v]] = <<p, v>>

Memory(p) == StoreInv /\ TlbType /\ TlbOf(p)

\* What a step does to the pages that were written.
Survive ==
  \A p \in Pid, v \in Vpn : <<p, v>> \in unsaved => Contents(p, v)' = <<p, v>>

\* Pages that stay unsaved survive.
LEMMA KeptSurvive ==
  ASSUME StoreInv', NEW p \in Pid, NEW v \in Vpn, <<p, v>> \in unsaved'
  PROVE  Contents(p, v)' = <<p, v>>
<1>1. Kept(pt', ram', slot', p, v)
      BY DEF StoreInv, Sound
<1>2. QED BY <1>1, Zenon DEF Kept, Contents

\* An access that finds the page in frame f, through the TLB or the page table.
Hit(p, v, w, f) ==
  /\ pt' = [pt EXCEPT ![p][v].dirty = @ \/ w]
  /\ Touch(p, v, w, f, ram[f])
  /\ UNCHANGED <<owner, slot>>
  /\ tracked \subseteq tracked' /\ tracked' \subseteq tracked \cup {f}

LEMMA HitMemory ==
  ASSUME NEW p \in Pid, NEW v \in Vpn, NEW w \in BOOLEAN, NEW f \in Frame,
         Memory(p), owner[f] = <<p, v>>, Hit(p, v, w, f)
  PROVE  StoreInv' /\ Survive
<1>0. Sound(pt, owner, ram, slot, tracked, unsaved)
      BY Zenon DEF Memory, StoreInv
<1>1. StoreType(pt, owner, ram, slot, tracked, unsaved)
      BY <1>0, Zenon DEF Sound
<1> DEFINE e == [pt[p][v] EXCEPT !.dirty = @ \/ w]
<1>2. pt[p][v] \in Pte /\ e \in Pte
  <2>1. pt[p][v] \in Pte
        BY <1>1 DEF StoreType
  <2>2. (pt[p][v].dirty \/ w) \in BOOLEAN
        OBVIOUS
  <2>3. QED BY <2>1, <2>2 DEF Pte
<1>3. /\ e.frame = pt[p][v].frame /\ e.slot = pt[p][v].slot
      /\ pt[p][v].dirty \/ w => e.dirty
      BY <1>2 DEF Pte
<1>4. pt' = [pt EXCEPT ![p][v] = e]
      BY <1>1 DEF StoreType, Hit
<1> HIDE DEF e
<1>5. /\ pt' \in [Pid -> [Vpn -> Pte]] /\ pt'[p][v] = e
      /\ \A q \in Pid, u \in Vpn : q # p \/ u # v => pt'[q][u] = pt[q][u]
  <2>1. pt \in [Pid -> [Vpn -> Pte]]
        BY <1>1 DEF StoreType
  <2>2. LET t1 == [pt EXCEPT ![p][v] = e]
        IN  /\ t1 \in [Pid -> [Vpn -> Pte]] /\ t1[p][v] = e
            /\ \A q \in Pid, u \in Vpn : q # p \/ u # v => t1[q][u] = pt[q][u]
        BY <1>2, <2>1, EntryUpdate
  <2>3. QED BY <1>4, <2>2
<1>6. /\ ram' \in [Frame -> Page \cup {Zero}]
      /\ ram'[f] = IF w THEN <<p, v>> ELSE ram[f]
      /\ \A g \in Frame \ {f} : ram'[g] = ram[g]
      BY <1>1, PageFacts DEF StoreType, Touch, Hit
<1>7. /\ unsaved' \subseteq unsaved \cup {<<p, v>>}
      /\ <<p, v>> \in unsaved' =>
           <<p, v>> \in unsaved \/ (ram'[f] = <<p, v>> /\ pt'[p][v].dirty /\ v \notin Heap)
      BY <1>1, <1>3, <1>5, <1>6 DEF StoreType, Touch, Hit
<1>8. Touched(pt, ram, tracked, unsaved, f, p, v, pt', ram', tracked', unsaved')
      BY <1>3, <1>5, <1>6, <1>7, Zenon DEF Touched, Hit
<1>9. Sound(pt', owner, ram', slot, tracked', unsaved')
  <2>1. StoreType(pt', owner, ram', slot, tracked', unsaved')
        BY <1>1, <1>5, <1>6, <1>7, PageFacts DEF StoreType, Hit
  <2>2. QED BY <1>0, <1>8, <2>1, TouchSound, Zenon
<1>10. StoreInv'
      BY <1>9 DEF StoreInv, Hit
<1>11. ASSUME NEW q \in Pid, NEW u \in Vpn, <<q, u>> \in unsaved
       PROVE  <<q, u>> \in unsaved'
  <2>1. Kept(pt, ram, slot, q, u)
        BY <1>0, <1>11, Zenon DEF Sound
  <2>2. CASE q # p \/ u # v
        BY <1>11, <2>2, PageFacts DEF Touch, Hit
  <2>3. CASE q = p /\ u = v
    <3>0. FrameSound(pt, owner, ram, tracked, f)
          BY <1>0, Zenon DEF Sound
    <3>1. /\ FrameSound(pt, owner, ram, tracked, f) /\ owner[f] # None
          /\ owner[f][1] = p /\ owner[f][2] = v /\ f # None
          BY <1>0, <3>0, PageFacts
    <3>2. pt[p][v].frame = f
          BY <2>1, <2>3, <3>1, Zenon DEF FrameSound, Kept
    <3>3. QED BY <1>11, <2>3, <3>1, <3>2 DEF Touch, Hit
  <2>4. QED BY <2>2, <2>3
<1>12. QED BY <1>10, <1>11, KeptSurvive DEF Survive

LEMMA TlbHitMemory ==
  ASSUME NEW p \in Pid, NEW v \in Vpn, NEW w \in BOOLEAN, Memory(p), TlbHit(p, v, w)
  PROVE  Memory(p)' /\ Survive
<1>1. tlb[v] \in Frame /\ owner[tlb[v]] = <<p, v>>
      BY DEF Memory, TlbType, TlbOf, TlbHit
<1>2. StoreInv' /\ Survive
  <2>1. Hit(p, v, w, tlb[v])
        BY DEF TlbHit, Hit
  <2>2. QED BY <1>1, <2>1, HitMemory
<1>3. TlbType' /\ TlbOf(p)'
      BY DEF Memory, TlbType, TlbOf, TlbHit
<1>4. QED BY <1>2, <1>3 DEF Memory

LEMMA PageHitMemory ==
  ASSUME NEW p \in Pid, NEW v \in Vpn, NEW w \in BOOLEAN, Memory(p), PageHit(p, v, w)
  PROVE  Memory(p)' /\ Survive
<1> DEFINE f == pt[p][v].frame
<1>1. PageSound(pt, owner, slot, tracked, p, v) /\ pt[p][v] \in Pte
      BY DEF Memory, StoreInv, Sound, StoreType
<1>2. f \in Frame /\ owner[f] = <<p, v>>
      BY <1>1 DEF PageHit, PageSound, Pte
<1>3. Hit(p, v, w, f) /\ UNCHANGED owner /\ tlb' \in TlbInserted(tlb, v, f)
      BY DEF PageHit, Hit
<1> HIDE DEF f
<1>4. StoreInv' /\ Survive
      BY <1>2, <1>3, HitMemory
<1>5. /\ TlbType'
      /\ \A u \in Vpn : tlb'[u] # None => (u = v /\ tlb'[u] = f) \/ tlb'[u] = tlb[u]
      BY <1>2, <1>3, TlbInsertedFacts DEF Memory, TlbType
<1>6. TlbOf(p)'
      BY <1>2, <1>3, <1>5 DEF Memory, TlbOf
<1>7. QED BY <1>4, <1>5, <1>6, Zenon DEF Memory

\* After a fault the TLB leads to the frame of the page that came in, and to
\* frames that are still whose they were.
LEMMA TlbAfterFault ==
  ASSUME NEW o \in [Frame -> Page \cup {None}], NEW b \in [Vpn -> Frame \cup {None}],
         NEW f \in Frame, NEW p \in Pid, NEW v \in Vpn,
         \A u \in Vpn : b[u] # None => b[u] # f /\ o[b[u]] = <<p, u>>,
         owner' = [o EXCEPT ![f] = <<p, v>>],
         tlb' \in TlbInserted([b EXCEPT ![v] = None], v, f)
  PROVE  TlbType' /\ TlbOf(p)'
<1> DEFINE b1 == [b EXCEPT ![v] = None]
<1>1. b1 \in [Vpn -> Frame \cup {None}] /\ \A u \in Vpn : b1[u] # None => b1[u] = b[u]
      OBVIOUS
<1>a. tlb' \in TlbInserted(b1, v, f)
      OBVIOUS
<1> HIDE DEF b1
<1>2. /\ tlb' \in [Vpn -> Frame \cup {None}]
      /\ \A u \in Vpn : tlb'[u] # None => (u = v /\ tlb'[u] = f) \/ tlb'[u] = b1[u]
      BY <1>1, <1>a, TlbInsertedFacts
<1>3. ASSUME NEW u \in Vpn, tlb'[u] # None
      PROVE  owner'[tlb'[u]] = <<p, u>>
  <2>1. CASE u = v /\ tlb'[u] = f
        BY <2>1
  <2>2. CASE tlb'[u] = b1[u]
        BY <1>1, <1>2, <1>3, <2>2
  <2>3. QED BY <1>2, <1>3, <2>1, <2>2
<1>4. QED BY <1>2, <1>3 DEF TlbType, TlbOf

\* PageIn with the tables t, o, s and k that the eviction, if any, has left.
PageInto(p, v, w, f, t, o, s, k, x) ==
  /\ pt' = [t EXCEPT ![p][v] = [frame |-> f, dirty |-> w, slot |-> None]]
  /\ owner' = [o EXCEPT ![f] = <<p, v>>]
  /\ ram' = [ram EXCEPT ![f] = IF w THEN <<p, v>> ELSE IF x # None THEN s[x].data ELSE Zero]
  /\ slot' = IF x # None THEN [s EXCEPT ![x].owner = None] ELSE s
  /\ tracked' = k \cup {f}
  /\ unsaved' = IF w /\ v \notin Heap THEN unsaved \cup {<<p, v>>} ELSE unsaved \ {<<p, v>>}

LEMMA PageIntoMemory ==
  ASSUME NEW p \in Pid, NEW v \in Vpn, NEW w \in BOOLEAN, NEW f \in Frame,
         NEW t, NEW o, NEW s, NEW k, NEW x, Sound(t, o, ram, s, k, unsaved),
         FreeFor(t, o, f, p, v, x), PageInto(p, v, w, f, t, o, s, k, x)
  PROVE  StoreInv' /\ Survive
<1> DEFINE e == [frame |-> f, dirty |-> w, slot |-> None]
           c == IF w THEN <<p, v>> ELSE IF x # None THEN s[x].data ELSE Zero
<1>1. e \in Pte /\ e.frame = f /\ e.slot = None /\ e.dirty = w
      BY DEF Pte
<1>2. /\ c = IF e.dirty THEN <<p, v>> ELSE IF x # None THEN s[x].data ELSE Zero
      /\ pt' = [t EXCEPT ![p][v] = e] /\ ram' = [ram EXCEPT ![f] = c]
      BY DEF PageInto
<1>3. /\ unsaved' \subseteq unsaved \cup {<<p, v>>}
      /\ <<p, v>> \in unsaved' => e.dirty /\ v \notin Heap
      /\ \A z \in unsaved : z # <<p, v>> => z \in unsaved'
      BY <1>1 DEF PageInto
<1> HIDE DEF e, c
<1>4. Entered(s, unsaved, f, p, v, x, e, c, unsaved')
      BY <1>1, <1>2, <1>3 DEF Entered
<1>5. StoreType(t, o, ram, s, k, unsaved) /\ t[p][v] \in Pte
      BY DEF Sound, StoreType
<1>a. x # None => x \in Slot /\ s[x] \in SlotType
      BY <1>5 DEF StoreType, Pte, FreeFor
<1>b. /\ pt' \in [Pid -> [Vpn -> Pte]] /\ pt'[p][v] = e
      /\ \A q \in Pid, u \in Vpn : q # p \/ u # v => pt'[q][u] = t[q][u]
  <2>1. t \in [Pid -> [Vpn -> Pte]]
        BY <1>5 DEF StoreType
  <2>2. LET t1 == [t EXCEPT ![p][v] = e]
        IN  /\ t1 \in [Pid -> [Vpn -> Pte]] /\ t1[p][v] = e
            /\ \A q \in Pid, u \in Vpn : q # p \/ u # v => t1[q][u] = t[q][u]
        BY <1>1, <2>1, EntryUpdate
  <2>3. pt' = [t EXCEPT ![p][v] = e]
        BY <1>2
  <2>4. QED BY <2>2, <2>3
<1>c. c \in Page \cup {Zero}
      BY <1>a, PageFacts, Zenon DEF SlotType, c
<1>d. /\ ram' \in [Frame -> Page \cup {Zero}] /\ ram'[f] = c
      /\ \A g \in Frame \ {f} : ram'[g] = ram[g]
      BY <1>2, <1>5, <1>c, Zenon DEF StoreType
<1>e. /\ slot' \in [Slot -> SlotType] /\ (x # None => slot'[x].owner = None)
      /\ \A y \in Slot \ {x} : slot'[y] = s[y]
  <2>0. s \in [Slot -> SlotType]
        BY <1>5 DEF StoreType
  <2>1. CASE x = None
        BY <2>0, <2>1 DEF PageInto
  <2>2. CASE x # None
    <3>1. [s[x] EXCEPT !.owner = None] \in SlotType
          BY <1>a, <2>2 DEF SlotType
    <3>2. [s[x] EXCEPT !.owner = None].owner = None
          BY <1>a, <2>2 DEF SlotType
    <3>3. slot' = [s EXCEPT ![x] = [s[x] EXCEPT !.owner = None]]
          BY <1>a, <2>0, <2>2 DEF PageInto
    <3>4. QED BY <1>a, <2>0, <2>2, <3>1, <3>2, <3>3
  <2>3. QED BY <2>1, <2>2, Zenon
<1>f. owner' = [o EXCEPT ![f] = <<p, v>>] /\ tracked' = k \cup {f}
      BY DEF PageInto
<1>g. PagedIn(t, o, ram, s, k, unsaved, f, p, v, x, pt', owner', ram', slot', tracked', unsaved')
      BY <1>1, <1>2, <1>3, <1>b, <1>d, <1>e, <1>f, Zenon DEF PagedIn
<1>h. StoreType(pt', owner', ram', slot', tracked', unsaved')
  <2>1. owner' \in [Frame -> Page \cup {None}]
        BY <1>5, <1>f, PageFacts, Zenon DEF StoreType
  <2>2. unsaved' \in SUBSET Page /\ tracked' \in SUBSET Frame
        BY <1>3, <1>5, <1>f, PageFacts DEF StoreType
  <2>3. QED BY <1>b, <1>d, <1>e, <2>1, <2>2, Zenon DEF StoreType
<1>6. Sound(pt', owner', ram', slot', tracked', unsaved')
      BY <1>g, <1>h, PageInSound, Zenon
<1>7. StoreInv'
      BY <1>6 DEF StoreInv
<1>8. ASSUME NEW q \in Pid, NEW u \in Vpn, <<q, u>> \in unsaved
      PROVE  Contents(q, u)' = <<q, u>>
  <2>1. CASE <<q, u>> # <<p, v>>
        BY <1>3, <1>7, <1>8, <2>1, KeptSurvive
  <2>2. CASE <<q, u>> = <<p, v>>
    <3>1. q = p /\ u = v /\ f # None
          BY <2>2, PageFacts
    <3>2. c = <<p, v>>
          BY <1>4, <1>8, <2>2, PageInKeeps
    <3>3. Contents(p, v)' = ram'[f]
          BY <1>1, <1>b, <3>1, Zenon DEF Contents
    <3>4. QED BY <1>d, <3>1, <3>2, <3>3, Zenon
  <2>3. QED BY <2>1, <2>2
<1>9. QED BY <1>7, <1>8 DEF Survive

LEMMA FaultIntoFreeMemory ==
  ASSUME NEW p \in Pid, NEW v \in Vpn, NEW w \in BOOLEAN, Memory(p), FaultIntoFree(p, v, w)
  PROVE  Memory(p)' /\ Survive
<1> DEFINE f == Min(FreeFrames)
           x == pt[p][v].slot
<1>1. f \in Frame /\ owner[f] = None
  <2>1. FreeFrames \subseteq Nat /\ FreeFrames # {}
        BY PagingAssumption, Zenon DEF FreeFrames, FaultIntoFree
  <2>2. f \in FreeFrames
        BY <2>1, MinIn, Zenon
  <2>3. QED BY <2>2 DEF FreeFrames, Allocated
<1>2. FreeFor(pt, owner, f, p, v, x)
      BY <1>1 DEF FreeFor, FaultIntoFree, Faults
<1>3. PageInto(p, v, w, f, pt, owner, slot, tracked, x)
      BY DEF PageInto, FaultIntoFree, Faults, PageIn, Touch, IsMajor
<1>4. /\ tlb' \in TlbInserted([tlb EXCEPT ![v] = None], v, f)
      /\ owner' = [owner EXCEPT ![f] = <<p, v>>]
      BY DEF FaultIntoFree, PageIn
<1> HIDE DEF f, x
<1>5. StoreInv' /\ Survive
      BY <1>1, <1>2, <1>3, PageIntoMemory DEF Memory, StoreInv
<1>6. TlbType' /\ TlbOf(p)'
  <2>1. owner \in [Frame -> Page \cup {None}] /\ tlb \in [Vpn -> Frame \cup {None}]
        BY DEF Memory, StoreInv, Sound, StoreType, TlbType
  <2>2. \A u \in Vpn : tlb[u] # None => tlb[u] # f /\ owner[tlb[u]] = <<p, u>>
        BY <1>1, PageFacts, Zenon DEF Memory, TlbOf
  <2>3. QED BY <1>1, <1>4, <2>1, <2>2, TlbAfterFault, Zenon
<1>7. QED BY <1>5, <1>6 DEF Memory

LEMMA FaultEvictsMemory ==
  ASSUME NEW p \in Pid, NEW v \in Vpn, NEW w \in BOOLEAN, NEW f \in Frame, f \in tracked,
         Memory(p), FaultEvicts(p, v, w, f)
  PROVE  Memory(p)' /\ Survive
<1>0. Sound(pt, owner, ram, slot, tracked, unsaved)
      BY DEF Memory, StoreInv
<1>1. PICK q \in Pid, u \in Vpn : owner[f] = <<q, u>>
  <2>1. owner[f] \in Page
    <3>1. FrameSound(pt, owner, ram, tracked, f) /\ owner \in [Frame -> Page \cup {None}]
          BY <1>0 DEF Sound, StoreType
    <3>2. QED BY <3>1 DEF FrameSound
  <2>2. QED BY <2>1, PageFacts
<1> DEFINE y == IF pt[q][u].slot # None THEN pt[q][u].slot ELSE Min(FreeSlots)
           d == pt[q][u].dirty
           t == [pt EXCEPT ![q][u] = [frame |-> None, dirty |-> FALSE,
                                      slot |-> IF d THEN y ELSE pt[q][u].slot]]
           s == IF d THEN [slot EXCEPT ![y] = [owner |-> <<q, u>>, data |-> ram[f]]] ELSE slot
           o == [owner EXCEPT ![f] = None]
           k == tracked \ {f}
           x == IF IsMajor(p, v) THEN t[p][v].slot ELSE None
           b == [tlb EXCEPT ![u] = None]
<1>2. owner[f][1] = q /\ owner[f][2] = u
      BY <1>1
<1>3. /\ Faults(p, v, w) /\ f \in tracked
      /\ d => pt[q][u].slot # None \/ FreeSlots # {}
      /\ PageIn(p, v, w, f, t, s, b)
      BY <1>2, Zenon DEF FaultEvicts, VictimPte, NoRoom
<1>4. d => /\ y \in Slot
           /\ pt[q][u].slot = y \/ (pt[q][u].slot = None /\ slot[y].owner = None)
  <2>1. pt[q][u] \in Pte
        BY <1>0 DEF Sound, StoreType
  <2>2. CASE pt[q][u].slot # None
        BY <2>1, <2>2, Zenon DEF Pte
  <2>3. CASE pt[q][u].slot = None /\ FreeSlots # {}
    <3>1. FreeSlots \subseteq Nat
          BY PagingAssumption, Zenon DEF FreeSlots
    <3>2. Min(FreeSlots) \in FreeSlots
          BY <2>3, <3>1, MinIn, Zenon
    <3>3. QED BY <2>3, <3>2, Zenon DEF FreeSlots
  <2>4. QED BY <1>3, <2>2, <2>3, Zenon
<1> HIDE DEF y
<1>a. Evict(pt, owner, ram, slot, tracked, f, q, u, y, t, o, s, k)
      BY <1>4, Zenon DEF Evict
<1>b. o = [owner EXCEPT ![f] = None] /\ k = tracked \ {f}
      OBVIOUS
<1> HIDE DEF t, o, s, k
<1>5. /\ Sound(t, o, ram, s, k, unsaved) /\ o[f] = None
      /\ t[q][u].frame = None /\ t[q][u].slot = IF d THEN y ELSE pt[q][u].slot
      /\ \A a \in Pid, c \in Vpn : a # q \/ c # u => t[a][c] = pt[a][c]
  <2>1. Sound(t, o, ram, s, k, unsaved)
        BY <1>0, <1>1, <1>a, EvictionStep, Zenon
  <2>2. o[f] = None
        BY <1>0, <1>b, Zenon DEF Sound, StoreType
  <2> DEFINE e == [frame |-> None, dirty |-> FALSE, slot |-> IF d THEN y ELSE pt[q][u].slot]
  <2>3. t[q][u] = e /\ \A a \in Pid, c \in Vpn : a # q \/ c # u => t[a][c] = pt[a][c]
    <3>1. t = [pt EXCEPT ![q][u] = e] /\ pt \in [Pid -> [Vpn -> Pte]]
          BY <1>0 DEF t, Sound, StoreType
    <3> HIDE DEF e
    <3>2. QED BY <3>1
  <2>4. e.frame = None /\ e.slot = IF d THEN y ELSE pt[q][u].slot
        OBVIOUS
  <2> HIDE DEF e
  <2>5. QED BY <2>1, <2>2, <2>3, <2>4, Zenon
<1>6. FreeFor(t, o, f, p, v, x)
  <2>1. o[f] = None
        BY <1>5
  <2>2. pt[p][v].frame = None
        BY <1>3 DEF Faults
  <2>3. t[p][v].frame = None
        BY <1>5, <2>2
  <2>4. x # None => x = t[p][v].slot
        OBVIOUS
  <2>5. ~ IsMajor(p, v) => t[p][v].slot = None \/ v \in Heap
    <3>1. CASE p # q \/ v # u
          BY <1>5, <3>1, Zenon DEF IsMajor
    <3>2. CASE p = q /\ v = u
      <4>1. FrameSound(pt, owner, ram, tracked, f) /\ owner[f] # None /\ f # None
            BY <1>0, <1>1, PageFacts, Zenon DEF Sound
      <4>2. QED BY <1>2, <2>2, <3>2, <4>1 DEF FrameSound
    <3>3. QED BY <3>1, <3>2
  <2>6. IsMajor(p, v) => t[p][v].slot # None
    <3>1. CASE p # q \/ v # u
          BY <1>5, <3>1, Zenon DEF IsMajor
    <3>2. CASE p = q /\ v = u
          BY <1>4, <1>5, <3>2, PageFacts, Zenon DEF IsMajor
    <3>3. QED BY <3>1, <3>2
  <2>7. QED BY <2>1, <2>3, <2>4, <2>5, <2>6, Zenon DEF FreeFor
<1>7. IsMajor(p, v) <=> x # None
  <2>1. IsMajor(p, v) => t[p][v].slot # None
    <3>1. CASE p # q \/ v # u
          BY <1>5, <3>1, Zenon DEF IsMajor
    <3>2. CASE p = q /\ v = u
          BY <1>4, <1>5, <3>2, PageFacts, Zenon DEF IsMajor
    <3>3. QED BY <3>1, <3>2
  <2>2. QED BY <2>1
<1>8. PageInto(p, v, w, f, t, o, s, k, x)
  <2>1. owner' = [o EXCEPT ![f] = <<p, v>>]
        BY <1>0, <1>3, <1>b, Zenon DEF PageIn, Sound, StoreType
  <2>2. tracked' = k \cup {f}
        BY <1>3, <1>b DEF PageIn
  <2>3. pt[p][v].frame = None
        BY <1>3 DEF Faults
  <2>4. QED BY <1>3, <1>7, <2>1, <2>2, <2>3, Zenon DEF PageIn, PageInto, Touch
<1>9. StoreInv' /\ Survive
  <2> HIDE DEF x
  <2>1. QED BY <1>5, <1>6, <1>8, PageIntoMemory, Zenon
<1>10. TlbType' /\ TlbOf(p)'
  <2>1. owner \in [Frame -> Page \cup {None}] /\ b \in [Vpn -> Frame \cup {None}]
        BY <1>0, Zenon DEF Memory, Sound, StoreType, TlbType
  <2>2. \A z \in Vpn : b[z] # None => b[z] # f /\ owner[b[z]] = <<p, z>>
        BY <1>1, PageFacts DEF Memory, TlbOf, TlbType
  <2>3. /\ owner' = [owner EXCEPT ![f] = <<p, v>>]
        /\ tlb' \in TlbInserted([b EXCEPT ![v] = None], v, f)
        BY <1>3 DEF PageIn
  <2> HIDE DEF b
  <2>4. QED BY <2>1, <2>2, <2>3, TlbAfterFault, Zenon
<1>11. QED BY <1>9, <1>10 DEF Memory

LEMMA AccessSucceedsMemory ==
  ASSUME NEW p \in Pid, NEW v \in Vpn, NEW w \in BOOLEAN, Memory(p),
         TlbHit(p, v, w) \/ PageHit(p, v, w) \/ Fault(p, v, w)
  PROVE  Memory(p)' /\ Survive
<1>1. tracked \subseteq Frame
      BY DEF Memory, StoreInv, Sound, StoreType
<1>2. QED BY <1>1, TlbHitMemory, PageHitMemory, FaultIntoFreeMemory, FaultEvictsMemory DEF Fault

\* A failed access can only make the policy forget a frame whose page is dirty.
LEMMA AccessFailsMemory ==
  ASSUME NEW p \in Pid, NEW v \in Vpn, NEW w \in BOOLEAN, Memory(p), AccessFails(p, v, w)
  PROVE  Memory(p)' /\ Survive
<1>0. \/ UNCHANGED storeVars
      \/ \E f \in tracked : VictimUnsaved(p, v, w, f)
      BY Zenon DEF AccessFails, Forbidden, OutOfMemory, NoVictim
<1>1. UNCHANGED <<pt, owner, ram, slot, tlb, unsaved>>
      BY <1>0 DEF VictimUnsaved, storeVars
<1>2. Sound(pt, owner, ram, slot, tracked, unsaved)
      BY DEF Memory, StoreInv
<1>3. tracked' \subseteq tracked
      BY <1>0 DEF VictimUnsaved, storeVars
<1>4. ASSUME NEW q \in Pid, NEW u \in Vpn, pt[q][u].frame # None, ~ pt[q][u].dirty
      PROVE  pt[q][u].frame \in tracked'
  <2>0. PageSound(pt, owner, slot, tracked, q, u)
        BY <1>2 DEF Sound
  <2>1. pt[q][u].frame \in tracked /\ owner[pt[q][u].frame] = <<q, u>>
        BY <1>4, <2>0, Zenon DEF PageSound
  <2>2. CASE tracked' = tracked
        BY <2>1, <2>2
  <2>3. ASSUME NEW f \in tracked, NoRoom(f), tracked' = tracked \ {f}
        PROVE  pt[q][u].frame \in tracked'
        BY <1>4, <2>1, <2>3 DEF NoRoom, VictimPte
  <2>4. QED BY <1>0, <2>2, <2>3 DEF VictimUnsaved, storeVars
<1>5. Sound(pt, owner, ram, slot, tracked', unsaved)
  <2>1. StoreType(pt, owner, ram, slot, tracked', unsaved)
        BY <1>2, <1>3 DEF Sound, StoreType
  <2>2. ASSUME NEW q \in Pid, NEW u \in Vpn PROVE PageSound(pt, owner, slot, tracked', q, u)
    <3>1. PageSound(pt, owner, slot, tracked, q, u)
          BY <1>2 DEF Sound
    <3>2. QED BY <1>4, <3>1, Zenon DEF PageSound
  <2>3. ASSUME NEW g \in Frame PROVE FrameSound(pt, owner, ram, tracked', g)
    <3>1. FrameSound(pt, owner, ram, tracked, g)
          BY <1>2 DEF Sound
    <3>2. QED BY <1>3, <3>1, Zenon DEF FrameSound
  <2>4. QED BY <1>2, <2>1, <2>2, <2>3 DEF Sound
<1>6. StoreInv' /\ TlbType' /\ TlbOf(p)'
      BY <1>1, <1>5, Zenon DEF StoreInv, Memory, TlbType, TlbOf
<1>7. Survive
      BY <1>1, <1>6, KeptSurvive DEF Survive
<1>8. QED BY <1>6, <1>7 DEF Memory

\* heap_grow unmaps pages of the heap only.
LEMMA HeapGrowStore ==
  ASSUME NEW p \in Pid, NEW n \in 1 .. HeapPages, StoreInv,
         brk \in [Pid -> 0 .. HeapPages], HeapGrow(p, n)
  PROVE  StoreInv' /\ Survive /\ brk' \in [Pid -> 0 .. HeapPages]
<1>0. /\ Sound(pt, owner, ram, slot, tracked, unsaved)
      /\ StoreType(pt, owner, ram, slot, tracked, unsaved)
      BY DEF StoreInv, Sound
<1>1. HeapStart \in Nat /\ HeapPages \in Nat /\ Vpn \subseteq Nat
      BY PagingAssumption
<1>2. brk[p] \in 0 .. HeapPages /\ brk[p] + n <= HeapPages
      BY Zenon DEF HeapGrow
<1>3. brk' \in [Pid -> 0 .. HeapPages]
  <2>1. brk[p] + n \in 0 .. HeapPages
        BY <1>1, <1>2
  <2>2. QED BY <2>1, Zenon DEF HeapGrow
<1>4. UNCHANGED <<owner, ram, slot, tracked, unsaved>>
      BY Zenon DEF HeapGrow
<1>5. ASSUME NEW v \in Vpn, v - HeapStart \in brk[p] .. brk[p] + n - 1 PROVE v \in Heap
      BY <1>1, <1>2, <1>5 DEF Heap
<1>6. pt' \in [Pid -> [Vpn -> Pte]]
  <2>1. ASSUME NEW v \in Vpn PROVE [pt[p][v] EXCEPT !.frame = None, !.slot = None] \in Pte
    <3>1. pt[p][v] \in Pte
          BY <1>0 DEF StoreType
    <3>2. QED BY Zenon, <3>1 DEF Pte
  <2>2. pt \in [Pid -> [Vpn -> Pte]]
        BY <1>0 DEF StoreType
  <2>3. QED BY <2>1, <2>2, Zenon DEF HeapGrow
<1>7. ASSUME NEW q \in Pid, NEW u \in Vpn
      PROVE  \/ pt'[q][u] = pt[q][u]
             \/ u \in Heap /\ pt'[q][u].frame = None /\ pt'[q][u].slot = None
  <2>0. pt \in [Pid -> [Vpn -> Pte]]
        BY <1>0 DEF StoreType
  <2>1. CASE q = p /\ u - HeapStart \in brk[p] .. brk[p] + n - 1
    <3>1. pt'[q][u] = [pt[p][u] EXCEPT !.frame = None, !.slot = None]
          BY <2>0, <2>1, Zenon DEF HeapGrow
    <3>2. QED BY <1>5, <2>0, <2>1, <3>1 DEF Pte
  <2>2. CASE ~ (q = p /\ u - HeapStart \in brk[p] .. brk[p] + n - 1)
        BY <2>0, <2>2, Zenon DEF HeapGrow
  <2>3. QED BY <2>1, <2>2
<1>8. Sound(pt', owner, ram, slot, tracked, unsaved)
  <2>1. StoreType(pt', owner, ram, slot, tracked, unsaved)
        BY <1>0, <1>6 DEF StoreType
  <2>2. ASSUME NEW q \in Pid, NEW u \in Vpn PROVE PageSound(pt', owner, slot, tracked, q, u)
    <3>1. PageSound(pt, owner, slot, tracked, q, u)
          BY <1>0 DEF Sound
    <3>2. QED BY <1>7, <3>1, Zenon DEF PageSound
  <2>3. ASSUME NEW g \in Frame PROVE FrameSound(pt', owner, ram, tracked, g)
    <3>1. FrameSound(pt, owner, ram, tracked, g)
          BY <1>0 DEF Sound
    <3>2. CASE owner[g] = None
          BY <3>1, <3>2 DEF FrameSound
    <3>3. CASE owner[g] # None
      <4>1. PICK q \in Pid, u \in Vpn : owner[g] = <<q, u>>
        <5>1. owner[g] \in Page
              BY <1>0, <3>3 DEF StoreType
        <5>2. QED BY <5>1, PageFacts
      <4>2. owner[g][1] = q /\ owner[g][2] = u
            BY <4>1, PairParts, Zenon
      <4>3. QED BY <1>7, <3>1, <3>3, <4>2 DEF FrameSound
    <3>4. QED BY <3>2, <3>3
  <2>4. ASSUME NEW x \in Slot PROVE SlotSound(pt', slot, x)
    <3>1. SlotSound(pt, slot, x)
          BY <1>0 DEF Sound
    <3>2. CASE slot[x].owner = None
          BY <3>2 DEF SlotSound
    <3>3. CASE slot[x].owner # None
      <4>1. PICK q \in Pid, u \in Vpn : slot[x].owner = <<q, u>>
        <5>1. slot[x].owner \in Page
              BY <1>0, <3>3 DEF StoreType, SlotType
        <5>2. QED BY <5>1, PageFacts
      <4>2. slot[x].owner[1] = q /\ slot[x].owner[2] = u
            BY <4>1, PairParts, Zenon
      <4>3. QED BY <1>7, <3>1, <3>3, <4>2 DEF SlotSound
    <3>4. QED BY <3>2, <3>3
  <2>5. ASSUME NEW q \in Pid, NEW u \in Vpn, <<q, u>> \in unsaved
        PROVE  Kept(pt', ram, slot, q, u)
    <3>1. Kept(pt, ram, slot, q, u)
          BY <1>0, <2>5 DEF Sound
    <3>2. QED BY <1>7, <3>1, Zenon DEF Kept
  <2>6. QED BY <2>1, <2>2, <2>3, <2>4, <2>5 DEF Sound
<1>9. StoreInv'
      BY <1>4, <1>8 DEF StoreInv
<1>10. QED BY <1>3, <1>4, <1>9, KeptSurvive DEF Survive

\* The policy may at any time be told of all the frames that are in use.
LEMMA SetPolicyStore ==
  ASSUME StoreInv, NEW name, SetPolicy(name)
  PROVE  StoreInv' /\ Survive
<1>0. /\ Sound(pt, owner, ram, slot, tracked, unsaved)
      /\ StoreType(pt, owner, ram, slot, tracked, unsaved)
      BY DEF StoreInv, Sound
<1>1. UNCHANGED <<pt, owner, ram, slot, unsaved>> /\ tracked' = Allocated
      BY DEF SetPolicy
<1>2. ASSUME NEW q \in Pid, NEW u \in Vpn PROVE PageSound(pt, owner, slot, Allocated, q, u)
  <2>1. PageSound(pt, owner, slot, tracked, q, u) /\ pt[q][u] \in Pte
        BY <1>0 DEF Sound, StoreType
  <2>2. pt[q][u].frame # None => pt[q][u].frame \in Allocated
        BY <2>1, PageFacts, Zenon DEF PageSound, Allocated, Pte
  <2>3. QED BY <2>1, <2>2, Zenon DEF PageSound
<1>3. ASSUME NEW g \in Frame PROVE FrameSound(pt, owner, ram, Allocated, g)
  <2>1. FrameSound(pt, owner, ram, tracked, g)
        BY <1>0 DEF Sound
  <2>2. owner[g] = None => g \notin Allocated
        BY DEF Allocated
  <2>3. QED BY <2>1, <2>2, Zenon DEF FrameSound
<1>4. StoreType(pt, owner, ram, slot, Allocated, unsaved)
      BY <1>0 DEF StoreType, Allocated
<1>5. Sound(pt, owner, ram, slot, Allocated, unsaved)
      BY <1>0, <1>2, <1>3, <1>4 DEF Sound
<1>6. StoreInv'
      BY <1>1, <1>5 DEF StoreInv
<1>7. QED BY <1>1, <1>6, KeptSurvive DEF Survive

-----------------------------------------------------------------------------
(***************************************************************************)
(* The invariant                                                           *)
(***************************************************************************)
LEMMA PagingInitInv == PagingInit => PagingInv
<1> SUFFICES ASSUME PagingInit PROVE PagingInv
    OBVIOUS
<1> USE DEF PagingInit
<1>1. StoreType(pt, owner, ram, slot, tracked, unsaved)
      BY DEF StoreType, Unmapped, Pte, SlotType
<1>2. \A p \in Pid, v \in Vpn : PageSound(pt, owner, slot, tracked, p, v)
      BY DEF PageSound, Unmapped
<1>3. \A f \in Frame : FrameSound(pt, owner, ram, tracked, f)
      BY DEF FrameSound
<1>4. \A x \in Slot : SlotSound(pt, slot, x)
      BY DEF SlotSound
<1>5. StoreInv
      BY <1>1, <1>2, <1>3, <1>4, Zenon DEF StoreInv, Sound
<1>6. brk \in [Pid -> 0 .. HeapPages]
      BY PagingAssumption
<1>7. QED BY <1>5, <1>6, Zenon DEF PagingInv, TlbIsOwn, NoTlb

\* A step that leaves the store alone.
LEMMA SameStore ==
  ASSUME StoreInv, UNCHANGED <<pt, owner, ram, slot, tracked, unsaved>>
  PROVE  StoreInv' /\ Survive
<1>1. StoreInv'
      BY DEF StoreInv
<1>2. QED BY <1>1, KeptSurvive DEF Survive

\* A step of process p that reads or writes memory, and keeps the CPU or gives
\* it up.
LEMMA MemoryStep ==
  ASSUME PagingInv, NEW p \in Pid, current = p, current' \in {p, None},
         UNCHANGED brk, Memory(p)' /\ Survive
  PROVE  PagingInv' /\ Survive
BY DEF PagingInv, Memory, TlbType, TlbOf, TlbIsOwn

LEMMA CurrentMemory ==
  ASSUME PagingInv, NEW p \in Pid, current = p
  PROVE  Memory(p)
BY NoneAssumption DEF PagingInv, Memory, TlbType, TlbOf, TlbIsOwn

LEMMA AccessStepInv ==
  ASSUME PagingInv, NEW p \in Pid, AccessStep(p)
  PROVE  PagingInv' /\ Survive
<1>1. PICK v \in Vpn, w \in BOOLEAN :
        AccessDone(p, v, w) \/ AccessSleeps(p, v, w) \/ AccessError(p, v, w)
      BY DEF AccessStep
<1>2. Accesses(p, v, w)
      BY <1>1 DEF AccessDone, AccessSleeps, AccessError
<1>3. current = p /\ UNCHANGED brk
      BY <1>2 DEF Accesses, Executing, heapVars
<1>4. current' \in {p, None}
      BY <1>1, <1>3 DEF AccessDone, AccessSleeps, AccessError, Complete, Wake, BlockIn,
                          ExitWith, Leave
<1>5. \/ TlbHit(p, v, w) \/ PageHit(p, v, w) \/ Fault(p, v, w)
      \/ AccessFails(p, v, w)
      BY <1>1 DEF AccessDone, AccessSleeps, AccessError
<1>6. Memory(p)' /\ Survive
      BY <1>3, <1>5, CurrentMemory, AccessSucceedsMemory, AccessFailsMemory
<1>7. QED BY <1>3, <1>4, <1>6, MemoryStep

LEMMA HeapStepInv ==
  ASSUME PagingInv, NEW p \in Pid, HeapStep(p)
  PROVE  PagingInv' /\ Survive
<1>1. ASSUME NEW op, HeapCallStart(p, op) PROVE PagingInv' /\ Survive
  <2>1. UNCHANGED <<current, pt, owner, ram, slot, tracked, unsaved, tlb, brk>>
        BY <1>1 DEF HeapCallStart, executorVars, storeVars
  <2>2. StoreInv' /\ Survive
        BY <2>1, SameStore DEF PagingInv
  <2>3. QED BY <2>1, <2>2, Zenon DEF PagingInv, TlbIsOwn
<1>2. ASSUME NEW v \in Heap, NEW w \in BOOLEAN, HeapAccess(p, v, w)
      PROVE  PagingInv' /\ Survive
  <2>1. current = p /\ current' = p /\ UNCHANGED brk /\ v \in Vpn
        BY <1>2, PagingAssumption DEF HeapAccess, InHeapCall, executorVars, heapVars
  <2>2. Memory(p)' /\ Survive
        BY <1>2, <2>1, CurrentMemory, AccessSucceedsMemory DEF HeapAccess, AccessSucceeds
  <2>3. QED BY <2>1, <2>2, MemoryStep
<1>3. ASSUME NEW v \in Heap, NEW w \in BOOLEAN, HeapAccessError(p, v, w)
      PROVE  PagingInv' /\ Survive
  <2>1. current = p /\ current' \in {p, None} /\ UNCHANGED brk /\ v \in Vpn
        BY <1>3, PagingAssumption, Zenon
           DEF HeapAccessError, InHeapCall, ExitWith, Leave, Complete, Wake
  <2>2. Memory(p)' /\ Survive
        BY <1>3, <2>1, CurrentMemory, AccessFailsMemory DEF HeapAccessError
  <2>3. QED BY <2>1, <2>2, MemoryStep
<1>4. ASSUME NEW n \in 1 .. HeapPages, HeapGrow(p, n) PROVE PagingInv' /\ Survive
  <2>1. StoreInv' /\ Survive /\ brk' \in [Pid -> 0 .. HeapPages]
        BY <1>4, HeapGrowStore DEF PagingInv
  <2>2. UNCHANGED <<current, tlb, owner>>
        BY <1>4, Zenon DEF HeapGrow, executorVars
  <2>3. QED BY <2>1, <2>2, Zenon DEF PagingInv, TlbIsOwn
<1>5. ASSUME MmapRefused(p) \/ HeapCallDone(p) PROVE PagingInv' /\ Survive
  <2>1. UNCHANGED <<pt, owner, ram, slot, tracked, unsaved, tlb, brk>>
        BY <1>5 DEF MmapRefused, HeapCallDone, storeVars
  <2>2. current' \in {current, None}
        BY <1>5 DEF MmapRefused, HeapCallDone, ExitWith, Leave, Complete, Wake
  <2>3. StoreInv' /\ Survive
        BY <2>1, SameStore DEF PagingInv
  <2>4. QED BY <2>1, <2>2, <2>3 DEF PagingInv, TlbIsOwn
<1>6. QED BY <1>1, <1>2, <1>3, <1>4, <1>5 DEF HeapStep

\* Steps that leave the store alone and give the CPU to nobody, or flush the TLB.
LEMMA SwitchInv ==
  ASSUME PagingInv, UNCHANGED <<pt, owner, ram, slot, tracked, unsaved, brk>>,
         tlb' = NoTlb \/ (tlb' = tlb /\ current' \in {current, None})
  PROVE  PagingInv' /\ Survive
<1>1. StoreInv' /\ Survive
      BY SameStore DEF PagingInv
<1>2. tlb' \in [Vpn -> Frame \cup {None}] /\ TlbIsOwn'
      BY DEF PagingInv, TlbIsOwn, NoTlb
<1>3. QED BY <1>1, <1>2 DEF PagingInv

LEMMA PagingNextInv ==
  ASSUME PagingInv, PagingNext
  PROVE  PagingInv' /\ Survive
<1>1. ASSUME NEW p \in Pid, PageInDone(p) PROVE PagingInv' /\ Survive
      BY <1>1, SwitchInv DEF PageInDone, Wake, storeVars, heapVars
<1>2. ASSUME NEW p \in Pid, Scheduled(p) PROVE PagingInv' /\ Survive
      BY <1>2, SwitchInv DEF Scheduled, heapVars
<1>3. ASSUME NEW p \in Pid, KillStep(p) PROVE PagingInv' /\ Survive
      BY <1>3, SwitchInv DEF KillStep, KillCommand, Kill, storeVars, heapVars
<1>4. ASSUME NEW name, SetPolicy(name) PROVE PagingInv' /\ Survive
  <2>1. StoreInv' /\ Survive
        BY <1>4, SetPolicyStore DEF PagingInv
  <2>2. UNCHANGED <<current, tlb, owner, brk>>
        BY <1>4 DEF SetPolicy, executorVars, heapVars
  <2>3. QED BY <2>1, <2>2 DEF PagingInv, TlbIsOwn
<1>5. QED BY <1>1, <1>2, <1>3, <1>4, AccessStepInv, HeapStepInv DEF PagingNext

LEMMA PagingStutterInv == PagingInv /\ UNCHANGED vars => PagingInv'
BY Zenon DEF PagingInv, StoreInv, TlbIsOwn, vars, executorVars, storeVars, heapVars

LEMMA PagingInvAlways == PagingSpec => []PagingInv
BY PagingInitInv, PagingNextInv, PagingStutterInv, PTL DEF PagingSpec

-----------------------------------------------------------------------------
LEMMA StoreFacts ==
  ASSUME StoreInv
  PROVE  /\ PagesOwnTheirStore
         /\ FramesHoldOwnData
         /\ CleanPagesTracked
         /\ NothingLeaks
<1>0. /\ \A p \in Pid, v \in Vpn : PageSound(pt, owner, slot, tracked, p, v)
      /\ \A g \in Frame : FrameSound(pt, owner, ram, tracked, g)
      /\ \A x \in Slot : SlotSound(pt, slot, x)
      BY DEF StoreInv, Sound
<1>1. PagesOwnTheirStore /\ CleanPagesTracked
      BY <1>0, Zenon DEF PageSound, PagesOwnTheirStore, CleanPagesTracked
<1>2. FramesHoldOwnData
      BY <1>0, Zenon DEF FrameSound, SlotSound, FramesHoldOwnData, Allocated, FreeSlots
<1>3. NothingLeaks
      BY <1>0, Zenon DEF FrameSound, SlotSound, NothingLeaks, Allocated, FreeSlots
<1>4. QED BY <1>1, <1>2, <1>3

\* No two pages ever share a frame or a swap slot, whatever the policy evicts:
\* every page table entry names a frame, or a slot, that frame_alloc, or
\* swap_out, gave to that very page and that was not given away since.
THEOREM PagesNeverShare == PagingSpec => []PagesOwnTheirStore
BY PagingInvAlways, StoreFacts, PTL DEF PagingInv

\* The TLB, which has no process in its entries, never leads the running
\* process to the frame of another process or of another page: dispatch
\* flushes it and pager_access_page drops the entry of the victim.
THEOREM TlbAlwaysOwn == PagingSpec => []TlbIsOwn
BY PagingInvAlways, PTL DEF PagingInv

\* Isolation: no byte of one process is ever in a frame or a slot of another
\* page, so no process can read what another one wrote.
THEOREM DataIsolated == PagingSpec => []FramesHoldOwnData
BY PagingInvAlways, StoreFacts, PTL DEF PagingInv

\* A clean page in memory is always known to the policy, so evict can choose it;
\* what a failed eviction makes the policy forget is dirty.
THEOREM CleanPagesEvictable == PagingSpec => []CleanPagesTracked
BY PagingInvAlways, StoreFacts, PTL DEF PagingInv

\* Outside of the heap no frame and no slot leaks: one that is allocated is the
\* one in the page table of its owner.
THEOREM NoStoreLeaks == PagingSpec => []NothingLeaks
BY PagingInvAlways, StoreFacts, PTL DEF PagingInv

\* No step loses what a process wrote to a page since the page came in: not the
\* eviction, the page-in, another process, a kill or a change of policy.
THEOREM WritesAlwaysSurvive == PagingSpec => WritesSurvive
<1>1. PagingInv /\ [PagingNext]_vars =>
        [\A p \in Pid, v \in Vpn : <<p, v>> \in unsaved => Contents(p, v)' = <<p, v>>]_vars
      BY PagingNextInv DEF Survive
<1>2. QED BY <1>1, PagingInvAlways, PTL DEF PagingSpec, WritesSurvive

-----------------------------------------------------------------------------
(***************************************************************************)
(* The replacement policies                                                *)
(***************************************************************************)
\* Array s lists the frames of F and each of them once.
Lists(s, F) ==
  /\ s \in Seq(Frame)
  /\ \A i, j \in 1 .. Len(s) : s[i] = s[j] => i = j
  /\ F \subseteq Frame
  /\ \A f \in Frame : f \in F <=> \E i \in 1 .. Len(s) : s[i] = f

\* Only clock moves its hand, and the hand is in the array.
HandInArray(h, n) == h \in Nat /\ (h = 0 \/ (policy = "clock" /\ h < n))

PolicyInv ==
  /\ Lists(order, tracked)
  /\ HandInArray(hand, Len(order))
  /\ policy \in {"fifo", "lru", "clock"}
  /\ last \in [Frame -> Nat] /\ now \in Nat

\* What Lists says of an array, in the words of PolicyTracks.
LEMMA ListsFacts ==
  ASSUME NEW s, NEW F, Lists(s, F)
  PROVE  Range(s) = F /\ Len(s) \in Nat /\ Len(s) = Cardinality(F)
<1>1. s \in Seq(Frame) /\ Len(s) \in Nat /\ DOMAIN s = 1 .. Len(s)
      BY DEF Lists
<1>2. Range(s) = F
      BY <1>1 DEF Range, Lists
<1>3. s \in Bijection(1 .. Len(s), F)
  <2>1. s \in [1 .. Len(s) -> F]
        BY <1>1 DEF Lists
  <2>2. IsInjective(s)
        BY <1>1, Zenon DEF IsInjective, Lists
  <2>3. \A f \in F : \E i \in 1 .. Len(s) : s[i] = f
        BY DEF Lists
  <2>4. QED BY <2>1, <2>2, <2>3 DEF Bijection, Injection, Surjection
<1>4. IsFiniteSet(1 .. Len(s)) /\ Cardinality(1 .. Len(s)) = Len(s)
      BY <1>1, FS_Interval
<1>5. Cardinality(F) = Len(s)
      BY <1>3, <1>4, FS_Bijection DEF ExistsBijection
<1>6. QED BY <1>1, <1>2, <1>5

\* insert of the three policies.
LEMMA ListsInserted ==
  ASSUME NEW s, NEW F, Lists(s, F), NEW f \in Frame
  PROVE  /\ Lists(Inserted(s, f), F \cup {f})
         /\ Len(Inserted(s, f)) \in Nat /\ Len(s) \in Nat
         /\ Len(Inserted(s, f)) = IF f \in F THEN Len(s) ELSE Len(s) + 1
<1>1. s \in Seq(Frame) /\ Len(s) \in Nat
      BY DEF Lists
<1>2. CASE f \in F
  <2>1. Inserted(s, f) = s /\ F \cup {f} = F
        BY <1>2 DEF Inserted, Range, Lists
  <2>2. QED BY <1>1, <1>2, <2>1, Zenon
<1>3. CASE f \notin F
  <2>1. Inserted(s, f) = Append(s, f)
        BY <1>3 DEF Inserted, Range, Lists
  <2>2. /\ Append(s, f) \in Seq(Frame)
        /\ Len(Append(s, f)) = Len(s) + 1
        /\ \A i \in 1 .. Len(s) : Append(s, f)[i] = s[i]
        /\ Append(s, f)[Len(s) + 1] = f
        BY <1>1
  <2> DEFINE t == Append(s, f)
             n == Len(s) + 1
  <2>a. /\ t \in Seq(Frame) /\ Len(t) = n /\ t[n] = f /\ n \in Nat
        /\ \A i \in 1 .. n : i # n => i \in 1 .. Len(s) /\ t[i] = s[i]
        /\ \A i \in 1 .. Len(s) : i \in 1 .. n /\ t[i] = s[i]
        /\ n \in 1 .. n
        BY <1>1, <2>2
  <2> HIDE DEF t, n
  <2>b. /\ \A i, j \in 1 .. Len(s) : s[i] = s[j] => i = j
        /\ \A g \in Frame : g \in F <=> \E i \in 1 .. Len(s) : s[i] = g
        /\ \A i \in 1 .. Len(s) : s[i] # f
        BY <1>1, <1>3 DEF Lists
  <2>3. \A i, j \in 1 .. n : t[i] = t[j] => i = j
        BY <2>a, <2>b
  <2>4. \A g \in Frame : g \in F \cup {f} <=> \E i \in 1 .. n : t[i] = g
        BY <2>a, <2>b
  <2>5. QED BY <1>1, <1>3, <2>1, <2>a, <2>3, <2>4 DEF Lists, t
<1>4. QED BY <1>2, <1>3

\* The victim leaves the array of the three policies.
LEMMA ListsRemoved ==
  ASSUME NEW s, NEW F, Lists(s, F), NEW k \in 1 .. Len(s)
  PROVE  /\ Lists(ShiftedLeft(s, k), F \ {s[k]})
         /\ s[k] \in F
         /\ Len(s) \in Nat /\ Len(ShiftedLeft(s, k)) = Len(s) - 1
<1>1. s \in Seq(Frame) /\ Len(s) \in Nat /\ k \in Nat /\ s[k] \in Frame /\ s[k] \in F
      BY DEF Lists
<1> DEFINE a == SubSeq(s, 1, k - 1)
           b == SubSeq(s, k + 1, Len(s))
           t == ShiftedLeft(s, k)
<1>2. /\ a \in Seq(Frame) /\ Len(a) = k - 1
      /\ \A i \in 1 .. k - 1 : a[i] = s[i]
      BY <1>1
<1>3. /\ b \in Seq(Frame) /\ Len(b) = Len(s) - k
      /\ \A i \in 1 .. Len(s) - k : b[i] = s[k + i]
      BY <1>1
<1>4. t = a \o b
      BY DEF ShiftedLeft
<1> HIDE DEF a, b, t
<1>5. t \in Seq(Frame) /\ Len(t) = Len(s) - 1
      BY <1>1, <1>2, <1>3, <1>4
<1>6. \A i \in 1 .. Len(s) - 1 : t[i] = IF i < k THEN s[i] ELSE s[i + 1]
      BY <1>1, <1>2, <1>3, <1>4
<1>7. \A i, j \in 1 .. Len(s) - 1 : t[i] = t[j] => i = j
      BY <1>1, <1>6 DEF Lists
<1>8. ASSUME NEW f \in Frame
      PROVE  f \in F \ {s[k]} <=> \E i \in 1 .. Len(s) - 1 : t[i] = f
  <2>1. ASSUME NEW i \in 1 .. Len(s) - 1, t[i] = f PROVE f \in F \ {s[k]}
        BY <1>1, <1>6, <2>1 DEF Lists
  <2>2. ASSUME f \in F \ {s[k]} PROVE \E i \in 1 .. Len(s) - 1 : t[i] = f
    <3>1. PICK i \in 1 .. Len(s) : s[i] = f
          BY <2>2 DEF Lists
    <3>2. CASE i < k
          BY <1>1, <1>6, <3>1, <3>2
    <3>3. CASE i > k
      <4>1. i - 1 \in 1 .. Len(s) - 1 /\ t[i - 1] = f
            BY <1>1, <1>6, <3>1, <3>3
      <4>2. QED BY <4>1
    <3>4. i # k
          BY <2>2, <3>1
    <3>5. QED BY <1>1, <3>2, <3>3, <3>4
  <2>3. QED BY <2>1, <2>2
<1>9. Lists(t, F \ {s[k]})
      BY <1>1, <1>5, <1>7, <1>8 DEF Lists
<1>10. QED BY <1>1, <1>5, <1>9 DEF t

\* The insertions of pager_set_policy.
LEMMA ListsAscending ==
  ASSUME NEW F, F \subseteq Frame, NEW s \in Ascending(F)
  PROVE  Lists(s, F)
<1>1. IsFiniteSet(F) /\ Cardinality(F) \in Nat
      BY PagingAssumption, FS_Subset, FS_CardinalityType, Zenon
<1> DEFINE n == Cardinality(F)
<1>2. s \in [1 .. n -> F] /\ \A i, j \in 1 .. n : i < j => s[i] < s[j]
      BY DEF Ascending
<1>3. s \in Seq(Frame) /\ Len(s) = n
      BY <1>1, <1>2
<1>4. \A i, j \in 1 .. n : s[i] = s[j] => i = j
  <2>1. \A i \in 1 .. n : s[i] \in Nat
        BY <1>2, PagingAssumption, Zenon
  <2>2. QED BY <1>1, <1>2, <2>1
<1>5. s \in Injection(1 .. n, F)
      BY <1>2, <1>4 DEF Injection, IsInjective
<1>6. Cardinality(1 .. n) = n
      BY <1>1, FS_Interval
<1>7. s \in Surjection(1 .. n, F)
      BY <1>1, <1>5, <1>6, FS_Injection
<1>8. \A f \in F : \E i \in 1 .. n : s[i] = f
      BY <1>7 DEF Surjection
<1>9. QED BY <1>2, <1>3, <1>4, <1>8 DEF Lists

\* The least tick is that of some frame in the array.
LEMMA LruVictimIn ==
  ASSUME PolicyInv, order # <<>>
  PROVE  LruVictim \in 1 .. Len(order)
<1>1. /\ order \in Seq(Frame) /\ Len(order) \in Nat \ {0} /\ last \in [Frame -> Nat]
      /\ DOMAIN order = 1 .. Len(order)
      BY DEF PolicyInv, Lists
<1> DEFINE T == {last[order[j]] : j \in 1 .. Len(order)}
           L == {i \in 1 .. Len(order) :
                   \A j \in 1 .. Len(order) : last[order[i]] <= last[order[j]]}
<1>2. T \subseteq Nat /\ T # {}
  <2>1. \A j \in 1 .. Len(order) : last[order[j]] \in Nat
        BY <1>1
  <2>2. last[order[1]] \in T
        BY <1>1
  <2>3. QED BY <2>1, <2>2, Zenon
<1>3. PICK m \in T : \A x \in T : m <= x
      BY <1>2, LeastIn, Zenon
<1>4. L # {} /\ L \subseteq Nat
  <2>1. PICK i \in 1 .. Len(order) : m = last[order[i]]
        BY <1>3
  <2>2. \A j \in 1 .. Len(order) : last[order[i]] <= last[order[j]]
        BY <1>3, <2>1
  <2>3. i \in L /\ L \subseteq 1 .. Len(order)
        BY <2>2
  <2>4. 1 .. Len(order) \subseteq Nat
        BY <1>1
  <2> HIDE DEF L
  <2>5. QED BY <2>3, <2>4
<1>5. LruVictim = Min(L)
      BY <1>1, Zenon DEF LruVictim
<1>6. Min(L) \in L
      BY <1>4, MinIn, Zenon
<1>7. QED BY <1>5, <1>6

\* The hand comes to a frame in the array, and is left in what remains of it.
LEMMA ClockVictimIn ==
  ASSUME PolicyInv, order # <<>>, NEW p
  PROVE  /\ ClockVictim(p) \in 1 .. Len(order)
         /\ ClockHand(p) \in Nat
         /\ ClockHand(p) = 0 \/ ClockHand(p) < Len(order) - 1
<1>1. Len(order) \in Nat \ {0} /\ hand \in Nat
      BY DEF PolicyInv, Lists, HandInArray
<1>2. ClockSteps(p) \in Nat
  <2> DEFINE D == {Len(order)} \cup
                    {d \in 0 .. Len(order) - 1 : <<p, order[ClockAt(d)]>> \notin referenced}
  <2>1. D \subseteq Nat /\ D # {}
        BY <1>1
  <2>2. QED BY <2>1, MinIn, Zenon DEF ClockSteps
<1>3. ClockVictim(p) \in 1 .. Len(order)
      BY <1>1, <1>2 DEF ClockVictim, ClockAt
<1>4. CASE Len(order) = 1
      BY <1>3, <1>4 DEF ClockHand
<1>5. CASE Len(order) # 1
  <2>1. ClockVictim(p) % Len(order) \in Nat /\ Len(order) - 1 \in Nat \ {0}
        BY <1>1, <1>3, <1>5
  <2>2. \A x \in Nat, n \in Nat \ {0} : x % n \in Nat /\ x % n < n
        OBVIOUS
  <2>3. QED BY <1>3, <1>5, <2>1, <2>2, Zenon DEF ClockHand
<1>6. QED BY <1>4, <1>5

LEMMA VictimIn ==
  ASSUME PolicyInv, order # <<>>, NEW p
  PROVE  VictimIndex(p) \in 1 .. Len(order)
<1>1. FifoVictim \in 1 .. Len(order)
      BY DEF FifoVictim, PolicyInv, Lists
<1>2. QED BY <1>1, LruVictimIn, ClockVictimIn DEF VictimIndex, Uses

\* Ranks are numbers.
LEMMA RankedType ==
  ASSUME NEW ranks \in [Frame -> Nat], NEW n \in Nat, Ranked(ranks, n)
  PROVE  last' \in [Frame -> Nat] /\ now' \in Nat
<1> DEFINE T == {ranks[f] : f \in Frame}
           V == T \cup {n}
           Below(x) == {y \in V : 0 < y /\ y <= x}
<1>1. ranks \in Surjection(Frame, T)
      BY DEF Surjection
<1>2. IsFiniteSet(T)
      BY <1>1, PagingAssumption, FS_Surjection
<1>3. IsFiniteSet(V)
      BY <1>2, FS_AddElement
<1>4. ASSUME NEW x PROVE Cardinality(Below(x)) \in Nat
      BY <1>3, FS_Subset, FS_CardinalityType
<1>5. /\ last' = [f \in Frame |-> Cardinality(Below(ranks[f]))]
      /\ now' = Cardinality(Below(n))
      BY DEF Ranked
<1> HIDE DEF Below
<1>6. QED BY <1>4, <1>5

LEMMA StampType ==
  ASSUME PolicyInv, NEW f \in Frame, Stamp(f)
  PROVE  last' \in [Frame -> Nat] /\ now' \in Nat
<1>1. CASE policy = "lru"
  <2>1. [last EXCEPT ![f] = now] \in [Frame -> Nat] /\ now \in Nat
        BY DEF PolicyInv
  <2>2. QED BY <1>1, <2>1, RankedType, Zenon DEF Stamp
<1>2. CASE policy # "lru"
      BY <1>2 DEF Stamp, PolicyInv
<1>3. QED BY <1>1, <1>2

-----------------------------------------------------------------------------
\* What the pager finds when it asks the policy.
LEMMA PagerFacts ==
  ASSUME PagingInv, NEW p \in Pid, NEW v \in Vpn
  PROVE  /\ pt[p][v].frame # None => pt[p][v].frame \in Frame
         /\ FreeFrames # {} => Min(FreeFrames) \in Frame
<1>1. StoreType(pt, owner, ram, slot, tracked, unsaved)
      BY DEF PagingInv, StoreInv, Sound
<1>2. pt[p][v].frame # None => pt[p][v].frame \in Frame
      BY <1>1 DEF StoreType, Pte
<1>3. FreeFrames # {} => Min(FreeFrames) \in Frame
  <2>1. FreeFrames \subseteq Frame /\ FreeFrames \subseteq Nat
        BY PagingAssumption, Zenon DEF FreeFrames
  <2>2. QED BY <2>1, MinIn, Zenon
<1>4. QED BY <1>2, <1>3

LEMMA TrackedAllocated == ASSUME PagingInv PROVE tracked \subseteq Allocated
<1>1. /\ StoreType(pt, owner, ram, slot, tracked, unsaved)
      /\ \A g \in Frame : FrameSound(pt, owner, ram, tracked, g)
      BY DEF PagingInv, StoreInv, Sound
<1>2. QED BY <1>1 DEF StoreType, FrameSound, Allocated

LEMMA MaxOfZero == ASSUME NEW n \in Int PROVE Max({0, n}) \in Nat /\ Max({0, n}) >= n
<1>1. \E x \in {0, n} : \A y \in {0, n} : y <= x
      OBVIOUS
<1>2. Max({0, n}) \in {0, n} /\ \A y \in {0, n} : y <= Max({0, n})
      BY <1>1, Zenon DEF Max
<1>3. QED BY <1>2

\* The policy names a frame that it was told of, and none only if there is none.
LEMMA ChosenTracked ==
  ASSUME PolicyInv, NEW p
  PROVE  /\ order # <<>> => Chosen(p) \in tracked /\ Chosen(p) \in Frame
         /\ order = <<>> => tracked = {}
<1>1. Lists(order, tracked)
      BY DEF PolicyInv
<1>2. ASSUME order # <<>> PROVE Chosen(p) \in tracked /\ Chosen(p) \in Frame
  <2>1. PICK i \in 1 .. Len(order) : i = VictimIndex(p)
        BY <1>2, VictimIn
  <2>2. order[i] \in Frame
        BY <1>1 DEF Lists
  <2>3. QED BY <1>1, <2>1, <2>2 DEF Lists, Chosen
<1>3. ASSUME order = <<>> PROVE tracked = {}
      BY <1>1, <1>3 DEF Lists
<1>4. QED BY <1>2, <1>3

\* The conjuncts of PolicyInv in the next state.
LEMMA PolicyKept ==
  ASSUME PolicyInv, policy' = policy, Lists(order', tracked'),
         hand' = hand /\ Len(order) <= Len(order'),
         last' \in [Frame -> Nat] /\ now' \in Nat
  PROVE  PolicyInv'
BY DEF PolicyInv, HandInArray, Lists

LEMMA EvictInv ==
  ASSUME PolicyInv, policy' = policy, NEW p, NEW v, order # <<>>,
         \/ tracked' = tracked \ {Chosen(p)} /\ PolicyEvict(p)
         \/ tracked' = tracked \cup {Chosen(p)} /\ PolicyReplace(p, v)
  PROVE  PolicyInv'
<1> DEFINE f == Chosen(p)
<1>1. VictimIndex(p) \in 1 .. Len(order) /\ Lists(order, tracked)
      BY VictimIn DEF PolicyInv
<1>2. /\ Lists(Evicted(p), tracked \ {f})
      /\ f \in tracked /\ f \in Frame
      /\ Len(order) \in Nat /\ Len(Evicted(p)) = Len(order) - 1
      BY <1>1, ListsRemoved, Zenon DEF Evicted, Lists, Chosen
<1>3. /\ Lists(Inserted(Evicted(p), f), tracked)
      /\ Len(Inserted(Evicted(p), f)) = Len(order)
  <2>1. (tracked \ {f}) \cup {f} = tracked /\ f \notin tracked \ {f}
        BY <1>2
  <2> DEFINE s == Evicted(p)
             F == tracked \ {f}
  <2> HIDE DEF f, s, F
  <2>2. /\ Lists(Inserted(s, f), F \cup {f})
        /\ Len(Inserted(s, f)) = IF f \in F THEN Len(s) ELSE Len(s) + 1
        BY <1>2, ListsInserted DEF s, F
  <2>3. Lists(Inserted(s, f), tracked) /\ Len(Inserted(s, f)) = Len(s) + 1
        BY <2>1, <2>2, Zenon DEF F
  <2>4. Len(s) = Len(order) - 1 /\ Len(order) \in Nat
        BY <1>2 DEF s
  <2>5. QED BY <2>3, <2>4 DEF s
<1>4. hand' = IF policy = "clock" THEN ClockHand(p) ELSE hand
      BY DEF PolicyEvict, PolicyReplace, Uses
<1>5. HandInArray(hand', Len(order) - 1)
      BY <1>2, <1>4, ClockVictimIn DEF PolicyInv, HandInArray
<1>6. CASE tracked' = tracked \ {f} /\ PolicyEvict(p)
  <2>1. order' = Evicted(p) /\ UNCHANGED <<last, now>>
        BY <1>6 DEF PolicyEvict
  <2>2. QED BY <1>2, <1>5, <1>6, <2>1 DEF PolicyInv, HandInArray
<1>7. CASE tracked' = tracked \cup {f} /\ PolicyReplace(p, v)
  <2>1. tracked' = tracked
        BY <1>2, <1>7
  <2>2. order' = Inserted(Evicted(p), f) /\ Stamp(f)
        BY <1>7 DEF PolicyReplace
  <2>3. last' \in [Frame -> Nat] /\ now' \in Nat
        BY <1>2, <2>2, StampType
  <2>4. HandInArray(hand', Len(order))
        BY <1>2, <1>5 DEF HandInArray
  <2>5. QED BY <1>3, <2>1, <2>2, <2>3, <2>4 DEF PolicyInv, HandInArray
<1>8. QED BY <1>6, <1>7

LEMMA AccessPolicyInv ==
  ASSUME PagingInv, PolicyInv, NEW p \in Pid, NEW v \in Vpn, NEW w, AccessWithPolicy(p, v, w)
  PROVE  PolicyInv'
<1>1. Lists(order, tracked) /\ Len(order) \in Nat
      BY ListsFacts, Zenon DEF PolicyInv
<1>2. ASSUME UNCHANGED policyVars, tracked' = tracked, policy' = policy PROVE PolicyInv'
      BY <1>1, <1>2, PolicyKept DEF policyVars, PolicyInv
<1>3. CASE TlbHit(p, v, w) /\ UNCHANGED policyVars
      BY <1>2, <1>3, Zenon DEF TlbHit
<1>4. CASE PageHit(p, v, w) /\ PolicyHit(p, v)
  <2> DEFINE f == pt[p][v].frame
  <2>1. f \in Frame /\ policy' = policy
        /\ tracked' = IF policy = "lru" THEN tracked \cup {f} ELSE tracked
        BY <1>4, PagerFacts, Zenon DEF PageHit
  <2>2. order' = (IF policy = "lru" THEN Inserted(order, f) ELSE order) /\ Stamp(f) /\ hand' = hand
        BY <1>4, Zenon DEF PolicyHit, Uses
  <2> HIDE DEF f
  <2>3. last' \in [Frame -> Nat] /\ now' \in Nat
        BY <2>1, <2>2, StampType
  <2>4. Lists(order', tracked') /\ Len(order) <= Len(order')
        BY <1>1, <2>1, <2>2, ListsInserted
  <2>5. QED BY <2>1, <2>2, <2>3, <2>4, PolicyKept
<1>5. CASE FaultIntoFree(p, v, w) /\ PolicyInsert(p, v)
  <2> DEFINE f == Min(FreeFrames)
  <2>1. f \in Frame /\ policy' = policy /\ tracked' = tracked \cup {f}
        BY <1>5, PagerFacts, Zenon DEF FaultIntoFree, PageIn
  <2>2. order' = Inserted(order, f) /\ Stamp(f) /\ hand' = hand
        BY <1>5 DEF PolicyInsert
  <2> HIDE DEF f
  <2>3. last' \in [Frame -> Nat] /\ now' \in Nat
        BY <2>1, <2>2, StampType
  <2>4. Lists(order', tracked') /\ Len(order) <= Len(order')
        BY <1>1, <2>1, <2>2, ListsInserted
  <2>5. QED BY <2>1, <2>2, <2>3, <2>4, PolicyKept
<1>6. CASE order # <<>> /\ FaultEvicts(p, v, w, Chosen(p)) /\ PolicyReplace(p, v)
  <2>1. policy' = policy /\ tracked' = tracked \cup {Chosen(p)}
        BY <1>6, Zenon DEF FaultEvicts, PageIn
  <2>2. QED BY <1>6, <2>1, EvictInv
<1>7. CASE (Forbidden(v, w) \/ NoVictim(p, v, w)) /\ UNCHANGED policyVars
      BY <1>2, <1>7, Zenon DEF Forbidden, NoVictim, storeVars
<1>8. CASE order # <<>> /\ VictimUnsaved(p, v, w, Chosen(p)) /\ PolicyEvict(p)
  <2>1. policy' = policy /\ tracked' = tracked \ {Chosen(p)}
        BY <1>8, Zenon DEF VictimUnsaved
  <2>2. QED BY <1>8, <2>1, EvictInv
<1>9. HitServed(p, v, w) \/ FaultServed(p, v, w) \/ Refused(p, v, w)
      BY Zenon DEF AccessWithPolicy
<1>10. QED BY <1>3, <1>4, <1>5, <1>6, <1>7, <1>8, <1>9, Zenon DEF HitServed, FaultServed, Refused

LEMMA ReplacementNextInv ==
  ASSUME PagingInv, PolicyInv, [ReplacementNext]_allVars
  PROVE  PolicyInv'
<1>1. Lists(order, tracked) /\ Len(order) \in Nat
      BY ListsFacts DEF PolicyInv
<1>2. ASSUME UNCHANGED <<policyVars, policy, tracked>> PROVE PolicyInv'
      BY <1>1, <1>2, PolicyKept DEF policyVars, PolicyInv
<1>3. ASSUME NEW p \in Pid, WithoutPolicy(p) PROVE PolicyInv'
  <2>1. UNCHANGED <<policyVars, policy, tracked>>
        BY <1>3, Zenon DEF WithoutPolicy, PageInDone, Scheduled, storeVars
  <2>2. QED BY <1>2, <2>1
<1>4. ASSUME NEW name \in Policies, SetPolicyExactly(name) PROVE PolicyInv'
  <2>1. /\ policy' = name /\ tracked' = Allocated /\ order' \in Ascending(Allocated)
        /\ hand' = 0 /\ last' = [f \in Frame |-> 0] /\ now' = 0
        BY <1>4 DEF SetPolicyExactly, SetPolicy
  <2>2. Allocated \subseteq Frame
        BY DEF Allocated
  <2>3. Lists(order', tracked')
        BY <2>1, <2>2, ListsAscending
  <2>4. policy' \in {"fifo", "lru", "clock"}
        BY <2>1, PagingAssumption
  <2>5. QED BY <2>1, <2>3, <2>4 DEF PolicyInv, HandInArray
<1>5. CASE Tick
  <2>1. policy' = policy /\ tracked' = tracked /\ order' = order /\ hand' = hand
        BY <1>5 DEF Tick, vars, storeVars
  <2>2. last \in [Frame -> Nat] /\ now + 1 \in Nat
        BY DEF PolicyInv
  <2>3. last' \in [Frame -> Nat] /\ now' \in Nat
        BY <1>5, <2>2, RankedType DEF Tick
  <2>4. QED BY <1>1, <2>1, <2>3, PolicyKept
<1>6. CASE UNCHANGED allVars
  <2>1. UNCHANGED <<policyVars, policy, tracked>>
        BY <1>6 DEF allVars, vars, storeVars
  <2>2. QED BY <1>2, <2>1
<1>7. QED BY <1>3, <1>4, <1>5, <1>6, AccessPolicyInv, Zenon DEF ReplacementNext

\* Every step of the pager with a policy is one that Paging allows, because the
\* array and the frames that the policy was told of agree.
LEMMA AccessAllowed ==
  ASSUME PolicyInv, NEW p \in Pid, NEW v \in Vpn, NEW w \in BOOLEAN, AccessWithPolicy(p, v, w)
  PROVE  AccessStep(p)
<1>1. HitServed(p, v, w) => TlbHit(p, v, w) \/ PageHit(p, v, w)
      BY Zenon DEF HitServed
<1>2. FaultServed(p, v, w) => Fault(p, v, w)
      BY ChosenTracked, Zenon DEF FaultServed, Fault
<1>3. Refused(p, v, w) => AccessFails(p, v, w)
      BY ChosenTracked, Zenon DEF Refused, AccessFails, OutOfMemory
<1>4. AccessDone(p, v, w) \/ AccessSleeps(p, v, w) \/ AccessError(p, v, w)
      BY <1>1, <1>2, <1>3, Zenon DEF AccessWithPolicy, AccessDone, AccessSleeps, AccessError
<1>5. QED BY <1>4, Zenon DEF AccessStep

LEMMA ReplacementSteps == PolicyInv /\ [ReplacementNext]_allVars => [PagingNext]_vars
<1> SUFFICES ASSUME PolicyInv, [ReplacementNext]_allVars PROVE [PagingNext]_vars
    OBVIOUS
<1>1. ASSUME NEW p \in Pid, NEW v \in Vpn, NEW w \in BOOLEAN, AccessWithPolicy(p, v, w)
      PROVE  PagingNext
      BY <1>1, AccessAllowed, Zenon DEF PagingNext
<1>2. ASSUME NEW p \in Pid, WithoutPolicy(p) PROVE PagingNext
      BY <1>2, Zenon DEF WithoutPolicy, PagingNext
<1>3. ASSUME NEW name \in Policies, SetPolicyExactly(name) PROVE PagingNext
      BY <1>3, Zenon DEF SetPolicyExactly, PagingNext
<1>4. Tick \/ UNCHANGED allVars => UNCHANGED vars
      BY DEF Tick, allVars
<1>5. QED BY <1>1, <1>2, <1>3, <1>4, Zenon DEF ReplacementNext

LEMMA ReplacementInitInv == ReplacementInit => PolicyInv
<1> SUFFICES ASSUME ReplacementInit PROVE PolicyInv
    OBVIOUS
<1>1. /\ order = <<>> /\ tracked = {} /\ hand = 0 /\ policy = "fifo"
      /\ last = [f \in Frame |-> 0] /\ now = 0
      BY Zenon DEF ReplacementInit, PagingInit
<1>2. Lists(order, tracked)
      BY <1>1 DEF Lists
<1>3. last \in [Frame -> Nat] /\ now \in Nat
      BY <1>1
<1>4. QED BY <1>1, <1>2, <1>3 DEF PolicyInv, HandInArray

LEMMA PolicyInvAlways == ReplacementSpec => [](PagingInv /\ PolicyInv)
<1>1. ReplacementInit => PagingInv /\ PolicyInv
      BY PagingInitInv, ReplacementInitInv DEF ReplacementInit
<1>2. PagingInv /\ PolicyInv /\ [ReplacementNext]_allVars => PagingInv' /\ PolicyInv'
      BY ReplacementNextInv, ReplacementSteps, PagingNextInv, PagingStutterInv
<1>3. QED BY <1>1, <1>2, PTL DEF ReplacementSpec

-----------------------------------------------------------------------------
\* fifo, lru and clock implement the policy that Paging assumes, one that evicts
\* some frame that it was told of: the frame at the place of the array that they
\* compute was inserted and is still allocated, and they return none only when
\* there is none.  So pages are isolated and written pages survive under all
\* three, and across a change of policy.
THEOREM PoliciesImplementPaging == ReplacementSpec => PagingSpec
<1>1. ReplacementInit => PagingInit
      BY DEF ReplacementInit
<1>2. QED BY <1>1, PolicyInvAlways, ReplacementSteps, PTL DEF ReplacementSpec, PagingSpec

\* The array of every policy lists each tracked frame once and no other, after
\* insert, update, a failed eviction and pager_set_policy, and the hand of clock,
\* which moves on before the victim is taken out of the array, stays in it.
THEOREM PoliciesAlwaysTrack == ReplacementSpec => []PolicyTracks
<1>1. PagingInv /\ PolicyInv => PolicyTracks
  <2> SUFFICES ASSUME PagingInv, PolicyInv PROVE PolicyTracks
      OBVIOUS
  <2>1. Range(order) = tracked /\ Len(order) \in Nat /\ Len(order) = Cardinality(tracked)
        BY ListsFacts DEF PolicyInv
  <2>2. tracked \subseteq Allocated
        BY TrackedAllocated
  <2>3. hand \in 0 .. Max({0, Len(order) - 1})
    <3>1. hand \in Nat /\ (hand = 0 \/ hand < Len(order))
          BY DEF PolicyInv, HandInArray
    <3>2. \A n \in Int : Max({0, n}) \in Nat /\ Max({0, n}) >= n
          BY MaxOfZero
    <3>3. QED BY <2>1, <3>1, <3>2
  <2>4. QED BY <2>1, <2>2, <2>3 DEF PolicyTracks
<1>2. QED BY <1>1, PolicyInvAlways, PTL
=============================================================================
