---------------------------- MODULE MCReplacement ----------------------------
EXTENDS Replacement, TLC

PidSymmetry == Permutations(Pid)

\* No step reads exit codes, what frames and slots hold, which of the slots a page
\* is in, the TLB before the dispatch that flushes it, or the referenced bits of a
\* process that will not fault again.
SeenPages ==
  [p \in Pid |-> [v \in Vpn |-> <<pt[p][v].frame, pt[p][v].dirty, pt[p][v].slot # None>>]]
SeenTlb == IF current = None THEN None ELSE tlb
SeenBits == {r \in referenced : state[r[1]] # "EXITED"}

WithoutContents ==
  <<state, current, insn, SeenPages, owner, Cardinality(FreeSlots), SeenTlb, policy, tracked,
    heapVars, order, hand, last, now, SeenBits, stuck>>
=============================================================================
