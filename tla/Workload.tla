-------------------------------- MODULE Workload --------------------------------
(***************************************************************************)
(* workload.c: what workload_load makes of a file, and which of its three  *)
(* candidate files runtime_run_workload takes.                             *)
(*                                                                         *)
(* A line is its first field and the numbers that follow it; Junk is a     *)
(* field that is not a number, and a line without fields (blank, or only a *)
(* comment) has the op "".  A file is a sequence of lines; NoFile cannot be *)
(* opened.                                                                 *)
(***************************************************************************)
EXTENDS Integers, Sequences, FiniteSets

CONSTANTS MaxInsns,   \* MOSRT_MAX_WORKLOAD_INSNS
          Modulus,    \* the number of values of a uint64_t
          Junk, NoFile

ASSUME WorkloadAssumption == MaxInsns \in Nat \ {0} /\ Modulus \in Nat \ {0}

Line == [op : STRING, args : Seq(Int \cup {Junk})]

\* The number of arguments that each instruction takes.
Arity == [CPU |-> 1, IO |-> 1, SEND |-> 2, RECV |-> 1, SEM_WAIT |-> 1, SEM_POST |-> 1,
          LOCK |-> 1, UNLOCK |-> 1, MMAP |-> 1, ACCESS |-> 2, MFREE |-> 0, EXIT |-> 0]

Exit == [op |-> "EXIT", args |-> <<>>]

\* parse_u64: strtoull takes a sign, and wraps what is below zero.
InRange(n) == n \in 1 - Modulus .. Modulus - 1
U64(n) == n % Modulus

\* The instruction of a line; only a burst is read with parse_u64.
Insn(line) ==
  IF line.op \in {"CPU", "IO"} THEN [line EXCEPT !.args = <<U64(@[1])>>] ELSE line

\* Mutant of Accepted: a burst may be zero.
AcceptedAnyBurst(line) ==
  /\ line.op \in DOMAIN Arity
  /\ Len(line.args) = Arity[line.op]
  /\ \A i \in DOMAIN line.args : line.args[i] # Junk
  /\ line.op \in {"CPU", "IO"} => InRange(line.args[1])

\* A line with an unknown op, too few or too many fields, a field that is not a
\* number, or a burst of zero or out of range ends the load with an error.
Accepted(line) ==
  /\ line.op \in DOMAIN Arity
  /\ Len(line.args) = Arity[line.op]
  /\ \A i \in DOMAIN line.args : line.args[i] # Junk
  /\ line.op \in {"CPU", "IO"} => InRange(line.args[1]) /\ U64(line.args[1]) # 0

\* The lines that are not skipped, and what is made of them: the sequences that
\* list them in their order (there is one).
Kept(file) == {i \in DOMAIN file : file[i].op # ""}
InOrder(S) ==
  {s \in [1 .. Cardinality(S) -> S] : \A i, j \in 1 .. Cardinality(S) : i < j => s[i] < s[j]}
Bodies(file) == {[i \in DOMAIN s |-> file[s[i]]] : s \in InOrder(Kept(file))}

\* An EXIT is added at the end.
Ended(body) == IF body = <<>> \/ body[Len(body)] # Exit THEN Append(body, Exit) ELSE body

\* workload_load returned 0.
Loads(file) ==
  /\ file # NoFile
  /\ \A i \in Kept(file) : Accepted(file[i])
  /\ \A body \in Bodies(file) : Len(Ended(body)) <= MaxInsns

Program(body) == [i \in DOMAIN Ended(body) |-> Insn(Ended(body)[i])]
Loaded(file) == {Program(body) : body \in Bodies(file)}

\* runtime_run_workload: path, workloads/path, mosrt/workloads/path.  A candidate
\* that opens and has an error is passed over like one that is missing.
Taken(candidates) ==
  UNION {Loaded(candidates[i]) : i \in {j \in DOMAIN candidates :
     /\ Loads(candidates[j])
     /\ \A k \in 1 .. j - 1 : ~ Loads(candidates[k])}}
=============================================================================
