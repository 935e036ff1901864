------------------------------- MODULE MCPaging -------------------------------
EXTENDS Paging, TLC

PidSymmetry == Permutations(Pid)

\* Nothing reads the exit code of a process.
WithoutExitCode == <<state, current, insn, storeVars, heapVars>>
=============================================================================
