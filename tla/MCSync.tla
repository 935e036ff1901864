-------------------------------- MODULE MCSync --------------------------------
EXTENDS Sync, TLC

\* Neither pids nor ids are told apart.
PidAndIdSymmetry == Permutations(Pid) \cup Permutations(SemId)
=============================================================================
