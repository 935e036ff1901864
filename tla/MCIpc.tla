-------------------------------- MODULE MCIpc --------------------------------
EXTENDS Ipc, TLC

\* Neither pids nor ids are told apart.
PidAndIdSymmetry == Permutations(Pid) \cup Permutations(QueueId)
=============================================================================
