------------------------------- MODULE MCObjects -------------------------------
EXTENDS Objects

CONSTANTS p1, p2, p3

\* Three processes on one kind of object, two on both.
ThreeOrTwo ==
  {[kinds |-> {"sync"}, pids |-> {p1, p2, p3}],
   [kinds |-> {"ipc"}, pids |-> {p1, p2, p3}],
   [kinds |-> {"sync", "ipc"}, pids |-> {p1, p2}]}
=============================================================================
