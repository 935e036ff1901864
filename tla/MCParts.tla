-------------------------------- MODULE MCParts --------------------------------
(***************************************************************************)
(* Two parts that share no state, the heap of one process and the session, *)
(* checked side by side: part says which of them moves.                    *)
(***************************************************************************)
EXTENDS HeapAlloc, Session

VARIABLE part

Init == HeapInit /\ SessionInit /\ part \in {"heap", "session"}

Next ==
  \/ part = "heap" /\ HeapNext /\ UNCHANGED <<sessionVars, part>>
  \/ part = "session" /\ SessionNext /\ UNCHANGED <<heapVars, part>>

Spec == Init /\ [][Next]_<<heapVars, sessionVars, part>>

Read(op, args) == [op |-> op, args |-> args]

\* Files that load, with and without an EXIT of their own, with the burst -1 and
\* with one instruction too many, and files with each kind of error.
SmallFiles ==
  {NoFile,
   <<>>,
   <<Read("CPU", <<2>>)>>,
   <<Read("", <<>>), Read("IO", <<1>>), Read("CPU", <<1>>)>>,
   <<Read("IO", <<-1>>), Read("EXIT", <<>>)>>,
   <<Read("EXIT", <<>>), Read("CPU", <<1>>)>>,
   <<Read("CPU", <<1>>), Read("CPU", <<1>>), Read("CPU", <<1>>)>>,
   <<Read("CPU", <<0>>)>>,
   <<Read("IO", <<8>>)>>,
   <<Read("IO", <<Junk>>)>>,
   <<Read("CPU", <<1, 1>>)>>,
   <<Read("FORK", <<>>)>>}
=============================================================================
