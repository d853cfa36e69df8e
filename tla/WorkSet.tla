------------------------------- MODULE WorkSet -------------------------------
(***************************************************************************)
(* What every queue discipline promises the algorithms that use one: the   *)
(* states enqueued and not yet dequeued, each once, none lost and none     *)
(* invented.  A discipline that ranks states answers one of lowest rank,   *)
(* by the ranks of the moment: an enqueue or the caller may change them.   *)
(***************************************************************************)
EXTENDS Integers

CONSTANT State  \* the states of the automaton

VARIABLES
  queued,  \* the states waiting
  rank     \* what the discipline orders states by; lower goes first

Init == queued = {}

Enqueue(s) == queued' = queued \cup {s}

Dequeue(s) ==
  /\ s \in queued
  /\ \A t \in queued : rank[s] <= rank[t]
  /\ queued' = queued \ {s}
  /\ UNCHANGED rank

Clear == queued' = {}

Rerank == UNCHANGED queued

Next == Clear \/ Rerank \/ \E s \in State : Enqueue(s) \/ Dequeue(s)

Spec == Init /\ [][Next]_<<queued, rank>>
=============================================================================
