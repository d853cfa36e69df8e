---------------------------- MODULE TopOrderQueue ----------------------------
(***************************************************************************)
(* queue.rs, TopOrderQueue: an array with one slot per position of a given *)
(* order, and a window front .. back - 1 outside which every slot is       *)
(* empty.  The head is the slot at front, read without a look at the rest. *)
(***************************************************************************)
EXTENDS Integers

CONSTANTS
  State,  \* the states of the automaton
  None,   \* an empty slot
  N,      \* how many positions there are
  order   \* order[s]: the position state s takes

Position == 0 .. N - 1

ASSUME OrderAssumption ==
  /\ N \in Nat
  /\ None \notin State
  /\ order \in [State -> Position]
  /\ \A s, t \in State : order[s] = order[t] => s = t

VARIABLES
  at,     \* at[p]: the state queued at position p, or None
  front,  \* where the head is, when the window is not empty
  back    \* one past the last position holding a state

vars == <<at, front, back>>

Init ==
  /\ at = [p \in Position |-> None]
  /\ front = 0
  /\ back = 0

Smaller(a, b) == IF a <= b THEN a ELSE b
Larger(a, b)  == IF a >= b THEN a ELSE b

is_empty == front >= back

head == IF front < back THEN at[front] ELSE None

\* An empty window moves to the position; another one widens to hold it.
enqueue(s) ==
  LET p == order[s] IN
  /\ IF is_empty THEN front' = p /\ back' = p + 1
     ELSE front' = Smaller(front, p) /\ back' = Larger(back, p + 1)
  /\ at' = [at EXCEPT ![p] = s]

\* The head's slot is emptied, and front runs on to the next full slot or to
\* the end of the window.
AdvancesTo(f) ==
  /\ f < back => at'[f] # None
  /\ \A p \in front .. f - 1 : at'[p] = None

\* Mutant: front steps to the next position only.
dequeue_OneStep ==
  /\ head # None
  /\ at' = [at EXCEPT ![front] = None]
  /\ front' = front + 1
  /\ UNCHANGED back

dequeue ==
  /\ head # None
  /\ at' = [at EXCEPT ![front] = None]
  /\ \E f \in front .. back : AdvancesTo(f) /\ front' = f
  /\ UNCHANGED back

\* Only the window's slots are swept.
clear ==
  /\ at' = [p \in Position |-> IF front <= p /\ p < back THEN None ELSE at[p]]
  /\ front' = 0
  /\ back' = 0

Next == (\E s \in State : enqueue(s)) \/ dequeue \/ clear

Spec == Init /\ [][Next]_vars

-----------------------------------------------------------------------------
TypeOK ==
  /\ at \in [Position -> State \cup {None}]
  /\ front \in 0 .. N
  /\ back \in 0 .. N

\* Nothing is queued outside the window, so neither a sweep of the window by
\* clear nor the end of front's run over it leaves a state behind.
WindowHoldsAll ==
  \A p \in Position : at[p] # None => front <= p /\ p < back

\* Each slot holds the state whose position it is.
SlotsAreOrdered ==
  \A p \in Position : at[p] # None => order[at[p]] = p

\* A window that is not empty starts at a state: head answers one whenever
\* is_empty says there is one, and back ends at a state.
WindowIsTight ==
  front < back => at[front] # None /\ at[back - 1] # None

\* The discipline loses no state and invents none, and answers the queued
\* state that comes first in the order.
queued == {at[p] : p \in Position} \ {None}

Promise == INSTANCE WorkSet WITH rank <- order

ImplementsWorkSet == Promise!Spec
=============================================================================
