--------------------------- MODULE StateOrderQueue ---------------------------
(***************************************************************************)
(* queue.rs, StateOrderQueue: a growable bit set of state ids and a window *)
(* front .. back - 1.  The head is the number front itself, whatever the   *)
(* bit there says.                                                         *)
(***************************************************************************)
EXTENDS Integers

CONSTANT N  \* the states are 0 .. N - 1

States == 0 .. N - 1

VARIABLES
  queued,  \* the bits that are set
  front,   \* the head, when the window is not empty
  back     \* one past the last id queued

vars == <<queued, front, back>>

Init == queued = {} /\ front = 0 /\ back = 0

Smaller(a, b) == IF a <= b THEN a ELSE b
Larger(a, b)  == IF a >= b THEN a ELSE b

enqueue(s) ==
  /\ IF front >= back THEN front' = s /\ back' = s + 1
     ELSE front' = Smaller(front, s) /\ back' = Larger(back, s + 1)
  /\ queued' = queued \cup {s}

\* The head loses its bit, and front runs on to the next id with one.
AdvancesTo(f) ==
  /\ f < back => f \in queued'
  /\ (front .. f - 1) \cap queued' = {}

dequeue ==
  /\ front < back
  /\ queued' = queued \ {front}
  /\ \E f \in front .. back : AdvancesTo(f) /\ front' = f
  /\ UNCHANGED back

clear ==
  /\ queued' = queued \ (front .. back - 1)
  /\ front' = 0
  /\ back' = 0

Next == (\E s \in States : enqueue(s)) \/ dequeue \/ clear

Spec == Init /\ [][Next]_vars

-----------------------------------------------------------------------------
TypeOK == queued \subseteq States /\ front \in 0 .. N /\ back \in 0 .. N

\* The window spans exactly from the first id queued to the last: head, which
\* looks at no bit, answers a state that is queued.
WindowIsTight ==
  /\ queued \subseteq (front .. back - 1)
  /\ front < back => front \in queued /\ back - 1 \in queued

\* The discipline loses no state and invents none, and answers the lowest id.
Promise == INSTANCE WorkSet WITH State <- States, rank <- [s \in States |-> s]

ImplementsWorkSet == Promise!Spec
=============================================================================
