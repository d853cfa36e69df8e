------------------------ MODULE TopOrderQueueProofs ------------------------
(***************************************************************************)
(* The window of a TopOrderQueue, for every number of states and every     *)
(* order.  WindowHoldsAll, SlotsAreOrdered and WindowIsTight are inductive *)
(* only together: a dequeue keeps the window tight because nothing is      *)
(* queued outside it, and an enqueue keeps a slot's state at its position  *)
(* because the order is injective.                                         *)
(***************************************************************************)
EXTENDS TopOrderQueue, TLAPS

WindowInv == TypeOK /\ WindowHoldsAll /\ SlotsAreOrdered /\ WindowIsTight

(* An enqueue keeps the window around the full slots and full at both ends. *)
LEMMA EnqueueKeepsWindow ==
  ASSUME WindowInv, NEW s \in State, enqueue(s)
  PROVE  WindowInv'
<1> DEFINE p == order[s]
<1>1. p \in Position /\ p + 1 \in 0 .. N /\ s # None
  BY OrderAssumption DEF Position
<1>2. at' = [at EXCEPT ![p] = s] /\ at'[p] = s
  BY <1>1 DEF enqueue, WindowInv, TypeOK
<1>3. \A q \in Position : q # p => at'[q] = at[q]
  BY <1>2, <1>1 DEF WindowInv, TypeOK
<1>4. front' <= p /\ p < back' /\ front' \in 0 .. N /\ back' \in 0 .. N
  BY <1>1, OrderAssumption DEF enqueue, WindowInv, TypeOK, Smaller, Larger, is_empty, Position
<1>5. TypeOK'
  BY <1>1, <1>2, <1>4 DEF TypeOK, WindowInv
<1>6. WindowHoldsAll'
  <2> SUFFICES ASSUME NEW q \in Position, at'[q] # None
               PROVE  front' <= q /\ q < back'
    BY DEF WindowHoldsAll
  <2>1. CASE q = p
    BY <2>1, <1>4
  <2>2. CASE q # p
    <3>1. front <= q /\ q < back
      BY <2>2, <1>3 DEF WindowInv, WindowHoldsAll
    <3> QED
      BY <3>1, <1>1, OrderAssumption
         DEF enqueue, WindowInv, TypeOK, Smaller, Larger, is_empty, Position
  <2> QED
    BY <2>1, <2>2
<1>7. SlotsAreOrdered'
  BY <1>1, <1>2, <1>3 DEF SlotsAreOrdered, WindowInv
<1>8. WindowIsTight'
  <2>1. CASE is_empty
    <3>1. front' = p /\ back' - 1 = p
      BY <2>1, <1>1, OrderAssumption DEF enqueue, Position
    <3> QED
      BY <3>1, <1>1, <1>2 DEF WindowIsTight
  <2>2. CASE ~is_empty
    <3>1. at[front] # None /\ at[back - 1] # None
      BY <2>2 DEF WindowInv, WindowIsTight, is_empty, TypeOK
    <3>2. front \in Position /\ back - 1 \in Position
      BY <2>2, OrderAssumption DEF WindowInv, TypeOK, is_empty, Position
    <3>3. front' = Smaller(front, p) /\ back' = Larger(back, p + 1)
      BY <2>2 DEF enqueue
    <3>4. front' = front \/ front' = p
      BY <3>3 DEF Smaller
    <3>5. back' - 1 = back - 1 \/ back' - 1 = p
      BY <3>3, <1>1, OrderAssumption DEF Larger, Position
    <3> QED
      BY <3>1, <3>2, <3>4, <3>5, <1>1, <1>2, <1>3 DEF WindowIsTight
  <2> QED
    BY <2>1, <2>2
<1> QED
  BY <1>5, <1>6, <1>7, <1>8 DEF WindowInv

(* A dequeue empties the head's slot alone, and the slots front passes are   *)
(* empty: the window is tight again, or empty.                               *)
LEMMA DequeueKeepsWindow ==
  ASSUME WindowInv, dequeue
  PROVE  WindowInv'
<1>1. front < back /\ front \in Position /\ at[front] # None
  BY OrderAssumption DEF dequeue, head, WindowInv, TypeOK, Position
<1>2. at' = [at EXCEPT ![front] = None] /\ at'[front] = None /\ back' = back
  BY <1>1 DEF dequeue, WindowInv, TypeOK
<1>3. \A q \in Position : q # front => at'[q] = at[q]
  BY <1>2, <1>1 DEF WindowInv, TypeOK
<1>4. PICK f \in front .. back : AdvancesTo(f) /\ front' = f
  BY DEF dequeue
<1>5. TypeOK'
  <2>1. at' \in [Position -> State \cup {None}]
    BY <1>2 DEF WindowInv, TypeOK
  <2>2. front' \in 0 .. N /\ back' \in 0 .. N
    BY <1>2, <1>4, OrderAssumption DEF WindowInv, TypeOK
  <2> QED
    BY <2>1, <2>2 DEF TypeOK
<1>6. WindowHoldsAll'
  <2> SUFFICES ASSUME NEW q \in Position, at'[q] # None
               PROVE  front' <= q /\ q < back'
    BY DEF WindowHoldsAll
  <2>1. at[q] # None /\ front <= q /\ q < back
    BY <1>2, <1>3 DEF WindowInv, WindowHoldsAll
  <2>2. ~(q \in front .. f - 1)
    BY <1>4 DEF AdvancesTo
  <2> QED
    BY <2>1, <2>2, <1>2, <1>4, OrderAssumption DEF Position, WindowInv, TypeOK
<1>7. SlotsAreOrdered'
  BY <1>2, <1>3 DEF SlotsAreOrdered, WindowInv
<1>8. WindowIsTight'
  <2> SUFFICES ASSUME f < back PROVE at'[f] # None /\ at'[back - 1] # None
    BY <1>2, <1>4 DEF WindowIsTight
  <2>1. at'[f] # None
    BY <1>4 DEF AdvancesTo
  <2>2. f # front /\ back - 1 # front /\ back - 1 \in Position
    BY <2>1, <1>2, <1>4, OrderAssumption DEF Position, WindowInv, TypeOK
  <2>3. at[back - 1] # None
    BY <1>1 DEF WindowInv, WindowIsTight
  <2> QED
    BY <2>1, <2>2, <2>3, <1>3
<1> QED
  BY <1>5, <1>6, <1>7, <1>8 DEF WindowInv

(* The sweep of the window reaches every full slot.                          *)
LEMMA ClearEmptiesEverySlot ==
  ASSUME WindowInv, clear
  PROVE  /\ \A q \in Position : at'[q] = None
         /\ WindowInv'
<1>1. \A q \in Position : at'[q] = None
  BY DEF clear, WindowInv, WindowHoldsAll, TypeOK
<1>2. at' \in [Position -> State \cup {None}] /\ front' = 0 /\ back' = 0
  BY DEF clear, WindowInv, TypeOK
<1> QED
  BY <1>1, <1>2, OrderAssumption
     DEF WindowInv, TypeOK, WindowHoldsAll, SlotsAreOrdered, WindowIsTight

LEMMA WindowInvariant == Spec => []WindowInv
<1>1. Init => WindowInv
  BY OrderAssumption
     DEF Init, WindowInv, TypeOK, WindowHoldsAll, SlotsAreOrdered, WindowIsTight
<1>2. WindowInv /\ [Next]_vars => WindowInv'
  <2> SUFFICES ASSUME WindowInv, [Next]_vars PROVE WindowInv'
    OBVIOUS
  <2>1. CASE \E s \in State : enqueue(s)
    BY <2>1, EnqueueKeepsWindow
  <2>2. CASE dequeue
    BY <2>2, DequeueKeepsWindow
  <2>3. CASE clear
    BY <2>3, ClearEmptiesEverySlot
  <2>4. CASE UNCHANGED vars
    BY <2>4 DEF vars, WindowInv, TypeOK, WindowHoldsAll, SlotsAreOrdered, WindowIsTight
  <2> QED
    BY <2>1, <2>2, <2>3, <2>4 DEF Next
<1> QED
  BY <1>1, <1>2, PTL DEF Spec

(* Whatever is enqueued, dequeued and cleared, in any order: no state is     *)
(* queued where neither the head nor clear looks for it.                     *)
THEOREM NothingQueuedOutsideTheWindow == Spec => []WindowHoldsAll
  BY WindowInvariant, PTL DEF WindowInv

(* A queue that says it holds something answers a state, for every order.    *)
THEOREM HeadOfAWindowIsAState == Spec => []WindowIsTight
  BY WindowInvariant, PTL DEF WindowInv

-----------------------------------------------------------------------------
(* What the queue holds, as the work set the algorithms count on.            *)

LEMMA HeadComesFirst ==
  ASSUME WindowInv, dequeue
  PROVE  Promise!Dequeue(at[front])
<1>1. front < back /\ front \in Position /\ at[front] # None
  BY OrderAssumption DEF dequeue, head, WindowInv, TypeOK, Position
<1>2. at[front] \in queued /\ order[at[front]] = front
  BY <1>1 DEF queued, WindowInv, SlotsAreOrdered
<1>3. ASSUME NEW t \in queued PROVE order[at[front]] <= order[t]
  <2>1. PICK q \in Position : t = at[q] /\ at[q] # None
    BY DEF queued
  <2>2. order[t] = q /\ front <= q
    BY <2>1 DEF WindowInv, WindowHoldsAll, SlotsAreOrdered
  <2> QED
    BY <1>2, <2>2
<1>4. queued' = queued \ {at[front]}
  <2>1. at' = [at EXCEPT ![front] = None]
    BY DEF dequeue
  <2>2. at'[front] = None /\ \A q \in Position : q # front => at'[q] = at[q]
    BY <1>1, <2>1 DEF WindowInv, TypeOK
  <2>3. \A q \in Position : at[q] = at[front] => q = front
    BY <1>1 DEF WindowInv, SlotsAreOrdered
  <2> QED
    BY <1>1, <2>2, <2>3 DEF queued
<1> QED
  BY <1>2, <1>3, <1>4 DEF Promise!Dequeue

LEMMA EnqueueAddsOne ==
  ASSUME WindowInv, NEW s \in State, enqueue(s)
  PROVE  Promise!Enqueue(s)
<1> DEFINE p == order[s]
<1>1. p \in Position /\ s # None
  BY OrderAssumption
<1>2. at'[p] = s /\ \A q \in Position : q # p => at'[q] = at[q]
  BY <1>1 DEF enqueue, WindowInv, TypeOK
<1>3. at[p] # None => at[p] = s
  BY <1>1, OrderAssumption DEF WindowInv, TypeOK, SlotsAreOrdered
<1>4. queued' = queued \cup {s}
  BY <1>1, <1>2, <1>3 DEF queued
<1> QED
  BY <1>4 DEF Promise!Enqueue

(* The discipline implements a work set: every enqueue adds one state, every *)
(* dequeue answers and removes the queued state of the least position, and a *)
(* clear leaves none.                                                        *)
THEOREM TopOrderIsAWorkSet == Spec => ImplementsWorkSet
<1>1. Init => Promise!Init
  BY DEF Init, Promise!Init, queued
<1>2. WindowInv /\ [Next]_vars => [Promise!Next]_<<queued, order>>
  <2> SUFFICES ASSUME WindowInv, [Next]_vars PROVE [Promise!Next]_<<queued, order>>
    OBVIOUS
  <2>1. CASE \E s \in State : enqueue(s)
    BY <2>1, EnqueueAddsOne DEF Promise!Next
  <2>2. CASE dequeue
    <3>1. at[front] \in State
      BY <2>2, OrderAssumption DEF dequeue, head, WindowInv, TypeOK, Position
    <3> QED
      BY <2>2, <3>1, HeadComesFirst DEF Promise!Next
  <2>3. CASE clear
    <3>1. queued' = {}
      BY <2>3, ClearEmptiesEverySlot DEF queued
    <3> QED
      BY <3>1 DEF Promise!Next, Promise!Clear
  <2>4. CASE UNCHANGED vars
    BY <2>4 DEF vars, queued
  <2> QED
    BY <2>1, <2>2, <2>3, <2>4 DEF Next
<1> QED
  BY <1>1, <1>2, WindowInvariant, PTL DEF Spec, ImplementsWorkSet, Promise!Spec
=============================================================================
