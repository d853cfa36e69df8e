------------------------------- MODULE SccQueue -------------------------------
(***************************************************************************)
(* queue.rs, SccQueue: one queue per strongly connected component and a    *)
(* window of components front .. back - 1.  Every read of the queue (head, *)
(* is_empty) moves front past the components it finds drained.  A          *)
(* component runs the discipline given for it: Trivial holds one state,    *)
(* Fifo and Lifo a sequence, ShortestFirst a heap without keys, ordered by *)
(* distances that keep improving while their states wait.                  *)
(*                                                                         *)
(* The caller is shortest_distance: it improves the distance of a state,   *)
(* and enqueues the state if it is not waiting, and otherwise updates it.  *)
(***************************************************************************)
EXTENDS Integers, Sequences, SequencesExt, FiniteSets

CONSTANTS
  State,      \* the states of the automaton
  NScc,       \* how many components there are
  scc,        \* scc[s]: the component of s, numbered in topological order
  kind,       \* kind[c]: the discipline inside component c
  MaxDist,    \* bound: distances are 0 .. MaxDist
  FREE_FLAG   \* the heap's mark on a freed key

Component == 0 .. NScc - 1

\* A component with the trivial discipline has one state.

VARIABLES
  queues,    \* queues[c]: the inner queue of component c
  front,     \* the component being drained
  back,      \* one past the last component holding a state
  distance,  \* the caller's distances, read by the heaps
  enqueued   \* the caller's marks on the states that wait

vars == <<queues, front, back, distance, enqueued>>

H == INSTANCE HeapOps

-----------------------------------------------------------------------------
\* The inner disciplines.

Empty(c) == IF kind[c] = "ShortestFirst" THEN H!EmptyHeap ELSE <<>>

Items(c, q) ==
  IF kind[c] = "ShortestFirst" THEN [i \in 1 .. Len(q.elements) |-> q.elements[i].value] ELSE q

InnerEmpty(c) == Items(c, queues[c]) = <<>>

InnerHead(c) == IF kind[c] = "Lifo" THEN Last(queues[c]) ELSE Head(Items(c, queues[c]))

InnerEnqueue(c, s, dist) ==
  CASE kind[c] = "Trivial"       -> <<s>>
    [] kind[c] = "ShortestFirst" -> H!Insert(queues[c], dist, s)
    [] OTHER                     -> Append(queues[c], s)

InnerDequeue(c) ==
  CASE kind[c] = "ShortestFirst" -> H!Pop(queues[c], distance)
    [] kind[c] = "Lifo"          -> Front(queues[c])
    [] OTHER                     -> Tail(queues[c])

InnerClear(c) == IF kind[c] = "ShortestFirst" THEN H!Clear(queues[c]) ELSE <<>>

-----------------------------------------------------------------------------
Init ==
  /\ queues = [c \in Component |-> Empty(c)]
  /\ front = 0 /\ back = 0
  /\ distance = [s \in State |-> MaxDist]
  /\ enqueued = {}

Smaller(a, b) == IF a <= b THEN a ELSE b
Larger(a, b)  == IF a >= b THEN a ELSE b

\* The first component from front on that holds a state, or back.
SkipTo(f) ==
  /\ f \in front .. back
  /\ f < back => ~InnerEmpty(f)
  /\ \A c \in front .. f - 1 : InnerEmpty(c)

\* head and is_empty: the answer leaves front where the search ended.
head ==
  /\ \E f \in front .. back : SkipTo(f) /\ front' = f
  /\ UNCHANGED <<queues, back, distance, enqueued>>

enqueue(s) ==
  LET c == scc[s] IN
  /\ IF front >= back THEN front' = c /\ back' = c + 1
     ELSE front' = Smaller(front, c) /\ back' = Larger(back, c + 1)
  /\ queues' = [queues EXCEPT ![c] = InnerEnqueue(c, s, distance')]

\* The distances s may have after a relaxation, where a heap reads them.
Lower(s) == IF kind[scc[s]] = "ShortestFirst" THEN 0 .. distance[s] ELSE {distance[s]}

\* The caller relaxes an arc into s: its distance falls, and s is enqueued
\* unless it waits already.  An update moves nothing in any inner discipline:
\* the heaps here keep no keys to find the state by.
relax(s) ==
  /\ \E d \in Lower(s) : distance' = [distance EXCEPT ![s] = d]
  /\ IF s \in enqueued THEN UNCHANGED <<queues, front, back>> ELSE enqueue(s)
  /\ enqueued' = enqueued \cup {s}

dequeue ==
  \E f \in front .. back :
    /\ SkipTo(f)
    /\ f < back
    /\ front' = f
    /\ queues' = [queues EXCEPT ![f] = InnerDequeue(f)]
    /\ enqueued' = enqueued \ {InnerHead(f)}
    /\ UNCHANGED <<back, distance>>

\* Mutant: the sweep stops one component short.
clear_OneShort ==
  /\ queues' = [c \in Component |->
       IF Smaller(front, back) <= c /\ c < back - 1 THEN InnerClear(c) ELSE queues[c]]
  /\ front' = 0 /\ back' = 0
  /\ distance' = [s \in State |-> MaxDist]
  /\ enqueued' = {}

\* A new run: the queue is cleared and the caller's marks and distances with
\* it.  Only the window's queues are cleared.
clear ==
  /\ queues' = [c \in Component |->
       IF Smaller(front, back) <= c /\ c < back THEN InnerClear(c) ELSE queues[c]]
  /\ front' = 0 /\ back' = 0
  /\ distance' = [s \in State |-> MaxDist]
  /\ enqueued' = {}

Next == head \/ (\E s \in State : relax(s)) \/ dequeue \/ clear

Spec == Init /\ [][Next]_vars

-----------------------------------------------------------------------------
Held(c) == ToSet(Items(c, queues[c]))

TypeOK ==
  /\ front \in 0 .. NScc /\ back \in 0 .. NScc
  /\ distance \in [State -> 0 .. MaxDist]
  /\ enqueued \subseteq State
  /\ \A c \in Component : Held(c) \subseteq {s \in State : scc[s] = c}

\* A component outside the window holds nothing, however often reads moved
\* front on and enqueues moved it back: a sweep of the window clears all.
WindowHoldsAll ==
  \A c \in Component : Held(c) # {} => front <= c /\ c < back

\* The caller's marks and the queue's contents agree: a marked state waits in
\* its component's queue exactly once, although its heap may have lost its
\* order to distances that fell meanwhile.
MarkedStatesWaitOnce ==
  \A c \in Component :
    /\ Held(c) = {s \in enqueued : scc[s] = c}
    /\ Len(Items(c, queues[c])) = Cardinality(Held(c))

\* The queue is a work set that answers a state of the first component in
\* topological order that holds any; reads change nothing of it.
queued == UNION {Held(c) : c \in Component}

Promise == INSTANCE WorkSet WITH rank <- scc

ImplementsWorkSet == Promise!Spec
=============================================================================
