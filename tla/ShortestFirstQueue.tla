-------------------------- MODULE ShortestFirstQueue --------------------------
(***************************************************************************)
(* queue.rs, ShortestFirstQueue with UPDATE: a heap of states ordered by   *)
(* their distances, and for each state the key of its element; and the     *)
(* queues around one that refuse states.                                   *)
(*                                                                         *)
(* The caller is shortest_distance: it lowers the distance of a state and, *)
(* before anything else reads the heap, enqueues the state if its mark     *)
(* says it does not wait, and otherwise updates it.                        *)
(*                                                                         *)
(* FilterQueue does not enqueue what a filter rejects; it has no update of *)
(* its own, so it has the trait's, which does nothing.  PruneQueue refuses *)
(* a state whose distance is not under the best of its class plus a        *)
(* threshold; updates are noted and passed on.  PruneShortestFirstQueue    *)
(* guesses how many arcs each state is from the start, one more than the   *)
(* head's, and drops the states too far behind the longest path taken;     *)
(* past state_limit queued states the threshold tightens, and at nothing   *)
(* the queue empties itself.  The caller is not told of a drop.            *)
(***************************************************************************)
EXTENDS Integers, Sequences, FiniteSets

CONSTANTS
  State,     \* the states of the automaton
  None,      \* no key
  MaxDist,   \* bound: distances are 0 .. MaxDist, the last one the Zero
  FREE_FLAG, \* the heap's mark on a freed key
  Accepted,       \* FilterQueue: the states the filter accepts
  Class,          \* PruneQueue: the equivalence classes
  class_fnc,      \* class_fnc[s]: the class of s
  threshold,      \* how far past the best of its class a state may be
  arc_threshold,  \* PruneShortestFirstQueue: how far behind a state may be
  state_limit     \* how many states wait before that tightens

VARIABLES
  heap,      \* the heap
  keys,      \* keys[s]: the key of s, or None
  distance,  \* the caller's distances, read by the heap
  enqueued   \* the caller's marks on the states that wait

vars == <<heap, keys, distance, enqueued>>

H == INSTANCE HeapOps

Init ==
  /\ heap = H!EmptyHeap
  /\ keys = [s \in State |-> None]
  /\ distance = [s \in State |-> MaxDist]
  /\ enqueued = {}

-----------------------------------------------------------------------------
\* The operations of the queue.

enqueue(s) ==
  /\ heap' = H!Insert(heap, distance', s)
  /\ keys' = [keys EXCEPT ![s] = H!InsertKey(heap)]

update(s) ==
  IF keys[s] # None
  THEN heap' = H!Update(heap, distance', keys[s], s) /\ UNCHANGED keys
  ELSE enqueue(s)

pop ==
  /\ H!Length(heap) > 0
  /\ heap' = H!Pop(heap, distance)
  /\ keys' = [keys EXCEPT ![H!Top(heap)] = None]

wipe ==
  /\ heap' = H!Clear(heap)
  /\ keys' = [s \in State |-> None]

-----------------------------------------------------------------------------
\* The caller.

Lower(s) ==
  \E d \in 0 .. distance[s] - 1 : distance' = [distance EXCEPT ![s] = d]

relax(s) ==
  /\ Lower(s)
  /\ IF s \in enqueued THEN update(s) ELSE enqueue(s)
  /\ enqueued' = enqueued \cup {s}

dequeue ==
  /\ pop
  /\ enqueued' = enqueued \ {H!Top(heap)}
  /\ UNCHANGED distance

clear ==
  /\ wipe
  /\ distance' = [s \in State |-> MaxDist]
  /\ enqueued' = {}

Next == (\E s \in State : relax(s)) \/ dequeue \/ clear

Spec == Init /\ [][Next]_vars

-----------------------------------------------------------------------------
Held == {heap.elements[i].value : i \in 1 .. H!Length(heap)}

TypeOK ==
  /\ Held \subseteq State
  /\ keys \in [State -> Nat \cup {None}]
  /\ distance \in [State -> 0 .. MaxDist]
  /\ enqueued \subseteq State

\* A state's key names the one element that holds it, and a state that is not
\* in the heap has none: an update never moves another state's element.
KeysNameTheirStates ==
  /\ Cardinality(Held) = H!Length(heap)
  /\ \A s \in State :
       IF s \in Held
       THEN keys[s] # None /\ H!Live(heap, keys[s]) /\ H!Node(heap, H!Pos(heap, keys[s])).value = s
       ELSE keys[s] = None

\* The heap is in the order of the distances as they now stand, although the
\* caller lowers them from outside: every change reached the queue.
OrderFollowsDistances == H!InHeapOrder(heap, distance)

\* The queue holds exactly the states the caller marked, and answers one of
\* least distance.
Promise == INSTANCE WorkSet WITH queued <- Held, rank <- distance

MarksAreHeld == Held = enqueued

ImplementsWorkSet == Promise!Spec

VARIABLES
  class_distance,  \* PruneQueue: the best distance seen in each class
  reused,          \* history: the queue has been cleared since it was made
  steps,           \* PruneShortestFirstQueue: the arcs guessed to each state, for the states enqueued
  head_steps,      \* the arcs to the current head
  max_head_steps   \* the most arcs of any head

-----------------------------------------------------------------------------
(* FilterQueue.                                                            *)

filter_enqueue(s) ==
  IF s \in Accepted THEN enqueue(s) ELSE UNCHANGED <<heap, keys>>

filter_update(s) == UNCHANGED <<heap, keys>>

filter_relax(s) ==
  /\ Lower(s)
  /\ IF s \in enqueued THEN filter_update(s) ELSE filter_enqueue(s)
  /\ enqueued' = enqueued \cup {s}

FilterNext == (\E s \in State : filter_relax(s)) \/ dequeue \/ clear

-----------------------------------------------------------------------------
(* PruneQueue.                                                             *)

PruneInit ==
  /\ Init
  /\ class_distance = [c \in Class |-> MaxDist]
  /\ reused = FALSE

Times(a, b) == IF a + b < MaxDist THEN a + b ELSE MaxDist

\* The state's distance lowers the best of its class.
note(s) ==
  LET c == class_fnc[s] IN
  class_distance' = [class_distance EXCEPT
    ![c] = IF distance'[s] < class_distance[c] THEN distance'[s] ELSE class_distance[c]]

Within(s) == distance'[s] < Times(class_distance'[class_fnc[s]], threshold)

prune_enqueue(s) ==
  /\ note(s)
  /\ IF Within(s) THEN enqueue(s) ELSE UNCHANGED <<heap, keys>>

prune_update(s) == note(s) /\ update(s)

prune_relax(s) ==
  /\ Lower(s)
  /\ IF s \in enqueued THEN prune_update(s) ELSE prune_enqueue(s)
  /\ enqueued' = enqueued \cup {s}
  /\ UNCHANGED reused

prune_dequeue == dequeue /\ UNCHANGED <<class_distance, reused>>

\* The classes keep their bests.
prune_clear == clear /\ reused' = TRUE /\ UNCHANGED class_distance

PruneNext == (\E s \in State : prune_relax(s)) \/ prune_dequeue \/ prune_clear

\* Until the queue is cleared, the best of a class is the least distance any
\* state of it has now: no improvement escaped, by either way in.
BestIsTheLeast ==
  ~reused => \A c \in Class :
    LET members == {distance[s] : s \in {t \in State : class_fnc[t] = c}} \cup {MaxDist}
    IN  class_distance[c] \in members /\ \A d \in members : class_distance[c] <= d

\* Refused and let in: in its first run the queue refuses a state only when
\* another of its class is ahead of it by the threshold, and a state that is
\* not within the threshold comes in only by an update, after a refusal.
Justified ==
  \A s \in State : s \in enqueued' =>
       /\ ~reused /\ s \notin enqueued /\ s \notin Held' =>
            \E t \in State : /\ class_fnc[t] = class_fnc[s]
                             /\ Times(distance'[t], threshold) <= distance'[s]
       /\ s \in Held' \ Held => Within(s) \/ s \in enqueued

-----------------------------------------------------------------------------
(* PruneShortestFirstQueue.                                                *)

StepsInit ==
  /\ Init
  /\ steps = [s \in {} |-> 0]
  /\ head_steps = 0 /\ max_head_steps = 0

Less(a, b)     == IF a > b THEN a - b ELSE 0  \* saturating_sub
Larger(a, b)   == IF a >= b THEN a ELSE b

\* Mutant: the threshold tightens one multiple of the limit late.
adjusted_Late ==
  IF H!Length(heap) > state_limit
  THEN Less(arc_threshold, H!Length(heap) \div state_limit) ELSE arc_threshold

adjusted ==
  IF H!Length(heap) > state_limit
  THEN Less(arc_threshold, H!Length(heap) \div state_limit + 1) ELSE arc_threshold

\* head, and dequeue before it pops: the counters follow the head.
Count ==
  LET s == H!Top(heap) IN
  /\ head_steps' = steps[s]
  /\ max_head_steps' = Larger(max_head_steps, steps[s])

\* A state is kept if it is not too far behind, and a queue whose threshold
\* has gone to nothing is emptied before it.
steps_enqueue(s) ==
  LET n == head_steps + 1 IN
  /\ steps' = [t \in DOMAIN steps \cup {s} |-> IF t = s THEN n ELSE steps[t]]
  /\ IF n > Less(max_head_steps, adjusted)
     THEN IF adjusted = 0
          THEN /\ heap' = H!Insert(H!Clear(heap), distance', s)
               /\ keys' = [t \in State |-> IF t = s THEN H!InsertKey(H!Clear(heap)) ELSE None]
          ELSE enqueue(s)
     ELSE UNCHANGED <<heap, keys>>

\* An update reaches the inner queue past the gate, and may add a state that
\* was dropped.
steps_relax(s) ==
  /\ Lower(s)
  /\ IF s \in enqueued THEN update(s) /\ UNCHANGED steps ELSE steps_enqueue(s)
  /\ enqueued' = enqueued \cup {s}
  /\ UNCHANGED <<head_steps, max_head_steps>>

steps_head ==
  /\ H!Length(heap) > 0
  /\ Count
  /\ UNCHANGED <<vars, steps>>

steps_dequeue == dequeue /\ Count /\ UNCHANGED steps

steps_clear ==
  /\ clear
  /\ steps' = [s \in {} |-> 0]
  /\ head_steps' = 0 /\ max_head_steps' = 0

StepsNext ==
  \/ \E s \in State : steps_relax(s)
  \/ steps_head \/ steps_dequeue \/ steps_clear

Bound == Larger(state_limit + 1, state_limit * (arc_threshold - 1))

\* Every waiting state has its arcs counted, dropped and re-added ones too,
\* and no counter is ahead of the paths taken since the last clear: a head is
\* at most as far as the longest, and a state one arc past it.
CountersFollowThePaths ==
  /\ Held \subseteq DOMAIN steps
  /\ head_steps <= max_head_steps
  /\ \A s \in DOMAIN steps : steps[s] <= max_head_steps + 1
  /\ DOMAIN steps = {} => max_head_steps = 0

\* The gate keeps the queue small: an enqueue never grows it past the length
\* at which the tightened threshold reaches nothing.
Bounded ==
  \A s \in State :
       s \notin enqueued /\ s \in enqueued' /\ Len(heap'.elements) > H!Length(heap)
         => Len(heap'.elements) <= Bound
=============================================================================
