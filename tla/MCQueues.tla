------------------------------- MODULE MCQueues -------------------------------
(***************************************************************************)
(* The queue disciplines side by side: each behaviour drives one of them,  *)
(* chosen at the start, and every property speaks of all it applies to.    *)
(***************************************************************************)
EXTENDS TopOrderQueue, Sequences, TLC

CONSTANTS FREE_FLAG, MaxLen

VARIABLES
  kind,      \* the discipline driven
  bits, queues, heap, keys, distance, enqueued,
  popped, class_distance, reused, steps, head_steps, max_head_steps

MCState == 0 .. 6
MCOrder == (0 :> 3) @@ (1 :> 0) @@ (2 :> 4) @@ (3 :> 1) @@ (4 :> 2) @@ (5 :> 6) @@ (6 :> 5)

\* Seven states in four components, one of each inner discipline; three states
\* share the heap, so that distances can disorder it.
Sccs  == (0 :> 2) @@ (1 :> 0) @@ (2 :> 0) @@ (3 :> 0) @@ (4 :> 1) @@ (5 :> 3) @@ (6 :> 3)
Kinds == (0 :> "ShortestFirst") @@ (1 :> "Fifo") @@ (2 :> "Trivial") @@ (3 :> "Lifo")

\* Four states for the queues ordered by weight alone; three, in two classes,
\* for those that refuse states and so remember more.
Four    == 0 .. 3
Three   == 0 .. 2
ClassOf == (0 :> 0) @@ (1 :> 0) @@ (2 :> 1)

Heap  == INSTANCE IndexedHeap WITH Value <- 0 .. 2
Bits  == INSTANCE StateOrderQueue WITH queued <- bits
Scc   == INSTANCE SccQueue WITH State <- MCState, NScc <- 4, scc <- Sccs, kind <- Kinds, MaxDist <- 1
First == INSTANCE ShortestFirstQueue WITH State <- Four, MaxDist <- 3, Accepted <- Four,
            Class <- {}, class_fnc <- <<>>, threshold <- 1, arc_threshold <- 1, state_limit <- 1
Filter == INSTANCE ShortestFirstQueue WITH State <- Four, MaxDist <- 2, Accepted <- Three,
            Class <- {0, 1}, class_fnc <- ClassOf, threshold <- 1, arc_threshold <- 3, state_limit <- 1
Wrap   == INSTANCE ShortestFirstQueue WITH State <- Three, MaxDist <- 3, Accepted <- Three,
            Class <- {0, 1}, class_fnc <- ClassOf, threshold <- 1, arc_threshold <- 3, state_limit <- 1

window == <<at, front, back, bits, queues>>
marks  == <<distance, enqueued>>
prune  == <<class_distance, reused>>
counts == <<steps, head_steps, max_head_steps>>

\* The variables of the disciplines not driven keep one value.
Idle(v) == v = <<>>

IdleWindow == Idle(at) /\ Idle(front) /\ Idle(back) /\ Idle(bits) /\ Idle(queues)
IdleHeap   == Idle(heap) /\ Idle(popped)
IdlePrune  == Idle(class_distance) /\ Idle(reused)
IdleCounts == Idle(steps) /\ Idle(head_steps) /\ Idle(max_head_steps)
IdleCaller == Idle(keys) /\ Idle(distance) /\ Idle(enqueued)

MCInit ==
  \/ /\ kind = "TopOrder" /\ Init /\ Idle(bits) /\ Idle(queues)
     /\ IdleHeap /\ IdlePrune /\ IdleCounts /\ IdleCaller
  \/ /\ kind = "StateOrder" /\ Bits!Init /\ Idle(at) /\ Idle(queues)
     /\ IdleHeap /\ IdlePrune /\ IdleCounts /\ IdleCaller
  \/ /\ kind = "Scc" /\ Scc!Init /\ Idle(at) /\ Idle(bits) /\ Idle(keys)
     /\ IdleHeap /\ IdlePrune /\ IdleCounts
  \/ kind = "Heap" /\ Heap!Init /\ IdleWindow /\ IdlePrune /\ IdleCounts /\ IdleCaller
  \/ kind = "First" /\ First!Init /\ IdleWindow /\ Idle(popped) /\ IdlePrune /\ IdleCounts
  \/ kind = "Filter" /\ Filter!Init /\ IdleWindow /\ Idle(popped) /\ IdlePrune /\ IdleCounts
  \/ kind = "Prune" /\ Wrap!PruneInit /\ IdleWindow /\ Idle(popped) /\ IdleCounts
  \/ kind = "Steps" /\ Wrap!StepsInit /\ IdleWindow /\ Idle(popped) /\ IdlePrune

MCNext ==
  /\ UNCHANGED kind
  /\ \/ kind = "TopOrder" /\ Next /\ UNCHANGED <<bits, queues, heap, keys, marks, popped, prune, counts>>
     \/ kind = "StateOrder" /\ Bits!Next /\ UNCHANGED <<at, queues, heap, keys, marks, popped, prune, counts>>
     \/ kind = "Scc" /\ Scc!Next /\ UNCHANGED <<at, bits, heap, keys, popped, prune, counts>>
     \/ kind = "Heap" /\ Heap!Next /\ UNCHANGED <<window, keys, marks, prune, counts>>
     \/ kind = "First" /\ First!Next /\ UNCHANGED <<window, popped, prune, counts>>
     \/ kind = "Filter" /\ Filter!FilterNext /\ UNCHANGED <<window, popped, prune, counts>>
     \/ kind = "Prune" /\ Wrap!PruneNext /\ UNCHANGED <<window, popped, counts>>
     \/ kind = "Steps" /\ Wrap!StepsNext /\ UNCHANGED <<window, popped, prune>>

MCSpec == MCInit /\ [][MCNext]_<<kind, window, heap, keys, marks, popped, prune, counts>>

-----------------------------------------------------------------------------
\* Inside every discipline what is kept apart agrees.  A window leaves nothing
\* queued outside it, and its head, read at the window's front, is a queued state
\* whenever it says it holds one.  The keys, the positions and the free list of a
\* heap agree, a state's key names its own element, so that no update, pop or
\* insert reaches another's, and the heap is in order after every call: by the
\* values it holds, and by the distances its caller changes from outside.  And
\* what the caller has marked, and was neither refused nor dropped, waits once.
QueuesAgree ==
  /\ kind = "TopOrder" => TypeOK /\ WindowHoldsAll /\ SlotsAreOrdered /\ WindowIsTight
  /\ kind = "StateOrder" => Bits!TypeOK /\ Bits!WindowIsTight
  /\ kind = "Scc" => Scc!TypeOK /\ Scc!WindowHoldsAll /\ Scc!MarkedStatesWaitOnce
  /\ kind = "Heap" => Heap!TypeOK /\ Heap!KeysAgree /\ Heap!FreeKeysAreListed /\ Heap!HeapOrder
  /\ kind = "First" => First!KeysNameTheirStates /\ First!OrderFollowsDistances /\ First!MarksAreHeld
  /\ kind = "Filter" => First!KeysNameTheirStates /\ Filter!Held = enqueued \cap Three
  /\ kind \in {"Prune", "Steps"} =>
       Wrap!KeysNameTheirStates /\ Wrap!OrderFollowsDistances /\ Wrap!Held \subseteq enqueued

\* Every discipline is a work set: nothing is lost or invented, and the state
\* answered is of least rank, by position, id, component or distance.
Waiting ==
  CASE kind = "TopOrder"  -> queued
    [] kind = "StateOrder" -> bits
    [] kind = "Scc"        -> Scc!queued
    [] kind = "First"      -> First!Held
    [] OTHER               -> {}

Rank ==
  CASE kind = "TopOrder"  -> order
    [] kind = "StateOrder" -> [s \in MCState |-> s]
    [] kind = "Scc"        -> Sccs
    [] kind = "First"      -> distance
    [] OTHER               -> <<>>

WorkSets == INSTANCE WorkSet WITH State <- MCState, queued <- Waiting, rank <- Rank

\* And the heap alone is a priority map: an insert adds one key, an update changes
\* that key's value alone, and a pop takes some least value.
Map == INSTANCE PriorityMap WITH Value <- 0 .. 2, Key <- 0 .. MaxLen - 1,
         held <- (IF kind = "Heap" THEN Heap!Held ELSE [k \in {} |-> k]),
         taken <- (IF kind = "Heap" THEN popped ELSE -1)

QueuesAreWorkSets == WorkSets!Spec /\ Map!Spec

\* What the wrappers remember is what happened, and what they refuse, let in
\* and drop follows from it: see BestIsTheLeast, Justified,
\* CountersFollowThePaths and Bounded of
\* ShortestFirstQueue.
WrappersDecideByWhatHappened ==
  /\ [](kind = "Prune" => Wrap!BestIsTheLeast)
  /\ [](kind = "Steps" => Wrap!CountersFollowThePaths)
  /\ [][/\ kind = "Prune" => Wrap!Justified
        /\ kind = "Steps" => Wrap!Bounded]_<<heap, enqueued>>
=============================================================================
