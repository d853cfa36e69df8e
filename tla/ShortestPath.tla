---------------------------- MODULE ShortestPath ----------------------------
(***************************************************************************)
(* algorithms/shortest_path.rs.  The lightest path: a search by any queue  *)
(* that remembers by which arc each state was last improved, and the path  *)
(* read back from the best final state.  Nothing but the distances keeps   *)
(* the remembered arcs from leading round in a circle.                     *)
(*                                                                         *)
(* The lightest several (n_shortest_path), from the reverse of the         *)
(* automaton: each state of the result is a path from some state to the    *)
(* end; they wait in a heap by what the lightest path through them weighs, *)
(* and one that is complete becomes the next answer.  Ties are broken by   *)
(* exact comparison: delta is zero.                                        *)
(***************************************************************************)
EXTENDS Integers, Sequences

CONSTANTS
  State,
  Zero, One, Plus(_, _), Times(_, _),  \* a semiring with the path property
  Setups,  \* [fst, first_path, discipline]; an automaton is [start, arcs, final], the arcs of a state in order
  None     \* no state

VARIABLES
  setup,
  distance,
  parent,         \* the arc each state was last reached by, as [from, position]
  queue,          \* the states that wait; a mark for each goes with it
  here,           \* what the state being expanded had when it was dequeued
  current,        \* that state
  position,       \* how many of its arcs were followed
  best_final, best_distance, final_seen,
  path,           \* the arcs read back so far, as [from, position]
  state,          \* the state read back to, None at the end
  phase,          \* "search", "back" or "done"

  rfst,      \* the reverse: [start, arcs, final], start NoState if there is none
  guide,     \* how far each of its states is from its final ones
  asked,     \* [nshortest, weight_threshold, state_threshold]
  pairs,     \* the states of the result, as [at, weight, back, by]: the state of the reverse
             \* that the path has come to, its weight, the state it was made from, and the arc
  heap,      \* those that wait
  taken,     \* how many paths to each state of the reverse were taken
  answers,   \* the complete paths, the start's arcs in order
  nphase     \* "search" or "done"

search == <<distance, parent, queue, here, current, position, best_final, best_distance, final_seen>>
vars   == <<setup, search, path, state, phase>>

fst     == setup.fst
NoArc   == [from |-> None, position |-> 0]
Fresh   == [s \in State |-> Zero]

natural_less(a, b) == a # b /\ Plus(a, b) = a

Init ==
  /\ setup \in Setups
  /\ distance = (IF fst.start = None THEN Fresh ELSE [Fresh EXCEPT ![fst.start] = One])
  /\ parent = [s \in State |-> NoArc]
  /\ queue = {fst.start} \ {None}
  /\ here = Zero /\ current = None /\ position = 0
  /\ best_final = None /\ best_distance = Zero /\ final_seen = FALSE
  /\ path = <<>> /\ state = None /\ phase = "search"

-----------------------------------------------------------------------------
Followed == position = IF current = None THEN 0 ELSE Len(fst.arcs[current])

\* The states the queue may answer: see the modules of the queues.
Front(s) ==
  /\ s \in queue
  /\ CASE setup.discipline = "shortest first" -> \A t \in queue : ~natural_less(distance[t], distance[s])
       [] setup.discipline = "state order"    -> \A t \in queue : s <= t
       [] OTHER                               -> TRUE

\* What has reached a final state cannot be beaten by what still waits.
Settled(s) == setup.first_path /\ final_seen /\ ~natural_less(distance[s], best_distance)

\* Reading back starts at the best final state, and there is nothing to read without one.
Turn ==
  /\ state' = best_final
  /\ phase' = IF best_final = None THEN "done" ELSE "back"
  /\ UNCHANGED <<setup, distance, parent, here, current, position, best_final, best_distance, final_seen, path>>

Stop(s) == phase = "search" /\ Followed /\ Front(s) /\ Settled(s) /\ queue' = queue \ {s} /\ Turn

End == phase = "search" /\ Followed /\ queue = {} /\ UNCHANGED queue /\ Turn

\* A state is dequeued, and may be where the best path ends.
Dequeue(s) ==
  LET sum == Plus(best_distance, Times(distance[s], fst.final[s])) IN
  /\ phase = "search" /\ Followed /\ Front(s) /\ ~Settled(s)
  /\ queue' = queue \ {s}
  /\ here' = distance[s] /\ current' = s /\ position' = 0
  /\ IF fst.final[s] = Zero THEN UNCHANGED <<best_final, best_distance, final_seen>>
     ELSE /\ final_seen' = TRUE /\ best_distance' = sum
          /\ best_final' = IF sum = best_distance THEN best_final ELSE s
  /\ UNCHANGED <<setup, distance, parent, path, state, phase>>

\* An arc is followed; a state it improves remembers it, and waits.
Relax ==
  LET arc == fst.arcs[current][position + 1]
      sum == Plus(distance[arc.next], Times(here, arc.weight))
  IN /\ phase = "search" /\ ~Followed /\ position' = position + 1
     /\ IF sum = distance[arc.next] THEN UNCHANGED <<distance, parent, queue>>
        ELSE /\ distance' = [distance EXCEPT ![arc.next] = sum]
             /\ parent' = [parent EXCEPT ![arc.next] = [from |-> current, position |-> position + 1]]
             /\ queue' = queue \cup {arc.next}
     /\ UNCHANGED <<setup, here, current, best_final, best_distance, final_seen, path, state, phase>>

\* One arc is read back, or there is none.
Back ==
  LET by == parent[state] IN
  /\ phase = "back"
  /\ state' = by.from
  /\ path' = IF by = NoArc THEN path ELSE <<by>> \o path
  /\ phase' = IF by = NoArc THEN "done" ELSE "back"
  /\ UNCHANGED <<setup, search>>

Next == (\E s \in State : Stop(s) \/ Dequeue(s)) \/ Relax \/ End \/ Back

Spec == Init /\ [][Next]_vars /\ WF_vars(Next)

-----------------------------------------------------------------------------
TypeOK ==
  /\ queue \subseteq State /\ DOMAIN distance = State
  /\ \A s \in State : parent[s] = NoArc \/ parent[s].position \in DOMAIN fst.arcs[parent[s].from]
  /\ {current, best_final, state} \subseteq State \cup {None}
  /\ final_seen \in BOOLEAN /\ phase \in {"search", "back", "done"}
  /\ current # None => position \in 0 .. Len(fst.arcs[current])

\* Each state but the start is as far as the arc it remembers, or further,
\* where the state before it has come nearer since and waits or is being
\* expanded; nothing reached the start but the empty path.
ParentsExplain ==
  \A s \in State :
    LET by == parent[s] IN
    IF by = NoArc THEN distance[s] = (IF s = fst.start THEN One ELSE Zero)
    ELSE LET arc == fst.arcs[by.from][by.position]
             via == Times(distance[by.from], arc.weight)
         IN  /\ arc.next = s
             /\ \/ distance[s] = via
                \/ /\ natural_less(via, distance[s])
                   /\ by.from \in queue \/ (by.from = current /\ ~Followed)
-----------------------------------------------------------------------------
(* The lightest several.                                                   *)

NoState  == -1
Complete == -2  \* past the final states of the reverse

\* How much the lightest path weighs that goes on from a pair.
Through(pair) == Times(IF pair.at = Complete THEN One ELSE guide[pair.at], pair.weight)

\* Nothing is searched when nothing is asked for, or nothing can be found.
Hopeless(reverse, distances, what) ==
  \/ what.nshortest = 0 \/ what.state_threshold = 0
  \/ reverse.start = NoState
  \/ natural_less(what.weight_threshold, One)
  \/ distances[reverse.start] = Zero

\* The result's start and its final state; the search begins at the latter.
Ends(reverse) == <<[at |-> Complete, weight |-> Zero, back |-> 0, by |-> <<>>],
                   [at |-> reverse.start, weight |-> One, back |-> 0, by |-> <<>>]>>

New(reverse, distances, what) ==
  /\ rfst = reverse /\ guide = distances /\ asked = what
  /\ pairs = (IF Hopeless(reverse, distances, what) THEN <<>> ELSE Ends(reverse))
  /\ heap = (IF Hopeless(reverse, distances, what) THEN {} ELSE {2})
  /\ taken = <<>> /\ answers = <<>> /\ nphase = "search"

-----------------------------------------------------------------------------
\* At a tie a path that is not complete goes first.
worse(x, y) ==
  \/ natural_less(Through(pairs[y]), Through(pairs[x]))
  \/ /\ pairs[x].at = Complete /\ pairs[y].at # Complete
     /\ Through(pairs[x]) = Through(pairs[y])

\* What the heap may answer: see IndexedHeap.
Best(x) == x \in heap /\ \A y \in heap : ~worse(x, y)

Taken(at) == IF at \in DOMAIN taken THEN taken[at] ELSE 0
Take(at)  == [a \in DOMAIN taken \cup {at} |-> Taken(a) + (IF a = at THEN 1 ELSE 0)]

Limit == Times(guide[rfst.start], asked.weight_threshold)

\* Too heavy, or too late.
Dropped(x) == \/ natural_less(Limit, Through(pairs[x]))
              \/ asked.state_threshold > 0 /\ Len(pairs) >= asked.state_threshold

Drop(x) ==
  /\ nphase = "search" /\ Best(x) /\ Dropped(x)
  /\ heap' = heap \ {x}
  /\ UNCHANGED <<rfst, guide, asked, pairs, taken, answers, nphase>>

Answer(x) ==
  /\ nphase = "search" /\ Best(x) /\ ~Dropped(x) /\ pairs[x].at = Complete
  /\ heap' = heap \ {x} /\ taken' = Take(Complete)
  /\ answers' = Append(answers, x)
  /\ nphase' = IF Taken(Complete) + 1 = asked.nshortest THEN "done" ELSE nphase
  /\ UNCHANGED <<rfst, guide, asked, pairs>>

\* The arcs that go on from a state of the reverse, the one past its end last.
Onward(at) ==
  rfst.arcs[at] \o IF rfst.final[at] = Zero THEN <<>>
                   ELSE <<[label |-> 0, next |-> Complete, weight |-> rfst.final[at]]>>

\* Mutant: one path through each state too few.
Grow_Once(x) ==
  LET pair == pairs[x]
      made == [i \in DOMAIN Onward(pair.at) |->
                 LET arc == Onward(pair.at)[i] IN
                 [at |-> arc.next, weight |-> Times(pair.weight, arc.weight), back |-> x, by |-> <<pair.at, i>>]]
      more == IF Taken(pair.at) + 1 >= asked.nshortest THEN <<>> ELSE made
  IN /\ nphase = "search" /\ Best(x) /\ ~Dropped(x) /\ pair.at # Complete
     /\ taken' = Take(pair.at)
     /\ pairs' = pairs \o more
     /\ heap' = (heap \ {x}) \cup {Len(pairs) + i : i \in DOMAIN more}
     /\ UNCHANGED <<rfst, guide, asked, answers, nphase>>

\* A path goes on by every arc, unless as many paths to its state were taken
\* as are asked for.
Grow(x) ==
  LET pair == pairs[x]
      made == [i \in DOMAIN Onward(pair.at) |->
                 LET arc == Onward(pair.at)[i] IN
                 [at |-> arc.next, weight |-> Times(pair.weight, arc.weight), back |-> x, by |-> <<pair.at, i>>]]
      more == IF Taken(pair.at) + 1 > asked.nshortest THEN <<>> ELSE made
  IN /\ nphase = "search" /\ Best(x) /\ ~Dropped(x) /\ pair.at # Complete
     /\ taken' = Take(pair.at)
     /\ pairs' = pairs \o more
     /\ heap' = (heap \ {x}) \cup {Len(pairs) + i : i \in DOMAIN more}
     /\ UNCHANGED <<rfst, guide, asked, answers, nphase>>

EndSeveral ==
  /\ nphase = "search" /\ heap = {} /\ nphase' = "done"
  /\ UNCHANGED <<rfst, guide, asked, pairs, heap, taken, answers>>

NextSeveral == (\E x \in heap : Drop(x) \/ Answer(x) \/ Grow(x)) \/ EndSeveral
=============================================================================
