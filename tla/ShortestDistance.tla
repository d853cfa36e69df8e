-------------------------- MODULE ShortestDistance --------------------------
(***************************************************************************)
(* The generic shortest-distance algorithm over one queue: each state has  *)
(* a residual, what it has gained since it was last expanded, and passes   *)
(* on that rather than its whole distance.  Runs follow one another over   *)
(* the same buffers, which are cleared or, when retained, marked with the  *)
(* number of the run that wrote each entry.                                *)
(***************************************************************************)
EXTENDS Integers

CONSTANTS
  State, Weight,
  Zero, One, Plus(_, _), Times(_, _),  \* the semiring
  Setups,  \* [arcs, final, from, retain, first_path, discipline]: an automaton and how it is asked
  NO_RUN   \* the mark on an entry no run has touched: usize::MAX

ASSUME SemiringAssumption ==
  /\ Zero \in Weight /\ One \in Weight
  /\ \A a, b \in Weight : Plus(a, b) \in Weight /\ Times(a, b) \in Weight /\ Plus(a, b) = Plus(b, a)
  /\ \A a, b, c \in Weight : Plus(Plus(a, b), c) = Plus(a, Plus(b, c))
  /\ \A a, b, c \in Weight : Times(Plus(a, b), c) = Plus(Times(a, c), Times(b, c))
  /\ \A a \in Weight : Plus(Zero, a) = a /\ Times(Zero, a) = Zero /\ Times(One, a) = a

ASSUME SetupsAssumption ==
  Setups \subseteq [arcs : [State -> SUBSET [next : State, weight : Weight]],
                    final : SUBSET State, from : SUBSET State, retain : BOOLEAN,
                    first_path : BOOLEAN, discipline : {"any", "shortest first", "state order"}]

ASSUME NoRunAssumption == NO_RUN \in Nat \ {0}

VARIABLES
  setup,     \* the automaton and the options
  distance, adder, residual, enqueued,
  sources,   \* which run last wrote each entry
  run,       \* the number of the run in progress, or of the next
  queue,     \* the states the queue holds
  running,   \* a run is in progress
  source,    \* where it started
  current,   \* the state being expanded
  r,         \* the residual it passes on
  left,      \* its arcs not yet followed
  given,     \* history: what each state has passed on in this run
  earlier    \* history: what the current one had passed on before r

buffers == <<distance, adder, residual, enqueued, sources>>
history == <<given, earlier>>
vars == <<setup, distance, adder, residual, enqueued, sources, run, queue,
          running, source, current, r, left, given, earlier>>

Fresh == [s \in State |-> Zero]

Init ==
  /\ setup \in Setups
  /\ distance = Fresh /\ adder = Fresh /\ residual = Fresh /\ enqueued = {}
  /\ sources = [s \in State |-> NO_RUN] /\ run = 0
  /\ queue = {} /\ running = FALSE
  /\ source \in setup.from /\ current = source /\ r = Zero /\ left = {}
  /\ given = Fresh /\ earlier = Zero

-----------------------------------------------------------------------------
\* Is the entry this run's?  Buffers that are not retained were cleared.
Live(s)  == ~setup.retain \/ sources[s] = run

\* Mutant: the mark an earlier run left on the entry stays.
Claimed_KeepsMark(s) == IF Live(s) THEN enqueued ELSE enqueued

\* The marks once the entry of s is claimed.
Claimed(s) == IF Live(s) THEN enqueued ELSE enqueued \ {s}

\* The values of an entry, once claimed.
Distance(s) == IF Live(s) THEN distance[s] ELSE Zero
Summed(s)   == IF Live(s) THEN adder[s] ELSE Zero
Residual(s) == IF Live(s) THEN residual[s] ELSE Zero

\* What a run finds of the earlier ones' values.
Kept(f) == IF setup.retain THEN f ELSE Fresh

\* A run starts at s: what is not retained is cleared, and s is claimed and queued.
Begin(s) ==
  /\ ~running /\ s \in setup.from
  /\ running' = TRUE /\ source' = s
  /\ queue' = {s}
  /\ distance' = [Kept(distance) EXCEPT ![s] = One]
  /\ adder'    = [Kept(adder) EXCEPT ![s] = One]
  /\ residual' = [Kept(residual) EXCEPT ![s] = One]
  /\ enqueued' = (IF setup.retain THEN enqueued ELSE {}) \cup {s}
  /\ sources'  = [sources EXCEPT ![s] = IF setup.retain THEN run ELSE @]
  /\ current' = s /\ r' = Zero /\ left' = {}
  /\ given' = Fresh /\ earlier' = Zero
  /\ UNCHANGED <<setup, run>>

\* Mutant: wrapping round leaves the marks of earlier runs.
Finish_WrapsOnto ==
  /\ running' = FALSE
  /\ run' = (run + 1) % NO_RUN
  /\ UNCHANGED <<setup, distance, adder, residual, enqueued, sources, source, current, r, left, history>>

\* The run is over.  A number that wraps onto NO_RUN starts again, with every entry unclaimed.
Finish ==
  /\ running' = FALSE
  /\ run' = IF run + 1 = NO_RUN THEN 0 ELSE run + 1
  /\ sources' = IF run + 1 = NO_RUN THEN [s \in State |-> NO_RUN] ELSE sources
  /\ UNCHANGED <<setup, distance, adder, residual, enqueued, source, current, r, left, history>>

Converged == running /\ left = {} /\ queue = {}

\* The queue is exhausted.
End == Converged /\ Finish /\ UNCHANGED queue

-----------------------------------------------------------------------------
\* The natural order, by which a shortest-first queue compares distances.
natural_less(a, b) == a # b /\ Plus(a, b) = a

\* The states the queue may answer: see the modules of the queues.
Front(s) ==
  /\ s \in queue
  /\ CASE setup.discipline = "shortest first" -> \A t \in queue : ~natural_less(distance[t], distance[s])
       [] setup.discipline = "state order"    -> \A t \in queue : s <= t
       [] OTHER                               -> TRUE

\* Stopping at the first final state dequeued.
FirstPath(s) ==
  /\ running /\ left = {} /\ Front(s)
  /\ setup.first_path /\ s \in setup.final
  /\ queue' = queue \ {s}
  /\ Finish

\* A state is dequeued, and its residual is what its arcs will carry.
Expand(s) ==
  /\ running /\ left = {} /\ Front(s)
  /\ ~(setup.first_path /\ s \in setup.final)
  /\ queue' = queue \ {s}
  /\ enqueued' = enqueued \ {s}
  /\ current' = s /\ r' = residual[s] /\ left' = setup.arcs[s]
  /\ residual' = [residual EXCEPT ![s] = Zero]
  /\ given' = [given EXCEPT ![s] = Plus(given[s], residual[s])] /\ earlier' = given[s]
  /\ UNCHANGED <<setup, distance, adder, sources, run, running, source>>

\* Mutant: nothing is converged unless it is untouched.
Absorbs_Never(a, b) == b = Zero

\* b adds nothing to a.
Absorbs(a, b) == Plus(a, b) = a

\* An arc of the current state is followed: the entry it leads to is claimed
\* and, if the weight arriving improves it, gains that weight and is queued.
Relax(arc) ==
  LET next     == arc.next
      weight   == Times(r, arc.weight)
      changed  == ~Absorbs(Distance(next), weight)
      add(a)   == IF changed THEN Plus(a, weight) ELSE a
  IN /\ arc \in left /\ left' = left \ {arc}
     /\ adder'    = [adder EXCEPT ![next] = add(Summed(next))]
     /\ residual' = [residual EXCEPT ![next] = add(Residual(next))]
     /\ distance' = [distance EXCEPT ![next] = IF changed THEN add(Summed(next)) ELSE Distance(next)]
     /\ sources'  = [sources EXCEPT ![next] = IF setup.retain THEN run ELSE @]
     /\ enqueued' = Claimed(next) \cup (IF changed THEN {next} ELSE {})
     /\ queue'    = queue \cup (IF changed /\ next \notin Claimed(next) THEN {next} ELSE {})
     /\ UNCHANGED <<setup, run, running, source, current, r, history>>

Next ==
  \/ \E s \in State : Begin(s) \/ FirstPath(s) \/ Expand(s)
  \/ \E arc \in left : Relax(arc)
  \/ End

\* A call runs to its end; nobody has to make another.
Spec == Init /\ [][Next]_vars /\ WF_vars(End) /\ WF_vars(\E arc \in left : Relax(arc))
             /\ WF_vars(\E s \in State : FirstPath(s) \/ Expand(s))

-----------------------------------------------------------------------------
TypeOK ==
  /\ setup \in Setups
  /\ distance \in [State -> Weight] /\ adder \in [State -> Weight] /\ residual \in [State -> Weight]
  /\ enqueued \subseteq State /\ queue \subseteq State
  /\ sources \in [State -> 0..NO_RUN] /\ run \in 0..NO_RUN - 1
  /\ running \in BOOLEAN /\ source \in State /\ current \in State /\ r \in Weight
  /\ left \subseteq setup.arcs[current]
  /\ given \in [State -> Weight] /\ earlier \in Weight

\* While a run goes on, the marks of the entries it has claimed say what the
\* queue holds: a state marked is updated in place, and must be there.  Marks
\* that a run which stopped early left behind do not count.
MarksMatchQueue ==
  running => queue = {s \in enqueued : Live(s)}

\* When a run of an idempotent semiring converges, no arc can improve a
\* distance any more, and every entry not claimed is worth Zero.
DistancesAreClosed ==
  Converged => /\ Absorbs(Distance(source), One)
               /\ \A s \in State : \A arc \in setup.arcs[s] :
                    Absorbs(Distance(arc.next), Times(Distance(s), arc.weight))

\* A shortest-first queue over weights no better than One, and a state-order
\* queue over an automaton whose arcs all lead upwards, expand no state twice.
NothingExpandedTwice ==
  running /\ setup.discipline # "any" => \A s \in queue : given[s] = Zero

Returns == running ~> ~running
=============================================================================
