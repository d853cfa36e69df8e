----------------------- MODULE ShortestDistanceProofs -----------------------
(***************************************************************************)
(* For every right semiring, automaton and queue discipline, over buffers  *)
(* cleared or retained: the marks say what the queue holds; and over an    *)
(* idempotent semiring the distances of a run that converges are the least *)
(* function that the arcs cannot improve.                                  *)
(***************************************************************************)
EXTENDS ShortestDistance, TLAPS

Idempotent == \A a \in Weight : Plus(a, a) = a

\* A run can tell its own marks from those of every earlier run; arcs are
\* followed in a run only.
MarksAreDated ==
  /\ setup.retain => \A s \in State :
       /\ sources[s] # NO_RUN => sources[s] <= run
       /\ ~running => sources[s] # run
  /\ left # {} => running

\* What a run keeps in the entries it has claimed.
EntriesAgree ==
  running => \A s \in State :
    /\ Live(s) => adder[s] = distance[s]
    /\ Live(s) /\ s \notin queue => residual[s] = Zero

\* The inductive invariant behind MarksMatchQueue.
BufferInv == TypeOK /\ MarksAreDated /\ EntriesAgree /\ MarksMatchQueue

\* What has been passed on has arrived: a distance is what its state has
\* passed on and what it still holds, and every arc but those of the current
\* state that are left has carried all its state passed on.
PassedOn ==
  running =>
    /\ Absorbs(Distance(source), One)
    /\ given[current] = Plus(earlier, r)
    /\ \A s \in State : Distance(s) = Plus(given[s], Residual(s))
    /\ \A s \in State : \A a \in setup.arcs[s] :
         ~(s = current /\ a \in left) => Absorbs(Distance(a.next), Times(given[s], a.weight))
    /\ \A a \in left : Absorbs(Distance(a.next), Times(earlier, a.weight))

\* D is a function the arcs cannot improve, with the source at One or better.
ClosedUnderArcs(D) ==
  /\ Absorbs(D[source], One)
  /\ \A s \in State : \A a \in setup.arcs[s] : Absorbs(D[a.next], Times(D[s], a.weight))

\* Nothing a run has found is better than such a function.
BoundedBy(D) ==
  running /\ ClosedUnderArcs(D) =>
    /\ \A s \in State : Absorbs(D[s], Distance(s)) /\ Absorbs(D[s], Residual(s))
    /\ Absorbs(D[current], r)

-----------------------------------------------------------------------------
\* Zero adds nothing, on either side.
LEMMA PlusZero == \A a \in Weight : Plus(a, Zero) = a /\ Absorbs(a, Zero)
BY SemiringAssumption DEF Absorbs

\* Sums and products are weights.
LEMMA Closure == \A a, b \in Weight : Plus(a, b) \in Weight /\ Times(a, b) \in Weight
BY SemiringAssumption

\* Sums may be grouped anyhow.
LEMMA Associates == \A a, b, c \in Weight : Plus(Plus(a, b), c) = Plus(a, Plus(b, c))
BY SemiringAssumption

\* Right distributivity.
LEMMA Distributes == \A a, b, c \in Weight : Times(Plus(a, b), c) = Plus(Times(a, c), Times(b, c))
BY SemiringAssumption

\* What absorbs a weight goes on absorbing it as it gains others.
LEMMA AbsorbsMore ==
  ASSUME NEW a \in Weight, NEW b \in Weight, NEW w \in Weight, Absorbs(a, b)
  PROVE  Absorbs(Plus(a, w), b)
<1>1. Plus(Plus(a, w), b) = Plus(a, Plus(w, b))
  BY SemiringAssumption
<1>2. Plus(w, b) = Plus(b, w)
  BY SemiringAssumption
<1>3. Plus(a, Plus(b, w)) = Plus(Plus(a, b), w)
  BY SemiringAssumption
<1> QED BY <1>1, <1>2, <1>3 DEF Absorbs

\* What absorbs two weights absorbs their sum.
LEMMA AbsorbsSum ==
  ASSUME NEW a \in Weight, NEW b \in Weight, NEW c \in Weight, Absorbs(a, b), Absorbs(a, c)
  PROVE  Absorbs(a, Plus(b, c))
<1>1. Plus(a, Plus(b, c)) = Plus(Plus(a, b), c)
  BY SemiringAssumption
<1> QED BY <1>1 DEF Absorbs

\* Absorption is transitive.
LEMMA AbsorbsTransitive ==
  ASSUME NEW a \in Weight, NEW b \in Weight, NEW c \in Weight, Absorbs(a, b), Absorbs(b, c)
  PROVE  Absorbs(a, c)
<1>1. Plus(Plus(a, b), c) = Plus(a, Plus(b, c))
  BY SemiringAssumption
<1> QED BY <1>1 DEF Absorbs

\* An arc carries absorption with it: this is right distributivity.
LEMMA AbsorbsAlong ==
  ASSUME NEW a \in Weight, NEW b \in Weight, NEW c \in Weight, Absorbs(a, b)
  PROVE  Absorbs(Times(a, c), Times(b, c))
<1>1. Times(Plus(a, b), c) = Plus(Times(a, c), Times(b, c))
  BY SemiringAssumption
<1> QED BY <1>1 DEF Absorbs

\* In an idempotent semiring a sum absorbs what was added.
LEMMA AbsorbsAdded ==
  ASSUME Idempotent, NEW a \in Weight, NEW w \in Weight
  PROVE  Absorbs(Plus(a, w), w)
<1>1. Plus(Plus(a, w), w) = Plus(a, Plus(w, w))
  BY SemiringAssumption
<1> QED BY <1>1 DEF Absorbs, Idempotent

-----------------------------------------------------------------------------
\* What the type invariant says of the setup.
LEMMA SetupType ==
  ASSUME TypeOK
  PROVE  /\ setup.retain \in BOOLEAN /\ setup.first_path \in BOOLEAN
         /\ setup.from \subseteq State /\ setup.final \subseteq State
         /\ setup.arcs \in [State -> SUBSET [next : State, weight : Weight]]
BY SetupsAssumption DEF TypeOK

\* The arcs left are arcs of the automaton.
LEMMA LeftType ==
  ASSUME TypeOK, NEW arc \in left
  PROVE  arc.next \in State /\ arc.weight \in Weight /\ arc \in setup.arcs[current]
BY SetupType DEF TypeOK

\* An entry's values are weights, claimed or not.
LEMMA EntryType ==
  ASSUME TypeOK, NEW s \in State
  PROVE  Distance(s) \in Weight /\ Summed(s) \in Weight /\ Residual(s) \in Weight
BY SemiringAssumption DEF TypeOK, Distance, Summed, Residual

\* Init establishes the shape of the state.
LEMMA TypeInit == Init => TypeOK
<1> SUFFICES ASSUME Init PROVE TypeOK
  OBVIOUS
<1>1. setup \in Setups /\ setup.from \subseteq State
  BY SetupsAssumption DEF Init
<1>2. Fresh \in [State -> Weight] /\ Zero \in Weight
  BY SemiringAssumption DEF Fresh
<1>3. sources \in [State -> 0..NO_RUN] /\ run \in 0..NO_RUN - 1
  BY NoRunAssumption DEF Init
<1> QED BY <1>1, <1>2, <1>3 DEF Init, TypeOK

\* Finishing a run keeps the shape of the state.
LEMMA TypeFinish == TypeOK /\ Finish /\ queue' \subseteq queue => TypeOK'
<1> SUFFICES ASSUME TypeOK, Finish, queue' \subseteq queue PROVE TypeOK'
  OBVIOUS
<1>1. sources' \in [State -> 0..NO_RUN] /\ run' \in 0..NO_RUN - 1
  BY NoRunAssumption DEF TypeOK, Finish
<1> QED BY <1>1 DEF TypeOK, Finish, history

\* Every step keeps the shape of the state.
LEMMA TypeNext == TypeOK /\ [Next]_vars => TypeOK'
<1> SUFFICES ASSUME TypeOK, [Next]_vars PROVE TypeOK'
  OBVIOUS
<1> USE SetupType
<1>1. ASSUME NEW s \in State, Begin(s) PROVE TypeOK'
  <2>1. Fresh \in [State -> Weight] /\ Zero \in Weight /\ One \in Weight
    BY SemiringAssumption DEF Fresh
  <2>2. \A f \in [State -> Weight] : [Kept(f) EXCEPT ![s] = One] \in [State -> Weight]
    BY <2>1 DEF Kept
  <2>3. /\ distance' \in [State -> Weight] /\ adder' \in [State -> Weight] /\ residual' \in [State -> Weight]
    BY <1>1, <2>2 DEF Begin, TypeOK
  <2>4. sources' \in [State -> 0..NO_RUN]
    BY <1>1, NoRunAssumption DEF Begin, TypeOK
  <2>5. enqueued' \subseteq State /\ queue' \subseteq State
    BY <1>1 DEF Begin, TypeOK
  <2> QED BY <1>1, <2>1, <2>3, <2>4, <2>5 DEF Begin, TypeOK
<1>2. ASSUME NEW s \in State, FirstPath(s) PROVE TypeOK'
  BY <1>2, TypeFinish DEF FirstPath
<1>3. ASSUME NEW s \in State, Expand(s) PROVE TypeOK'
  BY <1>3, SemiringAssumption DEF TypeOK, Expand
<1>4. ASSUME NEW arc \in left, Relax(arc) PROVE TypeOK'
  <2>1. arc.next \in State /\ arc.weight \in Weight
    BY LeftType
  <2>2. Times(r, arc.weight) \in Weight
    BY <2>1, SemiringAssumption DEF TypeOK
  <2>3. /\ Distance(arc.next) \in Weight /\ Summed(arc.next) \in Weight /\ Residual(arc.next) \in Weight
        /\ Plus(Summed(arc.next), Times(r, arc.weight)) \in Weight
        /\ Plus(Residual(arc.next), Times(r, arc.weight)) \in Weight
    BY <2>1, <2>2, EntryType, SemiringAssumption
  <2>4. Claimed(arc.next) \subseteq State
    BY DEF Claimed, TypeOK
  <2>5. /\ distance' \in [State -> Weight] /\ adder' \in [State -> Weight] /\ residual' \in [State -> Weight]
    BY <1>4, <2>1, <2>3 DEF Relax, TypeOK
  <2>6. enqueued' \subseteq State /\ queue' \subseteq State
    BY <1>4, <2>1, <2>4 DEF Relax, TypeOK
  <2>7. sources' \in [State -> 0..NO_RUN]
    BY <1>4, <2>1, NoRunAssumption DEF Relax, TypeOK
  <2> QED BY <1>4, <2>5, <2>6, <2>7 DEF Relax, TypeOK, history
<1>5. CASE End
  BY <1>5, TypeFinish DEF End
<1>6. CASE UNCHANGED vars
  BY <1>6 DEF TypeOK, vars
<1> QED BY <1>1, <1>2, <1>3, <1>4, <1>5, <1>6 DEF Next

\* The state keeps its shape.
THEOREM TypeCorrect == Spec => []TypeOK
<1> QED BY TypeInit, TypeNext, PTL DEF Spec

-----------------------------------------------------------------------------
\* Init establishes what the buffers promise.
LEMMA BufferInit == Init => BufferInv
<1> SUFFICES ASSUME Init PROVE BufferInv
  OBVIOUS
<1>1. MarksAreDated
  BY NoRunAssumption DEF Init, MarksAreDated
<1> QED BY <1>1, TypeInit DEF Init, BufferInv, EntriesAgree, MarksMatchQueue

\* At the start of a run only the source's entry is live, or all are fresh.
LEMMA BeginLive ==
  ASSUME TypeOK, MarksAreDated, NEW s \in State, Begin(s), NEW t \in State
  PROVE  /\ Live(t)' <=> (~setup.retain \/ t = s)
         /\ Live(t)' => /\ distance'[t] = (IF t = s THEN One ELSE Zero)
                        /\ adder'[t] = distance'[t] /\ residual'[t] = distance'[t]
<1>1. Live(t)' <=> (~setup.retain \/ t = s)
  BY DEF TypeOK, MarksAreDated, Begin, Live
<1>2. \A f \in [State -> Weight] :
        ~setup.retain \/ t = s => [Kept(f) EXCEPT ![s] = One][t] = (IF t = s THEN One ELSE Zero)
  BY DEF Kept, Fresh
<1> QED BY <1>1, <1>2 DEF Begin, TypeOK

\* A run that starts finds the buffers as if no run had been.
LEMMA BufferBegin ==
  ASSUME BufferInv, NEW s \in State, Begin(s)
  PROVE  MarksAreDated' /\ EntriesAgree' /\ MarksMatchQueue'
<1> USE DEF BufferInv
<1>1. MarksAreDated'
  BY NoRunAssumption DEF TypeOK, MarksAreDated, Begin
<1>2. EntriesAgree'
  <2> SUFFICES ASSUME NEW t \in State, Live(t)'
               PROVE  adder'[t] = distance'[t] /\ (t \notin queue' => residual'[t] = Zero)
    BY DEF EntriesAgree
  <2>1. /\ distance'[t] = (IF t = s THEN One ELSE Zero)
        /\ adder'[t] = distance'[t] /\ residual'[t] = distance'[t]
    BY BeginLive
  <2> QED BY <2>1 DEF Begin
<1>3. MarksMatchQueue'
  <2>1. \A t \in enqueued' : t \in State
    BY DEF Begin, TypeOK
  <2>2. \A t \in State : t \in enqueued' /\ Live(t)' <=> t = s
    BY BeginLive, SetupType DEF Begin
  <2> QED BY <2>1, <2>2 DEF MarksMatchQueue, Begin
<1> QED BY <1>1, <1>2, <1>3

\* The number of the next run is on no entry.
LEMMA BufferFinish ==
  ASSUME BufferInv, left = {}, Finish
  PROVE  MarksAreDated' /\ EntriesAgree' /\ MarksMatchQueue'
<1>1. MarksAreDated'
  BY NoRunAssumption DEF BufferInv, TypeOK, MarksAreDated, Finish
<1> QED BY <1>1 DEF Finish, EntriesAgree, MarksMatchQueue

\* Expanding a state unmarks it and empties its residual.
LEMMA BufferExpand ==
  ASSUME BufferInv, NEW s \in State, Expand(s)
  PROVE  MarksAreDated' /\ EntriesAgree' /\ MarksMatchQueue'
<1> USE DEF BufferInv
<1>1. \A t : Live(t)' <=> Live(t)
  BY DEF Live, Expand
<1>2. MarksAreDated'
  BY DEF MarksAreDated, Expand
<1>3. EntriesAgree'
  BY <1>1 DEF EntriesAgree, Expand, TypeOK
<1>4. MarksMatchQueue'
  BY <1>1 DEF MarksMatchQueue, Expand, TypeOK
<1> QED BY <1>2, <1>3, <1>4

\* The entry an arc leads to is live once it is relaxed; the others stay as they are.
LEMMA RelaxLive ==
  ASSUME TypeOK, NEW arc \in left, Relax(arc), NEW t \in State
  PROVE  Live(t)' <=> (Live(t) \/ t = arc.next)
BY LeftType DEF Relax, Live, TypeOK

\* Relaxing an arc adds what it carries to the distance of its target, to no other.
LEMMA RelaxDistance ==
  ASSUME BufferInv, NEW arc \in left, Relax(arc), NEW t \in State
  PROVE  /\ Distance(t)' = IF t = arc.next THEN Plus(Distance(t), Times(r, arc.weight)) ELSE Distance(t)
         /\ Residual(t)' = IF t = arc.next /\ ~Absorbs(Distance(t), Times(r, arc.weight))
                           THEN Plus(Residual(t), Times(r, arc.weight)) ELSE Residual(t)
<1> DEFINE next == arc.next  weight == Times(r, arc.weight)
<1> USE DEF BufferInv
<1>0. running
  BY DEF MarksAreDated
<1>1. next \in State
  BY LeftType
<1>2. CASE t = next
  <2>1. Live(t)'
    BY <1>2, RelaxLive
  <2>2. Summed(next) = Distance(next)
    BY <1>0, <1>1 DEF Summed, Distance, EntriesAgree
  <2>3. distance'[next] = Plus(Distance(next), weight)
    BY <1>1, <2>2 DEF Relax, TypeOK, Absorbs
  <2>4. residual'[next] = IF Absorbs(Distance(next), weight) THEN Residual(next)
                                                            ELSE Plus(Residual(next), weight)
    BY <1>1 DEF Relax, TypeOK
  <2> QED BY <1>2, <2>1, <2>3, <2>4 DEF Distance, Residual
<1>3. CASE t # next
  <2>1. Live(t)' <=> Live(t)
    BY <1>3, RelaxLive
  <2>2. distance'[t] = distance[t] /\ residual'[t] = residual[t]
    BY <1>3 DEF Relax, TypeOK
  <2> QED BY <1>3, <2>1, <2>2 DEF Distance, Residual
<1> QED BY <1>2, <1>3

\* Relaxing an arc claims its target and queues it, with its mark, if it gained.
LEMMA BufferRelax ==
  ASSUME BufferInv, NEW arc \in left, Relax(arc)
  PROVE  MarksAreDated' /\ EntriesAgree' /\ MarksMatchQueue'
<1> USE DEF BufferInv
<1>0. running
  BY DEF MarksAreDated
<1>1. arc.next \in State
  BY LeftType
<1>2. MarksAreDated'
  BY <1>1 DEF MarksAreDated, Relax, TypeOK
<1>3. EntriesAgree'
  <2> SUFFICES ASSUME NEW t \in State, Live(t)'
               PROVE  adder'[t] = distance'[t] /\ (t \notin queue' => residual'[t] = Zero)
    BY DEF EntriesAgree
  <2>1. CASE t # arc.next
    BY <1>0, <2>1, RelaxLive DEF EntriesAgree, Relax, TypeOK
  <2>2. CASE t = arc.next
    <3>1. Summed(t) = Distance(t)
      BY <1>0 DEF Summed, Distance, EntriesAgree
    <3>2. adder'[t] = distance'[t]
      BY <1>1, <2>2, <3>1 DEF Relax, TypeOK
    <3>3. ASSUME t \notin queue' PROVE residual'[t] = Zero
      <4>1. t \notin queue
        BY <3>3 DEF Relax
      <4>2. Residual(t) = Zero
        BY <1>0, <4>1 DEF Residual, EntriesAgree
      <4>3. t \notin Claimed(t)
        BY <1>0, <4>1 DEF Claimed, MarksMatchQueue
      <4>4. Absorbs(Distance(t), Times(r, arc.weight))
        BY <2>2, <3>3, <4>3 DEF Relax
      <4> QED BY <1>1, <2>2, <4>2, <4>4 DEF Relax, TypeOK
    <3> QED BY <3>2, <3>3
  <2> QED BY <2>1, <2>2
<1>4. MarksMatchQueue'
  <2>1. \A t \in enqueued' \cup queue' : t \in State
    BY <1>1 DEF Relax, TypeOK, Claimed
  <2>2. \A t \in State : t \in queue' <=> t \in enqueued' /\ Live(t)'
    BY <1>0, <1>1, RelaxLive DEF Relax, Claimed, MarksMatchQueue
  <2> QED BY <2>1, <2>2 DEF MarksMatchQueue
<1> QED BY <1>2, <1>3, <1>4

\* Every step keeps what the buffers promise.
LEMMA BufferNext == BufferInv /\ [Next]_vars => BufferInv'
<1> SUFFICES ASSUME BufferInv, [Next]_vars PROVE MarksAreDated' /\ EntriesAgree' /\ MarksMatchQueue'
  BY TypeNext DEF BufferInv
<1>1. ASSUME UNCHANGED vars PROVE MarksAreDated' /\ EntriesAgree' /\ MarksMatchQueue'
  BY <1>1 DEF BufferInv, vars, MarksAreDated, EntriesAgree, MarksMatchQueue, Live
<1> QED BY <1>1, BufferBegin, BufferFinish, BufferExpand, BufferRelax DEF Next, FirstPath, End, Converged

\* While a run goes on, the marks of the entries it has claimed are exactly
\* the states the queue holds.
THEOREM MarksSayWhatIsQueued == Spec => []MarksMatchQueue
<1>1. BufferInv => MarksMatchQueue
  BY DEF BufferInv
<1> QED BY BufferInit, BufferNext, <1>1, PTL DEF Spec

-----------------------------------------------------------------------------
\* At the start of a run every distance is Zero but the source's, which is One.
LEMMA BeginDistance ==
  ASSUME BufferInv, NEW s \in State, Begin(s), NEW t \in State
  PROVE  /\ Distance(t)' = (IF t = s THEN One ELSE Zero)
         /\ Residual(t)' = Distance(t)'
BY BeginLive DEF Begin, Distance, Residual, BufferInv

\* Expanding a state moves its residual into what it passes on.
LEMMA ExpandDistance ==
  ASSUME BufferInv, running, NEW s \in State, Expand(s), NEW t \in State
  PROVE  /\ Distance(t)' = Distance(t)
         /\ Residual(t)' = (IF t = s THEN Zero ELSE Residual(t))
         /\ Residual(s) = residual[s]
<1>1. Live(s)
  BY DEF Expand, Front, BufferInv, MarksMatchQueue
<1>2. Live(t)' <=> Live(t)
  BY DEF Live, Expand
<1> QED BY <1>1, <1>2 DEF Expand, Distance, Residual, BufferInv, TypeOK

\* The start of a run: nothing is passed on, and Zero is all that has arrived.
LEMMA PassedOnBegin ==
  ASSUME BufferInv, Idempotent, NEW s \in State, Begin(s)
  PROVE  PassedOn'
<1>1. /\ Zero \in Weight /\ One \in Weight /\ Plus(Zero, Zero) = Zero /\ Plus(Zero, One) = One
      /\ Plus(One, One) = One
  BY SemiringAssumption DEF Idempotent
<1>2. (Absorbs(Distance(source), One))'
  BY <1>1, BeginDistance DEF Begin, Absorbs
<1>3. \A t \in State : given'[t] = Zero
  BY DEF Begin, Fresh
<1>4. \A t \in State : Distance(t)' = Plus(given'[t], Residual(t)')
  BY <1>1, <1>3, BeginDistance
<1>5. \A t \in State : \A a \in setup'.arcs[t] : (Absorbs(Distance(a.next), Times(given[t], a.weight)))'
  <2> SUFFICES ASSUME NEW t \in State, NEW a \in setup.arcs[t]
               PROVE  (Absorbs(Distance(a.next), Times(given[t], a.weight)))'
    BY DEF Begin
  <2>1. a.next \in State /\ a.weight \in Weight
    BY SetupType DEF BufferInv
  <2>2. Times(given'[t], a.weight) = Zero
    BY <1>3, <2>1, SemiringAssumption
  <2>3. Distance(a.next)' \in Weight
    BY <1>1, <2>1, BeginDistance
  <2> QED BY <2>2, <2>3, PlusZero DEF Absorbs
<1> QED BY <1>1, <1>2, <1>3, <1>4, <1>5 DEF PassedOn, Begin

\* Expanding a state: what it had passed on has arrived, and the rest is to come.
LEMMA PassedOnExpand ==
  ASSUME BufferInv, PassedOn, NEW s \in State, Expand(s)
  PROVE  PassedOn'
<1> USE DEF BufferInv
<1>1. running /\ left = {} /\ source' = source /\ setup' = setup /\ left' = setup.arcs[s]
  BY DEF Expand
<1>2. Distance(source)' = Distance(source')
  BY <1>1 DEF Distance, Live, Expand
<1>3. (Absorbs(Distance(source), One))'
  BY <1>1, ExpandDistance DEF PassedOn, TypeOK, Absorbs, Expand
<1>4. /\ given' = [given EXCEPT ![s] = Plus(given[s], residual[s])]
      /\ current' = s /\ r' = residual[s] /\ earlier' = given[s]
  BY DEF Expand
<1>5. given'[current'] = Plus(earlier', r')
  BY <1>4 DEF TypeOK
<1>6. ASSUME NEW t \in State PROVE Distance(t)' = Plus(given'[t], Residual(t)')
  <2>1. Distance(t) = Plus(given[t], Residual(t))
    BY <1>1 DEF PassedOn
  <2>2. CASE t = s
    <3>1. given'[t] = Plus(given[t], Residual(t)) /\ given'[t] \in Weight
      BY <1>1, <1>4, <2>2, ExpandDistance, SemiringAssumption DEF TypeOK
    <3> QED BY <1>1, <2>1, <2>2, <3>1, ExpandDistance, PlusZero
  <2>3. CASE t # s
    BY <1>1, <1>4, <2>1, <2>3, ExpandDistance DEF TypeOK
  <2> QED BY <2>2, <2>3
<1>7. ASSUME NEW t \in State, NEW a \in setup.arcs[t]
      PROVE  Absorbs(Distance(a.next)', Times(given[t], a.weight))
  <2>1. a.next \in State
    BY SetupType
  <2>2. Absorbs(Distance(a.next), Times(given[t], a.weight))
    BY <1>1 DEF PassedOn
  <2> QED BY <1>1, <2>1, <2>2, ExpandDistance DEF Absorbs
<1>8. \A t \in State : \A a \in setup'.arcs[t] :
        ~(t = current' /\ a \in left') => (Absorbs(Distance(a.next), Times(given[t], a.weight)))'
  BY <1>1, <1>4, <1>7 DEF TypeOK, Absorbs
<1>9. \A a \in left' : (Absorbs(Distance(a.next), Times(earlier, a.weight)))'
  BY <1>1, <1>4, <1>7 DEF Absorbs
<1> QED BY <1>3, <1>5, <1>6, <1>8, <1>9 DEF PassedOn

\* Relaxing an arc: it has now carried all that its state passed on.
LEMMA PassedOnRelax ==
  ASSUME BufferInv, PassedOn, Idempotent, NEW arc \in left, Relax(arc)
  PROVE  PassedOn'
<1> USE DEF BufferInv
<1>0. running /\ running' = running /\ source' = source /\ setup' = setup /\ current' = current
      /\ r' = r /\ given' = given /\ earlier' = earlier /\ left' = left \ {arc}
  BY DEF MarksAreDated, Relax, history
<1>1. arc.next \in State /\ arc.weight \in Weight /\ arc \in setup.arcs[current]
  BY LeftType
<1>2. Times(r, arc.weight) \in Weight
  BY <1>1, SemiringAssumption DEF TypeOK
<1>3. ASSUME NEW t \in State, NEW v \in Weight, Absorbs(Distance(t), v)
      PROVE  Absorbs(Distance(t)', v)
  <2>1. Distance(t) \in Weight
    BY EntryType
  <2>2. Absorbs(Plus(Distance(t), Times(r, arc.weight)), v)
    BY <1>2, <1>3, <2>1, AbsorbsMore
  <2> QED BY <1>3, <2>2, RelaxDistance
<1>4. Absorbs(Distance(arc.next)', Times(r, arc.weight))
  BY <1>1, <1>2, EntryType, RelaxDistance, AbsorbsAdded
<1>5. (Absorbs(Distance(source), One))'
  <2>1. Absorbs(Distance(source)', One)
    BY <1>0, <1>3, SemiringAssumption DEF PassedOn, TypeOK
  <2> QED BY <1>0, <2>1 DEF Absorbs, Distance, Live
<1>6. ASSUME NEW t \in State PROVE Distance(t)' = Plus(given'[t], Residual(t)')
  <2>1. /\ Distance(t) = Plus(given[t], Residual(t))
        /\ given[t] \in Weight /\ Residual(t) \in Weight
    BY <1>0, EntryType DEF PassedOn, TypeOK
  <2>2. Plus(Plus(given[t], Residual(t)), Times(r, arc.weight)) = Plus(given[t], Plus(Residual(t), Times(r, arc.weight)))
    BY <1>2, <2>1, Associates
  <2> QED BY <1>0, <2>1, <2>2, RelaxDistance DEF Absorbs
<1>7. \A t \in State : \A a \in setup.arcs[t] :
        a.next \in State /\ Times(given[t], a.weight) \in Weight /\ Times(earlier, a.weight) \in Weight
  <2> SUFFICES ASSUME NEW t \in State, NEW a \in setup.arcs[t]
               PROVE  a.next \in State /\ Times(given[t], a.weight) \in Weight /\ Times(earlier, a.weight) \in Weight
    OBVIOUS
  <2>1. a.next \in State /\ a.weight \in Weight
    BY SetupType
  <2>2. given[t] \in Weight /\ earlier \in Weight
    BY DEF TypeOK
  <2> QED BY <2>1, <2>2, Closure
<1>8. \A a \in left' : Absorbs(Distance(a.next)', Times(earlier', a.weight))
  BY <1>0, <1>3, <1>7 DEF PassedOn, TypeOK
<1>9. Absorbs(Distance(arc.next)', Times(given[current], arc.weight))
  <2>1. Absorbs(Distance(arc.next)', Times(earlier, arc.weight))
    BY <1>0, <1>1, <1>3, <1>7 DEF PassedOn, TypeOK
  <2>2. Times(given[current], arc.weight) = Plus(Times(earlier, arc.weight), Times(r, arc.weight))
    <3>1. given[current] = Plus(earlier, r)
      BY <1>0 DEF PassedOn
    <3>2. earlier \in Weight /\ r \in Weight
      BY DEF TypeOK
    <3> QED BY <1>1, <3>1, <3>2, Distributes
  <2>3. Distance(arc.next)' \in Weight
    <3>1. Plus(Distance(arc.next), Times(r, arc.weight)) \in Weight
      BY <1>1, <1>2, EntryType, Closure
    <3> QED BY <1>1, <3>1, RelaxDistance
  <2>4. Times(earlier, arc.weight) \in Weight
    BY <1>1, SemiringAssumption DEF TypeOK
  <2> QED BY <1>2, <1>4, <2>1, <2>2, <2>3, <2>4, AbsorbsSum
<1>10. ASSUME NEW t \in State, NEW a \in setup.arcs[t], ~(t = current /\ a \in left')
       PROVE  Absorbs(Distance(a.next)', Times(given[t], a.weight))
  <2>1. CASE t = current /\ a = arc
    BY <1>9, <2>1
  <2>2. CASE ~(t = current /\ a = arc)
    BY <1>0, <1>3, <1>7, <1>10, <2>2 DEF PassedOn
  <2> QED BY <2>1, <2>2
<1>11. \A t \in State : \A a \in setup'.arcs[t] :
        ~(t = current' /\ a \in left') => (Absorbs(Distance(a.next), Times(given[t], a.weight)))'
  BY <1>0, <1>10 DEF Absorbs
<1>12. \A a \in left' : (Absorbs(Distance(a.next), Times(earlier, a.weight)))'
  BY <1>8 DEF Absorbs
<1>13. given'[current'] = Plus(earlier', r')
  BY <1>0 DEF PassedOn
<1> QED BY <1>0, <1>5, <1>6, <1>11, <1>12, <1>13 DEF PassedOn

\* Every step keeps what has been passed on and what has arrived in step.
LEMMA PassedOnNext == Idempotent /\ BufferInv /\ PassedOn /\ [Next]_vars => PassedOn'
<1> SUFFICES ASSUME Idempotent, BufferInv, PassedOn, [Next]_vars PROVE PassedOn'
  OBVIOUS
<1>1. ASSUME Finish PROVE PassedOn'
  BY <1>1 DEF PassedOn, Finish
<1>2. ASSUME UNCHANGED vars PROVE PassedOn'
  BY <1>2 DEF vars, PassedOn, Distance, Residual, Live, Absorbs
<1> QED BY <1>1, <1>2, PassedOnBegin, PassedOnExpand, PassedOnRelax DEF Next, FirstPath, End

\* Over an idempotent semiring no arc can improve a distance of a run that
\* converges, and the source is at One or better.
THEOREM ConvergedDistancesAreClosed == ASSUME Idempotent PROVE Spec => []DistancesAreClosed
<1>1. Init => PassedOn
  BY DEF Init, PassedOn
<1>2. BufferInv /\ PassedOn => DistancesAreClosed
  <2> SUFFICES ASSUME BufferInv, PassedOn, Converged PROVE DistancesAreClosed
    BY DEF DistancesAreClosed
  <2>1. \A s \in State : Residual(s) = Zero
    BY DEF BufferInv, EntriesAgree, Converged, Residual
  <2>2. \A s \in State : Distance(s) = given[s]
    BY <2>1, PlusZero DEF PassedOn, Converged, BufferInv, TypeOK
  <2> QED BY <2>2 DEF DistancesAreClosed, PassedOn, Converged
<1>3. BufferInv /\ PassedOn /\ [Next]_vars => PassedOn'
  BY PassedOnNext
<1> QED BY BufferInit, BufferNext, <1>1, <1>2, <1>3, PTL DEF Spec

-----------------------------------------------------------------------------
\* The start of a run is bounded by every such function, for One is.
LEMMA BoundedBegin ==
  ASSUME BufferInv, NEW D \in [State -> Weight], NEW s \in State, Begin(s)
  PROVE  BoundedBy(D)'
<1> SUFFICES ASSUME ClosedUnderArcs(D)' PROVE (BoundedBy(D)!2)'
  BY DEF BoundedBy
<1>1. Plus(D[s], One) = D[s]
  BY DEF ClosedUnderArcs, Begin, Absorbs
<1>2. \A t \in State : Plus(D[t], Zero) = D[t]
  BY PlusZero
<1>3. r' = Zero /\ current' = s
  BY DEF Begin
<1> QED BY <1>1, <1>2, <1>3, BeginDistance DEF Absorbs

\* Expanding a state passes on a residual that is bounded.
LEMMA BoundedExpand ==
  ASSUME BufferInv, NEW D \in [State -> Weight], BoundedBy(D), NEW s \in State, Expand(s)
  PROVE  BoundedBy(D)'
<1> SUFFICES ASSUME ClosedUnderArcs(D)' PROVE (BoundedBy(D)!2)'
  BY DEF BoundedBy
<1>1. running /\ setup' = setup /\ source' = source /\ current' = s /\ r' = residual[s]
  BY DEF Expand
<1>2. ClosedUnderArcs(D)
  BY <1>1 DEF ClosedUnderArcs, Absorbs
<1>3. \A t \in State : Absorbs(D[t], Distance(t)) /\ Absorbs(D[t], Residual(t))
  BY <1>1, <1>2 DEF BoundedBy
<1> QED BY <1>1, <1>3, ExpandDistance, PlusZero DEF Absorbs

\* Relaxing an arc carries a bounded residual along it, and the arc keeps it bounded.
LEMMA BoundedRelax ==
  ASSUME BufferInv, NEW D \in [State -> Weight], BoundedBy(D), NEW arc \in left, Relax(arc)
  PROVE  BoundedBy(D)'
<1> DEFINE next == arc.next  weight == Times(r, arc.weight)
<1> SUFFICES ASSUME ClosedUnderArcs(D)' PROVE (BoundedBy(D)!2)'
  BY DEF BoundedBy
<1>1. running /\ setup' = setup /\ source' = source /\ current' = current /\ r' = r
  BY DEF BufferInv, MarksAreDated, Relax
<1>2. ClosedUnderArcs(D)
  BY <1>1 DEF ClosedUnderArcs, Absorbs
<1>3. /\ \A t \in State : Absorbs(D[t], Distance(t)) /\ Absorbs(D[t], Residual(t))
      /\ Absorbs(D[current], r)
  BY <1>1, <1>2 DEF BoundedBy
<1>4. /\ arc.next \in State /\ arc.weight \in Weight /\ arc \in setup.arcs[current]
      /\ current \in State /\ r \in Weight
  BY LeftType DEF BufferInv, TypeOK
<1>5. Absorbs(D[next], weight)
  <2>1. Absorbs(D[next], Times(D[current], arc.weight))
    BY <1>2, <1>4 DEF ClosedUnderArcs
  <2>2. Absorbs(Times(D[current], arc.weight), weight)
    BY <1>3, <1>4, AbsorbsAlong
  <2>3. Times(D[current], arc.weight) \in Weight /\ weight \in Weight
    BY <1>4, Closure
  <2> QED BY <1>4, <2>1, <2>2, <2>3, AbsorbsTransitive
<1>6. weight \in Weight
  BY <1>4, Closure
<1>7. ASSUME NEW t \in State
      PROVE  Absorbs(D[t], Distance(t)') /\ Absorbs(D[t], Residual(t)')
  <2>1. Distance(t) \in Weight /\ Residual(t) \in Weight
    BY EntryType DEF BufferInv
  <2>2. Absorbs(D[t], Distance(t)) /\ Absorbs(D[t], Residual(t))
    BY <1>3
  <2>3. CASE t = next
    <3>1. Absorbs(D[t], Plus(Distance(t), weight)) /\ Absorbs(D[t], Plus(Residual(t), weight))
      BY <1>5, <1>6, <2>1, <2>2, <2>3, AbsorbsSum
    <3> QED BY <2>2, <2>3, <3>1, RelaxDistance
  <2>4. CASE t # next
    BY <2>2, <2>4, RelaxDistance
  <2> QED BY <2>3, <2>4
<1> QED BY <1>1, <1>3, <1>7 DEF Absorbs

\* The distances of a run are never better than those of any function that the
\* arcs cannot improve: with the theorem above, they converge to the least such.
THEOREM DistancesAreLeast ==
  ASSUME NEW D \in [State -> Weight]
  PROVE  Spec => [](running /\ ClosedUnderArcs(D) => \A s \in State : Absorbs(D[s], Distance(s)))
<1>1. Init => BoundedBy(D)
  BY DEF Init, BoundedBy
<1>2. ASSUME BufferInv, BoundedBy(D), [Next]_vars PROVE BoundedBy(D)'
  <2>1. ASSUME Finish PROVE BoundedBy(D)'
    BY <2>1 DEF BoundedBy, Finish
  <2>2. ASSUME UNCHANGED vars PROVE BoundedBy(D)'
    BY <1>2, <2>2 DEF vars, BoundedBy, ClosedUnderArcs, Distance, Residual, Live, Absorbs
  <2> QED BY <1>2, <2>1, <2>2, BoundedBegin, BoundedExpand, BoundedRelax DEF Next, FirstPath, End
<1>3. BoundedBy(D) => (running /\ ClosedUnderArcs(D) => \A s \in State : Absorbs(D[s], Distance(s)))
  BY DEF BoundedBy
<1> QED BY BufferInit, BufferNext, <1>1, <1>2, <1>3, PTL DEF Spec
=============================================================================
