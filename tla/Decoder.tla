------------------------------ MODULE Decoder ------------------------------
(***************************************************************************)
(* The two decoders over a graph and a matrix of scores.  Both keep, a     *)
(* frame at a time, the cheapest way to reach each state of the graph that *)
(* the beam spares, and relax the graph's epsilon arcs within the frame    *)
(* off a stack.  viterbi_decode also keeps links back, one for each label  *)
(* said; lattice_decode makes a state of each state that survives a frame  *)
(* and an arc of each arc between two that do, whether or not it was the   *)
(* best way there.                                                         *)
(*                                                                         *)
(* The hash maps are walked in an order nobody states: each state is the   *)
(* next one taken.  A lattice state is named by its frame and graph state. *)
(***************************************************************************)
EXTENDS Integers, Sequences, FiniteSetsExt

Seqs == INSTANCE SequencesExt

CONSTANTS Inf, Tasks

VARIABLES
  task,      \* what is decoded, as in BeamSearch, and by which of the two
  pc,        \* where the decoder is
  frame,     \* how many frames are behind, or -1 before the start has been settled
  current,   \* the frontier of the frames read: states with cost and link
  next,      \* the one being built
  todo,      \* the states of current to expand in this frame
  walk,      \* the state being expanded, its token and its arcs not taken yet
  waiting, stack,  \* the epsilon queue: what it was filled with and not popped, what was pushed
  cutoff,    \* the beam of the frame
  budget,    \* how many more states may be popped
  links,     \* the labels said, each with the link before it
  pending,   \* the arcs taken in this frame
  lattice,   \* the lattice: its states, arcs and finals
  answer     \* what is returned

vars == <<task, pc, frame, current, next, todo, walk, waiting, stack, cutoff, budget, links, pending, lattice, answer>>

NO_AUX  == 0
EPSILON == 0

Along(a, b) == IF a = Inf \/ b = Inf THEN Inf ELSE a + b
T == Len(task.frames)

ArcsOf(s) == {a \in task.arcs : a.from = s}

\* The graph of a CTC model: a state for each symbol that may have come last, 0
\* for a blank.
CtcTopo(num_symbols, label_offset) ==
  IF num_symbols < 2 \/ label_offset < 1 THEN "refused"
  ELSE [states |-> 0 .. num_symbols - 1, start |-> 0, final |-> [s \in 0 .. num_symbols - 1 |-> 0],
        arcs |-> {[from |-> last, ilabel |-> label_offset + symbol, cost |-> 0, to |-> symbol,
                   olabel |-> IF symbol \in {0, last} THEN EPSILON ELSE label_offset + symbol] :
                    <<last, symbol>> \in (0 .. num_symbols - 1) \X (0 .. num_symbols - 1)}]

\* The rule it stands for: what repeats is one, and the blanks go.
Collapse(columns) ==
  LET kept == {i \in DOMAIN columns : columns[i] # 0 /\ (i = 1 \/ columns[i] # columns[i - 1])}
      at   == Seqs!SetToSortSeq(kept, LAMBDA i, j : i < j)
  IN [k \in DOMAIN at |-> columns[at[k]]]

\* The matrix read as a chain of frames, an arc for each column.
DenseFst(frames, offset) ==
  [states |-> 0 .. Len(frames), start |-> 0,
   final |-> [f \in 0 .. Len(frames) |-> IF f = Len(frames) THEN 0 ELSE Inf],
   arcs |-> UNION {{[from |-> f - 1, ilabel |-> offset + c, olabel |-> offset + c, cost |-> frames[f][c], to |-> f] :
                      c \in DOMAIN frames[f]} : f \in DOMAIN frames}]

\* The column a label names, if any.
ColumnsOf(label) == {c \in DOMAIN task.frames[frame + 1] : c = label - task.offset}

Token(cost, aux) == [cost |-> cost, aux |-> aux]

-----------------------------------------------------------------------------
(* The frontier.                                                           *)

Put(frontier, s, token) == [x \in DOMAIN frontier \cup {s} |-> IF x = s THEN token ELSE frontier[x]]

Betters(frontier, s, cost) == s \notin DOMAIN frontier \/ cost < frontier[s].cost

\* Mutant: what is bettered keeps its own link.
RelaxOldLink(a, cost) ==
  LET said == task.by = "viterbi" /\ a.olabel # EPSILON IN
  IF Betters(next, a.to, cost)
  THEN /\ next' = Put(next, a.to, Token(cost, IF said THEN Len(links) + 1
                                             ELSE IF a.to \in DOMAIN next THEN next[a.to].aux ELSE walk.token.aux))
       /\ links' = IF said THEN Append(links, [prev |-> walk.token.aux, olabel |-> a.olabel]) ELSE links
  ELSE UNCHANGED <<next, links>>

\* An arc that says nothing keeps the link it came with.
Relax(a, cost) ==
  LET said == task.by = "viterbi" /\ a.olabel # EPSILON IN
  IF Betters(next, a.to, cost)
  THEN /\ next' = Put(next, a.to, Token(cost, IF said THEN Len(links) + 1 ELSE walk.token.aux))
       /\ links' = IF said THEN Append(links, [prev |-> walk.token.aux, olabel |-> a.olabel]) ELSE links
  ELSE UNCHANGED <<next, links>>

BestOf(frontier) == Min({frontier[s].cost : s \in DOMAIN frontier})

\* Mutant: only the beam is applied.
CutoffBeamOnly(frontier) == Along(BestOf(frontier), task.beam)

\* The beam, tightened to the cost at the cap's rank when there are more tokens.
Cutoff(frontier) ==
  LET cap == Max({task.max_active, task.min_active})
      nth == {frontier[s].cost : s \in {x \in DOMAIN frontier :
                Cardinality({y \in DOMAIN frontier : frontier[y].cost <= frontier[x].cost}) > cap}}
  IN Min({Along(BestOf(frontier), task.beam)} \cup nth)

Retain(frontier, limit) ==
  [s \in {x \in DOMAIN frontier : frontier[x].cost <= limit} |-> frontier[s]]

Budget(frontier) == 64 * Cardinality(DOMAIN frontier) + 1024

-----------------------------------------------------------------------------
Empty == [s \in {} |-> Token(0, NO_AUX)]

NoLattice == [states |-> {}, arcs |-> {}, final |-> {}]

Init ==
  /\ task \in Tasks
  /\ pc = "settle" /\ frame = -1
  /\ current = Empty /\ next = [s \in {task.start} |-> Token(0, NO_AUX)]
  /\ todo = {} /\ walk = [token |-> Token(0, NO_AUX), arcs |-> <<>>] /\ waiting = {task.start} /\ stack = <<>>
  /\ cutoff = Inf /\ budget = Budget(next)
  /\ links = <<>> /\ pending = {} /\ lattice = NoLattice
  /\ answer = [found |-> "nothing"]

\* Mutant: a state that has been expanded is not ticked off.
ExpandAgain(s) ==
  /\ pc = "emit" /\ walk.arcs = <<>> /\ s \in todo
  /\ todo' = todo
  /\ walk' = [token |-> current[s], arcs |-> Seqs!SetToSeq({a \in ArcsOf(s) : a.ilabel # EPSILON})]
  /\ UNCHANGED <<task, pc, frame, current, next, waiting, stack, cutoff, budget, links, pending, lattice, answer>>

\* The next of the frontier's states is to have its emitting arcs taken.
Expand(s) ==
  /\ pc = "emit" /\ walk.arcs = <<>> /\ s \in todo
  /\ todo' = todo \ {s}
  /\ walk' = [token |-> current[s], arcs |-> Seqs!SetToSeq({a \in ArcsOf(s) : a.ilabel # EPSILON})]
  /\ UNCHANGED <<task, pc, frame, current, next, waiting, stack, cutoff, budget, links, pending, lattice, answer>>

\* An emitting arc, whose label must name a column.
Emit ==
  LET a      == Head(walk.arcs)
      column == ColumnsOf(a.ilabel)
      score  == task.frames[frame + 1][CHOOSE c \in column : TRUE]
  IN /\ pc = "emit" /\ walk.arcs # <<>>
     /\ IF column = {}
        THEN /\ pc' = "refused"
             /\ UNCHANGED <<next, links, pending, walk>>
        ELSE /\ Relax(a, Along(Along(walk.token.cost, a.cost), score))
             /\ pending' = IF task.by = "lattice" THEN pending \cup {[arc |-> a, acoustic |-> score]} ELSE pending
             /\ walk' = [walk EXCEPT !.arcs = Tail(@)]
             /\ pc' = pc
     /\ UNCHANGED <<task, frame, current, todo, waiting, stack, cutoff, budget, lattice, answer>>

\* The frame is read: what the beam spares is to have its epsilons relaxed.
EndFrame ==
  /\ pc = "emit" /\ walk.arcs = <<>> /\ todo = {}
  /\ IF DOMAIN next = {}
     THEN /\ pc' = "done"
          /\ UNCHANGED <<next, waiting, stack, cutoff, budget>>
     ELSE LET limit == Cutoff(next)
              kept  == Retain(next, limit)
          IN /\ cutoff' = limit /\ next' = kept
             /\ waiting' = DOMAIN kept /\ stack' = <<>>
             /\ budget' = Budget(kept)
             /\ pc' = "settle"
  /\ UNCHANGED <<task, frame, current, todo, walk, links, pending, lattice, answer>>

\* The state pushed last is popped, or any of those the queue was filled with.
Pop(s) ==
  /\ pc = "settle" /\ walk.arcs = <<>>
  /\ IF stack = <<>> THEN s \in waiting ELSE s = stack[Len(stack)]
  /\ IF budget = 0
     THEN pc' = "refused" /\ UNCHANGED <<walk, waiting, stack, budget>>
     ELSE /\ pc' = pc /\ budget' = budget - 1
          /\ waiting' = IF stack = <<>> THEN waiting \ {s} ELSE waiting
          /\ stack' = SubSeq(stack, 1, Len(stack) - 1)
          /\ walk' = [token |-> next[s], arcs |-> Seqs!SetToSeq({a \in ArcsOf(s) : a.ilabel = EPSILON})]
  /\ UNCHANGED <<task, frame, current, next, todo, cutoff, links, pending, lattice, answer>>

\* An epsilon arc, unless it goes past the cutoff; what it betters is pushed.
Settle ==
  LET a    == Head(walk.arcs)
      cost == Along(walk.token.cost, a.cost)
  IN /\ pc = "settle" /\ walk.arcs # <<>>
     /\ walk' = [walk EXCEPT !.arcs = Tail(@)]
     /\ IF cost > cutoff THEN UNCHANGED <<next, links, stack>>
        ELSE /\ Relax(a, cost)
             /\ stack' = IF Betters(next, a.to, cost) THEN Append(stack, a.to) ELSE stack
     /\ UNCHANGED <<task, pc, frame, current, todo, waiting, cutoff, budget, pending, lattice, answer>>

LatticeArc(from, a, acoustic, to) ==
  [from |-> from, ilabel |-> a.ilabel, olabel |-> a.olabel, graph |-> a.cost, acoustic |-> acoustic, to |-> to]

\* An arc for every epsilon arc between two states of the frontier.
EmitEpsilons(frontier) ==
  {LatticeArc(<<frame + 1, a.from>>, a, 0, <<frame + 1, a.to>>) :
     a \in {b \in task.arcs : b.ilabel = EPSILON /\ {b.from, b.to} \subseteq DOMAIN frontier}}

\* The lattice's states of this frame, the arcs that reached them, and the
\* epsilon arcs between them.
\* Mutant: only the arcs that were the best way to their ends are kept.
GrownBest(frontier) ==
  [lattice EXCEPT
     !.states = @ \cup {<<frame + 1, s>> : s \in DOMAIN frontier},
     !.arcs = @ \cup {LatticeArc(<<frame, p.arc.from>>, p.arc, p.acoustic, <<frame + 1, p.arc.to>>) :
                        p \in {q \in pending : /\ q.arc.to \in DOMAIN frontier
                                               /\ frontier[q.arc.to].cost = Along(Along(current[q.arc.from].cost, q.arc.cost), q.acoustic)}}
                \cup EmitEpsilons(frontier)]

Grown(frontier) ==
  [lattice EXCEPT
     !.states = @ \cup {<<frame + 1, s>> : s \in DOMAIN frontier},
     !.arcs = @ \cup {LatticeArc(<<frame, p.arc.from>>, p.arc, p.acoustic, <<frame + 1, p.arc.to>>) :
                        p \in {q \in pending : q.arc.to \in DOMAIN frontier}}
                \cup EmitEpsilons(frontier)]

\* The epsilons are settled: the cap is applied again, and the frontiers change places.
EndSettle ==
  LET capped == frame >= 0 /\ Cardinality(DOMAIN next) > task.max_active
      kept   == IF capped THEN Retain(next, Cutoff(next)) ELSE next
  IN /\ pc = "settle" /\ walk.arcs = <<>> /\ waiting = {} /\ stack = <<>>
     /\ lattice' = IF task.by = "lattice" THEN Grown(kept) ELSE lattice
     /\ current' = kept /\ todo' = DOMAIN kept
     /\ next' = Empty /\ pending' = {} /\ frame' = frame + 1
     /\ pc' = IF frame + 1 = T THEN "final" ELSE "emit"
     /\ UNCHANGED <<task, walk, waiting, stack, cutoff, budget, links, answer>>

Finals == {s \in DOMAIN current : task.final[s] # Inf}
Totals == [s \in Finals |-> Along(current[s].cost, task.final[s])]

\* Back along the links, the labels in order.
TraceBack(link) ==
  LET from[l \in 0 .. Len(links)] == IF l = NO_AUX THEN <<>> ELSE Append(from[links[l].prev], links[l].olabel)
  IN from[link]

\* The first walked of the cheapest.
ViterbiFinal ==
  /\ pc = "final" /\ task.by = "viterbi"
  /\ pc' = "done"
  /\ IF Finals = {} THEN answer' = answer
     ELSE \E s \in {x \in Finals : \A y \in Finals : Totals[x] <= Totals[y]} :
            answer' = [found |-> "path", labels |-> TraceBack(current[s].aux), cost |-> Totals[s]]
  /\ UNCHANGED <<task, frame, current, next, todo, walk, waiting, stack, cutoff, budget, links, pending, lattice>>

-----------------------------------------------------------------------------
(* What becomes of the lattice at the end.                                 *)

LatticeWeight(graph, acoustic) == [graph |-> graph, acoustic |-> acoustic]
LatticeZero == LatticeWeight(Inf, Inf)
Total(w) == Along(w.graph, w.acoustic)
Better(v, w) == Total(v) < Total(w) \/ (Total(v) = Total(w) /\ v.graph < w.graph)
LatticeTimes(v, w) == LatticeWeight(Along(v.graph, w.graph), Along(v.acoustic, w.acoustic))

\* The best weight from a set of states to each that can be reached along arcs
\* given as from, weight, to.
Distances(arcs, from, states) ==
  LET Best(known) == {k \in known : \A x \in known : x[1] = k[1] => ~Better(x[2], k[2])}
      upto[n \in 0 .. Cardinality(states)] ==
        IF n = 0 THEN Best(from)
        ELSE LET known == upto[n - 1] IN
             Best(known \cup {<<x[1].to, LatticeTimes(x[2][2], x[1].weight)>> :
                                x \in {y \in arcs \X known : y[1].from = y[2][1]}})
      known == upto[Cardinality(states)]
  IN [s \in states |-> IF \E k \in known : k[1] = s THEN (CHOOSE k \in known : k[1] = s)[2] ELSE LatticeZero]

Forwards(lat)  == {[from |-> a.from, weight |-> LatticeWeight(a.graph, a.acoustic), to |-> a.to] : a \in lat.arcs}
Backwards(lat) == {[from |-> a.to, weight |-> LatticeWeight(a.graph, a.acoustic), to |-> a.from] : a \in lat.arcs}

Start == <<0, task.start>>

ToStates(lat)   == Distances(Forwards(lat), {<<Start, LatticeWeight(0, 0)>>}, lat.states)
ToFinals(lat)   == Distances(Backwards(lat), {<<f[1], LatticeWeight(f[2], 0)>> : f \in lat.final}, lat.states)

Keep(lat, states, arcs, finals) ==
  [states |-> states, arcs |-> {a \in arcs : {a.from, a.to} \subseteq states}, final |-> {f \in finals : f[1] \in states}]

\* The states that can be reached from a set of them along pairs.
ReachableFrom(pairs, from, states) ==
  LET upto[n \in 0 .. Cardinality(states)] ==
        IF n = 0 THEN from
        ELSE LET known == upto[n - 1] IN known \cup {p[2] : p \in {q \in pairs : q[1] \in known}}
  IN upto[Cardinality(states)]

\* What lies on a path from the start to a final state.
Connected(lat) ==
  LET reached == ReachableFrom({<<a.from, a.to>> : a \in lat.arcs}, {Start} \cap lat.states, lat.states)
      leading == ReachableFrom({<<a.to, a.from>> : a \in lat.arcs}, {f[1] : f \in lat.final}, lat.states)
  IN Keep(lat, reached \cap leading, lat.arcs, lat.final)

Limit(onward, beam) == LatticeTimes(onward[Start], LatticeWeight(beam, 0))

\* What lies on a path no worse than the best by more than the beam.
Pruned(lat, beam) ==
  LET to == ToStates(lat) onward == ToFinals(lat) limit == Limit(onward, beam)
      arcs == {a \in lat.arcs : ~Better(limit, LatticeTimes(LatticeTimes(to[a.from], LatticeWeight(a.graph, a.acoustic)), onward[a.to]))}
      kept == ReachableFrom({<<a.from, a.to>> : a \in arcs}, {Start}, lat.states)
  IN Keep(lat, kept, arcs, {f \in lat.final : ~Better(limit, LatticeTimes(to[f[1]], LatticeWeight(f[2], 0)))})

\* The states of which the heap answers one: the best paths go through them.
BestThrough(waiting_states, to, onward) ==
  {s \in waiting_states : \A t \in waiting_states : ~Better(LatticeTimes(to[t], onward[t]), LatticeTimes(to[s], onward[s]))}

\* The same, written elsewhere a state at a time, each copied when an arc to it is
\* kept; when there are so many, no more arcs are.
PrunedTo(lat, beam, state_threshold) ==
  LET onward == ToFinals(lat) limit == Limit(onward, beam)
      Within(w) == ~Better(limit, w)
      Follow(found, here, a) ==
        LET to_here == LatticeTimes(here, LatticeWeight(a.graph, a.acoustic))
        IN IF ~Within(LatticeTimes(to_here, onward[a.to])) \/ Cardinality(found.copy) >= state_threshold THEN found
           ELSE [found EXCEPT !.to[a.to] = IF Better(to_here, @) THEN to_here ELSE @,
                              !.copy = @ \cup {a.to}, !.arcs = @ \cup {a}]
      Visit(found, s) ==
        LET here == found.to[s] IN
        Seqs!FoldLeft(LAMBDA sofar, a : Follow(sofar, here, a),
                      [found EXCEPT !.visited = @ \cup {s},
                                    !.final = @ \cup {f \in lat.final : f[1] = s /\ Within(LatticeTimes(here, LatticeWeight(f[2], 0)))}],
                      Seqs!SetToSeq({a \in lat.arcs : a.from = s}))
      upto[n \in 0 .. Cardinality(lat.states)] ==
        IF n = 0
        THEN [to |-> [s \in lat.states |-> IF s = Start THEN LatticeWeight(0, 0) ELSE LatticeZero],
              copy |-> {Start}, visited |-> {}, arcs |-> {}, final |-> {}]
        ELSE LET found == upto[n - 1] heap == found.copy \ found.visited IN
             IF heap = {} THEN found ELSE Visit(found, CHOOSE s \in BestThrough(heap, found.to, onward) : TRUE)
      found == upto[Cardinality(lat.states)]
  IN IF Start \notin lat.states \/ beam < 0 \/ state_threshold = 0 \/ onward[Start] = LatticeZero THEN NoLattice
     ELSE [states |-> found.copy, arcs |-> found.arcs, final |-> found.final]

LatticeFinal ==
  LET whole == Connected([lattice EXCEPT !.final = {<<<<T, s>>, task.final[s]>> : s \in Finals}])
      kept  == IF task.lattice_beam = Inf \/ whole.states = {} THEN whole
               ELSE Pruned(whole, task.lattice_beam)
  IN /\ pc = "final" /\ task.by = "lattice"
     /\ pc' = "done"
     /\ answer' = IF Finals = {} \/ kept.states = {} THEN answer
                  ELSE [found |-> "lattice", whole |-> whole, kept |-> kept]
     /\ UNCHANGED <<task, frame, current, next, todo, walk, waiting, stack, cutoff, budget, links, pending, lattice>>

Searching == \/ \E s \in task.states : Expand(s) \/ Pop(s)
             \/ Emit \/ Settle \/ EndFrame \/ EndSettle

Next == Searching \/ ViterbiFinal \/ LatticeFinal

Spec == Init /\ [][Next]_vars /\ WF_vars(Searching)

-----------------------------------------------------------------------------
(* Properties.                                                             *)

Exhaustive == task.beam = Inf /\ task.max_active >= Cardinality(task.states)

\* The runs of the graph against the frames, by what they have come to after a
\* frame: the state, the labels said and the cost.  A run may take as many epsilon
\* arcs within a frame as there are states.
RunsOf(tk) ==
  LET Take(known, arcs, cost(_)) ==
        {[state |-> x[1].to, cost |-> Along(x[2].cost, cost(x[1])),
          said |-> IF x[1].olabel = EPSILON THEN x[2].said ELSE Append(x[2].said, x[1].olabel)] :
           x \in {y \in arcs \X known : y[1].from = y[2].state}}
      silent == {a \in tk.arcs : a.ilabel = EPSILON}
      heard  == tk.arcs \ silent
      settle(known) ==
        LET upto[n \in 0 .. Cardinality(tk.states)] ==
              IF n = 0 THEN known ELSE LET k == upto[n - 1] IN k \cup Take(k, silent, LAMBDA a : a.cost)
        IN IF silent = {} THEN known ELSE upto[Cardinality(tk.states)]
      upto[f \in 0 .. Len(tk.frames)] ==
        IF f = 0 THEN settle({[state |-> tk.start, cost |-> 0, said |-> <<>>]})
        ELSE LET known == upto[f - 1] IN
             settle(Take(known, heard, LAMBDA a : Along(a.cost, tk.frames[f][a.ilabel - tk.offset])))
  IN {[said |-> r.said, cost |-> Along(r.cost, tk.final[r.state])] :
        r \in {x \in upto[Len(tk.frames)] : tk.final[x.state] # Inf}}

\* What viterbi_decode reads back is a run of the graph, labels and cost, with
\* whatever ties the maps' order decided; without a beam none is lighter, and
\* nothing is returned only when there is no run.
AnswersAreRuns ==
  pc = "done" /\ task.by = "viterbi" =>
    LET runs == RunsOf(task) IN
    /\ answer.found = "path" => [said |-> answer.labels, cost |-> answer.cost] \in runs
    /\ Exhaustive => IF answer.found = "path" THEN \A r \in runs : answer.cost <= r.cost ELSE runs = {}

\* Decoding with a CTC graph alone is collapsing the best column of every frame,
\* one of them where several are ("`ctc_topo` encodes this same rule", ctc.rs:116).
CtcReadsTheColumns ==
  pc = "done" /\ task.ctc /\ Exhaustive =>
    LET symbols == DOMAIN task.frames[1]
        best == {w \in [1 .. T -> symbols] : \A f \in 1 .. T : \A c \in symbols : task.frames[f][w[f]] <= task.frames[f][c]}
        said == IF task.by = "viterbi" THEN {answer.labels} ELSE {}
    IN T > 0 => \A labels \in said : \E w \in best : [i \in DOMAIN labels |-> labels[i] - task.offset] = Collapse(w)

\* The graph composed with the matrix: every state of the one in every state of
\* the other.
Composed ==
  LET dense == DenseFst(task.frames, task.offset)
  IN [states |-> dense.states \X task.states,
      arcs |-> {LatticeArc(<<x[2], x[1].from>>, x[1], 0, <<x[2], x[1].to>>) :
                  x \in {a \in task.arcs : a.ilabel = EPSILON} \X dense.states}
               \cup {LatticeArc(<<x[2].from, x[1].from>>, x[1], x[2].cost, <<x[2].to, x[1].to>>) :
                       x \in {y \in task.arcs \X dense.arcs : y[1].ilabel # EPSILON /\ y[1].ilabel = y[2].ilabel}},
      final |-> {<<<<T, s>>, Along(dense.final[T], task.final[s])>> : s \in {x \in task.states : task.final[x] # Inf}}]

\* A surviving state is reached in the lattice as cheaply as its token says, over
\* states that survived too; and with no beam the lattice is all of the composition
\* that leads from the start to an end ("No beam anywhere: the lattice is the whole
\* of `graph . dense`", lattice.rs:59).
LatticeIsWhatSurvived ==
  task.by = "lattice" =>
    /\ pc \in {"emit", "final"} =>
         LET to == ToStates(lattice) IN \A s \in DOMAIN current : Total(to[<<frame, s>>]) = current[s].cost
    /\ pc = "done" /\ Exhaustive =>
         IF answer.found = "lattice" THEN answer.whole = Connected(Composed) ELSE Connected(Composed).states = {}

\* The lattice beam keeps an arc just when some path through it is within the beam
\* of the best path, of what was there and of what is kept.  Pruning into another
\* automaton keeps the same, and with a limit on its states ("At most this many
\* states", prune.rs:29) it has no more of them and nothing else.
LatticeBeamIsSharp ==
  pc = "done" /\ answer.found = "lattice" /\ task.lattice_beam # Inf =>
    LET whole == answer.whole kept == answer.kept
        limit == LatticeTimes(ToFinals(whole)[Start], LatticeWeight(task.lattice_beam, 0))
        Sharp(lat, arcs) ==
          LET to == ToStates(lat) onward == ToFinals(lat)
          IN {a \in lat.arcs : ~Better(limit, LatticeTimes(LatticeTimes(to[a.from], LatticeWeight(a.graph, a.acoustic)), onward[a.to]))} = arcs
    IN /\ Sharp(whole, kept.arcs) /\ Sharp(kept, kept.arcs) /\ ToFinals(kept)[Start] = ToFinals(whole)[Start]
       /\ PrunedTo(whole, task.lattice_beam, Cardinality(whole.states) + 1) = kept
       /\ \A n \in 1 .. Cardinality(kept.states) :
            LET fewer == PrunedTo(whole, task.lattice_beam, n)
            IN /\ Cardinality(fewer.states) <= n
               /\ fewer.states \subseteq kept.states /\ fewer.arcs \subseteq kept.arcs /\ fewer.final \subseteq kept.final

\* A decoding is refused for a label that names no column, or for a cycle of
\* epsilons that costs less than nothing ("the graph's epsilon arcs do not settle,
\* which means a cycle of them costs less than nothing", viterbi.rs:233).
RefusalsAreDeserved ==
  LET silent == {a \in task.arcs : a.ilabel = EPSILON}
      NoMore(costs, n) ==
        LET upto[k \in 0 .. n] ==
              IF k = 0 THEN costs
              ELSE LET c == upto[k - 1] IN
                   [s \in DOMAIN c |-> Min({c[s]} \cup {c[a.from] + a.cost : a \in {x \in silent : x.to = s}})]
        IN upto[n]
      settled == NoMore([s \in task.states |-> 0], Cardinality(task.states))
  IN pc = "refused" =>
       \/ \E a \in task.arcs : a.ilabel # EPSILON /\ a.ilabel - task.offset \notin UNION {DOMAIN f : f \in Seqs!Range(task.frames)}
       \/ NoMore(settled, 1) # settled

\* Both decoders keep what the beam search says, frame by frame, in whatever order
\* their maps are walked and their queues popped.
Alive == IF frame = -1 THEN [s \in {task.start} |-> 0] ELSE [s \in DOMAIN current |-> current[s].cost]
Search == INSTANCE BeamSearch WITH alive <- Alive
KeepsToTheBeam == Search!Spec

\* A cycle of epsilons, whatever it costs, does not keep a decoder searching.
SearchEnds == <>(pc \in {"final", "done", "refused"})

-----------------------------------------------------------------------------
(***************************************************************************)
(* What is made of a lattice once it is decoded: each arc's input label    *)
(* moves into its weight, the arcs that say nothing are removed            *)
(* (RmEpsilon) and the rest determinized over its words (Determinize), so  *)
(* that each sequence of words is there once, with the best of its         *)
(* alignments.  An attempt that builds too many states is given up and     *)
(* made again on a narrower lattice.                                       *)
(***************************************************************************)

VARIABLES
  stage,     \* where the collapsing is
  beam, narrowed,                 \* the beam of this attempt, and how many were given up
  before, links_left, ends, to_expand, connecting, expanded, live,   \* RmEpsilon's
  ifst, to_final, max_states, subsets, opened, member, labels, built, final, out_dist, status  \* Determinize's

removing == <<before, links_left, ends, to_expand, connecting, expanded, live>>
merging  == <<ifst, to_final, max_states, subsets, opened, member, labels, built, final, out_dist, status>>
collapse == <<stage, beam, narrowed>>

-----------------------------------------------------------------------------
(* The semiring: a cost in two halves and the input labels that earned it. *)

CompactZero == [weight |-> LatticeZero, alignment |-> <<>>]
CompactOne  == [weight |-> LatticeWeight(0, 0), alignment |-> <<>>]
NoCompact   == [weight |-> LatticeWeight(Inf, Inf), alignment |-> <<Inf>>]

\* There is one zero, whatever alignment comes with it.
Compacted(weight, alignment) ==
  IF weight = LatticeZero THEN CompactZero ELSE [weight |-> weight, alignment |-> alignment]

Earlier(s, t) == \E i \in DOMAIN s : s[i] < t[i] /\ \A j \in 1 .. i - 1 : s[j] = t[j]

\* The cost decides, then the shorter alignment, then the smaller.
BetterCompact(v, w) ==
  \/ Better(v.weight, w.weight)
  \/ /\ v.weight = w.weight
     /\ \/ Len(v.alignment) < Len(w.alignment)
        \/ Len(v.alignment) = Len(w.alignment) /\ Earlier(v.alignment, w.alignment)

CompactPlus(v, w) == IF BetterCompact(w, v) THEN w ELSE v

CompactTimes(v, w) == Compacted(LatticeTimes(v.weight, w.weight), v.alignment \o w.alignment)

Minus(a, b) == IF a = Inf THEN Inf ELSE a - b

\* The part of a weight that another, taken from its left, leaves.
CompactDivide(v, w) ==
  IF w.weight = LatticeZero \/ ~Seqs!IsPrefix(w.alignment, v.alignment)
  THEN IF v = CompactZero /\ w.weight # LatticeZero THEN CompactZero ELSE NoCompact
  ELSE Compacted(LatticeWeight(Minus(v.weight.graph, w.weight.graph), Minus(v.weight.acoustic, w.weight.acoustic)),
                 SubSeq(v.alignment, Len(w.alignment) + 1, Len(v.alignment)))

Shared(s, t) == SubSeq(s, 1, Max({n \in 0 .. Len(s) : n <= Len(t) /\ \A i \in 1 .. n : s[i] = t[i]}))

\* Mutant: the sum, whose alignment is one member's.
DivisorSum(v, w) == CompactPlus(v, w)

\* The better cost, and the labels both begin with.
CompactLatticeCommonDivisor(v, w) ==
  IF v = CompactZero THEN w ELSE IF w = CompactZero THEN v
  ELSE Compacted(CompactPlus(v, w).weight, Shared(v.alignment, w.alignment))

-----------------------------------------------------------------------------
Number(state) == 10 * state[1] + state[2]

\* The same shape, words on both sides of its arcs and the frames in the weights.
ToCompact(lat) ==
  [start |-> IF lat.states = {} THEN -1 ELSE Number(Start),
   final |-> [n \in {Number(s) : s \in lat.states} |->
                IF \E f \in lat.final : Number(f[1]) = n
                THEN Compacted(LatticeWeight((CHOOSE f \in lat.final : Number(f[1]) = n)[2], 0), <<>>)
                ELSE CompactZero],
   arcs |-> {[from |-> Number(a.from), ilabel |-> a.olabel, olabel |-> a.olabel, to |-> Number(a.to),
              weight |-> Compacted(LatticeWeight(a.graph, a.acoustic), IF a.ilabel = EPSILON THEN <<>> ELSE <<a.ilabel>>)] :
               a \in lat.arcs}]

R == INSTANCE RmEpsilon WITH
  zero <- CompactZero, one <- CompactOne, plus <- CompactPlus, times <- CompactTimes, Asked <- {},
  arcs <- links_left, final <- ends, todo <- to_expand, connected <- connecting, done <- expanded, left <- live

Det == INSTANCE Determinize WITH
  State <- Nat, Zero <- CompactZero, One <- CompactOne, Plus <- CompactPlus, Times <- CompactTimes,
  Divide <- CompactDivide, CommonDivisor <- CompactLatticeCommonDivisor, NoLimit <- -1,
  pending <- opened, state <- member, todo <- labels, arcs <- built

-----------------------------------------------------------------------------
NoFst == [start |-> -1, final |-> <<>>, arcs |-> {}]

IdleCollapse ==
  /\ stage = "waiting" /\ beam = Inf /\ narrowed = 0
  /\ before = NoFst /\ links_left = {} /\ ends = <<>> /\ to_expand = {}
  /\ connecting = TRUE /\ expanded = FALSE /\ live = {}
  /\ ifst = <<>> /\ to_final = <<>> /\ max_states = -1 /\ subsets = <<>> /\ opened = <<>> /\ member = 0
  /\ labels = {} /\ built = <<>> /\ final = <<>> /\ out_dist = <<>> /\ status = "idle"

\* A lattice that was decoded is asked to be collapsed.
Ask ==
  /\ stage = "waiting" /\ pc = "done" /\ answer.found = "lattice" /\ task.collapse # <<>>
  /\ stage' = "narrow" /\ beam' = task.collapse.beam /\ narrowed' = 0
  /\ UNCHANGED <<vars, removing, merging>>

\* The lattice whose arcs this attempt merges.
Narrowed == IF beam = Inf THEN answer.kept ELSE Pruned(answer.kept, beam)

\* A lattice with nothing left is not tried again.
Narrow ==
  LET fst == ToCompact(Narrowed) IN
  /\ stage = "narrow"
  /\ stage' = IF fst.start = -1 THEN "refused" ELSE "silence"
  /\ before' = fst /\ links_left' = fst.arcs /\ ends' = fst.final /\ to_expand' = DOMAIN fst.final
  /\ connecting' = TRUE /\ expanded' = FALSE /\ live' = {}
  /\ UNCHANGED <<vars, beam, narrowed, merging>>

\* The next state in the order of the epsilons.
Silence ==
  /\ stage = "silence" /\ ~expanded
  /\ IF to_expand = {} THEN R!Finish
     ELSE LET s == Min({x \in to_expand : R!Ready(x)}) IN R!Expand(s) \/ R!Skip(s)
  /\ UNCHANGED <<vars, collapse, merging>>

\* A state's arcs in the order of their labels and ends.
Listed(s) ==
  LET own == Seqs!SetToSeq({a \in links_left : a.from = s})
  IN [i \in DOMAIN own |-> [label |-> own[i].ilabel, next |-> own[i].to, weight |-> own[i].weight]]

\* What is left is determinized.
Merge ==
  /\ stage = "silence" /\ expanded
  /\ stage' = "words"
  /\ ifst' = [start |-> before.start, arcs |-> [s \in live |-> Listed(s)], final |-> [s \in live |-> ends[s]]]
  /\ to_final' = [s \in live |-> CompactZero] /\ max_states' = task.collapse.max_states
  /\ subsets' = <<[q \in {before.start} |-> CompactOne]>> /\ opened' = <<1>> /\ out_dist' = <<CompactZero>>
  /\ member' = 0 /\ labels' = {} /\ built' = <<>> /\ final' = <<>> /\ status' = "running"
  /\ UNCHANGED <<vars, beam, narrowed, removing>>

Words ==
  /\ stage = "words" /\ Det!Next
  /\ UNCHANGED <<vars, collapse, removing>>

\* An attempt that failed is made again with half the beam, so many times.
GiveUp ==
  /\ stage = "words" /\ status = "refused"
  /\ IF narrowed = task.collapse.max_retries
     THEN stage' = "refused" /\ UNCHANGED <<beam, narrowed>>
     ELSE stage' = "narrow" /\ narrowed' = narrowed + 1 /\ beam' = IF beam = Inf THEN Inf ELSE beam \div 2
  /\ UNCHANGED <<vars, removing, merging>>

Collapsed ==
  /\ stage = "words" /\ status = "done"
  /\ stage' = "collapsed"
  /\ UNCHANGED <<vars, beam, narrowed, removing, merging>>

Collapsing == Ask \/ Narrow \/ Silence \/ Merge \/ Words \/ GiveUp \/ Collapsed

CollapseInit == Init /\ IdleCollapse

CollapseNext ==
  \/ Next /\ UNCHANGED <<collapse, removing, merging>>
  \/ Collapsing

CollapseSpec == CollapseInit /\ [][CollapseNext]_<<vars, collapse, removing, merging>>

-----------------------------------------------------------------------------
(* Properties.                                                             *)

Result == Det!Result

ResultArcs ==
  UNION {{[from |-> s, ilabel |-> built[s][i].label, olabel |-> built[s][i].label, to |-> built[s][i].next,
           weight |-> built[s][i].weight] : i \in DOMAIN built[s]} : s \in DOMAIN built}

\* The sequences of words of the compact lattice, each with its weight.
Hypotheses == R!Accepted(ResultArcs, final, 1)

Words2(h) == [i \in DOMAIN h[1] |-> h[1][i][1]]

BestOfAll(hyps) == CHOOSE h \in hyps : \A x \in hyps : ~BetterCompact(x[2], h[2])

\* Each sequence of words is there once, at the weight and with the alignment of
\* the best of its paths in the lattice that was collapsed ("each word sequence
\* appears once, with its best alignment", compact.rs:163); when no beam was ever
\* applied they are the graph's sequences at the costs of its cheapest runs; and
\* however far the beam was narrowed the best of them is the best there was ("A
\* narrower beam preserves the best path", compact.rs:237).
WordsAppearOnce ==
  stage = "collapsed" =>
    LET hyps  == Hypotheses
        whole == ToCompact(answer.kept)
    IN /\ \A s \in DOMAIN built : \A i, j \in DOMAIN built[s] :
            built[s][i].label # EPSILON /\ (built[s][i].label = built[s][j].label => i = j)
       /\ hyps = R!Accepted(before.arcs, before.final, before.start)
       /\ BestOfAll(hyps) = BestOfAll(R!Accepted(whole.arcs, whole.final, whole.start))
       /\ \A h \in hyps : Len(h[2].alignment) = T
       /\ Exhaustive /\ task.lattice_beam = Inf /\ beam = Inf =>
            LET runs == RunsOf(task) IN
            {<<Words2(h), Total(h[2].weight)>> : h \in hyps} =
              {<<r.said, r.cost>> : r \in {x \in runs : \A y \in runs : y.said = x.said => x.cost <= y.cost}}
=============================================================================
