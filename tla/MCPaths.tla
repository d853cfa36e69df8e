------------------------------- MODULE MCPaths -------------------------------
(***************************************************************************)
(* Shortest distances, and what is built on them: the lightest path, the   *)
(* lightest few, and the lightest few that spell different strings, which  *)
(* takes determinizing the reverse; and the best path through a trellis or *)
(* a graph that is decoded.  Each behaviour asks for one.                  *)
(***************************************************************************)
EXTENDS ShortestDistance, Sequences, FiniteSetsExt

Seqs == INSTANCE SequencesExt

CONSTANTS
  Inf,      \* no path: above the weight of every path of the automata below
  Infinite, Trellises, Tasks, Mass(_)  \* what is solved and decoded, and what it costs: see MCDecoding

VARIABLES
  kind,  \* the semiring, or what is asked of it
  parent, here, position, best_final, best_distance, final_seen, path, state, phase,
  ifst, to_final, max_states, subsets, pending, member, todo, arcs, final, out_dist, status,
  rfst, guide, asked, pairs, heap, taken, answers, nphase,
  trellis, task, pc, now, cell, cur, next, plane, writer, best_path, alpha, visited,
  job, at, frame, tokens, ahead, leaving, walk, waiting, stack, cutoff, budget, links, collected, lattice, answer,
  stage, beam, narrowed, before, links_left, silences, to_expand, connecting, expanded, live,
  words, words_to_final, words_limit, words_subsets, opened, words_member, labels, built, words_final, words_dist, words_status

one     == <<parent, here, position, best_final, best_distance, final_seen, path, state, phase>>
subset  == <<ifst, to_final, max_states, subsets, pending, member, todo, arcs, final, out_dist, status>>
several == <<rfst, guide, asked, pairs, heap, taken, answers, nphase>>
solving == <<trellis, task, pc, now, cell, cur, next, plane, writer, best_path, alpha, visited>>
decoding == <<job, at, frame, tokens, ahead, leaving, walk, waiting, stack, cutoff, budget, links, collected, lattice, answer>>
collapsing ==
  <<stage, beam, narrowed, before, links_left, silences, to_expand, connecting, expanded, live,
    words, words_to_final, words_limit, words_subsets, opened, words_member, labels, built, words_final, words_dist, words_status>>
asking == <<vars, one, subset, several>>
searching == <<solving, decoding, collapsing>>

-----------------------------------------------------------------------------
(* Distances over the semiring with the path property (the lightest path,  *)
(* tropical) and over one that counts every path, where a residual passed  *)
(* on twice shows.                                                         *)

MCState  == 0..3
MCWeight == 0..Inf
least(a, b) == IF a <= b THEN a ELSE b
along(a, b) == least(Inf, a + b)

sum(a, b)     == a + b
product(a, b) == a * b

\* One arc from a state to another, for each weight, or none.
Maybe(s, t, ws) == {{}} \cup {{<<s, t, w>>} : w \in ws}

Leaving(E) == [s \in MCState |-> {[next |-> e[2], weight |-> e[3]] : e \in {d \in E : d[1] = s}}]

\* Two ways from 0 to 3, with ways across and back.
Shapes ==
  {Leaving({<<0, 2, 1>>} \cup a \cup b \cup c \cup d \cup e \cup f \cup g \cup h) :
     a \in {{<<0, 1, 1>>}, {<<0, 1, 3>>}}, b \in Maybe(1, 3, {0, 1}), c \in Maybe(2, 1, {0, 1}),
     d \in Maybe(2, 3, {1, 3}), e \in Maybe(3, 1, {0}), f \in Maybe(1, 0, {0}),
     g \in Maybe(3, 2, {1}), h \in Maybe(2, 2, {0})}

Acyclic == {out \in Shapes : out[3] = {} /\ ~(\E a \in out[1] : a.next = 0) /\ ~(\E a \in out[2] : a.next = 2)}
Upward  == {out \in Acyclic : \A s \in MCState : \A a \in out[s] : a.next > s}

\* Automata whose states reach different parts of one another, asked from each in turn.
Several ==
  {Leaving({<<0, 1, 1>>, <<0, 2, 0>>, <<1, 2, 1>>, <<2, 1, 0>>, <<3, 1, 2>>}),
   Leaving({<<0, 1, 1>>, <<1, 3, 0>>, <<2, 3, 1>>, <<3, 2, 0>>})}

Ask(shapes, from, retain, first_path, discipline) ==
  [arcs : shapes, final : {{3}}, from : from, retain : {retain}, first_path : {first_path}, discipline : {discipline}]

TropicalSetups ==
  UNION {Ask(Shapes, {{0}}, FALSE, FALSE, d) : d \in {"any", "shortest first"}}
    \cup Ask(Upward, {{0}}, FALSE, FALSE, "state order")
    \cup Ask(Shapes, {{0}}, FALSE, TRUE, "shortest first")
    \cup Ask(Several, {{0, 1, 3}}, TRUE, FALSE, "shortest first")
    \cup Ask(Several, {{0, 2, 3}}, TRUE, TRUE, "shortest first")
    \cup Ask(Several, {{1, 3}}, TRUE, FALSE, "any")

CountingSetups == Ask(Acyclic, {{0}}, FALSE, FALSE, "any") \cup Ask(Upward, {{0, 1}}, TRUE, FALSE, "state order")

Counting ==
  INSTANCE ShortestDistance WITH
    Zero <- 0, One <- 1, Plus <- sum, Times <- product, Weight <- Nat, Setups <- CountingSetups

MCInit ==
  \/ kind = "tropical" /\ Init
  \/ kind = "counting" /\ Counting!Init

MCNext ==
  /\ UNCHANGED kind
  /\ \/ kind = "tropical" /\ Next
     \/ kind = "counting" /\ Counting!Next

-----------------------------------------------------------------------------
\* The sum over every path from the source to each state, by the length of the longest path taken.
PathSums(plus(_, _), times(_, _), zero, unit) ==
  LET into(s) == {<<t, a>> \in State \X UNION {setup.arcs[t] : t \in State} : a \in setup.arcs[t] /\ a.next = s}
      upto[n \in 0..4] ==
        [s \in State |->
           LET start == IF s = source THEN unit ELSE zero IN
           IF n = 0 THEN start
           ELSE MapThenFoldSet(plus, start, LAMBDA e : times(upto[n - 1][e[1]], e[2].weight),
                               LAMBDA S : CHOOSE e \in S : TRUE, into(s))]
  IN upto[4]

Tropical == kind = "tropical"

\* Fills distance[s] with the sum over every path from the source to s, whatever
\* earlier runs left in the buffers; entries of no path are Zero or not claimed,
\* and no arc can improve a distance.
SumsAreExact ==
  Converged =>
    IF Tropical THEN DistancesAreClosed /\ \E sums \in {PathSums(least, along, Inf, 0)} : \A s \in State : Distance(s) = sums[s]
                ELSE \E sums \in {PathSums(sum, product, 0, 1)} : \A s \in State : Counting!Distance(s) = sums[s]

\* No state is expanded twice where the discipline promises it, and the first
\* final state a shortest-first queue answers has its distance already.
ShortestFirstSettles ==
  Tropical =>
    /\ NothingExpandedTwice
    /\ running /\ setup.first_path =>
         \A s \in setup.final : left = {} /\ Front(s) =>
           \E sums \in {PathSums(least, along, Inf, 0)} : distance[s] = sums[s]

\* When a run converges its distances are those of the automaton; until then the
\* buffers keep their shape, and the disciplines that promise it settle a state once.
DistancesAreExact ==
  /\ Tropical => TypeOK /\ ShortestFirstSettles
  /\ kind = "counting" => Counting!TypeOK
  /\ SumsAreExact

-----------------------------------------------------------------------------
\* Bound: every path that is among the lightest three has at most this many arcs.
MaxArcs == 6

-----------------------------------------------------------------------------
(* The automata.                                                           *)

Labelled(to, weight) == [label |-> IF to = 3 THEN 2 ELSE 1, next |-> to, weight |-> weight]

\* A state's arcs in an order of their own.
Listed(shape) ==
  [start |-> 0, final |-> [s \in MCState |-> CASE s = 3 -> 0 [] s = 1 -> 2 [] OTHER -> Inf],
   arcs |-> [s \in MCState |->
     LET seq == Seqs!SetToSortSeq(shape[s], LAMBDA a, b : a.next < b.next \/ (a.next = b.next /\ a.weight < b.weight))
     IN [i \in DOMAIN seq |-> Labelled(seq[i].next, seq[i].weight)]]]

Startless(fst) == [fst EXCEPT !.start = -1]

PathSetups ==
  [fst : {Listed(s) : s \in Shapes}, first_path : {FALSE}, discipline : {"any"}]
    \cup [fst : {Listed(s) : s \in Shapes}, first_path : BOOLEAN, discipline : {"shortest first"}]
    \cup [fst : {Listed(s) : s \in Upward} \cup {Startless(Listed(s)) : s \in Upward},
          first_path : {FALSE}, discipline : {"state order"}]

Path == INSTANCE ShortestPath WITH
  State <- MCState, Zero <- Inf, One <- 0, Plus <- least, Times <- along, Setups <- PathSetups, None <- -1

\* What is taken away first is never more than there is.
Rest(a, b) == IF a = Inf THEN Inf ELSE a - b

Det == INSTANCE Determinize WITH
  State <- 0 .. 4, Zero <- Inf, One <- 0, Plus <- least, Times <- along, Divide <- Rest, CommonDivisor <- least, NoLimit <- -1, state <- member

\* Where a walk along the ways given can come to, as <<state, weight>>.
Walks(first, ways) ==
  Seqs!FoldLeft(LAMBDA R, n : R \cup UNION {{<<w[2], along(x[2], w[3])>> : w \in {v \in ways : v[1] = x[1]}} : x \in R},
                first, [n \in 1 .. MaxArcs |-> n])

Nearest(states, walks) == [s \in states |-> Min({x[2] : x \in {y \in walks : y[1] = s}} \cup {Inf})]

Ways(fst) == UNION {{<<s, fst.arcs[s][i].next, fst.arcs[s][i].weight>> : i \in DOMAIN fst.arcs[s]} : s \in DOMAIN fst.arcs}

\* How far each state is from the start, and the final states from it.
FromStart(fst) == Nearest(DOMAIN fst.final, Walks({<<fst.start, 0>>}, Ways(fst)))
ToFinal(fst) ==
  Nearest(DOMAIN fst.final, Walks({<<s, fst.final[s]>> : s \in DOMAIN fst.final}, {<<w[2], w[1], w[3]>> : w \in Ways(fst)}))

\* The reverse: a new start, 0, leads to the states that were final, and every
\* state goes up by one.
Reversed(fst) ==
  LET back(s) == Seqs!FlattenSeq([i \in 1 .. 4 |->
        LET own == SelectSeq(fst.arcs[i - 1], LAMBDA a : a.next = s)
        IN  [j \in DOMAIN own |-> [own[j] EXCEPT !.next = i]]])
      ends == SelectSeq(<<0, 1, 2, 3>>, LAMBDA s : fst.final[s] # Inf)
  IN [start |-> 0,
      final |-> [s \in 0 .. 4 |-> IF s > 0 /\ s - 1 = fst.start THEN 0 ELSE Inf],
      arcs  |-> [s \in 0 .. 4 |->
        IF s > 0 THEN back(s - 1)
        ELSE [i \in DOMAIN ends |-> [label |-> 0, next |-> ends[i] + 1, weight |-> fst.final[ends[i]]]]]]

Asking(n, weight, states) == [nshortest |-> n, weight_threshold |-> weight, state_threshold |-> states]

\* One path with neither threshold is read back from a search of the automaton;
\* anything else is a search of its reverse for several.
ReadBack(what) == what.nshortest = 1 /\ what.weight_threshold = Inf /\ what.state_threshold = -1

Asked == {what \in {Asking(1, Inf, -1), Asking(1, 1, -1), Asking(2, Inf, -1), Asking(3, 1, -1), Asking(3, Inf, 9)} : ~ReadBack(what)}
Refused == {Asking(0, Inf, -1), Asking(2, Inf, 0)}

\* Automata without a cycle; and with loops of and without weight, one of
\* which can be gone round for nothing for ever.
Some ==
  {shape \in Acyclic : shape[1] # {} /\ shape[2] # {}} \cup
  {Leaving({<<0, 1, 1>>, <<0, 2, 1>>, <<1, 3, 0>>, <<2, 3, 1>>} \cup e) :
     e \in {{<<2, 2, 0>>}, {<<2, 2, 1>>}, {<<3, 3, 0>>}, {<<2, 1, 0>>, <<1, 0, 0>>}, {<<3, 1, 1>>}, {<<3, 2, 0>>, <<2, 2, 1>>}}}

-----------------------------------------------------------------------------
(* Trellises and graphs that are decoded.                                   *)

Decoding == INSTANCE MCDecoding WITH
  Inf <- Infinite, t <- now, path <- best_path, current <- tokens, todo <- leaving, pending <- collected, ends <- silences,
  ifst <- words, to_final <- words_to_final, max_states <- words_limit, subsets <- words_subsets,
  member <- words_member, final <- words_final, out_dist <- words_dist, status <- words_status

\* What is to be solved and decoded, made before anything is.
NoMass(cost) == 0
Given == INSTANCE MCDecoding WITH
  Inf <- Infinite, Trellises <- {}, Tasks <- {}, Mass <- NoMass, t <- now, ends <- silences

MCTrellises == Given!MCTrellises
MCTasks == Given!DecoderTasks
MCMass(cost) == Given!Mass2(cost)

ASSUME TrellisesSetup == Decoding!TrellisesObeyTheContract

IdleDistance ==
  /\ adder = <<>> /\ residual = <<>> /\ enqueued = {} /\ sources = <<>> /\ run = 0 /\ running = FALSE
  /\ source = 0 /\ r = 0 /\ left = {} /\ given = <<>> /\ earlier = 0
IdleSearch == setup = <<>> /\ distance = <<>> /\ queue = {} /\ current = 0
IdlePath ==
  /\ parent = <<>> /\ here = 0 /\ position = 0 /\ best_final = -1 /\ best_distance = 0
  /\ final_seen = FALSE /\ path = <<>> /\ state = -1 /\ phase = "done"
IdleDet ==
  /\ ifst = <<>> /\ to_final = <<>> /\ max_states = -1 /\ subsets = <<>> /\ pending = <<>> /\ member = 0 /\ todo = {}
  /\ arcs = <<>> /\ final = <<>> /\ out_dist = <<>> /\ status = "idle"
IdleN ==
  /\ rfst = <<>> /\ guide = <<>> /\ asked = Asking(0, Inf, -1) /\ pairs = <<>> /\ heap = {}
  /\ taken = <<>> /\ answers = <<>> /\ nphase = "idle"

CallsInit ==
  \/ MCInit /\ IdlePath /\ IdleDet /\ IdleN
  \/ kind = "path" /\ Path!Init /\ IdleDistance /\ IdleDet /\ IdleN
  \/ /\ kind = "paths" /\ IdleDistance /\ IdleSearch /\ IdlePath /\ IdleDet
     /\ \E s \in Some : \E what \in Asked : Path!New(Reversed(Listed(s)), ToFinal(Reversed(Listed(s))), what)
  \/ /\ kind = "paths" /\ IdleDistance /\ IdleSearch /\ IdlePath /\ IdleDet
     /\ \E s \in Upward : \E what \in Refused \cup {Asking(2, Inf, -1)} : \E start \in {0, -1} :
          LET fst == [Listed(s) EXCEPT !.start = start] IN Path!New(Reversed(fst), ToFinal(Reversed(fst)), what)
  \/ /\ kind = "unique" /\ IdleDistance /\ IdleSearch /\ IdlePath /\ IdleN
     /\ \E s \in Some : Det!New(Reversed(Listed(s)), ToFinal(Reversed(Listed(s))), 6)

\* What is determinized is searched.
Hand(what) ==
  /\ status = "done" /\ nphase = "idle"
  /\ rfst' = Det!Result /\ guide' = out_dist /\ asked' = what
  /\ pairs' = Path!Ends(Det!Result) /\ heap' = {2} /\ taken' = <<>> /\ answers' = <<>>
  /\ nphase' = IF Path!Hopeless(Det!Result, out_dist, what) THEN "done" ELSE "search"

CallsNext ==
  \/ MCNext /\ UNCHANGED <<one, subset, several>>
  \/ /\ kind = "path" /\ Path!Next
     /\ UNCHANGED <<kind, adder, residual, enqueued, sources, run, running, source, r, left, given, earlier>>
     /\ UNCHANGED <<subset, several>>
  \/ /\ kind = "paths" /\ Path!NextSeveral /\ UNCHANGED <<kind, vars, one, subset>>
  \/ /\ kind = "unique" /\ Det!Next /\ UNCHANGED <<kind, vars, one, several>>
  \/ /\ kind = "unique" /\ (Path!NextSeveral \/ \E what \in {Asking(2, Inf, -1), Asking(3, 2, -1)} : Hand(what))
     /\ UNCHANGED <<kind, vars, one, subset>>

IdleCalls == IdleDistance /\ IdleSearch /\ IdlePath /\ IdleDet /\ IdleN

PathsInit ==
  \/ CallsInit /\ Decoding!IdleDecoding
  \/ Decoding!MCInit /\ IdleCalls

PathsNext ==
  \/ kind \notin Decoding!Kinds /\ CallsNext /\ UNCHANGED searching
  \/ kind \in Decoding!Kinds /\ Decoding!MCNext /\ UNCHANGED asking

\* A call begun goes on, and so does a decoder's search; the calls after a search
\* ended need not be made.
Goes ==
  \/ kind \notin Decoding!Kinds /\ (kind \in {"tropical", "counting"} => running) /\ CallsNext /\ UNCHANGED searching
  \/ Decoding!Searches /\ UNCHANGED asking

PathsSpec ==
  /\ PathsInit /\ [][PathsNext]_<<kind, asking, searching>>
  /\ WF_<<kind, asking, searching>>(Goes)

-----------------------------------------------------------------------------
(* What the lightest paths are.                                            *)

\* The weights of the accepting paths of up to n arcs from a state, as often
\* as there are paths, and with them what they spell.
RECURSIVE Paths(_, _, _)
Paths(fst, s, n) ==
  (IF fst.final[s] = Inf THEN {} ELSE {[at |-> <<>>, spells |-> <<>>, weight |-> fst.final[s]]})
    \cup IF n = 0 THEN {}
         ELSE UNION {LET a == fst.arcs[s][i] IN
                {[at |-> <<<<s, i>>>> \o p.at, weight |-> along(a.weight, p.weight),
                  spells |-> IF a.label = 0 THEN p.spells ELSE <<a.label>> \o p.spells] : p \in Paths(fst, a.next, n - 1)} :
                i \in DOMAIN fst.arcs[s]}

\* The lightest way to spell each string that can be spelled.
Strings(S) == {p \in S : \A q \in S : q.spells = p.spells => p.weight <= q.weight}
OnePerString(S) == {CHOOSE p \in Strings(S) : p.spells = x : x \in {p.spells : p \in S}}

\* What can be spelled, with what it weighs.
Spelled(fst, s) == {<<p.spells, p.weight>> : p \in Strings(Paths(fst, s, MaxArcs))}

\* The weights of the paths asked for, the lightest first.
Lightest(S, what) ==
  LET upto(w) == {p \in S : p.weight <= w}
      best    == Min({p.weight : p \in S})
      fit     == upto(along(best, what.weight_threshold))
  IN [i \in 1 .. least(Cardinality(fit), what.nshortest) |->
        CHOOSE w \in {p.weight : p \in fit} : Cardinality(upto(w - 1)) < i /\ i <= Cardinality(upto(w))]

\* The way an answer is made, from the start: the arcs of the reverse, last first.
RECURSIVE Trace(_)
Trace(x) == IF pairs[x].back = 0 THEN <<>> ELSE <<pairs[x].by>> \o Trace(pairs[x].back)

Arc(by) == Path!Onward(by[1])[by[2]]
Cost(trace) == Seqs!FoldLeft(LAMBDA w, by : along(w, Arc(by).weight), 0, trace)
Spells(trace) == SelectSeq([i \in DOMAIN trace |-> Arc(trace[i]).label], LAMBDA l : l # 0)

\* The path read back is one of the automaton's, from its start to a final
\* state, and no accepting path is lighter; there is none only if nothing is
\* accepted.
LightestIsFound ==
  LET fst   == setup.fst
      d     == FromStart(fst)
      best  == Seqs!FoldLeft(LAMBDA w, s : least(w, along(d[s], fst.final[s])), Inf, <<0, 1, 2, 3>>)
      arc(i) == fst.arcs[path[i].from][path[i].position]
      cost  == Seqs!FoldLeft(LAMBDA w, by : along(w, fst.arcs[by.from][by.position].weight), 0, path)
  IN IF best = Inf THEN best_final = -1 /\ path = <<>>
     ELSE /\ best_final \in MCState
          /\ \A i \in DOMAIN path : path[i].from = (IF i = 1 THEN fst.start ELSE arc(i - 1).next)
          /\ best_final = (IF path = <<>> THEN fst.start ELSE arc(Len(path)).next)
          /\ along(cost, fst.final[best_final]) = best

\* The answers are different paths, spell different strings if that is asked,
\* come lightest first, and weigh what the lightest that there are weigh; a
\* search stopped for its size has the first of them.
LightestFewAreFound ==
  LET accepted == IF kind = "paths" THEN IF rfst.start = -1 THEN {} ELSE Paths(rfst, 0, MaxArcs + 1)
                  ELSE OnePerString(Paths(ifst, 0, MaxArcs + 1))
      traces   == [i \in DOMAIN answers |-> Trace(answers[i])]
      costs    == [i \in DOMAIN answers |-> Cost(traces[i])]
      wanted   == IF accepted = {} THEN <<>> ELSE Lightest(accepted, asked)
  IN /\ \A i, j \in DOMAIN traces : i # j => traces[i] # traces[j]
     /\ kind = "unique" => \A i, j \in DOMAIN traces : i # j => Spells(traces[i]) # Spells(traces[j])
     /\ IF asked.state_threshold >= 0 THEN Seqs!IsPrefix(costs, wanted) ELSE costs = wanted

\* Whatever is asked for, the paths answered are the lightest: see above; and
\* while one path is searched each state remembers an arc that explains its distance.
BestPathsAreFound ==
  /\ kind = "path" => Path!TypeOK /\ Path!ParentsExplain /\ (phase = "done" => LightestIsFound)
  /\ kind \in {"paths", "unique"} /\ nphase = "done" => LightestFewAreFound

-----------------------------------------------------------------------------
\* An automaton determinized has at each state one arc for a label, gives every
\* string the weight it had, and knows how far its states are from the final
\* ones; it is refused only for its size.
DeterminizedIsRight ==
  kind = "unique" =>
    /\ status = "done" /\ nphase = "idle" =>
         /\ \A s \in DOMAIN arcs : \A i, j \in DOMAIN arcs[s] : arcs[s][i].label = arcs[s][j].label => i = j
         /\ Spelled(Det!Result, 1) = Spelled(ifst, 0)
         /\ out_dist = ToFinal(Det!Result)
    /\ status = "refused" => Len(subsets) > max_states

\* Every call returns: relaxing ends, reading back does not go round, and the
\* search for several paths is over although loops without weight make ever more.
Returned ==
  CASE kind \in {"tropical", "counting"} -> ~running
    [] kind = "path" -> phase = "done"
    [] kind = "paths" -> nphase = "done"
    [] kind = "unique" -> nphase = "done" \/ status = "refused"
    [] OTHER -> TRUE
CallsReturn == []<>Returned

-----------------------------------------------------------------------------
(* Of trellises and graphs that are decoded: see MCDecoding.               *)

\* A trellis is solved exactly, for the best path and for the mass of every
\* transition; and what is read back of an alignment agrees with the path it came
\* from, and expected durations with the paths there are: see Trellis.
TrellisesAreSolved == kind = "trellis" => Decoding!TrellisesAreSolved

\* What a decoder answers is a run of the graph, what a graph for CTC answers is
\* what the columns collapse to, and a lattice is what survived the beams, no more
\* and no less: see Decoder.
AnswersAreRight == Decoding!AnswersAreRight

\* However a lattice is collapsed, and however often that was tried, a sequence of
\* words is on one path of the result: see Decoder.
WordsAppearOnce == Decoding!WordsAppearOnce

\* A search drops what BeamSearch drops and keeps what it keeps, in whatever order
\* its maps are walked and its queues popped.
KeepsToTheBeam == Decoding!KeepsToTheBeam

\* A cycle of epsilons, whatever it costs, does not keep a decoder searching.
SearchEnds == Decoding!SearchEnds
=============================================================================
