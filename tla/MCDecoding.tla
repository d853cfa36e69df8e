----------------------------- MODULE MCDecoding -----------------------------
(***************************************************************************)
(* Decoding and alignment: a behaviour solves a trellis, or decodes a      *)
(* graph and, when it is asked to, collapses the lattice it got.           *)
(***************************************************************************)
EXTENDS Trellis, TLC

CONSTANTS Tasks

VARIABLES
  kind, job, at, frame, current, ahead, todo, walk, waiting, stack, cutoff, budget, links, pending, lattice, answer,
  stage, beam, narrowed, before, links_left, ends, to_expand, connecting, expanded, live,
  ifst, to_final, max_states, subsets, opened, member, labels, built, final, out_dist, status

C == INSTANCE Decoder WITH task <- job, pc <- at, next <- ahead
\* The graphs among the tasks; C takes its own tasks from here.
Topo == INSTANCE Decoder WITH Tasks <- {}

decoding == <<job, at, frame, current, ahead, todo, walk, waiting, stack, cutoff, budget, links, pending, lattice, answer>>
collapsing ==
  <<stage, beam, narrowed, before, links_left, ends, to_expand, connecting, expanded, live,
    ifst, to_final, max_states, subsets, opened, member, labels, built, final, out_dist, status>>

-----------------------------------------------------------------------------
(* The trellises.                                                          *)

Mass2(cost) == IF cost = Inf THEN 0 ELSE 2 ^ (3 - cost)

\* A frame's scores: silence or one of two phones best, or all the same.
Row1(best, others) == [c \in 0 .. 2 |-> IF c = best THEN 0 ELSE others]
Rows == {Row1(0, 1), Row1(1, 1), Row1(2, 1), Row1(0, 0)}

OneUnit == NewChain(<<1>>)
TwoUnits == NewChain(<<1, 2>>)
Four == NewChain(<<1, 1, 2, 2>>)

Matrices(frames) == {[f \in 0 .. frames - 1 |-> m[f + 1]] : m \in [1 .. frames -> Rows]}
Against3(chain, frames) == {Against(chain, m, frames, 3) : m \in Matrices(frames)}

\* The trellis of trellis.rs:976: words of two phones, each given up at once.
WordsInto(scores, f, i) ==
  [c \in 0 .. 2 |-> CASE c = 0 -> Step(0, scores[f][0])
                      [] c = 1 /\ i > 0 -> Step(1, scores[f][IF i % 2 = 1 THEN 1 ELSE 2])
                      [] c = 2 /\ i > 0 /\ i % 2 = 0 -> Step(2, 1 + scores[f][0])
                      [] OTHER -> ABSENT]
Words(scores, frames) ==
  LET into == [f \in 0 .. frames - 1 |-> [i \in 0 .. 4 |-> WordsInto(scores, f, i)]]
      bare == [frames |-> frames, positions |-> 4, reach |-> 2, degree |-> 3, into |-> into]
  IN [frames |-> frames, positions |-> 4, reach |-> 2, degree |-> 3, into |-> into,
      out |-> [f \in 0 .. frames - 1 |-> [i \in 0 .. 4 |-> DeriveStepsOutOf(bare, f, i)]]]

MCTrellises ==
  UNION {Against3(c, f) : c \in {OneUnit, WithSkipCosts(OneUnit, <<1>>), TwoUnits, WithSkipCosts(TwoUnits, <<0, 1>>)}, f \in 0 .. 3}
  \cup Against3(Four, 3) \cup Against3(WithSkipCosts(Four, <<1, 0, 2, Inf>>), 3)
  \cup {Against(c, [f \in 0 .. 5 |-> IF f % 3 = 2 THEN Row1(0, 1) ELSE Row1(1 + (f % 2), 1)], 6, 3) : c \in {Four, WithSkipCosts(Four, <<1, 1, 1, 1>>)}}
  \cup Against3(NewChain(<<>>), 2)
  \cup {Words(m, 3) : m \in Matrices(3)}

-----------------------------------------------------------------------------
(* The graphs and the matrices.                                            *)

GArc(from, ilabel, olabel, cost, to) == [from |-> from, ilabel |-> ilabel, olabel |-> olabel, cost |-> cost, to |-> to]
Graph(arcs, costs) ==
  [states |-> 0 .. 2, start |-> 0, arcs |-> arcs,
   final |-> [s \in 0 .. 2 |-> IF s \in DOMAIN costs THEN costs[s] ELSE Inf]]

\* Two words, each held as long as its symbol lasts.
Held == Graph({GArc(0, 1, 10, 0, 1), GArc(1, 1, 0, 0, 1), GArc(0, 2, 20, 1, 2), GArc(2, 2, 0, 0, 2),
               GArc(1, 2, 20, 0, 2), GArc(2, 1, 10, 0, 1)}, (1 :> 0) @@ (2 :> 1))
\* Words said late, and on epsilons.
Late == Graph({GArc(0, 1, 0, 0, 1), GArc(1, 0, 10, 1, 2), GArc(0, 2, 20, 1, 2), GArc(2, 1, 0, 0, 2),
               GArc(2, 0, 0, 1, 0), GArc(1, 1, 0, 1, 0)}, (0 :> 2) @@ (2 :> 0))
\* A cycle of epsilons for nothing, one that costs less, and a label that names no column.
Around  == Graph({GArc(0, 1, 10, 1, 1), GArc(1, 0, 0, 0, 2), GArc(2, 0, 20, 0, 1), GArc(1, 1, 0, 0, 1)}, 2 :> 0)
Spiral  == Graph({GArc(0, 1, 10, 1, 1), GArc(1, 0, 0, -1, 2), GArc(2, 0, 0, 0, 1)}, 2 :> 0)
Strange == Graph({GArc(0, 1, 10, 1, 1), GArc(1, 7, 0, 0, 1)}, 1 :> 0)
Chained(chain) ==
  [states |-> 0 .. Len(chain.phones), start |-> 0, arcs |-> ToFst(chain),
   final |-> [s \in 0 .. Len(chain.phones) |-> IF s = Len(chain.phones) THEN 0 ELSE Inf]]

\* In a row of diamonds each state is bettered after all beyond it has been settled.
Diamonds(n) ==
  [states |-> 0 .. 2 * n, start |-> 0, final |-> [s \in 0 .. 2 * n |-> 0],
   arcs |-> UNION {{GArc(2 * i, 0, 0, 0, 2 * i + 1), GArc(2 * i, 0, 0, 2 ^ (n - i), 2 * i + 2),
                    GArc(2 * i + 1, 0, 0, 0, 2 * i + 2)} : i \in 0 .. n - 1}]

Frame(a, b) == (0 :> a) @@ (1 :> b)
Frame3(a, b, c) == Frame(a, b) @@ (2 :> c)

Searched(b, most, least, lattice_beam) ==
  [beam |-> b, max_active |-> most, min_active |-> least, lattice_beam |-> lattice_beam]
Everything == Searched(Inf, 9, 1, Inf)

Mk(g, frames, by, opts) ==
  [collapse |-> <<>>, ctc |-> FALSE, frames |-> frames, offset |-> 1, by |-> by] @@ opts @@ g

Cap(b, retries, states) == [beam |-> b, max_retries |-> retries, max_states |-> states]
Caps == {Cap(Inf, 0, -1), Cap(4, 2, 4), Cap(2, 1, 1), Cap(1, 0, 3)}
Matrices2 == {<<Frame(0, 1), Frame(1, 0)>>, <<Frame(0, 2), Frame(0, 1)>>, <<>>, <<Frame(0, 0), Frame(1, 2), Frame(0, 0)>>}

DecoderTasks ==
  {Mk(g, f, by, o) : g \in {Held, Late, Around}, f \in Matrices2, by \in {"viterbi", "lattice"},
                     o \in {Everything, Searched(1, 9, 1, 1), Searched(3, 1, 1, 2), Searched(2, 2, 2, 1)}}
  \cup {Mk(g, <<Frame(0, 1), Frame(1, 0)>>, by, Everything) : g \in {Spiral, Strange}, by \in {"viterbi", "lattice"}}
  \cup {Mk(Chained(WithSkipCosts(TwoUnits, <<1, 0>>)), <<Frame3(0, 1, 1), Frame3(1, 0, 1)>>, by, Everything) : by \in {"viterbi", "lattice"}}
  \cup {[Mk(g, f, "lattice", Everything) EXCEPT !.collapse = c] : g \in {Held, Late}, f \in Matrices2, c \in Caps}
  \cup {[Mk(Held, f, "lattice", Searched(2, 2, 2, 1)) EXCEPT !.collapse = c] : f \in Matrices2, c \in Caps}
  \cup {[Mk(Topo!CtcTopo(3, 1), f, "viterbi", Everything) EXCEPT !.ctc = TRUE] :
           f \in {<<Frame3(1, 0, 1), a, b, Frame3(1, 0, 0)>> : a, b \in {Frame3(0, 1, 0), Frame3(1, 0, 1)}}}

TooManyDiamonds == {Mk(Diamonds(9), <<>>, "viterbi", Searched(Inf, 9, 1, Inf))}

-----------------------------------------------------------------------------
IdleTrellis ==
  /\ trellis = <<>> /\ task = "none" /\ pc = "idle" /\ t = 0 /\ cell = 0 /\ cur = <<>> /\ next = <<>>
  /\ plane = <<>> /\ writer = <<>> /\ path = <<>> /\ alpha = <<>> /\ visited = {}

IdleDecoder ==
  /\ job = [start |-> 0, frames |-> <<>>] /\ at = "idle" /\ frame = -1 /\ current = <<>> /\ ahead = <<>> /\ todo = {} /\ walk = <<>>
  /\ waiting = {} /\ stack = <<>> /\ cutoff = Inf /\ budget = 0 /\ links = <<>> /\ pending = {} /\ lattice = <<>>
  /\ answer = <<>>

MCInit ==
  \/ kind = "trellis" /\ Init /\ IdleDecoder /\ C!IdleCollapse
  \/ kind = "decoder" /\ IdleTrellis /\ C!CollapseInit

MCNext ==
  \/ kind = "trellis" /\ Next /\ UNCHANGED <<kind, decoding, collapsing>>
  \/ kind = "decoder" /\ C!Next /\ UNCHANGED <<kind, vars, collapsing>>
  \/ kind = "decoder" /\ C!Collapsing /\ UNCHANGED <<kind, vars>>

all == <<kind, vars, decoding, collapsing>>

Kinds == {"trellis", "decoder"}
IdleDecoding == IdleTrellis /\ IdleDecoder /\ C!IdleCollapse
Searches == kind = "decoder" /\ C!Searching /\ UNCHANGED <<kind, vars, collapsing>>

MCSpec == MCInit /\ [][MCNext]_all /\ WF_all(Searches)

-----------------------------------------------------------------------------
(* Properties.                                                             *)

\* A trellis is solved exactly, for the best path and for the mass of every
\* transition; and what is read back of an alignment agrees with the path it came
\* from, and expected durations with the paths there are: see Trellis.
TrellisesAreSolved ==
  BestPathIsExact /\ PosteriorsAreExact /\ AlignmentsReadBack /\ OccupancyIsExact

\* What a decoder answers is a run of the graph, what a graph for CTC answers is
\* what the columns collapse to, and a lattice is what survived the beams, no more
\* and no less: see Decoder.
AnswersAreRight ==
  kind = "decoder" => C!AnswersAreRuns /\ C!CtcReadsTheColumns /\ C!LatticeIsWhatSurvived /\ C!LatticeBeamIsSharp

\* See Decoder.
WordsAppearOnce == kind = "decoder" => C!WordsAppearOnce
\* See Decoder.
RefusalsAreDeserved == kind = "decoder" => C!RefusalsAreDeserved
\* See Decoder.
KeepsToTheBeam == (kind = "decoder" => C!Search!Init) /\ [][C!Search!Next]_<<job, frame, C!Alive>>
\* See Decoder.
SearchEnds == kind = "decoder" => C!SearchEnds
=============================================================================
