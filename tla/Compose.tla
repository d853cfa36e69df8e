------------------------------- MODULE Compose -------------------------------
(***************************************************************************)
(* Composition: a state of the result is a state of each automaton and one *)
(* of the filter; states are built as they are reached, the last reached   *)
(* first, and at each one side's arcs are walked and matched on the other. *)
(* Filters may be stacked on the one that orders epsilons: the first looks *)
(* ahead, the others move the weight ahead, or the one label, to the front *)
(***************************************************************************)
EXTENDS Integers, Sequences, FiniteSetsExt, SequencesExt
LOCAL INSTANCE Functions

-----------------------------------------------------------------------------
(***************************************************************************)
(* Look-ahead: whether a pair of states that composition is about to enter *)
(* leads anywhere, what it weighs, and which arc has to come next.  The    *)
(* index of what a state reaches, the matchers that answer from it, and    *)
(* the sums of arcs they are offered.                                      *)
(*                                                                         *)
(* The final states are numbered as a depth-first search meets them, so    *)
(* that what a state reaches is a set of few intervals of numbers; an      *)
(* automaton with cycles is condensed first; and for labels every arc that *)
(* carries one is sent to a state that stands for it.                      *)
(*                                                                         *)
(* An automaton is [start, final, arcs]: states from 0, one of them the    *)
(* start, final a function from the final states to their weights.  The    *)
(* side asked is the one with the matcher: "output" is the first automaton *)
(* by the labels it writes, "input" the second by those it reads.  Weights *)
(* are tropical: One is 0, and Zero more than any path.                    *)
(***************************************************************************)
Smaller(a, b) == IF a <= b THEN a ELSE b
Greater(a, b) == IF a <= b THEN b ELSE a

-----------------------------------------------------------------------------
(* Sets of half-open intervals of integers.  But for normalize, every      *)
(* operation takes its arguments sorted and merged.                        *)

Interval(begin, end) == <<begin, end>>

Before(x, y) == x[1] < y[1] \/ (x[1] = y[1] /\ x[2] > y[2])

Points(intervals) == FoldLeft(LAMBDA n, x : n + x[2] - x[1], 0, intervals)

IntervalSet(intervals) == [intervals |-> intervals, count |-> Points(intervals)]

Empty == IntervalSet(<<>>)

\* The result is not normalized, and its count is the first one's still.
union(a, b) == [a EXCEPT !.intervals = @ \o b.intervals]

\* Mutant: an interval swallowed by the last one cuts it short.
Extend_ToTheNewEnd(kept, x) ==
  CASE x[1] = x[2]                              -> kept
    [] kept # <<>> /\ Last(kept)[2] >= x[1]     -> Append(Front(kept), Interval(Last(kept)[1], x[2]))
    [] OTHER                                    -> Append(kept, x)

\* An interval extends the last one kept if they touch; an empty one goes.
Extend(kept, x) ==
  CASE x[1] = x[2]                              -> kept
    [] kept # <<>> /\ Last(kept)[2] >= x[1]     -> Append(Front(kept), Interval(Last(kept)[1], Greater(Last(kept)[2], x[2])))
    [] OTHER                                    -> Append(kept, x)

normalize(set) == IntervalSet(FoldLeft(Extend, <<>>, SortSeq(set.intervals, Before)))

\* The last interval that sorts before the empty one at the value.
member(set, value) ==
  LET before == SelectSeq(set.intervals, LAMBDA x : Before(x, Interval(value, value))) IN
  before # <<>> /\ Last(before)[2] > value

\* Both sets are walked at once, the interval that ends first being left behind.
RECURSIVE Common(_, _)
Common(a, b) ==
  IF a = <<>> \/ b = <<>> THEN <<>>
  ELSE LET x == Head(a) y == Head(b) IN
    IF x[2] <= y[1] THEN Common(Tail(a), b)
    ELSE IF y[2] <= x[1] THEN Common(a, Tail(b))
    ELSE <<Interval(Greater(x[1], y[1]), Smaller(x[2], y[2]))>>
           \o IF x[2] < y[2] THEN Common(Tail(a), b) ELSE Common(a, Tail(b))

intersect(a, b) == IntervalSet(Common(a.intervals, b.intervals))

\* Up to a bound, the gaps between the intervals and what follows the last.
complement(set, maxval) ==
  LET n     == Len(set.intervals)
      gap(i) == Interval(IF i = 1 THEN 0 ELSE set.intervals[i - 1][2],
                         IF i > n THEN maxval ELSE Smaller(set.intervals[i][1], maxval))
  IN IntervalSet(SelectSeq([i \in 1 .. n + 1 |-> gap(i)], LAMBDA x : x[1] < x[2]))

difference(a, b) ==
  IF a.intervals = <<>> THEN Empty ELSE intersect(a, complement(b, Last(a.intervals)[2]))

RECURSIVE Touch(_, _)
Touch(a, b) ==
  /\ a # <<>> /\ b # <<>>
  /\ IF Head(a)[2] <= Head(b)[1] THEN Touch(Tail(a), b)
     ELSE Head(b)[2] > Head(a)[1] \/ Touch(a, Tail(b))

overlaps(a, b) == Touch(a.intervals, b.intervals)

\* What the walk has seen so far: points of one only, of the other only, of both.
RECURSIVE Seen(_, _, _)
Seen(a, b, seen) ==
  IF a = <<>> \/ b = <<>>
  THEN seen \cup (IF a = <<>> THEN {} ELSE {"first"}) \cup (IF b = <<>> THEN {} ELSE {"second"})
  ELSE LET x == Head(a) y == Head(b) IN
    IF x[2] <= y[1] THEN Seen(Tail(a), b, seen \cup {"first"})
    ELSE IF y[2] <= x[1] THEN Seen(a, Tail(b), seen \cup {"second"})
    ELSE IF x = y THEN Seen(Tail(a), Tail(b), seen \cup {"both"})
    ELSE IF y[1] <= x[1] /\ y[2] >= x[2] THEN Seen(Tail(a), b, seen \cup {"second", "both"})
    ELSE IF x[1] <= y[1] /\ x[2] >= y[2] THEN Seen(a, Tail(b), seen \cup {"first", "both"})
    ELSE {"first", "second", "both"}

strictly_overlaps(a, b) == Seen(a.intervals, b.intervals, {}) = {"first", "second", "both"}

RECURSIVE Holds(_, _)
Holds(a, b) ==
  IF a = <<>> \/ b = <<>> THEN b = <<>>
  ELSE LET x == Head(a) y == Head(b) IN
    IF x[2] <= y[1] THEN Holds(Tail(a), b)
    ELSE /\ y[1] >= x[1] /\ y[2] <= x[2]
         /\ IF y[2] = x[2] THEN Holds(Tail(a), Tail(b)) ELSE Holds(a, Tail(b))

contains(a, b) == b.count <= a.count /\ Holds(a.intervals, b.intervals)

is_singleton(set) == Len(set.intervals) = 1 /\ set.intervals[1][1] + 1 = set.intervals[1][2]

-----------------------------------------------------------------------------
(* The numbering.                                                          *)

One == 0  \* the weight of what costs nothing

NO_INDEX == -1

Final(fst, s) == s \in DOMAIN fst.final

\* A final state opens an interval at the number it is given.
init_state(fst, v, s) ==
  LET open == [v EXCEPT !.open = @ \cup {s}] IN
  IF ~Final(fst, s) THEN open
  ELSE [open EXCEPT !.isets[s].intervals = Append(@, Interval(v.next_index, v.next_index + 1)),
                    !.state2index[s] = v.next_index, !.next_index = @ + 1]

\* It is closed when the state is left: what was numbered meanwhile is reached from it.
finish_state(fst, v, s) ==
  LET closed == IF Final(fst, s) THEN [v EXCEPT !.isets[s].intervals[1][2] = v.next_index] ELSE v IN
  [closed EXCEPT !.isets[s] = normalize(@), !.open = @ \ {s}, !.finished = @ \cup {s}]

\* Along an arc to a state that is left already, or when a state is left, what
\* it reaches is reached from here.
forward_or_cross_arc(v, s, t) == [v EXCEPT !.isets[s] = union(@, v.isets[t])]

\* The search from a state, which an arc back ends.
RECURSIVE Visit(_, _, _)
Visit(fst, v, s) ==
  LET follow(w, arc) ==
        LET t == arc.nextstate IN
        IF w.error THEN w
        ELSE IF t \in w.open THEN [w EXCEPT !.error = TRUE]
        ELSE forward_or_cross_arc(IF t \in w.finished THEN w ELSE Visit(fst, w, t), s, t)
  IN finish_state(fst, FoldLeft(follow, init_state(fst, v, s), fst.arcs[s]), s)

\* From the start, and then from every state not met yet, in order.
Roots(fst) == <<fst.start>> \o [i \in 1 .. Cardinality(DOMAIN fst.arcs) |-> i - 1]

acyclic(fst) ==
  LET sweep(v, s) == IF v.error \/ s \in v.finished THEN v ELSE Visit(fst, v, s) IN
  FoldLeft(sweep, [isets |-> [s \in DOMAIN fst.arcs |-> Empty], state2index |-> [s \in DOMAIN fst.arcs |-> NO_INDEX],
                   next_index |-> 1, open |-> {}, finished |-> {}, error |-> FALSE], Roots(fst))

-----------------------------------------------------------------------------
(* Cycles.                                                                 *)

Targets(fst, S) == UNION {{fst.arcs[s][i].nextstate : i \in DOMAIN fst.arcs[s]} : s \in S}

RECURSIVE Beyond(_, _)
Beyond(fst, S) == LET more == S \cup Targets(fst, S) IN IF more = S THEN S ELSE Beyond(fst, more)

K_ACYCLIC(fst) == \A s \in DOMAIN fst.arcs : s \notin Beyond(fst, Targets(fst, {s}))

\* The states in the order a search leaves them.
RECURSIVE Leave(_, _, _)
Leave(fst, v, s) ==
  IF s \in v.met THEN v
  ELSE LET below == FoldLeft(LAMBDA w, arc : Leave(fst, w, arc.nextstate), [v EXCEPT !.met = @ \cup {s}], fst.arcs[s])
       IN [below EXCEPT !.left = Append(@, s)]

Component(fst, s) == {t \in DOMAIN fst.arcs : t \in Beyond(fst, {s}) /\ s \in Beyond(fst, {t})}

Left(fst) == FoldLeft(LAMBDA v, s : Leave(fst, v, s), [met |-> {}, left |-> <<>>], Roots(fst)).left

\* The components in topological order: one is met when the last of it to be left is.
Scc(fst) ==
  LET assign(scc, s) ==
        IF s \in DOMAIN scc THEN scc ELSE scc @@ [t \in Component(fst, s) |-> Cardinality(Range(scc))]
  IN FoldLeft(assign, <<>>, Reverse(Left(fst)))

\* A state for each component, with the arcs that lead out of it.
condense(fst, scc) ==
  LET nodes == [i \in 1 .. Cardinality(DOMAIN scc) |-> i - 1]
      leaving(s) == SelectSeq(fst.arcs[s], LAMBDA a : scc[a.nextstate] # scc[s])
      into(arcs, s) ==
        [arcs EXCEPT ![scc[s]] = @ \o [i \in DOMAIN leaving(s) |-> [leaving(s)[i] EXCEPT !.nextstate = scc[@]]]]
      weight(c) == Min({fst.final[s] : s \in {s \in DOMAIN fst.final : scc[s] = c}})
  IN [start |-> scc[fst.start], final |-> [c \in {scc[s] : s \in DOMAIN fst.final} |-> weight(c)],
      arcs  |-> FoldLeft(into, [c \in Range(scc) |-> <<>>], nodes)]

\* What a component reaches each of its states reaches.
Spread(found, scc, mixed) ==
  [isets |-> [s \in DOMAIN scc |-> found.isets[scc[s]]],
   state2index |-> [s \in DOMAIN scc |-> found.state2index[scc[s]]], error |-> mixed]

\* Refused if a final state shares its component with another state.
cyclic(fst, scc) ==
  Spread(acyclic(condense(fst, scc)), scc,
         \E s \in DOMAIN fst.final : \E t, u \in DOMAIN scc : t # u /\ scc[t] = scc[s] /\ scc[u] = scc[s])

StateReachable(fst) == IF K_ACYCLIC(fst) THEN acyclic(fst) ELSE cyclic(fst, Scc(fst))

\* Whether a final state is reached.
reach(found, from, to) == found.state2index[to] # NO_INDEX /\ member(found.isets[from], found.state2index[to])

-----------------------------------------------------------------------------
(* Labels.                                                                 *)

FINAL_LABEL == -1
NO_LABEL    == -1

LabelOn(side, arc) == IF side = "input" THEN arc.ilabel ELSE arc.olabel

\* What a state leads to, in order: the labels of its arcs, and the label of the end.
Said(fst, side, s) ==
  SelectSeq([i \in DOMAIN fst.arcs[s] |-> LabelOn(side, fst.arcs[s][i])], LAMBDA l : l # 0)
    \o IF Final(fst, s) THEN <<FINAL_LABEL>> ELSE <<>>

Nodes(fst) == [i \in 1 .. Cardinality(DOMAIN fst.arcs) |-> i - 1]

\* The states of the labels, after the automaton's own, in the order they are met.
state_for(fst, labels) ==
  LET meet(known, l) == IF l \in DOMAIN known THEN known
                        ELSE known @@ (l :> Cardinality(DOMAIN fst.arcs) + Cardinality(DOMAIN known))
  IN FoldLeft(meet, <<>>, labels)

\* An arc with a label leads to the state of the label, a final weight is an arc
\* to the state of the end, and a start leads to all that nothing leads to.
Sent(fst, side, label2state, s) ==
  LET sent(arc) == IF LabelOn(side, arc) = 0 THEN arc ELSE [arc EXCEPT !.nextstate = label2state[LabelOn(side, arc)]]
      end == [ilabel |-> NO_LABEL, olabel |-> NO_LABEL, weight |-> One, nextstate |-> label2state[FINAL_LABEL]]
  IN [i \in DOMAIN fst.arcs[s] |-> sent(fst.arcs[s][i])]
       \o IF Final(fst, s) THEN <<[end EXCEPT !.weight = fst.final[s]]>> ELSE <<>>

transform(fst, side, label2state) ==
  LET n     == Cardinality(DOMAIN fst.arcs)
      start == n + Cardinality(DOMAIN label2state)
      own   == FoldLeft(LAMBDA arcs, s : arcs @@ (s :> Sent(fst, side, label2state, s)),
                        [s \in n .. start - 1 |-> <<>>], Nodes(fst))
      unmet == SelectSeq([i \in 1 .. start |-> i - 1], LAMBDA s : s \notin Targets([arcs |-> own], DOMAIN own))
      first == [i \in DOMAIN unmet |-> [ilabel |-> 0, olabel |-> 0, weight |-> One, nextstate |-> unmet[i]]]
  IN [start |-> start, final |-> [s \in n .. start - 1 |-> One], arcs |-> own @@ (start :> first)]

\* A number for each label, and the numbers each state reaches.
Indexed(fst, label2state, found) ==
  [label2index |-> [l \in DOMAIN label2state |-> found.state2index[label2state[l]]],
   interval_sets |-> [s \in DOMAIN fst.arcs |-> found.isets[s]], error |-> found.error]

LabelReachable(fst, side) ==
  LET label2state == state_for(fst, FlattenSeq([i \in DOMAIN Nodes(fst) |-> Said(fst, side, Nodes(fst)[i])]))
  IN Indexed(fst, label2state, StateReachable(transform(fst, side, label2state)))

\* Whether a label is one the state can read next, after any epsilons.
reach_label(index, s, label) ==
  label \in DOMAIN index.label2index /\ member(index.interval_sets[s], index.label2index[label])

reach_final(index, s) == reach_label(index, s, FINAL_LABEL)

-----------------------------------------------------------------------------
(* What composition asks: weights, sides, ways forward.                    *)

Zero == 1000

Times(a, b) == IF Zero \in {a, b} THEN Zero ELSE a + b
Plus(a, b)  == Smaller(a, b)
Divide(a, b) == IF a = Zero THEN Zero ELSE a - b
Sum(weights) == FoldLeft(Plus, Zero, weights)

\* The label with which the side asked meets the other one; the other one meets it with Across.
Meets(side, arc)  == IF side = "output" THEN arc.olabel ELSE arc.ilabel
Across(side, arc) == IF side = "output" THEN arc.ilabel ELSE arc.olabel
Relabelled(side, arc, label) == IF side = "output" THEN [arc EXCEPT !.olabel = label] ELSE [arc EXCEPT !.ilabel = label]

FinalWeight(fst, s) == IF Final(fst, s) THEN fst.final[s] ELSE Zero

-----------------------------------------------------------------------------
\* What a look-ahead found: prefix holds the arc that has to come next, if there is one.
NoWay == [reachable |-> FALSE, weight |-> One, prefix |-> <<>>]
Anything == [reachable |-> TRUE, weight |-> One, prefix |-> <<>>]

With(fst, side, s, label) == SelectSeq(fst.arcs[s], LAMBDA a : Meets(side, a) = label)

Way(weight, counts, prefix) == [weight |-> weight, counts |-> counts, prefix |-> prefix]

\* The ways forward of two states, in the order they are met: both end; the side
\* asked takes an epsilon, all of which are one way; the other takes an epsilon,
\* which may not count; an arc of the other is met by one of the side asked.
Ways(own, side, s, other, t, flags) ==
  LET ends == IF Final(own, s) /\ Final(other, t)
              THEN <<Way(Times(own.final[s], other.final[t]), TRUE, <<>>)>> ELSE <<>>
      still == With(own, side, s, 0)
      stays == IF still = <<>> THEN <<>> ELSE <<Way(Sum([i \in DOMAIN still |-> still[i].weight]), TRUE, <<>>)>>
      along(arc) == IF Across(side, arc) = 0
                    THEN <<Way(arc.weight, "non epsilon prefix" \notin flags, <<>>)>>
                    ELSE LET met == With(own, side, s, Across(side, arc)) IN
                         [i \in DOMAIN met |-> Way(Times(arc.weight, met[i].weight), TRUE, <<arc>>)]
  IN ends \o stays \o FlattenSeq([i \in DOMAIN other.arcs[t] |-> along(other.arcs[t][i])])

\* An arc at a time.  If one way only counts it says everything, and the weight,
\* which would count it twice, is left off.
arc_look_ahead(own, side, s, other, t, flags) ==
  LET ways  == Ways(own, side, s, other, t, flags)
      count == SelectSeq(ways, LAMBDA w : w.counts)
      detailed == flags \cap {"weight", "prefix"} # {}
  IN IF ways = <<>> THEN NoWay
     ELSE IF ~detailed THEN Anything
     ELSE IF "prefix" \in flags /\ Len(count) = 1 THEN [Anything EXCEPT !.prefix = count[1].prefix]
     ELSE IF "weight" \in flags THEN [Anything EXCEPT !.weight = Sum([i \in DOMAIN ways |-> ways[i].weight])]
     ELSE Anything

\* From the index: the arcs of the other side that carry a label read next, which an epsilon is not.
reach_range(index, side, s, arcs) ==
  SelectSeq([i \in DOMAIN arcs |-> i], LAMBDA i : reach_label(index, s, Across(side, arcs[i])))

label_look_ahead(index, side, s, other, t, flags) ==
  LET arcs  == other.arcs[t]
      met   == reach_range(index, side, s, arcs)
      ends  == Final(other, t) /\ reach_final(index, s)
      sum   == Sum([i \in DOMAIN met |-> arcs[met[i]].weight])
  IN IF met = <<>> /\ ~ends THEN NoWay
     ELSE IF met # <<>> /\ ~ends /\ "prefix" \in flags /\ Last(met) = met[1] THEN [Anything EXCEPT !.prefix = <<arcs[met[1]]>>]
     ELSE IF "weight" \notin flags THEN Anything
     ELSE [Anything EXCEPT !.weight = Plus(sum, IF ends THEN other.final[t] ELSE Zero)]

\* A matcher is [kind, sides, flags], with the index if it has one.
look_ahead(matcher, own, side, s, other, t) ==
  CASE matcher.kind = "arc"   -> arc_look_ahead(own, side, s, other, t, matcher.flags)
    [] matcher.kind = "label" -> label_look_ahead(matcher.index, side, s, other, t, matcher.flags)
    [] OTHER                  -> Anything

\* Whether the side asked can still meet a label, by the next arc or past epsilons.
look_ahead_label(matcher, own, side, s, label) ==
  CASE label = 0              -> TRUE
    [] matcher.kind = "arc"   -> With(own, side, s, label) # <<>>
    [] matcher.kind = "label" -> reach_label(matcher.index, s, label)
    [] OTHER                  -> TRUE

\* The side that is asked: the first automaton's matcher goes first.
lookahead_match_type(matchers) == IF "output" \in matchers[1].sides THEN "output" ELSE "input"

-----------------------------------------------------------------------------
(* Sums over a range of a state's arcs.  A log weight is the mass it stands *)
(* for, so that one weight is less than another if its mass is greater.    *)

Mass(masses, begin, end) == FoldLeft(LAMBDA n, m : n + m, 0, SubSeq(masses, begin + 1, end))

\* The sums kept of every so many arcs.
Stored(masses, period) == [k \in 1 .. Len(masses) \div period + 1 |-> Mass(masses, 0, (k - 1) * period)]

\* FastLogAccumulator: between two sums kept the arcs are not walked.
fast_sum_range(masses, limit, period, w, begin, end) ==
  LET kept  == Stored(masses, period)
      first == IF begin > 0 THEN (begin - 1) \div period + 1 ELSE 0
      last  == end \div period
      from  == first * period
      to    == last * period
      head  == IF begin < from THEN Mass(masses, begin, Smaller(from, end)) ELSE 0
      \* where the walk stands after the arcs before the first sum kept
      stood == IF begin < from THEN Smaller(from, end) ELSE begin
      jump  == IF from < to /\ kept[last + 1] > kept[first + 1] THEN kept[last + 1] - kept[first + 1] ELSE 0
      on    == IF from < to /\ stood < to THEN to ELSE stood
  IN IF end <= begin THEN w
     ELSE IF Len(masses) < limit THEN w + Mass(masses, begin, end)
     ELSE w + head + jump + Mass(masses, on, end)

\* CacheLogAccumulator: the run of sums of a state grows as far as it is asked about.
extend(run, masses, end) ==
  IF Len(run) > end THEN run
  ELSE run \o [i \in 1 .. Smaller(end + 1, Len(masses) + 1) - Len(run) |-> Mass(masses, 0, Len(run) + i - 1)]

\* A run that is empty has not been begun, and a state with few arcs is not worth one.
cache_sum_range(run, masses, limit, w, begin, end) ==
  IF run = <<>> /\ end < limit THEN w + Mass(masses, begin, end)
  ELSE LET grown == extend(IF run = <<>> THEN <<0>> ELSE run, masses, end)
           f1 == grown[Smaller(end, Len(grown) - 1) + 1]
           f2 == grown[Smaller(begin, Len(grown) - 1) + 1]
       IN IF f1 > f2 THEN w + f1 - f2 ELSE w

\* Bisection for the first sum past `from` that has the mass sought.
RECURSIVE Bisect(_, _, _, _)
Bisect(run, mass, lo, hi) ==
  IF lo >= hi THEN lo
  ELSE LET mid == lo + (hi - lo) \div 2 IN
       IF run[mid + 1] < mass THEN Bisect(run, mass, mid + 1, hi) ELSE Bisect(run, mass, lo, mid)

lower_bound(run, masses, mass, from) ==
  LET grown == extend(IF run = <<>> THEN <<0>> ELSE run, masses, Len(masses)) IN
  Bisect(grown, mass, from + 1, Len(grown)) - 1
-----------------------------------------------------------------------------
(* The composition.                                                        *)

CONSTANTS
  Setups,  \* [first, second, filter, match, stack, matchers]: two automata, sorted where they
           \* meet, the innermost filter, and what is stacked on it
  None     \* no start state; no filter state

VARIABLES
  setup,
  states,   \* the state table: its tuples, numbered from 1
  pending,  \* the states to expand; the last goes first
  done,     \* the states that have been put there
  arcs,     \* the result's arcs, for the states expanded
  final,    \* the weights of the result's final states
  filter,   \* what the filter was last told
  finished

vars == <<setup, states, pending, done, arcs, final, filter, finished>>

First  == setup.first
Second == setup.second

M1 == INSTANCE SortedMatcher WITH Arcs <- First.arcs, Side <- "output", One <- 0
M2 == INSTANCE SortedMatcher WITH Arcs <- Second.arcs, Side <- "input", One <- 0

Epsilon == M1!Epsilon
NoLabel == M1!NoLabel

-----------------------------------------------------------------------------
(* The filters: which pairs of arcs may be taken together, so that where   *)
(* both sides have epsilons one order of taking them is kept and the       *)
(* others are not.  An arc with no label on the side that meets is the     *)
(* loop: that side stays where it is.                                      *)

Default == 0  \* STATE_DEFAULT
Eps1    == 1  \* only the first side may consume epsilons
Eps2    == 2  \* only the second side may

Filters == {"null", "trivial", "sequence", "alt sequence", "match", "no match"}

\* What a filter knows before it has been told a state.
Untold == [s1 |-> -1, s2 |-> -1, fs |-> Default,
           alleps1 |-> FALSE, noeps1 |-> FALSE, alleps2 |-> FALSE, noeps2 |-> FALSE,
           pushed |-> 0, owed |-> NoLabel]

Epsilons(labels) == Len(SelectSeq(labels, LAMBDA l : l = Epsilon))

\* Mutant: an automaton may stop in a state that has epsilons only.
AllEps_Final(labels, accepting) == Epsilons(labels) = Len(labels)

\* Nothing but epsilons leads on from the state, and it is not final.
AllEps(labels, accepting) == Epsilons(labels) = Len(labels) /\ ~accepting

OutOf(arc) == arc.olabel
InOf(arc)  == arc.ilabel

\* The filter is told a pair of states; first and second give the labels that
\* meet on the arcs of each, and whether it is final.  Asked again about the
\* same pair it keeps what it knows.  The filters stacked on it take what was
\* pushed and what is owed from the state.
set_state(f, s1, s2, state, first, second) ==
  [IF f.s1 = s1 /\ f.s2 = s2 /\ f.fs = state.fs THEN f
   ELSE [s1 |-> s1, s2 |-> s2, fs |-> state.fs,
         alleps1 |-> AllEps(first.labels, first.final), noeps1 |-> Epsilons(first.labels) = 0,
         alleps2 |-> AllEps(second.labels, second.final), noeps2 |-> Epsilons(second.labels) = 0,
         pushed |-> 0, owed |-> NoLabel]
   EXCEPT !.pushed = state.pushed, !.owed = state.owed]

-----------------------------------------------------------------------------
Stays(label) == label = NoLabel

\* What one side is in after the other has taken an epsilon alone.
Alone(all, none, fs) == IF all THEN None ELSE IF none THEN Default ELSE fs

\* Epsilons of the second side come first, those of the first side after.
sequence_filter(f, arc1, arc2) ==
  CASE Stays(OutOf(arc1))   -> Alone(f.alleps1, f.noeps1, Eps1)
    [] Stays(InOf(arc2))    -> IF f.fs = Default THEN Default ELSE None
    [] OutOf(arc1) = Epsilon -> None
    [] OTHER              -> Default

\* The other way round.
alt_sequence_filter(f, arc1, arc2) ==
  CASE Stays(InOf(arc2))    -> Alone(f.alleps2, f.noeps2, Eps1)
    [] Stays(OutOf(arc1))   -> IF f.fs = Eps1 THEN None ELSE Default
    [] OutOf(arc1) = Epsilon -> None
    [] OTHER              -> Default

\* Epsilons are taken together while both sides have some, the rest of either alone.
match_filter(f, arc1, arc2) ==
  CASE Stays(InOf(arc2))    -> IF f.fs = Default
                             THEN IF f.noeps2 THEN Default ELSE IF f.alleps2 THEN None ELSE Eps1
                             ELSE IF f.fs = Eps1 THEN Eps1 ELSE None
    [] Stays(OutOf(arc1))   -> IF f.fs = Default
                             THEN IF f.noeps1 THEN Default ELSE IF f.alleps1 THEN None ELSE Eps2
                             ELSE IF f.fs = Eps2 THEN Eps2 ELSE None
    [] OutOf(arc1) = Epsilon -> IF f.fs = Default THEN Default ELSE None
    [] OTHER              -> Default

\* The filters that remember nothing: no side moves alone; anything goes; no two
\* epsilons are taken together.
null_filter(arc1, arc2)     == IF Stays(OutOf(arc1)) \/ Stays(InOf(arc2)) THEN None ELSE Default
trivial_filter(arc1, arc2)  == Default
no_match_filter(arc1, arc2) == IF OutOf(arc1) # Epsilon \/ InOf(arc2) # Epsilon THEN Default ELSE None

filter_arc(name, f, arc1, arc2) ==
  CASE name = "sequence"     -> sequence_filter(f, arc1, arc2)
    [] name = "alt sequence" -> alt_sequence_filter(f, arc1, arc2)
    [] name = "match"        -> match_filter(f, arc1, arc2)
    [] name = "null"         -> null_filter(arc1, arc2)
    [] name = "trivial"      -> trivial_filter(arc1, arc2)
    [] name = "no match"     -> no_match_filter(arc1, arc2)

-----------------------------------------------------------------------------
(* What may be stacked on it.  The side that looks ahead is asked about the *)
(* pair of states an arc of each leads to: it refuses the arcs if nothing   *)
(* lies ahead, and tells what does.  "weights" brings forward the weight    *)
(* that lies ahead, and divides it out again further on; "labels" takes the *)
(* one arc ahead at once, and then owes its label until the side that looks *)
(* ahead writes it.                                                         *)

Side    == lookahead_match_type(setup.matchers)
Asker   == setup.matchers[IF Side = "output" THEN 1 ELSE 2]
Looking == IF Side = "output" THEN First ELSE Second
Other   == IF Side = "output" THEN Second ELSE First

Stacked(name) == name \in setup.stack
Flag(name)    == setup.stack # {} /\ name \in Asker.flags

\* Two arcs as they are to be taken, of the side that looks ahead and the other.
Took(own, other, state) ==
  <<[arc1 |-> IF Side = "output" THEN own ELSE other,
     arc2 |-> IF Side = "output" THEN other ELSE own, state |-> state]>>

\* Asked only of the arcs the matcher says it can be asked about.
look(own, other) ==
  IF Flag(IF Meets(Side, own) = Epsilon THEN "epsilons" ELSE "non epsilons")
  THEN look_ahead(Asker, Looking, Side, own.nextstate, Other, other.nextstate) ELSE Anything

\* Mutant: what was brought forward earlier is not divided out.
push_weights_Twice(took, found, pushed) ==
  IF ~Stacked("weights") \/ ~Flag("weight") THEN <<took>>
  ELSE IF found.weight = Zero THEN <<>>
  ELSE <<[took EXCEPT !.arc2.weight = Times(@, found.weight), !.state.pushed = found.weight]>>

\* What lies ahead is paid here, and what was paid for already is not paid again.
push_weights(took, found, pushed) ==
  IF ~Stacked("weights") \/ ~Flag("weight") THEN <<took>>
  ELSE IF found.weight = Zero THEN <<>>
  ELSE <<[took EXCEPT !.arc2.weight = Divide(Times(@, found.weight), pushed), !.state.pushed = found.weight]>>

\* There is room for the label if the other side writes nothing here.
push_label(taken, found) ==
  LET own    == IF Side = "output" THEN taken[1].arc1 ELSE taken[1].arc2
      other  == IF Side = "output" THEN taken[1].arc2 ELSE taken[1].arc1
      room   == /\ Meets(Side, other) = Epsilon
                /\ Meets(Side, own) = Epsilon \/ ~Flag("non epsilon prefix")
      prefix == found.prefix[1]
      owed   == Across(Side, prefix)
  IN IF taken = <<>> \/ ~Stacked("labels") \/ ~Flag("prefix") \/ found.prefix = <<>> \/ ~room THEN taken
     ELSE Took(Relabelled(Side, own, owed), [prefix EXCEPT !.weight = Times(other.weight, @)],
               [taken[1].state EXCEPT !.owed = owed])

\* Mutant: a label paid for is still owed.
pay_carried_Again(f, own, other) ==
  LET label == Meets(Side, own)
      owing == [fs |-> f.fs, pushed |-> f.pushed, owed |-> f.owed]
  IN CASE Across(Side, other) # NoLabel -> <<>>
       [] label = f.owed  -> Took(Relabelled(Side, own, Epsilon), other, owing)
       [] label = Epsilon -> Took(own, other, owing)
       [] OTHER           -> <<>>

Unowed == [fs |-> Default, pushed |-> One, owed |-> NoLabel]

\* The other side waits until the label is written, which is then not written
\* again; an epsilon is taken if it is all there is or the label may follow.
pay_carried(f, own, other) ==
  LET label == Meets(Side, own)
      owing == [fs |-> f.fs, pushed |-> f.pushed, owed |-> f.owed]
  IN CASE Across(Side, other) # NoLabel -> <<>>
       [] label = f.owed -> Took(Relabelled(Side, own, Epsilon), other, Unowed)
       [] label = Epsilon /\ (\/ Len(Looking.arcs[IF Side = "output" THEN f.s1 ELSE f.s2]) = 1
                              \/ look_ahead_label(Asker, Looking, Side, own.nextstate, f.owed))
                         -> Took(own, other, owing)
       [] OTHER          -> <<>>

\* The filters stacked, told what lies ahead.
stacked(took, found, pushed) ==
  IF found.reachable THEN push_label(push_weights(took, found, pushed), found) ELSE <<>>

\* The whole stack, given what the filter that orders epsilons says.
Taken(f, fs, arc1, arc2) ==
  LET own   == IF Side = "output" THEN arc1 ELSE arc2
      other == IF Side = "output" THEN arc2 ELSE arc1
      took  == [arc1 |-> arc1, arc2 |-> arc2, state |-> [Unowed EXCEPT !.fs = fs]]
  IN CASE f.owed # NoLabel -> pay_carried(f, own, other)
       [] fs = None        -> <<>>
       [] setup.stack = {} -> <<took>>
       [] OTHER            -> stacked(took, look(own, other), f.pushed)

\* None or one way of taking two arcs.
look_ahead_filter_arc(f, arc1, arc2) == Taken(f, filter_arc(setup.filter, f, arc1, arc2), arc1, arc2)

\* What was brought forward is divided out where a path ends, and none ends owing.
filter_final(f, w1, w2) == IF f.owed # NoLabel THEN Zero ELSE Times(Divide(w1, f.pushed), w2)

-----------------------------------------------------------------------------
(* The composition.                                                        *)

Tuple(s1, s2, fs) == <<s1, s2, fs>>

Init ==
  /\ setup \in Setups
  /\ LET starts == First.start # None /\ Second.start # None IN
     /\ states  = IF starts THEN <<Tuple(First.start, Second.start, Unowed)>> ELSE <<>>
     /\ pending = IF starts THEN <<1>> ELSE <<>>
     /\ done    = IF starts THEN {1} ELSE {}
     /\ finished = ~starts
  /\ arcs = <<>> /\ final = <<>> /\ filter = Untold

Walk(seq) == [i \in DOMAIN seq |-> i]

\* Mutant: two arcs that lead to one new state do not know of each other.
Fresh_Each(seq, known) == SelectSeq(seq, LAMBDA x : x \notin known)

\* What is in a sequence and not known, once each, in the order it is met.
Fresh(seq, known) ==
  LET met(i) == seq[i] \notin known /\ \A j \in 1 .. i - 1 : seq[j] # seq[i]
      at     == SelectSeq(Walk(seq), met)
  IN [k \in DOMAIN at |-> seq[at[k]]]

\* The state table after a row of tuples has been looked for in it: a tuple is
\* the state it was entered as, and is entered if it is new.
find_state(table, tuples) == table \o Fresh(tuples, ToSet(table))

Number(table, tuple) == CHOOSE i \in DOMAIN table : table[i] = tuple

\* Which side is matched: the other one's arcs are walked.
match_input(s1, s2) ==
  CASE setup.match = "input"  -> TRUE
    [] setup.match = "output" -> FALSE
    [] OTHER                  -> M1!Priority(s1) <= M2!Priority(s2)

Sorted(side, s, label) == IF side = "output" THEN M1!Answers(s, label) ELSE M2!Answers(s, label)

\* A label owed is one more epsilon: the side that looks ahead lists the arcs
\* that write it with those that write nothing, the other stays where it is.
find(side, s, label, owed) ==
  CASE owed # NoLabel /\ side = Side /\ label = NoLabel -> Sorted(side, s, owed) \o Sorted(side, s, NoLabel)
    [] owed # NoLabel /\ side # Side /\ label = owed    ->
         <<[ilabel |-> NoLabel, olabel |-> NoLabel, weight |-> One, nextstate |-> s]>>
    [] OTHER -> Sorted(side, s, label)

Beside(arc, met)  == [j \in DOMAIN met |-> <<arc, met[j]>>]
Against(met, arc) == [j \in DOMAIN met |-> <<met[j], arc>>]

\* The pairs of arcs that meet, the arc of the side that stays being its loop:
\* each arc walked, and first the loop, with all that its label finds.
Pairs(s1, s2, owed) ==
  LET walked1 == <<M1!Loop(s1)>> \o First.arcs[s1]
      walked2 == <<M2!Loop(s2)>> \o Second.arcs[s2]
  IN IF match_input(s1, s2)
     THEN FlattenSeq([i \in DOMAIN walked1 |-> Beside(walked1[i], find("input", s2, walked1[i].olabel, owed))])
     ELSE FlattenSeq([i \in DOMAIN walked2 |-> Against(find("output", s1, walked2[i].ilabel, owed), walked2[i])])

\* The tuple two arcs lead to and their arc but for its target: the weights are multiplied.
Joined(taken) ==
  [i \in DOMAIN taken |->
     LET arc1 == taken[i].arc1
         arc2 == taken[i].arc2
     IN [tuple  |-> Tuple(arc1.nextstate, arc2.nextstate, taken[i].state),
         ilabel |-> arc1.ilabel, olabel |-> arc2.olabel, weight |-> Times(arc1.weight, arc2.weight)]]

\* The pairs the filter lets through.
match_arc(pairs, f) ==
  FlattenSeq([i \in DOMAIN pairs |-> Joined(look_ahead_filter_arc(f, pairs[i][1], pairs[i][2]))])

Outs(s) == [i \in DOMAIN First.arcs[s] |-> First.arcs[s][i].olabel]
Ins(s)  == [i \in DOMAIN Second.arcs[s] |-> Second.arcs[s][i].ilabel]

\* A state's final weight, its arcs, and the states they lead to for the first time.
Enter(state, f, ends, made) ==
  LET table == find_state(states, [i \in DOMAIN made |-> made[i].tuple])
      next  == [i \in DOMAIN made |-> Number(table, made[i].tuple)]
      own   == [i \in DOMAIN made |-> [ilabel |-> made[i].ilabel, olabel |-> made[i].olabel,
                                       weight |-> made[i].weight, nextstate |-> next[i]]]
      known == [s \in 1 .. Len(table) |-> IF s \in DOMAIN arcs THEN arcs[s] ELSE <<>>]
  IN /\ final' = IF ends = Zero THEN final ELSE final @@ (state :> ends)
     /\ states' = table
     /\ arcs' = [known EXCEPT ![state] = @ \o own]
     /\ filter' = f
     /\ done' = done \cup ToSet(next)
     /\ pending' = Front(pending) \o Fresh(next, done)

\* The last state pending is expanded.
Expand ==
  /\ pending # <<>> /\ ~finished
  /\ LET state == Last(pending)
         s1    == states[state][1]
         s2    == states[state][2]
         f     == set_state(filter, s1, s2, states[state][3],
                            [labels |-> Outs(s1), final |-> Final(First, s1)],
                            [labels |-> Ins(s2), final |-> Final(Second, s2)])
     IN Enter(state, f, filter_final(f, FinalWeight(First, s1), FinalWeight(Second, s2)),
              match_arc(Pairs(s1, s2, f.owed), f))
  /\ UNCHANGED <<setup, finished>>

Finish ==
  /\ pending = <<>> /\ ~finished
  /\ finished' = TRUE
  /\ UNCHANGED <<setup, states, pending, done, arcs, final, filter>>

Next == Expand \/ Finish

Spec == Init /\ [][Next]_vars

-----------------------------------------------------------------------------
(* data_structures/state_table.rs: the tables that know a tuple by a number *)
(* made of it, where composition's own compares tuples.                     *)

\* Mutant: the filter's state is scaled past the first state only.
ComposeFingerprint_PastOne(nstates1, nstates2, tuple) ==
  tuple[1] + tuple[2] * nstates1 + tuple[3].fs * nstates1

\* One number after the other, each scaled past those before it.
ComposeFingerprint(nstates1, nstates2, tuple) ==
  tuple[1] + tuple[2] * nstates1 + tuple[3].fs * nstates1 * nstates2

\* One state alone.
ComposeState1Fingerprint(tuple) == tuple[1]
ComposeState2Fingerprint(tuple) == tuple[2]

\* A line of states in order, which ends at the last and only there.
K_STRING(fst) ==
  LET n == Cardinality(DOMAIN fst.arcs) IN
  /\ fst.start = 0 /\ DOMAIN fst.final = {n - 1}
  /\ \A s \in DOMAIN fst.arcs : [i \in DOMAIN fst.arcs[s] |-> fst.arcs[s][i].nextstate] = IF s = n - 1 THEN <<>> ELSE <<s + 1>>

\* No epsilon and no label twice.
Deterministic(labels) == Epsilons(labels) = 0 /\ IsInjective(labels)

ProductComposeStateTable ==
  LET size(fst) == Cardinality(DOMAIN fst.arcs) IN
  [error |-> FALSE, ids |-> [i \in DOMAIN states |-> ComposeFingerprint(size(First), size(Second), states[i])]]

\* Where one side is a string and the other has one way to follow it, the
\* string's state is all there is to know, and it is an error to ask for this elsewhere.
StringDetComposeStateTable ==
  [error |-> ~K_STRING(First) \/ \E s \in DOMAIN Second.arcs : ~Deterministic(Ins(s)),
   ids   |-> [i \in DOMAIN states |-> ComposeState1Fingerprint(states[i])]]

DetStringComposeStateTable ==
  [error |-> (\E s \in DOMAIN First.arcs : ~Deterministic(Outs(s))) \/ ~K_STRING(Second),
   ids   |-> [i \in DOMAIN states |-> ComposeState2Fingerprint(states[i])]]

-----------------------------------------------------------------------------
\* Every state of the table is a different tuple, and is pending or has been
\* expanded but never both: each is expanded once.  Each of the tables that know
\* a tuple by a number, but for one that reports an error, tells them all apart.
StatesAreExpandedOnce ==
  /\ \A i, j \in DOMAIN states : states[i] = states[j] => i = j
  /\ done \subseteq DOMAIN states
  /\ \A i, j \in DOMAIN pending : pending[i] = pending[j] => i = j
  /\ \A i \in DOMAIN pending : pending[i] \in done /\ (pending[i] \in DOMAIN arcs => arcs[pending[i]] = <<>>)
  /\ finished => done = DOMAIN states
  /\ finished /\ setup.stack = {} =>
       \A table \in {ProductComposeStateTable, StringDetComposeStateTable, DetStringComposeStateTable} :
         table.error \/ IsInjective(table.ids)
=============================================================================
