------------------------------ MODULE Replace ------------------------------
(***************************************************************************)
(* Recursive transition networks: replace.rs, which expands a network into *)
(* one automaton; replace_util.rs, which expands part of one and answers   *)
(* what calls what; and rational.rs, which builds a union, a concatenation *)
(* or a closure as a small network, its recipe, and expands that.          *)
(*                                                                         *)
(* A network is [labels, fsts, opts, deps]: under each label an automaton  *)
(* of Rewriting, or DROPPED; what its arcs' output labels name is called.  *)
(* `deps` is the call graph as it was last worked out, NO_DEPS after it    *)
(* was forgotten.  Symbol tables are left out.                             *)
(***************************************************************************)
EXTENDS Rewriting

DROPPED == [kind |-> "dropped"]
NO_DEPS == {<<0, 0>>}

\* Where an automaton's calls and returns are labelled, and with what; the output
\* label of a call is its own where `call_output` is NO_LABEL.
Options(root) == [root |-> root, call |-> "input", return |-> "neither", call_output |-> NO_LABEL, return_label |-> EPSILON]
EpsilonCalls(root) == [Options(root) EXCEPT !.call = "neither", !.call_output = EPSILON]
EpsilonOnInput(type)  == type \in {"neither", "output"}
EpsilonOnOutput(type) == type \in {"neither", "input"}
MakesATransducer(opts) ==
  \/ opts.call \in {"input", "output"}
  \/ opts.call = "both" /\ opts.call_output # NO_LABEL
  \/ opts.return \in {"input", "output"}

Network(labels, fsts, opts) == [labels |-> labels, fsts |-> fsts, opts |-> opts, deps |-> NO_DEPS]
Present(net) == {i \in DOMAIN net.fsts : net.fsts[i] # DROPPED}
\* The last of those given under one label.
Named(net, nonterminal) == Seqs!SelectLastInSeq(net.labels, LAMBDA l : l = nonterminal)
CalledFst(net, olabel) == IF olabel = EPSILON THEN 0 ELSE Named(net, olabel)

\* The calls of one automaton in the order of its arcs, to what is there.
CallsOf(net, i) ==
  LET f == net.fsts[i]
      all == Seqs!FlattenSeq([s \in 1 .. NumStates(f) |-> f.arcs[s - 1]])
      calls(a) == CalledFst(net, a.olabel) # 0
      real == SelectSeq(all, calls)
  IN IF f = DROPPED THEN <<>> ELSE [n \in DOMAIN real |-> CalledFst(net, real[n].olabel)]
CallPairs(net) == UNION {{<<i, c>> : c \in Seqs!ToSet(CallsOf(net, i))} : i \in DOMAIN net.fsts}

-----------------------------------------------------------------------------
(* The expansion.                                                          *)

\* Depth first along the calls from the root: whether one comes back to what is
\* open.  A frame is an automaton and the calls of it still to be walked.
RECURSIVE Recurs(_, _, _)
Recurs(net, stack, done) ==
  IF stack = <<>> THEN FALSE
  ELSE LET top == stack[Len(stack)]
           below == SubSeq(stack, 1, Len(stack) - 1)
       IN IF top.calls = <<>> THEN Recurs(net, below, done \cup {top.at})
          ELSE LET to == Head(top.calls)  rest == Append(below, [top EXCEPT !.calls = Tail(@)]) IN
               IF \E n \in DOMAIN stack : stack[n].at = to THEN TRUE
               ELSE IF to \in done THEN Recurs(net, rest, done)
               ELSE Recurs(net, Append(rest, [at |-> to, calls |-> CallsOf(net, to)]), done)
RecursiveNonterminal(net) ==
  LET root == Named(net, net.opts.root) IN Recurs(net, <<[at |-> root, calls |-> CallsOf(net, root)]>>, {})

\* A state of the expansion: the calls it is in, the automaton, the state there.  A
\* call is where it was made and where it returns to.
Tuple0(prefix, fst, state) == [prefix |-> prefix, fst |-> fst, state |-> state]

\* What ends in a call goes back to where it was made, with the weight of its end.
ReturnArcs(net, t) ==
  LET f == net.fsts[t.fst]
      call == t.prefix[Len(t.prefix)]
      back == Tuple0(SubSeq(t.prefix, 1, Len(t.prefix) - 1), call.fst, call.resume)
  IN IF t.prefix = <<>> \/ f.final[t.state] = Zero(f.kind) THEN <<>>
     ELSE <<Arc(IF EpsilonOnInput(net.opts.return) THEN EPSILON ELSE net.opts.return_label,
                IF EpsilonOnOutput(net.opts.return) THEN EPSILON ELSE net.opts.return_label,
                f.final[t.state], back)>>

\* Mutant: a call returns to where it was made from, not to where its arc leads.
CallArcReturningEarly(net, t, a, called) ==
  Arc(IF EpsilonOnInput(net.opts.call) THEN EPSILON ELSE a.ilabel,
      IF EpsilonOnOutput(net.opts.call) THEN EPSILON
      ELSE IF net.opts.call_output = NO_LABEL THEN a.olabel ELSE net.opts.call_output,
      a.weight,
      Tuple0(Append(t.prefix, [fst |-> t.fst, resume |-> t.state]), called, net.fsts[called].start))

CallArc(net, t, a, called) ==
  Arc(IF EpsilonOnInput(net.opts.call) THEN EPSILON ELSE a.ilabel,
      IF EpsilonOnOutput(net.opts.call) THEN EPSILON
      ELSE IF net.opts.call_output = NO_LABEL THEN a.olabel ELSE net.opts.call_output,
      a.weight,
      Tuple0(Append(t.prefix, [fst |-> t.fst, resume |-> a.nextstate]), called, net.fsts[called].start))

\* A call of what has no start is dropped.
ArcsAlong(net, t, a) ==
  LET called == CalledFst(net, a.olabel)
  IN IF called = 0 THEN <<[a EXCEPT !.nextstate = [t EXCEPT !.state = a.nextstate]]>>
     ELSE IF net.fsts[called].start = NO_STATE THEN <<>>
     ELSE <<CallArc(net, t, a, called)>>
ArcsOut(net, t) ==
  LET as == net.fsts[t.fst].arcs[t.state]
  IN ReturnArcs(net, t) \o Seqs!FlattenSeq([n \in DOMAIN as |-> ArcsAlong(net, t, as[n])])

\* States are numbered as they are met, and the last one met is expanded first.
RECURSIVE Meet(_, _), Expand(_, _, _, _)
Meet(known, as) ==
  IF as = <<>> THEN known
  ELSE Meet(IF Head(as).nextstate \in Seqs!ToSet(known) THEN known ELSE Append(known, Head(as).nextstate), Tail(as))
Expand(net, known, pending, rows) ==
  IF pending = <<>> THEN [known |-> known, arcs |-> [n \in DOMAIN known |-> rows[n]]]
  ELSE LET id   == pending[Len(pending)]
           as   == ArcsOut(net, known[id])
           met  == Meet(known, as)
           left == SubSeq(pending, 1, Len(pending) - 1)
       IN Expand(net, met, left \o [n \in 1 .. Len(met) - Len(known) |-> Len(known) + n], (id :> as) @@ rows)

\* Only the root's own states are final.
ReplaceFinal(net, t) == LET f == net.fsts[t.fst] IN IF t.prefix = <<>> THEN f.final[t.state] ELSE Zero(f.kind)
ReplaceFrom(net, root) ==
  LET f == net.fsts[root]  start == Tuple0(<<>>, root, f.start)
  IN IF f.start = NO_STATE THEN Empty(f.kind)
     ELSE Built(f.kind, Expand(net, <<start>>, <<1>>, <<>>), LAMBDA t : ReplaceFinal(net, t))
ReplaceFails(net) == Named(net, net.opts.root) = 0 \/ RecursiveNonterminal(net)
Replace(net) == Once(ReplaceFrom(net, Named(net, net.opts.root)))

\* What replace_properties says of the expansion, of what is the same through all of
\* it, when the bits of all the automata are known: it goes by those never called too.
IsString(f) ==
  /\ f.start \in {NO_STATE, 0}
  /\ \A s \in States(f) : IF s = NumStates(f) - 1 THEN f.arcs[s] = <<>> /\ s \in Finals(f)
                         ELSE s \notin Finals(f) /\ Len(f.arcs[s]) = 1 /\ f.arcs[s][1].nextstate = s + 1
NoIEpsilons(f)    == \A a \in ArcsOf(f) : a.ilabel # EPSILON
AccessibleF(f)    == States(f) = (IF f.start = NO_STATE THEN {} ELSE Leads(Steps(f), {f.start}))
CoAccessibleF(f)  == States(f) = Coaccessible(f)
ReplaceProperties(net) ==
  LET root == Named(net, net.opts.root)
      All(holds(_)) == \A i \in DOMAIN net.fsts : holds(net.fsts[i])
      on_call == EpsilonOnInput(net.opts.call)  on_return == EpsilonOnInput(net.opts.return)
      connected == All(LAMBDA f : f.start # NO_STATE /\ AccessibleF(f) /\ CoAccessibleF(f))
  IN {b \in {"ACCESSIBLE", "CO_ACCESSIBLE"} : connected}
     \cup {b \in {"STRING"} : connected /\ All(IsString)}
     \cup {b \in {"ACCEPTOR"} : ~MakesATransducer(net.opts) /\ All(Acceptor)}
     \cup {b \in {"I_DETERMINISTIC"} : /\ ~on_call /\ on_return /\ All(Deterministic)
                                       /\ \A i \in DOMAIN net.fsts : i # root => NoIEpsilons(net.fsts[i])}
     \cup {b \in {"NO_I_EPSILONS"} : ~on_call /\ ~on_return /\ All(NoIEpsilons)}
     \cup {b \in {"ACYCLIC"} : All(AcyclicF)}
     \cup {b \in {"UNWEIGHTED"} : All(LAMBDA f : ~WeightedF(f))}
     \cup {b \in {"INITIAL_ACYCLIC"} : InitialAcyclic(net.fsts[root])}
     \cup {b \in {"INITIAL_CYCLIC"} : connected /\ ~InitialAcyclic(net.fsts[root])}

-----------------------------------------------------------------------------
(* ReplaceUtil: a network of which only part is expanded.                  *)

Root(net) == Named(net, net.opts.root)
\* What is left of it, as a network of its own.
FstPairs(net) ==
  LET left == Seqs!SetToSortSeq(Present(net), LAMBDA a, b : a < b)
  IN Network([n \in DOMAIN left |-> net.labels[left[n]]], [n \in DOMAIN left |-> net.fsts[left[n]]], net.opts)
\* The call graph, worked out unless it is there.
Dependencies(net) == IF net.deps = NO_DEPS THEN CallPairs(net) ELSE net.deps
WorkedOut(net) == [net EXCEPT !.deps = Dependencies(net)]
Forgotten(net) == [net EXCEPT !.deps = NO_DEPS]
Reached(net) == Leads(Dependencies(net), {Root(net)})
Onward(pairs, i) == Leads(pairs, {p[2] : p \in {x \in pairs : x[1] = i}})
CyclicDependencies(pairs) == \E p \in pairs : p[1] \in Onward(pairs, p[1])

Connected(net) == \A i \in Present(net) : i \in Reached(net) /\ AccessibleF(net.fsts[i]) /\ CoAccessibleF(net.fsts[i])

\* The automata are trimmed first; the calls are those of before, where they are known.
Trimmed(net) == [net EXCEPT !.fsts = [i \in DOMAIN @ |-> IF @[i] = DROPPED THEN DROPPED ELSE Connect(@[i])]]
\* Mutant: what nothing calls stays.
ConnectKeepingAll(net) == Forgotten(Trimmed(net))
ConnectNetwork(net) ==
  LET trimmed == Trimmed(net)  reached == Reached(trimmed)
  IN Forgotten([trimmed EXCEPT !.fsts = [i \in DOMAIN @ |-> IF i \in reached THEN @[i] ELSE DROPPED]])

\* Each after what it calls.
RECURSIVE Finish(_, _, _), FinishAll(_, _, _)
Finish(calls, i, done) == IF i \in Seqs!ToSet(done) THEN done ELSE Append(FinishAll(calls, calls[i], done), i)
FinishAll(calls, is, done) == IF is = <<>> THEN done ELSE FinishAll(calls, Tail(is), Finish(calls, Head(is), done))
Callees(net, wanted) ==
  LET is_wanted(c) == c \in wanted IN [i \in DOMAIN net.fsts |-> SelectSeq(CallsOf(net, i), is_wanted)]
BottomUp(net, calls) == FinishAll(calls, <<Root(net)>> \o [i \in DOMAIN net.fsts |-> i], <<>>)

\* An automaton with those it calls of the ones wanted, and itself the root.
SubNetwork(net, i, callees) ==
  LET there(c) == net.fsts[c] # DROPPED
      rules == SelectSeq(Seqs!SetToSortSeq(callees, LAMBDA a, b : a < b), there)
  IN Network([n \in DOMAIN rules |-> net.labels[rules[n]]] \o <<net.labels[i]>>,
             [n \in DOMAIN rules |-> net.fsts[rules[n]]] \o <<net.fsts[i]>>,
             [net.opts EXCEPT !.root = net.labels[i]])

\* One after the other, each once what it calls is; the first that recurses stops it,
\* and those before it stay expanded.
RECURSIVE ExpandEach(_, _, _)
RefusedWith(net) == [net |-> net, error |-> TRUE]
ExpandEach(net, calls, order) ==
  IF order = <<>> THEN [net |-> Forgotten(net), error |-> FALSE]
  ELSE LET i == Head(order)  sub == SubNetwork(net, i, Seqs!ToSet(calls[i])) IN
       IF calls[i] = <<>> \/ net.fsts[i] = DROPPED THEN ExpandEach(net, calls, Tail(order))
       ELSE IF ReplaceFails(sub) THEN RefusedWith(net)
       ELSE ExpandEach([net EXCEPT !.fsts[i] = Replace(sub)], calls, Tail(order))

Wanted(net, labels) == {Named(net, l) : l \in labels \ {net.opts.root}} \ {0}
ReplaceWanted(net, wanted) ==
  IF CyclicDependencies({p \in Dependencies(net) : p[2] \in wanted}) THEN RefusedWith(WorkedOut(net))
  ELSE ExpandEach(WorkedOut(net), Callees(net, wanted), BottomUp(net, Callees(net, wanted)))
ReplaceLabels(net, labels) == ReplaceWanted(net, Wanted(net, labels))

\* How big each is, and who calls whom how often.
CountOf(seq, x) == Cardinality({n \in DOMAIN seq : seq[n] = x})
Total(counts) == Seqs!FoldSeq(LAMBDA x, y : x + y, 0, counts)
CountArcs(f) == Total([s \in 1 .. NumStates(f) |-> Len(f.arcs[s - 1])])
StatsFrom(net, calls) ==
  [i \in DOMAIN net.fsts |->
     [nstates   |-> IF net.fsts[i] = DROPPED THEN 0 ELSE NumStates(net.fsts[i]),
      narcs     |-> IF net.fsts[i] = DROPPED THEN 0 ELSE CountArcs(net.fsts[i]),
      nnonterms |-> Len(calls[i]),
      nref      |-> Total([j \in DOMAIN calls |-> CountOf(calls[j], i)]),
      inref     |-> [j \in DOMAIN calls |-> CountOf(calls[j], i)],
      outref    |-> [j \in DOMAIN calls |-> CountOf(calls[i], j)]]]
Stats(net) == StatsFrom(net, [i \in DOMAIN net.fsts |-> CallsOf(net, i)])

\* Each call of j becomes a copy of it: its caller grows by it, and what it calls
\* is called from there.
Grown(stats, t, j, i) ==
  LET count == t.inref[i]  out == t.outref[i]
      moved(n) == count * t.outref[n]
  IN [nstates   |-> stats[i].nstates + t.nstates * count,
      narcs     |-> stats[i].narcs + (t.narcs + 1) * count,
      nnonterms |-> stats[i].nnonterms + (IF t.nnonterms = 0 THEN 0 ELSE t.nnonterms - 1) * count,
      nref      |-> stats[i].nref - out + out * Total(t.inref),
      inref     |-> [n \in DOMAIN stats |-> IF n = j /\ out > 0 THEN 0 ELSE stats[i].inref[n] + t.inref[n] * out],
      outref    |-> [n \in DOMAIN stats |-> IF n = j /\ count > 0 THEN 0 ELSE stats[i].outref[n] + moved(n)]]
UpdateStats(net, stats, j) ==
  IF j = Root(net) THEN stats ELSE Once([i \in DOMAIN stats |-> Grown(stats, stats[j], j, i)])

RECURSIVE Chosen0(_, _, _, _)
Small(limits, x) ==
  IF limits.by = "size" THEN x.nstates <= limits.nstates /\ x.narcs <= limits.narcs /\ x.nnonterms <= limits.nnonterms
  ELSE x.nref <= limits.ninstances
Chosen0(net, limits, order, stats) ==
  IF order = <<>> THEN {}
  ELSE LET i == Head(order) IN
       IF Small(limits, stats[i]) THEN {net.labels[i]} \cup Chosen0(net, limits, Tail(order), UpdateStats(net, stats, i))
       ELSE Chosen0(net, limits, Tail(order), stats)

\* By size from the bottom up, for sizes are those of after what was chosen; by
\* instances from the top down, for inlining a rule moves its calls.
ChosenBy(net, limits) ==
  LET up == BottomUp(net, Callees(net, DOMAIN net.fsts))
  IN Chosen0(net, limits, IF limits.by = "size" THEN up ELSE Seqs!Reverse(up), Stats(net))
ReplaceBy(net, limits) ==
  IF CyclicDependencies(Dependencies(net)) THEN RefusedWith(WorkedOut(net))
  ELSE ReplaceLabels(WorkedOut(net), ChosenBy(net, limits))

\* The component of the call graph that an automaton is in, and what is known of it.
Scc(net, i) == {j \in DOMAIN net.fsts : j = i \/ (j \in Onward(Dependencies(net), i) /\ i \in Onward(Dependencies(net), j))}
OnCycle(f, s, a) == s \in Leads(Steps(f), {a.nextstate})
SccCalls(net, scc) ==
  LET inside(a) == CalledFst(net, a.olabel) \in scc
      from(i, s) == {<<i, s, a>> : a \in {x \in Seqs!ToSet(net.fsts[i].arcs[s]) : inside(x)}}
  IN UNION {UNION {from(i, s) : s \in States(net.fsts[i])} : i \in scc \cap Present(net)}
SccProperties(net, scc) ==
  LET calls == SccCalls(net, scc)
      apart(c) == ~OnCycle(net.fsts[c[1]], c[2], c[3])
  IN IF ~CyclicDependencies(Dependencies(net)) THEN {"left linear", "right linear"}
     ELSE {p \in {"non trivial"} : Cardinality(scc \cap Present(net)) > 1 \/ \E i \in scc : <<i, i>> \in Dependencies(net)}
          \cup {p \in {"left linear"} : \A c \in calls : c[2] = net.fsts[c[1]].start /\ apart(c)}
          \cup {p \in {"right linear"} : \A c \in calls : c[3].nextstate \in Finals(net.fsts[c[1]]) /\ apart(c)}

-----------------------------------------------------------------------------
(* A recipe: a small automaton that calls the operands, each under a label *)
(* of its own below zero.                                                  *)

\* A copy of g behind f.
Beside(f, g) ==
  LET n == NumStates(f)
      shifted(as) == [i \in DOMAIN as |-> [as[i] EXCEPT !.nextstate = @ + n]]
  IN [f EXCEPT !.final = [s \in 0 .. n + NumStates(g) - 1 |-> IF s < n THEN f.final[s] ELSE g.final[s - n]],
               !.arcs  = [s \in 0 .. n + NumStates(g) - 1 |-> IF s < n THEN f.arcs[s] ELSE shifted(g.arcs[s - n])]]
Silently(f, from, to, weight) == [f EXCEPT !.arcs[from] = Append(@, Arc(EPSILON, EPSILON, weight, to))]

\* A start that paths come back to gets one in front of it.
UnionFst(f, g) ==
  LET both == Beside(f, g)  second == NumStates(f) + g.start  fresh == AddState(both)  new == NumStates(both)
  IN IF g.start = NO_STATE THEN f
     ELSE IF f.start = NO_STATE THEN [both EXCEPT !.start = second]
     ELSE IF InitialAcyclic(f) THEN Silently(both, f.start, second, One(f.kind))
     ELSE Silently(Silently([fresh EXCEPT !.start = new], new, f.start, One(f.kind)), new, second, One(f.kind))

\* The ends of a range of states become arcs, or are kept beside them.
EndsLeadTo(f, ends, to, kept) ==
  [f EXCEPT !.final = [s \in States(f) |-> IF s \in ends /\ ~kept THEN Zero(f.kind) ELSE f.final[s]],
            !.arcs  = [s \in States(f) |-> IF s \in ends THEN Append(f.arcs[s], Arc(EPSILON, EPSILON, f.final[s], to)) ELSE f.arcs[s]]]
ConcatFst(f, g) ==
  IF f.start = NO_STATE THEN f
  ELSE IF g.start = NO_STATE THEN [Beside(f, g) EXCEPT !.final = [s \in DOMAIN @ |-> IF s \in Finals(f) THEN Zero(f.kind) ELSE @[s]]]
  ELSE EndsLeadTo(Beside(f, g), Finals(f), NumStates(f) + g.start, FALSE)

\* In front of f: the arcs of g's ends come first.
ConcatOntoFst(g, f) ==
  LET both == Beside(f, [g EXCEPT !.final = [s \in DOMAIN @ |-> Zero(f.kind)]])
      n == NumStates(f)
      onward(s) == IF s - n \in Finals(g) THEN <<Arc(EPSILON, EPSILON, g.final[s - n], f.start)>> ELSE <<>>
  IN IF f.start = NO_STATE THEN f
     ELSE IF g.start = NO_STATE THEN [AddState(both) EXCEPT !.start = NumStates(both)]
     ELSE [both EXCEPT !.start = n + g.start, !.arcs = [s \in DOMAIN @ |-> IF s < n THEN @[s] ELSE onward(s) \o @[s]]]

ClosureFst(f, star) ==
  LET again == IF f.start = NO_STATE THEN f ELSE EndsLeadTo(f, Finals(f), f.start, TRUE)
      new == NumStates(f)
      own == [AddState(again) EXCEPT !.start = new, !.final[new] = One(f.kind)]
  IN IF ~star THEN again ELSE IF f.start = NO_STATE THEN own ELSE Silently(own, new, f.start, One(f.kind))

NewRecipe(k) == [recipe |-> Empty(k), operands |-> <<>>]
CallTo(k, olabel) ==
  [kind |-> k, start |-> 0, final |-> [s \in 0 .. 1 |-> IF s = 1 THEN One(k) ELSE Zero(k)],
   arcs |-> [s \in 0 .. 1 |-> IF s = 0 THEN <<Arc(EPSILON, olabel, One(k), 1)>> ELSE <<>>], error |-> FALSE]
\* Each operand is given the next label down, and what calls it.
Fragment(r) == CallTo(r.recipe.kind, -(Len(r.operands) + 1))
Adopt(r, f, recipe) == [recipe |-> recipe, operands |-> Append(r.operands, f)]
UnionWith(r, f) == Adopt(r, f, UnionFst(r.recipe, Fragment(r)))
ConcatWith(r, f) == Adopt(r, f, IF r.recipe.start = NO_STATE THEN Fragment(r) ELSE ConcatFst(r.recipe, Fragment(r)))
\* Mutant: behind, as concat_with does.
ConcatOntoBehind(r, f) == Adopt(r, f, IF r.recipe.start = NO_STATE THEN Fragment(r) ELSE ConcatFst(r.recipe, Fragment(r)))
ConcatOnto(r, f) == Adopt(r, f, IF r.recipe.start = NO_STATE THEN Fragment(r) ELSE ConcatOntoFst(Fragment(r), r.recipe))
ClosureOf(r, star) == [r EXCEPT !.recipe = ClosureFst(@, star)]

\* The recipe is the root, under the label below the operands'.
RecipeNetwork(r) ==
  LET n == Len(r.operands)
  IN Network(<<-(n + 1)>> \o [i \in 1 .. n |-> -i], <<r.recipe>> \o r.operands, EpsilonCalls(-(n + 1)))
ExpandRecipe(r) == IF r.recipe.start = NO_STATE THEN Empty(r.recipe.kind) ELSE Replace(RecipeNetwork(r))
=============================================================================
