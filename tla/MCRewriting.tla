---------------------------- MODULE MCRewriting ----------------------------
(***************************************************************************)
(* What is computed with weights and made of whole automata.  A behaviour  *)
(* is of one kind: three weights of a sample; epsilons being removed; a    *)
(* small automaton rewritten by one call, or two; a network of automata    *)
(* that is expanded call by call; a recipe that is put together; an        *)
(* automaton being minimized; or two automata compared.                    *)
(***************************************************************************)
EXTENDS Replace

CONSTANT MaxLabels  \* bound: paths of this many labels are compared

VARIABLES
  kind,
  now,    \* the weights, the automaton, network or recipe as it is, or the two compared
  said,   \* what it is to say
  last,   \* the last call
  coder,  \* how it is encoded
  calls,  \* bound: that many calls more
  before, links, ends, todo, connected, removed, live  \* RmEpsilon's

rewriting == <<now, said, last, coder, calls>>
removing == <<before, links, ends, todo, connected, removed, live>>

T == Scalar("tropical")
EpsilonPlus(v, w) == IF v < w THEN v ELSE w
EpsilonTimes(v, w) == IF v + w < 50 THEN v + w ELSE 50

-----------------------------------------------------------------------------
(* Weights: each kind with some of its values.                             *)

Tuple(of, parts) == [of |-> of, parts |-> parts]
StringValues == {ZeroString} \cup {StringOf(v) : v \in {<<>>, <<1>>, <<2>>, <<1, 2>>, <<2, 1>>}}
GallicValues == {<<ZeroString, Inf>>} \cup {<<StringOf(v), w>> : v \in {<<>>, <<1>>, <<1, 2>>}, w \in {0, 2}}
Sample(k, values) == [kind |-> k, values |-> values]
Samples ==
  {Sample(Scalar("tropical"), {-1, 0, 2, Inf}),
   Sample(Scalar("minmax"), {NegInf, 0, 1, Inf}),
   Sample(Scalar("real"), {-1, 0, 1, 2}),
   Sample(Scalar("log"), 0 .. 3),
   Sample(Scalar("signed_log"), {Signed(p, m) : p \in BOOLEAN, m \in 0 .. 2}),
   Sample(Tuple("lexicographic", <<"tropical", "tropical">>), ({0, 1} \X {-1, 0}) \cup {<<Inf, Inf>>}),
   Sample(Tuple("power", <<"real", "real">>), {0, 1} \X {-1, 2}),
   Sample(Tuple("expectation", <<"real", "real">>), {-1, 1, 2} \X {0, 1, 3}),
   Sample(Tuple("sparse_power", <<"tropical">>), {Sparse(d, r) : d \in {0, Inf}, r \in {<<>>, <<1>>, <<0, 2>>}}),
   Sample(Tuple("left_gallic", <<"left_string", "tropical">>), GallicValues),
   Sample(Tuple("right_gallic", <<"right_string", "tropical">>), GallicValues),
   Sample(Tuple("restricted_gallic", <<"restricted_string", "tropical">>), GallicValues),
   Sample(Tuple("min_gallic", <<"restricted_string", "tropical">>),
          {<<ZeroString, Inf>>, <<StringOf(<<1>>), -1>>, <<StringOf(<<2>>), 1>>, <<StringOf(<<1, 2>>), 3>>}),
   Sample(Tuple("gallic", <<"restricted_string", "tropical">>),
          {Union(<<>>), Union(<<<<StringOf(<<>>), 1>>>>), Union(<<<<StringOf(<<2>>), 0>>>>),
           Union(<<<<StringOf(<<>>), 0>>, <<StringOf(<<1>>), 2>>>>)})}
  \cup {Sample(Scalar(of), StringValues) : of \in Strings}
  \cup {Sample(Scalar(of), {EmptySet, UnivSet, {1}, {2}, {1, 2}}) : of \in Sets}

-----------------------------------------------------------------------------
(* Automata, from the weights of their ends and the rows of their arcs.    *)

Make(k, finals, rows) ==
  LET arc(a) == Arc(a[1], a[2], a[3], a[4])
  IN [kind |-> k, start |-> 0, error |-> FALSE,
      final |-> [s \in 0 .. Len(finals) - 1 |-> finals[s + 1]],
      arcs |-> [s \in 0 .. Len(finals) - 1 |-> [i \in DOMAIN rows[s + 1] |-> arc(rows[s + 1][i])]]]

\* On one arc or two alternatives: a label on both sides, on one, and on none.
OneArc == {<<1, 1, 0>>, <<1, 2, 1>>, <<0, 2, 0>>, <<2, 0, 1>>, <<0, 0, 1>>}
Forks ==
  {<<a \o <<1>>>> : a \in OneArc} \cup {<<a \o <<1>>, b \o <<2>>>> : a \in OneArc, b \in OneArc}
    \cup {<<<<1, 1, 0, 1>>, <<1, 1, 1, 2>>, <<2, 2, 0, 2>>>>, <<<<1, 2, 0, 1>>, <<1, 2, 1, 1>>>>}
Ways ==
  {<<>>, <<<<1, 1, 0, 2>>>>, <<<<0, 2, 0, 2>>>>, <<<<2, 2, 1, 1>>>>, <<<<2, 1, 0, 0>>>>, <<<<2, 0, 1, 2>>, <<1, 1, 0, 2>>>>}
Automata ==
  {Make(T, <<Inf, e1, e2>>, <<fork, way, loop>>) :
     e1 \in {Inf, 1}, e2 \in {0, 2}, fork \in Forks, way \in Ways, loop \in {<<>>, <<<<2, 2, 1, 2>>>>}}
\* Those on which two calls are made.
Chosen ==
  {Make(T, <<Inf, 1, 0>>, <<<<<<1, 2, 1, 1>>, <<0, 2, 0, 2>>>>, <<<<2, 1, 0, 2>>>>, <<>>>>),
   Make(T, <<Inf, Inf, 2>>, <<<<<<1, 1, 0, 1>>, <<1, 1, 1, 2>>>>, <<<<2, 2, 1, 1>>, <<0, 0, 0, 2>>>>, <<<<1, 2, 0, 2>>>>>>),
   Make(T, <<1, Inf, 2>>, <<<<<<2, 0, 1, 1>>, <<0, 1, 2, 1>>>>, <<<<1, 1, 0, 0>>, <<0, 2, 1, 2>>>>, <<>>>>)}

Both3 == {"weights", "labels", "total"}
Pushings == {{"weights"}, {"weights", "total"}, {"labels"}, {"weights", "labels"}, Both3}
Ops ==
  [op : {"push"}, to : {"initial", "final"}, flags : Pushings]
    \cup [op : {"encode"}, flags : {{"labels"}, {"weights"}, ENCODE_FLAGS}]
    \cup [op : {"eps_normalize", "project"}, side : {"input", "output"}]
    \cup [op : {"decode", "factor_weight", "synchronize", "rm_final_epsilon", "invert", "super_final", "arc_sum", "arc_unique", "disambiguate"}]

\* Bound: no call whose result would be endless.  Labels on one side of a loop wait
\* for ever; a loop's weights are never all factored; and a string of a loop has
\* no last arc.
Balanced(f) ==
  \A s \in States(f) : \A i \in DOMAIN f.arcs[s] :
    LET a == f.arcs[s][i] IN s \in Leads(Steps(f), {a.nextstate}) => (a.ilabel = EPSILON) = (a.olabel = EPSILON)
Allowed(f, what) ==
  CASE what.op = "decode" -> coder # <<>>
    [] coder # <<>> -> FALSE
    [] what.op = "synchronize" -> Balanced(f)
    [] what.op = "disambiguate" -> AcyclicF(f) /\ Acceptor(f) /\ ~\E a \in ArcsOf(f) : a.ilabel = EPSILON
    [] what.op \in {"factor_weight", "eps_normalize", "project"} -> AcyclicF(f)
    [] OTHER -> TRUE

Called(f, what) ==
  CASE what.op = "push"             -> Push(f, what.to, what.flags)
    [] what.op = "encode"           -> Encode(f, what.flags, <<>>).fst
    [] what.op = "decode"           -> Decode(f, coder.flags, coder.table)
    [] what.op = "factor_weight"    -> FactorWeight(f, "one", {"arcs"})
    [] what.op = "synchronize"      -> Synchronize(f)
    [] what.op = "eps_normalize"    -> EpsNormalize(f, what.side)
    [] what.op = "rm_final_epsilon" -> RmFinalEpsilon(f)
    [] what.op = "invert"           -> Invert(f)
    [] what.op = "project"          -> Project(f, what.side)
    [] what.op = "super_final"      -> SuperFinal(f)
    [] what.op = "arc_sum"          -> ArcSum(f)
    [] what.op = "arc_unique"       -> ArcUnique(f)
    [] what.op = "disambiguate"     -> Disambiguate(f, NO_STATE)

-----------------------------------------------------------------------------
(* What an automaton says: the pairs of strings its paths read and write,  *)
(* each with the least weight.                                             *)

LeastEach(told) == {p \in told : ~\E q \in told : q[1] = p[1] /\ q[2] = p[2] /\ Below(q[3], p[3])}

\* Bound: the arcs of a path.
MaxArcs == 40
Told(read, wrote, weight) == [read |-> read, wrote |-> wrote, weight |-> weight]
\* Where an arc may read and write in several ways, each at a weight of its own.
RelationOver(f, Spoken(_)) ==
  LET further(p) == UNION {{[at |-> a.nextstate, read |-> p.read \o t.read, wrote |-> p.wrote \o t.wrote,
                             weight |-> Added(p.weight, t.weight)] : t \in Spoken(a)} : a \in Seqs!ToSet(f.arcs[p.at])}
      short(ps) == {p \in ps : Len(p.read) + Len(p.wrote) <= MaxLabels}
      least(ps) == {p \in ps : ~\E q \in ps : Below(q.weight, p.weight) /\ [q EXCEPT !.weight = p.weight] = p}
      first == {[at |-> f.start, read |-> <<>>, wrote |-> <<>>, weight |-> 0]}
      upto[n \in 0 .. MaxArcs] ==
        IF n = 0 THEN [known |-> first, new |-> first]
        ELSE LET k == upto[n - 1] IN
             IF k.new = {} THEN k
             ELSE LET best == least(k.known \cup short(UNION {further(p) : p \in k.new}))
                  IN [known |-> best, new |-> best \ k.known]
      ended == {p \in upto[MaxArcs].known : f.final[p.at] # Inf}
  IN IF f.start = NO_STATE THEN {} ELSE LeastEach({<<p.read, p.wrote, Added(p.weight, f.final[p.at])>> : p \in ended})
Plainly(a) == {Told(Behind(<<>>, a.ilabel), Behind(<<>>, a.olabel), a.weight)}
Relation(f) == RelationOver(f, Plainly)

\* What a call makes of it.
Expected(what) ==
  CASE what.op = "invert" -> {<<p[2], p[1], p[3]>> : p \in said}
    [] what.op = "project" -> LeastEach({IF what.side = "input" THEN <<p[1], p[1], p[3]>> ELSE <<p[2], p[2], p[3]>> : p \in said})
    [] what.op = "push" /\ "total" \in what.flags /\ said # {} ->
         LET total == CHOOSE p \in said : ~\E q \in said : Below(q[3], p[3]) IN {<<p[1], p[2], p[3] - total[3]>> : p \in said}
    [] OTHER -> said

-----------------------------------------------------------------------------
(* Networks, of a root and two rules, and what one says: its root, with    *)
(* what a rule says in place of each call of it.                           *)

ROOT == 10
CALLS == {11, 12}
Roots ==
  {Make(T, <<Inf, Inf, 1>>, <<<<<<1, 1, 1, 1>>>>, <<<<2, 11, 1, 2>>>>, <<>>>>),
   Make(T, <<Inf, 0, 0>>, <<<<<<1, 11, 0, 1>>, <<2, 12, 1, 2>>>>, <<<<2, 11, 0, 2>>>>, <<>>>>),
   Make(T, <<1, Inf, Inf>>, <<<<<<1, 11, 1, 0>>, <<2, 2, 0, 1>>>>, <<<<1, 11, 0, 0>>>>, <<<<2, 12, 0, 2>>>>>>)}
FirstRules ==
  {Make(T, <<Inf, 2>>, <<<<<<2, 2, 1, 1>>>>, <<>>>>), Make(T, <<Inf, 1, 2>>, <<<<<<1, 1, 0, 1>>, <<2, 2, 0, 2>>>>, <<>>, <<>>>>),
   Make(T, <<Inf, Inf, 0>>, <<<<<<1, 12, 0, 1>>>>, <<<<2, 2, 0, 2>>>>, <<>>>>),
   Make(T, <<Inf, 0, 0>>, <<<<<<2, 2, 0, 1>>>>, <<<<1, 11, 1, 2>>>>, <<>>>>),
   Make(T, <<Inf, 0, 1>>, <<<<<<1, 11, 0, 1>>, <<2, 2, 0, 2>>>>, <<<<1, 1, 0, 2>>>>, <<<<2, 12, 0, 2>>>>>>)}
SecondRules ==
  {Make(T, <<1>>, <<<<<<1, 1, 1, 0>>>>>>), Make(T, <<Inf, 0>>, <<<<<<1, 1, 0, 1>>>>, <<>>>>), Empty(T),
   Make(T, <<0, 1>>, <<<<<<2, 2, 0, 1>>>>, <<<<1, 11, 0, 0>>>>>>)}
Labellings ==
  {Options(ROOT), EpsilonCalls(ROOT),
   [EpsilonCalls(ROOT) EXCEPT !.call = "both", !.return = "both", !.call_output = 7, !.return_label = 8],
   [EpsilonCalls(ROOT) EXCEPT !.call = "output", !.return = "input", !.call_output = 7, !.return_label = 8]}
Networks ==
  {Network(<<ROOT, 11, 12>>, <<r, a, b>>, opts) : r \in Roots, a \in FirstRules, b \in SecondRules, opts \in Labellings}

NetworkOps ==
  [op : {"replace_labels"}, labels : {{11}, {12}, {ROOT, 11, 12}}]
    \cup [op : {"replace_by"}, limits : [by : {"size"}, nstates : {2, 6}, narcs : {2, 8}, nnonterms : {1}]
                                          \cup [by : {"instances"}, ninstances : {1, 2}]]
    \cup [op : {"connect", "cyclic_dependencies"}]
NetworkCalled(net, what) ==
  CASE what.op = "replace_labels" -> ReplaceLabels(net, what.labels)
    [] what.op = "replace_by" -> ReplaceBy(net, what.limits)
    [] what.op = "connect" -> [net |-> ConnectNetwork(net), error |-> FALSE]
    [] what.op = "cyclic_dependencies" -> [net |-> WorkedOut(net), error |-> FALSE]
ToGo(net, what) ==
  CASE what.op = "replace_labels" -> what.labels \ {ROOT}
    [] what.op = "replace_by" /\ ~CyclicDependencies(CallPairs(net)) -> ChosenBy(net, what.limits) \ {ROOT}
    [] OTHER -> {}

\* An arc that calls says what is called, between the labels of a call and a return.
Between(net, a, t) ==
  LET opts == net.opts
  IN Told((IF EpsilonOnInput(opts.call) THEN <<>> ELSE Behind(<<>>, a.ilabel)) \o t[1]
             \o (IF EpsilonOnInput(opts.return) THEN <<>> ELSE Behind(<<>>, opts.return_label)),
          (IF EpsilonOnOutput(opts.call) THEN <<>> ELSE Behind(<<>>, opts.call_output)) \o t[2]
             \o (IF EpsilonOnOutput(opts.return) THEN <<>> ELSE Behind(<<>>, opts.return_label)),
          Added(a.weight, t[3]))
RECURSIVE Meaning(_, _)
Means(net, told, i) ==
  IF net.fsts[i] = DROPPED THEN {}
  ELSE RelationOver(net.fsts[i], LAMBDA a : LET c == CalledFst(net, a.olabel) IN
                                              IF c = 0 THEN Plainly(a) ELSE {Between(net, a, t) : t \in told[c]})
\* From nothing, as often as it says more.
Meaning(net, told) ==
  LET more == Once([i \in DOMAIN net.fsts |-> Means(net, told, i)])
  IN IF more = told THEN told ELSE Meaning(net, more)
Describes(net) == Meaning(net, [i \in DOMAIN net.fsts |-> {}])[Root(net)]

\* What is built by a recipe.
Operands ==
  {Make(T, <<Inf, 1>>, <<<<<<1, 1, 1, 1>>>>, <<>>>>), Make(T, <<1>>, <<<<<<2, 2, 0, 0>>>>>>), Empty(T),
   Make(T, <<0, Inf>>, <<<<<<1, 0, 0, 1>>>>, <<<<0, 2, 1, 0>>>>>>)}
RecipeOps == [op : {"union", "concat", "concat_onto"}, fst : Operands] \cup [op : {"closure"}, star : BOOLEAN]
RecipeCalled(r, what) ==
  CASE what.op = "union" -> UnionWith(r, what.fst)
    [] what.op = "concat" -> ConcatWith(r, what.fst)
    [] what.op = "concat_onto" -> ConcatOnto(r, what.fst)
    [] what.op = "closure" -> ClosureOf(r, what.star)
Joined(us, vs) ==
  LeastEach({x \in {<<u[1] \o v[1], u[2] \o v[2], Added(u[3], v[3])>> : u \in us, v \in vs} : Len(x[1]) + Len(x[2]) <= MaxLabels})
RECURSIVE Repeated(_, _)
Repeated(all, once) ==
  LET more == Once(LeastEach(all \cup Joined(all, once))) IN IF more = all THEN all ELSE Repeated(more, once)
Nothing == <<<<>>, <<>>, 0>>
Built0(what) ==
  LET told == Relation(what.fst) IN
  CASE what.op = "union" -> LeastEach(said \cup told)
    [] now.recipe.start = NO_STATE -> told
    [] what.op = "concat" -> Joined(said, told)
    [] OTHER -> Joined(told, said)
Becomes(what) ==
  IF what.op # "closure" THEN Built0(what) ELSE IF what.star THEN Repeated({Nothing}, said) ELSE Repeated(said, said)

-----------------------------------------------------------------------------
(* What is minimized, and compared.                                        *)

\* Unweighted acceptors of four states.
Plain(finals, rows) == Make(T, finals, [s \in DOMAIN rows |-> [i \in DOMAIN rows[s] |-> <<rows[s][i][1], rows[s][i][1], 0, rows[s][i][2]>>]])
Cyclic ==
  {Plain(<<e, Inf, 0, 0>>, <<r0, r1, r2, r3>>) :
     e \in {Inf, 0}, r0 \in {<<<<1, 1>>, <<2, 2>>>>, <<<<1, 2>>, <<2, 3>>>>}, r1 \in {<<<<1, 2>>>>, <<<<1, 3>>, <<2, 0>>>>},
     r2 \in {<<<<1, 3>>>>, <<<<1, 2>>, <<2, 1>>>>}, r3 \in {<<<<1, 2>>>>, <<<<2, 1>>, <<1, 3>>>>}}
Acyclic ==
  {Plain(<<Inf, e, e, 0>>, <<r0, r1, r2, <<>>>>) :
     e \in {Inf, 0}, r0 \in {<<<<1, 1>>, <<2, 2>>>>, <<<<1, 2>>, <<2, 3>>>>}, r1 \in {<<<<1, 2>>, <<2, 3>>>>, <<<<1, 3>>>>},
     r2 \in {<<<<1, 3>>>>, <<>>}}
Weighted ==
  {Make(T, <<Inf, 1, e, 0>>, <<<<<<1, o, 0, 1>>, <<2, 2, 1, 2>>>>, <<<<1, 1, 1, 3>>>>, r2, r3>>) :
     e \in {Inf, 2}, o \in {1, 2}, r2 \in {<<<<1, 1, 0, 3>>>>, <<<<1, 2, 1, 3>>, <<2, 2, 0, 0>>>>}, r3 \in {<<>>, <<<<2, 2, 1, 3>>>>}}
Nondeterministic == Plain(<<Inf, Inf, 0>>, <<<<<<1, 1>>, <<1, 2>>>>, <<<<2, 2>>>>, <<<<1, 2>>>>>>)
Doubled == Plain(<<Inf, Inf, 0, 0>>, <<<<<<1, 1>>, <<1, 2>>, <<1, 3>>>>, <<<<1, 2>>>>, <<>>, <<>>>>)
\* Where two states lead by one label to states that the partition tells apart later.
Diverging ==
  Plain([s \in 1 .. 8 |-> IF s = 8 THEN 0 ELSE Inf],
        <<<<<<1, 5>>, <<2, 6>>>>, <<<<3, 7>>>>, <<<<4, 7>>>>, <<<<1, 1>>>>, <<<<1, 2>>>>,
          <<<<1, 3>>, <<1, 4>>>>, <<<<1, 4>>>>, <<>>>>)
MCNondeterministic == {[fst |-> Diverging, allow_nondet |-> TRUE]}
MCMinimizations ==
  [fst : Cyclic \cup Acyclic \cup Weighted, allow_nondet : {FALSE}]
    \cup [fst : {Nondeterministic, Doubled}, allow_nondet : BOOLEAN]

\* With an automaton in which a start is on a cycle, and its own.
Compared ==
  {Plain(<<e, Inf, 0>>, <<r0, r1, r2>>) :
     e \in {Inf, 0}, r0 \in {<<<<1, 1>>>>, <<<<1, 1>>, <<2, 2>>>>, <<<<2, 1>>, <<1, 1>>>>},
     r1 \in {<<<<1, 2>>>>, <<>>}, r2 \in {<<>>, <<<<1, 2>>>>, <<<<1, 1>>, <<2, 2>>>>}}
  \cup {Make(T, <<Inf, e, e>>, <<<<<<1, 1, w, 1>>, <<2, 2, 1, 2>>>>, <<<<1, 1, v, 1>>>>, <<<<1, 1, 1, 2>>>>>>) :
           e \in {0, 1}, w \in {0, 1}, v \in {0, 1}}
  \cup {Nondeterministic, Empty(T)}
  \cup {Make(T, <<1>>, <<<<<<1, 1, 0, 0>>>>>>), Make(T, <<1, 1>>, <<<<<<1, 1, 0, 1>>>>, <<<<1, 1, 0, 1>>>>>>)}

Silent3 == [from : 0 .. 2, ilabel : {0}, olabel : {0}, weight : {1}, to : 0 .. 2]
Spoken3 == {[from |-> 1, ilabel |-> 1, olabel |-> 2, weight |-> 0, to |-> 2],
            [from |-> 2, ilabel |-> 0, olabel |-> 1, weight |-> 2, to |-> 1],
            [from |-> 2, ilabel |-> 1, olabel |-> 2, weight |-> 1, to |-> 2]}
MCAsked ==
  [fst : {[start |-> start, arcs |-> silent \cup spoken, final |-> [s \in 0 .. 2 |-> IF s = 2 THEN 1 ELSE 50]] :
            start \in {0, 1}, silent \in {x \in SUBSET Silent3 : Cardinality(x) \in 1 .. 3 /\ \A a \in x : a.from # a.to \/ a.to = 1},
            spoken \in {Spoken3, {CHOOSE a \in Spoken3 : a.from = 1}}}
         \cup {[start |-> -1, arcs |-> Silent3, final |-> [s \in 0 .. 2 |-> 1]]},
   connect : BOOLEAN]

E == INSTANCE RmEpsilon WITH
  zero <- 50, one <- 0, plus <- EpsilonPlus, times <- EpsilonTimes, Asked <- MCAsked,
  arcs <- links, final <- ends, done <- removed, left <- live

-----------------------------------------------------------------------------
IdleRewriting == now = <<>> /\ said = {} /\ last = <<>> /\ coder = <<>> /\ calls = 0
IdleRemoving ==
  before = <<>> /\ links = {} /\ ends = <<>> /\ todo = {} /\ connected = FALSE /\ removed = FALSE /\ live = {}
IdleMinimizing ==
  /\ asked = <<>> /\ work = <<>> /\ table = <<>> /\ partition = <<>>
  /\ active = <<>> /\ entering = {} /\ label = NULL_ID /\ height = 0 /\ phase = "idle"

WeightsInit ==
  /\ \E sample \in Samples :
       LET k == sample.kind
       IN \E a \in sample.values \cup {One(k), Zero(k)}, b, c \in sample.values : now = <<k, a, b, c>>
  /\ said = {} /\ last = <<>> /\ coder = <<>> /\ calls = 0
ComparisonInit == now \in Compared \X Compared /\ said = {} /\ last = <<>> /\ coder = <<>> /\ calls = 0
RewritingInit ==
  /\ \/ now \in Automata /\ calls = 1
     \/ now \in Chosen /\ calls = 2
  /\ said = Relation(now) /\ last = [op |-> "none"] /\ coder = <<>>

\* Bound: a second call on the networks of one labelling.
NetworkInit ==
  /\ now \in Networks /\ calls = IF now.opts = EpsilonCalls(ROOT) THEN 2 ELSE 1
  /\ said = Describes(now) /\ last = [op |-> "none", error |-> FALSE] /\ coder = <<>>
RecipeInit == now = NewRecipe(T) /\ said = {} /\ last = [op |-> "none"] /\ coder = <<>> /\ calls = 3

MCInit ==
  \/ kind = "weights" /\ WeightsInit /\ IdleRemoving /\ IdleMinimizing
  \/ kind = "comparison" /\ ComparisonInit /\ IdleRemoving /\ IdleMinimizing
  \/ kind = "rewriting" /\ RewritingInit /\ IdleRemoving /\ IdleMinimizing
  \/ kind = "network" /\ NetworkInit /\ IdleRemoving /\ IdleMinimizing
  \/ kind = "recipe" /\ RecipeInit /\ IdleRemoving /\ IdleMinimizing
  \/ kind = "epsilons" /\ E!Init /\ IdleRewriting /\ IdleMinimizing
  \/ kind = "minimize" /\ MInit /\ IdleRewriting /\ IdleRemoving

\* What was encoded is decoded next, and each string of a projection made the
\* string of one path, beyond the calls there are.
Open ==
  {what \in Ops : /\ calls > 0 \/ what.op = "decode" \/ (what.op = "disambiguate" /\ last.op = "project")
                  /\ ~now.error /\ Allowed(now, what)}
Call ==
  \E what \in Open :
    /\ now' = Called(now, what) /\ said' = Expected(what) /\ last' = what
    /\ coder' = IF what.op = "encode" THEN [flags |-> what.flags, table |-> Encode(now, what.flags, <<>>).table] ELSE <<>>
    /\ calls' = IF calls > 0 THEN calls - 1 ELSE 0

NetworkCall ==
  \E what \in NetworkOps :
    /\ calls > 0 /\ calls' = calls - 1
    /\ \E answer \in {NetworkCalled(now, what)} : now' = answer.net /\ last' = [error |-> answer.error, chosen |-> ToGo(now, what)] @@ what
    /\ UNCHANGED <<said, coder>>
RecipeCall ==
  \E what \in RecipeOps :
    /\ calls > 0 /\ calls' = calls - 1
    /\ now' = RecipeCalled(now, what) /\ said' = Becomes(what) /\ last' = [op |-> what.op]
    /\ UNCHANGED coder

Minimizing == kind = "minimize" /\ MNext /\ UNCHANGED <<kind, rewriting, removing>>

MCNext ==
  \/ kind = "rewriting" /\ Call /\ UNCHANGED <<kind, mvars, removing>>
  \/ kind = "network" /\ NetworkCall /\ UNCHANGED <<kind, mvars, removing>>
  \/ kind = "recipe" /\ RecipeCall /\ UNCHANGED <<kind, mvars, removing>>
  \/ kind = "epsilons" /\ E!Next /\ UNCHANGED <<kind, mvars, rewriting>>
  \/ Minimizing

MCSpec == MCInit /\ [][MCNext]_<<kind, rewriting, removing, mvars>>

MinimizeSpec ==
  /\ kind = "minimize" /\ MInit /\ IdleRewriting /\ IdleRemoving
  /\ [][Minimizing]_<<kind, rewriting, removing, mvars>>
CompareSpec ==
  /\ kind = "comparison" /\ ComparisonInit /\ IdleRemoving /\ IdleMinimizing
  /\ [][FALSE]_<<kind, rewriting, removing, mvars>>

-----------------------------------------------------------------------------
(* Properties.                                                             *)

\* The laws that weight.rs asks of a semiring, at its zero, its one, and what lies
\* between, those of them that a kind says it keeps: sums and products associate,
\* zero and one do what they say, sums commute, products distribute on the sides
\* that are named, an idempotent sum and a path's are one of their terms, a quotient
\* multiplied is what was divided, reversing turns products round, and an adder
\* sums.
WeightsKeepTheirLaws ==
  kind = "weights" =>
    LET k == now[1]  a == now[2]  b == now[3]  c == now[4]
        q == ReverseKind(k)
        p == Times(k, a, b)
    IN /\ Axioms(k, a, b, c) /\ DivisionAxioms(k, a, b)
       /\ Same(k, Reverse(q, Reverse(k, a)), a)
       /\ Same(q, Reverse(k, p), Times(q, Reverse(k, b), Reverse(k, a)))
       /\ Same(q, Reverse(k, Plus(k, a, b)), Plus(q, Reverse(k, a), Reverse(k, b)))
       /\ ApproxEqual(k, Add(k, Add(k, Add(k, Zero(k), a), b), c), Plus(k, Plus(k, a, b), c))

\* While rm_epsilon rewrites one state after the other, every state accepts what it
\* did; at the end no epsilon is left: see RmEpsilon.
EpsilonsLeaveNoTrace == kind = "epsilons" => E!EpsilonsLeaveNoTrace

\* Two paths from one of the states read the same and write differently.
Ambiguous(f) ==
  \E s \in States(f) :
    LET told == Relation([f EXCEPT !.start = s, !.final = [x \in States(f) |-> 0]])
        read == {p[1] : p \in told}
    IN \E x \in told, y \in told : x[1] = y[1] /\ x[2] # y[2]

\* A network says the same however much of it has been expanded, and also where an
\* expansion was refused half-way; its expansion, refused just where what the root
\* calls comes back to what called it, says that too, reached by stacks of calls.
NetworksSayTheSame ==
  kind = "network" =>
    LET left == FstPairs(now)  recursive == \E i \in {Root(left)} \cup Onward(CallPairs(left), Root(left)) : i \in Onward(CallPairs(left), i)
    IN /\ Describes(now) = said
       /\ ReplaceFails(left) = recursive
       /\ ~recursive => Relation(Replace(left)) = said

\* And what a recipe is expanded to says what was put together.
RecipesSayWhatIsBuilt == kind = "recipe" => Relation(ExpandRecipe(now)) = said

\* Whatever rewrites an automaton leaves it saying what it is to say, at the same
\* weights, through one call and through the next, which meets what the first made
\* of it; only epsilon normalization refuses, and only where some state, useful or
\* not, writes two strings for one that it reads.
RewritingsSayTheSame ==
  /\ kind = "rewriting" /\ last.op \notin {"none", "encode"} =>
       IF now.error THEN last.op = "eps_normalize" /\ Ambiguous(IF last.side = "input" THEN now ELSE Invert(now))
       ELSE Relation(now) = said
  /\ NetworksSayTheSame /\ RecipesSayWhatIsBuilt

\* And leaves it in the form it is called for.
Settled(f, reverse) ==
  LET distance == Distances(f, reverse)
      useful == Leads(Steps(f), {f.start}) \cap Coaccessible(f)
  IN \A s \in useful \ (IF reverse THEN {f.start} ELSE {}) : distance[s] = 0
OneSided(f, side(_)) ==
  \A a \in ArcsOf(f) : side(a) = EPSILON =>
    \A s \in Leads(Steps(f), {a.nextstate}) : \A i \in DOMAIN f.arcs[s] : side(f.arcs[s][i]) = EPSILON
Reads(a) == a.ilabel
Writes(a) == a.olabel
Waits(a) == IF BecameAnArc(a) /\ EPSILON \in {a.ilabel, a.olabel} THEN EPSILON ELSE 1

\* What a bit of an automaton means.
Has(f, b) ==
  CASE b = "ACCESSIBLE" -> AccessibleF(f)      [] b = "CO_ACCESSIBLE" -> CoAccessibleF(f)
    [] b = "STRING" -> IsString(f)             [] b = "ACCEPTOR" -> Acceptor(f)
    [] b = "I_DETERMINISTIC" -> Deterministic(f) [] b = "NO_I_EPSILONS" -> NoIEpsilons(f)
    [] b = "ACYCLIC" -> AcyclicF(f)            [] b = "UNWEIGHTED" -> ~WeightedF(f)
    [] b = "INITIAL_ACYCLIC" -> InitialAcyclic(f) [] b = "INITIAL_CYCLIC" -> ~InitialAcyclic(f)

\* After an expansion that nothing refused, of a network whose calls do not recurse
\* somewhere, nothing that was named is called; what is chosen by its size has that
\* size, where each automaton has one end at most; connecting leaves nothing useless,
\* where the calls had not been worked out before; the bits claimed for an expansion
\* are true; and a component is trivial just where nothing in it calls its own.
OneEnd(net) == \A i \in Present(net) : Cardinality(Finals(net.fsts[i])) <= 1
Calls(net) == {net.labels[p[2]] : p \in CallPairs(net)}
NetworksTakeTheirForm ==
  kind = "network" =>
    LET left == FstPairs(now)
        recursive == CyclicDependencies(CallPairs(now))
    IN /\ last.error => recursive
       /\ last.op # "none" /\ ~last.error => Calls(now) \cap last.chosen = {}
       /\ last.op = "replace_by" /\ ~last.error /\ last.limits.by = "size" /\ OneEnd(now) =>
            \A l \in last.chosen : Small(last.limits, Stats(now)[Named(now, l)])
       /\ last.op = "connect" /\ calls > 0 => Connected(now)
       /\ ~ReplaceFails(left) => \A b \in ReplaceProperties(left) : Has(Replace(left), b)
       /\ \A i \in DOMAIN now.fsts :
            "non trivial" \in SccProperties(now, Scc(now, i)) <=> i \in Onward(Dependencies(now), i)

\* The form is that of the call: pushed weights are at one, from every state on or up
\* to it; encoded labels and weights are gone from the arcs; factored weights are
\* one; what one side waits for comes at the end; epsilons come last; a super-final
\* state is the only one; no two arcs are alike; and no string has two paths.
RewritingsTakeTheirForm ==
  NetworksTakeTheirForm /\
  (kind = "rewriting" /\ now # <<>> /\ ~now.error =>
    CASE last.op = "push" /\ "labels" \notin last.flags -> Settled(now, last.to = "initial")
      [] last.op = "encode" ->
           \A a \in ArcsOf(now) : /\ "labels" \in last.flags => a.ilabel = a.olabel
                                  /\ "weights" \in last.flags => a.weight = 0
      [] last.op = "factor_weight" -> \A a \in ArcsOf(now) : a.weight = 0
      [] last.op = "synchronize" -> OneSided([now EXCEPT !.arcs = [s \in States(now) |-> SelectSeq(now.arcs[s], BecameAnArc)]], Waits)
      [] last.op = "eps_normalize" -> IF last.side = "input" THEN OneSided(now, Reads) ELSE OneSided(now, Writes)
      [] last.op = "super_final" -> Cardinality(Finals(now)) <= 1
      [] last.op = "arc_sum" -> \A s \in States(now) : \A i, j \in DOMAIN now.arcs[s] :
                                  i # j => [now.arcs[s][i] EXCEPT !.weight = 0] # [now.arcs[s][j] EXCEPT !.weight = 0]
      [] last.op = "disambiguate" ->
           /\ \A p \in CommonFuture(now) : p[1] = p[2]
           /\ \A s \in States(now) : \A i, j \in DOMAIN now.arcs[s] :
                i # j => now.arcs[s][i].ilabel # now.arcs[s][j].ilabel \/ now.arcs[s][i].nextstate # now.arcs[s][j].nextstate
      [] OTHER -> TRUE)

\* The states that are equivalent: alike at their ends and, label by label, where they
\* lead, as often as there are states.
Equivalence(f) ==
  LET alike[n \in 0 .. NumStates(f)] ==
        IF n = 0 THEN {p \in States(f) \X States(f) : f.final[p[1]] = f.final[p[2]]}
        ELSE LET known == alike[n - 1]
                 goes(s, t) == \A a \in Seqs!ToSet(f.arcs[s]) : \E b \in Seqs!ToSet(f.arcs[t]) :
                                 a.ilabel = b.ilabel /\ <<a.nextstate, b.nextstate>> \in known
             IN {p \in known : goes(p[1], p[2]) /\ goes(p[2], p[1])}
  IN alike[NumStates(f)]

\* The lists of a partition: each element is in one of its class's two, once, the
\* links lead both ways, and the sizes are theirs.
PartitionHolds(p) ==
  /\ \A c \in DOMAIN p.classes :
       LET no == IterClass(p, c)  yes == ListFrom(p, p.classes[c].yes_head)
       IN /\ Cardinality(Seqs!ToSet(no \o yes)) = Len(no \o yes)
          /\ Seqs!ToSet(no \o yes) = {e \in DOMAIN p.elements : ClassId(p, e) = c}
          /\ p.classes[c].size = Len(no \o yes) /\ p.classes[c].yes_size = Len(yes)
          /\ \A list \in {no, yes} : \A i \in DOMAIN list :
               p.elements[list[i]].prev = IF i = 1 THEN NULL_ID ELSE list[i - 1]
          /\ yes # <<>> <=> c \in Seqs!ToSet(p.visited)
          /\ \A i \in DOMAIN yes : p.elements[yes[i]].yes = p.counter
  /\ \A e \in DOMAIN p.elements : ClassId(p, e) \in DOMAIN p.classes

\* In the middle of a refinement, with states taken out of their classes and classes
\* still to be split by, the partition's lists are whole and no two equivalent states
\* are apart; when nothing is left to split by, only equivalent ones are together.
ClassesAreRight ==
  kind = "minimize" /\ phase \in {"hopcroft", "splitting", "revuz"} =>
    LET same(p) == ClassId(partition, p[1]) = ClassId(partition, p[2])
    IN /\ PartitionHolds(partition)
       /\ \A p \in Equivalence(work) : same(p)
       /\ (phase = "hopcroft" /\ active = <<>>) \/ (phase = "revuz" /\ height > NumStates(work)) =>
            \A p \in States(work) \X States(work) : same(p) => p \in Equivalence(work)

\* "Minimizing never changes what the FST says, and never makes it bigger": it is
\* refused only for what is not deterministic, and of an acceptor no two states that
\* are left are equivalent, whatever was pushed and encoded on the way.
Minimal == \A p \in Equivalence(work) : p[1] = p[2]
MinimizingSaysTheSame ==
  kind = "minimize" /\ phase = "done" =>
    IF work.error THEN ~Deterministic(asked.fst)
    ELSE /\ Relation(work) = Relation(asked.fst)
         /\ Acceptor(asked.fst) => NumStates(work) <= NumStates(asked.fst)
         /\ Acceptor(asked.fst) /\ Deterministic(asked.fst) => Minimal

\* "Minimizing never changes what the FST says": of one that is not deterministic
\* too, where that is allowed.
MinimizingKeepsTheLanguage ==
  kind = "minimize" /\ phase = "done" /\ ~work.error => Relation(work) = Relation(asked.fst)

\* Whether two deterministic acceptors are equivalent is answered by what they accept,
\* except that it is not asked here of weighted ones with a start on a cycle; no
\* isomorphism is missed, and none is found between automata that say different
\* things; and those that are equal are isomorphic, those isomorphic equivalent.
ComparisonsAnswerRight ==
  kind = "comparison" =>
    LET f == now[1]  g == now[2]
        exact == (~WeightedF(f) /\ ~WeightedF(g)) \/ (InitialAcyclic(f) /\ InitialAcyclic(g))
    IN /\ \E answer \in {Isomorphic(f, g)} : /\ Equal(f, g) => answer # "no"
                                            /\ answer = "yes" => Relation(f) = Relation(g)
       /\ \E answer \in {Equivalent(f, g)} :
            /\ answer = "refused" <=> f = Nondeterministic \/ g = Nondeterministic
            /\ exact /\ answer # "refused" => (answer = "yes") = (Relation(f) = Relation(g))

\* Equivalence is whether both "accept the same strings at the same weights", of
\* those with a start on a cycle too.
EquivalentIsExact ==
  kind = "comparison" =>
    LET f == now[1]  g == now[2] IN
    Equivalent(f, g) \in {"refused", IF Relation(f) = Relation(g) THEN "yes" ELSE "no"}
============================================================================
