------------------------------ MODULE MCCompose ------------------------------
(***************************************************************************)
(* One part per behaviour.  Composition, with every filter and stack of    *)
(* filters and each side matched, of small automata full of epsilons,      *)
(* where the outer label of an arc names it, so that what a path reads and *)
(* writes tells which two paths made it.  The index that looking ahead     *)
(* asks, over every small automaton, with the sets of intervals and the    *)
(* sums it rests on.  The matchers, asked about two states in any order,   *)
(* the search left at any point, cloned, given other labels to take as     *)
(* epsilon or asked how urgent they are in between.  The three caches that *)
(* keep what an automaton built on demand has expanded: in three states, 0 *)
(* and 1 point at each other, so that their expansions nest in each        *)
(* other's and in their own; 2 is discovered last, and the arena's blocks  *)
(* hold two arcs.                                                          *)
(***************************************************************************)
EXTENDS Compose, FiniteSets

CONSTANT Special

VARIABLES
  part,  \* "compose", "match" or "expand"
  over, kind, inner, state, has, match, asked, weight, index, found,
  at,    \* the state the user of the matcher has set, or NoState
  searching,
  got    \* what the search has answered so far

VARIABLES  \* the cache driven, or "None", and its variables: see ExpanderCache and ArcArenaStateStore
  cache, scratch, stack, known, iter, panics, table, boxes, views,
  job, retired, current, start, firstBlockSize, totalSize, pushes, issued, epoch

matchers == <<over, kind, inner, state, has, match, asked, weight, index, found, at, searching, got>>

Leads(n, i, o) == [next |-> n, ieps |-> i, oeps |-> o]
Row(w, as)   == [final |-> w, arcs |-> as]

ExpanderAnswers ==
  [s \in 0 .. 2 |->
     CASE s = 0 -> {Row("0", <<Leads(1, TRUE, TRUE)>>),
                    Row("0", <<Leads(1, FALSE, TRUE), Leads(0, TRUE, FALSE), Leads(0, TRUE, TRUE)>>)}
       [] s = 1 -> {Row("w", <<Leads(2, FALSE, TRUE)>>)}
       [] s = 2 -> {Row("w", <<>>)}]

Vector == INSTANCE ExpanderCache WITH Dense <- TRUE,
            NumStates <- 3, Weight <- {"0", "w"}, Zero <- "0", Answers <- ExpanderAnswers,
            Start <- 0, MaxDepth <- 3, MaxPanics <- 1
Hash   == INSTANCE ExpanderCache WITH Dense <- FALSE,
            NumStates <- 3, Weight <- {"0", "w"}, Zero <- "0", Answers <- ExpanderAnswers,
            Start <- 0, MaxDepth <- 3, MaxPanics <- 1
Store  == INSTANCE ArcArenaStateStore WITH BlockSize <- 2, MaxRetained <- 4,
            MaxReserve <- 3, MaxPushes <- 20, MaxRuns <- 12,
            NumStates <- 3, Weight <- {"0", "w"}, Zero <- "0", Answers <- ExpanderAnswers,
            Start <- 0, MaxDepth <- 3, MaxPanics <- 1

ASSUME ExpanderSetup == Vector!ExpandAssumption

arena  == <<job, retired, current, start, firstBlockSize, totalSize, pushes, issued, epoch>>
caches == <<cache, scratch, stack, known, iter, panics, table, boxes, views,
            job, retired, current, start, firstBlockSize, totalSize, pushes, issued, epoch>>

M == INSTANCE ImplicitMatcher

Eps     == M1!Epsilon
NoState == M1!NoState

-----------------------------------------------------------------------------
(* The automata that are composed.                                         *)

ByLabel(S, L(_)) == SetToSortSeq(S, LAMBDA a, b : L(a) < L(b) \/ (L(a) = L(b) /\ a.nextstate < b.nextstate))

\* An arc that meets the other side with label, and is named on its own side.
Arc1(s, label, next) == [ilabel |-> 100 * s + 10 * label + next, olabel |-> label,
                         weight |-> 3 * s + label + 2 * next, nextstate |-> next]
Arc2(s, label, next) == [ilabel |-> label, olabel |-> 100 * s + 10 * label + next,
                         weight |-> 3 * s + label + 2 * next, nextstate |-> next]

Out(a) == a.olabel
In(a)  == a.ilabel

\* Zero to one to two, and a way round one.
Chain(Arc(_, _, _), On(_), ones, twos, rounds, finals) ==
  {[start |-> 0, final |-> [s \in fin |-> s + 1],
    arcs  |-> [s \in 0 .. 2 |->
       ByLabel(CASE s = 0 -> {Arc(0, l, 1) : l \in one} \cup {Arc(0, l, 2) : l \in round}
                 [] s = 1 -> {Arc(1, l, 2) : l \in two}
                 [] s = 2 -> {}, On)]] :
   one \in ones, two \in twos, round \in rounds, fin \in finals}

Labels == {Eps, 1}

Big(Arc(_, _, _), On(_)) ==
  Chain(Arc, On, SUBSET Labels, SUBSET Labels, {{}, {Eps}, {1}}, {{2}, {1, 2}})

\* The last step an epsilon or none at all.
Small(Arc(_, _, _), On(_)) ==
  Chain(Arc, On, {{Eps}, {1}, Labels}, SUBSET Labels, {{}}, {{1, 2}})

\* An epsilon and a label round and round.
Ring(Arc(_, _, _), On(_)) ==
  [start |-> 0, final |-> [s \in {0} |-> 1],
   arcs  |-> [s \in 0 .. 2 |-> ByLabel({Arc(s, IF s = 0 THEN 1 ELSE Eps, (s + 1) % 3)}, On)]]

NoStart(fst) == [fst EXCEPT !.start = None]

Pick(firsts, seconds, filters, matches) ==
  [first : firsts, second : seconds, filter : filters, match : matches, stack : {{}}, matchers : {<<>>}]

Plainly ==
  Pick(Big(Arc1, Out), Small(Arc2, In), {"null", "trivial", "sequence", "match", "no match"}, {"both"})
  \cup Pick(Big(Arc1, Out), Small(Arc2, In), {"match"}, {"input", "output"})
  \cup Pick(Small(Arc1, Out), Big(Arc2, In), {"sequence", "alt sequence", "match"}, {"both", "output"})
  \cup Pick({Ring(Arc1, Out), NoStart(Ring(Arc1, Out))}, {Ring(Arc2, In)}, Filters, {"both", "input", "output"})

\* An arc that says nothing on its own side, and one that leads nowhere by its weight.
Quiet1(s, label, next) == [Arc1(s, label, next) EXCEPT !.ilabel = IF s = 1 THEN Eps ELSE @]
Quiet2(s, label, next) ==
  [Arc2(s, label, next) EXCEPT !.olabel = IF s = 1 THEN Eps ELSE @, !.weight = IF s = 0 /\ label = 2 THEN Zero ELSE @]

\* The side that looks ahead has epsilons, or one of two labels further on; the
\* other has labels only.
Ahead(Arc(_, _, _), On(_)) ==
  Chain(Arc, On, {{Eps}, {Eps, 1}, {1}}, {{Eps, 2}, {1, 2}, {2}}, {{}, {Eps}}, {{2}, {1, 2}})

Behind(Arc(_, _, _), On(_)) ==
  Chain(Arc, On, {{1}, {2}, {1, 2}}, {{}, {1}, {2}}, {{}}, {{2}, {1, 2}})

\* Both have epsilons.
Between(Arc(_, _, _), On(_)) ==
  Chain(Arc, On, {{Eps}, {1}, Labels}, {{Eps}, {1}, Labels}, {{}}, {{2}, {1, 2}})

\* Of two matchers only the one of the side that looks ahead is asked.
Deaf == [kind |-> "trivial", sides |-> {}, flags |-> {}]

ByIndex(fst, side, flags) ==
  [kind |-> "label", sides |-> {side}, flags |-> flags, index |-> LabelReachable(fst, side)]
ByArc(flags) == [kind |-> "arc", sides |-> {"input", "output"}, flags |-> flags]

DEFAULT_LABEL_LOOKAHEAD_FLAGS == {"epsilons", "weight", "prefix", "non epsilon prefix"}

\* What the matchers that need no index can be asked; with prefixes they count epsilons.
ArcFlags == {{"epsilons", "non epsilons"}, {"epsilons", "non epsilons", "weight"},
             {"epsilons", "non epsilons", "weight", "prefix"}}

Every == {"look", "weights", "labels"}

Pair(first, second, filters, st, answering) ==
  {[first |-> first, second |-> second, filter |-> f, match |-> m, stack |-> st, matchers |-> answering] :
     f \in filters, m \in {"both", "input", "output"}}

\* compose_lookahead; the whole stack over an index, of either side; and over none.
LookAheads ==
  UNION {Pair(a, b, {"sequence"}, {"look"}, <<ByIndex(a, "output", DEFAULT_LABEL_LOOKAHEAD_FLAGS), Deaf>>) :
           a \in Ahead(Arc1, Out), b \in Behind(Arc2, In)}
  \cup UNION {Pair(a, b, {"sequence"}, Every,
                   <<ByIndex(a, "output", DEFAULT_LABEL_LOOKAHEAD_FLAGS \cup {"non epsilons"}), Deaf>>) :
                a \in Ahead(Arc1, Out), b \in Behind(Quiet2, In)}
  \cup UNION {Pair(a, b, {"alt sequence"}, Every, <<Deaf, ByIndex(b, "input", DEFAULT_LABEL_LOOKAHEAD_FLAGS)>>) :
                a \in Behind(Arc1, Out), b \in Ahead(Arc2, In)}
  \cup UNION {Pair(a, b, {"sequence", "match"}, Every, <<ByArc(flags), Deaf>>) :
                a \in Between(Arc1, Out), b \in Between(Quiet2, In), flags \in ArcFlags}
  \cup UNION {Pair(a, b, {"sequence"}, Every, <<Deaf, ByArc(flags)>>) :
                a \in Between(Quiet1, Out), b \in Between(Arc2, In), flags \in ArcFlags}

MCSetups == Plainly \cup LookAheads

-----------------------------------------------------------------------------
(* The automata that are searched.                                         *)

\* The arc's own side carries the special label too, or another.
Asked(side, label, next) ==
  LET own == IF label = Special /\ next = 0 THEN Special ELSE 7 IN
  [ilabel |-> IF side = "input" THEN label ELSE own, olabel |-> IF side = "input" THEN own ELSE label,
   weight |-> <<10 * label + next>>, nextstate |-> next]

Listing(side, S) ==
  ByLabel({Asked(side, p[1], p[2]) : p \in S}, LAMBDA a : IF side = "input" THEN a.ilabel ELSE a.olabel)

Over(side, loop, flags, here, there, last) ==
  [arcs |-> [s \in 0 .. 2 |-> Listing(side, CASE s = 0 -> here [] s = 1 -> there [] s = 2 -> last)],
   side |-> side, both |-> FALSE, loop |-> loop, multi |-> <<>>, flags |-> flags]

\* Arcs that read what they write.
Accepting(o) ==
  LET reads(arc) == [arc EXCEPT !.olabel = arc.ilabel] IN
  [o EXCEPT !.arcs = [s \in DOMAIN @ |-> [i \in DOMAIN @[s] |-> reads(@[s][i])]]]

RestOvers(sides) ==
  {Over(side, FALSE, {}, here, there, {}) : side \in sides, here \in SUBSET {<<0, 0>>, <<1, 0>>, <<1, 1>>, <<Special, 0>>, <<Special, 1>>},
   there \in {{}, {<<1, 0>>}, {<<Special, 1>>}, {<<1, 1>>, <<Special, 0>>}}}

\* Failure arcs lead to a state further on; at the last they may lead back to it.
PhiOvers(sides) ==
  {Over(side, TRUE, {}, here, there, last) : side \in sides,
   here  \in {{<<1, 1>>}, {<<Special, 1>>}, {<<Special, 2>>}, {<<0, 1>>, <<1, 2>>, <<Special, 1>>}},
   there \in {{}, {<<1, 0>>, <<1, 1>>}, {<<Special, 2>>}, {<<0, 1>>, <<1, 1>>, <<Special, 2>>}},
   last  \in {{}, {<<1, 1>>}, {<<Special, 2>>}, {<<1, 0>>, <<Special, 2>>}}}

MultiOvers(side, flags) ==
  {Over(side, FALSE, f, here, there, {}) : f \in flags,
   here \in SUBSET {<<0, 0>>, <<2, 0>>, <<2, 1>>, <<3, 1>>}, there \in {{}, {<<0, 1>>, <<1, 1>>}, {<<3, 0>>}}}

\* Hashed arcs come in no order.
Backwards(o) == [o EXCEPT !.arcs = [s \in DOMAIN @ |-> Reverse(@[s])]]

Rewrites(New(_, _), overs(_)) ==
  \/ \E o \in overs({"input"}), mode \in {"always", "never"} : New(o, mode)
  \/ \E o \in overs({"output"}) : New(o, "auto")
  \/ \E o \in overs({"input"}) : New(Accepting(o), "auto")

MatchInit ==
  \/ Rewrites(M!rho_new, RestOvers)
  \/ Rewrites(M!sigma_new, RestOvers)
  \/ Rewrites(M!phi_new, PhiOvers)
  \/ \E o \in MultiOvers("input", {{"list", "loop"}, {"list"}}) \cup MultiOvers("output", {{"list", "loop"}, {"loop"}}) : M!multi_new(o)
  \/ \E side \in {"input", "output"} : \E o \in MultiOvers(side, {{}}) :
       M!explicit_new(o) \/ M!hash_new(o) \/ M!hash_new(Backwards(o))

Asks == {NoLabel, Eps, 1, 2}

States(k) == IF k = "phi" THEN 0 .. 2 ELSE 0 .. 1

-----------------------------------------------------------------------------
(* What looking ahead rests on: automata with and without cycles, their    *)
(* final states and labels; pairs of lists of intervals; sums of arcs.     *)

Graphs ==
  {[start |-> 0, final |-> [s \in fin |-> 0],
    arcs |-> [s \in 0 .. 2 |-> LET to == SetToSortSeq(out[s], LAMBDA x, y : x < y) IN
                [i \in DOMAIN to |-> [ilabel |-> (s + 2 * to[i]) % 3, olabel |-> 0, weight |-> 0, nextstate |-> to[i]]]]] :
   fin \in SUBSET (0 .. 2), out \in [0 .. 2 -> SUBSET (0 .. 2)]}

Proper == {Interval(p[1], p[2]) : p \in {p \in (0 .. 4) \X (0 .. 4) : p[1] <= p[2]}}

IntervalLists ==
  {<<a, b>> : a \in {<<>>} \cup {<<x>> : x \in Proper} \cup {<<x, y>> : x, y \in Proper},
              b \in {<<>>, <<Interval(1, 3)>>, <<Interval(2, 4), Interval(0, 1)>>, <<Interval(0, 1), Interval(1, 2), Interval(3, 3)>>}}

Masses == UNION {[1 .. n -> {1, 2}] : n \in 0 .. 5}

-----------------------------------------------------------------------------
Idle == /\ setup = [first |-> <<>>, stack |-> {}] /\ states = <<>> /\ pending = <<>> /\ done = {} /\ arcs = <<>>
        /\ final = <<>> /\ filter = Untold /\ finished = FALSE

\* A cache of boxes has no arena.
IdleArena ==
  /\ job = <<>> /\ retired = <<>> /\ current = <<>> /\ start = <<>>
  /\ firstBlockSize = <<>> /\ totalSize = <<>>
  /\ pushes = <<>> /\ issued = <<>> /\ epoch = <<>>

NoCache == cache = "None" /\ Vector!InitProtocol /\ table = <<>> /\ boxes = <<>> /\ views = {} /\ IdleArena

CacheInit ==
  \/ cache = "Vector" /\ Vector!Init /\ IdleArena
  \/ cache = "Hash" /\ Hash!Init /\ IdleArena
  \/ cache = "Store" /\ Store!Init /\ boxes = <<>>

CacheNext ==
  /\ UNCHANGED cache
  /\ \/ cache = "Vector" /\ Vector!Next /\ UNCHANGED arena
     \/ cache = "Hash" /\ Hash!Next /\ UNCHANGED arena
     \/ cache = "Store" /\ Store!Next /\ UNCHANGED boxes

\* The caller's loop over the states, and an expander that runs to its end.
Boxed == <<scratch, stack, known, iter, panics, table, views>>
Step(A) == A /\ UNCHANGED <<cache, arena>>

CacheFairness ==
  /\ WF_Boxed(cache = "Vector" /\ Step(Vector!WriteArc \/ Vector!Return))
  /\ WF_Boxed(cache = "Vector" /\ Step(Vector!IterNext))
  /\ WF_Boxed(cache = "Hash" /\ Step(Hash!WriteArc \/ Hash!Return))
  /\ WF_Boxed(cache = "Hash" /\ Step(Hash!IterNext))

MCInit ==
  \/ /\ part = "compose" /\ Init
     /\ NoCache /\ M!New(<<>>, "none") /\ at = NoState /\ searching = FALSE /\ got = <<>>
  \/ /\ part = "expand" /\ CacheInit
     /\ Idle /\ M!New(<<>>, "none") /\ at = NoState /\ searching = FALSE /\ got = <<>>
  \/ /\ part = "match" /\ NoCache /\ Idle
     /\ MatchInit
     /\ at = NoState /\ searching = FALSE /\ got = <<>>
  \/ /\ part = "index" /\ NoCache /\ Idle
     /\ \/ \E g \in Graphs : M!New(g, "graph")
        \/ \E l \in IntervalLists : M!New(l, "intervals")
        \/ \E m \in Masses : M!New(m, "masses")
     /\ at = NoState /\ searching = FALSE /\ got = <<>>

\* A state is set, which ends the search that was going on.
SetState == \E s \in States(kind) : M!set_state(s) /\ at' = s /\ searching' = FALSE /\ got' = <<>>

\* After the matcher has been asked about a state, the next one searched has to be set.
Priority == \E s \in States(kind) : M!priority(s) /\ at' = NoState /\ searching' = FALSE /\ got' = <<>>

Find == at # NoState /\ \E l \in Asks : M!find(l) /\ searching' = TRUE /\ got' = <<>> /\ UNCHANGED at

\* One more answer is taken, of a search in this state.
Take == /\ searching /\ M!next
        /\ got' = Append(got, M!value) /\ UNCHANGED <<at, searching>>

\* The user goes on with a clone, and sets the state if the clone has none.
Clone ==
  /\ M!clone
  /\ IF state' = state THEN UNCHANGED <<at, searching, got>> ELSE at' = NoState /\ searching' = FALSE /\ got' = <<>>

\* Other labels are taken as epsilon, which ends the search that was going on.
Relabel ==
  /\ \/ \E l \in {2, 3} : M!add_multi_eps_label(l) \/ M!remove_multi_eps_label(l)
     \/ M!clear_multi_eps_labels
  /\ searching' = FALSE /\ got' = <<>> /\ UNCHANGED at

Match == SetState \/ Priority \/ Find \/ Take \/ Clone \/ Relabel

MCNext ==
  /\ UNCHANGED part
  /\ \/ part = "compose" /\ Next /\ UNCHANGED <<matchers, caches>>
     \/ part = "match" /\ Match /\ UNCHANGED <<vars, caches>>
     \/ part = "expand" /\ CacheNext /\ UNCHANGED <<vars, matchers>>

MCSpec == MCInit /\ [][MCNext]_<<part, vars, matchers, caches>> /\ CacheFairness

-----------------------------------------------------------------------------
(* What composition is to find.                                            *)

\* The accepting paths from a state, as the places of their arcs.
RECURSIVE Paths(_, _)
Paths(fst, s) ==
  (IF Final(fst, s) THEN {<<>>} ELSE {})
    \cup UNION {{<<<<s, i>>>> \o p : p \in Paths(fst, fst.arcs[s][i].nextstate)} : i \in DOMAIN fst.arcs[s]}

Accepted(fst) == IF fst.start = None THEN {} ELSE Paths(fst, fst.start)

Along(fst, path, What(_)) == [i \in DOMAIN path |-> What(fst.arcs[path[i][1]][path[i][2]])]

\* A label already written leaves no label behind.
Spoken(labels) == SelectSeq(labels, LAMBDA l : l \notin {Eps, NoLabel})

Weight(arc) == arc.weight

Result == [start |-> IF states = <<>> THEN None ELSE 1, arcs |-> arcs, final |-> final]

End(fst, path) == IF path = <<>> THEN fst.start
                  ELSE LET at_ == Last(path) IN fst.arcs[at_[1]][at_[2]].nextstate

Weigh(fst, path) == FoldLeft(Times, FinalWeight(fst, End(fst, path)), Along(fst, path, Weight))

\* What a path of the result, or two paths that meet, read and write and weigh.
Sayings(paths) ==
  {<<Spoken(Along(Result, p, In)), Spoken(Along(Result, p, Out)), Weigh(Result, p)>> : p \in paths}
PairSayings(pairs) ==
  {<<Spoken(Along(First, pq[1], In)), Spoken(Along(Second, pq[2], Out)),
     Times(Weigh(First, pq[1]), Weigh(Second, pq[2]))>> : pq \in pairs}

\* The pairs of paths whose labels meet, which for the null filter means epsilons too.
Meeting ==
  LET meets(p, q) ==
        LET outs == Along(First, p, Out)
            ins  == Along(Second, q, In)
        IN IF setup.filter = "null" THEN outs = ins ELSE Spoken(outs) = Spoken(ins)
  IN {pq \in Accepted(First) \X Accepted(Second) :
        meets(pq[1], pq[2]) /\ Times(Weigh(First, pq[1]), Weigh(Second, pq[2])) # Zero}

\* Of two automata without cycles every pair of paths that meet makes a path of
\* the result, whichever side is matched and whatever is looked at or brought
\* forward, and nothing else does: it reads what the first path reads, writes
\* what the second writes and weighs what both weigh.  A filter that orders
\* epsilons makes one path of each pair, not one for every order.
ComposedPathsAreRight ==
  part = "compose" /\ finished /\ First.arcs # Ring(Arc1, Out).arcs =>
    LET made == {p \in Accepted(Result) : Weigh(Result, p) # Zero} IN
    /\ Sayings(made) = PairSayings(Meeting)
    /\ setup.filter \notin {"trivial", "no match"} => Cardinality(made) = Cardinality(Meeting)

\* Each pair of states is built once for each state of the filter, and expanded
\* once, and the tables that know a tuple by a number tell them apart: see Compose.
StatesAreBuiltOnce == part = "compose" => StatesAreExpandedOnce

-----------------------------------------------------------------------------
(* What a search is to answer.                                             *)

Carrying(s, label) == With(over, over.side, s, label)

Standing(arcs_, label) == [i \in DOMAIN arcs_ |-> M!rewrite(arcs_[i], label)]

\* A loop that consumes nothing: the side matched is no label.
Stay(s, own) == [ilabel |-> IF over.side = "input" THEN NoLabel ELSE own,
                 olabel |-> IF over.side = "input" THEN own ELSE NoLabel, weight |-> <<>>, nextstate |-> s]

\* The failure arcs from one state to the next that have neither the label nor an end.
Failure(s) == Carrying(s, Special)[1]
Chains(s, label) ==
  {c \in {<<s>>} \cup {<<s, t>> : t \in 0 .. 2} \cup {<<s, 1, 2>>} :
     /\ \A i \in 1 .. Len(c) - 1 : /\ Carrying(c[i], label) = <<>> /\ Carrying(c[i], Special) # <<>>
                                   /\ Failure(c[i]).nextstate = c[i + 1] /\ c[i + 1] # c[i]
     /\ \/ Carrying(Last(c), label) # <<>>
        \/ Carrying(Last(c), Special) = <<>>
        \/ Failure(Last(c)).nextstate = Last(c)}

ByFailure(s, label) ==
  LET c    == CHOOSE chain \in Chains(s, label) : TRUE
      paid == FlattenSeq([i \in 1 .. Len(c) - 1 |-> Failure(c[i]).weight])
      own  == Carrying(Last(c), label)
      reached == IF own # <<>> THEN own ELSE Standing(Carrying(Last(c), Special), label)
  IN [i \in DOMAIN reached |-> [reached[i] EXCEPT !.weight = paid \o @]]

Expected(s, label) ==
  LET own == Carrying(s, IF label = NoLabel THEN Eps ELSE label) IN
  CASE kind = "explicit"                    -> own
    [] label = Eps                          -> <<Stay(s, Eps)>> \o own
    [] kind = "multi" /\ label = NoLabel /\ "list" \in over.flags ->
         FlattenSeq([i \in DOMAIN over.multi |-> Carrying(s, over.multi[i])]) \o own
    [] kind = "multi" /\ label \in ToSet(over.multi) /\ "loop" \in over.flags -> <<Stay(s, NoLabel)>>
    [] kind \in {"multi", "hash"} \/ label = NoLabel -> own
    [] kind = "rho"                         -> IF own # <<>> THEN own ELSE Standing(Carrying(s, Special), label)
    [] kind = "sigma"                       -> own \o Standing(Carrying(s, Special), label)
    [] kind = "phi"                         -> ByFailure(s, label)

-----------------------------------------------------------------------------
(* What looking ahead is to know.                                          *)

\* The states a state leads to without reading.
Silently(fst) == [fst EXCEPT !.arcs = [s \in DOMAIN fst.arcs |-> With(fst, "input", s, 0)]]

\* Final states that share a cycle with others are refused, and only those.
NumbersAreRight(fst, numbers) ==
  LET nodes == DOMAIN fst.arcs
  IN /\ numbers.error <=> \E s \in DOMAIN fst.final : \E t \in nodes \ {s} : t \in Beyond(fst, {s}) /\ s \in Beyond(fst, {t})
     /\ ~numbers.error => \A s, t \in nodes : reach(numbers, s, t) <=> Final(fst, t) /\ t \in Beyond(fst, {s})

LabelsAreRight(fst, labels) ==
  \A s \in DOMAIN fst.arcs :
    LET silently == Beyond(Silently(fst), {s}) IN
    /\ \A l \in 1 .. 2 : reach_label(labels, s, l) <=> \E t \in silently : With(fst, "input", t, l) # <<>>
    /\ reach_final(labels, s) <=> silently \cap DOMAIN fst.final # {}

Numbers(intervals) == UNION {x[1] .. x[2] - 1 : x \in ToSet(intervals)}

\* A set is its numbers, each interval as long as can be.
Says(set, numbers) ==
  /\ Numbers(set.intervals) = numbers /\ set.count = Cardinality(numbers)
  /\ \A i \in DOMAIN set.intervals : set.intervals[i][1] < set.intervals[i][2]
  /\ \A i \in 1 .. Len(set.intervals) - 1 : set.intervals[i][2] < set.intervals[i + 1][1]

IntervalsAreRight(a, b, p, q) ==
     /\ Says(a, p) /\ Says(normalize(union(a, b)), p \cup q)
     /\ Says(intersect(a, b), p \cap q) /\ Says(difference(a, b), p \ q) /\ Says(complement(b, 3), (0 .. 2) \ q)
     /\ \A n \in 0 .. 4 : member(a, n) <=> n \in p
     /\ overlaps(a, b) <=> p \cap q # {}
     /\ strictly_overlaps(a, b) <=> p \cap q # {} /\ p \ q # {} /\ q \ p # {}
     /\ contains(a, b) <=> q \subseteq p
     /\ is_singleton(a) <=> Cardinality(p) = 1

\* However far the sums of a state's arcs have been kept already.
SumsAreRight(masses) ==
  \A begin, end \in 0 .. Len(masses) : begin <= end =>
    /\ \A limit \in {0, 3}, period \in {1, 2, 3} :
         fast_sum_range(masses, limit, period, 7, begin, end) = 7 + Mass(masses, begin, end)
    /\ \A kept \in 0 .. Len(masses), limit \in {0, 3} :
         cache_sum_range(IF kept = 0 THEN <<>> ELSE extend(<<0>>, masses, kept), masses, limit, 7, begin, end) = 7 + Mass(masses, begin, end)
    /\ \A mass \in 0 .. 11 : \E bound \in {lower_bound(<<>>, masses, mass, begin)} :
         /\ bound < Len(masses) => Mass(masses, 0, bound + 1) >= mass
         /\ bound \in begin .. Len(masses)
         /\ \A i \in begin .. bound - 1 : Mass(masses, 0, i + 1) < mass

IndexesAreRight ==
  part = "index" =>
    CASE kind = "graph"     -> /\ NumbersAreRight(over, StateReachable(over))
                             /\ LabelsAreRight(over, LabelReachable(over, "input"))
      [] kind = "intervals" -> IntervalsAreRight(normalize(IntervalSet(over[1])), normalize(IntervalSet(over[2])),
                                                 Numbers(over[1]), Numbers(over[2]))
      [] kind = "masses"    -> SumsAreRight(over)

\* A search answers what the state and the label call for, in order, and is
\* over when it has answered all: nothing is left of earlier searches, of
\* another state or of a question about urgency.  And the index a matcher looks
\* ahead with knows what each state reaches, through cycles and epsilons.
SearchesAnswerRight ==
  /\ part = "match" /\ searching =>
       LET all == Expected(at, asked) IN
       /\ IsPrefix(got, all)
       /\ M!done <=> got = all
       /\ got = <<>> => (found <=> all # <<>>)
  /\ IndexesAreRight

-----------------------------------------------------------------------------
(* What the caches are to keep.                                            *)

\* "A view keeps reading its own state however much the cache grows": whatever
\* a caller was handed still resolves to the contents it had, whichever
\* expansions have filled, refilled or orphaned slots and runs since, and no
\* expansion in progress is disturbed by those around it.
ViewsStayValid ==
  /\ cache = "Vector" => Vector!TypeOK /\ Vector!ViewsStayValid
  /\ cache = "Hash" => Hash!TypeOK /\ Hash!ViewsStayValid
  /\ cache = "Store" => Store!TypeOK /\ Store!ViewsStayValid
  /\ Vector!BuildersDoNotMix

Remembered ==
  CASE cache = "Vector" -> Vector!Remembered
    [] cache = "Hash"   -> Hash!Remembered
    [] cache = "Store"  -> Store!Remembered
    [] cache = "None"   -> <<>>

Promise == INSTANCE Memo WITH State <- Vector!State, memo <- Remembered, Answers <- Vector!ContentsFor

\* Every cache is a memo of the expander's answers: contents appear whole, are
\* one of the answers, and never change, through every nesting, panic and clone.
MemoSpec == Promise!Spec

\* A state iterator that has been through the states below iter has expanded
\* them all, and unless expansions keep panicking it reaches the count the
\* expander ends up with, although each expansion may raise it.
IterationEnds ==
  /\ cache = "Vector" => []Vector!IteratedAreCached
  /\ cache = "Hash" => []Hash!IteratedAreCached
  /\ cache \in {"Vector", "Hash"} => <>[](iter = known)
=============================================================================
