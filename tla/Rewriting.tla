----------------------------- MODULE Rewriting -----------------------------
(***************************************************************************)
(* The algorithms that rewrite an automaton as a whole: push.rs,           *)
(* reweight.rs, arc_map.rs, encode.rs, factor_weight.rs, state_map.rs,     *)
(* synchronize.rs, epsnormalize.rs, rmfinalepsilon.rs and disambiguate.rs, *)
(* as operators from an automaton to an automaton; and equal.rs,           *)
(* isomorphic.rs and equivalent.rs, which compare two.                     *)
(*                                                                         *)
(* An automaton is [kind, start, final, arcs, error]: its states are       *)
(* numbered from 0, its arcs are kept in order for each state, its weights *)
(* are of a kind of Weights, and `error` says the call answered Err.       *)
(* Symbol tables, property bits and quantization are left out.             *)
(***************************************************************************)
EXTENDS Weights, TLC

Seqs == INSTANCE SequencesExt

EPSILON == 0
NO_LABEL == -1
NO_STATE == -1

\* A value, worked out once where it would be at every use.
Once(v) == CHOOSE x \in {v} : x = x

States(f) == DOMAIN f.final
NumStates(f) == Cardinality(States(f))
Arc(ilabel, olabel, weight, nextstate) ==
  [ilabel |-> ilabel, olabel |-> olabel, weight |-> weight, nextstate |-> nextstate]
Empty(k) == [kind |-> k, start |-> NO_STATE, final |-> [s \in {} |-> Zero(k)], arcs |-> [s \in {} |-> <<>>], error |-> FALSE]
Err(f) == [f EXCEPT !.error = TRUE]
ArcsOf(f) == UNION {Seqs!ToSet(f.arcs[s]) : s \in States(f)}

\* A state behind the others.
AddState(f) ==
  LET s == NumStates(f)
  IN [f EXCEPT !.final = [x \in 0 .. s |-> IF x = s THEN Zero(f.kind) ELSE f.final[x]],
               !.arcs  = [x \in 0 .. s |-> IF x = s THEN <<>> ELSE f.arcs[x]]]

RECURSIVE Sum(_, _), SumOver(_, _)
Sum(k, weights) ==
  IF weights = <<>> THEN Zero(k) ELSE Plus(k, Sum(k, SubSeq(weights, 1, Len(weights) - 1)), weights[Len(weights)])
\* Of weights whose sum does not depend on how often each is there.
SumOver(k, weights) ==
  IF weights = {} THEN Zero(k) ELSE LET w == CHOOSE x \in weights : TRUE IN Plus(k, w, SumOver(k, weights \ {w}))
\* 0, 1, ... before n, each with the value it has.
Listed(values, n) == [i \in 1 .. n |-> values[i - 1]]
Min0(numbers) == CHOOSE x \in numbers : \A y \in numbers : x <= y
Sorted(numbers) ==
  [i \in 1 .. Cardinality(numbers) |-> CHOOSE x \in numbers : Cardinality({y \in numbers : y < x}) = i - 1]
InAnyOrder(set) ==
  LET upto[rest \in SUBSET set] == IF rest = {} THEN <<>> ELSE LET x == CHOOSE y \in rest : TRUE IN <<x>> \o upto[rest \ {x}]
  IN upto[set]

\* The states that a relation leads to from some.
Leads(pairs, from) ==
  LET grown(known) == known \cup {p[2] : p \in {x \in pairs : x[1] \in known}}
      upto[n \in 0 .. Cardinality(pairs)] == IF n = 0 THEN from ELSE LET known == upto[n - 1] IN grown(known)
  IN upto[Cardinality(pairs)]
Steps(f) == UNION {{<<s, f.arcs[s][i].nextstate>> : i \in DOMAIN f.arcs[s]} : s \in States(f)}
Back(pairs) == {<<p[2], p[1]>> : p \in pairs}
Finals(f) == {s \in States(f) : f.final[s] # Zero(f.kind)}
Coaccessible(f) == Leads(Back(Steps(f)), Finals(f))

\* What is on no path from the start to an end goes; the others keep their order.
Connect(f) ==
  LET kept  == Sorted((IF f.start = NO_STATE THEN {} ELSE Leads(Steps(f), {f.start})) \cap Coaccessible(f))
      At0(s) == (CHOOSE i \in DOMAIN kept : kept[i] = s) - 1
      stays(a) == a.nextstate \in Seqs!ToSet(kept)
      left(s) == SelectSeq(f.arcs[s], stays)
      moved(as) == [i \in DOMAIN as |-> [as[i] EXCEPT !.nextstate = At0(@)]]
  IN Once([f EXCEPT !.start = IF f.start \in Seqs!ToSet(kept) THEN At0(f.start) ELSE NO_STATE,
               !.final = [s \in 0 .. Len(kept) - 1 |-> f.final[kept[s + 1]]],
               !.arcs  = [s \in 0 .. Len(kept) - 1 |-> moved(left(kept[s + 1]))]])

\* Bound: paths of this many rounds of the states settle a distance.
Rounds == 2

\* From the start to each state, or from each state to an end: the sum of the
\* paths, as ShortestDistance settles it.
Ahead(f, d, s) ==
  Plus(f.kind, f.final[s], Sum(f.kind, [i \in DOMAIN f.arcs[s] |-> Times(f.kind, f.arcs[s][i].weight, d[f.arcs[s][i].nextstate])]))
Into(f, d, s) ==
  Plus(f.kind, IF s = f.start THEN One(f.kind) ELSE Zero(f.kind),
       SumOver(f.kind, UNION {{Times(f.kind, d[r], a.weight) : a \in {x \in Seqs!ToSet(f.arcs[r]) : x.nextstate = s}} : r \in States(f)}))
RECURSIVE Further(_, _, _, _)
Further(f, reverse, d, n) ==
  IF n = 0 THEN d
  ELSE Further(f, reverse, Once([s \in States(f) |-> IF reverse THEN Ahead(f, d, s) ELSE Into(f, d, s)]), n - 1)
Distances(f, reverse) == Further(f, reverse, [s \in States(f) |-> Zero(f.kind)], Rounds * NumStates(f))

-----------------------------------------------------------------------------
(* Pushing: each weight as near to the start, or to the ends, as it goes.  *)

TotalWeight(f, distance, reverse) ==
  LET k == f.kind
  IN IF reverse THEN IF f.start = NO_STATE THEN Zero(k) ELSE distance[f.start]
     ELSE Sum(k, Listed([s \in States(f) |-> Times(k, distance[s], f.final[s])], NumStates(f)))

RemoveWeight(f, weight, at_final) ==
  IF weight \in {One(f.kind), Zero(f.kind)} THEN f
  ELSE IF at_final THEN [f EXCEPT !.final = [s \in States(f) |-> Divide(f.kind, f.final[s], weight, "right")]]
  ELSE IF f.start = NO_STATE THEN f
  ELSE [f EXCEPT !.final[f.start] = Divide(f.kind, @, weight, "left"),
                 !.arcs[f.start] = [i \in DOMAIN @ |-> [@[i] EXCEPT !.weight = Divide(f.kind, @, weight, "left")]]]

Useful(k, w) == IsMember(k, w) /\ w # Zero(k)
InitialAcyclic(f) == f.start = NO_STATE \/ f.start \notin Leads(Steps(f), {a.nextstate : a \in Seqs!ToSet(f.arcs[f.start])})

\* What is left over goes on the start, or, if paths come back to it, on an arc
\* from a new one.
FromStart(f, weight) ==
  IF InitialAcyclic(f)
  THEN [f EXCEPT !.final[f.start] = Times(f.kind, weight, @),
                 !.arcs[f.start]  = [i \in DOMAIN @ |-> [@[i] EXCEPT !.weight = Times(f.kind, weight, @)]]]
  ELSE [AddState(f) EXCEPT !.start = NumStates(f), !.arcs[NumStates(f)] = <<Arc(EPSILON, EPSILON, weight, f.start)>>]

StartWeight(f, potential) == IF f.start = NO_STATE THEN Zero(f.kind) ELSE potential[f.start]
\* Nothing is left over where the start's own weight is one, or none.
WithRest(f, w, rest) == IF w \in {One(f.kind), Zero(f.kind)} THEN f ELSE FromStart(f, rest)

\* Moved towards the start, or towards the ends.
Moved(k, to, before, after, weight) ==
  IF ~Useful(k, before) \/ ~Useful(k, after) THEN weight
  ELSE IF to = "initial" THEN Divide(k, Times(k, weight, after), before, "left")
  ELSE Divide(k, Times(k, before, weight), after, "right")
MovedEnd(k, to, before, weight) ==
  IF to = "final" THEN Times(k, before, weight)
  ELSE IF Useful(k, before) THEN Divide(k, weight, before, "left") ELSE weight
Reweighted(f, potential, to) ==
  WithRest(Once([f EXCEPT
    !.arcs  = [s \in States(f) |-> [i \in DOMAIN f.arcs[s] |->
                 [f.arcs[s][i] EXCEPT !.weight = Moved(f.kind, to, potential[s], potential[f.arcs[s][i].nextstate], @)]]],
    !.final = [s \in States(f) |-> MovedEnd(f.kind, to, potential[s], f.final[s])]]),
    StartWeight(f, potential),
    IF to = "initial" THEN StartWeight(f, potential) ELSE Divide(f.kind, One(f.kind), StartWeight(f, potential), "right"))

Freed(g, remove_total_weight, total, to) == IF remove_total_weight THEN RemoveWeight(g, total, to # "initial") ELSE g
PushBy(f, distance, to, remove_total_weight) ==
  Freed(Reweighted(f, distance, to), remove_total_weight, TotalWeight(f, distance, to = "initial"), to)
PushWeights(f, to, remove_total_weight) == PushBy(f, Distances(f, to = "initial"), to, remove_total_weight)

-----------------------------------------------------------------------------
(* Mapping the arcs of an automaton one by one.  A final weight is mapped  *)
(* as an arc without a label to no state.                                  *)

\* The output label joins the weight.
ToGallic(to, a) ==
  IF a.nextstate = NO_STATE
  THEN Arc(EPSILON, EPSILON, IF a.weight = BaseZero(to.parts[2]) THEN Zero(to) ELSE <<StringOf(<<>>), a.weight>>, NO_STATE)
  ELSE Arc(a.ilabel, a.ilabel, <<StringOf(IF a.olabel = EPSILON THEN <<>> ELSE <<a.olabel>>), a.weight>>, a.nextstate)

\* And comes out of it, if it is one label.
Carried(a) == a.weight[1].is = "labels" /\ Len(a.weight[1].labels) <= 1
FromGallic(to, a) ==
  LET label == IF a.weight[1].labels = <<>> THEN EPSILON ELSE a.weight[1].labels[1]
  IN IF a.nextstate = NO_STATE /\ a.weight[1] = ZeroString THEN Arc(a.ilabel, EPSILON, Zero(to), NO_STATE)
     ELSE IF ~Carried(a) THEN Arc(a.ilabel, EPSILON, Zero(to), a.nextstate)
     ELSE Arc(a.ilabel, label, a.weight[2], a.nextstate)
FromGallicFails(a) ==
  ~(a.nextstate = NO_STATE /\ a.weight[1] = ZeroString) /\ (~Carried(a) \/ a.ilabel # a.olabel)

Unweighted(k, a) == [a EXCEPT !.weight = IF @ = Zero(k) THEN Zero(k) ELSE One(k)]

\* Encoding: the labels, the weight, or both become one label, one more than
\* where the table has them.
Encoded(flags, k, a) ==
  IF a.nextstate = NO_STATE /\ "weights" \in flags THEN <<NO_LABEL, NO_LABEL, a.weight>>
  ELSE <<a.ilabel, IF "labels" \in flags THEN a.olabel ELSE EPSILON, IF "weights" \in flags THEN a.weight ELSE One(k)>>
Untouched(flags, k, a) == a.nextstate = NO_STATE /\ ("weights" \notin flags \/ a.weight = Zero(k))
LabelOf(table, triple) == CHOOSE i \in DOMAIN table : table[i] = triple

EncodeArc(m, k, a) ==
  LET label == LabelOf(m.table, Encoded(m.flags, k, a))
  IN IF Untouched(m.flags, k, a) THEN a
     ELSE Arc(label, IF "labels" \in m.flags THEN label ELSE a.olabel,
              IF "weights" \in m.flags THEN One(k) ELSE a.weight, a.nextstate)

DecodeArc(m, k, a) ==
  IF a.nextstate = NO_STATE \/ a.ilabel = EPSILON THEN a
  ELSE LET triple == m.table[a.ilabel] IN
       IF triple[1] = NO_LABEL THEN Arc(EPSILON, EPSILON, triple[3], a.nextstate)
       ELSE Arc(triple[1], IF "labels" \in m.flags THEN triple[2] ELSE a.olabel,
                IF "weights" \in m.flags THEN triple[3] ELSE a.weight, a.nextstate)

\* What a mapper does to an arc, and what it asks for the ends.
Mapped(m, k, a) ==
  CASE m.is = "to_gallic"   -> ToGallic(m.to, a)
    [] m.is = "from_gallic" -> FromGallic(m.to, a)
    [] m.is = "rm_weight"   -> Unweighted(k, a)
    [] m.is = "times"       -> [a EXCEPT !.weight = Times(k, m.weight, @)]
    [] m.is = "project"     -> LET label == IF m.side = "input" THEN a.ilabel ELSE a.olabel
                               IN [a EXCEPT !.ilabel = label, !.olabel = label]
    [] m.is = "invert"      -> [a EXCEPT !.ilabel = a.olabel, !.olabel = a.ilabel]
    [] m.is = "superfinal"  -> a
    [] m.is = "encode"      -> EncodeArc(m, k, a)
    [] m.is = "decode"      -> DecodeArc(m, k, a)
FinalAction(m) ==
  CASE m.is = "from_gallic" -> "allow"
    [] m.is = "superfinal" \/ (m.is = "encode" /\ "weights" \in m.flags) -> "require"
    [] OTHER -> "no"
BecameAnArc(a) == a.ilabel # EPSILON \/ a.olabel # EPSILON

\* Mutant: a state whose end became an arc stays final.
ArcMapWithStillFinal(f, m, ends) ==
  LET n == NumStates(f)
      becomes(s) == BecameAnArc(ends[s]) \/ (FinalAction(m) = "require" /\ ends[s].weight # Zero(m.to))
      extra == IF FinalAction(m) = "require" \/ (FinalAction(m) = "allow" /\ \E s \in States(f) : becomes(s)) THEN {n} ELSE {}
      ended(s) == IF becomes(s) THEN <<[ends[s] EXCEPT !.nextstate = n]>> ELSE <<>>
      final(s) == ends[s].weight
  IN [kind |-> m.to, start |-> f.start,
      final |-> [s \in States(f) \cup extra |-> IF s = n THEN One(m.to) ELSE final(s)],
      arcs |-> [s \in States(f) \cup extra |->
                  IF s = n THEN <<>> ELSE [i \in DOMAIN f.arcs[s] |-> Mapped(m, f.kind, f.arcs[s][i])] \o ended(s)],
      error |-> f.error \/ (FinalAction(m) = "no" /\ \E s \in States(f) : becomes(s))]

\* The ends that became arcs lead to a state added behind the others.
ArcMapWith(f, m, ends) ==
  LET n == NumStates(f)
      becomes(s) == BecameAnArc(ends[s]) \/ (FinalAction(m) = "require" /\ ends[s].weight # Zero(m.to))
      extra == IF FinalAction(m) = "require" \/ (FinalAction(m) = "allow" /\ \E s \in States(f) : becomes(s)) THEN {n} ELSE {}
      ended(s) == IF becomes(s) THEN <<[ends[s] EXCEPT !.nextstate = n]>> ELSE <<>>
      final(s) == IF becomes(s) THEN Zero(m.to) ELSE ends[s].weight
  IN [kind |-> m.to, start |-> f.start,
      final |-> [s \in States(f) \cup extra |-> IF s = n THEN One(m.to) ELSE final(s)],
      arcs |-> [s \in States(f) \cup extra |->
                  IF s = n THEN <<>> ELSE [i \in DOMAIN f.arcs[s] |-> Mapped(m, f.kind, f.arcs[s][i])] \o ended(s)],
      error |-> f.error \/ (FinalAction(m) = "no" /\ \E s \in States(f) : becomes(s))]
ArcMap(f, m) ==
  IF f.start = NO_STATE THEN IF m.to = f.kind THEN f ELSE Empty(m.to)
  ELSE Once(ArcMapWith(f, m, Once([s \in States(f) |-> Mapped(m, f.kind, Arc(EPSILON, EPSILON, f.final[s], NO_STATE))])))

ToGallicMap(f, side) ==
  ArcMap(f, [is |-> "to_gallic", to |-> [of |-> side \o "_gallic", parts |-> <<side \o "_string", f.kind.of>>]])
FromGallicMap(f) ==
  LET ends == {Arc(EPSILON, EPSILON, f.final[s], NO_STATE) : s \in States(f)}
      fails == \E a \in ArcsOf(f) \cup ends : FromGallicFails(a)
  IN ArcMap([f EXCEPT !.error = @ \/ fails], [is |-> "from_gallic", to |-> Scalar(f.kind.parts[2])])
Invert(f) == ArcMap(f, [is |-> "invert", to |-> f.kind])
SuperFinal(f) == ArcMap(f, [is |-> "superfinal", to |-> f.kind])
Project(f, side) == ArcMap(f, [is |-> "project", to |-> f.kind, side |-> side])

\* The arcs of each state and its end, as they are encoded; a triple already in
\* the table keeps its label.
EncodeTable(f, flags, known) ==
  LET told(s) == f.arcs[s] \o <<Arc(EPSILON, EPSILON, f.final[s], NO_STATE)>>
      all == Seqs!FlattenSeq([i \in 1 .. NumStates(f) |-> told(i - 1)])
      upto[n \in 0 .. Len(all)] ==
        IF n = 0 THEN known
        ELSE LET table == upto[n - 1]  triple == Encoded(flags, f.kind, all[n])
             IN IF Untouched(flags, f.kind, all[n]) \/ triple \in Seqs!ToSet(table) THEN table ELSE Append(table, triple)
  IN upto[Len(all)]
EncodeBy(f, flags, table) == [fst |-> ArcMap(f, [is |-> "encode", to |-> f.kind, flags |-> flags, table |-> table]), table |-> table]
Encode(f, flags, known) == EncodeBy(f, flags, EncodeTable(f, flags, known))

\* An end whose arcs lead to no other end is folded into the states that reach it
\* without a label, where that keeps the sums apart.
Removable(f) == {s \in Finals(f) : \A i \in DOMAIN f.arcs[s] : f.arcs[s][i].nextstate \notin Coaccessible(f)}
Folds(k, removable, weight, a) ==
  a.nextstate \in removable /\ ~BecameAnArc(a) /\ (weight = Zero(k) \/ "left" \in Properties(k))
\* One state, its arcs in order; the finals are the ones there are now.
RECURSIVE FoldArcs(_, _, _, _, _, _)
FoldArcs(k, removable, final, arcs, weight, kept) ==
  IF arcs = <<>> THEN [weight |-> weight, kept |-> kept]
  ELSE LET a == Head(arcs)  folds == Folds(k, removable, weight, a)
       IN FoldArcs(k, removable, final, Tail(arcs),
                   IF folds THEN Plus(k, Times(k, a.weight, final[a.nextstate]), weight) ELSE weight,
                   IF folds THEN kept ELSE Append(kept, a))
Fold(f, s, folded) == Once([f EXCEPT !.final[s] = folded.weight, !.arcs[s] = folded.kept])
RECURSIVE FoldStates(_, _, _)
FoldStates(f, removable, s) ==
  IF s = NumStates(f) THEN f
  ELSE FoldStates(Fold(f, s, FoldArcs(f.kind, removable, f.final, f.arcs[s], f.final[s], <<>>)), removable, s + 1)
RmFinalEpsilon(f) == Connect(FoldStates(f, Removable(f), 0))

\* Only what the table has can be decoded.
Decodable(f, flags, table) ==
  \A a \in ArcsOf(f) : a.ilabel # EPSILON =>
    /\ "labels" \in flags => a.ilabel = a.olabel
    /\ "weights" \in flags => a.weight = One(f.kind)
    /\ a.ilabel \in DOMAIN table
Decode(f, flags, table) ==
  IF ~Decodable(f, flags, table) THEN Err(f)
  ELSE RmFinalEpsilon(ArcMap(f, [is |-> "decode", to |-> f.kind, flags |-> flags, table |-> table]))

-----------------------------------------------------------------------------
(* The arcs of each state in order, and those alike taken together.        *)

ArcKeyBefore(a, b) ==
  \/ a.ilabel < b.ilabel
  \/ a.ilabel = b.ilabel /\ (a.olabel < b.olabel \/ (a.olabel = b.olabel /\ a.nextstate < b.nextstate))

\* Every state's arcs are worked out before any are replaced.
StateMap(f, mapped) == IF f.start = NO_STATE THEN f ELSE [f EXCEPT !.arcs = mapped]

ArcUnique(f) == StateMap(f, [s \in States(f) |-> SortSeq(InAnyOrder(Seqs!ToSet(f.arcs[s])), ArcKeyBefore)])

ArcSum(f) ==
  LET key(a)   == [a EXCEPT !.weight = 0]
      sum(s, x) == LET alike(a) == key(a) = x
                       same == SelectSeq(f.arcs[s], alike)
                   IN [x EXCEPT !.weight = Sum(f.kind, [i \in DOMAIN same |-> same[i].weight])]
      keys(s) == {key(a) : a \in Seqs!ToSet(f.arcs[s])}
  IN StateMap(f, [s \in States(f) |-> SortSeq(InAnyOrder({sum(s, x) : x \in keys(s)}), ArcKeyBefore)])

-----------------------------------------------------------------------------
(* Algorithms that discover the states of their result one by one.         *)

\* Bound: as many states are discovered at most.
MaxElements == 24

\* The elements in the order they are met, each leading where its arcs do.
Explored(first, ArcsAt(_)) ==
  LET met(known, e) == IF e \in Seqs!ToSet(known) THEN known ELSE Append(known, e)
      meet(known, as) ==
        LET upto[i \in 0 .. Len(as)] == IF i = 0 THEN known ELSE LET q == upto[i - 1] IN met(q, as[i].nextstate)
        IN upto[Len(as)]
      with(k, as) == Once([known |-> meet(k.known, as), arcs |-> Append(k.arcs, as)])
      upto[n \in 0 .. MaxElements] ==
        IF n = 0 THEN [known |-> <<first>>, arcs |-> <<>>]
        ELSE LET k == upto[n - 1] IN IF n > Len(k.known) THEN k ELSE with(k, ArcsAt(k.known[n]))
  IN upto[MaxElements]

\* The automaton whose states are the elements.
Built(k, found, FinalAt(_)) ==
  LET elements == found.known
      number(e) == (CHOOSE i \in DOMAIN elements : elements[i] = e) - 1
      numbered(as) == [i \in DOMAIN as |-> [as[i] EXCEPT !.nextstate = number(@)]]
  IN Once([kind |-> k, start |-> 0, final |-> [s \in 0 .. Len(elements) - 1 |-> FinalAt(elements[s + 1])],
           arcs |-> [s \in 0 .. Len(elements) - 1 |-> numbered(found.arcs[s + 1])], error |-> FALSE])

\* A weight that one arc cannot carry, as what it can and the rest.
Splits(how, k, w) ==
  CASE how = "identity" -> FALSE
    [] how = "one"      -> w # One(k)
    [] how = "string"   -> Len(w.labels) > 1
    [] how = "gallic"   -> Len(w[1].labels) > 1
First(how, k, w) ==
  CASE how = "one"    -> One(k)
    [] how = "string" -> StringOf(<<w.labels[1]>>)
    [] how = "gallic" -> <<StringOf(<<w[1].labels[1]>>), w[2]>>
Rest(how, k, w) ==
  CASE how = "one"    -> w
    [] how = "string" -> StringOf(Tail(w.labels))
    [] how = "gallic" -> <<StringOf(Tail(w[1].labels)), BaseOne(k.parts[2])>>

\* What is put on an arc, with an element for the rest.
Factored(how, k, mode, a, w) ==
  IF "arcs" \in mode /\ Splits(how, k, w)
  THEN [a EXCEPT !.weight = First(how, k, w), !.nextstate = <<@, Rest(how, k, w)>>]
  ELSE [a EXCEPT !.weight = w, !.nextstate = <<@, One(k)>>]

\* An element is a state and what is still to be multiplied on from it, or no
\* state and what is left of an end.
EndOf(f, e) == IF e[1] = NO_STATE THEN e[2] ELSE Times(f.kind, e[2], f.final[e[1]])
FactorEnd(f, how, mode, e, w) ==
  IF "final" \in mode /\ Splits(how, f.kind, w) /\ (e[1] = NO_STATE \/ f.final[e[1]] # Zero(f.kind))
  THEN <<Arc(EPSILON, EPSILON, First(how, f.kind, w), <<NO_STATE, Rest(how, f.kind, w)>>)>> ELSE <<>>
FactorArcs(f, how, mode, e) ==
  (IF e[1] = NO_STATE THEN <<>>
   ELSE [i \in DOMAIN f.arcs[e[1]] |-> Factored(how, f.kind, mode, f.arcs[e[1]][i], Times(f.kind, e[2], f.arcs[e[1]][i].weight))])
  \o FactorEnd(f, how, mode, e, EndOf(f, e))
FactorFinal(how, k, mode, w) == IF "final" \in mode /\ Splits(how, k, w) THEN Zero(k) ELSE w
FactorWeight(f, how, mode) ==
  IF f.start = NO_STATE THEN Empty(f.kind)
  ELSE Built(f.kind, Explored(<<f.start, One(f.kind)>>, LAMBDA e : FactorArcs(f, how, mode, e)),
             LAMBDA e : FactorFinal(how, f.kind, mode, EndOf(f, e)))

Both == {"arcs", "final"}

\* Labels wait for a partner on the other side; an element is a state and the
\* labels that wait.
Head1(string, label) == IF string = <<>> THEN label ELSE string[1]
Behind(string, label) == IF label = EPSILON THEN string ELSE Append(string, label)
Tail1(string, label) == IF string = <<>> THEN <<>> ELSE Behind(Tail(string), label)
Synchronize(f) ==
  LET k == f.kind
      along(e, a) ==
        IF Behind(e[2], a.ilabel) # <<>> /\ Behind(e[3], a.olabel) # <<>>
        THEN Arc(Head1(e[2], a.ilabel), Head1(e[3], a.olabel), a.weight,
                 <<a.nextstate, Tail1(e[2], a.ilabel), Tail1(e[3], a.olabel)>>)
        ELSE Arc(EPSILON, EPSILON, a.weight, <<a.nextstate, Behind(e[2], a.ilabel), Behind(e[3], a.olabel)>>)
      end(e) == IF e[1] = NO_STATE THEN One(k) ELSE f.final[e[1]]
      holds(e) == e[2] # <<>> \/ e[3] # <<>>
      arcs(e) ==
        (IF e[1] = NO_STATE THEN <<>> ELSE [i \in DOMAIN f.arcs[e[1]] |-> along(e, f.arcs[e[1]][i])])
        \o (IF end(e) # Zero(k) /\ holds(e)
            THEN <<Arc(Head1(e[2], EPSILON), Head1(e[3], EPSILON), end(e),
                       <<NO_STATE, Tail1(e[2], EPSILON), Tail1(e[3], EPSILON)>>)>> ELSE <<>>)
      final(e) == IF holds(e) THEN Zero(k) ELSE end(e)
  IN IF f.start = NO_STATE THEN Empty(k) ELSE Built(k, Explored(<<f.start, <<>>, <<>>>>, arcs), final)

Measured(f, flags) == IF "weights" \in flags THEN f ELSE ArcMap(f, [is |-> "rm_weight", to |-> f.kind])
AsGallic(f, to, flags) == IF "labels" \in flags THEN ToGallicMap(f, IF to = "initial" THEN "left" ELSE "right") ELSE f
AsArcs(g, flags) == IF "labels" \in flags THEN FromGallicMap(FactorWeight(g, "gallic", Both)) ELSE g
TotalAsked(whole, k, flags) ==
  IF "labels" \notin flags THEN whole
  ELSE <<IF "affix" \in flags THEN whole[1] ELSE StringOf(<<>>), IF "total" \in flags THEN whole[2] ELSE One(k)>>
Asks(flags) == "total" \in flags \/ {"affix", "labels"} \subseteq flags
PushGallic(g, distance, to, k, flags) ==
  Freed(Reweighted(g, distance, to), Asks(flags), TotalAsked(TotalWeight(g, distance, to = "initial"), k, flags), to)

\* Pushing, of weights, of labels, or of both: labels are pushed as weights, and
\* what no arc can carry is split again.
Push(f, to, flags) ==
  IF {"weights", "labels"} \cap flags = {} THEN f
  ELSE AsArcs(PushGallic(AsGallic(f, to, flags), Distances(AsGallic(Measured(f, flags), to, flags), to = "initial"), to, f.kind, flags), flags)

-----------------------------------------------------------------------------
(* Epsilons gathered behind what is read.                                  *)

Silent(g, s) == {a \in Seqs!ToSet(g.arcs[s]) : ~BecameAnArc(a)}
FarSilently(g, s) ==
  Distances([g EXCEPT !.start = s, !.final = [x \in States(g) |-> Zero(g.kind)],
                      !.arcs = [x \in States(g) |-> InAnyOrder(Silent(g, x))]], FALSE)
SummedAlike(k, as) ==
  {[a EXCEPT !.weight = SumOver(k, {b.weight : b \in {x \in as : [x EXCEPT !.weight = a.weight] = a}})] : a \in as}
TakeOver(g, s, d) ==
  [g EXCEPT !.final[s] = SumOver(g.kind, {Times(g.kind, d[x], g.final[x]) : x \in Finals(g)}),
            !.arcs[s] = InAnyOrder(SummedAlike(g.kind,
              UNION {{[a EXCEPT !.weight = Times(g.kind, d[x], @)] : a \in Seqs!ToSet(g.arcs[x]) \ Silent(g, x)} :
                       x \in {y \in States(g) : d[y] # Zero(g.kind)}}))]

\* Each state takes over the arcs and the end of those it reaches without a
\* label, the ones it reaches first (RmEpsilon).
RECURSIVE RmEpsilonOf(_, _, _)
RmEpsilonOf(g, pairs, todo) ==
  IF todo = {} THEN g
  ELSE LET s == CHOOSE s \in todo : \A x \in Leads(pairs, {s}) \cap todo : s \in Leads(pairs, {x})
       IN RmEpsilonOf(Once(TakeOver(g, s, Once(FarSilently(g, s)))), pairs, todo \ {s})
RmEpsilon(f) ==
  IF f.start = NO_STATE THEN f
  ELSE RmEpsilonOf(f, UNION {{<<s, a.nextstate>> : a \in Silent(f, s)} : s \in States(f)}, States(f))

Representable(f) == \A w \in {a.weight : a \in ArcsOf(f)} \cup {f.final[s] : s \in States(f)} : IsMember(f.kind, w)

\* What is written waits for what is read: it is the weight of the epsilons it
\* was on, and split again over arcs of its own.
EpsSplit(f, g) == IF ~Representable(g) THEN Err(f) ELSE FromGallicMap(FactorWeight(Connect(g), "gallic", Both))
ToOutput(f, out) == IF out.error THEN Err(f) ELSE Invert(out)
EpsNormalize0(f) == EpsSplit(f, RmEpsilon(ToGallicMap(f, "restricted")))
EpsNormalize(f, side) ==
  IF side = "output" THEN ToOutput(f, EpsNormalize0(Invert(f))) ELSE EpsNormalize0(f)

-----------------------------------------------------------------------------
(* Making each string of an acceptor the string of one path.               *)

NO_HEAD == 99

ArcSort(f) == \* by label, then by where the arc leads
  [f EXCEPT !.arcs = [s \in States(f) |-> SortSeq(f.arcs[s], LAMBDA a, b :
     a.ilabel < b.ilabel \/ (a.ilabel = b.ilabel /\ a.nextstate < b.nextstate))]]

\* The pairs of states that one string leads to and one string leads on from.
CommonFuture(f) ==
  LET Pairs == States(f) \X States(f)
      alike == {<<p, q>> \in Pairs \X Pairs :
                  \E x \in Seqs!ToSet(f.arcs[p[1]]), y \in Seqs!ToSet(f.arcs[p[2]]) :
                     x.ilabel = y.ilabel /\ q = <<x.nextstate, y.nextstate>>}
  IN IF f.start = NO_STATE THEN {}
     ELSE Leads(alike, {<<f.start, f.start>>}) \cap Leads(Back(alike), Finals(f) \X Finals(f))

\* Where the other paths get along one arc of the head.
OthersAt(k, e, over) == SumOver(k, {Times(k, e[2][o[1]], o[2].weight) : o \in over})
HeadArc(k, e, a, others, whole) ==
  Arc(a.ilabel, a.ilabel, whole,
      <<a.nextstate, [x \in {o[2].nextstate : o \in others} |->
                        Divide(k, OthersAt(k, e, {y \in others : y[2].nextstate = x}), whole, "left")]>>)
HeadAlong(f, related, e, a) ==
  LET others == {<<m, b>> \in (DOMAIN e[2]) \X ArcsOf(f) :
                   /\ b \in Seqs!ToSet(f.arcs[m]) /\ b.ilabel = a.ilabel /\ <<b.nextstate, a.nextstate>> \in related}
  IN HeadArc(f.kind, e, a, others, OthersAt(f.kind, e, others))
\* Mutant: once for each arc.
HeadArcsEach(f, related, e) == [n \in DOMAIN f.arcs[e[1]] |-> HeadAlong(f, related, e, f.arcs[e[1]][n])]

\* Once for each label and target.
HeadArcs(f, related, e) ==
  LET as == f.arcs[e[1]]
      new(i) == i = 1 \/ as[i].ilabel # as[i - 1].ilabel \/ as[i].nextstate # as[i - 1].nextstate
      kept == Sorted({i \in DOMAIN as : new(i)})
  IN [n \in DOMAIN kept |-> HeadAlong(f, related, e, as[kept[n]])]
HeadEnd(f, e) ==
  IF f.final[e[1]] = Zero(f.kind) THEN Zero(f.kind)
  ELSE SumOver(f.kind, {Times(f.kind, e[2][m], f.final[m]) : m \in DOMAIN e[2]})
Headed(f, found) ==
  [fst |-> Built(f.kind, found, LAMBDA e : HeadEnd(f, e)), heads |-> [s \in 0 .. Len(found.known) - 1 |-> found.known[s + 1][1]]]

\* A state of the result is a HEAD, the state one path is at, with the states that
\* the other paths of the string are at and how much further they are, for those
\* that have a future with the head.
PreDisambiguate(f, related) ==
  IF f.start = NO_STATE THEN [fst |-> f, heads |-> [s \in {} |-> NO_HEAD]]
  ELSE Headed(f, Explored(<<f.start, [m \in {f.start} |-> One(f.kind)]>>, LAMBDA e : HeadArcs(f, related, e)))

\* The arcs, and the ends (position 0), with which two paths of one string come
\* together, the one whose head comes later first; and the states of one head
\* that one string leads to.
FindAmbiguities(f, heads) ==
  LET Unordered == {p \in States(f) \X States(f) : p[1] <= p[2]}
      pair(x, y) == IF x <= y THEN <<x, y>> ELSE <<y, x>>
      splits(p) == p[1] # p[2] /\ heads[p[1]] = heads[p[2]]
      alike == {<<p, q>> \in Unordered \X Unordered :
                  /\ ~splits(p)
                  /\ \E x \in Seqs!ToSet(f.arcs[p[1]]), y \in Seqs!ToSet(f.arcs[p[2]]) :
                       x.ilabel = y.ilabel /\ q = pair(x.nextstate, y.nextstate)}
      reached == IF f.start = NO_STATE THEN {} ELSE Leads(alike, {<<f.start, f.start>>})
      ordered(a, b) == IF heads[a[1]] > heads[b[1]] THEN <<a, b>> ELSE <<b, a>>
      meets(p) == {ordered(<<p[1], i>>, <<p[2], j>>) : <<i, j>> \in
                     {x \in (DOMAIN f.arcs[p[1]]) \X (DOMAIN f.arcs[p[2]]) :
                        /\ f.arcs[p[1]][x[1]].ilabel = f.arcs[p[2]][x[2]].ilabel
                        /\ f.arcs[p[1]][x[1]].nextstate = f.arcs[p[2]][x[2]].nextstate}}
      ends(p) == IF {p[1], p[2]} \subseteq Finals(f) THEN {ordered(<<p[1], 0>>, <<p[2], 0>>)} ELSE {}
      apart == {p \in reached : p[1] # p[2] /\ ~splits(p)}
  IN [candidates |-> UNION {meets(p) \cup ends(p) : p \in apart}, merge |-> {p \in reached : splits(p)}]

\* Of two that come together the one with the later head goes, if the other is
\* still there.
MarkAmbiguities(candidates, heads) ==
  LET before(c, d) == LET x == c[1]  y == d[1]  g == heads[x[1]]  h == heads[y[1]]
                      IN g < h \/ (g = h /\ (x[1] < y[1] \/ (x[1] = y[1] /\ x[2] < y[2])))
      inOrder == SortSeq(InAnyOrder(candidates), before)
      upto[n \in 0 .. Len(inOrder)] ==
        IF n = 0 THEN {}
        ELSE LET known == upto[n - 1] IN IF inOrder[n][2] \in known THEN known ELSE known \cup {inOrder[n][1]}
  IN upto[Len(inOrder)]

\* States split apart become one again, the least of each class.
RemoveSplits(f, merge) ==
  LET one(s) == Min0(Leads(merge \cup Back(merge), {s}))
  IN [f EXCEPT !.arcs = [s \in States(f) |-> [i \in DOMAIN f.arcs[s] |-> [f.arcs[s][i] EXCEPT !.nextstate = one(@)]]]]

RemoveAmbiguities(f, ambiguous) ==
  LET dead == NumStates(f)
      moved(s, i) == IF <<s, i>> \in ambiguous THEN [f.arcs[s][i] EXCEPT !.nextstate = dead] ELSE f.arcs[s][i]
      g == [f EXCEPT !.final = [s \in States(f) |-> IF <<s, 0>> \in ambiguous THEN Zero(f.kind) ELSE f.final[s]],
                     !.arcs = [s \in States(f) |-> [i \in DOMAIN f.arcs[s] |-> moved(s, i)]]]
  IN IF ambiguous = {} THEN f ELSE Connect(AddState(g))

\* What was split apart is put together, and then what comes together is taken apart.
Unsplit(g, found) == IF found.merge = {} THEN g ELSE RemoveSplits(g, found.merge)
Resolved(f, g, heads, found) ==
  IF found.merge # {} THEN Err(f) ELSE RemoveAmbiguities(g, MarkAmbiguities(found.candidates, heads))
Together(f, g, heads) == Resolved(f, g, heads, FindAmbiguities(g, heads))
Apart(f, pre, max_states) ==
  IF max_states # NO_STATE /\ NumStates(pre.fst) > max_states THEN Err(f)
  ELSE Together(f, Unsplit(ArcSort(pre.fst), FindAmbiguities(ArcSort(pre.fst), pre.heads)), pre.heads)

\* Refused when there are more than `max_states` states, if that is a number, or
\* when what was split apart stays so.
DisambiguateSorted(f, g, max_states) == Apart(f, PreDisambiguate(g, CommonFuture(Project(g, "input"))), max_states)
Disambiguate(f, max_states) == DisambiguateSorted(f, ArcSort(Connect(f)), max_states)
-----------------------------------------------------------------------------
(* Whether two automata are the same: equal.rs state by state, isomorphic.rs *)
(* up to the numbers of the states, equivalent.rs by what they accept.       *)

Acceptor(f) == \A a \in ArcsOf(f) : a.ilabel = a.olabel
Deterministic(f) == \A s \in States(f) : \A i, j \in DOMAIN f.arcs[s] : i # j => f.arcs[s][i].ilabel # f.arcs[s][j].ilabel
WeightedF(f) == \E w \in {a.weight : a \in ArcsOf(f)} \cup {f.final[s] : s \in Finals(f)} : w # One(f.kind)
AcyclicF(f)  == \A s \in States(f) : s \notin Leads(Steps(f), {a.nextstate : a \in Seqs!ToSet(f.arcs[s])})

Equal(f, g) == f.start = g.start /\ f.final = g.final /\ f.arcs = g.arcs

-----------------------------------------------------------------------------
(* Isomorphic: the states are paired breadth first along the arcs in order.*)

ByLabelsAndWeight(f) ==
  [f EXCEPT !.arcs = [s \in States(f) |-> SortSeq(f.arcs[s], LAMBDA a, b :
     \/ a.ilabel < b.ilabel
     \/ a.ilabel = b.ilabel /\ a.olabel < b.olabel
     \/ a.ilabel = b.ilabel /\ a.olabel = b.olabel /\ a.weight # b.weight /\ NaturalLess(f.kind, a.weight, b.weight)
     \/ [a EXCEPT !.nextstate = 0] = [b EXCEPT !.nextstate = 0] /\ a.nextstate < b.nextstate)]]

\* A state of the first is paired once; nothing keeps it from sharing its partner.
PairState(known, s, t) ==
  IF \E p \in known.pairs : p[1] = s THEN [known EXCEPT !.ok = <<s, t>> \in known.pairs]
  ELSE [known EXCEPT !.pairs = @ \cup {<<s, t>>}, !.queue = Append(@, <<s, t>>)]

\* The arcs of a pair one after the other.  Two alike leave the answer open should
\* it be no.
IsomorphicState(f, g, known) ==
  LET s == known.queue[1][1]  t == known.queue[1][2]
      as == f.arcs[s]  bs == g.arcs[t]
      alike(i) == i > 1 /\ [as[i] EXCEPT !.nextstate = 0] = [as[i - 1] EXCEPT !.nextstate = 0]
      upto[i \in 0 .. Len(as)] ==
        IF i = 0 THEN [known EXCEPT !.queue = Tail(@), !.ok = f.final[s] = g.final[t] /\ Len(as) = Len(bs)]
        ELSE LET k == upto[i - 1] IN
             IF ~k.ok THEN k
             ELSE IF [as[i] EXCEPT !.nextstate = 0] # [bs[i] EXCEPT !.nextstate = 0] THEN [k EXCEPT !.ok = FALSE]
             ELSE LET paired == PairState(k, as[i].nextstate, bs[i].nextstate)
                  IN IF paired.ok THEN [paired EXCEPT !.nondet = @ \/ alike(i)] ELSE paired
  IN upto[Len(as)]

IsomorphicSorted(f, g) ==
  LET first == [pairs |-> {<<f.start, g.start>>}, queue |-> <<<<f.start, g.start>>>>, ok |-> TRUE, nondet |-> FALSE]
      upto[n \in 0 .. NumStates(f)] ==
        IF n = 0 THEN first
        ELSE LET k == upto[n - 1] IN IF ~k.ok \/ k.queue = <<>> THEN k ELSE IsomorphicState(f, g, k)
      end == upto[NumStates(f)]
  IN IF NO_STATE \in {f.start, g.start} THEN IF f.start = g.start THEN "yes" ELSE "no"
     ELSE IF end.ok THEN "yes" ELSE IF end.nondet THEN "cannot tell" ELSE "no"
Isomorphic(f, g) == IsomorphicSorted(ByLabelsAndWeight(f), ByLabelsAndWeight(g))

-----------------------------------------------------------------------------
(* Equivalent: the states one string leads to are put in one class, and a  *)
(* state that accepts must not meet one that does not.                     *)

DEAD_STATE == NO_STATE
Side1(s) == <<1, s>>
Side2(s) == <<2, s>>
IsFinal(f, s) == s # DEAD_STATE /\ f.final[s] # Zero(f.kind)

\* Where a label leads, an arc of no weight leading nowhere.
To(f, s, label) ==
  LET arcs == IF s = DEAD_STATE THEN {} ELSE {a \in Seqs!ToSet(f.arcs[s]) : a.ilabel = label /\ a.weight # Zero(f.kind)}
  IN IF arcs = {} THEN DEAD_STATE ELSE (CHOOSE a \in arcs : TRUE).nextstate

\* Mutant: the pairs after two states that are in one class are looked at no more
\* once either state has been seen.
AlreadyOneSeen(classes, c, d) == \E x \in classes : Cardinality(x) > 1 /\ {c, d} \cap x # {}

AlreadyOne(classes, c, d) == \E x \in classes : {c, d} \subseteq x

\* Both dead states are one.
EquivalentUnweighted(f, g) ==
  LET id1(s) == IF s = DEAD_STATE THEN <<0, s>> ELSE Side1(s)
      id2(s) == IF s = DEAD_STATE THEN <<0, s>> ELSE Side2(s)
      labels == {a.ilabel : a \in ArcsOf(f) \cup ArcsOf(g)}
      apart(p) == IsFinal(f, p[1]) # IsFinal(g, p[2])
      step(k) ==
        LET p == k.queue[1]
            class(x) == {x} \cup UNION {c \in k.classes : x \in c}
            c == class(id1(p[1]))  d == class(id2(p[2]))
            next == {<<To(f, p[1], l), To(g, p[2], l)>> : l \in labels} \ {<<DEAD_STATE, DEAD_STATE>>}
        IN IF AlreadyOne(k.classes \cup {c, d}, id1(p[1]), id2(p[2])) THEN [k EXCEPT !.queue = Tail(@)]
           ELSE [classes |-> (k.classes \ {c, d}) \cup {c \cup d},
                 queue |-> Tail(k.queue) \o InAnyOrder(next), same |-> \A q \in next : ~apart(q)]
      Most == (NumStates(f) + NumStates(g) + 1) * (Cardinality(labels) + 1)
      upto[n \in 0 .. Most] ==
        IF n = 0 THEN [classes |-> {}, queue |-> <<<<f.start, g.start>>>>, same |-> ~apart(<<f.start, g.start>>)]
        ELSE LET k == upto[n - 1] IN IF k.queue = <<>> \/ ~k.same THEN k ELSE step(k)
  IN upto[Most].same

ENCODE_FLAGS == {"labels", "weights"}

\* Weights are made labels, by one table for both, once they are pushed.
EncodedFor(f, table) == Encode(PushWeights(f, "initial", FALSE), ENCODE_FLAGS, table)
EquivalentAsLabels(first, g) == EquivalentUnweighted(first.fst, EncodedFor(g, first.table).fst)
Fit(f) == Acceptor(f) /\ Deterministic(f) /\ ~\E a \in ArcsOf(f) : a.ilabel = EPSILON
Equivalent(f, g) ==
  IF ~Fit(f) \/ ~Fit(g) THEN "refused"
  ELSE IF (IF WeightedF(f) \/ WeightedF(g) THEN EquivalentAsLabels(EncodedFor(f, <<>>), g) ELSE EquivalentUnweighted(f, g))
       THEN "yes" ELSE "no"

-----------------------------------------------------------------------------
(***************************************************************************)
(* minimize of algorithms/minimize.rs over the partition of                *)
(* data_structures/partition.rs.                                           *)
(*                                                                         *)
(* Whatever is not an unweighted acceptor is made one first, by pushing    *)
(* and encoding, and its states are put in classes: an acyclic             *)
(* deterministic one by height (Revuz), any other by splitting classes     *)
(* that a label leads from to different classes (Hopcroft).  The states    *)
(* of a class become one.  The arcs of one label enter a class in an order *)
(* the code leaves to its sort; so it is left here.                        *)
(***************************************************************************)

CONSTANT Minimizations  \* what is asked: [fst, allow_nondet]

VARIABLES
  asked,      \* one of them
  work,       \* the acceptor whose states are merged
  table,      \* what its labels stand for
  partition,
  active,     \* Hopcroft: the classes to be split by, a stack
  entering,   \* the arcs into the class at hand not yet looked at
  label,      \* the label looked at
  height,     \* Revuz: the height at hand
  phase

mvars == <<asked, work, table, partition, active, entering, label, height, phase>>

-----------------------------------------------------------------------------
(* A partition: each class has two lists of its elements, those taken out  *)
(* to be split off (yes) and the others (no), threaded through them.       *)

NULL_ID == -1
NewClass == [size |-> 0, yes_size |-> 0, no_head |-> NULL_ID, yes_head |-> NULL_ID]
NewElement == [class_id |-> NULL_ID, yes |-> 0, next |-> NULL_ID, prev |-> NULL_ID]

NewPartition(n) ==
  [elements |-> [e \in 0 .. n - 1 |-> NewElement], classes |-> [c \in {} |-> NewClass], visited |-> <<>>, counter |-> 1]
NumClasses(p) == Cardinality(DOMAIN p.classes)
AllocateClasses(p, n) ==
  [p EXCEPT !.classes = [c \in 0 .. NumClasses(p) + n - 1 |-> IF c \in DOMAIN p.classes THEN p.classes[c] ELSE NewClass]]
ClassId(p, e) == p.elements[e].class_id

\* A link of the lists, where there is an element to hold it.
SetPrev(elements, e, to) == IF e = NULL_ID THEN elements ELSE [elements EXCEPT ![e].prev = to]
SetNext(elements, e, to) == IF e = NULL_ID THEN elements ELSE [elements EXCEPT ![e].next = to]

Add0(p, e, c) ==
  LET head == p.classes[c].no_head IN
  [p EXCEPT !.classes[c]  = [@ EXCEPT !.size = @ + 1, !.no_head = e],
            !.elements = [SetPrev(p.elements, head, e) EXCEPT
                            ![e] = [class_id |-> c, yes |-> 0, next |-> head, prev |-> NULL_ID]]]

\* Out of the list it is in, whose head it may be.
Unlinked(p, e) ==
  LET x == p.elements[e]  c == x.class_id IN
  [p EXCEPT !.classes[c].no_head = IF x.prev = NULL_ID THEN x.next ELSE @,
            !.elements = SetPrev(SetNext(p.elements, x.prev, x.next), x.next, x.prev)]

MoveElement(p, e, c) == Add0([Unlinked(p, e) EXCEPT !.classes[ClassId(p, e)].size = @ - 1], e, c)

\* Mutant: an element already taken out is taken out again.
SplitOnAgain(p, e) ==
  LET q == Unlinked(p, e)  c == ClassId(p, e)  head == q.classes[c].yes_head
  IN [q EXCEPT !.visited = IF head = NULL_ID THEN Append(@, c) ELSE @,
               !.elements = [SetPrev(q.elements, head, e) EXCEPT
                               ![e] = [@ EXCEPT !.yes = p.counter, !.next = head, !.prev = NULL_ID]],
               !.classes[c] = [@ EXCEPT !.yes_head = e, !.yes_size = @ + 1]]

SplitOn(p, e) ==
  LET q == Unlinked(p, e)  c == ClassId(p, e)  head == q.classes[c].yes_head
  IN IF p.elements[e].yes = p.counter THEN p
     ELSE [q EXCEPT !.visited = IF head = NULL_ID THEN Append(@, c) ELSE @,
                    !.elements = [SetPrev(q.elements, head, e) EXCEPT
                                    ![e] = [@ EXCEPT !.yes = p.counter, !.next = head, !.prev = NULL_ID]],
                    !.classes[c] = [@ EXCEPT !.yes_head = e, !.yes_size = @ + 1]]

\* A list from its head on.
ListFrom(p, head) ==
  LET n == Cardinality(DOMAIN p.elements)
      upto[i \in 0 .. n] ==
        IF i = 0 THEN [at |-> head, seen |-> <<>>]
        ELSE LET known == upto[i - 1]
             IN IF known.at = NULL_ID THEN known
                ELSE [at |-> p.elements[known.at].next, seen |-> Append(known.seen, known.at)]
  IN upto[n].seen
IterClass(p, c) == ListFrom(p, p.classes[c].no_head)

\* The smaller of the two lists becomes a class, unless all was taken out.
SplitRefine(p, c) ==
  LET class == p.classes[c]
      no_size == class.size - class.yes_size
      new == NumClasses(p)
      kept == IF no_size < class.yes_size THEN class.yes_head ELSE class.no_head
      off  == IF no_size < class.yes_size THEN class.no_head ELSE class.yes_head
      size == IF no_size < class.yes_size THEN no_size ELSE class.yes_size
      moved == Seqs!ToSet(ListFrom(p, off))
  IN IF no_size = 0
     THEN [p EXCEPT !.classes[c] = [@ EXCEPT !.no_head = class.yes_head, !.yes_head = NULL_ID, !.yes_size = 0]]
     ELSE [p EXCEPT !.classes = [x \in 0 .. new |->
                      IF x = new THEN [NewClass EXCEPT !.size = size, !.no_head = off]
                      ELSE IF x = c THEN [NewClass EXCEPT !.size = class.size - size, !.no_head = kept] ELSE p.classes[x]],
                    !.elements = [e \in DOMAIN p.elements |->
                      IF e \in moved THEN [p.elements[e] EXCEPT !.class_id = new] ELSE p.elements[e]]]

\* Every class that something was taken out of is split, and no element is out.
FinalizeSplit(p) ==
  LET upto[i \in 0 .. Len(p.visited)] == IF i = 0 THEN p ELSE LET q == upto[i - 1] IN SplitRefine(q, p.visited[i])
  IN [upto[Len(p.visited)] EXCEPT !.visited = <<>>, !.counter = @ + 1]

\* The classes that came of it, the last on top.
NewClasses(p, q) == [i \in 1 .. NumClasses(q) - NumClasses(p) |-> NumClasses(p) + i - 1]

-----------------------------------------------------------------------------
(* What is asked, as an unweighted acceptor.                               *)

Refused(what) ==
  ~Deterministic(what.fst) /\ (~what.allow_nondet \/ "idempotent" \notin Properties(what.fst.kind))

\* Labels and weights as near to the start as they go, and one label of both.
Prepared(f) ==
  IF Acceptor(f) /\ ~WeightedF(f) THEN [fst |-> f, table |-> <<>>]
  ELSE Encode(PushWeights(IF Acceptor(f) THEN f ELSE ToGallicMap(f, "left"), "initial", FALSE), ENCODE_FLAGS, <<>>)

\* And back.
SplitAgain(f, g) == IF g.error THEN Err(f) ELSE FromGallicMap(FactorWeight(g, "gallic", Both))
Restored(f, g) ==
  IF ~Acceptor(f) THEN SplitAgain(f, Decode(g, ENCODE_FLAGS, table))
  ELSE IF WeightedF(f) THEN Decode(g, ENCODE_FLAGS, table) ELSE g

-----------------------------------------------------------------------------
(* The classes to begin with.                                              *)

AddAll(p, classOf) ==
  LET n == Cardinality(DOMAIN classOf)
      upto[i \in 0 .. n] == IF i = 0 THEN p ELSE LET q == upto[i - 1] IN Add0(q, i - 1, classOf[i - 1])
  IN upto[n]

\* Mutant: whether the states end alike is not looked at.
SignatureOfLabels(f, s) == <<{a.ilabel : a \in Seqs!ToSet(f.arcs[s])}>>

\* Hopcroft: states that end alike and go on with the same labels, numbered as met.
Signature(f, s) == <<f.final[s], {a.ilabel : a \in Seqs!ToSet(f.arcs[s])}>>
HopcroftClasses(f) ==
  LET first == {s \in States(f) : \A r \in 0 .. s - 1 : Signature(f, r) # Signature(f, s)}
  IN [s \in States(f) |-> Cardinality({r \in first : r < CHOOSE x \in first : Signature(f, x) = Signature(f, s)})]

\* Revuz: the states by the longest way to where nothing goes on.
Heights(f) ==
  LET longest[n \in 0 .. NumStates(f)] ==
        IF n = 0 THEN [s \in States(f) |-> 0]
        ELSE LET h == longest[n - 1]
                 after(s) == {h[a.nextstate] + 1 : a \in Seqs!ToSet(f.arcs[s])}
             IN [s \in States(f) |-> IF after(s) = {} THEN 0 ELSE CHOOSE x \in after(s) : \A y \in after(s) : y <= x]
  IN longest[NumStates(f)]

Classed(classOf) ==
  LET most == CHOOSE c \in {classOf[s] : s \in DOMAIN classOf} : \A s \in DOMAIN classOf : classOf[s] <= c
  IN AddAll(AllocateClasses(NewPartition(Cardinality(DOMAIN classOf)), most + 1), classOf)

-----------------------------------------------------------------------------
MInit ==
  /\ asked \in Minimizations
  /\ work = asked.fst /\ table = <<>> /\ partition = NewPartition(0)
  /\ active = <<>> /\ entering = {} /\ label = NULL_ID /\ height = 0 /\ phase = "asked"

Refuse ==
  /\ phase = "asked" /\ Refused(asked)
  /\ work' = Err(asked.fst) /\ phase' = "done"
  /\ UNCHANGED <<asked, table, partition, active, entering, label, height>>

\* What can be reached and can end is classed, for one algorithm or the other.
Prepare ==
  /\ phase = "asked" /\ ~Refused(asked)
  /\ \E made \in {Prepared(asked.fst)} : work' = Connect(made.fst) /\ table' = made.table
  /\ LET revuz == AcyclicF(work') /\ Deterministic(work')
     IN IF work'.start = NO_STATE
        THEN phase' = "restore" /\ UNCHANGED <<partition, active>>
        ELSE /\ partition' = Classed(IF revuz THEN Heights(work') ELSE HopcroftClasses(work'))
             /\ active' = IF revuz THEN <<>> ELSE [c \in 1 .. NumClasses(partition') |-> c - 1]
             /\ phase' = IF revuz THEN "revuz" ELSE "hopcroft"
  /\ UNCHANGED <<asked, entering, label, height>>

\* The class on top of the stack, and all the arcs into it.
Dequeue ==
  LET members == Seqs!ToSet(IterClass(partition, active[Len(active)]))
  IN /\ phase = "hopcroft" /\ active # <<>>
     /\ entering' = UNION {{<<a.ilabel, s, a.nextstate>> : a \in {x \in Seqs!ToSet(work.arcs[s]) : x.nextstate \in members}} : s \in States(work)}
     /\ active' = SubSeq(active, 1, Len(active) - 1)
     /\ label' = NULL_ID /\ phase' = "splitting"
     /\ UNCHANGED <<asked, work, table, partition, height>>

\* Label by label, the states the arcs come from are taken out of their classes.
Split ==
  \E x \in entering :
    LET ends == label # x[1]
        p    == IF ends THEN FinalizeSplit(partition) ELSE partition
    IN /\ phase = "splitting" /\ \A y \in entering : x[1] <= y[1]
       /\ partition' = IF p.classes[ClassId(p, x[2])].size > 1 THEN SplitOn(p, x[2]) ELSE p
       /\ active' = active \o NewClasses(partition, p)
       /\ entering' = entering \ {x} /\ label' = x[1]
       /\ UNCHANGED <<asked, work, table, height, phase>>

EndClass ==
  /\ phase = "splitting" /\ entering = {}
  /\ partition' = FinalizeSplit(partition)
  /\ active' = active \o NewClasses(partition, partition')
  /\ phase' = "hopcroft"
  /\ UNCHANGED <<asked, work, table, entering, label, height>>

\* The states of one height that end alike and whose arcs lead to the same
\* classes stay together; the first of them keep the class.
Heighten ==
  LET p == partition
      told(s) == <<work.final[s], {<<a.ilabel, ClassId(p, a.nextstate)>> : a \in Seqs!ToSet(work.arcs[s])}>>
      members == IterClass(p, height)
      step(known, s) ==
        LET alike == {g \in known.groups : g[1] = told(s)}
            class == IF known.groups = {} THEN height ELSE NumClasses(known.p)
        IN IF alike # {}
           THEN LET g == CHOOSE x \in alike : TRUE
                IN IF g[2] = height THEN known ELSE [known EXCEPT !.p = MoveElement(@, s, g[2])]
           ELSE [groups |-> known.groups \cup {<<told(s), class>>},
                 p |-> IF class = height THEN known.p ELSE MoveElement(AllocateClasses(known.p, 1), s, class)]
      upto[i \in 0 .. Len(members)] ==
        IF i = 0 THEN [groups |-> {}, p |-> p] ELSE LET known == upto[i - 1] IN step(known, members[i])
  IN /\ phase = "revuz" /\ height \in {Heights(work)[s] : s \in States(work)}
     /\ partition' = upto[Len(members)].p
     /\ height' = height + 1
     /\ UNCHANGED <<asked, work, table, active, entering, label, phase>>

\* One state of each class is left, with the arcs of all of them.
Merge ==
  LET p == partition
      one(c) == IterClass(p, c)[1]
      over(c) == Seqs!FlattenSeq([i \in DOMAIN IterClass(p, c) |-> work.arcs[IterClass(p, c)[i]]])
      moved(as) == [i \in DOMAIN as |-> [as[i] EXCEPT !.nextstate = one(ClassId(p, @))]]
      left(s) == one(ClassId(p, s)) = s
      f == [work EXCEPT !.arcs = [s \in States(work) |-> IF left(s) THEN moved(over(ClassId(p, s))) ELSE work.arcs[s]],
                        !.start = one(ClassId(p, @))]
  IN /\ \/ phase = "hopcroft" /\ active = <<>>
        \/ phase = "revuz" /\ height \notin {Heights(work)[s] : s \in States(work)}
     /\ work' = ArcUnique(Connect(f)) /\ phase' = "restore"
     /\ UNCHANGED <<asked, table, partition, active, entering, label, height>>

Restore ==
  /\ phase = "restore"
  /\ work' = Restored(asked.fst, work) /\ phase' = "done"
  /\ UNCHANGED <<asked, table, partition, active, entering, label, height>>

MNext == Refuse \/ Prepare \/ Dequeue \/ Split \/ EndClass \/ Heighten \/ Merge \/ Restore
=============================================================================
