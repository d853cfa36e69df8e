----------------------------- MODULE MCAutomata -----------------------------
(***************************************************************************)
(* Three parts, one per behaviour.  The operations on an automaton of up to  *)
(* three states and three arcs, over arcs that are and are not epsilons,   *)
(* acceptors and weighted: a behaviour starts from what a caller has built *)
(* with them, and makes three more calls.  And the visitors of the         *)
(* depth-first search, over every automaton of three states whose states   *)
(* list the targets of their arcs upwards or downwards, from every start   *)
(* state.  And an automaton that is edited beside another, each call made  *)
(* on an automaton of its own as well, and what either looks like as other *)
(* types see it.                                                           *)
(***************************************************************************)
EXTENDS VectorFst, SequencesExt

CONSTANT Nowhere

VARIABLES  \* see Visitors
  visitor, graph, color, stack, dfs, root, nstates, siter, at,
  dfnumber, lowlink, onstack, scc_stack, scc, nscc, count, access, coaccess, props,
  finish, acyclic, comps, how, left, met, ofst

VARIABLE edit  \* an EditFst, see Views; fst is what the same calls make of its automaton

searching == <<visitor, graph, color, stack, dfs, root, nstates, siter, at,
               dfnumber, lowlink, onstack, scc_stack, scc, nscc, count, access, coaccess, props,
               finish, acyclic, comps, how, left, met, ofst>>

Both == [in |-> 0, out |-> 0, w |-> "one"]
Out  == [in |-> 0, out |-> 1, w |-> "one"]
Pair == [in |-> 2, out |-> 1, w |-> "w"]
Back == [in |-> 1, out |-> 2, w |-> "one"]
MCArcKinds == {Both, Out, Pair}
MCFinals == {"zero", "one", "w"}
MCMasks == {Trinary, {"I_DETERMINISTIC"}, {"WEIGHTED_CYCLES", "UNWEIGHTED_CYCLES"}}
MCRelabelings == {[in |-> [l \in 0 .. 2 |-> IF l = 2 THEN 0 ELSE 1], out |-> [l \in 0 .. 2 |-> l]]}

\* What the operations build: the bits are those they derive on the way.
Build(start, finals, arcs) ==
  LET blank == [s \in DOMAIN finals |-> s]
      states == FoldLeft(LAMBDA f, s : set_final(add_state(f), s, finals[s]), EmptyFst, blank)
      filled == FoldLeft(LAMBDA f, s : add_arcs(f, s, arcs[s]), states, blank)
  IN  IF start = None THEN filled ELSE set_start(filled, start)
MCSeeds ==
  {EmptyFst,
   Build(1, <<"zero", "w">>, << <<Arc(Both, 2)>>, <<>> >>),
   Build(1, <<"one", "one">>, << <<Arc(Out, 1), Arc(Pair, 2)>>, <<>> >>),
   Build(2, <<"zero", "w">>, << <<Arc(Pair, 2)>>, <<Arc(Both, 1)>> >>),
   Build(2, <<"w", "zero">>, << <<>>, <<Arc(Pair, 1), Arc(Out, 1)>> >>),
   Build(1, <<"zero", "one">>, << <<Arc(Pair, 2), Arc(Pair, 1)>>, <<>> >>),
   Build(1, <<"w", "zero">>, << <<Arc(Out, 2)>>, <<Arc(Pair, 1)>> >>),
   Build(None, <<"one", "zero">>, << <<Arc(Pair, 2)>>, <<Arc(Pair, 1)>> >>),
   Build(None, <<"zero", "w">>, << <<Arc(Out, 2)>>, <<>> >>)}
MCOthers ==
  {cached_properties(f, Trinary) : f \in
    {Build(1, <<"zero", "w">>, << <<Arc(Back, 2)>>, <<>> >>),
     Build(1, <<"one">>, << <<Arc(Pair, 1)>> >>),
     Build(2, <<"zero", "one">>, << <<Arc(Out, 1)>>, <<>> >>)}}

-----------------------------------------------------------------------------
Up(S)    == SetToSortSeq(S, <)
Listings == {Up(S) : S \in SUBSET (0 .. 2)} \cup {SetToSortSeq(S, >) : S \in SUBSET (0 .. 2)}

\* The arcs of the last state are listed upwards.
Fans == {arcs \in [0 .. 2 -> Listings] : arcs[2] = Up(ToSet(arcs[2]))}

Graphs ==
  [start : 0 .. 2, arcs : Fans, final : {{1}}, known : {TRUE}]
    \cup [start : {0, 2}, arcs : [0 .. 2 -> {Up(S) : S \in SUBSET (0 .. 2)}], final : {{0, 2}}, known : {FALSE}]
    \cup [start : {Nowhere}, arcs : {[s \in 0 .. 2 |-> <<0>>]}, final : {{}}, known : BOOLEAN]

\* Visited by a queue: those listed upwards, of known and unknown size, whose last
\* state leads nowhere, back to the first or on to the other two.
UpGraphs ==
  {g \in Graphs : /\ \A s \in DOMAIN g.arcs : g.arcs[s] = Up(ToSet(g.arcs[s]))
                  /\ g.arcs[2] \in {<<>>, <<0>>, <<1, 2>>}}
MCVisited == {g \in UpGraphs : <<g.start, g.known, g.final>> \in {<<0, FALSE, {0, 2}>>, <<1, TRUE, {1}>>}}

Way(queue, dropped, access_only, maxvisit, copy_grey, copy_black) ==
  [queue |-> queue, dropped |-> dropped, access_only |-> access_only,
   maxvisit |-> maxvisit, copy_grey |-> copy_grey, copy_black |-> copy_black]
MCWays ==
  UNION {{Way(q, {}, FALSE, 9, TRUE, TRUE)} \cup {Way(q, {}, FALSE, m, FALSE, FALSE) : m \in {0, 2, 9}}
           \cup {Way(q, {<<0, 1>>, <<1, 2>>, <<2, 2>>}, a, 9, TRUE, TRUE) : a \in BOOLEAN}
           \cup {Way(q, {}, TRUE, 9, TRUE, FALSE), Way(q, {}, TRUE, 1, FALSE, TRUE)} :
         q \in {"lifo", "fifo", "state"}}

\* Drawn from: a line, a line with a shortcut, branches and loops with and without
\* an end, and a start that leads nowhere.
MCDrawn ==
  {g \in MCVisited : g.start = 0 /\ <<g.arcs[0], g.arcs[1], g.arcs[2]>> \in
     {<< <<1>>, <<2>>, <<>> >>, << <<1, 2>>, <<2>>, <<>> >>, << <<0, 1>>, <<0, 2>>, <<0>> >>,
      << <<1, 2>>, <<>>, <<0>> >>, << <<0, 1, 2>>, <<1>>, <<1, 2>> >>, << <<>>, <<0>>, <<>> >>} }

MCDraws ==
  [npath : 0 .. 3, max_length : {2, Nowhere}, weighted : BOOLEAN, remove_total_weight : BOOLEAN]

MCWeighings ==
  {[s \in 0 .. 2 |-> ws] : ws \in {<<"one", "lighter", "heavier">>, <<"zero", "heavier", "one">>, <<"one", "zero", "one">>}}
    \cup {[s \in 0 .. 2 |-> IF s = 0 THEN <<"one", "one", "one">> ELSE <<"heavier", "one", "lighter">>]}
MCRings == {ring \in [idempotent : BOOLEAN, path : BOOLEAN, comp : BOOLEAN] : ring.path => ring.idempotent}

V == INSTANCE Visitors WITH
  fst <- graph, N <- 3, None <- Nowhere, Fsts <- Graphs, Visited <- MCVisited, Ways <- MCWays,
  Drawn <- MCDrawn, Draws <- MCDraws, Weighings <- MCWeighings, Rings <- MCRings

ASSUME GraphsAssumption ==
  V!FstsAssumption /\ V!WaysAssumption /\ MCDraws \subseteq V!DrawsType /\ MCRings \subseteq V!RingsType

-----------------------------------------------------------------------------
(* Automata as other types see them.                                       *)

VW == INSTANCE Views

Same1 == [in |-> 1, out |-> 1, w |-> "one"]
Same2 == [in |-> 2, out |-> 2, w |-> "one"]
ViewSeeds ==
  {[fst |-> Build(1, <<"zero", "w">>, << <<Arc(Both, 2)>>, <<>> >>), type |-> "vector"],
   [fst |-> Build(1, <<"one", "zero">>, << <<Arc(Same1, 1), Arc(Same2, 2)>>, <<>> >>), type |-> "const"],
   [fst |-> Build(None, <<"one">>, << <<>> >>), type |-> "unweighted"]}
  \cup {[fst |-> cached_properties(Build(1, <<"zero", "one">>, << <<Arc(Same2, 2)>>, <<>> >>), Trinary), type |-> t] :
          t \in {"string", "acceptor"}}

EditInit ==
  \E seed \in ViewSeeds : fst = seed.fst /\ edit = VW!NewEdit(fst, seed.type) /\ fresh = TRUE /\ call = Plain /\ calls = 0

Editing(e, f) == edit' = e /\ fst' = f /\ calls' = calls + 1 /\ UNCHANGED <<fresh, call>>
\* Bound: calls are made at the first and the last state.
Touched == {1, Len(fst.states)}
EditMutate(s, kind) ==
  LET new == [ArcsOf(fst, s) EXCEPT ![1] = Arc(kind, s)]
  IN  /\ edit' = VW!edit_mutate_arcs(edit, s, new) /\ fst' = mutate_arcs(fst, s, new)
      /\ fresh' = FALSE /\ calls' = calls + 1 /\ UNCHANGED call
Reread ==
  /\ edit' = VW!ReadEdit(VW!WriteEdit(<<>>, edit, FALSE), 0, TRUE).edit
  /\ fst' = VW!ReadVector(VW!WriteVector(<<>>, fst), 0, TRUE).fst
  /\ fresh' = TRUE /\ calls' = calls + 1 /\ UNCHANGED call

EditNext ==
  /\ calls < MaxCalls
  /\ \/ \E s \in Touched :
          \/ s # fst.start /\ Editing(VW!edit_set_start(edit, s), set_start(fst, s))
          \/ \E w \in Finals : w # fst.states[s].final /\ Editing(VW!edit_set_final(edit, s, w), set_final(fst, s, w))
          \/ \E arc \in {Arc(Same1, 1), Arc(Out, Len(fst.states))} :
               Editing(VW!edit_add_arc(edit, s, arc), add_arc(fst, s, arc))
          \/ ArcsOf(fst, s) # <<>> /\ Editing(VW!edit_delete_arcs(edit, s), delete_arcs(fst, s))
          \/ ArcsOf(fst, s) # <<>> /\ Editing(VW!edit_delete_arcs_n(edit, s, 1), delete_arcs_n(fst, s, 1))
          \/ \E kind \in {Both, Pair} : ArcsOf(fst, s) # <<>> /\ EditMutate(s, kind)
     \/ Editing(VW!edit_add_state(edit), add_state(fst))
     \/ \E mask \in Masks : fst.start # None /\ Editing(VW!edit_properties(edit, mask), cached_properties(fst, mask))
     \/ Reread

-----------------------------------------------------------------------------
MCInit ==
  \/ V!Init /\ fst = EmptyFst /\ fresh = TRUE /\ call = Plain /\ calls = MaxCalls /\ edit = Nowhere
  \/ V!Idle /\ Init /\ edit = Nowhere
  \/ V!Idle /\ EditInit

MCNext ==
  \/ V!Next /\ UNCHANGED <<vars, edit>>
  \/ visitor = "None" /\ edit = Nowhere /\ Next /\ UNCHANGED <<searching, edit>>
  \/ visitor = "None" /\ edit # Nowhere /\ EditNext /\ UNCHANGED searching

MCSpec == MCInit /\ [][MCNext]_<<vars, searching, edit>> /\ V!Fairness

-----------------------------------------------------------------------------
(* What is seen is what there is.                                          *)

Alike(f, g) == f.start = g.start /\ f.states = g.states
Recounted(f) == [f EXCEPT !.states = [s \in DOMAIN @ |-> VW!StateOf(@[s].final, @[s].arcs)]]
Claims(f) == f.props \subseteq Holding(f)

\* What was compacted is refused only for want of a bit it needs.
Rereads(c, f, align) ==
  \A read \in {VW!ReadCompact(VW!WriteCompact(<<>>, c, align), 0)} : ~read.error /\ read.fst = f
Recovers(c, g, f) == Alike(g, Recounted(f)) /\ Claims(g) /\ \A align \in BOOLEAN : Rereads(c, g, align)
CompactsTheSame(f) ==
  \A k \in VW!Compactors : \A c \in {VW!compact_new(f, k)} :
    IF c.error THEN ~(VW!compactor_properties(k) \subseteq Holding(f)) ELSE Recovers(c, VW!FromCompact(c), f)

\* In one block, and read back, with the counts it was given.
LaysOutTheSame(f) ==
  /\ \A c \in {VW!FromConst(VW!ConstFrom(f, TRUE))} :
       Alike(c, Recounted(f)) /\ c.props = Holding(f) /\ VW!FromConst(VW!ConstFrom(c, FALSE)) = c
  /\ \A align \in BOOLEAN : \A read \in {VW!ReadConst(VW!WriteConst(<<>>, f, align), 0, TRUE)} :
       ~read.error /\ Alike(read.fst, f) /\ Claims(read.fst)
  /\ \A on \in {VW!ReadAddOn(VW!WriteAddOn(<<>>, f, "const", FALSE, {"first"}), 0, TRUE)} :
       ~on.error /\ Alike(on.fst, f) /\ on.halves = {"first"}

Alphabet == {1, 2}
Texts == {<<>>} \cup {<<a>> : a \in Alphabet} \cup {<<a, b>> : a \in Alphabet, b \in Alphabet}
\* Where a label leads: by its arc, or else by the one for the rest.
Follow(f, s, a) ==
  LET by(l) == IF s = None THEN <<>> ELSE SelectSeq(ArcsOf(f, s), LAMBDA x : x.in = l)
  IN  IF by(a) # <<>> THEN by(a)[1].next ELSE IF by(VW!RHO) # <<>> THEN by(VW!RHO)[1].next ELSE None
AcceptsText(f, u) ==
  LET end == FoldLeft(LAMBDA s, a : Follow(f, s, a), f.start, u) IN end # None /\ FinalState(f, end)
ComplementsRight(f) ==
  LET c == VW!Complement(f)
  IN  IF c.error THEN ~(VW!ToComplement \subseteq Holding(f))
      ELSE /\ \A u \in Texts : AcceptsText(c, u) = ~AcceptsText(f, u)
           /\ c.props \ Access \subseteq Holding(c)

\* The bits that a merge's arcs and ends cannot take from either side.
KeptByMerging ==
  (Labels \cup {"UNWEIGHTED", "CYCLIC", "INITIAL_CYCLIC", "NOT_TOP_SORTED", "WEIGHTED_CYCLES"})
    \ {"I_DETERMINISTIC", "O_DETERMINISTIC", "I_LABEL_SORTED", "O_LABEL_SORTED"}
Grafted(n) == Build(None, <<"one", "w">>, << <<Arc(Same1, 1)>>, <<Arc(Pair, n + 1), Arc(Same2, 1)>> >>)
MergesRight(f) ==
  LET n == Len(f.states)
      graft == Grafted(n)
      m == VW!merge_new(f, graft, (n + 1 :> 1) @@ (1 :> 2))
      byhand == add_arcs(add_arcs(set_final(set_final(add_state(f), n + 1, "one"), 1, VW!Plus(f.states[1].final, "w")),
                                  n + 1, ArcsOf(graft, 1)), 1, ArcsOf(graft, 2))
  IN  /\ ~m.error /\ Alike(VW!Merged(m), byhand) /\ m.props \cap KeptByMerging \subseteq Holding(byhand)
      /\ \A map \in {(1 :> 1), (1 :> 2) @@ (n + 1 :> 2), (1 :> 2) @@ (n + 1 :> 3)} : VW!merge_new(f, graft, map).error

\* An automaton edited beside what it wraps is, state by state, the one on which the
\* same calls were made, and claims only bits that hold; laid out in one block,
\* compacted, or written and read, it is the same again, or refused for want of a
\* bit that is asked for; its complement accepts what it does not; and a second
\* automaton grafted onto it is what adding the states and arcs by hand makes.
ViewsSayTheSame ==
  edit # Nowhere =>
    /\ Alike(VW!Viewed(edit), fst) /\ edit.props \subseteq Holding(fst)
    /\ \A f \in {VW!Viewed(edit)} : fst.start # None => CompactsTheSame(f) /\ LaysOutTheSame(f)
    /\ ComplementsRight(fst) /\ MergesRight(fst)

-----------------------------------------------------------------------------
(* What the searches answer: see Visitors.                                 *)

\* When a search is over, the components, their numbers, the states connect
\* keeps, the property bits and the topological order are those of the
\* automaton, and while it runs what is open is connected as it should be.
\* A union-find's sets hold only states that arcs connect.
VisitorsAnswerRight == V!VisitorsAnswerRight /\ V!UnionsAreJustified

\* "Finds and returns connected components": states are in one set exactly
\* when arcs, taken either way, connect them.
ComponentsAreFound == V!ComponentsAreFound

\* The search ends: every state is opened once and every arc taken once.
Terminates == V!Terminates
=============================================================================
