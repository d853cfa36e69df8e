------------------------------ MODULE VectorFst ------------------------------
(***************************************************************************)
(* sicada/src/fsts/vector_fst.rs: an automaton that is changed in place and *)
(* keeps, with every change, its property bits and the epsilon counts of    *)
(* its states; the scan of algorithms/test_properties.rs that settles the   *)
(* bits not known; and the algorithms that rebuild an automaton through     *)
(* those operations and then say which bits the result has.  States are     *)
(* numbered from 1 here, from 0 in the code.                                *)
(***************************************************************************)
EXTENDS Integers, Sequences, FiniteSets
LOCAL INSTANCE SequencesExt
LOCAL INSTANCE FiniteSetsExt

CONSTANTS
  ArcKinds,    \* the arcs added, as [in, out, w]
  Finals,      \* the final weights set: "zero" is not final
  Masks,       \* the masks of properties(mask, true)
  Relabelings, \* the maps of labels relabel is called with, as [in, out]
  Seeds,       \* what callers built before the first call
  Others,      \* second automata of concat and union, their bits all known
  MaxStates,   \* bound: states of an automaton that calls still change
  MaxArcs,     \* bound: its arcs
  MaxCalls,    \* bound: calls
  Careless     \* what callers do that the bits do not survive: "scan", "reverse" or
               \* "union" into states without a start, or "map" the labels of no arcs

VARIABLES
  fst,    \* [start, states, props]; start is None or a state
  fresh,  \* history: no arc was rewritten in place since the last count
  call,   \* history: the last call if an algorithm, with what its arguments accepted
  calls   \* history: how many calls there were

-----------------------------------------------------------------------------
(* The property bits of sicada/src/properties.rs and the rules by which    *)
(* each operation derives the bits of its result from those of its input.  *)
(* A set of bits stands for the word; a bit that is absent together with   *)
(* its opposite is unknown.  The binary bits are left out: expanded and    *)
(* mutable never change here, and error is set with an Err that ends the   *)
(* caller's use of the automaton.                                          *)

Pairs ==
  {<<"ACCEPTOR", "NOT_ACCEPTOR">>,
   <<"I_DETERMINISTIC", "NON_I_DETERMINISTIC">>, <<"O_DETERMINISTIC", "NON_O_DETERMINISTIC">>,
   <<"EPSILONS", "NO_EPSILONS">>,
   <<"I_EPSILONS", "NO_I_EPSILONS">>, <<"O_EPSILONS", "NO_O_EPSILONS">>,
   <<"I_LABEL_SORTED", "NOT_I_LABEL_SORTED">>, <<"O_LABEL_SORTED", "NOT_O_LABEL_SORTED">>,
   <<"WEIGHTED", "UNWEIGHTED">>, <<"CYCLIC", "ACYCLIC">>,
   <<"INITIAL_CYCLIC", "INITIAL_ACYCLIC">>, <<"TOP_SORTED", "NOT_TOP_SORTED">>,
   <<"ACCESSIBLE", "NOT_ACCESSIBLE">>, <<"CO_ACCESSIBLE", "NOT_CO_ACCESSIBLE">>,
   <<"STRING", "NOT_STRING">>, <<"WEIGHTED_CYCLES", "UNWEIGHTED_CYCLES">>}

Trinary == UNION {{p[1], p[2]} : p \in Pairs}

\* A settled bit settles its opposite.
known_properties(props) == UNION {{p[1], p[2]} : p \in {q \in Pairs : {q[1], q[2]} \cap props # {}}}

Bit(b, holds) == IF holds THEN {b} ELSE {}

-----------------------------------------------------------------------------
(* The bits each family of operations leaves alone *)

Acceptance == {"ACCEPTOR", "NOT_ACCEPTOR"}
Epsilons   == {"EPSILONS", "NO_EPSILONS"}
InputSide  == {"I_DETERMINISTIC", "NON_I_DETERMINISTIC", "I_EPSILONS", "NO_I_EPSILONS",
               "I_LABEL_SORTED", "NOT_I_LABEL_SORTED"}
OutputSide == {"O_DETERMINISTIC", "NON_O_DETERMINISTIC", "O_EPSILONS", "NO_O_EPSILONS",
               "O_LABEL_SORTED", "NOT_O_LABEL_SORTED"}
Labels     == Acceptance \cup Epsilons \cup InputSide \cup OutputSide
Sorted     == {"I_LABEL_SORTED", "NOT_I_LABEL_SORTED", "O_LABEL_SORTED", "NOT_O_LABEL_SORTED"}
Weights    == {"WEIGHTED", "UNWEIGHTED"}
Cycles     == {"WEIGHTED_CYCLES", "UNWEIGHTED_CYCLES"}
Initial    == {"INITIAL_CYCLIC", "INITIAL_ACYCLIC"}
Access     == {"ACCESSIBLE", "NOT_ACCESSIBLE"}
CoAccess   == {"CO_ACCESSIBLE", "NOT_CO_ACCESSIBLE"}
Strings    == {"STRING", "NOT_STRING"}
TopSorted  == {"TOP_SORTED", "NOT_TOP_SORTED"}

\* What the automaton without states has.
NULL_PROPERTIES ==
  {"ACCEPTOR", "I_DETERMINISTIC", "O_DETERMINISTIC", "NO_EPSILONS", "NO_I_EPSILONS",
   "NO_O_EPSILONS", "I_LABEL_SORTED", "O_LABEL_SORTED", "UNWEIGHTED", "ACYCLIC",
   "INITIAL_ACYCLIC", "TOP_SORTED", "ACCESSIBLE", "CO_ACCESSIBLE", "STRING",
   "UNWEIGHTED_CYCLES"}

SET_START_PROPERTIES == Trinary \ (Initial \cup Access \cup Strings)
SET_FINAL_PROPERTIES == Trinary \ (CoAccess \cup Strings)
ADD_STATE_PROPERTIES == Trinary \ {"ACCESSIBLE", "CO_ACCESSIBLE", "STRING"}
ADD_ARC_PROPERTIES   ==
  Trinary \ ({"I_DETERMINISTIC", "O_DETERMINISTIC", "ACYCLIC", "INITIAL_ACYCLIC",
              "NOT_ACCESSIBLE", "NOT_CO_ACCESSIBLE", "UNWEIGHTED_CYCLES"} \cup Strings)
SET_ARC_PROPERTIES   == Acceptance \cup Epsilons \cup Weights \cup
  {"I_EPSILONS", "NO_I_EPSILONS", "O_EPSILONS", "NO_O_EPSILONS"}
DELETE_STATES_PROPERTIES == NULL_PROPERTIES \ {"ACCESSIBLE", "CO_ACCESSIBLE", "STRING"}
DELETE_ARCS_PROPERTIES == DELETE_STATES_PROPERTIES \cup {"NOT_ACCESSIBLE", "NOT_CO_ACCESSIBLE"}
STATE_SORT_PROPERTIES  == Trinary \ (TopSorted \cup Strings)
ARC_SORT_PROPERTIES    == Trinary \ Sorted
WEIGHT_INVARIANT_PROPERTIES == Trinary \ (Weights \cup Cycles)
ADD_SUPER_FINAL_PROPERTIES ==
  Trinary \ {"I_DETERMINISTIC", "O_DETERMINISTIC", "NO_EPSILONS", "NO_I_EPSILONS",
             "NO_O_EPSILONS", "I_LABEL_SORTED", "O_LABEL_SORTED", "TOP_SORTED",
             "ACCESSIBLE", "STRING"}

-----------------------------------------------------------------------------
(* One mutation each.  An arc is [in, out, w, next]; weights are given by  *)
(* whether they are neither zero nor one.                                  *)

set_start_properties(inprops) ==
  (inprops \cap SET_START_PROPERTIES) \cup Bit("INITIAL_ACYCLIC", "ACYCLIC" \in inprops)

set_final_properties(inprops, oldWeighted, newWeighted) ==
  ((inprops \ (Bit("WEIGHTED", oldWeighted) \cup Bit("UNWEIGHTED", newWeighted)))
     \cup Bit("WEIGHTED", newWeighted)) \cap SET_FINAL_PROPERTIES

\* What an arc on its own makes true, and false.
Forced(arc, weighted) ==
  Bit("NOT_ACCEPTOR", arc.in # arc.out) \cup Bit("I_EPSILONS", arc.in = 0)
    \cup Bit("O_EPSILONS", arc.out = 0) \cup Bit("EPSILONS", arc.in = 0 /\ arc.out = 0)
    \cup Bit("WEIGHTED", weighted)
Refuted(bits) == known_properties(bits) \ bits

\* prev is the sequence of the arcs before it at state s: its last counts.
add_arc_properties(inprops, s, arc, weighted, prev) ==
  LET last   == prev[Len(prev)]
      forced == Forced(arc, weighted)
        \cup Bit("NOT_I_LABEL_SORTED", prev # <<>> /\ last.in > arc.in)
        \cup Bit("NOT_O_LABEL_SORTED", prev # <<>> /\ last.out > arc.out)
        \cup Bit("NOT_TOP_SORTED", arc.next <= s)
      kept   == ((inprops \ Refuted(forced)) \cup forced) \cap ADD_ARC_PROPERTIES
  IN  kept \cup (IF "TOP_SORTED" \in kept THEN {"ACYCLIC", "INITIAL_ACYCLIC"} ELSE {})

\* What the old arc alone may have justified becomes unknown.
set_arc_properties(inprops, old, oldWeighted, new, newWeighted) ==
  LET forced == Forced(new, newWeighted)
  IN  (((inprops \ Forced(old, oldWeighted)) \ Refuted(forced)) \cup forced)
        \cap SET_ARC_PROPERTIES

delete_states_properties(inprops) == inprops \cap DELETE_STATES_PROPERTIES
delete_arcs_properties(inprops) == inprops \cap DELETE_ARCS_PROPERTIES

-----------------------------------------------------------------------------
(* Whole operations; those with a delayed form are the ones done at once *)

\* Each bit of one side is the other side's.
OtherSide(b) ==
  CASE b = "I_DETERMINISTIC" -> "O_DETERMINISTIC"
    [] b = "O_DETERMINISTIC" -> "I_DETERMINISTIC"
    [] b = "NON_I_DETERMINISTIC" -> "NON_O_DETERMINISTIC"
    [] b = "NON_O_DETERMINISTIC" -> "NON_I_DETERMINISTIC"
    [] b = "I_EPSILONS" -> "O_EPSILONS" [] b = "O_EPSILONS" -> "I_EPSILONS"
    [] b = "NO_I_EPSILONS" -> "NO_O_EPSILONS" [] b = "NO_O_EPSILONS" -> "NO_I_EPSILONS"
    [] b = "I_LABEL_SORTED" -> "O_LABEL_SORTED" [] b = "O_LABEL_SORTED" -> "I_LABEL_SORTED"
    [] b = "NOT_I_LABEL_SORTED" -> "NOT_O_LABEL_SORTED"
    [] b = "NOT_O_LABEL_SORTED" -> "NOT_I_LABEL_SORTED"
    [] OTHER -> b

invert_properties(inprops) == {OtherSide(b) : b \in inprops}

relabel_properties(inprops) == inprops \ Labels

project_properties(inprops, project_input) ==
  LET kept == inprops \cap (IF project_input THEN InputSide ELSE OutputSide)
  IN  {"ACCEPTOR"} \cup (inprops \ Labels) \cup kept \cup {OtherSide(b) : b \in kept}
        \cup Bit("EPSILONS", kept \cap {"I_EPSILONS", "O_EPSILONS"} # {})
        \cup Bit("NO_EPSILONS", kept \cap {"NO_I_EPSILONS", "NO_O_EPSILONS"} # {})

\* The bits that one part of the result is enough to make true.
Witnessed == {"NOT_ACCEPTOR", "NON_I_DETERMINISTIC", "NON_O_DETERMINISTIC",
              "NOT_I_LABEL_SORTED", "NOT_O_LABEL_SORTED", "WEIGHTED", "WEIGHTED_CYCLES",
              "NOT_ACCESSIBLE"}
WitnessedToo == Witnessed \cup {"EPSILONS", "I_EPSILONS", "O_EPSILONS", "CYCLIC"}

closure_properties(inprops) ==
  (inprops \cap (Witnessed \cup {"NOT_CO_ACCESSIBLE", "ACCEPTOR", "UNWEIGHTED", "ACCESSIBLE",
                                 "CO_ACCESSIBLE", "NOT_TOP_SORTED", "NOT_STRING"}))
    \cup Bit("UNWEIGHTED_CYCLES", "UNWEIGHTED" \in inprops)
    \cup Bit("WEIGHTED_CYCLES", {"WEIGHTED", "ACCESSIBLE", "CO_ACCESSIBLE"} \subseteq inprops)

\* Mutant: the second automaton's states are as reachable as they were.
concat_properties_Reachable(inprops1, inprops2) ==
  (inprops1 \cap inprops2 \cap {"ACCEPTOR", "UNWEIGHTED", "UNWEIGHTED_CYCLES", "ACYCLIC"})
    \cup ((inprops1 \cup inprops2) \cap {"NOT_TOP_SORTED", "NOT_STRING"})
    \cup (inprops1 \cap (Initial \cup WitnessedToo \cup {"NOT_CO_ACCESSIBLE"}))
    \cup (inprops2 \cap (WitnessedToo \cup {"NOT_CO_ACCESSIBLE", "ACCESSIBLE", "CO_ACCESSIBLE"}))

concat_properties(inprops1, inprops2) ==
  (inprops1 \cap inprops2 \cap {"ACCEPTOR", "UNWEIGHTED", "UNWEIGHTED_CYCLES", "ACYCLIC"})
    \cup ((inprops1 \cup inprops2) \cap {"NOT_TOP_SORTED", "NOT_STRING"})
    \cup (inprops1 \cap (Initial \cup WitnessedToo \cup {"NOT_CO_ACCESSIBLE"}))
    \cup (IF {"ACCESSIBLE", "CO_ACCESSIBLE"} \subseteq inprops1
          THEN inprops2 \cap (WitnessedToo \cup
                 {"NOT_CO_ACCESSIBLE", "ACCESSIBLE", "CO_ACCESSIBLE"})
          ELSE {})

union_properties(inprops1, inprops2) ==
  (inprops1 \cap inprops2 \cap
     {"ACCEPTOR", "UNWEIGHTED", "UNWEIGHTED_CYCLES", "ACYCLIC", "ACCESSIBLE", "CO_ACCESSIBLE"})
    \cup {"INITIAL_ACYCLIC", "EPSILONS", "I_EPSILONS", "O_EPSILONS"}
    \cup ((inprops1 \cup inprops2) \cap (WitnessedToo \cup {"NOT_TOP_SORTED"}))
    \cup (inprops2 \cap {"NOT_CO_ACCESSIBLE"})

reverse_properties(inprops, has_superinitial) ==
  inprops \cap (Acceptance \cup Cycles \cup {"EPSILONS", "I_EPSILONS", "O_EPSILONS",
                 "UNWEIGHTED", "CYCLIC", "ACYCLIC"} \cup Bit("WEIGHTED", has_superinitial))

-----------------------------------------------------------------------------
vars == <<fst, fresh, call, calls>>

None == 0
Weighted(w) == w \notin {"zero", "one"}
Times(v, w) == IF "zero" \in {v, w} THEN "zero" ELSE IF v = "one" THEN w ELSE v

State(f) == DOMAIN f.states
ArcsOf(f, s) == f.states[s].arcs
AllArcs(f) == UNION {{<<s, ArcsOf(f, s)[k]>> : k \in DOMAIN ArcsOf(f, s)} : s \in State(f)}
CountEps(arcs) == [ieps |-> Cardinality({k \in DOMAIN arcs : arcs[k].in = 0}),
                   oeps |-> Cardinality({k \in DOMAIN arcs : arcs[k].out = 0})]

-----------------------------------------------------------------------------
(* The operations of MutableFst, each with its rule for the bits *)

NewState == [final |-> "zero", arcs |-> <<>>, ieps |-> 0, oeps |-> 0]
EmptyFst == [start |-> None, states |-> <<>>, props |-> NULL_PROPERTIES]

set_start(f, s) == [f EXCEPT !.start = s, !.props = set_start_properties(@)]

set_final(f, s, w) ==
  [f EXCEPT !.states[s].final = w,
            !.props = set_final_properties(@, Weighted(f.states[s].final), Weighted(w))]

add_state(f) == [f EXCEPT !.states = Append(@, NewState), !.props = @ \cap ADD_STATE_PROPERTIES]

\* Counts are kept incrementally by what is added and taken away.
Counted(state, arc, by) ==
  [state EXCEPT !.ieps = IF arc.in = 0 THEN @ + by ELSE @,
                !.oeps = IF arc.out = 0 THEN @ + by ELSE @]

add_arc(f, s, arc) ==
  [f EXCEPT !.states[s] = [Counted(@, arc, 1) EXCEPT !.arcs = Append(@, arc)],
            !.props = add_arc_properties(@, s, arc, Weighted(arc.w), ArcsOf(f, s))]

add_arcs(f, s, arcs) == FoldLeft(LAMBDA g, arc : add_arc(g, s, arc), f, arcs)

\* The last arc is popped; delete_arcs_n pops as many as there are of n.
Pop(state) ==
  LET n == Len(state.arcs)
  IN  [Counted(state, state.arcs[n], -1) EXCEPT !.arcs = SubSeq(@, 1, n - 1)]

delete_arcs_n(f, s, n) ==
  LET popped[k \in Nat] == IF k = 0 THEN f.states[s] ELSE Pop(popped[k - 1])
  IN  [f EXCEPT !.states[s] = popped[Min({n, Len(ArcsOf(f, s))})],
                !.props = delete_arcs_properties(@)]

delete_arcs(f, s) ==
  [f EXCEPT !.states[s] = [NewState EXCEPT !.final = f.states[s].final],
            !.props = delete_arcs_properties(@)]

\* The states left are renumbered in their order; the arcs into dead ones go,
\* and the counts are taken afresh.  With nothing to delete it returns early.
delete_states(f, dead) ==
  LET kept  == SetToSortSeq(State(f) \ dead, <)
      newid == [s \in State(f) \ dead |-> CHOOSE i \in DOMAIN kept : kept[i] = s]
      arcs(s) == LET live == SelectSeq(ArcsOf(f, s), LAMBDA a : a.next \notin dead)
                 IN  [k \in DOMAIN live |-> [live[k] EXCEPT !.next = newid[@]]]
      move(s) == [final |-> f.states[s].final, arcs |-> arcs(s),
                  ieps |-> CountEps(arcs(s)).ieps, oeps |-> CountEps(arcs(s)).oeps]
  IN  IF dead = {} THEN f
      ELSE [start  |-> IF f.start \in DOMAIN newid THEN newid[f.start] ELSE None,
            states |-> [i \in DOMAIN kept |-> move(kept[i])],
            props  |-> delete_states_properties(f.props)]

\* mutate_arcs rewrites the arcs of one state where they are, and derives the
\* bits arc by arc; the state's counts stay.
mutate_arcs(f, s, new) ==
  LET old == ArcsOf(f, s)
      props[k \in 0 .. Len(old)] ==
        IF k = 0 THEN f.props
        ELSE set_arc_properties(props[k - 1], old[k], Weighted(old[k].w), new[k], Weighted(new[k].w))
  IN  [f EXCEPT !.states[s].arcs = new, !.props = props[Len(old)]]

set_properties(f, props) == [f EXCEPT !.props = props]

-----------------------------------------------------------------------------
(* What the states and arcs are *)

Edges(f) == {<<e[1], e[2].next>> : e \in AllArcs(f)}

\* The pairs of states that one or more arcs lead from and to.
Paths(f) ==
  FoldLeft(LAMBDA pairs, k : pairs \cup {<<s, t>> \in State(f) \X State(f) :
                                          <<s, k>> \in pairs /\ <<k, t>> \in pairs},
           Edges(f), [s \in State(f) |-> s])

FinalState(f, s) == f.states[s].final # "zero"
Accessible(f) == LET paths == Paths(f) IN {s \in State(f) : s = f.start \/ <<f.start, s>> \in paths}
CoAccessible(f) ==
  LET paths == Paths(f)
  IN  {s \in State(f) : \E t \in State(f) : FinalState(f, t) /\ (s = t \/ <<s, t>> \in paths)}

\* The bits that hold of f, worked out from what they mean.
Holding(f) ==
  LET edges == AllArcs(f)
      arcs  == {e[2] : e \in edges}
      paths == Paths(f)
      last  == Len(f.states)
      Pairwise(R(_, _)) == \A s \in State(f) : \A i, j \in DOMAIN ArcsOf(f, s) :
                             i < j => R(ArcsOf(f, s)[i], ArcsOf(f, s)[j])
      Settled(b, holds, opposite) == IF holds THEN {b} ELSE {opposite}
  IN
  Settled("ACCEPTOR", \A a \in arcs : a.in = a.out, "NOT_ACCEPTOR")
  \cup Settled("I_DETERMINISTIC", Pairwise(LAMBDA a, b : a.in # b.in), "NON_I_DETERMINISTIC")
  \cup Settled("O_DETERMINISTIC", Pairwise(LAMBDA a, b : a.out # b.out), "NON_O_DETERMINISTIC")
  \cup Settled("EPSILONS", \E a \in arcs : a.in = 0 /\ a.out = 0, "NO_EPSILONS")
  \cup Settled("I_EPSILONS", \E a \in arcs : a.in = 0, "NO_I_EPSILONS")
  \cup Settled("O_EPSILONS", \E a \in arcs : a.out = 0, "NO_O_EPSILONS")
  \cup Settled("I_LABEL_SORTED", Pairwise(LAMBDA a, b : a.in <= b.in), "NOT_I_LABEL_SORTED")
  \cup Settled("O_LABEL_SORTED", Pairwise(LAMBDA a, b : a.out <= b.out), "NOT_O_LABEL_SORTED")
  \cup Settled("WEIGHTED", \/ \E a \in arcs : Weighted(a.w)
                           \/ \E s \in State(f) : Weighted(f.states[s].final), "UNWEIGHTED")
  \cup Settled("CYCLIC", \E s \in State(f) : <<s, s>> \in paths, "ACYCLIC")
  \cup Settled("INITIAL_CYCLIC", <<f.start, f.start>> \in paths, "INITIAL_ACYCLIC")
  \cup Settled("TOP_SORTED", \A e \in edges : e[2].next > e[1], "NOT_TOP_SORTED")
  \cup Settled("ACCESSIBLE", Accessible(f) = State(f), "NOT_ACCESSIBLE")
  \cup Settled("CO_ACCESSIBLE", CoAccessible(f) = State(f), "NOT_CO_ACCESSIBLE")
  \cup Settled("STRING",
         \/ last = 0
         \/ /\ \A s \in 1 .. last - 1 : ~ FinalState(f, s) /\ Len(ArcsOf(f, s)) = 1
                                        /\ ArcsOf(f, s)[1].next = s + 1
            /\ FinalState(f, last) /\ ArcsOf(f, last) = <<>> /\ f.start \in {None, 1},
         "NOT_STRING")
  \cup Settled("WEIGHTED_CYCLES",
         \E e \in edges : Weighted(e[2].w) /\ (e[1] = e[2].next \/ <<e[2].next, e[1]>> \in paths),
         "UNWEIGHTED_CYCLES")

\* The label pairs along the paths from a start to a final state, without the
\* pairs of two epsilons: the strings of at most two.
MaxLength == 2
Accepts(f) ==
  LET Along(u, a) == IF a.in = 0 /\ a.out = 0 THEN u ELSE Append(u, [in |-> a.in, out |-> a.out])
      From(r) == {c \in {<<ArcsOf(f, r[1])[i].next, Along(r[2], ArcsOf(f, r[1])[i])>> :
                         i \in DOMAIN ArcsOf(f, r[1])} : Len(c[2]) <= MaxLength}
      Further(search, k) ==
        LET new == UNION {From(r) : r \in search.last} \ search.all
        IN  [all |-> search.all \cup new, last |-> new]
      start  == {<<f.start, <<>>>>}
      search == FoldLeft(Further, [all |-> start, last |-> start],
                         [k \in 1 .. Len(f.states) * (MaxLength + 1) |-> k])
  IN  IF f.start = None THEN {} ELSE {r[2] : r \in {c \in search.all : FinalState(f, c[1])}}

-----------------------------------------------------------------------------
(* compute_properties and the cache *)

SearchBits == {"CYCLIC", "ACYCLIC"} \cup Initial \cup Access \cup CoAccess

\* What SccVisitor says: it visits every state when there is a start, and with
\* none it ends at once and leaves its initial claims standing.
SearchVerdict(f) ==
  IF f.start = None THEN {"ACYCLIC", "INITIAL_ACYCLIC", "ACCESSIBLE", "CO_ACCESSIBLE"}
  ELSE Holding(f) \cap SearchBits

\* The scan disproves STRING state by state, counting the final states so far.
LooksLikeString(f) ==
  /\ \A e \in AllArcs(f) : e[2].next = e[1] + 1
  /\ \A s \in State(f) : FinalState(f, s) => s = Len(f.states)
  /\ \A s \in State(f) : ~ FinalState(f, s) => Len(ArcsOf(f, s)) = 1
  /\ f.start \in {None, 1}

\* Each side's determinism is only looked at when asked for, and the weight of
\* cycles only when the search ran, whose components it needs; the other bits
\* of the arcs are settled whatever was asked.
Computed(f, mask, searched) ==
  LET scanned == mask \ SearchBits # {}
      skipped == SearchBits \cup Strings \cup Cycles
                 \cup UNION {pair \in {{"I_DETERMINISTIC", "NON_I_DETERMINISTIC"},
                                       {"O_DETERMINISTIC", "NON_O_DETERMINISTIC"}} :
                               pair \cap mask = {}}
      weight  == IF f.start = None THEN {"UNWEIGHTED_CYCLES"} ELSE Holding(f) \cap Cycles
  IN  (IF searched THEN SearchVerdict(f) ELSE {})
      \cup (IF ~ scanned THEN {}
            ELSE (Holding(f) \ skipped)
                 \cup {IF LooksLikeString(f) THEN "STRING" ELSE "NOT_STRING"}
                 \cup (IF searched THEN weight ELSE {}))

\* Mutant: the search is left out when only the weight of cycles is asked for.
compute_properties_FewerSearches(f, mask) == Computed(f, mask, mask \cap SearchBits # {})

compute_properties(f, mask) == Computed(f, mask, mask \cap (SearchBits \cup Cycles) # {})

\* properties(mask, true): scans unless all is known, and adds what it settles
\* of the bits that were not.
cached_properties(f, mask) ==
  IF mask \subseteq known_properties(f.props) THEN f
  ELSE [f EXCEPT !.props = @ \cup (compute_properties(f, mask) \ known_properties(@))]

-----------------------------------------------------------------------------
(* The algorithms that change an automaton in place *)

Eps(w, next) == [in |-> 0, out |-> 0, w |-> w, next |-> next]
Arc(kind, next) == [in |-> kind.in, out |-> kind.out, w |-> kind.w, next |-> next]

\* arcsort.rs: in place, stable, by one side's label and then the other's.
arc_sort(f, byInput) ==
  LET Key(a) == IF byInput THEN <<a.in, a.out>> ELSE <<a.out, a.in>>
      Before(a, b) == \/ Key(a)[1] < Key(b)[1]
                      \/ Key(a)[1] = Key(b)[1] /\ Key(a)[2] < Key(b)[2]
      sorted(arcs) ==
        LET perm == SetToSortSeq(DOMAIN arcs, LAMBDA i, j :
                      \/ Before(arcs[i], arcs[j])
                      \/ ~ Before(arcs[j], arcs[i]) /\ i < j)
        IN  [k \in DOMAIN arcs |-> arcs[perm[k]]]
  IN  [f EXCEPT !.states = [s \in DOMAIN @ |-> [@[s] EXCEPT !.arcs = sorted(@)]],
                !.props = (@ \cap ARC_SORT_PROPERTIES)
                          \cup Bit("I_LABEL_SORTED", byInput \/ "ACCEPTOR" \in @)
                          \cup Bit("O_LABEL_SORTED", ~ byInput \/ "ACCEPTOR" \in @)]

\* arc_map.rs: what each mapper makes of an arc, and of the bits.
Mappers == {"invert", "project_input", "project_output", "input_epsilon", "output_epsilon",
            "superfinal", "times", "rmweight"}

MapArc(m, a) ==
  CASE m = "invert"         -> [a EXCEPT !.in = a.out, !.out = a.in]
    [] m = "project_input"  -> [a EXCEPT !.out = a.in]
    [] m = "project_output" -> [a EXCEPT !.in = a.out]
    [] m = "input_epsilon"  -> [a EXCEPT !.in = 0]
    [] m = "output_epsilon" -> [a EXCEPT !.out = 0]
    [] m = "superfinal"     -> a
    [] m = "times"          -> [a EXCEPT !.w = Times("w", @)]
    [] m = "rmweight"       -> [a EXCEPT !.w = IF @ = "zero" THEN "zero" ELSE "one"]

MapProperties(m, props) ==
  CASE m = "invert"         -> invert_properties(props)
    [] m = "project_input"  -> project_properties(props, TRUE)
    [] m = "project_output" -> project_properties(props, FALSE)
    [] m = "input_epsilon"  -> {"I_EPSILONS", "I_LABEL_SORTED"}
    [] m = "output_epsilon" -> {"O_EPSILONS", "O_LABEL_SORTED"}
    [] m = "superfinal"     -> props \cap ADD_SUPER_FINAL_PROPERTIES
    [] m = "times"          -> props \cap WEIGHT_INVARIANT_PROPERTIES
    [] m = "rmweight"       -> (props \cap WEIGHT_INVARIANT_PROPERTIES) \cup {"UNWEIGHTED"}

\* Every arc and every final weight is mapped; the superfinal mapper turns the
\* final weights into arcs to a state of its own.  Without a start nothing is.
arc_map(f, m) ==
  LET super   == Len(f.states) + 1
      mapped(s) == mutate_arcs(f, s, [k \in DOMAIN ArcsOf(f, s) |-> MapArc(m, ArcsOf(f, s)[k])]).states[s]
      weight(s) == MapArc(m, Eps(f.states[s].final, None)).w
      plain   == [s \in State(f) |-> [mapped(s) EXCEPT !.final = weight(s)]]
      through == [s \in State(f) |->
                    IF FinalState(f, s)
                    THEN [Counted(mapped(s), Eps("one", super), 1) EXCEPT
                            !.final = "zero", !.arcs = Append(@, Eps(weight(s), super))]
                    ELSE mapped(s)]
  IN  IF f.start = None THEN f
      ELSE [f EXCEPT !.states = IF m = "superfinal"
                                THEN Append(through, [NewState EXCEPT !.final = "one"])
                                ELSE plain,
                     !.props = MapProperties(m, @)]

relabel(f, map) ==
  LET renamed(s) == [k \in DOMAIN ArcsOf(f, s) |->
        LET a == ArcsOf(f, s)[k] IN [a EXCEPT !.in = map.in[@], !.out = map.out[@]]]
  IN  [f EXCEPT !.states = [s \in State(f) |-> mutate_arcs(f, s, renamed(s)).states[s]],
                !.props = relabel_properties(@)]

\* closure.rs: every way of finishing becomes a way of starting again; star
\* adds a start of its own, that is final.
closure(f, star) ==
  LET back == FoldLeft(LAMBDA g, s : IF FinalState(f, s) /\ f.start # None
                                     THEN add_arc(g, s, Eps(f.states[s].final, f.start)) ELSE g,
                       f, [s \in State(f) |-> s])
      new  == Len(f.states) + 1
      own  == set_final(set_start(add_state(back), new), new, "one")
      all  == IF ~ star THEN back
              ELSE IF f.start = None THEN own ELSE add_arc(own, new, Eps("one", f.start))
  IN  set_properties(all, closure_properties(f.props))

\* The states of g, shifted past those of f.
CopyIn(f, g) ==
  LET n == Len(f.states)
      shifted(s) == [k \in DOMAIN ArcsOf(g, s) |-> [ArcsOf(g, s)[k] EXCEPT !.next = @ + n]]
  IN  FoldLeft(LAMBDA h, s : add_arcs(set_final(add_state(h), n + s, g.states[s].final),
                                      n + s, shifted(s)),
               f, [s \in State(g) |-> s])

\* concat.rs: the final states of f carry on into g.  When g has no start the
\* bits derived on the way stand.
concat(f, g) ==
  LET n == Len(f.states)
      joined == FoldLeft(LAMBDA h, s :
        IF ~ FinalState(f, s) THEN h
        ELSE LET plain == set_final(h, s, "zero")
             IN  IF g.start = None THEN plain
                 ELSE add_arc(plain, s, Eps(f.states[s].final, n + g.start)),
        CopyIn(f, g), [s \in State(f) |-> s])
  IN  IF f.start = None THEN f
      ELSE IF g.start = None THEN joined
      ELSE set_properties(joined, concat_properties(f.props, g.props))

\* Mutant: the start is never kept out of the first automaton's cycles.
union_SharesStart(f, g) ==
  LET n == Len(f.states)
      both == CopyIn(f, g)
  IN  IF g.start = None THEN f
      ELSE IF f.start = None THEN set_properties(set_start(both, n + g.start), g.props)
      ELSE set_properties(add_arc(both, f.start, Eps("one", n + g.start)),
                          union_properties(f.props, g.props))

\* union.rs: a second way out of f's start when no cycle goes through it, as
\* far as is known; a new start otherwise.
union(f, g) ==
  LET n == Len(f.states)
      both == CopyIn(f, g)
      new  == Len(both.states) + 1
      all  == IF "INITIAL_ACYCLIC" \in f.props
              THEN add_arc(both, f.start, Eps("one", n + g.start))
              ELSE add_arcs(set_start(add_state(both), new), new,
                            <<Eps("one", f.start), Eps("one", n + g.start)>>)
  IN  IF g.start = None THEN f
      ELSE IF f.start = None THEN set_properties(set_start(both, n + g.start), g.props)
      ELSE set_properties(all, union_properties(f.props, g.props))

\* state_sort.rs: order[s] is the number s takes.
state_sort(f, order) ==
  LET old(t) == CHOOSE s \in State(f) : order[s] = t
      moved(t) == [k \in DOMAIN ArcsOf(f, old(t)) |-> [ArcsOf(f, old(t))[k] EXCEPT !.next = order[@]]]
  IN  IF f.start = None THEN f
      ELSE [start  |-> order[f.start],
            states |-> [t \in State(f) |->
                          [f.states[old(t)] EXCEPT !.arcs = moved(t),
                             !.ieps = CountEps(moved(t)).ieps, !.oeps = CountEps(moved(t)).oeps]],
            props  |-> f.props \cap STATE_SORT_PROPERTIES]

\* topsort.rs, given the order its search found, if the states have one.
top_sort(f, order) ==
  IF f.start = None /\ f.states # <<>> THEN f
  ELSE IF "CYCLIC" \in Holding(f)
       THEN [f EXCEPT !.props = @ \cup {"CYCLIC", "NOT_TOP_SORTED"}]
       ELSE [state_sort(f, order) EXCEPT !.props = @ \cup {"ACYCLIC", "INITIAL_ACYCLIC", "TOP_SORTED"}]

\* connect.rs: what is left is accessible and coaccessible.
connect(f) ==
  [delete_states(f, State(f) \ (Accessible(f) \cap CoAccessible(f)))
     EXCEPT !.props = @ \cup {"ACCESSIBLE", "CO_ACCESSIBLE"}]

\* reverse.rs builds another automaton.  A single final state can be its start
\* when its weight is one, or when the search finds it on no cycle: then the
\* weight goes onto its arcs.  Otherwise state 1 is a start of its own, with an
\* arc to every final state.  The states are added as they are met, which
\* changes no bit.
reverse(f, require_superinitial) ==
  LET finals  == {s \in State(f) : FinalState(f, s)}
      single  == ~ require_superinitial /\ Cardinality(finals) = 1
      only    == CHOOSE s \in finals : TRUE
      searched == single /\ f.states[only].final # "one"
      \* Without a start there are no components to count.
      onCycle == searched /\ \/ f.start # None /\ <<only, only>> \in Paths(f)
                             \/ \E k \in DOMAIN ArcsOf(f, only) : ArcsOf(f, only)[k].next = only
      reused  == single /\ ~ onCycle
      offset  == IF reused THEN 0 ELSE 1
      ostart  == IF reused THEN only ELSE 1
      Turned(g, s, a) ==
        add_arc(g, a.next + offset,
                [in |-> a.in, out |-> a.out, next |-> s + offset,
                 w |-> IF reused /\ a.next = only THEN Times(f.states[only].final, a.w) ELSE a.w])
      Visit(g, s) ==
        LET marked == IF s = f.start THEN set_final(g, s + offset, "one") ELSE g
            entered == IF FinalState(f, s) /\ ~ reused
                       THEN add_arc(marked, 1, Eps(f.states[s].final, s + offset)) ELSE marked
        IN  FoldLeft(LAMBDA h, a : Turned(h, s, a), entered, ArcsOf(f, s))
      blank == FoldLeft(LAMBDA g, s : add_state(g), EmptyFst, [s \in 1 .. Len(f.states) + offset |-> s])
      built == set_start(FoldLeft(Visit, blank, [s \in State(f) |-> s]), ostart)
      done  == IF reused /\ only = f.start
               THEN set_final(built, only, f.states[only].final) ELSE built
      known == f.props \cup (IF searched THEN SearchVerdict(f) ELSE {})
  IN  set_properties(done, reverse_properties(known, ~ reused) \cup done.props
                             \cup Bit("INITIAL_ACYCLIC", searched /\ reused))

-----------------------------------------------------------------------------
Plain == [op |-> "change"]

Init == fst \in Seeds /\ fresh = TRUE /\ call = Plain /\ calls = 0

\* Calls are made on an automaton within the bounds.
WithinBounds ==
  /\ calls < MaxCalls
  /\ Len(fst.states) <= MaxStates /\ Cardinality(AllArcs(fst)) <= MaxArcs

Leaves(f) == fst' = f /\ calls' = calls + 1
Change(f) == Leaves(f) /\ call' = Plain /\ UNCHANGED fresh

SetStart(s) == s # fst.start /\ Change(set_start(fst, s))
SetFinal(s, w) == w # fst.states[s].final /\ Change(set_final(fst, s, w))
AddState == Len(fst.states) < MaxStates /\ Change(add_state(fst))
AddArc(s, kind, t) ==
  Cardinality(AllArcs(fst)) < MaxArcs /\ Change(add_arc(fst, s, Arc(kind, t)))
DeleteArcsN(s, n) == ArcsOf(fst, s) # <<>> /\ Change(delete_arcs_n(fst, s, n))
DeleteArcs(s) == ArcsOf(fst, s) # <<>> /\ Change(delete_arcs(fst, s))
DeleteStates(dead) == dead # {} /\ Change(delete_states(fst, dead))
DeleteAllStates ==
  fst.states # <<>> /\ Leaves(EmptyFst) /\ call' = Plain /\ fresh' = TRUE
MutateArcs(s, k, kind, t) ==
  /\ Leaves(mutate_arcs(fst, s, [ArcsOf(fst, s) EXCEPT ![k] = Arc(kind, t)]))
  /\ fresh' = FALSE
  /\ call' = Plain

\* There is a start, or nothing that could be reached from one.
Started(what) == what \in Careless \/ fst.start # None \/ fst.states = <<>>

Scan(mask) ==
  /\ Started("scan")
  /\ Leaves(cached_properties(fst, mask))
  /\ call' = [op |-> "scan", given |-> fst.props, with |-> mask]
  /\ UNCHANGED fresh

\* The algorithms.
Called(op, with) == [op |-> op, given |-> Accepts(fst), with |-> with]
Result(op, with, f) == Leaves(f) /\ call' = Called(op, with) /\ UNCHANGED fresh

ArcSort(byInput) == Result("same", {}, arc_sort(fst, byInput))
ArcMap(m) ==
  /\ m \in {"input_epsilon", "output_epsilon"} => "map" \in Careless \/ AllArcs(fst) # {}
  /\ Leaves(arc_map(fst, m))
  /\ fresh' = (m \in {"superfinal", "times", "rmweight"} /\ fresh)
  /\ call' = Called(IF m \in {"superfinal", "times", "rmweight"} THEN "same" ELSE m, {})
Relabel(map) ==
  /\ Leaves(relabel(fst, map))
  /\ fresh' = FALSE
  /\ call' = Called("relabel", map)
Closure(star) == Result(IF star THEN "star" ELSE "plus", {}, closure(fst, star))
Concat(g) == Result("concat", Accepts(g), concat(fst, g))
Union(g) == Started("union") /\ Result("union", Accepts(g), union(fst, g))
TopSort ==
  \E order \in {p \in [State(fst) -> State(fst)] : \A s, t \in State(fst) : p[s] = p[t] => s = t} :
    /\ "ACYCLIC" \in Holding(fst) => \A e \in AllArcs(fst) : order[e[1]] < order[e[2].next]
    /\ Result("same", {}, top_sort(fst, order))
Connect == Result("same", {}, connect(fst))
TurnRound(super) == Started("reverse") /\ Result("reverse", {}, reverse(fst, super))

Next ==
  /\ WithinBounds
  /\ \/ \E s \in State(fst) :
          \/ SetStart(s)
          \/ \E w \in Finals : SetFinal(s, w)
          \/ \E n \in 1 .. MaxArcs : DeleteArcsN(s, n)
          \/ DeleteArcs(s)
          \/ \E kind \in ArcKinds, t \in State(fst) :
               \/ AddArc(s, kind, t)
               \/ \E k \in DOMAIN ArcsOf(fst, s) : MutateArcs(s, k, kind, t)
     \/ SetStart(None)
     \/ AddState
     \/ \E dead \in SUBSET State(fst) : DeleteStates(dead)
     \/ DeleteAllStates
     \/ \E mask \in Masks : Scan(mask)
     \/ \E byInput \in BOOLEAN : ArcSort(byInput)
     \/ \E m \in Mappers : ArcMap(m)
     \/ \E map \in Relabelings : Relabel(map)
     \/ \E star \in BOOLEAN : Closure(star)
     \/ \E g \in Others : Concat(g) \/ Union(g)
     \/ TopSort
     \/ Connect
     \/ \E super \in BOOLEAN : TurnRound(super)

Spec == Init /\ [][Next]_vars

-----------------------------------------------------------------------------
(***************************************************************************)
(* Properties                                                              *)
(***************************************************************************)

\* Types: arcs go to states there are, and no more is known than there is.
TypeOK ==
  /\ fst.start \in State(fst) \cup {None}
  /\ \A e \in AllArcs(fst) : e[2].next \in State(fst)
  /\ fst.props \subseteq Trinary
  /\ fresh \in BOOLEAN

\* The epsilon counts of every state are those of its arcs.
EpsilonCountsAreRight ==
  \A s \in State(fst) :
    LET c == CountEps(ArcsOf(fst, s))
    IN  fst.states[s].ieps = c.ieps /\ fst.states[s].oeps = c.oeps

\* "An FST carries a cache of property bits, kept up to date by the operations
\* that change it": every bit held is true of the states and arcs as they are,
\* through any sequence of changes, scans and algorithms.  Each operation's rule
\* sees the old bits and a few arguments, never the automaton.  The
\* epsilon counts are those of the arcs as long as no arc is rewritten in place.
PropsAreTrue == TypeOK /\ fst.props \subseteq Holding(fst) /\ (fresh => EpsilonCountsAreRight)

Joined(us, vs) == {w \in {u \o v : u \in us, v \in vs} : Len(w) <= MaxLength}
Rewritten(us, F(_)) ==
  {[k \in DOMAIN u |-> F(u[k])] : u \in us}

\* What each algorithm says its result accepts.  A map that turns labels into
\* epsilons shortens strings longer than those kept.
Promised ==
  LET given == call.given
  IN CASE call.op = "same"           -> given
       [] call.op = "invert"         -> Rewritten(given, LAMBDA p : [in |-> p.out, out |-> p.in])
       [] call.op = "plus"           -> given \cup Joined(given, given)
       [] call.op = "star"           -> {<<>>} \cup given \cup Joined(given, given)
       [] call.op = "concat"         -> Joined(given, call.with)
       [] call.op = "union"          -> given \cup call.with
       [] call.op = "reverse"        -> {Reverse(u) : u \in given}

\* A scan settles every bit it is asked for, one way or the other, and leaves
\* what was settled as it was.
ScansSettleWhatIsAsked ==
  call.op = "scan" =>
    /\ call.given \subseteq fst.props
    /\ call.with \subseteq known_properties(fst.props)
    /\ \A p \in Pairs : ~ {p[1], p[2]} \subseteq fst.props

\* The result of an algorithm accepts the strings it says, whatever sequence of
\* changes and scans came before: union trusts the bit INITIAL_ACYCLIC when it
\* hangs the second automaton on the first one's start.
AlgorithmsKeepTheirPromise ==
  call.op \in {"same", "invert", "plus", "star", "concat", "union", "reverse"}
    => Accepts(fst) = Promised

\* What union.rs says of itself, "what either one accepts", by itself.
UnionAcceptsTheUnion == call.op = "union" => Accepts(fst) = Promised
=============================================================================
