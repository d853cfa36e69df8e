------------------------------- MODULE Views -------------------------------
(***************************************************************************)
(* Automata that are other types' automata in another shape: edited beside  *)
(* what they wrap (fsts/edit_fst.rs), grafted onto (merge_fst.rs),          *)
(* complemented (complement_fst.rs), laid out in one block (const_fst.rs)   *)
(* or compacted (compact_fst.rs); and the files that any of them is written *)
(* to and read from (any_fst.rs, add_on.rs, utils/io.rs).  Automata are     *)
(* VectorFst's, with states from 1.                                         *)
(***************************************************************************)
EXTENDS Integers, Sequences, FiniteSets
LOCAL INSTANCE SequencesExt
LOCAL INSTANCE Functions
LOCAL INSTANCE TLC

V == INSTANCE VectorFst WITH
       ArcKinds <- {}, Finals <- {}, Masks <- {}, Relabelings <- {}, Seeds <- {}, Others <- {},
       MaxStates <- 0, MaxArcs <- 0, MaxCalls <- 0, Careless <- {},
       fst <- 0, fresh <- TRUE, call <- 0, calls <- 0

Refused == [error |-> TRUE]
Accepted(of) == of @@ [error |-> FALSE]

\* A state as it is seen, its epsilons counted.
StateOf(final, arcs) == V!CountEps(arcs) @@ [final |-> final, arcs |-> arcs]
Asked(f, mask) == V!cached_properties(f, mask)

-----------------------------------------------------------------------------
(* EditFst, around an automaton of some type: the states that were touched are copied to edits, under numbers *)
(* of its own; the final weights of others are kept apart.                  *)

NewEdit(f, type) ==
  [wrapped |-> f, type |-> type, edits |-> V!EmptyFst, external_to_internal |-> <<>>, edited_final_weights |-> <<>>,
   num_new_states |-> 0, start |-> f.start, props |-> f.props]

NumStates(e) == Len(e.wrapped.states) + e.num_new_states
Internal(e, s) == e.external_to_internal[s]
Edited(e) == DOMAIN e.external_to_internal

ViewedState(e, s) ==
  LET state == IF s \in Edited(e) THEN e.edits.states[Internal(e, s)] ELSE e.wrapped.states[s]
  IN  IF s \in DOMAIN e.edited_final_weights THEN [state EXCEPT !.final = e.edited_final_weights[s]] ELSE state
Viewed(e) == [start |-> e.start, states |-> [s \in 1 .. NumStates(e) |-> ViewedState(e, s)], props |-> e.props]

\* Mutant: the final weight set before the state was touched is forgotten.
make_editable_Forgetting(e, s) ==
  LET i == Len(e.edits.states) + 1
      copied(g) == V!set_final(V!add_arcs(V!add_state(g), i, e.wrapped.states[s].arcs), i, e.wrapped.states[s].final)
  IN  IF s \in Edited(e) THEN e
      ELSE [e EXCEPT !.external_to_internal = (s :> i) @@ @, !.edits = copied(@),
                     !.edited_final_weights = Restrict(@, DOMAIN @ \ {s})]

make_editable(e, s) ==
  LET i == Len(e.edits.states) + 1
      copied(g) == V!set_final(V!add_arcs(V!add_state(g), i, e.wrapped.states[s].arcs), i, ViewedState(e, s).final)
  IN  IF s \in Edited(e) THEN e
      ELSE [e EXCEPT !.external_to_internal = (s :> i) @@ @, !.edits = copied(@),
                     !.edited_final_weights = Restrict(@, DOMAIN @ \ {s})]

edit_set_start(e, s) == [e EXCEPT !.start = s, !.props = V!set_start_properties(@)]

edit_set_final(e, s, w) ==
  LET old  == ViewedState(e, s).final
      set  == IF s \in Edited(e) THEN [e EXCEPT !.edits = V!set_final(@, Internal(e, s), w)]
              ELSE [e EXCEPT !.edited_final_weights = (s :> w) @@ @]
  IN  [set EXCEPT !.props = V!set_final_properties(@, V!Weighted(old), V!Weighted(w))]

edit_add_state(e) ==
  [e EXCEPT !.external_to_internal = (NumStates(e) + 1 :> Len(e.edits.states) + 1) @@ @, !.edits = V!add_state(@),
            !.num_new_states = @ + 1, !.props = @ \cap V!ADD_STATE_PROPERTIES]

edit_add_arc(e, s, arc) ==
  LET m == make_editable(e, s)
  IN  [m EXCEPT !.props = V!add_arc_properties(@, s, arc, V!Weighted(arc.w), V!ArcsOf(m.edits, Internal(m, s))),
                !.edits = V!add_arc(@, Internal(m, s), arc)]

edit_delete_arcs(e, s) ==
  LET m == make_editable(e, s)
  IN  [m EXCEPT !.edits = V!delete_arcs(@, Internal(m, s)), !.props = V!delete_arcs_properties(@)]

edit_delete_arcs_n(e, s, n) ==
  LET m == make_editable(e, s)
  IN  [m EXCEPT !.edits = V!delete_arcs_n(@, Internal(m, s), n), !.props = V!delete_arcs_properties(@)]

\* Mutant: the bits of the edits are not asked for.
edit_mutate_arcs_KeepingBits(e, s, new) ==
  LET m == make_editable(e, s)
  IN  [m EXCEPT !.edits = V!mutate_arcs(@, Internal(m, s), new)]

\* The bits left are those of the edits, which the rewritten arcs are among.
edit_mutate_arcs(e, s, new) ==
  LET m == make_editable(e, s)
      edits == V!mutate_arcs(m.edits, Internal(m, s), new)
  IN  [m EXCEPT !.edits = edits, !.props = @ \cap edits.props]

\* properties(mask, true) settles what is not known by a scan of what is seen.
edit_properties(e, mask) == [e EXCEPT !.props = Asked(Viewed(e), mask).props]

-----------------------------------------------------------------------------
(* MergeFst: a state map leads from states of the result to those of the    *)
(* secondary, whose arcs are between states of the result.                  *)

\* Mutant: states the primary has are counted again.
merge_new_CountingTwice(primary, secondary, state_map) ==
  IF \/ Cardinality(DOMAIN state_map) # Len(secondary.states)
     \/ ~IsInjective(state_map) \/ ~(Range(state_map) \subseteq DOMAIN secondary.states) THEN Refused
  ELSE Accepted([primary |-> primary, secondary |-> secondary, state_map |-> state_map,
                 num_states |-> Len(primary.states) + Len(secondary.states), props |-> primary.props \cap secondary.props])

merge_new(primary, secondary, state_map) ==
  IF \/ Cardinality(DOMAIN state_map) # Len(secondary.states)
     \/ ~IsInjective(state_map) \/ ~(Range(state_map) \subseteq DOMAIN secondary.states) THEN Refused
  ELSE Accepted([primary |-> primary, secondary |-> secondary, state_map |-> state_map,
                 num_states |-> Len(primary.states) + Len(secondary.states)
                                  - Cardinality(DOMAIN state_map \cap DOMAIN primary.states),
                 props |-> primary.props \cap secondary.props])

Plus(v, w) == IF v = "zero" THEN w ELSE IF w = "zero" THEN v ELSE IF "one" \in {v, w} THEN "one" ELSE v

\* What each side has of a state, one after the other.
MergedState(m, s) ==
  LET none == StateOf("zero", <<>>)
      p == IF s \in DOMAIN m.primary.states THEN m.primary.states[s] ELSE none
      q == IF s \in DOMAIN m.state_map THEN m.secondary.states[m.state_map[s]] ELSE none
  IN  [final |-> Plus(p.final, q.final), arcs |-> p.arcs \o q.arcs, ieps |-> p.ieps + q.ieps, oeps |-> p.oeps + q.oeps]
Merged(m) == [start |-> m.primary.start, states |-> [s \in 1 .. m.num_states |-> MergedState(m, s)], props |-> m.props]

-----------------------------------------------------------------------------
(* ComplementFst: a first state that accepts everything, and an arc to it   *)
(* for the labels that a state has no arc for.                              *)

RHO == -2
ToComplement == {"UNWEIGHTED", "NO_EPSILONS", "I_DETERMINISTIC", "ACCEPTOR"}

complement_properties(inprops) ==
  {"ACCEPTOR", "UNWEIGHTED", "UNWEIGHTED_CYCLES", "NO_EPSILONS", "NO_I_EPSILONS", "NO_O_EPSILONS", "I_DETERMINISTIC",
   "O_DETERMINISTIC", "ACCESSIBLE"}
    \cup (inprops \cap {"I_LABEL_SORTED", "O_LABEL_SORTED", "INITIAL_CYCLIC"})
    \cup (IF "ACCESSIBLE" \in inprops THEN {"NOT_I_LABEL_SORTED", "NOT_O_LABEL_SORTED", "CYCLIC"} ELSE {})

RhoArc == [in |-> RHO, out |-> RHO, w |-> "one", next |-> 1]
Shifted(arcs) == [k \in DOMAIN arcs |-> [arcs[k] EXCEPT !.next = @ + 1]]
ComplementState(f, s) ==
  IF s = 1 THEN StateOf("one", <<RhoArc>>)
  ELSE [f.states[s - 1] EXCEPT !.final = IF @ = "zero" THEN "one" ELSE "zero", !.arcs = <<RhoArc>> \o Shifted(@)]

\* Mutant: where there is no start, the complement has none.
Complement_Startless(f) ==
  IF ~(ToComplement \subseteq Asked(f, ToComplement).props) THEN Refused
  ELSE Accepted([start |-> IF f.start = V!None THEN V!None ELSE f.start + 1,
                 states |-> [s \in 1 .. Len(f.states) + 1 |-> ComplementState(f, s)],
                 props |-> complement_properties(Asked(f, ToComplement).props \cap {"I_LABEL_SORTED"})])

Complement(f) ==
  IF ~(ToComplement \subseteq Asked(f, ToComplement).props) THEN Refused
  ELSE Accepted([start |-> IF f.start = V!None THEN 1 ELSE f.start + 1,
                 states |-> [s \in 1 .. Len(f.states) + 1 |-> ComplementState(f, s)],
                 props |-> complement_properties(Asked(f, ToComplement).props \cap {"I_LABEL_SORTED"})])

-----------------------------------------------------------------------------
(* ConstFst: the arcs of all states in one block, each state with where its *)
(* own begin.                                                               *)

AllArcs(f) == FlattenSeq([s \in DOMAIN f.states |-> f.states[s].arcs])
Before(f, s) == FoldFunctionOnSet(+, 0, [t \in DOMAIN f.states |-> Len(f.states[t].arcs)], 1 .. s - 1)
ConstState(f, s) ==
  [final |-> f.states[s].final, pos |-> Before(f, s), narcs |-> Len(f.states[s].arcs),
   ieps |-> f.states[s].ieps, oeps |-> f.states[s].oeps]

\* What is changed in place is asked for every bit; else what is known is kept
\* unless some bit beside those of cycles is not.
CopiedProperties(f, mutable) ==
  IF mutable THEN Asked(f, V!Trinary).props
  ELSE IF V!Trinary \ V!Cycles \subseteq V!known_properties(f.props) THEN f.props
  ELSE V!compute_properties(f, V!Trinary)

\* from_fst counts the epsilons itself.
ConstFrom(f, mutable) ==
  [start |-> f.start, props |-> CopiedProperties(f, mutable), arcs |-> AllArcs(f),
   states |-> [s \in DOMAIN f.states |-> V!CountEps(f.states[s].arcs) @@ ConstState(f, s)]]

ConstArcs(c, s) == SubSeq(c.arcs, c.states[s].pos + 1, c.states[s].pos + c.states[s].narcs)
FromConst(c) ==
  [start |-> c.start, props |-> c.props,
   states |-> [s \in DOMAIN c.states |-> [final |-> c.states[s].final, arcs |-> ConstArcs(c, s),
                                          ieps |-> c.states[s].ieps, oeps |-> c.states[s].oeps]]]

-----------------------------------------------------------------------------
(* CompactFst: an element for each arc, and one before them, of no label,   *)
(* for a final state; expanded again through a cache.                       *)

NO_LABEL == -1
Compactors == {"string", "weighted_string", "acceptor", "unweighted_acceptor", "unweighted"}

compactor_properties(c) ==
  CASE c = "string" -> V!NULL_PROPERTIES \ {"NO_EPSILONS", "NO_I_EPSILONS", "NO_O_EPSILONS"}
    [] c = "weighted_string" -> {"STRING", "ACCEPTOR"}
    [] c = "acceptor" -> {"ACCEPTOR"}
    [] c = "unweighted_acceptor" -> {"ACCEPTOR", "UNWEIGHTED"}
    [] c = "unweighted" -> {"UNWEIGHTED"}

OfOneElement(c) == c \in {"string", "weighted_string"}

compact(c, a) ==
  CASE c = "string" -> [in |-> a.in]
    [] c = "weighted_string" -> [in |-> a.in, w |-> a.w]
    [] c = "acceptor" -> [in |-> a.in, w |-> a.w, next |-> a.next]
    [] c = "unweighted_acceptor" -> [in |-> a.in, next |-> a.next]
    [] c = "unweighted" -> [in |-> a.in, out |-> a.out, next |-> a.next]

\* What an element leaves out: the other label, a weight of one, the next state.
expand(c, s, x) ==
  x @@ [in |-> x.in, out |-> x.in, w |-> "one", next |-> IF x.in = NO_LABEL THEN V!None ELSE s + 1]

FinalArc(w) == [in |-> NO_LABEL, out |-> NO_LABEL, w |-> w, next |-> V!None]
ElementsOf(f, c, s) ==
  LET all == (IF V!FinalState(f, s) THEN <<FinalArc(f.states[s].final)>> ELSE <<>>) \o f.states[s].arcs
  IN  [k \in DOMAIN all |-> compact(c, all[k])]

\* states: where each state's elements begin, and where all end; empty where each has one.
ArcStore(f, c) ==
  LET rows == [s \in DOMAIN f.states |-> ElementsOf(f, c, s)]
      upto(s) == Len(FlattenSeq(SubSeq(rows, 1, s - 1)))
  IN  IF OfOneElement(c) /\ \E s \in DOMAIN rows : Len(rows[s]) # 1 THEN Refused
      ELSE Accepted([compactor |-> c, start |-> f.start, nstates |-> Len(f.states), narcs |-> Len(AllArcs(f)),
                     states |-> IF OfOneElement(c) THEN <<>> ELSE [s \in 1 .. Len(rows) + 1 |-> upto(s)],
                     compacts |-> FlattenSeq(rows)])

compacts_range(store, s) ==
  LET from == IF OfOneElement(store.compactor) THEN s - 1 ELSE store.states[s]
      to   == IF OfOneElement(store.compactor) THEN s ELSE store.states[s + 1]
  IN  [k \in 1 .. to - from |-> store.compacts[from + k]]

ExpandedState(store, s) ==
  LET xs    == compacts_range(store, s)
      arcs  == [k \in DOMAIN xs |-> expand(store.compactor, s, xs[k])]
      final == arcs # <<>> /\ arcs[1].in = NO_LABEL
  IN  IF final THEN StateOf(arcs[1].w, Tail(arcs)) ELSE StateOf("zero", arcs)

\* The bits of cycles' weights are not taken over.
compact_new(f, c) ==
  LET needed == compactor_properties(c)
      asked  == Asked(f, needed)
      store  == ArcStore(f, c)
  IN  IF ~(needed \subseteq asked.props) \/ store.error THEN Refused
      ELSE Accepted([store |-> store, props |-> (asked.props \ V!Cycles) \cup needed])
FromCompact(c) ==
  [start |-> c.store.start, states |-> [s \in 1 .. c.store.nstates |-> ExpandedState(c.store, s)], props |-> c.props]

-----------------------------------------------------------------------------
(* Files: cells, some of which hold a block that is to begin at a multiple  *)
(* of ALIGNMENT cells.                                                      *)

ALIGNMENT == 4
Cell(kind, is) == [kind |-> kind, is |-> is]
PAD == Cell("pad", <<>>)
Padding(at) == (ALIGNMENT - (at % ALIGNMENT)) % ALIGNMENT

\* CountingWriter counts what was written through it, from where it was made.
Aligned(file, made, align) == file \o (IF align THEN [k \in 1 .. Padding(Len(file) - made) |-> PAD] ELSE <<>>)
\* align_input counts from where the file begins.
Skipped(at, align) == IF align THEN at + Padding(at) ELSE at

Holds(file, at, kind) == at < Len(file) /\ file[at + 1].kind = kind
Header(type, f, align) == Cell("header", [type |-> type, props |-> f.props, start |-> f.start, num_states |-> Len(f.states), align |-> align])

WriteVector(file, f) ==
  Append(file, Header("vector", f, FALSE)) \o [s \in DOMAIN f.states |-> Cell("state", [final |-> f.states[s].final, arcs |-> f.states[s].arcs])]

\* The states are added one by one, so their epsilons are counted afresh.
ReadVector(file, at, verify) ==
  LET header == file[at + 1].is
      n == header.num_states
      row(s) == file[at + 1 + s].is
      states == [s \in 1 .. n |-> StateOf(row(s).final, row(s).arcs)]
      outside == \E s \in 1 .. n : \E k \in DOMAIN row(s).arcs : row(s).arcs[k].next > n
  IN  IF \/ \E s \in 1 .. n : ~Holds(file, at + s, "state")
         \/ header.start > n \/ (verify /\ outside) THEN Refused
      ELSE Accepted([at |-> at + 1 + n, fst |-> [start |-> header.start, states |-> states, props |-> header.props]])

WriteConst(file, f, align) ==
  LET header == Append(file, Header("const", [f EXCEPT !.props = Asked(f, V!Trinary).props], align))
      states == Append(Aligned(header, Len(file), align), Cell("states", [s \in DOMAIN f.states |-> ConstState(f, s)]))
  IN  Append(Aligned(states, Len(file), align), Cell("arcs", AllArcs(f)))

ReadConst(file, at, verify) ==
  LET header == file[at + 1].is
      first  == Skipped(at + 1, header.align)
      second == Skipped(first + 1, header.align)
      c == [start |-> header.start, props |-> header.props, states |-> file[first + 1].is, arcs |-> file[second + 1].is]
      outside == \E s \in DOMAIN c.states : c.states[s].pos + c.states[s].narcs > Len(c.arcs)
  IN  IF ~Holds(file, first, "states") \/ ~Holds(file, second, "arcs") THEN Refused
      ELSE IF \/ header.start > header.num_states \/ outside
              \/ verify /\ \E k \in DOMAIN c.arcs : c.arcs[k].next \notin 1 .. header.num_states THEN Refused
      ELSE Accepted([at |-> second + 1, fst |-> FromConst(c)])

WriteCompact(file, c, align) ==
  LET header == Append(file, Header(c.store.compactor, FromCompact(c), align))
      states == IF OfOneElement(c.store.compactor) THEN header
                ELSE Append(Aligned(header, Len(file), align), Cell("starts", c.store.states))
  IN  Append(Aligned(states, Len(file), align), Cell("compacts", c.store.compacts))

ReadCompact(file, at) ==
  LET header == file[at + 1].is
      one    == OfOneElement(header.type)
      first  == Skipped(at + 1, header.align)
      second == Skipped(IF one THEN at + 1 ELSE first + 1, header.align)
      store  == [compactor |-> header.type, start |-> header.start, nstates |-> header.num_states,
                 states |-> IF one THEN <<>> ELSE file[first + 1].is, compacts |-> file[second + 1].is]
  IN  IF (~one /\ ~Holds(file, first, "starts")) \/ ~Holds(file, second, "compacts") THEN Refused
      ELSE IF \/ header.start > header.num_states
              \/ ~one /\ \E s \in 1 .. store.nstates : store.states[s] > store.states[s + 1] THEN Refused
      ELSE Accepted([at |-> second + 1, fst |-> FromCompact([store |-> store, props |-> header.props])])

-----------------------------------------------------------------------------
(* AnyFst: the type in the header says what is read; and what holds another *)
(* automaton in its file, with a header of its own.                         *)

ReadPlain(file, at, verify) ==
  CASE ~Holds(file, at, "header") -> Refused
    [] file[at + 1].is.type = "vector" -> ReadVector(file, at, verify)
    [] file[at + 1].is.type = "const" -> ReadConst(file, at, verify)
    [] file[at + 1].is.type \in Compactors -> ReadCompact(file, at)
    [] OTHER -> Refused

\* What is wrapped is of a type of its own.
WriteWrapped(file, f, type, align) ==
  CASE type = "vector" -> WriteVector(file, f)
    [] type = "const" -> WriteConst(file, f, align)
    [] type \in Compactors -> WriteCompact(file, compact_new(f, type), align)

WriteEdit(file, e, align) ==
  WriteVector(WriteWrapped(Append(file, Header("edit", Viewed(e), align)), e.wrapped, e.type, align), e.edits)
    \o <<Cell("map", e.external_to_internal), Cell("finals", e.edited_final_weights), Cell("new", e.num_new_states)>>

\* The edits are not verified: their arcs lead to states of the whole.
ReadEdit(file, at, verify) ==
  LET header  == file[at + 1].is
      wrapped == ReadPlain(file, at + 1, verify)
      edits   == ReadVector(file, wrapped.at, FALSE)
      map     == edits.at
  IN  IF wrapped.error THEN Refused
      ELSE IF edits.error THEN Refused
      ELSE Accepted([at |-> map + 3,
                     edit |-> [wrapped |-> wrapped.fst, type |-> file[at + 2].is.type, edits |-> edits.fst, external_to_internal |-> file[map + 1].is,
                               edited_final_weights |-> file[map + 2].is, num_new_states |-> file[map + 3].is,
                               start |-> header.start, props |-> header.props]])

\* AddOnImpl: an automaton and what was worked out for it, here a pair of halves
\* of which either may be missing.
WriteAddOn(file, f, type, align, halves) ==
  Append(WriteWrapped(file \o <<Header("add_on", f, align), Cell("magic", <<>>)>>, f, type, align), Cell("add_on", halves))

ReadAddOn(file, at, verify) ==
  LET contained == ReadPlain(file, at + 2, verify)
  IN  IF ~Holds(file, at, "header") \/ ~Holds(file, at + 1, "magic") THEN Refused
      ELSE IF contained.error THEN Refused
      ELSE Accepted([at |-> contained.at + 1, fst |-> contained.fst, halves |-> file[contained.at + 1].is])
============================================================================
