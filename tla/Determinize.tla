----------------------------- MODULE Determinize -----------------------------
(***************************************************************************)
(* determinize_fsa of algorithms/determinize.rs: a state of the result is  *)
(* a weighted subset of the states of an acceptor, each with the weight    *)
(* that the arcs so far have not taken; subsets become states as they are  *)
(* reached, the last reached is expanded first, and each tells how far it  *)
(* is from the final states.  Weights are exact, so quantizing them keeps  *)
(* them as they are.                                                       *)
(***************************************************************************)
EXTENDS Integers, Sequences
LOCAL INSTANCE SequencesExt
LOCAL INSTANCE FiniteSetsExt

CONSTANTS
  State,
  Zero, One, Plus(_, _), Times(_, _),
  Divide(_, _),  \* Divide(a, b): what is left of a when b is taken from the left
  CommonDivisor(_, _),  \* what can be taken from both of two weights
  NoLimit        \* no cap on the states

VARIABLES
  ifst,        \* [start, arcs, final]: the acceptor, its arcs as [label, next, weight]; start may be NoState
  to_final,    \* how far each of its states is from the final ones
  max_states,
  subsets,     \* the states of the result: functions from the states they stand for to weights
  pending,     \* the states to expand; the last goes first
  state, todo, \* the state being expanded, and the labels its arcs are still to be built for
  arcs, final, \* the result's
  out_dist,    \* how far each of its states is from the final ones
  status       \* "running", "done" or "refused"

vars == <<ifst, to_final, max_states, subsets, pending, state, todo, arcs, final, out_dist, status>>

NoState == -1

Sum(S, f(_)) == MapThenFoldSet(Plus, Zero, f, LAMBDA T : CHOOSE t \in T : TRUE, S)
Common(S, f(_)) == MapThenFoldSet(CommonDivisor, Zero, f, LAMBDA T : CHOOSE t \in T : TRUE, S)

-----------------------------------------------------------------------------
subset_distance(subset) == Sum(DOMAIN subset, LAMBDA q : Times(subset[q], to_final[q]))

\* The number of the state that stands for a subset, among those known.
Known(subset, known) == CHOOSE k \in DOMAIN known : known[k] = subset

\* A subset seen for the first time becomes a state, and waits.
find_state(subset) ==
  LET known == subset \in Range(subsets) IN
  /\ subsets'  = IF known THEN subsets ELSE Append(subsets, subset)
  /\ pending'  = IF known THEN pending ELSE Append(pending, Len(subsets) + 1)
  /\ out_dist' = IF known THEN out_dist ELSE Append(out_dist, subset_distance(subset))

New(fst, distances, limit) ==
  /\ ifst = fst /\ to_final = distances /\ max_states = limit
  /\ subsets = (IF fst.start = NoState THEN <<>> ELSE <<[q \in {fst.start} |-> One]>>)
  /\ out_dist = (IF fst.start = NoState THEN <<>> ELSE <<Times(One, distances[fst.start])>>)
  /\ pending = (IF fst.start = NoState THEN <<>> ELSE <<1>>)
  /\ state = 0 /\ todo = {}
  /\ arcs = <<>> /\ final = <<>> /\ status = "running"

-----------------------------------------------------------------------------
\* The arcs that leave a subset, as [label, next, weight], and with them what
\* each of their states has come to.
Transitions(subset) ==
  UNION {{[from |-> q, label |-> a.label, next |-> a.next, weight |-> Times(subset[q], a.weight)] :
            a \in Range(ifst.arcs[q])} : q \in DOMAIN subset}

\* Mutant: the arc takes the weight of the whole, and its states keep theirs.
Leads_KeepsWeight(transitions, label) ==
  LET own    == {t \in transitions : t.label = label}
      weight == Common(own, LAMBDA t : t.weight)
  IN [weight |-> weight,
      subset |-> [q \in {t.next : t \in own} |-> Sum({t \in own : t.next = q}, LAMBDA t : t.weight)]]

\* The one arc with a label: it takes what its transitions have in common, and
\* the states they lead to are left with the rest.
Leads(transitions, label) ==
  LET own    == {t \in transitions : t.label = label}
      weight == Common(own, LAMBDA t : t.weight)
  IN [weight |-> weight,
      subset |-> [q \in {t.next : t \in own} |->
                    Divide(Sum({t \in own : t.next = q}, LAMBDA t : t.weight), weight)]]

\* The subset reached last is expanded.
Expand ==
  LET id     == Last(pending)
      subset == subsets[id]
  IN /\ status = "running" /\ todo = {} /\ pending # <<>>
     /\ pending' = Front(pending) /\ state' = id
     /\ todo' = {t.label : t \in Transitions(subset)}
     /\ arcs' = [s \in DOMAIN arcs \cup {id} |-> IF s = id THEN <<>> ELSE arcs[s]]
     /\ final' = [s \in DOMAIN final \cup {id} |->
                    IF s = id THEN Sum(DOMAIN subset, LAMBDA q : Times(subset[q], ifst.final[q])) ELSE final[s]]
     /\ UNCHANGED <<ifst, to_final, max_states, subsets, out_dist, status>>

\* Its next label's arc is built, unless there are too many states already.
AddArc ==
  LET label   == Min(todo)
      lead    == Leads(Transitions(subsets[state]), label)
      refused == max_states # NoLimit /\ Len(subsets') > max_states
  IN /\ status = "running" /\ todo # {} /\ todo' = todo \ {label}
     /\ find_state(lead.subset)
     /\ status' = IF refused THEN "refused" ELSE status
     /\ arcs' = IF refused THEN arcs
                ELSE [arcs EXCEPT ![state] = Append(@, [label |-> label, weight |-> lead.weight,
                                                        next |-> Known(lead.subset, subsets')])]
     /\ UNCHANGED <<ifst, to_final, max_states, state, final>>

Finish == /\ status = "running" /\ todo = {} /\ pending = <<>> /\ status' = "done"
          /\ UNCHANGED <<ifst, to_final, max_states, subsets, pending, state, todo, arcs, final, out_dist>>

Next == Expand \/ AddArc \/ Finish

\* The automaton built, its states numbered from 1.
Result == [start |-> IF subsets = <<>> THEN NoState ELSE 1, arcs |-> arcs, final |-> final]
=============================================================================
