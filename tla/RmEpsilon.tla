----------------------------- MODULE RmEpsilon -----------------------------
(***************************************************************************)
(* rm_epsilon of algorithms/rmepsilon.rs: each state takes over the arcs   *)
(* and the final weights of the states it reaches along epsilons, in place *)
(* and one state after the other, the states an epsilon leads to before    *)
(* those it leaves.  A state that only epsilons lead to is left as it is   *)
(* when the result is to be connected, and loses its arcs at the end.      *)
(*                                                                         *)
(* The weights are those of a semiring whose sums are one of their terms.  *)
(***************************************************************************)
EXTENDS Integers, Sequences, FiniteSetsExt

CONSTANTS
  zero, one, plus(_, _), times(_, _),
  Asked      \* [start, arcs (from, ilabel, olabel, weight, to), final], and whether to connect

VARIABLES
  before,    \* the automaton as it was given
  arcs,      \* its arcs
  final,     \* its final weights
  todo,      \* the states still to be expanded
  connected, \* whether what is useless goes at the end
  done,
  left       \* the states that are left then

vars == <<before, arcs, final, todo, connected, done, left>>

EPSILON == 0
NONE == -1

States == DOMAIN before.final
Silent(a) == a.ilabel = EPSILON /\ a.olabel = EPSILON

\* A sum of weights: the one that absorbs the others.
Sum(weights) == IF weights = {} THEN zero ELSE CHOOSE w \in weights : \A v \in weights : plus(w, v) = w

\* The states a relation leads to from some of them.
ReachedBy(relation, from) ==
  LET upto[n \in 0 .. Cardinality(States)] ==
        IF n = 0 THEN from ELSE LET known == upto[n - 1] IN known \cup {r[2] : r \in {x \in relation : x[1] \in known}}
  IN upto[Cardinality(States)]

Epsilons(as) == {<<a.from, a.to>> : a \in {x \in as : Silent(x)}}

\* Mutant: a state is wanted only where a label leads to it.
ReachedByLabelBare == {a.to : a \in {x \in before.arcs : ~Silent(x)}}

\* What a label leads to, or the start is: the others are folded into whoever
\* reaches them.
ReachedByLabel == {before.start} \cup {a.to : a \in {x \in before.arcs : ~Silent(x)}}

\* How far the states are from one of them along the epsilon arcs there are now.
EpsilonDistance(source) ==
  LET Best(known) == {k \in known : k[2] = Sum({x[2] : x \in {y \in known : y[1] = k[1]}})}
      upto[n \in 0 .. Cardinality(States)] ==
        IF n = 0 THEN {<<source, one>>}
        ELSE LET known == upto[n - 1] IN
             Best(known \cup {<<x[1].to, times(x[2][2], x[1].weight)>> :
                                x \in {y \in arcs \X known : Silent(y[1]) /\ y[1].from = y[2][1]}})
  IN upto[Cardinality(States)]

Init ==
  /\ \E what \in Asked : before = what.fst /\ connected = what.connect
  /\ arcs = before.arcs /\ final = before.final
  /\ todo = IF before.start = NONE THEN {} ELSE States
  /\ done = FALSE /\ left = {}

\* A component of the epsilon graph comes after those it leads to.
Ready(s) ==
  s \in todo /\ \A x \in ReachedBy(Epsilons(before.arcs), {s}) \cap todo : s \in ReachedBy(Epsilons(before.arcs), {x})

\* The state takes the arcs of its closure, those alike as one at their sum.
Expand(s) ==
  LET far   == EpsilonDistance(s)
      moved == {<<x[1].ilabel, x[1].olabel, x[1].to, times(x[2][2], x[1].weight)>> :
                  x \in {y \in arcs \X far : ~Silent(y[1]) /\ y[1].from = y[2][1]}}
  IN /\ ~done /\ Ready(s) /\ (connected => s \in ReachedByLabel)
     /\ todo' = todo \ {s}
     /\ final' = [final EXCEPT ![s] = Sum({times(d[2], final[d[1]]) : d \in {x \in far : final[x[1]] # zero}})]
     /\ arcs' = {a \in arcs : a.from # s} \cup
                {[from |-> s, ilabel |-> m[1], olabel |-> m[2], to |-> m[3],
                  weight |-> Sum({x[4] : x \in {y \in moved : <<y[1], y[2], y[3]>> = <<m[1], m[2], m[3]>>}})] : m \in moved}
     /\ UNCHANGED <<before, connected, done, left>>

Skip(s) ==
  /\ ~done /\ Ready(s) /\ connected /\ s \notin ReachedByLabel
  /\ todo' = todo \ {s}
  /\ UNCHANGED <<before, arcs, final, connected, done, left>>

\* The states skipped lose their arcs, so that connect drops them.
Finish ==
  LET kept  == {a \in arcs : a.from \in ReachedByLabel}
      pairs == {<<a.from, a.to>> : a \in kept}
      back  == {<<p[2], p[1]>> : p \in pairs}
      live  == ReachedBy(pairs, {before.start}) \cap ReachedBy(back, {s \in States : final[s] # zero})
  IN /\ ~done /\ todo = {} /\ before.start # NONE
     /\ done' = TRUE
     /\ left' = IF connected THEN live ELSE States
     /\ arcs' = IF connected THEN {a \in kept : {a.from, a.to} \subseteq live} ELSE arcs
     /\ UNCHANGED <<before, final, todo, connected>>

\* An automaton without a start is left as it is.
Nothing ==
  /\ ~done /\ before.start = NONE
  /\ done' = TRUE /\ left' = States
  /\ UNCHANGED <<before, arcs, final, todo, connected>>

Next == (\E s \in todo : Expand(s) \/ Skip(s)) \/ Finish \/ Nothing

-----------------------------------------------------------------------------
(* Properties.                                                             *)

\* Bound: strings of this many arcs with a label are compared.
MaxSpelled == 3

\* The strings accepted from a state, each with the sum of its paths.
Accepted(as, ends, from) ==
  LET Take(known, which) ==
        {<<x[1].to, IF Silent(x[1]) THEN x[2][2] ELSE Append(x[2][2], <<x[1].ilabel, x[1].olabel>>), times(x[2][3], x[1].weight)>> :
           x \in {y \in which \X known : y[1].from = y[2][1]}}
      Best(known) == {k \in known : k[3] = Sum({x[3] : x \in {y \in known : y[1] = k[1] /\ y[2] = k[2]}})}
      silent == {a \in as : Silent(a)}
      settle(known) ==
        LET upto[n \in 0 .. Cardinality(States)] ==
              IF n = 0 THEN known ELSE LET k == upto[n - 1] IN Best(k \cup Take(k, silent))
        IN IF silent = {} THEN Best(known) ELSE upto[Cardinality(States)]
      upto[n \in 0 .. MaxSpelled] ==
        IF n = 0 THEN settle({<<from, <<>>, one>>})
        ELSE LET known == upto[n - 1] IN known \cup settle(Take({k \in known : Len(k[2]) = n - 1}, as \ silent))
      strings == {<<k[2], times(k[3], ends[k[1]])>> : k \in {x \in upto[MaxSpelled] : ends[x[1]] # zero}}
  IN {s \in strings : s[2] = Sum({x[2] : x \in {y \in strings : y[1] = s[1]}})}

\* While states are rewritten one by one, with others not yet and some never to be
\* rewritten, every state accepts what it did at the weights it did; at the end no
\* epsilon is left and the whole accepts what it did.
EpsilonsLeaveNoTrace ==
  /\ ~done => \A s \in States : Accepted(arcs, final, s) = Accepted(before.arcs, before.final, s)
  /\ done /\ before.start # NONE =>
       /\ ~\E a \in arcs : Silent(a)
       /\ Accepted(arcs, final, before.start) = Accepted(before.arcs, before.final, before.start)
=============================================================================
