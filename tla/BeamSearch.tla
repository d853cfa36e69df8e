----------------------------- MODULE BeamSearch -----------------------------
(***************************************************************************)
(* What a frame-synchronous beam search promises, whichever decoder runs   *)
(* it and in whatever order it walks its hash maps: which states of the    *)
(* graph are alive after each frame, and at what cost.                     *)
(***************************************************************************)
EXTENDS Integers, FiniteSetsExt

CONSTANTS
  Inf,    \* an infinite cost
  Tasks   \* what is decoded: start, arcs (from, ilabel, olabel, cost, to), final,
          \* frames (their columns' costs), offset (the label of column 0), beam,
          \* max_active and min_active

VARIABLES
  task,   \* the one being decoded
  frame,  \* how many of its frames are behind, or -1 before the start's epsilons are
  alive   \* the states alive, with what it cost to reach them

EPSILON == 0

Sum2(a, b) == IF a = Inf \/ b = Inf THEN Inf ELSE a + b

\* The cheapest of what is known of each state.
Cheapest(known) == [s \in {k[1] : k \in known} |-> Min({k[2] : k \in {x \in known : x[1] = s}})]

Emitting(tk)  == {a \in tk.arcs : a.ilabel # EPSILON}
Epsilons(tk)  == {a \in tk.arcs : a.ilabel = EPSILON}

Score(tk, f, ilabel) == tk.frames[f][ilabel - tk.offset]

\* The costs a state can be reached at along epsilons, none of them past the cutoff.
Closed(tk, costs, cutoff) ==
  LET upto[n \in 0 .. Cardinality(tk.states)] ==
        IF n = 0 THEN {<<s, costs[s]>> : s \in DOMAIN costs}
        ELSE LET known == upto[n - 1] IN
             known \cup {<<x[1].to, Sum2(x[2][2], x[1].cost)>> :
                           x \in {y \in Epsilons(tk) \X known : /\ y[1].from = y[2][1]
                                                               /\ Sum2(y[2][2], y[1].cost) <= cutoff}}
  IN Cheapest(upto[Cardinality(tk.states)])

\* What lies within the beam of the best, and no worse than what is one past the cap.
Cutoff(tk, costs) ==
  LET cap  == Max({tk.max_active, tk.min_active})
      beam == Sum2(Min({costs[s] : s \in DOMAIN costs}), tk.beam)
      over == {costs[s] : s \in {x \in DOMAIN costs : Cardinality({y \in DOMAIN costs : costs[y] <= costs[x]}) > cap}}
  IN Min({beam} \cup over)

Within(costs, cutoff) == [s \in {x \in DOMAIN costs : costs[x] <= cutoff} |-> costs[s]]

\* One frame on: the emitting arcs, the beam, the epsilons under it, and the beam
\* once more if they brought in too many.
Ahead(tk, f, costs) ==
  LET reached == Cheapest({<<x[1].to, Sum2(costs[x[2]], Sum2(x[1].cost, Score(tk, f, x[1].ilabel)))>> :
                             x \in {y \in Emitting(tk) \X DOMAIN costs : y[1].from = y[2]}})
      cutoff  == Cutoff(tk, reached)
      settled == Closed(tk, Within(reached, cutoff), cutoff)
  IN IF Cardinality(DOMAIN settled) > tk.max_active THEN Within(settled, Cutoff(tk, settled)) ELSE settled

Init ==
  /\ task \in Tasks
  /\ frame = -1 /\ alive = [s \in {task.start} |-> 0]

Start ==
  /\ frame = -1
  /\ frame' = 0 /\ alive' = Closed(task, alive, Inf)
  /\ UNCHANGED task

NextFrame ==
  /\ frame \in 0 .. Cardinality(DOMAIN task.frames) - 1
  /\ \E a \in Emitting(task) : a.from \in DOMAIN alive
  /\ frame' = frame + 1
  /\ alive' = Ahead(task, frame + 1, alive)
  /\ UNCHANGED task

Next == Start \/ NextFrame

Spec == Init /\ [][Next]_<<task, frame, alive>>
=============================================================================
