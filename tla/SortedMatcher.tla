---------------------------- MODULE SortedMatcher ----------------------------
(***************************************************************************)
(* A matcher over an automaton whose arcs are sorted by the label matched: *)
(* it finds the run of arcs with a label by bisection and answers them one *)
(* by one, and for epsilon answers first a loop that consumes nothing.     *)
(* Beside it the matcher that hashes, for arcs in any order.  A matcher is *)
(* a record; each operation yields the matcher after it.                   *)
(***************************************************************************)
EXTENDS Integers, Sequences

CONSTANTS
  Arcs,  \* [states -> sequences of arcs], sorted by the label matched unless they are hashed
  Side,  \* "input" or "output": the label matched
  One    \* the weight of what consumes nothing

NoLabel == -1
Epsilon == 0

Label(arc) == IF Side = "input" THEN arc.ilabel ELSE arc.olabel

\* The loop: the matched side is no label, the other one epsilon.
Loop(s) ==
  IF Side = "input" THEN [ilabel |-> NoLabel, olabel |-> Epsilon, weight |-> One, nextstate |-> s]
                    ELSE [ilabel |-> Epsilon, olabel |-> NoLabel, weight |-> One, nextstate |-> s]

NoState == -1

New == [state |-> NoState, pos |-> 1, end |-> 0, loop |-> FALSE, label |-> NoLabel, found |-> FALSE]

\* Asking again for the state it is at leaves the search as it stands.
SetState(m, s) == IF m.state = s THEN m ELSE [m EXCEPT !.state = s]

\* The positions of the arcs with the label, as bisection finds them.
search(arcs, label) ==
  LET below(P(_)) == Len(SelectSeq(arcs, P)) IN
  <<below(LAMBDA a : Label(a) < label) + 1, below(LAMBDA a : Label(a) <= label)>>

\* No label asks for the arcs labelled epsilon, without the loop.
Find(m, label) ==
  LET sought == IF label = NoLabel THEN Epsilon ELSE label
      run    == search(Arcs[m.state], sought)
      looped == label = Epsilon
  IN [m EXCEPT !.pos = run[1], !.end = run[2], !.loop = looped, !.label = sought,
               !.found = run[1] <= run[2] \/ looped]

Done(m) ==
  /\ ~m.loop
  /\ m.pos > m.end \/ Label(Arcs[m.state][m.pos]) # m.label

Value(m) == IF m.loop THEN Loop(m.state) ELSE Arcs[m.state][m.pos]

Advance(m) == IF m.loop THEN [m EXCEPT !.loop = FALSE] ELSE [m EXCEPT !.pos = @ + 1]

Priority(s) == Len(Arcs[s])

-----------------------------------------------------------------------------
\* All a search answers, in order.
Answers(s, label) ==
  LET m     == Find(SetState(New, s), label)
      loops == IF m.loop THEN <<Loop(s)>> ELSE <<>>
  IN loops \o SubSeq(Arcs[s], m.pos, m.end)

-----------------------------------------------------------------------------
(* The matcher that hashes: a state's arcs are filed by label the first    *)
(* time the state is set, in a table the clones share.                     *)

HashNew == [state |-> NoState, table |-> <<>>, loop |-> FALSE, matches |-> <<>>, pos |-> 1]

\* The arcs of a state under each label, in their order.
Filed(s) ==
  [l \in {Label(Arcs[s][i]) : i \in DOMAIN Arcs[s]} |-> SelectSeq(Arcs[s], LAMBDA a : Label(a) = l)]

HashSetState(m, s) ==
  IF m.state = s THEN m
  ELSE [m EXCEPT !.state = s,
                 !.table = [t \in DOMAIN @ \cup {s} |-> IF t \in DOMAIN @ THEN @[t] ELSE Filed(t)]]

HashFind(m, label) ==
  LET sought == IF label = NoLabel THEN Epsilon ELSE label
      filed  == m.table[m.state]
  IN [m EXCEPT !.loop = label = Epsilon, !.pos = 1,
               !.matches = IF sought \in DOMAIN filed THEN filed[sought] ELSE <<>>]

HashDone(m) == ~m.loop /\ m.pos > Len(m.matches)

HashValue(m) == IF m.loop THEN Loop(m.state) ELSE m.matches[m.pos]

HashAdvance(m) == IF m.loop THEN [m EXCEPT !.loop = FALSE] ELSE [m EXCEPT !.pos = @ + 1]
=============================================================================
