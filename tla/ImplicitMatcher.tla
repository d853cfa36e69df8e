--------------------------- MODULE ImplicitMatcher ---------------------------
(***************************************************************************)
(* The matchers that give a label of the automaton a meaning, around a     *)
(* sorted matcher that finds the arcs: rho, the rest, stands for a label   *)
(* the state has no arc for; sigma, any, for every label besides the arcs  *)
(* that have it; phi, failure, leads to a state to ask instead; and a set  *)
(* of labels may be taken as more kinds of epsilon.  Beside them, with the *)
(* same operations, the matcher that hashes.                               *)
(***************************************************************************)
EXTENDS Integers, Sequences

CONSTANT Special  \* the label with the meaning

VARIABLES
  over,   \* arcs, of the automaton; side, the one matched; both, a match rewrites both
          \* sides of its arc; loop, a failure arc back to its state stands for every
          \* label; multi, the labels taken as epsilon, in order; flags, what is made of them
  kind,   \* the matcher
  inner,  \* the sorted matcher under it
  state,  \* the state it was last told
  has,    \* that state has an arc with the special label, as far as it knows
  match,  \* the label such an arc stands in for, or NoLabel
  asked,  \* the label of the search
  weight, \* phi: the failure arcs taken
  index,  \* multi-epsilon: how far through the labels the search is
  found   \* the search found an arc

matcher == <<over, kind, inner, state, has, match, asked, weight, index, found>>

One == <<>>  \* a weight is the sequence of what was multiplied

Inner == INSTANCE SortedMatcher WITH Arcs <- over.arcs, Side <- over.side

NoLabel == Inner!NoLabel
Epsilon == Inner!Epsilon
NoState == Inner!NoState

Real(label) == label # Epsilon /\ label # NoLabel

\* The label asked for, put where the special one stood.
rewrite(arc, label) ==
  LET swapped(l) == IF l = Special THEN label ELSE l IN
  IF over.both THEN [arc EXCEPT !.ilabel = swapped(@), !.olabel = swapped(@)]
  ELSE IF over.side = "input" THEN [arc EXCEPT !.ilabel = label]
  ELSE [arc EXCEPT !.olabel = label]

New(setup, k) ==
  /\ over = setup /\ kind = k /\ inner = Inner!New /\ state = NoState /\ has = FALSE
  /\ match = NoLabel /\ asked = NoLabel /\ weight = One /\ index = 1 /\ found = FALSE

\* A match rewrites both sides when told to, or when every arc reads what it writes.
rewrites_both(arcs, mode) ==
  \/ mode = "always"
  \/ mode = "auto" /\ \A s \in DOMAIN arcs : \A i \in DOMAIN arcs[s] : arcs[s][i].ilabel = arcs[s][i].olabel

Rewriting(setup, mode) == [setup EXCEPT !.both = rewrites_both(setup.arcs, mode)]

\* Epsilon is refused as the rest and as any.
rho_new(setup, mode)   == Special # Epsilon /\ New(Rewriting(setup, mode), "rho")
sigma_new(setup, mode) == Special # Epsilon /\ New(Rewriting(setup, mode), "sigma")
phi_new(setup, mode)   == New(Rewriting(setup, mode), "phi")
multi_new(setup)       == New([setup EXCEPT !.multi = <<>>], "multi")
explicit_new(setup)    == New(setup, "explicit")
hash_new(setup) ==
  /\ over = setup /\ kind = "hash" /\ inner = Inner!HashNew /\ state = NoState /\ has = FALSE
  /\ match = NoLabel /\ asked = NoLabel /\ weight = One /\ index = 1 /\ found = FALSE

-----------------------------------------------------------------------------
\* The clones of three matchers forget the search and the state; the others are copies.
clone_rho ==
  /\ kind = "rho" /\ match' = NoLabel /\ has' = FALSE /\ state' = NoState
  /\ UNCHANGED <<over, kind, inner, asked, weight, index, found>>

clone_sigma ==
  /\ kind = "sigma" /\ match' = NoLabel /\ asked' = NoLabel /\ has' = FALSE /\ state' = NoState
  /\ UNCHANGED <<over, kind, inner, weight, index, found>>

clone_multi ==
  /\ kind = "multi" /\ match' = NoLabel /\ state' = NoState /\ found' = FALSE /\ index' = Len(over.multi) + 1
  /\ UNCHANGED <<over, kind, inner, has, asked, weight>>

clone ==
  \/ clone_rho
  \/ clone_sigma
  \/ clone_multi
  \/ kind \in {"phi", "explicit", "hash"} /\ UNCHANGED matcher

\* The labels taken as epsilon change; epsilon itself is refused, and a label twice is one.
Multi(labels) ==
  /\ over' = [over EXCEPT !.multi = labels]
  /\ UNCHANGED <<kind, inner, state, has, match, asked, weight, found>>

add_multi_eps_label(label) ==
  /\ kind = "multi" /\ label # Epsilon /\ UNCHANGED index
  /\ LET below == SelectSeq(over.multi, LAMBDA l : l < label) IN
     Multi(below \o <<label>> \o SelectSeq(over.multi, LAMBDA l : l > label))

remove_multi_eps_label(label) ==
  kind = "multi" /\ Multi(SelectSeq(over.multi, LAMBDA l : l # label)) /\ UNCHANGED index

clear_multi_eps_labels == kind = "multi" /\ Multi(<<>>) /\ index' = 1

-----------------------------------------------------------------------------
Has(s) == Inner!Find(Inner!SetState(inner, s), Special)

\* Rho and phi take it that a new state has the special arc until a search says otherwise.
rho_set_state(s) ==
  /\ kind \in {"rho", "phi"} /\ state # s
  /\ inner' = Inner!SetState(inner, s) /\ state' = s /\ has' = TRUE
  /\ UNCHANGED <<over, kind, match, asked, weight, index, found>>

\* Sigma looks at once.
sigma_set_state(s) ==
  /\ kind = "sigma" /\ state # s
  /\ inner' = Has(s) /\ state' = s /\ has' = inner'.found
  /\ UNCHANGED <<over, kind, match, asked, weight, index, found>>

multi_set_state(s) ==
  /\ kind \in {"multi", "explicit"}
  /\ inner' = Inner!SetState(inner, s) /\ state' = s
  /\ UNCHANGED <<over, kind, has, match, asked, weight, index, found>>

hash_set_state(s) ==
  /\ kind = "hash"
  /\ inner' = Inner!HashSetState(inner, s) /\ state' = s
  /\ UNCHANGED <<over, kind, has, match, asked, weight, index, found>>

set_state(s) ==
  \/ rho_set_state(s)
  \/ sigma_set_state(s)
  \/ multi_set_state(s)
  \/ hash_set_state(s)
  \/ kind \in {"rho", "sigma", "phi"} /\ state = s /\ UNCHANGED matcher

\* Whether the match has to be made on this side: the search may move the
\* matcher inside, and with it what is known of the state.
priority(s) ==
  \/ /\ kind = "rho"
     /\ inner' = Has(s) /\ state' = s /\ has' = inner'.found
     /\ UNCHANGED <<over, kind, match, asked, weight, index, found>>
  \/ sigma_set_state(s)
  \/ kind = "phi" /\ inner' = Has(s) /\ UNCHANGED <<over, kind, state, has, match, asked, weight, index, found>>
  \/ kind = "sigma" /\ state = s /\ UNCHANGED matcher
  \/ kind \in {"multi", "explicit", "hash"} /\ UNCHANGED matcher

-----------------------------------------------------------------------------
\* Rho: the arcs with the label, or else those labelled rho.
rho_find(label) ==
  LET plain == Inner!Find(inner, label)
      rest  == Inner!Find(plain, Special)
      tries == ~plain.found /\ has /\ Real(label)
  IN /\ kind = "rho" /\ label # Special
     /\ inner' = IF tries THEN rest ELSE plain
     /\ has' = IF tries THEN rest.found ELSE has
     /\ match' = IF plain.found THEN NoLabel ELSE IF tries /\ rest.found THEN label ELSE match
     /\ found' = (plain.found \/ (tries /\ rest.found))
     /\ asked' = label
     /\ UNCHANGED <<over, kind, state, weight, index>>

\* Sigma: the arcs with the label; those labelled sigma follow them, or come at once.
sigma_find(label) ==
  LET plain == Inner!Find(inner, label)
      any   == Inner!Find(plain, Special)
      tries == ~plain.found /\ has /\ Real(label)
  IN /\ kind = "sigma" /\ label # Special
     /\ inner' = IF tries THEN any ELSE plain
     /\ match' = IF plain.found THEN NoLabel ELSE IF tries /\ any.found THEN label ELSE match
     /\ found' = (plain.found \/ (tries /\ any.found))
     /\ asked' = label
     /\ UNCHANGED <<over, kind, state, has, weight, index>>

\* One failure arc is taken: its weight counts, and its target is asked next.
Fail(step) ==
  LET arc == Inner!Value(step.m) IN
  [m |-> Inner!SetState(step.m, arc.nextstate), at |-> arc.nextstate, weight |-> step.weight \o arc.weight]

\* Phi: the arcs with the label at the first state that has any, following failure arcs.
RECURSIVE Failing(_, _)
Failing(step, label) ==
  LET plain == Inner!Find(step.m, label)
      fail  == Inner!Find(plain, Special)
  IN IF plain.found THEN [m |-> plain, weight |-> step.weight, match |-> NoLabel]
     ELSE IF ~fail.found THEN [m |-> fail, weight |-> step.weight, match |-> NoLabel]
     ELSE IF over.loop /\ Inner!Value(fail).nextstate = step.at
          THEN [m |-> fail, weight |-> step.weight, match |-> label]
     ELSE Failing(Fail([step EXCEPT !.m = fail]), label)

phi_find(label) ==
  LET here == Inner!SetState(inner, state)
      end  == IF has /\ Real(label) THEN Failing([m |-> here, at |-> state, weight |-> One], label)
              ELSE [m |-> Inner!Find(here, label), weight |-> One, match |-> NoLabel]
  IN /\ kind = "phi" /\ label # Special
     /\ inner' = end.m /\ weight' = end.weight /\ match' = end.match
     /\ found' = end.m.found /\ asked' = label
     /\ UNCHANGED <<over, kind, state, has, index>>

\* The first label from i on that the state has arcs for, or one past the last.
Seek(m, i) ==
  LET has_arcs == {j \in i .. Len(over.multi) : Inner!Find(m, over.multi[j]).found} IN
  IF has_arcs = {} THEN Len(over.multi) + 1 ELSE CHOOSE j \in has_arcs : \A k \in has_arcs : j <= k

\* The search for the arcs of the label at i, or for those that consume nothing after the last.
Sought(m, i) == Inner!Find(m, IF i <= Len(over.multi) THEN over.multi[i] ELSE NoLabel)

\* Taken as epsilon, a label is answered by a loop, and no label by every kind
\* of epsilon, each if its flag is set.
multi_find(label) ==
  LET looped == "loop" \in over.flags /\ \E i \in 1 .. Len(over.multi) : over.multi[i] = label
      first  == IF label = NoLabel /\ "list" \in over.flags THEN Seek(inner, 1) ELSE Len(over.multi) + 1
      end    == IF label = NoLabel THEN Sought(inner, first) ELSE Inner!Find(inner, label)
  IN /\ kind = "multi"
     /\ index' = first
     /\ inner' = IF looped THEN inner ELSE end
     /\ match' = IF looped THEN label ELSE NoLabel
     /\ found' = (looped \/ end.found)
     /\ asked' = label
     /\ UNCHANGED <<over, kind, state, has, weight>>

\* The loop that consumes nothing is hidden.
Explicit(m) == IF ~Inner!Done(m) /\ Inner!Label(Inner!Value(m)) = NoLabel THEN Inner!Advance(m) ELSE m

explicit_find(label) ==
  /\ kind = "explicit"
  /\ inner' = Explicit(Inner!Find(inner, label))
  /\ found' = ~Inner!Done(inner') /\ asked' = label
  /\ UNCHANGED <<over, kind, state, has, match, weight, index>>

hash_find(label) ==
  /\ kind = "hash"
  /\ inner' = Inner!HashFind(inner, label)
  /\ found' = (inner'.matches # <<>> \/ inner'.loop) /\ asked' = label
  /\ UNCHANGED <<over, kind, state, has, match, weight, index>>

find(label) ==
  \/ rho_find(label) \/ sigma_find(label) \/ phi_find(label)
  \/ multi_find(label) \/ explicit_find(label) \/ hash_find(label)

-----------------------------------------------------------------------------
looping == kind = "multi" /\ match # NoLabel

value ==
  IF looping THEN [ilabel |-> NoLabel, olabel |-> NoLabel, weight |-> One, nextstate |-> state]
  ELSE LET arc == IF kind = "hash" THEN Inner!HashValue(inner) ELSE Inner!Value(inner)
           own == IF match = NoLabel THEN arc ELSE rewrite(arc, match)
       IN [own EXCEPT !.weight = weight \o @]

\* Whether there is more to answer: a search that has not found anything is never asked.
done == ~found \/ (~looping /\ IF kind = "hash" THEN Inner!HashDone(inner) ELSE Inner!Done(inner))

next_rho ==
  /\ kind \in {"rho", "phi"}
  /\ inner' = Inner!Advance(inner)
  /\ UNCHANGED <<over, kind, state, has, match, asked, weight, index, found>>

\* The ordinary arcs run out, and the search goes on with those labelled sigma.
next_sigma ==
  LET on    == Inner!Advance(inner)
      falls == Inner!Done(on) /\ has /\ match = NoLabel /\ Real(asked)
  IN /\ kind = "sigma"
     /\ inner' = IF falls THEN Inner!Find(on, Special) ELSE on
     /\ match' = IF falls THEN asked ELSE match
     /\ UNCHANGED <<over, kind, state, has, asked, weight, index, found>>

\* Mutant: the search for what consumes nothing stops at the last of the labels.
next_multi_StopsShort ==
  LET on == Inner!Advance(inner)
      i  == Seek(on, index + 1)
  IN /\ kind = "multi"
     /\ IF looping THEN found' = FALSE /\ UNCHANGED <<inner, index, match>>
        ELSE IF Inner!Done(on) /\ index < Len(over.multi)
        THEN inner' = Sought(on, i) /\ index' = i /\ found' = inner'.found /\ UNCHANGED match
        ELSE inner' = on /\ UNCHANGED <<index, found, match>>
     /\ UNCHANGED <<over, kind, state, has, asked, weight>>

\* The arcs of one label run out, and the search goes on with the next label
\* that has any, and only then with what the matcher inside calls epsilon.
next_multi ==
  LET on == Inner!Advance(inner)
      i  == Seek(on, index + 1)
  IN /\ kind = "multi"
     /\ IF looping THEN found' = FALSE /\ UNCHANGED <<inner, index, match>>
        ELSE IF Inner!Done(on) /\ index <= Len(over.multi)
        THEN inner' = Sought(on, i) /\ index' = i /\ found' = inner'.found /\ UNCHANGED match
        ELSE inner' = on /\ UNCHANGED <<index, found, match>>
     /\ UNCHANGED <<over, kind, state, has, asked, weight>>

next_explicit ==
  /\ kind = "explicit"
  /\ inner' = Explicit(Inner!Advance(inner))
  /\ UNCHANGED <<over, kind, state, has, match, asked, weight, index, found>>

next_hash ==
  /\ kind = "hash"
  /\ inner' = Inner!HashAdvance(inner)
  /\ UNCHANGED <<over, kind, state, has, match, asked, weight, index, found>>

next == ~done /\ (next_rho \/ next_sigma \/ next_multi \/ next_explicit \/ next_hash)
=============================================================================
