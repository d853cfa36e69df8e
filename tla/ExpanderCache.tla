---------------------------- MODULE ExpanderCache ----------------------------
(***************************************************************************)
(* VectorExpanderCache and HashExpanderCache of                            *)
(* sicada/src/expander_cache.rs: a table of boxed states, filled by        *)
(* expansions that may nest and may fill each other's slot.  A view given  *)
(* to a caller points into a box, so the box must outlive every insertion. *)
(***************************************************************************)
EXTENDS ExpandWith

CONSTANT
  Dense     \* TRUE: indexed by state id (vector); FALSE: hashed

VARIABLES
  table,    \* state -> box, or NoBox for a slot never filled
  boxes,    \* number of boxes allocated: the address of the next one
  views     \* history: the views handed to callers

vars == <<protocol, table, boxes, views>>

NoBox == [addr |-> 0]
Box == [addr : Nat \ {0}, contents : Contents]
View == [state : State, addr : Nat \ {0}, contents : Contents]

Cached(s) == s \in DOMAIN table /\ table[s] # NoBox
ViewIn(t, s) == [state |-> s, addr |-> t[s].addr, contents |-> t[s].contents]
ViewOf(s) == ViewIn(table, s)

\* The slots of a table that is to hold s.
Slots(s) == IF Dense THEN DOMAIN table \cup 0 .. s ELSE DOMAIN table \cup {s}

Init ==
  /\ InitProtocol
  /\ table = [s \in {} |-> NoBox]
  /\ boxes = 0
  /\ views = {}

\* Fills the slot of s unless an expansion nested in this one already has.
Store(s, c) ==
  LET box == [addr |-> boxes + 1, contents |-> c]
      old(t) == IF t \in DOMAIN table THEN table[t] ELSE NoBox
  IN  /\ table' = [t \in Slots(s) |->
                     IF t = s /\ old(t) = NoBox THEN box ELSE old(t)]
      /\ boxes' = IF Cached(s) THEN boxes ELSE boxes + 1

\* find_or_expand on a cached state, and find, which never expands.
Find(s) ==
  /\ Cached(s)
  /\ views' = views \cup {ViewOf(s)}
  /\ UNCHANGED <<protocol, table, boxes>>

FindOrExpand(s) ==
  /\ ~ Cached(s)
  /\ Expand(s)
  /\ UNCHANGED <<iter, table, boxes, views>>

WriteArc == Write /\ UNCHANGED <<table, boxes, views>>

\* The outermost part of find_or_expand, after the expander has returned.
Return ==
  /\ HandBack
  /\ Store(Top.state, Product)
  /\ views' = views \cup {ViewIn(table', Top.state)}

Unwind == Panic /\ UNCHANGED <<table, boxes, views>>

\* The owner goes on with a clone: its own boxes, an empty scratch, and no view
\* into the original.
Clone ==
  /\ stack = <<>>
  /\ scratch' = EmptyBuilder
  /\ views' = {}
  /\ UNCHANGED <<stack, known, iter, panics, table, boxes>>

\* Mutant: the state count is read once, when the iterator is made.
IterNextCountsOnce ==
  /\ stack = <<>>
  /\ iter < Start + 1
  /\ IF Cached(iter)
     THEN iter' = iter + 1 /\ UNCHANGED <<scratch, stack, known, panics>>
     ELSE Expand(iter) /\ UNCHANGED iter
  /\ UNCHANGED <<table, boxes, views>>

\* ExpanderStateIter::next: expands the state it is about to yield.
IterNext ==
  /\ stack = <<>>
  /\ iter < known
  /\ IF Cached(iter)
     THEN iter' = iter + 1 /\ UNCHANGED <<scratch, stack, known, panics>>
     ELSE Expand(iter) /\ UNCHANGED iter
  /\ UNCHANGED <<table, boxes, views>>

Next ==
  \/ \E s \in State : Find(s)
  \/ \E s \in State : FindOrExpand(s)
  \/ WriteArc
  \/ Return
  \/ Unwind
  \/ Clone
  \/ IterNext

Spec == Init /\ [][Next]_vars

-----------------------------------------------------------------------------
(***************************************************************************)
(* Properties                                                              *)
(***************************************************************************)

\* Types; a vector table has no holes in its index range.
TypeOK ==
  /\ ProtocolTypeOK
  /\ DOMAIN table \subseteq State
  /\ Dense => \E n \in 0 .. NumStates : DOMAIN table = 0 .. n - 1
  /\ \A s \in DOMAIN table : table[s] \in Box \cup {NoBox}
  /\ boxes \in Nat
  /\ views \subseteq View

\* "A view keeps reading its own state however much the cache grows": the box
\* behind every view handed out is still the one in the table, with the
\* contents it had, whichever expansions have filled or refilled slots since.
ViewsStayValid ==
  \A v \in views : Cached(v.state) /\ ViewOf(v.state) = v

\* What the cache remembers.
Remembered == [s \in {t \in DOMAIN table : table[t] # NoBox} |-> table[s].contents]

\* A state iterator that has been through the states below iter has expanded
\* them all.
IteratedAreCached == \A s \in 0 .. iter - 1 : Cached(s)
=============================================================================
