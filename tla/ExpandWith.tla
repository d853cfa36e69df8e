----------------------------- MODULE ExpandWith -----------------------------
(***************************************************************************)
(* The expansion protocol of sicada/src/expander_cache.rs that every cache *)
(* shares: expand_with lends one scratch builder to the expander, and the  *)
(* expander may call back into the cache while it holds it, so that        *)
(* expansions nest.  Also the state iterator of fsts/expander_fst.rs,      *)
(* which walks a state count that grows as expansions discover states.     *)
(*                                                                         *)
(* The expander writes the arcs of an answer one by one and then the final *)
(* weight; between two arcs anything may happen, a panic included.         *)
(***************************************************************************)
EXTENDS Integers, Sequences, FiniteSets

CONSTANTS
  NumStates,   \* states are 0 .. NumStates - 1
  Weight,      \* final weights
  Zero,        \* the weight of a state that is not final
  Answers,     \* Answers[s]: the contents an expansion of s may write
  Start,       \* the start state
  MaxDepth,    \* bound: nested expansions
  MaxPanics    \* bound: panics of the expander

State == 0 .. NumStates - 1
Arc == [next : State, ieps : BOOLEAN, oeps : BOOLEAN]
Contents == [final : Weight, ni : Nat, no : Nat, arcs : Seq(Arc)]

ExpandAssumption ==
  /\ NumStates \in Nat
  /\ Start \in State
  /\ Zero \in Weight
  /\ Answers \in [State -> SUBSET [final : Weight, arcs : Seq(Arc)]]
  /\ {MaxDepth, MaxPanics} \subseteq Nat

VARIABLES
  scratch,  \* the builder in the cell
  stack,    \* expansions in progress, innermost last
  known,    \* Expander::num_states: ids below it have been handed out
  iter,     \* the state iterator's next state
  panics    \* bound counter

protocol == <<scratch, stack, known, iter, panics>>

EmptyBuilder == [final |-> Zero, ni |-> 0, no |-> 0, arcs |-> <<>>]

\* Mutant: one of the counters survives into the next expansion.
ResetKeepsCount(b) == [EmptyBuilder EXCEPT !.no = b.no]

Reset(b) == EmptyBuilder

AddArc(b, arc) ==
  [b EXCEPT !.ni = @ + (IF arc.ieps THEN 1 ELSE 0),
            !.no = @ + (IF arc.oeps THEN 1 ELSE 0),
            !.arcs = Append(@, arc)]

Top == stack[Len(stack)]
Pop == SubSeq(stack, 1, Len(stack) - 1)
Finished(frame) == frame.written = Len(frame.answer.arcs)

\* What the innermost expansion hands to its cache.
Product ==
  IF Top.answer.final = Zero THEN Top.builder
  ELSE [Top.builder EXCEPT !.final = Top.answer.final]

InitProtocol ==
  /\ scratch = EmptyBuilder
  /\ stack = <<>>
  /\ known = Start + 1
  /\ iter = 0
  /\ panics = 0

\* find_or_expand missed: the expander starts writing with a builder taken out
\* of the cell.
Take(s, answer) ==
  /\ stack' = Append(stack, [state |-> s, answer |-> answer, written |-> 0,
                             builder |-> Reset(scratch)])
  /\ scratch' = EmptyBuilder
  /\ UNCHANGED <<known, panics>>

Expand(s) ==
  /\ Len(stack) < MaxDepth
  /\ s < known
  /\ \E answer \in Answers[s] : Take(s, answer)

\* The expander appends its next arc, discovering the state it leads to.
Write ==
  /\ stack # <<>> /\ ~ Finished(Top)
  /\ LET arc == Top.answer.arcs[Top.written + 1]
     IN  /\ stack' = Append(Pop, [Top EXCEPT !.written = @ + 1,
                                             !.builder = AddArc(@, arc)])
         /\ known' = IF arc.next >= known THEN arc.next + 1 ELSE known
  /\ UNCHANGED <<scratch, iter, panics>>

\* The expander returned, and the cache has stored the product.
HandBack ==
  /\ stack # <<>> /\ Finished(Top)
  /\ stack' = Pop
  /\ scratch' = Reset(Product)
  /\ UNCHANGED <<known, iter, panics>>

\* The expander panics; whoever called find_or_expand may catch it.  The
\* builder is dropped with the frame.
Panic ==
  /\ stack # <<>>
  /\ panics < MaxPanics
  /\ panics' = panics + 1
  /\ stack' = Pop
  /\ UNCHANGED <<scratch, known, iter>>

-----------------------------------------------------------------------------
Frame == [state : State, answer : [final : Weight, arcs : Seq(Arc)],
          written : Nat, builder : Contents]

ProtocolTypeOK ==
  /\ scratch \in Contents
  /\ stack \in Seq(Frame)
  /\ known \in 1 .. NumStates
  /\ iter \in 0 .. known
  /\ panics \in 0 .. MaxPanics

\* What a cache must hold for an answer.
ContentsOf(answer) ==
  [final |-> answer.final,
   ni |-> Cardinality({i \in DOMAIN answer.arcs : answer.arcs[i].ieps}),
   no |-> Cardinality({i \in DOMAIN answer.arcs : answer.arcs[i].oeps}),
   arcs |-> answer.arcs]
ContentsFor == [s \in State |-> {ContentsOf(a) : a \in Answers[s]}]

\* An expander that walks back into the cache interleaves with the expansions
\* around it, yet each builder holds exactly what its own frame wrote: nothing
\* of a nested expansion, of the previous user of the scratch, or of one that
\* panicked.
BuildersDoNotMix ==
  \A i \in DOMAIN stack :
    LET f == stack[i]
    IN  f.builder = [ContentsOf([f.answer EXCEPT
                       !.arcs = SubSeq(@, 1, f.written)]) EXCEPT !.final = Zero]
=============================================================================
