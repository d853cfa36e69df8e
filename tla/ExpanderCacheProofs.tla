------------------------- MODULE ExpanderCacheProofs -------------------------
(***************************************************************************)
(* What VectorExpanderCache and HashExpanderCache promise, for every       *)
(* expander, every nesting and every number of panics: a view keeps        *)
(* reading the box it was given, a box holds one of the expander's         *)
(* answers, and the cache is a memo of them.                               *)
(***************************************************************************)
EXTENDS ExpanderCache, ExpandWithProofs

\* What a slot holds is an answer for its state.
AnswersHeld ==
  \A s \in DOMAIN table : Cached(s) => table[s].contents \in ContentsFor[s]

CacheInv ==
  /\ ProtocolInv
  /\ TypeOK
  /\ ViewsStayValid
  /\ AnswersHeld
  /\ IteratedAreCached

\* No box is the mark of an empty slot.
LEMMA BoxesAreBoxes == \A box \in Box : box # NoBox
BY DEF Box, NoBox

\* What Store leaves behind: every filled slot is as it was, and s is filled.
LEMMA StoreKeeps ==
  ASSUME ExpandAssumption, Dense \in BOOLEAN, TypeOK, AnswersHeld,
         NEW s \in State, NEW c \in Contents, c \in ContentsFor[s], Store(s, c)
  PROVE  /\ \A t : Cached(t) => Cached(t)' /\ table'[t] = table[t]
         /\ Cached(s)'
         /\ ~ Cached(s) => table'[s].contents = c
         /\ \A t : Cached(t)' => Cached(t) \/ t = s
         /\ DOMAIN table' \subseteq State
         /\ Dense => \E n \in 0 .. NumStates : DOMAIN table' = 0 .. n - 1
         /\ \A t \in DOMAIN table' : table'[t] \in Box \cup {NoBox}
         /\ boxes' \in Nat
         /\ AnswersHeld'
<1> DEFINE box == [addr |-> boxes + 1, contents |-> c]
           old(t) == IF t \in DOMAIN table THEN table[t] ELSE NoBox
<1>1. /\ table' = [t \in Slots(s) |-> IF t = s /\ old(t) = NoBox THEN box ELSE old(t)]
      /\ boxes' = IF Cached(s) THEN boxes ELSE boxes + 1
  BY DEF Store
<1>2. /\ DOMAIN table \subseteq State /\ boxes \in Nat
      /\ \A t \in DOMAIN table : table[t] \in Box \cup {NoBox}
      /\ Dense => \E n \in 0 .. NumStates : DOMAIN table = 0 .. n - 1
  BY DEF TypeOK
<1>3. box \in Box /\ box # NoBox /\ box.contents = c
  <2>1. box \in Box
    BY <1>2 DEF Box
  <2> QED
    BY <2>1, BoxesAreBoxes
<1>4. NumStates \in Nat /\ s \in 0 .. NumStates - 1
  BY DEF ExpandAssumption, State
<1>5. DOMAIN table' = Slots(s) /\ DOMAIN table \subseteq Slots(s) /\ s \in Slots(s)
  BY <1>1, <1>4 DEF Slots
<1>6. Slots(s) \subseteq State
  BY <1>2, <1>4 DEF Slots, State
<1>7. ASSUME Dense PROVE \E n \in 0 .. NumStates : DOMAIN table' = 0 .. n - 1
  <2>1. PICK n \in 0 .. NumStates : DOMAIN table = 0 .. n - 1
    BY <1>2, <1>7
  <2>2. Slots(s) = (0 .. n - 1) \cup (0 .. s)
    BY <1>7, <2>1 DEF Slots
  <2>3. CASE s < n
    BY <1>4, <1>5, <2>2, <2>3
  <2>4. CASE s >= n
    <3>1. Slots(s) = 0 .. (s + 1) - 1 /\ s + 1 \in 0 .. NumStates
      BY <1>4, <2>2, <2>4
    <3> QED
      BY <1>5, <3>1
  <2> QED
    BY <1>4, <2>3, <2>4
<1> HIDE DEF box
<1>8. \A t \in DOMAIN table' :
        table'[t] = IF t = s /\ old(t) = NoBox THEN box ELSE old(t)
  BY <1>1
<1>9. \A t : Cached(t) => Cached(t)' /\ table'[t] = table[t]
  BY <1>5, <1>8 DEF Cached
<1>10. Cached(s)' /\ (~ Cached(s) => table'[s] = box)
  BY <1>3, <1>5, <1>8 DEF Cached
<1>11. \A t : Cached(t)' => Cached(t) \/ t = s
  BY <1>5, <1>8 DEF Cached
<1>12. \A t \in DOMAIN table' : table'[t] \in Box \cup {NoBox}
  BY <1>2, <1>3, <1>8
<1>13. boxes' \in Nat
  BY <1>1, <1>2
<1>14. AnswersHeld'
  <2> SUFFICES ASSUME NEW t \in DOMAIN table', Cached(t)'
               PROVE  table'[t].contents \in ContentsFor[t]
    BY DEF AnswersHeld
  <2>1. CASE Cached(t)
    BY <1>9, <2>1 DEF AnswersHeld, Cached
  <2>2. CASE ~ Cached(t)
    BY <1>3, <1>10, <1>11, <2>2
  <2> QED
    BY <2>1, <2>2
<1> QED
  BY <1>3, <1>5, <1>6, <1>7, <1>9, <1>10, <1>11, <1>12, <1>13, <1>14

\* Views and iterated states outlive a step that keeps every filled slot.
LEMMA FilledSlotsKept ==
  ASSUME CacheInv, \A t : Cached(t) => Cached(t)' /\ table'[t] = table[t],
         iter' = iter \/ (iter' = iter + 1 /\ Cached(iter)),
         views' \subseteq views \cup {[state |-> t, addr |-> table'[t].addr,
                                       contents |-> table'[t].contents] : t \in {u \in State : Cached(u)'}}
  PROVE  ViewsStayValid' /\ IteratedAreCached'
<1>1. ASSUME NEW v \in views' PROVE Cached(v.state)' /\ ViewIn(table', v.state) = v
  <2>1. CASE v \in views
    <3>1. Cached(v.state) /\ ViewIn(table, v.state) = v
      BY <2>1 DEF CacheInv, ViewsStayValid, ViewOf
    <3> QED
      BY <3>1 DEF ViewIn
  <2>2. CASE v \notin views
    <3>1. PICK t \in State : Cached(t)' /\ v = ViewIn(table', t)
      BY <2>2 DEF ViewIn
    <3>2. v.state = t
      BY <3>1 DEF ViewIn
    <3> QED
      BY <3>1, <3>2
  <2> QED
    BY <2>1, <2>2
<1>2. ViewsStayValid'
  BY <1>1 DEF ViewsStayValid, ViewOf, ViewIn
<1>3. iter \in Int
  BY DEF CacheInv, ProtocolInv, ProtocolTypeOK
<1>4. \A s \in 0 .. iter' - 1 : s \in 0 .. iter - 1 \/ (s = iter /\ Cached(s))
  BY <1>3
<1>5. IteratedAreCached'
  <2> SUFFICES ASSUME NEW s \in 0 .. iter' - 1 PROVE Cached(s)'
    BY DEF IteratedAreCached
  <2>1. Cached(s)
    BY <1>4 DEF IteratedAreCached, CacheInv
  <2> QED
    BY <2>1
<1> QED
  BY <1>2, <1>5

\* A view of a filled slot has its type.
LEMMA ViewTyped ==
  ASSUME TypeOK, NEW t \in State, Cached(t)
  PROVE  ViewIn(table, t) \in View
<1>1. table[t] \in Box
  BY DEF TypeOK, Cached
<1> QED
  BY <1>1 DEF ViewIn, View, Box

\* Every step preserves the invariant.
LEMMA CacheStep ==
  ASSUME ExpandAssumption, Dense \in BOOLEAN, CacheInv, [Next]_vars
  PROVE  CacheInv'
<1>0. ProtocolInv /\ TypeOK /\ AnswersHeld
  BY DEF CacheInv
<1>a. ASSUME UNCHANGED <<table, boxes>>, ProtocolInv', views' \subseteq View,
             iter' = iter \/ (iter' = iter + 1 /\ Cached(iter)),
             views' \subseteq views \cup {ViewIn(table, t) : t \in {u \in State : Cached(u)}}
      PROVE  CacheInv'
  <2>1. \A t : Cached(t)' <=> Cached(t)
    BY <1>a DEF Cached
  <2>2. ViewsStayValid' /\ IteratedAreCached'
    BY <1>a, <2>1, FilledSlotsKept DEF ViewIn
  <2>3. TypeOK' /\ AnswersHeld'
    BY <1>0, <1>a, <2>1 DEF TypeOK, AnswersHeld, ProtocolInv
  <2> QED
    BY <1>a, <2>2, <2>3 DEF CacheInv
<1>b. views \subseteq View
  BY <1>0 DEF TypeOK
<1>1. ASSUME NEW s \in State, Find(s) PROVE CacheInv'
  <2>1. /\ Cached(s) /\ views' = views \cup {ViewIn(table, s)}
        /\ UNCHANGED <<protocol, table, boxes>>
    BY <1>1 DEF Find, ViewOf
  <2>2. ProtocolInv'
    BY <1>0, <2>1, IdleKeeps DEF protocol
  <2>3. views' \subseteq View
    BY <1>0, <1>b, <2>1, ViewTyped
  <2>4. iter' = iter /\ views' \subseteq views \cup {ViewIn(table, t) : t \in {u \in State : Cached(u)}}
    BY <2>1 DEF protocol
  <2> QED
    BY <1>a, <2>1, <2>2, <2>3, <2>4
<1>2. ASSUME NEW s \in State, FindOrExpand(s) PROVE CacheInv'
  <2>1. ProtocolInv'
    BY <1>0, <1>2, ExpandKeeps DEF FindOrExpand
  <2> QED
    BY <1>a, <1>b, <1>2, <2>1 DEF FindOrExpand
<1>3. CASE WriteArc
  <2>1. ProtocolInv' /\ UNCHANGED <<iter, table, boxes, views>>
    BY <1>0, <1>3, WriteKeeps DEF WriteArc, Write
  <2> QED
    BY <1>a, <1>b, <2>1
<1>4. CASE Return
  <2>a. stack # <<>> /\ Finished(Top) /\ HandBack /\ iter' = iter
    BY <1>4 DEF Return, HandBack
  <2>b. Top.state \in State /\ Product \in Contents /\ Product \in ContentsFor[Top.state]
    BY <1>0, <2>a, Innermost, ProductIsTheAnswer
  <2>c. PICK s \in State : s = Top.state
    BY <2>b
  <2>d. PICK c \in Contents : c = Product
    BY <2>b
  <2>1. Store(s, c) /\ views' = views \cup {ViewIn(table', s)}
    BY <1>4, <2>c, <2>d DEF Return
  <2>2. c \in ContentsFor[s]
    BY <2>b, <2>c, <2>d
  <2>3. ProtocolInv'
    BY <1>0, <2>a, HandBackKeeps
  <2>4. /\ \A t : Cached(t) => Cached(t)' /\ table'[t] = table[t]
        /\ Cached(s)'
        /\ DOMAIN table' \subseteq State
        /\ Dense => \E n \in 0 .. NumStates : DOMAIN table' = 0 .. n - 1
        /\ \A t \in DOMAIN table' : table'[t] \in Box \cup {NoBox}
        /\ boxes' \in Nat
        /\ AnswersHeld'
    BY <1>0, <2>1, <2>2, StoreKeeps
  <2>5. ViewsStayValid' /\ IteratedAreCached'
    <3>1. views' \subseteq views \cup {ViewIn(table', t) : t \in {u \in State : Cached(u)'}}
      BY <2>1, <2>4
    <3> QED
      BY <2>a, <2>4, <3>1, FilledSlotsKept DEF ViewIn
  <2>6. ViewIn(table', s) \in View
    <3>1. table'[s] \in Box
      BY <2>4 DEF Cached
    <3> QED
      BY <2>2, <3>1 DEF ViewIn, View, Box
  <2>7. TypeOK'
    BY <1>b, <2>1, <2>3, <2>4, <2>6 DEF TypeOK, ProtocolInv
  <2> QED
    BY <2>3, <2>4, <2>5, <2>7 DEF CacheInv
<1>5. CASE Unwind
  <2>1. ProtocolInv' /\ UNCHANGED <<iter, table, boxes, views>>
    BY <1>0, <1>5, PanicKeeps DEF Unwind, Panic
  <2> QED
    BY <1>a, <1>b, <2>1
<1>6. CASE Clone
  <2>1. /\ UNCHANGED <<stack, known, iter, panics, table, boxes>>
        /\ scratch' = EmptyBuilder /\ views' = {}
    BY <1>6 DEF Clone
  <2>2. ProtocolInv'
    BY <1>0, <2>1, IdleKeeps
  <2> QED
    BY <1>a, <2>1, <2>2
<1>7. CASE IterNext
  <2>1. stack = <<>> /\ iter < known /\ UNCHANGED <<table, boxes, views>>
    BY <1>7 DEF IterNext
  <2>2. CASE Cached(iter)
    <3>1. iter' = iter + 1 /\ UNCHANGED <<scratch, stack, known, panics>>
      BY <1>7, <2>2 DEF IterNext
    <3>2. ProtocolInv'
      BY <1>0, <2>1, <3>1, IterKeeps
    <3> QED
      BY <1>a, <1>b, <2>1, <2>2, <3>1, <3>2
  <2>3. CASE ~ Cached(iter)
    <3>1. iter' = iter /\ Expand(iter)
      BY <1>7, <2>3 DEF IterNext
    <3>2. iter \in State
      BY <1>0, <2>1 DEF ProtocolInv, ProtocolTypeOK, State, ExpandAssumption
    <3>3. ProtocolInv'
      BY <1>0, <3>1, <3>2, ExpandKeeps
    <3> QED
      BY <1>a, <1>b, <2>1, <3>1, <3>3
  <2> QED
    BY <2>2, <2>3
<1>8. CASE UNCHANGED vars
  <2>1. UNCHANGED <<scratch, stack, known, iter, panics, table, boxes, views>>
    BY <1>8 DEF vars, protocol
  <2>2. ProtocolInv'
    BY <1>0, <2>1, IdleKeeps
  <2> QED
    BY <1>a, <1>b, <2>1, <2>2
<1> QED
  BY <1>1, <1>2, <1>3, <1>4, <1>5, <1>6, <1>7, <1>8 DEF Next

LEMMA CacheStart ==
  ASSUME ExpandAssumption, Dense \in BOOLEAN, Init
  PROVE  CacheInv
<1>1. /\ ProtocolInv /\ DOMAIN table = {} /\ boxes = 0 /\ views = {} /\ iter = 0
  BY ProtocolStarts DEF Init, InitProtocol
<1>2. 0 \in 0 .. NumStates /\ {} = 0 .. 0 - 1
  BY DEF ExpandAssumption
<1>3. TypeOK
  BY <1>1, <1>2 DEF TypeOK, ProtocolInv
<1> QED
  BY <1>1, <1>3 DEF CacheInv, ViewsStayValid, AnswersHeld, IteratedAreCached

LEMMA CacheInvariant ==
  ASSUME ExpandAssumption, Dense \in BOOLEAN
  PROVE  Spec => []CacheInv
<1>1. Init => CacheInv
  BY CacheStart
<1>2. CacheInv /\ [Next]_vars => CacheInv'
  BY CacheStep
<1> QED
  BY <1>1, <1>2, PTL DEF Spec

-----------------------------------------------------------------------------
(***************************************************************************)
(* The cache is a memo of the expander's answers.                          *)
(***************************************************************************)
Promise == INSTANCE Memo WITH memo <- Remembered, Answers <- ContentsFor

\* What Remembered is, slot by slot.
LEMMA RememberedSlots ==
  /\ DOMAIN Remembered = {t \in DOMAIN table : Cached(t)}
  /\ \A t \in DOMAIN Remembered : Remembered[t] = table[t].contents
BY DEF Remembered, Cached

\* A step publishes the answer of the expansion that returns, if its slot is
\* empty, and otherwise leaves the memo alone.
LEMMA MemoStep ==
  ASSUME ExpandAssumption, Dense \in BOOLEAN, CacheInv, [Next]_vars
  PROVE  [Promise!Next]_Remembered
<1>1. CASE UNCHANGED table
  BY <1>1 DEF Remembered
<1>2. CASE Return
  <2>a. stack # <<>> /\ Finished(Top) /\ ProtocolInv /\ TypeOK /\ AnswersHeld
    BY <1>2 DEF Return, HandBack, CacheInv
  <2>b. Top.state \in State /\ Product \in Contents /\ Product \in ContentsFor[Top.state]
    BY <2>a, Innermost, ProductIsTheAnswer
  <2>c. PICK s \in State : s = Top.state
    BY <2>b
  <2>d. PICK c \in Contents : c = Product
    BY <2>b
  <2>1. Store(s, c) /\ c \in ContentsFor[s]
    BY <1>2, <2>b, <2>c, <2>d DEF Return
  <2>2. /\ \A t : Cached(t) => Cached(t)' /\ table'[t] = table[t]
        /\ Cached(s)'
        /\ ~ Cached(s) => table'[s].contents = c
        /\ \A t : Cached(t)' => Cached(t) \/ t = s
    BY <2>a, <2>1, StoreKeeps
  <2>3. /\ DOMAIN Remembered = {t \in DOMAIN table : Cached(t)}
        /\ \A t \in DOMAIN Remembered : Remembered[t] = table[t].contents
        /\ DOMAIN Remembered' = {t \in DOMAIN table' : Cached(t)'}
        /\ \A t \in DOMAIN Remembered' : Remembered'[t] = table'[t].contents
    BY RememberedSlots DEF Remembered, Cached
  <2>4. \A t : /\ Cached(t) <=> t \in DOMAIN Remembered
               /\ Cached(t)' <=> t \in DOMAIN Remembered'
    BY <2>3 DEF Cached
  <2>5. /\ Remembered = [t \in DOMAIN Remembered |-> Remembered[t]]
        /\ Remembered' = [t \in DOMAIN Remembered' |-> Remembered'[t]]
    BY DEF Remembered
  <2>6. CASE Cached(s)
    <3>1. DOMAIN Remembered' = DOMAIN Remembered
      BY <2>2, <2>4, <2>6
    <3>2. \A t \in DOMAIN Remembered : Remembered'[t] = Remembered[t]
      BY <2>2, <2>3, <2>4, <3>1
    <3> QED
      BY <2>5, <3>1, <3>2
  <2>7. CASE ~ Cached(s)
    <3>1. s \notin DOMAIN Remembered /\ DOMAIN Remembered' = DOMAIN Remembered \cup {s}
      BY <2>2, <2>4, <2>7
    <3>2. \A t \in DOMAIN Remembered' : Remembered'[t] = IF t = s THEN c ELSE Remembered[t]
      BY <2>2, <2>3, <2>4, <2>7, <3>1
    <3>3. Remembered' = [t \in DOMAIN Remembered \cup {s} |-> IF t = s THEN c ELSE Remembered[t]]
      BY <2>5, <3>1, <3>2
    <3>4. Promise!Publish(s, c)
      BY <3>1, <3>3 DEF Promise!Publish
    <3> QED
      BY <2>1, <3>4 DEF Promise!Next
  <2> QED
    BY <2>6, <2>7
<1>3. CASE ~ Return
  BY <1>1, <1>3 DEF Next, vars, Find, FindOrExpand, WriteArc, Unwind, Clone, IterNext
<1> QED
  BY <1>2, <1>3

-----------------------------------------------------------------------------
(***************************************************************************)
(* The theorems.                                                           *)
(***************************************************************************)

\* Every reachable state is well typed; a vector table has no holes in its
\* index range.
THEOREM BoxedTypeCorrect ==
  ASSUME ExpandAssumption, Dense \in BOOLEAN
  PROVE  Spec => []TypeOK
BY CacheInvariant, PTL DEF CacheInv

\* expand_with lends one scratch builder to expansions that nest, and each of
\* them still holds exactly what it wrote.
THEOREM BoxedBuildersDoNotMix ==
  ASSUME ExpandAssumption, Dense \in BOOLEAN
  PROVE  Spec => []BuildersDoNotMix
<1>1. CacheInv => BuildersDoNotMix
  BY FramesDoNotMix DEF CacheInv
<1> QED
  BY <1>1, CacheInvariant, PTL

\* "A view keeps reading its own state however much the cache grows": no
\* nested expansion, panic or clone moves or refills the box behind a view.
THEOREM BoxedViewsStayValid ==
  ASSUME ExpandAssumption, Dense \in BOOLEAN
  PROVE  Spec => []ViewsStayValid
BY CacheInvariant, PTL DEF CacheInv

\* ExpanderStateIter, which reads a count that expansions raise while it walks,
\* leaves no state behind it that is not expanded.
THEOREM BoxedIterationExpands ==
  ASSUME ExpandAssumption, Dense \in BOOLEAN
  PROVE  Spec => []IteratedAreCached
BY CacheInvariant, PTL DEF CacheInv

\* What a cache of expanded states promises.
MemoSpec == Promise!Spec

\* VectorExpanderCache and HashExpanderCache implement the memo: contents
\* appear whole, are one of the expander's answers for the state, and never
\* change.
THEOREM BoxedIsAMemo ==
  ASSUME ExpandAssumption, Dense \in BOOLEAN
  PROVE  Spec => MemoSpec
<1>1. Init => Promise!Init
  <2> SUFFICES ASSUME Init PROVE Remembered = [s \in {} |-> s]
    BY DEF Promise!Init
  <2>1. DOMAIN table = {}
    BY DEF Init
  <2> QED
    BY <2>1 DEF Remembered
<1>2. CacheInv /\ [Next]_vars => [Promise!Next]_Remembered
  BY MemoStep
<1> QED
  BY <1>1, <1>2, CacheInvariant, PTL DEF Spec, MemoSpec, Promise!Spec
=============================================================================
