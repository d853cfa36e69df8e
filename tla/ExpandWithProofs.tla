-------------------------- MODULE ExpandWithProofs --------------------------
(***************************************************************************)
(* The expansion protocol keeps the builders of nested expansions apart,   *)
(* for every expander, every nesting and every number of panics.  The      *)
(* lemmas are about the protocol's own steps, each of which is part of an  *)
(* action of the caches.                                                   *)
(***************************************************************************)
EXTENDS ExpandWith, SequenceTheorems, FiniteSetTheorems, TLAPS

-----------------------------------------------------------------------------
(***************************************************************************)
(* What is counted while arcs are written one by one.                      *)
(***************************************************************************)

\* Copying one more element of a sequence.
LEMMA PrefixGrows ==
  ASSUME NEW S, NEW seq \in Seq(S), NEW n \in Nat, n < Len(seq)
  PROVE  /\ seq[n + 1] \in S
         /\ Append(SubSeq(seq, 1, n), seq[n + 1]) = SubSeq(seq, 1, n + 1)
<1>1. Len(seq) \in Nat /\ n + 1 \in 1 .. Len(seq)
  BY LenProperties
<1>2. \A i \in 1 .. n + 1 : seq[i] \in S
  BY <1>1, ElementOfSeq
<1>3. SubSeq(seq, 1, n) \in Seq(S)
  BY <1>2, SubSeqProperties
<1> DEFINE m == n + 1
<1>4. 1 \in 1 .. Len(seq) /\ m \in 1 .. Len(seq) /\ m - 1 = n
  BY <1>1
<1> HIDE DEF m
<1>5. SubSeq(seq, 1, m) = SubSeq(seq, 1, m - 1) \o <<seq[m]>>
  BY <1>4, SubSeqRecursiveSecond
<1>6. Append(SubSeq(seq, 1, n), seq[m]) = SubSeq(seq, 1, n) \o <<seq[m]>>
  BY <1>3, <1>2, <1>4, AppendIsConcat DEF m
<1> QED
  BY <1>2, <1>1, <1>4, <1>5, <1>6 DEF m

\* The places of the first n arcs whose input, or output, is epsilon.
ISpots(arcs, n) == {i \in 1 .. n : arcs[i].ieps}
OSpots(arcs, n) == {i \in 1 .. n : arcs[i].oeps}

\* One more arc adds its own place, or nothing.
LEMMA SpotsGrow ==
  ASSUME NEW arcs \in Seq(Arc), NEW n \in Nat, n < Len(arcs)
  PROVE  /\ Cardinality(ISpots(arcs, n)) \in Nat
         /\ Cardinality(OSpots(arcs, n)) \in Nat
         /\ Cardinality(ISpots(arcs, n + 1)) =
              Cardinality(ISpots(arcs, n)) + (IF arcs[n + 1].ieps THEN 1 ELSE 0)
         /\ Cardinality(OSpots(arcs, n + 1)) =
              Cardinality(OSpots(arcs, n)) + (IF arcs[n + 1].oeps THEN 1 ELSE 0)
<1>1. IsFiniteSet(1 .. n)
  BY FS_Interval
<1>2. IsFiniteSet(ISpots(arcs, n)) /\ IsFiniteSet(OSpots(arcs, n))
  BY <1>1, FS_Subset DEF ISpots, OSpots
<1>3. n + 1 \notin ISpots(arcs, n) /\ n + 1 \notin OSpots(arcs, n)
  BY DEF ISpots, OSpots
<1>4. arcs[n + 1] \in Arc
  <2>1. n + 1 \in 1 .. Len(arcs)
    BY LenProperties
  <2> QED
    BY <2>1, ElementOfSeq
<1>5. ISpots(arcs, n + 1) = IF arcs[n + 1].ieps THEN ISpots(arcs, n) \cup {n + 1} ELSE ISpots(arcs, n)
  BY <1>4 DEF ISpots, Arc
<1>6. OSpots(arcs, n + 1) = IF arcs[n + 1].oeps THEN OSpots(arcs, n) \cup {n + 1} ELSE OSpots(arcs, n)
  BY <1>4 DEF OSpots, Arc
<1>7. Cardinality(ISpots(arcs, n)) \in Nat /\ Cardinality(OSpots(arcs, n)) \in Nat
  BY <1>2, FS_CardinalityType
<1>8. /\ Cardinality(ISpots(arcs, n) \cup {n + 1}) = Cardinality(ISpots(arcs, n)) + 1
      /\ Cardinality(OSpots(arcs, n) \cup {n + 1}) = Cardinality(OSpots(arcs, n)) + 1
  BY <1>2, <1>3, FS_AddElement
<1> QED
  BY <1>5, <1>6, <1>7, <1>8

Answer == [final : Weight, arcs : Seq(Arc)]

\* The contents of an answer are contents.
LEMMA ContentsTyped ==
  ASSUME NEW answer \in Answer
  PROVE  /\ ContentsOf(answer) \in Contents
         /\ ContentsOf(answer).ni = Cardinality(ISpots(answer.arcs, Len(answer.arcs)))
         /\ ContentsOf(answer).no = Cardinality(OSpots(answer.arcs, Len(answer.arcs)))
<1>1. answer.arcs \in Seq(Arc) /\ answer.final \in Weight
  BY DEF Answer
<1>2. Len(answer.arcs) \in Nat /\ DOMAIN answer.arcs = 1 .. Len(answer.arcs)
  BY <1>1, LenProperties
<1>3. /\ ISpots(answer.arcs, Len(answer.arcs)) = {i \in DOMAIN answer.arcs : answer.arcs[i].ieps}
      /\ OSpots(answer.arcs, Len(answer.arcs)) = {i \in DOMAIN answer.arcs : answer.arcs[i].oeps}
  BY <1>2 DEF ISpots, OSpots
<1>4. /\ IsFiniteSet(ISpots(answer.arcs, Len(answer.arcs)))
      /\ IsFiniteSet(OSpots(answer.arcs, Len(answer.arcs)))
  <2>1. IsFiniteSet(1 .. Len(answer.arcs))
    BY <1>2, FS_Interval
  <2> QED
    BY <2>1, FS_Subset DEF ISpots, OSpots
<1>5. /\ Cardinality(ISpots(answer.arcs, Len(answer.arcs))) \in Nat
      /\ Cardinality(OSpots(answer.arcs, Len(answer.arcs))) \in Nat
  BY <1>4, FS_CardinalityType
<1> QED
  BY <1>1, <1>3, <1>5 DEF ContentsOf, Contents

\* What a frame has written: the contents of the first arcs of its answer,
\* the final weight still to come.
Prefix(answer, n) == [answer EXCEPT !.arcs = SubSeq(@, 1, n)]
Written(answer, n) == [ContentsOf(Prefix(answer, n)) EXCEPT !.final = Zero]

\* The fields of it.
LEMMA WrittenFields ==
  ASSUME NEW answer \in Answer, NEW n \in 0 .. Len(answer.arcs), Zero \in Weight
  PROVE  /\ Prefix(answer, n) \in Answer
         /\ Written(answer, n) =
              [final |-> Zero,
               ni |-> Cardinality(ISpots(answer.arcs, n)),
               no |-> Cardinality(OSpots(answer.arcs, n)),
               arcs |-> SubSeq(answer.arcs, 1, n)]
         /\ Written(answer, n) \in Contents
<1>1. answer.arcs \in Seq(Arc) /\ answer.final \in Weight /\ Len(answer.arcs) \in Nat
  BY LenProperties DEF Answer
<1> DEFINE t == SubSeq(answer.arcs, 1, n)
<1>2. \A i \in 1 .. n : answer.arcs[i] \in Arc
  BY <1>1, ElementOfSeq
<1>3. t \in Seq(Arc) /\ Len(t) = n /\ \A i \in 1 .. n : t[i] = answer.arcs[i]
  BY <1>1, <1>2, SubSeqProperties
<1>4. Prefix(answer, n) = [final |-> answer.final, arcs |-> t]
  <2>1. \A u : [answer EXCEPT !.arcs = u] = [final |-> answer.final, arcs |-> u]
    BY DEF Answer
  <2>2. Prefix(answer, n) = [answer EXCEPT !.arcs = t]
    BY Zenon DEF Prefix
  <2> HIDE DEF t
  <2> QED
    BY <2>1, <2>2
<1>5. Prefix(answer, n) \in Answer
  BY <1>1, <1>3, <1>4 DEF Answer
<1>6. ISpots(t, n) = ISpots(answer.arcs, n) /\ OSpots(t, n) = OSpots(answer.arcs, n)
  BY <1>3 DEF ISpots, OSpots
<1>7. /\ ContentsOf(Prefix(answer, n)) \in Contents
      /\ ContentsOf(Prefix(answer, n)).ni = Cardinality(ISpots(t, n))
      /\ ContentsOf(Prefix(answer, n)).no = Cardinality(OSpots(t, n))
      /\ ContentsOf(Prefix(answer, n)).arcs = t
  <2> HIDE DEF t
  <2>1. Prefix(answer, n).arcs = t
    BY <1>4
  <2> QED
    BY <1>3, <1>5, <2>1, ContentsTyped DEF ContentsOf
<1>8. ContentsOf(Prefix(answer, n)) =
        [final |-> ContentsOf(Prefix(answer, n)).final,
         ni |-> Cardinality(ISpots(answer.arcs, n)),
         no |-> Cardinality(OSpots(answer.arcs, n)),
         arcs |-> t]
  BY <1>6, <1>7 DEF Contents
<1>9. Written(answer, n) = [final |-> Zero,
                            ni |-> Cardinality(ISpots(answer.arcs, n)),
                            no |-> Cardinality(OSpots(answer.arcs, n)),
                            arcs |-> t]
  <2>1. \A c, f, i, o, a : c = [final |-> f, ni |-> i, no |-> o, arcs |-> a]
          => [c EXCEPT !.final = Zero] = [final |-> Zero, ni |-> i, no |-> o, arcs |-> a]
    OBVIOUS
  <2> HIDE DEF t
  <2> QED
    BY <1>8 DEF Written
<1>10. Written(answer, n) \in Contents
  BY <1>6, <1>7, <1>9 DEF Contents
<1> QED
  BY <1>5, <1>9, <1>10

-----------------------------------------------------------------------------
(***************************************************************************)
(* The invariant of the expansions in progress: each writes one of the     *)
(* answers for its state, and its builder holds what it wrote of it.       *)
(***************************************************************************)
FrameInv(f) ==
  /\ f.answer \in Answers[f.state]
  /\ f.written <= Len(f.answer.arcs)
  /\ f.builder = Written(f.answer, f.written)

ProtocolInv ==
  /\ ProtocolTypeOK
  /\ \A i \in 1 .. Len(stack) : FrameInv(stack[i])

\* The invariant says what the property does.
LEMMA FramesDoNotMix == ProtocolInv => BuildersDoNotMix
<1> SUFFICES ASSUME ProtocolInv, NEW i \in DOMAIN stack
             PROVE  stack[i].builder = Written(stack[i].answer, stack[i].written)
  BY DEF BuildersDoNotMix, Written, Prefix
<1>1. DOMAIN stack = 1 .. Len(stack)
  BY LenProperties DEF ProtocolInv, ProtocolTypeOK
<1> QED
  BY <1>1 DEF ProtocolInv, FrameInv

\* What an expansion may write is an answer.
LEMMA AnswersTyped ==
  ASSUME ExpandAssumption, NEW s \in State, NEW answer \in Answers[s]
  PROVE  answer \in Answer /\ ContentsOf(answer) \in ContentsFor[s]
BY DEF ExpandAssumption, Answer, ContentsFor

\* The empty builder is what a frame starts with.
LEMMA NothingWritten ==
  ASSUME ExpandAssumption, NEW answer \in Answer
  PROVE  /\ EmptyBuilder \in Contents
         /\ Written(answer, 0) = EmptyBuilder
<1>1. Zero \in Weight
  BY DEF ExpandAssumption
<1>2. EmptyBuilder \in Contents
  BY <1>1, EmptySeq DEF EmptyBuilder, Contents
<1>3. Len(answer.arcs) \in Nat
  BY LenProperties DEF Answer
<1>4. ISpots(answer.arcs, 0) = {} /\ OSpots(answer.arcs, 0) = {}
  BY DEF ISpots, OSpots
<1>5. SubSeq(answer.arcs, 1, 0) = <<>>
  BY SubSeqEmpty
<1>6. Cardinality({}) = 0
  BY FS_EmptySet
<1>7. 0 \in 0 .. Len(answer.arcs)
  BY <1>3
<1>8. Written(answer, 0) = [final |-> Zero,
                            ni |-> Cardinality(ISpots(answer.arcs, 0)),
                            no |-> Cardinality(OSpots(answer.arcs, 0)),
                            arcs |-> SubSeq(answer.arcs, 1, 0)]
  BY <1>1, <1>7, WrittenFields
<1> QED
  BY <1>2, <1>4, <1>5, <1>6, <1>8 DEF EmptyBuilder

\* What add_arc does to a builder, field by field.
LEMMA AddArcFields ==
  ASSUME NEW b \in Contents, NEW arc \in Arc
  PROVE  AddArc(b, arc) =
           [final |-> b.final, ni |-> b.ni + (IF arc.ieps THEN 1 ELSE 0),
            no |-> b.no + (IF arc.oeps THEN 1 ELSE 0), arcs |-> Append(b.arcs, arc)]
<1> DEFINE ni == b.ni + (IF arc.ieps THEN 1 ELSE 0)
           no == b.no + (IF arc.oeps THEN 1 ELSE 0)
           arcs == Append(b.arcs, arc)
<1>1. ni \in Nat /\ no \in Nat /\ arcs \in Seq(Arc)
  BY AppendProperties DEF Contents
<1>2. AddArc(b, arc) = [b EXCEPT !.ni = ni, !.no = no, !.arcs = arcs]
  BY DEF AddArc
<1> HIDE DEF ni, no, arcs
<1> DEFINE new == [b EXCEPT !.ni = ni, !.no = no, !.arcs = arcs]
<1>3. /\ new \in Contents /\ new.ni = ni /\ new.no = no /\ new.arcs = arcs
      /\ new.final = b.final
  BY <1>1 DEF Contents
<1> HIDE DEF new
<1>4. new = [final |-> b.final, ni |-> ni, no |-> no, arcs |-> arcs]
  BY <1>3 DEF Contents
<1> QED
  BY <1>2, <1>4 DEF new, ni, no, arcs

\* add_arc on the builder of a frame writes the next arc of its answer.
LEMMA NextArcWritten ==
  ASSUME ExpandAssumption, NEW answer \in Answer,
         NEW n \in 0 .. Len(answer.arcs), n < Len(answer.arcs)
  PROVE  /\ answer.arcs[n + 1] \in Arc
         /\ AddArc(Written(answer, n), answer.arcs[n + 1]) = Written(answer, n + 1)
<1>1. answer.arcs \in Seq(Arc) /\ Len(answer.arcs) \in Nat /\ Zero \in Weight
  BY LenProperties DEF Answer, ExpandAssumption
<1>2. n \in Nat /\ n + 1 \in 1 .. Len(answer.arcs) /\ n + 1 \in 0 .. Len(answer.arcs)
  BY <1>1
<1>3. answer.arcs[n + 1] \in Arc
  BY <1>1, <1>2, ElementOfSeq
<1> DEFINE arcs == answer.arcs
           arc == answer.arcs[n + 1]
           t == SubSeq(answer.arcs, 1, n)
           u == SubSeq(answer.arcs, 1, n + 1)
<1>7. Append(t, arc) = u
  BY <1>1, <1>2, <1>3, PrefixGrows
<1> DEFINE ni == Cardinality(ISpots(arcs, n))
           no == Cardinality(OSpots(arcs, n))
           b == [final |-> Zero, ni |-> ni, no |-> no, arcs |-> t]
<1>8. Written(answer, n) = b
  BY <1>1, WrittenFields
<1>9. Written(answer, n + 1) =
        [final |-> Zero, ni |-> ni + (IF arc.ieps THEN 1 ELSE 0),
         no |-> no + (IF arc.oeps THEN 1 ELSE 0), arcs |-> u]
  <2>1. Written(answer, n + 1) = [final |-> Zero,
                                  ni |-> Cardinality(ISpots(arcs, n + 1)),
                                  no |-> Cardinality(OSpots(arcs, n + 1)), arcs |-> u]
    BY <1>1, <1>2, WrittenFields
  <2>2. /\ Cardinality(ISpots(arcs, n + 1)) = ni + (IF arc.ieps THEN 1 ELSE 0)
        /\ Cardinality(OSpots(arcs, n + 1)) = no + (IF arc.oeps THEN 1 ELSE 0)
    BY <1>1, <1>2, SpotsGrow
  <2> QED
    BY <2>1, <2>2
<1>10. b \in Contents
  BY <1>1, <1>8, WrittenFields
<1>11. AddArc(b, arc) =
        [final |-> b.final, ni |-> b.ni + (IF arc.ieps THEN 1 ELSE 0),
         no |-> b.no + (IF arc.oeps THEN 1 ELSE 0), arcs |-> Append(b.arcs, arc)]
  BY <1>3, <1>10, AddArcFields
<1> QED
  BY <1>3, <1>7, <1>8, <1>9, <1>11

-----------------------------------------------------------------------------
(***************************************************************************)
(* The steps.                                                              *)
(***************************************************************************)

\* The innermost expansion, and those around it.
LEMMA Innermost ==
  ASSUME ExpandAssumption, ProtocolInv, stack # <<>>
  PROVE  /\ Len(stack) \in Nat \ {0}
         /\ Top \in Frame /\ FrameInv(Top)
         /\ Top.state \in State /\ Top.answer \in Answer
         /\ Top.written \in 0 .. Len(Top.answer.arcs)
         /\ Pop \in Seq(Frame) /\ Len(Pop) = Len(stack) - 1
         /\ \A i \in 1 .. Len(Pop) : Pop[i] \in Frame /\ FrameInv(Pop[i])
<1>1. stack \in Seq(Frame) /\ \A i \in 1 .. Len(stack) : FrameInv(stack[i])
  BY DEF ProtocolInv, ProtocolTypeOK
<1>2. Len(stack) \in Nat \ {0}
  BY <1>1, EmptySeq
<1>3. \A i \in 1 .. Len(stack) : stack[i] \in Frame
  BY <1>1, ElementOfSeq
<1>4. Top \in Frame /\ FrameInv(Top)
  BY <1>1, <1>2, <1>3 DEF Top
<1>5. /\ Pop \in Seq(Frame) /\ Len(Pop) = Len(stack) - 1
      /\ \A i \in 1 .. Len(stack) - 1 : Pop[i] = stack[i]
  <2> DEFINE n == Len(stack) - 1
  <2>1. n \in Nat /\ \A i \in 1 .. n : stack[i] \in Frame
    BY <1>2, <1>3
  <2>2. Pop = SubSeq(stack, 1, n)
    BY DEF Pop
  <2> HIDE DEF n
  <2>3. /\ SubSeq(stack, 1, n) \in Seq(Frame)
        /\ Len(SubSeq(stack, 1, n)) = IF 1 <= n THEN n - 1 + 1 ELSE 0
        /\ \A i \in 1 .. n - 1 + 1 : SubSeq(stack, 1, n)[i] = stack[1 + i - 1]
    BY <2>1, SubSeqProperties
  <2>4. Len(Pop) = n /\ Pop \in Seq(Frame) /\ \A i \in 1 .. n : Pop[i] = stack[i]
    BY <2>1, <2>2, <2>3
  <2> QED
    BY <2>4 DEF n
<1>6. Top.state \in State /\ Top.answer \in Answer /\ Top.written \in Nat
  BY <1>4 DEF Frame, Answer
<1>7. Len(Top.answer.arcs) \in Nat
  BY <1>6, LenProperties DEF Answer
<1>8. Top.written \in 0 .. Len(Top.answer.arcs)
  BY <1>4, <1>6, <1>7 DEF FrameInv
<1> QED
  BY <1>1, <1>2, <1>3, <1>4, <1>5, <1>6, <1>8

\* A finished expansion hands over exactly its answer: one of those the
\* expander may give for the state.
LEMMA ProductIsTheAnswer ==
  ASSUME ExpandAssumption, ProtocolInv, stack # <<>>, Finished(Top)
  PROVE  /\ Product = ContentsOf(Top.answer)
         /\ Product \in ContentsFor[Top.state]
         /\ Product \in Contents
<1> DEFINE answer == Top.answer
           n == Len(answer.arcs)
<1>1. /\ Top.state \in State /\ answer \in Answer
      /\ answer \in Answers[Top.state]
      /\ Top.builder = Written(answer, Top.written)
  BY Innermost DEF FrameInv
<1>2. Top.written = n
  BY DEF Finished
<1>3. answer.arcs \in Seq(Arc) /\ n \in Nat /\ n \in 0 .. n /\ Zero \in Weight
  BY <1>1, LenProperties DEF Answer, ExpandAssumption
<1>4. SubSeq(answer.arcs, 1, n) = answer.arcs
  BY <1>3, SubSeqFull
<1> DEFINE c == ContentsOf(answer)
<1>5. c \in Contents /\ c.final = answer.final /\ c.arcs = answer.arcs
      /\ c.ni = Cardinality(ISpots(answer.arcs, n)) /\ c.no = Cardinality(OSpots(answer.arcs, n))
  BY <1>1, ContentsTyped DEF ContentsOf
<1>6. Written(answer, n) \in Contents
      /\ Written(answer, n) = [final |-> Zero, ni |-> c.ni, no |-> c.no, arcs |-> c.arcs]
  BY <1>1, <1>3, <1>4, <1>5, WrittenFields
<1> HIDE DEF c
<1>7. c = [final |-> c.final, ni |-> c.ni, no |-> c.no, arcs |-> c.arcs]
  BY <1>5 DEF Contents
<1>8. Product = c
  <2>1. CASE answer.final = Zero
    BY <1>1, <1>2, <1>5, <1>6, <1>7, <2>1 DEF Product
  <2>2. CASE answer.final # Zero
    <3>1. Product = [Written(answer, n) EXCEPT !.final = answer.final]
      BY <1>1, <1>2, <2>2 DEF Product
    <3> DEFINE w == Written(answer, n)
    <3>2. w \in Contents /\ w.ni = c.ni /\ w.no = c.no /\ w.arcs = c.arcs
      BY <1>6
    <3> HIDE DEF w
    <3>3. [w EXCEPT !.final = answer.final] =
            [final |-> answer.final, ni |-> w.ni, no |-> w.no, arcs |-> w.arcs]
      BY <3>2 DEF Contents
    <3> QED
      BY <1>5, <1>7, <3>1, <3>2, <3>3 DEF w
  <2> QED
    BY <2>1, <2>2
<1>9. c \in ContentsFor[Top.state]
  BY <1>1, AnswersTyped DEF c
<1> QED
  BY <1>5, <1>8, <1>9 DEF c

\* Changing what is on top of a stack of sound frames.
LEMMA StackStays ==
  ASSUME NEW old \in Seq(Frame), NEW f \in Frame, FrameInv(f),
         \A i \in 1 .. Len(old) : FrameInv(old[i])
  PROVE  /\ Append(old, f) \in Seq(Frame)
         /\ \A i \in 1 .. Len(Append(old, f)) : FrameInv(Append(old, f)[i])
<1>1. /\ Append(old, f) \in Seq(Frame) /\ Len(Append(old, f)) = Len(old) + 1
      /\ \A i \in 1 .. Len(old) : Append(old, f)[i] = old[i]
      /\ Append(old, f)[Len(old) + 1] = f
  BY AppendProperties
<1>2. Len(old) \in Nat
  BY LenProperties
<1> QED
  BY <1>1, <1>2

\* find_or_expand that misses.
LEMMA ExpandKeeps ==
  ASSUME ExpandAssumption, ProtocolInv, NEW s \in State, Expand(s), iter' = iter
  PROVE  ProtocolInv'
<1>1. PICK answer \in Answers[s] : Take(s, answer)
  BY DEF Expand
<1>2. answer \in Answer
  BY AnswersTyped
<1> DEFINE f == [state |-> s, answer |-> answer, written |-> 0, builder |-> EmptyBuilder]
<1>3. EmptyBuilder \in Contents /\ Written(answer, 0) = EmptyBuilder
  BY <1>2, NothingWritten
<1>4. f \in Frame
  BY <1>2, <1>3 DEF Frame, Answer
<1>5. 0 <= Len(answer.arcs)
  BY <1>2, LenProperties DEF Answer
<1>6. FrameInv(f)
  BY <1>3, <1>5 DEF FrameInv
<1>7. /\ stack' = Append(stack, f) /\ scratch' = EmptyBuilder
      /\ UNCHANGED <<known, panics, iter>>
  BY <1>1 DEF Take, Reset
<1>8. stack' \in Seq(Frame) /\ \A i \in 1 .. Len(stack') : FrameInv(stack'[i])
  <2> HIDE DEF f
  <2> QED
    BY <1>4, <1>6, <1>7, StackStays DEF ProtocolInv, ProtocolTypeOK
<1> QED
  BY <1>3, <1>7, <1>8 DEF ProtocolInv, ProtocolTypeOK, FrameInv

\* add_arc.
LEMMA WriteKeeps ==
  ASSUME ExpandAssumption, ProtocolInv, Write
  PROVE  ProtocolInv'
<1>1. stack # <<>> /\ ~ Finished(Top)
  BY DEF Write
<1> DEFINE answer == Top.answer
           n == Top.written
           arc == answer.arcs[n + 1]
           f == [Top EXCEPT !.written = @ + 1, !.builder = AddArc(@, arc)]
<1>2. /\ Top \in Frame /\ FrameInv(Top) /\ answer \in Answer
      /\ n \in 0 .. Len(answer.arcs) /\ Top.state \in State
  BY <1>1, Innermost
<1>3. n < Len(answer.arcs) /\ Len(answer.arcs) \in Nat /\ n \in Nat
  <2>1. Len(answer.arcs) \in Nat
    BY <1>2, LenProperties DEF Answer
  <2> QED
    BY <1>1, <1>2, <2>1 DEF Finished
<1>4. arc \in Arc /\ AddArc(Written(answer, n), arc) = Written(answer, n + 1)
  BY <1>2, <1>3, NextArcWritten
<1>5. Written(answer, n + 1) \in Contents
  <2>1. n + 1 \in 0 .. Len(answer.arcs) /\ Zero \in Weight
    BY <1>3 DEF ExpandAssumption
  <2> QED
    BY <1>2, <2>1, WrittenFields
<1>6. /\ f \in Frame /\ f.state = Top.state /\ f.answer = answer
      /\ f.written = n + 1 /\ f.builder = Written(answer, n + 1)
  <2>1. Top.builder = Written(answer, n)
    BY <1>2 DEF FrameInv
  <2>2. f = [Top EXCEPT !.written = n + 1, !.builder = Written(answer, n + 1)]
    BY <1>4, <2>1
  <2>3. n + 1 \in Nat
    BY <1>3
  <2> HIDE DEF f
  <2> QED
    BY <1>2, <1>5, <2>2, <2>3 DEF Frame
<1>7. FrameInv(f)
  <2> HIDE DEF f
  <2> QED
    BY <1>2, <1>3, <1>6 DEF FrameInv
<1>8. /\ stack' = Append(Pop, f)
      /\ known' = IF arc.next >= known THEN arc.next + 1 ELSE known
      /\ UNCHANGED <<scratch, iter, panics>>
  BY DEF Write
<1>9. Pop \in Seq(Frame) /\ \A i \in 1 .. Len(Pop) : FrameInv(Pop[i])
  BY <1>1, Innermost
<1>10. stack' \in Seq(Frame) /\ \A i \in 1 .. Len(stack') : FrameInv(stack'[i])
  <2> HIDE DEF f
  <2> QED
    BY <1>6, <1>7, <1>8, <1>9, StackStays
<1>11. known' \in 1 .. NumStates /\ known' >= known /\ iter' \in 0 .. known'
  <2>1. arc.next \in 0 .. NumStates - 1
    BY <1>4 DEF Arc, State
  <2>2. NumStates \in Nat /\ known \in 1 .. NumStates /\ iter \in 0 .. known
    BY DEF ExpandAssumption, ProtocolInv, ProtocolTypeOK
  <2> HIDE DEF arc
  <2> QED
    BY <1>8, <2>1, <2>2
<1> QED
  BY <1>8, <1>10, <1>11 DEF ProtocolInv, ProtocolTypeOK, FrameInv

\* The expander returned.
LEMMA HandBackKeeps ==
  ASSUME ExpandAssumption, ProtocolInv, HandBack
  PROVE  ProtocolInv'
<1>1. /\ stack # <<>> /\ stack' = Pop /\ scratch' = EmptyBuilder
      /\ UNCHANGED <<known, iter, panics>>
  BY DEF HandBack, Reset
<1>2. Pop \in Seq(Frame) /\ \A i \in 1 .. Len(Pop) : FrameInv(Pop[i])
  BY <1>1, Innermost
<1>3. EmptyBuilder \in Contents
  BY EmptySeq DEF EmptyBuilder, Contents, ExpandAssumption
<1> QED
  BY <1>1, <1>2, <1>3 DEF ProtocolInv, ProtocolTypeOK, FrameInv

\* The expander panics.
LEMMA PanicKeeps ==
  ASSUME ExpandAssumption, ProtocolInv, Panic
  PROVE  ProtocolInv'
<1>1. /\ stack # <<>> /\ stack' = Pop
      /\ panics < MaxPanics /\ panics' = panics + 1
      /\ UNCHANGED <<scratch, known, iter>>
  BY DEF Panic
<1>2. Pop \in Seq(Frame) /\ \A i \in 1 .. Len(Pop) : FrameInv(Pop[i])
  BY <1>1, Innermost
<1>3. panics' \in 0 .. MaxPanics
  BY <1>1 DEF ProtocolInv, ProtocolTypeOK, ExpandAssumption
<1> QED
  BY <1>1, <1>2, <1>3 DEF ProtocolInv, ProtocolTypeOK, FrameInv

\* The state iterator goes past a state that is expanded.
LEMMA IterKeeps ==
  ASSUME ExpandAssumption, ProtocolInv, iter < known, iter' = iter + 1,
         UNCHANGED <<scratch, stack, known, panics>>
  PROVE  ProtocolInv'
<1>1. iter' \in 0 .. known
  BY DEF ProtocolInv, ProtocolTypeOK, ExpandAssumption
<1> QED
  BY <1>1 DEF ProtocolInv, ProtocolTypeOK, FrameInv

\* Nothing happens to the expansions in progress; the scratch may be emptied.
LEMMA IdleKeeps ==
  ASSUME ExpandAssumption, ProtocolInv, scratch' \in {scratch, EmptyBuilder},
         UNCHANGED <<stack, known, iter, panics>>
  PROVE  ProtocolInv'
<1>1. EmptyBuilder \in Contents
  BY EmptySeq DEF EmptyBuilder, Contents, ExpandAssumption
<1> QED
  BY <1>1 DEF ProtocolInv, ProtocolTypeOK, FrameInv

\* At the start nothing is being expanded.
LEMMA ProtocolStarts ==
  ASSUME ExpandAssumption, InitProtocol
  PROVE  ProtocolInv
<1>1. EmptyBuilder \in Contents
  BY EmptySeq DEF EmptyBuilder, Contents, ExpandAssumption
<1>2. <<>> \in Seq(Frame) /\ Len(<<>>) = 0
  BY EmptySeq
<1>3. Start + 1 \in 1 .. NumStates /\ 0 \in 0 .. Start + 1 /\ 0 \in 0 .. MaxPanics
  BY DEF ExpandAssumption, State
<1> QED
  BY <1>1, <1>2, <1>3 DEF InitProtocol, ProtocolInv, ProtocolTypeOK
=============================================================================
