--------------------------- MODULE ArcArenaProofs ---------------------------
(***************************************************************************)
(* A run committed to the arena keeps its arcs until the next Clear, for   *)
(* every block size, retention cap and bound.                              *)
(***************************************************************************)
EXTENDS ArcArena, SequenceTheorems, WellFoundedInduction, TLAPS

\* A stretch of a sequence, copied element by element, is a sequence: what
\* Pending and Kept are.
LEMMA Stretch ==
  ASSUME NEW S, NEW s \in Seq(S), NEW m \in Nat, NEW n \in Nat, m + n <= Len(s)
  PROVE  LET t == [i \in 1 .. n |-> s[m + i]]
         IN  t \in Seq(S) /\ Len(t) = n /\ \A i \in 1 .. n : t[i] = s[m + i]
<1> DEFINE t == [i \in 1 .. n |-> s[m + i]]
<1>1. \A i \in 1 .. n : m + i \in 1 .. Len(s) /\ s[m + i] \in S
  BY ElementOfSeq, LenProperties, SMT
<1>2. t \in [1 .. n -> S]
  BY <1>1
<1>3. t \in Seq(S)
  BY <1>2, SeqDef, SMT
<1>4. DOMAIN t = 1 .. n
  OBVIOUS
<1>5. Len(t) = n
  BY <1>3, <1>4, LenProperties, SMT
<1> QED
  BY <1>3, <1>5


\* Copying the run in progress into a fresh block, and retiring what was
\* committed of the old one, in the shape every step of the proof needs.
LEMMA NewBlockSteps ==
  ASSUME TypeOK, NEW n \in Nat, NEW tail \in Seq(Arc), Len(tail) <= n,
         NewBlock(n, tail)
  PROVE  /\ retired' \in Seq(Block)
         /\ current' \in Block
         /\ start' \in 0 .. Len(current'.arcs)
         /\ Len(current'.arcs) <= current'.cap
         /\ totalSize' \in Nat
         /\ start' = 0
         /\ Len(retired') = Len(retired) + 1
         /\ \A i \in 1 .. Len(retired) : retired'[i] = retired[i]
         /\ Len(retired'[Len(retired) + 1].arcs) = start
         /\ \A i \in 1 .. start :
              retired'[Len(retired) + 1].arcs[i] = current.arcs[i]
<1> DEFINE size == Larger(PendingLen + n, BlockSize)
           full == [current EXCEPT !.arcs = Kept]
<1>1. /\ current.arcs \in Seq(Arc) /\ current.cap \in Nat
      /\ Len(current.arcs) \in Nat /\ start \in Nat /\ start <= Len(current.arcs)
  BY LenProperties DEF TypeOK, Block
<1>2. PendingLen \in Nat /\ start + PendingLen = Len(current.arcs)
  BY <1>1 DEF PendingLen
<1>3. Pending \in Seq(Arc) /\ Len(Pending) = PendingLen
  BY <1>1, <1>2, Stretch DEF Pending
<1>4. /\ Kept \in Seq(Arc) /\ Len(Kept) = start
      /\ \A i \in 1 .. start : Kept[i] = current.arcs[i]
  <2>1. Kept = [i \in 1 .. start |-> current.arcs[0 + i]]
    BY <1>1 DEF Kept
  <2> QED
    BY <1>1, <2>1, Stretch
<1>5. /\ Pending \o tail \in Seq(Arc)
      /\ Len(Pending \o tail) = PendingLen + Len(tail)
  BY <1>3, ConcatProperties
<1>6. size \in Nat /\ size >= PendingLen + n
  BY <1>2, ArenaAssumption DEF Larger
<1>7. full \in Block /\ full.arcs = Kept
  BY <1>1, <1>4 DEF TypeOK, Block
<1>8. /\ retired' \in Seq(Block)
      /\ Len(retired') = Len(retired) + 1
      /\ \A i \in 1 .. Len(retired) : retired'[i] = retired[i]
      /\ retired'[Len(retired) + 1] = full
  <2>1. retired' = Append(retired, full) /\ retired \in Seq(Block)
    BY DEF NewBlock, TypeOK
  <2> QED
    BY <2>1, <1>7, AppendProperties
<1>9. /\ current' = [cap |-> size, arcs |-> Pending \o tail]
      /\ start' = 0
      /\ totalSize' = totalSize + size
  BY DEF NewBlock
<1>10. Len(tail) \in Nat
  BY LenProperties
<1>11. current' \in Block
  BY <1>9, <1>5, <1>6 DEF Block
<1>12. start' \in 0 .. Len(current'.arcs) /\ Len(current'.arcs) <= current'.cap
  BY <1>2, <1>5, <1>6, <1>9, <1>10
<1>13. totalSize' \in Nat
  BY <1>6, <1>9 DEF TypeOK
<1> QED
  BY <1>4, <1>7, <1>8, <1>9, <1>11, <1>12, <1>13

\* A new arena is well typed.
LEMMA TypeStart == Init => TypeOK
<1> SUFFICES ASSUME Init PROVE TypeOK
  OBVIOUS
<1>1. retired = <<>> /\ issued = {} /\ retired \in Seq(Block)
  BY EmptySeq DEF Init
<1>2. <<>> \in Seq(Arc) /\ Len(<<>>) = 0
  BY EmptySeq
<1>3. current \in Block /\ current.arcs = <<>> /\ current.cap = BlockSize
  BY <1>2, ArenaAssumption DEF Init, EmptyBlock, Block
<1> QED
  BY <1>1, <1>2, <1>3, ArenaAssumption DEF Init, TypeOK

\* Every step of the arena keeps its types.
LEMMA TypeStep == TypeOK /\ [Next]_vars => TypeOK'
<1> SUFFICES ASSUME TypeOK, [Next]_vars PROVE TypeOK'
  OBVIOUS
<1>0. /\ current.arcs \in Seq(Arc) /\ current.cap \in Nat
      /\ Len(current.arcs) \in Nat /\ start \in Nat /\ start <= Len(current.arcs)
  BY LenProperties DEF TypeOK, Block
<1>1. ASSUME NEW n \in 1 .. MaxReserve, ReserveArcs(n) PROVE TypeOK'
  <2>1. n \in Nat /\ <<>> \in Seq(Arc) /\ Len(<<>>) <= n
    BY <1>1, ArenaAssumption, EmptySeq
  <2>2. NewBlock(n, <<>>) /\ UNCHANGED <<firstBlockSize, pushes, issued, epoch>>
    BY <1>1 DEF ReserveArcs
  <2> QED
    BY <2>1, <2>2, NewBlockSteps DEF TypeOK
<1>2. ASSUME NEW a \in Arc, PushArc(a) PROVE TypeOK'
  <2>1. CASE /\ Len(current.arcs) < current.cap
             /\ current' = [current EXCEPT !.arcs = Append(@, a)]
             /\ UNCHANGED <<retired, start, totalSize>>
    <3>1. /\ Append(current.arcs, a) \in Seq(Arc)
          /\ Len(Append(current.arcs, a)) = Len(current.arcs) + 1
      BY <1>0, AppendProperties
    <3>2. /\ current'.arcs = Append(current.arcs, a)
          /\ current'.cap = current.cap
          /\ current' \in Block
      BY <3>1, <2>1, <1>0 DEF TypeOK, Block
    <3>3. start' \in 0 .. Len(current'.arcs) /\ Len(current'.arcs) <= current'.cap
      BY <3>1, <3>2, <2>1, <1>0
    <3>4. pushes' \in Nat /\ UNCHANGED <<firstBlockSize, totalSize, issued, epoch>>
      BY <2>1, <1>2 DEF TypeOK, PushArc
    <3> QED
      BY <3>2, <3>3, <3>4, <2>1 DEF TypeOK
  <2>2. CASE NewBlock(Larger(PendingLen, 1), <<a>>)
    <3>1. Larger(PendingLen, 1) \in Nat /\ 1 <= Larger(PendingLen, 1)
      BY <1>0 DEF Larger, PendingLen
    <3>2. <<a>> \in Seq(Arc) /\ Len(<<a>>) = 1
      OBVIOUS
    <3>3. pushes' \in Nat /\ UNCHANGED <<firstBlockSize, issued, epoch>>
      BY <1>2 DEF TypeOK, PushArc
    <3> QED
      BY <3>1, <3>2, <3>3, <2>2, NewBlockSteps DEF TypeOK
  <2> QED
    BY <2>1, <2>2, <1>2 DEF PushArc
<1>3. CASE CommitArcs
  <2>1. PendingLen \in Nat /\ start + PendingLen = Len(current.arcs)
    BY <1>0 DEF PendingLen
  <2>2. Pending \in Seq(Arc)
    BY <1>0, <2>1, Stretch DEF Pending
  <2>3. Len(retired) \in Nat
    BY LenProperties DEF TypeOK
  <2>4. [run |-> [block |-> Len(retired), start |-> start, len |-> PendingLen],
         arcs |-> Pending, epoch |-> epoch] \in Issued
    BY <1>0, <2>1, <2>2, <2>3 DEF Issued, Run, TypeOK
  <2> QED
    BY <1>0, <1>3, <2>1, <2>4 DEF CommitArcs, TypeOK
<1>4. CASE DropArcs
  <2>1. Kept \in Seq(Arc) /\ Len(Kept) = start
    <3>1. Kept = [i \in 1 .. start |-> current.arcs[0 + i]]
      BY <1>0 DEF Kept
    <3> QED
      BY <1>0, <3>1, Stretch
  <2>2. current' \in Block /\ current'.arcs = Kept /\ current'.cap = current.cap
    BY <1>0, <1>4, <2>1 DEF DropArcs, TypeOK, Block
  <2> QED
    BY <1>0, <1>4, <2>1, <2>2 DEF DropArcs, TypeOK
<1>5. CASE Clear
  <2>1. /\ <<>> \in Seq(Arc) /\ Len(<<>>) = 0 /\ <<>> \in Seq(Block)
    BY EmptySeq
  <2>2. firstBlockSize' \in Nat
    BY <1>5, ArenaAssumption DEF Clear, TypeOK, Smaller
  <2>3. current' \in Block /\ current'.arcs = <<>>
    <3>1. CASE totalSize > firstBlockSize
      <4>1. current' = [cap |-> firstBlockSize', arcs |-> <<>>]
        BY <3>1, <1>5, Zenon DEF Clear, EmptyBlock
      <4> QED
        BY <4>1, <2>1, <2>2 DEF Block
    <3>2. CASE ~ (totalSize > firstBlockSize)
      BY <3>2, <1>0, <1>5, <2>1 DEF Clear, Block, TypeOK
    <3> QED
      BY <3>1, <3>2
  <2>4. current'.cap \in Nat
    BY <2>3 DEF Block
  <2> QED
    BY <1>5, <2>1, <2>2, <2>3, <2>4 DEF Clear, TypeOK
<1>6. CASE UNCHANGED vars
  BY <1>6 DEF TypeOK, vars, arena
<1> QED
  BY <1>1, <1>2, <1>3, <1>4, <1>5, <1>6 DEF Next

\* The type invariant holds in every reachable state.
THEOREM TypeCorrect == Spec => []TypeOK
BY TypeStart, TypeStep, PTL DEF Spec

\* Making room leaves the run in progress as it is; pushing an arc appends it,
\* whether the arc fits or the run moves to a new block.
LEMMA PendingFollows ==
  ASSUME TypeOK
  PROVE  /\ Pending \in Seq(Arc) /\ Len(Pending) = PendingLen /\ PendingLen \in Nat
         /\ \A n \in Nat : ReserveArcs(n) => Pending' = Pending
         /\ \A a \in Arc : PushArc(a) => Pending' = Append(Pending, a)
<1>1. /\ current.arcs \in Seq(Arc) /\ Len(current.arcs) \in Nat
      /\ start \in Nat /\ start <= Len(current.arcs)
  BY LenProperties DEF TypeOK, Block
<1>2. PendingLen \in Nat /\ start + PendingLen = Len(current.arcs)
  BY <1>1 DEF PendingLen
<1>3. Pending \in Seq(Arc) /\ Len(Pending) = PendingLen
  BY <1>1, <1>2, Stretch DEF Pending
<1>4. ASSUME NEW n \in Nat, NEW tail \in Seq(Arc), NewBlock(n, tail)
      PROVE  Pending' = Pending \o tail
  <2>1. current'.arcs = Pending \o tail /\ start' = 0
    BY <1>4 DEF NewBlock
  <2>2. current'.arcs \in Seq(Arc) /\ Len(current'.arcs) \in Nat
    BY <1>3, <2>1, ConcatProperties, LenProperties
  <2>3. PendingLen' = Len(current'.arcs)
    BY <2>1, <2>2 DEF PendingLen
  <2>4. Pending' = [i \in 1 .. Len(current'.arcs) |-> current'.arcs[0 + i]]
    BY <2>1, <2>3 DEF Pending
  <2>5. /\ Pending' \in Seq(Arc) /\ Len(Pending') = Len(current'.arcs)
        /\ \A i \in 1 .. Len(current'.arcs) : Pending'[i] = current'.arcs[i]
    BY <2>2, <2>4, Stretch
  <2>6. Pending' = current'.arcs
    BY <2>2, <2>5, SeqEqual
  <2> QED
    BY <2>1, <2>6
<1>5. ASSUME NEW n \in Nat, ReserveArcs(n) PROVE Pending' = Pending
  <2>1. <<>> \in Seq(Arc)
    BY EmptySeq
  <2>2. Pending' = Pending \o <<>>
    BY <1>4, <1>5, <2>1 DEF ReserveArcs
  <2> QED
    BY <1>3, <2>2, ConcatEmptySeq
<1>6. ASSUME NEW a \in Arc, PushArc(a) PROVE Pending' = Append(Pending, a)
  <2>1. CASE /\ current' = [current EXCEPT !.arcs = Append(@, a)]
             /\ UNCHANGED start
    <3>1. current'.arcs = Append(current.arcs, a)
      BY <2>1 DEF TypeOK, Block
    <3>2. /\ Append(current.arcs, a) \in Seq(Arc)
          /\ Len(Append(current.arcs, a)) = Len(current.arcs) + 1
          /\ \A i \in 1 .. Len(current.arcs) : Append(current.arcs, a)[i] = current.arcs[i]
          /\ Append(current.arcs, a)[Len(current.arcs) + 1] = a
      BY <1>1, AppendProperties
    <3>3. PendingLen' = PendingLen + 1
      BY <1>1, <1>2, <2>1, <3>1, <3>2 DEF PendingLen
    <3>4. Pending' = [i \in 1 .. PendingLen + 1 |-> current'.arcs[start + i]]
      BY <2>1, <3>3 DEF Pending
    <3>5. Pending' \in Seq(Arc) /\ Len(Pending') = PendingLen + 1
          /\ \A i \in 1 .. PendingLen + 1 : Pending'[i] = current'.arcs[start + i]
      <4> DEFINE grown == current'.arcs
                 n == PendingLen + 1
                 slice == [i \in 1 .. n |-> grown[start + i]]
      <4>1. grown \in Seq(Arc) /\ start \in Nat /\ n \in Nat /\ start + n <= Len(grown)
        BY <1>1, <1>2, <3>1, <3>2
      <4>2. Pending' = slice
        BY <3>4
      <4> HIDE DEF grown, n
      <4>3. slice \in Seq(Arc) /\ Len(slice) = n /\ \A i \in 1 .. n : slice[i] = grown[start + i]
        BY <4>1, Stretch
      <4> HIDE DEF slice
      <4>4. Pending' \in Seq(Arc) /\ Len(Pending') = n /\ \A i \in 1 .. n : Pending'[i] = grown[start + i]
        BY <4>2, <4>3
      <4> QED
        BY <4>4 DEF grown, n
    <3>6. /\ Append(Pending, a) \in Seq(Arc) /\ Len(Append(Pending, a)) = PendingLen + 1
          /\ \A i \in 1 .. PendingLen : Append(Pending, a)[i] = Pending[i]
          /\ Append(Pending, a)[PendingLen + 1] = a
      BY <1>3, AppendProperties
    <3>7. \A i \in 1 .. PendingLen + 1 : Pending'[i] = Append(Pending, a)[i]
      <4> SUFFICES ASSUME NEW i \in 1 .. PendingLen + 1 PROVE Pending'[i] = Append(Pending, a)[i]
        OBVIOUS
      <4>1. Pending'[i] = Append(current.arcs, a)[start + i]
        BY <3>1, <3>5
      <4>2. CASE i = PendingLen + 1
        <5>1. start + i = Len(current.arcs) + 1
          BY <1>1, <1>2, <4>2
        <5> QED
          BY <3>2, <3>6, <4>1, <4>2, <5>1
      <4>3. CASE i # PendingLen + 1
        <5>1. i \in 1 .. PendingLen /\ start + i \in 1 .. Len(current.arcs)
          BY <1>1, <1>2, <4>3
        <5>2. Pending[i] = current.arcs[start + i]
          BY <5>1 DEF Pending
        <5> QED
          BY <3>2, <3>6, <4>1, <5>1, <5>2
      <4> QED
        BY <4>2, <4>3
    <3> QED
      BY <3>5, <3>6, <3>7, SeqEqual
  <2>2. CASE NewBlock(Larger(PendingLen, 1), <<a>>)
    <3>1. Larger(PendingLen, 1) \in Nat /\ <<a>> \in Seq(Arc)
      BY <1>2 DEF Larger
    <3>2. Pending' = Pending \o <<a>>
      BY <1>4, <2>2, <3>1
    <3> QED
      BY <1>3, <3>2, AppendIsConcat
  <2> QED
    BY <1>6, <2>1, <2>2 DEF PushArc
<1> QED
  BY <1>2, <1>3, <1>5, <1>6

-----------------------------------------------------------------------------
\* The inductive invariant.  That live runs keep their arcs is not inductive
\* alone: DropArcs and NewBlock cut the block at start, so it takes the second
\* half of LiveRunsDisjoint; and Clear makes every run stale, so it takes that
\* no run is dated in the future.
RunsAreDated == \A r \in issued : r.epoch <= epoch

ArenaInv ==
  /\ TypeOK
  /\ RunsAreDated
  /\ LiveRunsKeepTheirArcs
  /\ LiveRunsDisjoint

\* A step that issues no run, stays in the epoch and keeps every committed slot
\* in its block preserves the invariant.
LEMMA CommittedSlotsKept ==
  ASSUME ArenaInv, TypeOK', issued' = issued, epoch' = epoch,
         \A r \in Live :
           /\ Resolvable(r.run)'
           /\ Arcs(r.run)' = Arcs(r.run)
           /\ r.run.block = Len(retired') => r.run.start + r.run.len <= start'
  PROVE  ArenaInv'
<1>1. Live' = Live
  BY DEF Live
<1>2. RunsAreDated'
  BY DEF ArenaInv, RunsAreDated
<1>3. LiveRunsKeepTheirArcs'
  BY <1>1 DEF ArenaInv, LiveRunsKeepTheirArcs
<1>4. LiveRunsDisjoint'
  BY <1>1 DEF ArenaInv, LiveRunsDisjoint
<1> QED
  BY <1>2, <1>3, <1>4 DEF ArenaInv

\* What the invariant says of one live run, in plain arithmetic.
LEMMA LiveRun ==
  ASSUME ArenaInv, NEW r \in Live
  PROVE  /\ r.run \in Run
         /\ r.run.block \in 0 .. Len(retired)
         /\ r.run.start \in Nat
         /\ r.run.len \in Nat
         /\ Len(retired) \in Nat
         /\ r.run.start + r.run.len <= Len(BlockOf(r.run).arcs)
         /\ r.run.block = Len(retired) =>
              /\ BlockOf(r.run) = current
              /\ r.run.start + r.run.len <= start
         /\ r.run.block # Len(retired) =>
              BlockOf(r.run) = retired[r.run.block + 1]
<1>1. r \in Issued
  BY DEF ArenaInv, TypeOK, Live
<1>2. r.run \in Run
  BY <1>1 DEF Issued
<1>3. Len(retired) \in Nat
  BY LenProperties DEF ArenaInv, TypeOK
<1>4. Resolvable(r.run)
  BY DEF ArenaInv, LiveRunsKeepTheirArcs
<1> QED
  BY <1>2, <1>3, <1>4 DEF Run, Resolvable, BlockOf, ArenaInv, LiveRunsDisjoint

\* A step that leaves retired alone and current as it was below start.
LEMMA CurrentKeptBelowStart ==
  ASSUME ArenaInv, TypeOK', issued' = issued, epoch' = epoch,
         retired' = retired, start' = start,
         start <= Len(current'.arcs),
         \A i \in 1 .. start : current'.arcs[i] = current.arcs[i]
  PROVE  ArenaInv'
<1> SUFFICES ASSUME NEW r \in Live
             PROVE  /\ Resolvable(r.run)'
                    /\ Arcs(r.run)' = Arcs(r.run)
                    /\ r.run.block = Len(retired') => r.run.start + r.run.len <= start'
  BY CommittedSlotsKept
<1> DEFINE run == r.run
<1>1. Len(current'.arcs) \in Nat /\ start \in Nat
  BY LenProperties DEF TypeOK, Block, ArenaInv
<1>2. CASE run.block = Len(retired)
  <2>1. BlockOf(run)' = current' /\ BlockOf(run) = current
    BY <1>2 DEF BlockOf
  <2>2. \A i \in 1 .. run.len :
          current'.arcs[run.start + i] = current.arcs[run.start + i]
    <3> SUFFICES ASSUME NEW i \in 1 .. run.len
                 PROVE  current'.arcs[run.start + i] = current.arcs[run.start + i]
      OBVIOUS
    <3>1. run.start \in Nat /\ run.len \in Nat /\ run.start + run.len <= start
      BY <1>2, LiveRun
    <3>2. run.start + i \in 1 .. start
      BY <1>1, <3>1
    <3> QED
      BY <3>2
  <2>3. run.start + run.len <= start /\ run.start \in Nat /\ run.len \in Nat
    BY <1>2, LiveRun
  <2>4. run.start + run.len <= Len(current'.arcs)
    BY <1>1, <2>3
  <2>5. Resolvable(run)'
    BY <1>2, <2>1, <2>4, LiveRun DEF Resolvable
  <2>6. Arcs(run)' = Arcs(run)
    BY <2>1, <2>2 DEF Arcs
  <2> QED
    BY <2>3, <2>5, <2>6
<1>3. CASE run.block # Len(retired)
  <2>1. BlockOf(run)' = BlockOf(run)
    BY <1>3 DEF BlockOf
  <2> QED
    BY <1>3, <2>1, LiveRun DEF Resolvable, Arcs
<1> QED
  BY <1>2, <1>3

\* Moving to a new block retires the old one with its committed slots in place.
LEMMA NewBlockKeepsRuns ==
  ASSUME ArenaInv, TypeOK', issued' = issued, epoch' = epoch,
         NEW n \in Nat, NEW tail \in Seq(Arc), Len(tail) <= n, NewBlock(n, tail)
  PROVE  ArenaInv'
<1> SUFFICES ASSUME NEW r \in Live
             PROVE  /\ Resolvable(r.run)'
                    /\ Arcs(r.run)' = Arcs(r.run)
                    /\ r.run.block = Len(retired') => r.run.start + r.run.len <= start'
  BY CommittedSlotsKept
<1> DEFINE run == r.run
<1>0. TypeOK
  BY DEF ArenaInv
<1>a. start \in Nat
  BY <1>0, LenProperties DEF TypeOK, Block
<1>1. /\ Len(retired') = Len(retired) + 1
      /\ \A i \in 1 .. Len(retired) : retired'[i] = retired[i]
      /\ Len(retired'[Len(retired) + 1].arcs) = start
      /\ \A i \in 1 .. start :
           retired'[Len(retired) + 1].arcs[i] = current.arcs[i]
  BY <1>0, NewBlockSteps
<1>2. /\ run.block \in 0 .. Len(retired) /\ Len(retired) \in Nat
      /\ run.start \in Nat /\ run.len \in Nat
  BY LiveRun
<1>3. BlockOf(run)' = retired'[run.block + 1]
  BY <1>1, <1>2 DEF BlockOf
<1>4. CASE run.block = Len(retired)
  <2>1. BlockOf(run) = current /\ run.start + run.len <= start
    BY <1>4, LiveRun
  <2>2. \A i \in 1 .. run.len :
          BlockOf(run)'.arcs[run.start + i] = current.arcs[run.start + i]
    <3> SUFFICES ASSUME NEW i \in 1 .. run.len
                 PROVE  BlockOf(run)'.arcs[run.start + i] = current.arcs[run.start + i]
      OBVIOUS
    <3>1. run.start + i \in 1 .. start
      BY <1>a, <1>2, <2>1
    <3> QED
      BY <3>1, <1>1, <1>3, <1>4
  <2>3. Len(BlockOf(run)'.arcs) = start
    BY <1>1, <1>3, <1>4
  <2>4. Resolvable(run)'
    BY <1>1, <1>2, <1>4, <2>1, <2>3 DEF Resolvable
  <2>5. Arcs(run)' = Arcs(run)
    BY <2>1, <2>2 DEF Arcs
  <2> QED
    BY <1>1, <1>2, <1>4, <2>4, <2>5
<1>5. CASE run.block # Len(retired)
  <2>1. BlockOf(run)' = BlockOf(run)
    <3>1. run.block + 1 \in 1 .. Len(retired)
      BY <1>2, <1>5
    <3>2. BlockOf(run) = retired[run.block + 1]
      BY <1>5, LiveRun
    <3> QED
      BY <3>1, <3>2, <1>1, <1>3
  <2> QED
    BY <1>1, <1>2, <1>5, <2>1, LiveRun DEF Resolvable, Arcs
<1> QED
  BY <1>4, <1>5


\* Every step of the arena preserves the invariant.
LEMMA ArenaStep == ArenaInv /\ TypeOK' /\ [Next]_vars => ArenaInv'
<1> SUFFICES ASSUME ArenaInv, TypeOK', [Next]_vars PROVE ArenaInv'
  OBVIOUS
<1>0. /\ current.arcs \in Seq(Arc) /\ Len(current.arcs) \in Nat
      /\ start \in Nat /\ start <= Len(current.arcs)
      /\ Len(retired) \in Nat /\ epoch \in Nat
  BY LenProperties DEF ArenaInv, TypeOK, Block
<1>1. ASSUME NEW n \in 1 .. MaxReserve, ReserveArcs(n) PROVE ArenaInv'
  <2>1. n \in Nat /\ <<>> \in Seq(Arc) /\ Len(<<>>) <= n
    BY <1>1, ArenaAssumption, EmptySeq
  <2> QED
    BY <1>1, <2>1, NewBlockKeepsRuns DEF ReserveArcs
<1>2. ASSUME NEW a \in Arc, PushArc(a) PROVE ArenaInv'
  <2>1. CASE /\ Len(current.arcs) < current.cap
             /\ current' = [current EXCEPT !.arcs = Append(@, a)]
             /\ UNCHANGED <<retired, start, totalSize>>
    <3>1. /\ Len(Append(current.arcs, a)) = Len(current.arcs) + 1
          /\ \A i \in 1 .. Len(current.arcs) :
               Append(current.arcs, a)[i] = current.arcs[i]
      BY <1>0, AppendProperties
    <3>2. current'.arcs = Append(current.arcs, a)
      BY <2>1 DEF ArenaInv, TypeOK, Block
    <3>3. /\ start <= Len(current'.arcs)
          /\ \A i \in 1 .. start : current'.arcs[i] = current.arcs[i]
      BY <1>0, <3>1, <3>2
    <3> QED
      BY <1>2, <2>1, <3>3, CurrentKeptBelowStart DEF PushArc
  <2>2. CASE NewBlock(Larger(PendingLen, 1), <<a>>)
    <3>1. Larger(PendingLen, 1) \in Nat /\ 1 <= Larger(PendingLen, 1)
      BY <1>0 DEF Larger, PendingLen
    <3>2. <<a>> \in Seq(Arc) /\ Len(<<a>>) = 1
      OBVIOUS
    <3> QED
      BY <1>2, <2>2, <3>1, <3>2, NewBlockKeepsRuns DEF PushArc
  <2> QED
    BY <1>2, <2>1, <2>2 DEF PushArc
<1>3. CASE CommitArcs
  <2> DEFINE run == [block |-> Len(retired), start |-> start, len |-> PendingLen]
             new == [run |-> run, arcs |-> Pending, epoch |-> epoch]
  <2>1. PendingLen \in Nat /\ start + PendingLen = Len(current.arcs)
    BY <1>0 DEF PendingLen
  <2>2. /\ issued' = issued \cup {new} /\ epoch' = epoch
        /\ retired' = retired /\ current' = current
        /\ start' = start + PendingLen
    BY <1>3 DEF CommitArcs
  <2>3. Live' = Live \cup {new}
    BY <2>2 DEF Live
  <2>4. \A r : BlockOf(r)' = BlockOf(r) /\ (Resolvable(r)' <=> Resolvable(r))
                /\ Arcs(r)' = Arcs(r)
    BY <2>2 DEF BlockOf, Resolvable, Arcs
  <2>5. Resolvable(run) /\ Arcs(run) = Pending
    BY <1>0, <2>1 DEF Resolvable, Arcs, Pending, BlockOf
  <2>6. LiveRunsKeepTheirArcs'
    BY <2>3, <2>4, <2>5 DEF ArenaInv, LiveRunsKeepTheirArcs
  <2>7. RunsAreDated'
    BY <1>0, <2>2 DEF ArenaInv, RunsAreDated
  <2>8. \A r \in Live' : r.run.block = Len(retired') => r.run.start + r.run.len <= start'
    <3>1. ASSUME NEW r \in Live, r.run.block = Len(retired)
          PROVE  r.run.start + r.run.len <= start + PendingLen
      BY <1>0, <2>1, <3>1, LiveRun
    <3> QED
      BY <1>0, <2>1, <2>2, <2>3, <3>1
  <2>9. \A r \in Live : \/ r.run.block # run.block
                        \/ r.run.start + r.run.len <= run.start
    BY LiveRun
  <2>10. LiveRunsDisjoint'
    BY <2>2, <2>3, <2>8, <2>9 DEF ArenaInv, LiveRunsDisjoint
  <2> QED
    BY <2>6, <2>7, <2>10 DEF ArenaInv
<1>4. CASE DropArcs
  <2>1. /\ Kept \in Seq(Arc) /\ Len(Kept) = start
        /\ \A i \in 1 .. start : Kept[i] = current.arcs[i]
    <3>1. Kept = [i \in 1 .. start |-> current.arcs[0 + i]]
      BY <1>0 DEF Kept
    <3> QED
      BY <1>0, <3>1, Stretch
  <2>2. current'.arcs = Kept
    BY <1>4 DEF DropArcs, ArenaInv, TypeOK, Block
  <2> QED
    BY <1>0, <1>4, <2>1, <2>2, CurrentKeptBelowStart DEF DropArcs
<1>5. CASE Clear
  <2>1. issued' = issued /\ epoch' = epoch + 1
    BY <1>5 DEF Clear
  <2>2. \A r \in issued : r.epoch \in Nat /\ r.epoch <= epoch
    BY DEF ArenaInv, TypeOK, Issued, RunsAreDated
  <2>3. Live' = {}
    BY <1>0, <2>1, <2>2 DEF Live
  <2>4. RunsAreDated'
    BY <1>0, <2>1, <2>2 DEF RunsAreDated
  <2> QED
    BY <2>3, <2>4 DEF ArenaInv, LiveRunsKeepTheirArcs, LiveRunsDisjoint
<1>6. CASE UNCHANGED vars
  <2>1. /\ RunsAreDated' /\ LiveRunsKeepTheirArcs' /\ LiveRunsDisjoint'
    BY <1>6 DEF ArenaInv, RunsAreDated, LiveRunsKeepTheirArcs, LiveRunsDisjoint,
                Live, Resolvable, Arcs, BlockOf, vars, arena
  <2> QED
    BY <2>1 DEF ArenaInv
<1> QED
  BY <1>1, <1>2, <1>3, <1>4, <1>5, <1>6 DEF Next

\* The steps one by one, for those who drive an arena of their own.
LEMMA ReserveStep ==
  ASSUME ArenaInv, NEW n \in Nat, ReserveArcs(n)
  PROVE  ArenaInv' /\ issued' = issued /\ epoch' = epoch /\ Pending' = Pending
<1>1. <<>> \in Seq(Arc) /\ Len(<<>>) <= n
  BY EmptySeq
<1>2. TypeOK /\ NewBlock(n, <<>>) /\ UNCHANGED <<firstBlockSize, pushes, issued, epoch>>
  BY DEF ReserveArcs, ArenaInv
<1>3. TypeOK'
  BY <1>1, <1>2, NewBlockSteps DEF TypeOK
<1> QED
  BY <1>1, <1>2, <1>3, NewBlockKeepsRuns, PendingFollows

LEMMA PushStep ==
  ASSUME ArenaInv, NEW a \in Arc, PushArc(a)
  PROVE  ArenaInv' /\ issued' = issued /\ epoch' = epoch /\ Pending' = Append(Pending, a)
<1>1. TypeOK /\ Next
  BY DEF Next, ArenaInv
<1> QED
  BY <1>1, TypeStep, ArenaStep, PendingFollows DEF PushArc

LEMMA CommitStep ==
  ASSUME ArenaInv, CommitArcs
  PROVE  /\ ArenaInv'
         /\ issued \subseteq issued' /\ epoch' = epoch
         /\ PendingLen' = 0
         /\ retired' = retired /\ current' = current
         /\ \E r \in Live' : /\ r.run = [block |-> Len(retired), start |-> start, len |-> PendingLen]
                             /\ r.arcs = Pending
<1>1. TypeOK /\ Next
  BY DEF Next, ArenaInv
<1>2. ArenaInv'
  BY <1>1, TypeStep, ArenaStep
<1>3. /\ current.arcs \in Seq(Arc) /\ Len(current.arcs) \in Nat /\ start \in Nat
  BY <1>1, LenProperties DEF TypeOK, Block
<1> DEFINE r == [run |-> [block |-> Len(retired), start |-> start, len |-> PendingLen],
                 arcs |-> Pending, epoch |-> epoch]
<1>4. /\ issued' = issued \cup {r} /\ epoch' = epoch
      /\ retired' = retired /\ current' = current /\ start' = start + PendingLen
  BY DEF CommitArcs
<1>5. PendingLen' = 0
  BY <1>3, <1>4 DEF PendingLen
<1>6. r \in Live'
  BY <1>4 DEF Live
<1> QED
  BY <1>2, <1>4, <1>5, <1>6

\* An arena that starts afresh, in any epoch.
LEMMA FreshArena ==
  /\ retired = <<>> /\ current = EmptyBlock(BlockSize) /\ start = 0
  /\ firstBlockSize = BlockSize /\ totalSize = BlockSize
  /\ pushes = 0 /\ issued = {} /\ epoch \in Nat
  => ArenaInv /\ PendingLen = 0
<1> SUFFICES ASSUME retired = <<>>, current = EmptyBlock(BlockSize), start = 0,
                    firstBlockSize = BlockSize, totalSize = BlockSize,
                    pushes = 0, issued = {}, epoch \in Nat
             PROVE  ArenaInv /\ PendingLen = 0
  OBVIOUS
<1>1. retired \in Seq(Block) /\ <<>> \in Seq(Arc) /\ Len(<<>>) = 0
  BY EmptySeq
<1>2. current \in Block /\ current.arcs = <<>> /\ current.cap = BlockSize
  BY <1>1, ArenaAssumption DEF EmptyBlock, Block
<1>3. TypeOK
  BY <1>1, <1>2, ArenaAssumption DEF TypeOK
<1>4. PendingLen = 0
  BY <1>1, <1>2 DEF PendingLen
<1> QED
  BY <1>3, <1>4 DEF ArenaInv, RunsAreDated, LiveRunsKeepTheirArcs, LiveRunsDisjoint, Live

\* The invariant is an invariant.
LEMMA ArenaInvariant == Spec => []ArenaInv
<1>1. Init /\ TypeOK => ArenaInv
  BY DEF Init, ArenaInv, RunsAreDated, LiveRunsKeepTheirArcs, LiveRunsDisjoint, Live
<1> QED
  BY <1>1, TypeCorrect, ArenaStep, PTL DEF Spec

\* "A committed run stays valid until clear is called": push_arc, reserve_arcs,
\* commit_arcs and drop_arcs, in any order and number, leave what arcs() returns
\* for a run of the current epoch as it was when commit_arcs returned it.
THEOREM CommittedRunsStayValid == Spec => []LiveRunsKeepTheirArcs
BY ArenaInvariant, PTL DEF ArenaInv

\* No two runs of the current epoch overlap, and none overlaps the run in
\* progress, which drop_arcs and new_block take back.
THEOREM CommittedRunsDoNotOverlap == Spec => []LiveRunsDisjoint
BY ArenaInvariant, PTL DEF ArenaInv

-----------------------------------------------------------------------------
(***************************************************************************)
(* What Clear keeps                                                        *)
(***************************************************************************)

\* A nonempty set of naturals has a least element.
LEMMA LeastNatural ==
  ASSUME NEW S \in SUBSET Nat, S # {}
  PROVE  \E n \in S : \A m \in S : n <= m
<1>1. PICK n \in S : \A m \in S : ~ (<<m, n>> \in OpToRel(<, Nat))
  BY WFMin, NatLessThanWellFounded
<1>2. \A m \in S : <<m, n>> \in OpToRel(<, Nat) <=> m < n
  BY DEF OpToRel
<1>3. ASSUME NEW m \in S PROVE n <= m
  <2>1. m \in Nat /\ n \in Nat /\ ~ (m < n)
    BY <1>1, <1>2
  <2> QED
    BY <2>1
<1> QED
  BY <1>3

\* Induction, over a set instead of a predicate.
LEMMA SetInduction ==
  ASSUME NEW S, 0 \in S, \A n \in Nat : n \in S => n + 1 \in S
  PROVE  Nat \subseteq S
<1> SUFFICES ASSUME Nat \ S # {} PROVE FALSE
  OBVIOUS
<1>1. PICK n \in Nat \ S : \A m \in Nat \ S : n <= m
  BY LeastNatural
<1>2. n # 0 /\ n - 1 \in Nat /\ n - 1 \in S
  BY <1>1
<1> QED
  BY <1>1, <1>2

\* The capacity of some blocks adds up block by block.
LEMMA CapacitySteps ==
  ASSUME NEW bs \in Seq(Block)
  PROVE  \E u \in [0 .. Len(bs) -> Nat] :
           /\ Capacity(bs) = u[Len(bs)]
           /\ u[0] = 0
           /\ \A k \in 1 .. Len(bs) : u[k] = u[k - 1] + bs[k].cap
<1> DEFINE Sums(n, u) == u = [k \in 0 .. n |-> IF k = 0 THEN 0 ELSE u[k - 1] + bs[k].cap]
           S == {n \in Nat : \E u : Sums(n, u)}
<1>1. 0 \in S
  <2>1. Sums(0, [k \in 0 .. 0 |-> 0])
    OBVIOUS
  <2> QED
    BY <2>1
<1>2. ASSUME NEW n \in Nat, n \in S PROVE n + 1 \in S
  <2>1. PICK u : Sums(n, u)
    BY <1>2
  <2> DEFINE v == [k \in 0 .. n + 1 |-> IF k <= n THEN u[k] ELSE u[n] + bs[n + 1].cap]
  <2>2. Sums(n + 1, v)
    <3>1. ASSUME NEW k \in 0 .. n + 1
          PROVE v[k] = IF k = 0 THEN 0 ELSE v[k - 1] + bs[k].cap
      BY <2>1
    <3> QED
      BY <3>1
  <2> HIDE DEF v
  <2> QED
    BY <2>2
<1> DEFINE m == Len(bs)
           t == CHOOSE upto : Sums(m, upto)
<1>3. m \in Nat /\ \A k \in 1 .. m : bs[k].cap \in Nat
  <2>1. m \in Nat /\ m = Len(bs)
    BY LenProperties
  <2>2. ASSUME NEW k \in 1 .. m PROVE bs[k].cap \in Nat
    <3>1. bs[k] \in Block
      BY <2>1, ElementOfSeq
    <3> QED
      BY <3>1 DEF Block
  <2> QED
    BY <2>1, <2>2
<1>4. Capacity(bs) = t[m]
  BY DEF Capacity
<1> HIDE DEF m
<1>5. PICK u : Sums(m, u)
  BY <1>1, <1>2, <1>3, SetInduction
<1>6. Sums(m, t)
  BY <1>5
<1> HIDE DEF t
<1>7. t[0] = 0 /\ \A k \in 1 .. m : t[k] = t[k - 1] + bs[k].cap
  BY <1>3, <1>6
<1>8. t \in [0 .. m -> Nat]
  <2> DEFINE T == {n \in Nat : n <= m => t[n] \in Nat}
  <2>1. 0 \in T
    BY <1>7
  <2>2. ASSUME NEW n \in Nat, n \in T PROVE n + 1 \in T
    <3> SUFFICES ASSUME n + 1 <= m PROVE t[n + 1] \in Nat
      OBVIOUS
    <3>1. n + 1 \in 1 .. m /\ t[n] \in Nat /\ bs[n + 1].cap \in Nat
      BY <1>3, <2>2
    <3> QED
      BY <3>1, <1>7
  <2>3. \A n \in 0 .. m : t[n] \in Nat
    <3> HIDE DEF T
    <3>1. Nat \subseteq T
      BY <2>1, <2>2, SetInduction
    <3> QED
      BY <3>1 DEF T
  <2> QED
    BY <2>3, <1>6
<1> QED
  BY <1>4, <1>7, <1>8 DEF m

\* A block more, or none at all.
LEMMA CapacityGrows ==
  /\ Capacity(<<>>) = 0
  /\ \A bs, cs \in Seq(Block) :
       Len(cs) = Len(bs) + 1 /\ (\A i \in 1 .. Len(bs) : cs[i].cap = bs[i].cap)
       => Capacity(cs) = Capacity(bs) + cs[Len(bs) + 1].cap
<1>1. Capacity(<<>>) = 0
  <2>1. <<>> \in Seq(Block) /\ Len(<<>>) = 0
    BY EmptySeq
  <2> QED
    BY <2>1, CapacitySteps
<1>2. ASSUME NEW bs \in Seq(Block), NEW cs \in Seq(Block), Len(cs) = Len(bs) + 1,
             \A i \in 1 .. Len(bs) : cs[i].cap = bs[i].cap
      PROVE  Capacity(cs) = Capacity(bs) + cs[Len(bs) + 1].cap
  <2> DEFINE m == Len(bs)
  <2>1. PICK u \in [0 .. m -> Nat] : /\ Capacity(bs) = u[m] /\ u[0] = 0
                                     /\ \A k \in 1 .. m : u[k] = u[k - 1] + bs[k].cap
    BY CapacitySteps
  <2>2. PICK v \in [0 .. m + 1 -> Nat] : /\ Capacity(cs) = v[m + 1] /\ v[0] = 0
                                         /\ \A k \in 1 .. m + 1 : v[k] = v[k - 1] + cs[k].cap
    BY <1>2, CapacitySteps
  <2>3. m \in Nat
    BY LenProperties
  <2>4. \A i \in 1 .. m : cs[i].cap = bs[i].cap
    BY <1>2
  <2> HIDE DEF m
  <2> DEFINE T == {n \in Nat : n <= m => v[n] = u[n]}
  <2>5. 0 \in T
    BY <2>1, <2>2
  <2>6. ASSUME NEW n \in Nat, n \in T PROVE n + 1 \in T
    <3> SUFFICES ASSUME n + 1 <= m PROVE v[n + 1] = u[n + 1]
      OBVIOUS
    <3>1. n + 1 \in 1 .. m /\ n + 1 \in 1 .. m + 1 /\ v[n] = u[n] /\ (n + 1) - 1 = n
      BY <2>3, <2>6
    <3> QED
      BY <2>1, <2>2, <2>4, <3>1
  <2>7. m \in T
    <3> HIDE DEF T
    <3> QED
      BY <2>3, <2>5, <2>6, SetInduction
  <2>8. v[m] = u[m] /\ m + 1 \in 1 .. m + 1 /\ (m + 1) - 1 = m
    BY <2>3, <2>7
  <2>9. Capacity(cs) = Capacity(bs) + cs[m + 1].cap
    BY <2>1, <2>2, <2>8
  <2> QED
    BY <2>9 DEF m
<1> QED
  BY <1>1, <1>2

\* The block an arena starts with, and Clear leaves, is all of its size until it
\* grows, and no larger than the retention cap if it ever has.
FirstBlockFits ==
  /\ firstBlockSize <= Larger(BlockSize, MaxRetained)
  /\ \/ retired = <<>> /\ current.cap = firstBlockSize /\ totalSize = firstBlockSize
     \/ totalSize > firstBlockSize

SizeInv == TypeOK /\ SizeIsCapacity /\ FirstBlockFits

\* A new block adds what it has room for.
LEMMA NewBlockKeepsSize ==
  ASSUME SizeInv, NEW n \in Nat, NEW tail \in Seq(Arc), Len(tail) <= n, NewBlock(n, tail), TypeOK',
         firstBlockSize' = firstBlockSize
  PROVE  SizeInv'
<1> DEFINE size == Larger(PendingLen + n, BlockSize)
<1>1. /\ TypeOK /\ totalSize \in Nat /\ firstBlockSize \in Nat /\ retired \in Seq(Block) /\ Len(retired) \in Nat
      /\ current \in Block /\ current.cap \in Nat /\ current.arcs \in Seq(Arc)
      /\ Len(current.arcs) \in Nat /\ start \in Nat /\ start <= Len(current.arcs)
  BY LenProperties DEF SizeInv, TypeOK, Block
<1>2. PendingLen \in Nat
  BY <1>1 DEF PendingLen
<1>3. size \in Nat /\ size >= 1
  BY <1>2, ArenaAssumption DEF Larger
<1>4. retired' = Append(retired, [current EXCEPT !.arcs = Kept]) /\ current'.cap = size /\ totalSize' = totalSize + size
  BY DEF NewBlock
<1>5. retired' \in Seq(Block)
  BY DEF TypeOK
<1>6. /\ Len(retired') = Len(retired) + 1 /\ \A i \in 1 .. Len(retired) : retired'[i] = retired[i]
      /\ retired'[Len(retired) + 1].cap = current.cap
  <2>1. [current EXCEPT !.arcs = Kept].cap = current.cap
    BY <1>1 DEF Block
  <2>2. Kept \in Seq(Arc)
    <3>1. Kept = [i \in 1 .. start |-> current.arcs[0 + i]]
      BY <1>1 DEF Kept
    <3> QED
      BY <1>1, <3>1, Stretch
  <2>3. [current EXCEPT !.arcs = Kept] \in Block
    BY <1>1, <2>2 DEF Block
  <2> QED
    BY <1>1, <1>4, <2>1, <2>3, AppendProperties
<1>7. Capacity(retired') = Capacity(retired) + current.cap
  BY <1>1, <1>5, <1>6, CapacityGrows
<1>8. SizeIsCapacity'
  BY <1>4, <1>7 DEF SizeInv, SizeIsCapacity
<1>9. totalSize' > firstBlockSize'
  BY <1>1, <1>3, <1>4 DEF SizeInv, FirstBlockFits
<1>10. FirstBlockFits'
  BY <1>9 DEF SizeInv, FirstBlockFits
<1> QED
  BY <1>8, <1>10 DEF SizeInv

\* Every step keeps the size.
LEMMA SizeStep == SizeInv /\ TypeOK' /\ [Next]_vars => SizeInv'
<1> SUFFICES ASSUME SizeInv, TypeOK', [Next]_vars PROVE SizeInv'
  OBVIOUS
<1>1. /\ TypeOK /\ totalSize \in Nat /\ firstBlockSize \in Nat /\ current \in Block
      /\ current.arcs \in Seq(Arc) /\ Len(current.arcs) \in Nat /\ start \in Nat /\ start <= Len(current.arcs)
  BY LenProperties DEF SizeInv, TypeOK, Block
<1>2. ASSUME retired' = retired, current'.cap = current.cap, totalSize' = totalSize, firstBlockSize' = firstBlockSize
      PROVE  SizeInv'
  BY <1>2 DEF SizeInv, SizeIsCapacity, FirstBlockFits
<1>3. ASSUME NEW n \in 1 .. MaxReserve, ReserveArcs(n) PROVE SizeInv'
  <2>1. n \in Nat /\ <<>> \in Seq(Arc) /\ Len(<<>>) <= n
    BY <1>3, ArenaAssumption, EmptySeq
  <2> QED
    BY <1>3, <2>1, NewBlockKeepsSize DEF ReserveArcs
<1>4. ASSUME NEW a \in Arc, PushArc(a) PROVE SizeInv'
  <2>1. CASE /\ Len(current.arcs) < current.cap
             /\ current' = [current EXCEPT !.arcs = Append(@, a)]
             /\ UNCHANGED <<retired, start, totalSize>>
    <3>1. current'.cap = current.cap /\ firstBlockSize' = firstBlockSize
      BY <1>1, <1>4, <2>1 DEF PushArc, Block
    <3> QED
      BY <1>2, <2>1, <3>1
  <2>2. CASE NewBlock(Larger(PendingLen, 1), <<a>>)
    <3>1. Larger(PendingLen, 1) \in Nat /\ 1 <= Larger(PendingLen, 1)
      BY <1>1 DEF Larger, PendingLen
    <3>2. <<a>> \in Seq(Arc) /\ Len(<<a>>) = 1
      OBVIOUS
    <3> QED
      BY <1>4, <2>2, <3>1, <3>2, NewBlockKeepsSize DEF PushArc
  <2> QED
    BY <1>4, <2>1, <2>2 DEF PushArc
<1>5. CASE CommitArcs
  BY <1>2, <1>5 DEF CommitArcs
<1>6. CASE DropArcs
  <2>1. current'.cap = current.cap
    BY <1>1, <1>6 DEF DropArcs, Block
  <2> QED
    BY <1>2, <1>6, <2>1 DEF DropArcs
<1>7. CASE Clear
  <2>1. retired' = <<>> /\ totalSize' = firstBlockSize'
    BY <1>7 DEF Clear
  <2>2. firstBlockSize' <= Larger(BlockSize, MaxRetained) /\ current'.cap = firstBlockSize'
    <3>1. CASE totalSize > firstBlockSize
      <4>1. firstBlockSize' = Smaller(MaxRetained, totalSize) /\ current' = EmptyBlock(firstBlockSize')
        BY <1>7, <3>1 DEF Clear
      <4> QED
        BY <1>1, <4>1, ArenaAssumption DEF Smaller, Larger, EmptyBlock
    <3>2. CASE ~(totalSize > firstBlockSize)
      <4>1. firstBlockSize' = firstBlockSize /\ current'.cap = current.cap
        BY <1>1, <1>7, <3>2 DEF Clear, Block
      <4> QED
        BY <3>2, <4>1 DEF SizeInv, FirstBlockFits
    <3> QED
      BY <3>1, <3>2
  <2>3. FirstBlockFits'
    BY <2>1, <2>2 DEF FirstBlockFits
  <2>4. firstBlockSize' \in Nat
    BY DEF TypeOK
  <2>5. SizeIsCapacity'
    BY <2>1, <2>2, <2>4, CapacityGrows DEF SizeIsCapacity
  <2> QED
    BY <2>3, <2>5 DEF SizeInv
<1>8. CASE UNCHANGED vars
  BY <1>2, <1>8 DEF vars, arena
<1> QED
  BY <1>3, <1>4, <1>5, <1>6, <1>7, <1>8 DEF Next

\* What a step that clears the arena leaves of it.
Retained ==
  epoch' # epoch =>
    /\ totalSize' <= totalSize
    /\ totalSize' <= Larger(BlockSize, MaxRetained)
    /\ totalSize' >= Smaller(totalSize, MaxRetained)
    /\ current'.cap = totalSize'

\* Only Clear enters another epoch, and it sizes what it keeps.
LEMMA ClearSizes == SizeInv /\ [Next]_vars => [Retained]_vars
<1> SUFFICES ASSUME SizeInv, Next, epoch' # epoch
             PROVE  /\ totalSize' <= totalSize
                    /\ totalSize' <= Larger(BlockSize, MaxRetained)
                    /\ totalSize' >= Smaller(totalSize, MaxRetained)
                    /\ current'.cap = totalSize'
  BY DEF Retained
<1>1. Clear
  BY DEF Next, ReserveArcs, PushArc, CommitArcs, DropArcs
<1>2. totalSize \in Nat /\ firstBlockSize \in Nat /\ current \in Block /\ MaxRetained \in Nat /\ BlockSize \in Nat
  BY ArenaAssumption DEF SizeInv, TypeOK
<1>3. totalSize' = firstBlockSize'
  BY <1>1 DEF Clear
<1>4. CASE totalSize > firstBlockSize
  <2>1. firstBlockSize' = Smaller(MaxRetained, totalSize) /\ current' = EmptyBlock(firstBlockSize')
    BY <1>1, <1>4 DEF Clear
  <2> QED
    BY <1>2, <1>3, <2>1 DEF Smaller, Larger, EmptyBlock
<1>5. CASE ~(totalSize > firstBlockSize)
  <2>1. firstBlockSize' = firstBlockSize /\ current'.cap = current.cap
    BY <1>1, <1>2, <1>5 DEF Clear, Block
  <2>2. totalSize = firstBlockSize /\ current.cap = firstBlockSize /\ firstBlockSize <= Larger(BlockSize, MaxRetained)
    BY <1>5 DEF SizeInv, FirstBlockFits
  <2> QED
    BY <1>2, <1>3, <2>1, <2>2 DEF Smaller
<1> QED
  BY <1>4, <1>5

\* clear() and size(): for every block size, retention cap and sequence of calls
\* the size is what the live blocks have room for, a clear never leaves more than
\* there was or than the cap allows an arena that has grown, and it keeps a peak
\* that lies below the cap whole.
THEOREM ClearsRetain == Spec => ClearRetains
<1>1. Init /\ TypeOK => SizeInv
  <2> SUFFICES ASSUME Init, TypeOK PROVE SizeInv
    OBVIOUS
  <2>1. retired = <<>> /\ current.cap = BlockSize /\ firstBlockSize = BlockSize /\ totalSize = BlockSize /\ BlockSize \in Nat
    BY ArenaAssumption DEF Init, EmptyBlock
  <2>2. SizeIsCapacity
    BY <2>1, CapacityGrows DEF SizeIsCapacity
  <2>3. FirstBlockFits
    BY <2>1, ArenaAssumption DEF FirstBlockFits, Larger
  <2> QED
    BY <2>2, <2>3 DEF SizeInv
<1>2. SizeInv => SizeIsCapacity
  BY DEF SizeInv
<1> QED
  BY <1>1, <1>2, TypeCorrect, SizeStep, ClearSizes, PTL DEF Spec, ClearRetains, Retained
=============================================================================
