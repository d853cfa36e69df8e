------------------------------ MODULE ArcArena ------------------------------
(***************************************************************************)
(* The arena of sicada/src/memory/arc_arena.rs: contiguous runs of arcs    *)
(* carved out of blocks that grow but are never reallocated.  A run is a   *)
(* plain value (block, start, len); nothing ties it to the arena, so what  *)
(* it resolves to depends on every operation performed since it was        *)
(* committed.  The history variables `issued' and `epoch' remember what    *)
(* each run held when it was committed, and since which Clear.             *)
(***************************************************************************)
EXTENDS Integers, Sequences, FiniteSets

CONSTANTS
  Arc,          \* the arcs pushed
  BlockSize,    \* size of a freshly grown block
  MaxRetained,  \* cap on the block kept across Clear
  MaxReserve,   \* bound: largest ReserveArcs request
  MaxPushes,    \* bound: arcs pushed in one behaviour
  MaxRuns,      \* bound: runs committed in one behaviour
  MaxEpoch      \* bound: calls of Clear

ASSUME ArenaAssumption ==
  /\ BlockSize \in Nat \ {0}
  /\ MaxRetained \in Nat
  /\ {MaxReserve, MaxPushes, MaxRuns, MaxEpoch} \subseteq Nat

VARIABLES
  retired,         \* blocks no longer written to
  current,         \* the block being filled
  start,           \* offset in current where the run in progress starts
  firstBlockSize,  \* size of the block kept across Clear
  totalSize,       \* capacity of all live blocks
  pushes,          \* bound counter
  issued,          \* history: every run committed, with its contents
  epoch            \* history: number of calls of Clear

arena == <<retired, current, start, firstBlockSize, totalSize>>
vars == <<arena, pushes, issued, epoch>>

Larger(m, n) == IF m >= n THEN m ELSE n
Smaller(m, n) == IF m <= n THEN m ELSE n

Block == [cap : Nat, arcs : Seq(Arc)]
Run == [block : Nat, start : Nat, len : Nat]
EmptyBlock(n) == [cap |-> n, arcs |-> <<>>]

BlockOf(run) ==
  IF run.block = Len(retired) THEN current ELSE retired[run.block + 1]

\* The indexing of arcs() panics unless this holds.
Resolvable(run) ==
  /\ run.block <= Len(retired)
  /\ run.start + run.len <= Len(BlockOf(run).arcs)

\* What arcs() returns.
Arcs(run) == [i \in 1 .. run.len |-> BlockOf(run).arcs[run.start + i]]

PendingLen == Len(current.arcs) - start
Pending == [i \in 1 .. PendingLen |-> current.arcs[start + i]]
Kept == [i \in 1 .. start |-> current.arcs[i]]

-----------------------------------------------------------------------------
Init ==
  /\ retired = <<>>
  /\ current = EmptyBlock(BlockSize)
  /\ start = 0
  /\ firstBlockSize = BlockSize
  /\ totalSize = BlockSize
  /\ pushes = 0
  /\ issued = {}
  /\ epoch = 0

\* Mutant: the block is sized without the run that moves into it.
NewBlockForgetsPending(n, tail) ==
  LET size == Larger(n, BlockSize)
  IN  /\ retired' = Append(retired, [current EXCEPT !.arcs = Kept])
      /\ current' = [cap |-> size, arcs |-> Pending \o tail]
      /\ start' = 0
      /\ totalSize' = totalSize + size

\* Retires the current block and moves the run in progress, followed by
\* tail, to a block with room for n more arcs.
NewBlock(n, tail) ==
  LET size == Larger(PendingLen + n, BlockSize)
  IN  /\ retired' = Append(retired, [current EXCEPT !.arcs = Kept])
      /\ current' = [cap |-> size, arcs |-> Pending \o tail]
      /\ start' = 0
      /\ totalSize' = totalSize + size

ReserveArcs(n) ==
  /\ current.cap - Len(current.arcs) < n
  /\ NewBlock(n, <<>>)
  /\ UNCHANGED <<firstBlockSize, pushes, issued, epoch>>

PushArc(a) ==
  /\ pushes < MaxPushes
  /\ pushes' = pushes + 1
  /\ \/ /\ Len(current.arcs) < current.cap
        /\ current' = [current EXCEPT !.arcs = Append(@, a)]
        /\ UNCHANGED <<retired, start, totalSize>>
     \/ /\ Len(current.arcs) = current.cap
        /\ NewBlock(Larger(PendingLen, 1), <<a>>)
  /\ UNCHANGED <<firstBlockSize, issued, epoch>>

\* Mutant: the next run starts where this one did.
CommitArcsKeepsStart ==
  /\ Cardinality(issued) < MaxRuns
  /\ issued' = issued \cup
       {[run |-> [block |-> Len(retired), start |-> start, len |-> PendingLen],
         arcs |-> Pending, epoch |-> epoch]}
  /\ UNCHANGED arena
  /\ UNCHANGED <<pushes, epoch>>

CommitArcs ==
  LET run == [block |-> Len(retired), start |-> start, len |-> PendingLen]
  IN  /\ Cardinality(issued) < MaxRuns
      /\ issued' = issued \cup {[run |-> run, arcs |-> Pending, epoch |-> epoch]}
      /\ start' = start + PendingLen
      /\ UNCHANGED <<retired, current, firstBlockSize, totalSize, pushes, epoch>>

\* Mutant: drops the whole block.
DropArcsClears ==
  /\ current' = [current EXCEPT !.arcs = <<>>]
  /\ start' = 0
  /\ UNCHANGED <<retired, firstBlockSize, totalSize, pushes, issued, epoch>>

DropArcs ==
  /\ current' = [current EXCEPT !.arcs = Kept]
  /\ UNCHANGED <<retired, start, firstBlockSize, totalSize, pushes, issued, epoch>>

\* Mutant: the retention cap is read as a floor.
ClearUncapped ==
  /\ epoch < MaxEpoch
  /\ epoch' = epoch + 1
  /\ retired' = <<>>
  /\ firstBlockSize' = Larger(MaxRetained, totalSize)
  /\ current' = EmptyBlock(firstBlockSize')
  /\ totalSize' = firstBlockSize'
  /\ start' = 0
  /\ UNCHANGED <<pushes, issued>>

Clear ==
  /\ epoch < MaxEpoch
  /\ epoch' = epoch + 1
  /\ retired' = <<>>
  /\ IF totalSize > firstBlockSize
     THEN /\ firstBlockSize' = Smaller(MaxRetained, totalSize)
          /\ current' = EmptyBlock(firstBlockSize')
     ELSE /\ current' = [current EXCEPT !.arcs = <<>>]
          /\ UNCHANGED firstBlockSize
  /\ totalSize' = firstBlockSize'
  /\ start' = 0
  /\ UNCHANGED <<pushes, issued>>

Next ==
  \/ \E n \in 1 .. MaxReserve : ReserveArcs(n)
  \/ \E a \in Arc : PushArc(a)
  \/ CommitArcs
  \/ DropArcs
  \/ Clear

Spec == Init /\ [][Next]_vars

-----------------------------------------------------------------------------
(***************************************************************************)
(* Properties                                                              *)
(***************************************************************************)

Issued == [run : Run, arcs : Seq(Arc), epoch : Nat]

\* The runs committed since the last Clear.
Live == {r \in issued : r.epoch = epoch}

\* Every field has its type; the offset of the run in progress and the
\* length of the block being filled stay within the block's capacity.
TypeOK ==
  /\ retired \in Seq(Block)
  /\ current \in Block
  /\ start \in 0 .. Len(current.arcs)
  /\ Len(current.arcs) <= current.cap
  /\ {firstBlockSize, totalSize, pushes, epoch} \subseteq Nat
  /\ issued \subseteq Issued

\* "A committed run stays valid until clear is called, even as later runs are
\* appended and the arena grows": whatever was pushed, dropped or reserved
\* since, a run of the current epoch resolves to the arcs it was committed
\* with.  A state of the arc-arena store is such a run.
LiveRunsKeepTheirArcs ==
  \A r \in Live : Resolvable(r.run) /\ Arcs(r.run) = r.arcs

\* Two runs of the current epoch share no slot, and none of them reaches into
\* the run in progress, whose slots DropArcs and NewBlock take back.
LiveRunsDisjoint ==
  /\ \A r, q \in Live :
       LET a == r.run
           b == q.run
       IN  \/ a = b \/ a.block # b.block
           \/ a.start + a.len <= b.start \/ b.start + b.len <= a.start
  /\ \A r \in Live : r.run.block = Len(retired) => r.run.start + r.run.len <= start

\* What some blocks have room for together.
Capacity(blocks) ==
  LET upto[n \in 0 .. Len(blocks)] == IF n = 0 THEN 0 ELSE upto[n - 1] + blocks[n].cap
  IN  upto[Len(blocks)]

\* size() is the capacity of the live blocks, neither less nor more, although
\* Clear recomputes it without looking at the blocks.
SizeIsCapacity == totalSize = Capacity(retired) + current.cap

\* Clear, which sizes what it keeps by that sum, never leaves more capacity
\* behind than there was, nor more than the retention cap allows an arena that
\* has grown; and it leaves the whole of a peak below the cap, so that the next
\* round of the same size does not grow.
ClearRetains ==
  /\ []SizeIsCapacity
  /\ [][epoch' # epoch =>
          /\ totalSize' <= totalSize
          /\ totalSize' <= Larger(BlockSize, MaxRetained)
          /\ totalSize' >= Smaller(totalSize, MaxRetained)
          /\ current'.cap = totalSize']_vars
=============================================================================
