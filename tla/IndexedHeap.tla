----------------------------- MODULE IndexedHeap -----------------------------
(***************************************************************************)
(* One IndexedHeap and its operations in any order, as shortest-distance   *)
(* queues call them, with values that are their own rank.                  *)
(***************************************************************************)
EXTENDS Integers, Sequences, FiniteSets, TLC

CONSTANTS
  Value,      \* the values inserted, numbers compared by <
  FREE_FLAG,  \* the bit that marks a freed key
  MaxLen      \* bound: how many elements the heap holds at most

VARIABLES
  heap,    \* elements, pos and free_head
  popped   \* what the last pop answered, -1 before the first

vars == <<heap, popped>>

H == INSTANCE HeapOps

rank == [v \in Value |-> v]

LiveKeys == {k \in 0 .. Len(heap.pos) - 1 : H!Live(heap, k)}

Init == heap = H!EmptyHeap /\ popped = -1

insert(v) ==
  /\ H!Length(heap) < MaxLen
  /\ heap' = H!Insert(heap, rank, v)
  /\ UNCHANGED popped

\* The assert rejects a key that was never handed out or has been freed.
update(k, v) ==
  /\ k \in LiveKeys
  /\ heap' = H!Update(heap, rank, k, v)
  /\ UNCHANGED popped

pop ==
  /\ H!Length(heap) > 0
  /\ popped' = H!Top(heap)
  /\ heap' = H!Pop(heap, rank)

clear ==
  /\ heap' = H!Clear(heap)
  /\ UNCHANGED popped

Next ==
  \/ \E v \in Value : insert(v)
  \/ \E k \in 0 .. MaxLen - 1, v \in Value : update(k, v)
  \/ pop
  \/ clear

Spec == Init /\ [][Next]_vars

-----------------------------------------------------------------------------
TypeOK ==
  /\ heap.elements \in Seq([value : Value, key : 0 .. MaxLen - 1])
  /\ heap.pos \in Seq(0 .. MaxLen - 1 \cup FREE_FLAG .. 2 * FREE_FLAG - 1)
  /\ heap.free_head \in 0 .. MaxLen - 1 \cup {H!NO_FREE}
  /\ popped \in Value \cup {-1}

\* No operation leaves an element above one that outranks it, whichever way a
\* sift went and wherever the hole ended.
HeapOrder == H!InHeapOrder(heap, rank)

\* Keys and positions name each other, so the unchecked accesses of update and
\* of the hole stay in range and reach the element the caller meant.
KeysAgree == H!KeysAgree(heap)

\* The list threaded through pos holds every freed key once and no live one:
\* an insert never takes a key a caller still uses, and none leaks.
FreeKeysAreListed == H!FreeListHoldsTheFreeKeys(heap)

\* The heap is a priority map: an insert adds one key, an update changes that
\* key's value alone, a pop takes some least value and frees its key alone.
Held == [k \in LiveKeys |-> H!Node(heap, H!Pos(heap, k)).value]

Promise == INSTANCE PriorityMap WITH Key <- 0 .. MaxLen - 1, held <- Held, taken <- popped

ImplementsPriorityMap == Promise!Spec
=============================================================================
