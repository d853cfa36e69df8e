------------------------------- MODULE HeapOps -------------------------------
(***************************************************************************)
(* The binary heap with stable keys of data_structures/indexed_heap.rs, as *)
(* operators on a heap value, for the modules whose state holds one.       *)
(*                                                                         *)
(* A heap is a record: elements (the live entries in heap order), pos (per *)
(* key, the index of its element, or FREE_FLAG plus the next free key) and *)
(* free_head.  Indices and keys are the code's, from 0.  The comparator    *)
(* reads numbers that live outside the heap: `rank` gives them as they are *)
(* at the call, and a smaller rank comes first.                            *)
(***************************************************************************)
LOCAL INSTANCE Integers
LOCAL INSTANCE Sequences
LOCAL INSTANCE SequencesExt

CONSTANT FREE_FLAG  \* the bit that marks a freed key: 2^31 in the code

NO_FREE == FREE_FLAG - 1

EmptyHeap == [elements |-> <<>>, pos |-> <<>>, free_head |-> NO_FREE]

Length(h)  == Len(h.elements)
Node(h, i) == h.elements[i + 1]
Pos(h, k)  == h.pos[k + 1]
Live(h, k) == k \in 0 .. Len(h.pos) - 1 /\ Pos(h, k) < FREE_FLAG
Parent(i)  == (i - 1) \div 2

Place(h, i, node) ==
  [h EXCEPT !.elements[i + 1] = node, !.pos[node.key + 1] = i]

Release(h, k) ==
  [h EXCEPT !.pos[k + 1] = FREE_FLAG + h.free_head, !.free_head = k]

-----------------------------------------------------------------------------
\* The hole: the element at i is lifted out, the elements on the path each
\* move into the hole before them, and the lifted one fills the last.

Travel(h, i, path) ==
  LET lifted  == Node(h, i)
      carried == FoldLeft(LAMBDA acc, to : [heap |-> Place(acc.heap, acc.hole, Node(acc.heap, to)),
                                            hole |-> to],
                          [heap |-> h, hole |-> i], path)
  IN  Place(carried.heap, carried.hole, lifted)

UpPath(h, rank, i) ==
  LET v == rank[Node(h, i).value]
      Path[j \in 0 .. i] ==
        IF j > 0 /\ v < rank[Node(h, Parent(j)).value]
        THEN <<Parent(j)>> \o Path[Parent(j)] ELSE <<>>
  IN  Path[i]

DownPath(h, rank, i) ==
  LET v    == rank[Node(h, i).value]
      R(j) == rank[Node(h, j).value]
      Best(j) == LET left == 2 * j + 1 IN
                 IF left + 1 < Length(h) /\ R(left + 1) < R(left) THEN left + 1 ELSE left
      Path[j \in 0 .. Length(h) - 1] ==
        IF 2 * j + 1 < Length(h) /\ R(Best(j)) < v
        THEN <<Best(j)>> \o Path[Best(j)] ELSE <<>>
  IN  Path[i]

SiftUp(h, rank, i)   == Travel(h, i, UpPath(h, rank, i))
SiftDown(h, rank, i) == Travel(h, i, DownPath(h, rank, i))

-----------------------------------------------------------------------------
\* The operations.  Insert's key is the head of the free list, or a new one.

InsertKey(h) == IF h.free_head # NO_FREE THEN h.free_head ELSE Len(h.pos)

Insert(h, rank, v) ==
  LET k    == InsertKey(h)
      n    == Length(h)
      node == [value |-> v, key |-> k]
      kept == IF h.free_head # NO_FREE
              THEN [h EXCEPT !.free_head = Pos(h, k) - FREE_FLAG, !.pos[k + 1] = n]
              ELSE [h EXCEPT !.pos = Append(@, n)]
  IN  SiftUp([kept EXCEPT !.elements = Append(@, node)], rank, n)

Update(h, rank, k, v) ==
  LET i == Pos(h, k)
      g == [h EXCEPT !.elements[i + 1].value = v]
  IN  IF i > 0 /\ rank[v] < rank[Node(g, Parent(i)).value]
      THEN SiftUp(g, rank, i) ELSE SiftDown(g, rank, i)

Top(h) == Head(h.elements).value

Pop(h, rank) ==
  LET last == Last(h.elements)
      root == Head(h.elements)
      rest == [h EXCEPT !.elements = Front(@)]
  IN  IF rest.elements = <<>> THEN Release(rest, last.key)
      ELSE SiftDown(Release(Place(rest, 0, last), root.key), rank, 0)

Clear(h) ==
  FoldRight(LAMBDA node, acc : Release(acc, node.key), h.elements, [h EXCEPT !.elements = <<>>])

-----------------------------------------------------------------------------
\* What the code's is_consistent checks, and the free list.

InHeapOrder(h, rank) ==
  \A i \in 1 .. Length(h) - 1 : rank[Node(h, i).value] >= rank[Node(h, Parent(i)).value]

KeysAgree(h) ==
  /\ \A i \in 0 .. Length(h) - 1 : Pos(h, Node(h, i).key) = i
  /\ \A k \in 0 .. Len(h.pos) - 1 :
       Live(h, k) => Pos(h, k) < Length(h) /\ Node(h, Pos(h, k)).key = k

\* The keys met from free_head on, following the links.
FreeList(h) ==
  LET From[n \in 0 .. Len(h.pos)] ==
        IF n = 0 THEN <<h.free_head>>
        ELSE LET before == From[n - 1]
                 k      == Last(before)
             IN  IF k \in 0 .. Len(h.pos) - 1 /\ ~Live(h, k)
                 THEN Append(before, Pos(h, k) - FREE_FLAG) ELSE before
  IN  From[Len(h.pos)]

FreeListHoldsTheFreeKeys(h) ==
  LET free == {k \in 0 .. Len(h.pos) - 1 : ~Live(h, k)}
      list == FreeList(h)
  IN  /\ Last(list) = NO_FREE
      /\ {list[i] : i \in 1 .. Len(list) - 1} = free
      /\ IsInjective(list)
=============================================================================
