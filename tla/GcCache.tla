------------------------------- MODULE GcCache -------------------------------
(***************************************************************************)
(* CacheImpl and its CacheStore of sicada/src/cache.rs: a cache of expanded *)
(* states that evicts by SIEVE.  Nodes live in slots of a pool; a map goes *)
(* from state ids to slots; the nodes form a doubly linked list, newest at *)
(* the head, that the hand sweeps from tail to head.  Expansions call back *)
(* into the cache, and readers hold reference-counted arcs, while the      *)
(* sweep runs.                                                             *)
(***************************************************************************)
EXTENDS Integers, Sequences, FiniteSets, Functions, FiniteSetsExt

CONSTANTS
  NumStates,   \* ids are 0 .. NumStates - 1
  Targets,     \* Targets[s]: the next states of the arcs the expander returns
  Start,       \* the automaton's start state
  IsFinal,     \* IsFinal[s]: whether expand_final returns a weight
  DenseLimit,  \* ids below it are mapped by a vector, the others by a hash
  StateSize,   \* size of a node without arcs
  ArcSize,
  Gc,          \* CacheOptions.gc
  GcLimit,     \* CacheOptions.gc_limit
  FracNum,     \* CacheOptions.gc_fraction, as a ratio
  FracDen,
  MinLimit,    \* the limit's smallest value once it has grown (1024 bytes)
  MaxDepth,    \* bound: nested expansions
  MaxPins      \* bound: guards on the arcs of one state

Id == 0 .. NumStates - 1

\* What the constants must be.
CacheAssumption ==
  /\ {NumStates, StateSize, ArcSize, FracDen, MinLimit} \subseteq Nat \ {0}
  /\ {DenseLimit, GcLimit, FracNum, MaxDepth, MaxPins} \subseteq Nat
  /\ FracNum <= FracDen
  /\ Gc \in BOOLEAN
  /\ Targets \in [Id -> Seq(Id)]
  /\ Start \in Id
  /\ IsFinal \in [Id -> BOOLEAN]

VARIABLES
  store,     \* CacheStore: pool, map, list and sizes
  stack,     \* expansions in progress, innermost last, each with its guard
  pins,      \* guards outside the cache on each state's current arcs
  cache_start,  \* has_start is that it is not None
  known,     \* nknown_states
  expanded   \* expanded_states, with its cached bounds

cacheVars == <<store, stack, pins, cache_start, known, expanded>>

None == -1
Slot == 0 .. NumStates - 1   \* as many nodes as ids at most
Or(a, b) == IF a # None THEN a ELSE b

\* Upstream's flags, less INIT, which every node has.
Flag == {"FINAL", "ARCS", "VISITED", "EXPANDING_FINAL", "EXPANDING_ARCS"}
Expanding == {"EXPANDING_FINAL", "EXPANDING_ARCS"}

NoArcs == <<None>>
Node(id) == [id |-> id, flags |-> {}, final |-> FALSE, arcs |-> NoArcs,
             next |-> None, prev |-> None]
Estimate(node) ==
  StateSize + (IF node.arcs = NoArcs THEN 0 ELSE ArcSize * Len(node.arcs))

-----------------------------------------------------------------------------
(* HybridIndexMap *)

EmptyMap == [dense |-> <<>>, sparse |-> [id \in {} |-> None]]

MapGet(map, id) ==
  IF id < DenseLimit
  THEN IF id < Len(map.dense) THEN map.dense[id + 1] ELSE None
  ELSE IF id \in DOMAIN map.sparse THEN map.sparse[id] ELSE None

MapInsert(map, id, idx) ==
  IF id < DenseLimit
  THEN [map EXCEPT !.dense =
          [i \in 1 .. (IF id < Len(@) THEN Len(@) ELSE id + 1) |->
             IF i = id + 1 THEN idx ELSE IF i <= Len(@) THEN @[i] ELSE None]]
  ELSE [map EXCEPT !.sparse =
          [j \in DOMAIN @ \cup {id} |-> IF j = id THEN idx ELSE @[j]]]

\* Mutant: the hash keeps the slot of a node that is gone.
MapRemoveDense(map, id) ==
  IF id < Len(map.dense) THEN [map EXCEPT !.dense[id + 1] = None] ELSE map

MapRemove(map, id) ==
  IF id < DenseLimit
  THEN IF id < Len(map.dense) THEN [map EXCEPT !.dense[id + 1] = None] ELSE map
  ELSE [map EXCEPT !.sparse = Restrict(@, DOMAIN @ \ {id})]

-----------------------------------------------------------------------------
(* CacheStore *)

EmptyStore ==
  [pool |-> [i \in {} |-> None], map |-> EmptyMap, size |-> 0, limit |-> GcLimit,
   head |-> None, tail |-> None, hand |-> None]

\* Unlinks a node and frees its slot.
RemoveNode(st, idx) ==
  LET node == st.pool[idx]
      relinked == [i \in DOMAIN st.pool \ {idx} |->
                     [st.pool[i] EXCEPT
                        !.next = IF i = node.prev THEN node.next ELSE @,
                        !.prev = IF i = node.next THEN node.prev ELSE @]]
      tail == IF node.next = None THEN node.prev ELSE st.tail
  IN  [st EXCEPT !.pool = relinked,
                 !.size = IF @ < Estimate(node) THEN 0 ELSE @ - Estimate(node),
                 !.map  = MapRemove(@, node.id),
                 !.head = IF node.prev = None THEN node.next ELSE @,
                 !.tail = tail,
                 !.hand = IF @ = idx THEN Or(node.prev, tail) ELSE @]

Pinned(idx, st) == st.pool[idx].arcs # NoArcs /\ pins[st.pool[idx].id] > 0

\* Mutant: the state being expanded is fair game.
ProtectedUnlessPinned(idx, st, protect) == idx = protect \/ Pinned(idx, st)

\* Mutant: arcs in a reader's hands are fair game.
ProtectedUnlessExpanding(idx, st, protect) ==
  idx = protect \/ st.pool[idx].flags \cap Expanding # {}

Protected(idx, st, protect) ==
  \/ idx = protect
  \/ Pinned(idx, st)
  \/ st.pool[idx].flags \cap Expanding # {}

\* One turn of either sweep, at slot at; the second sweep takes visited nodes.
Sweep(turn, takeVisited, target, protect) ==
  LET st == turn.st
      at == turn.at
      node == st.pool[at]
      onward == Or(node.prev, st.tail)
  IN  IF st.size <= target \/ at = None THEN turn
      ELSE IF Protected(at, st, protect) THEN [st |-> st, at |-> onward]
      ELSE IF "VISITED" \in node.flags /\ ~ takeVisited
      THEN [st |-> [st EXCEPT !.pool[at].flags = @ \ {"VISITED"}, !.hand = onward],
            at |-> onward]
      ELSE [st |-> [RemoveNode(st, at) EXCEPT !.hand = onward], at |-> onward]

SweepTurns(st, steps, takeVisited, target, protect) ==
  LET turns[k \in 0 .. steps] ==
        IF k = 0 THEN [st |-> st, at |-> Or(st.hand, st.tail)]
        ELSE Sweep(turns[k - 1], takeVisited, target, protect)
  IN  turns[steps].st

\* The limit doubles until the size fits.
GrownLimit(limit, size) ==
  LET grown[k \in 0 .. size] ==
        IF k = 0 THEN limit
        ELSE IF grown[k - 1] >= size THEN grown[k - 1]
        ELSE Max({2 * grown[k - 1], MinLimit})
  IN  grown[size]

Target(st) == (st.limit * FracNum) \div FracDen

\* Mutant: one sweep only.
CollectOnce(st, protect) ==
  IF ~ Gc \/ st.size <= st.limit THEN st
  ELSE LET first == SweepTurns(st, Cardinality(DOMAIN st.pool), FALSE, Target(st), protect)
       IN  [first EXCEPT !.limit = GrownLimit(@, first.size)]

\* gc: evicts down to the target, first what has not been visited, then
\* anything; if too much is protected the limit grows.
Collect(st, protect) ==
  IF ~ Gc \/ st.size <= st.limit THEN st
  ELSE LET steps == Cardinality(DOMAIN st.pool)
           first == SweepTurns(st, steps, FALSE, Target(st), protect)
           second == SweepTurns(first, steps, TRUE, Target(st), protect)
       IN  [second EXCEPT !.limit = GrownLimit(@, second.size)]

\* Puts a node for id at the head of the list, in slot idx.
PushHead(st, id, idx) ==
  LET linked == [i \in DOMAIN st.pool \cup {idx} |->
                   IF i = idx THEN [Node(id) EXCEPT !.next = st.head]
                   ELSE IF i = st.head THEN [st.pool[i] EXCEPT !.prev = idx]
                   ELSE st.pool[i]]
  IN  [st EXCEPT !.pool = linked,
                 !.size = @ + StateSize,
                 !.map  = MapInsert(@, id, idx),
                 !.head = idx,
                 !.tail = IF st.head = None THEN idx ELSE @,
                 !.hand = IF st.head = None THEN idx ELSE @]

\* allocate_slot_if_needed: the stores it may leave, one per slot the pool may
\* hand out.
Allocated(id) ==
  IF MapGet(store.map, id) # None THEN {store}
  ELSE LET st == Collect(store, None)
       IN  {PushHead(st, id, idx) : idx \in Slot \ DOMAIN st.pool}

NodeOf(st, id) == MapGet(st.map, id)
SetFlags(st, idx, add, drop) ==
  [st EXCEPT !.pool[idx].flags = (@ \cup add) \ drop]

-----------------------------------------------------------------------------
(* CacheImpl *)

CacheInit ==
  /\ store = EmptyStore
  /\ stack = <<>>
  /\ pins = [s \in Id |-> 0]
  /\ cache_start = None
  /\ known = 0
  /\ expanded = [set |-> {}, min |-> 0, max |-> None]

Top == stack[Len(stack)]
Pop == SubSeq(stack, 1, Len(stack) - 1)
GuardFlag(kind) == IF kind = "final" THEN "EXPANDING_FINAL" ELSE "EXPANDING_ARCS"
DoneFlag(kind) == IF kind = "final" THEN "FINAL" ELSE "ARCS"

\* Called when has_start is false.
SetStart ==
  /\ cache_start = None
  /\ cache_start' = Start
  /\ known' = Max({known, Start + 1})
  /\ UNCHANGED <<store, stack, pins, expanded>>

\* final_weight or ensure_arcs finds what it is after.
Hit(s, kind) ==
  /\ NodeOf(store, s) # None
  /\ DoneFlag(kind) \in store.pool[NodeOf(store, s)].flags
  /\ store' = SetFlags(store, NodeOf(store, s), {"VISITED"}, {})
  /\ UNCHANGED <<stack, pins, cache_start, known, expanded>>

\* final_weight or ensure_arcs calls the expander, under a guard.  A call that
\* finds the guard's flag set panics; the store stays as it was.
Begin(s, kind) ==
  /\ Len(stack) < MaxDepth
  /\ NodeOf(store, s) # None =>
       {DoneFlag(kind), GuardFlag(kind)} \cap store.pool[NodeOf(store, s)].flags = {}
  /\ \E st \in Allocated(s) :
       LET idx == NodeOf(st, s)
       IN  /\ store' = SetFlags(st, idx, {GuardFlag(kind)}, {})
           /\ stack' = Append(stack, [state |-> s, idx |-> idx, kind |-> kind])
  /\ UNCHANGED <<pins, cache_start, known, expanded>>

\* expand_final returned.
EndFinal ==
  /\ stack # <<>> /\ Top.kind = "final"
  /\ store' = [SetFlags(store, Top.idx, {"FINAL", "VISITED"}, {"EXPANDING_FINAL"})
                 EXCEPT !.pool[Top.idx].final = IsFinal[Top.state]]
  /\ stack' = Pop
  /\ UNCHANGED <<pins, cache_start, known, expanded>>

Fill(st, idx, arcs) ==
  [SetFlags(st, idx, {"ARCS", "VISITED"}, {"EXPANDING_ARCS"})
     EXCEPT !.pool[idx].arcs = arcs, !.size = @ + ArcSize * Len(arcs)]

KnowTargets(arcs) ==
  known' = Max({known, 1} \cup {arcs[i] + 1 : i \in DOMAIN arcs})

SetExpanded(s) ==
  expanded' = [set |-> expanded.set \cup {s},
               min |-> IF s = expanded.min THEN s + 1 ELSE expanded.min,
               max |-> IF s > expanded.max THEN s ELSE expanded.max]

\* expand_arcs returned: the arcs are stored, and the sweep spares their node.
EndArcs ==
  /\ stack # <<>> /\ Top.kind = "arcs"
  /\ store' = Collect(Fill(store, Top.idx, Targets[Top.state]), Top.idx)
  /\ stack' = Pop
  /\ KnowTargets(Targets[Top.state])
  /\ SetExpanded(Top.state)
  /\ UNCHANGED <<pins, cache_start>>

\* The expander panics, and dropping the guard clears its flag.
Unwind ==
  /\ stack # <<>>
  /\ store' = SetFlags(store, Top.idx, {}, {GuardFlag(Top.kind)})
  /\ stack' = Pop
  /\ UNCHANGED <<pins, cache_start, known, expanded>>

\* arcs_slice or arcs_iter on cached arcs hands out a guard.
Pin(s) ==
  /\ NodeOf(store, s) # None
  /\ "ARCS" \in store.pool[NodeOf(store, s)].flags
  /\ pins[s] < MaxPins
  /\ pins' = [pins EXCEPT ![s] = @ + 1]
  /\ store' = SetFlags(store, NodeOf(store, s), {"VISITED"}, {})
  /\ UNCHANGED <<stack, cache_start, known, expanded>>

Unpin(s) ==
  /\ pins[s] > 0
  /\ pins' = [pins EXCEPT ![s] = @ - 1]
  /\ UNCHANGED <<store, stack, cache_start, known, expanded>>

\* clear, which no expansion calls.  Guards keep the arcs they hold, but these
\* are no longer the cache's.
ClearCache ==
  /\ stack = <<>>
  /\ store' = EmptyStore
  /\ pins' = [s \in Id |-> 0]
  /\ cache_start' = None
  /\ known' = 0
  /\ expanded' = [set |-> {}, min |-> 0, max |-> None]
  /\ UNCHANGED stack

CacheNext ==
  \/ SetStart
  \/ \E s \in Id : \/ \E kind \in {"final", "arcs"} : Hit(s, kind) \/ Begin(s, kind)
                   \/ Pin(s)
                   \/ Unpin(s)
  \/ EndFinal
  \/ EndArcs
  \/ Unwind
  \/ ClearCache

CacheSpec == CacheInit /\ [][CacheNext]_cacheVars

-----------------------------------------------------------------------------
(***************************************************************************)
(* Properties                                                              *)
(***************************************************************************)

Pool == DOMAIN store.pool

\* Types.
CacheTypeOK ==
  /\ Pool \subseteq Slot
  /\ \A i \in Pool :
       /\ store.pool[i].id \in Id
       /\ store.pool[i].flags \subseteq Flag
       /\ {store.pool[i].next, store.pool[i].prev} \subseteq Pool \cup {None}
  /\ {store.head, store.tail} \subseteq Pool \cup {None}
  /\ {store.size, store.limit, known} \subseteq Nat
  /\ \A k \in DOMAIN stack : stack[k] \in [state : Id, idx : Slot, kind : {"final", "arcs"}]

\* The slots the list reaches from the head.
Listed ==
  LET reach[k \in 0 .. NumStates] ==
        IF k = 0 THEN {store.head} \ {None}
        ELSE LET listed == reach[k - 1]
             IN  listed \cup ({store.pool[i].next : i \in listed} \ {None})
  IN  reach[NumStates]

\* The list holds exactly the nodes of the pool, its links agree in both
\* directions, the map leads to each node by its id and nowhere else, and the
\* hand stands on a node whenever there is one: what push_head, remove_node and
\* the sweeps each maintain by halves.
Coherent ==
  /\ Listed = Pool
  /\ \A i, j \in Pool : store.pool[i].next = j <=> store.pool[j].prev = i
  /\ \A i \in Pool : /\ store.pool[i].prev = None <=> i = store.head
                     /\ store.pool[i].next = None <=> i = store.tail
  /\ \A s \in Id : MapGet(store.map, s) # None =>
       MapGet(store.map, s) \in Pool /\ store.pool[MapGet(store.map, s)].id = s
  /\ \A i \in Pool : MapGet(store.map, store.pool[i].id) = i
  /\ Pool # {} => store.hand \in Pool

\* The sum over the slots.
Total(sizes) ==
  LET upto[k \in 0 .. NumStates] == IF k = 0 THEN 0 ELSE upto[k - 1] + sizes[k - 1]
  IN  upto[NumStates]

\* The byte count the sweeps steer by is the sum over the nodes: what is
\* inserted, filled and evicted is counted once each, and the saturating
\* subtraction never saturates.
SizeIsExact ==
  store.size =
    Total([i \in Slot |-> IF i \in Pool THEN Estimate(store.pool[i]) ELSE 0])

\* An expansion comes back to the node it left, however many states the calls
\* it made have evicted; the guard's flag on it is its own.
ExpansionsKeepTheirNodes ==
  \A k \in DOMAIN stack :
    LET f == stack[k]
    IN  /\ f.idx \in Pool
        /\ store.pool[f.idx].id = f.state
        /\ GuardFlag(f.kind) \in store.pool[f.idx].flags
        /\ \A j \in DOMAIN stack \ {k} : stack[j].idx # f.idx \/ stack[j].kind # f.kind

\* A flag left behind by a panic would pin its node for good and make the next
\* call on it panic: only running expansions have flags.
FlagsHaveExpansions ==
  \A i \in Pool : \A kind \in {"final", "arcs"} :
    GuardFlag(kind) \in store.pool[i].flags =>
      \E k \in DOMAIN stack : stack[k].idx = i /\ stack[k].kind = kind

\* "Whichever state is forgotten, the choice is invisible": what is cached for
\* a state is the expander's answer for that state.
CachedIsTheAnswer ==
  \A i \in Pool :
    LET n == store.pool[i]
    IN  /\ "FINAL" \in n.flags => n.final = IsFinal[n.id]
        /\ n.arcs = IF "ARCS" \in n.flags THEN Targets[n.id] ELSE NoArcs

\* Arcs in a reader's hands stay in the cache, so a second reader shares them.
PinnedStayCached ==
  \A s \in Id : pins[s] > 0 =>
    NodeOf(store, s) # None /\ "ARCS" \in store.pool[NodeOf(store, s)].flags

\* With collection on, the cache exceeds its limit by one bare node at most,
\* between an allocation and the next sweep.
Bounded == Gc => store.size <= store.limit + StateSize

\* The limit grows only when the sweeps ended with nothing left they may take,
\* and shrinks only in a clear.
LimitGrowsLast ==
  [][/\ store'.limit > store.limit =>
          \A i \in DOMAIN store'.pool :
            \/ Pinned(i, store')
            \/ store'.pool[i].flags \cap Expanding # {}
            \/ \E k \in DOMAIN stack : stack[k].idx = i
     /\ store'.limit < store.limit => store' = EmptyStore]_cacheVars

\* The start and every target of cached arcs are known states.
KnownCovers ==
  /\ cache_start # None => cache_start < known
  /\ \A i \in Pool : LET arcs == store.pool[i].arcs
                     IN  arcs # NoArcs => \A k \in DOMAIN arcs : arcs[k] < known

\* Below the cached bound every state has been expanded.
ExpandedBelowMin == \A s \in 0 .. expanded.min - 1 : s \in expanded.set
-----------------------------------------------------------------------------
(***************************************************************************)
(* What a caller may rely on, from the parts above                         *)
(***************************************************************************)

\* Pool, map, list, hand and byte count describe the same nodes, whatever the
\* sweeps, the fills and the removals did to each in turn; and an expansion and
\* the node it works on belong to each other: the slot is still the state's when
\* the call returns, and no flag outlives its call.
StoreIsCoherent ==
  /\ CacheTypeOK
  /\ Coherent
  /\ SizeIsExact
  /\ ExpansionsKeepTheirNodes
  /\ FlagsHaveExpansions

\* "Whichever state is forgotten, the choice is invisible": no eviction,
\* re-entrance or panic shows.  What is cached is the expander's answer, what a
\* reader holds stays, and the bounds the cache remembers past an eviction cover
\* what it ever answered.
EvictionIsInvisible ==
  CachedIsTheAnswer /\ PinnedStayCached /\ KnownCovers /\ ExpandedBelowMin

\* The size stays at the limit, and the limit only gives way when nothing can.
LimitsHold == []Bounded /\ LimitGrowsLast
=============================================================================
