# A TLA+ verification of sicada

sicada is a port of OpenFst to Rust: weighted finite-state transducers, the
algorithms on them, and a decoder built on both. This directory holds TLA+
modules translated from its code, TLC configurations that check them on small
instances, and theorems proved with TLAPS. `PROJECT.json` maps the definitions
that model code to the lines they stand for; a helper of a line or two goes with
the definition that uses it.

Everything in sicada runs on one thread. What makes it hard to test is
something else:

- **re-entrancy**: lazily expanded automata change their caches through `&self`,
  and an expander calls back into the cache that is calling it;
- **long legal call sequences** over hand-made data structures: windows, keys,
  free lists, a sweeping hand, retained buffers with wrapping run numbers;
- **knowledge kept apart from the data**: property bits, epsilon counts and
  marks of what is queued are derived from operations, not from the automaton;
- **order**: epsilons in composition, visitors' callbacks, relaxation under any
  queue, hash maps walked in an order nobody states;
- **what ends**: state iterators over growing automata, relaxation, searches.

States of automata are numbered as in the code, from 0, except in `VectorFst`,
`Views` and `Compose`, where sequences make it 1.

## 1. Inventory

Paths are under `src/`; `sicada/src/` holds the library, `sicada-decode/src/`
the decoder.

| Component | State it keeps | Operations | What makes it correct | Modules |
|---|---|---|---|---|
| Arc arena, `memory/arc_arena.rs` | blocks, a run in progress, sizes | reserve, push, commit, drop, clear | a committed run keeps resolving to its arcs; runs never overlap; clear keeps no more than its cap | `ArcArena`, `ArcArenaProofs` |
| Expander caches, `expander_cache.rs`, `fsts/expander_fst.rs` | table of states, one scratch builder | expand with, view, iterate, clone | views stay valid; contents appear whole and never change; iteration covers what is discovered | `Memo`, `ExpandWith`, `ExpanderCache`, `ArcArenaStateStore` and three proof modules |
| Evicting cache, `cache.rs` | pool, map, linked list, hand, limit, flags | expand, read, evict, clear | coherence; protection of what is read or being expanded; eviction is invisible | `GcCache`, `GcCacheProofs` |
| Indexed heap, `data_structures/indexed_heap.rs` | elements, positions, free list | insert, update, pop, clear | it is a priority map with stable keys | `HeapOps`, `IndexedHeap`, `PriorityMap` |
| Queue disciplines, `queue.rs` | windows, heaps, keys, thresholds | enqueue, head, dequeue, update, clear | nothing lost or invented; least rank first | `WorkSet`, `TopOrderQueue`, `StateOrderQueue`, `SccQueue`, `ShortestFirstQueue` |
| Searches, `algorithms/dfs_visit.rs`, `visit.rs`, `cc_visitors.rs`, `topsort.rs`, `connect.rs`, `data_structures/union_find.rs` | stack or queue, colours, the visitor's arrays | turns of the search, visitor callbacks | components, access, bits and order are those of the graph; a visit meets what its queue says, a copy has what it met | `Visitors`, `VisitorsProofs` |
| Sampling, `algorithms/randgen.rs` | a tree of prefixes, draws left in each | select, follow, stop | every path drawn is one of the automaton's, and the draws add up | `Visitors` |
| Shortest distance, `algorithms/shortest_distance.rs` | distances, residuals, marks, run number | runs over a queue, buffers retained or cleared | distances are path sums; marks say what is queued; a run ends | `ShortestDistance`, `ShortestDistanceProofs` |
| Shortest path, `algorithms/shortest_path.rs` | distances, the arc each state was reached by; a tree of paths, a heap, how often each state was taken | search and read back; the lightest several; those that spell different strings | the paths answered are the lightest there are | `ShortestPath` |
| Determinization, `algorithms/determinize.rs` | weighted subsets, states to expand, their distances | expand a subset, label by label | one arc per label, every string's weight kept, distances right | `Determinize` |
| Composition, `algorithms/compose.rs`, `compose_filter.rs`, `lookahead_*.rs`, `label_reachable.rs`, `state_reachable.rs`, `interval_set.rs`, `accumulator.rs`, `data_structures/state_table.rs` | state table, stack, filter's memory, an index of what each state can reach | expand a state, match, filter, look ahead | each pair of paths that meet, once where the filter orders epsilons; looking ahead drops only what leads nowhere | `Compose` |
| Matchers, `matcher.rs` | inner matcher, position, what it remembers of a state | set state, find, next, priority, clone, labels added and removed | a search answers what its label means | `SortedMatcher`, `ImplicitMatcher` |
| Property bits, `properties.rs`, `algorithms/test_properties.rs` | a word of trinary bits | one rule per operation, the scan | no bit is false | `VectorFst` |
| Mutable automaton and rational operations, `fsts/vector_fst.rs`, `algorithms/{union,concat,closure,reverse,invert,project,relabel,arc_map,arc_sort,state_sort,...}.rs` | states, arcs, counts, bits | mutation, rewriting | bits and counts follow the automaton; the result accepts what the operation promises | `VectorFst` |
| Other automata, `fsts/{edit,merge,complement,const,compact}_fst.rs`, `any_fst.rs`, `add_on.rs`, `utils/io.rs` | edits beside what is wrapped; one block of arcs; compacted elements | edit, read, write, load | the view says what the automaton it stands for says | `Views` |
| Rewriting, `algorithms/{push,reweight,encode,factor_weight,state_map,synchronize,epsnormalize,rmfinalepsilon,disambiguate}.rs` | potentials, tables of codes, residues | one call each | the weighted language is kept, and the result has the form promised | `Rewriting` |
| Minimizing, `algorithms/minimize.rs`, `data_structures/partition.rs` | a partition, its queue of classes | split by a class and a label | classes are those of equivalent states | `Rewriting` |
| Comparison, `algorithms/{equal,isomorphic,equivalent}.rs` | pairs met so far | compare two automata | the answer is the relation the name promises | `Rewriting` |
| Epsilon removal, `algorithms/rmepsilon.rs` | states still to expand | expand one state after the other | each string keeps its weight | `RmEpsilon` |
| Networks and recipes, `algorithms/{replace,replace_util,rational}.rs` | a table of call stacks; a call graph; a recipe | expand, replace labels, connect; union, concat, closure | the expansion accepts what the calls spell | `Replace` |
| Trellis and alignment, `trellis.rs`, `align.rs`, `occupancy.rs` | two rows of scores, packed codes | best path, posteriors, align, spans | the path is the best, the posteriors are sums over paths | `Trellis` |
| Decoding and lattices, `viterbi.rs`, `lattice.rs`, `frontier.rs`, `ctc.rs`, `compact.rs`, `algorithms/prune.rs` | frontier, budget, links, lattice states | a frame, an arc, a prune, a retry | the answer is a run of the graph within the beam; the lattice is what survived | `BeamSearch`, `Decoder` |
| Weights, `weight.rs`, `weights/*.rs` | | plus, times, divide, reverse, ... | the semiring laws each claims | `Weights` |
| Tables and sets, `symbol_table.rs`, `symbol_table_ops.rs`, `data_structures/{bi_table,bit_set,compact_set}.rs` | entries by id, ids by entry | add, remove, find, merge | what was put in is answered whichever way it is asked; a symbol keeps the key it was given; no id is given twice until a clear | `Tables` |
| Text formats, benchmarks, vendored upstream | | | not modelled: pure I/O, measurement | |

How they interact. An `ExpanderFst` owns a cache and calls its expander, which
may read the same automaton (a callback through `&self`); the arena cache writes
through the arena. The evicting cache is what delayed automata of the OpenFst
kind use. Shortest distance drives one queue discipline and owns the marks that
decide between `enqueue` and `update`; a shortest-first queue reads the caller's
distances through its comparator, so it is the caller that disorders the heap.
Shortest path is a search of the same kind, by the same queues; for several
paths it runs shortest distance, reverses the automaton and searches the reverse
with the distances as its guide, and for different strings it first determinizes
the reverse, which hands on the distances of its own states. The top-order and
component queues take their order from the depth-first visitors; `connect` and
`top_sort` act on what the visitors leave. Composition asks two matchers and a
filter, and a filter that looks ahead asks an index of the other side. Union,
concatenation, closure and the mappers go through the mutable automaton's
operations and then set property bits by the rules in `properties.rs`; the
delayed forms of the same three build a recipe, a small network, and expand it
as `replace` does. Pushing asks for shortest distances and reweights;
equivalence pushes, determinizes and compares; minimizing pushes, encodes and
refines a partition; synchronizing, factoring and disambiguating are subset
constructions of their own. The lattice decoder prunes what it built by
shortest distances and collapses it through epsilon removal and determinization
over a pair of a cost and a string, and retries with a narrower beam when that
grows too large. A trellis is what forced alignment and occupancies are read
from.

## 2. Modules

Several runs put components side by side: a variable `kind` (`part` in some) is
chosen at the start and never changes, each behaviour drives one component, and
the variables of the others keep one value.

**`ArcArena`** has one action per method of the arena: `ReserveArcs`, `PushArc`,
`CommitArcs`, `DropArcs`, `Clear`. A run is a plain value (block, start, length)
as in the code, where nothing ties it to its arena. History variables remember
what each run held when committed (`issued`) and since which clear (`epoch`).

**`ExpandWith`** is the protocol all expander caches share: one scratch builder is
lent to an expansion, which writes arcs one at a time, and between two arcs
anything may happen, including another expansion, of the same state too, and a
panic. `ExpanderCache` adds the boxed table (vector or hash), and
`ArcArenaStateStore` the arena with its `job`, the copy of a finished expansion,
whose steps are the arena's own actions. `Memo` is the abstract specification of
all three: the first contents published for a state stay. The state iterator of
`fsts/expander_fst.rs` is part of `ExpandWith`. `MCCompose` puts the three side by
side for the run.

**`GcCache`** holds slots, map (dense below a limit, hashed above), list, hand,
byte count and limit as in `CacheStore`, expansions on a stack, and readers' pins
as reference counts. The sweep is one operator, since it calls nothing back.

**`HeapOps`** gives the heap as operators on a value, used by every module whose
state holds one; `IndexedHeap` is a heap on its own, with `PriorityMap` as the
abstract specification. One word per key holds a position or `FREE_FLAG` plus the
next free key, as in the code.

**Queues.** `TopOrderQueue`, `StateOrderQueue`, `SccQueue` (with trivial, FIFO,
LIFO and shortest-first queues inside), and `ShortestFirstQueue` with the three
queues that wrap one: the filter, and the two pruning queues, by weight and by a
naive count of steps. The caller is part of the last four: distances that fall at
any time, a mark per state, and the choice between enqueue and update made as
`shortest_distance` makes it. `WorkSet` is the abstract specification: a set of
states, answered by least rank.

**`Visitors`** has one action per turn of a loop of `dfs_visit`, with roots swept
over a known or a discovered number of states; the component, topological-order and
connected-component visitors (the last over a union-find, ranks and path
compression included) conjoin what they do at that turn. `visit` is the same loop
in the order of a queue, with a filter and the copying and counting visitors. What
`AutoQueue` chooses is an operator on what the component search found. `rand_gen`
draws any way the selector may fall (the probabilities are not modelled, what a
draw adds up to is).

**`ShortestDistance`** has the begin of a run, an expansion, a relaxation of one
arc in any order, and the ways to end, over any semiring and any queue
discipline ("any", "shortest first", "state order"). Entries of retained buffers
carry the number of the run that claimed them; when the number wraps every
entry is unclaimed, as in the code.

**`ShortestPath`** is the search for one path and the reading back of the arcs it
remembers, one arc at a time; and, from the reverse, the search for several: each pair
is a path from some state to the end, made from another pair; taking one from the
heap drops it, answers it or makes it grow. **`Determinize`** expands the subset reached
last, and then builds one arc per label. `MCPaths` passes them what the calls
before them compute (the reverse, the distances) and hands what `Determinize` built
to the search for several, as `shortest_path_unique` does. It also drives the trellises
and decoders that `MCDecoding` sets up, whose own root serves `epsilon_budget`.

**`Compose`** builds the result state by state, walking one side's arcs and
matching on the other, as `compose_with` does. The tables that number a tuple by a
fingerprint are checked beside the one it uses. The filters are functions on a
filter's memory; the three that look ahead stand on one of them and ask the index
of labels (`label_reachable.rs`) or of final states, which is built over intervals
and read through the accumulators. `SortedMatcher` is the search in a sorted list,
with the implicit loop on epsilon, as `Compose` uses it, and the matcher that hashes.
`ImplicitMatcher` models the rho, sigma, phi, multi-epsilon and explicit matchers
over a sorted one, with what each constructor sets up and each clone forgets.

**`VectorFst`** holds the masks and rules of `properties.rs` (a property word is a
set of bit names), the operations of the mutable automaton with the rule each
applies, the scan that settles unknown bits, and the algorithms built from them:
union, concat, closure, reverse, invert, project, relabel, arc and state sorting,
super-final and eight mappers. The constant `Careless` says which calls callers make
that the bits are known not to survive (section 6): it is empty in the run that
passes.

**`Views`** has automata that are other automata in another shape: `EditFst` beside
what it wraps, `MergeFst`, `ComplementFst`, `ConstFst`'s one block and `CompactFst`
with its compactors; and the files of all of them, with the alignment of what
follows a header and the tags by which a file is read as the type it was.

**`Tables`** has the symbol table, dense below a key and mapped above, the five tables
that number entries, the bit set and the sorted set, each driven by its calls beside
what they are to mean (`truth`). For entries that is the history of every id given
since the table was made or cleared, erased or not, so that an id given again shows.
For symbols it is the key each was given. As in the code nothing stops a caller from
giving a new symbol a key that another has: both go on saying that key, a dense row hides
the later symbol and the map forgets the earlier, and removing the key leaves a symbol
whose key names nobody. A file then has fewer rows than it counts and cannot be read
(`Readable`), and the iterator would stop the program (`Iterates`); so what iterates
(text, pruning, compacting, appending, merging) is asked only of tables all of whose
symbols have keys of their own, while look-ups, sums, removal and the binary file are
asked of every table.

**`Weights`** gives every weight of `weights/` as operators over a KIND of weight, so
that an algorithm written over `Plus(kind, a, b)` is written once, as the generics
are. **`Rewriting`** is the algorithms that take an automaton to an automaton, as
operators; minimizing, whose partition is refined one move at a time, as actions;
and the three comparisons. **`Replace`** extends it with networks, their call graphs
and the recipes. **`RmEpsilon`** removes epsilons state by state.

**`Trellis`** fills its rows cell by cell and packs the codes as it goes; alignment
(`align.rs`) is a trellis with a meaning given to its codes. **`BeamSearch`** says
which states a frame-synchronous search keeps alive and at what cost; **`Decoder`**
is both decoders, an arc at a time, with the budget of the epsilon queue, the links
and the traceback, CTC graphs, pruning in place or into a copy (by weight, there by
a limit on the states too), and the collapsing of a lattice with its retries, and
implements `BeamSearch`.

Proofs are kept beside what they are about: `ArcArenaProofs`, `ExpandWithProofs`,
`ExpanderCacheProofs`, `ArcArenaStateStoreProofs`, `GcCacheProofs`,
`TopOrderQueueProofs`, `VisitorsProofs`, `ShortestDistanceProofs`.

## 3. Runs

| Run | What it shows |
|---|---|
| `memory` | The arena and the evicting cache. Committed runs resolve to their arcs while blocks grow and the run in progress moves; clear recomputes what it retains (`ClearRetains`). Pool, map, list, hand and byte count describe the same nodes; an expansion keeps its slot; no eviction shows in what readers hold; the limit gives way only when all is protected. Tables and sets answer what was put in, whatever keys are given twice, and an id is given once. |
| `queues` | Each discipline: windows hold everything, heaps and keys agree, marks agree with contents, `WorkSet` and `PriorityMap` are implemented, wrappers refuse and drop by what happened. |
| `automata` | Calls in any order: no bit false, counts follow arcs, scans settle what is asked, algorithms accept what they promise; views and files say what they stand for. All automata of three states (listed upwards and downwards, from every start), searched: Tarjan's invariant, components and their order, what `connect` keeps, bits, topological order, connected components where nothing is reached twice, termination; and visited by a queue, copied, and drawn from; the queue chosen for each fits it. |
| `paths` | Distances are path sums over a lightest-path and a path-counting semiring, marks match the queue, convergence is closed under relaxation, shortest-first expands once. The path read back is one of the automaton's and none is lighter; the several answered are different, in order, and weigh what a list of all paths says, under both thresholds and with loops of no weight; the determinized reverse spells the same strings at the same weights. Every call returns. Trellises solved against every path; both decoders under beams and caps, in every order of their maps, against `BeamSearch` and every run of the graph; lattices against what survived; compacting with its retries says each string once. |
| `composition` | All pairs of small acyclic automata full of epsilons by each filter and side, looking ahead or not: paths of the result correspond to pairs of paths that meet. Two cyclic automata: no state is built twice. Matchers, indexes and accumulators: every search answers, in order, what its label calls for, whatever was asked, cloned or relabelled before. The three expander caches under nesting, panics and clones: views valid, `Memo` implemented, iteration complete. |
| `rewriting` | The laws of every kind of weight on triples of a sample; each rewriting, and some pairs of them, against the weighted language; networks and recipes against what their calls spell; epsilon removal in every order; minimizing one move at a time; comparisons of all pairs of a set. |
| `connected_components`, `union_after_scan`, `epsilon_budget`, `nondeterministic_minimize`, `equivalence`, `available_key` | Each finds the code disagreeing with a sentence of its documentation: section 6. |

### Bounds, and why they are enough

- *Arena*: blocks of two arcs, a cap of three on what clear retains, four pushes,
  three runs, one clear. A run in progress can move to a new block after another
  run was committed in the old one, twice, and a block can be larger than the
  cap or smaller.
- *Evicting cache*: three states of different sizes, one beyond the dense map,
  two nested expansions, one guard per state; a limit that two states fill, so
  that nearly every expansion sweeps and some find everything protected. Clears are
  not bounded.
- *Tables*: four symbols of which two hash alike, keys with a gap and two that are
  negative; three symbols where a key is shared (`MaxSharing`), which all may share, and
  any of which may be removed or outlive its key; three entries and up to six ids given
  between two clears, so that each is erased and met again; words of two bits (`WORD_BITS`; 64 in the
  code), so that three words are in use.
- *Expander caches*: three states, of which 0 and 1 reach each other and
  themselves, three nested expansions, one panic. Expansions of one state nest in
  themselves with different answers; blocks of two arcs make states straddle.
- *Queues*: seven states in four components, one per inner discipline, three of
  them sharing the heap; three or four states and distances up to 3 for the
  queues ordered by weight; five elements in the heap (three levels), keys reused.
- *Searches*: three states and every set of arcs, with targets listed upwards or,
  for the first two states of an expanded automaton, downwards. A state closed late that reaches a closed component, cross arcs
  between trees and the sweep over discovered states all need three. Visits, and
  draws of two or three paths, are over a part of them (`Visited`).
- *Shortest distance*: four states, two ways to the last with ways across and
  back and loops of weight One. `NO_RUN` is 2, so the run number wraps every
  second run. `Inf` is above every path's weight.
- *Shortest paths*: the same automata with final weights, a start missing, and the
  first path asked for or not. For several paths, every acyclic shape whose middle
  states lead on and six with loops, of which some cost nothing; one to three
  answers, by a threshold on weight or on states (one answer by a threshold goes
  through the search for several, as the driver sends it). `MaxArcs` bounds the paths the answers
  are compared with, not the search. At most six states are determinized, which
  a shape whose cycle cannot be determinized exceeds.
- *Composition*: one side with up to three states in line and a way round, the
  other with two steps, labels epsilon and 1; epsilons on both sides in every
  arrangement, final states in between. Weights name arcs, so a path of the
  result tells which two paths made it. Looking ahead: chains of three states;
  graphs of three states and intervals up to 4 for the index; sums of one or two
  masses over lists of at most five arcs.
- *Matchers*: two states, for phi three; labels that are epsilon, ordinary, special
  and two that may be taken as epsilon, up to two arcs with one label. Searches,
  clones, changes of state and of labels are not bounded.
- *Mutable automaton*: three calls after one of nine automata that the operations
  built, at most three states and three arcs, a second automaton out of three.
- *Views*: three calls on the first and the last state, strings of at most two over
  two labels, an alignment of four cells.
- *Weights and rewriting*: a sample per kind with Zero, One, both infinities and two
  or three more; automata of at most four states, over two labels, with weights of
  each kind where the algorithm allows it. `MaxLabels` 6 bounds the strings of the
  languages compared, `MaxSpelled` 3 what a network spells, `MaxArcs` 40 and
  `MaxElements` 24 the residues that factoring and synchronizing may make; an input
  for which a call does not end (a cycle it does not promise to survive) is not asked
  (`Allowed`). Networks: a root and two rules out of a list, with four ways to label
  calls and returns; recipes: three calls over four operands.
- *Minimizing*: every automaton of a set up to eight states, of which some are
  cyclic, some weighted, some not deterministic.
- *Trellises*: up to six frames and four positions, so that both rows are used
  again and a byte of codes fills; chains with skips for alignment.
- *Decoding*: graphs with epsilons, cycles of them and words said late; beams that
  cut, caps that tie, up to three frames; two rounds (`Rounds`) of collapsing with a
  narrower beam. Costs are small whole numbers, so that ties happen.

`MaxRuns`, `MaxPushes`, `MaxEpoch`, `MaxReserve`, `MaxDepth`, `MaxPanics`,
`MaxPins`, `MaxSharing`, `MaxIds`, `MaxDist`, `MaxLen`, `MaxStates`, `MaxArcs` and `MaxCalls` are bounds of
the model and appear in guards only.

Deadlock is not checked where a behaviour really ends: a search that is done, a
composition that is finished, a caller out of calls.

### Fairness

- `automata`: weak fairness of the next step of a search. It is one loop on one
  thread; nothing else runs until it returns. Nothing is assumed of the callers that
  change automata.
- `paths`: weak fairness of steps while a call or a decoder's search is going on, for
  the same reason. Nobody has to start another run over retained buffers.
- `composition`: an expander that is running goes on (weak fairness of writing an
  arc and returning) and the caller's loop over the states goes on. Nothing is
  assumed of other callers, and panics are bounded.

The other runs check safety only, and assume no fairness.

## 4. Proofs

Theorems hold for every value of the constants under the hypotheses they name,
which are the assumptions TLC evaluates on the instances.

**`ArcArenaProofs`** (from `ArenaAssumption`: sizes are naturals, a block is not
empty). `TypeCorrect`, `CommittedRunsStayValid`, `CommittedRunsDoNotOverlap` and
`ClearsRetain`.
That live runs keep their arcs is not inductive alone: dropping a run and moving
to a new block cut the block at the start of the run in progress, so the runs
must be known to lie below it, and a clear makes every run stale, so no run may
be dated in the future. The invariant `ArenaInv` is the types with the bounds on
offsets, `RunsAreDated`, `LiveRunsKeepTheirArcs` and `LiveRunsDisjoint`. Lemma
`Stretch` says what a slice of a grown block is, `NewBlockKeepsRuns` carries the
runs over the move, and `ArenaStep` has one step per action. What clear keeps needs
an invariant of its own, `SizeInv`: the size is the capacity of the live blocks
(`CapacityGrows` is an induction over them), and it is above the size of the first
block once there is a second (`FirstBlockFits`), which is how clear tells an arena
that has grown.

**`ExpandWithProofs`** has what the three expander caches share. `ProtocolInv` says
of every expansion under way, innermost or waiting, that the builder holds exactly
what its own calls have written so far, which is a prefix of one of the answers its
expander may give (`FramesDoNotMix`). One lemma per step of the protocol keeps it
(`ExpandKeeps`, `WriteKeeps`, `HandBackKeeps`, `PanicKeeps`, `IterKeeps`), and
`ProductIsTheAnswer` says that what is handed back is a whole answer.

**`ExpanderCacheProofs`** (from `ExpandAssumption`; both tables, dense and hashed).
To `ProtocolInv` is added that a slot once filled names a box that holds the
contents it was filled with, and that views are of such boxes. `BoxedTypeCorrect`,
`BoxedBuildersDoNotMix`, `BoxedViewsStayValid`, `BoxedIterationExpands`, and
`BoxedIsAMemo`: every behaviour, clones included, is one of `Memo`.

**`ArcArenaStateStoreProofs`** (from `ExpandAssumption` and `ArenaSizes`) proves
the same of the arena's table: `StoreTypeCorrect`, `StoreBuildersDoNotMix`,
`StoreViewsStayValid`, `StoreIsAMemo`. The arena is used through its own invariant
and the lemma of each of its actions only. `StoreInv` is `ProtocolInv`, `ArenaInv`,
that each state in the table is a live run that resolves to the contents published
(`TableInv`), that views name such runs (`ViewsInv`), and what the copy under way has
copied so far (`JobInv`): the arcs it still owes are in the builder, those it has
pushed are the run in progress. A clone is the longest argument: while it copies
one state after the other, old and new runs lie in one arena.

**`GcCacheProofs`** (from `CacheAssumption`): `StoreStaysCoherent`,
`EvictionStaysInvisible` and `LimitsAreKept`, the three properties that the run
`memory` checks of the evicting cache. The invariant `CacheInv` has six parts.

- `Sound`: the list is linked both ways from head to tail, the map and the nodes in
  use name each other, and the size is the sum over the nodes. That a list whose
  links agree has no cycle apart from it needs more: a rank falls along the links, so
  that the whole of the pool in use lies on it (`ListIsWhole`, by counting).
- `Owned`: an expansion under way has a node of its own, with its flag set, and a
  flag set has its expansion. `Shared`: a node that a reader holds is in the map and
  has its arcs. `Covered` and `Bounds`: what has been expanded and how many states are
  known. `Bounded`: the limit, and what may exceed it.

A sweep is one operator that goes round the list, so its lemma is one of survival:
what it may not take it leaves, and what it leaves it leaves as it was, the visited
mark aside (`SweepRule`, `SweepSurvives`). That it need not give up while something
may be taken is the argument of `SecondSweepIsThorough`: the turns a hand still has
to make are counted by the rank of where it stands, the first round clears the
marks, and the second takes what is left. `TargetIsBelow` and `GrownFits` then say
that the size is below the limit after a sweep or the limit has grown to the size,
and only when everything left was protected.

**`TopOrderQueueProofs`** (from `OrderAssumption`: the order numbers the states
one to one). `NothingQueuedOutsideTheWindow`, `HeadOfAWindowIsAState`, and
`TopOrderIsAWorkSet`: the queue implements `WorkSet`, initial states to initial
states and every step to a step or a stutter. The invariant `WindowInv` adds to the
window's two properties that a state sits only in its own slot (`SlotsAreOrdered`),
without which the least position would not be the least rank.

**`VisitorsProofs`** (from `FstsAssumption`: at least one state, any arcs in any
order, a start or none). `StackIsAlwaysAPath`, `SearchReachesAll` and
`OrderIsAlwaysTopological`; the last is the part of `VisitorsAnswerRight` that speaks
of topological order. `SearchInv` holds whatever the visitor, which at most stops
the search. Besides the path on the stack it says that the arcs a frame has behind
it lead to states that have been met (`FramesWalk`), that unless it was stopped a black
state leads to states that have been met (`BlacksLeadOn`), and that no state before the
root of the sweep is white (`RootsSweep`).

`SccInv` adds Tarjan's argument, and from it come `OpenStatesAlwaysReachTheStack`,
`ComponentsAreAlwaysRight`, `ConnectAlwaysKeepsSuccessfulPaths` and
`SccPropsAreAlwaysTrue`: with the one above, every part of `VisitorsAnswerRight`
that speaks of the component search. Its parts, in the order they lean on each other:

- the numbers: frames are ordered by theirs, no two states met share one
  (`FramesAreOrdered`, `StatesAreNumbered`), and the component stack holds the open
  states in that order (`OpenStatesAreStacked`);
- the ways: a grey state leads to all that was met after it (`GreyStatesLeadOn`), and an
  open one to a grey state met no later (`OpenStatesWait`), so that the states from a
  frame upwards are one component once nothing there leads below it; an arc already
  taken leads to a state met no later than what was opened since (`TakenArcsLeadBack`);
- the links: a link is the number of an open state that its state leads to
  (`LinksAreKnown`), and the link of the grey state that an open one waits for is no
  higher than any arc taken there (`LinksAreLow`): so it learns whether something leads below;
- what is closed: its components are numbered without a gap, are whole, and lead to
  no later one (`ClosedAreNumbered`, `ClosedAreComponents`);
- what is read off on the way: access, co-access, which a component shares, and the
  bits (`AccessIsKnown`, `CoaccessIsKnown`, `PropsAreKnown`). A cycle is known by the arc
  that closes it or by two states of one component; that a cycle through the
  start shows as a back arc to it is `StartIsOnNoCycle`.

That a state leads nowhere outside a set its arcs stay in (`ReachStaysInside`) takes
the place of inductions over paths.

`TopInv` adds the order: of a finished state, all that its arcs lead to finished before
it (`FinishedInOrder`), what a frame has behind it is finished or the frame above it
(`FramesLeadBack`), and a search that was stopped was stopped by a cycle
(`StoppedByACycle`). That a finished
state lies on no cycle then needs reachability to be what its name says: it is
computed in as many rounds as there are states, and `ReachExtends` shows by counting
that another round adds nothing, from which `ReachJoins` has that it is transitive. The
lemmas are stated once, for the paths of any relation (`Leads`, `PathsExtend`,
`PathsJoin`).

On top of `SccInv`, `ChosenQueueAlwaysFits` (from `FstsAssumption` alone: any weights, any
ring, any bits that are true) is the reason `AutoQueue` may drain an automaton a
component at a time. It needs one fact more of the search, `NumbersAreUsed`, that every
number handed out is that of some component; the two loops of `scc_queue_types` are
recursive functions, and what they compute is shown arc by arc (`StayingFits`,
`LeavingFits`, `StateIsLookedAt`, `StatesAreLookedAt`): at each arc the disciplines say
what the arcs before it allow. A component without an arc inside is one state
(`TrivialIsOne`), by the order of the numbers.

`CcInv` is about the union-find of the connected components, and from it comes
`UnionsAreAlwaysJustified`: a set never holds states that no arcs connect, and every
parent is an index, the comment on which `find_set` rests its unchecked accesses. It
adds to `SearchInv` that each element and its parent are joined by arcs taken either
way, and that the parents are a forest (`IsForest`). The forest is stated without
trees: every nonempty set of elements has one whose parent is itself or lies outside.
So going up from any element ends (`WaysGoUp`, by well-founded recursion), the root it
ends at is its own parent and is joined to it (`RootsAreRoots`, `RootsAreJoined`), and
hanging one root under another, pointing a way at its root, and adding an element keep
it (`HangingKeeps`, `CompressKeeps`, `MakingKeeps`). The converse, that what arcs
connect ends in one set, is false: the first finding of section 6.

`VisitInv` (from `FstsAssumption` and `WaysAssumption`: any filter of arcs, any limit) is
about the visits in the order of a queue, and from it come `VisitsAreAlwaysInOrder` and
`CopiesAlwaysHoldWhatIsMet`: all that `VisitorsAnswerRight` says of visits. Its parts:

- the lists: what was met, has finished or waits, each once (`StatesAreListed`), the
  limit as far as it was drawn (`LimitIsDrawn`), and the sweep of the roots, the same as
  above unless one tree is all (`TreesSweep`);
- the arcs: those a state has given up and kept lead to what was met, and a finished
  state has none left unless the visit was stopped (`ArcsAreFollowed`); with one tree,
  what was met is what the start leads to (`MetAreReached`);
- the stack: each state in it leads to those after it (`StackDescends`), so that what is
  grey when a state finishes leads back to it, and what is not has finished before it
  (`FinishesInDepth`);
- the queue: what was met is what finished and then what waits, and of each level of the
  automaton, either what was met is all within it, or all of it was met and came first
  (`LevelIsMet`, `MeetsByLevels`): a state met from the head is at most one level further
  than it, and by then the head's own level has all been met;
- the copy: for each state, the kept ones among the arcs it has given up, in their order
  (`CopyIsKept`).

**`ShortestDistanceProofs`** (from `SemiringAssumption`: a commutative Plus with
Zero, a Times that distributes from the right; `SetupsAssumption`;
`NoRunAssumption`: the mark of an untouched entry is some number above 0).

- `MarksSayWhatIsQueued`: the marks and the queue agree through retained
  buffers, wrapping run numbers and runs stopped early. `BufferInv` adds that no
  entry bears the number of a run to come (`MarksAreDated`), and that an entry
  claimed has its adder at its distance, and no residual unless it waits
  (`EntriesAgree`).
- `ConvergedDistancesAreClosed`: over an idempotent semiring, no arc improves a
  distance once the queue is empty. Here the inductive part is `PassedOn`: a
  distance is what its state has passed on and what it still holds in its
  residual, and every arc has carried all its state passed on, but for the arcs
  the expansion under way has not yet followed.
- `DistancesAreLeast`: distances never pass below any function closed under the
  arcs (`BoundedBy`); with the theorem before, a converged run computes the least
  one. Idempotence is a hypothesis of these two theorems and not of the first.

What stays with TLC, and why.

- Liveness (`Terminates`, `CallsReturn`, `IterationEnds`, `SearchEnds`): the prover
  has no ENABLED.
- Exactness against path sums, and every property that compares with a language or a
  list of all paths (`DistancesAreExact`, `BestPathsAreFound`, `ComposedPathsAreRight`,
  `AnswersAreRight`, `TrellisesAreSolved`, `RewritingsSayTheSame`, ...): inductions over
  paths or strings.
- Weights, rewriting, networks, views, bits: operators with folds and recursion in
  them, whose results are data of any size.
- `ViewsStayValid` and `MemoSpec` of `composition` speak of the three caches at once;
  each cache has its theorem. The same holds of `QueuesAreWorkSets` and the window of
  `TopOrderQueue`.
- The heaps: that sifting keeps the order is an induction over the levels.
- Of the searches, the draws at random: sums and counts, checked over automata of three
  states. So `VisitorsAnswerRight` is not proved as a whole.

## 5. Properties worth a word

- `EvictionIsInvisible` and `LimitsHold` state what the comments of `cache.rs` call
  invisible and the limit, against nested expansions of the very state being swept.
- `OpenComponentsLeadBack`, a part of `VisitorsAnswerRight`, is the reason Tarjan's
  algorithm is right, and fails many steps before a component is reported wrongly.
- `ComposedPathsAreRight` compares with a definition of composition on paths, not
  with another construction.
- `BestPathsAreFound` compares the answers with a list of all paths, and includes
  `ParentsExplain`: while the search goes on each state's remembered arc explains
  its distance, or comes from a state that has come nearer since and still waits. That is
  what keeps reading back from going round, though the arcs were remembered at
  different times and the search may stop early.
- `PropsAreTrue` compares every bit with its meaning on the automaton at every
  moment; the rules never look at the automaton.
- `KeepsToTheBeam` is a refinement: whatever order the decoder's maps are walked in,
  what is alive after a frame is what `BeamSearch` says, at the cost it says.
- `ClassesAreRight` speaks of every partition on the way, `MinimizingSaysTheSame` of
  the result: a splitter dropped from the queue shows in the first long before.
- No termination property is stated of composition: `StatesAreBuiltOnce` and the
  finite set of tuples give it.

## 6. Where the code and its documentation part

Each of the first six has a run that shows it.

1. `connected_components`: `CcVisitor::init_state` makes a set of a state that
   `tree_arc` has joined already, and may take it out of its component.
2. `union_after_scan`: a scan of an automaton that has no start claims it
   acyclic; `set_start` keeps the claim, and `union` trusts it.
3. `epsilon_budget`: the decoder refuses a graph as one whose epsilons never settle
   though they have no cycle; last in, first out settles a state many times.
4. `nondeterministic_minimize`: `allow_nondet` keeps states together that are not
   equivalent, and the result accepts what the input did not.
5. `equivalence`: `equivalent` says that two automata differ where the start of one
   lies on a cycle, since pushing cannot move its weight.
6. `available_key`: documented as "the smallest positive contiguous key not yet
   assigned" (`symbol_table.rs:581`; "the next contiguous available key" at `:551`), it
   is one above the largest key added: 3 after one symbol at key 2. The upstream test
   (`tests/test_symbol_table.rs:52`) expects what the code does, and so does `memory`.

Without a run of their own:

*Memory and queues.*
- `arcs()` of the arena is documented to panic on a run from before a clear
  (`arc_arena.rs:137`); it resolves to whatever was pushed since, if the block is
  long enough.
- `FilterQueue` keeps the trait's empty `update` (`queue.rs:1333`), so a
  shortest-first queue inside is never told that a distance improved.
- `PruneQueue::update` lets in a state that `enqueue` refused (`queue.rs:1267`
  against `:1175`).
- `PruneShortestFirstQueue` with an arc threshold of 0 empties itself below its
  state limit (`queue.rs:546` against `:480`).

*Bits and counts.*
- Arcs rewritten in place leave the epsilon counts of their state as they were;
  `delete_arcs_n` subtracts from those counts, so they may pass below zero.
- A union into an automaton that has states but no start copies the other's bits
  over its own (`algorithms/union.rs:66`), although its own states remain.
- The input and output epsilon mappers claim epsilons of an automaton that has
  no arcs (`algorithms/arc_map.rs:358`, `:389`).
- The search that `reverse` ends with claims an automaton acyclic if there is no
  start; a union then fails as in 2. `test_properties.rs:515` asserts these
  vacuous answers, and a comment at `topsort.rs:112` avoids the same trap.
- `complement_properties` keeps both label-sorted bits of one side
  (`properties.rs:721`); `ComplementFst` claims its states accessible although the
  input's may not be.
- `MergeFst::new` claims the bits both parts have (`fsts/merge_fst.rs:111`), although
  two deterministic, sorted, acyclic or accessible automata joined need not be so.
- `replace_properties` claims cyclic, weighted, epsilon and not-an-acceptor bits from
  automata the root never calls, or from arcs whose labels the call erases, and
  sortedness although a return arc may precede a negative call label.
- `replace_util.rs:24`: components of the call graph are said left or right linear
  although the start is entered again or a final state has arcs onward.

*Searches and sampling.*
- `rand_gen` documents a path drawn twice as appearing once (`randgen.rs`), weighted or
  not; unweighted, each draw that stops adds an arc of its own to the final state.

*Shortest paths and determinization.*
- `shortest_path_unique` promises different strings; determinization takes epsilon
  for a label like any other (`determinize.rs:384`), so an acceptor with epsilon arcs
  may spell one string twice. The runs use acceptors without them.
- `ShortestDistanceState` leaves entries that bear the next run's number when it
  returns because a weight left the semiring (`shortest_distance.rs:281`).
- `prune` with a threshold on the states does not sift an entry that improved once
  the threshold is reached.

*Composition.*
- The loop of `MultiEpsMatcher` has NoLabel on both sides (`matcher.rs:1373`), so the
  filter that pushes labels writes label -1 where its documentation says epsilon.
- `CacheLogAccumulator` keeps its runs when it is initialised with another automaton.
- Looking ahead at arcs, a prefix may be reported although an epsilon way, which is
  not counted, exists beside it.

*Rewriting.*
- `isomorphic` maps two states to one: a state with arcs to two final states is
  isomorphic to one with both arcs to the same (`isomorphic.rs:132`, doc `:19`).
- `epsnormalize` refuses functional transducers that have useless ambiguous states:
  it asks before it trims (`epsnormalize.rs:97`, `:162`).
- `disambiguate` gives an acceptor of the input side when asked of a transducer.
- `replace_labels` refuses in a cyclic network although the labels to expand do not
  call each other, and leaves what it had expanded by then. `ReplaceUtil::connect`
  uses a call graph worked out before it trimmed; calls to automata that became empty
  remain. `update_stats` counts one arc per call though one returns from every final
  state. An empty recipe of `RationalFst` with something concatenated is that, though
  the empty recipe accepts nothing.

*Files.*
- `ConstFst::write` and `CompactFst::write` pad by the distance from where the
  automaton begins (`const_fst.rs:403`, `compact_fst.rs:536`), reading skips by the
  position in the stream (`io.rs:149`), so an aligned automaton inside an `EditFst`'s
  or an add-on's file is not read back. The run nests files without alignment only.
- `ConstFst::write_fst` writes the epsilon counts its source claims, `from_fst` counts
  them again.

*Decoder.*
- `compact.rs` says that a narrower beam can only make the determinization smaller;
  it may make it larger.
- `align.rs` (`with_skip_costs`) says a frame is dropped only when keeping it costs
  strictly more; on a tie it is dropped. `occupancy.rs:131` says the skip never wins;
  with a cost of 0 it may.
- `frontier.rs` calls the cap hard; what ties with the last token stays.
- `scale` of `nbest.rs` cannot say which alignment was best, since alignments are
  gone by then.

*Weights.*
- `UnionWeight` and `SetWeight` divide by Zero with a value, though `Divide` says no
  weight; tropical infinity less infinity is NaN; `GallicWeight` over a minimum is not
  commutative on ties; restricted strings and sets do not distribute over Zero;
  `CompactLatticeWeight::reverse` does not keep sums on ties. The laws checked are
  stated without these.

## 7. What is left out

- *Arena, caches*: nothing that changes their state; arcs are opaque in the
  arena, next states in the evicting cache. Unsafe pointers are modelled as what
  they must be to be sound: that views resolve.
- *Queues*: `OtherQueue` and the estimates of A*. The trivial queue appears inside
  `SccQueue` only, FIFO and LIFO there and in `visit`.
- *Pruning*: the threshold on the states where states are deleted in place (`prune_to`,
  which copies what it keeps, has it).
- *Searches*: the filter and `access_only` of `dfs_visit` (those of `visit` are
  modelled), `condense`, renumbering. *Sampling*: probabilities, and the rounding by
  which a weighted choice may miss the last arc and stop where it cannot.
- *Shortest distance*: growth of the buffers, a delta above zero, early errors,
  reversal and sums over final states.
- *Shortest paths*: a delta above zero, weights that leave the semiring, the choice of
  the queue, how the result is trimmed and its bits. *Determinization*: transducers,
  quantized weights, other divisors, bits.
- *Composition*: sorting of the copies, symbol tables, property bits, the errors,
  priorities that demand a side, the label rewriting of `MultiEpsFilter`, the
  erasable state table; of looking ahead, `reach_init`, an index shared or stored in a file,
  walking intervals instead of arcs. *Matchers*: `lower_bound`, a clone used in turns
  with its original, a phi label that is epsilon, error flags.
- *Mutable automaton*: binary bits, symbol tables, `add_states`, reading from
  files, the power, plus, quantize and Gallic mappers, `concat_onto`,
  `union_all`, `relabel_tables`; the rules of the bits of algorithms not modelled.
- *Views*: symbol tables, widths of offsets, mapping of files into memory.
- *Rewriting, networks*: quantization, the bits they leave, disambiguation of
  transducers, reading and writing a table of codes.
- *Decoder*: floating-point scores (costs are whole numbers), the cut-off at negligible
  probabilities, traces too large for memory, rescaling, text.
- *Weights*: rounding. Log weights stand as the masses they are logarithms of.
- *Tables*: symbols are opaque and their bytes left out.
- *I/O, text formats, benchmarks, vendored sources*: no state of interest.
