------------------------------ MODULE Visitors ------------------------------
(***************************************************************************)
(* algorithms/dfs_visit.rs: a depth-first search with its own stack, over  *)
(* an automaton that may or may not know how many states it has.  Each     *)
(* action is one turn of one of the search's loops; what a visitor does at *)
(* the turn is conjoined to it, and a visitor that answers FALSE stops the *)
(* search, which then only unwinds.                                        *)
(*                                                                         *)
(* algorithms/visit.rs: the same in the order a queue chooses, the head of *)
(* which gives up an arc at each turn, with a filter of arcs; and the      *)
(* visitors that copy what is met, in full or up to a limit.               *)
(*                                                                         *)
(* algorithms/randgen.rs: paths drawn at random, many at a time; and the   *)
(* queue that shortest distance is to use, which queue.rs chooses by what  *)
(* a search for components has found.                                      *)
(*                                                                         *)
(* The visitors.  SccVisitor: Tarjan's strongly connected components, the  *)
(* accessible and coaccessible states and the property bits, all from one  *)
(* search, and connect, which acts on them.  TopOrderVisitor: a            *)
(* topological order from a search that stops at the first back arc, and   *)
(* the numbering top_sort makes of it.  CcVisitor: connected components,   *)
(* arcs taken either way, by a union-find.                                 *)
(***************************************************************************)
EXTENDS Integers, Sequences, FiniteSets, SequencesExt

CONSTANTS
  N,      \* bound: the automata have states 0 .. N - 1
  Fsts,   \* the automata searched
  Visited, \* those among them that are visited in the order of a queue
  None    \* no state

State == 0 .. N - 1

\* An automaton: its start state or None, the targets of each state's arcs in
\* order, its final states, and whether it knows its number of states.
FstType == [start : State \cup {None}, arcs : [State -> Seq(State)],
            final : SUBSET State, known : BOOLEAN]

FstsAssumption == N \in Nat \ {0} /\ None \notin Nat /\ Fsts \subseteq FstType /\ Visited \subseteq Fsts

VARIABLES
  fst,      \* the automaton, fixed
  color,    \* White, Grey or Black, per state
  stack,    \* the frames: a state, the arcs it has left and its parent
  dfs,      \* FALSE once a visitor has stopped the search
  root,     \* the root of the current tree
  nstates,  \* how many states the search knows of
  siter,    \* where the automaton's state iterator stands
  at        \* "roots", "tree" or "done"

search == <<fst, color, stack, dfs, root, nstates, siter, at>>

SearchInit ==
  /\ fst \in Fsts
  /\ color = [s \in State |-> "White"]
  /\ stack = <<>>
  /\ dfs = TRUE
  /\ root = fst.start
  /\ nstates = IF fst.known THEN N ELSE IF fst.start = None THEN 0 ELSE fst.start + 1
  /\ siter = 0
  /\ at = IF fst.start = None THEN "done" ELSE "roots"

Frame(s, parent) == [state |-> s, left |-> fst.arcs[s], parent |-> parent]

Larger(a, b) == IF a >= b THEN a ELSE b

\* The head of the outer loop: the root opens a tree.  `go` is init_state's
\* answer.
OpenTree(go) ==
  /\ at = "roots"
  /\ color' = [color EXCEPT ![root] = "Grey"]
  /\ stack' = <<Frame(root, None)>>
  /\ dfs' = go
  /\ at' = "tree"
  /\ UNCHANGED <<fst, root, nstates, siter>>

Top    == stack[1]
Target == Head(Top.left)

\* Taking an arc: the frame moves past it, and a target beyond the states
\* known so far makes them known.
Taking ==
  /\ at = "tree" /\ stack # <<>> /\ dfs
  /\ Top.left # <<>>
  /\ nstates' = Larger(nstates, Target + 1)
  /\ UNCHANGED <<fst, root, siter, at>>

Advanced == [stack EXCEPT ![1].left = Tail(@)]

\* An arc to an undiscovered state descends into it; `go` is the answer of
\* init_state there (no visitor refuses a tree arc).
TreeArc(go) ==
  /\ Taking
  /\ color[Target] = "White"
  /\ color' = [color EXCEPT ![Target] = "Grey"]
  /\ stack' = <<Frame(Target, Top.state)>> \o Advanced
  /\ dfs' = go

\* Mutant: the frame stays at the arc.
BackArc_Stays(go) ==
  /\ Taking
  /\ color[Target] = "Grey"
  /\ dfs' = go
  /\ UNCHANGED <<color, stack>>

BackArc(go) ==
  /\ Taking
  /\ color[Target] = "Grey"
  /\ stack' = Advanced
  /\ dfs' = go
  /\ UNCHANGED color

ForwardOrCrossArc(go) ==
  /\ Taking
  /\ color[Target] = "Black"
  /\ stack' = Advanced
  /\ dfs' = go
  /\ UNCHANGED color

\* A frame with no arcs left, or any frame once the search is stopped.
FinishState ==
  /\ at = "tree" /\ stack # <<>>
  /\ dfs => Top.left = <<>>
  /\ color' = [color EXCEPT ![Top.state] = "Black"]
  /\ stack' = Tail(stack)
  /\ UNCHANGED <<fst, dfs, root, nstates, siter, at>>

\* The next root: the first state still white, from 0 after the start state's
\* tree and from the last root on otherwise.  Where the number of states is
\* not known, the state iterator is asked for one past those seen.
NextWhite(r) ==
  LET from   == IF r = fst.start THEN 0 ELSE r + 1
      whites == {s \in from .. nstates - 1 : color[s] = "White"}
  IN  IF whites = {} THEN Larger(nstates, from)
      ELSE CHOOSE s \in whites : \A t \in whites : s <= t

OneMore == ~fst.known /\ root' = nstates /\ siter <= nstates /\ nstates < N

CloseTree ==
  /\ at = "tree" /\ stack = <<>>
  /\ root' = NextWhite(root)
  /\ siter' = IF ~fst.known /\ root' = nstates
              THEN (IF OneMore THEN nstates + 1 ELSE N) ELSE siter
  /\ nstates' = IF OneMore THEN nstates + 1 ELSE nstates
  /\ at' = IF dfs /\ root' < nstates' THEN "roots" ELSE "done"
  /\ UNCHANGED <<fst, color, stack, dfs>>

-----------------------------------------------------------------------------
\* The automaton as a graph.

Arc(s, t) == \E i \in 1 .. Len(fst.arcs[s]) : fst.arcs[s][i] = t

\* Reach[s]: the states some path leads to from s, the empty one included.
Reach ==
  LET Within[k \in 0 .. N] ==
        IF k = 0 THEN [s \in State |-> {s}]
        ELSE [s \in State |-> Within[k - 1][s] \cup
                UNION {Within[k - 1][t] : t \in {u \in State : Arc(s, u)}}]
  IN  Within[N]

OnCycle(s) == \E t \in State : Arc(s, t) /\ s \in Reach[t]

-----------------------------------------------------------------------------
(* SccVisitor and connect.                                                 *)

Infinity == N  \* u32::MAX, past every number of the search

VARIABLES
  dfnumber,   \* the order states were met in
  lowlink,    \* the lowest number known to be reachable within the component
  onstack,    \* the states whose component is still open
  scc_stack,  \* those states, newest first
  scc,        \* the component of each state
  nscc,       \* how many components are closed
  count,      \* how many states have been met
  access,     \* the accessible states
  coaccess,   \* the coaccessible states
  props       \* the property bits that are set

sccs == <<dfnumber, lowlink, onstack, scc_stack, scc, nscc, count, access, coaccess, props>>

Smaller(a, b) == IF a <= b THEN a ELSE b

\* init_visit; with no start state finish_visit follows at once.
SccInit ==
  /\ SearchInit
  /\ dfnumber = [s \in State |-> Infinity] /\ lowlink = [s \in State |-> Infinity]
  /\ onstack = {} /\ scc_stack = <<>>
  /\ scc = [s \in State |-> None] /\ nscc = 0 /\ count = 0
  /\ access = {} /\ coaccess = {}
  /\ props = {"ACYCLIC", "INITIAL_ACYCLIC", "ACCESSIBLE", "CO_ACCESSIBLE"}

Unset(bit, opposite) == props' = (props \ {bit}) \cup {opposite}

init_state(s, r) ==
  /\ scc_stack' = <<s>> \o scc_stack
  /\ dfnumber' = [dfnumber EXCEPT ![s] = count]
  /\ lowlink' = [lowlink EXCEPT ![s] = count]
  /\ onstack' = onstack \cup {s}
  /\ count' = count + 1
  /\ IF r = fst.start THEN access' = access \cup {s} /\ UNCHANGED props
     ELSE access' = access \ {s} /\ Unset("ACCESSIBLE", "NOT_ACCESSIBLE")
  /\ UNCHANGED <<scc, nscc, coaccess>>

Inherit(s, t) == IF t \in coaccess THEN coaccess \cup {s} ELSE coaccess

back_arc(s, t) ==
  /\ lowlink' = [lowlink EXCEPT ![s] = Smaller(@, dfnumber[t])]
  /\ coaccess' = Inherit(s, t)
  /\ props' = (props \ ({"ACYCLIC"} \cup IF t = fst.start THEN {"INITIAL_ACYCLIC"} ELSE {}))
              \cup {"CYCLIC"} \cup (IF t = fst.start THEN {"INITIAL_CYCLIC"} ELSE {})
  /\ UNCHANGED <<dfnumber, onstack, scc_stack, scc, nscc, count, access>>

\* Mutant: a closed component's states lower the link too.
forward_or_cross_arc_AnyTarget(s, t) ==
  /\ lowlink' = [lowlink EXCEPT ![s] = Smaller(@, dfnumber[t])]
  /\ coaccess' = Inherit(s, t)
  /\ UNCHANGED <<dfnumber, onstack, scc_stack, scc, nscc, count, access, props>>

\* Only a target whose component is open can lower the link.
forward_or_cross_arc(s, t) ==
  /\ lowlink' = [lowlink EXCEPT ![s] =
       IF dfnumber[t] < dfnumber[s] /\ t \in onstack THEN Smaller(@, dfnumber[t]) ELSE @]
  /\ coaccess' = Inherit(s, t)
  /\ UNCHANGED <<dfnumber, onstack, scc_stack, scc, nscc, count, access, props>>

\* The open states met since s, s included: its component when it is a root.
Component(s) == {t \in onstack : dfnumber[t] >= dfnumber[s]}

\* A finished state that reaches nothing older than itself closes its
\* component, whose states are coaccessible together; a parent then inherits.
finish_state(s, parent) ==
  LET mine   == IF s \in fst.final THEN coaccess \cup {s} ELSE coaccess
      isRoot == dfnumber[s] = lowlink[s]
      comp   == Component(s)
      shared == isRoot /\ comp \cap mine # {}
      known  == IF shared THEN mine \cup comp ELSE mine
  IN
  /\ coaccess' = IF parent # None /\ s \in known THEN known \cup {parent} ELSE known
  /\ lowlink' = IF parent # None THEN [lowlink EXCEPT ![parent] = Smaller(@, lowlink[s])] ELSE lowlink
  /\ IF isRoot
     THEN /\ scc_stack' = SubSeq(scc_stack, Cardinality(comp) + 1, Len(scc_stack))
          /\ scc' = [t \in State |-> IF t \in comp THEN nscc ELSE scc[t]]
          /\ onstack' = onstack \ comp
          /\ nscc' = nscc + 1
          /\ IF shared THEN UNCHANGED props ELSE Unset("CO_ACCESSIBLE", "NOT_CO_ACCESSIBLE")
     ELSE UNCHANGED <<scc_stack, scc, onstack, nscc, props>>
  /\ UNCHANGED <<dfnumber, count, access>>

\* Components closed first come last in the order that is handed out.
finish_visit ==
  /\ scc' = [s \in State |-> IF scc[s] = None THEN None ELSE nscc - 1 - scc[s]]
  /\ UNCHANGED <<dfnumber, lowlink, onstack, scc_stack, nscc, count, access, coaccess, props>>

SccNext ==
  \/ OpenTree(TRUE) /\ init_state(root, root)
  \/ TreeArc(TRUE) /\ init_state(Target, root)
  \/ BackArc(TRUE) /\ back_arc(Top.state, Target)
  \/ ForwardOrCrossArc(TRUE) /\ forward_or_cross_arc(Top.state, Target)
  \/ FinishState /\ finish_state(Top.state, Top.parent)
  \/ CloseTree /\ IF at' = "done" THEN finish_visit ELSE UNCHANGED sccs

-----------------------------------------------------------------------------
SccTypeOK ==
  /\ color \in [State -> {"White", "Grey", "Black"}]
  /\ nstates \in 0 .. N /\ siter \in 0 .. N
  /\ at \in {"roots", "tree", "done"}
  /\ dfnumber \in [State -> 0 .. N] /\ lowlink \in [State -> 0 .. N]
  /\ scc \in [State -> State \cup {None}]
  /\ nscc \in 0 .. N /\ count \in 0 .. N

Searched == at = "done" /\ fst.start # None

\* The grey states are those of the stack, and each frame was entered from the
\* one under it by an arc.
StackIsAPath ==
  /\ {s \in State : color[s] = "Grey"} = {stack[i].state : i \in 1 .. Len(stack)}
  /\ \A i \in 1 .. Len(stack) - 1 :
       stack[i].parent = stack[i + 1].state /\ Arc(stack[i].parent, stack[i].state)

\* A closed component is complete: it reaches no state whose component is
\* open, and every open state still reaches a grey one met no later.
OpenStatesReachTheStack ==
  \A s \in State :
    /\ color[s] = "Black" /\ s \notin onstack => Reach[s] \cap onstack = {}
    /\ s \in onstack => \E g \in Reach[s] : color[g] = "Grey" /\ dfnumber[g] <= dfnumber[s]

\* The stack of open states is their reverse order of discovery.
SccStackIsOrdered ==
  /\ {scc_stack[i] : i \in 1 .. Len(scc_stack)} = onstack
  /\ \A i, j \in 1 .. Len(scc_stack) : i < j => dfnumber[scc_stack[i]] > dfnumber[scc_stack[j]]

\* Two states share a number exactly when each reaches the other, and no arc
\* leads to a component numbered lower: whatever the start state, the order of
\* the arcs and the roots taken after it, a queue that drains components in
\* this order never has to go back.
ComponentsAreRight ==
  Searched => \A s, t \in State :
    /\ scc[s] = scc[t] <=> t \in Reach[s] /\ s \in Reach[t]
    /\ Arc(s, t) => scc[s] <= scc[t]

\* connect deletes the states that are not both accessible and coaccessible.
connect == State \ {s \in State : s \notin access \/ s \notin coaccess}

\* connect keeps the states on a path from the start to a final state, none
\* more and none less, and the two sets it decides by are each exact.
ConnectKeepsSuccessfulPaths ==
  Searched => /\ access = Reach[fst.start]
          /\ coaccess = {s \in State : Reach[s] \cap fst.final # {}}
          /\ connect = Reach[fst.start] \cap coaccess

\* Every bit that was claimed is true of the automaton, and each question the
\* search answers is answered one way.
SccPropsAreTrue ==
  Searched =>
    /\ "CYCLIC" \in props <=> \E s \in State : OnCycle(s)
    /\ "ACYCLIC" \in props <=> \A s \in State : ~OnCycle(s)
    /\ "INITIAL_CYCLIC" \in props <=> OnCycle(fst.start)
    /\ "INITIAL_ACYCLIC" \in props <=> ~OnCycle(fst.start)
    /\ "ACCESSIBLE" \in props <=> Reach[fst.start] = State
    /\ "NOT_ACCESSIBLE" \in props <=> Reach[fst.start] # State
    /\ "CO_ACCESSIBLE" \in props <=> \A s \in State : Reach[s] \cap fst.final # {}
    /\ "NOT_CO_ACCESSIBLE" \in props <=> \E s \in State : Reach[s] \cap fst.final = {}

-----------------------------------------------------------------------------
(* TopOrderVisitor.                                                        *)

VARIABLES
  finish,  \* the states in the order they finished
  acyclic  \* no back arc has been met

TopInit == SearchInit /\ finish = <<>> /\ acyclic = TRUE

TopNext ==
  \/ (OpenTree(TRUE) \/ TreeArc(TRUE) \/ ForwardOrCrossArc(TRUE) \/ CloseTree)
     /\ UNCHANGED <<finish, acyclic>>
  \/ BackArc(FALSE) /\ acyclic' = FALSE /\ UNCHANGED finish
  \/ FinishState /\ finish' = Append(finish, Top.state) /\ UNCHANGED acyclic

\* order: the position each state takes, for an acyclic automaton.
position == [s \in ToSet(finish) |-> Len(finish) - (CHOOSE i \in DOMAIN finish : finish[i] = s)]

-----------------------------------------------------------------------------
\* A cycle anywhere is found and stops the search.  Without one every state
\* gets a position of its own, and every arc leads to a later one.
OrderIsTopological ==
  at = "done" /\ fst.start # None =>
    /\ acyclic <=> \A s \in State : ~OnCycle(s)
    /\ acyclic => /\ ToSet(finish) = State /\ Len(finish) = N
                  /\ \A s, t \in State : Arc(s, t) => position[s] < position[t]

\* A stopped search unwinds: every state it met finishes, once.
MetStatesFinish ==
  /\ IsInjective(finish)
  /\ ToSet(finish) = {s \in State : color[s] = "Black"}

-----------------------------------------------------------------------------
(* data_structures/union_find.rs: disjoint trees over dense integers with  *)
(* ranks and path compression.  None is an element in no set.              *)

NoSets == [parent |-> <<>>, rank |-> <<>>]

parent(uf, x) == uf.parent[x + 1]

Known(uf, x) == x < Len(uf.parent) /\ parent(uf, x) # None

find_set(uf, x) ==
  LET up == uf.parent
      Root[y \in 0 .. Len(up) - 1] == IF up[y + 1] \in {y, None} THEN up[y + 1] ELSE Root[up[y + 1]]
  IN  Root[x]

\* find_set points every element from x to its root at the root.
Compress(uf, x) ==
  LET up == uf.parent
      Way[y \in 0 .. Len(up) - 1] == {y} \cup IF up[y + 1] \in {y, None} THEN {} ELSE Way[up[y + 1]]
      way == Way[x]
      r   == find_set(uf, x)
  IN  [uf EXCEPT !.parent = [i \in DOMAIN @ |-> IF i - 1 \in way THEN r ELSE @[i]]]

\* Of two roots the one of lower rank, or x, goes under the other.
link(uf, x, y) ==
  LET a == uf.rank[x + 1]
      b == uf.rank[y + 1]
  IN  IF x = y THEN uf
      ELSE IF a > b THEN [uf EXCEPT !.parent[y + 1] = x]
      ELSE [uf EXCEPT !.parent[x + 1] = y, !.rank[y + 1] = IF a = b THEN b + 1 ELSE b]

\* Neither find_set changes what the other answers.
union(uf, x, y) ==
  IF Known(uf, x) /\ Known(uf, y)
  THEN link(Compress(Compress(uf, x), y), find_set(uf, x), find_set(uf, y)) ELSE uf

\* Mutant: new elements are made with the parent 0.
Padded_Zero(seq, n, v) == [i \in 1 .. n |-> IF i <= Len(seq) THEN seq[i] ELSE 0]

Padded(seq, n, v) == [i \in 1 .. n |-> IF i <= Len(seq) THEN seq[i] ELSE v]

make_set(uf, x) ==
  LET size  == IF x < Len(uf.parent) THEN Len(uf.parent) ELSE IF x > 0 THEN 2 * x ELSE 2
      grown == [parent |-> Padded(uf.parent, size, None), rank |-> Padded(uf.rank, size, 0)]
  IN  [grown EXCEPT !.parent[x + 1] = x, !.rank[x + 1] = 0]
-----------------------------------------------------------------------------
(* CcVisitor.                                                              *)

VARIABLE comps  \* the union-find

CcInit == SearchInit /\ comps = NoSets

\* A tree arc makes a set of its target and joins the two; the search then
\* descends, and init_state makes a set of the target again.
tree_arc(s, t) ==
  \E made \in {make_set(comps, t)} : \E joined \in {union(made, s, t)} :
    comps' = make_set(joined, t)

CcNext ==
  \/ OpenTree(TRUE) /\ comps' = make_set(comps, root)
  \/ TreeArc(TRUE) /\ tree_arc(Top.state, Target)
  \/ (BackArc(TRUE) \/ ForwardOrCrossArc(TRUE)) /\ comps' = union(comps, Top.state, Target)
  \/ FinishState /\ UNCHANGED comps
  \/ CloseTree /\ UNCHANGED comps

-----------------------------------------------------------------------------
\* The states joined to s by arcs taken either way.
Joined ==
  LET Within[k \in 0 .. N] ==
        IF k = 0 THEN [s \in State |-> {s}]
        ELSE [s \in State |-> Within[k - 1][s] \cup
                UNION {Within[k - 1][t] : t \in {u \in State : Arc(s, u) \/ Arc(u, s)}}]
  IN  Within[N]

\* No union joins states that nothing connects, and each set is a tree.
JoinsAreJustified ==
  \A s \in State : Known(comps, s) =>
    LET r == find_set(comps, s) IN parent(comps, r) = r /\ r \in Joined[s]

\* "every entry of `parent` is either `K_NULL_ID` or an index into `parent`"
\* (union_find.rs:38), and there is a rank for each: what the unchecked accesses rely on.
ParentsAreIndexes ==
  /\ Len(comps.rank) = Len(comps.parent)
  /\ \A i \in DOMAIN comps.parent :
       LET p == comps.parent[i] IN p # None => p \in 0 .. Len(comps.parent) - 1 /\ Known(comps, p)

\* "Finds and returns connected components": states are in one set exactly
\* when arcs, taken either way, connect them.
FindsComponents ==
  at = "done" /\ fst.start # None =>
    \A s, t \in State : find_set(comps, s) = find_set(comps, t) <=> t \in Joined[s]

-----------------------------------------------------------------------------
(* visit, with PartialCopyVisitor: CopyVisitor is the one that is never     *)
(* stopped and copies every arc, PartialVisitor the one whose copy is not   *)
(* looked at.  The stack is the queue, oldest first.                        *)

CONSTANT Ways  \* how states are visited: the fields below

WaysType ==
  [queue : {"lifo", "fifo", "state"},                       \* the discipline
   dropped : SUBSET (State \X State), access_only : BOOLEAN, \* the filter of arcs, and whether one tree is all
   maxvisit : Nat, copy_grey : BOOLEAN, copy_black : BOOLEAN]

WaysAssumption == Ways \subseteq WaysType

VARIABLES
  how,   \* the way, fixed
  left,  \* the arcs each state has left
  met,   \* the states in the order they were met; finish has those finished
  ofst   \* the copy: the arcs of each of its states, and its final ones

VisitInit ==
  /\ SearchInit /\ how \in Ways
  /\ left = fst.arcs /\ met = <<>> /\ finish = <<>> /\ ofst = [arcs |-> <<>>, final |-> {}]

\* LifoQueue, FifoQueue and StateOrderQueue: where the head of each stands.
HeadAt(q) ==
  CASE how.queue = "lifo" -> Len(q)
    [] how.queue = "fifo" -> 1
    [] how.queue = "state" -> CHOOSE i \in DOMAIN q : \A j \in DOMAIN q : q[i] <= q[j]
HeadOf(q)   == q[HeadAt(q)]
Dequeued(q) == RemoveAt(q, HeadAt(q))

\* Mutant: one state is added, whatever the number of the one that is met.
CopyState_One(copy, s) == IF Len(copy.arcs) <= s THEN [copy EXCEPT !.arcs = Append(@, <<>>)] ELSE copy

CopyState(copy, s) == [copy EXCEPT !.arcs = [i \in 1 .. Larger(Len(@), s + 1) |-> IF i <= Len(@) THEN @[i] ELSE <<>>]]
CopyArc(copy, s, t) == [copy EXCEPT !.arcs[s + 1] = Append(@, t)]

\* What the visitor that copies nothing keeps: two counts, the first drawn against the limit.
PartialVisitor(m, f) == [ninit |-> Len(m), nfinish |-> Len(f)]

\* A state is met, and drawn against the limit.
Meet(s, copy) ==
  /\ ofst' = CopyState(copy, s) /\ met' = Append(met, s)
  /\ color' = [color EXCEPT ![s] = "Grey"] /\ stack' = Append(stack, s)
  /\ dfs' = (PartialVisitor(met', finish).ninit <= how.maxvisit)

VisitRoot ==
  /\ at = "roots" /\ at' = "tree" /\ Meet(root, ofst)
  /\ UNCHANGED <<fst, root, nstates, siter, left, finish>>

VisitArc ==
  /\ at = "tree" /\ stack # <<>> /\ dfs /\ left[HeadOf(stack)] # <<>>
  /\ LET s == HeadOf(stack)
         t == Head(left[s])
         kept == <<s, t>> \notin how.dropped
         copies == \/ color[t] = "Grey" /\ how.copy_grey
                   \/ color[t] = "Black" /\ how.copy_black
     IN  /\ nstates' = Larger(nstates, t + 1) /\ left' = [left EXCEPT ![s] = Tail(@)]
         /\ IF kept /\ color[t] = "White" THEN Meet(t, CopyArc(ofst, s, t))
            ELSE /\ ofst' = IF kept /\ copies THEN CopyArc(ofst, s, t) ELSE ofst
                 /\ UNCHANGED <<met, color, stack, dfs>>
  /\ UNCHANGED <<fst, root, siter, at, finish>>

\* The head has no arcs left, or the visit was stopped.
VisitFinish ==
  /\ at = "tree" /\ stack # <<>>
  /\ LET s == HeadOf(stack)
     IN  /\ dfs => left[s] = <<>>
         /\ color' = [color EXCEPT ![s] = "Black"] /\ stack' = Dequeued(stack) /\ finish' = Append(finish, s)
         /\ ofst' = [ofst EXCEPT !.final = IF s \in fst.final THEN @ \cup {s} ELSE @ \ {s}]
  /\ UNCHANGED <<fst, dfs, root, nstates, siter, at, left, met>>

VisitClose ==
  /\ UNCHANGED <<left, met, finish, ofst>>
  /\ \/ ~how.access_only /\ CloseTree
     \/ how.access_only /\ at = "tree" /\ stack = <<>> /\ at' = "done"
        /\ UNCHANGED <<fst, color, stack, dfs, root, nstates, siter>>

VisitNext == (VisitRoot \/ VisitArc \/ VisitFinish \/ VisitClose) /\ UNCHANGED how

-----------------------------------------------------------------------------
KeptArc(s, t) == Arc(s, t) /\ <<s, t>> \notin how.dropped

\* Steps[k][s]: the states that k kept arcs lead to from s, or fewer.
Steps ==
  LET Within[k \in 0 .. N] ==
        IF k = 0 THEN [s \in State |-> {s}]
        ELSE [s \in State |-> Within[k - 1][s] \cup UNION {Within[k - 1][t] : t \in {u \in State : KeptArc(s, u)}}]
  IN  Within

\* What waits is what was met and is not finished; in a stack each state was
\* reached from the one before it.
QueueHoldsTheGrey ==
  /\ IsInjective(stack) /\ ToSet(stack) = {s \in State : color[s] = "Grey"}
  /\ how.queue = "lifo" => \A i \in 1 .. Len(stack) - 1 : KeptArc(stack[i], stack[i + 1])

\* Each state met is met once and finished once, even when the visit is stopped;
\* unless it is, it meets what there is to meet, a queue level by level and a
\* stack in depth: a state finishes after all it leads to that does not lead back.
VisitsInOrder ==
  at = "done" /\ fst.start # None =>
    /\ IsInjective(met) /\ IsInjective(finish) /\ ToSet(met) = ToSet(finish)
    /\ PartialVisitor(met, finish).nfinish = Len(met)
    /\ ~dfs => Len(met) = how.maxvisit + 1
    /\ dfs => ToSet(met) = IF how.access_only THEN Steps[N][fst.start] ELSE State
    /\ dfs /\ how.queue = "fifo" =>
         \A k \in 0 .. N - 1 : LET near == Steps[k][fst.start] IN ToSet(SubSeq(met, 1, Cardinality(near))) = near
    /\ dfs /\ how.queue = "lifo" =>
         LET when == [s \in ToSet(finish) |-> CHOOSE i \in DOMAIN finish : finish[i] = s]
         IN  \A s, t \in ToSet(finish) : KeptArc(s, t) /\ s \notin Steps[N][t] => when[t] < when[s]

\* Kept(s)[n]: the kept ones among the first n arcs of s.
Kept(s) ==
  LET K[n \in 0 .. Len(fst.arcs[s])] ==
        IF n = 0 THEN <<>>
        ELSE IF <<s, fst.arcs[s][n]>> \in how.dropped THEN K[n - 1] ELSE Append(K[n - 1], fst.arcs[s][n])
  IN  K

\* The arcs of a copy: the j-th of state s, and where it leads.
Copied(copy) == UNION {{<<s, j>> : j \in DOMAIN copy.arcs[s + 1]} : s \in 0 .. Len(copy.arcs) - 1}
CopiedTo(copy, p) == copy.arcs[p[1] + 1][p[2]]

\* A copy has an arc for each arc that was kept, or, where only those to new
\* states are copied, is a forest; and no arc leads out of it.
CopiesWhatItMeets ==
  at = "done" /\ fst.start # None =>
    /\ \A s \in ToSet(met) : s < Len(ofst.arcs)
    /\ ofst.final = fst.final \cap ToSet(met)
    /\ \A p \in Copied(ofst) : CopiedTo(ofst, p) \in ToSet(met)
    /\ dfs /\ how.copy_grey /\ how.copy_black =>
         \A s \in ToSet(met) : ofst.arcs[s + 1] = Kept(s)[Len(fst.arcs[s])]
    /\ ~how.copy_grey /\ ~how.copy_black => \A p, q \in Copied(ofst) : CopiedTo(ofst, p) = CopiedTo(ofst, q) => p = q
    /\ how.access_only => \A i \in DOMAIN met : i # 1 => \E p \in Copied(ofst) : CopiedTo(ofst, p) = met[i]

-----------------------------------------------------------------------------
(* algorithms/randgen.rs: paths drawn at random.  The stack is what is left *)
(* to follow, the last first; ofst the tree of what was drawn, its states   *)
(* from 1; met how many draws ended where no path does.  The generator is   *)
(* not modelled: any choice may be drawn.                                   *)

CONSTANTS
  Drawn,  \* the automata paths are drawn from
  Draws   \* how: the fields below

DrawsType == [npath : Nat, max_length : Nat \cup {None}, weighted : BOOLEAN, remove_total_weight : BOOLEAN]

DrawInit ==
  /\ SearchInit /\ fst \in Drawn /\ how \in Draws
  \* Bound: without a limit only where no path is endless.
  /\ how.max_length = None => \A s \in State : ~OnCycle(s)
  /\ left = <<>> /\ met = 0 /\ finish = <<>> /\ ofst = [arcs |-> <<>>, final |-> <<>>, superfinal |-> None]

Pending(out, s, n, length) == [out |-> out, state |-> s, nsamples |-> n, length |-> length]

DrawStart ==
  /\ at = "roots"
  /\ IF how.npath = 0 THEN at' = "done" /\ UNCHANGED <<stack, ofst>>
     ELSE /\ at' = "tree" /\ stack' = <<Pending(1, fst.start, how.npath, 0)>>
          /\ ofst' = [ofst EXCEPT !.arcs = << <<>> >>]
  /\ UNCHANGED <<fst, color, dfs, root, nstates, siter, how, left, met, finish>>

\* What a state offers: the places of its arcs, and to stop where it is final.
CanStop(s) == s \in fst.final
Offers(s) == 1 .. (Len(fst.arcs[s]) + IF CanStop(s) THEN 1 ELSE 0)

\* How often each was chosen by n draws, in any way that adds up.
Counts(s, n) == {c \in [Offers(s) -> 0 .. n] : FoldFunction(+, 0, c) = n}

\* A weight is the fraction it stands for.
Whole == <<1, 1>>

\* Mutant: the share is of all draws, not of those that came this way.
Share_OfAll(times, n) == <<times, how.npath>>

Share(times, n) == <<times, n>>

\* The draws that stop: by a final weight, or one epsilon each to a state shared by all.
Stopped(tree, p, times) ==
  LET total  == IF how.remove_total_weight THEN 1 ELSE how.npath
      target == IF tree.superfinal = None THEN Len(tree.arcs) + 1 ELSE tree.superfinal
      padded == IF tree.superfinal = None THEN Append(tree.arcs, <<>>) ELSE tree.arcs
      leaf   == [choice |-> 0, weight |-> Whole, next |-> target]
  IN IF times = 0 THEN tree
     ELSE IF how.weighted
     THEN [tree EXCEPT !.final = @ @@ (p.out :> <<Share(times, p.nsamples)[1] * total, Share(times, p.nsamples)[2]>>)]
     ELSE [arcs |-> [padded EXCEPT ![p.out] = @ \o [i \in 1 .. times |-> leaf]],
           final |-> tree.final @@ (target :> Whole), superfinal |-> target]

\* An arc that was chosen becomes one arc to a state of its own, where those
\* that chose it go on.
Follow(p, drawn) ==
  LET own    == fst.arcs[p.state]
      taken  == SelectSeq([i \in DOMAIN own |-> i], LAMBDA i : drawn[i] > 0)
      size   == Len(ofst.arcs)
      arc(k) == [choice |-> taken[k], next |-> size + k,
                 weight |-> IF how.weighted THEN Share(drawn[taken[k]], p.nsamples) ELSE Whole]
      grown  == [ofst EXCEPT !.arcs = [@ EXCEPT ![p.out] = [k \in DOMAIN taken |-> arc(k)]] \o [k \in DOMAIN taken |-> <<>>]]
  IN /\ stack' = Front(stack)
           \o [k \in DOMAIN taken |-> Pending(size + k, own[taken[k]], drawn[taken[k]], p.length + 1)]
     /\ ofst' = IF CanStop(p.state) THEN Stopped(grown, p, drawn[Len(own) + 1]) ELSE grown
     /\ UNCHANGED met

\* Nowhere to go and no way to stop, or no length left, ends a path without it.
DrawOn ==
  /\ at = "tree" /\ stack # <<>>
  /\ LET p == Last(stack)
     IN  IF Offers(p.state) = {} \/ how.max_length = p.length
         THEN stack' = Front(stack) /\ met' = met + p.nsamples /\ UNCHANGED ofst
         ELSE \E drawn \in Counts(p.state, p.nsamples) : Follow(p, drawn)
  /\ UNCHANGED <<fst, color, dfs, root, nstates, siter, at, how, left, finish>>

DrawEnd == at = "tree" /\ stack = <<>> /\ at' = "done"
           /\ UNCHANGED <<fst, color, stack, dfs, root, nstates, siter, how, left, met, finish, ofst>>

DrawNext == DrawStart \/ DrawOn \/ DrawEnd

-----------------------------------------------------------------------------
\* The states that stand for a way through the automaton, and the arcs to each.
Branches == DOMAIN ofst.arcs \ {ofst.superfinal}
Into(o)  == {b \in Branches \X (1 .. how.npath + N) : b[2] \in DOMAIN ofst.arcs[b[1]] /\ ofst.arcs[b[1]][b[2]].next = o}

\* Where a branch stands in the automaton, after how many arcs, and its weight.
Standing ==
  LET Of[o \in Branches] ==
        IF o = 1 THEN [state |-> fst.start, length |-> 0, weight |-> Whole]
        ELSE LET from == CHOOSE f \in Into(o) : TRUE
                 arc  == ofst.arcs[from[1]][from[2]]
                 up   == Of[from[1]]
             IN [state |-> fst.arcs[up.state][arc.choice], length |-> up.length + 1,
                 weight |-> <<up.weight[1] * arc.weight[1], up.weight[2] * arc.weight[2]>>]
  IN Of

\* How many draws stopped at a branch, as the result says.
StoppedAt(o) ==
  IF ~how.weighted THEN Len(SelectSeq(ofst.arcs[o], LAMBDA arc : arc.choice = 0))
  ELSE IF o \notin DOMAIN ofst.final THEN 0
  ELSE LET w == <<Standing[o].weight[1] * ofst.final[o][1], Standing[o].weight[2] * ofst.final[o][2]>>
           n == w[1] * IF how.remove_total_weight THEN how.npath ELSE 1
       IN IF n % w[2] = 0 THEN n \div w[2] ELSE -1

\* What was drawn is a tree of ways through the automaton, none there twice and
\* none too long, each ending where the automaton may; and the draws the weights
\* or the leaves tell of are all there were but those that ended nowhere.
DrawsAddUp ==
  at = "done" /\ fst.start # None /\ how.npath > 0 =>
    /\ \A o \in Branches \ {1} : Cardinality(Into(o)) = 1
    /\ \A o \in Branches :
         LET place == Standing[o] IN
         /\ how.max_length # None => place.length <= how.max_length
         /\ StoppedAt(o) >= 0 /\ (StoppedAt(o) > 0 => CanStop(place.state))
         /\ \A i, j \in DOMAIN ofst.arcs[o] :
              i # j /\ ofst.arcs[o][i].choice = ofst.arcs[o][j].choice => ofst.arcs[o][i].choice = 0
    /\ MapThenSumSet(StoppedAt, Branches) + met = how.npath

-----------------------------------------------------------------------------
(* queue.rs: the discipline shortest distance is to use, chosen by the      *)
(* components a search has found and the weights of the arcs.               *)

CONSTANTS
  Weighings, \* the weights of each state's arcs: zero, one, lighter than one or heavier
  Rings      \* what is known of the semiring, and whether states can be compared

RingsType == [idempotent : BOOLEAN, path : BOOLEAN, comp : BOOLEAN]

\* A weight that adds nothing to a path, or makes it none.
Plain(w, ring) == ring.idempotent /\ w \in {"zero", "one"}

\* Arc weights are compared only where their order is one.
Ordered(ring) == ring.path /\ ring.comp

\* Mutant: a component that is ordered by weight stays so.
InnerType_Stays(type, w, ring) ==
  IF type = "shortest first" THEN type
  ELSE IF ~Ordered(ring) \/ w = "lighter" THEN "fifo"
  ELSE IF type = "fifo" THEN type
  ELSE IF Plain(w, ring) THEN "lifo" ELSE "shortest first"

\* The discipline of a component after one more arc that stays inside it.
InnerType(type, w, ring) ==
  IF ~Ordered(ring) \/ w = "lighter" THEN "fifo"
  ELSE IF type \notin {"trivial", "lifo"} THEN type
  ELSE IF Plain(w, ring) THEN "lifo" ELSE "shortest first"

\* The disciplines after the arcs of one state, given those after the states before it.
AfterState(types, s, weigh, ring) ==
  LET After[n \in 0 .. Len(fst.arcs[s])] ==
        IF n = 0 THEN types
        ELSE IF scc[fst.arcs[s][n]] # scc[s] THEN After[n - 1]
        ELSE [After[n - 1] EXCEPT ![scc[s]] = InnerType(@, weigh[s][n], ring)]
  IN After[Len(fst.arcs[s])]

scc_queue_types(weigh, ring) ==
  LET After[n \in 0 .. N] ==
        IF n = 0 THEN [c \in 0 .. nscc - 1 |-> "trivial"] ELSE AfterState(After[n - 1], n - 1, weigh, ring)
  IN After[N]

AllWeights(weigh) == UNION {{weigh[s][i] : i \in DOMAIN fst.arcs[s]} : s \in State}

\* bits: those the automaton knows of itself.
AutoQueue(bits, weigh, ring) ==
  LET types == scc_queue_types(weigh, ring)
  IN IF "TOP_SORTED" \in bits \/ fst.start = None THEN [chosen |-> "state order"]
     ELSE IF "ACYCLIC" \in bits THEN [chosen |-> "top order"]
     ELSE IF ring.idempotent /\ ("UNWEIGHTED" \in bits \/ \A w \in AllWeights(weigh) : Plain(w, ring)) THEN [chosen |-> "lifo"]
     ELSE IF \A c \in DOMAIN types : types[c] = "trivial" THEN [chosen |-> "top order", order |-> scc]
     ELSE [chosen |-> "scc", inner |-> types]

-----------------------------------------------------------------------------
\* The weights of the arcs that stay inside a component.
Inside(c, weigh) ==
  UNION {{weigh[s][i] : i \in {j \in DOMAIN fst.arcs[s] : scc[s] = c /\ scc[fst.arcs[s][j]] = c}} : s \in State}

\* What is said of one component's discipline by the arcs inside it.
InnerFits(type, c, weigh, ring) ==
  CASE type = "trivial"        -> Inside(c, weigh) = {} /\ Cardinality({s \in State : scc[s] = c}) = 1
    [] type = "shortest first" -> Ordered(ring) /\ "lighter" \notin Inside(c, weigh)
    [] type = "lifo"           -> Inside(c, weigh) \subseteq {"zero", "one"}
    [] type = "fifo"           -> Inside(c, weigh) # {}

QueueFits(queue, weigh, ring) ==
  CASE queue.chosen = "state order" -> \A s, t \in State : Arc(s, t) => s < t
    [] queue.chosen = "top order"   -> /\ \A s \in State : ~OnCycle(s)
                                       /\ \A s, t \in State : Arc(s, t) => scc[s] < scc[t]
    [] queue.chosen = "lifo"        -> ring.idempotent /\ AllWeights(weigh) \subseteq {"zero", "one"}
    [] queue.chosen = "scc"         -> /\ \E s \in State : OnCycle(s)
                                       /\ \A c \in DOMAIN queue.inner : InnerFits(queue.inner[c], c, weigh, ring)

\* The discipline fits the automaton, whichever of its true bits it knows: state
\* order and topological order where every arc leads on; any order where no
\* weight counts; and else a component at a time, with one state and no arc in
\* it, by weight only where no arc inside makes a path lighter, and without an
\* order only where no arc inside counts.  And no automaton without cycles is
\* taken for one with them.
ChosenQueueFits ==
  Searched /\ fst \in Visited =>
    \A weigh \in Weighings, ring \in Rings :
      LET claims == (IF \A s, t \in State : Arc(s, t) => s < t THEN {"TOP_SORTED"} ELSE {})
                      \cup (IF \A s \in State : ~OnCycle(s) THEN {"ACYCLIC"} ELSE {})
                      \cup (IF AllWeights(weigh) \subseteq {"zero", "one"} THEN {"UNWEIGHTED"} ELSE {})
      IN \A bits \in SUBSET claims : QueueFits(AutoQueue(bits, weigh, ring), weigh, ring)

-----------------------------------------------------------------------------
(* One of the visitors, or none.                                           *)

VARIABLE visitor

tops == <<finish, acyclic>>
visits == <<how, left, met, ofst>>

IdleVisit == how = <<>> /\ left = <<>> /\ met = <<>> /\ ofst = <<>>

IdleScc ==
  /\ dfnumber = <<>> /\ lowlink = <<>> /\ onstack = <<>> /\ scc_stack = <<>> /\ scc = <<>>
  /\ nscc = <<>> /\ count = <<>> /\ access = <<>> /\ coaccess = <<>> /\ props = <<>>

Idle ==
  /\ visitor = "None" /\ IdleScc /\ IdleVisit /\ finish = <<>> /\ acyclic = <<>> /\ comps = <<>>
  /\ fst = <<>> /\ color = <<>> /\ stack = <<>> /\ dfs = FALSE
  /\ root = None /\ nstates = 0 /\ siter = 0 /\ at = "done"

Init ==
  \/ visitor = "Scc" /\ SccInit /\ finish = <<>> /\ acyclic = <<>> /\ comps = <<>> /\ IdleVisit
  \/ visitor = "Top" /\ TopInit /\ IdleScc /\ comps = <<>> /\ IdleVisit
  \/ visitor = "Cc" /\ CcInit /\ IdleScc /\ finish = <<>> /\ acyclic = <<>> /\ IdleVisit
  \/ visitor = "Visit" /\ VisitInit /\ fst \in Visited /\ IdleScc /\ acyclic = <<>> /\ comps = <<>>
  \/ visitor = "Draw" /\ DrawInit /\ IdleScc /\ acyclic = <<>> /\ comps = <<>>

Next ==
  /\ UNCHANGED visitor
  /\ \/ visitor = "Scc" /\ SccNext /\ UNCHANGED <<tops, comps, visits>>
     \/ visitor = "Top" /\ TopNext /\ UNCHANGED <<sccs, comps, visits>>
     \/ visitor = "Cc" /\ CcNext /\ UNCHANGED <<sccs, tops, visits>>
     \/ visitor = "Visit" /\ VisitNext /\ UNCHANGED <<sccs, acyclic, comps>>
     \/ visitor = "Draw" /\ DrawNext /\ UNCHANGED <<sccs, acyclic, comps>>

searching == <<visitor, search, sccs, tops, comps, visits>>
Spec == Init /\ [][Next]_searching
Fairness == WF_<<search, left>>(Next)

\* While a search for components runs, its grey states are a path of arcs, every
\* component still open leads back to that path, and none that is closed leads to
\* one that is open: the argument by which a root may close its component.  When
\* a search is over, the components, their numbers, the states connect keeps and
\* the property bits are those of the automaton, and the order top_sort numbers
\* states by is topological; the queue chosen by those components fits the
\* automaton and its weights.  A visit meets and finishes states in the order its
\* queue gives, each once, and what it copies is what it met.  Paths drawn at
\* random are a tree of the automaton's, and the draws it tells of add up.
VisitorsAnswerRight ==
  /\ visitor = "Scc" => /\ SccTypeOK /\ StackIsAPath /\ OpenStatesReachTheStack /\ SccStackIsOrdered
                     /\ ComponentsAreRight /\ ConnectKeepsSuccessfulPaths /\ SccPropsAreTrue
                     /\ ChosenQueueFits
  /\ visitor = "Top" => OrderIsTopological /\ MetStatesFinish
  /\ visitor = "Visit" => QueueHoldsTheGrey /\ VisitsInOrder /\ CopiesWhatItMeets
  /\ visitor = "Draw" => DrawsAddUp

\* A union-find's sets hold only states that arcs connect, and it never looks
\* outside its arrays.
UnionsAreJustified == visitor = "Cc" => JoinsAreJustified /\ ParentsAreIndexes

\* "Finds and returns connected components": states are in one set exactly
\* when arcs, taken either way, connect them.
ComponentsAreFound == visitor = "Cc" => FindsComponents

\* The search ends: every state is opened once and every arc taken once.
Terminates == <>(at = "done")
=============================================================================
