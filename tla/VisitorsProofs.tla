--------------------------- MODULE VisitorsProofs ---------------------------
(***************************************************************************)
(* Proofs about the searches: in every reachable state, for every          *)
(* automaton, the grey states are a path and nothing is left unmet; the    *)
(* order of the states finished is topological unless there is a cycle;    *)
(* the components found, the states connect keeps and the property bits    *)
(* claimed are the automaton's, and the queue chosen by the components     *)
(* fits it; the sets of the union-find hold only states that arcs connect; *)
(* and a visit in the order of a queue meets what there is to meet, in     *)
(* that order, and copies what it meets.                                   *)
(***************************************************************************)
EXTENDS Visitors, FiniteSetTheorems, SequenceTheorems, WellFoundedInduction, TLAPS

-----------------------------------------------------------------------------
(***************************************************************************)
(* Natural numbers                                                         *)
(***************************************************************************)

\* A nonempty set of naturals has a least element.
LEMMA LeastNatural ==
  ASSUME NEW S \in SUBSET Nat, S # {}
  PROVE  \E n \in S : \A m \in S : n <= m
<1>1. PICK n \in S : \A m \in S : ~ (<<m, n>> \in OpToRel(<, Nat))
  BY WFMin, NatLessThanWellFounded
<1>2. \A m \in S : <<m, n>> \in OpToRel(<, Nat) <=> m < n
  BY DEF OpToRel
<1>3. ASSUME NEW m \in S PROVE n <= m
  <2>1. m \in Nat /\ n \in Nat /\ ~ (m < n)
    BY <1>1, <1>2
  <2> QED
    BY <2>1
<1> QED
  BY <1>3

\* Induction, over a set instead of a predicate.
LEMMA SetInduction ==
  ASSUME NEW S, 0 \in S, \A n \in Nat : n \in S => n + 1 \in S
  PROVE  Nat \subseteq S
<1> SUFFICES ASSUME Nat \ S # {} PROVE FALSE
  OBVIOUS
<1>1. PICK n \in Nat \ S : \A m \in Nat \ S : n <= m
  BY LeastNatural
<1>2. n # 0 /\ n - 1 \in Nat /\ n - 1 \in S
  BY <1>1
<1> QED
  BY <1>1, <1>2
-----------------------------------------------------------------------------
(***************************************************************************)
(* Paths                                                                   *)
(***************************************************************************)

\* A round: a path of one more step.
Lengthened(E, w) == [s \in State |-> w[s] \cup UNION {w[t] : t \in {u \in State : <<s, u>> \in E}}]

\* What is led to by paths: the last of N rounds, each of which goes one step
\* further back.
Rounds(E, w) ==
  /\ w[0] = [s \in State |-> {s}]
  /\ \A k \in 0 .. N - 1 : w[k + 1] = Lengthened(E, w[k])

Leads(E, f) == \E w : f = w[N] /\ Rounds(E, w)

\* How Reach, Joined and Steps are computed: m rounds kept one after the other.
Unrolled(E, m, u) == u = [k \in 0 .. m |-> IF k = 0 THEN [s \in State |-> {s}] ELSE Lengthened(E, u[k - 1])]

LEMMA UnrolledAreRounds ==
  ASSUME N \in Nat, NEW E, NEW w, Unrolled(E, N, w)
  PROVE  Rounds(E, w)
<1>1. \A k \in 0 .. N : w[k] = IF k = 0 THEN [s \in State |-> {s}] ELSE Lengthened(E, w[k - 1])
  BY DEF Unrolled
<1>2. w[0] = [s \in State |-> {s}]
  BY <1>1
<1>3. ASSUME NEW k \in 0 .. N - 1 PROVE w[k + 1] = Lengthened(E, w[k])
  <2>1. k + 1 \in 0 .. N /\ k + 1 # 0 /\ (k + 1) - 1 = k
    OBVIOUS
  <2>2. w[k + 1] = Lengthened(E, w[(k + 1) - 1])
    BY <1>1, <2>1
  <2> QED
    BY <2>1, <2>2
<1> QED
  BY <1>2, <1>3 DEF Rounds

\* The function that is defined by rounds is what it is said to be.
LEMMA RoundsAreMade ==
  ASSUME N \in Nat, NEW E
  PROVE  \E w : Unrolled(E, N, w)
<1> DEFINE zero == [s \in State |-> {s}]
           Made(m, u) == u = [k \in 0 .. m |-> IF k = 0 THEN zero ELSE Lengthened(E, u[k - 1])]
           S == {m \in Nat : \E u : Made(m, u)}
<1> HIDE DEF zero
<1>1. 0 \in S
  <2>1. Made(0, [k \in 0 .. 0 |-> zero])
    OBVIOUS
  <2> QED
    BY <2>1
<1>2. ASSUME NEW m \in Nat, m \in S PROVE m + 1 \in S
  <2>1. PICK u : Made(m, u)
    BY <1>2
  <2> DEFINE v == [k \in 0 .. m + 1 |-> IF k <= m THEN u[k] ELSE Lengthened(E, u[m])]
  <2>2. Made(m + 1, v)
    <3>1. ASSUME NEW k \in 0 .. m + 1
          PROVE v[k] = IF k = 0 THEN zero ELSE Lengthened(E, v[k - 1])
      BY <2>1
    <3> QED
      BY <3>1
  <2> HIDE DEF v
  <2> QED
    BY <2>2
<1>3. PICK u : Made(N, u)
  BY <1>1, <1>2, SetInduction
<1> QED
  BY <1>3 DEF zero, Unrolled

\* A path of no steps leads from a state to itself, and none leads out of the automaton.
LEMMA PathsAreThere ==
  ASSUME N \in Nat, NEW E, NEW f, Leads(E, f)
  PROVE  /\ f \in [State -> SUBSET State]
         /\ \A s \in State : s \in f[s]
<1>1. PICK w : f = w[N] /\ Rounds(E, w)
  BY DEF Leads
<1> DEFINE T == {m \in Nat : m <= N => w[m] \in [State -> SUBSET State] /\ \A s \in State : s \in w[m][s]}
<1>2. 0 \in T
  BY <1>1 DEF Rounds
<1>3. ASSUME NEW m \in Nat, m \in T PROVE m + 1 \in T
  <2> SUFFICES ASSUME m + 1 <= N
               PROVE  w[m + 1] \in [State -> SUBSET State] /\ \A s \in State : s \in w[m + 1][s]
    OBVIOUS
  <2>1. w[m] \in [State -> SUBSET State] /\ \A s \in State : s \in w[m][s]
    BY <1>3
  <2>2. m \in 0 .. N - 1
    OBVIOUS
  <2>3. w[m + 1] = [s \in State |-> w[m][s] \cup UNION {w[m][t] : t \in {u \in State : <<s, u>> \in E}}]
    BY <1>1, <2>2 DEF Lengthened, Rounds
  <2>4. ASSUME NEW s \in State
        PROVE  w[m][s] \cup UNION {w[m][t] : t \in {u \in State : <<s, u>> \in E}} \in SUBSET State
    <3>1. \A t \in State : w[m][t] \subseteq State
      BY <2>1
    <3> QED
      BY <3>1
  <2>5. w[m + 1] \in [State -> SUBSET State]
    BY <2>3, <2>4
  <2>6. \A s \in State : w[m + 1][s] = w[m][s] \cup UNION {w[m][t] : t \in {u \in State : <<s, u>> \in E}}
    BY <2>3
  <2> QED
    BY <2>1, <2>5, <2>6
<1> HIDE DEF T
<1>4. N \in T
  BY <1>2, <1>3, SetInduction
<1> QED
  BY <1>1, <1>4 DEF T

\* What no step leads out of, no round leads out of.
LEMMA RoundsStayInside ==
  ASSUME N \in Nat, NEW E, NEW w, Rounds(E, w), NEW S \in SUBSET State,
         \A s \in S : \A u \in State : <<s, u>> \in E => u \in S,
         NEW s \in S, NEW k \in 0 .. N
  PROVE  w[k][s] \subseteq S
<1> DEFINE T == {m \in Nat : m <= N => \A x \in S : w[m][x] \subseteq S}
<1>1. 0 \in T
  BY DEF Rounds
<1>2. ASSUME NEW m \in Nat, m \in T PROVE m + 1 \in T
  <2> SUFFICES ASSUME m + 1 <= N, NEW x \in S
               PROVE  w[m + 1][x] \subseteq S
    OBVIOUS
  <2>1. m \in 0 .. N - 1 /\ x \in State
    OBVIOUS
  <2>2. w[m + 1] = [y \in State |-> w[m][y] \cup UNION {w[m][t] : t \in {u \in State : <<y, u>> \in E}}]
    BY <2>1 DEF Lengthened, Rounds
  <2>3. \A y \in S : w[m][y] \subseteq S
    BY <1>2
  <2>4. w[m + 1][x] = w[m][x] \cup UNION {w[m][t] : t \in {u \in State : <<x, u>> \in E}}
    BY <2>1, <2>2
  <2> QED
    BY <2>3, <2>4
<1> HIDE DEF T
<1>3. k \in T
  BY <1>1, <1>2, SetInduction
<1> QED
  BY <1>3 DEF T

LEMMA PathsStayInside ==
  ASSUME N \in Nat, NEW E, NEW f, Leads(E, f), NEW S \in SUBSET State,
         \A s \in S : \A u \in State : <<s, u>> \in E => u \in S,
         NEW s \in S
  PROVE  f[s] \subseteq S
<1>1. PICK w : f = w[N] /\ Rounds(E, w)
  BY DEF Leads
<1> QED
  BY <1>1, RoundsStayInside

\* A step before a path is a path: each round finds another state that leads to
\* t until all are found, so that N rounds are enough.
LEMMA PathsExtend ==
  ASSUME N \in Nat, NEW E, NEW f, Leads(E, f),
         NEW s \in State, NEW u \in State, NEW t \in State, <<s, u>> \in E, t \in f[u]
  PROVE  t \in f[s]
<1>1. PICK w : f = w[N] /\ Rounds(E, w)
  BY DEF Leads
<1> DEFINE B(k) == {x \in State : t \in w[k][x]}
           Pred(A) == A \cup {x \in State : \E y \in A : <<x, y>> \in E}
<1>2. B(0) = {t}
  BY <1>1 DEF Rounds
<1>3. \A k \in 0 .. N - 1 : B(k + 1) = Pred(B(k))
  <2> SUFFICES ASSUME NEW k \in 0 .. N - 1, NEW x \in State
               PROVE  t \in w[k + 1][x] <=> t \in w[k][x] \/ \E y \in State : t \in w[k][y] /\ <<x, y>> \in E
    OBVIOUS
  <2>1. w[k + 1] = [z \in State |-> w[k][z] \cup UNION {w[k][y] : y \in {v \in State : <<z, v>> \in E}}]
    BY <1>1 DEF Lengthened, Rounds
  <2>2. w[k + 1][x] = w[k][x] \cup UNION {w[k][y] : y \in {v \in State : <<x, v>> \in E}}
    BY <2>1
  <2> QED
    BY <2>2
<1>4. IsFiniteSet(State) /\ Cardinality(State) = N
  BY FS_Interval DEF State
<1> DEFINE Full(A) == Pred(A) = A
           T == {m \in Nat : m <= N => \/ Full(B(m))
                                       \/ IsFiniteSet(B(m)) /\ Cardinality(B(m)) > m}
<1>5. \A m \in Nat : B(m) \subseteq State
  OBVIOUS
<1> HIDE DEF B, Pred
<1>6. 0 \in T
  <2>1. IsFiniteSet({t}) /\ Cardinality({t}) = 1
    BY FS_Singleton
  <2> QED
    BY <1>2, <2>1
<1>7. ASSUME NEW m \in Nat, m \in T PROVE m + 1 \in T
  <2> SUFFICES ASSUME m + 1 <= N
               PROVE  \/ Full(B(m + 1))
                      \/ IsFiniteSet(B(m + 1)) /\ Cardinality(B(m + 1)) > m + 1
    OBVIOUS
  <2>1. B(m + 1) = Pred(B(m))
    BY <1>3
  <2>2. CASE Full(B(m))
    BY <2>1, <2>2
  <2>3. CASE ~ Full(B(m))
    <3>1. IsFiniteSet(B(m)) /\ Cardinality(B(m)) > m
      BY <1>7, <2>3
    <3>2. B(m) \subseteq B(m + 1) /\ B(m) # B(m + 1)
      BY <2>1, <2>3 DEF Pred
    <3>3. IsFiniteSet(B(m + 1))
      BY <1>4, <1>5, FS_Subset
    <3>4. Cardinality(B(m)) <= Cardinality(B(m + 1)) /\ Cardinality(B(m)) # Cardinality(B(m + 1))
      BY <3>2, <3>3, FS_Subset
    <3>5. Cardinality(B(m)) \in Nat /\ Cardinality(B(m + 1)) \in Nat
      BY <3>1, <3>3, FS_CardinalityType
    <3> QED
      BY <3>1, <3>3, <3>4, <3>5
  <2> QED
    BY <2>2, <2>3
<1>8. Nat \subseteq T
  <2> HIDE DEF T
  <2> QED
    BY <1>6, <1>7, SetInduction
<1>9. Full(B(N))
  <2> SUFFICES ASSUME IsFiniteSet(B(N)), Cardinality(B(N)) > N PROVE FALSE
    BY <1>8
  <2>1. Cardinality(B(N)) <= N
    BY <1>4, <1>5, FS_Subset
  <2>2. Cardinality(B(N)) \in Nat
    BY FS_CardinalityType
  <2> QED
    BY <2>1, <2>2
<1>10. u \in B(N)
  BY <1>1 DEF B
<1>11. s \in B(N)
  BY <1>9, <1>10 DEF Pred
<1> QED
  BY <1>1, <1>11 DEF B

\* Two paths one after the other are a path.
LEMMA PathsJoin ==
  ASSUME N \in Nat, NEW E, NEW f, Leads(E, f), NEW s \in State, NEW t \in f[s], NEW u \in f[t]
  PROVE  u \in f[s]
<1> DEFINE S == {x \in State : u \notin f[x]}
<1>1. f \in [State -> SUBSET State]
  BY PathsAreThere
<1>2. t \in State /\ u \in State
  BY <1>1
<1>3. \A x \in S : \A y \in State : <<x, y>> \in E => y \in S
  BY <1>2, PathsExtend
<1>4. SUFFICES ASSUME s \in S PROVE FALSE
  OBVIOUS
<1>5. f[s] \subseteq S
  <2> HIDE DEF S
  <2>1. S \in SUBSET State
    BY DEF S
  <2> QED
    BY <1>3, <1>4, <2>1, PathsStayInside
<1> QED
  BY <1>5

\* The arcs of the automaton, and the paths they make.
Arcs == {p \in State \X State : Arc(p[1], p[2])}

LEMMA ReachIsByArcs ==
  ASSUME N \in Nat
  PROVE  Leads(Arcs, Reach) /\ \A s, u \in State : <<s, u>> \in Arcs <=> Arc(s, u)
<1>1. \A s, u \in State : <<s, u>> \in Arcs <=> Arc(s, u)
  BY DEF Arcs
<1> DEFINE Further(u, s) == u[s] \cup UNION {u[t] : t \in {v \in State : Arc(s, v)}}
           Within(u) == u = [k \in 0 .. N |-> IF k = 0 THEN [s \in State |-> {s}]
                                              ELSE [s \in State |-> Further(u[k - 1], s)]]
<1>2. Reach = (CHOOSE u : Within(u))[N]
  BY DEF Reach
<1>3. \A u : Lengthened(Arcs, u) = [s \in State |-> Further(u, s)]
  <2> SUFFICES ASSUME NEW u, NEW s \in State
               PROVE  u[s] \cup UNION {u[t] : t \in {v \in State : <<s, v>> \in Arcs}} = Further(u, s)
    BY DEF Lengthened
  <2>1. {v \in State : <<s, v>> \in Arcs} = {v \in State : Arc(s, v)}
    BY <1>1
  <2> QED
    BY <2>1
<1> HIDE DEF Further
<1>4. ASSUME NEW u PROVE Within(u) <=> Unrolled(Arcs, N, u)
  <2> DEFINE first == [s \in State |-> {s}]
             other(k) == [s \in State |-> Further(u[k - 1], s)]
  <2>1. \A k : other(k) = Lengthened(Arcs, u[k - 1])
    BY <1>3
  <2> HIDE DEF first, other
  <2>2. [k \in 0 .. N |-> IF k = 0 THEN first ELSE other(k)]
          = [k \in 0 .. N |-> IF k = 0 THEN first ELSE Lengthened(Arcs, u[k - 1])]
    BY <2>1
  <2> QED
    BY <2>2 DEF Unrolled, first, other
<1> HIDE DEF Within
<1>5. PICK u : Unrolled(Arcs, N, u)
  BY RoundsAreMade
<1>6. Within(CHOOSE v : Within(v))
  BY <1>4, <1>5
<1>7. Unrolled(Arcs, N, CHOOSE v : Within(v))
  BY <1>4, <1>6
<1> QED
  BY <1>1, <1>2, <1>7, UnrolledAreRounds DEF Leads

LEMMA ReachBasics ==
  ASSUME N \in Nat
  PROVE  /\ Reach \in [State -> SUBSET State]
         /\ \A s \in State : s \in Reach[s]
  BY ReachIsByArcs, PathsAreThere

LEMMA ReachStaysInside ==
  ASSUME N \in Nat, NEW S \in SUBSET State,
         \A s \in S : \A u \in State : Arc(s, u) => u \in S,
         NEW s \in S
  PROVE  Reach[s] \subseteq S
<1>1. \A x \in S : \A u \in State : <<x, u>> \in Arcs => u \in S
  BY ReachIsByArcs
<1> QED
  BY <1>1, ReachIsByArcs, PathsStayInside

LEMMA ReachExtends ==
  ASSUME N \in Nat, NEW s \in State, NEW u \in State, NEW t \in State, Arc(s, u), t \in Reach[u]
  PROVE  t \in Reach[s]
  BY ReachIsByArcs, PathsExtend

LEMMA ReachJoins ==
  ASSUME N \in Nat, NEW s \in State, NEW t \in Reach[s], NEW u \in Reach[t]
  PROVE  u \in Reach[s]
  BY ReachIsByArcs, PathsJoin

-----------------------------------------------------------------------------
(***************************************************************************)
(* The search                                                              *)
(***************************************************************************)

DepthFirst == visitor \in {"Scc", "Top", "Cc"}

FrameType == [state : State, left : Seq(State), parent : State \cup {None}]

SweepTypeOK ==
  /\ fst \in FstType
  /\ color \in [State -> {"White", "Grey", "Black"}]
  /\ dfs \in BOOLEAN
  /\ root \in (0 .. N) \cup {None}
  /\ nstates \in 0 .. N /\ siter \in 0 .. N
  /\ at \in {"roots", "tree", "done"}

SearchTypeOK ==
  /\ fst \in FstType
  /\ color \in [State -> {"White", "Grey", "Black"}]
  /\ stack \in Seq(FrameType)
  /\ dfs \in BOOLEAN
  /\ root \in (0 .. N) \cup {None}
  /\ nstates \in 0 .. N /\ siter \in 0 .. N
  /\ at \in {"roots", "tree", "done"}

\* No state is open twice, and the oldest frame is the root's.
FramesDiffer ==
  /\ \A i, j \in 1 .. Len(stack) : stack[i].state = stack[j].state => i = j
  /\ stack # <<>> => stack[Len(stack)].state = root /\ stack[Len(stack)].parent = None

\* What a frame has left is the end of its state's arcs, and the n states that
\* those before lead to have been met.
Walks(arcs, rest, colors, n) ==
  /\ Len(rest) + n = Len(arcs)
  /\ \A k \in 1 .. Len(rest) : rest[k] = arcs[n + k]
  /\ \A k \in 1 .. n : colors[arcs[k]] # "White"

FrameWalks(f, arcs, colors) == \E n \in Nat : Walks(arcs[f.state], f.left, colors, n)

FramesWalk == \A i \in 1 .. Len(stack) : FrameWalks(stack[i], fst.arcs, color)

\* What was met before a state finished, unless the search was stopped.
BlacksLeadOn ==
  dfs => \A s \in State : color[s] = "Black" => \A t \in State : Arc(s, t) => color[t] # "White"

\* The roots sweep the states: those before one have been met, but for the first
\* root, and those not known of have not.
RootsSweep ==
  /\ at # "tree" => stack = <<>>
  /\ at # "done" => root \in State /\ root < nstates /\ fst.start # None
  /\ at # "done" /\ root # fst.start => \A s \in State : s < root => color[s] # "White"
  /\ at = "roots" => dfs /\ color[root] = "White"
  /\ at = "tree" => color[root] # "White"
  /\ \A s \in State : s >= nstates => color[s] = "White"
  /\ fst.start # None => IF fst.known THEN nstates = N ELSE siter <= nstates
  /\ at = "done" /\ dfs /\ fst.start # None => \A s \in State : color[s] # "White"

SearchInv == SearchTypeOK /\ StackIsAPath /\ FramesDiffer /\ FramesWalk /\ BlacksLeadOn /\ RootsSweep

\* A turn of the search, whatever the visitor does at it.
Turn ==
  \/ OpenTree(TRUE) \/ TreeArc(TRUE) \/ ForwardOrCrossArc(TRUE)
  \/ \E go \in BOOLEAN : BackArc(go)
  \/ FinishState \/ CloseTree

\* The visitors of a depth-first search leave the search to itself.
LEMMA NextTurns ==
  ASSUME DepthFirst, [Next]_searching
  PROVE  DepthFirst' /\ (Turn \/ UNCHANGED search)
<1>1. CASE Next
  BY <1>1 DEF DepthFirst, Next, SccNext, TopNext, CcNext, Turn
<1>2. CASE UNCHANGED searching
  BY <1>2 DEF DepthFirst, searching, search
<1> QED
  BY <1>1, <1>2

\* The arc a frame takes is one of its state's.
LEMMA WalkTakesAnArc ==
  ASSUME NEW arcs \in Seq(State), NEW rest \in Seq(State), rest # <<>>, NEW colors, NEW n \in Nat,
         Walks(arcs, rest, colors, n)
  PROVE  n + 1 \in 1 .. Len(arcs) /\ Head(rest) = arcs[n + 1] /\ Head(rest) \in State
<1>1. Len(rest) \in Nat \ {0} /\ Len(arcs) \in Nat /\ 1 \in 1 .. Len(rest)
  BY DEF Walks
<1>2. n + 1 \in 1 .. Len(arcs)
  BY <1>1 DEF Walks
<1>3. rest[1] = arcs[n + 1]
  BY <1>1 DEF Walks
<1> QED
  BY <1>2, <1>3

\* What a frame has taken leads on whatever else is met.
LEMMA WalkKeepsOn ==
  ASSUME NEW arcs \in Seq(State), NEW rest \in Seq(State), NEW colors, NEW n \in Nat, Walks(arcs, rest, colors, n),
         NEW more, \A s \in State : colors[s] # "White" => more[s] # "White"
  PROVE  Walks(arcs, rest, more, n)
<1>1. Len(rest) \in Nat /\ Len(arcs) \in Nat /\ n <= Len(arcs)
  BY DEF Walks
<1>2. \A k \in 1 .. n : k \in 1 .. Len(arcs)
  BY <1>1
<1>3. \A k \in 1 .. n : arcs[k] \in State
  BY <1>2
<1> QED
  BY <1>3 DEF Walks

\* A frame moves past an arc to a state that has been met.
LEMMA WalkMovesOn ==
  ASSUME NEW arcs \in Seq(State), NEW rest \in Seq(State), rest # <<>>, NEW colors, NEW n \in Nat,
         Walks(arcs, rest, colors, n), colors[Head(rest)] # "White"
  PROVE  Walks(arcs, Tail(rest), colors, n + 1)
<1>1. Len(rest) \in Nat \ {0} /\ Len(arcs) \in Nat /\ Len(rest) + n = Len(arcs)
  BY DEF Walks
<1>2. Len(Tail(rest)) = Len(rest) - 1
  BY <1>1
<1>3. Len(Tail(rest)) + (n + 1) = Len(arcs)
  BY <1>1, <1>2
<1>4. ASSUME NEW k \in 1 .. Len(Tail(rest)) PROVE Tail(rest)[k] = arcs[(n + 1) + k]
  <2>1. k + 1 \in 1 .. Len(rest) /\ n + (k + 1) = (n + 1) + k
    BY <1>1, <1>2
  <2>2. Tail(rest)[k] = rest[k + 1]
    BY <1>1, <1>2
  <2> QED
    BY <2>1, <2>2 DEF Walks
<1>5. \A k \in 1 .. n + 1 : k = n + 1 \/ k \in 1 .. n
  OBVIOUS
<1>6. \A k \in 1 .. n + 1 : colors[arcs[k]] # "White"
  BY <1>5, WalkTakesAnArc DEF Walks
<1> QED
  BY <1>3, <1>4, <1>6 DEF Walks

\* What taking an arc makes of the frame on top.
LEMMA AdvancedFrames ==
  ASSUME SearchInv, stack # <<>>, Top.left # <<>>
  PROVE  /\ Top \in FrameType /\ Target \in State
         /\ Advanced \in Seq(FrameType) /\ Len(Advanced) = Len(stack) /\ Len(stack) \in Nat \ {0}
         /\ Advanced[1].state = Top.state /\ Advanced[1].parent = Top.parent /\ Advanced[1].left = Tail(Top.left)
         /\ \A i \in 2 .. Len(stack) : Advanced[i] = stack[i]
         /\ \A i \in 1 .. Len(stack) : Advanced[i].state = stack[i].state /\ Advanced[i].parent = stack[i].parent
         /\ Arc(Top.state, Target)
<1>1. /\ stack \in Seq(FrameType) /\ Len(stack) \in Nat \ {0} /\ 1 \in 1 .. Len(stack)
      /\ Top = stack[1] /\ Top \in FrameType
  BY DEF SearchInv, SearchTypeOK, Top
<1>2. Top.left \in Seq(State) /\ Len(Top.left) \in Nat \ {0} /\ Target = Top.left[1] /\ Target \in State
  BY <1>1 DEF FrameType, Target
<1>3. Tail(Top.left) \in Seq(State)
  BY <1>2
<1>4. [Top EXCEPT !.left = Tail(@)] \in FrameType
  BY <1>1, <1>3 DEF FrameType
<1>5. /\ Advanced \in Seq(FrameType) /\ Len(Advanced) = Len(stack)
      /\ Advanced[1] = [Top EXCEPT !.left = Tail(@)]
      /\ \A i \in 2 .. Len(stack) : Advanced[i] = stack[i]
  BY <1>1, <1>4 DEF Advanced
<1>6. Advanced[1].state = Top.state /\ Advanced[1].parent = Top.parent /\ Advanced[1].left = Tail(Top.left)
  BY <1>1, <1>5 DEF FrameType
<1>7. \A i \in 1 .. Len(stack) : Advanced[i].state = stack[i].state /\ Advanced[i].parent = stack[i].parent
  <2> TAKE i \in 1 .. Len(stack)
  <2>1. CASE i = 1
    BY <1>1, <1>6, <2>1
  <2>2. CASE i # 1
    BY <1>1, <1>5, <2>2
  <2> QED
    BY <2>1, <2>2
<1>8. fst.arcs[Top.state] \in Seq(State)
  BY <1>1 DEF SearchInv, SearchTypeOK, FstType, FrameType
<1>9. PICK n \in Nat : Walks(fst.arcs[Top.state], Top.left, color, n)
  BY <1>1 DEF SearchInv, FramesWalk, FrameWalks
<1>10. Target = fst.arcs[Top.state][n + 1] /\ n + 1 \in 1 .. Len(fst.arcs[Top.state])
  BY <1>2, <1>8, <1>9, WalkTakesAnArc DEF Target
<1>11. Arc(Top.state, Target)
  BY <1>10 DEF Arc
<1> QED
  BY <1>1, <1>2, <1>5, <1>6, <1>7, <1>11

\* A frame moves past the arc it takes once that leads to a state that has been met.
LEMMA FramesMoveOn ==
  ASSUME SearchInv, stack # <<>>, Top.left # <<>>,
         NEW colors, \A s \in State : color[s] # "White" => colors[s] # "White", colors[Target] # "White"
  PROVE  \A i \in 1 .. Len(stack) : FrameWalks(Advanced[i], fst.arcs, colors)
<1>1. /\ Top \in FrameType /\ Len(stack) \in Nat \ {0} /\ 1 \in 1 .. Len(stack) /\ Top = stack[1]
      /\ Advanced[1].state = Top.state /\ Advanced[1].left = Tail(Top.left)
      /\ \A i \in 2 .. Len(stack) : Advanced[i] = stack[i]
  BY AdvancedFrames DEF Top
<1>2. ASSUME NEW i \in 1 .. Len(stack)
      PROVE  \E n \in Nat : Walks(fst.arcs[stack[i].state], stack[i].left, colors, n)
  <2>1. stack[i] \in FrameType
    BY DEF SearchInv, SearchTypeOK
  <2>2. fst.arcs[stack[i].state] \in Seq(State) /\ stack[i].left \in Seq(State)
    BY <2>1 DEF SearchInv, SearchTypeOK, FstType, FrameType
  <2>3. PICK n \in Nat : Walks(fst.arcs[stack[i].state], stack[i].left, color, n)
    BY DEF SearchInv, FramesWalk, FrameWalks
  <2> QED
    BY <2>2, <2>3, WalkKeepsOn
<1>3. PICK n \in Nat : Walks(fst.arcs[Top.state], Top.left, colors, n)
  BY <1>1, <1>2
<1>4. fst.arcs[Top.state] \in Seq(State) /\ Top.left \in Seq(State)
  BY <1>1 DEF SearchInv, SearchTypeOK, FstType, FrameType
<1>5. Walks(fst.arcs[Top.state], Tail(Top.left), colors, n + 1)
  BY <1>3, <1>4, WalkMovesOn DEF Target
<1>6. FrameWalks(Advanced[1], fst.arcs, colors)
  BY <1>1, <1>5 DEF FrameWalks
<1>7. \A i \in 2 .. Len(stack) : FrameWalks(Advanced[i], fst.arcs, colors)
  BY <1>1, <1>2 DEF FrameWalks
<1> QED
  BY <1>1, <1>6, <1>7

\* A root opens the only frame there is.
LEMMA OpeningKeeps ==
  ASSUME FstsAssumption, SearchInv, OpenTree(TRUE)
  PROVE  SearchInv'
<1>1. /\ stack = <<>> /\ root \in State /\ root < nstates /\ color[root] = "White" /\ fst.start # None
      /\ N \in Nat /\ None \notin Nat
  BY DEF OpenTree, SearchInv, RootsSweep, FstsAssumption
<1>2. /\ fst' = fst /\ nstates' = nstates /\ siter' = siter /\ root' = root /\ at' = "tree" /\ at = "roots" /\ dfs' = TRUE
      /\ color' = [color EXCEPT ![root] = "Grey"] /\ stack' = <<Frame(root, None)>>
  BY DEF OpenTree
<1>3. SearchTypeOK
  BY DEF SearchInv
<1>4. fst.arcs[root] \in Seq(State)
  BY <1>1, <1>3 DEF SearchTypeOK, FstType
<1>5. Frame(root, None) \in FrameType
  BY <1>1, <1>4 DEF Frame, FrameType
<1>6. /\ Len(stack') = 1 /\ stack'[1] = Frame(root, None)
      /\ stack'[1].state = root /\ stack'[1].parent = None /\ stack'[1].left = fst.arcs[root]
  BY <1>2 DEF Frame
<1>7. SearchTypeOK'
  <2>1. stack' \in Seq(FrameType)
    BY <1>2, <1>5
  <2>2. color' \in [State -> {"White", "Grey", "Black"}]
    BY <1>1, <1>2, <1>3 DEF SearchTypeOK
  <2> QED
    BY <1>2, <1>3, <2>1, <2>2 DEF SearchTypeOK
<1>8. StackIsAPath'
  <2>1. {s \in State : color[s] = "Grey"} = {}
    BY <1>1 DEF SearchInv, StackIsAPath
  <2>2. {s \in State : color'[s] = "Grey"} = {root}
    BY <1>1, <1>2, <1>3, <2>1 DEF SearchTypeOK
  <2>3. {stack'[i].state : i \in 1 .. Len(stack')} = {root}
    BY <1>6
  <2>4. 1 .. Len(stack') - 1 = {}
    BY <1>6
  <2> QED
    BY <2>2, <2>3, <2>4 DEF StackIsAPath
<1>9. FramesDiffer'
  BY <1>2, <1>6 DEF FramesDiffer
<1>10. FramesWalk'
  <2>1. Walks(fst.arcs[root], fst.arcs[root], color', 0)
    BY <1>4 DEF Walks
  <2>2. FrameWalks(stack'[1], fst.arcs, color')
    BY <1>6, <2>1 DEF FrameWalks
  <2> QED
    BY <1>2, <1>6, <2>2 DEF FramesWalk
<1>11. BlacksLeadOn'
  BY <1>1, <1>2, <1>3 DEF SearchInv, BlacksLeadOn, SearchTypeOK, Arc, OpenTree, RootsSweep
<1>12. RootsSweep'
  BY <1>1, <1>2, <1>3 DEF SearchInv, RootsSweep, SearchTypeOK
<1> QED
  BY <1>7, <1>8, <1>9, <1>10, <1>11, <1>12 DEF SearchInv

\* What stays of the invariant when states are met and frames move on.
LEMMA MeetingKeeps ==
  ASSUME FstsAssumption, SearchInv, Taking, color' \in [State -> {"White", "Grey", "Black"}], dfs' \in BOOLEAN,
         \A s \in State : color[s] # "White" => color'[s] # "White",
         \A s \in State : color'[s] # "White" => color[s] # "White" \/ s = Target,
         \A s \in State : color'[s] = "Black" => color[s] = "Black"
  PROVE  BlacksLeadOn' /\ RootsSweep'
<1>1. /\ at = "tree" /\ stack # <<>> /\ dfs = TRUE /\ Top.left # <<>> /\ nstates' = Larger(nstates, Target + 1)
      /\ fst' = fst /\ root' = root /\ siter' = siter /\ at' = at
  BY DEF Taking, SearchInv, SearchTypeOK
<1>2. Target \in State /\ N \in Nat
  BY <1>1, AdvancedFrames DEF FstsAssumption
<1>3. BlacksLeadOn'
  BY <1>1 DEF SearchInv, BlacksLeadOn, Arc
<1>4. SearchTypeOK /\ RootsSweep
  BY DEF SearchInv
<1>5. nstates' \in 0 .. N /\ nstates <= nstates' /\ Target < nstates' /\ nstates \in 0 .. N /\ Target \in 0 .. N - 1
  BY <1>1, <1>2, <1>4 DEF Larger, State, SearchTypeOK
<1>6. \A s \in State : s >= nstates' => color'[s] = "White"
  <2> TAKE s \in State
  <2>1. s \in 0 .. N - 1
    BY DEF State
  <2>2. s >= nstates' => s >= nstates /\ s # Target
    BY <1>5, <2>1
  <2> QED
    BY <2>2, <1>4 DEF RootsSweep
<1>7. fst.start # None => IF fst.known THEN nstates' = N ELSE siter <= nstates'
  <2>1. siter \in 0 .. N
    BY <1>4 DEF SearchTypeOK
  <2>2. fst.start # None => IF fst.known THEN nstates = N ELSE siter <= nstates
    BY <1>4 DEF RootsSweep
  <2> QED
    BY <1>5, <2>1, <2>2
<1>8. root \in State /\ root < nstates /\ fst.start # None /\ color[root] # "White"
      /\ (root # fst.start => \A s \in State : s < root => color[s] # "White")
  BY <1>1, <1>4 DEF RootsSweep
<1>9. root < nstates'
  BY <1>5, <1>8 DEF State
<1>10. root # fst.start => \A s \in State : s < root => color'[s] # "White"
  BY <1>8
<1>11. RootsSweep'
  BY <1>1, <1>6, <1>7, <1>8, <1>9, <1>10 DEF RootsSweep
<1> QED
  BY <1>3, <1>11


\* An arc to a state not met opens a frame above.
LEMMA DescendingKeeps ==
  ASSUME FstsAssumption, SearchInv, TreeArc(TRUE)
  PROVE  SearchInv'
<1>1. /\ Taking /\ stack # <<>> /\ Top.left # <<>> /\ color[Target] = "White" /\ dfs' = TRUE
      /\ fst' = fst /\ root' = root /\ siter' = siter /\ at' = at /\ at = "tree"
      /\ color' = [color EXCEPT ![Target] = "Grey"] /\ stack' = <<Frame(Target, Top.state)>> \o Advanced
      /\ nstates' = Larger(nstates, Target + 1)
  BY DEF TreeArc, Taking
<1>2. SearchTypeOK /\ N \in Nat /\ None \notin State
  BY DEF SearchInv, FstsAssumption, State
<1>3. /\ Top \in FrameType /\ Target \in State
      /\ Advanced \in Seq(FrameType) /\ Len(Advanced) = Len(stack) /\ Len(stack) \in Nat \ {0}
      /\ Advanced[1].state = Top.state /\ Advanced[1].parent = Top.parent /\ Advanced[1].left = Tail(Top.left)
      /\ \A i \in 2 .. Len(stack) : Advanced[i] = stack[i]
      /\ \A i \in 1 .. Len(stack) : Advanced[i].state = stack[i].state /\ Advanced[i].parent = stack[i].parent
      /\ Arc(Top.state, Target)
  BY <1>1, AdvancedFrames
<1>4. fst.arcs[Target] \in Seq(State) /\ Top.state \in State
  BY <1>2, <1>3 DEF SearchTypeOK, FstType, FrameType
<1>5. Frame(Target, Top.state) \in FrameType
  BY <1>3, <1>4 DEF Frame, FrameType
<1>6. /\ stack' \in Seq(FrameType) /\ Len(stack') = Len(stack) + 1
      /\ stack'[1] = Frame(Target, Top.state) /\ \A i \in 1 .. Len(stack) : stack'[i + 1] = Advanced[i]
  BY <1>1, <1>3, <1>5
<1>7. stack'[1].state = Target /\ stack'[1].parent = Top.state /\ stack'[1].left = fst.arcs[Target]
  BY <1>6 DEF Frame
<1>8. /\ color' \in [State -> {"White", "Grey", "Black"}] /\ color'[Target] = "Grey"
      /\ \A s \in State : s # Target => color'[s] = color[s]
  BY <1>1, <1>2, <1>3 DEF SearchTypeOK
<1>9. BlacksLeadOn' /\ RootsSweep'
  BY <1>1, <1>8, MeetingKeeps
<1>10. SearchTypeOK'
  <2>1. nstates' \in 0 .. N
    BY <1>1, <1>2, <1>3 DEF SearchTypeOK, Larger, State
  <2> QED
    BY <1>1, <1>2, <1>6, <1>8, <2>1 DEF SearchTypeOK
<1>11. \A i \in 1 .. Len(stack') : i # 1 => i - 1 \in 1 .. Len(stack) /\ stack'[i] = Advanced[i - 1]
                                           /\ stack'[i].state = stack[i - 1].state
  <2> TAKE i \in 1 .. Len(stack')
  <2> HAVE i # 1
  <2>1. Len(stack') = Len(stack) + 1 /\ Len(stack) \in Nat
    BY <1>3, <1>6
  <2>2. i - 1 \in 1 .. Len(stack) /\ (i - 1) + 1 = i
    BY <2>1
  <2>3. stack'[(i - 1) + 1] = Advanced[i - 1] /\ Advanced[i - 1].state = stack[i - 1].state
    BY <1>3, <1>6, <2>2
  <2> QED
    BY <2>2, <2>3
<1>12. \A i \in 1 .. Len(stack) : i + 1 \in 1 .. Len(stack') /\ stack'[i + 1].state = stack[i].state
                                  /\ stack'[i + 1].parent = stack[i].parent
  BY <1>3, <1>6
<1>13. 1 \in 1 .. Len(stack') /\ 1 \in 1 .. Len(stack) /\ stack[1] = Top
  BY <1>3, <1>6 DEF Top
<1>14. StackIsAPath
  BY DEF SearchInv
<1>15. StackIsAPath'
  <2>1. {s \in State : color'[s] = "Grey"} = {s \in State : color[s] = "Grey"} \cup {Target}
    BY <1>3, <1>8
  <2>2. {stack'[i].state : i \in 1 .. Len(stack')} = {stack[i].state : i \in 1 .. Len(stack)} \cup {Target}
    <3>1. ASSUME NEW i \in 1 .. Len(stack')
          PROVE  stack'[i].state = Target \/ \E j \in 1 .. Len(stack) : stack'[i].state = stack[j].state
      BY <1>7, <1>11
    <3>2. ASSUME NEW i \in 1 .. Len(stack)
          PROVE  \E j \in 1 .. Len(stack') : stack[i].state = stack'[j].state
      BY <1>12
    <3>3. \E j \in 1 .. Len(stack') : Target = stack'[j].state
      BY <1>7, <1>13
    <3>4. {stack'[i].state : i \in 1 .. Len(stack')} \subseteq {stack[i].state : i \in 1 .. Len(stack)} \cup {Target}
      BY <3>1
    <3>5. {stack[i].state : i \in 1 .. Len(stack)} \cup {Target} \subseteq {stack'[i].state : i \in 1 .. Len(stack')}
      BY <3>2, <3>3
    <3> QED
      BY <3>4, <3>5
  <2>3. ASSUME NEW i \in 1 .. Len(stack') - 1
        PROVE  stack'[i].parent = stack'[i + 1].state /\ Arc(stack'[i].parent, stack'[i].state)
    <3>1. CASE i = 1
      <4>1. stack'[2].state = Top.state
        BY <1>3, <1>12, <1>13
      <4> QED
        BY <1>3, <1>7, <3>1, <4>1
    <3>2. CASE i # 1
      <4>0. Len(stack') = Len(stack) + 1 /\ Len(stack) \in Nat
        BY <1>3, <1>6
      <4>1. i - 1 \in 1 .. Len(stack) - 1 /\ (i - 1) + 1 = i /\ i \in 1 .. Len(stack) /\ i - 1 \in 1 .. Len(stack)
        BY <3>2, <4>0
      <4>2. stack[i - 1].parent = stack[i].state /\ Arc(stack[i - 1].parent, stack[i - 1].state)
        BY <1>14, <4>1 DEF StackIsAPath
      <4>3. /\ stack'[i].state = stack[i - 1].state /\ stack'[i].parent = stack[i - 1].parent
            /\ stack'[i + 1].state = stack[i].state
        BY <1>12, <4>1
      <4> QED
        BY <4>2, <4>3
    <3> QED
      BY <3>1, <3>2
  <2>4. {s \in State : color'[s] = "Grey"} = {stack'[i].state : i \in 1 .. Len(stack')}
    BY <1>14, <2>1, <2>2 DEF StackIsAPath
  <2> QED
    BY <1>1, <2>3, <2>4 DEF StackIsAPath, Arc
<1>16. FramesDiffer'
  <2>1. FramesDiffer
    BY DEF SearchInv
  <2>2. \A i \in 1 .. Len(stack) : stack[i].state # Target
    <3>1. \A i \in 1 .. Len(stack) : color[stack[i].state] = "Grey"
      BY <1>14 DEF StackIsAPath
    <3> QED
      BY <1>1, <3>1
  <2>3. ASSUME NEW i \in 1 .. Len(stack'), NEW j \in 1 .. Len(stack'), stack'[i].state = stack'[j].state
        PROVE  i = j
    <3>1. i # 1 /\ j # 1 => i - 1 = j - 1
      BY <1>11, <2>1, <2>3 DEF FramesDiffer
    <3>2. i # 1 => stack'[i].state # Target
      BY <1>11, <2>2
    <3>3. j # 1 => stack'[j].state # Target
      BY <1>11, <2>2
    <3> QED
      BY <1>7, <2>3, <3>1, <3>2, <3>3
  <2>4. stack'[Len(stack')].state = stack[Len(stack)].state /\ stack'[Len(stack')].parent = stack[Len(stack)].parent
    <3>1. Len(stack) \in 1 .. Len(stack)
      BY <1>3
    <3> QED
      BY <1>6, <1>12, <3>1
  <2> QED
    BY <1>1, <2>1, <2>3, <2>4 DEF FramesDiffer
<1>17. FramesWalk'
  <2>1. \A i \in 1 .. Len(stack) : FrameWalks(Advanced[i], fst.arcs, color')
    BY <1>1, <1>8, FramesMoveOn
  <2>2. FrameWalks(stack'[1], fst.arcs, color')
    <3>1. Walks(fst.arcs[Target], fst.arcs[Target], color', 0)
      BY <1>4 DEF Walks
    <3> QED
      BY <1>7, <3>1 DEF FrameWalks
  <2>3. ASSUME NEW i \in 1 .. Len(stack')
        PROVE  FrameWalks(stack'[i], fst.arcs, color')
    BY <1>11, <2>1, <2>2
  <2> QED
    BY <1>1, <2>3 DEF FramesWalk
<1> QED
  BY <1>9, <1>10, <1>15, <1>16, <1>17 DEF SearchInv


\* An arc to a state that has been met moves the frame past it.
LEMMA PassingKeeps ==
  ASSUME FstsAssumption, SearchInv, ForwardOrCrossArc(TRUE) \/ \E go \in BOOLEAN : BackArc(go)
  PROVE  SearchInv'
<1>1. /\ Taking /\ stack # <<>> /\ Top.left # <<>> /\ color[Target] # "White" /\ dfs' \in BOOLEAN
      /\ fst' = fst /\ root' = root /\ siter' = siter /\ at' = at /\ at = "tree"
      /\ color' = color /\ stack' = Advanced /\ nstates' = Larger(nstates, Target + 1)
  BY DEF ForwardOrCrossArc, BackArc, Taking
<1>2. SearchTypeOK /\ N \in Nat
  BY DEF SearchInv, FstsAssumption
<1>3. /\ Target \in State /\ Advanced \in Seq(FrameType) /\ Len(Advanced) = Len(stack) /\ Len(stack) \in Nat \ {0}
      /\ \A i \in 1 .. Len(stack) : Advanced[i].state = stack[i].state /\ Advanced[i].parent = stack[i].parent
  BY <1>1, AdvancedFrames
<1>4. BlacksLeadOn' /\ RootsSweep'
  BY <1>1, <1>2, MeetingKeeps DEF SearchTypeOK
<1>5. SearchTypeOK'
  <2>1. nstates' \in 0 .. N
    BY <1>1, <1>2, <1>3 DEF SearchTypeOK, Larger, State
  <2> QED
    BY <1>1, <1>2, <1>3, <2>1 DEF SearchTypeOK
<1>6. StackIsAPath'
  <2>1. StackIsAPath
    BY DEF SearchInv
  <2>2. {stack'[i].state : i \in 1 .. Len(stack')} = {stack[i].state : i \in 1 .. Len(stack)}
    BY <1>1, <1>3
  <2>3. ASSUME NEW i \in 1 .. Len(stack') - 1
        PROVE  stack'[i].parent = stack'[i + 1].state /\ Arc(stack'[i].parent, stack'[i].state)
    <3>1. i \in 1 .. Len(stack) - 1 /\ i \in 1 .. Len(stack) /\ i + 1 \in 1 .. Len(stack)
      BY <1>1, <1>3
    <3> QED
      BY <1>1, <1>3, <2>1, <3>1 DEF StackIsAPath
  <2>4. {s \in State : color'[s] = "Grey"} = {stack'[i].state : i \in 1 .. Len(stack')}
    BY <1>1, <2>1, <2>2 DEF StackIsAPath
  <2> QED
    BY <1>1, <2>3, <2>4 DEF StackIsAPath, Arc
<1>7. FramesDiffer'
  <2>1. Len(stack) \in 1 .. Len(stack)
    BY <1>3
  <2> QED
    BY <1>1, <1>3, <2>1 DEF SearchInv, FramesDiffer
<1>8. FramesWalk'
  <2>1. \A i \in 1 .. Len(stack) : FrameWalks(Advanced[i], fst.arcs, color)
    BY <1>1, FramesMoveOn
  <2> QED
    BY <1>1, <1>3, <2>1 DEF FramesWalk
<1> QED
  BY <1>4, <1>5, <1>6, <1>7, <1>8 DEF SearchInv

\* What a frame that finishes leaves.
LEMMA FinishedFrames ==
  ASSUME SearchInv, FinishState
  PROVE  /\ Top \in FrameType /\ Top.state \in State /\ Top = stack[1] /\ color[Top.state] = "Grey"
         /\ Len(stack) \in Nat \ {0} /\ stack' \in Seq(FrameType) /\ Len(stack') = Len(stack) - 1
         /\ \A i \in 1 .. Len(stack) - 1 : stack'[i] = stack[i + 1]
         /\ \A i \in 2 .. Len(stack) : stack[i].state # Top.state
         /\ color' \in [State -> {"White", "Grey", "Black"}] /\ color'[Top.state] = "Black"
         /\ \A s \in State : s # Top.state => color'[s] = color[s]
<1>1. SearchTypeOK /\ stack # <<>> /\ stack' = Tail(stack) /\ color' = [color EXCEPT ![Top.state] = "Black"]
  BY DEF SearchInv, FinishState
<1>2. /\ stack \in Seq(FrameType) /\ Len(stack) \in Nat \ {0} /\ 1 \in 1 .. Len(stack)
      /\ Top = stack[1] /\ Top \in FrameType
  BY <1>1 DEF SearchTypeOK, Top
<1>3. Top.state \in State
  BY <1>2 DEF FrameType
<1>4. stack' \in Seq(FrameType) /\ Len(stack') = Len(stack) - 1 /\ \A i \in 1 .. Len(stack) - 1 : stack'[i] = stack[i + 1]
  BY <1>1, <1>2
<1>5. \A i \in 2 .. Len(stack) : stack[i].state # Top.state
  BY <1>2 DEF SearchInv, FramesDiffer
<1>6. color[Top.state] = "Grey"
  BY <1>2, <1>3 DEF SearchInv, StackIsAPath
<1>7. /\ color' \in [State -> {"White", "Grey", "Black"}] /\ color'[Top.state] = "Black"
      /\ \A s \in State : s # Top.state => color'[s] = color[s]
  BY <1>1, <1>3 DEF SearchTypeOK
<1> QED
  BY <1>2, <1>3, <1>4, <1>5, <1>6, <1>7

\* A frame finishes when its arcs are taken, or the search has stopped.
LEMMA FinishingKeeps ==
  ASSUME FstsAssumption, SearchInv, FinishState
  PROVE  SearchInv'
<1>1. /\ at = "tree" /\ at' = at /\ fst' = fst /\ dfs' = dfs /\ root' = root /\ nstates' = nstates /\ siter' = siter
      /\ dfs => Top.left = <<>>
  BY DEF FinishState
<1>2. SearchTypeOK /\ StackIsAPath /\ FramesDiffer /\ FramesWalk /\ BlacksLeadOn /\ RootsSweep
  BY DEF SearchInv
<1>3. /\ Top \in FrameType /\ Top.state \in State /\ Top = stack[1] /\ color[Top.state] = "Grey"
      /\ Len(stack) \in Nat \ {0} /\ stack' \in Seq(FrameType) /\ Len(stack') = Len(stack) - 1
      /\ \A i \in 1 .. Len(stack) - 1 : stack'[i] = stack[i + 1]
      /\ \A i \in 2 .. Len(stack) : stack[i].state # Top.state
      /\ color' \in [State -> {"White", "Grey", "Black"}] /\ color'[Top.state] = "Black"
      /\ \A s \in State : s # Top.state => color'[s] = color[s]
  BY FinishedFrames
<1>4. \A s \in State : color'[s] # "White" <=> color[s] # "White"
  BY <1>3
<1>5. SearchTypeOK'
  BY <1>1, <1>2, <1>3 DEF SearchTypeOK
<1>6. StackIsAPath'
  <2>1. {s \in State : color'[s] = "Grey"} = {s \in State : color[s] = "Grey"} \ {Top.state}
    BY <1>3
  <2>2. ASSUME NEW i \in 1 .. Len(stack')
        PROVE  \E j \in 2 .. Len(stack) : stack'[i].state = stack[j].state
    BY <1>3
  <2>3. ASSUME NEW j \in 2 .. Len(stack)
        PROVE  \E i \in 1 .. Len(stack') : stack'[i].state = stack[j].state
    <3>1. j - 1 \in 1 .. Len(stack) - 1 /\ (j - 1) + 1 = j
      BY <1>3
    <3> QED
      BY <1>3, <3>1
  <2>4. {s \in State : color[s] = "Grey"} = {stack[j].state : j \in 1 .. Len(stack)}
    BY <1>2 DEF StackIsAPath
  <2>5. \A j \in 1 .. Len(stack) : j = 1 \/ j \in 2 .. Len(stack)
    OBVIOUS
  <2>6. {s \in State : color'[s] = "Grey"} = {stack[j].state : j \in 2 .. Len(stack)}
    BY <1>3, <2>1, <2>4, <2>5
  <2>7. {s \in State : color'[s] = "Grey"} = {stack'[i].state : i \in 1 .. Len(stack')}
    <3> DEFINE A == {stack[j].state : j \in 2 .. Len(stack)}
               B == {stack'[i].state : i \in 1 .. Len(stack')}
    <3>1. ASSUME NEW x \in A PROVE x \in B
      <4>1. PICK j \in 2 .. Len(stack) : x = stack[j].state
        BY <3>1
      <4>2. PICK i \in 1 .. Len(stack') : stack'[i].state = stack[j].state
        BY <2>3
      <4> QED
        BY <4>1, <4>2
    <3>2. ASSUME NEW x \in B PROVE x \in A
      <4>1. PICK i \in 1 .. Len(stack') : x = stack'[i].state
        BY <3>2
      <4>2. PICK j \in 2 .. Len(stack) : stack'[i].state = stack[j].state
        BY <2>2
      <4> QED
        BY <4>1, <4>2
    <3> QED
      BY <2>6, <3>1, <3>2
  <2>8. ASSUME NEW i \in 1 .. Len(stack') - 1
        PROVE  stack'[i].parent = stack'[i + 1].state /\ Arc(stack'[i].parent, stack'[i].state)
    <3>1. i + 1 \in 1 .. Len(stack) - 1 /\ i \in 1 .. Len(stack) - 1
      BY <1>3
    <3> QED
      BY <1>2, <1>3, <3>1 DEF StackIsAPath
  <2> QED
    BY <1>1, <2>7, <2>8 DEF StackIsAPath, Arc
<1>7. FramesDiffer'
  <2>1. ASSUME NEW i \in 1 .. Len(stack'), NEW j \in 1 .. Len(stack'), stack'[i].state = stack'[j].state
        PROVE  i = j
    <3>1. i + 1 \in 1 .. Len(stack) /\ j + 1 \in 1 .. Len(stack) /\ i \in 1 .. Len(stack) - 1 /\ j \in 1 .. Len(stack) - 1
      BY <1>3
    <3>2. i + 1 = j + 1
      BY <1>2, <1>3, <2>1, <3>1 DEF FramesDiffer
    <3> QED
      BY <3>1, <3>2
  <2>2. stack' # <<>> => stack'[Len(stack')] = stack[Len(stack)] /\ stack # <<>>
    <3> HAVE stack' # <<>>
    <3>1. Len(stack') \in 1 .. Len(stack) - 1 /\ Len(stack') + 1 = Len(stack)
      BY <1>3
    <3> QED
      BY <1>3, <3>1
  <2> QED
    BY <1>1, <1>2, <2>1, <2>2 DEF FramesDiffer
<1>8. FramesWalk'
  <2>1. ASSUME NEW i \in 1 .. Len(stack')
        PROVE  FrameWalks(stack'[i], fst.arcs, color')
    <3>1. i + 1 \in 1 .. Len(stack) /\ stack'[i] = stack[i + 1] /\ stack[i + 1] \in FrameType
      BY <1>2, <1>3 DEF SearchTypeOK
    <3>2. fst.arcs[stack[i + 1].state] \in Seq(State) /\ stack[i + 1].left \in Seq(State)
      BY <1>2, <3>1 DEF SearchTypeOK, FstType, FrameType
    <3>3. PICK n \in Nat : Walks(fst.arcs[stack[i + 1].state], stack[i + 1].left, color, n)
      BY <1>2, <3>1 DEF FramesWalk, FrameWalks
    <3>4. Walks(fst.arcs[stack[i + 1].state], stack[i + 1].left, color', n)
      BY <1>4, <3>2, <3>3, WalkKeepsOn
    <3> QED
      BY <3>1, <3>4 DEF FrameWalks
  <2> QED
    BY <1>1, <2>1 DEF FramesWalk
<1>9. ASSUME dfs, NEW t \in State, Arc(Top.state, t) PROVE color[t] # "White"
  <2>1. fst.arcs[Top.state] \in Seq(State) /\ 1 \in 1 .. Len(stack)
    BY <1>2, <1>3 DEF SearchTypeOK, FstType
  <2>2. PICK n \in Nat : Walks(fst.arcs[Top.state], Top.left, color, n)
    BY <1>2, <1>3, <2>1 DEF FramesWalk, FrameWalks
  <2>3. Top.left = <<>> /\ Len(Top.left) = 0
    BY <1>1, <1>9
  <2>4. n = Len(fst.arcs[Top.state])
    BY <2>1, <2>2, <2>3 DEF Walks
  <2> QED
    BY <1>9, <2>2, <2>4 DEF Walks, Arc
<1>10. BlacksLeadOn'
  <2>1. \A s \in State : color'[s] = "Black" => s = Top.state \/ color[s] = "Black"
    BY <1>3
  <2> QED
    BY <1>1, <1>2, <1>4, <1>9, <2>1 DEF BlacksLeadOn, Arc
<1>11. RootsSweep'
  <2>1. \A s \in State : color'[s] = "White" <=> color[s] = "White"
    BY <1>4
  <2> QED
    BY <1>1, <1>2, <2>1 DEF RootsSweep
<1> QED
  BY <1>5, <1>6, <1>7, <1>8, <1>10, <1>11 DEF SearchInv


\* The next root is the first state not met, if there is one among those known of.
LEMMA NextWhiteIsFirst ==
  ASSUME FstsAssumption, SweepTypeOK, RootsSweep, at = "tree"
  PROVE  /\ NextWhite(root) \in Nat /\ NextWhite(root) <= nstates
         /\ NextWhite(root) < nstates => NextWhite(root) \in State /\ color[NextWhite(root)] = "White"
         /\ \A s \in State : s < NextWhite(root) => color[s] # "White"
<1> DEFINE from == IF root = fst.start THEN 0 ELSE root + 1
           whites == {s \in from .. nstates - 1 : color[s] = "White"}
<1>1. /\ root \in State /\ root < nstates /\ nstates \in 0 .. N /\ N \in Nat
      /\ color[root] # "White" /\ (root # fst.start => \A s \in State : s < root => color[s] # "White")
  BY DEF RootsSweep, SweepTypeOK, FstsAssumption
<1>2. from \in Nat /\ from <= nstates /\ root \in Nat
  BY <1>1 DEF State
<1>3. \A s \in State : s < from => color[s] # "White"
  <2> SUFFICES ASSUME root # fst.start, NEW s \in State, s < root + 1 PROVE color[s] # "White"
    BY DEF State
  <2>1. s < root \/ s = root
    BY <1>2 DEF State
  <2> QED
    BY <1>1, <2>1
<1>4. CASE whites = {}
  <2>1. NextWhite(root) = nstates
    BY <1>1, <1>2, <1>4 DEF NextWhite, Larger
  <2>2. ASSUME NEW s \in State, s < nstates PROVE color[s] # "White"
    <3>1. s < from \/ s \in from .. nstates - 1
      BY <1>1, <1>2, <2>2 DEF State
    <3> QED
      BY <1>3, <1>4, <3>1
  <2> QED
    BY <1>1, <2>1, <2>2
<1>5. CASE whites # {}
  <2>1. whites \in SUBSET Nat
    BY <1>2
  <2>2. \E n \in whites : \A m \in whites : n <= m
    BY <1>5, <2>1, LeastNatural
  <2>3. NextWhite(root) = CHOOSE n \in whites : \A m \in whites : n <= m
    BY <1>5 DEF NextWhite
  <2>4. NextWhite(root) \in whites /\ \A m \in whites : NextWhite(root) <= m
    BY <2>2, <2>3
  <2>5. NextWhite(root) \in from .. nstates - 1 /\ color[NextWhite(root)] = "White"
    BY <2>4
  <2>6. ASSUME NEW s \in State, s < NextWhite(root) PROVE color[s] # "White"
    <3>1. s < from \/ s \in from .. nstates - 1
      BY <1>1, <1>2, <2>5, <2>6 DEF State
    <3>2. s \in whites => NextWhite(root) <= s
      BY <2>4
    <3>3. s \notin whites
      BY <2>5, <2>6, <3>2, <1>2 DEF State
    <3> QED
      BY <1>3, <3>1, <3>3
  <2> QED
    BY <1>1, <1>2, <2>5, <2>6 DEF State
<1> QED
  BY <1>4, <1>5

\* A tree that is done makes way for the next root, or all there is has been met.
LEMMA SweepingOn ==
  ASSUME FstsAssumption, SweepTypeOK, RootsSweep, CloseTree
  PROVE  SweepTypeOK' /\ RootsSweep'
<1>1. /\ at = "tree" /\ stack = <<>> /\ root' = NextWhite(root)
      /\ siter' = IF ~fst.known /\ root' = nstates THEN (IF OneMore THEN nstates + 1 ELSE N) ELSE siter
      /\ nstates' = IF OneMore THEN nstates + 1 ELSE nstates
      /\ at' = IF dfs /\ root' < nstates' THEN "roots" ELSE "done"
      /\ fst' = fst /\ color' = color /\ stack' = stack /\ dfs' = dfs
  BY DEF CloseTree
<1>2. SweepTypeOK /\ RootsSweep /\ N \in Nat
  BY DEF FstsAssumption
<1>3. /\ root' \in Nat /\ root' <= nstates
      /\ root' < nstates => root' \in State /\ color[root'] = "White"
      /\ \A s \in State : s < root' => color[s] # "White"
  BY <1>1, NextWhiteIsFirst
<1>4. OneMore <=> ~fst.known /\ root' = nstates /\ siter <= nstates /\ nstates < N
  BY DEF OneMore
<1>5. nstates \in 0 .. N /\ siter \in 0 .. N /\ fst.known \in BOOLEAN
  BY <1>2 DEF SweepTypeOK, FstType
<1>6. nstates' \in 0 .. N /\ siter' \in 0 .. N /\ root' \in 0 .. N
  BY <1>1, <1>2, <1>3, <1>4, <1>5
<1>7. SweepTypeOK'
  BY <1>1, <1>2, <1>6 DEF SweepTypeOK
<1>9. fst.start # None /\ (IF fst.known THEN nstates = N ELSE siter <= nstates)
      /\ (\A s \in State : s >= nstates => color[s] = "White")
  BY <1>1, <1>2 DEF RootsSweep
<1>10. CASE OneMore
  <2>1. root' = nstates /\ nstates' = nstates + 1 /\ siter' = nstates + 1 /\ nstates \in State /\ root' < nstates' /\ ~fst.known
    BY <1>1, <1>2, <1>4, <1>5, <1>10 DEF State
  <2>2. color[root'] = "White"
    BY <1>9, <2>1, <1>5
  <2>3. \A s \in State : s >= nstates' => color[s] = "White"
    BY <1>5, <1>9, <2>1 DEF State
  <2>4. (dfs => at' = "roots") /\ (~dfs => at' = "done")
    BY <1>1, <2>1
  <2>5. RootsSweep'
    BY <1>1, <1>3, <1>5, <1>9, <2>1, <2>2, <2>3, <2>4 DEF RootsSweep
  <2> QED
    BY <1>7, <2>5
<1>11. CASE ~OneMore
  <2>1. nstates' = nstates
    BY <1>1, <1>11
  <2>2. fst.known => siter' = siter
    BY <1>1
  <2>3. root' = nstates => nstates = N
    <3>1. CASE fst.known
      BY <1>9, <3>1
    <3>2. CASE ~fst.known
      <4>1. siter <= nstates
        BY <1>9, <3>2
      <4>2. root' = nstates => ~(nstates < N)
        BY <1>4, <1>11, <3>2, <4>1, Zenon
      <4>3. nstates <= N /\ nstates \in Nat /\ N \in Nat
        BY <1>2, <1>5
      <4>4. ~(nstates < N) => nstates = N
        BY <4>3
      <4> QED
        BY <4>2, <4>4
    <3> QED
      BY <3>1, <3>2
  <2>4. ~fst.known => siter' <= nstates
    BY <1>1, <1>5, <1>9, <1>11, <2>3
  <2>5. CASE root' < nstates /\ dfs
    <3>1. at' = "roots" /\ root' \in State /\ color[root'] = "White"
      BY <1>1, <1>3, <2>1, <2>5
    <3> QED
      BY <1>1, <1>3, <1>7, <1>9, <2>1, <2>4, <2>5, <3>1 DEF RootsSweep
  <2>6. CASE ~(root' < nstates /\ dfs)
    <3>1. at' = "done"
      BY <1>1, <2>1, <2>6
    <3>2. dfs => root' = N
      BY <1>3, <1>5, <2>3, <2>6
    <3>3. dfs => \A s \in State : color[s] # "White"
      BY <1>2, <1>3, <3>2 DEF State
    <3> QED
      BY <1>1, <1>7, <1>9, <2>1, <2>4, <3>1, <3>3 DEF RootsSweep
  <2> QED
    BY <2>5, <2>6
<1> QED
  BY <1>10, <1>11

LEMMA ClosingKeeps ==
  ASSUME FstsAssumption, SearchInv, CloseTree
  PROVE  SearchInv'
<1>1. stack = <<>> /\ fst' = fst /\ color' = color /\ stack' = stack /\ dfs' = dfs
  BY DEF CloseTree
<1>2. SearchTypeOK /\ StackIsAPath /\ FramesDiffer /\ FramesWalk /\ BlacksLeadOn /\ RootsSweep
  BY DEF SearchInv
<1>3. SweepTypeOK' /\ RootsSweep'
  BY <1>2, SweepingOn DEF SearchTypeOK, SweepTypeOK
<1>4. SearchTypeOK'
  BY <1>1, <1>2, <1>3 DEF SearchTypeOK, SweepTypeOK
<1>5. StackIsAPath' /\ FramesDiffer' /\ FramesWalk' /\ BlacksLeadOn'
  BY <1>1, <1>2 DEF StackIsAPath, FramesDiffer, FramesWalk, BlacksLeadOn, Arc
<1> QED
  BY <1>3, <1>4, <1>5 DEF SearchInv

\* The first state of a search.
LEMMA SearchStarts ==
  ASSUME FstsAssumption, SearchInit
  PROVE  SearchInv
<1>1. fst \in FstType /\ N \in Nat \ {0} /\ None \notin Nat
  BY DEF SearchInit, FstsAssumption
<1>2. fst.start \in State \cup {None} /\ fst.known \in BOOLEAN
  BY <1>1 DEF FstType
<1>3. /\ color = [s \in State |-> "White"] /\ stack = <<>> /\ dfs = TRUE /\ root = fst.start /\ siter = 0
      /\ nstates = IF fst.known THEN N ELSE IF fst.start = None THEN 0 ELSE fst.start + 1
      /\ at = IF fst.start = None THEN "done" ELSE "roots"
  BY DEF SearchInit
<1>4. nstates \in 0 .. N
  BY <1>1, <1>2, <1>3 DEF State
<1>5. SearchTypeOK
  BY <1>1, <1>2, <1>3, <1>4 DEF SearchTypeOK, State
<1>6. StackIsAPath /\ FramesDiffer /\ FramesWalk /\ BlacksLeadOn
  BY <1>3 DEF StackIsAPath, FramesDiffer, FramesWalk, BlacksLeadOn
<1>7. RootsSweep
  BY <1>1, <1>2, <1>3, <1>4 DEF RootsSweep, State
<1> QED
  BY <1>5, <1>6, <1>7 DEF SearchInv

\* Every turn keeps the search as it should be.
LEMMA TurningKeeps ==
  ASSUME FstsAssumption, SearchInv, Turn \/ UNCHANGED search
  PROVE  SearchInv'
<1>1. CASE Turn
  BY <1>1, OpeningKeeps, DescendingKeeps, PassingKeeps, FinishingKeeps, ClosingKeeps DEF Turn
<1>2. CASE UNCHANGED search
  <2>1. /\ fst' = fst /\ color' = color /\ stack' = stack /\ dfs' = dfs /\ root' = root
        /\ nstates' = nstates /\ siter' = siter /\ at' = at
    BY <1>2 DEF search
  <2>2. SearchTypeOK' /\ RootsSweep' /\ FramesDiffer'
    BY <2>1 DEF SearchInv, SearchTypeOK, RootsSweep, FramesDiffer
  <2>3. BlacksLeadOn'
    BY <2>1 DEF SearchInv, BlacksLeadOn, Arc
  <2>4. StackIsAPath'
    <3>1. StackIsAPath
      BY DEF SearchInv
    <3>2. {s \in State : color[s] = "Grey"}' = {stack[i].state : i \in 1 .. Len(stack)}'
      <4>1. {s \in State : color[s] = "Grey"} = {stack[i].state : i \in 1 .. Len(stack)}
        BY <3>1 DEF StackIsAPath
      <4> QED
        BY <2>1, <4>1
    <3>3. ASSUME NEW i \in 1 .. Len(stack') - 1
          PROVE  (stack[i].parent = stack[i + 1].state /\ Arc(stack[i].parent, stack[i].state))'
      <4>1. stack[i].parent = stack[i + 1].state /\ Arc(stack[i].parent, stack[i].state)
        BY <2>1, <3>1 DEF StackIsAPath
      <4> QED
        BY <2>1, <4>1 DEF Arc
    <3> QED
      BY <3>2, <3>3 DEF StackIsAPath
  <2>5. FramesWalk'
    BY <2>1 DEF SearchInv, FramesWalk
  <2> QED
    BY <2>2, <2>3, <2>4, <2>5 DEF SearchInv
<1> QED
  BY <1>1, <1>2


-----------------------------------------------------------------------------
(***************************************************************************)
(* Topological order                                                       *)
(***************************************************************************)

\* What finished, each once; and, unless the search was stopped, each after
\* whatever its arcs lead to.
FinishedInOrder ==
  /\ finish \in Seq(State) /\ IsInjective(finish)
  /\ ToSet(finish) = {s \in State : color[s] = "Black"}
  /\ dfs => \A i \in 1 .. Len(finish) : \A t \in State :
              Arc(finish[i], t) => \E j \in 1 .. i - 1 : finish[j] = t

\* What a frame has taken leads to finished states, or to the frame above.
LeadsBack(arcs, rest, colors, above, n) ==
  /\ Len(rest) + n = Len(arcs)
  /\ \A k \in 1 .. n : colors[arcs[k]] = "Black" \/ arcs[k] = above

Above(frames, i) == IF i = 1 THEN None ELSE frames[i - 1].state

FramesLeadBack ==
  dfs => \A i \in 1 .. Len(stack) : \E n \in Nat :
           LeadsBack(fst.arcs[stack[i].state], stack[i].left, color, Above(stack, i), n)

\* The search was stopped where a cycle closed.
StoppedByACycle == acyclic = dfs /\ (~dfs => \E s \in State : OnCycle(s))

TopInv == SearchInv /\ FinishedInOrder /\ FramesLeadBack /\ StoppedByACycle

\* From an open state the arcs of the frames above lead to the state on top.
LEMMA FramesReachTheTop ==
  ASSUME FstsAssumption, SearchInv, stack # <<>>, NEW i \in 1 .. Len(stack)
  PROVE  Top.state \in Reach[stack[i].state]
<1> DEFINE T == {m \in Nat : m + 1 \in 1 .. Len(stack) => Top.state \in Reach[stack[m + 1].state]}
<1>1. /\ N \in Nat /\ StackIsAPath /\ stack \in Seq(FrameType) /\ Len(stack) \in Nat \ {0}
      /\ Top = stack[1] /\ \A j \in 1 .. Len(stack) : stack[j].state \in State
  <2>1. N \in Nat /\ StackIsAPath /\ stack \in Seq(FrameType)
    BY DEF SearchInv, SearchTypeOK, FstsAssumption
  <2>2. ASSUME NEW j \in 1 .. Len(stack) PROVE stack[j].state \in State
    <3>1. stack[j] \in FrameType
      BY <2>1
    <3> QED
      BY <3>1 DEF FrameType
  <2>3. Len(stack) \in Nat \ {0}
    BY <2>1
  <2> QED
    BY <2>1, <2>2, <2>3 DEF Top
<1>2. 0 \in T
  BY <1>1, ReachBasics
<1>3. ASSUME NEW m \in Nat, m \in T PROVE m + 1 \in T
  <2> SUFFICES ASSUME m + 2 \in 1 .. Len(stack) PROVE Top.state \in Reach[stack[m + 2].state]
    OBVIOUS
  <2>1. m + 1 \in 1 .. Len(stack) - 1 /\ m + 1 \in 1 .. Len(stack) /\ (m + 1) + 1 = m + 2
    BY <1>1
  <2>2. Top.state \in Reach[stack[m + 1].state]
    BY <1>3, <2>1
  <2>3. Arc(stack[m + 2].state, stack[m + 1].state)
    BY <1>1, <2>1 DEF StackIsAPath
  <2>4. Top.state \in State
    BY <1>1
  <2> QED
    BY <1>1, <2>1, <2>2, <2>3, <2>4, ReachExtends
<1> HIDE DEF T
<1>4. i - 1 \in T
  BY <1>1, <1>2, <1>3, SetInduction
<1> QED
  BY <1>1, <1>4 DEF T

\* A back arc closes a cycle.
LEMMA BackArcsCloseCycles ==
  ASSUME FstsAssumption, SearchInv, Taking, color[Target] = "Grey"
  PROVE  OnCycle(Top.state)
<1>1. stack # <<>> /\ Top.left # <<>>
  BY DEF Taking
<1>2. Target \in State /\ Arc(Top.state, Target)
  BY <1>1, AdvancedFrames
<1>3. PICK i \in 1 .. Len(stack) : stack[i].state = Target
  BY <1>2 DEF SearchInv, StackIsAPath
<1>4. Top.state \in Reach[Target]
  BY <1>1, <1>3, FramesReachTheTop
<1> QED
  BY <1>2, <1>4 DEF OnCycle

\* Whether a state is on a cycle is up to the automaton.
LEMMA CyclesStay ==
  ASSUME fst' = fst
  PROVE  /\ Reach' = Reach
         /\ \A s : OnCycle(s)' <=> OnCycle(s)
         /\ \A s, t : Arc(s, t)' <=> Arc(s, t)
<1>1. \A s, t : Arc(s, t)' <=> Arc(s, t)
  BY DEF Arc
<1>2. Reach' = Reach
  BY DEF Reach, Arc
<1> QED
  BY <1>1, <1>2 DEF OnCycle, Arc

\* What a frame has taken leads back whatever else finishes, the frame above included.
LEMMA LeadingBackKeepsOn ==
  ASSUME NEW arcs \in Seq(State), NEW rest \in Seq(State), NEW colors, NEW above, NEW n \in Nat,
         LeadsBack(arcs, rest, colors, above, n),
         NEW more, \A s \in State : colors[s] = "Black" => more[s] = "Black",
         NEW next, above = next \/ above \notin State \/ more[above] = "Black"
  PROVE  LeadsBack(arcs, rest, more, next, n)
<1>1. Len(rest) \in Nat /\ Len(arcs) \in Nat /\ n <= Len(arcs)
  BY DEF LeadsBack
<1>2. \A k \in 1 .. n : k \in 1 .. Len(arcs)
  BY <1>1
<1>3. \A k \in 1 .. n : arcs[k] \in State
  BY <1>2
<1> QED
  BY <1>3 DEF LeadsBack

\* The frame on top takes an arc to a finished state, or opens a frame for its target.
LEMMA LeadingBackMovesOn ==
  ASSUME NEW arcs \in Seq(State), NEW rest \in Seq(State), rest # <<>>, NEW colors, NEW n \in Nat,
         NEW before, before \notin State, LeadsBack(arcs, rest, colors, before, n),
         NEW walked, Walks(arcs, rest, walked, n),
         NEW above, colors[Head(rest)] = "Black" \/ Head(rest) = above
  PROVE  LeadsBack(arcs, Tail(rest), colors, above, n + 1)
<1>1. Len(rest) \in Nat \ {0} /\ Len(arcs) \in Nat /\ Len(rest) + n = Len(arcs)
  BY DEF LeadsBack
<1>2. Len(Tail(rest)) = Len(rest) - 1
  BY <1>1
<1>3. Len(Tail(rest)) + (n + 1) = Len(arcs)
  BY <1>1, <1>2
<1>4. \A k \in 1 .. n + 1 : k = n + 1 \/ k \in 1 .. n
  OBVIOUS
<1>5. \A k \in 1 .. n : k \in 1 .. Len(arcs)
  BY <1>1
<1>6. \A k \in 1 .. n : colors[arcs[k]] = "Black"
  BY <1>5 DEF LeadsBack
<1>7. Head(rest) = arcs[n + 1]
  BY WalkTakesAnArc
<1> QED
  BY <1>3, <1>4, <1>6, <1>7 DEF LeadsBack

\* The frame on top after it has taken an arc.
LEMMA TopLeadsBack ==
  ASSUME FstsAssumption, SearchInv, FramesLeadBack, Taking,
         NEW above, color[Target] = "Black" \/ Target = above
  PROVE  \E n \in Nat : LeadsBack(fst.arcs[Top.state], Tail(Top.left), color, above, n)
<1>1. stack # <<>> /\ Top.left # <<>> /\ dfs
  BY DEF Taking
<1>2. /\ stack \in Seq(FrameType) /\ 1 \in 1 .. Len(stack) /\ Top = stack[1] /\ Top \in FrameType
      /\ None \notin State
  BY <1>1 DEF SearchInv, SearchTypeOK, Top, FstsAssumption, State
<1>3. fst.arcs[Top.state] \in Seq(State) /\ Top.left \in Seq(State)
  BY <1>2 DEF SearchInv, SearchTypeOK, FstType, FrameType
<1>4. PICK n \in Nat : LeadsBack(fst.arcs[Top.state], Top.left, color, None, n)
  BY <1>1, <1>2 DEF FramesLeadBack, Above
<1>5. PICK m \in Nat : Walks(fst.arcs[Top.state], Top.left, color, m)
  BY <1>2 DEF SearchInv, FramesWalk, FrameWalks
<1>6. n = m
  <2>1. /\ Len(Top.left) + n = Len(fst.arcs[Top.state]) /\ Len(Top.left) + m = Len(fst.arcs[Top.state])
    BY <1>4, <1>5 DEF LeadsBack, Walks
  <2>2. Len(Top.left) \in Nat
    BY <1>3
  <2> QED
    BY <2>1, <2>2
<1>7. LeadsBack(fst.arcs[Top.state], Tail(Top.left), color, above, n + 1)
  BY <1>1, <1>2, <1>3, <1>4, <1>5, <1>6, LeadingBackMovesOn DEF Target
<1> QED
  BY <1>7

\* A root has no arcs to answer for yet.
LEMMA OpeningKeepsOrder ==
  ASSUME FstsAssumption, TopInv, OpenTree(TRUE), UNCHANGED <<finish, acyclic>>
  PROVE  TopInv'
<1>1. SearchInv'
  BY OpeningKeeps DEF TopInv
<1>2. /\ at = "roots" /\ fst' = fst /\ dfs' = TRUE /\ finish' = finish /\ acyclic' = acyclic
      /\ color' = [color EXCEPT ![root] = "Grey"] /\ stack' = <<Frame(root, None)>>
  BY DEF OpenTree
<1>3. SearchTypeOK /\ dfs = TRUE /\ color[root] = "White" /\ root \in State
  BY <1>2 DEF TopInv, SearchInv, SearchTypeOK, RootsSweep
<1>4. \A s \in State : color'[s] = "Black" <=> color[s] = "Black"
  BY <1>2, <1>3 DEF SearchTypeOK
<1>5. FinishedInOrder'
  <2>1. {s \in State : color'[s] = "Black"} = {s \in State : color[s] = "Black"}
    BY <1>4
  <2> QED
    BY <1>2, <1>3, <2>1 DEF TopInv, FinishedInOrder, Arc
<1>6. FramesLeadBack'
  <2>1. fst.arcs[root] \in Seq(State)
    BY <1>3 DEF SearchTypeOK, FstType
  <2>2. LeadsBack(fst.arcs[root], fst.arcs[root], color', Above(stack', 1), 0)
    BY <2>1 DEF LeadsBack
  <2>3. /\ Len(stack') = 1 /\ stack'[1].state = root /\ stack'[1].left = fst.arcs[root]
    BY <1>2 DEF Frame
  <2> QED
    BY <1>2, <2>2, <2>3 DEF FramesLeadBack
<1>7. StoppedByACycle'
  BY <1>2, <1>3 DEF TopInv, StoppedByACycle
<1> QED
  BY <1>1, <1>5, <1>6, <1>7 DEF TopInv

\* The target of a tree arc is the frame above.
LEMMA DescendingKeepsOrder ==
  ASSUME FstsAssumption, TopInv, TreeArc(TRUE), UNCHANGED <<finish, acyclic>>
  PROVE  TopInv'
<1>1. SearchInv' /\ SearchInv /\ FramesLeadBack /\ SearchTypeOK
  BY DescendingKeeps DEF TopInv, SearchInv
<1>2. /\ Taking /\ stack # <<>> /\ Top.left # <<>> /\ color[Target] = "White" /\ dfs /\ dfs' = TRUE
      /\ fst' = fst /\ finish' = finish /\ acyclic' = acyclic
      /\ color' = [color EXCEPT ![Target] = "Grey"] /\ stack' = <<Frame(Target, Top.state)>> \o Advanced
  BY DEF TreeArc, Taking
<1>3. /\ Top \in FrameType /\ Target \in State
      /\ Advanced \in Seq(FrameType) /\ Len(Advanced) = Len(stack) /\ Len(stack) \in Nat \ {0}
      /\ Advanced[1].state = Top.state /\ Advanced[1].left = Tail(Top.left)
      /\ \A i \in 2 .. Len(stack) : Advanced[i] = stack[i]
      /\ \A i \in 1 .. Len(stack) : Advanced[i].state = stack[i].state
  BY <1>1, <1>2, AdvancedFrames
<1>4. fst.arcs[Target] \in Seq(State) /\ Top.state \in State
  BY <1>1, <1>3 DEF SearchTypeOK, FstType, FrameType
<1>5. /\ Len(stack') = Len(stack) + 1 /\ stack'[1] = Frame(Target, Top.state)
      /\ \A i \in 1 .. Len(stack) : stack'[i + 1] = Advanced[i]
  BY <1>2, <1>3, <1>4 DEF Frame, FrameType
<1>6. stack'[1].state = Target /\ stack'[1].left = fst.arcs[Target]
  BY <1>5 DEF Frame
<1>7. \A s \in State : color'[s] = "Black" <=> color[s] = "Black"
  BY <1>1, <1>2, <1>3 DEF SearchTypeOK
<1>8. FinishedInOrder'
  <2>1. {s \in State : color'[s] = "Black"} = {s \in State : color[s] = "Black"}
    BY <1>7
  <2> QED
    BY <1>2, <2>1 DEF TopInv, FinishedInOrder, Arc
<1>9. ASSUME NEW i \in 1 .. Len(stack')
      PROVE  \E n \in Nat : LeadsBack(fst.arcs[stack'[i].state], stack'[i].left, color', Above(stack', i), n)
  <2>1. CASE i = 1
    <3>1. LeadsBack(fst.arcs[Target], fst.arcs[Target], color', Above(stack', i), 0)
      BY <1>4 DEF LeadsBack
    <3> QED
      BY <1>6, <2>1, <3>1
  <2>2. CASE i = 2
    <3>1. Above(stack', i) = Target
      BY <1>6, <2>2 DEF Above
    <3>2. PICK n \in Nat : LeadsBack(fst.arcs[Top.state], Tail(Top.left), color, Target, n)
      BY <1>1, <1>2, TopLeadsBack
    <3>3. fst.arcs[Top.state] \in Seq(State) /\ Tail(Top.left) \in Seq(State)
      BY <1>1, <1>2, <1>3, <1>4 DEF SearchTypeOK, FstType, FrameType
    <3>4. LeadsBack(fst.arcs[Top.state], Tail(Top.left), color', Target, n)
      BY <1>7, <3>2, <3>3, LeadingBackKeepsOn
    <3>5. 1 \in 1 .. Len(stack) /\ 1 + 1 = 2
      BY <1>3
    <3>6. stack'[i] = Advanced[1]
      BY <1>5, <2>2, <3>5
    <3> QED
      BY <1>3, <3>1, <3>4, <3>6
  <2>3. CASE i \notin {1, 2}
    <3>1. i - 1 \in 2 .. Len(stack) /\ (i - 1) + 1 = i /\ i - 2 \in 1 .. Len(stack) /\ (i - 2) + 1 = i - 1 /\ (i - 1) - 1 = i - 2
      BY <1>3, <1>5, <2>3
    <3>2. stack'[i] = stack[i - 1] /\ stack'[i - 1].state = stack[i - 2].state /\ i - 1 \in 1 .. Len(stack)
      <4>1. stack'[(i - 1) + 1] = Advanced[i - 1] /\ stack'[(i - 2) + 1] = Advanced[i - 2]
        BY <1>5, <3>1
      <4> QED
        BY <1>3, <3>1, <4>1
    <3>3. PICK n \in Nat : LeadsBack(fst.arcs[stack[i - 1].state], stack[i - 1].left, color, Above(stack, i - 1), n)
      BY <1>1, <1>2, <3>2 DEF FramesLeadBack
    <3>4. Above(stack, i - 1) = Above(stack', i)
      BY <2>3, <3>1, <3>2 DEF Above
    <3>5. stack[i - 1] \in FrameType
      BY <1>1, <3>2 DEF SearchTypeOK
    <3>6. fst.arcs[stack[i - 1].state] \in Seq(State) /\ stack[i - 1].left \in Seq(State)
      BY <1>1, <3>5 DEF SearchTypeOK, FstType, FrameType
    <3>7. LeadsBack(fst.arcs[stack[i - 1].state], stack[i - 1].left, color', Above(stack', i), n)
      BY <1>7, <3>3, <3>4, <3>6, LeadingBackKeepsOn
    <3> QED
      BY <3>2, <3>7
  <2> QED
    BY <2>1, <2>2, <2>3
<1>10. FramesLeadBack'
  BY <1>2, <1>9 DEF FramesLeadBack
<1>11. StoppedByACycle'
  BY <1>2 DEF TopInv, StoppedByACycle, SearchInv, SearchTypeOK
<1> QED
  BY <1>1, <1>8, <1>10, <1>11 DEF TopInv


\* An arc to a finished state.
LEMMA PassingKeepsOrder ==
  ASSUME FstsAssumption, TopInv, ForwardOrCrossArc(TRUE), UNCHANGED <<finish, acyclic>>
  PROVE  TopInv'
<1>1. SearchInv' /\ SearchInv /\ FramesLeadBack /\ SearchTypeOK
  BY PassingKeeps DEF TopInv, SearchInv
<1>2. /\ Taking /\ stack # <<>> /\ Top.left # <<>> /\ color[Target] = "Black" /\ dfs /\ dfs' = TRUE
      /\ fst' = fst /\ finish' = finish /\ acyclic' = acyclic /\ color' = color /\ stack' = Advanced
  BY DEF ForwardOrCrossArc, Taking
<1>3. /\ Advanced \in Seq(FrameType) /\ Len(Advanced) = Len(stack) /\ Len(stack) \in Nat \ {0}
      /\ Advanced[1].state = Top.state /\ Advanced[1].left = Tail(Top.left)
      /\ \A i \in 2 .. Len(stack) : Advanced[i] = stack[i]
      /\ \A i \in 1 .. Len(stack) : Advanced[i].state = stack[i].state
  BY <1>1, <1>2, AdvancedFrames
<1>4. FinishedInOrder'
  BY <1>2 DEF TopInv, FinishedInOrder, Arc
<1>5. ASSUME NEW i \in 1 .. Len(stack)
      PROVE  \E n \in Nat : LeadsBack(fst.arcs[Advanced[i].state], Advanced[i].left, color, Above(Advanced, i), n)
  <2>1. CASE i = 1
    <3>1. \E n \in Nat : LeadsBack(fst.arcs[Top.state], Tail(Top.left), color, Above(Advanced, i), n)
      BY <1>1, <1>2, TopLeadsBack
    <3> QED
      BY <1>3, <2>1, <3>1
  <2>2. CASE i # 1
    <3>1. i \in 2 .. Len(stack) /\ i - 1 \in 1 .. Len(stack)
      BY <1>3, <2>2
    <3>2. Advanced[i] = stack[i] /\ Above(Advanced, i) = Above(stack, i)
      BY <1>3, <2>2, <3>1 DEF Above
    <3>3. \E n \in Nat : LeadsBack(fst.arcs[stack[i].state], stack[i].left, color, Above(stack, i), n)
      BY <1>1, <1>2 DEF FramesLeadBack
    <3> QED
      BY <3>2, <3>3
  <2> QED
    BY <2>1, <2>2
<1>6. FramesLeadBack'
  BY <1>2, <1>3, <1>5 DEF FramesLeadBack
<1>7. StoppedByACycle'
  BY <1>2 DEF TopInv, StoppedByACycle, SearchInv, SearchTypeOK
<1> QED
  BY <1>1, <1>4, <1>6, <1>7 DEF TopInv

\* A cycle stops the search.
LEMMA StoppingKeepsOrder ==
  ASSUME FstsAssumption, TopInv, BackArc(FALSE), acyclic' = FALSE, UNCHANGED finish
  PROVE  TopInv'
<1>1. SearchInv' /\ SearchInv
  BY PassingKeeps DEF TopInv
<1>2. Taking /\ color[Target] = "Grey" /\ dfs' = FALSE /\ fst' = fst /\ color' = color
  BY DEF BackArc, Taking
<1>3. FinishedInOrder'
  BY <1>2 DEF TopInv, FinishedInOrder
<1>4. FramesLeadBack'
  BY <1>2 DEF FramesLeadBack
<1>5. OnCycle(Top.state) /\ Top.state \in State
  <2>1. stack # <<>> /\ Top.left # <<>>
    BY <1>2 DEF Taking
  <2>2. Top \in FrameType
    BY <1>1, <2>1, AdvancedFrames
  <2> QED
    BY <1>1, <1>2, <2>2, BackArcsCloseCycles DEF FrameType
<1>6. \A s : OnCycle(s)' <=> OnCycle(s)
  BY <1>2, CyclesStay
<1>7. \E s \in State : OnCycle(s)'
  BY <1>5, <1>6
<1>8. StoppedByACycle'
  BY <1>2, <1>7 DEF StoppedByACycle
<1> QED
  BY <1>1, <1>3, <1>4, <1>8 DEF TopInv

\* A state finishes after all its arcs lead to.
LEMMA FinishingKeepsOrder ==
  ASSUME FstsAssumption, TopInv, FinishState, finish' = Append(finish, Top.state), UNCHANGED acyclic
  PROVE  TopInv'
<1>1. SearchInv' /\ SearchInv /\ SearchTypeOK /\ FinishedInOrder /\ FramesLeadBack
  BY FinishingKeeps DEF TopInv, SearchInv
<1>2. fst' = fst /\ dfs' = dfs /\ (dfs => Top.left = <<>>)
  BY DEF FinishState
<1>3. /\ Top \in FrameType /\ Top.state \in State /\ Top = stack[1] /\ color[Top.state] = "Grey"
      /\ Len(stack) \in Nat \ {0} /\ stack' \in Seq(FrameType) /\ Len(stack') = Len(stack) - 1
      /\ \A i \in 1 .. Len(stack) - 1 : stack'[i] = stack[i + 1]
      /\ color' \in [State -> {"White", "Grey", "Black"}] /\ color'[Top.state] = "Black"
      /\ \A s \in State : s # Top.state => color'[s] = color[s]
  BY <1>1, FinishedFrames
<1>4. \A s \in State : color[s] = "Black" => color'[s] = "Black"
  BY <1>3
<1>5. /\ finish \in Seq(State) /\ Len(finish) \in Nat /\ finish' \in Seq(State) /\ Len(finish') = Len(finish) + 1
      /\ finish'[Len(finish) + 1] = Top.state /\ \A i \in 1 .. Len(finish) : finish'[i] = finish[i]
  BY <1>1, <1>3 DEF FinishedInOrder
<1>6. \A i \in 1 .. Len(finish') : i \in 1 .. Len(finish) \/ i = Len(finish) + 1
  BY <1>5
<1>7. \A i \in 1 .. Len(finish) : finish[i] # Top.state /\ i \in 1 .. Len(finish')
  <2>1. Top.state \notin ToSet(finish)
    BY <1>1, <1>3 DEF FinishedInOrder
  <2> QED
    BY <1>5, <2>1 DEF ToSet
<1>8. IsInjective(finish')
  BY <1>1, <1>5, <1>6, <1>7 DEF FinishedInOrder, IsInjective
<1>9. ToSet(finish') = {s \in State : color'[s] = "Black"}
  <2>1. ToSet(finish) = {s \in State : color[s] = "Black"}
    BY <1>1 DEF FinishedInOrder
  <2>2. {s \in State : color'[s] = "Black"} = {s \in State : color[s] = "Black"} \cup {Top.state}
    BY <1>3
  <2>3. ToSet(finish') = ToSet(finish) \cup {Top.state}
    <3>1. ToSet(finish) = {finish[i] : i \in 1 .. Len(finish)} /\ ToSet(finish') = {finish'[i] : i \in 1 .. Len(finish')}
      BY <1>5 DEF ToSet
    <3>2. ASSUME NEW x \in ToSet(finish') PROVE x \in ToSet(finish) \cup {Top.state}
      BY <1>5, <1>6, <3>1
    <3>3. ASSUME NEW x \in ToSet(finish) PROVE x \in ToSet(finish')
      BY <1>5, <1>7, <3>1
    <3>4. Len(finish) + 1 \in 1 .. Len(finish')
      BY <1>5
    <3>5. Top.state \in ToSet(finish')
      BY <1>5, <3>1, <3>4
    <3> QED
      BY <3>2, <3>3, <3>5
  <2> QED
    BY <2>1, <2>2, <2>3
<1>10. ASSUME dfs, NEW t \in State, Arc(Top.state, t) PROVE color[t] = "Black"
  <2>1. fst.arcs[Top.state] \in Seq(State) /\ 1 \in 1 .. Len(stack) /\ Above(stack, 1) = None /\ None \notin State
    BY <1>1, <1>3 DEF SearchTypeOK, FstType, Above, FstsAssumption, State
  <2>2. PICK n \in Nat : LeadsBack(fst.arcs[Top.state], Top.left, color, None, n)
    BY <1>1, <1>3, <1>10, <2>1 DEF FramesLeadBack
  <2>3. Top.left = <<>> /\ Len(Top.left) = 0
    BY <1>2, <1>10
  <2>4. n = Len(fst.arcs[Top.state])
    BY <2>1, <2>2, <2>3 DEF LeadsBack
  <2> QED
    BY <1>10, <2>1, <2>2, <2>4 DEF LeadsBack, Arc
<1>11. ASSUME dfs, NEW i \in 1 .. Len(finish'), NEW t \in State, Arc(finish'[i], t)
       PROVE  \E j \in 1 .. i - 1 : finish'[j] = t
  <2>1. CASE i \in 1 .. Len(finish)
    <3>1. PICK j \in 1 .. i - 1 : finish[j] = t
      BY <1>1, <1>5, <1>11, <2>1 DEF FinishedInOrder
    <3>2. j \in 1 .. Len(finish)
      BY <1>5, <2>1
    <3> QED
      BY <1>5, <3>1, <3>2
  <2>2. CASE i = Len(finish) + 1
    <3>1. t \in ToSet(finish)
      BY <1>1, <1>5, <1>10, <1>11, <2>2 DEF FinishedInOrder
    <3>2. PICK j \in 1 .. Len(finish) : finish[j] = t
      BY <1>5, <3>1 DEF ToSet
    <3>3. j \in 1 .. i - 1
      BY <1>5, <2>2
    <3> QED
      BY <1>5, <3>2, <3>3
  <2> QED
    BY <1>6, <2>1, <2>2
<1>12. FinishedInOrder'
  BY <1>2, <1>5, <1>8, <1>9, <1>11 DEF FinishedInOrder, Arc
<1>13. ASSUME dfs, NEW i \in 1 .. Len(stack')
       PROVE  \E n \in Nat : LeadsBack(fst.arcs[stack'[i].state], stack'[i].left, color', Above(stack', i), n)
  <2>1. i \in 1 .. Len(stack) - 1 /\ i + 1 \in 1 .. Len(stack) /\ i + 1 # 1 /\ (i + 1) - 1 = i /\ i \in 1 .. Len(stack)
    BY <1>3
  <2>2. stack'[i] = stack[i + 1] /\ stack[i + 1] \in FrameType /\ Above(stack, i + 1) = stack[i].state
    BY <1>1, <1>3, <2>1 DEF SearchTypeOK, Above
  <2>3. PICK n \in Nat : LeadsBack(fst.arcs[stack[i + 1].state], stack[i + 1].left, color, stack[i].state, n)
    BY <1>1, <1>13, <2>1, <2>2 DEF FramesLeadBack
  <2>4. stack[i].state = Above(stack', i) \/ color'[stack[i].state] = "Black"
    <3>1. CASE i = 1
      BY <1>3, <3>1
    <3>2. CASE i # 1
      <4>1. i - 1 \in 1 .. Len(stack) - 1 /\ (i - 1) + 1 = i
        BY <1>3, <2>1, <3>2
      <4> QED
        BY <1>3, <3>2, <4>1 DEF Above
    <3> QED
      BY <3>1, <3>2
  <2>5. fst.arcs[stack[i + 1].state] \in Seq(State) /\ stack[i + 1].left \in Seq(State)
    BY <1>1, <2>2 DEF SearchTypeOK, FstType, FrameType
  <2>6. LeadsBack(fst.arcs[stack[i + 1].state], stack[i + 1].left, color', Above(stack', i), n)
    BY <1>4, <2>3, <2>4, <2>5, LeadingBackKeepsOn
  <2> QED
    BY <2>2, <2>6
<1>14. FramesLeadBack'
  BY <1>2, <1>13 DEF FramesLeadBack
<1>15. \A s : OnCycle(s)' <=> OnCycle(s)
  BY <1>2, CyclesStay
<1>16. StoppedByACycle'
  BY <1>2, <1>15 DEF TopInv, StoppedByACycle
<1> QED
  BY <1>1, <1>12, <1>14, <1>16 DEF TopInv

\* A tree that is done leaves the order as it is.
LEMMA StandingKeepsOrder ==
  ASSUME TopInv, SearchInv', UNCHANGED <<fst, color, stack, dfs, finish, acyclic>>
  PROVE  TopInv'
<1>1. fst' = fst /\ color' = color /\ stack' = stack /\ dfs' = dfs /\ finish' = finish /\ acyclic' = acyclic
  OBVIOUS
<1>2. FinishedInOrder'
  BY <1>1 DEF TopInv, FinishedInOrder, Arc
<1>3. FramesLeadBack'
  BY <1>1 DEF TopInv, FramesLeadBack
<1>4. \A s : OnCycle(s)' <=> OnCycle(s)
  BY <1>1, CyclesStay
<1>5. StoppedByACycle'
  BY <1>1, <1>4 DEF TopInv, StoppedByACycle
<1> QED
  BY <1>2, <1>3, <1>5 DEF TopInv

\* Every turn of the search for an order keeps its invariant.
LEMMA TopInductive ==
  ASSUME FstsAssumption, TopInv, TopNext \/ UNCHANGED <<search, tops>>
  PROVE  TopInv'
<1>1. SearchInv
  BY DEF TopInv
<1>2. CASE OpenTree(TRUE) /\ UNCHANGED <<finish, acyclic>>
  BY <1>2, OpeningKeepsOrder
<1>3. CASE TreeArc(TRUE) /\ UNCHANGED <<finish, acyclic>>
  BY <1>3, DescendingKeepsOrder
<1>4. CASE ForwardOrCrossArc(TRUE) /\ UNCHANGED <<finish, acyclic>>
  BY <1>4, PassingKeepsOrder
<1>5. CASE CloseTree /\ UNCHANGED <<finish, acyclic>>
  <2>1. SearchInv'
    BY <1>1, <1>5, ClosingKeeps
  <2> QED
    BY <1>5, <2>1, StandingKeepsOrder DEF CloseTree
<1>6. CASE BackArc(FALSE) /\ acyclic' = FALSE /\ UNCHANGED finish
  BY <1>6, StoppingKeepsOrder
<1>7. CASE FinishState /\ finish' = Append(finish, Top.state) /\ UNCHANGED acyclic
  BY <1>7, FinishingKeepsOrder
<1>8. CASE UNCHANGED <<search, tops>>
  <2>1. SearchInv'
    BY <1>1, <1>8, TurningKeeps
  <2> QED
    BY <1>8, <2>1, StandingKeepsOrder DEF search, tops
<1> QED
  BY <1>2, <1>3, <1>4, <1>5, <1>6, <1>7, <1>8 DEF TopNext


\* Nothing has been met before a search for an order.
LEMMA TopStarts ==
  ASSUME FstsAssumption, TopInit
  PROVE  TopInv
<1>1. SearchInv /\ SearchInit /\ finish = <<>> /\ acyclic = TRUE
  BY SearchStarts DEF TopInit
<1>2. color = [s \in State |-> "White"] /\ stack = <<>> /\ dfs = TRUE
  BY <1>1 DEF SearchInit
<1>3. FinishedInOrder
  <2>1. ToSet(finish) = {}
    BY <1>1 DEF ToSet
  <2>2. finish \in Seq(State) /\ Len(finish) = 0 /\ IsInjective(finish)
    BY <1>1 DEF IsInjective
  <2> QED
    BY <1>2, <2>1, <2>2 DEF FinishedInOrder
<1>4. FramesLeadBack /\ StoppedByACycle
  BY <1>1, <1>2 DEF FramesLeadBack, StoppedByACycle
<1> QED
  BY <1>1, <1>3, <1>4 DEF TopInv

\* In a search that is over and was not stopped, every state has finished.
LEMMA AllAreFinished ==
  ASSUME SearchInv, at = "done", fst.start # None, dfs, NEW s \in State
  PROVE  color[s] = "Black"
<1>1. stack = <<>> /\ color[s] # "White" /\ color[s] \in {"White", "Grey", "Black"}
  BY DEF SearchInv, RootsSweep, SearchTypeOK
<1>2. color[s] # "Grey"
  BY <1>1 DEF SearchInv, StackIsAPath
<1> QED
  BY <1>1, <1>2

\* What has finished leads to what finished before, and so to no cycle.
LEMMA FinishedAreOnNoCycle ==
  ASSUME N \in Nat, FinishedInOrder, dfs, NEW i \in 1 .. Len(finish)
  PROVE  ~OnCycle(finish[i])
<1> SUFFICES ASSUME OnCycle(finish[i]) PROVE FALSE
  OBVIOUS
<1>1. finish \in Seq(State) /\ Len(finish) \in Nat /\ IsInjective(finish) /\ \A k \in 1 .. Len(finish) : finish[k] \in State
  BY DEF FinishedInOrder
<1>2. PICK t \in State : Arc(finish[i], t) /\ finish[i] \in Reach[t]
  BY DEF OnCycle
<1>3. PICK j \in 1 .. i - 1 : finish[j] = t
  BY <1>2 DEF FinishedInOrder
<1> DEFINE S == {finish[k] : k \in 1 .. j}
<1>4. j \in Nat /\ j < i /\ j >= 1 /\ i <= Len(finish)
  BY <1>1
<1>5. ASSUME NEW s \in S, NEW u \in State, Arc(s, u) PROVE u \in S
  <2>1. PICK k \in 1 .. j : s = finish[k]
    BY <1>5
  <2>2. k \in 1 .. Len(finish)
    BY <1>1, <1>4
  <2>3. PICK l \in 1 .. k - 1 : finish[l] = u
    BY <1>5, <2>1, <2>2 DEF FinishedInOrder
  <2>4. l \in 1 .. j
    BY <1>4
  <2> QED
    BY <2>3, <2>4
<1>6. S \in SUBSET State
  BY <1>1, <1>4
<1>7. t \in S
  BY <1>3, <1>4
<1> HIDE DEF S
<1>8. Reach[t] \subseteq S
  BY <1>5, <1>6, <1>7, ReachStaysInside
<1>9. PICK k \in 1 .. j : finish[i] = finish[k]
  BY <1>2, <1>8 DEF S
<1>10. k \in 1 .. Len(finish) /\ k # i
  BY <1>1, <1>4
<1> QED
  BY <1>1, <1>9, <1>10 DEF IsInjective

\* A state's position counts from the last that finished.
LEMMA PositionsAreCounted ==
  ASSUME FinishedInOrder, NEW i \in 1 .. Len(finish)
  PROVE  position[finish[i]] = Len(finish) - i
<1>1. finish \in Seq(State) /\ IsInjective(finish) /\ DOMAIN finish = 1 .. Len(finish)
  BY DEF FinishedInOrder
<1>2. finish[i] \in ToSet(finish)
  BY <1>1 DEF ToSet
<1>3. \A j \in DOMAIN finish : finish[j] = finish[i] => j = i
  BY <1>1 DEF IsInjective
<1>4. (CHOOSE j \in DOMAIN finish : finish[j] = finish[i]) = i
  BY <1>1, <1>3
<1> QED
  BY <1>2, <1>4 DEF position

\* When a search for an order is over, the order is one.
LEMMA OrdersAreTopological ==
  ASSUME FstsAssumption, TopInv
  PROVE  OrderIsTopological /\ MetStatesFinish
<1>1. SearchInv /\ FinishedInOrder /\ StoppedByACycle /\ N \in Nat /\ dfs \in BOOLEAN
  BY DEF TopInv, SearchInv, SearchTypeOK, FstsAssumption
<1>2. MetStatesFinish
  BY <1>1 DEF FinishedInOrder, MetStatesFinish
<1> SUFFICES ASSUME at = "done", fst.start # None
             PROVE  /\ acyclic <=> \A s \in State : ~OnCycle(s)
                    /\ acyclic => /\ ToSet(finish) = State /\ Len(finish) = N
                                  /\ \A s, t \in State : Arc(s, t) => position[s] < position[t]
  BY <1>2 DEF OrderIsTopological
<1>3. acyclic = dfs /\ (~dfs => \E s \in State : OnCycle(s))
  BY <1>1 DEF StoppedByACycle
<1>4. CASE ~dfs
  BY <1>3, <1>4
<1>5. CASE dfs
  <2>1. finish \in Seq(State) /\ Len(finish) \in Nat /\ DOMAIN finish = 1 .. Len(finish) /\ IsInjective(finish)
    BY <1>1 DEF FinishedInOrder
  <2>2. {s \in State : color[s] = "Black"} = State
    BY <1>1, <1>5, AllAreFinished
  <2>3. ToSet(finish) = State
    BY <1>1, <2>2 DEF FinishedInOrder
  <2>4. \A s \in State : \E i \in 1 .. Len(finish) : finish[i] = s
    BY <2>1, <2>3 DEF ToSet
  <2>5. \A s \in State : ~OnCycle(s)
    BY <1>1, <1>5, <2>4, FinishedAreOnNoCycle
  <2>6. Len(finish) = N
    <3>1. finish \in Bijection(1 .. Len(finish), State)
      <4>1. finish \in Surjection(1 .. Len(finish), State)
        BY <2>1, <2>4 DEF Surjection
      <4>2. finish \in Injection(1 .. Len(finish), State)
        BY <2>1 DEF Injection, IsInjective
      <4> QED
        BY <4>1, <4>2 DEF Bijection
    <3>2. ExistsBijection(1 .. Len(finish), State)
      BY <3>1 DEF ExistsBijection
    <3>3. IsFiniteSet(1 .. Len(finish)) /\ Cardinality(1 .. Len(finish)) = Len(finish)
      BY <2>1, FS_Interval
    <3>4. Cardinality(State) = N
      BY <1>1, FS_Interval DEF State
    <3> QED
      BY <3>2, <3>3, <3>4, FS_Bijection
  <2>7. ASSUME NEW s \in State, NEW t \in State, Arc(s, t) PROVE position[s] < position[t]
    <3>1. PICK i \in 1 .. Len(finish) : finish[i] = s
      BY <2>4
    <3>2. PICK j \in 1 .. i - 1 : finish[j] = t
      BY <1>1, <1>5, <2>7, <3>1 DEF FinishedInOrder
    <3>3. j \in 1 .. Len(finish) /\ j < i
      BY <2>1
    <3>4. position[s] = Len(finish) - i /\ position[t] = Len(finish) - j
      BY <1>1, <3>1, <3>2, <3>3, PositionsAreCounted
    <3>5. \A l \in Nat : l - i < l - j
      BY <3>3
    <3> QED
      BY <2>1, <3>4, <3>5
  <2> QED
    BY <1>3, <1>5, <2>3, <2>5, <2>6, <2>7
<1> QED
  BY <1>1, <1>4, <1>5

-----------------------------------------------------------------------------
(***************************************************************************)
(* Strongly connected components                                           *)
(***************************************************************************)

\* The states met, and those of a component that is closed.
Met    == {s \in State : color[s] # "White"}
Grey   == {s \in State : color[s] = "Grey"}
Closed == Met \ onstack

\* A frame has taken an arc from s to t.
Took(f, s, t) == f.state = s /\ \E k \in 1 .. Len(fst.arcs[s]) - Len(f.left) : fst.arcs[s][k] = t

\* The arcs that have been taken: all those of a state that has finished, and
\* those before what its frame has left of one that has not.
Taken(s, t) ==
  \/ color[s] = "Black" /\ Arc(s, t)
  \/ \E i \in 1 .. Len(stack) : Took(stack[i], s, t)

\* States are numbered as they are met, and a link is no later than its state.
FramesAreOrdered ==
  \A i, j \in 1 .. Len(stack) : i < j => dfnumber[stack[j].state] < dfnumber[stack[i].state]

StatesAreNumbered ==
  /\ dfnumber \in [State -> 0 .. N] /\ lowlink \in [State -> 0 .. N]
  /\ count \in Nat /\ count = Cardinality(Met)
  /\ \A s \in Met : dfnumber[s] < count /\ lowlink[s] <= dfnumber[s]
  /\ \A s, t \in Met : dfnumber[s] = dfnumber[t] => s = t

\* What is open: the grey states, and those that wait for one of them to finish.
OpenStatesWait ==
  /\ onstack \subseteq Met /\ Grey \subseteq onstack
  /\ \A s \in onstack : \E g \in Grey : g \in Reach[s] /\ dfnumber[g] <= dfnumber[s]

OpenStatesAreStacked == scc_stack \in Seq(State) /\ SccStackIsOrdered

\* What was met since a state was opened, it leads to.
GreyStatesLeadOn == \A g \in Grey : \A s \in Met : dfnumber[g] <= dfnumber[s] => s \in Reach[g]

\* An arc that was taken leads to a state met before any that was opened since,
\* or to the one it opened.
TakenArcsLeadBack ==
  \A s, t \in State : Taken(s, t) =>
    /\ t \in Met
    /\ \A g \in Grey : dfnumber[s] < dfnumber[g] =>
         dfnumber[t] <= dfnumber[g] /\ (color[s] = "Black" => t # g)

\* The newest grey state met no later than s, the one s waits for.
WaitsFor(s, g) ==
  /\ g \in Grey /\ dfnumber[g] <= dfnumber[s]
  /\ \A h \in Grey : dfnumber[h] <= dfnumber[s] => dfnumber[h] <= dfnumber[g]

\* A link is the number of an open state that is led to; and no arc taken from
\* what waits for a state leads lower than the link of that state.
LinksAreKnown == \A s \in onstack : \E t \in onstack : t \in Reach[s] /\ dfnumber[t] = lowlink[s]

LinksAreLow ==
  \A s, t \in onstack : Taken(s, t) => \A g \in State : WaitsFor(s, g) => lowlink[g] <= dfnumber[t]

\* The number of a closed component, before finish_visit turns them round.
Number(s) == IF at = "done" THEN (nscc - 1) - scc[s] ELSE scc[s]

\* A closed component is complete: it is one, and its arcs lead to what is closed.
ClosedAreNumbered ==
  /\ scc \in [State -> State \cup {None}] /\ nscc \in Nat /\ nscc <= Cardinality(Closed)
  /\ \A s \in State \ Closed : scc[s] = None
  /\ \A s \in Closed : scc[s] \in 0 .. nscc - 1

ClosedAreComponents ==
  /\ \A s \in Closed : \A t \in State : Arc(s, t) => t \in Closed /\ Number(t) <= Number(s)
  /\ \A s, t \in Closed : Number(s) = Number(t) <=> t \in Reach[s] /\ s \in Reach[t]

\* What is accessible was met from the first root, and nothing else.
AccessIsKnown ==
  IF root = fst.start THEN access = Met /\ (fst.start # None => Met \subseteq Reach[fst.start])
  ELSE access \subseteq Met /\ access = Reach[fst.start] /\ access \cap Grey = {}

Ends(s) == Reach[s] \cap fst.final # {}

\* What is coaccessible leads to a final state; of what is closed, everything that
\* does is known, and of what is open, what a finished state itself knows.
CoaccessIsKnown ==
  /\ coaccess \subseteq Met
  /\ \A s \in coaccess : Ends(s)
  /\ \A s \in Closed : Ends(s) => s \in coaccess
  /\ \A s \in onstack : color[s] = "Black" /\ s \in fst.final => s \in coaccess
  /\ \A s \in onstack, t \in Closed : Taken(s, t) /\ t \in coaccess => s \in coaccess

\* Each question has one answer at a time, and one that was withdrawn was wrong.
AnswersDiffer ==
  /\ "CYCLIC" \in props <=> "ACYCLIC" \notin props
  /\ "INITIAL_CYCLIC" \in props <=> "INITIAL_ACYCLIC" \notin props
  /\ "NOT_ACCESSIBLE" \in props <=> "ACCESSIBLE" \notin props
  /\ "NOT_CO_ACCESSIBLE" \in props <=> "CO_ACCESSIBLE" \notin props

\* While no back arc is met, each component is a state on its own.
StaysAcyclic ==
  "ACYCLIC" \in props =>
    /\ onstack = Grey
    /\ \A g \in Grey : lowlink[g] = dfnumber[g]
    /\ \A s \in State : ~Taken(s, s)
    /\ \A s \in Closed : \A t \in State : Arc(s, t) => Number(t) # Number(s)

CyclesAreKnown ==
  /\ "CYCLIC" \in props => \E s \in State : OnCycle(s)
  /\ "INITIAL_CYCLIC" \in props => fst.start # None /\ OnCycle(fst.start)
  /\ "INITIAL_ACYCLIC" \in props /\ fst.start # None => \A s \in access : ~Taken(s, fst.start)

ConnectionIsKnown ==
  /\ "ACCESSIBLE" \in props <=> Met \subseteq access
  /\ "CO_ACCESSIBLE" \in props <=> Closed \subseteq coaccess

PropsAreKnown == AnswersDiffer /\ StaysAcyclic /\ CyclesAreKnown /\ ConnectionIsKnown

SccInv ==
  /\ SearchInv /\ dfs = TRUE
  /\ FramesAreOrdered /\ StatesAreNumbered /\ OpenStatesWait /\ OpenStatesAreStacked /\ GreyStatesLeadOn
  /\ TakenArcsLeadBack /\ LinksAreKnown /\ LinksAreLow
  /\ ClosedAreNumbered /\ ClosedAreComponents /\ AccessIsKnown /\ CoaccessIsKnown /\ PropsAreKnown

\* The types the invariant gives.
LEMMA SearchTypes ==
  ASSUME FstsAssumption, SearchInv
  PROVE  /\ N \in Nat \ {0} /\ None \notin State /\ None \notin Nat /\ \A s \in State : s \in Nat
         /\ fst.start \in State \cup {None} /\ fst.final \subseteq State
         /\ \A s \in State : fst.arcs[s] \in Seq(State)
         /\ stack \in Seq(FrameType) /\ Len(stack) \in Nat
         /\ \A i \in 1 .. Len(stack) : stack[i].state \in State /\ stack[i].left \in Seq(State)
         /\ color \in [State -> {"White", "Grey", "Black"}]
         /\ IsFiniteSet(State) /\ Cardinality(State) = N
<1>1. N \in Nat \ {0} /\ None \notin Nat /\ State = 0 .. N - 1
  BY DEF FstsAssumption, State
<1>2. None \notin State /\ \A s \in State : s \in Nat
  BY <1>1
<1>3. SearchTypeOK
  BY DEF SearchInv
<1>4. fst.start \in State \cup {None} /\ fst.final \subseteq State /\ fst.arcs \in [State -> Seq(State)]
  BY <1>3 DEF SearchTypeOK, FstType
<1>5. stack \in Seq(FrameType) /\ color \in [State -> {"White", "Grey", "Black"}]
  BY <1>3 DEF SearchTypeOK
<1>6. \A i \in 1 .. Len(stack) : stack[i] \in FrameType
  BY <1>5
<1>7. \A i \in 1 .. Len(stack) : stack[i].state \in State /\ stack[i].left \in Seq(State)
  BY <1>6 DEF FrameType
<1>8. IsFiniteSet(State) /\ Cardinality(State) = N
  BY <1>1, FS_Interval
<1> QED
  BY <1>1, <1>2, <1>4, <1>5, <1>7, <1>8

\* The frames are the grey states.
LEMMA FramesAreGrey ==
  ASSUME SearchInv
  PROVE  /\ \A i \in 1 .. Len(stack) : stack[i].state \in Grey
         /\ \A g \in Grey : \E i \in 1 .. Len(stack) : stack[i].state = g
  BY DEF SearchInv, StackIsAPath, Grey

\* How many arcs a frame has taken.
LEMMA TookWalks ==
  ASSUME FstsAssumption, SearchInv, NEW i \in 1 .. Len(stack)
  PROVE  \E n \in Nat : /\ Walks(fst.arcs[stack[i].state], stack[i].left, color, n)
                        /\ n = Len(fst.arcs[stack[i].state]) - Len(stack[i].left)
                        /\ n <= Len(fst.arcs[stack[i].state])
<1>1. fst.arcs[stack[i].state] \in Seq(State) /\ stack[i].left \in Seq(State)
  BY SearchTypes
<1>2. PICK n \in Nat : Walks(fst.arcs[stack[i].state], stack[i].left, color, n)
  BY DEF SearchInv, FramesWalk, FrameWalks
<1>3. Len(fst.arcs[stack[i].state]) \in Nat /\ Len(stack[i].left) \in Nat
  BY <1>1
<1>4. Len(stack[i].left) + n = Len(fst.arcs[stack[i].state])
  BY <1>2 DEF Walks
<1>5. n = Len(fst.arcs[stack[i].state]) - Len(stack[i].left) /\ n <= Len(fst.arcs[stack[i].state])
  BY <1>3, <1>4
<1> QED
  BY <1>2, <1>5

\* An arc that was taken is an arc from a state met to one met.
LEMMA TakenIsMet ==
  ASSUME FstsAssumption, SearchInv, dfs, NEW s \in State, NEW t \in State, Taken(s, t)
  PROVE  Arc(s, t) /\ s \in Met /\ t \in Met
<1>1. CASE color[s] = "Black" /\ Arc(s, t)
  BY <1>1 DEF SearchInv, BlacksLeadOn, Met
<1>2. ASSUME NEW i \in 1 .. Len(stack), Took(stack[i], s, t)
      PROVE  Arc(s, t) /\ s \in Met /\ t \in Met
  <2>1. stack[i].state = s /\ s \in Grey
    BY <1>2, FramesAreGrey DEF Took
  <2>2. PICK n \in Nat : /\ Walks(fst.arcs[s], stack[i].left, color, n)
                         /\ n = Len(fst.arcs[s]) - Len(stack[i].left)
                         /\ n <= Len(fst.arcs[s])
    BY <2>1, TookWalks
  <2>3. PICK k \in 1 .. n : fst.arcs[s][k] = t
    BY <1>2, <2>2 DEF Took
  <2>4. fst.arcs[s] \in Seq(State)
    BY SearchTypes
  <2>5. k \in 1 .. Len(fst.arcs[s])
    BY <2>2, <2>4
  <2>6. Arc(s, t)
    BY <2>3, <2>5 DEF Arc
  <2>7. color[t] # "White"
    BY <2>2, <2>3 DEF Walks
  <2> QED
    BY <2>1, <2>6, <2>7 DEF Met, Grey
<1> QED
  BY <1>1, <1>2 DEF Taken

\* A frame with nothing left has taken every arc.
LEMMA TopTookAll ==
  ASSUME FstsAssumption, SearchInv, stack # <<>>, Top.left = <<>>, NEW t \in State, Arc(Top.state, t)
  PROVE  Taken(Top.state, t)
<1>1. Len(stack) \in Nat \ {0} /\ 1 \in 1 .. Len(stack) /\ Top = stack[1] /\ Top.state \in State
  BY SearchTypes DEF Top
<1>2. fst.arcs[Top.state] \in Seq(State) /\ Len(fst.arcs[Top.state]) \in Nat
  BY <1>1, SearchTypes
<1>3. PICK k \in 1 .. Len(fst.arcs[Top.state]) : fst.arcs[Top.state][k] = t
  BY DEF Arc
<1>4. Len(Top.left) = 0
  BY <1>1
<1>5. k \in 1 .. Len(fst.arcs[Top.state]) - Len(Top.left)
  BY <1>2, <1>4
<1>6. Took(stack[1], Top.state, t)
  BY <1>1, <1>3, <1>5 DEF Took
<1> QED
  BY <1>1, <1>6 DEF Taken

\* Taking an arc is all that the frames do.
LEMMA AdvancedTook ==
  ASSUME FstsAssumption, SearchInv, stack # <<>>, Top.left # <<>>, NEW i \in 1 .. Len(stack),
         NEW s \in State, NEW t \in State, Took(Advanced[i], s, t)
  PROVE  Took(stack[i], s, t) \/ (s = Top.state /\ t = Target)
<1>1. /\ Top \in FrameType /\ Len(stack) \in Nat \ {0}
      /\ Advanced[1].state = Top.state /\ Advanced[1].left = Tail(Top.left)
      /\ \A j \in 2 .. Len(stack) : Advanced[j] = stack[j]
      /\ Top = stack[1] /\ 1 \in 1 .. Len(stack)
  BY AdvancedFrames DEF Top
<1>2. CASE i # 1
  <2>1. i \in 2 .. Len(stack)
    BY <1>1, <1>2
  <2>2. Advanced[i] = stack[i]
    BY <1>1, <2>1
  <2> QED
    BY <2>2, Zenon
<1>3. CASE i = 1
  <2>1. s = Top.state /\ fst.arcs[s] \in Seq(State) /\ Top.left \in Seq(State)
    BY <1>1, <1>3, SearchTypes DEF Took
  <2>2. PICK n \in Nat : /\ Walks(fst.arcs[s], Top.left, color, n)
                         /\ n = Len(fst.arcs[s]) - Len(Top.left)
                         /\ n <= Len(fst.arcs[s])
    BY <1>1, <2>1, TookWalks
  <2>3. Len(Tail(Top.left)) = Len(Top.left) - 1 /\ Len(Top.left) \in Nat /\ Len(fst.arcs[s]) \in Nat
    BY <2>1
  <2> DEFINE all == Len(fst.arcs[s])
             few == Len(Top.left)
             less == Len(Tail(Top.left))
  <2>4. all - less = n + 1
    <3>1. all \in Nat /\ few \in Nat /\ less = few - 1 /\ n = all - few
      BY <2>2, <2>3
    <3> HIDE DEF all, few, less
    <3> QED
      BY <3>1
  <2>5. PICK k \in 1 .. n + 1 : fst.arcs[s][k] = t
    BY <1>1, <1>3, <2>1, <2>4 DEF Took
  <2>6. fst.arcs[s][n + 1] = Target
    BY <2>1, <2>2, WalkTakesAnArc DEF Target
  <2>7. k = n + 1 \/ k \in 1 .. n
    OBVIOUS
  <2>8. k \in 1 .. n => Took(stack[1], s, t)
    BY <1>1, <2>1, <2>2, <2>5 DEF Took
  <2>9. k = n + 1 => t = Target
    BY <2>5, <2>6
  <2>10. k \in 1 .. n => Took(stack[i], s, t)
    BY <1>3, <2>8, Zenon
  <2> QED
    BY <2>1, <2>7, <2>9, <2>10, Zenon
<1> QED
  BY <1>2, <1>3

\* The state on top is the newest of those that are grey.
LEMMA TopIsNewest ==
  ASSUME FstsAssumption, SearchInv, FramesAreOrdered, dfnumber \in [State -> 0 .. N], stack # <<>>
  PROVE  Top.state \in Grey /\ \A g \in Grey : dfnumber[g] <= dfnumber[Top.state]
<1>1. Len(stack) \in Nat \ {0} /\ 1 \in 1 .. Len(stack) /\ Top = stack[1] /\ N \in Nat
  BY SearchTypes DEF Top
<1>2. Top.state \in Grey
  BY <1>1, FramesAreGrey
<1>3. ASSUME NEW g \in Grey PROVE dfnumber[g] <= dfnumber[Top.state]
  <2>1. PICK i \in 1 .. Len(stack) : stack[i].state = g
    BY FramesAreGrey
  <2>2. dfnumber[g] \in Nat /\ dfnumber[Top.state] \in Nat
    BY <1>1, <1>2 DEF Grey
  <2>3. i = 1 \/ 1 < i
    BY <1>1
  <2>4. 1 < i => dfnumber[g] < dfnumber[Top.state]
    BY <1>1, <2>1 DEF FramesAreOrdered
  <2> QED
    BY <1>1, <2>1, <2>2, <2>3, <2>4
<1> QED
  BY <1>2, <1>3

\* The state below the one on top is the next newest, and an arc leads from it.
LEMMA ParentIsNext ==
  ASSUME FstsAssumption, SearchInv, FramesAreOrdered, dfnumber \in [State -> 0 .. N], stack # <<>>
  PROVE  \/ Top.parent = None /\ Grey = {Top.state}
         \/ /\ Top.parent \in Grey /\ Arc(Top.parent, Top.state) /\ dfnumber[Top.parent] < dfnumber[Top.state]
            /\ \A g \in Grey : g # Top.state => dfnumber[g] <= dfnumber[Top.parent]
<1>1. Len(stack) \in Nat \ {0} /\ 1 \in 1 .. Len(stack) /\ Top = stack[1] /\ N \in Nat
  BY SearchTypes DEF Top
<1>2. CASE Len(stack) = 1
  <2>1. Top.parent = None
    BY <1>1, <1>2 DEF SearchInv, FramesDiffer
  <2>2. Top.state \in Grey /\ \A g \in Grey : g = Top.state
    BY <1>1, <1>2, FramesAreGrey
  <2> QED
    BY <2>1, <2>2
<1>3. CASE Len(stack) # 1
  <2>0. Len(stack) \in Nat \ {0} /\ Len(stack) # 1
    BY <1>1, <1>3
  <2>1. 1 \in 1 .. Len(stack) - 1 /\ 2 \in 1 .. Len(stack)
    <3> DEFINE m == Len(stack)
    <3>1. m \in Nat /\ m # 0 /\ m # 1
      BY <2>0
    <3> HIDE DEF m
    <3>2. 1 \in 1 .. m - 1 /\ 2 \in 1 .. m
      BY <3>1
    <3> QED
      BY <3>2 DEF m
  <2>2. Top.parent = stack[2].state /\ Arc(Top.parent, Top.state)
    BY <1>1, <2>1 DEF SearchInv, StackIsAPath
  <2>3. Top.parent \in Grey
    BY <2>1, <2>2, FramesAreGrey
  <2>4. dfnumber[Top.parent] < dfnumber[Top.state]
    BY <1>1, <2>1, <2>2 DEF FramesAreOrdered
  <2>5. ASSUME NEW g \in Grey, g # Top.state PROVE dfnumber[g] <= dfnumber[Top.parent]
    <3>1. PICK i \in 1 .. Len(stack) : stack[i].state = g
      BY FramesAreGrey
    <3>2. dfnumber[g] \in Nat /\ dfnumber[Top.parent] \in Nat
      BY <1>1, <2>3 DEF Grey
    <3>3. i = 2 \/ 2 < i
      BY <1>1, <2>5, <3>1
    <3>4. 2 < i => dfnumber[g] < dfnumber[Top.parent]
      BY <2>1, <2>2, <3>1 DEF FramesAreOrdered
    <3> QED
      BY <2>2, <3>1, <3>2, <3>3, <3>4
  <2> QED
    BY <2>2, <2>3, <2>4, <2>5
<1> QED
  BY <1>2, <1>3

-----------------------------------------------------------------------------
(***************************************************************************)
(* The turns, as what they do to the states                                *)
(***************************************************************************)

\* What every turn inside a tree leaves alone.
InTree == fst' = fst /\ root' = root /\ dfs' = TRUE /\ at' = "tree" /\ at \in {"roots", "tree"}

Newest(s) == s \in Grey /\ \A g \in Grey : dfnumber[g] <= dfnumber[s]

\* A state is met, by an arc from the newest grey state or as a root.
Meets(s) ==
  /\ InTree
  /\ s \in State /\ s \notin Met /\ color' = [color EXCEPT ![s] = "Grey"]
  /\ init_state(s, root)
  /\ (Grey = {} /\ s = root) \/ color[root] # "White"
  /\ \A g \in Grey : s \in Reach[g]
  /\ root = fst.start => s \in Reach[fst.start]
  /\ \A a, b \in State : Taken(a, b)' => Taken(a, b) \/ (b = s /\ Newest(a))
  /\ FramesAreOrdered'

\* The newest grey state takes an arc to a state that has been met.
Passes(s, t) ==
  /\ InTree
  /\ Newest(s) /\ t \in Met /\ Arc(s, t) /\ color' = color /\ root \in Grey
  /\ (t \in Grey /\ back_arc(s, t)) \/ (t \notin Grey /\ forward_or_cross_arc(s, t))
  /\ \A a, b \in State : Taken(a, b)' => Taken(a, b) \/ (a = s /\ b = t)
  /\ FramesAreOrdered'

\* The next newest grey state, from which an arc led to s.
Under(p, s) ==
  /\ p \in Grey /\ Arc(p, s) /\ dfnumber[p] < dfnumber[s]
  /\ \A g \in Grey : g # s => dfnumber[g] <= dfnumber[p]

\* The newest grey state finishes.
Finishes(s, p) ==
  /\ InTree
  /\ Newest(s) /\ color' = [color EXCEPT ![s] = "Black"]
  /\ (p = None /\ Grey = {s}) \/ Under(p, s)
  /\ finish_state(s, p)
  /\ \A t \in State : Arc(s, t) => Taken(s, t)
  /\ \A a, b \in State : Taken(a, b)' => Taken(a, b)
  /\ FramesAreOrdered'

\* Roots are met.
LEMMA OpeningMeets ==
  ASSUME FstsAssumption, SccInv, OpenTree(TRUE), init_state(root, root)
  PROVE  Meets(root)
<1>1. SearchInv /\ N \in Nat
  BY SearchTypes DEF SccInv
<1>2. /\ stack = <<>> /\ at = "roots" /\ root \in State /\ color[root] = "White"
      /\ color' = [color EXCEPT ![root] = "Grey"] /\ stack' = <<Frame(root, None)>>
      /\ InTree
  BY <1>1 DEF OpenTree, SearchInv, RootsSweep, InTree
<1>3. root \notin Met /\ Grey = {}
  BY <1>1, <1>2 DEF Met, Grey, SearchInv, StackIsAPath
<1>4. root \in Reach[root]
  BY <1>1, <1>2, ReachBasics
<1>5. Len(stack') = 1 /\ stack'[1] = Frame(root, None)
  BY <1>2
<1>6. FramesAreOrdered'
  BY <1>5 DEF FramesAreOrdered
<1>7. ASSUME NEW a \in State, NEW b \in State, Taken(a, b)' PROVE Taken(a, b)
  <2>1. fst' = fst
    BY <1>2 DEF InTree
  <2>2. color' [a] = "Black" => color[a] = "Black"
    BY <1>1, <1>2, SearchTypes
  <2>3. ASSUME NEW i \in 1 .. Len(stack'), Took(stack[i], a, b)' PROVE FALSE
    <3>1. stack'[i].left = fst.arcs[root] /\ stack'[i].state = root
      BY <1>5, <2>3 DEF Frame
    <3>2. fst.arcs[root] \in Seq(State) /\ Len(fst.arcs[root]) \in Nat
      BY <1>1, <1>2, SearchTypes
    <3>3. a = root /\ \E k \in 1 .. Len(fst.arcs[root]) - Len(fst.arcs[root]) : TRUE
      BY <2>1, <2>3, <3>1 DEF Took
    <3> QED
      BY <3>2, <3>3
  <2> QED
    BY <1>7, <2>1, <2>2, <2>3 DEF Taken, Arc
<1> QED
  BY <1>2, <1>3, <1>4, <1>6, <1>7 DEF Meets

\* What an arc leads to from the newest grey state, any grey state leads to.
LEMMA NewestLeadsOn ==
  ASSUME FstsAssumption, SccInv, NEW s \in State, Newest(s), NEW t \in State, Arc(s, t), NEW g \in Grey
  PROVE  t \in Reach[g]
<1>1. N \in Nat /\ g \in State
  BY SearchTypes DEF SccInv, Grey
<1>2. t \in Reach[t] /\ Reach \in [State -> SUBSET State]
  BY <1>1, ReachBasics
<1>3. t \in Reach[s]
  BY <1>1, <1>2, ReachExtends
<1>4. s \in Reach[g]
  BY DEF SccInv, GreyStatesLeadOn, Newest, Grey, Met
<1> QED
  BY <1>1, <1>3, <1>4, ReachJoins

\* What an arc to a state not met leads to is met.
LEMMA DescendingMeets ==
  ASSUME FstsAssumption, SccInv, TreeArc(TRUE), init_state(Target, root)
  PROVE  Meets(Target)
<1>1. SearchInv /\ N \in Nat /\ dfs
  BY SearchTypes DEF SccInv
<1>2. /\ Taking /\ stack # <<>> /\ Top.left # <<>> /\ color[Target] = "White"
      /\ color' = [color EXCEPT ![Target] = "Grey"] /\ stack' = <<Frame(Target, Top.state)>> \o Advanced
      /\ InTree /\ fst' = fst
  BY DEF TreeArc, Taking, InTree
<1>3. /\ Top \in FrameType /\ Target \in State
      /\ Advanced \in Seq(FrameType) /\ Len(Advanced) = Len(stack) /\ Len(stack) \in Nat \ {0}
      /\ \A i \in 1 .. Len(stack) : Advanced[i].state = stack[i].state
      /\ Arc(Top.state, Target)
  BY <1>1, <1>2, AdvancedFrames
<1>4. Top.state \in State
  BY <1>3 DEF FrameType
<1>5. Newest(Top.state)
  BY <1>1, <1>2, TopIsNewest DEF SccInv, StatesAreNumbered, Newest
<1>6. Target \notin Met
  BY <1>2 DEF Met
<1>7. \A g \in Grey : Target \in Reach[g]
  BY <1>3, <1>4, <1>5, NewestLeadsOn
<1>8. color[root] # "White" /\ root \in State
  BY <1>1, <1>2 DEF SearchInv, RootsSweep, Taking
<1>9. ASSUME root = fst.start PROVE Target \in Reach[fst.start]
  <2>1. Top.state \in Reach[fst.start] /\ fst.start \in State
    BY <1>4, <1>5, <1>8, <1>9, SearchTypes, <1>1 DEF SccInv, AccessIsKnown, Newest, Grey, Met
  <2>2. Target \in Reach[Top.state]
    BY <1>5, <1>7 DEF Newest
  <2> QED
    BY <1>1, <2>1, <2>2, ReachJoins
<1>10. Frame(Target, Top.state) \in FrameType
  BY <1>1, <1>3, <1>4, SearchTypes DEF Frame, FrameType
<1>11. /\ Len(stack') = Len(stack) + 1
       /\ stack'[1] = Frame(Target, Top.state) /\ \A i \in 1 .. Len(stack) : stack'[i + 1] = Advanced[i]
  BY <1>2, <1>3, <1>10
<1>12. \A i \in 1 .. Len(stack') : i # 1 => i - 1 \in 1 .. Len(stack) /\ stack'[i] = Advanced[i - 1]
  <2> TAKE i \in 1 .. Len(stack')
  <2> HAVE i # 1
  <2>1. Len(stack') = Len(stack) + 1 /\ Len(stack) \in Nat
    BY <1>3, <1>11
  <2>2. i - 1 \in 1 .. Len(stack) /\ (i - 1) + 1 = i
    BY <2>1
  <2> QED
    BY <1>11, <2>2
<1>13. stack'[1].state = Target /\ stack'[1].left = fst.arcs[Target]
  BY <1>11 DEF Frame
<1>14. /\ count \in Nat /\ dfnumber \in [State -> 0 .. N] /\ \A s \in Met : dfnumber[s] < count
       /\ dfnumber' = [dfnumber EXCEPT ![Target] = count]
  BY DEF SccInv, StatesAreNumbered, init_state
<1>15. \A i \in 1 .. Len(stack) : stack[i].state \in Met
  BY <1>1, FramesAreGrey DEF Grey, Met
<1>16. FramesAreOrdered'
  <2> SUFFICES ASSUME NEW i \in 1 .. Len(stack'), NEW j \in 1 .. Len(stack'), i < j
               PROVE  dfnumber'[stack'[j].state] < dfnumber'[stack'[i].state]
    BY DEF FramesAreOrdered
  <2>1. j # 1 /\ j - 1 \in 1 .. Len(stack)
    BY <1>12
  <2>2. stack'[j].state = stack[j - 1].state /\ stack[j - 1].state \in Met /\ stack[j - 1].state \in State
    BY <1>3, <1>12, <1>15, <2>1 DEF Met
  <2>3. dfnumber'[stack'[j].state] = dfnumber[stack[j - 1].state]
    BY <1>6, <1>14, <2>2
  <2>4. CASE i = 1
    BY <1>3, <1>13, <1>14, <2>2, <2>3, <2>4
  <2>5. CASE i # 1
    <3>1. /\ i - 1 \in 1 .. Len(stack) /\ stack'[i].state = stack[i - 1].state
          /\ stack[i - 1].state \in Met /\ stack[i - 1].state \in State
      BY <1>3, <1>12, <1>15, <2>5 DEF Met
    <3>2. dfnumber'[stack'[i].state] = dfnumber[stack[i - 1].state]
      BY <1>6, <1>14, <3>1
    <3>3. i - 1 < j - 1
      OBVIOUS
    <3>4. dfnumber[stack[j - 1].state] < dfnumber[stack[i - 1].state]
      BY <2>1, <3>1, <3>3 DEF SccInv, FramesAreOrdered
    <3> QED
      BY <2>3, <3>2, <3>4
  <2> QED
    BY <2>4, <2>5
<1>17. ASSUME NEW a \in State, NEW b \in State, Taken(a, b)'
       PROVE  Taken(a, b) \/ (b = Target /\ Newest(a))
  <2>1. color' [a] = "Black" => color[a] = "Black"
    BY <1>1, <1>2, SearchTypes
  <2>2. ASSUME NEW i \in 1 .. Len(stack'), Took(stack[i], a, b)'
        PROVE  Taken(a, b) \/ (b = Target /\ Newest(a))
    <3>1. Took(stack'[i], a, b)
      BY <1>2, <2>2 DEF Took
    <3>2. CASE i = 1
      <4>1. fst.arcs[Target] \in Seq(State) /\ Len(fst.arcs[Target]) \in Nat
        BY <1>1, <1>3, SearchTypes
      <4>2. a = Target /\ \E k \in 1 .. Len(fst.arcs[Target]) - Len(fst.arcs[Target]) : TRUE
        BY <1>13, <3>1, <3>2 DEF Took
      <4> QED
        BY <4>1, <4>2
    <3>3. CASE i # 1
      <4>1. i - 1 \in 1 .. Len(stack) /\ Took(Advanced[i - 1], a, b)
        BY <1>12, <3>1, <3>3, Zenon
      <4>2. Took(stack[i - 1], a, b) \/ (a = Top.state /\ b = Target)
        BY <1>1, <1>2, <4>1, AdvancedTook
      <4> QED
        BY <1>5, <4>1, <4>2 DEF Taken
    <3> QED
      BY <3>2, <3>3
  <2> QED
    BY <1>2, <1>17, <2>1, <2>2 DEF Taken, Arc
<1> QED
  BY <1>2, <1>3, <1>6, <1>7, <1>8, <1>9, <1>16, <1>17 DEF Meets

\* What an arc to a state that has been met leads to is passed.
LEMMA PassingPasses ==
  ASSUME FstsAssumption, SccInv,
         \/ BackArc(TRUE) /\ back_arc(Top.state, Target)
         \/ ForwardOrCrossArc(TRUE) /\ forward_or_cross_arc(Top.state, Target)
  PROVE  Passes(Top.state, Target)
<1>1. SearchInv /\ N \in Nat /\ dfs
  BY SearchTypes DEF SccInv
<1>2. /\ Taking /\ stack # <<>> /\ Top.left # <<>> /\ color[Target] # "White"
      /\ color' = color /\ stack' = Advanced /\ InTree /\ fst' = fst
  BY DEF BackArc, ForwardOrCrossArc, Taking, InTree
<1>3. /\ Top \in FrameType /\ Target \in State
      /\ Advanced \in Seq(FrameType) /\ Len(Advanced) = Len(stack) /\ Len(stack) \in Nat \ {0}
      /\ \A i \in 1 .. Len(stack) : Advanced[i].state = stack[i].state
      /\ Arc(Top.state, Target)
  BY <1>1, <1>2, AdvancedFrames
<1>4. Newest(Top.state)
  BY <1>1, <1>2, TopIsNewest DEF SccInv, StatesAreNumbered, Newest
<1>5. Target \in Met
  BY <1>2, <1>3 DEF Met
<1>6. root \in Grey
  <2>1. Len(stack) \in 1 .. Len(stack) /\ stack[Len(stack)].state = root
    BY <1>1, <1>2, <1>3 DEF SearchInv, FramesDiffer
  <2> QED
    BY <1>1, <2>1, FramesAreGrey
<1>7. dfnumber' = dfnumber
  BY DEF back_arc, forward_or_cross_arc
<1>8. FramesAreOrdered'
  BY <1>2, <1>3, <1>7 DEF SccInv, FramesAreOrdered
<1>9. ASSUME NEW a \in State, NEW b \in State, Taken(a, b)'
      PROVE  Taken(a, b) \/ (a = Top.state /\ b = Target)
  <2>1. ASSUME NEW i \in 1 .. Len(stack'), Took(stack[i], a, b)'
        PROVE  Taken(a, b) \/ (a = Top.state /\ b = Target)
    <3>1. Took(Advanced[i], a, b)
      BY <1>2, <2>1 DEF Took
    <3>2. i \in 1 .. Len(stack)
      BY <1>2, <1>3
    <3>3. Took(stack[i], a, b) \/ (a = Top.state /\ b = Target)
      BY <1>1, <1>2, <3>1, <3>2, AdvancedTook
    <3> QED
      BY <3>2, <3>3 DEF Taken
  <2> QED
    BY <1>2, <1>9, <2>1 DEF Taken, Arc
<1>10. \/ Target \in Grey /\ back_arc(Top.state, Target)
       \/ Target \notin Grey /\ forward_or_cross_arc(Top.state, Target)
  BY <1>3 DEF BackArc, ForwardOrCrossArc, Grey
<1> QED
  BY <1>2, <1>3, <1>4, <1>5, <1>6, <1>8, <1>9, <1>10 DEF Passes

\* The state on top finishes when its arcs are taken.
LEMMA FinishingFinishes ==
  ASSUME FstsAssumption, SccInv, FinishState, finish_state(Top.state, Top.parent)
  PROVE  Finishes(Top.state, Top.parent)
<1>1. SearchInv /\ N \in Nat /\ dfs = TRUE
  BY SearchTypes DEF SccInv
<1>2. /\ stack # <<>> /\ Top.left = <<>> /\ InTree /\ fst' = fst
      /\ color' = [color EXCEPT ![Top.state] = "Black"]
  BY <1>1 DEF FinishState, InTree
<1>3. /\ Top \in FrameType /\ Top.state \in State
      /\ Len(stack) \in Nat \ {0} /\ Len(stack') = Len(stack) - 1
      /\ \A i \in 1 .. Len(stack) - 1 : stack'[i] = stack[i + 1]
      /\ color' \in [State -> {"White", "Grey", "Black"}]
      /\ \A s \in State : s # Top.state => color'[s] = color[s]
      /\ Top = stack[1]
  BY <1>1, FinishedFrames
<1>4. Newest(Top.state)
  BY <1>1, <1>2, TopIsNewest DEF SccInv, StatesAreNumbered, Newest
<1>5. (Top.parent = None /\ Grey = {Top.state}) \/ Under(Top.parent, Top.state)
  BY <1>1, <1>2, ParentIsNext DEF SccInv, StatesAreNumbered, Under
<1>6. \A t \in State : Arc(Top.state, t) => Taken(Top.state, t)
  BY <1>1, <1>2, TopTookAll
<1>7. \A i \in 1 .. Len(stack') : i + 1 \in 1 .. Len(stack) /\ i \in 1 .. Len(stack) - 1
  <2>1. Len(stack') = Len(stack) - 1 /\ Len(stack) \in Nat
    BY <1>3
  <2> QED
    BY <2>1
<1>8. ASSUME NEW a \in State, NEW b \in State, Taken(a, b)' PROVE Taken(a, b)
  <2>1. CASE color'[a] = "Black" /\ Arc(a, b)'
    <3>1. Arc(a, b)
      BY <1>2, <2>1 DEF Arc
    <3> QED
      BY <1>3, <1>6, <2>1, <3>1 DEF Taken
  <2>2. ASSUME NEW i \in 1 .. Len(stack'), Took(stack[i], a, b)' PROVE Taken(a, b)
    <3>1. Took(stack'[i], a, b)
      BY <1>2, <2>2 DEF Took
    <3>2. i + 1 \in 1 .. Len(stack) /\ stack'[i] = stack[i + 1]
      BY <1>3, <1>7
    <3>3. Took(stack[i + 1], a, b)
      BY <3>1, <3>2, Zenon
    <3> QED
      BY <3>2, <3>3 DEF Taken
  <2> QED
    BY <1>8, <2>1, <2>2 DEF Taken
<1>9. dfnumber' = dfnumber
  BY DEF finish_state
<1>10. FramesAreOrdered'
  <2> SUFFICES ASSUME NEW i \in 1 .. Len(stack'), NEW j \in 1 .. Len(stack'), i < j
               PROVE  dfnumber[stack'[j].state] < dfnumber[stack'[i].state]
    BY <1>9 DEF FramesAreOrdered
  <2>1. /\ i + 1 \in 1 .. Len(stack) /\ j + 1 \in 1 .. Len(stack) /\ i + 1 < j + 1
        /\ stack'[i] = stack[i + 1] /\ stack'[j] = stack[j + 1]
    BY <1>3, <1>7
  <2> QED
    BY <2>1 DEF SccInv, FramesAreOrdered
<1> QED
  BY <1>2, <1>4, <1>5, <1>6, <1>8, <1>10 DEF Finishes

-----------------------------------------------------------------------------
(***************************************************************************)
(* A state is met                                                          *)
(***************************************************************************)

\* What meeting a state changes.
LEMMA MetStates ==
  ASSUME FstsAssumption, SccInv, NEW s \in State, Meets(s)
  PROVE  /\ N \in Nat \ {0} /\ fst' = fst /\ at # "done" /\ at' # "done" /\ root' = root
         /\ Reach' = Reach /\ Reach \in [State -> SUBSET State] /\ s \in Reach[s]
         /\ Met' = Met \cup {s} /\ s \notin Met /\ Grey' = Grey \cup {s} /\ Closed' = Closed /\ s \notin Closed
         /\ Met \subseteq State /\ Grey \subseteq Met /\ s \notin Grey /\ s \notin onstack
         /\ \A a \in State : color'[a] = "Black" <=> color[a] = "Black"
         /\ onstack' = onstack \cup {s} /\ onstack \subseteq Met
         /\ count \in Nat /\ dfnumber'[s] = count /\ lowlink'[s] = count
         /\ \A a \in Met : /\ dfnumber'[a] = dfnumber[a] /\ lowlink'[a] = lowlink[a]
                           /\ dfnumber[a] < count /\ dfnumber[a] \in Nat /\ lowlink[a] \in Nat
                           /\ lowlink[a] <= dfnumber[a] /\ a # s
         /\ scc' = scc /\ nscc' = nscc /\ coaccess' = coaccess
         /\ \A a, b : Arc(a, b)' <=> Arc(a, b)
<1>1. /\ SearchInv /\ N \in Nat \ {0} /\ fst' = fst /\ at # "done" /\ at' # "done" /\ root' = root
  BY SearchTypes DEF SccInv, Meets, InTree
<1>2. Reach' = Reach /\ Reach \in [State -> SUBSET State] /\ s \in Reach[s] /\ \A a, b : Arc(a, b)' <=> Arc(a, b)
  BY <1>1, CyclesStay, ReachBasics
<1>3. /\ color \in [State -> {"White", "Grey", "Black"}] /\ s \notin Met /\ color' = [color EXCEPT ![s] = "Grey"]
      /\ init_state(s, root)
  BY <1>1, SearchTypes DEF Meets
<1>4. /\ Met' = Met \cup {s} /\ Grey' = Grey \cup {s} /\ Grey \subseteq Met /\ s \notin Grey /\ Met \subseteq State
      /\ \A a \in State : color'[a] = "Black" <=> color[a] = "Black"
  BY <1>3 DEF Met, Grey
<1>5. onstack' = onstack \cup {s} /\ onstack \subseteq Met
  BY <1>3 DEF SccInv, OpenStatesWait, init_state
<1>6. Closed' = Closed /\ s \notin Closed
  BY <1>3, <1>4, <1>5 DEF Closed
<1>7. /\ dfnumber \in [State -> 0 .. N] /\ lowlink \in [State -> 0 .. N] /\ count \in Nat
      /\ \A a \in Met : dfnumber[a] < count /\ lowlink[a] <= dfnumber[a]
  BY DEF SccInv, StatesAreNumbered
<1>8. dfnumber' = [dfnumber EXCEPT ![s] = count] /\ lowlink' = [lowlink EXCEPT ![s] = count]
      /\ scc' = scc /\ nscc' = nscc /\ coaccess' = coaccess
  BY <1>3 DEF init_state
<1>9. /\ dfnumber'[s] = count /\ lowlink'[s] = count
      /\ \A a \in Met : /\ dfnumber'[a] = dfnumber[a] /\ lowlink'[a] = lowlink[a]
                        /\ dfnumber[a] < count /\ dfnumber[a] \in Nat /\ lowlink[a] \in Nat
                        /\ lowlink[a] <= dfnumber[a] /\ a # s
  BY <1>1, <1>3, <1>4, <1>7, <1>8
<1> QED
  BY <1>1, <1>2, <1>3, <1>4, <1>5, <1>6, <1>7, <1>8, <1>9

\* The next number is free, and there is room for it.
LEMMA MeetingKeepsNumbers ==
  ASSUME FstsAssumption, SccInv, NEW s \in State, Meets(s)
  PROVE  StatesAreNumbered'
<1>1. /\ N \in Nat \ {0} /\ Met' = Met \cup {s} /\ s \notin Met /\ Met \subseteq State
      /\ dfnumber'[s] = count /\ lowlink'[s] = count
      /\ \A a \in Met : /\ dfnumber'[a] = dfnumber[a] /\ lowlink'[a] = lowlink[a]
                        /\ dfnumber[a] < count /\ lowlink[a] <= dfnumber[a]
                        /\ dfnumber[a] \in Nat /\ lowlink[a] \in Nat
  BY MetStates
<1>2. IsFiniteSet(State) /\ Cardinality(State) = N
  BY SearchTypes DEF SccInv
<1>3. /\ dfnumber \in [State -> 0 .. N] /\ lowlink \in [State -> 0 .. N]
      /\ count \in Nat /\ count = Cardinality(Met) /\ \A a, b \in Met : dfnumber[a] = dfnumber[b] => a = b
  BY DEF SccInv, StatesAreNumbered
<1>4. dfnumber' = [dfnumber EXCEPT ![s] = count] /\ lowlink' = [lowlink EXCEPT ![s] = count] /\ count' = count + 1
  BY DEF Meets, init_state
<1>5. IsFiniteSet(Met)
  BY <1>1, <1>2, FS_Subset
<1>6. Cardinality(Met \cup {s}) = count + 1
  <2>1. Cardinality(Met \cup {s}) = IF s \in Met THEN Cardinality(Met) ELSE Cardinality(Met) + 1
    BY <1>5, FS_AddElement
  <2> QED
    BY <1>1, <1>3, <2>1
<1>7. Met \cup {s} \subseteq State
  BY <1>1
<1>8. Cardinality(Met \cup {s}) <= N
  BY <1>2, <1>7, FS_Subset
<1>9. count \in 0 .. N
  BY <1>1, <1>3, <1>6, <1>8
<1>10. dfnumber' \in [State -> 0 .. N] /\ lowlink' \in [State -> 0 .. N] /\ N' = N
  BY <1>3, <1>4, <1>9
<1>11. count' \in Nat /\ count' = Cardinality(Met')
  BY <1>1, <1>3, <1>4, <1>6
<1>12. ASSUME NEW a \in Met' PROVE dfnumber'[a] < count' /\ lowlink'[a] <= dfnumber'[a]
  <2>1. CASE a = s
    BY <1>1, <1>3, <1>4, <2>1
  <2>2. CASE a # s
    BY <1>1, <1>3, <1>4, <2>2
  <2> QED
    BY <2>1, <2>2
<1>13. ASSUME NEW a \in Met', NEW b \in Met', dfnumber'[a] = dfnumber'[b] PROVE a = b
  <2>1. \A c \in Met : dfnumber'[c] # count
    BY <1>1, <1>3
  <2>2. CASE a # s /\ b # s
    BY <1>1, <1>3, <1>13, <2>2
  <2>3. CASE a = s \/ b = s
    BY <1>1, <1>13, <2>1, <2>3
  <2> QED
    BY <2>2, <2>3
<1> QED
  BY <1>10, <1>11, <1>12, <1>13 DEF StatesAreNumbered, State

\* The state met is open, on top of those that are.
LEMMA MeetingKeepsStack ==
  ASSUME FstsAssumption, SccInv, NEW s \in State, Meets(s)
  PROVE  OpenStatesAreStacked'
<1>1. /\ onstack' = onstack \cup {s} /\ onstack \subseteq Met /\ s \notin Met
      /\ dfnumber'[s] = count
      /\ \A a \in Met : dfnumber'[a] = dfnumber[a] /\ dfnumber[a] < count
  BY MetStates
<1>2. scc_stack \in Seq(State) /\ scc_stack' = <<s>> \o scc_stack
  BY DEF SccInv, OpenStatesAreStacked, Meets, init_state
<1>3. /\ {scc_stack[i] : i \in 1 .. Len(scc_stack)} = onstack
      /\ \A i, j \in 1 .. Len(scc_stack) : i < j => dfnumber[scc_stack[i]] > dfnumber[scc_stack[j]]
  BY DEF SccInv, OpenStatesAreStacked, SccStackIsOrdered
<1>4. /\ scc_stack' \in Seq(State) /\ Len(scc_stack') = Len(scc_stack) + 1 /\ Len(scc_stack) \in Nat
      /\ scc_stack'[1] = s /\ \A i \in 1 .. Len(scc_stack) : scc_stack'[i + 1] = scc_stack[i]
  BY <1>2
<1>5. \A i \in 1 .. Len(scc_stack) : i + 1 \in 1 .. Len(scc_stack') /\ scc_stack[i] \in onstack
  BY <1>3, <1>4
<1>6. ASSUME NEW i \in 1 .. Len(scc_stack'), i # 1
      PROVE  i - 1 \in 1 .. Len(scc_stack) /\ scc_stack'[i] = scc_stack[i - 1]
  <2>1. Len(scc_stack') = Len(scc_stack) + 1 /\ Len(scc_stack) \in Nat
    BY <1>4
  <2>2. i - 1 \in 1 .. Len(scc_stack) /\ (i - 1) + 1 = i
    BY <1>6, <2>1
  <2> QED
    BY <1>4, <2>2
<1>7. {scc_stack'[i] : i \in 1 .. Len(scc_stack')} = onstack'
  <2>1. {scc_stack'[i] : i \in 1 .. Len(scc_stack')} \subseteq onstack'
    <3> SUFFICES ASSUME NEW i \in 1 .. Len(scc_stack') PROVE scc_stack'[i] \in onstack'
      OBVIOUS
    <3>1. i # 1 => scc_stack'[i] \in onstack
      BY <1>5, <1>6
    <3> QED
      BY <1>1, <1>4, <3>1
  <2>2. 1 \in 1 .. Len(scc_stack')
    BY <1>4
  <2>3. onstack \subseteq {scc_stack'[i] : i \in 1 .. Len(scc_stack')}
    <3> SUFFICES ASSUME NEW a \in onstack PROVE \E i \in 1 .. Len(scc_stack') : scc_stack'[i] = a
      OBVIOUS
    <3>1. PICK i \in 1 .. Len(scc_stack) : scc_stack[i] = a
      BY <1>3
    <3> QED
      BY <1>4, <1>5, <3>1
  <2> QED
    BY <1>1, <1>4, <2>1, <2>2, <2>3
<1>8. ASSUME NEW i \in 1 .. Len(scc_stack'), NEW j \in 1 .. Len(scc_stack'), i < j
      PROVE  dfnumber'[scc_stack'[i]] > dfnumber'[scc_stack'[j]]
  <2>1. j # 1 /\ j - 1 \in 1 .. Len(scc_stack) /\ scc_stack'[j] = scc_stack[j - 1]
    BY <1>6, <1>8
  <2>2. dfnumber'[scc_stack'[j]] = dfnumber[scc_stack[j - 1]] /\ dfnumber[scc_stack[j - 1]] < count
    BY <1>1, <1>5, <2>1
  <2>3. CASE i = 1
    BY <1>1, <1>4, <2>2, <2>3
  <2>4. CASE i # 1
    <3>1. i - 1 \in 1 .. Len(scc_stack) /\ scc_stack'[i] = scc_stack[i - 1] /\ i - 1 < j - 1
      BY <1>6, <1>8, <2>4
    <3>2. dfnumber'[scc_stack'[i]] = dfnumber[scc_stack[i - 1]]
      BY <1>1, <1>5, <3>1
    <3> QED
      BY <1>3, <2>1, <2>2, <3>1, <3>2
  <2> QED
    BY <2>3, <2>4
<1> QED
  BY <1>4, <1>7, <1>8 DEF OpenStatesAreStacked, SccStackIsOrdered, State

\* The state met is a grey one, newer than all others.
LEMMA MeetingKeepsOpen ==
  ASSUME FstsAssumption, SccInv, NEW s \in State, Meets(s)
  PROVE  OpenStatesWait' /\ GreyStatesLeadOn' /\ TakenArcsLeadBack'
<1>1. /\ N \in Nat \ {0} /\ Reach' = Reach /\ s \in Reach[s]
      /\ Met' = Met \cup {s} /\ s \notin Met /\ Grey' = Grey \cup {s}
      /\ Met \subseteq State /\ Grey \subseteq Met /\ s \notin Grey
      /\ \A a \in State : color'[a] = "Black" <=> color[a] = "Black"
      /\ onstack' = onstack \cup {s} /\ onstack \subseteq Met
      /\ count \in Nat /\ dfnumber'[s] = count
      /\ \A a \in Met : dfnumber'[a] = dfnumber[a] /\ dfnumber[a] < count /\ dfnumber[a] \in Nat
  BY MetStates
<1>2. OpenStatesWait /\ GreyStatesLeadOn /\ TakenArcsLeadBack /\ dfs
  BY DEF SccInv
<1>3. OpenStatesWait'
  <2> SUFFICES ASSUME NEW a \in onstack'
               PROVE  \E g \in Grey' : g \in Reach[a] /\ dfnumber'[g] <= dfnumber'[a]
    BY <1>1, <1>2 DEF OpenStatesWait
  <2>1. CASE a = s
    BY <1>1, <2>1
  <2>2. CASE a # s
    <3>1. PICK g \in Grey : g \in Reach[a] /\ dfnumber[g] <= dfnumber[a]
      BY <1>1, <1>2, <2>2 DEF OpenStatesWait
    <3> QED
      BY <1>1, <2>2, <3>1
  <2> QED
    BY <2>1, <2>2
<1>4. GreyStatesLeadOn'
  <2> SUFFICES ASSUME NEW g \in Grey', NEW a \in Met', dfnumber'[g] <= dfnumber'[a]
               PROVE  a \in Reach[g]
    BY <1>1 DEF GreyStatesLeadOn
  <2>1. CASE g = s
    <3>1. a = s
      BY <1>1, <2>1
    <3> QED
      BY <1>1, <2>1, <3>1
  <2>2. CASE g # s /\ a = s
    BY <1>1, <2>2 DEF Meets
  <2>3. CASE g # s /\ a # s
    BY <1>1, <1>2, <2>3 DEF GreyStatesLeadOn
  <2> QED
    BY <2>1, <2>2, <2>3
<1>5. TakenArcsLeadBack'
  <2> SUFFICES ASSUME NEW a \in State, NEW b \in State, Taken(a, b)'
               PROVE  /\ b \in Met'
                      /\ \A g \in Grey' : dfnumber'[a] < dfnumber'[g] =>
                           dfnumber'[b] <= dfnumber'[g] /\ (color'[a] = "Black" => b # g)
    BY DEF TakenArcsLeadBack, State
  <2>1. CASE Taken(a, b)
    <3>1. a \in Met /\ b \in Met
      BY <1>2, <2>1, TakenIsMet DEF SccInv
    <3>2. ASSUME NEW g \in Grey', dfnumber'[a] < dfnumber'[g]
          PROVE  dfnumber'[b] <= dfnumber'[g] /\ (color'[a] = "Black" => b # g)
      <4>1. CASE g = s
        BY <1>1, <3>1, <4>1
      <4>2. CASE g # s
        <5>1. g \in Grey /\ dfnumber[a] < dfnumber[g]
          BY <1>1, <3>1, <3>2, <4>2
        <5>2. dfnumber[b] <= dfnumber[g] /\ (color[a] = "Black" => b # g)
          BY <1>2, <2>1, <5>1 DEF TakenArcsLeadBack
        <5> QED
          BY <1>1, <3>1, <5>1, <5>2
      <4> QED
        BY <4>1, <4>2
    <3> QED
      BY <1>1, <3>1, <3>2
  <2>2. CASE ~Taken(a, b)
    <3>1. b = s /\ Newest(a)
      BY <2>2 DEF Meets
    <3>2. a \in Grey /\ a \in Met /\ color[a] # "Black"
      BY <1>1, <3>1 DEF Newest, Grey
    <3>3. ASSUME NEW g \in Grey', dfnumber'[a] < dfnumber'[g] PROVE g = s
      <4> SUFFICES ASSUME g \in Grey PROVE FALSE
        BY <1>1
      <4>1. dfnumber[g] <= dfnumber[a] /\ dfnumber'[g] = dfnumber[g] /\ dfnumber'[a] = dfnumber[a]
        BY <1>1, <3>1, <3>2 DEF Newest
      <4>2. dfnumber[g] \in Nat /\ dfnumber[a] \in Nat
        BY <1>1, <3>2
      <4> QED
        BY <3>3, <4>1, <4>2
    <3> QED
      BY <1>1, <3>1, <3>2, <3>3
  <2> QED
    BY <2>1, <2>2
<1> QED
  BY <1>3, <1>4, <1>5

\* The links of what was met before stay what they were.
LEMMA MeetingKeepsLinks ==
  ASSUME FstsAssumption, SccInv, NEW s \in State, Meets(s)
  PROVE  LinksAreKnown' /\ LinksAreLow'
<1>1. /\ N \in Nat \ {0} /\ Reach' = Reach /\ s \in Reach[s]
      /\ s \notin Met /\ Grey' = Grey \cup {s}
      /\ Met \subseteq State /\ Grey \subseteq Met /\ s \notin Grey
      /\ onstack' = onstack \cup {s} /\ onstack \subseteq Met
      /\ count \in Nat /\ dfnumber'[s] = count /\ lowlink'[s] = count
      /\ \A a \in Met : /\ dfnumber'[a] = dfnumber[a] /\ lowlink'[a] = lowlink[a]
                        /\ dfnumber[a] < count /\ dfnumber[a] \in Nat /\ lowlink[a] \in Nat
                        /\ lowlink[a] <= dfnumber[a] /\ a # s
  BY MetStates
<1>2. LinksAreKnown /\ LinksAreLow /\ dfs /\ SearchInv
  BY DEF SccInv
<1>3. LinksAreKnown'
  <2> SUFFICES ASSUME NEW a \in onstack'
               PROVE  \E t \in onstack' : t \in Reach[a] /\ dfnumber'[t] = lowlink'[a]
    BY <1>1 DEF LinksAreKnown
  <2>1. CASE a = s
    BY <1>1, <2>1
  <2>2. CASE a # s
    <3>1. PICK t \in onstack : t \in Reach[a] /\ dfnumber[t] = lowlink[a]
      BY <1>1, <1>2, <2>2 DEF LinksAreKnown
    <3> QED
      BY <1>1, <2>2, <3>1
  <2> QED
    BY <2>1, <2>2
<1>4. LinksAreLow'
  <2> SUFFICES ASSUME NEW a \in onstack', NEW b \in onstack', Taken(a, b)', NEW g \in State, WaitsFor(a, g)'
               PROVE  lowlink'[g] <= dfnumber'[b]
    BY DEF LinksAreLow, State
  <2>1. a \in State /\ b \in State
    BY <1>1
  <2>2. a \in Met
    <3>1. CASE Taken(a, b)
      BY <1>2, <2>1, <3>1, TakenIsMet
    <3>2. CASE ~Taken(a, b)
      BY <1>1, <2>1, <3>2 DEF Meets, Newest
    <3> QED
      BY <3>1, <3>2
  <2>3. /\ g \in Grey' /\ dfnumber'[g] <= dfnumber'[a]
        /\ \A h \in Grey' : dfnumber'[h] <= dfnumber'[a] => dfnumber'[h] <= dfnumber'[g]
    BY DEF WaitsFor
  <2>4. g \in Grey /\ g \in Met
    BY <1>1, <2>2, <2>3
  <2>5. CASE Taken(a, b)
    <3>1. b \in Met /\ a \in onstack /\ b \in onstack
      BY <1>1, <1>2, <2>1, <2>2, <2>5, TakenIsMet
    <3>2. ASSUME NEW h \in Grey, dfnumber[h] <= dfnumber[a] PROVE dfnumber[h] <= dfnumber[g]
      BY <1>1, <2>2, <2>3, <2>4, <3>2
    <3>3. WaitsFor(a, g)
      BY <1>1, <2>2, <2>3, <2>4, <3>2 DEF WaitsFor
    <3>4. lowlink[g] <= dfnumber[b]
      BY <1>2, <2>5, <3>1, <3>3 DEF LinksAreLow
    <3> QED
      BY <1>1, <2>4, <3>1, <3>4
  <2>6. CASE ~Taken(a, b)
    <3>1. b = s
      BY <2>1, <2>6 DEF Meets
    <3>2. lowlink[g] <= dfnumber[g] /\ dfnumber[g] < count /\ lowlink[g] \in Nat /\ dfnumber[g] \in Nat
      BY <1>1, <2>4
    <3> QED
      BY <1>1, <2>4, <3>1, <3>2
  <2> QED
    BY <2>5, <2>6
<1> QED
  BY <1>3, <1>4

\* What is closed stays as it is.
LEMMA MeetingKeepsComponents ==
  ASSUME FstsAssumption, SccInv, NEW s \in State, Meets(s)
  PROVE  ClosedAreNumbered' /\ ClosedAreComponents' /\ CoaccessIsKnown'
<1>1. /\ N \in Nat \ {0} /\ at # "done" /\ at' # "done" /\ fst' = fst
      /\ Reach' = Reach /\ Met' = Met \cup {s} /\ Closed' = Closed /\ s \notin Closed
      /\ s \notin Met /\ Met \subseteq State
      /\ \A a \in State : color'[a] = "Black" <=> color[a] = "Black"
      /\ onstack' = onstack \cup {s} /\ onstack \subseteq Met
      /\ scc' = scc /\ nscc' = nscc /\ coaccess' = coaccess
      /\ \A a, b : Arc(a, b)' <=> Arc(a, b)
  BY MetStates
<1>2. ClosedAreNumbered /\ ClosedAreComponents /\ CoaccessIsKnown /\ dfs
  BY DEF SccInv
<1>3. ClosedAreNumbered'
  BY <1>1, <1>2 DEF ClosedAreNumbered, State
<1>4. \A a : Number(a)' = Number(a)
  BY <1>1 DEF Number
<1>5. ClosedAreComponents'
  BY <1>1, <1>2, <1>4 DEF ClosedAreComponents, State
<1>6. \A a : Ends(a)' <=> Ends(a)
  BY <1>1 DEF Ends
<1>7. ASSUME NEW a \in onstack', NEW b \in Closed', Taken(a, b)', b \in coaccess' PROVE a \in coaccess'
  <2>1. a \in State /\ b \in State /\ b \in Closed
    BY <1>1 DEF Closed
  <2>2. Taken(a, b)
    BY <1>1, <1>7, <2>1 DEF Meets
  <2>3. a \in Met
    BY <1>2, <2>1, <2>2, TakenIsMet DEF SccInv
  <2> QED
    BY <1>1, <1>2, <1>7, <2>1, <2>2, <2>3 DEF CoaccessIsKnown
<1>8. \A a \in onstack' : color'[a] = "Black" /\ a \in fst'.final => a \in coaccess'
  <2> SUFFICES ASSUME NEW a \in onstack', color[a] = "Black", a \in fst.final PROVE a \in coaccess
    BY <1>1
  <2>1. color'[a] = "Black"
    BY <1>1
  <2>2. a # s
    BY <2>1, <1>1 DEF Meets, Met
  <2> QED
    BY <1>1, <1>2, <2>2 DEF CoaccessIsKnown
<1>9. CoaccessIsKnown'
  BY <1>1, <1>2, <1>6, <1>7, <1>8 DEF CoaccessIsKnown
<1> QED
  BY <1>3, <1>5, <1>9

\* A state met from the first root is accessible, and one met from another is not.
LEMMA MeetingKeepsProps ==
  ASSUME FstsAssumption, SccInv, NEW s \in State, Meets(s)
  PROVE  AccessIsKnown' /\ PropsAreKnown'
<1>1. /\ N \in Nat \ {0} /\ at # "done" /\ at' # "done" /\ fst' = fst /\ root' = root
      /\ Reach' = Reach /\ Met' = Met \cup {s} /\ s \notin Met /\ Closed' = Closed
      /\ Grey' = Grey \cup {s} /\ Grey \subseteq Met /\ Met \subseteq State /\ s \notin Grey
      /\ onstack' = onstack \cup {s} /\ onstack \subseteq Met
      /\ dfnumber'[s] = count /\ lowlink'[s] = count
      /\ \A a \in Met : dfnumber'[a] = dfnumber[a] /\ lowlink'[a] = lowlink[a]
      /\ scc' = scc /\ nscc' = nscc /\ coaccess' = coaccess
      /\ \A a, b : Arc(a, b)' <=> Arc(a, b)
  BY MetStates
<1>2. AccessIsKnown /\ AnswersDiffer /\ StaysAcyclic /\ CyclesAreKnown /\ ConnectionIsKnown /\ dfs /\ SearchInv
  BY DEF SccInv, PropsAreKnown
<1>3. IF root = fst.start THEN access' = access \cup {s} /\ props' = props
      ELSE access' = access \ {s} /\ props' = (props \ {"ACCESSIBLE"}) \cup {"NOT_ACCESSIBLE"}
  BY DEF Meets, init_state, Unset
<1>4. access \subseteq Met
  BY <1>2 DEF AccessIsKnown
<1>5. root # fst.start => access' = access
  BY <1>1, <1>3, <1>4
<1>6. AccessIsKnown'
  <2>1. CASE root = fst.start
    BY <1>1, <1>2, <1>3, <2>1 DEF AccessIsKnown, Meets
  <2>2. CASE root # fst.start
    BY <1>1, <1>2, <1>5, <2>2 DEF AccessIsKnown
  <2> QED
    BY <2>1, <2>2
<1>7. AnswersDiffer'
  BY <1>2, <1>3 DEF AnswersDiffer
<1>8. /\ "ACYCLIC" \in props' <=> "ACYCLIC" \in props
      /\ "CYCLIC" \in props' <=> "CYCLIC" \in props
      /\ "INITIAL_ACYCLIC" \in props' <=> "INITIAL_ACYCLIC" \in props
      /\ "INITIAL_CYCLIC" \in props' <=> "INITIAL_CYCLIC" \in props
      /\ "CO_ACCESSIBLE" \in props' <=> "CO_ACCESSIBLE" \in props
  BY <1>3
<1>9. \A a : Number(a)' = Number(a)
  BY <1>1 DEF Number
<1>10. StaysAcyclic'
  <2> SUFFICES ASSUME "ACYCLIC" \in props
               PROVE  /\ onstack' = Grey'
                      /\ \A g \in Grey' : lowlink'[g] = dfnumber'[g]
                      /\ \A a \in State : ~Taken(a, a)'
                      /\ \A a \in Closed' : \A t \in State : Arc(a, t)' => Number(t)' # Number(a)'
    BY <1>8 DEF StaysAcyclic, State
  <2>1. /\ onstack = Grey
        /\ \A g \in Grey : lowlink[g] = dfnumber[g]
        /\ \A a \in State : ~Taken(a, a)
        /\ \A a \in Closed : \A t \in State : Arc(a, t) => Number(t) # Number(a)
    BY <1>2 DEF StaysAcyclic
  <2>2. \A g \in Grey' : lowlink'[g] = dfnumber'[g]
    BY <1>1, <2>1
  <2>3. \A a \in State : ~Taken(a, a)'
    BY <1>1, <2>1 DEF Meets, Newest
  <2> QED
    BY <1>1, <1>9, <2>1, <2>2, <2>3
<1>11. CyclesAreKnown'
  <2>1. \A a : OnCycle(a)' <=> OnCycle(a)
    BY <1>1, CyclesStay
  <2>2. ASSUME "INITIAL_ACYCLIC" \in props, fst.start # None, NEW a \in access', Taken(a, fst.start)'
        PROVE  FALSE
    <3>1. fst.start \in State
      BY <1>2, <2>2, SearchTypes
    <3>2. fst.start \in Met \/ Grey = {}
      <4>1. CASE color[root] # "White" /\ root = fst.start
        BY <3>1, <4>1 DEF Met
      <4>2. CASE root # fst.start
        <5>1. fst.start \in Reach[fst.start]
          BY <1>1, <3>1, ReachBasics
        <5> QED
          BY <1>2, <4>2, <5>1 DEF AccessIsKnown
      <4> QED
        BY <4>1, <4>2 DEF Meets
    <3>3. a \in State
      BY <1>1, <1>3, <1>4
    <3>4. Taken(a, fst.start)
      BY <1>1, <2>2, <3>1, <3>2, <3>3 DEF Meets, Newest
    <3>5. a \in Met
      BY <1>2, <3>1, <3>3, <3>4, TakenIsMet
    <3>6. a \in access
      BY <1>1, <1>3, <3>5
    <3> QED
      BY <1>2, <2>2, <3>4, <3>6 DEF CyclesAreKnown
  <2>3. ("INITIAL_ACYCLIC" \in props /\ fst.start # None => \A a \in access : ~Taken(a, fst.start))'
    <3> SUFFICES ASSUME "INITIAL_ACYCLIC" \in props', fst'.start # None', NEW a \in access', Taken(a, fst.start)'
                 PROVE  FALSE
      OBVIOUS
    <3> QED
      BY <1>1, <1>8, <2>2
  <2>4. ("CYCLIC" \in props => \E a \in State : OnCycle(a))'
    BY <1>2, <1>8, <2>1 DEF CyclesAreKnown, State
  <2>5. ("INITIAL_CYCLIC" \in props => fst.start # None /\ OnCycle(fst.start))'
    <3>1. OnCycle(fst.start)' <=> OnCycle(fst.start)
      BY <1>1, <2>1 DEF OnCycle
    <3> QED
      BY <1>1, <1>2, <1>8, <3>1 DEF CyclesAreKnown
  <2> QED
    BY <2>3, <2>4, <2>5 DEF CyclesAreKnown
<1>12. ConnectionIsKnown'
  <2>1. "ACCESSIBLE" \in props' <=> Met' \subseteq access'
    <3>1. CASE root = fst.start
      BY <1>1, <1>2, <1>3, <3>1 DEF AccessIsKnown, ConnectionIsKnown
    <3>2. CASE root # fst.start
      BY <1>1, <1>3, <1>4, <3>2
    <3> QED
      BY <3>1, <3>2
  <2>2. "CO_ACCESSIBLE" \in props' <=> Closed' \subseteq coaccess'
    BY <1>1, <1>2, <1>8 DEF ConnectionIsKnown
  <2> QED
    BY <2>1, <2>2 DEF ConnectionIsKnown
<1> QED
  BY <1>6, <1>7, <1>10, <1>11, <1>12 DEF PropsAreKnown

\* All of that at once.
LEMMA MeetingKeepsScc ==
  ASSUME FstsAssumption, SccInv, NEW s \in State, Meets(s), SearchInv'
  PROVE  SccInv'
<1>1. FramesAreOrdered' /\ dfs' = TRUE
  BY DEF Meets, InTree
<1> QED
  BY <1>1, MeetingKeepsNumbers, MeetingKeepsStack, MeetingKeepsOpen, MeetingKeepsLinks,
     MeetingKeepsComponents, MeetingKeepsProps DEF SccInv

-----------------------------------------------------------------------------
(***************************************************************************)
(* An arc is passed                                                        *)
(***************************************************************************)

\* A path and an arc from its end to its start make a cycle.
LEMMA PathsAndArcsMakeCycles ==
  ASSUME N \in Nat, NEW x \in State, NEW s \in State, s \in Reach[x], Arc(s, x)
  PROVE  OnCycle(x)
<1>1. Reach \in [State -> SUBSET State] /\ \A a \in State : a \in Reach[a]
  BY ReachBasics
<1> DEFINE S == {y \in State : y = x \/ \E u \in State : Arc(x, u) /\ y \in Reach[u]}
<1>2. \A y \in S : \A v \in State : Arc(y, v) => v \in S
  <2> SUFFICES ASSUME NEW y \in S, NEW v \in State, Arc(y, v)
               PROVE  \E u \in State : Arc(x, u) /\ v \in Reach[u]
    OBVIOUS
  <2>1. CASE y = x
    BY <1>1, <2>1
  <2>2. ASSUME NEW u \in State, Arc(x, u), y \in Reach[u] PROVE v \in Reach[u]
    <3>1. v \in Reach[y]
      BY <1>1, ReachExtends
    <3> QED
      BY <2>2, <3>1, ReachJoins
  <2> QED
    BY <2>1, <2>2
<1>3. s \in S
  <2>1. x \in S /\ S \in SUBSET State
    OBVIOUS
  <2> HIDE DEF S
  <2>2. Reach[x] \subseteq S
    BY <1>2, <2>1, ReachStaysInside
  <2> QED
    BY <2>2
<1>4. CASE s = x
  BY <1>1, <1>4 DEF OnCycle
<1>5. ASSUME NEW u \in State, Arc(x, u), s \in Reach[u] PROVE OnCycle(x)
  <2>1. x \in Reach[s]
    BY <1>1, ReachExtends
  <2>2. x \in Reach[u]
    BY <1>5, <2>1, ReachJoins
  <2> QED
    BY <1>5, <2>2 DEF OnCycle
<1> QED
  BY <1>3, <1>4, <1>5

\* What passing an arc changes: one link, and what one state knows.
LEMMA PassedStates ==
  ASSUME FstsAssumption, SccInv, NEW s \in State, NEW t \in State, Passes(s, t)
  PROVE  /\ N \in Nat \ {0} /\ fst' = fst /\ at # "done" /\ at' # "done" /\ root' = root /\ color' = color
         /\ Reach' = Reach /\ Reach \in [State -> SUBSET State] /\ t \in Reach[s]
         /\ Met' = Met /\ Grey' = Grey /\ Closed' = Closed /\ onstack' = onstack /\ scc_stack' = scc_stack
         /\ Met \subseteq State /\ Grey \subseteq onstack /\ onstack \subseteq Met /\ s \in Grey /\ t \in Met
         /\ dfnumber' = dfnumber /\ \A a \in Met : dfnumber[a] \in Nat /\ lowlink[a] \in Nat /\ lowlink[a] <= dfnumber[a]
         /\ lowlink' \in [State -> 0 .. N]
         /\ \A a \in State : a # s => lowlink'[a] = lowlink[a]
         /\ lowlink'[s] <= lowlink[s] /\ lowlink'[s] \in Nat
         /\ lowlink'[s] = lowlink[s] \/ (t \in onstack /\ lowlink'[s] = dfnumber[t])
         /\ t \in onstack => lowlink'[s] <= dfnumber[t]
         /\ scc' = scc /\ nscc' = nscc /\ count' = count /\ access' = access
         /\ coaccess' = IF t \in coaccess THEN coaccess \cup {s} ELSE coaccess
         /\ \A a, b : Arc(a, b)' <=> Arc(a, b)
<1>1. SearchInv /\ N \in Nat \ {0} /\ InTree /\ color' = color
  BY SearchTypes DEF SccInv, Passes
<1>2. fst' = fst /\ at # "done" /\ at' # "done" /\ root' = root
  BY <1>1 DEF InTree
<1>3. Reach' = Reach /\ Reach \in [State -> SUBSET State] /\ \A a, b : Arc(a, b)' <=> Arc(a, b)
  BY <1>1, <1>2, CyclesStay, ReachBasics
<1>4. t \in Reach[s]
  <2>1. t \in Reach[t]
    BY <1>1, ReachBasics
  <2> QED
    BY <1>1, <2>1, ReachExtends DEF Passes
<1>5. (t \in Grey /\ back_arc(s, t)) \/ (t \notin Grey /\ forward_or_cross_arc(s, t))
  BY DEF Passes
<1>6. /\ dfnumber' = dfnumber /\ onstack' = onstack /\ scc_stack' = scc_stack /\ scc' = scc /\ nscc' = nscc
      /\ count' = count /\ access' = access
      /\ coaccess' = IF t \in coaccess THEN coaccess \cup {s} ELSE coaccess
  BY <1>5 DEF back_arc, forward_or_cross_arc, Inherit
<1>7. Met' = Met /\ Grey' = Grey /\ Closed' = Closed
  BY <1>1, <1>6 DEF Met, Grey, Closed, State
<1>8. /\ Met \subseteq State /\ Grey \subseteq onstack /\ onstack \subseteq Met /\ s \in Grey /\ t \in Met
  BY DEF SccInv, OpenStatesWait, Met, Passes, Newest
<1>9. /\ dfnumber \in [State -> 0 .. N] /\ lowlink \in [State -> 0 .. N]
      /\ \A a \in Met : lowlink[a] <= dfnumber[a]
  BY DEF SccInv, StatesAreNumbered
<1>10. \A a \in Met : dfnumber[a] \in Nat /\ lowlink[a] \in Nat /\ lowlink[a] <= dfnumber[a]
  BY <1>8, <1>9
<1>11. /\ dfnumber[s] \in 0 .. N /\ dfnumber[t] \in 0 .. N /\ lowlink[s] \in 0 .. N /\ lowlink[s] <= dfnumber[s]
  BY <1>8, <1>9
<1> DEFINE low == IF t \in Grey \/ (dfnumber[t] < dfnumber[s] /\ t \in onstack)
                  THEN Smaller(lowlink[s], dfnumber[t]) ELSE lowlink[s]
<1>12. lowlink' = [lowlink EXCEPT ![s] = low]
  BY <1>5 DEF back_arc, forward_or_cross_arc
<1>13. /\ low \in 0 .. N /\ low <= lowlink[s]
       /\ low = lowlink[s] \/ (t \in onstack /\ low = dfnumber[t])
       /\ t \in onstack => low <= dfnumber[t]
  BY <1>1, <1>8, <1>11 DEF Smaller
<1> HIDE DEF low
<1>14. /\ lowlink' \in [State -> 0 .. N] /\ lowlink'[s] = low
       /\ \A a \in State : a # s => lowlink'[a] = lowlink[a]
  BY <1>9, <1>12, <1>13
<1> QED
  BY <1>1, <1>2, <1>3, <1>4, <1>6, <1>7, <1>8, <1>10, <1>13, <1>14

\* States keep their numbers, what is open stays open, and the arc leads back.
LEMMA PassingKeepsOpen ==
  ASSUME FstsAssumption, SccInv, NEW s \in State, NEW t \in State, Passes(s, t)
  PROVE  /\ StatesAreNumbered' /\ OpenStatesWait' /\ OpenStatesAreStacked' /\ GreyStatesLeadOn' /\ TakenArcsLeadBack'
<1>1. /\ N \in Nat \ {0} /\ color' = color /\ Reach' = Reach
      /\ Met' = Met /\ Grey' = Grey /\ onstack' = onstack /\ scc_stack' = scc_stack
      /\ Met \subseteq State /\ Grey \subseteq onstack /\ onstack \subseteq Met /\ s \in Grey /\ t \in Met
      /\ dfnumber' = dfnumber /\ \A a \in Met : dfnumber[a] \in Nat /\ lowlink[a] \in Nat /\ lowlink[a] <= dfnumber[a]
      /\ lowlink' \in [State -> 0 .. N]
      /\ \A a \in State : a # s => lowlink'[a] = lowlink[a]
      /\ lowlink'[s] <= lowlink[s] /\ lowlink'[s] \in Nat
      /\ count' = count
  BY PassedStates
<1>2. StatesAreNumbered /\ OpenStatesWait /\ OpenStatesAreStacked /\ GreyStatesLeadOn /\ TakenArcsLeadBack
  BY DEF SccInv
<1>3. StatesAreNumbered'
  <2>1. ASSUME NEW a \in Met PROVE lowlink'[a] <= dfnumber[a]
    <3>1. lowlink[a] <= dfnumber[a] /\ lowlink[a] \in Nat /\ dfnumber[a] \in Nat /\ a \in State
      BY <1>1
    <3>2. a = s \/ lowlink'[a] = lowlink[a]
      BY <1>1, <3>1
    <3> QED
      BY <1>1, <3>1, <3>2
  <2>2. /\ dfnumber \in [State -> 0 .. N] /\ count \in Nat /\ count = Cardinality(Met)
        /\ \A a \in Met : dfnumber[a] < count
        /\ \A a, b \in Met : dfnumber[a] = dfnumber[b] => a = b
    BY <1>2 DEF StatesAreNumbered
  <2>3. \A a \in Met' : dfnumber'[a] < count' /\ lowlink'[a] <= dfnumber'[a]
    BY <1>1, <2>1, <2>2
  <2> QED
    BY <1>1, <2>2, <2>3 DEF StatesAreNumbered, State
<1>4. OpenStatesWait' /\ GreyStatesLeadOn'
  BY <1>1, <1>2 DEF OpenStatesWait, GreyStatesLeadOn
<1>5. OpenStatesAreStacked'
  BY <1>1, <1>2 DEF OpenStatesAreStacked, SccStackIsOrdered, State
<1>6. TakenArcsLeadBack'
  <2> SUFFICES ASSUME NEW a \in State, NEW b \in State, Taken(a, b)'
               PROVE  /\ b \in Met
                      /\ \A g \in Grey : dfnumber[a] < dfnumber[g] =>
                           dfnumber[b] <= dfnumber[g] /\ (color[a] = "Black" => b # g)
    BY <1>1 DEF TakenArcsLeadBack, State
  <2>1. CASE Taken(a, b)
    BY <1>2, <2>1 DEF TakenArcsLeadBack
  <2>2. CASE ~Taken(a, b)
    <3>1. a = s /\ b = t
      BY <2>2 DEF Passes
    <3>2. ASSUME NEW g \in Grey, dfnumber[s] < dfnumber[g] PROVE FALSE
      <4>1. dfnumber[g] <= dfnumber[s] /\ dfnumber[g] \in Nat /\ dfnumber[s] \in Nat
        BY <1>1 DEF Passes, Newest
      <4> QED
        BY <3>2, <4>1
    <3> QED
      BY <1>1, <3>1, <3>2
  <2> QED
    BY <2>1, <2>2
<1> QED
  BY <1>3, <1>4, <1>5, <1>6

\* The link goes down to a number that is known, and no further than the arc leads.
LEMMA PassingKeepsLinks ==
  ASSUME FstsAssumption, SccInv, NEW s \in State, NEW t \in State, Passes(s, t)
  PROVE  LinksAreKnown' /\ LinksAreLow'
<1>1. /\ N \in Nat \ {0} /\ Reach' = Reach /\ t \in Reach[s]
      /\ Grey' = Grey /\ onstack' = onstack
      /\ Met \subseteq State /\ Grey \subseteq onstack /\ onstack \subseteq Met /\ s \in Grey /\ t \in Met
      /\ dfnumber' = dfnumber /\ \A a \in Met : dfnumber[a] \in Nat /\ lowlink[a] \in Nat /\ lowlink[a] <= dfnumber[a]
      /\ \A a \in State : a # s => lowlink'[a] = lowlink[a]
      /\ lowlink'[s] <= lowlink[s] /\ lowlink'[s] \in Nat
      /\ lowlink'[s] = lowlink[s] \/ (t \in onstack /\ lowlink'[s] = dfnumber[t])
      /\ t \in onstack => lowlink'[s] <= dfnumber[t]
  BY PassedStates
<1>2. LinksAreKnown /\ LinksAreLow
  BY DEF SccInv
<1>3. LinksAreKnown'
  <2> SUFFICES ASSUME NEW a \in onstack
               PROVE  \E u \in onstack : u \in Reach[a] /\ dfnumber[u] = lowlink'[a]
    BY <1>1 DEF LinksAreKnown
  <2>1. PICK u \in onstack : u \in Reach[a] /\ dfnumber[u] = lowlink[a]
    BY <1>2 DEF LinksAreKnown
  <2>2. CASE lowlink'[a] = lowlink[a]
    BY <2>1, <2>2
  <2>3. CASE lowlink'[a] # lowlink[a]
    BY <1>1, <2>3
  <2> QED
    BY <2>2, <2>3
<1>4. ASSUME NEW g \in Met PROVE lowlink'[g] <= lowlink[g] /\ lowlink'[g] \in Nat
  BY <1>1
<1>5. LinksAreLow'
  <2> SUFFICES ASSUME NEW a \in onstack, NEW b \in onstack, Taken(a, b)', NEW g \in State, WaitsFor(a, g)'
               PROVE  lowlink'[g] <= dfnumber[b]
    BY <1>1 DEF LinksAreLow, State
  <2>1. a \in State /\ b \in State /\ g \in Grey /\ g \in Met /\ a \in Met /\ b \in Met
    BY <1>1 DEF WaitsFor
  <2>2. WaitsFor(a, g)
    BY <1>1 DEF WaitsFor
  <2>3. lowlink'[g] <= lowlink[g] /\ lowlink'[g] \in Nat /\ lowlink[g] \in Nat /\ dfnumber[b] \in Nat
    BY <1>1, <1>4, <2>1
  <2>4. CASE Taken(a, b)
    <3>1. lowlink[g] <= dfnumber[b]
      BY <1>2, <2>2, <2>4 DEF LinksAreLow
    <3> QED
      BY <2>3, <3>1
  <2>5. CASE ~Taken(a, b)
    <3>1. a = s /\ b = t
      BY <2>1, <2>5 DEF Passes
    <3>2. dfnumber[g] <= dfnumber[s] /\ dfnumber[s] <= dfnumber[g]
      BY <1>1, <2>1, <2>2, <3>1 DEF WaitsFor
    <3>3. g = s
      BY <1>1, <2>1, <3>1, <3>2 DEF SccInv, StatesAreNumbered
    <3> QED
      BY <1>1, <3>1, <3>3
  <2> QED
    BY <2>4, <2>5
<1> QED
  BY <1>3, <1>5

\* What is closed stays as it is, and the state that takes the arc learns what the other knows.
LEMMA PassingKeepsComponents ==
  ASSUME FstsAssumption, SccInv, NEW s \in State, NEW t \in State, Passes(s, t)
  PROVE  ClosedAreNumbered' /\ ClosedAreComponents' /\ AccessIsKnown' /\ CoaccessIsKnown'
<1>1. /\ N \in Nat \ {0} /\ fst' = fst /\ at # "done" /\ at' # "done" /\ root' = root /\ color' = color
      /\ Reach' = Reach /\ Reach \in [State -> SUBSET State] /\ t \in Reach[s]
      /\ Met' = Met /\ Grey' = Grey /\ Closed' = Closed /\ onstack' = onstack
      /\ Met \subseteq State /\ Grey \subseteq onstack /\ onstack \subseteq Met /\ s \in Grey
      /\ scc' = scc /\ nscc' = nscc /\ access' = access
      /\ coaccess' = IF t \in coaccess THEN coaccess \cup {s} ELSE coaccess
      /\ \A a, b : Arc(a, b)' <=> Arc(a, b)
  BY PassedStates
<1>2. ClosedAreNumbered /\ ClosedAreComponents /\ AccessIsKnown /\ CoaccessIsKnown
  BY DEF SccInv
<1>3. ClosedAreNumbered'
  BY <1>1, <1>2 DEF ClosedAreNumbered, State
<1>4. \A a : Number(a)' = Number(a)
  BY <1>1 DEF Number
<1>5. ClosedAreComponents'
  BY <1>1, <1>2, <1>4 DEF ClosedAreComponents, State
<1>6. AccessIsKnown'
  BY <1>1, <1>2 DEF AccessIsKnown
<1>7. \A a : Ends(a)' <=> Ends(a)
  BY <1>1 DEF Ends
<1>8. s \notin Closed /\ color[s] = "Grey" /\ s \in Met
  BY <1>1 DEF Closed, Grey
<1>9. t \in coaccess => Ends(s)
  <2> SUFFICES ASSUME t \in coaccess PROVE Ends(s)
    OBVIOUS
  <2>1. PICK f \in fst.final : f \in Reach[t]
    BY <1>2 DEF CoaccessIsKnown, Ends
  <2>2. f \in Reach[s]
    BY <1>1, <2>1, ReachJoins
  <2> QED
    BY <2>1, <2>2 DEF Ends
<1>10. ASSUME NEW a \in onstack, NEW b \in Closed, Taken(a, b)', b \in coaccess' PROVE a \in coaccess'
  <2>1. a \in State /\ b \in State /\ b \in coaccess
    BY <1>1, <1>8, <1>10 DEF Closed
  <2>2. CASE Taken(a, b)
    BY <1>1, <1>2, <2>1, <2>2 DEF CoaccessIsKnown
  <2>3. CASE ~Taken(a, b)
    <3>1. a = s /\ b = t
      BY <1>10, <2>1, <2>3 DEF Passes
    <3> QED
      BY <1>1, <2>1, <3>1
  <2> QED
    BY <2>2, <2>3
<1>11. CoaccessIsKnown'
  <2>1. coaccess' \subseteq Met' /\ \A a \in coaccess' : Ends(a)'
    BY <1>1, <1>2, <1>7, <1>8, <1>9 DEF CoaccessIsKnown
  <2>2. coaccess \subseteq coaccess'
    BY <1>1
  <2>3. \A a \in Closed' : Ends(a)' => a \in coaccess'
    BY <1>1, <1>2, <1>7, <2>2 DEF CoaccessIsKnown
  <2>4. \A a \in onstack' : color'[a] = "Black" /\ a \in fst'.final => a \in coaccess'
    BY <1>1, <1>2, <2>2 DEF CoaccessIsKnown
  <2>5. \A a \in onstack', b \in Closed' : Taken(a, b)' /\ b \in coaccess' => a \in coaccess'
    BY <1>1, <1>10
  <2> QED
    BY <2>1, <2>3, <2>4, <2>5 DEF CoaccessIsKnown
<1> QED
  BY <1>3, <1>5, <1>6, <1>11

\* A back arc closes a cycle, and no other arc does.
LEMMA PassingKeepsProps ==
  ASSUME FstsAssumption, SccInv, NEW s \in State, NEW t \in State, Passes(s, t)
  PROVE  PropsAreKnown'
<1>1. /\ N \in Nat \ {0} /\ fst' = fst /\ at # "done" /\ at' # "done" /\ root' = root /\ color' = color
      /\ Reach' = Reach /\ Reach \in [State -> SUBSET State] /\ t \in Reach[s]
      /\ Met' = Met /\ Grey' = Grey /\ Closed' = Closed /\ onstack' = onstack
      /\ Met \subseteq State /\ Grey \subseteq onstack /\ onstack \subseteq Met /\ s \in Grey /\ t \in Met
      /\ dfnumber' = dfnumber
      /\ \A a \in State : a # s => lowlink'[a] = lowlink[a]
      /\ lowlink'[s] = lowlink[s] \/ (t \in onstack /\ lowlink'[s] = dfnumber[t])
      /\ scc' = scc /\ nscc' = nscc /\ access' = access
      /\ coaccess' = IF t \in coaccess THEN coaccess \cup {s} ELSE coaccess
      /\ \A a, b : Arc(a, b)' <=> Arc(a, b)
  BY PassedStates
<1>2. AccessIsKnown /\ AnswersDiffer /\ StaysAcyclic /\ CyclesAreKnown /\ ConnectionIsKnown /\ SearchInv
  BY DEF SccInv, PropsAreKnown
<1>3. \/ /\ t \in Grey
         /\ props' = (props \ ({"ACYCLIC"} \cup IF t = fst.start THEN {"INITIAL_ACYCLIC"} ELSE {}))
                     \cup {"CYCLIC"} \cup (IF t = fst.start THEN {"INITIAL_CYCLIC"} ELSE {})
      \/ t \notin Grey /\ props' = props
  BY DEF Passes, back_arc, forward_or_cross_arc
<1>4. AnswersDiffer'
  <2>1. CASE props' = props
    BY <1>2, <2>1 DEF AnswersDiffer
  <2>2. CASE t \in Grey /\ t = fst.start
    <3>1. props' = (props \ {"ACYCLIC", "INITIAL_ACYCLIC"}) \cup {"CYCLIC", "INITIAL_CYCLIC"}
      BY <1>3, <2>2
    <3> QED
      BY <1>2, <3>1 DEF AnswersDiffer
  <2>3. CASE t \in Grey /\ t # fst.start
    <3>1. props' = (props \ {"ACYCLIC"}) \cup {"CYCLIC"}
      BY <1>3, <2>3
    <3> QED
      BY <1>2, <3>1 DEF AnswersDiffer
  <2> QED
    BY <1>3, <2>1, <2>2, <2>3
<1>5. Arc(s, t) /\ root \in Grey
  BY DEF Passes
<1>6. StaysAcyclic'
  <2> SUFFICES ASSUME "ACYCLIC" \in props'
               PROVE  /\ onstack = Grey
                      /\ \A g \in Grey : lowlink'[g] = dfnumber[g]
                      /\ \A a \in State : ~Taken(a, a)'
                      /\ \A a \in Closed : \A b \in State : Arc(a, b) => Number(b)' # Number(a)'
    BY <1>1 DEF StaysAcyclic, State
  <2>1. t \notin Grey /\ "ACYCLIC" \in props
    BY <1>3
  <2>2. /\ onstack = Grey
        /\ \A g \in Grey : lowlink[g] = dfnumber[g]
        /\ \A a \in State : ~Taken(a, a)
        /\ \A a \in Closed : \A b \in State : Arc(a, b) => Number(b) # Number(a)
    BY <1>2, <2>1 DEF StaysAcyclic
  <2>3. \A g \in Grey : lowlink'[g] = dfnumber[g]
    BY <1>1, <2>1, <2>2
  <2>4. \A a \in State : ~Taken(a, a)'
    BY <1>1, <2>1, <2>2 DEF Passes
  <2>5. \A a : Number(a)' = Number(a)
    BY <1>1 DEF Number
  <2> QED
    BY <2>2, <2>3, <2>4, <2>5
<1>7. CyclesAreKnown'
  <2>1. \A a : OnCycle(a)' <=> OnCycle(a)
    BY <1>1, CyclesStay
  <2>2. ("CYCLIC" \in props => \E a \in State : OnCycle(a))'
    <3>1. CASE props' = props
      BY <1>2, <2>1, <3>1 DEF CyclesAreKnown, State
    <3>2. CASE t \in Grey
      <4>1. s \in Reach[t] \/ t \in Reach[s]
        BY <1>1
      <4>2. s \in Reach[t]
        BY <1>1, <3>2 DEF SccInv, GreyStatesLeadOn, Passes, Newest
      <4>3. OnCycle(s)
        BY <1>5, <4>2 DEF OnCycle
      <4> QED
        BY <2>1, <4>3 DEF State
    <3> QED
      BY <1>3, <3>1, <3>2
  <2>3. ("INITIAL_CYCLIC" \in props => fst.start # None /\ OnCycle(fst.start))'
    <3>1. OnCycle(fst.start)' <=> OnCycle(fst.start)
      BY <1>1, <2>1 DEF OnCycle
    <3>2. CASE "INITIAL_CYCLIC" \in props
      BY <1>1, <1>2, <3>1, <3>2 DEF CyclesAreKnown
    <3>3. CASE "INITIAL_CYCLIC" \notin props /\ "INITIAL_CYCLIC" \in props'
      <4>1. t \in Grey /\ t = fst.start /\ t # None
        BY <1>2, <1>3, <3>3, SearchTypes
      <4>2. s \in Reach[t]
        BY <1>1, <4>1 DEF SccInv, GreyStatesLeadOn, Passes, Newest
      <4>3. OnCycle(t)
        BY <1>1, <1>5, <4>2, PathsAndArcsMakeCycles
      <4> QED
        BY <1>1, <3>1, <4>1, <4>3
    <3> QED
      BY <3>2, <3>3
  <2>4. ASSUME "INITIAL_ACYCLIC" \in props', fst.start # None, NEW a \in access, Taken(a, fst.start)'
        PROVE  FALSE
    <3>1. "INITIAL_ACYCLIC" \in props /\ (t \notin Grey \/ t # fst.start)
      BY <1>3, <2>4
    <3>2. fst.start \in State /\ a \in State /\ a \in Met
      BY <1>1, <1>2, <2>4, SearchTypes DEF AccessIsKnown
    <3>3. CASE Taken(a, fst.start)
      BY <1>2, <2>4, <3>1, <3>3 DEF CyclesAreKnown
    <3>4. CASE ~Taken(a, fst.start)
      <4>1. a = s /\ t = fst.start
        BY <1>1, <2>4, <3>2, <3>4 DEF Passes
      <4>2. root # fst.start
        BY <1>5, <3>1, <4>1
      <4> QED
        BY <1>1, <1>2, <4>1, <4>2 DEF AccessIsKnown
    <3> QED
      BY <3>3, <3>4
  <2>5. ("INITIAL_ACYCLIC" \in props /\ fst.start # None => \A a \in access : ~Taken(a, fst.start))'
    <3> SUFFICES ASSUME "INITIAL_ACYCLIC" \in props', fst'.start # None', NEW a \in access', Taken(a, fst.start)'
                 PROVE  FALSE
      OBVIOUS
    <3> QED
      BY <1>1, <2>4
  <2> QED
    BY <2>2, <2>3, <2>5 DEF CyclesAreKnown
<1>8. ConnectionIsKnown'
  <2>1. "ACCESSIBLE" \in props' <=> "ACCESSIBLE" \in props
    BY <1>3
  <2>2. "CO_ACCESSIBLE" \in props' <=> "CO_ACCESSIBLE" \in props
    BY <1>3
  <2>3. Closed \subseteq coaccess' <=> Closed \subseteq coaccess
    BY <1>1 DEF Closed
  <2> QED
    BY <1>1, <1>2, <2>1, <2>2, <2>3 DEF ConnectionIsKnown
<1> QED
  BY <1>4, <1>6, <1>7, <1>8 DEF PropsAreKnown

\* All of that at once.
LEMMA PassingKeepsScc ==
  ASSUME FstsAssumption, SccInv, NEW s \in State, NEW t \in State, Passes(s, t), SearchInv'
  PROVE  SccInv'
<1>1. FramesAreOrdered' /\ dfs' = TRUE
  BY DEF Passes, InTree
<1> QED
  BY <1>1, PassingKeepsOpen, PassingKeepsLinks, PassingKeepsComponents, PassingKeepsProps DEF SccInv

-----------------------------------------------------------------------------
(***************************************************************************)
(* A state finishes                                                        *)
(***************************************************************************)

\* What finishing changes, whether a component is closed or not.
LEMMA FinishedStates ==
  ASSUME FstsAssumption, SccInv, NEW s \in State, NEW p, Finishes(s, p)
  PROVE  /\ N \in Nat \ {0} /\ fst' = fst /\ at # "done" /\ at' # "done" /\ root' = root
         /\ Reach' = Reach /\ Reach \in [State -> SUBSET State] /\ \A a \in State : a \in Reach[a]
         /\ Met' = Met /\ Grey' = Grey \ {s} /\ color'[s] = "Black" /\ \A a \in State : a # s => color'[a] = color[a]
         /\ Met \subseteq State /\ Grey \subseteq onstack /\ onstack \subseteq Met /\ s \in Grey
         /\ p # None => p \in Grey /\ p # s /\ Under(p, s) /\ s \in Reach[p]
         /\ p = None => Grey = {s}
         /\ dfnumber' = dfnumber /\ count' = count /\ access' = access
         /\ \A a \in Met : dfnumber[a] \in Nat /\ lowlink[a] \in Nat /\ lowlink[a] <= dfnumber[a]
         /\ \A a, b \in Met : dfnumber[a] = dfnumber[b] => a = b
         /\ lowlink' \in [State -> 0 .. N]
         /\ \A a \in State : a # p => lowlink'[a] = lowlink[a]
         /\ p # None => lowlink'[p] <= lowlink[p] /\ lowlink'[p] <= lowlink[s] /\ lowlink'[p] \in {lowlink[p], lowlink[s]}
         /\ \A a, b : Arc(a, b)' <=> Arc(a, b)
<1>1. SearchInv /\ N \in Nat \ {0} /\ InTree /\ None \notin State
  BY SearchTypes DEF SccInv, Finishes
<1>2. fst' = fst /\ at # "done" /\ at' # "done" /\ root' = root
  BY <1>1 DEF InTree
<1>3. Reach' = Reach /\ Reach \in [State -> SUBSET State] /\ (\A a \in State : a \in Reach[a])
      /\ \A a, b : Arc(a, b)' <=> Arc(a, b)
  BY <1>1, <1>2, CyclesStay, ReachBasics
<1>4. color \in [State -> {"White", "Grey", "Black"}] /\ color' = [color EXCEPT ![s] = "Black"] /\ s \in Grey
  BY <1>1, SearchTypes DEF Finishes, Newest
<1>5. Met' = Met /\ Grey' = Grey \ {s} /\ color'[s] = "Black" /\ \A a \in State : a # s => color'[a] = color[a]
  BY <1>4 DEF Met, Grey, State
<1>6. Met \subseteq State /\ Grey \subseteq onstack /\ onstack \subseteq Met
  BY DEF SccInv, OpenStatesWait, Met
<1>7. finish_state(s, p) /\ ((p = None /\ Grey = {s}) \/ Under(p, s))
  BY DEF Finishes
<1>8. /\ dfnumber \in [State -> 0 .. N] /\ lowlink \in [State -> 0 .. N]
      /\ \A a \in Met : lowlink[a] <= dfnumber[a]
      /\ \A a, b \in Met : dfnumber[a] = dfnumber[b] => a = b
  BY DEF SccInv, StatesAreNumbered
<1>9. \A a \in Met : dfnumber[a] \in Nat /\ lowlink[a] \in Nat /\ lowlink[a] <= dfnumber[a]
  BY <1>6, <1>8
<1>10. ASSUME p # None PROVE p \in Grey /\ p \in State /\ p # s /\ Under(p, s) /\ s \in Reach[p]
  <2>1. Under(p, s) /\ p \in Grey /\ p \in State /\ Arc(p, s) /\ dfnumber[p] < dfnumber[s]
    BY <1>7, <1>10 DEF Under, Grey
  <2>2. p # s
    BY <1>4, <1>6, <1>9, <2>1
  <2>3. s \in Reach[p]
    BY <1>1, <1>3, <2>1, ReachExtends
  <2> QED
    BY <2>1, <2>2, <2>3
<1>11. p = None => Grey = {s}
  BY <1>1, <1>7 DEF Under, Grey
<1>12. dfnumber' = dfnumber /\ count' = count /\ access' = access
       /\ lowlink' = IF p # None THEN [lowlink EXCEPT ![p] = Smaller(@, lowlink[s])] ELSE lowlink
  BY <1>7 DEF finish_state
<1>13. /\ lowlink' \in [State -> 0 .. N]
       /\ \A a \in State : a # p => lowlink'[a] = lowlink[a]
       /\ p # None => lowlink'[p] <= lowlink[p] /\ lowlink'[p] <= lowlink[s] /\ lowlink'[p] \in {lowlink[p], lowlink[s]}
  <2>1. CASE p = None
    BY <1>8, <1>12, <2>1
  <2>2. CASE p # None
    <3>1. p \in State /\ lowlink[p] \in 0 .. N /\ lowlink[s] \in 0 .. N
      BY <1>8, <1>10, <2>2
    <3>2. lowlink' = [lowlink EXCEPT ![p] = Smaller(lowlink[p], lowlink[s])]
      BY <1>12, <2>2
    <3>3. /\ Smaller(lowlink[p], lowlink[s]) \in 0 .. N /\ Smaller(lowlink[p], lowlink[s]) \in {lowlink[p], lowlink[s]}
          /\ Smaller(lowlink[p], lowlink[s]) <= lowlink[p] /\ Smaller(lowlink[p], lowlink[s]) <= lowlink[s]
      BY <3>1, <1>1 DEF Smaller
    <3> QED
      BY <1>8, <3>1, <3>2, <3>3
  <2> QED
    BY <2>1, <2>2
<1> QED
  BY <1>1, <1>2, <1>3, <1>4, <1>5, <1>6, <1>8, <1>9, <1>10, <1>11, <1>12, <1>13

\* States keep their numbers; what was met since a grey state still is led to by
\* it; and the arcs of what has finished lead back.
LEMMA FinishingKeepsNumbers ==
  ASSUME FstsAssumption, SccInv, NEW s \in State, NEW p, Finishes(s, p)
  PROVE  StatesAreNumbered' /\ GreyStatesLeadOn' /\ TakenArcsLeadBack'
<1>1. /\ N \in Nat \ {0} /\ Reach' = Reach
      /\ Met' = Met /\ Grey' = Grey \ {s} /\ \A a \in State : a # s => color'[a] = color[a]
      /\ Met \subseteq State /\ Grey \subseteq onstack /\ onstack \subseteq Met /\ s \in Grey
      /\ p # None => p \in Grey
      /\ dfnumber' = dfnumber /\ count' = count
      /\ \A a \in Met : dfnumber[a] \in Nat /\ lowlink[a] \in Nat /\ lowlink[a] <= dfnumber[a]
      /\ lowlink' \in [State -> 0 .. N]
      /\ \A a \in State : a # p => lowlink'[a] = lowlink[a]
      /\ p # None => lowlink'[p] <= lowlink[p]
  BY FinishedStates
<1>2. StatesAreNumbered /\ GreyStatesLeadOn /\ TakenArcsLeadBack
  BY DEF SccInv
<1>3. StatesAreNumbered'
  <2>1. ASSUME NEW a \in Met PROVE lowlink'[a] <= dfnumber[a]
    <3>1. lowlink[a] <= dfnumber[a] /\ lowlink[a] \in Nat /\ dfnumber[a] \in Nat /\ a \in State
      BY <1>1
    <3>2. lowlink'[a] \in 0 .. N
      BY <1>1, <3>1
    <3>3. CASE a # p
      BY <1>1, <3>1, <3>3
    <3>4. CASE a = p
      <4>1. p # None
        BY <3>1, <3>4, SearchTypes DEF SccInv
      <4>2. lowlink'[a] <= lowlink[a]
        BY <1>1, <3>4, <4>1
      <4> QED
        BY <1>1, <3>1, <3>2, <4>2
    <3> QED
      BY <3>3, <3>4
  <2>2. /\ dfnumber \in [State -> 0 .. N] /\ count \in Nat /\ count = Cardinality(Met)
        /\ \A a \in Met : dfnumber[a] < count
        /\ \A a, b \in Met : dfnumber[a] = dfnumber[b] => a = b
    BY <1>2 DEF StatesAreNumbered
  <2>3. \A a \in Met' : dfnumber'[a] < count' /\ lowlink'[a] <= dfnumber'[a]
    BY <1>1, <2>1, <2>2
  <2> QED
    BY <1>1, <2>2, <2>3 DEF StatesAreNumbered, State
<1>4. GreyStatesLeadOn'
  BY <1>1, <1>2 DEF GreyStatesLeadOn
<1>5. TakenArcsLeadBack'
  <2> SUFFICES ASSUME NEW a \in State, NEW b \in State, Taken(a, b)'
               PROVE  /\ b \in Met
                      /\ \A g \in Grey \ {s} : dfnumber[a] < dfnumber[g] =>
                           dfnumber[b] <= dfnumber[g] /\ (color'[a] = "Black" => b # g)
    BY <1>1 DEF TakenArcsLeadBack, State
  <2>1. Taken(a, b)
    BY DEF Finishes
  <2>2. b \in Met /\ \A g \in Grey : dfnumber[a] < dfnumber[g] => dfnumber[b] <= dfnumber[g] /\ (color[a] = "Black" => b # g)
    BY <1>2, <2>1 DEF TakenArcsLeadBack
  <2>3. ASSUME NEW g \in Grey \ {s}, dfnumber[a] < dfnumber[g]
        PROVE  dfnumber[b] <= dfnumber[g] /\ (color'[a] = "Black" => b # g)
    <3>1. a # s
      <4>1. dfnumber[g] <= dfnumber[s] /\ dfnumber[g] \in Nat /\ dfnumber[s] \in Nat
        BY <1>1 DEF Finishes, Newest
      <4> QED
        BY <2>3, <4>1
    <3>2. color'[a] = color[a]
      BY <1>1, <3>1
    <3> QED
      BY <2>2, <2>3, <3>2
  <2> QED
    BY <2>2, <2>3
<1> QED
  BY <1>3, <1>4, <1>5

-----------------------------------------------------------------------------
(***************************************************************************)
(* ... and waits for an older one                                          *)
(***************************************************************************)

\* What does not change where the component stays open, and the older state.
LEMMA WaitingStates ==
  ASSUME FstsAssumption, SccInv, NEW s \in State, NEW p, Finishes(s, p), lowlink[s] # dfnumber[s]
  PROVE  /\ onstack' = onstack /\ Closed' = Closed /\ scc_stack' = scc_stack /\ scc' = scc /\ nscc' = nscc
         /\ props' = props
         /\ LET mine == IF s \in fst.final THEN coaccess \cup {s} ELSE coaccess
            IN  coaccess' = IF p # None /\ s \in mine THEN mine \cup {p} ELSE mine
         /\ \E g \in Grey : g # s /\ g \in Reach[s] /\ dfnumber[g] < dfnumber[s]
         /\ \E u \in onstack : u \in Reach[s] /\ dfnumber[u] = lowlink[s]
         /\ p # None /\ p \in Grey /\ p # s
<1>1. finish_state(s, p)
  BY DEF Finishes
<1>2. /\ onstack' = onstack /\ scc_stack' = scc_stack /\ scc' = scc /\ nscc' = nscc /\ props' = props
      /\ LET mine == IF s \in fst.final THEN coaccess \cup {s} ELSE coaccess
         IN  coaccess' = IF p # None /\ s \in mine THEN mine \cup {p} ELSE mine
  BY <1>1 DEF finish_state
<1>3. /\ N \in Nat \ {0} /\ Reach \in [State -> SUBSET State]
      /\ Met' = Met /\ Met \subseteq State /\ Grey \subseteq onstack /\ onstack \subseteq Met /\ s \in Grey
      /\ p # None => p \in Grey /\ p # s
      /\ p = None => Grey = {s}
      /\ \A a \in Met : dfnumber[a] \in Nat /\ lowlink[a] \in Nat /\ lowlink[a] <= dfnumber[a]
  BY FinishedStates
<1>4. Closed' = Closed
  BY <1>2, <1>3 DEF Closed
<1>5. PICK u \in onstack : u \in Reach[s] /\ dfnumber[u] = lowlink[s]
  BY <1>3 DEF SccInv, LinksAreKnown
<1>6. PICK g \in Grey : g \in Reach[u] /\ dfnumber[g] <= dfnumber[u]
  BY DEF SccInv, OpenStatesWait
<1>7. dfnumber[u] < dfnumber[s] /\ dfnumber[u] \in Nat /\ dfnumber[s] \in Nat /\ dfnumber[g] \in Nat
  BY <1>3, <1>5
<1>8. g # s /\ dfnumber[g] < dfnumber[s]
  BY <1>6, <1>7
<1>9. g \in Reach[s]
  BY <1>3, <1>5, <1>6, ReachJoins
<1> QED
  BY <1>2, <1>3, <1>4, <1>5, <1>8, <1>9

\* Those that waited for it wait for the older one.
LEMMA WaitingKeepsOpen ==
  ASSUME FstsAssumption, SccInv, NEW s \in State, NEW p, Finishes(s, p), lowlink[s] # dfnumber[s]
  PROVE  OpenStatesWait' /\ OpenStatesAreStacked' /\ LinksAreKnown' /\ LinksAreLow'
<1>1. /\ N \in Nat \ {0} /\ Reach' = Reach /\ Reach \in [State -> SUBSET State]
      /\ Met' = Met /\ Grey' = Grey \ {s}
      /\ Met \subseteq State /\ Grey \subseteq onstack /\ onstack \subseteq Met /\ s \in Grey
      /\ dfnumber' = dfnumber
      /\ \A a \in Met : dfnumber[a] \in Nat /\ lowlink[a] \in Nat
      /\ \A a, b \in Met : dfnumber[a] = dfnumber[b] => a = b
      /\ lowlink' \in [State -> 0 .. N]
      /\ \A a \in State : a # p => lowlink'[a] = lowlink[a]
  BY FinishedStates
<1>2. /\ p \in Grey /\ p # s /\ Under(p, s) /\ s \in Reach[p]
      /\ lowlink'[p] <= lowlink[p] /\ lowlink'[p] <= lowlink[s] /\ lowlink'[p] \in {lowlink[p], lowlink[s]}
  BY WaitingStates, FinishedStates
<1>3. onstack' = onstack /\ scc_stack' = scc_stack
  BY WaitingStates
<1>4. OpenStatesWait /\ OpenStatesAreStacked /\ LinksAreKnown /\ LinksAreLow
  BY DEF SccInv
<1>5. OpenStatesWait'
  <2>1. PICK o \in Grey : o # s /\ o \in Reach[s] /\ dfnumber[o] < dfnumber[s]
    BY WaitingStates
  <2>2. ASSUME NEW a \in onstack PROVE \E g \in Grey \ {s} : g \in Reach[a] /\ dfnumber[g] <= dfnumber[a]
    <3>1. PICK g \in Grey : g \in Reach[a] /\ dfnumber[g] <= dfnumber[a]
      BY <1>4 DEF OpenStatesWait
    <3>2. CASE g # s
      BY <3>1, <3>2
    <3>3. CASE g = s
      <4>1. o \in Reach[a]
        BY <1>1, <2>1, <3>1, <3>3, ReachJoins
      <4>2. dfnumber[o] <= dfnumber[a]
        BY <1>1, <2>1, <3>1, <3>3
      <4> QED
        BY <2>1, <4>1, <4>2
    <3> QED
      BY <3>2, <3>3
  <2> QED
    BY <1>1, <1>3, <2>2 DEF OpenStatesWait
<1>6. OpenStatesAreStacked'
  BY <1>1, <1>3, <1>4 DEF OpenStatesAreStacked, SccStackIsOrdered, State
<1>7. LinksAreKnown'
  <2> SUFFICES ASSUME NEW a \in onstack
               PROVE  \E u \in onstack : u \in Reach[a] /\ dfnumber[u] = lowlink'[a]
    BY <1>1, <1>3 DEF LinksAreKnown
  <2>1. PICK u \in onstack : u \in Reach[a] /\ dfnumber[u] = lowlink[a]
    BY <1>4 DEF LinksAreKnown
  <2>2. CASE lowlink'[a] = lowlink[a]
    BY <2>1, <2>2
  <2>3. CASE lowlink'[a] # lowlink[a]
    <3>1. a = p /\ lowlink'[a] = lowlink[s]
      BY <1>1, <1>2, <2>3
    <3>2. PICK v \in onstack : v \in Reach[s] /\ dfnumber[v] = lowlink[s]
      BY WaitingStates
    <3>3. v \in Reach[p] /\ p \in State
      BY <1>1, <1>2, <3>2, ReachJoins
    <3> QED
      BY <3>1, <3>2, <3>3
  <2> QED
    BY <2>2, <2>3
<1>8. LinksAreLow'
  <2> SUFFICES ASSUME NEW a \in onstack, NEW b \in onstack, Taken(a, b)', NEW g \in State, WaitsFor(a, g)'
               PROVE  lowlink'[g] <= dfnumber[b]
    BY <1>1, <1>3 DEF LinksAreLow, State
  <2>1. Taken(a, b) /\ a \in Met /\ b \in Met /\ a \in State /\ b \in State
    BY <1>1 DEF Finishes
  <2>2. /\ g \in Grey /\ g # s /\ g \in Met /\ dfnumber[g] <= dfnumber[a]
        /\ \A h \in Grey \ {s} : dfnumber[h] <= dfnumber[a] => dfnumber[h] <= dfnumber[g]
    BY <1>1 DEF WaitsFor
  <2>3. /\ dfnumber[a] \in Nat /\ dfnumber[b] \in Nat /\ dfnumber[s] \in Nat /\ dfnumber[g] \in Nat /\ dfnumber[p] \in Nat
        /\ lowlink[g] \in Nat /\ lowlink[s] \in Nat /\ lowlink[p] \in Nat /\ lowlink'[g] \in Nat /\ p \in Met /\ p \in State
    BY <1>1, <1>2, <2>1, <2>2
  <2>4. CASE dfnumber[s] <= dfnumber[a]
    <3>1. WaitsFor(a, s)
      BY <1>1, <2>4 DEF WaitsFor, Finishes, Newest
    <3>2. lowlink[s] <= dfnumber[b]
      BY <1>4, <2>1, <3>1 DEF LinksAreLow
    <3>3. dfnumber[p] < dfnumber[s] /\ dfnumber[g] <= dfnumber[p]
      BY <1>2, <2>2 DEF Under
    <3>4. dfnumber[p] <= dfnumber[a]
      BY <2>3, <2>4, <3>3
    <3>5. dfnumber[p] <= dfnumber[g]
      BY <1>2, <2>2, <3>4
    <3>6. g = p
      BY <1>1, <2>2, <2>3, <3>3, <3>5
    <3> QED
      BY <1>2, <2>3, <3>2, <3>6
  <2>5. CASE ~(dfnumber[s] <= dfnumber[a])
    <3>1. WaitsFor(a, g)
      BY <2>2, <2>5 DEF WaitsFor
    <3>2. lowlink[g] <= dfnumber[b]
      BY <1>4, <2>1, <3>1 DEF LinksAreLow
    <3>3. lowlink'[g] <= lowlink[g]
      BY <1>1, <1>2, <2>3
    <3> QED
      BY <2>3, <3>2, <3>3
  <2> QED
    BY <2>4, <2>5
<1> QED
  BY <1>5, <1>6, <1>7, <1>8

\* Nothing closes, and what is known to lead to an end is passed down.
LEMMA WaitingKeepsComponents ==
  ASSUME FstsAssumption, SccInv, NEW s \in State, NEW p, Finishes(s, p), lowlink[s] # dfnumber[s]
  PROVE  ClosedAreNumbered' /\ ClosedAreComponents' /\ AccessIsKnown' /\ CoaccessIsKnown' /\ PropsAreKnown'
<1>1. /\ N \in Nat \ {0} /\ fst' = fst /\ at # "done" /\ at' # "done" /\ root' = root
      /\ Reach' = Reach /\ Reach \in [State -> SUBSET State] /\ \A a \in State : a \in Reach[a]
      /\ Met' = Met /\ Grey' = Grey \ {s} /\ \A a \in State : a # s => color'[a] = color[a]
      /\ Met \subseteq State /\ Grey \subseteq onstack /\ onstack \subseteq Met /\ s \in Grey
      /\ s \in Reach[p] \/ p = None
      /\ access' = access
      /\ \A a, b : Arc(a, b)' <=> Arc(a, b)
  BY FinishedStates
<1>2. /\ onstack' = onstack /\ Closed' = Closed /\ scc' = scc /\ nscc' = nscc /\ props' = props
      /\ p # None /\ p \in Grey /\ p # s
      /\ LET mine == IF s \in fst.final THEN coaccess \cup {s} ELSE coaccess
         IN  coaccess' = IF p # None /\ s \in mine THEN mine \cup {p} ELSE mine
  BY WaitingStates
<1>3. ClosedAreNumbered /\ ClosedAreComponents /\ AccessIsKnown /\ CoaccessIsKnown
      /\ AnswersDiffer /\ StaysAcyclic /\ CyclesAreKnown /\ ConnectionIsKnown
  BY DEF SccInv, PropsAreKnown
<1>4. ClosedAreNumbered'
  BY <1>1, <1>2, <1>3 DEF ClosedAreNumbered, State
<1>5. \A a : Number(a)' = Number(a)
  BY <1>1, <1>2 DEF Number
<1>6. ClosedAreComponents'
  BY <1>1, <1>2, <1>3, <1>5 DEF ClosedAreComponents, State
<1>7. AccessIsKnown'
  <2>1. access \cap Grey = {} => access \cap Grey' = {}
    BY <1>1
  <2> QED
    BY <1>1, <1>3, <2>1 DEF AccessIsKnown
<1>8. /\ coaccess \subseteq coaccess' /\ coaccess' \subseteq coaccess \cup {s, p}
      /\ s \in fst.final => s \in coaccess'
  BY <1>2
<1>9. \A a \in Closed : a # s /\ a # p
  BY <1>1, <1>2 DEF Closed
<1>10. \A a : Ends(a)' <=> Ends(a)
  BY <1>1 DEF Ends
<1>11. \A a \in coaccess' : Ends(a)
  <2>1. \A a \in coaccess : Ends(a)
    BY <1>3 DEF CoaccessIsKnown
  <2>2. s \in fst.final => Ends(s)
    BY <1>1 DEF Ends
  <2>3. ASSUME Ends(s) PROVE Ends(p)
    <3>1. PICK f \in fst.final : f \in Reach[s]
      BY <2>3 DEF Ends
    <3>2. p \in State /\ s \in Reach[p]
      BY <1>1, <1>2
    <3>3. f \in Reach[p]
      BY <1>1, <3>1, <3>2, ReachJoins
    <3> QED
      BY <3>1, <3>3 DEF Ends
  <2>4. s \in coaccess' => Ends(s)
    <3>1. s \in coaccess' => s \in coaccess \/ s \in fst.final
      BY <1>2
    <3> QED
      BY <2>1, <2>2, <3>1
  <2>5. p \in coaccess' => p \in coaccess \/ s \in coaccess'
    BY <1>2
  <2> QED
    BY <1>8, <2>1, <2>3, <2>4, <2>5
<1>12. CoaccessIsKnown'
  <2>1. coaccess' \subseteq Met' /\ \A a \in coaccess' : Ends(a)'
    BY <1>1, <1>2, <1>3, <1>8, <1>10, <1>11 DEF CoaccessIsKnown
  <2>2. \A a \in Closed' : Ends(a)' => a \in coaccess'
    BY <1>2, <1>3, <1>8, <1>10 DEF CoaccessIsKnown
  <2>3. \A a \in onstack' : color'[a] = "Black" /\ a \in fst'.final => a \in coaccess'
    BY <1>1, <1>2, <1>3, <1>8 DEF CoaccessIsKnown
  <2>4. ASSUME NEW a \in onstack, NEW b \in Closed, Taken(a, b)', b \in coaccess' PROVE a \in coaccess'
    <3>1. Taken(a, b) /\ b \in coaccess
      BY <1>1, <1>8, <1>9, <2>4 DEF Finishes, Closed
    <3> QED
      BY <1>3, <1>8, <3>1 DEF CoaccessIsKnown
  <2> QED
    BY <1>2, <2>1, <2>2, <2>3, <2>4 DEF CoaccessIsKnown
<1>13. AnswersDiffer'
  BY <1>2, <1>3 DEF AnswersDiffer
<1>14. StaysAcyclic'
  <2>1. "ACYCLIC" \notin props
    BY <1>1, <1>3 DEF StaysAcyclic
  <2> QED
    BY <1>2, <2>1 DEF StaysAcyclic
<1>15. CyclesAreKnown'
  <2>1. \A a : OnCycle(a)' <=> OnCycle(a)
    BY <1>1, CyclesStay
  <2>2. ("CYCLIC" \in props => \E a \in State : OnCycle(a))'
    BY <1>2, <1>3, <2>1 DEF CyclesAreKnown, State
  <2>3. ("INITIAL_CYCLIC" \in props => fst.start # None /\ OnCycle(fst.start))'
    <3>1. OnCycle(fst.start)' <=> OnCycle(fst.start)
      BY <1>1, <2>1 DEF OnCycle
    <3> QED
      BY <1>1, <1>2, <1>3, <3>1 DEF CyclesAreKnown
  <2>4. ("INITIAL_ACYCLIC" \in props /\ fst.start # None => \A a \in access : ~Taken(a, fst.start))'
    <3> SUFFICES ASSUME "INITIAL_ACYCLIC" \in props', fst'.start # None', NEW a \in access', Taken(a, fst.start)'
                 PROVE  FALSE
      OBVIOUS
    <3>1. fst.start \in State /\ a \in State
      BY <1>1, <1>3, SearchTypes DEF AccessIsKnown, SccInv
    <3>2. Taken(a, fst.start)
      BY <1>1, <3>1 DEF Finishes
    <3> QED
      BY <1>1, <1>2, <1>3, <3>2 DEF CyclesAreKnown
  <2> QED
    BY <2>2, <2>3, <2>4 DEF CyclesAreKnown
<1>16. ConnectionIsKnown'
  <2>1. Closed \subseteq coaccess' <=> Closed \subseteq coaccess
    BY <1>8, <1>9
  <2> QED
    BY <1>1, <1>2, <1>3, <2>1 DEF ConnectionIsKnown
<1> QED
  BY <1>4, <1>6, <1>7, <1>12, <1>13, <1>14, <1>15, <1>16 DEF PropsAreKnown

-----------------------------------------------------------------------------
(***************************************************************************)
(* ... or closes its component                                             *)
(***************************************************************************)

\* What is closed: states that lead to one another, and whose arcs lead nowhere
\* that is still open.
LEMMA ClosedStates ==
  ASSUME FstsAssumption, SccInv, NEW s \in State, NEW p, Finishes(s, p), lowlink[s] = dfnumber[s]
  PROVE  /\ Component(s) \subseteq onstack /\ Component(s) \subseteq State /\ s \in Component(s)
         /\ Component(s) \cap Closed = {} /\ Component(s) \cap Grey = {s}
         /\ onstack' = onstack \ Component(s) /\ Closed' = Closed \cup Component(s)
         /\ Grey' \subseteq onstack'
         /\ \A a \in onstack : a \notin Component(s) => dfnumber[a] < dfnumber[s]
         /\ \A a \in Component(s) : dfnumber[s] <= dfnumber[a] /\ a \in Reach[s] /\ s \in Reach[a]
         /\ \A a \in Component(s) : \A b \in State : Arc(a, b) =>
              Taken(a, b) /\ (b \in Component(s) \/ b \in Closed)
         /\ lowlink' = lowlink
<1> DEFINE C == Component(s)
<1>1. /\ N \in Nat \ {0} /\ Reach \in [State -> SUBSET State]
      /\ Met' = Met /\ Grey' = Grey \ {s}
      /\ Met \subseteq State /\ Grey \subseteq onstack /\ onstack \subseteq Met /\ s \in Grey
      /\ p # None => p \in Grey /\ Under(p, s)
      /\ \A a \in Met : dfnumber[a] \in Nat /\ lowlink[a] \in Nat /\ lowlink[a] <= dfnumber[a]
      /\ \A a, b \in Met : dfnumber[a] = dfnumber[b] => a = b
      /\ lowlink' \in [State -> 0 .. N]
      /\ \A a \in State : a # p => lowlink'[a] = lowlink[a]
      /\ p # None => lowlink'[p] <= lowlink[p] /\ lowlink'[p] \in {lowlink[p], lowlink[s]}
  BY FinishedStates
<1>2. Newest(s) /\ (\A t \in State : Arc(s, t) => Taken(s, t)) /\ finish_state(s, p)
  BY DEF Finishes
<1>3. C \subseteq onstack /\ C \subseteq State /\ s \in C /\ C \subseteq Met
  BY <1>1 DEF Component
<1>4. \A a \in onstack : a \in C <=> dfnumber[s] <= dfnumber[a]
  BY <1>1 DEF Component
<1>5. \A a \in onstack : a \notin C => dfnumber[a] < dfnumber[s]
  BY <1>1, <1>4
<1>6. C \cap Grey = {s}
  <2> SUFFICES ASSUME NEW g \in Grey, g \in C PROVE g = s
    BY <1>1, <1>3
  <2>1. dfnumber[g] <= dfnumber[s] /\ dfnumber[s] <= dfnumber[g] /\ g \in Met
    BY <1>1, <1>2, <1>4 DEF Newest
  <2> QED
    BY <1>1, <2>1
<1>7. onstack' = onstack \ C
  BY <1>2 DEF finish_state
<1>8. Closed' = Closed \cup C /\ C \cap Closed = {}
  BY <1>1, <1>3, <1>7 DEF Closed
<1>9. Grey' \subseteq onstack'
  BY <1>1, <1>6, <1>7
<1>10. \A a \in C : dfnumber[s] <= dfnumber[a]
  BY <1>3, <1>4
<1>11. ASSUME NEW a \in C PROVE a \in Reach[s] /\ s \in Reach[a]
  <2>1. a \in Reach[s]
    BY <1>1, <1>3, <1>10 DEF SccInv, GreyStatesLeadOn
  <2>2. PICK g \in Grey : g \in Reach[a]
    BY <1>3 DEF SccInv, OpenStatesWait
  <2>3. s \in Reach[g]
    BY <1>1, <1>2 DEF SccInv, GreyStatesLeadOn, Newest
  <2>4. s \in Reach[a]
    BY <1>1, <1>3, <2>2, <2>3, ReachJoins
  <2> QED
    BY <2>1, <2>4
<1>12. ASSUME NEW a \in C, NEW b \in State, Arc(a, b) PROVE Taken(a, b) /\ (b \in C \/ b \in Closed)
  <2>1. Taken(a, b)
    <3>1. CASE a = s
      BY <1>2, <1>12, <3>1
    <3>2. CASE a # s
      <4>1. a \in State /\ color[a] # "White" /\ color[a] # "Grey"
        BY <1>3, <1>6, <3>2 DEF Met, Grey
      <4>2. color[a] = "Black"
        BY <4>1, SearchTypes DEF SccInv
      <4> QED
        BY <1>12, <4>2 DEF Taken
    <3> QED
      BY <3>1, <3>2
  <2>2. b \in Met
    BY <1>3, <2>1, TakenIsMet DEF SccInv
  <2>3. b \in onstack => b \in C
    <3> SUFFICES ASSUME b \in onstack PROVE b \in C
      OBVIOUS
    <3>1. WaitsFor(a, s)
      BY <1>1, <1>2, <1>10 DEF WaitsFor, Newest
    <3>2. lowlink[s] <= dfnumber[b]
      BY <1>3, <2>1, <3>1 DEF SccInv, LinksAreLow
    <3> QED
      BY <1>4, <3>2
  <2> QED
    BY <2>1, <2>2, <2>3 DEF Closed
<1>13. lowlink' = lowlink
  <2>1. ASSUME NEW a \in State PROVE lowlink'[a] = lowlink[a]
    <3>1. CASE a # p
      BY <1>1, <3>1
    <3>2. CASE a = p
      <4>1. p # None /\ p \in Grey /\ p \in Met
        BY <1>1, <3>2, SearchTypes DEF SccInv
      <4>2. lowlink[p] <= dfnumber[p] /\ dfnumber[p] < dfnumber[s]
        BY <1>1, <4>1 DEF Under
      <4>3. lowlink'[p] <= lowlink[p] /\ lowlink'[p] \in {lowlink[p], lowlink[s]}
        BY <1>1, <4>1
      <4>4. lowlink[p] \in Nat /\ dfnumber[p] \in Nat /\ dfnumber[s] \in Nat
        BY <1>1, <4>1
      <4> QED
        BY <3>2, <4>2, <4>3, <4>4
    <3> QED
      BY <3>1, <3>2
  <2>2. lowlink \in [State -> 0 .. N]
    BY DEF SccInv, StatesAreNumbered
  <2> QED
    BY <1>1, <2>1, <2>2
<1> QED
  BY <1>3, <1>5, <1>6, <1>7, <1>8, <1>9, <1>10, <1>11, <1>12, <1>13

\* What stays open was met before, and waits for what it waited for.
LEMMA ClosingKeepsOpen ==
  ASSUME FstsAssumption, SccInv, NEW s \in State, NEW p, Finishes(s, p), lowlink[s] = dfnumber[s]
  PROVE  OpenStatesWait' /\ LinksAreKnown' /\ LinksAreLow' /\ AccessIsKnown'
<1> DEFINE C == Component(s)
<1>1. /\ N \in Nat \ {0} /\ fst' = fst /\ root' = root /\ Reach' = Reach /\ Reach \in [State -> SUBSET State]
      /\ Met' = Met /\ Grey' = Grey \ {s}
      /\ Met \subseteq State /\ Grey \subseteq onstack /\ onstack \subseteq Met /\ s \in Grey
      /\ dfnumber' = dfnumber /\ access' = access
      /\ \A a \in Met : dfnumber[a] \in Nat /\ lowlink[a] \in Nat /\ lowlink[a] <= dfnumber[a]
  BY FinishedStates
<1>2. /\ onstack' = onstack \ C /\ s \in C /\ Grey' \subseteq onstack' /\ lowlink' = lowlink
      /\ \A a \in onstack : a \notin C => dfnumber[a] < dfnumber[s]
      /\ \A a \in C : dfnumber[s] <= dfnumber[a]
  BY ClosedStates
<1> HIDE DEF C
<1>3. OpenStatesWait /\ LinksAreKnown /\ LinksAreLow /\ AccessIsKnown
  BY DEF SccInv
<1>4. OpenStatesWait'
  <2>1. ASSUME NEW a \in onstack' PROVE \E g \in Grey' : g \in Reach[a] /\ dfnumber[g] <= dfnumber[a]
    <3>1. a \in onstack /\ dfnumber[a] < dfnumber[s]
      BY <1>2, <2>1
    <3>2. PICK g \in Grey : g \in Reach[a] /\ dfnumber[g] <= dfnumber[a]
      BY <1>3, <3>1 DEF OpenStatesWait
    <3>3. g # s
      BY <1>1, <3>1, <3>2
    <3> QED
      BY <1>1, <3>2, <3>3
  <2>2. onstack' \subseteq Met'
    BY <1>1, <1>2
  <2> QED
    BY <1>1, <1>2, <2>1, <2>2 DEF OpenStatesWait
<1>5. LinksAreKnown'
  <2>1. ASSUME NEW a \in onstack' PROVE \E u \in onstack' : u \in Reach[a] /\ dfnumber[u] = lowlink[a]
    <3>1. a \in onstack /\ dfnumber[a] < dfnumber[s]
      BY <1>2, <2>1
    <3>2. PICK u \in onstack : u \in Reach[a] /\ dfnumber[u] = lowlink[a]
      BY <1>3, <3>1 DEF LinksAreKnown
    <3>3. lowlink[a] <= dfnumber[a] /\ dfnumber[a] \in Nat /\ lowlink[a] \in Nat /\ dfnumber[s] \in Nat
      BY <1>1, <3>1
    <3>4. dfnumber[u] < dfnumber[s]
      BY <3>1, <3>2, <3>3
    <3>5. u \notin C
      BY <1>2, <3>2, <3>3, <3>4
    <3> QED
      BY <1>2, <3>2, <3>5
  <2> QED
    BY <1>1, <1>2, <2>1 DEF LinksAreKnown
<1>6. LinksAreLow'
  <2> SUFFICES ASSUME NEW a \in onstack', NEW b \in onstack', Taken(a, b)', NEW g \in State, WaitsFor(a, g)'
               PROVE  lowlink[g] <= dfnumber[b]
    BY <1>1, <1>2 DEF LinksAreLow, State
  <2>1. a \in onstack /\ b \in onstack /\ dfnumber[a] < dfnumber[s] /\ a \in State /\ b \in State
    BY <1>1, <1>2
  <2>2. Taken(a, b)
    BY <2>1 DEF Finishes
  <2>3. WaitsFor(a, g)
    <3>1. /\ g \in Grey /\ dfnumber[g] <= dfnumber[a]
          /\ \A h \in Grey \ {s} : dfnumber[h] <= dfnumber[a] => dfnumber[h] <= dfnumber[g]
      BY <1>1 DEF WaitsFor
    <3>2. ~(dfnumber[s] <= dfnumber[a])
      BY <1>1, <2>1
    <3> QED
      BY <3>1, <3>2 DEF WaitsFor
  <2> QED
    BY <1>3, <2>1, <2>2, <2>3 DEF LinksAreLow
<1>7. AccessIsKnown'
  <2>1. access \cap Grey = {} => access \cap Grey' = {}
    BY <1>1
  <2> QED
    BY <1>1, <1>3, <2>1 DEF AccessIsKnown
<1> QED
  BY <1>4, <1>5, <1>6, <1>7

\* The component is the newest of the open states: as many as it has, from the
\* top of their stack.
LEMMA ComponentOnTop ==
  ASSUME FstsAssumption, SccInv, NEW s \in State, NEW p, Finishes(s, p), lowlink[s] = dfnumber[s]
  PROVE  /\ Cardinality(Component(s)) \in 0 .. Len(scc_stack)
         /\ \A i \in 1 .. Len(scc_stack) : scc_stack[i] \in Component(s) <=> i <= Cardinality(Component(s))
<1> DEFINE C == Component(s)
           L == Len(scc_stack)
<1>1. /\ Met \subseteq State /\ onstack \subseteq Met /\ s \in Met
      /\ \A a \in Met : dfnumber[a] \in Nat
  BY FinishedStates
<1>2. /\ scc_stack \in Seq(State) /\ {scc_stack[i] : i \in 1 .. L} = onstack
      /\ \A i, j \in 1 .. L : i < j => dfnumber[scc_stack[i]] > dfnumber[scc_stack[j]]
  BY DEF SccInv, OpenStatesAreStacked, SccStackIsOrdered
<1>3. L \in Nat
  BY <1>2
<1>4. \A a \in onstack : a \in C <=> dfnumber[s] <= dfnumber[a]
  BY <1>1 DEF Component
<1>5. C \subseteq onstack
  BY DEF Component
<1>6. \A i \in 1 .. L : scc_stack[i] \in onstack /\ dfnumber[scc_stack[i]] \in Nat
  BY <1>1, <1>2
<1>7. dfnumber[s] \in Nat
  BY <1>1
<1> HIDE DEF C, L
<1> DEFINE Ends1 == {n \in 0 .. L : n = L \/ scc_stack[n + 1] \notin C}
<1>8. PICK m \in Ends1 : \A n \in Ends1 : m <= n
  <2>1. Ends1 \in SUBSET Nat /\ L \in Ends1
    BY <1>3
  <2> HIDE DEF Ends1
  <2> QED
    BY <2>1, LeastNatural
<1>9. m \in 0 .. L
  OBVIOUS
<1>10. ASSUME NEW i \in 1 .. L, i <= m PROVE scc_stack[i] \in C
  <2>1. i - 1 \in 0 .. L /\ (i - 1) + 1 = i /\ i - 1 # L /\ ~(m <= i - 1)
    BY <1>3, <1>9, <1>10
  <2> QED
    BY <1>8, <2>1
<1>11. ASSUME NEW i \in 1 .. L, scc_stack[i] \in C PROVE i <= m
  <2> SUFFICES ASSUME m < i PROVE FALSE
    BY <1>3, <1>9
  <2>1. m + 1 \in 1 .. L /\ m # L /\ (m + 1 = i \/ m + 1 < i)
    BY <1>3, <1>9
  <2>2. scc_stack[m + 1] \notin C
    BY <1>8, <2>1
  <2>3. m + 1 < i
    BY <1>11, <2>1, <2>2
  <2>4. dfnumber[scc_stack[m + 1]] > dfnumber[scc_stack[i]]
    BY <1>2, <2>1, <2>3
  <2>5. dfnumber[s] <= dfnumber[scc_stack[i]]
    BY <1>4, <1>6, <1>11
  <2>6. dfnumber[s] <= dfnumber[scc_stack[m + 1]]
    BY <1>6, <1>7, <2>1, <2>4, <2>5
  <2> QED
    BY <1>4, <1>6, <2>1, <2>2, <2>6
<1>12. Cardinality(C) = m
  <2> DEFINE f == [i \in 1 .. m |-> scc_stack[i]]
  <2>1. \A i \in 1 .. m : i \in 1 .. L /\ i <= m
    BY <1>3, <1>9
  <2>2. f \in [1 .. m -> C]
    BY <1>10, <2>1
  <2>3. \A a \in C : \E i \in 1 .. m : f[i] = a
    <3> SUFFICES ASSUME NEW a \in C PROVE \E i \in 1 .. m : f[i] = a
      OBVIOUS
    <3>1. PICK i \in 1 .. L : scc_stack[i] = a
      BY <1>2, <1>5
    <3>2. i \in 1 .. m
      BY <1>9, <1>11, <3>1
    <3> QED
      BY <3>1, <3>2
  <2>4. ASSUME NEW i \in 1 .. m, NEW j \in 1 .. m, f[i] = f[j] PROVE i = j
    <3>1. i \in 1 .. L /\ j \in 1 .. L /\ scc_stack[i] = scc_stack[j]
      BY <2>1, <2>4
    <3>2. ~(i < j) /\ ~(j < i)
      BY <1>2, <1>6, <3>1
    <3> QED
      BY <3>2
  <2> HIDE DEF f
  <2>5. f \in Bijection(1 .. m, C)
    <3>1. f \in Surjection(1 .. m, C)
      BY <2>2, <2>3 DEF Surjection
    <3>2. f \in Injection(1 .. m, C)
      BY <2>2, <2>4 DEF Injection, IsInjective
    <3> QED
      BY <3>1, <3>2 DEF Bijection
  <2>6. ExistsBijection(1 .. m, C)
    BY <2>5 DEF ExistsBijection
  <2>7. IsFiniteSet(1 .. m) /\ Cardinality(1 .. m) = m
    BY <1>9, FS_Interval
  <2> QED
    BY <2>6, <2>7, FS_Bijection
<1> QED
  BY <1>9, <1>10, <1>11, <1>12 DEF C, L

\* And the stack that is left holds what stays open.
LEMMA ClosingKeepsStack ==
  ASSUME FstsAssumption, SccInv, NEW s \in State, NEW p, Finishes(s, p), lowlink[s] = dfnumber[s]
  PROVE  OpenStatesAreStacked'
<1> DEFINE C == Component(s)
           L == Len(scc_stack)
           m == Cardinality(C)
<1>1. dfnumber' = dfnumber /\ onstack' = onstack \ C
  BY FinishedStates, ClosedStates
<1>2. scc_stack' = SubSeq(scc_stack, m + 1, L)
  BY DEF Finishes, finish_state
<1>3. /\ scc_stack \in Seq(State) /\ {scc_stack[i] : i \in 1 .. L} = onstack
      /\ \A i, j \in 1 .. L : i < j => dfnumber[scc_stack[i]] > dfnumber[scc_stack[j]]
  BY DEF SccInv, OpenStatesAreStacked, SccStackIsOrdered
<1>4. m \in 0 .. L /\ \A i \in 1 .. L : scc_stack[i] \in C <=> i <= m
  BY ComponentOnTop
<1>5. L \in Nat /\ \A i \in 1 .. L : scc_stack[i] \in State
  BY <1>3
<1> HIDE DEF C, L, m
<1>6. /\ scc_stack' \in Seq(State) /\ Len(scc_stack') = L - m
      /\ \A i \in 1 .. L - m : scc_stack'[i] = scc_stack[m + i]
  <2>1. m + 1 \in Int /\ L \in Int /\ \A i \in m + 1 .. L : scc_stack[i] \in State
    BY <1>4, <1>5
  <2>2. /\ scc_stack' \in Seq(State)
        /\ Len(scc_stack') = IF m + 1 <= L THEN L - (m + 1) + 1 ELSE 0
        /\ \A i \in 1 .. L - (m + 1) + 1 : scc_stack'[i] = scc_stack[(m + 1) + i - 1]
    BY <1>2, <2>1, SubSeqProperties
  <2>3. L - (m + 1) + 1 = L - m /\ (IF m + 1 <= L THEN L - (m + 1) + 1 ELSE 0) = L - m
    BY <1>4, <1>5
  <2>4. \A i \in 1 .. L - m : (m + 1) + i - 1 = m + i
    BY <1>4, <1>5
  <2> QED
    BY <2>2, <2>3, <2>4
<1>7. \A i \in 1 .. L - m : m + i \in 1 .. L /\ ~(m + i <= m)
  BY <1>4, <1>5
<1>8. {scc_stack'[i] : i \in 1 .. Len(scc_stack')} = onstack \ C
  <2>1. ASSUME NEW i \in 1 .. L - m PROVE scc_stack'[i] \in onstack \ C
    BY <1>3, <1>4, <1>6, <1>7
  <2>2. ASSUME NEW a \in onstack \ C PROVE \E i \in 1 .. L - m : scc_stack'[i] = a
    <3>1. PICK j \in 1 .. L : scc_stack[j] = a
      BY <1>3
    <3>2. ~(j <= m)
      BY <1>4, <3>1
    <3>3. j - m \in 1 .. L - m /\ m + (j - m) = j
      BY <1>4, <1>5, <3>2
    <3> QED
      BY <1>6, <3>1, <3>3
  <2> QED
    BY <1>6, <2>1, <2>2
<1>9. ASSUME NEW i \in 1 .. L - m, NEW j \in 1 .. L - m, i < j
      PROVE  dfnumber[scc_stack'[i]] > dfnumber[scc_stack'[j]]
  <2>1. m + i < m + j
    BY <1>4, <1>9
  <2> QED
    BY <1>3, <1>6, <1>7, <2>1
<1> QED
  BY <1>1, <1>6, <1>8, <1>9 DEF OpenStatesAreStacked, SccStackIsOrdered, State

\* The component that closes has the next number, and leads only to those that have one.
LEMMA ClosingKeepsNumbers ==
  ASSUME FstsAssumption, SccInv, NEW s \in State, NEW p, Finishes(s, p), lowlink[s] = dfnumber[s]
  PROVE  ClosedAreNumbered' /\ ClosedAreComponents'
<1> DEFINE C == Component(s)
<1>1. /\ N \in Nat \ {0} /\ at # "done" /\ at' # "done" /\ Met \subseteq State
      /\ Reach' = Reach /\ Reach \in [State -> SUBSET State] /\ \A a \in State : a \in Reach[a]
      /\ \A a, b : Arc(a, b)' <=> Arc(a, b)
  BY FinishedStates
<1>2. /\ C \subseteq State /\ s \in C /\ C \cap Closed = {} /\ Closed' = Closed \cup C
      /\ \A a \in C : a \in Reach[s] /\ s \in Reach[a]
      /\ \A a \in C : \A b \in State : Arc(a, b) => b \in C \/ b \in Closed
  BY ClosedStates
<1>3. scc' = [t \in State |-> IF t \in C THEN nscc ELSE scc[t]] /\ nscc' = nscc + 1
  BY DEF Finishes, finish_state
<1>4. ClosedAreNumbered /\ ClosedAreComponents
  BY DEF SccInv
<1> HIDE DEF C
<1>5. Closed \subseteq State
  BY <1>1 DEF Closed
<1>6. IsFiniteSet(State) /\ Cardinality(State) = N /\ None \notin State
  BY SearchTypes DEF SccInv
<1>7. nscc + 1 <= Cardinality(Closed \cup C) /\ nscc \in State /\ nscc \in Nat
  <2>1. IsFiniteSet(Closed)
    BY <1>5, <1>6, FS_Subset
  <2>2. Cardinality(Closed \cup {s}) = IF s \in Closed THEN Cardinality(Closed) ELSE Cardinality(Closed) + 1
    BY <2>1, FS_AddElement
  <2>3. s \notin Closed
    BY <1>2
  <2>4. IsFiniteSet(Closed \cup C) /\ Closed \cup C \subseteq State
    BY <1>2, <1>5, <1>6, FS_Subset
  <2>5. Cardinality(Closed \cup {s}) <= Cardinality(Closed \cup C)
    <3>1. Closed \cup {s} \subseteq Closed \cup C
      BY <1>2
    <3> QED
      BY <2>4, <3>1, FS_Subset
  <2>6. Cardinality(Closed \cup C) <= N
    BY <1>6, <2>4, FS_Subset
  <2>7. Cardinality(Closed) \in Nat /\ Cardinality(Closed \cup C) \in Nat
    BY <2>1, <2>4, FS_CardinalityType
  <2>8. nscc \in Nat /\ nscc <= Cardinality(Closed)
    BY <1>4 DEF ClosedAreNumbered
  <2>9. nscc + 1 <= Cardinality(Closed \cup C)
    BY <2>2, <2>3, <2>5, <2>7, <2>8
  <2>10. nscc \in 0 .. N - 1
    BY <1>1, <2>6, <2>7, <2>8, <2>9
  <2> QED
    BY <2>8, <2>9, <2>10 DEF State
<1>8. /\ scc' \in [State -> State \cup {None}]
      /\ \A a \in C : scc'[a] = nscc
      /\ \A a \in State : a \notin C => scc'[a] = scc[a]
  BY <1>2, <1>3, <1>4, <1>7 DEF ClosedAreNumbered
<1>9. ClosedAreNumbered'
  <2>1. \A a \in State \ Closed' : scc'[a] = None
    BY <1>2, <1>4, <1>8 DEF ClosedAreNumbered
  <2>2. ASSUME NEW a \in Closed' PROVE scc'[a] \in 0 .. nscc' - 1
    <3>1. CASE a \in C
      <4>1. scc'[a] = nscc /\ nscc' - 1 = nscc
        BY <1>3, <1>7, <1>8, <3>1
      <4> QED
        BY <1>7, <4>1
    <3>2. CASE a \notin C
      <4>1. a \in Closed /\ scc'[a] = scc[a] /\ scc[a] \in 0 .. nscc - 1
        BY <1>2, <1>4, <1>5, <1>8, <3>2 DEF ClosedAreNumbered
      <4> QED
        BY <1>3, <1>7, <4>1
    <3> QED
      BY <3>1, <3>2
  <2>3. nscc' \in Nat /\ nscc' <= Cardinality(Closed')
    BY <1>2, <1>3, <1>7
  <2> QED
    BY <1>8, <2>1, <2>2, <2>3 DEF ClosedAreNumbered, State
<1>10. /\ \A a \in Closed : Number(a)' = Number(a) /\ Number(a) \in 0 .. nscc - 1
       /\ \A a \in C : Number(a)' = nscc
  BY <1>1, <1>2, <1>4, <1>5, <1>8 DEF Number, ClosedAreNumbered
<1>11. \A a \in Closed : \A b \in C : Number(a)' # Number(b)' /\ Number(a)' <= Number(b)'
  <2> SUFFICES ASSUME NEW a \in Closed, NEW b \in C PROVE Number(a)' # Number(b)' /\ Number(a)' <= Number(b)'
    OBVIOUS
  <2>1. Number(a)' \in 0 .. nscc - 1 /\ Number(b)' = nscc
    BY <1>10
  <2> QED
    BY <1>7, <2>1
<1>12. ASSUME NEW a \in Closed', NEW b \in State, Arc(a, b) PROVE b \in Closed' /\ Number(b)' <= Number(a)'
  <2>1. CASE a \in Closed
    <3>1. b \in Closed /\ Number(b) <= Number(a)
      BY <1>4, <1>12, <2>1 DEF ClosedAreComponents
    <3> QED
      BY <1>2, <1>10, <2>1, <3>1
  <2>2. CASE a \in C
    <3>1. b \in C \/ b \in Closed
      BY <1>2, <1>12, <2>2
    <3>2. CASE b \in C
      <4>1. Number(a)' = nscc /\ Number(b)' = nscc
        BY <1>10, <2>2, <3>2
      <4> QED
        BY <1>2, <1>7, <3>2, <4>1
    <3>3. CASE b \in Closed
      BY <1>2, <1>11, <2>2, <3>3
    <3> QED
      BY <3>1, <3>2, <3>3
  <2> QED
    BY <1>2, <2>1, <2>2
<1>13. ASSUME NEW a \in Closed, NEW b \in C PROVE b \notin Reach[a]
  <2>1. Reach[a] \subseteq Closed
    BY <1>1, <1>4, <1>5, ReachStaysInside DEF ClosedAreComponents
  <2> QED
    BY <1>2, <2>1
<1>14. ASSUME NEW a \in Closed', NEW b \in Closed' PROVE Number(a)' = Number(b)' <=> b \in Reach[a] /\ a \in Reach[b]
  <2>1. CASE a \in Closed /\ b \in Closed
    BY <1>4, <1>10, <2>1 DEF ClosedAreComponents
  <2>2. CASE a \in C /\ b \in C
    <3>1. Number(a)' = Number(b)'
      BY <1>10, <2>2
    <3>2. a \in State /\ b \in State /\ a \in Reach[s] /\ s \in Reach[a] /\ b \in Reach[s] /\ s \in Reach[b]
      BY <1>2, <2>2
    <3>3. b \in Reach[a] /\ a \in Reach[b]
      BY <1>1, <3>2, ReachJoins
    <3> QED
      BY <3>1, <3>3
  <2>3. CASE a \in Closed /\ b \in C
    BY <1>11, <1>13, <2>3
  <2>4. CASE a \in C /\ b \in Closed
    <3>1. Number(b)' # Number(a)' /\ a \notin Reach[b]
      BY <1>11, <1>13, <2>4
    <3> QED
      BY <3>1
  <2> QED
    BY <1>2, <2>1, <2>2, <2>3, <2>4
<1>15. ClosedAreComponents'
  <2>1. \A a \in Closed' : \A b \in State' : Arc(a, b)' => b \in Closed' /\ Number(b)' <= Number(a)'
    BY <1>1, <1>12 DEF State
  <2>2. \A a, b \in Closed' : Number(a)' = Number(b)' <=> b \in Reach'[a] /\ a \in Reach'[b]
    BY <1>1, <1>14
  <2> QED
    BY <2>1, <2>2 DEF ClosedAreComponents
<1> QED
  BY <1>9, <1>15

\* A component leads to a final state exactly when one of its states is known to.
LEMMA ClosingKeepsCoaccess ==
  ASSUME FstsAssumption, SccInv, NEW s \in State, NEW p, Finishes(s, p), lowlink[s] = dfnumber[s]
  PROVE  CoaccessIsKnown' /\ (Closed' \subseteq coaccess' <=>
            Closed \subseteq coaccess /\ Component(s) \cap (IF s \in fst.final THEN coaccess \cup {s} ELSE coaccess) # {})
<1> DEFINE C == Component(s)
           mine == IF s \in fst.final THEN coaccess \cup {s} ELSE coaccess
           known == IF C \cap mine # {} THEN mine \cup C ELSE mine
<1>1. /\ N \in Nat \ {0} /\ fst' = fst /\ Reach' = Reach /\ Reach \in [State -> SUBSET State]
      /\ \A a \in State : a \in Reach[a]
      /\ Met' = Met /\ Grey' = Grey \ {s} /\ \A a \in State : a # s => color'[a] = color[a]
      /\ Met \subseteq State /\ Grey \subseteq onstack /\ onstack \subseteq Met /\ s \in Grey
      /\ p # None => p \in Grey /\ p # s /\ Under(p, s) /\ s \in Reach[p]
      /\ p = None => Grey = {s}
      /\ \A a \in Met : dfnumber[a] \in Nat
      /\ \A a, b \in Met : dfnumber[a] = dfnumber[b] => a = b
  BY FinishedStates
<1>2. /\ C \subseteq onstack /\ C \subseteq State /\ s \in C /\ C \cap Closed = {} /\ C \cap Grey = {s}
      /\ onstack' = onstack \ C /\ Closed' = Closed \cup C /\ Grey' \subseteq onstack'
      /\ \A a \in onstack : a \notin C => dfnumber[a] < dfnumber[s]
      /\ \A a \in C : dfnumber[s] <= dfnumber[a] /\ a \in Reach[s] /\ s \in Reach[a]
      /\ \A a \in C : \A b \in State : Arc(a, b) => Taken(a, b) /\ (b \in C \/ b \in Closed)
  BY ClosedStates
<1>3. CoaccessIsKnown /\ ClosedAreComponents /\ None \notin State
  BY SearchTypes DEF SccInv
<1>4. coaccess' = IF p # None /\ s \in known THEN known \cup {p} ELSE known
  BY DEF Finishes, finish_state
<1> HIDE DEF C
<1>5. Closed \subseteq State /\ \A a \in Closed : a \notin onstack
  BY <1>1 DEF Closed
<1>6. p # None => p \notin Closed /\ p \notin C /\ p \in Met /\ p \in State
  BY <1>1, <1>2, <1>5
<1>7. \A a \in Closed : a \in coaccess' <=> a \in coaccess
  <2>1. \A a \in Closed : a # s /\ a # p /\ a \notin C
    BY <1>1, <1>2, <1>3, <1>5, <1>6
  <2> QED
    BY <1>4, <2>1
<1>8. coaccess \subseteq mine /\ mine \subseteq known /\ known \subseteq coaccess' /\ coaccess' \subseteq known \cup {p}
  BY <1>4
<1>9. C \subseteq coaccess' <=> C \cap mine # {}
  <2>1. CASE C \cap mine # {}
    BY <1>8, <2>1
  <2>2. CASE C \cap mine = {}
    <3>1. s \notin known /\ s # p
      BY <1>1, <1>2, <1>3, <2>2
    <3>2. s \notin coaccess'
      BY <1>8, <3>1
    <3> QED
      BY <1>2, <2>2, <3>2
  <2> QED
    BY <2>1, <2>2
<1>10. \A a, b \in State : b \in Reach[a] /\ Ends(b) => Ends(a)
  <2> SUFFICES ASSUME NEW a \in State, NEW b \in State, b \in Reach[a], Ends(b) PROVE Ends(a)
    OBVIOUS
  <2>1. PICK f \in fst.final : f \in Reach[b]
    BY DEF Ends
  <2>2. f \in Reach[a]
    BY <1>1, <2>1, ReachJoins
  <2> QED
    BY <2>1, <2>2 DEF Ends
<1>11. \A a \in mine : Ends(a)
  <2>1. s \in fst.final => Ends(s)
    BY <1>1 DEF Ends
  <2> QED
    BY <1>3, <2>1 DEF CoaccessIsKnown
<1>12. \A a \in known : Ends(a)
  <2> SUFFICES ASSUME C \cap mine # {}, NEW a \in C PROVE Ends(a)
    BY <1>11
  <2>1. PICK c \in C : c \in mine
    OBVIOUS
  <2>2. Ends(c) /\ c \in State /\ s \in State /\ a \in State
    BY <1>2, <1>11, <2>1
  <2>3. Ends(s)
    BY <1>2, <1>10, <2>2
  <2> QED
    BY <1>2, <1>10, <2>2, <2>3
<1>13. \A a \in coaccess' : Ends(a)
  <2>1. p # None /\ s \in known => Ends(p)
    BY <1>1, <1>6, <1>10, <1>12
  <2> QED
    BY <1>4, <1>12, <2>1
<1>14. coaccess' \subseteq Met
  <2>1. coaccess \subseteq Met /\ C \subseteq Met /\ s \in Met
    BY <1>1, <1>2, <1>3 DEF CoaccessIsKnown
  <2> QED
    BY <1>4, <1>6, <2>1
<1>15. \A a \in Closed : Ends(a) => a \in coaccess
  BY <1>3 DEF CoaccessIsKnown
<1>16. ASSUME NEW a \in C, a \notin coaccess' PROVE ~Ends(a)
  <2>1. C \cap mine = {}
    BY <1>8, <1>16
  <2> DEFINE Q == C \cup {u \in Closed : u \notin coaccess}
  <2>2. Q \in SUBSET State /\ a \in Q
    BY <1>2, <1>5, <1>16
  <2>3. ASSUME NEW u \in Q, NEW v \in State, Arc(u, v) PROVE v \in Q
    <3>1. CASE u \in C
      <4>1. Taken(u, v) /\ (v \in C \/ v \in Closed)
        BY <1>2, <2>3, <3>1
      <4>2. v \in Closed => v \notin coaccess
        BY <1>2, <1>3, <1>8, <2>1, <3>1, <4>1 DEF CoaccessIsKnown
      <4> QED
        BY <4>1, <4>2
    <3>2. CASE u \in Closed /\ u \notin coaccess
      <4>1. v \in Closed
        BY <1>3, <2>3, <3>2 DEF ClosedAreComponents
      <4>2. v \in Reach[u]
        BY <1>1, <1>5, <2>3, <3>2, ReachExtends
      <4>3. ~Ends(v)
        BY <1>5, <1>10, <1>15, <3>2, <4>2
      <4>4. v \notin coaccess
        BY <1>3, <4>3 DEF CoaccessIsKnown
      <4> QED
        BY <4>1, <4>4
    <3> QED
      BY <2>3, <3>1, <3>2
  <2>4. ASSUME NEW u \in Q, u \in fst.final PROVE FALSE
    <3>1. CASE u \in C
      <4>1. u # s /\ u \notin coaccess
        BY <1>2, <2>1, <2>4, <3>1
      <4>2. color[u] # "Grey" /\ color[u] # "White" /\ u \in State /\ u \in onstack
        BY <1>1, <1>2, <3>1, <4>1 DEF Grey, Met
      <4>3. color[u] = "Black"
        BY <4>2, SearchTypes DEF SccInv
      <4> QED
        BY <1>3, <2>4, <4>1, <4>2, <4>3 DEF CoaccessIsKnown
    <3>2. CASE u \in Closed /\ u \notin coaccess
      <4>1. Ends(u)
        BY <1>1, <1>5, <2>4, <3>2 DEF Ends
      <4> QED
        BY <1>15, <3>2, <4>1
    <3> QED
      BY <2>4, <3>1, <3>2
  <2> HIDE DEF Q
  <2>5. Reach[a] \subseteq Q
    BY <1>1, <2>2, <2>3, ReachStaysInside
  <2> QED
    BY <2>4, <2>5 DEF Ends
<1>17. \A a : Ends(a)' <=> Ends(a)
  BY <1>1 DEF Ends
<1>18. ASSUME NEW a \in onstack', NEW b \in Closed', Taken(a, b)', b \in coaccess' PROVE a \in coaccess'
  <2>1. /\ a \in onstack /\ a \notin C /\ a \in State /\ a \in Met /\ dfnumber[a] < dfnumber[s]
        /\ b \in State
    BY <1>1, <1>2, <1>5
  <2>2. Taken(a, b)
    BY <1>18, <2>1 DEF Finishes
  <2>3. CASE b \in Closed
    BY <1>3, <1>7, <1>8, <1>18, <2>1, <2>2, <2>3 DEF CoaccessIsKnown
  <2>4. CASE b \in C
    <3>1. dfnumber[b] <= dfnumber[s] /\ (color[a] = "Black" => b # s)
      BY <1>1, <2>1, <2>2 DEF SccInv, TakenArcsLeadBack
    <3>2. b = s
      <4>1. dfnumber[s] <= dfnumber[b] /\ b \in Met /\ s \in Met
        BY <1>1, <1>2, <2>4
      <4>2. dfnumber[s] = dfnumber[b]
        BY <1>1, <3>1, <4>1
      <4> QED
        BY <1>1, <4>1, <4>2
    <3>3. color[a] # "Black" /\ color[a] # "White"
      BY <2>1, <3>1, <3>2 DEF Met
    <3>4. a \in Grey /\ a # s
      BY <1>2, <2>1, <3>3, SearchTypes DEF SccInv, Grey
    <3>5. p # None /\ p \in Grey /\ p \in Met /\ dfnumber[p] < dfnumber[s] /\ dfnumber[a] <= dfnumber[p]
      BY <1>1, <1>6, <3>4 DEF Under
    <3>6. ~(dfnumber[a] < dfnumber[p])
      <4> SUFFICES ASSUME dfnumber[a] < dfnumber[p] PROVE FALSE
        OBVIOUS
      <4>1. dfnumber[s] <= dfnumber[p]
        BY <2>1, <2>2, <3>2, <3>5 DEF SccInv, TakenArcsLeadBack
      <4> QED
        BY <1>1, <3>5, <4>1
    <3>7. a = p
      <4>1. dfnumber[a] = dfnumber[p]
        BY <1>1, <2>1, <3>5, <3>6
      <4> QED
        BY <1>1, <2>1, <3>5, <4>1
    <3>8. s \in known
      BY <1>1, <1>8, <1>18, <3>2, <3>5
    <3> QED
      BY <1>4, <3>5, <3>7, <3>8
  <2> QED
    BY <1>2, <2>3, <2>4
<1>19. CoaccessIsKnown'
  <2>1. coaccess' \subseteq Met' /\ \A a \in coaccess' : Ends(a)'
    BY <1>1, <1>13, <1>14, <1>17
  <2>2. \A a \in Closed' : Ends(a)' => a \in coaccess'
    BY <1>2, <1>7, <1>15, <1>16, <1>17
  <2>3. ASSUME NEW a \in onstack', color'[a] = "Black", a \in fst'.final PROVE a \in coaccess'
    <3>1. a \in onstack /\ a # s /\ a \in State
      BY <1>1, <1>2
    <3>2. color[a] = "Black" /\ a \in fst.final
      BY <1>1, <2>3, <3>1
    <3> QED
      BY <1>3, <1>8, <3>1, <3>2 DEF CoaccessIsKnown
  <2> QED
    BY <1>18, <2>1, <2>2, <2>3 DEF CoaccessIsKnown
<1>20. Closed' \subseteq coaccess' <=> Closed \subseteq coaccess /\ C \cap mine # {}
  BY <1>2, <1>7, <1>9
<1> QED
  BY <1>19, <1>20 DEF C

\* No arc inside the component was a back arc unless one was met.
LEMMA ClosingKeepsProps ==
  ASSUME FstsAssumption, SccInv, NEW s \in State, NEW p, Finishes(s, p), lowlink[s] = dfnumber[s]
  PROVE  PropsAreKnown'
<1> DEFINE C == Component(s)
           mine == IF s \in fst.final THEN coaccess \cup {s} ELSE coaccess
<1>1. /\ N \in Nat \ {0} /\ fst' = fst /\ at # "done" /\ at' # "done" /\ root' = root
      /\ Reach' = Reach /\ Met' = Met /\ Grey' = Grey \ {s} /\ Met \subseteq State
      /\ Grey \subseteq onstack /\ s \in Grey
      /\ dfnumber' = dfnumber /\ access' = access
      /\ \A a, b : Arc(a, b)' <=> Arc(a, b)
  BY FinishedStates
<1>2. /\ C \subseteq onstack /\ C \subseteq State /\ s \in C /\ C \cap Closed = {} /\ C \cap Grey = {s}
      /\ onstack' = onstack \ C /\ Closed' = Closed \cup C /\ lowlink' = lowlink
      /\ \A a \in C : \A b \in State : Arc(a, b) => Taken(a, b) /\ (b \in C \/ b \in Closed)
  BY ClosedStates
<1>3. /\ AnswersDiffer /\ StaysAcyclic /\ CyclesAreKnown /\ ConnectionIsKnown /\ ClosedAreNumbered /\ ClosedAreComponents
      /\ AccessIsKnown
  BY DEF SccInv, PropsAreKnown
<1>4. /\ scc' = [t \in State |-> IF t \in C THEN nscc ELSE scc[t]]
      /\ IF C \cap mine # {} THEN props' = props
         ELSE props' = (props \ {"CO_ACCESSIBLE"}) \cup {"NOT_CO_ACCESSIBLE"}
  BY DEF Finishes, finish_state, Unset
<1>5. Closed' \subseteq coaccess' <=> Closed \subseteq coaccess /\ C \cap mine # {}
  BY ClosingKeepsCoaccess
<1> HIDE DEF C, mine
<1>6. /\ \A bit \in {"CYCLIC", "ACYCLIC", "INITIAL_CYCLIC", "INITIAL_ACYCLIC", "ACCESSIBLE", "NOT_ACCESSIBLE"} :
           bit \in props' <=> bit \in props
      /\ "CO_ACCESSIBLE" \in props' <=> "CO_ACCESSIBLE" \in props /\ C \cap mine # {}
      /\ "NOT_CO_ACCESSIBLE" \in props' <=> "NOT_CO_ACCESSIBLE" \in props \/ C \cap mine = {}
  BY <1>4
<1>7. /\ "CYCLIC" \in props' <=> "CYCLIC" \in props
      /\ "ACYCLIC" \in props' <=> "ACYCLIC" \in props
      /\ "INITIAL_CYCLIC" \in props' <=> "INITIAL_CYCLIC" \in props
      /\ "INITIAL_ACYCLIC" \in props' <=> "INITIAL_ACYCLIC" \in props
      /\ "ACCESSIBLE" \in props' <=> "ACCESSIBLE" \in props
      /\ "NOT_ACCESSIBLE" \in props' <=> "NOT_ACCESSIBLE" \in props
  BY <1>6
<1>8. AnswersDiffer'
  BY <1>3, <1>6, <1>7 DEF AnswersDiffer
<1>9. StaysAcyclic'
  <2> SUFFICES ASSUME "ACYCLIC" \in props'
               PROVE  /\ onstack' = Grey'
                      /\ \A g \in Grey' : lowlink'[g] = dfnumber'[g]
                      /\ \A a \in State : ~Taken(a, a)'
                      /\ \A a \in Closed' : \A b \in State : Arc(a, b) => Number(b)' # Number(a)'
    BY <1>1 DEF StaysAcyclic, State
  <2>1. /\ onstack = Grey
        /\ \A g \in Grey : lowlink[g] = dfnumber[g]
        /\ \A a \in State : ~Taken(a, a)
        /\ \A a \in Closed : \A b \in State : Arc(a, b) => Number(b) # Number(a)
    BY <1>3, <1>7 DEF StaysAcyclic
  <2>2. C = {s}
    BY <1>2, <2>1
  <2>3. onstack' = Grey'
    BY <1>1, <1>2, <2>1, <2>2
  <2>4. \A a \in State : ~Taken(a, a)'
    BY <2>1 DEF Finishes
  <2>5. /\ \A a \in Closed : Number(a)' = Number(a) /\ Number(a) \in 0 .. nscc - 1
        /\ Number(s)' = nscc /\ nscc \in Nat
    <3>1. Closed \subseteq State
      BY <1>1 DEF Closed
    <3> QED
      BY <1>1, <1>2, <1>3, <1>4, <3>1 DEF Number, ClosedAreNumbered
  <2>6. ASSUME NEW a \in Closed', NEW b \in State, Arc(a, b) PROVE Number(b)' # Number(a)'
    <3>1. CASE a \in Closed
      <4>1. b \in Closed /\ Number(b) # Number(a)
        BY <1>3, <2>1, <2>6, <3>1 DEF ClosedAreComponents
      <4> QED
        BY <2>5, <3>1, <4>1
    <3>2. CASE a = s
      <4>1. b # s
        BY <1>2, <2>1, <2>6, <3>2
      <4>2. b \in Closed
        BY <1>2, <2>2, <2>6, <3>2, <4>1
      <4>3. Number(b)' \in 0 .. nscc - 1
        BY <2>5, <4>2
      <4> QED
        BY <2>5, <3>2, <4>3
    <3> QED
      BY <1>2, <2>2, <3>1, <3>2
  <2>7. \A g \in Grey' : lowlink'[g] = dfnumber'[g]
    BY <1>1, <1>2, <2>1
  <2> QED
    BY <2>3, <2>4, <2>6, <2>7
<1>10. CyclesAreKnown'
  <2>1. \A a : OnCycle(a)' <=> OnCycle(a)
    BY <1>1, CyclesStay
  <2>2. ("CYCLIC" \in props => \E a \in State : OnCycle(a))'
    BY <1>3, <1>7, <2>1 DEF CyclesAreKnown, State
  <2>3. ("INITIAL_CYCLIC" \in props => fst.start # None /\ OnCycle(fst.start))'
    <3>1. OnCycle(fst.start)' <=> OnCycle(fst.start)
      BY <1>1, <2>1 DEF OnCycle
    <3> QED
      BY <1>1, <1>3, <1>7, <3>1 DEF CyclesAreKnown
  <2>4. ("INITIAL_ACYCLIC" \in props /\ fst.start # None => \A a \in access : ~Taken(a, fst.start))'
    <3> SUFFICES ASSUME "INITIAL_ACYCLIC" \in props', fst'.start # None', NEW a \in access', Taken(a, fst.start)'
                 PROVE  FALSE
      OBVIOUS
    <3>1. fst.start \in State /\ a \in State
      BY <1>1, <1>3, SearchTypes DEF AccessIsKnown, SccInv
    <3>2. Taken(a, fst.start)
      BY <1>1, <3>1 DEF Finishes
    <3> QED
      BY <1>1, <1>3, <1>7, <3>2 DEF CyclesAreKnown
  <2> QED
    BY <2>2, <2>3, <2>4 DEF CyclesAreKnown
<1>11. ConnectionIsKnown'
  BY <1>1, <1>3, <1>5, <1>6, <1>7 DEF ConnectionIsKnown
<1> QED
  BY <1>8, <1>9, <1>10, <1>11 DEF PropsAreKnown

\* All of that at once.
LEMMA FinishingKeepsScc ==
  ASSUME FstsAssumption, SccInv, NEW s \in State, NEW p, Finishes(s, p), SearchInv'
  PROVE  SccInv'
<1>1. FramesAreOrdered' /\ dfs' = TRUE
  BY DEF Finishes, InTree
<1>2. CASE lowlink[s] # dfnumber[s]
  BY <1>1, <1>2, FinishingKeepsNumbers, WaitingKeepsOpen, WaitingKeepsComponents DEF SccInv
<1>3. CASE lowlink[s] = dfnumber[s]
  BY <1>1, <1>3, FinishingKeepsNumbers, ClosingKeepsOpen, ClosingKeepsStack, ClosingKeepsNumbers,
     ClosingKeepsCoaccess, ClosingKeepsProps DEF SccInv
<1> QED
  BY <1>2, <1>3

-----------------------------------------------------------------------------
(***************************************************************************)
(* Between trees                                                           *)
(***************************************************************************)

\* What no turn changes stays as it is, whatever the components are called.
LEMMA StandingKeepsScc ==
  ASSUME FstsAssumption, SccInv, SearchInv', UNCHANGED <<fst, color, stack, dfs>>,
         UNCHANGED <<dfnumber, lowlink, onstack, scc_stack, count, access, coaccess, props>>,
         ClosedAreNumbered', AccessIsKnown', \A s \in Closed : Number(s)' = Number(s)
  PROVE  SccInv'
<1>1. /\ fst' = fst /\ color' = color /\ stack' = stack /\ dfs' = dfs
      /\ dfnumber' = dfnumber /\ lowlink' = lowlink /\ onstack' = onstack /\ scc_stack' = scc_stack
      /\ count' = count /\ access' = access /\ coaccess' = coaccess /\ props' = props
  OBVIOUS
<1>2. SearchInv /\ dfs = TRUE /\ FramesAreOrdered /\ StatesAreNumbered /\ OpenStatesWait /\ OpenStatesAreStacked
  BY DEF SccInv
<1>3. /\ GreyStatesLeadOn /\ TakenArcsLeadBack /\ LinksAreKnown /\ LinksAreLow /\ ClosedAreComponents
      /\ AccessIsKnown /\ CoaccessIsKnown /\ AnswersDiffer /\ StaysAcyclic /\ CyclesAreKnown /\ ConnectionIsKnown
  BY DEF SccInv, PropsAreKnown
<1>4. /\ Reach' = Reach /\ (\A a : OnCycle(a)' <=> OnCycle(a)) /\ \A a, b : Arc(a, b)' <=> Arc(a, b)
  BY <1>1, CyclesStay
<1>5. Met' = Met /\ Grey' = Grey /\ Closed' = Closed
  BY <1>1 DEF Met, Grey, Closed, State
<1>6. \A a, b : Taken(a, b)' <=> Taken(a, b)
  <2> SUFFICES ASSUME NEW a, NEW b PROVE Taken(a, b)' <=> Taken(a, b)
    OBVIOUS
  <2>1. \A i : Took(stack[i], a, b)' <=> Took(stack[i], a, b)
    BY <1>1 DEF Took
  <2> QED
    BY <1>1, <1>4, <2>1 DEF Taken
<1>7. \A a, g : WaitsFor(a, g)' <=> WaitsFor(a, g)
  BY <1>1, <1>5 DEF WaitsFor
<1>8. FramesAreOrdered' /\ StatesAreNumbered' /\ OpenStatesWait' /\ OpenStatesAreStacked'
  BY <1>1, <1>2, <1>4, <1>5 DEF FramesAreOrdered, StatesAreNumbered, OpenStatesWait, OpenStatesAreStacked,
                                SccStackIsOrdered, State
<1>9. GreyStatesLeadOn' /\ LinksAreKnown'
  BY <1>1, <1>3, <1>4, <1>5 DEF GreyStatesLeadOn, LinksAreKnown
<1>10. TakenArcsLeadBack' /\ LinksAreLow'
  BY <1>1, <1>3, <1>5, <1>6, <1>7 DEF TakenArcsLeadBack, LinksAreLow, State
<1>11. Closed \subseteq State
  BY DEF Closed, Met
<1>12. ClosedAreComponents'
  <2>1. \A a \in Closed : \A b \in State : Arc(a, b) => b \in Closed /\ Number(b)' <= Number(a)'
    BY <1>3 DEF ClosedAreComponents
  <2>2. \A a, b \in Closed : Number(a)' = Number(b)' <=> b \in Reach[a] /\ a \in Reach[b]
    BY <1>3 DEF ClosedAreComponents
  <2> QED
    BY <1>4, <1>5, <2>1, <2>2 DEF ClosedAreComponents, State
<1>13. \A a : Ends(a)' <=> Ends(a)
  BY <1>1, <1>4 DEF Ends
<1>14. CoaccessIsKnown'
  BY <1>1, <1>3, <1>5, <1>6, <1>13 DEF CoaccessIsKnown
<1>15. AnswersDiffer' /\ ConnectionIsKnown'
  BY <1>1, <1>3, <1>5 DEF AnswersDiffer, ConnectionIsKnown
<1>16. StaysAcyclic'
  <2> SUFFICES ASSUME "ACYCLIC" \in props
               PROVE  /\ onstack = Grey
                      /\ \A g \in Grey : lowlink[g] = dfnumber[g]
                      /\ \A a \in State : ~Taken(a, a)
                      /\ \A a \in Closed : \A b \in State : Arc(a, b) => Number(b)' # Number(a)'
    BY <1>1, <1>4, <1>5, <1>6 DEF StaysAcyclic, State
  <2>1. \A a \in Closed : \A b \in State : Arc(a, b) => b \in Closed /\ Number(b) # Number(a)
    BY <1>3 DEF ClosedAreComponents, StaysAcyclic
  <2> QED
    BY <1>3, <2>1 DEF StaysAcyclic
<1>17. CyclesAreKnown'
  <2>1. OnCycle(fst.start)' <=> OnCycle(fst.start)
    BY <1>1, <1>4 DEF OnCycle
  <2>2. \A a : Taken(a, fst.start)' <=> Taken(a, fst.start)
    BY <1>1 DEF Taken, Took, Arc
  <2> QED
    BY <1>1, <1>3, <1>4, <2>1, <2>2 DEF CyclesAreKnown, State
<1> QED
  BY <1>1, <1>2, <1>8, <1>9, <1>10, <1>12, <1>14, <1>15, <1>16, <1>17 DEF SccInv, PropsAreKnown

\* Between trees nothing is open.
LEMMA NothingIsOpen ==
  ASSUME FstsAssumption, SccInv, stack = <<>>
  PROVE  Grey = {} /\ onstack = {} /\ Closed = Met /\ \A s \in Met : s \in State /\ color[s] = "Black"
<1>1. Grey = {}
  BY FramesAreGrey DEF SccInv
<1>2. onstack = {}
  BY <1>1 DEF SccInv, OpenStatesWait
<1>3. \A s \in Met : s \in State /\ color[s] # "White" /\ color[s] # "Grey"
  BY <1>1 DEF Met, Grey
<1>4. \A s \in Met : color[s] = "Black"
  BY <1>3, SearchTypes DEF SccInv
<1> QED
  BY <1>1, <1>2, <1>3, <1>4 DEF Closed

\* The numbers that are handed out are those of the components, turned round.
LEMMA NumbersTurnRound ==
  ASSUME FstsAssumption, SccInv, at # "done", at' # "done" => UNCHANGED <<scc, nscc>>, at' = "done" => finish_visit,
         UNCHANGED <<color, onstack>>
  PROVE  ClosedAreNumbered' /\ \A s \in Closed : Number(s)' = Number(s)
<1>1. N \in Nat /\ None \notin Nat /\ None \notin State /\ IsFiniteSet(State) /\ Cardinality(State) = N
  BY SearchTypes DEF SccInv
<1>2. ClosedAreNumbered
  BY DEF SccInv
<1>3. Closed' = Closed /\ Closed \subseteq State /\ nscc' = nscc
  BY DEF Closed, Met, finish_visit, State
<1>4. CASE at' # "done"
  BY <1>2, <1>3, <1>4 DEF ClosedAreNumbered, Number, State
<1>5. CASE at' = "done"
  <2>1. scc' = [s \in State |-> IF scc[s] = None THEN None ELSE nscc - 1 - scc[s]]
    BY <1>5 DEF finish_visit
  <2>2. /\ nscc \in Nat /\ nscc <= Cardinality(Closed)
        /\ \A s \in State \ Closed : scc[s] = None
        /\ \A s \in Closed : scc[s] \in 0 .. nscc - 1
    BY <1>2 DEF ClosedAreNumbered
  <2>3. Cardinality(Closed) <= N
    BY <1>1, <1>3, FS_Subset
  <2>4. Cardinality(Closed) \in Nat
    BY <1>1, <1>3, FS_Subset, FS_CardinalityType
  <2>5. nscc <= N
    BY <1>1, <2>2, <2>3, <2>4
  <2>6. \A s \in State \ Closed : scc'[s] = None
    BY <2>1, <2>2
  <2>7. ASSUME NEW s \in Closed
        PROVE  scc'[s] \in 0 .. nscc - 1 /\ (nscc - 1) - scc'[s] = scc[s] /\ scc'[s] \in State
    <3>1. scc[s] \in 0 .. nscc - 1 /\ s \in State
      BY <1>3, <2>2
    <3>2. scc[s] # None
      BY <1>1, <2>2, <3>1
    <3>3. scc'[s] = nscc - 1 - scc[s]
      BY <2>1, <3>1, <3>2
    <3> QED
      BY <1>1, <2>2, <2>5, <3>1, <3>3 DEF State
  <2>8. scc' \in [State -> State \cup {None}]
    <3>1. \A s \in State : scc'[s] \in State \cup {None}
      BY <2>6, <2>7
    <3> QED
      BY <2>1, <3>1
  <2>9. ClosedAreNumbered'
    BY <1>3, <2>2, <2>6, <2>7, <2>8 DEF ClosedAreNumbered, State
  <2>10. \A s \in Closed : Number(s)' = Number(s)
    BY <1>3, <1>5, <2>7 DEF Number
  <2> QED
    BY <2>9, <2>10
<1> QED
  BY <1>4, <1>5

\* A tree that is done: what the first root leads to has been met.
LEMMA ClosingTreeKeepsScc ==
  ASSUME FstsAssumption, SccInv, CloseTree, IF at' = "done" THEN finish_visit ELSE UNCHANGED sccs
  PROVE  SccInv'
<1>1. SearchInv /\ N \in Nat \ {0}
  BY SearchTypes DEF SccInv
<1>2. SearchInv'
  BY <1>1, ClosingKeeps
<1>3. /\ at = "tree" /\ at # "done" /\ stack = <<>> /\ root' = NextWhite(root)
      /\ fst' = fst /\ color' = color /\ stack' = stack /\ dfs' = dfs
  BY DEF CloseTree
<1>4. /\ dfnumber' = dfnumber /\ lowlink' = lowlink /\ onstack' = onstack /\ scc_stack' = scc_stack
      /\ count' = count /\ access' = access /\ coaccess' = coaccess /\ props' = props
      /\ at' # "done" => UNCHANGED <<scc, nscc>>
      /\ at' = "done" => finish_visit
  BY DEF finish_visit, sccs
<1>5. ClosedAreNumbered' /\ \A s \in Closed : Number(s)' = Number(s)
  BY <1>3, <1>4, NumbersTurnRound
<1>6. Grey = {} /\ \A s \in Met : s \in State /\ color[s] = "Black"
  BY <1>3, NothingIsOpen
<1>7. AccessIsKnown
  BY DEF SccInv
<1>8. Reach' = Reach /\ Reach \in [State -> SUBSET State] /\ \A s \in State : s \in Reach[s]
  BY <1>1, <1>3, CyclesStay, ReachBasics
<1>9. root \in State /\ color[root] # "White" /\ fst.start # None /\ fst.start \in State
  BY <1>1, <1>3, SearchTypes DEF SearchInv, RootsSweep
<1>10. fst.start \in Met
  BY <1>7, <1>8, <1>9 DEF AccessIsKnown, Met
<1>11. Met' = Met /\ Grey' = Grey
  BY <1>3 DEF Met, Grey, State
<1>12. root' # fst.start
  <2>1. color[fst.start] # "White" /\ fst.start \in Nat
    BY <1>1, <1>10, SearchTypes DEF Met
  <2>2. fst.start < nstates
    BY <1>1, <1>9, <2>1 DEF SearchInv, RootsSweep, SearchTypeOK
  <2>3. root' < nstates => color[root'] = "White"
    BY <1>1, <1>3, NextWhiteIsFirst DEF SearchInv, SearchTypeOK, SweepTypeOK
  <2> QED
    BY <2>1, <2>2, <2>3
<1>13. access \subseteq Met /\ access = Reach[fst.start]
  <2>1. CASE root = fst.start
    <3>1. access = Met /\ Met \subseteq Reach[fst.start]
      BY <1>7, <1>9, <2>1 DEF AccessIsKnown
    <3>2. \A s \in Met : \A u \in State : Arc(s, u) => u \in Met
      BY <1>1, <1>6 DEF SccInv, SearchInv, BlacksLeadOn, Met
    <3>3. Met \in SUBSET State
      BY DEF Met
    <3>4. Reach[fst.start] \subseteq Met
      BY <1>1, <1>10, <3>2, <3>3, ReachStaysInside
    <3> QED
      BY <3>1, <3>4
  <2>2. CASE root # fst.start
    BY <1>7, <2>2 DEF AccessIsKnown
  <2> QED
    BY <2>1, <2>2
<1>14. AccessIsKnown'
  BY <1>3, <1>4, <1>6, <1>8, <1>11, <1>12, <1>13 DEF AccessIsKnown
<1> QED
  BY <1>2, <1>3, <1>4, <1>5, <1>14, StandingKeepsScc

\* Every turn of the search for components keeps its invariant.
LEMMA SccInductive ==
  ASSUME FstsAssumption, SccInv, SccNext \/ UNCHANGED <<search, sccs>>
  PROVE  SccInv'
<1>1. SearchInv /\ N \in Nat
  BY SearchTypes DEF SccInv
<1>2. CASE OpenTree(TRUE) /\ init_state(root, root)
  <2>1. Meets(root) /\ root \in State
    BY <1>2, OpeningMeets DEF Meets
  <2> QED
    BY <1>1, <1>2, <2>1, OpeningKeeps, MeetingKeepsScc
<1>3. CASE TreeArc(TRUE) /\ init_state(Target, root)
  <2>1. Meets(Target) /\ Target \in State
    BY <1>3, DescendingMeets DEF Meets
  <2> QED
    BY <1>1, <1>3, <2>1, DescendingKeeps, MeetingKeepsScc
<1>4. CASE \/ BackArc(TRUE) /\ back_arc(Top.state, Target)
           \/ ForwardOrCrossArc(TRUE) /\ forward_or_cross_arc(Top.state, Target)
  <2>1. Passes(Top.state, Target)
    BY <1>4, PassingPasses
  <2>2. Top.state \in State /\ Target \in State
    BY <2>1 DEF Passes, Newest, Grey, Met
  <2>3. Turn
    BY <1>4 DEF Turn
  <2> QED
    BY <1>1, <2>1, <2>2, <2>3, TurningKeeps, PassingKeepsScc
<1>5. CASE FinishState /\ finish_state(Top.state, Top.parent)
  <2>1. Finishes(Top.state, Top.parent)
    BY <1>5, FinishingFinishes
  <2>2. Top.state \in State
    BY <2>1 DEF Finishes, Newest, Grey
  <2> QED
    BY <1>1, <1>5, <2>1, <2>2, FinishingKeeps, FinishingKeepsScc
<1>6. CASE CloseTree /\ IF at' = "done" THEN finish_visit ELSE UNCHANGED sccs
  BY <1>6, ClosingTreeKeepsScc
<1>7. CASE UNCHANGED <<search, sccs>>
  <2>1. SearchInv'
    BY <1>1, <1>7, TurningKeeps
  <2>2. /\ fst' = fst /\ color' = color /\ stack' = stack /\ dfs' = dfs /\ root' = root /\ at' = at
        /\ dfnumber' = dfnumber /\ lowlink' = lowlink /\ onstack' = onstack /\ scc_stack' = scc_stack
        /\ count' = count /\ access' = access /\ coaccess' = coaccess /\ props' = props /\ scc' = scc /\ nscc' = nscc
    BY <1>7 DEF search, sccs
  <2>3. Reach' = Reach /\ Met' = Met /\ Grey' = Grey /\ Closed' = Closed
    BY <2>2, CyclesStay DEF Met, Grey, Closed, State
  <2>4. ClosedAreNumbered' /\ AccessIsKnown' /\ \A s : Number(s)' = Number(s)
    BY <2>2, <2>3 DEF SccInv, ClosedAreNumbered, AccessIsKnown, Number, State
  <2> QED
    BY <2>1, <2>2, <2>4, StandingKeepsScc
<1> QED
  BY <1>2, <1>3, <1>4, <1>5, <1>6, <1>7 DEF SccNext

\* Nothing has been met before a search for components.
LEMMA SccStarts ==
  ASSUME FstsAssumption, SccInit
  PROVE  SccInv
<1>1. SearchInv /\ SearchInit /\ dfs = TRUE /\ N \in Nat /\ None \notin State
  BY SearchStarts DEF SccInit, SearchInit, FstsAssumption, State
<1>2. color = [s \in State |-> "White"] /\ stack = <<>> /\ root = fst.start
  BY <1>1 DEF SearchInit
<1>3. /\ dfnumber = [s \in State |-> N] /\ lowlink = [s \in State |-> N] /\ onstack = {} /\ scc_stack = <<>>
      /\ scc = [s \in State |-> None] /\ nscc = 0 /\ count = 0 /\ access = {} /\ coaccess = {}
      /\ props = {"ACYCLIC", "INITIAL_ACYCLIC", "ACCESSIBLE", "CO_ACCESSIBLE"}
  BY DEF SccInit, Infinity
<1>4. Met = {} /\ Grey = {} /\ Closed = {}
  BY <1>2, <1>3 DEF Met, Grey, Closed
<1>5. \A a \in State : \A b : ~Taken(a, b)
  BY <1>2 DEF Taken
<1>6. Cardinality({}) = 0
  BY FS_EmptySet
<1>7. FramesAreOrdered /\ StatesAreNumbered /\ OpenStatesWait
  BY <1>1, <1>2, <1>3, <1>4, <1>6 DEF FramesAreOrdered, StatesAreNumbered, OpenStatesWait
<1>8. OpenStatesAreStacked
  BY <1>3 DEF OpenStatesAreStacked, SccStackIsOrdered
<1>9. GreyStatesLeadOn /\ TakenArcsLeadBack /\ LinksAreKnown /\ LinksAreLow
  BY <1>3, <1>4, <1>5 DEF GreyStatesLeadOn, TakenArcsLeadBack, LinksAreKnown, LinksAreLow
<1>10. ClosedAreNumbered /\ ClosedAreComponents
  BY <1>3, <1>4, <1>6 DEF ClosedAreNumbered, ClosedAreComponents
<1>11. AccessIsKnown /\ CoaccessIsKnown
  BY <1>2, <1>3, <1>4 DEF AccessIsKnown, CoaccessIsKnown
<1>12. AnswersDiffer /\ CyclesAreKnown /\ ConnectionIsKnown
  BY <1>3, <1>4 DEF AnswersDiffer, CyclesAreKnown, ConnectionIsKnown
<1>13. StaysAcyclic
  BY <1>3, <1>4, <1>5 DEF StaysAcyclic
<1> QED
  BY <1>1, <1>7, <1>8, <1>9, <1>10, <1>11, <1>12, <1>13 DEF SccInv, PropsAreKnown

\* In a search that is over every component is closed.
LEMMA EverythingIsClosed ==
  ASSUME FstsAssumption, SccInv, Searched
  PROVE  /\ N \in Nat \ {0} /\ fst.start \in State /\ Reach \in [State -> SUBSET State]
         /\ \A s \in State : s \in Reach[s] /\ color[s] = "Black"
         /\ Met = State /\ Closed = State /\ access = Reach[fst.start]
         /\ \A s, t \in State : Taken(s, t) <=> Arc(s, t)
<1>1. SearchInv /\ N \in Nat \ {0} /\ fst.start \in State /\ at = "done" /\ dfs
  BY SearchTypes DEF SccInv, Searched
<1>2. Reach \in [State -> SUBSET State] /\ \A s \in State : s \in Reach[s]
  BY <1>1, ReachBasics
<1>3. \A s \in State : color[s] = "Black"
  BY <1>1, AllAreFinished, SearchTypes
<1>4. stack = <<>>
  BY <1>1 DEF SearchInv, RootsSweep
<1>5. Met = State /\ Closed = State
  BY <1>3, <1>4, NothingIsOpen DEF Met
<1>6. access = Reach[fst.start]
  <2>1. CASE root = fst.start
    <3>1. access = Met /\ Met \subseteq Reach[fst.start]
      BY <1>1, <2>1, SearchTypes DEF SccInv, AccessIsKnown
    <3> QED
      BY <1>1, <1>2, <1>5, <3>1
  <2>2. CASE root # fst.start
    BY <2>2 DEF SccInv, AccessIsKnown
  <2> QED
    BY <2>1, <2>2
<1>7. \A s, t \in State : Taken(s, t) <=> Arc(s, t)
  BY <1>1, <1>3, TakenIsMet DEF Taken
<1> QED
  BY <1>1, <1>2, <1>3, <1>5, <1>6, <1>7

\* What the invariant says of a search that goes on.
LEMMA SccSearchIsRight ==
  ASSUME FstsAssumption, SccInv
  PROVE  SccTypeOK /\ OpenStatesReachTheStack /\ SccStackIsOrdered
<1>1. /\ SearchInv /\ N \in Nat \ {0} /\ None \notin State /\ IsFiniteSet(State) /\ Cardinality(State) = N
      /\ color \in [State -> {"White", "Grey", "Black"}]
  BY SearchTypes DEF SccInv
<1>2. StatesAreNumbered /\ OpenStatesWait /\ OpenStatesAreStacked /\ ClosedAreNumbered /\ ClosedAreComponents
  BY DEF SccInv
<1>3. Met \subseteq State /\ Closed \subseteq Met
  BY DEF Met, Closed
<1>4. Cardinality(Met) <= N /\ Cardinality(Closed) <= N /\ Cardinality(Met) \in Nat /\ Cardinality(Closed) \in Nat
  <2>1. Closed \subseteq State
    BY <1>3
  <2> QED
    BY <1>1, <1>3, <2>1, FS_Subset, FS_CardinalityType
<1>5. SccTypeOK
  BY <1>1, <1>2, <1>4 DEF SccTypeOK, SearchInv, SearchTypeOK, StatesAreNumbered, ClosedAreNumbered
<1>6. OpenStatesReachTheStack
  <2>1. Reach \in [State -> SUBSET State]
    BY <1>1, ReachBasics
  <2>2. ASSUME NEW s \in State, color[s] = "Black", s \notin onstack PROVE Reach[s] \cap onstack = {}
    <3>1. s \in Closed /\ Closed \in SUBSET State
      BY <1>3, <2>2 DEF Closed, Met
    <3>2. Reach[s] \subseteq Closed
      BY <1>1, <1>2, <3>1, ReachStaysInside DEF ClosedAreComponents
    <3> QED
      BY <3>2 DEF Closed
  <2>3. ASSUME NEW s \in State, s \in onstack
        PROVE  \E g \in Reach[s] : color[g] = "Grey" /\ dfnumber[g] <= dfnumber[s]
    BY <1>2, <2>3 DEF OpenStatesWait, Grey
  <2> QED
    BY <2>2, <2>3 DEF OpenStatesReachTheStack
<1> QED
  BY <1>2, <1>5, <1>6 DEF OpenStatesAreStacked

\* What it says of the components found.
LEMMA FoundComponentsAreRight ==
  ASSUME FstsAssumption, SccInv
  PROVE  ComponentsAreRight
<1> SUFFICES ASSUME Searched, NEW s \in State, NEW t \in State
             PROVE  /\ scc[s] = scc[t] <=> t \in Reach[s] /\ s \in Reach[t]
                    /\ Arc(s, t) => scc[s] <= scc[t]
  BY DEF ComponentsAreRight
<1>1. Closed = State
  BY EverythingIsClosed
<1>2. /\ Arc(s, t) => Number(t) <= Number(s)
      /\ Number(s) = Number(t) <=> t \in Reach[s] /\ s \in Reach[t]
  BY <1>1 DEF SccInv, ClosedAreComponents
<1>3. nscc \in Nat /\ scc[s] \in 0 .. nscc - 1 /\ scc[t] \in 0 .. nscc - 1
  BY <1>1 DEF SccInv, ClosedAreNumbered
<1>4. Number(s) = (nscc - 1) - scc[s] /\ Number(t) = (nscc - 1) - scc[t]
  BY DEF Number, Searched
<1>5. (Number(s) = Number(t) <=> scc[s] = scc[t]) /\ (Number(t) <= Number(s) <=> scc[s] <= scc[t])
  BY <1>3, <1>4
<1> QED
  BY <1>2, <1>5

\* What it says of the states connect keeps.
LEMMA KeptStatesAreRight ==
  ASSUME FstsAssumption, SccInv
  PROVE  ConnectKeepsSuccessfulPaths
<1> SUFFICES ASSUME Searched
             PROVE  /\ access = Reach[fst.start]
                    /\ coaccess = {s \in State : Reach[s] \cap fst.final # {}}
                    /\ connect = Reach[fst.start] \cap coaccess
  BY DEF ConnectKeepsSuccessfulPaths
<1>1. Closed = State /\ Met = State /\ access = Reach[fst.start] /\ Reach[fst.start] \subseteq State
  BY EverythingIsClosed
<1>2. coaccess = {s \in State : Reach[s] \cap fst.final # {}}
  BY <1>1 DEF SccInv, CoaccessIsKnown, Ends
<1>3. connect = Reach[fst.start] \cap coaccess
  BY <1>1, <1>2 DEF connect
<1> QED
  BY <1>1, <1>2, <1>3

\* A start state no arc was taken back to is on no cycle.
LEMMA StartIsOnNoCycle ==
  ASSUME FstsAssumption, SccInv, Searched, "INITIAL_ACYCLIC" \in props
  PROVE  ~OnCycle(fst.start)
<1>1. /\ N \in Nat /\ fst.start \in State /\ Reach \in [State -> SUBSET State]
      /\ \A s \in State : s \in Reach[s]
      /\ access = Reach[fst.start] /\ fst.start # None
      /\ \A s, t \in State : Taken(s, t) <=> Arc(s, t)
  BY EverythingIsClosed DEF Searched
<1>2. \A s \in Reach[fst.start] : ~Arc(s, fst.start)
  BY <1>1 DEF SccInv, PropsAreKnown, CyclesAreKnown
<1> SUFFICES ASSUME NEW t \in State, Arc(fst.start, t), fst.start \in Reach[t] PROVE FALSE
  BY DEF OnCycle
<1> DEFINE S == Reach[fst.start] \ {fst.start}
<1>3. S \in SUBSET State
  BY <1>1
<1>4. t \in S
  <2>1. t \in Reach[fst.start]
    BY <1>1, ReachExtends
  <2>2. t # fst.start
    BY <1>1, <1>2
  <2> QED
    BY <2>1, <2>2
<1>5. ASSUME NEW a \in S, NEW b \in State, Arc(a, b) PROVE b \in S
  <2>1. a \in State /\ a \in Reach[fst.start]
    BY <1>3
  <2>2. b \in Reach[a]
    BY <1>1, <1>5, <2>1, ReachExtends
  <2>3. b \in Reach[fst.start]
    BY <1>1, <2>1, <2>2, ReachJoins
  <2>4. b # fst.start
    BY <1>2, <1>5, <2>1
  <2> QED
    BY <2>3, <2>4
<1>6. Reach[t] \subseteq S
  <2> HIDE DEF S
  <2> QED
    BY <1>1, <1>3, <1>4, <1>5, ReachStaysInside
<1> QED
  BY <1>6

\* What it says of the property bits.
LEMMA FoundPropsAreTrue ==
  ASSUME FstsAssumption, SccInv
  PROVE  SccPropsAreTrue
<1> SUFFICES ASSUME Searched
             PROVE  /\ "CYCLIC" \in props <=> \E s \in State : OnCycle(s)
                    /\ "ACYCLIC" \in props <=> \A s \in State : ~OnCycle(s)
                    /\ "INITIAL_CYCLIC" \in props <=> OnCycle(fst.start)
                    /\ "INITIAL_ACYCLIC" \in props <=> ~OnCycle(fst.start)
                    /\ "ACCESSIBLE" \in props <=> Reach[fst.start] = State
                    /\ "NOT_ACCESSIBLE" \in props <=> Reach[fst.start] # State
                    /\ "CO_ACCESSIBLE" \in props <=> \A s \in State : Reach[s] \cap fst.final # {}
                    /\ "NOT_CO_ACCESSIBLE" \in props <=> \E s \in State : Reach[s] \cap fst.final = {}
  BY DEF SccPropsAreTrue
<1>1. /\ N \in Nat /\ fst.start \in State /\ Reach \in [State -> SUBSET State]
      /\ \A s \in State : s \in Reach[s]
      /\ Met = State /\ Closed = State /\ access = Reach[fst.start]
  BY EverythingIsClosed
<1>2. AnswersDiffer /\ StaysAcyclic /\ CyclesAreKnown /\ ConnectionIsKnown
  BY DEF SccInv, PropsAreKnown
<1>3. ASSUME "ACYCLIC" \in props, NEW s \in State PROVE ~OnCycle(s)
  <2> SUFFICES ASSUME NEW t \in State, Arc(s, t), s \in Reach[t] PROVE FALSE
    BY DEF OnCycle
  <2>1. t \in Reach[s]
    BY <1>1, ReachExtends
  <2>2. Number(s) = Number(t)
    BY <1>1, <2>1 DEF SccInv, ClosedAreComponents
  <2>3. Number(t) # Number(s)
    BY <1>1, <1>2, <1>3 DEF StaysAcyclic
  <2> QED
    BY <2>2, <2>3
<1>4. /\ "CYCLIC" \in props <=> \E s \in State : OnCycle(s)
      /\ "ACYCLIC" \in props <=> \A s \in State : ~OnCycle(s)
  BY <1>2, <1>3 DEF AnswersDiffer, CyclesAreKnown
<1>5. /\ "INITIAL_CYCLIC" \in props <=> OnCycle(fst.start)
      /\ "INITIAL_ACYCLIC" \in props <=> ~OnCycle(fst.start)
  BY <1>2, StartIsOnNoCycle DEF AnswersDiffer, CyclesAreKnown
<1>6. /\ "ACCESSIBLE" \in props <=> Reach[fst.start] = State
      /\ "NOT_ACCESSIBLE" \in props <=> Reach[fst.start] # State
  BY <1>1, <1>2 DEF AnswersDiffer, ConnectionIsKnown
<1>7. State \subseteq coaccess <=> \A s \in State : Reach[s] \cap fst.final # {}
  BY <1>1 DEF SccInv, CoaccessIsKnown, Ends
<1>8. /\ "CO_ACCESSIBLE" \in props <=> \A s \in State : Reach[s] \cap fst.final # {}
      /\ "NOT_CO_ACCESSIBLE" \in props <=> \E s \in State : Reach[s] \cap fst.final = {}
  BY <1>1, <1>2, <1>7 DEF AnswersDiffer, ConnectionIsKnown
<1> QED
  BY <1>4, <1>5, <1>6, <1>8

-----------------------------------------------------------------------------
(***************************************************************************)
(* Connected components                                                    *)
(***************************************************************************)

\* Arcs taken either way, and the paths they make.
Links == {p \in State \X State : Arc(p[1], p[2]) \/ Arc(p[2], p[1])}

LEMMA JoinedIsByLinks ==
  ASSUME N \in Nat
  PROVE  Leads(Links, Joined) /\ \A s, u \in State : <<s, u>> \in Links <=> Arc(s, u) \/ Arc(u, s)
<1>1. \A s, u \in State : <<s, u>> \in Links <=> Arc(s, u) \/ Arc(u, s)
  BY DEF Links
<1> DEFINE Further(u, s) == u[s] \cup UNION {u[t] : t \in {v \in State : Arc(s, v) \/ Arc(v, s)}}
           Within(u) == u = [k \in 0 .. N |-> IF k = 0 THEN [s \in State |-> {s}]
                                              ELSE [s \in State |-> Further(u[k - 1], s)]]
<1>2. Joined = (CHOOSE u : Within(u))[N]
  BY DEF Joined
<1>3. \A u : Lengthened(Links, u) = [s \in State |-> Further(u, s)]
  <2> SUFFICES ASSUME NEW u, NEW s \in State
               PROVE  u[s] \cup UNION {u[t] : t \in {v \in State : <<s, v>> \in Links}} = Further(u, s)
    BY DEF Lengthened
  <2>1. {v \in State : <<s, v>> \in Links} = {v \in State : Arc(s, v) \/ Arc(v, s)}
    BY <1>1
  <2> QED
    BY <2>1
<1> HIDE DEF Further
<1>4. ASSUME NEW u PROVE Within(u) <=> Unrolled(Links, N, u)
  <2> DEFINE first == [s \in State |-> {s}]
             other(k) == [s \in State |-> Further(u[k - 1], s)]
  <2>1. \A k : other(k) = Lengthened(Links, u[k - 1])
    BY <1>3
  <2> HIDE DEF first, other
  <2>2. [k \in 0 .. N |-> IF k = 0 THEN first ELSE other(k)]
          = [k \in 0 .. N |-> IF k = 0 THEN first ELSE Lengthened(Links, u[k - 1])]
    BY <2>1
  <2> QED
    BY <2>2 DEF Unrolled, first, other
<1> HIDE DEF Within
<1>5. PICK u : Unrolled(Links, N, u)
  BY RoundsAreMade
<1>6. Within(CHOOSE v : Within(v))
  BY <1>4, <1>5
<1>7. Unrolled(Links, N, CHOOSE v : Within(v))
  BY <1>4, <1>6
<1> QED
  BY <1>1, <1>2, <1>7, UnrolledAreRounds DEF Leads

\* Being joined is an equivalence, and an arc joins its ends.
LEMMA JoinedIsEquivalence ==
  ASSUME N \in Nat
  PROVE  /\ Joined \in [State -> SUBSET State]
         /\ \A s \in State : s \in Joined[s]
         /\ \A s, t \in State : t \in Joined[s] => s \in Joined[t]
         /\ \A s, t, u \in State : t \in Joined[s] /\ u \in Joined[t] => u \in Joined[s]
         /\ \A s, t \in State : Arc(s, t) => t \in Joined[s]
<1>1. /\ Leads(Links, Joined)
      /\ \A s, u \in State : <<s, u>> \in Links <=> Arc(s, u) \/ Arc(u, s)
  BY JoinedIsByLinks
<1>2. Joined \in [State -> SUBSET State] /\ \A s \in State : s \in Joined[s]
  BY <1>1, PathsAreThere
<1>3. ASSUME NEW s \in State, NEW t \in State, t \in Joined[s] PROVE s \in Joined[t]
  <2> DEFINE S == {x \in State : s \in Joined[x]}
  <2>1. \A x \in S : \A u \in State : <<x, u>> \in Links => u \in S
    <3> SUFFICES ASSUME NEW x \in S, NEW u \in State, <<x, u>> \in Links PROVE s \in Joined[u]
      OBVIOUS
    <3>1. <<u, x>> \in Links
      BY <1>1
    <3> QED
      BY <1>1, <3>1, PathsExtend
  <2>2. s \in S /\ S \in SUBSET State
    BY <1>2
  <2>3. Joined[s] \subseteq S
    <3> HIDE DEF S
    <3> QED
      BY <1>1, <2>1, <2>2, PathsStayInside
  <2> QED
    BY <1>3, <2>3
<1>4. \A s, t, u \in State : t \in Joined[s] /\ u \in Joined[t] => u \in Joined[s]
  BY <1>1, PathsJoin
<1>5. ASSUME NEW s \in State, NEW t \in State, Arc(s, t) PROVE t \in Joined[s]
  BY <1>1, <1>2, <1>5, PathsExtend
<1> QED
  BY <1>2, <1>3, <1>4, <1>5

-----------------------------------------------------------------------------
\* The elements of a forest given by their parents, and those in a set.
Elements(up) == 0 .. Len(up) - 1
InSets(up) == {y \in Elements(up) : up[y + 1] # None}

\* Parents are in sets themselves, and no elements are each other's only parents:
\* on the way up from any of them there is one that is its own.
IsForest(up) ==
  /\ up \in Seq(State \cup {None}) /\ InSets(up) \subseteq State
  /\ \A y \in InSets(up) : up[y + 1] \in InSets(up)
  /\ \A S \in SUBSET InSets(up) : S # {} => \E y \in S : up[y + 1] = y \/ up[y + 1] \notin S

\* What find_set answers and where it passes, as functions of the parents.
Rooting(up, f) ==
  f = [y \in 0 .. Len(up) - 1 |-> IF up[y + 1] \in {y, None} THEN up[y + 1] ELSE f[up[y + 1]]]
Climbing(up, g) ==
  g = [y \in 0 .. Len(up) - 1 |-> {y} \cup IF up[y + 1] \in {y, None} THEN {} ELSE g[up[y + 1]]]

\* The elements no way up from y leaves out.
WayUp(up, y) ==
  {z \in Elements(up) : \A S \in SUBSET Elements(up) :
     y \in S /\ (\A x \in S : up[x + 1] # None => up[x + 1] \in S) => z \in S}

LEMMA WaysGoUp ==
  ASSUME NEW up, IsForest(up), NEW y \in Elements(up)
  PROVE  WayUp(up, y) = {y} \cup IF up[y + 1] \in {y, None} THEN {} ELSE WayUp(up, up[y + 1])
<1> DEFINE Closes(S) == \A x \in S : up[x + 1] # None => up[x + 1] \in S
           E == Elements(up)
           p == up[y + 1]
<1>1. p # None => p \in E
  BY DEF IsForest, InSets
<1>2. WayUp(up, y) = {z \in E : \A S \in SUBSET E : y \in S /\ Closes(S) => z \in S}
  BY DEF WayUp
<1>3. p \in E => WayUp(up, p) = {z \in E : \A S \in SUBSET E : p \in S /\ Closes(S) => z \in S}
  BY DEF WayUp
<1>4. y \in WayUp(up, y)
  BY <1>2
<1>5. CASE p \in {y, None}
  <2>1. Closes({y}) /\ {y} \in SUBSET E
    BY <1>5
  <2>2. WayUp(up, y) \subseteq {y}
    BY <1>2, <2>1
  <2> QED
    BY <1>4, <1>5, <2>2
<1>6. CASE p \notin {y, None}
  <2>1. p \in E
    BY <1>1, <1>6
  <2> DEFINE A == {y} \cup WayUp(up, p)
  <2>2. A \in SUBSET E
    BY <1>3, <2>1
  <2>3. p \in WayUp(up, p)
    BY <1>3, <2>1
  <2>4. ASSUME NEW x \in WayUp(up, p), up[x + 1] # None PROVE up[x + 1] \in WayUp(up, p)
    <3>1. x \in E /\ \A S \in SUBSET E : p \in S /\ Closes(S) => x \in S
      BY <1>3, <2>1
    <3>2. up[x + 1] \in E
      BY <2>4, <3>1 DEF IsForest, InSets
    <3>3. \A S \in SUBSET E : p \in S /\ Closes(S) => up[x + 1] \in S
      BY <2>4, <3>1
    <3> QED
      BY <1>3, <2>1, <3>2, <3>3
  <2>5. Closes(A)
    BY <2>3, <2>4
  <2>6. WayUp(up, y) \subseteq A
    <3> HIDE DEF A, Closes
    <3>1. y \in A
      BY DEF A
    <3> QED
      BY <1>2, <2>2, <2>5, <3>1
  <2>7. ASSUME NEW z \in WayUp(up, p) PROVE z \in WayUp(up, y)
    <3>1. z \in E /\ \A S \in SUBSET E : p \in S /\ Closes(S) => z \in S
      BY <1>3, <2>1
    <3>2. \A S \in SUBSET E : y \in S /\ Closes(S) => p \in S
      BY <1>6
    <3> HIDE DEF Closes
    <3> QED
      BY <1>2, <3>1, <3>2
  <2> QED
    BY <1>4, <1>6, <2>6, <2>7
<1> QED
  BY <1>5, <1>6

\* Each element of a set has a root on its way.
LEMMA SetsHaveRoots ==
  ASSUME NEW up, IsForest(up)
  PROVE  \E f : Rooting(up, f)
<1> DEFINE Roots(y) == {r \in WayUp(up, y) : up[r + 1] = r}
           f == [y \in 0 .. Len(up) - 1 |-> IF up[y + 1] = None THEN None ELSE CHOOSE r : r \in Roots(y)]
<1>1. ASSUME NEW y \in Elements(up)
      PROVE  f[y] = IF up[y + 1] \in {y, None} THEN up[y + 1] ELSE f[up[y + 1]]
  <2>1. WayUp(up, y) = {y} \cup IF up[y + 1] \in {y, None} THEN {} ELSE WayUp(up, up[y + 1])
    BY WaysGoUp
  <2>2. y \in 0 .. Len(up) - 1
    BY DEF Elements
  <2>3. CASE up[y + 1] = None
    BY <2>2, <2>3
  <2>4. CASE up[y + 1] = y /\ up[y + 1] # None
    <3>1. Roots(y) = {y}
      BY <2>1, <2>4
    <3>2. f[y] = CHOOSE r : r \in {y}
      BY <2>2, <2>4, <3>1
    <3> QED
      BY <2>4, <3>2
  <2>5. CASE up[y + 1] \notin {y, None}
    <3>1. Roots(y) = Roots(up[y + 1])
      BY <2>1, <2>5
    <3>2. y \in InSets(up)
      BY <2>5 DEF InSets
    <3>3. up[y + 1] \in 0 .. Len(up) - 1 /\ up[up[y + 1] + 1] # None
      BY <3>2 DEF IsForest, InSets, Elements
    <3> HIDE DEF Roots
    <3>4. f[y] = CHOOSE r : r \in Roots(y)
      BY <2>2, <2>5
    <3>5. f[up[y + 1]] = CHOOSE r : r \in Roots(up[y + 1])
      BY <3>3
    <3> QED
      BY <2>5, <3>1, <3>4, <3>5
  <2> QED
    BY <2>3, <2>4, <2>5
<1> HIDE DEF f
<1>2. f = [y \in 0 .. Len(up) - 1 |-> f[y]]
  BY DEF f
<1>3. Rooting(up, f)
  BY <1>1, <1>2 DEF Rooting, Elements
<1> QED
  BY <1>3

LEMMA SetsHaveWays ==
  ASSUME NEW up, IsForest(up)
  PROVE  \E g : Climbing(up, g)
<1> DEFINE g == [y \in 0 .. Len(up) - 1 |-> WayUp(up, y)]
<1>1. ASSUME NEW y \in Elements(up)
      PROVE  g[y] = {y} \cup IF up[y + 1] \in {y, None} THEN {} ELSE g[up[y + 1]]
  <2>1. WayUp(up, y) = {y} \cup IF up[y + 1] \in {y, None} THEN {} ELSE WayUp(up, up[y + 1])
    BY WaysGoUp
  <2>2. up[y + 1] # None => up[y + 1] \in 0 .. Len(up) - 1
    BY DEF IsForest, InSets, Elements
  <2>3. y \in 0 .. Len(up) - 1
    BY DEF Elements
  <2> QED
    BY <2>1, <2>2, <2>3
<1> HIDE DEF g
<1>2. g = [y \in 0 .. Len(up) - 1 |-> g[y]]
  BY DEF g
<1>3. Climbing(up, g)
  BY <1>1, <1>2 DEF Climbing, Elements
<1> QED
  BY <1>3

\* find_set answers the root of a set.
LEMMA RootsAreRoots ==
  ASSUME NEW up, IsForest(up), NEW f, Rooting(up, f)
  PROVE  \A y \in InSets(up) : f[y] \in InSets(up) /\ up[f[y] + 1] = f[y]
<1>1. \A y \in InSets(up) : f[y] = IF up[y + 1] \in {y, None} THEN up[y + 1] ELSE f[up[y + 1]]
  BY DEF Rooting, InSets, Elements
<1> DEFINE Right(y) == f[y] \in InSets(up) /\ up[f[y] + 1] = f[y]
           S == {y \in InSets(up) : ~Right(y)}
<1> SUFFICES ASSUME S # {} PROVE FALSE
  OBVIOUS
<1>2. PICK y \in S : up[y + 1] = y \/ up[y + 1] \notin S
  BY DEF IsForest
<1>3. y \in InSets(up) /\ up[y + 1] \in InSets(up) /\ up[y + 1] # None
  BY DEF IsForest, InSets
<1>4. CASE up[y + 1] = y
  BY <1>1, <1>3, <1>4
<1>5. CASE up[y + 1] # y
  <2>1. f[y] = f[up[y + 1]]
    BY <1>1, <1>3, <1>5
  <2>2. Right(up[y + 1])
    BY <1>2, <1>3, <1>5
  <2>3. Right(y)
    BY <2>1, <2>2
  <2> QED
    BY <2>3
<1> QED
  BY <1>4, <1>5

\* Where parents are joined to their children, roots are to the whole set.
LEMMA RootsAreJoined ==
  ASSUME N \in Nat, NEW up, IsForest(up), NEW f, Rooting(up, f), \A y \in InSets(up) : up[y + 1] \in Joined[y]
  PROVE  \A y \in InSets(up) : f[y] \in Joined[y]
<1>1. \A y \in InSets(up) : f[y] = IF up[y + 1] \in {y, None} THEN up[y + 1] ELSE f[up[y + 1]]
  BY DEF Rooting, InSets, Elements
<1>2. \A y \in InSets(up) : f[y] \in InSets(up)
  BY RootsAreRoots
<1>3. InSets(up) \subseteq State /\ \A y \in InSets(up) : up[y + 1] \in InSets(up) /\ up[y + 1] # None
  BY DEF IsForest, InSets
<1> DEFINE S == {y \in InSets(up) : f[y] \notin Joined[y]}
<1> SUFFICES ASSUME S # {} PROVE FALSE
  OBVIOUS
<1>4. PICK y \in S : up[y + 1] = y \/ up[y + 1] \notin S
  BY DEF IsForest
<1>5. up[y + 1] \in Joined[y] /\ y \in State /\ up[y + 1] \in State /\ f[y] \in State
  BY <1>2, <1>3
<1>6. CASE up[y + 1] = y
  BY <1>1, <1>5, <1>6
<1>7. CASE up[y + 1] # y
  <2>1. f[y] = f[up[y + 1]]
    BY <1>1, <1>3, <1>7
  <2>2. f[up[y + 1]] \in Joined[up[y + 1]]
    BY <1>3, <1>4, <1>7
  <2>3. f[y] \in Joined[y]
    BY <1>5, <2>1, <2>2, JoinedIsEquivalence
  <2> QED
    BY <2>3
<1> QED
  BY <1>6, <1>7

\* The way up from an element stays in its set.
LEMMA WaysStayInSets ==
  ASSUME NEW up, IsForest(up), NEW f, Rooting(up, f), NEW g, Climbing(up, g)
  PROVE  \A y \in InSets(up) : \A z \in g[y] : z \in InSets(up) /\ f[z] = f[y]
<1>1. \A y \in InSets(up) : f[y] = IF up[y + 1] \in {y, None} THEN up[y + 1] ELSE f[up[y + 1]]
  BY DEF Rooting, InSets, Elements
<1>2. \A y \in InSets(up) : g[y] = {y} \cup IF up[y + 1] \in {y, None} THEN {} ELSE g[up[y + 1]]
  BY DEF Climbing, InSets, Elements
<1> DEFINE Right(y) == \A z \in g[y] : z \in InSets(up) /\ f[z] = f[y]
           S == {y \in InSets(up) : ~Right(y)}
<1> SUFFICES ASSUME S # {} PROVE FALSE
  OBVIOUS
<1>3. PICK y \in S : up[y + 1] = y \/ up[y + 1] \notin S
  BY DEF IsForest
<1>4. y \in InSets(up) /\ up[y + 1] \in InSets(up) /\ up[y + 1] # None
  BY DEF IsForest, InSets
<1>5. CASE up[y + 1] = y
  <2>1. g[y] = {y}
    BY <1>2, <1>4, <1>5
  <2> QED
    BY <1>4, <2>1
<1>6. CASE up[y + 1] # y
  <2>1. f[y] = f[up[y + 1]] /\ g[y] = {y} \cup g[up[y + 1]]
    BY <1>1, <1>2, <1>4, <1>6
  <2>2. Right(up[y + 1])
    BY <1>3, <1>4, <1>6
  <2>3. Right(y)
    BY <1>4, <2>1, <2>2
  <2> QED
    BY <2>3
<1> QED
  BY <1>5, <1>6

\* Elements of sets are hung under a root: a forest stays one.
Hung(up, W, r) == [i \in 1 .. Len(up) |-> IF i - 1 \in W THEN r ELSE up[i]]

LEMMA HangingKeeps ==
  ASSUME NEW up, IsForest(up), NEW r \in InSets(up), up[r + 1] = r,
         NEW W \in SUBSET InSets(up)
  PROVE  /\ IsForest(Hung(up, W, r)) /\ InSets(Hung(up, W, r)) = InSets(up) /\ Len(Hung(up, W, r)) = Len(up)
         /\ \A y \in InSets(up) : Hung(up, W, r)[y + 1] = IF y \in W THEN r ELSE up[y + 1]
<1> DEFINE new == Hung(up, W, r)
<1> USE DEF Hung
<1>1. up \in Seq(State \cup {None}) /\ InSets(up) \subseteq State /\ Len(up) \in Nat
  BY DEF IsForest
<1>2. r \in State /\ r # None
  BY <1>1 DEF InSets
<1>3. new \in Seq(State \cup {None}) /\ Len(new) = Len(up)
  <2>1. \A i \in 1 .. Len(up) : up[i] \in State \cup {None}
    BY <1>1
  <2>2. new \in [1 .. Len(up) -> State \cup {None}]
    BY <1>2, <2>1
  <2> QED
    BY <1>1, <2>2
<1>4. ASSUME NEW y \in Elements(up) PROVE new[y + 1] = IF y \in W THEN r ELSE up[y + 1]
  <2>1. y + 1 \in 1 .. Len(up) /\ (y + 1) - 1 = y
    BY <1>1 DEF Elements
  <2> QED
    BY <2>1
<1>5. InSets(up) \subseteq Elements(up) /\ Elements(new) = Elements(up)
  BY <1>3 DEF InSets, Elements
<1>6. InSets(new) = InSets(up)
  <2>1. ASSUME NEW y \in Elements(up) PROVE new[y + 1] # None <=> up[y + 1] # None
    <3>1. CASE y \in W
      BY <1>2, <1>4, <3>1 DEF InSets
    <3>2. CASE y \notin W
      BY <1>4, <3>2
    <3> QED
      BY <3>1, <3>2
  <2> QED
    BY <1>5, <2>1 DEF InSets
<1>7. \A y \in InSets(up) : new[y + 1] = IF y \in W THEN r ELSE up[y + 1]
  BY <1>4, <1>5
<1>8. \A y \in InSets(up) : new[y + 1] \in InSets(up)
  BY <1>7 DEF IsForest
<1>9. ASSUME NEW S \in SUBSET InSets(up), S # {} PROVE \E y \in S : new[y + 1] = y \/ new[y + 1] \notin S
  <2>1. CASE r \in S
    BY <1>7, <2>1
  <2>2. CASE r \notin S /\ S \cap W # {}
    BY <1>7, <2>2
  <2>3. CASE S \cap W = {}
    <3>1. PICK y \in S : up[y + 1] = y \/ up[y + 1] \notin S
      BY <1>9 DEF IsForest
    <3> QED
      BY <1>7, <2>3, <3>1
  <2> QED
    BY <2>1, <2>2, <2>3
<1>10. IsForest(new)
  BY <1>1, <1>3, <1>6, <1>8, <1>9 DEF IsForest
<1> QED
  BY <1>3, <1>6, <1>7, <1>10

\* The parent of each element is one that arcs join it to.
IsJoined(up) == \A y \in InSets(up) : up[y + 1] \in Joined[y]

\* What find_set answers of an element in a set.
LEMMA FindSetFinds ==
  ASSUME N \in Nat, NEW uf, IsForest(uf.parent), IsJoined(uf.parent), NEW x \in InSets(uf.parent)
  PROVE  /\ find_set(uf, x) \in InSets(uf.parent) /\ uf.parent[find_set(uf, x) + 1] = find_set(uf, x)
         /\ find_set(uf, x) \in Joined[x]
<1> DEFINE up == uf.parent
           f == CHOOSE u : Rooting(up, u)
<1>1. find_set(uf, x) = f[x]
  BY DEF find_set, Rooting
<1>2. Rooting(up, f)
  BY SetsHaveRoots
<1> HIDE DEF f
<1>3. f[x] \in InSets(up) /\ up[f[x] + 1] = f[x]
  BY <1>2, RootsAreRoots
<1>4. f[x] \in Joined[x]
  BY <1>2, RootsAreJoined DEF IsJoined
<1> QED
  BY <1>1, <1>3, <1>4

\* Path compression changes no set, and no root.
LEMMA CompressKeeps ==
  ASSUME N \in Nat, NEW uf, IsForest(uf.parent), IsJoined(uf.parent), NEW x \in InSets(uf.parent),
         NEW rest, uf = [parent |-> uf.parent, rank |-> rest],
         NEW new, new = Compress(uf, x)
  PROVE  /\ new = [parent |-> new.parent, rank |-> rest]
         /\ IsForest(new.parent) /\ IsJoined(new.parent)
         /\ Len(new.parent) = Len(uf.parent) /\ InSets(new.parent) = InSets(uf.parent)
         /\ \A y \in InSets(uf.parent) : uf.parent[y + 1] = y => new.parent[y + 1] = y
<1> DEFINE up == uf.parent
           f == CHOOSE u : Rooting(up, u)
           g == CHOOSE u : Climbing(up, u)
           r == f[x]
           W == g[x]
           put == [i \in DOMAIN up |-> IF i - 1 \in W THEN r ELSE up[i]]
<1>1. find_set(uf, x) = r
  BY DEF find_set, Rooting
<1>2. new = [uf EXCEPT !.parent = put]
  BY <1>1 DEF Compress, Climbing
<1>3. Rooting(up, f) /\ Climbing(up, g)
  BY SetsHaveRoots, SetsHaveWays
<1> HIDE DEF f, g
<1>4. \A y \in InSets(up) : f[y] \in InSets(up) /\ up[f[y] + 1] = f[y] /\ f[y] \in Joined[y]
  BY <1>3, RootsAreRoots, RootsAreJoined DEF IsJoined
<1>5. W \subseteq InSets(up) /\ \A z \in W : f[z] = r
  BY <1>3, WaysStayInSets
<1>6. DOMAIN up = 1 .. Len(up)
  BY DEF IsForest
<1>7. new.parent = put /\ new = [parent |-> new.parent, rank |-> rest]
  BY <1>2
<1>8. /\ IsForest(put) /\ InSets(put) = InSets(up) /\ Len(put) = Len(up)
      /\ \A y \in InSets(up) : put[y + 1] = IF y \in W THEN r ELSE up[y + 1]
  <2>1. r \in InSets(up) /\ up[r + 1] = r
    BY <1>4
  <2>2. put = Hung(up, W, r)
    BY <1>6 DEF Hung
  <2>3. IsForest(up) /\ W \in SUBSET InSets(up)
    BY <1>5
  <2> HIDE DEF put, r, W, up
  <2> QED
    BY <2>1, <2>2, <2>3, HangingKeeps
<1> HIDE DEF put
<1>9. IsJoined(put)
  BY <1>4, <1>5, <1>8 DEF IsJoined
<1>10. ASSUME NEW y \in InSets(up), up[y + 1] = y PROVE put[y + 1] = y
  <2>1. f[y] = y
    <3>1. f[y] = IF up[y + 1] \in {y, None} THEN up[y + 1] ELSE f[up[y + 1]]
      BY <1>3 DEF Rooting, InSets, Elements
    <3> QED
      BY <1>10, <3>1
  <2> QED
    BY <1>5, <1>8, <1>10, <2>1
<1> QED
  BY <1>7, <1>8, <1>9, <1>10

\* The union-find of a search: a forest whose sets hold only what arcs join.
SetsAreRight(uf) ==
  /\ uf \in [parent : Seq(State \cup {None}), rank : Seq(Nat)] /\ Len(uf.rank) = Len(uf.parent)
  /\ IsForest(uf.parent) /\ IsJoined(uf.parent)

LEMMA LinkKeeps ==
  ASSUME N \in Nat, NEW uf, SetsAreRight(uf), NEW x \in InSets(uf.parent), NEW y \in InSets(uf.parent),
         uf.parent[x + 1] = x, uf.parent[y + 1] = y, y \in Joined[x]
  PROVE  SetsAreRight(link(uf, x, y))
<1> DEFINE up == uf.parent
           rank == uf.rank
<1>1. /\ uf = [parent |-> up, rank |-> rank]
      /\ up \in Seq(State \cup {None}) /\ rank \in Seq(Nat) /\ Len(rank) = Len(up)
      /\ IsForest(up) /\ IsJoined(up)
  BY DEF SetsAreRight
<1>2. x \in 0 .. Len(up) - 1 /\ y \in 0 .. Len(up) - 1 /\ x \in State /\ y \in State
  BY <1>1 DEF InSets, Elements, IsForest
<1>3. x \in Joined[y]
  BY <1>2, JoinedIsEquivalence
<1>4. ASSUME NEW a \in InSets(up), NEW b \in InSets(up), up[b + 1] = b, b \in Joined[a],
             NEW ranks \in Seq(Nat), Len(ranks) = Len(up)
      PROVE  SetsAreRight([parent |-> [up EXCEPT ![a + 1] = b], rank |-> ranks])
  <2>1. a \in 0 .. Len(up) - 1 /\ DOMAIN up = 1 .. Len(up) /\ Len(up) \in Nat
    BY <1>1 DEF InSets, Elements
  <2>2. [up EXCEPT ![a + 1] = b] = Hung(up, {a}, b)
    <3>1. \A i \in 1 .. Len(up) : i = a + 1 <=> i - 1 \in {a}
      BY <2>1
    <3> QED
      BY <2>1, <3>1 DEF Hung
  <2> DEFINE new == Hung(up, {a}, b)
  <2>3. /\ IsForest(new) /\ InSets(new) = InSets(up) /\ Len(new) = Len(up)
        /\ \A z \in InSets(up) : new[z + 1] = IF z \in {a} THEN b ELSE up[z + 1]
    <3> DEFINE W == {a}
    <3>1. W \in SUBSET InSets(up)
      BY <1>4
    <3> HIDE DEF up, W
    <3>2. /\ IsForest(Hung(up, W, b)) /\ InSets(Hung(up, W, b)) = InSets(up) /\ Len(Hung(up, W, b)) = Len(up)
          /\ \A z \in InSets(up) : Hung(up, W, b)[z + 1] = IF z \in W THEN b ELSE up[z + 1]
      BY <1>1, <1>4, <3>1, HangingKeeps
    <3> QED
      BY <3>2 DEF W
  <2> HIDE DEF new
  <2>4. IsJoined(new)
    BY <1>1, <1>4, <2>3 DEF IsJoined
  <2>5. new \in Seq(State \cup {None})
    BY <2>3 DEF IsForest
  <2> HIDE DEF up
  <2> QED
    BY <1>4, <2>2, <2>3, <2>4, <2>5 DEF SetsAreRight, new
<1>5. CASE x = y
  BY <1>5 DEF link
<1>6. CASE x # y /\ rank[x + 1] > rank[y + 1]
  <2>1. link(uf, x, y) = [parent |-> [up EXCEPT ![y + 1] = x], rank |-> rank]
    BY <1>1, <1>6 DEF link
  <2> QED
    BY <1>1, <1>3, <1>4, <2>1
<1>7. CASE x # y /\ ~ (rank[x + 1] > rank[y + 1])
  <2> DEFINE a == rank[x + 1]
             b == rank[y + 1]
             ranks == [rank EXCEPT ![y + 1] = IF a = b THEN b + 1 ELSE b]
  <2>1. link(uf, x, y) = [parent |-> [up EXCEPT ![x + 1] = y], rank |-> ranks]
    BY <1>1, <1>7 DEF link
  <2>2. ranks \in Seq(Nat) /\ Len(ranks) = Len(up)
    <3>1. y + 1 \in 1 .. Len(rank) /\ b \in Nat
      BY <1>1, <1>2
    <3>2. (IF a = b THEN b + 1 ELSE b) \in Nat
      BY <3>1
    <3> QED
      BY <1>1, <3>1, <3>2
  <2> HIDE DEF ranks
  <2> QED
    BY <1>1, <1>4, <2>1, <2>2
<1> QED
  BY <1>5, <1>6, <1>7

\* A union of two that are joined.
LEMMA UnionKeeps ==
  ASSUME N \in Nat, NEW uf, SetsAreRight(uf), NEW x \in State, NEW y \in State, y \in Joined[x]
  PROVE  SetsAreRight(union(uf, x, y))
<1>1. CASE ~ (Known(uf, x) /\ Known(uf, y))
  BY <1>1 DEF union
<1>2. CASE Known(uf, x) /\ Known(uf, y)
  <2> DEFINE up == uf.parent
             rx == find_set(uf, x)
             ry == find_set(uf, y)
             one == Compress(uf, x)
             two == Compress(one, y)
  <2>1. union(uf, x, y) = link(two, rx, ry)
    BY <1>2 DEF union
  <2>2. /\ uf = [parent |-> up, rank |-> uf.rank] /\ uf.rank \in Seq(Nat) /\ Len(uf.rank) = Len(up)
        /\ IsForest(up) /\ IsJoined(up)
    BY DEF SetsAreRight
  <2>3. x \in InSets(up) /\ y \in InSets(up)
    BY <1>2, <2>2 DEF Known, parent, InSets, Elements, State, IsForest
  <2>4. /\ rx \in InSets(up) /\ up[rx + 1] = rx /\ rx \in Joined[x]
        /\ ry \in InSets(up) /\ up[ry + 1] = ry /\ ry \in Joined[y]
    BY <2>2, <2>3, FindSetFinds
  <2> HIDE DEF rx, ry
  <2>5. /\ one = [parent |-> one.parent, rank |-> uf.rank]
        /\ IsForest(one.parent) /\ IsJoined(one.parent)
        /\ Len(one.parent) = Len(up) /\ InSets(one.parent) = InSets(up)
        /\ \A z \in InSets(up) : up[z + 1] = z => one.parent[z + 1] = z
    BY <2>2, <2>3, CompressKeeps
  <2> HIDE DEF one
  <2>6. /\ two = [parent |-> two.parent, rank |-> uf.rank]
        /\ IsForest(two.parent) /\ IsJoined(two.parent)
        /\ Len(two.parent) = Len(up) /\ InSets(two.parent) = InSets(up)
        /\ \A z \in InSets(up) : one.parent[z + 1] = z => two.parent[z + 1] = z
    BY <2>3, <2>5, CompressKeeps
  <2> HIDE DEF two
  <2>7. SetsAreRight(two)
    <3>1. two.parent \in Seq(State \cup {None})
      BY <2>6 DEF IsForest
    <3> QED
      BY <2>2, <2>6, <3>1 DEF SetsAreRight
  <2>8. two.parent[rx + 1] = rx /\ two.parent[ry + 1] = ry
    BY <2>4, <2>5, <2>6
  <2>9. ry \in Joined[rx]
    <3>1. rx \in State /\ ry \in State
      BY <2>2, <2>4 DEF IsForest
    <3>2. x \in Joined[rx]
      BY <2>4, <3>1, JoinedIsEquivalence
    <3>3. ry \in Joined[x]
      BY <2>4, <3>1, JoinedIsEquivalence
    <3> QED
      BY <3>1, <3>2, <3>3, JoinedIsEquivalence
  <2> QED
    BY <2>1, <2>4, <2>6, <2>7, <2>8, <2>9, LinkKeeps
<1> QED
  BY <1>1, <1>2

\* A set of one: what hung under it still does.
LEMMA MakingKeeps ==
  ASSUME N \in Nat, None \notin Nat, NEW uf, SetsAreRight(uf), NEW x \in State
  PROVE  SetsAreRight(make_set(uf, x))
<1> DEFINE up == uf.parent
           size == IF x < Len(up) THEN Len(up) ELSE IF x > 0 THEN 2 * x ELSE 2
           pads(seq, v) == Padded(seq, size, v)
           new == [pads(up, None) EXCEPT ![x + 1] = x]
           ranks == [pads(uf.rank, 0) EXCEPT ![x + 1] = 0]
<1>1. /\ up \in Seq(State \cup {None}) /\ Len(up) \in Nat /\ InSets(up) \subseteq State
      /\ uf.rank \in Seq(Nat) /\ Len(uf.rank) = Len(up)
      /\ IsForest(up) /\ IsJoined(up)
  BY DEF SetsAreRight, IsForest
<1>2. make_set(uf, x) = [parent |-> new, rank |-> ranks]
  <2> DEFINE grown == [parent |-> pads(up, None), rank |-> pads(uf.rank, 0)]
  <2>1. make_set(uf, x) = [grown EXCEPT !.parent[x + 1] = x, !.rank[x + 1] = 0]
    BY DEF make_set
  <2> HIDE DEF pads, size
  <2> QED
    BY <2>1
<1>3. x \in Nat /\ size \in Nat /\ x < size /\ Len(up) <= size /\ x # None /\ x \in State
  BY <1>1 DEF State
<1> HIDE DEF size
<1>4. ranks \in Seq(Nat) /\ Len(ranks) = size
  <2>1. pads(uf.rank, 0) \in [1 .. size -> Nat]
    <3>1. \A i \in 1 .. size : (IF i <= Len(uf.rank) THEN uf.rank[i] ELSE 0) \in Nat
      BY <1>1, <1>3
    <3> QED
      BY <3>1 DEF Padded
  <2>2. ranks \in [1 .. size -> Nat]
    BY <2>1
  <2> HIDE DEF ranks
  <2> QED
    BY <1>3, <2>2
<1>5. new \in [1 .. size -> State \cup {None}]
  <2>1. \A i \in 1 .. size : (IF i <= Len(up) THEN up[i] ELSE None) \in State \cup {None}
    BY <1>1, <1>3
  <2>2. pads(up, None) \in [1 .. size -> State \cup {None}]
    BY <2>1 DEF Padded
  <2> QED
    BY <1>3, <2>2
<1>6. new \in Seq(State \cup {None}) /\ Len(new) = size
  <2> HIDE DEF new
  <2> QED
    BY <1>3, <1>5
<1>7. ASSUME NEW y \in 0 .. size - 1
      PROVE  new[y + 1] = IF y = x THEN x ELSE IF y \in Elements(up) THEN up[y + 1] ELSE None
  <2>1. y + 1 \in 1 .. size /\ (y + 1 = x + 1 <=> y = x) /\ (y + 1 <= Len(up) <=> y \in Elements(up))
    BY <1>1, <1>3 DEF Elements
  <2> QED
    BY <2>1 DEF Padded
<1> HIDE DEF new
<1>8. Elements(new) = 0 .. size - 1 /\ Elements(up) \subseteq Elements(new) /\ x \in Elements(new)
  BY <1>1, <1>3, <1>6 DEF Elements
<1>9. InSets(new) = InSets(up) \cup {x}
  BY <1>3, <1>7, <1>8 DEF InSets
<1>10. ASSUME NEW y \in InSets(new) PROVE new[y + 1] = IF y = x THEN x ELSE up[y + 1]
  <2>1. y \in 0 .. size - 1 /\ (y # x => y \in Elements(up))
    BY <1>8, <1>9 DEF InSets
  <2> QED
    BY <1>7, <2>1
<1>11. \A y \in InSets(new) : new[y + 1] \in InSets(new)
  BY <1>1, <1>9, <1>10 DEF IsForest
<1>12. ASSUME NEW S \in SUBSET InSets(new), S # {} PROVE \E y \in S : new[y + 1] = y \/ new[y + 1] \notin S
  <2>1. CASE x \in S
    BY <1>10, <2>1
  <2>2. CASE x \notin S
    <3>1. S \in SUBSET InSets(up)
      BY <1>9, <2>2
    <3>2. PICK y \in S : up[y + 1] = y \/ up[y + 1] \notin S
      BY <1>1, <1>12, <3>1 DEF IsForest
    <3> QED
      BY <1>10, <2>2, <3>2
  <2> QED
    BY <2>1, <2>2
<1>13. IsForest(new)
  BY <1>1, <1>3, <1>6, <1>9, <1>11, <1>12 DEF IsForest
<1>14. IsJoined(new)
  BY <1>1, <1>3, <1>9, <1>10, JoinedIsEquivalence DEF IsJoined
<1> QED
  BY <1>2, <1>4, <1>6, <1>13, <1>14 DEF SetsAreRight

CcInv == SearchInv /\ SetsAreRight(comps)

\* One turn of the search, whatever the visitor is told.
LEMMA CcInductive ==
  ASSUME FstsAssumption, CcInv, SearchInv', fst' = fst, CcNext \/ UNCHANGED comps
  PROVE  CcInv'
<1>1. N \in Nat /\ None \notin Nat /\ SetsAreRight(comps) /\ SearchInv
  BY DEF FstsAssumption, CcInv
<1>2. Joined' = Joined
  BY DEF Joined, Arc
<1>3. SUFFICES SetsAreRight(comps')
  <2>1. ASSUME SetsAreRight(comps') PROVE SetsAreRight(comps)'
    BY <1>2, <2>1 DEF SetsAreRight, IsJoined, IsForest, InSets, Elements
  <2> QED
    BY <2>1 DEF CcInv
<1>4. CASE OpenTree(TRUE) /\ comps' = make_set(comps, root)
  <2>1. root \in State
    BY <1>1, <1>4 DEF OpenTree, SearchInv, RootsSweep
  <2> QED
    BY <1>1, <1>4, <2>1, MakingKeeps
<1>5. ASSUME stack # <<>>, Top.left # <<>>
      PROVE  Top.state \in State /\ Target \in State /\ Target \in Joined[Top.state]
  <2>1. Top \in FrameType /\ Target \in State /\ Arc(Top.state, Target)
    BY <1>1, <1>5, AdvancedFrames
  <2>2. Top.state \in State
    BY <2>1 DEF FrameType
  <2> QED
    BY <1>1, <2>1, <2>2, JoinedIsEquivalence
<1>6. CASE TreeArc(TRUE) /\ tree_arc(Top.state, Target)
  <2> DEFINE made == make_set(comps, Target)
             joined == union(made, Top.state, Target)
  <2>1. Top.state \in State /\ Target \in State /\ Target \in Joined[Top.state]
    BY <1>5, <1>6 DEF TreeArc, Taking
  <2>2. comps' = make_set(joined, Target)
    BY <1>6 DEF tree_arc
  <2>3. SetsAreRight(made)
    BY <1>1, <2>1, MakingKeeps
  <2> HIDE DEF made
  <2>4. SetsAreRight(joined)
    BY <1>1, <2>1, <2>3, UnionKeeps
  <2> HIDE DEF joined
  <2> QED
    BY <1>1, <2>1, <2>2, <2>4, MakingKeeps
<1>7. CASE (BackArc(TRUE) \/ ForwardOrCrossArc(TRUE)) /\ comps' = union(comps, Top.state, Target)
  <2>1. Top.state \in State /\ Target \in State /\ Target \in Joined[Top.state]
    BY <1>5, <1>7 DEF BackArc, ForwardOrCrossArc, Taking
  <2> QED
    BY <1>1, <1>7, <2>1, UnionKeeps
<1>8. CASE UNCHANGED comps
  BY <1>1, <1>8
<1> QED
  BY <1>4, <1>6, <1>7, <1>8 DEF CcNext

\* What it says of the sets.
LEMMA SetsAreJustified ==
  ASSUME FstsAssumption, CcInv
  PROVE  JoinsAreJustified /\ ParentsAreIndexes
<1> DEFINE up == comps.parent
<1>1. /\ N \in Nat /\ None \notin Nat /\ IsForest(up) /\ IsJoined(up)
      /\ up \in Seq(State \cup {None}) /\ Len(comps.rank) = Len(up)
  BY DEF FstsAssumption, CcInv, SetsAreRight
<1>2. JoinsAreJustified
  <2> SUFFICES ASSUME NEW s \in State, Known(comps, s)
               PROVE  up[find_set(comps, s) + 1] = find_set(comps, s) /\ find_set(comps, s) \in Joined[s]
    BY DEF JoinsAreJustified, parent
  <2>1. s \in InSets(up)
    BY <1>1 DEF Known, parent, InSets, Elements, State
  <2> QED
    BY <1>1, <2>1, FindSetFinds
<1>3. ParentsAreIndexes
  <2> SUFFICES ASSUME NEW i \in 1 .. Len(up), up[i] # None
               PROVE  up[i] \in 0 .. Len(up) - 1 /\ Known(comps, up[i])
    BY <1>1 DEF ParentsAreIndexes
  <2>1. i - 1 \in Elements(up) /\ (i - 1) + 1 = i
    BY <1>1 DEF Elements
  <2>2. i - 1 \in InSets(up)
    BY <2>1 DEF InSets
  <2>3. up[i] \in InSets(up)
    BY <1>1, <2>1, <2>2 DEF IsForest
  <2> QED
    BY <1>1, <2>3 DEF InSets, Elements, Known, parent
<1> QED
  BY <1>2, <1>3

-----------------------------------------------------------------------------
(***************************************************************************)
(* Visits in the order of a queue                                          *)
(***************************************************************************)

VisitTypeOK ==
  /\ SweepTypeOK /\ how \in WaysType
  /\ stack \in Seq(State) /\ met \in Seq(State) /\ finish \in Seq(State)
  /\ left \in [State -> Seq(State)]
  /\ ofst \in [arcs : Seq(Seq(State)), final : SUBSET State]

\* One tree, or trees from every state that is still white.
TreesSweep ==
  /\ at # "tree" => stack = <<>>
  /\ fst.start = None => at = "done" /\ met = <<>>
  /\ fst.start # None /\ met = <<>> => at = "roots" /\ root = fst.start
  /\ at # "done" => root \in State
  /\ at = "roots" => dfs /\ color[root] = "White"
  /\ IF how.access_only THEN at = "roots" => met = <<>> ELSE RootsSweep

\* What is met, what is finished and what waits in between, each once.
StatesAreListed ==
  /\ IsInjective(met) /\ ToSet(met) = {s \in State : color[s] # "White"}
  /\ IsInjective(finish) /\ ToSet(finish) = {s \in State : color[s] = "Black"}
  /\ IsInjective(stack) /\ ToSet(stack) = {s \in State : color[s] = "Grey"}
  /\ Len(met) = Len(finish) + Len(stack)

\* A visit is stopped by the state that is one too many.
LimitIsDrawn == IF dfs THEN Len(met) <= how.maxvisit ELSE Len(met) = how.maxvisit + 1

\* How many of its arcs a state has given up; those of them that are kept lead to
\* what has been met.
Gone(s) == Len(fst.arcs[s]) - Len(left[s])

ArcsAreFollowed ==
  \A s \in State :
    /\ Gone(s) \in Nat
    /\ \A k \in 1 .. Len(left[s]) : left[s][k] = fst.arcs[s][Gone(s) + k]
    /\ \A k \in 1 .. Gone(s) : <<s, fst.arcs[s][k]>> \notin how.dropped => color[fst.arcs[s][k]] # "White"
    /\ color[s] = "White" => Gone(s) = 0
    /\ dfs /\ color[s] = "Black" => left[s] = <<>>

\* The start is met first, and with one tree, all that is met is what it leads to.
MetAreReached ==
  /\ met # <<>> => met[1] = fst.start
  /\ how.access_only => \A s \in ToSet(met) : s \in Steps[N][fst.start]

\* A stack goes down along arcs, so that each state in it leads to those after it;
\* what finishes has left nothing behind that does not lead back to it.
StackDescends ==
  how.queue = "lifo" =>
    /\ \A i \in 1 .. Len(stack) - 1 : KeptArc(stack[i], stack[i + 1])
    /\ \A i, j \in DOMAIN stack : i <= j => stack[j] \in Steps[N][stack[i]]

FinishesInDepth ==
  how.queue = "lifo" /\ dfs =>
    \A i \in DOMAIN finish : \A t \in State :
      KeptArc(finish[i], t) => \/ finish[i] \in Steps[N][t]
                               \/ \E j \in DOMAIN finish : j < i /\ finish[j] = t

\* A queue finishes states as it met them, and meets none of a level before all of
\* the level before: what is met is within a level, or all of the level is met and first.
LevelIsMet(m, near) ==
  /\ ToSet(m) \subseteq near \/ near \subseteq ToSet(m)
  /\ \A i, j \in DOMAIN m : i < j /\ m[j] \in near => m[i] \in near

MeetsByLevels ==
  how.queue = "fifo" =>
    /\ met = finish \o stack
    /\ fst.start # None => \A k \in 0 .. N : LevelIsMet(met, Steps[k][fst.start])

\* The copy so far.
CopyIsKept ==
  /\ Len(ofst.arcs) <= N /\ \A s \in ToSet(met) : s < Len(ofst.arcs)
  /\ ofst.final = {s \in fst.final : color[s] = "Black"}
  /\ \A p \in Copied(ofst) : CopiedTo(ofst, p) \in ToSet(met)
  /\ how.copy_grey /\ how.copy_black =>
       \A s \in State : s < Len(ofst.arcs) => ofst.arcs[s + 1] = Kept(s)[Gone(s)]
  /\ ~how.copy_grey /\ ~how.copy_black => \A p, q \in Copied(ofst) : CopiedTo(ofst, p) = CopiedTo(ofst, q) => p = q
  /\ how.access_only => \A i \in DOMAIN met : i # 1 => \E p \in Copied(ofst) : CopiedTo(ofst, p) = met[i]

VisitInv ==
  /\ VisitTypeOK /\ TreesSweep /\ StatesAreListed /\ LimitIsDrawn /\ ArcsAreFollowed
  /\ MetAreReached /\ StackDescends /\ FinishesInDepth /\ MeetsByLevels /\ CopyIsKept
-----------------------------------------------------------------------------
\* The arcs that are kept, and the paths they make.
KeptArcs == {p \in State \X State : KeptArc(p[1], p[2])}

\* The steps are the rounds of those paths.
LEMMA StepsAreByKeptArcs ==
  ASSUME N \in Nat
  PROVE  Rounds(KeptArcs, Steps) /\ \A s, u \in State : <<s, u>> \in KeptArcs <=> KeptArc(s, u)
<1>1. \A s, u \in State : <<s, u>> \in KeptArcs <=> KeptArc(s, u)
  BY DEF KeptArcs
<1> DEFINE Further(u, s) == u[s] \cup UNION {u[t] : t \in {v \in State : KeptArc(s, v)}}
           Within(u) == u = [k \in 0 .. N |-> IF k = 0 THEN [s \in State |-> {s}]
                                              ELSE [s \in State |-> Further(u[k - 1], s)]]
<1>2. Steps = CHOOSE u : Within(u)
  BY DEF Steps
<1>3. \A u : Lengthened(KeptArcs, u) = [s \in State |-> Further(u, s)]
  <2> SUFFICES ASSUME NEW u, NEW s \in State
               PROVE  u[s] \cup UNION {u[t] : t \in {v \in State : <<s, v>> \in KeptArcs}} = Further(u, s)
    BY DEF Lengthened
  <2>1. {v \in State : <<s, v>> \in KeptArcs} = {v \in State : KeptArc(s, v)}
    BY <1>1
  <2> QED
    BY <2>1
<1> HIDE DEF Further
<1>4. ASSUME NEW u PROVE Within(u) <=> Unrolled(KeptArcs, N, u)
  <2> DEFINE first == [s \in State |-> {s}]
             other(k) == [s \in State |-> Further(u[k - 1], s)]
  <2>1. \A k : other(k) = Lengthened(KeptArcs, u[k - 1])
    BY <1>3
  <2> HIDE DEF first, other
  <2>2. [k \in 0 .. N |-> IF k = 0 THEN first ELSE other(k)]
          = [k \in 0 .. N |-> IF k = 0 THEN first ELSE Lengthened(KeptArcs, u[k - 1])]
    BY <2>1
  <2> QED
    BY <2>2 DEF Unrolled, first, other
<1> HIDE DEF Within
<1>5. PICK u : Unrolled(KeptArcs, N, u)
  BY RoundsAreMade
<1>6. Within(CHOOSE v : Within(v))
  BY <1>4, <1>5
<1>7. Unrolled(KeptArcs, N, CHOOSE v : Within(v))
  BY <1>4, <1>6
<1> QED
  BY <1>1, <1>2, <1>7, UnrolledAreRounds

\* A round goes one step further at the end of its paths, as it does at their beginning.
LEMMA RoundsGoOn ==
  ASSUME N \in Nat, NEW E, NEW w, Rounds(E, w), NEW k \in 0 .. N - 1, NEW s \in State, NEW x \in State
  PROVE  x \in w[k + 1][s] <=> x \in w[k][s] \/ \E u \in State : u \in w[k][s] /\ <<u, x>> \in E
<1> DEFINE T == {m \in Nat : m < N => \A y \in State : x \in w[m + 1][y] <=> x \in w[m][y] \/ \E u \in State : u \in w[m][y] /\ <<u, x>> \in E}
<1>1. ASSUME NEW m \in 0 .. N - 1, NEW y \in State, NEW z
      PROVE  z \in w[m + 1][y] <=> z \in w[m][y] \/ \E t \in State : <<y, t>> \in E /\ z \in w[m][t]
  <2>1. w[m + 1] = [v \in State |-> w[m][v] \cup UNION {w[m][t] : t \in {u \in State : <<v, u>> \in E}}]
    BY DEF Lengthened, Rounds
  <2>2. w[m + 1][y] = w[m][y] \cup UNION {w[m][t] : t \in {u \in State : <<y, u>> \in E}}
    BY <2>1
  <2> QED
    BY <2>2
<1>2. \A y \in State : w[0][y] = {y}
  BY DEF Rounds
<1>3. 0 \in T
  <2> SUFFICES ASSUME 0 < N, NEW y \in State
               PROVE  x \in w[0 + 1][y] <=> x \in w[0][y] \/ \E u \in State : u \in w[0][y] /\ <<u, x>> \in E
    OBVIOUS
  <2>1. 0 \in 0 .. N - 1
    OBVIOUS
  <2>2. x \in w[0 + 1][y] <=> x \in w[0][y] \/ \E t \in State : <<y, t>> \in E /\ x \in w[0][t]
    BY <1>1, <2>1
  <2> QED
    BY <1>2, <2>2
<1>4. ASSUME NEW m \in Nat, m \in T PROVE m + 1 \in T
  <2> SUFFICES ASSUME m + 1 < N, NEW y \in State
               PROVE  x \in w[(m + 1) + 1][y] <=> x \in w[m + 1][y] \/ \E u \in State : u \in w[m + 1][y] /\ <<u, x>> \in E
    OBVIOUS
  <2>1. m \in 0 .. N - 1 /\ m + 1 \in 0 .. N - 1
    OBVIOUS
  <2>2. \A v \in State : x \in w[m + 1][v] <=> x \in w[m][v] \/ \E u \in State : u \in w[m][v] /\ <<u, x>> \in E
    <3>1. m < N
      BY <2>1
    <3> QED
      BY <1>4, <3>1
  <2>3. x \in w[(m + 1) + 1][y] <=> x \in w[m + 1][y] \/ \E t \in State : <<y, t>> \in E /\ x \in w[m + 1][t]
    BY <1>1, <2>1
  <2>4. \A u : u \in w[m + 1][y] <=> u \in w[m][y] \/ \E t \in State : <<y, t>> \in E /\ u \in w[m][t]
    BY <1>1, <2>1
  <2> HIDE DEF T
  <2>5. ASSUME NEW t \in State, <<y, t>> \in E, x \in w[m + 1][t]
        PROVE  x \in w[m + 1][y] \/ \E u \in State : u \in w[m + 1][y] /\ <<u, x>> \in E
    BY <2>2, <2>4, <2>5
  <2>6. ASSUME NEW u \in State, u \in w[m + 1][y], <<u, x>> \in E
        PROVE  x \in w[m + 1][y] \/ \E t \in State : <<y, t>> \in E /\ x \in w[m + 1][t]
    BY <2>2, <2>4, <2>6
  <2> QED
    BY <2>3, <2>5, <2>6
<1> HIDE DEF T
<1>5. k \in T
  BY <1>3, <1>4, SetInduction
<1> QED
  BY <1>5 DEF T

\* No round leads out of the automaton, and each leads from a state to itself.
LEMMA RoundsAreThere ==
  ASSUME N \in Nat, NEW E, NEW w, Rounds(E, w), NEW k \in 0 .. N
  PROVE  \A s \in State : w[k][s] \subseteq State /\ s \in w[k][s]
<1> DEFINE T == {m \in Nat : m <= N => \A s \in State : s \in w[m][s]}
<1>1. 0 \in T
  BY DEF Rounds
<1>2. ASSUME NEW m \in Nat, m \in T PROVE m + 1 \in T
  <2> SUFFICES ASSUME m + 1 <= N, NEW s \in State PROVE s \in w[m + 1][s]
    OBVIOUS
  <2>1. m \in 0 .. N - 1 /\ s \in w[m][s]
    BY <1>2
  <2> QED
    BY <2>1, RoundsGoOn
<1> HIDE DEF T
<1>3. k \in T
  BY <1>1, <1>2, SetInduction
<1>4. \A s \in State : s \in w[k][s]
  BY <1>3 DEF T
<1>5. \A s \in State : w[k][s] \subseteq State
  BY RoundsStayInside
<1> QED
  BY <1>4, <1>5

\* A step or none leads to states of the automaton, and none is enough to stay.
LEMMA StepsAreThere ==
  ASSUME N \in Nat, NEW k \in 0 .. N, NEW s \in State
  PROVE  Steps[k][s] \subseteq State /\ s \in Steps[k][s]
  BY StepsAreByKeptArcs, RoundsAreThere

\* No step leads out of what kept arcs do not lead out of.
LEMMA StepsStayInside ==
  ASSUME N \in Nat, NEW S \in SUBSET State,
         \A s \in S : \A u \in State : KeptArc(s, u) => u \in S,
         NEW s \in S, NEW k \in 0 .. N
  PROVE  Steps[k][s] \subseteq S
<1>1. \A x \in S : \A u \in State : <<x, u>> \in KeptArcs => u \in S
  BY StepsAreByKeptArcs
<1> QED
  BY <1>1, StepsAreByKeptArcs, RoundsStayInside

\* One step more is an arc at the end.
LEMMA StepsGoOn ==
  ASSUME N \in Nat, NEW k \in 0 .. N - 1, NEW s \in State, NEW x \in State
  PROVE  x \in Steps[k + 1][s] <=> x \in Steps[k][s] \/ \E u \in State : u \in Steps[k][s] /\ KeptArc(u, x)
<1>1. x \in Steps[k + 1][s] <=> x \in Steps[k][s] \/ \E u \in State : u \in Steps[k][s] /\ <<u, x>> \in KeptArcs
  BY StepsAreByKeptArcs, RoundsGoOn
<1> QED
  BY <1>1, StepsAreByKeptArcs

\* N rounds are as many as it takes.
LEMMA StepsAreEnough ==
  ASSUME N \in Nat, NEW s \in State, NEW t \in State, NEW u \in State
  PROVE  /\ KeptArc(s, t) /\ u \in Steps[N][t] => u \in Steps[N][s]
         /\ t \in Steps[N][s] /\ KeptArc(t, u) => u \in Steps[N][s]
<1>1. Leads(KeptArcs, Steps[N])
  BY StepsAreByKeptArcs DEF Leads
<1>2. ASSUME NEW x \in State, NEW y \in State, NEW z \in State, KeptArc(x, y), z \in Steps[N][y] PROVE z \in Steps[N][x]
  <2>1. <<x, y>> \in KeptArcs
    BY <1>2, StepsAreByKeptArcs
  <2> QED
    BY <1>1, <1>2, <2>1, PathsExtend
<1>3. ASSUME t \in Steps[N][s], KeptArc(t, u) PROVE u \in Steps[N][s]
  <2>1. u \in Steps[N][t]
    BY <1>2, <1>3, StepsAreThere
  <2> QED
    BY <1>1, <1>3, <2>1, PathsJoin
<1> QED
  BY <1>2, <1>3

\* No steps lead nowhere else.
LEMMA StepsStart ==
  ASSUME N \in Nat, NEW s \in State
  PROVE  Steps[0][s] = {s}
  BY StepsAreByKeptArcs DEF Rounds

-----------------------------------------------------------------------------
\* What is taken out of a sequence leaves the others in their order.
LEMMA Removing ==
  ASSUME NEW S, NEW q \in Seq(S), NEW i \in 1 .. Len(q)
  PROVE  /\ RemoveAt(q, i) \in Seq(S) /\ Len(RemoveAt(q, i)) = Len(q) - 1
         /\ \A j \in 1 .. Len(q) - 1 : RemoveAt(q, i)[j] = IF j < i THEN q[j] ELSE q[j + 1]
<1>1. Len(q) \in Nat /\ i \in Nat /\ i >= 1 /\ i <= Len(q)
  OBVIOUS
<1> DEFINE a == SubSeq(q, 1, i - 1)
           b == SubSeq(q, i + 1, Len(q))
<1>2. a \in Seq(S) /\ Len(a) = i - 1 /\ \A j \in 1 .. i - 1 : a[j] = q[j]
  BY <1>1, SubSeqProperties
<1>3. b \in Seq(S) /\ Len(b) = Len(q) - i /\ \A j \in 1 .. Len(q) - i : b[j] = q[i + j]
  BY <1>1, SubSeqProperties
<1> HIDE DEF a, b
<1>4. a \o b \in Seq(S) /\ Len(a \o b) = Len(a) + Len(b)
      /\ \A j \in 1 .. Len(a) + Len(b) : (a \o b)[j] = IF j <= Len(a) THEN a[j] ELSE b[j - Len(a)]
  BY <1>2, <1>3, ConcatProperties
<1>5. ASSUME NEW j \in 1 .. Len(q) - 1 PROVE (a \o b)[j] = IF j < i THEN q[j] ELSE q[j + 1]
  <2>1. j \in 1 .. Len(a) + Len(b)
    BY <1>1, <1>2, <1>3
  <2>2. CASE j < i
    BY <1>1, <1>2, <1>4, <2>1, <2>2
  <2>3. CASE ~(j < i)
    <3>1. j - (i - 1) \in 1 .. Len(q) - i /\ i + (j - (i - 1)) = j + 1 /\ ~(j <= i - 1)
      BY <1>1, <2>3
    <3>2. b[j - (i - 1)] = q[i + (j - (i - 1))]
      BY <1>3, <3>1
    <3> QED
      BY <1>1, <1>2, <1>4, <2>1, <2>3, <3>1, <3>2
  <2> QED
    BY <2>2, <2>3
<1>6. RemoveAt(q, i) = a \o b
  BY DEF RemoveAt, a, b
<1>7. Len(a \o b) = Len(q) - 1
  BY <1>1, <1>2, <1>3, <1>4
<1> QED
  BY <1>4, <1>5, <1>6, <1>7

\* What is listed once is listed no more when it is taken out.
LEMMA RemovingOne ==
  ASSUME NEW S, NEW q \in Seq(S), NEW i \in 1 .. Len(q), IsInjective(q)
  PROVE  IsInjective(RemoveAt(q, i)) /\ ToSet(RemoveAt(q, i)) = ToSet(q) \ {q[i]}
<1> DEFINE r == RemoveAt(q, i)
           n == Len(q)
<1>1. n \in Nat /\ i \in 1 .. n /\ DOMAIN q = 1 .. n
  OBVIOUS
<1>2. r \in Seq(S) /\ DOMAIN r = 1 .. n - 1 /\ \A j \in 1 .. n - 1 : r[j] = q[IF j < i THEN j ELSE j + 1]
  BY Removing
<1>3. \A j, k \in 1 .. n : q[j] = q[k] => j = k
  BY <1>1 DEF IsInjective
<1> HIDE DEF r, n
<1>4. ASSUME NEW j \in 1 .. n - 1, NEW k \in 1 .. n - 1, r[j] = r[k] PROVE j = k
  <2> DEFINE up(m) == IF m < i THEN m ELSE m + 1
  <2>1. up(j) \in 1 .. n /\ up(k) \in 1 .. n
    BY <1>1
  <2>2. q[up(j)] = q[up(k)]
    BY <1>2, <1>4
  <2>3. up(j) = up(k)
    BY <1>3, <2>1, <2>2
  <2> QED
    BY <1>1, <2>3
<1>5. ASSUME NEW j \in 1 .. n - 1 PROVE r[j] \in ToSet(q) \ {q[i]}
  <2> DEFINE m == IF j < i THEN j ELSE j + 1
  <2>1. m \in 1 .. n /\ m # i /\ r[j] = q[m]
    BY <1>1, <1>2
  <2> HIDE DEF m
  <2> QED
    BY <1>1, <1>3, <2>1 DEF ToSet
<1>6. ASSUME NEW m \in 1 .. n, m # i PROVE \E j \in 1 .. n - 1 : r[j] = q[m]
  <2>1. CASE m < i
    BY <1>1, <1>2, <2>1
  <2>2. CASE m > i
    <3>1. m - 1 \in 1 .. n - 1 /\ ~(m - 1 < i) /\ (m - 1) + 1 = m
      BY <1>1, <2>2
    <3> QED
      BY <1>2, <3>1
  <2> QED
    BY <1>1, <1>6, <2>1, <2>2
<1>7. ToSet(r) = ToSet(q) \ {q[i]}
  <2>1. ToSet(r) \subseteq ToSet(q) \ {q[i]}
    BY <1>2, <1>5 DEF ToSet
  <2>2. ASSUME NEW x \in ToSet(q) \ {q[i]} PROVE x \in ToSet(r)
    <3>1. PICK m \in 1 .. n : x = q[m]
      BY <1>1 DEF ToSet
    <3>2. PICK j \in 1 .. n - 1 : r[j] = q[m]
      BY <1>6, <3>1
    <3> QED
      BY <1>2, <3>1, <3>2 DEF ToSet
  <2> QED
    BY <2>1, <2>2
<1>8. IsInjective(r)
  BY <1>2, <1>4 DEF IsInjective
<1> QED
  BY <1>7, <1>8 DEF r

\* One more element at the end.
LEMMA AddingOne ==
  ASSUME NEW S, NEW q \in Seq(S), NEW s \in S
  PROVE  /\ Append(q, s) \in Seq(S) /\ Len(Append(q, s)) = Len(q) + 1
         /\ \A i \in 1 .. Len(q) : Append(q, s)[i] = q[i]
         /\ Append(q, s)[Len(q) + 1] = s
         /\ ToSet(Append(q, s)) = ToSet(q) \cup {s}
         /\ IsInjective(q) /\ s \notin ToSet(q) => IsInjective(Append(q, s))
<1> DEFINE r == Append(q, s)
           n == Len(q)
<1>1. n \in Nat /\ DOMAIN q = 1 .. n
  OBVIOUS
<1>2. r \in Seq(S) /\ Len(r) = n + 1 /\ DOMAIN r = 1 .. n + 1 /\ (\A i \in 1 .. n : r[i] = q[i]) /\ r[n + 1] = s
  BY AppendProperties
<1> HIDE DEF r, n
<1>3. \A i \in 1 .. n + 1 : i \in 1 .. n \/ i = n + 1
  BY <1>1
<1>4. n + 1 \in 1 .. n + 1 /\ \A i \in 1 .. n : i \in 1 .. n + 1
  BY <1>1
<1>5. ToSet(r) = ToSet(q) \cup {s}
  BY <1>1, <1>2, <1>3, <1>4 DEF ToSet
<1>6. IsInjective(q) /\ s \notin ToSet(q) => IsInjective(r)
  BY <1>1, <1>2, <1>3 DEF IsInjective, ToSet
<1> QED
  BY <1>2, <1>5, <1>6 DEF r, n

\* The head of a queue, and the queue without it.
LEMMA Dequeuing ==
  ASSUME N \in Nat, how \in WaysType, NEW q \in Seq(State), q # <<>>
  PROVE  /\ HeadAt(q) \in 1 .. Len(q) /\ HeadOf(q) \in ToSet(q) /\ HeadOf(q) \in State
         /\ Dequeued(q) \in Seq(State) /\ Len(Dequeued(q)) = Len(q) - 1
         /\ IsInjective(q) => IsInjective(Dequeued(q)) /\ ToSet(Dequeued(q)) = ToSet(q) \ {HeadOf(q)}
         /\ how.queue = "lifo" => HeadAt(q) = Len(q)
         /\ how.queue = "fifo" => HeadAt(q) = 1
<1>1. Len(q) \in Nat \ {0} /\ DOMAIN q = 1 .. Len(q)
  OBVIOUS
<1>2. how.queue \in {"lifo", "fifo", "state"}
  BY DEF WaysType
<1>3. HeadAt(q) \in 1 .. Len(q) /\ (how.queue = "lifo" => HeadAt(q) = Len(q)) /\ (how.queue = "fifo" => HeadAt(q) = 1)
  <2>1. CASE how.queue = "state"
    <3> DEFINE S == {q[i] : i \in DOMAIN q}
    <3>1. S \in SUBSET Nat /\ S # {}
      BY <1>1 DEF State
    <3>2. PICK m \in S : \A n \in S : m <= n
      BY <3>1, LeastNatural
    <3>3. \E i \in DOMAIN q : \A j \in DOMAIN q : q[i] <= q[j]
      BY <3>2
    <3>4. HeadAt(q) = CHOOSE i \in DOMAIN q : \A j \in DOMAIN q : q[i] <= q[j]
      BY <2>1 DEF HeadAt
    <3> QED
      BY <1>1, <2>1, <3>3, <3>4
  <2>2. CASE how.queue = "lifo"
    BY <1>1, <2>2 DEF HeadAt
  <2>3. CASE how.queue = "fifo"
    BY <1>1, <2>3 DEF HeadAt
  <2> QED
    BY <1>2, <2>1, <2>2, <2>3
<1>4. HeadOf(q) \in State /\ HeadOf(q) \in ToSet(q)
  BY <1>1, <1>3 DEF HeadOf, ToSet
<1>5. Dequeued(q) \in Seq(State) /\ Len(Dequeued(q)) = Len(q) - 1
  BY <1>3, Removing DEF Dequeued
<1>6. IsInjective(q) => IsInjective(Dequeued(q)) /\ ToSet(Dequeued(q)) = ToSet(q) \ {HeadOf(q)}
  BY <1>3, RemovingOne DEF Dequeued, HeadOf
<1> QED
  BY <1>3, <1>4, <1>5, <1>6

\* The state that is met is listed with those met and those that wait.
LEMMA MeetingLists ==
  ASSUME N \in Nat, VisitTypeOK, StatesAreListed, LimitIsDrawn, dfs, how' = how,
         NEW s \in State, color[s] = "White", NEW copy, Meet(s, copy), finish' = finish
  PROVE  /\ stack' \in Seq(State) /\ met' \in Seq(State) /\ color' \in [State -> {"White", "Grey", "Black"}] /\ dfs' \in BOOLEAN
         /\ StatesAreListed' /\ LimitIsDrawn'
<1>1. /\ met' = Append(met, s) /\ stack' = Append(stack, s) /\ color' = [color EXCEPT ![s] = "Grey"]
      /\ dfs' = (Len(met') <= how.maxvisit)
  BY DEF Meet, PartialVisitor
<1>2. /\ met \in Seq(State) /\ stack \in Seq(State) /\ finish \in Seq(State) /\ how.maxvisit \in Nat
      /\ color \in [State -> {"White", "Grey", "Black"}]
  BY DEF VisitTypeOK, SweepTypeOK, WaysType
<1>3. s \notin ToSet(met) /\ s \notin ToSet(stack)
  BY DEF StatesAreListed
<1>4. /\ Append(met, s) \in Seq(State) /\ Len(Append(met, s)) = Len(met) + 1
      /\ ToSet(Append(met, s)) = ToSet(met) \cup {s} /\ IsInjective(Append(met, s))
  BY <1>2, <1>3, AddingOne DEF StatesAreListed
<1>5. /\ Append(stack, s) \in Seq(State) /\ Len(Append(stack, s)) = Len(stack) + 1
      /\ ToSet(Append(stack, s)) = ToSet(stack) \cup {s} /\ IsInjective(Append(stack, s))
  BY <1>2, <1>3, AddingOne DEF StatesAreListed
<1>6. /\ {x \in State : color'[x] # "White"} = {x \in State : color[x] # "White"} \cup {s}
      /\ {x \in State : color'[x] = "Grey"} = {x \in State : color[x] = "Grey"} \cup {s}
      /\ {x \in State : color'[x] = "Black"} = {x \in State : color[x] = "Black"}
  BY <1>1, <1>2
<1>7. Len(met) \in Nat /\ Len(stack) \in Nat /\ Len(finish) \in Nat
  BY <1>2
<1>8. StatesAreListed'
  BY <1>1, <1>4, <1>5, <1>6, <1>7 DEF StatesAreListed
<1>9. LimitIsDrawn'
  <2>1. Len(met') = Len(met) + 1 /\ Len(met) <= how.maxvisit
    BY <1>1, <1>4 DEF LimitIsDrawn
  <2>2. CASE Len(met') <= how.maxvisit
    BY <1>1, <2>2 DEF LimitIsDrawn
  <2>3. CASE ~(Len(met') <= how.maxvisit)
    <3>1. ~dfs'
      BY <1>1, <2>3
    <3>2. Len(met') = how.maxvisit + 1
      BY <1>2, <1>7, <2>1, <2>3
    <3> QED
      BY <3>1, <3>2 DEF LimitIsDrawn
  <2> QED
    BY <2>2, <2>3
<1> QED
  BY <1>1, <1>2, <1>4, <1>5, <1>8, <1>9

\* The head that finishes is listed with those that have.
LEMMA FinishingLists ==
  ASSUME N \in Nat, VisitTypeOK, StatesAreListed, LimitIsDrawn, how' = how, VisitFinish
  PROVE  /\ stack' \in Seq(State) /\ finish' \in Seq(State) /\ color' \in [State -> {"White", "Grey", "Black"}]
         /\ StatesAreListed' /\ LimitIsDrawn'
<1> DEFINE s == HeadOf(stack)
<1>1. /\ met' = met /\ stack' = Dequeued(stack) /\ color' = [color EXCEPT ![s] = "Black"] /\ finish' = Append(finish, s)
      /\ dfs' = dfs /\ stack # <<>>
  BY DEF VisitFinish
<1>2. /\ met \in Seq(State) /\ stack \in Seq(State) /\ finish \in Seq(State) /\ how \in WaysType
      /\ color \in [State -> {"White", "Grey", "Black"}]
  BY DEF VisitTypeOK, SweepTypeOK
<1>3. /\ s \in State /\ s \in ToSet(stack) /\ Dequeued(stack) \in Seq(State) /\ Len(Dequeued(stack)) = Len(stack) - 1
      /\ IsInjective(Dequeued(stack)) /\ ToSet(Dequeued(stack)) = ToSet(stack) \ {s}
  BY <1>1, <1>2, Dequeuing DEF StatesAreListed
<1> HIDE DEF s
<1>4. color[s] = "Grey" /\ s \notin ToSet(finish)
  BY <1>3 DEF StatesAreListed
<1>5. /\ Append(finish, s) \in Seq(State) /\ Len(Append(finish, s)) = Len(finish) + 1
      /\ ToSet(Append(finish, s)) = ToSet(finish) \cup {s} /\ IsInjective(Append(finish, s))
  BY <1>2, <1>3, <1>4, AddingOne DEF StatesAreListed
<1>6. /\ {x \in State : color'[x] # "White"} = {x \in State : color[x] # "White"}
      /\ {x \in State : color'[x] = "Grey"} = {x \in State : color[x] = "Grey"} \ {s}
      /\ {x \in State : color'[x] = "Black"} = {x \in State : color[x] = "Black"} \cup {s}
  BY <1>1, <1>2, <1>3, <1>4
<1>7. Len(met) \in Nat /\ Len(stack) \in Nat /\ Len(finish) \in Nat
  BY <1>2
<1>8. StatesAreListed'
  <2>1. IsInjective(met') /\ ToSet(met') = {x \in State : color'[x] # "White"}
    BY <1>1, <1>6 DEF StatesAreListed
  <2>2. IsInjective(finish') /\ ToSet(finish') = {x \in State : color'[x] = "Black"}
    BY <1>1, <1>5, <1>6 DEF StatesAreListed
  <2>3. IsInjective(stack') /\ ToSet(stack') = {x \in State : color'[x] = "Grey"}
    BY <1>1, <1>3, <1>6 DEF StatesAreListed
  <2>4. Len(met') = Len(finish') + Len(stack')
    <3>1. Len(finish') = Len(finish) + 1 /\ Len(stack') = Len(stack) - 1 /\ Len(met') = Len(met)
      BY <1>1, <1>3, <1>5
    <3>2. Len(met) = Len(finish) + Len(stack)
      BY DEF StatesAreListed
    <3> QED
      BY <1>7, <3>1, <3>2
  <2> QED
    BY <2>1, <2>2, <2>3, <2>4 DEF StatesAreListed
<1>9. LimitIsDrawn'
  BY <1>1 DEF LimitIsDrawn
<1> QED
  BY <1>1, <1>2, <1>3, <1>5, <1>8, <1>9

\* The arc a state gives up is the next of its arcs.
LEMMA GivingUp ==
  ASSUME N \in Nat, VisitTypeOK, ArcsAreFollowed, NEW s \in State, left[s] # <<>>
  PROVE  /\ Gone(s) \in Nat /\ Gone(s) + 1 \in 1 .. Len(fst.arcs[s])
         /\ Head(left[s]) = fst.arcs[s][Gone(s) + 1] /\ Head(left[s]) \in State /\ Arc(s, Head(left[s]))
<1>1. left[s] \in Seq(State) /\ fst.arcs[s] \in Seq(State)
  BY DEF VisitTypeOK, SweepTypeOK, FstType
<1>2. Len(left[s]) \in Nat \ {0} /\ Len(fst.arcs[s]) \in Nat /\ Head(left[s]) = left[s][1] /\ Head(left[s]) \in State
  BY <1>1
<1>3. Gone(s) \in Nat /\ left[s][1] = fst.arcs[s][Gone(s) + 1]
  <2>1. 1 \in 1 .. Len(left[s])
    BY <1>2
  <2> QED
    BY <2>1 DEF ArcsAreFollowed
<1>4. Gone(s) + 1 \in 1 .. Len(fst.arcs[s])
  <2>1. \A n \in Nat, m \in Nat \ {0} : n - m \in Nat => (n - m) + 1 \in 1 .. n
    OBVIOUS
  <2> QED
    BY <1>2, <1>3, <2>1 DEF Gone
<1> QED
  BY <1>2, <1>3, <1>4 DEF Arc

\* What changes when a state gives up an arc.
LEMMA GoneOn ==
  ASSUME N \in Nat, VisitTypeOK, ArcsAreFollowed, fst' = fst, NEW s \in State, left[s] # <<>>,
         left' = [left EXCEPT ![s] = Tail(@)]
  PROVE  /\ left' \in [State -> Seq(State)]
         /\ Gone(s)' = Gone(s) + 1 /\ \A u \in State : u # s => Gone(u)' = Gone(u) /\ left'[u] = left[u]
         /\ \A k \in 1 .. Len(left'[s]) : left'[s][k] = fst.arcs[s][(Gone(s) + 1) + k]
<1>1. left \in [State -> Seq(State)] /\ left[s] \in Seq(State) /\ fst.arcs[s] \in Seq(State)
  BY DEF VisitTypeOK, SweepTypeOK, FstType
<1>2. /\ Len(left[s]) \in Nat \ {0} /\ Len(fst.arcs[s]) \in Nat
      /\ Tail(left[s]) \in Seq(State) /\ Len(Tail(left[s])) = Len(left[s]) - 1
      /\ \A k \in 1 .. Len(left[s]) - 1 : Tail(left[s])[k] = left[s][k + 1]
  BY <1>1
<1>3. left' \in [State -> Seq(State)] /\ left'[s] = Tail(left[s]) /\ \A u \in State : u # s => left'[u] = left[u]
  BY <1>1, <1>2
<1>4. Gone(s)' = Gone(s) + 1 /\ \A u \in State : u # s => Gone(u)' = Gone(u)
  BY <1>1, <1>2, <1>3 DEF Gone
<1>5. ASSUME NEW k \in 1 .. Len(left'[s]) PROVE left'[s][k] = fst.arcs[s][(Gone(s) + 1) + k]
  <2>1. k + 1 \in 1 .. Len(left[s]) /\ k \in 1 .. Len(left[s]) - 1 /\ Gone(s) \in Nat
    BY <1>2, <1>3 DEF ArcsAreFollowed
  <2>2. left[s][k + 1] = fst.arcs[s][Gone(s) + (k + 1)]
    BY <2>1 DEF ArcsAreFollowed
  <2>3. Gone(s) + (k + 1) = (Gone(s) + 1) + k
    BY <2>1
  <2> QED
    BY <1>2, <1>3, <2>1, <2>2, <2>3
<1> QED
  BY <1>3, <1>4, <1>5

\* States that are met later take nothing from what was followed.
LEMMA FollowedStays ==
  ASSUME N \in Nat, VisitTypeOK, ArcsAreFollowed, fst' = fst, how' = how, left' = left, dfs' => dfs,
         \A s \in State : color[s] # "White" => color'[s] # "White",
         \A s \in State : color'[s] = "Black" => color[s] = "Black" \/ (dfs' => left[s] = <<>>)
  PROVE  ArcsAreFollowed'
<1>1. ASSUME NEW s \in State
      PROVE  /\ Gone(s)' \in Nat
             /\ \A k \in 1 .. Len(left'[s]) : left'[s][k] = fst'.arcs[s][Gone(s)' + k]
             /\ \A k \in 1 .. Gone(s)' : <<s, fst'.arcs[s][k]>> \notin how'.dropped => color'[fst'.arcs[s][k]] # "White"
             /\ color'[s] = "White" => Gone(s)' = 0
             /\ dfs' /\ color'[s] = "Black" => left'[s] = <<>>
  <2>1. Gone(s)' = Gone(s) /\ Gone(s) \in Nat
    BY DEF Gone, ArcsAreFollowed
  <2>2. left[s] \in Seq(State) /\ fst.arcs[s] \in Seq(State)
    BY DEF VisitTypeOK, SweepTypeOK, FstType
  <2>3. \A k \in 1 .. Gone(s) : fst.arcs[s][k] \in State
    <3>1. Len(left[s]) \in Nat /\ Len(fst.arcs[s]) \in Nat /\ \A k \in 1 .. Len(fst.arcs[s]) : fst.arcs[s][k] \in State
      BY <2>2
    <3>2. \A n, m \in Nat : n - m <= n
      OBVIOUS
    <3>3. Gone(s) <= Len(fst.arcs[s])
      BY <3>1, <3>2 DEF Gone
    <3> QED
      BY <2>1, <3>1, <3>3
  <2> QED
    BY <2>1, <2>3 DEF ArcsAreFollowed
<1> QED
  BY <1>1 DEF ArcsAreFollowed

\* A copy has a list of arcs for each of its states.
CopyType == [arcs : Seq(Seq(State)), final : SUBSET State]

\* A state that is copied has room, and those below it that were not met yet have none in it.
LEMMA StatesAreCopied ==
  ASSUME N \in Nat, NEW copy \in CopyType, NEW s \in State, NEW c, c = CopyState(copy, s)
  PROVE  /\ c \in CopyType /\ Len(c.arcs) = Larger(Len(copy.arcs), s + 1) /\ c.final = copy.final
         /\ \A i \in 1 .. Len(c.arcs) : c.arcs[i] = IF i <= Len(copy.arcs) THEN copy.arcs[i] ELSE <<>>
<1> DEFINE n == Larger(Len(copy.arcs), s + 1)
           new == [i \in 1 .. n |-> IF i <= Len(copy.arcs) THEN copy.arcs[i] ELSE <<>>]
<1>1. copy.arcs \in Seq(Seq(State)) /\ copy.final \in SUBSET State /\ Len(copy.arcs) \in Nat /\ s \in Nat
  BY DEF CopyType, State
<1>2. n \in Nat
  BY <1>1 DEF Larger
<1>3. ASSUME NEW i \in 1 .. n PROVE (IF i <= Len(copy.arcs) THEN copy.arcs[i] ELSE <<>>) \in Seq(State)
  <2>1. CASE i <= Len(copy.arcs)
    <3>1. i \in 1 .. Len(copy.arcs)
      BY <1>1, <1>2, <2>1
    <3> QED
      BY <1>1, <2>1, <3>1
  <2>2. CASE ~(i <= Len(copy.arcs))
    BY <2>2
  <2> QED
    BY <2>1, <2>2
<1>4. c = [copy EXCEPT !.arcs = new]
  BY DEF CopyState
<1>5. c.arcs = new /\ c.final = copy.final /\ c = [arcs |-> new, final |-> copy.final]
  BY <1>4 DEF CopyType
<1> HIDE DEF n
<1>6. new \in [1 .. n -> Seq(State)]
  BY <1>3
<1>7. new \in Seq(Seq(State)) /\ Len(new) = n
  BY <1>2, <1>6
<1>8. c \in CopyType
  <2> HIDE DEF new
  <2> QED
    BY <1>1, <1>5, <1>7 DEF CopyType
<1> QED
  BY <1>5, <1>7, <1>8 DEF n

\* An arc that is copied is added to those of its state.
LEMMA ArcsAreCopied ==
  ASSUME N \in Nat, NEW copy \in CopyType, NEW s \in State, s < Len(copy.arcs), NEW t \in State, NEW c, c = CopyArc(copy, s, t)
  PROVE  /\ c \in CopyType /\ Len(c.arcs) = Len(copy.arcs) /\ c.final = copy.final
         /\ \A i \in 1 .. Len(c.arcs) : c.arcs[i] = IF i = s + 1 THEN Append(copy.arcs[i], t) ELSE copy.arcs[i]
<1>1. copy.arcs \in Seq(Seq(State)) /\ copy.final \in SUBSET State /\ Len(copy.arcs) \in Nat /\ s \in Nat
  BY DEF CopyType, State
<1>2. s + 1 \in 1 .. Len(copy.arcs)
  BY <1>1
<1> DEFINE new == [copy.arcs EXCEPT ![s + 1] = Append(@, t)]
<1>3. copy.arcs[s + 1] \in Seq(State) /\ Append(copy.arcs[s + 1], t) \in Seq(State)
  BY <1>1, <1>2
<1>4. new \in Seq(Seq(State)) /\ Len(new) = Len(copy.arcs)
      /\ \A i \in 1 .. Len(copy.arcs) : new[i] = IF i = s + 1 THEN Append(copy.arcs[i], t) ELSE copy.arcs[i]
  BY <1>1, <1>2, <1>3
<1>5. c = [copy EXCEPT !.arcs = new]
  BY DEF CopyArc, CopyType
<1> HIDE DEF new
<1>6. c.arcs = new /\ c.final = copy.final /\ c = [arcs |-> new, final |-> copy.final]
  BY <1>5 DEF CopyType
<1> QED
  BY <1>1, <1>4, <1>6 DEF CopyType

\* The root of the next tree is met.
LEMMA RootSweeps ==
  ASSUME FstsAssumption, VisitTypeOK, TreesSweep, how' = how, VisitRoot, color' = [color EXCEPT ![root] = "Grey"], met' # <<>>
  PROVE  TreesSweep'
<1>1. /\ at = "roots" /\ at' = "tree" /\ root' = root /\ fst' = fst /\ nstates' = nstates /\ siter' = siter
  BY DEF VisitRoot
<1>2. root \in State /\ dfs /\ color[root] = "White" /\ fst.start # None
  BY <1>1 DEF TreesSweep
<1>3. color \in [State -> {"White", "Grey", "Black"}] /\ nstates \in 0 .. N /\ N \in Nat
  BY DEF VisitTypeOK, SweepTypeOK, FstsAssumption
<1>4. CASE how.access_only
  BY <1>1, <1>2, <1>4 DEF TreesSweep
<1>5. CASE ~how.access_only
  <2>1. RootsSweep
    BY <1>5 DEF TreesSweep
  <2>2. root < nstates
    BY <1>1, <2>1 DEF RootsSweep
  <2>3. \A s \in State : s >= nstates => color'[s] = "White"
    BY <1>3, <2>1, <2>2 DEF RootsSweep, State
  <2>4. \A s \in State : color[s] # "White" => color'[s] # "White"
    BY <1>3
  <2>5. color'[root] # "White"
    BY <1>2, <1>3
  <2>6. RootsSweep'
    BY <1>1, <1>2, <2>1, <2>2, <2>3, <2>4, <2>5 DEF RootsSweep
  <2> QED
    BY <1>1, <1>2, <1>5, <2>6 DEF TreesSweep
<1> QED
  BY <1>4, <1>5

\* Within a tree.
LEMMA TreeSweeps ==
  ASSUME FstsAssumption, VisitTypeOK, TreesSweep, how' = how, at = "tree", at' = "tree", fst' = fst, root' = root, siter' = siter,
         met # <<>>, met' # <<>>, NEW t \in State, nstates' = nstates \/ nstates' = Larger(nstates, t + 1),
         \A s \in State : color[s] # "White" => color'[s] # "White",
         \A s \in State : color'[s] # "White" => color[s] # "White" \/ s < nstates'
  PROVE  TreesSweep' /\ nstates' \in 0 .. N
<1>1. root \in State /\ fst.start # None /\ t \in 0 .. N - 1 /\ N \in Nat /\ nstates \in 0 .. N
  BY DEF TreesSweep, VisitTypeOK, SweepTypeOK, State, FstsAssumption
<1>2. nstates' \in 0 .. N /\ nstates' >= nstates
  BY <1>1 DEF Larger
<1>3. CASE how.access_only
  BY <1>1, <1>2, <1>3 DEF TreesSweep
<1>4. CASE ~how.access_only
  <2>1. RootsSweep
    BY <1>4 DEF TreesSweep
  <2>2. \A s \in State : s >= nstates' => color'[s] = "White"
    <3> SUFFICES ASSUME NEW s \in State, s >= nstates', color'[s] # "White" PROVE FALSE
      OBVIOUS
    <3>1. s \in Nat /\ ~(s < nstates') /\ s >= nstates
      BY <1>1, <1>2 DEF State
    <3> QED
      BY <2>1, <3>1 DEF RootsSweep
  <2>3. fst.known => nstates' = N
    BY <1>1, <1>2, <2>1 DEF RootsSweep
  <2>4. ~fst.known => siter <= nstates'
    <3>1. siter \in 0 .. N
      BY DEF VisitTypeOK, SweepTypeOK
    <3> QED
      BY <1>1, <1>2, <2>1, <3>1 DEF RootsSweep
  <2>5. root < nstates'
    <3>1. root < nstates /\ root \in Nat
      BY <1>1, <2>1 DEF RootsSweep, State
    <3> QED
      BY <1>1, <1>2, <3>1
  <2>6. RootsSweep'
    BY <1>1, <2>1, <2>2, <2>3, <2>4, <2>5 DEF RootsSweep
  <2> QED
    BY <1>1, <1>2, <1>4, <2>6 DEF TreesSweep
<1> QED
  BY <1>3, <1>4

\* Kept is what its definition says.
LEMMA KeptIsCounted ==
  ASSUME NEW s, Len(fst.arcs[s]) \in Nat
  PROVE  /\ Kept(s)[0] = <<>>
         /\ \A n \in 0 .. Len(fst.arcs[s]) - 1 :
              Kept(s)[n + 1] = IF <<s, fst.arcs[s][n + 1]>> \in how.dropped THEN Kept(s)[n] ELSE Append(Kept(s)[n], fst.arcs[s][n + 1])
<1> DEFINE L == Len(fst.arcs[s])
           Next_(n, x) == IF <<s, fst.arcs[s][n]>> \in how.dropped THEN x ELSE Append(x, fst.arcs[s][n])
           Made(m, u) == u = [n \in 0 .. m |-> IF n = 0 THEN <<>> ELSE Next_(n, u[n - 1])]
           S == {m \in Nat : \E u : Made(m, u)}
<1>1. Kept(s) = CHOOSE u : Made(L, u)
  BY DEF Kept
<1> HIDE DEF Next_
<1>2. 0 \in S
  <2>1. Made(0, [n \in 0 .. 0 |-> <<>>])
    OBVIOUS
  <2> QED
    BY <2>1
<1>3. ASSUME NEW m \in Nat, m \in S PROVE m + 1 \in S
  <2>1. PICK u : Made(m, u)
    BY <1>3
  <2> DEFINE v == [n \in 0 .. m + 1 |-> IF n <= m THEN u[n] ELSE Next_(m + 1, u[m])]
  <2>2. Made(m + 1, v)
    <3>1. ASSUME NEW n \in 0 .. m + 1 PROVE v[n] = IF n = 0 THEN <<>> ELSE Next_(n, v[n - 1])
      <4>1. CASE n <= m
        BY <2>1, <4>1
      <4>2. CASE ~(n <= m)
        <5>1. n = m + 1 /\ n # 0 /\ n - 1 = m /\ m \in 0 .. m + 1 /\ m <= m
          BY <4>2
        <5> QED
          BY <5>1
      <4> QED
        BY <4>1, <4>2
    <3> QED
      BY <3>1
  <2> HIDE DEF v
  <2> QED
    BY <2>2
<1>4. PICK u : Made(L, u)
  <2> HIDE DEF S
  <2>1. L \in S
    BY <1>2, <1>3, SetInduction
  <2> QED
    BY <2>1 DEF S
<1>5. Made(L, Kept(s))
  <2> HIDE DEF Made
  <2> QED
    BY <1>1, <1>4
<1>6. Kept(s)[0] = <<>>
  BY <1>5
<1>7. ASSUME NEW n \in 0 .. L - 1 PROVE Kept(s)[n + 1] = Next_(n + 1, Kept(s)[n])
  <2>1. n + 1 \in 0 .. L /\ n + 1 # 0 /\ (n + 1) - 1 = n
    OBVIOUS
  <2>2. Kept(s)[n + 1] = Next_(n + 1, Kept(s)[(n + 1) - 1])
    BY <1>5, <2>1
  <2> QED
    BY <2>1, <2>2
<1> QED
  BY <1>6, <1>7 DEF Next_

\* What is in a copy.
LEMMA InCopy ==
  ASSUME NEW copy
  PROVE  /\ \A s, j : <<s, j>> \in Copied(copy) <=> s \in 0 .. Len(copy.arcs) - 1 /\ j \in DOMAIN copy.arcs[s + 1]
         /\ \A p \in Copied(copy) : p = <<p[1], p[2]>>
  BY DEF Copied

\* An arc that is copied is one more.
LEMMA CopyGrows ==
  ASSUME N \in Nat, NEW copy \in CopyType, NEW s \in State, s < Len(copy.arcs), NEW t \in State, NEW c, c = CopyArc(copy, s, t),
         NEW new, new = <<s, Len(copy.arcs[s + 1]) + 1>>
  PROVE  /\ Copied(c) = Copied(copy) \cup {new} /\ new \notin Copied(copy) /\ CopiedTo(c, new) = t
         /\ \A p \in Copied(copy) : CopiedTo(c, p) = CopiedTo(copy, p)
<1> DEFINE n == Len(copy.arcs[s + 1])
<1>1. new = <<s, n + 1>>
  OBVIOUS
<1>2. copy.arcs \in Seq(Seq(State)) /\ Len(copy.arcs) \in Nat /\ s \in 0 .. Len(copy.arcs) - 1 /\ s + 1 \in 1 .. Len(copy.arcs)
  BY DEF CopyType, State
<1>3. copy.arcs[s + 1] \in Seq(State) /\ n \in Nat /\ DOMAIN copy.arcs[s + 1] = 1 .. n
  BY <1>2
<1>4. /\ Len(c.arcs) = Len(copy.arcs)
      /\ \A i \in 1 .. Len(copy.arcs) : c.arcs[i] = IF i = s + 1 THEN Append(copy.arcs[i], t) ELSE copy.arcs[i]
  BY ArcsAreCopied
<1>5. /\ DOMAIN c.arcs[s + 1] = 1 .. n + 1 /\ c.arcs[s + 1][n + 1] = t
      /\ \A j \in 1 .. n : c.arcs[s + 1][j] = copy.arcs[s + 1][j]
  <2>1. c.arcs[s + 1] = Append(copy.arcs[s + 1], t)
    BY <1>2, <1>4
  <2> QED
    BY <1>3, <2>1, AppendProperties
<1>6. \A u \in 0 .. Len(copy.arcs) - 1 : u # s => c.arcs[u + 1] = copy.arcs[u + 1]
  <2> SUFFICES ASSUME NEW u \in 0 .. Len(copy.arcs) - 1, u # s PROVE c.arcs[u + 1] = copy.arcs[u + 1]
    OBVIOUS
  <2>1. u + 1 \in 1 .. Len(copy.arcs) /\ u + 1 # s + 1
    BY <1>2
  <2> QED
    BY <1>4, <2>1
<1> HIDE DEF n
<1>7. ASSUME NEW u, NEW j PROVE <<u, j>> \in Copied(c) <=> <<u, j>> \in Copied(copy) \/ <<u, j>> = new
  <2>1. <<u, j>> \in Copied(c) <=> u \in 0 .. Len(copy.arcs) - 1 /\ j \in DOMAIN c.arcs[u + 1]
    BY <1>4, InCopy
  <2>2. <<u, j>> \in Copied(copy) <=> u \in 0 .. Len(copy.arcs) - 1 /\ j \in DOMAIN copy.arcs[u + 1]
    BY InCopy
  <2>3. CASE u = s
    <3>1. j \in 1 .. n + 1 <=> j \in 1 .. n \/ j = n + 1
      BY <1>3
    <3>2. <<u, j>> \in Copied(c) <=> j \in 1 .. n + 1
      BY <1>2, <1>5, <2>1, <2>3
    <3>3. <<u, j>> \in Copied(copy) <=> j \in 1 .. n
      BY <1>2, <1>3, <2>2, <2>3
    <3>4. <<u, j>> = new <=> j = n + 1
      BY <1>1, <2>3
    <3> QED
      BY <3>1, <3>2, <3>3, <3>4
  <2>4. CASE u # s
    BY <1>1, <1>6, <2>1, <2>2, <2>4
  <2> QED
    BY <2>3, <2>4
<1>8. Copied(c) = Copied(copy) \cup {new}
  <2>1. \A p \in Copied(c) : p \in Copied(copy) \cup {new}
    BY <1>7, InCopy
  <2>2. \A p \in Copied(copy) \cup {new} : p \in Copied(c)
    BY <1>1, <1>7, InCopy
  <2> QED
    BY <2>1, <2>2
<1>9. new \notin Copied(copy)
  <2>1. n + 1 \notin 1 .. n
    BY <1>3
  <2> QED
    BY <1>1, <1>3, <2>1, InCopy
<1>10. ASSUME NEW p \in Copied(copy) PROVE CopiedTo(c, p) = CopiedTo(copy, p)
  <2>1. p[1] \in 0 .. Len(copy.arcs) - 1 /\ p[2] \in DOMAIN copy.arcs[p[1] + 1]
    BY InCopy
  <2>2. CASE p[1] = s
    BY <1>3, <1>5, <2>1, <2>2 DEF CopiedTo
  <2>3. CASE p[1] # s
    BY <1>6, <2>1, <2>3 DEF CopiedTo
  <2> QED
    BY <2>2, <2>3
<1>11. CopiedTo(c, new) = t
  BY <1>1, <1>5 DEF CopiedTo
<1> QED
  BY <1>8, <1>9, <1>10, <1>11

\* Room for a state is none for arcs.
LEMMA CopyStays ==
  ASSUME N \in Nat, NEW copy \in CopyType, NEW s \in State, NEW c, c = CopyState(copy, s)
  PROVE  Copied(c) = Copied(copy) /\ \A p \in Copied(copy) : CopiedTo(c, p) = CopiedTo(copy, p)
<1>1. copy.arcs \in Seq(Seq(State)) /\ Len(copy.arcs) \in Nat /\ s \in Nat
  BY DEF CopyType, State
<1>2. /\ c \in CopyType /\ Len(c.arcs) = Larger(Len(copy.arcs), s + 1)
      /\ \A i \in 1 .. Len(c.arcs) : c.arcs[i] = IF i <= Len(copy.arcs) THEN copy.arcs[i] ELSE <<>>
  BY StatesAreCopied
<1>3. Len(c.arcs) \in Nat /\ Len(c.arcs) >= Len(copy.arcs)
  BY <1>1, <1>2 DEF Larger
<1>4. ASSUME NEW u \in 0 .. Len(c.arcs) - 1
      PROVE  c.arcs[u + 1] = IF u < Len(copy.arcs) THEN copy.arcs[u + 1] ELSE <<>>
  <2>1. u + 1 \in 1 .. Len(c.arcs) /\ (u < Len(copy.arcs) <=> u + 1 <= Len(copy.arcs))
    BY <1>1, <1>3
  <2> QED
    BY <1>2, <2>1
<1>5. ASSUME NEW u, NEW j PROVE <<u, j>> \in Copied(c) <=> <<u, j>> \in Copied(copy)
  <2>1. <<u, j>> \in Copied(c) <=> u \in 0 .. Len(c.arcs) - 1 /\ j \in DOMAIN c.arcs[u + 1]
    BY InCopy
  <2>2. <<u, j>> \in Copied(copy) <=> u \in 0 .. Len(copy.arcs) - 1 /\ j \in DOMAIN copy.arcs[u + 1]
    BY InCopy
  <2>3. u \in 0 .. Len(copy.arcs) - 1 <=> u \in 0 .. Len(c.arcs) - 1 /\ u < Len(copy.arcs)
    BY <1>1, <1>3
  <2>4. DOMAIN <<>> = {}
    OBVIOUS
  <2> QED
    BY <1>4, <2>1, <2>2, <2>3, <2>4
<1>6. Copied(c) = Copied(copy)
  <2>1. \A p \in Copied(c) : p \in Copied(copy)
    BY <1>5, InCopy
  <2>2. \A p \in Copied(copy) : p \in Copied(c)
    BY <1>5, InCopy
  <2> QED
    BY <2>1, <2>2
<1>7. ASSUME NEW p \in Copied(copy) PROVE CopiedTo(c, p) = CopiedTo(copy, p)
  <2>1. p[1] \in 0 .. Len(copy.arcs) - 1 /\ p[1] \in 0 .. Len(c.arcs) - 1
    BY <1>1, <1>3, InCopy
  <2>2. p[1] < Len(copy.arcs)
    BY <1>1, <2>1
  <2> QED
    BY <1>4, <2>1, <2>2 DEF CopiedTo
<1> QED
  BY <1>6, <1>7

\* With room for one more state, what was kept is still so.
LEMMA RoomIsMade ==
  ASSUME N \in Nat, NEW copy \in CopyType, Len(copy.arcs) <= N, NEW s \in State, NEW c, c = CopyState(copy, s)
  PROVE  /\ Len(c.arcs) <= N /\ s < Len(c.arcs) /\ Len(copy.arcs) <= Len(c.arcs) /\ c.final = copy.final
         /\ \A u \in State : u < Len(c.arcs) => c.arcs[u + 1] = IF u < Len(copy.arcs) THEN copy.arcs[u + 1] ELSE <<>>
<1>1. Len(copy.arcs) \in Nat /\ s \in 0 .. N - 1
  BY DEF CopyType, State
<1>2. /\ c \in CopyType /\ Len(c.arcs) = Larger(Len(copy.arcs), s + 1) /\ c.final = copy.final
      /\ \A i \in 1 .. Len(c.arcs) : c.arcs[i] = IF i <= Len(copy.arcs) THEN copy.arcs[i] ELSE <<>>
  BY StatesAreCopied
<1>3. Len(c.arcs) <= N /\ s < Len(c.arcs) /\ Len(copy.arcs) <= Len(c.arcs) /\ Len(c.arcs) \in Nat
  BY <1>1, <1>2 DEF Larger
<1>4. ASSUME NEW u \in State, u < Len(c.arcs)
      PROVE  c.arcs[u + 1] = IF u < Len(copy.arcs) THEN copy.arcs[u + 1] ELSE <<>>
  <2>1. u + 1 \in 1 .. Len(c.arcs) /\ (u < Len(copy.arcs) <=> u + 1 <= Len(copy.arcs))
    BY <1>1, <1>3, <1>4 DEF State
  <2> QED
    BY <1>2, <2>1
<1> QED
  BY <1>2, <1>3, <1>4

\* A root adds a state to the copy, and no arc.
LEMMA RootIsCopied ==
  ASSUME N \in Nat, VisitTypeOK, StatesAreListed, ArcsAreFollowed, CopyIsKept,
         fst' = fst, how' = how, left' = left, NEW s \in State, color[s] = "White",
         color' = [color EXCEPT ![s] = "Grey"], met' = Append(met, s), ofst' = CopyState(ofst, s),
         how.access_only => met = <<>>
  PROVE  CopyIsKept'
<1>1. /\ ofst \in CopyType /\ color \in [State -> {"White", "Grey", "Black"}] /\ met \in Seq(State) /\ fst.final \subseteq State
      /\ Len(ofst.arcs) <= N /\ Len(ofst.arcs) \in Nat
  BY DEF VisitTypeOK, SweepTypeOK, FstType, CopyType, CopyIsKept
<1>2. /\ Len(ofst'.arcs) <= N /\ s < Len(ofst'.arcs) /\ Len(ofst.arcs) <= Len(ofst'.arcs) /\ ofst'.final = ofst.final
      /\ \A u \in State : u < Len(ofst'.arcs) => ofst'.arcs[u + 1] = IF u < Len(ofst.arcs) THEN ofst.arcs[u + 1] ELSE <<>>
      /\ ofst' \in CopyType
  BY <1>1, RoomIsMade, StatesAreCopied
<1>3. Copied(ofst') = Copied(ofst) /\ \A p \in Copied(ofst) : CopiedTo(ofst', p) = CopiedTo(ofst, p)
  BY <1>1, CopyStays
<1>4. ToSet(met') = ToSet(met) \cup {s} /\ Len(Append(met, s)) = Len(met) + 1
  BY <1>1, AddingOne
<1>5. \A u \in ToSet(met') : u < Len(ofst'.arcs)
  <2>1. \A u \in ToSet(met) : u < Len(ofst.arcs) /\ u \in Nat
    BY DEF CopyIsKept, StatesAreListed, State
  <2>2. Len(ofst'.arcs) \in Nat
    BY <1>2 DEF CopyType
  <2> QED
    BY <1>1, <1>2, <1>4, <2>1, <2>2
<1>6. ofst'.final = {u \in fst.final : color'[u] = "Black"}
  <2>1. ofst.final = {u \in fst.final : color[u] = "Black"}
    BY DEF CopyIsKept
  <2>2. \A u \in fst.final : color'[u] = "Black" <=> color[u] = "Black"
    BY <1>1
  <2> QED
    BY <1>2, <2>1, <2>2
<1>7. \A p \in Copied(ofst') : CopiedTo(ofst', p) \in ToSet(met')
  BY <1>3, <1>4 DEF CopyIsKept
<1>8. ASSUME how.copy_grey, how.copy_black, NEW u \in State, u < Len(ofst'.arcs)
      PROVE  ofst'.arcs[u + 1] = Kept(u)'[Gone(u)']
  <2>1. Kept(u)' = Kept(u) /\ Gone(u)' = Gone(u)
    BY DEF Kept, Gone
  <2>2. CASE u < Len(ofst.arcs)
    BY <1>2, <1>8, <2>1, <2>2 DEF CopyIsKept
  <2>3. CASE ~(u < Len(ofst.arcs))
    <3>1. u \notin ToSet(met)
      BY <2>3 DEF CopyIsKept
    <3>2. Gone(u) = 0
      BY <3>1 DEF StatesAreListed, ArcsAreFollowed
    <3>3. Kept(u)[0] = <<>>
      <4>1. Len(fst.arcs[u]) \in Nat
        BY DEF VisitTypeOK, SweepTypeOK, FstType
      <4> QED
        BY <4>1, KeptIsCounted
    <3> QED
      BY <1>2, <1>8, <2>1, <2>3, <3>2, <3>3
  <2> QED
    BY <2>2, <2>3
<1>9. ~how.copy_grey /\ ~how.copy_black => \A p, q \in Copied(ofst') : CopiedTo(ofst', p) = CopiedTo(ofst', q) => p = q
  BY <1>3 DEF CopyIsKept
<1>10. how.access_only => \A i \in DOMAIN met' : i # 1 => \E p \in Copied(ofst') : CopiedTo(ofst', p) = met'[i]
  <2> SUFFICES ASSUME how.access_only, NEW i \in DOMAIN met' PROVE i = 1
    OBVIOUS
  <2>1. met = <<>>
    OBVIOUS
  <2>2. Len(Append(met, s)) = 1 /\ DOMAIN Append(met, s) = 1 .. 1
    BY <1>1, <1>4, <2>1
  <2> QED
    BY <2>2
<1> QED
  BY <1>2, <1>5, <1>6, <1>7, <1>8, <1>9, <1>10 DEF CopyIsKept

\* One more arc of s is gone; it is copied if it is kept and leads to a new state
\* or to one of a color whose arcs are.
LEMMA ArcIsCopied ==
  ASSUME N \in Nat, VisitTypeOK, StatesAreListed, ArcsAreFollowed, CopyIsKept,
         fst' = fst, how' = how, NEW s \in State, color[s] # "White", left[s] # <<>>,
         left' = [left EXCEPT ![s] = Tail(@)],
         NEW t, t = Head(left[s]), NEW kept \in BOOLEAN, kept <=> <<s, t>> \notin how.dropped,
         NEW copies \in BOOLEAN, copies <=> \/ color[t] = "Grey" /\ how.copy_grey
                                            \/ color[t] = "Black" /\ how.copy_black,
         IF kept /\ color[t] = "White" THEN Meet(t, CopyArc(ofst, s, t))
         ELSE /\ ofst' = IF kept /\ copies THEN CopyArc(ofst, s, t) ELSE ofst
              /\ UNCHANGED <<met, color, stack, dfs>>
  PROVE  CopyIsKept' /\ ofst' \in CopyType
<1> DEFINE c == CopyArc(ofst, s, t)
<1>1. /\ ofst \in CopyType /\ color \in [State -> {"White", "Grey", "Black"}] /\ met \in Seq(State) /\ fst.final \subseteq State
      /\ Len(ofst.arcs) <= N /\ Len(ofst.arcs) \in Nat
  BY DEF VisitTypeOK, SweepTypeOK, FstType, CopyType, CopyIsKept
<1>2. /\ Gone(s) \in Nat /\ Gone(s) + 1 \in 1 .. Len(fst.arcs[s]) /\ t = fst.arcs[s][Gone(s) + 1] /\ t \in State
      /\ Gone(s)' = Gone(s) + 1 /\ \A u \in State : u # s => Gone(u)' = Gone(u)
  BY GivingUp, GoneOn
<1>3. s \in ToSet(met) /\ s < Len(ofst.arcs)
  BY DEF StatesAreListed, CopyIsKept
<1>4. /\ c \in CopyType /\ Len(c.arcs) = Len(ofst.arcs) /\ c.final = ofst.final
      /\ \A i \in 1 .. Len(c.arcs) : c.arcs[i] = IF i = s + 1 THEN Append(ofst.arcs[i], t) ELSE ofst.arcs[i]
  BY <1>1, <1>2, <1>3, ArcsAreCopied
<1> DEFINE new == <<s, Len(ofst.arcs[s + 1]) + 1>>
<1> HIDE DEF c, new
<1>5. /\ Copied(c) = Copied(ofst) \cup {new} /\ new \notin Copied(ofst) /\ CopiedTo(c, new) = t
      /\ \A p \in Copied(ofst) : CopiedTo(c, p) = CopiedTo(ofst, p)
  <2>1. c = CopyArc(ofst, s, t) /\ new = <<s, Len(ofst.arcs[s + 1]) + 1>>
    BY DEF c, new
  <2> QED
    BY <1>1, <1>2, <1>3, <2>1, CopyGrows
<1>6. ASSUME NEW u \in State, u < Len(ofst.arcs)
      PROVE  c.arcs[u + 1] = IF u = s THEN Append(ofst.arcs[u + 1], t) ELSE ofst.arcs[u + 1]
  <2>1. u + 1 \in 1 .. Len(ofst.arcs) /\ s \in Nat /\ u \in Nat /\ (u + 1 = s + 1 <=> u = s)
    BY <1>1, <1>6 DEF State
  <2> QED
    BY <1>4, <2>1
<1>7. \A u : Kept(u)' = Kept(u)
  BY DEF Kept
<1>8. /\ kept => Kept(s)[Gone(s) + 1] = Append(Kept(s)[Gone(s)], t)
      /\ ~kept => Kept(s)[Gone(s) + 1] = Kept(s)[Gone(s)]
  <2>1. Len(fst.arcs[s]) \in Nat /\ Gone(s) \in 0 .. Len(fst.arcs[s]) - 1
    <3>1. Len(fst.arcs[s]) \in Nat
      BY DEF VisitTypeOK, SweepTypeOK, FstType
    <3> QED
      BY <1>2, <3>1
  <2> QED
    BY <1>2, <2>1, KeptIsCounted
<1>9. ASSUME how.copy_grey, how.copy_black, NEW u \in State, u < Len(ofst.arcs)
      PROVE  /\ kept => c.arcs[u + 1] = Kept(u)[Gone(u)']
             /\ ~kept => ofst.arcs[u + 1] = Kept(u)[Gone(u)']
  <2>1. ofst.arcs[u + 1] = Kept(u)[Gone(u)]
    BY <1>9 DEF CopyIsKept
  <2>2. CASE u = s
    BY <1>2, <1>6, <1>8, <1>9, <2>1, <2>2
  <2>3. CASE u # s
    BY <1>2, <1>6, <1>9, <2>1, <2>3
  <2> QED
    BY <2>2, <2>3
<1>10. CASE kept /\ color[t] = "White"
  <2>1. ofst' = CopyState(c, t) /\ met' = Append(met, t) /\ color' = [color EXCEPT ![t] = "Grey"]
    BY <1>10 DEF Meet, c
  <2>2. /\ Len(ofst'.arcs) <= N /\ t < Len(ofst'.arcs) /\ Len(ofst.arcs) <= Len(ofst'.arcs) /\ ofst'.final = ofst.final
        /\ \A u \in State : u < Len(ofst'.arcs) => ofst'.arcs[u + 1] = IF u < Len(ofst.arcs) THEN c.arcs[u + 1] ELSE <<>>
        /\ ofst' \in CopyType
    <3>1. c \in CopyType /\ Len(c.arcs) <= N
      BY <1>1, <1>4
    <3>2. ofst' \in CopyType
      BY <1>2, <2>1, <3>1, StatesAreCopied
    <3>3. PICK d : d = CopyState(c, t)
      OBVIOUS
    <3>4. t \in State
      BY <1>2
    <3>5. /\ Len(d.arcs) <= N /\ t < Len(d.arcs) /\ Len(c.arcs) <= Len(d.arcs) /\ d.final = c.final
          /\ \A u \in State : u < Len(d.arcs) => d.arcs[u + 1] = IF u < Len(c.arcs) THEN c.arcs[u + 1] ELSE <<>>
      BY <3>1, <3>3, <3>4, RoomIsMade
    <3>6. ofst' = d
      BY <2>1, <3>3
    <3> QED
      BY <1>4, <3>2, <3>5, <3>6
  <2>3. Copied(ofst') = Copied(c) /\ \A p \in Copied(c) : CopiedTo(ofst', p) = CopiedTo(c, p)
    BY <1>2, <1>4, <2>1, CopyStays
  <2>4. /\ Copied(ofst') = Copied(ofst) \cup {new} /\ CopiedTo(ofst', new) = t
        /\ \A p \in Copied(ofst) : CopiedTo(ofst', p) = CopiedTo(ofst, p)
    BY <1>5, <2>3
  <2>5. /\ ToSet(met') = ToSet(met) \cup {t} /\ Len(met') = Len(met) + 1 /\ Len(met) \in Nat
        /\ met' \in Seq(State) /\ met'[Len(met) + 1] = t /\ \A i \in 1 .. Len(met) : met'[i] = met[i]
    BY <1>1, <1>2, <2>1, AddingOne
  <2>6. t \notin ToSet(met)
    BY <1>10 DEF StatesAreListed
  <2>7. \A u \in ToSet(met') : u < Len(ofst'.arcs)
    <3>1. \A u \in ToSet(met) : u < Len(ofst.arcs) /\ u \in Nat
      BY DEF CopyIsKept, StatesAreListed, State
    <3>2. Len(ofst'.arcs) \in Nat
      BY <2>2 DEF CopyType
    <3> QED
      BY <1>1, <2>2, <2>5, <3>1, <3>2
  <2>8. ofst'.final = {u \in fst.final : color'[u] = "Black"}
    <3>1. ofst.final = {u \in fst.final : color[u] = "Black"}
      BY DEF CopyIsKept
    <3>2. \A u \in fst.final : color'[u] = "Black" <=> color[u] = "Black"
      BY <1>1, <1>10, <2>1
    <3> QED
      BY <2>2, <3>1, <3>2
  <2>9. \A p \in Copied(ofst') : CopiedTo(ofst', p) \in ToSet(met')
    BY <2>4, <2>5 DEF CopyIsKept
  <2>10. ASSUME how.copy_grey, how.copy_black, NEW u \in State, u < Len(ofst'.arcs)
         PROVE  ofst'.arcs[u + 1] = Kept(u)'[Gone(u)']
    <3>1. CASE u < Len(ofst.arcs)
      BY <1>7, <1>9, <1>10, <2>2, <2>10, <3>1
    <3>2. CASE ~(u < Len(ofst.arcs))
      <4>1. u \notin ToSet(met) /\ u # s
        BY <1>3, <3>2 DEF CopyIsKept
      <4>2. Gone(u)' = 0
        BY <1>2, <4>1 DEF StatesAreListed, ArcsAreFollowed
      <4>3. Kept(u)[0] = <<>>
        <5>1. Len(fst.arcs[u]) \in Nat
          BY DEF VisitTypeOK, SweepTypeOK, FstType
        <5> QED
          BY <5>1, KeptIsCounted
      <4> QED
        BY <1>7, <2>2, <2>10, <3>2, <4>2, <4>3
    <3> QED
      BY <3>1, <3>2
  <2>11. ~how.copy_grey /\ ~how.copy_black => \A p, q \in Copied(ofst') : CopiedTo(ofst', p) = CopiedTo(ofst', q) => p = q
    <3>1. \A p \in Copied(ofst) : CopiedTo(ofst', p) # t
      BY <2>4, <2>6 DEF CopyIsKept
    <3> QED
      BY <2>4, <3>1 DEF CopyIsKept
  <2>12. ASSUME how.access_only, NEW i \in DOMAIN met', i # 1 PROVE \E p \in Copied(ofst') : CopiedTo(ofst', p) = met'[i]
    <3>1. i \in 1 .. Len(met) \/ i = Len(met) + 1
      BY <2>5
    <3>2. CASE i \in 1 .. Len(met)
      <4>1. i \in DOMAIN met
        BY <1>1, <3>2
      <4>2. PICK p \in Copied(ofst) : CopiedTo(ofst, p) = met[i]
        BY <2>12, <4>1 DEF CopyIsKept
      <4> QED
        BY <2>4, <2>5, <3>2, <4>2
    <3>3. CASE i = Len(met) + 1
      BY <2>4, <2>5, <3>3
    <3> QED
      BY <3>1, <3>2, <3>3
  <2> QED
    BY <2>2, <2>7, <2>8, <2>9, <2>10, <2>11, <2>12 DEF CopyIsKept
<1>11. CASE ~(kept /\ color[t] = "White")
  <2>1. met' = met /\ color' = color /\ ofst' = IF kept /\ copies THEN c ELSE ofst
    BY <1>11 DEF c
  <2>2. kept => t \in ToSet(met)
    BY <1>2, <1>11 DEF StatesAreListed
  <2>3. color[t] \in {"White", "Grey", "Black"}
    BY <1>1, <1>2
  <2>4. CASE kept /\ copies
    <3>1. ofst' = c
      BY <2>1, <2>4
    <3>2. Len(ofst'.arcs) <= N /\ (\A u \in ToSet(met') : u < Len(ofst'.arcs)) /\ ofst'.final = {u \in fst.final : color'[u] = "Black"}
      BY <1>4, <2>1, <3>1 DEF CopyIsKept
    <3>3. \A p \in Copied(ofst') : CopiedTo(ofst', p) \in ToSet(met')
      BY <1>5, <2>1, <2>2, <2>4, <3>1 DEF CopyIsKept
    <3>4. how.copy_grey /\ how.copy_black =>
            \A u \in State : u < Len(ofst'.arcs) => ofst'.arcs[u + 1] = Kept(u)'[Gone(u)']
      BY <1>4, <1>7, <1>9, <2>4, <3>1
    <3>5. how.copy_grey \/ how.copy_black
      BY <2>4
    <3>6. how.access_only => \A i \in DOMAIN met' : i # 1 => \E p \in Copied(ofst') : CopiedTo(ofst', p) = met'[i]
      BY <1>5, <2>1, <3>1 DEF CopyIsKept
    <3> QED
      BY <1>4, <3>1, <3>2, <3>3, <3>4, <3>5, <3>6 DEF CopyIsKept
  <2>5. CASE ~(kept /\ copies)
    <3>1. ofst' = ofst
      BY <2>1, <2>5
    <3>2. how.copy_grey /\ how.copy_black => ~kept
      BY <1>11, <2>3, <2>5
    <3>3. how.copy_grey /\ how.copy_black =>
            \A u \in State : u < Len(ofst'.arcs) => ofst'.arcs[u + 1] = Kept(u)'[Gone(u)']
      BY <1>7, <1>9, <3>1, <3>2
    <3> QED
      BY <1>1, <2>1, <3>1, <3>3 DEF CopyIsKept
  <2> QED
    BY <2>4, <2>5
<1> QED
  BY <1>10, <1>11

\* A state that finishes is final in the copy if it is in the automaton.
LEMMA FinalIsCopied ==
  ASSUME N \in Nat, VisitTypeOK, CopyIsKept, fst' = fst, how' = how, left' = left, met' = met, NEW s \in State,
         color' = [color EXCEPT ![s] = "Black"],
         ofst' = [ofst EXCEPT !.final = IF s \in fst.final THEN @ \cup {s} ELSE @ \ {s}]
  PROVE  CopyIsKept' /\ ofst' \in CopyType
<1>1. /\ ofst \in CopyType /\ color \in [State -> {"White", "Grey", "Black"}] /\ fst.final \subseteq State
      /\ ofst.final = {u \in fst.final : color[u] = "Black"}
  BY DEF VisitTypeOK, SweepTypeOK, FstType, CopyType, CopyIsKept
<1>2. ofst'.arcs = ofst.arcs /\ ofst'.final = (IF s \in fst.final THEN ofst.final \cup {s} ELSE ofst.final \ {s}) /\ ofst' \in CopyType
  BY <1>1 DEF CopyType
<1>3. ofst'.final = {u \in fst.final : color'[u] = "Black"}
  <2>1. \A u \in fst.final : color'[u] = "Black" <=> color[u] = "Black" \/ u = s
    BY <1>1
  <2> QED
    BY <1>1, <1>2, <2>1
<1>4. Copied(ofst') = Copied(ofst) /\ \A p : CopiedTo(ofst', p) = CopiedTo(ofst, p)
  BY <1>2 DEF Copied, CopiedTo
<1>5. \A u : Kept(u)' = Kept(u) /\ Gone(u)' = Gone(u)
  BY DEF Kept, Gone
<1> QED
  BY <1>2, <1>3, <1>4, <1>5 DEF CopyIsKept

\* What a state with no arcs left leads to has been met.
LEMMA AllAreFollowed ==
  ASSUME N \in Nat, VisitTypeOK, ArcsAreFollowed, NEW s \in State, left[s] = <<>>, NEW t \in State, KeptArc(s, t)
  PROVE  color[t] # "White"
<1>1. Gone(s) \in Nat
  BY DEF ArcsAreFollowed
<1>2. fst.arcs[s] \in Seq(State) /\ Len(left[s]) = 0 /\ Gone(s) = Len(fst.arcs[s]) - Len(left[s]) /\ Len(fst.arcs[s]) \in Nat
  BY <1>1 DEF VisitTypeOK, SweepTypeOK, FstType, Gone
<1>3. Gone(s) = Len(fst.arcs[s])
  BY <1>1, <1>2
<1>4. PICK i \in 1 .. Len(fst.arcs[s]) : fst.arcs[s][i] = t
  BY DEF KeptArc, Arc
<1>5. <<s, fst.arcs[s][i]>> \notin how.dropped
  BY <1>4 DEF KeptArc
<1> QED
  BY <1>3, <1>4, <1>5 DEF ArcsAreFollowed

\* A state finishes when it has none left, unless the visit was stopped.
LEMMA FinishedLeadOn ==
  ASSUME N \in Nat, VisitTypeOK, ArcsAreFollowed, dfs, NEW s \in State, color[s] = "Black", NEW t \in State, KeptArc(s, t)
  PROVE  color[t] # "White"
<1>1. left[s] = <<>>
  BY DEF ArcsAreFollowed
<1> QED
  BY <1>1, AllAreFollowed

\* The first of those met is one of them.
LEMMA StartIsMet ==
  ASSUME N \in Nat, VisitTypeOK, MetAreReached, met # <<>>
  PROVE  fst.start \in ToSet(met) /\ fst.start \in State
<1>1. met \in Seq(State) /\ 1 \in 1 .. Len(met) /\ DOMAIN met = 1 .. Len(met)
  BY DEF VisitTypeOK
<1> QED
  BY <1>1 DEF MetAreReached, ToSet

\* A level that is all met takes no more; one in which all is met takes what is in it.
LEMMA LevelTakes ==
  ASSUME N \in Nat, NEW near, met \in Seq(State), NEW s \in State, s \notin ToSet(met), met' = Append(met, s),
         \/ near \subseteq ToSet(met) /\ LevelIsMet(met, near)
         \/ ToSet(met) \subseteq near /\ s \in near
  PROVE  LevelIsMet(met', near)
<1>1. /\ ToSet(met') = ToSet(met) \cup {s} /\ Len(met') = Len(met) + 1 /\ DOMAIN met' = 1 .. Len(met) + 1 /\ Len(met) \in Nat
      /\ met' \in Seq(State) /\ met'[Len(met) + 1] = s /\ (\A i \in 1 .. Len(met) : met'[i] = met[i]) /\ DOMAIN met = 1 .. Len(met)
  BY AddingOne
<1>2. CASE near \subseteq ToSet(met) /\ LevelIsMet(met, near)
  <2>1. ASSUME NEW i \in DOMAIN met', NEW j \in DOMAIN met', i < j, met'[j] \in near PROVE met'[i] \in near
    <3>1. met'[j] # s
      BY <1>2, <2>1
    <3>2. j \in 1 .. Len(met) /\ i \in 1 .. Len(met)
      BY <1>1, <2>1, <3>1
    <3> QED
      BY <1>1, <1>2, <2>1, <3>2 DEF LevelIsMet
  <2> QED
    BY <1>1, <1>2, <2>1 DEF LevelIsMet
<1>3. CASE ToSet(met) \subseteq near /\ s \in near
  <2>1. ToSet(met') \subseteq near
    BY <1>1, <1>3
  <2>2. \A i \in DOMAIN met' : met'[i] \in near
    BY <2>1 DEF ToSet
  <2> QED
    BY <2>1, <2>2 DEF LevelIsMet
<1> QED
  BY <1>2, <1>3

\* A root that is met is the start, or all the start leads to has been met.
LEMMA RootIsInLevel ==
  ASSUME N \in Nat, VisitTypeOK, StatesAreListed, ArcsAreFollowed, MetAreReached, dfs, stack = <<>>,
         NEW s \in State, color[s] = "White", met' = Append(met, s), fst.start \in State, met = <<>> => s = fst.start,
         NEW k \in 0 .. N, LevelIsMet(met, Steps[k][fst.start])
  PROVE  LevelIsMet(met', Steps[k][fst.start])
<1> DEFINE near == Steps[k][fst.start]
<1>1. met \in Seq(State) /\ s \notin ToSet(met) /\ ToSet(met) \subseteq State
  BY DEF VisitTypeOK, StatesAreListed
<1>2. CASE met = <<>>
  <2>1. ToSet(met) = {}
    BY <1>2 DEF ToSet
  <2>2. s \in near
    BY <1>2, StepsAreThere
  <2> QED
    BY <1>1, <2>1, <2>2, LevelTakes
<1>3. CASE met # <<>>
  <2>1. fst.start \in ToSet(met)
    BY <1>3, StartIsMet
  <2>2. ASSUME NEW x \in ToSet(met), NEW y \in State, KeptArc(x, y) PROVE y \in ToSet(met)
    <3>1. ToSet(stack) = {}
      BY DEF ToSet
    <3>2. x \in State /\ color[x] # "White" /\ color[x] # "Grey"
      BY <3>1 DEF StatesAreListed
    <3>3. color[x] = "Black"
      BY <3>2 DEF VisitTypeOK, SweepTypeOK
    <3>4. color[y] # "White"
      BY <2>2, <3>2, <3>3, FinishedLeadOn
    <3> QED
      BY <3>4 DEF StatesAreListed
  <2>3. near \subseteq ToSet(met)
    BY <1>1, <2>1, <2>2, StepsStayInside
  <2> QED
    BY <1>1, <2>3, LevelTakes
<1> QED
  BY <1>2, <1>3

\* The level of a state that is met from the head: the level before is finished,
\* or the state is in it or in the next.
LEMMA TargetIsInLevel ==
  ASSUME N \in Nat, VisitTypeOK, StatesAreListed, ArcsAreFollowed, MetAreReached, dfs, met # <<>>, met = finish \o stack, stack # <<>>,
         NEW s, s = stack[1], NEW t \in State, KeptArc(s, t), color[t] = "White", met' = Append(met, t),
         \A k \in 0 .. N : LevelIsMet(met, Steps[k][fst.start]),
         NEW k \in 0 .. N
  PROVE  LevelIsMet(met', Steps[k][fst.start])
<1> DEFINE near == Steps[k][fst.start]
<1>1. met \in Seq(State) /\ t \notin ToSet(met) /\ fst.start \in ToSet(met) /\ fst.start \in State
  BY StartIsMet DEF VisitTypeOK, StatesAreListed
<1>2. LevelIsMet(met, near)
  OBVIOUS
<1>3. CASE near \subseteq ToSet(met)
  BY <1>1, <1>2, <1>3, LevelTakes
<1>4. CASE ToSet(met) \subseteq near /\ t \in near
  BY <1>1, <1>4, LevelTakes
<1>5. CASE ~(near \subseteq ToSet(met)) /\ t \notin near
  <2> SUFFICES near \subseteq ToSet(met)
    BY <1>5
  <2>1. CASE k = 0
    BY <1>1, <2>1, StepsStart
  <2>2. CASE k # 0
    <3> DEFINE before == Steps[k - 1][fst.start]
    <3>1. k - 1 \in 0 .. N - 1 /\ k - 1 \in 0 .. N /\ (k - 1) + 1 = k
      BY <2>2
    <3>2. \A x \in State : x \in near <=> x \in before \/ \E u \in State : u \in before /\ KeptArc(u, x)
      BY <1>1, <3>1, StepsGoOn
    <3>3. before \subseteq State /\ near \subseteq State
      BY <1>1, <3>1, StepsAreThere
    <3>4. LevelIsMet(met, before)
      BY <3>1
    <3> HIDE DEF before, near
    <3>5. /\ finish \in Seq(State) /\ stack \in Seq(State) /\ Len(finish) \in Nat /\ Len(stack) \in Nat \ {0}
          /\ DOMAIN met = 1 .. Len(finish) + Len(stack)
          /\ \A i \in 1 .. Len(finish) + Len(stack) : met[i] = IF i <= Len(finish) THEN finish[i] ELSE stack[i - Len(finish)]
      <4>1. finish \in Seq(State) /\ stack \in Seq(State)
        BY DEF VisitTypeOK
      <4> QED
        BY <4>1, ConcatProperties
    <3>6. Len(finish) + 1 \in DOMAIN met /\ met[Len(finish) + 1] = s
      <4>1. Len(finish) + 1 \in 1 .. Len(finish) + Len(stack) /\ ~(Len(finish) + 1 <= Len(finish)) /\ (Len(finish) + 1) - Len(finish) = 1
        BY <3>5
      <4> QED
        BY <3>5, <4>1
    <3>7. s \in State
      BY <1>1, <3>6
    <3>8. s \notin before
      BY <1>5, <3>2, <3>7
    <3>9. before \subseteq ToSet(met)
      BY <3>4, <3>6, <3>8 DEF LevelIsMet, ToSet
    <3>10. ASSUME NEW x \in before PROVE color[x] = "Black"
      <4>1. PICK j \in DOMAIN met : met[j] = x
        BY <3>9 DEF ToSet
      <4>2. ~(Len(finish) + 1 < j)
        BY <3>4, <3>6, <3>8, <4>1 DEF LevelIsMet
      <4>3. j # Len(finish) + 1
        BY <3>6, <3>8, <4>1
      <4>4. j \in 1 .. Len(finish)
        BY <3>5, <4>1, <4>2, <4>3
      <4>5. x = finish[j] /\ x \in ToSet(finish)
        BY <3>5, <4>1, <4>4 DEF ToSet
      <4> QED
        BY <4>5 DEF StatesAreListed
    <3>11. ASSUME NEW x \in near PROVE x \in ToSet(met)
      <4>1. CASE x \in before
        BY <3>9, <4>1
      <4>2. CASE x \notin before
        <5>1. PICK u \in State : u \in before /\ KeptArc(u, x)
          BY <3>2, <3>3, <4>2
        <5>2. color[x] # "White"
          BY <3>3, <3>10, <5>1, FinishedLeadOn
        <5> QED
          BY <3>3, <5>2 DEF StatesAreListed
      <4> QED
        BY <4>1, <4>2
    <3> QED
      BY <3>11
  <2> QED
    BY <2>1, <2>2
<1> QED
  BY <1>2, <1>3, <1>4, <1>5 DEF LevelIsMet

\* The first in the queue is the next to finish.
LEMMA TurnsAreTaken ==
  ASSUME N \in Nat, NEW S, NEW f \in Seq(S), NEW q \in Seq(S), q # <<>>
  PROVE  Append(f, q[1]) \o RemoveAt(q, 1) = f \o q
<1>1. Len(f) \in Nat /\ Len(q) \in Nat \ {0} /\ q[1] \in S /\ 1 \in 1 .. Len(q)
  OBVIOUS
<1> DEFINE g == Append(f, q[1])
           r == RemoveAt(q, 1)
<1>2. g \in Seq(S) /\ Len(g) = Len(f) + 1 /\ g[Len(f) + 1] = q[1] /\ \A i \in 1 .. Len(f) : g[i] = f[i]
  BY <1>1, AddingOne
<1>3. r \in Seq(S) /\ Len(r) = Len(q) - 1 /\ \A j \in 1 .. Len(q) - 1 : r[j] = q[j + 1]
  BY <1>1, Removing
<1> HIDE DEF g, r
<1>4. g \o r \in Seq(S) /\ Len(g \o r) = Len(f) + Len(q)
      /\ \A i \in 1 .. Len(f) + Len(q) : (g \o r)[i] = IF i <= Len(f) + 1 THEN g[i] ELSE r[i - (Len(f) + 1)]
  <2>1. Len(g \o r) = Len(g) + Len(r) /\ g \o r \in Seq(S)
        /\ \A i \in 1 .. Len(g) + Len(r) : (g \o r)[i] = IF i <= Len(g) THEN g[i] ELSE r[i - Len(g)]
    BY <1>2, <1>3, ConcatProperties
  <2>2. Len(g) + Len(r) = Len(f) + Len(q)
    BY <1>1, <1>2, <1>3
  <2> QED
    BY <1>2, <2>1, <2>2
<1>5. f \o q \in Seq(S) /\ Len(f \o q) = Len(f) + Len(q)
      /\ \A i \in 1 .. Len(f) + Len(q) : (f \o q)[i] = IF i <= Len(f) THEN f[i] ELSE q[i - Len(f)]
  BY <1>1, ConcatProperties
<1>6. ASSUME NEW i \in 1 .. Len(f) + Len(q) PROVE (g \o r)[i] = (f \o q)[i]
  <2>1. CASE i <= Len(f)
    BY <1>1, <1>2, <1>4, <1>5, <2>1
  <2>2. CASE i = Len(f) + 1
    BY <1>1, <1>2, <1>4, <1>5, <2>2
  <2>3. CASE i > Len(f) + 1
    <3>1. i - (Len(f) + 1) \in 1 .. Len(q) - 1 /\ (i - (Len(f) + 1)) + 1 = i - Len(f)
      BY <1>1, <2>3
    <3> QED
      BY <1>1, <1>3, <1>4, <1>5, <2>3, <3>1
  <2>4. i <= Len(f) \/ i = Len(f) + 1 \/ i > Len(f) + 1
    BY <1>1
  <2> QED
    BY <2>1, <2>2, <2>3, <2>4
<1>7. g \o r = f \o q
  BY <1>4, <1>5, <1>6, SeqEqual
<1> QED
  BY <1>7 DEF g, r

\* The steps are those of the automaton and of the filter.
LEMMA StepsStay ==
  ASSUME fst' = fst, how' = how
  PROVE  Steps' = Steps /\ \A s, t : KeptArc(s, t)' <=> KeptArc(s, t)
  BY DEF Steps, KeptArc, Arc

\* The root of a tree is met.
LEMMA RootKeeps ==
  ASSUME FstsAssumption, VisitInv, how' = how, VisitRoot
  PROVE  VisitInv'
<1>1. /\ at = "roots" /\ at' = "tree" /\ Meet(root, ofst)
      /\ fst' = fst /\ root' = root /\ nstates' = nstates /\ siter' = siter /\ left' = left /\ finish' = finish
  BY DEF VisitRoot
<1>2. /\ VisitTypeOK /\ TreesSweep /\ StatesAreListed /\ LimitIsDrawn /\ ArcsAreFollowed
      /\ MetAreReached /\ StackDescends /\ FinishesInDepth /\ MeetsByLevels /\ CopyIsKept /\ N \in Nat
  BY DEF VisitInv, FstsAssumption
<1>3. /\ root \in State /\ dfs /\ color[root] = "White" /\ stack = <<>> /\ fst.start # None /\ fst.start \in State
      /\ how.access_only => met = <<>>
      /\ met = <<>> => root = fst.start
  BY <1>1, <1>2 DEF TreesSweep, VisitTypeOK, SweepTypeOK, FstType
<1>4. /\ met' = Append(met, root) /\ stack' = Append(stack, root) /\ color' = [color EXCEPT ![root] = "Grey"]
      /\ ofst' = CopyState(ofst, root)
  BY <1>1 DEF Meet
<1>5. /\ stack' \in Seq(State) /\ met' \in Seq(State) /\ color' \in [State -> {"White", "Grey", "Black"}] /\ dfs' \in BOOLEAN
      /\ StatesAreListed' /\ LimitIsDrawn'
  BY <1>1, <1>2, <1>3, MeetingLists
<1>6. /\ met \in Seq(State) /\ color \in [State -> {"White", "Grey", "Black"}] /\ ofst \in CopyType
      /\ finish \in Seq(State)
  BY <1>2 DEF VisitTypeOK, SweepTypeOK, CopyType
<1>7. met'[1] = fst.start /\ met' # <<>> /\ Len(met') = Len(met) + 1 /\ ToSet(met') = ToSet(met) \cup {root}
  <2>1. Len(met) \in Nat /\ Len(met') = Len(met) + 1 /\ ToSet(met') = ToSet(met) \cup {root}
        /\ met'[Len(met) + 1] = root /\ \A i \in 1 .. Len(met) : met'[i] = met[i]
    BY <1>3, <1>4, <1>6, AddingOne
  <2>2. CASE met = <<>>
    BY <1>3, <2>1, <2>2
  <2>3. CASE met # <<>>
    <3>1. 1 \in 1 .. Len(met)
      BY <1>6, <2>3
    <3> QED
      BY <1>2, <2>1, <2>3, <3>1 DEF MetAreReached
  <2> QED
    BY <2>1, <2>2, <2>3
<1>8. CopyIsKept' /\ ofst' \in CopyType
  <2>1. ofst' \in CopyType
    BY <1>2, <1>3, <1>4, <1>6, StatesAreCopied
  <2> QED
    BY <1>1, <1>2, <1>3, <1>4, <2>1, RootIsCopied
<1>9. VisitTypeOK'
  BY <1>1, <1>2, <1>5, <1>8 DEF VisitTypeOK, SweepTypeOK, CopyType
<1>10. TreesSweep'
  BY <1>1, <1>2, <1>4, <1>7, RootSweeps
<1>11. ArcsAreFollowed'
  <2>1. \A s \in State : (color[s] # "White" => color'[s] # "White") /\ (color'[s] = "Black" => color[s] = "Black")
    BY <1>4, <1>6
  <2> QED
    BY <1>1, <1>2, <1>3, <2>1, FollowedStays
<1>12. Steps' = Steps /\ \A s, t : KeptArc(s, t)' <=> KeptArc(s, t)
  BY <1>1, StepsStay
<1>13. MetAreReached'
  <2>1. root = fst.start => root \in Steps[N][fst.start]
    BY <1>2, <1>3, StepsAreThere
  <2> QED
    BY <1>1, <1>2, <1>3, <1>7, <1>12, <2>1 DEF MetAreReached
<1>14. StackDescends'
  <2>1. Len(stack') = 1 /\ stack'[1] = root /\ DOMAIN stack' = 1 .. 1
    BY <1>3, <1>4
  <2>2. root \in Steps[N][root]
    BY <1>2, <1>3, StepsAreThere
  <2> QED
    BY <1>12, <2>1, <2>2 DEF StackDescends
<1>15. FinishesInDepth'
  BY <1>1, <1>2, <1>3, <1>12 DEF FinishesInDepth
<1>16. MeetsByLevels'
  <2> SUFFICES ASSUME how.queue = "fifo"
               PROVE  met' = finish \o stack' /\ \A k \in 0 .. N : LevelIsMet(met', Steps[k][fst.start])
    BY <1>1, <1>12 DEF MeetsByLevels
  <2>1. met = finish \o <<>>
    BY <1>2, <1>3 DEF MeetsByLevels
  <2>2. met = finish /\ stack' = <<root>>
    BY <1>3, <1>4, <1>6, <2>1
  <2>3. met' = finish \o stack'
    BY <1>3, <1>4, <1>6, <2>2
  <2>4. \A k \in 0 .. N : LevelIsMet(met, Steps[k][fst.start])
    BY <1>2, <1>3 DEF MeetsByLevels
  <2> QED
    BY <1>2, <1>3, <1>4, <2>3, <2>4, RootIsInLevel
<1> QED
  BY <1>5, <1>8, <1>9, <1>10, <1>11, <1>13, <1>14, <1>15, <1>16 DEF VisitInv

\* The head of the queue gives up an arc.
LEMMA ArcKeeps ==
  ASSUME FstsAssumption, VisitInv, how' = how, VisitArc
  PROVE  VisitInv'
<1>1. PICK s : s = HeadOf(stack)
  OBVIOUS
<1>2. PICK t : t = Head(left[s])
  OBVIOUS
<1> DEFINE kept == <<s, t>> \notin how.dropped
           copies == \/ color[t] = "Grey" /\ how.copy_grey
                     \/ color[t] = "Black" /\ how.copy_black
<1>3. /\ at = "tree" /\ at' = "tree" /\ stack # <<>> /\ dfs /\ left[s] # <<>>
      /\ fst' = fst /\ root' = root /\ siter' = siter /\ finish' = finish
      /\ nstates' = Larger(nstates, t + 1) /\ left' = [left EXCEPT ![s] = Tail(@)]
      /\ IF kept /\ color[t] = "White" THEN Meet(t, CopyArc(ofst, s, t))
         ELSE /\ ofst' = IF kept /\ copies THEN CopyArc(ofst, s, t) ELSE ofst
              /\ UNCHANGED <<met, color, stack, dfs>>
  BY <1>1, <1>2 DEF VisitArc
<1>4. /\ VisitTypeOK /\ TreesSweep /\ StatesAreListed /\ LimitIsDrawn /\ ArcsAreFollowed
      /\ MetAreReached /\ StackDescends /\ FinishesInDepth /\ MeetsByLevels /\ CopyIsKept /\ N \in Nat
  BY DEF VisitInv, FstsAssumption
<1>5. /\ met \in Seq(State) /\ stack \in Seq(State) /\ color \in [State -> {"White", "Grey", "Black"}] /\ how \in WaysType
      /\ nstates \in 0 .. N /\ dfs \in BOOLEAN
  BY <1>4 DEF VisitTypeOK, SweepTypeOK
<1>6. /\ HeadAt(stack) \in 1 .. Len(stack) /\ s \in ToSet(stack) /\ s \in State /\ s = stack[HeadAt(stack)]
      /\ (how.queue = "lifo" => HeadAt(stack) = Len(stack)) /\ (how.queue = "fifo" => HeadAt(stack) = 1)
  BY <1>1, <1>3, <1>4, <1>5, Dequeuing DEF HeadOf
<1>7. color[s] = "Grey" /\ s \in ToSet(met)
  BY <1>4, <1>6 DEF StatesAreListed
<1>8. /\ Gone(s) \in Nat /\ Gone(s) + 1 \in 1 .. Len(fst.arcs[s]) /\ t = fst.arcs[s][Gone(s) + 1] /\ t \in State /\ Arc(s, t)
  BY <1>3, <1>2, <1>4, <1>6, GivingUp
<1>9. /\ left' \in [State -> Seq(State)]
      /\ Gone(s)' = Gone(s) + 1 /\ \A u \in State : u # s => Gone(u)' = Gone(u) /\ left'[u] = left[u]
      /\ \A k \in 1 .. Len(left'[s]) : left'[s][k] = fst.arcs[s][(Gone(s) + 1) + k]
  BY <1>3, <1>4, <1>6, GoneOn
<1>10. kept => KeptArc(s, t)
  BY <1>8 DEF KeptArc
<1>11. Steps' = Steps /\ \A x, y : KeptArc(x, y)' <=> KeptArc(x, y)
  BY <1>3, StepsStay
<1>12. CopyIsKept' /\ ofst' \in CopyType
  <2>1. t = Head(left[s])
    BY <1>2
  <2>2. kept \in BOOLEAN /\ copies \in BOOLEAN
    OBVIOUS
  <2>3. color[s] # "White"
    BY <1>7
  <2> HIDE DEF kept, copies
  <2>4. kept <=> <<s, t>> \notin how.dropped
    BY DEF kept
  <2>5. copies <=> \/ color[t] = "Grey" /\ how.copy_grey
                   \/ color[t] = "Black" /\ how.copy_black
    BY DEF copies
  <2> QED
    BY <1>3, <1>4, <1>6, <2>1, <2>2, <2>3, <2>4, <2>5, ArcIsCopied
<1> HIDE DEF kept, copies
<1>13. met # <<>> /\ fst.start # None
  BY <1>3, <1>4 DEF TreesSweep
<1>14. fst.start \in ToSet(met) /\ fst.start \in State
  BY <1>4, <1>13, StartIsMet
\* What is the same whether t is new or not.
<1>15. ASSUME stack' \in Seq(State), met' \in Seq(State), color' \in [State -> {"White", "Grey", "Black"}], dfs' \in BOOLEAN,
              \A u \in State : color[u] # "White" => color'[u] # "White",
              \A u \in State : color'[u] # "White" => color[u] # "White" \/ u = t,
              \A u \in State : color'[u] = "Black" => color[u] = "Black",
              \A u \in State : color[u] = "Black" => color'[u] = "Black",
              kept => color'[t] # "White", met' # <<>>, met'[1] = fst.start
       PROVE  VisitTypeOK' /\ TreesSweep' /\ ArcsAreFollowed' /\ FinishesInDepth'
  <2>1. \A u \in State : color'[u] # "White" => color[u] # "White" \/ u < nstates'
    <3>1. t < nstates' /\ t \in Nat
      BY <1>3, <1>5, <1>8 DEF Larger, State
    <3> QED
      BY <1>15, <3>1
  <2>2. TreesSweep' /\ nstates' \in 0 .. N
    BY <1>3, <1>4, <1>8, <1>13, <1>15, <2>1, TreeSweeps
  <2>3. VisitTypeOK'
    BY <1>3, <1>4, <1>9, <1>12, <1>15, <2>2 DEF VisitTypeOK, SweepTypeOK, CopyType
  <2>4. ArcsAreFollowed'
    <3>1. ASSUME NEW u \in State
          PROVE  /\ Gone(u)' \in Nat
                 /\ \A k \in 1 .. Len(left'[u]) : left'[u][k] = fst'.arcs[u][Gone(u)' + k]
                 /\ \A k \in 1 .. Gone(u)' : <<u, fst'.arcs[u][k]>> \notin how'.dropped => color'[fst'.arcs[u][k]] # "White"
                 /\ color'[u] = "White" => Gone(u)' = 0
                 /\ dfs' /\ color'[u] = "Black" => left'[u] = <<>>
      <4>1. \A k \in 1 .. Gone(u) : fst.arcs[u][k] \in State
        <5>1. left[u] \in Seq(State) /\ fst.arcs[u] \in Seq(State)
          BY <1>4 DEF VisitTypeOK, SweepTypeOK, FstType
        <5>2. Len(left[u]) \in Nat /\ Len(fst.arcs[u]) \in Nat /\ \A k \in 1 .. Len(fst.arcs[u]) : fst.arcs[u][k] \in State
          BY <5>1
        <5>3. \A n, m \in Nat : n - m <= n
          OBVIOUS
        <5>4. Gone(u) <= Len(fst.arcs[u]) /\ Gone(u) \in Nat
          BY <1>4, <5>2, <5>3 DEF Gone, ArcsAreFollowed
        <5> QED
          BY <5>2, <5>4
      <4>2. \A k \in 1 .. Gone(u) : <<u, fst.arcs[u][k]>> \notin how.dropped => color'[fst.arcs[u][k]] # "White"
        BY <1>4, <1>15, <4>1 DEF ArcsAreFollowed
      <4>3. CASE u # s
        <5>1. Gone(u)' = Gone(u) /\ left'[u] = left[u]
          BY <1>9, <4>3
        <5> QED
          <6>1. /\ Gone(u) \in Nat /\ \A k \in 1 .. Len(left[u]) : left[u][k] = fst.arcs[u][Gone(u) + k]
                /\ color[u] = "White" => Gone(u) = 0
                /\ color[u] = "Black" => left[u] = <<>>
            BY <1>3, <1>4 DEF ArcsAreFollowed
          <6> QED
            BY <1>3, <1>15, <4>2, <5>1, <6>1
      <4>4. CASE u = s
        <5>1. \A k \in 1 .. Gone(s) + 1 : k \in 1 .. Gone(s) \/ k = Gone(s) + 1
          BY <1>8
        <5>2. \A k \in 1 .. Gone(s) + 1 : <<s, fst.arcs[s][k]>> \notin how.dropped => color'[fst.arcs[s][k]] # "White"
          BY <1>8, <1>15, <4>2, <4>4, <5>1 DEF kept
        <5>3. color'[s] # "White" /\ color'[s] # "Black"
          BY <1>6, <1>7, <1>15
        <5> QED
          BY <1>3, <1>8, <1>9, <4>4, <5>2, <5>3
      <4> QED
        BY <4>3, <4>4
    <3> QED
      BY <3>1 DEF ArcsAreFollowed
  <2>5. FinishesInDepth'
    BY <1>3, <1>4, <1>11 DEF FinishesInDepth
  <2> QED
    BY <2>2, <2>3, <2>4, <2>5
<1>16. CASE kept /\ color[t] = "White"
  <2>1. Meet(t, CopyArc(ofst, s, t))
    BY <1>3, <1>16
  <2>2. met' = Append(met, t) /\ stack' = Append(stack, t) /\ color' = [color EXCEPT ![t] = "Grey"]
    BY <2>1 DEF Meet
  <2>3. /\ stack' \in Seq(State) /\ met' \in Seq(State) /\ color' \in [State -> {"White", "Grey", "Black"}] /\ dfs' \in BOOLEAN
        /\ StatesAreListed' /\ LimitIsDrawn'
    BY <1>3, <1>4, <1>8, <1>16, <2>1, MeetingLists
  <2>4. /\ Len(met) \in Nat /\ Len(met') = Len(met) + 1 /\ ToSet(met') = ToSet(met) \cup {t}
        /\ \A i \in 1 .. Len(met) : met'[i] = met[i]
    BY <1>5, <1>8, <2>2, AddingOne
  <2>5. met' # <<>> /\ met'[1] = fst.start
    <3>1. 1 \in 1 .. Len(met)
      BY <1>5, <1>13
    <3> QED
      BY <1>4, <1>13, <2>4, <3>1 DEF MetAreReached
  <2>6. VisitTypeOK' /\ TreesSweep' /\ ArcsAreFollowed' /\ FinishesInDepth'
    <3>1. /\ \A u \in State : color[u] # "White" => color'[u] # "White"
          /\ \A u \in State : color'[u] # "White" => color[u] # "White" \/ u = t
          /\ \A u \in State : color'[u] = "Black" => color[u] = "Black"
          /\ \A u \in State : color[u] = "Black" => color'[u] = "Black"
          /\ color'[t] # "White"
      BY <1>5, <1>8, <1>16, <2>2
    <3> QED
      BY <1>15, <2>3, <2>5, <3>1
  <2>7. MetAreReached'
    <3>1. how.access_only => t \in Steps[N][fst.start]
      <4> SUFFICES ASSUME how.access_only PROVE t \in Steps[N][fst.start]
        OBVIOUS
      <4>1. s \in Steps[N][fst.start]
        BY <1>4, <1>7 DEF MetAreReached
      <4> QED
        BY <1>4, <1>6, <1>8, <1>10, <1>14, <1>16, <4>1, StepsAreEnough
    <3> QED
      BY <1>3, <1>4, <1>11, <2>4, <2>5, <3>1 DEF MetAreReached
  <2>8. StackDescends'
    <3> SUFFICES ASSUME how.queue = "lifo"
                 PROVE  /\ \A i \in 1 .. Len(stack') - 1 : KeptArc(stack'[i], stack'[i + 1])
                        /\ \A i, j \in DOMAIN stack' : i <= j => stack'[j] \in Steps[N][stack'[i]]
      BY <1>11 DEF StackDescends
    <3>1. /\ Len(stack) \in Nat \ {0} /\ Len(stack') = Len(stack) + 1 /\ DOMAIN stack' = 1 .. Len(stack) + 1 /\ DOMAIN stack = 1 .. Len(stack)
          /\ stack'[Len(stack) + 1] = t /\ (\A i \in 1 .. Len(stack) : stack'[i] = stack[i]) /\ stack[Len(stack)] = s
          /\ \A i \in 1 .. Len(stack) : stack[i] \in State
      BY <1>3, <1>5, <1>6, <1>8, <2>2, <2>3, AddingOne
    <3>2. /\ \A i \in 1 .. Len(stack) - 1 : KeptArc(stack[i], stack[i + 1])
          /\ \A i, j \in 1 .. Len(stack) : i <= j => stack[j] \in Steps[N][stack[i]]
      BY <1>4, <3>1 DEF StackDescends
    <3>3. ASSUME NEW i \in 1 .. Len(stack') - 1 PROVE KeptArc(stack'[i], stack'[i + 1])
      <4>1. CASE i = Len(stack)
        BY <1>10, <1>16, <3>1, <4>1
      <4>2. CASE i # Len(stack)
        <5>1. i \in 1 .. Len(stack) - 1 /\ i \in 1 .. Len(stack) /\ i + 1 \in 1 .. Len(stack)
          <6>1. \A n \in Nat : \A k \in 1 .. (n + 1) - 1 : k # n => k \in 1 .. n - 1 /\ k \in 1 .. n /\ k + 1 \in 1 .. n
            OBVIOUS
          <6>2. Len(stack) \in Nat /\ i \in 1 .. (Len(stack) + 1) - 1
            BY <3>1
          <6> QED
            BY <4>2, <6>1, <6>2
        <5> QED
          BY <3>1, <3>2, <5>1
      <4> QED
        BY <4>1, <4>2
    <3>4. ASSUME NEW i \in 1 .. Len(stack) + 1, NEW j \in 1 .. Len(stack) + 1, i <= j PROVE stack'[j] \in Steps[N][stack'[i]]
      <4>1. CASE j \in 1 .. Len(stack)
        <5>1. i \in 1 .. Len(stack)
          BY <3>1, <3>4, <4>1
        <5> QED
          BY <3>1, <3>2, <3>4, <4>1, <5>1
      <4>2. CASE j = Len(stack) + 1 /\ i \in 1 .. Len(stack)
        <5>1. s \in Steps[N][stack[i]]
          <6>1. Len(stack) \in 1 .. Len(stack) /\ i <= Len(stack)
            BY <3>1, <4>2
          <6> QED
            BY <3>1, <3>2, <4>2, <6>1
        <5>2. t \in Steps[N][stack[i]]
          BY <1>4, <1>6, <1>8, <1>10, <1>16, <3>1, <4>2, <5>1, StepsAreEnough
        <5> QED
          BY <3>1, <4>2, <5>2
      <4>3. CASE j = Len(stack) + 1 /\ i = Len(stack) + 1
        BY <1>4, <1>8, <3>1, <4>3, StepsAreThere
      <4>4. /\ j \in 1 .. Len(stack) \/ j = Len(stack) + 1
            /\ i \in 1 .. Len(stack) \/ i = Len(stack) + 1
        BY <3>1
      <4> QED
        BY <4>1, <4>2, <4>3, <4>4
    <3> QED
      BY <3>1, <3>3, <3>4
  <2>9. MeetsByLevels'
    <3> SUFFICES ASSUME how.queue = "fifo"
                 PROVE  met' = finish \o stack' /\ \A k \in 0 .. N : LevelIsMet(met', Steps[k][fst.start])
      BY <1>3, <1>11 DEF MeetsByLevels
    <3>1. met = finish \o stack /\ \A k \in 0 .. N : LevelIsMet(met, Steps[k][fst.start])
      BY <1>4, <1>13 DEF MeetsByLevels
    <3>2. met' = finish \o stack'
      <4>1. finish \in Seq(State) /\ <<t>> \in Seq(State)
        BY <1>4, <1>8 DEF VisitTypeOK
      <4>2. met' = met \o <<t>> /\ stack' = stack \o <<t>>
        BY <1>5, <1>8, <2>2, AppendIsConcat
      <4> QED
        BY <1>5, <3>1, <4>1, <4>2, ConcatAssociative
    <3>3. s = stack[1]
      BY <1>6
    <3> QED
      BY <1>3, <1>4, <1>8, <1>10, <1>13, <1>16, <2>2, <3>1, <3>2, <3>3, TargetIsInLevel
  <2> QED
    BY <1>12, <2>3, <2>6, <2>7, <2>8, <2>9 DEF VisitInv
<1>17. CASE ~(kept /\ color[t] = "White")
  <2>1. met' = met /\ color' = color /\ stack' = stack /\ dfs' = dfs
    BY <1>3, <1>17
  <2>2. VisitTypeOK' /\ TreesSweep' /\ ArcsAreFollowed' /\ FinishesInDepth'
    BY <1>4, <1>5, <1>13, <1>15, <1>17, <2>1 DEF MetAreReached
  <2>3. StatesAreListed' /\ LimitIsDrawn' /\ MetAreReached' /\ StackDescends' /\ MeetsByLevels'
    BY <1>3, <1>4, <1>11, <2>1 DEF StatesAreListed, LimitIsDrawn, MetAreReached, StackDescends, MeetsByLevels
  <2> QED
    BY <1>12, <2>2, <2>3 DEF VisitInv
<1> QED
  BY <1>16, <1>17

\* The head of the queue finishes.
LEMMA FinishKeeps ==
  ASSUME FstsAssumption, VisitInv, how' = how, VisitFinish
  PROVE  VisitInv'
<1>1. PICK s : s = HeadOf(stack)
  OBVIOUS
<1>2. /\ at = "tree" /\ at' = "tree" /\ stack # <<>> /\ (dfs => left[s] = <<>>)
      /\ color' = [color EXCEPT ![s] = "Black"] /\ stack' = Dequeued(stack) /\ finish' = Append(finish, s)
      /\ ofst' = [ofst EXCEPT !.final = IF s \in fst.final THEN @ \cup {s} ELSE @ \ {s}]
      /\ fst' = fst /\ dfs' = dfs /\ root' = root /\ nstates' = nstates /\ siter' = siter /\ left' = left /\ met' = met
  BY <1>1 DEF VisitFinish
<1>3. /\ VisitTypeOK /\ TreesSweep /\ StatesAreListed /\ LimitIsDrawn /\ ArcsAreFollowed
      /\ MetAreReached /\ StackDescends /\ FinishesInDepth /\ MeetsByLevels /\ CopyIsKept /\ N \in Nat
  BY DEF VisitInv, FstsAssumption
<1>4. /\ met \in Seq(State) /\ stack \in Seq(State) /\ finish \in Seq(State) /\ how \in WaysType
      /\ color \in [State -> {"White", "Grey", "Black"}]
  BY <1>3 DEF VisitTypeOK, SweepTypeOK
<1>5. /\ HeadAt(stack) \in 1 .. Len(stack) /\ s \in ToSet(stack) /\ s \in State /\ s = stack[HeadAt(stack)]
      /\ (how.queue = "lifo" => HeadAt(stack) = Len(stack)) /\ (how.queue = "fifo" => HeadAt(stack) = 1)
  BY <1>1, <1>2, <1>3, <1>4, Dequeuing DEF HeadOf
<1>6. /\ stack' \in Seq(State) /\ finish' \in Seq(State) /\ color' \in [State -> {"White", "Grey", "Black"}]
      /\ StatesAreListed' /\ LimitIsDrawn'
  BY <1>3, FinishingLists
<1>7. color[s] = "Grey"
  BY <1>3, <1>5 DEF StatesAreListed
<1>8. /\ \A u \in State : color[u] # "White" <=> color'[u] # "White"
      /\ \A u \in State : color'[u] = "Black" <=> color[u] = "Black" \/ u = s
  BY <1>2, <1>4, <1>5, <1>7
<1>9. Steps' = Steps /\ \A x, y : KeptArc(x, y)' <=> KeptArc(x, y)
  BY <1>2, StepsStay
<1>10. CopyIsKept' /\ ofst' \in CopyType
  BY <1>2, <1>3, <1>5, FinalIsCopied
<1>11. VisitTypeOK'
  BY <1>2, <1>3, <1>6, <1>10 DEF VisitTypeOK, SweepTypeOK, CopyType
<1>12. met # <<>>
  BY <1>2, <1>3 DEF TreesSweep
<1>13. TreesSweep'
  BY <1>2, <1>3, <1>5, <1>8, <1>12, TreeSweeps
<1>14. ArcsAreFollowed'
  BY <1>2, <1>3, <1>8, FollowedStays
<1>15. MetAreReached'
  BY <1>2, <1>3, <1>9 DEF MetAreReached
<1>16. StackDescends'
  <2> SUFFICES ASSUME how.queue = "lifo"
               PROVE  /\ \A i \in 1 .. Len(stack') - 1 : KeptArc(stack'[i], stack'[i + 1])
                      /\ \A i, j \in DOMAIN stack' : i <= j => stack'[j] \in Steps[N][stack'[i]]
    BY <1>9 DEF StackDescends
  <2>1. stack' = RemoveAt(stack, Len(stack)) /\ Len(stack) \in 1 .. Len(stack)
    BY <1>2, <1>5 DEF Dequeued
  <2>2. Len(stack') = Len(stack) - 1 /\ \A j \in 1 .. Len(stack) - 1 : stack'[j] = IF j < Len(stack) THEN stack[j] ELSE stack[j + 1]
    BY <1>4, <2>1, Removing
  <2>3. Len(stack) \in Nat \ {0} /\ DOMAIN stack = 1 .. Len(stack) /\ DOMAIN stack' = 1 .. Len(stack')
    BY <1>4, <1>6, <2>1
  <2>4. \A j \in 1 .. Len(stack) - 1 : stack'[j] = stack[j] /\ j \in 1 .. Len(stack)
    BY <2>2, <2>3
  <2>5. \A n \in Nat \ {0} : \A i \in 1 .. (n - 1) - 1 : i \in 1 .. n - 1 /\ i + 1 \in 1 .. n - 1
    OBVIOUS
  <2>6. /\ \A i \in 1 .. Len(stack) - 1 : KeptArc(stack[i], stack[i + 1])
        /\ \A i, j \in 1 .. Len(stack) : i <= j => stack[j] \in Steps[N][stack[i]]
    BY <1>3, <2>3 DEF StackDescends
  <2>7. ASSUME NEW i \in 1 .. Len(stack') - 1 PROVE KeptArc(stack'[i], stack'[i + 1])
    <3>1. i \in 1 .. Len(stack) - 1 /\ i + 1 \in 1 .. Len(stack) - 1
      BY <2>2, <2>3, <2>5
    <3> QED
      BY <2>4, <2>6, <3>1
  <2> QED
    BY <2>2, <2>3, <2>4, <2>6, <2>7
<1>17. FinishesInDepth'
  <2> SUFFICES ASSUME how.queue = "lifo", dfs, NEW i \in DOMAIN finish', NEW t \in State, KeptArc(finish'[i], t)
               PROVE  finish'[i] \in Steps[N][t] \/ \E j \in DOMAIN finish' : j < i /\ finish'[j] = t
    BY <1>2, <1>9 DEF FinishesInDepth
  <2>1. /\ Len(finish) \in Nat /\ Len(finish') = Len(finish) + 1 /\ DOMAIN finish' = 1 .. Len(finish) + 1 /\ DOMAIN finish = 1 .. Len(finish)
        /\ finish'[Len(finish) + 1] = s /\ \A k \in 1 .. Len(finish) : finish'[k] = finish[k]
    BY <1>2, <1>4, <1>5, <1>6, AddingOne
  <2>2. CASE i \in 1 .. Len(finish)
    <3>1. finish[i] \in Steps[N][t] \/ \E j \in DOMAIN finish : j < i /\ finish[j] = t
      BY <1>3, <2>1, <2>2 DEF FinishesInDepth
    <3> QED
      BY <2>1, <2>2, <3>1
  <2>3. CASE i = Len(finish) + 1
    <3>1. finish'[i] = s /\ color[t] # "White"
      BY <1>2, <1>3, <1>5, <2>1, <2>3, AllAreFollowed
    <3>2. CASE color[t] = "Black"
      <4>1. t \in ToSet(finish)
        BY <1>3, <3>2 DEF StatesAreListed
      <4>2. PICK j \in 1 .. Len(finish) : finish[j] = t
        BY <2>1, <4>1 DEF ToSet
      <4> QED
        BY <2>1, <2>3, <4>2
    <3>3. CASE color[t] = "Grey"
      <4>1. t \in ToSet(stack) /\ DOMAIN stack = 1 .. Len(stack)
        BY <1>3, <1>4, <3>3 DEF StatesAreListed
      <4>2. PICK j \in 1 .. Len(stack) : stack[j] = t
        BY <4>1 DEF ToSet
      <4>3. s = stack[Len(stack)] /\ Len(stack) \in 1 .. Len(stack) /\ j <= Len(stack)
        BY <1>4, <1>5
      <4>4. stack[Len(stack)] \in Steps[N][stack[j]]
        BY <1>3, <4>1, <4>3 DEF StackDescends
      <4> QED
        BY <3>1, <4>2, <4>3, <4>4
    <3> QED
      BY <1>4, <3>1, <3>2, <3>3
  <2> QED
    BY <2>1, <2>2, <2>3
<1>18. MeetsByLevels'
  <2> SUFFICES ASSUME how.queue = "fifo" PROVE met' = finish' \o stack'
    BY <1>2, <1>3, <1>9 DEF MeetsByLevels
  <2>1. met = finish \o stack
    BY <1>3 DEF MeetsByLevels
  <2>2. finish' = Append(finish, stack[1]) /\ stack' = RemoveAt(stack, 1)
    BY <1>2, <1>5 DEF Dequeued
  <2> QED
    BY <1>2, <1>3, <1>4, <2>1, <2>2, TurnsAreTaken
<1> QED
  BY <1>6, <1>10, <1>11, <1>13, <1>14, <1>15, <1>16, <1>17, <1>18 DEF VisitInv

\* A tree that is done is the last, or the next root is looked for.
LEMMA CloseKeeps ==
  ASSUME FstsAssumption, VisitInv, how' = how, VisitClose
  PROVE  VisitInv'
<1>1. /\ VisitTypeOK /\ TreesSweep /\ StatesAreListed /\ LimitIsDrawn /\ ArcsAreFollowed
      /\ MetAreReached /\ StackDescends /\ FinishesInDepth /\ MeetsByLevels /\ CopyIsKept
  BY DEF VisitInv
<1>2. /\ left' = left /\ met' = met /\ finish' = finish /\ ofst' = ofst
      /\ at = "tree" /\ stack = <<>> /\ fst' = fst /\ color' = color /\ stack' = stack /\ dfs' = dfs
  BY DEF VisitClose, CloseTree
<1>3. fst.start # None /\ met # <<>>
  BY <1>1, <1>2 DEF TreesSweep
<1>4. ASSUME how.access_only PROVE SweepTypeOK' /\ TreesSweep'
  <2>1. at' = "done" /\ root' = root /\ nstates' = nstates /\ siter' = siter
    BY <1>4 DEF VisitClose
  <2>2. SweepTypeOK'
    BY <1>1, <1>2, <2>1 DEF VisitTypeOK, SweepTypeOK
  <2>3. TreesSweep'
    BY <1>2, <1>3, <1>4, <2>1 DEF TreesSweep
  <2> QED
    BY <2>2, <2>3
<1>5. ASSUME ~how.access_only PROVE SweepTypeOK' /\ TreesSweep'
  <2>1. CloseTree
    BY <1>5 DEF VisitClose
  <2>2. SweepTypeOK' /\ RootsSweep'
    BY <1>1, <1>5, <2>1, SweepingOn DEF VisitTypeOK, TreesSweep
  <2>3. TreesSweep'
    BY <1>2, <1>3, <1>5, <2>2 DEF TreesSweep, RootsSweep
  <2> QED
    BY <2>2, <2>3
<1>6. VisitTypeOK'
  BY <1>1, <1>2, <1>4, <1>5 DEF VisitTypeOK
<1>7. Steps' = Steps /\ \A x, y : KeptArc(x, y)' <=> KeptArc(x, y)
  BY <1>2, StepsStay
<1>8. StatesAreListed' /\ LimitIsDrawn'
  BY <1>1, <1>2 DEF StatesAreListed, LimitIsDrawn
<1>9. ArcsAreFollowed'
  <2>1. \A s \in State : Gone(s)' = Gone(s)
    BY <1>2 DEF Gone
  <2> QED
    BY <1>1, <1>2, <2>1 DEF ArcsAreFollowed
<1>10. MetAreReached' /\ StackDescends' /\ FinishesInDepth' /\ MeetsByLevels'
  BY <1>1, <1>2, <1>7 DEF MetAreReached, StackDescends, FinishesInDepth, MeetsByLevels
<1>11. CopyIsKept'
  <2>1. \A s \in State : Gone(s)' = Gone(s) /\ Kept(s)' = Kept(s)
    BY <1>2 DEF Gone, Kept
  <2>2. Copied(ofst)' = Copied(ofst) /\ \A p : CopiedTo(ofst, p)' = CopiedTo(ofst, p)
    BY <1>2 DEF Copied, CopiedTo
  <2> QED
    BY <1>1, <1>2, <2>1, <2>2 DEF CopyIsKept
<1> QED
  BY <1>4, <1>5, <1>6, <1>8, <1>9, <1>10, <1>11 DEF VisitInv

\* The first state of a visit.
LEMMA VisitStarts ==
  ASSUME FstsAssumption, WaysAssumption, VisitInit
  PROVE  VisitInv
<1>1. /\ SearchInit /\ how \in WaysType
      /\ left = fst.arcs /\ met = <<>> /\ finish = <<>> /\ ofst = [arcs |-> <<>>, final |-> {}]
  BY DEF VisitInit, WaysAssumption
<1>2. /\ color = [s \in State |-> "White"] /\ stack = <<>> /\ dfs = TRUE /\ root = fst.start
      /\ at = IF fst.start = None THEN "done" ELSE "roots"
  BY <1>1 DEF SearchInit
<1>3. SearchTypeOK /\ RootsSweep /\ N \in Nat \ {0} /\ None \notin Nat
  BY <1>1, SearchStarts DEF SearchInv, FstsAssumption
<1>4. SweepTypeOK
  BY <1>3 DEF SearchTypeOK, SweepTypeOK
<1>5. fst \in FstType /\ fst.arcs \in [State -> Seq(State)] /\ fst.start \in State \cup {None}
  BY <1>4 DEF SweepTypeOK, FstType
<1>6. VisitTypeOK
  <2>1. ofst \in [arcs : Seq(Seq(State)), final : SUBSET State]
    BY <1>1
  <2> QED
    BY <1>1, <1>2, <1>4, <1>5, <2>1 DEF VisitTypeOK
<1>7. TreesSweep
  BY <1>1, <1>2, <1>3, <1>5 DEF TreesSweep
<1>8. ToSet(<<>>) = {} /\ IsInjective(<<>>) /\ DOMAIN <<>> = {} /\ Len(<<>>) = 0
  BY DEF ToSet, IsInjective
<1>9. StatesAreListed
  BY <1>1, <1>2, <1>8 DEF StatesAreListed
<1>10. LimitIsDrawn
  BY <1>1, <1>2, <1>8 DEF LimitIsDrawn, WaysType
<1>11. ArcsAreFollowed
  <2>1. ASSUME NEW s \in State PROVE Gone(s) = 0 /\ Len(fst.arcs[s]) \in Nat /\ color[s] = "White"
    <3>1. Len(fst.arcs[s]) \in Nat
      BY <1>5
    <3> QED
      BY <1>1, <1>2, <3>1 DEF Gone
  <2>2. ASSUME NEW s \in State, NEW k \in 1 .. Len(left[s]) PROVE left[s][k] = fst.arcs[s][Gone(s) + k]
    <3>1. 0 + k = k
      OBVIOUS
    <3> QED
      BY <1>1, <2>1, <3>1
  <2>3. ASSUME NEW s \in State
        PROVE  /\ Gone(s) \in Nat
               /\ \A k \in 1 .. Len(left[s]) : left[s][k] = fst.arcs[s][Gone(s) + k]
               /\ \A k \in 1 .. Gone(s) : <<s, fst.arcs[s][k]>> \notin how.dropped => color[fst.arcs[s][k]] # "White"
               /\ color[s] = "White" => Gone(s) = 0
               /\ dfs /\ color[s] = "Black" => left[s] = <<>>
    BY <2>1, <2>2
  <2> QED
    BY <2>3 DEF ArcsAreFollowed
<1>12. MetAreReached /\ StackDescends /\ FinishesInDepth
  BY <1>1, <1>2, <1>8 DEF MetAreReached, StackDescends, FinishesInDepth
<1>13. MeetsByLevels
  <2>1. \A k \in 0 .. N : LevelIsMet(met, Steps[k][fst.start])
    BY <1>1, <1>8 DEF LevelIsMet
  <2>2. met = finish \o stack
    BY <1>1, <1>2
  <2> QED
    BY <2>1, <2>2 DEF MeetsByLevels
<1>14. CopyIsKept
  <2>1. ofst.arcs = <<>> /\ ofst.final = {} /\ Len(ofst.arcs) = 0 /\ ToSet(met) = {} /\ DOMAIN met = {}
    BY <1>1, <1>8
  <2>2. Copied(ofst) = {}
    <3>1. \A s : s \notin 0 .. 0 - 1
      OBVIOUS
    <3> QED
      BY <2>1, <3>1 DEF Copied
  <2>3. \A s \in State : ~(s < Len(ofst.arcs)) /\ color[s] # "Black"
    BY <1>2, <2>1 DEF State
  <2>4. fst.final \subseteq State
    BY <1>5 DEF FstType
  <2>5. ofst.final = {s \in fst.final : color[s] = "Black"}
    BY <2>1, <2>3, <2>4
  <2> QED
    BY <1>3, <2>1, <2>2, <2>3, <2>5 DEF CopyIsKept
<1> QED
  BY <1>6, <1>7, <1>9, <1>10, <1>11, <1>12, <1>13, <1>14 DEF VisitInv

\* Every turn keeps a visit as it should be.
LEMMA VisitInductive ==
  ASSUME FstsAssumption, VisitInv, VisitNext \/ UNCHANGED <<search, finish, visits>>
  PROVE  VisitInv'
<1>1. CASE VisitNext
  BY <1>1, RootKeeps, ArcKeeps, FinishKeeps, CloseKeeps DEF VisitNext
<1>2. CASE UNCHANGED <<search, finish, visits>>
  <2>1. /\ fst' = fst /\ color' = color /\ stack' = stack /\ dfs' = dfs /\ root' = root /\ nstates' = nstates
        /\ siter' = siter /\ at' = at /\ finish' = finish /\ how' = how /\ left' = left /\ met' = met /\ ofst' = ofst
    BY <1>2 DEF search, visits
  <2>2. /\ VisitTypeOK /\ TreesSweep /\ StatesAreListed /\ LimitIsDrawn /\ ArcsAreFollowed
        /\ MetAreReached /\ StackDescends /\ FinishesInDepth /\ MeetsByLevels /\ CopyIsKept
    BY DEF VisitInv
  <2>3. VisitTypeOK' /\ TreesSweep' /\ StatesAreListed' /\ LimitIsDrawn'
    BY <2>1, <2>2 DEF VisitTypeOK, SweepTypeOK, TreesSweep, RootsSweep, StatesAreListed, LimitIsDrawn
  <2>4. Steps' = Steps /\ \A x, y : KeptArc(x, y)' <=> KeptArc(x, y)
    BY <2>1, StepsStay
  <2>5. \A s \in State : Gone(s)' = Gone(s) /\ Kept(s)' = Kept(s)
    BY <2>1 DEF Gone, Kept
  <2>6. ArcsAreFollowed'
    BY <2>1, <2>2, <2>5 DEF ArcsAreFollowed
  <2>7. MetAreReached' /\ StackDescends' /\ FinishesInDepth' /\ MeetsByLevels'
    BY <2>1, <2>2, <2>4 DEF MetAreReached, StackDescends, FinishesInDepth, MeetsByLevels
  <2>8. Copied(ofst)' = Copied(ofst) /\ \A p : CopiedTo(ofst, p)' = CopiedTo(ofst, p)
    BY <2>1 DEF Copied, CopiedTo
  <2>9. CopyIsKept'
    BY <2>1, <2>2, <2>5, <2>8 DEF CopyIsKept
  <2> QED
    BY <2>3, <2>6, <2>7, <2>9 DEF VisitInv
<1> QED
  BY <1>1, <1>2

\* Members of a sequence that come before all others are a part of it at its start.
LEMMA FirstPart ==
  ASSUME NEW S, NEW q \in Seq(S), IsInjective(q), NEW near, near \subseteq ToSet(q),
         \A i, j \in DOMAIN q : i < j /\ q[j] \in near => q[i] \in near
  PROVE  ToSet(SubSeq(q, 1, Cardinality(near))) = near
<1> DEFINE D == {i \in DOMAIN q : q[i] \in near}
           after == {m \in Nat : m + 1 \notin D}
<1>1. Len(q) \in Nat /\ DOMAIN q = 1 .. Len(q)
  OBVIOUS
<1>2. Len(q) + 1 \notin 1 .. Len(q)
  BY <1>1
<1>3. PICK n \in after : \A m \in after : n <= m
  BY <1>1, <1>2, LeastNatural
<1>4. n \in Nat /\ n + 1 \notin D /\ n <= Len(q)
  BY <1>1, <1>2, <1>3
<1>5. D = 1 .. n
  <2>1. ASSUME NEW i \in 1 .. n PROVE i \in D
    <3>1. i - 1 \in Nat /\ ~(n <= i - 1) /\ (i - 1) + 1 = i
      BY <1>4
    <3> QED
      BY <1>3, <3>1
  <2>2. ASSUME NEW i \in D PROVE i \in 1 .. n
    <3>1. i \in 1 .. Len(q) /\ q[i] \in near /\ i # n + 1
      BY <1>1, <1>4
    <3>2. CASE i <= n
      BY <1>4, <3>1, <3>2
    <3>3. CASE i > n
      <4>1. n + 1 \in 1 .. Len(q) /\ n + 1 < i
        BY <1>1, <1>4, <3>1, <3>3
      <4>2. q[n + 1] \in near
        BY <1>1, <3>1, <4>1
      <4> QED
        BY <1>1, <1>4, <4>1, <4>2
    <3> QED
      BY <1>1, <1>4, <3>1, <3>2, <3>3
  <2> QED
    BY <2>1, <2>2
<1>6. \A i \in 1 .. n : i \in DOMAIN q /\ q[i] \in near
  BY <1>5
<1> DEFINE f == [i \in 1 .. n |-> q[i]]
<1>7. f \in Bijection(1 .. n, near)
  <2>1. \A x \in near : \E i \in 1 .. n : f[i] = x
    <3> SUFFICES ASSUME NEW x \in near PROVE \E i \in 1 .. n : f[i] = x
      OBVIOUS
    <3>1. PICK i \in DOMAIN q : q[i] = x
      BY DEF ToSet
    <3>2. i \in D
      BY <3>1
    <3> QED
      BY <1>5, <3>1, <3>2
  <2>2. \A i, j \in 1 .. n : f[i] = f[j] => i = j
    BY <1>6 DEF IsInjective
  <2>3. f \in [1 .. n -> near]
    BY <1>6
  <2> HIDE DEF f
  <2> QED
    BY <2>1, <2>2, <2>3 DEF Bijection, Injection, Surjection, IsInjective
<1>8. Cardinality(near) = n
  <2>1. IsFiniteSet(1 .. n) /\ Cardinality(1 .. n) = n
    BY <1>4, FS_Interval
  <2>2. ExistsBijection(1 .. n, near)
    BY <1>7 DEF ExistsBijection
  <2> HIDE DEF f, D, after
  <2> QED
    BY <2>1, <2>2, FS_Bijection
<1>9. /\ Len(SubSeq(q, 1, n)) = n /\ DOMAIN SubSeq(q, 1, n) = 1 .. n
      /\ \A i \in 1 .. n : SubSeq(q, 1, n)[i] = q[i]
  <2>1. SubSeq(q, 1, n) = [i \in 1 .. n |-> q[i]]
    <3>1. \A i \in 1 .. n : (1 + i) - 1 = i
      BY <1>4
    <3>2. (n - 1) + 1 = n
      BY <1>4
    <3> QED
      BY <1>4, <3>1, <3>2 DEF SubSeq
  <2> QED
    BY <1>4, <2>1
<1> QED
  <2>1. ASSUME NEW x \in near PROVE \E i \in 1 .. n : q[i] = x
    <3>1. PICK i \in DOMAIN q : q[i] = x
      BY DEF ToSet
    <3>2. i \in D
      BY <3>1
    <3> QED
      BY <1>5, <3>1, <3>2
  <2> HIDE DEF f, D, after
  <2>2. PICK r : r = SubSeq(q, 1, n)
    OBVIOUS
  <2>3. DOMAIN r = 1 .. n /\ \A i \in 1 .. n : r[i] = q[i]
    BY <1>9, <2>2
  <2>4. ToSet(r) \subseteq near
    BY <1>6, <2>3 DEF ToSet
  <2>5. near \subseteq ToSet(r)
    BY <2>1, <2>3 DEF ToSet
  <2> QED
    BY <1>8, <2>2, <2>4, <2>5

\* When a visit is over, what was met is what has finished.
LEMMA VisitIsOver ==
  ASSUME FstsAssumption, VisitInv, at = "done", fst.start # None
  PROVE  /\ stack = <<>> /\ met # <<>> /\ met \in Seq(State) /\ finish \in Seq(State)
         /\ Len(met) = Len(finish) /\ ToSet(met) = ToSet(finish) /\ ToSet(met) = {s \in State : color[s] = "Black"}
<1>1. VisitTypeOK /\ TreesSweep /\ StatesAreListed
  BY DEF VisitInv
<1>2. stack = <<>> /\ met # <<>>
  BY <1>1 DEF TreesSweep
<1>3. {s \in State : color[s] = "Grey"} = {}
  BY <1>1, <1>2 DEF StatesAreListed, ToSet
<1>4. met \in Seq(State) /\ finish \in Seq(State) /\ color \in [State -> {"White", "Grey", "Black"}]
  BY <1>1 DEF VisitTypeOK, SweepTypeOK
<1>5. {s \in State : color[s] # "White"} = {s \in State : color[s] = "Black"}
  BY <1>3, <1>4
<1>6. Len(met) = Len(finish) + 0 /\ Len(finish) \in Nat
  BY <1>1, <1>2, <1>4 DEF StatesAreListed
<1> QED
  BY <1>1, <1>2, <1>4, <1>5, <1>6 DEF StatesAreListed

\* What the invariant says of a visit that is over: its order,
LEMMA VisitsMeetInOrder ==
  ASSUME FstsAssumption, VisitInv
  PROVE  QueueHoldsTheGrey /\ VisitsInOrder
<1>1. /\ VisitTypeOK /\ TreesSweep /\ StatesAreListed /\ LimitIsDrawn /\ ArcsAreFollowed
      /\ MetAreReached /\ StackDescends /\ FinishesInDepth /\ MeetsByLevels /\ N \in Nat \ {0}
  BY DEF VisitInv, FstsAssumption
<1>2. QueueHoldsTheGrey
  BY <1>1 DEF StatesAreListed, StackDescends, QueueHoldsTheGrey
<1>3. ASSUME at = "done", fst.start # None
      PROVE  /\ IsInjective(met) /\ IsInjective(finish) /\ ToSet(met) = ToSet(finish)
             /\ PartialVisitor(met, finish).nfinish = Len(met)
             /\ ~dfs => Len(met) = how.maxvisit + 1
  BY <1>1, <1>3, VisitIsOver DEF StatesAreListed, LimitIsDrawn, PartialVisitor
<1>4. ASSUME at = "done", fst.start # None, dfs
      PROVE  /\ \A k \in 0 .. N : Steps[k][fst.start] \subseteq ToSet(met)
             /\ ToSet(met) = IF how.access_only THEN Steps[N][fst.start] ELSE State
  <2>1. /\ ToSet(met) = {s \in State : color[s] = "Black"} /\ {s \in State : color[s] = "Black"} = {s \in State : color[s] # "White"}
        /\ fst.start \in ToSet(met) /\ met # <<>>
    BY <1>1, <1>4, VisitIsOver, StartIsMet DEF StatesAreListed
  <2>2. \A s \in ToSet(met) : \A u \in State : KeptArc(s, u) => u \in ToSet(met)
    BY <1>1, <1>4, <2>1, FinishedLeadOn
  <2>3. \A k \in 0 .. N : Steps[k][fst.start] \subseteq ToSet(met)
    BY <1>1, <2>1, <2>2, StepsStayInside
  <2>4. ASSUME how.access_only PROVE ToSet(met) = Steps[N][fst.start]
    <3>1. N \in 0 .. N
      BY <1>1
    <3>2. Steps[N][fst.start] \subseteq ToSet(met)
      BY <2>3, <3>1
    <3>3. ToSet(met) \subseteq Steps[N][fst.start]
      BY <1>1, <2>4 DEF MetAreReached
    <3> QED
      BY <3>2, <3>3
  <2>5. ASSUME ~how.access_only PROVE ToSet(met) = State
    <3>1. RootsSweep
      BY <1>1, <2>5 DEF TreesSweep
    <3>2. \A s \in State : color[s] # "White"
      BY <1>4, <3>1 DEF RootsSweep
    <3>3. {s \in State : color[s] # "White"} = State
      BY <3>2
    <3> QED
      BY <2>1, <3>3
  <2> QED
    BY <2>3, <2>4, <2>5
<1>5. ASSUME at = "done", fst.start # None, dfs, how.queue = "fifo", NEW k \in 0 .. N - 1
      PROVE  ToSet(SubSeq(met, 1, Cardinality(Steps[k][fst.start]))) = Steps[k][fst.start]
  <2>1. k \in 0 .. N /\ met \in Seq(State) /\ IsInjective(met)
    BY <1>1 DEF VisitTypeOK, StatesAreListed
  <2>2. LevelIsMet(met, Steps[k][fst.start]) /\ Steps[k][fst.start] \subseteq ToSet(met)
    BY <1>1, <1>4, <1>5, <2>1 DEF MeetsByLevels
  <2> QED
    BY <2>1, <2>2, FirstPart DEF LevelIsMet
<1>6. ASSUME at = "done", fst.start # None, dfs, how.queue = "lifo", NEW when, when = [s \in ToSet(finish) |-> CHOOSE i \in DOMAIN finish : finish[i] = s],
             NEW s \in ToSet(finish), NEW t \in ToSet(finish), KeptArc(s, t), s \notin Steps[N][t]
      PROVE  when[t] < when[s]
  <2>1. IsInjective(finish) /\ finish \in Seq(State) /\ DOMAIN finish = 1 .. Len(finish) /\ ToSet(finish) \subseteq State
    BY <1>1 DEF StatesAreListed, VisitTypeOK
  <2>2. PICK i \in DOMAIN finish : finish[i] = s
    BY DEF ToSet
  <2>3. PICK j \in DOMAIN finish : j < i /\ finish[j] = t
    BY <1>1, <1>6, <2>1, <2>2 DEF FinishesInDepth
  <2>4. \A n \in DOMAIN finish : when[finish[n]] = n
    BY <1>6, <2>1 DEF IsInjective, ToSet
  <2> QED
    BY <2>2, <2>3, <2>4
<1>7. VisitsInOrder
  <2> SUFFICES ASSUME at = "done", fst.start # None
               PROVE  /\ IsInjective(met) /\ IsInjective(finish) /\ ToSet(met) = ToSet(finish)
                      /\ PartialVisitor(met, finish).nfinish = Len(met)
                      /\ ~dfs => Len(met) = how.maxvisit + 1
                      /\ dfs => ToSet(met) = IF how.access_only THEN Steps[N][fst.start] ELSE State
                      /\ dfs /\ how.queue = "fifo" =>
                           \A k \in 0 .. N - 1 : LET near == Steps[k][fst.start] IN ToSet(SubSeq(met, 1, Cardinality(near))) = near
                      /\ dfs /\ how.queue = "lifo" =>
                           LET when == [s \in ToSet(finish) |-> CHOOSE i \in DOMAIN finish : finish[i] = s]
                           IN  \A s, t \in ToSet(finish) : KeptArc(s, t) /\ s \notin Steps[N][t] => when[t] < when[s]
    BY DEF VisitsInOrder
  <2>1. dfs => ToSet(met) = IF how.access_only THEN Steps[N][fst.start] ELSE State
    BY <1>4
  <2>2. dfs /\ how.queue = "fifo" =>
          \A k \in 0 .. N - 1 : LET near == Steps[k][fst.start] IN ToSet(SubSeq(met, 1, Cardinality(near))) = near
    BY <1>5
  <2>3. dfs /\ how.queue = "lifo" =>
          LET when == [s \in ToSet(finish) |-> CHOOSE i \in DOMAIN finish : finish[i] = s]
          IN  \A s, t \in ToSet(finish) : KeptArc(s, t) /\ s \notin Steps[N][t] => when[t] < when[s]
    BY <1>6
  <2> QED
    BY <1>3, <2>1, <2>2, <2>3
<1> QED
  BY <1>2, <1>7

\* and its copy.
LEMMA VisitsCopyWhatTheyMeet ==
  ASSUME FstsAssumption, VisitInv
  PROVE  CopiesWhatItMeets
<1> SUFFICES ASSUME at = "done", fst.start # None
             PROVE  /\ \A s \in ToSet(met) : s < Len(ofst.arcs)
                    /\ ofst.final = fst.final \cap ToSet(met)
                    /\ \A p \in Copied(ofst) : CopiedTo(ofst, p) \in ToSet(met)
                    /\ dfs /\ how.copy_grey /\ how.copy_black =>
                         \A s \in ToSet(met) : ofst.arcs[s + 1] = Kept(s)[Len(fst.arcs[s])]
                    /\ ~how.copy_grey /\ ~how.copy_black => \A p, q \in Copied(ofst) : CopiedTo(ofst, p) = CopiedTo(ofst, q) => p = q
                    /\ how.access_only => \A i \in DOMAIN met : i # 1 => \E p \in Copied(ofst) : CopiedTo(ofst, p) = met[i]
  BY DEF CopiesWhatItMeets
<1>1. VisitTypeOK /\ ArcsAreFollowed /\ CopyIsKept
  BY DEF VisitInv
<1>2. ToSet(met) = {s \in State : color[s] = "Black"}
  BY VisitIsOver
<1>3. ofst.final = fst.final \cap ToSet(met)
  <2>1. fst.final \subseteq State /\ ofst.final = {s \in fst.final : color[s] = "Black"}
    BY <1>1 DEF VisitTypeOK, SweepTypeOK, FstType, CopyIsKept
  <2> QED
    BY <1>2, <2>1
<1>4. ASSUME dfs, how.copy_grey, how.copy_black, NEW s \in ToSet(met)
      PROVE  ofst.arcs[s + 1] = Kept(s)[Len(fst.arcs[s])]
  <2>1. s \in State /\ left[s] = <<>> /\ fst.arcs[s] \in Seq(State) /\ s < Len(ofst.arcs)
    BY <1>1, <1>2, <1>4 DEF ArcsAreFollowed, VisitTypeOK, SweepTypeOK, FstType, CopyIsKept
  <2>2. Gone(s) = Len(fst.arcs[s])
    <3>1. Len(fst.arcs[s]) \in Nat /\ Len(left[s]) = 0
      BY <2>1
    <3> QED
      BY <3>1 DEF Gone
  <2>3. ofst.arcs[s + 1] = Kept(s)[Gone(s)]
    BY <1>1, <1>4, <2>1 DEF CopyIsKept
  <2> QED
    BY <2>2, <2>3
<1> QED
  BY <1>1, <1>3, <1>4 DEF CopyIsKept

-----------------------------------------------------------------------------
(***************************************************************************)
(* The queue chosen                                                        *)
(***************************************************************************)

Disciplines == {"trivial", "lifo", "shortest first", "fifo"}

\* The arcs of the states before s, and the first n of its own.
Before(s, n) ==
  {a \in State \X Nat : a[2] \in 1 .. Len(fst.arcs[a[1]]) /\ (a[1] < s \/ (a[1] = s /\ a[2] <= n))}

StaysIn(c, a) == scc[a[1]] = c /\ scc[fst.arcs[a[1]][a[2]]] = c

\* What the disciplines say of the arcs they were chosen by.
DisciplinesFit(types, arcs, weigh, ring) ==
  /\ types \in [0 .. nscc - 1 -> Disciplines]
  /\ \A c \in 0 .. nscc - 1 :
       /\ types[c] = "trivial" <=> \A a \in arcs : ~StaysIn(c, a)
       /\ types[c] = "shortest first" => /\ Ordered(ring)
                                         /\ \A a \in arcs : StaysIn(c, a) => weigh[a[1]][a[2]] # "lighter"
       /\ types[c] = "lifo" => \A a \in arcs : StaysIn(c, a) => weigh[a[1]][a[2]] \in {"zero", "one"}

\* An arc that leads out of its component says nothing of it.
LEMMA LeavingFits ==
  ASSUME NEW types, NEW arcs, NEW weigh, NEW ring, DisciplinesFit(types, arcs, weigh, ring),
         NEW a, \A c : ~StaysIn(c, a)
  PROVE  DisciplinesFit(types, arcs \cup {a}, weigh, ring)
  BY DEF DisciplinesFit

\* One that stays inside it changes its discipline.
LEMMA StayingFits ==
  ASSUME NEW types, NEW arcs, NEW weigh, NEW ring, DisciplinesFit(types, arcs, weigh, ring),
         NEW a, NEW c \in 0 .. nscc - 1, StaysIn(c, a), NEW new, new = InnerType(types[c], weigh[a[1]][a[2]], ring)
  PROVE  DisciplinesFit([types EXCEPT ![c] = new], arcs \cup {a}, weigh, ring)
<1> DEFINE more == [types EXCEPT ![c] = new]
<1>1. types \in [0 .. nscc - 1 -> Disciplines] /\ types[c] \in Disciplines
  BY DEF DisciplinesFit
<1>2. new \in Disciplines \ {"trivial"}
  BY <1>1 DEF InnerType, Disciplines
<1>3. more \in [0 .. nscc - 1 -> Disciplines] /\ more[c] = new /\ \A d \in 0 .. nscc - 1 : d # c => more[d] = types[d]
  BY <1>1, <1>2
<1>4. \A d : d # c => ~StaysIn(d, a)
  BY DEF StaysIn
<1> HIDE DEF more
<1>5. new = "shortest first" =>
        /\ Ordered(ring) /\ weigh[a[1]][a[2]] # "lighter"
        /\ \A b \in arcs : StaysIn(c, b) => weigh[b[1]][b[2]] # "lighter"
  <2> SUFFICES ASSUME new = "shortest first"
               PROVE  /\ Ordered(ring) /\ weigh[a[1]][a[2]] # "lighter"
                      /\ \A b \in arcs : StaysIn(c, b) => weigh[b[1]][b[2]] # "lighter"
    OBVIOUS
  <2>1. Ordered(ring) /\ weigh[a[1]][a[2]] # "lighter" /\ types[c] \in {"trivial", "lifo", "shortest first"}
    BY <1>1 DEF InnerType, Disciplines
  <2> QED
    BY <2>1 DEF DisciplinesFit
<1>6. new = "lifo" =>
        /\ weigh[a[1]][a[2]] \in {"zero", "one"}
        /\ \A b \in arcs : StaysIn(c, b) => weigh[b[1]][b[2]] \in {"zero", "one"}
  <2> SUFFICES ASSUME new = "lifo"
               PROVE  /\ weigh[a[1]][a[2]] \in {"zero", "one"}
                      /\ \A b \in arcs : StaysIn(c, b) => weigh[b[1]][b[2]] \in {"zero", "one"}
    OBVIOUS
  <2>1. weigh[a[1]][a[2]] \in {"zero", "one"} /\ types[c] \in {"trivial", "lifo"}
    BY <1>1 DEF InnerType, Disciplines, Plain
  <2> QED
    BY <2>1 DEF DisciplinesFit
<1>7. ASSUME NEW d \in 0 .. nscc - 1
      PROVE  /\ more[d] = "trivial" <=> \A b \in arcs \cup {a} : ~StaysIn(d, b)
             /\ more[d] = "shortest first" => /\ Ordered(ring)
                                              /\ \A b \in arcs \cup {a} : StaysIn(d, b) => weigh[b[1]][b[2]] # "lighter"
             /\ more[d] = "lifo" => \A b \in arcs \cup {a} : StaysIn(d, b) => weigh[b[1]][b[2]] \in {"zero", "one"}
  <2>1. CASE d = c
    BY <1>2, <1>3, <1>5, <1>6, <2>1
  <2>2. CASE d # c
    <3>1. more[d] = types[d] /\ ~StaysIn(d, a)
      BY <1>3, <1>4, <2>2
    <3>2. /\ types[d] = "trivial" <=> \A b \in arcs : ~StaysIn(d, b)
          /\ types[d] = "shortest first" => /\ Ordered(ring)
                                            /\ \A b \in arcs : StaysIn(d, b) => weigh[b[1]][b[2]] # "lighter"
          /\ types[d] = "lifo" => \A b \in arcs : StaysIn(d, b) => weigh[b[1]][b[2]] \in {"zero", "one"}
      BY DEF DisciplinesFit
    <3>3. \A b \in arcs \cup {a} : StaysIn(d, b) => b \in arcs
      BY <3>1
    <3> QED
      BY <3>1, <3>2, <3>3
  <2> QED
    BY <2>1, <2>2
<1> QED
  BY <1>3, <1>7 DEF DisciplinesFit, more

\* No arc has been looked at.
LEMMA NothingFits ==
  ASSUME NEW weigh, NEW ring
  PROVE  DisciplinesFit([c \in 0 .. nscc - 1 |-> "trivial"], {}, weigh, ring)
  BY DEF DisciplinesFit, Disciplines

\* What is before, pair by pair.
LEMMA InBefore ==
  ASSUME NEW s, NEW n, NEW u \in State, NEW m \in Nat
  PROVE  <<u, m>> \in Before(s, n) <=> m \in 1 .. Len(fst.arcs[u]) /\ (u < s \/ (u = s /\ m <= n))
<1> DEFINE a == <<u, m>>
<1>1. a \in State \X Nat /\ a[1] = u /\ a[2] = m
  OBVIOUS
<1> HIDE DEF a
<1>2. a \in Before(s, n) <=> a[2] \in 1 .. Len(fst.arcs[a[1]]) /\ (a[1] < s \/ (a[1] = s /\ a[2] <= n))
  BY <1>1 DEF Before
<1> QED
  BY <1>1, <1>2 DEF a

\* The arcs are looked at one by one.
LEMMA OneMoreArc ==
  ASSUME N \in Nat, fst \in FstType
  PROVE  /\ Before(0, 0) = {}
         /\ \A s \in State : \A n \in 0 .. Len(fst.arcs[s]) - 1 : Before(s, n + 1) = Before(s, n) \cup {<<s, n + 1>>}
         /\ \A s \in State : Before(s + 1, 0) = Before(s, Len(fst.arcs[s]))
         /\ Before(N, 0) = {a \in State \X Nat : a[2] \in 1 .. Len(fst.arcs[a[1]])}
<1>1. \A s \in State : s \in Nat /\ s < N
  BY DEF State
<1>2. \A s \in State : Len(fst.arcs[s]) \in Nat
  BY DEF FstType
<1>3. \A s, n : Before(s, n) \subseteq State \X Nat
  BY DEF Before
<1>4. Before(0, 0) = {}
  <2> SUFFICES ASSUME NEW a \in State \X Nat, a \in Before(0, 0) PROVE FALSE
    BY <1>3
  <2>1. PICK u \in State, m \in Nat : a = <<u, m>>
    OBVIOUS
  <2>2. m \in 1 .. Len(fst.arcs[u]) /\ (u < 0 \/ (u = 0 /\ m <= 0))
    BY <2>1, InBefore
  <2> QED
    BY <1>1, <1>2, <2>2
<1>5. ASSUME NEW s \in State, NEW n \in 0 .. Len(fst.arcs[s]) - 1
      PROVE  Before(s, n + 1) = Before(s, n) \cup {<<s, n + 1>>}
  <2>1. n + 1 \in 1 .. Len(fst.arcs[s]) /\ n + 1 \in Nat /\ n \in Nat /\ s \in Nat
    BY <1>1, <1>2
  <2>2. <<s, n + 1>> \in State \X Nat
    BY <2>1
  <2>3. ASSUME NEW a \in State \X Nat PROVE a \in Before(s, n + 1) <=> a \in Before(s, n) \cup {<<s, n + 1>>}
    <3>1. PICK u \in State, m \in Nat : a = <<u, m>>
      OBVIOUS
    <3>2. a \in Before(s, n + 1) <=> m \in 1 .. Len(fst.arcs[u]) /\ (u < s \/ (u = s /\ m <= n + 1))
      BY <3>1, InBefore
    <3>3. a \in Before(s, n) <=> m \in 1 .. Len(fst.arcs[u]) /\ (u < s \/ (u = s /\ m <= n))
      BY <3>1, InBefore
    <3>4. a = <<s, n + 1>> <=> u = s /\ m = n + 1
      BY <3>1
    <3>5. m <= n + 1 <=> m <= n \/ m = n + 1
      BY <2>1
    <3>6. u = s /\ m = n + 1 => m \in 1 .. Len(fst.arcs[u])
      BY <2>1
    <3> QED
      BY <3>2, <3>3, <3>4, <3>5, <3>6
  <2> QED
    BY <1>3, <2>2, <2>3
<1>6. ASSUME NEW s \in State PROVE Before(s + 1, 0) = Before(s, Len(fst.arcs[s]))
  <2>1. s \in Nat /\ s + 1 \in Nat /\ Len(fst.arcs[s]) \in Nat
    BY <1>1, <1>2
  <2>2. ASSUME NEW a \in State \X Nat PROVE a \in Before(s + 1, 0) <=> a \in Before(s, Len(fst.arcs[s]))
    <3>1. PICK u \in State, m \in Nat : a = <<u, m>>
      OBVIOUS
    <3>2. a \in Before(s + 1, 0) <=> m \in 1 .. Len(fst.arcs[u]) /\ (u < s + 1 \/ (u = s + 1 /\ m <= 0))
      BY <3>1, InBefore
    <3>3. a \in Before(s, Len(fst.arcs[s])) <=> m \in 1 .. Len(fst.arcs[u]) /\ (u < s \/ (u = s /\ m <= Len(fst.arcs[s])))
      BY <3>1, InBefore
    <3>4. u \in Nat /\ (u < s + 1 <=> u < s \/ u = s)
      BY <1>1, <2>1
    <3>5. m \in 1 .. Len(fst.arcs[u]) => ~(m <= 0) /\ (u = s => m <= Len(fst.arcs[s]))
      BY <1>2
    <3> QED
      BY <3>2, <3>3, <3>4, <3>5
  <2>3. Before(s + 1, 0) \subseteq State \X Nat /\ Before(s, Len(fst.arcs[s])) \subseteq State \X Nat
    BY <1>3
  <2> QED
    BY <2>2, <2>3
<1>7. Before(N, 0) = {a \in State \X Nat : a[2] \in 1 .. Len(fst.arcs[a[1]])}
  <2>1. ASSUME NEW a \in State \X Nat PROVE a \in Before(N, 0) <=> a[2] \in 1 .. Len(fst.arcs[a[1]])
    <3>1. PICK u \in State, m \in Nat : a = <<u, m>>
      OBVIOUS
    <3>2. a \in Before(N, 0) <=> m \in 1 .. Len(fst.arcs[u]) /\ (u < N \/ (u = N /\ m <= 0))
      BY <3>1, InBefore
    <3> QED
      BY <1>1, <3>1, <3>2
  <2> QED
    BY <1>3, <2>1
<1> QED
  BY <1>4, <1>5, <1>6, <1>7

\* The arcs of one state are looked at in turn.
LEMMA StateIsLookedAt ==
  ASSUME N \in Nat, fst \in FstType, scc \in [State -> 0 .. nscc - 1],
         NEW types, NEW s \in State, NEW weigh, NEW ring, DisciplinesFit(types, Before(s, 0), weigh, ring)
  PROVE  DisciplinesFit(AfterState(types, s, weigh, ring), Before(s, Len(fst.arcs[s])), weigh, ring)
<1> DEFINE L == Len(fst.arcs[s])
           Next_(n, x) == IF scc[fst.arcs[s][n]] # scc[s] THEN x
                          ELSE [x EXCEPT ![scc[s]] = InnerType(@, weigh[s][n], ring)]
           Made(m, u) == u = [n \in 0 .. m |-> IF n = 0 THEN types ELSE Next_(n, u[n - 1])]
           S == {m \in Nat : \E u : Made(m, u)}
<1>1. AfterState(types, s, weigh, ring) = (CHOOSE u : Made(L, u))[L]
  BY DEF AfterState
<1>2. L \in Nat /\ fst.arcs[s] \in Seq(State) /\ \A n \in 1 .. L : fst.arcs[s][n] \in State
  BY DEF FstType
<1> HIDE DEF Next_
<1>3. 0 \in S
  <2>1. Made(0, [n \in 0 .. 0 |-> types])
    OBVIOUS
  <2> QED
    BY <2>1
<1>4. ASSUME NEW m \in Nat, m \in S PROVE m + 1 \in S
  <2>1. PICK u : Made(m, u)
    BY <1>4
  <2> DEFINE v == [n \in 0 .. m + 1 |-> IF n <= m THEN u[n] ELSE Next_(m + 1, u[m])]
  <2>2. Made(m + 1, v)
    <3>1. ASSUME NEW n \in 0 .. m + 1 PROVE v[n] = IF n = 0 THEN types ELSE Next_(n, v[n - 1])
      <4>1. CASE n <= m
        BY <2>1, <4>1
      <4>2. CASE ~(n <= m)
        <5>1. n = m + 1 /\ n # 0 /\ n - 1 = m /\ m \in 0 .. m + 1 /\ m <= m
          BY <4>2
        <5> QED
          BY <5>1
      <4> QED
        BY <4>1, <4>2
    <3> QED
      BY <3>1
  <2> HIDE DEF v
  <2> QED
    BY <2>2
<1>5. PICK u : Made(L, u)
  <2> HIDE DEF S
  <2>1. L \in S
    BY <1>2, <1>3, <1>4, SetInduction
  <2> QED
    BY <2>1 DEF S
<1>6. PICK v : v = (CHOOSE w : Made(L, w)) /\ Made(L, v)
  <2> HIDE DEF Made
  <2> QED
    BY <1>5
<1>7. Made(L, v)
  <2> HIDE DEF Made
  <2> QED
    BY <1>6
<1>8. v[0] = types /\ \A n \in 0 .. L - 1 : v[n + 1] = Next_(n + 1, v[n])
  <2>1. v[0] = types
    <3>1. v = [n \in 0 .. L |-> IF n = 0 THEN types ELSE Next_(n, v[n - 1])]
      BY <1>7
    <3>2. 0 \in 0 .. L
      BY <1>2
    <3> HIDE DEF L
    <3> QED
      BY <3>1, <3>2
  <2>2. ASSUME NEW n \in 0 .. L - 1 PROVE v[n + 1] = Next_(n + 1, v[n])
    <3>1. n + 1 \in 0 .. L /\ n + 1 # 0 /\ (n + 1) - 1 = n
      BY <1>2
    <3>2. v[n + 1] = Next_(n + 1, v[(n + 1) - 1])
      BY <1>7, <3>1
    <3> QED
      BY <3>1, <3>2
  <2> QED
    BY <2>1, <2>2
<1> DEFINE T == {m \in Nat : m <= L => DisciplinesFit(v[m], Before(s, m), weigh, ring)}
<1>9. 0 \in T
  BY <1>2, <1>8
<1>10. ASSUME NEW m \in Nat, m \in T PROVE m + 1 \in T
  <2> SUFFICES ASSUME m + 1 <= L PROVE DisciplinesFit(v[m + 1], Before(s, m + 1), weigh, ring)
    OBVIOUS
  <2>1. m \in 0 .. L - 1 /\ m + 1 \in 1 .. L
    BY <1>2
  <2> DEFINE a == <<s, m + 1>>
             b == Before(s, m)
  <2>2. Before(s, m + 1) = b \cup {a} /\ a[1] = s /\ a[2] = m + 1
    BY <2>1, OneMoreArc
  <2>3. DisciplinesFit(v[m], b, weigh, ring)
    BY <1>2, <1>10, <2>1
  <2>4. v[m + 1] = Next_(m + 1, v[m])
    BY <1>8, <2>1
  <2> HIDE DEF a, b, T
  <2>5. CASE scc[fst.arcs[s][m + 1]] # scc[s]
    <3>1. v[m + 1] = v[m] /\ \A c : ~StaysIn(c, a)
      BY <2>2, <2>4, <2>5 DEF Next_, StaysIn
    <3>2. DisciplinesFit(v[m], b \cup {a}, weigh, ring)
      BY <2>3, <3>1, LeavingFits
    <3> QED
      BY <2>2, <3>1, <3>2
  <2>6. CASE scc[fst.arcs[s][m + 1]] = scc[s]
    <3>1. scc[s] \in 0 .. nscc - 1 /\ StaysIn(scc[s], a)
      BY <2>2, <2>6 DEF StaysIn
    <3>2. PICK new : new = InnerType(v[m][scc[s]], weigh[a[1]][a[2]], ring)
      OBVIOUS
    <3>3. v[m + 1] = [v[m] EXCEPT ![scc[s]] = new]
      BY <2>2, <2>4, <2>6, <3>2 DEF Next_
    <3>4. DisciplinesFit([v[m] EXCEPT ![scc[s]] = new], b \cup {a}, weigh, ring)
      BY <2>3, <3>1, <3>2, StayingFits
    <3> QED
      BY <2>2, <3>3, <3>4
  <2> QED
    BY <2>5, <2>6
<1>11. L \in T
  <2> HIDE DEF T
  <2> QED
    BY <1>2, <1>9, <1>10, SetInduction
<1>12. DisciplinesFit(v[L], Before(s, L), weigh, ring)
  BY <1>2, <1>11
<1> QED
  BY <1>1, <1>6, <1>12

\* And so are those of every state.
LEMMA StatesAreLookedAt ==
  ASSUME N \in Nat, fst \in FstType, scc \in [State -> 0 .. nscc - 1], NEW weigh, NEW ring
  PROVE  DisciplinesFit(scc_queue_types(weigh, ring), Before(N, 0), weigh, ring)
<1> DEFINE first == [c \in 0 .. nscc - 1 |-> "trivial"]
           Next_(n, x) == AfterState(x, n - 1, weigh, ring)
           Made(m, u) == u = [n \in 0 .. m |-> IF n = 0 THEN first ELSE Next_(n, u[n - 1])]
           S == {m \in Nat : \E u : Made(m, u)}
<1>1. scc_queue_types(weigh, ring) = (CHOOSE u : Made(N, u))[N]
  BY DEF scc_queue_types
<1> HIDE DEF Next_, first
<1>2. 0 \in S
  <2>1. Made(0, [n \in 0 .. 0 |-> first])
    OBVIOUS
  <2> QED
    BY <2>1
<1>3. ASSUME NEW m \in Nat, m \in S PROVE m + 1 \in S
  <2>1. PICK u : Made(m, u)
    BY <1>3
  <2> DEFINE v == [n \in 0 .. m + 1 |-> IF n <= m THEN u[n] ELSE Next_(m + 1, u[m])]
  <2>2. Made(m + 1, v)
    <3>1. ASSUME NEW n \in 0 .. m + 1 PROVE v[n] = IF n = 0 THEN first ELSE Next_(n, v[n - 1])
      <4>1. CASE n <= m
        BY <2>1, <4>1
      <4>2. CASE ~(n <= m)
        <5>1. n = m + 1 /\ n # 0 /\ n - 1 = m /\ m \in 0 .. m + 1 /\ m <= m
          BY <4>2
        <5> QED
          BY <5>1
      <4> QED
        BY <4>1, <4>2
    <3> QED
      BY <3>1
  <2> HIDE DEF v
  <2> QED
    BY <2>2
<1>4. PICK u : Made(N, u)
  <2> HIDE DEF S
  <2>1. N \in S
    BY <1>2, <1>3, SetInduction
  <2> QED
    BY <2>1 DEF S
<1>5. PICK v : v = (CHOOSE w : Made(N, w)) /\ Made(N, v)
  <2> HIDE DEF Made
  <2> QED
    BY <1>4
<1>6. Made(N, v)
  <2> HIDE DEF Made
  <2> QED
    BY <1>5
<1>7. v[0] = first /\ \A n \in 0 .. N - 1 : v[n + 1] = Next_(n + 1, v[n])
  <2>1. v[0] = first
    <3>1. 0 \in 0 .. N /\ v = [n \in 0 .. N |-> IF n = 0 THEN first ELSE Next_(n, v[n - 1])]
      BY <1>6
    <3> QED
      BY <3>1
  <2>2. ASSUME NEW n \in 0 .. N - 1 PROVE v[n + 1] = Next_(n + 1, v[n])
    <3>1. n + 1 \in 0 .. N /\ n + 1 # 0 /\ (n + 1) - 1 = n
      OBVIOUS
    <3>2. v[n + 1] = Next_(n + 1, v[(n + 1) - 1])
      BY <1>6, <3>1
    <3> QED
      BY <3>1, <3>2
  <2> QED
    BY <2>1, <2>2
<1> DEFINE T == {m \in Nat : m <= N => DisciplinesFit(v[m], Before(m, 0), weigh, ring)}
<1>8. 0 \in T
  <2>1. DisciplinesFit(v[0], Before(0, 0), weigh, ring)
    <3>1. DisciplinesFit(first, {}, weigh, ring)
      BY NothingFits DEF first
    <3> QED
      BY <1>7, <3>1, OneMoreArc
  <2> QED
    BY <2>1
<1>9. ASSUME NEW m \in Nat, m \in T PROVE m + 1 \in T
  <2> SUFFICES ASSUME m + 1 <= N PROVE DisciplinesFit(v[m + 1], Before(m + 1, 0), weigh, ring)
    OBVIOUS
  <2>1. m \in 0 .. N - 1 /\ m \in State /\ m <= N /\ (m + 1) - 1 = m
    BY DEF State
  <2>2. DisciplinesFit(v[m], Before(m, 0), weigh, ring)
    BY <1>9, <2>1
  <2>3. v[m + 1] = AfterState(v[m], m, weigh, ring)
    BY <1>7, <2>1 DEF Next_
  <2>4. Before(m + 1, 0) = Before(m, Len(fst.arcs[m]))
    BY <2>1, OneMoreArc
  <2> HIDE DEF T
  <2> QED
    BY <2>1, <2>2, <2>3, <2>4, StateIsLookedAt
<1>10. N \in T
  <2> HIDE DEF T
  <2> QED
    BY <1>8, <1>9, SetInduction
<1>11. DisciplinesFit(v[N], Before(N, 0), weigh, ring)
  BY <1>10
<1> QED
  BY <1>1, <1>5, <1>11

\* Every number is that of some component.
NumbersAreUsed == \A c \in 0 .. nscc - 1 : \E s \in State : scc[s] = c

\* At first no component has a number.
LEMMA NumbersStart ==
  ASSUME SccInit
  PROVE  NumbersAreUsed
  BY DEF SccInit, NumbersAreUsed

\* A component that closes takes the next number, and those of the others stay, or
\* are all turned round.
LEMMA NumbersStayUsed ==
  ASSUME FstsAssumption, SccInv, NumbersAreUsed, SccNext \/ UNCHANGED <<search, sccs>>
  PROVE  NumbersAreUsed'
<1>1. ClosedAreNumbered /\ nscc \in Nat /\ None \notin Nat
  BY DEF SccInv, ClosedAreNumbered, FstsAssumption
<1>2. CASE UNCHANGED <<scc, nscc>>
  BY <1>2 DEF NumbersAreUsed, State
<1>3. ASSUME FinishState, finish_state(Top.state, Top.parent), ~UNCHANGED <<scc, nscc>> PROVE NumbersAreUsed'
  <2>1. PICK s, p : s = Top.state /\ p = Top.parent
    OBVIOUS
  <2>2. Finishes(s, p) /\ s \in State
    <3>1. Finishes(Top.state, Top.parent)
      BY <1>3, FinishingFinishes
    <3> QED
      BY <2>1, <3>1 DEF Finishes, Newest, Grey
  <2>3. finish_state(s, p) /\ lowlink[s] = dfnumber[s]
    BY <1>3, <2>1 DEF finish_state
  <2>4. /\ Component(s) \subseteq State /\ s \in Component(s) /\ Component(s) \cap Closed = {}
        /\ scc' = [t \in State |-> IF t \in Component(s) THEN nscc ELSE scc[t]] /\ nscc' = nscc + 1
    BY <2>2, <2>3, ClosedStates DEF finish_state
  <2> SUFFICES ASSUME NEW c \in 0 .. nscc' - 1 PROVE \E t \in State : scc'[t] = c
    BY DEF NumbersAreUsed, State
  <2>5. CASE c = nscc
    BY <2>2, <2>4, <2>5
  <2>6. CASE c # nscc
    <3>1. c \in 0 .. nscc - 1 /\ c \in Nat
      BY <1>1, <2>4, <2>6
    <3>2. PICK t \in State : scc[t] = c
      BY <3>1 DEF NumbersAreUsed
    <3>3. t \in Closed
      BY <1>1, <3>1, <3>2 DEF ClosedAreNumbered
    <3> QED
      BY <2>4, <3>2, <3>3
  <2> QED
    BY <2>5, <2>6
<1>4. ASSUME finish_visit PROVE NumbersAreUsed'
  <2> SUFFICES ASSUME NEW c \in 0 .. nscc' - 1 PROVE \E t \in State : scc'[t] = c
    BY DEF NumbersAreUsed, State
  <2>1. nscc' = nscc /\ scc' = [s \in State |-> IF scc[s] = None THEN None ELSE nscc - 1 - scc[s]]
    BY <1>4 DEF finish_visit
  <2>2. c \in Nat /\ nscc - 1 - c \in 0 .. nscc - 1 /\ nscc - 1 - c \in Nat /\ nscc - 1 - (nscc - 1 - c) = c
    BY <1>1, <2>1
  <2>3. PICK t \in State : scc[t] = nscc - 1 - c
    BY <2>2 DEF NumbersAreUsed
  <2>4. scc[t] # None
    BY <1>1, <2>2, <2>3
  <2>5. scc'[t] = nscc - 1 - scc[t]
    BY <2>1, <2>4
  <2> QED
    BY <2>2, <2>3, <2>5
<1>5. \/ UNCHANGED <<scc, nscc>>
      \/ FinishState /\ finish_state(Top.state, Top.parent)
      \/ finish_visit
  BY DEF SccNext, init_state, back_arc, forward_or_cross_arc, sccs
<1> QED
  BY <1>2, <1>3, <1>4, <1>5

\* A state is on a cycle when an arc leads from it within its component.
LEMMA CyclesAreInside ==
  ASSUME N \in Nat, Searched, ComponentsAreRight, NEW s \in State
  PROVE  OnCycle(s) <=> \E t \in State : Arc(s, t) /\ scc[t] = scc[s]
<1>1. Reach \in [State -> SUBSET State] /\ \A t \in State : t \in Reach[t]
  BY ReachBasics
<1>2. ASSUME NEW t \in State, Arc(s, t) PROVE t \in Reach[s] /\ (scc[t] = scc[s] <=> s \in Reach[t])
  <2>1. t \in Reach[s]
    BY <1>1, <1>2, ReachExtends
  <2> QED
    BY <2>1 DEF ComponentsAreRight
<1> QED
  BY <1>2 DEF OnCycle

\* A component no arc stays inside is a state.
LEMMA TrivialIsOne ==
  ASSUME N \in Nat, Searched, ComponentsAreRight, scc \in [State -> Nat],
         NEW s \in State, NEW t \in State, scc[s] = scc[t], \A u \in State : Arc(s, u) => scc[u] # scc[s]
  PROVE  s = t
<1> DEFINE S == {s} \cup {u \in State : scc[u] > scc[s]}
<1>1. \A u, v \in State : Arc(u, v) => scc[u] <= scc[v]
  BY DEF ComponentsAreRight
<1>2. ASSUME NEW u \in S, NEW v \in State, Arc(u, v) PROVE v \in S
  <2>1. u \in State /\ scc[u] \in Nat /\ scc[v] \in Nat /\ scc[s] \in Nat /\ scc[u] <= scc[v]
    BY <1>1, <1>2
  <2>2. CASE u = s
    BY <1>2, <2>1, <2>2
  <2>3. CASE scc[u] > scc[s]
    BY <2>1, <2>3
  <2> QED
    BY <2>2, <2>3
<1>3. S \in SUBSET State /\ s \in S
  OBVIOUS
<1>4. Reach[s] \subseteq S
  <2> HIDE DEF S
  <2> QED
    BY <1>2, <1>3, ReachStaysInside
<1>5. t \in Reach[s]
  BY DEF ComponentsAreRight
<1>6. scc[t] \in Nat /\ ~(scc[t] > scc[s])
  OBVIOUS
<1> QED
  BY <1>4, <1>5, <1>6

\* The arcs inside a component, and their weights.
LEMMA InsideIsByArcs ==
  ASSUME N \in Nat, fst \in FstType, NEW c, NEW weigh
  PROVE  /\ \A w : w \in Inside(c, weigh) <=> \E a \in Before(N, 0) : StaysIn(c, a) /\ w = weigh[a[1]][a[2]]
         /\ (\A a \in Before(N, 0) : ~StaysIn(c, a)) <=> \A s, t \in State : Arc(s, t) /\ scc[s] = c => scc[t] # c
<1>1. Before(N, 0) = {a \in State \X Nat : a[2] \in 1 .. Len(fst.arcs[a[1]])}
  BY OneMoreArc
<1>2. \A s \in State : /\ DOMAIN fst.arcs[s] = 1 .. Len(fst.arcs[s]) /\ Len(fst.arcs[s]) \in Nat
                       /\ \A i \in 1 .. Len(fst.arcs[s]) : i \in Nat /\ fst.arcs[s][i] \in State
  BY DEF FstType
<1>3. ASSUME NEW s \in State, NEW i \in 1 .. Len(fst.arcs[s])
      PROVE  \E a \in Before(N, 0) : a[1] = s /\ a[2] = i
  <2>1. <<s, i>> \in State \X Nat /\ <<s, i>>[1] = s /\ <<s, i>>[2] = i
    BY <1>2
  <2>2. <<s, i>> \in Before(N, 0)
    BY <1>1, <2>1
  <2> QED
    BY <2>1, <2>2
<1>4. \A a \in Before(N, 0) : a[1] \in State /\ a[2] \in 1 .. Len(fst.arcs[a[1]])
  BY <1>1
<1>5. ASSUME NEW w PROVE w \in Inside(c, weigh) <=> \E a \in Before(N, 0) : StaysIn(c, a) /\ w = weigh[a[1]][a[2]]
  <2>1. w \in Inside(c, weigh) <=>
          \E s \in State : \E i \in 1 .. Len(fst.arcs[s]) : scc[s] = c /\ scc[fst.arcs[s][i]] = c /\ w = weigh[s][i]
    <3>1. w \in Inside(c, weigh) <=>
            \E s \in State : w \in {weigh[s][i] : i \in {j \in DOMAIN fst.arcs[s] : scc[s] = c /\ scc[fst.arcs[s][j]] = c}}
      BY DEF Inside
    <3> QED
      BY <1>2, <3>1
  <2>2. ASSUME NEW s \in State, NEW i \in 1 .. Len(fst.arcs[s]), scc[s] = c, scc[fst.arcs[s][i]] = c, w = weigh[s][i]
        PROVE  \E a \in Before(N, 0) : StaysIn(c, a) /\ w = weigh[a[1]][a[2]]
    BY <1>3, <2>2 DEF StaysIn
  <2>3. ASSUME NEW a \in Before(N, 0), StaysIn(c, a), w = weigh[a[1]][a[2]]
        PROVE  \E s \in State : \E i \in 1 .. Len(fst.arcs[s]) : scc[s] = c /\ scc[fst.arcs[s][i]] = c /\ w = weigh[s][i]
    BY <1>4, <2>3 DEF StaysIn
  <2> QED
    BY <2>1, <2>2, <2>3
<1>6. ASSUME \A a \in Before(N, 0) : ~StaysIn(c, a), NEW s \in State, NEW t \in State, Arc(s, t), scc[s] = c
      PROVE  scc[t] # c
  <2>1. PICK i \in 1 .. Len(fst.arcs[s]) : fst.arcs[s][i] = t
    BY <1>6 DEF Arc
  <2> QED
    BY <1>3, <1>6, <2>1 DEF StaysIn
<1>7. ASSUME \A s, t \in State : Arc(s, t) /\ scc[s] = c => scc[t] # c, NEW a \in Before(N, 0)
      PROVE  ~StaysIn(c, a)
  <2>1. a[1] \in State /\ a[2] \in 1 .. Len(fst.arcs[a[1]]) /\ fst.arcs[a[1]][a[2]] \in State
    BY <1>2, <1>4
  <2>2. Arc(a[1], fst.arcs[a[1]][a[2]])
    BY <2>1 DEF Arc
  <2> QED
    BY <1>7, <2>1, <2>2 DEF StaysIn
<1> QED
  BY <1>5, <1>6, <1>7

\* The discipline chosen by components that are right fits the automaton.
LEMMA ChosenFits ==
  ASSUME FstsAssumption, SccInv, NumbersAreUsed
  PROVE  ChosenQueueFits
<1> SUFFICES ASSUME Searched, fst \in Visited, NEW weigh \in Weighings, NEW ring \in Rings
             PROVE  LET claims == (IF \A s, t \in State : Arc(s, t) => s < t THEN {"TOP_SORTED"} ELSE {})
                                    \cup (IF \A s \in State : ~OnCycle(s) THEN {"ACYCLIC"} ELSE {})
                                    \cup (IF AllWeights(weigh) \subseteq {"zero", "one"} THEN {"UNWEIGHTED"} ELSE {})
                    IN \A bits \in SUBSET claims : QueueFits(AutoQueue(bits, weigh, ring), weigh, ring)
  BY DEF ChosenQueueFits
<1> SUFFICES ASSUME NEW bits,
                    "TOP_SORTED" \in bits => \A s, t \in State : Arc(s, t) => s < t,
                    "ACYCLIC" \in bits => \A s \in State : ~OnCycle(s),
                    "UNWEIGHTED" \in bits => AllWeights(weigh) \subseteq {"zero", "one"}
             PROVE  QueueFits(AutoQueue(bits, weigh, ring), weigh, ring)
  <2> DEFINE claims == (IF \A s, t \in State : Arc(s, t) => s < t THEN {"TOP_SORTED"} ELSE {})
                         \cup (IF \A s \in State : ~OnCycle(s) THEN {"ACYCLIC"} ELSE {})
                         \cup (IF AllWeights(weigh) \subseteq {"zero", "one"} THEN {"UNWEIGHTED"} ELSE {})
  <2>1. /\ "TOP_SORTED" \in claims => \A s, t \in State : Arc(s, t) => s < t
        /\ "ACYCLIC" \in claims => \A s \in State : ~OnCycle(s)
        /\ "UNWEIGHTED" \in claims => AllWeights(weigh) \subseteq {"zero", "one"}
    OBVIOUS
  <2> HIDE DEF claims
  <2>2. ASSUME NEW bits \in SUBSET claims PROVE QueueFits(AutoQueue(bits, weigh, ring), weigh, ring)
    BY <2>1
  <2> QED
    BY <2>2 DEF claims
<1> DEFINE types == scc_queue_types(weigh, ring)
           all == Before(N, 0)
<1>1. /\ N \in Nat /\ fst \in FstType /\ fst.start \in State /\ fst.start # None
      /\ nscc \in Nat /\ scc \in [State -> 0 .. nscc - 1] /\ ComponentsAreRight
  <2>1. N \in Nat /\ fst \in FstType /\ fst.start # None
    BY DEF FstsAssumption, Searched
  <2>2. fst.start \in State /\ Closed = State
    BY EverythingIsClosed
  <2>3. /\ scc \in [State -> State \cup {None}] /\ nscc \in Nat
        /\ \A s \in State : scc[s] \in 0 .. nscc - 1
    BY <2>2 DEF SccInv, ClosedAreNumbered
  <2>4. scc \in [State -> 0 .. nscc - 1]
    BY <2>3
  <2> QED
    BY <2>1, <2>2, <2>3, <2>4, FoundComponentsAreRight
<1>2. DisciplinesFit(types, all, weigh, ring)
  BY <1>1, StatesAreLookedAt
<1>3. \A s \in State : OnCycle(s) <=> \E t \in State : Arc(s, t) /\ scc[t] = scc[s]
  BY <1>1, CyclesAreInside
<1>4. \A c : /\ \A w : w \in Inside(c, weigh) <=> \E a \in all : StaysIn(c, a) /\ w = weigh[a[1]][a[2]]
             /\ (\A a \in all : ~StaysIn(c, a)) <=> \A s, t \in State : Arc(s, t) /\ scc[s] = c => scc[t] # c
  BY <1>1, InsideIsByArcs
<1> HIDE DEF types, all
<1>5. types \in [0 .. nscc - 1 -> Disciplines] /\ DOMAIN types = 0 .. nscc - 1
  BY <1>2 DEF DisciplinesFit
<1>6. ASSUME \A s \in State : ~OnCycle(s), NEW s \in State, NEW t \in State, Arc(s, t) PROVE scc[s] < scc[t]
  <2>1. scc[s] # scc[t] /\ scc[s] <= scc[t] /\ scc[s] \in 0 .. nscc - 1 /\ scc[t] \in 0 .. nscc - 1
    BY <1>1, <1>3, <1>6 DEF ComponentsAreRight
  <2> QED
    BY <1>1, <2>1
<1>7. \A c \in 0 .. nscc - 1 : types[c] = "trivial" <=> \A s, t \in State : Arc(s, t) /\ scc[s] = c => scc[t] # c
  BY <1>2, <1>4 DEF DisciplinesFit
<1>8. (\A c \in DOMAIN types : types[c] = "trivial") <=> \A s \in State : ~OnCycle(s)
  <2>1. \A s \in State : scc[s] \in 0 .. nscc - 1
    BY <1>1
  <2> QED
    BY <1>3, <1>5, <1>7, <2>1
<1>9. ASSUME NEW c \in 0 .. nscc - 1
      PROVE  InnerFits(types[c], c, weigh, ring)
  <2>1. /\ types[c] = "trivial" <=> \A a \in all : ~StaysIn(c, a)
        /\ types[c] = "shortest first" => /\ Ordered(ring)
                                          /\ \A a \in all : StaysIn(c, a) => weigh[a[1]][a[2]] # "lighter"
        /\ types[c] = "lifo" => \A a \in all : StaysIn(c, a) => weigh[a[1]][a[2]] \in {"zero", "one"}
    BY <1>2 DEF DisciplinesFit
  <2>2. types[c] \in Disciplines
    BY <1>5
  <2>3. \A w : w \in Inside(c, weigh) <=> \E a \in all : StaysIn(c, a) /\ w = weigh[a[1]][a[2]]
    BY <1>4
  <2>4. CASE types[c] = "trivial"
    <3>1. Inside(c, weigh) = {}
      BY <2>1, <2>3, <2>4
    <3>2. PICK s \in State : scc[s] = c
      BY DEF NumbersAreUsed
    <3>3. scc \in [State -> Nat]
      BY <1>1
    <3>4. \A u \in State : Arc(s, u) => scc[u] # scc[s]
      BY <1>7, <2>4, <3>2
    <3>5. \A t \in State : scc[t] = c => t = s
      BY <1>1, <3>2, <3>3, <3>4, TrivialIsOne
    <3>6. {t \in State : scc[t] = c} = {s}
      BY <3>2, <3>5
    <3>7. Cardinality({s}) = 1
      BY FS_Singleton
    <3> QED
      BY <2>4, <3>1, <3>6, <3>7 DEF InnerFits
  <2>5. CASE types[c] = "shortest first"
    <3>1. Ordered(ring) /\ "lighter" \notin Inside(c, weigh)
      BY <2>1, <2>3, <2>5
    <3> QED
      BY <2>5, <3>1 DEF InnerFits
  <2>6. CASE types[c] = "lifo"
    <3>1. Inside(c, weigh) \subseteq {"zero", "one"}
      BY <2>1, <2>3, <2>6
    <3> QED
      BY <2>6, <3>1 DEF InnerFits
  <2>7. CASE types[c] = "fifo"
    <3>1. Inside(c, weigh) # {}
      BY <2>1, <2>3, <2>7
    <3> QED
      BY <2>7, <3>1 DEF InnerFits
  <2> QED
    BY <2>2, <2>4, <2>5, <2>6, <2>7 DEF Disciplines
<1>10. CASE "TOP_SORTED" \in bits
  <2>1. AutoQueue(bits, weigh, ring) = [chosen |-> "state order"]
    BY <1>10 DEF AutoQueue
  <2>2. AutoQueue(bits, weigh, ring).chosen = "state order"
    <3>1. [chosen |-> "state order"].chosen = "state order"
      OBVIOUS
    <3> QED
      BY <2>1, <3>1
  <2>3. \A s, t \in State : Arc(s, t) => s < t
    BY <1>10
  <2> QED
    BY <2>2, <2>3 DEF QueueFits
<1>11. CASE "TOP_SORTED" \notin bits /\ "ACYCLIC" \in bits
  <2>1. AutoQueue(bits, weigh, ring) = [chosen |-> "top order"]
    BY <1>1, <1>11 DEF AutoQueue
  <2>2. AutoQueue(bits, weigh, ring).chosen = "top order"
    <3>1. [chosen |-> "top order"].chosen = "top order"
      OBVIOUS
    <3> QED
      BY <2>1, <3>1
  <2>3. \A s \in State : ~OnCycle(s)
    BY <1>11
  <2> QED
    BY <1>6, <2>2, <2>3 DEF QueueFits
<1> DEFINE plain == ring.idempotent /\ ("UNWEIGHTED" \in bits \/ \A w \in AllWeights(weigh) : Plain(w, ring))
<1>12. CASE "TOP_SORTED" \notin bits /\ "ACYCLIC" \notin bits /\ plain
  <2>1. AutoQueue(bits, weigh, ring) = [chosen |-> "lifo"]
    BY <1>1, <1>12 DEF AutoQueue
  <2>2. ring.idempotent /\ AllWeights(weigh) \subseteq {"zero", "one"}
    BY <1>12 DEF Plain
  <2> QED
    BY <2>1, <2>2 DEF QueueFits
<1>13. CASE "TOP_SORTED" \notin bits /\ "ACYCLIC" \notin bits /\ ~plain /\ \A c \in DOMAIN types : types[c] = "trivial"
  <2>1. AutoQueue(bits, weigh, ring) = [chosen |-> "top order", order |-> scc]
    BY <1>1, <1>13 DEF AutoQueue, types
  <2>2. [chosen |-> "top order", order |-> scc].chosen = "top order"
    OBVIOUS
  <2>3. AutoQueue(bits, weigh, ring).chosen = "top order"
    BY <2>1, <2>2
  <2> QED
    BY <1>6, <1>8, <1>13, <2>3 DEF QueueFits
<1>14. CASE "TOP_SORTED" \notin bits /\ "ACYCLIC" \notin bits /\ ~plain /\ ~(\A c \in DOMAIN types : types[c] = "trivial")
  <2>1. AutoQueue(bits, weigh, ring) = [chosen |-> "scc", inner |-> types]
    BY <1>1, <1>14 DEF AutoQueue, types
  <2>2. AutoQueue(bits, weigh, ring).chosen = "scc" /\ AutoQueue(bits, weigh, ring).inner = types
    BY <2>1
  <2>3. \E s \in State : OnCycle(s)
    BY <1>8, <1>14
  <2> QED
    BY <1>5, <1>9, <2>2, <2>3 DEF QueueFits
<1> QED
  BY <1>10, <1>11, <1>12, <1>13, <1>14

-----------------------------------------------------------------------------
(***************************************************************************)
(* The theorems                                                            *)
(***************************************************************************)

\* Only a search for an order is stopped.
Stops == visitor \in {"Scc", "Cc"} => dfs = TRUE

\* Whatever a search is for, it begins and goes on as it should.
LEMMA SearchesAreInductive ==
  ASSUME FstsAssumption
  PROVE  Spec => [](DepthFirst => SearchInv /\ Stops)
<1> DEFINE I == DepthFirst => SearchInv /\ Stops
<1>1. ASSUME Init PROVE I
  <2> SUFFICES ASSUME DepthFirst PROVE SearchInv /\ Stops
    OBVIOUS
  <2>1. SearchInit
    BY <1>1 DEF Init, DepthFirst, SccInit, TopInit, CcInit
  <2> QED
    BY <2>1, SearchStarts DEF SearchInit, Stops
<1>2. ASSUME I, [Next]_searching PROVE I'
  <2> SUFFICES ASSUME DepthFirst' PROVE SearchInv' /\ Stops'
    OBVIOUS
  <2>1. visitor' = visitor
    BY <1>2 DEF Next, searching
  <2>2. DepthFirst
    BY <2>1 DEF DepthFirst
  <2>3. SearchInv'
    BY <1>2, <2>2, NextTurns, TurningKeeps
  <2>4. Stops'
    BY <1>2, <2>1, <2>2 DEF Next, searching, search, Stops, SccNext, CcNext, OpenTree, TreeArc, BackArc,
                            ForwardOrCrossArc, FinishState, CloseTree
  <2> QED
    BY <2>3, <2>4
<1> QED
  BY <1>1, <1>2, PTL DEF Spec

\* algorithms/dfs_visit.rs: in every reachable state of a search the grey states
\* are the stack's, each entered from the one below by an arc: what makes an arc
\* to a grey state a back arc.
THEOREM StackIsAlwaysAPath ==
  ASSUME FstsAssumption
  PROVE  Spec => [](DepthFirst => StackIsAPath /\ FramesDiffer)
<1>1. (DepthFirst => SearchInv /\ Stops) => (DepthFirst => StackIsAPath /\ FramesDiffer)
  BY DEF SearchInv
<1> QED
  BY <1>1, SearchesAreInductive, PTL

\* algorithms/dfs_visit.rs: a search that is over, and was not stopped by its
\* visitor, has finished every state of the automaton, those the start state does
\* not lead to and those whose number was not known included.
THEOREM SearchReachesAll ==
  ASSUME FstsAssumption
  PROVE  Spec => [](visitor \in {"Scc", "Cc"} /\ Searched => \A s \in State : color[s] = "Black")
<1>1. ASSUME DepthFirst => SearchInv /\ Stops, visitor \in {"Scc", "Cc"}, Searched, NEW s \in State
      PROVE  color[s] = "Black"
  BY <1>1, AllAreFinished DEF DepthFirst, Stops, Searched
<1>2. (DepthFirst => SearchInv /\ Stops)
        => (visitor \in {"Scc", "Cc"} /\ Searched => \A s \in State : color[s] = "Black")
  BY <1>1
<1> QED
  BY <1>2, SearchesAreInductive, PTL

\* TopOrderVisitor and top_sort: whatever the automaton, the search finds a cycle
\* exactly when there is one, and without one every state has a position of its
\* own and every arc leads to a later one; and at all times what has finished is
\* what the order lists, each once.
THEOREM OrderIsAlwaysTopological ==
  ASSUME FstsAssumption
  PROVE  Spec => [](visitor = "Top" => OrderIsTopological /\ MetStatesFinish)
<1> DEFINE I == visitor = "Top" => TopInv
<1>1. ASSUME Init PROVE I
  BY <1>1, TopStarts DEF Init
<1>2. ASSUME I, [Next]_searching PROVE I'
  <2> SUFFICES ASSUME visitor' = "Top" PROVE TopInv'
    OBVIOUS
  <2>1. visitor = "Top"
    BY <1>2 DEF Next, searching
  <2>2. TopNext \/ UNCHANGED <<search, tops>>
    BY <1>2, <2>1 DEF Next, searching
  <2> QED
    BY <1>2, <2>1, <2>2, TopInductive
<1>3. I => (visitor = "Top" => OrderIsTopological /\ MetStatesFinish)
  BY OrdersAreTopological
<1> QED
  BY <1>1, <1>2, <1>3, PTL DEF Spec

\* The search for components keeps its invariant, whatever the automaton.
LEMMA ComponentSearchesAreInductive ==
  ASSUME FstsAssumption
  PROVE  Spec => [](visitor = "Scc" => SccInv)
<1> DEFINE I == visitor = "Scc" => SccInv
<1>1. ASSUME Init PROVE I
  BY <1>1, SccStarts DEF Init
<1>2. ASSUME I, [Next]_searching PROVE I'
  <2> SUFFICES ASSUME visitor' = "Scc" PROVE SccInv'
    OBVIOUS
  <2>1. visitor = "Scc"
    BY <1>2 DEF Next, searching
  <2>2. SccNext \/ UNCHANGED <<search, sccs>>
    BY <1>2, <2>1 DEF Next, searching
  <2> QED
    BY <1>2, <2>1, <2>2, SccInductive
<1> QED
  BY <1>1, <1>2, PTL DEF Spec

\* SccVisitor, at any time: a component that is closed leads to nothing that is
\* open, every open state leads back to a grey one met no later, and the stack
\* holds the open states by the order they were met in: what lets a state that
\* reaches nothing older pop its component off the stack.
THEOREM OpenStatesAlwaysReachTheStack ==
  ASSUME FstsAssumption
  PROVE  Spec => [](visitor = "Scc" => SccTypeOK /\ OpenStatesReachTheStack /\ SccStackIsOrdered)
<1>1. (visitor = "Scc" => SccInv) => (visitor = "Scc" => SccTypeOK /\ OpenStatesReachTheStack /\ SccStackIsOrdered)
  BY SccSearchIsRight
<1> QED
  BY <1>1, ComponentSearchesAreInductive, PTL

\* SccVisitor, when the search is over: two states have one number exactly when
\* each leads to the other, and no arc leads to a lower one.
THEOREM ComponentsAreAlwaysRight ==
  ASSUME FstsAssumption
  PROVE  Spec => [](visitor = "Scc" => ComponentsAreRight)
<1>1. (visitor = "Scc" => SccInv) => (visitor = "Scc" => ComponentsAreRight)
  BY FoundComponentsAreRight
<1> QED
  BY <1>1, ComponentSearchesAreInductive, PTL

\* connect: the states it keeps are those on a path from the start to a final
\* state, from what one search noted of both ends.
THEOREM ConnectAlwaysKeepsSuccessfulPaths ==
  ASSUME FstsAssumption
  PROVE  Spec => [](visitor = "Scc" => ConnectKeepsSuccessfulPaths)
<1>1. (visitor = "Scc" => SccInv) => (visitor = "Scc" => ConnectKeepsSuccessfulPaths)
  BY KeptStatesAreRight
<1> QED
  BY <1>1, ComponentSearchesAreInductive, PTL

\* SccVisitor's property bits: each is true of the automaton, and of each
\* question one answer is claimed.
THEOREM SccPropsAreAlwaysTrue ==
  ASSUME FstsAssumption
  PROVE  Spec => [](visitor = "Scc" => SccPropsAreTrue)
<1>1. (visitor = "Scc" => SccInv) => (visitor = "Scc" => SccPropsAreTrue)
  BY FoundPropsAreTrue
<1> QED
  BY <1>1, ComponentSearchesAreInductive, PTL

\* The queue AutoQueue chooses by the components found, for every automaton, weights
\* and semiring: lightest first only where no arc inside the component can make a path
\* lighter, last in first out only where none counts, and no queue at all only for one
\* state without an arc to itself.
THEOREM ChosenQueueAlwaysFits ==
  ASSUME FstsAssumption
  PROVE  Spec => [](visitor = "Scc" => ChosenQueueFits)
<1> DEFINE I == visitor = "Scc" => NumbersAreUsed
<1>1. ASSUME Init PROVE I
  BY <1>1, NumbersStart DEF Init
<1>2. ASSUME visitor = "Scc" => SccInv, I, [Next]_searching PROVE I'
  <2> SUFFICES ASSUME visitor' = "Scc" PROVE NumbersAreUsed'
    OBVIOUS
  <2>1. visitor = "Scc"
    BY <1>2 DEF Next, searching
  <2>2. SccNext \/ UNCHANGED <<search, sccs>>
    BY <1>2, <2>1 DEF Next, searching
  <2> QED
    BY <1>2, <2>1, <2>2, NumbersStayUsed
<1>3. (visitor = "Scc" => SccInv) /\ I => (visitor = "Scc" => ChosenQueueFits)
  BY ChosenFits
<1> QED
  BY <1>1, <1>2, <1>3, ComponentSearchesAreInductive, PTL DEF Spec

\* Nothing is in a set before the search.
LEMMA CcStarts ==
  ASSUME FstsAssumption, CcInit
  PROVE  CcInv
<1>1. SearchInv /\ comps = [parent |-> <<>>, rank |-> <<>>]
  BY SearchStarts DEF CcInit, NoSets
<1>2. InSets(<<>>) = {}
  BY DEF InSets, Elements
<1>3. IsForest(<<>>) /\ IsJoined(<<>>)
  BY <1>2 DEF IsForest, IsJoined
<1> QED
  BY <1>1, <1>3 DEF CcInv, SetsAreRight

\* data_structures/union_find.rs, as CcVisitor uses it: whatever the automaton,
\* no union joins states that no arcs connect, the way from a state to its root
\* ends at one, and every parent is an index of a state that is in a set, which
\* is what the unchecked accesses of find_set and link rely on.
THEOREM UnionsAreAlwaysJustified ==
  ASSUME FstsAssumption
  PROVE  Spec => []UnionsAreJustified
<1> DEFINE I == visitor = "Cc" => CcInv
<1>1. ASSUME Init PROVE I
  BY <1>1, CcStarts DEF Init
<1>2. ASSUME I, DepthFirst => SearchInv /\ Stops, (DepthFirst => SearchInv /\ Stops)', [Next]_searching PROVE I'
  <2> SUFFICES ASSUME visitor' = "Cc" PROVE CcInv'
    OBVIOUS
  <2>1. visitor = "Cc"
    BY <1>2 DEF Next, searching
  <2>2. SearchInv /\ SearchInv'
    BY <1>2, <2>1 DEF DepthFirst
  <2>3. CcNext \/ UNCHANGED <<search, comps>>
    BY <1>2, <2>1 DEF Next, searching
  <2>4. fst' = fst
    BY <2>3 DEF CcNext, search, OpenTree, TreeArc, BackArc, ForwardOrCrossArc, FinishState, CloseTree, Taking
  <2> QED
    BY <1>2, <2>1, <2>2, <2>3, <2>4, CcInductive
<1>3. I => UnionsAreJustified
  BY SetsAreJustified DEF UnionsAreJustified
<1>4. Spec => [](DepthFirst => SearchInv /\ Stops)
  BY SearchesAreInductive
<1> QED
  BY <1>1, <1>2, <1>3, <1>4, PTL DEF Spec

\* A visit keeps its invariant, whatever the automaton, the queue and the filter.
LEMMA VisitsAreInductive ==
  ASSUME FstsAssumption, WaysAssumption
  PROVE  Spec => [](visitor = "Visit" => VisitInv)
<1> DEFINE I == visitor = "Visit" => VisitInv
<1>1. ASSUME Init PROVE I
  BY <1>1, VisitStarts DEF Init
<1>2. ASSUME I, [Next]_searching PROVE I'
  <2> SUFFICES ASSUME visitor' = "Visit" PROVE VisitInv'
    OBVIOUS
  <2>1. visitor = "Visit"
    BY <1>2 DEF Next, searching
  <2>2. VisitNext \/ UNCHANGED <<search, finish, visits>>
    BY <1>2, <2>1 DEF Next, searching, tops
  <2> QED
    BY <1>2, <2>1, <2>2, VisitInductive
<1> QED
  BY <1>1, <1>2, PTL DEF Spec

\* algorithms/visit.rs, whatever the automaton, the queue, the filter of arcs and
\* the limit: what waits is what is grey, each once, and a stack goes down along
\* arcs; when the visit is over, each state met was met and finished once, and one
\* that was stopped met one state too many; one that was not met all there is to
\* meet, a FifoQueue level by level, a LifoQueue finishing a state after all it
\* leads to that does not lead back.
THEOREM VisitsAreAlwaysInOrder ==
  ASSUME FstsAssumption, WaysAssumption
  PROVE  Spec => [](visitor = "Visit" => QueueHoldsTheGrey /\ VisitsInOrder)
<1>1. (visitor = "Visit" => VisitInv) => (visitor = "Visit" => QueueHoldsTheGrey /\ VisitsInOrder)
  BY VisitsMeetInOrder
<1> QED
  BY <1>1, VisitsAreInductive, PTL

\* CopyVisitor and PartialCopyVisitor: the copy has each state that was met, the
\* final ones final, and leads nowhere else; it has the arcs that were kept, in
\* their order, or, where only arcs to new states are copied, is a forest that
\* leads to each state met but the first.
THEOREM CopiesAlwaysHoldWhatIsMet ==
  ASSUME FstsAssumption, WaysAssumption
  PROVE  Spec => [](visitor = "Visit" => CopiesWhatItMeets)
<1>1. (visitor = "Visit" => VisitInv) => (visitor = "Visit" => CopiesWhatItMeets)
  BY VisitsCopyWhatTheyMeet
<1> QED
  BY <1>1, VisitsAreInductive, PTL
=============================================================================
