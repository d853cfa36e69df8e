---------------------------- MODULE GcCacheProofs ----------------------------
(***************************************************************************)
(* Proofs about the evicting cache: in every reachable state, for every    *)
(* automaton, limit and nesting of expansions, the parts of the store      *)
(* agree, expansions own their nodes, evictions do not show, and the limit *)
(* gives way only when nothing may be evicted.                             *)
(***************************************************************************)
EXTENDS GcCache, FiniteSetTheorems, WellFoundedInduction, TLAPS

-----------------------------------------------------------------------------
(***************************************************************************)
(* Natural numbers                                                         *)
(***************************************************************************)

\* A nonempty set of naturals has a least element.
LEMMA LeastNatural ==
  ASSUME NEW S \in SUBSET Nat, S # {}
  PROVE  \E n \in S : \A m \in S : n <= m
<1>1. PICK n \in S : \A m \in S : ~ (<<m, n>> \in OpToRel(<, Nat))
  BY WFMin, NatLessThanWellFounded
<1>2. \A m \in S : <<m, n>> \in OpToRel(<, Nat) <=> m < n
  BY DEF OpToRel
<1>3. ASSUME NEW m \in S PROVE n <= m
  <2>1. m \in Nat /\ n \in Nat /\ ~ (m < n)
    BY <1>1, <1>2
  <2> QED
    BY <2>1
<1> QED
  BY <1>3

\* Induction, over a set instead of a predicate.
LEMMA SetInduction ==
  ASSUME NEW S, 0 \in S, \A n \in Nat : n \in S => n + 1 \in S
  PROVE  Nat \subseteq S
<1> SUFFICES ASSUME Nat \ S # {} PROVE FALSE
  OBVIOUS
<1>1. PICK n \in Nat \ S : \A m \in Nat \ S : n <= m
  BY LeastNatural
<1>2. n # 0 /\ n - 1 \in Nat /\ n - 1 \in S
  BY <1>1
<1> QED
  BY <1>2

\* The greatest element of a bounded set.
LEMMA MaxOfBounded ==
  ASSUME NEW S \in SUBSET Nat, S # {}, NEW b \in Nat, \A x \in S : x <= b
  PROVE  Max(S) \in S /\ \A x \in S : x <= Max(S)
<1> DEFINE Bounds == {n \in Nat : \A x \in S : x <= n}
<1>1. PICK m \in Bounds : \A n \in Bounds : m <= n
  BY LeastNatural
<1>2. m \in S
  <2> SUFFICES ASSUME m \notin S PROVE FALSE
    OBVIOUS
  <2>1. PICK x \in S : TRUE
    OBVIOUS
  <2>2. m > 0 /\ m - 1 \in Nat
    BY <2>1
  <2>3. m - 1 \in Bounds
    BY <2>2
  <2> QED
    BY <2>2, <2>3, <1>1
<1>3. m \in S /\ \A y \in S : m >= y
  BY <1>2
<1> QED
  BY <1>3 DEF Max

-----------------------------------------------------------------------------
(***************************************************************************)
(* Recursive functions                                                     *)
(***************************************************************************)

\* The sum over the slots adds up slot by slot.
LEMMA TotalSteps ==
  ASSUME NumStates \in Nat \ {0}, NEW w \in [Slot -> Nat]
  PROVE  \E u \in [0 .. NumStates -> Nat] :
           /\ Total(w) = u[NumStates]
           /\ u[0] = 0
           /\ \A k \in 1 .. NumStates : u[k] = u[k - 1] + w[k - 1]
<1> DEFINE Sums(n, u) == u = [k \in 0 .. n |-> IF k = 0 THEN 0 ELSE u[k - 1] + w[k - 1]]
           S == {n \in Nat : \E u : Sums(n, u)}
<1>1. 0 \in S
  <2>1. Sums(0, [k \in 0 .. 0 |-> 0])
    OBVIOUS
  <2> QED
    BY <2>1
<1>2. ASSUME NEW n \in Nat, n \in S PROVE n + 1 \in S
  <2>1. PICK u : Sums(n, u)
    BY <1>2
  <2> DEFINE v == [k \in 0 .. n + 1 |-> IF k <= n THEN u[k] ELSE u[n] + w[n]]
  <2>2. Sums(n + 1, v)
    <3>1. ASSUME NEW k \in 0 .. n + 1
          PROVE v[k] = IF k = 0 THEN 0 ELSE v[k - 1] + w[k - 1]
      BY <2>1
    <3> QED
      BY <3>1
  <2> HIDE DEF v
  <2> QED
    BY <2>2
<1>3. PICK u : Sums(NumStates, u)
  BY <1>1, <1>2, SetInduction
<1> DEFINE t == CHOOSE upto : Sums(NumStates, upto)
<1>4. Total(w) = t[NumStates]
  BY DEF Total
<1>5. Sums(NumStates, t)
  BY <1>3
<1> HIDE DEF t
<1>6. t[0] = 0 /\ \A k \in 1 .. NumStates : t[k] = t[k - 1] + w[k - 1]
  BY <1>5
<1>7. t \in [0 .. NumStates -> Nat]
  <2> DEFINE T == {n \in Nat : n <= NumStates => t[n] \in Nat}
  <2>1. 0 \in T
    BY <1>6
  <2>2. ASSUME NEW n \in Nat, n \in T PROVE n + 1 \in T
    <3> SUFFICES ASSUME n + 1 <= NumStates PROVE t[n + 1] \in Nat
      OBVIOUS
    <3>1. n + 1 \in 1 .. NumStates /\ t[n] \in Nat /\ w[n] \in Nat
      BY <2>2 DEF Slot
    <3> QED
      BY <3>1, <1>6
  <2>3. \A n \in 0 .. NumStates : t[n] \in Nat
    <3> HIDE DEF T
    <3>1. Nat \subseteq T
      BY <2>1, <2>2, SetInduction
    <3> QED
      BY <3>1 DEF T
  <2> QED
    BY <2>3, <1>5
<1> QED
  BY <1>4, <1>6, <1>7

-----------------------------------------------------------------------------
(***************************************************************************)
(* The invariant                                                           *)
(***************************************************************************)

Kind == {"final", "arcs"}
Link == Slot \cup {None}
Frame == [state : Id, idx : Slot, kind : Kind]

\* A node: what is cached is the expander's answer, and arcs are not being
\* expanded when they are there.
Nodes ==
  {n \in [id : Id, flags : SUBSET Flag, final : BOOLEAN, arcs : Seq(Id) \cup {NoArcs},
          next : Link, prev : Link] :
     /\ "FINAL" \in n.flags => n.final = IsFinal[n.id]
     /\ n.arcs = IF "ARCS" \in n.flags THEN Targets[n.id] ELSE NoArcs
     /\ ~ ("ARCS" \in n.flags /\ "EXPANDING_ARCS" \in n.flags)}

Maps == [dense : Seq(Link), sparse : UNION {[D -> Link] : D \in SUBSET Id}]

Stores ==
  [pool : UNION {[D -> Nodes] : D \in SUBSET Slot}, map : Maps, size : Nat, limit : Nat,
   head : Link, tail : Link, hand : Link]

\* The nodes are doubly linked, between the head and the tail.
Linked(st) ==
  LET P == DOMAIN st.pool
  IN  /\ \A i, j \in P : st.pool[i].next = j <=> st.pool[j].prev = i
      /\ \A i \in P : /\ st.pool[i].prev = None <=> i = st.head
                      /\ st.pool[i].next = None <=> i = st.tail
                      /\ {st.pool[i].next, st.pool[i].prev} \subseteq P \cup {None}
      /\ {st.head, st.tail} \subseteq P \cup {None}
      /\ st.head = None <=> P = {}
      /\ st.tail = None <=> P = {}
      /\ P # {} => st.hand \in P

\* The list has no cycles: its nodes have ranks that grow along it, one node after
\* the other.
Rank(st) ==
  {rank \in [DOMAIN st.pool -> Nat] :
     /\ \A i \in DOMAIN st.pool :
          st.pool[i].next # None => rank[i] < rank[st.pool[i].next]
     /\ \A i, j \in DOMAIN st.pool :
          /\ rank[i] = rank[j] => i = j
          /\ rank[i] < rank[j] =>
               st.pool[i].next # None /\ rank[st.pool[i].next] <= rank[j]}

\* The map leads to each node by its id, and nowhere else.
Mapped(st) ==
  /\ \A s \in Id : MapGet(st.map, s) # None =>
       MapGet(st.map, s) \in DOMAIN st.pool /\ st.pool[MapGet(st.map, s)].id = s
  /\ \A i \in DOMAIN st.pool : MapGet(st.map, st.pool[i].id) = i

Weight(st, i) == IF i \in DOMAIN st.pool THEN Estimate(st.pool[i]) ELSE 0
Weights(st) == [i \in Slot |-> Weight(st, i)]

Sound ==
  {st \in Stores : Linked(st) /\ Rank(st) # {} /\ Mapped(st) /\ st.size = Total(Weights(st))}

\* Expansions and flags belong to each other.
Owned(st, frames) ==
  /\ frames \in Seq(Frame)
  /\ \A k \in DOMAIN frames :
       /\ frames[k].idx \in DOMAIN st.pool
       /\ st.pool[frames[k].idx].id = frames[k].state
       /\ GuardFlag(frames[k].kind) \in st.pool[frames[k].idx].flags
       /\ \A j \in DOMAIN frames \ {k} :
            frames[j].idx # frames[k].idx \/ frames[j].kind # frames[k].kind
  /\ \A i \in DOMAIN st.pool : \A kind \in Kind :
       GuardFlag(kind) \in st.pool[i].flags =>
         \E k \in DOMAIN frames : frames[k].idx = i /\ frames[k].kind = kind

\* What readers hold is cached.
Shared(st, guards) ==
  /\ guards \in [Id -> Nat]
  /\ \A s \in Id : guards[s] > 0 =>
       /\ MapGet(st.map, s) # None
       /\ "ARCS" \in st.pool[MapGet(st.map, s)].flags

\* The count of known states covers every state a cached arc leads to.
Covered(st, n) ==
  \A i \in DOMAIN st.pool : st.pool[i].arcs # NoArcs =>
    \A k \in DOMAIN st.pool[i].arcs : st.pool[i].arcs[k] < n

Bounds ==
  /\ cache_start \in Id \cup {None}
  /\ known \in Nat
  /\ cache_start < known
  /\ expanded \in [set : SUBSET Id, min : Nat, max : Id \cup {None}]
  /\ \A s \in 0 .. expanded.min - 1 : s \in expanded.set

CacheInv ==
  /\ store \in Sound
  /\ Owned(store, stack)
  /\ Shared(store, pins)
  /\ Covered(store, known)
  /\ Bounds
  /\ Bounded

-----------------------------------------------------------------------------
(***************************************************************************)
(* Sums                                                                    *)
(***************************************************************************)

\* Changing the number of one slot changes the sum by as much, and the sum is
\* no less than the number of any slot.
LEMMA TotalChange ==
  ASSUME NumStates \in Nat \ {0}, NEW w \in [Slot -> Nat], NEW v \in [Slot -> Nat],
         NEW j \in Slot, \A i \in Slot \ {j} : v[i] = w[i]
  PROVE  /\ Total(w) \in Nat
         /\ Total(v) = Total(w) - w[j] + v[j]
         /\ w[j] <= Total(w)
<1>1. PICK u \in [0 .. NumStates -> Nat] :
        /\ Total(w) = u[NumStates]
        /\ u[0] = 0
        /\ \A k \in 1 .. NumStates : u[k] = u[k - 1] + w[k - 1]
  BY TotalSteps
<1>2. PICK t \in [0 .. NumStates -> Nat] :
        /\ Total(v) = t[NumStates]
        /\ t[0] = 0
        /\ \A k \in 1 .. NumStates : t[k] = t[k - 1] + v[k - 1]
  BY TotalSteps
<1> DEFINE S == {n \in Nat : n <= NumStates =>
                   IF n <= j THEN t[n] = u[n]
                   ELSE t[n] = u[n] - w[j] + v[j] /\ w[j] <= u[n]}
<1>3. 0 \in S
  BY <1>1, <1>2 DEF Slot
<1>4. ASSUME NEW n \in Nat, n \in S PROVE n + 1 \in S
  <2> SUFFICES ASSUME n + 1 <= NumStates
               PROVE  IF n + 1 <= j THEN t[n + 1] = u[n + 1]
                      ELSE t[n + 1] = u[n + 1] - w[j] + v[j] /\ w[j] <= u[n + 1]
    OBVIOUS
  <2>1. u[n + 1] = u[n] + w[n] /\ t[n + 1] = t[n] + v[n]
    <3>1. n + 1 \in 1 .. NumStates /\ (n + 1) - 1 = n
      OBVIOUS
    <3> QED
      BY <3>1, <1>1, <1>2
  <2>2. n \in Slot /\ w[n] \in Nat /\ v[n] \in Nat /\ u[n] \in Nat /\ t[n] \in Nat
        /\ w[j] \in Nat /\ v[j] \in Nat /\ j \in Nat
    BY DEF Slot
  <2>3. IF n <= j THEN t[n] = u[n] ELSE t[n] = u[n] - w[j] + v[j] /\ w[j] <= u[n]
    BY <1>4
  <2>4. n # j => v[n] = w[n]
    BY <2>2
  <2> HIDE DEF S
  <2>5. CASE n < j
    BY <2>1, <2>2, <2>3, <2>4, <2>5
  <2>6. CASE n = j
    <3>1. t[n] = u[n] /\ u[n + 1] = u[n] + w[j] /\ t[n + 1] = u[n] + v[j]
      BY <2>1, <2>2, <2>3, <2>6
    <3> QED
      BY <3>1, <2>2, <2>6
  <2>7. CASE n > j
    <3>1. t[n] = u[n] - w[j] + v[j] /\ w[j] <= u[n] /\ v[n] = w[n]
      BY <2>2, <2>3, <2>4, <2>7
    <3>2. u[n + 1] = u[n] + v[n] /\ t[n + 1] = t[n] + v[n]
      BY <3>1, <2>1
    <3>3. t[n + 1] = u[n + 1] - w[j] + v[j]
      BY <3>1, <3>2, <2>2
    <3>4. w[j] <= u[n + 1]
      BY <3>1, <3>2, <2>2
    <3>5. ~ (n + 1 <= j)
      BY <2>2, <2>7
    <3> QED
      BY <3>3, <3>4, <3>5
  <2> QED
    BY <2>2, <2>5, <2>6, <2>7
<1>5. NumStates \in S
  <2> HIDE DEF S
  <2> QED
    BY <1>3, <1>4, SetInduction
<1>6. ~ (NumStates <= j)
  BY DEF Slot
<1> QED
  BY <1>1, <1>2, <1>5, <1>6

\* An empty pool has no bytes.
LEMMA TotalOfZeros ==
  ASSUME NumStates \in Nat \ {0}
  PROVE  Total([i \in Slot |-> 0]) = 0
<1> DEFINE w == [i \in Slot |-> 0]
<1>1. PICK u \in [0 .. NumStates -> Nat] :
        /\ Total(w) = u[NumStates]
        /\ u[0] = 0
        /\ \A k \in 1 .. NumStates : u[k] = u[k - 1] + w[k - 1]
  BY TotalSteps
<1> DEFINE S == {n \in Nat : n <= NumStates => u[n] = 0}
<1>2. ASSUME NEW n \in Nat, n \in S PROVE n + 1 \in S
  <2> SUFFICES ASSUME n + 1 <= NumStates PROVE u[n + 1] = 0
    OBVIOUS
  <2>1. n + 1 \in 1 .. NumStates /\ n \in Slot
    BY DEF Slot
  <2> QED
    BY <2>1, <1>1, <1>2
<1>3. 0 \in S
  BY <1>1
<1>4. NumStates \in S
  <2> HIDE DEF S
  <2> QED
    BY <1>2, <1>3, SetInduction
<1> QED
  BY <1>1, <1>4

-----------------------------------------------------------------------------
(***************************************************************************)
(* The map                                                                 *)
(***************************************************************************)

\* A lookup answers a slot or nothing.
LEMMA MapGetType ==
  ASSUME CacheAssumption, NEW map \in Maps, NEW id \in Id
  PROVE  MapGet(map, id) \in Link
<1>1. id \in Nat
  BY DEF CacheAssumption, Id
<1>2. map.dense \in Seq(Link) /\ \E D \in SUBSET Id : map.sparse \in [D -> Link]
  BY DEF Maps
<1> QED
  BY <1>1, <1>2 DEF MapGet, Link

\* An insertion changes what is found for its id only, although the vector grows
\* over ids it has never heard of.
LEMMA MapInsertion ==
  ASSUME CacheAssumption, NEW map \in Maps, NEW id \in Id, NEW idx \in Link
  PROVE  /\ MapInsert(map, id, idx) \in Maps
         /\ \A j \in Id : MapGet(MapInsert(map, id, idx), j) =
                            IF j = id THEN idx ELSE MapGet(map, j)
<1>1. id \in Nat /\ Id \subseteq Nat /\ DenseLimit \in Nat
  BY DEF CacheAssumption, Id
<1>2. map.dense \in Seq(Link) /\ Len(map.dense) \in Nat
  BY DEF Maps
<1>3. PICK D \in SUBSET Id : map.sparse \in [D -> Link]
  BY DEF Maps
<1>4. CASE id < DenseLimit
  <2> DEFINE n == IF id < Len(map.dense) THEN Len(map.dense) ELSE id + 1
             d == [i \in 1 .. n |->
                     IF i = id + 1 THEN idx
                     ELSE IF i <= Len(map.dense) THEN map.dense[i] ELSE None]
  <2>1. n \in Nat /\ id < n /\ Len(map.dense) <= n
    BY <1>1, <1>2
  <2>2. d \in Seq(Link) /\ Len(d) = n
    <3>1. d \in [1 .. n -> Link]
      BY <1>2 DEF Link
    <3> QED
      BY <3>1, <2>1
  <2>3. MapInsert(map, id, idx) = [map EXCEPT !.dense = d]
    BY <1>4 DEF MapInsert
  <2>4. /\ MapInsert(map, id, idx) \in Maps
        /\ MapInsert(map, id, idx).dense = d
        /\ MapInsert(map, id, idx).sparse = map.sparse
    BY <2>2, <2>3 DEF Maps
  <2>5. ASSUME NEW j \in Id, j < DenseLimit
        PROVE  (IF j < n THEN d[j + 1] ELSE None) =
               IF j = id THEN idx
               ELSE IF j < Len(map.dense) THEN map.dense[j + 1] ELSE None
    <3>1. j \in Nat
      BY <1>1
    <3>2. j < n => d[j + 1] = IF j + 1 = id + 1 THEN idx
                              ELSE IF j + 1 <= Len(map.dense) THEN map.dense[j + 1] ELSE None
      BY <3>1, <2>1
    <3> HIDE DEF n, d
    <3> QED
      BY <3>1, <3>2, <2>1, <1>1, <1>2
  <2> QED
    BY <2>2, <2>4, <2>5, <1>4 DEF MapGet
<1>5. CASE ~ (id < DenseLimit)
  <2> DEFINE s == [j \in DOMAIN map.sparse \cup {id} |-> IF j = id THEN idx ELSE map.sparse[j]]
  <2>1. MapInsert(map, id, idx) = [map EXCEPT !.sparse = s]
    BY <1>5 DEF MapInsert
  <2>2. s \in [D \cup {id} -> Link] /\ D \cup {id} \in SUBSET Id
    BY <1>3
  <2>3. /\ MapInsert(map, id, idx) \in Maps
        /\ MapInsert(map, id, idx).dense = map.dense
        /\ MapInsert(map, id, idx).sparse = s
    <3>1. s \in UNION {[E -> Link] : E \in SUBSET Id}
      BY <2>2
    <3> HIDE DEF s
    <3> QED
      BY <2>1, <3>1 DEF Maps
  <2> QED
    BY <2>3, <1>5 DEF MapGet
<1> QED
  BY <1>4, <1>5

\* A removal takes away what is found for its id, and nothing else.
LEMMA MapRemoval ==
  ASSUME CacheAssumption, NEW map \in Maps, NEW id \in Id
  PROVE  /\ MapRemove(map, id) \in Maps
         /\ \A j \in Id : MapGet(MapRemove(map, id), j) =
                            IF j = id THEN None ELSE MapGet(map, j)
<1>1. id \in Nat /\ Id \subseteq Nat /\ DenseLimit \in Nat
  BY DEF CacheAssumption, Id
<1>2. map.dense \in Seq(Link) /\ Len(map.dense) \in Nat /\ None \in Link
  BY DEF Maps, Link
<1>3. PICK D \in SUBSET Id : map.sparse \in [D -> Link]
  BY DEF Maps
<1>4. CASE id < DenseLimit /\ id < Len(map.dense)
  <2> DEFINE d == [map.dense EXCEPT ![id + 1] = None]
  <2>1. MapRemove(map, id) = [map EXCEPT !.dense = d]
    BY <1>4 DEF MapRemove
  <2>2. d \in Seq(Link) /\ Len(d) = Len(map.dense) /\ id + 1 \in 1 .. Len(map.dense)
    BY <1>1, <1>2, <1>4
  <2>3. \A i \in 1 .. Len(map.dense) : d[i] = IF i = id + 1 THEN None ELSE map.dense[i]
    BY <1>2, <2>2
  <2>4. /\ MapRemove(map, id) \in Maps
        /\ MapRemove(map, id).dense = d
        /\ MapRemove(map, id).sparse = map.sparse
    BY <2>1, <2>2 DEF Maps
  <2> HIDE DEF d
  <2>5. ASSUME NEW j \in Id
        PROVE  MapGet(MapRemove(map, id), j) = IF j = id THEN None ELSE MapGet(map, j)
    <3>1. j \in Nat /\ (j < Len(map.dense) => j + 1 \in 1 .. Len(map.dense))
          /\ (j + 1 = id + 1 <=> j = id)
      BY <1>1, <1>2
    <3> QED
      BY <3>1, <2>2, <2>3, <2>4, <1>4 DEF MapGet
  <2> QED
    BY <2>4, <2>5
<1>5. CASE id < DenseLimit /\ ~ (id < Len(map.dense))
  BY <1>5, <1>1, <1>2 DEF MapRemove, MapGet
<1>6. CASE ~ (id < DenseLimit)
  <2> DEFINE s == Restrict(map.sparse, DOMAIN map.sparse \ {id})
  <2>1. MapRemove(map, id) = [map EXCEPT !.sparse = s]
    BY <1>6 DEF MapRemove
  <2>2. s \in [D \ {id} -> Link] /\ D \ {id} \in SUBSET Id
        /\ \A j \in D \ {id} : s[j] = map.sparse[j]
    BY <1>3 DEF Restrict
  <2>3. /\ MapRemove(map, id) \in Maps
        /\ MapRemove(map, id).dense = map.dense
        /\ MapRemove(map, id).sparse = s
    BY <2>1, <2>2 DEF Maps
  <2> HIDE DEF s
  <2> QED
    BY <2>2, <2>3, <1>3, <1>6 DEF MapGet
<1> QED
  BY <1>4, <1>5, <1>6

-----------------------------------------------------------------------------
(***************************************************************************)
(* Stores: what the operations return                                      *)
(***************************************************************************)

\* The parts of a store.
LEMMA StoreParts ==
  ASSUME NEW st \in Stores
  PROVE  /\ DOMAIN st.pool \in SUBSET Slot
         /\ st.pool \in [DOMAIN st.pool -> Nodes]
         /\ \A i \in DOMAIN st.pool : st.pool[i] \in Nodes
         /\ st.map \in Maps /\ st.size \in Nat /\ st.limit \in Nat
         /\ st.head \in Link /\ st.tail \in Link /\ st.hand \in Link
<1>1. PICK D \in SUBSET Slot : st.pool \in [D -> Nodes]
  BY DEF Stores
<1> QED
  BY <1>1 DEF Stores

\* The parts of a node.
LEMMA NodeParts ==
  ASSUME NEW n \in Nodes
  PROVE  /\ n.id \in Id /\ n.flags \in SUBSET Flag /\ n.final \in BOOLEAN
         /\ n.arcs \in Seq(Id) \cup {NoArcs} /\ n.next \in Link /\ n.prev \in Link
         /\ "FINAL" \in n.flags => n.final = IsFinal[n.id]
         /\ n.arcs = IF "ARCS" \in n.flags THEN Targets[n.id] ELSE NoArcs
         /\ ~ ("ARCS" \in n.flags /\ "EXPANDING_ARCS" \in n.flags)
BY DEF Nodes

\* A store with other parts.
WithParts(st, p, s, m, h, t, n) ==
  [st EXCEPT !.pool = p, !.size = s, !.map = m, !.head = h, !.tail = t, !.hand = n]

LEMMA StoreWithParts ==
  ASSUME NEW st \in Stores, NEW D \in SUBSET Slot, NEW p \in [D -> Nodes], NEW s \in Nat,
         NEW m \in Maps, NEW h \in Link, NEW t \in Link, NEW n \in Link
  PROVE  /\ WithParts(st, p, s, m, h, t, n) \in Stores
         /\ WithParts(st, p, s, m, h, t, n).pool = p
         /\ WithParts(st, p, s, m, h, t, n).size = s
         /\ WithParts(st, p, s, m, h, t, n).map = m
         /\ WithParts(st, p, s, m, h, t, n).head = h
         /\ WithParts(st, p, s, m, h, t, n).tail = t
         /\ WithParts(st, p, s, m, h, t, n).hand = n
         /\ WithParts(st, p, s, m, h, t, n).limit = st.limit
<1>1. p \in UNION {[E -> Nodes] : E \in SUBSET Slot}
  OBVIOUS
<1> QED
  BY <1>1 DEF Stores, WithParts

\* A node with other links.
Relink(n, next, prev) == [n EXCEPT !.next = next, !.prev = prev]

LEMMA Relinked ==
  ASSUME NEW n \in Nodes, NEW next \in Link, NEW prev \in Link
  PROVE  /\ Relink(n, next, prev) \in Nodes
         /\ Relink(n, next, prev).next = next
         /\ Relink(n, next, prev).prev = prev
         /\ Relink(n, next, prev).id = n.id
         /\ Relink(n, next, prev).flags = n.flags
         /\ Relink(n, next, prev).final = n.final
         /\ Relink(n, next, prev).arcs = n.arcs
BY DEF Nodes, Relink

\* The estimate of a node depends on its arcs alone.
LEMMA EstimateType ==
  ASSUME CacheAssumption, NEW n \in Nodes
  PROVE  /\ Estimate(n) \in Nat
         /\ Estimate(n) = StateSize + (IF n.arcs = NoArcs THEN 0 ELSE ArcSize * Len(n.arcs))
<1>1. n.arcs # NoArcs => Len(n.arcs) \in Nat
  BY NodeParts
<1>2. StateSize \in Nat /\ ArcSize \in Nat
  BY DEF CacheAssumption
<1>3. n.arcs # NoArcs => ArcSize * Len(n.arcs) \in Nat
  BY <1>1, <1>2
<1> QED
  BY <1>1, <1>2, <1>3 DEF Estimate

\* The numbers the byte count sums up.
LEMMA WeightsType ==
  ASSUME CacheAssumption, NEW st \in Stores
  PROVE  Weights(st) \in [Slot -> Nat]
BY StoreParts, EstimateType DEF Weights, Weight

\* What remove_node returns.
LEMMA RemoveParts ==
  ASSUME CacheAssumption, NEW st \in Stores, NEW idx \in DOMAIN st.pool,
         Linked(st)
  PROVE  /\ RemoveNode(st, idx) \in Stores
         /\ DOMAIN RemoveNode(st, idx).pool = DOMAIN st.pool \ {idx}
         /\ \A i \in DOMAIN st.pool \ {idx} :
              /\ RemoveNode(st, idx).pool[i].id = st.pool[i].id
              /\ RemoveNode(st, idx).pool[i].flags = st.pool[i].flags
              /\ RemoveNode(st, idx).pool[i].final = st.pool[i].final
              /\ RemoveNode(st, idx).pool[i].arcs = st.pool[i].arcs
              /\ RemoveNode(st, idx).pool[i].next =
                   IF i = st.pool[idx].prev THEN st.pool[idx].next ELSE st.pool[i].next
              /\ RemoveNode(st, idx).pool[i].prev =
                   IF i = st.pool[idx].next THEN st.pool[idx].prev ELSE st.pool[i].prev
         /\ RemoveNode(st, idx).map = MapRemove(st.map, st.pool[idx].id)
         /\ RemoveNode(st, idx).limit = st.limit
         /\ RemoveNode(st, idx).size =
              IF st.size < Estimate(st.pool[idx]) THEN 0 ELSE st.size - Estimate(st.pool[idx])
         /\ RemoveNode(st, idx).head =
              IF st.pool[idx].prev = None THEN st.pool[idx].next ELSE st.head
         /\ RemoveNode(st, idx).tail =
              IF st.pool[idx].next = None THEN st.pool[idx].prev ELSE st.tail
<1> DEFINE D == DOMAIN st.pool
           node == st.pool[idx]
           next(i) == IF i = node.prev THEN node.next ELSE st.pool[i].next
           prev(i) == IF i = node.next THEN node.prev ELSE st.pool[i].prev
           pool == [i \in D \ {idx} |-> [st.pool[i] EXCEPT !.next = next(i), !.prev = prev(i)]]
           size == IF st.size < Estimate(node) THEN 0 ELSE st.size - Estimate(node)
           head == IF node.prev = None THEN node.next ELSE st.head
           tail == IF node.next = None THEN node.prev ELSE st.tail
           hand == IF st.hand = idx THEN Or(node.prev, tail) ELSE st.hand
<1>1. RemoveNode(st, idx) =
        WithParts(st, pool, size, MapRemove(st.map, node.id), head, tail, hand)
  BY Zenon DEF RemoveNode, WithParts
<1>2. node \in Nodes /\ node.next \in Link /\ node.prev \in Link /\ node.id \in Id
  BY StoreParts, NodeParts
<1>3. \A i \in D : st.pool[i] \in Nodes /\ next(i) \in Link /\ prev(i) \in Link
  BY <1>2, StoreParts, NodeParts
<1>4. \A i \in D \ {idx} :
        /\ pool[i] \in Nodes
        /\ pool[i].id = st.pool[i].id /\ pool[i].flags = st.pool[i].flags
        /\ pool[i].final = st.pool[i].final /\ pool[i].arcs = st.pool[i].arcs
        /\ pool[i].next = next(i) /\ pool[i].prev = prev(i)
  <2> TAKE i \in D \ {idx}
  <2>1. pool[i] = Relink(st.pool[i], next(i), prev(i))
    BY Zenon DEF Relink
  <2>2. st.pool[i] \in Nodes /\ next(i) \in Link /\ prev(i) \in Link
    BY <1>3
  <2> HIDE DEF pool, next, prev
  <2> QED
    BY <2>1, <2>2, Relinked
<1>5. size \in Nat
  BY <1>2, EstimateType, StoreParts
<1>6. head \in Link /\ tail \in Link /\ hand \in Link
  BY <1>2, StoreParts DEF Or
<1>7. MapRemove(st.map, node.id) \in Maps
  BY <1>2, MapRemoval, StoreParts
<1>8. D \ {idx} \in SUBSET Slot /\ pool \in [D \ {idx} -> Nodes] /\ st.limit \in Nat
  BY <1>4, StoreParts
<1> QED
  <2>1. DOMAIN pool = D \ {idx}
    OBVIOUS
  <2> HIDE DEF pool, size, head, tail, hand
  <2>2. /\ RemoveNode(st, idx) \in Stores
        /\ RemoveNode(st, idx).pool = pool
        /\ RemoveNode(st, idx).size = size
        /\ RemoveNode(st, idx).map = MapRemove(st.map, node.id)
        /\ RemoveNode(st, idx).head = head
        /\ RemoveNode(st, idx).tail = tail
        /\ RemoveNode(st, idx).limit = st.limit
    BY <1>1, <1>5, <1>6, <1>7, <1>8, StoreWithParts
  <2> QED
    BY <1>4, <2>1, <2>2 DEF size, head, tail

\* A store with the hand elsewhere.
LEMMA HandMoved ==
  ASSUME NEW st \in Stores, NEW h \in Link
  PROVE  /\ [st EXCEPT !.hand = h] \in Stores
         /\ [st EXCEPT !.hand = h].pool = st.pool
         /\ [st EXCEPT !.hand = h].map = st.map
         /\ [st EXCEPT !.hand = h].size = st.size
         /\ [st EXCEPT !.hand = h].limit = st.limit
         /\ [st EXCEPT !.hand = h].head = st.head
         /\ [st EXCEPT !.hand = h].tail = st.tail
         /\ [st EXCEPT !.hand = h].hand = h
BY DEF Stores

-----------------------------------------------------------------------------
(***************************************************************************)
(* The list                                                                *)
(***************************************************************************)

\* What the list's links say, one by one.
LEMMA LinkedParts ==
  ASSUME NEW st \in Stores, Linked(st)
  PROVE  /\ None \notin DOMAIN st.pool
         /\ \A i, j \in DOMAIN st.pool : st.pool[i].next = j <=> st.pool[j].prev = i
         /\ \A i \in DOMAIN st.pool :
              /\ st.pool[i].prev = None <=> i = st.head
              /\ st.pool[i].next = None <=> i = st.tail
              /\ st.pool[i].next \in DOMAIN st.pool \cup {None}
              /\ st.pool[i].prev \in DOMAIN st.pool \cup {None}
         /\ st.head \in DOMAIN st.pool \cup {None}
         /\ st.tail \in DOMAIN st.pool \cup {None}
         /\ st.head = None <=> DOMAIN st.pool = {}
         /\ st.tail = None <=> DOMAIN st.pool = {}
         /\ DOMAIN st.pool # {} => st.hand \in DOMAIN st.pool
<1>1. None \notin DOMAIN st.pool
  BY StoreParts DEF Slot, None
<1> QED
  BY <1>1 DEF Linked

\* In a set of nodes without the head, some node's predecessor is outside.
LEMMA EntersFromOutside ==
  ASSUME NEW st \in Stores, Linked(st), Rank(st) # {},
         NEW T \in SUBSET DOMAIN st.pool, T # {}, st.head \notin T
  PROVE  \E i \in T : st.pool[i].prev \in DOMAIN st.pool \ T
<1>1. PICK rank \in Rank(st) : TRUE
  OBVIOUS
<1>2. rank \in [DOMAIN st.pool -> Nat]
  BY <1>1 DEF Rank
<1> DEFINE R == {rank[i] : i \in T}
<1>3. PICK n \in R : \A m \in R : n <= m
  <2>1. R \in SUBSET Nat /\ R # {}
    BY <1>2
  <2> HIDE DEF R
  <2> QED
    BY <2>1, LeastNatural
<1>4. PICK i \in T : rank[i] = n
  BY <1>3
<1>5. st.pool[i].prev \in DOMAIN st.pool /\ st.pool[st.pool[i].prev].next = i
  BY LinkedParts
<1>6. rank[st.pool[i].prev] < rank[i]
  BY <1>1, <1>5, LinkedParts DEF Rank
<1>7. st.pool[i].prev \notin T
  <2> SUFFICES ASSUME st.pool[i].prev \in T PROVE FALSE
    OBVIOUS
  <2>1. rank[i] <= rank[st.pool[i].prev]
    BY <1>3, <1>4
  <2> QED
    BY <2>1, <1>2, <1>5, <1>6
<1> QED
  BY <1>5, <1>7

\* The head has the least rank.
LEMMA HeadIsFirst ==
  ASSUME NEW st \in Stores, Linked(st), NEW rank \in Rank(st), NEW i \in DOMAIN st.pool
  PROVE  rank[st.head] <= rank[i]
<1> DEFINE T == {j \in DOMAIN st.pool : rank[j] < rank[st.head]}
<1>1. rank \in [DOMAIN st.pool -> Nat] /\ st.head \in DOMAIN st.pool
  BY LinkedParts DEF Rank
<1> SUFFICES ASSUME T # {} PROVE FALSE
  BY <1>1
<1>2. st.head \notin T
  BY <1>1
<1>3. PICK j \in T : st.pool[j].prev \in DOMAIN st.pool \ T
  BY <1>2, EntersFromOutside
<1>4. st.pool[st.pool[j].prev].next = j /\ j # None
  BY <1>3, LinkedParts
<1>5. rank[st.pool[j].prev] < rank[j]
  BY <1>3, <1>4 DEF Rank
<1> QED
  BY <1>1, <1>3, <1>5

\* A node that is its own list is the only one.
LEMMA OneNode ==
  ASSUME NEW st \in Stores, Linked(st), Rank(st) # {}, NEW idx \in DOMAIN st.pool
  PROVE  (st.pool[idx].next = None /\ st.pool[idx].prev = None) <=> DOMAIN st.pool = {idx}
<1>1. ASSUME st.pool[idx].next = None, st.pool[idx].prev = None
      PROVE  DOMAIN st.pool = {idx}
  <2> SUFFICES ASSUME DOMAIN st.pool \ {idx} # {} PROVE FALSE
    OBVIOUS
  <2>1. st.head = idx
    BY <1>1, LinkedParts
  <2>2. PICK i \in DOMAIN st.pool \ {idx} :
          st.pool[i].prev \in DOMAIN st.pool \ (DOMAIN st.pool \ {idx})
    BY <2>1, EntersFromOutside
  <2> QED
    BY <2>2, <1>1, LinkedParts
<1>2. ASSUME DOMAIN st.pool = {idx}
      PROVE  st.pool[idx].next = None /\ st.pool[idx].prev = None
  <2>1. PICK rank \in Rank(st) : TRUE
    OBVIOUS
  <2>2. st.pool[idx].next # idx
    BY <2>1, LinkedParts DEF Rank
  <2>3. st.pool[idx].prev # idx
    BY <2>2, LinkedParts
  <2> QED
    BY <1>2, <2>2, <2>3, LinkedParts
<1> QED
  BY <1>1, <1>2

\* remove_node leaves a sound store, its hand moved to a node if there is one.
LEMMA RemoveSound ==
  ASSUME CacheAssumption, NEW st \in Sound, NEW idx \in DOMAIN st.pool, NEW h \in Link,
         DOMAIN st.pool \ {idx} # {} => h \in DOMAIN st.pool \ {idx}
  PROVE  /\ [RemoveNode(st, idx) EXCEPT !.hand = h] \in Sound
         /\ st.size = RemoveNode(st, idx).size + Estimate(st.pool[idx])
         /\ \A rank \in Rank(st) :
              [i \in DOMAIN st.pool \ {idx} |-> rank[i]]
                \in Rank([RemoveNode(st, idx) EXCEPT !.hand = h])
<1> DEFINE D == DOMAIN st.pool
           r == [RemoveNode(st, idx) EXCEPT !.hand = h]
           node == st.pool[idx]
<1>1. st \in Stores /\ Linked(st) /\ Rank(st) # {} /\ Mapped(st)
      /\ st.size = Total(Weights(st))
  BY DEF Sound
<1>2. /\ r \in Stores
      /\ DOMAIN r.pool = D \ {idx}
      /\ \A i \in D \ {idx} :
           /\ r.pool[i].id = st.pool[i].id
           /\ r.pool[i].arcs = st.pool[i].arcs
           /\ r.pool[i].next = IF i = node.prev THEN node.next ELSE st.pool[i].next
           /\ r.pool[i].prev = IF i = node.next THEN node.prev ELSE st.pool[i].prev
      /\ r.map = MapRemove(st.map, node.id)
      /\ r.size = IF st.size < Estimate(node) THEN 0 ELSE st.size - Estimate(node)
      /\ r.head = IF node.prev = None THEN node.next ELSE st.head
      /\ r.tail = IF node.next = None THEN node.prev ELSE st.tail
      /\ r.hand = h
      /\ r.size = RemoveNode(st, idx).size
  BY <1>1, RemoveParts, HandMoved
<1> HIDE DEF r
<1>3. Linked(r)
  <2>1. \A i, j \in D \ {idx} : r.pool[i].next = j <=> r.pool[j].prev = i
    BY <1>1, <1>2, LinkedParts
  <2>2. \A i \in D \ {idx} : /\ r.pool[i].prev = None <=> i = r.head
                             /\ r.pool[i].next = None <=> i = r.tail
    BY <1>1, <1>2, LinkedParts
  <2>3. \A i \in D \ {idx} : /\ r.pool[i].next \in (D \ {idx}) \cup {None}
                             /\ r.pool[i].prev \in (D \ {idx}) \cup {None}
    BY <1>1, <1>2, LinkedParts
  <2>4. node.next # idx /\ node.prev # idx
    <3>1. PICK rank \in Rank(st) : TRUE
      BY <1>1
    <3>2. rank \in [D -> Nat] /\ (node.next # None => rank[idx] < rank[node.next])
      BY <3>1 DEF Rank
    <3>3. node.next # idx
      BY <3>2, <1>1, LinkedParts
    <3> QED
      BY <3>3, <1>1, LinkedParts
  <2>5. r.head \in (D \ {idx}) \cup {None} /\ r.tail \in (D \ {idx}) \cup {None}
    BY <1>1, <1>2, <2>4, LinkedParts
  <2>6. (node.next = None /\ node.prev = None) <=> D \ {idx} = {}
    BY <1>1, OneNode
  <2>7. (r.head = None <=> D \ {idx} = {}) /\ (r.tail = None <=> D \ {idx} = {})
    BY <1>1, <1>2, <2>6, LinkedParts
  <2> QED
    BY <1>2, <2>1, <2>2, <2>3, <2>5, <2>7 DEF Linked
<1>4. \A rank \in Rank(st) : [i \in D \ {idx} |-> rank[i]] \in Rank(r)
  <2> SUFFICES ASSUME NEW rank \in Rank(st)
               PROVE  [i \in D \ {idx} |-> rank[i]] \in Rank(r)
    OBVIOUS
  <2>1. /\ rank \in [D -> Nat]
        /\ \A i \in D : st.pool[i].next # None => rank[i] < rank[st.pool[i].next]
        /\ \A i, j \in D : /\ rank[i] = rank[j] => i = j
                           /\ rank[i] < rank[j] =>
                                st.pool[i].next # None /\ rank[st.pool[i].next] <= rank[j]
    BY DEF Rank
  <2>2. ASSUME NEW i \in D \ {idx}, r.pool[i].next # None
        PROVE  rank[i] < rank[r.pool[i].next]
    <3>1. CASE i = node.prev
      <4>1. st.pool[i].next = idx /\ r.pool[i].next = node.next /\ node.next \in D
        BY <1>1, <1>2, <2>2, <3>1, LinkedParts
      <4>2. rank[i] < rank[idx] /\ rank[idx] < rank[node.next]
        BY <2>1, <2>2, <4>1, <1>1, LinkedParts
      <4> QED
        BY <2>1, <4>1, <4>2
    <3>2. CASE i # node.prev
      BY <1>2, <2>1, <2>2, <3>2
    <3> QED
      BY <3>1, <3>2
  <2>3. \A i \in D \ {idx} : r.pool[i].next # None => r.pool[i].next \in D \ {idx}
    BY <1>2, <1>3 DEF Linked
  <2>4. ASSUME NEW i \in D \ {idx}, NEW j \in D \ {idx}, rank[i] < rank[j]
        PROVE  r.pool[i].next # None /\ rank[r.pool[i].next] <= rank[j]
    <3>1. st.pool[i].next \in D /\ rank[st.pool[i].next] <= rank[j]
      BY <1>1, <2>1, <2>4, LinkedParts
    <3>2. CASE i = node.prev
      <4>1. st.pool[i].next = idx /\ r.pool[i].next = node.next
        BY <1>1, <1>2, <3>1, <3>2, LinkedParts
      <4>2. rank[idx] \in Nat /\ rank[j] \in Nat /\ rank[idx] # rank[j]
        BY <2>1
      <4>3. rank[idx] < rank[j]
        BY <3>1, <4>1, <4>2
      <4>4. node.next # None /\ rank[node.next] <= rank[j]
        BY <2>1, <4>3
      <4> QED
        BY <4>1, <4>4
    <3>3. CASE i # node.prev
      BY <1>2, <3>1, <3>3, LinkedParts, <1>1
    <3> QED
      BY <3>2, <3>3
  <2> DEFINE kept == [i \in D \ {idx} |-> rank[i]]
  <2>5. kept \in [D \ {idx} -> Nat] /\ \A i \in D \ {idx} : kept[i] = rank[i]
    BY <2>1
  <2> HIDE DEF kept
  <2>6. DOMAIN r.pool = D \ {idx}
    BY <1>2
  <2>7. \A i \in D \ {idx} : r.pool[i].next # None => kept[i] < kept[r.pool[i].next]
    BY <2>2, <2>3, <2>5
  <2>8. \A i, j \in D \ {idx} : kept[i] = kept[j] => i = j
    BY <2>1, <2>5
  <2>9. \A i, j \in D \ {idx} :
          kept[i] < kept[j] => r.pool[i].next # None /\ kept[r.pool[i].next] <= kept[j]
    BY <2>3, <2>4, <2>5
  <2>10. kept \in Rank(r)
    BY <2>5, <2>6, <2>7, <2>8, <2>9 DEF Rank
  <2> QED
    BY <2>10 DEF kept
<1>5. Rank(r) # {}
  BY <1>1, <1>4
<1>6. Mapped(r)
  <2>1. node.id \in Id /\ \A i \in D : st.pool[i].id \in Id
    BY <1>1, StoreParts, NodeParts
  <2>2. \A j \in Id : MapGet(r.map, j) = IF j = node.id THEN None ELSE MapGet(st.map, j)
    BY <1>1, <1>2, <2>1, StoreParts, MapRemoval
  <2> QED
    BY <1>1, <1>2, <2>1, <2>2 DEF Mapped
<1>7. r.size = Total(Weights(r)) /\ st.size = r.size + Estimate(node)
  <2>1. Weights(st) \in [Slot -> Nat] /\ Weights(r) \in [Slot -> Nat] /\ idx \in Slot
    BY <1>1, <1>2, WeightsType, StoreParts
  <2>2. Weights(st)[idx] = Estimate(node) /\ Weights(r)[idx] = 0
    BY <1>2, <2>1 DEF Weights, Weight
  <2>3. \A i \in Slot \ {idx} : Weights(r)[i] = Weights(st)[i]
    BY <1>2 DEF Weights, Weight, Estimate
  <2>4. NumStates \in Nat \ {0}
    BY DEF CacheAssumption
  <2>5. /\ Total(Weights(st)) \in Nat
        /\ Total(Weights(r)) = Total(Weights(st)) - Weights(st)[idx] + Weights(r)[idx]
        /\ Weights(st)[idx] <= Total(Weights(st))
    BY <2>1, <2>3, <2>4, TotalChange
  <2>6. Estimate(node) \in Nat
    BY <1>1, StoreParts, EstimateType
  <2> QED
    BY <1>1, <1>2, <2>2, <2>5, <2>6
<1> QED
  BY <1>2, <1>3, <1>4, <1>5, <1>6, <1>7 DEF Sound, r

-----------------------------------------------------------------------------
(***************************************************************************)
(* Pushing a node                                                          *)
(***************************************************************************)

NewNode(id, next) == [Node(id) EXCEPT !.next = next]
Follow(n, prev) == [n EXCEPT !.prev = prev]

\* A fresh node.
LEMMA FreshNode ==
  ASSUME NEW id \in Id, NEW link \in Link
  PROVE  /\ NewNode(id, link) \in Nodes
         /\ NewNode(id, link).id = id
         /\ NewNode(id, link).flags = {}
         /\ NewNode(id, link).arcs = NoArcs
         /\ NewNode(id, link).next = link
         /\ NewNode(id, link).prev = None
<1>1. /\ Node(id) \in Nodes
      /\ Node(id).id = id
      /\ Node(id).flags = {}
      /\ Node(id).arcs = NoArcs
      /\ Node(id).prev = None
  BY DEF Node, Nodes, Link
<1> QED
  BY <1>1 DEF NewNode, Nodes

\* A node with another predecessor.
LEMMA Followed ==
  ASSUME NEW n \in Nodes, NEW link \in Link
  PROVE  /\ Follow(n, link) \in Nodes
         /\ Follow(n, link).id = n.id
         /\ Follow(n, link).flags = n.flags
         /\ Follow(n, link).final = n.final
         /\ Follow(n, link).arcs = n.arcs
         /\ Follow(n, link).next = n.next
         /\ Follow(n, link).prev = link
BY DEF Follow, Nodes

\* What push_head returns.
LEMMA PushParts ==
  ASSUME CacheAssumption, NEW st \in Stores, NEW id \in Id, NEW idx \in Slot \ DOMAIN st.pool
  PROVE  /\ PushHead(st, id, idx) \in Stores
         /\ DOMAIN PushHead(st, id, idx).pool = DOMAIN st.pool \cup {idx}
         /\ \A i \in DOMAIN st.pool :
              /\ PushHead(st, id, idx).pool[i].id = st.pool[i].id
              /\ PushHead(st, id, idx).pool[i].flags = st.pool[i].flags
              /\ PushHead(st, id, idx).pool[i].final = st.pool[i].final
              /\ PushHead(st, id, idx).pool[i].arcs = st.pool[i].arcs
              /\ PushHead(st, id, idx).pool[i].next = st.pool[i].next
              /\ PushHead(st, id, idx).pool[i].prev =
                   IF i = st.head THEN idx ELSE st.pool[i].prev
         /\ PushHead(st, id, idx).pool[idx].id = id
         /\ PushHead(st, id, idx).pool[idx].flags = {}
         /\ PushHead(st, id, idx).pool[idx].arcs = NoArcs
         /\ PushHead(st, id, idx).pool[idx].next = st.head
         /\ PushHead(st, id, idx).pool[idx].prev = None
         /\ PushHead(st, id, idx).map = MapInsert(st.map, id, idx)
         /\ PushHead(st, id, idx).limit = st.limit
         /\ PushHead(st, id, idx).size = st.size + StateSize
         /\ PushHead(st, id, idx).head = idx
         /\ PushHead(st, id, idx).tail = IF st.head = None THEN idx ELSE st.tail
         /\ PushHead(st, id, idx).hand = IF st.head = None THEN idx ELSE st.hand
<1> DEFINE D == DOMAIN st.pool
           pool == [i \in D \cup {idx} |->
                      IF i = idx THEN NewNode(id, st.head)
                      ELSE IF i = st.head THEN Follow(st.pool[i], idx)
                      ELSE st.pool[i]]
           tail == IF st.head = None THEN idx ELSE st.tail
           hand == IF st.head = None THEN idx ELSE st.hand
<1>1. PushHead(st, id, idx) =
        WithParts(st, pool, st.size + StateSize, MapInsert(st.map, id, idx), idx, tail, hand)
  BY Zenon DEF PushHead, WithParts, NewNode, Follow
<1>2. st.head \in Link /\ idx \in Link /\ tail \in Link /\ hand \in Link
  BY StoreParts DEF Link
<1>3. \A i \in D : pool[i] = IF i = st.head THEN Follow(st.pool[i], idx) ELSE st.pool[i]
  OBVIOUS
<1>4. pool[idx] = NewNode(id, st.head) /\ DOMAIN pool = D \cup {idx}
  OBVIOUS
<1>5. \A i \in D : st.pool[i] \in Nodes
  BY StoreParts
<1> HIDE DEF pool
<1>6. /\ \A i \in D : /\ pool[i] \in Nodes
                      /\ pool[i].id = st.pool[i].id
                      /\ pool[i].flags = st.pool[i].flags
                      /\ pool[i].final = st.pool[i].final
                      /\ pool[i].arcs = st.pool[i].arcs
                      /\ pool[i].next = st.pool[i].next
                      /\ pool[i].prev = IF i = st.head THEN idx ELSE st.pool[i].prev
  BY <1>2, <1>3, <1>5, Followed
<1>7. /\ pool[idx] \in Nodes
      /\ pool[idx].id = id /\ pool[idx].flags = {} /\ pool[idx].arcs = NoArcs
      /\ pool[idx].next = st.head /\ pool[idx].prev = None
  BY <1>2, <1>4, FreshNode
<1>8. D \cup {idx} \in SUBSET Slot /\ pool \in [D \cup {idx} -> Nodes]
  <2>1. pool = [i \in D \cup {idx} |-> pool[i]]
    BY DEF pool
  <2> QED
    BY <1>6, <1>7, <2>1, StoreParts
<1>9. st.size + StateSize \in Nat /\ MapInsert(st.map, id, idx) \in Maps
  <2>1. st.size \in Nat /\ st.map \in Maps
    BY StoreParts
  <2>2. st.size + StateSize \in Nat
    BY <2>1 DEF CacheAssumption
  <2> QED
    BY <1>2, <2>1, <2>2, MapInsertion
<1> DEFINE size == st.size + StateSize
           map == MapInsert(st.map, id, idx)
           all == D \cup {idx}
           new == WithParts(st, pool, size, map, idx, tail, hand)
<1>a. /\ all \in SUBSET Slot /\ pool \in [all -> Nodes] /\ size \in Nat /\ map \in Maps
      /\ idx \in Link /\ tail \in Link /\ hand \in Link
  BY <1>2, <1>8, <1>9
<1>b. PushHead(st, id, idx) = new
  BY <1>1
<1> HIDE DEF tail, hand, size, map, all
<1>c. /\ new \in Stores /\ new.pool = pool /\ new.size = size /\ new.map = map
      /\ new.head = idx /\ new.tail = tail /\ new.hand = hand /\ new.limit = st.limit
  <2>1. pool \in UNION {[E -> Nodes] : E \in SUBSET Slot}
    BY <1>a
  <2> QED
    BY <1>a, <2>1 DEF Stores, WithParts
<1> HIDE DEF new
<1>10. /\ PushHead(st, id, idx) \in Stores
       /\ PushHead(st, id, idx).pool = pool
       /\ PushHead(st, id, idx).size = st.size + StateSize
       /\ PushHead(st, id, idx).map = MapInsert(st.map, id, idx)
       /\ PushHead(st, id, idx).head = idx
       /\ PushHead(st, id, idx).tail = tail
       /\ PushHead(st, id, idx).hand = hand
       /\ PushHead(st, id, idx).limit = st.limit
  BY <1>b, <1>c DEF size, map
<1>11. DOMAIN pool = DOMAIN st.pool \cup {idx}
  BY <1>4
<1> QED
  BY <1>6, <1>7, <1>10, <1>11 DEF tail, hand

\* push_head leaves a sound store.
LEMMA PushSound ==
  ASSUME CacheAssumption, NEW st \in Sound, NEW id \in Id, NEW idx \in Slot \ DOMAIN st.pool,
         MapGet(st.map, id) = None
  PROVE  PushHead(st, id, idx) \in Sound
<1> DEFINE D == DOMAIN st.pool
           r == PushHead(st, id, idx)
<1>1. st \in Stores /\ Linked(st) /\ Rank(st) # {} /\ Mapped(st)
      /\ st.size = Total(Weights(st))
  BY DEF Sound
<1>2. /\ r \in Stores
      /\ DOMAIN r.pool = D \cup {idx}
      /\ \A i \in D : /\ r.pool[i].id = st.pool[i].id
                      /\ r.pool[i].arcs = st.pool[i].arcs
                      /\ r.pool[i].next = st.pool[i].next
                      /\ r.pool[i].prev = IF i = st.head THEN idx ELSE st.pool[i].prev
      /\ r.pool[idx].id = id
      /\ r.pool[idx].arcs = NoArcs
      /\ r.pool[idx].next = st.head
      /\ r.pool[idx].prev = None
      /\ r.map = MapInsert(st.map, id, idx)
      /\ r.size = st.size + StateSize
      /\ r.head = idx
      /\ r.tail = IF st.head = None THEN idx ELSE st.tail
      /\ r.hand = IF st.head = None THEN idx ELSE st.hand
  BY <1>1, PushParts
<1> HIDE DEF r
<1>3. idx # None
  BY DEF Slot, None
<1>4. Linked(r)
  BY <1>1, <1>2, <1>3, LinkedParts DEF Linked
<1>5. Rank(r) # {}
  <2>1. PICK rank \in Rank(st) : TRUE
    BY <1>1
  <2>2. /\ rank \in [D -> Nat]
        /\ \A i \in D : st.pool[i].next # None => rank[i] < rank[st.pool[i].next]
        /\ \A i, j \in D : /\ rank[i] = rank[j] => i = j
                           /\ rank[i] < rank[j] =>
                                st.pool[i].next # None /\ rank[st.pool[i].next] <= rank[j]
    BY <2>1 DEF Rank
  <2> DEFINE pushed == [i \in D \cup {idx} |-> IF i = idx THEN 0 ELSE rank[i] + 1]
  <2>3. pushed \in [DOMAIN r.pool -> Nat]
    BY <1>2, <2>2
  <2>4. \A i \in D : st.pool[i].next \in D \cup {None}
    BY <1>1, LinkedParts
  <2>5. st.head \in D \cup {None}
    BY <1>1, LinkedParts
  <2>6. ASSUME NEW i \in D \cup {idx}, r.pool[i].next # None
        PROVE  pushed[i] < pushed[r.pool[i].next]
    <3>1. CASE i = idx
      <4>1. st.head \in D /\ rank[st.head] \in Nat /\ r.pool[i].next = st.head
        BY <1>2, <2>2, <2>5, <2>6, <3>1
      <4> QED
        BY <4>1, <3>1
    <3>2. CASE i # idx
      <4>1. i \in D /\ st.pool[i].next \in D /\ r.pool[i].next = st.pool[i].next
            /\ rank[i] < rank[st.pool[i].next]
            /\ rank[i] \in Nat /\ rank[st.pool[i].next] \in Nat
        BY <1>2, <2>2, <2>4, <2>6, <3>2
      <4> QED
        BY <4>1, <3>2
    <3> QED
      BY <3>1, <3>2
  <2>7. \A i \in D : rank[st.head] <= rank[i]
    BY <1>1, <2>1, HeadIsFirst
  <2>8. ASSUME NEW i \in D \cup {idx}, NEW j \in D \cup {idx}
        PROVE  /\ pushed[i] = pushed[j] => i = j
               /\ pushed[i] < pushed[j] =>
                    r.pool[i].next # None /\ pushed[r.pool[i].next] <= pushed[j]
    <3>1. (i \in D => rank[i] \in Nat) /\ (j \in D => rank[j] \in Nat)
      BY <2>2
    <3>2. CASE i = idx /\ j # idx
      <4>1. st.head \in D /\ r.pool[i].next = st.head /\ rank[st.head] \in Nat
            /\ rank[st.head] <= rank[j]
        BY <1>1, <1>2, <2>2, <2>7, <3>2, LinkedParts
      <4> QED
        BY <1>3, <3>1, <3>2, <4>1, StoreParts, <1>1 DEF Slot, None
    <3>3. CASE i # idx /\ j # idx
      <4>1. /\ r.pool[i].next = st.pool[i].next
            /\ pushed[i] = rank[i] + 1 /\ pushed[j] = rank[j] + 1
            /\ i \in D /\ j \in D
        BY <1>2, <3>3
      <4>2. CASE rank[i] < rank[j]
        <5>1. st.pool[i].next \in D /\ rank[st.pool[i].next] <= rank[j]
              /\ rank[st.pool[i].next] \in Nat
          BY <2>2, <2>4, <3>3, <4>2
        <5>2. st.pool[i].next # idx /\ st.pool[i].next # None
          BY <1>1, <5>1, LinkedParts
        <5>3. pushed[r.pool[i].next] = rank[st.pool[i].next] + 1
          BY <4>1, <5>1, <5>2
        <5> HIDE DEF pushed
        <5> QED
          BY <3>1, <4>1, <4>2, <5>1, <5>2, <5>3
      <4>3. CASE ~ (rank[i] < rank[j])
        <5>1. rank[i] = rank[j] => i = j
          BY <2>2, <4>1
        <5> HIDE DEF pushed
        <5> QED
          BY <3>1, <4>1, <4>3, <5>1
      <4> QED
        BY <4>2, <4>3
    <3>4. CASE j = idx
      BY <3>1, <3>4
    <3> QED
      BY <3>2, <3>3, <3>4
  <2> HIDE DEF pushed
  <2> QED
    BY <1>2, <2>3, <2>6, <2>8 DEF Rank
<1>6. Mapped(r)
  <2>1. \A i \in D : st.pool[i].id \in Id
    BY <1>1, StoreParts, NodeParts
  <2>2. idx \in Link
    BY DEF Link
  <2>3. \A j \in Id : MapGet(r.map, j) = IF j = id THEN idx ELSE MapGet(st.map, j)
    BY <1>1, <1>2, <2>2, StoreParts, MapInsertion
  <2>4. \A i \in D : st.pool[i].id # id
    BY <1>1, <2>1, <1>3, LinkedParts DEF Mapped
  <2> QED
    BY <1>1, <1>2, <2>1, <2>3, <2>4 DEF Mapped
<1>7. r.size = Total(Weights(r))
  <2>1. Weights(st) \in [Slot -> Nat] /\ Weights(r) \in [Slot -> Nat]
    BY <1>1, <1>2, WeightsType
  <2>2. Weights(st)[idx] = 0 /\ Weights(r)[idx] = StateSize
    <3>1. r.pool[idx] \in Nodes
      BY <1>2, StoreParts
    <3>2. Estimate(r.pool[idx]) = StateSize
      BY <1>2, <3>1, EstimateType DEF CacheAssumption
    <3> QED
      BY <1>2, <3>2 DEF Weights, Weight
  <2>3. \A i \in Slot \ {idx} : Weights(r)[i] = Weights(st)[i]
    BY <1>2 DEF Weights, Weight, Estimate
  <2>4. NumStates \in Nat \ {0} /\ StateSize \in Nat
    BY DEF CacheAssumption
  <2>5. /\ Total(Weights(st)) \in Nat
        /\ Total(Weights(r)) = Total(Weights(st)) - Weights(st)[idx] + Weights(r)[idx]
    BY <2>1, <2>3, <2>4, TotalChange
  <2> QED
    BY <1>1, <1>2, <2>2, <2>4, <2>5
<1> QED
  BY <1>2, <1>4, <1>5, <1>6, <1>7 DEF Sound, r

-----------------------------------------------------------------------------
(***************************************************************************)
(* Changing what a node holds                                              *)
(***************************************************************************)

\* r is st with another node for the same state at idx, its bytes counted.
Refilled(st, r, idx) ==
  /\ r \in Stores
  /\ DOMAIN r.pool = DOMAIN st.pool
  /\ \A i \in DOMAIN st.pool \ {idx} : r.pool[i] = st.pool[i]
  /\ r.pool[idx].id = st.pool[idx].id
  /\ r.pool[idx].next = st.pool[idx].next
  /\ r.pool[idx].prev = st.pool[idx].prev
  /\ r.map = st.map
  /\ r.head = st.head
  /\ r.tail = st.tail
  /\ r.hand \in DOMAIN st.pool
  /\ r.size - Estimate(r.pool[idx]) = st.size - Estimate(st.pool[idx])

\* Such a store is as sound as it was, and its list in the same order.
LEMMA RefilledSound ==
  ASSUME CacheAssumption, NEW st \in Sound, NEW idx \in DOMAIN st.pool, NEW r,
         Refilled(st, r, idx)
  PROVE  r \in Sound /\ Rank(r) = Rank(st)
<1>1. st \in Stores /\ Linked(st) /\ Rank(st) # {} /\ Mapped(st)
      /\ st.size = Total(Weights(st))
  BY DEF Sound
<1>2. \A i \in DOMAIN st.pool : /\ r.pool[i].id = st.pool[i].id
                                /\ r.pool[i].next = st.pool[i].next
                                /\ r.pool[i].prev = st.pool[i].prev
  BY DEF Refilled
<1>3. Linked(r)
  BY <1>1, <1>2 DEF Linked, Refilled
<1>4. Rank(r) = Rank(st)
  BY <1>2 DEF Rank, Refilled
<1>5. Mapped(r)
  BY <1>1, <1>2 DEF Mapped, Refilled
<1>6. r.size = Total(Weights(r))
  <2>1. Weights(st) \in [Slot -> Nat] /\ Weights(r) \in [Slot -> Nat] /\ idx \in Slot
    BY <1>1, WeightsType, StoreParts DEF Refilled
  <2>2. Weights(st)[idx] = Estimate(st.pool[idx]) /\ Weights(r)[idx] = Estimate(r.pool[idx])
    BY <2>1 DEF Weights, Weight, Refilled
  <2>3. \A i \in Slot \ {idx} : Weights(r)[i] = Weights(st)[i]
    BY DEF Weights, Weight, Refilled
  <2>4. NumStates \in Nat \ {0}
    BY DEF CacheAssumption
  <2>5. /\ Total(Weights(st)) \in Nat
        /\ Total(Weights(r)) = Total(Weights(st)) - Weights(st)[idx] + Weights(r)[idx]
    BY <2>1, <2>3, <2>4, TotalChange
  <2>6. r.size - Estimate(r.pool[idx]) = st.size - Estimate(st.pool[idx]) /\ r.size \in Nat
        /\ st.size \in Nat
    BY <1>1, StoreParts DEF Refilled
  <2>7. Weights(st)[idx] \in Nat /\ Weights(r)[idx] \in Nat
    BY <2>1
  <2> QED
    BY <1>1, <2>2, <2>5, <2>6, <2>7
<1> QED
  BY <1>1, <1>3, <1>4, <1>5, <1>6 DEF Sound, Refilled

\* Stores and nodes by their types alone.
Records ==
  [id : Id, flags : SUBSET Flag, final : BOOLEAN, arcs : Seq(Id) \cup {NoArcs},
   next : Link, prev : Link]
RecordStores ==
  [pool : UNION {[D -> Records] : D \in SUBSET Slot}, map : Maps, size : Nat, limit : Nat,
   head : Link, tail : Link, hand : Link]

\* A store with another record in a slot, and another size.
WithNode(st, idx, n) == [st EXCEPT !.pool[idx] = n]
WithNodeAndSize(st, idx, n, s) == [st EXCEPT !.pool[idx] = n, !.size = s]
WithNodeAndHand(st, idx, n, h) == [st EXCEPT !.pool[idx] = n, !.hand = h]

\* A pool with another record in a slot.
LEMMA PoolWithNode ==
  ASSUME NEW st \in RecordStores, NEW idx \in DOMAIN st.pool, NEW n \in Records
  PROVE  /\ [st.pool EXCEPT ![idx] = n] \in UNION {[E -> Records] : E \in SUBSET Slot}
         /\ DOMAIN [st.pool EXCEPT ![idx] = n] = DOMAIN st.pool
         /\ \A i \in DOMAIN st.pool \ {idx} : [st.pool EXCEPT ![idx] = n][i] = st.pool[i]
         /\ [st.pool EXCEPT ![idx] = n][idx] = n
<1>1. PICK D \in SUBSET Slot : st.pool \in [D -> Records]
  BY DEF RecordStores
<1>2. D = DOMAIN st.pool /\ [st.pool EXCEPT ![idx] = n] \in [D -> Records]
  BY <1>1
<1> QED
  BY <1>1, <1>2

\* What is unchanged then.
SameBut(st, r, idx, n) ==
  /\ DOMAIN r.pool = DOMAIN st.pool
  /\ \A i \in DOMAIN st.pool \ {idx} : r.pool[i] = st.pool[i]
  /\ r.pool[idx] = n
  /\ r.map = st.map
  /\ r.limit = st.limit
  /\ r.head = st.head
  /\ r.tail = st.tail

LEMMA StoreWithNode ==
  ASSUME NEW st \in RecordStores, NEW idx \in DOMAIN st.pool, NEW n \in Records
  PROVE  /\ WithNode(st, idx, n) \in RecordStores
         /\ SameBut(st, WithNode(st, idx, n), idx, n)
         /\ WithNode(st, idx, n).size = st.size
         /\ WithNode(st, idx, n).hand = st.hand
<1> DEFINE pool == [st.pool EXCEPT ![idx] = n]
<1>1. /\ pool \in UNION {[E -> Records] : E \in SUBSET Slot}
      /\ DOMAIN pool = DOMAIN st.pool /\ pool[idx] = n
      /\ \A i \in DOMAIN st.pool \ {idx} : pool[i] = st.pool[i]
  BY PoolWithNode
<1>2. WithNode(st, idx, n) = [st EXCEPT !.pool = pool]
  BY DEF WithNode
<1> HIDE DEF pool
<1> QED
  BY <1>1, <1>2 DEF RecordStores, SameBut

LEMMA StoreWithNodeAndSize ==
  ASSUME NEW st \in RecordStores, NEW idx \in DOMAIN st.pool, NEW n \in Records, NEW s \in Nat
  PROVE  /\ WithNodeAndSize(st, idx, n, s) \in RecordStores
         /\ SameBut(st, WithNodeAndSize(st, idx, n, s), idx, n)
         /\ WithNodeAndSize(st, idx, n, s).size = s
         /\ WithNodeAndSize(st, idx, n, s).hand = st.hand
<1> DEFINE pool == [st.pool EXCEPT ![idx] = n]
<1>1. /\ pool \in UNION {[E -> Records] : E \in SUBSET Slot}
      /\ DOMAIN pool = DOMAIN st.pool /\ pool[idx] = n
      /\ \A i \in DOMAIN st.pool \ {idx} : pool[i] = st.pool[i]
  BY PoolWithNode
<1>2. WithNodeAndSize(st, idx, n, s) = [st EXCEPT !.pool = pool, !.size = s]
  BY DEF WithNodeAndSize
<1> HIDE DEF pool
<1> QED
  BY <1>1, <1>2 DEF RecordStores, SameBut

LEMMA StoreWithNodeAndHand ==
  ASSUME NEW st \in RecordStores, NEW idx \in DOMAIN st.pool, NEW n \in Records, NEW h \in Link
  PROVE  /\ WithNodeAndHand(st, idx, n, h) \in RecordStores
         /\ SameBut(st, WithNodeAndHand(st, idx, n, h), idx, n)
         /\ WithNodeAndHand(st, idx, n, h).size = st.size
         /\ WithNodeAndHand(st, idx, n, h).hand = h
<1> DEFINE pool == [st.pool EXCEPT ![idx] = n]
<1>1. /\ pool \in UNION {[E -> Records] : E \in SUBSET Slot}
      /\ DOMAIN pool = DOMAIN st.pool /\ pool[idx] = n
      /\ \A i \in DOMAIN st.pool \ {idx} : pool[i] = st.pool[i]
  BY PoolWithNode
<1>2. WithNodeAndHand(st, idx, n, h) = [st EXCEPT !.pool = pool, !.hand = h]
  BY DEF WithNodeAndHand
<1> HIDE DEF pool
<1> QED
  BY <1>1, <1>2 DEF RecordStores, SameBut

\* Stores hold records; a store whose records are nodes is one.
LEMMA StoresHoldRecords ==
  ASSUME NEW st
  PROVE  st \in Stores <=> st \in RecordStores /\ \A i \in DOMAIN st.pool : st.pool[i] \in Nodes
<1>1. ASSUME st \in Stores
      PROVE  st \in RecordStores /\ \A i \in DOMAIN st.pool : st.pool[i] \in Nodes
  <2>1. PICK D \in SUBSET Slot : st.pool \in [D -> Nodes]
    BY <1>1 DEF Stores
  <2>2. Nodes \subseteq Records
    BY DEF Nodes, Records
  <2>3. st.pool \in [D -> Records]
    BY <2>1, <2>2
  <2>4. st.pool \in UNION {[E -> Records] : E \in SUBSET Slot}
    BY <2>3
  <2> QED
    BY <1>1, <2>1, <2>4 DEF Stores, RecordStores
<1>2. ASSUME st \in RecordStores, \A i \in DOMAIN st.pool : st.pool[i] \in Nodes
      PROVE  st \in Stores
  <2>1. PICK D \in SUBSET Slot : st.pool \in [D -> Records]
    BY <1>2 DEF RecordStores
  <2>2. st.pool \in [D -> Nodes]
    BY <1>2, <2>1
  <2>3. st.pool \in UNION {[E -> Nodes] : E \in SUBSET Slot}
    BY <2>2
  <2> QED
    BY <1>2, <2>3 DEF Stores, RecordStores
<1> QED
  BY <1>1, <1>2

-----------------------------------------------------------------------------
(***************************************************************************)
(* Flags and answers                                                       *)
(***************************************************************************)

Flagged(n, f) == [n EXCEPT !.flags = f]

\* A record with other flags, and one with another answer.
LEMMA FlaggedParts ==
  ASSUME NEW n \in Records, NEW f \in SUBSET Flag
  PROVE  /\ Flagged(n, f) \in Records
         /\ Flagged(n, f).flags = f
         /\ Flagged(n, f).id = n.id
         /\ Flagged(n, f).final = n.final
         /\ Flagged(n, f).arcs = n.arcs
         /\ Flagged(n, f).next = n.next
         /\ Flagged(n, f).prev = n.prev
BY DEF Flagged, Records

\* A node's flags may come and go, but for those that say what is cached.
LEMMA FlaggedNode ==
  ASSUME NEW n \in Nodes, NEW f \in SUBSET Flag,
         "FINAL" \in f <=> "FINAL" \in n.flags, "ARCS" \in f <=> "ARCS" \in n.flags,
         ~ ("ARCS" \in f /\ "EXPANDING_ARCS" \in f)
  PROVE  Flagged(n, f) \in Nodes
BY DEF Flagged, Nodes

\* r is st with other flags on a node.
FlagsSet(st, r, idx, f) ==
  /\ r \in Sound
  /\ Rank(r) = Rank(st)
  /\ DOMAIN r.pool = DOMAIN st.pool
  /\ \A i \in DOMAIN st.pool \ {idx} : r.pool[i] = st.pool[i]
  /\ r.pool[idx].flags = f
  /\ r.pool[idx].id = st.pool[idx].id
  /\ r.pool[idx].final = st.pool[idx].final
  /\ r.pool[idx].arcs = st.pool[idx].arcs
  /\ r.pool[idx].next = st.pool[idx].next
  /\ r.pool[idx].prev = st.pool[idx].prev
  /\ r.map = st.map
  /\ r.limit = st.limit
  /\ r.head = st.head
  /\ r.tail = st.tail
  /\ r.size = st.size

\* Flags set, and the hand perhaps moved.
LEMMA FlagsSound ==
  ASSUME CacheAssumption, NEW st \in Sound, NEW idx \in DOMAIN st.pool, NEW f \in SUBSET Flag,
         "FINAL" \in f <=> "FINAL" \in st.pool[idx].flags,
         "ARCS" \in f <=> "ARCS" \in st.pool[idx].flags,
         ~ ("ARCS" \in f /\ "EXPANDING_ARCS" \in f), NEW h \in DOMAIN st.pool
  PROVE  /\ FlagsSet(st, WithNode(st, idx, Flagged(st.pool[idx], f)), idx, f)
         /\ FlagsSet(st, WithNodeAndHand(st, idx, Flagged(st.pool[idx], f), h), idx, f)
         /\ WithNodeAndHand(st, idx, Flagged(st.pool[idx], f), h).hand = h
<1> DEFINE n == Flagged(st.pool[idx], f)
<1>1. st \in Stores /\ st \in RecordStores /\ st.size \in Nat /\ h \in Link /\ st.hand \in DOMAIN st.pool
      /\ \A i \in DOMAIN st.pool : st.pool[i] \in Nodes
  BY StoresHoldRecords, StoreParts, LinkedParts DEF Sound, Link
<1>2. st.pool[idx] \in Records /\ n \in Nodes /\ n \in Records
      /\ n.flags = f /\ n.id = st.pool[idx].id /\ n.final = st.pool[idx].final
      /\ n.arcs = st.pool[idx].arcs /\ n.next = st.pool[idx].next /\ n.prev = st.pool[idx].prev
  <2>1. st.pool[idx] \in Records
    BY <1>1 DEF Nodes, Records
  <2> QED
    BY <1>1, <2>1, FlaggedParts, FlaggedNode
<1> HIDE DEF n
<1>3. ASSUME NEW r \in RecordStores, SameBut(st, r, idx, n), r.size = st.size,
             r.hand \in DOMAIN st.pool
      PROVE  FlagsSet(st, r, idx, f)
  <2>1. r \in Stores
    BY <1>1, <1>2, <1>3, StoresHoldRecords DEF SameBut
  <2>2. Estimate(r.pool[idx]) = Estimate(st.pool[idx])
    BY <1>2, <1>3 DEF Estimate, SameBut
  <2>3. Refilled(st, r, idx)
    BY <1>2, <1>3, <2>1, <2>2 DEF Refilled, SameBut
  <2>4. r \in Sound /\ Rank(r) = Rank(st)
    BY <2>3, RefilledSound
  <2> QED
    BY <1>2, <1>3, <2>4 DEF FlagsSet, SameBut
<1> QED
  BY <1>1, <1>2, <1>3, StoreWithNode, StoreWithNodeAndHand DEF n

\* What SetFlags does.
LEMMA SetFlagsIs ==
  ASSUME NEW st, NEW idx, NEW add, NEW drop
  PROVE  SetFlags(st, idx, add, drop) =
         WithNode(st, idx, Flagged(st.pool[idx], (st.pool[idx].flags \cup add) \ drop))
BY DEF SetFlags, WithNode, Flagged

WithArcs(n, arcs) == [n EXCEPT !.arcs = arcs]
WithFinal(n, final) == [n EXCEPT !.final = final]

\* A record with other arcs.
LEMMA WithArcsParts ==
  ASSUME NEW n \in Records, NEW arcs \in Seq(Id) \cup {NoArcs}
  PROVE  /\ WithArcs(n, arcs) \in Records
         /\ WithArcs(n, arcs).arcs = arcs
         /\ WithArcs(n, arcs).final = n.final
         /\ WithArcs(n, arcs).id = n.id
         /\ WithArcs(n, arcs).flags = n.flags
         /\ WithArcs(n, arcs).next = n.next
         /\ WithArcs(n, arcs).prev = n.prev
BY DEF WithArcs, Records

\* A record with another final weight.
LEMMA WithFinalParts ==
  ASSUME NEW n \in Records, NEW final \in BOOLEAN
  PROVE  /\ WithFinal(n, final) \in Records
         /\ WithFinal(n, final).final = final
         /\ WithFinal(n, final).arcs = n.arcs
         /\ WithFinal(n, final).id = n.id
         /\ WithFinal(n, final).flags = n.flags
         /\ WithFinal(n, final).next = n.next
         /\ WithFinal(n, final).prev = n.prev
BY DEF WithFinal, Records

\* The expander's arcs are not the mark of no arcs.
LEMMA TargetsAreArcs ==
  ASSUME CacheAssumption, NEW id \in Id
  PROVE  Targets[id] \in Seq(Id) /\ Targets[id] # NoArcs
<1>1. Targets[id] \in Seq(Id)
  BY DEF CacheAssumption
<1>2. Targets[id] # NoArcs
  <2> SUFFICES ASSUME Targets[id] = <<None>> PROVE FALSE
    BY DEF NoArcs
  <2>1. Targets[id][1] \in Id
    BY <1>1
  <2>2. Targets[id][1] = None
    OBVIOUS
  <2> QED
    BY <2>1, <2>2 DEF Id, None
<1> QED
  BY <1>1, <1>2

\* r is st after an expansion of kind at idx has returned.
Answered(st, r, idx, kind) ==
  /\ r \in Sound
  /\ DOMAIN r.pool = DOMAIN st.pool
  /\ \A i \in DOMAIN st.pool \ {idx} : r.pool[i] = st.pool[i]
  /\ r.pool[idx].flags =
       (st.pool[idx].flags \cup {DoneFlag(kind), "VISITED"}) \ {GuardFlag(kind)}
  /\ r.pool[idx].id = st.pool[idx].id
  /\ r.pool[idx].arcs = IF kind = "arcs" THEN Targets[st.pool[idx].id] ELSE st.pool[idx].arcs
  /\ r.map = st.map
  /\ r.limit = st.limit
  /\ kind = "final" => r.size = st.size

\* expand_arcs returned: Fill stores its arcs and counts their bytes, which the
\* estimate did not hold before.
LEMMA FillSound ==
  ASSUME CacheAssumption, NEW st \in Sound, NEW idx \in DOMAIN st.pool,
         "EXPANDING_ARCS" \in st.pool[idx].flags
  PROVE  Answered(st, Fill(st, idx, Targets[st.pool[idx].id]), idx, "arcs")
<1> DEFINE old == st.pool[idx]
           arcs == Targets[old.id]
           f == (old.flags \cup {"ARCS", "VISITED"}) \ {"EXPANDING_ARCS"}
           mid == Flagged(old, f)
           n == WithArcs(mid, arcs)
           one == WithNode(st, idx, mid)
           size == st.size + ArcSize * Len(arcs)
           r == Fill(st, idx, arcs)
<1>1. /\ st \in Stores /\ st \in RecordStores /\ st.size \in Nat
      /\ st.hand \in DOMAIN st.pool
      /\ \A i \in DOMAIN st.pool : st.pool[i] \in Nodes
  BY StoresHoldRecords, StoreParts, LinkedParts DEF Sound
<1>2. /\ old \in Nodes /\ old \in Records /\ old.id \in Id /\ "ARCS" \notin old.flags
      /\ old.arcs = NoArcs /\ old.flags \in SUBSET Flag
      /\ "FINAL" \in old.flags => old.final = IsFinal[old.id]
  <2>1. old \in Nodes
    BY <1>1
  <2>2. old \in Records
    BY <2>1 DEF Nodes, Records
  <2> QED
    BY <2>1, <2>2, NodeParts
<1>3. arcs \in Seq(Id) /\ arcs # NoArcs /\ Len(arcs) \in Nat
  BY <1>2, TargetsAreArcs
<1>4. f \in SUBSET Flag /\ "ARCS" \in f /\ "EXPANDING_ARCS" \notin f
      /\ ("FINAL" \in f <=> "FINAL" \in old.flags)
  BY <1>2 DEF Flag
<1>5. /\ mid \in Records /\ mid.flags = f /\ mid.id = old.id /\ mid.final = old.final
      /\ mid.next = old.next /\ mid.prev = old.prev
  <2> HIDE DEF f
  <2> QED
    BY <1>2, <1>4, FlaggedParts
<1>6. /\ n \in Records /\ n.flags = f /\ n.id = old.id /\ n.final = old.final
      /\ n.arcs = arcs /\ n.next = old.next /\ n.prev = old.prev
  <2> HIDE DEF mid, f
  <2> QED
    BY <1>3, <1>5, WithArcsParts
<1>7. one \in RecordStores /\ SameBut(st, one, idx, mid) /\ one.size = st.size
      /\ one.hand = st.hand
  <2> HIDE DEF mid
  <2> QED
    BY <1>1, <1>5, StoreWithNode
<1>8. r = WithNodeAndSize(one, idx, n, size)
  <2>1. SetFlags(st, idx, {"ARCS", "VISITED"}, {"EXPANDING_ARCS"}) = one
    BY SetFlagsIs
  <2>2. one.pool[idx] = mid /\ one.size = st.size
    BY <1>7 DEF SameBut
  <2> HIDE DEF mid, one
  <2> QED
    BY <2>1, <2>2 DEF Fill, WithNodeAndSize, WithArcs
<1>9. size \in Nat /\ StateSize \in Nat /\ ArcSize * Len(arcs) \in Nat
  <2>1. StateSize \in Nat /\ ArcSize \in Nat
    BY DEF CacheAssumption
  <2> HIDE DEF arcs
  <2>2. ArcSize * Len(arcs) \in Nat
    BY <1>3, <2>1
  <2> QED
    BY <1>1, <2>1, <2>2
<1> HIDE DEF one, n, mid
<1>10. r \in RecordStores /\ SameBut(one, r, idx, n) /\ r.size = size /\ r.hand = st.hand
  <2>1. idx \in DOMAIN one.pool
    BY <1>7 DEF SameBut
  <2> HIDE DEF r, size
  <2> QED
    BY <1>6, <1>7, <1>8, <1>9, <2>1, StoreWithNodeAndSize
<1> HIDE DEF r
<1>11. SameBut(st, r, idx, n)
  BY <1>7, <1>10 DEF SameBut
<1>12. n \in Nodes
  BY <1>2, <1>4, <1>6 DEF Nodes, Records
<1>13. r \in Stores
  BY <1>1, <1>10, <1>11, <1>12, StoresHoldRecords DEF SameBut
<1>14. r.size - Estimate(r.pool[idx]) = st.size - Estimate(old)
  <2>1. Estimate(old) = StateSize
    BY <1>2, EstimateType DEF CacheAssumption
  <2>2. r.pool[idx] = n /\ Estimate(n) = StateSize + ArcSize * Len(arcs)
    BY <1>3, <1>6, <1>11, <1>12, EstimateType DEF SameBut
  <2> HIDE DEF arcs
  <2> QED
    BY <1>1, <1>9, <1>10, <2>1, <2>2
<1>15. Refilled(st, r, idx)
  BY <1>1, <1>6, <1>10, <1>11, <1>13, <1>14 DEF Refilled, SameBut
<1>16. r \in Sound
  BY <1>15, RefilledSound
<1> QED
  BY <1>6, <1>11, <1>16 DEF Answered, SameBut, DoneFlag, GuardFlag, r

\* expand_final returned.
LEMMA FinalSound ==
  ASSUME CacheAssumption, NEW st \in Sound, NEW idx \in DOMAIN st.pool
  PROVE  Answered(st, [SetFlags(st, idx, {"FINAL", "VISITED"}, {"EXPANDING_FINAL"})
                         EXCEPT !.pool[idx].final = IsFinal[st.pool[idx].id]], idx, "final")
<1> DEFINE old == st.pool[idx]
           final == IsFinal[old.id]
           f == (old.flags \cup {"FINAL", "VISITED"}) \ {"EXPANDING_FINAL"}
           mid == Flagged(old, f)
           n == WithFinal(mid, final)
           one == WithNode(st, idx, mid)
           r == [SetFlags(st, idx, {"FINAL", "VISITED"}, {"EXPANDING_FINAL"})
                   EXCEPT !.pool[idx].final = final]
<1>1. /\ st \in Stores /\ st \in RecordStores /\ st.size \in Nat
      /\ st.hand \in DOMAIN st.pool
      /\ \A i \in DOMAIN st.pool : st.pool[i] \in Nodes
  BY StoresHoldRecords, StoreParts, LinkedParts DEF Sound
<1>2. /\ old \in Nodes /\ old \in Records /\ old.id \in Id /\ old.flags \in SUBSET Flag
      /\ old.arcs = IF "ARCS" \in old.flags THEN Targets[old.id] ELSE NoArcs
      /\ ~ ("ARCS" \in old.flags /\ "EXPANDING_ARCS" \in old.flags)
  <2>1. old \in Nodes
    BY <1>1
  <2>2. old \in Records
    BY <2>1 DEF Nodes, Records
  <2> QED
    BY <2>1, <2>2, NodeParts
<1>3. final \in BOOLEAN
  BY <1>2 DEF CacheAssumption
<1>4. f \in SUBSET Flag /\ "FINAL" \in f
      /\ ("ARCS" \in f <=> "ARCS" \in old.flags)
      /\ ("EXPANDING_ARCS" \in f <=> "EXPANDING_ARCS" \in old.flags)
  BY <1>2 DEF Flag
<1>5. /\ mid \in Records /\ mid.flags = f /\ mid.id = old.id /\ mid.arcs = old.arcs
      /\ mid.next = old.next /\ mid.prev = old.prev
  <2> HIDE DEF f
  <2> QED
    BY <1>2, <1>4, FlaggedParts
<1>6. /\ n \in Records /\ n.flags = f /\ n.id = old.id /\ n.final = final
      /\ n.arcs = old.arcs /\ n.next = old.next /\ n.prev = old.prev
  <2> HIDE DEF mid, f, final
  <2> QED
    BY <1>3, <1>5, WithFinalParts
<1>7. one \in RecordStores /\ SameBut(st, one, idx, mid) /\ one.size = st.size
      /\ one.hand = st.hand
  <2> HIDE DEF mid
  <2> QED
    BY <1>1, <1>5, StoreWithNode
<1>8. r = WithNode(one, idx, n)
  <2>1. SetFlags(st, idx, {"FINAL", "VISITED"}, {"EXPANDING_FINAL"}) = one
    BY SetFlagsIs
  <2>2. one.pool[idx] = mid
    BY <1>7 DEF SameBut
  <2> HIDE DEF mid, one
  <2> QED
    BY <2>1, <2>2 DEF WithNode, WithFinal
<1> HIDE DEF one, n, mid
<1>9. r \in RecordStores /\ SameBut(one, r, idx, n) /\ r.size = st.size /\ r.hand = st.hand
  <2>1. idx \in DOMAIN one.pool
    BY <1>7 DEF SameBut
  <2> HIDE DEF r
  <2> QED
    BY <1>6, <1>7, <1>8, <2>1, StoreWithNode
<1> HIDE DEF r
<1>10. SameBut(st, r, idx, n)
  BY <1>7, <1>9 DEF SameBut
<1>11. n \in Nodes
  BY <1>2, <1>4, <1>6 DEF Nodes, Records
<1>12. r \in Stores
  BY <1>1, <1>9, <1>10, <1>11, StoresHoldRecords DEF SameBut
<1>13. Estimate(r.pool[idx]) = Estimate(old)
  BY <1>6, <1>10 DEF Estimate, SameBut
<1>14. Refilled(st, r, idx)
  BY <1>1, <1>6, <1>9, <1>10, <1>12, <1>13 DEF Refilled, SameBut
<1>15. r \in Sound
  BY <1>14, RefilledSound
<1> QED
  BY <1>6, <1>9, <1>10, <1>15 DEF Answered, SameBut, DoneFlag, GuardFlag, r

-----------------------------------------------------------------------------
(***************************************************************************)
(* One turn of a sweep                                                     *)
(***************************************************************************)

\* What a sweep of st may leave.
Survives(st, r, protect) ==
  /\ r \in Sound
  /\ DOMAIN r.pool \subseteq DOMAIN st.pool
  /\ \A i \in DOMAIN r.pool :
       /\ r.pool[i].id = st.pool[i].id
       /\ r.pool[i].arcs = st.pool[i].arcs
       /\ \A f \in Flag \ {"VISITED"} : f \in r.pool[i].flags <=> f \in st.pool[i].flags
  /\ \A i \in DOMAIN st.pool : Protected(i, st, protect) => i \in DOMAIN r.pool
  /\ r.limit = st.limit
  /\ r.size <= st.size

\* The turns a sweep of st may come to.
Turns(st, protect) ==
  {t \in [st : Sound, at : Link] :
     /\ Survives(st, t.st, protect)
     /\ DOMAIN t.st.pool # {} => t.at \in DOMAIN t.st.pool}

\* Nothing has survived a sweep that has not begun, but everything.
LEMMA SurvivesItself ==
  ASSUME NEW st \in Sound, NEW protect
  PROVE  Survives(st, st, protect)
<1>1. st.size \in Nat
  BY StoreParts DEF Sound
<1> QED
  BY <1>1 DEF Survives

\* A survivor is as protected as it was.
LEMMA StaysProtected ==
  ASSUME NEW st, NEW r, NEW protect, Survives(st, r, protect), NEW i \in DOMAIN r.pool
  PROVE  Protected(i, r, protect) <=> Protected(i, st, protect)
<1>1. r.pool[i].flags \cap Expanding # {} <=> st.pool[i].flags \cap Expanding # {}
  BY DEF Survives, Expanding, Flag
<1>2. Pinned(i, r) <=> Pinned(i, st)
  BY DEF Survives, Pinned
<1> QED
  BY <1>1, <1>2 DEF Protected

\* What survives a sweep of what survived one survives both.
LEMMA SurvivesOn ==
  ASSUME NEW st \in Sound, NEW r \in Sound, NEW q, NEW protect, Survives(st, r, protect),
         Survives(r, q, protect)
  PROVE  Survives(st, q, protect)
<1>1. \A i \in DOMAIN r.pool : Protected(i, r, protect) <=> Protected(i, st, protect)
  BY StaysProtected
<1>2. st.size \in Nat /\ r.size \in Nat /\ q.size \in Nat
  BY StoreParts DEF Sound, Survives
<1>3. q.size <= st.size
  BY <1>2 DEF Survives
<1> QED
  BY <1>1, <1>3 DEF Survives

\* An empty store has no bytes.
LEMMA EmptyPool ==
  ASSUME CacheAssumption, NEW st \in Sound, DOMAIN st.pool = {}
  PROVE  st.size = 0
<1>1. Weights(st) = [i \in Slot |-> 0]
  BY DEF Weights, Weight
<1> QED
  BY <1>1, TotalOfZeros DEF Sound, CacheAssumption

Onward(st, at) == Or(st.pool[at].prev, st.tail)

\* The sweep goes on to another node, while there is one.
LEMMA OnwardIsANode ==
  ASSUME NEW st \in Sound, NEW at \in DOMAIN st.pool
  PROVE  /\ Onward(st, at) \in DOMAIN st.pool
         /\ DOMAIN st.pool \ {at} # {} => Onward(st, at) \in DOMAIN st.pool \ {at}
<1>1. st \in Stores /\ Linked(st) /\ Rank(st) # {}
  BY DEF Sound
<1>2. Onward(st, at) \in DOMAIN st.pool
  BY <1>1, LinkedParts DEF Onward, Or
<1>3. ASSUME Onward(st, at) = at PROVE DOMAIN st.pool = {at}
  <2>1. CASE st.pool[at].prev # None
    <3>1. st.pool[at].prev = at /\ st.pool[at].next = at
      BY <1>1, <1>3, <2>1, LinkedParts DEF Onward, Or
    <3>2. PICK rank \in Rank(st) : TRUE
      BY <1>1
    <3>3. rank \in [DOMAIN st.pool -> Nat] /\ rank[at] < rank[at]
      BY <1>1, <3>1, <3>2, LinkedParts DEF Rank
    <3>4. rank[at] \in Nat
      BY <3>3
    <3> QED
      BY <3>3, <3>4
  <2>2. CASE st.pool[at].prev = None
    <3>1. st.pool[at].next = None
      BY <1>1, <1>3, <2>2, LinkedParts DEF Onward, Or
    <3> QED
      BY <1>1, <2>2, <3>1, OneNode
  <2> QED
    BY <2>1, <2>2
<1> QED
  BY <1>2, <1>3

\* The four things a turn can do.
Stopped(t, target) == t.st.size <= target \/ t.at = None
Cleared(st, at) ==
  WithNodeAndHand(st, at, Flagged(st.pool[at], st.pool[at].flags \ {"VISITED"}), Onward(st, at))
Evicted(st, at) == [RemoveNode(st, at) EXCEPT !.hand = Onward(st, at)]

\* A turn that finds the work done does nothing.
LEMMA SweepStops ==
  ASSUME NEW t, NEW takeVisited, NEW target, NEW protect, Stopped(t, target)
  PROVE  Sweep(t, takeVisited, target, protect) = t
BY DEF Sweep, Stopped

\* What other turns do.
LEMMA SweepCases ==
  ASSUME NEW st, NEW at, NEW takeVisited, NEW target, NEW protect
  PROVE  LET t == [st |-> st, at |-> at]
             s == Sweep(t, takeVisited, target, protect)
         IN  /\ Stopped(t, target) => s = t
             /\ ~ Stopped(t, target) =>
                  \/ /\ Protected(at, st, protect)
                     /\ s = [st |-> st, at |-> Onward(st, at)]
                  \/ /\ ~ Protected(at, st, protect)
                     /\ ~ takeVisited
                     /\ s = [st |-> Cleared(st, at), at |-> Onward(st, at)]
                  \/ /\ ~ Protected(at, st, protect)
                     /\ s = [st |-> Evicted(st, at), at |-> Onward(st, at)]
BY DEF Sweep, Stopped, Cleared, Evicted, Onward, WithNodeAndHand, Flagged

LEMMA SecondSweepCases ==
  ASSUME NEW st, NEW at, NEW target, NEW protect, ~ Stopped([st |-> st, at |-> at], target)
  PROVE  \/ /\ Protected(at, st, protect)
            /\ Sweep([st |-> st, at |-> at], TRUE, target, protect) =
                 [st |-> st, at |-> Onward(st, at)]
         \/ /\ ~ Protected(at, st, protect)
            /\ Sweep([st |-> st, at |-> at], TRUE, target, protect) =
                 [st |-> Evicted(st, at), at |-> Onward(st, at)]
BY DEF Sweep, Stopped, Evicted, Onward

\* A turn that clears a mark leaves a sound store.
LEMMA ClearedSurvives ==
  ASSUME CacheAssumption, NEW st \in Sound, NEW at \in DOMAIN st.pool, NEW protect
  PROVE  /\ Survives(st, Cleared(st, at), protect)
         /\ DOMAIN Cleared(st, at).pool = DOMAIN st.pool
<1> DEFINE f == st.pool[at].flags \ {"VISITED"}
           r == Cleared(st, at)
<1>1. st \in Stores /\ Onward(st, at) \in DOMAIN st.pool /\ st.pool[at] \in Nodes /\ st.size \in Nat
  BY OnwardIsANode, StoreParts DEF Sound
<1>2. /\ f \in SUBSET Flag
      /\ "FINAL" \in f <=> "FINAL" \in st.pool[at].flags
      /\ "ARCS" \in f <=> "ARCS" \in st.pool[at].flags
      /\ ~ ("ARCS" \in f /\ "EXPANDING_ARCS" \in f)
  BY <1>1, NodeParts
<1>3. FlagsSet(st, r, at, f)
  <2> HIDE DEF f
  <2>1. FlagsSet(st, WithNodeAndHand(st, at, Flagged(st.pool[at], f), Onward(st, at)), at, f)
    BY <1>1, <1>2, FlagsSound
  <2> QED
    BY <2>1 DEF Cleared, f
<1> QED
  BY <1>1, <1>3 DEF FlagsSet, Survives

\* A turn that evicts leaves a sound store.
LEMMA EvictedSurvives ==
  ASSUME CacheAssumption, NEW st \in Sound, NEW at \in DOMAIN st.pool, NEW protect,
         ~ Protected(at, st, protect)
  PROVE  /\ Survives(st, Evicted(st, at), protect)
         /\ DOMAIN Evicted(st, at).pool = DOMAIN st.pool \ {at}
         /\ \A rank \in Rank(st) :
              [i \in DOMAIN st.pool \ {at} |-> rank[i]] \in Rank(Evicted(st, at))
<1> DEFINE r == RemoveNode(st, at)
           q == Evicted(st, at)
<1>1. st \in Stores /\ Linked(st) /\ st.pool[at] \in Nodes /\ Onward(st, at) \in Link
  BY OnwardIsANode, StoreParts DEF Sound, Link
<1>2. /\ r \in Stores
      /\ DOMAIN r.pool = DOMAIN st.pool \ {at}
      /\ \A i \in DOMAIN st.pool \ {at} :
           r.pool[i].id = st.pool[i].id /\ r.pool[i].flags = st.pool[i].flags
           /\ r.pool[i].arcs = st.pool[i].arcs
      /\ r.limit = st.limit
  BY <1>1, RemoveParts
<1>3. /\ q \in Sound
      /\ st.size = r.size + Estimate(st.pool[at])
      /\ \A rank \in Rank(st) : [i \in DOMAIN st.pool \ {at} |-> rank[i]] \in Rank(q)
  BY <1>1, OnwardIsANode, RemoveSound DEF Evicted
<1>4. q.pool = r.pool /\ q.limit = r.limit /\ q.size = r.size
  BY <1>1, <1>2, HandMoved DEF Evicted
<1>5. r.size \in Nat /\ Estimate(st.pool[at]) \in Nat /\ r.size <= st.size
  <2>1. r.size \in Nat /\ Estimate(st.pool[at]) \in Nat
    BY <1>1, <1>2, EstimateType, StoreParts
  <2> HIDE DEF r
  <2> QED
    BY <1>3, <2>1
<1> HIDE DEF r, q
<1>6. Survives(st, q, protect)
  BY <1>2, <1>3, <1>4, <1>5 DEF Survives
<1> QED
  BY <1>2, <1>3, <1>4, <1>6 DEF q

\* Every turn comes to a turn.
LEMMA TurnStep ==
  ASSUME CacheAssumption, NEW st \in Sound, NEW protect, NEW t \in Turns(st, protect),
         NEW takeVisited, NEW target \in Nat
  PROVE  Sweep(t, takeVisited, target, protect) \in Turns(st, protect)
<1> DEFINE s == Sweep(t, takeVisited, target, protect)
           r == t.st
           at == t.at
<1>1. r \in Sound /\ at \in Link /\ t = [st |-> r, at |-> at] /\ Survives(st, r, protect)
      /\ (DOMAIN r.pool # {} => at \in DOMAIN r.pool)
  BY DEF Turns
<1> HIDE DEF r, at
<1>2. CASE Stopped(t, target)
  <2>1. Stopped([st |-> r, at |-> at], target)
    BY <1>1, <1>2
  <2>2. s = Sweep([st |-> r, at |-> at], takeVisited, target, protect)
    BY <1>1
  <2>3. s = [st |-> r, at |-> at]
    BY <2>1, <2>2, SweepStops
  <2> QED
    BY <1>1, <2>3
<1>3. CASE ~ Stopped(t, target)
  <2>1. ~ (r.size <= target)
    BY <1>3 DEF Stopped, r
  <2>2. at \in DOMAIN r.pool
    BY <1>1, <2>1, EmptyPool
  <2>3. Onward(r, at) \in Link /\ Onward(r, at) \in DOMAIN r.pool
        /\ (DOMAIN r.pool \ {at} # {} => Onward(r, at) \in DOMAIN r.pool \ {at})
    <3>1. DOMAIN r.pool \subseteq Slot
      BY <1>1, StoreParts DEF Sound
    <3> QED
      BY <1>1, <2>2, <3>1, OnwardIsANode DEF Link
  <2>4. ASSUME NEW q \in Sound, Survives(r, q, protect),
               DOMAIN q.pool = DOMAIN r.pool \/ DOMAIN q.pool = DOMAIN r.pool \ {at}
        PROVE  [st |-> q, at |-> Onward(r, at)] \in Turns(st, protect)
    <3>1. Survives(st, q, protect)
      BY <1>1, <2>4, SurvivesOn
    <3> QED
      BY <2>3, <2>4, <3>1 DEF Turns
  <2>5. Survives(r, r, protect)
    BY <1>1, SurvivesItself
  <2>6. Cleared(r, at) \in Sound /\ Survives(r, Cleared(r, at), protect)
        /\ DOMAIN Cleared(r, at).pool = DOMAIN r.pool
    BY <1>1, <2>2, ClearedSurvives DEF Survives
  <2>7. ~ Protected(at, r, protect) =>
          /\ Evicted(r, at) \in Sound /\ Survives(r, Evicted(r, at), protect)
          /\ DOMAIN Evicted(r, at).pool = DOMAIN r.pool \ {at}
    BY <1>1, <2>2, EvictedSurvives DEF Survives
  <2>8. \/ s = [st |-> r, at |-> Onward(r, at)]
        \/ s = [st |-> Cleared(r, at), at |-> Onward(r, at)]
        \/ ~ Protected(at, r, protect) /\ s = [st |-> Evicted(r, at), at |-> Onward(r, at)]
    <3>1. ~ Stopped([st |-> r, at |-> at], target)
      BY <1>1, <1>3
    <3>2. s = Sweep([st |-> r, at |-> at], takeVisited, target, protect)
      BY <1>1
    <3> QED
      BY <3>1, <3>2, SweepCases
  <2> QED
    BY <1>1, <2>4, <2>5, <2>6, <2>7, <2>8
<1> QED
  BY <1>2, <1>3

-----------------------------------------------------------------------------
(***************************************************************************)
(* A whole sweep                                                           *)
(***************************************************************************)

\* What holds of the first turn and passes from turn to turn holds of the last.
LEMMA SweepRule ==
  ASSUME NEW st, NEW n \in Nat, NEW takeVisited, NEW target, NEW protect, NEW Q,
         [st |-> st, at |-> Or(st.hand, st.tail)] \in Q[0],
         \A k \in 0 .. n - 1 : \A t \in Q[k] :
           Sweep(t, takeVisited, target, protect) \in Q[k + 1]
  PROVE  \E t \in Q[n] : SweepTurns(st, n, takeVisited, target, protect) = t.st
<1> DEFINE first == [st |-> st, at |-> Or(st.hand, st.tail)]
           Taken(m, u) == u = [k \in 0 .. m |->
                                IF k = 0 THEN first
                                ELSE Sweep(u[k - 1], takeVisited, target, protect)]
           S == {m \in Nat : \E u : Taken(m, u)}
<1>1. SweepTurns(st, n, takeVisited, target, protect) = (CHOOSE turns : Taken(n, turns))[n].st
  BY DEF SweepTurns
<1> HIDE DEF first
<1>2. 0 \in S
  <2>1. Taken(0, [k \in 0 .. 0 |-> first])
    OBVIOUS
  <2> QED
    BY <2>1
<1>3. ASSUME NEW m \in Nat, m \in S PROVE m + 1 \in S
  <2>1. PICK u : Taken(m, u)
    BY <1>3
  <2> DEFINE v == [k \in 0 .. m + 1 |->
                    IF k <= m THEN u[k] ELSE Sweep(u[m], takeVisited, target, protect)]
  <2>2. Taken(m + 1, v)
    <3>1. ASSUME NEW k \in 0 .. m + 1
          PROVE v[k] = IF k = 0 THEN first ELSE Sweep(v[k - 1], takeVisited, target, protect)
      BY <2>1
    <3> QED
      BY <3>1
  <2> HIDE DEF v
  <2> QED
    BY <2>2
<1>4. PICK u : Taken(n, u)
  BY <1>2, <1>3, SetInduction
<1> DEFINE t == CHOOSE turns : Taken(n, turns)
<1>5. Taken(n, t)
  BY <1>4
<1> HIDE DEF t
<1>6. t[0] = first /\ \A k \in 0 .. n - 1 : t[k + 1] = Sweep(t[k], takeVisited, target, protect)
  BY <1>5
<1> DEFINE T == {m \in Nat : m <= n => t[m] \in Q[m]}
<1>7. 0 \in T
  BY <1>6 DEF first
<1>8. ASSUME NEW m \in Nat, m \in T PROVE m + 1 \in T
  <2> SUFFICES ASSUME m + 1 <= n PROVE t[m + 1] \in Q[m + 1]
    OBVIOUS
  <2>1. m \in 0 .. n - 1 /\ t[m] \in Q[m]
    BY <1>8
  <2> QED
    BY <2>1, <1>6
<1>9. n \in T
  <2> HIDE DEF T
  <2> QED
    BY <1>7, <1>8, SetInduction
<1>10. t[n] \in Q[n]
  BY <1>9
<1>11. SweepTurns(st, n, takeVisited, target, protect) = t[n].st
  BY <1>1 DEF t
<1> QED
  BY <1>10, <1>11

\* A sweep leaves a sound store, what may not be evicted, and no more bytes.
LEMMA SweepSurvives ==
  ASSUME CacheAssumption, NEW st \in Sound, NEW n \in Nat, NEW takeVisited,
         NEW target \in Nat, NEW protect
  PROVE  Survives(st, SweepTurns(st, n, takeVisited, target, protect), protect)
<1> DEFINE Q == [k \in 0 .. n |-> Turns(st, protect)]
           first == [st |-> st, at |-> Or(st.hand, st.tail)]
<1>1. first \in Turns(st, protect)
  <2>1. st \in Stores /\ Linked(st)
    BY DEF Sound
  <2>2. Or(st.hand, st.tail) \in Link
    BY <2>1, StoreParts DEF Or
  <2>3. DOMAIN st.pool # {} => Or(st.hand, st.tail) \in DOMAIN st.pool
    <3>1. DOMAIN st.pool \subseteq Slot
      BY <2>1, StoreParts
    <3> QED
      BY <2>1, <3>1 DEF Linked, Or, None, Slot
  <2> QED
    BY <2>2, <2>3, SurvivesItself DEF Turns
<1>2. \A k \in 0 .. n - 1 : \A t \in Q[k] :
        Sweep(t, takeVisited, target, protect) \in Q[k + 1]
  BY TurnStep
<1>3. 0 \in 0 .. n /\ n \in 0 .. n
  OBVIOUS
<1>4. first \in Q[0] /\ Q[n] = Turns(st, protect)
  BY <1>1, <1>3
<1> HIDE DEF Q
<1>5. \E t \in Q[n] : SweepTurns(st, n, takeVisited, target, protect) = t.st
  BY <1>2, <1>4, SweepRule
<1> QED
  BY <1>4, <1>5 DEF Turns

-----------------------------------------------------------------------------
(***************************************************************************)
(* The second sweep comes round                                            *)
(***************************************************************************)

\* The nodes from at onward to the end of a sweep that began at rank b.
Left(st, rank, b, at) ==
  {i \in DOMAIN st.pool :
     IF rank[at] <= b THEN rank[i] <= rank[at] \/ b < rank[i]
     ELSE b < rank[i] /\ rank[i] <= rank[at]}

\* Going on leaves a node behind, unless it was the last.
LEMMA OnwardLeaves ==
  ASSUME NEW st \in Sound, NEW rank \in Rank(st), NEW b \in Nat, NEW at \in DOMAIN st.pool
  PROVE  \/ Left(st, rank, b, at) \subseteq {at}
         \/ Left(st, rank, b, Onward(st, at)) = Left(st, rank, b, at) \ {at}
<1>1. st \in Stores /\ Linked(st) /\ Rank(st) # {} /\ rank \in [DOMAIN st.pool -> Nat]
  BY DEF Sound, Rank
<1>2. Onward(st, at) \in DOMAIN st.pool
  BY OnwardIsANode
<1>3. \A i, j \in DOMAIN st.pool :
        /\ rank[i] = rank[j] => i = j
        /\ rank[i] < rank[j] => st.pool[i].next # None /\ rank[st.pool[i].next] <= rank[j]
  BY DEF Rank
<1>4. \A i \in DOMAIN st.pool : rank[i] \in Nat
  BY <1>1
<1>5. CASE st.pool[at].prev # None
  <2> DEFINE p == st.pool[at].prev
  <2>1. Onward(st, at) = p /\ p \in DOMAIN st.pool /\ st.pool[p].next = at /\ at # None
    BY <1>1, <1>2, <1>5, LinkedParts DEF Onward, Or
  <2>2. rank[p] < rank[at]
    BY <2>1 DEF Rank
  <2>3. \A i \in DOMAIN st.pool : rank[i] < rank[at] => rank[i] <= rank[p]
    BY <1>3, <1>4, <2>1
  <2> HIDE DEF p
  <2> QED
    BY <1>4, <1>3, <2>1, <2>2, <2>3 DEF Left
<1>6. CASE st.pool[at].prev = None
  <2> DEFINE q == st.tail
  <2>1. Onward(st, at) = q /\ q \in DOMAIN st.pool /\ st.pool[q].next = None /\ at = st.head
    BY <1>1, <1>2, <1>6, LinkedParts DEF Onward, Or
  <2>2. \A i \in DOMAIN st.pool : rank[at] <= rank[i]
    BY <1>1, <2>1, HeadIsFirst
  <2>3. \A i \in DOMAIN st.pool : rank[i] <= rank[q]
    BY <1>3, <1>4, <2>1
  <2> HIDE DEF q
  <2> QED
    BY <1>4, <1>3, <2>1, <2>2, <2>3 DEF Left
<1> QED
  BY <1>5, <1>6

\* The pool is finite.
LEMMA PoolIsFinite ==
  ASSUME CacheAssumption, NEW st \in Stores, NEW T \in SUBSET DOMAIN st.pool
  PROVE  IsFiniteSet(T) /\ Cardinality(T) \in Nat
<1>1. NumStates - 1 \in Int /\ DOMAIN st.pool \subseteq 0 .. NumStates - 1
  BY StoreParts DEF CacheAssumption, Slot
<1>2. IsFiniteSet(0 .. NumStates - 1)
  BY <1>1, FS_Interval
<1>3. IsFiniteSet(T)
  BY <1>1, <1>2, FS_Subset
<1> QED
  BY <1>3, FS_CardinalityType

AllProtected(st, protect) == \A i \in DOMAIN st.pool : Protected(i, st, protect)

\* The turns the second sweep may come to with m turns left: it is done, or every
\* node but the m that are left is protected.
SecondTurns(st, protect, target, b, m) ==
  {t \in Turns(st, protect) :
     \/ t.st.size <= target
     \/ AllProtected(t.st, protect)
     \/ /\ t.at \in DOMAIN t.st.pool
        /\ \E rank \in Rank(t.st) :
             /\ Cardinality(Left(t.st, rank, b, t.at)) <= m
             /\ \A i \in DOMAIN t.st.pool \ Left(t.st, rank, b, t.at) :
                  Protected(i, t.st, protect)}

\* Every turn leaves one node less.
LEMMA SecondStep ==
  ASSUME CacheAssumption, NEW st \in Sound, NEW protect, NEW target \in Nat, NEW b \in Nat,
         NEW m \in Int, NEW t \in SecondTurns(st, protect, target, b, m)
  PROVE  Sweep(t, TRUE, target, protect) \in SecondTurns(st, protect, target, b, m - 1)
<1> DEFINE s == Sweep(t, TRUE, target, protect)
           r == t.st
           at == t.at
<1>1. t \in Turns(st, protect) /\ r \in Sound /\ at \in Link /\ t = [st |-> r, at |-> at]
  BY DEF Turns, SecondTurns
<1>2. s \in Turns(st, protect)
  BY <1>1, TurnStep
<1>3. \/ r.size <= target
      \/ AllProtected(r, protect)
      \/ /\ at \in DOMAIN r.pool
         /\ \E rank \in Rank(r) :
              /\ Cardinality(Left(r, rank, b, at)) <= m
              /\ \A i \in DOMAIN r.pool \ Left(r, rank, b, at) : Protected(i, r, protect)
  BY DEF SecondTurns
<1>4. /\ Stopped([st |-> r, at |-> at], target) => s = t
      /\ ~ Stopped([st |-> r, at |-> at], target) =>
           \/ Protected(at, r, protect) /\ s = [st |-> r, at |-> Onward(r, at)]
           \/ ~ Protected(at, r, protect) /\ s = [st |-> Evicted(r, at), at |-> Onward(r, at)]
  <2>1. s = Sweep([st |-> r, at |-> at], TRUE, target, protect)
    BY <1>1
  <2>2. t = [st |-> r, at |-> at]
    BY <1>1
  <2>3. Stopped([st |-> r, at |-> at], target) => s = t
    BY <2>1, <2>2, SweepStops
  <2> HIDE DEF s, r, at
  <2>4. ~ Stopped([st |-> r, at |-> at], target) =>
           \/ Protected(at, r, protect) /\ s = [st |-> r, at |-> Onward(r, at)]
           \/ ~ Protected(at, r, protect) /\ s = [st |-> Evicted(r, at), at |-> Onward(r, at)]
    BY <2>1, SecondSweepCases
  <2> QED
    BY <2>3, <2>4
<1>5. DOMAIN r.pool # {} => at \in DOMAIN r.pool
  BY <1>1 DEF Turns
<1> HIDE DEF s, r, at
<1>6. ASSUME r.size <= target PROVE s \in SecondTurns(st, protect, target, b, m - 1)
  <2>1. s = t /\ s.st = r
    BY <1>1, <1>4, <1>6 DEF Stopped
  <2> QED
    BY <1>2, <1>6, <2>1 DEF SecondTurns
<1>7. ASSUME ~ (r.size <= target) PROVE s \in SecondTurns(st, protect, target, b, m - 1)
  <2>1. at \in DOMAIN r.pool /\ ~ Stopped([st |-> r, at |-> at], target)
    <3>1. at \in DOMAIN r.pool
      BY <1>1, <1>5, <1>7, EmptyPool
    <3>2. at # None
      BY <1>1, <3>1, LinkedParts DEF Sound
    <3> QED
      BY <1>7, <3>1, <3>2 DEF Stopped
  <2>2. CASE AllProtected(r, protect)
    <3>1. s = [st |-> r, at |-> Onward(r, at)]
      BY <1>4, <2>1, <2>2 DEF AllProtected
    <3> QED
      BY <1>2, <2>2, <3>1 DEF SecondTurns
  <2>3. ASSUME NEW rank \in Rank(r), Cardinality(Left(r, rank, b, at)) <= m,
               \A i \in DOMAIN r.pool \ Left(r, rank, b, at) : Protected(i, r, protect)
        PROVE  s \in SecondTurns(st, protect, target, b, m - 1)
    <3> DEFINE L == Left(r, rank, b, at)
               K == Left(r, rank, b, Onward(r, at))
    <3>1. L \subseteq DOMAIN r.pool /\ K \subseteq DOMAIN r.pool /\ at \in L
      <4>1. rank[at] \in Nat
        BY <2>1 DEF Rank
      <4> QED
        BY <2>1, <4>1 DEF Left
    <3>2. L \subseteq {at} \/ K = L \ {at}
      BY <1>1, <2>1, OnwardLeaves
    <3>3. Onward(r, at) \in DOMAIN r.pool
          /\ (DOMAIN r.pool \ {at} # {} => Onward(r, at) \in DOMAIN r.pool \ {at})
      BY <1>1, <2>1, OnwardIsANode
    <3>4. r \in Stores
      BY <1>1 DEF Sound
    <3> HIDE DEF L, K
    <3>5. Cardinality(L \ {at}) <= m - 1
      <4>1. IsFiniteSet(L) /\ Cardinality(L) \in Nat
        BY <3>1, <3>4, PoolIsFinite
      <4>2. Cardinality(L \ {at}) = Cardinality(L) - 1
        BY <3>1, <4>1, FS_RemoveElement
      <4>3. Cardinality(L) <= m
        BY <2>3 DEF L
      <4> QED
        BY <4>1, <4>2, <4>3
    <3>6. \A i \in DOMAIN r.pool \ L : Protected(i, r, protect)
      BY <2>3 DEF L
    <3>7. CASE Protected(at, r, protect)
      <4>1. s = [st |-> r, at |-> Onward(r, at)]
        BY <1>4, <2>1, <3>7
      <4>2. CASE L \subseteq {at}
        <5>1. AllProtected(r, protect)
          BY <3>6, <3>7, <4>2 DEF AllProtected
        <5> QED
          BY <1>2, <4>1, <5>1 DEF SecondTurns
      <4>3. CASE K = L \ {at}
        <5>1. /\ Cardinality(K) <= m - 1
              /\ \A i \in DOMAIN r.pool \ K : Protected(i, r, protect)
          BY <3>5, <3>6, <3>7, <4>3
        <5> QED
          BY <1>2, <2>3, <3>3, <4>1, <5>1 DEF SecondTurns, K
      <4> QED
        BY <3>2, <4>2, <4>3
    <3>8. CASE ~ Protected(at, r, protect)
      <4> DEFINE q == Evicted(r, at)
                 kept == [i \in DOMAIN r.pool \ {at} |-> rank[i]]
      <4>1. s = [st |-> q, at |-> Onward(r, at)]
        BY <1>4, <2>1, <3>8
      <4>2. /\ Survives(r, q, protect)
            /\ DOMAIN q.pool = DOMAIN r.pool \ {at}
            /\ kept \in Rank(q)
        BY <1>1, <2>1, <2>3, <3>8, EvictedSurvives
      <4>3. q \in Sound
        BY <4>2 DEF Survives
      <4>4. \A i \in DOMAIN q.pool : Protected(i, q, protect) <=> Protected(i, r, protect)
        BY <4>2, StaysProtected
      <4>5. DOMAIN q.pool # {} => Left(q, kept, b, Onward(r, at)) = K \ {at}
        <5>1. DOMAIN q.pool # {} => Onward(r, at) \in DOMAIN q.pool
          BY <3>3, <4>2
        <5> HIDE DEF q
        <5> QED
          BY <4>2, <5>1 DEF Left, K
      <4> HIDE DEF q, kept
      <4>6. CASE DOMAIN q.pool = {}
        <5>1. AllProtected(q, protect)
          BY <4>6 DEF AllProtected
        <5> QED
          BY <1>2, <4>1, <5>1 DEF SecondTurns
      <4>7. CASE L \subseteq {at}
        <5>1. AllProtected(q, protect)
          BY <3>6, <4>2, <4>4, <4>7 DEF AllProtected
        <5> QED
          BY <1>2, <4>1, <5>1 DEF SecondTurns
      <4>8. CASE K = L \ {at} /\ DOMAIN q.pool # {}
        <5>1. Left(q, kept, b, Onward(r, at)) = L \ {at}
          BY <4>5, <4>8
        <5>2. Onward(r, at) \in DOMAIN q.pool
          BY <3>3, <4>2, <4>8
        <5>3. \A i \in DOMAIN q.pool \ (L \ {at}) : Protected(i, q, protect)
          BY <3>6, <4>2, <4>4
        <5> QED
          BY <1>2, <3>5, <4>1, <4>2, <5>1, <5>2, <5>3 DEF SecondTurns
      <4> QED
        BY <3>2, <4>6, <4>7, <4>8
    <3> QED
      BY <3>7, <3>8
  <2> QED
    BY <1>3, <1>7, <2>2, <2>3
<1> QED
  BY <1>6, <1>7 DEF s

\* The second sweep comes down to the target, or to nodes that are all protected.
LEMMA SecondSweepIsThorough ==
  ASSUME CacheAssumption, NEW st \in Sound, NEW protect, NEW target \in Nat, NEW n \in Nat,
         Cardinality(DOMAIN st.pool) <= n
  PROVE  LET r == SweepTurns(st, n, TRUE, target, protect)
         IN  r.size <= target \/ AllProtected(r, protect)
<1> DEFINE r == SweepTurns(st, n, TRUE, target, protect)
           h == Or(st.hand, st.tail)
           first == [st |-> st, at |-> h]
<1>1. st \in Stores /\ Linked(st) /\ DOMAIN st.pool \subseteq Slot
  BY StoreParts DEF Sound
<1>2. PICK rank \in Rank(st) : TRUE
  BY DEF Sound
<1>3. CASE DOMAIN st.pool = {}
  <2>1. Survives(st, r, protect)
    BY SweepSurvives
  <2> QED
    BY <1>3, <2>1 DEF Survives, AllProtected
<1>4. CASE DOMAIN st.pool # {}
  <2>1. h \in DOMAIN st.pool /\ h \in Link /\ rank \in [DOMAIN st.pool -> Nat]
    BY <1>1, <1>2, <1>4 DEF Linked, Or, None, Slot, Link, Rank
  <2> HIDE DEF r, h
  <2> DEFINE b == rank[h]
             Q == [k \in 0 .. n |-> SecondTurns(st, protect, target, b, n - k)]
  <2>2. b \in Nat
    BY <2>1
  <2>3. Left(st, rank, b, h) = DOMAIN st.pool
    BY <2>1 DEF Left
  <2>4. first \in Turns(st, protect)
    BY <2>1, SurvivesItself DEF Turns
  <2>5. first \in SecondTurns(st, protect, target, b, n)
    BY <1>2, <2>1, <2>3, <2>4 DEF SecondTurns
  <2> HIDE DEF b
  <2>6. \A k \in 0 .. n - 1 : \A t \in Q[k] : Sweep(t, TRUE, target, protect) \in Q[k + 1]
    <3>1. ASSUME NEW k \in 0 .. n - 1, NEW t \in SecondTurns(st, protect, target, b, n - k)
          PROVE  Sweep(t, TRUE, target, protect) \in SecondTurns(st, protect, target, b, n - (k + 1))
      <4>1. n - k \in Int /\ (n - k) - 1 = n - (k + 1)
        OBVIOUS
      <4> QED
        BY <2>2, <4>1, SecondStep
    <3>2. ASSUME NEW k \in 0 .. n - 1
          PROVE  Q[k] = SecondTurns(st, protect, target, b, n - k)
                 /\ Q[k + 1] = SecondTurns(st, protect, target, b, n - (k + 1))
      <4>1. k \in 0 .. n /\ k + 1 \in 0 .. n
        OBVIOUS
      <4> QED
        BY <4>1
    <3> HIDE DEF Q
    <3> QED
      BY <3>1, <3>2
  <2>7. first \in Q[0] /\ Q[n] = SecondTurns(st, protect, target, b, 0)
    BY <2>5
  <2> HIDE DEF Q
  <2>8. PICK t \in Q[n] : SweepTurns(st, n, TRUE, target, protect) = t.st
    <3>1. [st |-> st, at |-> Or(st.hand, st.tail)] \in Q[0]
      BY <2>7 DEF h
    <3>2. PICK all : all = TRUE
      OBVIOUS
    <3>3. \A k \in 0 .. n - 1 : \A t \in Q[k] : Sweep(t, all, target, protect) \in Q[k + 1]
      BY <2>6, <3>2, Zenon
    <3>4. \E t \in Q[n] : SweepTurns(st, n, all, target, protect) = t.st
      BY <3>1, <3>3, SweepRule
    <3> QED
      BY <3>2, <3>4, Zenon
  <2>9. t \in SecondTurns(st, protect, target, b, 0)
    BY <2>7
  <2>10. r = t.st /\ r \in Stores
    BY <2>8, <2>9 DEF SecondTurns, Turns, Sound, r
  <2>11. ASSUME t.at \in DOMAIN r.pool, NEW k \in Rank(r), Cardinality(Left(r, k, b, t.at)) <= 0
         PROVE  FALSE
    <3>1. Left(r, k, b, t.at) \in SUBSET DOMAIN r.pool
      BY DEF Left
    <3>2. IsFiniteSet(Left(r, k, b, t.at)) /\ Cardinality(Left(r, k, b, t.at)) \in Nat
      BY <2>10, <3>1, PoolIsFinite
    <3>3. Left(r, k, b, t.at) = {}
      BY <2>11, <3>2, FS_EmptySet
    <3>4. t.at \in Left(r, k, b, t.at)
      <4>1. k[t.at] \in Nat
        BY <2>11 DEF Rank
      <4> QED
        BY <2>2, <2>11, <4>1 DEF Left
    <3> QED
      BY <3>3, <3>4
  <2>12. r.size <= target \/ AllProtected(r, protect)
    BY <2>9, <2>10, <2>11 DEF SecondTurns
  <2> QED
    BY <2>12 DEF r
<1> QED
  BY <1>3, <1>4

-----------------------------------------------------------------------------
(***************************************************************************)
(* The limit                                                               *)
(***************************************************************************)

\* The target is no more than the limit.
LEMMA TargetIsBelow ==
  ASSUME CacheAssumption, NEW st, st.limit \in Nat
  PROVE  Target(st) \in Nat /\ Target(st) <= st.limit
<1> DEFINE l == st.limit
           p == l * FracNum
           q == p \div FracDen
<1>1. l \in Nat /\ FracNum \in Nat /\ FracDen \in Nat /\ FracDen > 0 /\ FracNum <= FracDen
  BY DEF CacheAssumption
<1>2. p \in Nat /\ p <= l * FracDen /\ l * FracDen \in Nat
  <2> HIDE DEF l
  <2> QED
    BY <1>1
<1>3. q \in Nat /\ FracDen * q <= p
  <2> HIDE DEF p
  <2> QED
    BY <1>1, <1>2
<1>4. q <= l
  <2> SUFFICES ASSUME ~ (q <= l) PROVE FALSE
    OBVIOUS
  <2> HIDE DEF l, p, q
  <2>1. FracDen * q >= FracDen * (l + 1)
    BY <1>1, <1>3
  <2>2. FracDen * (l + 1) = l * FracDen + FracDen
    BY <1>1
  <2>3. FracDen * q \in Nat /\ FracDen * (l + 1) \in Nat
    BY <1>1, <1>3
  <2> QED
    BY <1>1, <1>2, <1>3, <2>1, <2>2, <2>3
<1> QED
  BY <1>3, <1>4 DEF Target

NextLimit(g, size) == IF g >= size THEN g ELSE Max({2 * g, MinLimit})

\* The limit grows until the size fits, and not if it fits.
LEMMA GrownFits ==
  ASSUME CacheAssumption, NEW limit \in Nat, NEW size \in Nat
  PROVE  LET g == GrownLimit(limit, size)
         IN  /\ g \in Nat
             /\ limit <= g
             /\ size <= g
             /\ size <= limit => g = limit
<1> DEFINE Next1(g) == NextLimit(g, size)
           Grown(m, u) == u = [k \in 0 .. m |-> IF k = 0 THEN limit ELSE Next1(u[k - 1])]
           S == {m \in Nat : \E u : Grown(m, u)}
<1>1. GrownLimit(limit, size) = (CHOOSE grown : Grown(size, grown))[size]
  BY DEF GrownLimit, NextLimit
<1>2. 0 \in S
  <2>1. Grown(0, [k \in 0 .. 0 |-> limit])
    OBVIOUS
  <2> QED
    BY <2>1
<1>3. ASSUME NEW m \in Nat, m \in S PROVE m + 1 \in S
  <2>1. PICK u : Grown(m, u)
    BY <1>3
  <2> DEFINE v == [k \in 0 .. m + 1 |-> IF k <= m THEN u[k] ELSE Next1(u[m])]
  <2>2. Grown(m + 1, v)
    <3>1. ASSUME NEW k \in 0 .. m + 1
          PROVE v[k] = IF k = 0 THEN limit ELSE Next1(v[k - 1])
      BY <2>1
    <3> QED
      BY <3>1
  <2> HIDE DEF v
  <2> QED
    BY <2>2
<1>4. PICK u : Grown(size, u)
  BY <1>2, <1>3, SetInduction
<1> DEFINE t == CHOOSE grown : Grown(size, grown)
<1>5. Grown(size, t)
  BY <1>4
<1> HIDE DEF t
<1>6. t[0] = limit /\ \A k \in 0 .. size - 1 : t[k + 1] = Next1(t[k])
  BY <1>5
<1>7. ASSUME NEW g \in Nat
      PROVE  LET x == Max({2 * g, MinLimit}) IN x \in Nat /\ 2 * g <= x /\ 1 <= x
  <2>1. MinLimit \in Nat /\ MinLimit >= 1 /\ 2 * g \in Nat
    BY DEF CacheAssumption
  <2> DEFINE T == {2 * g, MinLimit}
  <2>2. T \in SUBSET Nat /\ T # {} /\ 2 * g + MinLimit \in Nat
        /\ \A x \in T : x <= 2 * g + MinLimit
    BY <2>1
  <2>3. 2 * g \in T /\ MinLimit \in T
    OBVIOUS
  <2> HIDE DEF T
  <2>4. Max(T) \in T /\ \A x \in T : x <= Max(T)
    BY <2>2, MaxOfBounded
  <2> QED
    BY <2>1, <2>2, <2>3, <2>4 DEF T
<1> DEFINE T == {m \in Nat : m <= size =>
                   /\ t[m] \in Nat
                   /\ limit <= t[m]
                   /\ size <= t[m] \/ m <= t[m]
                   /\ size <= limit => t[m] = limit}
<1>8. 0 \in T
  BY <1>6
<1>9. ASSUME NEW m \in Nat, m \in T PROVE m + 1 \in T
  <2> SUFFICES ASSUME m + 1 <= size
               PROVE  /\ t[m + 1] \in Nat
                      /\ limit <= t[m + 1]
                      /\ size <= t[m + 1] \/ m + 1 <= t[m + 1]
                      /\ size <= limit => t[m + 1] = limit
    OBVIOUS
  <2> DEFINE g == t[m]
  <2>1. /\ g \in Nat
        /\ limit <= g
        /\ size <= g \/ m <= g
        /\ size <= limit => g = limit
    BY <1>9
  <2>2. t[m + 1] = Next1(g)
    BY <1>6
  <2> HIDE DEF g
  <2>3. CASE g >= size
    BY <2>1, <2>2, <2>3 DEF NextLimit
  <2>4. CASE ~ (g >= size)
    <3> DEFINE x == Max({2 * g, MinLimit})
    <3>1. x \in Nat /\ 2 * g <= x /\ 1 <= x
      BY <1>7, <2>1
    <3>2. t[m + 1] = x
      BY <2>2, <2>4 DEF NextLimit
    <3> HIDE DEF x
    <3> QED
      BY <2>1, <2>4, <3>1, <3>2
  <2> QED
    BY <2>3, <2>4
<1>10. size \in T
  <2> HIDE DEF T
  <2> QED
    BY <1>8, <1>9, SetInduction
<1>11. /\ t[size] \in Nat
       /\ limit <= t[size]
       /\ size <= t[size]
       /\ size <= limit => t[size] = limit
  BY <1>10
<1>12. GrownLimit(limit, size) = t[size]
  BY <1>1 DEF t
<1> HIDE DEF Next1, Grown, S, T
<1> QED
  BY <1>11, <1>12

-----------------------------------------------------------------------------
(***************************************************************************)
(* Collection                                                              *)
(***************************************************************************)

\* What collecting st may leave.
Collected(st, r, protect) ==
  /\ r \in Sound
  /\ DOMAIN r.pool \subseteq DOMAIN st.pool
  /\ \A i \in DOMAIN r.pool :
       /\ r.pool[i].id = st.pool[i].id
       /\ r.pool[i].arcs = st.pool[i].arcs
       /\ \A f \in Flag \ {"VISITED"} : f \in r.pool[i].flags <=> f \in st.pool[i].flags
  /\ \A i \in DOMAIN st.pool : Protected(i, st, protect) => i \in DOMAIN r.pool
  /\ st.limit <= r.limit
  /\ Gc => r.size <= r.limit
  /\ st.limit < r.limit => AllProtected(r, protect)

WithLimit(st, limit) == [st EXCEPT !.limit = limit]

\* A store with another limit.
LEMMA LimitMoved ==
  ASSUME NEW st \in Sound, NEW limit \in Nat
  PROVE  /\ WithLimit(st, limit) \in Sound
         /\ WithLimit(st, limit).pool = st.pool
         /\ WithLimit(st, limit).size = st.size
         /\ WithLimit(st, limit).limit = limit
<1> DEFINE r == WithLimit(st, limit)
<1>1. st \in Stores
  BY DEF Sound
<1>2. /\ r \in Stores /\ r.pool = st.pool /\ r.map = st.map /\ r.size = st.size
      /\ r.head = st.head /\ r.tail = st.tail /\ r.hand = st.hand /\ r.limit = limit
  BY <1>1 DEF Stores, WithLimit
<1> HIDE DEF r
<1>3. Linked(r) /\ Rank(r) # {} /\ Mapped(r)
  BY <1>2 DEF Sound, Linked, Rank, Mapped
<1>4. Weights(r) = Weights(st)
  BY <1>2 DEF Weights, Weight
<1>5. r \in Sound
  BY <1>2, <1>3, <1>4 DEF Sound
<1> QED
  BY <1>2, <1>5 DEF r

\* gc leaves a sound store within its limit, and what may not be evicted; the
\* limit grows only when nothing else is left.
LEMMA CollectSound ==
  ASSUME CacheAssumption, NEW st \in Sound, NEW protect
  PROVE  Collected(st, Collect(st, protect), protect)
<1>1. st.size \in Nat /\ st.limit \in Nat /\ st \in Stores
  BY StoreParts DEF Sound
<1>2. CASE ~ Gc \/ st.size <= st.limit
  <2>1. Collect(st, protect) = st
    BY <1>2 DEF Collect
  <2>2. st.limit <= st.limit /\ ~ (st.limit < st.limit)
    BY <1>1
  <2>3. Collected(st, st, protect)
    BY <1>2, <2>2 DEF Collected
  <2> QED
    BY <2>1, <2>3
<1>3. CASE ~ (~ Gc \/ st.size <= st.limit)
  <2> DEFINE n == Cardinality(DOMAIN st.pool)
             target == Target(st)
             one == SweepTurns(st, n, FALSE, target, protect)
             two == SweepTurns(one, n, TRUE, target, protect)
             limit == GrownLimit(two.limit, two.size)
  <2>1. Collect(st, protect) = WithLimit(two, limit)
    BY <1>3 DEF Collect, WithLimit
  <2>2. n \in Nat /\ IsFiniteSet(DOMAIN st.pool)
    BY <1>1, PoolIsFinite
  <2>3. target \in Nat /\ target <= st.limit
    BY <1>1, TargetIsBelow
  <2> HIDE DEF n, target
  <2>4. Survives(st, one, protect)
    BY <2>2, <2>3, SweepSurvives
  <2>5. one \in Sound /\ DOMAIN one.pool \in SUBSET DOMAIN st.pool
    BY <2>4 DEF Survives
  <2>6. Cardinality(DOMAIN one.pool) <= n
    BY <2>2, <2>5, FS_Subset DEF n
  <2> HIDE DEF one
  <2>7. Survives(one, two, protect)
    BY <2>2, <2>3, <2>5, SweepSurvives
  <2>8. two.size <= target \/ AllProtected(two, protect)
    BY <2>2, <2>3, <2>5, <2>6, SecondSweepIsThorough
  <2> HIDE DEF two
  <2>9. two \in Sound /\ Survives(st, two, protect)
    <3>1. two \in Sound
      BY <2>7 DEF Survives
    <3> QED
      BY <2>4, <2>5, <2>7, <3>1, SurvivesOn
  <2>10. two.size \in Nat /\ two.limit = st.limit
    BY <2>9, StoreParts DEF Sound, Survives
  <2>11. /\ limit \in Nat /\ st.limit <= limit /\ two.size <= limit
         /\ two.size <= st.limit => limit = st.limit
    BY <1>1, <2>10, GrownFits
  <2> HIDE DEF limit
  <2> DEFINE r == WithLimit(two, limit)
  <2>12. r \in Sound /\ r.pool = two.pool /\ r.size = two.size /\ r.limit = limit
    BY <2>9, <2>11, LimitMoved
  <2> HIDE DEF r
  <2>13. st.limit < r.limit => AllProtected(r, protect)
    <3>1. ASSUME st.limit < r.limit PROVE AllProtected(two, protect)
      BY <1>1, <2>3, <2>8, <2>10, <2>11, <2>12, <3>1
    <3>2. AllProtected(two, protect) => AllProtected(r, protect)
      BY <2>12 DEF AllProtected, Protected, Pinned
    <3> QED
      BY <3>1, <3>2
  <2>14. Collected(st, r, protect)
    BY <2>9, <2>10, <2>11, <2>12, <2>13 DEF Survives, Collected
  <2> QED
    BY <2>1, <2>14 DEF r
<1> QED
  BY <1>2, <1>3

-----------------------------------------------------------------------------
(***************************************************************************)
(* What the parts of the invariant depend on                               *)
(***************************************************************************)

\* The greater of two.
LEMMA MaxOfTwo ==
  ASSUME NEW a \in Nat, NEW b \in Nat
  PROVE  Max({a, b}) \in Nat /\ a <= Max({a, b}) /\ b <= Max({a, b})
<1> DEFINE T == {a, b}
<1>1. T \in SUBSET Nat /\ T # {} /\ a + b \in Nat /\ (\A x \in T : x <= a + b)
      /\ a \in T /\ b \in T
  OBVIOUS
<1> HIDE DEF T
<1>2. Max(T) \in T /\ \A x \in T : x <= Max(T)
  BY <1>1, MaxOfBounded
<1> QED
  BY <1>1, <1>2 DEF T

\* A node that is found is the state's.
LEMMA FoundNode ==
  ASSUME NEW st \in Sound, NEW s \in Id, NodeOf(st, s) # None
  PROVE  NodeOf(st, s) \in DOMAIN st.pool /\ st.pool[NodeOf(st, s)].id = s
BY DEF Sound, Mapped, NodeOf

\* Marks and guards come and go soundly.
LEMMA FlagsChanged ==
  ASSUME CacheAssumption, NEW st \in Sound, NEW idx \in DOMAIN st.pool,
         NEW add \in SUBSET (Expanding \cup {"VISITED"}),
         NEW drop \in SUBSET (Expanding \cup {"VISITED"}),
         "EXPANDING_ARCS" \in add => "ARCS" \notin st.pool[idx].flags
  PROVE  FlagsSet(st, SetFlags(st, idx, add, drop), idx,
                  (st.pool[idx].flags \cup add) \ drop)
<1> DEFINE f == (st.pool[idx].flags \cup add) \ drop
<1>1. st.pool[idx] \in Nodes /\ st.hand \in DOMAIN st.pool
  BY StoreParts, LinkedParts DEF Sound
<1>2. /\ f \in SUBSET Flag
      /\ "FINAL" \in f <=> "FINAL" \in st.pool[idx].flags
      /\ "ARCS" \in f <=> "ARCS" \in st.pool[idx].flags
      /\ ~ ("ARCS" \in f /\ "EXPANDING_ARCS" \in f)
  BY <1>1, NodeParts DEF Expanding, Flag
<1>3. SetFlags(st, idx, add, drop) = WithNode(st, idx, Flagged(st.pool[idx], f))
  BY SetFlagsIs
<1> HIDE DEF f
<1>4. FlagsSet(st, WithNode(st, idx, Flagged(st.pool[idx], f)), idx, f)
  BY <1>1, <1>2, FlagsSound
<1> QED
  BY <1>3, <1>4 DEF f

\* Every expansion is in a frame.
LEMMA FrameParts ==
  ASSUME NEW st, NEW frames, Owned(st, frames), NEW k \in DOMAIN frames
  PROVE  /\ frames[k] \in Frame
         /\ frames[k].state \in Id /\ frames[k].idx \in Slot /\ frames[k].kind \in Kind
         /\ frames[k].idx \in DOMAIN st.pool
         /\ st.pool[frames[k].idx].id = frames[k].state
         /\ GuardFlag(frames[k].kind) \in st.pool[frames[k].idx].flags
         /\ \A j \in DOMAIN frames \ {k} :
              frames[j].idx # frames[k].idx \/ frames[j].kind # frames[k].kind
<1>1. frames \in Seq(Frame)
  BY DEF Owned
<1>2. frames[k] \in Frame
  BY <1>1
<1> QED
  BY <1>2 DEF Owned, Frame

\* Expansions depend on ids and guards.
LEMMA OwnedOn ==
  ASSUME NEW st, NEW frames, Owned(st, frames), NEW r, DOMAIN r.pool = DOMAIN st.pool,
         \A i \in DOMAIN st.pool :
           /\ r.pool[i].id = st.pool[i].id
           /\ \A kind \in Kind :
                GuardFlag(kind) \in r.pool[i].flags <=> GuardFlag(kind) \in st.pool[i].flags
  PROVE  Owned(r, frames)
<1>1. \A k \in DOMAIN frames : frames[k].kind \in Kind
  BY FrameParts
<1> QED
  BY <1>1 DEF Owned

\* An expansion begins.
LEMMA OwnedPush ==
  ASSUME NEW st, NEW frames, Owned(st, frames), NEW r, DOMAIN r.pool = DOMAIN st.pool,
         NEW idx \in DOMAIN st.pool, idx \in Slot, NEW s \in Id, st.pool[idx].id = s,
         NEW kind \in Kind, GuardFlag(kind) \notin st.pool[idx].flags,
         \A i \in DOMAIN st.pool :
           /\ r.pool[i].id = st.pool[i].id
           /\ \A k \in Kind : GuardFlag(k) \in r.pool[i].flags <=>
                GuardFlag(k) \in st.pool[i].flags \/ (i = idx /\ k = kind)
  PROVE  Owned(r, Append(frames, [state |-> s, idx |-> idx, kind |-> kind]))
<1> DEFINE new == [state |-> s, idx |-> idx, kind |-> kind]
           grown == Append(frames, new)
           n == Len(frames)
<1>1. frames \in Seq(Frame) /\ n \in Nat /\ DOMAIN frames = 1 .. n /\ new \in Frame
  BY DEF Owned, Frame
<1>2. grown \in Seq(Frame) /\ DOMAIN grown = 1 .. n + 1 /\ grown[n + 1] = new
      /\ \A k \in 1 .. n : grown[k] = frames[k]
  BY <1>1
<1>3. new.state = s /\ new.idx = idx /\ new.kind = kind
  OBVIOUS
<1> HIDE DEF new, grown, n
<1>4. \A k \in 1 .. n : frames[k].idx # idx \/ frames[k].kind # kind
  BY <1>1 DEF Owned
<1>5. \A k \in 1 .. n : frames[k].kind \in Kind
  BY <1>1, FrameParts
<1>6. ASSUME NEW k \in 1 .. n + 1
      PROVE  /\ grown[k].idx \in DOMAIN r.pool
             /\ r.pool[grown[k].idx].id = grown[k].state
             /\ GuardFlag(grown[k].kind) \in r.pool[grown[k].idx].flags
             /\ \A j \in (1 .. n + 1) \ {k} :
                  grown[j].idx # grown[k].idx \/ grown[j].kind # grown[k].kind
  <2>1. CASE k = n + 1
    <3>1. \A j \in (1 .. n + 1) \ {k} : j \in 1 .. n
      BY <1>1, <2>1
    <3> QED
      BY <1>2, <1>3, <1>4, <2>1, <3>1
  <2>2. CASE k \in 1 .. n
    <3>1. \A j \in (1 .. n + 1) \ {k} : j = n + 1 \/ j \in (1 .. n) \ {k}
      BY <1>1
    <3>2. /\ frames[k].idx \in DOMAIN st.pool
          /\ st.pool[frames[k].idx].id = frames[k].state
          /\ GuardFlag(frames[k].kind) \in st.pool[frames[k].idx].flags
          /\ \A j \in (1 .. n) \ {k} :
               frames[j].idx # frames[k].idx \/ frames[j].kind # frames[k].kind
      BY <1>1, <2>2 DEF Owned
    <3> QED
      BY <1>2, <1>3, <1>4, <1>5, <2>2, <3>1, <3>2
  <2> QED
    BY <1>1, <2>1, <2>2
<1>7. ASSUME NEW i \in DOMAIN r.pool, NEW k \in Kind, GuardFlag(k) \in r.pool[i].flags
      PROVE  \E j \in 1 .. n + 1 : grown[j].idx = i /\ grown[j].kind = k
  <2>1. CASE i = idx /\ k = kind
    <3>1. n + 1 \in 1 .. n + 1
      BY <1>1
    <3> QED
      BY <1>2, <1>3, <2>1, <3>1
  <2>2. CASE GuardFlag(k) \in st.pool[i].flags
    <3>1. PICK j \in 1 .. n : frames[j].idx = i /\ frames[j].kind = k
      BY <1>1, <1>7, <2>2 DEF Owned
    <3>2. j \in 1 .. n + 1
      BY <1>1
    <3> QED
      BY <1>2, <3>1, <3>2
  <2> QED
    BY <1>7, <2>1, <2>2
<1>8. Owned(r, grown)
  <2>1. \A k \in DOMAIN grown :
          /\ grown[k].idx \in DOMAIN r.pool
          /\ r.pool[grown[k].idx].id = grown[k].state
          /\ GuardFlag(grown[k].kind) \in r.pool[grown[k].idx].flags
          /\ \A j \in DOMAIN grown \ {k} :
               grown[j].idx # grown[k].idx \/ grown[j].kind # grown[k].kind
    BY <1>2, <1>6, Zenon
  <2>2. \A i \in DOMAIN r.pool : \A k \in Kind :
          GuardFlag(k) \in r.pool[i].flags =>
            \E j \in DOMAIN grown : grown[j].idx = i /\ grown[j].kind = k
    BY <1>2, <1>7
  <2> QED
    BY <1>2, <2>1, <2>2 DEF Owned
<1> QED
  BY <1>8 DEF grown, new

\* An expansion ends.
LEMMA OwnedPop ==
  ASSUME NEW st, NEW frames, Owned(st, frames), frames # <<>>, NEW r,
         DOMAIN r.pool = DOMAIN st.pool,
         \A i \in DOMAIN st.pool :
           /\ r.pool[i].id = st.pool[i].id
           /\ \A k \in Kind : GuardFlag(k) \in r.pool[i].flags <=>
                /\ GuardFlag(k) \in st.pool[i].flags
                /\ ~ (i = frames[Len(frames)].idx /\ k = frames[Len(frames)].kind)
  PROVE  Owned(r, SubSeq(frames, 1, Len(frames) - 1))
<1> DEFINE n == Len(frames)
           rest == SubSeq(frames, 1, n - 1)
<1>1. frames \in Seq(Frame) /\ n \in Nat /\ n > 0 /\ DOMAIN frames = 1 .. n
  BY DEF Owned
<1>2. rest \in Seq(Frame) /\ DOMAIN rest = 1 .. n - 1 /\ \A k \in 1 .. n - 1 : rest[k] = frames[k]
  BY <1>1
<1> HIDE DEF rest
<1>3. ASSUME NEW k \in 1 .. n
      PROVE  /\ frames[k].kind \in Kind
             /\ frames[k].idx \in DOMAIN st.pool
             /\ st.pool[frames[k].idx].id = frames[k].state
             /\ GuardFlag(frames[k].kind) \in st.pool[frames[k].idx].flags
             /\ \A j \in (1 .. n) \ {k} :
                  frames[j].idx # frames[k].idx \/ frames[j].kind # frames[k].kind
  BY <1>1, FrameParts
<1>4. n \in 1 .. n /\ \A k \in 1 .. n - 1 : k \in 1 .. n /\ k # n
  BY <1>1
<1>5. ASSUME NEW i \in DOMAIN r.pool, NEW kind \in Kind, GuardFlag(kind) \in r.pool[i].flags
      PROVE  \E k \in DOMAIN rest : rest[k].idx = i /\ rest[k].kind = kind
  <2>1. GuardFlag(kind) \in st.pool[i].flags /\ ~ (i = frames[n].idx /\ kind = frames[n].kind)
    BY <1>5
  <2>2. PICK k \in 1 .. n : frames[k].idx = i /\ frames[k].kind = kind
    BY <1>1, <1>5, <2>1 DEF Owned
  <2>3. k \in 1 .. n - 1
    BY <1>1, <2>1, <2>2
  <2> QED
    BY <1>2, <2>2, <2>3
<1>6. ASSUME NEW k \in 1 .. n - 1
      PROVE  /\ rest[k].idx \in DOMAIN r.pool
             /\ r.pool[rest[k].idx].id = rest[k].state
             /\ GuardFlag(rest[k].kind) \in r.pool[rest[k].idx].flags
             /\ \A j \in DOMAIN rest \ {k} :
                  rest[j].idx # rest[k].idx \/ rest[j].kind # rest[k].kind
  <2>1. k \in 1 .. n /\ k # n /\ rest[k] = frames[k]
    BY <1>2, <1>4
  <2>2. /\ frames[k].kind \in Kind
        /\ frames[k].idx \in DOMAIN st.pool
        /\ st.pool[frames[k].idx].id = frames[k].state
        /\ GuardFlag(frames[k].kind) \in st.pool[frames[k].idx].flags
    BY <1>3, <2>1
  <2>3. ~ (frames[k].idx = frames[n].idx /\ frames[k].kind = frames[n].kind)
    BY <1>3, <1>4, <2>1
  <2>4. \A j \in DOMAIN rest \ {k} :
          rest[j].idx # rest[k].idx \/ rest[j].kind # rest[k].kind
    BY <1>2, <1>3, <1>4, <2>1
  <2>5. DOMAIN r.pool = DOMAIN st.pool
    OBVIOUS
  <2>6. /\ r.pool[frames[k].idx].id = frames[k].state
        /\ GuardFlag(frames[k].kind) \in r.pool[frames[k].idx].flags
    BY <2>2, <2>3
  <2> QED
    BY <2>1, <2>2, <2>4, <2>5, <2>6
<1> QED
  BY <1>2, <1>5, <1>6 DEF Owned, rest

\* Collection spares what expansions and readers hold, and is felt by neither.
LEMMA CollectedKeeps ==
  ASSUME CacheAssumption, NEW st \in Sound, NEW protect, NEW r, Collected(st, r, protect),
         NEW frames, Owned(st, frames), Shared(st, pins), NEW n, Covered(st, n)
  PROVE  Owned(r, frames) /\ Shared(r, pins) /\ Covered(r, n)
<1>1. r \in Sound /\ r \in Stores /\ DOMAIN r.pool \subseteq DOMAIN st.pool /\ Mapped(r)
  BY DEF Collected, Sound
<1>2. \A i \in DOMAIN r.pool :
        /\ r.pool[i].id = st.pool[i].id
        /\ r.pool[i].arcs = st.pool[i].arcs
        /\ \A kind \in Kind :
             GuardFlag(kind) \in r.pool[i].flags <=> GuardFlag(kind) \in st.pool[i].flags
        /\ "ARCS" \in st.pool[i].flags => "ARCS" \in r.pool[i].flags
  <2>1. \A kind \in Kind : GuardFlag(kind) \in Flag \ {"VISITED"}
    BY DEF Kind, GuardFlag, Flag
  <2>2. "ARCS" \in Flag \ {"VISITED"}
    BY DEF Flag
  <2> QED
    BY <2>1, <2>2 DEF Collected
<1>3. \A i \in DOMAIN st.pool : Protected(i, st, protect) => i \in DOMAIN r.pool
  BY DEF Collected
<1>4. \A k \in DOMAIN frames : frames[k].kind \in Kind /\ frames[k].idx \in DOMAIN r.pool
  <2> SUFFICES ASSUME NEW k \in DOMAIN frames
               PROVE  frames[k].kind \in Kind /\ frames[k].idx \in DOMAIN r.pool
    OBVIOUS
  <2>1. frames[k].kind \in Kind
    BY FrameParts
  <2>2. frames[k].idx \in DOMAIN st.pool
        /\ GuardFlag(frames[k].kind) \in st.pool[frames[k].idx].flags
    BY DEF Owned
  <2>3. GuardFlag(frames[k].kind) \in Expanding
    BY <2>1 DEF GuardFlag, Expanding
  <2>4. Protected(frames[k].idx, st, protect)
    BY <2>2, <2>3 DEF Protected
  <2> QED
    BY <1>3, <2>1, <2>2, <2>4
<1>5. Owned(r, frames)
  <2>1. ASSUME NEW k \in DOMAIN frames
        PROVE  /\ frames[k].idx \in DOMAIN r.pool
               /\ r.pool[frames[k].idx].id = frames[k].state
               /\ GuardFlag(frames[k].kind) \in r.pool[frames[k].idx].flags
    BY <1>2, <1>4 DEF Owned
  <2>2. ASSUME NEW i \in DOMAIN r.pool, NEW kind \in Kind, GuardFlag(kind) \in r.pool[i].flags
        PROVE  \E k \in DOMAIN frames : frames[k].idx = i /\ frames[k].kind = kind
    BY <1>1, <1>2, <2>2 DEF Owned
  <2> QED
    BY <2>1, <2>2 DEF Owned
<1>6. Shared(r, pins)
  <2> SUFFICES ASSUME NEW s \in Id, pins[s] > 0
               PROVE  /\ MapGet(r.map, s) # None
                      /\ "ARCS" \in r.pool[MapGet(r.map, s)].flags
    BY DEF Shared
  <2> DEFINE i == MapGet(st.map, s)
  <2>1. i # None /\ "ARCS" \in st.pool[i].flags
    BY DEF Shared
  <2>2. i \in DOMAIN st.pool /\ st.pool[i].id = s
    BY <2>1 DEF Sound, Mapped
  <2> HIDE DEF i
  <2>3. st.pool[i].arcs # NoArcs
    <3>1. st.pool[i].arcs = Targets[s]
      BY <2>1, <2>2, StoreParts, NodeParts DEF Sound
    <3> QED
      BY <3>1, TargetsAreArcs
  <2>4. Protected(i, st, protect)
    BY <2>2, <2>3 DEF Protected, Pinned
  <2>5. i \in DOMAIN r.pool /\ r.pool[i].id = s /\ "ARCS" \in r.pool[i].flags
    BY <1>2, <1>3, <2>1, <2>2, <2>4
  <2>6. MapGet(r.map, s) = i
    BY <1>1, <2>5 DEF Mapped
  <2>7. i # None
    BY <2>1 DEF i
  <2> QED
    BY <2>5, <2>6, <2>7
<1>7. Covered(r, n)
  BY <1>1, <1>2 DEF Covered
<1> QED
  BY <1>5, <1>6, <1>7

\* What is covered stays so when more is known.
LEMMA CoveredMore ==
  ASSUME CacheAssumption, NEW st \in Stores, NEW n \in Nat, NEW m \in Nat, n <= m,
         Covered(st, n)
  PROVE  Covered(st, m)
<1> SUFFICES ASSUME NEW i \in DOMAIN st.pool, st.pool[i].arcs # NoArcs,
                    NEW k \in DOMAIN st.pool[i].arcs
             PROVE  st.pool[i].arcs[k] < m
  BY DEF Covered
<1>1. st.pool[i].arcs \in Seq(Id)
  BY StoreParts, NodeParts
<1>2. st.pool[i].arcs[k] \in Nat
  <2>1. st.pool[i].arcs[k] \in Id
    BY <1>1
  <2> QED
    BY <2>1 DEF Id, CacheAssumption
<1>3. st.pool[i].arcs[k] < n
  BY DEF Covered
<1> QED
  BY <1>2, <1>3

\* The empty store is sound.
LEMMA EmptySound ==
  ASSUME CacheAssumption
  PROVE  /\ EmptyStore \in Sound
         /\ Owned(EmptyStore, <<>>)
         /\ Shared(EmptyStore, [s \in Id |-> 0])
         /\ Covered(EmptyStore, 0)
         /\ EmptyStore.size = 0 /\ EmptyStore.limit = GcLimit
<1> DEFINE p == [i \in {} |-> None]
           m == [dense |-> <<>>, sparse |-> p]
           st == [pool |-> p, map |-> m, size |-> 0, limit |-> GcLimit,
                  head |-> None, tail |-> None, hand |-> None]
<1>1. EmptyStore = st
  BY DEF EmptyStore, EmptyMap
<1>2. p \in [{} -> Nodes] /\ p \in [{} -> Link] /\ p \in [{} -> Nat] /\ DOMAIN p = {}
  OBVIOUS
<1>3. m \in Maps /\ m.dense = <<>> /\ m.sparse = p
  <2>1. p \in UNION {[D -> Link] : D \in SUBSET Id}
    BY <1>2
  <2> HIDE DEF p
  <2> QED
    BY <2>1 DEF Maps
<1> HIDE DEF m
<1>4. /\ st \in Stores
      /\ st.pool = p /\ st.map = m /\ st.size = 0 /\ st.limit = GcLimit
      /\ st.head = None /\ st.tail = None /\ st.hand = None
  <2>1. p \in UNION {[D -> Nodes] : D \in SUBSET Slot}
    BY <1>2
  <2>2. GcLimit \in Nat /\ None \in Link
    BY DEF CacheAssumption, Link
  <2> HIDE DEF p
  <2> QED
    BY <1>3, <2>1, <2>2 DEF Stores
<1> HIDE DEF st
<1>5. Linked(st)
  BY <1>2, <1>4 DEF Linked
<1>6. p \in Rank(st)
  BY <1>2, <1>4 DEF Rank
<1>7. \A s \in Id : MapGet(m, s) = None
  <2>1. \A s \in Id : s \in Nat
    BY DEF Id, CacheAssumption
  <2> QED
    BY <1>2, <1>3, <2>1 DEF MapGet
<1>8. Mapped(st)
  BY <1>2, <1>4, <1>7 DEF Mapped
<1>9. Total(Weights(st)) = 0
  <2>1. Weights(st) = [i \in Slot |-> 0]
    BY <1>2, <1>4 DEF Weights, Weight
  <2> QED
    BY <2>1, TotalOfZeros DEF CacheAssumption
<1>10. st \in Sound
  BY <1>4, <1>5, <1>6, <1>8, <1>9 DEF Sound
<1>11. Owned(st, <<>>)
  BY <1>2, <1>4 DEF Owned
<1>12. Shared(st, [s \in Id |-> 0])
  BY DEF Shared
<1>13. Covered(st, 0)
  BY <1>2, <1>4 DEF Covered
<1> QED
  BY <1>1, <1>4, <1>10, <1>11, <1>12, <1>13

-----------------------------------------------------------------------------
(***************************************************************************)
(* The actions                                                             *)
(***************************************************************************)

LEMMA CacheInitHolds ==
  ASSUME CacheAssumption, CacheInit
  PROVE  CacheInv
<1>1. store = EmptyStore /\ stack = <<>> /\ pins = [s \in Id |-> 0] /\ known = 0
  BY DEF CacheInit
<1>2. Bounds
  BY DEF CacheInit, Bounds, None, Id
<1>3. Bounded
  BY <1>1, EmptySound DEF Bounded, CacheAssumption
<1> QED
  BY <1>1, <1>2, <1>3, EmptySound DEF CacheInv

LEMMA SetStartKeeps ==
  ASSUME CacheAssumption, CacheInv, SetStart
  PROVE  CacheInv'
<1>1. /\ cache_start' = Start /\ known' = Max({known, Start + 1})
      /\ UNCHANGED <<store, stack, pins, expanded>>
  BY DEF SetStart
<1>2. Start \in Id /\ Start \in Nat
  BY DEF CacheAssumption, Id
<1>3. known \in Nat
  BY DEF CacheInv, Bounds
<1>4. known' \in Nat /\ known <= known' /\ Start < known'
  <2>1. Start + 1 \in Nat
    BY <1>2
  <2>2. known' \in Nat /\ known <= known' /\ Start + 1 <= known'
    BY <1>1, <1>3, <2>1, MaxOfTwo
  <2> QED
    BY <1>2, <2>2
<1>5. Bounds'
  BY <1>1, <1>2, <1>4 DEF CacheInv, Bounds
<1>6. Covered(store, known')
  BY <1>3, <1>4, CoveredMore DEF CacheInv, Sound
<1> QED
  BY <1>1, <1>5, <1>6 DEF CacheInv, Bounded

\* Marking a node visited.
LEMMA VisitedKeeps ==
  ASSUME CacheAssumption, CacheInv, NEW idx \in DOMAIN store.pool,
         NEW r, r = SetFlags(store, idx, {"VISITED"}, {})
  PROVE  /\ r \in Sound
         /\ Owned(r, stack)
         /\ Shared(r, pins)
         /\ Covered(r, known)
         /\ r.size = store.size /\ r.limit = store.limit
         /\ r.map = store.map
         /\ DOMAIN r.pool = DOMAIN store.pool
         /\ \A i \in DOMAIN r.pool :
              "ARCS" \in r.pool[i].flags <=> "ARCS" \in store.pool[i].flags
<1>1. store \in Sound
  BY DEF CacheInv
<1>2. FlagsSet(store, r, idx, (store.pool[idx].flags \cup {"VISITED"}) \ {})
  BY <1>1, FlagsChanged
<1>3. /\ r \in Sound /\ DOMAIN r.pool = DOMAIN store.pool /\ r.map = store.map
      /\ r.size = store.size /\ r.limit = store.limit
      /\ \A i \in DOMAIN store.pool :
           /\ r.pool[i].id = store.pool[i].id
           /\ r.pool[i].arcs = store.pool[i].arcs
           /\ \A f \in Flag \ {"VISITED"} : f \in r.pool[i].flags <=> f \in store.pool[i].flags
  BY <1>2 DEF FlagsSet
<1>4. \A kind \in Kind : GuardFlag(kind) \in Flag \ {"VISITED"}
  BY DEF Kind, GuardFlag, Flag
<1>5. "ARCS" \in Flag \ {"VISITED"}
  BY DEF Flag
<1>6. Owned(r, stack)
  BY <1>3, <1>4, OwnedOn DEF CacheInv
<1>7. Shared(r, pins)
  <2>1. \A s \in Id : MapGet(store.map, s) # None => MapGet(store.map, s) \in DOMAIN store.pool
    BY <1>1 DEF Sound, Mapped
  <2> QED
    BY <1>3, <1>5, <2>1 DEF CacheInv, Shared
<1>8. Covered(r, known)
  BY <1>3 DEF CacheInv, Covered
<1> QED
  BY <1>3, <1>5, <1>6, <1>7, <1>8

LEMMA HitKeeps ==
  ASSUME CacheAssumption, CacheInv, NEW s \in Id, NEW kind \in Kind, Hit(s, kind)
  PROVE  CacheInv' /\ store'.limit = store.limit
<1> DEFINE idx == NodeOf(store, s)
<1>1. idx # None /\ store' = SetFlags(store, idx, {"VISITED"}, {})
      /\ UNCHANGED <<stack, pins, cache_start, known, expanded>>
  BY DEF Hit
<1>2. idx \in DOMAIN store.pool
  BY <1>1, FoundNode DEF CacheInv
<1> HIDE DEF idx
<1>3. /\ store' \in Sound /\ Owned(store', stack) /\ Shared(store', pins)
      /\ Covered(store', known) /\ store'.size = store.size /\ store'.limit = store.limit
  BY <1>1, <1>2, VisitedKeeps
<1> QED
  BY <1>1, <1>3 DEF CacheInv, Bounds, Bounded

LEMMA PinKeeps ==
  ASSUME CacheAssumption, CacheInv, NEW s \in Id, Pin(s)
  PROVE  CacheInv' /\ store'.limit = store.limit
<1> DEFINE idx == NodeOf(store, s)
<1>1. idx # None /\ store' = SetFlags(store, idx, {"VISITED"}, {})
      /\ "ARCS" \in store.pool[idx].flags
      /\ pins' = [pins EXCEPT ![s] = @ + 1]
      /\ UNCHANGED <<stack, cache_start, known, expanded>>
  BY DEF Pin
<1>2. idx \in DOMAIN store.pool
  BY <1>1, FoundNode DEF CacheInv
<1>3. idx = MapGet(store.map, s)
  BY DEF NodeOf
<1> HIDE DEF idx
<1>4. /\ store' \in Sound /\ Owned(store', stack) /\ Shared(store', pins)
      /\ Covered(store', known) /\ store'.size = store.size /\ store'.limit = store.limit
      /\ store'.map = store.map /\ DOMAIN store'.pool = DOMAIN store.pool
      /\ \A i \in DOMAIN store'.pool :
           "ARCS" \in store'.pool[i].flags <=> "ARCS" \in store.pool[i].flags
  BY <1>1, <1>2, VisitedKeeps
<1>5. Shared(store', pins')
  <2>1. pins \in [Id -> Nat]
    BY DEF CacheInv, Shared
  <2>2. pins' \in [Id -> Nat] /\ \A x \in Id \ {s} : pins'[x] = pins[x]
    BY <1>1, <2>1
  <2> QED
    BY <1>1, <1>2, <1>3, <1>4, <2>2 DEF Shared
<1> QED
  BY <1>1, <1>4, <1>5 DEF CacheInv, Bounds, Bounded

LEMMA UnpinKeeps ==
  ASSUME CacheAssumption, CacheInv, NEW s \in Id, Unpin(s)
  PROVE  CacheInv'
<1>1. pins[s] > 0 /\ pins' = [pins EXCEPT ![s] = @ - 1]
      /\ UNCHANGED <<store, stack, cache_start, known, expanded>>
  BY DEF Unpin
<1>2. pins \in [Id -> Nat]
  BY DEF CacheInv, Shared
<1>3. pins' \in [Id -> Nat] /\ \A x \in Id : pins'[x] > 0 => pins[x] > 0
  BY <1>1, <1>2
<1>4. Shared(store, pins')
  BY <1>3 DEF CacheInv, Shared
<1> QED
  BY <1>1, <1>4 DEF CacheInv, Bounds, Bounded

LEMMA ClearKeeps ==
  ASSUME CacheAssumption, CacheInv, ClearCache
  PROVE  CacheInv' /\ store' = EmptyStore
<1>1. /\ store' = EmptyStore /\ stack' = <<>> /\ pins' = [s \in Id |-> 0] /\ cache_start' = None
      /\ known' = 0 /\ expanded' = [set |-> {}, min |-> 0, max |-> None]
  BY DEF ClearCache
<1>2. Bounds'
  BY <1>1 DEF Bounds, None, Id
<1>3. Bounded'
  BY <1>1, EmptySound DEF Bounded, CacheAssumption
<1> QED
  BY <1>1, <1>2, <1>3, EmptySound DEF CacheInv

\* The node an expansion works on, made room for if it is new.
LEMMA AllocatedSound ==
  ASSUME CacheAssumption, CacheInv, NEW s \in Id, NEW st \in Allocated(s)
  PROVE  /\ st \in Sound /\ Owned(st, stack) /\ Shared(st, pins) /\ Covered(st, known)
         /\ Gc => st.size <= st.limit + StateSize
         /\ NodeOf(st, s) # None
         /\ IF NodeOf(store, s) # None THEN st = store ELSE st.pool[NodeOf(st, s)].flags = {}
         /\ store.limit <= st.limit
         /\ store.limit < st.limit =>
              \A i \in DOMAIN st.pool \ {NodeOf(st, s)} :
                Pinned(i, st) \/ st.pool[i].flags \cap Expanding # {}
<1>1. store \in Sound /\ store.limit \in Nat /\ store.size \in Nat
  BY StoreParts DEF CacheInv, Sound
<1>2. CASE MapGet(store.map, s) # None
  <2>1. st = store
    BY <1>2 DEF Allocated
  <2> QED
    BY <1>1, <1>2, <2>1 DEF CacheInv, Bounded, NodeOf
<1>3. CASE MapGet(store.map, s) = None
  <2> DEFINE c == Collect(store, None)
  <2>1. PICK idx \in Slot \ DOMAIN c.pool : st = PushHead(c, s, idx)
    BY <1>3 DEF Allocated
  <2>2. Collected(store, c, None)
    BY <1>1, CollectSound
  <2> HIDE DEF c
  <2>3. Owned(c, stack) /\ Shared(c, pins) /\ Covered(c, known)
    BY <1>1, <2>2, CollectedKeeps DEF CacheInv
  <2>4. c \in Sound /\ c \in Stores /\ Mapped(c)
    BY <2>2 DEF Collected, Sound
  <2>5. c.size \in Nat /\ c.limit \in Nat /\ StateSize \in Nat
    BY <2>4, StoreParts DEF CacheAssumption
  <2>6. MapGet(c.map, s) = None
    <3> SUFFICES ASSUME MapGet(c.map, s) # None PROVE FALSE
      OBVIOUS
    <3> DEFINE i == MapGet(c.map, s)
    <3>1. i \in DOMAIN c.pool /\ c.pool[i].id = s
      BY <2>4 DEF Mapped
    <3> HIDE DEF i
    <3>2. i \in DOMAIN store.pool /\ store.pool[i].id = s
      BY <2>2, <3>1 DEF Collected
    <3>3. MapGet(store.map, s) = i
      BY <1>1, <3>2 DEF Sound, Mapped
    <3> QED
      BY <1>3, <2>4, <3>1, <3>3, LinkedParts DEF Sound
  <2>7. st \in Sound
    BY <2>1, <2>4, <2>6, PushSound
  <2>8. /\ DOMAIN st.pool = DOMAIN c.pool \cup {idx}
        /\ \A i \in DOMAIN c.pool :
             /\ st.pool[i].id = c.pool[i].id
             /\ st.pool[i].flags = c.pool[i].flags
             /\ st.pool[i].arcs = c.pool[i].arcs
        /\ st.pool[idx].id = s /\ st.pool[idx].flags = {} /\ st.pool[idx].arcs = NoArcs
        /\ st.map = MapInsert(c.map, s, idx)
        /\ st.limit = c.limit /\ st.size = c.size + StateSize
    BY <2>1, <2>4, PushParts
  <2>9. \A j \in Id : MapGet(st.map, j) = IF j = s THEN idx ELSE MapGet(c.map, j)
    <3>1. idx \in Link /\ c.map \in Maps
      BY <2>4, StoreParts DEF Link
    <3> QED
      BY <2>8, <3>1, MapInsertion
  <2>10. idx # None /\ NodeOf(st, s) = idx
    BY <2>9 DEF Slot, None, NodeOf
  <2>11. idx \notin DOMAIN c.pool
    BY <2>1
  <2>12. Owned(st, stack)
    <3>1. ASSUME NEW k \in DOMAIN stack
          PROVE  /\ stack[k].idx \in DOMAIN st.pool
                 /\ st.pool[stack[k].idx].id = stack[k].state
                 /\ GuardFlag(stack[k].kind) \in st.pool[stack[k].idx].flags
      BY <2>3, <2>8 DEF Owned
    <3>2. ASSUME NEW i \in DOMAIN st.pool, NEW kind \in Kind, GuardFlag(kind) \in st.pool[i].flags
          PROVE  \E k \in DOMAIN stack : stack[k].idx = i /\ stack[k].kind = kind
      BY <2>3, <2>8, <3>2 DEF Owned
    <3> QED
      BY <2>3, <3>1, <3>2 DEF Owned
  <2>13. Shared(st, pins)
    <3>1. ASSUME NEW x \in Id, pins[x] > 0
          PROVE  /\ MapGet(st.map, x) # None
                 /\ "ARCS" \in st.pool[MapGet(st.map, x)].flags
      <4>1. MapGet(c.map, x) # None /\ "ARCS" \in c.pool[MapGet(c.map, x)].flags
        BY <2>3, <3>1 DEF Shared
      <4>2. MapGet(c.map, x) \in DOMAIN c.pool
        BY <2>4, <4>1 DEF Mapped
      <4>3. x # s
        BY <2>6, <4>1
      <4> QED
        BY <2>8, <2>9, <4>1, <4>2, <4>3
    <3> QED
      BY <2>3, <3>1 DEF Shared
  <2>14. Covered(st, known)
    BY <2>3, <2>8 DEF Covered
  <2>15. store.limit <= st.limit
    BY <2>2, <2>8 DEF Collected
  <2>16. Gc => st.size <= st.limit + StateSize
    BY <2>2, <2>5, <2>8 DEF Collected
  <2>17. ASSUME store.limit < st.limit, NEW i \in DOMAIN st.pool \ {idx}
         PROVE  Pinned(i, st) \/ st.pool[i].flags \cap Expanding # {}
    <3>1. i \in DOMAIN c.pool /\ Protected(i, c, None)
      BY <2>2, <2>8, <2>17 DEF Collected, AllProtected
    <3>2. i # None
      BY <2>4, <3>1, LinkedParts DEF Sound
    <3> QED
      BY <2>8, <3>1, <3>2 DEF Protected, Pinned
  <2> QED
    BY <1>3, <2>7, <2>8, <2>10, <2>12, <2>13, <2>14, <2>15, <2>16, <2>17 DEF NodeOf
<1> QED
  BY <1>2, <1>3

LEMMA BeginKeeps ==
  ASSUME CacheAssumption, CacheInv, NEW s \in Id, NEW kind \in Kind, Begin(s, kind)
  PROVE  /\ CacheInv'
         /\ store.limit <= store'.limit
         /\ store.limit < store'.limit =>
              \A i \in DOMAIN store'.pool :
                Pinned(i, store') \/ store'.pool[i].flags \cap Expanding # {}
<1>1. PICK st \in Allocated(s) :
        /\ store' = SetFlags(st, NodeOf(st, s), {GuardFlag(kind)}, {})
        /\ stack' = Append(stack, [state |-> s, idx |-> NodeOf(st, s), kind |-> kind])
  BY DEF Begin
<1>2. /\ UNCHANGED <<pins, cache_start, known, expanded>>
      /\ NodeOf(store, s) # None =>
           {DoneFlag(kind), GuardFlag(kind)} \cap store.pool[NodeOf(store, s)].flags = {}
  BY DEF Begin
<1> DEFINE idx == NodeOf(st, s)
<1>3. /\ st \in Sound /\ Owned(st, stack) /\ Shared(st, pins) /\ Covered(st, known)
      /\ Gc => st.size <= st.limit + StateSize
      /\ idx # None
      /\ IF NodeOf(store, s) # None THEN st = store ELSE st.pool[idx].flags = {}
      /\ store.limit <= st.limit
      /\ store.limit < st.limit =>
           \A i \in DOMAIN st.pool \ {idx} :
             Pinned(i, st) \/ st.pool[i].flags \cap Expanding # {}
  BY AllocatedSound
<1>4. DoneFlag(kind) \notin st.pool[idx].flags /\ GuardFlag(kind) \notin st.pool[idx].flags
  BY <1>2, <1>3
<1>5. idx \in DOMAIN st.pool /\ st.pool[idx].id = s
  BY <1>3, FoundNode
<1>6. idx \in Slot /\ st \in Stores /\ Mapped(st)
  BY <1>3, <1>5, StoreParts DEF Sound
<1> HIDE DEF idx
<1> DEFINE f == (st.pool[idx].flags \cup {GuardFlag(kind)}) \ {}
<1>7. FlagsSet(st, store', idx, f)
  <2>1. {GuardFlag(kind)} \in SUBSET (Expanding \cup {"VISITED"})
    BY DEF GuardFlag, Expanding
  <2>2. "EXPANDING_ARCS" \in {GuardFlag(kind)} => "ARCS" \notin st.pool[idx].flags
    BY <1>4 DEF GuardFlag, DoneFlag, Kind
  <2>3. store' = SetFlags(st, idx, {GuardFlag(kind)}, {})
    BY <1>1 DEF idx
  <2> QED
    BY <1>3, <1>5, <2>1, <2>2, <2>3, FlagsChanged
<1>8. /\ store' \in Sound /\ DOMAIN store'.pool = DOMAIN st.pool /\ store'.map = st.map
      /\ store'.size = st.size /\ store'.limit = st.limit
      /\ \A i \in DOMAIN st.pool \ {idx} : store'.pool[i] = st.pool[i]
      /\ store'.pool[idx].id = st.pool[idx].id /\ store'.pool[idx].arcs = st.pool[idx].arcs
      /\ store'.pool[idx].flags = f
  BY <1>7 DEF FlagsSet
<1>9. \A i \in DOMAIN st.pool :
        /\ store'.pool[i].id = st.pool[i].id
        /\ store'.pool[i].arcs = st.pool[i].arcs
        /\ "ARCS" \in st.pool[i].flags => "ARCS" \in store'.pool[i].flags
        /\ \A k \in Kind : GuardFlag(k) \in store'.pool[i].flags <=>
             GuardFlag(k) \in st.pool[i].flags \/ (i = idx /\ k = kind)
  <2>1. \A k \in Kind : GuardFlag(k) = GuardFlag(kind) <=> k = kind
    BY DEF GuardFlag, Kind
  <2> QED
    BY <1>8, <2>1
<1>10. Owned(store', stack')
  <2>1. stack' = Append(stack, [state |-> s, idx |-> idx, kind |-> kind])
    BY <1>1 DEF idx
  <2> QED
    BY <1>3, <1>4, <1>5, <1>6, <1>8, <1>9, <2>1, OwnedPush
<1>11. Shared(store', pins)
  <2>1. \A x \in Id : MapGet(st.map, x) # None => MapGet(st.map, x) \in DOMAIN st.pool
    BY <1>6 DEF Mapped
  <2> QED
    BY <1>3, <1>8, <1>9, <2>1 DEF Shared
<1>12. Covered(store', known)
  BY <1>3, <1>8, <1>9 DEF Covered
<1>13. CacheInv'
  BY <1>2, <1>3, <1>8, <1>10, <1>11, <1>12 DEF CacheInv, Bounds, Bounded
<1>14. ASSUME store.limit < store'.limit, NEW i \in DOMAIN store'.pool
       PROVE  Pinned(i, store') \/ store'.pool[i].flags \cap Expanding # {}
  <2>1. CASE i = idx
    <3>1. GuardFlag(kind) \in store'.pool[idx].flags /\ GuardFlag(kind) \in Expanding
      BY <1>8 DEF GuardFlag, Expanding
    <3> QED
      BY <2>1, <3>1
  <2>2. CASE i # idx
    BY <1>3, <1>8, <1>14, <2>2 DEF Pinned
  <2> QED
    BY <2>1, <2>2
<1> QED
  BY <1>3, <1>8, <1>13, <1>14

\* The expansion at the top of the stack and its node.
LEMMA TopOwns ==
  ASSUME CacheInv, stack # <<>>
  PROVE  /\ Top \in Frame /\ Top = stack[Len(stack)] /\ Len(stack) \in DOMAIN stack
         /\ Top.state \in Id /\ Top.kind \in Kind
         /\ Top.idx \in DOMAIN store.pool
         /\ store.pool[Top.idx].id = Top.state
         /\ GuardFlag(Top.kind) \in store.pool[Top.idx].flags
<1>1. Owned(store, stack) /\ stack \in Seq(Frame)
  BY DEF CacheInv, Owned
<1>2. Len(stack) \in DOMAIN stack
  BY <1>1
<1>3. stack[Len(stack)] \in Frame
  BY <1>1, <1>2
<1> QED
  BY <1>1, <1>2, <1>3 DEF Owned, Top, Frame

\* What an expansion leaves when it ends and its guard is dropped.
LEMMA EndedKeeps ==
  ASSUME CacheAssumption, CacheInv, stack # <<>>, NEW r \in Sound,
         DOMAIN r.pool = DOMAIN store.pool, r.map = store.map,
         \A i \in DOMAIN store.pool \ {Top.idx} : r.pool[i] = store.pool[i],
         r.pool[Top.idx].id = store.pool[Top.idx].id,
         NEW add, add \cap Expanding = {},
         r.pool[Top.idx].flags = (store.pool[Top.idx].flags \cup add) \ {GuardFlag(Top.kind)}
  PROVE  Owned(r, Pop) /\ Shared(r, pins)
<1>1. /\ Top.idx \in DOMAIN store.pool /\ Top.kind \in Kind /\ Top = stack[Len(stack)]
      /\ store \in Sound /\ Owned(store, stack) /\ Shared(store, pins)
  BY TopOwns DEF CacheInv
<1>2. \A k \in Kind : GuardFlag(k) \in Expanding /\ GuardFlag(k) # "ARCS"
  BY DEF GuardFlag, Kind, Expanding
<1>3. \A k \in Kind : GuardFlag(k) = GuardFlag(Top.kind) => k = Top.kind
  BY <1>1 DEF GuardFlag, Kind
<1>4. \A i \in DOMAIN store.pool :
        /\ r.pool[i].id = store.pool[i].id
        /\ "ARCS" \in store.pool[i].flags => "ARCS" \in r.pool[i].flags
        /\ \A k \in Kind : GuardFlag(k) \in r.pool[i].flags <=>
             /\ GuardFlag(k) \in store.pool[i].flags
             /\ ~ (i = Top.idx /\ k = Top.kind)
  <2>1. ASSUME NEW i \in DOMAIN store.pool
        PROVE  /\ r.pool[i].id = store.pool[i].id
               /\ "ARCS" \in store.pool[i].flags => "ARCS" \in r.pool[i].flags
               /\ \A k \in Kind : GuardFlag(k) \in r.pool[i].flags <=>
                    /\ GuardFlag(k) \in store.pool[i].flags
                    /\ ~ (i = Top.idx /\ k = Top.kind)
    <3>1. CASE i = Top.idx
      BY <1>1, <1>2, <1>3, <3>1
    <3>2. CASE i # Top.idx
      BY <3>2
    <3> QED
      BY <3>1, <3>2
  <2> QED
    BY <2>1
<1>5. Owned(r, SubSeq(stack, 1, Len(stack) - 1))
  BY <1>1, <1>4, OwnedPop
<1>6. Shared(r, pins)
  <2>1. \A x \in Id : MapGet(store.map, x) # None => MapGet(store.map, x) \in DOMAIN store.pool
    BY <1>1 DEF Sound, Mapped
  <2> QED
    BY <1>1, <1>4, <2>1 DEF Shared
<1> QED
  BY <1>5, <1>6 DEF Pop

LEMMA UnwindKeeps ==
  ASSUME CacheAssumption, CacheInv, Unwind
  PROVE  CacheInv' /\ store'.limit = store.limit
<1>1. /\ stack # <<>> /\ stack' = Pop
      /\ store' = SetFlags(store, Top.idx, {}, {GuardFlag(Top.kind)})
      /\ UNCHANGED <<pins, cache_start, known, expanded>>
  BY DEF Unwind
<1>2. Top.idx \in DOMAIN store.pool /\ Top.kind \in Kind /\ store \in Sound
  BY <1>1, TopOwns DEF CacheInv
<1>3. FlagsSet(store, store', Top.idx,
               (store.pool[Top.idx].flags \cup {}) \ {GuardFlag(Top.kind)})
  <2>1. {GuardFlag(Top.kind)} \in SUBSET (Expanding \cup {"VISITED"})
        /\ {} \in SUBSET (Expanding \cup {"VISITED"}) /\ "EXPANDING_ARCS" \notin {}
    BY DEF GuardFlag, Expanding
  <2> QED
    BY <1>1, <1>2, <2>1, FlagsChanged
<1>4. /\ store' \in Sound /\ DOMAIN store'.pool = DOMAIN store.pool /\ store'.map = store.map
      /\ \A i \in DOMAIN store.pool \ {Top.idx} : store'.pool[i] = store.pool[i]
      /\ store'.pool[Top.idx].id = store.pool[Top.idx].id
      /\ store'.pool[Top.idx].flags =
           (store.pool[Top.idx].flags \cup {}) \ {GuardFlag(Top.kind)}
      /\ store'.pool[Top.idx].arcs = store.pool[Top.idx].arcs
      /\ store'.size = store.size /\ store'.limit = store.limit
  BY <1>3 DEF FlagsSet
<1>5. Owned(store', Pop) /\ Shared(store', pins)
  <2>1. {} \cap Expanding = {}
    OBVIOUS
  <2> QED
    BY <1>1, <1>4, <2>1, EndedKeeps
<1>6. Covered(store', known)
  BY <1>2, <1>4 DEF CacheInv, Covered
<1> QED
  BY <1>1, <1>4, <1>5, <1>6 DEF CacheInv, Bounds, Bounded

LEMMA EndFinalKeeps ==
  ASSUME CacheAssumption, CacheInv, EndFinal
  PROVE  CacheInv' /\ store'.limit = store.limit
<1>1. /\ stack # <<>> /\ Top.kind = "final" /\ stack' = Pop
      /\ store' = [SetFlags(store, Top.idx, {"FINAL", "VISITED"}, {"EXPANDING_FINAL"})
                     EXCEPT !.pool[Top.idx].final = IsFinal[Top.state]]
      /\ UNCHANGED <<pins, cache_start, known, expanded>>
  BY DEF EndFinal
<1>2. /\ Top.idx \in DOMAIN store.pool /\ store \in Sound
      /\ store.pool[Top.idx].id = Top.state
  BY <1>1, TopOwns DEF CacheInv
<1>3. Answered(store, store', Top.idx, "final")
  BY <1>1, <1>2, FinalSound
<1>4. /\ store' \in Sound /\ DOMAIN store'.pool = DOMAIN store.pool /\ store'.map = store.map
      /\ \A i \in DOMAIN store.pool \ {Top.idx} : store'.pool[i] = store.pool[i]
      /\ store'.pool[Top.idx].id = store.pool[Top.idx].id
      /\ store'.pool[Top.idx].flags =
           (store.pool[Top.idx].flags \cup {"FINAL", "VISITED"}) \ {GuardFlag(Top.kind)}
      /\ store'.pool[Top.idx].arcs = store.pool[Top.idx].arcs
      /\ store'.size = store.size /\ store'.limit = store.limit
  BY <1>1, <1>3 DEF Answered, DoneFlag, GuardFlag
<1>5. Owned(store', Pop) /\ Shared(store', pins)
  <2>1. {"FINAL", "VISITED"} \cap Expanding = {}
    BY DEF Expanding
  <2> QED
    BY <1>1, <1>4, <2>1, EndedKeeps
<1>6. Covered(store', known)
  BY <1>2, <1>4 DEF CacheInv, Covered
<1> QED
  BY <1>1, <1>4, <1>5, <1>6 DEF CacheInv, Bounds, Bounded

\* The count of known states covers the arcs that have come.
LEMMA KnowsTargets ==
  ASSUME CacheAssumption, known \in Nat, NEW arcs \in Seq(Id), KnowTargets(arcs)
  PROVE  known' \in Nat /\ known <= known' /\ \A k \in DOMAIN arcs : arcs[k] < known'
<1> DEFINE T == {known, 1} \cup {arcs[i] + 1 : i \in DOMAIN arcs}
           b == known + NumStates + 1
<1>1. \A i \in DOMAIN arcs : arcs[i] \in 0 .. NumStates - 1
  <2>1. \A i \in DOMAIN arcs : arcs[i] \in Id
    OBVIOUS
  <2> QED
    BY <2>1 DEF Id
<1>2. NumStates \in Nat
  BY DEF CacheAssumption
<1>3. T \in SUBSET Nat /\ T # {} /\ b \in Nat /\ \A x \in T : x <= b
  BY <1>1, <1>2
<1>4. known \in T /\ \A i \in DOMAIN arcs : arcs[i] + 1 \in T
  OBVIOUS
<1>5. known' = Max(T)
  BY DEF KnowTargets
<1> HIDE DEF T, b
<1>6. known' \in T /\ \A x \in T : x <= known'
  BY <1>3, <1>5, MaxOfBounded
<1> QED
  BY <1>1, <1>2, <1>3, <1>4, <1>6

LEMMA EndArcsKeeps ==
  ASSUME CacheAssumption, CacheInv, EndArcs
  PROVE  /\ CacheInv'
         /\ store.limit <= store'.limit
         /\ store.limit < store'.limit => AllProtected(store', Top.idx)
<1> DEFINE arcs == Targets[Top.state]
           full == Fill(store, Top.idx, arcs)
<1>1. /\ stack # <<>> /\ Top.kind = "arcs" /\ stack' = Pop
      /\ store' = Collect(full, Top.idx)
      /\ KnowTargets(arcs) /\ SetExpanded(Top.state)
      /\ UNCHANGED <<pins, cache_start>>
  BY DEF EndArcs
<1>2. /\ Top.idx \in DOMAIN store.pool /\ store \in Sound /\ store \in Stores /\ Top.state \in Id
      /\ store.pool[Top.idx].id = Top.state
      /\ "EXPANDING_ARCS" \in store.pool[Top.idx].flags
  BY <1>1, TopOwns DEF CacheInv, GuardFlag, Sound
<1>3. arcs \in Seq(Id) /\ known \in Nat
  BY <1>2, TargetsAreArcs DEF CacheInv, Bounds
<1>4. known' \in Nat /\ known <= known' /\ \A k \in DOMAIN arcs : arcs[k] < known'
  <2> HIDE DEF arcs
  <2> QED
    BY <1>1, <1>3, KnowsTargets
<1>5. Answered(store, full, Top.idx, "arcs")
  BY <1>2, FillSound
<1> HIDE DEF full
<1>6. /\ full \in Sound /\ DOMAIN full.pool = DOMAIN store.pool /\ full.map = store.map
      /\ \A i \in DOMAIN store.pool \ {Top.idx} : full.pool[i] = store.pool[i]
      /\ full.pool[Top.idx].id = store.pool[Top.idx].id
      /\ full.pool[Top.idx].flags =
           (store.pool[Top.idx].flags \cup {"ARCS", "VISITED"}) \ {GuardFlag(Top.kind)}
      /\ full.pool[Top.idx].arcs = arcs
      /\ full.limit = store.limit
  BY <1>1, <1>2, <1>5 DEF Answered, DoneFlag, GuardFlag
<1> HIDE DEF arcs
<1>7. Owned(full, Pop) /\ Shared(full, pins)
  <2>1. {"ARCS", "VISITED"} \cap Expanding = {}
    BY DEF Expanding
  <2> QED
    BY <1>1, <1>6, <2>1, EndedKeeps
<1>8. Covered(full, known')
  <2>1. Covered(store, known')
    BY <1>2, <1>3, <1>4, CoveredMore DEF CacheInv
  <2> QED
    BY <1>2, <1>4, <1>6, <2>1 DEF Covered
<1>9. Collected(full, store', Top.idx)
  BY <1>1, <1>6, CollectSound
<1>10. Owned(store', Pop) /\ Shared(store', pins) /\ Covered(store', known')
  BY <1>6, <1>7, <1>8, <1>9, CollectedKeeps
<1>11. Bounds'
  <2>1. cache_start' = cache_start /\ cache_start \in Id \cup {None} /\ cache_start < known
    BY <1>1 DEF CacheInv, Bounds
  <2>2. cache_start' < known'
    BY <1>3, <1>4, <2>1 DEF Id, None, CacheAssumption
  <2>3. /\ expanded' = [set |-> expanded.set \cup {Top.state},
                        min |-> IF Top.state = expanded.min THEN Top.state + 1 ELSE expanded.min,
                        max |-> IF Top.state > expanded.max THEN Top.state ELSE expanded.max]
        /\ expanded \in [set : SUBSET Id, min : Nat, max : Id \cup {None}]
        /\ \A s \in 0 .. expanded.min - 1 : s \in expanded.set
    BY <1>1 DEF SetExpanded, CacheInv, Bounds
  <2>4. Top.state \in Nat
    BY <1>2 DEF Id, CacheAssumption
  <2>5. expanded' \in [set : SUBSET Id, min : Nat, max : Id \cup {None}]
    BY <1>2, <2>3, <2>4
  <2>6. \A s \in 0 .. expanded'.min - 1 : s \in expanded'.set
    BY <2>3, <2>4
  <2> QED
    BY <1>4, <2>1, <2>2, <2>5, <2>6 DEF Bounds
<1>12. Bounded'
  <2>1. store' \in Stores
    BY <1>9 DEF Collected, Sound
  <2>2. store'.size \in Nat /\ store'.limit \in Nat /\ StateSize \in Nat
    BY <2>1, StoreParts DEF CacheAssumption
  <2> QED
    BY <1>9, <2>2 DEF Collected, Bounded
<1>13. CacheInv'
  BY <1>1, <1>9, <1>10, <1>11, <1>12 DEF CacheInv, Collected
<1> QED
  BY <1>6, <1>9, <1>13 DEF Collected

\* Every step keeps the invariant, and the limit grows only when nothing is left
\* that may be evicted.
LEMMA StepKeeps ==
  ASSUME CacheAssumption, CacheInv, [CacheNext]_cacheVars
  PROVE  /\ CacheInv'
         /\ store'.limit > store.limit =>
              \A i \in DOMAIN store'.pool :
                \/ Pinned(i, store')
                \/ store'.pool[i].flags \cap Expanding # {}
                \/ \E k \in DOMAIN stack : stack[k].idx = i
         /\ store'.limit < store.limit => store' = EmptyStore
<1>1. store.limit \in Nat
  BY StoreParts DEF CacheInv, Sound
<1>2. ASSUME CacheInv' PROVE store'.limit \in Nat
  BY <1>2, StoreParts DEF CacheInv, Sound
<1>3. ASSUME CacheInv', store'.limit = store.limit
      PROVE  ~ (store'.limit > store.limit) /\ ~ (store'.limit < store.limit)
  BY <1>1, <1>3
<1>4. CASE SetStart
  <2>1. CacheInv' /\ store' = store
    BY <1>4, SetStartKeeps DEF SetStart
  <2> QED
    BY <1>3, <2>1
<1>5. ASSUME NEW s \in Id, NEW kind \in Kind, Hit(s, kind)
      PROVE  CacheInv' /\ store'.limit = store.limit
  BY <1>5, HitKeeps
<1>6. ASSUME NEW s \in Id, NEW kind \in Kind, Begin(s, kind)
      PROVE  /\ CacheInv'
             /\ store.limit <= store'.limit
             /\ store.limit < store'.limit =>
                  \A i \in DOMAIN store'.pool :
                    Pinned(i, store') \/ store'.pool[i].flags \cap Expanding # {}
  BY <1>6, BeginKeeps
<1>7. ASSUME NEW s \in Id, Pin(s) PROVE CacheInv' /\ store'.limit = store.limit
  BY <1>7, PinKeeps
<1>8. ASSUME NEW s \in Id, Unpin(s) PROVE CacheInv' /\ store' = store
  BY <1>8, UnpinKeeps DEF Unpin
<1>9. CASE EndFinal
  BY <1>3, <1>9, EndFinalKeeps
<1>10. CASE EndArcs
  <2>1. CacheInv' /\ store.limit <= store'.limit
        /\ (store.limit < store'.limit => AllProtected(store', Top.idx))
    BY <1>10, EndArcsKeeps
  <2>2. Len(stack) \in DOMAIN stack /\ Top = stack[Len(stack)]
    BY <1>10, TopOwns DEF EndArcs
  <2>3. ~ (store'.limit < store.limit) /\ (store'.limit > store.limit => store.limit < store'.limit)
    BY <1>1, <1>2, <2>1
  <2>4. ASSUME AllProtected(store', Top.idx), NEW i \in DOMAIN store'.pool
        PROVE  \/ Pinned(i, store')
               \/ store'.pool[i].flags \cap Expanding # {}
               \/ \E k \in DOMAIN stack : stack[k].idx = i
    <3>1. i = Top.idx \/ Pinned(i, store') \/ store'.pool[i].flags \cap Expanding # {}
      BY <2>4 DEF AllProtected, Protected
    <3> QED
      BY <2>2, <3>1
  <2> QED
    BY <2>1, <2>3, <2>4
<1>11. CASE Unwind
  BY <1>3, <1>11, UnwindKeeps
<1>12. CASE ClearCache
  <2>1. CacheInv' /\ store' = EmptyStore
    BY <1>12, ClearKeeps
  <2>2. DOMAIN store'.pool = {}
    BY <2>1 DEF EmptyStore
  <2> QED
    BY <2>1, <2>2
<1>13. CASE UNCHANGED cacheVars
  <2>1. store' = store /\ stack' = stack /\ pins' = pins /\ cache_start' = cache_start
        /\ known' = known /\ expanded' = expanded
    BY <1>13 DEF cacheVars
  <2>2. CacheInv'
    BY <2>1 DEF CacheInv, Bounds, Bounded
  <2> QED
    BY <1>3, <2>1, <2>2
<1>14. ASSUME NEW s \in Id, NEW kind \in Kind, Begin(s, kind)
       PROVE  /\ CacheInv'
              /\ store'.limit > store.limit =>
                   \A i \in DOMAIN store'.pool :
                     Pinned(i, store') \/ store'.pool[i].flags \cap Expanding # {}
              /\ ~ (store'.limit < store.limit)
  <2>1. CacheInv'
    BY <1>6, <1>14
  <2>2. store'.limit \in Nat
    BY <1>2, <2>1
  <2> QED
    BY <1>1, <1>6, <1>14, <2>1, <2>2
<1>15. CASE \E s \in Id : \/ \E kind \in {"final", "arcs"} : Hit(s, kind) \/ Begin(s, kind)
                          \/ Pin(s)
                          \/ Unpin(s)
  <2>1. PICK s \in Id : \/ \E kind \in Kind : Hit(s, kind) \/ Begin(s, kind)
                        \/ Pin(s)
                        \/ Unpin(s)
    BY <1>15 DEF Kind
  <2>2. CASE \E kind \in Kind : Hit(s, kind)
    BY <1>3, <1>5, <2>2
  <2>3. CASE \E kind \in Kind : Begin(s, kind)
    BY <1>14, <2>3
  <2>4. CASE Pin(s)
    BY <1>3, <1>7, <2>4
  <2>5. CASE Unpin(s)
    BY <1>3, <1>8, <2>5
  <2> QED
    BY <2>1, <2>2, <2>3, <2>4, <2>5
<1> QED
  BY <1>4, <1>9, <1>10, <1>11, <1>12, <1>13, <1>15 DEF CacheNext

-----------------------------------------------------------------------------
(***************************************************************************)
(* What the invariant says                                                 *)
(***************************************************************************)

\* Following the links from the head comes to every node: each round of it finds
\* another, as long as there are any.
LEMMA ListIsWhole ==
  ASSUME CacheAssumption, store \in Sound
  PROVE  Listed = Pool
<1> DEFINE head == {store.head} \ {None}
           Grow(S) == S \cup ({store.pool[i].next : i \in S} \ {None})
           Reach(m, u) == u = [k \in 0 .. m |-> IF k = 0 THEN head ELSE Grow(u[k - 1])]
           S == {m \in Nat : \E u : Reach(m, u)}
           D == DOMAIN store.pool
<1>1. Listed = (CHOOSE reach : Reach(NumStates, reach))[NumStates]
  BY DEF Listed
<1> HIDE DEF Grow, head
<1>2. 0 \in S
  <2>1. Reach(0, [k \in 0 .. 0 |-> head])
    OBVIOUS
  <2> QED
    BY <2>1
<1>3. ASSUME NEW m \in Nat, m \in S PROVE m + 1 \in S
  <2>1. PICK u : Reach(m, u)
    BY <1>3
  <2> DEFINE v == [k \in 0 .. m + 1 |-> IF k <= m THEN u[k] ELSE Grow(u[m])]
  <2>2. Reach(m + 1, v)
    <3>1. ASSUME NEW k \in 0 .. m + 1
          PROVE v[k] = IF k = 0 THEN head ELSE Grow(v[k - 1])
      BY <2>1
    <3> QED
      BY <3>1
  <2> HIDE DEF v
  <2> QED
    BY <2>2
<1>4. NumStates \in Nat
  BY DEF CacheAssumption
<1>5. PICK u : Reach(NumStates, u)
  BY <1>2, <1>3, <1>4, SetInduction
<1> DEFINE t == CHOOSE reach : Reach(NumStates, reach)
<1>6. Reach(NumStates, t)
  BY <1>5
<1> HIDE DEF t
<1>7. t[0] = head /\ \A k \in 0 .. NumStates - 1 : t[k + 1] = Grow(t[k])
  BY <1>4, <1>6
<1>8. store \in Stores /\ Linked(store) /\ Rank(store) # {} /\ D \subseteq 0 .. NumStates - 1
  BY StoreParts DEF Sound, Slot
<1>9. \A i \in D : store.pool[i].next \in D \cup {None}
  BY <1>8, LinkedParts
<1>10. IF D = {} THEN head = {} ELSE head = {store.head} /\ store.head \in D
  BY <1>8, LinkedParts DEF head
<1> HIDE DEF D
<1> DEFINE T == {m \in Nat : m <= NumStates =>
                   /\ t[m] \subseteq D
                   /\ head \subseteq t[m]
                   /\ t[m] = D \/ (IsFiniteSet(t[m]) /\ Cardinality(t[m]) > m)}
<1>11. 0 \in T
  <2>1. D # {} => Cardinality({store.head}) = 1 /\ IsFiniteSet({store.head})
    BY FS_Singleton
  <2> QED
    BY <1>7, <1>10, <2>1
<1>12. ASSUME NEW m \in Nat, m \in T PROVE m + 1 \in T
  <2> SUFFICES ASSUME m + 1 <= NumStates
               PROVE  /\ t[m + 1] \subseteq D
                      /\ head \subseteq t[m + 1]
                      /\ \/ t[m + 1] = D
                         \/ IsFiniteSet(t[m + 1]) /\ Cardinality(t[m + 1]) > m + 1
    OBVIOUS
  <2> DEFINE A == t[m]
             B == t[m + 1]
  <2>1. /\ A \subseteq D
        /\ head \subseteq A
        /\ A = D \/ (IsFiniteSet(A) /\ Cardinality(A) > m)
    BY <1>4, <1>12
  <2>2. B = Grow(A)
    BY <1>4, <1>7
  <2> HIDE DEF A, B, T
  <2>3. A \subseteq B /\ B \subseteq D
    BY <1>9, <2>1, <2>2 DEF Grow
  <2>4. CASE A = D
    BY <2>1, <2>3, <2>4 DEF B
  <2>5. CASE A # D
    <3> DEFINE U == D \ A
    <3>1. U # {} /\ store.head \notin U /\ U \in SUBSET DOMAIN store.pool
      BY <1>10, <2>1, <2>5 DEF D
    <3> HIDE DEF U
    <3>2. PICK i \in U : store.pool[i].prev \in DOMAIN store.pool \ U
      BY <1>8, <3>1, EntersFromOutside
    <3>3. store.pool[store.pool[i].prev].next = i /\ i # None
      BY <1>8, <3>1, <3>2, LinkedParts
    <3>4. store.pool[i].prev \in A
      BY <3>2 DEF U, D
    <3>5. i \in B /\ i \notin A
      BY <2>2, <3>2, <3>3, <3>4 DEF U, Grow
    <3>6. IsFiniteSet(B) /\ Cardinality(B) \in Nat
      BY <1>8, <2>3, PoolIsFinite DEF D
    <3>7. IsFiniteSet(A) /\ Cardinality(A) \in Nat /\ Cardinality(A) > m
      BY <2>1, <2>5, FS_CardinalityType
    <3>8. Cardinality(A \cup {i}) = Cardinality(A) + 1
      BY <3>5, <3>7, FS_AddElement
    <3>9. Cardinality(A \cup {i}) <= Cardinality(B)
      <4>1. A \cup {i} \in SUBSET B
        BY <2>3, <3>5
      <4> QED
        BY <3>6, <4>1, FS_Subset
    <3>10. Cardinality(B) > m + 1
      BY <3>6, <3>7, <3>8, <3>9
    <3> QED
      BY <2>1, <2>3, <3>6, <3>10 DEF B
  <2> QED
    BY <2>4, <2>5
<1>13. NumStates \in T
  <2> HIDE DEF T
  <2> QED
    BY <1>4, <1>11, <1>12, SetInduction
<1>14. t[NumStates] = D
  <2> SUFFICES ASSUME t[NumStates] # D PROVE FALSE
    OBVIOUS
  <2> DEFINE A == t[NumStates]
  <2>1. A \subseteq D /\ IsFiniteSet(A) /\ Cardinality(A) > NumStates
    BY <1>4, <1>13
  <2> HIDE DEF A, T
  <2>2. A \in SUBSET (0 .. NumStates - 1)
    BY <1>8, <2>1 DEF D
  <2>3. IsFiniteSet(0 .. NumStates - 1) /\ Cardinality(0 .. NumStates - 1) <= NumStates
    <3>1. IsFiniteSet(0 .. NumStates - 1)
          /\ Cardinality(0 .. NumStates - 1) =
               IF 0 > NumStates - 1 THEN 0 ELSE (NumStates - 1) - 0 + 1
      BY <1>4, FS_Interval
    <3> QED
      BY <1>4, <3>1
  <2>4. Cardinality(A) <= Cardinality(0 .. NumStates - 1)
    BY <2>2, <2>3, FS_Subset
  <2>5. Cardinality(A) \in Nat /\ Cardinality(0 .. NumStates - 1) \in Nat
    BY <2>1, <2>3, FS_CardinalityType
  <2> QED
    BY <1>4, <2>1, <2>3, <2>4, <2>5
<1>15. Listed = t[NumStates]
  BY <1>1 DEF t
<1> QED
  BY <1>14, <1>15 DEF D, Pool

\* The invariant implies that the store is coherent.
LEMMA InvIsCoherent ==
  ASSUME CacheAssumption, CacheInv
  PROVE  StoreIsCoherent
<1>1. store \in Sound /\ store \in Stores /\ Owned(store, stack) /\ Bounds
      /\ Linked(store) /\ Mapped(store) /\ store.size = Total(Weights(store))
  BY DEF CacheInv, Sound
<1>2. CacheTypeOK
  <2>1. \A i \in Pool : /\ store.pool[i].id \in Id
                        /\ store.pool[i].flags \subseteq Flag
                        /\ {store.pool[i].next, store.pool[i].prev} \subseteq Pool \cup {None}
    BY <1>1, StoreParts, NodeParts DEF Linked, Pool
  <2>2. \A k \in DOMAIN stack : stack[k] \in [state : Id, idx : Slot, kind : {"final", "arcs"}]
    BY <1>1, FrameParts DEF Frame, Kind
  <2>3. {store.head, store.tail} \subseteq Pool \cup {None}
    BY <1>1 DEF Linked, Pool
  <2>4. Pool \subseteq Slot /\ {store.size, store.limit, known} \subseteq Nat
    BY <1>1, StoreParts DEF Bounds, Pool
  <2> QED
    BY <2>1, <2>2, <2>3, <2>4 DEF CacheTypeOK
<1>3. Coherent
  <2>1. Listed = Pool
    BY <1>1, ListIsWhole
  <2> QED
    BY <1>1, <2>1 DEF Coherent, Linked, Mapped, Pool
<1>4. SizeIsExact
  BY <1>1 DEF SizeIsExact, Weights, Weight, Pool
<1>5. ExpansionsKeepTheirNodes
  BY <1>1 DEF Owned, ExpansionsKeepTheirNodes, Pool
<1>6. FlagsHaveExpansions
  BY <1>1 DEF Owned, FlagsHaveExpansions, Pool, Kind
<1> QED
  BY <1>2, <1>3, <1>4, <1>5, <1>6 DEF StoreIsCoherent

\* The invariant implies that evictions do not show.
LEMMA InvIsInvisible ==
  ASSUME CacheAssumption, CacheInv
  PROVE  EvictionIsInvisible
<1>1. store \in Stores /\ Shared(store, pins) /\ Covered(store, known) /\ Bounds
  BY DEF CacheInv, Sound
<1>2. CachedIsTheAnswer
  BY <1>1, StoreParts, NodeParts DEF CachedIsTheAnswer, Pool
<1>3. PinnedStayCached
  BY <1>1 DEF Shared, PinnedStayCached, NodeOf
<1>4. KnownCovers
  BY <1>1 DEF Covered, Bounds, KnownCovers, Pool
<1>5. ExpandedBelowMin
  BY <1>1 DEF Bounds, ExpandedBelowMin
<1> QED
  BY <1>2, <1>3, <1>4, <1>5 DEF EvictionIsInvisible

-----------------------------------------------------------------------------
(***************************************************************************)
(* The theorems                                                            *)
(***************************************************************************)

\* Every reachable state has the invariant.
LEMMA CacheInvHolds ==
  ASSUME CacheAssumption
  PROVE  CacheSpec => []CacheInv
<1>1. CacheInit => CacheInv
  BY CacheInitHolds
<1>2. CacheInv /\ [CacheNext]_cacheVars => CacheInv'
  BY StepKeeps
<1> QED
  BY <1>1, <1>2, PTL DEF CacheSpec

\* cache.rs: pool, map, list, hand and byte count describe the same nodes, and
\* expansions and the nodes they work on belong to each other, however calls nest,
\* panic, evict and clear.
THEOREM StoreStaysCoherent ==
  ASSUME CacheAssumption
  PROVE  CacheSpec => []StoreIsCoherent
<1>1. CacheInv => StoreIsCoherent
  BY InvIsCoherent
<1>2. CacheSpec => []CacheInv
  BY CacheInvHolds
<1> QED
  BY <1>1, <1>2, PTL

\* cache.rs: what is cached is the expander's answer, what a reader holds stays
\* cached, and the counts of known and expanded states outlive what they counted.
THEOREM EvictionStaysInvisible ==
  ASSUME CacheAssumption
  PROVE  CacheSpec => []EvictionIsInvisible
<1>1. CacheInv => EvictionIsInvisible
  BY InvIsInvisible
<1>2. CacheSpec => []CacheInv
  BY CacheInvHolds
<1> QED
  BY <1>1, <1>2, PTL

\* cache.rs, gc: with collection on the bytes stay within the limit and a node,
\* and the limit grows only when both sweeps have left nothing but what readers
\* hold and expansions work on, and falls in a clear only.
THEOREM LimitsAreKept ==
  ASSUME CacheAssumption
  PROVE  CacheSpec => LimitsHold
<1>1. CacheInv => Bounded
  BY DEF CacheInv
<1>2. CacheInv /\ [CacheNext]_cacheVars =>
        [/\ store'.limit > store.limit =>
              \A i \in DOMAIN store'.pool :
                \/ Pinned(i, store')
                \/ store'.pool[i].flags \cap Expanding # {}
                \/ \E k \in DOMAIN stack : stack[k].idx = i
         /\ store'.limit < store.limit => store' = EmptyStore]_cacheVars
  BY StepKeeps
<1>3. CacheSpec => []CacheInv
  BY CacheInvHolds
<1> QED
  BY <1>1, <1>2, <1>3, PTL DEF CacheSpec, LimitsHold, LimitGrowsLast
=============================================================================
