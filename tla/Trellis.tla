------------------------------ MODULE Trellis ------------------------------
(***************************************************************************)
(* The exact solver of a trellis: T frames against N + 1 positions, every  *)
(* transition consuming a frame and advancing a bounded number of places,  *)
(* from position 0 to position N.  best_path keeps two rows of scores that *)
(* change places and are never cleared, and packs the code each cell took  *)
(* into bytes as the cells go by; posteriors keeps every forward row and   *)
(* two backward rows.  Both look only at the band of cells that a complete *)
(* path can stand in.                                                      *)
(*                                                                         *)
(* Costs are whole numbers, with Inf for what is not there.  posteriors    *)
(* works on the numbers whose negated logarithms the costs are, so that    *)
(* its two operations are + and *, and does not divide by the total.       *)
(***************************************************************************)
EXTENDS Integers, Sequences, FiniteSetsExt

CONSTANTS
  Inf,        \* an infinite cost
  Trellises,  \* those solved: frames, positions, reach, degree and the transitions
              \* into and out of each cell in each frame, by their codes
  Mass(_)     \* the number a cost stands for in posteriors

VARIABLES
  trellis,    \* the trellis
  task,       \* what is asked of it: "best" or "posteriors"
  pc,         \* where the solver is
  t,          \* its frame
  cell,       \* its cell in this frame
  cur, next,  \* the rows of scores, behind as many infinite cells as the reach
  plane,      \* the traceback: a frame's bytes, each a function from slots to codes
  writer,     \* the byte being filled, where it goes, and whether it waits to be stored
  path,       \* the answer: the codes and positions of the frames from t on, and the cost
  alpha,      \* the forward rows
  visited     \* the transitions visited with what each carries

vars == <<trellis, task, pc, t, cell, cur, next, plane, writer, path, alpha, visited>>

T     == trellis.frames
N     == trellis.positions
Reach == trellis.reach
Codes == 0 .. trellis.degree - 1

Step(advance, cost) == [advance |-> advance, cost |-> cost]
ABSENT == Step(0, Inf)

lowest(a, b) == IF a < b THEN a ELSE b
Along(a, b) == IF a = Inf \/ b = Inf THEN Inf ELSE a + b

\* The cells a complete path can stand in after a number of frames.
Low(frame)  == IF N > Reach * (T - frame) THEN N - Reach * (T - frame) ELSE 0
High(frame) == lowest(Reach * frame, N)

Band(frame) == Low(frame) .. High(frame)

\* The transitions that leave a cell, read off those that enter the cells they
\* could reach.
DeriveStepsOutOf(tr, frame, position) ==
  [c \in 0 .. tr.degree - 1 |->
     LET to == {a \in 0 .. tr.reach : /\ position + a <= tr.positions
                                      /\ tr.into[frame][position + a][c].advance = a
                                      /\ tr.into[frame][position + a][c].cost # Inf}
     IN IF to = {} THEN ABSENT ELSE tr.into[frame][position + Max(to)][c]]

-----------------------------------------------------------------------------
(* The traceback.                                                          *)

CodeBits(degree) == IF degree <= 2 THEN 1 ELSE IF degree <= 4 THEN 2 ELSE IF degree <= 16 THEN 4 ELSE 8
PerByte == 8 \div CodeBits(trellis.degree)

Blank  == [slot \in 0 .. PerByte - 1 |-> 0]
Unread == [frame \in 0 .. T - 1 |-> [byte \in 0 .. N \div PerByte |-> Blank]]

NewWriter == [packed |-> Blank, at |-> 0, pending |-> FALSE]

\* A byte is stored when its last slot is filled.
Full(position) == position % PerByte = PerByte - 1
Packed(position, code) == [writer.packed EXCEPT ![position % PerByte] = code]

Put(position, code) ==
  LET byte == position \div PerByte IN
  IF Full(position)
  THEN /\ plane' = [plane EXCEPT ![t][byte] = Packed(position, code)]
       /\ writer' = [packed |-> Blank, at |-> byte, pending |-> FALSE]
  ELSE /\ plane' = plane
       /\ writer' = [packed |-> Packed(position, code), at |-> byte, pending |-> TRUE]

\* Mutant: what waits at the end of a row is lost.
FinishLost == plane' = plane

Finish == plane' = IF writer.pending THEN [plane EXCEPT ![t][writer.at] = writer.packed] ELSE plane

Get(frame, position) == plane[frame][position \div PerByte][position % PerByte]

-----------------------------------------------------------------------------
(* best_path.                                                              *)

Row(first) == [i \in -Reach .. N |-> IF i = 0 THEN first ELSE Inf]

Idle == [codes |-> <<>>, positions |-> <<>>, cost |-> Inf]

Init ==
  /\ trellis \in Trellises
  /\ task \in {"best", "posteriors"}
  /\ pc = "start" /\ t = 0 /\ cell = 0
  /\ cur = Row(0) /\ next = Row(Inf)
  /\ plane = Unread /\ writer = NewWriter /\ path = Idle
  /\ alpha = <<>> /\ visited = {}

\* A degree that no code could name is refused; with more positions than the
\* frames can advance through there is nothing to look for.
Start ==
  /\ pc = "start"
  /\ pc' = IF trellis.degree \notin 1 .. 256 THEN "refused"
           ELSE IF Band(0) = {} THEN "none"
           ELSE IF task = "posteriors" THEN "forward"
           ELSE IF T = 0 THEN "end" ELSE "cells"
  /\ cell' = Low(1)
  /\ alpha' = IF pc' = "forward" THEN <<[i \in -Reach .. N |-> IF i = 0 THEN 1 ELSE 0]>> ELSE <<>>
  /\ UNCHANGED <<trellis, task, t, cur, next, plane, writer, path, visited>>

Total(i, c) == Along(cur[i - trellis.into[t][i][c].advance], trellis.into[t][i][c].cost)

\* The first listed of the transitions that are strictly better than the others.
BestTotal(i) == Min({Total(i, c) : c \in Codes})

BestCode(i) == IF BestTotal(i) = Inf THEN 0 ELSE Min({c \in Codes : Total(i, c) = BestTotal(i)})

Cell ==
  /\ pc = "cells" /\ cell \in Band(t + 1)
  /\ next' = [next EXCEPT ![cell] = BestTotal(cell)]
  /\ Put(cell, BestCode(cell))
  /\ cell' = cell + 1
  /\ UNCHANGED <<trellis, task, pc, t, cur, path, alpha, visited>>

\* The rows change places; neither is cleared.
FinishRow ==
  /\ pc = "cells" /\ cell \notin Band(t + 1)
  /\ Finish /\ writer' = NewWriter
  /\ cur' = next /\ next' = cur
  /\ t' = t + 1
  /\ pc' = IF t + 1 = T THEN "end" ELSE "cells"
  /\ cell' = IF t + 1 = T THEN N ELSE Low(t + 2)
  /\ UNCHANGED <<trellis, task, path, alpha, visited>>

End ==
  /\ pc = "end"
  /\ pc' = IF cur[N] = Inf THEN "none" ELSE IF T = 0 THEN "done" ELSE "trace"
  /\ path' = [path EXCEPT !.cost = cur[N]]
  /\ cell' = N
  /\ UNCHANGED <<trellis, task, t, cur, next, plane, writer, alpha, visited>>

\* Back from position N, a frame at a time, along the codes.
Trace ==
  /\ pc = "trace"
  /\ LET code == Get(t - 1, cell) IN
     /\ path' = [path EXCEPT !.codes = <<code>> \o @, !.positions = <<cell>> \o @]
     /\ cell' = cell - trellis.into[t - 1][cell][code].advance
  /\ t' = t - 1
  /\ pc' = IF t = 1 THEN "done" ELSE "trace"
  /\ UNCHANGED <<trellis, task, cur, next, plane, writer, alpha, visited>>

-----------------------------------------------------------------------------
(* posteriors.                                                             *)

\* Every transition into a cell contributes.
Forward ==
  /\ pc = "forward" /\ t < T
  /\ alpha' = Append(alpha,
       [i \in -Reach .. N |->
          IF i \in Band(t + 1)
          THEN MapThenSumSet(LAMBDA c : alpha[t + 1][i - trellis.into[t][i][c].advance] * Mass(trellis.into[t][i][c].cost), Codes)
          ELSE 0])
  /\ t' = t + 1
  /\ UNCHANGED <<trellis, task, pc, cell, cur, next, plane, writer, path, visited>>

Turn ==
  /\ pc = "forward" /\ t = T
  /\ pc' = IF alpha[T + 1][N] = 0 THEN "none" ELSE IF T = 0 THEN "done" ELSE "backward"
  /\ cur' = [i \in 0 .. N |-> 0]
  /\ next' = [i \in 0 .. N |-> IF i = N THEN 1 ELSE 0]
  /\ UNCHANGED <<trellis, task, t, cell, plane, writer, path, alpha, visited>>

\* What a transition out of a cell contributes: nothing, when it leaves the band.
Ahead(frame, i, c) ==
  LET step == trellis.out[frame][i][c] IN
  IF i + step.advance \in Band(frame + 1) THEN Mass(step.cost) * next[i + step.advance] ELSE 0

\* One frame back, visiting its transitions; the rows change places uncleared.
Backward ==
  /\ pc = "backward"
  /\ LET frame == t - 1 IN
     /\ next' = [i \in 0 .. N |-> IF i \in Band(frame) THEN MapThenSumSet(LAMBDA c : Ahead(frame, i, c), Codes) ELSE cur[i]]
     /\ visited' = visited \cup
          {[frame |-> frame, position |-> p[1] + trellis.out[frame][p[1]][p[2]].advance, code |-> p[2],
            mass |-> alpha[frame + 1][p[1]] * Ahead(frame, p[1], p[2])] :
             p \in {q \in Band(frame) \X Codes : Ahead(frame, q[1], q[2]) # 0 /\ alpha[frame + 1][q[1]] # 0}}
  /\ cur' = next
  /\ t' = t - 1
  /\ pc' = IF t = 1 THEN "done" ELSE "backward"
  /\ UNCHANGED <<trellis, task, cell, plane, writer, path, alpha>>

Next == Start \/ Cell \/ FinishRow \/ End \/ Trace \/ Forward \/ Turn \/ Backward

Spec == Init /\ [][Next]_vars /\ WF_vars(Next)

-----------------------------------------------------------------------------
(* What an implementation of a trellis promises (axioms::check).           *)

Axioms(tr) ==
  \A f \in 0 .. tr.frames - 1 : \A p \in 0 .. tr.positions : \A c \in 0 .. tr.degree - 1 :
    /\ tr.into[f][p][c].cost # Inf => tr.into[f][p][c].advance \in 0 .. lowest(p, tr.reach)
    /\ Cardinality({a \in 0 .. tr.reach : /\ p + a <= tr.positions
                                          /\ tr.into[f][p + a][c].advance = a
                                          /\ tr.into[f][p + a][c].cost # Inf}) <= 1
    /\ LET derived == DeriveStepsOutOf(tr, f, p)[c] IN
       tr.out[f][p][c] = derived \/ (tr.out[f][p][c].cost = Inf /\ derived.cost = Inf)

TrellisesObeyTheContract == \A tr \in Trellises : Axioms(tr)

-----------------------------------------------------------------------------
(* Properties.                                                             *)

\* The complete paths of a trellis, each as its codes and positions by frames.
CompletePaths ==
  LET upto[n \in 0 .. T] ==
        IF n = 0 THEN {<<>>}
        ELSE UNION {LET here == IF p = <<>> THEN 0 ELSE p[Len(p)].position IN
                    {Append(p, [code |-> c, position |-> here + a]) :
                       <<c, a>> \in {x \in Codes \X (0 .. Reach) :
                         /\ here + x[2] <= N
                         /\ trellis.into[n - 1][here + x[2]][x[1]].cost # Inf
                         /\ trellis.into[n - 1][here + x[2]][x[1]].advance = x[2]}} : p \in upto[n - 1]}
  IN {p \in upto[T] : (IF p = <<>> THEN 0 ELSE p[T].position) = N}

CostOf(p) == MapThenSumSet(LAMBDA f : trellis.into[f - 1][p[f].position][p[f].code].cost, DOMAIN p)
ProductOf(p) ==
  LET upto[n \in 0 .. Len(p)] ==
        IF n = 0 THEN 1 ELSE upto[n - 1] * Mass(trellis.into[n - 1][p[n].position][p[n].code].cost)
  IN upto[Len(p)]

Answer == [f \in 1 .. T |-> [code |-> path.codes[f], position |-> path.positions[f]]]

\* What the traceback reads back is a path, and no complete path is lighter
\* ("The best path through `trellis`, exactly", trellis.rs:333), in whatever bytes
\* and rows the codes and scores of earlier frames were left.
BestPathIsExact ==
  /\ pc = "done" /\ task = "best" =>
       /\ Len(path.codes) = T /\ Answer \in CompletePaths /\ CostOf(Answer) = path.cost
       /\ \A p \in CompletePaths : path.cost <= CostOf(p)
  /\ pc = "none" => CompletePaths = {}

\* The posterior of a transition is what the complete paths that take it carry,
\* frame by frame all there is ("the posterior of every transition, and the
\* total", trellis.rs:416), and the backward pass ends where the forward one did.
PosteriorsAreExact ==
  pc = "done" /\ task = "posteriors" =>
    LET total == MapThenSumSet(ProductOf, CompletePaths) IN
    /\ alpha[T + 1][N] = total /\ next[0] = total
    /\ \A f \in 0 .. T - 1 : \A i \in 0 .. N : \A c \in Codes :
         MapThenSumSet(LAMBDA v : v.mass, {v \in visited : v.frame = f /\ v.position = i /\ v.code = c}) =
           MapThenSumSet(ProductOf, {p \in CompletePaths : p[f + 1] = [code |-> c, position |-> i]})

-----------------------------------------------------------------------------
(* Forced alignment: a reference of phones against a matrix of scores, as  *)
(* a trellis for the solver.  A chain names the column of each phone, what *)
(* it costs to give the phone up, and the column of silence; an alignment  *)
(* says which phone sounds in each frame; an occupancy says how the        *)
(* probability of the reference is spread over the frames.  The same chain *)
(* as an automaton is what the answers are compared with.                  *)

Seqs == INSTANCE SequencesExt

HOLD_BLANK == 0
HOLD_PHONE == 1
COMMIT     == 2
SKIP       == 3

\* Whether a transition sounds the phone of the position it lands in.
Sounds(code) == code \in {HOLD_PHONE, COMMIT}

NewChain(phones) == [phones |-> phones, skips |-> [p \in DOMAIN phones |-> Inf], blank |-> 0]

\* A cost for every phone, none of them below zero.
WithSkipCosts(chain, costs) ==
  IF DOMAIN costs # DOMAIN chain.phones \/ \E p \in DOMAIN costs : costs[p] < 0
  THEN "refused" ELSE [chain EXCEPT !.skips = costs]

Columns(chain) == {chain.blank} \cup Seqs!Range(chain.phones)

\* The four transitions into a cell, and out of it.
StepsInto(chain, scores, frame, position) ==
  LET blank == scores[frame][chain.blank]
      phone == scores[frame][chain.phones[position]]
  IN [c \in 0 .. 3 |->
        CASE c = HOLD_BLANK -> Step(0, blank)
          [] position = 0   -> ABSENT
          [] c = HOLD_PHONE -> Step(0, phone)
          [] c = COMMIT     -> Step(1, phone)
          [] OTHER          -> Step(1, Along(chain.skips[position], blank))]

StepsOutOf(chain, scores, frame, position) ==
  LET blank == scores[frame][chain.blank]
      last  == position = Len(chain.phones)
  IN [c \in 0 .. 3 |->
        CASE c = HOLD_BLANK               -> Step(0, blank)
          [] c = HOLD_PHONE /\ position > 0 -> Step(0, scores[frame][chain.phones[position]])
          [] c = COMMIT /\ ~last          -> Step(1, scores[frame][chain.phones[position + 1]])
          [] c = SKIP /\ ~last            -> Step(1, Along(chain.skips[position + 1], blank))
          [] OTHER                        -> ABSENT]

\* The chain against a matrix that has its columns.
Against(chain, scores, frames, symbols) ==
  IF \E column \in Columns(chain) : column >= symbols THEN "refused"
  ELSE [frames |-> frames, positions |-> Len(chain.phones), reach |-> 1, degree |-> 4,
        into |-> [f \in 0 .. frames - 1 |-> [i \in 0 .. Len(chain.phones) |-> StepsInto(chain, scores, f, i)]],
        out  |-> [f \in 0 .. frames - 1 |-> [i \in 0 .. Len(chain.phones) |-> StepsOutOf(chain, scores, f, i)]],
        chain |-> chain, scores |-> scores]

IsChain == "chain" \in DOMAIN trellis
Chain   == trellis.chain

-----------------------------------------------------------------------------
(* Alignments: the phone sounding in each frame, or 0, and the cost.       *)

\* Mutant: a phone given up is taken to sound.
FromPathAll(codes, positions, cost) ==
  [sounding |-> [f \in DOMAIN codes |-> IF codes[f] # HOLD_BLANK THEN positions[f] ELSE 0], cost |-> cost]

FromPath(codes, positions, cost) ==
  [sounding |-> [f \in DOMAIN codes |-> IF Sounds(codes[f]) THEN positions[f] ELSE 0], cost |-> cost]

\* The frames a position occupies, from the first that sounds it to past the last.
SpanOf(sounding, p) ==
  LET at == {f \in DOMAIN sounding : sounding[f] = p}
  IN IF at = {} THEN {} ELSE Min(at) .. Max(at)

Spans(chain, sounding) == [p \in DOMAIN chain.phones |-> SpanOf(sounding, p)]

\* A group takes the start of its first span and the end of its last.
GroupSpan(spans, group) ==
  LET live == {p \in group : spans[p] # {}}
  IN IF live = {} THEN {} ELSE Min(spans[Min(live)]) .. Max(spans[Max(live)])

Skipped(chain, sounding) == {p \in DOMAIN chain.phones : p \notin Seqs!Range(sounding)}

ColumnOf(chain, p) == IF p = 0 THEN chain.blank ELSE chain.phones[p]

AcousticCosts(chain, scores, sounding) ==
  [f \in DOMAIN sounding |-> scores[f - 1][ColumnOf(chain, sounding[f])]]

-----------------------------------------------------------------------------
(* The chain as an automaton: its arcs, with the label offset at 1.        *)

ToFst(chain) ==
  LET n == Len(chain.phones)
      Arc(from, column, says, cost, to) == [from |-> from, ilabel |-> column + 1, olabel |-> says, cost |-> cost, to |-> to]
  IN UNION {{Arc(i, chain.blank, n + 1, 0, i)}
            \cup {Arc(i, chain.phones[p], p, 0, i) : p \in {i} \ {0}}
            \cup UNION {{Arc(i, chain.phones[p], p, 0, p)}
                        \cup (IF chain.skips[p] = Inf THEN {} ELSE {Arc(i, chain.blank, n + 1, chain.skips[p], p)}) :
                          p \in {i + 1} \ {n + 1}} : i \in 0 .. n}

\* A path's output labels, one a frame, are the alignment.
FromOutputLabels(chain, labels, cost) ==
  LET silent == Len(chain.phones) + 1 IN
  IF \E f \in DOMAIN labels : labels[f] \notin 1 .. silent THEN "refused"
  ELSE [sounding |-> [f \in DOMAIN labels |-> IF labels[f] = silent THEN 0 ELSE labels[f]], cost |-> cost]

-----------------------------------------------------------------------------
(* Occupancy: what each transition visited adds up to.                     *)

ColumnRead(chain, code, position) == IF Sounds(code) THEN chain.phones[position] ELSE chain.blank

MassOf(which) == MapThenSumSet(LAMBDA v : v.mass, which)

Posterior(frame, column) == MassOf({v \in visited : v.frame = frame /\ ColumnRead(Chain, v.code, v.position) = column})

Duration(p) == MassOf({v \in visited : Sounds(v.code) /\ v.position = p})

SkipPosterior(p) == MassOf({v \in visited : v.code = SKIP /\ v.position = p})

-----------------------------------------------------------------------------
(* Properties.                                                             *)

\* The complete paths of the automaton through the matrix, each a sequence of arcs.
FstPaths ==
  LET arcs == ToFst(Chain)
      upto[n \in 0 .. T] ==
        IF n = 0 THEN {<<>>}
        ELSE UNION {{Append(p, a) : a \in {b \in arcs : /\ b.from = (IF p = <<>> THEN 0 ELSE p[Len(p)].to)
                                                        /\ trellis.scores[n - 1][b.ilabel - 1] # Inf}} : p \in upto[n - 1]}
  IN {p \in upto[T] : (IF p = <<>> THEN 0 ELSE p[T].to) = N}

FstCost(p) == MapThenSumSet(LAMBDA f : p[f].cost + trellis.scores[f - 1][p[f].ilabel - 1], DOMAIN p)
FstMass(p) ==
  LET upto[n \in 0 .. Len(p)] ==
        IF n = 0 THEN 1 ELSE upto[n - 1] * Mass(p[n].cost + trellis.scores[n - 1][p[n].ilabel - 1])
  IN upto[Len(p)]
Labels(p) == [f \in DOMAIN p |-> p[f].olabel]

Aligned == FromPath(path.codes, path.positions, path.cost)

\* The alignment is one of the automaton's that nothing undercuts ("it is also the
\* oracle the exact aligner is tested against", align.rs:257), costs what its frames
\* and the phones it gave up cost unless it sounded one it gave up, and its phones
\* take their frames in order, alone and together with their neighbours.
AlignmentsReadBack ==
  pc = "done" /\ task = "best" /\ IsChain =>
    LET sounding == Aligned.sounding
        spans    == Spans(Chain, sounding)
        costs    == AcousticCosts(Chain, trellis.scores, sounding)
        lost     == {f \in 1 .. T : path.codes[f] = SKIP}
    IN /\ \E p \in FstPaths : FromOutputLabels(Chain, Labels(p), FstCost(p)) = Aligned
       /\ \A p \in FstPaths : Aligned.cost <= FstCost(p)
       /\ Aligned.cost = MapThenSumSet(LAMBDA f : costs[f], 1 .. T)
                         + MapThenSumSet(LAMBDA f : Chain.skips[path.positions[f]], lost)
       /\ Skipped(Chain, sounding) \subseteq {path.positions[f] : f \in lost}
       /\ \A p, q \in DOMAIN spans : p < q => \A f \in spans[p], g \in spans[q] : f < g
       /\ \A k \in 0 .. N : UNION {spans[p] : p \in 1 .. k} \subseteq GroupSpan(spans, 1 .. k)
                            /\ GroupSpan(spans, 1 .. k) \cap GroupSpan(spans, (k + 1) .. N) = {}

\* A frame's posteriors share out the whole, and each is what the alignments that
\* read that column carry ("The posterior of each column in `frame`, which sums to
\* one", occupancy.rs:70); a phone's duration counts the frames that sound it; and
\* its skip posterior bounds the alignments that never sound it (occupancy.rs:129).
OccupancyIsExact ==
  pc = "done" /\ task = "posteriors" /\ IsChain =>
    LET paths == FstPaths
        MassWhere(P(_)) == MapThenSumSet(FstMass, {p \in paths : P(p)})
        total == MapThenSumSet(FstMass, paths)
    IN /\ \A f \in 1 .. T :
            /\ MapThenSumSet(LAMBDA c : Posterior(f - 1, c), Columns(Chain)) = total
            /\ \A c \in Columns(Chain) : Posterior(f - 1, c) = MassWhere(LAMBDA p : p[f].ilabel = c + 1)
       /\ \A k \in 1 .. N :
            /\ Duration(k) = MapThenSumSet(LAMBDA f : MassWhere(LAMBDA p : p[f].olabel = k), 1 .. T)
            /\ SkipPosterior(k) >= MassWhere(LAMBDA p : \A f \in 1 .. T : p[f].olabel # k)
=============================================================================
