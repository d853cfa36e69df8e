---------------------- MODULE ArcArenaStateStoreProofs ----------------------
(***************************************************************************)
(* What ArcArenaStateStore promises, for every expander, every nesting,    *)
(* every number of panics and every block size: the run of a state keeps   *)
(* resolving to the arcs it was packed with, and the store is a memo of    *)
(* the expander's answers, also while it is cloned.  The arena is taken at *)
(* its word: what its own invariant says is all that is used of it.        *)
(***************************************************************************)
EXTENDS ArcArenaStateStore, ExpandWithProofs

P == INSTANCE ArcArenaProofs WITH MaxEpoch <- 1

ArenaSizes ==
  /\ BlockSize \in Nat \ {0}
  /\ MaxRetained \in Nat
  /\ {MaxReserve, MaxPushes, MaxRuns} \subseteq Nat

\* The sizes the store is used with are sizes an arena takes.
LEMMA ArenaFits == ArenaSizes => P!ArenaAssumption
BY DEF ArenaSizes, P!ArenaAssumption

\* The arena of the store and the arena of the theorems are one.
LEMMA OneArena ==
  /\ Arena!TypeOK <=> P!TypeOK
  /\ \A n : Arena!ReserveArcs(n) <=> P!ReserveArcs(n)
  /\ \A a : Arena!PushArc(a) <=> P!PushArc(a)
  /\ Arena!CommitArcs <=> P!CommitArcs
  /\ Arena!Init <=> P!Init
  /\ \A n : Arena!EmptyBlock(n) = P!EmptyBlock(n)
  /\ \A r : Arena!Arcs(r) = P!Arcs(r)
  /\ \A r : Arena!Resolvable(r) <=> P!Resolvable(r)
  /\ Arena!Run = P!Run
<1>1. Arena!TypeOK <=> P!TypeOK
  BY DEF Arena!TypeOK, P!TypeOK, Arena!Block, P!Block, Arena!Issued, P!Issued, Arena!Run, P!Run
<1>2. ASSUME NEW n PROVE Arena!ReserveArcs(n) <=> P!ReserveArcs(n)
  BY DEF Arena!ReserveArcs, P!ReserveArcs, Arena!NewBlock, P!NewBlock, Arena!Larger, P!Larger,
         Arena!PendingLen, P!PendingLen, Arena!Pending, P!Pending, Arena!Kept, P!Kept
<1>3. ASSUME NEW a PROVE Arena!PushArc(a) <=> P!PushArc(a)
  BY DEF Arena!PushArc, P!PushArc, Arena!NewBlock, P!NewBlock, Arena!Larger, P!Larger,
         Arena!PendingLen, P!PendingLen, Arena!Pending, P!Pending, Arena!Kept, P!Kept
<1>4. Arena!CommitArcs <=> P!CommitArcs
  BY Zenon DEF Arena!CommitArcs, P!CommitArcs, Arena!PendingLen, P!PendingLen, Arena!Pending, P!Pending,
               Arena!Cardinality, P!Cardinality, Arena!IsFiniteSet, P!IsFiniteSet
<1>5. (Arena!Init <=> P!Init) /\ \A n : Arena!EmptyBlock(n) = P!EmptyBlock(n)
  BY DEF Arena!Init, P!Init, Arena!EmptyBlock, P!EmptyBlock
<1>6. ASSUME NEW r PROVE Arena!Arcs(r) = P!Arcs(r) /\ (Arena!Resolvable(r) <=> P!Resolvable(r))
  BY DEF Arena!Arcs, P!Arcs, Arena!Resolvable, P!Resolvable, Arena!BlockOf, P!BlockOf
<1>7. Arena!Run = P!Run
  BY DEF Arena!Run, P!Run
<1> QED
  BY <1>1, <1>2, <1>3, <1>4, <1>5, <1>6, <1>7

-----------------------------------------------------------------------------
(***************************************************************************)
(* The invariant.                                                          *)
(***************************************************************************)

EntrySet == [final : Weight, ni : Nat, no : Nat, run : Arena!Run]

\* An entry of the table stands for these contents: its run is one the arena
\* has committed, with these arcs, since it was last emptied.
Held(e, c) ==
  \E r \in P!Live : /\ r.run = e.run
                    /\ c = [final |-> e.final, ni |-> e.ni, no |-> e.no, arcs |-> r.arcs]

TableInv ==
  \A s \in DOMAIN table :
    /\ s \in State
    /\ table[s] \in EntrySet
    /\ \E c \in Contents : c \in ContentsFor[s] /\ Held(table[s], c)

ViewsInv ==
  \A v \in views :
    /\ v.state \in DOMAIN table
    /\ table[v.state] = v.entry
    /\ v.contents \in Contents
    /\ Held(v.entry, v.contents)

\* What a clone copies from.
Memos == UNION {[S -> Contents] : S \in SUBSET State}

StoreJob == [kind : {"store"}, contents : Contents, copied : Nat]
CloneJob == [kind : {"clone"}, contents : Contents \cup {NoArcs}, copied : Nat,
             from : Memos, state : State \cup {-1}]

\* The copy of a finished expansion: the frame is still on the stack.
Storing ==
  /\ job \in StoreJob
  /\ stack # <<>> /\ Finished(Top)
  /\ job.contents = Product

\* The copy of a whole store: what has been copied stands for what it was.
Cloning ==
  /\ job \in CloneJob
  /\ stack = <<>> /\ views = {}
  /\ \A s \in DOMAIN job.from : job.from[s] \in ContentsFor[s]
  /\ \A s \in DOMAIN table : s \in DOMAIN job.from /\ Held(table[s], job.from[s])
  /\ job.state = -1 => job.contents = NoArcs /\ job.copied = 0
  /\ job.state # -1 => job.state \in ToClone /\ job.contents = job.from[job.state]

JobInv ==
  \/ /\ job = Idle
     /\ P!PendingLen = 0
  \/ /\ Storing \/ Cloning
     /\ job.copied <= Len(job.contents.arcs)
     /\ P!Pending = SubSeq(job.contents.arcs, 1, job.copied)

StoreInv ==
  /\ ProtocolInv
  /\ P!ArenaInv
  /\ TableInv
  /\ ViewsInv
  /\ JobInv

-----------------------------------------------------------------------------
\* What is held resolves to what it stands for.
LEMMA HeldResolves ==
  ASSUME P!ArenaInv, NEW e, NEW c, Held(e, c)
  PROVE  Arena!Resolvable(e.run) /\ Resolved(e) = c
<1>1. PICK r \in P!Live : /\ r.run = e.run
                          /\ c = [final |-> e.final, ni |-> e.ni, no |-> e.no, arcs |-> r.arcs]
  BY DEF Held
<1>2. P!Resolvable(r.run) /\ P!Arcs(r.run) = r.arcs
  BY DEF P!ArenaInv, P!LiveRunsKeepTheirArcs
<1> QED
  BY <1>1, <1>2, OneArena DEF Resolved

\* A run that has been committed stays so.
LEMMA HeldStays ==
  ASSUME NEW e, NEW c, Held(e, c), issued \subseteq issued', epoch' = epoch
  PROVE  Held(e, c)'
BY DEF Held, P!Live

LEMMA AllHeldStays ==
  ASSUME TableInv, ViewsInv, issued \subseteq issued', epoch' = epoch,
         UNCHANGED <<table, views>>
  PROVE  TableInv' /\ ViewsInv'
<1>1. TableInv'
  <2> SUFFICES ASSUME NEW s \in DOMAIN table
               PROVE  /\ s \in State /\ table[s] \in EntrySet
                      /\ (\E c \in Contents : c \in ContentsFor[s] /\ Held(table[s], c))'
    BY DEF TableInv, EntrySet, Arena!Run
  <2>1. s \in State /\ table[s] \in EntrySet
    BY DEF TableInv
  <2>2. PICK c \in Contents : c \in ContentsFor[s] /\ Held(table[s], c)
    BY DEF TableInv
  <2>3. PICK e : e = table[s]
    OBVIOUS
  <2>4. Held(e, c)'
    BY <2>2, <2>3, HeldStays
  <2>5. e = table'[s]
    BY <2>3
  <2>6. Held(table[s], c)'
    BY <2>4, <2>5 DEF Held
  <2> QED
    BY <2>1, <2>2, <2>6
<1>2. ViewsInv'
  <2> SUFFICES ASSUME NEW v \in views
               PROVE  /\ v.state \in DOMAIN table /\ table[v.state] = v.entry
                      /\ v.contents \in Contents /\ Held(v.entry, v.contents)'
    BY DEF ViewsInv
  <2> QED
    BY HeldStays DEF ViewsInv
<1> QED
  BY <1>1, <1>2

\* A table with one more entry.
LEMMA InsertKeeps ==
  ASSUME TableInv, issued \subseteq issued', epoch' = epoch,
         NEW s \in State, NEW e \in EntrySet, NEW c \in Contents, c \in ContentsFor[s],
         s \in DOMAIN table => e = table[s],
         Held(e, c)', table' = Insert(table, s, e)
  PROVE  /\ TableInv'
         /\ DOMAIN table' = DOMAIN table \cup {s}
         /\ \A t \in DOMAIN table : table'[t] = table[t]
         /\ table'[s] = e
<1>1. /\ DOMAIN table' = DOMAIN table \cup {s}
      /\ \A t \in DOMAIN table' : table'[t] = IF t = s THEN e ELSE table[t]
  BY DEF Insert
<1>2. table'[s] = e /\ \A t \in DOMAIN table : table'[t] = table[t]
  BY <1>1
<1>3. TableInv'
  <2> SUFFICES ASSUME NEW t \in DOMAIN table'
               PROVE  /\ t \in State /\ table'[t] \in EntrySet
                      /\ (\E d \in Contents : d \in ContentsFor[t] /\ Held(table[t], d))'
    BY DEF TableInv, EntrySet, Arena!Run
  <2>1. CASE t = s
    <3>1. Held(table[t], c)'
      BY <1>2, <2>1 DEF Held
    <3> QED
      BY <1>2, <2>1, <3>1
  <2>2. CASE t # s
    <3>1. t \in DOMAIN table /\ table'[t] = table[t]
      BY <1>1, <2>2
    <3>2. PICK d \in Contents : d \in ContentsFor[t] /\ Held(table[t], d)
      BY <3>1 DEF TableInv
    <3>3. PICK f : f = table[t]
      OBVIOUS
    <3>4. Held(f, d)'
      BY <3>2, <3>3, HeldStays
    <3>5. f = table'[t]
      BY <3>1, <3>3
    <3>6. Held(table[t], d)'
      BY <3>4, <3>5 DEF Held
    <3> QED
      BY <3>1, <3>2, <3>6 DEF TableInv
  <2> QED
    BY <2>1, <2>2
<1> QED
  BY <1>1, <1>2, <1>3

-----------------------------------------------------------------------------
(***************************************************************************)
(* The steps.                                                              *)
(***************************************************************************)

\* The arena is left alone.
LEMMA ArenaRests ==
  ASSUME ArenaSizes, P!ArenaInv, UNCHANGED arenaVars
  PROVE  /\ P!ArenaInv'
         /\ issued' = issued /\ epoch' = epoch
         /\ P!Pending' = P!Pending /\ P!PendingLen' = P!PendingLen
<1>1. UNCHANGED P!vars
  BY DEF arenaVars, P!vars, P!arena
<1>2. P!ArenaInv'
  BY <1>1, ArenaFits, P!TypeStep, P!ArenaStep DEF P!ArenaInv
<1> QED
  BY <1>2 DEF arenaVars, P!Pending, P!PendingLen

\* What is being copied when nothing is.
LEMMA NothingPending ==
  ASSUME ArenaSizes, P!ArenaInv
  PROVE  /\ P!PendingLen = 0 <=> P!Pending = <<>>
         /\ \A c : SubSeq(c, 1, 0) = <<>>
         /\ P!Pending \in Seq(Arc) /\ Len(P!Pending) = P!PendingLen
<1>1. P!Pending \in Seq(Arc) /\ Len(P!Pending) = P!PendingLen
  BY ArenaFits, P!PendingFollows DEF P!ArenaInv
<1> QED
  BY <1>1, EmptySeq, SubSeqEmpty

\* A job is idle or not, by its kind.
LEMMA JobKinds ==
  ASSUME JobInv
  PROVE  /\ Busy => job.copied <= Len(job.contents.arcs)
         /\ Busy => P!Pending = SubSeq(job.contents.arcs, 1, job.copied)
         /\ Busy => (Storing /\ job.kind = "store") \/ (Cloning /\ job.kind = "clone")
         /\ ~ Busy => P!PendingLen = 0
<1>1. Storing => job.kind = "store"
  BY DEF Storing, StoreJob
<1>2. Cloning => job.kind = "clone"
  BY DEF Cloning, CloneJob
<1>3. Idle.kind = "idle"
  BY DEF Idle
<1> QED
  BY <1>1, <1>2, <1>3 DEF JobInv, Busy

\* The steps of the protocol between two copies.
LEMMA ProtocolSteps ==
  ASSUME ExpandAssumption, ArenaSizes, StoreInv, ~ Busy, ProtocolInv',
         UNCHANGED <<table, job, views, arenaVars>>
  PROVE  StoreInv'
<1>1. /\ P!ArenaInv' /\ issued' = issued /\ epoch' = epoch
      /\ P!PendingLen' = P!PendingLen
  BY ArenaRests DEF StoreInv
<1>2. TableInv' /\ ViewsInv'
  BY <1>1, AllHeldStays DEF StoreInv
<1>3. JobInv'
  BY <1>1, JobKinds DEF StoreInv, JobInv, Busy
<1> QED
  BY <1>1, <1>2, <1>3 DEF StoreInv

LEMMA FindStep ==
  ASSUME ExpandAssumption, ArenaSizes, StoreInv, NEW s \in State, Find(s)
  PROVE  StoreInv'
<1>1. /\ ~ Busy /\ s \in DOMAIN table
      /\ views' = views \cup {[state |-> s, entry |-> table[s], contents |-> Resolved(table[s])]}
      /\ UNCHANGED <<protocol, table, job, arenaVars>>
  BY DEF Find
<1>2. PICK c \in Contents : c \in ContentsFor[s] /\ Held(table[s], c)
  BY <1>1 DEF StoreInv, TableInv
<1>3. Resolved(table[s]) = c
  BY <1>2, HeldResolves DEF StoreInv
<1>4. /\ P!ArenaInv' /\ issued' = issued /\ epoch' = epoch
      /\ P!PendingLen' = P!PendingLen
  BY <1>1, ArenaRests DEF StoreInv
<1> DEFINE v == [state |-> s, entry |-> table[s], contents |-> c]
<1>5. /\ v.state \in DOMAIN table /\ table[v.state] = v.entry
      /\ v.contents \in Contents /\ Held(v.entry, v.contents)
  BY <1>1, <1>2
<1>6. ASSUME NEW w \in views' PROVE /\ w.state \in DOMAIN table' /\ table'[w.state] = w.entry
                                    /\ w.contents \in Contents /\ Held(w.entry, w.contents)'
  <2>1. w \in views \/ w = v
    BY <1>1, <1>3
  <2>2. /\ w.state \in DOMAIN table /\ table[w.state] = w.entry
        /\ w.contents \in Contents /\ Held(w.entry, w.contents)
    BY <1>5, <2>1 DEF StoreInv, ViewsInv
  <2> QED
    BY <1>1, <1>4, <2>2, HeldStays
<1>7. ViewsInv'
  BY <1>6 DEF ViewsInv
<1>8. TableInv'
  BY <1>1, <1>4 DEF StoreInv, TableInv, Held, P!Live
<1>9. ProtocolInv'
  BY <1>1, IdleKeeps DEF StoreInv, protocol
<1>10. JobInv'
  BY <1>1, <1>4, JobKinds DEF StoreInv, JobInv, Busy
<1> QED
  BY <1>4, <1>7, <1>8, <1>9, <1>10 DEF StoreInv

\* Making room for a state.
LEMMA RoomMade ==
  ASSUME ArenaSizes, StoreInv, P!PendingLen = 0, NEW n \in Nat, Arena!ReserveArcs(n) \/ UNCHANGED arenaVars
  PROVE  /\ P!ArenaInv' /\ issued' = issued /\ epoch' = epoch
         /\ P!Pending' = <<>>
<1>1. CASE Arena!ReserveArcs(n)
  <2>1. P!ReserveArcs(n)
    BY <1>1, OneArena
  <2> QED
    BY <2>1, ArenaFits, P!ReserveStep, NothingPending DEF StoreInv
<1>2. CASE UNCHANGED arenaVars
  BY <1>2, ArenaRests, NothingPending DEF StoreInv
<1> QED
  BY <1>1, <1>2

LEMMA FinishStep ==
  ASSUME ExpandAssumption, ArenaSizes, StoreInv, Finish
  PROVE  StoreInv'
<1>1. /\ ~ Busy /\ stack # <<>> /\ Finished(Top)
      /\ job' = [kind |-> "store", contents |-> Product, copied |-> 0]
      /\ Arena!ReserveArcs(Len(Product.arcs)) \/ UNCHANGED arenaVars
      /\ UNCHANGED <<protocol, table, views>>
  BY DEF Finish
<1>2. Product \in Contents
  BY <1>1, ProductIsTheAnswer DEF StoreInv
<1>3. Len(Product.arcs) \in Nat
  BY <1>2, LenProperties DEF Contents
<1>4. P!PendingLen = 0
  BY <1>1, JobKinds DEF StoreInv
<1>5. P!ArenaInv' /\ issued' = issued /\ epoch' = epoch /\ P!Pending' = <<>>
  BY <1>1, <1>3, <1>4, RoomMade
<1>6. TableInv' /\ ViewsInv'
  BY <1>1, <1>5, AllHeldStays DEF StoreInv
<1>7. ProtocolInv' /\ UNCHANGED <<stack, scratch>>
  BY <1>1, IdleKeeps DEF StoreInv, protocol
<1>8. JobInv'
  <2>1. job' \in StoreJob /\ job'.contents = Product /\ job'.copied = 0
    BY <1>1, <1>2 DEF StoreJob
  <2>2. Product' = Product /\ (Finished(Top))' /\ stack' # <<>>
    BY <1>1, <1>7 DEF Product, Finished, Top
  <2>3. Storing'
    BY <2>1, <2>2 DEF Storing
  <2>4. P!Pending' = SubSeq(job'.contents.arcs, 1, job'.copied)
    BY <1>5, <2>1, SubSeqEmpty
  <2>5. job'.copied <= Len(job'.contents.arcs)
    BY <1>3, <2>1
  <2> QED
    BY <2>3, <2>4, <2>5 DEF JobInv
<1> QED
  BY <1>5, <1>6, <1>7, <1>8 DEF StoreInv

LEMMA CopyStep ==
  ASSUME ExpandAssumption, ArenaSizes, StoreInv, CopyArc
  PROVE  StoreInv'
<1> DEFINE arcs == job.contents.arcs
           n == job.copied
<1>1. /\ Busy /\ n < Len(arcs)
      /\ Arena!PushArc(arcs[n + 1])
      /\ job' = [job EXCEPT !.copied = n + 1]
      /\ UNCHANGED <<protocol, table, views>>
  BY DEF CopyArc
<1>2. /\ P!Pending = SubSeq(arcs, 1, n)
      /\ (Storing /\ job.kind = "store") \/ (Cloning /\ job.kind = "clone")
  BY <1>1, JobKinds DEF StoreInv
<1>3. arcs \in Seq(Arc) /\ n \in Nat
  <2>1. <<>> \in Seq(Arc)
    BY EmptySeq
  <2>2. CASE Storing
    BY <2>2 DEF Storing, StoreJob, Contents
  <2>3. CASE Cloning
    <3>1. job.contents \in Contents \cup {NoArcs} /\ job.copied \in Nat
      BY <2>3 DEF Cloning, CloneJob
    <3>2. NoArcs.arcs \in Seq(Arc)
      BY <2>1 DEF NoArcs
    <3>3. \A c \in Contents : c.arcs \in Seq(Arc)
      BY DEF Contents
    <3> QED
      BY <3>1, <3>2, <3>3
  <2> QED
    BY <1>2, <2>2, <2>3
<1>4. /\ arcs[n + 1] \in Arc
      /\ Append(SubSeq(arcs, 1, n), arcs[n + 1]) = SubSeq(arcs, 1, n + 1)
      /\ Len(arcs) \in Nat
  BY <1>1, <1>3, PrefixGrows, LenProperties
<1>5. PICK a \in Arc : a = arcs[n + 1]
  BY <1>4
<1>6. P!PushArc(a)
  BY <1>1, <1>5, OneArena
<1>7. P!ArenaInv' /\ issued' = issued /\ epoch' = epoch /\ P!Pending' = Append(P!Pending, a)
  BY <1>6, ArenaFits, P!PushStep DEF StoreInv
<1>8. P!Pending' = SubSeq(arcs, 1, n + 1)
  BY <1>2, <1>4, <1>5, <1>7
<1>9. TableInv' /\ ViewsInv'
  BY <1>1, <1>7, AllHeldStays DEF StoreInv
<1>10. ProtocolInv' /\ UNCHANGED <<stack, scratch>>
  BY <1>1, IdleKeeps DEF StoreInv, protocol
<1>11. JobInv'
  <2>1. n + 1 \in Nat /\ n + 1 <= Len(arcs)
    BY <1>1, <1>3, <1>4
  <2>2. CASE Storing
    <3>1. /\ job' \in StoreJob /\ job'.contents = job.contents /\ job'.copied = n + 1
      BY <1>1, <2>1, <2>2 DEF Storing, StoreJob
    <3>2. Product' = Product /\ (Finished(Top))' /\ stack' # <<>>
      BY <1>10, <2>2 DEF Product, Finished, Top, Storing
    <3>3. Storing'
      BY <3>1, <3>2, <2>2 DEF Storing
    <3> QED
      BY <1>8, <2>1, <3>1, <3>3 DEF JobInv
  <2>3. CASE Cloning
    <3>0. job \in CloneJob
      BY <2>3 DEF Cloning
    <3>1. /\ job' \in CloneJob /\ job'.contents = job.contents /\ job'.copied = n + 1
          /\ job'.from = job.from /\ job'.state = job.state
      BY <1>1, <2>1, <3>0 DEF CloneJob
    <3>2. job.state # -1
      <4>1. Len(NoArcs.arcs) = 0
        BY EmptySeq DEF NoArcs
      <4> QED
        BY <1>1, <1>3, <2>3, <4>1 DEF Cloning
    <3>3. ToClone' = ToClone
      BY <1>1, <3>1 DEF ToClone
    <3>4. \A s \in DOMAIN table : s \in DOMAIN job.from /\ Held(table[s], job.from[s])'
      <4> SUFFICES ASSUME NEW s \in DOMAIN table
                   PROVE  s \in DOMAIN job.from /\ Held(table[s], job.from[s])'
        OBVIOUS
      <4>1. s \in DOMAIN job.from /\ Held(table[s], job.from[s])
        BY <2>3 DEF Cloning
      <4> QED
        BY <1>1, <1>7, <3>1, <4>1 DEF Held, P!Live
    <3>5. Cloning'
      BY <1>1, <1>10, <2>3, <3>1, <3>2, <3>3, <3>4 DEF Cloning
    <3> QED
      BY <1>8, <2>1, <3>1, <3>5 DEF JobInv
  <2> QED
    BY <1>2, <2>2, <2>3
<1> QED
  BY <1>7, <1>9, <1>10, <1>11 DEF StoreInv

\* What commit_arcs leaves: the run of what was copied is held by its entry.
LEMMA CommitHolds ==
  ASSUME ExpandAssumption, ArenaSizes, StoreInv, Arena!CommitArcs,
         NEW c \in Contents, P!Pending = c.arcs
  PROVE  /\ P!ArenaInv' /\ issued \subseteq issued' /\ epoch' = epoch
         /\ P!PendingLen' = 0
         /\ \E e \in EntrySet : e = Entry(c, CommittedRun) /\ Held(e, c)'
<1>1. P!CommitArcs /\ P!ArenaInv
  BY OneArena DEF StoreInv
<1>2. PICK r \in P!Live' :
        /\ r.run = [block |-> Len(retired), start |-> start, len |-> P!PendingLen]
        /\ r.arcs = P!Pending
  BY <1>1, ArenaFits, P!CommitStep
<1>3. /\ P!ArenaInv' /\ issued \subseteq issued' /\ epoch' = epoch
      /\ P!PendingLen' = 0
  BY <1>1, ArenaFits, P!CommitStep
<1>4. r.run = CommittedRun
  BY <1>2 DEF CommittedRun, P!PendingLen
<1> DEFINE e == Entry(c, CommittedRun)
<1>5. CommittedRun \in Arena!Run
  <2>1. P!PendingLen \in Nat
    BY ArenaFits, P!PendingFollows DEF StoreInv, P!ArenaInv
  <2>2. Len(retired) \in Nat /\ start \in Nat
    BY LenProperties DEF StoreInv, P!ArenaInv, P!TypeOK
  <2> QED
    BY <2>1, <2>2, <1>2, <1>4 DEF Arena!Run
<1>6. e \in EntrySet /\ e.run = CommittedRun /\ e.final = c.final /\ e.ni = c.ni /\ e.no = c.no
  BY <1>5 DEF Entry, EntrySet, Contents
<1>7. c = [final |-> c.final, ni |-> c.ni, no |-> c.no, arcs |-> c.arcs]
  BY DEF Contents
<1>8. PICK f \in EntrySet : f = e
  BY <1>6
<1>9. Held(f, c)'
  BY <1>2, <1>4, <1>6, <1>7, <1>8 DEF Held
<1> QED
  BY <1>3, <1>8, <1>9

\* The store of a finished expansion.
LEMMA CommitKeeps ==
  ASSUME ExpandAssumption, ArenaSizes, StoreInv, Commit
  PROVE  StoreInv'
<1>1. /\ Busy /\ job.kind = "store" /\ job.copied = Len(job.contents.arcs)
      /\ Arena!CommitArcs /\ HandBack /\ job' = Idle
  BY DEF Commit
<1>2. Storing /\ P!Pending = SubSeq(job.contents.arcs, 1, job.copied)
  BY <1>1, JobKinds DEF StoreInv
<1>3. /\ stack # <<>> /\ Finished(Top) /\ job.contents = Product /\ ProtocolInv
  BY <1>2 DEF Storing, StoreInv
<1>4. Top.state \in State /\ Product \in Contents /\ Product \in ContentsFor[Top.state]
  BY <1>3, Innermost, ProductIsTheAnswer
<1>5. PICK c \in Contents : c = job.contents
  BY <1>3, <1>4
<1>6. PICK s \in State : s = Top.state
  BY <1>4
<1>7. P!Pending = c.arcs
  BY <1>1, <1>2, <1>5, SubSeqFull DEF Contents
<1>8. /\ P!ArenaInv' /\ issued \subseteq issued' /\ epoch' = epoch /\ P!PendingLen' = 0
      /\ \E e \in EntrySet : e = Entry(c, CommittedRun) /\ Held(e, c)'
  BY <1>1, <1>7, CommitHolds
<1>9. PICK own \in EntrySet : own = Entry(c, CommittedRun) /\ Held(own, c)'
  BY <1>8
<1> DEFINE e == IF s \in DOMAIN table THEN table[s] ELSE own
           d == IF s \in DOMAIN table THEN Resolved(table[s]) ELSE c
<1>10. /\ table' = Insert(table, s, e)
       /\ views' = views \cup {[state |-> s, entry |-> e, contents |-> d]}
  BY <1>5, <1>6, <1>9 DEF Commit
<1>11. \E f \in EntrySet, h \in Contents :
         f = e /\ h = d /\ h \in ContentsFor[s] /\ Held(f, h)'
  <2>1. CASE s \in DOMAIN table
    <3>1. PICK h \in Contents : h \in ContentsFor[s] /\ Held(table[s], h)
      BY <2>1 DEF StoreInv, TableInv
    <3>2. Resolved(table[s]) = h
      BY <3>1, HeldResolves DEF StoreInv
    <3>3. PICK f \in EntrySet : f = table[s]
      BY <2>1 DEF StoreInv, TableInv
    <3>4. Held(f, h)'
      BY <1>8, <3>1, <3>3, HeldStays
    <3>5. e = f /\ d = h
      BY <2>1, <3>2, <3>3
    <3> QED
      BY <3>1, <3>4, <3>5
  <2>2. CASE s \notin DOMAIN table
    <3>1. e = own /\ d = c
      BY <2>2
    <3> QED
      BY <1>3, <1>4, <1>5, <1>6, <1>9, <3>1
  <2> QED
    BY <2>1, <2>2
<1>12. PICK f \in EntrySet, h \in Contents :
         f = e /\ h = d /\ h \in ContentsFor[s] /\ Held(f, h)'
  BY <1>11
<1>13. s \in DOMAIN table => f = table[s]
  BY <1>12
<1>14. /\ TableInv'
       /\ DOMAIN table' = DOMAIN table \cup {s}
       /\ \A t \in DOMAIN table : table'[t] = table[t]
       /\ table'[s] = f
  <2>1. table' = Insert(table, s, f)
    BY <1>10, <1>12
  <2> QED
    BY <1>8, <1>12, <1>13, <2>1, InsertKeeps DEF StoreInv
<1>15. ViewsInv'
  <2>1. views' = views \cup {[state |-> s, entry |-> f, contents |-> h]}
    BY <1>10, <1>12
  <2> SUFFICES ASSUME NEW v \in views'
               PROVE  /\ v.state \in DOMAIN table' /\ table'[v.state] = v.entry
                      /\ v.contents \in Contents /\ Held(v.entry, v.contents)'
    BY DEF ViewsInv
  <2>2. CASE v \in views
    <3>1. /\ v.state \in DOMAIN table /\ table[v.state] = v.entry
          /\ v.contents \in Contents /\ Held(v.entry, v.contents)
      BY <2>2 DEF StoreInv, ViewsInv
    <3> QED
      BY <1>8, <1>14, <3>1, HeldStays
  <2>3. CASE v = [state |-> s, entry |-> f, contents |-> h]
    BY <1>12, <1>14, <2>3
  <2> QED
    BY <2>1, <2>2, <2>3
<1>16. ProtocolInv'
  BY <1>1, HandBackKeeps DEF StoreInv
<1>17. JobInv'
  BY <1>1, <1>8 DEF JobInv
<1> QED
  BY <1>8, <1>14, <1>15, <1>16, <1>17 DEF StoreInv

\* What a store remembers when it is not being cloned: one answer per state.
LEMMA TableIsAMemo ==
  ASSUME StoreInv
  PROVE  LET m == [s \in DOMAIN table |-> Resolved(table[s])]
         IN  /\ m \in Memos
             /\ \A s \in DOMAIN table : m[s] \in ContentsFor[s]
             /\ \A s \in DOMAIN table : \A c : Held(table[s], c) => m[s] = c
<1> DEFINE m == [s \in DOMAIN table |-> Resolved(table[s])]
<1>1. \A s \in DOMAIN table : \A c : Held(table[s], c) => m[s] = c
  BY HeldResolves DEF StoreInv
<1>2. ASSUME NEW s \in DOMAIN table
      PROVE  s \in State /\ m[s] \in Contents /\ m[s] \in ContentsFor[s]
  <2>1. PICK c \in Contents : c \in ContentsFor[s] /\ Held(table[s], c)
    BY DEF StoreInv, TableInv
  <2>2. m[s] = c
    BY <1>1, <2>1
  <2>3. s \in State
    BY DEF StoreInv, TableInv
  <2> QED
    BY <2>1, <2>2, <2>3
<1>3. DOMAIN table \in SUBSET State
  BY <1>2
<1>4. m \in [DOMAIN table -> Contents]
  BY <1>2
<1>5. m \in Memos
  BY <1>3, <1>4 DEF Memos
<1> QED
  BY <1>1, <1>2, <1>5

LEMMA FreshAgain ==
  ArenaSizes =>
    ( ( /\ retired = <<>> /\ current = P!EmptyBlock(BlockSize) /\ start = 0
        /\ firstBlockSize = BlockSize /\ totalSize = BlockSize
        /\ pushes = 0 /\ issued = {} /\ epoch \in Nat )
      => P!ArenaInv /\ P!PendingLen = 0 /\ P!Pending = <<>> )
<1> SUFFICES ASSUME ArenaSizes,
                    /\ retired = <<>> /\ current = P!EmptyBlock(BlockSize) /\ start = 0
                    /\ firstBlockSize = BlockSize /\ totalSize = BlockSize
                    /\ pushes = 0 /\ issued = {} /\ epoch \in Nat
             PROVE  P!ArenaInv /\ P!PendingLen = 0 /\ P!Pending = <<>>
  OBVIOUS
<1>1. P!ArenaInv /\ P!PendingLen = 0
  BY ArenaFits, P!FreshArena
<1> QED
  BY <1>1, NothingPending

\* A clone starts with an arena of its own.
LEMMA CloneBegins ==
  ASSUME ExpandAssumption, ArenaSizes, StoreInv, CloneBegin
  PROVE  StoreInv'
<1> DEFINE m == [s \in DOMAIN table |-> Resolved(table[s])]
<1>1. /\ stack = <<>> /\ views' = {} /\ scratch' = EmptyBuilder
      /\ job' = [kind |-> "clone", contents |-> NoArcs, copied |-> 0, from |-> m, state |-> -1]
      /\ table' = [s \in {} |-> s]
      /\ UNCHANGED <<stack, known, iter, panics>>
  BY DEF CloneBegin
<1>2. /\ retired' = <<>> /\ current' = P!EmptyBlock(BlockSize) /\ start' = 0
      /\ firstBlockSize' = BlockSize /\ totalSize' = BlockSize
      /\ pushes' = 0 /\ issued' = {} /\ epoch' \in Nat
  BY OneArena DEF CloneBegin
<1>3. P!ArenaInv' /\ P!PendingLen' = 0 /\ P!Pending' = <<>>
  <2>1. ( ( /\ retired = <<>> /\ current = P!EmptyBlock(BlockSize) /\ start = 0
            /\ firstBlockSize = BlockSize /\ totalSize = BlockSize
            /\ pushes = 0 /\ issued = {} /\ epoch \in Nat )
          => P!ArenaInv /\ P!PendingLen = 0 /\ P!Pending = <<>> )'
    BY FreshAgain, ArenaSizes, PTL
  <2> QED
    BY <1>2, <2>1 DEF P!EmptyBlock
<1>4. m \in Memos /\ \A s \in DOMAIN m : m[s] \in ContentsFor[s]
  BY TableIsAMemo
<1>5. Cloning'
  <2>1. job' \in CloneJob
    BY <1>1, <1>4 DEF CloneJob
  <2> HIDE DEF m
  <2>2. /\ job'.from = m /\ job'.state = -1 /\ job'.contents = NoArcs /\ job'.copied = 0
    BY <1>1
  <2>3. DOMAIN table' = {}
    BY <1>1
  <2> QED
    BY <1>1, <1>4, <2>1, <2>2, <2>3 DEF Cloning
<1>6. JobInv'
  <2>1. job'.copied = 0 /\ job'.contents.arcs = <<>>
    BY <1>1 DEF NoArcs
  <2>2. SubSeq(job'.contents.arcs, 1, job'.copied) = <<>> /\ Len(job'.contents.arcs) = 0
    BY <2>1, SubSeqEmpty, EmptySeq
  <2> QED
    BY <1>3, <1>5, <2>1, <2>2 DEF JobInv
<1>7. TableInv' /\ ViewsInv'
  BY <1>1 DEF TableInv, ViewsInv
<1>8. ProtocolInv'
  BY <1>1, IdleKeeps DEF StoreInv
<1> QED
  BY <1>3, <1>6, <1>7, <1>8 DEF StoreInv

\* The next state of a clone.
LEMMA CloneStateKeeps ==
  ASSUME ExpandAssumption, ArenaSizes, StoreInv, NEW s \in State, CloneState(s)
  PROVE  StoreInv'
<1>1. /\ Busy /\ job.kind = "clone" /\ job.state = -1
      /\ s \in ToClone
      /\ job' = [job EXCEPT !.state = s, !.contents = job.from[s], !.copied = 0]
      /\ Arena!ReserveArcs(Len(job.from[s].arcs)) \/ UNCHANGED arenaVars
      /\ UNCHANGED <<protocol, table, views>>
  BY DEF CloneState
<1>2. Cloning /\ P!Pending = SubSeq(job.contents.arcs, 1, job.copied)
  BY <1>1, JobKinds DEF StoreInv
<1>3. /\ job \in CloneJob /\ job.from \in Memos /\ job.contents = NoArcs /\ job.copied = 0
  BY <1>1, <1>2 DEF Cloning, CloneJob
<1>4. s \in DOMAIN job.from /\ s \notin DOMAIN table
  BY <1>1 DEF ToClone
<1>5. job.from[s] \in Contents
  BY <1>3, <1>4 DEF Memos
<1>6. PICK c \in Contents : c = job.from[s]
  BY <1>5
<1>7. Len(c.arcs) \in Nat /\ c.arcs \in Seq(Arc)
  BY LenProperties DEF Contents
<1>8. P!PendingLen = 0
  <2>1. P!Pending = <<>>
    BY <1>2, <1>3, SubSeqEmpty
  <2> QED
    BY <2>1, NothingPending DEF StoreInv
<1>9. P!ArenaInv' /\ issued' = issued /\ epoch' = epoch /\ P!Pending' = <<>>
  BY <1>1, <1>6, <1>7, <1>8, RoomMade
<1>10. TableInv' /\ ViewsInv'
  BY <1>1, <1>9, AllHeldStays DEF StoreInv
<1>11. ProtocolInv' /\ UNCHANGED <<stack, scratch>>
  BY <1>1, IdleKeeps DEF StoreInv, protocol
<1>12. /\ job' \in CloneJob /\ job'.from = job.from /\ job'.state = s
       /\ job'.contents = c /\ job'.copied = 0
  BY <1>1, <1>3, <1>6 DEF CloneJob
<1>13. Cloning'
  <2>1. ToClone' = ToClone
    BY <1>1, <1>12 DEF ToClone
  <2>2. \A t \in DOMAIN table : t \in DOMAIN job.from /\ Held(table[t], job.from[t])'
    <3> SUFFICES ASSUME NEW t \in DOMAIN table
                 PROVE  t \in DOMAIN job.from /\ Held(table[t], job.from[t])'
      OBVIOUS
    <3>1. t \in DOMAIN job.from /\ Held(table[t], job.from[t])
      BY <1>2 DEF Cloning
    <3> QED
      BY <1>1, <1>9, <1>12, <3>1 DEF Held, P!Live
  <2>3. s # -1
    BY DEF State
  <2> QED
    BY <1>1, <1>2, <1>6, <1>11, <1>12, <2>1, <2>2, <2>3 DEF Cloning
<1>14. JobInv'
  <2>1. job'.copied <= Len(job'.contents.arcs)
    BY <1>7, <1>12
  <2>2. P!Pending' = SubSeq(job'.contents.arcs, 1, job'.copied)
    BY <1>9, <1>12, SubSeqEmpty
  <2> QED
    BY <1>13, <2>1, <2>2 DEF JobInv
<1> QED
  BY <1>9, <1>10, <1>11, <1>14 DEF StoreInv

\* A state of a clone is complete.
LEMMA CloneCommitKeeps ==
  ASSUME ExpandAssumption, ArenaSizes, StoreInv, CloneCommit
  PROVE  StoreInv'
<1>1. /\ Busy /\ job.kind = "clone" /\ job.state # -1
      /\ job.copied = Len(job.contents.arcs)
      /\ Arena!CommitArcs
      /\ table' = Insert(table, job.state, Entry(job.contents, CommittedRun))
      /\ job' = [job EXCEPT !.state = -1, !.contents = NoArcs, !.copied = 0]
      /\ UNCHANGED <<protocol, views>>
  BY DEF CloneCommit
<1>2. Cloning /\ P!Pending = SubSeq(job.contents.arcs, 1, job.copied)
  BY <1>1, JobKinds DEF StoreInv
<1>3. /\ job \in CloneJob /\ job.from \in Memos
      /\ job.state \in DOMAIN job.from /\ job.state \notin DOMAIN table
      /\ job.contents = job.from[job.state]
      /\ job.from[job.state] \in ContentsFor[job.state]
  BY <1>1, <1>2 DEF Cloning, CloneJob, ToClone
<1>4. job.state \in State /\ job.contents \in Contents
  BY <1>3 DEF Memos
<1>5. PICK s \in State : s = job.state
  BY <1>4
<1>6. PICK c \in Contents : c = job.contents
  BY <1>4
<1>7. P!Pending = c.arcs
  BY <1>1, <1>2, <1>6, SubSeqFull DEF Contents
<1>8. /\ P!ArenaInv' /\ issued \subseteq issued' /\ epoch' = epoch /\ P!PendingLen' = 0
      /\ \E e \in EntrySet : e = Entry(c, CommittedRun) /\ Held(e, c)'
  BY <1>1, <1>7, CommitHolds
<1>9. PICK e \in EntrySet : e = Entry(c, CommittedRun) /\ Held(e, c)'
  BY <1>8
<1>10. /\ table' = Insert(table, s, e) /\ c \in ContentsFor[s] /\ s \notin DOMAIN table
  BY <1>1, <1>3, <1>5, <1>6, <1>9
<1>11. /\ TableInv'
       /\ DOMAIN table' = DOMAIN table \cup {s}
       /\ \A t \in DOMAIN table : table'[t] = table[t]
       /\ table'[s] = e
  BY <1>8, <1>9, <1>10, InsertKeeps DEF StoreInv
<1>12. ProtocolInv' /\ UNCHANGED <<stack, scratch>>
  BY <1>1, IdleKeeps DEF StoreInv, protocol
<1>13. /\ job' \in CloneJob /\ job'.from = job.from /\ job'.state = -1
       /\ job'.contents = NoArcs /\ job'.copied = 0
  BY <1>1, <1>3 DEF CloneJob
<1>14. PICK m \in Memos : m = job.from
  BY <1>3
<1>15. \A t \in DOMAIN table' : t \in DOMAIN m /\ (\E f : f = table'[t] /\ Held(f, m[t])')
  <2> SUFFICES ASSUME NEW t \in DOMAIN table'
               PROVE  t \in DOMAIN m /\ (\E f : f = table'[t] /\ Held(f, m[t])')
    OBVIOUS
  <2>1. CASE t \in DOMAIN table
    <3>1. t \in DOMAIN m /\ Held(table[t], m[t])
      BY <1>2, <1>14, <2>1 DEF Cloning
    <3>2. PICK f : f = table[t]
      OBVIOUS
    <3>3. PICK h : h = m[t]
      OBVIOUS
    <3>4. Held(f, h)'
      BY <1>8, <3>1, <3>2, <3>3, HeldStays
    <3> QED
      BY <1>11, <2>1, <3>1, <3>2, <3>3, <3>4
  <2>2. CASE t = s
    <3>1. s \in DOMAIN m /\ c = m[s]
      BY <1>3, <1>5, <1>6, <1>14
    <3> QED
      BY <1>9, <1>11, <2>2, <3>1
  <2> QED
    BY <1>11, <2>1, <2>2
<1>16. Cloning'
  <2>1. stack' = <<>> /\ views' = {} /\ \A t \in DOMAIN m : m[t] \in ContentsFor[t]
    BY <1>1, <1>2, <1>12, <1>14 DEF Cloning
  <2>2. job'.from = m
    BY <1>13, <1>14
  <2>3. \A t \in DOMAIN table' : t \in DOMAIN m /\ Held(table[t], m[t])'
    BY <1>15 DEF Held
  <2> QED
    BY <1>13, <2>1, <2>2, <2>3 DEF Cloning
<1>17. JobInv'
  <2>1. job'.copied = 0 /\ job'.contents.arcs = <<>>
    BY <1>13 DEF NoArcs
  <2>2. SubSeq(job'.contents.arcs, 1, job'.copied) = <<>> /\ Len(job'.contents.arcs) = 0
    BY <2>1, SubSeqEmpty, EmptySeq
  <2>3. P!Pending' = <<>>
    <3>1. P!Pending' = [i \in 1 .. 0 |-> current'.arcs[start' + i]]
      BY <1>8 DEF P!Pending
    <3> QED
      BY <3>1, SMT
  <2> QED
    BY <1>16, <2>1, <2>2, <2>3 DEF JobInv
<1>18. ViewsInv'
  BY <1>1, <1>2 DEF Cloning, ViewsInv
<1> QED
  BY <1>8, <1>11, <1>12, <1>17, <1>18 DEF StoreInv

LEMMA CloneEnds ==
  ASSUME ExpandAssumption, ArenaSizes, StoreInv, CloneEnd
  PROVE  StoreInv'
<1>1. /\ Busy /\ job.kind = "clone" /\ job.state = -1 /\ job' = Idle
      /\ UNCHANGED <<protocol, table, views, arenaVars>>
  BY DEF CloneEnd
<1>2. Cloning /\ P!Pending = SubSeq(job.contents.arcs, 1, job.copied)
  BY <1>1, JobKinds DEF StoreInv
<1>3. P!PendingLen = 0
  <2>1. job.copied = 0
    BY <1>1, <1>2 DEF Cloning
  <2> QED
    BY <1>2, <2>1, NothingPending, SubSeqEmpty DEF StoreInv
<1>4. P!ArenaInv' /\ issued' = issued /\ epoch' = epoch /\ P!PendingLen' = P!PendingLen
  BY <1>1, ArenaRests DEF StoreInv
<1>5. TableInv' /\ ViewsInv'
  BY <1>1, <1>4, AllHeldStays DEF StoreInv
<1>6. ProtocolInv'
  BY <1>1, IdleKeeps DEF StoreInv, protocol
<1>7. JobInv'
  BY <1>1, <1>3, <1>4 DEF JobInv
<1> QED
  BY <1>4, <1>5, <1>6, <1>7 DEF StoreInv

\* Every step preserves the invariant.
LEMMA StoreStep ==
  ASSUME ExpandAssumption, ArenaSizes, StoreInv, [Next]_vars
  PROVE  StoreInv'
<1>1. ASSUME NEW s \in State, FindOrExpand(s) PROVE StoreInv'
  <2>1. ProtocolInv'
    BY <1>1, ExpandKeeps DEF FindOrExpand, StoreInv
  <2> QED
    BY <1>1, <2>1, ProtocolSteps DEF FindOrExpand
<1>2. CASE WriteArc
  <2>1. ProtocolInv'
    BY <1>2, WriteKeeps DEF WriteArc, StoreInv
  <2> QED
    BY <1>2, <2>1, ProtocolSteps DEF WriteArc
<1>3. CASE Unwind
  <2>1. ProtocolInv'
    BY <1>3, PanicKeeps DEF Unwind, StoreInv
  <2> QED
    BY <1>3, <2>1, ProtocolSteps DEF Unwind
<1>4. CASE UNCHANGED vars
  <2>1. UNCHANGED <<scratch, stack, known, iter, panics, table, job, views>> /\ UNCHANGED arenaVars
    BY <1>4 DEF vars, protocol
  <2>2. ProtocolInv'
    BY <2>1, IdleKeeps DEF StoreInv
  <2>3. /\ P!ArenaInv' /\ issued' = issued /\ epoch' = epoch
        /\ P!Pending' = P!Pending /\ P!PendingLen' = P!PendingLen
    BY <2>1, ArenaRests DEF StoreInv
  <2>4. TableInv' /\ ViewsInv'
    BY <2>1, <2>3, AllHeldStays DEF StoreInv
  <2>5. Storing => Storing'
    BY <2>1 DEF Storing, Finished, Top, Product
  <2>6. Cloning => Cloning'
    BY <2>1, <2>3 DEF Cloning, ToClone, Held, P!Live
  <2>7. JobInv'
    BY <2>1, <2>3, <2>5, <2>6 DEF JobInv, StoreInv
  <2> QED
    BY <2>2, <2>3, <2>4, <2>7 DEF StoreInv
<1> QED
  BY <1>1, <1>2, <1>3, <1>4, FindStep, FinishStep, CopyStep, CommitKeeps,
     CloneBegins, CloneStateKeeps, CloneCommitKeeps, CloneEnds DEF Next

LEMMA StoreStart ==
  ASSUME ExpandAssumption, ArenaSizes, Init
  PROVE  StoreInv
<1>1. P!ArenaInv /\ P!PendingLen = 0
  BY ArenaFits, OneArena, P!FreshArena DEF Init, P!Init
<1>2. ProtocolInv /\ DOMAIN table = {} /\ job = Idle /\ views = {}
  BY ProtocolStarts DEF Init
<1> QED
  BY <1>1, <1>2 DEF StoreInv, TableInv, ViewsInv, JobInv

LEMMA StoreInvariant ==
  ASSUME ExpandAssumption, ArenaSizes
  PROVE  Spec => []StoreInv
<1>1. Init => StoreInv
  BY StoreStart
<1>2. StoreInv /\ [Next]_vars => StoreInv'
  BY StoreStep
<1> QED
  BY <1>1, <1>2, PTL DEF Spec

-----------------------------------------------------------------------------
(***************************************************************************)
(* The store is a memo of the expander's answers.                          *)
(***************************************************************************)
Promise == INSTANCE Memo WITH memo <- Remembered, Answers <- ContentsFor

\* What Remembered is: what a clone copies from, and otherwise one answer for
\* every state of the table.
RememberedIs ==
  /\ Remembered = [s \in DOMAIN Remembered |-> Remembered[s]]
  /\ ~ Cloning => DOMAIN Remembered = DOMAIN table
  /\ ~ Cloning => \A s \in DOMAIN table : \A c : Held(table[s], c) => Remembered[s] = c
  /\ Cloning => Remembered = job.from
  /\ Cloning <=> Busy /\ job.kind = "clone"

LEMMA WhatIsRemembered == StoreInv => RememberedIs
<1> SUFFICES ASSUME StoreInv PROVE RememberedIs
  OBVIOUS
<1>1. Cloning <=> Busy /\ job.kind = "clone"
  <2>1. Cloning => job.kind = "clone" /\ job # Idle
    <3>1. Cloning => job.kind = "clone"
      BY DEF Cloning, CloneJob
    <3>2. Idle.kind = "idle"
      BY DEF Idle
    <3> QED
      BY <3>1, <3>2
  <2> QED
    BY <2>1, JobKinds DEF StoreInv, Busy
<1>2. CASE Cloning
  <2>1. Remembered = job.from /\ job.from \in Memos
    BY <1>1, <1>2 DEF Remembered, Cloning, CloneJob
  <2> QED
    BY <1>1, <1>2, <2>1 DEF Memos, RememberedIs
<1>3. CASE ~ Cloning
  <2>1. Remembered = [s \in DOMAIN table |-> Resolved(table[s])]
    BY <1>1, <1>3 DEF Remembered
  <2>2. \A s \in DOMAIN table : \A c : Held(table[s], c) => Remembered[s] = c
    BY <2>1, TableIsAMemo
  <2> QED
    BY <1>1, <1>3, <2>1, <2>2 DEF RememberedIs
<1> QED
  BY <1>2, <1>3

\* A step that leaves the table alone, with no clone before or after it,
\* leaves the memo alone.
LEMMA SameMemo ==
  ASSUME StoreInv, RememberedIs, RememberedIs', ~ Cloning, ~ Cloning',
         DOMAIN table' = DOMAIN table,
         \A s \in DOMAIN table : table'[s] = table[s],
         issued \subseteq issued', epoch' = epoch
  PROVE  Remembered' = Remembered
<1>1. ASSUME NEW s \in DOMAIN table PROVE Remembered'[s] = Remembered[s]
  <2>1. PICK c \in Contents : Held(table[s], c)
    BY DEF StoreInv, TableInv
  <2>2. PICK e : e = table[s]
    OBVIOUS
  <2>3. Held(e, c)'
    BY <2>1, <2>2, HeldStays
  <2>4. Held(table[s], c)'
    BY <2>2, <2>3 DEF Held
  <2> QED
    BY <2>1, <2>4 DEF RememberedIs
<1> QED
  BY <1>1 DEF RememberedIs

\* A step publishes the answer of the expansion whose copy is committed, if its
\* slot is empty, and otherwise leaves the memo alone.
LEMMA MemoStep ==
  ASSUME ExpandAssumption, ArenaSizes, StoreInv, StoreInv', [Next]_vars
  PROVE  [Promise!Next]_Remembered
<1>0. RememberedIs /\ RememberedIs'
  <2>1. (StoreInv => RememberedIs)'
    BY WhatIsRemembered, PTL
  <2> QED
    BY <2>1, WhatIsRemembered
<1>a. ASSUME ~ Busy, ~ Busy' \/ job'.kind # "clone", table' = table,
             issued' = issued, epoch' = epoch
      PROVE  Remembered' = Remembered
  <2>1. ~ Cloning /\ ~ Cloning'
    BY <1>0, <1>a DEF RememberedIs
  <2> QED
    BY <1>0, <1>a, <2>1, SameMemo
<1>b. ASSUME Busy, Busy', job.kind = "clone", job'.kind = "clone", job'.from = job.from
      PROVE  Remembered' = Remembered
  BY <1>0, <1>b DEF RememberedIs
<1>1. ASSUME NEW s \in State, Find(s) \/ FindOrExpand(s) PROVE Remembered' = Remembered
  BY <1>1, <1>a DEF Find, FindOrExpand, arenaVars, Busy
<1>2. CASE WriteArc \/ Unwind
  BY <1>2, <1>a DEF WriteArc, Unwind, arenaVars, Busy
<1>3. CASE Finish
  <2>1. job'.kind = "store" /\ table' = table /\ ~ Busy
    BY <1>3 DEF Finish
  <2>2. issued' = issued /\ epoch' = epoch
    BY <1>3 DEF Finish, Arena!ReserveArcs, arenaVars
  <2> QED
    BY <1>a, <2>1, <2>2
<1>4. CASE CopyArc
  <2>1. /\ Busy /\ job' = [job EXCEPT !.copied = job.copied + 1] /\ table' = table
        /\ issued' = issued /\ epoch' = epoch
    BY <1>4 DEF CopyArc, Arena!PushArc
  <2>2. CASE Storing
    <3>1. job'.kind = "store" /\ job.kind = "store"
      BY <2>1, <2>2 DEF Storing, StoreJob
    <3>2. ~ Cloning /\ ~ Cloning'
      BY <1>0, <3>1 DEF RememberedIs
    <3> QED
      BY <1>0, <2>1, <3>2, SameMemo
  <2>3. CASE Cloning
    <3>1. job'.kind = "clone" /\ job.kind = "clone" /\ job'.from = job.from
      BY <2>1, <2>3 DEF Cloning, CloneJob
    <3>2. Busy'
      <4>1. Idle.kind = "idle"
        BY DEF Idle
      <4> QED
        BY <3>1, <4>1 DEF Busy, Idle
    <3> QED
      BY <1>b, <2>1, <3>1, <3>2
  <2> QED
    BY <2>1, <2>2, <2>3, JobKinds DEF StoreInv
<1>5. CASE Commit
  <2>1. /\ Busy /\ job.kind = "store" /\ job.copied = Len(job.contents.arcs)
        /\ Arena!CommitArcs /\ HandBack /\ job' = Idle
    BY <1>5 DEF Commit
  <2>2. ~ Cloning /\ ~ Cloning'
    BY <1>0, <2>1 DEF RememberedIs, Busy
  <2>3. Storing /\ P!Pending = SubSeq(job.contents.arcs, 1, job.copied)
    BY <2>1, JobKinds DEF StoreInv
  <2>4. Top.state \in State /\ Product \in Contents /\ Product \in ContentsFor[Top.state]
        /\ job.contents = Product
    BY <2>3, Innermost, ProductIsTheAnswer DEF Storing, StoreInv
  <2>5. PICK c \in Contents : c = job.contents
    BY <2>4
  <2>6. PICK s \in State : s = Top.state
    BY <2>4
  <2>7. P!Pending = c.arcs
    BY <2>1, <2>3, <2>5, SubSeqFull DEF Contents
  <2>8. /\ issued \subseteq issued' /\ epoch' = epoch
        /\ \E e \in EntrySet : e = Entry(c, CommittedRun) /\ Held(e, c)'
    BY <2>1, <2>7, CommitHolds
  <2>9. PICK own \in EntrySet : own = Entry(c, CommittedRun) /\ Held(own, c)'
    BY <2>8
  <2>10. table' = Insert(table, s, IF s \in DOMAIN table THEN table[s] ELSE own)
    BY <1>5, <2>5, <2>6, <2>9 DEF Commit
  <2>11. CASE s \in DOMAIN table
    <3>1. DOMAIN table' = DOMAIN table /\ \A t \in DOMAIN table : table'[t] = table[t]
      BY <2>10, <2>11 DEF Insert
    <3> QED
      BY <1>0, <2>2, <2>8, <3>1, SameMemo
  <2>12. CASE s \notin DOMAIN table
    <3>1. /\ DOMAIN table' = DOMAIN table \cup {s} /\ table'[s] = own
          /\ \A t \in DOMAIN table : table'[t] = table[t]
      BY <2>10, <2>12 DEF Insert
    <3>2. DOMAIN Remembered' = DOMAIN Remembered \cup {s} /\ s \notin DOMAIN Remembered
          /\ DOMAIN Remembered = DOMAIN table
      BY <1>0, <2>2, <2>12, <3>1 DEF RememberedIs
    <3>3. Remembered'[s] = c
      <4>1. Held(table[s], c)'
        BY <2>9, <3>1 DEF Held
      <4> QED
        BY <1>0, <2>2, <3>1, <4>1 DEF RememberedIs
    <3>4. ASSUME NEW t \in DOMAIN table PROVE Remembered'[t] = Remembered[t]
      <4>1. PICK d \in Contents : Held(table[t], d)
        BY DEF StoreInv, TableInv
      <4>2. PICK e : e = table[t]
        OBVIOUS
      <4>3. Held(e, d)'
        BY <2>8, <4>1, <4>2, HeldStays
      <4>4. Held(table[t], d)'
        BY <3>1, <4>2, <4>3 DEF Held
      <4> QED
        BY <1>0, <2>2, <3>1, <4>1, <4>4 DEF RememberedIs
    <3>5. Remembered' = [t \in DOMAIN Remembered \cup {s} |-> IF t = s THEN c ELSE Remembered[t]]
      <4>1. Remembered' = [t \in DOMAIN Remembered' |-> Remembered'[t]]
        BY <1>0 DEF RememberedIs
      <4>2. \A t \in DOMAIN Remembered' : Remembered'[t] = IF t = s THEN c ELSE Remembered[t]
        BY <3>2, <3>3, <3>4
      <4> QED
        BY <3>2, <4>1, <4>2
    <3>6. Promise!Publish(s, c)
      BY <3>2, <3>5 DEF Promise!Publish
    <3> QED
      BY <2>4, <2>5, <2>6, <3>6 DEF Promise!Next
  <2> QED
    BY <2>11, <2>12
<1>6. CASE CloneBegin
  <2>1. /\ ~ Busy
        /\ job' = [kind |-> "clone", contents |-> NoArcs, copied |-> 0,
                   from |-> [s \in DOMAIN table |-> Resolved(table[s])], state |-> -1]
    BY <1>6 DEF CloneBegin
  <2>2. job'.kind = "clone" /\ job'.from = [s \in DOMAIN table |-> Resolved(table[s])]
    BY <2>1
  <2>3. Remembered = job'.from
    BY <2>1, <2>2 DEF Remembered
  <2>4. Busy'
    <3>1. Idle.kind = "idle"
      BY DEF Idle
    <3> QED
      BY <2>2, <3>1 DEF Busy, Idle
  <2>5. Remembered' = job'.from
    BY <2>2, <2>4 DEF Remembered
  <2> QED
    BY <2>3, <2>5
<1>7. ASSUME (\E s \in State : CloneState(s)) \/ CloneCommit PROVE Remembered' = Remembered
  <2>1. /\ Busy /\ job.kind = "clone"
        /\ \E s, c : job' = [job EXCEPT !.state = s, !.contents = c, !.copied = 0]
    BY <1>7 DEF CloneState, CloneCommit
  <2>2. job \in CloneJob
    BY <2>1, JobKinds DEF StoreInv, Cloning
  <2>3. job'.kind = "clone" /\ job'.from = job.from
    BY <2>1, <2>2 DEF CloneJob
  <2>4. Busy'
    <3>1. Idle.kind = "idle"
      BY DEF Idle
    <3> QED
      BY <2>3, <3>1 DEF Busy, Idle
  <2> QED
    BY <1>b, <2>1, <2>3, <2>4
<1>8. CASE CloneEnd
  <2>1. /\ Busy /\ job.kind = "clone" /\ ToClone = {} /\ job' = Idle
        /\ table' = table /\ issued' = issued /\ epoch' = epoch
    BY <1>8 DEF CloneEnd, arenaVars
  <2>2. Cloning /\ ~ Cloning'
    BY <1>0, <2>1 DEF RememberedIs, Busy
  <2>3. DOMAIN job.from = DOMAIN table /\ Remembered = job.from
    BY <1>0, <2>1, <2>2 DEF ToClone, Cloning, RememberedIs
  <2>4. ASSUME NEW s \in DOMAIN table PROVE Remembered'[s] = job.from[s]
    <3>1. PICK c : c = job.from[s]
      OBVIOUS
    <3>2. Held(table[s], c)
      BY <2>2, <3>1 DEF Cloning
    <3>3. PICK e : e = table[s]
      OBVIOUS
    <3>4. Held(e, c)'
      BY <2>1, <3>2, <3>3, HeldStays
    <3>5. Held(table[s], c)'
      BY <2>1, <3>3, <3>4 DEF Held
    <3> QED
      BY <1>0, <2>1, <2>2, <3>1, <3>5 DEF RememberedIs
  <2> QED
    BY <1>0, <2>1, <2>2, <2>3, <2>4 DEF RememberedIs
<1>9. CASE UNCHANGED vars
  BY <1>9 DEF vars, Remembered, Resolved, Arena!Arcs, Arena!BlockOf, arenaVars, Busy
<1> QED
  BY <1>1, <1>2, <1>3, <1>4, <1>5, <1>6, <1>7, <1>8, <1>9 DEF Next

-----------------------------------------------------------------------------
(***************************************************************************)
(* The theorems.                                                           *)
(***************************************************************************)

\* Every reachable state is well typed, the arena's own state included, and
\* what the arena has pending is what the copy in progress has written.
THEOREM StoreTypeCorrect ==
  ASSUME ExpandAssumption, ArenaSizes
  PROVE  Spec => []TypeOK
<1>1. ASSUME StoreInv PROVE TypeOK
  <2>1. ProtocolTypeOK /\ Arena!TypeOK
    BY <1>1, OneArena DEF StoreInv, ProtocolInv, P!ArenaInv
  <2>2. \A s \in DOMAIN table : table[s] \in [final : Weight, ni : Nat, no : Nat, run : Arena!Run]
    BY <1>1 DEF StoreInv, TableInv, EntrySet
  <2>3. \A v \in views : v.contents \in Contents
    BY <1>1 DEF StoreInv, ViewsInv
  <2>4. P!PendingLen = IF Busy THEN job.copied ELSE 0
    <3>1. CASE Busy
      <4>1. /\ job.copied <= Len(job.contents.arcs)
            /\ P!Pending = SubSeq(job.contents.arcs, 1, job.copied)
            /\ Len(P!Pending) = P!PendingLen
        BY <1>1, <3>1, JobKinds, NothingPending DEF StoreInv
      <4>2. job.copied \in Nat /\ Len(job.contents.arcs) \in Nat /\ job.contents.arcs \in Seq(Arc)
        <5>1. Storing \/ Cloning
          BY <1>1, <3>1, JobKinds DEF StoreInv
        <5>2. <<>> \in Seq(Arc) /\ NoArcs.arcs = <<>>
          BY EmptySeq DEF NoArcs
        <5>3. \A c \in Contents : c.arcs \in Seq(Arc)
          BY DEF Contents
        <5>4. Storing => job.copied \in Nat /\ job.contents \in Contents
          BY DEF Storing, StoreJob
        <5>5. Cloning => job.copied \in Nat /\ job.contents \in Contents \cup {NoArcs}
          BY DEF Cloning, CloneJob
        <5>6. job.contents.arcs \in Seq(Arc)
          BY <5>1, <5>2, <5>3, <5>4, <5>5
        <5> QED
          BY <5>1, <5>4, <5>5, <5>6, LenProperties
      <4>3. PICK n \in Nat, arcs \in Seq(Arc) : n = job.copied /\ arcs = job.contents.arcs
        BY <4>2
      <4>4. \A i \in 1 .. n : arcs[i] \in Arc
        <5>1. n <= Len(arcs) /\ Len(arcs) \in Nat
          BY <4>1, <4>3, LenProperties
        <5> QED
          BY <5>1, ElementOfSeq
      <4>5. Len(SubSeq(arcs, 1, n)) = IF 1 <= n THEN n - 1 + 1 ELSE 0
        BY <4>4, SubSeqProperties
      <4> QED
        BY <3>1, <4>1, <4>3, <4>5
    <3>2. CASE ~ Busy
      BY <1>1, <3>2, JobKinds DEF StoreInv
    <3> QED
      BY <3>1, <3>2
  <2> QED
    BY <2>1, <2>2, <2>3, <2>4 DEF TypeOK, P!PendingLen
<1>2. StoreInv => TypeOK
  BY <1>1
<1> QED
  BY <1>2, StoreInvariant, PTL

\* expand_with lends one scratch builder to expansions that nest around the
\* store's copies too, and each still holds exactly what it wrote.
THEOREM StoreBuildersDoNotMix ==
  ASSUME ExpandAssumption, ArenaSizes
  PROVE  Spec => []BuildersDoNotMix
<1>1. StoreInv => BuildersDoNotMix
  BY FramesDoNotMix DEF StoreInv
<1> QED
  BY <1>1, StoreInvariant, PTL

\* "An ArcRun stays valid until the store is dropped": however the arena grows
\* under later, nested, orphaned and panicking expansions, a view resolves to
\* the arcs it was handed out with, and its slot keeps its entry.
THEOREM StoreViewsStayValid ==
  ASSUME ExpandAssumption, ArenaSizes
  PROVE  Spec => []ViewsStayValid
<1>1. ASSUME StoreInv PROVE ViewsStayValid
  BY <1>1, HeldResolves DEF StoreInv, ViewsInv, ViewsStayValid
<1>2. StoreInv => ViewsStayValid
  BY <1>1
<1> QED
  BY <1>2, StoreInvariant, PTL

\* What a cache of expanded states promises.
MemoSpec == Promise!Spec

\* The store is a memo: it publishes one of the expander's answers for a state
\* once, and a clone, state by state and in any order, forgets and changes none.
THEOREM StoreIsAMemo ==
  ASSUME ExpandAssumption, ArenaSizes
  PROVE  Spec => MemoSpec
<1>1. Init => Promise!Init
  <2>1. Init => ~ Busy /\ DOMAIN table = {} /\ table = [s \in {} |-> s]
    BY DEF Init, Busy
  <2> QED
    BY <2>1 DEF Promise!Init, Remembered
<1>2. StoreInv /\ StoreInv' /\ [Next]_vars => [Promise!Next]_Remembered
  BY MemoStep
<1> QED
  BY <1>1, <1>2, StoreInvariant, PTL DEF Spec, MemoSpec, Promise!Spec
=============================================================================
