------------------------- MODULE ArcArenaStateStore -------------------------
(***************************************************************************)
(* ArcArenaStateStore of sicada/src/expander_cache.rs: an expander cache   *)
(* whose states share one arc arena.  A finished expansion copies its arcs *)
(* into the arena, commits them as a run, and stores the run unless a      *)
(* nested expansion filled the slot first, which leaves the run orphaned.  *)
(* The copy is one closure that calls nothing back, so nothing interleaves *)
(* with it; its steps are the arena's own operations.                      *)
(***************************************************************************)
EXTENDS ExpandWith

CONSTANTS BlockSize, MaxRetained, MaxReserve, MaxPushes, MaxRuns

VARIABLES
  table,      \* state -> boxed arena state
  job,        \* the copy into the arena in progress
  views,      \* history: the views handed to callers
  retired, current, start, firstBlockSize, totalSize, pushes, issued, epoch

arenaVars == <<retired, current, start, firstBlockSize, totalSize, pushes, issued, epoch>>
vars == <<protocol, table, job, views, arenaVars>>

Arena == INSTANCE ArcArena WITH MaxEpoch <- 1

Idle == [kind |-> "idle"]
NoArcs == [arcs |-> <<>>]

\* Mutant: the epsilon counts are swapped on the way into the table.
EntrySwapsCounts(c, run) == [final |-> c.final, ni |-> c.no, no |-> c.ni, run |-> run]

\* A state of the table: everything but the arcs, which its run resolves to.
Entry(c, run) == [final |-> c.final, ni |-> c.ni, no |-> c.no, run |-> run]
Resolved(e) == [final |-> e.final, ni |-> e.ni, no |-> e.no, arcs |-> Arena!Arcs(e.run)]
Insert(t, s, e) == [u \in DOMAIN t \cup {s} |-> IF u = s THEN e ELSE t[u]]

Init ==
  /\ InitProtocol
  /\ Arena!Init
  /\ table = [s \in {} |-> s]
  /\ job = Idle
  /\ views = {}

Busy == job # Idle

Find(s) ==
  /\ ~ Busy
  /\ s \in DOMAIN table
  /\ views' = views \cup {[state |-> s, entry |-> table[s], contents |-> Resolved(table[s])]}
  /\ UNCHANGED <<protocol, table, job, arenaVars>>

FindOrExpand(s) ==
  /\ ~ Busy
  /\ s \notin DOMAIN table
  /\ Expand(s)
  /\ UNCHANGED <<iter, table, job, views, arenaVars>>

WriteArc == ~ Busy /\ Write /\ UNCHANGED <<table, job, views, arenaVars>>

Unwind == ~ Busy /\ Panic /\ UNCHANGED <<table, job, views, arenaVars>>

\* The expander returned: make room for the whole state in one block.
Finish ==
  /\ ~ Busy
  /\ stack # <<>> /\ Finished(Top)
  /\ job' = [kind |-> "store", contents |-> Product, copied |-> 0]
  /\ \/ Arena!ReserveArcs(Len(Product.arcs))
     \/ /\ current.cap - Len(current.arcs) >= Len(Product.arcs)
        /\ UNCHANGED arenaVars
  /\ UNCHANGED <<protocol, table, views>>

CopyArc ==
  /\ Busy /\ job.copied < Len(job.contents.arcs)
  /\ Arena!PushArc(job.contents.arcs[job.copied + 1])
  /\ job' = [job EXCEPT !.copied = @ + 1]
  /\ UNCHANGED <<protocol, table, views>>

CommittedRun ==
  [block |-> Len(retired), start |-> start, len |-> Len(current.arcs) - start]

\* The run is committed and stored, unless the slot has been filled meanwhile.
Commit ==
  /\ Busy /\ job.kind = "store" /\ job.copied = Len(job.contents.arcs)
  /\ Arena!CommitArcs
  /\ HandBack
  /\ LET s == Top.state
         e == IF s \in DOMAIN table THEN table[s] ELSE Entry(job.contents, CommittedRun)
     IN  /\ table' = Insert(table, s, e)
         /\ views' = views \cup
              {[state |-> s, entry |-> e,
                contents |-> IF s \in DOMAIN table THEN Resolved(e) ELSE job.contents]}
  /\ job' = Idle

-----------------------------------------------------------------------------
(***************************************************************************)
(* Clone lays every state out afresh, in hash order, in an arena of its    *)
(* own.  The model goes on with the clone; the original is kept in `job'   *)
(* until the last state is copied.                                         *)
(***************************************************************************)
CloneBegin ==
  /\ ~ Busy /\ stack = <<>> /\ epoch = 0
  /\ job' = [kind |-> "clone", contents |-> NoArcs, copied |-> 0,
             from |-> [s \in DOMAIN table |-> Resolved(table[s])], state |-> -1]
  /\ table' = [s \in {} |-> s]
  /\ views' = {}
  /\ scratch' = EmptyBuilder
  /\ retired' = <<>> /\ current' = Arena!EmptyBlock(BlockSize) /\ start' = 0
  /\ firstBlockSize' = BlockSize /\ totalSize' = BlockSize
  /\ pushes' = 0 /\ issued' = {} /\ epoch' = 1
  /\ UNCHANGED <<stack, known, iter, panics>>

ToClone == DOMAIN job.from \ DOMAIN table

CloneState(s) ==
  /\ Busy /\ job.kind = "clone" /\ job.state = -1
  /\ s \in ToClone
  /\ job' = [job EXCEPT !.state = s, !.contents = job.from[s], !.copied = 0]
  /\ \/ Arena!ReserveArcs(Len(job.from[s].arcs))
     \/ /\ current.cap - Len(current.arcs) >= Len(job.from[s].arcs)
        /\ UNCHANGED arenaVars
  /\ UNCHANGED <<protocol, table, views>>

CloneCommit ==
  /\ Busy /\ job.kind = "clone" /\ job.state # -1
  /\ job.copied = Len(job.contents.arcs)
  /\ Arena!CommitArcs
  /\ table' = Insert(table, job.state, Entry(job.contents, CommittedRun))
  /\ job' = [job EXCEPT !.state = -1, !.contents = NoArcs, !.copied = 0]
  /\ UNCHANGED <<protocol, views>>

CloneEnd ==
  /\ Busy /\ job.kind = "clone" /\ job.state = -1
  /\ ToClone = {}
  /\ job' = Idle
  /\ UNCHANGED <<protocol, table, views, arenaVars>>

Next ==
  \/ \E s \in State : Find(s) \/ FindOrExpand(s)
  \/ WriteArc \/ Unwind \/ Finish \/ CopyArc \/ Commit
  \/ CloneBegin \/ (\E s \in State : CloneState(s)) \/ CloneCommit \/ CloneEnd

Spec == Init /\ [][Next]_vars

-----------------------------------------------------------------------------
(***************************************************************************)
(* Properties                                                              *)
(***************************************************************************)

\* Types, of the store's own state and of the arena's; the arena's run in
\* progress is what the copy has written, and empty between copies.
TypeOK ==
  /\ ProtocolTypeOK
  /\ Arena!TypeOK
  /\ \A s \in DOMAIN table : table[s] \in [final : Weight, ni : Nat, no : Nat, run : Arena!Run]
  /\ \A v \in views : v.contents \in Contents
  /\ Len(current.arcs) - start = IF Busy THEN job.copied ELSE 0

\* "An ArcRun stays valid until the store is dropped": a view of a state keeps
\* resolving to the arcs it was handed out with, while later states are packed
\* into the same blocks, nested expansions leave orphaned runs behind, and
\* expansions panic.
ViewsStayValid ==
  \A v \in views : /\ table[v.state] = v.entry
                   /\ Arena!Resolvable(v.entry.run)
                   /\ Resolved(v.entry) = v.contents

\* What the store remembers, a clone being made included.
Remembered ==
  IF Busy /\ job.kind = "clone" THEN job.from
  ELSE [s \in DOMAIN table |-> Resolved(table[s])]
=============================================================================
