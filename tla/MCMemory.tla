------------------------------ MODULE MCMemory ------------------------------
(***************************************************************************)
(* What holds the states of an automaton for later readers, the arena of   *)
(* arc runs and the cache that evicts, and the tables and sets beside      *)
(* them.  Each behaviour drives one, chosen at the start.  The cache's     *)
(* three states have no, one and two arcs, and one of their ids lies       *)
(* beyond its dense map; of the four symbols two share a bucket, and the   *)
(* buckets are doubled at the third.                                       *)
(***************************************************************************)
EXTENDS ArcArena, GcCache, TLC

CONSTANT NoAnswer  \* what a table answers where there is nothing

VARIABLES
  kind,                    \* what is driven: "arena", "cache" or "tables"
  which, held, truth, said

MCTargets == [s \in 0 .. 2 |-> CASE s = 0 -> <<1>> [] s = 1 -> <<2, 0>> [] s = 2 -> <<>>]
MCIsFinal == [s \in 0 .. 2 |-> s = 2]
MCHash == ("a" :> 3) @@ ("b" :> 3) @@ ("c" :> 0) @@ ("d" :> 5)

T == INSTANCE Tables WITH
       Symbol <- DOMAIN MCHash, hash <- MCHash, Key <- {-3, -1, 0, 2}, MaxKey <- 3, MaxSharing <- 3, Entry <- 0 .. 2, MaxIds <- 5,
       Index <- {0, 1, 2, 4}, Member <- {-3, 0, 1, 2, 4}, None <- NoAnswer

tables == <<which, held, truth, said>>

ASSUME CacheSetup == CacheAssumption
ASSUME TablesSetup == T!TablesAssumption

\* The tables that a table is merged with.
Named(label, symbol) == [label |-> label, symbol |-> symbol]
OtherTables == {<<Named(0, "a"), Named(1, "b")>>, <<Named(1, "a"), Named(0, "c"), Named(2, "d")>>, <<Named(-3, "b")>>}

IdleTables == which = "none" /\ held = <<>> /\ truth = <<>> /\ said = T!Nothing

MCInit ==
  /\ kind \in {"arena", "cache", "tables"} /\ Init /\ CacheInit
  /\ IF kind = "tables" THEN T!Init ELSE IdleTables

MCNext ==
  /\ UNCHANGED kind
  /\ \/ kind = "arena" /\ Next /\ UNCHANGED <<cacheVars, tables>>
     \/ kind = "cache" /\ CacheNext /\ UNCHANGED <<vars, tables>>
     \/ kind = "tables" /\ T!Next /\ UNCHANGED <<vars, cacheVars>>

MCSpec == MCInit /\ [][MCNext]_<<kind, vars, cacheVars, tables>>

-----------------------------------------------------------------------------
\* Symbol tables, tables of entries and sets say what was put in them, in every way
\* they can be asked: a symbol the key it was given, whatever other symbols were given
\* that key; a key a symbol that was given it; and until a table of entries is
\* cleared, an id is given once, and names nothing after it was erased: see Tables.
TablesAnswerRight ==
  /\ [](kind = "tables" => /\ T!TablesTypeOK /\ T!SymbolsAreRight(OtherTables) /\ T!EntriesAreRight
                           /\ T!BitsAreRight /\ T!MembersAreRight)
  /\ [][T!AnswersAreKept]_tables

\* "Returns the smallest positive contiguous key not yet assigned", of a table whose
\* keys have gaps too: see Tables.
AvailableKeyIsSmallest == kind = "tables" => T!AvailableKeyIsSmallest
=============================================================================
