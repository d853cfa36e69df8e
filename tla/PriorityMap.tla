----------------------------- MODULE PriorityMap -----------------------------
(***************************************************************************)
(* What a heap with stable keys promises: a map from the keys it handed    *)
(* out to the values held, where a pop takes some key of least value.      *)
(***************************************************************************)
EXTENDS Integers

CONSTANTS
  Value,  \* the values that can be held
  Key     \* the keys that can be handed out

VARIABLES
  held,   \* the value under each live key
  taken   \* the value the last pop answered, -1 before the first

Init == held = [k \in {} |-> k] /\ taken = -1

Insert(k, v) ==
  /\ k \notin DOMAIN held
  /\ held' = [j \in DOMAIN held \cup {k} |-> IF j = k THEN v ELSE held[j]]
  /\ UNCHANGED taken

Update(k, v) ==
  /\ k \in DOMAIN held
  /\ held' = [held EXCEPT ![k] = v]
  /\ UNCHANGED taken

Pop(k) ==
  /\ k \in DOMAIN held
  /\ \A j \in DOMAIN held : held[k] <= held[j]
  /\ held' = [j \in DOMAIN held \ {k} |-> held[j]]
  /\ taken' = held[k]

Clear ==
  /\ held' = [k \in {} |-> k]
  /\ UNCHANGED taken

Next ==
  \/ \E k \in Key, v \in Value : Insert(k, v) \/ Update(k, v)
  \/ \E k \in Key : Pop(k)
  \/ Clear

Spec == Init /\ [][Next]_<<held, taken>>
=============================================================================
