-------------------------------- MODULE Memo --------------------------------
(***************************************************************************)
(* What an expander cache promises, apart from any storage: it remembers   *)
(* the first contents an expansion produced for a state, and never changes *)
(* or forgets them.                                                        *)
(***************************************************************************)
CONSTANTS
  State,     \* the states of the automaton
  Answers    \* Answers[s]: the contents the expander may write for state s

VARIABLE memo  \* the states remembered, with their contents

Init == memo = [s \in {} |-> s]

Publish(s, c) ==
  /\ s \notin DOMAIN memo
  /\ memo' = [t \in DOMAIN memo \cup {s} |-> IF t = s THEN c ELSE memo[t]]

Next == \E s \in State : \E c \in Answers[s] : Publish(s, c)

Spec == Init /\ [][Next]_memo
=============================================================================
