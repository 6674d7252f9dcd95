------------------------- MODULE WeightedAdmission -------------------------
(***************************************************************************)
(* What one level of a workflow promises about concurrency: every task of  *)
(* the level enters once and leaves once, and the tasks inside together    *)
(* weigh at most MaxParallel.  How permits are handed out is left to       *)
(* LevelPermits, which implements this specification.                      *)
(***************************************************************************)
EXTENDS Integers, FiniteSets

CONSTANTS
  Tasks,        \* the active nodes of one level
  Weight(_),    \* the permits a task needs: 1 or 2
  MaxParallel   \* the capacity of the level

VARIABLES
  inside,       \* tasks whose node is being executed
  finished      \* tasks that have left

vars == <<inside, finished>>

Slots(S) == {p \in S \X {1, 2} : p[2] <= Weight(p[1])}

Load(S) == Cardinality(Slots(S))

Init == inside = {} /\ finished = {}

Enter(t) ==
  /\ t \notin inside \cup finished
  /\ Load(inside \cup {t}) <= MaxParallel
  /\ inside' = inside \cup {t}
  /\ UNCHANGED finished

Leave(t) ==
  /\ t \in inside
  /\ inside' = inside \ {t}
  /\ finished' = finished \cup {t}

Next == \E t \in Tasks : Enter(t) \/ Leave(t)

Spec == Init /\ [][Next]_vars
=============================================================================
