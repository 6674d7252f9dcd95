------------------------------- MODULE DagRun -------------------------------
(***************************************************************************)
(* What one execution of a workflow promises about its nodes, whatever the *)
(* levels, branches, ceilings and failure policy do: a node begins at most *)
(* once, never before every node it depends on is settled, and when the    *)
(* execution is over nothing is running and nothing begins.                *)
(***************************************************************************)
CONSTANT Nodes

VARIABLES
  deps,      \* what each node depends on; fixed
  running,   \* nodes being executed
  settled,   \* nodes whose execution ended or was refused
  over       \* execute() has returned or raised

vars == <<deps, running, settled, over>>

Init ==
  /\ deps \in [Nodes -> SUBSET Nodes]
  /\ running = {} /\ settled = {} /\ over = FALSE

Ready(n) == ~ over /\ n \notin running \cup settled /\ deps[n] \subseteq settled

Begin(n) ==
  /\ Ready(n)
  /\ running' = running \cup {n}
  /\ UNCHANGED <<deps, settled, over>>

(* The inputs of n cannot be put together. *)
Refuse(n) ==
  /\ Ready(n)
  /\ settled' = settled \cup {n}
  /\ UNCHANGED <<deps, running, over>>

Settle(n) ==
  /\ n \in running
  /\ running' = running \ {n}
  /\ settled' = settled \cup {n}
  /\ UNCHANGED <<deps, over>>

End ==
  /\ ~ over /\ running = {}
  /\ over' = TRUE
  /\ UNCHANGED <<deps, running, settled>>

Next == End \/ \E n \in Nodes : Begin(n) \/ Refuse(n) \/ Settle(n)

Spec == Init /\ [][Next]_vars
=============================================================================
