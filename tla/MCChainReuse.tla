---------------------------- MODULE MCChainReuse ----------------------------
(* Two executions of the graphs of N nodes, the second and the third of    *)
(* which are conditions; the first reports tokens, the last has a prompt.  *)
EXTENDS ChainReuse

CONSTANTS e1, e2

(* The first two nodes are at the same level, the last is below one other. *)
Shapes ==
  {deps \in [Nodes -> SUBSET Nodes] :
     /\ deps[1] = {} /\ deps[2] = {}
     /\ deps[3] \in {{}, {2}, {1, 2}} /\ deps[4] \in {{2}, {3}}}

Branches(second, third) == [n \in Nodes |-> CASE n = 2 -> second [] n = 3 -> third [] OTHER -> {}]

(* The conditions compete for the last node; the second of them is itself  *)
(* on a branch of the first.                                               *)
EveryGraph ==
  {[deps |-> deps, conditions |-> {2, 3},
    branch |-> [b \in BOOLEAN |-> IF b THEN Branches({3}, {4}) ELSE Branches({4}, {4})]]
   : deps \in Shapes}

(* The first condition says true of one execution, the second of e1 only. *)
SomeVerdicts ==
  {[e \in Execs |-> [n \in Nodes |-> IF (n = 2 /\ e # o) \/ (n = 3 /\ e = e2) THEN "false" ELSE "true"]]
   : o \in Execs}

(* One report fits the ceiling. *)
SomeUsage == [n \in Nodes |-> IF n = 1 THEN {0, 1} ELSE {0}]
=============================================================================
