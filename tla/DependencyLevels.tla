-------------------------- MODULE DependencyLevels --------------------------
(***************************************************************************)
(* DependencyGraph: what happens to the listed node configurations when a  *)
(* Workflow is constructed.  Unknown dependencies are rejected, then       *)
(* cycles, and the nodes of what remains get their topological level,      *)
(* which execute() later walks in increasing order.                        *)
(*                                                                         *)
(* networkx is external: simple_cycles is taken to find a cycle whenever   *)
(* there is one, topological_sort to yield the nodes in any order that     *)
(* puts predecessors first.                                                *)
(***************************************************************************)
EXTENDS Integers, FiniteSets

CONSTANT Names   \* identifiers nodes may have or refer to

ASSUME NamesAssumption == IsFiniteSet(Names)

VARIABLES
  ids,     \* the identifiers of the listed nodes
  deps,    \* their declared dependencies
  edges,   \* the DiGraph: <<dependency, dependent>>
  todo,    \* nodes the current loop has not visited
  level,   \* node.level, as far as it is assigned
  phase    \* edges, levels, built, or the error that was raised

vars == <<ids, deps, edges, todo, level, phase>>

TypeOK ==
  /\ ids \subseteq Names
  /\ deps \in [ids -> SUBSET Names]
  /\ edges \subseteq ids \X ids
  /\ todo \subseteq ids
  /\ level \in [ids -> Nat]
  /\ phase \in {"edges", "levels", "built", "unknown", "circular"}

(* BaseNodeConfig refuses a node that depends on itself, so no           *)
(* configuration handed to DependencyGraph lists one.                    *)
Init ==
  /\ ids \in (SUBSET Names) \ {{}}
  /\ deps \in {d \in [ids -> SUBSET Names] : \A n \in ids : n \notin d[n]}
  /\ edges = {}
  /\ todo = ids
  /\ level = [n \in ids |-> 0]
  /\ phase = "edges"

(* Mutant: an undirected graph. *)
Neighbours(n) == {m \in ids : <<m, n>> \in edges \/ <<n, m>> \in edges}

Predecessors(n) == {m \in ids : <<m, n>> \in edges}

(* Some nodes each have a predecessor among themselves. *)
Cyclic ==
  \E S \in (SUBSET ids) \ {{}} : \A n \in S : Predecessors(n) \cap S # {}

(* _build_graph, one node of the list: its edges, or an error. *)
AddNode(n) ==
  /\ phase = "edges"
  /\ n \in todo
  /\ \/ /\ deps[n] \subseteq ids
        /\ edges' = edges \cup (deps[n] \X {n})
        /\ todo' = todo \ {n}
        /\ UNCHANGED phase
     \/ /\ ~ deps[n] \subseteq ids
        /\ phase' = "unknown"
        /\ UNCHANGED <<edges, todo>>
  /\ UNCHANGED <<ids, deps, level>>

(* _build_graph, after the loop. *)
CheckCycles ==
  /\ phase = "edges"
  /\ todo = {}
  /\ \/ Cyclic /\ phase' = "circular" /\ UNCHANGED todo
     \/ ~ Cyclic /\ phase' = "levels" /\ todo' = ids
  /\ UNCHANGED <<ids, deps, edges, level>>

(* Mutant: without the + 1. *)
AtDeepest(n, l) ==
  /\ \A d \in deps[n] : level[d] <= l
  /\ l = 0 \/ \E d \in deps[n] : level[d] = l

(* max(level of the dependencies, default=-1) + 1 *)
OneAboveDeepest(n, l) ==
  /\ \A d \in deps[n] : level[d] < l
  /\ l = 0 \/ \E d \in deps[n] : level[d] + 1 = l

(* _assign_levels, the next node of the topological order. *)
AssignLevel(n) ==
  /\ phase = "levels"
  /\ n \in todo
  /\ Predecessors(n) \cap todo = {}
  /\ \E l \in 0 .. Cardinality(Names) :
       /\ OneAboveDeepest(n, l)
       /\ level' = [level EXCEPT ![n] = l]
  /\ todo' = todo \ {n}
  /\ UNCHANGED <<ids, deps, edges, phase>>

LevelsAssigned ==
  /\ phase = "levels"
  /\ todo = {}
  /\ phase' = "built"
  /\ UNCHANGED <<ids, deps, edges, todo, level>>

(* The constructor has returned or raised. *)
Constructed == phase \in {"built", "unknown", "circular"} /\ UNCHANGED vars

Next ==
  \/ \E n \in Names : AddNode(n) \/ AssignLevel(n)
  \/ CheckCycles
  \/ LevelsAssigned
  \/ Constructed

Spec == Init /\ [][Next]_vars

-----------------------------------------------------------------------------
(* Properties *)

(* A workflow that was built has levels that respect every declared       *)
(* dependency, although levels are assigned from the graph's order and    *)
(* read from the declarations.                                            *)
LevelsRespectDeps ==
  phase = "built" =>
    \A n \in ids : deps[n] \subseteq ids /\ \A d \in deps[n] : level[d] < level[n]

(* The sort never runs out of nodes while some are left: the check before *)
(* it let only acyclic graphs through.                                    *)
SortNeverStuck ==
  phase = "levels" /\ todo # {} => \E n \in todo : Predecessors(n) \cap todo = {}

(* Construction rejects exactly the lists with an unknown dependency or a *)
(* circle of declared dependencies, and names the right reason.           *)
DeclaredCircle ==
  \E S \in (SUBSET ids) \ {{}} : \A n \in S : deps[n] \cap S # {}
VerdictIsRight ==
  /\ phase = "built" => ~ DeclaredCircle
  /\ phase = "circular" => DeclaredCircle
  /\ phase = "unknown" => \E n \in ids : ~ deps[n] \subseteq ids
=============================================================================
