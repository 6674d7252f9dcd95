----------------------------- MODULE MCWorkflow -----------------------------
(* Workflows of a few nodes, with levels and ancestors computed. *)
EXTENDS Workflow, FiniteSetsExt

LevelOf(deps) ==
  LET level[n \in Nodes] ==
        IF deps[n] = {} THEN 0 ELSE 1 + Max({level[d] : d \in deps[n]})
  IN  [n \in Nodes |-> level[n]]

AncestorsOf(deps) ==
  LET anc[n \in Nodes] == deps[n] \cup UNION {anc[d] : d \in deps[n]}
  IN  [n \in Nodes |-> anc[n]]

(* Nodes are numbered in a topological order. *)
Shapes == {deps \in [Nodes -> SUBSET Nodes] : \A n \in Nodes : \A d \in deps[n] : d < n}

Nothing == [n \in Nodes |-> {}]

Plain(deps, policy) ==
  [deps |-> deps, anc |-> AncestorsOf(deps), level |-> LevelOf(deps),
   mapped |-> Nothing, conditions |-> {}, branch |-> [b \in BOOLEAN |-> Nothing],
   cost |-> [n \in Nodes |-> 0], policy |-> policy,
   tokenCeiling |-> 0, depthCeiling |-> 0, guarded |-> FALSE]

(* Node 1 is a condition that picks between nodes 2 and 3. *)
Branching(w) ==
  [w EXCEPT !.conditions = {1},
            !.branch = [b \in BOOLEAN |->
                          [Nothing EXCEPT ![1] = IF b THEN {2} ELSE {3}]]]

Mapping(w) == [w EXCEPT !.mapped = w.deps]
Metered(w, ceiling) ==
  [w EXCEPT !.cost = [n \in Nodes |-> 1], !.tokenCeiling = ceiling]

(* Every shape and policy, with and without branches, mappings, ceilings. *)
EveryShape ==
  LET plain == {Plain(deps, p) : deps \in Shapes, p \in Policies}
      branching == {Branching(w) : w \in plain}
  IN  plain \cup branching \cup {Mapping(w) : w \in plain \cup branching}
        \cup {[w EXCEPT !.depthCeiling = 2] : w \in branching}
        \cup {Metered(w, 2) : w \in branching}
        \cup {[Metered(w, 0) EXCEPT !.guarded = TRUE] : w \in plain}
=============================================================================
