---------------------------- MODULE BranchGating ----------------------------
(***************************************************************************)
(* BranchGatingResolver: condition nodes record their outcome, and         *)
(* is_node_active walks up the dependencies of a node to see whether it    *)
(* lies on a branch not taken, remembering what it finds on the way.       *)
(* ChainReuse lets executions of one workflow object ask and record.       *)
(***************************************************************************)
EXTENDS Integers, FiniteSetsExt

CONSTANTS
  N,         \* how many nodes the workflow has
  Graphs     \* the graphs, with their conditions, to be looked at

Nodes == 1 .. N

(* branch[TRUE][c] is the true_branch of c. *)
Graph == [deps : [Nodes -> SUBSET Nodes], conditions : SUBSET Nodes,
          branch : [BOOLEAN -> [Nodes -> SUBSET Nodes]]]

(* DependencyGraph lets no other graph through. *)
Acyclic(g) == \E level \in [Nodes -> 1 .. N] : \A n \in Nodes : \A d \in g.deps[n] : level[d] < level[n]

ASSUME GatingAssumption ==
  N \in Nat \ {0} /\ Graphs \subseteq Graph /\ \A g \in Graphs : Acyclic(g)

VARIABLES
  graph,      \* the workflow's nodes and DependencyGraph
  decisions,  \* _branch_decisions
  memo,       \* _active_cache
  asked       \* the last answer of is_node_active, nobody if it is outdated

gatingVars == <<graph, decisions, memo, asked>>

Answers == {"unknown", "active", "gated"}

GatingTypeOK ==
  /\ graph \in Graph
  /\ decisions \in [Nodes -> {"none", "true", "false"}]
  /\ memo \in [Nodes -> Answers]
  /\ asked \in [node : Nodes \cup {0}, answer : Answers]

GatingInit ==
  /\ graph \in Graphs
  /\ decisions = [n \in Nodes |-> "none"]
  /\ memo = [n \in Nodes |-> "unknown"]
  /\ asked = [node |-> 0, answer |-> "unknown"]

(* Some recorded decision excludes n itself. *)
Gated(n) ==
  \E c \in graph.conditions :
    \/ decisions[c] = "true" /\ n \in graph.branch[FALSE][c]
    \/ decisions[c] = "false" /\ n \in graph.branch[TRUE][c]

(* Mutant: the memo survives a decision. *)
RecordDecisionOnly(c, v) ==
  /\ decisions' = [decisions EXCEPT ![c] = v]
  /\ asked' = [node |-> 0, answer |-> "unknown"]
  /\ UNCHANGED <<graph, memo>>

RecordDecision(c, v) ==
  /\ decisions' = [decisions EXCEPT ![c] = v]
  /\ memo' = [n \in Nodes |-> "unknown"]
  /\ asked' = [node |-> 0, answer |-> "unknown"]
  /\ UNCHANGED graph

(* What is_node_active finds at m and remembers, starting from what is     *)
(* known; above m it goes on as walk does.  The dependencies are visited   *)
(* until one is gated; a node gated by a decision is not remembered.       *)
Found(walk, m, known) ==
  LET visit[d \in 0 .. N] ==
        IF d = 0 THEN [answer |-> "active", known |-> known]
        ELSE LET found == visit[d - 1]
             IN  IF d \in graph.deps[m] /\ found.answer = "active"
                 THEN walk[d][found.known] ELSE found
  IN  IF Gated(m)
      THEN [answer |-> "gated", known |-> known]
      ELSE IF known[m] # "unknown"
      THEN [answer |-> known[m], known |-> known]
      ELSE [visit[N] EXCEPT !.known[m] = visit[N].answer]

Walk == LET walk[m \in Nodes] == [known \in [Nodes -> Answers] |-> Found(walk, m, known)] IN walk

IsNodeActive(n) ==
  LET found == Walk[n][memo]
  IN  /\ memo' = found.known
      /\ asked' = [node |-> n, answer |-> found.answer]
      /\ UNCHANGED <<graph, decisions>>

-----------------------------------------------------------------------------
(* Properties *)

(* What n depends on, directly or not: in every set closed under           *)
(* dependencies that holds its own.                                        *)
Ancestors(n) ==
  {m \in Nodes :
     \A S \in SUBSET Nodes :
       graph.deps[n] \subseteq S /\ (\A s \in S : graph.deps[s] \subseteq S) => m \in S}

(* Neither n nor anything above it is excluded by a decision.              *)
Active(n) == \A m \in Ancestors(n) \cup {n} : ~ Gated(m)

(* is_node_active answers by the decisions as they stand: gating reaches   *)
(* every dependent, and no memo of an earlier walk shows through.  This is *)
(* what Workflow takes the answer to be.                                   *)
AnswerIsRight ==
  asked.node # 0 => (asked.answer = "active" <=> Active(asked.node))
=============================================================================
