------------------------------ MODULE Workflow ------------------------------
(***************************************************************************)
(* One call of Workflow.execute(): level after level, the active nodes of  *)
(* a level are executed concurrently, then their results are looked at one *)
(* by one in the order of the level, which may record a branch decision,   *)
(* collect an error, or cut the level short at a token limit; the failure  *)
(* policy decides whether the next level is run.                           *)
(*                                                                         *)
(* Nodes are numbered in the order DependencyGraph sorted them.  What a    *)
(* node computes is reduced to how its execution ends; NodeExecutor and    *)
(* LevelPermits have the detail of one node and of one level's permits.    *)
(***************************************************************************)
EXTENDS Integers, FiniteSets

CONSTANTS
  N,            \* how many nodes a workflow has
  Workflows,    \* the configurations execute() is called for
  StoreFaults   \* whether the context store may fail

Nodes == 1 .. N

Policies == {"HALT", "CONTINUE_POSSIBLE", "ALWAYS"}

(* What the constructor fixes.  anc is the transitive closure of deps and  *)
(* level respects it (DependencyLevels); a ceiling of 0 is none at all, as *)
(* for `token_ceiling or runtime_config.max_tokens`; branch[b][c] lists    *)
(* the true_branch or false_branch of a condition node c; mapped[n] are    *)
(* the dependencies an input_mapping of n reads.                           *)
Configuration ==
  [deps : [Nodes -> SUBSET Nodes], anc : [Nodes -> SUBSET Nodes],
   level : [Nodes -> Nat], mapped : [Nodes -> SUBSET Nodes],
   conditions : SUBSET Nodes, branch : [BOOLEAN -> [Nodes -> SUBSET Nodes]],
   cost : [Nodes -> Nat], policy : Policies,
   tokenCeiling : Nat, depthCeiling : Nat, guarded : BOOLEAN]

WellFormed(w) ==
  /\ w \in Configuration
  /\ \A n \in Nodes :
       /\ w.mapped[n] \subseteq w.deps[n]
       /\ w.deps[n] \subseteq w.anc[n]
       /\ \A a \in w.anc[n] : w.anc[a] \subseteq w.anc[n] /\ w.level[a] < w.level[n]

ASSUME WorkflowAssumption ==
  /\ N \in Nat \ {0}
  /\ StoreFaults \in BOOLEAN
  /\ \A w \in Workflows : WellFormed(w)

VARIABLES
  wf,         \* the configuration of this workflow
  phase,      \* level, running, collect, returned, crashed
  lvl,        \* the level of the current iteration
  batch,      \* nodes of the level whose result is not looked at yet
  node,       \* idle, running, ok, failed (success=False) or raised
  results,    \* execute()'s results: none, ok or failed
  decisions,  \* BranchGatingResolver._branch_decisions
  errors,     \* the error list: [failed |-> nodes, aborts |-> other entries]
  tokens      \* ChainMetrics.total_tokens

vars == <<wf, phase, lvl, batch, node, results, decisions, errors, tokens>>

TypeOK ==
  /\ wf \in Configuration
  /\ phase \in {"level", "running", "collect", "returned", "crashed"}
  /\ lvl \in Nat
  /\ batch \subseteq Nodes
  /\ node \in [Nodes -> {"idle", "running", "ok", "failed", "raised"}]
  /\ results \in [Nodes -> {"none", "ok", "failed"}]
  /\ decisions \in [Nodes -> {"none", "true", "false"}]
  /\ errors \in [failed : SUBSET Nodes, aborts : SUBSET {"depth", "guard", "tokens"}]
  /\ tokens \in Nat

(* execute() on a freshly constructed Workflow. *)
Init ==
  /\ wf \in Workflows
  /\ phase = "level" /\ lvl = 0 /\ batch = {}
  /\ node = [n \in Nodes |-> "idle"]
  /\ results = [n \in Nodes |-> "none"]
  /\ decisions = [n \in Nodes |-> "none"]
  /\ errors = [failed |-> {}, aborts |-> {}]
  /\ tokens = 0

-----------------------------------------------------------------------------
(* Branch gating: is_node_active(), whose memo BranchGating shows to be    *)
(* transparent.                                                            *)

(* A recorded decision excludes n itself. *)
Gated(n) ==
  \E c \in wf.conditions :
    \/ decisions[c] = "true" /\ n \in wf.branch[FALSE][c]
    \/ decisions[c] = "false" /\ n \in wf.branch[TRUE][c]

(* Mutant: gating is not passed on to dependents. *)
NotItselfGated(n) == ~ Gated(n)

Active(n) == \A m \in wf.anc[n] \cup {n} : ~ Gated(m)

-----------------------------------------------------------------------------
(* The level loop *)

HasErrors == errors.failed # {} \/ errors.aborts # {}

LevelNodes(l) == {n \in Nodes : wf.level[n] = l}

Return(errs) ==
  /\ phase' = "returned"
  /\ errors' = errs
  /\ UNCHANGED <<wf, lvl, batch, node, results, decisions, tokens>>

(* The depth guard may refuse at will; the ceiling counts from 1. *)
StopsAtDepth == wf.guarded \/ (wf.depthCeiling # 0 /\ lvl + 1 > wf.depthCeiling)
MayGoDeeper == wf.depthCeiling = 0 \/ lvl + 1 <= wf.depthCeiling

NoLevelLeft == \A n \in Nodes : wf.level[n] < lvl

BeginLevel ==
  /\ phase = "level"
  /\ ~ NoLevelLeft
  /\ MayGoDeeper
  /\ phase' = "running"
  /\ batch' = {n \in LevelNodes(lvl) : Active(n)}
  /\ UNCHANGED <<wf, lvl, node, results, decisions, errors, tokens>>

RefuseLevel ==
  /\ phase = "level"
  /\ ~ NoLevelLeft
  /\ StopsAtDepth
  /\ Return([errors EXCEPT !.aborts = @ \cup {"depth"}])

Finish ==
  /\ phase = "level"
  /\ NoLevelLeft
  /\ Return(errors)

-----------------------------------------------------------------------------
(* process_node *)

(* _build_node_context raises if a mapped dependency has no successful     *)
(* result, and may raise if a mapped path is not in its output.            *)
ContextFails(n) ==
  /\ phase = "running"
  /\ n \in batch
  /\ node[n] = "idle"
  /\ wf.mapped[n] # {}
  /\ node' = [node EXCEPT ![n] = "raised"]
  /\ UNCHANGED <<wf, phase, lvl, batch, results, decisions, errors, tokens>>

NodeStart(n) ==
  /\ phase = "running"
  /\ n \in batch
  /\ node[n] = "idle"
  /\ \A d \in wf.mapped[n] : results[d] = "ok"
  /\ node' = [node EXCEPT ![n] = "running"]
  /\ UNCHANGED <<wf, phase, lvl, batch, results, decisions, errors, tokens>>

(* execute_node returns a result, or raises: under HALT when the node is   *)
(* invalid or its retries are exhausted, else when the store fails.        *)
MayRaise == wf.policy = "HALT" \/ StoreFaults

NodeEnd(n) ==
  /\ node[n] = "running"
  /\ \E outcome \in {"ok", "failed"} \cup (IF MayRaise THEN {"raised"} ELSE {}) :
       node' = [node EXCEPT ![n] = outcome]
  /\ UNCHANGED <<wf, phase, lvl, batch, results, decisions, errors, tokens>>

Ended(n) == node[n] \in {"ok", "failed", "raised"}

(* Mutant: the level is left with the first result. *)
FirstResult ==
  /\ phase = "running"
  /\ batch = {} \/ \E n \in batch : Ended(n)
  /\ phase' = "collect"
  /\ batch' = {n \in batch : Ended(n)}
  /\ UNCHANGED <<wf, lvl, node, results, decisions, errors, tokens>>

(* gather() hands over the results of the level. *)
Gathered ==
  /\ phase = "running"
  /\ \A n \in batch : Ended(n)
  /\ phase' = "collect"
  /\ UNCHANGED <<wf, lvl, batch, node, results, decisions, errors, tokens>>

-----------------------------------------------------------------------------
(* Looking at the results, in the order of the level *)

NextResult(n) == phase = "collect" /\ n \in batch /\ \A m \in batch : n <= m

(* Condition nodes whose result has an output record it as a decision: a   *)
(* failed evaluation counts as false, other failures carry no output.      *)
RecordDecision(n) ==
  IF n \in wf.conditions
  THEN \E v \in IF node[n] = "ok" THEN {"true", "false"} ELSE {"none", "false"} :
         decisions' = [decisions EXCEPT ![n] = v]
  ELSE UNCHANGED decisions

(* metrics.update, only for a successful result that carries usage. *)
TokensAfter(n) == tokens + wf.cost[n]

OverCeiling(n) == wf.tokenCeiling # 0 /\ TokensAfter(n) > wf.tokenCeiling

CollectOk(n) ==
  /\ NextResult(n)
  /\ node[n] = "ok"
  /\ wf.cost[n] > 0 => ~ OverCeiling(n)
  /\ results' = [results EXCEPT ![n] = "ok"]
  /\ tokens' = TokensAfter(n)
  /\ RecordDecision(n)
  /\ batch' = batch \ {n}
  /\ UNCHANGED <<wf, phase, lvl, node, errors>>

(* Mutant: the limit cuts the level short without an error. *)
CutShortSilently(n, why) ==
  /\ NextResult(n)
  /\ node[n] = "ok"
  /\ wf.cost[n] > 0
  /\ \/ why = "guard" /\ wf.guarded
     \/ why = "tokens" /\ OverCeiling(n)
  /\ results' = [results EXCEPT ![n] = "ok"]
  /\ tokens' = TokensAfter(n)
  /\ batch' = {}
  /\ UNCHANGED <<wf, phase, lvl, node, decisions, errors>>

(* A token limit: the rest of the level is never looked at. *)
CutShort(n, why) ==
  /\ NextResult(n)
  /\ node[n] = "ok"
  /\ wf.cost[n] > 0
  /\ \/ why = "guard" /\ wf.guarded
     \/ why = "tokens" /\ OverCeiling(n)
  /\ results' = [results EXCEPT ![n] = "ok"]
  /\ tokens' = TokensAfter(n)
  /\ errors' = [errors EXCEPT !.aborts = @ \cup {why}]
  /\ batch' = {}
  /\ UNCHANGED <<wf, phase, lvl, node, decisions>>

(* Mutant: the failure is only logged. *)
CollectFailedSilently(n) ==
  /\ NextResult(n)
  /\ node[n] = "failed"
  /\ results' = [results EXCEPT ![n] = "failed"]
  /\ RecordDecision(n)
  /\ batch' = batch \ {n}
  /\ UNCHANGED <<wf, phase, lvl, node, errors, tokens>>

CollectFailed(n) ==
  /\ NextResult(n)
  /\ node[n] = "failed"
  /\ results' = [results EXCEPT ![n] = "failed"]
  /\ RecordDecision(n)
  /\ errors' = [errors EXCEPT !.failed = @ \cup {n}]
  /\ batch' = batch \ {n}
  /\ UNCHANGED <<wf, phase, lvl, node, tokens>>

(* An exception handed over by gather() is filed under its own text, which *)
(* is no node id: self.nodes[node_id] raises KeyError out of execute().    *)
CollectRaised(n) ==
  /\ NextResult(n)
  /\ node[n] = "raised"
  /\ phase' = "crashed"
  /\ UNCHANGED <<wf, lvl, batch, node, results, decisions, errors, tokens>>

(* ChainValidator.should_continue on a non-empty error list: any node of   *)
(* the workflow that neither failed nor directly depends on a failed one.  *)
ShouldContinue ==
  \/ wf.policy = "ALWAYS"
  \/ /\ wf.policy = "CONTINUE_POSSIBLE"
     /\ \E n \in Nodes \ errors.failed : wf.deps[n] \cap errors.failed = {}

(* Mutant: the loop stays at its level. *)
SameLevel ==
  /\ phase = "collect"
  /\ batch = {}
  /\ HasErrors => ShouldContinue
  /\ phase' = "level"
  /\ UNCHANGED <<wf, lvl, batch, node, results, decisions, errors, tokens>>

NextLevel ==
  /\ phase = "collect"
  /\ batch = {}
  /\ HasErrors => ShouldContinue
  /\ phase' = "level"
  /\ lvl' = lvl + 1
  /\ UNCHANGED <<wf, batch, node, results, decisions, errors, tokens>>

StopAfterErrors ==
  /\ phase = "collect"
  /\ batch = {}
  /\ HasErrors /\ ~ ShouldContinue
  /\ Return(errors)

(* execute() is over. *)
Over == phase \in {"returned", "crashed"}
Done == Over /\ UNCHANGED vars

NodeStep(n) ==
  \/ ContextFails(n) \/ NodeStart(n) \/ NodeEnd(n)
  \/ CollectOk(n) \/ CollectFailed(n) \/ CollectRaised(n)
  \/ \E why \in {"guard", "tokens"} : CutShort(n, why)

Next ==
  \/ BeginLevel \/ RefuseLevel \/ Finish
  \/ Gathered \/ NextLevel \/ StopAfterErrors
  \/ \E n \in Nodes : NodeStep(n)
  \/ Done

Spec == Init /\ [][Next]_vars

(* The event loop runs whatever is ready, and node executors return. *)
FairSpec == Spec /\ WF_vars(Next)

-----------------------------------------------------------------------------
(* Properties *)

Begun(n) == node[n] # "idle"
Settled == {n \in Nodes : Ended(n)}
Running == {n \in Nodes : node[n] = "running"}

Dag == INSTANCE DagRun WITH
         deps <- wf.deps, running <- Running, settled <- Settled, over <- Over

(* A node never begins before all it depends on is settled, begins once,   *)
(* and nothing runs on when execute() is over, for any mix of branches     *)
(* skipped, results dropped and failures passed over.                      *)
ImplementsDagRun == Dag!Spec

(* HALT: once the error list is not empty no further node begins. *)
HaltStops ==
  [][wf.policy = "HALT" /\ HasErrors => \A n \in Nodes : Begun(n)' = Begun(n)]_vars

(* success=True: every node has a successful result or lies on a branch    *)
(* not taken.  No failure, refusal or dropped result hides behind it.      *)
SuccessMeansAllDone ==
  phase = "returned" /\ ~ HasErrors =>
    \A n \in Nodes : results[n] = "ok" \/ (~ Active(n) /\ ~ Begun(n))

(* What is reported is what happened: unless a token limit cut a level     *)
(* short, each executed node has its own outcome in the results, and the   *)
(* failed ones are exactly those the errors name.                          *)
ReportIsComplete ==
  phase = "returned" =>
    /\ errors.aborts \cap {"guard", "tokens"} = {} =>
         \A n \in Nodes : results[n] = IF Begun(n) THEN node[n] ELSE "none"
    /\ errors.failed = {n \in Nodes : results[n] = "failed"}

(* The depth ceiling admits that many levels and no more. *)
DepthCeilingRespected ==
  wf.depthCeiling # 0 => \A n \in Nodes : Begun(n) => wf.level[n] < wf.depthCeiling

(* Of two nodes that wait for a condition on opposite branches, or wait    *)
(* for such nodes, at most one is executed once the condition succeeded,   *)
(* provided no token limit dropped its result.                             *)
ExclusiveBranches ==
  errors.aborts \cap {"guard", "tokens"} = {} =>
    \A c \in wf.conditions : node[c] = "ok" =>
      \A t \in wf.branch[TRUE][c], f \in wf.branch[FALSE][c], m, n \in Nodes :
        /\ c \in wf.anc[t] /\ t \in wf.anc[m] \cup {m}
        /\ c \in wf.anc[f] /\ f \in wf.anc[n] \cup {n}
        => ~ (Begun(m) /\ Begun(n))

(* execute() always comes to an end, by returning or by raising. *)
Terminates == <>Over
=============================================================================
