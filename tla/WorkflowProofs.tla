--------------------------- MODULE WorkflowProofs ---------------------------
(***************************************************************************)
(* Proofs about Workflow for any number of nodes and any set of well       *)
(* formed configurations: the order of node executions, HALT, the depth    *)
(* ceiling, and what success=True may be taken to mean.                    *)
(***************************************************************************)
EXTENDS Workflow, TLAPS

(* Lower levels are over, higher ones untouched. *)
LevelInv ==
  /\ \A n \in Nodes : wf.level[n] > lvl => node[n] = "idle"
  /\ phase = "level" => \A n \in Nodes : wf.level[n] = lvl => node[n] = "idle"
  /\ \A n \in Nodes : wf.level[n] < lvl => Ended(n) \/ ~ Active(n)

(* The current level: only its active nodes are executed. *)
BatchInv ==
  /\ \A n \in batch : wf.level[n] = lvl
  /\ phase = "level" => batch = {}
  /\ phase = "running" =>
       \A n \in Nodes : wf.level[n] = lvl =>
         IF n \in batch THEN Active(n) ELSE node[n] = "idle" /\ ~ Active(n)
  /\ phase = "collect" =>
       \A n \in Nodes : wf.level[n] = lvl => Ended(n) \/ ~ Active(n)
  /\ \A n \in Nodes : node[n] = "running" => phase = "running" /\ n \in batch

(* A condition decides once, when its result is looked at. *)
DecisionInv ==
  \A n \in Nodes : decisions[n] # "none" =>
    \/ wf.level[n] < lvl
    \/ wf.level[n] = lvl /\ phase \notin {"level", "running"} /\ n \notin batch

(* As long as there is no error, what lies behind succeeded or was gated. *)
SuccessInv ==
  ~ HasErrors =>
    /\ \A n \in Nodes :
         wf.level[n] < lvl \/ (phase = "collect" /\ wf.level[n] = lvl /\ n \notin batch)
           => results[n] = "ok" \/ (~ Active(n) /\ node[n] = "idle")
    /\ phase = "returned" => NoLevelLeft

HaltInv == wf.policy = "HALT" /\ HasErrors => phase \notin {"level", "running"}

DepthInv ==
  wf.depthCeiling # 0 =>
    /\ \A n \in Nodes : Begun(n) => wf.level[n] < wf.depthCeiling
    /\ phase = "running" => lvl + 1 <= wf.depthCeiling

WorkflowInv ==
  /\ TypeOK /\ wf \in Workflows
  /\ LevelInv /\ BatchInv /\ DecisionInv /\ SuccessInv /\ HaltInv /\ DepthInv

-----------------------------------------------------------------------------
(* Facts about the configuration and the gating of branches *)

LEMMA ConfigurationFacts ==
  ASSUME TypeOK, wf \in Workflows
  PROVE  /\ \A n \in Nodes : wf.level[n] \in Nat /\ wf.cost[n] \in Nat
         /\ \A n \in Nodes : wf.deps[n] \subseteq Nodes /\ wf.anc[n] \subseteq Nodes
         /\ \A n \in Nodes : \A d \in wf.deps[n] :
              d \in wf.anc[n] /\ wf.anc[d] \subseteq wf.anc[n] /\ wf.level[d] < wf.level[n]
         /\ \A n \in Nodes : \A a \in wf.anc[n] :
              wf.anc[a] \subseteq wf.anc[n] /\ wf.level[a] < wf.level[n]
         /\ wf.conditions \subseteq Nodes
         /\ wf.depthCeiling \in Nat /\ lvl \in Nat
<1>1. WellFormed(wf)
  BY WorkflowAssumption
<1> QED BY <1>1 DEF TypeOK, WellFormed, Configuration

(* An active node has only active dependencies. *)
LEMMA ActiveUpwards ==
  ASSUME TypeOK, wf \in Workflows, NEW n \in Nodes, NEW d \in wf.deps[n], Active(n)
  PROVE  Active(d)
BY ConfigurationFacts DEF Active

(* A new decision of a node that had none gates more nodes, never fewer. *)
LEMMA GatingGrows ==
  ASSUME TypeOK, wf' = wf, NEW c \in Nodes, NEW v \in {"none", "true", "false"},
         decisions[c] = "none", decisions' = [decisions EXCEPT ![c] = v],
         NEW n, ~ Active(n)
  PROVE  ~ Active(n)'
<1>1. \A e \in Nodes : decisions[e] # "none" => decisions'[e] = decisions[e]
  BY DEF TypeOK
<1>2. \A m : Gated(m) => Gated(m)'
  BY <1>1 DEF Gated, TypeOK, Configuration
<1> QED BY <1>2 DEF Active

LEMMA GatingSame ==
  ASSUME wf' = wf, decisions' = decisions
  PROVE  \A n : Active(n)' = Active(n)
BY DEF Active, Gated

(* Whatever RecordDecision does, a gated node stays gated. *)
LEMMA DecisionsRecorded ==
  ASSUME TypeOK, wf' = wf, NEW c \in Nodes, decisions[c] = "none", RecordDecision(c)
  PROVE  /\ \A n : ~ Active(n) => ~ Active(n)'
         /\ decisions' \in [Nodes -> {"none", "true", "false"}]
         /\ \A n \in Nodes \ {c} : decisions'[n] = decisions[n]
<1>1. CASE decisions' = decisions
  BY <1>1, GatingSame DEF TypeOK
<1>2. CASE \E v \in {"none", "true", "false"} :
             decisions' = [decisions EXCEPT ![c] = v]
  <2>1. PICK v \in {"none", "true", "false"} :
               decisions' = [decisions EXCEPT ![c] = v]
    BY <1>2
  <2>2. \A n : ~ Active(n) => ~ Active(n)'
    BY <2>1, GatingGrows
  <2> QED BY <2>1, <2>2 DEF TypeOK
<1>3. \/ decisions' = decisions
      \/ \E v \in {"none", "true", "false"} :
           decisions' = [decisions EXCEPT ![c] = v]
  BY DEF RecordDecision
<1> QED BY <1>1, <1>2, <1>3

-----------------------------------------------------------------------------
(* The invariant, action by action *)

LEMMA InvInit == Init => WorkflowInv
<1> SUFFICES ASSUME Init PROVE WorkflowInv
  OBVIOUS
<1>1. wf \in Configuration
  BY WorkflowAssumption DEF Init, WellFormed
<1>2. TypeOK
  BY <1>1 DEF Init, TypeOK
<1>3. ~ HasErrors
  BY DEF Init, HasErrors
<1>4. \A n \in Nodes : wf.level[n] \in Nat
  BY <1>1 DEF Configuration
<1>5. LevelInv /\ BatchInv /\ DecisionInv
  BY <1>4 DEF Init, LevelInv, BatchInv, DecisionInv
<1>6. SuccessInv /\ HaltInv /\ DepthInv
  BY <1>3, <1>4 DEF Init, SuccessInv, HaltInv, DepthInv, Begun
<1> QED BY <1>2, <1>5, <1>6 DEF Init, WorkflowInv

(* An iteration starts: the active nodes of the level become the batch. *)
LEMMA BeginLevelPreserves == ASSUME WorkflowInv, BeginLevel PROVE WorkflowInv'
<1>1. /\ phase = "level" /\ phase' = "running" /\ MayGoDeeper
      /\ batch' = {n \in LevelNodes(lvl) : Active(n)}
      /\ UNCHANGED <<wf, lvl, node, results, decisions, errors, tokens>>
  BY DEF BeginLevel
<1>2. \A n : Active(n)' = Active(n)
  BY <1>1, GatingSame
<1>3. batch' \subseteq Nodes /\ \A n \in batch' : wf.level[n] = lvl /\ Active(n)
  BY <1>1 DEF LevelNodes
<1>4. \A n \in Nodes : wf.level[n] = lvl /\ n \notin batch' => ~ Active(n)
  BY <1>1 DEF LevelNodes
<1>5. TypeOK' /\ wf' \in Workflows
  BY <1>1, <1>3 DEF WorkflowInv, TypeOK
<1>6. LevelInv'
  BY <1>1, <1>2 DEF WorkflowInv, LevelInv, Ended
<1>7. BatchInv'
  BY <1>1, <1>2, <1>3, <1>4 DEF WorkflowInv, BatchInv, LevelInv
<1>8. DecisionInv'
  BY <1>1 DEF WorkflowInv, DecisionInv
<1>9. SuccessInv'
  BY <1>1, <1>2 DEF WorkflowInv, SuccessInv, HasErrors
<1>10. HaltInv'
  BY <1>1 DEF WorkflowInv, HaltInv, HasErrors
<1>11. DepthInv'
  BY <1>1 DEF WorkflowInv, DepthInv, MayGoDeeper, Begun
<1> QED BY <1>5, <1>6, <1>7, <1>8, <1>9, <1>10, <1>11 DEF WorkflowInv

(* execute() returns, between levels or after the last look at a result. *)
LEMMA ReturnPreserves ==
  ASSUME WorkflowInv, NEW errs,
         errs \in [failed : SUBSET Nodes, aborts : SUBSET {"depth", "guard", "tokens"}],
         Return(errs), phase \in {"level", "collect"}, batch = {},
         HasErrors => HasErrors',
         ~ HasErrors' => NoLevelLeft
  PROVE  WorkflowInv'
<1>1. /\ phase' = "returned" /\ errors' = errs
      /\ UNCHANGED <<wf, lvl, batch, node, results, decisions, tokens>>
  BY DEF Return
<1>2. \A n : Active(n)' = Active(n)
  BY <1>1, GatingSame
<1>3. TypeOK' /\ wf' \in Workflows
  BY <1>1 DEF WorkflowInv, TypeOK
<1>4. LevelInv' /\ BatchInv' /\ DecisionInv'
  BY <1>1, <1>2 DEF WorkflowInv, LevelInv, BatchInv, DecisionInv, Ended
<1>5. SuccessInv'
  BY <1>1, <1>2 DEF WorkflowInv, SuccessInv, NoLevelLeft
<1>6. HaltInv' /\ DepthInv'
  BY <1>1 DEF WorkflowInv, HaltInv, DepthInv, Begun
<1> QED BY <1>3, <1>4, <1>5, <1>6 DEF WorkflowInv

LEMMA BatchEmptyBetweenLevels ==
  ASSUME WorkflowInv, phase = "level" PROVE batch = {}
BY DEF WorkflowInv, BatchInv

LEMMA RefuseLevelPreserves == ASSUME WorkflowInv, RefuseLevel PROVE WorkflowInv'
<1> DEFINE errs == [errors EXCEPT !.aborts = @ \cup {"depth"}]
<1>1. phase = "level" /\ Return(errs)
  BY DEF RefuseLevel
<1>2. errs \in [failed : SUBSET Nodes, aborts : SUBSET {"depth", "guard", "tokens"}]
      /\ "depth" \in errs.aborts
  BY DEF WorkflowInv, TypeOK
<1>3. HasErrors'
  BY <1>1, <1>2 DEF Return, HasErrors
<1>4. batch = {}
  BY <1>1, BatchEmptyBetweenLevels
<1> QED BY <1>1, <1>2, <1>3, <1>4, ReturnPreserves

LEMMA FinishPreserves == ASSUME WorkflowInv, Finish PROVE WorkflowInv'
<1>1. phase = "level" /\ NoLevelLeft /\ Return(errors)
  BY DEF Finish
<1>2. HasErrors => HasErrors'
  BY <1>1 DEF Return, HasErrors
<1>3. batch = {} /\ errors \in [failed : SUBSET Nodes, aborts : SUBSET {"depth", "guard", "tokens"}]
  BY <1>1, BatchEmptyBetweenLevels DEF WorkflowInv, TypeOK
<1> QED BY <1>1, <1>2, <1>3, ReturnPreserves

LEMMA StopAfterErrorsPreserves ==
  ASSUME WorkflowInv, StopAfterErrors PROVE WorkflowInv'
<1>1. phase = "collect" /\ batch = {} /\ HasErrors /\ Return(errors)
  BY DEF StopAfterErrors
<1>2. HasErrors'
  BY <1>1 DEF Return, HasErrors
<1>3. errors \in [failed : SUBSET Nodes, aborts : SUBSET {"depth", "guard", "tokens"}]
  BY DEF WorkflowInv, TypeOK
<1> QED BY <1>1, <1>2, <1>3, ReturnPreserves

(* A task of the running level moves on. *)
LEMMA NodeMovePreserves ==
  ASSUME WorkflowInv, NEW n \in batch, phase = "running",
         NEW s \in {"running", "ok", "failed", "raised"},
         node' = [node EXCEPT ![n] = s],
         UNCHANGED <<wf, phase, lvl, batch, results, decisions, errors, tokens>>
  PROVE  WorkflowInv'
<1>1. \A m : Active(m)' = Active(m)
  BY GatingSame
<1>2. n \in Nodes /\ wf.level[n] = lvl /\ lvl \in Nat
      /\ \A m \in Nodes : wf.level[m] \in Nat
  BY ConfigurationFacts DEF WorkflowInv, BatchInv, TypeOK
<1>3. node'[n] = s /\ \A m \in Nodes \ {n} : node'[m] = node[m]
  BY <1>2 DEF WorkflowInv, TypeOK
<1>4. TypeOK' /\ wf' \in Workflows
  BY <1>2 DEF WorkflowInv, TypeOK
<1>5. LevelInv'
  BY <1>1, <1>2, <1>3 DEF WorkflowInv, LevelInv, Ended
<1>6. BatchInv'
  BY <1>1, <1>2, <1>3 DEF WorkflowInv, BatchInv
<1>7. DecisionInv'
  BY DEF WorkflowInv, DecisionInv
<1>8. SuccessInv'
  BY <1>1, <1>2, <1>3 DEF WorkflowInv, SuccessInv, HasErrors
<1>9. HaltInv'
  BY DEF WorkflowInv, HaltInv, HasErrors
<1>10. DepthInv'
  <2>1. wf.depthCeiling # 0 => wf.level[n] < wf.depthCeiling
    BY <1>2, ConfigurationFacts DEF WorkflowInv, DepthInv
  <2> QED BY <1>3, <2>1 DEF WorkflowInv, DepthInv, Begun
<1> QED BY <1>4, <1>5, <1>6, <1>7, <1>8, <1>9, <1>10 DEF WorkflowInv

LEMMA NodeEndInBatch ==
  ASSUME WorkflowInv, NEW n \in Nodes, NodeEnd(n)
  PROVE  n \in batch /\ phase = "running" /\ node[n] = "running"
BY DEF NodeEnd, WorkflowInv, BatchInv

LEMMA TaskPreserves ==
  ASSUME WorkflowInv, NEW n \in Nodes, ContextFails(n) \/ NodeStart(n) \/ NodeEnd(n)
  PROVE  WorkflowInv'
<1>1. CASE ContextFails(n) \/ NodeStart(n)
  BY <1>1, NodeMovePreserves DEF ContextFails, NodeStart
<1>2. CASE NodeEnd(n)
  <2>1. PICK s \in {"ok", "failed", "raised"} : node' = [node EXCEPT ![n] = s]
    BY <1>2 DEF NodeEnd
  <2> QED BY <1>2, <2>1, NodeEndInBatch, NodeMovePreserves DEF NodeEnd
<1> QED BY <1>1, <1>2

LEMMA GatheredPreserves == ASSUME WorkflowInv, Gathered PROVE WorkflowInv'
<1>1. /\ phase = "running" /\ phase' = "collect" /\ \A n \in batch : Ended(n)
      /\ UNCHANGED <<wf, lvl, batch, node, results, decisions, errors, tokens>>
  BY DEF Gathered
<1>2. \A n : Active(n)' = Active(n)
  BY <1>1, GatingSame
<1>3. TypeOK' /\ wf' \in Workflows
  BY <1>1 DEF WorkflowInv, TypeOK
<1>4. LevelInv' /\ DecisionInv'
  BY <1>1, <1>2 DEF WorkflowInv, LevelInv, DecisionInv, Ended
<1>5. BatchInv'
  BY <1>1, <1>2 DEF WorkflowInv, BatchInv, Ended
<1>6. SuccessInv'
  BY <1>1, <1>2 DEF WorkflowInv, SuccessInv, BatchInv, HasErrors
<1>7. HaltInv' /\ DepthInv'
  BY <1>1 DEF WorkflowInv, HaltInv, DepthInv, HasErrors, Begun
<1> QED BY <1>3, <1>4, <1>5, <1>6, <1>7 DEF WorkflowInv

(* A result is looked at without an error: only batch, results, tokens and *)
(* the decision of that node change.                                       *)
LEMMA CollectOkPreserves ==
  ASSUME WorkflowInv, NEW n \in Nodes, CollectOk(n) PROVE WorkflowInv'
<1>1. /\ phase = "collect" /\ n \in batch /\ RecordDecision(n)
      /\ results' = [results EXCEPT ![n] = "ok"]
      /\ tokens' = tokens + wf.cost[n] /\ batch' = batch \ {n}
      /\ UNCHANGED <<wf, phase, lvl, node, errors>>
  BY DEF CollectOk, NextResult, TokensAfter
<1>2. wf.level[n] = lvl /\ decisions[n] = "none" /\ lvl \in Nat
      /\ \A m \in Nodes : wf.level[m] \in Nat
  BY <1>1, ConfigurationFacts DEF WorkflowInv, BatchInv, DecisionInv, TypeOK
<1>3. /\ \A m : ~ Active(m) => ~ Active(m)'
      /\ decisions' \in [Nodes -> {"none", "true", "false"}]
      /\ \A m \in Nodes \ {n} : decisions'[m] = decisions[m]
  BY <1>1, <1>2, DecisionsRecorded DEF WorkflowInv
<1>4. TypeOK' /\ wf' \in Workflows
  <2>1. wf.cost[n] \in Nat
    BY ConfigurationFacts DEF WorkflowInv
  <2>2. tokens' \in Nat
    BY <1>1, <2>1 DEF WorkflowInv, TypeOK
  <2>3. results' \in [Nodes -> {"none", "ok", "failed"}] /\ batch' \subseteq Nodes
    BY <1>1 DEF WorkflowInv, TypeOK
  <2> QED BY <1>1, <1>3, <2>2, <2>3 DEF WorkflowInv, TypeOK
<1>5. LevelInv'
  BY <1>1, <1>3 DEF WorkflowInv, LevelInv, Ended
<1>6. BatchInv'
  BY <1>1, <1>3 DEF WorkflowInv, BatchInv, Ended
<1>7. DecisionInv'
  BY <1>1, <1>2, <1>3 DEF WorkflowInv, DecisionInv
<1>8. SuccessInv'
  <2>1. results'[n] = "ok" /\ \A m \in Nodes \ {n} : results'[m] = results[m]
    BY <1>1 DEF WorkflowInv, TypeOK
  <2> QED BY <1>1, <1>2, <1>3, <2>1 DEF WorkflowInv, SuccessInv, HasErrors
<1>9. HaltInv' /\ DepthInv'
  BY <1>1 DEF WorkflowInv, HaltInv, DepthInv, HasErrors, Begun
<1> QED BY <1>4, <1>5, <1>6, <1>7, <1>8, <1>9 DEF WorkflowInv

(* A result is looked at and leaves an error. *)
LEMMA ErrorPreserves ==
  ASSUME WorkflowInv, NEW n \in batch, phase = "collect",
         NEW r \in {"ok", "failed"}, results' = [results EXCEPT ![n] = r],
         tokens' \in Nat, batch' \subseteq batch \ {n},
         errors' \in [failed : SUBSET Nodes, aborts : SUBSET {"depth", "guard", "tokens"}],
         HasErrors', RecordDecision(n) \/ UNCHANGED decisions,
         UNCHANGED <<wf, phase, lvl, node>>
  PROVE  WorkflowInv'
<1>1. n \in Nodes /\ wf.level[n] = lvl /\ decisions[n] = "none" /\ lvl \in Nat
      /\ \A m \in Nodes : wf.level[m] \in Nat
  BY ConfigurationFacts DEF WorkflowInv, BatchInv, DecisionInv, TypeOK
<1>2. /\ \A m : ~ Active(m) => ~ Active(m)'
      /\ decisions' \in [Nodes -> {"none", "true", "false"}]
      /\ \A m \in Nodes \ {n} : decisions'[m] = decisions[m]
  <2>1. CASE RecordDecision(n)
    BY <1>1, <2>1, DecisionsRecorded DEF WorkflowInv
  <2>2. CASE UNCHANGED decisions
    BY <2>2, GatingSame DEF WorkflowInv, TypeOK
  <2> QED BY <2>1, <2>2
<1>3. TypeOK' /\ wf' \in Workflows
  BY <1>1, <1>2 DEF WorkflowInv, TypeOK
<1>4. LevelInv'
  BY <1>2 DEF WorkflowInv, LevelInv, Ended
<1>5. BatchInv'
  BY <1>2 DEF WorkflowInv, BatchInv, Ended
<1>6. DecisionInv'
  BY <1>1, <1>2 DEF WorkflowInv, DecisionInv
<1>7. SuccessInv' /\ HaltInv' /\ DepthInv'
  BY DEF WorkflowInv, SuccessInv, HaltInv, DepthInv, Begun
<1> QED BY <1>3, <1>4, <1>5, <1>6, <1>7 DEF WorkflowInv

LEMMA CutShortPreserves ==
  ASSUME WorkflowInv, NEW n \in Nodes, NEW why \in {"guard", "tokens"}, CutShort(n, why)
  PROVE  WorkflowInv'
<1>1. /\ phase = "collect" /\ n \in batch
      /\ results' = [results EXCEPT ![n] = "ok"]
      /\ tokens' = tokens + wf.cost[n] /\ batch' = {}
      /\ errors' = [errors EXCEPT !.aborts = @ \cup {why}]
      /\ UNCHANGED <<wf, phase, lvl, node, decisions>>
  BY DEF CutShort, NextResult, TokensAfter
<1>2. tokens' \in Nat
  <2>1. wf.cost[n] \in Nat /\ tokens \in Nat
    BY ConfigurationFacts DEF WorkflowInv, TypeOK
  <2> QED BY <1>1, <2>1
<1>3. errors' \in [failed : SUBSET Nodes, aborts : SUBSET {"depth", "guard", "tokens"}]
      /\ HasErrors'
  BY <1>1 DEF WorkflowInv, TypeOK, HasErrors
<1>4. batch' \subseteq batch \ {n} /\ "ok" \in {"ok", "failed"}
  BY <1>1
<1> QED BY <1>1, <1>2, <1>3, <1>4, ErrorPreserves

LEMMA CollectFailedPreserves ==
  ASSUME WorkflowInv, NEW n \in Nodes, CollectFailed(n) PROVE WorkflowInv'
<1>1. /\ phase = "collect" /\ n \in batch /\ RecordDecision(n)
      /\ results' = [results EXCEPT ![n] = "failed"]
      /\ errors' = [errors EXCEPT !.failed = @ \cup {n}]
      /\ batch' = batch \ {n}
      /\ UNCHANGED <<wf, phase, lvl, node, tokens>>
  BY DEF CollectFailed, NextResult
<1>2. errors' \in [failed : SUBSET Nodes, aborts : SUBSET {"depth", "guard", "tokens"}]
      /\ HasErrors' /\ tokens' \in Nat
  BY <1>1 DEF WorkflowInv, TypeOK, HasErrors
<1>3. "failed" \in {"ok", "failed"}
  OBVIOUS
<1> QED BY <1>1, <1>2, <1>3, ErrorPreserves

LEMMA CollectRaisedPreserves ==
  ASSUME WorkflowInv, NEW n \in Nodes, CollectRaised(n) PROVE WorkflowInv'
<1>1. /\ phase = "collect" /\ phase' = "crashed"
      /\ UNCHANGED <<wf, lvl, batch, node, results, decisions, errors, tokens>>
  BY DEF CollectRaised, NextResult
<1>2. \A m : Active(m)' = Active(m)
  BY <1>1, GatingSame
<1>3. TypeOK' /\ wf' \in Workflows
  BY <1>1 DEF WorkflowInv, TypeOK
<1>4. LevelInv' /\ BatchInv' /\ DecisionInv'
  BY <1>1, <1>2 DEF WorkflowInv, LevelInv, BatchInv, DecisionInv, Ended
<1>5. SuccessInv' /\ HaltInv' /\ DepthInv'
  BY <1>1, <1>2 DEF WorkflowInv, SuccessInv, HaltInv, DepthInv, HasErrors, Begun
<1> QED BY <1>3, <1>4, <1>5 DEF WorkflowInv

(* The next iteration: what lies behind includes the level just left. *)
LEMMA NextLevelPreserves == ASSUME WorkflowInv, NextLevel PROVE WorkflowInv'
<1>1. /\ phase = "collect" /\ phase' = "level" /\ batch = {} /\ lvl' = lvl + 1
      /\ HasErrors => ShouldContinue
      /\ UNCHANGED <<wf, batch, node, results, decisions, errors, tokens>>
  BY DEF NextLevel
<1>2. \A n : Active(n)' = Active(n)
  BY <1>1, GatingSame
<1>3. lvl \in Nat /\ \A n \in Nodes : wf.level[n] \in Nat
  BY ConfigurationFacts DEF WorkflowInv, TypeOK
<1>4. \A n \in Nodes : wf.level[n] < lvl' <=> wf.level[n] < lvl \/ wf.level[n] = lvl
  BY <1>1, <1>3
<1>5. TypeOK' /\ wf' \in Workflows
  BY <1>1, <1>3 DEF WorkflowInv, TypeOK
<1>6. LevelInv'
  BY <1>1, <1>2, <1>3, <1>4 DEF WorkflowInv, LevelInv, BatchInv, Ended
<1>7. BatchInv'
  BY <1>1 DEF WorkflowInv, BatchInv
<1>8. DecisionInv'
  BY <1>1, <1>4 DEF WorkflowInv, DecisionInv
<1>9. SuccessInv'
  BY <1>1, <1>2, <1>4 DEF WorkflowInv, SuccessInv, HasErrors
<1>10. HaltInv'
  BY <1>1 DEF HaltInv, HasErrors, ShouldContinue
<1>11. DepthInv'
  BY <1>1 DEF WorkflowInv, DepthInv, Begun
<1> QED BY <1>5, <1>6, <1>7, <1>8, <1>9, <1>10, <1>11 DEF WorkflowInv

LEMMA InvStep == WorkflowInv /\ [Next]_vars => WorkflowInv'
<1> SUFFICES ASSUME WorkflowInv, [Next]_vars PROVE WorkflowInv'
  OBVIOUS
<1>1. CASE UNCHANGED vars
  <2> USE <1>1 DEF vars
  <2>1. TypeOK' /\ wf' \in Workflows
    BY DEF WorkflowInv, TypeOK
  <2>2. LevelInv' /\ BatchInv'
    BY DEF WorkflowInv, LevelInv, BatchInv, Active, Gated, Ended, Begun
  <2>3. DecisionInv' /\ HaltInv' /\ DepthInv'
    BY DEF WorkflowInv, DecisionInv, HaltInv, DepthInv, Active, Gated, Ended, Begun,
           HasErrors, NoLevelLeft
  <2>4. SuccessInv'
    BY DEF WorkflowInv, SuccessInv, Active, Gated, Ended, Begun, HasErrors, NoLevelLeft
  <2> QED BY <2>1, <2>2, <2>3, <2>4 DEF WorkflowInv
<1>2. CASE BeginLevel \/ RefuseLevel \/ Finish
  BY <1>2, BeginLevelPreserves, RefuseLevelPreserves, FinishPreserves
<1>3. CASE Gathered \/ NextLevel \/ StopAfterErrors
  BY <1>3, GatheredPreserves, NextLevelPreserves, StopAfterErrorsPreserves
<1>4. ASSUME NEW n \in Nodes, NodeStep(n) PROVE WorkflowInv'
  BY <1>4, TaskPreserves, CollectOkPreserves, CollectFailedPreserves,
     CollectRaisedPreserves, CutShortPreserves DEF NodeStep
<1>5. CASE Done
  BY <1>1, <1>5 DEF Done
<1> QED BY <1>1, <1>2, <1>3, <1>4, <1>5 DEF Next

THEOREM WorkflowSafe == Spec => []WorkflowInv
BY InvInit, InvStep, PTL DEF Spec

-----------------------------------------------------------------------------
(* What the invariant gives *)

(* success=True: nothing that should have run is missing or failed. *)
THEOREM SuccessIsMeant == Spec => []SuccessMeansAllDone
<1>1. WorkflowInv => SuccessMeansAllDone
  <2> SUFFICES ASSUME WorkflowInv, phase = "returned", ~ HasErrors, NEW n \in Nodes
               PROVE  results[n] = "ok" \/ (~ Active(n) /\ ~ Begun(n))
    BY DEF SuccessMeansAllDone
  <2>1. wf.level[n] < lvl
    BY DEF WorkflowInv, SuccessInv, NoLevelLeft
  <2> QED BY <2>1 DEF WorkflowInv, SuccessInv, Begun
<1> QED BY <1>1, WorkflowSafe, PTL

THEOREM DepthIsBounded == Spec => []DepthCeilingRespected
<1>1. WorkflowInv => DepthCeilingRespected
  BY DEF WorkflowInv, DepthInv, DepthCeilingRespected
<1> QED BY <1>1, WorkflowSafe, PTL

LEMMA OnlyRunningLevelBegins ==
  ASSUME WorkflowInv, [Next]_vars, NEW n \in Nodes, Begun(n)' # Begun(n)
  PROVE  phase = "running"
<1>1. CASE UNCHANGED node
  BY <1>1 DEF Begun
<1>2. ASSUME NEW m \in Nodes, ContextFails(m) \/ NodeStart(m) PROVE phase = "running"
  BY <1>2 DEF ContextFails, NodeStart
<1>3. ASSUME NEW m \in Nodes, NodeEnd(m) PROVE phase = "running"
  BY <1>3, NodeEndInBatch
<1>4. ASSUME NEW m \in Nodes, CollectOk(m) \/ CollectFailed(m) \/ CollectRaised(m)
                                \/ \E why \in {"guard", "tokens"} : CutShort(m, why)
      PROVE  UNCHANGED node
  BY <1>4 DEF CollectOk, CollectFailed, CollectRaised, CutShort
<1>5. ASSUME BeginLevel \/ RefuseLevel \/ Finish \/ Gathered \/ NextLevel
               \/ StopAfterErrors \/ Done \/ UNCHANGED vars
      PROVE  UNCHANGED node
  BY <1>5 DEF BeginLevel, RefuseLevel, Finish, Gathered, NextLevel, StopAfterErrors,
              Done, Return, vars
<1> QED BY <1>1, <1>2, <1>3, <1>4, <1>5 DEF Next, NodeStep

(* Under HALT the first error is the last thing that happens to a node. *)
THEOREM HaltIsFinal == Spec => HaltStops
<1>1. WorkflowInv /\ [Next]_vars =>
        [wf.policy = "HALT" /\ HasErrors => \A n \in Nodes : Begun(n)' = Begun(n)]_vars
  BY OnlyRunningLevelBegins DEF WorkflowInv, HaltInv
<1> QED BY <1>1, WorkflowSafe, PTL DEF Spec, HaltStops

-----------------------------------------------------------------------------
(* The report *)

(* A token limit has cut a level short. *)
Cut == errors.aborts \cap {"guard", "tokens"} # {}

(* A result in the report is the node's own, and only results that wait to *)
(* be looked at are missing.                                               *)
ReportInv ==
  /\ \A n \in Nodes : results[n] # "none" => results[n] = node[n]
  /\ errors.failed = {n \in Nodes : results[n] = "failed"}
  /\ ~ Cut => \A n \in Nodes : Ended(n) => results[n] = node[n] \/ n \in batch
  /\ phase = "returned" => batch = {}

LEMMA ReportInit == Init => ReportInv
BY DEF Init, ReportInv, Ended

(* A node that has no result yet moves on. *)
LEMMA ReportTask ==
  ASSUME WorkflowInv, ReportInv, NEW n \in Nodes, ContextFails(n) \/ NodeStart(n) \/ NodeEnd(n)
  PROVE  ReportInv'
<1>1. /\ phase = "running" /\ n \in batch /\ node[n] \in {"idle", "running"}
      /\ UNCHANGED <<phase, batch, results, errors>>
  BY NodeEndInBatch DEF ContextFails, NodeStart, NodeEnd
<1>2. PICK s \in {"running", "ok", "failed", "raised"} : node' = [node EXCEPT ![n] = s]
  BY DEF ContextFails, NodeStart, NodeEnd
<1>3. results[n] = "none"
  BY <1>1 DEF WorkflowInv, TypeOK, ReportInv
<1>4. \A m \in Nodes \ {n} : node'[m] = node[m]
  BY <1>2 DEF WorkflowInv, TypeOK
<1> QED BY <1>1, <1>3, <1>4 DEF ReportInv, Ended, Cut

(* A result is looked at. *)
LEMMA ReportCollect ==
  ASSUME WorkflowInv, ReportInv, NEW n \in Nodes,
         CollectOk(n) \/ CollectFailed(n) \/ \E why \in {"guard", "tokens"} : CutShort(n, why)
  PROVE  ReportInv'
<1>1. phase = "collect" /\ phase' = "collect" /\ node' = node
  BY DEF CollectOk, CollectFailed, CutShort, NextResult
<1>2. errors.failed \subseteq Nodes
      /\ errors \in [failed : SUBSET Nodes, aborts : SUBSET {"depth", "guard", "tokens"}]
      /\ results \in [Nodes -> {"none", "ok", "failed"}]
  BY DEF WorkflowInv, TypeOK
<1>3. CASE CollectOk(n)
  <2>1. /\ node[n] = "ok" /\ results' = [results EXCEPT ![n] = "ok"]
        /\ errors' = errors /\ batch' = batch \ {n}
    BY <1>3 DEF CollectOk
  <2> QED BY <1>1, <1>2, <2>1 DEF ReportInv, Ended, Cut
<1>4. CASE CollectFailed(n)
  <2>1. /\ node[n] = "failed" /\ results' = [results EXCEPT ![n] = "failed"]
        /\ errors' = [errors EXCEPT !.failed = @ \cup {n}] /\ batch' = batch \ {n}
    BY <1>4 DEF CollectFailed
  <2> QED BY <1>1, <1>2, <2>1 DEF ReportInv, Ended, Cut
<1>5. ASSUME NEW why \in {"guard", "tokens"}, CutShort(n, why) PROVE ReportInv'
  <2>1. /\ node[n] = "ok" /\ results' = [results EXCEPT ![n] = "ok"]
        /\ errors' = [errors EXCEPT !.aborts = @ \cup {why}]
    BY <1>5 DEF CutShort
  <2>2. Cut' /\ errors'.failed = errors.failed
    BY <1>2, <2>1 DEF Cut
  <2> QED BY <1>1, <1>2, <2>1, <2>2 DEF ReportInv
<1> QED BY <1>3, <1>4, <1>5

(* Between the looks at results nothing is reported. *)
LEMMA ReportElse ==
  ASSUME WorkflowInv, ReportInv, UNCHANGED <<node, results>>,
         errors'.failed = errors.failed, errors.aborts \subseteq errors'.aborts,
         batch = {} \/ batch' = batch, phase' = "returned" => batch = {} /\ batch' = {}
  PROVE  ReportInv'
BY DEF ReportInv, Ended, Cut

LEMMA ReportStep == WorkflowInv /\ ReportInv /\ [Next]_vars => ReportInv'
<1> SUFFICES ASSUME WorkflowInv, ReportInv, [Next]_vars PROVE ReportInv'
  OBVIOUS
<1>1. CASE UNCHANGED vars \/ Done
  BY <1>1, ReportElse DEF vars, Done, ReportInv
<1>2. CASE BeginLevel \/ Finish \/ StopAfterErrors
  <2>1. phase = "level" => batch = {}
    BY BatchEmptyBetweenLevels
  <2> QED BY <1>2, <2>1, ReportElse DEF BeginLevel, Finish, StopAfterErrors, Return
<1>3. CASE RefuseLevel
  <2>1. batch = {} /\ errors' = [errors EXCEPT !.aborts = @ \cup {"depth"}]
        /\ UNCHANGED <<node, results, batch>>
    BY <1>3, BatchEmptyBetweenLevels DEF RefuseLevel, Return
  <2>2. errors'.failed = errors.failed /\ errors.aborts \subseteq errors'.aborts
    BY <2>1 DEF WorkflowInv, TypeOK
  <2> QED BY <2>1, <2>2, ReportElse
<1>4. CASE Gathered \/ NextLevel \/ \E n \in Nodes : CollectRaised(n)
  BY <1>4, ReportElse DEF Gathered, NextLevel, CollectRaised
<1>5. ASSUME NEW n \in Nodes, NodeStep(n) PROVE ReportInv'
  BY <1>4, <1>5, ReportTask, ReportCollect DEF NodeStep
<1> QED BY <1>1, <1>2, <1>3, <1>4, <1>5 DEF Next

(* What execute() reports is what happened, unless a token limit cut a     *)
(* level short: to each node its own outcome, to the failed ones an error. *)
THEOREM ReportsAreComplete == Spec => []ReportIsComplete
<1>1. WorkflowInv /\ ReportInv => ReportIsComplete
  <2> SUFFICES ASSUME WorkflowInv, ReportInv, phase = "returned"
               PROVE  ~ Cut => \A n \in Nodes : results[n] = IF Begun(n) THEN node[n] ELSE "none"
    BY DEF ReportIsComplete, ReportInv, Cut
  <2> SUFFICES ASSUME ~ Cut, NEW n \in Nodes
               PROVE  results[n] = IF Begun(n) THEN node[n] ELSE "none"
    OBVIOUS
  <2>1. CASE Begun(n)
    <3>1. Ended(n)
      BY <2>1 DEF WorkflowInv, TypeOK, BatchInv, Begun, Ended
    <3> QED BY <2>1, <3>1 DEF ReportInv
  <2>2. CASE ~ Begun(n)
    BY <2>2 DEF ReportInv, Begun, WorkflowInv, TypeOK
  <2> QED BY <2>1, <2>2
<1> QED BY <1>1, ReportInit, ReportStep, WorkflowSafe, PTL DEF Spec

-----------------------------------------------------------------------------
(* Branches *)

(* The decision of c excludes m itself. *)
ExcludedBy(c, m) ==
  \/ decisions[c] = "true" /\ m \in wf.branch[FALSE][c]
  \/ decisions[c] = "false" /\ m \in wf.branch[TRUE][c]

(* A condition that succeeded has decided once it is looked at; and no     *)
(* node has begun below one that its condition, come first, excludes.      *)
BranchInv ==
  /\ ~ Cut => \A c \in wf.conditions : node[c] = "ok" => c \in batch \/ decisions[c] # "none"
  /\ \A n \in Nodes : Begun(n) =>
       \A m \in wf.anc[n] \cup {n} : \A c \in wf.conditions \cap wf.anc[m] : ~ ExcludedBy(c, m)

LEMMA BranchInit == Init => BranchInv
<1> SUFFICES ASSUME Init PROVE BranchInv
  OBVIOUS
<1>1. wf.conditions \subseteq Nodes
  BY WorkflowAssumption DEF Init, WellFormed, Configuration
<1> QED BY <1>1 DEF Init, BranchInv, Begun

(* A node that begins is active, hence excluded by no condition.           *)
LEMMA BranchTask ==
  ASSUME WorkflowInv, BranchInv, NEW n \in Nodes, ContextFails(n) \/ NodeStart(n) \/ NodeEnd(n)
  PROVE  BranchInv'
<1>1. /\ phase = "running" /\ n \in batch
      /\ UNCHANGED <<wf, batch, decisions, errors>>
  BY NodeEndInBatch DEF ContextFails, NodeStart, NodeEnd
<1>2. PICK s \in {"running", "ok", "failed", "raised"} : node' = [node EXCEPT ![n] = s]
  BY DEF ContextFails, NodeStart, NodeEnd
<1>3. \A m \in Nodes \ {n} : node'[m] = node[m]
  BY <1>2 DEF WorkflowInv, TypeOK
<1>4. wf.conditions \subseteq Nodes
  BY ConfigurationFacts DEF WorkflowInv
<1>5. ~ Cut' => \A c \in wf'.conditions : node'[c] = "ok" => c \in batch' \/ decisions'[c] # "none"
  BY <1>1, <1>3, <1>4 DEF BranchInv, Cut
<1>6. Active(n)
  BY <1>1 DEF WorkflowInv, BatchInv
<1>7. \A m \in wf.anc[n] \cup {n} : \A c \in wf.conditions : ~ ExcludedBy(c, m)
  BY <1>6 DEF Active, Gated, ExcludedBy
<1>8. \A m \in Nodes : Begun(m)' => Begun(m) \/ m = n
  BY <1>3 DEF Begun
<1>9. \A c, m : ExcludedBy(c, m)' = ExcludedBy(c, m)
  BY <1>1 DEF ExcludedBy
<1> QED BY <1>1, <1>5, <1>7, <1>8, <1>9 DEF BranchInv

(* The level of a condition that decides has run; what it stands above     *)
(* lies higher and has not begun.                                          *)
LEMMA BranchCollect ==
  ASSUME WorkflowInv, BranchInv, NEW n \in Nodes, CollectOk(n) \/ CollectFailed(n)
  PROVE  BranchInv'
<1>1. /\ phase = "collect" /\ n \in batch /\ batch' = batch \ {n} /\ RecordDecision(n)
      /\ UNCHANGED <<wf, node>> /\ errors'.aborts = errors.aborts
  BY DEF CollectOk, CollectFailed, NextResult, WorkflowInv, TypeOK
<1>2. decisions[n] = "none" /\ wf.level[n] = lvl /\ lvl \in Nat
      /\ \A m \in Nodes : wf.level[m] \in Nat
  BY <1>1, ConfigurationFacts DEF WorkflowInv, DecisionInv, BatchInv
<1>3. \A m \in Nodes \ {n} : decisions'[m] = decisions[m]
  BY <1>1, <1>2, DecisionsRecorded DEF WorkflowInv
<1>4. wf.conditions \subseteq Nodes /\ \A m \in Nodes : wf.anc[m] \subseteq Nodes
  BY ConfigurationFacts DEF WorkflowInv
<1>5. n \in wf.conditions /\ node[n] = "ok" => decisions'[n] # "none"
  BY <1>1 DEF RecordDecision, WorkflowInv, TypeOK
<1>6. ~ Cut' => \A c \in wf'.conditions : node'[c] = "ok" => c \in batch' \/ decisions'[c] # "none"
  BY <1>1, <1>3, <1>4, <1>5 DEF BranchInv, Cut
<1>7. ASSUME NEW m \in Nodes, Begun(m)', NEW a \in wf.anc[m] \cup {m},
             NEW c \in wf.conditions \cap wf.anc[a]
      PROVE  ~ ExcludedBy(c, a)'
  <2>1. Begun(m) /\ ~ wf.level[m] > lvl
    BY <1>1, <1>7 DEF Begun, WorkflowInv, LevelInv
  <2>2. c \in Nodes /\ c \in wf.anc[m]
    BY <1>4, ConfigurationFacts DEF WorkflowInv
  <2>3. wf.level[c] < wf.level[m]
    BY <2>2, ConfigurationFacts DEF WorkflowInv
  <2>4. c # n
    BY <1>2, <2>1, <2>2, <2>3
  <2>5. ~ ExcludedBy(c, a)
    BY <2>1 DEF BranchInv
  <2> QED BY <1>1, <1>3, <2>2, <2>4, <2>5 DEF ExcludedBy
<1> QED BY <1>1, <1>6, <1>7 DEF BranchInv

(* Nothing begins and nothing is decided. *)
LEMMA BranchElse ==
  ASSUME BranchInv, UNCHANGED <<wf, node, decisions>>, errors.aborts \subseteq errors'.aborts,
         Cut' \/ batch \subseteq batch'
  PROVE  BranchInv'
BY DEF BranchInv, Begun, ExcludedBy, Cut

LEMMA BranchStep == WorkflowInv /\ BranchInv /\ [Next]_vars => BranchInv'
<1> SUFFICES ASSUME WorkflowInv, BranchInv, [Next]_vars PROVE BranchInv'
  OBVIOUS
<1>1. CASE UNCHANGED vars \/ Done
  BY <1>1, BranchElse DEF vars, Done
<1>2. CASE BeginLevel \/ Finish \/ StopAfterErrors
  <2>1. phase = "level" => batch = {}
    BY BatchEmptyBetweenLevels
  <2> QED BY <1>2, <2>1, BranchElse DEF BeginLevel, Finish, StopAfterErrors, Return
<1>3. CASE RefuseLevel
  <2>1. errors' = [errors EXCEPT !.aborts = @ \cup {"depth"}]
        /\ UNCHANGED <<wf, node, decisions, batch>>
    BY <1>3 DEF RefuseLevel, Return
  <2>2. errors.aborts \subseteq errors'.aborts
    BY <2>1 DEF WorkflowInv, TypeOK
  <2> QED BY <2>1, <2>2, BranchElse
<1>4. CASE Gathered \/ NextLevel \/ \E n \in Nodes : CollectRaised(n)
  BY <1>4, BranchElse DEF Gathered, NextLevel, CollectRaised
<1>5. ASSUME NEW n \in Nodes, NEW why \in {"guard", "tokens"}, CutShort(n, why) PROVE BranchInv'
  <2>1. errors' = [errors EXCEPT !.aborts = @ \cup {why}] /\ UNCHANGED <<wf, node, decisions>>
    BY <1>5 DEF CutShort
  <2>2. Cut' /\ errors.aborts \subseteq errors'.aborts
    BY <2>1 DEF Cut, WorkflowInv, TypeOK
  <2> QED BY <2>1, <2>2, BranchElse
<1>6. ASSUME NEW n \in Nodes, NodeStep(n) PROVE BranchInv'
  BY <1>4, <1>5, <1>6, BranchTask, BranchCollect DEF NodeStep
<1> QED BY <1>1, <1>2, <1>3, <1>4, <1>6 DEF Next

(* Whatever runs concurrently, is skipped or fails, the two branches of a  *)
(* condition are never both entered.                                       *)
THEOREM BranchesExclude == Spec => []ExclusiveBranches
<1>1. WorkflowInv /\ BranchInv => ExclusiveBranches
  <2> SUFFICES ASSUME WorkflowInv, BranchInv, ~ Cut, NEW c \in wf.conditions, node[c] = "ok",
                      NEW t \in wf.branch[TRUE][c], NEW f \in wf.branch[FALSE][c],
                      NEW m \in Nodes, NEW n \in Nodes,
                      c \in wf.anc[t], t \in wf.anc[m] \cup {m},
                      c \in wf.anc[f], f \in wf.anc[n] \cup {n}, Begun(m), Begun(n)
               PROVE  FALSE
    BY DEF ExclusiveBranches, Cut
  <2>1. c \in wf.anc[m] /\ c \in Nodes
    BY ConfigurationFacts DEF WorkflowInv
  <2>2. wf.level[c] < wf.level[m] /\ wf.level[c] \in Nat /\ wf.level[m] \in Nat /\ lvl \in Nat
    BY <2>1, ConfigurationFacts DEF WorkflowInv
  <2>3. c \notin batch
    BY <2>2 DEF WorkflowInv, BatchInv, LevelInv, Begun
  <2>4. decisions[c] \in {"true", "false"}
    BY <2>1, <2>3 DEF BranchInv, WorkflowInv, TypeOK
  <2>5. ~ ExcludedBy(c, t) /\ ~ ExcludedBy(c, f)
    BY DEF BranchInv
  <2> QED BY <2>4, <2>5 DEF ExcludedBy
<1> QED BY <1>1, BranchInit, BranchStep, WorkflowSafe, PTL DEF Spec

-----------------------------------------------------------------------------
(* Workflow implements DagRun *)

(* A task of the current level may begin: its dependencies are settled. *)
LEMMA ReadyWhenActive ==
  ASSUME WorkflowInv, NEW n \in batch, phase = "running", node[n] = "idle"
  PROVE  Dag!Ready(n)
<1>1. n \in Nodes /\ Active(n) /\ wf.level[n] = lvl
  BY DEF WorkflowInv, BatchInv, TypeOK
<1>2. wf.deps[n] \subseteq Settled
  <2>1. ASSUME NEW d \in wf.deps[n] PROVE d \in Settled
    <3>1. d \in Nodes /\ wf.level[d] < lvl
      BY <1>1, ConfigurationFacts DEF WorkflowInv
    <3>2. Active(d)
      BY <1>1, ActiveUpwards DEF WorkflowInv
    <3> QED BY <3>1, <3>2 DEF WorkflowInv, LevelInv, Settled
  <2> QED BY <2>1
<1>3. n \notin Running \cup Settled /\ ~ Over
  BY DEF Running, Settled, Ended, Over
<1> QED BY <1>2, <1>3 DEF Dag!Ready

LEMMA NoneRunningOutside ==
  ASSUME WorkflowInv, phase # "running" PROVE Running = {}
BY DEF WorkflowInv, BatchInv, Running

LEMMA DagInit == Init => Dag!Init
<1> SUFFICES ASSUME Init PROVE Dag!Init
  OBVIOUS
<1>1. wf.deps \in [Nodes -> SUBSET Nodes]
  BY WorkflowAssumption DEF Init, WellFormed, Configuration
<1>2. Running = {} /\ Settled = {} /\ Over = FALSE
  BY DEF Init, Running, Settled, Ended, Over
<1> QED BY <1>1, <1>2 DEF Dag!Init

LEMMA DagStep == WorkflowInv /\ [Next]_vars => [Dag!Next]_(Dag!vars)
<1> SUFFICES ASSUME WorkflowInv, [Next]_vars
             PROVE  Dag!Next \/ UNCHANGED <<wf.deps, Running, Settled, Over>>
  BY DEF Dag!vars
<1>1. node \in [Nodes -> {"idle", "running", "ok", "failed", "raised"}]
      /\ batch \subseteq Nodes
  BY DEF WorkflowInv, TypeOK
<1>2. ASSUME UNCHANGED <<wf, node>>, Over' = Over
      PROVE  UNCHANGED <<wf.deps, Running, Settled, Over>>
  BY <1>2 DEF Running, Settled, Ended
<1>3. ASSUME UNCHANGED <<wf, node>>, ~ Over, Over', phase # "running"
      PROVE  Dag!End
  <2>1. Running = {} /\ Running' = Running /\ Settled' = Settled
    BY <1>3, NoneRunningOutside DEF Running, Settled, Ended
  <2>2. Over = FALSE /\ Over' = TRUE
    BY <1>3 DEF Over
  <2> QED BY <1>3, <2>1, <2>2 DEF Dag!End
<1>4. ASSUME NEW n \in Nodes, ContextFails(n) PROVE Dag!Refuse(n)
  <2>1. /\ n \in batch /\ phase = "running" /\ node[n] = "idle"
        /\ node' = [node EXCEPT ![n] = "raised"] /\ UNCHANGED <<wf, phase>>
    BY <1>4 DEF ContextFails
  <2>2. Settled' = Settled \cup {n} /\ Running' = Running /\ Over' = Over
    BY <1>1, <2>1 DEF Settled, Running, Ended, Over
  <2> QED BY <2>1, <2>2, ReadyWhenActive DEF Dag!Refuse
<1>5. ASSUME NEW n \in Nodes, NodeStart(n) PROVE Dag!Begin(n)
  <2>1. /\ n \in batch /\ phase = "running" /\ node[n] = "idle"
        /\ node' = [node EXCEPT ![n] = "running"] /\ UNCHANGED <<wf, phase>>
    BY <1>5 DEF NodeStart
  <2>2. Settled' = Settled /\ Running' = Running \cup {n} /\ Over' = Over
    BY <1>1, <2>1 DEF Settled, Running, Ended, Over
  <2> QED BY <2>1, <2>2, ReadyWhenActive DEF Dag!Begin
<1>6. ASSUME NEW n \in Nodes, NodeEnd(n) PROVE Dag!Settle(n)
  <2>1. PICK s \in {"ok", "failed", "raised"} : node' = [node EXCEPT ![n] = s]
    BY <1>6 DEF NodeEnd
  <2>2. node[n] = "running" /\ UNCHANGED <<wf, phase>>
    BY <1>6 DEF NodeEnd
  <2>3. /\ n \in Running /\ Running' = Running \ {n}
        /\ Settled' = Settled \cup {n} /\ Over' = Over
    BY <1>1, <2>1, <2>2 DEF Settled, Running, Ended, Over
  <2> QED BY <2>2, <2>3 DEF Dag!Settle
<1>7. ASSUME NEW n \in Nodes,
             CollectOk(n) \/ CollectFailed(n) \/ \E why \in {"guard", "tokens"} : CutShort(n, why)
      PROVE  UNCHANGED <<wf.deps, Running, Settled, Over>>
  BY <1>2, <1>7 DEF CollectOk, CollectFailed, CutShort, Over
<1>8. ASSUME NEW n \in Nodes, CollectRaised(n) PROVE Dag!End
  BY <1>3, <1>8 DEF CollectRaised, NextResult, Over
<1>9. ASSUME RefuseLevel \/ Finish \/ StopAfterErrors PROVE Dag!End
  BY <1>3, <1>9 DEF RefuseLevel, Finish, StopAfterErrors, Return, Over
<1>10. ASSUME BeginLevel \/ Gathered \/ NextLevel \/ Done \/ UNCHANGED vars
       PROVE  UNCHANGED <<wf.deps, Running, Settled, Over>>
  BY <1>2, <1>10 DEF BeginLevel, Gathered, NextLevel, Done, vars, Over
<1> QED BY <1>4, <1>5, <1>6, <1>7, <1>8, <1>9, <1>10 DEF Next, NodeStep, Dag!Next

(* execute() runs the graph in dependency order, each node once, and stops *)
(* cleanly, for every graph, branching, ceiling and failure policy.        *)
THEOREM WorkflowImplementsDagRun == Spec => ImplementsDagRun
BY DagInit, DagStep, WorkflowSafe, PTL DEF Spec, ImplementsDagRun, Dag!Spec
=============================================================================
