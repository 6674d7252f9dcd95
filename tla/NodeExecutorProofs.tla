------------------------- MODULE NodeExecutorProofs -------------------------
(***************************************************************************)
(* Theorems about NodeExecutor, for any number of nodes and any setup.     *)
(*                                                                         *)
(* The limits hold because a success is charged in the step that makes it  *)
(* one: the counter of its kind grows by one and is compared with the      *)
(* limit at once, so the successes never outnumber the counter, and at the *)
(* moment of a success the counter is within the limit.                    *)
(***************************************************************************)
EXTENDS NodeExecutor, FiniteSetTheorems, TLAPS

(* A node that changes its pc makes at most one success more, and none     *)
(* unless it becomes ok itself and is of the kind looked at.               *)
LEMMA SuccessesGrowByOne ==
  ASSUME TypeOK, NEW n \in Nodes, NEW v, NEW S \in SUBSET Nodes,
         pc' = [pc EXCEPT ![n] = v]
  PROVE  LET before == {m \in S : pc[m] = "ok"}
             after == {m \in S : pc'[m] = "ok"}
         IN  /\ Cardinality(before) \in Nat
             /\ Cardinality(after) \in Nat
             /\ Cardinality(after) <= Cardinality(before) + 1
             /\ v # "ok" \/ n \notin S => Cardinality(after) <= Cardinality(before)
  <1> DEFINE before == {m \in S : pc[m] = "ok"}
             after == {m \in S : pc'[m] = "ok"}
  <1>1. IsFiniteSet(Nodes)
    BY ExecutorAssumption
  <1>2. IsFiniteSet(before) /\ IsFiniteSet(after)
    BY <1>1, FS_Subset
  <1>3. after \subseteq before \cup {n}
    BY DEF TypeOK
  <1>4. IsFiniteSet(before \cup {n})
        /\ Cardinality(before \cup {n}) <= Cardinality(before) + 1
    <2> HIDE DEF before
    <2>1. Cardinality(before) \in Nat
      BY <1>2, FS_CardinalityType
    <2>2. IsFiniteSet(before \cup {n})
      BY <1>2, FS_AddElement
    <2>3. CASE n \in before
      <3>1. before \cup {n} = before
        BY <2>3
      <3>2. Cardinality(before \cup {n}) = Cardinality(before)
        BY <3>1
      <3> QED
        BY <3>2, <2>1, <2>2
    <2>4. CASE n \notin before
      <3>1. Cardinality(before \cup {n}) = Cardinality(before) + 1
        BY <1>2, <2>4, FS_AddElement
      <3> QED
        BY <3>1, <2>1, <2>2
    <2> QED
      BY <2>3, <2>4
  <1>5. Cardinality(after) <= Cardinality(before \cup {n})
    BY <1>3, <1>4, FS_Subset
  <1>6. Cardinality(before) \in Nat /\ Cardinality(after) \in Nat
        /\ Cardinality(before \cup {n}) \in Nat
    BY <1>2, <1>4, FS_CardinalityType
  <1>7. ASSUME v # "ok" \/ n \notin S PROVE Cardinality(after) <= Cardinality(before)
    <2>1. after \subseteq before
      BY <1>7 DEF TypeOK
    <2> QED
      BY <2>1, <1>2, FS_Subset
  <1> HIDE DEF before, after
  <1>8. Cardinality(after) <= Cardinality(before) + 1
    BY <1>4, <1>5, <1>6
  <1> QED
    BY <1>6, <1>7, <1>8 DEF before, after

(* What one step of the node n may do to pc and budget without breaking    *)
(* the count: its success is charged and was not refused.                  *)
HonestStep(n) ==
  \E v :
    /\ pc' = [pc EXCEPT ![n] = v]
    /\ budget'.llm \in {budget.llm, budget.llm + 1}
    /\ budget'.tool \in {budget.tool, budget.tool + 1}
    /\ v = "ok" /\ setup.kind[n] = "ai" =>
         /\ budget'.llm = budget.llm + 1
         /\ setup.failClosed => budget'.llm <= setup.maxLlm
    /\ v = "ok" /\ setup.kind[n] = "tool" =>
         /\ budget'.tool = budget.tool + 1
         /\ setup.failClosed => budget'.tool <= setup.maxTool

LEMMA QuietStep ==
  ASSUME TypeOK, NEW n \in Nodes, NEW v, v # "ok", pc' = [pc EXCEPT ![n] = v],
         budget' = budget
  PROVE  HonestStep(n)
  BY DEF HonestStep

LEMMA HonestStepKeepsCount ==
  ASSUME TypeOK, SuccessesCharged, NEW n \in Nodes, HonestStep(n), setup' = setup
  PROVE  SuccessesCharged'
  <1>1. PICK v : /\ pc' = [pc EXCEPT ![n] = v]
                 /\ budget'.llm \in {budget.llm, budget.llm + 1}
                 /\ budget'.tool \in {budget.tool, budget.tool + 1}
                 /\ v = "ok" /\ setup.kind[n] = "ai" =>
                      /\ budget'.llm = budget.llm + 1
                      /\ setup.failClosed => budget'.llm <= setup.maxLlm
                 /\ v = "ok" /\ setup.kind[n] = "tool" =>
                      /\ budget'.tool = budget.tool + 1
                      /\ setup.failClosed => budget'.tool <= setup.maxTool
    BY DEF HonestStep
  <1>2. budget.llm \in Nat /\ budget.tool \in Nat
        /\ setup.maxLlm \in Nat /\ setup.maxTool \in Nat
    BY DEF TypeOK, Setup
  <1>3. ASSUME NEW k
        PROVE  /\ OfKind(k) \in SUBSET Nodes
               /\ Succeeded(OfKind(k)) = {m \in OfKind(k) : pc[m] = "ok"}
               /\ Succeeded(OfKind(k))' = {m \in OfKind(k) : pc'[m] = "ok"}
               /\ n \in OfKind(k) <=> setup.kind[n] = k
    BY DEF OfKind, Succeeded
  <1>9. ASSUME NEW k
        PROVE  /\ Cardinality(Succeeded(OfKind(k))) \in Nat
               /\ Cardinality(Succeeded(OfKind(k))') \in Nat
               /\ Cardinality(Succeeded(OfKind(k))') <= Cardinality(Succeeded(OfKind(k))) + 1
               /\ v # "ok" \/ setup.kind[n] # k =>
                    Cardinality(Succeeded(OfKind(k))') <= Cardinality(Succeeded(OfKind(k)))
    <2> DEFINE S == OfKind(k)
    <2>1. S \in SUBSET Nodes
      BY <1>3
    <2>2. LET before == {m \in S : pc[m] = "ok"}
              after == {m \in S : pc'[m] = "ok"}
          IN  /\ Cardinality(before) \in Nat
              /\ Cardinality(after) \in Nat
              /\ Cardinality(after) <= Cardinality(before) + 1
              /\ v # "ok" \/ n \notin S => Cardinality(after) <= Cardinality(before)
      <3> HIDE DEF S
      <3> QED
        BY <1>1, <2>1, SuccessesGrowByOne
    <2> QED
      BY <2>2, <1>3
  <1> DEFINE ai == Succeeded(OfKind("ai"))
             tool == Succeeded(OfKind("tool"))
  <1>4. /\ Cardinality(ai) \in Nat /\ Cardinality(ai') \in Nat
        /\ Cardinality(ai') <= Cardinality(ai) + 1
        /\ v # "ok" \/ setup.kind[n] # "ai" => Cardinality(ai') <= Cardinality(ai)
    BY <1>9
  <1>5. /\ Cardinality(tool) \in Nat /\ Cardinality(tool') \in Nat
        /\ Cardinality(tool') <= Cardinality(tool) + 1
        /\ v # "ok" \/ setup.kind[n] # "tool" => Cardinality(tool') <= Cardinality(tool)
    BY <1>9
  <1>6. /\ Cardinality(ai) <= budget.llm /\ Cardinality(tool) <= budget.tool
        /\ setup.failClosed => Cardinality(ai) <= setup.maxLlm
                               /\ Cardinality(tool) <= setup.maxTool
    BY DEF SuccessesCharged, CallBudgetRespected
  <1> HIDE DEF ai, tool
  <1>7. /\ Cardinality(ai') <= budget'.llm
        /\ setup.failClosed => Cardinality(ai') <= setup.maxLlm
    BY <1>1, <1>2, <1>4, <1>6
  <1>8. /\ Cardinality(tool') <= budget'.tool
        /\ setup.failClosed => Cardinality(tool') <= setup.maxTool
    BY <1>1, <1>2, <1>5, <1>6
  <1> QED
    BY <1>7, <1>8 DEF SuccessesCharged, CallBudgetRespected, ai, tool

-----------------------------------------------------------------------------
(* What the except clause does to one node, by cases of its three exits.   *)
LEMMA CaughtMoves ==
  ASSUME TypeOK, AttemptsCounted, NEW n \in Nodes, pc[n] = "executing",
         Caught(n), setup' = setup
  PROVE  /\ pc' \in [Nodes -> {"idle", "executing", "sleeping"} \cup Ended]
         /\ attempt' \in [Nodes -> Nat]
         /\ calls' \in [Nodes -> Nat]
         /\ AttemptsCounted'
         /\ \E v : v # "ok" /\ pc' = [pc EXCEPT ![n] = v]
         /\ pc'[n] = "raised" => setup.halt
         /\ pc'[n] \in {"executing", "sleeping", "failed", "raised"}
  <1>1. /\ attempt[n] \in Nat /\ calls[n] \in Nat /\ setup.retries \in [Nodes -> Nat]
        /\ calls[n] = attempt[n] + 1 /\ attempt[n] <= setup.retries[n]
    BY DEF TypeOK, AttemptsCounted, Setup
  <1>2. CASE /\ attempt[n] >= setup.retries[n]
             /\ Return(n, IF setup.halt THEN "raised" ELSE "failed")
    BY <1>1, <1>2 DEF TypeOK, AttemptsCounted, Return, Ended
  <1>3. CASE /\ attempt[n] < setup.retries[n]
             /\ Dispatch(n, attempt[n] + 1)
    <2>1. /\ pc' = [pc EXCEPT ![n] = "executing"]
          /\ attempt' = [attempt EXCEPT ![n] = attempt[n] + 1]
          /\ calls' = [calls EXCEPT ![n] = @ + 1]
      BY <1>3 DEF Dispatch
    <2>2. /\ pc' \in [Nodes -> {"idle", "executing", "sleeping"} \cup Ended]
          /\ attempt' \in [Nodes -> Nat]
          /\ calls' \in [Nodes -> Nat]
          /\ pc'[n] = "executing"
      BY <1>1, <2>1 DEF TypeOK
    <2>3. AttemptsCounted'
      BY <1>1, <1>3, <2>1 DEF TypeOK, AttemptsCounted
    <2> QED
      BY <2>1, <2>2, <2>3
  <1>4. CASE /\ attempt[n] < setup.retries[n]
             /\ Return(n, "sleeping")
    BY <1>1, <1>4 DEF TypeOK, AttemptsCounted, Return, Ended
  <1> QED
    BY <1>2, <1>3, <1>4 DEF Caught

(* An end that is no exception leaves the attempts as they are. *)
LEMMA ReturnMoves ==
  ASSUME TypeOK, AttemptsCounted, NEW n \in Nodes, pc[n] \in {"idle", "executing"},
         NEW v \in Ended, Return(n, v), setup' = setup
  PROVE  /\ pc' \in [Nodes -> {"idle", "executing", "sleeping"} \cup Ended]
         /\ attempt' \in [Nodes -> Nat]
         /\ calls' \in [Nodes -> Nat]
         /\ AttemptsCounted'
         /\ pc' = [pc EXCEPT ![n] = v]
  BY DEF TypeOK, AttemptsCounted, Return, Ended, Setup

(* Charging types, and adds at most one to each counter. *)
LEMMA ChargeCounts ==
  ASSUME TypeOK, NEW n \in Nodes, NEW cost \in Nat
  PROVE  /\ Charged(n, cost) \in [llm : Nat, tool : Nat, cost : Nat]
         /\ Charged(n, cost).llm \in {budget.llm, budget.llm + 1}
         /\ Charged(n, cost).tool \in {budget.tool, budget.tool + 1}
         /\ setup.kind[n] = "ai" => Charged(n, cost).llm = budget.llm + 1
         /\ setup.kind[n] = "tool" => Charged(n, cost).tool = budget.tool + 1
  <1>4. budget \in [llm : Nat, tool : Nat, cost : Nat]
    BY DEF TypeOK
  <1>1. CASE setup.kind[n] = "ai"
    <2>1. Charged(n, cost) = [budget EXCEPT !.llm = @ + 1, !.cost = @ + cost]
      BY <1>1 DEF Charged
    <2>2. Charged(n, cost) =
            [llm |-> budget.llm + 1, tool |-> budget.tool, cost |-> budget.cost + cost]
      BY <1>4, <2>1
    <2>3. budget.llm \in Nat /\ budget.tool \in Nat /\ budget.cost \in Nat
      BY <1>4
    <2> QED
      BY <1>1, <2>2, <2>3
  <1>2. CASE setup.kind[n] = "tool"
    <2>1. Charged(n, cost) = [budget EXCEPT !.tool = @ + 1]
      BY <1>2 DEF Charged
    <2> QED
      BY <1>2, <1>4, <2>1
  <1>3. CASE setup.kind[n] \notin {"ai", "tool"}
    <2>1. Charged(n, cost) = budget
      BY <1>3 DEF Charged
    <2> QED
      BY <1>3, <1>4, <2>1
  <1> QED
    BY <1>1, <1>2, <1>3

(* An answer that is charged, and then refused or returned. *)
LEMMA ChargedAnswer ==
  ASSUME TypeOK, AttemptsCounted, NEW n \in Nodes, pc[n] = "executing",
         NEW outcome \in {"ok", "failed"}, NEW cost \in Nat,
         budget' = Charged(n, cost), setup' = setup,
         IF Refuses(n, budget') THEN Caught(n) ELSE Return(n, outcome)
  PROVE  /\ pc' \in [Nodes -> {"idle", "executing", "sleeping"} \cup Ended]
         /\ attempt' \in [Nodes -> Nat]
         /\ calls' \in [Nodes -> Nat]
         /\ budget' \in [llm : Nat, tool : Nat, cost : Nat]
         /\ AttemptsCounted'
         /\ HonestStep(n)
  <1>1. /\ budget' \in [llm : Nat, tool : Nat, cost : Nat]
        /\ budget'.llm \in {budget.llm, budget.llm + 1}
        /\ budget'.tool \in {budget.tool, budget.tool + 1}
        /\ setup.kind[n] = "ai" => budget'.llm = budget.llm + 1
        /\ setup.kind[n] = "tool" => budget'.tool = budget.tool + 1
    BY ChargeCounts
  <1>2. CASE Refuses(n, budget')
    <2>1. PICK v : v # "ok" /\ pc' = [pc EXCEPT ![n] = v]
      BY <1>2, CaughtMoves
    <2>2. HonestStep(n)
      BY <1>1, <2>1 DEF HonestStep
    <2> QED
      BY <1>1, <1>2, <2>2, CaughtMoves
  <1>3. CASE ~ Refuses(n, budget')
    <2>1. outcome \in Ended /\ Return(n, outcome)
      BY <1>3 DEF Ended
    <2>2. pc' = [pc EXCEPT ![n] = outcome]
      BY <2>1, ReturnMoves
    <2>3. setup.failClosed =>
            /\ setup.kind[n] = "ai" => budget'.llm <= setup.maxLlm
            /\ setup.kind[n] = "tool" => budget'.tool <= setup.maxTool
      <3>1. budget'.llm \in Nat /\ budget'.tool \in Nat
            /\ setup.maxLlm \in Nat /\ setup.maxTool \in Nat
        BY <1>1 DEF TypeOK, Setup
      <3> QED
        BY <1>3, <3>1 DEF Refuses
    <2>4. HonestStep(n)
      BY <1>1, <2>2, <2>3 DEF HonestStep
    <2> QED
      BY <1>1, <2>1, <2>4, ReturnMoves
  <1> QED
    BY <1>2, <1>3

-----------------------------------------------------------------------------
LEMMA ExecutorInit == Init => ExecutorInv
  <1> SUFFICES ASSUME Init PROVE ExecutorInv
    OBVIOUS
  <1>1. TypeOK
    BY ExecutorAssumption DEF Init, TypeOK, Ended
  <1>2. AttemptsCounted
    BY <1>1 DEF Init, AttemptsCounted, TypeOK, Setup
  <1>3. ASSUME NEW k PROVE Cardinality(Succeeded(OfKind(k))) = 0
    <2>1. Succeeded(OfKind(k)) = {}
      BY DEF Init, Succeeded, OfKind
    <2> QED
      BY <2>1, FS_EmptySet
  <1>4. SuccessesCharged
    BY <1>1, <1>3 DEF SuccessesCharged, CallBudgetRespected, Init, TypeOK, Setup
  <1> QED
    BY <1>1, <1>2, <1>4 DEF ExecutorInv

(* The invariant, step by step. *)
LEMMA ExecutorNext == ExecutorInv /\ [Next]_vars => ExecutorInv'
  <1> SUFFICES ASSUME ExecutorInv, [Next]_vars PROVE ExecutorInv'
    OBVIOUS
  <1> USE DEF ExecutorInv
  <1>1. CASE UNCHANGED vars
    <2>1. TypeOK'
      BY <1>1 DEF TypeOK, vars
    <2>2. AttemptsCounted'
      BY <1>1 DEF AttemptsCounted, vars
    <2>3. SuccessesCharged'
      BY <1>1 DEF SuccessesCharged, CallBudgetRespected, Succeeded, OfKind, vars
    <2> QED
      BY <2>1, <2>2, <2>3
  <1>2. ASSUME NEW n \in Nodes, Invalid(n) PROVE ExecutorInv'
    <2> DEFINE v == IF setup.halt THEN "raised" ELSE "failed"
    <2>1. pc[n] = "idle" /\ Return(n, v) /\ v \in Ended /\ v # "ok"
      BY <1>2 DEF Invalid, Ended
    <2>2. UNCHANGED <<setup, stored, finished, budget>>
      BY <1>2 DEF Invalid
    <2> HIDE DEF v
    <2>3. TypeOK'
      BY <2>1, <2>2, ReturnMoves DEF TypeOK
    <2>4. HonestStep(n)
      BY <2>1, <2>2, ReturnMoves, QuietStep
    <2> QED
      BY <2>1, <2>2, <2>3, <2>4, ReturnMoves, HonestStepKeepsCount
  <1>3. ASSUME NEW n \in Nodes, InputNotStored(n) PROVE ExecutorInv'
    <2>1. /\ pc[n] = "idle" /\ Return(n, "raised") /\ "raised" \in Ended
          /\ UNCHANGED <<setup, stored, finished, budget>>
      BY <1>3 DEF InputNotStored, Ended
    <2>2. TypeOK'
      BY <2>1, ReturnMoves DEF TypeOK
    <2>3. HonestStep(n)
      BY <2>1, ReturnMoves, QuietStep
    <2> QED
      BY <2>1, <2>2, <2>3, ReturnMoves, HonestStepKeepsCount
  <1>4. ASSUME NEW n \in Nodes, Begin(n) PROVE ExecutorInv'
    <2>1. /\ pc[n] = "idle" /\ Dispatch(n, 0)
          /\ stored' = [stored EXCEPT ![n] = "input"]
          /\ UNCHANGED <<setup, finished, budget>>
      BY <1>4 DEF Begin
    <2>2. TypeOK'
      BY <2>1 DEF TypeOK, Dispatch
    <2>3. AttemptsCounted'
      BY <2>1 DEF TypeOK, Setup, AttemptsCounted, Dispatch
    <2>4. HonestStep(n)
      <3>1. pc' = [pc EXCEPT ![n] = "executing"] /\ budget' = budget
        BY <2>1 DEF Dispatch
      <3> QED
        BY <3>1, QuietStep
    <2> QED
      BY <2>1, <2>2, <2>3, <2>4, HonestStepKeepsCount
  <1>5. ASSUME NEW n \in Nodes, WakeUp(n) PROVE ExecutorInv'
    <2>1. /\ pc[n] = "sleeping" /\ Dispatch(n, attempt[n] + 1)
          /\ UNCHANGED <<setup, stored, finished, budget>>
      BY <1>5 DEF WakeUp
    <2>2. TypeOK'
      BY <2>1 DEF TypeOK, Dispatch
    <2>3. AttemptsCounted'
      BY <2>1 DEF TypeOK, Setup, AttemptsCounted, Dispatch
    <2>4. HonestStep(n)
      <3>1. pc' = [pc EXCEPT ![n] = "executing"] /\ budget' = budget
        BY <2>1 DEF Dispatch
      <3> QED
        BY <3>1, QuietStep
    <2> QED
      BY <2>1, <2>2, <2>3, <2>4, HonestStepKeepsCount
  <1>6. ASSUME NEW n \in Nodes, pc[n] = "executing", Caught(n),
               UNCHANGED <<setup, stored, budget>>,
               finished' \in [Nodes -> Nat]
        PROVE  ExecutorInv'
    <2>1. TypeOK'
      BY <1>6, CaughtMoves DEF TypeOK
    <2>2. PICK v : v # "ok" /\ pc' = [pc EXCEPT ![n] = v]
      BY <1>6, CaughtMoves
    <2>3. HonestStep(n)
      BY <1>6, <2>2, QuietStep
    <2> QED
      BY <1>6, <2>1, <2>3, CaughtMoves, HonestStepKeepsCount
  <1>7. ASSUME NEW n \in Nodes, ExecutorRaises(n) PROVE ExecutorInv'
    BY <1>6, <1>7 DEF ExecutorRaises, TypeOK
  <1>8. ASSUME NEW n \in Nodes, AnswersEmpty(n) \/ OutputNotStored(n)
        PROVE  ExecutorInv'
    <2>1. /\ pc[n] = "executing" /\ Caught(n)
          /\ UNCHANGED <<setup, stored, budget>>
          /\ finished' = [finished EXCEPT ![n] = @ + 1]
      BY <1>8 DEF AnswersEmpty, OutputNotStored
    <2>2. finished' \in [Nodes -> Nat]
      BY <2>1 DEF TypeOK
    <2> QED
      BY <1>6, <2>1, <2>2
  <1>9. ASSUME NEW n \in Nodes, NEW outcome \in {"ok", "failed"}, NEW cost \in {0, 1},
               AnswersResult(n, outcome, cost)
        PROVE  ExecutorInv'
    <2>1. /\ pc[n] = "executing" /\ cost \in Nat
          /\ budget' = Charged(n, cost)
          /\ IF Refuses(n, budget') THEN Caught(n) ELSE Return(n, outcome)
          /\ UNCHANGED <<setup, stored, finished>>
      BY <1>9 DEF AnswersResult
    <2>2. TypeOK'
      BY <2>1, ChargedAnswer DEF TypeOK
    <2> QED
      BY <2>1, <2>2, ChargedAnswer, HonestStepKeepsCount
  <1>10. ASSUME NEW n \in Nodes, NEW valid \in BOOLEAN, AnswersValue(n, valid)
         PROVE  ExecutorInv'
    <2> DEFINE outcome == IF valid THEN "ok" ELSE "failed"
    <2>1. /\ pc[n] = "executing"
          /\ budget' = Charged(n, 0)
          /\ IF Refuses(n, budget') THEN Caught(n) ELSE Return(n, outcome)
          /\ UNCHANGED setup
          /\ outcome \in {"ok", "failed"}
      BY <1>10 DEF AnswersValue
    <2>2. finished' \in [Nodes -> Nat]
          /\ stored' \in [Nodes -> {"nothing", "input", "output"}]
      BY <1>10 DEF AnswersValue, TypeOK
    <2> HIDE DEF outcome
    <2>3. TypeOK'
      BY <2>1, <2>2, ChargedAnswer DEF TypeOK
    <2> QED
      BY <2>1, <2>3, ChargedAnswer, HonestStepKeepsCount
  <1> QED
    BY <1>1, <1>2, <1>3, <1>4, <1>5, <1>7, <1>8, <1>9, <1>10
       DEF Next, Before, Answer, Done

(* The inductive invariant holds: attempts are counted and successes are   *)
(* charged, whatever the executors answer and however nodes interleave.    *)
THEOREM ExecutorSafe == Spec => []ExecutorInv
  BY ExecutorInit, ExecutorNext, PTL DEF Spec

(* The call limits of a budget that fails closed hold for the nodes that   *)
(* succeed.                                                                *)
THEOREM CallBudgetHolds == Spec => []CallBudgetRespected
  <1>1. ExecutorInv => CallBudgetRespected
    BY DEF ExecutorInv, SuccessesCharged
  <1> QED
    BY <1>1, ExecutorSafe, PTL

(* An executor is called retries + 1 times at the most. *)
THEOREM RetriesAreBounded == Spec => []CallsBounded
  <1>1. ExecutorInv => CallsBounded
    BY DEF ExecutorInv, AttemptsCounted, CallsBounded
  <1> QED
    BY <1>1, ExecutorSafe, PTL

-----------------------------------------------------------------------------
(* Where Workflow expects an exception. *)
MayRaise == setup.halt \/ setup.storeFaults

LEMMA ContractInit == Init => Contract!Init
  <1> SUFFICES ASSUME Init PROVE Contract!Init
    OBVIOUS
  <1>1. setup \in Setup
    BY ExecutorAssumption DEF Init
  <1>2. (setup.halt \/ setup.storeFaults) \in BOOLEAN
    BY <1>1 DEF Setup
  <1> QED
    BY <1>2 DEF Init, Contract!Init

(* A node that moves to v is, for Workflow, a start, an end or a stutter. *)
LEMMA MoveIsContractStep ==
  ASSUME TypeOK, NEW n \in Nodes, NEW v, pc' = [pc EXCEPT ![n] = v], setup' = setup,
         \/ pc[n] = "idle" /\ v \in {"executing", "failed"}
         \/ pc[n] \in {"idle", "executing"} /\ v = "raised" /\ MayRaise
         \/ pc[n] = "executing" /\ v \in {"executing", "sleeping", "ok", "failed"}
         \/ pc[n] = "sleeping" /\ v = "executing"
  PROVE  [Contract!Next]_(Contract!vars)
  <1> DEFINE seen == [m \in Nodes |->
                        IF pc[m] \in {"executing", "sleeping"} THEN "running" ELSE pc[m]]
             after == IF v \in {"executing", "sleeping"} THEN "running" ELSE v
  <1>1. seen' = [seen EXCEPT ![n] = after]
    BY DEF TypeOK
  <1>2. (setup.halt \/ setup.storeFaults)' = (setup.halt \/ setup.storeFaults)
    OBVIOUS
  <1>3. seen[n] = IF pc[n] \in {"executing", "sleeping"} THEN "running" ELSE pc[n]
    OBVIOUS
  <1>4. CASE seen[n] = "running" /\ after = "running"
    <2>1. seen' = seen
      BY <1>1, <1>4
    <2> QED
      BY <1>2, <2>1 DEF Contract!vars
  <1>5. CASE seen[n] = "idle" /\ after = "running"
    <2>1. Contract!Start(n)
      BY <1>1, <1>2, <1>5 DEF Contract!Start
    <2> QED
      BY <2>1 DEF Contract!Next
  <1>6. CASE seen[n] \in {"idle", "running"} /\ after \in {"ok", "failed"}
    <2>1. Contract!End(n)
      BY <1>1, <1>2, <1>6 DEF Contract!End
    <2> QED
      BY <2>1 DEF Contract!Next
  <1>7. CASE seen[n] \in {"idle", "running"} /\ after = "raised" /\ MayRaise
    <2>1. Contract!End(n)
      BY <1>1, <1>2, <1>7 DEF Contract!End, MayRaise
    <2> QED
      BY <2>1 DEF Contract!Next
  <1> QED
    BY <1>3, <1>4, <1>5, <1>6, <1>7

LEMMA ContractNext == ExecutorInv /\ [Next]_vars => [Contract!Next]_(Contract!vars)
  <1> SUFFICES ASSUME ExecutorInv, [Next]_vars
               PROVE  [Contract!Next]_(Contract!vars)
    OBVIOUS
  <1> USE DEF ExecutorInv
  <1>1. CASE UNCHANGED vars
    BY <1>1 DEF vars, Contract!vars
  <1>2. ASSUME NEW n \in Nodes, pc[n] = "executing", Caught(n), setup' = setup
        PROVE  [Contract!Next]_(Contract!vars)
    <2>1. PICK v : pc' = [pc EXCEPT ![n] = v]
      BY <1>2, CaughtMoves
    <2>2. /\ v \in {"executing", "sleeping", "failed", "raised"}
          /\ v = "raised" => setup.halt
      BY <1>2, <2>1, CaughtMoves DEF TypeOK
    <2> QED
      BY <1>2, <2>1, <2>2, MoveIsContractStep DEF MayRaise
  <1>3. ASSUME NEW n \in Nodes, Invalid(n) PROVE [Contract!Next]_(Contract!vars)
    <2> DEFINE v == IF setup.halt THEN "raised" ELSE "failed"
    <2>1. pc[n] = "idle" /\ pc' = [pc EXCEPT ![n] = v] /\ setup' = setup
      BY <1>3 DEF Invalid, Return
    <2>2. v = "failed" \/ (v = "raised" /\ MayRaise)
      BY DEF MayRaise
    <2> HIDE DEF v
    <2> QED
      BY <2>1, <2>2, MoveIsContractStep
  <1>4. ASSUME NEW n \in Nodes, InputNotStored(n) PROVE [Contract!Next]_(Contract!vars)
    <2>1. /\ pc[n] = "idle" /\ pc' = [pc EXCEPT ![n] = "raised"] /\ setup' = setup
          /\ MayRaise
      BY <1>4 DEF InputNotStored, Return, MayRaise
    <2> QED
      BY <2>1, MoveIsContractStep
  <1>5. ASSUME NEW n \in Nodes, Begin(n) \/ WakeUp(n)
        PROVE  [Contract!Next]_(Contract!vars)
    <2>1. /\ pc[n] \in {"idle", "sleeping"} /\ setup' = setup
          /\ pc' = [pc EXCEPT ![n] = "executing"]
      BY <1>5 DEF Begin, WakeUp, Dispatch
    <2> QED
      BY <2>1, MoveIsContractStep
  <1>6. ASSUME NEW n \in Nodes, ExecutorRaises(n) \/ AnswersEmpty(n) \/ OutputNotStored(n)
        PROVE  [Contract!Next]_(Contract!vars)
    BY <1>2, <1>6 DEF ExecutorRaises, AnswersEmpty, OutputNotStored
  <1>7. ASSUME NEW n \in Nodes, NEW outcome \in {"ok", "failed"},
               pc[n] = "executing", Return(n, outcome), setup' = setup
        PROVE  [Contract!Next]_(Contract!vars)
    BY <1>7, MoveIsContractStep DEF Return
  <1>8. ASSUME NEW n \in Nodes, NEW outcome \in {"ok", "failed"}, NEW cost \in {0, 1},
               AnswersResult(n, outcome, cost)
        PROVE  [Contract!Next]_(Contract!vars)
    BY <1>2, <1>7, <1>8 DEF AnswersResult
  <1>9. ASSUME NEW n \in Nodes, NEW valid \in BOOLEAN, AnswersValue(n, valid)
        PROVE  [Contract!Next]_(Contract!vars)
    <2> DEFINE outcome == IF valid THEN "ok" ELSE "failed"
    <2>1. /\ pc[n] = "executing" /\ setup' = setup /\ outcome \in {"ok", "failed"}
          /\ Caught(n) \/ Return(n, outcome)
      BY <1>9 DEF AnswersValue
    <2> HIDE DEF outcome
    <2> QED
      BY <1>2, <1>7, <2>1
  <1> QED
    BY <1>1, <1>3, <1>4, <1>5, <1>6, <1>8, <1>9 DEF Next, Before, Answer, Done

(* execute_node keeps the contract Workflow builds on: one end per node,   *)
(* and an exception only under HALT or from a failing store.               *)
THEOREM ExecutorImplementsContract == Spec => ImplementsContract
  BY ContractInit, ContractNext, ExecutorSafe, PTL
     DEF Spec, ImplementsContract, Contract!Spec
=============================================================================
