---------------------------- MODULE NodeExecutor ----------------------------
(***************************************************************************)
(* NodeExecutor.execute_node for the nodes of one workflow: validation,    *)
(* the input stored in the context, the retry loop with its back-off, the  *)
(* two ways an executor answers (a finished NodeExecutionResult, or a raw  *)
(* value that is still to be stored and validated), and the BudgetEnforcer *)
(* all nodes share.                                                        *)
(*                                                                         *)
(* A node suspends only while it awaits its executor or sleeps, so an      *)
(* action is what happens between two of these points, and the nodes       *)
(* interleave there.  The result cache is left out: nothing ever writes    *)
(* to it, so each lookup misses.                                           *)
(***************************************************************************)
EXTENDS Integers, FiniteSets

CONSTANTS
  Nodes,        \* the nodes of the workflow
  Setups        \* the configurations it may have

Kinds == {"ai", "llm", "tool", "skill"}

(* What node configurations, constructor and environment fix.  orgBudget 0 *)
(* is no budget at all; persist is persist_intermediate_outputs; under     *)
(* storeFaults the context store may fail any time.                        *)
Setup ==
  [kind : [Nodes -> Kinds], retries : [Nodes -> Nat], backoff : [Nodes -> BOOLEAN],
   halt : BOOLEAN, failClosed : BOOLEAN,
   maxLlm : Nat, maxTool : Nat, orgBudget : Nat, persist : BOOLEAN,
   storeFaults : BOOLEAN]

ASSUME ExecutorAssumption ==
  /\ IsFiniteSet(Nodes)
  /\ Setups \subseteq Setup

VARIABLES
  setup,     \* the configuration of this workflow
  pc,        \* idle, executing, sleeping, ok, failed or raised
  attempt,   \* the local counter of the retry loop
  calls,     \* how often the node's executor has been called
  stored,    \* what the context store has for the node
  finished,  \* nodeFinished events of the node
  budget     \* the BudgetEnforcer: _llm_calls, _tool_execs, _total_cost

vars == <<setup, pc, attempt, calls, stored, finished, budget>>

Ended == {"ok", "failed", "raised"}

TypeOK ==
  /\ setup \in Setup
  /\ pc \in [Nodes -> {"idle", "executing", "sleeping"} \cup Ended]
  /\ attempt \in [Nodes -> Nat]
  /\ calls \in [Nodes -> Nat]
  /\ stored \in [Nodes -> {"nothing", "input", "output"}]
  /\ finished \in [Nodes -> Nat]
  /\ budget \in [llm : Nat, tool : Nat, cost : Nat]

Init ==
  /\ setup \in Setups
  /\ pc = [n \in Nodes |-> "idle"]
  /\ attempt = [n \in Nodes |-> 0]
  /\ calls = [n \in Nodes |-> 0]
  /\ stored = [n \in Nodes |-> "nothing"]
  /\ finished = [n \in Nodes |-> 0]
  /\ budget = [llm |-> 0, tool |-> 0, cost |-> 0]

-----------------------------------------------------------------------------
(* BudgetEnforcer *)

(* The counters after an answered call, which are kept when it is refused. *)
(* Only the two legacy type names are metered.                             *)
Charged(n, cost) ==
  CASE setup.kind[n] = "ai" ->
         [budget EXCEPT !.llm = @ + 1, !.cost = @ + cost]
    [] setup.kind[n] = "tool" -> [budget EXCEPT !.tool = @ + 1]
    [] OTHER -> budget

(* Mutant: the limit compared with what was spent before. *)
RefusesBeforeCharge(n, b) ==
  /\ setup.failClosed
  /\ \/ setup.kind[n] = "ai" /\ budget.llm > setup.maxLlm
     \/ setup.kind[n] = "tool" /\ budget.tool > setup.maxTool

(* _handle_violation raises, unless it is told to fail open. *)
Refuses(n, b) ==
  /\ setup.failClosed
  /\ \/ /\ setup.kind[n] = "ai"
        /\ \/ b.llm > setup.maxLlm
           \/ setup.orgBudget # 0 /\ b.cost > setup.orgBudget
     \/ setup.kind[n] = "tool" /\ b.tool > setup.maxTool

-----------------------------------------------------------------------------
(* The retry loop *)

Return(n, outcome) ==
  /\ pc' = [pc EXCEPT ![n] = outcome]
  /\ UNCHANGED <<attempt, calls>>

(* Call the executor for attempt number k. *)
Dispatch(n, k) ==
  /\ pc' = [pc EXCEPT ![n] = "executing"]
  /\ attempt' = [attempt EXCEPT ![n] = k]
  /\ calls' = [calls EXCEPT ![n] = @ + 1]

(* Mutant: the last error is raised whatever the policy. *)
CaughtAndRaised(n) ==
  \/ /\ attempt[n] >= setup.retries[n]
     /\ Return(n, "raised")
  \/ /\ attempt[n] < setup.retries[n]
     /\ Dispatch(n, attempt[n] + 1)

(* The except clause: any exception of the attempt is retried, after a     *)
(* sleep when a back-off is set, until the retries are exhausted.          *)
Caught(n) ==
  \/ /\ attempt[n] >= setup.retries[n]
     /\ Return(n, IF setup.halt THEN "raised" ELSE "failed")
  \/ /\ attempt[n] < setup.retries[n]
     /\ ~ setup.backoff[n]
     /\ Dispatch(n, attempt[n] + 1)
  \/ /\ attempt[n] < setup.retries[n]
     /\ setup.backoff[n]
     /\ Return(n, "sleeping")

(* Mutant: the attempt is repeated without being counted. *)
WakeUpUncounted(n) ==
  /\ pc[n] = "sleeping"
  /\ pc' = [pc EXCEPT ![n] = "executing"]
  /\ UNCHANGED <<setup, attempt, calls, stored, finished, budget>>

WakeUp(n) ==
  /\ pc[n] = "sleeping"
  /\ Dispatch(n, attempt[n] + 1)
  /\ UNCHANGED <<setup, stored, finished, budget>>

-----------------------------------------------------------------------------
(* Before the loop *)

(* runtime_validate() raises. *)
Invalid(n) ==
  /\ pc[n] = "idle"
  /\ Return(n, IF setup.halt THEN "raised" ELSE "failed")
  /\ UNCHANGED <<setup, stored, finished, budget>>

(* The input cannot be stored: no try around it, so execute_node raises. *)
InputNotStored(n) ==
  /\ setup.storeFaults
  /\ pc[n] = "idle"
  /\ Return(n, "raised")
  /\ UNCHANGED <<setup, stored, finished, budget>>

Begin(n) ==
  /\ pc[n] = "idle"
  /\ stored' = [stored EXCEPT ![n] = "input"]
  /\ Dispatch(n, 0)
  /\ UNCHANGED <<setup, finished, budget>>

-----------------------------------------------------------------------------
(* The executor's answer *)

(* It raises, there is none for the type, or its value is not coercible. *)
ExecutorRaises(n) ==
  /\ pc[n] = "executing"
  /\ Caught(n)
  /\ UNCHANGED <<setup, stored, finished, budget>>

(* A NodeExecutionResult, which is what every built-in executor returns:   *)
(* charged, then handed on as it is.                                       *)
AnswersResult(n, outcome, cost) ==
  /\ pc[n] = "executing"
  /\ budget' = Charged(n, cost)
  /\ IF Refuses(n, budget') THEN Caught(n) ELSE Return(n, outcome)
  /\ UNCHANGED <<setup, stored, finished>>

(* A raw value: the event is emitted first, then the output is stored,     *)
(* validated (a value that does not fit its schema fails the node at once) *)
(* and charged.  A raw value carries no usage, so it costs nothing.        *)
AnswersValue(n, valid) ==
  /\ pc[n] = "executing"
  /\ finished' = [finished EXCEPT ![n] = @ + 1]
  /\ stored' = IF setup.persist THEN [stored EXCEPT ![n] = "output"] ELSE stored
  /\ budget' = Charged(n, 0)
  /\ IF Refuses(n, budget')
     THEN Caught(n)
     ELSE Return(n, IF valid THEN "ok" ELSE "failed")
  /\ UNCHANGED setup

(* The same, but the output cannot be stored. *)
OutputNotStored(n) ==
  /\ setup.storeFaults /\ setup.persist
  /\ pc[n] = "executing"
  /\ finished' = [finished EXCEPT ![n] = @ + 1]
  /\ Caught(n)
  /\ UNCHANGED <<setup, stored, budget>>

(* A value that is false ({}, 0, None): building the failure result raises *)
(* for want of its metadata, so the attempt counts as one that raised.     *)
AnswersEmpty(n) ==
  /\ pc[n] = "executing"
  /\ finished' = [finished EXCEPT ![n] = @ + 1]
  /\ Caught(n)
  /\ UNCHANGED <<setup, stored, budget>>

-----------------------------------------------------------------------------
Before(n) == Invalid(n) \/ InputNotStored(n) \/ Begin(n)

Answer(n) ==
  \/ ExecutorRaises(n) \/ AnswersEmpty(n) \/ OutputNotStored(n)
  \/ \E outcome \in {"ok", "failed"}, cost \in {0, 1} : AnswersResult(n, outcome, cost)
  \/ \E valid \in BOOLEAN : AnswersValue(n, valid)

Done == (\A n \in Nodes : pc[n] \in Ended) /\ UNCHANGED vars

Next == Done \/ \E n \in Nodes : Before(n) \/ Answer(n) \/ WakeUp(n)

Spec == Init /\ [][Next]_vars

(* The event loop runs the coroutine when it can; executors answer in the  *)
(* end (nothing enforces it: no code reads timeout_seconds).               *)
FairSpec ==
  Spec /\ \A n \in Nodes : WF_vars(Before(n)) /\ WF_vars(WakeUp(n)) /\ WF_vars(Answer(n))

-----------------------------------------------------------------------------
(* Properties *)

OfKind(k) == {n \in Nodes : setup.kind[n] = k}
Succeeded(S) == {n \in S : pc[n] = "ok"}

Contract == INSTANCE NodeContract WITH
  node <- [n \in Nodes |->
             IF pc[n] \in {"executing", "sleeping"} THEN "running" ELSE pc[n]],
  mayRaise <- setup.halt \/ setup.storeFaults

(* A node ends once, keeps its end, and raises only under HALT or when the *)
(* store fails: what Workflow builds on, whichever of the eleven ways out  *)
(* of execute_node is taken.                                               *)
ImplementsContract == Contract!Spec

(* The enforcer fails closed: the metered nodes that succeed, run          *)
(* concurrently and retried, are never more than their limit.              *)
CallBudgetRespected ==
  setup.failClosed =>
    /\ Cardinality(Succeeded(OfKind("ai"))) <= setup.maxLlm
    /\ Cardinality(Succeeded(OfKind("tool"))) <= setup.maxTool

(* An executor is called retries + 1 times at the most, over all the       *)
(* exceptions, refusals and sleeps of a node, and never after its end.     *)
CallsBounded ==
  \A n \in Nodes : /\ calls[n] <= setup.retries[n] + 1
                   /\ pc[n] = "executing" => calls[n] = attempt[n] + 1

(* Every success has been charged, and fitted the limit when it was: with  *)
(* AttemptsCounted and TypeOK the inductive invariant of the proofs.          *)
SuccessesCharged ==
  /\ Cardinality(Succeeded(OfKind("ai"))) <= budget.llm
  /\ Cardinality(Succeeded(OfKind("tool"))) <= budget.tool
  /\ CallBudgetRespected

AttemptsCounted ==
  \A n \in Nodes :
    /\ pc[n] = "idle" => calls[n] = 0
    /\ pc[n] \in {"executing", "sleeping"} =>
         calls[n] = attempt[n] + 1 /\ attempt[n] <= setup.retries[n]
    /\ pc[n] = "sleeping" => attempt[n] < setup.retries[n]
    /\ calls[n] <= setup.retries[n] + 1

ExecutorInv == TypeOK /\ AttemptsCounted /\ SuccessesCharged

(* Every node ends, if its executor always answers. *)
EveryNodeEnds == \A n \in Nodes : <>(pc[n] \in Ended)
=============================================================================
