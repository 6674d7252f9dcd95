----------------------------- MODULE ChainReuse -----------------------------
(***************************************************************************)
(* A workflow object that is executed more than once: a nested chain given *)
(* as an object to several nodes, or to one that is retried.  Each         *)
(* execution installs its inputs in the object and then walks its levels;  *)
(* the branch decisions, the token total, the prompts and the agents are   *)
(* the object's, and nothing resets them.  Executions take turns on the    *)
(* event loop: what execute() does between two awaits is done while it     *)
(* holds the turn.                                                         *)
(***************************************************************************)
EXTENDS BranchGating

CONSTANTS
  Execs,      \* the executions of the object
  Nobody,
  Prompted,   \* the "ai" nodes, whose prompt has placeholders
  Usage,      \* the tokens a result of each node may report, 0 for none or a failure
  Ceiling,    \* token_ceiling
  Verdicts    \* what each condition says of each execution's inputs

ASSUME ReuseAssumption ==
  /\ Nobody \notin Execs /\ Prompted \subseteq Nodes
  /\ Usage \in [Nodes -> SUBSET Nat] /\ Ceiling \in Nat
  /\ Verdicts \subseteq [Execs -> [Nodes -> {"true", "false"}]]

VARIABLES
  verdict,     \* one of Verdicts
  turn,        \* the execution between two awaits
  installed,   \* whose inputs context_manager holds
  at,          \* the level each execution is at, 0 before it starts
  asking,      \* nodes of the level still to be gated
  pending,     \* active nodes of the level that have not finished
  results,     \* nodes of the level whose results have not been looked at
  spent,       \* metrics.total_tokens, counted up to Ceiling + 1
  prompt,      \* whose inputs cfg.prompt holds, and whether it still has live template text
  agent,       \* _agent_cache: who built the agent, and whose inputs its instructions hold
  ran,         \* nodes each execution ran
  said,        \* the decisions each execution came to
  crowded,     \* the executions during which another one installed its inputs
  cut          \* the executions that a limit, a failure or a guard cut short

mine == <<verdict, installed, at, asking, pending, results, spent, prompt, agent, ran, said, crowded, cut>>
all == <<gatingVars, mine, turn>>

LevelOf == LET level[n \in Nodes] == Max({level[d] : d \in graph.deps[n]} \cup {0}) + 1 IN level
Depth == Max({LevelOf[n] : n \in Nodes})
Level(l) == {n \in Nodes : LevelOf[n] = l}
Running == {e \in Execs : at[e] \in 1 .. Depth}

ReuseInit ==
  /\ GatingInit
  /\ verdict \in Verdicts
  /\ turn = Nobody /\ installed = Nobody
  /\ at = [e \in Execs |-> 0]
  /\ asking = {} /\ results = {}
  /\ pending = [e \in Execs |-> {}]
  /\ spent = 0
  /\ prompt = [n \in Nodes |-> [of |-> {}, live |-> TRUE]]
  /\ agent = [n \in Nodes |-> [of |-> {}, by |-> Nobody]]
  /\ ran = [e \in Execs |-> {}]
  /\ said = [e \in Execs |-> [n \in Nodes |-> "none"]]
  /\ crowded = {} /\ cut = {}

(* nested_chain_executor: a new context manager with this node's inputs    *)
(* takes the place of the child's, and execute() begins.                   *)
Install(e) ==
  /\ turn = Nobody /\ at[e] = 0
  /\ turn' = e /\ installed' = e
  /\ at' = [at EXCEPT ![e] = 1] /\ asking' = Level(1)
  /\ crowded' = crowded \cup Running \cup (IF Running = {} THEN {} ELSE {e})
  /\ UNCHANGED <<gatingVars, verdict, pending, results, spent, prompt, agent, ran, said, cut>>

(* The nodes of the level are gated one after the other, and the active    *)
(* ones handed to _execute_level, which awaits them.                       *)
GateNode(e, n) ==
  /\ turn = e /\ results = {}
  /\ n \in asking /\ \A m \in asking : n <= m
  /\ IsNodeActive(n)
  /\ asking' = asking \ {n}
  /\ pending' = IF asked'.answer = "active" THEN [pending EXCEPT ![e] = @ \cup {n}] ELSE pending
  /\ turn' = IF asking' = {} THEN Nobody ELSE e
  /\ UNCHANGED <<verdict, installed, at, results, spent, prompt, agent, ran, said, crowded, cut>>

(* What a node is given: the metadata of the manager installed by then and *)
(* what its own execution's results map to.                                *)
Inputs(e, n) == {installed} \cup (IF graph.deps[n] = {} THEN {} ELSE {e})

(* render_prompt: template text is filled in, and what is filled in may be *)
(* template text itself; what Jinja and format both refuse stays as it is. *)
Renderings(e, n) ==
  {prompt[n]} \cup IF prompt[n].live
                   THEN [of : {prompt[n].of \cup Inputs(e, n)}, live : BOOLEAN] ELSE {}

(* _build_agent: the first agent of a node is its only one.                *)
BuildAgent(e, n) ==
  agent' = IF agent[n].by = Nobody
           THEN [agent EXCEPT ![n] = [of |-> prompt'[n].of, by |-> e]] ELSE agent

(* Mutant: the rendered prompt is kept before it is searched for leftover  *)
(* placeholders.                                                           *)
AiExecutorKeepsAll(e, n) ==
  \E text \in Renderings(e, n) :
    /\ prompt' = [prompt EXCEPT ![n] = text]
    /\ UNCHANGED agent \/ BuildAgent(e, n)

(* ai_executor: a prompt with placeholders left over after rendering is    *)
(* refused; any other takes the place of the template.                     *)
AiExecutor(e, n) ==
  \/ UNCHANGED <<prompt, agent>>
  \/ /\ \E text \in Renderings(e, n) : prompt' = [prompt EXCEPT ![n] = text]
     /\ BuildAgent(e, n)

(* A condition may fail and say nothing.                                   *)
RunNode(e, n) ==
  /\ turn = Nobody
  /\ n \in pending[e]
  /\ pending' = [pending EXCEPT ![e] = @ \ {n}]
  /\ ran' = [ran EXCEPT ![e] = @ \cup {n}]
  /\ IF n \in Prompted THEN AiExecutor(e, n) ELSE UNCHANGED <<prompt, agent>>
  /\ \/ said' = IF n \in graph.conditions
                THEN [said EXCEPT ![e][n] = verdict[installed][n]] ELSE said
     \/ n \in graph.conditions /\ UNCHANGED said
  /\ UNCHANGED <<gatingVars, verdict, turn, installed, at, asking, results, spent, crowded, cut>>

(* All nodes of the level have finished: execute() goes on. *)
LevelGathered(e) ==
  /\ turn = Nobody /\ at[e] \in 1 .. Depth
  /\ pending[e] = {}
  /\ turn' = e
  /\ results' = ran[e] \cap Level(at[e])
  /\ UNCHANGED <<gatingVars, verdict, installed, at, asking, pending, spent, prompt, agent, ran, said, crowded, cut>>

(* The results are looked at in the order of the nodes.  Tokens are added  *)
(* to the object's total; the ceiling, or a guard, makes execute() leave   *)
(* the rest of the results alone, this one's decision included.            *)
HandleResult(e) ==
  /\ turn = e
  /\ \E n \in results : \E used \in Usage[n] :
       /\ \A m \in results : n <= m
       /\ spent' = IF spent + used > Ceiling THEN Ceiling + 1 ELSE spent + used
       /\ \/ /\ used > 0
             /\ results' = {} /\ cut' = cut \cup {e}
             /\ UNCHANGED gatingVars
          \/ /\ used > 0 => spent' <= Ceiling
             /\ results' = results \ {n} /\ UNCHANGED cut
             /\ IF said[e][n] = "none" THEN UNCHANGED gatingVars ELSE RecordDecision(n, said[e][n])
  /\ UNCHANGED <<verdict, turn, installed, at, asking, pending, prompt, agent, ran, said, crowded>>

NextLevel(e) ==
  /\ turn = e /\ results = {} /\ asking = {}
  /\ at' = [at EXCEPT ![e] = @ + 1]
  /\ asking' = Level(at[e] + 1)
  /\ turn' = IF at[e] = Depth THEN Nobody ELSE e
  /\ UNCHANGED <<gatingVars, verdict, installed, pending, results, spent, prompt, agent, ran, said, crowded, cut>>

(* execute() ends early: ahead of a level, where the failure policy or a   *)
(* limit of depth stops it, or with an exception at the result of a node   *)
(* that raised.  Workflow and ChainAssembly model when.                    *)
EndEarly(e) ==
  /\ turn = e
  /\ results # {} \/ asking = Level(at[e])
  /\ at' = [at EXCEPT ![e] = Depth + 1]
  /\ turn' = Nobody /\ asking' = {} /\ results' = {}
  /\ cut' = cut \cup {e}
  /\ UNCHANGED <<gatingVars, verdict, installed, pending, spent, prompt, agent, ran, said, crowded>>

Done == \A e \in Execs : at[e] > Depth

ReuseNext ==
  \/ \E e \in Execs :
       \/ Install(e) \/ LevelGathered(e) \/ HandleResult(e) \/ NextLevel(e) \/ EndEarly(e)
       \/ \E n \in Nodes : GateNode(e, n) \/ RunNode(e, n)
  \/ Done /\ UNCHANGED all

ReuseSpec == ReuseInit /\ [][ReuseNext]_all

-----------------------------------------------------------------------------
(* Properties *)

(* An agent that outlives the execution that built it holds inputs of no   *)
(* other one, refused and repeated renderings notwithstanding, unless      *)
(* executions met.                                                         *)
InstructionsAreOwn ==
  \A n \in Prompted : agent[n].by \notin crowded \cup {Nobody} => agent[n].of \subseteq {agent[n].by}

(* What a new object would run, were its conditions to say the same.       *)
Excluded(e, n) ==
  \E c \in graph.conditions : LevelOf[c] < LevelOf[n] /\
    \/ said[e][c] = "true" /\ n \in graph.branch[FALSE][c]
    \/ said[e][c] = "false" /\ n \in graph.branch[TRUE][c]
RunByNew(e) == {n \in Nodes : \A m \in Ancestors(n) \cup {n} : ~ Excluded(e, m)}

(* Nothing of earlier executions decides for e: their decisions on         *)
(* conditions that e did not decide itself.  A branch begins below its     *)
(* condition.                                                              *)
NoLeftovers(e) ==
  \A c \in graph.conditions :
    /\ said[e][c] = "none" => \A o \in Execs : said[o][c] = "none"
    /\ \A n \in graph.branch[TRUE][c] \cup graph.branch[FALSE][c] : LevelOf[c] < LevelOf[n]

(* Although decisions are never reset, an execution that is alone and is   *)
(* not cut short runs exactly the nodes a new object would run, as long as *)
(* each condition is decided anew.                                         *)
AloneRunsLikeNew ==
  \A e \in Execs \ (crowded \cup cut) : at[e] > Depth /\ NoLeftovers(e) => ran[e] = RunByNew(e)
=============================================================================
