---------------------------- MODULE ChainAssembly ----------------------------
(***************************************************************************)
(* From a description of nodes to a workflow, and from there to the inputs *)
(* each node is given.  A description comes as a blueprint that a run      *)
(* executes, as a payload, as a network file or as node objects; each      *)
(* entry converts it in its own way, and Workflow.__init__ then checks the *)
(* use of tools, builds the dependency graph (DependencyLevels) and checks *)
(* that every input mapping names an output of a direct dependency.  What  *)
(* the nodes answer at run time is another matter: only the answer of an   *)
(* executor that is not built in is held against the declared schema.      *)
(***************************************************************************)
EXTENDS DependencyLevels, Sequences

CONSTANTS
  Keys,      \* keys of outputs
  Designs    \* the descriptions to be looked at

Kinds == {"ai", "llm", "tool", "skill", "condition", "nested_chain", "prebuilt"}
Prompted == {"ai", "llm"}

(* <<>> is the path ".", which stands for the whole output. *)
Paths == UNION {[1 .. k -> Keys] : k \in 0 .. 2}
Outputs == {P \in SUBSET Paths : <<>> \in P /\ \A p \in P : Len(p) = 2 => <<p[1]>> \in P}

(* A mapping is told by where it leads; its placeholder has no other name. *)
InputMapping == Names \X Paths

Design ==
  [entry : {"run", "payload", "network", "code"},
   found : BOOLEAN,                 \* there is a file, of the expected version
   kind : [Names -> Kinds],
   malformed : SUBSET Names,        \* fields missing or unexpected
   restricted : SUBSET Names,       \* nodes with allowed_tools
   schema : [Names -> SUBSET Paths],
   maps : [Names -> SUBSET InputMapping],
   leftover : SUBSET Names,         \* prompts that Jinja leaves a {name} in
   limited : BOOLEAN,               \* there is a limit on tokens or depth
   answers : SUBSET {"ok", "failed", "skipped"}]

ASSUME DesignsAssumption == Designs \subseteq Design

VARIABLES
  design,    \* one of Designs
  stage,     \* given, converted, checked, assembled, refused, crashed or returned
  result     \* what each node came to: [status, output, checked]

assembly == <<design, stage, result>>
every == <<vars, assembly>>

Nothing == [status |-> "none", output |-> {}, checked |-> FALSE]

Fresh ==
  /\ Init
  /\ stage = "given"
  /\ result = [n \in Names |-> Nothing]

AssemblyInit == Fresh /\ design \in Designs

-----------------------------------------------------------------------------
(* Construction *)

(* The kinds each entry has a parser for: convert_node_spec for blueprints, *)
(* ChainFactory for the rest.  A network resolves its nested chains and     *)
(* hands them to ChainFactory all the same.                                 *)
Parsed(entry) ==
  CASE entry = "run" -> {"tool", "ai", "condition"}
    [] entry \in {"payload", "network"} -> {"ai", "llm", "tool", "skill", "condition"}
    [] entry = "code" -> Kinds

Move(from, ok, to) ==
  /\ stage = from
  /\ stage' = IF ok THEN to ELSE "refused"
  /\ UNCHANGED <<vars, design, result>>

Convert ==
  Move("given",
       \/ design.entry = "code"
       \/ /\ design.found
          /\ ids \cap design.malformed = {}
          /\ \A n \in ids : design.kind[n] \in Parsed(design.entry),
       "converted")

(* SafetyValidator: of all nodes only those of type "ai" may limit tools.  *)
CheckToolAccess ==
  Move("converted", \A n \in ids \cap design.restricted : design.kind[n] = "ai", "checked")

BuildGraph == stage = "checked" /\ Next /\ UNCHANGED assembly

GraphRefused == phase \in {"unknown", "circular"} /\ Move("checked", FALSE, "assembled")

(* Mutant: a mapping may name any node of the chain. *)
AlignedAnywhere(n) ==
  \A m \in design.maps[n] :
    m[1] \in ids /\ (m[2] = <<>> \/ <<m[2][1]>> \in design.schema[m[1]])

(* validate_schema_alignment; of a nested path the first key counts.       *)
Aligned(n) ==
  \A m \in design.maps[n] :
    m[1] \in Predecessors(n) /\ (m[2] = <<>> \/ <<m[2][1]>> \in design.schema[m[1]])

Align == phase = "built" /\ Move("checked", \A n \in ids : Aligned(n), "assembled")

(* WorkflowService validates what was just built: the first two checks     *)
(* pass again, and the errors ChainValidator lists are dropped.            *)
Preflight == design.entry = "run" /\ Move("assembled", TRUE, "validated")

-----------------------------------------------------------------------------
(* Execution *)

(* ContextBuilder: the dependency has succeeded, and the path leads somewhere. *)
Resolvable(m) == result[m[1]].status = "ok" /\ m[2] \in result[m[1]].output

(* A built-in executor answers with a finished result, which is taken as   *)
(* it is; another one may, too.  Any other output is checked, unless       *)
(* validate_outputs is off, as it is in networks: what the schema names    *)
(* must be there.                                                          *)
Answers(n) ==
  LET raw == IF design.kind[n] = "prebuilt" /\ design.entry # "network" THEN BOOLEAN ELSE {FALSE}
      read == \E m \in ids : \E x \in design.maps[m] : x[1] = n
      seen == IF read THEN Outputs ELSE {{<<>>}}
      ok == [status : {"ok"}, output : seen, checked : raw]
      no == [status : {"failed", "skipped"}, output : {{}}, checked : raw]
  IN  {a \in ok \cup no :
         /\ a.status \in design.answers
         /\ a.status = "ok" /\ a.checked => design.schema[n] \subseteq a.output}

Executing == stage = IF design.entry = "run" THEN "validated" ELSE "assembled"

(* Below it all has been collected, and nothing there ended the execution. *)
Ready(n) ==
  /\ n \in ids
  /\ result[n] = Nothing
  /\ \A m \in ids : level[m] < level[n] => result[m].status \notin {"none", "missing"}

(* A node none of whose inputs is missing is gated off, fails or answers;  *)
(* ai_executor refuses a prompt that rendering leaves a {name} in.         *)
RunNode(n) ==
  /\ Executing
  /\ Ready(n)
  /\ \E a \in Answers(n) :
       /\ a.status = "ok" /\ design.kind[n] \in Prompted => n \notin design.leftover
       /\ a.status # "skipped" => \A m \in design.maps[n] : Resolvable(m)
       /\ result' = [result EXCEPT ![n] = a]
  /\ UNCHANGED <<vars, design, stage>>

(* A missing input raises, and gather() keeps the exception for later. *)
InputMissing(n) ==
  /\ Executing
  /\ Ready(n)
  /\ \E m \in design.maps[n] : ~ Resolvable(m)
  /\ result' = [result EXCEPT ![n].status = "missing"]
  /\ UNCHANGED <<vars, design, stage>>

(* The level is over, and its results are collected one by one. *)
Collecting ==
  /\ Executing
  /\ \A n, m \in ids : result[n] # Nothing /\ result[m] = Nothing => level[n] < level[m]

(* Tokens are counted for the results that carry their usage, which none   *)
(* but the finished result of a foreign executor does.                     *)
TokensSpent(n) == result[n].status = "ok" /\ design.kind[n] = "prebuilt" /\ ~ result[n].checked

(* When their total passes a limit, the results of the level that come     *)
(* after are never looked at.                                              *)
DropRest(n) ==
  /\ Collecting
  /\ design.limited
  /\ TokensSpent(n)
  /\ \A m \in ids : result[m] # Nothing => level[m] <= level[n]
  /\ \E rest \in SUBSET {m \in ids \ {n} : level[m] = level[n]} :
       result' = [m \in Names |-> IF m \in rest /\ result[m].status # "skipped"
                                 THEN [result[m] EXCEPT !.status = "dropped"] ELSE result[m]]
  /\ UNCHANGED <<vars, design, stage>>

(* An exception among the results has no node's name, and the look-up of   *)
(* its node raises: that ends the whole execution.                         *)
Crash ==
  /\ Collecting
  /\ \E n \in ids : result[n].status = "missing"
  /\ stage' = "crashed"
  /\ UNCHANGED <<vars, design, result>>

(* All levels done, or an error that the policy does not pass over.        *)
Return ==
  /\ Collecting
  /\ \A n \in ids : result[n].status # "missing"
  /\ \/ \A n \in ids : result[n] # Nothing
     \/ \E n \in ids : result[n].status = "failed"
     \/ design.limited
  /\ stage' = "returned"
  /\ UNCHANGED <<vars, design, result>>

(* WorkflowService answers with success whatever execute() returned, and   *)
(* with failure when it raised.                                            *)
Settled == stage \in {"returned", "crashed", "refused"} /\ UNCHANGED every

AssemblyNext ==
  \/ Convert \/ CheckToolAccess \/ BuildGraph \/ GraphRefused \/ Align \/ Preflight
  \/ \E n \in Names : RunNode(n) \/ InputMissing(n)
  \/ \E n \in ids : DropRest(n)
  \/ Crash \/ Return \/ Settled

AssemblySpec == AssemblyInit /\ [][AssemblyNext]_every

-----------------------------------------------------------------------------
(* Properties *)

(* Why the input a mapping leads to may be missing. *)
Excused(m) ==
  LET source == result[m[1]]
  IN  \/ source.status \in {"failed", "skipped"}
      \/ source.status = "dropped" /\ design.limited
      \/ source.status = "ok" /\ m[2] \notin source.output /\ (~ source.checked \/ Len(m[2]) > 1)

(* What the checks before a run are worth in it.  No node is executed      *)
(* without its mapped inputs; and when one is missing, its source did come *)
(* first, and failed, was gated off, was never held against its schema,    *)
(* the mapping reads below the keys that were compared, or a token limit   *)
(* dropped the result of a source that ran.                                *)
InputsAccounted ==
  /\ \A n \in ids : result[n].status \in {"ok", "failed"} =>
       \A m \in design.maps[n] : result[m[1]].status = "ok" /\ m[2] \in result[m[1]].output
  /\ \A n \in ids : result[n].status = "missing" => \E m \in design.maps[n] : Excused(m)
=============================================================================
