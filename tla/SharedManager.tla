---------------------------- MODULE SharedManager ----------------------------
(***************************************************************************)
(* Workflows that share one GraphContextManager, as every run of           *)
(* WorkflowService does: constructing a workflow registers the tools it    *)
(* brings and makes its context the manager's current one, and a node asks *)
(* for the current context, without a session id, when it stores its       *)
(* input, whenever it calls its tool and when it stores its output.  Each  *)
(* run here executes one node, mostly of a tool.                           *)
(***************************************************************************)
EXTENDS SkillRegistry

CONSTANTS
  Runs, Sessions,
  Tools,         \* tools that workflows bring or call
  ClassOf,       \* the class of each tool a workflow may bring
  Plans,         \* the sets of runs to be looked at
  MaxSessions,   \* max_sessions
  None

Plan == [session : [Runs -> Sessions], brings : [Runs -> Seq(Tools)],
         calls : [Runs -> Tools], foreign : SUBSET Runs, rejected : SUBSET Runs]

ASSUME ManagerAssumption ==
  /\ MaxSessions \in Nat \ {0}
  /\ Tools \subseteq Names /\ ClassOf \in [Tools -> Classes] /\ Plans \subseteq Plan
  /\ None \notin Runs \cup Sessions

(* A context is told by its session and by the run whose metadata and      *)
(* execution id it carries: nobody's, if get_context had to make it up.    *)
Context == [session : Sessions, owner : Runs \cup {None}]
NoContext == [session |-> None, owner |-> None]

VARIABLES
  plan,       \* for each run its session, tools and call, whether its node's executor is
              \* another's, and whether its graph is rejected
  contexts,   \* _contexts, least recently registered first
  current,    \* _context
  tools,      \* _tools
  pc,         \* how far each run is
  sees,       \* whose context its node started with
  given,      \* whose contexts the tries of its tool were given
  stores,     \* under whose execution ids something of it is stored
  disturbed   \* the runs during which another context was made current

managerVars == <<contexts, current, tools>>
runVars == <<plan, pc, sees, given, stores, disturbed>>
vars == <<managerVars, runVars, registryVars>>

Init ==
  /\ RegistryInit
  /\ plan \in Plans
  /\ contexts = <<>> /\ current = NoContext /\ tools = {}
  /\ pc = [r \in Runs |-> "new"]
  /\ sees = [r \in Runs |-> None]
  /\ given = [r \in Runs |-> {}] /\ stores = [r \in Runs |-> {}]
  /\ disturbed = {}

Live == {r \in Runs : pc[r] \in {"built", "awaiting", "waiting"}}

-----------------------------------------------------------------------------
(* The manager *)

(* Mutant: the earlier entry of the session is not popped, so that the map *)
(* keeps the session where it was.                                         *)
RegisteredInPlace(c) ==
  LET of  == {i \in DOMAIN contexts : contexts[i].session = c.session}
      all == IF of = {} THEN Append(contexts, c) ELSE [contexts EXCEPT ![CHOOSE i \in of : TRUE] = c]
  IN  SubSeq(all, Max({1, Len(all) - MaxSessions + 1}), Len(all))

(* The map without the entry of session s, if it has one.                  *)
Without(s) ==
  LET of == {i \in DOMAIN contexts : contexts[i].session = s}
  IN  IF of = {} THEN contexts ELSE RemoveAt(contexts, CHOOSE i \in of : TRUE)

(* _register_context: c becomes the most recent entry; the oldest are      *)
(* evicted, never c itself as long as one session may be kept.             *)
Registered(c) ==
  LET all == Append(Without(c.session), c)
  IN  SubSeq(all, Max({1, Len(all) - MaxSessions + 1}), Len(all))

SetContext(c) ==
  /\ contexts' = Registered(c)
  /\ current' = c

(* get_context(s) of a caller that names its session: a session other than *)
(* the current one is given a context made up on the spot.                 *)
GetContext(s) ==
  /\ current.session # s
  /\ SetContext([session |-> s, owner |-> None])
  /\ disturbed' = disturbed \cup Live
  /\ UNCHANGED <<plan, tools, pc, sees, given, stores, registryVars>>

(* register_tool, one tool after the other up to the first duplicate.      *)
NewTools(r) ==
  LET brought == plan.brings[r]
  IN  {brought[i] : i \in {k \in DOMAIN brought : \A j \in 1 .. k :
         brought[j] \notin tools \cup {brought[h] : h \in 1 .. j - 1}}}

Duplicate(r) == ~ IsInjective(plan.brings[r]) \/ \E i \in DOMAIN plan.brings[r] : plan.brings[r][i] \in tools

-----------------------------------------------------------------------------
(* The runs *)

(* Mutant: the context is set whatever becomes of the tools. *)
ConstructContextFirst(r) ==
  /\ pc[r] = "new"
  /\ tools' = tools \cup NewTools(r)
  /\ toolClasses' = WithClasses({ClassOf[t] : t \in NewTools(r)})
  /\ pc' = [pc EXCEPT ![r] = IF Duplicate(r) \/ r \in plan.rejected THEN "raised" ELSE "built"]
  /\ SetContext([session |-> plan.session[r], owner |-> r])
  /\ disturbed' = IF Duplicate(r) THEN disturbed ELSE disturbed \cup Live
  /\ UNCHANGED <<plan, sees, given, stores, skills, system, drafts>>

(* A duplicate tool raises before the context is set, with the tools ahead *)
(* of it already registered; a bad graph or mapping only afterwards.       *)
Construct(r) ==
  /\ pc[r] = "new"
  /\ tools' = tools \cup NewTools(r)
  /\ toolClasses' = WithClasses({ClassOf[t] : t \in NewTools(r)})
  /\ IF Duplicate(r)
     THEN /\ pc' = [pc EXCEPT ![r] = "raised"]
          /\ UNCHANGED <<contexts, current, disturbed>>
     ELSE /\ pc' = [pc EXCEPT ![r] = IF r \in plan.rejected THEN "raised" ELSE "built"]
          /\ SetContext([session |-> plan.session[r], owner |-> r])
          /\ disturbed' = disturbed \cup Live
  /\ UNCHANGED <<plan, sees, given, stores, skills, system, drafts>>

(* A try that fails is repeated as often as the node has retries.          *)
TryFails(r) == \E to \in {"failed", "waiting"} : pc' = [pc EXCEPT ![r] = to]

(* execute_tool: a registered tool cannot be called, as its ToolContext    *)
(* takes no arguments; any other is looked up by ToolService.              *)
CallTool(r) ==
  LET t == plan.calls[r] IN
  /\ IF t \in tools THEN UNCHANGED registryVars ELSE Resolve(t)
  /\ \/ /\ t \notin tools /\ Resolved(t)
        /\ pc' = [pc EXCEPT ![r] = "awaiting"]
        /\ given' = [given EXCEPT ![r] = @ \cup {current.owner}]
     \/ /\ t \in tools \/ ~ Resolved(t)
        /\ TryFails(r)
        /\ UNCHANGED given

Try(r) ==
  IF r \in plan.foreign
  THEN /\ pc' = [pc EXCEPT ![r] = "awaiting"]
       /\ UNCHANGED <<given, registryVars>>
  ELSE CallTool(r)

(* execute_node stores the input before the first try. *)
BeginNode(r) ==
  /\ pc[r] = "built"
  /\ sees' = [sees EXCEPT ![r] = current.owner]
  /\ stores' = [stores EXCEPT ![r] = @ \cup {current.owner}]
  /\ Try(r)
  /\ UNCHANGED <<plan, managerVars, disturbed>>

Retry(r) ==
  /\ pc[r] = "waiting"
  /\ Try(r)
  /\ UNCHANGED <<plan, managerVars, sees, stores, disturbed>>

(* A tool node returns a finished result, which is passed on as it is.     *)
(* What the executor of another returns is wrapped, and stored if the      *)
(* workflow persists outputs and there is one.                             *)
NodeReturns(r) ==
  /\ pc[r] = "awaiting"
  /\ pc' = [pc EXCEPT ![r] = "done"]
  /\ \/ UNCHANGED stores
     \/ r \in plan.foreign /\ stores' = [stores EXCEPT ![r] = @ \cup {current.owner}]
  /\ UNCHANGED <<plan, managerVars, sees, given, disturbed, registryVars>>

NodeRaises(r) ==
  /\ pc[r] = "awaiting"
  /\ TryFails(r)
  /\ UNCHANGED <<plan, managerVars, sees, given, stores, disturbed, registryVars>>

Next ==
  \/ \E r \in Runs : Construct(r) \/ BeginNode(r) \/ Retry(r) \/ NodeReturns(r) \/ NodeRaises(r)
  \/ \E s \in Sessions : GetContext(s)
  \/ RegistryNext /\ UNCHANGED <<managerVars, runVars>>

Spec == Init /\ [][Next]_vars

-----------------------------------------------------------------------------
(* Properties *)

Stages == {"new", "raised", "built", "awaiting", "waiting", "done", "failed"}

TypeOK ==
  /\ plan \in Plan /\ contexts \in Seq(Context) /\ current \in Context \cup {NoContext}
  /\ tools \subseteq Tools
  /\ pc \in [Runs -> Stages]
  /\ sees \in [Runs -> Runs \cup {None}]
  /\ given \in [Runs -> SUBSET (Runs \cup {None})]
  /\ stores \in [Runs -> SUBSET (Runs \cup {None})]
  /\ disturbed \subseteq Runs

(* The map holds one context per session and no more than max_sessions;    *)
(* the current context is its most recent entry, so that no eviction ever  *)
(* takes it away.                                                          *)
ManagerInv ==
  /\ TypeOK
  /\ Len(contexts) <= MaxSessions
  /\ \A i, j \in DOMAIN contexts : contexts[i].session = contexts[j].session => i = j
  /\ current = IF contexts = <<>> THEN NoContext ELSE contexts[Len(contexts)]

(* What sharing a manager leaves of isolation: a run during which nobody   *)
(* else made a context current starts its node and every try of its tool   *)
(* with its own context, and all that is stored of it is stored under its  *)
(* own execution id, whatever the runs before it left behind or failed to  *)
(* be constructed meanwhile.                                               *)
SoleRunKeepsContext ==
  \A r \in Runs \ disturbed : pc[r] \notin {"new", "raised", "built"} =>
    sees[r] = r /\ given[r] \subseteq {r} /\ stores[r] = {r}

=============================================================================
