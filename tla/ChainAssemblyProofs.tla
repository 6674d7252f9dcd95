------------------------ MODULE ChainAssemblyProofs ------------------------
(***************************************************************************)
(* Proofs about DependencyLevels and ChainAssembly for any set of names,   *)
(* list of nodes and description: what execute() may assume of the levels  *)
(* it walks, and what the checks made before a run are worth in it.        *)
(***************************************************************************)
EXTENDS ChainAssembly, TLAPS

-----------------------------------------------------------------------------
(* The dependency graph *)


(* While the graph is built, it holds the dependencies of the nodes seen. *)
EdgesOf(S) == {e \in ids \X ids : e[2] \in S /\ e[1] \in deps[e[2]]}

GraphInv ==
  /\ edges = EdgesOf(ids \ (IF phase \in {"levels", "built", "circular"} THEN {} ELSE todo))
  /\ phase \in {"levels", "built", "circular"} => \A n \in ids : deps[n] \subseteq ids
  /\ phase = "edges" => \A n \in ids \ todo : deps[n] \subseteq ids

(* While levels are assigned, the nodes seen are closed under dependency   *)
(* and already lie above their dependencies.                               *)
LevelInv ==
  /\ phase \in {"levels", "built"} => ~ DeclaredCircle
  /\ phase = "levels" =>
       \A n \in ids \ todo : \A d \in deps[n] : d \notin todo /\ level[d] < level[n]
  /\ phase = "built" => \A n \in ids : \A d \in deps[n] : level[d] < level[n]
  /\ phase = "circular" => DeclaredCircle
  /\ phase = "unknown" => \E n \in ids : ~ deps[n] \subseteq ids

BuildInv == TypeOK /\ GraphInv /\ LevelInv

LEMMA BuildInvInit == Init => BuildInv
<1> SUFFICES ASSUME Init PROVE BuildInv
  OBVIOUS
<1>1. TypeOK
  BY DEF Init, TypeOK
<1>2. GraphInv
  BY DEF Init, GraphInv, EdgesOf
<1>3. LevelInv
  BY DEF Init, LevelInv
<1> QED BY <1>1, <1>2, <1>3 DEF BuildInv

(* The check on the graph is the check on the declarations. *)
LEMMA CyclicIsDeclared ==
  ASSUME TypeOK, edges = EdgesOf(ids), \A n \in ids : deps[n] \subseteq ids
  PROVE  Cyclic <=> DeclaredCircle
<1>1. \A n \in ids : Predecessors(n) = deps[n]
  BY DEF TypeOK, EdgesOf, Predecessors
<1> QED BY <1>1 DEF Cyclic, DeclaredCircle

LEMMA AddNodePreserves ==
  ASSUME BuildInv, NEW n \in Names, AddNode(n) PROVE BuildInv'
<1>1. /\ phase = "edges" /\ n \in todo /\ n \in ids /\ todo \subseteq ids
      /\ UNCHANGED <<ids, deps, level>>
  BY DEF AddNode, BuildInv, TypeOK
<1>2. CASE deps[n] \subseteq ids
  <2>1. edges' = edges \cup (deps[n] \X {n}) /\ todo' = todo \ {n} /\ phase' = "edges"
    BY <1>1, <1>2 DEF AddNode
  <2>2. TypeOK'
    BY <1>1, <1>2, <2>1 DEF BuildInv, TypeOK
  <2>3. edges' = EdgesOf(ids \ todo)'
    BY <1>1, <1>2, <2>1 DEF BuildInv, GraphInv, EdgesOf
  <2>4. GraphInv'
    BY <1>1, <1>2, <2>1, <2>3 DEF BuildInv, GraphInv, EdgesOf
  <2>5. LevelInv'
    BY <2>1 DEF LevelInv
  <2> QED BY <2>2, <2>4, <2>5 DEF BuildInv
<1>3. CASE ~ deps[n] \subseteq ids
  <2>1. phase' = "unknown" /\ UNCHANGED <<edges, todo>>
    BY <1>3 DEF AddNode
  <2> QED BY <1>1, <1>3, <2>1 DEF BuildInv, TypeOK, GraphInv, LevelInv, EdgesOf
<1> QED BY <1>2, <1>3

LEMMA CheckCyclesPreserves ==
  ASSUME BuildInv, CheckCycles PROVE BuildInv'
<1>1. phase = "edges" /\ todo = {} /\ UNCHANGED <<ids, deps, edges, level>>
  BY DEF CheckCycles
<1>2. edges = EdgesOf(ids) /\ \A n \in ids : deps[n] \subseteq ids
  BY <1>1 DEF BuildInv, GraphInv
<1>3. Cyclic <=> DeclaredCircle
  BY <1>2, CyclicIsDeclared DEF BuildInv
<1>4. DeclaredCircle' <=> DeclaredCircle
  BY <1>1 DEF DeclaredCircle
<1>5. EdgesOf(ids)' = EdgesOf(ids)
  BY <1>1 DEF EdgesOf
<1>6. CASE Cyclic
  <2>1. phase' = "circular" /\ todo' = todo
    BY <1>6 DEF CheckCycles
  <2>2. GraphInv'
    BY <1>1, <1>2, <1>5, <2>1 DEF GraphInv
  <2> QED BY <1>1, <1>3, <1>4, <1>6, <2>1, <2>2 DEF BuildInv, TypeOK, LevelInv
<1>7. CASE ~ Cyclic
  <2>1. phase' = "levels" /\ todo' = ids
    BY <1>7 DEF CheckCycles
  <2>2. GraphInv'
    BY <1>1, <1>2, <1>5, <2>1 DEF GraphInv
  <2> QED BY <1>1, <1>3, <1>4, <1>7, <2>1, <2>2 DEF BuildInv, TypeOK, LevelInv
<1> QED BY <1>6, <1>7

LEMMA AssignLevelPreserves ==
  ASSUME BuildInv, NEW n \in Names, AssignLevel(n) PROVE BuildInv'
<1>1. /\ phase = "levels" /\ phase' = "levels" /\ n \in todo /\ n \in ids
      /\ todo' = todo \ {n} /\ UNCHANGED <<ids, deps, edges>>
      /\ todo \subseteq ids /\ level \in [ids -> Nat]
      /\ Predecessors(n) \cap todo = {}
  BY DEF AssignLevel, BuildInv, TypeOK
<1>2. PICK l \in 0 .. Cardinality(Names) :
        OneAboveDeepest(n, l) /\ level' = [level EXCEPT ![n] = l]
  BY DEF AssignLevel
<1>3. l \in Nat
  OBVIOUS
<1>4. edges = EdgesOf(ids) /\ \A m \in ids : deps[m] \subseteq ids
  BY <1>1 DEF BuildInv, GraphInv
<1>5. Predecessors(n) = deps[n]
  BY <1>1, <1>4 DEF Predecessors, EdgesOf
<1>6. TypeOK'
  BY <1>1, <1>2, <1>3 DEF BuildInv, TypeOK
<1>7. GraphInv'
  <2>1. EdgesOf(ids)' = EdgesOf(ids)
    BY <1>1 DEF EdgesOf
  <2> QED BY <1>1, <1>4, <2>1 DEF GraphInv
<1>8. ASSUME NEW m \in ids \ todo', NEW d \in deps[m]
      PROVE  d \notin todo' /\ level'[d] < level'[m]
  <2>1. d \in ids
    BY <1>4, <1>8
  <2>2. CASE m = n
    <3>1. d \notin todo /\ d # n /\ level[d] < l
      BY <1>1, <1>2, <1>5, <1>8, <2>2 DEF OneAboveDeepest
    <3> QED BY <1>1, <1>2, <2>1, <2>2, <3>1
  <2>3. CASE m # n
    <3>1. m \notin todo /\ d \notin todo /\ level[d] < level[m]
      BY <1>1, <1>8, <2>3 DEF BuildInv, LevelInv
    <3> QED BY <1>1, <1>2, <2>1, <2>3, <3>1
  <2> QED BY <2>2, <2>3
<1>9. ~ DeclaredCircle'
  BY <1>1 DEF BuildInv, LevelInv, DeclaredCircle
<1>10. LevelInv'
  BY <1>1, <1>8, <1>9 DEF LevelInv
<1> QED BY <1>6, <1>7, <1>10 DEF BuildInv

LEMMA LevelsAssignedPreserves ==
  ASSUME BuildInv, LevelsAssigned PROVE BuildInv'
<1>1. /\ phase = "levels" /\ todo = {} /\ phase' = "built"
      /\ UNCHANGED <<ids, deps, edges, todo, level>>
  BY DEF LevelsAssigned
<1> QED BY <1>1 DEF BuildInv, TypeOK, GraphInv, LevelInv, EdgesOf, DeclaredCircle

LEMMA BuildInvStep == BuildInv /\ [Next]_vars => BuildInv'
<1> SUFFICES ASSUME BuildInv, [Next]_vars PROVE BuildInv'
  OBVIOUS
<1>1. CASE UNCHANGED vars
  BY <1>1 DEF vars, BuildInv, TypeOK, GraphInv, LevelInv, EdgesOf, DeclaredCircle
<1>2. ASSUME NEW n \in Names, AddNode(n) PROVE BuildInv'
  BY <1>2, AddNodePreserves
<1>3. ASSUME NEW n \in Names, AssignLevel(n) PROVE BuildInv'
  BY <1>3, AssignLevelPreserves
<1>4. CASE CheckCycles
  BY <1>4, CheckCyclesPreserves
<1>5. CASE LevelsAssigned
  BY <1>5, LevelsAssignedPreserves
<1>6. CASE Constructed
  BY <1>1, <1>6 DEF Constructed
<1> QED BY <1>1, <1>2, <1>3, <1>4, <1>5, <1>6 DEF Next

THEOREM BuildSafe == Spec => []BuildInv
BY BuildInvInit, BuildInvStep, PTL DEF Spec

(* Walking the levels upwards runs every node after what it depends on. *)
THEOREM BuiltLevelsRespectDeps == Spec => []LevelsRespectDeps
<1>1. BuildInv => LevelsRespectDeps
  BY DEF BuildInv, GraphInv, LevelInv, LevelsRespectDeps
<1> QED BY <1>1, BuildSafe, PTL

(* An accepted list has no circle, a rejected one has what it is rejected for. *)
THEOREM VerdictsRight == Spec => []VerdictIsRight
<1>1. BuildInv => VerdictIsRight
  BY DEF BuildInv, LevelInv, VerdictIsRight
<1> QED BY <1>1, BuildSafe, PTL

(* With no circle some node is always ready, so every node gets a level. *)
THEOREM SortAlwaysProceeds == Spec => []SortNeverStuck
<1>1. BuildInv => SortNeverStuck
  <2> SUFFICES ASSUME BuildInv, phase = "levels", todo # {}
               PROVE  \E n \in todo : Predecessors(n) \cap todo = {}
    BY DEF SortNeverStuck
  <2>1. todo \in (SUBSET ids) \ {{}}
    BY DEF BuildInv, TypeOK
  <2>2. ~ \A n \in todo : deps[n] \cap todo # {}
    BY <2>1 DEF BuildInv, LevelInv, DeclaredCircle
  <2>3. \A n \in todo : Predecessors(n) = deps[n]
    BY <2>1 DEF BuildInv, TypeOK, GraphInv, EdgesOf, Predecessors
  <2> QED BY <2>2, <2>3
<1> QED BY <1>1, BuildSafe, PTL

-----------------------------------------------------------------------------
(* The way of a description *)

Stages == {"given", "converted", "checked", "assembled", "validated", "refused", "crashed", "returned"}

(* Past the alignment check the graph is built and every mapping names an  *)
(* output its dependency declares.                                         *)
AlignmentInv ==
  stage \in {"assembled", "validated", "crashed", "returned"} =>
    phase = "built" /\ \A n \in ids : Aligned(n)

(* A node has a result or none, and only when the graph is built and those *)
(* of all levels below have been collected; an output that was checked has *)
(* what the schema names.                                                  *)
Unbuilt == {"given", "converted", "checked"}
Statuses == {"none", "ok", "failed", "skipped", "missing", "dropped"}

ResultInv ==
  /\ \A n \in Names : result[n].status = "none" <=> result[n] = Nothing
  /\ \A n \in ids : result[n] # Nothing =>
       \A m \in ids : level[m] < level[n] => result[m].status \notin {"none", "missing"}
  /\ \A n \in ids : result[n].status = "dropped" => design.limited
  /\ stage \in Unbuilt => \A n \in Names : result[n] = Nothing
  /\ \A n \in Names : result[n].status = "ok" =>
       <<>> \in result[n].output /\ (result[n].checked => design.schema[n] \subseteq result[n].output)

AssemblyInv ==
  /\ BuildInv
  /\ design \in Design /\ stage \in Stages
  /\ result \in [Names -> [status : Statuses, output : SUBSET Paths, checked : BOOLEAN]]
  /\ AlignmentInv /\ ResultInv /\ InputsAccounted

LEMMA AssemblyInvInit == AssemblyInit => AssemblyInv
<1> SUFFICES ASSUME AssemblyInit PROVE AssemblyInv
  OBVIOUS
<1>1. BuildInv
  BY BuildInvInit DEF AssemblyInit, Fresh
<1>2. design \in Design /\ stage \in Stages /\ AlignmentInv
  BY DesignsAssumption DEF AssemblyInit, Fresh, Stages, AlignmentInv
<1>3. \A n \in Names : result[n] = Nothing /\ result[n].status = "none"
  BY DEF AssemblyInit, Fresh, Nothing
<1>4. result \in [Names -> [status : Statuses, output : SUBSET Paths, checked : BOOLEAN]]
  BY DEF Statuses, AssemblyInit, Fresh, Nothing
<1>5. ids \subseteq Names
  BY <1>1 DEF BuildInv, TypeOK
<1>6. ResultInv /\ InputsAccounted
  BY <1>3, <1>5 DEF AssemblyInit, Fresh, ResultInv, InputsAccounted
<1> QED BY <1>1, <1>2, <1>4, <1>6 DEF AssemblyInv

(* A step of construction. *)
LEMMA StageMoves ==
  ASSUME AssemblyInv, UNCHANGED <<vars, design, result>>, stage' \in Stages,
         stage' \in Unbuilt => stage \in Unbuilt,
         stage' \in {"assembled", "validated", "crashed", "returned"} => AlignmentInv'
  PROVE  AssemblyInv'
<1>1. BuildInv'
  BY BuildInvStep DEF AssemblyInv
<1>2. AlignmentInv'
  BY DEF AlignmentInv
<1>3. ResultInv' /\ InputsAccounted'
  BY DEF AssemblyInv, ResultInv, InputsAccounted, Excused, vars
<1> QED BY <1>1, <1>2, <1>3 DEF AssemblyInv

LEMMA AlignmentKept ==
  ASSUME AlignmentInv, UNCHANGED <<vars, design>>,
         stage \in {"assembled", "validated", "crashed", "returned"}
  PROVE  AlignmentInv'
BY DEF AlignmentInv, Aligned, Predecessors, vars

LEMMA ConstructionPreserves ==
  ASSUME AssemblyInv,
         Convert \/ CheckToolAccess \/ BuildGraph \/ GraphRefused \/ Align \/ Preflight
  PROVE  AssemblyInv'
<1>1. CASE Convert \/ CheckToolAccess \/ GraphRefused
  <2>1. UNCHANGED <<vars, design, result>> /\ stage \in Unbuilt
        /\ stage' \in {"converted", "checked", "refused"}
    BY <1>1 DEF Convert, CheckToolAccess, GraphRefused, Move, Unbuilt
  <2> QED BY <2>1, StageMoves DEF Stages
<1>2. CASE BuildGraph
  <2>1. stage = "checked" /\ Next /\ UNCHANGED <<design, stage, result>>
    BY <1>2 DEF BuildGraph, assembly
  <2>2. BuildInv'
    BY <2>1, BuildInvStep DEF AssemblyInv
  <2>3. ids' = ids
    BY <2>1 DEF Next, AddNode, AssignLevel, CheckCycles, LevelsAssigned, Constructed, vars
  <2>4. \A n \in Names : result'[n] = Nothing /\ result[n] = Nothing
    BY <2>1 DEF AssemblyInv, ResultInv, Unbuilt
  <2>5. ids \subseteq Names
    BY DEF AssemblyInv, BuildInv, TypeOK
  <2>6. AlignmentInv' /\ ResultInv' /\ InputsAccounted'
    BY <2>1, <2>3, <2>4, <2>5 DEF AlignmentInv, ResultInv, InputsAccounted, Nothing
  <2> QED BY <2>1, <2>2, <2>6 DEF AssemblyInv
<1>3. CASE Align
  <2>1. /\ UNCHANGED <<vars, design, result>> /\ phase = "built"
        /\ stage' = IF \A n \in ids : Aligned(n) THEN "assembled" ELSE "refused"
    BY <1>3 DEF Align, Move
  <2>2. \A n : Aligned(n)' = Aligned(n)
    BY <2>1 DEF Aligned, Predecessors, vars
  <2>3. AlignmentInv'
    BY <2>1, <2>2 DEF AlignmentInv, vars
  <2> QED BY <2>1, <2>3, StageMoves DEF Stages, Unbuilt
<1>4. CASE Preflight
  <2>1. UNCHANGED <<vars, design, result>> /\ stage = "assembled" /\ stage' = "validated"
    BY <1>4 DEF Preflight, Move
  <2>2. AlignmentInv'
    BY <2>1, AlignmentKept DEF AssemblyInv
  <2> QED BY <2>1, <2>2, StageMoves DEF Stages, Unbuilt
<1> QED BY <1>1, <1>2, <1>3, <1>4

(* What is left to show of a step of execution. *)
LEMMA ExecutionKeeps ==
  ASSUME AssemblyInv, Executing, UNCHANGED <<vars, design, stage>>,
         result' \in [Names -> [status : Statuses, output : SUBSET Paths, checked : BOOLEAN]],
         ResultInv', InputsAccounted'
  PROVE  AssemblyInv'
<1>1. stage \in {"assembled", "validated"}
  BY DEF Executing
<1>2. BuildInv'
  BY BuildInvStep DEF AssemblyInv
<1>3. AlignmentInv'
  BY <1>1, AlignmentKept DEF AssemblyInv
<1> QED BY <1>2, <1>3 DEF AssemblyInv

(* A mapping reads a node of a lower level. *)
LEMMA MappingsLeadDown ==
  ASSUME AssemblyInv, Executing, NEW n \in ids, NEW m \in design.maps[n]
  PROVE  /\ m[1] \in ids /\ m[1] \in Names /\ m[2] \in Paths
         /\ level[m[1]] < level[n] /\ level[m[1]] \in Nat /\ level[n] \in Nat
         /\ m[2] = <<>> \/ <<m[2][1]>> \in design.schema[m[1]]
<1>1. n \in Names
  BY DEF AssemblyInv, BuildInv, TypeOK
<1>2. m[1] \in Names /\ m[2] \in Paths
  BY <1>1 DEF AssemblyInv, Design, InputMapping
<1>3. /\ phase = "built" /\ m[1] \in Predecessors(n)
      /\ m[2] = <<>> \/ <<m[2][1]>> \in design.schema[m[1]]
  BY DEF Executing, AssemblyInv, AlignmentInv, Aligned
<1>4. m[1] \in ids /\ level[m[1]] < level[n]
  BY <1>3 DEF AssemblyInv, BuildInv, GraphInv, LevelInv, EdgesOf, Predecessors
<1>5. level[m[1]] \in Nat /\ level[n] \in Nat
  BY <1>4 DEF AssemblyInv, BuildInv, TypeOK
<1> QED BY <1>2, <1>3, <1>4, <1>5

(* A node that is executed had all its inputs, and disturbs nobody's. *)
LEMMA RunNodePreserves ==
  ASSUME AssemblyInv, NEW n \in Names, RunNode(n) PROVE AssemblyInv'
<1>1. /\ Executing /\ n \in ids /\ result[n] = Nothing
      /\ \A m \in ids : level[m] < level[n] => result[m].status \notin {"none", "missing"}
      /\ UNCHANGED <<vars, design, stage>>
  BY DEF RunNode, Ready
<1>2. PICK a \in Answers(n) :
        /\ a.status # "skipped" => \A m \in design.maps[n] : Resolvable(m)
        /\ result' = [result EXCEPT ![n] = a]
  BY DEF RunNode
<1>3. /\ a \in [status : {"ok", "failed", "skipped"}, output : SUBSET Paths, checked : BOOLEAN]
      /\ a.status = "ok" =>
           <<>> \in a.output /\ (a.checked => design.schema[n] \subseteq a.output)
  <2>1. {<<>>} \in SUBSET Paths
    BY DEF Paths
  <2> QED BY <2>1 DEF Answers, Outputs
<1>4. result'[n] = a /\ a # Nothing /\ \A m \in Names \ {n} : result'[m] = result[m]
  BY <1>2, <1>3 DEF AssemblyInv, Nothing
<1>5. /\ ids \subseteq Names /\ result[n].status = "none"
      /\ ids' = ids /\ level' = level /\ design' = design
  BY <1>1 DEF AssemblyInv, BuildInv, TypeOK, Nothing, vars
<1>6. result' \in [Names -> [status : Statuses, output : SUBSET Paths, checked : BOOLEAN]]
  BY <1>2, <1>3 DEF AssemblyInv, Statuses
<1>7. ResultInv'
  <2>1. stage \notin Unbuilt
    BY <1>1 DEF Executing, Unbuilt
  <2>2. \A m \in Names : result'[m].status = "none" <=> result'[m] = Nothing
    BY <1>3, <1>4, <1>5 DEF AssemblyInv, ResultInv, Nothing
  <2>3. \A k \in ids : result'[k] # Nothing =>
          \A m \in ids : level[m] < level[k] => result'[m].status \notin {"none", "missing"}
    BY <1>1, <1>3, <1>4, <1>5 DEF AssemblyInv, ResultInv
  <2>4. /\ \A m \in ids : result'[m].status = "dropped" => design.limited
        /\ \A m \in Names : result'[m].status = "ok" => <<>> \in result'[m].output
             /\ (result'[m].checked => design.schema[m] \subseteq result'[m].output)
    BY <1>3, <1>4, <1>5 DEF AssemblyInv, ResultInv
  <2> QED BY <1>1, <1>5, <2>1, <2>2, <2>3, <2>4 DEF ResultInv
<1>8. ASSUME NEW k \in ids, result'[k].status \in {"ok", "failed"}, NEW m \in design.maps[k]
      PROVE  result'[m[1]].status = "ok" /\ m[2] \in result'[m[1]].output
  <2>1. m[1] \in Names
    BY <1>1, MappingsLeadDown
  <2>2. result[m[1]].status = "ok" /\ m[2] \in result[m[1]].output
    <3>1. CASE k = n
      BY <1>2, <1>4, <1>8, <3>1 DEF Resolvable
    <3>2. CASE k # n
      BY <1>4, <1>5, <1>8, <3>2 DEF AssemblyInv, InputsAccounted
    <3> QED BY <3>1, <3>2
  <2> QED BY <1>4, <1>5, <2>1, <2>2
<1>9. ASSUME NEW k \in ids, result'[k].status = "missing"
      PROVE  (\E m \in design.maps[k] : Excused(m))'
  <2>1. k # n /\ result[k].status = "missing"
    BY <1>3, <1>4, <1>5, <1>9
  <2>2. PICK m \in design.maps[k] : Excused(m)
    BY <2>1 DEF AssemblyInv, InputsAccounted
  <2>3. m[1] \in Names /\ m[1] # n
    BY <1>1, <1>5, <2>2, MappingsLeadDown DEF Excused
  <2> QED BY <1>4, <1>5, <2>2, <2>3 DEF Excused
<1>10. InputsAccounted'
  BY <1>5, <1>8, <1>9 DEF InputsAccounted
<1> QED BY <1>1, <1>6, <1>7, <1>10, ExecutionKeeps

(* A path of one key is told by that key. *)
LEMMA ShortPaths ==
  ASSUME NEW p \in Paths, ~ Len(p) > 1
  PROVE  p = <<>> \/ p = <<p[1]>>
BY DEF Paths

(* An input can only be missing if its source ran, and ran ill or in vain. *)
LEMMA InputMissingPreserves ==
  ASSUME AssemblyInv, NEW n \in Names, InputMissing(n) PROVE AssemblyInv'
<1>1. /\ Executing /\ n \in ids /\ result[n] = Nothing
      /\ \A m \in ids : level[m] < level[n] => result[m].status \notin {"none", "missing"}
      /\ result' = [result EXCEPT ![n].status = "missing"]
      /\ UNCHANGED <<vars, design, stage>>
  BY DEF InputMissing, Ready
<1>2. /\ ids \subseteq Names /\ result[n].status = "none"
      /\ ids' = ids /\ level' = level /\ design' = design
  BY <1>1 DEF AssemblyInv, BuildInv, TypeOK, Nothing, vars
<1>3. /\ result'[n].status = "missing"
      /\ \A m \in Names \ {n} : result'[m] = result[m]
      /\ result' \in [Names -> [status : Statuses, output : SUBSET Paths, checked : BOOLEAN]]
  BY <1>1 DEF AssemblyInv, Statuses
<1>4. ResultInv'
  <2>1. stage \notin Unbuilt
    BY <1>1 DEF Executing, Unbuilt
  <2> QED BY <1>1, <1>2, <1>3, <2>1 DEF AssemblyInv, ResultInv, Nothing
<1>5. ASSUME NEW k \in ids, NEW m \in design.maps[k]
      PROVE  m[1] \in Names /\ (result[m[1]].status # "none" => result'[m[1]] = result[m[1]])
  BY <1>1, <1>2, <1>3, MappingsLeadDown
<1>6. PICK m \in design.maps[n] : ~ Resolvable(m)
  BY DEF InputMissing
<1>7. /\ m[1] \in ids /\ m[1] \in Names /\ m[2] \in Paths /\ m[1] # n
      /\ result[m[1]].status \notin {"none", "missing"}
      /\ m[2] = <<>> \/ <<m[2][1]>> \in design.schema[m[1]]
  BY <1>1, MappingsLeadDown
<1>8. Excused(m)
  <2>1. result[m[1]].status \in Statuses
    BY <1>7 DEF AssemblyInv
  <2>2. CASE result[m[1]].status = "ok"
    <3>1. m[2] \notin result[m[1]].output
      BY <1>6, <2>2 DEF Resolvable
    <3>2. ASSUME result[m[1]].checked, ~ Len(m[2]) > 1 PROVE FALSE
      <4>1. m[2] = <<>> \/ m[2] \in design.schema[m[1]]
        BY <1>7, <3>2, ShortPaths
      <4> QED BY <1>7, <2>2, <3>1, <3>2, <4>1 DEF AssemblyInv, ResultInv
    <3> QED BY <2>2, <3>1, <3>2 DEF Excused
  <2>3. CASE result[m[1]].status = "dropped"
    BY <1>7, <2>3 DEF AssemblyInv, ResultInv, Excused
  <2> QED BY <1>7, <2>1, <2>2, <2>3 DEF Statuses, Excused
<1>9. ASSUME NEW k \in ids, result'[k].status = "missing"
      PROVE  (\E x \in design.maps[k] : Excused(x))'
  <2>1. PICK x \in design.maps[k] : Excused(x)
    <3>1. CASE k = n
      BY <1>8, <3>1
    <3>2. CASE k # n
      BY <1>2, <1>3, <1>9, <3>2 DEF AssemblyInv, InputsAccounted
    <3> QED BY <3>1, <3>2
  <2>2. result'[x[1]] = result[x[1]]
    BY <1>5, <2>1 DEF Excused
  <2> QED BY <1>2, <2>1, <2>2 DEF Excused
<1>10. ASSUME NEW k \in ids, result'[k].status \in {"ok", "failed"}, NEW x \in design.maps[k]
       PROVE  result'[x[1]].status = "ok" /\ x[2] \in result'[x[1]].output
  <2>1. k # n
    BY <1>3, <1>10
  <2>2. result[x[1]].status = "ok" /\ x[2] \in result[x[1]].output
    BY <1>2, <1>3, <1>10, <2>1 DEF AssemblyInv, InputsAccounted
  <2> QED BY <1>5, <2>2
<1>11. InputsAccounted'
  BY <1>2, <1>9, <1>10 DEF InputsAccounted
<1> QED BY <1>1, <1>3, <1>4, <1>11, ExecutionKeeps

(* What a limit drops nobody has read yet. *)
LEMMA DropRestPreserves ==
  ASSUME AssemblyInv, NEW n \in ids, DropRest(n) PROVE AssemblyInv'
<1>1. /\ Executing /\ design.limited
      /\ \A m \in ids : result[m] # Nothing => level[m] <= level[n]
      /\ UNCHANGED <<vars, design, stage>>
  BY DEF DropRest, Collecting
<1>2. PICK rest \in SUBSET {m \in ids \ {n} : level[m] = level[n]} :
        result' = [m \in Names |-> IF m \in rest /\ result[m].status # "skipped"
                                  THEN [result[m] EXCEPT !.status = "dropped"] ELSE result[m]]
  BY DEF DropRest
<1> DEFINE lost == {m \in rest : result[m].status # "skipped"}
<1>3. /\ ids \subseteq Names /\ level \in [ids -> Nat]
      /\ ids' = ids /\ level' = level /\ design' = design
  BY <1>1 DEF AssemblyInv, BuildInv, TypeOK, vars
<1>4. /\ \A m \in lost : result'[m].status = "dropped" /\ level[m] = level[n] /\ m \in ids
      /\ \A m \in Names \ lost : result'[m] = result[m]
      /\ result' \in [Names -> [status : Statuses, output : SUBSET Paths, checked : BOOLEAN]]
  BY <1>2, <1>3 DEF AssemblyInv, Statuses
<1>5. \A m \in lost : result[m] # Nothing
  <2> SUFFICES ASSUME NEW m \in lost, result[m] = Nothing PROVE FALSE
    OBVIOUS
  <2>1. result[n] # Nothing
    BY DEF DropRest, TokensSpent, Nothing
  <2>2. level[n] < level[m]
    BY <1>4, <2>1 DEF DropRest, Collecting
  <2>3. level[m] = level[n] /\ level[n] \in Nat
    BY <1>3, <1>4
  <2> QED BY <2>2, <2>3
<1>6. ResultInv'
  <2>1. ASSUME NEW m \in Names PROVE result'[m] # Nothing <=> result[m] # Nothing
    <3>1. CASE m \in lost
      <4>1. result[m] # Nothing /\ result'[m].status = "dropped"
        BY <1>4, <1>5, <3>1
      <4> QED BY <4>1 DEF Nothing
    <3>2. CASE m \notin lost
      BY <1>4, <3>2
    <3> QED BY <3>1, <3>2
  <2>2. \A m \in Names : result'[m].status = "none" <=> result'[m] = Nothing
    BY <1>4, <2>1 DEF AssemblyInv, ResultInv, Nothing
  <2>3. \A k, m \in ids : result'[k] # Nothing /\ level[m] < level[k] =>
                         result'[m].status \notin {"none", "missing"}
    BY <1>3, <1>4, <2>1 DEF AssemblyInv, ResultInv
  <2>4. \A m \in Names : result'[m].status = "ok" => result'[m] = result[m]
    BY <1>4
  <2>5. stage \notin Unbuilt
    BY <1>1 DEF Executing, Unbuilt
  <2> QED BY <1>1, <1>3, <2>2, <2>3, <2>4, <2>5 DEF AssemblyInv, ResultInv
<1>7. ASSUME NEW k \in ids, result[k] # Nothing, NEW m \in design.maps[k]
      PROVE  result'[m[1]] = result[m[1]]
  <2>1. level[k] <= level[n] /\ level[k] \in Nat /\ level[n] \in Nat
    BY <1>1, <1>3, <1>7
  <2>2. m[1] \in Names /\ level[m[1]] < level[k] /\ level[m[1]] \in Nat
    BY <1>1, MappingsLeadDown
  <2> QED BY <1>4, <2>1, <2>2
<1>8. ASSUME NEW k \in ids, result'[k].status \in {"ok", "failed", "missing"}
      PROVE  result'[k] = result[k] /\ result[k] # Nothing
  BY <1>3, <1>4, <1>8 DEF Nothing
<1>9. ASSUME NEW k \in ids, result'[k].status \in {"ok", "failed"}, NEW m \in design.maps[k]
      PROVE  result'[m[1]].status = "ok" /\ m[2] \in result'[m[1]].output
  BY <1>7, <1>8, <1>9 DEF AssemblyInv, InputsAccounted
<1>10. ASSUME NEW k \in ids, result'[k].status = "missing"
       PROVE  (\E m \in design.maps[k] : Excused(m))'
  <2>1. PICK m \in design.maps[k] : Excused(m)
    BY <1>8, <1>10 DEF AssemblyInv, InputsAccounted
  <2>2. result'[m[1]] = result[m[1]]
    BY <1>7, <1>8, <1>10
  <2> QED BY <1>3, <2>1, <2>2 DEF Excused
<1>11. InputsAccounted'
  BY <1>3, <1>9, <1>10 DEF InputsAccounted
<1> QED BY <1>1, <1>4, <1>6, <1>11, ExecutionKeeps

LEMMA AssemblyInvStep == AssemblyInv /\ [AssemblyNext]_every => AssemblyInv'
<1> SUFFICES ASSUME AssemblyInv, [AssemblyNext]_every PROVE AssemblyInv'
  OBVIOUS
<1>1. CASE UNCHANGED every
  <2>1. UNCHANGED <<vars, design, stage, result>>
    BY <1>1 DEF every, assembly
  <2>2. BuildInv' /\ AlignmentInv'
    BY <2>1, BuildInvStep DEF AssemblyInv, AlignmentInv, Aligned, Predecessors, vars
  <2>3. ResultInv'
    BY <2>1 DEF AssemblyInv, ResultInv, vars
  <2>4. InputsAccounted'
    BY <2>1 DEF AssemblyInv, InputsAccounted, Excused, vars
  <2> QED BY <2>1, <2>2, <2>3, <2>4 DEF AssemblyInv
<1>2. CASE Convert \/ CheckToolAccess \/ BuildGraph \/ GraphRefused \/ Align \/ Preflight
  BY <1>2, ConstructionPreserves
<1>3. ASSUME NEW n \in Names, RunNode(n) \/ InputMissing(n) PROVE AssemblyInv'
  BY <1>3, RunNodePreserves, InputMissingPreserves
<1>4. ASSUME NEW n \in ids, DropRest(n) PROVE AssemblyInv'
  BY <1>4, DropRestPreserves
<1>5. CASE Crash \/ Return
  <2>1. /\ stage \in {"assembled", "validated"} /\ stage' \in {"crashed", "returned"}
        /\ UNCHANGED <<vars, design, result>>
    BY <1>5 DEF Crash, Return, Collecting, Executing
  <2>2. AlignmentInv'
    BY <2>1, AlignmentKept DEF AssemblyInv
  <2> QED BY <2>1, <2>2, StageMoves DEF Stages, Unbuilt
<1>6. CASE Settled
  BY <1>1, <1>6 DEF Settled
<1> QED BY <1>1, <1>2, <1>3, <1>4, <1>5, <1>6 DEF AssemblyNext

THEOREM AssemblySafe == AssemblySpec => []AssemblyInv
BY AssemblyInvInit, AssemblyInvStep, PTL DEF AssemblySpec

(* Whichever way a description comes in: what is built has levels that     *)
(* respect the dependencies, and is refused for the right reason.          *)
THEOREM AssembledLevelsRespectDeps == AssemblySpec => [](LevelsRespectDeps /\ VerdictIsRight)
<1>1. BuildInv => LevelsRespectDeps /\ VerdictIsRight
  BY DEF BuildInv, GraphInv, LevelInv, LevelsRespectDeps, VerdictIsRight
<1> QED BY <1>1, AssemblySafe, PTL DEF AssemblyInv

(* No node is executed without its mapped inputs, and a missing one is     *)
(* never the fault of the order or of a key that was compared.             *)
THEOREM InputsAreAccounted == AssemblySpec => []InputsAccounted
<1>1. AssemblyInv => InputsAccounted
  BY DEF AssemblyInv
<1> QED BY <1>1, AssemblySafe, PTL
=============================================================================
