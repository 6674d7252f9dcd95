-------------------------- MODULE SharedStateProofs --------------------------
(***************************************************************************)
(* Proofs about what several runs share: SharedManager and SkillRegistry,  *)
(* for any runs, sessions, tools, skills and limit of the map, and the     *)
(* agents of ChainReuse, for any executions of any graph.                  *)
(***************************************************************************)
EXTENDS SharedManager, ChainReuse, SequenceTheorems, WellFoundedInduction, TLAPS

-----------------------------------------------------------------------------
(* The map of sessions *)

OnePerSession(s) == \A i, j \in DOMAIN s : s[i].session = s[j].session => i = j

(* Removing an entry closes the gap. *)
LEMMA Removal ==
  ASSUME NEW S, NEW s \in Seq(S), NEW i \in 1 .. Len(s)
  PROVE  /\ RemoveAt(s, i) \in Seq(S) /\ Len(RemoveAt(s, i)) = Len(s) - 1
         /\ \A j \in 1 .. Len(s) - 1 : RemoveAt(s, i)[j] = s[IF j < i THEN j ELSE j + 1]
<1> DEFINE front == SubSeq(s, 1, i - 1)
           back == SubSeq(s, i + 1, Len(s))
<1>1. Len(s) \in Nat /\ i \in Int /\ 1 <= i /\ i <= Len(s) /\ \A j \in 1 .. Len(s) : s[j] \in S
  OBVIOUS
<1>2. /\ front \in Seq(S) /\ Len(front) = i - 1 /\ \A j \in 1 .. i - 1 : front[j] = s[j]
  <2>1. \A j \in 1 .. i - 1 : s[j] \in S
    BY <1>1
  <2>2. /\ front \in Seq(S) /\ Len(front) = IF 1 <= i - 1 THEN i - 1 - 1 + 1 ELSE 0
        /\ \A j \in 1 .. i - 1 - 1 + 1 : front[j] = s[1 + j - 1]
    BY <1>1, <2>1, SubSeqProperties
  <2> HIDE DEF front
  <2> QED BY <1>1, <2>2
<1>3. /\ back \in Seq(S) /\ Len(back) = Len(s) - i
      /\ \A j \in 1 .. Len(s) - i : back[j] = s[i + j]
  <2>1. \A j \in i + 1 .. Len(s) : s[j] \in S
    BY <1>1
  <2>2. /\ back \in Seq(S) /\ Len(back) = IF i + 1 <= Len(s) THEN Len(s) - (i + 1) + 1 ELSE 0
        /\ \A j \in 1 .. Len(s) - (i + 1) + 1 : back[j] = s[i + 1 + j - 1]
    BY <1>1, <2>1, SubSeqProperties
  <2> HIDE DEF back
  <2> QED BY <1>1, <2>2
<1>4. RemoveAt(s, i) = front \o back
  BY DEF RemoveAt
<1> HIDE DEF front, back
<1>5. /\ front \o back \in Seq(S) /\ Len(front \o back) = Len(front) + Len(back)
      /\ \A j \in 1 .. Len(front) + Len(back) :
            (front \o back)[j] = IF j <= Len(front) THEN front[j] ELSE back[j - Len(front)]
  BY <1>2, <1>3, ConcatProperties
<1>6. ASSUME NEW j \in 1 .. Len(s) - 1
      PROVE  RemoveAt(s, i)[j] = s[IF j < i THEN j ELSE j + 1]
  <2>1. CASE j < i
    BY <1>1, <1>2, <1>3, <1>4, <1>5, <2>1
  <2>2. CASE j >= i
    <3>1. (front \o back)[j] = back[j - (i - 1)]
      BY <1>1, <1>2, <1>3, <1>5, <2>2
    <3>2. j - (i - 1) \in 1 .. Len(s) - i /\ i + (j - (i - 1)) = j + 1
      BY <1>1, <2>2
    <3>3. back[j - (i - 1)] = s[i + (j - (i - 1))]
      BY <1>3, <3>2
    <3> QED BY <1>1, <1>4, <2>2, <3>1, <3>2, <3>3
  <2> QED BY <1>1, <2>1, <2>2
<1> QED BY <1>1, <1>2, <1>3, <1>4, <1>5, <1>6

(* Popping the entry of a session leaves one of no other session twice.    *)
LEMMA WithoutSession ==
  ASSUME contexts \in Seq(Context), OnePerSession(contexts), NEW s
  PROVE  /\ Without(s) \in Seq(Context) /\ Len(Without(s)) <= Len(contexts)
         /\ OnePerSession(Without(s))
         /\ \A i \in DOMAIN Without(s) : Without(s)[i].session # s
<1> DEFINE of == {i \in DOMAIN contexts : contexts[i].session = s}
<1>1. CASE of = {}
  BY <1>1 DEF Without
<1>2. CASE of # {}
  <2>1. PICK i \in of : Without(s) = RemoveAt(contexts, i)
    BY <1>2 DEF Without
  <2>2. i \in 1 .. Len(contexts) /\ contexts[i].session = s
    OBVIOUS
  <2>3. /\ Without(s) \in Seq(Context) /\ Len(Without(s)) = Len(contexts) - 1
        /\ \A j \in 1 .. Len(contexts) - 1 : Without(s)[j] = contexts[IF j < i THEN j ELSE j + 1]
    BY <2>1, <2>2, Removal
  <2>4. ASSUME NEW j \in DOMAIN Without(s)
        PROVE  /\ j \in 1 .. Len(contexts) - 1
               /\ (IF j < i THEN j ELSE j + 1) \in DOMAIN contexts \ {i}
    BY <2>2, <2>3
  <2>5. \A j \in DOMAIN Without(s) : Without(s)[j].session # s
    BY <2>2, <2>3, <2>4 DEF OnePerSession
  <2>6. ASSUME NEW j \in DOMAIN Without(s), NEW k \in DOMAIN Without(s),
               Without(s)[j].session = Without(s)[k].session
        PROVE  j = k
    <3>1. (IF j < i THEN j ELSE j + 1) = (IF k < i THEN k ELSE k + 1)
      BY <2>3, <2>4, <2>6 DEF OnePerSession
    <3> QED BY <2>2, <2>3, <3>1
  <2> QED BY <2>3, <2>5, <2>6 DEF OnePerSession
<1> QED BY <1>1, <1>2

LEMMA MaxOfTwo ==
  ASSUME NEW x \in Int PROVE Max({1, x}) = IF x > 1 THEN x ELSE 1
BY DEF Max

(* What _register_context makes of the map. *)
MapInv ==
  /\ contexts \in Seq(Context) /\ current \in Context \cup {NoContext}
  /\ Len(contexts) <= MaxSessions
  /\ OnePerSession(contexts)
  /\ current = IF contexts = <<>> THEN NoContext ELSE contexts[Len(contexts)]

LEMMA RegisteredLast ==
  ASSUME MapInv, NEW c \in Context, SetContext(c)
  PROVE  MapInv'
<1> DEFINE w == Without(c.session)
           full == Append(w, c)
           from == Max({1, Len(full) - MaxSessions + 1})
<1>1. w \in Seq(Context) /\ OnePerSession(w) /\ \A i \in DOMAIN w : w[i].session # c.session
  BY WithoutSession DEF MapInv
<1>2. contexts' = SubSeq(full, from, Len(full)) /\ current' = c
  BY DEF SetContext, Registered
<1> HIDE DEF w
<1>3. /\ full \in Seq(Context) /\ Len(full) = Len(w) + 1 /\ Len(full) \in Nat
      /\ full[Len(full)] = c /\ \A i \in 1 .. Len(w) : full[i] = w[i]
  BY <1>1
<1>4. OnePerSession(full)
  BY <1>1, <1>3 DEF OnePerSession
<1> HIDE DEF full
<1>5. /\ from \in 1 .. Len(full) /\ Len(full) - from + 1 <= MaxSessions
  <2>1. Len(full) - MaxSessions + 1 \in Int /\ Len(full) >= 1 /\ MaxSessions >= 1
    BY <1>1, <1>3, ManagerAssumption
  <2>2. from = IF Len(full) - MaxSessions + 1 > 1 THEN Len(full) - MaxSessions + 1 ELSE 1
    BY <2>1, MaxOfTwo
  <2> HIDE DEF from
  <2> QED BY <1>3, <2>1, <2>2, ManagerAssumption
<1> HIDE DEF from
<1>6. /\ contexts' \in Seq(Context) /\ Len(contexts') = Len(full) - from + 1
      /\ \A i \in 1 .. Len(full) - from + 1 : contexts'[i] = full[from + i - 1]
  BY <1>2, <1>3, <1>5
<1>7. Len(contexts') <= MaxSessions /\ contexts' # <<>> /\ contexts'[Len(contexts')] = c
  <2>1. Len(full) - from + 1 \in 1 .. Len(full) /\ from + (Len(full) - from + 1) - 1 = Len(full)
    BY <1>3, <1>5
  <2>2. contexts'[Len(full) - from + 1] = full[Len(full)]
    BY <1>6, <2>1
  <2>3. contexts' # <<>>
    BY <1>6, <2>1
  <2> QED BY <1>3, <1>5, <1>6, <2>2, <2>3
<1>8. OnePerSession(contexts')
  <2> SUFFICES ASSUME NEW i \in DOMAIN contexts', NEW j \in DOMAIN contexts',
                      contexts'[i].session = contexts'[j].session
               PROVE  i = j
    BY DEF OnePerSession
  <2>1. /\ i \in 1 .. Len(full) - from + 1 /\ j \in 1 .. Len(full) - from + 1
    BY <1>6
  <2>2. from + i - 1 \in DOMAIN full /\ from + j - 1 \in DOMAIN full
    BY <1>3, <1>5, <2>1
  <2>3. from + i - 1 = from + j - 1
    BY <1>4, <1>6, <2>1, <2>2 DEF OnePerSession
  <2> QED BY <1>5, <2>1, <2>3
<1> QED BY <1>2, <1>6, <1>7, <1>8 DEF MapInv

(* A tool that is new to the manager is one that is brought. *)
LEMMA NewToolsAreTools ==
  ASSUME TypeOK, NEW r \in Runs PROVE NewTools(r) \subseteq Tools
BY DEF TypeOK, Plan, NewTools

(* What the steps of a node change: nothing of the manager, and of its own *)
(* run only by what the current context is.                                *)
NodeStep(r) == BeginNode(r) \/ Retry(r) \/ NodeReturns(r) \/ NodeRaises(r)

LEMMA NodeSteps ==
  ASSUME NEW r \in Runs, NodeStep(r)
  PROVE  /\ UNCHANGED <<plan, contexts, current, tools, disturbed>>
         /\ \E to \in {"awaiting", "waiting", "done", "failed"} : pc' = [pc EXCEPT ![r] = to]
         /\ \/ pc[r] = "built" /\ sees' = [sees EXCEPT ![r] = current.owner]
            \/ pc[r] \in {"awaiting", "waiting"} /\ sees' = sees
         /\ given' \in {given, [given EXCEPT ![r] = @ \cup {current.owner}]}
         /\ \/ stores' = [stores EXCEPT ![r] = @ \cup {current.owner}]
            \/ pc[r] # "built" /\ stores' = stores
<1>1. ASSUME Try(r)
      PROVE  /\ \E to \in {"awaiting", "waiting", "failed"} : pc' = [pc EXCEPT ![r] = to]
             /\ given' \in {given, [given EXCEPT ![r] = @ \cup {current.owner}]}
  BY <1>1 DEF Try, CallTool, TryFails
<1>2. CASE BeginNode(r)
  BY <1>1, <1>2 DEF BeginNode, managerVars
<1>3. CASE Retry(r)
  BY <1>1, <1>3 DEF Retry, managerVars
<1>4. CASE NodeReturns(r)
  BY <1>4 DEF NodeReturns, managerVars
<1>5. CASE NodeRaises(r)
  BY <1>5 DEF NodeRaises, TryFails, managerVars
<1> QED BY <1>2, <1>3, <1>4, <1>5 DEF NodeStep

(* The map keeps one context per session and within its limit, and the     *)
(* current context is never evicted.                                       *)
THEOREM ManagerSafe == Spec => []ManagerInv
<1>1. Init => TypeOK /\ MapInv
  BY ManagerAssumption DEF Init, TypeOK, Stages, MapInv, OnePerSession
<1>2. TypeOK /\ MapInv /\ [Next]_vars => TypeOK' /\ MapInv'
  <2> SUFFICES ASSUME TypeOK, MapInv, [Next]_vars PROVE TypeOK' /\ MapInv'
    OBVIOUS
  <2>1. ASSUME NEW r \in Runs, Construct(r) PROVE TypeOK' /\ MapInv'
    <3>1. UNCHANGED <<plan, sees, given, stores>> /\ tools' \subseteq Tools
      BY <2>1, NewToolsAreTools DEF Construct, TypeOK
    <3>2. pc' \in [Runs -> Stages] /\ disturbed' \subseteq Runs
      BY <2>1 DEF Construct, TypeOK, Live, Stages
    <3>3. MapInv'
      <4>1. CASE UNCHANGED <<contexts, current>>
        BY <4>1 DEF MapInv
      <4>2. CASE SetContext([session |-> plan.session[r], owner |-> r])
        <5>1. [session |-> plan.session[r], owner |-> r] \in Context
          BY DEF TypeOK, Plan, Context
        <5> QED BY <4>2, <5>1, RegisteredLast
      <4> QED BY <2>1, <4>1, <4>2 DEF Construct
    <3> QED BY <3>1, <3>2, <3>3 DEF TypeOK, MapInv
  <2>2. ASSUME NEW r \in Runs, NodeStep(r) PROVE TypeOK' /\ MapInv'
    <3>1. UNCHANGED <<plan, contexts, current, tools, disturbed>>
      BY <2>2, NodeSteps
    <3>2. current.owner \in Runs \cup {None}
      BY DEF TypeOK, Context, NoContext
    <3>3. /\ pc' \in [Runs -> Stages] /\ sees' \in [Runs -> Runs \cup {None}]
          /\ given' \in [Runs -> SUBSET (Runs \cup {None})]
          /\ stores' \in [Runs -> SUBSET (Runs \cup {None})]
      <4>1. /\ pc \in [Runs -> Stages] /\ sees \in [Runs -> Runs \cup {None}]
            /\ given \in [Runs -> SUBSET (Runs \cup {None})]
            /\ stores \in [Runs -> SUBSET (Runs \cup {None})]
        BY DEF TypeOK
      <4>2. pc' \in [Runs -> Stages]
        BY <2>2, <4>1, NodeSteps DEF Stages
      <4> QED BY <2>2, <3>2, <4>1, <4>2, NodeSteps
    <3> QED BY <3>1, <3>3 DEF TypeOK, MapInv
  <2>3. ASSUME NEW s \in Sessions, GetContext(s) PROVE TypeOK' /\ MapInv'
    <3>1. [session |-> s, owner |-> None] \in Context
      BY DEF Context
    <3>2. MapInv'
      BY <2>3, <3>1, RegisteredLast DEF GetContext
    <3>3. disturbed' \subseteq Runs /\ UNCHANGED <<plan, tools, pc, sees, given, stores>>
      BY <2>3 DEF GetContext, TypeOK, Live
    <3> QED BY <3>2, <3>3 DEF TypeOK, MapInv
  <2>4. CASE UNCHANGED <<managerVars, runVars>>
    BY <2>4 DEF managerVars, runVars, TypeOK, MapInv
  <2> QED BY <2>1, <2>2, <2>3, <2>4 DEF Next, NodeStep, vars
<1>3. TypeOK /\ MapInv => ManagerInv
  BY DEF MapInv, ManagerInv, OnePerSession
<1> QED BY <1>1, <1>2, <1>3, PTL DEF Spec

-----------------------------------------------------------------------------
(* Contexts *)

(* While a run that nobody disturbs is under way, the current context is   *)
(* its own.                                                                *)
OwnContext ==
  /\ pc \in [Runs -> Stages]
  /\ sees \in [Runs -> Runs \cup {None}]
  /\ given \in [Runs -> SUBSET (Runs \cup {None})]
  /\ stores \in [Runs -> SUBSET (Runs \cup {None})]
  /\ \A r \in Runs \ disturbed :
       /\ pc[r] \in {"built", "awaiting", "waiting"} => current.owner = r
       /\ pc[r] \in {"new", "raised", "built"} => given[r] = {} /\ stores[r] = {}
  /\ SoleRunKeepsContext

LEMMA ContextsInit == Init => OwnContext
  BY DEF Init, OwnContext, SoleRunKeepsContext, Stages

(* Another context disturbs every run that is under way.                   *)
LEMMA ContextReplaced ==
  ASSUME OwnContext, disturbed' = disturbed \cup Live,
         pc' = pc, sees' = sees, given' = given, stores' = stores
  PROVE  OwnContext'
  BY DEF OwnContext, SoleRunKeepsContext, Live

LEMMA ConstructKeeps ==
  ASSUME OwnContext, NEW r \in Runs, Construct(r)
  PROVE  OwnContext'
<1> USE DEF OwnContext, SoleRunKeepsContext, Stages
<1>0. sees' = sees /\ given' = given /\ stores' = stores /\ pc[r] = "new"
  BY DEF Construct
<1>1. CASE Duplicate(r)
  <2>1. pc' = [pc EXCEPT ![r] = "raised"] /\ current' = current /\ disturbed' = disturbed
    BY <1>1 DEF Construct
  <2> QED BY <1>0, <2>1
<1>2. CASE ~ Duplicate(r)
  <2>1. /\ pc' = [pc EXCEPT ![r] = IF r \in plan.rejected THEN "raised" ELSE "built"]
        /\ current' = [session |-> plan.session[r], owner |-> r]
        /\ disturbed' = disturbed \cup Live
    BY <1>2 DEF Construct, SetContext
  <2>2. current'.owner = r
    BY <2>1
  <2>3. \A o \in Runs \ disturbed' : pc'[o] \in {"built", "awaiting", "waiting"} => o = r
    BY <2>1 DEF Live
  <2>4. pc'[r] \in {"built", "raised"} /\ \A o \in Runs \ {r} : pc'[o] = pc[o]
    BY <2>1
  <2> QED BY <1>0, <2>1, <2>2, <2>3, <2>4
<1> QED BY <1>1, <1>2

LEMMA NodeKeeps ==
  ASSUME OwnContext, NEW r \in Runs, NodeStep(r), current.owner \in Runs \cup {None}
  PROVE  OwnContext'
<1>1. /\ current' = current /\ disturbed' = disturbed
      /\ pc[r] \in {"built", "awaiting", "waiting"}
      /\ \A o \in Runs \ {r} : /\ pc'[o] = pc[o] /\ sees'[o] = sees[o]
                             /\ given'[o] = given[o] /\ stores'[o] = stores[o]
  BY NodeSteps DEF OwnContext, NodeStep, BeginNode, Retry, NodeReturns, NodeRaises
<1>2. /\ pc' \in [Runs -> Stages] /\ pc'[r] \in {"awaiting", "waiting", "done", "failed"}
  BY NodeSteps DEF OwnContext, Stages
<1>3. /\ sees' \in [Runs -> Runs \cup {None}]
      /\ given' \in [Runs -> SUBSET (Runs \cup {None})]
      /\ stores' \in [Runs -> SUBSET (Runs \cup {None})]
  BY NodeSteps DEF OwnContext
<1>4. r \notin disturbed => sees'[r] = r /\ given'[r] \subseteq {r} /\ stores'[r] = {r}
  BY <1>1, NodeSteps DEF OwnContext, SoleRunKeepsContext
<1> QED BY <1>1, <1>2, <1>3, <1>4 DEF OwnContext, SoleRunKeepsContext

(* The owner of the current context is a run, or nobody.                   *)
Owned == current.owner \in Runs \cup {None}

(* A run during which nobody else made a context current starts and tries  *)
(* its node with its own context and stores under its own execution id.    *)
THEOREM SoleRunsKeepContext == Spec => []SoleRunKeepsContext
<1>1. Init => OwnContext /\ Owned
  BY ContextsInit DEF Init, NoContext, Owned
<1>2. OwnContext /\ Owned /\ [Next]_vars => OwnContext' /\ Owned'
  <2> SUFFICES ASSUME OwnContext, Owned, [Next]_vars PROVE OwnContext' /\ Owned'
    OBVIOUS
  <2>1. ASSUME NEW r \in Runs, Construct(r) PROVE OwnContext' /\ Owned'
    <3>1. current' = current \/ current' = [session |-> plan.session[r], owner |-> r]
      BY <2>1 DEF Construct, SetContext
    <3> QED BY <2>1, <3>1, ConstructKeeps DEF Owned
  <2>2. ASSUME NEW r \in Runs, NodeStep(r) PROVE OwnContext' /\ Owned'
    <3>1. current' = current
      BY <2>2, NodeSteps
    <3> QED BY <2>2, <3>1, NodeKeeps DEF Owned
  <2>3. ASSUME NEW s \in Sessions, GetContext(s) PROVE OwnContext' /\ Owned'
    <3>1. current' = [session |-> s, owner |-> None]
      BY <2>3 DEF GetContext, SetContext
    <3>2. disturbed' = disturbed \cup Live /\ pc' = pc /\ sees' = sees /\ given' = given /\ stores' = stores
      BY <2>3 DEF GetContext
    <3> QED BY <3>1, <3>2, ContextReplaced DEF Owned
  <2>4. CASE UNCHANGED <<managerVars, runVars>>
    BY <2>4 DEF managerVars, runVars, OwnContext, SoleRunKeepsContext, Owned
  <2> QED BY <2>1, <2>2, <2>3, <2>4 DEF Next, NodeStep, vars
<1> QED BY <1>1, <1>2, PTL DEF Spec, OwnContext

-----------------------------------------------------------------------------
(* Registries *)

(* A draft's skills are in the first table, from which nothing is removed. *)
RegistryInv ==
  /\ RegistriesAgree
  /\ \A d \in drafts : \A n \in DOMAIN d : n \in DOMAIN skills

(* Entries under names that are not taken leave what both tables say of    *)
(* the others, and say the same in both.                                   *)
LEMMA RegistersKeeps ==
  ASSUME RegistryInv, NEW entries, Registers(entries), drafts' = drafts,
         \A e \in entries : e.name \notin DOMAIN skills
  PROVE  RegistryInv'
<1> DEFINE added == [n \in {e.name : e \in entries} |-> (CHOOSE e \in entries : e.name = n).class]
<1>1. skills' = Updated(skills, added) /\ toolClasses' = Updated(toolClasses, added)
  BY DEF Registers
<1>2. \A n \in DOMAIN added : n \notin DOMAIN skills
  OBVIOUS
<1> HIDE DEF added
<1>3. \A n \in DOMAIN skills' : n \in DOMAIN toolClasses' /\ toolClasses'[n] = skills'[n]
  BY <1>1 DEF Updated, RegistryInv, RegistriesAgree
<1>4. ASSUME NEW d \in drafts, NEW n \in DOMAIN d
      PROVE  n \in DOMAIN skills' /\ n \in DOMAIN toolClasses' /\ toolClasses'[n] = d[n]
  <2>1. n \in DOMAIN skills /\ n \notin DOMAIN added
    BY <1>2 DEF RegistryInv
  <2>2. n \in DOMAIN toolClasses /\ toolClasses[n] = d[n]
    BY DEF RegistryInv, RegistriesAgree
  <2> QED BY <1>1, <2>1, <2>2 DEF Updated
<1> QED BY <1>3, <1>4 DEF RegistryInv, RegistriesAgree

LEMMA ImportKeeps ==
  ASSUME RegistryInv, ImportSystem
  PROVE  RegistryInv'
<1>1. \A e \in Importable : e.name \notin DOMAIN skills
  <2> SUFFICES ASSUME NEW k \in DOMAIN SystemSkills,
                      \A j \in 1 .. k : SystemSkills[j].name \notin DOMAIN skills
               PROVE  SystemSkills[k].name \notin DOMAIN skills
    BY DEF Importable
  <2>1. k \in 1 .. k
    BY RegistryAssumption
  <2> QED BY <2>1
<1> QED BY <1>1, RegistersKeeps DEF ImportSystem

(* Classes that workflows bring are added under names that are not taken.  *)
LEMMA ClassesKeep ==
  ASSUME RegistryInv, NEW cs, toolClasses' = WithClasses(cs),
         skills' = skills, drafts' = drafts
  PROVE  RegistryInv'
<1>1. \A n \in DOMAIN toolClasses : n \in DOMAIN toolClasses' /\ toolClasses'[n] = toolClasses[n]
  BY DEF WithClasses, Updated
<1> QED BY <1>1 DEF RegistryInv, RegistriesAgree

LEMMA DraftKeeps ==
  ASSUME RegistryInv, NEW d \in Drafts, SaveDraft(d)
  PROVE  RegistryInv'
  BY DEF SaveDraft, RegistryInv, RegistriesAgree

(* A skill is the same class in both tables, and the skills of a saved     *)
(* draft are run as the classes that were validated.                       *)
THEOREM RegistriesStayAgreed == Spec => []RegistriesAgree
<1>1. Init => RegistryInv
  BY DEF Init, RegistryInit, NoEntries, RegistryInv, RegistriesAgree
<1>2. RegistryInv /\ [Next]_vars => RegistryInv'
  <2> SUFFICES ASSUME RegistryInv, [Next]_vars PROVE RegistryInv'
    OBVIOUS
  <2>1. CASE UNCHANGED registryVars
    BY <2>1 DEF registryVars, RegistryInv, RegistriesAgree
  <2>2. ASSUME NEW r \in Runs, Construct(r) PROVE RegistryInv'
    BY <2>2, ClassesKeep DEF Construct
  <2>3. ASSUME NEW r \in Runs, NodeStep(r) PROVE RegistryInv'
    <3>1. UNCHANGED registryVars \/ ImportSystem
      BY <2>3 DEF NodeStep, BeginNode, Retry, NodeReturns, NodeRaises, Try, CallTool, Resolve
    <3> QED BY <2>1, <3>1, ImportKeeps
  <2>4. ASSUME NEW e \in Offers, RegisterSkill(e) PROVE RegistryInv'
    <3>1. \A x \in {e} : x.name \notin DOMAIN skills
      BY <2>4 DEF RegisterSkill
    <3> QED BY <2>4, <3>1, RegistersKeeps DEF RegisterSkill
  <2>5. ASSUME NEW d \in Drafts, SaveDraft(d) PROVE RegistryInv'
    BY <2>5, DraftKeeps
  <2>6. CASE RegistryNext
    BY <2>4, <2>5, <2>6, ImportKeeps DEF RegistryNext
  <2>7. CASE \E s \in Sessions : GetContext(s)
    BY <2>1, <2>7 DEF GetContext
  <2> QED BY <2>1, <2>2, <2>3, <2>6, <2>7 DEF Next, NodeStep, vars
<1> QED BY <1>1, <1>2, PTL DEF Spec, RegistryInv

-----------------------------------------------------------------------------
(* Gating *)

LEMMA LeastExists ==
  ASSUME NEW T \in SUBSET Nat, T # {}
  PROVE  \E x \in T : \A y \in T : x <= y
<1> DEFINE Less == {e \in Nat \X Nat : e[1] < e[2]}
<1>1. Less = OpToRel(<, Nat)
  BY Zenon DEF Less, OpToRel
<1>2. IsWellFoundedOn(Less, Nat)
  BY NatLessThanWellFounded, <1>1, Zenon
<1>3. PICK x \in T : \A y \in T : ~ (<<y, x>> \in Less)
  BY <1>2, WFMin
<1>4. ASSUME NEW y \in T, y < x PROVE FALSE
  <2>1. <<y, x>> \in Less
    BY <1>4 DEF Less
  <2> QED BY <1>3, <2>1
<1> QED BY <1>4

(* Induction, on a set of numbers. *)
LEMMA Induction ==
  ASSUME NEW S \in SUBSET Nat, 0 \in S, \A k \in S : k + 1 \in S
  PROVE  S = Nat
<1> SUFFICES ASSUME Nat \ S # {} PROVE FALSE
  OBVIOUS
<1>1. PICK x \in Nat \ S : \A y \in Nat \ S : x <= y
  BY LeastExists
<1>2. x - 1 \in Nat
  BY <1>1
<1>3. x - 1 \in S
  BY <1>1, <1>2
<1>4. (x - 1) + 1 = x
  BY <1>1
<1> QED BY <1>1, <1>3, <1>4

(* One dependency after the other, as Found visits them. *)
Visited(walk, m, known, v, d) ==
  IF d = 0 THEN [answer |-> "active", known |-> known]
  ELSE LET found == v[d - 1]
       IN  IF d \in graph.deps[m] /\ found.answer = "active"
           THEN walk[d][found.known] ELSE found

IsVisit(walk, m, known, v) == v = [d \in 0 .. N |-> Visited(walk, m, known, v, d)]

LEMMA VisitExists ==
  ASSUME NEW walk, NEW m, NEW known
  PROVE  \E v : IsVisit(walk, m, known, v)
<1> DEFINE Upto(k, v) == v = [d \in 0 .. k |-> Visited(walk, m, known, v, d)]
           S == {k \in Nat : \E v : Upto(k, v)}
<1>1. 0 \in S
  <2> DEFINE v == [d \in 0 .. 0 |-> [answer |-> "active", known |-> known]]
  <2>1. \A d \in 0 .. 0 : v[d] = Visited(walk, m, known, v, d)
    BY DEF Visited
  <2> QED BY <2>1
<1>2. ASSUME NEW k \in S PROVE k + 1 \in S
  <2>1. PICK v : Upto(k, v)
    BY <1>2
  <2> DEFINE w == [d \in 0 .. k + 1 |-> IF d <= k THEN v[d] ELSE Visited(walk, m, known, v, d)]
  <2>2. k \in Nat
    BY <1>2
  <2>3. ASSUME NEW d \in 0 .. k + 1 PROVE w[d] = Visited(walk, m, known, w, d)
    <3>1. w[d] = Visited(walk, m, known, v, d)
      BY <2>1, <2>2
    <3>2. d # 0 => d - 1 \in 0 .. k + 1 /\ d - 1 <= k
      BY <2>2
    <3>3. d # 0 => w[d - 1] = v[d - 1]
      BY <3>2
    <3> QED BY <3>1, <3>3 DEF Visited
  <2> HIDE DEF w
  <2>4. w = [d \in 0 .. k + 1 |-> Visited(walk, m, known, w, d)]
    BY <2>3 DEF w
  <2> QED BY <2>2, <2>4
<1> HIDE DEF S
<1>3. S = Nat
  BY <1>1, <1>2, Induction DEF S
<1> QED BY <1>3, GatingAssumption DEF S, IsVisit

LEMMA VisitsAgree ==
  ASSUME NEW walk, NEW other, NEW m, NEW known, NEW v, NEW w,
         \A d \in graph.deps[m] : walk[d] = other[d],
         IsVisit(walk, m, known, v), IsVisit(other, m, known, w)
  PROVE  v[N] = w[N]
<1> DEFINE S == {k \in Nat : k <= N => v[k] = w[k]}
<1>1. 0 \in S
  BY GatingAssumption DEF IsVisit, Visited
<1>2. ASSUME NEW k \in S PROVE k + 1 \in S
  <2> SUFFICES ASSUME k + 1 <= N PROVE v[k + 1] = w[k + 1]
    OBVIOUS
  <2>1. k \in Nat /\ k + 1 \in 0 .. N /\ k + 1 # 0 /\ (k + 1) - 1 = k /\ v[k] = w[k]
    BY GatingAssumption
  <2>2. v[k + 1] = Visited(walk, m, known, v, k + 1) /\ w[k + 1] = Visited(other, m, known, w, k + 1)
    BY <2>1 DEF IsVisit
  <2> QED BY <2>1, <2>2 DEF Visited
<1> HIDE DEF S
<1>3. S = Nat
  BY <1>1, <1>2, Induction DEF S
<1> QED BY <1>3, GatingAssumption DEF S

LEMMA FoundBy ==
  ASSUME NEW walk, NEW m, NEW known
  PROVE  \E v : /\ IsVisit(walk, m, known, v)
                /\ Found(walk, m, known) =
                     IF Gated(m) THEN [answer |-> "gated", known |-> known]
                     ELSE IF known[m] # "unknown" THEN [answer |-> known[m], known |-> known]
                     ELSE [v[N] EXCEPT !.known[m] = v[N].answer]
<1> DEFINE v == CHOOSE x : IsVisit(walk, m, known, x)
<1>1. IsVisit(walk, m, known, v)
  BY VisitExists
<1>2. Found(walk, m, known) =
        IF Gated(m) THEN [answer |-> "gated", known |-> known]
        ELSE IF known[m] # "unknown" THEN [answer |-> known[m], known |-> known]
        ELSE [v[N] EXCEPT !.known[m] = v[N].answer]
  BY Zenon DEF Found, IsVisit, Visited
<1> QED BY <1>1, <1>2

LEMMA FoundAgrees ==
  ASSUME NEW walk, NEW other, NEW m, NEW known, \A d \in graph.deps[m] : walk[d] = other[d]
  PROVE  Found(walk, m, known) = Found(other, m, known)
BY FoundBy, VisitsAgree

(* The recursion goes up the graph, so there is a function that does it.   *)
LEMMA WalkGoesUp ==
  ASSUME graph \in Graphs
  PROVE  \A m \in Nodes : Walk[m] = [known \in [Nodes -> Answers] |-> Found(Walk, m, known)]
<1> DEFINE From(walk, m) == [known \in [Nodes -> Answers] |-> Found(walk, m, known)]
<1>0. \A n \in Nodes : graph.deps[n] \subseteq Nodes
  BY GatingAssumption DEF Graph
<1>1. PICK level \in [Nodes -> 1 .. N] : \A n \in Nodes : \A d \in graph.deps[n] : level[d] < level[n]
  BY GatingAssumption DEF Acyclic
<1> DEFINE S == {k \in Nat : \E walk : \A m \in Nodes : level[m] <= k => walk[m] = From(walk, m)}
<1>2. 0 \in S
  <2>1. \A m \in Nodes : ~ (level[m] <= 0)
    BY <1>1
  <2> HIDE DEF From
  <2> QED BY <2>1
<1>3. ASSUME NEW k \in S PROVE k + 1 \in S
  <2>1. PICK walk : \A m \in Nodes : level[m] <= k => walk[m] = From(walk, m)
    BY <1>3
  <2> DEFINE next == [m \in Nodes |-> IF level[m] <= k THEN walk[m] ELSE From(walk, m)]
  <2>2. k \in Nat
    BY <1>3
  <2>3. ASSUME NEW m \in Nodes, level[m] <= k + 1 PROVE next[m] = From(next, m)
    <3>1. \A d \in graph.deps[m] : walk[d] = next[d]
      <4> SUFFICES ASSUME NEW d \in graph.deps[m] PROVE walk[d] = next[d]
        OBVIOUS
      <4>1. d \in Nodes /\ level[d] < level[m] /\ level[d] \in Int /\ level[m] \in Int
        BY <1>1, <1>0
      <4>2. level[d] <= k
        BY <2>2, <2>3, <4>1
      <4> HIDE DEF From
      <4> QED BY <4>1, <4>2
    <3>2. From(walk, m) = From(next, m)
      <4> HIDE DEF next
      <4> QED BY <3>1, FoundAgrees
    <3> HIDE DEF From
    <3> QED BY <2>1, <2>3, <3>2
  <2> HIDE DEF next, From
  <2> QED BY <2>2, <2>3
<1> HIDE DEF S
<1>4. S = Nat
  BY <1>2, <1>3, Induction DEF S
<1>5. PICK walk : \A m \in Nodes : walk[m] = From(walk, m)
  <2>1. N \in S /\ \A m \in Nodes : level[m] <= N
    BY <1>1, <1>4, GatingAssumption
  <2> HIDE DEF From
  <2> QED BY <2>1 DEF S
<1> DEFINE full == [m \in Nodes |-> walk[m]]
<1>6. full = [m \in Nodes |-> From(full, m)]
  <2>1. ASSUME NEW m \in Nodes PROVE full[m] = From(full, m)
    <3>1. \A d \in graph.deps[m] : walk[d] = full[d]
      BY <1>0
    <3> HIDE DEF full
    <3>2. From(walk, m) = From(full, m)
      BY <3>1, FoundAgrees
    <3> HIDE DEF From
    <3> QED BY <1>5, <3>2 DEF full
  <2> HIDE DEF From
  <2> QED BY <2>1
<1> HIDE DEF full
<1>7. Walk = CHOOSE w : w = [m \in Nodes |-> From(w, m)]
  BY Zenon DEF Walk
<1>8. Walk = [m \in Nodes |-> From(Walk, m)]
  BY <1>6, <1>7
<1> HIDE DEF From
<1>9. \A m \in Nodes : Walk[m] = From(Walk, m)
  BY <1>8
<1> QED BY <1>9 DEF From

(* A node is active if no decision excludes it and all it depends on are.  *)
LEMMA ActiveByDeps ==
  ASSUME graph \in Graphs, NEW n \in Nodes
  PROVE  Active(n) <=> ~ Gated(n) /\ \A d \in graph.deps[n] : Active(d)
<1>0. \A m \in Nodes : graph.deps[m] \subseteq Nodes
  BY GatingAssumption DEF Graph
<1>1. \A m \in Nodes : graph.deps[m] \subseteq Ancestors(m)
  BY <1>0 DEF Ancestors
<1>2. \A m \in Nodes : \A a \in Ancestors(m) : graph.deps[a] \subseteq Ancestors(m)
  BY <1>0 DEF Ancestors
<1>3. \A d \in graph.deps[n] : Ancestors(d) \subseteq Ancestors(n)
  <2> SUFFICES ASSUME NEW d \in graph.deps[n], NEW a \in Ancestors(d) PROVE a \in Ancestors(n)
    OBVIOUS
  <2>1. graph.deps[d] \subseteq Ancestors(n) /\ Ancestors(n) \in SUBSET Nodes
    BY <1>1, <1>2 DEF Ancestors
  <2> QED BY <1>2, <2>1 DEF Ancestors
<1>4. Ancestors(n) \subseteq graph.deps[n] \cup UNION {Ancestors(d) : d \in graph.deps[n]}
  <2> DEFINE S == graph.deps[n] \cup UNION {Ancestors(d) : d \in graph.deps[n]}
  <2>1. S \in SUBSET Nodes
    BY <1>0 DEF Ancestors
  <2>2. ASSUME NEW s \in S PROVE graph.deps[s] \subseteq S
    <3>1. CASE s \in graph.deps[n]
      BY <1>0, <1>1, <3>1
    <3>2. ASSUME NEW d \in graph.deps[n], s \in Ancestors(d) PROVE graph.deps[s] \subseteq S
      BY <1>0, <1>2, <3>2
    <3> QED BY <3>1, <3>2
  <2>3. graph.deps[n] \subseteq S
    OBVIOUS
  <2> HIDE DEF S
  <2>4. Ancestors(n) \subseteq S
    BY <2>1, <2>2, <2>3 DEF Ancestors
  <2> QED BY <2>4 DEF S
<1> QED BY <1>1, <1>3, <1>4 DEF Active

(* What is remembered is right, and so is what is found.                   *)
Sound(known) ==
  /\ known \in [Nodes -> Answers]
  /\ \A n \in Nodes : /\ known[n] = "active" => Active(n)
                      /\ known[n] = "gated" => ~ Active(n)

Right(n, found) ==
  /\ found \in [answer : {"active", "gated"}, known : [Nodes -> Answers]]
  /\ found.answer = "active" <=> Active(n)
  /\ Sound(found.known)

LEMMA FoundRight ==
  ASSUME graph \in Graphs, NEW walk, NEW m \in Nodes, NEW known, Sound(known),
         \A d \in graph.deps[m] : \A k : Sound(k) => Right(d, walk[d][k])
  PROVE  Right(m, Found(walk, m, known))
<1>0. graph.deps[m] \subseteq Nodes /\ N \in Nat
  BY GatingAssumption DEF Graph
<1>1. PICK v : /\ IsVisit(walk, m, known, v)
               /\ Found(walk, m, known) =
                    IF Gated(m) THEN [answer |-> "gated", known |-> known]
                    ELSE IF known[m] # "unknown" THEN [answer |-> known[m], known |-> known]
                    ELSE [v[N] EXCEPT !.known[m] = v[N].answer]
  BY FoundBy
<1> DEFINE SoFar(k) ==
             /\ v[k] \in [answer : {"active", "gated"}, known : [Nodes -> Answers]]
             /\ v[k].answer = "active" <=> \A d \in graph.deps[m] : d <= k => Active(d)
             /\ Sound(v[k].known)
           S == {k \in Nat : k <= N => SoFar(k)}
<1>2. 0 \in S
  <2>1. v[0] = [answer |-> "active", known |-> known]
    BY <1>0, <1>1 DEF IsVisit, Visited
  <2>2. \A d \in graph.deps[m] : ~ (d <= 0)
    BY <1>0 DEF Nodes
  <2> QED BY <2>1, <2>2 DEF Sound
<1>3. ASSUME NEW k \in S PROVE k + 1 \in S
  <2> SUFFICES ASSUME k + 1 <= N PROVE SoFar(k + 1)
    BY <1>3
  <2>1. k \in Nat /\ k + 1 \in 0 .. N /\ k + 1 # 0 /\ (k + 1) - 1 = k /\ SoFar(k)
    BY <1>0
  <2>2. v[k + 1] = IF k + 1 \in graph.deps[m] /\ v[k].answer = "active"
                   THEN walk[k + 1][v[k].known] ELSE v[k]
    BY <1>1, <2>1 DEF IsVisit, Visited
  <2>3. \A d \in graph.deps[m] : d <= k + 1 <=> d <= k \/ d = k + 1
    BY <1>0, <2>1 DEF Nodes
  <2>4. CASE k + 1 \in graph.deps[m] /\ v[k].answer = "active"
    <3>1. Right(k + 1, v[k + 1])
      BY <2>1, <2>2, <2>4
    <3> QED BY <2>1, <2>3, <2>4, <3>1 DEF Right
  <2>5. CASE ~ (k + 1 \in graph.deps[m] /\ v[k].answer = "active")
    BY <2>1, <2>2, <2>3, <2>5
  <2> QED BY <2>4, <2>5
<1> HIDE DEF S
<1>4. S = Nat
  BY <1>2, <1>3, Induction DEF S
<1>5. SoFar(N)
  BY <1>0, <1>4 DEF S
<1>6. \A d \in graph.deps[m] : d <= N
  BY <1>0 DEF Nodes
<1>7. CASE Gated(m)
  BY <1>1, <1>7, ActiveByDeps DEF Right, Sound
<1>8. CASE ~ Gated(m) /\ known[m] # "unknown"
  BY <1>1, <1>8 DEF Right, Sound, Answers
<1>9. CASE ~ Gated(m) /\ known[m] = "unknown"
  <2> DEFINE f == Found(walk, m, known)
             above == v[N]
  <2>1. above.answer = "active" <=> Active(m)
    BY <1>5, <1>6, <1>9, ActiveByDeps
  <2>2. f = [above EXCEPT !.known = [above.known EXCEPT ![m] = above.answer]]
    BY <1>1, <1>9
  <2> HIDE DEF above, f
  <2>3. /\ f.answer = above.answer /\ f.known = [above.known EXCEPT ![m] = above.answer]
        /\ f \in [answer : {"active", "gated"}, known : [Nodes -> Answers]]
    BY <1>5, <2>2 DEF above, Answers
  <2>4. Sound(f.known)
    BY <1>5, <2>1, <2>3 DEF above, Sound, Answers
  <2> QED BY <2>1, <2>3, <2>4 DEF Right, f
<1> QED BY <1>7, <1>8, <1>9

LEMMA WalkRight ==
  ASSUME graph \in Graphs, NEW n \in Nodes, NEW known, Sound(known)
  PROVE  Right(n, Walk[n][known])
<1>0. \A m \in Nodes : graph.deps[m] \subseteq Nodes
  BY GatingAssumption DEF Graph
<1>1. PICK level \in [Nodes -> 1 .. N] : \A m \in Nodes : \A d \in graph.deps[m] : level[d] < level[m]
  BY GatingAssumption DEF Acyclic
<1> DEFINE S == {k \in Nat : \A m \in Nodes : level[m] <= k =>
                               \A found : Sound(found) => Right(m, Walk[m][found])}
<1>2. 0 \in S
  BY <1>1
<1>3. ASSUME NEW k \in S PROVE k + 1 \in S
  <2> SUFFICES ASSUME NEW m \in Nodes, level[m] <= k + 1, NEW found, Sound(found)
               PROVE  Right(m, Walk[m][found])
    BY <1>3
  <2>1. k \in Nat
    BY <1>3
  <2>2. \A d \in graph.deps[m] : d \in Nodes /\ level[d] <= k
    <3> SUFFICES ASSUME NEW d \in graph.deps[m] PROVE d \in Nodes /\ level[d] <= k
      OBVIOUS
    <3>1. d \in Nodes /\ level[d] < level[m] /\ level[d] \in Int /\ level[m] \in Int
      BY <1>0, <1>1
    <3> QED BY <2>1, <3>1
  <2>3. \A d \in graph.deps[m] : \A f : Sound(f) => Right(d, Walk[d][f])
    BY <1>3, <2>2
  <2>4. Walk[m][found] = Found(Walk, m, found)
    BY WalkGoesUp DEF Sound
  <2> QED BY <2>3, <2>4, FoundRight
<1> HIDE DEF S
<1>4. S = Nat
  BY <1>2, <1>3, Induction DEF S
<1>5. N \in S /\ level[n] <= N
  BY <1>1, <1>4, GatingAssumption
<1> QED BY <1>5 DEF S

GatingInv ==
  /\ graph \in Graphs
  /\ Sound(memo)
  /\ asked.node \in Nodes \cup {0}
  /\ AnswerIsRight

LEMMA GatingBegins == GatingInit => GatingInv
BY DEF GatingInit, GatingInv, Sound, Answers, AnswerIsRight

LEMMA AnswerKeeps ==
  ASSUME GatingInv, NEW n \in Nodes, IsNodeActive(n)
  PROVE  GatingInv'
<1> DEFINE found == Walk[n][memo]
<1>1. Right(n, found)
  BY WalkRight DEF GatingInv
<1>2. /\ memo' = found.known /\ asked' = [node |-> n, answer |-> found.answer]
      /\ graph' = graph /\ decisions' = decisions
  BY DEF IsNodeActive
<1> HIDE DEF found
<1>3. \A m : Active(m)' <=> Active(m)
  BY <1>2 DEF Active, Ancestors, Gated
<1>4. Sound(memo)' <=> Sound(found.known)
  BY <1>2, <1>3 DEF Sound
<1> QED BY <1>1, <1>2, <1>3, <1>4 DEF GatingInv, Right, AnswerIsRight

LEMMA DecisionKeeps ==
  ASSUME GatingInv, NEW c, NEW value, RecordDecision(c, value)
  PROVE  GatingInv'
BY DEF GatingInv, RecordDecision, Sound, Answers, AnswerIsRight

LEMMA GatingStays ==
  ASSUME GatingInv, [ReuseNext]_all
  PROVE  GatingInv'
<1>1. ASSUME UNCHANGED gatingVars PROVE GatingInv'
  BY <1>1 DEF gatingVars, GatingInv, Sound, AnswerIsRight, Active, Ancestors, Gated
<1>2. ASSUME NEW e \in Execs, Install(e) \/ LevelGathered(e) \/ NextLevel(e) \/ EndEarly(e)
      PROVE  GatingInv'
  <2>1. UNCHANGED gatingVars
    BY <1>2, Zenon DEF Install, LevelGathered, NextLevel, EndEarly
  <2> QED BY <1>1, <2>1
<1>3. ASSUME NEW e \in Execs, HandleResult(e) PROVE GatingInv'
  <2>1. UNCHANGED gatingVars \/ \E n \in results : RecordDecision(n, said[e][n])
    BY <1>3, Zenon DEF HandleResult
  <2> QED BY <1>1, <2>1, DecisionKeeps
<1>4. ASSUME NEW e \in Execs, NEW n \in Nodes, GateNode(e, n) PROVE GatingInv'
  BY <1>4, AnswerKeeps DEF GateNode
<1>5. ASSUME NEW e \in Execs, NEW n \in Nodes, RunNode(e, n) PROVE GatingInv'
  BY <1>1, <1>5 DEF RunNode
<1>6. CASE UNCHANGED all
  BY <1>1, <1>6 DEF all
<1> QED BY <1>2, <1>3, <1>4, <1>5, <1>6 DEF ReuseNext

(* is_node_active answers by the decisions as they stand, in any graph     *)
(* without circles, whatever was asked and recorded before and by          *)
(* whichever execution of the object.                                      *)
THEOREM AnswersAreRight == ReuseSpec => []AnswerIsRight
<1>1. ReuseInit => GatingInv
  BY GatingBegins DEF ReuseInit
<1>2. GatingInv /\ [ReuseNext]_all => GatingInv'
  BY GatingStays
<1>3. GatingInv => AnswerIsRight
  BY DEF GatingInv
<1> QED BY <1>1, <1>2, <1>3, PTL DEF ReuseSpec

-----------------------------------------------------------------------------
(* Levels *)

LEMMA MaxExists ==
  ASSUME NEW T \in SUBSET Nat, T # {}, NEW b \in Nat, \A x \in T : x <= b
  PROVE  Max(T) \in T /\ \A y \in T : y <= Max(T)
<1> DEFINE U == {u \in Nat : \E x \in T : u = b - x}
<1>1. U # {}
  <2>1. PICK x \in T : TRUE
    OBVIOUS
  <2>2. b - x \in Nat
    OBVIOUS
  <2> QED BY <2>1, <2>2
<1>2. PICK u \in U : \A w \in U : u <= w
  BY <1>1, LeastExists
<1>3. PICK x \in T : u = b - x
  BY <1>2
<1>4. ASSUME NEW y \in T PROVE y <= x
  <2>1. b - y \in U
    OBVIOUS
  <2> HIDE DEF U
  <2>2. b - x <= b - y
    BY <1>2, <1>3, <2>1
  <2> QED BY <2>2
<1>5. \A y \in T : x >= y
  BY <1>4
<1> HIDE DEF U
<1>6. \E z \in T : \A y \in T : z >= y
  BY <1>5
<1>7. Max(T) \in T /\ \A y \in T : Max(T) >= y
  BY <1>6 DEF Max
<1> QED BY <1>7

LEMMA LevelsRecur ==
  ASSUME graph \in Graphs
  PROVE  \A n \in Nodes : LevelOf[n] = Max({LevelOf[d] : d \in graph.deps[n]} \cup {0}) + 1
<1> DEFINE Above(f, n) == Max({f[d] : d \in graph.deps[n]} \cup {0}) + 1
<1>0. \A n \in Nodes : graph.deps[n] \subseteq Nodes
  BY GatingAssumption DEF Graph
<1>1. PICK rank \in [Nodes -> 1 .. N] : \A n \in Nodes : \A d \in graph.deps[n] : rank[d] < rank[n]
  BY GatingAssumption DEF Acyclic
<1>2. ASSUME NEW f, NEW g, NEW n, \A d \in graph.deps[n] : f[d] = g[d] PROVE Above(f, n) = Above(g, n)
  <2>1. {f[d] : d \in graph.deps[n]} = {g[d] : d \in graph.deps[n]}
    BY <1>2
  <2> QED BY <2>1
<1> DEFINE S == {k \in Nat : \E f : \A m \in Nodes : rank[m] <= k => f[m] = Above(f, m)}
<1> HIDE DEF Above
<1>3. 0 \in S
  <2>1. \A m \in Nodes : ~ (rank[m] <= 0)
    BY <1>1
  <2> QED BY <2>1
<1>4. ASSUME NEW k \in S PROVE k + 1 \in S
  <2>1. PICK f : \A m \in Nodes : rank[m] <= k => f[m] = Above(f, m)
    BY <1>4
  <2> DEFINE g == [m \in Nodes |-> IF rank[m] <= k THEN f[m] ELSE Above(f, m)]
  <2>2. k \in Nat
    BY <1>4
  <2>3. ASSUME NEW m \in Nodes, rank[m] <= k + 1 PROVE g[m] = Above(g, m)
    <3>1. ASSUME NEW d \in graph.deps[m] PROVE f[d] = g[d]
      <4>1. d \in Nodes /\ rank[d] < rank[m] /\ rank[d] \in Int /\ rank[m] \in Int
        BY <1>0, <1>1
      <4>2. rank[d] <= k
        BY <2>2, <2>3, <4>1
      <4> QED BY <4>1, <4>2
    <3> HIDE DEF g
    <3>2. Above(f, m) = Above(g, m)
      BY <1>2, <3>1
    <3> QED BY <2>1, <3>2 DEF g
  <2> HIDE DEF g
  <2> QED BY <2>2, <2>3
<1> HIDE DEF S
<1>5. S = Nat
  BY <1>3, <1>4, Induction DEF S
<1>6. PICK f : \A m \in Nodes : f[m] = Above(f, m)
  <2>1. N \in S /\ \A m \in Nodes : rank[m] <= N
    BY <1>1, <1>5, GatingAssumption
  <2> QED BY <2>1 DEF S
<1> DEFINE full == [m \in Nodes |-> f[m]]
<1>7. full = [m \in Nodes |-> Above(full, m)]
  <2>1. ASSUME NEW m \in Nodes PROVE full[m] = Above(full, m)
    <3>1. \A d \in graph.deps[m] : f[d] = full[d]
      BY <1>0
    <3> HIDE DEF full
    <3>2. Above(f, m) = Above(full, m)
      BY <1>2, <3>1
    <3> QED BY <1>6, <3>2 DEF full
  <2> QED BY <2>1
<1> HIDE DEF full
<1>8. LevelOf = CHOOSE g : g = [m \in Nodes |-> Above(g, m)]
  BY Zenon DEF LevelOf, Above
<1>9. LevelOf = [m \in Nodes |-> Above(LevelOf, m)]
  BY <1>7, <1>8
<1>10. \A m \in Nodes : LevelOf[m] = Above(LevelOf, m)
  BY <1>9
<1> QED BY <1>10 DEF Above

LEMMA LevelsGrow ==
  ASSUME graph \in Graphs
  PROVE  /\ \A n \in Nodes : LevelOf[n] \in 1 .. N
         /\ \A n \in Nodes : \A d \in graph.deps[n] : LevelOf[d] < LevelOf[n]
<1>0. \A n \in Nodes : graph.deps[n] \subseteq Nodes
  BY GatingAssumption DEF Graph
<1>1. PICK rank \in [Nodes -> 1 .. N] : \A n \in Nodes : \A d \in graph.deps[n] : rank[d] < rank[n]
  BY GatingAssumption DEF Acyclic
<1> DEFINE Good(n) == LevelOf[n] \in 1 .. rank[n] /\ \A d \in graph.deps[n] : LevelOf[d] < LevelOf[n]
           S == {k \in Nat : \A n \in Nodes : rank[n] <= k => Good(n)}
<1>2. 0 \in S
  BY <1>1
<1>3. ASSUME NEW k \in S PROVE k + 1 \in S
  <2> SUFFICES ASSUME NEW n \in Nodes, rank[n] <= k + 1 PROVE Good(n)
    BY <1>3
  <2> DEFINE T == {LevelOf[d] : d \in graph.deps[n]} \cup {0}
  <2>1. k \in Nat /\ rank[n] \in Int /\ 1 <= rank[n]
    BY <1>1, <1>3
  <2>2. ASSUME NEW d \in graph.deps[n]
        PROVE  LevelOf[d] \in Nat /\ LevelOf[d] <= rank[n] - 1
    <3>1. d \in Nodes /\ rank[d] < rank[n] /\ rank[d] \in Int
      BY <1>0, <1>1
    <3>2. rank[d] <= k
      BY <2>1, <3>1
    <3>3. LevelOf[d] \in 1 .. rank[d]
      BY <1>3, <3>1, <3>2
    <3> QED BY <2>1, <3>1, <3>3
  <2>3. T \in SUBSET Nat /\ T # {} /\ rank[n] - 1 \in Nat /\ \A x \in T : x <= rank[n] - 1
    BY <2>1, <2>2
  <2>4. Max(T) \in T /\ \A y \in T : y <= Max(T)
    BY <2>3, MaxExists
  <2>5. LevelOf[n] = Max(T) + 1
    BY LevelsRecur
  <2>6. \A d \in graph.deps[n] : LevelOf[d] \in T
    OBVIOUS
  <2> HIDE DEF T
  <2>7. Max(T) \in Nat /\ Max(T) <= rank[n] - 1
    BY <2>3, <2>4
  <2>8. LevelOf[n] \in 1 .. rank[n]
    BY <2>1, <2>5, <2>7
  <2>9. \A d \in graph.deps[n] : LevelOf[d] < LevelOf[n]
    BY <2>2, <2>4, <2>5, <2>6, <2>7
  <2> QED BY <2>8, <2>9
<1> HIDE DEF S
<1>4. S = Nat
  BY <1>2, <1>3, Induction DEF S
<1>5. \A n \in Nodes : Good(n)
  <2>1. N \in S /\ \A n \in Nodes : rank[n] <= N
    BY <1>1, <1>4, GatingAssumption
  <2> QED BY <2>1 DEF S
<1> QED BY <1>1, <1>5, GatingAssumption

LEMMA DepthBounds ==
  ASSUME graph \in Graphs
  PROVE  Depth \in Nat /\ \A n \in Nodes : LevelOf[n] <= Depth
<1> DEFINE T == {LevelOf[n] : n \in Nodes}
<1>1. T \in SUBSET Nat /\ N \in Nat /\ \A x \in T : x <= N
  BY LevelsGrow, GatingAssumption
<1>2. T # {}
  BY GatingAssumption DEF Nodes
<1>3. Max(T) \in T /\ \A y \in T : y <= Max(T)
  BY <1>1, <1>2, MaxExists
<1> QED BY <1>1, <1>3 DEF Depth

LEMMA AncestorsBelow ==
  ASSUME graph \in Graphs, NEW n \in Nodes
  PROVE  \A m \in Ancestors(n) : m \in Nodes /\ LevelOf[m] < LevelOf[n]
<1> DEFINE S == {m \in Nodes : LevelOf[m] < LevelOf[n]}
<1>1. \A m \in Nodes : graph.deps[m] \subseteq Nodes
  BY GatingAssumption DEF Graph
<1>2. \A m \in Nodes : LevelOf[m] \in Int /\ \A d \in graph.deps[m] : LevelOf[d] < LevelOf[m]
  BY LevelsGrow
<1>3. S \in SUBSET Nodes /\ graph.deps[n] \subseteq S
  BY <1>1, <1>2
<1>4. \A s \in S : graph.deps[s] \subseteq S
  BY <1>1, <1>2
<1>5. Ancestors(n) \subseteq S
  BY <1>3, <1>4 DEF Ancestors
<1> QED BY <1>5

-----------------------------------------------------------------------------
(* Executions that are alone *)

(* The turn goes to one execution at a time.  While it has it, it gates    *)
(* its level or, all its nodes being over, looks at their results.         *)
TurnInv ==
  /\ at \in [Execs -> Nat] /\ turn \in Execs \cup {Nobody} /\ verdict \in Verdicts
  /\ \A e \in Execs : at[e] # 0 => installed \in Execs
  /\ turn = Nobody => asking = {} /\ results = {}
  /\ turn # Nobody =>
       /\ at[turn] \in 1 .. Depth /\ asking \subseteq Level(at[turn])
       /\ results \subseteq Level(at[turn])
       /\ asking = {} \/ results = {}
       /\ asking \in {{}, Level(at[turn])} => pending[turn] = {}

(* What each execution has run, of the level it is at.                     *)
RunsInv ==
  /\ said \in [Execs -> [Nodes -> {"none", "true", "false"}]]
  /\ ran \in [Execs -> SUBSET Nodes] /\ pending \in [Execs -> SUBSET Nodes]
  /\ \A e \in Execs : (at[e] = 0 => ran[e] = {}) /\ pending[e] \subseteq Level(at[e])
  /\ \A e \in Execs, n \in Nodes : said[e][n] # "none" => n \in ran[e]
  /\ crowded \subseteq Execs /\ cut \subseteq Execs
  /\ \A e, o \in Running : e # o => e \in crowded

(* A decision was said by some execution, and one that is alone and not    *)
(* cut short has had all it said at earlier levels recorded.               *)
Recorded(e, c) ==
  \/ LevelOf[c] < at[e]
  \/ LevelOf[c] = at[e] /\ turn = e /\ asking = {} /\ c \notin results

DecisionsInv ==
  /\ decisions \in [Nodes -> {"none", "true", "false"}]
  /\ \A c \in Nodes : decisions[c] # "none" => \E o \in Execs : said[o][c] # "none"
  /\ \A e \in Running \ (crowded \cup cut), c \in graph.conditions :
       Recorded(e, c) /\ said[e][c] # "none" => decisions[c] = said[e][c]

(* NoLeftovers, as far as the levels go that are over.                     *)
NoneLeft(e) ==
  \A c \in graph.conditions :
    /\ LevelOf[c] < at[e] /\ said[e][c] = "none" => \A o \in Execs : said[o][c] = "none"
    /\ \A n \in graph.branch[TRUE][c] \cup graph.branch[FALSE][c] : LevelOf[c] < LevelOf[n]

WasGated(e) == {n \in Nodes : LevelOf[n] < at[e] \/ (LevelOf[n] = at[e] /\ ~ (turn = e /\ n \in asking))}

AloneInv ==
  \A e \in Execs \ (crowded \cup cut) :
    NoneLeft(e) => ran[e] \cup pending[e] = RunByNew(e) \cap WasGated(e)

ReuseInv == GatingInv /\ TurnInv /\ RunsInv /\ DecisionsInv /\ AloneInv

(* The graph stays, and with it what is read off it. *)
LEMMA GraphStays ==
  ASSUME graph' = graph
  PROVE  LevelOf' = LevelOf /\ Depth' = Depth /\ \A n : Ancestors(n)' = Ancestors(n)
BY DEF LevelOf, Depth, Ancestors

LEMMA LevelTypes ==
  ASSUME graph \in Graphs
  PROVE  /\ Depth \in Nat /\ graph.conditions \subseteq Nodes
         /\ \A n \in Nodes : LevelOf[n] \in Nat \ {0} /\ LevelOf[n] <= Depth
BY LevelsGrow, DepthBounds, GatingAssumption DEF Graph

(* Whether a node is one a new object would run is settled by what was     *)
(* said at lower levels.                                                   *)
LEMMA RunByNewStays ==
  ASSUME graph \in Graphs, graph' = graph, NEW e, NEW l \in Nat,
         \A c \in Nodes : LevelOf[c] < l => said'[e][c] = said[e][c]
  PROVE  \A n \in Nodes : LevelOf[n] <= l => (n \in RunByNew(e)' <=> n \in RunByNew(e))
<1> SUFFICES ASSUME NEW n \in Nodes, LevelOf[n] <= l
             PROVE  n \in RunByNew(e)' <=> n \in RunByNew(e)
  OBVIOUS
<1>1. LevelOf' = LevelOf /\ Ancestors(n)' = Ancestors(n)
  BY GraphStays
<1>2. ASSUME NEW m \in Ancestors(n) \cup {n} PROVE Excluded(e, m)' <=> Excluded(e, m)
  <2>1. m \in Nodes /\ LevelOf[m] <= l
    BY AncestorsBelow, LevelTypes
  <2>2. \A c \in graph.conditions : LevelOf[c] < LevelOf[m] => said'[e][c] = said[e][c]
    BY <2>1, LevelTypes
  <2> QED BY <1>1, <2>2 DEF Excluded
<1> QED BY <1>1, <1>2 DEF RunByNew

(* What an execution has run stays right if nothing it said at lower       *)
(* levels changes and it gates nothing further.                            *)
LEMMA AloneStays ==
  ASSUME graph \in Graphs, graph' = graph, NEW e, at[e] \in Nat,
         NoneLeft(e) => ran[e] \cup pending[e] = RunByNew(e) \cap WasGated(e),
         ran'[e] \cup pending'[e] = ran[e] \cup pending[e], WasGated(e)' = WasGated(e),
         at'[e] = at[e] \/ at'[e] = at[e] + 1,
         \A c \in Nodes : LevelOf[c] < at[e] => said'[e][c] = said[e][c],
         \A o \in Execs, c \in Nodes : said'[o][c] = "none" => said[o][c] = "none"
  PROVE  (NoneLeft(e) => ran[e] \cup pending[e] = RunByNew(e) \cap WasGated(e))'
<1>1. LevelOf' = LevelOf
  BY GraphStays
<1>2. NoneLeft(e)' => NoneLeft(e)
  <2>1. \A c \in graph.conditions : LevelOf[c] < at[e] => LevelOf[c] < at'[e] /\ c \in Nodes
    BY LevelTypes
  <2> QED BY <1>1, <2>1 DEF NoneLeft
<1>3. \A n \in WasGated(e) : n \in Nodes /\ LevelOf[n] <= at[e]
  BY LevelTypes DEF WasGated
<1>4. \A n \in WasGated(e) : n \in RunByNew(e)' <=> n \in RunByNew(e)
  BY <1>3, RunByNewStays
<1>5. (RunByNew(e) \cap WasGated(e))' = RunByNew(e) \cap WasGated(e)
  BY <1>4
<1> QED BY <1>2, <1>5

LEMMA ReuseBegins == ReuseInit => ReuseInv
<1> SUFFICES ASSUME ReuseInit PROVE ReuseInv
  OBVIOUS
<1>1. GatingInv /\ decisions = [n \in Nodes |-> "none"] /\ graph \in Graphs
  BY GatingBegins DEF ReuseInit, GatingInit
<1>2. /\ verdict \in Verdicts /\ turn = Nobody /\ at = [e \in Execs |-> 0]
      /\ asking = {} /\ results = {} /\ pending = [e \in Execs |-> {}] /\ ran = [e \in Execs |-> {}]
      /\ said = [e \in Execs |-> [n \in Nodes |-> "none"]] /\ crowded = {} /\ cut = {}
  BY DEF ReuseInit
<1>3. Running = {}
  BY <1>2 DEF Running
<1>4. TurnInv
  BY <1>2 DEF TurnInv
<1>5. RunsInv
  BY <1>2, <1>3 DEF RunsInv
<1>6. DecisionsInv
  BY <1>1, <1>2, <1>3 DEF DecisionsInv
<1>7. AloneInv
  <2>1. \A n \in Nodes : ~ (LevelOf[n] < 0) /\ LevelOf[n] # 0
    BY <1>1, LevelTypes
  <2>2. \A e \in Execs : WasGated(e) = {}
    BY <1>2, <2>1 DEF WasGated
  <2> QED BY <1>2, <2>2 DEF AloneInv
<1> QED BY <1>1, <1>4, <1>5, <1>6, <1>7 DEF ReuseInv

LEMMA InstallKeeps ==
  ASSUME ReuseInv, NEW e \in Execs, Install(e), GatingInv'
  PROVE  ReuseInv'
<1> USE DEF ReuseInv
<1>1. /\ turn = Nobody /\ at[e] = 0 /\ turn' = e /\ installed' = e
      /\ at' = [at EXCEPT ![e] = 1] /\ asking' = Level(1)
      /\ crowded' = crowded \cup Running \cup (IF Running = {} THEN {} ELSE {e})
      /\ UNCHANGED <<graph, decisions, verdict, pending, results, ran, said, cut>>
  BY DEF Install, gatingVars
<1>2. graph \in Graphs /\ LevelOf' = LevelOf /\ Depth' = Depth
  BY <1>1, GraphStays DEF GatingInv
<1>3. /\ Depth \in Nat /\ graph.conditions \subseteq Nodes /\ 1 <= Depth
      /\ \A n \in Nodes : LevelOf[n] \in Nat \ {0} /\ LevelOf[n] <= Depth
  <2>1. 1 \in Nodes
    BY GatingAssumption DEF Nodes
  <2> QED BY <1>2, <2>1, LevelTypes
<1>4. /\ e # Nobody /\ at'[e] = 1 /\ \A o \in Execs \ {e} : at'[o] = at[o]
      /\ asking = {} /\ results = {} /\ pending[e] = {} /\ ran[e] = {}
  BY <1>1, <1>3, ReuseAssumption DEF TurnInv, RunsInv, Level
<1>5. TurnInv'
  BY <1>1, <1>2, <1>3, <1>4 DEF TurnInv, Level
<1>6. Running' = Running \cup {e}
  BY <1>1, <1>2, <1>3, <1>4 DEF Running
<1>7. RunsInv'
  <2>1. \A o \in Execs : (at'[o] = 0 => ran'[o] = {}) /\ pending'[o] \subseteq Level(at[o])'
    BY <1>1, <1>2, <1>4 DEF RunsInv, Level
  <2>2. crowded' \subseteq Execs /\ \A a, b \in Running' : a # b => a \in crowded'
    BY <1>1, <1>6 DEF RunsInv, Running
  <2> QED BY <1>1, <2>1, <2>2 DEF RunsInv
<1>8. DecisionsInv'
  <2>1. \A o \in Running' \ (crowded' \cup cut') : o = e
    BY <1>1, <1>6
  <2>2. \A c \in graph.conditions : ~ Recorded(e, c)'
    BY <1>1, <1>2, <1>3, <1>4 DEF Recorded, Level
  <2> QED BY <1>1, <2>1, <2>2 DEF DecisionsInv
<1>9. AloneInv'
  <2>1. WasGated(e)' = {}
    BY <1>1, <1>2, <1>3, <1>4 DEF WasGated, Level
  <2>2. ASSUME NEW o \in Execs \ (crowded' \cup cut'), o # e
        PROVE  (NoneLeft(o) => ran[o] \cup pending[o] = RunByNew(o) \cap WasGated(o))'
    <3>1. NoneLeft(o) => ran[o] \cup pending[o] = RunByNew(o) \cap WasGated(o)
      BY <1>1, <2>2 DEF AloneInv
    <3>2. WasGated(o)' = WasGated(o) /\ at'[o] = at[o] /\ at[o] \in Nat
      BY <1>1, <1>2, <1>4, <2>2, ReuseAssumption DEF WasGated, TurnInv
    <3> QED BY <1>1, <1>2, <3>1, <3>2, AloneStays
  <2> QED BY <1>1, <1>4, <2>1, <2>2 DEF AloneInv
<1> QED BY <1>5, <1>7, <1>8, <1>9

(* Where nothing earlier is left, the decisions gate what those of e do.   *)
LEMMA GatedAlone ==
  ASSUME ReuseInv, NEW e \in Running \ (crowded \cup cut), NoneLeft(e), turn = e, results = {},
         NEW m \in Nodes, LevelOf[m] <= at[e]
  PROVE  Gated(m) <=> Excluded(e, m)
<1> USE DEF ReuseInv
<1>1. /\ graph.conditions \subseteq Nodes /\ at[e] \in Nat /\ e \in Execs
      /\ \A n \in Nodes : LevelOf[n] \in Nat
  BY LevelTypes DEF GatingInv, TurnInv, Running
<1>2. ASSUME NEW c \in graph.conditions, LevelOf[c] < at[e]
      PROVE  decisions[c] = said[e][c]
  <2>1. CASE said[e][c] # "none"
    BY <1>2, <2>1 DEF DecisionsInv, Recorded
  <2>2. CASE said[e][c] = "none"
    <3>1. \A o \in Execs : said[o][c] = "none"
      BY <1>2, <2>2 DEF NoneLeft
    <3> QED BY <1>1, <2>2, <3>1 DEF DecisionsInv
  <2> QED BY <2>1, <2>2
<1>3. ASSUME Gated(m) PROVE Excluded(e, m)
  <2>1. PICK c \in graph.conditions :
           \/ decisions[c] = "true" /\ m \in graph.branch[FALSE][c]
           \/ decisions[c] = "false" /\ m \in graph.branch[TRUE][c]
    BY <1>3 DEF Gated
  <2>2. LevelOf[c] < LevelOf[m]
    BY <2>1 DEF NoneLeft
  <2>3. LevelOf[c] < at[e]
    BY <1>1, <2>2
  <2> QED BY <1>2, <2>1, <2>2, <2>3 DEF Excluded
<1>4. ASSUME Excluded(e, m) PROVE Gated(m)
  <2>1. PICK c \in graph.conditions :
           /\ LevelOf[c] < LevelOf[m]
           /\ \/ said[e][c] = "true" /\ m \in graph.branch[FALSE][c]
              \/ said[e][c] = "false" /\ m \in graph.branch[TRUE][c]
    BY <1>4 DEF Excluded
  <2>2. LevelOf[c] < at[e]
    BY <1>1, <2>1
  <2> QED BY <1>2, <2>1, <2>2 DEF Gated
<1> QED BY <1>3, <1>4
LEMMA GateKeeps ==
  ASSUME ReuseInv, NEW e \in Execs, NEW n \in Nodes, GateNode(e, n), GatingInv'
  PROVE  ReuseInv'
<1> USE DEF ReuseInv
<1>1. /\ turn = e /\ results = {} /\ n \in asking /\ asking' = asking \ {n}
      /\ pending' = IF asked'.answer = "active" THEN [pending EXCEPT ![e] = @ \cup {n}] ELSE pending
      /\ turn' = IF asking' = {} THEN Nobody ELSE e
      /\ UNCHANGED <<graph, decisions, verdict, installed, at, results, ran, said, crowded, cut>>
  BY DEF GateNode, IsNodeActive
<1>2. graph \in Graphs /\ LevelOf' = LevelOf /\ Depth' = Depth
  BY <1>1, GraphStays DEF GatingInv
<1>3. /\ e # Nobody /\ e \in Running /\ at[e] \in 1 .. Depth /\ n \in Level(at[e]) /\ LevelOf[n] = at[e]
      /\ asking \subseteq Level(at[e]) /\ at \in [Execs -> Nat]
  BY <1>1, ReuseAssumption DEF TurnInv, Running, Level
<1>4. TurnInv'
  BY <1>1, <1>2, <1>3 DEF TurnInv, Level
<1>5. Running' = Running
  BY <1>1, <1>2 DEF Running
<1>6. RunsInv'
  <2>1. pending' \in [Execs -> SUBSET Nodes]
    BY <1>1 DEF RunsInv
  <2>2. \A o \in Execs : pending'[o] \subseteq Level(at[o])'
    BY <1>1, <1>2, <1>3 DEF RunsInv, Level
  <2> QED BY <1>1, <1>5, <2>1, <2>2 DEF RunsInv
<1>7. DecisionsInv'
  <2>1. \A o \in Execs, c \in graph.conditions : Recorded(o, c)' => Recorded(o, c)
    BY <1>1, <1>2, <1>3, ReuseAssumption DEF Recorded
  <2>2. \A o \in Running : o \in Execs
    BY DEF Running
  <2> QED BY <1>1, <1>5, <2>1, <2>2 DEF DecisionsInv
<1>8. AloneInv'
  <2>1. ASSUME NEW o \in Execs \ (crowded \cup cut), o # e
        PROVE  (NoneLeft(o) => ran[o] \cup pending[o] = RunByNew(o) \cap WasGated(o))'
    <3>1. NoneLeft(o) => ran[o] \cup pending[o] = RunByNew(o) \cap WasGated(o)
      BY <2>1 DEF AloneInv
    <3>2. WasGated(o)' = WasGated(o) /\ at'[o] = at[o] /\ at[o] \in Nat
      BY <1>1, <1>2, <1>3, <2>1, ReuseAssumption DEF WasGated
    <3>3. pending'[o] = pending[o]
      BY <1>1, <2>1 DEF RunsInv
    <3> QED BY <1>1, <1>2, <3>1, <3>2, <3>3, AloneStays
  <2>2. ASSUME e \notin crowded \cup cut, NoneLeft(e)'
        PROVE  (ran[e] \cup pending[e] = RunByNew(e) \cap WasGated(e))'
    <3>1. NoneLeft(e)
      BY <1>1, <1>2, <2>2 DEF NoneLeft
    <3>2. asked'.answer = "active" <=> Active(n)
      <4>1. asked'.node = n /\ n # 0
        BY DEF GateNode, IsNodeActive, Nodes
      <4>2. Active(n)' <=> Active(n)
        BY <1>1, GraphStays DEF Active, Gated, Ancestors
      <4> QED BY <4>1, <4>2 DEF GatingInv, AnswerIsRight
    <3>3. \A m \in Ancestors(n) \cup {n} : Gated(m) <=> Excluded(e, m)
      <4>1. \A m \in Ancestors(n) \cup {n} : m \in Nodes /\ LevelOf[m] <= at[e]
        BY <1>2, <1>3, AncestorsBelow, LevelTypes
      <4> QED BY <1>1, <1>3, <2>2, <3>1, <4>1, GatedAlone
    <3>4. Active(n) <=> n \in RunByNew(e)
      BY <3>3 DEF Active, RunByNew
    <3>5. WasGated(e)' = WasGated(e) \cup {n}
      BY <1>1, <1>2, <1>3 DEF WasGated
    <3>6. RunByNew(e)' = RunByNew(e)
      <4>1. \A m \in Nodes : m \in RunByNew(e)' <=> m \in RunByNew(e)
        BY <1>1, <1>2, LevelTypes, RunByNewStays
      <4>2. RunByNew(e) \subseteq Nodes /\ RunByNew(e)' \subseteq Nodes
        BY DEF RunByNew
      <4> QED BY <4>1, <4>2
    <3>7. ran[e] \cup pending[e] = RunByNew(e) \cap WasGated(e)
      BY <2>2, <3>1 DEF AloneInv
    <3>8. pending'[e] = IF n \in RunByNew(e) THEN pending[e] \cup {n} ELSE pending[e]
      BY <1>1, <3>2, <3>4 DEF RunsInv
    <3> QED BY <1>1, <3>5, <3>6, <3>7, <3>8
  <2> QED BY <1>1, <2>1, <2>2 DEF AloneInv
<1> QED BY <1>4, <1>6, <1>7, <1>8

LEMMA RunKeeps ==
  ASSUME ReuseInv, NEW e \in Execs, NEW n \in Nodes, RunNode(e, n), GatingInv'
  PROVE  ReuseInv'
<1> USE DEF ReuseInv
<1>1. /\ turn = Nobody /\ n \in pending[e]
      /\ pending' = [pending EXCEPT ![e] = @ \ {n}] /\ ran' = [ran EXCEPT ![e] = @ \cup {n}]
      /\ said' = [said EXCEPT ![e][n] = verdict[installed][n]] \/ said' = said
      /\ UNCHANGED <<graph, decisions, verdict, turn, installed, at, asking, results, crowded, cut>>
  BY DEF RunNode, gatingVars
<1>2. graph \in Graphs /\ LevelOf' = LevelOf /\ Depth' = Depth
  BY <1>1, GraphStays DEF GatingInv
<1>3. at \in [Execs -> Nat] /\ n \in Level(at[e]) /\ LevelOf[n] = at[e] /\ at[e] # 0 /\ installed \in Execs
  <2>1. at \in [Execs -> Nat] /\ n \in Level(at[e]) /\ LevelOf[n] = at[e]
    BY <1>1 DEF RunsInv, TurnInv, Level
  <2>2. at[e] # 0
    BY <1>2, <2>1, LevelTypes
  <2> QED BY <2>1, <2>2 DEF TurnInv
<1>4. /\ said' \in [Execs -> [Nodes -> {"none", "true", "false"}]]
      /\ \A o \in Execs, c \in Nodes : said'[o][c] = said[o][c] \/ (o = e /\ c = n /\ said'[o][c] # "none")
  <2>1. verdict[installed][n] \in {"true", "false"}
    BY <1>3, ReuseAssumption DEF TurnInv
  <2>2. CASE said' = said
    BY <2>2 DEF RunsInv
  <2>3. CASE said' = [said EXCEPT ![e][n] = verdict[installed][n]]
    <3>1. /\ said \in [Execs -> [Nodes -> {"none", "true", "false"}]]
          /\ said' = [said EXCEPT ![e] = [said[e] EXCEPT ![n] = verdict[installed][n]]]
      BY <2>3 DEF RunsInv
    <3>2. [said[e] EXCEPT ![n] = verdict[installed][n]] \in [Nodes -> {"none", "true", "false"}]
      BY <2>1, <3>1
    <3>3. said' \in [Execs -> [Nodes -> {"none", "true", "false"}]]
      BY <3>1, <3>2
    <3>4. \A o \in Execs, c \in Nodes :
             said'[o][c] = said[o][c] \/ (o = e /\ c = n /\ said'[o][c] # "none")
      BY <2>1, <3>1
    <3> QED BY <3>3, <3>4
  <2> QED BY <1>1, <2>2, <2>3
<1>5. TurnInv'
  BY <1>1, <1>2, ReuseAssumption DEF TurnInv
<1>6. Running' = Running /\ Running \subseteq Execs
  BY <1>1, <1>2 DEF Running
<1>7. RunsInv'
  <2>1. pending' \in [Execs -> SUBSET Nodes] /\ ran' \in [Execs -> SUBSET Nodes]
    BY <1>1 DEF RunsInv
  <2>2. \A o \in Execs : (at'[o] = 0 => ran'[o] = {}) /\ pending'[o] \subseteq Level(at[o])'
    BY <1>1, <1>2, <1>3 DEF RunsInv, Level
  <2>3. \A o \in Execs, c \in Nodes : said'[o][c] # "none" => c \in ran'[o]
    BY <1>1, <1>4 DEF RunsInv
  <2> QED BY <1>1, <1>4, <1>6, <2>1, <2>2, <2>3 DEF RunsInv
<1>8. DecisionsInv'
  <2>1. \A c \in Nodes : decisions[c] # "none" => \E o \in Execs : said'[o][c] # "none"
    BY <1>4 DEF DecisionsInv
  <2>2. ASSUME NEW o \in Running \ (crowded \cup cut), NEW c \in graph.conditions,
               Recorded(o, c)', said'[o][c] # "none"
        PROVE  decisions[c] = said'[o][c]
    <3>1. LevelOf[c] < at[o] /\ Recorded(o, c)
      BY <1>1, <1>2, <1>6, <2>2, ReuseAssumption DEF Recorded
    <3>2. ~ (o = e /\ c = n)
      BY <1>3, <3>1
    <3>3. said'[o][c] = said[o][c]
      BY <1>2, <1>4, <1>6, <3>2, LevelTypes
    <3> QED BY <2>2, <3>1, <3>3 DEF DecisionsInv
  <2> QED BY <1>1, <1>6, <2>1, <2>2 DEF DecisionsInv
<1>9. AloneInv'
  <2> SUFFICES ASSUME NEW o \in Execs \ (crowded \cup cut)
               PROVE  (NoneLeft(o) => ran[o] \cup pending[o] = RunByNew(o) \cap WasGated(o))'
    BY <1>1 DEF AloneInv
  <2>1. NoneLeft(o) => ran[o] \cup pending[o] = RunByNew(o) \cap WasGated(o)
    BY DEF AloneInv
  <2>2. WasGated(o)' = WasGated(o) /\ at'[o] = at[o] /\ at[o] \in Nat
    BY <1>1, <1>2, <1>3 DEF WasGated
  <2>3. ran'[o] \cup pending'[o] = ran[o] \cup pending[o]
    BY <1>1 DEF RunsInv
  <2>4. \A c \in Nodes : LevelOf[c] < at[o] => said'[o][c] = said[o][c]
    BY <1>3, <1>4
  <2>5. \A p \in Execs, c \in Nodes : said'[p][c] = "none" => said[p][c] = "none"
    BY <1>4
  <2> QED BY <1>1, <1>2, <2>1, <2>2, <2>3, <2>4, <2>5, AloneStays
<1> QED BY <1>5, <1>7, <1>8, <1>9

LEMMA GatheredKeeps ==
  ASSUME ReuseInv, NEW e \in Execs, LevelGathered(e), GatingInv'
  PROVE  ReuseInv'
<1> USE DEF ReuseInv
<1>1. /\ turn = Nobody /\ at[e] \in 1 .. Depth /\ pending[e] = {} /\ turn' = e
      /\ results' = ran[e] \cap Level(at[e])
      /\ UNCHANGED <<graph, decisions, verdict, installed, at, asking, pending, ran, said, crowded, cut>>
  BY DEF LevelGathered, gatingVars
<1>2. graph \in Graphs /\ LevelOf' = LevelOf /\ Depth' = Depth
  BY <1>1, GraphStays DEF GatingInv
<1>3. e # Nobody /\ at \in [Execs -> Nat] /\ asking = {} /\ graph.conditions \subseteq Nodes
  BY <1>1, <1>2, LevelTypes, ReuseAssumption DEF TurnInv
<1>4. TurnInv'
  BY <1>1, <1>2, <1>3 DEF TurnInv, Level
<1>5. Running' = Running /\ Running \subseteq Execs
  BY <1>1, <1>2 DEF Running
<1>6. RunsInv'
  BY <1>1, <1>2, <1>5 DEF RunsInv, Level
<1>7. DecisionsInv'
  <2>1. ASSUME NEW o \in Running \ (crowded \cup cut), NEW c \in graph.conditions, Recorded(o, c)', said[o][c] # "none"
        PROVE  Recorded(o, c)
    BY <1>1, <1>2, <1>3, <2>1 DEF Recorded, Level, RunsInv
  <2> QED BY <1>1, <1>5, <2>1 DEF DecisionsInv
<1>8. AloneInv'
  <2> SUFFICES ASSUME NEW o \in Execs \ (crowded \cup cut)
               PROVE  (NoneLeft(o) => ran[o] \cup pending[o] = RunByNew(o) \cap WasGated(o))'
    BY <1>1 DEF AloneInv
  <2>1. NoneLeft(o) => ran[o] \cup pending[o] = RunByNew(o) \cap WasGated(o)
    BY DEF AloneInv
  <2>2. WasGated(o)' = WasGated(o) /\ at'[o] = at[o] /\ at[o] \in Nat
    BY <1>1, <1>2, <1>3 DEF WasGated
  <2> QED BY <1>1, <1>2, <2>1, <2>2, AloneStays
<1> QED BY <1>4, <1>6, <1>7, <1>8

LEMMA HandleKeeps ==
  ASSUME ReuseInv, NEW e \in Execs, HandleResult(e), GatingInv'
  PROVE  ReuseInv'
<1> USE DEF ReuseInv
<1>1. PICK c \in results :
        /\ turn = e /\ UNCHANGED <<verdict, turn, installed, at, asking, pending, ran, said, crowded>>
        /\ \/ results' = {} /\ cut' = cut \cup {e} /\ UNCHANGED gatingVars
           \/ /\ results' = results \ {c} /\ cut' = cut
              /\ IF said[e][c] = "none" THEN UNCHANGED gatingVars ELSE RecordDecision(c, said[e][c])
  BY DEF HandleResult
<1>2. /\ graph' = graph
      /\ \/ results' = {} /\ cut' = cut \cup {e} /\ decisions' = decisions
         \/ /\ results' = results \ {c} /\ cut' = cut
            /\ decisions' = IF said[e][c] = "none" THEN decisions ELSE [decisions EXCEPT ![c] = said[e][c]]
  BY <1>1 DEF RecordDecision, gatingVars
<1>3. graph \in Graphs /\ LevelOf' = LevelOf /\ Depth' = Depth
  BY <1>2, GraphStays DEF GatingInv
<1>4. /\ e # Nobody /\ at \in [Execs -> Nat] /\ at[e] \in 1 .. Depth /\ e \in Running
      /\ asking = {} /\ c \in Nodes /\ graph.conditions \subseteq Nodes
  BY <1>1, <1>3, LevelTypes, ReuseAssumption DEF TurnInv, Running, Level
<1>5. TurnInv'
  <2>1. results' \subseteq results
    BY <1>2
  <2> QED BY <1>1, <1>3, <2>1 DEF TurnInv, Level
<1>6. Running' = Running /\ Running \subseteq Execs /\ cut \subseteq cut' /\ cut' \subseteq Execs
  BY <1>1, <1>2, <1>3 DEF Running, RunsInv
<1>7. RunsInv'
  BY <1>1, <1>3, <1>6 DEF RunsInv, Level
<1>8. DecisionsInv'
  <2>1. decisions' \in [Nodes -> {"none", "true", "false"}]
    BY <1>2, <1>4 DEF DecisionsInv, RunsInv
  <2>2. \A d \in Nodes : decisions'[d] # "none" => \E o \in Execs : said[o][d] # "none"
    BY <1>2, <1>4 DEF DecisionsInv
  <2>3. \A o \in Running \ (crowded \cup cut') : o = e /\ e \notin cut /\ e \notin cut'
    BY <1>4, <1>6 DEF RunsInv
  <2>4. ASSUME e \notin crowded, e \notin cut', NEW d \in graph.conditions, Recorded(e, d)', said[e][d] # "none"
        PROVE  decisions'[d] = said[e][d]
    <3>0. /\ results' = results \ {c} /\ e \notin cut /\ decisions \in [Nodes -> {"none", "true", "false"}]
          /\ decisions' = IF said[e][c] = "none" THEN decisions ELSE [decisions EXCEPT ![c] = said[e][c]]
      BY <1>2, <2>4 DEF DecisionsInv
    <3>1. CASE d = c
      BY <1>4, <2>4, <3>0, <3>1
    <3>2. CASE d # c
      <4>1. Recorded(e, d)
        BY <1>1, <1>3, <2>4, <3>0, <3>2 DEF Recorded
      <4>2. decisions[d] = said[e][d]
        BY <1>4, <2>4, <3>0, <4>1 DEF DecisionsInv
      <4> QED BY <1>4, <3>0, <3>2, <4>2
    <3> QED BY <3>1, <3>2
  <2> QED BY <1>1, <1>2, <1>6, <2>1, <2>2, <2>3, <2>4 DEF DecisionsInv
<1>9. AloneInv'
  <2> SUFFICES ASSUME NEW o \in Execs \ (crowded \cup cut)
               PROVE  (NoneLeft(o) => ran[o] \cup pending[o] = RunByNew(o) \cap WasGated(o))'
    BY <1>1, <1>6 DEF AloneInv
  <2>1. NoneLeft(o) => ran[o] \cup pending[o] = RunByNew(o) \cap WasGated(o)
    BY DEF AloneInv
  <2>2. WasGated(o)' = WasGated(o) /\ at'[o] = at[o] /\ at[o] \in Nat
    BY <1>1, <1>3, <1>4 DEF WasGated
  <2> QED BY <1>1, <1>2, <1>3, <2>1, <2>2, AloneStays
<1> QED BY <1>5, <1>7, <1>8, <1>9

(* An execution that ends early is one that is cut short. *)
LEMMA EndKeeps ==
  ASSUME ReuseInv, NEW e \in Execs, EndEarly(e), GatingInv'
  PROVE  ReuseInv'
<1> USE DEF ReuseInv
<1>1. /\ turn = e /\ turn' = Nobody /\ asking' = {} /\ results' = {}
      /\ results # {} \/ asking = Level(at[e])
      /\ at' = [at EXCEPT ![e] = Depth + 1] /\ cut' = cut \cup {e}
      /\ UNCHANGED <<graph, decisions, verdict, installed, pending, ran, said, crowded>>
  BY DEF EndEarly, gatingVars
<1>2. graph \in Graphs /\ LevelOf' = LevelOf /\ Depth' = Depth
  BY <1>1, GraphStays DEF GatingInv
<1>3. /\ Depth \in Nat /\ at \in [Execs -> Nat] /\ at[e] \in 1 .. Depth /\ e # Nobody
      /\ at'[e] = Depth + 1 /\ \A o \in Execs \ {e} : at'[o] = at[o]
  BY <1>1, <1>2, LevelTypes, ReuseAssumption DEF TurnInv
<1>4. TurnInv'
  BY <1>1, <1>3 DEF TurnInv
<1>5. Running' = Running \ {e} /\ Running \subseteq Execs
  BY <1>1, <1>2, <1>3 DEF Running
<1>6. pending[e] = {}
  BY <1>1, <1>3 DEF TurnInv
<1>7. RunsInv'
  <2>1. \A o \in Execs : (at'[o] = 0 => ran'[o] = {}) /\ pending'[o] \subseteq Level(at[o])'
    BY <1>1, <1>2, <1>3, <1>6 DEF RunsInv, Level
  <2> QED BY <1>1, <1>5, <2>1 DEF RunsInv
<1>8. DecisionsInv'
  <2>1. ASSUME NEW o \in Running' \ (crowded \cup cut'), NEW c \in graph.conditions, Recorded(o, c)'
        PROVE  Recorded(o, c)
    BY <1>1, <1>2, <1>3, <1>5, <2>1, ReuseAssumption DEF Recorded
  <2> QED BY <1>1, <1>5, <2>1 DEF DecisionsInv
<1>9. AloneInv'
  <2> SUFFICES ASSUME NEW o \in Execs \ (crowded \cup cut'), o # e
               PROVE  (NoneLeft(o) => ran[o] \cup pending[o] = RunByNew(o) \cap WasGated(o))'
    BY <1>1 DEF AloneInv
  <2>1. NoneLeft(o) => ran[o] \cup pending[o] = RunByNew(o) \cap WasGated(o)
    BY <1>1 DEF AloneInv
  <2>2. WasGated(o)' = WasGated(o) /\ at'[o] = at[o] /\ at[o] \in Nat
    BY <1>1, <1>2, <1>3, ReuseAssumption DEF WasGated
  <2> QED BY <1>1, <1>2, <2>1, <2>2, AloneStays
<1> QED BY <1>4, <1>7, <1>8, <1>9

LEMMA NextKeeps ==
  ASSUME ReuseInv, NEW e \in Execs, NextLevel(e), GatingInv'
  PROVE  ReuseInv'
<1> USE DEF ReuseInv
<1>1. /\ turn = e /\ results = {} /\ asking = {}
      /\ at' = [at EXCEPT ![e] = @ + 1] /\ asking' = Level(at[e] + 1)
      /\ turn' = IF at[e] = Depth THEN Nobody ELSE e
      /\ UNCHANGED <<graph, decisions, verdict, installed, pending, results, ran, said, crowded, cut>>
  BY DEF NextLevel, gatingVars
<1>2. graph \in Graphs /\ LevelOf' = LevelOf /\ Depth' = Depth
  BY <1>1, GraphStays DEF GatingInv
<1>3. /\ Depth \in Nat /\ graph.conditions \subseteq Nodes
      /\ \A n \in Nodes : LevelOf[n] \in Nat \ {0} /\ LevelOf[n] <= Depth
  BY <1>2, LevelTypes
<1>4. /\ e # Nobody /\ at \in [Execs -> Nat] /\ at[e] \in 1 .. Depth /\ pending[e] = {}
      /\ at'[e] = at[e] + 1 /\ \A o \in Execs \ {e} : at'[o] = at[o]
  BY <1>1, ReuseAssumption DEF TurnInv
<1>5. TurnInv'
  <2>1. at[e] = Depth => asking' = {}
    BY <1>1, <1>3 DEF Level
  <2> QED BY <1>1, <1>2, <1>3, <1>4, <2>1 DEF TurnInv, Level
<1>6. Running' \subseteq Running
  BY <1>2, <1>3, <1>4 DEF Running
<1>7. RunsInv'
  <2>1. \A o \in Execs : (at'[o] = 0 => ran'[o] = {}) /\ pending'[o] \subseteq Level(at[o])'
    BY <1>1, <1>2, <1>4 DEF RunsInv, Level
  <2> QED BY <1>1, <1>6, <2>1 DEF RunsInv
<1>8. DecisionsInv'
  <2>1. ASSUME NEW o \in Running' \ (crowded \cup cut), NEW c \in graph.conditions, Recorded(o, c)'
        PROVE  Recorded(o, c)
    <3>0. o \in Execs /\ c \in Nodes
      BY <1>3 DEF Running
    <3>1. CASE o = e
      BY <1>1, <1>2, <1>3, <1>4, <2>1, <3>0, <3>1 DEF Recorded, Level
    <3>2. CASE o # e
      BY <1>1, <1>2, <1>4, <2>1, <3>0, <3>2, ReuseAssumption DEF Recorded, Running
    <3> QED BY <3>1, <3>2
  <2> QED BY <1>1, <1>6, <2>1 DEF DecisionsInv
<1>9. AloneInv'
  <2> SUFFICES ASSUME NEW o \in Execs \ (crowded \cup cut)
               PROVE  (NoneLeft(o) => ran[o] \cup pending[o] = RunByNew(o) \cap WasGated(o))'
    BY <1>1 DEF AloneInv
  <2>1. NoneLeft(o) => ran[o] \cup pending[o] = RunByNew(o) \cap WasGated(o)
    BY DEF AloneInv
  <2>2. at[o] \in Nat /\ (at'[o] = at[o] \/ at'[o] = at[o] + 1)
    BY <1>1, <1>4
  <2>3. CASE o = e
    <3>1. WasGated(e)' = WasGated(e)
      BY <1>1, <1>2, <1>3, <1>4 DEF WasGated, Level
    <3> QED BY <1>1, <1>2, <2>1, <2>2, <2>3, <3>1, AloneStays
  <2>4. CASE o # e
    <3>1. WasGated(o)' = WasGated(o)
      BY <1>1, <1>2, <1>4, <2>4, ReuseAssumption DEF WasGated
    <3> QED BY <1>1, <1>2, <2>1, <2>2, <3>1, AloneStays
  <2> QED BY <2>3, <2>4
<1> QED BY <1>5, <1>7, <1>8, <1>9

LEMMA ReuseHolds == ReuseSpec => []ReuseInv
<1>1. ReuseInit => ReuseInv
  BY ReuseBegins
<1>2. ReuseInv /\ [ReuseNext]_all => ReuseInv'
  <2> SUFFICES ASSUME ReuseInv, [ReuseNext]_all PROVE ReuseInv'
    OBVIOUS
  <2>1. GatingInv'
    BY GatingStays DEF ReuseInv
  <2>2. ASSUME NEW e \in Execs, Install(e) \/ LevelGathered(e) \/ HandleResult(e) \/ NextLevel(e) \/ EndEarly(e)
        PROVE  ReuseInv'
    BY <2>1, <2>2, InstallKeeps, GatheredKeeps, HandleKeeps, NextKeeps, EndKeeps
  <2>3. ASSUME NEW e \in Execs, NEW n \in Nodes, GateNode(e, n) \/ RunNode(e, n) PROVE ReuseInv'
    BY <2>1, <2>3, GateKeeps, RunKeeps
  <2>4. CASE UNCHANGED all
    <3>1. UNCHANGED <<graph, decisions, mine, turn>>
      BY <2>4, Zenon DEF all, gatingVars
    <3>2. UNCHANGED <<graph, decisions, turn, verdict, installed, at, asking, pending, results, ran, said, crowded, cut>>
      BY <3>1, Zenon DEF mine
    <3>3. LevelOf' = LevelOf /\ Depth' = Depth /\ graph \in Graphs
      BY <3>2, GraphStays DEF ReuseInv, GatingInv
    <3>4. Running' = Running
      BY <3>2, <3>3 DEF Running
    <3>5. TurnInv' /\ RunsInv'
      BY <3>2, <3>3, <3>4 DEF ReuseInv, TurnInv, RunsInv, Level
    <3>6. DecisionsInv'
      BY <3>2, <3>3, <3>4 DEF ReuseInv, DecisionsInv, Recorded
    <3>7. AloneInv'
      <4>1. \A e \in Execs : WasGated(e)' = WasGated(e) /\ at[e] \in Nat
        BY <3>2, <3>3 DEF WasGated, ReuseInv, TurnInv
      <4> QED BY <3>2, <3>3, <4>1, AloneStays DEF ReuseInv, AloneInv
    <3> QED BY <2>1, <3>5, <3>6, <3>7 DEF ReuseInv
  <2> QED BY <2>2, <2>3, <2>4 DEF ReuseNext
<1> QED BY <1>1, <1>2, PTL DEF ReuseSpec

(* An execution that no other one interrupted and nothing cut short, and   *)
(* that decided itself every condition ever decided, has run exactly what  *)
(* it would have run on a new object: for any graph, any number of         *)
(* executions and any order of their steps.                                *)
THEOREM LoneRunsLikeNew == ReuseSpec => []AloneRunsLikeNew
<1>1. ReuseInv => AloneRunsLikeNew
  <2> SUFFICES ASSUME ReuseInv, NEW e \in Execs \ (crowded \cup cut), at[e] > Depth, NoLeftovers(e)
               PROVE  ran[e] = RunByNew(e)
    BY DEF AloneRunsLikeNew
  <2>1. graph \in Graphs /\ at[e] \in Nat
    BY DEF ReuseInv, GatingInv, TurnInv
  <2>2. Depth \in Nat /\ \A n \in Nodes : LevelOf[n] \in Nat /\ LevelOf[n] <= Depth
    BY <2>1, LevelTypes
  <2>3. WasGated(e) = Nodes
    BY <2>1, <2>2 DEF WasGated
  <2>4. pending[e] = {}
    BY <2>1, <2>2 DEF ReuseInv, RunsInv, Level
  <2>5. NoneLeft(e)
    BY DEF NoLeftovers, NoneLeft
  <2> QED BY <2>3, <2>4, <2>5 DEF ReuseInv, AloneInv, RunByNew
<1> QED BY <1>1, ReuseHolds, PTL
-----------------------------------------------------------------------------
(* Agents that outlive the execution that built them *)

Prompts == [of : SUBSET Execs, live : BOOLEAN]
Agents == [of : SUBSET Execs, by : Execs \cup {Nobody}]

(* As long as there is no agent, nobody's inputs are in the prompt: they   *)
(* are kept in the same step in which the agent is built.                  *)
AgentsInv ==
  /\ prompt \in [Nodes -> Prompts] /\ agent \in [Nodes -> Agents]
  /\ \A e \in Running \ crowded : installed = e
  /\ \A n \in Nodes : agent[n].by = Nobody => prompt[n].of = {}
  /\ InstructionsAreOwn

LEMMA ExecutorKeeps ==
  ASSUME AgentsInv, NEW e \in Running, NEW n \in Prompted, installed \in Execs,
         AiExecutor(e, n), UNCHANGED <<installed, Running, crowded>>
  PROVE  AgentsInv'
<1>1. CASE UNCHANGED <<prompt, agent>>
  BY <1>1 DEF AgentsInv, InstructionsAreOwn
<1>2. ASSUME NEW text \in Renderings(e, n), prompt' = [prompt EXCEPT ![n] = text], BuildAgent(e, n)
      PROVE  AgentsInv'
  <2>0. n \in Nodes /\ e \in Execs /\ Nobody \notin Execs
    BY ReuseAssumption DEF Running
  <2>1. Inputs(e, n) \subseteq {installed, e} /\ Inputs(e, n) \subseteq Execs
    BY <2>0 DEF Inputs
  <2>2. text \in Prompts /\ text.of \subseteq prompt[n].of \cup {installed, e}
    BY <2>0, <2>1 DEF Renderings, Prompts, AgentsInv
  <2>3. /\ prompt' \in [Nodes -> Prompts] /\ prompt'[n] = text
        /\ \A m \in Nodes \ {n} : prompt'[m] = prompt[m]
    BY <1>2, <2>0, <2>2 DEF AgentsInv
  <2>4. CASE agent[n].by = Nobody
    <3>1. agent' = [agent EXCEPT ![n] = [of |-> text.of, by |-> e]]
      BY <1>2, <2>3, <2>4 DEF BuildAgent
    <3>2. [of |-> text.of, by |-> e] \in Agents
      BY <2>0, <2>2 DEF Prompts, Agents
    <3>3. /\ agent' \in [Nodes -> Agents] /\ agent'[n].by = e /\ agent'[n].of = text.of
          /\ \A m \in Nodes \ {n} : agent'[m] = agent[m]
      BY <2>0, <3>1, <3>2 DEF AgentsInv
    <3>4. e \notin crowded => text.of \subseteq {e}
      BY <2>0, <2>2, <2>4 DEF AgentsInv
    <3>5. InstructionsAreOwn'
      BY <2>0, <3>3, <3>4, ReuseAssumption DEF AgentsInv, InstructionsAreOwn
    <3> QED BY <2>0, <2>3, <3>3, <3>5 DEF AgentsInv
  <2>5. CASE agent[n].by # Nobody
    <3>1. agent' = agent
      BY <1>2, <2>5 DEF BuildAgent
    <3> QED BY <2>3, <2>5, <3>1 DEF AgentsInv, InstructionsAreOwn
  <2> QED BY <2>4, <2>5
<1> QED BY <1>1, <1>2 DEF AiExecutor

(* An agent built by an execution that met no other one holds no inputs of *)
(* another, however many renderings were refused before or follow.         *)
THEOREM AgentsKeepOwnInputs == ReuseSpec => []InstructionsAreOwn
<1>1. ReuseInit => AgentsInv
  BY LevelTypes, ReuseAssumption DEF ReuseInit, GatingInit, AgentsInv, InstructionsAreOwn, Prompts, Agents, Running
<1>2. ReuseInv /\ ReuseInv' /\ AgentsInv /\ [ReuseNext]_all => AgentsInv'
  <2> SUFFICES ASSUME ReuseInv, ReuseInv', AgentsInv, [ReuseNext]_all PROVE AgentsInv'
    OBVIOUS
  <2>1. ASSUME UNCHANGED <<prompt, agent, installed, crowded>>, Running' \subseteq Running PROVE AgentsInv'
    BY <2>1 DEF AgentsInv, InstructionsAreOwn
  <2>2. /\ graph' = graph => Depth' = Depth /\ LevelOf' = LevelOf
        /\ graph \in Graphs /\ Depth \in Nat /\ at \in [Execs -> Nat]
    BY GraphStays, LevelTypes DEF ReuseInv, GatingInv, TurnInv
  <2>3. ASSUME NEW e \in Execs, Install(e) PROVE AgentsInv'
    <3>1. /\ UNCHANGED <<graph, prompt, agent>> /\ installed' = e /\ at' = [at EXCEPT ![e] = 1]
          /\ Running \subseteq crowded' /\ crowded \subseteq crowded'
      BY <2>3 DEF Install, gatingVars
    <3>2. Running' \subseteq Running \cup {e}
      BY <2>2, <3>1 DEF Running
    <3> QED BY <3>1, <3>2 DEF AgentsInv, InstructionsAreOwn
  <2>4. ASSUME NEW e \in Execs, LevelGathered(e) \/ HandleResult(e) \/ NextLevel(e) \/ EndEarly(e)
        PROVE  AgentsInv'
    <3>1. UNCHANGED <<prompt, agent, installed, crowded>> /\ turn \in {e, Nobody}
      BY <2>4 DEF LevelGathered, HandleResult, NextLevel, EndEarly
    <3>2. graph' = graph
      BY <2>4, Zenon DEF LevelGathered, HandleResult, NextLevel, EndEarly, RecordDecision, gatingVars
    <3>3. \/ at' = at
          \/ turn = e /\ \E l \in Nat : at' = [at EXCEPT ![e] = l]
      BY <2>2, <2>4 DEF LevelGathered, HandleResult, NextLevel, EndEarly
    <3>4. turn = e => e \in Running
      BY <2>2, ReuseAssumption DEF ReuseInv, TurnInv, Running
    <3>5. Running' \subseteq Running
      BY <2>2, <3>2, <3>3, <3>4 DEF Running
    <3> QED BY <2>1, <3>1, <3>5
  <2>5. ASSUME NEW e \in Execs, NEW n \in Nodes, GateNode(e, n) PROVE AgentsInv'
    <3>1. UNCHANGED <<graph, at, prompt, agent, installed, crowded>>
      BY <2>5 DEF GateNode, IsNodeActive
    <3> QED BY <2>1, <2>2, <3>1 DEF Running
  <2>6. ASSUME NEW e \in Execs, NEW n \in Nodes, RunNode(e, n) PROVE AgentsInv'
    <3>1. /\ UNCHANGED <<graph, at, installed, crowded>> /\ n \in pending[e]
          /\ IF n \in Prompted THEN AiExecutor(e, n) ELSE UNCHANGED <<prompt, agent>>
      BY <2>6 DEF RunNode, gatingVars
    <3>2. Running' = Running
      BY <2>2, <3>1 DEF Running
    <3>3. e \in Running /\ installed \in Execs
      <4>1. LevelOf[n] = at[e]
        BY <3>1 DEF ReuseInv, RunsInv, Level
      <4> QED BY <2>2, <4>1, LevelTypes DEF ReuseInv, TurnInv, Running
    <3> QED BY <2>1, <3>1, <3>2, <3>3, ExecutorKeeps
  <2>7. CASE UNCHANGED all
    BY <2>1, <2>2, <2>7 DEF all, mine, gatingVars, Running
  <2> QED BY <2>3, <2>4, <2>5, <2>6, <2>7 DEF ReuseNext
<1>3. AgentsInv => InstructionsAreOwn
  BY DEF AgentsInv
<1> QED BY <1>1, <1>2, <1>3, ReuseHolds, PTL DEF ReuseSpec
=============================================================================
