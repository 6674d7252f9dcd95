---------------------------- MODULE SkillRegistry ----------------------------
(***************************************************************************)
(* The two tables from which skills are found by name: the instances of    *)
(* global_skill_registry and the classes of ToolService, which all of its  *)
(* objects share.  The system skills enter both when their package is      *)
(* imported, at the latest when ToolService does not know a name.  Drafts  *)
(* of workflows are accepted by what the first table holds.                *)
(***************************************************************************)
EXTENDS Integers, SequencesExt

CONSTANTS
  Names,         \* names of skills and of classes
  Classes,       \* classes of skills, each known by its name
  SystemSkills,  \* what ice_sdk.skills.system registers, in order
  Offers,        \* what other code may register
  Validating,    \* classes that define validate()
  Drafts         \* the skills of the drafts that clients save

Entry == [name : Names, class : Classes]

ASSUME RegistryAssumption ==
  /\ Classes \subseteq Names
  /\ SystemSkills \in Seq(Entry) /\ Offers \subseteq Entry
  /\ Drafts \subseteq SUBSET Names

VARIABLES
  skills,       \* global_skill_registry._skills: name to class
  toolClasses,  \* ToolService._registry: name to class
  system,       \* the package of the system skills
  drafts        \* _WORKFLOW_STORE: each draft's skills with their classes

registryVars == <<skills, toolClasses, system, drafts>>

NoEntries == [n \in {} |-> n]

RegistryInit ==
  /\ skills = NoEntries /\ toolClasses = NoEntries
  /\ system \in {"absent", "broken"}
  /\ drafts = {}

-----------------------------------------------------------------------------
(* Registration *)

(* The table with the entries of added in it, which replace those that are *)
(* there: TLC's @@, which the provers do not know.                         *)
Updated(table, added) ==
  [n \in DOMAIN added \cup DOMAIN table |-> IF n \in DOMAIN added THEN added[n] ELSE table[n]]

Registers(entries) ==
  LET added == [n \in {e.name : e \in entries} |-> (CHOOSE e \in entries : e.name = n).class]
  IN  /\ skills' = Updated(skills, added)
      /\ toolClasses' = Updated(toolClasses, added)

(* SkillRegistry.register; a name that is taken raises.                    *)
RegisterSkill(e) ==
  /\ e.name \notin DOMAIN skills
  /\ Registers({e})
  /\ UNCHANGED <<system, drafts>>

(* The package registers its skills in one try block: the first name that  *)
(* is taken keeps the rest out.                                            *)
Importable ==
  {SystemSkills[i] : i \in {k \in DOMAIN SystemSkills :
     \A j \in 1 .. k : SystemSkills[j].name \notin DOMAIN skills}}

ImportSystem ==
  /\ system = "absent"
  /\ system' = "imported"
  /\ Registers(Importable)
  /\ UNCHANGED drafts

(* Mutant: a class replaces what its name stood for. *)
WithClassesAnew(cs) == Updated(toolClasses, [c \in cs |-> c])

(* ToolService.register knows a class by its own name and ignores one that *)
(* is there.                                                               *)
WithClasses(cs) == Updated(toolClasses, [c \in cs \ DOMAIN toolClasses |-> c])

-----------------------------------------------------------------------------
(* Use *)

(* ToolService.execute: a name it does not know makes it import the system *)
(* package, unless that fails, and look again, then in the registry.       *)
Resolve(n) ==
  IF n \in DOMAIN toolClasses \/ system # "absent"
  THEN UNCHANGED registryVars
  ELSE ImportSystem

Resolved(n) == n \in DOMAIN toolClasses' \cup DOMAIN skills'

(* save_workflow: every skill has to be known and to be validated, which   *)
(* fails where validate() is pydantic's own.                               *)
SaveDraft(d) ==
  /\ \A n \in d : n \in DOMAIN skills /\ skills[n] \in Validating
  /\ drafts' = drafts \cup {[n \in d |-> skills[n]]}
  /\ UNCHANGED <<skills, toolClasses, system>>

RegistryNext ==
  \/ \E e \in Offers : RegisterSkill(e)
  \/ ImportSystem
  \/ \E d \in Drafts : SaveDraft(d)

-----------------------------------------------------------------------------
(* Properties *)

(* Whatever is registered in whichever order and by whom, a skill is the   *)
(* same class in both tables, and the skills of a saved draft are still    *)
(* run as the classes that were validated.                                 *)
RegistriesAgree ==
  /\ \A n \in DOMAIN skills : n \in DOMAIN toolClasses /\ toolClasses[n] = skills[n]
  /\ \A d \in drafts : \A n \in DOMAIN d : n \in DOMAIN toolClasses /\ toolClasses[n] = d[n]

===============================================================================
