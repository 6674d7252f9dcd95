---------------------------- MODULE ModelCatalogue ----------------------------
(***************************************************************************)
(* Which models a configuration may name.  Two tables answer that: the     *)
(* versions of the models each provider has, and the registry of allowed   *)
(* models.  They are kept apart and agree only for some models of OpenAI.  *)
(* Templates ask for a least version.                                      *)
(***************************************************************************)
EXTENDS Integers, Sequences

ModelProvider == {"openai", "anthropic", "google", "deepseek", "custom"}

-----------------------------------------------------------------------------
(* Versions *)

Versions ==
  [openai |->
     {<<"gpt-4", <<4, 0, 0>>>>, <<"gpt-4-turbo", <<4, 1, 0>>>>,
      <<"gpt-4-turbo-2024-04-09", <<4, 1, 1>>>>, <<"gpt-4-32k", <<4, 0, 1>>>>,
      <<"gpt-3.5-turbo", <<3, 5, 0>>>>, <<"gpt-4o", <<4, 2, 0>>>>,
      <<"gpt-4.1", <<4, 1, 0>>>>, <<"gpt-4-1106-preview", <<4, 1, 0>>>>},
   anthropic |->
     {<<"claude-opus-4-20250514", <<4, 0, 0>>>>, <<"claude-sonnet-4-20250514", <<4, 0, 0>>>>,
      <<"claude-3-7-sonnet-20250219", <<3, 7, 0>>>>,
      <<"claude-3-5-sonnet-20241022", <<3, 5, 1>>>>,
      <<"claude-3-5-sonnet-20240620", <<3, 5, 0>>>>,
      <<"claude-3-5-haiku-20241022", <<3, 5, 0>>>>,
      <<"claude-3-opus-20240229", <<3, 0, 0>>>>, <<"claude-3-sonnet-20240229", <<3, 0, 0>>>>,
      <<"claude-3-haiku-20240307", <<3, 0, 0>>>>,
      <<"claude-2", <<2, 0, 0>>>>, <<"claude-2.1", <<2, 1, 0>>>>},
   google |->
     {<<"gemini-1.0-pro-latest", <<1, 0, 0>>>>, <<"gemini-ultra", <<1, 0, 0>>>>,
      <<"gemini-1.5-flash-latest", <<1, 5, 0>>>>}]

(* parse_model_version, which raises where there is no version: any model  *)
(* of DeepSeek and of a custom provider has one; a configuration without a *)
(* provider has none.                                                      *)
VersionsOf(p, m) ==
  IF p \in {"deepseek", "custom"} THEN {<<1, 0, 0>>}
  ELSE IF p \in DOMAIN Versions THEN {row[2] : row \in {r \in Versions[p] : r[1] = m}} ELSE {}

HasVersion(p, m) == VersionsOf(p, m) # {}

AtLeast(v, w) ==
  v = w \/ \E i \in DOMAIN v : v[i] > w[i] /\ \A j \in 1 .. i - 1 : v[j] = w[j]

-----------------------------------------------------------------------------
(* The registry *)

Registry ==
  {"gpt-4.1", "gpt-4o", "gpt-4-turbo-2024-04-09", "gpt-4.5-preview", "claude-4-sonnet",
   "claude-4-opus", "gemini-2.5-pro", "deepseek-v3.1"}

Banned == {"gpt-3.5-turbo", "gpt-3.5", "gpt-3.5-turbo-0613"}

IsAllowed(m) == m \in Registry \ Banned

(* LLMConfig: the registry is not asked whose model it is. *)
Accepts(p, m) == HasVersion(p, m) /\ IsAllowed(m)

-----------------------------------------------------------------------------
(* Templates *)

(* is_compatible_with_model compares versions across providers. *)
Fits(template, p, m) ==
  \E v \in VersionsOf(p, m), w \in VersionsOf(template.provider, template.minimum) : AtLeast(v, w)

(* Role and version must be well formed.  The least version is validated   *)
(* before the provider is known: as one of OpenAI.                         *)
Creates(template) == template.wellFormed /\ HasVersion("openai", template.minimum)

(* Mutant: the constructor checks nothing more. *)
CreatesLegacyUnfit(template) == Creates(template)

(* The deprecated class also wants the least version to fit itself.        *)
CreatesLegacy(template) ==
  Creates(template) /\ Fits(template, template.provider, template.minimum)

===============================================================================
