---------------------------- MODULE MCPromptInputs ----------------------------
(* Windows and limits of a few tokens, outputs a little longer than they,  *)
(* every rule, documents of up to six words, templates for each provider.  *)
EXTENDS PromptInputs

MCRules ==
  {r \in [format : ContextFormat, limit : {None, -1, 0, 1, 2, 3}, truncate : BOOLEAN, specs : BOOLEAN] :
     r.specs => r.format = "custom"}

MCLimits == {-1, 0, 1, 3}
MCSizes == {None, -1, 0, 1, 2, 3}
MCOverlaps == {None, -1, 0, 1, 2, 3}

MCTemplates ==
  [provider : ModelProvider, legacy : BOOLEAN, wellFormed : BOOLEAN,
   minimum : {"gpt-4", "gpt-4o", "gpt-3.5-turbo", "claude-2", "gemini-ultra", "deepseek-v3.1"}]
===============================================================================
