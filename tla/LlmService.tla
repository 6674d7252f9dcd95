------------------------------ MODULE LlmService ------------------------------
(***************************************************************************)
(* LLMService.generate and the four provider handlers behind it.  A call   *)
(* ends with a text or an error, never with an exception.  The handlers    *)
(* turn every failure of the provider's API into an error answer, so that  *)
(* they are asked once; a handler put in their place that lets an API or   *)
(* gateway error out is asked again, at most max_retries times, with a     *)
(* pause in between.  A timer bounds the whole call.                       *)
(***************************************************************************)
EXTENDS ModelCatalogue

CONSTANTS
  Callers,
  Providers,   \* the handlers LLMService has
  Leaky,       \* providers whose handler lets such errors out
  Texts,       \* texts a provider may answer
  MaxRetries   \* max_retries

ASSUME LlmAssumption ==
  /\ Leaky \subseteq Providers
  /\ MaxRetries \in Nat

VARIABLES
  keys,  \* the providers whose API key is in the environment
  call   \* the call each caller makes

llmVars == <<keys, call>>

Error == [error |-> TRUE]
Text(t) == [error |-> FALSE, text |-> t]

NoCall == [at |-> "none"]

LlmInit == keys \in SUBSET Providers /\ call = [c \in Callers |-> NoCall]

(* What generate_text may return: without a key, an error.  OpenAI and     *)
(* Anthropic pass an empty text on; the others answer it with an error.    *)
Handled(p) == {Error} \cup {Text(t) : t \in IF p \in keys THEN Texts ELSE {}}

Answer(c, a) == call' = [call EXCEPT ![c] = [at |-> "answered", answer |-> a]]

Ask(c, p, m) ==
  /\ call[c].at = "none"
  /\ IF p \in Providers
     THEN call' = [call EXCEPT ![c] = [at |-> "asking", provider |-> p, model |-> m, tries |-> 1]]
     ELSE Answer(c, Error)
  /\ UNCHANGED keys

HandlerAnswers(c) ==
  /\ call[c].at = "asking"
  /\ \E a \in Handled(call[c].provider) : Answer(c, a)
  /\ UNCHANGED keys

HandlerRaises(c) ==
  /\ call[c].at = "asking"
  /\ call[c].provider \in Leaky \cap keys
  /\ IF call[c].tries <= MaxRetries
     THEN call' = [call EXCEPT ![c].at = "pausing"]
     ELSE Answer(c, Error)
  /\ UNCHANGED keys

AskAgain(c) ==
  /\ call[c].at = "pausing"
  /\ call' = [call EXCEPT ![c].at = "asking", ![c].tries = @ + 1]
  /\ UNCHANGED keys

(* Mutant: the timer bounds the pauses only. *)
TimesOutPausing(c) ==
  /\ call[c].at = "pausing"
  /\ Answer(c, Error)
  /\ UNCHANGED keys

TimesOut(c) ==
  /\ call[c].at \in {"asking", "pausing"}
  /\ Answer(c, Error)
  /\ UNCHANGED keys

(* The caller takes the answer. *)
Took(c) ==
  /\ call[c].at = "answered"
  /\ call' = [call EXCEPT ![c] = NoCall]
  /\ UNCHANGED keys

===============================================================================
