----------------------------- MODULE PromptInputs -----------------------------
(***************************************************************************)
(* What becomes of the material for prompts: an output is cut to the       *)
(* manager's window when it is stored, formatted by a rule or compressed   *)
(* when it is used; documents are split into chunks; templates ask for a   *)
(* least model.  A text is told by its length, any other output by the     *)
(* length of its JSON form: every cut is a prefix.                         *)
(* Without tiktoken the module that counts tokens cannot be imported.      *)
(***************************************************************************)
EXTENDS ModelCatalogue, FiniteSets, Functions

CONSTANTS
  Windows,         \* values of GraphContextManager.max_tokens
  MaxChars,        \* bound: the length of an output, in whatever form
  Rules,           \* context rules
  Limits,          \* max_tokens of smart_context_compression
  MaxWords,        \* bound: the words of a document
  Sizes, Overlaps, \* what callers of chunk_text ask for
  DefaultSize, DefaultOverlap,
  Templates,
  None

ContextFormat == {"text", "json", "markdown", "code", "custom"}

(* A rule, and whether the node has specifications for a custom format.    *)
(* Whether the context is included or required is read nowhere.            *)
ContextRule ==
  [format : ContextFormat, limit : Int \cup {None}, truncate : BOOLEAN, specs : BOOLEAN]

ASSUME PromptAssumption ==
  /\ Rules \subseteq ContextRule
  /\ Windows \subseteq Nat /\ Limits \subseteq Int /\ MaxChars \in Nat /\ MaxWords \in Nat
  /\ Sizes \cup Overlaps \subseteq Int \cup {None}
  /\ DefaultSize \in Nat \ {0} /\ DefaultOverlap \in Nat

VARIABLES
  tiktoken,  \* whether tiktoken is installed
  window,    \* max_tokens of the manager; 0 is no limit
  stored,    \* an output in the context store
  doing      \* the operation under way or just done, with its result

vars == <<tiktoken, window, stored, doing>>

LeastChars == [text |-> 0, number |-> 1, object |-> 2]
Output == {c \in [kind : DOMAIN LeastChars, chars : 0 .. MaxChars] : c.chars >= LeastChars[c.kind]}
IsString(c) == c.kind = "text"

Nothing == [kind |-> "nothing", chars |-> 0]
Idle == [op |-> "idle"]

Init ==
  /\ tiktoken \in BOOLEAN /\ window \in Windows
  /\ stored = Nothing /\ doing = Idle

(* estimate_tokens, and the characters kept for so many tokens.            *)
Estimate(chars) == chars \div 4
Budget(tokens) == 4 * tokens

(* The length of text[:n], which a negative n takes from the end.          *)
Prefix(chars, n) ==
  IF n >= 0 THEN (IF chars <= n THEN chars ELSE n)
            ELSE (IF chars + n >= 0 THEN chars + n ELSE 0)

-----------------------------------------------------------------------------
(* Storing an output *)

(* The prefix of what was serialised is parsed again, and what it parses   *)
(* to need not be as long as it is: 1e15 becomes 1000000000000000.0.  What *)
(* does not parse, a fragment of an object always, is stored as text, and  *)
(* so is, without its quotes, what parses to a string.                     *)
Reparsed(c) ==
  {o \in Output :
     \/ o.kind = "text" /\ o.chars = Budget(window)
     \/ c.kind = "text" /\ o.kind = "text" /\ o.chars <= Budget(window) - 2
     \/ c.kind \in {"text", "number"} /\ o.kind = "number"
     \/ c.kind = "text" /\ o.kind = "object"}

(* update_node_context; without tiktoken only strings are cut.             *)
Windowed(c) ==
  IF window = 0 THEN {c}
  ELSE IF tiktoken
       THEN IF Estimate(c.chars) > window THEN Reparsed(c) ELSE {c}
       ELSE IF IsString(c) /\ c.chars > Budget(window)
            THEN {[c EXCEPT !.chars = Budget(window)]} ELSE {c}

UpdateNodeContext(c) ==
  /\ stored' \in Windowed(c)
  /\ doing' = Idle
  /\ UNCHANGED <<tiktoken, window>>

-----------------------------------------------------------------------------
(* Using it *)

(* validate_context_rules, of rules for nodes the manager's graph has: a   *)
(* manager without a limit allows none to the rules either.                *)
RuleIsValid(rule) == rule.limit \in {None, 0} \/ rule.limit <= window

(* Strings stay as they are, unless what is JSON in them is indented;      *)
(* other outputs are written by str or with indentation, in any length.    *)
Bodies(format, c) == IF IsString(c) /\ format # "json" THEN {c.chars} ELSE 0 .. MaxChars

Fences(format, c) ==
  CASE format = "code" -> 8
    [] format = "markdown" /\ ~IsString(c) -> 16
    [] OTHER -> 0

(* A limit of 0 leaves nothing, but without tiktoken it leaves everything. *)
Kept(rule, chars) ==
  LET over == IF tiktoken THEN Estimate(chars) > rule.limit
                          ELSE rule.limit # 0 /\ chars > Budget(rule.limit)
  IN  IF rule.limit # None /\ rule.truncate /\ over THEN Prefix(chars, Budget(rule.limit)) ELSE chars

(* Mutant: what is cut is the content, and the fences come on top. *)
FormattedOnTop(rule, c) == {Kept(rule, n) + Fences(rule.format, c) : n \in Bodies(rule.format, c)}

Formatted(rule, c) == {Kept(rule, n + Fences(rule.format, c)) : n \in Bodies(rule.format, c)}

(* The handler of custom formats cannot be called without format_specs.    *)
FormatContext(rule) ==
  /\ stored # Nothing
  /\ IF rule.format = "custom" /\ ~rule.specs
     THEN doing' = [op |-> "raised"]
     ELSE \E n \in Formatted(rule, stored) :
            doing' = [op |-> "formatted", valid |-> RuleIsValid(rule), rule |-> rule, chars |-> n]
  /\ UNCHANGED <<tiktoken, window, stored>>

Truncated(c, limit) ==
  IF IsString(c) /\ limit # 0 /\ Estimate(c.chars) > limit
  THEN [c EXCEPT !.chars = Prefix(@, Budget(limit))] ELSE c

(* A summary that was cut ends in an ellipsis instead of three characters, *)
(* without a limit too.                                                    *)
Summarised(c, limit) ==
  [kind |-> "text",
   chars |-> IF c.chars <= Budget(limit) THEN c.chars ELSE Prefix(c.chars, Budget(limit) - 3) + 1]

(* smart_context_compression; "embed" truncates, other names do nothing.   *)
Compress(strategy, asked) ==
  LET limit == IF asked = 0 THEN window ELSE asked
      result == CASE strategy \in {"truncate", "embed"} -> Truncated(stored, limit)
                  [] strategy = "summarize" -> Summarised(stored, limit)
                  [] OTHER -> stored
  IN
  /\ stored # Nothing
  /\ doing' = IF tiktoken
              THEN [op |-> "compressed", strategy |-> strategy, limit |-> limit, result |-> result]
              ELSE [op |-> "raised"]
  /\ UNCHANGED <<tiktoken, window, stored>>

-----------------------------------------------------------------------------
(* Documents *)

(* "or": a 0 is taken for no choice.                                       *)
Chosen(asked, default) == IF asked \in {None, 0} THEN default ELSE asked

(* Mutant: an overlap as large as a chunk is let through. *)
RefusesLargerOnly(size, overlap) == size <= 0 \/ overlap > size

Refuses(size, overlap) == size <= 0 \/ overlap >= size

ChunkText(words, asked, askedOverlap) ==
  LET size == Chosen(asked, DefaultSize)
      overlap == Chosen(askedOverlap, DefaultOverlap)
  IN
  /\ doing' = IF Refuses(size, overlap)
              THEN [op |-> "raised"]
              ELSE [op |-> IF words = 0 THEN "chunked" ELSE "chunking", words |-> words,
                    size |-> size, overlap |-> overlap, start |-> 0, chunks |-> <<>>]
  /\ UNCHANGED <<tiktoken, window, stored>>

(* One turn of the loop: the chunk after the first start words.            *)
NextChunk ==
  LET d == doing
      end == IF d.start + d.size < d.words THEN d.start + d.size ELSE d.words
  IN
  /\ d.op = "chunking"
  /\ doing' = [d EXCEPT !.chunks = Append(@, d.start + 1 .. end),
                        !.op = IF end = d.words \/ end - d.overlap >= d.words
                               THEN "chunked" ELSE @,
                        !.start = IF end = d.words THEN @ ELSE end - d.overlap]
  /\ UNCHANGED <<tiktoken, window, stored>>

CreateTemplate(t) ==
  /\ doing' = [op |-> "template", template |-> t,
               made |-> IF t.legacy THEN CreatesLegacy(t) ELSE Creates(t)]
  /\ UNCHANGED <<tiktoken, window, stored>>

(* The caller has what it asked for. *)
Return ==
  /\ doing.op \notin {"idle", "chunking"}
  /\ doing' = Idle
  /\ UNCHANGED <<tiktoken, window, stored>>

Next ==
  \/ NextChunk
  \/ Return
  \/ /\ doing.op = "idle"
     /\ \/ \E c \in Output : UpdateNodeContext(c)
        \/ \E rule \in Rules : FormatContext(rule)
        \/ \E s \in {"truncate", "summarize", "embed", "other"}, l \in Limits : Compress(s, l)
        \/ \E w \in 0 .. MaxWords, s \in Sizes, o \in Overlaps : ChunkText(w, s, o)
        \/ \E t \in Templates : CreateTemplate(t)

Spec == Init /\ [][Next]_vars

-----------------------------------------------------------------------------
(* Properties *)

LimitsSomething(rule) == rule.limit # None /\ rule.limit > 0

(* A string in the store is within the window, whether the output was one  *)
(* or became one by the cut, with tiktoken and without.  What is made of   *)
(* any output within a limit keeps to that limit, whatever re-parsing and  *)
(* formatting add: a rule that passed validation, unless it asks for less  *)
(* than nothing, to the window, and a summary to what was asked for.       *)
WindowHeld ==
  /\ window # 0 /\ IsString(stored) => Estimate(stored.chars) <= window
  /\ doing.op = "formatted" /\ doing.valid /\ doing.rule.truncate /\ LimitsSomething(doing.rule) =>
       Estimate(doing.chars) <= window
  /\ doing.op = "compressed" /\ doing.strategy = "summarize" /\ doing.limit > 0 =>
       Estimate(doing.result.chars) <= doing.limit

(* Every chunk has new words and no more than were asked for, consecutive  *)
(* ones share the overlap exactly, and together they are the document: so  *)
(* the loop ends.  A negative overlap, which is not refused, skips words.  *)
ChunksCover ==
  doing.op \in {"chunking", "chunked"} /\ doing.overlap >= 0 =>
    /\ \A i \in DOMAIN doing.chunks :
         /\ Cardinality(doing.chunks[i]) <= doing.size
         /\ ~ doing.chunks[i] \subseteq UNION {doing.chunks[j] : j \in 1 .. i - 1}
         /\ i > 1 => Cardinality(doing.chunks[i] \cap doing.chunks[i - 1]) = doing.overlap
    /\ doing.op = "chunked" => UNION Range(doing.chunks) = 1 .. doing.words

(* A template that was created can be used with some model LLMConfig       *)
(* accepts for its provider: always in the deprecated class, in the new    *)
(* one for the provider whose models it checks.                            *)
TemplatesUsable ==
  doing.op = "template" /\ doing.made /\ (doing.template.legacy \/ doing.template.provider = "openai") =>
    \E m \in Registry :
      Accepts(doing.template.provider, m) /\ Fits(doing.template, doing.template.provider, m)

===============================================================================
