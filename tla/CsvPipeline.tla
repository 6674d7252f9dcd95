----------------------------- MODULE CsvPipeline -----------------------------
(***************************************************************************)
(* Runs of the CSV workflow of the examples on one file: reader, line_gen, *)
(* writer, validator, summarizer, insights, each after the one before and  *)
(* fed from its output.  A run may also carry its line in the blueprint;   *)
(* it then has no line_gen.  The runs share the server and the file; the   *)
(* skills touch the file in worker threads, without a lock.                *)
(*                                                                         *)
(* A table fits the I/O buffer, so it is flushed when it is closed; where  *)
(* a closed file is longer than what is written over it, the rest stays.   *)
(***************************************************************************)
EXTENDS LlmService, SequencesExt

CONSTANTS
  Columns,    \* names of columns
  KeyColumn,  \* key_column of the writer
  Required,   \* required_columns of the validator
  Values,     \* what a cell may hold
  Blank,      \* the empty cell
  Tables,     \* tables the file may hold at first
  Retries     \* retries of each node

Runs == Callers

Actions == {"append", "update", "delete"}
IsLine(t) == t.kind = "line"        \* JSON with a row and an action
IsBrief(t) == t.kind = "brief"      \* fewer than 20 characters
Lines == {t \in Texts : IsLine(t)}

(* Rows by their columns, of which a line may name none at all.            *)
Row == UNION {[columns -> Values \cup {Blank}] : columns \in SUBSET Columns}

ASSUME PipelineAssumption ==
  /\ Required \cup {KeyColumn} \subseteq Columns /\ Required # {}
  /\ Blank \notin Values
  /\ Retries \in Nat
  /\ \A l \in Lines : l.row \in Row
  /\ \A t \in Tables : /\ t.rows \in Seq({row \in Row : DOMAIN row = t.head})
                       /\ t.head = {} => t.rows = <<>>

NoTable == [head |-> {}, rows |-> <<>>]
NotWritten == [step |-> "not written"]
NoJob == [step |-> "idle"]
NoLine == [kind |-> "none"]

VARIABLES
  file,     \* the CSV file: its columns and its rows
  job,      \* the thread that rewrites the file for the writer of a run
  at,       \* the node each run has reached
  memory,   \* outputs of its nodes: line, report, clean rows, summary
  attempt,  \* failed attempts of the present node
  outcome,  \* what the API reports of the run
  left,     \* history: the file as the run's writer left it
  met       \* history: two writers were at work together

tableVars == <<file, job, left, met>>
runVars == <<at, memory, attempt, outcome>>
pipelineVars == <<llmVars, tableVars, runVars>>

Nodes == {"reader", "line_gen", "writer", "validator", "summarizer", "insights"}

PipelineInit ==
  /\ LlmInit
  /\ file \in Tables
  /\ job = [r \in Runs |-> NoJob]
  /\ at = [r \in Runs |-> "reader"]
  /\ memory \in [Runs -> {[line |-> l, report |-> <<>>, clean |-> <<>>, summary |-> "none"] :
                            l \in Lines \cup {NoLine}}]
  /\ attempt = [r \in Runs |-> 0]
  /\ outcome = [r \in Runs |-> "running"]
  /\ left = [r \in Runs |-> NotWritten]
  /\ met = FALSE

-----------------------------------------------------------------------------
(* A node ends *)

Succeeds(r, next) ==
  /\ at' = [at EXCEPT ![r] = next]
  /\ attempt' = [attempt EXCEPT ![r] = 0]
  /\ UNCHANGED outcome

(* Mutant: a node whose inputs are missing is skipped. *)
FailsQuietly(r) ==
  /\ IF attempt[r] < Retries
     THEN attempt' = [attempt EXCEPT ![r] = @ + 1] /\ UNCHANGED <<at, outcome>>
     ELSE /\ at' = [at EXCEPT ![r] = "end"]
          /\ outcome' = [outcome EXCEPT ![r] = "success"]
          /\ UNCHANGED attempt
  /\ UNCHANGED memory

(* A failed node is tried again while retries are left.  After that the    *)
(* policy lets the run go on, because its reader has not failed; the next  *)
(* node finds its inputs missing and execute() raises, which is reported   *)
(* as a failure.  After the last node nothing raises, and WorkflowService  *)
(* reports success.                                                        *)
Fails(r) ==
  /\ IF attempt[r] < Retries
     THEN attempt' = [attempt EXCEPT ![r] = @ + 1] /\ UNCHANGED <<at, outcome>>
     ELSE /\ at' = [at EXCEPT ![r] = "end"]
          /\ outcome' = [outcome EXCEPT ![r] = IF at[r] = "insights" THEN "success" ELSE "failure"]
          /\ UNCHANGED attempt
  /\ UNCHANGED memory

(* LLMConfig refuses a model that has no version or is not allowed.        *)
Request(r, p, m) ==
  IF Accepts(p, m)
  THEN Ask(r, p, m) /\ UNCHANGED <<tableVars, runVars>>
  ELSE Fails(r) /\ UNCHANGED <<tableVars, llmVars>>

-----------------------------------------------------------------------------
(* reader and line_gen *)

(* The file may be missing or undecodable.  A writer whose line is in the  *)
(* blueprint takes nothing from the reader: its run goes on when the       *)
(* retries are used up as if there had been no failure.                    *)
ReadHeaders(r) ==
  /\ at[r] = "reader"
  /\ \/ /\ Succeeds(r, IF memory[r].line = NoLine THEN "line_gen" ELSE "writer")
        /\ UNCHANGED memory
     \/ /\ attempt[r] < Retries \/ memory[r].line = NoLine
        /\ Fails(r)
  /\ UNCHANGED <<tableVars, llmVars>>

AskForLine(r) ==
  /\ at[r] = "line_gen"
  /\ call[r] = NoCall
  /\ Request(r, "openai", "gpt-4o")

LineAnswered(r) ==
  /\ at[r] = "line_gen"
  /\ Took(r)
  /\ LET a == call[r].answer IN
       IF ~a.error /\ IsLine(a.text)
       THEN memory' = [memory EXCEPT ![r].line = a.text] /\ Succeeds(r, "writer")
       ELSE Fails(r)
  /\ UNCHANGED tableVars

-----------------------------------------------------------------------------
(* writer *)

Cell(row, c) == IF c \in DOMAIN row THEN {row[c]} ELSE {}

(* The cells DictWriter puts into the file. *)
Fitted(row, head) == [c \in head |-> IF c \in DOMAIN row THEN row[c] ELSE Blank]

FitsColumns(row, head) == DOMAIN row \subseteq head

(* With no row in the file the columns are those of the new row. *)
ColumnsFor(row) == IF file.rows = <<>> THEN DOMAIN row ELSE file.head

Matches(row) == {i \in DOMAIN file.rows : Cell(file.rows[i], KeyColumn) = Cell(row, KeyColumn)}
FirstOf(positions) == CHOOSE i \in positions : \A j \in positions : i <= j

(* Mutant: an updated row goes to the end. *)
AppliedAtEnd(line) ==
  CASE line.action = "append" -> Append(file.rows, line.row)
    [] line.action = "update" -> Append(RemoveAt(file.rows, FirstOf(Matches(line.row))), line.row)
    [] line.action = "delete" -> RemoveAt(file.rows, FirstOf(Matches(line.row)))

Applied(line) ==
  CASE line.action = "append" -> Append(file.rows, line.row)
    [] line.action = "update" -> ReplaceAt(file.rows, FirstOf(Matches(line.row)), line.row)
    [] line.action = "delete" -> RemoveAt(file.rows, FirstOf(Matches(line.row)))

Writing == {r \in Runs : job[r].step # "idle"}

(* The thread reads the whole table and applies the action in memory. *)
ReadTable(r) ==
  LET line == memory[r].line IN
  /\ at[r] = "writer" /\ job[r].step = "idle"
  /\ line.action \in Actions
  /\ line.action = "append" \/ Matches(line.row) # {}
  /\ job' = [job EXCEPT ![r] = [step |-> "read", head |-> ColumnsFor(line.row),
                                before |-> file.rows, rows |-> Applied(line)]]
  /\ met' = (met \/ Writing # {})
  /\ UNCHANGED <<file, left, runVars, llmVars>>

(* The input is no valid action, or no row has the key. *)
WriterRefuses(r) ==
  LET line == memory[r].line IN
  /\ at[r] = "writer" /\ job[r].step = "idle"
  /\ \/ line.action \notin Actions
     \/ line.action # "append" /\ Matches(line.row) = {}
  /\ Fails(r)
  /\ UNCHANGED <<tableVars, llmVars>>

Truncate(r) ==
  /\ job[r].step = "read"
  /\ file' = NoTable
  /\ job' = [job EXCEPT ![r].step = "truncated"]
  /\ UNCHANGED <<left, met, runVars, llmVars>>

(* The rows up to the first that has a cell outside the columns. *)
Writable(head, rows) ==
  SubSeq(rows, 1,
         FirstOf({i \in 1 .. Len(rows) + 1 : i > Len(rows) \/ ~FitsColumns(rows[i], head)}) - 1)

(* What is found of them in the file: without columns nothing is, for      *)
(* readers skip empty lines.                                               *)
Written(head, rows) ==
  IF head = {} THEN <<>> ELSE [i \in DOMAIN Writable(head, rows) |-> Fitted(rows[i], head)]

WriteBack(r) ==
  LET j == job[r]
      written == Written(j.head, j.rows)
      whole == Len(Writable(j.head, j.rows)) = Len(j.rows)
  IN
  /\ j.step = "truncated"
  /\ file' = [head |-> IF j.head = {} THEN file.head ELSE j.head,
              rows |-> written \o SubSeq(file.rows, Len(written) + 1, Len(file.rows))]
  /\ job' = [job EXCEPT ![r] = NoJob]
  /\ IF whole
     THEN /\ memory' = [memory EXCEPT ![r].report = j.rows]
          /\ left' = [left EXCEPT ![r] = file']
          /\ Succeeds(r, "validator")
     ELSE Fails(r) /\ UNCHANGED left
  /\ UNCHANGED <<met, llmVars>>

-----------------------------------------------------------------------------
(* validator, summarizer and insights *)

(* Mutant: a column need only be there. *)
CompletePresent(row) == \A c \in Required : c \in DOMAIN row

Complete(row) == \A c \in Required : c \in DOMAIN row /\ row[c] # Blank

(* The complete rows in their order: the k-th is the one up to which there *)
(* are k.                                                                  *)
CompleteRows(rows) ==
  LET kept == {i \in DOMAIN rows : Complete(rows[i])}
      nth(k) == CHOOSE i \in kept : Cardinality({j \in kept : j <= i}) = k
  IN  [k \in 1 .. Cardinality(kept) |-> rows[nth(k)]]

Validate(r) ==
  /\ at[r] = "validator"
  /\ memory' = [memory EXCEPT ![r].clean = CompleteRows(memory[r].report)]
  /\ Succeeds(r, "summarizer")
  /\ UNCHANGED <<tableVars, llmVars>>

SummariseOffline(r) ==
  /\ at[r] = "summarizer"
  /\ {"openai", "anthropic"} \cap keys = {}
  /\ memory' = [memory EXCEPT ![r].summary = "long"]
  /\ Succeeds(r, "insights")
  /\ UNCHANGED <<tableVars, llmVars>>

AskForSummary(r) ==
  /\ at[r] = "summarizer"
  /\ {"openai", "anthropic"} \cap keys # {}
  /\ call[r] = NoCall
  /\ IF "openai" \in keys
     THEN Request(r, "openai", "gpt-4o")
     ELSE Request(r, "anthropic", "claude-3-sonnet-20240229")

SummaryAnswered(r) ==
  /\ at[r] = "summarizer"
  /\ Took(r)
  /\ LET a == call[r].answer IN
       IF ~a.error
       THEN /\ memory' = [memory EXCEPT ![r].summary = IF IsBrief(a.text) THEN "brief" ELSE "long"]
            /\ Succeeds(r, "insights")
       ELSE Fails(r)
  /\ UNCHANGED tableVars

InsightsRefuse(r) ==
  /\ at[r] = "insights"
  /\ memory[r].summary = "brief"
  /\ Fails(r)
  /\ UNCHANGED <<tableVars, llmVars>>

AskForInsights(r) ==
  /\ at[r] = "insights"
  /\ memory[r].summary = "long"
  /\ call[r] = NoCall
  /\ Request(r, "openai", "gpt-4o")

InsightsAnswered(r) ==
  /\ at[r] = "insights"
  /\ Took(r)
  /\ IF call[r].answer.error
     THEN Fails(r)
     ELSE /\ at' = [at EXCEPT ![r] = "end"]
          /\ outcome' = [outcome EXCEPT ![r] = "success"]
          /\ UNCHANGED <<memory, attempt>>
  /\ UNCHANGED tableVars

-----------------------------------------------------------------------------
ProviderStep(r) == (HandlerAnswers(r) \/ HandlerRaises(r)) /\ UNCHANGED <<tableVars, runVars>>
TimerStep(r) == (AskAgain(r) \/ TimesOut(r)) /\ UNCHANGED <<tableVars, runVars>>

RunStep(r) ==
  \/ ReadHeaders(r) \/ AskForLine(r) \/ LineAnswered(r)
  \/ ReadTable(r) \/ WriterRefuses(r) \/ Truncate(r) \/ WriteBack(r)
  \/ Validate(r)
  \/ SummariseOffline(r) \/ AskForSummary(r) \/ SummaryAnswered(r)
  \/ InsightsRefuse(r) \/ AskForInsights(r) \/ InsightsAnswered(r)
  \/ TimerStep(r)

Settled == (\A r \in Runs : at[r] = "end") /\ UNCHANGED pipelineVars

PipelineNext == (\E r \in Runs : RunStep(r) \/ ProviderStep(r)) \/ Settled

(* The event loop and the threads go on, and timers go off.  Nothing is    *)
(* asked of the providers: they may never answer.                          *)
PipelineSpec ==
  PipelineInit /\ [][PipelineNext]_pipelineVars /\ \A r \in Runs : WF_pipelineVars(RunStep(r))

-----------------------------------------------------------------------------
(* Properties *)

Content(row) == [c \in {d \in DOMAIN row : row[d] # Blank} |-> row[c]]
Contents(rows) == [i \in DOMAIN rows |-> Content(rows[i])]

(* csv_writer changes the table by one whole append, update or delete at a *)
(* time while writers do not meet; between its truncation and its write    *)
(* the table is the one it had read.  What it lacks of a row is empty.     *)
RowContents == {Content(l.row) : l \in Lines} \cup
               UNION {Range(Contents(t.rows)) : t \in Tables}
Emptied == {r \in Runs : job[r].step = "truncated"}
Table == INSTANCE CsvTable WITH
  rows <- Contents(IF Emptied # {} /\ ~met THEN job[CHOOSE r \in Emptied : TRUE].before ELSE file.rows),
  spoilt <- met
ImplementsTable == Table!TableSpec

(* Validator and summarizer work on what the writer reported, not on the   *)
(* file; while writers do not meet that comes to the same: the summary is  *)
(* of the complete rows of the file as the run's writer left it.           *)
SummaryIsOfTheFile ==
  \A r \in Runs : memory[r].summary # "none" /\ ~met =>
    Contents(memory[r].clean) = Contents(CompleteRows(left[r].rows))

(* A run the API reports as a success has written its line and summarised  *)
(* the table, although should_continue lets a failed run go on and         *)
(* WorkflowService calls a run a success whatever its result says.         *)
SuccessMeansSummarised ==
  \A r \in Runs : outcome[r] = "success" => left[r] # NotWritten /\ memory[r].summary # "none"

(* Every run ends, whether or not the providers ever answer. *)
PipelineEnds == \A r \in Runs : <>(outcome[r] # "running")

===============================================================================
