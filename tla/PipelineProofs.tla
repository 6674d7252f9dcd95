--------------------------- MODULE PipelineProofs ---------------------------
(***************************************************************************)
(* Proofs about CsvPipeline, for any runs, providers, texts and tables,    *)
(* and about the limits and chunks of PromptInputs.                        *)
(***************************************************************************)
EXTENDS CsvPipeline, PromptInputs, SequenceTheorems, FiniteSetTheorems, WellFoundedInduction,
        TLAPS

-----------------------------------------------------------------------------
(* What a run has done by the node it has reached *)

RunInv(r) ==
  /\ DOMAIN memory[r] = {"line", "report", "clean", "summary"}
  /\ memory[r].line \in Lines \cup {NoLine}
  /\ at[r] = "writer" => memory[r].line \in Lines
  /\ job[r].step # "idle" => at[r] = "writer"
  /\ at[r] \in {"validator", "summarizer", "insights"} \/ outcome[r] = "success" => left[r] # NotWritten
  /\ at[r] = "insights" \/ outcome[r] = "success" => memory[r].summary # "none"

(* What a provider has answered is a text. *)
AnswerInv(r) ==
  call[r].at = "answered" /\ ~ call[r].answer.error => call[r].answer.text \in Texts

ProgressInv ==
  /\ DOMAIN memory = Runs /\ DOMAIN at = Runs /\ DOMAIN outcome = Runs
  /\ DOMAIN left = Runs /\ DOMAIN job = Runs /\ DOMAIN call = Runs
  /\ \A r \in Runs : RunInv(r) /\ AnswerInv(r)

LEMMA ProgressInit == PipelineInit => ProgressInv
BY DEF PipelineInit, LlmInit, ProgressInv, RunInv, AnswerInv, NoJob, NoCall, Runs

(* A step of one run leaves what the others have done.                     *)
LEMMA OthersStay ==
  ASSUME ProgressInv, NEW r \in Runs, RunInv(r)', AnswerInv(r)',
         DOMAIN memory' = Runs, DOMAIN at' = Runs, DOMAIN outcome' = Runs,
         DOMAIN left' = Runs, DOMAIN job' = Runs, DOMAIN call' = Runs,
         \A q \in Runs \ {r} :
           /\ memory'[q] = memory[q] /\ at'[q] = at[q] /\ outcome'[q] = outcome[q]
           /\ left'[q] = left[q] /\ job'[q] = job[q] /\ call'[q] = call[q]
  PROVE  ProgressInv'
  BY DEF ProgressInv, RunInv, AnswerInv

(* The calls of a run, whatever they end in.                               *)
LEMMA CallKeeps ==
  ASSUME ProgressInv, NEW r \in Runs,
         \/ HandlerAnswers(r) \/ HandlerRaises(r) \/ AskAgain(r) \/ TimesOut(r) \/ Took(r)
         \/ \E p, m : Ask(r, p, m)
  PROVE  /\ DOMAIN call' = Runs /\ AnswerInv(r)'
         /\ \A q \in Runs \ {r} : call'[q] = call[q]
<1> USE DEF ProgressInv, AnswerInv
<1>1. ASSUME NEW a, Answer(r, a), ~ a.error => a.text \in Texts
      PROVE  /\ DOMAIN call' = Runs /\ AnswerInv(r)'
             /\ \A q \in Runs \ {r} : call'[q] = call[q]
  BY <1>1 DEF Answer
<1>2. CASE HandlerAnswers(r)
  <2>1. PICK a \in Handled(call[r].provider) : Answer(r, a)
    BY <1>2 DEF HandlerAnswers
  <2>2. ~ a.error => a.text \in Texts
    BY DEF Handled, Error, Text
  <2> QED BY <1>1, <2>1, <2>2
<1>3. ~ Error.error => Error.text \in Texts
  BY DEF Error
<1>4. CASE HandlerRaises(r)
  <2>1. Answer(r, Error) \/ call' = [call EXCEPT ![r].at = "pausing"]
    BY <1>4 DEF HandlerRaises
  <2>2. CASE call' = [call EXCEPT ![r].at = "pausing"]
    <3>1. call' = [call EXCEPT ![r] = [call[r] EXCEPT !.at = "pausing"]]
      BY <2>2
    <3>2. call[r].at = "asking"
      BY <1>4 DEF HandlerRaises
    <3> QED BY <3>1, <3>2
  <2> QED BY <1>1, <1>3, <2>1, <2>2
<1>5. CASE AskAgain(r)
  BY <1>5 DEF AskAgain
<1>6. CASE TimesOut(r)
  BY <1>1, <1>3, <1>6 DEF TimesOut
<1>7. CASE Took(r)
  BY <1>7 DEF Took, NoCall
<1>8. ASSUME NEW p, NEW m, Ask(r, p, m)
      PROVE  /\ DOMAIN call' = Runs /\ AnswerInv(r)'
             /\ \A q \in Runs \ {r} : call'[q] = call[q]
  <2>1. Answer(r, Error)
        \/ call' = [call EXCEPT ![r] = [at |-> "asking", provider |-> p, model |-> m, tries |-> 1]]
    BY <1>8 DEF Ask
  <2> QED BY <1>1, <1>3, <2>1
<1> QED BY <1>2, <1>4, <1>5, <1>6, <1>7, <1>8

(* Failing at the last node alone ends in a success.                       *)
LEMMA FailsKeeps ==
  ASSUME ProgressInv, NEW r \in Runs, Fails(r), left' = left, job'[r].step = "idle"
  PROVE  /\ RunInv(r)' /\ DOMAIN memory' = Runs /\ DOMAIN at' = Runs /\ DOMAIN outcome' = Runs
         /\ \A q \in Runs \ {r} : memory'[q] = memory[q] /\ at'[q] = at[q] /\ outcome'[q] = outcome[q]
<1> USE DEF ProgressInv, RunInv
<1>1. memory' = memory /\ RunInv(r)
  BY DEF Fails
<1>2. CASE attempt[r] < Retries
  <2>1. at' = at /\ outcome' = outcome
    BY <1>2 DEF Fails
  <2> QED BY <1>1, <2>1
<1>3. CASE ~ (attempt[r] < Retries)
  <2>1. /\ at' = [at EXCEPT ![r] = "end"]
        /\ outcome' = [outcome EXCEPT ![r] = IF at[r] = "insights" THEN "success" ELSE "failure"]
    BY <1>3 DEF Fails
  <2>2. at'[r] = "end" /\ (outcome'[r] = "success" => at[r] = "insights")
    BY <2>1
  <2> QED BY <1>1, <2>1, <2>2
<1> QED BY <1>2, <1>3

LEMMA FailingStep ==
  ASSUME ProgressInv, NEW r \in Runs, Fails(r), UNCHANGED tableVars, job[r].step = "idle",
         DOMAIN call' = Runs, AnswerInv(r)', \A q \in Runs \ {r} : call'[q] = call[q]
  PROVE  ProgressInv'
<1>1. left' = left /\ job' = job /\ file' = file
  BY DEF tableVars
<1> QED BY <1>1, FailsKeeps, OthersStay DEF ProgressInv

(* A step of one run that touches neither the file nor its outcome.        *)
LEMMA MovingStep ==
  ASSUME ProgressInv, NEW r \in Runs, NEW next, Succeeds(r, next), UNCHANGED tableVars,
         RunInv(r)', DOMAIN memory' = Runs, \A q \in Runs \ {r} : memory'[q] = memory[q],
         DOMAIN call' = Runs, AnswerInv(r)', \A q \in Runs \ {r} : call'[q] = call[q]
  PROVE  ProgressInv'
<1>1. left' = left /\ job' = job /\ file' = file /\ outcome' = outcome
      /\ at' = [at EXCEPT ![r] = next]
  BY DEF tableVars, Succeeds
<1> QED BY <1>1, OthersStay DEF ProgressInv

LEMMA AsideStep ==
  ASSUME ProgressInv, NEW r \in Runs, UNCHANGED <<tableVars, runVars>>,
         DOMAIN call' = Runs, AnswerInv(r)', \A q \in Runs \ {r} : call'[q] = call[q]
  PROVE  ProgressInv'
<1>1. UNCHANGED <<file, job, left, at, memory, outcome>>
  BY DEF tableVars, runVars
<1> QED BY <1>1 DEF ProgressInv, RunInv, AnswerInv

LEMMA SameCalls ==
  ASSUME ProgressInv, NEW r \in Runs, UNCHANGED llmVars
  PROVE  /\ DOMAIN call' = Runs /\ AnswerInv(r)'
         /\ \A q \in Runs \ {r} : call'[q] = call[q]
  BY DEF ProgressInv, AnswerInv, llmVars

LEMMA RequestKeeps ==
  ASSUME ProgressInv, NEW r \in Runs, NEW p, NEW m, Request(r, p, m), job[r].step = "idle"
  PROVE  ProgressInv'
<1>1. CASE Accepts(p, m)
  BY <1>1, CallKeeps, AsideStep DEF Request
<1>2. CASE ~ Accepts(p, m)
  BY <1>2, SameCalls, FailingStep DEF Request
<1> QED BY <1>1, <1>2

LEMMA ReaderSteps ==
  ASSUME ProgressInv, NEW r \in Runs,
         ReadHeaders(r) \/ AskForLine(r) \/ LineAnswered(r)
  PROVE  ProgressInv'
<1> USE DEF ProgressInv
<1>1. RunInv(r) /\ (at[r] # "writer" => job[r].step = "idle")
  BY DEF RunInv
<1>2. CASE ReadHeaders(r)
  <2>1. UNCHANGED <<tableVars, llmVars>> /\ at[r] = "reader"
    BY <1>2 DEF ReadHeaders
  <2>2. CASE Fails(r)
    BY <1>1, <2>1, <2>2, SameCalls, FailingStep
  <2>3. CASE ~ Fails(r)
    <3>1. PICK next \in {"line_gen", "writer"} :
            Succeeds(r, next) /\ (next = "writer" => memory[r].line # NoLine)
      BY <1>2, <2>3 DEF ReadHeaders
    <3>2. memory' = memory /\ at' = [at EXCEPT ![r] = next] /\ outcome' = outcome
      BY <1>2, <2>3, <3>1 DEF ReadHeaders, Succeeds
    <3>3. RunInv(r)'
      BY <1>1, <2>1, <3>1, <3>2 DEF RunInv, tableVars
    <3> QED BY <2>1, <3>1, <3>2, <3>3, SameCalls, MovingStep
  <2> QED BY <2>2, <2>3
<1>3. CASE AskForLine(r)
  BY <1>1, <1>3, RequestKeeps DEF AskForLine
<1>4. CASE LineAnswered(r)
  <2>1. at[r] = "line_gen" /\ Took(r) /\ UNCHANGED tableVars /\ call[r].at = "answered"
    BY <1>4 DEF LineAnswered, Took
  <2>2. CASE ~ call[r].answer.error /\ IsLine(call[r].answer.text)
    <3>1. /\ memory' = [memory EXCEPT ![r] = [memory[r] EXCEPT !.line = call[r].answer.text]]
          /\ Succeeds(r, "writer")
      BY <1>4, <2>2 DEF LineAnswered
    <3>2. call[r].answer.text \in Lines
      BY <2>1, <2>2 DEF AnswerInv, Lines
    <3>3. RunInv(r)'
      BY <1>1, <2>1, <3>1, <3>2 DEF RunInv, Succeeds, tableVars
    <3> QED BY <2>1, <3>1, <3>3, CallKeeps, MovingStep
  <2>3. CASE call[r].answer.error \/ ~ IsLine(call[r].answer.text)
    <3>1. Fails(r)
      BY <1>4, <2>3 DEF LineAnswered
    <3> QED BY <1>1, <2>1, <3>1, CallKeeps, FailingStep
  <2> QED BY <2>2, <2>3
<1> QED BY <1>2, <1>3, <1>4

LEMMA WriterSteps ==
  ASSUME ProgressInv, NEW r \in Runs,
         ReadTable(r) \/ WriterRefuses(r) \/ Truncate(r) \/ WriteBack(r)
  PROVE  ProgressInv'
<1> USE DEF ProgressInv
<1>1. RunInv(r)
  OBVIOUS
<1>2. CASE ReadTable(r)
  <2> DEFINE line == memory[r].line
  <2>1. /\ at[r] = "writer" /\ UNCHANGED <<file, left, runVars, llmVars>>
        /\ job' = [job EXCEPT ![r] = [step |-> "read", head |-> ColumnsFor(line.row),
                                     before |-> file.rows, rows |-> Applied(line)]]
    BY <1>2 DEF ReadTable
  <2>2. RunInv(r)'
    BY <1>1, <2>1 DEF RunInv, runVars
  <2> QED BY <2>1, <2>2, SameCalls, OthersStay DEF runVars
<1>3. CASE WriterRefuses(r)
  BY <1>3, SameCalls, FailingStep DEF WriterRefuses
<1>4. CASE Truncate(r)
  <2>1. /\ job[r].step = "read" /\ file' = NoTable /\ UNCHANGED <<left, met, runVars, llmVars>>
        /\ job' = [job EXCEPT ![r] = [job[r] EXCEPT !.step = "truncated"]]
    BY <1>4 DEF Truncate
  <2>2. RunInv(r)'
    BY <1>1, <2>1 DEF RunInv, runVars
  <2> QED BY <2>1, <2>2, SameCalls, OthersStay DEF runVars
<1>5. CASE WriteBack(r)
  <2>1. /\ job[r].step = "truncated" /\ job' = [job EXCEPT ![r] = NoJob]
        /\ UNCHANGED <<met, llmVars>> /\ DOMAIN file' = {"head", "rows"}
        /\ \/ /\ memory' = [memory EXCEPT ![r].report = job[r].rows]
              /\ left' = [left EXCEPT ![r] = file']
              /\ Succeeds(r, "validator")
           \/ Fails(r) /\ UNCHANGED left
    BY <1>5 DEF WriteBack
  <2>2. file' # NotWritten /\ job'[r].step = "idle"
    <3>1. DOMAIN NotWritten = {"step"} /\ "head" \in DOMAIN file'
      BY <2>1 DEF NotWritten
    <3>2. job'[r].step = "idle"
      BY <2>1 DEF NoJob
    <3> QED BY <3>1, <3>2
  <2>3. CASE Fails(r) /\ UNCHANGED left
    BY <2>1, <2>2, <2>3, FailsKeeps, SameCalls, OthersStay
  <2>4. CASE /\ memory' = [memory EXCEPT ![r].report = job[r].rows]
             /\ left' = [left EXCEPT ![r] = file']
             /\ Succeeds(r, "validator")
    <3>1. left'[r] # NotWritten
      BY <2>2, <2>4
    <3>2. /\ memory' = [memory EXCEPT ![r] = [memory[r] EXCEPT !.report = job[r].rows]]
          /\ at' = [at EXCEPT ![r] = "validator"] /\ outcome' = outcome
      BY <2>4 DEF Succeeds
    <3>3. RunInv(r)'
      BY <1>1, <2>1, <2>2, <3>1, <3>2 DEF RunInv
    <3> QED BY <2>1, <2>2, <2>4, <3>2, <3>3, SameCalls, OthersStay
  <2> QED BY <2>1, <2>3, <2>4
<1> QED BY <1>2, <1>3, <1>4, <1>5

LEMMA SummarySteps ==
  ASSUME ProgressInv, NEW r \in Runs,
         Validate(r) \/ SummariseOffline(r) \/ AskForSummary(r) \/ SummaryAnswered(r)
  PROVE  ProgressInv'
<1> USE DEF ProgressInv
<1>1. RunInv(r) /\ (at[r] # "writer" => job[r].step = "idle")
  BY DEF RunInv
<1>2. ASSUME NEW summary \in {"brief", "long"}, at[r] = "summarizer", UNCHANGED tableVars,
             memory' = [memory EXCEPT ![r].summary = summary], Succeeds(r, "insights"),
             DOMAIN call' = Runs, AnswerInv(r)', \A q \in Runs \ {r} : call'[q] = call[q]
      PROVE  ProgressInv'
  <2>1. /\ memory' = [memory EXCEPT ![r] = [memory[r] EXCEPT !.summary = summary]]
        /\ at' = [at EXCEPT ![r] = "insights"] /\ outcome' = outcome /\ left' = left /\ job' = job
    BY <1>2 DEF Succeeds, tableVars
  <2>2. RunInv(r)'
    BY <1>1, <1>2, <2>1 DEF RunInv
  <2> QED BY <1>2, <2>1, <2>2, MovingStep
<1>3. CASE Validate(r)
  <2> DEFINE clean == CompleteRows(memory[r].report)
  <2>1. /\ memory' = [memory EXCEPT ![r] = [memory[r] EXCEPT !.clean = clean]]
        /\ at[r] = "validator" /\ Succeeds(r, "summarizer") /\ UNCHANGED <<tableVars, llmVars>>
        /\ at' = [at EXCEPT ![r] = "summarizer"] /\ outcome' = outcome
    BY <1>3 DEF Validate, Succeeds
  <2> HIDE DEF clean
  <2>2. RunInv(r)'
    BY <1>1, <2>1 DEF RunInv, tableVars
  <2> QED BY <2>1, <2>2, SameCalls, MovingStep
<1>4. CASE SummariseOffline(r)
  BY <1>2, <1>4, SameCalls DEF SummariseOffline
<1>5. CASE AskForSummary(r)
  <2>1. at[r] = "summarizer" /\ \E p, m : Request(r, p, m)
    BY <1>5 DEF AskForSummary
  <2> QED BY <1>1, <2>1, RequestKeeps
<1>6. CASE SummaryAnswered(r)
  <2>1. at[r] = "summarizer" /\ Took(r) /\ UNCHANGED tableVars
    BY <1>6 DEF SummaryAnswered
  <2>2. Fails(r) \/ \E summary \in {"brief", "long"} :
                       memory' = [memory EXCEPT ![r].summary = summary] /\ Succeeds(r, "insights")
    BY <1>6 DEF SummaryAnswered
  <2>3. CASE Fails(r)
    BY <1>1, <2>1, <2>3, CallKeeps, FailingStep
  <2> QED BY <1>2, <2>1, <2>2, <2>3, CallKeeps
<1> QED BY <1>3, <1>4, <1>5, <1>6

LEMMA InsightsSteps ==
  ASSUME ProgressInv, NEW r \in Runs,
         InsightsRefuse(r) \/ AskForInsights(r) \/ InsightsAnswered(r)
  PROVE  ProgressInv'
<1> USE DEF ProgressInv
<1>1. RunInv(r) /\ (at[r] # "writer" => job[r].step = "idle")
  BY DEF RunInv
<1>2. CASE InsightsRefuse(r)
  BY <1>1, <1>2, SameCalls, FailingStep DEF InsightsRefuse
<1>3. CASE AskForInsights(r)
  BY <1>1, <1>3, RequestKeeps DEF AskForInsights
<1>4. CASE InsightsAnswered(r)
  <2>1. at[r] = "insights" /\ Took(r) /\ UNCHANGED tableVars
    BY <1>4 DEF InsightsAnswered
  <2>2. CASE Fails(r)
    BY <1>1, <2>1, <2>2, CallKeeps, FailingStep
  <2>3. CASE /\ at' = [at EXCEPT ![r] = "end"] /\ outcome' = [outcome EXCEPT ![r] = "success"]
             /\ UNCHANGED <<memory, attempt>>
    <3>1. RunInv(r)'
      BY <1>1, <2>1, <2>3 DEF RunInv, tableVars
    <3> QED BY <2>1, <2>3, <3>1, CallKeeps, OthersStay DEF tableVars
  <2> QED BY <1>4, <2>2, <2>3 DEF InsightsAnswered
<1> QED BY <1>2, <1>3, <1>4

LEMMA ProgressSafe == PipelineSpec => []ProgressInv
<1>1. ProgressInv /\ [PipelineNext]_pipelineVars => ProgressInv'
  <2> SUFFICES ASSUME ProgressInv, [PipelineNext]_pipelineVars PROVE ProgressInv'
    OBVIOUS
  <2>1. CASE UNCHANGED pipelineVars
    BY <2>1 DEF pipelineVars, llmVars, tableVars, runVars, ProgressInv, RunInv, AnswerInv
  <2>2. ASSUME NEW r \in Runs, RunStep(r) PROVE ProgressInv'
    <3>1. CASE TimerStep(r)
      BY <3>1, CallKeeps, AsideStep DEF TimerStep
    <3> QED BY <2>2, <3>1, ReaderSteps, WriterSteps, SummarySteps, InsightsSteps DEF RunStep
  <2>3. ASSUME NEW r \in Runs, ProviderStep(r) PROVE ProgressInv'
    BY <2>3, CallKeeps, AsideStep DEF ProviderStep
  <2> QED BY <2>1, <2>2, <2>3 DEF PipelineNext, Settled
<1> QED BY <1>1, ProgressInit, PTL DEF PipelineSpec

(* A run reported as a success has written its line and its summary.       *)
THEOREM SuccessesSummarise == PipelineSpec => []SuccessMeansSummarised
<1>1. ProgressInv => SuccessMeansSummarised
  BY DEF ProgressInv, RunInv, SuccessMeansSummarised
<1> QED BY <1>1, ProgressSafe, PTL

-----------------------------------------------------------------------------
(* Tables *)

(* Removing an entry closes the gap. *)
LEMMA Removal ==
  ASSUME NEW S, NEW s \in Seq(S), NEW i \in 1 .. Len(s)
  PROVE  /\ RemoveAt(s, i) \in Seq(S) /\ Len(RemoveAt(s, i)) = Len(s) - 1
         /\ \A j \in 1 .. Len(s) - 1 : RemoveAt(s, i)[j] = s[IF j < i THEN j ELSE j + 1]
<1> DEFINE front == SubSeq(s, 1, i - 1)
           back == SubSeq(s, i + 1, Len(s))
<1>1. Len(s) \in Nat /\ i \in Int /\ 1 <= i /\ i <= Len(s) /\ \A j \in 1 .. Len(s) : s[j] \in S
  OBVIOUS
<1>2. /\ front \in Seq(S) /\ Len(front) = i - 1 /\ \A j \in 1 .. i - 1 : front[j] = s[j]
  <2>1. \A j \in 1 .. i - 1 : s[j] \in S
    BY <1>1
  <2>2. /\ front \in Seq(S) /\ Len(front) = IF 1 <= i - 1 THEN i - 1 - 1 + 1 ELSE 0
        /\ \A j \in 1 .. i - 1 - 1 + 1 : front[j] = s[1 + j - 1]
    BY <1>1, <2>1, SubSeqProperties
  <2> HIDE DEF front
  <2> QED BY <1>1, <2>2
<1>3. /\ back \in Seq(S) /\ Len(back) = Len(s) - i
      /\ \A j \in 1 .. Len(s) - i : back[j] = s[i + j]
  <2>1. \A j \in i + 1 .. Len(s) : s[j] \in S
    BY <1>1
  <2>2. /\ back \in Seq(S) /\ Len(back) = IF i + 1 <= Len(s) THEN Len(s) - (i + 1) + 1 ELSE 0
        /\ \A j \in 1 .. Len(s) - (i + 1) + 1 : back[j] = s[i + 1 + j - 1]
    BY <1>1, <2>1, SubSeqProperties
  <2> HIDE DEF back
  <2> QED BY <1>1, <2>2
<1>4. RemoveAt(s, i) = front \o back
  BY DEF RemoveAt
<1> HIDE DEF front, back
<1>5. /\ front \o back \in Seq(S) /\ Len(front \o back) = Len(front) + Len(back)
      /\ \A j \in 1 .. Len(front) + Len(back) :
            (front \o back)[j] = IF j <= Len(front) THEN front[j] ELSE back[j - Len(front)]
  BY <1>2, <1>3, ConcatProperties
<1>6. ASSUME NEW j \in 1 .. Len(s) - 1
      PROVE  RemoveAt(s, i)[j] = s[IF j < i THEN j ELSE j + 1]
  <2>1. CASE j < i
    BY <1>1, <1>2, <1>3, <1>4, <1>5, <2>1
  <2>2. CASE j >= i
    <3>1. (front \o back)[j] = back[j - (i - 1)]
      BY <1>1, <1>2, <1>3, <1>5, <2>2
    <3>2. j - (i - 1) \in 1 .. Len(s) - i /\ i + (j - (i - 1)) = j + 1
      BY <1>1, <2>2
    <3>3. back[j - (i - 1)] = s[i + (j - (i - 1))]
      BY <1>3, <3>2
    <3> QED BY <1>1, <1>4, <2>2, <3>1, <3>2, <3>3
  <2> QED BY <1>1, <2>1, <2>2
<1>7. RemoveAt(s, i) \in Seq(S)
  BY <1>4, <1>5
<1>8. Len(RemoveAt(s, i)) = Len(s) - 1
  <2>1. Len(RemoveAt(s, i)) = Len(front) + Len(back)
    BY <1>4, <1>5
  <2> QED BY <1>1, <1>2, <1>3, <2>1
<1> QED BY <1>6, <1>7, <1>8

(* Positions have a first one, by induction over the naturals.             *)
LEMMA FirstExists ==
  ASSUME NEW T \in SUBSET Nat, T # {}
  PROVE  FirstOf(T) \in T /\ \A y \in T : FirstOf(T) <= y
<1> DEFINE Less == {e \in Nat \X Nat : e[1] < e[2]}
<1>1. Less = OpToRel(<, Nat)
  BY Zenon DEF Less, OpToRel
<1>2. IsWellFoundedOn(Less, Nat)
  BY NatLessThanWellFounded, <1>1, Zenon
<1>3. PICK x \in T : \A y \in T : ~ (<<y, x>> \in Less)
  BY <1>2, WFMin
<1>4. \A y \in T : y \in Nat /\ ~ (y < x)
  <2> SUFFICES ASSUME NEW y \in T, y < x PROVE FALSE
    OBVIOUS
  <2>1. <<y, x>> \in Less
    BY DEF Less
  <2> QED BY <1>3, <2>1
<1>5. x \in T /\ \A y \in T : x <= y
  BY <1>4
<1> QED BY <1>5 DEF FirstOf

(* A row is written with the cells it has, and read back with them.        *)
LEMMA FittedContent ==
  ASSUME NEW row \in Row, NEW head \in SUBSET Columns
  PROVE  /\ Fitted(row, head) \in Row /\ DOMAIN Fitted(row, head) = head
         /\ DOMAIN row \subseteq head => Content(Fitted(row, head)) = Content(row)
<1> DEFINE f == Fitted(row, head)
<1>1. PICK columns \in SUBSET Columns : row \in [columns -> Values \cup {Blank}]
  BY DEF Row
<1>2. f \in [head -> Values \cup {Blank}] /\ \A c \in head : f[c] = IF c \in DOMAIN row THEN row[c] ELSE Blank
  BY <1>1 DEF Fitted
<1> HIDE DEF f
<1>3. f \in Row
  BY <1>2 DEF Row
<1>4. ASSUME DOMAIN row \subseteq head PROVE Content(f) = Content(row)
  <2>1. {d \in DOMAIN f : f[d] # Blank} = {d \in DOMAIN row : row[d] # Blank}
    BY <1>2, <1>4
  <2>2. \A c \in {d \in DOMAIN row : row[d] # Blank} : f[c] = row[c]
    BY <1>2, <1>4
  <2> QED BY <2>1, <2>2 DEF Content
<1> QED BY <1>2, <1>3, <1>4 DEF f

(* The rows written are those ahead of the first that does not fit.        *)
LEMMA WritableRows ==
  ASSUME NEW head, NEW rows \in Seq(Row)
  PROVE  \E k \in 1 .. Len(rows) + 1 :
           /\ DOMAIN Writable(head, rows) = 1 .. k - 1 /\ Len(Writable(head, rows)) = k - 1
           /\ \A i \in 1 .. k - 1 : DOMAIN rows[i] \subseteq head
           /\ k <= Len(rows) => ~ (DOMAIN rows[k] \subseteq head)
<1> DEFINE T == {i \in 1 .. Len(rows) + 1 : i > Len(rows) \/ ~ FitsColumns(rows[i], head)}
           k == FirstOf(T)
<1>1. Len(rows) \in Nat /\ T \in SUBSET Nat /\ Len(rows) + 1 \in T
  OBVIOUS
<1>2. k \in T /\ \A y \in T : k <= y
  BY <1>1, FirstExists
<1>3. k \in 1 .. Len(rows) + 1 /\ k - 1 \in Int
  BY <1>2
<1>4. \A i \in 1 .. k - 1 : i \in 1 .. Len(rows) /\ DOMAIN rows[i] \subseteq head
  <2> SUFFICES ASSUME NEW i \in 1 .. k - 1
               PROVE  i \in 1 .. Len(rows) /\ DOMAIN rows[i] \subseteq head
    OBVIOUS
  <2>1. i \in 1 .. Len(rows) /\ i \in Int /\ ~ (k <= i)
    BY <1>1, <1>3
  <2>2. i \notin T
    BY <1>2, <2>1
  <2> QED BY <2>1, <2>2 DEF FitsColumns
<1>5. k <= Len(rows) => ~ (DOMAIN rows[k] \subseteq head)
  BY <1>1, <1>2 DEF FitsColumns
<1>6. Writable(head, rows) = SubSeq(rows, 1, k - 1)
  BY DEF Writable
<1> HIDE DEF k, T
<1>7. DOMAIN SubSeq(rows, 1, k - 1) = 1 .. k - 1 /\ Len(SubSeq(rows, 1, k - 1)) = k - 1
  <2>1. \A i \in 1 .. k - 1 : rows[i] \in Row
    BY <1>4
  <2>2. /\ SubSeq(rows, 1, k - 1) \in Seq(Row)
        /\ Len(SubSeq(rows, 1, k - 1)) = IF 1 <= k - 1 THEN k - 1 - 1 + 1 ELSE 0
    BY <1>3, <2>1, SubSeqProperties
  <2>3. Len(SubSeq(rows, 1, k - 1)) = k - 1
    BY <1>3, <2>2
  <2> QED BY <2>2, <2>3
<1> QED BY <1>3, <1>4, <1>5, <1>6, <1>7

(* Rows of the table, all of the same columns and of known contents.       *)
IsTable(rows, head) ==
  /\ rows \in Seq(Row) /\ (head = {} => rows = <<>>)
  /\ \A i \in DOMAIN rows : DOMAIN rows[i] = head /\ Content(rows[i]) \in RowContents

(* What the line of a writer makes of the rows it has read.                *)
Edits(row, before, after) ==
  \/ after = Append(before, row)
  \/ \E i \in DOMAIN before :
       /\ Cell(before[i], KeyColumn) = Cell(row, KeyColumn)
       /\ \A k \in 1 .. i - 1 : Cell(before[k], KeyColumn) # Cell(row, KeyColumn)
       /\ after = [before EXCEPT ![i] = row] \/ after = RemoveAt(before, i)

(* The same as CsvTable has it, of contents.                               *)
IsFirst(rows, i, key) ==
  Table!KeyOf(rows[i]) = key /\ \A k \in 1 .. i - 1 : Table!KeyOf(rows[k]) # key

Changes(old, new) ==
  \/ new = old
  \/ \E x \in RowContents : new = Append(old, x)
  \/ \E i \in DOMAIN old :
       \/ IsFirst(old, i, Table!KeyOf(old[i])) /\ new = RemoveAt(old, i)
       \/ new = SubSeq(old, 1, i - 1)
       \/ \E x \in RowContents : IsFirst(old, i, Table!KeyOf(x)) /\ new = [old EXCEPT ![i] = x]

LEMMA ContentsType ==
  ASSUME NEW rows \in Seq(Row), \A i \in DOMAIN rows : Content(rows[i]) \in RowContents
  PROVE  /\ Contents(rows) \in Seq(RowContents) /\ Len(Contents(rows)) = Len(rows)
         /\ \A i \in 1 .. Len(rows) : Contents(rows)[i] = Content(rows[i])
<1>1. DOMAIN rows = 1 .. Len(rows) /\ Len(rows) \in Nat
  OBVIOUS
<1> QED BY <1>1 DEF Contents

(* In a table a key is told by the filled cells alone: its rows have all   *)
(* the columns.                                                            *)
LEMMA KeysAgree ==
  ASSUME NEW a \in Row, NEW b \in Row, NEW c \in Row,
         Cell(a, KeyColumn) = Cell(b, KeyColumn), DOMAIN c = DOMAIN a
  PROVE  /\ Table!KeyOf(Content(a)) = Table!KeyOf(Content(b))
         /\ Cell(c, KeyColumn) # Cell(b, KeyColumn) => Table!KeyOf(Content(c)) # Table!KeyOf(Content(b))
<1>1. \A row \in Row : Table!KeyOf(Content(row)) =
                         IF KeyColumn \in DOMAIN row /\ row[KeyColumn] # Blank THEN {row[KeyColumn]} ELSE {}
  BY DEF Table!KeyOf, Content
<1>2. \A row \in Row : Cell(row, KeyColumn) = IF KeyColumn \in DOMAIN row THEN {row[KeyColumn]} ELSE {}
  BY DEF Cell
<1> QED BY <1>1, <1>2

(* What is written of an edited table is a change of its contents: all of  *)
(* the edit, or its rows up to the replacement that does not fit.          *)
LEMMA FittedChanges ==
  ASSUME NEW head \in (SUBSET Columns) \ {{}}, NEW before, IsTable(before, head),
         NEW l \in Lines, NEW after, Edits(l.row, before, after),
         NEW written, written = [i \in DOMAIN Writable(head, after) |-> Fitted(after[i], head)]
  PROVE  IsTable(written, head) /\ Changes(Contents(before), Contents(written))
<1> DEFINE n == Len(before)
           x == l.row
<1>1. /\ x \in Row /\ Content(x) \in RowContents
      /\ before \in Seq(Row) /\ n \in Nat /\ DOMAIN before = 1 .. n
      /\ \A i \in 1 .. n : before[i] \in Row /\ DOMAIN before[i] = head /\ Content(before[i]) \in RowContents
  BY PipelineAssumption DEF RowContents, IsTable
<1> HIDE DEF x
<1>2. /\ Contents(before) \in Seq(RowContents) /\ Len(Contents(before)) = n
      /\ \A i \in 1 .. n : Contents(before)[i] = Content(before[i])
  BY <1>1, ContentsType
<1>3. ASSUME NEW rows \in Seq(Row), \A i \in DOMAIN rows : Content(rows[i]) \in RowContents,
             after = rows
      PROVE  \E k \in 1 .. Len(rows) + 1 :
               /\ IsTable(written, head)
               /\ Contents(written) \in Seq(RowContents) /\ Len(Contents(written)) = k - 1
               /\ \A i \in 1 .. k - 1 : Contents(written)[i] = Content(rows[i])
               /\ k <= Len(rows) => ~ (DOMAIN rows[k] \subseteq head)
  <2>1. PICK k \in 1 .. Len(rows) + 1 :
           /\ DOMAIN Writable(head, rows) = 1 .. k - 1
           /\ \A i \in 1 .. k - 1 : DOMAIN rows[i] \subseteq head
           /\ k <= Len(rows) => ~ (DOMAIN rows[k] \subseteq head)
    BY WritableRows
  <2>2. written = [i \in 1 .. k - 1 |-> Fitted(rows[i], head)] /\ k - 1 \in Nat
    BY <1>3, <2>1
  <2>3. \A i \in 1 .. k - 1 : rows[i] \in Row /\ Content(rows[i]) \in RowContents
    BY <1>3, <2>1
  <2>4. \A i \in 1 .. k - 1 : /\ written[i] \in Row /\ DOMAIN written[i] = head
                              /\ Content(written[i]) = Content(rows[i])
    BY <2>1, <2>2, <2>3, FittedContent
  <2>5. written \in Seq(Row) /\ Len(written) = k - 1 /\ DOMAIN written = 1 .. k - 1
    <3>1. written \in [1 .. k - 1 -> Row]
      BY <2>2, <2>4
    <3>2. \A m \in Nat : written \in [1 .. m -> Row] =>
                          written \in Seq(Row) /\ Len(written) = m /\ DOMAIN written = 1 .. m
      OBVIOUS
    <3> QED BY <2>2, <3>1, <3>2
  <2>6. IsTable(written, head)
    BY <2>3, <2>4, <2>5 DEF IsTable
  <2>7. /\ Contents(written) \in Seq(RowContents) /\ Len(Contents(written)) = k - 1
        /\ \A i \in 1 .. k - 1 : Contents(written)[i] = Content(written[i])
    BY <2>3, <2>4, <2>5, ContentsType
  <2> QED BY <2>1, <2>4, <2>6, <2>7
<1>4. CASE after = Append(before, x)
  <2>1. /\ Append(before, x) \in Seq(Row) /\ Len(Append(before, x)) = n + 1
        /\ \A i \in 1 .. n : Append(before, x)[i] = before[i]
        /\ Append(before, x)[n + 1] = x
    BY <1>1, AppendProperties
  <2>2. \A i \in DOMAIN Append(before, x) : Content(Append(before, x)[i]) \in RowContents
    BY <1>1, <2>1
  <2>3. PICK k \in 1 .. Len(Append(before, x)) + 1 :
               /\ IsTable(written, head)
               /\ Contents(written) \in Seq(RowContents) /\ Len(Contents(written)) = k - 1
               /\ \A i \in 1 .. k - 1 : Contents(written)[i] = Content(Append(before, x)[i])
               /\ k <= Len(Append(before, x)) => ~ (DOMAIN Append(before, x)[k] \subseteq head)
    BY <1>3, <1>4, <2>1, <2>2
  <2>4. k \in {n + 1, n + 2}
    BY <1>1, <2>1, <2>3
  <2>5. CASE k = n + 1
    <3>1. Contents(written) = Contents(before)
      BY <1>1, <1>2, <2>1, <2>3, <2>5, SeqEqual
    <3> QED BY <2>3, <3>1 DEF Changes
  <2>6. CASE k = n + 2
    <3>1. /\ Append(Contents(before), Content(x)) \in Seq(RowContents)
          /\ Len(Append(Contents(before), Content(x))) = n + 1
          /\ \A i \in 1 .. n : Append(Contents(before), Content(x))[i] = Content(before[i])
          /\ Append(Contents(before), Content(x))[n + 1] = Content(x)
      BY <1>1, <1>2, AppendProperties
    <3>2. \A i \in 1 .. n + 1 : Contents(written)[i] = Append(Contents(before), Content(x))[i]
      BY <1>1, <2>1, <2>3, <2>6, <3>1
    <3>3. Len(Contents(written)) = n + 1
      BY <1>1, <2>3, <2>6
    <3>4. Contents(written) = Append(Contents(before), Content(x))
      BY <2>3, <3>1, <3>2, <3>3, SeqEqual
    <3> QED BY <1>1, <2>3, <3>4 DEF Changes
  <2> QED BY <2>4, <2>5, <2>6
<1>5. ASSUME NEW i \in 1 .. n, Cell(before[i], KeyColumn) = Cell(x, KeyColumn),
             \A k \in 1 .. i - 1 : Cell(before[k], KeyColumn) # Cell(x, KeyColumn)
      PROVE  /\ IsFirst(Contents(before), i, Table!KeyOf(Content(x)))
             /\ Table!KeyOf(Contents(before)[i]) = Table!KeyOf(Content(x))
  <2>1. before[i] \in Row /\ Table!KeyOf(Content(before[i])) = Table!KeyOf(Content(x))
    BY <1>1, <1>5, KeysAgree
  <2>2. ASSUME NEW k \in 1 .. i - 1
        PROVE  Table!KeyOf(Contents(before)[k]) # Table!KeyOf(Content(x))
    <3>1. k \in 1 .. n
      BY <1>1
    <3>2. Table!KeyOf(Content(before[k])) # Table!KeyOf(Content(x))
      BY <1>1, <1>5, <3>1, KeysAgree
    <3> QED BY <1>2, <3>1, <3>2
  <2> QED BY <1>2, <2>1, <2>2 DEF IsFirst
<1>6. ASSUME NEW i \in 1 .. n, Cell(before[i], KeyColumn) = Cell(x, KeyColumn),
             \A k \in 1 .. i - 1 : Cell(before[k], KeyColumn) # Cell(x, KeyColumn),
             after = [before EXCEPT ![i] = x]
      PROVE  IsTable(written, head) /\ Changes(Contents(before), Contents(written))
  <2> DEFINE rows == [before EXCEPT ![i] = x]
  <2>1. /\ rows \in Seq(Row) /\ Len(rows) = n /\ rows[i] = x /\ DOMAIN rows = 1 .. n
        /\ \A k \in 1 .. n \ {i} : rows[k] = before[k]
    BY <1>1
  <2>2. \A k \in DOMAIN rows : Content(rows[k]) \in RowContents
    BY <1>1, <2>1
  <2> HIDE DEF rows
  <2>3. PICK k \in 1 .. Len(rows) + 1 :
               /\ IsTable(written, head)
               /\ Contents(written) \in Seq(RowContents) /\ Len(Contents(written)) = k - 1
               /\ \A m \in 1 .. k - 1 : Contents(written)[m] = Content(rows[m])
               /\ k <= Len(rows) => ~ (DOMAIN rows[k] \subseteq head)
    BY <1>3, <1>6, <2>1, <2>2 DEF rows
  <2>4. k \in {i, n + 1}
    BY <1>1, <2>1, <2>3
  <2>5. CASE k = i
    <3>1. /\ SubSeq(Contents(before), 1, i - 1) \in Seq(RowContents)
          /\ Len(SubSeq(Contents(before), 1, i - 1)) = i - 1
          /\ \A m \in 1 .. i - 1 : SubSeq(Contents(before), 1, i - 1)[m] = Content(before[m])
      <4>1. i - 1 \in Int /\ \A m \in 1 .. i - 1 : m \in 1 .. n /\ Contents(before)[m] \in RowContents
        BY <1>1, <1>2
      <4>2. /\ SubSeq(Contents(before), 1, i - 1) \in Seq(RowContents)
            /\ Len(SubSeq(Contents(before), 1, i - 1)) = IF 1 <= i - 1 THEN i - 1 - 1 + 1 ELSE 0
            /\ \A m \in 1 .. i - 1 - 1 + 1 : SubSeq(Contents(before), 1, i - 1)[m] = Contents(before)[1 + m - 1]
        BY <4>1, SubSeqProperties
      <4> QED BY <1>1, <1>2, <4>1, <4>2
    <3>2. \A m \in 1 .. i - 1 : Contents(written)[m] = SubSeq(Contents(before), 1, i - 1)[m]
      BY <1>1, <2>1, <2>3, <2>5, <3>1
    <3>3. Contents(written) = SubSeq(Contents(before), 1, i - 1)
      BY <2>3, <2>5, <3>1, <3>2, SeqEqual
    <3>4. i \in DOMAIN Contents(before)
      BY <1>2
    <3> QED BY <2>3, <3>3, <3>4 DEF Changes
  <2>6. CASE k = n + 1
    <3> DEFINE new == [Contents(before) EXCEPT ![i] = Content(x)]
    <3>1. new \in Seq(RowContents) /\ Len(new) = n /\ \A m \in 1 .. n : new[m] = Content(rows[m])
      BY <1>1, <1>2, <2>1
    <3> HIDE DEF new
    <3>2. Len(Contents(written)) = n /\ \A m \in 1 .. n : Contents(written)[m] = Content(rows[m])
      BY <1>1, <2>3, <2>6
    <3>3. Contents(written) = new
      BY <2>3, <3>1, <3>2, SeqEqual
    <3>4. i \in DOMAIN Contents(before)
      BY <1>2
    <3> QED BY <1>1, <1>5, <1>6, <2>3, <3>3, <3>4 DEF Changes, new
  <2> QED BY <2>4, <2>5, <2>6
<1>7. ASSUME NEW i \in 1 .. n, Cell(before[i], KeyColumn) = Cell(x, KeyColumn),
             \A k \in 1 .. i - 1 : Cell(before[k], KeyColumn) # Cell(x, KeyColumn),
             after = RemoveAt(before, i)
      PROVE  IsTable(written, head) /\ Changes(Contents(before), Contents(written))
  <2> DEFINE rows == RemoveAt(before, i)
  <2>1. /\ rows \in Seq(Row) /\ Len(rows) = n - 1
        /\ \A k \in 1 .. n - 1 : rows[k] = before[IF k < i THEN k ELSE k + 1]
    BY <1>1, Removal
  <2> HIDE DEF rows
  <2>2. \A k \in 1 .. n - 1 : (IF k < i THEN k ELSE k + 1) \in 1 .. n
    BY <1>1
  <2>3. \A k \in DOMAIN rows : k \in 1 .. n - 1 /\ Content(rows[k]) \in RowContents /\ DOMAIN rows[k] = head
    BY <1>1, <2>1, <2>2
  <2>4. PICK k \in 1 .. Len(rows) + 1 :
               /\ IsTable(written, head)
               /\ Contents(written) \in Seq(RowContents) /\ Len(Contents(written)) = k - 1
               /\ \A m \in 1 .. k - 1 : Contents(written)[m] = Content(rows[m])
               /\ k <= Len(rows) => ~ (DOMAIN rows[k] \subseteq head)
    BY <1>1, <1>3, <1>7, <2>1, <2>3 DEF rows
  <2>5. k = n
    BY <1>1, <2>1, <2>3, <2>4
  <2>6. /\ RemoveAt(Contents(before), i) \in Seq(RowContents) /\ Len(RemoveAt(Contents(before), i)) = n - 1
        /\ \A m \in 1 .. n - 1 : RemoveAt(Contents(before), i)[m] = Contents(before)[IF m < i THEN m ELSE m + 1]
    BY <1>2, Removal
  <2>7. \A m \in 1 .. n - 1 : Contents(written)[m] = RemoveAt(Contents(before), i)[m]
    BY <1>2, <2>1, <2>2, <2>4, <2>5, <2>6
  <2>8. Contents(written) = RemoveAt(Contents(before), i)
    BY <2>4, <2>5, <2>6, <2>7, SeqEqual
  <2>9. i \in DOMAIN Contents(before) /\ IsFirst(Contents(before), i, Table!KeyOf(Contents(before)[i]))
    BY <1>2, <1>5, <1>7
  <2> QED BY <2>4, <2>8, <2>9 DEF Changes
<1> QED BY <1>1, <1>4, <1>6, <1>7 DEF Edits, x

LEMMA WrittenChanges ==
  ASSUME NEW head \in SUBSET Columns, NEW before, IsTable(before, head),
         NEW l \in Lines, NEW after, Edits(l.row, before, after)
  PROVE  /\ IsTable(Written(head, after), head)
         /\ Changes(Contents(before), Contents(Written(head, after)))
<1>1. CASE head = {}
  <2>1. before = <<>> /\ Written(head, after) = <<>>
    BY <1>1 DEF IsTable, Written
  <2> QED BY <2>1 DEF IsTable, Changes
<1>2. CASE head # {}
  BY <1>2, FittedChanges DEF Written
<1> QED BY <1>1, <1>2

(* While writers have not met there is one at most, and what it has read,  *)
(* and means to write an edit of, is the table.                            *)
WriterInv ==
  /\ IsTable(file.rows, file.head)
  /\ \A r, q \in Runs : job[r].step # "idle" /\ job[q].step # "idle" => r = q
  /\ \A r \in Runs :
       job[r].step # "idle" =>
         /\ job[r].step \in {"read", "truncated"}
         /\ job[r].head \in SUBSET Columns
         /\ IsTable(job[r].before, job[r].head)
         /\ \E l \in Lines : Edits(l.row, job[r].before, job[r].rows)
         /\ file.rows = IF job[r].step = "read" THEN job[r].before ELSE <<>>

TableInv == met \in BOOLEAN /\ (~ met => WriterInv)

(* The table CsvTable speaks of. *)
Present ==
  Contents(IF Emptied # {} /\ ~met THEN job[CHOOSE r \in Emptied : TRUE].before ELSE file.rows)

LEMMA PresentIsRead ==
  ASSUME TableInv, ~ met, NEW r \in Runs, job[r].step # "idle"
  PROVE  Present = Contents(job[r].before)
<1>1. CASE job[r].step = "read"
  <2>1. Emptied = {}
    BY <1>1 DEF TableInv, WriterInv, Emptied
  <2> QED BY <1>1, <2>1 DEF Present, TableInv, WriterInv
<1>2. CASE job[r].step = "truncated"
  <2>1. Emptied = {r}
    BY <1>2 DEF TableInv, WriterInv, Emptied
  <2> QED BY <2>1 DEF Present
<1> QED BY <1>1, <1>2 DEF TableInv, WriterInv

LEMMA EditsOfLine ==
  ASSUME NEW l, l.action \in Actions, file.rows \in Seq(Row),
         l.action = "append" \/ Matches(l.row) # {}
  PROVE  Edits(l.row, file.rows, Applied(l))
<1> DEFINE i == FirstOf(Matches(l.row))
<1>1. CASE l.action = "append"
  BY <1>1 DEF Applied, Edits
<1>2. CASE l.action # "append"
  <2>1. Matches(l.row) \in SUBSET Nat /\ Matches(l.row) # {}
    BY <1>2 DEF Matches
  <2>2. i \in Matches(l.row) /\ \A y \in Matches(l.row) : i <= y
    BY <2>1, FirstExists
  <2>3. i \in DOMAIN file.rows /\ Cell(file.rows[i], KeyColumn) = Cell(l.row, KeyColumn)
    BY <2>2 DEF Matches
  <2>4. ASSUME NEW k \in 1 .. i - 1 PROVE Cell(file.rows[k], KeyColumn) # Cell(l.row, KeyColumn)
    <3>1. DOMAIN file.rows = 1 .. Len(file.rows) /\ Len(file.rows) \in Nat
      OBVIOUS
    <3>2. i \in 1 .. Len(file.rows)
      BY <2>3, <3>1
    <3> HIDE DEF i
    <3>3. k \in DOMAIN file.rows /\ ~ (i <= k)
      BY <3>1, <3>2
    <3> QED BY <2>2, <3>3 DEF Matches
  <2>5. Applied(l) = [file.rows EXCEPT ![i] = l.row] \/ Applied(l) = RemoveAt(file.rows, i)
    BY <1>2 DEF Applied, Actions, ReplaceAt
  <2> HIDE DEF i
  <2> QED BY <2>3, <2>4, <2>5 DEF Edits
<1> QED BY <1>1, <1>2

LEMMA ReadTableChanges ==
  ASSUME ProgressInv, TableInv, NEW r \in Runs, ReadTable(r)
  PROVE  TableInv' /\ (~ met /\ ~ met' => Present' = Present)
<1> DEFINE line == memory[r].line
           read == [step |-> "read", head |-> ColumnsFor(line.row),
                    before |-> file.rows, rows |-> Applied(line)]
<1>1. /\ at[r] = "writer" /\ line.action \in Actions /\ (line.action = "append" \/ Matches(line.row) # {})
      /\ job' = [job EXCEPT ![r] = read] /\ file' = file /\ met' = (met \/ Writing # {})
  BY DEF ReadTable
<1>2. line \in Lines /\ DOMAIN job = Runs
  BY <1>1 DEF ProgressInv, RunInv
<1>3. line.row \in Row
  BY <1>2, PipelineAssumption
<1> HIDE DEF line
<1>4. CASE met'
  BY <1>4 DEF TableInv, WriterInv
<1>5. CASE ~ met'
  <2>1. ~ met /\ \A q \in Runs : job[q].step = "idle"
    BY <1>1, <1>5 DEF Writing
  <2>2. IsTable(file.rows, file.head) /\ file.rows \in Seq(Row)
    BY <2>1 DEF TableInv, WriterInv, IsTable
  <2>3. Edits(line.row, file.rows, Applied(line))
    BY <1>1, <2>2, EditsOfLine
  <2>4. read.head \in SUBSET Columns /\ IsTable(file.rows, read.head)
    <3>1. CASE file.rows = <<>>
      <4>1. read.head = DOMAIN line.row
        BY <3>1 DEF ColumnsFor
      <4> QED BY <1>3, <3>1, <4>1 DEF Row, IsTable
    <3>2. CASE file.rows # <<>>
      <4>1. read.head = file.head
        BY <3>2 DEF ColumnsFor
      <4>2. file.rows[1] \in Row /\ DOMAIN file.rows[1] = file.head
        BY <2>2, <3>2 DEF IsTable
      <4> QED BY <2>2, <4>1, <4>2 DEF Row
    <3> QED BY <3>1, <3>2
  <2>5. /\ job'[r].step = "read" /\ job'[r].head = read.head /\ job'[r].before = file.rows
        /\ job'[r].rows = Applied(line) /\ \A q \in Runs \ {r} : job'[q].step = "idle"
    BY <1>1, <1>2, <2>1
  <2>6. TableInv'
    BY <1>1, <1>2, <2>2, <2>3, <2>4, <2>5 DEF TableInv, WriterInv
  <2>7. Emptied = {} /\ Emptied' = {}
    BY <2>1, <2>5 DEF Emptied
  <2> QED BY <1>1, <2>6, <2>7 DEF Present
<1> QED BY <1>4, <1>5

LEMMA TruncateChanges ==
  ASSUME ProgressInv, TableInv, NEW r \in Runs, Truncate(r)
  PROVE  TableInv' /\ (~ met => Present' = Present)
<1>1. /\ job[r].step = "read" /\ file' = NoTable /\ met' = met /\ DOMAIN job = Runs
      /\ job' = [job EXCEPT ![r] = [job[r] EXCEPT !.step = "truncated"]]
  BY DEF Truncate, ProgressInv
<1>2. CASE met
  BY <1>1, <1>2 DEF TableInv, WriterInv
<1>3. CASE ~ met
  <2>1. /\ job'[r].head = job[r].head /\ job'[r].before = job[r].before /\ job'[r].rows = job[r].rows
        /\ \A q \in Runs \ {r} : job'[q] = job[q] /\ job[q].step = "idle"
    BY <1>1, <1>3 DEF TableInv, WriterInv
  <2>2. job'[r].step = "truncated"
    BY <1>1
  <2>3. file'.rows = <<>> /\ IsTable(file'.rows, file'.head)
    BY <1>1 DEF NoTable, IsTable
  <2>4. TableInv'
    BY <1>1, <1>3, <2>1, <2>2, <2>3 DEF TableInv, WriterInv
  <2>5. Emptied' = {r}
    BY <2>1, <2>2 DEF Emptied
  <2>6. Present' = Contents(job[r].before)
    BY <1>1, <1>3, <2>1, <2>5 DEF Present
  <2> QED BY <1>1, <1>3, <2>4, <2>6, PresentIsRead
<1> QED BY <1>2, <1>3

LEMMA WriteBackChanges ==
  ASSUME ProgressInv, TableInv, NEW r \in Runs, WriteBack(r)
  PROVE  TableInv' /\ (~ met => Changes(Present, Present'))
<1> DEFINE j == job[r]
           written == Written(j.head, j.rows)
<1>1. /\ j.step = "truncated" /\ met' = met /\ DOMAIN job = Runs
      /\ file' = [head |-> IF j.head = {} THEN file.head ELSE j.head,
                  rows |-> written \o SubSeq(file.rows, Len(written) + 1, Len(file.rows))]
      /\ job' = [job EXCEPT ![r] = NoJob]
  BY DEF WriteBack, ProgressInv
<1>2. CASE met
  BY <1>1, <1>2 DEF TableInv, WriterInv
<1>3. CASE ~ met
  <2>1. /\ file.rows = <<>> /\ j.head \in SUBSET Columns /\ IsTable(j.before, j.head)
        /\ \A q \in Runs \ {r} : job[q].step = "idle"
    BY <1>1, <1>3 DEF TableInv, WriterInv
  <2>2. PICK l \in Lines : Edits(l.row, j.before, j.rows)
    BY <1>1, <1>3 DEF TableInv, WriterInv
  <2>3. IsTable(written, j.head) /\ Changes(Contents(j.before), Contents(written))
    BY <2>1, <2>2, WrittenChanges
  <2>4. Present = Contents(j.before)
    BY <1>1, <1>3, PresentIsRead
  <2> HIDE DEF written
  <2>5. file'.rows = written /\ IsTable(file'.rows, file'.head)
    <3>1. written \in Seq(Row) /\ Len(written) + 1 \in Int /\ Len(file.rows) = 0 /\ 0 < Len(written) + 1
      BY <2>1, <2>3 DEF IsTable
    <3>2. SubSeq(file.rows, Len(written) + 1, Len(file.rows)) = <<>>
      BY <3>1, SubSeqEmpty
    <3>3. file'.rows = written
      BY <1>1, <3>1, <3>2, ConcatEmptySeq
    <3>4. CASE j.head = {}
      BY <2>3, <3>3, <3>4 DEF IsTable
    <3>5. CASE j.head # {}
      <4>1. file'.head = j.head
        BY <1>1, <3>5
      <4> QED BY <2>3, <3>3, <4>1
    <3> QED BY <3>3, <3>4, <3>5
  <2>6. \A q \in Runs : job'[q].step = "idle"
    BY <1>1, <2>1 DEF NoJob
  <2>7. TableInv'
    BY <1>1, <1>3, <2>3, <2>5, <2>6 DEF TableInv, WriterInv
  <2>8. Present' = Contents(written)
    BY <2>5, <2>6 DEF Present, Emptied
  <2> QED BY <2>3, <2>4, <2>7, <2>8
<1> QED BY <1>2, <1>3

LEMMA OthersLeaveTable ==
  ASSUME TableInv, UNCHANGED <<file, job, met>>
  PROVE  TableInv' /\ Present' = Present
BY DEF TableInv, WriterInv, Present, Emptied

LEMMA ChangesAreSteps ==
  ASSUME met = FALSE, met' = FALSE, Changes(Present, Present')
  PROVE  [Table!TableNext]_<<Present, met>>
<1> SUFFICES ASSUME Present' # Present
             PROVE  Table!TableNext
  BY DEF Changes
<1>1. CASE \E x \in RowContents : Present' = Append(Present, x)
  BY <1>1 DEF Present, Table!TableNext, Table!Put
<1>2. ASSUME NEW i \in DOMAIN Present,
             IsFirst(Present, i, Table!KeyOf(Present[i])) /\ Present' = RemoveAt(Present, i)
      PROVE  Table!TableNext
  BY <1>2 DEF Present, Table!TableNext, Table!Remove, Table!First, IsFirst, RemoveAt
<1>3. ASSUME NEW i \in DOMAIN Present, Present' = SubSeq(Present, 1, i - 1)
      PROVE  Table!TableNext
  BY <1>3 DEF Present, Table!TableNext, Table!Cut
<1>4. ASSUME NEW i \in DOMAIN Present, NEW x \in RowContents,
             IsFirst(Present, i, Table!KeyOf(x)) /\ Present' = [Present EXCEPT ![i] = x]
      PROVE  Table!TableNext
  BY <1>4 DEF Present, Table!TableNext, Table!Replace, Table!First, IsFirst
<1> QED BY <1>1, <1>2, <1>3, <1>4 DEF Changes

LEMMA MeetingSpoils ==
  ASSUME met \in BOOLEAN, met' = TRUE
  PROVE  Table!TableNext
<1>1. CASE met = TRUE
  BY <1>1 DEF Table!TableNext
<1>2. CASE met = FALSE
  BY <1>2 DEF Table!TableNext
<1> QED BY <1>1, <1>2

(* The three steps of the writer's thread; nothing else touches the table. *)
LEMMA TableSteps ==
  ASSUME [PipelineNext]_pipelineVars
  PROVE  \/ UNCHANGED <<file, job, met>>
         \/ \E r \in Runs : ReadTable(r) \/ Truncate(r) \/ WriteBack(r)
<1>1. CASE UNCHANGED pipelineVars
  BY <1>1 DEF pipelineVars, tableVars
<1>2. ASSUME NEW r \in Runs, NEW p, NEW m, Request(r, p, m) PROVE UNCHANGED tableVars
  BY <1>2 DEF Request
<1>3. ASSUME NEW r \in Runs, RunStep(r)
      PROVE  UNCHANGED tableVars \/ ReadTable(r) \/ Truncate(r) \/ WriteBack(r)
  <2>1. CASE AskForLine(r) \/ AskForSummary(r) \/ AskForInsights(r)
    <3>1. \E p, m : Request(r, p, m)
      BY <2>1 DEF AskForLine, AskForSummary, AskForInsights
    <3> QED BY <1>2, <3>1
  <2>2. CASE ReadHeaders(r) \/ LineAnswered(r) \/ WriterRefuses(r) \/ Validate(r)
    BY <2>2 DEF ReadHeaders, LineAnswered, WriterRefuses, Validate
  <2>3. CASE SummariseOffline(r) \/ SummaryAnswered(r) \/ InsightsRefuse(r) \/ InsightsAnswered(r)
    BY <2>3 DEF SummariseOffline, SummaryAnswered, InsightsRefuse, InsightsAnswered
  <2>4. CASE TimerStep(r)
    BY <2>4 DEF TimerStep
  <2> QED BY <1>3, <2>1, <2>2, <2>3, <2>4 DEF RunStep
<1>4. ASSUME NEW r \in Runs, ProviderStep(r) PROVE UNCHANGED tableVars
  BY <1>4 DEF ProviderStep
<1> QED BY <1>1, <1>3, <1>4 DEF PipelineNext, Settled, tableVars

LEMMA TableBegins == PipelineInit => TableInv /\ Present \in Seq(RowContents)
<1> SUFFICES ASSUME PipelineInit PROVE TableInv /\ Present \in Seq(RowContents)
  OBVIOUS
<1>1. met = FALSE /\ file \in Tables /\ \A r \in Runs : job[r].step = "idle"
  BY DEF PipelineInit, NoJob
<1>2. file.rows \in Seq({row \in Row : DOMAIN row = file.head})
  BY <1>1, PipelineAssumption
<1>3. /\ file.rows \in Seq(Row) /\ \A i \in DOMAIN file.rows : DOMAIN file.rows[i] = file.head
      /\ file.head = {} => file.rows = <<>>
  BY <1>1, <1>2, PipelineAssumption
<1>4. \A i \in DOMAIN file.rows : Content(file.rows[i]) \in RowContents
  <2> SUFFICES ASSUME NEW i \in DOMAIN file.rows PROVE Content(file.rows[i]) \in RowContents
    OBVIOUS
  <2>1. Content(file.rows[i]) = Contents(file.rows)[i] /\ i \in DOMAIN Contents(file.rows)
    BY DEF Contents
  <2>2. Content(file.rows[i]) \in Range(Contents(file.rows))
    BY <2>1 DEF Range
  <2> QED BY <1>1, <2>2 DEF RowContents
<1>5. Emptied = {}
  BY <1>1 DEF Emptied
<1>6. Present = Contents(file.rows)
  BY <1>5 DEF Present
<1> QED BY <1>1, <1>3, <1>4, <1>6, ContentsType DEF TableInv, WriterInv, IsTable

LEMMA TableStep ==
  ASSUME ProgressInv, TableInv, [PipelineNext]_pipelineVars
  PROVE  TableInv' /\ [Table!TableNext]_<<Present, met>>
<1>1. CASE UNCHANGED <<file, job, met>>
  BY <1>1, OthersLeaveTable
<1>2. ASSUME NEW r \in Runs, ReadTable(r) \/ Truncate(r) \/ WriteBack(r)
      PROVE  TableInv' /\ [Table!TableNext]_<<Present, met>>
  <2>1. TableInv'
    BY <1>2, ReadTableChanges, TruncateChanges, WriteBackChanges
  <2>2. met' \in BOOLEAN /\ (met = TRUE => met' = TRUE)
    BY <1>2, <2>1 DEF ReadTable, Truncate, WriteBack, TableInv
  <2>3. CASE met' = TRUE
    BY <2>1, <2>3, MeetingSpoils DEF TableInv
  <2>4. CASE met' = FALSE
    <3>1. met = FALSE
      BY <2>2, <2>4
    <3>2. Changes(Present, Present')
      BY <1>2, <2>4, <3>1, ReadTableChanges, TruncateChanges, WriteBackChanges DEF Changes
    <3> QED BY <2>1, <2>2, <2>4, <3>1, <3>2, ChangesAreSteps
  <2> QED BY <2>2, <2>3, <2>4
<1> QED BY <1>1, <1>2, TableSteps

LEMMA TableSafe == PipelineSpec => []TableInv
BY TableBegins, TableStep, ProgressSafe, PTL DEF PipelineSpec

(* The pipeline implements CsvTable: while writers do not meet, the table  *)
(* changes by whole operations.                                            *)
THEOREM PipelineImplementsTable == PipelineSpec => ImplementsTable
<1>1. PipelineInit => Table!TableInit
  BY TableBegins DEF Table!TableInit, Present, PipelineInit
<1>2. PipelineSpec => [][Table!TableNext]_<<Present, met>>
  BY TableStep, TableSafe, ProgressSafe, PTL DEF PipelineSpec
<1> QED BY <1>1, <1>2, PTL DEF PipelineSpec, ImplementsTable, Table!TableSpec, Present

-----------------------------------------------------------------------------
(* Summaries *)

(* Of a finite set of positions the k-th one is there.                     *)
LEMMA NthExists ==
  ASSUME NEW n \in Nat, NEW S \in SUBSET (1 .. n), NEW k \in 1 .. Cardinality(S)
  PROVE  \E i \in S : Cardinality({j \in S : j <= i}) = k
<1> DEFINE Upto(m) == {j \in S : j <= m}
           T == {m \in Nat : Cardinality(Upto(m)) >= k}
           first == FirstOf(T)
<1>1. IsFiniteSet(S) /\ Cardinality(S) \in Nat /\ k \in Nat /\ 1 <= k /\ k <= Cardinality(S)
  <2>1. IsFiniteSet(1 .. n)
    BY FS_Interval
  <2>2. IsFiniteSet(S)
    BY <2>1, FS_Subset
  <2>3. Cardinality(S) \in Nat
    BY <2>2, FS_CardinalityType
  <2> QED BY <2>2, <2>3
<1>2. \A j \in S : j \in Nat /\ 1 <= j /\ j <= n
  OBVIOUS
<1>3. ASSUME NEW m \in Nat PROVE IsFiniteSet(Upto(m)) /\ Cardinality(Upto(m)) \in Nat
  <2>1. Upto(m) \in SUBSET S
    OBVIOUS
  <2> HIDE DEF Upto
  <2>2. IsFiniteSet(Upto(m))
    BY <1>1, <2>1, FS_Subset
  <2> QED BY <2>2, FS_CardinalityType
<1>4. \A j, m : j \in Upto(m) <=> j \in S /\ j <= m
  OBVIOUS
<1>5. n \in T
  <2>1. \A j : j \in Upto(n) <=> j \in S
    BY <1>2, <1>4
  <2> HIDE DEF Upto
  <2>2. Upto(n) = S
    BY <2>1
  <2> QED BY <1>1, <2>2
<1> HIDE DEF Upto
<1>6. first \in T /\ \A m \in T : first <= m
  BY <1>5, FirstExists
<1> HIDE DEF first
<1>7. first \in Nat /\ Cardinality(Upto(first)) >= k
  BY <1>6
<1>8. first # 0
  <2> SUFFICES ASSUME first = 0 PROVE FALSE
    OBVIOUS
  <2>1. \A j \in S : ~ (j <= 0)
    BY <1>2
  <2>2. Upto(0) = {}
    BY <1>4, <2>1
  <2> QED BY <1>1, <1>7, <2>2, FS_EmptySet
<1>9. first - 1 \in Nat /\ Cardinality(Upto(first - 1)) < k
  <2>1. first - 1 \in Nat
    BY <1>7, <1>8
  <2>2. \A m \in Nat : m < first => ~ (Cardinality(Upto(m)) >= k)
    <3> SUFFICES ASSUME NEW m \in Nat, m < first, Cardinality(Upto(m)) >= k PROVE FALSE
      OBVIOUS
    <3>1. m \in T
      OBVIOUS
    <3>2. first <= m
      BY <1>6, <3>1
    <3> QED BY <1>7, <3>2
  <2>3. Cardinality(Upto(first - 1)) \in Nat
    BY <1>3, <2>1
  <2>4. first - 1 < first
    BY <1>7
  <2> QED BY <1>1, <2>1, <2>2, <2>3, <2>4
<1>10. \A j : j \in Upto(first) <=> j \in Upto(first - 1) \/ (j = first /\ first \in S)
  <2>1. \A j \in S : j <= first <=> j <= first - 1 \/ j = first
    BY <1>2, <1>7
  <2>2. first <= first
    BY <1>7
  <2> QED BY <1>4, <2>1, <2>2
<1>11. first \in S
  <2> SUFFICES ASSUME first \notin S PROVE FALSE
    OBVIOUS
  <2>1. Upto(first) = Upto(first - 1)
    BY <1>10
  <2> QED BY <1>1, <1>3, <1>7, <1>9, <2>1
<1>12. Cardinality(Upto(first)) = Cardinality(Upto(first - 1)) + 1
  <2>1. Upto(first) = Upto(first - 1) \cup {first}
    BY <1>10, <1>11
  <2>2. first \notin Upto(first - 1)
    BY <1>4, <1>7
  <2> QED BY <1>3, <1>9, <2>1, <2>2, FS_AddElement
<1>13. Cardinality(Upto(first)) = k
  <2>1. Cardinality(Upto(first - 1)) \in Nat
    BY <1>3, <1>9
  <2> QED BY <1>1, <1>7, <1>9, <1>12, <2>1
<1>14. Upto(first) = {j \in S : j <= first}
  BY DEF Upto
<1> QED BY <1>11, <1>13, <1>14

(* Tables of the same contents have the same complete rows.                *)
LEMMA CompleteRowsAgree ==
  ASSUME NEW a \in Seq(Row), NEW b \in Seq(Row), Contents(a) = Contents(b)
  PROVE  Contents(CompleteRows(a)) = Contents(CompleteRows(b))
<1> DEFINE Whole(rows) == {i \in DOMAIN rows : Complete(rows[i])}
           Nth(kept, k) == CHOOSE i \in kept : Cardinality({j \in kept : j <= i}) = k
           count == Cardinality(Whole(a))
<1>1. DOMAIN a = DOMAIN b /\ \A i \in DOMAIN a : Content(a[i]) = Content(b[i])
  <2>1. DOMAIN Contents(a) = DOMAIN a /\ DOMAIN Contents(b) = DOMAIN b
    BY DEF Contents
  <2>2. \A i \in DOMAIN a : Contents(a)[i] = Content(a[i])
    BY DEF Contents
  <2>3. \A i \in DOMAIN b : Contents(b)[i] = Content(b[i])
    BY DEF Contents
  <2> QED BY <2>1, <2>2, <2>3
<1>2. \A row \in Row : Complete(row) <=> Required \subseteq DOMAIN Content(row)
  BY DEF Complete, Content
<1>3. Whole(a) = Whole(b)
  <2>1. \A i \in DOMAIN a : a[i] \in Row /\ b[i] \in Row
    BY <1>1
  <2> QED BY <1>1, <1>2, <2>1
<1>4. ASSUME NEW k \in 1 .. count PROVE Nth(Whole(a), k) \in DOMAIN a
  <2>1. Len(a) \in Nat /\ Whole(a) \in SUBSET (1 .. Len(a))
    OBVIOUS
  <2> HIDE DEF Whole
  <2>2. \E i \in Whole(a) : Cardinality({j \in Whole(a) : j <= i}) = k
    BY <2>1, NthExists
  <2>3. Nth(Whole(a), k) \in Whole(a)
    BY <2>2
  <2> QED BY <2>3 DEF Whole
<1>5. ASSUME NEW rows
      PROVE  CompleteRows(rows) = [k \in 1 .. Cardinality(Whole(rows)) |-> rows[Nth(Whole(rows), k)]]
  BY DEF CompleteRows
<1> HIDE DEF Nth, Whole
<1>6. /\ Contents(CompleteRows(a)) = [k \in 1 .. count |-> Content(a[Nth(Whole(a), k)])]
      /\ Contents(CompleteRows(b)) = [k \in 1 .. count |-> Content(b[Nth(Whole(a), k)])]
  BY <1>3, <1>5 DEF Contents
<1> HIDE DEF count
<1> QED BY <1>1, <1>4, <1>6

(* A table written whole has the contents of its rows.                     *)
LEMMA WholeFitted ==
  ASSUME NEW head \in SUBSET Columns, NEW rows \in Seq(Row),
         NEW written, written = [i \in DOMAIN Writable(head, rows) |-> Fitted(rows[i], head)],
         Len(Writable(head, rows)) = Len(rows)
  PROVE  written \in Seq(Row) /\ Contents(written) = Contents(rows)
<1>1. PICK k \in 1 .. Len(rows) + 1 :
         /\ DOMAIN Writable(head, rows) = 1 .. k - 1
         /\ \A i \in 1 .. k - 1 : DOMAIN rows[i] \subseteq head
         /\ k - 1 = Len(rows)
  BY WritableRows
<1>2. written = [i \in 1 .. k - 1 |-> Fitted(rows[i], head)] /\ k - 1 \in Nat
  BY <1>1
<1>3. \A i \in 1 .. k - 1 : rows[i] \in Row
  BY <1>1
<1>4. written \in Seq(Row) /\ DOMAIN written = 1 .. Len(rows) /\ Len(rows) = k - 1
  <2>1. written \in [1 .. k - 1 -> Row]
    BY <1>2, <1>3, FittedContent
  <2>2. \A m \in Nat : written \in [1 .. m -> Row] =>
                        written \in Seq(Row) /\ Len(written) = m /\ DOMAIN written = 1 .. m
    OBVIOUS
  <2> QED BY <1>2, <2>1, <2>2
<1>5. \A i \in 1 .. Len(rows) : Content(written[i]) = Content(rows[i])
  BY <1>1, <1>2, <1>3, <1>4, FittedContent
<1>6. DOMAIN rows = 1 .. Len(rows)
  BY LenProperties
<1> QED BY <1>4, <1>5, <1>6 DEF Contents

LEMMA RowsWithout ==
  ASSUME NEW rows \in Seq(Row), \A i \in DOMAIN rows : DOMAIN rows[i] = {}
  PROVE  CompleteRows(rows) = <<>>
<1> DEFINE kept == {i \in DOMAIN rows : Complete(rows[i])}
           Nth(k) == rows[CHOOSE i \in kept : Cardinality({j \in kept : j <= i}) = k]
<1>1. kept = {}
  BY PipelineAssumption DEF Complete
<1>2. CompleteRows(rows) = [k \in 1 .. Cardinality(kept) |-> Nth(k)]
  BY DEF CompleteRows
<1> HIDE DEF kept, Nth
<1>3. Cardinality(kept) = 0
  BY <1>1, FS_EmptySet
<1>4. CompleteRows(rows) = [k \in 1 .. 0 |-> Nth(k)]
  BY <1>2, <1>3
<1>5. 1 .. 0 = {}
  OBVIOUS
<1>6. [k \in 1 .. 0 |-> Nth(k)] \in [1 .. 0 -> Row]
  BY <1>5
<1>7. \A s \in [1 .. 0 -> Row] : s \in Seq(Row) /\ Len(s) = 0
  OBVIOUS
<1>8. CompleteRows(rows) \in Seq(Row) /\ Len(CompleteRows(rows)) = 0
  BY <1>4, <1>6, <1>7
<1> QED BY <1>8, EmptySeq

(* What is found of a table written whole has the same complete rows.      *)
LEMMA WholeWritten ==
  ASSUME NEW head \in SUBSET Columns, NEW rows \in Seq(Row),
         Len(Writable(head, rows)) = Len(rows)
  PROVE  /\ Written(head, rows) \in Seq(Row)
         /\ Contents(CompleteRows(rows)) = Contents(CompleteRows(Written(head, rows)))
<1> DEFINE fitted == [i \in DOMAIN Writable(head, rows) |-> Fitted(rows[i], head)]
<1>1. fitted \in Seq(Row) /\ Contents(fitted) = Contents(rows)
  BY WholeFitted
<1>2. CASE head # {}
  <2>1. Written(head, rows) = fitted
    BY <1>2 DEF Written
  <2> QED BY <1>1, <2>1, CompleteRowsAgree
<1>3. CASE head = {}
  <2>1. Written(head, rows) = <<>>
    BY <1>3 DEF Written
  <2>2. \A i \in DOMAIN rows : DOMAIN rows[i] = {}
    <3>1. PICK k \in 1 .. Len(rows) + 1 :
             /\ DOMAIN Writable(head, rows) = 1 .. k - 1
             /\ \A i \in 1 .. k - 1 : DOMAIN rows[i] \subseteq head
             /\ k - 1 = Len(rows)
      BY WritableRows
    <3>2. DOMAIN rows = 1 .. Len(rows)
      BY LenProperties
    <3>3. \A x \in DOMAIN rows : DOMAIN rows[x] \subseteq {}
      BY <1>3, <3>1, <3>2
    <3> QED BY <3>3
  <2>3. CompleteRows(rows) = <<>>
    BY <2>2, RowsWithout
  <2>4. <<>> \in Seq(Row) /\ DOMAIN <<>> = {}
    BY EmptySeq
  <2>5. CompleteRows(<<>>) = <<>>
    BY <2>4, RowsWithout
  <2> QED BY <2>1, <2>3, <2>4, <2>5
<1> QED BY <1>2, <1>3

LEMMA EditedRows ==
  ASSUME NEW row \in Row, NEW before \in Seq(Row), NEW after, Edits(row, before, after)
  PROVE  after \in Seq(Row)
<1>1. CASE after = Append(before, row)
  BY <1>1
<1>2. ASSUME NEW i \in DOMAIN before, after = [before EXCEPT ![i] = row]
      PROVE  after \in Seq(Row)
  BY <1>2
<1>3. ASSUME NEW i \in DOMAIN before, after = RemoveAt(before, i)
      PROVE  after \in Seq(Row)
  BY <1>3, Removal
<1> QED BY <1>1, <1>2, <1>3 DEF Edits

(* While writers have not met: nothing is summarised ahead of the          *)
(* summarizer; what the writer reported has the complete rows of the file  *)
(* as it left it, and what the validator kept has their contents.          *)
FileInv(r) ==
  /\ at[r] \in {"reader", "line_gen", "writer", "validator", "summarizer"} => memory[r].summary = "none"
  /\ at[r] \in {"validator", "summarizer", "insights"} \/ memory[r].summary # "none" =>
       /\ memory[r].report \in Seq(Row) /\ left[r].rows \in Seq(Row)
       /\ Contents(CompleteRows(memory[r].report)) = Contents(CompleteRows(left[r].rows))
  /\ at[r] \in {"summarizer", "insights"} \/ memory[r].summary # "none" =>
       Contents(memory[r].clean) = Contents(CompleteRows(left[r].rows))

SummaryInv == ~ met => \A r \in Runs : FileInv(r)

(* A step of one run leaves the summaries of the others.                   *)
LEMMA OthersSummarised ==
  ASSUME SummaryInv, NEW r \in Runs, ~ met => FileInv(r)', met' = met,
         \A q \in Runs \ {r} : memory'[q] = memory[q] /\ at'[q] = at[q] /\ left'[q] = left[q]
  PROVE  SummaryInv'
BY DEF SummaryInv, FileInv

(* A run that goes on ahead of its writer, or fails, keeps its table.      *)
LEMMA SummaryKept ==
  ASSUME ProgressInv, SummaryInv, NEW r \in Runs, met' = met, left' = left,
         \/ Fails(r)
         \/ \E next \in {"line_gen", "writer", "end"} :
              /\ at' = [at EXCEPT ![r] = next]
              /\ at[r] \in IF next = "end" THEN {"insights"} ELSE {"reader", "line_gen"}
              /\ memory' = memory \/ \E l : memory' = [memory EXCEPT ![r].line = l]
  PROVE  SummaryInv'
<1> USE DEF ProgressInv
<1>1. CASE Fails(r)
  <2>1. memory' = memory /\ (at' = at \/ at' = [at EXCEPT ![r] = "end"])
    BY <1>1 DEF Fails
  <2> QED BY <2>1 DEF SummaryInv, FileInv
<1>2. ASSUME NEW next \in {"line_gen", "writer", "end"}, at' = [at EXCEPT ![r] = next],
             at[r] \in IF next = "end" THEN {"insights"} ELSE {"reader", "line_gen"},
             memory' = memory \/ \E l : memory' = [memory EXCEPT ![r].line = l]
      PROVE  SummaryInv'
  <2>1. /\ memory'[r].report = memory[r].report /\ memory'[r].clean = memory[r].clean
        /\ memory'[r].summary = memory[r].summary
        /\ \A q \in Runs \ {r} : memory'[q] = memory[q] /\ at'[q] = at[q]
    <3>1. CASE memory' = memory
      BY <1>2, <3>1
    <3>2. ASSUME NEW l, memory' = [memory EXCEPT ![r].line = l]
          PROVE  /\ memory'[r].report = memory[r].report /\ memory'[r].clean = memory[r].clean
                 /\ memory'[r].summary = memory[r].summary
                 /\ \A q \in Runs \ {r} : memory'[q] = memory[q]
      <4>1. memory' = [memory EXCEPT ![r] = [memory[r] EXCEPT !.line = l]]
        BY <3>2
      <4> QED BY <4>1 DEF RunInv
    <3> QED BY <1>2, <3>1, <3>2
  <2>2. ~ met => FileInv(r)'
    BY <1>2, <2>1 DEF SummaryInv, FileInv
  <2> QED BY <1>2, <2>1, <2>2, OthersSummarised
<1> QED BY <1>1, <1>2

LEMMA ReportedStep ==
  ASSUME ProgressInv, TableInv, SummaryInv, NEW r \in Runs, WriteBack(r)
  PROVE  SummaryInv'
<1> USE DEF ProgressInv
<1> DEFINE j == job[r]
           written == Written(j.head, j.rows)
           rest == SubSeq(file.rows, Len(written) + 1, Len(file.rows))
<1>1. /\ j.step = "truncated" /\ met' = met
      /\ file' = [head |-> IF j.head = {} THEN file.head ELSE j.head, rows |-> written \o rest]
      /\ \/ /\ Len(Writable(j.head, j.rows)) = Len(j.rows)
            /\ memory' = [memory EXCEPT ![r].report = j.rows]
            /\ left' = [left EXCEPT ![r] = file']
            /\ Succeeds(r, "validator")
         \/ Fails(r) /\ UNCHANGED left
  BY DEF WriteBack
<1>2. CASE met
  BY <1>1, <1>2 DEF SummaryInv
<1>3. CASE Fails(r) /\ UNCHANGED left
  BY <1>1, <1>3, SummaryKept
<1>4. CASE /\ ~ met
           /\ Len(Writable(j.head, j.rows)) = Len(j.rows)
           /\ memory' = [memory EXCEPT ![r].report = j.rows]
           /\ left' = [left EXCEPT ![r] = file']
           /\ Succeeds(r, "validator")
  <2>1. /\ file.rows = <<>> /\ j.head \in SUBSET Columns /\ IsTable(j.before, j.head)
    BY <1>1, <1>4 DEF TableInv, WriterInv
  <2>2. PICK l \in Lines : Edits(l.row, j.before, j.rows)
    BY <1>1, <1>4 DEF TableInv, WriterInv
  <2>3. j.rows \in Seq(Row)
    BY <2>1, <2>2, EditedRows, PipelineAssumption DEF IsTable
  <2>4. written \in Seq(Row) /\ Contents(CompleteRows(j.rows)) = Contents(CompleteRows(written))
    BY <1>4, <2>1, <2>3, WholeWritten
  <2> HIDE DEF written
  <2>5. file'.rows = written /\ written \in Seq(Row)
    <3>1. written \in Seq(Row) /\ Len(written) + 1 \in Int /\ Len(file.rows) = 0 /\ 0 < Len(written) + 1
      BY <2>1, <2>4
    <3>2. rest = <<>>
      BY <3>1, SubSeqEmpty
    <3> QED BY <1>1, <3>1, <3>2, ConcatEmptySeq
  <2>6. /\ memory' = [memory EXCEPT ![r] = [memory[r] EXCEPT !.report = j.rows]]
        /\ at' = [at EXCEPT ![r] = "validator"] /\ at[r] = "writer"
    BY <1>1, <1>4 DEF Succeeds, RunInv
  <2>7. /\ memory'[r].report = j.rows /\ memory'[r].summary = memory[r].summary
        /\ memory[r].summary = "none" /\ at'[r] = "validator" /\ left'[r].rows = written
    BY <1>4, <2>5, <2>6 DEF SummaryInv, FileInv, RunInv
  <2>8. FileInv(r)'
    BY <2>3, <2>4, <2>5, <2>7 DEF FileInv
  <2> QED BY <1>1, <1>4, <2>6, <2>8, OthersSummarised
<1> QED BY <1>1, <1>2, <1>3, <1>4

LEMMA ValidatedStep ==
  ASSUME ProgressInv, SummaryInv, NEW r \in Runs, Validate(r)
  PROVE  SummaryInv'
<1> USE DEF ProgressInv
<1>1. /\ at[r] = "validator" /\ left' = left /\ met' = met
      /\ memory' = [memory EXCEPT ![r] = [memory[r] EXCEPT !.clean = CompleteRows(memory[r].report)]]
      /\ at' = [at EXCEPT ![r] = "summarizer"]
  BY DEF Validate, Succeeds, tableVars
<1>2. /\ memory'[r].clean = CompleteRows(memory[r].report) /\ memory'[r].report = memory[r].report
      /\ memory'[r].summary = memory[r].summary /\ at'[r] = "summarizer"
  BY <1>1 DEF RunInv
<1>3. ASSUME ~ met PROVE FileInv(r)'
  <2>1. FileInv(r)
    BY <1>3 DEF SummaryInv
  <2>2. Contents(CompleteRows(memory[r].report)) = Contents(CompleteRows(left[r].rows))
    BY <1>1, <2>1 DEF FileInv
  <2> QED BY <1>1, <1>2, <2>1, <2>2 DEF FileInv
<1> QED BY <1>1, <1>3, OthersSummarised

LEMMA SummarisedStep ==
  ASSUME ProgressInv, SummaryInv, NEW r \in Runs, SummariseOffline(r) \/ SummaryAnswered(r)
  PROVE  SummaryInv'
<1> USE DEF ProgressInv
<1>1. /\ at[r] = "summarizer" /\ left' = left /\ met' = met
      /\ \/ Fails(r)
         \/ \E summary : memory' = [memory EXCEPT ![r].summary = summary] /\ Succeeds(r, "insights")
  BY DEF SummariseOffline, SummaryAnswered, tableVars
<1>2. ASSUME NEW summary, memory' = [memory EXCEPT ![r].summary = summary], Succeeds(r, "insights")
      PROVE  SummaryInv'
  <2>1. /\ memory' = [memory EXCEPT ![r] = [memory[r] EXCEPT !.summary = summary]]
        /\ at' = [at EXCEPT ![r] = "insights"]
    BY <1>2 DEF Succeeds
  <2>2. memory'[r].report = memory[r].report /\ memory'[r].clean = memory[r].clean /\ at'[r] = "insights"
    BY <2>1 DEF RunInv
  <2>3. ~ met => FileInv(r)'
    BY <1>1, <2>2 DEF SummaryInv, FileInv
  <2> QED BY <1>1, <2>1, <2>3, OthersSummarised
<1> QED BY <1>1, <1>2, SummaryKept

LEMMA SummaryStep ==
  ASSUME ProgressInv, TableInv, SummaryInv, [PipelineNext]_pipelineVars
  PROVE  SummaryInv'
<1> USE DEF ProgressInv
<1>1. ASSUME UNCHANGED <<met, left, memory, at>> PROVE SummaryInv'
  BY <1>1 DEF SummaryInv, FileInv
<1>2. ASSUME NEW r \in Runs, NEW p, NEW m, Request(r, p, m) PROVE SummaryInv'
  BY <1>1, <1>2, SummaryKept DEF Request, tableVars, runVars
<1>3. ASSUME NEW r \in Runs, RunStep(r) PROVE SummaryInv'
  <2>1. CASE AskForLine(r) \/ AskForSummary(r) \/ AskForInsights(r)
    <3>1. \E p, m : Request(r, p, m)
      BY <2>1 DEF AskForLine, AskForSummary, AskForInsights
    <3> QED BY <1>2, <3>1
  <2>2. CASE ReadHeaders(r) \/ LineAnswered(r)
    <3>1. /\ left' = left /\ met' = met
          /\ \/ Fails(r)
             \/ \E next \in {"line_gen", "writer", "end"} :
                  /\ at' = [at EXCEPT ![r] = next]
                  /\ at[r] \in {"reader", "line_gen"} /\ next # "end"
                  /\ memory' = memory \/ \E l : memory' = [memory EXCEPT ![r].line = l]
      BY <2>2 DEF ReadHeaders, LineAnswered, Succeeds, tableVars
    <3> QED BY <3>1, SummaryKept
  <2>3. CASE WriterRefuses(r) \/ InsightsRefuse(r)
    BY <2>3, SummaryKept DEF WriterRefuses, InsightsRefuse, tableVars
  <2>4. CASE InsightsAnswered(r)
    <3>1. /\ left' = left /\ met' = met
          /\ Fails(r) \/ (at[r] = "insights" /\ at' = [at EXCEPT ![r] = "end"] /\ memory' = memory)
      BY <2>4 DEF InsightsAnswered, tableVars
    <3> QED BY <3>1, SummaryKept
  <2>5. CASE ReadTable(r)
    <3>1. UNCHANGED <<left, memory, at>> /\ (met => met')
      BY <2>5 DEF ReadTable, runVars
    <3> QED BY <3>1 DEF SummaryInv, FileInv
  <2>6. CASE Truncate(r) \/ TimerStep(r)
    BY <1>1, <2>6 DEF Truncate, TimerStep, tableVars, runVars
  <2> QED BY <1>3, <2>1, <2>2, <2>3, <2>4, <2>5, <2>6, ReportedStep, ValidatedStep, SummarisedStep
          DEF RunStep
<1>4. ASSUME NEW r \in Runs, ProviderStep(r) PROVE SummaryInv'
  BY <1>1, <1>4 DEF ProviderStep, tableVars, runVars
<1> QED BY <1>1, <1>3, <1>4 DEF PipelineNext, Settled, pipelineVars, tableVars, runVars

(* While writers have not met, a summary is of the complete rows of the    *)
(* file as the run's writer left it, although the file is not read again.  *)
THEOREM SummariesAreOfTheFile == PipelineSpec => []SummaryIsOfTheFile
<1>1. PipelineInit => SummaryInv
  <2> SUFFICES ASSUME PipelineInit PROVE SummaryInv
    OBVIOUS
  <2>1. \A r \in Runs : at[r] = "reader" /\ memory[r].summary = "none"
    BY DEF PipelineInit
  <2> QED BY <2>1 DEF SummaryInv, FileInv
<1>2. SummaryInv => SummaryIsOfTheFile
  BY DEF SummaryInv, FileInv, SummaryIsOfTheFile
<1> QED BY <1>1, <1>2, SummaryStep, TableSafe, ProgressSafe, PTL DEF PipelineSpec

-----------------------------------------------------------------------------
(* Limits *)

(* Whatever is stored, it is the strings that are within the window.       *)
WindowInv ==
  /\ window \in Nat /\ tiktoken \in BOOLEAN
  /\ stored \in [kind : {"nothing", "text", "number", "object"}, chars : Nat]
  /\ WindowHeld

(* Estimating what fits a budget gives no more than the budget.            *)
LEMMA BudgetHolds ==
  ASSUME NEW tokens \in Int, NEW chars \in Int, chars <= Budget(tokens)
  PROVE  Estimate(chars) <= tokens
BY DEF Budget, Estimate

LEMMA StoredWithin ==
  ASSUME WindowInv, NEW c \in Output, UpdateNodeContext(c)
  PROVE  WindowInv'
<1>1. /\ doing'.op = "idle" /\ tiktoken' = tiktoken /\ window' = window /\ window \in Nat
      /\ stored' \in Windowed(c) /\ Budget(window) \in Nat
      /\ c \in [kind : {"text", "number", "object"}, chars : Nat]
  BY PromptAssumption DEF UpdateNodeContext, Idle, WindowInv, Output, LeastChars, Budget
<1> SUFFICES /\ stored' \in [kind : {"text", "number", "object"}, chars : Nat]
             /\ window # 0 /\ IsString(stored') => Estimate(stored'.chars) <= window
  BY <1>1 DEF WindowInv, WindowHeld, IsString
<1>2. CASE window = 0 \/ (tiktoken /\ ~ (Estimate(c.chars) > window))
  <2>1. stored' = c
    BY <1>1, <1>2 DEF Windowed
  <2> QED BY <1>1, <1>2, <2>1 DEF Estimate
<1>3. CASE window # 0 /\ tiktoken /\ Estimate(c.chars) > window
  <2>1. stored' \in Reparsed(c)
    BY <1>1, <1>3 DEF Windowed
  <2>2. stored' \in [kind : {"text", "number", "object"}, chars : Nat]
    BY <2>1, PromptAssumption DEF Reparsed, Output, LeastChars
  <2>3. IsString(stored') => stored'.chars <= Budget(window)
    BY <1>1, <2>1, <2>2 DEF Reparsed, IsString
  <2> QED BY <1>1, <2>2, <2>3, BudgetHolds
<1>4. CASE window # 0 /\ ~ tiktoken
  <2>1. stored' = IF IsString(c) /\ c.chars > Budget(window)
                  THEN [c EXCEPT !.chars = Budget(window)] ELSE c
    BY <1>1, <1>4 DEF Windowed
  <2>2. /\ stored' \in [kind : {"text", "number", "object"}, chars : Nat]
        /\ IsString(stored') => stored'.chars <= Budget(window)
    BY <1>1, <2>1 DEF IsString
  <2> QED BY <1>1, <2>2, BudgetHolds
<1> QED BY <1>2, <1>3, <1>4

(* What a cut leaves is a prefix, fences and all, so whatever the format   *)
(* adds is within the limit of the rule.                                   *)
LEMMA KeptWithin ==
  ASSUME NEW rule \in ContextRule, rule.truncate, LimitsSomething(rule), NEW chars \in Nat
  PROVE  Estimate(Kept(rule, chars)) <= rule.limit
<1>1. rule.limit \in Int /\ rule.limit # None /\ rule.limit > 0 /\ Budget(rule.limit) \in Nat
  BY DEF ContextRule, LimitsSomething, Budget
<1> DEFINE over == IF tiktoken THEN Estimate(chars) > rule.limit
                               ELSE rule.limit # 0 /\ chars > Budget(rule.limit)
<1>2. CASE over
  <2>1. Kept(rule, chars) = Prefix(chars, Budget(rule.limit))
    BY <1>1, <1>2 DEF Kept
  <2>2. Prefix(chars, Budget(rule.limit)) \in Int /\ Prefix(chars, Budget(rule.limit)) <= Budget(rule.limit)
    BY <1>1 DEF Prefix
  <2> QED BY <1>1, <2>1, <2>2, BudgetHolds
<1>3. CASE ~ over
  <2>1. Kept(rule, chars) = chars
    BY <1>3 DEF Kept
  <2>2. tiktoken => ~ (Estimate(chars) > rule.limit)
    BY <1>3
  <2>3. ~ tiktoken => chars <= Budget(rule.limit)
    BY <1>1, <1>3
  <2> HIDE DEF over
  <2>4. CASE tiktoken
    BY <1>1, <2>1, <2>2, <2>4 DEF Estimate
  <2>5. CASE ~ tiktoken
    BY <1>1, <2>1, <2>3, <2>5, BudgetHolds
  <2> QED BY <2>4, <2>5
<1> QED BY <1>2, <1>3

LEMMA FormattedWithin ==
  ASSUME WindowInv, NEW rule \in Rules, FormatContext(rule)
  PROVE  WindowInv'
<1>1. rule \in ContextRule /\ UNCHANGED <<tiktoken, window, stored>>
  BY PromptAssumption DEF FormatContext
<1>2. CASE doing' = [op |-> "raised"]
  BY <1>1, <1>2 DEF WindowInv, WindowHeld, IsString
<1>3. ASSUME NEW n \in Formatted(rule, stored),
             doing' = [op |-> "formatted", valid |-> RuleIsValid(rule), rule |-> rule, chars |-> n]
      PROVE  WindowInv'
  <2> SUFFICES ASSUME RuleIsValid(rule), LimitsSomething(rule), rule.truncate
               PROVE  Estimate(n) <= window
    BY <1>1, <1>3 DEF WindowInv, WindowHeld, IsString, LimitsSomething
  <2>1. rule.limit \in Int /\ rule.limit <= window /\ window \in Nat
    BY <1>1 DEF ContextRule, LimitsSomething, RuleIsValid, WindowInv
  <2>2. PICK body \in Bodies(rule.format, stored) : n = Kept(rule, body + Fences(rule.format, stored))
    BY DEF Formatted
  <2>3. body + Fences(rule.format, stored) \in Nat
    <3>1. body \in Nat
      BY <2>2, PromptAssumption DEF Bodies, WindowInv
    <3>2. Fences(rule.format, stored) \in {0, 8, 16}
      BY DEF Fences
    <3> QED BY <3>1, <3>2
  <2>4. Estimate(n) <= rule.limit /\ n \in Int
    <3>1. Estimate(n) <= rule.limit
      BY <1>1, <2>2, <2>3, KeptWithin
    <3>2. n \in Int
      BY <2>1, <2>2, <2>3 DEF Kept, Prefix, Budget
    <3> QED BY <3>1, <3>2
  <2> QED BY <2>1, <2>4 DEF Estimate
<1> QED BY <1>2, <1>3 DEF FormatContext

LEMMA CompressedWithin ==
  ASSUME WindowInv, NEW s, NEW l \in Limits, Compress(s, l)
  PROVE  WindowInv'
<1> DEFINE limit == IF l = 0 THEN window ELSE l
<1>1. UNCHANGED <<tiktoken, window, stored>> /\ limit \in Int
  BY PromptAssumption DEF Compress, WindowInv
<1>2. CASE doing' = [op |-> "raised"]
  BY <1>1, <1>2 DEF WindowInv, WindowHeld, IsString
<1>3. CASE doing' # [op |-> "raised"]
  <2>1. doing'.op = "compressed" /\ doing'.strategy = s /\ doing'.limit = limit
        /\ (s = "summarize" => doing'.result = Summarised(stored, limit))
    BY <1>3 DEF Compress
  <2>2. ASSUME limit > 0 PROVE Estimate(Summarised(stored, limit).chars) <= limit
    <3>1. CASE stored.chars <= Budget(limit)
      <4>1. Summarised(stored, limit).chars = stored.chars
        BY <3>1 DEF Summarised, WindowInv
      <4> QED BY <1>1, <3>1, <4>1, BudgetHolds DEF WindowInv
    <3>2. CASE ~ (stored.chars <= Budget(limit))
      <4>1. Summarised(stored, limit).chars = Prefix(stored.chars, Budget(limit) - 3) + 1
        BY <3>2 DEF Summarised
      <4>2. /\ Prefix(stored.chars, Budget(limit) - 3) = Budget(limit) - 3
            /\ Budget(limit) \in Int
        <5>1. stored.chars \in Nat /\ Budget(limit) \in Int /\ Budget(limit) >= 4
          BY <1>1, <2>2 DEF WindowInv, Budget
        <5> QED BY <3>2, <5>1 DEF Prefix
      <4>3. Summarised(stored, limit).chars \in Int /\ Summarised(stored, limit).chars <= Budget(limit)
        BY <4>1, <4>2
      <4> QED BY <1>1, <4>3, BudgetHolds
    <3> QED BY <3>1, <3>2
  <2> HIDE DEF limit
  <2> QED BY <1>1, <2>1, <2>2 DEF WindowInv, WindowHeld, IsString
<1> QED BY <1>2, <1>3

(* Strings are stored within the window, and what rules and summaries make *)
(* of any output is within their limits, however re-parsing changed it.    *)
THEOREM WindowsHold == Spec => []WindowHeld
<1>1. Init => WindowInv
  BY PromptAssumption DEF Init, WindowInv, WindowHeld, Nothing, Idle, IsString
<1>2. WindowInv /\ [Next]_vars => WindowInv'
  <2> SUFFICES ASSUME WindowInv, [Next]_vars PROVE WindowInv'
    OBVIOUS
  <2>1. ASSUME UNCHANGED <<tiktoken, window, stored>>, doing'.op \notin {"formatted", "compressed"}
        PROVE  WindowInv'
    BY <2>1 DEF WindowInv, WindowHeld, IsString
  <2>2. CASE NextChunk
    <3>1. doing'.op \in {"chunking", "chunked"}
      BY <2>2 DEF NextChunk
    <3> QED BY <2>1, <2>2, <3>1 DEF NextChunk
  <2>3. ASSUME NEW w, NEW s, NEW o, ChunkText(w, s, o) PROVE WindowInv'
    BY <2>1, <2>3 DEF ChunkText
  <2>4. ASSUME NEW t, CreateTemplate(t) PROVE WindowInv'
    BY <2>1, <2>4 DEF CreateTemplate
  <2>5. CASE UNCHANGED vars
    BY <2>5 DEF vars, WindowInv, WindowHeld, IsString
  <2>6. CASE Return
    BY <2>1, <2>6 DEF Return, Idle
  <2> QED BY <2>2, <2>3, <2>4, <2>5, <2>6, StoredWithin, FormattedWithin, CompressedWithin DEF Next
<1> QED BY <1>1, <1>2, PTL DEF Spec, WindowInv

-----------------------------------------------------------------------------
(* Chunks *)

(* Where the chunks end, after nothing at first, and where each begins.    *)
From(d, ends, i) == IF i = 1 THEN 0 ELSE ends[i - 1] - d.overlap

(* Each chunk reaches further than the last, starts within the words seen  *)
(* so far, and is shorter than was asked for only at the end.              *)
CutAt(d, ends) ==
  /\ ends \in [0 .. Len(d.chunks) -> 0 .. d.words] /\ ends[0] = 0
  /\ \A i \in 1 .. Len(d.chunks) :
       /\ d.chunks[i] = From(d, ends, i) + 1 .. ends[i]
       /\ ends[i - 1] < ends[i] /\ 0 <= From(d, ends, i) /\ ends[i] - From(d, ends, i) <= d.size
       /\ ends[i] < d.words => ends[i] - From(d, ends, i) = d.size
  /\ \A i \in 0 .. Len(d.chunks) : UNION {d.chunks[j] : j \in 1 .. i} = 1 .. ends[i]
  /\ d.op = "chunked" => ends[Len(d.chunks)] = d.words
  /\ d.op = "chunking" =>
       /\ ends[Len(d.chunks)] < d.words /\ 0 <= d.start
       /\ d.start = From(d, ends, Len(d.chunks) + 1)

ChunkType(d) ==
  /\ DOMAIN d = {"op", "words", "size", "overlap", "start", "chunks"}
  /\ d.words \in Nat /\ d.size \in Nat \ {0} /\ d.overlap \in Int /\ d.overlap < d.size
  /\ d.start \in Int /\ d.chunks \in Seq(SUBSET Int)

ChunkInv ==
  doing.op \in {"chunking", "chunked"} =>
    ChunkType(doing) /\ (doing.overlap >= 0 => \E ends : CutAt(doing, ends))

LEMMA ChunkTextStarts ==
  ASSUME NEW w \in 0 .. MaxWords, NEW s \in Sizes, NEW o \in Overlaps, ChunkText(w, s, o)
  PROVE  ChunkInv'
<1> DEFINE size == Chosen(s, DefaultSize)
           overlap == Chosen(o, DefaultOverlap)
           d == [op |-> IF w = 0 THEN "chunked" ELSE "chunking", words |-> w,
                 size |-> size, overlap |-> overlap, start |-> 0, chunks |-> <<>>]
<1>1. size \in Int /\ overlap \in Int /\ w \in Nat
  BY PromptAssumption DEF Chosen
<1>2. CASE Refuses(size, overlap)
  BY <1>2 DEF ChunkText, ChunkInv
<1>3. CASE ~ Refuses(size, overlap)
  <2>1. doing' = d
    BY <1>3 DEF ChunkText
  <2>2. size \in Nat \ {0} /\ overlap < size
    BY <1>1, <1>3 DEF Refuses
  <2> HIDE DEF size, overlap
  <2>3. ChunkType(d)
    BY <1>1, <2>2 DEF ChunkType
  <2>4. CutAt(d, [i \in 0 .. 0 |-> 0])
    <3> DEFINE ends == [i \in 0 .. 0 |-> 0]
    <3>1. /\ Len(d.chunks) = 0 /\ d.chunks = <<>> /\ d.words = w /\ d.start = 0
          /\ d.op = IF w = 0 THEN "chunked" ELSE "chunking"
      OBVIOUS
    <3>2. ends \in [0 .. Len(d.chunks) -> 0 .. d.words] /\ ends[0] = 0
      BY <1>1, <3>1
    <3>3. \A i \in 0 .. Len(d.chunks) : i = 0 /\ 1 .. i = {} /\ 1 .. ends[i] = {}
      BY <3>1, <3>2
    <3>4. \A i \in 0 .. Len(d.chunks) : UNION {d.chunks[j] : j \in 1 .. i} = 1 .. ends[i]
      BY <3>3
    <3>5. \A i \in 1 .. Len(d.chunks) : FALSE
      BY <3>1
    <3>6. From(d, ends, Len(d.chunks) + 1) = 0
      BY <3>1 DEF From
    <3> HIDE DEF ends, d
    <3> QED BY <1>1, <3>1, <3>2, <3>4, <3>5, <3>6 DEF CutAt
  <2> QED BY <2>1, <2>3, <2>4 DEF ChunkInv
<1> QED BY <1>2, <1>3

LEMMA NextChunkCuts ==
  ASSUME ChunkInv, NextChunk
  PROVE  ChunkInv'
<1> DEFINE d == doing
           e == doing'
           n == Len(d.chunks)
           end == IF d.start + d.size < d.words THEN d.start + d.size ELSE d.words
<1>1. ChunkType(d) /\ d.op = "chunking"
  BY DEF NextChunk, ChunkInv
<1>2. /\ DOMAIN e = DOMAIN d /\ e.words = d.words /\ e.size = d.size /\ e.overlap = d.overlap
      /\ e.chunks = Append(d.chunks, d.start + 1 .. end)
      /\ e.op = IF end = d.words \/ end - d.overlap >= d.words THEN "chunked" ELSE "chunking"
      /\ e.start = IF end = d.words THEN d.start ELSE end - d.overlap
  BY <1>1 DEF NextChunk, ChunkType
<1>3. end \in Int /\ d.start + 1 .. end \in SUBSET Int /\ n \in Nat
  BY <1>1 DEF ChunkType
<1> HIDE DEF end
<1>4. ChunkType(e)
  BY <1>1, <1>2, <1>3 DEF ChunkType
<1>5. /\ Len(e.chunks) = n + 1 /\ e.chunks[n + 1] = d.start + 1 .. end
      /\ \A i \in 1 .. n : e.chunks[i] = d.chunks[i]
  BY <1>1, <1>2, <1>3, AppendProperties DEF ChunkType
<1>6. ASSUME d.overlap >= 0 PROVE \E ends : CutAt(e, ends)
  <2>1. PICK old : CutAt(d, old)
    BY <1>1, <1>6 DEF ChunkInv
  <2> DEFINE ends == [i \in 0 .. n + 1 |-> IF i = n + 1 THEN end ELSE old[i]]
  <2>2. /\ old \in [0 .. n -> 0 .. d.words] /\ old[0] = 0 /\ old[n] < d.words /\ 0 <= d.start
        /\ d.start = From(d, old, n + 1) /\ old[n] \in Nat
    BY <1>1, <1>3, <2>1 DEF CutAt
  <2>3. d.start <= old[n]
    BY <1>1, <1>3, <1>6, <2>2 DEF From, ChunkType
  <2>4. /\ old[n] < end /\ end <= d.words /\ end - d.start <= d.size
        /\ end < d.words => end - d.start = d.size
    <3>1. d.overlap < d.size /\ d.start >= old[n] - d.overlap
      BY <1>1, <1>3, <1>6, <2>2 DEF From, ChunkType
    <3> QED BY <1>1, <2>2, <3>1 DEF end, ChunkType
  <2>5. /\ \A i \in 0 .. n : ends[i] = old[i]
        /\ ends[n + 1] = end
        /\ \A i \in 1 .. n + 1 : From(e, ends, i) = From(d, old, i)
    BY <1>2, <1>3 DEF From
  <2>6. ends \in [0 .. Len(e.chunks) -> 0 .. e.words] /\ ends[0] = 0
    BY <1>1, <1>2, <1>3, <1>5, <2>2, <2>4 DEF ChunkType
  <2> HIDE DEF ends
  <2>7. ASSUME NEW i \in 1 .. Len(e.chunks)
        PROVE  /\ e.chunks[i] = From(e, ends, i) + 1 .. ends[i]
               /\ ends[i - 1] < ends[i] /\ 0 <= From(e, ends, i) /\ ends[i] - From(e, ends, i) <= e.size
               /\ ends[i] < e.words => ends[i] - From(e, ends, i) = e.size
    <3>1. CASE i = n + 1
      BY <1>2, <1>3, <1>5, <2>2, <2>4, <2>5, <3>1
    <3>2. CASE i \in 1 .. n
      <4>1. /\ d.chunks[i] = From(d, old, i) + 1 .. old[i]
            /\ old[i - 1] < old[i] /\ 0 <= From(d, old, i) /\ old[i] - From(d, old, i) <= d.size
            /\ old[i] < d.words => old[i] - From(d, old, i) = d.size
        BY <2>1, <3>2 DEF CutAt
      <4>2. i - 1 \in 0 .. n /\ i \in 0 .. n /\ i \in 1 .. n + 1
        BY <1>3, <3>2
      <4> QED BY <1>2, <1>5, <2>5, <3>2, <4>1, <4>2
    <3> QED BY <1>3, <1>5, <3>1, <3>2
  <2>8. ASSUME NEW i \in 0 .. Len(e.chunks)
        PROVE  UNION {e.chunks[j] : j \in 1 .. i} = 1 .. ends[i]
    <3>1. UNION {d.chunks[j] : j \in 1 .. n} = 1 .. old[n]
      <4>1. n \in 0 .. Len(d.chunks)
        BY <1>3
      <4> QED BY <2>1, <4>1 DEF CutAt
    <3>2. CASE i = n + 1
      <4>1. {e.chunks[j] : j \in 1 .. i} = {d.chunks[j] : j \in 1 .. n} \cup {d.start + 1 .. end}
        <5>1. \A j \in 1 .. i : j \in 1 .. n \/ j = n + 1
          BY <1>3, <3>2
        <5>2. 1 .. n \subseteq 1 .. i /\ n + 1 \in 1 .. i
          BY <1>3, <3>2
        <5> QED BY <1>5, <5>1, <5>2
      <4>2. UNION {e.chunks[j] : j \in 1 .. i} = (1 .. old[n]) \cup (d.start + 1 .. end)
        BY <3>1, <4>1
      <4>3. (1 .. old[n]) \cup (d.start + 1 .. end) = 1 .. end
        BY <1>1, <1>3, <2>2, <2>3, <2>4 DEF ChunkType
      <4> QED BY <2>5, <3>2, <4>2, <4>3
    <3>3. CASE i \in 0 .. n
      <4>1. UNION {d.chunks[j] : j \in 1 .. i} = 1 .. old[i]
        BY <2>1, <3>3 DEF CutAt
      <4>2. {e.chunks[j] : j \in 1 .. i} = {d.chunks[j] : j \in 1 .. i}
        <5>1. 1 .. i \subseteq 1 .. n
          BY <1>3, <3>3
        <5> QED BY <1>5, <5>1
      <4> QED BY <2>5, <3>3, <4>1, <4>2
    <3> QED BY <1>3, <1>5, <3>2, <3>3
  <2>9. /\ e.op = "chunked" => ends[Len(e.chunks)] = e.words
        /\ e.op = "chunking" =>
             /\ ends[Len(e.chunks)] < e.words /\ 0 <= e.start
             /\ e.start = From(e, ends, Len(e.chunks) + 1)
    <3>1. ends[Len(e.chunks)] = end /\ end - d.overlap >= d.words => end = d.words
      BY <1>1, <1>3, <1>5, <1>6, <2>4, <2>5 DEF ChunkType
    <3>2. ends[Len(e.chunks)] = end
      BY <1>5, <2>5
    <3>3. CASE end = d.words
      BY <1>2, <3>2, <3>3
    <3>4. CASE end # d.words
      <4>1. end < d.words /\ end - d.start = d.size /\ ~ (end - d.overlap >= d.words)
        BY <1>1, <1>3, <2>4, <3>1, <3>2, <3>4 DEF ChunkType
      <4>2. From(e, ends, Len(e.chunks) + 1) = end - d.overlap
        BY <1>2, <1>3, <1>5, <3>2 DEF From
      <4>3. 0 <= end - d.overlap
        BY <1>1, <1>3, <2>2, <4>1 DEF ChunkType
      <4> QED BY <1>2, <3>2, <3>4, <4>1, <4>2, <4>3
    <3> QED BY <3>3, <3>4
  <2>10. CutAt(e, ends)
    <3> HIDE DEF e
    <3> QED BY <2>6, <2>7, <2>8, <2>9 DEF CutAt
  <2> QED BY <2>10
<1> QED BY <1>2, <1>4, <1>6 DEF ChunkInv

LEMMA WordsBetween ==
  ASSUME NEW a \in Int, NEW b \in Int, a <= b
  PROVE  Cardinality(a + 1 .. b) = b - a
<1> DEFINE c == a + 1
<1>1. c \in Int /\ (c > b => b - a = 0) /\ (~ (c > b) => b - c + 1 = b - a)
  OBVIOUS
<1> HIDE DEF c
<1>2. Cardinality(c .. b) = IF c > b THEN 0 ELSE b - c + 1
  BY <1>1, FS_Interval
<1> QED BY <1>1, <1>2 DEF c

LEMMA CutsCover == ChunkInv => ChunksCover
<1> SUFFICES ASSUME ChunkInv, doing.op \in {"chunking", "chunked"}, doing.overlap >= 0
             PROVE  /\ \A i \in DOMAIN doing.chunks :
                         /\ Cardinality(doing.chunks[i]) <= doing.size
                         /\ ~ doing.chunks[i] \subseteq UNION {doing.chunks[j] : j \in 1 .. i - 1}
                         /\ i > 1 => Cardinality(doing.chunks[i] \cap doing.chunks[i - 1]) = doing.overlap
                    /\ doing.op = "chunked" => UNION Range(doing.chunks) = 1 .. doing.words
  BY DEF ChunksCover
<1> DEFINE d == doing
<1>1. ChunkType(d) /\ d.overlap \in Nat
  BY DEF ChunkInv, ChunkType
<1>2. PICK ends : CutAt(d, ends)
  BY DEF ChunkInv
<1> HIDE DEF d
<1>3. DOMAIN d.chunks = 1 .. Len(d.chunks) /\ Len(d.chunks) \in Nat
  BY <1>1 DEF ChunkType
<1>4. ASSUME NEW i \in 1 .. Len(d.chunks)
      PROVE  /\ d.chunks[i] = From(d, ends, i) + 1 .. ends[i]
             /\ From(d, ends, i) \in Int /\ ends[i] \in Int /\ ends[i - 1] \in Int
             /\ ends[i - 1] < ends[i] /\ 0 <= From(d, ends, i) /\ From(d, ends, i) <= ends[i - 1]
             /\ ends[i] - From(d, ends, i) <= d.size /\ ends[i] <= d.words
             /\ ends[i] < d.words => ends[i] - From(d, ends, i) = d.size
             /\ UNION {d.chunks[j] : j \in 1 .. i - 1} = 1 .. ends[i - 1]
  <2>1. ends \in [0 .. Len(d.chunks) -> 0 .. d.words] /\ i - 1 \in 0 .. Len(d.chunks)
    BY <1>2, <1>3 DEF CutAt
  <2>2. i \in 0 .. Len(d.chunks) /\ d.words \in Nat
    BY <1>1, <1>3 DEF ChunkType
  <2>3. ends[i] \in 0 .. d.words /\ ends[i - 1] \in 0 .. d.words
    BY <2>1, <2>2
  <2>4. From(d, ends, i) \in Int /\ From(d, ends, i) <= ends[i - 1]
    BY <1>1, <1>2, <2>2, <2>3 DEF From, CutAt
  <2>5. UNION {d.chunks[j] : j \in 1 .. i - 1} = 1 .. ends[i - 1]
    BY <1>2, <2>1 DEF CutAt
  <2>6. /\ d.chunks[i] = From(d, ends, i) + 1 .. ends[i]
        /\ ends[i - 1] < ends[i] /\ 0 <= From(d, ends, i) /\ ends[i] - From(d, ends, i) <= d.size
        /\ ends[i] < d.words => ends[i] - From(d, ends, i) = d.size
    BY <1>2 DEF CutAt
  <2> QED BY <2>2, <2>3, <2>4, <2>5, <2>6
<1>5. ASSUME NEW i \in 1 .. Len(d.chunks)
      PROVE  /\ Cardinality(d.chunks[i]) <= d.size
             /\ ~ d.chunks[i] \subseteq UNION {d.chunks[j] : j \in 1 .. i - 1}
  <2>1. Cardinality(d.chunks[i]) = ends[i] - From(d, ends, i)
    <3> DEFINE a == From(d, ends, i)
    <3>1. d.chunks[i] = a + 1 .. ends[i] /\ a \in Int /\ ends[i] \in Int /\ ends[i - 1] \in Int
          /\ ends[i - 1] < ends[i] /\ a <= ends[i - 1]
      BY <1>4
    <3> HIDE DEF a
    <3>2. a <= ends[i]
      BY <3>1
    <3>3. Cardinality(a + 1 .. ends[i]) = ends[i] - a
      BY <3>1, <3>2, WordsBetween
    <3> QED BY <3>1, <3>3 DEF a
  <2>2. ends[i] \in d.chunks[i] /\ ends[i] \notin 1 .. ends[i - 1]
    <3> DEFINE a == From(d, ends, i)
               b == ends[i]
               c == ends[i - 1]
    <3>1. d.chunks[i] = a + 1 .. b /\ a \in Int /\ b \in Int /\ c \in Int /\ a <= c /\ c < b
      BY <1>4
    <3> HIDE DEF a, b, c
    <3>2. b \in d.chunks[i] /\ b \notin 1 .. c
      BY <3>1
    <3> QED BY <3>2 DEF b, c
  <2> QED BY <1>4, <2>1, <2>2
<1>6. ASSUME NEW i \in 1 .. Len(d.chunks), i > 1
      PROVE  Cardinality(d.chunks[i] \cap d.chunks[i - 1]) = d.overlap
  <2>1. i - 1 \in 1 .. Len(d.chunks) /\ From(d, ends, i) = ends[i - 1] - d.overlap
    BY <1>3, <1>6 DEF From
  <2>2. ends[i - 1] < d.words
    BY <1>1, <1>4 DEF ChunkType
  <2>3. /\ ends[i - 1] - From(d, ends, i - 1) = d.size
        /\ d.chunks[i - 1] = From(d, ends, i - 1) + 1 .. ends[i - 1]
        /\ From(d, ends, i - 1) \in Int
    BY <1>4, <2>1, <2>2
  <2>4. d.overlap \in Int /\ d.size \in Int /\ d.overlap < d.size /\ d.overlap >= 0
    BY <1>1 DEF ChunkType
  <2> DEFINE a == ends[i - 1] - d.overlap
             b == ends[i - 1]
  <2>5. /\ d.chunks[i] = a + 1 .. ends[i] /\ ends[i] \in Int /\ b \in Int /\ a \in Int /\ b < ends[i]
        /\ a <= b
    BY <1>4, <2>1, <2>4
  <2>6. d.chunks[i - 1] = b - d.size + 1 .. b /\ b - d.size \in Int /\ b - d.size <= a
    <3> DEFINE f == From(d, ends, i - 1)
    <3>1. b - f = d.size /\ d.chunks[i - 1] = f + 1 .. b /\ f \in Int /\ a = b - d.overlap
      BY <2>3
    <3> HIDE DEF a, b, f
    <3>2. f = b - d.size
      BY <2>4, <2>5, <3>1
    <3> QED BY <2>4, <2>5, <3>1, <3>2
  <2> HIDE DEF a, b
  <2>7. d.chunks[i] \cap d.chunks[i - 1] = a + 1 .. b
    BY <2>4, <2>5, <2>6
  <2>8. Cardinality(a + 1 .. b) = b - a
    BY <2>5, WordsBetween
  <2>9. b - a = d.overlap
    BY <1>4, <2>4 DEF a, b
  <2> QED BY <2>7, <2>8, <2>9
<1>7. ASSUME d.op = "chunked" PROVE UNION Range(d.chunks) = 1 .. d.words
  <2>1. Range(d.chunks) = {d.chunks[j] : j \in 1 .. Len(d.chunks)}
    BY <1>3 DEF Range
  <2>2. Len(d.chunks) \in 0 .. Len(d.chunks) /\ ends[Len(d.chunks)] = d.words
    BY <1>2, <1>3, <1>7 DEF CutAt
  <2>3. UNION {d.chunks[j] : j \in 1 .. Len(d.chunks)} = 1 .. ends[Len(d.chunks)]
    BY <1>2, <2>2 DEF CutAt
  <2> QED BY <2>1, <2>2, <2>3
<1> QED BY <1>3, <1>5, <1>6, <1>7 DEF d

(* The chunks of a document cover it, overlap as asked for, and each has   *)
(* words of its own: the loop comes to an end.                             *)
THEOREM ChunksAlwaysCover == Spec => []ChunksCover
<1>1. Init => ChunkInv
  BY DEF Init, ChunkInv, Idle
<1>2. ChunkInv /\ [Next]_vars => ChunkInv'
  <2> SUFFICES ASSUME ChunkInv, [Next]_vars PROVE ChunkInv'
    OBVIOUS
  <2>1. ASSUME doing'.op \notin {"chunking", "chunked"} PROVE ChunkInv'
    BY <2>1 DEF ChunkInv
  <2>2. ASSUME NEW c, UpdateNodeContext(c) PROVE ChunkInv'
    BY <2>1, <2>2 DEF UpdateNodeContext, Idle
  <2>3. ASSUME NEW rule, FormatContext(rule) PROVE ChunkInv'
    BY <2>1, <2>3 DEF FormatContext
  <2>4. ASSUME NEW s, NEW l, Compress(s, l) PROVE ChunkInv'
    BY <2>1, <2>4 DEF Compress
  <2>5. ASSUME NEW t, CreateTemplate(t) PROVE ChunkInv'
    BY <2>1, <2>5 DEF CreateTemplate
  <2>6. CASE UNCHANGED vars
    BY <2>6 DEF vars, ChunkInv
  <2>7. CASE Return
    BY <2>1, <2>7 DEF Return, Idle
  <2> QED BY <2>2, <2>3, <2>4, <2>5, <2>6, <2>7, ChunkTextStarts, NextChunkCuts DEF Next
<1> QED BY <1>1, <1>2, CutsCover, PTL DEF Spec
-----------------------------------------------------------------------------
(* Templates *)

(* gpt-4o is the latest version OpenAI has, and the registry allows it.    *)
LEMMA LatestOfOpenAI ==
  ASSUME NEW m, NEW w \in VersionsOf("openai", m)
  PROVE  AtLeast(<<4, 2, 0>>, w)
<1>1. /\ DOMAIN <<4, 2, 0>> = 1 .. 3
      /\ <<4, 2, 0>>[1] = 4 /\ <<4, 2, 0>>[2] = 2 /\ <<4, 2, 0>>[3] = 0
  OBVIOUS
<1>2. PICK row \in Versions.openai : w = row[2]
  BY DEF VersionsOf, Versions
<1>3. \/ w = <<4, 2, 0>>
      \/ w[1] = 3
      \/ w[1] = 4 /\ w[2] \in {0, 1}
  BY <1>2 DEF Versions
<1>4. CASE w[1] = 3
  BY <1>1, <1>4 DEF AtLeast
<1>5. CASE w[1] = 4 /\ w[2] \in {0, 1}
  <2>1. \A j \in 1 .. 1 : j = 1
    OBVIOUS
  <2> QED BY <1>1, <1>5, <2>1 DEF AtLeast
<1> QED BY <1>3, <1>4, <1>5 DEF AtLeast

(* No other provider has a version for a model of OpenAI, unless every     *)
(* model has one: so much for what the deprecated class wants.             *)
LEMMA OthersHaveNone ==
  ASSUME NEW m, HasVersion("openai", m)
  PROVE  \A p : HasVersion(p, m) => p \in {"openai", "deepseek", "custom"}
<1>1. m \in {"gpt-4", "gpt-4-turbo", "gpt-4-turbo-2024-04-09", "gpt-4-32k", "gpt-3.5-turbo",
             "gpt-4o", "gpt-4.1", "gpt-4-1106-preview"}
  BY DEF HasVersion, VersionsOf, Versions
<1>2. DOMAIN Versions = {"openai", "anthropic", "google"}
  BY DEF Versions
<1>3. \A r \in Versions.anthropic : r[1] # m
  BY <1>1 DEF Versions
<1>4. \A r \in Versions.google : r[1] # m
  BY <1>1 DEF Versions
<1>5. ~ HasVersion("anthropic", m) /\ ~ HasVersion("google", m)
  BY <1>3, <1>4 DEF HasVersion, VersionsOf
<1>6. \A p : HasVersion(p, m) => p \in DOMAIN Versions \cup {"deepseek", "custom"}
  BY DEF HasVersion, VersionsOf
<1> QED BY <1>2, <1>5, <1>6

LEMMA CreatedFits ==
  ASSUME NEW t, IF t.legacy THEN CreatesLegacy(t) ELSE Creates(t),
         t.legacy \/ t.provider = "openai"
  PROVE  \E m \in Registry : Accepts(t.provider, m) /\ Fits(t, t.provider, m)
<1>1. HasVersion("openai", t.minimum)
  BY DEF CreatesLegacy, Creates
<1>2. t.provider = "openai" \/ HasVersion(t.provider, t.minimum)
  BY DEF CreatesLegacy, Fits, HasVersion
<1>3. CASE t.provider = "openai"
  <2>1. <<4, 2, 0>> \in VersionsOf("openai", "gpt-4o") /\ IsAllowed("gpt-4o") /\ "gpt-4o" \in Registry
    <3>1. "openai" \in DOMAIN Versions /\ <<"gpt-4o", <<4, 2, 0>>>> \in Versions["openai"]
      BY DEF Versions
    <3>2. <<"gpt-4o", <<4, 2, 0>>>>[1] = "gpt-4o" /\ <<"gpt-4o", <<4, 2, 0>>>>[2] = <<4, 2, 0>>
      OBVIOUS
    <3> QED BY <3>1, <3>2 DEF VersionsOf, IsAllowed, Registry, Banned
  <2>2. PICK w \in VersionsOf("openai", t.minimum) : TRUE
    BY <1>1 DEF HasVersion
  <2>3. AtLeast(<<4, 2, 0>>, w)
    BY LatestOfOpenAI
  <2> QED BY <1>3, <2>1, <2>2, <2>3 DEF Accepts, Fits, HasVersion
<1>4. CASE t.provider \in {"deepseek", "custom"}
  <2>1. \A m : VersionsOf(t.provider, m) = {<<1, 0, 0>>}
    BY <1>4 DEF VersionsOf
  <2>2. IsAllowed("gpt-4o") /\ "gpt-4o" \in Registry
    BY DEF IsAllowed, Registry, Banned
  <2> QED BY <2>1, <2>2 DEF Accepts, Fits, HasVersion, AtLeast
<1> QED BY <1>1, <1>2, <1>3, <1>4, OthersHaveNone

(* A template that was created is of use, whatever it asks for: with a     *)
(* model that is allowed and late enough, if its class checked anything.   *)
THEOREM TemplatesAreUsable == Spec => []TemplatesUsable
<1>1. Init => TemplatesUsable
  BY DEF Init, Idle, TemplatesUsable
<1>2. TemplatesUsable /\ [Next]_vars => TemplatesUsable'
  <2> SUFFICES ASSUME TemplatesUsable, [Next]_vars PROVE TemplatesUsable'
    OBVIOUS
  <2>1. ASSUME doing'.op # "template" PROVE TemplatesUsable'
    BY <2>1 DEF TemplatesUsable
  <2>2. ASSUME NEW t \in Templates, CreateTemplate(t) PROVE TemplatesUsable'
    <3>1. /\ doing'.template = t
          /\ doing'.made = IF t.legacy THEN CreatesLegacy(t) ELSE Creates(t)
      BY <2>2 DEF CreateTemplate
    <3> QED BY <3>1, CreatedFits DEF TemplatesUsable
  <2>3. ASSUME NEW c \in Output, UpdateNodeContext(c) PROVE TemplatesUsable'
    BY <2>1, <2>3 DEF UpdateNodeContext, Idle
  <2>4. ASSUME NEW rule \in Rules, FormatContext(rule) PROVE TemplatesUsable'
    BY <2>1, <2>4 DEF FormatContext
  <2>5. ASSUME NEW strategy, NEW limit, Compress(strategy, limit) PROVE TemplatesUsable'
    BY <2>1, <2>5 DEF Compress
  <2>6. ASSUME NEW words, NEW size, NEW overlap, ChunkText(words, size, overlap) PROVE TemplatesUsable'
    BY <2>1, <2>6 DEF ChunkText
  <2>7. ASSUME NextChunk PROVE TemplatesUsable'
    BY <2>1, <2>7 DEF NextChunk
  <2>8. CASE UNCHANGED vars
    BY <2>8 DEF vars, TemplatesUsable
  <2>9. CASE Return
    BY <2>1, <2>9 DEF Return, Idle
  <2> QED BY <2>2, <2>3, <2>4, <2>5, <2>6, <2>7, <2>8, <2>9 DEF Next
<1> QED BY <1>1, <1>2, PTL DEF Spec
=============================================================================
