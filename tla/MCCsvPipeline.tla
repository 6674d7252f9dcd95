---------------------------- MODULE MCCsvPipeline ----------------------------
(* Two runs on one table with the columns id and qty, both required.  The  *)
(* lines fit, lack a column or all of them, have one too many or have no   *)
(* valid action.                                                           *)
EXTENDS CsvPipeline

Line(row, action) == [kind |-> "line", row |-> row, action |-> action]
Item(id, qty) == [id |-> id, qty |-> qty]
Brief == [kind |-> "brief"]

MCTexts == {
  Line(Item(1, 2), "append"), Line([id |-> 2], "update"),
  Line([id |-> 2, qty |-> 1, note |-> 1], "update"),
  Line(Item(1, 1), "delete"), Line(Item(2, 2), "replace"), Line(<<>>, "append"), Brief}

MCTables == {
  [head |-> {"id", "qty"}, rows |-> <<>>],
  [head |-> {"id", "qty"}, rows |-> <<Item(2, 1), Item(1, 1)>>]}

(* To keep the instance small, one key is there at most, and lines in      *)
(* blueprints are valid; line_gen may come up with any.                    *)
MCInit ==
  /\ PipelineInit
  /\ keys \in {{}, {"openai"}, {"anthropic"}}
  /\ \A r \in Runs : LET l == memory[r].line IN
       l = NoLine \/ (l.action \in {"append", "delete"} /\ Required \subseteq DOMAIN l.row)

MCSpec ==
  MCInit /\ [][PipelineNext]_pipelineVars /\ \A r \in Runs : WF_pipelineVars(RunStep(r))
===============================================================================
