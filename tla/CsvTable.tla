------------------------------- MODULE CsvTable -------------------------------
(***************************************************************************)
(* What the csv_writer skill promises about a table as long as writers do  *)
(* not meet: its rows change by one whole operation at a time.  Rows are   *)
(* given by their filled cells.  The one exception the skill makes is a    *)
(* replacement the columns have no room for: it cuts the table there.      *)
(***************************************************************************)
EXTENDS Integers, Sequences

CONSTANTS
  RowContents,  \* rows, as functions from their filled columns to values
  KeyColumn     \* the column that identifies a row

VARIABLES
  rows,   \* the contents of the table
  spoilt  \* two writers have met: nothing is promised any more

KeyOf(row) == IF KeyColumn \in DOMAIN row THEN {row[KeyColumn]} ELSE {}

(* A replacement or a removal takes the first row with the key. *)
First(i, key) == KeyOf(rows[i]) = key /\ \A j \in 1 .. i - 1 : KeyOf(rows[j]) # key

TableInit == rows \in Seq(RowContents) /\ spoilt = FALSE

Put(row) == rows' = Append(rows, row)

Replace(i, row) == First(i, KeyOf(row)) /\ rows' = [rows EXCEPT ![i] = row]

Remove(i) ==
  /\ First(i, KeyOf(rows[i]))
  /\ rows' = SubSeq(rows, 1, i - 1) \o SubSeq(rows, i + 1, Len(rows))

Cut(i) == rows' = SubSeq(rows, 1, i - 1)

TableNext ==
  \/ /\ ~spoilt /\ UNCHANGED spoilt
     /\ \/ \E row \in RowContents : Put(row)
        \/ \E i \in DOMAIN rows : Remove(i) \/ Cut(i) \/ \E row \in RowContents : Replace(i, row)
  \/ ~spoilt /\ spoilt'
  \/ spoilt /\ spoilt'

TableSpec == TableInit /\ [][TableNext]_<<rows, spoilt>>

===============================================================================
