------------------------------- MODULE SqlReader -------------------------------
(***************************************************************************)
(* The Reader of an sql_table (SqlTable.cpp.ftl): it is always one         *)
(* sqlite3_step ahead of its caller, so that hasNext can tell whether there *)
(* is a row, and next fills the Row object of the caller from the current  *)
(* row before it steps on.  Values that cannot be read and steps that fail *)
(* throw in the middle of that.                                            *)
(***************************************************************************)
EXTENDS Naturals, SequencesExt

CONSTANTS
  NumFields,  \* the number of fields of the table
  Results,   \* the results a query may have
  NoValue,    \* a field without a value
  Partial     \* a field that was being read when its value was found to be bad

\* The fields in the order of their columns.
Fields == 1..NumFields

(* What is stored: NULL, "bad" for what does not deserialize and for no item of an
   enumeration, or a value. *)
Stored == {"null", "bad", "a", "b"}

ASSUME FieldsAssumption == NumFields \in Nat \ {0}
ASSUME ResultsAssumption == Results \subseteq Seq([Fields -> Stored])

VARIABLES
  rows,            \* the result of the query
  columnsMapping,  \* the fields that are asked for
  cursor,          \* the row the statement is at
  lastResult,      \* of sqlite3_step
  row,             \* the Row of the caller
  got              \* history: the Rows next was given, and those it has returned

readerVars == <<rows, columnsMapping, cursor, lastResult, row, got>>

NewRow == [f \in Fields |-> NoValue]

-------------------------------------------------------------------------------

StepTo(i) ==
  /\ cursor' = i
  /\ lastResult' = IF i =< Len(rows) THEN "row" ELSE "done"

\* sqlite3_step fails, as when the database is locked or was changed.
StepFails == lastResult' = "error" /\ UNCHANGED cursor

HasNext == lastResult = "row"

\* Mutant of Current: the row is taken from where the statement goes.
CurrentStepped == rows[IF cursor < Len(rows) THEN cursor + 1 ELSE cursor]

\* The row the statement is at.
Current == rows[cursor]

\* What next leaves in a field of the Row it was given: its old value, if the column is NULL
\* or was not asked for.
Filled(given, f) ==
  IF f \in columnsMapping /\ Current[f] # "null" THEN Current[f] ELSE given[f]

BadFields == {f \in columnsMapping : Current[f] = "bad"}

\* The exception leaves next before the step.
ThrowStays == UNCHANGED <<cursor, lastResult>>

\* All fields are filled and the statement steps on.
NextRow(given) ==
  /\ HasNext /\ BadFields = {}
  /\ row' = [f \in Fields |-> Filled(given, f)]
  /\ \/ StepTo(cursor + 1) /\ got' = Append(got, [given |-> given, row |-> row'])
     \/ StepFails /\ UNCHANGED got
  /\ UNCHANGED <<rows, columnsMapping>>

\* The fields before the first bad one are filled; what is to be deserialized is emplaced.
NextRowThrows(given) ==
  /\ HasNext
  /\ \E bad \in BadFields :
       /\ \A f \in BadFields : bad =< f
       /\ \E left \in {given[bad], Partial} :
            row' = [f \in Fields |-> IF f < bad THEN Filled(given, f)
                                     ELSE IF f = bad THEN left ELSE given[f]]
  /\ ThrowStays
  /\ UNCHANGED <<rows, columnsMapping, got>>

\* The caller makes a new reader for the same query and goes on with the same Row.
CreateReader ==
  /\ ~HasNext
  /\ StepTo(1)
  /\ got' = <<>>
  /\ UNCHANGED <<rows, columnsMapping, row>>

ReaderInit ==
  /\ rows \in Results
  /\ columnsMapping \in SUBSET Fields \ {{}}
  /\ cursor = 1
  /\ lastResult = IF rows = <<>> THEN "done" ELSE "row"
  /\ row = NewRow
  /\ got = <<>>

\* The caller has a new Row or uses the last one again.
ReaderNext ==
  \/ \E given \in {NewRow, row} : NextRow(given) \/ NextRowThrows(given)
  \/ CreateReader

ReaderSpec == ReaderInit /\ [][ReaderNext]_readerVars

-------------------------------------------------------------------------------
(* Properties.                                                             *)

ReaderTypeOK ==
  /\ rows \in Seq([Fields -> Stored])
  /\ columnsMapping \in SUBSET Fields
  /\ lastResult \in {"row", "done", "error"}
  /\ cursor \in 1..(Len(rows) + 1)
  /\ lastResult = "row" => cursor =< Len(rows)
  /\ row \in [Fields -> {"a", "b", NoValue, Partial}]

\* next returns the rows of the query as they are stored, one after the other, whatever was
\* thrown and caught in between: none twice and none left out. A field that was asked for
\* and is not NULL has its value; any other has what it had in the Row that next was given.
\* hasNext says that there are no more rows only if all were returned or a step has failed;
\* then the row that next had filled is lost.
RowsAsStored ==
  /\ \A i \in 1..Len(got) : \A f \in Fields :
       got[i].row[f] = IF f \in columnsMapping /\ rows[i][f] # "null"
                       THEN rows[i][f] ELSE got[i].given[f]
  /\ lastResult = "done" => Len(got) = Len(rows)
  /\ lastResult = "row" => Len(got) = cursor - 1
===============================================================================
