----------------------------- MODULE SqlValidation -----------------------------
(***************************************************************************)
(* validate of the classes the generator emits for an sql_database and its *)
(* sql_tables (SqlDatabase.cpp.ftl, SqlTable.cpp.ftl and, for templates,   *)
(* SqlTableTemplate.h.ftl): the columns of each table and then the cells   *)
(* of each row are compared with the schema, and                           *)
(* an observer is told of each fault (IValidationObserver.h), whose answer *)
(* says whether to go on.  The answers go into two variables, one of the   *)
(* database and one of the table, and the order of all that matters.       *)
(***************************************************************************)
EXTENDS Naturals, SequencesExt

CONSTANTS
  Columns,        \* the kinds of the fields of a table: "field", "blob" or "templated"
  FoundDatabases  \* what may be found, a sequence of tables

(***************************************************************************)
(* A table that is found:                                                  *)
(*   exists       whether there is one                                     *)
(*   columns      what each column has: "ok", "missing", or the "type" or  *)
(*                the "constraint" of another one                          *)
(*   superfluous  the number of columns the schema does not have           *)
(*   rows         sequences of cells: "null", "good", of the "type" of     *)
(*                another column, with a "value" that is out of range or   *)
(*                cannot be parsed, blobs of another "length" when written *)
(*                again, or with other "bits"                              *)
(***************************************************************************)
ColumnStates == {"ok", "missing", "type", "constraint"}
Cells == {"null", "good", "type", "value", "length", "bits"}
Width == Len(Columns)

FoundTables ==
  [exists : BOOLEAN, columns : [1..Width -> ColumnStates], superfluous : Nat,
   rows : Seq([1..Width -> Cells])]

\* The schema has a table at least, and each table a column.
ASSUME ColumnsAssumption == Columns \in Seq({"field", "blob", "templated"}) \ {<<>>}
ASSUME FoundDatabasesAssumption == FoundDatabases \subseteq Seq(FoundTables) \ {<<>>}

VARIABLES
  tables,    \* the database
  at,        \* where validate is
  table, rowIndex, column,      \* the indices of what it looks at
  superfluous,                  \* the columns left in tableSchema that have no field
  kept,                         \* the fields whose columns were left in tableSchema
  result,                       \* of validateSchema
  continueSchema,               \* continueValidation of validateSchema
  continueTableValidation,
  continueValidation,
  numberOfValidatedRows,
  numberOfValidatedTables,
  events                        \* history: what the observer was told, and its answers

validationVars == <<tables, at, table, rowIndex, column, superfluous, kept, result,
                    continueSchema, continueTableValidation, continueValidation,
                    numberOfValidatedRows, numberOfValidatedTables, events>>

Found == tables[table]
Cell(c) == Found.rows[rowIndex][c]

\* The observer is told of something and answers.
Tell(what, r, c, answer) ==
  events' = Append(events, [what |-> what, table |-> table, row |-> r, column |-> c,
                            answer |-> answer])

-------------------------------------------------------------------------------
(* The database: beginDatabase, a table after the other, endDatabase.      *)

\* The next table begins, unless there is none or validation is not to continue.
NextTable ==
  /\ at' = IF table < Len(tables) THEN "table" ELSE "end"
  /\ table' = table + 1

\* numberOfRows cannot be told of a table that is not there.
BeginTableThrows ==
  /\ at = "table" /\ continueValidation /\ ~Found.exists
  /\ at' = "thrown"
  /\ UNCHANGED <<tables, table, rowIndex, column, superfluous, kept, result, continueSchema,
                 continueTableValidation, continueValidation, numberOfValidatedRows,
                 numberOfValidatedTables, events>>

BeginTable(answer) ==
  /\ at = "table" /\ continueValidation /\ Found.exists
  /\ Tell("beginTable", 0, 0, answer)
  /\ IF answer THEN at' = "schema" /\ UNCHANGED table ELSE NextTable
  /\ continueValidation' = TRUE
  /\ rowIndex' = 0 /\ column' = 1
  /\ superfluous' = Found.superfluous
  /\ kept' = {}
  /\ result' = TRUE
  /\ continueSchema' = TRUE
  /\ continueTableValidation' = TRUE
  /\ numberOfValidatedRows' = 0
  /\ UNCHANGED <<tables, numberOfValidatedTables>>

\* continueValidation && table.validate(...)
SkipTable ==
  /\ at = "table" /\ ~continueValidation
  /\ NextTable
  /\ UNCHANGED <<tables, rowIndex, column, superfluous, kept, result, continueSchema,
                 continueTableValidation, continueValidation, numberOfValidatedRows,
                 numberOfValidatedTables, events>>

EndTable(answer) ==
  /\ at = "endTable"
  /\ Tell("endTable", numberOfValidatedRows, 0, answer)
  /\ continueValidation' = answer
  /\ numberOfValidatedTables' = numberOfValidatedTables + 1
  /\ NextTable
  /\ UNCHANGED <<tables, rowIndex, column, superfluous, kept, result, continueSchema,
                 continueTableValidation, numberOfValidatedRows>>

-------------------------------------------------------------------------------
(* validateSchema                                                          *)

\* Whether validateColumn finds a fault.
Wrong(c) == Found.columns[c] # "ok"

\* Whether the column of a field is taken out of tableSchema when it is looked at.
Erased(c) == Found.columns[c] # "missing"

ValidateColumn(answer) ==
  /\ at = "schema" /\ column =< Width
  /\ column' = column + 1
  /\ IF column > 1 /\ ~continueSchema
     THEN /\ kept' = IF Erased(column) THEN kept \cup {column} ELSE kept
          /\ UNCHANGED <<result, continueSchema, events>>
     ELSE /\ UNCHANGED kept
          /\ IF Wrong(column)
             THEN /\ Tell(Found.columns[column], 0, column, answer)
                  /\ continueSchema' = answer
                  /\ result' = FALSE
             ELSE UNCHANGED <<result, continueSchema, events>>
  /\ UNCHANGED <<tables, at, table, rowIndex, superfluous, continueTableValidation,
                 continueValidation, numberOfValidatedRows, numberOfValidatedTables>>

\* A column that is still in tableSchema.
ReportSuperfluous(answer) ==
  /\ at = "schema" /\ column > Width
  /\ continueSchema /\ superfluous > 0
  /\ Tell("superfluous", 0, 0, answer)
  /\ superfluous' = superfluous - 1
  /\ continueSchema' = answer
  /\ result' = FALSE
  /\ UNCHANGED <<tables, at, table, rowIndex, column, kept, continueTableValidation,
                 continueValidation, numberOfValidatedRows, numberOfValidatedTables>>

\* Mutant of SchemaResult: only the columns left in tableSchema count.
SchemaResultLeft == superfluous = 0 /\ kept = {}

SchemaResult == result /\ superfluous = 0 /\ kept = {}

\* Mutant of AfterSchema: validate returns when the schema has a fault.
AfterSchemaReturns == IF SchemaResult THEN "step" ELSE "end"

\* The rows are skipped if the schema has a fault.
AfterSchema == IF SchemaResult THEN "step" ELSE "endTable"

EndSchema ==
  /\ at = "schema" /\ column > Width
  /\ ~continueSchema \/ superfluous = 0
  /\ result' = SchemaResult
  /\ at' = AfterSchema
  /\ UNCHANGED <<tables, table, rowIndex, column, superfluous, kept, continueSchema,
                 continueTableValidation, continueValidation, numberOfValidatedRows,
                 numberOfValidatedTables, events>>

-------------------------------------------------------------------------------
(* The rows.                                                               *)

\* while (sqlite3_step(...) == SQLITE_ROW && continueTableValidation)
Step ==
  /\ at = "step"
  /\ IF rowIndex < Len(Found.rows) /\ continueTableValidation
     THEN /\ at' = "types" /\ rowIndex' = rowIndex + 1 /\ column' = 1
          /\ numberOfValidatedRows' = numberOfValidatedRows + 1
     ELSE at' = "endTable" /\ UNCHANGED <<rowIndex, column, numberOfValidatedRows>>
  /\ UNCHANGED <<tables, table, superfluous, kept, result, continueSchema,
                 continueTableValidation, continueValidation, numberOfValidatedTables, events>>

\* Mutant of NextCell: one column too many is looked at.
NextCellPast(phase, next) ==
  IF column =< Width THEN at' = phase /\ column' = column + 1 ELSE at' = next /\ column' = 1

\* The next cell, or the next row.
NextCell(phase, next) ==
  IF column < Width THEN at' = phase /\ column' = column + 1 ELSE at' = next /\ column' = 1

\* validateType: the answer goes into continueValidation, not into continueTableValidation.
ValidateType(answer) ==
  /\ at = "types"
  /\ IF Cell(column) = "type"
     THEN /\ Tell("cellType", rowIndex, column, answer)
          /\ continueValidation' = answer
          /\ at' = "step" /\ UNCHANGED column
     ELSE NextCell("types", "values") /\ UNCHANGED <<continueValidation, events>>
  /\ UNCHANGED <<tables, table, rowIndex, superfluous, kept, result, continueSchema,
                 continueTableValidation, numberOfValidatedRows, numberOfValidatedTables>>

\* Mutant of Faulty: the length of a blob is not compared.
FaultyUnparsed(c) == Cell(c) = "value"

\* What validateBlob and validateField find; the bits of a blob are not compared.
Faulty(c) == Columns[c] # "templated" /\ Cell(c) \in {"value", "length"}

\* Mutant of GoesOn: the observer's answer is not asked for.
GoesOnAlways(answer) == TRUE

\* What an answer to a fault of a cell does to the table.
GoesOn(answer) == answer

\* validateBlob, validateField, validateTemplatedField: a row is left at the first fault,
\* and at a templated field that has none, as the answer of its check is not negated.
ValidateCell(answer) ==
  /\ at = "values"
  /\ IF Faulty(column)
     THEN /\ Tell("cellValue", rowIndex, column, answer)
          /\ continueTableValidation' = GoesOn(answer)
          /\ at' = "step" /\ UNCHANGED column
     ELSE /\ IF Columns[column] = "templated" THEN at' = "step" /\ UNCHANGED column
             ELSE NextCell("values", "step")
          /\ UNCHANGED <<continueTableValidation, events>>
  /\ UNCHANGED <<tables, table, rowIndex, superfluous, kept, result, continueSchema,
                 continueValidation, numberOfValidatedRows, numberOfValidatedTables>>

-------------------------------------------------------------------------------

ValidationInit ==
  /\ tables \in FoundDatabases
  /\ at = "table"
  /\ table = 1 /\ rowIndex = 0 /\ column = 1
  /\ superfluous = 0 /\ kept = {}
  /\ result = TRUE
  /\ continueSchema = TRUE /\ continueTableValidation = TRUE /\ continueValidation = TRUE
  /\ numberOfValidatedRows = 0 /\ numberOfValidatedTables = 0
  /\ events = <<>>

ValidationNext ==
  \/ BeginTableThrows
  \/ SkipTable
  \/ EndSchema
  \/ Step
  \/ \E answer \in BOOLEAN :
       \/ BeginTable(answer)
       \/ ValidateColumn(answer)
       \/ ReportSuperfluous(answer)
       \/ ValidateType(answer)
       \/ ValidateCell(answer)
       \/ EndTable(answer)

ValidationSpec == ValidationInit /\ [][ValidationNext]_validationVars /\ WF_validationVars(ValidationNext)

-------------------------------------------------------------------------------
(* Properties.                                                             *)

Faults == {"missing", "type", "constraint", "superfluous", "cellType", "cellValue"}
Reports(t) == {e \in Range(events) : e.table = t /\ e.what \in Faults}
Ended(t) == \E e \in Range(events) : e.table = t /\ e.what = "endTable"

\* The fields whose values are looked at: those in front of the first templated one, which
\* always ends the row.
Examined == {c \in 1..Width : \A d \in 1..c : Columns[d] # "templated"}

\* The fault of row r of table t that is to be reported: its first cell of another type,
\* or else the first cell with a fault that is looked at. Blobs whose bits only differ are
\* none: validateBlob compares the position behind what it has written, and no bits.
FaultOf(t, r) ==
  LET cells == tables[t].rows[r]
      first(kinds, S) == {c \in S : cells[c] \in kinds
                                    /\ \A d \in 1..(c - 1) : cells[d] \notin kinds}
  IN  IF "type" \in Range(cells) THEN first({"type"}, 1..Width)
      ELSE first({"value", "length"}, Examined)

SchemaIsOk(t) == Range(tables[t].columns) = {"ok"} /\ tables[t].superfluous = 0

\* Every variable has its type, cells are looked at only where there are any, and
\* numberOfValidatedTables counts the tables that endTable was told of.
ValidationTypeOK ==
  /\ tables \in Seq(FoundTables)
  /\ at \in {"table", "schema", "step", "types", "values", "endTable", "end", "thrown"}
  /\ table \in 1..(Len(tables) + 1)
  /\ column \in 1..(Width + 1) /\ superfluous \in Nat /\ kept \subseteq 1..Width
  /\ {result, continueSchema, continueTableValidation, continueValidation} \subseteq BOOLEAN
  /\ at \in {"types", "values"} => column =< Width /\ rowIndex \in 1..Len(Found.rows)
  /\ numberOfValidatedRows =< rowIndex
  /\ numberOfValidatedTables = Cardinality({t \in 1..Len(tables) : Ended(t)})

\* An observer that wants to see everything has been told, when a table is done, of one
\* fault of each row that has one, if the schema of the table is as it should be.
EveryFaultReported ==
  \A t \in 1..Len(tables) :
    Ended(t) /\ SchemaIsOk(t) /\ (\A e \in Reports(t) : e.answer)
    => \A r \in 1..Len(tables[t].rows) :
         {e.column : e \in {f \in Reports(t) : f.row = r}} = FaultOf(t, r)

\* The rows of a table are looked at only if its schema is as it should be, and a fault of
\* the schema does not go unnoticed, even if the observer stops the validation of it.
BadSchemaReported ==
  /\ at \in {"step", "types", "values"} => SchemaIsOk(table)
  /\ \A t \in 1..Len(tables) : Ended(t) /\ ~SchemaIsOk(t) => \E e \in Reports(t) : e.row = 0

\* After an answer of FALSE to one of the faults S the observer is told of no more faults of
\* that table.
StopsTableAfter(S) ==
  \A i, j \in 1..Len(events) :
    i < j /\ events[i].what \in S /\ ~events[i].answer
    => events[j].what \notin Faults \/ events[j].table # events[i].table

\* The answers are obeyed that go into the right variable: to a fault of the schema or of a
\* value the rest of the table is skipped, and nothing follows an endTable that was answered
\* with FALSE.
AnswerObeyed ==
  /\ StopsTableAfter(Faults \ {"cellType"})
  /\ \A i \in 1..Len(events) : events[i].what = "endTable" /\ ~events[i].answer
                                => i = Len(events)

\* The documented meaning of every answer of FALSE: the rest of the table is skipped.
StopsTable == StopsTableAfter(Faults)

\* Each table that the observer lets begin is ended: whatever is found, and whatever the
\* observer answers to it, endTable is told in the end.
EveryTableEnded ==
  \A t \in 1..Max({Len(d) : d \in FoundDatabases}) :
    (\E e \in Range(events) : e.what = "beginTable" /\ e.table = t /\ e.answer) ~> Ended(t)
===============================================================================
