-------------------------------- MODULE MCSql --------------------------------
(***************************************************************************)
(* A database of two tables, with rows of two keys, one of them invalid,   *)
(* and the reader of a table, with all results of up to three rows of two  *)
(* columns, and the validation of databases of two tables: one of two rows *)
(* with any cells or with any columns, and one with a single row or none   *)
(* at all.  One of them in every behaviour.                                *)
(***************************************************************************)
EXTENDS SqlDatabase, SqlReader, SqlValidation

CONSTANTS
  t1, t2,
  Parts  \* what is used: a subset of {"database", "reader", "validation"}

VARIABLE part  \* which of them is used

-------------------------------------------------------------------------------
(* Databases.                                                              *)

MCTableNames == <<t1, t2>>

Row(k, v) == [key |-> k, value |-> v, valid |-> TRUE]
InvalidRow(k) == [key |-> k, value |-> 1, valid |-> FALSE]

\* No row, one, two, the same one twice, and an invalid one after a valid one.
MCRowLists == {<<>>, <<Row(1, 1)>>, <<Row(1, 1), Row(2, 2)>>, <<Row(2, 1), Row(2, 2)>>,
               <<Row(1, 2), InvalidRow(2)>>}

-------------------------------------------------------------------------------
(* Readers.                                                                *)

MCResults == SeqOf([Fields -> Stored], 2) \cup [1..3 -> [Fields -> {"null", "bad", "a"}]]

-------------------------------------------------------------------------------
(* Validation.                                                             *)

MCColumns == <<"field", "blob", "templated", "field">>

TableOf(columns, extra, cells) ==
  [exists |-> TRUE, columns |-> columns, superfluous |-> extra, rows |-> cells]

FieldCells == {"null", "good", "type", "value"}
BlobCells == FieldCells \cup {"length", "bits"}

OkColumns == [c \in 1..4 |-> "ok"]
CellRow(a, b) == <<a, b, "good", "value">>
FirstRows == {<<a, b, "value", c>> : a \in FieldCells, b \in BlobCells, c \in {"good", "type"}}
SecondRows == {CellRow("good", "good"), CellRow("type", "good"), CellRow("value", "type"), CellRow("null", "length")}

AnyRows == {TableOf(OkColumns, 0, <<r, s>>) : r \in FirstRows, s \in SecondRows}
AnyColumns == {TableOf(<<a, b, "ok", c>>, n, <<CellRow("value", "good")>>) :
                 a, b \in {"ok", "missing", "type", "constraint"}, c \in {"ok", "missing"}, n \in 0..1}
AbsentTable == [TableOf(OkColumns, 0, <<>>) EXCEPT !.exists = FALSE]
Small == {TableOf(OkColumns, 0, <<CellRow("value", "length")>>),
          TableOf(<<"missing", "ok", "ok", "ok">>, 0, <<>>),
          AbsentTable}

MCDatabases == {<<a, b>> : a \in AnyRows \cup AnyColumns \cup {AbsentTable}, b \in Small}

-------------------------------------------------------------------------------
(* What is not used stays as it is.                                        *)

IdleReader == rows = <<>> /\ columnsMapping = {1} /\ ReaderInit

IdleDatabase == connectionType = "EXTERNAL_CONNECTION" /\ Init

IdleValidation == tables = <<AbsentTable, AbsentTable>> /\ ValidationInit

MCInit ==
  /\ part \in Parts
  /\ IF part = "database" THEN Init ELSE IdleDatabase
  /\ IF part = "reader" THEN ReaderInit ELSE IdleReader
  /\ IF part = "validation" THEN ValidationInit ELSE IdleValidation

UseDatabase == part = "database" /\ Next /\ UNCHANGED <<part, readerVars, validationVars>>
UseReader == part = "reader" /\ ReaderNext /\ UNCHANGED <<part, vars, validationVars>>
Validate == part = "validation" /\ ValidationNext /\ UNCHANGED <<part, vars, readerVars>>

\* validate has returned or thrown.
Validated ==
  /\ part = "validation" /\ at \in {"end", "thrown"}
  /\ UNCHANGED <<part, vars, readerVars, validationVars>>

MCNext == UseDatabase \/ UseReader \/ Validate \/ Validated

\* The loops of validate go on by themselves; nobody has to call a database.
MCSpec ==
  /\ MCInit
  /\ [][MCNext]_<<part, vars, readerVars, validationVars>>
  /\ WF_validationVars(Validate)

-------------------------------------------------------------------------------

\* All are of their types.
TypesOK == TypeOK /\ ReaderTypeOK /\ ValidationTypeOK
===============================================================================
