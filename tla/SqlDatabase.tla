------------------------------ MODULE SqlDatabase ------------------------------
(***************************************************************************)
(* The classes the generator emits for an sql_database and its sql_tables  *)
(* (SqlDatabase.cpp.ftl, SqlTable.cpp.ftl) on top of SqliteConnection.h.   *)
(*                                                                         *)
(* Calls that change more than one row or table are put in a transaction,  *)
(* unless the caller has started one: startTransaction tells whether it    *)
(* did, and endTransaction commits only then.  Nothing rolls back: an      *)
(* exception leaves the transaction to the caller, who has to roll it back *)
(* through connection().  SQLite itself is modelled by what it answers.    *)
(***************************************************************************)
EXTENDS Naturals, Sequences, Functions

CONSTANTS
  TableNames,  \* the tables in the order of the schema
  Keys, Values, Absent, NoBatch,
  RowLists,    \* the sequences of rows that are given to write
  Recovers     \* whether the caller rolls back after an exception

Tables == Range(TableNames)
Rows == [key : Keys, value : Values, valid : BOOLEAN]

ASSUME TableNamesAssumption == TableNames \in Seq(Tables) /\ IsInjective(TableNames)
ASSUME RowListsAssumption == RowLists \subseteq Seq(Rows) /\ Recovers \in BOOLEAN

VARIABLES
  disk,             \* the tables on disk
  view,             \* the tables the connection sees
  autocommit,       \* sqlite3_get_autocommit: no transaction is open
  callerStarted,    \* the caller's own startTransaction has returned true
  call,             \* the call at work: its name, table and rows, what is left to do,
                    \* and wasTransactionStarted
  outcome,          \* how the last call ended
  reading,          \* a reader is in the middle of its rows
  connectionType    \* who owns the connection

vars == <<disk, view, autocommit, callerStarted, call, outcome, reading, connectionType>>

Store == INSTANCE SqlStore WITH
  batch <- IF callerStarted /\ ~autocommit THEN view ELSE NoBatch,
  job <- [name |-> call.name, table |-> call.table, rows |-> call.rows]

\* The two constants are no contents of a table and no tables.
ASSUME ConstantsAssumption == Absent \notin Store!Filled /\ NoBatch \notin Store!Databases

Idle == [name |-> "none", table |-> Absent, rows |-> <<>>, todo |-> <<>>, started |-> FALSE]

-------------------------------------------------------------------------------
(* SQLite.                                                                 *)

\* A statement that is executed takes the tables to v, for good if no transaction is open.
Execute(v) ==
  /\ view' = v
  /\ disk' = IF autocommit THEN v ELSE disk

\* A statement that fails has no effect, but some errors take the transaction with them,
\* which a caller who recovers finds out.
Fail ==
  /\ \/ UNCHANGED <<view, autocommit, callerStarted>>
     \/ /\ view' = disk /\ autocommit' = TRUE
        /\ callerStarted' = (callerStarted /\ ~Recovers)
  /\ UNCHANGED disk

Returned == call' = Idle /\ outcome' = "returned"
Thrown == call' = Idle /\ outcome' = "thrown"

\* A call ends with an exception that changes nothing: BEGIN has failed, or the caller has
\* given what cannot be written.
Refuse == Thrown /\ UNCHANGED <<disk, view, autocommit, callerStarted>>

\* A call ends because a statement failed, for whatever reason.
FailAndThrow == Thrown /\ Fail

\* Whether the caller may make a call: one that recovers has rolled back what an exception
\* has left, unless the transaction is its own.
Ready ==
  /\ call = Idle
  /\ Recovers /\ outcome = "thrown" => autocommit \/ callerStarted

-------------------------------------------------------------------------------
(* SqliteConnection.                                                       *)

\* Mutant of StartTransaction: the transaction is taken as started, but is not.
StartTransactionUnbegun(name, t, rows, todo) ==
  /\ call' = [name |-> name, table |-> t, rows |-> rows, todo |-> todo,
              started |-> autocommit]
  /\ UNCHANGED autocommit

\* Mutant of StartTransaction: the transaction is started, but not to be ended.
StartTransactionUntold(name, t, rows, todo) ==
  /\ call' = [name |-> name, table |-> t, rows |-> rows, todo |-> todo,
              started |-> FALSE]
  /\ autocommit' = FALSE

StartTransaction(name, t, rows, todo) ==
  /\ call' = [name |-> name, table |-> t, rows |-> rows, todo |-> todo,
              started |-> autocommit]
  /\ autocommit' = FALSE

Commit == disk' = view /\ autocommit' = TRUE /\ UNCHANGED view

\* Mutant of EndTransaction: whoever has started it.
EndTransactionAlways == Commit /\ Returned /\ UNCHANGED callerStarted

EndTransaction ==
  \/ call.started /\ Commit /\ Returned /\ UNCHANGED callerStarted
  \/ call.started /\ FailAndThrow
  \/ ~call.started /\ Returned /\ UNCHANGED <<disk, view, autocommit, callerStarted>>

-------------------------------------------------------------------------------
(* The calls of the database and its tables.                               *)

Others == UNCHANGED <<reading, connectionType>>

BeginCall(name, t, rows, todo) ==
  /\ Ready
  /\ \/ /\ StartTransaction(name, t, rows, todo)
        /\ UNCHANGED <<disk, view, callerStarted, outcome>>
     \/ autocommit /\ Refuse
  /\ Others

CreateSchema == BeginCall("createSchema", Absent, <<>>, TableNames)
DeleteSchema == BeginCall("deleteSchema", Absent, <<>>, TableNames)
Write(t, rows) == BeginCall("write", t, rows, rows)

Advance == call' = [call EXCEPT !.todo = Tail(@)] /\ UNCHANGED <<autocommit, callerStarted, outcome>>

Exists(t) == Store!Exists(view, t)

\* A table is created if it is not there.
CreateNext ==
  /\ call.name = "createSchema" /\ call.todo # <<>>
  /\ \/ ~Exists(Head(call.todo))
        /\ Execute(Store!WithTable(view, Head(call.todo), Store!Empty))
        /\ Advance
     \/ FailAndThrow
  /\ Others

\* A table is dropped if it is there and nobody reads.
DeleteNext ==
  /\ call.name = "deleteSchema" /\ call.todo # <<>>
  /\ \/ Exists(Head(call.todo)) /\ ~reading
        /\ Execute(Store!WithTable(view, Head(call.todo), Absent))
        /\ Advance
     \/ FailAndThrow
  /\ Others

\* A row is validated and written to its blobs by writeRow and inserted by sqlite3_step.
WriteNext ==
  /\ call.name = "write" /\ call.todo # <<>>
  /\ LET row == Head(call.todo)
         t == call.table
     IN  \/ /\ Exists(t) /\ row.valid /\ row.key \notin DOMAIN view[t]
            /\ Execute(Store!WithRow(view, t, row.key, row.value))
            /\ Advance
         \/ ~row.valid /\ Refuse
         \/ FailAndThrow
  /\ Others

\* All is done; write has prepared its statement, even for no rows.
EndCall ==
  /\ call # Idle /\ call.todo = <<>>
  /\ \/ (call.name = "write" => Exists(call.table)) /\ EndTransaction
     \/ call.name = "write" /\ ~Exists(call.table) /\ Refuse
  /\ Others

\* createTable, deleteTable and update execute one statement, in no transaction of their own.
Single(v) ==
  /\ Execute(v)
  /\ Returned
  /\ UNCHANGED <<autocommit, callerStarted>>

CreateTable(t) ==
  /\ Ready
  /\ \/ ~Exists(t) /\ Single(Store!WithTable(view, t, Store!Empty))
     \/ FailAndThrow
  /\ Others

DeleteTable(t) ==
  /\ Ready
  /\ \/ Exists(t) /\ ~reading /\ Single(Store!WithTable(view, t, Absent))
     \/ FailAndThrow
  /\ Others

\* The rows the condition selects are the one with key k, or none.
Update(t, k, v) ==
  /\ Ready
  /\ \/ /\ Exists(t)
        /\ Single(IF k \in DOMAIN view[t] THEN Store!WithRow(view, t, k, v) ELSE view)
     \/ FailAndThrow
  /\ Others

\* A reader has found a row, and has come to the end of its rows or was dropped.
StartReading(t) ==
  /\ Ready /\ ~reading
  /\ Exists(t)
  /\ DOMAIN view[t] # {}
  /\ reading' = TRUE
  /\ UNCHANGED <<disk, view, autocommit, callerStarted, call, outcome, connectionType>>

EndReading ==
  /\ call = Idle /\ reading
  /\ reading' = FALSE
  /\ UNCHANGED <<disk, view, autocommit, callerStarted, call, outcome, connectionType>>

-------------------------------------------------------------------------------
(* The caller.                                                             *)

\* wasTransactionStarted = connection.startTransaction()
CallerStarts ==
  /\ Ready /\ ~callerStarted
  /\ \/ /\ callerStarted' = autocommit
        /\ autocommit' = FALSE
        /\ Returned
        /\ UNCHANGED <<disk, view>>
     \/ autocommit /\ Refuse
  /\ Others

\* connection.endTransaction(wasTransactionStarted)
CallerEnds ==
  /\ Ready /\ callerStarted
  /\ \/ ~autocommit /\ Commit /\ Returned /\ callerStarted' = FALSE
     \/ FailAndThrow
  /\ Others

\* ROLLBACK on connection(); a reader that was not done gets an error.
RollBack ==
  /\ call = Idle /\ outcome = "thrown" /\ ~autocommit
  /\ Recovers \/ callerStarted
  /\ view' = disk
  /\ autocommit' = TRUE
  /\ callerStarted' = FALSE
  /\ reading' = FALSE
  /\ outcome' = "returned"
  /\ UNCHANGED <<disk, call, connectionType>>

\* The database is destroyed, and another one is opened: an internal connection is closed,
\* an external one is used on as it is.
Reopen ==
  /\ call = Idle /\ ~reading
  /\ \/ /\ connectionType = "INTERNAL_CONNECTION"
        /\ view' = disk /\ autocommit' = TRUE /\ callerStarted' = FALSE
        /\ outcome' = "returned"
     \/ /\ connectionType = "EXTERNAL_CONNECTION"
        /\ UNCHANGED <<view, autocommit, callerStarted, outcome>>
  /\ UNCHANGED <<disk, call, reading, connectionType>>

\* The process dies in the middle of anything.
Crash ==
  /\ view' = disk /\ autocommit' = TRUE
  /\ callerStarted' = FALSE
  /\ call' = Idle
  /\ outcome' = "returned"
  /\ reading' = FALSE
  /\ UNCHANGED <<disk, connectionType>>

Init ==
  /\ disk = Store!AllDeleted
  /\ view = disk
  /\ autocommit = TRUE
  /\ callerStarted = FALSE
  /\ call = Idle
  /\ outcome = "returned"
  /\ reading = FALSE
  /\ connectionType \in {"INTERNAL_CONNECTION", "EXTERNAL_CONNECTION"}

CallOfTable(t) ==
  \/ \E rows \in RowLists : Write(t, rows)
  \/ CreateTable(t)
  \/ DeleteTable(t)
  \/ \E k \in Keys, v \in Values : Update(t, k, v)
  \/ StartReading(t)

StepOfCall == CreateNext \/ DeleteNext \/ WriteNext \/ EndCall

Next ==
  \/ CreateSchema
  \/ DeleteSchema
  \/ \E t \in Tables : CallOfTable(t)
  \/ StepOfCall
  \/ EndReading
  \/ CallerStarts
  \/ CallerEnds
  \/ RollBack
  \/ Reopen
  \/ Crash

Spec == Init /\ [][Next]_vars

-------------------------------------------------------------------------------
(* Properties.                                                             *)

\* The types of the variables; outside of a transaction the connection sees the disk, and a
\* call that has started a transaction has one.
TypeOK ==
  /\ disk \in Store!Databases
  /\ view \in Store!Databases
  /\ autocommit \in BOOLEAN /\ callerStarted \in BOOLEAN /\ reading \in BOOLEAN
  /\ call.name \in {"none", "createSchema", "deleteSchema", "write"}
  /\ call.table \in Tables \cup {Absent}
  /\ call.rows \in Seq(Rows)
  /\ call.todo \in Seq(Tables) \cup Seq(Rows)
  /\ outcome \in {"returned", "thrown"}
  /\ autocommit => view = disk
  /\ call # Idle => ~autocommit

\* When a call has returned outside of a transaction of the caller, what it did is on disk
\* (endTransaction): a crash does not lose it, nor does closing the database.
Durable == call = Idle /\ outcome = "returned" /\ ~callerStarted => disk = view

\* A call inside of a transaction of the caller does not commit it, and ends it only with
\* an exception: only the caller's own endTransaction does.
CallerTransactionKept ==
  [][callerStarted /\ ~autocommit /\ call # Idle
     => disk' = disk /\ (autocommit' => ~callerStarted')]_vars

\* Whatever fails, the disk changes by whole operations and transactions.
ImplementsStore == Store!Spec
===============================================================================
