------------------------------- MODULE SqlProofs ------------------------------
(***************************************************************************)
(* Proofs about databases, for any tables, keys, values and rows, and about *)
(* what the generator emits for an sql_table: the Reader of its rows, for  *)
(* any number of fields and any result of a query, and the validation, for *)
(* any tables that are found and any answers of the observer.              *)
(*                                                                         *)
(* Durable is not inductive.  That what has returned is on disk needs to   *)
(* know whose transaction it is that is open (Txn), and that the disk      *)
(* changes by whole calls needs to know how far a call has got in its      *)
(* transaction (Progress).  Both hold only if the caller rolls back after  *)
(* an exception (Recovers).                                                *)
(***************************************************************************)
EXTENDS MCSql, FiniteSetTheorems, TLAPS

(***************************************************************************)
(* The database.                                                           *)
(***************************************************************************)

-------------------------------------------------------------------------------
(* Types.                                                                  *)

\* The tables a statement leaves have their type.
LEMMA TableTypes ==
  ASSUME NEW db \in Store!Databases, NEW t \in Tables
  PROVE  /\ Store!WithTable(db, t, Store!Empty) \in Store!Databases
         /\ Store!WithTable(db, t, Absent) \in Store!Databases
         /\ Store!Empty \in Store!Filled
<1>1. Store!Empty \in [{} -> Values]
  BY DEF Store!Empty
<1>2. Store!Empty \in Store!Filled
  BY <1>1 DEF Store!Filled
<1>3. {Store!Empty, Absent} \subseteq Store!Contents
  BY <1>2 DEF Store!Contents
<1> QED BY <1>2, <1>3 DEF Store!WithTable, Store!Databases

\* So do those with a row added or changed.
LEMMA RowTypes ==
  ASSUME NEW db \in Store!Databases, NEW t \in Tables, Store!Exists(db, t),
         NEW k \in Keys, NEW v \in Values
  PROVE  /\ Store!WithRow(db, t, k, v) \in Store!Databases
         /\ db[t] \in Store!Filled
<1>1. db[t] \in Store!Filled
  BY DEF Store!Databases, Store!Contents, Store!Exists
<1>2. PICK K \in SUBSET Keys : db[t] \in [K -> Values]
  BY <1>1 DEF Store!Filled
<1>3. [i \in DOMAIN db[t] \cup {k} |-> IF i = k THEN v ELSE db[t][i]] \in [K \cup {k} -> Values]
  BY <1>2
<1>4. [i \in DOMAIN db[t] \cup {k} |-> IF i = k THEN v ELSE db[t][i]] \in Store!Contents
  BY <1>3 DEF Store!Contents, Store!Filled
<1> QED BY <1>1, <1>4 DEF Store!WithRow, Store!WithTable, Store!Databases

-------------------------------------------------------------------------------
(* The type invariant.                                                     *)

Names == {"createSchema", "deleteSchema", "write"}

\* What the variables hold that do not belong to a call.
TablesOK ==
  /\ disk \in Store!Databases
  /\ view \in Store!Databases
  /\ autocommit \in BOOLEAN /\ callerStarted \in BOOLEAN /\ reading \in BOOLEAN
  /\ outcome \in {"returned", "thrown"}
  /\ autocommit => view = disk

\* A call has five fields, and rows if it writes.
CallOK ==
  /\ call = [name |-> call.name, table |-> call.table, rows |-> call.rows,
             todo |-> call.todo, started |-> call.started]
  /\ call # Idle => call.name \in Names
  /\ call.name = "write" => call.table \in Tables /\ call.rows \in Seq(Rows) /\ call.todo \in Seq(Rows)
  /\ call.name # "write" => call.table = Absent /\ call.rows = <<>> /\ call.todo \in Seq(Tables)
  /\ call # Idle => ~autocommit

TInv == TablesOK /\ CallOK

LEMMA InitTypes == Init => TInv
<1> SUFFICES ASSUME Init PROVE TInv
  OBVIOUS
<1>1. Store!AllDeleted \in Store!Databases
  BY DEF Store!AllDeleted, Store!Databases, Store!Contents
<1>2. TablesOK
  BY <1>1 DEF Init, TablesOK
<1>3. CallOK
  BY DEF Init, CallOK, Idle
<1> QED BY <1>2, <1>3 DEF TInv

\* A statement that is executed or that fails.
LEMMA StatementKeeps ==
  ASSUME TablesOK, NEW v \in Store!Databases,
         Fail \/ (Execute(v) /\ UNCHANGED <<autocommit, callerStarted>>),
         outcome' \in {"returned", "thrown"}, reading' \in BOOLEAN
  PROVE  TablesOK'
<1>1. CASE Execute(v) /\ UNCHANGED <<autocommit, callerStarted>>
  BY <1>1 DEF Execute, TablesOK
<1>2. CASE Fail
  <2>1. callerStarted' \in BOOLEAN
    BY <1>2, Zenon DEF Fail, TablesOK
  <2>2. autocommit' \in BOOLEAN
    BY <1>2, Zenon DEF Fail, TablesOK
  <2>3. /\ disk' = disk
        /\ \/ view' = view /\ autocommit' = autocommit
           \/ view' = disk
    BY <1>2, Zenon DEF Fail
  <2> QED BY <2>1, <2>2, <2>3 DEF TablesOK
<1> QED BY <1>1, <1>2

LEMMA IdleOK == ASSUME call' = Idle PROVE CallOK'
BY DEF CallOK, Idle

\* A call that begins.
LEMMA BeginCallTypes ==
  ASSUME TInv, NEW name \in Names, NEW t, NEW list, NEW todo, BeginCall(name, t, list, todo),
         name = "write" => t \in Tables /\ list \in Seq(Rows) /\ todo \in Seq(Rows),
         name # "write" => t = Absent /\ list = <<>> /\ todo \in Seq(Tables)
  PROVE  TInv'
<1>1. CASE StartTransaction(name, t, list, todo) /\ UNCHANGED <<disk, view, callerStarted, outcome>>
  <2>1. TablesOK'
    BY <1>1 DEF TInv, TablesOK, StartTransaction, BeginCall, Others
  <2>2. call' = [name |-> name, table |-> t, rows |-> list, todo |-> todo, started |-> autocommit]
    BY <1>1 DEF StartTransaction
  <2>3. /\ call'.name = name /\ call'.table = t /\ call'.rows = list /\ call'.todo = todo
        /\ call' = [name |-> call'.name, table |-> call'.table, rows |-> call'.rows,
                    todo |-> call'.todo, started |-> call'.started]
    BY <2>2
  <2>4. ~autocommit'
    BY <1>1 DEF StartTransaction
  <2> QED BY <2>1, <2>3, <2>4 DEF TInv, CallOK
<1>2. CASE autocommit /\ Refuse
  BY <1>2, IdleOK DEF TInv, TablesOK, Refuse, Thrown, BeginCall, Others
<1> QED BY <1>1, <1>2 DEF BeginCall

\* The next step of a call that is not done.
LEMMA AdvanceTypes ==
  ASSUME CallOK, call.name \in Names, call.todo # <<>>, Advance
  PROVE  /\ CallOK'
         /\ call' # Idle
         /\ call'.name = call.name /\ call'.table = call.table /\ call'.rows = call.rows
         /\ call'.todo = Tail(call.todo) /\ call'.started = call.started
<1>1. call' = [name |-> call.name, table |-> call.table, rows |-> call.rows,
              todo |-> Tail(call.todo), started |-> call.started]
  <2>1. call' = [call EXCEPT !.todo = Tail(@)]
    BY DEF Advance
  <2> DEFINE c == [name |-> call.name, table |-> call.table, rows |-> call.rows,
                   todo |-> call.todo, started |-> call.started]
  <2>2. [c EXCEPT !.todo = Tail(@)] = [name |-> call.name, table |-> call.table, rows |-> call.rows,
                                       todo |-> Tail(call.todo), started |-> call.started]
    OBVIOUS
  <2>3. call = c
    BY DEF CallOK
  <2> QED BY <2>1, <2>2, <2>3
<1>2. /\ call'.name = call.name /\ call'.table = call.table /\ call'.rows = call.rows
      /\ call'.todo = Tail(call.todo) /\ call'.started = call.started
  BY <1>1
<1>3. call # Idle /\ call' # Idle
  BY <1>2 DEF Idle, Names
<1>4. call.todo \in Seq(Rows) => Tail(call.todo) \in Seq(Rows)
  OBVIOUS
<1>5. call.todo \in Seq(Tables) => Tail(call.todo) \in Seq(Tables)
  OBVIOUS
<1>6. UNCHANGED autocommit
  BY DEF Advance
<1>7. call' = [name |-> call'.name, table |-> call'.table, rows |-> call'.rows,
              todo |-> call'.todo, started |-> call'.started]
  BY <1>1
<1>8. CallOK'
  BY <1>2, <1>3, <1>4, <1>5, <1>6, <1>7 DEF CallOK
<1> QED BY <1>2, <1>3, <1>8

\* A call ends with an exception after a statement has failed.
LEMMA FailAndThrowTypes ==
  ASSUME TInv, FailAndThrow, Others
  PROVE  TInv'
<1>1. outcome' \in {"returned", "thrown"} /\ reading' \in BOOLEAN
  BY DEF FailAndThrow, Thrown, Others, TInv, TablesOK
<1> QED BY <1>1, StatementKeeps, IdleOK DEF FailAndThrow, Thrown, TInv, TablesOK

\* A call of one statement.
LEMMA SingleTypes ==
  ASSUME TInv, NEW v \in Store!Databases, Single(v), Others
  PROVE  TInv'
<1>1. TablesOK'
  BY StatementKeeps DEF Single, Returned, Others, TInv, TablesOK
<1> QED BY <1>1, IdleOK DEF Single, Returned, TInv

\* A call that does not end yet.
LEMMA StepOfCallTypes ==
  ASSUME TInv, NEW v \in Store!Databases, Execute(v), Advance, Others,
         call.name \in Names, call.todo # <<>>
  PROVE  TInv'
<1>1. TablesOK'
  BY StatementKeeps DEF Advance, Others, TInv, TablesOK
<1>2. CallOK'
  BY AdvanceTypes DEF TInv
<1> QED BY <1>1, <1>2 DEF TInv

LEMMA RefuseTypes == ASSUME TInv, Refuse, Others PROVE TInv'
BY IdleOK DEF Refuse, Thrown, Others, TInv, TablesOK

LEMMA EndTransactionTypes == ASSUME TInv, EndTransaction, Others PROVE TInv'
<1>1. CASE Commit /\ Returned /\ UNCHANGED callerStarted
  BY <1>1, IdleOK DEF Commit, Returned, Others, TInv, TablesOK
<1>2. CASE FailAndThrow
  BY <1>2, FailAndThrowTypes
<1>3. CASE Returned /\ UNCHANGED <<disk, view, autocommit, callerStarted>>
  BY <1>3, IdleOK DEF Returned, Others, TInv, TablesOK
<1> QED BY <1>1, <1>2, <1>3, Zenon DEF EndTransaction

\* A row of a list of rows has a key and a value.
LEMMA HeadOfRows ==
  ASSUME NEW s \in Seq(Rows), s # <<>>
  PROVE  Head(s).key \in Keys /\ Head(s).value \in Values
<1>1. Head(s) \in Rows
  OBVIOUS
<1> QED BY <1>1 DEF Rows

LEMMA HeadOfTables == ASSUME NEW s \in Seq(Tables), s # <<>> PROVE Head(s) \in Tables
OBVIOUS

LEMMA NextTypes == ASSUME TInv, [Next]_vars PROVE TInv'
<1> USE DEF TInv
<1>1. CASE CreateSchema \/ DeleteSchema
  BY <1>1, BeginCallTypes, TableNamesAssumption DEF CreateSchema, DeleteSchema, Names
<1>2. CASE \E t \in Tables : CallOfTable(t)
  <2> PICK t \in Tables : CallOfTable(t)
    BY <1>2
  <2>1. ASSUME NEW list \in RowLists, Write(t, list) PROVE TInv'
    <3>1. list \in Seq(Rows)
      BY RowListsAssumption
    <3> QED BY <2>1, <3>1, BeginCallTypes DEF Write, Names
  <2>2. CASE CreateTable(t)
    BY <2>2, TableTypes, SingleTypes, FailAndThrowTypes DEF CreateTable, TablesOK
  <2>3. CASE DeleteTable(t)
    BY <2>3, TableTypes, SingleTypes, FailAndThrowTypes DEF DeleteTable, TablesOK
  <2>4. ASSUME NEW k \in Keys, NEW v \in Values, Update(t, k, v) PROVE TInv'
    <3> DEFINE new == IF k \in DOMAIN view[t] THEN Store!WithRow(view, t, k, v) ELSE view
    <3>1. CASE Exists(t) /\ Single(new)
      <4>1. new \in Store!Databases
        BY <3>1, RowTypes DEF Exists, TablesOK
      <4> QED BY <3>1, <4>1, <2>4, SingleTypes DEF Update
    <3>2. CASE FailAndThrow
      BY <2>4, <3>2, FailAndThrowTypes DEF Update
    <3> QED BY <2>4, <3>1, <3>2 DEF Update
  <2>5. CASE StartReading(t)
    BY <2>5 DEF StartReading, TablesOK, CallOK
  <2> QED BY <2>1, <2>2, <2>3, <2>4, <2>5 DEF CallOfTable
<1>3. CASE CreateNext
  <2>1. Head(call.todo) \in Tables /\ call.name \in Names
    BY <1>3, HeadOfTables DEF CreateNext, CallOK, Names
  <2>2. Store!WithTable(view, Head(call.todo), Store!Empty) \in Store!Databases
    BY <2>1, TableTypes DEF TablesOK
  <2> QED BY <1>3, <2>1, <2>2, StepOfCallTypes, FailAndThrowTypes DEF CreateNext
<1>4. CASE DeleteNext
  <2>1. Head(call.todo) \in Tables /\ call.name \in Names
    BY <1>4, HeadOfTables DEF DeleteNext, CallOK, Names
  <2>2. Store!WithTable(view, Head(call.todo), Absent) \in Store!Databases
    BY <2>1, TableTypes DEF TablesOK
  <2> QED BY <1>4, <2>1, <2>2, StepOfCallTypes, FailAndThrowTypes DEF DeleteNext
<1>5. CASE WriteNext
  <2> DEFINE first == Head(call.todo)
  <2>1. first.key \in Keys /\ first.value \in Values /\ call.name \in Names /\ call.table \in Tables
    BY <1>5, HeadOfRows DEF WriteNext, CallOK, Names
  <2>2. CASE Exists(call.table) /\ Execute(Store!WithRow(view, call.table, first.key, first.value)) /\ Advance
    <3>1. Store!WithRow(view, call.table, first.key, first.value) \in Store!Databases
      BY <2>1, <2>2, RowTypes DEF Exists, TablesOK
    <3> QED BY <1>5, <2>1, <2>2, <3>1, StepOfCallTypes DEF WriteNext
  <2>3. CASE Refuse \/ FailAndThrow
    BY <1>5, <2>3, RefuseTypes, FailAndThrowTypes DEF WriteNext
  <2> QED BY <1>5, <2>2, <2>3, Zenon DEF WriteNext
<1>6. CASE EndCall
  BY <1>6, EndTransactionTypes, RefuseTypes DEF EndCall
<1>7. CASE EndReading
  BY <1>7 DEF EndReading, TablesOK, CallOK
<1>8. CASE CallerStarts
  <2>1. CASE callerStarted' = autocommit /\ autocommit' = FALSE /\ Returned /\ UNCHANGED <<disk, view>>
    <3>1. callerStarted' \in BOOLEAN /\ autocommit' \in BOOLEAN /\ ~autocommit'
      BY <2>1, Zenon DEF TablesOK
    <3> QED BY <1>8, <2>1, <3>1, IdleOK DEF CallerStarts, Returned, Others, TablesOK
  <2>2. CASE Refuse
    BY <1>8, <2>2, RefuseTypes DEF CallerStarts
  <2> QED BY <1>8, <2>1, <2>2, Zenon DEF CallerStarts
<1>9. CASE CallerEnds
  <2>1. CASE Commit /\ Returned /\ callerStarted' = FALSE
    BY <1>9, <2>1, IdleOK DEF CallerEnds, Commit, Returned, Others, TablesOK
  <2>2. CASE FailAndThrow
    BY <1>9, <2>2, FailAndThrowTypes DEF CallerEnds
  <2> QED BY <1>9, <2>1, <2>2, Zenon DEF CallerEnds
<1>10. CASE RollBack
  BY <1>10, IdleOK DEF RollBack, TablesOK
<1>11. CASE Reopen
  <2>1. CASE connectionType = "INTERNAL_CONNECTION"
    BY <1>11, <2>1, IdleOK DEF Reopen, TablesOK
  <2>2. CASE UNCHANGED <<view, autocommit, callerStarted, outcome>>
    BY <1>11, <2>2, IdleOK DEF Reopen, TablesOK
  <2> QED BY <1>11, <2>1, <2>2 DEF Reopen
<1>12. CASE Crash
  BY <1>12, IdleOK DEF Crash, TablesOK
<1>13. CASE UNCHANGED vars
  BY <1>13 DEF vars, TablesOK, CallOK
<1> QED BY <1>1, <1>2, <1>3, <1>4, <1>5, <1>6, <1>7, <1>8, <1>9, <1>10, <1>11, <1>12, <1>13
        DEF Next, StepOfCall

\* The variables always have their types.
THEOREM SqlTypeOK == Spec => []TypeOK
<1>1. TInv => TypeOK
  <2> SUFFICES ASSUME TInv PROVE TypeOK
    OBVIOUS
  <2>1. call.name \in Names \cup {"none"}
    BY DEF TInv, CallOK, Idle
  <2>2. /\ call.table \in Tables \cup {Absent}
        /\ call.rows \in Seq(Rows)
        /\ call.todo \in Seq(Tables) \cup Seq(Rows)
    <3>1. CASE call.name = "write"
      BY <3>1 DEF TInv, CallOK
    <3>2. CASE call.name # "write"
      <4>1. call.table = Absent /\ call.rows = <<>> /\ call.todo \in Seq(Tables)
        BY <3>2 DEF TInv, CallOK
      <4>2. <<>> \in Seq(Rows)
        OBVIOUS
      <4> QED BY <4>1, <4>2, Zenon
    <3> QED BY <3>1, <3>2
  <2> QED BY <2>1, <2>2 DEF TInv, TablesOK, CallOK, TypeOK, Names
<1> QED BY <1>1, InitTypes, NextTypes, PTL DEF Spec

-------------------------------------------------------------------------------
(* Transactions.                                                           *)

\* With a caller that recovers a transaction is open if and only if somebody is to end it:
\* the caller, the call that has started it, or the caller who has to roll back.
Txn ==
  /\ callerStarted => ~autocommit
  /\ call # Idle => (call.started <=> ~callerStarted)
  /\ call = Idle /\ ~autocommit /\ ~callerStarted => outcome = "thrown"

\* Whoever is ready for a call has no transaction but its own.
LEMMA ReadyTxn == ASSUME Recovers, TInv, Txn, Ready PROVE autocommit <=> ~callerStarted
<1>1. outcome = "thrown" => autocommit \/ callerStarted
  BY Zenon DEF Ready
<1>2. ~autocommit /\ ~callerStarted => outcome = "thrown"
  BY Zenon DEF Txn, Ready
<1>3. callerStarted => ~autocommit
  BY Zenon DEF Txn
<1> QED BY <1>1, <1>2, <1>3, Zenon

LEMMA InitTxn == Init => Txn
BY Zenon DEF Init, Txn

\* A call that ends and leaves the transaction as it was.
LEMMA RestTxn ==
  ASSUME Txn, call' = Idle, UNCHANGED <<autocommit, callerStarted>>,
         outcome' = "thrown" \/ autocommit \/ callerStarted
  PROVE  Txn'
<1>1. (autocommit' <=> autocommit) /\ (callerStarted' <=> callerStarted)
  OBVIOUS
<1>2. callerStarted' => ~autocommit'
  BY <1>1, Zenon DEF Txn
<1>3. ~autocommit' /\ ~callerStarted' => outcome' = "thrown"
  BY <1>1, Zenon
<1> QED BY <1>2, <1>3, Zenon DEF Txn

\* A call that ends with no transaction.
LEMMA NoTxn ==
  ASSUME call' = Idle, autocommit' = TRUE, ~callerStarted'
  PROVE  Txn'
BY Zenon DEF Txn

LEMMA FailAndThrowTxn == ASSUME Recovers, Txn, FailAndThrow PROVE Txn'
<1>1. call' = Idle /\ outcome' = "thrown"
  BY Zenon DEF FailAndThrow, Thrown
<1>2. CASE UNCHANGED <<view, autocommit, callerStarted>>
  <2>1. UNCHANGED <<autocommit, callerStarted>>
    BY <1>2, Zenon
  <2> QED BY <1>1, <2>1, RestTxn
<1>3. CASE autocommit' = TRUE /\ callerStarted' = (callerStarted /\ ~Recovers)
  <2>1. ~callerStarted'
    BY <1>3, Zenon
  <2> QED BY <1>1, <1>3, <2>1, NoTxn
<1> QED BY <1>2, <1>3, Zenon DEF FailAndThrow, Fail

LEMMA RefuseTxn == ASSUME Txn, Refuse PROVE Txn'
BY RestTxn, Zenon DEF Refuse, Thrown

LEMMA BeginCallTxn ==
  ASSUME Recovers, TInv, Txn, NEW name \in Names, NEW t, NEW list, NEW todo,
         BeginCall(name, t, list, todo)
  PROVE  Txn'
<1>1. CASE StartTransaction(name, t, list, todo) /\ UNCHANGED <<disk, view, callerStarted, outcome>>
  <2>1. call' = [name |-> name, table |-> t, rows |-> list, todo |-> todo, started |-> autocommit]
    BY <1>1, Zenon DEF StartTransaction
  <2>2. call'.name = name /\ call'.started = autocommit
    BY <2>1
  <2>3. call' # Idle
    BY <2>2 DEF Idle, Names
  <2>4. callerStarted' = callerStarted /\ ~autocommit'
    BY <1>1, Zenon DEF StartTransaction
  <2>5. autocommit <=> ~callerStarted
    BY ReadyTxn DEF BeginCall
  <2>6. call'.started <=> ~callerStarted'
    BY <2>2, <2>4, <2>5, Zenon
  <2> QED BY <2>3, <2>4, <2>6, Zenon DEF Txn
<1>2. CASE Refuse
  BY <1>2, RefuseTxn
<1> QED BY <1>1, <1>2, Zenon DEF BeginCall

\* A call of one statement.
LEMMA SingleTxn == ASSUME Recovers, TInv, Txn, Ready, NEW v, Single(v) PROVE Txn'
<1>1. autocommit \/ callerStarted
  BY ReadyTxn, Zenon
<1> QED BY <1>1, RestTxn, Zenon DEF Single, Returned

\* A call that does not end yet.
LEMMA AdvanceTxn ==
  ASSUME TInv, Txn, call.name \in Names, call.todo # <<>>, Advance
  PROVE  Txn'
<1>1. call' # Idle /\ call'.started = call.started
  BY AdvanceTypes DEF TInv
<1>2. call # Idle
  BY DEF Idle, Names
<1>3. autocommit' = autocommit /\ callerStarted' = callerStarted
  BY Zenon DEF Advance
<1> QED BY <1>1, <1>2, <1>3, Zenon DEF Txn

LEMMA EndTransactionTxn == ASSUME Recovers, TInv, Txn, call # Idle, EndTransaction PROVE Txn'
<1>1. CASE call.started /\ Commit /\ Returned /\ UNCHANGED callerStarted
  BY <1>1, NoTxn, Zenon DEF Commit, Returned, Txn
<1>2. CASE FailAndThrow
  BY <1>2, FailAndThrowTxn
<1>3. CASE ~call.started /\ Returned /\ UNCHANGED <<disk, view, autocommit, callerStarted>>
  <2>1. callerStarted
    BY <1>3, Zenon DEF Txn
  <2> QED BY <1>3, <2>1, RestTxn, Zenon DEF Returned
<1> QED BY <1>1, <1>2, <1>3, Zenon DEF EndTransaction

LEMMA NextTxn == ASSUME Recovers, TInv, Txn, [Next]_vars PROVE Txn'
<1>1. CASE CreateSchema \/ DeleteSchema
  BY <1>1, BeginCallTxn DEF CreateSchema, DeleteSchema, Names
<1>2. CASE \E t \in Tables : CallOfTable(t)
  <2> PICK t \in Tables : CallOfTable(t)
    BY <1>2
  <2>1. ASSUME NEW list \in RowLists, Write(t, list) PROVE Txn'
    BY <2>1, BeginCallTxn DEF Write, Names
  <2>2. CASE CreateTable(t)
    BY <2>2, SingleTxn, FailAndThrowTxn, Zenon DEF CreateTable
  <2>3. CASE DeleteTable(t)
    BY <2>3, SingleTxn, FailAndThrowTxn, Zenon DEF DeleteTable
  <2>4. ASSUME NEW k \in Keys, NEW v \in Values, Update(t, k, v) PROVE Txn'
    BY <2>4, SingleTxn, FailAndThrowTxn, Zenon DEF Update
  <2>5. CASE StartReading(t)
    BY <2>5, Zenon DEF StartReading, Txn
  <2> QED BY <2>1, <2>2, <2>3, <2>4, <2>5 DEF CallOfTable
<1>3. CASE CreateNext
  BY <1>3, AdvanceTxn, FailAndThrowTxn DEF CreateNext, Names
<1>4. CASE DeleteNext
  BY <1>4, AdvanceTxn, FailAndThrowTxn DEF DeleteNext, Names
<1>5. CASE WriteNext
  <2>1. call.name \in Names /\ call.todo # <<>>
    BY <1>5 DEF WriteNext, Names
  <2> QED BY <1>5, <2>1, AdvanceTxn, RefuseTxn, FailAndThrowTxn, Zenon DEF WriteNext
<1>6. CASE EndCall
  BY <1>6, EndTransactionTxn, RefuseTxn, Zenon DEF EndCall
<1>7. CASE EndReading
  BY <1>7, Zenon DEF EndReading, Txn
<1>8. CASE CallerStarts
  <2>1. CASE callerStarted' = autocommit /\ autocommit' = FALSE /\ Returned
    <3>1. autocommit
      BY <1>8, ReadyTxn, Zenon DEF CallerStarts
    <3> QED BY <2>1, <3>1, Zenon DEF Returned, Txn
  <2>2. CASE Refuse
    BY <2>2, RefuseTxn
  <2> QED BY <1>8, <2>1, <2>2, Zenon DEF CallerStarts
<1>9. CASE CallerEnds
  <2>1. CASE Commit /\ Returned /\ callerStarted' = FALSE
    BY <2>1, NoTxn, Zenon DEF Commit, Returned
  <2>2. CASE FailAndThrow
    BY <2>2, FailAndThrowTxn
  <2> QED BY <1>9, <2>1, <2>2, Zenon DEF CallerEnds
<1>10. CASE RollBack
  BY <1>10, NoTxn, Zenon DEF RollBack
<1>11. CASE Reopen
  <2>1. CASE autocommit' = TRUE /\ callerStarted' = FALSE
    BY <1>11, <2>1, NoTxn, Zenon DEF Reopen
  <2>2. CASE UNCHANGED <<view, autocommit, callerStarted, outcome>>
    BY <1>11, <2>2, Zenon DEF Reopen, Txn
  <2> QED BY <1>11, <2>1, <2>2, Zenon DEF Reopen
<1>12. CASE Crash
  BY <1>12, NoTxn, Zenon DEF Crash
<1>13. CASE UNCHANGED vars
  BY <1>13, Zenon DEF vars, Txn
<1> QED BY <1>1, <1>2, <1>3, <1>4, <1>5, <1>6, <1>7, <1>8, <1>9, <1>10, <1>11, <1>12, <1>13
        DEF Next, StepOfCall

\* What has returned is on disk, if the caller rolls back after exceptions.
THEOREM SqlDurable == ASSUME Recovers PROVE Spec => []Durable
<1>1. TInv /\ Txn => Durable
  <2> SUFFICES ASSUME TInv, Txn, call = Idle, outcome = "returned", ~callerStarted PROVE disk = view
    BY DEF Durable
  <2>1. autocommit
    BY Zenon DEF Txn
  <2> QED BY <2>1 DEF TInv, TablesOK
<1>2. Init => TInv /\ Txn
  BY InitTypes, InitTxn
<1>3. TInv /\ Txn /\ [Next]_vars => TInv' /\ Txn'
  BY NextTypes, NextTxn
<1> QED BY <1>1, <1>2, <1>3, PTL DEF Spec

\* No statement and no end of a call changes the disk in a transaction of the caller.
LEMMA KeepsDisk ==
  ASSUME Recovers, TInv, Txn, [Next]_vars, callerStarted, ~autocommit, call # Idle
  PROVE  disk' = disk
<1>1. ~call.started
  BY Zenon DEF Txn
<1>2. CASE CreateNext
  BY <1>2, Zenon DEF CreateNext, Execute, FailAndThrow, Fail
<1>3. CASE DeleteNext
  BY <1>3, Zenon DEF DeleteNext, Execute, FailAndThrow, Fail
<1>4. CASE WriteNext
  BY <1>4, Zenon DEF WriteNext, Execute, FailAndThrow, Fail, Refuse
<1>5. CASE EndCall
  BY <1>1, <1>5, Zenon DEF EndCall, EndTransaction, FailAndThrow, Fail, Refuse
<1>6. CASE Crash
  BY <1>6, Zenon DEF Crash
<1>7. CASE UNCHANGED vars
  BY <1>7, Zenon DEF vars
<1>8. ~Ready
  BY Zenon DEF Ready
<1> QED BY <1>2, <1>3, <1>4, <1>5, <1>6, <1>7, <1>8, Zenon
        DEF Next, StepOfCall, CreateSchema, DeleteSchema, BeginCall, CallOfTable, Write, CreateTable,
            DeleteTable, Update, StartReading, EndReading, CallerStarts, CallerEnds, RollBack, Reopen

\* A transaction of the caller is the caller's to end, if it rolls back after exceptions.
THEOREM SqlCallerTransactionKept == ASSUME Recovers PROVE Spec => CallerTransactionKept
<1>1. Init => TInv /\ Txn
  BY InitTypes, InitTxn
<1>2. TInv /\ Txn /\ [Next]_vars => TInv' /\ Txn'
  BY NextTypes, NextTxn
<1>3. TInv /\ Txn /\ [Next]_vars
      => [callerStarted /\ ~autocommit /\ call # Idle
          => disk' = disk /\ (autocommit' => ~callerStarted')]_vars
  <2> SUFFICES ASSUME TInv, Txn, [Next]_vars, callerStarted /\ ~autocommit /\ call # Idle
               PROVE  disk' = disk /\ (autocommit' => ~callerStarted')
    OBVIOUS
  <2>1. disk' = disk
    BY KeepsDisk
  <2>2. autocommit' => ~callerStarted'
    BY NextTxn, Zenon DEF Txn
  <2> QED BY <2>1, <2>2
<1> QED BY <1>1, <1>2, <1>3, PTL DEF Spec, CallerTransactionKept

-------------------------------------------------------------------------------
(* What a call has done so far in a transaction of its own.                *)

\* After n of the elements of s those behind them are left to do.
Left(s, n) ==
  /\ Len(call.todo) = Len(s) - n
  /\ \A i \in 1..Len(call.todo) : call.todo[i] = s[n + i]

\* The first n tables were absent and are created; or were there and are dropped.
Created(n) ==
  \A i \in 1..Len(TableNames) :
    IF i =< n THEN disk[TableNames[i]] = Absent /\ view[TableNames[i]] = Store!Empty
    ELSE view[TableNames[i]] = disk[TableNames[i]]

Deleted(n) ==
  \A i \in 1..Len(TableNames) :
    IF i =< n THEN disk[TableNames[i]] # Absent /\ view[TableNames[i]] = Absent
    ELSE view[TableNames[i]] = disk[TableNames[i]]

\* The first n rows of the call are added to its table.
AddedTo(was, is, list, n) ==
  /\ was # Absent
  /\ DOMAIN is = DOMAIN was \cup {list[i].key : i \in 1..n}
  /\ \A k \in DOMAIN was : is[k] = was[k]
  /\ \A i \in 1..n : /\ list[i].key \notin DOMAIN was
                     /\ is[list[i].key] = list[i].value
                     /\ \A j \in 1..(i - 1) : list[j].key # list[i].key

Added(n) ==
  /\ \A u \in Tables \ {call.table} : view[u] = disk[u]
  /\ ~Exists(call.table) => n = 0 /\ view[call.table] = disk[call.table]
  /\ Exists(call.table) => AddedTo(disk[call.table], view[call.table], call.rows, n)

CreateProgress == \E n \in 0..Len(TableNames) : Left(TableNames, n) /\ Created(n)
DeleteProgress == \E n \in 0..Len(TableNames) : Left(TableNames, n) /\ Deleted(n)
WriteProgress == \E n \in 0..Len(call.rows) : Left(call.rows, n) /\ Added(n)

Progress ==
  call # Idle /\ ~callerStarted =>
    /\ call.name = "createSchema" => CreateProgress
    /\ call.name = "deleteSchema" => DeleteProgress
    /\ call.name = "write" => WriteProgress

LEMMA NamesOfTables ==
  /\ TableNames \in Seq(Tables)
  /\ Len(TableNames) \in Nat
  /\ \A i \in 1..Len(TableNames) : TableNames[i] \in Tables
  /\ \A i, j \in 1..Len(TableNames) : TableNames[i] = TableNames[j] => i = j
  /\ \A t \in Tables : \E i \in 1..Len(TableNames) : TableNames[i] = t
<1>1. TableNames \in Seq(Tables) /\ IsInjective(TableNames)
  BY TableNamesAssumption
<1>2. DOMAIN TableNames = 1..Len(TableNames) /\ Len(TableNames) \in Nat
  BY <1>1
<1>3. \A t \in Tables : \E i \in 1..Len(TableNames) : TableNames[i] = t
  BY <1>2 DEF Tables, Range
<1> QED BY <1>1, <1>2, <1>3 DEF IsInjective

\* A call that begins in no transaction has done nothing.
LEMMA BeginCallProgress ==
  ASSUME Recovers, TInv, Txn, NEW name \in Names, NEW t, NEW list, NEW todo,
         BeginCall(name, t, list, todo),
         name = "write" => list \in Seq(Rows) /\ todo = list,
         name # "write" => todo = TableNames
  PROVE  Progress'
<1>1. CASE Refuse
  BY <1>1, Zenon DEF Refuse, Thrown, Progress
<1>2. CASE StartTransaction(name, t, list, todo) /\ UNCHANGED <<disk, view, callerStarted, outcome>>
  <2>1. CASE callerStarted
    <3>1. callerStarted'
      BY <1>2, <2>1, Zenon
    <3> QED BY <3>1, Zenon DEF Progress
  <2>2. CASE ~callerStarted
    <3>1. autocommit
      BY <2>2, ReadyTxn, Zenon DEF BeginCall
    <3>2. view' = view /\ disk' = disk /\ view = disk
      BY <1>2, <3>1 DEF TInv, TablesOK
    <3>3. call'.name = name /\ call'.table = t /\ call'.rows = list /\ call'.todo = todo
      BY <1>2 DEF StartTransaction
    <3>4. ASSUME name # "write" PROVE Left(TableNames, 0)' /\ Created(0)' /\ Deleted(0)'
      BY <3>2, <3>3, <3>4, NamesOfTables DEF Left, Created, Deleted
    <3>5. ASSUME name = "write" PROVE Left(call.rows, 0)' /\ Added(0)'
      BY <3>2, <3>3, <3>5 DEF Left, Added, AddedTo, Exists, Store!Exists
    <3>6. name # "write" => CreateProgress' /\ DeleteProgress'
      BY <3>4, NamesOfTables DEF CreateProgress, DeleteProgress
    <3>7. name = "write" => Len(call'.rows) \in Nat
      BY <3>3
    <3>8. name = "write" => WriteProgress'
      BY <3>5, <3>7 DEF WriteProgress
    <3> QED BY <3>3, <3>6, <3>8 DEF Progress
  <2> QED BY <2>1, <2>2
<1> QED BY <1>1, <1>2, Zenon DEF BeginCall

\* One more element is done.
LEMMA LeftTail ==
  ASSUME NEW s, Len(s) \in Nat, NEW n \in 0..Len(s), Left(s, n),
         NEW S, call.todo \in Seq(S), call.todo # <<>>, call'.todo = Tail(call.todo)
  PROVE  /\ n < Len(s) /\ Head(call.todo) = s[n + 1]
         /\ Left(s, n + 1)'
<1>1. Len(call.todo) \in Nat /\ Len(call.todo) > 0
  OBVIOUS
<1>2. /\ Len(call'.todo) = Len(call.todo) - 1
      /\ \A i \in 1..Len(call'.todo) : call'.todo[i] = call.todo[i + 1]
  OBVIOUS
<1>3. Head(call.todo) = call.todo[1]
  OBVIOUS
<1>4. n < Len(s) /\ Head(call.todo) = s[n + 1]
  BY <1>1, <1>3 DEF Left
<1> QED BY <1>1, <1>2, <1>4 DEF Left

\* Execute in a transaction changes what the connection sees and not the disk.
LEMMA CreateProgressStep ==
  ASSUME TInv, Progress, call # Idle, ~callerStarted, call.name = "createSchema", call.todo # <<>>,
         ~Exists(Head(call.todo)),
         Execute(Store!WithTable(view, Head(call.todo), Store!Empty)), Advance
  PROVE  Progress'
<1>1. PICK n \in 0..Len(TableNames) : Left(TableNames, n) /\ Created(n)
  BY DEF Progress, CreateProgress
<1>2. call.todo \in Seq(Tables) /\ call'.todo = Tail(call.todo) /\ call'.name = call.name
  BY AdvanceTypes DEF TInv, CallOK, Names
<1>3. /\ n < Len(TableNames) /\ Head(call.todo) = TableNames[n + 1]
      /\ Left(TableNames, n + 1)'
  BY <1>1, <1>2, LeftTail, NamesOfTables
<1>4. disk' = disk /\ view' = Store!WithTable(view, TableNames[n + 1], Store!Empty)
  BY <1>3 DEF Execute, TInv, CallOK
<1>5. view[TableNames[n + 1]] = Absent /\ n + 1 \in 1..Len(TableNames)
  BY <1>3 DEF Exists, Store!Exists
<1>6. \A i \in 1..Len(TableNames) :
        view'[TableNames[i]] = IF i = n + 1 THEN Store!Empty ELSE view[TableNames[i]]
  BY <1>4, <1>5, NamesOfTables DEF Store!WithTable, TInv, TablesOK, Store!Databases
<1>7. Created(n + 1)'
  <2> SUFFICES ASSUME NEW i \in 1..Len(TableNames)
               PROVE  IF i =< n + 1
                      THEN disk[TableNames[i]] = Absent /\ view'[TableNames[i]] = Store!Empty
                      ELSE view'[TableNames[i]] = disk[TableNames[i]]
    BY <1>4 DEF Created
  <2>1. CASE i = n + 1
    BY <1>1, <1>5, <1>6, <2>1 DEF Created
  <2>2. CASE i =< n
    BY <1>1, <1>6, <2>2 DEF Created
  <2>3. CASE i > n + 1
    BY <1>1, <1>6, <2>3 DEF Created
  <2> QED BY <2>1, <2>2, <2>3
<1>8. n + 1 \in 0..Len(TableNames)
  BY <1>5
<1>9. CreateProgress'
  BY <1>3, <1>7, <1>8 DEF CreateProgress
<1> QED BY <1>2, <1>9 DEF Progress

LEMMA DeleteProgressStep ==
  ASSUME TInv, Progress, call # Idle, ~callerStarted, call.name = "deleteSchema", call.todo # <<>>,
         Exists(Head(call.todo)),
         Execute(Store!WithTable(view, Head(call.todo), Absent)), Advance
  PROVE  Progress'
<1>1. PICK n \in 0..Len(TableNames) : Left(TableNames, n) /\ Deleted(n)
  BY DEF Progress, DeleteProgress
<1>2. call.todo \in Seq(Tables) /\ call'.todo = Tail(call.todo) /\ call'.name = call.name
  BY AdvanceTypes DEF TInv, CallOK, Names
<1>3. /\ n < Len(TableNames) /\ Head(call.todo) = TableNames[n + 1]
      /\ Left(TableNames, n + 1)'
  BY <1>1, <1>2, LeftTail, NamesOfTables
<1>4. disk' = disk /\ view' = Store!WithTable(view, TableNames[n + 1], Absent)
  BY <1>3 DEF Execute, TInv, CallOK
<1>5. view[TableNames[n + 1]] # Absent /\ n + 1 \in 1..Len(TableNames)
  BY <1>3 DEF Exists, Store!Exists
<1>6. \A i \in 1..Len(TableNames) :
        view'[TableNames[i]] = IF i = n + 1 THEN Absent ELSE view[TableNames[i]]
  BY <1>4, <1>5, NamesOfTables DEF Store!WithTable, TInv, TablesOK, Store!Databases
<1>7. Deleted(n + 1)'
  <2> SUFFICES ASSUME NEW i \in 1..Len(TableNames)
               PROVE  IF i =< n + 1
                      THEN disk[TableNames[i]] # Absent /\ view'[TableNames[i]] = Absent
                      ELSE view'[TableNames[i]] = disk[TableNames[i]]
    BY <1>4 DEF Deleted
  <2>1. CASE i = n + 1
    BY <1>1, <1>5, <1>6, <2>1 DEF Deleted
  <2>2. CASE i =< n
    BY <1>1, <1>6, <2>2 DEF Deleted
  <2>3. CASE i > n + 1
    BY <1>1, <1>6, <2>3 DEF Deleted
  <2> QED BY <2>1, <2>2, <2>3
<1>8. n + 1 \in 0..Len(TableNames)
  BY <1>5
<1>9. DeleteProgress'
  BY <1>3, <1>7, <1>8 DEF DeleteProgress
<1> QED BY <1>2, <1>9 DEF Progress

\* The tables with one row more.
LEMMA RowAdded ==
  ASSUME NEW db \in Store!Databases, NEW t \in Tables, Store!Exists(db, t),
         NEW k \in Keys, k \notin DOMAIN db[t], NEW v \in Values,
         NEW new, new = Store!WithRow(db, t, k, v)
  PROVE  /\ \A u \in Tables \ {t} : new[u] = db[u]
         /\ DOMAIN new[t] = DOMAIN db[t] \cup {k}
         /\ \A j \in DOMAIN db[t] : new[t][j] = db[t][j]
         /\ new[t][k] = v
         /\ Store!Exists(new, t)
<1> DEFINE list == [i \in DOMAIN db[t] \cup {k} |-> IF i = k THEN v ELSE db[t][i]]
<1>1. new = [db EXCEPT ![t] = list]
  BY DEF Store!WithRow, Store!WithTable
<1>2. db \in [Tables -> Store!Contents]
  BY DEF Store!Databases
<1>3. new[t] = list /\ \A u \in Tables \ {t} : new[u] = db[u]
  BY <1>1, <1>2
<1>4. PICK K \in SUBSET Keys : db[t] \in [K -> Values]
  BY RowTypes DEF Store!Filled
<1>5. list \in [K \cup {k} -> Values]
  BY <1>4
<1>6. list \in Store!Filled
  BY <1>5 DEF Store!Filled
<1>7. Store!Exists(new, t)
  BY <1>3, <1>6, ConstantsAssumption DEF Store!Exists
<1> QED BY <1>3, <1>7

LEMMA WriteProgressStep ==
  ASSUME TInv, Progress, call # Idle, ~callerStarted, call.name = "write", call.todo # <<>>,
         Exists(call.table), Head(call.todo).key \notin DOMAIN view[call.table],
         Execute(Store!WithRow(view, call.table, Head(call.todo).key, Head(call.todo).value)), Advance
  PROVE  Progress'
<1> DEFINE t == call.table
           list == call.rows
<1>1. PICK n \in 0..Len(list) : Left(list, n) /\ Added(n)
  BY DEF Progress, WriteProgress
<1>2. /\ call.todo \in Seq(Rows) /\ call'.todo = Tail(call.todo)
      /\ call'.name = call.name /\ call'.table = t /\ call'.rows = list
      /\ t \in Tables /\ list \in Seq(Rows)
  BY AdvanceTypes DEF TInv, CallOK, Names
<1>3. /\ n < Len(list) /\ Head(call.todo) = list[n + 1]
      /\ \A s : s = list => Left(s, n + 1)'
  BY <1>1, <1>2, LeftTail
<1> DEFINE k == list[n + 1].key
           v == list[n + 1].value
<1>4. k \in Keys /\ v \in Values /\ n + 1 \in 1..Len(list)
  BY <1>2, <1>3, HeadOfRows
<1>5. disk' = disk /\ view' = Store!WithRow(view, t, k, v)
  BY <1>3 DEF Execute, TInv, CallOK
<1>6. /\ \A u \in Tables \ {t} : view'[u] = view[u]
      /\ DOMAIN view'[t] = DOMAIN view[t] \cup {k}
      /\ \A j \in DOMAIN view[t] : view'[t][j] = view[t][j]
      /\ view'[t][k] = v
      /\ Store!Exists(view', t)
  <2>1. view \in Store!Databases
    BY DEF TInv, TablesOK
  <2>2. Store!Exists(view, t)
    BY DEF Exists
  <2>3. k \notin DOMAIN view[t]
    BY <1>3
  <2> HIDE DEF t, k, v
  <2> QED
    BY <1>2, <1>4, <1>5, <2>1, <2>2, <2>3, RowAdded
<1>7. (\A u \in Tables \ {t} : view[u] = disk[u]) /\ AddedTo(disk[t], view[t], list, n)
  BY <1>1 DEF Added
<1>8. k \notin DOMAIN view[t]
  BY <1>3
<1>9. k \notin DOMAIN disk[t] /\ \A j \in 1..n : list[j].key # k
  BY <1>7, <1>8 DEF AddedTo
<1>10. DOMAIN view'[t] = DOMAIN disk[t] \cup {list[i].key : i \in 1..(n + 1)}
  <2>1. {list[i].key : i \in 1..(n + 1)} = {list[i].key : i \in 1..n} \cup {k}
    <3>1. 1..(n + 1) = 1..n \cup {n + 1}
      OBVIOUS
    <3> QED BY <3>1, Zenon
  <2> QED BY <1>6, <1>7, <2>1, Zenon DEF AddedTo
<1>11. \A j \in DOMAIN disk[t] : view'[t][j] = disk[t][j]
  BY <1>6, <1>7, Zenon DEF AddedTo
<1>12. \A i \in 1..(n + 1) : /\ list[i].key \notin DOMAIN disk[t]
                            /\ view'[t][list[i].key] = list[i].value
                            /\ \A j \in 1..(i - 1) : list[j].key # list[i].key
  <2> TAKE i \in 1..(n + 1)
  <2>1. CASE i = n + 1
    BY <1>6, <1>9, <2>1
  <2>2. CASE i \in 1..n
    <3>1. list[i].key \in DOMAIN view[t]
      BY <1>7, <2>2, Zenon DEF AddedTo
    <3> QED BY <1>6, <1>7, <2>2, <3>1, Zenon DEF AddedTo
  <2> QED BY <2>1, <2>2
<1>13. Added(n + 1)'
  <2>1. \A u \in Tables \ {t} : view'[u] = disk'[u]
    BY <1>5, <1>6, <1>7
  <2>2. Exists(t)'
    BY <1>2, <1>6 DEF Exists, Store!Exists
  <2>3. AddedTo(disk[t], view'[t], list, n + 1)
    BY <1>7, <1>10, <1>11, <1>12, Zenon DEF AddedTo
  <2> QED BY <1>2, <1>5, <2>1, <2>2, <2>3 DEF Added
<1>14. n + 1 \in 0..Len(call'.rows) /\ Left(call.rows, n + 1)'
  BY <1>2, <1>3, <1>4
<1>15. WriteProgress'
  BY <1>13, <1>14 DEF WriteProgress
<1> QED BY <1>2, <1>15 DEF Progress

LEMMA NextProgress == ASSUME Recovers, TInv, Txn, Progress, [Next]_vars PROVE Progress'
<1>1. CASE call' = Idle
  BY <1>1, Zenon DEF Progress
<1>2. CASE call # Idle /\ callerStarted
  <2>1. CASE CreateNext \/ DeleteNext \/ WriteNext
    <3>1. CASE Advance
      BY <1>2, <3>1, Zenon DEF Advance, Progress
    <3>2. CASE call' = Idle
      BY <1>1, <3>2
    <3> QED BY <2>1, <3>1, <3>2, Zenon DEF CreateNext, DeleteNext, WriteNext, FailAndThrow, Refuse, Thrown
  <2>2. CASE EndCall
    BY <1>1, <2>2, Zenon DEF EndCall, EndTransaction, FailAndThrow, Refuse, Thrown, Returned
  <2>3. CASE Crash
    BY <1>1, <2>3, Zenon DEF Crash
  <2>4. CASE UNCHANGED vars
    BY <1>2, <2>4, Zenon DEF vars, Progress
  <2>5. ~Ready
    BY <1>2, Zenon DEF Ready
  <2> QED BY <1>2, <2>1, <2>2, <2>3, <2>4, <2>5, Zenon
          DEF Next, StepOfCall, CreateSchema, DeleteSchema, BeginCall, CallOfTable, Write, CreateTable,
              DeleteTable, Update, StartReading, EndReading, CallerStarts, CallerEnds, RollBack, Reopen
<1>3. CASE call # Idle /\ ~callerStarted
  <2>1. CASE CreateNext
    BY <1>1, <1>3, <2>1, CreateProgressStep, Zenon DEF CreateNext, FailAndThrow, Thrown
  <2>2. CASE DeleteNext
    BY <1>1, <1>3, <2>2, DeleteProgressStep, Zenon DEF DeleteNext, FailAndThrow, Thrown
  <2>3. CASE WriteNext
    BY <1>1, <1>3, <2>3, WriteProgressStep, Zenon DEF WriteNext, FailAndThrow, Refuse, Thrown
  <2>4. CASE EndCall
    BY <1>1, <2>4, Zenon DEF EndCall, EndTransaction, FailAndThrow, Refuse, Thrown, Returned
  <2>5. CASE Crash
    BY <1>1, <2>5, Zenon DEF Crash
  <2>6. CASE UNCHANGED vars
    BY <2>6 DEF vars, Progress, CreateProgress, DeleteProgress, WriteProgress, Left, Created, Deleted,
                Added, Exists
  <2>7. ~Ready
    BY <1>3, Zenon DEF Ready
  <2> QED BY <1>3, <2>1, <2>2, <2>3, <2>4, <2>5, <2>6, <2>7, Zenon
          DEF Next, StepOfCall, CreateSchema, DeleteSchema, BeginCall, CallOfTable, Write, CreateTable,
              DeleteTable, Update, StartReading, EndReading, CallerStarts, CallerEnds, RollBack, Reopen
<1>4. CASE call = Idle
  <2>1. CASE CreateSchema \/ DeleteSchema
    BY <2>1, BeginCallProgress DEF CreateSchema, DeleteSchema, Names
  <2>2. ASSUME NEW t \in Tables, NEW list \in RowLists, Write(t, list) PROVE Progress'
    BY <2>2, BeginCallProgress, RowListsAssumption DEF Write, Names
  <2>3. CASE call' = call
    BY <1>1, <1>4, <2>3
  <2>4. ~StepOfCall
    BY <1>4 DEF StepOfCall, CreateNext, DeleteNext, WriteNext, EndCall, Idle
  <2> QED BY <1>1, <2>1, <2>2, <2>3, <2>4, Zenon
          DEF Next, CallOfTable, CreateTable, DeleteTable, Update, Single, StartReading, EndReading,
              CallerStarts, CallerEnds, RollBack, Reopen, Crash, FailAndThrow, Refuse, Thrown, Returned, vars
<1> QED BY <1>2, <1>3, <1>4

-------------------------------------------------------------------------------
(* The refinement: every step is a step of SqlStore or changes nothing it sees. *)

Batch == IF callerStarted /\ ~autocommit THEN view ELSE NoBatch
Job == [name |-> call.name, table |-> call.table, rows |-> call.rows]

Stutters == UNCHANGED <<disk, Batch, Job>>

LEMMA IdleJob == (call = Idle => Job = Store!NoJob) /\ (call' = Idle => Job' = Store!NoJob)
BY DEF Idle, Job, Store!NoJob

\* A call that throws, or that ends without a trace on the disk.
LEMMA GiveUpMaps ==
  ASSUME call' = Idle, disk' = disk, Batch' \in {Batch, NoBatch}
  PROVE  Store!GiveUp
BY IdleJob DEF Store!GiveUp, Batch, Job

LEMMA ThrowMaps ==
  ASSUME Txn, Txn', FailAndThrow \/ Refuse
  PROVE  Store!GiveUp
<1>1. call' = Idle /\ disk' = disk
  BY Zenon DEF FailAndThrow, Refuse, Thrown, Fail
<1>2. CASE view' = view /\ autocommit' = autocommit /\ callerStarted' = callerStarted
  BY <1>1, <1>2, GiveUpMaps DEF Batch
<1>3. CASE autocommit' = TRUE
  BY <1>1, <1>3, GiveUpMaps DEF Batch
<1> QED BY <1>2, <1>3, Zenon DEF FailAndThrow, Refuse, Fail

LEMMA BeginCallMaps ==
  ASSUME Recovers, TInv, Txn, Txn', NEW name \in Names, NEW t, NEW list, NEW todo,
         BeginCall(name, t, list, todo)
  PROVE  Store!Next
<1>1. CASE Refuse
  BY <1>1, ThrowMaps DEF Store!Next
<1>2. CASE StartTransaction(name, t, list, todo) /\ UNCHANGED <<disk, view, callerStarted, outcome>>
  <2>1. Job = Store!NoJob
    BY IdleJob DEF BeginCall, Ready
  <2>2. Job'.name = name
    BY <1>2 DEF StartTransaction, Job
  <2>3. Batch' = Batch
    <3>1. CASE callerStarted
      BY <1>2, <3>1 DEF Txn, Batch
    <3>2. CASE ~callerStarted
      BY <1>2, <3>2 DEF Batch
    <3> QED BY <3>1, <3>2
  <2>4. Store!Ask
    BY <1>2, <2>1, <2>2, <2>3 DEF Store!Ask, Names, Batch, Job
  <2> QED BY <2>4 DEF Store!Next
<1> QED BY <1>1, <1>2, Zenon DEF BeginCall

\* In a transaction of the caller a statement changes one table of the batch.
LEMMA BatchStepMaps ==
  ASSUME TInv, Txn, callerStarted, NEW t \in Tables, NEW list \in Store!Contents,
         Execute(Store!WithTable(view, t, list)), UNCHANGED <<autocommit, callerStarted>>, Job' = Job
  PROVE  Store!Step
<1>1. ~autocommit
  BY Zenon DEF Txn
<1>2. Batch = view /\ Batch' = view' /\ disk' = disk
  BY <1>1 DEF Batch, Execute
<1>3. Batch # NoBatch
  BY <1>2, ConstantsAssumption DEF TInv, TablesOK
<1>4. Batch' = Store!WithTable(Batch, t, list)
  BY <1>2 DEF Execute
<1> QED BY <1>2, <1>3, <1>4 DEF Store!Step, Batch, Job

\* A row that is put into a table makes another table of it.
LEMMA RowTable ==
  ASSUME NEW db \in Store!Databases, NEW t \in Tables, Store!Exists(db, t),
         NEW k \in Keys, NEW v \in Values
  PROVE  \E list \in Store!Contents : Store!WithRow(db, t, k, v) = Store!WithTable(db, t, list)
<1> DEFINE list == [i \in DOMAIN db[t] \cup {k} |-> IF i = k THEN v ELSE db[t][i]]
<1>1. PICK K \in SUBSET Keys : db[t] \in [K -> Values]
  BY RowTypes DEF Store!Filled
<1>2. list \in [K \cup {k} -> Values]
  BY <1>1
<1>3. list \in Store!Contents
  BY <1>2 DEF Store!Contents, Store!Filled
<1> QED BY <1>3 DEF Store!WithRow

\* What is done by a call of one statement.
OneStatement(db, new) ==
  \E t \in Tables :
    \/ ~Store!Exists(db, t) /\ new = Store!WithTable(db, t, Store!Empty)
    \/ Store!Exists(db, t) /\ new = Store!WithTable(db, t, Absent)
    \/ /\ Store!Exists(db, t)
       /\ \E k \in DOMAIN db[t], v \in Values : new = Store!WithRow(db, t, k, v)

LEMMA SingleMaps ==
  ASSUME Recovers, TInv, Txn, Ready, NEW v, Single(v), OneStatement(view, v)
  PROVE  Store!Next
<1>1. Job = Store!NoJob /\ Job' = Store!NoJob
  BY IdleJob DEF Ready, Single, Returned
<1>2. UNCHANGED <<autocommit, callerStarted>>
  BY DEF Single
<1>3. CASE callerStarted
  <2>1. PICK t \in Tables, list \in Store!Contents : v = Store!WithTable(view, t, list)
    <3>1. PICK t \in Tables :
            \/ ~Store!Exists(view, t) /\ v = Store!WithTable(view, t, Store!Empty)
            \/ Store!Exists(view, t) /\ v = Store!WithTable(view, t, Absent)
            \/ /\ Store!Exists(view, t)
               /\ \E k \in DOMAIN view[t], w \in Values : v = Store!WithRow(view, t, k, w)
      BY DEF OneStatement
    <3>2. {Store!Empty, Absent} \subseteq Store!Contents
      BY TableTypes DEF TInv, TablesOK, Store!Contents
    <3>3. ASSUME Store!Exists(view, t), NEW k \in DOMAIN view[t], NEW w \in Values,
                 v = Store!WithRow(view, t, k, w)
          PROVE  \E list \in Store!Contents : v = Store!WithTable(view, t, list)
      <4>1. view[t] \in Store!Filled
        BY <3>3 DEF TInv, TablesOK, Store!Databases, Store!Contents, Store!Exists
      <4>2. k \in Keys
        BY <4>1 DEF Store!Filled
      <4> QED BY <3>3, <4>2, RowTable DEF TInv, TablesOK
    <3> QED BY <3>1, <3>2, <3>3
  <2>2. Store!Step
    BY <1>1, <1>2, <1>3, <2>1, BatchStepMaps DEF Single
  <2> QED BY <2>2 DEF Store!Next
<1>4. CASE ~callerStarted
  <2>1. autocommit
    BY <1>4, ReadyTxn, Zenon
  <2>2. view = disk /\ disk' = v
    BY <2>1 DEF TInv, TablesOK, Single, Execute
  <2>3. Batch = NoBatch /\ Batch' = NoBatch
    BY <1>2, <1>4 DEF Batch
  <2>4. OneStatement(disk, disk')
    BY <2>2
  <2>5. Store!PerformSingle
    BY <1>1, <2>3, <2>4 DEF Store!PerformSingle, OneStatement, Batch, Job
  <2> QED BY <2>5 DEF Store!Next
<1> QED BY <1>3, <1>4

\* A statement of a call, in whosever transaction it is.
LEMMA StepOfCallMaps ==
  ASSUME TInv, Txn, call # Idle, call.name \in Names, call.todo # <<>>, Advance,
         NEW t \in Tables, NEW list \in Store!Contents, Execute(Store!WithTable(view, t, list))
  PROVE  Store!Next \/ Stutters
<1>1. Job' = Job
  BY AdvanceTypes DEF TInv, Job
<1>2. UNCHANGED <<autocommit, callerStarted>>
  BY DEF Advance
<1>3. CASE callerStarted
  BY <1>1, <1>2, <1>3, BatchStepMaps DEF Store!Next
<1>4. CASE ~callerStarted
  <2>1. disk' = disk
    BY DEF Execute, TInv, CallOK
  <2>2. Batch = NoBatch /\ Batch' = NoBatch
    BY <1>2, <1>4 DEF Batch
  <2> QED BY <1>1, <2>1, <2>2 DEF Stutters
<1> QED BY <1>3, <1>4

\* When everything is done, the tables that the connection sees are those the call is to make.
LEMMA ProgressCompletes ==
  ASSUME TInv, Txn, Progress, call # Idle, ~callerStarted, call.todo = <<>>,
         call.name = "write" => Exists(call.table)
  PROVE  Store!Completes(disk, view)
<1>1. call.name \in Names /\ Len(call.todo) = 0
  BY DEF TInv, CallOK
<1>2. disk \in [Tables -> Store!Contents] /\ view \in [Tables -> Store!Contents]
  BY DEF TInv, TablesOK, Store!Databases
<1>3. CASE call.name = "createSchema"
  <2>1. PICK n \in 0..Len(TableNames) : Left(TableNames, n) /\ Created(n)
    BY <1>3 DEF Progress, CreateProgress
  <2>2. n = Len(TableNames)
    BY <1>1, <2>1, NamesOfTables DEF Left
  <2>3. \A t \in Tables : disk[t] = Absent /\ view[t] = Store!Empty
    BY <2>1, <2>2, NamesOfTables DEF Created
  <2>4. disk = Store!AllDeleted /\ view = Store!AllCreated
    BY <1>2, <2>3 DEF Store!AllDeleted, Store!AllCreated
  <2> QED BY <1>3, <2>4 DEF Store!Completes
<1>4. CASE call.name = "deleteSchema"
  <2>1. PICK n \in 0..Len(TableNames) : Left(TableNames, n) /\ Deleted(n)
    BY <1>4 DEF Progress, DeleteProgress
  <2>2. n = Len(TableNames)
    BY <1>1, <2>1, NamesOfTables DEF Left
  <2>3. \A t \in Tables : disk[t] # Absent /\ view[t] = Absent
    BY <2>1, <2>2, NamesOfTables DEF Deleted
  <2>4. (\A t \in Tables : Store!Exists(disk, t)) /\ view = Store!AllDeleted
    BY <1>2, <2>3 DEF Store!AllDeleted, Store!Exists
  <2> QED BY <1>4, <2>4 DEF Store!Completes
<1>5. CASE call.name = "write"
  <2>1. PICK n \in 0..Len(call.rows) : Left(call.rows, n) /\ Added(n)
    BY <1>5 DEF Progress, WriteProgress
  <2>2. call.rows \in Seq(Rows)
    BY <1>5 DEF TInv, CallOK
  <2>3. n = Len(call.rows)
    BY <1>1, <2>1, <2>2 DEF Left
  <2>4. /\ \A u \in Tables \ {call.table} : view[u] = disk[u]
        /\ AddedTo(disk[call.table], view[call.table], call.rows, Len(call.rows))
    BY <1>5, <2>1, <2>3 DEF Added
  <2>5. Store!Adds(disk, view, call.table, call.rows)
    BY <2>4, Zenon DEF AddedTo, Store!Adds
  <2>6. Store!Exists(disk, call.table)
    BY <2>4 DEF AddedTo, Store!Exists
  <2> QED BY <1>5, <2>5, <2>6 DEF Store!Completes
<1> QED BY <1>1, <1>3, <1>4, <1>5 DEF Names

LEMMA EndCallMaps ==
  ASSUME TInv, Txn, Txn', Progress, EndCall
  PROVE  Store!Next
<1>1. CASE Refuse \/ FailAndThrow
  BY <1>1, ThrowMaps DEF Store!Next
<1>2. CASE /\ call.name = "write" => Exists(call.table)
           /\ call.started /\ Commit /\ Returned /\ UNCHANGED callerStarted
  <2>1. ~callerStarted
    BY <1>2, Zenon DEF Txn, EndCall
  <2>2. disk' = view /\ Job' = Store!NoJob
    BY <1>2, IdleJob DEF Commit, Returned
  <2>3. Store!Completes(disk, disk')
    BY <1>2, <2>1, <2>2, ProgressCompletes DEF EndCall
  <2>4. Batch = NoBatch /\ Batch' = NoBatch
    BY <1>2, <2>1 DEF Batch
  <2>5. Store!Perform
    BY <2>2, <2>3, <2>4 DEF Store!Perform, Batch, Job
  <2> QED BY <2>5 DEF Store!Next
<1>3. CASE Returned /\ UNCHANGED <<disk, view, autocommit, callerStarted>>
  <2>1. Batch' = Batch
    BY <1>3 DEF Batch
  <2> QED BY <1>3, <2>1, GiveUpMaps DEF Returned, Store!Next
<1> QED BY <1>1, <1>2, <1>3, Zenon DEF EndCall, EndTransaction

LEMMA CallOfTableMaps ==
  ASSUME Recovers, TInv, Txn, Txn', NEW t \in Tables, CallOfTable(t)
  PROVE  Store!Next \/ Stutters
<1>1. ASSUME NEW list \in RowLists, Write(t, list) PROVE Store!Next
  BY <1>1, BeginCallMaps DEF Write, Names
<1>2. CASE CreateTable(t)
  <2>1. OneStatement(view, Store!WithTable(view, t, Store!Empty)) \/ Exists(t)
    BY DEF OneStatement, Exists
  <2>2. CASE FailAndThrow
    BY <2>2, ThrowMaps DEF Store!Next
  <2> QED BY <1>2, <2>1, <2>2, SingleMaps DEF CreateTable
<1>3. CASE DeleteTable(t)
  <2>1. OneStatement(view, Store!WithTable(view, t, Absent)) \/ ~Exists(t)
    BY DEF OneStatement, Exists
  <2>2. CASE FailAndThrow
    BY <2>2, ThrowMaps DEF Store!Next
  <2> QED BY <1>3, <2>1, <2>2, SingleMaps DEF DeleteTable
<1>4. ASSUME NEW k \in Keys, NEW v \in Values, Update(t, k, v) PROVE Store!Next \/ Stutters
  <2>1. CASE FailAndThrow
    BY <2>1, ThrowMaps DEF Store!Next
  <2>2. CASE Exists(t) /\ k \in DOMAIN view[t] /\ Single(Store!WithRow(view, t, k, v))
    <3>1. OneStatement(view, Store!WithRow(view, t, k, v))
      BY <2>2 DEF OneStatement, Exists
    <3> QED BY <1>4, <2>2, <3>1, SingleMaps DEF Update
  <2>3. CASE Single(view)
    <3>1. view' = view /\ UNCHANGED <<autocommit, callerStarted>>
      BY <2>3 DEF Single, Execute
    <3>2. disk' = disk
      BY <2>3 DEF Single, Execute, TInv, TablesOK
    <3>3. Job' = Job
      BY <1>4, <2>3, IdleJob DEF Update, Ready, Single, Returned
    <3>4. Batch' = Batch
      BY <3>1 DEF Batch
    <3> QED BY <3>2, <3>3, <3>4 DEF Stutters
  <2> QED BY <1>4, <2>1, <2>2, <2>3 DEF Update
<1>5. CASE StartReading(t)
  BY <1>5 DEF StartReading, Stutters, Batch, Job
<1> QED BY <1>1, <1>2, <1>3, <1>4, <1>5 DEF CallOfTable

LEMMA NextMaps ==
  ASSUME Recovers, TInv, Txn, Txn', Progress, [Next]_vars
  PROVE  Store!Next \/ Stutters
<1>1. CASE CreateSchema \/ DeleteSchema
  BY <1>1, BeginCallMaps DEF CreateSchema, DeleteSchema, Names
<1>2. CASE \E t \in Tables : CallOfTable(t)
  BY <1>2, CallOfTableMaps
<1>3. CASE FailAndThrow \/ Refuse
  BY <1>3, ThrowMaps DEF Store!Next
<1>4. CASE CreateNext
  <2>1. /\ call # Idle /\ call.name \in Names /\ call.todo # <<>>
        /\ Head(call.todo) \in Tables /\ Store!Empty \in Store!Contents
    BY <1>4, HeadOfTables, TableTypes DEF CreateNext, TInv, CallOK, TablesOK, Names, Idle, Store!Contents
  <2> QED BY <1>3, <1>4, <2>1, StepOfCallMaps DEF CreateNext
<1>5. CASE DeleteNext
  <2>1. /\ call # Idle /\ call.name \in Names /\ call.todo # <<>>
        /\ Head(call.todo) \in Tables /\ Absent \in Store!Contents
    BY <1>5, HeadOfTables DEF DeleteNext, TInv, CallOK, Names, Idle, Store!Contents
  <2> QED BY <1>3, <1>5, <2>1, StepOfCallMaps DEF DeleteNext
<1>6. CASE WriteNext
  <2> DEFINE first == Head(call.todo)
             t == call.table
  <2>1. /\ call # Idle /\ call.name \in Names /\ call.todo # <<>>
        /\ t \in Tables /\ first.key \in Keys /\ first.value \in Values
    BY <1>6, HeadOfRows DEF WriteNext, TInv, CallOK, Names, Idle
  <2>2. CASE Exists(t) /\ Execute(Store!WithRow(view, t, first.key, first.value)) /\ Advance
    <3>1. PICK list \in Store!Contents :
            Store!WithRow(view, t, first.key, first.value) = Store!WithTable(view, t, list)
      BY <2>1, <2>2, RowTable DEF TInv, TablesOK, Exists
    <3> QED BY <2>1, <2>2, <3>1, StepOfCallMaps
  <2> QED BY <1>3, <1>6, <2>2, Zenon DEF WriteNext
<1>7. CASE EndCall
  BY <1>7, EndCallMaps
<1>8. CASE EndReading
  BY <1>8 DEF EndReading, Stutters, Batch, Job
<1>9. CASE CallerStarts
  <2>1. CASE callerStarted' = autocommit /\ autocommit' = FALSE /\ Returned /\ UNCHANGED <<disk, view>>
    <3>1. autocommit /\ ~callerStarted
      BY <1>9, ReadyTxn, Zenon DEF CallerStarts
    <3>2. Batch = NoBatch /\ Batch' = view' /\ view' = view /\ disk' = disk /\ view = disk
      BY <2>1, <3>1 DEF Batch, TInv, TablesOK
    <3>3. Job = Store!NoJob /\ Job' = Store!NoJob
      BY <1>9, <2>1, IdleJob DEF CallerStarts, Ready, Returned
    <3>4. Store!Begin
      BY <3>2, <3>3 DEF Store!Begin, Batch, Job
    <3> QED BY <3>4 DEF Store!Next
  <2> QED BY <1>3, <1>9, <2>1, Zenon DEF CallerStarts
<1>10. CASE CallerEnds
  <2>1. CASE ~autocommit /\ Commit /\ Returned /\ callerStarted' = FALSE
    <3>1. Batch = view /\ Batch' = NoBatch /\ disk' = view
      BY <1>10, <2>1 DEF Batch, CallerEnds, Commit
    <3>2. Batch # NoBatch
      BY <3>1, ConstantsAssumption DEF TInv, TablesOK
    <3>3. Job = Store!NoJob /\ Job' = Store!NoJob
      BY <1>10, <2>1, IdleJob DEF CallerEnds, Ready, Returned
    <3>4. Store!Commit
      BY <3>1, <3>2, <3>3 DEF Store!Commit, Batch, Job
    <3> QED BY <3>4 DEF Store!Next
  <2> QED BY <1>3, <1>10, <2>1, Zenon DEF CallerEnds
<1>11. CASE /\ autocommit' = TRUE /\ disk' = disk /\ call' = Idle
  BY <1>11, GiveUpMaps DEF Batch, Store!Next
<1>12. CASE RollBack
  BY <1>11, <1>12, Zenon DEF RollBack
<1>13. CASE Reopen
  <2>1. CASE UNCHANGED <<view, autocommit, callerStarted, outcome>>
    BY <1>13, <2>1 DEF Reopen, Stutters, Batch, Job
  <2> QED BY <1>11, <1>13, <2>1, Zenon DEF Reopen
<1>14. CASE Crash
  BY <1>11, <1>14, Zenon DEF Crash
<1>15. CASE UNCHANGED vars
  BY <1>15 DEF vars, Stutters, Batch, Job
<1> QED BY <1>1, <1>2, <1>4, <1>5, <1>6, <1>7, <1>8, <1>9, <1>10, <1>12, <1>13, <1>14, <1>15
        DEF Next, StepOfCall

LEMMA InitMaps == Init => Store!Init /\ Progress
<1> SUFFICES ASSUME Init PROVE Store!Init /\ Progress
  OBVIOUS
<1>1. disk \in Store!Databases
  BY InitTypes DEF TInv, TablesOK
<1>2. Batch = NoBatch /\ Job = Store!NoJob
  BY IdleJob DEF Init, Batch
<1>3. Store!Init
  BY <1>1, <1>2 DEF Store!Init, Batch, Job
<1>4. Progress
  BY DEF Init, Progress
<1> QED BY <1>3, <1>4

\* Whatever fails, the disk changes by whole calls and whole transactions of the caller, if
\* the caller rolls back after exceptions.
THEOREM SqlImplementsStore == ASSUME Recovers PROVE Spec => ImplementsStore
<1>1. Init => TInv /\ Txn /\ Progress /\ Store!Init
  BY InitTypes, InitTxn, InitMaps
<1>2. TInv /\ Txn /\ Progress /\ [Next]_vars => TInv' /\ Txn' /\ Progress'
  BY NextTypes, NextTxn, NextProgress
<1>3. TInv /\ Txn /\ Txn' /\ Progress /\ [Next]_vars
      => [Store!Next]_<<disk, IF callerStarted /\ ~autocommit THEN view ELSE NoBatch,
                        [name |-> call.name, table |-> call.table, rows |-> call.rows]>>
  BY NextMaps DEF Stutters, Batch, Job
<1> QED BY <1>1, <1>2, <1>3, PTL DEF Spec, ImplementsStore, Store!Spec

(***************************************************************************)
(* The tables.                                                             *)
(***************************************************************************)

-------------------------------------------------------------------------------
(* The reader.                                                             *)

RowType == [Fields -> {"a", "b", NoValue, Partial}]

\* What next was given and has returned. The reader is a step ahead of its caller, unless
\* that step has failed.
HistoryOK ==
  /\ got \in Seq([given : RowType, row : RowType])
  /\ Len(got) =< Len(rows)
  /\ lastResult # "error" => Len(got) = cursor - 1
  /\ lastResult = "done" => cursor = Len(rows) + 1

ReaderInv == ReaderTypeOK /\ HistoryOK /\ RowsAsStored

\* The current row is one of the result.
LEMMA CurrentType ==
  ASSUME ReaderTypeOK, HasNext
  PROVE  Current = rows[cursor] /\ Current \in [Fields -> Stored]
BY DEF ReaderTypeOK, HasNext, Current

\* What is left in a field that is not bad.
LEMMA FilledType ==
  ASSUME ReaderTypeOK, HasNext, NEW given \in RowType, NEW f \in Fields, f \notin BadFields
  PROVE  Filled(given, f) \in {"a", "b", NoValue, Partial}
BY CurrentType DEF Filled, BadFields, Stored, RowType

\* next keeps the reader's types and its history, whether the statement can step on or not.
LEMMA NextRowKeeps ==
  ASSUME ReaderInv, NEW given \in RowType, NextRow(given)
  PROVE  ReaderInv'
<1>1. /\ HasNext /\ BadFields = {} /\ lastResult = "row"
      /\ rows' = rows /\ columnsMapping' = columnsMapping
      /\ row' = [f \in Fields |-> Filled(given, f)]
      /\ cursor \in 1..Len(rows) /\ Len(rows) \in Nat
      /\ Len(got) = cursor - 1
  BY DEF NextRow, HasNext, ReaderInv, ReaderTypeOK, HistoryOK
<1>2. row' \in RowType
  BY <1>1, FilledType DEF RowType, ReaderInv
<1>3. CASE StepTo(cursor + 1) /\ got' = Append(got, [given |-> given, row |-> row'])
  <2>1. /\ cursor' = cursor + 1 /\ cursor' \in 1..(Len(rows) + 1)
        /\ lastResult' = IF cursor + 1 =< Len(rows) THEN "row" ELSE "done"
    BY <1>1, <1>3 DEF StepTo
  <2>2. ReaderTypeOK'
    BY <1>1, <1>2, <2>1 DEF ReaderInv, ReaderTypeOK, RowType
  <2>3. got' \in Seq([given : RowType, row : RowType]) /\ Len(got') = Len(got) + 1
    BY <1>2, <1>3 DEF ReaderInv, HistoryOK
  <2>4. HistoryOK'
    BY <1>1, <2>1, <2>3 DEF HistoryOK
  <2>5. ASSUME NEW i \in 1..Len(got'), NEW f \in Fields
        PROVE  got'[i].row[f] = IF f \in columnsMapping' /\ rows'[i][f] # "null"
                                THEN rows'[i][f] ELSE got'[i].given[f]
    <3>1. CASE i \in 1..Len(got)
      <4>1. got'[i] = got[i]
        BY <1>3, <3>1 DEF ReaderInv, HistoryOK
      <4> QED BY <1>1, <3>1, <4>1 DEF ReaderInv, RowsAsStored
    <3>2. CASE i = cursor
      <4>1. got'[i] = [given |-> given, row |-> row']
        BY <1>1, <1>3, <3>2 DEF ReaderInv, HistoryOK
      <4> QED BY <1>1, <3>2, <4>1 DEF Filled, Current
    <3> QED BY <1>1, <2>3, <3>1, <3>2
  <2>6. RowsAsStored'
    BY <1>1, <2>1, <2>3, <2>5 DEF RowsAsStored
  <2> QED BY <2>2, <2>4, <2>6 DEF ReaderInv
<1>4. CASE StepFails /\ UNCHANGED got
  <2>1. cursor' = cursor /\ lastResult' = "error" /\ got' = got
    BY <1>4 DEF StepFails
  <2> QED BY <1>1, <1>2, <2>1 DEF ReaderInv, ReaderTypeOK, HistoryOK, RowsAsStored, RowType
<1> QED BY <1>3, <1>4 DEF NextRow

\* So does a next that throws: neither the statement nor the history moves.
LEMMA NextRowThrowsKeeps ==
  ASSUME ReaderInv, NEW given \in RowType, NextRowThrows(given)
  PROVE  ReaderInv'
<1>1. UNCHANGED <<rows, columnsMapping, cursor, lastResult, got>> /\ HasNext
  BY DEF NextRowThrows, ThrowStays
<1>2. row' \in RowType
  <2>1. PICK bad \in BadFields : \E left \in {given[bad], Partial} :
          /\ \A f \in BadFields : bad =< f
          /\ row' = [f \in Fields |-> IF f < bad THEN Filled(given, f)
                                      ELSE IF f = bad THEN left ELSE given[f]]
    BY DEF NextRowThrows
  <2>2. PICK left \in {given[bad], Partial} :
          row' = [f \in Fields |-> IF f < bad THEN Filled(given, f)
                                   ELSE IF f = bad THEN left ELSE given[f]]
    BY <2>1
  <2>3. bad \in Fields
    BY DEF ReaderInv, BadFields, ReaderTypeOK
  <2>4. \A f \in Fields : f < bad => f \notin BadFields
    BY <2>1, <2>3, FieldsAssumption DEF Fields
  <2>5. left \in {"a", "b", NoValue, Partial}
    BY <2>3 DEF RowType
  <2>6. ASSUME NEW f \in Fields
        PROVE  (IF f < bad THEN Filled(given, f) ELSE IF f = bad THEN left ELSE given[f])
                 \in {"a", "b", NoValue, Partial}
    BY <1>1, <2>4, <2>5, FilledType DEF ReaderInv, RowType
  <2> QED BY <2>2, <2>6 DEF RowType
<1> QED BY <1>1, <1>2 DEF ReaderInv, ReaderTypeOK, HistoryOK, RowsAsStored, RowType

\* A new reader starts over.
LEMMA CreateReaderKeeps ==
  ASSUME ReaderInv, CreateReader
  PROVE  ReaderInv'
<1>1. /\ UNCHANGED <<rows, columnsMapping, row>>
      /\ cursor' = 1 /\ got' = <<>>
      /\ lastResult' = IF 1 =< Len(rows) THEN "row" ELSE "done"
      /\ Len(rows) \in Nat
  BY DEF CreateReader, StepTo, ReaderInv, ReaderTypeOK
<1> QED BY <1>1 DEF ReaderInv, ReaderTypeOK, HistoryOK, RowsAsStored

LEMMA ReaderInit_Inv == ReaderInit => ReaderInv
<1> SUFFICES ASSUME ReaderInit PROVE ReaderInv
  OBVIOUS
<1>1. rows \in Seq([Fields -> Stored])
  BY ResultsAssumption DEF ReaderInit
<1>2. rows = <<>> <=> Len(rows) = 0
  BY <1>1
<1>3. row \in RowType
  BY DEF ReaderInit, NewRow, RowType
<1> QED BY <1>1, <1>2, <1>3 DEF ReaderInit, ReaderInv, ReaderTypeOK, HistoryOK, RowsAsStored, RowType

\* What the reader keeps: its types, where it is, and what it has returned.
THEOREM ReaderInvariant == ReaderSpec => []ReaderInv
<1>1. ReaderInv /\ [ReaderNext]_readerVars => ReaderInv'
  <2> SUFFICES ASSUME ReaderInv, [ReaderNext]_readerVars PROVE ReaderInv'
    OBVIOUS
  <2>1. NewRow \in RowType /\ row \in RowType
    BY DEF ReaderInv, ReaderTypeOK, NewRow, RowType
  <2>2. CASE \E given \in {NewRow, row} : NextRow(given)
    BY <2>1, <2>2, NextRowKeeps
  <2>3. CASE \E given \in {NewRow, row} : NextRowThrows(given)
    BY <2>1, <2>3, NextRowThrowsKeeps
  <2>4. CASE CreateReader
    BY <2>4, CreateReaderKeeps
  <2>5. CASE UNCHANGED readerVars
    BY <2>5 DEF readerVars, ReaderInv, ReaderTypeOK, HistoryOK, RowsAsStored
  <2> QED BY <2>2, <2>3, <2>4, <2>5 DEF ReaderNext
<1> QED BY <1>1, ReaderInit_Inv, PTL DEF ReaderSpec

\* The rows of a query are returned as they are stored, in turn, whatever was thrown and
\* caught in between.
THEOREM ReaderRowsAsStored == ReaderSpec => []RowsAsStored
<1>1. ReaderInv => RowsAsStored
  BY DEF ReaderInv
<1> QED BY <1>1, ReaderInvariant, PTL

-------------------------------------------------------------------------------
(* The invariant of the validation.  What the observer was told is of the  *)
(* tables that are done and of the one that is looked at.                  *)

Whats == Faults \cup {"beginTable", "endTable"}
EventType == [what : Whats, table : Nat, row : Nat, column : Nat, answer : BOOLEAN]

\* Phases in which a table is looked at, and its rows.
InTable == at \in {"schema", "step", "types", "values", "endTable"}
InRows == at \in {"step", "types", "values"}

PlaceInv ==
  /\ at # "end" => table =< Len(tables)
  /\ rowIndex \in Nat /\ numberOfValidatedRows \in Nat
  /\ at = "schema" => rowIndex = 0
  /\ InRows => rowIndex =< Len(Found.rows)

EventsInv ==
  /\ events \in Seq(EventType) /\ Range(events) \subseteq EventType
  /\ \A e \in Range(events) :
       e.table =< table /\ (e.table = table => InTable /\ e.what # "endTable")

\* result is FALSE if and only if the observer was told of a fault of the schema, and then
\* there is one.
SchemaInv ==
  /\ at = "schema" =>
       /\ continueTableValidation
       /\ \A e \in Reports(table) : e.row = 0
       /\ superfluous =< Found.superfluous
       /\ result => /\ continueSchema /\ kept = {} /\ superfluous = Found.superfluous
                    /\ \A c \in 1..(column - 1) : Found.columns[c] = "ok"
       /\ ~result => Reports(table) # {} /\ ~SchemaIsOk(table)
  /\ at = "endTable" /\ ~SchemaIsOk(table) => \E e \in Reports(table) : e.row = 0

\* Where the validation can be after an answer of FALSE.
StopInv ==
  \A e \in Range(events) :
    /\ e.table = table /\ e.what \in Faults \ {"cellType"} /\ ~e.answer
         => \/ at = "schema" /\ column > 1 /\ ~continueSchema /\ ~result
            \/ at = "step" /\ ~continueTableValidation
            \/ at = "endTable"
    /\ e.what = "endTable" /\ ~e.answer => at \in {"table", "end"} /\ ~continueValidation

\* An observer that wants to see everything, and what it was told of the first n rows.
Heard(t) == \A e \in Reports(t) : e.answer
ReportedOf(t, r) == {e.column : e \in {f \in Reports(t) : f.row = r}}
RowsReported(t, n) == \A r \in 1..n : ReportedOf(t, r) = FaultOf(t, r)

\* The rows up to the current one are reported as they are to be, and of the current one
\* nothing is reported as long as it is looked at.
RowsInv ==
  /\ at = "step" =>
       /\ \A e \in Reports(table) : e.row =< rowIndex
       /\ Heard(table) => continueTableValidation /\ RowsReported(table, rowIndex)
  /\ at \in {"types", "values"} =>
       /\ \A e \in Reports(table) : e.row < rowIndex
       /\ Heard(table) => continueTableValidation /\ RowsReported(table, rowIndex - 1)
  /\ at = "types" => \A c \in 1..(column - 1) : Cell(c) # "type"
  /\ at = "values" =>
       /\ \A c \in 1..Width : Cell(c) # "type"
       /\ \A c \in 1..(column - 1) :
            Columns[c] # "templated" /\ Cell(c) \notin {"value", "length"}
  /\ at = "endTable" /\ SchemaIsOk(table) /\ Heard(table)
       => RowsReported(table, Len(Found.rows))

ValidationInv ==
  /\ ValidationTypeOK /\ PlaceInv /\ EventsInv
  /\ SchemaInv /\ BadSchemaReported
  /\ StopInv /\ AnswerObeyed
  /\ RowsInv /\ EveryFaultReported

-------------------------------------------------------------------------------
(* What an event and a step without one do to what was told.               *)

\* What is told is added to what was told.
LEMMA Told ==
  ASSUME EventsInv, ValidationTypeOK, NEW what \in Whats, NEW r \in Nat, NEW c \in Nat,
         NEW answer \in BOOLEAN, Tell(what, r, c, answer),
         NEW told, told = [what |-> what, table |-> table, row |-> r, column |-> c,
                           answer |-> answer]
  PROVE  /\ events' \in Seq(EventType)
         /\ Len(events') = Len(events) + 1
         /\ events'[Len(events) + 1] = told
         /\ \A i \in 1..Len(events) : events'[i] = events[i]
         /\ Range(events') = Range(events) \cup {told}
<1>1. events \in Seq(EventType) /\ events' = Append(events, told)
  BY DEF EventsInv, Tell
<1>2. told \in EventType
  BY DEF EventType, ValidationTypeOK
<1>3. /\ events' \in Seq(EventType)
      /\ Len(events') = Len(events) + 1
      /\ events'[Len(events) + 1] = told
      /\ \A i \in 1..Len(events) : events'[i] = events[i]
  BY <1>1, <1>2
<1>4. DOMAIN events' = 1..Len(events) \cup {Len(events) + 1} /\ DOMAIN events = 1..Len(events)
  BY <1>1, <1>3
<1> QED BY <1>3, <1>4 DEF Range

\* What is to be reported depends on the tables only.
LEMMA FaultsStay ==
  ASSUME tables' = tables
  PROVE  \A t, r : FaultOf(t, r)' = FaultOf(t, r)
BY DEF FaultOf

\* Without an event nothing changes for the tables that are done, nor for the current one.
LEMMA NothingTold ==
  ASSUME UNCHANGED <<tables, events>>
  PROVE  /\ \A t : /\ Reports(t)' = Reports(t)
                   /\ Heard(t)' <=> Heard(t)
                   /\ SchemaIsOk(t)' <=> SchemaIsOk(t)
                   /\ Ended(t)' <=> Ended(t)
         /\ \A t, n : RowsReported(t, n)' <=> RowsReported(t, n)
         /\ EveryFaultReported' <=> EveryFaultReported
<1>1. \A t : /\ Reports(t)' = Reports(t)
             /\ SchemaIsOk(t)' <=> SchemaIsOk(t)
             /\ Ended(t)' <=> Ended(t)
  BY DEF Reports, SchemaIsOk, Ended
<1>2. \A t : Heard(t)' <=> Heard(t)
  BY <1>1 DEF Heard
<1>3. \A t, r : ReportedOf(t, r)' = ReportedOf(t, r)
  BY <1>1 DEF ReportedOf
<1>4. \A t, n : RowsReported(t, n)' <=> RowsReported(t, n)
  BY <1>3, FaultsStay DEF RowsReported
<1>5. EveryFaultReported' <=> EveryFaultReported
  BY <1>1, <1>2, <1>3, FaultsStay DEF EveryFaultReported, Heard, ReportedOf
<1> QED BY <1>1, <1>2, <1>4, <1>5

\* The same for the table that is looked at.
LEMMA NothingToldHere ==
  ASSUME UNCHANGED <<tables, events, table>>
  PROVE  /\ Reports(table)' = Reports(table)
         /\ Heard(table)' <=> Heard(table)
         /\ SchemaIsOk(table)' <=> SchemaIsOk(table)
         /\ \A n : RowsReported(table, n)' <=> RowsReported(table, n)
<1>1. /\ Reports(table)' = Reports(table)
      /\ SchemaIsOk(table)' <=> SchemaIsOk(table)
  BY DEF Reports, SchemaIsOk
<1>2. Heard(table)' <=> Heard(table)
  BY <1>1 DEF Heard
<1>3. \A r : ReportedOf(table, r)' = ReportedOf(table, r)
  BY <1>1 DEF ReportedOf
<1>4. \A r : FaultOf(table, r)' = FaultOf(table, r)
  BY DEF FaultOf
<1>5. \A n : RowsReported(table, n)' <=> RowsReported(table, n)
  BY <1>3, <1>4 DEF RowsReported
<1> QED BY <1>1, <1>2, <1>5

\* The tables that are found, and what is known of the one that is looked at.
LEMMA FoundTypes ==
  ASSUME ValidationTypeOK, PlaceInv, at # "end"
  PROVE  /\ Found \in FoundTables /\ table \in 1..Len(tables)
         /\ Found.columns \in [1..Width -> ColumnStates] /\ Found.superfluous \in Nat
         /\ Found.rows \in Seq([1..Width -> Cells]) /\ Width \in Nat \ {0}
<1>1. Width \in Nat \ {0}
  BY ColumnsAssumption DEF Width
<1>2. table \in 1..Len(tables) /\ tables \in Seq(FoundTables)
  BY DEF ValidationTypeOK, PlaceInv
<1>3. Found \in FoundTables
  BY <1>2 DEF Found
<1> QED BY <1>1, <1>2, <1>3 DEF FoundTables

\* A table is skipped.
LEMMA SkipTableKeeps ==
  ASSUME ValidationInv, SkipTable
  PROVE  ValidationInv'
<1>1. /\ at = "table" /\ at' \in {"table", "end"} /\ table' = table + 1
      /\ at' = "table" => table < Len(tables)
      /\ UNCHANGED <<tables, rowIndex, column, superfluous, kept, result, continueSchema,
                     continueTableValidation, continueValidation, numberOfValidatedRows,
                     numberOfValidatedTables, events>>
      /\ table \in 1..Len(tables) /\ Len(tables) \in Nat
  BY FoundTypes DEF SkipTable, NextTable, ValidationInv, ValidationTypeOK
<1>2. ValidationTypeOK'
  BY <1>1 DEF ValidationInv, ValidationTypeOK, Ended
<1>3. PlaceInv'
  BY <1>1 DEF ValidationInv, PlaceInv, InRows
<1>4. EventsInv'
  BY <1>1 DEF ValidationInv, EventsInv, EventType, InTable
<1>5. SchemaInv' /\ BadSchemaReported'
  BY <1>1 DEF ValidationInv, SchemaInv, BadSchemaReported, Reports, Ended, SchemaIsOk
<1>6. StopInv' /\ AnswerObeyed'
  BY <1>1 DEF ValidationInv, StopInv, AnswerObeyed, EventsInv, StopsTableAfter
<1>7. RowsInv' /\ EveryFaultReported'
  BY <1>1, NothingTold DEF ValidationInv, RowsInv
<1> QED BY <1>2, <1>3, <1>4, <1>5, <1>6, <1>7 DEF ValidationInv

\* numberOfRows throws.
LEMMA BeginTableThrowsKeeps ==
  ASSUME ValidationInv, BeginTableThrows
  PROVE  ValidationInv'
<1>1. /\ at = "table" /\ at' = "thrown"
      /\ UNCHANGED <<tables, table, rowIndex, column, superfluous, kept, result,
                     continueSchema, continueTableValidation, continueValidation,
                     numberOfValidatedRows, numberOfValidatedTables, events>>
      /\ continueValidation
  BY DEF BeginTableThrows
<1>2. ValidationTypeOK'
  BY <1>1 DEF ValidationInv, ValidationTypeOK, Ended
<1>3. PlaceInv' /\ EventsInv'
  BY <1>1 DEF ValidationInv, PlaceInv, InRows, EventsInv, InTable
<1>4. SchemaInv' /\ BadSchemaReported'
  BY <1>1 DEF ValidationInv, SchemaInv, BadSchemaReported, Reports, Ended, SchemaIsOk
<1>5. StopInv' /\ AnswerObeyed'
  BY <1>1 DEF ValidationInv, StopInv, AnswerObeyed, EventsInv, InTable, StopsTableAfter
<1>6. RowsInv' /\ EveryFaultReported'
  BY <1>1, NothingTold DEF ValidationInv, RowsInv
<1> QED BY <1>2, <1>3, <1>4, <1>5, <1>6 DEF ValidationInv

\* All columns are compared: what result is then is whether the schema is as it should be.
LEMMA SchemaJudged ==
  ASSUME ValidationInv, EndSchema
  PROVE  /\ SchemaResult <=> SchemaIsOk(table)
         /\ ~SchemaResult => \E e \in Reports(table) : e.row = 0
<1>1. /\ at = "schema" /\ column > Width /\ (~continueSchema \/ superfluous = 0)
      /\ result \in BOOLEAN
      /\ column =< Width + 1 /\ column \in Nat
  BY ColumnsAssumption DEF EndSchema, ValidationInv, ValidationTypeOK, Width
<1>2. /\ Found.columns \in [1..Width -> ColumnStates] /\ Width \in Nat \ {0}
      /\ Found = tables[table]
  BY <1>1, FoundTypes DEF ValidationInv, Found
<1>3. CASE result
  <2>1. kept = {} /\ superfluous = 0 /\ Found.superfluous = 0
    BY <1>1, <1>3 DEF ValidationInv, SchemaInv
  <2>2. \A c \in 1..Width : Found.columns[c] = "ok"
    BY <1>1, <1>2, <1>3 DEF ValidationInv, SchemaInv
  <2>3. Range(Found.columns) = {"ok"}
    BY <1>2, <2>2 DEF Range
  <2> QED BY <1>2, <1>3, <2>1, <2>3 DEF SchemaResult, SchemaIsOk
<1>4. CASE ~result
  BY <1>1, <1>4 DEF ValidationInv, SchemaInv, SchemaResult
<1> QED BY <1>1, <1>3, <1>4

\* The schema is done.
LEMMA EndSchemaKeeps ==
  ASSUME ValidationInv, EndSchema
  PROVE  ValidationInv'
<1>1. /\ at = "schema" /\ column > Width /\ (~continueSchema \/ superfluous = 0)
      /\ SchemaResult => at' = "step"
      /\ ~SchemaResult => at' = "endTable"
      /\ result' = SchemaResult /\ SchemaResult \in BOOLEAN
      /\ UNCHANGED <<tables, table, rowIndex, column, superfluous, kept, continueSchema,
                     continueTableValidation, continueValidation, numberOfValidatedRows,
                     numberOfValidatedTables, events>>
  BY DEF EndSchema, AfterSchema, SchemaResult, ValidationInv, ValidationTypeOK
<1>2. /\ SchemaResult <=> SchemaIsOk(table)
      /\ ~SchemaResult => \E e \in Reports(table) : e.row = 0
  BY SchemaJudged
<1>3. ValidationTypeOK'
  BY <1>1 DEF ValidationInv, ValidationTypeOK, Ended
<1>4. PlaceInv' /\ EventsInv'
  BY <1>1 DEF ValidationInv, PlaceInv, InRows, EventsInv, InTable
<1>5. SchemaInv' /\ BadSchemaReported'
  BY <1>1, <1>2 DEF ValidationInv, SchemaInv, BadSchemaReported, Reports, Ended, SchemaIsOk
<1>6. StopInv' /\ AnswerObeyed'
  <2>1. ~result => ~SchemaResult
    BY DEF SchemaResult
  <2> QED BY <2>1, <1>1 DEF ValidationInv, StopInv, AnswerObeyed, EventsInv, InTable, StopsTableAfter
<1>7. RowsInv'
  <2>1. rowIndex = 0 /\ RowsReported(table, rowIndex)
    BY <1>1 DEF ValidationInv, PlaceInv, RowsReported
  <2>2. (\A e \in Reports(table) : e.row = 0) /\ continueTableValidation
    BY <1>1 DEF ValidationInv, SchemaInv
  <2> QED BY <1>1, <1>2, <2>1, <2>2, NothingToldHere DEF RowsInv
<1>8. EveryFaultReported'
  BY <1>1, NothingTold DEF ValidationInv
<1> QED BY <1>3, <1>4, <1>5, <1>6, <1>7, <1>8 DEF ValidationInv

\* The next row, or the end of the table.
LEMMA StepKeeps ==
  ASSUME ValidationInv, Step
  PROVE  ValidationInv'
<1>1. /\ at = "step"
      /\ UNCHANGED <<tables, table, superfluous, kept, result, continueSchema,
                     continueTableValidation, continueValidation, numberOfValidatedTables,
                     events>>
      /\ table \in 1..Len(tables) /\ Found.rows \in Seq([1..Width -> Cells])
      /\ Width \in Nat \ {0} /\ Found = tables[table]
      /\ rowIndex \in Nat /\ rowIndex =< Len(Found.rows)
  BY FoundTypes DEF Step, ValidationInv, PlaceInv, InRows, Found
<1>2. CASE rowIndex < Len(Found.rows) /\ continueTableValidation
  <2>1. /\ at' = "types" /\ rowIndex' = rowIndex + 1 /\ column' = 1
        /\ numberOfValidatedRows' = numberOfValidatedRows + 1
    BY <1>2 DEF Step
  <2>2. ValidationTypeOK'
    BY <1>1, <1>2, <2>1 DEF ValidationInv, ValidationTypeOK, PlaceInv, Ended, Found
  <2>3. PlaceInv' /\ EventsInv'
    BY <1>1, <1>2, <2>1 DEF ValidationInv, PlaceInv, InRows, EventsInv, InTable, Found
  <2>4. SchemaInv' /\ BadSchemaReported'
    BY <1>1, <2>1 DEF ValidationInv, SchemaInv, BadSchemaReported, Reports, Ended, SchemaIsOk
  <2>5. StopInv' /\ AnswerObeyed'
    BY <1>1, <1>2, <2>1 DEF ValidationInv, StopInv, AnswerObeyed, EventsInv, InTable, StopsTableAfter
  <2>6. RowsInv'
    <3>1. (\A e \in Reports(table) : e.row < rowIndex') /\ rowIndex' - 1 = rowIndex
      <4>1. \A e \in Reports(table) : e.row =< rowIndex /\ e.row \in Nat
        BY <1>1 DEF ValidationInv, RowsInv, EventsInv, EventType, Reports
      <4> QED BY <1>1, <2>1, <4>1
    <3>2. Heard(table) => continueTableValidation /\ RowsReported(table, rowIndex)
      BY <1>1 DEF ValidationInv, RowsInv
    <3> QED BY <1>1, <2>1, <3>1, <3>2, NothingToldHere DEF RowsInv
  <2>7. EveryFaultReported'
    BY <1>1, NothingTold DEF ValidationInv
  <2> QED BY <2>2, <2>3, <2>4, <2>5, <2>6, <2>7 DEF ValidationInv
<1>3. CASE ~(rowIndex < Len(Found.rows) /\ continueTableValidation)
  <2>1. at' = "endTable" /\ UNCHANGED <<rowIndex, column, numberOfValidatedRows>>
    BY <1>3 DEF Step
  <2>2. ValidationTypeOK'
    BY <1>1, <2>1 DEF ValidationInv, ValidationTypeOK, Ended
  <2>3. PlaceInv' /\ EventsInv'
    BY <1>1, <2>1 DEF ValidationInv, PlaceInv, InRows, EventsInv, InTable
  <2>4. SchemaInv' /\ BadSchemaReported'
    BY <1>1, <2>1 DEF ValidationInv, SchemaInv, BadSchemaReported, Reports, Ended, SchemaIsOk
  <2>5. StopInv' /\ AnswerObeyed'
    BY <1>1, <2>1 DEF ValidationInv, StopInv, AnswerObeyed, EventsInv, InTable, StopsTableAfter
  <2>6. Heard(table) => RowsReported(table, Len(Found.rows))
    <3> SUFFICES ASSUME Heard(table) PROVE RowsReported(table, Len(Found.rows))
      OBVIOUS
    <3>1. continueTableValidation /\ RowsReported(table, rowIndex)
      BY <1>1 DEF ValidationInv, RowsInv
    <3>2. rowIndex = Len(Found.rows)
      BY <1>1, <1>3, <3>1
    <3> QED BY <3>1, <3>2
  <2>7. RowsInv'
    BY <1>1, <2>1, <2>6, NothingToldHere DEF RowsInv, Found
  <2>8. EveryFaultReported'
    BY <1>1, NothingTold DEF ValidationInv
  <2> QED BY <2>2, <2>3, <2>4, <2>5, <2>7, <2>8 DEF ValidationInv
<1> QED BY <1>2, <1>3

-------------------------------------------------------------------------------
(* The steps that tell the observer something.                             *)

\* The answers are obeyed behind one more event, if none was FALSE that forbids it.
LEMMA StillObeyed ==
  ASSUME EventsInv, ValidationTypeOK, AnswerObeyed,
         NEW what \in Whats, NEW r \in Nat, NEW c \in Nat, NEW answer \in BOOLEAN,
         Tell(what, r, c, answer),
         \A e \in Range(events) : e.what = "endTable" => e.answer,
         what \in Faults =>
           \A e \in Range(events) : e.table = table /\ e.what \in Faults \ {"cellType"} => e.answer
  PROVE  AnswerObeyed'
<1> DEFINE told == [what |-> what, table |-> table, row |-> r, column |-> c, answer |-> answer]
<1>1. /\ Len(events') = Len(events) + 1 /\ Len(events) \in Nat
      /\ events'[Len(events) + 1] = told
      /\ \A i \in 1..Len(events) : events'[i] = events[i] /\ events[i] \in Range(events)
  BY Told DEF EventsInv, Range
<1>2. told.what = what /\ told.table = table
  OBVIOUS
<1> HIDE DEF told
<1>3. ASSUME NEW i \in 1..Len(events'), NEW j \in 1..Len(events'), i < j,
             events'[i].what \in Faults \ {"cellType"}, ~events'[i].answer
      PROVE  events'[j].what \notin Faults \/ events'[j].table # events'[i].table
  <2>1. i \in 1..Len(events) /\ events'[i] = events[i] /\ events[i] \in Range(events)
    BY <1>1, <1>3
  <2>2. CASE j \in 1..Len(events)
    BY <1>1, <1>3, <2>1, <2>2 DEF AnswerObeyed, StopsTableAfter
  <2>3. CASE j = Len(events) + 1
    BY <1>1, <1>2, <1>3, <2>1, <2>3
  <2> QED BY <1>1, <2>2, <2>3
<1>4. ASSUME NEW i \in 1..Len(events'), events'[i].what = "endTable", ~events'[i].answer
      PROVE  i = Len(events')
  BY <1>1, <1>4
<1> QED BY <1>3, <1>4 DEF AnswerObeyed, StopsTableAfter

\* What a fault that is told does not change: what is known of the other tables.
LEMMA FaultTold ==
  ASSUME EventsInv, ValidationTypeOK, InTable, BadSchemaReported, EveryFaultReported,
         UNCHANGED <<tables, table>>, InTable',
         NEW what \in Faults, NEW r \in Nat, NEW c \in Nat, NEW answer \in BOOLEAN,
         Tell(what, r, c, answer)
  PROVE  /\ EventsInv'
         /\ \A t : Ended(t)' <=> Ended(t)
         /\ EveryFaultReported'
         /\ (\A t \in 1..Len(tables) :
               Ended(t) /\ ~SchemaIsOk(t) => \E e \in Reports(t) : e.row = 0)'
<1>0. PICK told : told = [what |-> what, table |-> table, row |-> r, column |-> c,
                          answer |-> answer]
  OBVIOUS
<1>1. /\ events' \in Seq(EventType)
      /\ Range(events') = Range(events) \cup {told}
  BY <1>0, Told DEF Whats
<1>2. told.what = what /\ told.table = table /\ told \in EventType
  BY <1>0 DEF EventType, Whats, ValidationTypeOK
<1>3. "endTable" \notin Faults
  BY DEF Faults
<1>4. EventsInv'
  BY <1>1, <1>2, <1>3 DEF EventsInv, ValidationTypeOK
<1>5. \A t : Ended(t)' <=> Ended(t)
  BY <1>1, <1>2, <1>3 DEF Ended
<1>6. \A t : Ended(t) => t # table
  BY DEF EventsInv, Ended
<1>7. \A t : t # table => Reports(t)' = Reports(t)
  BY <1>1, <1>2 DEF Reports
<1>8. \A t : SchemaIsOk(t)' <=> SchemaIsOk(t)
  BY DEF SchemaIsOk
<1>9. EveryFaultReported'
  BY <1>5, <1>6, <1>7, <1>8, FaultsStay DEF EveryFaultReported
<1>10. (\A t \in 1..Len(tables) :
          Ended(t) /\ ~SchemaIsOk(t) => \E e \in Reports(t) : e.row = 0)'
  BY <1>5, <1>6, <1>7, <1>8 DEF BadSchemaReported
<1> QED BY <1>4, <1>5, <1>9, <1>10

\* What it does change: what is reported of the current table.
LEMMA FaultToldHere ==
  ASSUME EventsInv, ValidationTypeOK, UNCHANGED <<tables, table>>,
         NEW what \in Faults, NEW r \in Nat, NEW c \in Nat, NEW answer \in BOOLEAN,
         Tell(what, r, c, answer),
         NEW told, told = [what |-> what, table |-> table, row |-> r, column |-> c,
                           answer |-> answer]
  PROVE  /\ Reports(table)' = Reports(table) \cup {told}
         /\ SchemaIsOk(table)' <=> SchemaIsOk(table)
         /\ Heard(table)' <=> Heard(table) /\ answer
         /\ \A n \in Nat : n < r => (RowsReported(table, n)' <=> RowsReported(table, n))
         /\ (\A e \in Reports(table) : e.row < r) => ReportedOf(table, r)' = {c}
<1>1. Range(events') = Range(events) \cup {told} /\ Range(events) \subseteq EventType
  BY Told DEF Whats, EventsInv
<1>2. told.what = what /\ told.table = table /\ told.row = r /\ told.column = c
      /\ told.answer = answer
  OBVIOUS
<1>3. Reports(table)' = Reports(table) \cup {told}
  BY <1>1, <1>2 DEF Reports
<1>4. SchemaIsOk(table)' <=> SchemaIsOk(table)
  BY DEF SchemaIsOk
<1>5. Heard(table)' <=> Heard(table) /\ answer
  BY <1>2, <1>3 DEF Heard
<1>6. \A q \in Nat : q # r => ReportedOf(table, q)' = ReportedOf(table, q)
  BY <1>2, <1>3 DEF ReportedOf
<1>7. \A q : FaultOf(table, q)' = FaultOf(table, q)
  BY DEF FaultOf
<1>8. ASSUME NEW n \in Nat, n < r PROVE RowsReported(table, n)' <=> RowsReported(table, n)
  <2>1. \A q \in 1..n : q \in Nat /\ q # r
    BY <1>8
  <2> QED BY <1>6, <1>7, <2>1 DEF RowsReported
<1>9. ASSUME \A e \in Reports(table) : e.row < r PROVE ReportedOf(table, r)' = {c}
  <2>1. \A e \in Reports(table) : e.row # r
    BY <1>9
  <2>2. {f \in Reports(table)' : f.row = r} = {told}
    BY <1>2, <1>3, <2>1
  <2> QED BY <1>2, <2>2 DEF ReportedOf
<1> QED BY <1>3, <1>4, <1>5, <1>8, <1>9

\* The fault of a row that has a cell of another type: the first of them.
LEMMA FaultOfTypes ==
  ASSUME NEW t, NEW r, tables[t].rows[r] \in [1..Width -> Cells], Width \in Nat,
         NEW c \in 1..Width, tables[t].rows[r][c] = "type",
         \A d \in 1..(c - 1) : tables[t].rows[r][d] # "type"
  PROVE  FaultOf(t, r) = {c}
<1> DEFINE cells == tables[t].rows[r]
<1>1. "type" \in Range(cells)
  BY DEF Range
<1>2. \A d \in 1..Width :
        cells[d] \in {"type"} /\ (\A b \in 1..(d - 1) : cells[b] \notin {"type"}) <=> d = c
  <2> TAKE d \in 1..Width
  <2>1. CASE d < c
    BY <2>1
  <2>2. CASE d = c
    BY <2>2
  <2>3. CASE d > c
    <3>1. c \in 1..(d - 1)
      BY <2>3
    <3> QED BY <2>3, <3>1
  <2> QED BY <2>1, <2>2, <2>3
<1> QED BY <1>1, <1>2 DEF FaultOf

\* The fault of a row that has none: its first cell with a fault in front of the first
\* templated field.
LEMMA FaultOfValues ==
  ASSUME NEW t, NEW r, tables[t].rows[r] \in [1..Width -> Cells], Width \in Nat,
         \A d \in 1..Width : tables[t].rows[r][d] # "type",
         NEW c \in 1..Width,
         \A d \in 1..(c - 1) : /\ Columns[d] # "templated"
                              /\ tables[t].rows[r][d] \notin {"value", "length"}
  PROVE  /\ Columns[c] # "templated" /\ tables[t].rows[r][c] \in {"value", "length"}
              => FaultOf(t, r) = {c}
         /\ Columns[c] = "templated" => FaultOf(t, r) = {}
         /\ c = Width /\ tables[t].rows[r][c] \notin {"value", "length"} => FaultOf(t, r) = {}
<1> DEFINE cells == tables[t].rows[r]
           First(d) == /\ d \in Examined /\ cells[d] \in {"value", "length"}
                       /\ \A b \in 1..(d - 1) : cells[b] \notin {"value", "length"}
<1>1. "type" \notin Range(cells)
  BY DEF Range
<1>2. FaultOf(t, r) = {d \in Examined : First(d)}
  BY <1>1 DEF FaultOf
<1>3. \A d \in Examined : d \in 1..Width /\ \A b \in 1..d : Columns[b] # "templated"
  BY DEF Examined
<1>4. \A d \in 1..Width : First(d) => d >= c
  <2> TAKE d \in 1..Width
  <2> SUFFICES ASSUME d < c, First(d) PROVE FALSE
    OBVIOUS
  <2>1. d \in 1..(c - 1)
    OBVIOUS
  <2> QED BY <2>1
<1>5. CASE Columns[c] # "templated" /\ cells[c] \in {"value", "length"}
  <2>1. c \in Examined
    <3>1. \A b \in 1..c : b = c \/ b \in 1..(c - 1)
      OBVIOUS
    <3> QED BY <1>5, <3>1 DEF Examined
  <2>2. First(c)
    BY <1>5, <2>1
  <2>3. \A d \in 1..Width : First(d) => d = c
    <3> TAKE d \in 1..Width
    <3> SUFFICES ASSUME d > c, First(d) PROVE FALSE
      BY <1>4
    <3>1. c \in 1..(d - 1)
      OBVIOUS
    <3> QED BY <1>5, <3>1
  <2> HIDE DEF First
  <2> QED BY <1>2, <1>3, <1>5, <2>1, <2>2, <2>3
<1>6. CASE Columns[c] = "templated"
  <2>1. \A d \in Examined : d < c
    <3> SUFFICES ASSUME NEW d \in Examined, d >= c PROVE FALSE
      BY <1>3
    <3>1. c \in 1..d
      BY <1>3
    <3> QED BY <1>3, <1>6, <3>1
  <2>2. \A d \in Examined : ~First(d)
    <3> HIDE DEF First
    <3> QED BY <1>3, <1>4, <2>1
  <2> HIDE DEF First
  <2> QED BY <1>2, <1>6, <2>2
<1>7. CASE c = Width /\ cells[c] \notin {"value", "length"}
  <2>1. \A d \in Examined : ~First(d)
    <3> SUFFICES ASSUME NEW d \in Examined, First(d) PROVE FALSE
      OBVIOUS
    <3>1. d = c
      BY <1>3, <1>4, <1>7
    <3> QED BY <1>7, <3>1
  <2>2. FaultOf(t, r) = {}
    <3> HIDE DEF First
    <3> QED BY <1>2, <2>1
  <2> QED BY <1>7, <2>2
<1> QED BY <1>5, <1>6, <1>7

\* beginTable is told, and the table is looked at or left out.
LEMMA BeginTableKeeps ==
  ASSUME ValidationInv, NEW answer \in BOOLEAN, BeginTable(answer)
  PROVE  ValidationInv'
<1>0. PICK told : told = [what |-> "beginTable", table |-> table, row |-> 0, column |-> 0,
                          answer |-> answer]
  OBVIOUS
<1>1. /\ at = "table" /\ continueValidation' /\ continueValidation
      /\ Tell("beginTable", 0, 0, answer)
      /\ answer => at' = "schema" /\ table' = table
      /\ ~answer => /\ at' \in {"table", "end"} /\ table' = table + 1
                    /\ at' = "table" => table < Len(tables)
      /\ rowIndex' = 0 /\ column' = 1 /\ superfluous' = Found.superfluous /\ kept' = {}
      /\ result' = TRUE /\ continueSchema' = TRUE /\ continueTableValidation' = TRUE
      /\ numberOfValidatedRows' = 0
      /\ UNCHANGED <<tables, numberOfValidatedTables>>
      /\ table \in 1..Len(tables) /\ Len(tables) \in Nat
      /\ Found.superfluous \in Nat /\ Width \in Nat \ {0}
      /\ Found = tables[table]
  BY FoundTypes DEF BeginTable, NextTable, ValidationInv, ValidationTypeOK, Found
<1>2. /\ events' \in Seq(EventType) /\ Range(events') \subseteq EventType
      /\ Range(events') = Range(events) \cup {told}
      /\ told.what = "beginTable" /\ told.table = table
  <2>1. "beginTable" \in Whats
    BY DEF Whats
  <2>2. EventsInv /\ ValidationTypeOK
    BY DEF ValidationInv
  <2>3. /\ events' \in Seq(EventType) /\ Range(events') = Range(events) \cup {told}
    BY <1>0, <1>1, <2>1, <2>2, Told
  <2>4. told \in EventType
    BY <1>0, <1>1, <2>1 DEF EventType
  <2> QED BY <1>0, <2>3, <2>4 DEF ValidationInv, EventsInv
<1>3. "beginTable" \notin Faults
  BY DEF Faults
<1>4. /\ \A t : Ended(t)' <=> Ended(t)
      /\ \A t : Reports(t)' = Reports(t)
      /\ \A t : SchemaIsOk(t)' <=> SchemaIsOk(t)
  BY <1>1, <1>2, <1>3 DEF Ended, Reports, SchemaIsOk
<1>5. ValidationTypeOK'
  <2>1. {t \in 1..Len(tables) : Ended(t)}' = {t \in 1..Len(tables) : Ended(t)}
    BY <1>1, <1>4
  <2>2. numberOfValidatedTables' = Cardinality({t \in 1..Len(tables) : Ended(t)})'
    BY <1>1, <2>1 DEF ValidationInv, ValidationTypeOK
  <2>3. table' \in 1..(Len(tables) + 1)
    BY <1>1
  <2> QED BY <1>1, <2>2, <2>3 DEF ValidationInv, ValidationTypeOK
<1>6. PlaceInv'
  BY <1>1 DEF PlaceInv, InRows
<1>7. EventsInv'
  BY <1>1, <1>2 DEF ValidationInv, EventsInv, EventType, InTable
<1>8. SchemaInv' /\ BadSchemaReported'
  <2>1. answer => Reports(table)' = {} /\ Found' = Found
    BY <1>1, <1>2, <1>3 DEF ValidationInv, EventsInv, Reports, InTable, Found
  <2>2. SchemaInv'
    BY <1>1, <2>1 DEF SchemaInv
  <2>3. BadSchemaReported'
    BY <1>1, <1>4 DEF ValidationInv, BadSchemaReported
  <2> QED BY <2>2, <2>3
<1>9. StopInv' /\ AnswerObeyed'
  <2>1. \A e \in Range(events) : e.what = "endTable" => e.answer
    BY <1>1 DEF ValidationInv, StopInv
  <2>2. AnswerObeyed'
    <3>1. "beginTable" \in Whats
      BY DEF Whats
    <3> QED BY <1>1, <1>3, <2>1, <3>1, StillObeyed DEF ValidationInv
  <2>3. \A e \in Range(events) : e.table < table /\ e.table \in Nat
    BY <1>1 DEF ValidationInv, EventsInv, InTable, EventType, ValidationTypeOK
  <2>4. StopInv'
    BY <1>1, <1>2, <1>3, <2>1, <2>3 DEF StopInv
  <2> QED BY <2>2, <2>4
<1>10. RowsInv'
  BY <1>1 DEF RowsInv
<1>11. EveryFaultReported'
  BY <1>1, <1>4, FaultsStay DEF ValidationInv, EveryFaultReported
<1> QED BY <1>5, <1>6, <1>7, <1>8, <1>9, <1>10, <1>11 DEF ValidationInv

\* endTable is told: the table is done.
LEMMA EndTableKeeps ==
  ASSUME ValidationInv, NEW answer \in BOOLEAN, EndTable(answer)
  PROVE  ValidationInv'
<1>0. PICK told : told = [what |-> "endTable", table |-> table, row |-> numberOfValidatedRows,
                          column |-> 0, answer |-> answer]
  OBVIOUS
<1>1. /\ at = "endTable" /\ at' \in {"table", "end"} /\ table' = table + 1
      /\ at' = "table" => table < Len(tables)
      /\ Tell("endTable", numberOfValidatedRows, 0, answer)
      /\ continueValidation' = answer
      /\ numberOfValidatedTables' = numberOfValidatedTables + 1
      /\ UNCHANGED <<tables, rowIndex, column, superfluous, kept, result, continueSchema,
                     continueTableValidation, numberOfValidatedRows>>
      /\ table \in 1..Len(tables) /\ Len(tables) \in Nat
      /\ numberOfValidatedRows \in Nat
      /\ Found = tables[table]
  BY FoundTypes DEF EndTable, NextTable, ValidationInv, ValidationTypeOK, Found, PlaceInv
<1>2. /\ events' \in Seq(EventType) /\ Range(events') \subseteq EventType
      /\ Range(events') = Range(events) \cup {told}
      /\ told.what = "endTable" /\ told.table = table /\ told.answer = answer
  <2>1. "endTable" \in Whats
    BY DEF Whats
  <2>2. EventsInv /\ ValidationTypeOK
    BY DEF ValidationInv
  <2>3. /\ events' \in Seq(EventType) /\ Range(events') = Range(events) \cup {told}
    BY <1>0, <1>1, <2>1, <2>2, Told
  <2>4. told \in EventType
    BY <1>0, <1>1, <2>1 DEF EventType
  <2> QED BY <1>0, <2>3, <2>4 DEF ValidationInv, EventsInv
<1>3. "endTable" \notin Faults
  BY DEF Faults
<1>4. /\ \A t : Ended(t)' <=> Ended(t) \/ t = table
      /\ \A t : Reports(t)' = Reports(t)
      /\ \A t : SchemaIsOk(t)' <=> SchemaIsOk(t)
      /\ ~Ended(table)
  BY <1>1, <1>2, <1>3 DEF Ended, Reports, SchemaIsOk, ValidationInv, EventsInv
<1>5. ValidationTypeOK'
  <2> DEFINE Done == {t \in 1..Len(tables) : Ended(t)}
  <2>1. IsFiniteSet(Done)
    <3>1. IsFiniteSet(1..Len(tables))
      BY <1>1, FS_Interval
    <3> QED BY <3>1, FS_Subset
  <2>2. table \notin Done /\ {t \in 1..Len(tables) : Ended(t)}' = Done \cup {table}
    BY <1>1, <1>4
  <2>3. Cardinality(Done \cup {table}) = Cardinality(Done) + 1
    BY <2>1, <2>2, FS_AddElement
  <2>4. /\ numberOfValidatedTables = Cardinality(Done)
        /\ table' \in 1..(Len(tables) + 1)
    BY <1>1 DEF ValidationInv, ValidationTypeOK
  <2>5. numberOfValidatedTables' = Cardinality({t \in 1..Len(tables) : Ended(t)})'
    BY <1>1, <2>2, <2>3, <2>4
  <2> HIDE DEF Done
  <2> QED BY <1>1, <2>4, <2>5 DEF ValidationInv, ValidationTypeOK
<1>6. PlaceInv'
  BY <1>1 DEF ValidationInv, PlaceInv, InRows
<1>7. EventsInv'
  BY <1>1, <1>2 DEF ValidationInv, EventsInv, EventType, InTable
<1>8. SchemaInv' /\ BadSchemaReported'
  <2>1. ~SchemaIsOk(table) => \E e \in Reports(table) : e.row = 0
    BY <1>1 DEF ValidationInv, SchemaInv
  <2>2. \A t : t = table /\ ~SchemaIsOk(t) => \E e \in Reports(t) : e.row = 0
    BY <2>1
  <2>3. BadSchemaReported'
    BY <1>1, <1>4, <2>2 DEF ValidationInv, BadSchemaReported
  <2> QED BY <1>1, <2>3 DEF SchemaInv
<1>9. StopInv' /\ AnswerObeyed'
  <2>1. \A e \in Range(events) : e.what = "endTable" => e.answer
    BY <1>1 DEF ValidationInv, StopInv
  <2>2. AnswerObeyed'
    <3>1. "endTable" \in Whats
      BY DEF Whats
    <3> QED BY <1>1, <1>3, <2>1, <3>1, StillObeyed DEF ValidationInv
  <2>3. \A e \in Range(events') : e.table < table' /\ e.table \in Nat
    BY <1>1, <1>2 DEF ValidationInv, EventsInv, EventType
  <2>4. StopInv'
    BY <1>1, <1>2, <2>1, <2>3 DEF StopInv
  <2> QED BY <2>2, <2>4
<1>10. RowsInv'
  BY <1>1 DEF RowsInv
<1>11. EveryFaultReported'
  <2>1. SchemaIsOk(table) /\ Heard(table) => RowsReported(table, Len(Found.rows))
    BY <1>1 DEF ValidationInv, RowsInv
  <2>2. \A t : t = table /\ SchemaIsOk(t) /\ Heard(t) => RowsReported(t, Len(tables[t].rows))
    BY <1>1, <2>1
  <2> QED BY <1>1, <1>4, <2>2, FaultsStay
          DEF ValidationInv, EveryFaultReported, Heard, RowsReported, ReportedOf
<1> QED BY <1>5, <1>6, <1>7, <1>8, <1>9, <1>10, <1>11 DEF ValidationInv

\* A fault of the schema is told.
LEMMA SchemaFaultKeeps ==
  ASSUME ValidationInv, at = "schema", column > 1 \/ column' > 1,
         column' \in 1..(Width + 1), superfluous' \in 0..superfluous,
         column > 1 => continueSchema,
         NEW what \in Faults, NEW c \in Nat, NEW answer \in BOOLEAN, Tell(what, 0, c, answer),
         ~SchemaIsOk(table), continueSchema' = answer, result' = FALSE, column' >= column,
         UNCHANGED <<tables, at, table, rowIndex, kept, continueTableValidation,
                     continueValidation, numberOfValidatedRows, numberOfValidatedTables>>
  PROVE  ValidationInv'
<1>0. PICK told : told = [what |-> what, table |-> table, row |-> 0, column |-> c,
                          answer |-> answer]
  OBVIOUS
<1>1. /\ EventsInv' /\ EveryFaultReported'
      /\ \A t : Ended(t)' <=> Ended(t)
      /\ (\A t \in 1..Len(tables) :
            Ended(t) /\ ~SchemaIsOk(t) => \E e \in Reports(t) : e.row = 0)'
  BY FaultTold DEF ValidationInv, InTable
<1>2. /\ Reports(table)' = Reports(table) \cup {told}
      /\ SchemaIsOk(table)' <=> SchemaIsOk(table)
  BY <1>0, FaultToldHere DEF ValidationInv
<1>3. ValidationTypeOK'
  <2>1. {t \in 1..Len(tables) : Ended(t)}' = {t \in 1..Len(tables) : Ended(t)}
    BY <1>1
  <2>2. numberOfValidatedTables' = Cardinality({t \in 1..Len(tables) : Ended(t)})'
    BY <2>1 DEF ValidationInv, ValidationTypeOK
  <2>3. superfluous' \in Nat
    BY DEF ValidationInv, ValidationTypeOK
  <2>4. {result, continueSchema, continueTableValidation, continueValidation}' \subseteq BOOLEAN
    BY DEF ValidationInv, ValidationTypeOK
  <2> QED BY <2>2, <2>3, <2>4 DEF ValidationInv, ValidationTypeOK
<1>4. PlaceInv'
  BY DEF ValidationInv, PlaceInv, InRows
<1>5. SchemaInv' /\ BadSchemaReported'
  <2>1. superfluous' =< Found.superfluous /\ Found' = Found
    BY FoundTypes DEF ValidationInv, SchemaInv, ValidationTypeOK, Found
  <2>2. (\A e \in Reports(table) : e.row = 0)' /\ Reports(table)' # {}
    BY <1>0, <1>2 DEF ValidationInv, SchemaInv
  <2>3. continueTableValidation'
    BY DEF ValidationInv, SchemaInv
  <2>4. SchemaInv'
    BY <1>2, <2>1, <2>2, <2>3 DEF SchemaInv
  <2>5. BadSchemaReported'
    BY <1>1 DEF BadSchemaReported
  <2> QED BY <2>4, <2>5
<1>6. what \in Whats
  BY DEF Whats
<1>7. /\ \A e \in Range(events) : e.what = "endTable" => e.answer
      /\ \A e \in Range(events) : e.table = table /\ e.what \in Faults \ {"cellType"}
                                  => e.answer
  BY DEF ValidationInv, StopInv, ValidationTypeOK
<1>8. AnswerObeyed'
  BY <1>6, <1>7, StillObeyed DEF ValidationInv
<1>9. StopInv'
  <2>1. Range(events') = Range(events) \cup {told}
    BY <1>0, <1>6, Told DEF ValidationInv
  <2>2. told.what = what /\ told.answer = answer /\ what # "endTable"
    BY <1>0 DEF Faults
  <2>3. ~answer => column' > 1 /\ ~continueSchema' /\ ~result'
    BY ColumnsAssumption DEF ValidationInv, ValidationTypeOK, Width
  <2> QED BY <1>7, <2>1, <2>2, <2>3 DEF StopInv
<1>10. RowsInv'
  BY DEF RowsInv
<1> QED BY <1>1, <1>3, <1>4, <1>5, <1>8, <1>9, <1>10 DEF ValidationInv

\* A column is compared, or only looked at.
LEMMA ValidateColumnKeeps ==
  ASSUME ValidationInv, NEW answer \in BOOLEAN, ValidateColumn(answer)
  PROVE  ValidationInv'
<1>1. /\ at = "schema" /\ column \in 1..Width /\ column' = column + 1
      /\ UNCHANGED <<tables, at, table, rowIndex, superfluous, continueTableValidation,
                     continueValidation, numberOfValidatedRows, numberOfValidatedTables>>
      /\ Width \in Nat /\ superfluous \in Nat
      /\ Found = tables[table] /\ Found.columns \in [1..Width -> ColumnStates]
  BY FoundTypes DEF ValidateColumn, ValidationInv, ValidationTypeOK, Found
<1>2. CASE (column = 1 \/ continueSchema) /\ Wrong(column)
  <2>1. /\ Tell(Found.columns[column], 0, column, answer)
        /\ continueSchema' = answer /\ result' = FALSE /\ kept' = kept
    BY <1>1, <1>2 DEF ValidateColumn
  <2>2. Found.columns[column] \in Faults
    BY <1>1, <1>2 DEF Wrong, ColumnStates, Faults
  <2>3. ~SchemaIsOk(table)
    BY <1>1, <1>2 DEF SchemaIsOk, Wrong, Range
  <2>4. /\ column' \in 1..(Width + 1) /\ superfluous' \in 0..superfluous
        /\ column' > 1 /\ column' >= column /\ column \in Nat
        /\ column > 1 => continueSchema
    BY <1>1, <1>2
  <2> QED BY <1>1, <2>1, <2>2, <2>3, <2>4, SchemaFaultKeeps
<1>3. CASE ~((column = 1 \/ continueSchema) /\ Wrong(column))
  <2>1. /\ UNCHANGED <<result, continueSchema, events>>
        /\ kept' # kept => ~continueSchema
        /\ kept' \subseteq 1..Width
        /\ continueSchema => Found.columns[column] = "ok"
    <3>1. kept \subseteq 1..Width
      BY DEF ValidationInv, ValidationTypeOK
    <3>2. CASE column > 1 /\ ~continueSchema
      <4>1. UNCHANGED <<result, continueSchema, events>> /\ kept' \in {kept, kept \cup {column}}
        BY <3>2 DEF ValidateColumn
      <4> QED BY <1>1, <3>1, <3>2, <4>1
    <3>3. CASE ~(column > 1 /\ ~continueSchema)
      <4>1. ~Wrong(column)
        BY <1>1, <1>3, <3>3
      <4>2. UNCHANGED <<result, continueSchema, events, kept>>
        BY <3>3, <4>1 DEF ValidateColumn
      <4> QED BY <3>1, <4>1, <4>2 DEF Wrong
    <3> QED BY <3>2, <3>3
  <2>2. ValidationTypeOK'
    BY <1>1, <2>1 DEF ValidationInv, ValidationTypeOK, Ended
  <2>3. PlaceInv' /\ EventsInv'
    BY <1>1, <2>1 DEF ValidationInv, PlaceInv, InRows, EventsInv, InTable
  <2>4. SchemaInv' /\ BadSchemaReported'
    <3>1. \A c \in 1..(column' - 1) : c = column \/ c \in 1..(column - 1)
      BY <1>1
    <3>2. SchemaInv'
      BY <1>1, <2>1, <3>1, NothingToldHere DEF ValidationInv, SchemaInv, Found
    <3>3. BadSchemaReported'
      BY <1>1, <2>1, NothingTold DEF ValidationInv, BadSchemaReported
    <3> QED BY <3>2, <3>3
  <2>5. StopInv' /\ AnswerObeyed'
    BY <1>1, <2>1 DEF ValidationInv, StopInv, AnswerObeyed, StopsTableAfter
  <2>6. RowsInv'
    BY <1>1 DEF RowsInv
  <2>7. EveryFaultReported'
    BY <1>1, <2>1, NothingTold DEF ValidationInv
  <2> QED BY <2>2, <2>3, <2>4, <2>5, <2>6, <2>7 DEF ValidationInv
<1> QED BY <1>2, <1>3

\* A superfluous column is told.
LEMMA ReportSuperfluousKeeps ==
  ASSUME ValidationInv, NEW answer \in BOOLEAN, ReportSuperfluous(answer)
  PROVE  ValidationInv'
<1>1. /\ at = "schema" /\ column = Width + 1 /\ continueSchema /\ superfluous > 0
      /\ Tell("superfluous", 0, 0, answer)
      /\ superfluous' = superfluous - 1 /\ continueSchema' = answer /\ result' = FALSE
      /\ UNCHANGED <<tables, at, table, rowIndex, column, kept, continueTableValidation,
                     continueValidation, numberOfValidatedRows, numberOfValidatedTables>>
      /\ Width \in Nat \ {0} /\ superfluous \in Nat
      /\ Found = tables[table] /\ Found.superfluous \in Nat
  BY FoundTypes DEF ReportSuperfluous, ValidationInv, ValidationTypeOK, Found
<1>2. ~SchemaIsOk(table)
  BY <1>1 DEF SchemaIsOk, ValidationInv, SchemaInv
<1>3. "superfluous" \in Faults
  BY DEF Faults
<1>4. /\ column > 1 /\ column' \in 1..(Width + 1) /\ superfluous' \in 0..superfluous
      /\ column' >= column
  BY <1>1
<1> QED BY <1>1, <1>2, <1>3, <1>4, SchemaFaultKeeps

\* A fault of a cell is told: it is the one of its row, and the row is left.
LEMMA CellFaultKeeps ==
  ASSUME ValidationInv, at \in {"types", "values"}, at' = "step",
         NEW what \in {"cellType", "cellValue"}, NEW answer \in BOOLEAN,
         Tell(what, rowIndex, column, answer),
         FaultOf(table, rowIndex) = {column},
         what = "cellType" => continueTableValidation' = continueTableValidation,
         what = "cellValue" => continueTableValidation' = answer,
         continueValidation' \in BOOLEAN,
         UNCHANGED <<tables, table, rowIndex, column, superfluous, kept, result, continueSchema,
                     numberOfValidatedRows, numberOfValidatedTables>>
  PROVE  ValidationInv'
<1>0. PICK told : told = [what |-> what, table |-> table, row |-> rowIndex, column |-> column,
                          answer |-> answer]
  OBVIOUS
<1>1. /\ what \in Faults /\ what \in Whats /\ what # "endTable"
      /\ rowIndex \in 1..Len(Found.rows) /\ rowIndex \in Nat /\ column \in Nat
      /\ Found = tables[table]
  BY DEF Faults, Whats, ValidationInv, ValidationTypeOK, PlaceInv, Found
<1>2. /\ EventsInv' /\ EveryFaultReported'
      /\ \A t : Ended(t)' <=> Ended(t)
      /\ (\A t \in 1..Len(tables) :
            Ended(t) /\ ~SchemaIsOk(t) => \E e \in Reports(t) : e.row = 0)'
  BY <1>1, FaultTold DEF ValidationInv, InTable
<1>3. /\ Reports(table)' = Reports(table) \cup {told}
      /\ SchemaIsOk(table)' <=> SchemaIsOk(table)
      /\ Heard(table)' <=> Heard(table) /\ answer
      /\ \A n \in Nat : n < rowIndex => (RowsReported(table, n)' <=> RowsReported(table, n))
      /\ (\A e \in Reports(table) : e.row < rowIndex) => ReportedOf(table, rowIndex)' = {column}
  BY <1>0, <1>1, FaultToldHere DEF ValidationInv
<1>4. ValidationTypeOK'
  <2>1. {t \in 1..Len(tables) : Ended(t)}' = {t \in 1..Len(tables) : Ended(t)}
    BY <1>2
  <2>2. numberOfValidatedTables' = Cardinality({t \in 1..Len(tables) : Ended(t)})'
    BY <2>1 DEF ValidationInv, ValidationTypeOK
  <2>3. {result, continueSchema, continueTableValidation, continueValidation}' \subseteq BOOLEAN
    BY DEF ValidationInv, ValidationTypeOK
  <2> QED BY <2>2, <2>3 DEF ValidationInv, ValidationTypeOK
<1>5. PlaceInv'
  BY <1>1 DEF ValidationInv, PlaceInv, InRows, Found
<1>6. SchemaIsOk(table)
  BY DEF ValidationInv, BadSchemaReported
<1>7. SchemaInv' /\ BadSchemaReported'
  BY <1>2, <1>3, <1>6 DEF SchemaInv, BadSchemaReported
<1>8. /\ \A e \in Range(events) : e.what = "endTable" => e.answer
      /\ \A e \in Range(events) : e.table = table /\ e.what \in Faults \ {"cellType"}
                                  => e.answer
  BY DEF ValidationInv, StopInv
<1>9. AnswerObeyed'
  BY <1>1, <1>8, StillObeyed DEF ValidationInv
<1>10. StopInv'
  <2>1. Range(events') = Range(events) \cup {told}
    BY <1>0, <1>1, Told DEF ValidationInv
  <2>2. told.what = what /\ told.answer = answer
    BY <1>0
  <2> QED BY <1>1, <1>8, <2>1, <2>2 DEF StopInv
<1>11. RowsInv'
  <2>1. \A e \in Reports(table) : e.row < rowIndex /\ e.row \in Nat
    BY DEF ValidationInv, RowsInv, EventsInv, EventType, Reports
  <2>2. (\A e \in Reports(table) : e.row =< rowIndex)'
    BY <1>0, <1>1, <1>3, <2>1
  <2>3. Heard(table)' => continueTableValidation' /\ RowsReported(table, rowIndex - 1)'
    <3>1. Heard(table) => continueTableValidation /\ RowsReported(table, rowIndex - 1)
      BY DEF ValidationInv, RowsInv
    <3>2. PICK n \in Nat : n = rowIndex - 1
      BY <1>1
    <3>3. RowsReported(table, n)' <=> RowsReported(table, n)
      BY <1>1, <1>3, <3>2
    <3>4. RowsReported(table, rowIndex - 1)' <=> RowsReported(table, n)'
      BY <3>2 DEF RowsReported
    <3>5. RowsReported(table, rowIndex - 1) <=> RowsReported(table, n)
      BY <3>2
    <3>6. Heard(table)' => RowsReported(table, rowIndex - 1)'
      BY <1>3, <3>1, <3>3, <3>4, <3>5
    <3>7. Heard(table)' => continueTableValidation'
      <4>1. CASE what = "cellType"
        BY <1>3, <3>1, <4>1
      <4>2. CASE what = "cellValue"
        BY <1>3, <4>2
      <4> QED BY <4>1, <4>2
    <3> QED BY <3>6, <3>7
  <2>4. ReportedOf(table, rowIndex)' = FaultOf(table, rowIndex)'
    <3>1. FaultOf(table, rowIndex)' = FaultOf(table, rowIndex)
      BY DEF FaultOf
    <3> QED BY <1>3, <2>1, <3>1
  <2>5. RowsReported(table, rowIndex - 1)' => RowsReported(table, rowIndex)'
    <3>1. \A r \in 1..rowIndex : r = rowIndex \/ r \in 1..(rowIndex - 1)
      BY <1>1
    <3> QED BY <2>4, <3>1 DEF RowsReported
  <2> QED BY <2>2, <2>3, <2>5 DEF RowsInv
<1> QED BY <1>2, <1>4, <1>5, <1>7, <1>9, <1>10, <1>11 DEF ValidationInv

\* A row is left without a fault, because it has none.
LEMMA RowDoneKeeps ==
  ASSUME ValidationInv, at = "values", at' = "step", FaultOf(table, rowIndex) = {},
         UNCHANGED <<tables, table, rowIndex, superfluous, kept, result, continueSchema,
                     continueTableValidation, continueValidation, numberOfValidatedRows,
                     numberOfValidatedTables, events>>,
         column' \in 1..(Width + 1)
  PROVE  ValidationInv'
<1>1. /\ rowIndex \in 1..Len(Found.rows) /\ rowIndex \in Nat /\ Found = tables[table]
  BY DEF ValidationInv, ValidationTypeOK, PlaceInv, Found
<1>2. ValidationTypeOK'
  BY DEF ValidationInv, ValidationTypeOK, Ended
<1>3. PlaceInv' /\ EventsInv'
  BY <1>1 DEF ValidationInv, PlaceInv, EventsInv, InRows, InTable, Found
<1>4. SchemaInv' /\ BadSchemaReported'
  BY NothingTold, NothingToldHere DEF ValidationInv, SchemaInv, BadSchemaReported
<1>5. StopInv' /\ AnswerObeyed'
  BY DEF ValidationInv, StopInv, AnswerObeyed, StopsTableAfter
<1>6. RowsInv'
  <2>1. \A e \in Reports(table) : e.row < rowIndex /\ e.row \in Nat
    BY DEF ValidationInv, RowsInv, EventsInv, EventType, Reports
  <2>2. ReportedOf(table, rowIndex) = {}
    BY <2>1 DEF ReportedOf
  <2>3. RowsReported(table, rowIndex - 1) => RowsReported(table, rowIndex)
    <3>1. \A r \in 1..rowIndex : r = rowIndex \/ r \in 1..(rowIndex - 1)
      BY <1>1
    <3> QED BY <2>2, <3>1 DEF RowsReported
  <2>4. Heard(table) => continueTableValidation /\ RowsReported(table, rowIndex)
    BY <2>3 DEF ValidationInv, RowsInv
  <2> QED BY <1>1, <2>1, <2>4, NothingToldHere DEF RowsInv
<1>7. EveryFaultReported'
  BY NothingTold DEF ValidationInv
<1> QED BY <1>2, <1>3, <1>4, <1>5, <1>6, <1>7 DEF ValidationInv

\* The next cell of the row is looked at: the one before has no fault.
LEMMA NextCellKeeps ==
  ASSUME ValidationInv, at \in {"types", "values"}, at' \in {"types", "values"},
         at' = "types" => at = "types" /\ \A c \in 1..(column' - 1) : Cell(c) # "type",
         at' = "values" => /\ \A c \in 1..Width : Cell(c) # "type"
                          /\ \A c \in 1..(column' - 1) :
                               Columns[c] # "templated" /\ Cell(c) \notin {"value", "length"},
         UNCHANGED <<tables, table, rowIndex, superfluous, kept, result, continueSchema,
                     continueTableValidation, continueValidation, numberOfValidatedRows,
                     numberOfValidatedTables, events>>,
         column' \in 1..Width
  PROVE  ValidationInv'
<1>1. /\ rowIndex \in 1..Len(Found.rows) /\ rowIndex \in Nat /\ Found = tables[table]
      /\ Width \in Nat
  BY ColumnsAssumption DEF ValidationInv, ValidationTypeOK, PlaceInv, Found, Width
<1>2. ValidationTypeOK'
  BY <1>1 DEF ValidationInv, ValidationTypeOK, Ended, Found
<1>3. PlaceInv' /\ EventsInv'
  BY <1>1 DEF ValidationInv, PlaceInv, EventsInv, InRows, InTable, Found
<1>4. SchemaInv' /\ BadSchemaReported'
  BY NothingTold, NothingToldHere DEF ValidationInv, SchemaInv, BadSchemaReported
<1>5. StopInv' /\ AnswerObeyed'
  BY DEF ValidationInv, StopInv, AnswerObeyed, StopsTableAfter
<1>6. RowsInv'
  BY NothingToldHere DEF ValidationInv, RowsInv, Cell, Found
<1>7. EveryFaultReported'
  BY NothingTold DEF ValidationInv
<1> QED BY <1>2, <1>3, <1>4, <1>5, <1>6, <1>7 DEF ValidationInv

\* The row that is looked at.
LEMMA CurrentRow ==
  ASSUME ValidationInv, at \in {"types", "values"}
  PROVE  /\ tables[table].rows[rowIndex] \in [1..Width -> Cells] /\ Width \in Nat \ {0}
         /\ column \in 1..Width
         /\ \A c : Cell(c) = tables[table].rows[rowIndex][c]
<1>1. /\ Found = tables[table] /\ Found.rows \in Seq([1..Width -> Cells])
      /\ Width \in Nat \ {0}
  BY FoundTypes DEF ValidationInv, Found
<1>2. rowIndex \in 1..Len(Found.rows) /\ column \in 1..Width
  BY <1>1 DEF ValidationInv, ValidationTypeOK
<1> QED BY <1>1, <1>2 DEF Cell

\* The type of a cell is compared.
LEMMA ValidateTypeKeeps ==
  ASSUME ValidationInv, NEW answer \in BOOLEAN, ValidateType(answer)
  PROVE  ValidationInv'
<1>1. /\ at = "types"
      /\ UNCHANGED <<tables, table, rowIndex, superfluous, kept, result, continueSchema,
                     continueTableValidation, numberOfValidatedRows, numberOfValidatedTables>>
      /\ \A c \in 1..(column - 1) : Cell(c) # "type"
      /\ continueValidation \in BOOLEAN
  BY DEF ValidateType, ValidationInv, RowsInv, ValidationTypeOK
<1>2. /\ tables[table].rows[rowIndex] \in [1..Width -> Cells] /\ Width \in Nat \ {0}
      /\ column \in 1..Width
      /\ \A c : Cell(c) = tables[table].rows[rowIndex][c]
  BY <1>1, CurrentRow
<1>3. CASE Cell(column) = "type"
  <2>1. /\ Tell("cellType", rowIndex, column, answer)
        /\ continueValidation' = answer /\ at' = "step" /\ column' = column
    BY <1>3 DEF ValidateType
  <2>2. FaultOf(table, rowIndex) = {column}
    BY <1>1, <1>2, <1>3, FaultOfTypes
  <2> QED BY <1>1, <2>1, <2>2, CellFaultKeeps
<1>4. CASE Cell(column) # "type"
  <2>1. /\ UNCHANGED <<continueValidation, events>>
        /\ column < Width => at' = "types" /\ column' = column + 1
        /\ column = Width => at' = "values" /\ column' = 1
    BY <1>2, <1>4 DEF ValidateType, NextCell
  <2>2. \A c \in 1..column : Cell(c) # "type"
    <3>1. \A c \in 1..column : c = column \/ c \in 1..(column - 1)
      BY <1>2
    <3> QED BY <1>1, <1>4, <3>1
  <2>3. CASE column < Width
    BY <1>1, <1>2, <2>1, <2>2, <2>3, NextCellKeeps
  <2>4. CASE column = Width
    BY <1>1, <1>2, <2>1, <2>2, <2>4, NextCellKeeps
  <2> QED BY <1>2, <2>3, <2>4
<1> QED BY <1>3, <1>4

\* The value of a cell is looked at.
LEMMA ValidateCellKeeps ==
  ASSUME ValidationInv, NEW answer \in BOOLEAN, ValidateCell(answer)
  PROVE  ValidationInv'
<1>1. /\ at = "values"
      /\ UNCHANGED <<tables, table, rowIndex, superfluous, kept, result, continueSchema,
                     continueValidation, numberOfValidatedRows, numberOfValidatedTables>>
      /\ \A c \in 1..Width : Cell(c) # "type"
      /\ \A c \in 1..(column - 1) :
           Columns[c] # "templated" /\ Cell(c) \notin {"value", "length"}
      /\ continueValidation \in BOOLEAN
  BY DEF ValidateCell, ValidationInv, RowsInv, ValidationTypeOK
<1>2. /\ tables[table].rows[rowIndex] \in [1..Width -> Cells] /\ Width \in Nat \ {0}
      /\ column \in 1..Width
      /\ \A c : Cell(c) = tables[table].rows[rowIndex][c]
  BY <1>1, CurrentRow
<1>3. /\ Columns[column] # "templated" /\ Cell(column) \in {"value", "length"}
           => FaultOf(table, rowIndex) = {column}
      /\ Columns[column] = "templated" => FaultOf(table, rowIndex) = {}
      /\ column = Width /\ Cell(column) \notin {"value", "length"}
           => FaultOf(table, rowIndex) = {}
  BY <1>1, <1>2, FaultOfValues
<1>4. CASE Faulty(column)
  <2>1. /\ Tell("cellValue", rowIndex, column, answer)
        /\ continueTableValidation' = answer /\ at' = "step" /\ column' = column
    BY <1>4 DEF ValidateCell, GoesOn
  <2> QED BY <1>1, <1>3, <1>4, <2>1, CellFaultKeeps DEF Faulty
<1>5. CASE ~Faulty(column) /\ Columns[column] = "templated"
  <2>1. at' = "step" /\ UNCHANGED <<column, continueTableValidation, events>>
    BY <1>5 DEF ValidateCell
  <2> QED BY <1>1, <1>2, <1>3, <1>5, <2>1, RowDoneKeeps
<1>6. CASE ~Faulty(column) /\ Columns[column] # "templated"
  <2>1. /\ UNCHANGED <<continueTableValidation, events>>
        /\ column < Width => at' = "values" /\ column' = column + 1
        /\ column = Width => at' = "step" /\ column' = 1
    BY <1>2, <1>6 DEF ValidateCell, NextCell
  <2>2. CASE column < Width
    <3>1. \A c \in 1..(column' - 1) : c = column \/ c \in 1..(column - 1)
      BY <1>2, <2>1, <2>2
    <3>2. \A c \in 1..(column' - 1) :
            Columns[c] # "templated" /\ Cell(c) \notin {"value", "length"}
      BY <1>1, <1>6, <3>1 DEF Faulty
    <3> QED BY <1>1, <1>2, <2>1, <2>2, <3>2, NextCellKeeps
  <2>3. CASE column = Width
    BY <1>1, <1>2, <1>3, <1>6, <2>1, <2>3, RowDoneKeeps DEF Faulty
  <2> QED BY <1>2, <2>2, <2>3
<1> QED BY <1>4, <1>5, <1>6

-------------------------------------------------------------------------------
(* The theorems.                                                           *)

LEMMA ValidationInit_Inv == ValidationInit => ValidationInv
<1> SUFFICES ASSUME ValidationInit PROVE ValidationInv
  OBVIOUS
<1>1. /\ tables \in Seq(FoundTables) /\ Len(tables) \in Nat \ {0}
      /\ Width \in Nat \ {0}
  BY FoundDatabasesAssumption, ColumnsAssumption DEF ValidationInit, Width
<1>2. Range(events) = {} /\ events = <<>>
  BY DEF ValidationInit, Range
<1>3. ValidationTypeOK
  <2>1. {t \in 1..Len(tables) : Ended(t)} = {}
    BY <1>2 DEF Ended
  <2>2. Cardinality({t \in 1..Len(tables) : Ended(t)}) = 0
    BY <2>1, FS_EmptySet
  <2> QED BY <1>1, <2>2 DEF ValidationInit, ValidationTypeOK
<1>4. PlaceInv /\ EventsInv /\ SchemaInv /\ StopInv /\ RowsInv
  BY <1>1, <1>2 DEF ValidationInit, PlaceInv, InRows, EventsInv, SchemaInv, StopInv, RowsInv
<1>5. BadSchemaReported /\ AnswerObeyed /\ EveryFaultReported
  BY <1>2 DEF ValidationInit, BadSchemaReported, AnswerObeyed, StopsTableAfter,
              EveryFaultReported, Ended
<1> QED BY <1>3, <1>4, <1>5 DEF ValidationInv

\* Every step of the validation keeps its invariant.
LEMMA ValidationKeeps ==
  ASSUME ValidationInv, [ValidationNext]_validationVars
  PROVE  ValidationInv'
<1>1. CASE BeginTableThrows
  BY <1>1, BeginTableThrowsKeeps
<1>2. CASE SkipTable
  BY <1>2, SkipTableKeeps
<1>3. CASE EndSchema
  BY <1>3, EndSchemaKeeps
<1>4. CASE Step
  BY <1>4, StepKeeps
<1>5. ASSUME NEW answer \in BOOLEAN, BeginTable(answer) PROVE ValidationInv'
  BY <1>5, BeginTableKeeps
<1>6. ASSUME NEW answer \in BOOLEAN, ValidateColumn(answer) PROVE ValidationInv'
  BY <1>6, ValidateColumnKeeps
<1>7. ASSUME NEW answer \in BOOLEAN, ReportSuperfluous(answer) PROVE ValidationInv'
  BY <1>7, ReportSuperfluousKeeps
<1>8. ASSUME NEW answer \in BOOLEAN, ValidateType(answer) PROVE ValidationInv'
  BY <1>8, ValidateTypeKeeps
<1>9. ASSUME NEW answer \in BOOLEAN, ValidateCell(answer) PROVE ValidationInv'
  BY <1>9, ValidateCellKeeps
<1>10. ASSUME NEW answer \in BOOLEAN, EndTable(answer) PROVE ValidationInv'
  BY <1>10, EndTableKeeps
<1>11. CASE UNCHANGED validationVars
  <2>1. UNCHANGED <<tables, at, table, rowIndex, column, superfluous, kept, result,
                    continueSchema, continueTableValidation, continueValidation,
                    numberOfValidatedRows, numberOfValidatedTables, events>>
    BY <1>11 DEF validationVars
  <2>2. ValidationTypeOK' /\ PlaceInv' /\ EventsInv'
    BY <2>1 DEF ValidationInv, ValidationTypeOK, PlaceInv, EventsInv, InRows, InTable, Ended, Found
  <2>3. SchemaInv' /\ BadSchemaReported' /\ StopInv' /\ AnswerObeyed'
    BY <2>1, NothingTold, NothingToldHere
       DEF ValidationInv, SchemaInv, BadSchemaReported, StopInv, AnswerObeyed, StopsTableAfter, Found
  <2>4. RowsInv' /\ EveryFaultReported'
    BY <2>1, NothingTold, NothingToldHere DEF ValidationInv, RowsInv, Cell, Found
  <2> QED BY <2>2, <2>3, <2>4 DEF ValidationInv
<1> QED BY <1>1, <1>2, <1>3, <1>4, <1>5, <1>6, <1>7, <1>8, <1>9, <1>10, <1>11
        DEF ValidationNext

\* What the validation keeps, for any tables and any answers.
THEOREM ValidationInvariant == ValidationSpec => []ValidationInv
  BY ValidationKeeps, ValidationInit_Inv, PTL DEF ValidationSpec

\* Every variable of the validation keeps its type, cells are looked at only where there are
\* any, and numberOfValidatedTables counts the tables that were ended.
THEOREM ValidationTypes == ValidationSpec => []ValidationTypeOK
<1>1. ValidationInv => ValidationTypeOK
  BY DEF ValidationInv
<1> QED BY <1>1, ValidationInvariant, PTL

\* Rows are looked at only if their schema is as it should be, and if it is not, a fault is
\* told.
THEOREM ValidationBadSchemaReported == ValidationSpec => []BadSchemaReported
<1>1. ValidationInv => BadSchemaReported
  BY DEF ValidationInv
<1> QED BY <1>1, ValidationInvariant, PTL

\* The answers are obeyed that go into the right variable.
THEOREM ValidationAnswerObeyed == ValidationSpec => []AnswerObeyed
<1>1. ValidationInv => AnswerObeyed
  BY DEF ValidationInv
<1> QED BY <1>1, ValidationInvariant, PTL

\* An observer that wants to see everything has been told, when a table is done, of one fault
\* of each row that has one.
THEOREM ValidationEveryFaultReported == ValidationSpec => []EveryFaultReported
<1>1. ValidationInv => EveryFaultReported
  BY DEF ValidationInv
<1> QED BY <1>1, ValidationInvariant, PTL

-------------------------------------------------------------------------------
(* All of them.                                                            *)

\* Database, reader and validation are of their types, whichever of them is used and however they
\* are run side by side.
THEOREM SqlTypesOK == MCSpec => []TypesOK
<1>1. MCInit => Init /\ ReaderInit /\ ValidationInit
  BY DEF MCInit, IdleDatabase, IdleReader, IdleValidation
<1>2. [MCNext]_<<part, vars, readerVars, validationVars>>
      => [Next]_vars /\ [ReaderNext]_readerVars /\ [ValidationNext]_validationVars
  BY DEF MCNext, UseDatabase, UseReader, Validate, Validated
<1>3. MCSpec => Spec /\ ReaderSpec
  BY <1>1, <1>2, PTL DEF MCSpec, Spec, ReaderSpec
<1>4. MCSpec => []ValidationInv
  BY <1>1, <1>2, ValidationKeeps, ValidationInit_Inv, PTL DEF MCSpec
<1>5. TypeOK /\ ReaderInv /\ ValidationInv => TypesOK
  BY DEF ReaderInv, ValidationInv, TypesOK
<1> QED
  BY <1>3, <1>4, <1>5, SqlTypeOK, ReaderInvariant, PTL
===============================================================================
