-------------------------------- MODULE SqlStore --------------------------------
(***************************************************************************)
(* What the class the generator emits for an sql_database promises: a call *)
(* changes the database file as a whole or not at all, and what is done in *)
(* a transaction of the caller gets there with this transaction.           *)
(***************************************************************************)
EXTENDS Naturals, Sequences

CONSTANTS
  Tables,   \* the names of the tables
  Keys,     \* primary keys
  Values,   \* the values of a row
  Absent,   \* stands for a table that was not created
  NoBatch   \* stands for no transaction of the caller

VARIABLES
  disk,     \* the tables as they are on disk
  batch,    \* the tables as the transaction of the caller sees them
  job       \* the call at work: its name, its table and its rows

Filled == UNION {[K -> Values] : K \in SUBSET Keys}
Contents == {Absent} \cup Filled
Databases == [Tables -> Contents]

Exists(db, t) == db[t] # Absent

Empty == [k \in {} |-> 0]

AllCreated == [t \in Tables |-> Empty]
AllDeleted == [t \in Tables |-> Absent]

WithTable(db, t, rows) == [db EXCEPT ![t] = rows]

WithRow(db, t, k, v) ==
  WithTable(db, t, [i \in DOMAIN db[t] \cup {k} |-> IF i = k THEN v ELSE db[t][i]])

\* The tables new are db with the rows, which are new ones, put into table t.
Adds(db, new, t, rows) ==
  /\ \A u \in Tables \ {t} : new[u] = db[u]
  /\ DOMAIN new[t] = DOMAIN db[t] \cup {rows[i].key : i \in 1..Len(rows)}
  /\ \A k \in DOMAIN db[t] : new[t][k] = db[t][k]
  /\ \A i \in 1..Len(rows) :
       /\ rows[i].key \notin DOMAIN db[t]
       /\ new[t][rows[i].key] = rows[i].value
       /\ \A j \in 1..(i - 1) : rows[j].key # rows[i].key

NoJob == [name |-> "none", table |-> Absent, rows |-> <<>>]

-------------------------------------------------------------------------------

Ask ==
  /\ job = NoJob
  /\ job'.name \in {"createSchema", "deleteSchema", "write"}
  /\ UNCHANGED <<disk, batch>>

\* The call at work has changed the tables from db to new; the rows it writes are new.
Completes(db, new) ==
  \/ job.name = "createSchema" /\ db = AllDeleted /\ new = AllCreated
  \/ job.name = "deleteSchema" /\ (\A t \in Tables : Exists(db, t)) /\ new = AllDeleted
  \/ /\ job.name = "write"
     /\ Exists(db, job.table)
     /\ Adds(db, new, job.table, job.rows)

\* Outside of a transaction of the caller a call that returns has changed the disk.
Perform ==
  /\ batch = NoBatch
  /\ Completes(disk, disk')
  /\ job' = NoJob
  /\ UNCHANGED batch

\* A call of one statement.
PerformSingle ==
  /\ job = NoJob /\ batch = NoBatch
  /\ \E t \in Tables :
       \/ ~Exists(disk, t) /\ disk' = WithTable(disk, t, Empty)
       \/ Exists(disk, t) /\ disk' = WithTable(disk, t, Absent)
       \/ /\ Exists(disk, t)
          /\ \E k \in DOMAIN disk[t], v \in Values : disk' = WithRow(disk, t, k, v)
  /\ UNCHANGED <<batch, job>>

\* A call that throws has changed nothing; it may take the caller's transaction with it.
GiveUp == job' = NoJob /\ batch' \in {batch, NoBatch} /\ UNCHANGED disk

Begin == job = NoJob /\ batch = NoBatch /\ batch' = disk /\ UNCHANGED <<disk, job>>

\* A step inside of the caller's transaction touches one table.  There are no savepoints:
\* what a call has done before it throws stays.
Step ==
  /\ batch # NoBatch
  /\ \E t \in Tables, rows \in Contents : batch' = WithTable(batch, t, rows)
  /\ UNCHANGED <<disk, job>>

Commit == job = NoJob /\ batch # NoBatch /\ disk' = batch /\ batch' = NoBatch /\ UNCHANGED job

Init == disk \in Databases /\ batch = NoBatch /\ job = NoJob

Next == Ask \/ Perform \/ PerformSingle \/ GiveUp \/ Begin \/ Step \/ Commit

Spec == Init /\ [][Next]_<<disk, batch, job>>
===============================================================================
