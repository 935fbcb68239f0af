------------------------------ MODULE Migrator ------------------------------
(***************************************************************************)
(* Opening the store (engine/go/internal/store/store.go, migrations.go):   *)
(* every process that opens the database file runs Apply, which creates    *)
(* schema_version and then, version by version, looks whether the version  *)
(* is recorded and otherwise runs its SQL and records it in a transaction. *)
(*                                                                         *)
(* Steps are the statements SQLite executes atomically.  The look at       *)
(* schema_version happens before the transaction begins.  SQLite has one   *)
(* writer at a time; a crash rolls the open transaction back.  The         *)
(* migration's statements are all IF NOT EXISTS, so they succeed on tables *)
(* that another process has created in between.                            *)
(***************************************************************************)
EXTENDS Naturals, FiniteSets

CONSTANTS
  Proc,      \* processes that open the same database file
  Versions,  \* number of embedded migrations
  MaxOpens   \* bound: calls of Open per process

(* The value of writer while nobody holds the write lock.                  *)
NoOne == "no one"

ASSUME MigratorAssumption ==
  Versions \in Nat \ {0} /\ MaxOpens \in Nat /\ NoOne \notin Proc

VARIABLES
  has_version_table,  \* schema_version exists
  recorded,           \* committed rows of schema_version
  schema,             \* versions whose SQL is committed
  writer,             \* the process that holds the write lock, or NoOne
  tx_schema, tx_rows, \* what the open transaction has done so far
  pc,                 \* where Open is in each process
  ver,                \* the loop variable of Apply
  opens               \* history: how often each process called Open

db == <<has_version_table, recorded, schema>>
tx == <<writer, tx_schema, tx_rows>>
vars == <<db, tx, pc, ver, opens>>

AllVersions == 1..Versions
NoTx == writer' = NoOne /\ tx_schema' = {} /\ tx_rows' = {}

Init ==
  /\ has_version_table = FALSE /\ recorded = {} /\ schema = {}
  /\ writer = NoOne /\ tx_schema = {} /\ tx_rows = {}
  /\ pc = [p \in Proc |-> "closed"] /\ ver = [p \in Proc |-> 1]
  /\ opens = [p \in Proc |-> 0]

Goto(p, l) == pc' = [pc EXCEPT ![p] = l]

-----------------------------------------------------------------------------
(* sql.Open, the pragmas and the ping.                                     *)
Open(p) ==
  /\ pc[p] \in {"closed", "failed"} /\ opens[p] < MaxOpens
  /\ opens' = [opens EXCEPT ![p] = @ + 1]
  /\ ver' = [ver EXCEPT ![p] = 1]
  /\ Goto(p, "ensure")
  /\ UNCHANGED <<db, tx>>

(* CREATE TABLE IF NOT EXISTS schema_version, in a transaction of its own. *)
EnsureVersionTable(p) ==
  /\ pc[p] = "ensure"
  /\ has_version_table' = TRUE
  /\ Goto(p, "look")
  /\ UNCHANGED <<recorded, schema, tx, ver, opens>>

(* Mutants: return instead of continue on a recorded version; the loop     *)
(* variable does not move on.                                              *)
SkipReturns(p) ==
  /\ pc[p] = "look" /\ ver[p] \in recorded
  /\ Goto(p, "ready")
  /\ UNCHANGED <<db, tx, ver, opens>>

SkipStays(p) ==
  /\ pc[p] = "look" /\ ver[p] \in recorded
  /\ UNCHANGED vars

(* SELECT version: skip a recorded version, begin a transaction for a      *)
(* missing one.  The loop is over after the last version.                  *)
Skip(p) ==
  /\ pc[p] = "look" /\ ver[p] \in recorded
  /\ ver' = [ver EXCEPT ![p] = @ + 1]
  /\ Goto(p, IF ver[p] = Versions THEN "ready" ELSE "look")
  /\ UNCHANGED <<db, tx, opens>>

Missing(p) ==
  /\ pc[p] = "look" /\ ver[p] \notin recorded
  /\ Goto(p, "exec")
  /\ UNCHANGED <<db, tx, ver, opens>>

(* The SQL of the migration: its first write takes the write lock.         *)
ExecMigration(p) ==
  /\ pc[p] = "exec" /\ writer = NoOne
  /\ writer' = p /\ tx_schema' = {ver[p]} /\ tx_rows' = {}
  /\ Goto(p, "record")
  /\ UNCHANGED <<db, ver, opens>>

(* Another process holds the lock longer than busy_timeout.                *)
Busy(p) ==
  /\ pc[p] = "exec" /\ writer # NoOne
  /\ Goto(p, "failed")
  /\ UNCHANGED <<db, tx, ver, opens>>

(* Mutants: the row is inserted outside the transaction; a row that is     *)
(* there already is ignored.                                               *)
RecordOutsideTx(p) ==
  /\ pc[p] = "record" /\ ver[p] \notin recorded
  /\ recorded' = recorded \cup {ver[p]}
  /\ Goto(p, "commit")
  /\ UNCHANGED <<has_version_table, schema, tx, ver, opens>>

RecordOrIgnore(p) ==
  /\ pc[p] = "record"
  /\ tx_rows' = {ver[p]}
  /\ Goto(p, "commit")
  /\ UNCHANGED <<db, writer, tx_schema, ver, opens>>

(* INSERT INTO schema_version; the version is its primary key.             *)
Record(p) ==
  /\ pc[p] = "record" /\ ver[p] \notin recorded
  /\ tx_rows' = {ver[p]}
  /\ Goto(p, "commit")
  /\ UNCHANGED <<db, writer, tx_schema, ver, opens>>

RecordConflict(p) ==
  /\ pc[p] = "record" /\ ver[p] \in recorded
  /\ NoTx
  /\ Goto(p, "failed")
  /\ UNCHANGED <<db, ver, opens>>

Commit(p) ==
  /\ pc[p] = "commit"
  /\ recorded' = recorded \cup tx_rows /\ schema' = schema \cup tx_schema
  /\ NoTx
  /\ ver' = [ver EXCEPT ![p] = @ + 1]
  /\ Goto(p, IF ver[p] = Versions THEN "ready" ELSE "look")
  /\ UNCHANGED <<has_version_table, opens>>

(* A pragma or a statement fails, the begin or the commit: an open         *)
(* transaction is rolled back and Open closes the database.                *)
StatementFails(p) ==
  /\ pc[p] \in {"ensure", "look", "exec", "record", "commit"}
  /\ IF writer = p THEN NoTx ELSE UNCHANGED tx
  /\ Goto(p, "failed")
  /\ UNCHANGED <<db, ver, opens>>

(* The process dies, or closes the store.                                  *)
Crash(p) ==
  /\ pc[p] \notin {"closed", "failed"}
  /\ IF writer = p THEN NoTx ELSE UNCHANGED tx
  /\ Goto(p, "closed")
  /\ UNCHANGED <<db, ver, opens>>

-----------------------------------------------------------------------------
Apply(p) ==
  \/ EnsureVersionTable(p) \/ Skip(p) \/ Missing(p) \/ ExecMigration(p)
  \/ Busy(p) \/ Record(p) \/ RecordConflict(p) \/ Commit(p)

Next == \E p \in Proc : Open(p) \/ Apply(p) \/ StatementFails(p) \/ Crash(p)

Spec == Init /\ [][Next]_vars

(* A statement that can run is run; nothing has to fail or to be opened.   *)
FairSpec == Spec /\ \A p \in Proc : WF_vars(Apply(p))

-----------------------------------------------------------------------------
(* The variables keep their shapes.                                        *)
TypeOK ==
  /\ has_version_table \in BOOLEAN
  /\ recorded \subseteq AllVersions /\ schema \subseteq AllVersions
  /\ writer \in Proc \cup {NoOne}
  /\ tx_schema \subseteq AllVersions /\ tx_rows \subseteq AllVersions
  /\ pc \in [Proc -> {"closed", "ensure", "look", "exec", "record", "commit",
                      "ready", "failed"}]
  /\ ver \in [Proc -> 1..(Versions + 1)]

(* What is recorded is what is there, and there are no gaps: after any     *)
(* crash, error or race a version is in schema_version exactly when its    *)
(* tables are, and only with all the versions before it; and a store that  *)
(* Open has returned has all of them.                                      *)
RecordedIsApplied ==
  /\ recorded = schema
  /\ \A v \in recorded : 1..v \subseteq recorded
  /\ \A p \in Proc : pc[p] = "ready" => schema = AllVersions

(* No migration is applied a second time, by no process: a committed       *)
(* version is never committed again, and never disappears.                 *)
AppliedOnce ==
  [][ /\ schema \subseteq schema'
      /\ \A p \in Proc : pc[p] = "commit" /\ ver'[p] # ver[p] =>
           tx_schema \cap schema = {} ]_vars

(* Applying again skips what is applied: Open does not fail on a conflict  *)
(* with schema_version (migrations.go: "Re-running Apply is idempotent:    *)
(* already-applied migrations are skipped").                               *)
NoVersionConflict ==
  \A p \in Proc : ~ (pc[p] = "record" /\ ver[p] \in recorded)

(* Open returns: with a store or with an error, whoever holds the lock.    *)
OpenReturns ==
  \A p \in Proc : pc[p] = "ensure" ~> pc[p] \in {"ready", "failed", "closed"}

=============================================================================
