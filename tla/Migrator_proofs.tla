--------------------------- MODULE Migrator_proofs ---------------------------
(***************************************************************************)
(* Proofs about the migrations of the store: for any number of processes   *)
(* that open the database file, any number of embedded migrations and any  *)
(* number of calls of Open, with a crash or a failing statement anywhere.  *)
(***************************************************************************)
EXTENDS Migrator, TLAPS

-----------------------------------------------------------------------------
(* The parts of the inductive invariant.                                   *)

(* What is recorded is applied, and a version only after those before it.  *)
NoGaps ==
  /\ recorded = schema
  /\ \A v \in recorded : 1..v \subseteq recorded

(* The write lock belongs to the process between its first write and the   *)
(* end of its transaction, and the transaction holds what it has done.     *)
LockHeld ==
  \A p \in Proc :
    /\ writer = p <=> pc[p] \in {"record", "commit"}
    /\ pc[p] = "record" => tx_schema = {ver[p]}
    /\ pc[p] = "commit" => /\ tx_schema = {ver[p]} /\ tx_rows = {ver[p]}
                           /\ ver[p] \notin recorded

(* Inside the loop of Apply every earlier version has been recorded, and   *)
(* after the loop all of them have.                                        *)
LoopDone ==
  \A p \in Proc :
    /\ pc[p] = "ensure" => ver[p] = 1
    /\ pc[p] \in {"look", "exec", "record", "commit"} =>
         ver[p] \in AllVersions /\ 1..(ver[p] - 1) \subseteq recorded
    /\ pc[p] = "ready" => AllVersions \subseteq recorded

MigratorInv == TypeOK /\ NoGaps /\ LockHeld /\ LoopDone

-----------------------------------------------------------------------------
(* An empty store satisfies the invariant.                                 *)
LEMMA InitMigratorInv == Init => MigratorInv
<1> SUFFICES ASSUME Init PROVE MigratorInv
    OBVIOUS
<1>1. TypeOK
  <2>1. has_version_table \in BOOLEAN
      BY Zenon DEF Init
  <2> QED BY <2>1, MigratorAssumption DEF Init, TypeOK, AllVersions
<1>2. NoGaps
    BY DEF Init, NoGaps
<1>3. LockHeld
    BY MigratorAssumption DEF Init, LockHeld
<1>4. LoopDone
    BY DEF Init, LoopDone
<1> QED BY <1>1, <1>2, <1>3, <1>4 DEF MigratorInv

(* The next version extends an unbroken range of versions by one.          *)
LEMMA OneMoreVersion ==
  ASSUME NEW v \in Nat \ {0}
  PROVE  1..v = (1..(v - 1)) \cup {v}
OBVIOUS

(* Every statement of every process preserves the invariant.               *)
LEMMA StepMigratorInv == MigratorInv /\ [Next]_vars => MigratorInv'
<1> SUFFICES ASSUME MigratorInv, [Next]_vars PROVE MigratorInv'
    OBVIOUS
<1> USE MigratorAssumption DEF MigratorInv, AllVersions
<1>1. ASSUME UNCHANGED vars PROVE MigratorInv'
    BY <1>1 DEF vars, db, tx, TypeOK, NoGaps, LockHeld, LoopDone
<1>2. ASSUME NEW p \in Proc, Open(p) PROVE MigratorInv'
    BY <1>2 DEF Open, Goto, db, tx, TypeOK, NoGaps, LockHeld, LoopDone
<1>3. ASSUME NEW p \in Proc, EnsureVersionTable(p) PROVE MigratorInv'
    BY <1>3 DEF EnsureVersionTable, Goto, tx, TypeOK, NoGaps, LockHeld, LoopDone
<1>4. ASSUME NEW p \in Proc, Skip(p) PROVE MigratorInv'
  <2>1. /\ ver[p] \in 1..Versions /\ ver[p] \in recorded
        /\ 1..ver[p] \subseteq recorded
      BY <1>4 DEF Skip, NoGaps, LoopDone
  <2>2. TypeOK'
      BY <1>4, <2>1 DEF Skip, Goto, db, tx, TypeOK
  <2>3. NoGaps'
      BY <1>4 DEF Skip, db, NoGaps
  <2>4. LockHeld'
      BY <1>4 DEF Skip, Goto, db, tx, TypeOK, LockHeld
  <2>5. LoopDone'
      BY <1>4, <2>1 DEF Skip, Goto, db, tx, TypeOK, LoopDone
  <2> QED BY <2>2, <2>3, <2>4, <2>5
<1>5. ASSUME NEW p \in Proc, Missing(p) PROVE MigratorInv'
    BY <1>5 DEF Missing, Goto, db, tx, TypeOK, NoGaps, LockHeld, LoopDone
<1>6. ASSUME NEW p \in Proc, ExecMigration(p) PROVE MigratorInv'
    BY <1>6 DEF ExecMigration, Goto, db, TypeOK, NoGaps, LockHeld, LoopDone
<1>7. ASSUME NEW p \in Proc, Busy(p) PROVE MigratorInv'
    BY <1>7 DEF Busy, Goto, db, tx, TypeOK, NoGaps, LockHeld, LoopDone
<1>8. ASSUME NEW p \in Proc, Record(p) PROVE MigratorInv'
    BY <1>8 DEF Record, Goto, db, TypeOK, NoGaps, LockHeld, LoopDone
<1>9. ASSUME NEW p \in Proc, RecordConflict(p) PROVE MigratorInv'
    BY <1>9 DEF RecordConflict, Goto, NoTx, db, TypeOK, NoGaps, LockHeld, LoopDone
<1>10. ASSUME NEW p \in Proc, Commit(p) PROVE MigratorInv'
  <2> DEFINE v == ver[p]
  <2>1. /\ v \in 1..Versions /\ v \notin recorded
        /\ 1..(v - 1) \subseteq recorded
        /\ recorded' = recorded \cup {v} /\ schema' = schema \cup {v}
        /\ writer = p
      BY <1>10 DEF Commit, LockHeld, LoopDone
  <2>2. 1..v \subseteq recorded'
      BY <2>1, OneMoreVersion
  <2>3. TypeOK'
      BY <1>10, <2>1 DEF Commit, Goto, NoTx, TypeOK
  <2>4. NoGaps'
      BY <2>1, <2>2 DEF NoGaps
  <2>5. LockHeld'
      BY <1>10, <2>1 DEF Commit, Goto, NoTx, TypeOK, LockHeld
  <2>6. LoopDone'
      BY <1>10, <2>1, <2>2 DEF Commit, Goto, NoTx, TypeOK, LoopDone
  <2> QED BY <2>3, <2>4, <2>5, <2>6
<1>11. ASSUME NEW p \in Proc, StatementFails(p) PROVE MigratorInv'
    BY <1>11 DEF StatementFails, Goto, NoTx, db, tx, TypeOK, NoGaps, LockHeld, LoopDone
<1>12. ASSUME NEW p \in Proc, Crash(p) PROVE MigratorInv'
    BY <1>12 DEF Crash, Goto, NoTx, db, tx, TypeOK, NoGaps, LockHeld, LoopDone
<1> QED
    BY <1>1, <1>2, <1>3, <1>4, <1>5, <1>6, <1>7, <1>8, <1>9, <1>10, <1>11, <1>12
    DEF Next, Apply

(* The invariant holds in every state of the store.                        *)
LEMMA MigratorInvariance == Spec => []MigratorInv
BY InitMigratorInv, StepMigratorInv, PTL DEF Spec

-----------------------------------------------------------------------------
(* The variables of the migrator keep their shapes.                        *)
THEOREM MigratorTypeCorrect == Spec => []TypeOK
<1>1. MigratorInv => TypeOK
    BY DEF MigratorInv
<1> QED BY <1>1, MigratorInvariance, PTL

(* Whatever crashes, fails or races while the migrations run: a version is *)
(* recorded in schema_version exactly when its tables are committed, there *)
(* are no gaps, and a store that Open returns has every version.           *)
THEOREM StoreIsMigrated == Spec => []RecordedIsApplied
<1>1. MigratorInv => RecordedIsApplied
    BY DEF MigratorInv, TypeOK, NoGaps, LoopDone, RecordedIsApplied
<1> QED BY <1>1, MigratorInvariance, PTL

(* No two processes commit the same migration, and no committed migration  *)
(* is undone: the look at schema_version before the transaction is stale   *)
(* when it is used, and the primary key of schema_version makes up for it. *)
THEOREM MigrationsApplyOnce == Spec => AppliedOnce
<1> DEFINE Once ==
      /\ schema \subseteq schema'
      /\ \A p \in Proc : pc[p] = "commit" /\ ver'[p] # ver[p] =>
           tx_schema \cap schema = {}
<1>1. ASSUME MigratorInv, Next PROVE Once
  <2>1. schema \subseteq schema'
      BY <1>1 DEF Next, Apply, Open, EnsureVersionTable, Skip, Missing, db,
         ExecMigration, Busy, Record, RecordConflict, Commit, StatementFails, Crash
  <2>2. ASSUME NEW p \in Proc, pc[p] = "commit" PROVE tx_schema \cap schema = {}
      BY <1>1, <2>2 DEF MigratorInv, LockHeld, NoGaps
  <2> QED BY <2>1, <2>2
<1>2. MigratorInv /\ [Next]_vars => [Once]_vars
    BY <1>1
<1> QED BY <1>2, MigratorInvariance, PTL DEF Spec, AppliedOnce

=============================================================================
