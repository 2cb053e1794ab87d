----------------------------- MODULE Migrations -----------------------------
(***************************************************************************)
(* Versioned changes of the database (database/database-migrations.ts),    *)
(* run by every process that is started for them, under one lock in the    *)
(* database whose lease is renewed while its owner works.  Requests that   *)
(* write are refused until all of them are recorded. A process looks       *)
(* whether it still has the lock before every write, but it writes         *)
(* afterwards: a process that stalls in between writes late.               *)
(***************************************************************************)
EXTENDS Naturals, Sequences, FiniteSets, FiniteSetsExt, Functions

CONSTANTS
  Migrators,        \* processes started to run the migrations
  OldDocuments,     \* what an update may have to change, by ascending id
  Plan,             \* the migrations: sequences of [do, on]
  DeclaredIndexes,  \* the indexes of the schemas
  LegacyIndexes,    \* those that only the previous version had
  MigrationBatch,   \* MIGRATION_BATCH_SIZE
  MaxLeaseLosses, MaxMigratorDeaths

Operations == [do: {"update", "merge", "ensure", "verify", "drop"}, on: STRING]

(* The indexes that a migration creates are those of the schemas, and the  *)
(* ones it drops are not.                                                  *)
ASSUME MigrationsAssumption ==
  /\ "none" \notin Migrators
  /\ OldDocuments \subseteq Nat \ {0} /\ IsFiniteSet(OldDocuments)
  /\ MigrationBatch \in Nat \ {0}
  /\ MaxLeaseLosses \in Nat /\ MaxMigratorDeaths \in Nat
  /\ Plan \in Seq(Seq(Operations))
  /\ \A m \in DOMAIN Plan : \A op \in Range(Plan[m]) :
       /\ op.do \in {"ensure", "verify"} => op.on \in DeclaredIndexes
       /\ op.do = "drop" => op.on \notin DeclaredIndexes

VARIABLES
  unchanged,        \* unchanged[f]: documents that an update of f has to change
  indexes,          \* the indexes that exist
  records,          \* the migrations that are recorded as applied
  lock,             \* [owner, live]: who has the lock, and whether the lease runs
  migrator,         \* migrator[p]: where process p is
  late,             \* ghost: late[p]: its writes since it lost the lock
  leaseLosses, migratorDeaths

migrationVars == <<unchanged, indexes, records, lock, migrator, late,
                   leaseLosses, migratorDeaths>>
schemaVars    == <<unchanged, indexes, records>>
faultVars     == <<leaseLosses, migratorDeaths>>

(* The fields that the updates and merges of the plan change.              *)
Fields == UNION {{op.on : op \in {o \in Range(Plan[m]) : o.do \in {"update", "merge"}}} :
                   m \in DOMAIN Plan}

Free    == [owner |-> "none", live |-> FALSE]
Away    == [st |-> "away"]
Begun   == [st |-> "next", m |-> 1, k |-> 1, batch |-> {}, last |-> 0, done |-> {}]

MigrationInit ==
  /\ unchanged = [f \in Fields |-> OldDocuments]
  /\ indexes = LegacyIndexes
  /\ records = {}
  /\ lock = Free
  /\ migrator = [p \in Migrators |-> Away]
  /\ late = [p \in Migrators |-> 0]
  /\ leaseLosses = 0 /\ migratorDeaths = 0

MigratorAt(p, st) == migrator[p].st = st
Holds(p) == lock.owner = p /\ lock.live

(* An operation writes; a process without the lock does so too late.       *)
CountLate(p) == late' = [late EXCEPT ![p] = IF lock.owner = p THEN 0 ELSE @ + 1]

-----------------------------------------------------------------------------
(* withMigrationLock: takes a lock that nobody has or whose lease ran out; *)
(* the upsert meets the unique id of a lock that somebody has.             *)
TakeLock(p) ==
  /\ MigratorAt(p, "away") /\ ~lock.live
  /\ lock' = [owner |-> p, live |-> TRUE]
  /\ migrator' = [migrator EXCEPT ![p] = Begun]
  /\ late' = [late EXCEPT ![p] = 0]
  /\ UNCHANGED <<schemaVars, faultVars>>

(* finally: deletes its own lock, and no other.                            *)
Leave(p) ==
  /\ lock' = IF lock.owner = p THEN Free ELSE lock
  /\ migrator' = [migrator EXCEPT ![p] = Away]
  /\ late' = [late EXCEPT ![p] = 0]

(* Mutant: the lock is looked at once, at the beginning.                   *)
BugCheckedOnce(p, st) ==
  migrator' = [migrator EXCEPT ![p].st = st] /\ UNCHANGED <<lock, late>>

(* assertHeld, and then on to the next step; it throws without the lock.   *)
AssertHeld(p, st) ==
  IF Holds(p)
  THEN migrator' = [migrator EXCEPT ![p].st = st] /\ UNCHANGED <<lock, late>>
  ELSE Leave(p)

Throws(p) == Leave(p) /\ UNCHANGED <<schemaVars, faultVars>>

(* The lookup of the record: on to the first migration that is missing.    *)
NextMigration(p) ==
  /\ MigratorAt(p, "next")
  /\ LET m == migrator[p].m
     IN  migrator' = [migrator EXCEPT ![p] =
           IF m > Len(Plan) THEN [@ EXCEPT !.st = "sync_check"]
           ELSE IF m \in records THEN [@ EXCEPT !.m = m + 1]
           ELSE [@ EXCEPT !.st = "check", !.k = 1, !.last = 0]]
  /\ UNCHANGED <<schemaVars, lock, late, faultVars>>

AllDone(p) == migrator[p].k > Len(Plan[migrator[p].m])
Operation(p) == Plan[migrator[p].m][migrator[p].k]

(* The check before an operation, or after the last one of a migration.    *)
Check(p) ==
  /\ MigratorAt(p, "check")
  /\ IF AllDone(p)
     THEN IF Holds(p)
          THEN /\ migrator' = [migrator EXCEPT
                    ![p].st = "next", ![p].m = @ + 1, ![p].done = @ \cup {migrator[p].m}]
               /\ UNCHANGED <<lock, late>>
          ELSE Leave(p)
     ELSE AssertHeld(p, Operation(p).do)
  /\ UNCHANGED <<schemaVars, faultVars>>

(* The next operation of the migration.                                    *)
Onward(p) == migrator' = [migrator EXCEPT ![p].st = "check", ![p].k = @ + 1, ![p].last = 0]

Smallest(n, S) == {x \in S : Cardinality({y \in S : y < x}) < n}

-----------------------------------------------------------------------------
(* updateInBatches: reads the ids of a batch ...                           *)
FindBatch(p) ==
  /\ MigratorAt(p, "update")
  /\ LET found == {d \in unchanged[Operation(p).on] : d > migrator[p].last}
     IN  IF found = {} THEN Onward(p)
         ELSE migrator' = [migrator EXCEPT ![p].st = "batch_check",
                             ![p].batch = Smallest(MigrationBatch, found)]
  /\ UNCHANGED <<schemaVars, lock, late, faultVars>>

CheckBatch(p) ==
  /\ MigratorAt(p, "batch_check") /\ AssertHeld(p, "batch")
  /\ UNCHANGED <<schemaVars, faultVars>>

(* ... and updates those that still need it.                               *)
UpdateBatch(p) ==
  /\ MigratorAt(p, "batch")
  /\ unchanged' = [unchanged EXCEPT ![Operation(p).on] = @ \ migrator[p].batch]
  /\ migrator' = [migrator EXCEPT ![p].st = "check", ![p].last = Max(migrator[p].batch),
                                  ![p].batch = {}]
  /\ CountLate(p)
  /\ UNCHANGED <<indexes, records, lock, faultVars>>

(* mergeLatestCircleCreationTimes: one aggregation, which raises times.    *)
Merge(p) ==
  /\ MigratorAt(p, "merge")
  /\ unchanged' = [unchanged EXCEPT ![Operation(p).on] = {}]
  /\ Onward(p) /\ CountLate(p)
  /\ UNCHANGED <<indexes, records, lock, faultVars>>

(* ensureExpectedIndex: creating an index that exists changes nothing.     *)
EnsureIndex(p) ==
  /\ MigratorAt(p, "ensure")
  /\ indexes' = indexes \cup {Operation(p).on}
  /\ Onward(p) /\ CountLate(p)
  /\ UNCHANGED <<unchanged, records, lock, faultVars>>

(* verifyExpectedIndex.                                                    *)
VerifyIndex(p) ==
  /\ MigratorAt(p, "verify")
  /\ IF Operation(p).on \in indexes
     THEN Onward(p) /\ UNCHANGED <<schemaVars, lock, late, faultVars>>
     ELSE Throws(p)

(* dropExpectedLegacyIndex: lists the indexes ...                          *)
FindLegacyIndex(p) ==
  /\ MigratorAt(p, "drop")
  /\ IF Operation(p).on \in indexes THEN migrator' = [migrator EXCEPT ![p].st = "dropping"]
     ELSE Onward(p)
  /\ UNCHANGED <<schemaVars, lock, late, faultVars>>

(* ... and drops the one it has found; that throws if it has gone since.   *)
DropLegacyIndex(p) ==
  /\ MigratorAt(p, "dropping")
  /\ IF Operation(p).on \in indexes
     THEN /\ indexes' = indexes \ {Operation(p).on}
          /\ Onward(p) /\ CountLate(p)
          /\ UNCHANGED <<unchanged, records, lock, faultVars>>
     ELSE Throws(p)

-----------------------------------------------------------------------------
(* Before and after the finalizer, and at the very end.                    *)
CheckAround(p) ==
  /\ \/ MigratorAt(p, "sync_check") /\ AssertHeld(p, "sync")
     \/ MigratorAt(p, "synced") /\ AssertHeld(p, "record")
     \/ MigratorAt(p, "recorded") /\ Leave(p)
  /\ UNCHANGED <<schemaVars, faultVars>>

(* syncDatabaseIndexes: creates what is missing; an index it would have to *)
(* drop makes it throw.                                                    *)
SyncIndexes(p) ==
  /\ MigratorAt(p, "sync")
  /\ IF indexes \subseteq DeclaredIndexes
     THEN /\ indexes' = DeclaredIndexes
          /\ migrator' = [migrator EXCEPT ![p].st = "synced"]
          /\ CountLate(p)
          /\ UNCHANGED <<unchanged, records, lock, faultVars>>
     ELSE Throws(p)

MayRecord(p) == MigratorAt(p, "record")

(* The records are inserted without another look at the lock; one that     *)
(* another process has inserted is compared with it.                       *)
Record(p) ==
  /\ MayRecord(p)
  /\ IF migrator[p].done = {}
     THEN migrator' = [migrator EXCEPT ![p].st = "recorded"] /\ UNCHANGED records
     ELSE LET m == Min(migrator[p].done)
          IN  /\ records' = records \cup {m}
              /\ migrator' = [migrator EXCEPT ![p].done = @ \ {m}]
  /\ UNCHANGED <<unchanged, indexes, lock, late, faultVars>>

-----------------------------------------------------------------------------
(* The timer of the owner: it extends a lease that has run out as well.    *)
RenewLease(p) ==
  /\ lock.owner = p /\ ~lock.live /\ ~MigratorAt(p, "away")
  /\ lock' = [lock EXCEPT !.live = TRUE]
  /\ UNCHANGED <<schemaVars, migrator, late, faultVars>>

(* The owner stalls, or its renewals do not arrive.                        *)
LeaseRunsOff ==
  /\ lock.live /\ leaseLosses < MaxLeaseLosses
  /\ lock' = [lock EXCEPT !.live = FALSE]
  /\ leaseLosses' = leaseLosses + 1
  /\ UNCHANGED <<schemaVars, migrator, late, migratorDeaths>>

(* A process dies, and the lock stays behind until its lease runs out.     *)
MigratorDies(p) ==
  /\ ~MigratorAt(p, "away") /\ migratorDeaths < MaxMigratorDeaths
  /\ migrator' = [migrator EXCEPT ![p] = Away]
  /\ late' = [late EXCEPT ![p] = 0]
  /\ lock' = IF lock.owner = p THEN [lock EXCEPT !.live = FALSE] ELSE lock
  /\ migratorDeaths' = migratorDeaths + 1
  /\ UNCHANGED <<schemaVars, leaseLosses>>

(* The database, a renewal or a check fails, and the process gives up.     *)
MigratorFails(p) == ~MigratorAt(p, "away") /\ Throws(p)

MigratorStep(p) ==
  \/ TakeLock(p) \/ NextMigration(p) \/ Check(p) \/ FindBatch(p) \/ CheckBatch(p)
  \/ UpdateBatch(p) \/ Merge(p) \/ EnsureIndex(p) \/ VerifyIndex(p) \/ FindLegacyIndex(p)
  \/ DropLegacyIndex(p) \/ CheckAround(p) \/ SyncIndexes(p) \/ Record(p) \/ RenewLease(p)

MigrationNext ==
  \/ \E p \in Migrators : MigratorStep(p) \/ MigratorFails(p) \/ MigratorDies(p)
  \/ LeaseRunsOff

MigrationSpec == MigrationInit /\ [][MigrationNext]_migrationVars

-----------------------------------------------------------------------------
MigrationTypeOK ==
  /\ \A f \in Fields : unchanged[f] \subseteq OldDocuments
  /\ indexes \subseteq DeclaredIndexes \cup LegacyIndexes
  /\ records \subseteq 1..Len(Plan)
  /\ lock.owner \in Migrators \cup {"none"}

Applied(op) ==
  CASE op.do \in {"update", "merge"}  -> unchanged[op.on] = {}
    [] op.do \in {"ensure", "verify"} -> op.on \in indexes
    [] op.do = "drop"                 -> op.on \notin indexes

(* A migration that is recorded has been applied completely, and a process *)
(* that writes late does not undo what it did.                             *)
RecordedIsApplied ==
  /\ records # {} => indexes = DeclaredIndexes
  /\ \A m \in records : \A op \in Range(Plan[m]) : Applied(op)

(* A process that has lost the lock writes once more at most, before it    *)
(* notices.                                                                *)
OneLateWrite == \A p \in Migrators : late[p] <= 1

(* Requests that write meet a database that every migration has changed    *)
(* completely, although several processes ran them and lost the lock.      *)
SchemaIsMigrated == RecordedIsApplied /\ OneLateWrite

=============================================================================
