------------------------------ MODULE Database ------------------------------
(***************************************************************************)
(* The database: one SqliteConnection, MigrationManager that brings its    *)
(* schema up to date, and the device and sensor repositories that share    *)
(* it.  Each repository has a mutex of its own, but a transaction belongs  *)
(* to the connection: whatever any thread executes joins the one that is   *)
(* open.  SQLite itself is modelled by what it promises: a statement takes *)
(* effect or fails as a whole, outside a transaction it is durable when it *)
(* returns, and a crash or a close undoes the transaction that is open.    *)
(*                                                                         *)
(* Rows are told apart by their key only: a device has a row or not, and   *)
(* it has readings or not.  A migration is any SQL that either takes       *)
(* effect or fails.                                                        *)
(***************************************************************************)
EXTENDS Integers

CONSTANTS
  Device, \* device ids
  Version \* versions of the registered migrations, in ascending order

ASSUME DatabaseAssumption == Version \subseteq Nat \ {0}

VARIABLES
  disk,       \* what a crash leaves: version rows, schema, devices, readings
  work,       \* what the connection sees
  tx,         \* a transaction is open
  migration,  \* what the process is doing: see TypeOK
  pending,    \* the migrations Migrate has still to run
  batch,      \* AddBatch in progress
  told,       \* devices whose last answered write says there is a row (history)
  riding,     \* devices last written in a transaction that is open (history)
  doubtful,   \* those of which it was rolled back, or the write failed (history)
  unrecorded, \* migrations that ran and whose version row was refused (history)
  misread,    \* the last CurrentVersion could not be read (history)
  leaked      \* AddBatch has thrown after its BEGIN (history)

store == <<disk, work, tx>>
calls == <<migration, pending, batch>>
promises == <<told, riding, doubtful>>
histories == <<unrecorded, misread, leaked>>
vars == <<store, calls, promises, histories>>

Contents == [rows : SUBSET Version, schema : SUBSET Version,
             devices : SUBSET Device, readings : SUBSET Device]
NoBatch == [busy |-> FALSE]
Batch == [busy : {TRUE}, todo : SUBSET Device, fresh : SUBSET Device]

\* Type invariant: contents, the state of Migrate and AddBatch, history.
TypeOK ==
  /\ disk \in Contents /\ work \in Contents
  /\ tx \in BOOLEAN
  /\ migration \in {"down", "opening", "opened", "applying", "recording", "committing", "ready"}
  /\ pending \subseteq Version
  /\ batch \in Batch \cup {NoBatch}
  /\ told \subseteq Device
  /\ riding \subseteq Device
  /\ doubtful \subseteq Device
  /\ unrecorded \subseteq Version
  /\ misread \in BOOLEAN
  /\ leaked \in BOOLEAN

Empty == [rows |-> {}, schema |-> {}, devices |-> {}, readings |-> {}]

\* A new database file, and no process.
Init ==
  /\ disk = Empty /\ work = Empty
  /\ tx = FALSE
  /\ migration = "down" /\ pending = {}
  /\ batch = NoBatch
  /\ told = {} /\ riding = {} /\ doubtful = {}
  /\ unrecorded = {} /\ misread = FALSE /\ leaked = FALSE

----------------------------------------------------------------------------
(* SQLite *)

\* A statement that takes effect.
Execute(contents) ==
  /\ work' = contents
  /\ disk' = IF tx THEN disk ELSE contents
  /\ UNCHANGED tx

Commit == disk' = work /\ tx' = FALSE /\ UNCHANGED work

\* The open transaction is undone, by the program, by SQLite on a severe error
\* or by a close.  Without one it is an error that nobody looks at.
Rollback == work' = disk /\ tx' = FALSE /\ UNCHANGED disk

\* What was answered in it, and the write of which ds are told, is in doubt.
Loses(ds) == riding' = {} /\ doubtful' = doubtful \cup riding \cup ds

----------------------------------------------------------------------------
(* SqliteConnection and MigrationManager::Migrate *)

\* The connection is opened.  A file that cannot be opened leaves all as it is.
Open ==
  /\ migration = "down"
  /\ migration' = "opening"
  /\ UNCHANGED <<store, pending, batch, promises, histories>>

\* Initialize gives up, by an error or by an exception, and the process ends.
GiveUp ==
  /\ migration' = "down" /\ pending' = {}
  /\ Rollback
  /\ UNCHANGED <<batch, promises, histories>>

\* The highest version row there is: what exceeds it is to be run.  A query that
\* fails counts as 0, so that all are; one that cannot be prepared, as on a file
\* that is no database or without the version table, throws out of Migrate.
CurrentVersion ==
  /\ migration = "opening"
  /\ \/ /\ migration' = "opened"
        /\ \/ pending' = {v \in Version : \A r \in work.rows : v > r} /\ misread' = FALSE
           \/ pending' = Version /\ misread' = TRUE
        /\ UNCHANGED <<store, batch, promises, unrecorded, leaked>>
     \/ GiveUp

\* Mutant of BeginMigration: no transaction is opened.
BeginMigrationBare ==
  /\ migration = "opened" /\ pending # {}
  /\ migration' = "applying"
  /\ UNCHANGED <<store, pending, batch, promises, histories>>

BeginMigration ==
  /\ migration = "opened" /\ pending # {}
  /\ \/ /\ migration' = "applying"
        /\ tx' = TRUE
        /\ UNCHANGED <<disk, work, pending, batch, promises, histories>>
     \/ GiveUp

\* The one whose turn it is.
IsNext(v) == v \in pending /\ \A u \in pending : v <= u

\* The SQL of the migration.  A failure is rolled back.
ApplyMigration(v) ==
  /\ migration = "applying" /\ IsNext(v)
  /\ \/ /\ migration' = "recording"
        /\ Execute([work EXCEPT !.schema = @ \cup {v}])
        /\ UNCHANGED <<pending, batch, promises, histories>>
     \/ GiveUp

\* Mutant of RecordMigration: the row holds the version the schema had before.
RecordMigrationBefore(v) ==
  /\ migration = "recording" /\ IsNext(v)
  /\ \/ /\ migration' = "committing"
        /\ Execute([work EXCEPT !.rows = @ \cup {v - 1}])
        /\ UNCHANGED <<pending, batch, promises, histories>>
     \/ GiveUp

\* The version row.  Nobody looks at what Step returns: a refused row leaves
\* the migration to be committed without it, and after a severe error there is
\* no transaction any more.
RecordMigration(v) ==
  /\ migration = "recording" /\ IsNext(v)
  /\ \/ /\ migration' = "committing"
        /\ \/ Execute([work EXCEPT !.rows = @ \cup {v}]) /\ UNCHANGED unrecorded
           \/ UNCHANGED store /\ unrecorded' = unrecorded \cup {v}
           \/ Rollback /\ UNCHANGED unrecorded
        /\ UNCHANGED <<pending, batch, promises, misread, leaked>>
     \/ GiveUp

CommitMigration(v) ==
  /\ migration = "committing" /\ IsNext(v)
  /\ \/ /\ tx /\ Commit
        /\ migration' = "opened"
        /\ pending' = pending \ {v}
        /\ UNCHANGED <<batch, promises, histories>>
     \/ GiveUp

\* Migrate returns, and Initialize makes the repositories.
Migrated ==
  /\ migration = "opened" /\ pending = {}
  /\ migration' = "ready"
  /\ UNCHANGED <<store, pending, batch, promises, histories>>

----------------------------------------------------------------------------
(* SqliteDeviceRepository, under its mutex *)

\* The statement takes effect; or Step fails, for itself or with the whole
\* transaction, and the caller is told the same.
DeviceWrites(d, contents) ==
  /\ migration = "ready"
  /\ \/ /\ Execute(contents)
        /\ riding' = IF tx THEN riding \cup {d} ELSE riding
        /\ doubtful' = doubtful \ {d}
     \/ /\ UNCHANGED <<store, riding>>
        /\ doubtful' = doubtful \cup {d}
     \/ Rollback /\ Loses({d})
  /\ UNCHANGED <<calls, histories>>

\* (An id that exists is refused by the primary key, and answered in the same way.)
AddDevice(d) ==
  /\ DeviceWrites(d, [work EXCEPT !.devices = @ \cup {d}])
  /\ told' = told \cup {d}

\* The readings go with the device.  Whether the answer is success or
\* DeviceNotFound, it says that there is no such device.
RemoveDevice(d) ==
  /\ DeviceWrites(d, [work EXCEPT !.devices = @ \ {d}, !.readings = @ \ {d}])
  /\ told' = told \ {d}

----------------------------------------------------------------------------
(* SqliteSensorRepository, under its mutex *)

\* The row of a reading, which needs the row of its device; or nothing, by
\* that constraint or another failure.
InsertReading(d) ==
  \/ d \in work.devices /\ Execute([work EXCEPT !.readings = @ \cup {d}])
       /\ UNCHANGED <<riding, doubtful>>
  \/ UNCHANGED <<store, riding, doubtful>>
  \/ Rollback /\ Loses({})

AddReading(d) ==
  /\ migration = "ready" /\ ~batch.busy
  /\ InsertReading(d)
  /\ UNCHANGED <<calls, told, histories>>

\* Purge: the readings of some devices are all older than the retention time.
Purge(ds) ==
  /\ migration = "ready" /\ ~batch.busy
  /\ Execute([work EXCEPT !.readings = @ \ ds])
  /\ UNCHANGED <<calls, promises, histories>>

\* AddBatch: BEGIN TRANSACTION fails if there is one.  The statement that is
\* prepared next may throw, and nothing ends the transaction then.
BatchBegins(ds) ==
  /\ migration = "ready" /\ ~batch.busy /\ ds # {}
  /\ ~tx
  /\ tx' = TRUE
  /\ \/ batch' = [busy |-> TRUE, todo |-> ds, fresh |-> ds \ work.readings] /\ UNCHANGED leaked
     \/ leaked' = TRUE /\ UNCHANGED batch
  /\ UNCHANGED <<disk, work, migration, pending, promises, unrecorded, misread>>

BatchInserts(d) ==
  /\ batch.busy /\ d \in batch.todo
  /\ batch' = [batch EXCEPT !.todo = @ \ {d}]
  /\ InsertReading(d)
  /\ UNCHANGED <<migration, pending, told, histories>>

\* Mutant of BatchEnds: a COMMIT that fails is not followed by a ROLLBACK.
BatchEndsOpen ==
  /\ batch.busy /\ batch.todo = {}
  /\ batch' = NoBatch
  /\ \/ tx /\ Commit /\ riding' = {} /\ UNCHANGED doubtful
     \/ UNCHANGED <<store, riding, doubtful>>
  /\ UNCHANGED <<migration, pending, told, histories>>

\* COMMIT; if that fails, as it does without a transaction, ROLLBACK.
BatchEnds ==
  /\ batch.busy /\ batch.todo = {}
  /\ batch' = NoBatch
  /\ \/ tx /\ Commit /\ riding' = {} /\ UNCHANGED doubtful
     \/ Rollback /\ Loses({})
  /\ UNCHANGED <<migration, pending, told, histories>>

----------------------------------------------------------------------------

\* The process ends, at any point: it crashes, or the connection is closed.
Crash ==
  /\ migration # "down"
  /\ migration' = "down" /\ pending' = {}
  /\ batch' = NoBatch
  /\ Rollback /\ Loses({})
  /\ leaked' = FALSE
  /\ UNCHANGED <<told, unrecorded, misread>>

Migrate == \/ Open \/ CurrentVersion \/ BeginMigration \/ Migrated
           \/ \E v \in Version : ApplyMigration(v) \/ RecordMigration(v) \/ CommitMigration(v)

Next == \/ Migrate
        \/ \E d \in Device : AddDevice(d) \/ RemoveDevice(d) \/ AddReading(d) \/ BatchInserts(d)
        \/ \E ds \in SUBSET Device : Purge(ds) \/ BatchBegins(ds)
        \/ BatchEnds
        \/ Crash

Spec == Init /\ [][Next]_vars

----------------------------------------------------------------------------
(* Properties *)

\* Whenever the process ends, the version rows on disk name migrations that have
\* run, and all that have run but those whose row was refused: the next start
\* skips no migration, and has all run when Migrate succeeds.  It runs one again
\* only if its row was refused or the version could not be read.
SchemaIsVersioned ==
  /\ disk.rows \subseteq disk.schema
  /\ disk.schema \ disk.rows \subseteq unrecorded
  /\ migration = "ready" => disk.schema = Version
  /\ misread \/ pending \cap disk.schema \subseteq unrecorded

\* Whenever the process ends, the disk has what callers were told of a device,
\* unless that was said inside a transaction of AddBatch, or of a failed write.
AcknowledgedIsKept ==
  \A d \in Device \ (riding \cup doubtful) : d \in disk.devices <=> d \in told

\* As long as its transaction stands, nothing of a batch is on disk.
BatchIsWhole == batch.busy /\ tx => batch.fresh \cap disk.readings = {}

\* A transaction is open for a migration, for a batch, or as AddBatch has thrown.
NothingLeftOpen ==
  tx => migration \in {"applying", "recording", "committing"} \/ batch.busy \/ leaked

CrashKeepsPromises == AcknowledgedIsKept /\ BatchIsWhole /\ NothingLeftOpen
=============================================================================
