--------------------------- MODULE Database_proofs ---------------------------
(***************************************************************************)
(* Proofs about Database, for every set of devices and of versions: its    *)
(* types, that version rows and schema agree at every crash, and that      *)
(* what callers were told is on disk.                                      *)
(***************************************************************************)
EXTENDS Database, TLAPS

\* What the connection sees after a statement has the type of contents.
LEMMA ExecuteTypes ==
  ASSUME TypeOK, NEW c \in Contents, Execute(c)
  PROVE  disk' \in Contents /\ work' \in Contents /\ tx' \in BOOLEAN
BY DEF TypeOK, Execute

LEMMA CommitTypes ==
  ASSUME TypeOK, Commit
  PROVE  disk' \in Contents /\ work' \in Contents /\ tx' \in BOOLEAN
BY DEF TypeOK, Commit

LEMMA RollbackTypes ==
  ASSUME TypeOK, Rollback
  PROVE  disk' \in Contents /\ work' \in Contents /\ tx' \in BOOLEAN
BY DEF TypeOK, Rollback

LEMMA LosesTypes ==
  ASSUME TypeOK, NEW ds \in SUBSET Device, Loses(ds)
  PROVE  riding' \subseteq Device /\ doubtful' \subseteq Device
BY DEF TypeOK, Loses

\* What Purge leaves has the type of contents.
LEMMA PurgedIsContents ==
  ASSUME TypeOK, NEW ds \in SUBSET Device
  PROVE  [work EXCEPT !.readings = @ \ ds] \in Contents
BY DEF TypeOK, Contents

LEMMA InsertTypes ==
  ASSUME TypeOK, NEW d \in Device, InsertReading(d)
  PROVE  /\ disk' \in Contents /\ work' \in Contents /\ tx' \in BOOLEAN
         /\ riding' \subseteq Device /\ doubtful' \subseteq Device
<1>1. CASE /\ Execute([work EXCEPT !.readings = @ \cup {d}])
           /\ UNCHANGED <<riding, doubtful>>
  <2>1. [work EXCEPT !.readings = @ \cup {d}] \in Contents
    BY DEF TypeOK, Contents
  <2>2. QED
    BY <1>1, <2>1, ExecuteTypes DEF TypeOK
<1>2. CASE UNCHANGED <<store, riding, doubtful>>
  BY <1>2 DEF TypeOK, store
<1>3. CASE Rollback /\ Loses({})
  BY <1>3, RollbackTypes, LosesTypes
<1>4. QED
  BY <1>1, <1>2, <1>3 DEF InsertReading

LEMMA DeviceWriteTypes ==
  ASSUME TypeOK, NEW d \in Device, NEW c \in Contents, DeviceWrites(d, c)
  PROVE  /\ disk' \in Contents /\ work' \in Contents /\ tx' \in BOOLEAN
         /\ riding' \subseteq Device /\ doubtful' \subseteq Device
<1>1. CASE /\ Execute(c)
           /\ riding' = IF tx THEN riding \cup {d} ELSE riding
           /\ doubtful' = doubtful \ {d}
  BY <1>1, ExecuteTypes DEF TypeOK
<1>2. CASE UNCHANGED <<store, riding>> /\ doubtful' = doubtful \cup {d}
  BY <1>2 DEF TypeOK, store
<1>3. CASE Rollback /\ Loses({d})
  BY <1>3, RollbackTypes, LosesTypes
<1>4. QED
  BY <1>1, <1>2, <1>3 DEF DeviceWrites

LEMMA MigrateTypes == TypeOK /\ Migrate => TypeOK'
<1> SUFFICES ASSUME TypeOK, Migrate PROVE TypeOK'
  OBVIOUS
<1> USE DEF calls, promises, histories
<1>1. ASSUME GiveUp, UNCHANGED <<batch, promises, histories>> PROVE TypeOK'
  BY <1>1, RollbackTypes DEF GiveUp, TypeOK
<1>2. CASE Open
  BY <1>2 DEF Open, TypeOK, store
<1>9. CASE CurrentVersion
  BY <1>9, <1>1 DEF CurrentVersion, GiveUp, TypeOK, store
<1>3. CASE BeginMigration
  BY <1>3, <1>1 DEF BeginMigration, GiveUp, TypeOK
<1>4. CASE Migrated
  BY <1>4 DEF Migrated, TypeOK, store
<1>5. ASSUME NEW v \in Version, ApplyMigration(v) PROVE TypeOK'
  <2>1. CASE /\ migration' = "recording"
             /\ Execute([work EXCEPT !.schema = @ \cup {v}])
             /\ UNCHANGED <<pending, batch, promises, histories>>
    <3>1. [work EXCEPT !.schema = @ \cup {v}] \in Contents
      BY DEF TypeOK, Contents
    <3>2. QED
      BY <2>1, <3>1, ExecuteTypes DEF TypeOK
  <2>2. QED
    BY <1>5, <1>1, <2>1 DEF ApplyMigration, GiveUp
<1>6. ASSUME NEW v \in Version, RecordMigration(v) PROVE TypeOK'
  <2>1. [work EXCEPT !.rows = @ \cup {v}] \in Contents
    BY DEF TypeOK, Contents
  <2>2. CASE /\ migration' = "committing"
             /\ \/ Execute([work EXCEPT !.rows = @ \cup {v}]) /\ UNCHANGED unrecorded
                \/ UNCHANGED store /\ unrecorded' = unrecorded \cup {v}
                \/ Rollback /\ UNCHANGED unrecorded
             /\ UNCHANGED <<pending, batch, promises, misread, leaked>>
    <3>1. disk' \in Contents /\ work' \in Contents /\ tx' \in BOOLEAN
      BY <2>1, <2>2, ExecuteTypes, RollbackTypes DEF TypeOK, store
    <3>2. unrecorded' \subseteq Version
      BY <2>2 DEF TypeOK
    <3>3. QED
      BY <2>2, <3>1, <3>2 DEF TypeOK
  <2>3. QED
    BY <1>6, <1>1, <2>2 DEF RecordMigration, GiveUp
<1>7. ASSUME NEW v \in Version, CommitMigration(v) PROVE TypeOK'
  <2>1. CASE /\ Commit /\ migration' = "opened" /\ pending' = pending \ {v}
             /\ UNCHANGED <<batch, promises, histories>>
    BY <2>1, CommitTypes DEF TypeOK
  <2>2. QED
    BY <1>7, <1>1, <2>1 DEF CommitMigration, GiveUp
<1>8. QED
  BY <1>2, <1>3, <1>4, <1>5, <1>6, <1>7, <1>9 DEF Migrate

LEMMA WriteTypes ==
  ASSUME TypeOK, NEW d \in Device,
         AddDevice(d) \/ RemoveDevice(d) \/ AddReading(d) \/ BatchInserts(d)
  PROVE  TypeOK'
<1> USE DEF calls, promises, histories
<1>1. CASE AddDevice(d)
  <2>1. [work EXCEPT !.devices = @ \cup {d}] \in Contents
    BY DEF TypeOK, Contents
  <2>2. QED
    BY <1>1, <2>1, DeviceWriteTypes DEF AddDevice, DeviceWrites, TypeOK
<1>2. CASE RemoveDevice(d)
  <2>1. [work EXCEPT !.devices = @ \ {d}, !.readings = @ \ {d}] \in Contents
    BY DEF TypeOK, Contents
  <2>2. QED
    BY <1>2, <2>1, DeviceWriteTypes DEF RemoveDevice, DeviceWrites, TypeOK
<1>3. CASE AddReading(d)
  BY <1>3, InsertTypes DEF AddReading, TypeOK
<1>4. CASE BatchInserts(d)
  <2>1. batch \in Batch
    BY <1>4 DEF BatchInserts, TypeOK, NoBatch
  <2>2. batch' \in Batch
    BY <1>4, <2>1 DEF BatchInserts, Batch
  <2>3. QED
    BY <1>4, <2>2, InsertTypes DEF BatchInserts, TypeOK
<1>5. QED
  BY <1>1, <1>2, <1>3, <1>4

LEMMA TypeStep == TypeOK /\ [Next]_vars => TypeOK'
<1> SUFFICES ASSUME TypeOK, [Next]_vars PROVE TypeOK'
  OBVIOUS
<1> USE DEF calls, promises, histories
<1>1. ASSUME NEW ds \in SUBSET Device, Purge(ds) PROVE TypeOK'
  BY <1>1, PurgedIsContents, ExecuteTypes DEF Purge, TypeOK
<1>2. ASSUME NEW ds \in SUBSET Device, BatchBegins(ds) PROVE TypeOK'
  <2>1. [busy |-> TRUE, todo |-> ds, fresh |-> ds \ work.readings] \in Batch
    BY DEF Batch
  <2>2. batch' \in Batch \cup {NoBatch} /\ leaked' \in BOOLEAN
    BY <1>2, <2>1 DEF BatchBegins, TypeOK
  <2>3. QED
    BY <1>2, <2>2 DEF BatchBegins, TypeOK
<1>3. CASE BatchEnds
  BY <1>3, CommitTypes, RollbackTypes, LosesTypes DEF BatchEnds, TypeOK
<1>4. CASE Crash
  BY <1>4, RollbackTypes, LosesTypes DEF Crash, TypeOK
<1>5. CASE UNCHANGED vars
  BY <1>5 DEF vars, TypeOK, store
<1>6. QED
  BY <1>1, <1>2, <1>3, <1>4, <1>5, MigrateTypes, WriteTypes DEF Next

\* Every reachable state of the database is of the types declared for it.
THEOREM DatabaseTypes == Spec => []TypeOK
<1>1. Init => TypeOK
  <2>1. Empty \in Contents
    BY DEF Empty, Contents
  <2>2. QED
    BY <2>1 DEF Init, TypeOK
<1>2. QED
  BY <1>1, TypeStep, PTL DEF Spec

----------------------------------------------------------------------------
(* Migrations.  What Migrate keeps while it is at work:                    *)

\* Rows and schema agree on disk, and no version is there without those below.
Recorded ==
  /\ disk.rows \subseteq disk.schema
  /\ disk.schema \ disk.rows \subseteq unrecorded
  /\ \A v \in disk.schema, u \in Version : u <= v => u \in disk.schema

\* What Migrate does not still have to run is there; and it has still to run
\* what is not, if it could read the version.
Applied ==
  /\ migration \notin {"down", "opening"} => Version \ pending \subseteq disk.schema
  /\ migration = "ready" => pending = {}
  /\ misread \/ pending \cap disk.schema \subseteq unrecorded

\* What the connection sees of it: all is as on disk, but for the migration
\* whose transaction is open.
Seen ==
  /\ ~tx => work = disk
  /\ migration \in {"down", "opening", "opened"} => ~tx
  /\ migration \in {"applying", "recording"} => tx
  /\ migration \in {"applying", "ready"}
       => work.rows = disk.rows /\ work.schema = disk.schema
  /\ \A v \in Version : IsNext(v) /\ migration = "recording"
       => work.rows = disk.rows /\ work.schema = disk.schema \cup {v}
  /\ \A v \in Version : IsNext(v) /\ migration = "committing" /\ tx
       => /\ work.schema = disk.schema \cup {v}
          /\ disk.rows \subseteq work.rows /\ work.rows \subseteq disk.rows \cup {v}
          /\ {v} \ work.rows \subseteq unrecorded

SchemaInv == Recorded /\ Applied /\ Seen

LEMMA NextIsOne ==
  ASSUME NEW u \in Version, NEW v \in Version, IsNext(u), IsNext(v)
  PROVE  u = v
BY DatabaseAssumption DEF IsNext

LEMMA GiveUpKeepsSchema ==
  ASSUME TypeOK, SchemaInv, Rollback, migration' = "down", unrecorded \subseteq unrecorded', pending' = {}
  PROVE  SchemaInv'
BY DEF SchemaInv, Recorded, Applied, Seen, Rollback

LEMMA OpenKeepsSchema ==
  ASSUME TypeOK, SchemaInv, Open
  PROVE  SchemaInv'
BY DEF Open, SchemaInv, Recorded, Applied, Seen, store, histories

\* Whether or not it could be read, what lies below the version has run.
LEMMA VersionKeepsSchema ==
  ASSUME TypeOK, SchemaInv, CurrentVersion
  PROVE  SchemaInv'
<1> USE DEF store, histories
<1>1. CASE GiveUp
  BY <1>1, GiveUpKeepsSchema DEF GiveUp
<1>2. CASE ~GiveUp
  <2>1. /\ UNCHANGED <<disk, work, tx, unrecorded>> /\ migration' = "opened" /\ ~tx /\ work = disk
        /\ \/ pending' = {v \in Version : \A r \in work.rows : v > r}
           \/ pending' = Version /\ misread'
    BY <1>2 DEF CurrentVersion, SchemaInv, Seen
  <2>2. Recorded'
    BY <2>1 DEF SchemaInv, Recorded
  <2>3. ASSUME NEW u \in Version \ pending' PROVE u \in disk.schema
    <3>1. PICK r \in disk.rows : ~(u > r)
      BY <2>1, <2>3
    <3>2. r \in Version /\ r \in disk.schema
      BY DEF TypeOK, Contents, SchemaInv, Recorded
    <3>3. u <= r
      BY <3>1, <3>2, DatabaseAssumption
    <3>4. QED
      BY <3>2, <3>3 DEF SchemaInv, Recorded
  <2>4. misread' \/ pending' \cap disk.schema \subseteq unrecorded
    <3>1. SUFFICES ASSUME pending' = {v \in Version : \A r \in work.rows : v > r},
                          NEW u \in pending', u \in disk.schema
                   PROVE  u \in unrecorded
      BY <2>1
    <3>2. u \notin disk.rows
      BY <2>1, <3>1, DatabaseAssumption
    <3>3. QED
      BY <3>1, <3>2 DEF SchemaInv, Recorded
  <2>5. Applied'
    BY <2>1, <2>3, <2>4 DEF Applied
  <2>6. Seen'
    BY <2>1 DEF Seen
  <2>7. QED
    BY <2>2, <2>5, <2>6 DEF SchemaInv
<1>3. QED
  BY <1>1, <1>2

LEMMA ApplyKeepsSchema ==
  ASSUME TypeOK, SchemaInv, NEW v \in Version, ApplyMigration(v)
  PROVE  SchemaInv'
<1> USE DEF histories
<1>1. CASE /\ migration' = "recording"
           /\ Execute([work EXCEPT !.schema = @ \cup {v}])
           /\ UNCHANGED <<pending, batch, promises, histories>>
  <2>1. tx /\ work.rows = disk.rows /\ work.schema = disk.schema /\ IsNext(v)
    BY DEF ApplyMigration, SchemaInv, Seen
  <2>2. UNCHANGED <<disk, tx, pending, unrecorded>>
    BY <1>1, <2>1 DEF Execute
  <2>3. work'.rows = disk.rows /\ work'.schema = disk.schema \cup {v}
    BY <1>1, <2>1 DEF Execute, TypeOK, Contents
  <2>4. \A u \in Version : IsNext(u)' => u = v
    BY <2>1, <2>2, NextIsOne DEF IsNext
  <2>5. Seen'
    BY <1>1, <2>1, <2>2, <2>3, <2>4 DEF Seen
  <2>6. QED
    BY <1>1, <2>2, <2>5 DEF ApplyMigration, SchemaInv, Recorded, Applied
<1>2. CASE GiveUp
  BY <1>2, GiveUpKeepsSchema DEF GiveUp, ApplyMigration
<1>3. QED
  BY <1>1, <1>2 DEF ApplyMigration

LEMMA RecordKeepsSchema ==
  ASSUME TypeOK, SchemaInv, NEW v \in Version, RecordMigration(v)
  PROVE  SchemaInv'
<1> USE DEF histories
<1> DEFINE Row == [work EXCEPT !.rows = @ \cup {v}]
<1>1. CASE /\ migration' = "committing"
           /\ \/ Execute(Row) /\ UNCHANGED unrecorded
              \/ UNCHANGED store /\ unrecorded' = unrecorded \cup {v}
              \/ Rollback /\ UNCHANGED unrecorded
           /\ UNCHANGED <<pending, batch, promises, misread, leaked>>
  <2>1. /\ tx /\ IsNext(v) /\ migration = "recording"
        /\ work.rows = disk.rows /\ work.schema = disk.schema \cup {v}
    BY DEF RecordMigration, SchemaInv, Seen
  <2>2. disk' = disk /\ pending' = pending /\ unrecorded \subseteq unrecorded'
    BY <1>1, <2>1 DEF Execute, Rollback, store
  <2>3. \A u \in Version : IsNext(u)' => u = v
    BY <2>1, <2>2, NextIsOne DEF IsNext
  <2>4. tx' => /\ work'.schema = disk.schema \cup {v}
               /\ disk.rows \subseteq work'.rows /\ work'.rows \subseteq disk.rows \cup {v}
               /\ {v} \ work'.rows \subseteq unrecorded'
    <3>1. CASE Execute(Row) /\ UNCHANGED unrecorded
      BY <2>1, <3>1 DEF Execute, TypeOK, Contents
    <3>2. CASE UNCHANGED store /\ unrecorded' = unrecorded \cup {v}
      BY <2>1, <3>2 DEF store
    <3>3. CASE Rollback
      BY <3>3 DEF Rollback
    <3>4. QED
      BY <1>1, <3>1, <3>2, <3>3
  <2>5. ~tx' => work' = disk'
    BY <1>1, <2>1 DEF Execute, Rollback, store
  <2>6. Seen'
    BY <1>1, <2>2, <2>3, <2>4, <2>5 DEF Seen
  <2>7. QED
    BY <1>1, <2>1, <2>2, <2>6 DEF SchemaInv, Recorded, Applied
<1>2. CASE GiveUp
  BY <1>2, GiveUpKeepsSchema DEF GiveUp, RecordMigration
<1>3. QED
  BY <1>1, <1>2 DEF RecordMigration

LEMMA CommitKeepsSchema ==
  ASSUME TypeOK, SchemaInv, NEW v \in Version, CommitMigration(v)
  PROVE  SchemaInv'
<1> USE DEF histories
<1>1. CASE /\ tx /\ Commit
           /\ migration' = "opened"
           /\ pending' = pending \ {v}
           /\ UNCHANGED <<batch, promises, histories>>
  <2>1. /\ IsNext(v) /\ migration = "committing"
        /\ work.schema = disk.schema \cup {v}
        /\ disk.rows \subseteq work.rows /\ work.rows \subseteq disk.rows \cup {v}
        /\ {v} \ work.rows \subseteq unrecorded
    BY <1>1 DEF CommitMigration, SchemaInv, Seen
  <2>2. disk' = work /\ work' = work /\ ~tx' /\ unrecorded' = unrecorded
    BY <1>1 DEF Commit
  <2>3. Version \ pending \subseteq disk.schema
    BY <2>1 DEF SchemaInv, Applied
  <2>4. ASSUME NEW w \in disk.schema \cup {v}, NEW u \in Version, u <= w
        PROVE  u \in disk.schema \cup {v}
    <3>1. CASE w \in disk.schema
      BY <2>4, <3>1 DEF SchemaInv, Recorded
    <3>2. CASE w = v /\ u \in pending
      <4>1. v <= u
        BY <2>1, <3>2 DEF IsNext
      <4>2. QED
        BY <2>4, <3>2, <4>1, DatabaseAssumption
    <3>3. CASE u \notin pending
      BY <2>3, <3>3
    <3>4. QED
      BY <3>1, <3>2, <3>3
  <2>5. Recorded'
    <3>1. disk'.rows \subseteq disk'.schema
      BY <2>1, <2>2 DEF SchemaInv, Recorded
    <3>2. disk'.schema \ disk'.rows \subseteq unrecorded'
      BY <2>1, <2>2 DEF SchemaInv, Recorded
    <3>3. QED
      BY <2>1, <2>2, <2>4, <3>1, <3>2 DEF Recorded
  <2>6. Applied'
    BY <1>1, <2>1, <2>2, <2>3 DEF SchemaInv, Applied
  <2>7. Seen'
    BY <1>1, <2>2 DEF Seen
  <2>8. QED
    BY <2>5, <2>6, <2>7 DEF SchemaInv
<1>2. CASE GiveUp
  BY <1>2, GiveUpKeepsSchema DEF GiveUp, CommitMigration
<1>3. QED
  BY <1>1, <1>2 DEF CommitMigration

\* Nothing that is done when the database is ready touches versions and schema.
LEMMA DataKeepsSchema ==
  ASSUME TypeOK, SchemaInv, migration = "ready", UNCHANGED <<migration, pending, unrecorded, misread>>,
         \/ \E c \in Contents : /\ Execute(c)
                                /\ c.rows = work.rows /\ c.schema = work.schema
         \/ Rollback
         \/ tx /\ Commit
         \/ UNCHANGED <<disk, work>> /\ (tx' \/ UNCHANGED tx)
  PROVE  SchemaInv'
<1>1. work.rows = disk.rows /\ work.schema = disk.schema
  BY DEF SchemaInv, Seen
<1>2. /\ disk'.rows = disk.rows /\ disk'.schema = disk.schema
      /\ work'.rows = disk.rows /\ work'.schema = disk.schema
  BY <1>1 DEF Execute, Rollback, Commit
<1>3. ~tx' => work' = disk'
  BY DEF Execute, Rollback, Commit, SchemaInv, Seen
<1>4. QED
  BY <1>2, <1>3 DEF SchemaInv, Recorded, Applied, Seen

LEMMA InsertKeepsSchema ==
  ASSUME TypeOK, SchemaInv, migration = "ready", UNCHANGED <<migration, pending, unrecorded, misread>>,
         NEW d \in Device, InsertReading(d)
  PROVE  SchemaInv'
<1> DEFINE c == [work EXCEPT !.readings = @ \cup {d}]
<1>1. c \in Contents /\ c.rows = work.rows /\ c.schema = work.schema
  BY DEF TypeOK, Contents
<1>2. QED
  BY <1>1, DataKeepsSchema DEF InsertReading, store

LEMMA SchemaStep ==
  ASSUME TypeOK, TypeOK', SchemaInv, [Next]_vars,
         migration # "ready" => ~batch.busy
  PROVE  SchemaInv'
<1> USE DEF calls, promises, histories
<1>1. CASE Open
  BY <1>1, OpenKeepsSchema
<1>14. CASE CurrentVersion
  BY <1>14, VersionKeepsSchema
<1>2. CASE BeginMigration
  <2>1. CASE GiveUp
    BY <1>2, <2>1, GiveUpKeepsSchema DEF GiveUp
  <2>2. CASE migration' = "applying" /\ tx' = TRUE
             /\ UNCHANGED <<disk, work, pending, batch, promises, histories>>
    BY <1>2, <2>2 DEF BeginMigration, SchemaInv, Recorded, Applied, Seen
  <2>3. QED
    BY <1>2, <2>1, <2>2 DEF BeginMigration
<1>3. CASE Migrated
  BY <1>3 DEF Migrated, SchemaInv, Recorded, Applied, Seen, store
<1>4. ASSUME NEW v \in Version, ApplyMigration(v) \/ RecordMigration(v) \/ CommitMigration(v)
      PROVE  SchemaInv'
  BY <1>4, ApplyKeepsSchema, RecordKeepsSchema, CommitKeepsSchema
<1>5. ASSUME NEW d \in Device, AddDevice(d) PROVE SchemaInv'
  <2> DEFINE c == [work EXCEPT !.devices = @ \cup {d}]
  <2>1. c \in Contents /\ c.rows = work.rows /\ c.schema = work.schema
    BY DEF TypeOK, Contents
  <2>2. QED
    BY <1>5, <2>1, DataKeepsSchema DEF AddDevice, DeviceWrites, store
<1>6. ASSUME NEW d \in Device, RemoveDevice(d) PROVE SchemaInv'
  <2> DEFINE c == [work EXCEPT !.devices = @ \ {d}, !.readings = @ \ {d}]
  <2>1. c \in Contents /\ c.rows = work.rows /\ c.schema = work.schema
    BY DEF TypeOK, Contents
  <2>2. QED
    BY <1>6, <2>1, DataKeepsSchema DEF RemoveDevice, DeviceWrites, store
<1>7. ASSUME NEW d \in Device, AddReading(d) \/ BatchInserts(d) PROVE SchemaInv'
  <2>1. migration = "ready" /\ InsertReading(d) /\ UNCHANGED <<migration, pending, unrecorded, misread>>
    BY <1>7 DEF AddReading, BatchInserts
  <2>2. QED
    BY <2>1, InsertKeepsSchema
<1>8. ASSUME NEW ds \in SUBSET Device, Purge(ds) PROVE SchemaInv'
  <2> DEFINE c == [work EXCEPT !.readings = @ \ ds]
  <2>1. c \in Contents /\ c.rows = work.rows /\ c.schema = work.schema
    BY DEF TypeOK, Contents
  <2>2. QED
    BY <1>8, <2>1, DataKeepsSchema DEF Purge
<1>9. ASSUME NEW ds \in SUBSET Device, BatchBegins(ds) PROVE SchemaInv'
  BY <1>9, DataKeepsSchema DEF BatchBegins
<1>10. CASE BatchEnds
  BY <1>10, DataKeepsSchema DEF BatchEnds
<1>11. CASE Crash
  BY <1>11, GiveUpKeepsSchema DEF Crash
<1>12. CASE UNCHANGED vars
  BY <1>12 DEF vars, store, SchemaInv, Recorded, Applied, Seen, IsNext
<1>13. QED
  BY <1>1, <1>2, <1>3, <1>4, <1>5, <1>6, <1>7, <1>8, <1>9, <1>10, <1>11, <1>12, <1>14
     DEF Next, Migrate

----------------------------------------------------------------------------
(* Devices and readings.  What holds of them besides:                      *)

\* What callers were told is what the connection sees, if the write did not
\* fail; and it is on disk, if it was not written in an open transaction.
Told ==
  /\ ~tx => work = disk /\ riding = {}
  /\ migration # "ready" => riding = {}
  /\ \A d \in Device \ doubtful : d \in work.devices <=> d \in told
  /\ \A d \in Device \ riding : d \in work.devices <=> d \in disk.devices

\* A batch is put in only when the database is ready.
Whole ==
  /\ migration # "ready" => ~batch.busy
  /\ BatchIsWhole
  /\ NothingLeftOpen

PromiseInv == Told /\ Whole

\* A transaction that is undone takes with it what was told in it, no more.
LEMMA RollbackKeepsTold ==
  ASSUME Told, NEW ds \in SUBSET Device, Rollback, Loses(ds),
         \A d \in Device \ ds : d \in told' <=> d \in told
  PROVE  Told'
BY DEF Told, Rollback, Loses

\* A statement that does not touch the devices.
LEMMA ReadingsKeepTold ==
  ASSUME Told, NEW c, Execute(c), c.devices = work.devices,
         UNCHANGED <<migration, riding, doubtful, told>>
  PROVE  Told'
BY DEF Told, Execute

\* While the database is not ready nothing is told, and no device changes.
LEMMA MigrationKeepsTold ==
  ASSUME Told, migration # "ready", UNCHANGED promises,
         disk'.devices = disk.devices \/ disk'.devices = work.devices,
         work'.devices = disk.devices \/ work'.devices = work.devices,
         ~tx' => work' = disk'
  PROVE  Told'
<1>1. UNCHANGED <<riding, doubtful, told>> /\ riding = {}
  BY DEF promises, Told
<1>2. \A d \in Device : /\ d \in disk'.devices <=> d \in disk.devices
                        /\ d \in work'.devices <=> d \in work.devices
  BY <1>1 DEF Told
<1>3. QED
  BY <1>1, <1>2 DEF Told

\* As long as no transaction is begun or ended well, nothing of a batch
\* gets to the disk.
LEMMA OngoingKeepsWhole ==
  ASSUME Whole, tx' => tx /\ disk' = disk,
         batch'.busy = batch.busy, batch'.fresh = batch.fresh,
         UNCHANGED <<migration, leaked>>
  PROVE  Whole'
BY DEF Whole, BatchIsWhole, NothingLeftOpen

\* What Migrate does happens with no batch.
LEMMA MigrationKeepsWhole ==
  ASSUME Whole, migration # "ready", UNCHANGED <<batch, leaked>>,
         tx' => migration' \in {"applying", "recording", "committing"}
  PROVE  Whole'
BY DEF Whole, BatchIsWhole, NothingLeftOpen

LEMMA DeviceKeepsPromise ==
  ASSUME TypeOK, PromiseInv, NEW d \in Device, AddDevice(d) \/ RemoveDevice(d)
  PROVE  PromiseInv'
<1> DEFINE Added == [work EXCEPT !.devices = @ \cup {d}]
           Removed == [work EXCEPT !.devices = @ \ {d}, !.readings = @ \ {d}]
<1> USE DEF calls, histories
<1>1. PICK c \in {Added, Removed} :
        /\ DeviceWrites(d, c)
        /\ \A e \in Device \ {d} : e \in c.devices <=> e \in work.devices
        /\ d \in c.devices <=> d \in told'
  <2>1. CASE AddDevice(d)
    BY <2>1 DEF AddDevice, TypeOK, Contents
  <2>2. CASE RemoveDevice(d)
    BY <2>2 DEF RemoveDevice, TypeOK, Contents
  <2>3. QED
    BY <2>1, <2>2
<1>2. \A e \in Device \ {d} : e \in told' <=> e \in told
  BY DEF AddDevice, RemoveDevice
<1>3. UNCHANGED <<migration, batch, leaked>> /\ migration = "ready"
  BY <1>1 DEF DeviceWrites
<1>4. CASE /\ Execute(c)
           /\ riding' = IF tx THEN riding \cup {d} ELSE riding
           /\ doubtful' = doubtful \ {d}
  <2>1. Told'
    <3>1. work' = c /\ tx' = tx /\ (~tx => disk' = c)
      BY <1>4 DEF Execute
    <3>2. \A e \in Device \ doubtful' : e \in work'.devices <=> e \in told'
      BY <1>1, <1>2, <1>4, <3>1 DEF PromiseInv, Told
    <3>3. \A e \in Device \ riding' : e \in work'.devices <=> e \in disk'.devices
      <4>1. CASE tx
        BY <1>1, <1>4, <4>1 DEF Execute, PromiseInv, Told
      <4>2. CASE ~tx
        BY <3>1, <4>2
      <4>3. QED
        BY <4>1, <4>2
    <3>4. QED
      BY <1>3, <1>4, <3>1, <3>2, <3>3 DEF PromiseInv, Told
  <2>2. Whole'
    BY <1>3, <1>4, OngoingKeepsWhole DEF Execute, PromiseInv
  <2>3. QED
    BY <2>1, <2>2 DEF PromiseInv
<1>5. CASE UNCHANGED <<store, riding>> /\ doubtful' = doubtful \cup {d}
  <2>1. Told'
    BY <1>2, <1>3, <1>5 DEF PromiseInv, Told, store
  <2>2. Whole'
    BY <1>3, <1>5, OngoingKeepsWhole DEF PromiseInv, store
  <2>3. QED
    BY <2>1, <2>2 DEF PromiseInv
<1>6. CASE Rollback /\ Loses({d})
  <2>1. Told'
    BY <1>2, <1>6, RollbackKeepsTold DEF PromiseInv
  <2>2. Whole'
    BY <1>3, <1>6, OngoingKeepsWhole DEF PromiseInv, Rollback
  <2>3. QED
    BY <2>1, <2>2 DEF PromiseInv
<1>7. QED
  BY <1>1, <1>4, <1>5, <1>6 DEF DeviceWrites

LEMMA InsertKeepsPromise ==
  ASSUME TypeOK, PromiseInv, NEW d \in Device, InsertReading(d),
         batch'.busy = batch.busy, batch'.fresh = batch.fresh,
         UNCHANGED <<migration, leaked, told>>
  PROVE  PromiseInv'
<1>1. CASE /\ Execute([work EXCEPT !.readings = @ \cup {d}])
           /\ UNCHANGED <<riding, doubtful>>
  <2>1. [work EXCEPT !.readings = @ \cup {d}].devices = work.devices
    BY DEF TypeOK, Contents
  <2>2. Told'
    BY <1>1, <2>1, ReadingsKeepTold DEF PromiseInv
  <2>3. Whole'
    BY <1>1, OngoingKeepsWhole DEF PromiseInv, Execute
  <2>4. QED
    BY <2>2, <2>3 DEF PromiseInv
<1>2. CASE UNCHANGED <<store, riding, doubtful>>
  <2>1. Told'
    BY <1>2 DEF PromiseInv, Told, store
  <2>2. Whole'
    BY <1>2, OngoingKeepsWhole DEF PromiseInv, store
  <2>3. QED
    BY <2>1, <2>2 DEF PromiseInv
<1>3. CASE Rollback /\ Loses({})
  <2>1. Told'
    BY <1>3, RollbackKeepsTold DEF PromiseInv
  <2>2. Whole'
    BY <1>3, OngoingKeepsWhole DEF PromiseInv, Rollback
  <2>3. QED
    BY <2>1, <2>2 DEF PromiseInv
<1>4. QED
  BY <1>1, <1>2, <1>3 DEF InsertReading

LEMMA MigrateKeepsPromise ==
  ASSUME TypeOK, SchemaInv, PromiseInv, Migrate
  PROVE  PromiseInv'
<1> USE DEF calls, histories
<1>1. ASSUME migration # "ready", GiveUp, UNCHANGED <<batch, promises, histories>>
      PROVE  PromiseInv'
  <2>1. Told'
    BY <1>1, MigrationKeepsTold DEF GiveUp, Rollback, PromiseInv
  <2>2. Whole'
    BY <1>1, MigrationKeepsWhole DEF GiveUp, Rollback, PromiseInv
  <2>3. QED
    BY <2>1, <2>2 DEF PromiseInv
<1>2. CASE Open
  <2>1. migration = "down" /\ ~tx /\ work = disk /\ UNCHANGED <<disk, work, tx>>
    BY <1>2 DEF Open, SchemaInv, Seen, store
  <2>2. Told'
    BY <1>2, <2>1, MigrationKeepsTold DEF Open, PromiseInv
  <2>3. Whole'
    BY <1>2, <2>1, MigrationKeepsWhole DEF Open, PromiseInv
  <2>4. QED
    BY <2>2, <2>3 DEF PromiseInv
<1>9. CASE CurrentVersion
  <2>1. CASE GiveUp
    BY <1>1, <1>9, <2>1 DEF CurrentVersion, GiveUp
  <2>2. CASE ~GiveUp
    <3>1. ~tx /\ work = disk /\ UNCHANGED <<disk, work, tx>> /\ migration = "opening"
      BY <1>9, <2>2 DEF CurrentVersion, SchemaInv, Seen, store
    <3>2. Told'
      BY <1>9, <2>2, <3>1, MigrationKeepsTold DEF CurrentVersion, PromiseInv
    <3>3. Whole'
      BY <1>9, <2>2, <3>1, MigrationKeepsWhole DEF CurrentVersion, PromiseInv
    <3>4. QED
      BY <3>2, <3>3 DEF PromiseInv
  <2>3. QED
    BY <2>1, <2>2
<1>3. CASE BeginMigration
  <2>1. CASE migration' = "applying" /\ tx' = TRUE
             /\ UNCHANGED <<disk, work, pending, batch, promises, histories>>
    <3>1. Told'
      BY <1>3, <2>1, MigrationKeepsTold DEF BeginMigration, PromiseInv
    <3>2. Whole'
      BY <1>3, <2>1, MigrationKeepsWhole DEF BeginMigration, PromiseInv
    <3>3. QED
      BY <3>1, <3>2 DEF PromiseInv
  <2>2. QED
    BY <1>1, <1>3, <2>1 DEF BeginMigration, GiveUp
<1>4. CASE Migrated
  <2>1. ~tx /\ work = disk /\ UNCHANGED <<disk, work, tx>> /\ migration = "opened"
    BY <1>4 DEF Migrated, SchemaInv, Seen, store
  <2>2. Told'
    BY <1>4, <2>1, MigrationKeepsTold DEF Migrated, PromiseInv
  <2>3. Whole'
    BY <1>4, <2>1, MigrationKeepsWhole DEF Migrated, PromiseInv
  <2>4. QED
    BY <2>2, <2>3 DEF PromiseInv
<1>5. ASSUME NEW v \in Version, ApplyMigration(v) PROVE PromiseInv'
  <2> DEFINE c == [work EXCEPT !.schema = @ \cup {v}]
  <2>1. CASE /\ migration' = "recording" /\ Execute(c)
             /\ UNCHANGED <<pending, batch, promises, histories>>
    <3>1. c.devices = work.devices /\ tx
      BY <1>5 DEF TypeOK, Contents, ApplyMigration, SchemaInv, Seen
    <3>2. Told'
      BY <1>5, <2>1, <3>1, MigrationKeepsTold DEF ApplyMigration, PromiseInv, Execute
    <3>3. Whole'
      BY <1>5, <2>1, MigrationKeepsWhole DEF ApplyMigration, PromiseInv
    <3>4. QED
      BY <3>2, <3>3 DEF PromiseInv
  <2>2. QED
    BY <1>1, <1>5, <2>1 DEF ApplyMigration, GiveUp
<1>6. ASSUME NEW v \in Version, RecordMigration(v) PROVE PromiseInv'
  <2> DEFINE c == [work EXCEPT !.rows = @ \cup {v}]
  <2>1. CASE /\ migration' = "committing"
             /\ Execute(c) \/ UNCHANGED store \/ Rollback
             /\ UNCHANGED <<pending, batch, promises, misread, leaked>>
    <3>1. c.devices = work.devices /\ tx
      BY <1>6 DEF TypeOK, Contents, RecordMigration, SchemaInv, Seen
    <3>2. Told'
      BY <1>6, <2>1, <3>1, MigrationKeepsTold
         DEF RecordMigration, PromiseInv, Execute, Rollback, store
    <3>3. Whole'
      BY <1>6, <2>1, MigrationKeepsWhole DEF RecordMigration, PromiseInv
    <3>4. QED
      BY <3>2, <3>3 DEF PromiseInv
  <2>2. QED
    BY <1>1, <1>6, <2>1 DEF RecordMigration, GiveUp
<1>7. ASSUME NEW v \in Version, CommitMigration(v) PROVE PromiseInv'
  <2>1. CASE /\ Commit /\ migration' = "opened"
             /\ UNCHANGED <<batch, promises, histories>>
    <3>1. Told'
      BY <1>7, <2>1, MigrationKeepsTold DEF CommitMigration, PromiseInv, Commit
    <3>2. Whole'
      BY <1>7, <2>1, MigrationKeepsWhole DEF CommitMigration, PromiseInv, Commit
    <3>3. QED
      BY <3>1, <3>2 DEF PromiseInv
  <2>2. QED
    BY <1>1, <1>7, <2>1 DEF CommitMigration, GiveUp
<1>8. QED
  BY <1>2, <1>3, <1>4, <1>5, <1>6, <1>7, <1>9 DEF Migrate

LEMMA BatchKeepsPromise ==
  ASSUME TypeOK, PromiseInv,
         BatchEnds \/ \E ds \in SUBSET Device : BatchBegins(ds)
  PROVE  PromiseInv'
<1> USE DEF promises, histories
<1>1. ASSUME NEW ds \in SUBSET Device, BatchBegins(ds) PROVE PromiseInv'
  <2>1. Told'
    BY <1>1 DEF BatchBegins, PromiseInv, Told
  <2>2. work = disk /\ disk' = disk /\ migration' = migration /\ migration = "ready"
    BY <1>1 DEF BatchBegins, PromiseInv, Told
  <2>3. Whole'
    <3>1. CASE batch' = [busy |-> TRUE, todo |-> ds, fresh |-> ds \ work.readings]
      BY <2>2, <3>1 DEF Whole, BatchIsWhole, NothingLeftOpen
    <3>2. CASE leaked' = TRUE /\ UNCHANGED batch
      BY <1>1, <2>2, <3>2 DEF Whole, BatchIsWhole, NothingLeftOpen, BatchBegins
    <3>3. QED
      BY <1>1, <3>1, <3>2 DEF BatchBegins
  <2>4. QED
    BY <2>1, <2>3 DEF PromiseInv
<1>2. CASE BatchEnds
  <2>1. ~tx' /\ ~batch'.busy /\ told' = told /\ migration' = migration
    BY <1>2 DEF BatchEnds, NoBatch, Commit, Rollback
  <2>2. Whole'
    BY <2>1 DEF Whole, BatchIsWhole, NothingLeftOpen
  <2>3. CASE Commit /\ riding' = {} /\ UNCHANGED doubtful
    BY <2>1, <2>2, <2>3 DEF PromiseInv, Told, Commit
  <2>4. CASE Rollback /\ Loses({})
    BY <2>1, <2>2, <2>4, RollbackKeepsTold DEF PromiseInv
  <2>5. QED
    BY <1>2, <2>3, <2>4 DEF BatchEnds
<1>3. QED
  BY <1>1, <1>2

LEMMA PromiseStep ==
  ASSUME TypeOK, SchemaInv, PromiseInv, [Next]_vars
  PROVE  PromiseInv'
<1> USE DEF calls, promises, histories
<1>1. ASSUME NEW d \in Device, AddReading(d) PROVE PromiseInv'
  BY <1>1, InsertKeepsPromise DEF AddReading
<1>2. ASSUME NEW d \in Device, BatchInserts(d) PROVE PromiseInv'
  <2>1. batch \in Batch
    BY <1>2 DEF BatchInserts, TypeOK, NoBatch
  <2>2. batch'.busy = batch.busy /\ batch'.fresh = batch.fresh
    BY <1>2, <2>1 DEF BatchInserts, Batch
  <2>3. QED
    BY <1>2, <2>2, InsertKeepsPromise DEF BatchInserts
<1>3. ASSUME NEW ds \in SUBSET Device, Purge(ds) PROVE PromiseInv'
  <2> DEFINE c == [work EXCEPT !.readings = @ \ ds]
  <2>1. c.devices = work.devices
    BY DEF TypeOK, Contents
  <2>2. Told'
    BY <1>3, <2>1, ReadingsKeepTold DEF Purge, PromiseInv
  <2>3. Whole'
    BY <1>3, OngoingKeepsWhole DEF Purge, PromiseInv, Execute
  <2>4. QED
    BY <2>2, <2>3 DEF PromiseInv
<1>4. CASE Crash
  <2>1. riding' = {} /\ work' = disk' /\ ~tx' /\ ~batch'.busy
    BY <1>4 DEF Crash, Rollback, Loses, NoBatch
  <2>2. Told'
    BY <1>4, RollbackKeepsTold DEF Crash, PromiseInv
  <2>3. Whole'
    BY <2>1 DEF Whole, BatchIsWhole, NothingLeftOpen
  <2>4. QED
    BY <2>2, <2>3 DEF PromiseInv
<1>5. CASE UNCHANGED vars
  BY <1>5 DEF vars, store, PromiseInv, Told, Whole, BatchIsWhole, NothingLeftOpen
<1>6. QED
  BY <1>1, <1>2, <1>3, <1>4, <1>5, MigrateKeepsPromise, DeviceKeepsPromise,
     BatchKeepsPromise DEF Next

LEMMA Inductive == Spec => [](TypeOK /\ SchemaInv /\ PromiseInv)
<1>1. Init => TypeOK /\ SchemaInv /\ PromiseInv
  <2> SUFFICES ASSUME Init PROVE TypeOK /\ SchemaInv /\ PromiseInv
    OBVIOUS
  <2>1. TypeOK
    <3>1. Empty \in Contents
      BY DEF Empty, Contents
    <3>2. QED
      BY <3>1 DEF Init, TypeOK
  <2>2. SchemaInv
    BY DEF Init, Empty, SchemaInv, Recorded, Applied, Seen
  <2>3. PromiseInv
    BY DEF Init, Empty, NoBatch, PromiseInv, Told, Whole, BatchIsWhole, NothingLeftOpen
  <2>4. QED
    BY <2>1, <2>2, <2>3
<1>2. TypeOK /\ SchemaInv /\ PromiseInv /\ [Next]_vars => (TypeOK /\ SchemaInv /\ PromiseInv)'
  BY TypeStep, SchemaStep, PromiseStep DEF PromiseInv, Whole
<1>3. QED
  BY <1>1, <1>2, PTL DEF Spec

\* MigrationManager (migration_manager.cpp:32-86): whenever the process ends, the
\* next start runs the migrations that have not run, and no other but those whose
\* version row was refused; only a start that could not read the version runs them all.
THEOREM SchemaStaysVersioned == Spec => []SchemaIsVersioned
<1>1. TypeOK /\ SchemaInv => SchemaIsVersioned
  BY DEF TypeOK, Contents, SchemaInv, Recorded, Applied, SchemaIsVersioned
<1>2. QED
  BY <1>1, Inductive, PTL

\* Whenever the process ends, the disk has what callers were told outside a
\* transaction, and nothing of a batch that has not been committed; and no
\* transaction stays open but that of an AddBatch that has thrown.
THEOREM CrashesKeepPromises == Spec => []CrashKeepsPromises
<1>1. PromiseInv => CrashKeepsPromises
  BY DEF PromiseInv, Told, Whole, CrashKeepsPromises, AcknowledgedIsKept
<1>2. QED
  BY <1>1, Inductive, PTL
=============================================================================
