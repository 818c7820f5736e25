------------------------------ MODULE ProjectStore -----------------------------
(***************************************************************************)
(* A project on disk: its creation, its opening and the migration of its   *)
(* database (project/service.py, project/manifest.py, project/storage.py), *)
(* behind GET /project/inspect.                                            *)
(*                                                                         *)
(* Calls run on worker threads of one process, which may be killed at any  *)
(* point.  SQLite is modelled by what its transactions promise: one writer *)
(* at a time, and a transaction that is killed or rolled back leaves no    *)
(* trace.  Any write may fail.                                             *)
(*                                                                         *)
(* This module is the part every caller shares; DbcAssets adds the calls   *)
(* that import and decode, and composes the two.                           *)
(***************************************************************************)
EXTENDS Naturals, Sequences, FiniteSets

CONSTANTS
  Workers,    \* worker threads
  Ids,        \* project identities
  MaxCalls,   \* bound on the calls
  MaxCrashes  \* bound on the times the process is killed

None == "none"
Partial == "partial"

\* Nothing that stands for an absence is an identity or a worker.
ASSUME StoreAssumption ==
  /\ None \notin Workers
  /\ None \notin Ids /\ Partial \notin Ids

\* DATABASE_SCHEMA_VERSION and LEGACY_DATABASE_SCHEMA_VERSION.
Current == 3
Legacy == 1

VARIABLES
  root,      \* whether the project directory exists
  manifest,  \* project.json: None, Partial, or the identity it holds
  db,        \* project.db: Missing, or its version, its tables and its identity
  writer,    \* the worker whose transaction has the write lock of project.db
  call,      \* the call each worker runs: its operation, step and project
  answer,    \* what its last call was answered
  calls,     \* the number of calls made
  crashes    \* the number of times the process was killed

diskVars == <<root, manifest, db>>
storeVars == <<diskVars, writer, call, answer, calls, crashes>>

\* The table each migration step adds, and the tables of a version.
StepTables(v) ==
  CASE v = 1 -> {"data_sessions", "data_segments"}
    [] v = 2 -> {"dbc_assets"}
TablesOf(v) == {"project_metadata"} \cup UNION {StepTables(k) : k \in Legacy..(v - 1)}

Database(version, tables, id) == [version |-> version, tables |-> tables, id |-> id]
WholeDatabase(v, id) == Database(v, TablesOf(v), id)

\* A database that is not this program's: a bare version stamp, or a newer one.
Foreign == {Database(Legacy, {}, None), Database(Current + 1, {}, None)}
Empty == Database(0, {}, None)
Missing == Database(0, {}, "missing")

CallOf(op, step, id) == [op |-> op, step |-> step, id |-> id, version |-> 0]
Idle == CallOf("idle", None, None)
Pending == [op |-> "pending", ok |-> FALSE]

\* Worker w goes on with another step of its call.
Goto(w, step) == call' = [call EXCEPT ![w].step = step]

\* The call of w returns, or raises.
Finish(w, result) ==
  /\ call' = [call EXCEPT ![w] = Idle]
  /\ answer' = [answer EXCEPT ![w] = result]
Succeed(w) == Finish(w, [op |-> call[w].op, ok |-> TRUE, id |-> call[w].id])
Fail(w) == Finish(w, [op |-> call[w].op, ok |-> FALSE])

At(w, op, step) == call[w].op = op /\ call[w].step = step

Begin(w, op, step, id) ==
  /\ call[w] = Idle
  /\ calls < MaxCalls
  /\ calls' = calls + 1
  /\ call' = [call EXCEPT ![w] = CallOf(op, step, id)]
  /\ answer' = [answer EXCEPT ![w] = Pending]

---------------------------------------------------------------------------
(* create *)

\* uuid4: an identity no project has had.
Fresh(id) ==
  /\ manifest # id
  /\ db # Missing => db.id # id
  /\ \A w \in Workers : call[w].id # id

Create(w) ==
  /\ \E id \in Ids : Fresh(id) /\ Begin(w, "create", "mkdir", id)
  /\ UNCHANGED <<diskVars, writer, crashes>>

\* mkdir(exist_ok=False): an existing path is never written to.
MakeRoot(w) ==
  /\ At(w, "create", "mkdir")
  /\ IF root
     THEN Fail(w) /\ UNCHANGED root
     ELSE /\ root' = TRUE
          /\ Goto(w, "database")
          /\ UNCHANGED answer
  /\ UNCHANGED <<manifest, db, writer, calls, crashes>>

\* What comes after each write of a creation: the manifest comes last.
ManifestFirst(step) ==
  CASE step = "database" -> "manifest"
    [] step = "manifest" -> "text"
    [] step = "text" -> "schema"
    [] step = "schema" -> "created"
Following(step) ==
  CASE step = "database" -> "schema"
    [] step = "schema" -> "manifest"
    [] step = "manifest" -> "text"
    [] step = "text" -> "created"

\* create_database connects: the file is there, and empty.
CreateDatabase(w) ==
  /\ At(w, "create", "database")
  /\ writer = None
  /\ db' = Empty
  /\ writer' = w
  /\ Goto(w, Following("database"))
  /\ UNCHANGED <<root, manifest, answer, calls, crashes>>

\* Its one transaction commits every table, the identity and the version.
CreateSchema(w) ==
  /\ At(w, "create", "schema")
  /\ db' = WholeDatabase(Current, call[w].id)
  /\ writer' = None
  /\ Goto(w, Following("schema"))
  /\ UNCHANGED <<root, manifest, answer, calls, crashes>>

\* write_manifest: the file is truncated, then written.
OpenManifest(w) ==
  /\ At(w, "create", "manifest")
  /\ manifest' = Partial
  /\ Goto(w, Following("manifest"))
  /\ UNCHANGED <<root, db, writer, answer, calls, crashes>>

WriteManifest(w) ==
  /\ At(w, "create", "text")
  /\ manifest' = call[w].id
  /\ Goto(w, Following("text"))
  /\ UNCHANGED <<root, db, writer, answer, calls, crashes>>

Created(w) ==
  /\ At(w, "create", "created")
  /\ Succeed(w)
  /\ UNCHANGED <<diskVars, writer, calls, crashes>>

\* Any write fails: rmtree(ignore_errors=True) removes what it can of the
\* directory this call made.
CreateFails(w) ==
  /\ call[w].op = "create"
  /\ call[w].step \in {"database", "schema", "manifest", "text"}
  /\ Fail(w)
  /\ manifest' \in {manifest, None}
  /\ db' \in {db, Missing}
  /\ root' \in IF manifest' = None /\ db' = Missing THEN BOOLEAN ELSE {TRUE}
  /\ writer' = IF writer = w THEN None ELSE writer
  /\ UNCHANGED <<calls, crashes>>

---------------------------------------------------------------------------
(* open *)

\* ProjectService.open: the path, the directory and the manifest.
ReadManifest(w) ==
  /\ call[w].step = "open"
  /\ IF root /\ manifest \in Ids /\ db # Missing
     THEN /\ call' = [call EXCEPT ![w] = [@ EXCEPT !.step = "connect", !.id = manifest]]
          /\ UNCHANGED answer
     ELSE Fail(w)
  /\ UNCHANGED <<diskVars, writer, calls, crashes>>

HasMetadata == "project_metadata" \in db.tables
HasTables == TablesOf(Current) \subseteq db.tables

\* open_database: newer and unversioned files are refused; an older one is
\* migrated if it really carries an identity; a current one is verified.
Connect(w) ==
  /\ call[w].step = "connect"
  /\ IF db = Missing \/ db.version \notin Legacy..Current \/ ~HasMetadata
     THEN Fail(w)
     ELSE /\ Goto(w, IF db.version < Current THEN "migrate" ELSE "verify")
          /\ UNCHANGED answer
  /\ UNCHANGED <<diskVars, writer, calls, crashes>>

\* migrate_database reads the version once more, then begins.
BeginMigration(w) ==
  /\ call[w].step = "migrate"
  /\ call' = [call EXCEPT ![w] =
                [@ EXCEPT !.step = IF db.version = Current THEN "verify" ELSE "begin",
                          !.version = db.version]]
  /\ UNCHANGED <<diskVars, writer, answer, calls, crashes>>

\* _migration_statements: the tables of the steps from version v on.
TablesFrom(v) == UNION {StepTables(k) : k \in v..(Current - 1)}

\* BEGIN IMMEDIATE waits for the other writer; a table that exists already
\* fails the transaction, and with it the open.
LockForMigration(w) ==
  /\ call[w].step = "begin"
  /\ writer = None
  /\ IF TablesFrom(call[w].version) \cap db.tables = {}
     THEN writer' = w /\ Goto(w, "stamp") /\ UNCHANGED answer
     ELSE Fail(w) /\ UNCHANGED writer
  /\ UNCHANGED <<diskVars, calls, crashes>>

\* COMMIT: the tables and the version stamp in one transaction.
MigratedLast(d, v) == Database(Current, d.tables \cup TablesFrom(2), d.id)
Migrated(d, v) == Database(Current, d.tables \cup TablesFrom(v), d.id)

CommitMigration(w) ==
  /\ call[w].step = "stamp"
  /\ db' = Migrated(db, call[w].version)
  /\ writer' = None
  /\ Goto(w, "verify")
  /\ UNCHANGED <<root, manifest, answer, calls, crashes>>

\* The busy timeout of a lock, or a write that fails, rolls back.
MigrationFails(w) ==
  /\ call[w].step \in {"begin", "stamp"}
  /\ Fail(w)
  /\ writer' = IF writer = w THEN None ELSE writer
  /\ UNCHANGED <<diskVars, calls, crashes>>

\* The tables of the version are all there, and manifest and database agree.
Agree(id) == db.id = id
Verified(w) == db # Missing /\ HasMetadata /\ HasTables /\ Agree(call[w].id)

Inspect(w) ==
  /\ Begin(w, "inspect", "open", None)
  /\ UNCHANGED <<diskVars, writer, crashes>>

\* The answer is read, the connection closed.
Inspected(w) ==
  /\ At(w, "inspect", "verify")
  /\ IF Verified(w) THEN Succeed(w) ELSE Fail(w)
  /\ UNCHANGED <<diskVars, writer, calls, crashes>>

---------------------------------------------------------------------------

\* The process is killed: its transactions are rolled back, its calls gone.
Killed ==
  /\ crashes < MaxCrashes
  /\ crashes' = crashes + 1
  /\ writer' = None
  /\ call' = [w \in Workers |-> Idle]
  /\ answer' = [w \in Workers |-> Pending]
  /\ UNCHANGED <<diskVars, calls>>

OpenStep(w) ==
  \/ ReadManifest(w) \/ Connect(w)
  \/ BeginMigration(w) \/ LockForMigration(w) \/ CommitMigration(w) \/ MigrationFails(w)

CreateStep(w) ==
  \/ Create(w) \/ MakeRoot(w)
  \/ CreateDatabase(w) \/ CreateSchema(w) \/ OpenManifest(w) \/ WriteManifest(w)
  \/ Created(w) \/ CreateFails(w)

StoreNext ==
  \/ \E w \in Workers : CreateStep(w) \/ OpenStep(w) \/ Inspect(w) \/ Inspected(w)
  \/ Killed

\* Nothing, a project of each version, or one that was put together by hand.
StoreInit ==
  /\ \/ root = FALSE /\ manifest = None /\ db = Missing
     \/ /\ root = TRUE
        /\ \E id \in Ids, other \in Ids :
              /\ manifest = id
              /\ \/ \E v \in Legacy..Current : db = WholeDatabase(v, other)
                 \/ db \in Foreign
  /\ writer = None
  /\ call = [w \in Workers |-> Idle]
  /\ answer = [w \in Workers |-> Pending]
  /\ calls = 0 /\ crashes = 0

---------------------------------------------------------------------------

\* A database has exactly the tables of the version it is stamped with, a
\* manifest never stands beside a database that is not there yet, and what a
\* creation or an inspection answers is current, complete and of one identity:
\* whatever write failed, whoever migrated at the same time and wherever the
\* process was killed (create_database, migrate_database, ProjectService).
ProjectIsWhole ==
  /\ db \in {Missing, Empty} \cup Foreign \/ db.tables = TablesOf(db.version)
  /\ manifest \in Ids => db \notin {Missing, Empty}
  /\ \A w \in Workers :
       answer[w].ok /\ answer[w].op \in {"create", "inspect"} =>
         manifest = answer[w].id /\ db = WholeDatabase(Current, manifest)
===============================================================================
