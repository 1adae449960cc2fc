-------------------------- MODULE MigrationRunner --------------------------
(***************************************************************************)
(* MigrationRunner of database/migrate.js: processes that apply the        *)
(* migration files in order under an advisory lock of PostgreSQL and       *)
(* record each in schema_migrations.  Every file has a BEGIN and a COMMIT  *)
(* of its own, so that its effects are committed before its row is         *)
(* inserted.  A process may be killed at any time, or lose the server: its *)
(* lock is then free, and the statement it sent may still take effect.     *)
(* A second application of a file fails (the files create tables without   *)
(* IF NOT EXISTS); versions are numbered in the order of the files.        *)
(***************************************************************************)
EXTENDS Integers

CONSTANTS
  Runners,   \* processes, each runs one command
  Last,      \* the number of migration files
  None

ASSUME MigrationAssumption == Last \in Nat \ {0} /\ None \notin Runners

VARIABLES
  schema,    \* the migrations whose effects are in the database
  row,       \* per version its row in schema_migrations
  lock,      \* the holder of the advisory lock
  pc, current, target, \* per runner: where it is, the version it applies, up to which
  applied,   \* per runner: the versions it has read as applied
  sent,      \* statements of runners that are gone: <<version, what it does>>
  late       \* versions recorded by such a statement

database == <<schema, row>>
process == <<pc, current, target, applied>>
gone == <<sent, late>>
vars == <<database, lock, process, gone>>

Versions == 1 .. Last
Holding == {"locked", "executing", "timedOut", "recording", "failing", "releasing"}

Init ==
  /\ schema = {} /\ row = [v \in Versions |-> "none"]
  /\ lock = None
  /\ pc = [r \in Runners |-> "idle"]
  /\ current = [r \in Runners |-> 0] /\ target = [r \in Runners |-> 0]
  /\ applied = [r \in Runners |-> {}]
  /\ sent = {} /\ late = {}

Goto(r, where) == pc' = [pc EXCEPT ![r] = where]

\* Mutant: nobody looks at what pg_try_advisory_lock returns.
AcquireLock_Ignored(r) ==
  /\ pc[r] = "idle"
  /\ Goto(r, "locked") /\ lock' = r
  /\ UNCHANGED <<database, current, target, applied, gone>>

\* pg_try_advisory_lock answers at once; without the lock the command fails.
AcquireLock(r) ==
  /\ pc[r] = "idle"
  /\ IF lock = None THEN Goto(r, "locked") /\ lock' = r
                    ELSE Goto(r, "done") /\ UNCHANGED lock
  /\ UNCHANGED <<database, current, target, applied, gone>>

\* The loop over the pending migrations goes on with the first one after v.
GoOn(r, v, upTo, done) ==
  LET pending == {w \in v + 1 .. upTo : w \notin done}
  IN IF pending = {}
     THEN Goto(r, "releasing") /\ UNCHANGED current
     ELSE \E w \in pending : /\ \A x \in pending : w <= x
                            /\ Goto(r, "executing")
                            /\ current' = [current EXCEPT ![r] = w]

\* Mutant: every row counts as an applied migration.
ReadApplied_EveryRow == {v \in Versions : row[v] # "none"}

\* getAppliedMigrations: success is TRUE.
ReadApplied == {v \in Versions : row[v] \in {"applied", "repaired"}}

\* A repaired row keeps the checksum 'error', which only --force lets pass.
ValidateMigrationIntegrity(force) == force \/ \A v \in Versions : row[v] # "repaired"

\* migrate(): the pending versions up to the target are those without such a row.
Migrate(r, upTo, force) ==
  /\ pc[r] = "locked"
  /\ IF ValidateMigrationIntegrity(force)
     THEN /\ applied' = [applied EXCEPT ![r] = ReadApplied]
          /\ target' = [target EXCEPT ![r] = upTo]
          /\ GoOn(r, 0, upTo, ReadApplied)
     ELSE Goto(r, "releasing") /\ UNCHANGED <<current, target, applied>>
  /\ UNCHANGED <<database, lock, gone>>

\* rollback(): a row has no file name, so that the first executeMigration throws,
\* and the row of the failure is refused as well.
Rollback(r) ==
  /\ pc[r] = "locked"
  /\ Goto(r, "releasing")
  /\ UNCHANGED <<database, lock, current, target, applied, gone>>

-----------------------------------------------------------------------------
\* The SQL of the file ends.  After a timeout the ROLLBACK waits for this: it
\* comes too late, and the failure is recorded.
SqlCommits(r) ==
  /\ pc[r] \in {"executing", "timedOut"} /\ current[r] \notin schema
  /\ schema' = schema \cup {current[r]}
  /\ Goto(r, IF pc[r] = "executing" THEN "recording" ELSE "failing")
  /\ UNCHANGED <<row, lock, current, target, applied, gone>>

SqlFails(r) ==
  /\ pc[r] \in {"executing", "timedOut"}
  /\ Goto(r, "failing")
  /\ UNCHANGED <<database, lock, current, target, applied, gone>>

Timeout(r) ==
  /\ pc[r] = "executing"
  /\ Goto(r, "timedOut")
  /\ UNCHANGED <<database, lock, current, target, applied, gone>>

\* version is UNIQUE: a row that is there stays, and the INSERT fails.
Insert(v, success) ==
  row' = [row EXCEPT ![v] = IF @ = "none" THEN success ELSE @]

Record(r) ==
  /\ pc[r] = "recording"
  /\ Insert(current[r], "applied")
  /\ IF row[current[r]] = "none"
     THEN GoOn(r, current[r], target[r], applied[r])
     ELSE Goto(r, "failing") /\ UNCHANGED current
  /\ UNCHANGED <<schema, lock, target, applied, gone>>

\* Mutant: only a command that succeeds releases the lock.
RecordFailure_KeepsLock(r) ==
  /\ pc[r] = "failing"
  /\ Insert(current[r], "failed")
  /\ Goto(r, "done")
  /\ UNCHANGED <<schema, lock, current, target, applied, gone>>

\* The catch of executeMigration; an INSERT that fails is only logged.
RecordFailure(r) ==
  /\ pc[r] = "failing"
  /\ Insert(current[r], "failed")
  /\ Goto(r, "releasing")
  /\ UNCHANGED <<schema, lock, current, target, applied, gone>>

ReleaseLock(r) ==
  /\ pc[r] = "releasing"
  /\ Goto(r, "done") /\ lock' = None
  /\ UNCHANGED <<database, current, target, applied, gone>>

-----------------------------------------------------------------------------
\* What the server was asked last by a runner.
Statement(r) ==
  CASE pc[r] \in {"executing", "timedOut"} -> {<<current[r], "sql">>}
    [] pc[r] = "recording" -> {<<current[r], "applied">>}
    [] pc[r] = "failing" -> {<<current[r], "failed">>}
    [] OTHER -> {}

\* A signal, the timeout of MigrationManager, or a lost connection: the sessions
\* are gone and with them the lock, the last statement may go on.
Crash(r) ==
  /\ pc[r] \in Holding
  /\ Goto(r, "killed") /\ lock' = None
  /\ sent' \in {sent, sent \cup Statement(r)}
  /\ UNCHANGED <<database, current, target, applied, late>>

\* Such a statement takes effect, unless it fails.
StatementEnds(v, does) ==
  /\ <<v, does>> \in sent
  /\ sent' = sent \ {<<v, does>>}
  /\ \/ UNCHANGED <<database, late>>
     \/ does = "sql" /\ v \notin schema /\ schema' = schema \cup {v} /\ UNCHANGED <<row, late>>
     \/ /\ does # "sql" /\ Insert(v, does)
        /\ late' = late \cup {v}
        /\ UNCHANGED schema
  /\ UNCHANGED <<lock, process>>

\* The manual recovery of database/README.md: SET success = TRUE.
Repair(v) ==
  /\ row[v] = "failed"
  /\ row' = [row EXCEPT ![v] = "repaired"]
  /\ UNCHANGED <<schema, lock, process, gone>>

-----------------------------------------------------------------------------
RunnerStep(r) ==
  \/ AcquireLock(r) \/ Rollback(r)
  \/ \E upTo \in 0 .. Last, force \in BOOLEAN : Migrate(r, upTo, force)
  \/ SqlCommits(r) \/ SqlFails(r) \/ Record(r) \/ RecordFailure(r) \/ ReleaseLock(r)

Next ==
  \/ \E r \in Runners : RunnerStep(r) \/ Timeout(r) \/ Crash(r)
  \/ \E v \in Versions, does \in {"sql", "applied", "failed"} : StatementEnds(v, does)
  \/ \E v \in Versions : Repair(v)

Spec == Init /\ [][Next]_vars

\* PostgreSQL ends every statement, and a process goes on unless it is killed.
FairSpec == Spec /\ \A r \in Runners : WF_vars(pc[r] # "idle" /\ RunnerStep(r))

-----------------------------------------------------------------------------
\* Types of the state; whoever is at work holds the lock.
TypeOK ==
  /\ schema \subseteq Versions
  /\ row \in [Versions -> {"none", "applied", "failed", "repaired"}]
  /\ lock \in Runners \cup {None}
  /\ pc \in [Runners -> Holding \cup {"idle", "done", "killed"}]
  /\ current \in [Runners -> 0 .. Last] /\ target \in [Runners -> 0 .. Last]
  /\ applied \in [Runners -> SUBSET Versions]
  /\ sent \subseteq Versions \X {"sql", "applied", "failed"}
  /\ late \subseteq Versions
  /\ \A r \in Runners : pc[r] \in Holding <=> lock = r

\* A migration that is recorded as applied is in the database, and everything
\* before a recorded one is recorded as applied or was declared so, whoever was
\* killed, timed out or failed on the way.
RecordsAreTrue ==
  \A v \in Versions :
    /\ row[v] = "applied" => v \in schema
    /\ row[v] # "none" => \A w \in 1 .. v - 1 : row[w] \in {"applied", "repaired"}

\* Nobody executes a migration that is recorded as applied, unless it was recorded
\* by the last statement of a runner that was killed.
RecordedNotRepeated ==
  \A r \in Runners : pc[r] = "executing" => row[current[r]] # "applied" \/ current[r] \in late

\* A command that took the lock gives it back, whatever fails.
LockIsReleased == \A r \in Runners : lock = r ~> lock # r

\* "All migrations run within transactions for atomicity", "If anything fails,
\* entire migration rolls back": a migration that is recorded as failed has no
\* effects.
FailedIsRolledBack == \A v \in Versions : row[v] = "failed" => v \notin schema
=============================================================================
