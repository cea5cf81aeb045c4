----------------------------- MODULE SeedEngine -----------------------------
(***************************************************************************)
(* dbctl and `pnpm seed`: processes that create the schema, run the        *)
(* migrations and execute the seeds of the catalogue against one database. *)
(*                                                                         *)
(* A seed is executed in one SERIALIZABLE transaction, retried when        *)
(* PostgreSQL cannot serialize it, and logged after its commit by Umzug.   *)
(* dbctl takes an advisory lock, which lives and dies with a session of    *)
(* its pool; `pnpm seed` takes none.                                       *)
(***************************************************************************)
EXTENDS Integers, Sequences, FiniteSets, SeedData

CONSTANTS Procs,      \* processes that overlap
          Versions,   \* contents of seed-data.ts in the builds that are run
          NoVersion,  \* no such row
          NoProc,     \* the lock is free
          Invocations, \* the commands that may be run, with the build and the arguments
          MaxRuns,    \* bound: commands run
          MaxFaults   \* bound: crashes, failing statements and lost sessions

ASSUME SeedAssumption == /\ NoVersion \notin Versions
                         /\ NoProc \notin Procs
                         /\ MaxRuns \in Nat /\ MaxFaults \in Nat

-----------------------------------------------------------------------------
(* The catalogue.                                                          *)

ReferenceTables == {"drivers", "driver_locations"}
FixtureTables == {"rides", "ride_transitions", "fare_calculations", "payment_intents",
                  "settlement_attempts", "dispatch_audits"}

\* Tables whose rows are overwritten; the rows of the others are inserted once.
MutableTables == {"drivers", "rides", "payment_intents", "settlement_attempts"}
Tables == ReferenceTables \cup FixtureTables

\* The seeds of a category are executed in this order.
ALL_SEEDS == <<"reference", "fixture">>
Seeds == {"reference", "fixture"}
TablesOf(s) == IF s = "reference" THEN ReferenceTables ELSE FixtureTables

MAX_RETRIES == 3
NAMED_MIGRATIONS == <<"payments", "fares", "rides">>

\* The commands that change the database: whether they take the advisory lock, create the
\* tables, and execute seeds.
SeedApply == [lock |-> TRUE, sync |-> TRUE, seeds |-> TRUE]
SchemaEnsure == [lock |-> TRUE, sync |-> TRUE, seeds |-> FALSE]
MigrateApply == [lock |-> TRUE, sync |-> FALSE, seeds |-> FALSE]
RunSeeds == [lock |-> FALSE, sync |-> TRUE, seeds |-> TRUE]
Commands == {SeedApply, SchemaEnsure, MigrateApply, RunSeeds}

\* A command, the seed data of the build it runs in, and SEED_REPLAY and SEED_CATEGORY.
SeedLists == {<<>>, <<"reference">>, <<"fixture">>, ALL_SEEDS}
ASSUME InvocationsAssumption ==
    Invocations \subseteq [command : Commands, version : Versions, replay : BOOLEAN,
                           seeds : SeedLists]

\* What is left of the migrations when a process has run some.
MigrationLists == {NAMED_MIGRATIONS, <<"fares", "rides">>, <<"rides">>, <<>>}

Runs == [command : Commands, version : Versions \cup {NoVersion}, replay : BOOLEAN,
         migrations : MigrationLists, seeds : SeedLists, retries : 0..MAX_RETRIES]

VARIABLES synced,     \* the tables exist
          migrated,   \* migrations whose constraints exist
          rows,       \* rows[t]: the version that wrote the seed rows of table t
          integrity,  \* integrity[s]: seed_integrity.hash, as the version it is computed from
          meta,       \* meta[s]: seed_meta.hash
          lock,       \* the process whose session holds the advisory lock
          stale,      \* processes whose snapshot misses a commit on the rows they write
          pc,         \* pc[p]: the await process p is suspended at
          run,        \* run[p]: command, build, replay flag and what is left to do
          lockLost,   \* processes that lost the session of their lock in this run
          runs, faults

vars == <<synced, migrated, rows, integrity, meta, lock, stale, pc, run, lockLost, runs, faults>>
schema == <<synced, migrated>>
seeded == <<rows, integrity, meta>>

NoRun == [command |-> MigrateApply, version |-> NoVersion, replay |-> FALSE,
          migrations |-> <<>>, seeds |-> <<>>, retries |-> 0]

Init == /\ synced = FALSE
        /\ migrated = {}
        /\ rows = [t \in Tables |-> NoVersion]
        /\ integrity = [s \in Seeds |-> NoVersion]
        /\ meta = [s \in Seeds |-> NoVersion]
        /\ lock = NoProc
        /\ stale = {}
        /\ pc = [p \in Procs |-> "idle"]
        /\ run = [p \in Procs |-> NoRun]
        /\ lockLost = {}
        /\ runs = 0 /\ faults = 0

Goto(p, label) == pc' = [pc EXCEPT ![p] = label]
Seed(p) == Head(run[p].seeds)

\* Process p ends; with its connections goes whatever it holds.
Exit(p) == /\ Goto(p, "idle")
           /\ run' = [run EXCEPT ![p] = NoRun]
           /\ lock' = IF lock = p THEN NoProc ELSE lock
           /\ stale' = stale \ {p}
           /\ lockLost' = lockLost \ {p}

-----------------------------------------------------------------------------
(* Commands.                                                               *)

Start(p, i) ==
    /\ pc[p] = "idle"
    /\ runs < MaxRuns
    /\ runs' = runs + 1
    /\ run' = [run EXCEPT ![p] = [command |-> i.command, version |-> i.version,
                                  replay |-> i.replay, migrations |-> NAMED_MIGRATIONS,
                                  seeds |-> i.seeds, retries |-> 0]]
    /\ Goto(p, IF i.command.lock THEN "acquiring" ELSE "syncing")
    /\ UNCHANGED <<schema, seeded, lock, stale, lockLost, faults>>

\* Mutant of TryAcquire: the answer of pg_try_advisory_lock is not looked at.
AcquireAnyway(p) ==
    /\ pc[p] = "acquiring"
    /\ lock' = p
    /\ Goto(p, "syncing")
    /\ UNCHANGED <<schema, seeded, stale, run, lockLost, runs, faults>>

\* pg_try_advisory_lock succeeds.
TryAcquire(p) ==
    /\ pc[p] = "acquiring"
    /\ lock = NoProc
    /\ lock' = p
    /\ Goto(p, "syncing")
    /\ UNCHANGED <<schema, seeded, stale, run, lockLost, runs, faults>>

\* Another session has the lock: LOCK_CONTENTION.
LockContention(p) ==
    /\ pc[p] = "acquiring"
    /\ lock # NoProc
    /\ Exit(p)
    /\ UNCHANGED <<schema, seeded, runs, faults>>

\* ensureSchema creates the missing tables; migrate:apply expects them.
Sync(p) ==
    /\ pc[p] = "syncing"
    /\ IF run[p].command.sync \/ synced
       THEN /\ synced' = (synced \/ run[p].command.sync)
            /\ Goto(p, "migrating")
            /\ UNCHANGED <<run, lock, stale, lockLost>>
       ELSE /\ UNCHANGED synced
            /\ Exit(p)
    /\ UNCHANGED <<migrated, seeded, runs, faults>>

\* Mutant of RunMigration: what remains is dropped after the first.
RunFirstMigration(p) ==
    LET r == run[p] IN
    /\ pc[p] = "migrating"
    /\ migrated' = migrated \cup {Head(r.migrations)}
    /\ run' = [run EXCEPT ![p].migrations = <<>>]
    /\ Goto(p, IF ~r.command.seeds THEN "releasing" ELSE "planning")
    /\ UNCHANGED <<synced, seeded, lock, stale, lockLost, runs, faults>>

\* runMigrations runs the next one; none is tracked, all may be run again.
RunMigration(p) ==
    LET r == run[p] IN
    /\ pc[p] = "migrating"
    /\ migrated' = migrated \cup {Head(r.migrations)}
    /\ run' = [run EXCEPT ![p].migrations = Tail(@)]
    /\ Goto(p, IF Len(r.migrations) > 1 THEN "migrating"
               ELSE IF ~r.command.seeds THEN "releasing" ELSE "planning")
    /\ UNCHANGED <<synced, seeded, lock, stale, lockLost, runs, faults>>

\* pg_advisory_unlock and the end of the connection.
Release(p) ==
    /\ pc[p] = "releasing"
    /\ Exit(p)
    /\ UNCHANGED <<schema, seeded, runs, faults>>

-----------------------------------------------------------------------------
(* The seed engine.                                                        *)

\* What seed:plan reports as pending.
Pending(s) == meta[s] = NoVersion

\* What seed:verify of a build with version v reports.
VerifyStatus(s, v) == IF integrity[s] = NoVersion THEN "NOT_APPLIED"
                      ELSE IF integrity[s] = v THEN "OK" ELSE "DRIFTED"

\* The seeds of a list that are pending, in the order of the catalogue.
PendingSeeds(list) ==
    CHOOSE todo \in SeedLists :
        {todo[i] : i \in DOMAIN todo} = {s \in {list[i] : i \in DOMAIN list} : Pending(s)}

\* runSeedEngine: all seeds of the category in a replay, else the pending ones.
PlanSeeds(p) ==
    LET todo == IF run[p].replay THEN run[p].seeds ELSE PendingSeeds(run[p].seeds)
    IN /\ pc[p] = "planning"
       /\ run' = [run EXCEPT ![p].seeds = todo]
       /\ Goto(p, IF todo = <<>> THEN "releasing" ELSE "beginning")
       /\ UNCHANGED <<schema, seeded, lock, stale, lockLost, runs, faults>>

\* executeSeed begins its transaction; the first upsert takes the snapshot.
BeginSeed(p) ==
    /\ pc[p] = "beginning"
    /\ Goto(p, "waiting")
    /\ UNCHANGED <<schema, seeded, lock, stale, run, lockLost, runs, faults>>

\* Mutant of UpsertRows: no row lock is waited for.
UpsertRowsAtOnce(p) ==
    /\ pc[p] = "waiting"
    /\ Goto(p, "writing")
    /\ UNCHANGED <<schema, seeded, lock, stale, run, lockLost, runs, faults>>

\* No other transaction has uncommitted versions of the rows, and none has committed any
\* since the snapshot: the upserts succeed.
UpsertRows(p) ==
    /\ pc[p] = "waiting"
    /\ p \notin stale
    /\ \A q \in Procs : pc[q] = "writing" => Seed(q) # Seed(p)
    /\ Goto(p, "writing")
    /\ UNCHANGED <<schema, seeded, lock, stale, run, lockLost, runs, faults>>

\* Mutant of Retry: the retry goes on in the transaction that failed.
RetryInPlace(p) ==
    /\ pc[p] = "waiting"
    /\ p \in stale
    /\ Goto(p, "beginning")
    /\ UNCHANGED <<schema, seeded, lock, stale, run, lockLost, runs, faults>>

\* SQLSTATE 40001: roll back and execute the seed again, or give up after three retries.
Retry(p) ==
    /\ pc[p] = "waiting"
    /\ p \in stale
    /\ stale' = stale \ {p}
    /\ IF run[p].retries < MAX_RETRIES
       THEN run' = [run EXCEPT ![p].retries = @ + 1] /\ Goto(p, "beginning")
       ELSE UNCHANGED run /\ Goto(p, "releasing")
    /\ UNCHANGED <<schema, seeded, lock, lockLost, runs, faults>>

\* The rows after seed.up: DO UPDATE where rows are mutable, DO NOTHING where they are not.
Upserted(s, v) ==
    [t \in Tables |-> IF t \in TablesOf(s) /\ (t \in MutableTables \/ rows[t] = NoVersion)
                      THEN v ELSE rows[t]]

\* Mutant of CommitSeed: the hash is not stored in the transaction.
CommitWithoutHash(p) ==
    /\ pc[p] = "writing"
    /\ rows' = Upserted(Seed(p), run[p].version)
    /\ stale' = stale \cup {q \in Procs : pc[q] = "waiting" /\ Seed(q) = Seed(p)}
    /\ Goto(p, "logging")
    /\ UNCHANGED <<schema, integrity, meta, lock, run, lockLost, runs, faults>>

\* storeHash and commit.  Transactions that wait for the rows have an older snapshot.
CommitSeed(p) ==
    /\ pc[p] = "writing"
    /\ rows' = Upserted(Seed(p), run[p].version)
    /\ integrity' = [integrity EXCEPT ![Seed(p)] = run[p].version]
    /\ stale' = stale \cup {q \in Procs : pc[q] = "waiting" /\ Seed(q) = Seed(p)}
    /\ Goto(p, "logging")
    /\ UNCHANGED <<schema, meta, lock, run, lockLost, runs, faults>>

\* The answer to the commit is an error, whatever became of the transaction: rolling back
\* what has ended throws, so it is never retried.
CommitFails(p) ==
    /\ pc[p] = "writing"
    /\ faults < MaxFaults
    /\ faults' = faults + 1
    /\ \/ /\ rows' = Upserted(Seed(p), run[p].version)
          /\ integrity' = [integrity EXCEPT ![Seed(p)] = run[p].version]
          /\ stale' = stale \cup {q \in Procs : pc[q] = "waiting" /\ Seed(q) = Seed(p)}
       \/ UNCHANGED <<rows, integrity, stale>>
    /\ Goto(p, "releasing")
    /\ UNCHANGED <<schema, meta, lock, run, lockLost, runs>>

\* Mutant of LogSeed: the ledger is written before the commit.
LogSeedFirst(p) ==
    /\ pc[p] = "waiting"
    /\ meta' = [meta EXCEPT ![Seed(p)] = run[p].version]
    /\ UNCHANGED <<schema, rows, integrity, lock, stale, pc, run, lockLost, runs, faults>>

\* Mutant of LogSeed: begins once more after the last seed.
LogSeedOnceMore(p) ==
    /\ pc[p] = "logging"
    /\ meta' = [meta EXCEPT ![Seed(p)] = run[p].version]
    /\ run' = [run EXCEPT ![p].seeds = Tail(@), ![p].retries = 0]
    /\ Goto(p, "beginning")
    /\ UNCHANGED <<schema, rows, integrity, lock, stale, lockLost, runs, faults>>

\* Umzug calls logMigration and goes on with the next seed.
LogSeed(p) ==
    /\ pc[p] = "logging"
    /\ meta' = [meta EXCEPT ![Seed(p)] = run[p].version]
    /\ run' = [run EXCEPT ![p].seeds = Tail(@), ![p].retries = 0]
    /\ Goto(p, IF Len(run[p].seeds) > 1 THEN "beginning" ELSE "releasing")
    /\ UNCHANGED <<schema, rows, integrity, lock, stale, lockLost, runs, faults>>

-----------------------------------------------------------------------------
(* Failures.                                                               *)

\* A statement outside the commit fails: the error surfaces and the lock is released.
StatementFails(p) ==
    /\ pc[p] \in {"syncing", "migrating", "planning", "beginning", "waiting", "logging"}
    /\ faults < MaxFaults
    /\ faults' = faults + 1
    /\ Goto(p, "releasing")
    /\ stale' = stale \ {p}
    /\ UNCHANGED <<schema, seeded, lock, run, lockLost, runs>>

Crash(p) ==
    /\ pc[p] # "idle"
    /\ faults < MaxFaults
    /\ faults' = faults + 1
    /\ Exit(p)
    /\ UNCHANGED <<schema, seeded, runs>>

\* The pool loses the session that took the lock; the process goes on with another.
SessionDrops(p) ==
    /\ lock = p
    /\ faults < MaxFaults
    /\ faults' = faults + 1
    /\ lock' = NoProc
    /\ lockLost' = lockLost \cup {p}
    /\ UNCHANGED <<schema, seeded, stale, pc, run, runs>>

-----------------------------------------------------------------------------

Invoke(p) == \E i \in Invocations : Start(p, i)

Proceed(p) == \/ TryAcquire(p) \/ LockContention(p)
              \/ Sync(p) \/ RunMigration(p)
              \/ PlanSeeds(p) \/ BeginSeed(p)
              \/ UpsertRows(p) \/ Retry(p)
              \/ CommitSeed(p) \/ LogSeed(p)
              \/ Release(p)

Next == \E p \in Procs : \/ Invoke(p) \/ Proceed(p)
                         \/ CommitFails(p) \/ StatementFails(p) \/ Crash(p) \/ SessionDrops(p)

\* A process that was started is scheduled, and the database answers it.
Spec == Init /\ [][Next]_vars /\ \A p \in Procs : WF_vars(Proceed(p))

-----------------------------------------------------------------------------
(* Properties.                                                             *)

Migrations == {NAMED_MIGRATIONS[i] : i \in DOMAIN NAMED_MIGRATIONS}
Labels == {"idle", "acquiring", "syncing", "migrating", "releasing", "planning", "beginning",
           "waiting", "writing", "logging"}

\* Every variable holds a value of the kind the database or the process keeps in it.
TypeOK ==
    /\ synced \in BOOLEAN /\ migrated \subseteq Migrations
    /\ rows \in [Tables -> Versions \cup {NoVersion}]
    /\ integrity \in [Seeds -> Versions \cup {NoVersion}]
    /\ meta \in [Seeds -> Versions \cup {NoVersion}]
    /\ lock \in Procs \cup {NoProc}
    /\ stale \subseteq Procs /\ lockLost \subseteq Procs
    /\ pc \in [Procs -> Labels]
    /\ run \in [Procs -> Runs]
    /\ \A p \in Procs : /\ pc[p] # "idle" => run[p].version \in Versions
                        /\ pc[p] \in {"beginning", "waiting", "writing", "logging"}
                               => run[p].seeds # <<>>
    /\ runs \in 0..MaxRuns /\ faults \in 0..MaxFaults

\* A seed that a build verifies as OK has that build's rows in every mutable table, and rows
\* of some build in every immutable one, whoever else executed it at the same time.
VerifiedSeedsAreApplied ==
    \A s \in Seeds, v \in Versions : VerifyStatus(s, v) = "OK" =>
        \A t \in TablesOf(s) : /\ rows[t] # NoVersion
                               /\ t \in MutableTables => rows[t] = v

\* A seed that is not planned again was committed: the ledger runs behind the data, never
\* ahead of it, through crashes, failed commits and retries.
LoggedSeedsWereCommitted ==
    \A s \in Seeds : ~Pending(s) => VerifyStatus(s, meta[s]) # "NOT_APPLIED"

\* What one build leaves in the database is a state the modules can be in: its rows refer to
\* each other as the domain rules say, once both seeds that do are there.
SeededRowsFitTogether ==
    \A v \in Versions :
        /\ (\A t \in ReferenceTables : rows[t] = v) => DriversFit
        /\ (\A t \in FixtureTables : rows[t] = v) => TrailFits /\ PaymentsFit /\ AuditsFit
        /\ (\A t \in Tables : rows[t] = v) => DriversServeRides

\* Seed rows are only found in a database that has all constraints.
SeededDatabaseIsMigrated ==
    (\E t \in Tables : rows[t] # NoVersion) => synced /\ migrated = Migrations

\* Seeds of any builds, executed by any commands, leave a database the modules can work on.
SeededDatabaseIsUsable == SeededRowsFitTogether /\ SeededDatabaseIsMigrated

\* Two commands that take the advisory lock are inside it together only if one of them lost
\* the session that held it.
LockExcludes ==
    \A p, q \in Procs :
        /\ p # q
        /\ run[p].command.lock /\ pc[p] \notin {"idle", "acquiring"}
        /\ run[q].command.lock /\ pc[q] \notin {"idle", "acquiring"}
        => lockLost \cap {p, q} # {}

\* At most one transaction holds the rows of a seed, with or without the advisory lock.
OneWriterPerSeed ==
    \A p, q \in Procs : /\ pc[p] = "writing" /\ pc[q] = "writing" /\ Seed(p) = Seed(q)
                        => p = q

\* Writers exclude one another: commands by the lock while they have it, and seeds by their
\* transactions even without it.
WritersExclude == LockExcludes /\ OneWriterPerSeed

\* Executing a verified seed again, in a replay or after a crash that kept it out of the
\* ledger, changes no row: "second run produces identical DB state".
ReexecutionChangesNothing ==
    [][\A s \in Seeds, v \in Versions :
          VerifyStatus(s, v) = "OK" /\ integrity'[s] = v
              => \A t \in TablesOf(s) : rows'[t] = rows[t]]_vars

\* Every command ends: retries are few, and whoever is waited for ends too.
CommandsEnd == \A p \in Procs : (pc[p] # "idle") ~> (pc[p] = "idle")
=============================================================================
