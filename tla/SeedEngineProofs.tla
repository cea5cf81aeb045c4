-------------------------- MODULE SeedEngineProofs --------------------------
(***************************************************************************)
(* Proofs about SeedEngine for every set of processes and of builds, any   *)
(* commands they may run and any number of faults.                         *)
(*                                                                         *)
(* The advisory lock is left out of most of them: what the database holds  *)
(* is right because a seed, its hash and its rows are one transaction, and *)
(* because a process logs a seed only behind its own commit.               *)
(***************************************************************************)
EXTENDS SeedEngine, TLAPS

Elements(list) == {list[i] : i \in DOMAIN list}

Executing == {"beginning", "waiting", "writing", "logging"}

\* Process p has synced the tables before it migrates, has run the migrations that are not
\* left, and has run all of them before it plans; it logs a seed that was committed; and it
\* is inside the advisory lock if its command takes one, unless it lost the session.
ProcInv(p) ==
    /\ pc[p] \in {"acquiring", "syncing"} => run[p].migrations = NAMED_MIGRATIONS
    /\ pc[p] = "migrating" => /\ synced /\ run[p].migrations # <<>>
                              /\ Migrations \subseteq migrated \cup Elements(run[p].migrations)
    /\ pc[p] \in Executing \cup {"planning"} => synced /\ migrated = Migrations
    /\ pc[p] = "logging" => integrity[Seed(p)] # NoVersion
    /\ run[p].command.lock /\ pc[p] \notin {"idle", "acquiring"} => lock = p \/ p \in lockLost

\* The hash of a seed is the version its mutable rows have, and its other rows are there.
HashInv ==
    \A s \in Seeds : integrity[s] # NoVersion =>
        \A t \in TablesOf(s) : /\ rows[t] # NoVersion
                               /\ t \in MutableTables => rows[t] = integrity[s]

LedgerInv == \A s \in Seeds : meta[s] # NoVersion => integrity[s] # NoVersion

\* The inductive invariant.
Inv == /\ TypeOK
       /\ \A p \in Procs : ProcInv(p)
       /\ OneWriterPerSeed
       /\ HashInv
       /\ LedgerInv
       /\ SeededDatabaseIsMigrated

-----------------------------------------------------------------------------
(* Lists of seeds and of migrations.                                       *)

\* A list of seeds that is not empty is one seed or both, in the order of the catalogue.
LEMMA SeedListCases ==
  ASSUME NEW q \in SeedLists, q # <<>>
  PROVE  q = <<"reference">> \/ q = <<"fixture">> \/ q = <<"reference", "fixture">>
  BY DEF SeedLists, ALL_SEEDS

\* Taking the first seed off a list leaves a list, an empty one only if it was the last.
LEMMA SeedListFacts ==
  ASSUME NEW q \in SeedLists, q # <<>>
  PROVE  /\ Head(q) \in Seeds /\ Tail(q) \in SeedLists
         /\ Len(q) > 1 => Tail(q) # <<>>
<1>1. CASE q = <<"reference">>
  <2>1. Head(q) = "reference" /\ Tail(q) = <<>> /\ Len(q) = 1
    BY <1>1
  <2>2. QED
    BY <2>1 DEF Seeds, SeedLists
<1>2. CASE q = <<"fixture">>
  <2>1. Head(q) = "fixture" /\ Tail(q) = <<>> /\ Len(q) = 1
    BY <1>2
  <2>2. QED
    BY <2>1 DEF Seeds, SeedLists
<1>3. CASE q = <<"reference", "fixture">>
  <2>1. Head(q) = "reference" /\ Tail(q) = <<"fixture">> /\ <<"fixture">> # <<>>
    BY <1>3
  <2>2. QED
    BY <2>1 DEF Seeds, SeedLists
<1>4. QED
  BY <1>1, <1>2, <1>3, SeedListCases

\* Every set of seeds has a list.
LEMMA ListOfSeeds ==
  ASSUME NEW S \in SUBSET Seeds
  PROVE  \E q \in SeedLists : Elements(q) = S
<1>1. /\ Elements(<<>>) = {} /\ Elements(<<"reference">>) = {"reference"}
      /\ Elements(<<"fixture">>) = {"fixture"}
      /\ Elements(<<"reference", "fixture">>) = {"reference", "fixture"}
  BY DEF Elements
<1>2. S = {} \/ S = {"reference"} \/ S = {"fixture"} \/ S = {"reference", "fixture"}
  BY DEF Seeds
<1>3. QED
  BY <1>1, <1>2 DEF SeedLists, ALL_SEEDS

\* The pending seeds of a list are a list, of no other seeds.
LEMMA PendingList ==
  ASSUME NEW list \in SeedLists
  PROVE  PendingSeeds(list) \in SeedLists
<1> DEFINE S == {s \in {list[i] : i \in DOMAIN list} : Pending(s)}
<1>1. {list[i] : i \in DOMAIN list} \subseteq Seeds
  <2>1. CASE list = <<>>
    BY <2>1
  <2>2. CASE list # <<>>
    <3>1. list = <<"reference">> \/ list = <<"fixture">> \/ list = <<"reference", "fixture">>
      BY <2>2, SeedListCases
    <3>2. QED
      BY <3>1 DEF Seeds
  <2>3. QED
    BY <2>1, <2>2
<1>2. S \in SUBSET Seeds
  BY <1>1
<1>3. PICK q \in SeedLists : {q[i] : i \in DOMAIN q} = S
  BY <1>2, ListOfSeeds DEF Elements
<1> HIDE DEF S
<1>4. QED
  BY <1>3 DEF PendingSeeds, S

\* Taking the first migration off what is left leaves what is left then, and loses no other.
LEMMA MigrationListFacts ==
  /\ NAMED_MIGRATIONS \in MigrationLists /\ NAMED_MIGRATIONS # <<>>
  /\ Migrations = Elements(NAMED_MIGRATIONS)
  /\ \A q \in MigrationLists : q # <<>> =>
        /\ Head(q) \in Migrations /\ Tail(q) \in MigrationLists
        /\ Elements(q) \subseteq {Head(q)} \cup Elements(Tail(q))
        /\ Len(q) > 1 => Tail(q) # <<>>
        /\ ~(Len(q) > 1) => Elements(Tail(q)) = {}
<1>1. /\ Elements(<<>>) = {} /\ Elements(<<"rides">>) = {"rides"}
      /\ Elements(<<"fares", "rides">>) = {"fares", "rides"}
      /\ Elements(NAMED_MIGRATIONS) = {"payments", "fares", "rides"}
  BY DEF Elements, NAMED_MIGRATIONS
<1>2. Migrations = Elements(NAMED_MIGRATIONS)
  BY DEF Migrations, Elements
<1>3. ASSUME NEW q \in MigrationLists, q # <<>>
      PROVE  /\ Head(q) \in Migrations /\ Tail(q) \in MigrationLists
             /\ Elements(q) \subseteq {Head(q)} \cup Elements(Tail(q))
             /\ Len(q) > 1 => Tail(q) # <<>>
             /\ ~(Len(q) > 1) => Elements(Tail(q)) = {}
  <2>1. CASE q = <<"rides">>
    <3>1. Head(q) = "rides" /\ Tail(q) = <<>> /\ Len(q) = 1
      BY <2>1
    <3>2. QED
      BY <1>1, <1>2, <2>1, <3>1 DEF MigrationLists
  <2>2. CASE q = <<"fares", "rides">>
    <3>1. Head(q) = "fares" /\ Tail(q) = <<"rides">> /\ Len(q) = 2 /\ <<"rides">> # <<>>
      BY <2>2
    <3>2. QED
      BY <1>1, <1>2, <2>2, <3>1 DEF MigrationLists
  <2>3. CASE q = NAMED_MIGRATIONS
    <3>1. /\ Head(q) = "payments" /\ Tail(q) = <<"fares", "rides">> /\ Len(q) = 3
          /\ <<"fares", "rides">> # <<>>
      BY <2>3 DEF NAMED_MIGRATIONS
    <3>2. Tail(q) \in MigrationLists
      BY <3>1 DEF MigrationLists
    <3>3. Elements(q) = {"payments", "fares", "rides"} /\ Elements(Tail(q)) = {"fares", "rides"}
      BY <1>1, <2>3, <3>1
    <3>4. Migrations = {"payments", "fares", "rides"}
      BY <1>1, <1>2
    <3>5. QED
      BY <3>1, <3>2, <3>3, <3>4
  <2>4. QED
    BY <1>3, <2>1, <2>2, <2>3 DEF MigrationLists
<1>4. NAMED_MIGRATIONS \in MigrationLists /\ NAMED_MIGRATIONS # <<>>
  BY DEF NAMED_MIGRATIONS, MigrationLists
<1>5. QED
  BY <1>2, <1>3, <1>4

-----------------------------------------------------------------------------
(* Types.                                                                  *)

\* What a process does, and what others do to it.
Step(p) == \/ Invoke(p) \/ Proceed(p)
           \/ CommitFails(p) \/ StatementFails(p) \/ Crash(p) \/ SessionDrops(p)

\* The flags of a command are Booleans.
LEMMA CommandFlags ==
  \A c \in Commands : c.lock \in BOOLEAN /\ c.sync \in BOOLEAN /\ c.seeds \in BOOLEAN
<1>1. Commands \subseteq [lock : BOOLEAN, sync : BOOLEAN, seeds : BOOLEAN]
  BY DEF Commands, SeedApply, SchemaEnsure, MigrateApply, RunSeeds
<1>2. QED
  BY <1>1

\* What the type invariant says of the run of one process, field by field.
LEMMA RunFields ==
  ASSUME TypeOK, NEW p \in Procs
  PROVE  /\ run[p] \in Runs /\ run[p].command \in Commands /\ run[p].seeds \in SeedLists
         /\ run[p].version \in Versions \cup {NoVersion} /\ run[p].replay \in BOOLEAN
         /\ run[p].migrations \in MigrationLists /\ run[p].retries \in 0..MAX_RETRIES
         /\ pc[p] \in Labels
         /\ pc[p] # "idle" => run[p].version \in Versions
         /\ pc[p] \in Executing => run[p].seeds # <<>> /\ Seed(p) \in Seeds
<1>1. run[p] \in Runs
  BY DEF TypeOK
<1>2. /\ pc[p] \in Labels
      /\ pc[p] # "idle" => run[p].version \in Versions
      /\ pc[p] \in Executing => run[p].seeds # <<>>
  BY DEF TypeOK, Executing
<1>3. run[p].seeds \in SeedLists
  BY <1>1 DEF Runs
<1>4. run[p].seeds # <<>> => Seed(p) \in Seeds
  BY <1>3, SeedListFacts DEF Seed
<1>5. QED
  BY <1>1, <1>2, <1>3, <1>4 DEF Runs

\* What a process still has to do may be replaced.
LEMMA RunUpdates ==
  ASSUME NEW r \in Runs
  PROVE  /\ \A m \in MigrationLists : /\ [r EXCEPT !.migrations = m] \in Runs
                                      /\ [r EXCEPT !.migrations = m].version = r.version
         /\ \A q \in SeedLists : /\ [r EXCEPT !.seeds = q] \in Runs
                                 /\ [r EXCEPT !.seeds = q].version = r.version
                                 /\ [r EXCEPT !.seeds = q].seeds = q
         /\ \A n \in 0..MAX_RETRIES : /\ [r EXCEPT !.retries = n] \in Runs
                                      /\ [r EXCEPT !.retries = n].version = r.version
                                      /\ [r EXCEPT !.retries = n].seeds = r.seeds
  BY DEF Runs

\* A process that exits keeps the types, is idle and touches no other process.
LEMMA ExitType ==
  ASSUME TypeOK, NEW p \in Procs, Exit(p)
  PROVE  /\ pc' \in [Procs -> Labels] /\ run' \in [Procs -> Runs]
         /\ lock' \in Procs \cup {NoProc} /\ stale' \subseteq Procs /\ lockLost' \subseteq Procs
         /\ pc'[p] = "idle" /\ run'[p] = NoRun
         /\ \A q \in Procs \ {p} : pc'[q] = pc[q] /\ run'[q] = run[q]
<1>1. NoRun \in Runs
  BY DEF NoRun, Runs, Commands, MigrationLists, SeedLists, MAX_RETRIES
<1>2. QED
  BY <1>1 DEF Exit, Goto, TypeOK, Labels

\* A program counter moves on.
LEMMA GotoType ==
  ASSUME TypeOK, NEW p \in Procs, NEW l \in Labels, Goto(p, l)
  PROVE  /\ pc' \in [Procs -> Labels] /\ pc'[p] = l
         /\ \A q \in Procs \ {p} : pc'[q] = pc[q]
  BY DEF Goto, TypeOK

\* The part of TypeOK about processes.
ProcTypes ==
    /\ pc \in [Procs -> Labels] /\ run \in [Procs -> Runs]
    /\ \A p \in Procs : /\ pc[p] # "idle" => run[p].version \in Versions
                        /\ pc[p] \in {"beginning", "waiting", "writing", "logging"}
                               => run[p].seeds # <<>>

\* A step of a process keeps the types of what processes hold in memory.
LEMMA ProcTypeStep ==
  ASSUME Inv, NEW p \in Procs, Step(p)
  PROVE  ProcTypes'
<1>0. TypeOK /\ ProcTypes
  BY DEF Inv, TypeOK, ProcTypes
<1>1. CASE UNCHANGED <<pc, run>>
  BY <1>0, <1>1 DEF ProcTypes
<1>2. CASE Exit(p)
  BY <1>0, <1>2, ExitType DEF ProcTypes
<1>3. ASSUME NEW l \in Labels, Goto(p, l), UNCHANGED run, l # "idle" => pc[p] # "idle",
             l \in Executing => run[p].seeds # <<>>
      PROVE  ProcTypes'
  BY <1>0, <1>3, GotoType DEF ProcTypes, Executing
<1>4. ASSUME NEW l \in Labels, Goto(p, l), NEW r \in Runs, run' = [run EXCEPT ![p] = r],
             r.version \in Versions, l \in Executing => r.seeds # <<>>
      PROVE  ProcTypes'
  BY <1>0, <1>4, GotoType DEF ProcTypes, Executing
<1>5. ASSUME NEW i \in Invocations, Start(p, i)
      PROVE  ProcTypes'
  <2> DEFINE r == [command |-> i.command, version |-> i.version, replay |-> i.replay,
                   migrations |-> NAMED_MIGRATIONS, seeds |-> i.seeds, retries |-> 0]
             l == IF i.command.lock THEN "acquiring" ELSE "syncing"
  <2>1. /\ i.command \in Commands /\ i.version \in Versions /\ i.replay \in BOOLEAN
        /\ i.seeds \in SeedLists
    BY InvocationsAssumption
  <2>2. r \in Runs /\ r.version \in Versions
    BY <2>1, MigrationListFacts DEF Runs, MAX_RETRIES
  <2>3. l \in Labels /\ l \notin Executing /\ Goto(p, l) /\ run' = [run EXCEPT ![p] = r]
    BY <1>5 DEF Start, Labels, Executing
  <2> HIDE DEF r, l
  <2>4. QED
    BY <1>4, <2>2, <2>3
<1>6. CASE TryAcquire(p) \/ CommitFails(p) \/ StatementFails(p)
  <2>1. PICK l \in Labels : Goto(p, l) /\ l \notin Executing
    BY <1>6 DEF TryAcquire, CommitFails, StatementFails, Labels, Executing
  <2>2. pc[p] # "idle" /\ UNCHANGED run
    BY <1>6 DEF TryAcquire, CommitFails, StatementFails
  <2>3. QED
    BY <1>3, <2>1, <2>2
<1>7. CASE Sync(p)
  <2>1. CASE Exit(p)
    BY <1>2, <2>1
  <2>2. CASE Goto(p, "migrating") /\ UNCHANGED run
    BY <1>3, <1>7, <2>2 DEF Sync, Labels, Executing
  <2>3. QED
    BY <1>7, <2>1, <2>2 DEF Sync
<1>8. CASE RunMigration(p)
  <2> DEFINE r == [run[p] EXCEPT !.migrations = Tail(run[p].migrations)]
             l == IF Len(run[p].migrations) > 1 THEN "migrating"
                  ELSE IF ~run[p].command.seeds THEN "releasing" ELSE "planning"
  <2>1. run[p] \in Runs /\ run[p].migrations \in MigrationLists /\ run[p].version \in Versions
    BY <1>0, <1>8, RunFields DEF RunMigration
  <2>2. Tail(run[p].migrations) \in MigrationLists
    BY <1>8, <2>1, MigrationListFacts DEF RunMigration, Inv, ProcInv
  <2>3. r \in Runs /\ r.version \in Versions
    BY <2>1, <2>2, RunUpdates
  <2>4. run' = [run EXCEPT ![p] = r] /\ Goto(p, l) /\ l \in Labels /\ l \notin Executing
    BY <1>8 DEF RunMigration, Labels, Executing
  <2> HIDE DEF r, l
  <2>5. QED
    BY <1>4, <2>3, <2>4
<1>9. CASE PlanSeeds(p)
  <2> DEFINE todo == IF run[p].replay THEN run[p].seeds ELSE PendingSeeds(run[p].seeds)
             r == [run[p] EXCEPT !.seeds = todo]
             l == IF todo = <<>> THEN "releasing" ELSE "beginning"
  <2>1. run[p] \in Runs /\ run[p].seeds \in SeedLists /\ run[p].version \in Versions
    BY <1>0, <1>9, RunFields DEF PlanSeeds
  <2>2. todo \in SeedLists
    BY <2>1, PendingList
  <2>3. run' = [run EXCEPT ![p] = r] /\ Goto(p, l)
    BY <1>9 DEF PlanSeeds
  <2> HIDE DEF todo
  <2>4. r \in Runs /\ r.version \in Versions /\ r.seeds = todo
    BY <2>1, <2>2 DEF Runs
  <2>5. l \in Labels /\ (l \in Executing => todo # <<>>)
    BY DEF Labels, Executing
  <2> HIDE DEF r, l
  <2>6. QED
    BY <1>4, <2>3, <2>4, <2>5
<1>10. CASE BeginSeed(p) \/ UpsertRows(p) \/ CommitSeed(p)
  <2>1. PICK l \in Labels : Goto(p, l)
    BY <1>10 DEF BeginSeed, UpsertRows, CommitSeed, Labels
  <2>2. pc[p] \in Executing /\ UNCHANGED run
    BY <1>10 DEF BeginSeed, UpsertRows, CommitSeed, Executing
  <2>3. pc[p] # "idle" /\ run[p].seeds # <<>>
    BY <1>0, <2>2, RunFields DEF Executing
  <2>4. QED
    BY <1>3, <2>1, <2>2, <2>3
<1>11. CASE Retry(p)
  <2>1. run[p] \in Runs /\ run[p].seeds # <<>> /\ run[p].version \in Versions
        /\ run[p].retries \in 0..MAX_RETRIES /\ pc[p] # "idle"
    BY <1>0, <1>11, RunFields DEF Retry, Executing
  <2>2. CASE run[p].retries < MAX_RETRIES
    <3> DEFINE n == run[p].retries + 1
               r == [run[p] EXCEPT !.retries = n]
    <3>1. n \in 0..MAX_RETRIES
      BY <2>1, <2>2 DEF MAX_RETRIES
    <3>2. run' = [run EXCEPT ![p] = r] /\ Goto(p, "beginning")
      BY <1>11, <2>2 DEF Retry
    <3> HIDE DEF n
    <3>3. r \in Runs /\ r.version \in Versions /\ r.seeds # <<>>
      BY <2>1, <3>1 DEF Runs
    <3> HIDE DEF r
    <3>4. QED
      BY <1>4, <3>2, <3>3 DEF Labels
  <2>3. CASE ~(run[p].retries < MAX_RETRIES)
    BY <1>3, <1>11, <2>1, <2>3 DEF Retry, Labels, Executing
  <2>4. QED
    BY <2>2, <2>3
<1>12. CASE LogSeed(p)
  <2> DEFINE rest == Tail(run[p].seeds)
             r == [[run[p] EXCEPT !.seeds = rest] EXCEPT !.retries = 0]
             l == IF Len(run[p].seeds) > 1 THEN "beginning" ELSE "releasing"
  <2>1. run[p] \in Runs /\ run[p].seeds # <<>> /\ run[p].version \in Versions
        /\ run[p].seeds \in SeedLists
    BY <1>0, <1>12, RunFields DEF LogSeed, Executing
  <2>2. rest \in SeedLists /\ (Len(run[p].seeds) > 1 => rest # <<>>)
    BY <2>1, SeedListFacts
  <2>3. run' = [run EXCEPT ![p] = r] /\ Goto(p, l)
    BY <1>0, <1>12 DEF LogSeed, ProcTypes
  <2>4. l \in Labels /\ (l \in Executing => rest # <<>>)
    BY <2>2 DEF Labels, Executing
  <2> DEFINE a == [run[p] EXCEPT !.seeds = rest]
  <2> HIDE DEF rest, l
  <2>5. a \in Runs /\ a.version \in Versions /\ a.seeds = rest
    BY <2>1, <2>2, RunUpdates
  <2> HIDE DEF a
  <2>6. 0 \in 0..MAX_RETRIES
    BY DEF MAX_RETRIES
  <2>7. [a EXCEPT !.retries = 0] \in Runs /\ [a EXCEPT !.retries = 0].version \in Versions
        /\ [a EXCEPT !.retries = 0].seeds = rest
    BY <2>5, <2>6, RunUpdates
  <2>8. r \in Runs /\ r.version \in Versions /\ r.seeds = rest
    BY <2>7 DEF a
  <2> HIDE DEF r
  <2>9. QED
    BY <1>4, <2>3, <2>4, <2>8
<1>13. CASE LockContention(p) \/ Release(p) \/ Crash(p)
  BY <1>2, <1>13 DEF LockContention, Release, Crash
<1>14. CASE SessionDrops(p)
  BY <1>1, <1>14 DEF SessionDrops
<1>15. QED
  BY <1>5, <1>6, <1>7, <1>8, <1>9, <1>10, <1>11, <1>12, <1>13, <1>14
     DEF Step, Invoke, Proceed

\* The part of TypeOK about the database, the lock and the bounds.
DataTypes ==
    /\ synced \in BOOLEAN /\ migrated \subseteq Migrations
    /\ rows \in [Tables -> Versions \cup {NoVersion}]
    /\ integrity \in [Seeds -> Versions \cup {NoVersion}]
    /\ meta \in [Seeds -> Versions \cup {NoVersion}]
    /\ lock \in Procs \cup {NoProc}
    /\ stale \subseteq Procs /\ lockLost \subseteq Procs
    /\ runs \in 0..MaxRuns /\ faults \in 0..MaxFaults

\* The commit of a seed, whether the process hears of it or not.
Committed(p) ==
    /\ pc[p] = "writing"
    /\ rows' = Upserted(Seed(p), run[p].version)
    /\ integrity' = [integrity EXCEPT ![Seed(p)] = run[p].version]
    /\ stale' = stale \cup {q \in Procs : pc[q] = "waiting" /\ Seed(q) = Seed(p)}

\* Every step commits a seed or leaves the rows and hashes alone.
LEMMA CommitOrNot ==
  ASSUME NEW p \in Procs, Step(p)
  PROVE  \/ Committed(p) /\ UNCHANGED <<schema, meta>> /\ CommitSeed(p)
         \/ Committed(p) /\ UNCHANGED <<schema, meta>> /\ CommitFails(p)
         \/ UNCHANGED <<rows, integrity>>
<1>1. ASSUME CommitSeed(p)
      PROVE  Committed(p) /\ UNCHANGED <<schema, meta>>
  BY <1>1 DEF CommitSeed, Committed
<1>2. ASSUME CommitFails(p)
      PROVE  \/ Committed(p) /\ UNCHANGED <<schema, meta>>
             \/ UNCHANGED <<rows, integrity>>
  BY <1>2 DEF CommitFails, Committed
<1>3. ASSUME Invoke(p) \/ StatementFails(p) \/ Crash(p) \/ SessionDrops(p)
      PROVE  UNCHANGED <<rows, integrity>>
  BY <1>3 DEF Invoke, Start, StatementFails, Crash, SessionDrops, seeded
<1>4. ASSUME Proceed(p), ~CommitSeed(p)
      PROVE  UNCHANGED <<rows, integrity>>
  BY <1>4 DEF Proceed, TryAcquire, LockContention, Sync, RunMigration, PlanSeeds, BeginSeed,
              UpsertRows, Retry, LogSeed, Release, seeded
<1>5. QED
  BY <1>1, <1>2, <1>3, <1>4 DEF Step

\* A step of a process keeps the types of what the database holds.
LEMMA DataTypeStep ==
  ASSUME Inv, NEW p \in Procs, Step(p)
  PROVE  DataTypes'
<1>0. TypeOK /\ DataTypes
  BY DEF Inv, TypeOK, DataTypes
<1>1. pc[p] \in {"writing", "logging"} => run[p].version \in Versions /\ Seed(p) \in Seeds
  BY <1>0, RunFields DEF Executing
<1>2. /\ rows' \in [Tables -> Versions \cup {NoVersion}]
      /\ integrity' \in [Seeds -> Versions \cup {NoVersion}]
  <2>1. CASE Committed(p)
    BY <1>0, <1>1, <2>1 DEF Committed, Upserted, DataTypes
  <2>2. CASE UNCHANGED <<rows, integrity>>
    BY <1>0, <2>2 DEF DataTypes
  <2>3. QED
    BY <2>1, <2>2, CommitOrNot
<1>3. meta' \in [Seeds -> Versions \cup {NoVersion}]
  <2>1. CASE LogSeed(p)
    BY <1>0, <1>1, <2>1 DEF LogSeed, DataTypes
  <2>2. ASSUME ~LogSeed(p)
        PROVE  UNCHANGED meta
    BY <2>2 DEF Step, Invoke, Start, StatementFails, Crash, SessionDrops, CommitFails, Proceed,
                TryAcquire, LockContention, Sync, RunMigration, PlanSeeds, BeginSeed, UpsertRows,
                Retry, CommitSeed, Release, seeded
  <2>3. QED
    BY <1>0, <2>1, <2>2 DEF DataTypes
<1>4. synced' \in BOOLEAN /\ migrated' \subseteq Migrations
  <2>1. CASE RunMigration(p)
    <3>1. run[p].migrations \in MigrationLists /\ run[p].migrations # <<>>
      BY <1>0, <2>1, RunFields DEF RunMigration, Inv, ProcInv
    <3>2. Head(run[p].migrations) \in Migrations
      BY <3>1, MigrationListFacts
    <3>3. QED
      BY <1>0, <2>1, <3>2 DEF RunMigration, DataTypes
  <2>2. CASE Sync(p)
    <3>1. run[p].command.sync \in BOOLEAN
      BY <1>0, RunFields, CommandFlags
    <3>2. QED
      BY <1>0, <2>2, <3>1 DEF Sync, DataTypes
  <2>3. ASSUME ~RunMigration(p), ~Sync(p)
        PROVE  UNCHANGED schema
    BY <2>3 DEF Step, Invoke, Start, StatementFails, Crash, SessionDrops, CommitFails, Proceed,
                TryAcquire, LockContention, PlanSeeds, BeginSeed, UpsertRows, Retry, CommitSeed,
                LogSeed, Release
  <2>4. QED
    BY <1>0, <2>1, <2>2, <2>3 DEF DataTypes, schema
<1>5. lock' \in Procs \cup {NoProc} /\ stale' \subseteq Procs /\ lockLost' \subseteq Procs
  <2>1. CASE Exit(p)
    BY <1>0, <2>1, ExitType
  <2>2. ASSUME ~Exit(p)
        PROVE  lock' \in Procs \cup {NoProc} /\ stale' \subseteq Procs /\ lockLost' \subseteq Procs
    BY <1>0, <2>2
       DEF DataTypes, Step, Invoke, Start, StatementFails, Crash, SessionDrops, CommitFails, Proceed,
           TryAcquire, LockContention, Sync, RunMigration, PlanSeeds, BeginSeed, UpsertRows, Retry,
           CommitSeed, LogSeed, Release
  <2>3. QED
    BY <2>1, <2>2
<1>6. runs' \in 0..MaxRuns /\ faults' \in 0..MaxFaults
  <2>1. ASSUME Invoke(p)
        PROVE  runs' \in 0..MaxRuns /\ faults' \in 0..MaxFaults
    BY <1>0, <2>1, SeedAssumption DEF Invoke, Start, DataTypes
  <2>2. ASSUME CommitFails(p) \/ StatementFails(p) \/ Crash(p) \/ SessionDrops(p)
        PROVE  runs' \in 0..MaxRuns /\ faults' \in 0..MaxFaults
    BY <1>0, <2>2, SeedAssumption DEF StatementFails, Crash, SessionDrops, CommitFails, DataTypes
  <2>3. ASSUME Proceed(p)
        PROVE  UNCHANGED <<runs, faults>>
    BY <2>3 DEF Proceed, TryAcquire, LockContention, Sync, RunMigration, PlanSeeds, BeginSeed,
                UpsertRows, Retry, CommitSeed, LogSeed, Release
  <2>4. QED
    BY <1>0, <2>1, <2>2, <2>3 DEF Step, DataTypes
<1>7. QED
  BY <1>2, <1>3, <1>4, <1>5, <1>6 DEF DataTypes

\* A step of a process keeps the type invariant.
LEMMA TypeStep ==
  ASSUME Inv, NEW p \in Procs, Step(p)
  PROVE  TypeOK'
  BY ProcTypeStep, DataTypeStep DEF ProcTypes, DataTypes, TypeOK

-----------------------------------------------------------------------------
(* Processes.                                                              *)

\* What a step of p leaves to the others: their place, their lock, and whatever the database
\* has gained.
Frame(p) ==
    /\ \A q \in Procs \ {p} : /\ pc'[q] = pc[q] /\ run'[q] = run[q]
                              /\ lock = q => lock' = q
                              /\ q \in lockLost => q \in lockLost'
    /\ synced => synced'
    /\ migrated \subseteq migrated'
    /\ \A s \in Seeds : integrity[s] # NoVersion => integrity'[s] # NoVersion

\* A step of process p is no more than Frame(p) allows: others keep their place, and what is in
\* the database is not undone.
LEMMA FrameStep ==
  ASSUME Inv, NEW p \in Procs, Step(p)
  PROVE  Frame(p)
<1>0. TypeOK /\ DataTypes
  BY DEF Inv, TypeOK, DataTypes
<1>1. \A q \in Procs \ {p} : /\ pc'[q] = pc[q] /\ run'[q] = run[q]
                             /\ lock = q => lock' = q
                             /\ q \in lockLost => q \in lockLost'
  <2>1. CASE Exit(p)
    BY <1>0, <2>1, ExitType DEF Exit
  <2>2. ASSUME ~Exit(p), NEW q \in Procs \ {p}
        PROVE  pc'[q] = pc[q] /\ run'[q] = run[q]
    BY <1>0, <2>2
       DEF TypeOK, Step, Invoke, Start, StatementFails, Crash, SessionDrops, CommitFails, Proceed,
           TryAcquire, LockContention, Sync, RunMigration, PlanSeeds, BeginSeed, UpsertRows, Retry,
           CommitSeed, LogSeed, Release, Goto
  <2>3. ASSUME ~Exit(p), NEW q \in Procs \ {p}
        PROVE  (lock = q => lock' = q) /\ (q \in lockLost => q \in lockLost')
    BY <1>0, <2>3, SeedAssumption
       DEF TypeOK, Step, Invoke, Start, StatementFails, Crash, SessionDrops, CommitFails, Proceed,
           TryAcquire, LockContention, Sync, RunMigration, PlanSeeds, BeginSeed, UpsertRows, Retry,
           CommitSeed, LogSeed, Release
  <2>4. QED
    BY <2>1, <2>2, <2>3
<1>2. (synced => synced') /\ migrated \subseteq migrated'
  <2>1. CASE Sync(p)
    BY <2>1 DEF Sync
  <2>2. CASE RunMigration(p)
    BY <2>2 DEF RunMigration
  <2>3. ASSUME ~Sync(p), ~RunMigration(p)
        PROVE  UNCHANGED <<synced, migrated>>
    BY <2>3 DEF Step, Invoke, Start, StatementFails, Crash, SessionDrops, CommitFails, Proceed,
                TryAcquire, LockContention, PlanSeeds, BeginSeed, UpsertRows, Retry, CommitSeed,
                LogSeed, Release, schema
  <2>4. QED
    BY <2>1, <2>2, <2>3
<1>3. ASSUME NEW s \in Seeds, integrity[s] # NoVersion
      PROVE  integrity'[s] # NoVersion
  <2>1. CASE Committed(p)
    <3>1. run[p].version \in Versions
      BY <1>0, <2>1, RunFields DEF Committed
    <3>2. QED
      BY <1>0, <1>3, <2>1, <3>1, SeedAssumption DEF Committed, DataTypes
  <2>2. CASE UNCHANGED <<rows, integrity>>
    BY <1>3, <2>2
  <2>3. QED
    BY <2>1, <2>2, CommitOrNot
<1>4. QED
  BY <1>1, <1>2, <1>3 DEF Frame

\* What holds of the process that moves.
LEMMA OwnStep ==
  ASSUME Inv, NEW p \in Procs, Step(p), TypeOK'
  PROVE  ProcInv(p)'
<1>0. TypeOK /\ ProcInv(p) /\ Frame(p)
  BY FrameStep DEF Inv
<1>1. CASE Exit(p)
  <2>1. pc'[p] = "idle"
    BY <1>0, <1>1, ExitType
  <2>2. QED
    BY <2>1 DEF ProcInv, Executing
<1>2. ASSUME NEW i \in Invocations, Start(p, i)
      PROVE  ProcInv(p)'
  <2> DEFINE r == [command |-> i.command, version |-> i.version, replay |-> i.replay,
                   migrations |-> NAMED_MIGRATIONS, seeds |-> i.seeds, retries |-> 0]
  <2>1. r.command = i.command /\ r.migrations = NAMED_MIGRATIONS
    OBVIOUS
  <2>2. run' = [run EXCEPT ![p] = r]
    BY <1>2 DEF Start
  <2> HIDE DEF r
  <2>3. run'[p].command = i.command /\ run'[p].migrations = NAMED_MIGRATIONS
    BY <1>0, <2>1, <2>2 DEF TypeOK
  <2>4. pc'[p] = IF i.command.lock THEN "acquiring" ELSE "syncing"
    BY <1>0, <1>2 DEF Start, Goto, TypeOK
  <2>5. QED
    BY <2>3, <2>4 DEF ProcInv, Executing
<1>3. CASE TryAcquire(p)
  <2>1. pc'[p] = "syncing" /\ UNCHANGED run /\ lock' = p /\ pc[p] = "acquiring"
    BY <1>0, <1>3 DEF TryAcquire, Goto, TypeOK
  <2>2. QED
    BY <1>0, <2>1 DEF ProcInv, Executing
<1>4. CASE Sync(p)
  <2>1. CASE Goto(p, "migrating") /\ UNCHANGED <<run, lock, stale, lockLost>>
    <3>1. pc'[p] = "migrating" /\ pc[p] = "syncing"
      BY <1>0, <1>4, <2>1 DEF Sync, Goto, TypeOK
    <3>2. run[p].command.sync \in BOOLEAN /\ synced \in BOOLEAN
      BY <1>0, RunFields, CommandFlags DEF TypeOK
    <3>3. synced' \/ Exit(p)
      BY <1>4, <3>2 DEF Sync
    <3>4. Migrations \subseteq migrated' \cup Elements(run'[p].migrations)
      BY <1>0, <2>1, <3>1, MigrationListFacts DEF ProcInv
    <3>5. run'[p].migrations # <<>>
      BY <1>0, <2>1, <3>1, MigrationListFacts DEF ProcInv
    <3>6. CASE synced'
      BY <1>0, <2>1, <3>1, <3>4, <3>5, <3>6 DEF ProcInv, Executing
    <3>7. QED
      BY <1>1, <3>3, <3>6
  <2>2. QED
    BY <1>1, <1>4, <2>1 DEF Sync
<1>5. CASE RunMigration(p)
  <2> DEFINE m == run[p].migrations
             l == IF Len(m) > 1 THEN "migrating"
                  ELSE IF ~run[p].command.seeds THEN "releasing" ELSE "planning"
             r == [run[p] EXCEPT !.migrations = Tail(m)]
  <2>1. /\ run[p] \in Runs /\ m \in MigrationLists /\ m # <<>> /\ synced
        /\ Migrations \subseteq migrated \cup Elements(m)
    BY <1>0, <1>5, RunFields DEF RunMigration, ProcInv
  <2>2. /\ Head(m) \in Migrations /\ Tail(m) \in MigrationLists
        /\ Elements(m) \subseteq {Head(m)} \cup Elements(Tail(m))
        /\ Len(m) > 1 => Tail(m) # <<>>
        /\ ~(Len(m) > 1) => Elements(Tail(m)) = {}
    BY <2>1, MigrationListFacts
  <2>3. /\ migrated' = migrated \cup {Head(m)} /\ run' = [run EXCEPT ![p] = r]
        /\ Goto(p, l) /\ UNCHANGED <<synced, lock, lockLost>>
    BY <1>5 DEF RunMigration
  <2>4. r.migrations = Tail(m) /\ r.command = run[p].command
    BY <2>1 DEF Runs
  <2>5. run'[p].migrations = Tail(m) /\ run'[p].command = run[p].command /\ pc'[p] = l
    <3> HIDE DEF r, l
    <3>1. QED
      BY <1>0, <2>3, <2>4 DEF Goto, TypeOK
  <2>6. Migrations \subseteq migrated' \cup Elements(Tail(m))
    BY <2>1, <2>2, <2>3
  <2>7. ~(Len(m) > 1) => migrated' = Migrations
    BY <1>0, <2>2, <2>3, <2>6 DEF TypeOK
  <2>8. run'[p].command.lock => lock' = p \/ p \in lockLost'
    BY <1>0, <1>5, <2>3, <2>5 DEF ProcInv, RunMigration
  <2> HIDE DEF m, r
  <2>9. QED
    BY <2>1, <2>2, <2>3, <2>5, <2>6, <2>7, <2>8 DEF ProcInv, Executing
<1>6. ASSUME NEW l \in {"beginning", "waiting", "writing", "releasing"}, Goto(p, l),
             run'[p].command = run[p].command, UNCHANGED <<lock, lockLost>>,
             pc[p] \in Executing \cup {"planning"} \/ l = "releasing",
             pc[p] \notin {"idle", "acquiring"}
      PROVE  ProcInv(p)'
  <2>1. pc'[p] = l
    BY <1>0, <1>6 DEF Goto, TypeOK
  <2>2. run'[p].command.lock => lock' = p \/ p \in lockLost'
    BY <1>0, <1>6 DEF ProcInv
  <2>3. pc[p] \in Executing \cup {"planning"} => synced' /\ migrated' = Migrations
    <3>1. migrated' \subseteq Migrations
      BY DEF TypeOK
    <3>2. QED
      BY <1>0, <3>1 DEF ProcInv, Frame
  <2>4. QED
    BY <1>6, <2>1, <2>2, <2>3 DEF ProcInv, Executing
<1>7. CASE PlanSeeds(p)
  <2> DEFINE todo == IF run[p].replay THEN run[p].seeds ELSE PendingSeeds(run[p].seeds)
             r == [run[p] EXCEPT !.seeds = todo]
             l == IF todo = <<>> THEN "releasing" ELSE "beginning"
  <2>1. run' = [run EXCEPT ![p] = r] /\ Goto(p, l) /\ UNCHANGED <<lock, lockLost>>
        /\ pc[p] = "planning"
    BY <1>7 DEF PlanSeeds
  <2>2. r.command = run[p].command
    BY <1>0, RunFields DEF Runs
  <2>3. l \in {"beginning", "waiting", "writing", "releasing"}
    OBVIOUS
  <2> HIDE DEF r, l
  <2>4. run'[p].command = run[p].command
    BY <1>0, <2>1, <2>2 DEF TypeOK
  <2>5. QED
    BY <1>6, <2>1, <2>3, <2>4
<1>8. CASE BeginSeed(p) \/ UpsertRows(p) \/ CommitFails(p) \/ StatementFails(p)
  <2>1. PICK l \in {"beginning", "waiting", "writing", "releasing"} :
          /\ Goto(p, l)
          /\ pc[p] \in Executing \cup {"planning"} \/ l = "releasing"
    BY <1>8 DEF BeginSeed, UpsertRows, CommitFails, StatementFails, Executing
  <2>2. UNCHANGED <<run, lock, lockLost>> /\ pc[p] \notin {"idle", "acquiring"}
    BY <1>8 DEF BeginSeed, UpsertRows, CommitFails, StatementFails
  <2>3. QED
    BY <1>6, <2>1, <2>2
<1>9. CASE Retry(p)
  <2>1. PICK l \in {"beginning", "releasing"} : Goto(p, l)
    BY <1>9 DEF Retry
  <2>2. UNCHANGED <<lock, lockLost>> /\ pc[p] = "waiting"
    BY <1>9 DEF Retry
  <2>3. run'[p].command = run[p].command
    <3>1. CASE UNCHANGED run
      BY <3>1
    <3>2. CASE run' = [run EXCEPT ![p].retries = @ + 1]
      <4> DEFINE n == run[p].retries + 1
                 r == [run[p] EXCEPT !.retries = n]
      <4>1. run' = [run EXCEPT ![p] = r]
        BY <3>2
      <4> HIDE DEF n
      <4>2. r.command = run[p].command
        BY <1>0, RunFields DEF Runs
      <4> HIDE DEF r
      <4>3. QED
        BY <1>0, <4>1, <4>2 DEF TypeOK
    <3>3. QED
      BY <1>9, <3>1, <3>2 DEF Retry
  <2>4. QED
    BY <1>6, <2>1, <2>2, <2>3 DEF Executing
<1>10. CASE CommitSeed(p)
  <2>1. /\ pc[p] = "writing" /\ pc'[p] = "logging" /\ UNCHANGED <<schema, run, lock, lockLost>>
        /\ integrity' = [integrity EXCEPT ![Seed(p)] = run[p].version]
    BY <1>0, <1>10 DEF CommitSeed, Goto, TypeOK
  <2>2. Seed(p) \in Seeds /\ run[p].version \in Versions
    BY <1>0, <2>1, RunFields DEF Executing
  <2>3. integrity'[Seed(p)'] # NoVersion
    BY <1>0, <2>1, <2>2, SeedAssumption DEF TypeOK, Seed
  <2>4. QED
    BY <1>0, <2>1, <2>3 DEF ProcInv, Executing, schema, Seed
<1>11. CASE LogSeed(p)
  <2> DEFINE rest == Tail(run[p].seeds)
             r == [[run[p] EXCEPT !.seeds = rest] EXCEPT !.retries = 0]
             l == IF Len(run[p].seeds) > 1 THEN "beginning" ELSE "releasing"
  <2>1. run' = [run EXCEPT ![p] = r] /\ Goto(p, l) /\ UNCHANGED <<lock, lockLost>>
        /\ pc[p] = "logging"
    BY <1>0, <1>11 DEF LogSeed, TypeOK
  <2> HIDE DEF rest
  <2>2. r.command = run[p].command
    BY <1>0, RunFields DEF Runs
  <2>3. l \in {"beginning", "waiting", "writing", "releasing"}
    OBVIOUS
  <2> HIDE DEF r, l
  <2>4. run'[p].command = run[p].command
    BY <1>0, <2>1, <2>2 DEF TypeOK
  <2>5. QED
    BY <1>6, <2>1, <2>3, <2>4 DEF Executing
<1>12. CASE SessionDrops(p)
  BY <1>0, <1>12 DEF SessionDrops, schema, seeded, ProcInv, Executing, Seed
<1>13. QED
  BY <1>1, <1>2, <1>3, <1>4, <1>5, <1>7, <1>8, <1>9, <1>10, <1>11, <1>12
     DEF Step, Invoke, Proceed, LockContention, Release, Crash

\* What holds of the others.
LEMMA OtherStep ==
  ASSUME Inv, NEW p \in Procs, Step(p), TypeOK', NEW q \in Procs \ {p}
  PROVE  ProcInv(q)'
<1>1. Frame(p) /\ ProcInv(q) /\ TypeOK
  BY FrameStep DEF Inv
<1>2. pc'[q] = pc[q] /\ run'[q] = run[q] /\ migrated' \subseteq Migrations
  BY <1>1 DEF Frame, TypeOK
<1>3. pc[q] \in Executing => Seed(q) \in Seeds
  BY <1>1, RunFields
<1>4. pc'[q] = "logging" => integrity'[Seed(q)'] # NoVersion
  BY <1>1, <1>2, <1>3 DEF ProcInv, Frame, Seed, Executing
<1>5. QED
  BY <1>1, <1>2, <1>4 DEF ProcInv, Frame, Executing

\* No step makes a second writer of the rows of a seed.
LEMMA WriterStep ==
  ASSUME Inv, NEW p \in Procs, Step(p), TypeOK'
  PROVE  OneWriterPerSeed'
<1>0. TypeOK /\ OneWriterPerSeed /\ Frame(p)
  BY FrameStep DEF Inv
<1>1. \A q \in Procs \ {p} : pc'[q] = pc[q] /\ Seed(q)' = Seed(q)
  BY <1>0 DEF Frame, Seed
<1>2. CASE UpsertRows(p)
  <2>1. \A q \in Procs : pc[q] = "writing" => Seed(q) # Seed(p)
    BY <1>2 DEF UpsertRows
  <2>2. Seed(p)' = Seed(p)
    BY <1>2 DEF UpsertRows, Seed
  <2>3. QED
    BY <1>0, <1>1, <2>1, <2>2 DEF OneWriterPerSeed
<1>3. ASSUME ~UpsertRows(p), ~SessionDrops(p)
      PROVE  pc'[p] # "writing"
  <2>1. CASE Exit(p)
    BY <1>0, <2>1, ExitType
  <2>2. ASSUME ~Exit(p)
        PROVE  pc'[p] # "writing"
    <3>1. PICK l \in Labels \ {"writing"} : Goto(p, l)
      BY <1>3, <2>2
         DEF Step, Invoke, Start, StatementFails, Crash, CommitFails, Proceed, TryAcquire,
             LockContention, Sync, RunMigration, PlanSeeds, BeginSeed, Retry, CommitSeed, LogSeed,
             Release, Labels
    <3>2. QED
      BY <1>0, <3>1, GotoType
  <2>3. QED
    BY <2>1, <2>2
<1>4. CASE SessionDrops(p)
  BY <1>0, <1>4 DEF SessionDrops, OneWriterPerSeed, Seed
<1>5. ASSUME pc'[p] # "writing"
      PROVE  OneWriterPerSeed'
  BY <1>0, <1>1, <1>5 DEF OneWriterPerSeed
<1>6. QED
  BY <1>2, <1>3, <1>4, <1>5

-----------------------------------------------------------------------------
(* The database.                                                           *)

\* No table belongs to two seeds.
LEMMA SeedTables ==
  /\ \A s \in Seeds : TablesOf(s) \subseteq Tables
  /\ \A s, u \in Seeds : s # u => TablesOf(s) \cap TablesOf(u) = {}
<1>1. ReferenceTables \cap FixtureTables = {}
  BY DEF ReferenceTables, FixtureTables
<1>2. QED
  BY <1>1 DEF Seeds, TablesOf, Tables

\* What a commit does to the tables of a seed: those of its own seed have rows, the mutable
\* ones of its build; those of another keep theirs.
LEMMA CommittedRows ==
  ASSUME Inv, NEW p \in Procs, Committed(p)
  PROVE  /\ Seed(p) \in Seeds /\ run[p].version \in Versions
         /\ integrity'[Seed(p)] = run[p].version
         /\ \A t \in TablesOf(Seed(p)) : /\ rows'[t] # NoVersion
                                         /\ t \in MutableTables => rows'[t] = run[p].version
                                         /\ t \notin MutableTables /\ rows[t] # NoVersion
                                                => rows'[t] = rows[t]
         /\ \A s \in Seeds \ {Seed(p)} : /\ integrity'[s] = integrity[s]
                                         /\ \A t \in TablesOf(s) : rows'[t] = rows[t]
<1>0. TypeOK
  BY DEF Inv
<1>1. Seed(p) \in Seeds /\ run[p].version \in Versions
  BY <1>0, RunFields DEF Committed, Executing
<1>2. \A t \in Tables : rows'[t] = IF /\ t \in TablesOf(Seed(p))
                                      /\ t \in MutableTables \/ rows[t] = NoVersion
                                   THEN run[p].version ELSE rows[t]
  BY DEF Committed, Upserted
<1>3. /\ integrity'[Seed(p)] = run[p].version
      /\ \A s \in Seeds \ {Seed(p)} : integrity'[s] = integrity[s]
  BY <1>0, <1>1 DEF Committed, TypeOK
<1>4. run[p].version # NoVersion
  BY <1>1, SeedAssumption
<1>5. \A t \in TablesOf(Seed(p)) : /\ rows'[t] # NoVersion
                                   /\ t \in MutableTables => rows'[t] = run[p].version
                                   /\ t \notin MutableTables /\ rows[t] # NoVersion
                                          => rows'[t] = rows[t]
  BY <1>1, <1>2, <1>4, SeedTables
<1>6. \A s \in Seeds \ {Seed(p)} : \A t \in TablesOf(s) : rows'[t] = rows[t]
  BY <1>1, <1>2, SeedTables
<1>7. QED
  BY <1>1, <1>3, <1>5, <1>6

\* No step breaks what the hashes, the ledger and the rows of the database say of each other.
LEMMA DataStep ==
  ASSUME Inv, NEW p \in Procs, Step(p), TypeOK'
  PROVE  HashInv' /\ LedgerInv' /\ SeededDatabaseIsMigrated'
<1>0. TypeOK /\ HashInv /\ LedgerInv /\ SeededDatabaseIsMigrated /\ ProcInv(p) /\ Frame(p)
  BY FrameStep DEF Inv
<1>1. HashInv'
  <2>1. CASE UNCHANGED <<rows, integrity>>
    BY <1>0, <2>1 DEF HashInv
  <2>2. ASSUME Committed(p), NEW s \in Seeds, integrity'[s] # NoVersion, NEW t \in TablesOf(s)
        PROVE  rows'[t] # NoVersion /\ (t \in MutableTables => rows'[t] = integrity'[s])
    <3>1. CASE s = Seed(p)
      BY <2>2, <3>1, CommittedRows
    <3>2. CASE s # Seed(p)
      BY <1>0, <2>2, <3>2, CommittedRows DEF HashInv
    <3>3. QED
      BY <3>1, <3>2
  <2>3. Committed(p) => HashInv'
    BY <2>2 DEF HashInv
  <2>4. QED
    BY <2>1, <2>3, CommitOrNot
<1>2. LedgerInv'
  <2>1. CASE LogSeed(p)
    <3>1. pc[p] = "logging" /\ UNCHANGED integrity
          /\ meta' = [meta EXCEPT ![Seed(p)] = run[p].version]
      BY <2>1 DEF LogSeed
    <3>2. integrity[Seed(p)] # NoVersion /\ Seed(p) \in Seeds
      BY <1>0, <3>1, RunFields DEF ProcInv, Executing
    <3>3. QED
      BY <1>0, <3>1, <3>2 DEF LedgerInv, TypeOK
  <2>2. ASSUME ~LogSeed(p)
        PROVE  UNCHANGED meta
    BY <2>2 DEF Step, Invoke, Start, StatementFails, Crash, SessionDrops, CommitFails, Proceed,
                TryAcquire, LockContention, Sync, RunMigration, PlanSeeds, BeginSeed, UpsertRows,
                Retry, CommitSeed, Release, seeded
  <2>3. QED
    BY <1>0, <2>1, <2>2 DEF LedgerInv, Frame
<1>3. SeededDatabaseIsMigrated'
  <2>0. migrated' \subseteq Migrations /\ synced' \in BOOLEAN
    BY DEF TypeOK
  <2>1. CASE Committed(p)
    <3>1. synced /\ migrated = Migrations
      BY <1>0, <2>1 DEF Committed, ProcInv, Executing
    <3>2. QED
      BY <1>0, <2>0, <3>1 DEF Frame, SeededDatabaseIsMigrated
  <2>2. CASE UNCHANGED <<rows, integrity>>
    BY <1>0, <2>0, <2>2 DEF Frame, SeededDatabaseIsMigrated
  <2>3. QED
    BY <2>1, <2>2, CommitOrNot
<1>4. QED
  BY <1>1, <1>2, <1>3

\* A verified seed is executed again without any change.
LEMMA SameRows ==
  ASSUME Inv, [Next]_vars, NEW s \in Seeds, NEW v \in Versions,
         VerifyStatus(s, v) = "OK", integrity'[s] = v
  PROVE  \A t \in TablesOf(s) : rows'[t] = rows[t]
<1>1. integrity[s] = v /\ integrity[s] # NoVersion
  BY DEF VerifyStatus
<1>2. \A t \in TablesOf(s) : rows[t] # NoVersion /\ (t \in MutableTables => rows[t] = v)
  BY <1>1 DEF Inv, HashInv
<1>3. ASSUME NEW p \in Procs, Committed(p)
      PROVE  \A t \in TablesOf(s) : rows'[t] = rows[t]
  <2>1. CASE s = Seed(p)
    BY <1>2, <1>3, <2>1, CommittedRows
  <2>2. CASE s # Seed(p)
    BY <1>3, <2>2, CommittedRows
  <2>3. QED
    BY <2>1, <2>2
<1>4. CASE UNCHANGED rows
  BY <1>4
<1>5. ASSUME NEW p \in Procs, Step(p)
      PROVE  Committed(p) \/ UNCHANGED rows
  BY <1>5, CommitOrNot
<1>6. QED
  BY <1>3, <1>4, <1>5 DEF Next, Step, vars

-----------------------------------------------------------------------------
(* The seed data.                                                          *)

\* The seed rows of drivers and their locations fit together.
LEMMA DriversDo == DriversFit
<1>1. DOMAIN SEED_DRIVERS = {"andres", "sofia", "jorge", "diana"}
  BY DEF SEED_DRIVERS
<1>2. QED
  BY <1>1 DEF DriversFit, SEED_DRIVERS, SEED_DRIVER_LOCATIONS, Never

\* The seeded rides are served by seeded drivers who are in a state to serve them.
LEMMA ServiceDo == DriversServeRides
<1>1. DOMAIN SEED_DRIVERS = {"andres", "sofia", "jorge", "diana"}
  BY DEF SEED_DRIVERS
<1>2. DOMAIN SEED_RIDES = {"completed", "started", "dispatching", "canceled", "expired"}
  BY DEF SEED_RIDES
<1>3. {d \in DOMAIN SEED_DRIVERS : SEED_DRIVERS[d].state = "BUSY"} = {"sofia"}
  BY <1>1 DEF SEED_DRIVERS
<1>4. {s \in DOMAIN SEED_RIDES : SEED_RIDES[s].state \in {"ASSIGNED", "STARTED"}} = {"started"}
  BY <1>2 DEF SEED_RIDES, Ride
<1>5. SEED_RIDES["started"].driver = "sofia"
  BY DEF SEED_RIDES, Ride
<1>6. QED
  BY <1>3, <1>4, <1>5 DEF DriversServeRides

\* The seeded audit trails lead to the states of the seeded rides.
LEMMA TrailDo == TrailFits
<1> DEFINE q == SEED_RIDE_TRANSITIONS
           ride == SEED_RIDES.completed
<1>1. /\ ride.state = "COMPLETED" /\ ride.started = 10 /\ ride.completed = 40
  BY DEF SEED_RIDES, Ride
<1>2. Len(q) = 4 /\ DOMAIN q = 1..4
  BY DEF SEED_RIDE_TRANSITIONS
<1>3. /\ q[1].from = "CREATED" /\ q[1].to = "DISPATCHING" /\ q[1].at = 0
      /\ q[2].from = "DISPATCHING" /\ q[2].to = "ASSIGNED" /\ q[2].at = 3
      /\ q[3].from = "ASSIGNED" /\ q[3].to = "STARTED" /\ q[3].at = 10
      /\ q[4].from = "STARTED" /\ q[4].to = "COMPLETED" /\ q[4].at = 40
  BY DEF SEED_RIDE_TRANSITIONS
<1>4. /\ CanTransition("CREATED", "DISPATCHING") /\ CanTransition("DISPATCHING", "ASSIGNED")
      /\ CanTransition("ASSIGNED", "STARTED") /\ CanTransition("STARTED", "COMPLETED")
  BY DEF CanTransition, RideTransitions, RideStates
<1> HIDE DEF q, ride
<1>5. ASSUME NEW i \in 1..4
      PROVE  /\ CanTransition(q[i].from, q[i].to)
             /\ i > 1 => q[i].from = q[i-1].to /\ q[i].at >= q[i-1].at
             /\ q[i].to = "STARTED" => q[i].at = ride.started
  <2>1. i = 1 \/ i = 2 \/ i = 3 \/ i = 4
    OBVIOUS
  <2>2. QED
    BY <1>1, <1>3, <1>4, <2>1
<1>6. /\ q[1].from = "CREATED" /\ q[Len(q)].to = ride.state /\ q[Len(q)].at = ride.completed
  BY <1>1, <1>2, <1>3
<1>7. QED
  BY <1>2, <1>5, <1>6 DEF TrailFits, q, ride

\* The seeded intents pay the seeded fares of completed rides, in attempts the policy allows.
LEMMA PaymentsDo == PaymentsFit
<1>1. \A f \in SEED_FARE_CALCULATIONS :
          f.total = f.base + f.distance + f.time /\ SEED_RIDES[f.ride].state = "COMPLETED"
  BY DEF SEED_FARE_CALCULATIONS, SEED_RIDES, Ride
<1>2. ASSUME NEW i \in SEED_PAYMENT_INTENTS
      PROVE  \E f \in SEED_FARE_CALCULATIONS :
                /\ i.ride = f.ride /\ i.amount = f.total
                /\ <<i.base, i.distance, i.time>> = <<f.base, f.distance, f.time>>
                /\ i.minimumApplied = f.minimumApplied
  <2>1. PICK f \in SEED_FARE_CALCULATIONS : TRUE
    BY DEF SEED_FARE_CALCULATIONS
  <2>2. /\ f.ride = "completed" /\ f.total = 18000
        /\ f.base = 4500 /\ f.distance = 6400 /\ f.time = 7100
    BY DEF SEED_FARE_CALCULATIONS
  <2>3. /\ i.ride = "completed" /\ i.amount = 18000
        /\ i.base = 4500 /\ i.distance = 6400 /\ i.time = 7100
    BY DEF SEED_PAYMENT_INTENTS
  <2>4. f.minimumApplied = FALSE
    BY DEF SEED_FARE_CALCULATIONS
  <2>5. i.minimumApplied = FALSE
    BY DEF SEED_PAYMENT_INTENTS
  <2>6. i.minimumApplied = f.minimumApplied
    BY <2>4, <2>5, Zenon
  <2>7. /\ i.ride = f.ride /\ i.amount = f.total
        /\ i.base = f.base /\ i.distance = f.distance /\ i.time = f.time
    BY <2>2, <2>3
  <2>8. QED
    BY <2>6, <2>7, Zenon
<1>3. ASSUME NEW r \in DOMAIN SEED_SETTLEMENT_ATTEMPTS,
             NEW n \in DOMAIN SEED_SETTLEMENT_ATTEMPTS[r]
      PROVE  CanAttemptSettlement(SubSeq(SEED_SETTLEMENT_ATTEMPTS[r], 1, n - 1), TRUE)
  <2> DEFINE q == SEED_SETTLEMENT_ATTEMPTS[r]
  <2>1. r = "completed" /\ Len(q) = 1 /\ DOMAIN q = 1..1
    BY DEF SEED_SETTLEMENT_ATTEMPTS
  <2>2. n - 1 = 0
    BY <2>1
  <2>3. SubSeq(q, 1, 0) = <<>>
    OBVIOUS
  <2>4. CanAttemptSettlement(<<>>, TRUE)
    BY DEF CanAttemptSettlement, HasSucceeded, MaxAttempts
  <2> HIDE DEF q
  <2>5. CanAttemptSettlement(SubSeq(q, 1, n - 1), TRUE)
    BY <2>2, <2>3, <2>4
  <2>6. QED
    BY <2>5 DEF q
<1>4. QED
  BY <1>1, <1>2, <1>3 DEF PaymentsFit

\* The seeded dispatch audits selected the driver the seeded ride has, the nearest candidate.
LEMMA AuditsDo == AuditsFit
  BY DEF AuditsFit, SEED_DISPATCH_AUDITS, SEED_RIDES, Ride, None

\* The seed rows of one build are a state the modules can be in.
LEMMA SeedDataFits == SeededRowsFitTogether
  BY DriversDo, ServiceDo, TrailDo, PaymentsDo, AuditsDo DEF SeededRowsFitTogether

-----------------------------------------------------------------------------
(* The theorems.                                                           *)

\* The invariant holds at first.
LEMMA InitInv == ASSUME Init PROVE Inv
<1>1. TypeOK
  <2>1. NoRun \in Runs
    BY DEF NoRun, Runs, Commands, MigrationLists, SeedLists, MAX_RETRIES
  <2>2. ProcTypes
    BY <2>1 DEF Init, ProcTypes, Labels
  <2>3. DataTypes
    <3>1. synced \in BOOLEAN /\ migrated \subseteq Migrations
      BY DEF Init
    <3>2. /\ rows \in [Tables -> Versions \cup {NoVersion}]
          /\ integrity \in [Seeds -> Versions \cup {NoVersion}]
          /\ meta \in [Seeds -> Versions \cup {NoVersion}]
      BY DEF Init
    <3>3. lock \in Procs \cup {NoProc} /\ stale \subseteq Procs /\ lockLost \subseteq Procs
      BY DEF Init
    <3>4. runs \in 0..MaxRuns /\ faults \in 0..MaxFaults
      BY SeedAssumption DEF Init
    <3>5. QED
      BY <3>1, <3>2, <3>3, <3>4 DEF DataTypes
  <2>4. QED
    BY <2>2, <2>3 DEF ProcTypes, DataTypes, TypeOK
<1>2. (\A p \in Procs : ProcInv(p)) /\ OneWriterPerSeed
  BY DEF Init, ProcInv, Executing, OneWriterPerSeed
<1>3. HashInv /\ LedgerInv /\ SeededDatabaseIsMigrated
  BY DEF Init, HashInv, LedgerInv, SeededDatabaseIsMigrated
<1>4. QED
  BY <1>1, <1>2, <1>3 DEF Inv

\* The invariant is kept by every step.
LEMMA NextInv == ASSUME Inv, [Next]_vars PROVE Inv'
<1>1. ASSUME NEW p \in Procs, Step(p)
      PROVE  Inv'
  <2>1. TypeOK'
    BY <1>1, TypeStep
  <2>2. \A q \in Procs : ProcInv(q)'
    BY <1>1, <2>1, OwnStep, OtherStep
  <2>3. QED
    BY <1>1, <2>1, <2>2, WriterStep, DataStep DEF Inv
<1>2. CASE UNCHANGED vars
  <2>1. UNCHANGED <<synced, migrated, rows, integrity, meta, lock, stale, pc, run, lockLost,
                    runs, faults>>
    BY <1>2 DEF vars
  <2>2. TypeOK' /\ HashInv' /\ LedgerInv' /\ SeededDatabaseIsMigrated'
    BY <2>1 DEF Inv, TypeOK, HashInv, LedgerInv, SeededDatabaseIsMigrated
  <2>3. (\A p \in Procs : ProcInv(p)') /\ OneWriterPerSeed'
    BY <2>1 DEF Inv, ProcInv, OneWriterPerSeed, Seed
  <2>4. QED
    BY <2>2, <2>3 DEF Inv
<1>3. QED
  BY <1>1, <1>2 DEF Next, Step

\* The inductive invariant: locks, writers, hashes, ledger and rows agree however commands
\* overlap, fail and die.
THEOREM SpecInv == Spec => []Inv
<1>1. Init => Inv
  BY InitInv
<1>2. Inv /\ [Next]_vars => Inv'
  BY NextInv
<1>3. QED
  BY <1>1, <1>2, PTL DEF Spec

\* Every variable keeps to its type: what a process still has to do is a rest of the
\* catalogue and of the migrations, and it never gets ahead of them.
THEOREM TypeCorrect == Spec => []TypeOK
<1>1. Inv => TypeOK
  BY DEF Inv
<1>2. QED
  BY <1>1, SpecInv, PTL

\* A seed that a build verifies as OK has that build's rows, whatever commands of whatever
\* builds run at the same time, with the advisory lock or without it.
THEOREM VerificationCorrect == Spec => []VerifiedSeedsAreApplied
<1>1. Inv => VerifiedSeedsAreApplied
  BY DEF Inv, HashInv, VerifiedSeedsAreApplied, VerifyStatus
<1>2. QED
  BY <1>1, SpecInv, PTL

\* The ledger runs behind the data, never ahead of it.
THEOREM LedgerCorrect == Spec => []LoggedSeedsWereCommitted
<1>1. Inv => LoggedSeedsWereCommitted
  BY DEF Inv, LedgerInv, LoggedSeedsWereCommitted, Pending, VerifyStatus
<1>2. QED
  BY <1>1, SpecInv, PTL

\* A seeded database has every constraint, and rows of one build that refer to each other as
\* the rules of the modules say.
THEOREM DatabaseCorrect == Spec => []SeededDatabaseIsUsable
<1>1. Inv => SeededDatabaseIsUsable
  BY SeedDataFits DEF Inv, SeededDatabaseIsUsable
<1>2. QED
  BY <1>1, SpecInv, PTL

\* Commands exclude each other by the advisory lock unless a session was lost, and seeds by
\* their transactions in any case.
THEOREM WritersCorrect == Spec => []WritersExclude
<1>1. Inv => WritersExclude
  BY DEF Inv, ProcInv, LockExcludes, WritersExclude
<1>2. QED
  BY <1>1, SpecInv, PTL

\* Executing a verified seed again changes no row.
THEOREM ReexecutionCorrect == Spec => ReexecutionChangesNothing
<1>1. Inv /\ [Next]_vars =>
         [\A s \in Seeds, v \in Versions :
             VerifyStatus(s, v) = "OK" /\ integrity'[s] = v
                 => \A t \in TablesOf(s) : rows'[t] = rows[t]]_vars
  BY SameRows
<1>2. QED
  BY <1>1, SpecInv, PTL DEF Spec, ReexecutionChangesNothing
=============================================================================
