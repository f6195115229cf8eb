# Verification of mercury-cortex-core

TLA+ models of the core library of Mercury Cortex (the Rust crate under
`src/src`), the TLC runs that check them on small instances, and the theorems
TLAPS proves about them. Paths below are relative to the crate's `src/`.

The library is embedded in a long-lived process and in short CLI commands. Both
open one SurrealKV directory under an exclusive file lock, keep a *runtime* with
a status and a *knowledge engine*, register projects in the database, and import
metadata that an AI tool stages as JSON files in a project's temp directory.

## 1. Inventory

| Component | State | Operations | Talks to |
|---|---|---|---|
| Circuit breaker, `db/pool.rs` | state, consecutive failures, time of opening, behind a mutex | `allow_request`, `record_success`, `record_failure`, `reset` | retry wrappers |
| Retry wrappers, `db/retry.rs` | loop variable and delay per caller; one process-wide breaker | `retry`, `retry_shared`, `reset_shared_breaker` | breaker, any database operation |
| Connection, `db/connect.rs` | the LOCK file, its inode and flock | `connect_at`, `try_connect` (removes a LOCK file it takes for stale), `lock_is_held` | storage engine, other processes, backup |
| Backup and restore, `db/backup.rs` | `mercury.db`, `.restore-tmp`, `.old`, `backups/*` | `backup`, `restore`, `list_backups` | the daemon through the lock probe, the file system |
| Runtime, `runtime/core.rs`, `context.rs`, `status.rs`, `signal.rs` | phase, health, error, the published handles, the shutdown channel | `new`, `trigger_shutdown`, `shutdown`, the signal task | engine, database |
| Knowledge engine, `engine/knowledge` | running flag, `started_at`, active project, event log | `start`, `stop`, `info`, `set_project`, `clear_project`, `search`, `count_indexed_files`, `list_indexed_paths`, `submit_metadata` | runtime, index engine |
| Index engine, `engine/index/engine.rs`, `cache.rs`, `runtime_index.rs` | active project and importer, LRU cache, runtime index | `set_project`, `get_file_metadata`, `import_pending` | knowledge engine, importer |
| Importer, `engine/index/importer.rs` | staged files, tasks under a semaphore | `import_pending`, `import_file`, `upsert_metadata` | AI tool, database, runtime index |
| Search, `engine/index/search.rs` | none of its own | `search` | active project (three reads), database |
| Ignore patterns, `engine/index/mcignore.rs` | compiled patterns | `load`, `is_ignored` | importer |
| Projects, `service/project.rs` | rows of `projects`, their `file_data` | `register`, `get_project`, `update_metadata` | migrations (unique indexes), importer |
| Migrations, `schema/migration` | `_migrations`, tables and indexes | `run_pending`, `verify_schema`, v001 to v005 | runtime, CLI |
| Profiles, `service/profile.rs` | rows of `users` | `upsert`, `fetch` | migrations (unique email) |
| Client facade, `client/` | a context that connects on first use, in a `OnceLock` | `ensure_connected`, thin wrappers | connection, everything above |
| Reset, `db/reset.rs` | rows, in one transaction | `reset`, `list_resettable_tables`, `table_counts` | any other statement |
| Export, `db/export.rs` | one JSON file per table | `export_tables` | any other statement, other exports |
| Scaffolding, `service/scaffold.rs` | `AGENTS.md`, `.mcignore`, `config.json`, the slug | `create_or_update_*`, `slugify` | projects, the file system |
| File data, graph, `service/*` | `file_data` and graph rows | queries, `delete_by_path` | database |

What is hard, and what makes each part correct:

- **Breaker and retries.** Many tasks share one breaker, are admitted in one of
  its phases and report in a later one. It must trip on a streak of failures and
  on nothing else, admit nothing while open, and recover.
- **Lock.** An opener that fails decides that the LOCK file is stale and unlinks
  it, between another process's open and its flock. One process at a time may
  have the database; a probe must not call a held database free.
- **Backup and restore.** Neither holds the lock: it is probed before and after.
  Processes crash and power fails between file operations. A reported backup must
  be the database, and the original must survive a restore whatever happens.
- **Runtime.** Signals, shutdowns and engine calls race with startup and each
  other; stopping can time out while a query holds the engine's context. The
  status must tell the truth, the uptime follow the flag, and a shutdown end.
- **Import.** Tasks run beside each other, the tool keeps staging, some tasks
  fail, and at the end the directory is removed. Nothing staged may be lost.
- **Active project.** It is kept twice, behind two locks, and read once for the
  id and once for the root.
- **Projects and migration v005.** No transaction spans their statements, and
  many statements' results are not taken, so they fail unnoticed. Rows must not
  lose their project, a directory not its last one, nor end with two.
- **Migrations.** Statements without a transaction, whose results are not taken;
  two runners at once; profiles written before, during and after. What is recorded
  must be in effect, once and in order, and emails must differ.
- **First use of a client.** Operations of one client may all find it unconnected.
  No connection may be left open for nobody, and the one kept must have the lock.
- **Reset and export.** Counts, deletes and files are separate steps beside other
  statements; together they must be about one state of the database.
- **Algorithms.** Glob matching with backtracking, root canonicalisation, LRU
  order, ranking under a limit, slugs and updated texts have boundaries that
  examples do not reach.

The hazards, each at its line, are listed in `PROJECT.json`.

## 2. Modules

| Module | Code | What its state and actions are |
|---|---|---|
| `CircuitBreaker` | `db/pool.rs` | The three fields; one operator per method, each a step of its caller under the mutex; `Elapse` is the cooldown passing. |
| `Retry` (extends `CircuitBreaker`) | `db/retry.rs` | Per caller a program counter over check, backoff and call. `Check`, `Wake`, `Succeed`, `Fail`, `ResetShared`. |
| `DbLock` | `db/connect.rs` | Inodes, the one named LOCK, who holds which flock, who has which open. One action per system call of `connect_at` with its recovery, and of `lock_is_held`. |
| `BackupRestore`, `MCBackupRestore` | `db/backup.rs` | Directories (inodes) whose trees map parts to versions, the three paths that name them, and what those paths name on disk; one action per file operation and per flush, and the daemon, crashes and power losses in between. |
| `Runtime` | `runtime/*`, `start`/`stop` | The steps of `Runtime::new`, the two steps of `start` and of `stop`, `trigger_shutdown` with its timeout, a query that keeps the context lock. |
| `Importer`, `MCImporter` | `engine/index/importer.rs` | Per pass and file the step its task is at. A staged file is a version, so that a row tells which content it has. |
| `LruCache` | `engine/index/cache.rs` | The map and the order as a record; `Get` and `Put` are pure. |
| `IndexEngine` (extends `LruCache`), `MCIndexEngine` | `engine/knowledge/engine.rs`, `engine/index/engine.rs`, `search.rs` | Context and index engine each with a project; per caller a program counter over the lock acquisitions and queries of one call. |
| `Projects`, `MCProjects` | `service/project.rs`, `v005_add_unique_root_path.rs`, `run.rs` | Rows by id with root, spelling and time; one action per statement of v005, of its recording, of `register`, of `reconcile_root_records` and of `update_metadata`, whose time decides which duplicate is kept. |
| `LazyConnect`, `MCLazyConnect` | `client/mod.rs` over `db/connect.rs` | Extends `DbLock` with clients: per client the `OnceLock`, per operation whether it connects or uses. `Begin`, `ConnectStep`, `Install`, `Finish`, `Cancel`, `Drop`. |
| `Migrations`, `MCMigrations` | `schema/migration`, `service/profile.rs` | Per runner the version and statement it is at; which statements are in effect, what `_migrations` records, the emails of the profiles. One action per statement. |
| `Maintenance`, `MCMaintenance` | `db/reset.rs`, `db/export.rs`, `delete_by_path` | Committed rows, per call its transaction (snapshot, what others have written since) and what it has read; one action per query, commit and file. A commit may go through although its caller has dropped the future (`CommitUnheard`), and a file may be cut short (`WriteFileFails`). |
| `Store` | (what the docs of reset and export promise) | The abstract specification of `Maintenance`: a call acts in one step on one state of the database. |
| `SearchResults` | `engine/index/search.rs` | What the SQL selects, the filters, scores, the stable ranking and both limits, as operators over rows that say which term occurs in which field. |
| `Scaffold` | `service/scaffold.rs` | The two text updates over lines, of which any may contain the header looked for, and `slugify` over characters. |
| `McIgnore`, `RootPath` | `mcignore.rs`, `util.rs` | The functions as operators over segments and components. |
| `Algorithms` | (inputs only) | Grows every input up to a bound, and holds the reference definitions. |
| `BackupRestoreProofs`, `RuntimeProofs`, `ImporterProofs`, `IndexEngineProofs`, `ProjectsProofs` | | Theorems, each over the module it is named for. |
| `ConnectProofs`, `DatabaseProofs` | | Theorems about `DbLock`, the clients over it and `Migrations`; about `Retry` and about `Maintenance` with `Store`. |
| `AlgorithmProofs` | | Theorems about the pure functions for any input, and about `Algorithms`. |

`PROJECT.json` maps every definition to its lines. History variables are marked
`history:` where they are declared; no guard of the code's actions reads one. An
operator described as a *faulty variant* is a plausible bug in the definition
after it. It is part of no specification: putting it in that definition's place
makes the property that `PROJECT.json` names fail.

Abstractions shared by the models: what a lock protects is one step, what an
`await` separates is two; a database statement is one step; data are versions or
model values; log lines, traces and texts are left out. A query that fails as a
whole ends the call with an error. A statement whose result the code does not take may
fail without changing the control flow (`Unchecked`, `UpdateLost`).

## 3. Runs

Runs that pass:

| Run | Question | Properties |
|---|---|---|
| `retry` | Does the shared breaker trip exactly on a streak, and recover? | `ClosedCountsTheStreak`, `AdmittedBeforeOpening`, `TripsOnlyOnStreak`, `Recovers` |
| `db_lock` | What do the flock and the probe guarantee, and until when? | `ExclusiveUntilUsurped`, `ProbeSeesTheHolder` |
| `lazy_connect` | Which connection does a client end up with, and does an operation return? | `HandleKeepsItsLock`, `OperationsReturn` |
| `backup_restore` | What survives crashes, power losses before and after each flush, and a daemon that comes and goes? | `OriginalSurvives`, `DaemonKeepsItsDirectory`, `RestoreInstallsTheBackup`, `ReportedBackupIsExact`, `AtomicReplace` |
| `runtime` | Do status, flag and uptime agree in every order of calls? | `UptimeFollowsTheFlag`, `StatusTellsTheTruth`, `ShutdownCompletes` |
| `importer` | What may a pass remove, and does it end? | `IndexedFilesHaveARow`, `NothingStagedIsLost`, `NothingGoesBack`, `PassEnds` |
| `index_engine` | Whose project do search and count work on, and what does the cache say? | `SettledProjectsAgree`, `RootsAreRight`, `CountsTheActiveProject`, `CacheIsSound`, `LeastRecentlyUsed` |
| `projects` | Is v005 safe wherever it stops, and `register` beside it? | `NoOrphans`, `OneProjectPerRoot`, `RegisterTellsTheTruth`, `RootsSurvive` |
| `migrations` | Is what is recorded in effect, with crashes, two runners and profiles? | `RecordedMeansDefined`, `RecordedOnceInOrder`, `EmailsAreUnique` |
| `maintenance` | Do a reset and an export act on one state of the database? | `FilesAreOneState`, `StoreSpec` |
| `algorithms` | Do the functions compute what their definitions say? | `PatternsAreExact`, `RootIsExact`, `CacheKeepsTheMostRecent`, `SearchIsExactUnderTheLimit`, `ScaffoldIsStable` |

Each state machine has one type invariant, `TypeOK`, which is proved and belongs to no
run; the importer's also bounds the tasks in flight. Where a module is extended, or shares
a proof module, its specification has a name of its own: `LockInit`,
`LockNext`, `LockSpec`, `LockTypeOK` in `DbLock`, `ConnectInit` and so on in `LazyConnect`,
`RetryInit` in `Retry`, `AlgorithmsInit` in `Algorithms`, which has no type invariant.

Several properties hold up to a circumstance that the code does not guard
against. It is a variable (`usurped`, `crowded`, `events`, `torn`, `overlap`,
`late`, `unsaved`, `crossed`, `faults`, `lost`, `refused`, `implicit`, `alone`) in
the property, so that the property says exactly when the promise ends. In
particular:

- two calls of `set_project` that cross can leave the context on one project and
  the index engine on the other, for good;
- a search during which the project changes can name the old root for the new project;
- two registers that reconcile the same duplicates can each delete the record the
  other keeps, so the directory is left without a project;
- a file staged while a pass is at work can be removed without being imported;
- two operations of one client that connect at once can leave it with a
  connection whose LOCK file has been removed;
- a power loss between the removal of `mercury.old` and the flush of the data
  directory can bring the emptied original back to the live path;
- a reset whose DELETE fails unnoticed commits and reports the counts all the same;
- two exports to one directory can leave a file of each.

One run is a refinement. `StoreSpec` says that `Maintenance` implements `Store`
(`INSTANCE Store WITH lapses <- faults`): whatever runs between a transaction's first
read and its commit, the call is one step on one state. `Store`'s state space is
what `Maintenance` reaches, not a run of its own.

`restore_crash` ends in a violation: a crashed restore, run again, deletes the
original, against a sentence in `backup.rs`. Twelve more disagreements with the
code's own sentences are among the `findings` of `PROJECT.json`, without a run. Each
property is defined in its module, and TLC violates it within a minute under the
module's passing configuration with this property in place of the others, except
where other constants are given:

| Property | Module, and constants where they differ |
|---|---|
| `SwapSurvivesPowerLoss` | `MCBackupRestore` |
| `ReportedBackupIsConsistent` (action property) | `BackupRestore`: `Dirs = {d1, d2, d3}`, `Tools = {t1}`, `MaxRuns = 1`, otherwise as in `RestoreCrash.cfg` |
| `OneProcessHoldsTheDatabase` | `DbLock`: `Openers = {o1, o2}`, `Probers = {}`, `Inodes = {i1, i2}`, `MaxRetries = 0` |
| `StoppedIsFinal` (action property) | `Runtime`: `Users = {u1}`, `MaxCalls = 0`, `CHECK_DEADLOCK FALSE` |
| `LoneClientKeepsTheLock` | `MCLazyConnect`: one client and two operations of it (`c2 = c1`, `o3 = o2`, `Clients = {c1}`, `Openers = {o1, o2}`), `SPECIFICATION ConnectSpec`, `CHECK_DEADLOCK FALSE` |
| `VerifiedMeansDefined` | `Migrations`; `MaxFaults = 0` suffices |
| `ResetsDelete` (action property) | `Maintenance` |
| `DeletedOnlyOnSuccess` (action property) | `Importer` |
| `CacheShowsTheIndex`, `ProjectsAgree` | `IndexEngine` |
| `DirectoryContentsAreIgnored`, `NestedContentsAreIgnored` | `Algorithms` |

The same holds of `Retry`'s action property `NoCallWhileOpen`: a breaker that opens during a backoff
sleep is not asked again before the call.

### Bounds, and why they are enough

- `retry`: two callers make every crossing of an admission and a report; the
  threshold is the code's 3, and five failures open the breaker twice.
- `db_lock`: a holder, an opener that removes its file, and a probe; an inode is
  used again only once nobody has it, so three suffice for all descriptors and the name.
- `lazy_connect`: two operations of one client connect beside each other and beside
  another client's; a file is created only by an opener that has none open, so three
  inodes suffice; one retry reaches every branch of `connect_at` for each.
- `migrations`: two runners cross at every statement; two profiles and two emails
  clash or not; one statement fails unnoticed, and any number of runs end early.
  `Symmetry` permutes runners, profiles and emails.
- `maintenance`: two calls of any kind and one statement between any two of their
  steps; one file row and two projects tell a filter, a count and a lost row
  apart. `Symmetry` permutes the calls.
- `backup_restore`: two parts tell a torn copy from a whole one; two commands are a
  crashed restore and its retry, or a backup beside a restore; `MaxVersion` 2 lets the
  daemon write once, during or after either. Four directories are enough: the live
  database, the original, the temp copy and one that only the disk still names (a fifth
  adds no state). `Symmetry` permutes parts, names and commands.
- `runtime`: two users, the signal and five calls cover a start, a stop, a query
  and a shutdown that all meet. Each call is two or three steps.
- `importer`: two files, one permit (so the second task waits), two passes that may
  overlap, two staged versions (one file replaced, or two files), one fault.
  With one permit, tasks overlap across passes only; two tasks of one pass have
  different files and interact through the same steps. Fewer permits make a leak
  show at once. Source versions 0 and 1 are a missing and a present source.
- `index_engine`: two callers, since every hazard is one call caught between two
  steps of another; two projects; three paths, a capacity of 2 and three
  versions, so a put evicts and has a choice of what. `Symmetry` permutes all three.
- `projects`: two old records are a group of duplicates or two directories, one or
  two ids are minted, two times of update and their tie, whoever writes them, one unnoticed failure
  in any statement, any number of crashes. `Symmetry` permutes callers, old ids and
  directories; only safety is checked under it.
- `algorithms`: values and patterns of up to four elements hold two stars with
  something between and after them; five components, or five uses of three keys
  with a capacity of 2, reach every eviction order. Two rows with two occurrences
  each decide every comparison that a ranking makes, and a limit of one; three
  lines are a text with an entry before and after another; six characters of a name
  hold dashes at both ends and doubled in between.

Deadlock is checked where the system can always go on. `runtime`, `importer`,
`projects`, `maintenance` and `algorithms` switch it off: a stopped runtime, an empty
temp directory with no more files to come, all ids used, all calls answered, and
an input at its bound are proper ends.

### Fairness

- `Retry`: the runtime polls every caller, callers keep making requests, the database
  answers, and the cooldown elapses. `Recovers` is
  about a database that has stopped failing; only the bound on failures says so.
- `LazyConnect`: an operation inside `connect_at` is polled when its sleep or its I/O
  is over, and `set_database` follows without waiting. Nobody has to start or
  finish an operation or to drop a client. `OperationsReturn` depends on the bound
  on attempts: `connect_at` gives up, whatever the others do.
- `Runtime`: a task inside `trigger_shutdown` is polled, and the timeout it waits with
  fires. Queries need not end, and nobody has to call.
- `Importer`: the tasks and the loop of a pass that runs are polled. The tool and the
  editor need not act and no one has to call `import_pending`.
- `DbLock`, `IndexEngine`, `Projects`, `Migrations` and `Maintenance` have safety properties only. (That a writer gets the
  context lock follows from the queueing of tokio's `RwLock`, which is external.)

## 4. Proofs

Every theorem is for all values of the constants, under the named assumption of
its module (`RetryAssumption` and `BreakerAssumption`, `LockAssumption`,
`BackupAssumption`, `RuntimeAssumption`, `ImporterAssumption`, `IndexEngineAssumption`,
`ClientAssumption`, `MigrationsAssumption`, `ProjectsAssumption`, `MaintenanceAssumption`,
`AlgorithmsAssumption`): bounds are natural numbers, a cache has room for one entry, the model values that stand for "none" are not members of
the sets, and a table's rows are not another's. The bounds are in the
guards, so the theorems hold for any bound as well.

- **`DatabaseProofs`, `Retry`**: `RetryTypeOK`, `ClosedCountsTheStreak`, `AdmittedBeforeOpening` and the
  action property `TripsOnlyOnStreak`, for any callers, threshold and retries. The
  invariant adds to them that admissions lie in the past (`AdmissionsAreInThePast`):
  a caller was admitted at most as many openings ago as there have been, which is
  what makes a late report recognisable.
- **`DatabaseProofs`, `Maintenance`**: `TypeOK`, `FilesAreOneState` and the refinement
  `StoreSpec`, for any rows, filters and calls. A transaction's snapshot is among the states
  that its call has seen (`OpenAtWork`); what it has got is what the snapshot has in the tables it is
  done with, but for a table whose DELETE failed unnoticed (`GotFromSnapshot`);
  the files written so far hold it, until another export writes (`FilesSoFar`), and
  go on to after the answer (`FilesAtTheEnd`). Then `CommitReset` is `Store`'s `Clear`, `CommitUnheard` its `ClearUnheard` and `FinishExport` its
  `Show`, with the snapshot as the state; the other steps of a call are stutters or `Lapse`. That a
  commit's rows are untouched since is not needed: a row deleted twice is gone.
- **`ConnectProofs`, `DbLock`**: `LockTypeOK`, `ExclusiveUntilUsurped`, `ProbeSeesTheHolder`, for any
  openers and probes. Neither property
  is inductive. `DescriptorsMatchSteps` says who has a file open at which step,
  `FlocksMatchDescriptors` that a flock is held through an open descriptor, and
  `OpenersShareTheFile` and `ProbesShareTheFile` that until a file in use is
  removed everybody has the same inode open, on which there is only one flock.
- **`ConnectProofs`, the clients**: `ConnectTypeOK` and `HandleKeepsItsLock`. Every
  step of a client is one of `DbLock`'s or leaves its variables alone (`NextImplements`,
  a lemma: it holds by the way `LazyConnect` is built), so `DbLock`'s invariant is
  taken over. Beside it, an open connection is on its way to its client or the one
  the client has (`ConnectionsHaveAnOwner`), and until an operation connects beside
  another, one at most has anything to do with the lock (`OneAtATime`).
- **`BackupRestoreProofs`**: `TypeOK`, `OriginalSurvives`, `DaemonKeepsItsDirectory`, and the action
  properties `RestoreInstallsTheBackup`, `ReportedBackupIsExact`, `AtomicReplace`. The
  invariant adds that no directory has two names, in memory or on disk (`OneNameEach`),
  that a lone command is the only one (`SoleCommand`), where the daemon's directory is
  (`DaemonOutsideWindow`), and that a copy's finished parts are those of its source
  (`CopyFollowsDb`, `TempFollowsBackup`). Survival needs two parts: `DataInPlace` says
  where the data is at each step of a restore, and that the directory at the live path
  is flushed; `DataOnDisk` says the same of what the disk names, which a power loss makes
  the present (`PowerLossRestoresData`, `PowerLossKeepsData`). Neither is inductive
  alone: until the swap is flushed the disk still has the original, which therefore counts
  as data (`live`) until then, and is whole as long as its removal has not begun.
- **`RuntimeProofs`**: `TypeOK`, `UptimeFollowsTheFlag`, `StatusTellsTheTruth`, `OneShutdownAtATime`. Added:
  nothing but the signal task runs before `new` returns (`BootAlone`), what each
  step of startup has already published (`BootProgress`), that an undisturbed window
  is the only one (`SoloWindow`), and that a finished shutdown stays (`StoppedOnce`).
- **`ConnectProofs`, `Migrations`**: `TypeOK`, `RecordedMeansDefined`, `RecordedOnceInOrder`, `EmailsAreUnique`. The
  invariant says of each runner that the statements of its version before the one it
  is at are accounted for (`AppliedSoFar`), that earlier versions are recorded or
  their record failed, and what it found applied is recorded still
  (`EarlierAreDealtWith`), and that the index on `_migrations` precedes every record
  (`KeyBeforeRecords`).
- **`ImporterProofs`**: `TypeOK`, `IndexedFilesHaveARow`, `NothingStagedIsLost`, `NothingGoesBack`. A
  writer has read something (`WritersHaveRead`), an entry follows its row
  (`RowBeforeEntry`), what a pass finds under a task's name is what the task read or
  came late, and is settled once it has written (`Accounted`), and versions grow from
  row to task to file (`NewestIsStaged`). A lemma says what one step of one task may do.
- **`IndexEngineProofs`**: `TypeOK`, `SettledProjectsAgree`, `RootsAreRight`, `CountsTheActiveProject`,
  `CacheIsSound`, the action property `LeastRecentlyUsed`, and `CacheFollowsTheIndex`, the part of
  `CacheIsSound` that relates the cache to the index.
  Added: until two cross there is one `set_project`, and the context shows its
  project (`OneSetter`); holders of the lock have read the context (`HoldersHaveRead`);
  the root that was read is the engine's unless torn (`RootIsFresh`); a found entry is
  in the index, or a newer one is (`FoundFollowsTheIndex`); the order lists each cached path once and
  there is room for all (`CacheIsOrdered`). What `Get` and `Put` do to the map and to the order is
  taken from `AlgorithmProofs`.
- **`ProjectsProofs`**: `TypeOK`, `NoOrphans`, `OneProjectPerRoot`, `RegisterTellsTheTruth` and the action
  property `RootsSurvive`, wherever v005 stops and however often it starts again. Whoever
  deletes projects has deleted their `file_data` before, or has those still to do
  (`DeadHaveNoFiles`). What v005 has done at each step: what it selected is what there
  is (`RowsAreSelected`), roots are canonical, then different, then indexed
  (`RootsAreTidied`), and each directory keeps a project (`RootsAreKept`); migration and registers do not
  meet (`OneAtWork`). A register that none has crossed finds the record that it
  returns and deletes others only (`LoneRegister`).

- **`AlgorithmProofs`**: `PatternsAreExact`, `RootIsExact`, `CacheKeepsTheMostRecent`,
  `SearchIsExactUnderTheLimit` and `ScaffoldIsStable`, for inputs of any length, any bounds and any capacity; and, over any
  alphabet, any keys and any texts, the theorems they follow from.
  Induction is not taken from the library: that a set of numbers has a least one follows
  from the order of finite subsets being well founded (`LeastNumber`), induction from that.
  A recursive function is a CHOOSE, so each is shown to exist first, as an iteration
  (`Iteration`), and its equation is used afterwards.
  - *Patterns.* `Falls` says which suffixes of a value fall into the elements of a suffix of
    the pattern. The scan has no number that goes down, so it may not be given one:
    a set of positions each of which goes on in it (`IsScan`, `ScansExist`) gives the function, and a
    counterexample to its exactness that is the last on its way leads to a later one
    (`ScansFind`). What makes one point to come back to enough is that a later star may take
    what an earlier one could (`StarFinds`). Whole paths have one solution (`MatchIsFalls`).
  - *Roots.* After each component, which names are left and how deep each stands
    (`AllArePlaced`); a `..` takes the deepest.
  - *Cache.* After each use, the order lists the keys by their last use and a value is the
    last one put (`AllUsesAreTracked`). That moving a key to the front, putting one there or
    dropping the last leaves the others once each and in their places is proved of lists as
    functions on `1 .. n`.
  - *Search.* Any rows in which the tokens are wherever the whole query is, and any query of
    such tokens. In an order each element of a finite set has a place of its own (`PlacesAreTaken`), so
    a listing is complete and in order (`ArrangedIsComplete`); a row that has as much of
    every token as another scores as much, and more if it has more (`ScoreGrows`).
  - *Slugs.* The pieces before the last, joined, and the last one are all that a character
    needs to know (`SlugIsSplit`); then tidiness, letters and, of a tidy name, the prefix read so
    far are kept by each character. *Texts.* Which defaults are missing (`WithoutFinds`), and that lines put
    behind a text whose last line has ended are all that is new (`AddsBehind`).

Only model-checked: liveness (`Recovers`, `OperationsReturn`, `ShutdownCompletes`,
`PassEnds`), which needs fairness and `ENABLED`. `RuntimeProofs` proves `OneShutdownAtATime` as
well, which no run checks. All other safety and action properties of the passing runs, with the
refinement, are theorems.

## 5. Not modelled

`PROJECT.json` gives the reason for each component. `get_project`, `fetch`, the table
counts of `db/reset.rs` and the reads of the file data and graph services change
nothing; hashing and parsing are data. Inside modelled components these details
are left out:

- key resolution and path encoding of `connect.rs`; the startup trace; the event log,
  which nothing reads back;
- the slug's unique index, whose refusal is one of the errors that `RegisterReturn`
  stands for, and that on `agent_name`, which is like the one on the email;
- the fields of a table, which are one statement of a migration;
- a file whose `remove_dir_all` fails, which stays like one whose `remove_file` does;
- in search: prefix queries, the validation of a request, the filter by language and
  framework. `SearchResults` keeps three oddities of the code as they are: the
  SQL's LIMIT comes before the ranking, so a better row beyond it is never
  seen; a row that only its content matches is selected and then dropped; a
  whole query that occurs in the type field counts nothing;
- in backup and restore: a build without unix, where the flushes do nothing. What the
  data directory holds on disk is what it held at some moment since its last flush, so its
  renames and removals become durable in their order and together (`Writeback`), while
  the contents of a directory are independent of it: those of a directory with unflushed
  creations or removals may be gone or be back after a power loss. The code orders
  nothing more, and a file system that reorders renames can lose more. What the storage
  engine commits is durable, but for the entry of a directory that it has just created. A
  `remove_dir_all` takes effect as a whole or, where its error is ignored, not at all;
- in the importer: a future of `import_pending` dropped at `importer.rs:177` (or before)
  leaves spawned tasks behind that outlive the pass, so that `NothingGoesBack` and what a
  next pass may remove hold only of passes that are awaited to their end. That a path has
  one row at most (`rows` is a function of the path) is what the unique index of migration
  3 gives: the second of two tasks that create a row for one path is refused (`CreateRow`).
  A database in which that index failed to be defined, so that the path gets two rows,
  cannot be expressed;
- in the engine: a future of `set_project` dropped between its write of the context
  (`knowledge/engine.rs:79-82`) and that of the index engine, which leaves the two on
  different projects as two calls that cross do;
- in registration: an import into a project while it is deleted (`Projects` only takes
  `file_data` away), and what `update_metadata` writes besides the time;
- in an export: `table_has_field` asks the connection, not the transaction. The fields of
  a table do not change here, so it makes no difference; a migration beside an export
  could tell the two apart;
- in scaffolding: `config.json` and the files that are always overwritten. That
  `.mcignore` defaults appended at the end override a user's earlier negation
  follows from `McIgnore`'s precedence and is no property here;
- the validation of table names and of the directory in `export_tables`.

## 6. Plan

The order: breaker and retries, backup and restore, lock, runtime,
importer, index engine, projects, algorithms; then clients, migrations, reset and
export, search results and scaffolding; then proofs, of the state machines before the
functions. What could come next:

1. **Proofs**: the parts of liveness that are not temporal: what each fair step of
   `OperationsReturn` and of `ShutdownCompletes` decreases. The conclusion stays with TLC.
2. **Abstractions**: an atomic "replace the database by a backup" that
   `BackupRestore` implements up to its events; one active project that
   `IndexEngine` implements up to `overlap`; a map from root to project for `Projects`.
3. **Search**: prefix queries and the language filter in `SearchResults`.
4. **Composition**: `Runtime::new` over `Migrations`, whose `verify_schema` is its gate.
