--------------------------- MODULE BackupRestore ----------------------------
(***************************************************************************)
(* db/backup.rs: the backup and restore commands, run by operators against *)
(* a data directory that a daemon may open, write and close at any moment, *)
(* with process crashes and power losses between any two file operations.  *)
(*                                                                         *)
(* The data directory names at most three database directories: db, tmp    *)
(* and old.  What it names on disk (disk) is what it named at some moment   *)
(* since its last flush: a power loss takes the renames and removals after *)
(* that moment back.  A directory's tree maps each of its parts (files) to *)
(* the version of the data it holds, or to 0 when the file is missing; the *)
(* files of a dirty directory may be lost, or come back if they had been   *)
(* removed.  The daemon commits a version in all parts at once; a copy     *)
(* reads one part at a time.  A lock probe (lock_is_held) sees the daemon  *)
(* exactly when the directory it has open is the one at the live path: the *)
(* flock follows the renamed directory.  A command that a check refuses    *)
(* changes nothing and is not a step; an error return that cleans nothing  *)
(* up leaves what a crash there leaves.                                    *)
(***************************************************************************)
EXTENDS Naturals

CONSTANTS
    Dirs,        \* database directories (inodes), whatever path names them
    Parts,       \* files of a database directory
    Names,       \* names of backup directories
    Tools,       \* command-line processes
    Absent,      \* no directory at this path
    MaxVersion,  \* bound: versions the daemon commits
    MaxRuns      \* bound: commands started

MaybeDir == Dirs \cup {Absent}
Tree == [Parts -> 0 .. MaxVersion]
NoFiles == [p \in Parts |-> 0]
Uniform(v) == [p \in Parts |-> v]
Without(tree, lost) == [p \in Parts |-> IF p \in lost THEN 0 ELSE tree[p]]

ASSUME BackupAssumption ==
    /\ MaxVersion \in Nat \ {0}
    /\ MaxRuns \in Nat
    /\ Dirs # {}
    /\ Absent \notin Tree \cup Names \cup Dirs
    /\ Names \cap Dirs = {}

VARIABLES
    db, tmp, old,  \* mercury.db, mercury.restore-tmp, mercury.old
    disk,          \* what these three paths name on disk
    files,         \* the tree of each directory
    backups,       \* the directories under backups/
    reported,      \* backups whose command returned Ok
    dirty,         \* directories whose files are not yet on disk as they are
    daemon,        \* the directory that the daemon has open, or Absent
    clock,         \* the last version committed
    pc, name, left,\* per command: its step, its backup, the parts left to copy
    runs,          \* commands started
    live,          \* history: the directories that count as the operator's data:
                   \* the last one in place and, until a restore has reported its
                   \* swap or the swap is on disk, the one it replaced
    events         \* history: circumstances the code does not guard against

paths == <<db, tmp, old>>
opVars == <<pc, name, left>>
vars == <<paths, disk, files, backups, reported, dirty, daemon, clock, opVars,
          runs, live, events>>

Labels == {"idle", "backupCopy", "cleanTmp", "cleanOld", "restoreCopy",
           "sync", "swapOld", "swapNew", "dropOld", "flush"}
Events == {"overlap", "leftover", "window", "visit", "early"}

TypeOK ==
    /\ db \in MaybeDir /\ tmp \in MaybeDir /\ old \in MaybeDir
    /\ disk \in [db : MaybeDir, tmp : MaybeDir, old : MaybeDir]
    /\ files \in [Dirs -> Tree]
    /\ backups \in [Names -> Tree \cup {Absent}]
    /\ reported \subseteq Names
    /\ dirty \subseteq Dirs \cup Names
    /\ daemon \in MaybeDir
    /\ clock \in 0 .. MaxVersion
    /\ pc \in [Tools -> Labels]
    /\ name \in [Tools -> Names \cup {Absent}]
    /\ \A t \in Tools : pc[t] # "idle" => name[t] \in Names
    /\ left \in [Tools -> SUBSET Parts]
    /\ runs \in 0 .. MaxRuns
    /\ live \subseteq MaybeDir
    /\ events \subseteq Events

\* The live database is there or this is a new machine; there is one good backup
\* and perhaps another that an interrupted copy left without its last file.
Init ==
    /\ db \in {Absent, CHOOSE d \in Dirs : TRUE}
    /\ tmp = Absent /\ old = Absent
    /\ disk = [db |-> db, tmp |-> Absent, old |-> Absent]
    /\ files = [d \in Dirs |-> IF d = db THEN Uniform(1) ELSE NoFiles]
    /\ \E n \in Names, rest \in {Absent} \cup {Without(Uniform(1), {p}) : p \in Parts} :
          backups = [m \in Names |-> IF m = n THEN Uniform(1) ELSE rest]
    /\ reported = {}
    /\ dirty = {}
    /\ daemon = Absent
    /\ clock = 1
    /\ pc = [t \in Tools |-> "idle"]
    /\ name = [t \in Tools |-> Absent]
    /\ left = [t \in Tools |-> {}]
    /\ runs = 0
    /\ live = {db}
    /\ events = {}

-----------------------------------------------------------------------------
LockIsHeld == daemon # Absent /\ daemon = db

\* list_backups: every directory under backups/, whole or not.
Advertised == {n \in Names : backups[n] # Absent}

\* Directories that nothing refers to; mkdir returns one of them, whichever.
Fresh == Dirs \ ({db, tmp, old, disk.db, disk.tmp, disk.old, daemon} \cup live)
NewDir == IF Fresh = {} THEN {} ELSE {CHOOSE d \in Fresh : TRUE}

\* What an operator takes for the database when everything stops now.
InPlace == IF db # Absent THEN db ELSE old
InPlaceOnDisk == IF disk.db # Absent THEN disk.db ELSE disk.old

\* Once the directory in place is there for good, what it replaced is no data.
Settled(place, dirs) == IF place \in dirs THEN {place} ELSE dirs

Goto(t, label) == pc' = [pc EXCEPT ![t] = label]

\* The command returns; its locals are gone.
Return(t) ==
    /\ Goto(t, "idle")
    /\ name' = [name EXCEPT ![t] = Absent]
    /\ left' = [left EXCEPT ![t] = {}]

\* What is at a path after an ignored remove_dir_all.
BestEffortRemove(tree) == {Absent, tree}

\* Files were made in or removed from these directories.
Touched(dirs) == dirty' = dirty \cup (dirs \ {Absent})

Note(es) == events' = events \cup es

Began(t, n) ==
    /\ pc[t] = "idle"
    /\ runs < MaxRuns
    /\ runs' = runs + 1
    /\ name' = [name EXCEPT ![t] = n]

Overlap(t) == IF \E u \in Tools \ {t} : pc[u] # "idle" THEN {"overlap"} ELSE {}

-----------------------------------------------------------------------------
(* The daemon: SurrealKV opens the live path, creating it if it is missing, *)
(* and what it commits is on disk.                                          *)

InWindow == \E t \in Tools : pc[t] \in {"sync", "swapOld", "swapNew"}

DaemonStart ==
    /\ daemon = Absent
    /\ db # Absent
    /\ daemon' = db
    /\ Note(IF InWindow THEN {"window"} ELSE {})
    /\ UNCHANGED <<paths, disk, files, backups, reported, dirty, clock, opVars,
                   runs, live>>

\* The files it creates are flushed; the entry of their directory is not.
DaemonCreate ==
    /\ daemon = Absent
    /\ db = Absent
    /\ clock < MaxVersion
    /\ clock' = clock + 1
    /\ \E d \in NewDir :
          /\ db' = d
          /\ files' = [files EXCEPT ![d] = Uniform(clock')]
          /\ dirty' = dirty \ {d}
          /\ live' = IF Absent \in live /\ old = Absent THEN live \cup {d} ELSE live
    /\ daemon' = db'
    /\ Note(IF InWindow THEN {"window"} ELSE {})
    /\ UNCHANGED <<tmp, old, disk, backups, reported, opVars, runs>>

\* Commits to a directory that has been removed are not followed.
DaemonWrite ==
    /\ daemon \in {db, old} \ {Absent}
    /\ clock < MaxVersion
    /\ clock' = clock + 1
    /\ files' = [files EXCEPT ![daemon] = Uniform(clock')]
    /\ UNCHANGED <<paths, disk, backups, reported, dirty, daemon, opVars, runs,
                   live, events>>

DaemonStop ==
    /\ daemon # Absent
    /\ daemon' = Absent
    /\ Note(IF \E t \in Tools : pc[t] = "backupCopy" THEN {"visit"} ELSE {})
    /\ UNCHANGED <<paths, disk, files, backups, reported, dirty, clock, opVars,
                   runs, live>>

-----------------------------------------------------------------------------
(* backup *)

\* Both checks pass and the backup directory is created, under a new name.
BackupBegin(t) ==
    \E n \in Names \ (Advertised \cup reported) :
        /\ Began(t, n)
        /\ ~LockIsHeld
        /\ db # Absent
        /\ Goto(t, "backupCopy")
        /\ left' = [left EXCEPT ![t] = Parts]
        /\ backups' = [backups EXCEPT ![n] = NoFiles]
        /\ Touched({n})
        /\ Note(Overlap(t))
        /\ UNCHANGED <<paths, disk, files, reported, daemon, clock, live>>

BackupCopy(t) ==
    /\ pc[t] = "backupCopy"
    /\ db # Absent
    /\ backups[name[t]] # Absent
    /\ \E p \in left[t] :
          /\ backups' = [backups EXCEPT ![name[t]][p] = files[db][p]]
          /\ left' = [left EXCEPT ![t] = @ \ {p}]
    /\ UNCHANGED <<paths, disk, files, reported, dirty, daemon, clock, pc, name,
                   runs, live, events>>

\* A copy error; the partial directory is removed.
BackupCopyFails(t) ==
    /\ pc[t] = "backupCopy"
    /\ left[t] # {}
    /\ \E rest \in BestEffortRemove(backups[name[t]]) :
          backups' = [backups EXCEPT ![name[t]] = rest]
    /\ Return(t)
    /\ UNCHANGED <<paths, disk, files, reported, dirty, daemon, clock, runs, live,
                   events>>

\* Faulty variant of BackupRecheck: the lock is not probed again.
BackupRecheckSkipped(t) ==
    /\ pc[t] = "backupCopy"
    /\ left[t] = {}
    /\ reported' = reported \cup {name[t]}
    /\ Return(t)
    /\ UNCHANGED <<paths, disk, files, backups, dirty, daemon, clock, runs, live,
                   events>>

\* The second probe: the backup is removed if a daemon is there, and reported
\* as valid otherwise.
BackupRecheck(t) ==
    /\ pc[t] = "backupCopy"
    /\ left[t] = {}
    /\ IF LockIsHeld
       THEN /\ \E rest \in BestEffortRemove(backups[name[t]]) :
                  backups' = [backups EXCEPT ![name[t]] = rest]
            /\ UNCHANGED reported
       ELSE /\ reported' = reported \cup {name[t]}
            /\ UNCHANGED backups
    /\ Return(t)
    /\ UNCHANGED <<paths, disk, files, dirty, daemon, clock, runs, live, events>>

-----------------------------------------------------------------------------
(* restore *)

\* Any advertised backup may be named.
RestoreBegin(t) ==
    \E n \in Advertised :
        /\ Began(t, n)
        /\ ~(db # Absent /\ LockIsHeld)
        /\ Goto(t, "cleanTmp")
        /\ Note(Overlap(t) \cup IF db = InPlace /\ db \in live THEN {} ELSE {"leftover"})
        /\ UNCHANGED <<paths, disk, files, backups, reported, dirty, daemon, clock,
                       left, live>>

\* Faulty variant of CleanTmp: a stale temp copy is left where it is.
CleanTmpSkipped(t) ==
    /\ pc[t] = "cleanTmp"
    /\ Goto(t, "cleanOld")
    /\ UNCHANGED <<paths, disk, files, backups, reported, dirty, daemon, clock,
                   name, left, runs, live, events>>

CleanTmp(t) ==
    /\ pc[t] = "cleanTmp"
    /\ tmp' = Absent
    /\ Touched({tmp})
    /\ Goto(t, "cleanOld")
    /\ UNCHANGED <<db, old, disk, files, backups, reported, daemon, clock, name,
                   left, runs, live, events>>

\* The stale .old directory is removed and the copy creates its target
\* (create_dir_all keeps what is there).
CleanOld(t) ==
    /\ pc[t] = "cleanOld"
    /\ old' = Absent
    /\ IF tmp # Absent
       THEN Touched({old, tmp}) /\ UNCHANGED <<tmp, files>>
       ELSE \E d \in NewDir :
                /\ tmp' = d
                /\ files' = [files EXCEPT ![d] = NoFiles]
                /\ Touched({old, d})
    /\ left' = [left EXCEPT ![t] = Parts]
    /\ Goto(t, "restoreCopy")
    /\ UNCHANGED <<db, disk, backups, reported, daemon, clock, name, runs, live,
                   events>>

RestoreCopy(t) ==
    /\ pc[t] = "restoreCopy"
    /\ tmp # Absent
    /\ backups[name[t]] # Absent
    /\ \E p \in left[t] :
          /\ files' = IF backups[name[t]][p] = 0 THEN files
                      ELSE [files EXCEPT ![tmp][p] = backups[name[t]][p]]
          /\ left' = [left EXCEPT ![t] = @ \ {p}]
    /\ UNCHANGED <<paths, disk, backups, reported, dirty, daemon, clock, pc, name,
                   runs, live, events>>

RestoreCopyFails(t) ==
    /\ pc[t] = "restoreCopy"
    /\ left[t] # {}
    /\ tmp' \in BestEffortRemove(tmp)
    /\ Touched({tmp})
    /\ Return(t)
    /\ UNCHANGED <<db, old, disk, files, backups, reported, daemon, clock, runs,
                   live, events>>

\* Faulty variant of RestoreRecheck: the lock is not probed after the copy.
RestoreRecheckSkipped(t) ==
    /\ pc[t] = "restoreCopy"
    /\ left[t] = {}
    /\ Goto(t, "sync")
    /\ UNCHANGED <<paths, disk, files, backups, reported, dirty, daemon, clock,
                   name, left, runs, live, events>>

\* The second probe: with a daemon there the restore stops and the temp copy
\* stays.
RestoreRecheck(t) ==
    /\ pc[t] = "restoreCopy"
    /\ left[t] = {}
    /\ IF LockIsHeld THEN Return(t)
       ELSE Goto(t, "sync") /\ UNCHANGED <<name, left>>
    /\ UNCHANGED <<paths, disk, files, backups, reported, dirty, daemon, clock,
                   runs, live, events>>

\* Faulty variant of Sync: sync_tree is not called.
SyncSkipped(t) ==
    /\ pc[t] = "sync"
    /\ Goto(t, "swapOld")
    /\ UNCHANGED <<paths, disk, files, backups, reported, dirty, daemon, clock,
                   name, left, runs, live, events>>

\* sync_tree over the temp copy.
Sync(t) ==
    /\ pc[t] = "sync"
    /\ tmp # Absent
    /\ dirty' = dirty \ {tmp}
    /\ Goto(t, "swapOld")
    /\ UNCHANGED <<paths, disk, files, backups, reported, daemon, clock, name,
                   left, runs, live, events>>

\* rename mercury.db -> mercury.old, if there is a live database.  A rename
\* onto a directory with files fails.
SwapOld(t) ==
    /\ pc[t] = "swapOld"
    /\ IF db = Absent THEN UNCHANGED paths
       ELSE /\ old = Absent
            /\ old' = db
            /\ db' = Absent
            /\ UNCHANGED tmp
    /\ Goto(t, "swapNew")
    /\ UNCHANGED <<disk, files, backups, reported, dirty, daemon, clock, name,
                   left, runs, live, events>>

SwapOldFails(t) ==
    /\ pc[t] = "swapOld"
    /\ db # Absent
    /\ tmp' \in BestEffortRemove(tmp)
    /\ Touched({tmp})
    /\ Return(t)
    /\ UNCHANGED <<db, old, disk, files, backups, reported, daemon, clock, runs,
                   live, events>>

\* rename mercury.restore-tmp -> mercury.db.
SwapNew(t) ==
    /\ pc[t] = "swapNew"
    /\ tmp # Absent
    /\ db = Absent
    /\ db' = tmp
    /\ tmp' = Absent
    /\ live' = live \cup {tmp}
    /\ Goto(t, "dropOld")
    /\ UNCHANGED <<old, disk, files, backups, reported, dirty, daemon, clock, name,
                   left, runs, events>>

\* That rename fails (a new daemon has created the directory, or an I/O error)
\* and the original is renamed back, which may fail for the same reasons.
SwapNewFails(t) ==
    /\ pc[t] = "swapNew"
    /\ \/ UNCHANGED <<db, old>>
       \/ /\ db = Absent
          /\ old # Absent
          /\ db' = old
          /\ old' = Absent
    /\ Return(t)
    /\ UNCHANGED <<tmp, disk, files, backups, reported, dirty, daemon, clock, runs,
                   live, events>>

\* The original is removed, errors ignored.
DropOld(t) ==
    /\ pc[t] = "dropOld"
    /\ old' \in BestEffortRemove(old)
    /\ Touched({old})
    /\ Goto(t, "flush")
    /\ UNCHANGED <<db, tmp, disk, files, backups, reported, daemon, clock, name,
                   left, runs, live, events>>

\* Faulty variant of Flush: the data directory is not flushed.
FlushSkipped(t) ==
    /\ pc[t] = "flush"
    /\ live' = Settled(InPlace, live)
    /\ Return(t)
    /\ UNCHANGED <<paths, disk, files, backups, reported, dirty, daemon, clock,
                   runs, events>>

\* The data directory is flushed and the restore is reported as done.
Flush(t) ==
    /\ pc[t] = "flush"
    /\ disk' = [db |-> db, tmp |-> tmp, old |-> old]
    /\ live' = Settled(InPlace, live)
    /\ Return(t)
    /\ UNCHANGED <<paths, files, backups, reported, dirty, daemon, clock, runs,
                   events>>

-----------------------------------------------------------------------------
\* The command is killed, or returns an error that cleans nothing up.
Crash(t) ==
    /\ pc[t] # "idle"
    /\ Return(t)
    /\ UNCHANGED <<paths, disk, files, backups, reported, dirty, daemon, clock,
                   runs, live, events>>

\* The operating system writes the data directory back on its own.
Writeback ==
    /\ disk' = [db |-> db, tmp |-> tmp, old |-> old]
    /\ live' = Settled(InPlace, live)
    /\ UNCHANGED <<paths, files, backups, reported, dirty, daemon, clock, opVars,
                   runs, events>>

\* The machine stops: every process is gone, the data directory is as it is on
\* disk, and a dirty directory has lost files, a backup perhaps its own entry.
\* A directory that lost files no longer counts as the operator's data.
PowerLoss ==
    /\ \E lost \in SUBSET Parts, gone \in SUBSET (dirty \cap Names) :
          /\ files' = [d \in Dirs |-> IF d \in dirty THEN Without(files[d], lost)
                                     ELSE files[d]]
          /\ backups' = [n \in Names |->
                            IF n \in gone \/ backups[n] = Absent THEN Absent
                            ELSE IF n \in dirty THEN Without(backups[n], lost)
                            ELSE backups[n]]
    /\ db' = disk.db /\ tmp' = disk.tmp /\ old' = disk.old
    /\ live' = Settled(InPlaceOnDisk,
                       live \ {d \in dirty \cap Dirs : files'[d] # files[d]})
    /\ Note(IF InPlaceOnDisk \in (live \cap dirty) \ {InPlace} THEN {"early"} ELSE {})
    /\ dirty' = {}
    /\ daemon' = Absent
    /\ pc' = [t \in Tools |-> "idle"]
    /\ name' = [t \in Tools |-> Absent]
    /\ left' = [t \in Tools |-> {}]
    /\ UNCHANGED <<disk, reported, clock, runs>>

Backup(t) ==
    BackupBegin(t) \/ BackupCopy(t) \/ BackupCopyFails(t) \/ BackupRecheck(t)

Restore(t) ==
    \/ RestoreBegin(t) \/ CleanTmp(t) \/ CleanOld(t)
    \/ RestoreCopy(t) \/ RestoreCopyFails(t) \/ RestoreRecheck(t)
    \/ Sync(t) \/ SwapOld(t) \/ SwapOldFails(t)
    \/ SwapNew(t) \/ SwapNewFails(t) \/ DropOld(t) \/ Flush(t)

Daemon == DaemonStart \/ DaemonCreate \/ DaemonWrite \/ DaemonStop

Next ==
    \/ Daemon
    \/ Writeback
    \/ PowerLoss
    \/ \E t \in Tools : Backup(t) \/ Restore(t) \/ Crash(t)

Spec == Init /\ [][Next]_vars
-----------------------------------------------------------------------------
\* The operator's data is at the live path or beside it.
DataIsFound ==
    IF db = Absent /\ old = Absent THEN Absent \in live
    ELSE {db, old} \cap (live \ {Absent}) # {}

\* The original data, or from the swap on its replacement, survives a failure
\* at any point of a restore, a power loss that takes an unflushed swap back
\* included, as long as the restore started with the data at the live path, had
\* no other command beside it, and the power was not lost between the removal
\* of the original and the flush.
OriginalSurvives ==
    {"overlap", "leftover", "early"} \cap events = {} => DataIsFound

\* A running daemon's directory is never moved or removed under it, unless the
\* daemon started after the restore's second lock probe.
DaemonKeepsItsDirectory ==
    "window" \notin events => daemon \in {Absent, db}

\* What a restore puts at the live path is the whole backup and nothing else:
\* no file of an earlier, interrupted restore.
RestoreInstallsTheBackup ==
    [][\A t \in Tools :
          pc[t] = "swapNew" /\ pc'[t] = "dropOld" /\ "overlap" \notin events
            => files'[db'] = backups[name[t]]]_vars

\* A backup reported as valid is an exact copy of the live database, unless a
\* daemon came and went during the copy or another command ran beside it.
ReportedBackupIsExact ==
    [][\A n \in reported' \ reported :
          {"overlap", "visit"} \cap events = {} => backups'[n] = files[db]]_vars

\* What an operator finds when everything stops now.
Recoverable == IF InPlace = Absent THEN Absent ELSE files[InPlace]

\* The swap is atomic to someone who looks only at what is recoverable: each
\* step of each command, failure and crash leaves it alone or replaces it by
\* a whole backup, and a power loss may take the swap back, untouched, until
\* it is flushed; otherwise only a commit of the daemon changes it.
AtomicReplace ==
    [][{"overlap", "leftover", "early"} \cap events' = {} =>
          \/ Recoverable' = Recoverable
          \/ clock' # clock
          \/ \E n \in Names : Recoverable' = backups[n]
          \/ InPlace' \in live \cap live']_vars

\* backup.rs on restore: "The live database is never deleted before its
\* replacement is fully materialized on disk, so a crash mid-restore cannot
\* lose the original data".  Power losses after the swap are left to the next.
CrashCannotLoseOriginal == "early" \notin events => DataIsFound

\* backup.rs on restore: "The copied tree and the swap renames are fsync'd so
\* that guarantee survives a crash".
SwapSurvivesPowerLoss == {"overlap", "leftover"} \cap events = {} => DataIsFound

\* backup.rs on the second probe of backup: "so we never advertise an
\* inconsistent backup as valid".
ReportedBackupIsConsistent ==
    [][\A n \in reported' \ reported :
          \E v \in 1 .. MaxVersion : backups'[n] = Uniform(v)]_vars
=============================================================================
