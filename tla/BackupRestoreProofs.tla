------------------------ MODULE BackupRestoreProofs -------------------------
(***************************************************************************)
(* The safety properties of BackupRestore for any number of directories,   *)
(* files, backups and commands, and for any number of crashes and power    *)
(* losses.                                                                 *)
(***************************************************************************)
EXTENDS BackupRestore, TLAPS

USE DEF Goto, Return, paths, opVars

LEMMA UniformIsTree == ASSUME NEW v \in 0 .. MaxVersion PROVE Uniform(v) \in Tree
BY DEF Uniform, Tree

LEMMA NoFilesIsTree == NoFiles \in Tree
BY BackupAssumption DEF NoFiles, Tree

\* A tree that loses files is still a tree.
LEMMA WithoutIsTree ==
    ASSUME NEW tree \in Tree, NEW lost \in SUBSET Parts PROVE Without(tree, lost) \in Tree
BY BackupAssumption DEF Without, Tree

\* Whatever directory mkdir returns, nothing refers to it.
LEMMA NewDirIsFresh == NewDir \subseteq Fresh /\ Fresh \subseteq Dirs
<1>1. Fresh # {} => (CHOOSE d \in Fresh : TRUE) \in Fresh
  OBVIOUS
<1> QED
  BY <1>1 DEF NewDir, Fresh

\* Type correctness is inductive by itself.
LEMMA InitTypeOK == Init => TypeOK
<1> SUFFICES ASSUME Init PROVE TypeOK
  OBVIOUS
<1> USE BackupAssumption DEF Init
<1>1. Uniform(1) \in Tree
  BY UniformIsTree
<1>2. db \in MaybeDir /\ live \subseteq MaybeDir
  BY DEF MaybeDir
<1>3. disk \in [db : MaybeDir, tmp : MaybeDir, old : MaybeDir]
  BY <1>2 DEF MaybeDir
<1>4. files \in [Dirs -> Tree]
  BY <1>1, NoFilesIsTree
<1>5. backups \in [Names -> Tree \cup {Absent}]
  <2>1. PICK n \in Names, rest \in {Absent} \cup {Without(Uniform(1), {p}) : p \in Parts} :
          backups = [m \in Names |-> IF m = n THEN Uniform(1) ELSE rest]
    OBVIOUS
  <2>2. rest \in Tree \cup {Absent}
    BY <1>1, WithoutIsTree
  <2> QED
    BY <1>1, <2>1, <2>2
<1> QED
  BY <1>2, <1>3, <1>4, <1>5 DEF TypeOK, Labels, MaybeDir

\* Every action keeps the types.
LEMMA NextTypeOK ==
    TypeOK /\ [Next]_vars => TypeOK'
<1> SUFFICES ASSUME TypeOK, [Next]_vars PROVE TypeOK'
  OBVIOUS
<1> USE BackupAssumption DEF TypeOK, Labels, MaybeDir, Note, Events, Began,
        Overlap, Touched, BestEffortRemove, Settled
<1>1. ASSUME DaemonStart PROVE TypeOK'
  BY <1>1 DEF DaemonStart, Note
<1>2. ASSUME DaemonCreate PROVE TypeOK'
  <2>1. clock' \in 0 .. MaxVersion
    BY <1>2 DEF DaemonCreate
  <2>2. PICK d \in NewDir :
          /\ db' = d
          /\ files' = [files EXCEPT ![d] = Uniform(clock')]
          /\ dirty' = dirty \ {d}
          /\ live' = IF Absent \in live /\ old = Absent THEN live \cup {d} ELSE live
    BY <1>2 DEF DaemonCreate
  <2>3. d \in Dirs /\ Uniform(clock') \in Tree
    BY <2>1, NewDirIsFresh, UniformIsTree
  <2> QED
    BY <1>2, <2>1, <2>2, <2>3 DEF DaemonCreate
<1>3. ASSUME DaemonWrite PROVE TypeOK'
  <2>1. clock' \in 0 .. MaxVersion
    BY <1>3 DEF DaemonWrite
  <2>2. Uniform(clock') \in Tree
    BY <2>1, UniformIsTree
  <2> QED
    BY <1>3, <2>1, <2>2 DEF DaemonWrite
<1>4. ASSUME DaemonStop PROVE TypeOK'
  BY <1>4 DEF DaemonStop, Note
<1>5. ASSUME Writeback PROVE TypeOK'
  BY <1>5 DEF Writeback, InPlace
<1>6. ASSUME PowerLoss PROVE TypeOK'
  <2>1. PICK lost \in SUBSET Parts, gone \in SUBSET (dirty \cap Names) :
          /\ files' = [d \in Dirs |-> IF d \in dirty THEN Without(files[d], lost)
                                     ELSE files[d]]
          /\ backups' = [n \in Names |->
                            IF n \in gone \/ backups[n] = Absent THEN Absent
                            ELSE IF n \in dirty THEN Without(backups[n], lost)
                            ELSE backups[n]]
    BY <1>6 DEF PowerLoss
  <2>2. files' \in [Dirs -> Tree]
    BY <2>1, WithoutIsTree
  <2>3. backups' \in [Names -> Tree \cup {Absent}]
    BY <2>1, WithoutIsTree
  <2>4. live' \subseteq MaybeDir
    BY <1>6 DEF PowerLoss, InPlaceOnDisk
  <2> QED
    BY <1>6, <2>2, <2>3, <2>4 DEF PowerLoss
<1>7. ASSUME NEW t \in Tools, BackupBegin(t) PROVE TypeOK'
  <2>1. PICK n \in Names :
          /\ Began(t, n)
          /\ backups' = [backups EXCEPT ![n] = NoFiles]
          /\ Touched({n})
    BY <1>7 DEF BackupBegin
  <2>2. backups' \in [Names -> Tree \cup {Absent}]
    BY <2>1, NoFilesIsTree
  <2> QED
    BY <1>7, <2>1, <2>2 DEF BackupBegin
<1>8. ASSUME NEW t \in Tools, BackupCopy(t) PROVE TypeOK'
  <2>1. backups' \in [Names -> Tree \cup {Absent}]
    <3>1. PICK p \in left[t] : backups' = [backups EXCEPT ![name[t]][p] = files[db][p]]
      BY <1>8 DEF BackupCopy
    <3>2. name[t] \in Names /\ backups[name[t]] \in Tree /\ files[db] \in Tree
      BY <1>8 DEF BackupCopy
    <3>3. [backups[name[t]] EXCEPT ![p] = files[db][p]] \in Tree
      BY <3>2 DEF Tree
    <3> QED
      BY <3>1, <3>2, <3>3
  <2> QED
    BY <1>8, <2>1 DEF BackupCopy
<1>9. ASSUME NEW t \in Tools, BackupCopyFails(t) PROVE TypeOK'
  BY <1>9 DEF BackupCopyFails, BestEffortRemove
<1>10. ASSUME NEW t \in Tools, BackupRecheck(t) PROVE TypeOK'
  BY <1>10 DEF BackupRecheck, LockIsHeld
<1>11. ASSUME NEW t \in Tools, RestoreBegin(t) PROVE TypeOK'
  BY <1>11 DEF RestoreBegin, Advertised
<1>12. ASSUME NEW t \in Tools, CleanTmp(t) PROVE TypeOK'
  BY <1>12 DEF CleanTmp, Touched
<1>13. ASSUME NEW t \in Tools, CleanOld(t) PROVE TypeOK'
  <2>1. tmp' \in MaybeDir /\ files' \in [Dirs -> Tree] /\ dirty' \subseteq Dirs \cup Names
    BY <1>13, NewDirIsFresh, NoFilesIsTree DEF CleanOld
  <2> QED
    BY <1>13, <2>1 DEF CleanOld
<1>14. ASSUME NEW t \in Tools, RestoreCopy(t) PROVE TypeOK'
  <2>1. files' \in [Dirs -> Tree]
    <3> DEFINE source == backups[name[t]]
    <3>1. source \in Tree /\ tmp \in Dirs /\ files[tmp] \in Tree
      BY <1>14 DEF RestoreCopy
    <3>2. PICK p \in left[t] :
            files' = IF source[p] = 0 THEN files
                     ELSE [files EXCEPT ![tmp][p] = source[p]]
      BY <1>14 DEF RestoreCopy
    <3>3. [files[tmp] EXCEPT ![p] = source[p]] \in Tree
      BY <3>1 DEF Tree
    <3> HIDE DEF source
    <3> QED
      BY <3>1, <3>2, <3>3
  <2>2. left' \in [Tools -> SUBSET Parts]
    BY <1>14 DEF RestoreCopy
  <2> QED
    BY <1>14, <2>1, <2>2 DEF RestoreCopy
<1>15. ASSUME NEW t \in Tools, RestoreCopyFails(t) PROVE TypeOK'
  BY <1>15 DEF RestoreCopyFails, BestEffortRemove
<1>16. ASSUME NEW t \in Tools, RestoreRecheck(t) PROVE TypeOK'
  BY <1>16 DEF RestoreRecheck, LockIsHeld
<1>17. ASSUME NEW t \in Tools, Sync(t) PROVE TypeOK'
  BY <1>17 DEF Sync
<1>18. ASSUME NEW t \in Tools, SwapOld(t) PROVE TypeOK'
  BY <1>18 DEF SwapOld
<1>19. ASSUME NEW t \in Tools, SwapOldFails(t) PROVE TypeOK'
  BY <1>19 DEF SwapOldFails, BestEffortRemove
<1>20. ASSUME NEW t \in Tools, SwapNew(t) PROVE TypeOK'
  BY <1>20 DEF SwapNew
<1>21. ASSUME NEW t \in Tools, SwapNewFails(t) PROVE TypeOK'
  BY <1>21 DEF SwapNewFails
<1>22. ASSUME NEW t \in Tools, DropOld(t) PROVE TypeOK'
  BY <1>22 DEF DropOld, BestEffortRemove
<1>23. ASSUME NEW t \in Tools, Flush(t) PROVE TypeOK'
  BY <1>23 DEF Flush, InPlace
<1>24. ASSUME NEW t \in Tools, Crash(t) PROVE TypeOK'
  BY <1>24 DEF Crash
<1>25. CASE UNCHANGED vars
  BY <1>25 DEF vars
<1> QED
  BY <1>1, <1>2, <1>3, <1>4, <1>5, <1>6, <1>7, <1>8, <1>9, <1>10, <1>11,
     <1>12, <1>13, <1>14, <1>15, <1>16, <1>17, <1>18, <1>19, <1>20, <1>21,
     <1>22, <1>23, <1>24, <1>25
     DEF Next, Daemon, Backup, Restore

\* Type correctness of the data directory and of every command.
THEOREM SpecTypeOK == Spec => []TypeOK
BY InitTypeOK, NextTypeOK, PTL DEF Spec
-----------------------------------------------------------------------------
\* No directory has two names, and the temp copy is never what the disk names
\* as the live database or as the original.
OneNameEach ==
    /\ db # Absent => db # tmp /\ db # old
    /\ tmp # Absent => tmp # old /\ tmp \notin {disk.db, disk.old}
    /\ disk.db # Absent => disk.db # disk.tmp /\ disk.db # disk.old
    /\ disk.tmp # Absent => disk.tmp # disk.old

\* Without two commands at once, at most one command is running.
SoleCommand ==
    "overlap" \notin events =>
        \A t, u \in Tools : pc[t] # "idle" /\ pc[u] # "idle" => t = u

\* From the second lock probe to the swap no daemon runs, unless one started
\* then; and a daemon whose directory was not swapped is at the live path.
DaemonOutsideWindow ==
    "window" \notin events =>
        /\ daemon \in {Absent, db}
        /\ InWindow => daemon = Absent

\* The parts a backup has copied so far are those of the live database, as long
\* as no daemon has the database open or has closed it during the copy.
CopyFollowsDb ==
    {"overlap", "visit"} \cap events = {} =>
        \A t \in Tools : pc[t] = "backupCopy" =>
            /\ db # Absent
            /\ backups[name[t]] \in Tree
            /\ ~LockIsHeld =>
                  \A p \in Parts \ left[t] : backups[name[t]][p] = files[db][p]

\* The temp copy holds the parts of the backup copied so far and no others; it
\* is the whole backup once the copy is done.
TempFollowsBackup ==
    "overlap" \notin events =>
        \A t \in Tools :
            /\ pc[t] \in {"cleanTmp", "cleanOld", "restoreCopy"} =>
                  backups[name[t]] \in Tree
            /\ pc[t] = "cleanOld" => tmp = Absent
            /\ pc[t] = "restoreCopy" =>
                  /\ tmp # Absent
                  /\ \A p \in Parts :
                        files[tmp][p] = IF p \in left[t] THEN 0 ELSE backups[name[t]][p]
            /\ pc[t] \in {"sync", "swapOld", "swapNew"} =>
                  tmp # Absent /\ files[tmp] = backups[name[t]]

Undisturbed == {"overlap", "leftover", "early"} \cap events = {}

\* Where the data is at each step of a restore.
DataInPlace ==
    Undisturbed =>
        /\ DataIsFound
        /\ db \notin dirty
        /\ old \in dirty => db \in live \ {Absent}
        /\ \A t \in Tools :
              /\ pc[t] \in {"cleanTmp", "cleanOld", "restoreCopy", "sync", "swapOld"}
                    => db \in live /\ db = InPlace
              /\ pc[t] \in {"restoreCopy", "sync", "swapOld"} => old = Absent
              /\ pc[t] \in {"swapOld", "swapNew"} => tmp \notin dirty
              /\ pc[t] = "swapNew" /\ db = Absent => old \in live
              /\ pc[t] \in {"dropOld", "flush"} => db \in live \ {Absent}

\* The original comes back although its removal has begun.
RemovedOnDisk == InPlaceOnDisk \in (live \cap dirty) \ {InPlace}

\* What a power loss brings back is the data, whole; only a directory that a
\* daemon created beside it may be in its place.
DataOnDisk ==
    Undisturbed =>
        \/ RemovedOnDisk
        \/ InPlaceOnDisk \in live \ dirty
        \/ /\ db \notin live /\ InPlaceOnDisk = db /\ db # Absent
           /\ disk.old \in live \ (dirty \cup {Absent})
-----------------------------------------------------------------------------
\* A new directory has no name yet, and a rename moves the name.
LEMMA NextOneNameEach ==
    TypeOK /\ OneNameEach /\ [Next]_vars => OneNameEach'
<1> SUFFICES ASSUME TypeOK, OneNameEach, [Next]_vars PROVE OneNameEach'
  OBVIOUS
<1> USE BackupAssumption DEF TypeOK, OneNameEach
<1>1. ASSUME DaemonStart PROVE OneNameEach'
  BY <1>1 DEF DaemonStart, Note
<1>2. ASSUME DaemonCreate PROVE OneNameEach'
  <2>1. NewDir \subseteq Fresh
    BY NewDirIsFresh
  <2> QED
    BY <1>2, <2>1 DEF DaemonCreate, Fresh
<1>3. ASSUME DaemonWrite PROVE OneNameEach'
  BY <1>3 DEF DaemonWrite
<1>4. ASSUME DaemonStop PROVE OneNameEach'
  BY <1>4 DEF DaemonStop, Note
<1>5. ASSUME Writeback PROVE OneNameEach'
  BY <1>5 DEF Writeback
<1>6. ASSUME PowerLoss PROVE OneNameEach'
  BY <1>6 DEF PowerLoss, Note
<1>7. ASSUME NEW t \in Tools, BackupBegin(t) PROVE OneNameEach'
  BY <1>7 DEF BackupBegin, Began, Note, Overlap, LockIsHeld, Advertised
<1>8. ASSUME NEW t \in Tools, BackupCopy(t) PROVE OneNameEach'
  BY <1>8 DEF BackupCopy
<1>9. ASSUME NEW t \in Tools, BackupCopyFails(t) PROVE OneNameEach'
  BY <1>9 DEF BackupCopyFails, BestEffortRemove
<1>10. ASSUME NEW t \in Tools, BackupRecheck(t) PROVE OneNameEach'
  BY <1>10 DEF BackupRecheck, LockIsHeld
<1>11. ASSUME NEW t \in Tools, RestoreBegin(t) PROVE OneNameEach'
  BY <1>11 DEF RestoreBegin, Began, Note, Overlap, LockIsHeld, Advertised
<1>12. ASSUME NEW t \in Tools, CleanTmp(t) PROVE OneNameEach'
  BY <1>12 DEF CleanTmp, Touched
<1>13. ASSUME NEW t \in Tools, CleanOld(t) PROVE OneNameEach'
  <2>1. NewDir \subseteq Fresh
    BY NewDirIsFresh
  <2> QED
    BY <1>13, <2>1 DEF CleanOld, Fresh
<1>14. ASSUME NEW t \in Tools, RestoreCopy(t) PROVE OneNameEach'
  BY <1>14 DEF RestoreCopy
<1>15. ASSUME NEW t \in Tools, RestoreCopyFails(t) PROVE OneNameEach'
  BY <1>15 DEF RestoreCopyFails, BestEffortRemove
<1>16. ASSUME NEW t \in Tools, RestoreRecheck(t) PROVE OneNameEach'
  BY <1>16 DEF RestoreRecheck, LockIsHeld
<1>17. ASSUME NEW t \in Tools, Sync(t) PROVE OneNameEach'
  BY <1>17 DEF Sync
<1>18. ASSUME NEW t \in Tools, SwapOld(t) PROVE OneNameEach'
  BY <1>18 DEF SwapOld
<1>19. ASSUME NEW t \in Tools, SwapOldFails(t) PROVE OneNameEach'
  BY <1>19 DEF SwapOldFails, BestEffortRemove
<1>20. ASSUME NEW t \in Tools, SwapNew(t) PROVE OneNameEach'
  BY <1>20 DEF SwapNew
<1>21. ASSUME NEW t \in Tools, SwapNewFails(t) PROVE OneNameEach'
  BY <1>21 DEF SwapNewFails
<1>22. ASSUME NEW t \in Tools, DropOld(t) PROVE OneNameEach'
  BY <1>22 DEF DropOld, BestEffortRemove
<1>23. ASSUME NEW t \in Tools, Flush(t) PROVE OneNameEach'
  BY <1>23 DEF Flush
<1>24. ASSUME NEW t \in Tools, Crash(t) PROVE OneNameEach'
  BY <1>24 DEF Crash
<1>25. CASE UNCHANGED vars
  BY <1>25 DEF vars
<1> QED
  BY <1>1, <1>2, <1>3, <1>4, <1>5, <1>6, <1>7, <1>8, <1>9, <1>10, <1>11,
     <1>12, <1>13, <1>14, <1>15, <1>16, <1>17, <1>18, <1>19, <1>20, <1>21,
     <1>22, <1>23, <1>24, <1>25
     DEF Next, Daemon, Backup, Restore

\* A command that begins beside another is noted as an overlap.
LEMMA NextSoleCommand ==
    TypeOK /\ SoleCommand /\ [Next]_vars => SoleCommand'
<1> SUFFICES ASSUME TypeOK, SoleCommand, [Next]_vars PROVE SoleCommand'
  OBVIOUS
<1> USE BackupAssumption DEF TypeOK, SoleCommand
<1>1. ASSUME DaemonStart PROVE SoleCommand'
  BY <1>1 DEF DaemonStart, Note
<1>2. ASSUME DaemonCreate PROVE SoleCommand'
  BY <1>2 DEF DaemonCreate, Note
<1>3. ASSUME DaemonWrite PROVE SoleCommand'
  BY <1>3 DEF DaemonWrite
<1>4. ASSUME DaemonStop PROVE SoleCommand'
  BY <1>4 DEF DaemonStop, Note
<1>5. ASSUME Writeback PROVE SoleCommand'
  BY <1>5 DEF Writeback
<1>6. ASSUME PowerLoss PROVE SoleCommand'
  BY <1>6 DEF PowerLoss, Note
<1>7. ASSUME NEW t \in Tools, BackupBegin(t) PROVE SoleCommand'
  BY <1>7 DEF BackupBegin, Began, Note, Overlap, LockIsHeld, Advertised
<1>8. ASSUME NEW t \in Tools, BackupCopy(t) PROVE SoleCommand'
  BY <1>8 DEF BackupCopy
<1>9. ASSUME NEW t \in Tools, BackupCopyFails(t) PROVE SoleCommand'
  BY <1>9 DEF BackupCopyFails, BestEffortRemove
<1>10. ASSUME NEW t \in Tools, BackupRecheck(t) PROVE SoleCommand'
  BY <1>10 DEF BackupRecheck, LockIsHeld
<1>11. ASSUME NEW t \in Tools, RestoreBegin(t) PROVE SoleCommand'
  BY <1>11 DEF RestoreBegin, Began, Note, Overlap, LockIsHeld, Advertised
<1>12. ASSUME NEW t \in Tools, CleanTmp(t) PROVE SoleCommand'
  BY <1>12 DEF CleanTmp, Touched
<1>13. ASSUME NEW t \in Tools, CleanOld(t) PROVE SoleCommand'
  BY <1>13 DEF CleanOld, Touched
<1>14. ASSUME NEW t \in Tools, RestoreCopy(t) PROVE SoleCommand'
  BY <1>14 DEF RestoreCopy
<1>15. ASSUME NEW t \in Tools, RestoreCopyFails(t) PROVE SoleCommand'
  BY <1>15 DEF RestoreCopyFails, BestEffortRemove
<1>16. ASSUME NEW t \in Tools, RestoreRecheck(t) PROVE SoleCommand'
  BY <1>16 DEF RestoreRecheck, LockIsHeld
<1>17. ASSUME NEW t \in Tools, Sync(t) PROVE SoleCommand'
  BY <1>17 DEF Sync
<1>18. ASSUME NEW t \in Tools, SwapOld(t) PROVE SoleCommand'
  BY <1>18 DEF SwapOld
<1>19. ASSUME NEW t \in Tools, SwapOldFails(t) PROVE SoleCommand'
  BY <1>19 DEF SwapOldFails, BestEffortRemove
<1>20. ASSUME NEW t \in Tools, SwapNew(t) PROVE SoleCommand'
  BY <1>20 DEF SwapNew
<1>21. ASSUME NEW t \in Tools, SwapNewFails(t) PROVE SoleCommand'
  BY <1>21 DEF SwapNewFails
<1>22. ASSUME NEW t \in Tools, DropOld(t) PROVE SoleCommand'
  BY <1>22 DEF DropOld, BestEffortRemove
<1>23. ASSUME NEW t \in Tools, Flush(t) PROVE SoleCommand'
  BY <1>23 DEF Flush
<1>24. ASSUME NEW t \in Tools, Crash(t) PROVE SoleCommand'
  BY <1>24 DEF Crash
<1>25. CASE UNCHANGED vars
  BY <1>25 DEF vars
<1> QED
  BY <1>1, <1>2, <1>3, <1>4, <1>5, <1>6, <1>7, <1>8, <1>9, <1>10, <1>11,
     <1>12, <1>13, <1>14, <1>15, <1>16, <1>17, <1>18, <1>19, <1>20, <1>21,
     <1>22, <1>23, <1>24, <1>25
     DEF Next, Daemon, Backup, Restore

\* A daemon found by the second probe stops the restore; a later one is noted.
LEMMA NextDaemonOutsideWindow ==
    TypeOK /\ DaemonOutsideWindow /\ [Next]_vars => DaemonOutsideWindow'
<1> SUFFICES ASSUME TypeOK, DaemonOutsideWindow, [Next]_vars PROVE
                    DaemonOutsideWindow'
  OBVIOUS
<1> USE BackupAssumption DEF TypeOK, DaemonOutsideWindow, InWindow
<1>1. ASSUME DaemonStart PROVE DaemonOutsideWindow'
  BY <1>1 DEF DaemonStart, Note
<1>2. ASSUME DaemonCreate PROVE DaemonOutsideWindow'
  BY <1>2 DEF DaemonCreate, Note
<1>3. ASSUME DaemonWrite PROVE DaemonOutsideWindow'
  BY <1>3 DEF DaemonWrite
<1>4. ASSUME DaemonStop PROVE DaemonOutsideWindow'
  BY <1>4 DEF DaemonStop, Note
<1>5. ASSUME Writeback PROVE DaemonOutsideWindow'
  BY <1>5 DEF Writeback
<1>6. ASSUME PowerLoss PROVE DaemonOutsideWindow'
  BY <1>6 DEF PowerLoss, Note
<1>7. ASSUME NEW t \in Tools, BackupBegin(t) PROVE DaemonOutsideWindow'
  BY <1>7 DEF BackupBegin, Began, Note, Overlap, LockIsHeld, Advertised
<1>8. ASSUME NEW t \in Tools, BackupCopy(t) PROVE DaemonOutsideWindow'
  BY <1>8 DEF BackupCopy
<1>9. ASSUME NEW t \in Tools, BackupCopyFails(t) PROVE DaemonOutsideWindow'
  BY <1>9 DEF BackupCopyFails, BestEffortRemove
<1>10. ASSUME NEW t \in Tools, BackupRecheck(t) PROVE DaemonOutsideWindow'
  BY <1>10 DEF BackupRecheck, LockIsHeld
<1>11. ASSUME NEW t \in Tools, RestoreBegin(t) PROVE DaemonOutsideWindow'
  BY <1>11 DEF RestoreBegin, Began, Note, Overlap, LockIsHeld, Advertised
<1>12. ASSUME NEW t \in Tools, CleanTmp(t) PROVE DaemonOutsideWindow'
  BY <1>12 DEF CleanTmp, Touched
<1>13. ASSUME NEW t \in Tools, CleanOld(t) PROVE DaemonOutsideWindow'
  BY <1>13 DEF CleanOld, Touched
<1>14. ASSUME NEW t \in Tools, RestoreCopy(t) PROVE DaemonOutsideWindow'
  BY <1>14 DEF RestoreCopy
<1>15. ASSUME NEW t \in Tools, RestoreCopyFails(t) PROVE DaemonOutsideWindow'
  BY <1>15 DEF RestoreCopyFails, BestEffortRemove
<1>16. ASSUME NEW t \in Tools, RestoreRecheck(t) PROVE DaemonOutsideWindow'
  BY <1>16 DEF RestoreRecheck, LockIsHeld
<1>17. ASSUME NEW t \in Tools, Sync(t) PROVE DaemonOutsideWindow'
  BY <1>17 DEF Sync
<1>18. ASSUME NEW t \in Tools, SwapOld(t) PROVE DaemonOutsideWindow'
  BY <1>18 DEF SwapOld
<1>19. ASSUME NEW t \in Tools, SwapOldFails(t) PROVE DaemonOutsideWindow'
  BY <1>19 DEF SwapOldFails, BestEffortRemove
<1>20. ASSUME NEW t \in Tools, SwapNew(t) PROVE DaemonOutsideWindow'
  BY <1>20 DEF SwapNew
<1>21. ASSUME NEW t \in Tools, SwapNewFails(t) PROVE DaemonOutsideWindow'
  BY <1>21 DEF SwapNewFails
<1>22. ASSUME NEW t \in Tools, DropOld(t) PROVE DaemonOutsideWindow'
  BY <1>22 DEF DropOld, BestEffortRemove
<1>23. ASSUME NEW t \in Tools, Flush(t) PROVE DaemonOutsideWindow'
  BY <1>23 DEF Flush
<1>24. ASSUME NEW t \in Tools, Crash(t) PROVE DaemonOutsideWindow'
  BY <1>24 DEF Crash
<1>25. CASE UNCHANGED vars
  BY <1>25 DEF vars
<1> QED
  BY <1>1, <1>2, <1>3, <1>4, <1>5, <1>6, <1>7, <1>8, <1>9, <1>10, <1>11,
     <1>12, <1>13, <1>14, <1>15, <1>16, <1>17, <1>18, <1>19, <1>20, <1>21,
     <1>22, <1>23, <1>24, <1>25
     DEF Next, Daemon, Backup, Restore

\* Only a daemon at the live path changes what a backup copies.
LEMMA NextCopyFollowsDb ==
    TypeOK /\ OneNameEach /\ SoleCommand /\ CopyFollowsDb /\ [Next]_vars =>
      CopyFollowsDb'
<1> SUFFICES ASSUME TypeOK, OneNameEach, SoleCommand, CopyFollowsDb, [Next]_vars
                    PROVE CopyFollowsDb'
  OBVIOUS
<1> USE BackupAssumption DEF TypeOK, OneNameEach, SoleCommand, CopyFollowsDb,
        LockIsHeld
<1>1. ASSUME DaemonStart PROVE CopyFollowsDb'
  BY <1>1 DEF DaemonStart, Note
<1>2. ASSUME DaemonCreate PROVE CopyFollowsDb'
  BY <1>2 DEF DaemonCreate, Note
<1>3. ASSUME DaemonWrite PROVE CopyFollowsDb'
  <2>1. CASE daemon = db
    BY <1>3, <2>1 DEF DaemonWrite
  <2>2. CASE daemon = old /\ daemon # db
    <3>1. db \in Dirs => files'[db] = files[db]
      BY <1>3, <2>2 DEF DaemonWrite
    <3> QED
      BY <1>3, <2>2, <3>1 DEF DaemonWrite, MaybeDir
  <2> QED
    BY <1>3, <2>1, <2>2 DEF DaemonWrite
<1>4. ASSUME DaemonStop PROVE CopyFollowsDb'
  BY <1>4 DEF DaemonStop, Note
<1>5. ASSUME Writeback PROVE CopyFollowsDb'
  BY <1>5 DEF Writeback
<1>6. ASSUME PowerLoss PROVE CopyFollowsDb'
  BY <1>6 DEF PowerLoss, Note
<1>7. ASSUME NEW t \in Tools, BackupBegin(t) PROVE CopyFollowsDb'
  <2> SUFFICES ASSUME {"overlap", "visit"} \cap events' = {},
                      NEW u \in Tools, pc'[u] = "backupCopy"
               PROVE  /\ db' # Absent
                      /\ backups'[name'[u]] \in Tree
                      /\ \A p \in Parts \ left'[u] :
                            backups'[name'[u]][p] = files'[db'][p]
    OBVIOUS
  <2>1. u = t
    BY <1>7 DEF BackupBegin, Note, Overlap
  <2>2. left'[t] = Parts /\ db' # Absent
    BY <1>7 DEF BackupBegin
  <2>3. backups'[name'[t]] = NoFiles
    BY <1>7 DEF BackupBegin, Began
  <2> QED
    BY <2>1, <2>2, <2>3, NoFilesIsTree
<1>8. ASSUME NEW t \in Tools, BackupCopy(t) PROVE CopyFollowsDb'
  <2> SUFFICES ASSUME {"overlap", "visit"} \cap events = {}
               PROVE  CopyFollowsDb'
    BY <1>8 DEF BackupCopy
  <2> DEFINE source == files[db]
  <2>1. PICK p \in left[t] :
          /\ backups' = [backups EXCEPT ![name[t]][p] = source[p]]
          /\ left' = [left EXCEPT ![t] = @ \ {p}]
    BY <1>8 DEF BackupCopy
  <2>2. name[t] \in Names /\ backups[name[t]] \in Tree /\ source \in Tree /\ p \in Parts
    BY <1>8 DEF BackupCopy, MaybeDir
  <2>3. backups'[name[t]] = [backups[name[t]] EXCEPT ![p] = source[p]]
    BY <2>1, <2>2
  <2>4. backups'[name[t]] \in Tree
    BY <2>2, <2>3 DEF Tree
  <2>5. ASSUME ~LockIsHeld, NEW q \in Parts \ left'[t]
        PROVE  backups'[name[t]][q] = source[q]
    <3>1. q = p \/ q \in Parts \ left[t]
      BY <2>1, <2>5
    <3>2. backups[name[t]][q] = source[q] \/ q = p
      BY <1>8, <2>5, <3>1 DEF BackupCopy
    <3> QED
      BY <2>2, <2>3, <3>2 DEF Tree
  <2>6. \A u \in Tools : pc'[u] = "backupCopy" => u = t
    BY <1>8 DEF BackupCopy
  <2>7. UNCHANGED <<db, daemon, files, name>> /\ db # Absent
    BY <1>8 DEF BackupCopy
  <2> QED
    BY <2>2, <2>4, <2>5, <2>6, <2>7
<1>9. ASSUME NEW t \in Tools, BackupCopyFails(t) PROVE CopyFollowsDb'
  BY <1>9 DEF BackupCopyFails, BestEffortRemove
<1>10. ASSUME NEW t \in Tools, BackupRecheck(t) PROVE CopyFollowsDb'
  BY <1>10 DEF BackupRecheck, LockIsHeld
<1>11. ASSUME NEW t \in Tools, RestoreBegin(t) PROVE CopyFollowsDb'
  BY <1>11 DEF RestoreBegin, Began, Note, Overlap, LockIsHeld, Advertised
<1>12. ASSUME NEW t \in Tools, CleanTmp(t) PROVE CopyFollowsDb'
  BY <1>12 DEF CleanTmp, Touched
<1>13. ASSUME NEW t \in Tools, CleanOld(t) PROVE CopyFollowsDb'
  BY <1>13 DEF CleanOld, Touched
<1>14. ASSUME NEW t \in Tools, RestoreCopy(t) PROVE CopyFollowsDb'
  BY <1>14 DEF RestoreCopy
<1>15. ASSUME NEW t \in Tools, RestoreCopyFails(t) PROVE CopyFollowsDb'
  BY <1>15 DEF RestoreCopyFails, BestEffortRemove
<1>16. ASSUME NEW t \in Tools, RestoreRecheck(t) PROVE CopyFollowsDb'
  BY <1>16 DEF RestoreRecheck, LockIsHeld
<1>17. ASSUME NEW t \in Tools, Sync(t) PROVE CopyFollowsDb'
  BY <1>17 DEF Sync
<1>18. ASSUME NEW t \in Tools, SwapOld(t) PROVE CopyFollowsDb'
  BY <1>18 DEF SwapOld
<1>19. ASSUME NEW t \in Tools, SwapOldFails(t) PROVE CopyFollowsDb'
  BY <1>19 DEF SwapOldFails, BestEffortRemove
<1>20. ASSUME NEW t \in Tools, SwapNew(t) PROVE CopyFollowsDb'
  BY <1>20 DEF SwapNew
<1>21. ASSUME NEW t \in Tools, SwapNewFails(t) PROVE CopyFollowsDb'
  BY <1>21 DEF SwapNewFails
<1>22. ASSUME NEW t \in Tools, DropOld(t) PROVE CopyFollowsDb'
  BY <1>22 DEF DropOld, BestEffortRemove
<1>23. ASSUME NEW t \in Tools, Flush(t) PROVE CopyFollowsDb'
  BY <1>23 DEF Flush
<1>24. ASSUME NEW t \in Tools, Crash(t) PROVE CopyFollowsDb'
  BY <1>24 DEF Crash
<1>25. CASE UNCHANGED vars
  BY <1>25 DEF vars
<1> QED
  BY <1>1, <1>2, <1>3, <1>4, <1>5, <1>6, <1>7, <1>8, <1>9, <1>10, <1>11,
     <1>12, <1>13, <1>14, <1>15, <1>16, <1>17, <1>18, <1>19, <1>20, <1>21,
     <1>22, <1>23, <1>24, <1>25
     DEF Next, Daemon, Backup, Restore

\* The temp copy is built from nothing by the one running restore.
LEMMA NextTempFollowsBackup ==
    TypeOK /\ OneNameEach /\ SoleCommand /\ TempFollowsBackup /\ [Next]_vars
      => TempFollowsBackup'
<1> SUFFICES ASSUME TypeOK, OneNameEach, SoleCommand, TempFollowsBackup,
                    [Next]_vars PROVE TempFollowsBackup'
  OBVIOUS
<1> USE BackupAssumption DEF TypeOK, OneNameEach, SoleCommand, TempFollowsBackup
<1>1. ASSUME DaemonStart PROVE TempFollowsBackup'
  BY <1>1 DEF DaemonStart, Note
<1>2. ASSUME DaemonCreate PROVE TempFollowsBackup'
  <2>1. tmp # Absent => tmp \in Dirs /\ files'[tmp] = files[tmp]
    BY <1>2, NewDirIsFresh DEF DaemonCreate, Fresh, MaybeDir
  <2>2. UNCHANGED <<tmp, backups, pc, name, left>> /\ events \subseteq events'
    BY <1>2 DEF DaemonCreate, Note
  <2> QED
    BY <2>1, <2>2
<1>3. ASSUME DaemonWrite PROVE TempFollowsBackup'
  <2>1. tmp # Absent => tmp \in Dirs /\ files'[tmp] = files[tmp]
    BY <1>3 DEF DaemonWrite, MaybeDir
  <2>2. UNCHANGED <<tmp, backups, pc, name, left, events>>
    BY <1>3 DEF DaemonWrite
  <2> QED
    BY <2>1, <2>2
<1>4. ASSUME DaemonStop PROVE TempFollowsBackup'
  BY <1>4 DEF DaemonStop, Note
<1>5. ASSUME Writeback PROVE TempFollowsBackup'
  BY <1>5 DEF Writeback
<1>6. ASSUME PowerLoss PROVE TempFollowsBackup'
  BY <1>6 DEF PowerLoss, Note
<1>7. ASSUME NEW t \in Tools, BackupBegin(t) PROVE TempFollowsBackup'
  BY <1>7 DEF BackupBegin, Began, Note, Overlap, LockIsHeld, Advertised
<1>8. ASSUME NEW t \in Tools, BackupCopy(t) PROVE TempFollowsBackup'
  BY <1>8 DEF BackupCopy
<1>9. ASSUME NEW t \in Tools, BackupCopyFails(t) PROVE TempFollowsBackup'
  BY <1>9 DEF BackupCopyFails, BestEffortRemove
<1>10. ASSUME NEW t \in Tools, BackupRecheck(t) PROVE TempFollowsBackup'
  BY <1>10 DEF BackupRecheck, LockIsHeld
<1>11. ASSUME NEW t \in Tools, RestoreBegin(t) PROVE TempFollowsBackup'
  <2> SUFFICES ASSUME "overlap" \notin events'
               PROVE  TempFollowsBackup'
    OBVIOUS
  <2>1. PICK n \in Names : backups[n] \in Tree /\ name' = [name EXCEPT ![t] = n]
    BY <1>11 DEF RestoreBegin, Began, Advertised
  <2>2. \A u \in Tools : pc'[u] # "idle" => u = t
    BY <1>11 DEF RestoreBegin, Note, Overlap
  <2>3. pc'[t] = "cleanTmp" /\ backups' = backups
    BY <1>11 DEF RestoreBegin
  <2> QED
    BY <2>1, <2>2, <2>3
<1>12. ASSUME NEW t \in Tools, CleanTmp(t) PROVE TempFollowsBackup'
  BY <1>12 DEF CleanTmp, Touched
<1>13. ASSUME NEW t \in Tools, CleanOld(t) PROVE TempFollowsBackup'
  <2> SUFFICES ASSUME "overlap" \notin events
               PROVE  TempFollowsBackup'
    BY <1>13 DEF CleanOld
  <2>1. pc'[t] = "restoreCopy" /\ left'[t] = Parts
    BY <1>13 DEF CleanOld
  <2>2. tmp' # Absent /\ files'[tmp'] = NoFiles
    <3>1. PICK d \in NewDir : tmp' = d /\ files' = [files EXCEPT ![d] = NoFiles]
      BY <1>13 DEF CleanOld
    <3> QED
      BY <3>1, NewDirIsFresh
  <2>3. \A u \in Tools : pc'[u] # "idle" => u = t
    BY <1>13 DEF CleanOld
  <2>4. backups'[name'[t]] \in Tree
    BY <1>13 DEF CleanOld
  <2> QED
    BY <2>1, <2>2, <2>3, <2>4 DEF NoFiles
<1>14. ASSUME NEW t \in Tools, RestoreCopy(t) PROVE TempFollowsBackup'
  <2> SUFFICES ASSUME "overlap" \notin events
               PROVE  TempFollowsBackup'
    BY <1>14 DEF RestoreCopy
  <2> DEFINE source == backups[name[t]]
  <2>1. PICK p \in left[t] :
          /\ files' = IF source[p] = 0 THEN files
                      ELSE [files EXCEPT ![tmp][p] = source[p]]
          /\ left' = [left EXCEPT ![t] = @ \ {p}]
    BY <1>14 DEF RestoreCopy
  <2>2. /\ source \in Tree /\ tmp \in Dirs /\ files[tmp] \in Tree /\ p \in Parts
        /\ \A q \in Parts : files[tmp][q] = IF q \in left[t] THEN 0 ELSE source[q]
    BY <1>14 DEF RestoreCopy, MaybeDir
  <2>3. files'[tmp] = IF source[p] = 0 THEN files[tmp]
                      ELSE [files[tmp] EXCEPT ![p] = source[p]]
    BY <2>1, <2>2
  <2>4. ASSUME NEW q \in Parts
        PROVE  files'[tmp][q] = IF q \in left'[t] THEN 0 ELSE source[q]
    BY <2>1, <2>2, <2>3 DEF Tree
  <2>5. \A u \in Tools : pc'[u] # "idle" => u = t
    BY <1>14 DEF RestoreCopy
  <2>6. pc'[t] = "restoreCopy" /\ backups'[name'[t]] = source /\ tmp' = tmp /\ tmp # Absent
    BY <1>14 DEF RestoreCopy
  <2> HIDE DEF source
  <2> QED
    BY <2>2, <2>4, <2>5, <2>6
<1>15. ASSUME NEW t \in Tools, RestoreCopyFails(t) PROVE TempFollowsBackup'
  BY <1>15 DEF RestoreCopyFails, BestEffortRemove
<1>16. ASSUME NEW t \in Tools, RestoreRecheck(t) PROVE TempFollowsBackup'
  <2> SUFFICES ASSUME "overlap" \notin events, ~LockIsHeld
               PROVE  TempFollowsBackup'
    BY <1>16 DEF RestoreRecheck
  <2>1. /\ backups[name[t]] \in Tree /\ tmp # Absent /\ files[tmp] \in Tree
        /\ \A q \in Parts : files[tmp][q] = backups[name[t]][q]
    BY <1>16 DEF RestoreRecheck, MaybeDir
  <2>2. files[tmp] = backups[name[t]]
    BY <2>1 DEF Tree
  <2>3. \A u \in Tools : pc'[u] # "idle" => u = t
    BY <1>16 DEF RestoreRecheck
  <2>4. pc'[t] = "sync" /\ UNCHANGED <<tmp, files, backups, name>>
    BY <1>16 DEF RestoreRecheck
  <2> QED
    BY <2>1, <2>2, <2>3, <2>4
<1>17. ASSUME NEW t \in Tools, Sync(t) PROVE TempFollowsBackup'
  BY <1>17 DEF Sync
<1>18. ASSUME NEW t \in Tools, SwapOld(t) PROVE TempFollowsBackup'
  BY <1>18 DEF SwapOld
<1>19. ASSUME NEW t \in Tools, SwapOldFails(t) PROVE TempFollowsBackup'
  BY <1>19 DEF SwapOldFails, BestEffortRemove
<1>20. ASSUME NEW t \in Tools, SwapNew(t) PROVE TempFollowsBackup'
  BY <1>20 DEF SwapNew
<1>21. ASSUME NEW t \in Tools, SwapNewFails(t) PROVE TempFollowsBackup'
  BY <1>21 DEF SwapNewFails
<1>22. ASSUME NEW t \in Tools, DropOld(t) PROVE TempFollowsBackup'
  BY <1>22 DEF DropOld, BestEffortRemove
<1>23. ASSUME NEW t \in Tools, Flush(t) PROVE TempFollowsBackup'
  BY <1>23 DEF Flush
<1>24. ASSUME NEW t \in Tools, Crash(t) PROVE TempFollowsBackup'
  BY <1>24 DEF Crash
<1>25. CASE UNCHANGED vars
  BY <1>25 DEF vars
<1> QED
  BY <1>1, <1>2, <1>3, <1>4, <1>5, <1>6, <1>7, <1>8, <1>9, <1>10, <1>11,
     <1>12, <1>13, <1>14, <1>15, <1>16, <1>17, <1>18, <1>19, <1>20, <1>21,
     <1>22, <1>23, <1>24, <1>25
     DEF Next, Daemon, Backup, Restore

\* What a power loss leaves of the operator's data, if the removal of the
\* original had not reached the disk before its replacement.
LEMMA PowerLossRestoresData ==
    ASSUME TypeOK, OneNameEach, DataOnDisk, PowerLoss, Undisturbed, Undisturbed'
    PROVE  /\ InPlace' = InPlaceOnDisk
           /\ \/ InPlaceOnDisk \in live \ dirty /\ live' = {InPlaceOnDisk}
              \/ /\ db \notin live /\ InPlaceOnDisk = db /\ db # Absent
                 /\ disk.old \in live \ (dirty \cup {Absent})
                 /\ disk.old \in live' /\ db \notin live'
<1> USE BackupAssumption DEF TypeOK, MaybeDir
<1>1. InPlace' = InPlaceOnDisk
  BY DEF PowerLoss, InPlace, InPlaceOnDisk
<1>2. ~RemovedOnDisk
  BY DEF PowerLoss, Note, Undisturbed, RemovedOnDisk
<1>3. PICK torn \in SUBSET (dirty \cap Dirs) : live' = Settled(InPlaceOnDisk, live \ torn)
  <2> DEFINE torn == {d \in dirty \cap Dirs : files'[d] # files[d]}
  <2>1. torn \in SUBSET (dirty \cap Dirs) /\ live' = Settled(InPlaceOnDisk, live \ torn)
    BY DEF PowerLoss
  <2> HIDE DEF torn
  <2> QED
    BY <2>1
<1>4. CASE InPlaceOnDisk \in live \ dirty
  BY <1>1, <1>3, <1>4 DEF Settled
<1>5. CASE /\ db \notin live /\ InPlaceOnDisk = db /\ db # Absent
           /\ disk.old \in live \ (dirty \cup {Absent})
  BY <1>1, <1>3, <1>5 DEF Settled
<1> QED
  BY <1>2, <1>4, <1>5 DEF DataOnDisk

\* The same, for both parts of the invariant.
LEMMA PowerLossKeepsData ==
    ASSUME TypeOK, OneNameEach, DataOnDisk, PowerLoss
    PROVE  DataInPlace' /\ DataOnDisk'
<1>1. CASE ~Undisturbed'
  BY <1>1 DEF DataInPlace, DataOnDisk
<1>2. CASE Undisturbed'
  <2>1. Undisturbed
    BY <1>2 DEF PowerLoss, Note, Undisturbed
  <2>2. dirty' = {} /\ \A t \in Tools : pc'[t] = "idle"
    BY DEF PowerLoss
  <2>3. /\ UNCHANGED disk
        /\ db' = disk.db /\ old' = disk.old
    BY DEF PowerLoss
  <2>4. InPlaceOnDisk' = InPlaceOnDisk
    BY <2>3 DEF InPlaceOnDisk
  <2>5. CASE InPlaceOnDisk \in live \ dirty /\ live' = {InPlaceOnDisk}
    <3>1. InPlace' \in live' /\ InPlaceOnDisk' \in live'
      BY <1>2, <2>1, <2>4, <2>5, PowerLossRestoresData
    <3>2. DataIsFound'
      BY <3>1 DEF DataIsFound, InPlace
    <3> QED
      BY <2>2, <3>1, <3>2 DEF DataInPlace, DataOnDisk
  <2>6. CASE /\ db \notin live /\ InPlaceOnDisk = db /\ db # Absent
             /\ disk.old \in live \ (dirty \cup {Absent})
             /\ disk.old \in live' /\ db \notin live'
    <3>1. disk.db = db
      BY <2>6 DEF InPlaceOnDisk
    <3>2. db' = db /\ disk'.old \in live' \ {Absent} /\ old' \in live' \ {Absent}
      BY <2>3, <2>6, <3>1
    <3>3. DataIsFound'
      BY <3>2 DEF DataIsFound
    <3>4. DataInPlace'
      BY <2>2, <3>3 DEF DataInPlace
    <3>5. DataOnDisk'
      BY <2>2, <2>4, <2>6, <3>2 DEF DataOnDisk
    <3> QED
      BY <3>4, <3>5
  <2> QED
    BY <1>2, <2>1, <2>5, <2>6, PowerLossRestoresData
<1> QED
  BY <1>1, <1>2

\* The data is set aside, put back or replaced, and never in an unflushed copy.
LEMMA NextDataInPlace ==
    TypeOK /\ OneNameEach /\ SoleCommand /\ DataInPlace /\ DataOnDisk /\
      [Next]_vars => DataInPlace'
<1> SUFFICES ASSUME TypeOK, OneNameEach, SoleCommand, DataInPlace, DataOnDisk,
                    [Next]_vars PROVE DataInPlace'
  OBVIOUS
<1> USE BackupAssumption DEF TypeOK, OneNameEach, SoleCommand, DataInPlace,
        DataOnDisk, Undisturbed, InPlace, DataIsFound, MaybeDir
<1>1. ASSUME DaemonStart PROVE DataInPlace'
  BY <1>1 DEF DaemonStart, Note
<1>2. ASSUME DaemonCreate PROVE DataInPlace'
  <2>1. NewDir \subseteq Fresh
    BY NewDirIsFresh
  <2> QED
    BY <1>2, <2>1 DEF DaemonCreate, Fresh, Note
<1>3. ASSUME DaemonWrite PROVE DataInPlace'
  BY <1>3 DEF DaemonWrite
<1>4. ASSUME DaemonStop PROVE DataInPlace'
  BY <1>4 DEF DaemonStop, Note
<1>5. ASSUME Writeback PROVE DataInPlace'
  BY <1>5 DEF Writeback, Settled
<1>6. ASSUME PowerLoss PROVE DataInPlace'
  BY <1>6, PowerLossKeepsData
<1>7. ASSUME NEW t \in Tools, BackupBegin(t) PROVE DataInPlace'
  BY <1>7 DEF BackupBegin, Began, Note, Overlap, LockIsHeld, Advertised, Touched
<1>8. ASSUME NEW t \in Tools, BackupCopy(t) PROVE DataInPlace'
  BY <1>8 DEF BackupCopy
<1>9. ASSUME NEW t \in Tools, BackupCopyFails(t) PROVE DataInPlace'
  BY <1>9 DEF BackupCopyFails, BestEffortRemove
<1>10. ASSUME NEW t \in Tools, BackupRecheck(t) PROVE DataInPlace'
  BY <1>10 DEF BackupRecheck, LockIsHeld
<1>11. ASSUME NEW t \in Tools, RestoreBegin(t) PROVE DataInPlace'
  BY <1>11 DEF RestoreBegin, Began, Note, Overlap, LockIsHeld, Advertised
<1>12. ASSUME NEW t \in Tools, CleanTmp(t) PROVE DataInPlace'
  BY <1>12 DEF CleanTmp, Touched
<1>13. ASSUME NEW t \in Tools, CleanOld(t) PROVE DataInPlace'
  <2> SUFFICES ASSUME Undisturbed PROVE DataInPlace'
    BY <1>13 DEF CleanOld
  <2>1. db \in live /\ (db = Absent => old = Absent)
    BY <1>13 DEF CleanOld
  <2>2. /\ UNCHANGED <<db, live, events>> /\ old' = Absent
        /\ dirty' \subseteq dirty \cup {old, tmp, tmp'} /\ tmp' # db
        /\ Absent \notin dirty'
    BY <1>13, NewDirIsFresh DEF CleanOld, Touched, Fresh
  <2>3. \A u \in Tools : pc'[u] # "idle" => u = t /\ pc'[u] = "restoreCopy"
    BY <1>13 DEF CleanOld
  <2>4. db \notin dirty'
    BY <2>1, <2>2
  <2> QED
    BY <2>1, <2>2, <2>3, <2>4
<1>14. ASSUME NEW t \in Tools, RestoreCopy(t) PROVE DataInPlace'
  BY <1>14 DEF RestoreCopy
<1>15. ASSUME NEW t \in Tools, RestoreCopyFails(t) PROVE DataInPlace'
  BY <1>15 DEF RestoreCopyFails, BestEffortRemove, Touched
<1>16. ASSUME NEW t \in Tools, RestoreRecheck(t) PROVE DataInPlace'
  BY <1>16 DEF RestoreRecheck, LockIsHeld
<1>17. ASSUME NEW t \in Tools, Sync(t) PROVE DataInPlace'
  BY <1>17 DEF Sync
<1>18. ASSUME NEW t \in Tools, SwapOld(t) PROVE DataInPlace'
  BY <1>18 DEF SwapOld
<1>19. ASSUME NEW t \in Tools, SwapOldFails(t) PROVE DataInPlace'
  BY <1>19 DEF SwapOldFails, BestEffortRemove, Touched
<1>20. ASSUME NEW t \in Tools, SwapNew(t) PROVE DataInPlace'
  BY <1>20 DEF SwapNew
<1>21. ASSUME NEW t \in Tools, SwapNewFails(t) PROVE DataInPlace'
  BY <1>21 DEF SwapNewFails
<1>22. ASSUME NEW t \in Tools, DropOld(t) PROVE DataInPlace'
  BY <1>22 DEF DropOld, BestEffortRemove, Touched
<1>23. ASSUME NEW t \in Tools, Flush(t) PROVE DataInPlace'
  BY <1>23 DEF Flush, Settled
<1>24. ASSUME NEW t \in Tools, Crash(t) PROVE DataInPlace'
  BY <1>24 DEF Crash
<1>25. CASE UNCHANGED vars
  BY <1>25 DEF vars
<1> QED
  BY <1>1, <1>2, <1>3, <1>4, <1>5, <1>6, <1>7, <1>8, <1>9, <1>10, <1>11,
     <1>12, <1>13, <1>14, <1>15, <1>16, <1>17, <1>18, <1>19, <1>20, <1>21,
     <1>22, <1>23, <1>24, <1>25
     DEF Next, Daemon, Backup, Restore

\* What is on disk is what was in place, until the original is removed.
LEMMA NextDataOnDisk ==
    TypeOK /\ OneNameEach /\ SoleCommand /\ DataInPlace /\ DataOnDisk /\
      [Next]_vars => DataOnDisk'
<1> SUFFICES ASSUME TypeOK, OneNameEach, SoleCommand, DataInPlace, DataOnDisk,
                    [Next]_vars PROVE DataOnDisk'
  OBVIOUS
<1> USE BackupAssumption DEF TypeOK, OneNameEach, SoleCommand, DataInPlace,
        DataOnDisk, RemovedOnDisk, Undisturbed, InPlace, InPlaceOnDisk,
        DataIsFound, MaybeDir
<1>1. ASSUME DaemonStart PROVE DataOnDisk'
  BY <1>1 DEF DaemonStart, Note
<1>2. ASSUME DaemonCreate PROVE DataOnDisk'
  <2>1. NewDir \subseteq Fresh
    BY NewDirIsFresh
  <2> QED
    BY <1>2, <2>1 DEF DaemonCreate, Fresh, Note
<1>3. ASSUME DaemonWrite PROVE DataOnDisk'
  BY <1>3 DEF DaemonWrite
<1>4. ASSUME DaemonStop PROVE DataOnDisk'
  BY <1>4 DEF DaemonStop, Note
<1>5. ASSUME Writeback PROVE DataOnDisk'
  BY <1>5 DEF Writeback, Settled
<1>6. ASSUME PowerLoss PROVE DataOnDisk'
  BY <1>6, PowerLossKeepsData
<1>7. ASSUME NEW t \in Tools, BackupBegin(t) PROVE DataOnDisk'
  BY <1>7 DEF BackupBegin, Began, Note, Overlap, LockIsHeld, Advertised, Touched
<1>8. ASSUME NEW t \in Tools, BackupCopy(t) PROVE DataOnDisk'
  BY <1>8 DEF BackupCopy
<1>9. ASSUME NEW t \in Tools, BackupCopyFails(t) PROVE DataOnDisk'
  BY <1>9 DEF BackupCopyFails, BestEffortRemove
<1>10. ASSUME NEW t \in Tools, BackupRecheck(t) PROVE DataOnDisk'
  BY <1>10 DEF BackupRecheck, LockIsHeld
<1>11. ASSUME NEW t \in Tools, RestoreBegin(t) PROVE DataOnDisk'
  BY <1>11 DEF RestoreBegin, Began, Note, Overlap, LockIsHeld, Advertised
<1>12. ASSUME NEW t \in Tools, CleanTmp(t) PROVE DataOnDisk'
  BY <1>12 DEF CleanTmp, Touched
<1>13. ASSUME NEW t \in Tools, CleanOld(t) PROVE DataOnDisk'
  <2> SUFFICES ASSUME Undisturbed PROVE DataOnDisk'
    BY <1>13 DEF CleanOld
  <2>1. db \in live /\ (db = Absent => old = Absent)
    BY <1>13 DEF CleanOld
  <2>2. /\ UNCHANGED <<db, disk, live, events>> /\ old' = Absent
        /\ dirty \subseteq dirty' /\ dirty' \subseteq dirty \cup {old, tmp, tmp'}
        /\ tmp' \notin {disk.db, disk.old} /\ tmp' # Absent
        /\ Absent \notin dirty' /\ (old # Absent => old \in dirty')
    BY <1>13, NewDirIsFresh DEF CleanOld, Touched, Fresh
  <2> QED
    BY <2>1, <2>2
<1>14. ASSUME NEW t \in Tools, RestoreCopy(t) PROVE DataOnDisk'
  BY <1>14 DEF RestoreCopy
<1>15. ASSUME NEW t \in Tools, RestoreCopyFails(t) PROVE DataOnDisk'
  BY <1>15 DEF RestoreCopyFails, BestEffortRemove, Touched
<1>16. ASSUME NEW t \in Tools, RestoreRecheck(t) PROVE DataOnDisk'
  BY <1>16 DEF RestoreRecheck, LockIsHeld
<1>17. ASSUME NEW t \in Tools, Sync(t) PROVE DataOnDisk'
  BY <1>17 DEF Sync
<1>18. ASSUME NEW t \in Tools, SwapOld(t) PROVE DataOnDisk'
  BY <1>18 DEF SwapOld
<1>19. ASSUME NEW t \in Tools, SwapOldFails(t) PROVE DataOnDisk'
  BY <1>19 DEF SwapOldFails, BestEffortRemove, Touched
<1>20. ASSUME NEW t \in Tools, SwapNew(t) PROVE DataOnDisk'
  BY <1>20 DEF SwapNew
<1>21. ASSUME NEW t \in Tools, SwapNewFails(t) PROVE DataOnDisk'
  BY <1>21 DEF SwapNewFails
<1>22. ASSUME NEW t \in Tools, DropOld(t) PROVE DataOnDisk'
  BY <1>22 DEF DropOld, BestEffortRemove, Touched
<1>23. ASSUME NEW t \in Tools, Flush(t) PROVE DataOnDisk'
  BY <1>23 DEF Flush, Settled
<1>24. ASSUME NEW t \in Tools, Crash(t) PROVE DataOnDisk'
  BY <1>24 DEF Crash
<1>25. CASE UNCHANGED vars
  BY <1>25 DEF vars
<1> QED
  BY <1>1, <1>2, <1>3, <1>4, <1>5, <1>6, <1>7, <1>8, <1>9, <1>10, <1>11,
     <1>12, <1>13, <1>14, <1>15, <1>16, <1>17, <1>18, <1>19, <1>20, <1>21,
     <1>22, <1>23, <1>24, <1>25
     DEF Next, Daemon, Backup, Restore

-----------------------------------------------------------------------------
IInv ==
    /\ TypeOK
    /\ OneNameEach
    /\ SoleCommand
    /\ DaemonOutsideWindow
    /\ CopyFollowsDb
    /\ TempFollowsBackup
    /\ DataInPlace
    /\ DataOnDisk

LEMMA InitIInv == Init => IInv
<1> SUFFICES ASSUME Init PROVE IInv
  OBVIOUS
<1>1. TypeOK
  BY InitTypeOK
<1>2. /\ \A t \in Tools : pc[t] = "idle"
      /\ dirty = {} /\ daemon = Absent /\ tmp = Absent /\ old = Absent
      /\ disk.db = db /\ disk.tmp = Absent /\ disk.old = Absent
      /\ live = {db}
  BY DEF Init
<1>3. SoleCommand /\ CopyFollowsDb /\ TempFollowsBackup /\ DaemonOutsideWindow
  BY <1>2 DEF SoleCommand, CopyFollowsDb, TempFollowsBackup, DaemonOutsideWindow
<1>4. OneNameEach
  BY <1>2 DEF OneNameEach
<1>5. DataInPlace /\ DataOnDisk
  BY <1>2 DEF DataInPlace, DataOnDisk, DataIsFound, InPlace, InPlaceOnDisk
<1> QED
  BY <1>1, <1>3, <1>4, <1>5 DEF IInv

LEMMA NextIInv == IInv /\ [Next]_vars => IInv'
BY NextTypeOK, NextOneNameEach, NextSoleCommand, NextDaemonOutsideWindow,
   NextCopyFollowsDb, NextTempFollowsBackup, NextDataInPlace, NextDataOnDisk DEF IInv

LEMMA SpecIInv == Spec => []IInv
BY InitIInv, NextIInv, PTL DEF Spec

\* Whatever fails, crashes or loses power, and however often, a restore that
\* began with the data at the live path and ran alone has not lost it, unless
\* the power was lost between the removal of the original and the flush.
THEOREM SpecOriginalSurvives == Spec => []OriginalSurvives
<1>1. IInv => OriginalSurvives
  BY DEF IInv, DataInPlace, Undisturbed, OriginalSurvives
<1> QED
  BY <1>1, SpecIInv, PTL

\* A daemon that started before the second probe keeps its directory, even
\* with several commands running at once.
THEOREM SpecDaemonKeepsItsDirectory == Spec => []DaemonKeepsItsDirectory
<1>1. IInv => DaemonKeepsItsDirectory
  BY DEF IInv, DaemonOutsideWindow, DaemonKeepsItsDirectory
<1> QED
  BY <1>1, SpecIInv, PTL

\* A restore that runs alone installs exactly its backup.
THEOREM SpecRestoreInstallsTheBackup == Spec => RestoreInstallsTheBackup
<1>1. ASSUME IInv, [Next]_vars, NEW t \in Tools,
             pc[t] = "swapNew", pc'[t] = "dropOld", "overlap" \notin events
      PROVE  files'[db'] = backups[name[t]]
  <2>1. tmp # Absent /\ files[tmp] = backups[name[t]]
    BY <1>1 DEF IInv, TempFollowsBackup
  <2>2. SwapNew(t)
    <3>1. pc \in [Tools -> Labels] /\ pc' # pc
      BY <1>1 DEF IInv, TypeOK
    <3> QED
      BY <1>1, <3>1 DEF Next, Daemon, Backup, Restore, DaemonStart, DaemonCreate, DaemonWrite,
         DaemonStop, Writeback, PowerLoss, BackupBegin, Began, Note, BackupCopy,
         BackupCopyFails, BackupRecheck, RestoreBegin, CleanTmp, CleanOld, RestoreCopy,
         RestoreCopyFails, RestoreRecheck, Sync, SwapOld, SwapOldFails, SwapNew,
         SwapNewFails, DropOld, Flush, Crash, vars
  <2> QED
    BY <2>1, <2>2 DEF SwapNew
<1>2. IInv /\ [Next]_vars
        => [\A t \in Tools :
              pc[t] = "swapNew" /\ pc'[t] = "dropOld" /\ "overlap" \notin events
                => files'[db'] = backups[name[t]]]_vars
  BY <1>1
<1> QED
  BY <1>2, SpecIInv, PTL DEF Spec, RestoreInstallsTheBackup

\* A backup reported as valid is an exact copy of the live database when no
\* daemon closed it during the copy and no other command ran.
THEOREM SpecReportedBackupIsExact == Spec => ReportedBackupIsExact
<1>1. ASSUME IInv, [Next]_vars, NEW n \in reported' \ reported,
             {"overlap", "visit"} \cap events = {}
      PROVE  backups'[n] = files[db]
  <2>1. PICK t \in Tools : BackupRecheck(t)
    <3>1. reported' # reported
      BY <1>1
    <3> QED
      BY <1>1, <3>1 DEF Next, Daemon, Backup, Restore, DaemonStart, DaemonCreate, DaemonWrite,
         DaemonStop, Writeback, PowerLoss, BackupBegin, Began, Note, BackupCopy,
         BackupCopyFails, RestoreBegin, CleanTmp, CleanOld, RestoreCopy,
         RestoreCopyFails, RestoreRecheck, Sync, SwapOld, SwapOldFails, SwapNew,
         SwapNewFails, DropOld, Flush, Crash, vars
  <2>2. n = name[t] /\ ~LockIsHeld /\ backups' = backups /\ left[t] = {}
    BY <1>1, <2>1 DEF BackupRecheck
  <2>3. /\ files[db] \in Tree /\ backups[n] \in Tree
        /\ \A p \in Parts : backups[n][p] = files[db][p]
    BY <1>1, <2>1, <2>2 DEF IInv, TypeOK, MaybeDir, CopyFollowsDb, BackupRecheck
  <2> QED
    BY <2>2, <2>3 DEF Tree
<1>2. IInv /\ [Next]_vars
        => [\A n \in reported' \ reported :
              {"overlap", "visit"} \cap events = {} => backups'[n] = files[db]]_vars
  BY <1>1
<1> QED
  BY <1>2, SpecIInv, PTL DEF Spec, ReportedBackupIsExact

\* Seen from what is recoverable, a restore that is alone and starts clean is
\* atomic: every step keeps the data or installs a whole backup, and a power
\* loss keeps what there is or takes the whole swap back.
THEOREM SpecAtomicReplace == Spec => AtomicReplace
<1> DEFINE Atomic == \/ Recoverable' = Recoverable
                     \/ clock' # clock
                     \/ \E n \in Names : Recoverable' = backups[n]
                     \/ InPlace' \in live \cap live'
<1>1. ASSUME IInv, [Next]_vars, {"overlap", "leftover", "early"} \cap events' = {}
      PROVE  Atomic
  <2> USE <1>1 DEF Recoverable
  <2>1. Undisturbed' /\ Undisturbed
    <3>1. events \subseteq events'
      BY DEF Next, Daemon, Backup, Restore, DaemonStart, DaemonCreate, DaemonWrite,
         DaemonStop, Writeback, PowerLoss, BackupBegin, Began, Note, BackupCopy,
         BackupCopyFails, BackupRecheck, RestoreBegin, CleanTmp, CleanOld, RestoreCopy,
         RestoreCopyFails, RestoreRecheck, Sync, SwapOld, SwapOldFails, SwapNew,
         SwapNewFails, DropOld, Flush, Crash, vars
    <3> QED
      BY <3>1 DEF Undisturbed
  <2>2. ASSUME DaemonStart \/ DaemonStop \/ Writeback PROVE Atomic
    BY <2>2 DEF DaemonStart, DaemonStop, Writeback, InPlace
  <2>3. ASSUME DaemonCreate \/ DaemonWrite PROVE Atomic
    BY <2>3 DEF DaemonCreate, DaemonWrite, IInv, TypeOK
  <2>4. ASSUME PowerLoss PROVE Atomic
    <3>1. CASE InPlaceOnDisk \in live \ dirty /\ live' = {InPlaceOnDisk}
      BY <2>1, <2>4, <3>1, PowerLossRestoresData DEF IInv
    <3>2. CASE /\ InPlaceOnDisk = db /\ db # Absent
      <4>1. InPlace' = InPlace
        BY <2>1, <2>4, <3>2, PowerLossRestoresData DEF IInv, InPlace
      <4>2. db \in Dirs \ dirty
        BY <2>1, <3>2 DEF IInv, TypeOK, MaybeDir, DataInPlace
      <4>3. files'[db] = files[db]
        BY <2>4, <4>2 DEF PowerLoss
      <4> QED
        BY <3>2, <4>1, <4>3 DEF InPlace
    <3> QED
      BY <2>1, <2>4, <3>1, <3>2, PowerLossRestoresData DEF IInv
  <2>5. ASSUME NEW t \in Tools, Backup(t) \/ Crash(t) PROVE Atomic
    BY <2>5 DEF Backup, BackupBegin, BackupCopy, BackupCopyFails, BackupRecheck, Crash,
       InPlace
  <2>6. ASSUME NEW t \in Tools, Restore(t) PROVE Atomic
    <3> USE DEF InPlace
    <3>1. CASE CleanOld(t)
      <4>1. InPlace' = InPlace
        BY <2>1, <3>1 DEF CleanOld, IInv, DataInPlace
      <4>2. InPlace # Absent => files'[InPlace] = files[InPlace]
        BY <3>1, NewDirIsFresh DEF CleanOld, Fresh, IInv, TypeOK, MaybeDir
      <4> QED
        BY <4>1, <4>2
    <3>2. CASE RestoreCopy(t)
      <4>1. InPlace # Absent => files'[InPlace] = files[InPlace]
        BY <3>2 DEF RestoreCopy, IInv, OneNameEach, TypeOK, MaybeDir
      <4> QED
        BY <3>2, <4>1 DEF RestoreCopy
    <3>3. CASE SwapOld(t)
      BY <3>3 DEF SwapOld
    <3>4. CASE SwapNew(t)
      <4>1. name[t] \in Names /\ files[tmp] = backups[name[t]]
        BY <2>1, <3>4 DEF SwapNew, IInv, TypeOK, TempFollowsBackup, Undisturbed
      <4>2. Recoverable' = files[tmp]
        BY <3>4 DEF SwapNew
      <4> QED
        BY <4>1, <4>2
    <3>5. CASE SwapNewFails(t)
      BY <3>5 DEF SwapNewFails
    <3>6. CASE DropOld(t)
      BY <2>1, <3>6 DEF DropOld, IInv, DataInPlace
    <3>7. CASE RestoreBegin(t) \/ CleanTmp(t) \/ RestoreCopyFails(t)
                 \/ RestoreRecheck(t) \/ Sync(t) \/ SwapOldFails(t) \/ Flush(t)
      BY <3>7 DEF RestoreBegin, CleanTmp, RestoreCopyFails, RestoreRecheck, Sync,
         SwapOldFails, Flush
    <3> QED
      BY <2>6, <3>1, <3>2, <3>3, <3>4, <3>5, <3>6, <3>7 DEF Restore
  <2>7. CASE UNCHANGED vars
    BY <2>7 DEF vars, InPlace
  <2> QED
    BY <2>2, <2>3, <2>4, <2>5, <2>6, <2>7 DEF Next, Daemon
<1>2. IInv /\ [Next]_vars
        => [{"overlap", "leftover", "early"} \cap events' = {} => Atomic]_vars
  BY <1>1
<1> QED
  BY <1>2, SpecIInv, PTL DEF Spec, AtomicReplace
=============================================================================
