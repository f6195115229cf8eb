------------------------------- MODULE DbLock -------------------------------
(***************************************************************************)
(* db/connect.rs: who may have the database open.  Openers (processes, or  *)
(* tasks of one process, since a flock belongs to the open file) run       *)
(* connect_at with its retries and the stale-lock recovery of try_connect; *)
(* probers run lock_is_held.                                               *)
(*                                                                         *)
(* The storage engine behind initialize is external: it opens the LOCK     *)
(* file, creating it if it is missing, takes an exclusive flock on the     *)
(* file it opened or fails, holds it until the handle is dropped, and      *)
(* never deletes the file.  An inode that has neither a name nor an open   *)
(* descriptor may be used again.                                           *)
(***************************************************************************)
EXTENDS Naturals

CONSTANTS
    Openers,     \* callers of connect_at
    Probers,     \* callers of lock_is_held
    Inodes,      \* inodes the LOCK file may have
    None,        \* no file, no descriptor, no holder
    MaxRetries   \* RetryConfig::max_retries, 3 by default

ASSUME LockAssumption ==
    /\ MaxRetries \in Nat
    /\ Openers \cap Probers = {}
    /\ None \notin Inodes \cup Openers \cup Probers

VARIABLES
    lockFile,  \* the inode named LOCK, or None
    holder,    \* per inode, who holds its flock
    fd,        \* per opener and prober, the inode it has open
    pc,
    attempt,   \* per opener, the loop variable of connect_at
    recovering,\* per opener, whether this is the initialize after a removal
    steady,    \* history: the openers connected throughout a probe
    usurped    \* history: LOCK was removed while another opener had it open

lockVars == <<lockFile, holder, fd, pc, attempt, recovering, steady, usurped>>

Actors == Openers \cup Probers
OpenerLabels == {"idle", "opening", "locking", "stale", "remove", "connected"}
ProberLabels == {"idle", "probing", "saysFree", "saysHeld"}

LockTypeOK ==
    /\ lockFile \in Inodes \cup {None}
    /\ holder \in [Inodes -> Actors \cup {None}]
    /\ fd \in [Actors -> Inodes \cup {None}]
    /\ pc \in [Actors -> OpenerLabels \cup ProberLabels]
    /\ attempt \in [Openers -> 0 .. MaxRetries]
    /\ recovering \in [Openers -> BOOLEAN]
    /\ steady \in [Probers -> SUBSET Openers]
    /\ usurped \in BOOLEAN

\* No file, or the LOCK file that an earlier run left behind.
LockInit ==
    /\ lockFile \in Inodes \cup {None}
    /\ holder = [i \in Inodes |-> None]
    /\ fd = [a \in Actors |-> None]
    /\ pc = [a \in Actors |-> "idle"]
    /\ attempt = [o \in Openers |-> 0]
    /\ recovering = [o \in Openers |-> FALSE]
    /\ steady = [p \in Probers |-> {}]
    /\ usurped = FALSE

Goto(a, label) == pc' = [pc EXCEPT ![a] = label]

\* Dropping a handle releases the flock and the descriptor.
Close(a) ==
    /\ holder' = [i \in Inodes |-> IF holder[i] = a THEN None ELSE holder[i]]
    /\ fd' = [fd EXCEPT ![a] = None]

Connected == {o \in Openers : pc[o] = "connected"}

\* connect_at's variables are its own: they begin and end with the call.
NewCall(o) ==
    /\ attempt' = [attempt EXCEPT ![o] = 0]
    /\ recovering' = [recovering EXCEPT ![o] = FALSE]

-----------------------------------------------------------------------------
(* connect_at *)

Connect(o) ==
    /\ pc[o] = "idle"
    /\ Goto(o, "opening")
    /\ NewCall(o)
    /\ UNCHANGED <<lockFile, holder, fd, steady, usurped>>

\* initialize opens LOCK, creating it if there is none.
OpenLock(o) ==
    /\ pc[o] = "opening"
    /\ IF lockFile # None
       THEN UNCHANGED lockFile
       ELSE \E i \in Inodes : /\ \A a \in Actors : fd[a] # i
                              /\ lockFile' = i
    /\ fd' = [fd EXCEPT ![o] = lockFile']
    /\ Goto(o, "locking")
    /\ UNCHANGED <<holder, attempt, recovering, steady, usurped>>

\* initialize gets the flock and the connection.
TakeLock(o) ==
    /\ pc[o] = "locking"
    /\ holder[fd[o]] = None
    /\ holder' = [holder EXCEPT ![fd[o]] = o]
    /\ Goto(o, "connected")
    /\ NewCall(o)
    /\ UNCHANGED <<lockFile, fd, steady, usurped>>

\* An attempt of connect_at is over: sleep and go round, or return the error.
TryAgain(o) ==
    IF attempt[o] < MaxRetries
    THEN /\ Goto(o, "opening")
         /\ attempt' = [attempt EXCEPT ![o] = @ + 1]
         /\ recovering' = [recovering EXCEPT ![o] = FALSE]
    ELSE /\ Goto(o, "idle")
         /\ NewCall(o)

\* initialize fails, because the flock is held or for any other reason; the
\* first failure of an attempt goes to the stale-lock recovery.
InitializeFails(o) ==
    /\ pc[o] = "locking"
    /\ Close(o)
    /\ IF recovering[o]
       THEN TryAgain(o)
       ELSE Goto(o, "stale") /\ UNCHANGED <<attempt, recovering>>
    /\ UNCHANGED <<lockFile, steady, usurped>>

\* try_connect takes any LOCK file that exists for a stale one.
CheckStale(o) ==
    /\ pc[o] = "stale"
    /\ IF lockFile # None
       THEN Goto(o, "remove") /\ UNCHANGED <<attempt, recovering>>
       ELSE TryAgain(o)
    /\ UNCHANGED <<lockFile, holder, fd, steady, usurped>>

\* remove_file, its error ignored, then initialize once more.
RemoveLock(o) ==
    /\ pc[o] = "remove"
    /\ lockFile' = None
    /\ usurped' = (usurped \/ \E q \in Openers : lockFile # None /\ fd[q] = lockFile)
    /\ Goto(o, "opening")
    /\ recovering' = [recovering EXCEPT ![o] = TRUE]
    /\ UNCHANGED <<holder, fd, attempt, steady>>

-----------------------------------------------------------------------------
\* The connection is dropped, or the process exits or dies at any point: the
\* system releases the flock and the LOCK file stays.
Leave(o) ==
    /\ pc[o] # "idle"
    /\ Goto(o, "idle")
    /\ Close(o)
    /\ NewCall(o)
    /\ steady' = [p \in Probers |-> steady[p] \ {o}]
    /\ UNCHANGED <<lockFile, usurped>>

-----------------------------------------------------------------------------
(* lock_is_held *)

\* The file is opened but not created: without one the lock is free.
ProbeOpen(p) ==
    /\ pc[p] = "idle"
    /\ fd' = [fd EXCEPT ![p] = lockFile]
    /\ Goto(p, IF lockFile = None THEN "saysFree" ELSE "probing")
    /\ steady' = [steady EXCEPT ![p] = Connected]
    /\ UNCHANGED <<lockFile, holder, attempt, recovering, usurped>>

\* Faulty variant of ProbeLock: a flock that is held is reported as free.
ProbeLockBlind(p) ==
    /\ pc[p] = "probing"
    /\ Goto(p, "saysFree")
    /\ UNCHANGED <<lockFile, holder, fd, attempt, recovering, steady, usurped>>

\* try_lock_exclusive; on success the probe holds the flock until it returns.
ProbeLock(p) ==
    /\ pc[p] = "probing"
    /\ IF holder[fd[p]] = None
       THEN /\ holder' = [holder EXCEPT ![fd[p]] = p]
            /\ Goto(p, "saysFree")
       ELSE /\ UNCHANGED holder
            /\ Goto(p, "saysHeld")
    /\ UNCHANGED <<lockFile, fd, attempt, recovering, steady, usurped>>

\* Faulty variant of ProbeReturn: a LOCK file found free is cleaned up.
ProbeReturnRemoves(p) ==
    /\ pc[p] \in {"saysFree", "saysHeld"}
    /\ Close(p)
    /\ Goto(p, "idle")
    /\ steady' = [steady EXCEPT ![p] = {}]
    /\ lockFile' = IF pc[p] = "saysFree" THEN None ELSE lockFile
    /\ UNCHANGED <<attempt, recovering, usurped>>

\* The file is closed and the answer returned.
ProbeReturn(p) ==
    /\ pc[p] \in {"saysFree", "saysHeld"}
    /\ Close(p)
    /\ Goto(p, "idle")
    /\ steady' = [steady EXCEPT ![p] = {}]
    /\ UNCHANGED <<lockFile, attempt, recovering, usurped>>

OpenerStep(o) ==
    \/ OpenLock(o) \/ TakeLock(o) \/ InitializeFails(o)
    \/ CheckStale(o) \/ RemoveLock(o)

LockNext ==
    \/ \E o \in Openers : Connect(o) \/ OpenerStep(o) \/ Leave(o)
    \/ \E p \in Probers : ProbeOpen(p) \/ ProbeLock(p) \/ ProbeReturn(p)

LockSpec == LockInit /\ [][LockNext]_lockVars

-----------------------------------------------------------------------------
\* At most one opener is connected, and its flock is on the file named LOCK,
\* until an opener removes a LOCK file that another opener has open.
ExclusiveUntilUsurped ==
    ~usurped => /\ \A o, q \in Connected : o = q
                /\ \A o \in Connected : fd[o] = lockFile

\* A probe does not call the database free while an opener has been connected
\* for the whole of it, unless that opener's LOCK file has been removed.
ProbeSeesTheHolder ==
    ~usurped => \A p \in Probers : pc[p] = "saysFree" => steady[p] = {}

\* runtime/core.rs: "SurrealKV ... uses exclusive file locking, so only one
\* process may hold a Runtime at a time".
OneProcessHoldsTheDatabase == \A o, q \in Connected : o = q
=============================================================================
