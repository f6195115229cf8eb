--------------------------- MODULE ConnectProofs ---------------------------
(***************************************************************************)
(* What opening the database establishes.  Its lock: what the LOCK         *)
(* protocol of DbLock guarantees for any number of openers and probes, and *)
(* that removing the file is the only way to lose it; and what follows for *)
(* a client's connection, for any number of clients and operations.  Its   *)
(* schema: what _migrations says of it, for any number of runners, of      *)
(* profiles and of failures.                                               *)
(***************************************************************************)
EXTENDS LazyConnect, Migrations, FiniteSetTheorems, TLAPS

-----------------------------------------------------------------------------
(* DbLock: any openers and probes.                                         *)

\* An opener has the file open exactly while it waits for or has the flock; a
\* probe has a file to lock.
DescriptorsMatchSteps ==
    /\ \A o \in Openers : /\ pc[o] \in OpenerLabels
                          /\ fd[o] # None <=> pc[o] \in {"locking", "connected"}
    /\ \A p \in Probers : /\ pc[p] \in ProberLabels
                          /\ pc[p] = "idle" => fd[p] = None
                          /\ pc[p] = "probing" => fd[p] # None

\* A flock is held through an open descriptor: by a connected opener, or by a
\* probe about to return.
FlocksMatchDescriptors ==
    /\ \A i \in Inodes : holder[i] # None => fd[holder[i]] = i
    /\ \A i \in Inodes, o \in Openers : holder[i] = o => pc[o] = "connected"
    /\ \A o \in Openers : pc[o] = "connected" => holder[fd[o]] = o

\* Until a LOCK file in use is removed, every opener has the named file open.
OpenersShareTheFile ==
    ~usurped => \A o \in Openers : fd[o] # None => fd[o] = lockFile

\* The openers connected throughout a probe hold the file that it probes.
ProbesShareTheFile ==
    ~usurped => \A p \in Probers : \A o \in steady[p] :
        /\ pc[o] = "connected"
        /\ fd[o] = fd[p]
        /\ pc[p] # "saysFree"

LockInv ==
    /\ LockTypeOK
    /\ DescriptorsMatchSteps
    /\ FlocksMatchDescriptors
    /\ OpenersShareTheFile
    /\ ProbesShareTheFile

LEMMA InitLockInv == LockInit => LockInv
<1> SUFFICES ASSUME LockInit PROVE LockInv
  OBVIOUS
<1> USE LockAssumption DEF LockInit, Actors
<1>1. LockTypeOK
  <2>1. pc \in [Actors -> OpenerLabels \cup ProberLabels]
    BY DEF OpenerLabels
  <2>2. attempt \in [Openers -> 0 .. MaxRetries] /\ recovering \in [Openers -> BOOLEAN]
    OBVIOUS
  <2>3. holder \in [Inodes -> Actors \cup {None}] /\ fd \in [Actors -> Inodes \cup {None}]
    OBVIOUS
  <2> QED
    BY <2>1, <2>2, <2>3 DEF LockTypeOK
<1>2. DescriptorsMatchSteps
  BY DEF DescriptorsMatchSteps, OpenerLabels, ProberLabels
<1>3. FlocksMatchDescriptors
  BY DEF FlocksMatchDescriptors
<1>4. OpenersShareTheFile
  BY DEF OpenersShareTheFile
<1>5. ProbesShareTheFile
  BY DEF ProbesShareTheFile
<1> QED
  BY <1>1, <1>2, <1>3, <1>4, <1>5 DEF LockInv

LEMMA TryAgainTypeOK ==
    ASSUME LockTypeOK, NEW o \in Openers, TryAgain(o)
    PROVE  /\ pc' \in [Actors -> OpenerLabels \cup ProberLabels]
           /\ attempt' \in [Openers -> 0 .. MaxRetries]
           /\ recovering' \in [Openers -> BOOLEAN]
<1> USE LockAssumption DEF NewCall, LockTypeOK, OpenerLabels, Actors
<1>1. CASE attempt[o] < MaxRetries
  <2>1. attempt[o] + 1 \in 0 .. MaxRetries
    BY <1>1
  <2>2. /\ pc' = [pc EXCEPT ![o] = "opening"]
        /\ attempt' = [attempt EXCEPT ![o] = @ + 1]
        /\ recovering' = [recovering EXCEPT ![o] = FALSE]
    BY <1>1 DEF TryAgain, Goto
  <2>3. attempt' \in [Openers -> 0 .. MaxRetries]
    BY <2>1, <2>2
  <2> QED
    BY <2>2, <2>3
<1>2. CASE ~(attempt[o] < MaxRetries)
  <2>1. 0 \in 0 .. MaxRetries
    OBVIOUS
  <2>2. /\ pc' = [pc EXCEPT ![o] = "idle"]
        /\ attempt' = [attempt EXCEPT ![o] = 0]
        /\ recovering' = [recovering EXCEPT ![o] = FALSE]
    BY <1>2 DEF TryAgain, Goto
  <2> QED
    BY <2>1, <2>2
<1> QED
  BY <1>1, <1>2

\* Type correctness.
LEMMA NextLockTypeOK == LockInv /\ [LockNext]_lockVars => LockTypeOK'
<1> SUFFICES ASSUME LockInv, [LockNext]_lockVars PROVE LockTypeOK'
  OBVIOUS
<1> USE LockAssumption
    DEF NewCall, LockInv, LockTypeOK, Actors, DescriptorsMatchSteps, OpenerLabels,
        ProberLabels
<1>1. ASSUME NEW o \in Openers, Connect(o) PROVE LockTypeOK'
  BY <1>1 DEF Connect, Goto
<1>2. ASSUME NEW o \in Openers, OpenLock(o) PROVE LockTypeOK'
  BY <1>2 DEF OpenLock, Goto
<1>3. ASSUME NEW o \in Openers, TakeLock(o) PROVE LockTypeOK'
  BY <1>3 DEF TakeLock, Goto
<1>4. ASSUME NEW o \in Openers, InitializeFails(o) PROVE LockTypeOK'
  <2>1. /\ pc' \in [Actors -> OpenerLabels \cup ProberLabels]
        /\ attempt' \in [Openers -> 0 .. MaxRetries]
        /\ recovering' \in [Openers -> BOOLEAN]
    BY <1>4, TryAgainTypeOK DEF InitializeFails, Goto
  <2> QED
    BY <1>4, <2>1 DEF InitializeFails, Close
<1>5. ASSUME NEW o \in Openers, CheckStale(o) PROVE LockTypeOK'
  <2>1. /\ pc' \in [Actors -> OpenerLabels \cup ProberLabels]
        /\ attempt' \in [Openers -> 0 .. MaxRetries]
        /\ recovering' \in [Openers -> BOOLEAN]
    BY <1>5, TryAgainTypeOK DEF CheckStale, Goto
  <2> QED
    BY <1>5, <2>1 DEF CheckStale
<1>6. ASSUME NEW o \in Openers, RemoveLock(o) PROVE LockTypeOK'
  BY <1>6 DEF RemoveLock, Goto
<1>7. ASSUME NEW o \in Openers, Leave(o) PROVE LockTypeOK'
  BY <1>7 DEF Leave, Close, Goto
<1>8. ASSUME NEW p \in Probers, ProbeOpen(p) PROVE LockTypeOK'
  BY <1>8 DEF ProbeOpen, Goto, Connected
<1>9. ASSUME NEW p \in Probers, ProbeLock(p) PROVE LockTypeOK'
  BY <1>9 DEF ProbeLock, Goto
<1>10. ASSUME NEW p \in Probers, ProbeReturn(p) PROVE LockTypeOK'
  BY <1>10 DEF ProbeReturn, Close, Goto
<1>11. CASE UNCHANGED lockVars
  BY <1>11 DEF lockVars
<1> QED
  BY <1>1, <1>2, <1>3, <1>4, <1>5, <1>6, <1>7, <1>8, <1>9, <1>10, <1>11
     DEF LockNext, OpenerStep

\* Opening and closing go with the steps.
LEMMA NextDescriptorsMatchSteps == LockInv /\ [LockNext]_lockVars => DescriptorsMatchSteps'
<1> SUFFICES ASSUME LockInv, [LockNext]_lockVars PROVE DescriptorsMatchSteps'
  OBVIOUS
<1> USE LockAssumption
    DEF NewCall, LockInv, LockTypeOK, Actors, DescriptorsMatchSteps, OpenerLabels,
        ProberLabels
<1>1. ASSUME NEW o \in Openers, Connect(o) PROVE DescriptorsMatchSteps'
  BY <1>1 DEF Connect, Goto
<1>2. ASSUME NEW o \in Openers, OpenLock(o) PROVE DescriptorsMatchSteps'
  BY <1>2 DEF OpenLock, Goto
<1>3. ASSUME NEW o \in Openers, TakeLock(o) PROVE DescriptorsMatchSteps'
  BY <1>3 DEF TakeLock, Goto
<1>4. ASSUME NEW o \in Openers, InitializeFails(o) PROVE DescriptorsMatchSteps'
  BY <1>4 DEF InitializeFails, TryAgain, Close, Goto
<1>5. ASSUME NEW o \in Openers, CheckStale(o) PROVE DescriptorsMatchSteps'
  BY <1>5 DEF CheckStale, TryAgain, Goto
<1>6. ASSUME NEW o \in Openers, RemoveLock(o) PROVE DescriptorsMatchSteps'
  BY <1>6 DEF RemoveLock, Goto
<1>7. ASSUME NEW o \in Openers, Leave(o) PROVE DescriptorsMatchSteps'
  BY <1>7 DEF Leave, Close, Goto
<1>8. ASSUME NEW p \in Probers, ProbeOpen(p) PROVE DescriptorsMatchSteps'
  BY <1>8 DEF ProbeOpen, Goto, Connected
<1>9. ASSUME NEW p \in Probers, ProbeLock(p) PROVE DescriptorsMatchSteps'
  BY <1>9 DEF ProbeLock, Goto
<1>10. ASSUME NEW p \in Probers, ProbeReturn(p) PROVE DescriptorsMatchSteps'
  BY <1>10 DEF ProbeReturn, Close, Goto
<1>11. CASE UNCHANGED lockVars
  BY <1>11 DEF lockVars
<1> QED
  BY <1>1, <1>2, <1>3, <1>4, <1>5, <1>6, <1>7, <1>8, <1>9, <1>10, <1>11
     DEF LockNext, OpenerStep

\* A flock is taken through a descriptor and released with it.
LEMMA NextFlocksMatchDescriptors == LockInv /\ [LockNext]_lockVars => FlocksMatchDescriptors'
<1> SUFFICES ASSUME LockInv, [LockNext]_lockVars PROVE FlocksMatchDescriptors'
  OBVIOUS
<1> USE LockAssumption
    DEF NewCall, LockInv, LockTypeOK, Actors, DescriptorsMatchSteps, FlocksMatchDescriptors
<1>1. ASSUME NEW o \in Openers, Connect(o) PROVE FlocksMatchDescriptors'
  BY <1>1 DEF Connect, Goto
<1>2. ASSUME NEW o \in Openers, OpenLock(o) PROVE FlocksMatchDescriptors'
  BY <1>2 DEF OpenLock, Goto
<1>3. ASSUME NEW o \in Openers, TakeLock(o) PROVE FlocksMatchDescriptors'
  BY <1>3 DEF TakeLock, Goto
<1>4. ASSUME NEW o \in Openers, InitializeFails(o) PROVE FlocksMatchDescriptors'
  BY <1>4 DEF InitializeFails, TryAgain, Close, Goto
<1>5. ASSUME NEW o \in Openers, CheckStale(o) PROVE FlocksMatchDescriptors'
  BY <1>5 DEF CheckStale, TryAgain, Goto
<1>6. ASSUME NEW o \in Openers, RemoveLock(o) PROVE FlocksMatchDescriptors'
  BY <1>6 DEF RemoveLock, Goto
<1>7. ASSUME NEW o \in Openers, Leave(o) PROVE FlocksMatchDescriptors'
  BY <1>7 DEF Leave, Close, Goto
<1>8. ASSUME NEW p \in Probers, ProbeOpen(p) PROVE FlocksMatchDescriptors'
  BY <1>8 DEF ProbeOpen, Goto, Connected
<1>9. ASSUME NEW p \in Probers, ProbeLock(p) PROVE FlocksMatchDescriptors'
  BY <1>9 DEF ProbeLock, Goto
<1>10. ASSUME NEW p \in Probers, ProbeReturn(p) PROVE FlocksMatchDescriptors'
  BY <1>10 DEF ProbeReturn, Close, Goto
<1>11. CASE UNCHANGED lockVars
  BY <1>11 DEF lockVars
<1> QED
  BY <1>1, <1>2, <1>3, <1>4, <1>5, <1>6, <1>7, <1>8, <1>9, <1>10, <1>11
     DEF LockNext, OpenerStep

\* Only a removal gives the name to another inode while one is open.
LEMMA NextOpenersShareTheFile == LockInv /\ [LockNext]_lockVars => OpenersShareTheFile'
<1> SUFFICES ASSUME LockInv, [LockNext]_lockVars PROVE OpenersShareTheFile'
  OBVIOUS
<1> USE LockAssumption DEF NewCall, LockInv, LockTypeOK, Actors, DescriptorsMatchSteps,
                           OpenersShareTheFile
<1>1. ASSUME NEW o \in Openers, Connect(o) PROVE OpenersShareTheFile'
  BY <1>1 DEF Connect, Goto
<1>2. ASSUME NEW o \in Openers, OpenLock(o) PROVE OpenersShareTheFile'
  BY <1>2 DEF OpenLock, Goto
<1>3. ASSUME NEW o \in Openers, TakeLock(o) PROVE OpenersShareTheFile'
  BY <1>3 DEF TakeLock, Goto
<1>4. ASSUME NEW o \in Openers, InitializeFails(o) PROVE OpenersShareTheFile'
  BY <1>4 DEF InitializeFails, TryAgain, Close, Goto
<1>5. ASSUME NEW o \in Openers, CheckStale(o) PROVE OpenersShareTheFile'
  BY <1>5 DEF CheckStale, TryAgain, Goto
<1>6. ASSUME NEW o \in Openers, RemoveLock(o) PROVE OpenersShareTheFile'
  BY <1>6 DEF RemoveLock, Goto
<1>7. ASSUME NEW o \in Openers, Leave(o) PROVE OpenersShareTheFile'
  BY <1>7 DEF Leave, Close, Goto
<1>8. ASSUME NEW p \in Probers, ProbeOpen(p) PROVE OpenersShareTheFile'
  BY <1>8 DEF ProbeOpen, Goto, Connected
<1>9. ASSUME NEW p \in Probers, ProbeLock(p) PROVE OpenersShareTheFile'
  BY <1>9 DEF ProbeLock, Goto
<1>10. ASSUME NEW p \in Probers, ProbeReturn(p) PROVE OpenersShareTheFile'
  BY <1>10 DEF ProbeReturn, Close, Goto
<1>11. CASE UNCHANGED lockVars
  BY <1>11 DEF lockVars
<1> QED
  BY <1>1, <1>2, <1>3, <1>4, <1>5, <1>6, <1>7, <1>8, <1>9, <1>10, <1>11
     DEF LockNext, OpenerStep

\* A steadily connected opener's flock is the one the probe meets.
LEMMA NextProbesShareTheFile == LockInv /\ [LockNext]_lockVars => ProbesShareTheFile'
<1> SUFFICES ASSUME LockInv, [LockNext]_lockVars PROVE ProbesShareTheFile'
  OBVIOUS
<1> USE LockAssumption
    DEF NewCall, LockInv, LockTypeOK, Actors, DescriptorsMatchSteps, FlocksMatchDescriptors,
        OpenersShareTheFile, ProbesShareTheFile
<1>1. ASSUME NEW o \in Openers, Connect(o) PROVE ProbesShareTheFile'
  BY <1>1 DEF Connect, Goto
<1>2. ASSUME NEW o \in Openers, OpenLock(o) PROVE ProbesShareTheFile'
  BY <1>2 DEF OpenLock, Goto
<1>3. ASSUME NEW o \in Openers, TakeLock(o) PROVE ProbesShareTheFile'
  BY <1>3 DEF TakeLock, Goto
<1>4. ASSUME NEW o \in Openers, InitializeFails(o) PROVE ProbesShareTheFile'
  BY <1>4 DEF InitializeFails, TryAgain, Close, Goto
<1>5. ASSUME NEW o \in Openers, CheckStale(o) PROVE ProbesShareTheFile'
  BY <1>5 DEF CheckStale, TryAgain, Goto
<1>6. ASSUME NEW o \in Openers, RemoveLock(o) PROVE ProbesShareTheFile'
  BY <1>6 DEF RemoveLock, Goto
<1>7. ASSUME NEW o \in Openers, Leave(o) PROVE ProbesShareTheFile'
  BY <1>7 DEF Leave, Close, Goto
<1>8. ASSUME NEW p \in Probers, ProbeOpen(p) PROVE ProbesShareTheFile'
  BY <1>8 DEF ProbeOpen, Goto, Connected
<1>9. ASSUME NEW p \in Probers, ProbeLock(p) PROVE ProbesShareTheFile'
  BY <1>9 DEF ProbeLock, Goto
<1>10. ASSUME NEW p \in Probers, ProbeReturn(p) PROVE ProbesShareTheFile'
  BY <1>10 DEF ProbeReturn, Close, Goto
<1>11. CASE UNCHANGED lockVars
  BY <1>11 DEF lockVars
<1> QED
  BY <1>1, <1>2, <1>3, <1>4, <1>5, <1>6, <1>7, <1>8, <1>9, <1>10, <1>11
     DEF LockNext, OpenerStep

LEMMA SpecLockInv == LockSpec => []LockInv
<1>1. LockInv /\ [LockNext]_lockVars => LockInv'
  BY NextLockTypeOK, NextDescriptorsMatchSteps, NextFlocksMatchDescriptors,
     NextOpenersShareTheFile, NextProbesShareTheFile DEF LockInv
<1> QED
  BY <1>1, InitLockInv, PTL DEF LockSpec

\* Type correctness of the lock file, the flocks and every actor.
THEOREM SpecLockTypeOK == LockSpec => []LockTypeOK
<1>1. LockInv => LockTypeOK
  BY DEF LockInv
<1> QED
  BY <1>1, SpecLockInv, PTL

\* The database has one owner unless an opener's recovery removed a LOCK file
\* that another opener had open: no other interleaving of retries, deaths and
\* probes breaks the exclusion.
THEOREM SpecExclusiveUntilUsurped == LockSpec => []ExclusiveUntilUsurped
<1>1. LockInv => ExclusiveUntilUsurped
  BY DEF LockInv, DescriptorsMatchSteps, FlocksMatchDescriptors, OpenersShareTheFile,
     ExclusiveUntilUsurped, Connected
<1> QED
  BY <1>1, SpecLockInv, PTL

\* lock_is_held is not fooled by an owner that is there throughout.
THEOREM SpecProbeSeesTheHolder == LockSpec => []ProbeSeesTheHolder
<1>1. LockInv => ProbeSeesTheHolder
  BY DEF LockInv, LockTypeOK, ProbesShareTheFile, ProbeSeesTheHolder
<1> QED
  BY <1>1, SpecLockInv, PTL

-----------------------------------------------------------------------------
(* LazyConnect: the openers are operations of clients.                     *)

HandleTypeOK ==
    /\ handle \in [Clients -> Openers \cup {None}]
    /\ op \in [Openers -> {"idle", "connecting", "using"}]
    /\ crowded \in BOOLEAN

\* An open connection is on its way to its client or the one the client has.
ConnectionsHaveAnOwner ==
    /\ \A o \in Openers : op[o] = "connecting" => pc[o] # "idle"
    /\ \A o \in Openers : op[o] # "connecting" /\ pc[o] # "idle" =>
           pc[o] = "connected" /\ handle[ClientOf[o]] = o
    /\ \A c \in Clients : handle[c] # None =>
           /\ ClientOf[handle[c]] = c
           /\ pc[handle[c]] = "connected"
           /\ op[handle[c]] # "connecting"

\* Without overlap, one operation at most has anything to do with the lock.
OneAtATime ==
    ~crowded => /\ ~usurped
                /\ \A o, q \in Openers : pc[o] # "idle" /\ pc[q] # "idle" => o = q

HInv ==
    /\ HandleTypeOK
    /\ ConnectionsHaveAnOwner
    /\ OneAtATime

LEMMA InitInvariants == ConnectInit => HInv /\ LockInv
<1> SUFFICES ASSUME ConnectInit PROVE HInv /\ LockInv
  OBVIOUS
<1>1. LockInit
  BY DEF ConnectInit, LockInit, Actors
<1>2. LockInv
  BY <1>1, InitLockInv
<1>3. HandleTypeOK
  BY DEF ConnectInit, HandleTypeOK
<1>4. ConnectionsHaveAnOwner
  BY DEF ConnectInit, LockInit, Actors, ConnectionsHaveAnOwner
<1>5. OneAtATime
  BY DEF ConnectInit, LockInit, Actors, OneAtATime
<1> QED
  BY <1>2, <1>3, <1>4, <1>5 DEF HInv

\* Every action of the clients takes one of DbLock's or leaves the lock alone, so
\* the invariants of the openers carry over.
LEMMA NextImplements == HInv /\ [ConnectNext]_connectVars => [LockNext]_lockVars
<1> SUFFICES ASSUME HInv, [ConnectNext]_connectVars PROVE [LockNext]_lockVars
  OBVIOUS
<1> USE DEF lockVars
<1>1. ASSUME NEW o \in Openers, Begin(o) PROVE [LockNext]_lockVars
  BY <1>1 DEF Begin, LockNext
<1>2. ASSUME NEW o \in Openers, ConnectStep(o) PROVE [LockNext]_lockVars
  BY <1>2 DEF ConnectStep, LockNext
<1>3. ASSUME NEW o \in Openers, Install(o) PROVE [LockNext]_lockVars
  BY <1>3 DEF Install, LockNext
<1>4. ASSUME NEW o \in Openers, Finish(o) PROVE [LockNext]_lockVars
  BY <1>4 DEF Finish
<1>5. ASSUME NEW o \in Openers, Cancel(o) PROVE [LockNext]_lockVars
  BY <1>5 DEF Cancel, LockNext
<1>6. ASSUME NEW c \in Clients, Drop(c) PROVE [LockNext]_lockVars
  <2>1. handle[c] \in Openers
    BY <1>6 DEF Drop, HInv, HandleTypeOK
  <2> QED
    BY <1>6, <2>1 DEF Drop, LockNext
<1>7. CASE UNCHANGED connectVars
  BY <1>7 DEF connectVars, lockVars
<1> QED
  BY <1>1, <1>2, <1>3, <1>4, <1>5, <1>6, <1>7 DEF ConnectNext

LEMMA NextLockInvariant == HInv /\ LockInv /\ [ConnectNext]_connectVars => LockInv'
  BY NextImplements, NextLockTypeOK, NextDescriptorsMatchSteps,
     NextFlocksMatchDescriptors, NextOpenersShareTheFile, NextProbesShareTheFile
  DEF LockInv

LEMMA NextHandleTypeOK == HInv /\ [ConnectNext]_connectVars => HandleTypeOK'
<1> SUFFICES ASSUME HInv, [ConnectNext]_connectVars PROVE HandleTypeOK'
  OBVIOUS
<1> USE ClientAssumption, LockAssumption DEF HInv, HandleTypeOK, Become
<1>1. crowded' \in BOOLEAN
  BY DEF ConnectNext, Begin, ConnectStep, Install, Finish, Cancel, Drop, connectVars, lockVars
<1>2. op' \in [Openers -> {"idle", "connecting", "using"}]
  BY DEF ConnectNext, Begin, ConnectStep, Install, Finish, Cancel, Drop, connectVars, lockVars
<1>3. handle' \in [Clients -> Openers \cup {None}]
  BY DEF ConnectNext, Begin, ConnectStep, Install, Finish, Cancel, Drop, connectVars, lockVars
<1> QED
  BY <1>1, <1>2, <1>3

\* Where a step of an opener leads, and that it leaves the others alone.
LEMMA StepsOfOneOpener ==
    ASSUME LockInv, NEW o \in Openers
    PROVE  /\ Connect(o) => /\ pc[o] = "idle"
                                 /\ pc' = [pc EXCEPT ![o] = "opening"]
                                 /\ usurped' = usurped
           /\ OpenerStep(o) => /\ pc[o] # "idle" /\ pc[o] # "connected"
                                    /\ pc' = [pc EXCEPT ![o] = pc'[o]]
           /\ Leave(o) => pc' = [pc EXCEPT ![o] = "idle"] /\ usurped' = usurped
<1> USE DEF LockInv, LockTypeOK, Actors, Goto
<1>1. Connect(o) => /\ pc[o] = "idle"
                         /\ pc' = [pc EXCEPT ![o] = "opening"]
                         /\ usurped' = usurped
  BY DEF Connect
<1>2. OpenerStep(o) => /\ pc[o] # "idle" /\ pc[o] # "connected"
                            /\ pc' = [pc EXCEPT ![o] = pc'[o]]
  BY DEF OpenerStep, OpenLock, TakeLock, InitializeFails,
         CheckStale, RemoveLock, TryAgain
<1>3. Leave(o) => pc' = [pc EXCEPT ![o] = "idle"] /\ usurped' = usurped
  BY DEF Leave
<1> QED
  BY <1>1, <1>2, <1>3

LEMMA NextConnectionsHaveAnOwner ==
    HInv /\ LockInv /\ [ConnectNext]_connectVars => ConnectionsHaveAnOwner'
<1> SUFFICES ASSUME HInv, LockInv, [ConnectNext]_connectVars PROVE ConnectionsHaveAnOwner'
  OBVIOUS
<1> USE ClientAssumption, LockAssumption
    DEF HInv, HandleTypeOK, ConnectionsHaveAnOwner, LockInv, LockTypeOK, Actors, Become
<1>1. ASSUME NEW o \in Openers, Begin(o) PROVE ConnectionsHaveAnOwner'
  <2>1. CASE handle[ClientOf[o]] # None
    BY <1>1, <2>1 DEF Begin, lockVars
  <2>2. CASE handle[ClientOf[o]] = None
    BY <1>1, <2>2, StepsOfOneOpener DEF Begin
  <2> QED
    BY <2>1, <2>2
<1>2. ASSUME NEW o \in Openers, ConnectStep(o) PROVE ConnectionsHaveAnOwner'
  <2>1. op[o] = "connecting" /\ handle' = handle /\ pc[o] # "idle"
    BY <1>2 DEF ConnectStep
  <2>2. pc' = [pc EXCEPT ![o] = pc'[o]]
    BY <1>2, StepsOfOneOpener DEF ConnectStep
  <2>3. CASE pc'[o] = "idle"
    <3>1. op' = [op EXCEPT ![o] = "idle"]
      BY <1>2, <2>3 DEF ConnectStep
    <3> QED
      BY <2>1, <2>2, <2>3, <3>1
  <2>4. CASE pc'[o] # "idle"
    <3>1. op' = op
      BY <1>2, <2>4 DEF ConnectStep
    <3> QED
      BY <2>1, <2>2, <2>4, <3>1
  <2> QED
    BY <2>3, <2>4
<1>3. ASSUME NEW o \in Openers, Install(o) PROVE ConnectionsHaveAnOwner'
  <2>1. CASE handle[ClientOf[o]] = None
    BY <1>3, <2>1 DEF Install, lockVars
  <2>2. CASE handle[ClientOf[o]] # None
    BY <1>3, <2>2, StepsOfOneOpener DEF Install
  <2> QED
    BY <2>1, <2>2
<1>4. ASSUME NEW o \in Openers, Finish(o) PROVE ConnectionsHaveAnOwner'
  BY <1>4 DEF Finish, lockVars
<1>5. ASSUME NEW o \in Openers, Cancel(o) PROVE ConnectionsHaveAnOwner'
  BY <1>5, StepsOfOneOpener DEF Cancel
<1>6. ASSUME NEW c \in Clients, Drop(c) PROVE ConnectionsHaveAnOwner'
  <2>1. handle[c] \in Openers
    BY <1>6 DEF Drop
  <2> QED
    BY <1>6, <2>1, StepsOfOneOpener DEF Drop
<1>7. CASE UNCHANGED connectVars
  BY <1>7 DEF connectVars, lockVars
<1> QED
  BY <1>1, <1>2, <1>3, <1>4, <1>5, <1>6, <1>7 DEF ConnectNext

\* The only opener there is has no other's LOCK file to remove.
LEMMA NextOneAtATime == HInv /\ LockInv /\ [ConnectNext]_connectVars => OneAtATime'
<1> SUFFICES ASSUME HInv, LockInv, [ConnectNext]_connectVars PROVE OneAtATime'
  OBVIOUS
<1> USE ClientAssumption, LockAssumption
    DEF HInv, HandleTypeOK, OneAtATime, LockInv, LockTypeOK, Actors, Become
<1>1. ASSUME NEW o \in Openers, Begin(o) PROVE OneAtATime'
  <2>1. CASE handle[ClientOf[o]] # None
    BY <1>1, <2>1 DEF Begin, lockVars
  <2>2. CASE handle[ClientOf[o]] = None
    <3> SUFFICES ASSUME ~crowded' PROVE OneAtATime'
      OBVIOUS
    <3>1. Connect(o) /\ ~crowded /\ ~Crowds(o)
      BY <1>1, <2>2 DEF Begin
    <3>2. \A q \in Openers : pc[q] = "idle"
      BY <2>2, <3>1 DEF Crowds, ConnectionsHaveAnOwner
    <3> QED
      BY <3>1, <3>2, StepsOfOneOpener
  <2> QED
    BY <2>1, <2>2
<1>2. ASSUME NEW o \in Openers, ConnectStep(o) PROVE OneAtATime'
  <2> SUFFICES ASSUME ~crowded' PROVE OneAtATime'
    OBVIOUS
  <2>1. OpenerStep(o) /\ ~crowded
    BY <1>2 DEF ConnectStep
  <2>2. \A q \in Openers : q # o => pc[q] = "idle"
    BY <2>1, StepsOfOneOpener
  <2>3. usurped' = usurped
    <3>1. RemoveLock(o) => \A q \in Openers : fd[q] = None
      BY <2>2 DEF RemoveLock, DescriptorsMatchSteps
    <3> QED
      BY <2>1, <3>1
         DEF OpenerStep, OpenLock, TakeLock, InitializeFails,
             CheckStale, RemoveLock, Goto
  <2> QED
    BY <2>1, <2>2, <2>3, StepsOfOneOpener
<1>3. ASSUME NEW o \in Openers, Install(o) PROVE OneAtATime'
  BY <1>3, StepsOfOneOpener DEF Install, lockVars
<1>4. ASSUME NEW o \in Openers, Finish(o) PROVE OneAtATime'
  BY <1>4 DEF Finish, lockVars
<1>5. ASSUME NEW o \in Openers, Cancel(o) PROVE OneAtATime'
  BY <1>5, StepsOfOneOpener DEF Cancel
<1>6. ASSUME NEW c \in Clients, Drop(c) PROVE OneAtATime'
  <2>1. handle[c] \in Openers
    BY <1>6 DEF Drop
  <2> QED
    BY <1>6, <2>1, StepsOfOneOpener DEF Drop
<1>7. CASE UNCHANGED connectVars
  BY <1>7 DEF connectVars, lockVars
<1> QED
  BY <1>1, <1>2, <1>3, <1>4, <1>5, <1>6, <1>7 DEF ConnectNext

LEMMA SpecInvariants == ConnectSpec => [](HInv /\ LockInv)
<1>1. HInv /\ LockInv /\ [ConnectNext]_connectVars => HInv' /\ LockInv'
  BY NextHandleTypeOK, NextConnectionsHaveAnOwner, NextOneAtATime, NextLockInvariant DEF HInv
<1> QED
  BY <1>1, InitInvariants, PTL DEF ConnectSpec

\* Type correctness, the lock's part included.
THEOREM SpecConnectTypeOK == ConnectSpec => []ConnectTypeOK
<1>1. HInv /\ LockInv => ConnectTypeOK
  BY DEF HInv, HandleTypeOK, LockInv, LockTypeOK, ConnectTypeOK, Actors,
         OpenerLabels, ProberLabels
<1> QED
  BY <1>1, SpecInvariants, PTL

\* A client's connection is never lost and never left over, and it has the lock
\* as long as no operation connected beside another.
THEOREM SpecHandleKeepsItsLock == ConnectSpec => []HandleKeepsItsLock
<1>1. HInv /\ LockInv => HandleKeepsItsLock
  <2> SUFFICES ASSUME HInv, LockInv PROVE HandleKeepsItsLock
    OBVIOUS
  <2> USE DEF HInv, HandleTypeOK, ConnectionsHaveAnOwner
  <2>1. ASSUME NEW c \in Clients, handle[c] # None, ~crowded
        PROVE  fd[handle[c]] = lockFile /\ holder[lockFile] = handle[c]
    <3>1. handle[c] \in Openers /\ pc[handle[c]] = "connected"
      BY <2>1
    <3>2. fd[handle[c]] # None /\ holder[fd[handle[c]]] = handle[c]
      BY <3>1 DEF LockInv, DescriptorsMatchSteps, FlocksMatchDescriptors
    <3>3. fd[handle[c]] = lockFile
      BY <2>1, <3>1, <3>2 DEF OneAtATime, LockInv, OpenersShareTheFile
    <3> QED
      BY <3>2, <3>3
  <2> QED
    BY <2>1 DEF HandleKeepsItsLock
<1> QED
  BY <1>1, SpecInvariants, PTL

-----------------------------------------------------------------------------
(* Migrations: any runners and profiles.                                   *)

\* The statements of which a record may be taken to speak.
Accounted == defined \cup lost \cup refused \cup {t \in {"users"} : implicit}

\* A runner that applies a version has a statement of it to execute.
NextIsThere ==
    \A r \in Runners : At(r, "apply") => run[r].next \in DOMAIN AllMigrations[run[r].version]

\* A runner has executed the statements of its version before the next one.
AppliedSoFar ==
    \A r \in Runners :
        /\ At(r, "apply") => \A k \in DOMAIN AllMigrations[run[r].version] :
                                 k < run[r].next => AllMigrations[run[r].version][k] \in Accounted
        /\ At(r, "record") => Statements(run[r].version) \subseteq Accounted

\* A runner has dealt with the versions before its own, and those it found
\* applied are recorded.
Dealt(w) == recorded[w] > 0 \/ MigrationNames[w] \in lost

EarlierAreDealtWith ==
    \A r \in Runners :
        /\ \A w \in run[r].applied : recorded[w] > 0
        /\ run[r].at \in {"apply", "record"} =>
               \A w \in Versions : w < run[r].version => Dealt(w)

\* The index on _migrations is there before anything is recorded.
KeyBeforeRecords ==
    "_migrations_version_unique" \notin lost =>
        /\ \A v \in Versions : recorded[v] <= 1
        /\ \A r \in Runners : run[r].at \in {"read", "apply", "record"} => versionKey

\* The engine's part: no clash under the unique index.
IndexMeansNoClash == "unique_email" \in defined => ~Clash

IInv ==
    /\ TypeOK /\ NextIsThere
    /\ RecordedMeansDefined /\ AppliedSoFar
    /\ RecordedOnceInOrder /\ EarlierAreDealtWith /\ KeyBeforeRecords
    /\ IndexMeansNoClash

-----------------------------------------------------------------------------
LEMMA VersionsAre == Versions = 1 .. 5
  BY DEF Versions, AllMigrations

LEMMA StatementsAre ==
    ASSUME NEW v \in Versions
    PROVE  /\ Len(AllMigrations[v]) \in 1 .. 3
           /\ DOMAIN AllMigrations[v] = 1 .. Len(AllMigrations[v])
<1>1. v \in 1 .. 5
  BY VersionsAre
<1>2. AllMigrations[v] \in {CreateUsersTable, CreateProjectsTable, CreateFileDataTable,
                            CreateGraphRelations, AddUniqueRootPath}
  BY <1>1 DEF AllMigrations
<1>3. /\ Len(CreateUsersTable) = 3 /\ DOMAIN CreateUsersTable = 1 .. 3
      /\ Len(CreateProjectsTable) = 3 /\ DOMAIN CreateProjectsTable = 1 .. 3
      /\ Len(CreateFileDataTable) = 3 /\ DOMAIN CreateFileDataTable = 1 .. 3
      /\ Len(CreateGraphRelations) = 1 /\ DOMAIN CreateGraphRelations = 1 .. 1
      /\ Len(AddUniqueRootPath) = 1 /\ DOMAIN AddUniqueRootPath = 1 .. 1
  BY DEF CreateUsersTable, CreateProjectsTable, CreateFileDataTable,
         CreateGraphRelations, AddUniqueRootPath
<1> QED
  BY <1>2, <1>3

\* Of some versions one is the first.
LEMMA FirstVersion ==
    ASSUME NEW P \in SUBSET Versions, P # {}
    PROVE  LET w == CHOOSE w \in P : \A x \in P : w <= x
           IN  w \in P /\ \A x \in P : w <= x
<1>1. P \subseteq 1 .. 5
  BY VersionsAre
<1>2. \E w \in P : \A x \in P : w <= x
  <2>1. CASE 1 \in P
    BY <1>1, <2>1
  <2>2. CASE 1 \notin P /\ 2 \in P
    BY <1>1, <2>2
  <2>3. CASE 1 \notin P /\ 2 \notin P /\ 3 \in P
    BY <1>1, <2>3
  <2>4. CASE 1 \notin P /\ 2 \notin P /\ 3 \notin P /\ 4 \in P
    BY <1>1, <2>4
  <2>5. CASE 1 \notin P /\ 2 \notin P /\ 3 \notin P /\ 4 \notin P
    <3>1. PICK w \in P : TRUE
      OBVIOUS
    <3>2. \A x \in P : x = 5
      BY <1>1, <2>5
    <3> QED
      BY <3>1, <3>2
  <2> QED
    BY <2>1, <2>2, <2>3, <2>4, <2>5
<1> QED
  BY <1>2

\* What Proceed does with the runner.
LEMMA ProceedMoves ==
    ASSUME NEW r \in Runners, NEW v \in 0 .. 5, NEW applied \in SUBSET Versions,
           run \in [Runners -> [at : {"idle", "read", "apply", "record", "verify", "verified"},
                                applied : SUBSET Versions, version : Versions, next : 1 .. 3]],
           Proceed(r, v, applied)
    PROVE  \E state \in [at : {"apply", "verify"}, applied : SUBSET Versions,
                         version : Versions, next : 1 .. 3] :
               /\ run' = [run EXCEPT ![r] = state]
               /\ state.next = 1
               /\ state.applied \subseteq applied
               /\ state.at = "apply" =>
                      \A w \in Versions : w < state.version => w <= v \/ w \in applied
<1> DEFINE pending == {w \in Versions : w > v /\ w \notin applied}
           first == CHOOSE w \in pending : \A x \in pending : w <= x
<1>1. CASE pending = {}
  <2> DEFINE state == [at |-> "verify", applied |-> {}, version |-> 1, next |-> 1]
  <2>1. run' = [run EXCEPT ![r] = state]
    BY <1>1 DEF Proceed, Move, Fresh
  <2>2. state \in [at : {"apply", "verify"}, applied : SUBSET Versions,
                   version : Versions, next : 1 .. 3]
    BY VersionsAre
  <2>3. state.at = "verify" /\ state.next = 1 /\ state.applied = {}
    OBVIOUS
  <2> HIDE DEF state
  <2> QED
    BY <2>1, <2>2, <2>3
<1>2. CASE pending # {}
  <2>1. first \in pending /\ \A x \in pending : first <= x
    BY <1>2, FirstVersion
  <2> DEFINE state == [at |-> "apply", applied |-> applied, next |-> 1, version |-> first]
  <2>2. run' = [run EXCEPT ![r] = state]
    BY <1>2 DEF Proceed, Move
  <2>3. \A w \in Versions : w < first => w <= v \/ w \in applied
    BY <2>1, VersionsAre
  <2>4. first \in Versions
    BY <2>1
  <2> HIDE DEF pending, first
  <2>5. state \in [at : {"apply", "verify"}, applied : SUBSET Versions,
                   version : Versions, next : 1 .. 3]
    BY <2>4
  <2>6. state.applied = applied /\ state.version = first /\ state.next = 1
    OBVIOUS
  <2> HIDE DEF state
  <2> QED
    BY <2>2, <2>3, <2>5, <2>6
<1> QED
  BY <1>1, <1>2

-----------------------------------------------------------------------------
LEMMA InitIInv == Init => IInv
<1> SUFFICES ASSUME Init PROVE IInv
  OBVIOUS
<1>1. TypeOK
  <2>1. Cardinality(lost) <= MaxFaults
    BY FS_EmptySet, MigrationsAssumption DEF Init
  <2>2. run \in [Runners -> [at : {"idle", "read", "apply", "record", "verify", "verified"},
                            applied : SUBSET Versions, version : Versions, next : 1 .. 3]]
    BY VersionsAre DEF Init, Fresh
  <2> QED
    BY <2>1, <2>2 DEF Init, TypeOK
<1>2. NextIsThere /\ RecordedMeansDefined /\ AppliedSoFar
  BY DEF Init, NextIsThere, RecordedMeansDefined, AppliedSoFar, At, Fresh
<1>3. RecordedOnceInOrder /\ EarlierAreDealtWith /\ KeyBeforeRecords
  BY DEF Init, RecordedOnceInOrder, EarlierAreDealtWith, KeyBeforeRecords, Fresh
<1>4. IndexMeansNoClash
  BY DEF Init, IndexMeansNoClash
<1> QED
  BY <1>1, <1>2, <1>3, <1>4 DEF IInv

\* Nothing that counts is undone, and only Record records.
LEMMA NothingIsUndone ==
    ASSUME TypeOK, [Next]_vars
    PROVE  /\ Accounted \subseteq Accounted'
           /\ lost \subseteq lost'
           /\ \A v \in Versions : recorded[v] > 0 => recorded'[v] > 0
           /\ recorded' = recorded \/ \E r \in Runners : Record(r)
<1> USE DEF TypeOK, Accounted, Unchecked, database
<1>1. ASSUME NEW r \in Runners, Bootstrap(r)
      PROVE  /\ Accounted \subseteq Accounted' /\ lost \subseteq lost' /\ recorded' = recorded
  BY <1>1 DEF Bootstrap
<1>2. ASSUME NEW r \in Runners, ReadApplied(r)
      PROVE  /\ Accounted \subseteq Accounted' /\ lost \subseteq lost' /\ recorded' = recorded
  BY <1>2 DEF ReadApplied
<1>3. ASSUME NEW r \in Runners, Apply(r)
      PROVE  /\ Accounted \subseteq Accounted' /\ lost \subseteq lost' /\ recorded' = recorded
  BY <1>3 DEF Apply, Define
<1>4. ASSUME NEW r \in Runners, Record(r)
      PROVE  /\ Accounted \subseteq Accounted' /\ lost \subseteq lost'
             /\ \A v \in Versions : recorded[v] > 0 => recorded'[v] > 0
  <2>1. Accounted \subseteq Accounted' /\ lost \subseteq lost'
    BY <1>4 DEF Record
  <2>2. recorded' = recorded \/ recorded' = [recorded EXCEPT ![run[r].version] = @ + 1]
    BY <1>4 DEF Record
  <2> QED
    BY <2>1, <2>2
<1>5. ASSUME NEW r \in Runners, Verify(r) \/ Abort(r)
      PROVE  /\ Accounted \subseteq Accounted' /\ lost \subseteq lost' /\ recorded' = recorded
  BY <1>5 DEF Verify, Abort
<1>6. ASSUME CreateProfile \/ UpdateProfile
      PROVE  /\ Accounted \subseteq Accounted' /\ lost \subseteq lost' /\ recorded' = recorded
  BY <1>6 DEF CreateProfile, UpdateProfile
<1>7. ASSUME UNCHANGED vars
      PROVE  /\ Accounted \subseteq Accounted' /\ lost \subseteq lost' /\ recorded' = recorded
  BY <1>7 DEF vars
<1> QED
  BY <1>1, <1>2, <1>3, <1>4, <1>5, <1>6, <1>7 DEF Next

\* What becomes of the runners: each step moves one, or none.
RunType == [at : {"idle", "read", "apply", "record", "verify", "verified"},
            applied : SUBSET Versions, version : Versions, next : 1 .. 3]

LEMMA FreshIsARunner ==
    ASSUME NEW l \in {"idle", "read", "verify", "verified"}
    PROVE  Fresh(l) \in RunType
  BY VersionsAre DEF Fresh, RunType

LEMMA ApplyMoves ==
    ASSUME TypeOK, NEW r \in Runners, Apply(r)
    PROVE  /\ run' = [run EXCEPT ![r] = run'[r]] /\ run'[r] \in RunType
           /\ run'[r].version = run[r].version /\ run'[r].applied = run[r].applied
           /\ \/ run'[r].at = "apply" /\ run'[r].next = run[r].next + 1
                 /\ run[r].next < Len(AllMigrations[run[r].version])
              \/ run'[r].at = "record" /\ run[r].next >= Len(AllMigrations[run[r].version])
<1>0. run[r].at = "apply"
  BY DEF Apply, At
<1>1. run[r] \in RunType /\ run \in [Runners -> RunType]
  BY DEF TypeOK, RunType
<1>2. /\ Len(AllMigrations[run[r].version]) \in 1 .. 3
      /\ DOMAIN AllMigrations[run[r].version] = 1 .. Len(AllMigrations[run[r].version])
  BY <1>1, StatementsAre DEF RunType
<1> DEFINE todo == AllMigrations[run[r].version]
           more == [run[r] EXCEPT !.next = run[r].next + 1]
           done == [run[r] EXCEPT !.at = "record"]
<1>3. Move(r, IF run[r].next < Len(todo) THEN more ELSE done)
  BY DEF Apply
<1>4. CASE run[r].next < Len(todo)
  <2>1. more \in RunType
    <3>1. run[r].next + 1 \in 1 .. 3
      <4>1. run[r].next \in 1 .. 3
        BY <1>1 DEF RunType
      <4>2. Len(todo) \in 1 .. 3
        BY <1>2
      <4>3. \A n, m \in 1 .. 3 : n < m => n + 1 \in 1 .. 3
        OBVIOUS
      <4> HIDE DEF todo
      <4> QED
        BY <1>4, <4>1, <4>2, <4>3, Zenon
    <3> QED
      BY <1>1, <3>1 DEF RunType
  <2>2. /\ more.version = run[r].version /\ more.applied = run[r].applied
        /\ more.at = "apply" /\ more.next = run[r].next + 1
    BY <1>1, <1>0 DEF RunType
  <2> HIDE DEF more
  <2>3. run' = [run EXCEPT ![r] = more]
    BY <1>3, <1>4 DEF Move
  <2> QED
    BY <1>1, <1>4, <2>1, <2>2, <2>3
<1>5. CASE ~(run[r].next < Len(todo))
  <2>1. done \in RunType
    BY <1>1 DEF RunType
  <2>2. /\ done.version = run[r].version /\ done.applied = run[r].applied
        /\ done.at = "record"
    BY <1>1 DEF RunType
  <2>3. run[r].next >= Len(todo)
    BY <1>1, <1>2, <1>5 DEF RunType
  <2> HIDE DEF done
  <2>4. run' = [run EXCEPT ![r] = done]
    BY <1>3, <1>5 DEF Move
  <2> QED
    BY <1>1, <2>1, <2>2, <2>3, <2>4
<1> QED
  BY <1>4, <1>5

\* ReadApplied and Record go on to a version all earlier of which are dealt with.
LEMMA ReadMoves ==
    ASSUME TypeOK, NEW r \in Runners, ReadApplied(r)
    PROVE  /\ run' = [run EXCEPT ![r] = run'[r]] /\ run'[r] \in RunType
           /\ run'[r].at \in {"apply", "verify"} /\ run'[r].next = 1
           /\ \A w \in run'[r].applied : recorded[w] > 0
           /\ run'[r].at = "apply" =>
                  \A w \in Versions : w < run'[r].version => recorded[w] > 0
<1> DEFINE found == {v \in Versions : recorded[v] > 0}
<1>1. Proceed(r, 0, found)
  BY DEF ReadApplied
<1>2. run \in [Runners -> RunType] /\ found \in SUBSET Versions
  BY DEF TypeOK, RunType
<1>3. PICK state \in [at : {"apply", "verify"}, applied : SUBSET Versions,
                      version : Versions, next : 1 .. 3] :
         /\ run' = [run EXCEPT ![r] = state]
         /\ state.next = 1
         /\ state.applied \subseteq found
         /\ state.at = "apply" =>
                \A w \in Versions : w < state.version => w <= 0 \/ w \in found
  BY <1>1, <1>2, ProceedMoves DEF RunType
<1>4. run'[r] = state
  BY <1>2, <1>3
<1>5. state \in RunType /\ state.at \in {"apply", "verify"}
  BY DEF RunType
<1>6. \A w \in Versions : ~(w <= 0)
  BY VersionsAre
<1> QED
  BY <1>3, <1>4, <1>5, <1>6

LEMMA RecordMoves ==
    ASSUME TypeOK, NEW r \in Runners, Record(r)
    PROVE  /\ run' = [run EXCEPT ![r] = run'[r]] /\ run'[r] \in RunType
           /\ run'[r].at \in {"apply", "verify"} /\ run'[r].next = 1
           /\ run'[r].applied \subseteq run[r].applied
           /\ run'[r].at = "apply" =>
                  \A w \in Versions : w < run'[r].version =>
                      w <= run[r].version \/ w \in run[r].applied
<1>1. Proceed(r, run[r].version, run[r].applied)
  BY DEF Record
<1>2. run \in [Runners -> RunType]
  BY DEF TypeOK, RunType
<1>3. run[r].version \in 0 .. 5 /\ run[r].applied \in SUBSET Versions
  BY <1>2, VersionsAre DEF RunType
<1>4. PICK state \in [at : {"apply", "verify"}, applied : SUBSET Versions,
                      version : Versions, next : 1 .. 3] :
         /\ run' = [run EXCEPT ![r] = state]
         /\ state.next = 1
         /\ state.applied \subseteq run[r].applied
         /\ state.at = "apply" =>
                \A w \in Versions : w < state.version =>
                    w <= run[r].version \/ w \in run[r].applied
  BY <1>1, <1>2, <1>3, ProceedMoves DEF RunType
<1>5. run'[r] = state
  BY <1>2, <1>4
<1>6. state \in RunType /\ state.at \in {"apply", "verify"}
  BY DEF RunType
<1> QED
  BY <1>4, <1>5, <1>6

\* What the other steps of a runner do with it.
LEMMA OtherMoves ==
    ASSUME TypeOK, NEW r \in Runners,
           Bootstrap(r) \/ Verify(r) \/ Abort(r)
    PROVE  /\ run' = [run EXCEPT ![r] = run'[r]] /\ run'[r] \in RunType
           /\ run'[r].applied = {}
           /\ (run'[r].at = "read" /\ Bootstrap(r)) \/ run'[r].at \in {"idle", "verified"}
<1>1. run \in [Runners -> RunType]
  BY DEF TypeOK, RunType
<1>2. PICK l \in {"idle", "read", "verified"} :
         run' = [run EXCEPT ![r] = Fresh(l)] /\ (l = "read" => Bootstrap(r))
  BY DEF Bootstrap, Verify, Abort, Move
<1>3. Fresh(l) \in RunType /\ Fresh(l).at = l /\ Fresh(l).applied = {}
  BY FreshIsARunner DEF Fresh
<1>4. run'[r] = Fresh(l)
  BY <1>1, <1>2
<1> QED
  BY <1>2, <1>3, <1>4

LEMMA NextTypeOK == TypeOK /\ NextIsThere /\ [Next]_vars => TypeOK'
<1> SUFFICES ASSUME TypeOK, NextIsThere, [Next]_vars PROVE TypeOK'
  OBVIOUS
<1>1. run' \in [Runners -> RunType]
  <2>1. run \in [Runners -> RunType]
    BY DEF TypeOK, RunType
  <2>2. run' = run \/ \E r \in Runners : run' = [run EXCEPT ![r] = run'[r]] /\ run'[r] \in RunType
    BY ApplyMoves, ReadMoves, RecordMoves, OtherMoves
       DEF Next, CreateProfile, UpdateProfile, vars
  <2> QED
    BY <2>1, <2>2
<1>2. recorded' \in [Versions -> Nat]
  <2>1. ASSUME NEW r \in Runners, Record(r) PROVE recorded' \in [Versions -> Nat]
    <3>1. recorded' = recorded \/ recorded' = [recorded EXCEPT ![run[r].version] = @ + 1]
      BY <2>1 DEF Record, Unchecked, database
    <3> QED
      BY <3>1 DEF TypeOK
  <2> QED
    BY <2>1, NothingIsUndone DEF TypeOK
<1>3. Cardinality(lost') <= MaxFaults
  BY DEF TypeOK, Next, Bootstrap, ReadApplied, Apply, Record, Verify, Abort, Unchecked,
         CreateProfile, UpdateProfile, vars
<1>4. implicit' \in BOOLEAN /\ versionKey' \in BOOLEAN
  BY DEF TypeOK, Next, Bootstrap, ReadApplied, Apply, Define, Record, Verify, Abort, Unchecked,
         CreateProfile, UpdateProfile, database, vars
<1>5. users' \in [Profiles -> Emails \cup {NoProfile}]
  BY DEF TypeOK, Next, Bootstrap, ReadApplied, Apply, Record, Verify, Abort,
         CreateProfile, UpdateProfile, Write, Live, vars
<1>6. defined' \subseteq AllStatements /\ refused' \subseteq AllStatements
  <2>1. ASSUME NEW r \in Runners, Apply(r)
        PROVE  defined' \subseteq AllStatements /\ refused' \subseteq AllStatements
    <3> DEFINE s == AllMigrations[run[r].version][run[r].next]
    <3>1. defined' \subseteq defined \cup {s} /\ refused' \subseteq refused \cup {s}
      BY <2>1 DEF Apply, Unchecked, Define, database
    <3>2. run[r].version \in Versions
      BY DEF TypeOK
    <3>3. s \in Statements(run[r].version)
      BY <2>1 DEF Apply, NextIsThere, Statements
    <3> QED
      BY <3>1, <3>2, <3>3 DEF AllStatements, TypeOK
  <2> QED
    BY <2>1 DEF TypeOK, Next, Bootstrap, ReadApplied, Record, Verify, Abort, Unchecked,
                CreateProfile, UpdateProfile, database, vars
<1> QED
  BY <1>1, <1>2, <1>3, <1>4, <1>5, <1>6 DEF TypeOK, RunType

LEMMA NextNextIsThere == TypeOK /\ NextIsThere /\ [Next]_vars => NextIsThere'
<1> SUFFICES ASSUME TypeOK, NextIsThere, [Next]_vars PROVE NextIsThere'
  OBVIOUS
<1>1. run \in [Runners -> RunType]
  BY DEF TypeOK, RunType
<1>2. ASSUME NEW r \in Runners, run' = [run EXCEPT ![r] = run'[r]],
             run'[r].at = "apply" => run'[r].next \in DOMAIN AllMigrations[run'[r].version]
      PROVE  NextIsThere'
  BY <1>1, <1>2 DEF NextIsThere, At
<1>3. ASSUME NEW r \in Runners, Apply(r) PROVE NextIsThere'
  <2>1. run[r] \in RunType
    BY <1>1
  <2>2. /\ Len(AllMigrations[run[r].version]) \in 1 .. 3
        /\ DOMAIN AllMigrations[run[r].version] = 1 .. Len(AllMigrations[run[r].version])
    BY <2>1, StatementsAre DEF RunType
  <2>3. \A n, m \in 1 .. 3 : n < m => n + 1 \in 1 .. m
    OBVIOUS
  <2>4. run[r].next \in 1 .. 3
    BY <2>1 DEF RunType
  <2>5. run'[r].at = "apply" => run'[r].next \in DOMAIN AllMigrations[run'[r].version]
    BY <1>3, <2>2, <2>3, <2>4, ApplyMoves
  <2> QED
    BY <1>2, <1>3, <2>5, ApplyMoves
<1>4. ASSUME NEW r \in Runners, ReadApplied(r) \/ Record(r) PROVE NextIsThere'
  <2>1. run' = [run EXCEPT ![r] = run'[r]] /\ run'[r] \in RunType /\ run'[r].next = 1
    BY <1>4, ReadMoves, RecordMoves
  <2>2. 1 \in DOMAIN AllMigrations[run'[r].version]
    BY <2>1, StatementsAre DEF RunType
  <2> QED
    BY <1>2, <2>1, <2>2
<1>5. ASSUME NEW r \in Runners, Bootstrap(r) \/ Verify(r) \/ Abort(r) PROVE NextIsThere'
  BY <1>2, <1>5, OtherMoves
<1>6. CASE run' = run
  BY <1>6 DEF NextIsThere, At
<1> QED
  BY <1>3, <1>4, <1>5, <1>6 DEF Next, CreateProfile, UpdateProfile, vars

\* A version is recorded when its statements have been executed.
LEMMA NextRecordedMeansDefined ==
    TypeOK /\ RecordedMeansDefined /\ AppliedSoFar /\ [Next]_vars => RecordedMeansDefined'
<1> SUFFICES ASSUME TypeOK, RecordedMeansDefined, AppliedSoFar, [Next]_vars,
                    NEW v \in Versions, recorded'[v] > 0
             PROVE  Statements(v) \subseteq Accounted'
  BY DEF RecordedMeansDefined, Accounted
<1>1. Accounted \subseteq Accounted'
  BY NothingIsUndone
<1>2. CASE recorded[v] > 0
  BY <1>1, <1>2 DEF RecordedMeansDefined, Accounted
<1>3. CASE ~(recorded[v] > 0)
  <2>1. PICK r \in Runners : Record(r)
    BY <1>3, NothingIsUndone
  <2>2. v = run[r].version
    BY <1>3, <2>1 DEF Record, Unchecked, database, TypeOK
  <2> QED
    BY <1>1, <2>1, <2>2 DEF Record, AppliedSoFar
<1> QED
  BY <1>2, <1>3

LEMMA NextAppliedSoFar ==
    TypeOK /\ NextIsThere /\ AppliedSoFar /\ [Next]_vars => AppliedSoFar'
<1> SUFFICES ASSUME TypeOK, NextIsThere, AppliedSoFar, [Next]_vars PROVE AppliedSoFar'
  OBVIOUS
<1>1. run \in [Runners -> RunType]
  BY DEF TypeOK, RunType
<1>2. Accounted \subseteq Accounted'
  BY NothingIsUndone
<1> DEFINE Good(r) ==
        /\ run'[r].at = "apply" => \A k \in DOMAIN AllMigrations[run'[r].version] :
               k < run'[r].next => AllMigrations[run'[r].version][k] \in Accounted'
        /\ run'[r].at = "record" => Statements(run'[r].version) \subseteq Accounted'
<1>3. ASSUME NEW r \in Runners, run'[r] = run[r] PROVE Good(r)
  BY <1>2, <1>3 DEF AppliedSoFar, At
<1>4. ASSUME NEW r \in Runners, run' = [run EXCEPT ![r] = run'[r]], Good(r)
      PROVE  AppliedSoFar'
  <2>1. \A q \in Runners : Good(q)
    BY <1>1, <1>3, <1>4
  <2> QED
    BY <2>1 DEF AppliedSoFar, At
<1>5. ASSUME NEW r \in Runners, Apply(r) PROVE AppliedSoFar'
  <2> DEFINE todo == AllMigrations[run[r].version]
             k == run[r].next
  <2>1. run[r] \in RunType /\ run[r].at = "apply"
    BY <1>1, <1>5 DEF Apply, At
  <2>2. k \in DOMAIN todo /\ DOMAIN todo = 1 .. Len(todo) /\ Len(todo) \in 1 .. 3 /\ k \in 1 .. 3
    BY <2>1, StatementsAre DEF RunType, NextIsThere, At
  <2>3. todo[k] \in Accounted'
    BY <1>5 DEF Apply, Unchecked, Define, Accounted
  <2>4. \A j \in DOMAIN todo : j < k => todo[j] \in Accounted'
    BY <1>2, <2>1 DEF AppliedSoFar, At
  <2>5. \A j \in DOMAIN todo : j < k + 1 => todo[j] \in Accounted'
    <3>1. \A j, n \in 1 .. 3 : j < n + 1 => j < n \/ j = n
      OBVIOUS
    <3>2. DOMAIN todo \subseteq 1 .. 3
      <4>1. \A m \in 1 .. 3 : 1 .. m \subseteq 1 .. 3
        OBVIOUS
      <4> HIDE DEF todo, k
      <4> QED
        BY <2>2, <4>1
    <3> HIDE DEF todo, k
    <3> QED
      BY <2>2, <2>3, <2>4, <3>1, <3>2, Zenon
  <2>6. k >= Len(todo) => Statements(run[r].version) \subseteq Accounted'
    <3>1. k >= Len(todo) => \A j \in DOMAIN todo : j < k + 1
      <4>1. \A n, m \in 1 .. 3 : n >= m => \A j \in 1 .. m : j < n + 1
        OBVIOUS
      <4> HIDE DEF todo, k
      <4> QED
        BY <2>2, <4>1
    <3> QED
      BY <2>5, <3>1 DEF Statements
  <2>7. Good(r)
    BY <1>5, <2>5, <2>6, ApplyMoves
  <2> QED
    BY <1>4, <1>5, <2>7, ApplyMoves
<1>6. ASSUME NEW r \in Runners, ReadApplied(r) \/ Record(r) PROVE AppliedSoFar'
  <2>1. /\ run' = [run EXCEPT ![r] = run'[r]] /\ run'[r] \in RunType
        /\ run'[r].next = 1 /\ run'[r].at # "record"
    BY <1>6, ReadMoves, RecordMoves
  <2>2. \A j \in DOMAIN AllMigrations[run'[r].version] : ~(j < 1)
    BY <2>1, StatementsAre DEF RunType
  <2> QED
    BY <1>4, <2>1, <2>2
<1>7. ASSUME NEW r \in Runners, Bootstrap(r) \/ Verify(r) \/ Abort(r) PROVE AppliedSoFar'
  BY <1>4, <1>7, OtherMoves
<1>8. CASE run' = run
  BY <1>3, <1>8 DEF AppliedSoFar, At
<1> QED
  BY <1>5, <1>6, <1>7, <1>8 DEF Next, CreateProfile, UpdateProfile, vars

\* A runner passes a version once its record is there or has failed unnoticed.
LEMMA NextEarlierAreDealtWith ==
    TypeOK /\ EarlierAreDealtWith /\ [Next]_vars => EarlierAreDealtWith'
<1> SUFFICES ASSUME TypeOK, EarlierAreDealtWith, [Next]_vars PROVE EarlierAreDealtWith'
  OBVIOUS
<1>1. run \in [Runners -> RunType]
  BY DEF TypeOK, RunType
<1>2. /\ \A w \in Versions : recorded[w] > 0 => recorded'[w] > 0
      /\ \A w \in Versions : Dealt(w) => Dealt(w)'
  BY NothingIsUndone DEF Dealt
<1> DEFINE Good(r) ==
        /\ \A w \in run'[r].applied : recorded'[w] > 0
        /\ run'[r].at \in {"apply", "record"} =>
               \A w \in Versions : w < run'[r].version => Dealt(w)'
<1>3. ASSUME NEW r \in Runners, run'[r] = run[r] PROVE Good(r)
  <2>1. run[r].applied \subseteq Versions
    BY <1>1 DEF RunType
  <2> QED
    BY <1>2, <1>3, <2>1 DEF EarlierAreDealtWith
<1>4. ASSUME NEW r \in Runners, run' = [run EXCEPT ![r] = run'[r]], Good(r)
      PROVE  EarlierAreDealtWith'
  <2>1. \A q \in Runners : Good(q)
    BY <1>1, <1>3, <1>4
  <2> QED
    BY <2>1 DEF EarlierAreDealtWith, Dealt
<1>5. ASSUME NEW r \in Runners, Apply(r) PROVE EarlierAreDealtWith'
  <2>1. run[r].applied \subseteq Versions /\ run[r].at = "apply"
    BY <1>1, <1>5 DEF RunType, Apply, At
  <2>2. Good(r)
    BY <1>2, <1>5, <2>1, ApplyMoves DEF EarlierAreDealtWith
  <2> QED
    BY <1>4, <1>5, <2>2, ApplyMoves
<1>6. ASSUME NEW r \in Runners, ReadApplied(r) PROVE EarlierAreDealtWith'
  <2>1. run'[r].applied \subseteq Versions /\ run'[r].at \in {"apply", "verify"}
    BY <1>6, ReadMoves DEF RunType
  <2>2. Good(r)
    BY <1>2, <1>6, <2>1, ReadMoves DEF Dealt
  <2> QED
    BY <1>4, <1>6, <2>2, ReadMoves
<1>7. ASSUME NEW r \in Runners, Record(r) PROVE EarlierAreDealtWith'
  <2>1. run[r].applied \subseteq Versions /\ run[r].at = "record" /\ run[r].version \in Versions
    BY <1>1, <1>7 DEF RunType, Record, At
  <2>2. PICK v \in Versions : v = run[r].version
    BY <2>1
  <2>3. \A w \in Versions : w <= v => Dealt(w)'
    <3>1. \A w \in Versions : w <= v => w < v \/ w = v
      BY VersionsAre
    <3>2. \A w \in Versions : w < v => Dealt(w)
      BY <2>1, <2>2 DEF EarlierAreDealtWith
    <3>3. Dealt(v)'
      <4>1. \/ recorded' = recorded /\ recorded[v] > 0
            \/ recorded' = [recorded EXCEPT ![v] = @ + 1]
            \/ MigrationNames[v] \in lost'
        BY <1>7, <2>2 DEF Record, Unchecked
      <4>2. recorded \in [Versions -> Nat]
        BY DEF TypeOK
      <4>3. CASE recorded' = [recorded EXCEPT ![v] = @ + 1]
        <5>1. recorded'[v] = recorded[v] + 1
          BY <4>2, <4>3
        <5> QED
          BY <4>2, <5>1 DEF Dealt
      <4> QED
        BY <4>1, <4>3 DEF Dealt
    <3> QED
      BY <1>2, <3>1, <3>2, <3>3
  <2>4. \A w \in run[r].applied : recorded'[w] > 0
    BY <1>2, <2>1 DEF EarlierAreDealtWith
  <2>5. Good(r)
    <3>1. /\ run'[r].at \in {"apply", "verify"}
          /\ run'[r].applied \subseteq run[r].applied
          /\ run'[r].at = "apply" =>
                 \A w \in Versions : w < run'[r].version => w <= v \/ w \in run[r].applied
      BY <1>7, <2>2, RecordMoves
    <3>2. \A w \in run[r].applied : Dealt(w)'
      BY <2>4 DEF Dealt
    <3> QED
      BY <2>3, <2>4, <3>1, <3>2
  <2> QED
    BY <1>4, <1>7, <2>5, RecordMoves
<1>8. ASSUME NEW r \in Runners, Bootstrap(r) \/ Verify(r) \/ Abort(r)
      PROVE  EarlierAreDealtWith'
  <2>1. Good(r)
    BY <1>8, OtherMoves
  <2> QED
    BY <1>4, <1>8, <2>1, OtherMoves
<1>9. CASE run' = run
  BY <1>3, <1>9 DEF EarlierAreDealtWith, Dealt
<1> QED
  BY <1>5, <1>6, <1>7, <1>8, <1>9 DEF Next, CreateProfile, UpdateProfile, vars

\* The unique index is defined before a runner reads, and a duplicate would be
\* needed to refuse it.
LEMMA NextKeyBeforeRecords == TypeOK /\ KeyBeforeRecords /\ [Next]_vars => KeyBeforeRecords'
<1> SUFFICES ASSUME TypeOK, KeyBeforeRecords, [Next]_vars,
                    "_migrations_version_unique" \notin lost'
             PROVE  /\ \A v \in Versions : recorded'[v] <= 1
                    /\ \A r \in Runners :
                           run'[r].at \in {"read", "apply", "record"} => versionKey'
  BY DEF KeyBeforeRecords
<1>1. run \in [Runners -> RunType] /\ recorded \in [Versions -> Nat]
  BY DEF TypeOK, RunType
<1>2. /\ \A v \in Versions : recorded[v] <= 1
      /\ \A r \in Runners : run[r].at \in {"read", "apply", "record"} => versionKey
  BY NothingIsUndone DEF KeyBeforeRecords
<1>3. versionKey => versionKey'
  BY DEF Next, Bootstrap, ReadApplied, Apply, Define, Record, Verify, Abort, Unchecked,
         CreateProfile, UpdateProfile, database, vars
<1>4. \A v \in Versions : recorded'[v] <= 1
  <2>1. ASSUME NEW r \in Runners, Record(r) PROVE \A v \in Versions : recorded'[v] <= 1
    <3>1. PICK v \in Versions : v = run[r].version
      BY <1>1 DEF RunType
    <3>2. versionKey
      BY <1>2, <2>1 DEF Record, At
    <3>3. \/ recorded' = recorded
          \/ ~(recorded[v] > 0) /\ recorded' = [recorded EXCEPT ![v] = @ + 1]
      BY <2>1, <3>1, <3>2 DEF Record, Unchecked, database
    <3>4. ~(recorded[v] > 0) => recorded[v] + 1 <= 1
      BY <1>1
    <3> QED
      BY <1>1, <1>2, <3>3, <3>4
  <2> QED
    BY <1>2, <2>1, NothingIsUndone
<1>5. ASSUME NEW r \in Runners, run' = [run EXCEPT ![r] = run'[r]],
             run'[r].at \in {"read", "apply", "record"} => versionKey'
      PROVE  \A q \in Runners : run'[q].at \in {"read", "apply", "record"} => versionKey'
  BY <1>1, <1>2, <1>3, <1>5
<1>6. \A r \in Runners : run'[r].at \in {"read", "apply", "record"} => versionKey'
  <2>1. ASSUME NEW r \in Runners, Bootstrap(r) PROVE versionKey'
    BY <1>2, <2>1 DEF Bootstrap, Unchecked
  <2>2. ASSUME NEW r \in Runners, ReadApplied(r) \/ Apply(r) \/ Record(r) PROVE versionKey'
    BY <1>2, <1>3, <2>2 DEF ReadApplied, Apply, Record, At
  <2> QED
    BY <1>2, <1>3, <1>5, <2>1, <2>2, ApplyMoves, ReadMoves, RecordMoves, OtherMoves
       DEF Next, CreateProfile, UpdateProfile, vars
<1> QED
  BY <1>4, <1>6

LEMMA NextRecordedOnceInOrder ==
    TypeOK /\ RecordedOnceInOrder /\ EarlierAreDealtWith /\ KeyBeforeRecords /\ [Next]_vars
        => RecordedOnceInOrder'
<1> SUFFICES ASSUME TypeOK, RecordedOnceInOrder, EarlierAreDealtWith, KeyBeforeRecords,
                    [Next]_vars
             PROVE  RecordedOnceInOrder'
  OBVIOUS
<1>1. "_migrations_version_unique" \notin lost' => \A v \in Versions : recorded'[v] <= 1
  BY NextKeyBeforeRecords DEF KeyBeforeRecords
<1>2. ASSUME NEW v \in Versions, recorded'[v] > 0, NEW w \in 1 .. v PROVE Dealt(w)'
  <2>1. w \in Versions /\ (w < v \/ w = v)
    BY VersionsAre
  <2>2. CASE recorded[v] > 0
    BY <1>2, <2>1, <2>2, NothingIsUndone DEF RecordedOnceInOrder, Dealt
  <2>3. CASE ~(recorded[v] > 0)
    <3>1. PICK r \in Runners : Record(r)
      BY <1>2, <2>3, NothingIsUndone
    <3>2. v = run[r].version /\ run[r].at = "record"
      BY <1>2, <2>3, <3>1 DEF Record, Unchecked, database, TypeOK, At
    <3>3. w < v => Dealt(w)
      BY <2>1, <3>2 DEF EarlierAreDealtWith
    <3> QED
      BY <1>2, <2>1, <3>3, NothingIsUndone DEF Dealt
  <2> QED
    BY <2>2, <2>3
<1> QED
  BY <1>1, <1>2 DEF RecordedOnceInOrder, Dealt

\* An index comes when no rows clash, and then no row that clashes.
LEMMA NextIndexMeansNoClash == TypeOK /\ IndexMeansNoClash /\ [Next]_vars => IndexMeansNoClash'
<1> SUFFICES ASSUME TypeOK, IndexMeansNoClash, [Next]_vars, "unique_email" \in defined'
             PROVE  ~Clash'
  BY DEF IndexMeansNoClash
<1>1. CASE users' = users
  <2>1. CASE "unique_email" \in defined
    BY <1>1, <2>1 DEF IndexMeansNoClash, Clash, Live
  <2>2. CASE "unique_email" \notin defined
    <3>1. PICK r \in Runners : Apply(r)
      BY <2>2 DEF Next, Bootstrap, ReadApplied, Record, Verify, Abort, Unchecked,
                  CreateProfile, UpdateProfile, database, vars
    <3>2. ~Clash
      BY <2>2, <3>1 DEF Apply, Unchecked, Define, database
    <3> QED
      BY <1>1, <3>2 DEF Clash, Live
  <2> QED
    BY <2>1, <2>2
<1>2. CASE users' # users
  <2>1. defined' = defined /\ \E i \in Profiles, email \in Emails : Write(i, email)
    BY <1>2 DEF Next, Bootstrap, ReadApplied, Apply, Record, Verify, Abort,
                CreateProfile, UpdateProfile, Live, database, vars
  <2>2. PICK i \in Profiles, email \in Emails : Write(i, email)
    BY <2>1
  <2>3. /\ users' = [users EXCEPT ![i] = email]
        /\ \A j \in Live \ {i} : users[j] # email
    BY <2>1, <2>2 DEF Write
  <2>4. ~Clash
    BY <2>1 DEF IndexMeansNoClash
  <2> QED
    BY <2>3, <2>4, MigrationsAssumption DEF Clash, Live, TypeOK
<1> QED
  BY <1>1, <1>2

LEMMA SpecIInv == Spec => []IInv
<1>1. IInv /\ [Next]_vars => IInv'
  BY NextTypeOK, NextNextIsThere, NextRecordedMeansDefined, NextAppliedSoFar,
     NextEarlierAreDealtWith, NextKeyBeforeRecords, NextRecordedOnceInOrder,
     NextIndexMeansNoClash DEF IInv
<1> QED
  BY <1>1, InitIInv, PTL DEF Spec

-----------------------------------------------------------------------------
\* Type correctness.
THEOREM SpecTypeOK == Spec => []TypeOK
<1>1. IInv => TypeOK
  BY DEF IInv
<1> QED
  BY <1>1, SpecIInv, PTL

\* However many runs are cut short, run side by side or lose a statement, a
\* recorded version is in effect to its last statement, with the exceptions
\* that the property names.
THEOREM SpecRecordedMeansDefined == Spec => []RecordedMeansDefined
<1>1. IInv => RecordedMeansDefined
  BY DEF IInv
<1> QED
  BY <1>1, SpecIInv, PTL

\* Versions are recorded once and in order.
THEOREM SpecRecordedOnceInOrder == Spec => []RecordedOnceInOrder
<1>1. IInv => RecordedOnceInOrder
  BY DEF IInv
<1> QED
  BY <1>1, SpecIInv, PTL

\* Once users is migrated, its emails are unique, or the index was refused or
\* lost before.
THEOREM SpecEmailsAreUnique == Spec => []EmailsAreUnique
<1>1. "unique_email" \in Statements(1)
  <2>1. AllMigrations[1] = CreateUsersTable
    BY DEF AllMigrations
  <2>2. 3 \in DOMAIN CreateUsersTable /\ CreateUsersTable[3] = "unique_email"
    BY DEF CreateUsersTable
  <2> QED
    BY <2>1, <2>2 DEF Statements
<1>2. IInv => EmailsAreUnique
  BY <1>1, VersionsAre DEF IInv, RecordedMeansDefined, IndexMeansNoClash, EmailsAreUnique
<1> QED
  BY <1>2, SpecIInv, PTL
=============================================================================
