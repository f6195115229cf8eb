--------------------------- MODULE ImporterProofs ---------------------------
(***************************************************************************)
(* Nothing that is staged gets lost, the index stays within the database   *)
(* and rows do not go back, for any files, passes and permits.             *)
(***************************************************************************)
EXTENDS Importer, FiniteSetTheorems, TLAPS

HasRead == {"hash", "select", "update", "create"}
HasWritten == {"insert", "remove", "ok"}

\* Versions are numbered in the order in which they are staged.
VersionsAreCounted ==
    /\ \A f \in Files : staged[f] <= count
    /\ \A p \in Paths : rows[p] <= count
    /\ \A s \in Passes, f \in Files : seen[s][f] <= count

IdlePassesHaveNoTasks ==
    \A s \in Passes, f \in Files : pass[s] = "idle" => task[s][f] = "none"

\* A task that is going to write has something to write.
WritersHaveRead ==
    \A s \in Passes, f \in Files : task[s][f] \in HasRead => seen[s][f] # 0

\* A path is updated, or entered in the index, once it has a row.
RowBeforeEntry ==
    \A s \in Passes, f \in Files : task[s][f] \in {"update", "insert"} => rows[PathOf[f]] # 0

\* A version that may be taken from the directory.
Settled(v) == v \in imported \cup late \cup unsaved \/ kind[v] = "ignored"

\* What a pass at work finds under the name of a task's file: what the task has
\* read, or what came in late; and once it has written, nothing unsettled.
Accounted ==
    \A s \in Passes, f \in Files :
        pass[s] = "importing" /\ staged[f] # 0 =>
            /\ task[s][f] = "none" => Settled(staged[f])
            /\ task[s][f] \in HasRead => seen[s][f] = staged[f] \/ staged[f] \in late
            /\ task[s][f] \in HasWritten => Settled(staged[f])

Sole(f) == \A g \in Files : PathOf[g] = PathOf[f] => g = f

\* A path's row is not newer than what its file says, nor than what the task of
\* that file is about to write, unless passes overlap.
NewestIsStaged ==
    /\ \A s \in Passes, f \in Files : staged[f] # 0 => seen[s][f] <= staged[f]
    /\ ~overlap =>
           /\ \A s, r \in AtWork : s = r
           /\ \A f \in Files : Sole(f) =>
                  /\ staged[f] # 0 => rows[PathOf[f]] <= staged[f]
                  /\ \A s \in Passes : task[s][f] \in HasRead => rows[PathOf[f]] <= seen[s][f]

IInv ==
    /\ TypeOK /\ VersionsAreCounted /\ IdlePassesHaveNoTasks /\ WritersHaveRead
    /\ RowBeforeEntry /\ IndexedFilesHaveARow /\ Accounted /\ NewestIsStaged

-----------------------------------------------------------------------------
\* All of TypeOK but the bound on the permits.
Typed ==
    /\ staged \in [Files -> 0 .. MaxStaged]
    /\ kind \in [Versions -> Kinds]
    /\ count \in 0 .. MaxStaged
    /\ source \in [Paths -> 0 .. MaxEdits]
    /\ rows \in [Paths -> 0 .. MaxStaged]
    /\ index \in [Paths -> 0 .. MaxEdits]
    /\ pass \in [Passes -> {"idle", "importing"}]
    /\ task \in [Passes -> [Files -> Queued \cup Steps \cup Ended]]
    /\ seen \in [Passes -> [Files -> 0 .. MaxStaged]]
    /\ hash \in [Passes -> [Files -> 0 .. MaxEdits]]
    /\ faults \in 0 .. MaxFaults
    /\ imported \subseteq Versions /\ late \subseteq Versions /\ unsaved \subseteq Versions
    /\ overlap \in BOOLEAN

Permits == \A s \in Passes : Cardinality(InFlight(s)) <= MaxConcurrent

LEMMA TypeParts == TypeOK <=> Typed /\ Permits
  BY DEF TypeOK, Typed, Permits

TaskStates == Queued \cup Steps \cup Ended

\* A task's step, seen from its file: what it is at before and after, and what
\* else it changes.
Effect(s, f) ==
    \/ /\ task[s][f] = "read" /\ task'[s][f] = "hash"
       /\ staged[f] # 0 /\ seen'[s][f] = staged[f]
       /\ UNCHANGED <<staged, rows, index, imported, unsaved>>
    \/ /\ task[s][f] = "read" /\ task'[s][f] = "remove"
       /\ staged[f] # 0 /\ kind[staged[f]] = "ignored" /\ seen'[s][f] = seen[s][f]
       /\ UNCHANGED <<staged, rows, index, imported, unsaved>>
    \/ /\ task[s][f] \in Steps /\ task'[s][f] = "failed" /\ seen'[s][f] = 0
       /\ UNCHANGED <<staged, rows, index, imported, unsaved>>
    \/ /\ task[s][f] = "hash" /\ task'[s][f] = "select" /\ seen'[s][f] = seen[s][f]
       /\ UNCHANGED <<staged, rows, index, imported, unsaved>>
    \/ /\ task[s][f] = "select" /\ seen'[s][f] = seen[s][f]
       /\ task'[s][f] = IF rows[PathOf[f]] = 0 THEN "create" ELSE "update"
       /\ UNCHANGED <<staged, rows, index, imported, unsaved>>
    \/ /\ task[s][f] \in {"update", "create"} /\ task'[s][f] \in {"insert", "remove"}
       /\ seen'[s][f] = seen[s][f]
       /\ rows' = [rows EXCEPT ![PathOf[f]] = seen[s][f]]
       /\ imported' = imported \cup {seen[s][f]}
       /\ UNCHANGED <<staged, index, unsaved>>
    \/ /\ task[s][f] = "update" /\ task'[s][f] \in {"insert", "remove"}
       /\ seen'[s][f] = seen[s][f]
       /\ unsaved' = unsaved \cup {seen[s][f]}
       /\ UNCHANGED <<staged, rows, index, imported>>
    \/ /\ task[s][f] = "insert" /\ task'[s][f] = "remove" /\ seen'[s][f] = seen[s][f]
       /\ index' = [index EXCEPT ![PathOf[f]] = hash[s][f]]
       /\ UNCHANGED <<staged, rows, imported, unsaved>>
    \/ /\ task[s][f] = "remove" /\ task'[s][f] = "ok" /\ seen'[s][f] = 0
       /\ staged' = [staged EXCEPT ![f] = 0] \/ UNCHANGED staged
       /\ UNCHANGED <<rows, index, imported, unsaved>>

\* A task's step changes nothing of other tasks.
LEMMA TaskStep ==
    ASSUME Typed, NEW s \in Passes, NEW f \in Files, Task(s, f)
    PROVE  /\ task' \in [Passes -> [Files -> TaskStates]]
           /\ seen' \in [Passes -> [Files -> 0 .. MaxStaged]]
           /\ hash' \in [Passes -> [Files -> 0 .. MaxEdits]]
           /\ faults' \in 0 .. MaxFaults
           /\ \A r \in Passes, g \in Files : r # s \/ g # f =>
                  task'[r][g] = task[r][g] /\ seen'[r][g] = seen[r][g]
           /\ UNCHANGED <<kind, count, source, late, pass, overlap>>
           /\ Effect(s, f)
<1>0. /\ task \in [Passes -> [Files -> TaskStates]]
      /\ seen \in [Passes -> [Files -> 0 .. MaxStaged]]
      /\ hash \in [Passes -> [Files -> 0 .. MaxEdits]]
      /\ staged[f] \in 0 .. MaxStaged
      /\ PathOf[f] \in Paths /\ source[PathOf[f]] \in 0 .. MaxEdits
      /\ MaxStaged \in Nat /\ MaxEdits \in Nat /\ MaxFaults \in Nat
  BY ImporterAssumption DEF Typed, TaskStates
<1>1. ASSUME NEW x \in TaskStates, task' = [task EXCEPT ![s][f] = x]
      PROVE  /\ task' \in [Passes -> [Files -> TaskStates]] /\ task'[s][f] = x
             /\ \A r \in Passes, g \in Files : r # s \/ g # f => task'[r][g] = task[r][g]
  BY <1>0, <1>1
<1>2. ASSUME NEW y \in 0 .. MaxStaged, seen' = [seen EXCEPT ![s][f] = y]
      PROVE  /\ seen' \in [Passes -> [Files -> 0 .. MaxStaged]] /\ seen'[s][f] = y
             /\ \A r \in Passes, g \in Files : r # s \/ g # f => seen'[r][g] = seen[r][g]
  BY <1>0, <1>2
<1>3. ASSUME NEW z \in 0 .. MaxEdits, hash' = [hash EXCEPT ![s][f] = z]
      PROVE  hash' \in [Passes -> [Files -> 0 .. MaxEdits]]
  BY <1>0, <1>3
<1>4. 0 \in 0 .. MaxStaged /\ 0 \in 0 .. MaxEdits
  BY <1>0
<1> DEFINE Goal == /\ task' \in [Passes -> [Files -> TaskStates]]
                   /\ seen' \in [Passes -> [Files -> 0 .. MaxStaged]]
                   /\ hash' \in [Passes -> [Files -> 0 .. MaxEdits]]
                   /\ \A r \in Passes, g \in Files : r # s \/ g # f =>
                          task'[r][g] = task[r][g] /\ seen'[r][g] = seen[r][g]
<1>5. ASSUME NEW x \in TaskStates, NEW y \in 0 .. MaxStaged, NEW z \in 0 .. MaxEdits,
             task' = [task EXCEPT ![s][f] = x],
             seen' = [seen EXCEPT ![s][f] = y] \/ UNCHANGED seen,
             hash' = [hash EXCEPT ![s][f] = z] \/ UNCHANGED hash
      PROVE  Goal /\ task'[s][f] = x
  <2>1. /\ seen' \in [Passes -> [Files -> 0 .. MaxStaged]]
        /\ \A r \in Passes, g \in Files : r # s \/ g # f => seen'[r][g] = seen[r][g]
    BY <1>0, <1>2, <1>5
  <2>2. hash' \in [Passes -> [Files -> 0 .. MaxEdits]]
    BY <1>0, <1>3, <1>5
  <2> QED
    BY <1>1, <1>5, <2>1, <2>2
<1>6. ASSUME NEW y \in 0 .. MaxStaged, seen' = [seen EXCEPT ![s][f] = y]
      PROVE  seen'[s][f] = y
  BY <1>2, <1>6
<1> SUFFICES /\ Goal /\ faults' \in 0 .. MaxFaults
             /\ UNCHANGED <<kind, count, source, late, pass, overlap>>
             /\ Effect(s, f)
  OBVIOUS
<1>8. faults \in 0 .. MaxFaults /\ (Fault => faults' \in 0 .. MaxFaults)
  BY <1>0 DEF Typed, Fault
<1> HIDE DEF Goal
<1>7. {"read", "hash", "select", "update", "create", "insert", "remove", "ok", "failed"}
          \subseteq TaskStates
  BY DEF TaskStates, Queued, Steps, Ended
<1> USE DEF Goto, End, AfterUpsert, Effect, Steps, world, database
<1>a. CASE ReadFile(s, f)
  <2>1. CASE staged[f] # 0 /\ kind[staged[f]] = "metadata"
    BY <1>a, <2>1, <1>0, <1>4, <1>5, <1>6, <1>7, <1>8 DEF ReadFile, Typed
  <2>2. CASE ~(staged[f] # 0 /\ kind[staged[f]] = "metadata")
             /\ staged[f] # 0 /\ kind[staged[f]] = "ignored"
    BY <1>a, <2>2, <1>0, <1>4, <1>5, <1>7, <1>8 DEF ReadFile, Typed
  <2>3. CASE staged[f] = 0 \/ kind[staged[f]] \notin {"metadata", "ignored"}
    BY <1>a, <2>3, <1>0, <1>4, <1>5, <1>6, <1>7, <1>8 DEF ReadFile, Typed
  <2> QED
    BY <2>1, <2>2, <2>3
<1>b. CASE HashSource(s, f)
  BY <1>b, <1>0, <1>4, <1>5, <1>7, <1>8 DEF HashSource, Typed
<1>c. CASE SelectRow(s, f)
  BY <1>c, <1>0, <1>4, <1>5, <1>7, <1>8 DEF SelectRow, Typed
<1>d. CASE UpdateRow(s, f)
  BY <1>d, <1>0, <1>4, <1>5, <1>7, <1>8 DEF UpdateRow, Typed
<1>e. CASE UpdateLost(s, f)
  BY <1>e, <1>0, <1>4, <1>5, <1>7, <1>8 DEF UpdateLost, Typed
<1>f. CASE CreateRow(s, f)
  <2>1. CASE rows[PathOf[f]] = 0
    BY <1>f, <2>1, <1>0, <1>4, <1>5, <1>7, <1>8 DEF CreateRow, Typed
  <2>2. CASE rows[PathOf[f]] # 0
    BY <1>f, <2>2, <1>0, <1>4, <1>5, <1>6, <1>7, <1>8 DEF CreateRow, Typed
  <2> QED
    BY <2>1, <2>2
<1>g. CASE TaskFails(s, f)
  BY <1>g, <1>0, <1>4, <1>5, <1>6, <1>7, <1>8 DEF TaskFails, Typed
<1>h. CASE InsertEntry(s, f)
  BY <1>h, <1>0, <1>4, <1>5, <1>7, <1>8 DEF InsertEntry, Typed
<1>i. CASE RemoveFile(s, f)
  BY <1>i, <1>0, <1>4, <1>5, <1>6, <1>7, <1>8 DEF RemoveFile, Typed
<1> QED
  BY <1>a, <1>b, <1>c, <1>d, <1>e, <1>f, <1>g, <1>h, <1>i DEF Task

LEMMA InitIInv == Init => IInv
<1> SUFFICES ASSUME Init PROVE IInv
  OBVIOUS
<1>1. Typed
  <2>1. 0 \in 0 .. MaxStaged /\ 0 \in 0 .. MaxEdits /\ 0 \in 0 .. MaxFaults
    BY ImporterAssumption
  <2> QED
    BY <2>1 DEF Init, Typed, Kinds, Queued
<1>2. Permits
  <2>1. \A s \in Passes : InFlight(s) = {}
    BY DEF Init, InFlight, Steps
  <2> QED
    BY <2>1, FS_EmptySet, ImporterAssumption DEF Permits
<1>3. VersionsAreCounted /\ IdlePassesHaveNoTasks /\ WritersHaveRead /\ RowBeforeEntry
  BY ImporterAssumption DEF Init, VersionsAreCounted, IdlePassesHaveNoTasks,
     WritersHaveRead, RowBeforeEntry, HasRead
<1>4. IndexedFilesHaveARow /\ Accounted /\ NewestIsStaged
  BY ImporterAssumption DEF Init, IndexedFilesHaveARow, Accounted, NewestIsStaged,
     AtWork, HasRead
<1> QED
  BY <1>1, <1>2, <1>3, <1>4, TypeParts DEF IInv

-----------------------------------------------------------------------------
LEMMA NextTyped ==
    ASSUME Typed, WritersHaveRead, [Next]_vars
    PROVE  Typed'
<1> USE ImporterAssumption DEF Typed, Versions, Kinds, Queued, Steps, Ended, world,
                               database, tasks
<1>1. ASSUME NEW f \in Files, StageFile(f) PROVE Typed'
  BY <1>1 DEF StageFile
<1>2. ASSUME NEW p \in Paths, EditSource(p) PROVE Typed'
  BY <1>2 DEF EditSource
<1>3. ASSUME NEW s \in Passes, ListFiles(s) PROVE Typed'
  BY <1>3 DEF ListFiles
<1>4. ASSUME NEW s \in Passes, FinishPass(s) PROVE Typed'
  BY <1>4 DEF FinishPass, Return
<1>5. ASSUME NEW s \in Passes, NEW f \in Files, SpawnTask(s, f) PROVE Typed'
  BY <1>5 DEF SpawnTask, Goto
<1>6. ASSUME NEW s \in Passes, NEW f \in Files, Task(s, f) PROVE Typed'
  <2>1. /\ task' \in [Passes -> [Files -> Queued \cup Steps \cup Ended]]
        /\ seen' \in [Passes -> [Files -> 0 .. MaxStaged]]
        /\ hash' \in [Passes -> [Files -> 0 .. MaxEdits]]
        /\ faults' \in 0 .. MaxFaults
        /\ UNCHANGED <<kind, count, source, late, pass, overlap>>
        /\ Effect(s, f)
    BY <1>6, TaskStep DEF TaskStates
  <2>2. seen[s][f] \in 0 .. MaxStaged /\ hash[s][f] \in 0 .. MaxEdits /\ PathOf[f] \in Paths
    OBVIOUS
  <2>3. task[s][f] \in {"update", "create"} => seen[s][f] \in 1 .. MaxStaged
    BY <2>2 DEF WritersHaveRead, HasRead
  <2>4. /\ staged' \in [Files -> 0 .. MaxStaged] /\ rows' \in [Paths -> 0 .. MaxStaged]
        /\ index' \in [Paths -> 0 .. MaxEdits]
    <3>1. staged' = [staged EXCEPT ![f] = 0] \/ UNCHANGED staged
      BY <2>1 DEF Effect
    <3>2. rows' = [rows EXCEPT ![PathOf[f]] = seen[s][f]] \/ UNCHANGED rows
      BY <2>1 DEF Effect
    <3>3. index' = [index EXCEPT ![PathOf[f]] = hash[s][f]] \/ UNCHANGED index
      BY <2>1 DEF Effect
    <3> QED
      BY <2>2, <3>1, <3>2, <3>3
  <2>5. imported' \subseteq Versions /\ unsaved' \subseteq Versions
    BY <2>1, <2>3 DEF Effect
  <2> QED
    BY <2>1, <2>4, <2>5
<1>7. CASE UNCHANGED vars
  BY <1>7 DEF vars
<1> QED
  BY <1>1, <1>2, <1>3, <1>4, <1>5, <1>6, <1>7 DEF Next, Import

-----------------------------------------------------------------------------
\* A task enters its steps through a permit, and leaves them by itself.
LEMMA NextPermits ==
    ASSUME Typed, Permits, [Next]_vars
    PROVE  Permits'
<1> USE ImporterAssumption
<1>1. \A s \in Passes : IsFiniteSet(InFlight(s)) /\ Cardinality(InFlight(s)) \in Nat
  BY FS_Subset, FS_CardinalityType DEF InFlight
<1>2. ASSUME NEW s \in Passes, InFlight(s)' \subseteq InFlight(s)
      PROVE  Cardinality(InFlight(s))' <= MaxConcurrent
  BY <1>1, <1>2, FS_Subset, FS_CardinalityType DEF Permits
<1>3. ASSUME NEW s \in Passes, NEW f \in Files, SpawnTask(s, f)
      PROVE  Permits'
  <2>1. task' = [task EXCEPT ![s][f] = "read"] /\ Cardinality(InFlight(s)) < MaxConcurrent
    BY <1>3 DEF SpawnTask, Goto
  <2>2. InFlight(s)' = InFlight(s) \cup {f}
    BY <2>1 DEF InFlight, Typed, Steps
  <2>3. Cardinality(InFlight(s))' <= MaxConcurrent
    <3>1. Cardinality(InFlight(s) \cup {f}) \in {Cardinality(InFlight(s)), Cardinality(InFlight(s)) + 1}
      BY <1>1, FS_AddElement
    <3>2. Cardinality(InFlight(s) \cup {f}) <= MaxConcurrent
      BY <1>1, <2>1, <3>1
    <3> QED
      BY <2>2, <3>2
  <2>4. ASSUME NEW r \in Passes, r # s PROVE InFlight(r)' \subseteq InFlight(r)
    BY <2>1, <2>4 DEF InFlight, Typed
  <2> QED
    BY <1>2, <2>3, <2>4 DEF Permits
<1>4. ASSUME NEW s \in Passes, NEW f \in Files, Task(s, f)
      PROVE  Permits'
  <2>1. /\ task[s][f] \in Steps
        /\ \A r \in Passes, g \in Files : r # s \/ g # f => task'[r][g] = task[r][g]
    BY <1>4, TaskStep DEF Effect, Steps
  <2>2. \A r \in Passes : InFlight(r)' \subseteq InFlight(r)
    BY <2>1 DEF InFlight
  <2> QED
    BY <1>2, <2>2 DEF Permits
<1>5. ASSUME NEW s \in Passes, ListFiles(s) \/ FinishPass(s)
      PROVE  Permits'
  <2>1. \E h : task' = [task EXCEPT ![s] = h] /\ \A f \in Files : h[f] \in Queued
    <3>1. CASE ListFiles(s)
      <4> WITNESS [f \in Files |-> IF f \in {g \in Files : staged[g] # 0} THEN "queued" ELSE "none"]
      <4> QED
        BY <3>1 DEF ListFiles, Queued
    <3>2. CASE FinishPass(s)
      <4> WITNESS [f \in Files |-> "none"]
      <4> QED
        BY <3>2 DEF FinishPass, Return, Queued
    <3> QED
      BY <1>5, <3>1, <3>2
  <2>2. \A r \in Passes : InFlight(r)' \subseteq InFlight(r)
    BY <2>1 DEF InFlight, Typed, Queued, Steps
  <2> QED
    BY <1>2, <2>2 DEF Permits
<1>6. CASE UNCHANGED task
  BY <1>6 DEF Permits, InFlight
<1> QED
  BY <1>3, <1>4, <1>5, <1>6 DEF Next, Import, StageFile, EditSource, tasks, vars

LEMMA NextVersionsAreCounted ==
    ASSUME Typed, VersionsAreCounted, [Next]_vars
    PROVE  VersionsAreCounted'
<1> USE ImporterAssumption DEF VersionsAreCounted, world, database, tasks
<1>1. ASSUME NEW s \in Passes, NEW f \in Files, Task(s, f) PROVE VersionsAreCounted'
  <2>1. /\ \A r \in Passes, g \in Files : r # s \/ g # f => seen'[r][g] = seen[r][g]
        /\ count' = count
        /\ Effect(s, f)
    BY <1>1, TaskStep
  <2>2. seen'[s][f] <= count
    BY <2>1 DEF Effect, Typed
  <2>3. staged' = [staged EXCEPT ![f] = 0] \/ UNCHANGED staged
    BY <2>1 DEF Effect
  <2>4. rows' = [rows EXCEPT ![PathOf[f]] = seen[s][f]] \/ UNCHANGED rows
    BY <2>1 DEF Effect
  <2>5. \A g \in Files : staged'[g] <= count
    BY <2>3 DEF Typed
  <2>6. \A p \in Paths : rows'[p] <= count
    BY <2>4 DEF Typed
  <2>7. \A r \in Passes, g \in Files : seen'[r][g] <= count
    BY <2>1, <2>2
  <2> QED
    BY <2>1, <2>5, <2>6, <2>7
<1>2. ASSUME NEW f \in Files, StageFile(f) PROVE VersionsAreCounted'
  BY <1>2 DEF StageFile, Typed
<1>3. ASSUME NEW s \in Passes, FinishPass(s) PROVE VersionsAreCounted'
  BY <1>3 DEF FinishPass, Return, Typed
<1> QED
  BY <1>1, <1>2, <1>3 DEF Next, Import, EditSource, ListFiles, SpawnTask, vars

\* What tasks do, and what a pass does with its tasks.
LEMMA NextTaskParts ==
    ASSUME Typed, IdlePassesHaveNoTasks, WritersHaveRead, RowBeforeEntry,
           IndexedFilesHaveARow, [Next]_vars
    PROVE  /\ IdlePassesHaveNoTasks' /\ WritersHaveRead'
           /\ RowBeforeEntry' /\ IndexedFilesHaveARow'
<1> DEFINE Goal == /\ IdlePassesHaveNoTasks' /\ WritersHaveRead'
                   /\ RowBeforeEntry' /\ IndexedFilesHaveARow'
<1> USE ImporterAssumption DEF IdlePassesHaveNoTasks, WritersHaveRead, RowBeforeEntry,
        IndexedFilesHaveARow, HasRead, world, database, tasks
<1>1. ASSUME NEW s \in Passes, NEW f \in Files, Task(s, f) PROVE Goal
  <2>1. /\ \A r \in Passes, g \in Files : r # s \/ g # f =>
                task'[r][g] = task[r][g] /\ seen'[r][g] = seen[r][g]
        /\ pass' = pass /\ Effect(s, f)
    BY <1>1, TaskStep
  <2>2. /\ \A p \in Paths : rows[p] # 0 => rows'[p] # 0
        /\ task[s][f] \in {"create", "update"} /\ task'[s][f] = "insert" =>
               rows'[PathOf[f]] # 0
    BY <2>1 DEF Effect, Typed
  <2>3. IdlePassesHaveNoTasks' /\ WritersHaveRead'
    BY <2>1 DEF Effect, Steps
  <2>4. RowBeforeEntry'
    BY <2>1, <2>2 DEF Effect, Steps
  <2>5. index' = index \/ /\ task[s][f] = "insert" 
                          /\ index' = [index EXCEPT ![PathOf[f]] = hash[s][f]]
    BY <2>1 DEF Effect
  <2>6. IndexedFilesHaveARow'
    BY <2>2, <2>5 DEF Typed
  <2> QED
    BY <2>3, <2>4, <2>6
<1>2. ASSUME NEW s \in Passes, ListFiles(s) PROVE Goal
  BY <1>2 DEF ListFiles, Typed
<1>3. ASSUME NEW s \in Passes, FinishPass(s) PROVE Goal
  BY <1>3 DEF FinishPass, Return, Typed
<1>4. ASSUME NEW s \in Passes, NEW f \in Files, SpawnTask(s, f) PROVE Goal
  BY <1>4 DEF SpawnTask, Goto, Typed
<1> QED
  BY <1>1, <1>2, <1>3, <1>4 DEF Next, Import, EditSource, StageFile, vars

LEMMA NextAccounted ==
    ASSUME Typed, VersionsAreCounted, IdlePassesHaveNoTasks, Accounted, [Next]_vars
    PROVE  Accounted'
<1> USE ImporterAssumption DEF world, database, tasks
\* Whatever is settled remains so: nothing is taken out, and versions keep
\* their kind.
<1>1. ASSUME NEW v \in Versions, v <= count, Settled(v)
      PROVE  Settled(v)'
  <2>1. imported \subseteq imported' /\ late \subseteq late' /\ unsaved \subseteq unsaved'
    <3>1. ASSUME NEW s \in Passes, NEW f \in Files, Task(s, f)
          PROVE  imported \subseteq imported' /\ late' = late /\ unsaved \subseteq unsaved'
      BY <3>1, TaskStep DEF Effect
    <3> QED
      BY <3>1 DEF Next, Import, StageFile, EditSource, ListFiles, SpawnTask, FinishPass, vars
  <2>2. kind'[v] = kind[v]
    <3>1. ASSUME NEW s \in Passes, NEW f \in Files, Task(s, f) PROVE kind' = kind
      BY <3>1, TaskStep
    <3>2. ASSUME NEW f \in Files, StageFile(f) PROVE kind'[v] = kind[v]
      BY <1>1, <3>2 DEF StageFile, Typed, Versions
    <3> QED
      BY <3>1, <3>2 DEF Next, Import, EditSource, ListFiles, SpawnTask, FinishPass, vars
  <2> QED
    BY <1>1, <2>1, <2>2 DEF Settled
<1>2. \A f \in Files : staged[f] # 0 => staged[f] \in Versions /\ staged[f] <= count
  BY DEF Typed, Versions, VersionsAreCounted
<1>3. ASSUME NEW s \in Passes, NEW f \in Files, Task(s, f) PROVE Accounted'
  <2>1. /\ \A r \in Passes, g \in Files : r # s \/ g # f =>
                task'[r][g] = task[r][g] /\ seen'[r][g] = seen[r][g]
        /\ pass' = pass /\ late' = late /\ Effect(s, f)
    BY <1>3, TaskStep
  <2>2. staged' = [staged EXCEPT ![f] = 0] \/ UNCHANGED staged
    BY <2>1 DEF Effect
  <2>3. \A g \in Files : staged'[g] # 0 => staged'[g] = staged[g]
    BY <2>2 DEF Typed
  <2>4. ASSUME NEW r \in Passes, NEW g \in Files, r # s \/ g # f,
               pass'[r] = "importing", staged'[g] # 0
        PROVE  /\ task'[r][g] = "none" => Settled(staged[g])'
               /\ task'[r][g] \in HasRead => seen'[r][g] = staged'[g] \/ staged'[g] \in late'
               /\ task'[r][g] \in HasWritten => Settled(staged[g])'
    <3>1. staged'[g] = staged[g] /\ staged[g] # 0
      BY <2>3, <2>4
    <3> QED
      BY <1>1, <1>2, <2>1, <2>4, <3>1 DEF Accounted, Settled
  <2>5. ASSUME pass'[s] = "importing", staged'[f] # 0
        PROVE  /\ task'[s][f] = "none" => Settled(staged[f])'
               /\ task'[s][f] \in HasRead => seen'[s][f] = staged'[f] \/ staged'[f] \in late'
               /\ task'[s][f] \in HasWritten => Settled(staged[f])'
    <3>1. staged'[f] = staged[f] /\ staged[f] # 0 /\ pass[s] = "importing"
      BY <2>1, <2>3, <2>5
    <3>2. /\ task[s][f] \in HasRead => seen[s][f] = staged[f] \/ staged[f] \in late
          /\ task[s][f] \in HasWritten => Settled(staged[f])
      BY <3>1 DEF Accounted
    <3> QED
      BY <1>1, <1>2, <2>1, <3>1, <3>2 DEF Effect, Settled, HasRead, HasWritten, Steps
  <2> QED
    BY <2>4, <2>5 DEF Accounted
<1>4. ASSUME NEW f \in Files, StageFile(f) PROVE Accounted'
  <2>1. /\ staged' = [staged EXCEPT ![f] = count'] /\ UNCHANGED <<pass, task, seen>>
        /\ AtWork # {} => count' \in late'
        /\ late \subseteq late'
    BY <1>4 DEF StageFile
  <2>2. ASSUME NEW r \in Passes, NEW g \in Files, pass[r] = "importing", staged'[g] # 0
        PROVE  \/ staged'[g] \in late'
               \/ staged'[g] = staged[g] /\ staged[g] # 0
    BY <2>1, <2>2 DEF AtWork, Typed
  <2> QED
    BY <1>1, <1>2, <2>1, <2>2 DEF Accounted, Settled
<1>5. ASSUME NEW s \in Passes, FinishPass(s) PROVE Accounted'
  <2>1. /\ staged' = staged \/ staged' = [f \in Files |-> 0]
        /\ pass' = [pass EXCEPT ![s] = "idle"]
        /\ \A r \in Passes : r # s => task'[r] = task[r] /\ seen'[r] = seen[r]
        /\ UNCHANGED <<late, imported, unsaved, kind>>
    BY <1>5 DEF FinishPass, Return, Typed
  <2> QED
    BY <2>1 DEF Accounted, Settled, Typed
<1>6. ASSUME NEW s \in Passes, ListFiles(s) PROVE Accounted'
  <2>1. /\ pass' = [pass EXCEPT ![s] = "importing"]
        /\ \A r \in Passes : r # s => task'[r] = task[r]
        /\ \A f \in Files : task'[s][f] = IF staged[f] # 0 THEN "queued" ELSE "none"
        /\ UNCHANGED <<staged, seen, late, imported, unsaved, kind>>
    BY <1>6 DEF ListFiles, Typed
  <2> QED
    BY <2>1 DEF Accounted, Settled, Typed, HasRead, HasWritten
<1>7. ASSUME NEW s \in Passes, NEW f \in Files, SpawnTask(s, f) PROVE Accounted'
  <2>1. /\ task' = [task EXCEPT ![s][f] = "read"]
        /\ UNCHANGED <<staged, pass, seen, late, imported, unsaved, kind>>
    BY <1>7 DEF SpawnTask, Goto
  <2> QED
    BY <2>1 DEF Accounted, Settled, Typed, HasRead, HasWritten
<1>8. CASE (\E p \in Paths : EditSource(p)) \/ UNCHANGED vars
  <2>1. UNCHANGED <<staged, kind, pass, task, seen, late, imported, unsaved>>
    BY <1>8 DEF EditSource, vars
  <2> QED
    BY <2>1 DEF Accounted, Settled
<1> QED
  BY <1>3, <1>4, <1>5, <1>6, <1>7, <1>8 DEF Next, Import

\* Only one task at a time has anything to do with a path that one file is about.
LEMMA NextNewestIsStaged ==
    ASSUME Typed, VersionsAreCounted, IdlePassesHaveNoTasks, NewestIsStaged, [Next]_vars
    PROVE  NewestIsStaged'
<1> USE ImporterAssumption DEF world, database, tasks, HasRead
<1>0. /\ count \in Nat /\ \A f \in Files : staged[f] \in Nat /\ PathOf[f] \in Paths
      /\ \A p \in Paths : rows[p] \in Nat
      /\ \A s \in Passes, f \in Files : seen[s][f] \in Nat
  BY DEF Typed
<1>1. ASSUME NEW s \in Passes, NEW f \in Files, Task(s, f) PROVE NewestIsStaged'
  <2>1. /\ \A r \in Passes, g \in Files : r # s \/ g # f =>
                task'[r][g] = task[r][g] /\ seen'[r][g] = seen[r][g]
        /\ pass' = pass /\ overlap' = overlap /\ Effect(s, f)
    BY <1>1, TaskStep
  <2>2. staged' = [staged EXCEPT ![f] = 0] \/ UNCHANGED staged
    BY <2>1 DEF Effect
  <2>3. \A g \in Files : staged'[g] # 0 => staged'[g] = staged[g] /\ staged[g] # 0
    BY <2>2 DEF Typed
  <2>4. \/ UNCHANGED rows
        \/ /\ rows' = [rows EXCEPT ![PathOf[f]] = seen[s][f]]
           /\ task[s][f] \in {"update", "create"} /\ task'[s][f] \in {"insert", "remove"}
           /\ seen'[s][f] = seen[s][f]
    BY <2>1 DEF Effect
  <2>5. \/ seen'[s][f] = staged[f]
        \/ seen'[s][f] = seen[s][f]
        \/ seen'[s][f] = 0
    BY <2>1 DEF Effect
  <2>6. \A r \in Passes, g \in Files : staged'[g] # 0 => seen'[r][g] <= staged'[g]
    BY <1>0, <2>1, <2>3, <2>5 DEF NewestIsStaged
  <2>7. (\A q, r \in AtWork : q = r)' <=> (\A q, r \in AtWork : q = r)
    BY <2>1 DEF AtWork
  <2>8. pass[s] = "importing" /\ s \in AtWork
    BY <2>1 DEF IdlePassesHaveNoTasks, Effect, Steps, AtWork, Typed
  <2>9. ASSUME ~overlap, NEW g \in Files, Sole(g)
        PROVE  /\ staged'[g] # 0 => rows'[PathOf[g]] <= staged'[g]
               /\ \A r \in Passes : task'[r][g] \in HasRead => rows'[PathOf[g]] <= seen'[r][g]
    <3>1. CASE g = f
      <4>1. /\ staged[f] # 0 => rows[PathOf[f]] <= staged[f]
            /\ task[s][f] \in HasRead => rows[PathOf[f]] <= seen[s][f]
        BY <2>9, <3>1 DEF NewestIsStaged
      <4>2. staged'[f] # 0 => rows'[PathOf[f]] <= staged'[f]
        BY <1>0, <2>3, <2>4, <4>1 DEF NewestIsStaged, Typed
      <4>3. task'[s][f] \in HasRead => rows'[PathOf[f]] <= seen'[s][f]
        BY <1>0, <2>1, <2>4, <4>1 DEF Effect, Steps
      <4>4. \A r \in Passes : r # s => task'[r][f] = "none"
        BY <2>1, <2>8, <2>9 DEF NewestIsStaged, AtWork, IdlePassesHaveNoTasks, Typed
      <4> QED
        BY <3>1, <4>2, <4>3, <4>4
    <3>2. CASE g # f
      <4>1. PathOf[g] # PathOf[f]
        BY <2>9, <3>2 DEF Sole
      <4>2. rows'[PathOf[g]] = rows[PathOf[g]]
        BY <1>0, <2>4, <4>1 DEF Typed
      <4> QED
        BY <2>1, <2>3, <2>9, <3>2, <4>2 DEF NewestIsStaged
    <3> QED
      BY <3>1, <3>2
  <2> QED
    BY <2>1, <2>6, <2>7, <2>9 DEF NewestIsStaged, Sole
<1>2. ASSUME NEW f \in Files, StageFile(f) PROVE NewestIsStaged'
  <2>1. /\ staged' = [staged EXCEPT ![f] = count + 1]
        /\ UNCHANGED <<rows, pass, task, seen, overlap>>
    BY <1>2 DEF StageFile
  <2>2. \A g \in Files : staged'[g] = staged[g] \/ (g = f /\ staged'[g] = count + 1)
    BY <2>1 DEF Typed
  <2> QED
    BY <1>0, <2>1, <2>2 DEF NewestIsStaged, VersionsAreCounted, AtWork, Sole
<1>3. ASSUME NEW s \in Passes, FinishPass(s) PROVE NewestIsStaged'
  <2>1. /\ staged' = staged \/ staged' = [f \in Files |-> 0]
        /\ pass' = [pass EXCEPT ![s] = "idle"]
        /\ \A r \in Passes : r # s => task'[r] = task[r] /\ seen'[r] = seen[r]
        /\ \A f \in Files : task'[s][f] = "none" /\ seen'[s][f] = 0
        /\ UNCHANGED <<rows, overlap>>
    BY <1>3 DEF FinishPass, Return, Typed
  <2>2. AtWork' \subseteq AtWork
    BY <2>1 DEF AtWork, Typed
  <2> QED
    BY <1>0, <2>1, <2>2 DEF NewestIsStaged, Sole
<1>4. ASSUME NEW s \in Passes, ListFiles(s) PROVE NewestIsStaged'
  <2>1. /\ pass' = [pass EXCEPT ![s] = "importing"]
        /\ \A r \in Passes : r # s => task'[r] = task[r]
        /\ \A f \in Files : task'[s][f] \notin HasRead
        /\ overlap' = (overlap \/ AtWork # {})
        /\ UNCHANGED <<staged, seen, rows>>
    BY <1>4 DEF ListFiles, Typed
  <2>2. ~overlap' => ~overlap /\ AtWork' = {s}
    BY <2>1 DEF AtWork, Typed
  <2> QED
    BY <1>0, <2>1, <2>2 DEF NewestIsStaged, Sole
<1>5. ASSUME NEW s \in Passes, NEW f \in Files, SpawnTask(s, f) PROVE NewestIsStaged'
  <2>1. /\ task' = [task EXCEPT ![s][f] = "read"]
        /\ UNCHANGED <<staged, pass, seen, rows, overlap>>
    BY <1>5 DEF SpawnTask, Goto
  <2>2. \A r \in Passes, g \in Files : task'[r][g] \in HasRead => task[r][g] \in HasRead
    BY <2>1 DEF Typed
  <2> QED
    BY <2>1, <2>2 DEF NewestIsStaged, AtWork, Sole
<1>6. CASE (\E p \in Paths : EditSource(p)) \/ UNCHANGED vars
  <2>1. UNCHANGED <<staged, rows, pass, task, seen, overlap>>
    BY <1>6 DEF EditSource, vars
  <2> QED
    BY <2>1 DEF NewestIsStaged, AtWork, Sole
<1> QED
  BY <1>1, <1>2, <1>3, <1>4, <1>5, <1>6 DEF Next, Import

LEMMA SpecIInv == Spec => []IInv
<1>1. IInv /\ [Next]_vars => IInv'
  BY TypeParts, NextTyped, NextPermits, NextVersionsAreCounted, NextTaskParts,
     NextAccounted, NextNewestIsStaged DEF IInv, TypeOK, Typed, Permits
<1> QED
  BY <1>1, InitIInv, PTL DEF Spec

-----------------------------------------------------------------------------
\* Type correctness, and never more tasks of a pass at work than permits.
THEOREM SpecTypeOK == Spec => []TypeOK
<1>1. IInv => TypeOK
  BY DEF IInv
<1> QED
  BY <1>1, SpecIInv, PTL

\* No entry of the runtime index is left without a row.
THEOREM SpecIndexedFilesHaveARow == Spec => []IndexedFilesHaveARow
<1>1. IInv => IndexedFilesHaveARow
  BY DEF IInv
<1> QED
  BY <1>1, SpecIInv, PTL

\* What leaves the directory has been imported, is ignored, came in during a
\* pass, or is behind an UPDATE that failed unnoticed.
THEOREM SpecNothingStagedIsLost == Spec => NothingStagedIsLost
<1> DEFINE Kept == \A f \in Files :
                     LET v == staged[f]
                     IN  v # 0 /\ staged'[f] = 0 =>
                            v \in imported \cup late \cup unsaved \/ kind[v] = "ignored"
<1>1. ASSUME IInv, [Next]_vars PROVE [Kept]_vars
  <2>1. Typed /\ Accounted /\ IdlePassesHaveNoTasks
    BY <1>1, TypeParts DEF IInv
  <2>2. ASSUME NEW s \in Passes, NEW f \in Files, Task(s, f) PROVE Kept
    <3>1. /\ Effect(s, f) /\ pass[s] = "importing"
      BY <2>1, <2>2, TaskStep DEF IdlePassesHaveNoTasks, Effect, Steps, Typed
    <3>2. staged' = staged \/ (task[s][f] = "remove" /\ staged' = [staged EXCEPT ![f] = 0])
      BY <3>1 DEF Effect
    <3>3. task[s][f] = "remove" /\ staged[f] # 0 => Settled(staged[f])
      BY <2>1, <3>1 DEF Accounted, HasWritten
    <3> QED
      BY <2>1, <3>2, <3>3 DEF Settled, Typed
  <2>3. ASSUME NEW s \in Passes, FinishPass(s) PROVE Kept
    <3>1. /\ pass[s] = "importing" /\ \A f \in Files : task[s][f] \in {"none", "ok", "failed"}
          /\ staged' = staged \/ \A f \in Files : task[s][f] # "failed"
      BY <2>3 DEF FinishPass, Ended
    <3> QED
      BY <2>1, <3>1 DEF Accounted, HasWritten, Settled
  <2>4. ASSUME NEW f \in Files, StageFile(f) PROVE Kept
    BY <2>1, <2>4, ImporterAssumption DEF StageFile, Typed
  <2>5. CASE UNCHANGED staged
    BY <2>5
  <2> QED
    BY <1>1, <2>2, <2>3, <2>4, <2>5
       DEF Next, Import, EditSource, ListFiles, SpawnTask, vars, world
<1> QED
  BY <1>1, SpecIInv, PTL DEF Spec, NothingStagedIsLost

\* Rows do not go back, unless passes overlap or files are about one path.
THEOREM SpecNothingGoesBack == Spec => NothingGoesBack
<1> DEFINE Forward == ~overlap =>
                        \A f \in Files :
                          (\A g \in Files : PathOf[g] = PathOf[f] => g = f)
                              => rows'[PathOf[f]] >= rows[PathOf[f]]
<1>1. ASSUME IInv, [Next]_vars PROVE [Forward]_vars
  <2>1. Typed /\ NewestIsStaged
    BY <1>1, TypeParts DEF IInv
  <2>2. \A p \in Paths : rows[p] \in Nat
    BY <2>1, ImporterAssumption DEF Typed
  <2>3. ASSUME NEW s \in Passes, NEW f \in Files, Task(s, f) PROVE Forward
    <3>1. \/ UNCHANGED rows
          \/ task[s][f] \in HasRead /\ rows' = [rows EXCEPT ![PathOf[f]] = seen[s][f]]
      BY <2>1, <2>3, TaskStep DEF Effect, HasRead
    <3>2. ~overlap /\ Sole(f) /\ task[s][f] \in HasRead => rows[PathOf[f]] <= seen[s][f]
      BY <2>1 DEF NewestIsStaged
    <3>3. seen[s][f] \in Nat /\ PathOf[f] \in Paths
      BY <2>1, ImporterAssumption DEF Typed
    <3>4. ASSUME ~overlap, NEW g \in Files, Sole(g)
          PROVE  rows'[PathOf[g]] >= rows[PathOf[g]]
      <4>1. CASE PathOf[g] = PathOf[f]
        BY <2>1, <2>2, <3>1, <3>2, <3>3, <3>4, <4>1 DEF Sole, Typed
      <4>2. CASE PathOf[g] # PathOf[f]
        BY <2>1, <2>2, <3>1, <4>2, ImporterAssumption DEF Typed
      <4> QED
        BY <4>1, <4>2
    <3> QED
      BY <3>4 DEF Sole
  <2>4. CASE UNCHANGED rows
    BY <2>2, <2>4, ImporterAssumption
  <2> QED
    BY <1>1, <2>3, <2>4
       DEF Next, Import, StageFile, EditSource, ListFiles, SpawnTask, FinishPass, vars, database
<1> QED
  BY <1>1, SpecIInv, PTL DEF Spec, NothingGoesBack
=============================================================================
