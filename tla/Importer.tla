------------------------------ MODULE Importer ------------------------------
(***************************************************************************)
(* engine/index/importer.rs: the passes of import_pending over the temp    *)
(* directory of one project, while the AI tool stages metadata files in it *)
(* and the project's source files are edited.                              *)
(*                                                                         *)
(* What a staged file says is a version: every write of a file stages a    *)
(* new one.  A pass lists the directory, runs one task per file under a    *)
(* semaphore, and removes the whole directory when every task succeeded.   *)
(* A task's steps are the points where others can come in between: reading *)
(* the file, hashing the source, the two queries of upsert_metadata, the   *)
(* insert into the runtime index, and the removal of the file.             *)
(***************************************************************************)
EXTENDS Naturals, FiniteSets

CONSTANTS
    Files,         \* names in the temp directory
    Paths,         \* source paths that metadata describes
    PathOf,        \* the path each file's metadata is about
    Passes,        \* callers of import_pending
    MaxConcurrent, \* MAX_CONCURRENT_IMPORTS, 8 in the code
    MaxStaged,     \* bound: versions the tool stages
    MaxEdits,      \* bound: versions of a source file
    MaxFaults      \* bound: database and hashing errors

ASSUME ImporterAssumption ==
    /\ PathOf \in [Files -> Paths]
    /\ MaxConcurrent \in Nat \ {0}
    /\ MaxStaged \in Nat /\ MaxEdits \in Nat /\ MaxFaults \in Nat
    /\ IsFiniteSet(Files)

VARIABLES
    staged,   \* per file: the version in the directory, 0 when there is none
    kind,     \* per version: what import_file makes of it
    count,    \* versions staged so far
    source,   \* per path: the version of the source file, 0 when there is none
    rows,     \* per path: the version in its file_data row, 0 when there is none
    index,    \* per path: the source version in its runtime index entry, or 0
    pass,     \* per pass: is it at work?
    task,     \* per pass and file: where its task is
    seen,     \* per pass and file: the version the task has read
    hash,     \* per pass and file: the source version it has hashed, or 0
    faults,   \* errors so far
    imported, \* history: versions that have been in a row
    late,     \* history: versions staged while a pass was at work
    unsaved,  \* history: versions whose UPDATE failed without an error
    overlap   \* history: two passes have been at work at once

database == <<rows, index>>
world == <<staged, kind, count, source, late>>
tasks == <<task, seen, hash>>
vars == <<world, database, pass, tasks, faults, imported, unsaved, overlap>>

Versions == 1 .. MaxStaged
Kinds == {"metadata", "invalid", "ignored"}
Queued == {"none", "queued"}
Ended == {"ok", "failed"}
Steps == {"read", "hash", "select", "update", "create", "insert", "remove"}

AtWork == {s \in Passes : pass[s] = "importing"}
InFlight(s) == {f \in Files : task[s][f] \in Steps}

TypeOK ==
    /\ staged \in [Files -> 0 .. MaxStaged]
    /\ kind \in [Versions -> Kinds]
    /\ count \in 0 .. MaxStaged
    /\ source \in [Paths -> 0 .. MaxEdits]
    /\ rows \in [Paths -> 0 .. MaxStaged]
    /\ index \in [Paths -> 0 .. MaxEdits]
    /\ pass \in [Passes -> {"idle", "importing"}]
    /\ task \in [Passes -> [Files -> Queued \cup Steps \cup Ended]]
    /\ seen \in [Passes -> [Files -> 0 .. MaxStaged]]
    /\ hash \in [Passes -> [Files -> 0 .. MaxEdits]]
    /\ faults \in 0 .. MaxFaults
    /\ imported \subseteq Versions /\ late \subseteq Versions /\ unsaved \subseteq Versions
    /\ overlap \in BOOLEAN
    /\ \A s \in Passes : Cardinality(InFlight(s)) <= MaxConcurrent

Init ==
    /\ staged = [f \in Files |-> 0]
    /\ kind = [v \in Versions |-> "metadata"]
    /\ count = 0
    /\ source = [p \in Paths |-> 0]
    /\ rows = [p \in Paths |-> 0]
    /\ index = [p \in Paths |-> 0]
    /\ pass = [s \in Passes |-> "idle"]
    /\ task = [s \in Passes |-> [f \in Files |-> "none"]]
    /\ seen = [s \in Passes |-> [f \in Files |-> 0]]
    /\ hash = [s \in Passes |-> [f \in Files |-> 0]]
    /\ faults = 0
    /\ imported = {} /\ late = {} /\ unsaved = {}
    /\ overlap = FALSE

-----------------------------------------------------------------------------
(* The AI tool and the editor. *)

\* The tool writes a metadata file, in place of an earlier one or not.  It may
\* be unusable (bad JSON, or a path outside the project) or about a path that
\* .mcignore excludes.
StageFile(f) ==
    /\ count < MaxStaged
    /\ count' = count + 1
    /\ staged' = [staged EXCEPT ![f] = count']
    /\ \E k \in Kinds : kind' = [kind EXCEPT ![count'] = k]
    /\ late' = IF AtWork = {} THEN late ELSE late \cup {count'}
    /\ UNCHANGED <<source, database, pass, tasks, faults, imported, unsaved, overlap>>

EditSource(p) ==
    /\ source[p] < MaxEdits
    /\ source' = [source EXCEPT ![p] = @ + 1]
    /\ UNCHANGED <<staged, kind, count, late, database, pass, tasks, faults,
                   imported, unsaved, overlap>>

-----------------------------------------------------------------------------
(* One task: import_file. *)

Goto(s, f, step) == task' = [task EXCEPT ![s][f] = step]

\* import_file returns: its locals are gone.
End(s, f, how) ==
    /\ Goto(s, f, how)
    /\ seen' = [seen EXCEPT ![s][f] = 0]
    /\ hash' = [hash EXCEPT ![s][f] = 0]

Fault == faults < MaxFaults /\ faults' = faults + 1

\* A file whose path is safe is read; one that another pass has removed, or
\* that says nothing usable, fails its task.  An ignored one is only removed.
ReadFile(s, f) ==
    /\ task[s][f] = "read"
    /\ IF staged[f] # 0 /\ kind[staged[f]] = "metadata"
       THEN /\ seen' = [seen EXCEPT ![s][f] = staged[f]]
            /\ Goto(s, f, "hash")
            /\ UNCHANGED hash
       ELSE IF staged[f] # 0 /\ kind[staged[f]] = "ignored"
       THEN Goto(s, f, "remove") /\ UNCHANGED <<seen, hash>>
       ELSE End(s, f, "failed")
    /\ UNCHANGED <<world, database, pass, faults, imported, unsaved, overlap>>

\* Faulty variant of HashSource: the entry is inserted before the row is written.
HashSourceInsertsFirst(s, f) ==
    /\ task[s][f] = "hash"
    /\ hash' = [hash EXCEPT ![s][f] = source[PathOf[f]]]
    /\ index' = [index EXCEPT ![PathOf[f]] = source[PathOf[f]]]
    /\ Goto(s, f, "select")
    /\ UNCHANGED <<world, rows, pass, seen, faults, imported, unsaved, overlap>>

\* is_file and hash_file; a missing source is not an error.
HashSource(s, f) ==
    /\ task[s][f] = "hash"
    /\ hash' = [hash EXCEPT ![s][f] = source[PathOf[f]]]
    /\ Goto(s, f, "select")
    /\ UNCHANGED <<world, database, pass, seen, faults, imported, unsaved, overlap>>

\* Does the project have a row for the path?
SelectRow(s, f) ==
    /\ task[s][f] = "select"
    /\ Goto(s, f, IF rows[PathOf[f]] = 0 THEN "create" ELSE "update")
    /\ UNCHANGED <<world, database, pass, seen, hash, faults, imported, unsaved, overlap>>

AfterUpsert(s, f) == IF hash[s][f] = 0 THEN "remove" ELSE "insert"

UpdateRow(s, f) ==
    /\ task[s][f] = "update"
    /\ rows' = [rows EXCEPT ![PathOf[f]] = seen[s][f]]
    /\ imported' = imported \cup {seen[s][f]}
    /\ Goto(s, f, AfterUpsert(s, f))
    /\ UNCHANGED <<world, index, pass, seen, hash, faults, unsaved, overlap>>

\* The UPDATE statement fails in the database.  Only the query as a whole is
\* checked, not the statement's result, so the task goes on.
UpdateLost(s, f) ==
    /\ task[s][f] = "update"
    /\ Fault
    /\ unsaved' = unsaved \cup {seen[s][f]}
    /\ Goto(s, f, AfterUpsert(s, f))
    /\ UNCHANGED <<world, database, pass, seen, hash, imported, overlap>>

\* The unique index on project and path refuses a second row, and the error is
\* taken from the result.
CreateRow(s, f) ==
    /\ task[s][f] = "create"
    /\ IF rows[PathOf[f]] = 0
       THEN /\ rows' = [rows EXCEPT ![PathOf[f]] = seen[s][f]]
            /\ imported' = imported \cup {seen[s][f]}
            /\ Goto(s, f, AfterUpsert(s, f))
            /\ UNCHANGED <<seen, hash>>
       ELSE /\ End(s, f, "failed")
            /\ UNCHANGED <<rows, imported>>
    /\ UNCHANGED <<world, index, pass, faults, unsaved, overlap>>

\* An error of hashing or of a query that is checked ends the task.
TaskFails(s, f) ==
    /\ task[s][f] \in {"hash", "select", "update", "create"}
    /\ Fault
    /\ End(s, f, "failed")
    /\ UNCHANGED <<world, database, pass, imported, unsaved, overlap>>

InsertEntry(s, f) ==
    /\ task[s][f] = "insert"
    /\ index' = [index EXCEPT ![PathOf[f]] = hash[s][f]]
    /\ Goto(s, f, "remove")
    /\ UNCHANGED <<world, rows, pass, seen, hash, faults, imported, unsaved, overlap>>

\* remove_file, whatever the file says by now; its own failure is ignored.
RemoveFile(s, f) ==
    /\ task[s][f] = "remove"
    /\ \/ staged' = [staged EXCEPT ![f] = 0] /\ UNCHANGED faults
       \/ Fault /\ UNCHANGED staged
    /\ End(s, f, "ok")
    /\ UNCHANGED <<kind, count, source, late, database, pass, imported,
                   unsaved, overlap>>

Task(s, f) ==
    \/ ReadFile(s, f) \/ HashSource(s, f) \/ SelectRow(s, f)
    \/ UpdateRow(s, f) \/ CreateRow(s, f) \/ InsertEntry(s, f) \/ RemoveFile(s, f)
    \/ UpdateLost(s, f) \/ TaskFails(s, f)

-----------------------------------------------------------------------------
(* One pass: import_pending. *)

\* The directory is listed.  A pass that finds nothing returns at once.
ListFiles(s) ==
    LET found == {f \in Files : staged[f] # 0}
    IN  /\ pass[s] = "idle"
        /\ found # {}
        /\ pass' = [pass EXCEPT ![s] = "importing"]
        /\ task' = [task EXCEPT ![s] = [f \in Files |-> IF f \in found THEN "queued" ELSE "none"]]
        /\ overlap' = (overlap \/ AtWork # {})
        /\ UNCHANGED <<world, database, seen, hash, faults, imported, unsaved>>

\* Faulty variants of SpawnTask: the permit is taken after the spawn, or is
\* kept by a task that fails.
SpawnTaskUnbounded(s, f) ==
    /\ task[s][f] = "queued"
    /\ Goto(s, f, "read")
    /\ UNCHANGED <<world, database, pass, seen, hash, faults, imported, unsaved, overlap>>

SpawnTaskLeaksPermit(s, f) ==
    /\ task[s][f] = "queued"
    /\ Cardinality(InFlight(s) \cup {g \in Files : task[s][g] = "failed"}) < MaxConcurrent
    /\ Goto(s, f, "read")
    /\ UNCHANGED <<world, database, pass, seen, hash, faults, imported, unsaved, overlap>>

\* A permit of the semaphore is free: the next task is spawned.
SpawnTask(s, f) ==
    /\ task[s][f] = "queued"
    /\ Cardinality(InFlight(s)) < MaxConcurrent
    /\ Goto(s, f, "read")
    /\ UNCHANGED <<world, database, pass, seen, hash, faults, imported, unsaved, overlap>>

\* The locals of a finished pass are gone.
Return(s) ==
    /\ pass' = [pass EXCEPT ![s] = "idle"]
    /\ task' = [task EXCEPT ![s] = [f \in Files |-> "none"]]
    /\ seen' = [seen EXCEPT ![s] = [f \in Files |-> 0]]
    /\ hash' = [hash EXCEPT ![s] = [f \in Files |-> 0]]

\* Faulty variants of FinishPass: the directory is removed although a task
\* failed; the pass returns while a task is still at work.
FinishPassRemovesAlways(s) ==
    /\ pass[s] = "importing"
    /\ \A f \in Files : task[s][f] \in {"none"} \cup Ended
    /\ staged' = [f \in Files |-> 0]
    /\ Return(s)
    /\ UNCHANGED <<kind, count, source, late, database, faults, imported, unsaved, overlap>>

FinishPassEarly(s) ==
    /\ pass[s] = "importing"
    /\ \A f \in Files : task[s][f] # "queued"
    /\ pass' = [pass EXCEPT ![s] = "idle"]
    /\ UNCHANGED <<world, database, tasks, faults, imported, unsaved, overlap>>

\* Every handle has been awaited; when all succeeded the directory goes, with
\* whatever is in it by now.
FinishPass(s) ==
    /\ pass[s] = "importing"
    /\ \A f \in Files : task[s][f] \in {"none"} \cup Ended
    /\ staged' = IF \E f \in Files : task[s][f] = "failed" THEN staged
                 ELSE [f \in Files |-> 0]
    /\ Return(s)
    /\ UNCHANGED <<kind, count, source, late, database, faults, imported, unsaved, overlap>>

Import(s) == FinishPass(s) \/ \E f \in Files : SpawnTask(s, f) \/ Task(s, f)

Next ==
    \/ \E f \in Files : StageFile(f)
    \/ \E p \in Paths : EditSource(p)
    \/ \E s \in Passes : ListFiles(s) \/ Import(s)

Spec == Init /\ [][Next]_vars

\* The runtime polls the tasks of a pass until it returns.  Nothing is assumed
\* of the tool, the editor, or whether anyone calls import_pending.
FairSpec == Spec /\ \A s \in Passes : WF_vars(Import(s))
-----------------------------------------------------------------------------
\* What the runtime index knows is in the database: whatever fails on the way,
\* no entry is left behind for a file without a row.
IndexedFilesHaveARow == \A p \in Paths : index[p] # 0 => rows[p] # 0

\* A staged file leaves the directory only after its content has been in the
\* database, or because .mcignore excludes it: no other file's success, failed
\* import or clean-up of the directory takes it away.  The exceptions are a
\* file staged while a pass was at work, and an UPDATE whose failure nobody sees.
NothingStagedIsLost ==
    [][\A f \in Files :
          LET v == staged[f]
          IN  v # 0 /\ staged'[f] = 0 =>
                 v \in imported \cup late \cup unsaved \/ kind[v] = "ignored"]_vars

\* Unless passes overlap, or two files are about one path, a row never goes
\* back to older metadata: no task of a pass that has returned is left.
NothingGoesBack ==
    [][~overlap =>
          \A f \in Files :
             (\A g \in Files : PathOf[g] = PathOf[f] => g = f)
                 => rows'[PathOf[f]] >= rows[PathOf[f]]]_vars

\* A pass ends, with as many files as it has and as few permits as there are.
PassEnds == \A s \in Passes : pass[s] = "importing" ~> pass[s] = "idle"

\* importer.rs on import_pending: "Individual files are deleted on success."
\* A file staged or rewritten during the pass is deleted without an import.
DeletedOnlyOnSuccess ==
    [][\A f \in Files :
          staged[f] # 0 /\ staged'[f] = 0 =>
              staged[f] \in imported \/ kind[staged[f]] = "ignored"]_vars
=============================================================================
