------------------------------ MODULE Projects ------------------------------
(***************************************************************************)
(* The projects table: service/project.rs (register with the reconciling   *)
(* of duplicates) and migration v005, which makes the roots canonical and  *)
(* unique, as run.rs applies and records it.                               *)
(*                                                                         *)
(* Statements run one by one and none of these operations is a             *)
(* transaction, so a process may end between any two of them.  A statement *)
(* whose result is not taken can fail without anybody noticing.  A root is *)
(* stored in some spelling, and a spelling is canonical or not.            *)
(***************************************************************************)
EXTENDS Naturals, FiniteSets

CONSTANTS
    Ids,          \* record ids
    Old,          \* the ids that a database from before v005 may have
    NoId,
    Roots,        \* canonical directories
    TopRoot,      \* "/"
    Callers,      \* callers of register
    MaxTime,      \* bound: seconds of updated_at
    MaxFaults     \* bound: statements that fail unnoticed

ASSUME ProjectsAssumption ==
    /\ Old \subseteq Ids /\ NoId \notin Ids
    /\ TopRoot \in Roots
    /\ MaxTime \in Nat /\ MaxFaults \in Nat

VARIABLES
    db,        \* per id: its projects row
    files,     \* ids that file_data rows refer to
    minted,    \* ids that have been used
    unique,    \* is unique_root_path defined?
    recorded,  \* does _migrations have version 5?
    mig,       \* the migration: where it is, what it selected, what is to be done
    pc,        \* per caller: where its register is
    req,       \* per caller: the directory, and the id in its config.json
    found,     \* per caller: the record to be updated, or none
    todo,      \* per caller: duplicates whose file_data is to be deleted
    dead,      \* per caller: duplicates to be deleted
    faults,    \* statements that have failed unnoticed
    crossed    \* per caller, history: another register was at work meanwhile

table == <<db, files, minted>>
schema == <<unique, recorded>>
calls == <<pc, req, found, todo, dead, crossed>>
vars == <<table, schema, mig, calls, faults>>

Rows == [root : Roots, canonical : BOOLEAN, updated : 0 .. MaxTime]
NoRow == [root |-> TopRoot, canonical |-> FALSE, updated |-> MaxTime + 1]
Exists(i) == i \in Ids /\ db[i] # NoRow
Live == {i \in Ids : Exists(i)}
NoRequest == [root |-> TopRoot, config |-> NoId]

MigrationIdle == [at |-> "idle", rows |-> {}, todo |-> {}, dead |-> {}]

TypeOK ==
    /\ db \in [Ids -> Rows \cup {NoRow}]
    /\ files \subseteq minted /\ Live \subseteq minted /\ minted \subseteq Ids
    /\ unique \in BOOLEAN /\ recorded \in BOOLEAN
    /\ mig \in [at : {"idle", "canonicalize", "files", "index", "record"},
                rows : SUBSET Ids, todo : SUBSET Ids, dead : SUBSET Ids]
    /\ pc \in [Callers -> {"idle", "by_root", "files", "by_id", "update", "create",
                           "registered"}]
    /\ req \in [Callers -> [root : Roots, config : Ids \cup {NoId}]]
    /\ found \in [Callers -> Ids \cup {NoId}]
    /\ todo \in [Callers -> SUBSET Ids] /\ dead \in [Callers -> SUBSET Ids]
    /\ faults \in 0 .. MaxFaults
    /\ crossed \in [Callers -> BOOLEAN]

\* A database from before v005: roots in any spelling, any number of times.
Init ==
    /\ db \in [Ids -> Rows \cup {NoRow}]
    /\ \A i \in Ids \ Old : db[i] = NoRow
    /\ files = Live /\ minted = Live
    /\ unique = FALSE /\ recorded = FALSE
    /\ mig = MigrationIdle
    /\ pc = [c \in Callers |-> "idle"]
    /\ req = [c \in Callers |-> NoRequest]
    /\ found = [c \in Callers |-> NoId]
    /\ todo = [c \in Callers |-> {}] /\ dead = [c \in Callers |-> {}]
    /\ faults = 0
    /\ crossed = [c \in Callers |-> FALSE]

\* A statement whose result nobody takes: it works, or fails unnoticed.
Unchecked(Works, Fails) ==
    \/ Works /\ UNCHANGED faults
    \/ faults < MaxFaults /\ faults' = faults + 1 /\ Fails

SameSpelling(i, j) == db[i].root = db[j].root /\ db[i].canonical = db[j].canonical

MostRecent(S) == {i \in S : \A j \in S : db[j].updated <= db[i].updated}

Busy == {c \in Callers : pc[c] # "idle"}

-----------------------------------------------------------------------------
(* Migration v005.  The process that migrates serves no register meanwhile. *)

MigrationStep(at) == mig.at = at /\ UNCHANGED calls

\* Faulty variant of MigrationStart: the version is recorded before it is applied.
MigrationStartRecords ==
    /\ MigrationStep("idle")
    /\ Busy = {}
    /\ ~recorded
    /\ recorded' = TRUE
    /\ mig' = [at |-> "canonicalize", rows |-> Live,
               todo |-> {i \in Live : ~db[i].canonical}, dead |-> {}]
    /\ UNCHANGED <<table, unique, faults>>

MigrationStart ==
    /\ MigrationStep("idle")
    /\ Busy = {}
    /\ ~recorded
    /\ mig' = [at |-> "canonicalize", rows |-> Live,
               todo |-> {i \in Live : ~db[i].canonical}, dead |-> {}]
    /\ UNCHANGED <<table, schema, faults>>

\* UPDATE $id SET root_path, unless the index refuses it.
MigrationCanonicalize ==
    /\ MigrationStep("canonicalize")
    /\ \E i \in mig.todo :
          /\ mig' = [mig EXCEPT !.todo = @ \ {i}]
          /\ IF unique /\ \E j \in Live \ {i} : db[j].canonical /\ db[j].root = db[i].root
             THEN UNCHANGED <<db, faults>>
             ELSE Unchecked(db' = [db EXCEPT ![i].canonical = TRUE], UNCHANGED db)
    /\ UNCHANGED <<files, minted, schema>>

\* Faulty variant of Duplicates: the whole group is dropped.
DuplicatesAll(keep) ==
    {i \in mig.rows : db[i].root = TopRoot
                      \/ \E j \in mig.rows \ {i} : db[j].root = db[i].root}

\* Everything but one project of each canonical root, and all of the top's.
Duplicates(keep) ==
    {i \in mig.rows : db[i].root = TopRoot \/ i \notin keep}

\* The most recently updated project of each root is kept, whichever sorts last.
MigrationPlan ==
    /\ MigrationStep("canonicalize")
    /\ mig.todo = {}
    /\ \E keep \in SUBSET mig.rows :
          /\ \A r \in Roots :
                LET group == {i \in mig.rows : db[i].root = r}
                IN  group # {} => \E k \in MostRecent(group) : keep \cap group = {k}
          /\ LET drop == Duplicates(keep)
             IN  mig' = [mig EXCEPT !.at = IF drop = {} THEN "index" ELSE "files",
                                    !.todo = drop, !.dead = drop]
    /\ UNCHANGED <<table, schema, faults>>

\* DELETE file_data WHERE project_id = $id, for each.
MigrationDeleteFiles ==
    /\ MigrationStep("files")
    /\ \E i \in mig.todo :
          /\ mig' = [mig EXCEPT !.todo = @ \ {i}]
          /\ Unchecked(files' = files \ {i}, UNCHANGED files)
    /\ UNCHANGED <<db, minted, schema>>

Without(S) == [i \in Ids |-> IF i \in S THEN NoRow ELSE db[i]]

MigrationDeleteProjects ==
    /\ MigrationStep("files")
    /\ mig.todo = {}
    /\ mig' = [mig EXCEPT !.at = "index"]
    /\ Unchecked(db' = Without(mig.dead), UNCHANGED db)
    /\ UNCHANGED <<files, minted, schema>>

\* DEFINE INDEX: its failure on duplicates goes unnoticed like any other.
MigrationIndex ==
    /\ MigrationStep("index")
    /\ mig' = [mig EXCEPT !.at = "record"]
    /\ IF \E i, j \in Live : i # j /\ SameSpelling(i, j)
       THEN UNCHANGED <<unique, faults>>
       ELSE Unchecked(unique' = TRUE, UNCHANGED unique)
    /\ UNCHANGED <<table, recorded>>

\* run.rs: CREATE _migrations.
MigrationRecord ==
    /\ MigrationStep("record")
    /\ mig' = MigrationIdle
    /\ Unchecked(recorded' = TRUE, UNCHANGED recorded)
    /\ UNCHANGED <<table, unique>>

\* The process ends, or a query fails as a whole: nothing is recorded.
MigrationAborts ==
    /\ mig.at # "idle"
    /\ mig' = MigrationIdle
    /\ UNCHANGED <<table, schema, calls, faults>>

Migration ==
    \/ MigrationStart \/ MigrationCanonicalize \/ MigrationPlan \/ MigrationDeleteFiles
    \/ MigrationDeleteProjects \/ MigrationIndex \/ MigrationRecord \/ MigrationAborts

-----------------------------------------------------------------------------
(* register.                                                               *)

Goto(c, at) == pc' = [pc EXCEPT ![c] = at]

RegisterStep(c, at) == pc[c] = at /\ UNCHANGED <<schema, mig>>

Return(c) ==
    /\ Goto(c, "idle")
    /\ req' = [req EXCEPT ![c] = NoRequest]
    /\ found' = [found EXCEPT ![c] = NoId]
    /\ todo' = [todo EXCEPT ![c] = {}]
    /\ dead' = [dead EXCEPT ![c] = {}]
    /\ crossed' = [crossed EXCEPT ![c] = FALSE]

\* The root is canonicalised first, and the top is refused.  config.json may be a
\* copy, with any id that has been given to a project, or there is none.
RegisterBegin(c, r, config) ==
    /\ RegisterStep(c, "idle")
    /\ mig.at = "idle"
    /\ r # TopRoot
    /\ req' = [req EXCEPT ![c] = [root |-> r, config |-> config]]
    /\ Goto(c, "by_root")
    /\ crossed' = [d \in Callers |-> crossed[d] \/ (Busy # {} /\ d \in Busy \cup {c})]
    /\ UNCHANGED <<table, found, todo, dead, faults>>

\* SELECT ... WHERE root_path, and the choice of reconcile_root_records: the
\* record that config.json names if it is one of them, else the most recent.
RegisterByRoot(c) ==
    /\ RegisterStep(c, "by_root")
    /\ LET here == {i \in Live : db[i].canonical /\ db[i].root = req[c].root}
           named == here \cap {req[c].config}
       IN  IF here = {} THEN Goto(c, "by_id") /\ UNCHANGED <<found, todo, dead>>
           ELSE \E k \in (IF named # {} THEN named ELSE MostRecent(here)) :
                   /\ found' = [found EXCEPT ![c] = k]
                   /\ todo' = [todo EXCEPT ![c] = here \ {k}]
                   /\ dead' = [dead EXCEPT ![c] = here \ {k}]
                   /\ Goto(c, IF here = {k} THEN "by_id" ELSE "files")
    /\ UNCHANGED <<table, req, crossed, faults>>

\* Faulty variant of RegisterDeleteFiles: file_data is matched with IN against
\* an array of record ids, which matches nothing.
RegisterDeleteFilesIn(c) ==
    /\ RegisterStep(c, "files")
    /\ todo[c] # {}
    /\ todo' = [todo EXCEPT ![c] = {}]
    /\ UNCHANGED <<table, pc, req, found, dead, crossed, faults>>

RegisterDeleteFiles(c) ==
    /\ RegisterStep(c, "files")
    /\ \E i \in todo[c] :
          /\ todo' = [todo EXCEPT ![c] = @ \ {i}]
          /\ Unchecked(files' = files \ {i}, UNCHANGED files)
    /\ UNCHANGED <<db, minted, pc, req, found, dead, crossed>>

RegisterDeleteProjects(c) ==
    /\ RegisterStep(c, "files")
    /\ todo[c] = {}
    /\ Unchecked(db' = Without(dead[c]), UNCHANGED db)
    /\ Goto(c, "by_id")
    /\ dead' = [dead EXCEPT ![c] = {}]
    /\ UNCHANGED <<files, minted, req, found, todo, crossed>>

GoOn(c, at) ==
    /\ Goto(c, at)
    /\ req' = [req EXCEPT ![c].config = NoId]
    /\ UNCHANGED <<todo, dead, crossed>>

\* SELECT ... WHERE id, and what follows from the two records: an identity
\* conflict, an update of the record here, of the moved one, or a new one.
\* Nothing asks for the id in config.json again.
RegisterById(c) ==
    /\ RegisterStep(c, "by_id")
    /\ LET config == req[c].config
           exists == Exists(config)
       IN  IF found[c] # NoId
           THEN IF exists /\ config # found[c]
                THEN Return(c)
                ELSE GoOn(c, "update") /\ UNCHANGED found
           ELSE IF exists
                THEN GoOn(c, "update") /\ found' = [found EXCEPT ![c] = config]
                ELSE GoOn(c, "create") /\ UNCHANGED found
    /\ UNCHANGED <<table, faults>>

\* Does the index refuse this root to the project?
Taken(i, r) == unique /\ \E j \in Live \ {i} : db[j].canonical /\ db[j].root = r

Written(c, t) == [root |-> req[c].root, canonical |-> TRUE, updated |-> t]

\* updated_at = time::now(), in seconds.
Now == {t \in 0 .. MaxTime : \A i \in Live : db[i].updated <= t}

\* Faulty variant of RegisterUpdate: the root of a moved project stays.
RegisterUpdateKeepsRoot(c) ==
    /\ RegisterStep(c, "update")
    /\ Goto(c, "registered")
    /\ \E t \in Now : db' = IF Exists(found[c])
                            THEN [db EXCEPT ![found[c]].updated = t] ELSE db
    /\ UNCHANGED <<files, minted, req, found, todo, dead, crossed, faults>>

\* UPDATE $id touches nothing when the record has been deleted meanwhile, and
\* returns no error for that.
RegisterUpdate(c) ==
    /\ RegisterStep(c, "update")
    /\ ~Taken(found[c], req[c].root)
    /\ Goto(c, "registered")
    /\ \E t \in Now : db' = IF Exists(found[c])
                            THEN [db EXCEPT ![found[c]] = Written(c, t)] ELSE db
    /\ UNCHANGED <<files, minted, req, found, todo, dead, crossed, faults>>

RegisterCreate(c) ==
    /\ RegisterStep(c, "create")
    /\ ~Taken(NoId, req[c].root)
    /\ \E i \in Ids \ minted, t \in Now :
          /\ db' = [db EXCEPT ![i] = Written(c, t)]
          /\ minted' = minted \cup {i}
          /\ found' = [found EXCEPT ![c] = i]
    /\ Goto(c, "registered")
    /\ UNCHANGED <<files, req, todo, dead, crossed, faults>>

\* The call returns: with its id, or, from any point, with an error that is
\* checked (no user profile, the root or the slug is taken, the database fails).
RegisterReturn(c) ==
    /\ pc[c] # "idle"
    /\ Return(c)
    /\ UNCHANGED <<table, schema, mig, faults>>

Register(c) ==
    \/ \E r \in Roots, config \in minted \cup {NoId} : RegisterBegin(c, r, config)
    \/ RegisterByRoot(c) \/ RegisterDeleteFiles(c) \/ RegisterDeleteProjects(c)
    \/ RegisterById(c) \/ RegisterUpdate(c) \/ RegisterCreate(c) \/ RegisterReturn(c)

\* update_metadata of a project: of what it sets, updated_at alone matters here
\* (which within a second stays what it is).
UpdateMetadata ==
    /\ mig.at = "idle"
    /\ \E i \in Live : \E t \in Now \ {db[i].updated} : db' = [db EXCEPT ![i].updated = t]
    /\ UNCHANGED <<files, minted, schema, mig, calls, faults>>

Next == Migration \/ UpdateMetadata \/ \E c \in Callers : Register(c)

Spec == Init /\ [][Next]_vars
-----------------------------------------------------------------------------
\* No file_data is left behind for a project that is gone, wherever the
\* migration or the reconciling stopped; unless a statement failed unnoticed.
NoOrphans == faults = 0 => files \subseteq Live

\* Once v005 is recorded no directory has two projects, and "/" has none:
\* whatever crashed on the way, and whatever registered before and since.
OneProjectPerRoot ==
    faults = 0 /\ recorded =>
        \A i, j \in Live : /\ db[i].root # TopRoot
                           /\ db[i].root = db[j].root => i = j

\* The last project of a directory is never deleted, by the migration or by a
\* register, even when statements fail; unless registers of it overlap.
RootsSurvive ==
    [][\A i \in Ids :
          Exists(i) /\ db'[i] = NoRow =>
              \/ db[i].root = TopRoot
              \/ \E j \in Ids : db'[j] # NoRow /\ db'[j].root = db[i].root
              \/ \E c \in Callers : crossed[c]]_vars

\* A register that ran alone returns the id of the one project at its root.
RegisterTellsTheTruth ==
    \A c \in Callers :
        pc[c] = "registered" /\ ~crossed[c] =>
            Exists(found[c]) /\ db[found[c]].root = req[c].root /\ db[found[c]].canonical
=============================================================================
