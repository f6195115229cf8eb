--------------------------- MODULE ProjectsProofs ---------------------------
(***************************************************************************)
(* Migration v005 and the registers, for any ids, directories and callers, *)
(* wherever the migration stops and however often it starts again: no      *)
(* file_data is orphaned, no directory gets a second project, the last     *)
(* project of a directory stays, and a register that ran alone returns the *)
(* project at its root.                                                    *)
(***************************************************************************)
EXTENDS Projects, TLAPS

\* The migration runs beside no register, and not once it is recorded; a
\* register that none has crossed is the only one.
OneAtWork ==
    /\ mig.at # "idle" => Busy = {} /\ ~recorded
    /\ \A c \in Callers : pc[c] # "idle" /\ ~crossed[c] => Busy = {c}

\* What the migration has selected stays what there is until it deletes.
RowsAreSelected ==
    /\ mig.at \in {"canonicalize", "files"} => mig.rows = Live
    /\ mig.at = "canonicalize" => mig.todo \subseteq Live

\* Whoever deletes projects has deleted their file_data before, or is about to.
DeadHaveNoFiles ==
    faults = 0 =>
        /\ mig.at = "files" => files \cap mig.dead \subseteq mig.todo
        /\ \A c \in Callers : pc[c] = "files" => files \cap dead[c] \subseteq todo[c]

\* These projects have canonical roots, all different, and not the top.
Tidy(S) ==
    \A i \in S : /\ db[i].canonical /\ db[i].root # TopRoot
                 /\ \A j \in S : db[i].root = db[j].root => i = j

\* How far the migration has got; the index is there only with tidy projects, so
\* a migration that starts again finds nothing that the index could refuse.
RootsAreTidied ==
    faults = 0 =>
        /\ mig.at = "canonicalize" => \A i \in Live \ mig.todo : db[i].canonical
        /\ mig.at = "files" => Tidy(Live \ mig.dead)
        /\ unique \/ mig.at \in {"index", "record"} => Tidy(Live)
        /\ recorded \/ mig.at = "record" => unique

\* Every root but the top has a project that the migration keeps.
RootsAreKept ==
    mig.at = "files" =>
        \A i \in mig.dead : \/ db[i].root = TopRoot
                            \/ \E j \in Live \ mig.dead : db[j].root = db[i].root

NoRegisterOfTop == \A c \in Callers : pc[c] # "idle" => req[c].root # TopRoot

NothingFoundYet == \A c \in Callers : pc[c] \in {"idle", "by_root"} => found[c] = NoId

Here(c, i) == Exists(i) /\ db[i].root = req[c].root /\ db[i].canonical

\* What a register that has run alone so far knows of the record it has found.
LoneRegister ==
    \A c \in Callers : ~crossed[c] =>
        /\ pc[c] = "files" => /\ Here(c, found[c]) /\ found[c] \notin dead[c]
                              /\ \A i \in dead[c] : db[i].root = req[c].root
        /\ pc[c] = "by_id" /\ found[c] # NoId => Exists(found[c])
        /\ pc[c] = "update" => Exists(found[c])
        /\ pc[c] = "registered" => Here(c, found[c])

IInv ==
    /\ TypeOK
    /\ OneAtWork
    /\ RowsAreSelected
    /\ DeadHaveNoFiles /\ NoOrphans
    /\ RootsAreTidied
    /\ RootsAreKept
    /\ NoRegisterOfTop
    /\ NothingFoundYet
    /\ LoneRegister

-----------------------------------------------------------------------------
(* Rows.                                                                   *)

LEMMA NoRowIsNone == NoRow \notin Rows /\ NoRow.root = TopRoot
<1>1. MaxTime + 1 \notin 0 .. MaxTime
  BY ProjectsAssumption
<1>2. NoRow.updated = MaxTime + 1 /\ NoRow.root = TopRoot
  BY DEF NoRow
<1>3. \A r \in Rows : r.updated \in 0 .. MaxTime
  BY DEF Rows
<1> QED
  BY <1>1, <1>2, <1>3

LEMMA LiveRows ==
    ASSUME TypeOK
    PROVE  /\ \A i : i \in Live <=> i \in Ids /\ db[i] # NoRow
           /\ \A i \in Live : i \in Ids /\ i \in minted /\ db[i] \in Rows
           /\ \A i : Exists(i) <=> i \in Live
<1>1. \A i : i \in Live <=> i \in Ids /\ db[i] # NoRow
  BY DEF Live, Exists
<1> QED
  BY <1>1 DEF TypeOK, Live, Exists

\* The rows after a row has been written.
LEMMA WrittenRow ==
    ASSUME TypeOK, NEW c \in Callers, NEW t \in Now
    PROVE  /\ Written(c, t) \in Rows /\ Written(c, t) # NoRow
           /\ Written(c, t).root = req[c].root /\ Written(c, t).canonical
<1>1. req[c].root \in Roots /\ t \in 0 .. MaxTime
  BY DEF TypeOK, Now
<1>2. Written(c, t) \in Rows
  BY <1>1 DEF Written, Rows
<1> QED
  BY <1>2, NoRowIsNone DEF Written

\* After a deletion: what is left is what it was.
LEMMA WithoutRows ==
    ASSUME TypeOK, NEW S, db' = Without(S)
    PROVE  /\ db' \in [Ids -> Rows \cup {NoRow}]
           /\ Live' = Live \ S
           /\ \A i \in Live' : db'[i] = db[i]
<1>1. /\ db' \in [Ids -> Rows \cup {NoRow}]
      /\ \A i \in Ids : db'[i] = IF i \in S THEN NoRow ELSE db[i]
  BY DEF TypeOK, Without
<1>2. /\ \A i : i \in Live <=> i \in Ids /\ db[i] # NoRow
      /\ \A i : i \in Live' <=> i \in Ids /\ db'[i] # NoRow
  BY DEF Live, Exists
<1>3. Live' = Live \ S
  BY <1>1, <1>2
<1> QED
  BY <1>1, <1>2, <1>3

-----------------------------------------------------------------------------
(* Types.                                                                  *)

\* A step of the migration: what it does to the table, and where it goes.
LEMMA MigrationTypes ==
    ASSUME IInv, Migration
    PROVE  TypeOK' /\ calls' = calls
<1> USE DEF IInv, MigrationStep
<1> DEFINE MigType ==
        [at : {"idle", "canonicalize", "files", "index", "record"},
         rows : SUBSET Ids, todo : SUBSET Ids, dead : SUBSET Ids]
<1>1. Live \subseteq Ids
  BY DEF Live
<1>2. faults \in 0 .. MaxFaults /\ MaxFaults \in Nat
  BY ProjectsAssumption DEF TypeOK
<1>3. ASSUME calls' = calls, mig' \in MigType, db' = db, files' \subseteq files,
             minted' = minted, unique' \in BOOLEAN, recorded' \in BOOLEAN,
             faults' \in 0 .. MaxFaults
      PROVE  TypeOK' /\ calls' = calls
  BY <1>3 DEF TypeOK, calls, Live, Exists
<1>4. CASE MigrationStart
  <2>1. mig' \in MigType
    BY <1>1, <1>4 DEF MigrationStart
  <2> QED
    BY <2>1, <1>2, <1>3, <1>4 DEF MigrationStart, table, schema, TypeOK
<1>5. CASE MigrationCanonicalize
  <2>1. PICK i \in mig.todo :
          /\ mig' = [mig EXCEPT !.todo = @ \ {i}]
          /\ IF unique /\ \E j \in Live \ {i} : db[j].canonical /\ db[j].root = db[i].root
             THEN UNCHANGED <<db, faults>>
             ELSE Unchecked(db' = [db EXCEPT ![i].canonical = TRUE], UNCHANGED db)
    BY <1>5 DEF MigrationCanonicalize
  <2>2. /\ mig.at = "canonicalize" /\ files' = files /\ minted' = minted
        /\ unique' = unique /\ recorded' = recorded /\ calls' = calls
    BY <1>5 DEF MigrationCanonicalize, schema
  <2>3. mig' \in MigType
    BY <2>1 DEF TypeOK
  <2>4. faults' \in 0 .. MaxFaults
    BY <2>1, <1>2 DEF Unchecked
  <2>5. CASE db' = db
    BY <1>3, <2>2, <2>3, <2>4, <2>5 DEF TypeOK
  <2>6. CASE db' = [db EXCEPT ![i].canonical = TRUE]
    <3>1. i \in Ids /\ db[i] \in Rows
      BY <2>1, <2>2, LiveRows DEF RowsAreSelected
    <3>2. [db[i] EXCEPT !.canonical = TRUE] \in Rows
      BY <3>1 DEF Rows
    <3>3. /\ db' \in [Ids -> Rows \cup {NoRow}]
          /\ db'[i] \in Rows /\ \A j \in Ids \ {i} : db'[j] = db[j]
      BY <2>6, <3>1, <3>2 DEF TypeOK
    <3>4. Live' \subseteq Live
      BY <3>1, <3>3, NoRowIsNone DEF Live, Exists
    <3> QED
      BY <2>2, <2>3, <2>4, <3>3, <3>4 DEF TypeOK, calls
  <2> QED
    BY <2>1, <2>5, <2>6 DEF Unchecked
<1>6. CASE MigrationPlan
  <2>1. PICK keep : mig' = [mig EXCEPT !.at = IF Duplicates(keep) = {} THEN "index" ELSE "files",
                                       !.todo = Duplicates(keep), !.dead = Duplicates(keep)]
    BY <1>6 DEF MigrationPlan
  <2>2. Duplicates(keep) \subseteq Ids
    BY DEF Duplicates, TypeOK
  <2> HIDE DEF IInv
  <2>3. mig' \in MigType
    BY <2>1, <2>2 DEF IInv, TypeOK
  <2> QED
    BY <2>3, <1>2, <1>3, <1>6 DEF MigrationPlan, table, schema, TypeOK, IInv
<1>7. CASE MigrationDeleteFiles
  <2>1. mig' \in MigType
    <3>1. PICK i \in mig.todo : mig' = [mig EXCEPT !.todo = @ \ {i}]
      BY <1>7 DEF MigrationDeleteFiles
    <3> QED
      BY <3>1 DEF TypeOK
  <2>2. faults' \in 0 .. MaxFaults /\ files' \subseteq files
    BY <1>7, <1>2 DEF MigrationDeleteFiles, Unchecked
  <2> QED
    BY <2>1, <2>2, <1>3, <1>7 DEF MigrationDeleteFiles, schema, TypeOK
<1>8. CASE MigrationDeleteProjects
  <2>1. mig' \in MigType
    BY <1>8 DEF MigrationDeleteProjects, TypeOK
  <2>2. faults' \in 0 .. MaxFaults
    BY <1>8, <1>2 DEF MigrationDeleteProjects, Unchecked
  <2>3. /\ files' = files /\ minted' = minted /\ calls' = calls
        /\ unique' = unique /\ recorded' = recorded
    BY <1>8 DEF MigrationDeleteProjects, schema
  <2>4. CASE db' = db
    BY <1>3, <2>1, <2>2, <2>3, <2>4 DEF TypeOK
  <2>5. CASE db' = Without(mig.dead)
    BY <2>1, <2>2, <2>3, <2>5, WithoutRows DEF TypeOK, calls
  <2> QED
    BY <1>8, <2>4, <2>5 DEF MigrationDeleteProjects, Unchecked
<1>9. CASE MigrationIndex
  <2>1. mig' \in MigType
    BY <1>9 DEF MigrationIndex, TypeOK
  <2>2. faults' \in 0 .. MaxFaults
    BY <1>9, <1>2 DEF MigrationIndex, Unchecked
  <2>3. unique' = unique \/ unique' = TRUE
    BY <1>9 DEF MigrationIndex, Unchecked
  <2>4. unique' \in BOOLEAN
    BY <2>3 DEF TypeOK
  <2> QED
    BY <2>1, <2>2, <2>4, <1>3, <1>9 DEF MigrationIndex, table, TypeOK
<1>10. CASE MigrationRecord
  <2>1. mig' \in MigType
    BY <1>10 DEF MigrationRecord, MigrationIdle
  <2>2. faults' \in 0 .. MaxFaults
    BY <1>10, <1>2 DEF MigrationRecord, Unchecked
  <2>3. recorded' = recorded \/ recorded' = TRUE
    BY <1>10 DEF MigrationRecord, Unchecked
  <2>4. recorded' \in BOOLEAN
    BY <2>3 DEF TypeOK
  <2> QED
    BY <2>1, <2>2, <2>4, <1>3, <1>10 DEF MigrationRecord, table, TypeOK
<1>11. CASE MigrationAborts
  <2>1. mig' \in MigType
    BY <1>11 DEF MigrationAborts, MigrationIdle
  <2> QED
    BY <2>1, <1>2, <1>3, <1>11 DEF MigrationAborts, table, schema, TypeOK
<1> QED
  BY <1>4, <1>5, <1>6, <1>7, <1>8, <1>9, <1>10, <1>11 DEF Migration

\* A register moves its own caller only; a new one crosses those that are at work.
Frame(c) ==
    /\ UNCHANGED <<schema, mig>>
    /\ \A d \in Callers \ {c} :
          /\ pc'[d] = pc[d] /\ req'[d] = req[d] /\ found'[d] = found[d]
          /\ todo'[d] = todo[d] /\ dead'[d] = dead[d]
          /\ crossed'[d] = crossed[d] \/ (crossed'[d] /\ pc[c] = "idle")

LocalTypes ==
    /\ pc' \in [Callers -> {"idle", "by_root", "files", "by_id", "update", "create",
                            "registered"}]
    /\ req' \in [Callers -> [root : Roots, config : Ids \cup {NoId}]]
    /\ found' \in [Callers -> Ids \cup {NoId}]
    /\ todo' \in [Callers -> SUBSET Ids] /\ dead' \in [Callers -> SUBSET Ids]
    /\ crossed' \in [Callers -> BOOLEAN]

LEMMA ReturnMoves ==
    ASSUME TypeOK, NEW c \in Callers, Return(c), UNCHANGED <<schema, mig>>
    PROVE  LocalTypes /\ Frame(c) /\ pc'[c] = "idle"
<1>1. NoRequest \in [root : Roots, config : Ids \cup {NoId}]
  BY ProjectsAssumption DEF NoRequest
<1>2. /\ pc' \in [Callers -> {"idle", "by_root", "files", "by_id", "update", "create",
                              "registered"}]
      /\ pc'[c] = "idle" /\ \A d \in Callers \ {c} : pc'[d] = pc[d]
  BY DEF Return, Goto, TypeOK
<1>3. /\ req' \in [Callers -> [root : Roots, config : Ids \cup {NoId}]]
      /\ \A d \in Callers \ {c} : req'[d] = req[d]
  BY <1>1 DEF Return, TypeOK
<1>4. /\ found' \in [Callers -> Ids \cup {NoId}]
      /\ \A d \in Callers \ {c} : found'[d] = found[d]
  BY DEF Return, TypeOK
<1>5. /\ todo' \in [Callers -> SUBSET Ids] /\ dead' \in [Callers -> SUBSET Ids]
      /\ \A d \in Callers \ {c} : todo'[d] = todo[d] /\ dead'[d] = dead[d]
  BY DEF Return, TypeOK
<1>6. /\ crossed' \in [Callers -> BOOLEAN]
      /\ \A d \in Callers \ {c} : crossed'[d] = crossed[d]
  BY DEF Return, TypeOK
<1> QED
  BY <1>2, <1>3, <1>4, <1>5, <1>6 DEF LocalTypes, Frame

\* What the steps of a register do to its locals.
LEMMA RegisterMoves ==
    ASSUME TypeOK, NEW c \in Callers, Register(c)
    PROVE  LocalTypes /\ Frame(c)
<1> USE DEF RegisterStep
<1>1. ASSUME NEW r \in Roots, NEW config \in minted \cup {NoId}, RegisterBegin(c, r, config)
      PROVE  LocalTypes /\ Frame(c)
  <2>1. [root |-> r, config |-> config] \in [root : Roots, config : Ids \cup {NoId}]
    BY DEF TypeOK
  <2>2. /\ pc[c] = "idle" /\ UNCHANGED <<schema, mig, found, todo, dead>>
        /\ pc' = [pc EXCEPT ![c] = "by_root"]
        /\ req' = [req EXCEPT ![c] = [root |-> r, config |-> config]]
        /\ crossed' = [d \in Callers |-> crossed[d] \/ (Busy # {} /\ d \in Busy \cup {c})]
    BY <1>1 DEF RegisterBegin, Goto
  <2>3. /\ crossed' \in [Callers -> BOOLEAN]
        /\ \A d \in Callers : crossed'[d] = crossed[d] \/ crossed'[d]
    <3>1. \A d \in Callers : crossed[d] \in BOOLEAN
      BY DEF TypeOK
    <3> QED
      BY <2>2, <3>1, Zenon
  <2>4. /\ pc' \in [Callers -> {"idle", "by_root", "files", "by_id", "update", "create",
                                "registered"}]
        /\ req' \in [Callers -> [root : Roots, config : Ids \cup {NoId}]]
        /\ \A d \in Callers \ {c} : pc'[d] = pc[d] /\ req'[d] = req[d]
    BY <2>1, <2>2 DEF TypeOK
  <2> QED
    BY <2>2, <2>3, <2>4 DEF LocalTypes, Frame, TypeOK
<1>2. CASE RegisterByRoot(c)
  <2> DEFINE here == {i \in Live : db[i].canonical /\ db[i].root = req[c].root}
  <2>1. /\ UNCHANGED <<schema, mig, req, crossed>>
        /\ \/ Goto(c, "by_id") /\ UNCHANGED <<found, todo, dead>>
           \/ \E k \in here : /\ found' = [found EXCEPT ![c] = k]
                              /\ todo' = [todo EXCEPT ![c] = here \ {k}]
                              /\ dead' = [dead EXCEPT ![c] = here \ {k}]
                              /\ Goto(c, "by_id") \/ Goto(c, "files")
    BY <1>2 DEF RegisterByRoot, MostRecent
  <2>2. here \subseteq Ids
    BY DEF Live
  <2> HIDE DEF here
  <2>3. /\ pc' \in [Callers -> {"idle", "by_root", "files", "by_id", "update", "create",
                                "registered"}]
        /\ \A d \in Callers \ {c} : pc'[d] = pc[d]
    BY <2>1 DEF TypeOK, Goto
  <2>4. /\ found' \in [Callers -> Ids \cup {NoId}]
        /\ \A d \in Callers \ {c} : found'[d] = found[d]
    BY <2>1, <2>2 DEF TypeOK
  <2>5. /\ todo' \in [Callers -> SUBSET Ids] /\ dead' \in [Callers -> SUBSET Ids]
        /\ \A d \in Callers \ {c} : todo'[d] = todo[d] /\ dead'[d] = dead[d]
    BY <2>1, <2>2 DEF TypeOK
  <2> QED
    BY <2>1, <2>3, <2>4, <2>5 DEF LocalTypes, Frame, TypeOK
<1>3. CASE RegisterDeleteFiles(c)
  <2>1. PICK i : todo' = [todo EXCEPT ![c] = @ \ {i}]
    BY <1>3 DEF RegisterDeleteFiles
  <2>2. UNCHANGED <<schema, mig, pc, req, found, dead, crossed>>
    BY <1>3 DEF RegisterDeleteFiles
  <2> QED
    BY <2>1, <2>2 DEF LocalTypes, Frame, TypeOK
<1>4. CASE RegisterDeleteProjects(c)
  <2>1. /\ UNCHANGED <<schema, mig, req, found, todo, crossed>>
        /\ pc' = [pc EXCEPT ![c] = "by_id"] /\ dead' = [dead EXCEPT ![c] = {}]
    BY <1>4 DEF RegisterDeleteProjects, Goto
  <2> QED
    BY <2>1 DEF LocalTypes, Frame, TypeOK
<1>5. CASE RegisterById(c)
  <2>1. UNCHANGED <<schema, mig>>
    BY <1>5 DEF RegisterById
  <2>2. CASE Return(c)
    BY <2>1, <2>2, ReturnMoves
  <2>3. CASE ~Return(c)
    <3>1. /\ UNCHANGED <<todo, dead, crossed>>
          /\ Goto(c, "update") \/ Goto(c, "create")
          /\ found' = found \/ found' = [found EXCEPT ![c] = req[c].config]
          /\ req' = [req EXCEPT ![c].config = NoId]
      BY <1>5, <2>3 DEF RegisterById, GoOn
    <3>2. req[c].config \in Ids \cup {NoId}
      BY DEF TypeOK
    <3>3. /\ req' \in [Callers -> [root : Roots, config : Ids \cup {NoId}]]
          /\ \A d \in Callers \ {c} : req'[d] = req[d]
      BY <3>1 DEF TypeOK
    <3> QED
      BY <2>1, <3>1, <3>2, <3>3 DEF Goto, LocalTypes, Frame, TypeOK
  <2> QED
    BY <2>2, <2>3
<1>6. CASE RegisterUpdate(c)
  <2>1. /\ UNCHANGED <<schema, mig, req, found, todo, dead, crossed>>
        /\ pc' = [pc EXCEPT ![c] = "registered"]
    BY <1>6 DEF RegisterUpdate, Goto
  <2> QED
    BY <2>1 DEF LocalTypes, Frame, TypeOK
<1>7. CASE RegisterCreate(c)
  <2>1. /\ UNCHANGED <<schema, mig, req, todo, dead, crossed>>
        /\ pc' = [pc EXCEPT ![c] = "registered"]
        /\ \E i \in Ids : found' = [found EXCEPT ![c] = i]
    BY <1>7 DEF RegisterCreate, Goto
  <2> QED
    BY <2>1 DEF LocalTypes, Frame, TypeOK
<1>8. CASE RegisterReturn(c)
  BY <1>8, ReturnMoves DEF RegisterReturn
<1> QED
  BY <1>1, <1>2, <1>3, <1>4, <1>5, <1>6, <1>7, <1>8 DEF Register

\* What they do to the table.  A record is written, a new one with an id that was
\* never used; or the duplicates or their file_data are deleted; or nothing is done.
Writes(c, i) ==
    /\ i \in Ids /\ ~Taken(i, req[c].root)
    /\ \E t \in Now : db' = [db EXCEPT ![i] = Written(c, t)]
    /\ minted' = minted \cup {i}
    /\ UNCHANGED <<files, faults>>
    /\ pc'[c] = "registered" /\ found'[c] = i /\ pc[c] \in {"update", "create"}

LEMMA UpdateWrites ==
    ASSUME TypeOK, NEW c \in Callers, RegisterUpdate(c)
    PROVE  IF Exists(found[c]) THEN \E i \in Ids : Writes(c, i)
                               ELSE UNCHANGED <<table, faults>>
<1>1. CASE Exists(found[c])
  <2>1. found[c] \in Ids /\ minted = minted \cup {found[c]}
    BY <1>1 DEF TypeOK, Live, Exists
  <2>2. Writes(c, found[c])
    BY <1>1, <2>1 DEF RegisterUpdate, Writes, RegisterStep, Goto, TypeOK
  <2> QED
    BY <1>1, <2>1, <2>2
<1>2. CASE ~Exists(found[c])
  BY <1>2 DEF RegisterUpdate, table
<1> QED
  BY <1>1, <1>2

LEMMA CreateWrites ==
    ASSUME TypeOK, NEW c \in Callers, RegisterCreate(c)
    PROVE  \E i \in Ids : Writes(c, i)
<1>1. PICK i \in Ids \ minted, t \in Now :
        /\ db' = [db EXCEPT ![i] = Written(c, t)]
        /\ minted' = minted \cup {i}
        /\ found' = [found EXCEPT ![c] = i]
  BY DEF RegisterCreate
<1>2. ~Taken(i, req[c].root)
  <2>1. \A j \in Live : j # NoId
    BY ProjectsAssumption DEF Live
  <2> QED
    BY <2>1 DEF RegisterCreate, Taken
<1>3. Writes(c, i)
  BY <1>1, <1>2 DEF RegisterCreate, Writes, RegisterStep, Goto, TypeOK
<1> QED
  BY <1>3

LEMMA RegisterWrites ==
    ASSUME TypeOK, NEW c \in Callers, Register(c)
    PROVE  \/ \E i \in Ids : Writes(c, i)
           \/ UNCHANGED <<table, faults>>
           \/ RegisterDeleteFiles(c)
           \/ RegisterDeleteProjects(c)
<1>1. ASSUME NEW r \in Roots, NEW config \in minted \cup {NoId}, RegisterBegin(c, r, config)
      PROVE  UNCHANGED <<table, faults>>
  BY <1>1 DEF RegisterBegin
<1>2. CASE RegisterByRoot(c) \/ RegisterById(c) \/ RegisterReturn(c)
  BY <1>2 DEF RegisterByRoot, RegisterById, RegisterReturn
<1> QED
  BY <1>1, <1>2, UpdateWrites, CreateWrites DEF Register

LEMMA WriteTypes ==
    ASSUME TypeOK, NEW c \in Callers, NEW i \in Ids, Writes(c, i)
    PROVE  /\ db' \in [Ids -> Rows \cup {NoRow}]
           /\ Live' = Live \cup {i}
           /\ db'[i].root = req[c].root /\ db'[i].canonical
           /\ \A j \in Ids \ {i} : db'[j] = db[j]
<1>1. PICK t \in Now : db' = [db EXCEPT ![i] = Written(c, t)]
  BY DEF Writes
<1>2. /\ db' \in [Ids -> Rows \cup {NoRow}] /\ db'[i] = Written(c, t)
      /\ \A j \in Ids \ {i} : db'[j] = db[j]
  BY <1>1, WrittenRow DEF TypeOK
<1>3. \A j : j \in Live' <=> j \in Live \cup {i}
  BY <1>2, WrittenRow DEF Live, Exists
<1> QED
  BY <1>2, <1>3, WrittenRow

LEMMA RegisterTypes ==
    ASSUME IInv, NEW c \in Callers, Register(c)
    PROVE  TypeOK'
<1> USE DEF IInv
<1>1. LocalTypes /\ UNCHANGED <<schema, mig>>
  BY RegisterMoves DEF Frame
<1>2. faults \in 0 .. MaxFaults /\ MaxFaults \in Nat
  BY ProjectsAssumption DEF TypeOK
<1>3. ASSUME db' \in [Ids -> Rows \cup {NoRow}], Live' \subseteq minted', files' \subseteq files,
             minted \subseteq minted', minted' \subseteq Ids, faults' \in 0 .. MaxFaults
      PROVE  TypeOK'
  BY <1>1, <1>3 DEF TypeOK, LocalTypes, schema
<1>4. ASSUME NEW i \in Ids, Writes(c, i)
      PROVE  TypeOK'
  <2>1. db' \in [Ids -> Rows \cup {NoRow}] /\ Live' = Live \cup {i}
    BY <1>4, WriteTypes
  <2>2. minted' = minted \cup {i} /\ files' = files /\ faults' = faults
    BY <1>4 DEF Writes
  <2>3. Live \subseteq minted /\ minted \subseteq Ids
    BY DEF TypeOK
  <2> QED
    BY <1>2, <1>3, <2>1, <2>2, <2>3
<1>5. CASE UNCHANGED <<table, faults>>
  BY <1>3, <1>5 DEF table, TypeOK, Live, Exists
<1>6. CASE RegisterDeleteFiles(c)
  <2>1. db' = db /\ minted' = minted
    BY <1>6 DEF RegisterDeleteFiles
  <2>2. faults' \in 0 .. MaxFaults /\ files' \subseteq files
    BY <1>6, <1>2 DEF RegisterDeleteFiles, Unchecked
  <2> QED
    BY <1>3, <2>1, <2>2 DEF TypeOK, Live, Exists
<1>7. CASE RegisterDeleteProjects(c)
  <2>1. files' = files /\ minted' = minted
    BY <1>7 DEF RegisterDeleteProjects
  <2>2. faults' \in 0 .. MaxFaults /\ (db' = db \/ db' = Without(dead[c]))
    BY <1>7, <1>2 DEF RegisterDeleteProjects, Unchecked
  <2>3. CASE db' = db
    BY <1>3, <2>1, <2>2, <2>3 DEF TypeOK, Live, Exists
  <2>4. CASE db' = Without(dead[c])
    BY <1>3, <2>1, <2>2, <2>4, WithoutRows DEF TypeOK
  <2> QED
    BY <2>2, <2>3, <2>4
<1> QED
  BY <1>4, <1>5, <1>6, <1>7, RegisterWrites

-----------------------------------------------------------------------------
(* The migration keeps the invariant.                                      *)

LEMMA MigrationKeepsCalls ==
    ASSUME IInv, Migration
    PROVE  /\ \A c \in Callers : pc[c] = "idle" /\ pc'[c] = "idle"
           /\ OneAtWork' /\ NoRegisterOfTop' /\ NothingFoundYet' /\ LoneRegister'
<1> USE DEF IInv
<1>1. calls' = calls
  BY MigrationTypes
<1>2. Busy = {}
  BY DEF Migration, MigrationStart, MigrationCanonicalize, MigrationPlan,
         MigrationDeleteFiles, MigrationDeleteProjects, MigrationIndex, MigrationRecord,
         MigrationAborts, MigrationStep, OneAtWork
<1>3. \A c \in Callers : pc[c] = "idle" /\ pc'[c] = "idle"
  BY <1>1, <1>2 DEF Busy, calls
<1>4. mig'.at # "idle" => ~recorded'
  <2>1. CASE MigrationRecord
    BY <2>1 DEF MigrationRecord, MigrationIdle
  <2>2. CASE ~MigrationRecord
    <3>1. recorded' = recorded
      BY <2>2 DEF Migration, MigrationStart, MigrationCanonicalize, MigrationPlan,
             MigrationDeleteFiles, MigrationDeleteProjects, MigrationIndex, MigrationAborts,
             schema
    <3>2. MigrationStart \/ MigrationAborts \/ mig.at # "idle"
      BY <2>2 DEF Migration, MigrationCanonicalize, MigrationPlan, MigrationDeleteFiles,
             MigrationDeleteProjects, MigrationIndex, MigrationStep
    <3> QED
      BY <3>1, <3>2 DEF MigrationStart, MigrationAborts, MigrationIdle, OneAtWork
  <2> QED
    BY <2>1, <2>2
<1>5. OneAtWork'
  BY <1>3, <1>4 DEF OneAtWork, Busy
<1> QED
  BY <1>1, <1>3, <1>5 DEF NoRegisterOfTop, NothingFoundYet, LoneRegister, calls

\* Of the rest of the invariant, what the migration can disturb.
MInv ==
    RowsAreSelected /\ DeadHaveNoFiles /\ NoOrphans /\ RootsAreTidied /\ RootsAreKept

\* A statement that fails is counted, so as long as none has, each one worked.
LEMMA NoFaultBefore ==
    ASSUME IInv, Migration, faults' = 0
    PROVE  faults = 0 /\ faults' = faults
<1> USE DEF IInv
<1>1. faults \in Nat
  BY DEF TypeOK
<1>2. faults' = faults \/ faults' = faults + 1
  BY DEF Migration, MigrationStart, MigrationCanonicalize, MigrationPlan,
         MigrationDeleteFiles, MigrationDeleteProjects, MigrationIndex, MigrationRecord,
         MigrationAborts, Unchecked
<1> QED
  BY <1>1, <1>2

LEMMA StartKeeps ==
    ASSUME IInv, MigrationStart
    PROVE  MInv'
<1> USE DEF IInv
<1>1. /\ UNCHANGED <<db, files, unique, recorded, faults>> /\ ~recorded
      /\ mig'.at = "canonicalize" /\ mig'.rows = Live
      /\ mig'.todo = {i \in Live : ~db[i].canonical}
  BY DEF MigrationStart, table, schema
<1>2. Live' = Live
  BY <1>1 DEF Live, Exists
<1>3. \A c \in Callers : pc'[c] = "idle"
  BY MigrationKeepsCalls DEF Migration
<1> QED
  BY <1>1, <1>2, <1>3 DEF MInv, RowsAreSelected, DeadHaveNoFiles, NoOrphans, RootsAreTidied,
                          RootsAreKept, Tidy

LEMMA CanonicalizeKeeps ==
    ASSUME IInv, MigrationCanonicalize
    PROVE  MInv'
<1> USE DEF IInv
<1>1. PICK i \in mig.todo :
        /\ mig' = [mig EXCEPT !.todo = @ \ {i}]
        /\ IF unique /\ \E j \in Live \ {i} : db[j].canonical /\ db[j].root = db[i].root
           THEN UNCHANGED <<db, faults>>
           ELSE Unchecked(db' = [db EXCEPT ![i].canonical = TRUE], UNCHANGED db)
  BY DEF MigrationCanonicalize
<1>2. mig.at = "canonicalize" /\ UNCHANGED <<files, unique, recorded>>
  BY DEF MigrationCanonicalize, MigrationStep, schema
<1>3. /\ mig'.at = "canonicalize" /\ mig'.rows = mig.rows /\ mig'.todo = mig.todo \ {i}
  BY <1>1, <1>2 DEF TypeOK
<1>4. i \in Live /\ i \in Ids /\ db[i] \in Rows /\ mig.rows = Live /\ mig.todo \subseteq Live
  BY <1>2, LiveRows DEF RowsAreSelected
<1>5. db' = db \/ db' = [db EXCEPT ![i].canonical = TRUE]
  BY <1>1 DEF Unchecked
<1>6. /\ Live' = Live
      /\ \A j \in Live : /\ db'[j].root = db[j].root
                         /\ db[j].canonical => db'[j].canonical
  <2>1. CASE db' = db
    BY <2>1 DEF Live, Exists
  <2>2. CASE db' = [db EXCEPT ![i].canonical = TRUE]
    <3>1. [db[i] EXCEPT !.canonical = TRUE] \in Rows
      BY <1>4 DEF Rows
    <3>2. db'[i] = [db[i] EXCEPT !.canonical = TRUE] /\ \A j \in Ids \ {i} : db'[j] = db[j]
      BY <2>2, <1>4 DEF TypeOK
    <3>3. db'[i].root = db[i].root /\ db'[i].canonical
      BY <3>2, <1>4 DEF Rows
    <3>4. Live' = Live
      BY <1>4, <3>1, <3>2, NoRowIsNone DEF Live, Exists
    <3> QED
      BY <3>2, <3>3, <3>4, LiveRows
  <2> QED
    BY <1>5, <2>1, <2>2
<1>7. RootsAreTidied'
  <2> SUFFICES ASSUME faults' = 0 PROVE RootsAreTidied'
    BY DEF RootsAreTidied
  <2>1. faults = 0 /\ faults' = faults
    BY NoFaultBefore DEF Migration
  <2>2. unique => Tidy(Live) /\ Tidy(Live)'
    BY <1>6, <2>1 DEF RootsAreTidied, Tidy
  <2>3. \A j \in Live \ mig.todo : db[j].canonical
    BY <1>2, <2>1 DEF RootsAreTidied
  <2>4. db'[i].canonical
    <3>1. CASE unique /\ \E j \in Live \ {i} : db[j].canonical /\ db[j].root = db[i].root
      BY <3>1, <2>2, <1>4 DEF Tidy
    <3>2. CASE ~(unique /\ \E j \in Live \ {i} : db[j].canonical /\ db[j].root = db[i].root)
      <4>1. db' = [db EXCEPT ![i].canonical = TRUE]
        BY <1>1, <3>2, <2>1 DEF Unchecked, TypeOK
      <4> QED
        BY <4>1, <1>4 DEF TypeOK, Rows
    <3> QED
      BY <3>1, <3>2
  <2>5. \A j \in Live' \ mig'.todo : db'[j].canonical
    BY <1>3, <1>6, <2>3, <2>4
  <2> QED
    BY <1>2, <1>3, <2>1, <2>2, <2>5 DEF RootsAreTidied
<1>8. \A c \in Callers : pc'[c] = "idle"
  BY MigrationKeepsCalls DEF Migration
<1>9. faults' = 0 => faults = 0
  BY NoFaultBefore DEF Migration
<1> QED
  BY <1>2, <1>3, <1>4, <1>6, <1>7, <1>8, <1>9
  DEF MInv, RowsAreSelected, DeadHaveNoFiles, NoOrphans, RootsAreKept

\* The plan: one project of every root stays, the most recent in whatever spelling.
LEMMA PlanKeeps ==
    ASSUME IInv, MigrationPlan
    PROVE  MInv'
<1> USE DEF IInv
<1> DEFINE group(r) == {i \in mig.rows : db[i].root = r}
<1>1. PICK keep \in SUBSET mig.rows :
        /\ \A r \in Roots : group(r) # {} => \E k \in MostRecent(group(r)) : keep \cap group(r) = {k}
        /\ mig' = [mig EXCEPT !.at = IF Duplicates(keep) = {} THEN "index" ELSE "files",
                              !.todo = Duplicates(keep), !.dead = Duplicates(keep)]
  BY DEF MigrationPlan
<1>2. PICK drop : drop = Duplicates(keep)
  OBVIOUS
<1>3. /\ mig.at = "canonicalize" /\ mig.todo = {}
      /\ UNCHANGED <<db, files, unique, recorded, faults>>
  BY DEF MigrationPlan, MigrationStep, table, schema
<1>4. mig.rows = Live /\ Live' = Live
  BY <1>3 DEF RowsAreSelected, Live, Exists
<1>5. \A i \in Live : db[i].root \in Roots
  BY LiveRows DEF Rows
<1>6. \A i : i \in drop <=> i \in Live /\ (db[i].root = TopRoot \/ i \notin keep)
  BY <1>4, <1>2 DEF Duplicates
<1>7. /\ mig'.at \in {"index", "files"} /\ mig'.rows = Live
      /\ mig'.at = "index" => drop = {}
      /\ mig'.todo = drop /\ mig'.dead = drop
  BY <1>1, <1>4, <1>2 DEF TypeOK
<1>8. ASSUME NEW i \in Live
      PROVE  \E k \in keep : /\ db[k].root = db[i].root
                             /\ \A j \in keep : db[j].root = db[i].root => j = k
  <2>1. i \in group(db[i].root) /\ db[i].root \in Roots
    BY <1>4, <1>5
  <2>2. PICK k : keep \cap group(db[i].root) = {k}
    BY <1>1, <2>1
  <2> QED
    BY <2>2
<1>9. \A i \in drop : \/ db[i].root = TopRoot
                      \/ \E j \in Live \ drop : db[j].root = db[i].root
  BY <1>4, <1>6, <1>8
<1>10. \A i, j \in Live \ drop : db[i].root = db[j].root => i = j
  BY <1>6, <1>8
<1>11. RootsAreTidied'
  <2> SUFFICES ASSUME faults' = 0 PROVE RootsAreTidied'
    BY DEF RootsAreTidied
  <2>1. \A i \in Live : db[i].canonical
    BY <1>3 DEF RootsAreTidied
  <2>2. Tidy(Live \ drop)
    BY <2>1, <1>6, <1>10 DEF Tidy
  <2>3. Tidy(Live \ drop)' /\ (drop = {} => Tidy(Live)')
    BY <2>2, <1>3, <1>4 DEF Tidy
  <2>4. unique => Tidy(Live)'
    BY <1>3, <1>4 DEF RootsAreTidied, Tidy
  <2>5. recorded => unique
    BY <1>3 DEF RootsAreTidied
  <2> QED
    BY <1>3, <1>7, <2>3, <2>4, <2>5 DEF RootsAreTidied, Tidy
<1>12. \A c \in Callers : pc'[c] = "idle"
  BY MigrationKeepsCalls DEF Migration
<1> QED
  BY <1>3, <1>4, <1>7, <1>9, <1>11, <1>12
  DEF MInv, RowsAreSelected, DeadHaveNoFiles, NoOrphans, RootsAreKept

LEMMA DeleteFilesKeeps ==
    ASSUME IInv, MigrationDeleteFiles
    PROVE  MInv'
<1> USE DEF IInv
<1>1. PICK i \in mig.todo : /\ mig' = [mig EXCEPT !.todo = @ \ {i}]
                            /\ Unchecked(files' = files \ {i}, UNCHANGED files)
  BY DEF MigrationDeleteFiles
<1>2. mig.at = "files" /\ UNCHANGED <<db, unique, recorded>>
  BY DEF MigrationDeleteFiles, MigrationStep, schema
<1>3. /\ mig'.at = "files" /\ mig'.rows = mig.rows /\ mig'.dead = mig.dead
      /\ mig'.todo = mig.todo \ {i}
  BY <1>1, <1>2 DEF TypeOK
<1>4. Live' = Live
  BY <1>2 DEF Live, Exists
<1>5. faults' = 0 => faults = 0 /\ files' = files \ {i}
  BY <1>1, NoFaultBefore DEF Migration, Unchecked, TypeOK
<1>6. \A c \in Callers : pc'[c] = "idle"
  BY MigrationKeepsCalls DEF Migration
<1>7. RowsAreSelected' /\ RootsAreKept' /\ RootsAreTidied'
  BY <1>2, <1>3, <1>4, <1>5 DEF RowsAreSelected, RootsAreKept, RootsAreTidied, Tidy
<1> QED
  BY <1>2, <1>3, <1>4, <1>5, <1>6, <1>7 DEF MInv, DeadHaveNoFiles, NoOrphans

LEMMA DeleteProjectsKeeps ==
    ASSUME IInv, MigrationDeleteProjects
    PROVE  MInv'
<1> USE DEF IInv
<1>1. /\ mig.at = "files" /\ mig.todo = {} /\ UNCHANGED <<files, unique, recorded>>
      /\ Unchecked(db' = Without(mig.dead), UNCHANGED db)
  BY DEF MigrationDeleteProjects, MigrationStep, schema
<1>2. mig'.at = "index"
  BY DEF MigrationDeleteProjects, TypeOK
<1>3. ASSUME faults' = 0
      PROVE  /\ faults = 0 /\ Live' = Live \ mig.dead
             /\ \A i \in Live' : db'[i] = db[i]
  <2>1. faults = 0 /\ faults' = faults
    BY <1>3, NoFaultBefore DEF Migration
  <2>2. db' = Without(mig.dead)
    BY <1>1, <2>1 DEF Unchecked
  <2> QED
    BY <2>1, <2>2, WithoutRows
<1>4. \A c \in Callers : pc'[c] = "idle"
  BY MigrationKeepsCalls DEF Migration
<1>5. NoOrphans'
  BY <1>1, <1>3 DEF NoOrphans, DeadHaveNoFiles
<1>6. RootsAreTidied'
  <2> SUFFICES ASSUME faults' = 0 PROVE RootsAreTidied'
    BY DEF RootsAreTidied
  <2>1. Tidy(Live \ mig.dead)
    BY <1>1, <1>3 DEF RootsAreTidied
  <2>2. Tidy(Live)'
    BY <1>3, <2>1 DEF Tidy
  <2> QED
    BY <1>1, <1>2, <1>3, <2>2 DEF RootsAreTidied
<1> QED
  BY <1>2, <1>4, <1>5, <1>6 DEF MInv, RowsAreSelected, DeadHaveNoFiles, RootsAreKept

LEMMA IndexKeeps ==
    ASSUME IInv, MigrationIndex
    PROVE  MInv'
<1> USE DEF IInv
<1>1. /\ mig.at = "index" /\ UNCHANGED <<db, files, recorded>>
      /\ IF \E i, j \in Live : i # j /\ SameSpelling(i, j)
         THEN UNCHANGED <<unique, faults>>
         ELSE Unchecked(unique' = TRUE, UNCHANGED unique)
  BY DEF MigrationIndex, MigrationStep, table
<1>2. mig'.at = "record"
  BY DEF MigrationIndex, TypeOK
<1>3. Live' = Live
  BY <1>1 DEF Live, Exists
<1>4. \A c \in Callers : pc'[c] = "idle"
  BY MigrationKeepsCalls DEF Migration
<1>5. faults' = 0 => faults = 0 /\ faults' = faults
  BY NoFaultBefore DEF Migration
<1>6. RootsAreTidied'
  <2> SUFFICES ASSUME faults' = 0 PROVE RootsAreTidied'
    BY DEF RootsAreTidied
  <2>1. Tidy(Live)
    BY <1>1, <1>5 DEF RootsAreTidied
  <2>2. ~\E i, j \in Live : i # j /\ SameSpelling(i, j)
    BY <2>1 DEF Tidy, SameSpelling
  <2>3. unique'
    <3>1. faults' # faults + 1
      BY <1>5 DEF TypeOK
    <3> QED
      BY <1>1, <2>2, <3>1, Zenon DEF Unchecked
  <2>4. Tidy(Live)'
    BY <1>1, <1>3, <2>1 DEF Tidy
  <2> QED
    BY <1>2, <2>3, <2>4 DEF RootsAreTidied
<1> QED
  BY <1>1, <1>2, <1>3, <1>4, <1>5, <1>6
  DEF MInv, RowsAreSelected, DeadHaveNoFiles, NoOrphans, RootsAreKept

\* At the end, recorded or not, and wherever it stopped, there is the table.
LEMMA EndKeeps ==
    ASSUME IInv, MigrationRecord \/ MigrationAborts
    PROVE  MInv'
<1> USE DEF IInv
<1>1. /\ mig'.at = "idle" /\ UNCHANGED <<db, files, unique>>
      /\ recorded' # recorded => mig.at = "record"
  BY DEF MigrationRecord, MigrationAborts, MigrationIdle, MigrationStep, table, schema
<1>2. Live' = Live
  BY <1>1 DEF Live, Exists
<1>3. \A c \in Callers : pc'[c] = "idle"
  BY MigrationKeepsCalls DEF Migration
<1>4. faults' = 0 => faults = 0 /\ faults' = faults
  BY NoFaultBefore DEF Migration
<1>5. RootsAreTidied'
  <2> SUFFICES ASSUME faults' = 0 PROVE RootsAreTidied'
    BY DEF RootsAreTidied
  <2>1. unique => Tidy(Live)'
    BY <1>1, <1>2, <1>4 DEF RootsAreTidied, Tidy
  <2>2. recorded' => unique
    <3>1. CASE recorded' = recorded
      BY <1>4, <3>1 DEF RootsAreTidied
    <3>2. CASE recorded' # recorded
      BY <1>1, <1>4, <3>2 DEF RootsAreTidied
    <3> QED
      BY <3>1, <3>2
  <2> QED
    BY <1>1, <2>1, <2>2 DEF RootsAreTidied
<1> QED
  BY <1>1, <1>2, <1>3, <1>4, <1>5
  DEF MInv, RowsAreSelected, DeadHaveNoFiles, NoOrphans, RootsAreKept

LEMMA MigrationKeeps ==
    ASSUME IInv, Migration
    PROVE  IInv'
<1>1. TypeOK'
  BY MigrationTypes
<1>2. MInv'
  BY StartKeeps, CanonicalizeKeeps, PlanKeeps, DeleteFilesKeeps, DeleteProjectsKeeps,
     IndexKeeps, EndKeeps DEF Migration
<1> QED
  BY <1>1, <1>2, MigrationKeepsCalls DEF IInv, MInv

-----------------------------------------------------------------------------
(* Registers keep the invariant.                                           *)

\* The migration is not at work, and a caller that is not crossed by this step is
\* the one that takes it, or idle.
LEMMA RegistersAlone ==
    ASSUME IInv, NEW c \in Callers, Register(c)
    PROVE  /\ mig.at = "idle" /\ mig' = mig
           /\ \A d \in Callers \ {c} : pc'[d] = "idle" \/ crossed'[d]
           /\ pc[c] # "idle" =>
                 /\ \A d \in Callers \ {c} : pc[d] = "idle" \/ crossed[d]
                 /\ ~crossed[c] => Busy = {c}
<1> USE DEF IInv
<1>1. mig.at = "idle"
  <2>1. CASE pc[c] = "idle"
    <3>1. PICK r, config : RegisterBegin(c, r, config)
      BY <2>1 DEF Register, RegisterByRoot, RegisterDeleteFiles, RegisterDeleteProjects,
         RegisterById, RegisterUpdate, RegisterCreate, RegisterReturn, RegisterStep
    <3> QED
      BY <3>1 DEF RegisterBegin
  <2>2. CASE pc[c] # "idle"
    BY <2>2 DEF OneAtWork, Busy
  <2> QED
    BY <2>1, <2>2
<1>2. mig' = mig /\ \A d \in Callers \ {c} : pc'[d] = pc[d]
  BY RegisterMoves DEF Frame
<1>3. CASE pc[c] = "idle"
  <2>1. PICK r, config : RegisterBegin(c, r, config)
    BY <1>3 DEF Register, RegisterByRoot, RegisterDeleteFiles, RegisterDeleteProjects,
       RegisterById, RegisterUpdate, RegisterCreate, RegisterReturn, RegisterStep
  <2>2. crossed' = [d \in Callers |-> crossed[d] \/ (Busy # {} /\ d \in Busy \cup {c})]
    BY <2>1 DEF RegisterBegin
  <2>3. ASSUME NEW d \in Callers, pc[d] # "idle"
        PROVE  crossed'[d]
    <3>1. d \in Busy
      BY <2>3 DEF Busy
    <3> QED
      BY <2>2, <3>1
  <2> QED
    BY <1>1, <1>2, <1>3, <2>3
<1>4. CASE pc[c] # "idle"
  <2>1. \A d \in Callers \ {c} : pc[d] = "idle" \/ crossed[d]
    <3>1. c \in Busy
      BY <1>4 DEF Busy
    <3> QED
      BY <3>1 DEF OneAtWork
  <2>2. ~crossed[c] => Busy = {c}
    BY <1>4 DEF OneAtWork
  <2>3. \A d \in Callers \ {c} : crossed'[d] = crossed[d]
    BY <1>4, RegisterMoves DEF Frame
  <2> QED
    BY <1>1, <1>2, <1>4, <2>1, <2>2, <2>3
<1> QED
  BY <1>3, <1>4

\* A register that goes on is as crossed as it was, and still about the same root.
LEMMA RegisterGoesOn ==
    ASSUME IInv, NEW c \in Callers, Register(c), pc[c] # "idle", pc'[c] # "idle"
    PROVE  crossed'[c] = crossed[c] /\ req'[c].root = req[c].root
<1>1. ~Return(c)
  BY DEF Return, Goto, IInv, TypeOK
<1>2. CASE RegisterById(c)
  <2>1. crossed' = crossed /\ req' = [req EXCEPT ![c].config = NoId]
    BY <1>1, <1>2 DEF RegisterById, GoOn
  <2> QED
    BY <2>1 DEF IInv, TypeOK
<1>3. CASE ~RegisterById(c)
  BY <1>1, <1>3 DEF Register, RegisterBegin, RegisterByRoot, RegisterDeleteFiles,
     RegisterDeleteProjects, RegisterUpdate, RegisterCreate, RegisterReturn, RegisterStep
<1> QED
  BY <1>2, <1>3

LEMMA RegisterBegins ==
    ASSUME IInv, NEW c \in Callers, Register(c), pc[c] = "idle"
    PROVE  /\ pc'[c] = "by_root" /\ req'[c].root # TopRoot
           /\ ~crossed'[c] => Busy = {}
           /\ UNCHANGED <<table, faults, found, todo, dead>>
<1> USE DEF IInv
<1>1. PICK r, config : RegisterBegin(c, r, config)
  BY DEF Register, RegisterByRoot, RegisterDeleteFiles, RegisterDeleteProjects,
     RegisterById, RegisterUpdate, RegisterCreate, RegisterReturn, RegisterStep
<1>2. pc' = [pc EXCEPT ![c] = "by_root"] /\ req' = [req EXCEPT ![c] = [root |-> r, config |-> config]]
  BY <1>1 DEF RegisterBegin, Goto
<1>3. pc'[c] = "by_root" /\ req'[c].root = r
  BY <1>2 DEF TypeOK
<1>4. ~crossed'[c] => Busy = {}
  <2>1. crossed' = [d \in Callers |-> crossed[d] \/ (Busy # {} /\ d \in Busy \cup {c})]
    BY <1>1 DEF RegisterBegin
  <2> QED
    BY <2>1
<1> QED
  BY <1>1, <1>3, <1>4 DEF RegisterBegin

LEMMA RegisterKeepsAlone ==
    ASSUME IInv, NEW c \in Callers, Register(c)
    PROVE  /\ OneAtWork' /\ NoRegisterOfTop'
           /\ RowsAreSelected' /\ RootsAreKept'
<1> USE DEF IInv
<1>1. /\ mig.at = "idle" /\ mig' = mig
      /\ \A d \in Callers \ {c} : pc'[d] = "idle" \/ crossed'[d]
      /\ \A d \in Callers \ {c} : pc'[d] = pc[d] /\ req'[d] = req[d]
  BY RegistersAlone, RegisterMoves DEF Frame
<1>2. ASSUME pc'[c] # "idle", ~crossed'[c]
      PROVE  Busy' = {c}
  <2>1. \A d \in Callers \ {c} : pc[d] = "idle"
    <3>1. CASE pc[c] = "idle"
      BY <3>1, <1>2, RegisterBegins DEF Busy
    <3>2. CASE pc[c] # "idle"
      <4>1. Busy = {c}
        BY <3>2, <1>2, RegisterGoesOn DEF OneAtWork
      <4> QED
        BY <4>1 DEF Busy
    <3> QED
      BY <3>1, <3>2
  <2> QED
    BY <1>1, <1>2, <2>1 DEF Busy
<1>3. OneAtWork'
  <2>1. ASSUME NEW d \in Callers, pc'[d] # "idle", ~crossed'[d]
        PROVE  Busy' = {d}
    <3>1. d = c
      BY <1>1, <2>1
    <3> QED
      BY <1>2, <2>1, <3>1
  <2>2. mig'.at = "idle"
    BY <1>1
  <2> QED
    BY <2>1, <2>2 DEF OneAtWork
<1>4. NoRegisterOfTop'
  <2>1. pc'[c] # "idle" => req'[c].root # TopRoot
    <3>1. CASE pc[c] = "idle"
      BY <3>1, RegisterBegins
    <3>2. CASE pc[c] # "idle"
      BY <3>2, RegisterGoesOn DEF NoRegisterOfTop
    <3> QED
      BY <3>1, <3>2
  <2> QED
    BY <1>1, <2>1 DEF NoRegisterOfTop
<1> QED
  BY <1>1, <1>3, <1>4 DEF RowsAreSelected, RootsAreKept

\* What the first query settles: nothing is here, or the record that stays and
\* the others that have the same root.
LEMMA ByRootFinds ==
    ASSUME IInv, NEW c \in Callers, RegisterByRoot(c)
    PROVE  \/ pc'[c] = "by_id" /\ found'[c] = NoId
           \/ /\ pc'[c] \in {"by_id", "files"} /\ Here(c, found'[c])
              /\ todo'[c] = dead'[c] /\ found'[c] \notin dead'[c]
              /\ \A i \in dead'[c] : Here(c, i)
<1> USE DEF IInv
<1> DEFINE here == {i \in Live : db[i].canonical /\ db[i].root = req[c].root}
<1>1. /\ pc[c] = "by_root"
      /\ \/ Goto(c, "by_id") /\ UNCHANGED <<found, todo, dead>>
         \/ \E k \in here : /\ found' = [found EXCEPT ![c] = k]
                            /\ todo' = [todo EXCEPT ![c] = here \ {k}]
                            /\ dead' = [dead EXCEPT ![c] = here \ {k}]
                            /\ Goto(c, "by_id") \/ Goto(c, "files")
  BY DEF RegisterByRoot, RegisterStep, MostRecent
<1>2. \A i \in here : Here(c, i)
  BY DEF Here, Live
<1> HIDE DEF here
<1>3. CASE Goto(c, "by_id") /\ UNCHANGED <<found, todo, dead>>
  BY <1>1, <1>3 DEF Goto, TypeOK, NothingFoundYet
<1>4. ASSUME NEW k \in here,
             found' = [found EXCEPT ![c] = k],
             todo' = [todo EXCEPT ![c] = here \ {k}],
             dead' = [dead EXCEPT ![c] = here \ {k}],
             Goto(c, "by_id") \/ Goto(c, "files")
      PROVE  /\ pc'[c] \in {"by_id", "files"} /\ Here(c, found'[c])
             /\ todo'[c] = dead'[c] /\ found'[c] \notin dead'[c]
             /\ \A i \in dead'[c] : Here(c, i)
  <2>1. found'[c] = k /\ todo'[c] = here \ {k} /\ dead'[c] = here \ {k}
    BY <1>4 DEF TypeOK
  <2>2. pc'[c] \in {"by_id", "files"}
    BY <1>4 DEF Goto, TypeOK
  <2> QED
    BY <1>2, <2>1, <2>2
<1> QED
  BY <1>1, <1>3, <1>4

LEMMA RegisterNoFaultBefore ==
    ASSUME IInv, NEW c \in Callers, Register(c), faults' = 0
    PROVE  faults = 0 /\ faults' = faults
<1>1. faults \in Nat
  BY DEF IInv, TypeOK
<1>2. faults' = faults \/ faults' = faults + 1
  <2>1. CASE RegisterDeleteFiles(c)
    BY <2>1 DEF RegisterDeleteFiles, Unchecked
  <2>2. CASE RegisterDeleteProjects(c)
    BY <2>2 DEF RegisterDeleteProjects, Unchecked
  <2> QED
    BY <2>1, <2>2, RegisterWrites DEF IInv, Writes
<1> QED
  BY <1>1, <1>2

LEMMA RegisterKeepsFiles ==
    ASSUME IInv, NEW c \in Callers, Register(c)
    PROVE  DeadHaveNoFiles' /\ NoOrphans'
<1> USE DEF IInv
<1> SUFFICES ASSUME faults' = 0 PROVE DeadHaveNoFiles' /\ NoOrphans'
  BY DEF DeadHaveNoFiles, NoOrphans
<1>1. /\ faults = 0 /\ faults' = faults
      /\ files \subseteq Live
      /\ \A d \in Callers : pc[d] = "files" => files \cap dead[d] \subseteq todo[d]
  BY RegisterNoFaultBefore DEF DeadHaveNoFiles, NoOrphans
<1>2. /\ mig.at = "idle" /\ mig' = mig
      /\ \A d \in Callers \ {c} : pc'[d] = pc[d] /\ todo'[d] = todo[d] /\ dead'[d] = dead[d]
  BY RegistersAlone, RegisterMoves DEF Frame
<1>3. ASSUME files' \subseteq files, files' \subseteq Live',
             pc'[c] = "files" => files' \cap dead'[c] \subseteq todo'[c]
      PROVE  DeadHaveNoFiles' /\ NoOrphans'
  <2>1. \A d \in Callers : pc'[d] = "files" => files' \cap dead'[d] \subseteq todo'[d]
    BY <1>1, <1>2, <1>3
  <2> QED
    BY <1>2, <1>3, <2>1 DEF DeadHaveNoFiles, NoOrphans
<1>4. ASSUME NEW i \in Ids, Writes(c, i)
      PROVE  DeadHaveNoFiles' /\ NoOrphans'
  <2>1. Live' = Live \cup {i}
    BY <1>4, WriteTypes
  <2>2. files' = files /\ pc'[c] = "registered"
    BY <1>4 DEF Writes
  <2> QED
    BY <1>1, <1>3, <2>1, <2>2
<1>5. CASE UNCHANGED <<table, faults>>
  <2>1. files' = files /\ Live' = Live
    BY <1>5 DEF table, Live, Exists
  <2>2. pc'[c] = "files" => files' \cap dead'[c] \subseteq todo'[c]
    <3>1. CASE RegisterByRoot(c)
      <4>1. todo'[c] = dead'[c] \/ pc'[c] = "by_id"
        BY <3>1, ByRootFinds
      <4> QED
        BY <4>1
    <3>2. CASE RegisterDeleteFiles(c)
      <4>1. PICK i \in todo[c] : /\ todo' = [todo EXCEPT ![c] = @ \ {i}]
                                 /\ Unchecked(files' = files \ {i}, UNCHANGED files)
        BY <3>2 DEF RegisterDeleteFiles
      <4>2. files' = files \ {i} /\ todo'[c] = todo[c] \ {i}
        BY <1>1, <4>1 DEF Unchecked, TypeOK
      <4>3. pc[c] = "files" /\ dead' = dead
        BY <3>2 DEF RegisterDeleteFiles, RegisterStep
      <4> QED
        BY <1>1, <4>2, <4>3
    <3>3. CASE ~RegisterByRoot(c) /\ ~RegisterDeleteFiles(c)
      <4>1. pc'[c] # "files"
        BY <3>3 DEF Register, RegisterBegin, RegisterDeleteProjects, RegisterById, GoOn,
           RegisterUpdate, RegisterCreate, RegisterReturn, Return, Goto, TypeOK
      <4> QED
        BY <4>1
    <3> QED
      BY <3>1, <3>2, <3>3
  <2> QED
    BY <1>1, <1>3, <2>1, <2>2
<1>6. CASE RegisterDeleteFiles(c)
  <2>1. PICK i \in todo[c] : /\ todo' = [todo EXCEPT ![c] = @ \ {i}]
                             /\ Unchecked(files' = files \ {i}, UNCHANGED files)
    BY <1>6 DEF RegisterDeleteFiles
  <2>2. files' = files \ {i} /\ todo'[c] = todo[c] \ {i}
    BY <1>1, <2>1 DEF Unchecked, TypeOK
  <2>3. pc[c] = "files" /\ dead' = dead /\ db' = db
    BY <1>6 DEF RegisterDeleteFiles, RegisterStep
  <2>4. Live' = Live
    BY <2>3 DEF Live, Exists
  <2> QED
    BY <1>1, <1>3, <2>2, <2>3, <2>4
<1>7. CASE RegisterDeleteProjects(c)
  <2>1. /\ pc[c] = "files" /\ todo[c] = {} /\ files' = files
        /\ Unchecked(db' = Without(dead[c]), UNCHANGED db)
    BY <1>7 DEF RegisterDeleteProjects, RegisterStep
  <2>2. pc'[c] = "by_id"
    BY <1>7 DEF RegisterDeleteProjects, Goto, TypeOK
  <2>3. Live' = Live \ dead[c]
    BY <1>1, <2>1, WithoutRows DEF Unchecked
  <2> QED
    BY <1>1, <1>3, <2>1, <2>2, <2>3
<1> QED
  BY <1>4, <1>5, <1>6, <1>7, RegisterWrites

LEMMA RegisterKeepsTidied ==
    ASSUME IInv, NEW c \in Callers, Register(c)
    PROVE  RootsAreTidied'
<1> USE DEF IInv
<1> SUFFICES ASSUME faults' = 0 PROVE RootsAreTidied'
  BY DEF RootsAreTidied
<1>1. /\ faults = 0 /\ faults' = faults
      /\ mig.at = "idle" /\ mig' = mig /\ unique' = unique /\ recorded' = recorded
  BY RegisterNoFaultBefore, RegistersAlone, RegisterMoves DEF Frame, schema
<1>2. (unique => Tidy(Live)) /\ (recorded => unique)
  BY <1>1 DEF RootsAreTidied
<1>3. ASSUME unique PROVE Tidy(Live)'
  <2>1. Tidy(Live)
    BY <1>2, <1>3
  <2>2. ASSUME Live' \subseteq Live, \A i \in Live' : db'[i] = db[i]
        PROVE  Tidy(Live)'
    BY <2>1, <2>2 DEF Tidy
  <2>3. ASSUME NEW i \in Ids, Writes(c, i)
        PROVE  Tidy(Live)'
    <3>1. /\ Live' = Live \cup {i}
          /\ db'[i].root = req[c].root /\ db'[i].canonical
          /\ \A j \in Live \ {i} : db'[j] = db[j]
      BY <2>3, WriteTypes, LiveRows
    <3>2. \A j \in Live \ {i} : db[j].root # req[c].root
      BY <2>1, <2>3, <1>3 DEF Writes, Taken, Tidy
    <3>3. req[c].root # TopRoot
      BY <2>3 DEF Writes, NoRegisterOfTop
    <3> QED
      BY <2>1, <3>1, <3>2, <3>3 DEF Tidy
  <2>4. CASE db' = db
    BY <2>2, <2>4 DEF Live, Exists
  <2>5. CASE RegisterDeleteProjects(c)
    <3>1. db' = db \/ db' = Without(dead[c])
      BY <2>5 DEF RegisterDeleteProjects, Unchecked
    <3> QED
      BY <2>2, <2>4, <3>1, WithoutRows
  <2> QED
    BY <2>3, <2>4, <2>5, RegisterWrites DEF table, RegisterDeleteFiles
<1> QED
  BY <1>1, <1>2, <1>3 DEF RootsAreTidied

LEMMA RegisterKeepsFound ==
    ASSUME IInv, NEW c \in Callers, Register(c)
    PROVE  NothingFoundYet'
<1> USE DEF IInv
<1>1. \A d \in Callers \ {c} : pc'[d] = pc[d] /\ found'[d] = found[d]
  BY RegisterMoves DEF Frame
<1>2. ASSUME pc'[c] \in {"idle", "by_root"} PROVE found'[c] = NoId
  <2>1. CASE pc[c] = "idle"
    BY <2>1, RegisterBegins DEF NothingFoundYet
  <2>2. CASE pc[c] # "idle"
    <3>1. Return(c)
      BY <1>2, <2>2 DEF Register, RegisterBegin, RegisterByRoot, RegisterDeleteFiles,
         RegisterDeleteProjects, RegisterById, GoOn, RegisterUpdate, RegisterCreate,
         RegisterReturn, RegisterStep, Goto, TypeOK
    <3> QED
      BY <3>1 DEF Return, TypeOK
  <2> QED
    BY <2>1, <2>2
<1> QED
  BY <1>1, <1>2 DEF NothingFoundYet

\* A register that has run alone so far: what it has found is still there.
LoneAt(c) ==
    /\ pc[c] = "files" => /\ Here(c, found[c]) /\ found[c] \notin dead[c]
                          /\ \A i \in dead[c] : db[i].root = req[c].root
    /\ pc[c] = "by_id" /\ found[c] # NoId => Exists(found[c])
    /\ pc[c] = "update" => Exists(found[c])
    /\ pc[c] = "registered" => Here(c, found[c])

LEMMA RegisterKeepsLone ==
    ASSUME IInv, NEW c \in Callers, Register(c)
    PROVE  LoneRegister'
<1> USE DEF IInv
<1>1. \A d \in Callers \ {c} : pc'[d] = "idle" \/ crossed'[d]
  BY RegistersAlone
<1>2. ASSUME ~crossed'[c], pc[c] # "idle", pc'[c] # "idle"
      PROVE  LoneAt(c)'
  <2>1. ~crossed[c] /\ req'[c].root = req[c].root
    BY <1>2, RegisterGoesOn
  <2>2. LoneAt(c)
    BY <2>1 DEF LoneRegister, LoneAt
  <2>3. ASSUME NEW i \in Ids, Writes(c, i)
        PROVE  LoneAt(c)'
    <3>1. Live' = Live \cup {i} /\ db'[i].root = req[c].root /\ db'[i].canonical
      BY <2>3, WriteTypes
    <3>2. pc'[c] = "registered" /\ found'[c] = i
      BY <2>3 DEF Writes
    <3>3. Exists(i)'
      BY <3>1 DEF Live, Exists
    <3> QED
      BY <2>1, <3>1, <3>2, <3>3 DEF LoneAt, Here
  <2>4. ASSUME db' = db, RegisterByRoot(c)
        PROVE  LoneAt(c)'
    <3>1. \A i : (Here(c, i)' <=> Here(c, i)) /\ (Exists(i)' <=> Exists(i))
      BY <2>1, <2>4 DEF Here, Exists
    <3>2. \A i : Here(c, i) => Exists(i) /\ db[i].root = req[c].root
      BY DEF Here
    <3>3. CASE pc'[c] = "by_id" /\ found'[c] = NoId
      BY <3>3 DEF LoneAt
    <3>4. CASE /\ pc'[c] \in {"by_id", "files"} /\ Here(c, found'[c])
               /\ todo'[c] = dead'[c] /\ found'[c] \notin dead'[c]
               /\ \A i \in dead'[c] : Here(c, i)
      <4>1. Here(c, found[c])' /\ Exists(found[c])'
        BY <2>1, <2>4, <3>2, <3>4 DEF Here, Exists
      <4>2. \A i \in dead'[c] : db'[i].root = req'[c].root
        BY <2>1, <2>4, <3>2, <3>4
      <4> QED
        BY <3>4, <4>1, <4>2 DEF LoneAt
    <3> QED
      BY <2>4, <3>3, <3>4, ByRootFinds
  <2>5. CASE RegisterDeleteFiles(c)
    <3>1. pc'[c] = "files" /\ UNCHANGED <<db, pc, found, dead>>
      BY <2>5 DEF RegisterDeleteFiles, RegisterStep
    <3> QED
      BY <2>1, <2>2, <3>1 DEF LoneAt, Here, Exists
  <2>6. CASE RegisterDeleteProjects(c)
    <3>1. /\ pc[c] = "files" /\ found' = found
          /\ db' = db \/ db' = Without(dead[c])
      BY <2>6 DEF RegisterDeleteProjects, RegisterStep, Unchecked
    <3>2. pc'[c] = "by_id"
      BY <2>6 DEF RegisterDeleteProjects, Goto, TypeOK
    <3>3. Exists(found[c]) /\ found[c] \notin dead[c]
      BY <2>2, <3>1 DEF LoneAt, Here
    <3>4. Exists(found[c])'
      <4>1. CASE db' = db
        BY <3>1, <3>3, <4>1 DEF Exists
      <4>2. CASE db' = Without(dead[c])
        BY <3>1, <3>3, <4>2 DEF Exists, Without
      <4> QED
        BY <3>1, <4>1, <4>2
    <3> QED
      BY <3>2, <3>4 DEF LoneAt
  <2>7. CASE RegisterById(c)
    <3>1. pc[c] = "by_id" /\ db' = db /\ ~Return(c)
      BY <1>2, <2>7 DEF RegisterById, RegisterStep, table, Return, Goto, TypeOK
    <3>2. \/ Goto(c, "create")
          \/ Goto(c, "update") /\ found' = found /\ found[c] # NoId
          \/ Goto(c, "update") /\ found' = [found EXCEPT ![c] = req[c].config]
             /\ Exists(req[c].config)
      BY <2>7, <3>1 DEF RegisterById, GoOn
    <3>3. CASE Goto(c, "create")
      BY <3>3 DEF LoneAt, Goto, TypeOK
    <3>4. CASE Goto(c, "update") /\ found' = found /\ found[c] # NoId
      <4>1. pc'[c] = "update"
        BY <3>4 DEF Goto, TypeOK
      <4>2. Exists(found[c])'
        BY <2>2, <3>1, <3>4 DEF LoneAt, Exists
      <4> QED
        BY <4>1, <4>2 DEF LoneAt
    <3>5. CASE Goto(c, "update") /\ found' = [found EXCEPT ![c] = req[c].config]
               /\ Exists(req[c].config)
      <4>1. pc'[c] = "update" /\ found'[c] = req[c].config
        BY <3>5 DEF Goto, TypeOK
      <4>2. Exists(found[c])'
        BY <3>1, <3>5, <4>1 DEF Exists
      <4> QED
        BY <4>1, <4>2 DEF LoneAt
    <3> QED
      BY <3>2, <3>3, <3>4, <3>5
  <2>8. CASE RegisterUpdate(c)
    <3>1. Exists(found[c])
      BY <2>2, <2>8 DEF LoneAt, RegisterUpdate, RegisterStep
    <3> QED
      BY <2>3, <2>8, <3>1, UpdateWrites
  <2>9. CASE RegisterCreate(c)
    BY <2>3, <2>9, CreateWrites
  <2>10. ~RegisterReturn(c) /\ \A r, config : ~RegisterBegin(c, r, config)
    BY <1>2 DEF RegisterReturn, Return, Goto, TypeOK, RegisterBegin, RegisterStep
  <2>11. RegisterByRoot(c) => db' = db
    BY DEF RegisterByRoot, table
  <2> QED
    BY <2>4, <2>5, <2>6, <2>7, <2>8, <2>9, <2>10, <2>11 DEF Register
<1>3. ASSUME ~crossed'[c] PROVE LoneAt(c)'
  <2>1. CASE pc[c] = "idle"
    BY <2>1, RegisterBegins DEF LoneAt
  <2>2. CASE pc'[c] = "idle"
    BY <2>2 DEF LoneAt
  <2> QED
    BY <1>2, <1>3, <2>1, <2>2
<1> QED
  BY <1>1, <1>3 DEF LoneRegister, LoneAt

LEMMA RegisterKeeps ==
    ASSUME IInv, NEW c \in Callers, Register(c)
    PROVE  IInv'
BY RegisterTypes, RegisterKeepsAlone, RegisterKeepsFiles, RegisterKeepsTidied,
   RegisterKeepsFound, RegisterKeepsLone DEF IInv

-----------------------------------------------------------------------------
(* The rest.                                                               *)

\* An update of the metadata leaves every project where it is.
LEMMA MetadataTouches ==
    ASSUME TypeOK, UpdateMetadata
    PROVE  /\ UNCHANGED <<files, minted, schema, mig, calls, faults>>
           /\ db' \in [Ids -> Rows \cup {NoRow}] /\ Live' = Live
           /\ \A i \in Live : db'[i].root = db[i].root /\ db'[i].canonical = db[i].canonical
<1>1. PICK i \in Live, t \in Now : db' = [db EXCEPT ![i].updated = t]
  BY DEF UpdateMetadata
<1>2. i \in Ids /\ db[i] \in Rows /\ t \in 0 .. MaxTime
  BY LiveRows DEF Now
<1>3. PICK row : row = [db[i] EXCEPT !.updated = t]
  OBVIOUS
<1>4. row \in Rows /\ row.root = db[i].root /\ row.canonical = db[i].canonical
  BY <1>2, <1>3 DEF Rows
<1>5. db' = [db EXCEPT ![i] = row]
  BY <1>1, <1>3
<1>6. db' \in [Ids -> Rows \cup {NoRow}] /\ db'[i] = row /\ \A j \in Ids \ {i} : db'[j] = db[j]
  BY <1>2, <1>4, <1>5 DEF TypeOK
<1>7. db'[i] # NoRow /\ db[i] # NoRow
  BY <1>2, <1>4, <1>6, NoRowIsNone
<1>8. Live' = Live
  BY <1>2, <1>6, <1>7 DEF Live, Exists
<1>9. \A j \in Live : db'[j].root = db[j].root /\ db'[j].canonical = db[j].canonical
  BY <1>4, <1>6 DEF Live
<1> QED
  BY <1>6, <1>8, <1>9 DEF UpdateMetadata

LEMMA MetadataKeeps ==
    ASSUME IInv, UpdateMetadata
    PROVE  IInv'
<1> USE DEF IInv
<1>1. /\ UNCHANGED <<files, minted, unique, recorded, mig, faults>>
      /\ UNCHANGED <<pc, req, found, todo, dead, crossed>>
      /\ db' \in [Ids -> Rows \cup {NoRow}] /\ Live' = Live /\ mig.at = "idle"
      /\ \A i \in Live : db'[i].root = db[i].root /\ db'[i].canonical = db[i].canonical
  BY MetadataTouches DEF schema, calls, UpdateMetadata
<1>2. \A i : Exists(i)' <=> Exists(i)
  BY <1>1 DEF Live, Exists
<1>3. TypeOK' /\ OneAtWork' /\ RowsAreSelected' /\ RootsAreKept'
  BY <1>1 DEF TypeOK, OneAtWork, Busy, RowsAreSelected, RootsAreKept
<1>4. DeadHaveNoFiles' /\ NoOrphans' /\ NoRegisterOfTop' /\ NothingFoundYet'
  BY <1>1 DEF DeadHaveNoFiles, NoOrphans, NoRegisterOfTop, NothingFoundYet
<1>5. RootsAreTidied'
  BY <1>1 DEF RootsAreTidied, Tidy
<1>6. LoneRegister'
  <2>1. ASSUME NEW c, NEW i PROVE Here(c, i)' <=> Here(c, i)
    <3>1. CASE Exists(i)
      <4>1. i \in Live
        BY <3>1 DEF Live, Exists
      <4>2. db'[i].root = db[i].root /\ db'[i].canonical = db[i].canonical /\ req' = req
        BY <1>1, <4>1
      <4> QED
        BY <1>2, <4>2 DEF Here
    <3>2. CASE ~Exists(i)
      BY <1>2, <3>2 DEF Here
    <3> QED
      BY <3>1, <3>2
  <2>2. ASSUME NEW c \in Callers, ~crossed[c], pc[c] = "files", NEW i \in dead[c]
        PROVE  db'[i].root = req[c].root
    <3>1. db[i].root = req[c].root /\ i \in Ids
      BY <2>2 DEF LoneRegister, TypeOK
    <3>2. i \notin Live => db'[i] = NoRow /\ db[i] = NoRow
      BY <1>1, <3>1 DEF Live, Exists
    <3> QED
      BY <1>1, <3>1, <3>2
  <2> QED
    BY <1>1, <1>2, <2>1, <2>2 DEF LoneRegister
<1> QED
  BY <1>3, <1>4, <1>5, <1>6

LEMMA InitIInv ==
    ASSUME Init
    PROVE  IInv
<1> USE DEF Init
<1>1. NoRequest \in [root : Roots, config : Ids \cup {NoId}]
  BY ProjectsAssumption DEF NoRequest
<1>2. mig = MigrationIdle /\ mig.at = "idle" /\ MigrationIdle \in
        [at : {"idle", "canonicalize", "files", "index", "record"},
         rows : SUBSET Ids, todo : SUBSET Ids, dead : SUBSET Ids]
  BY DEF MigrationIdle
<1>3. Live \subseteq Ids /\ faults \in 0 .. MaxFaults
  BY ProjectsAssumption DEF Live
<1>4. TypeOK
  BY <1>1, <1>2, <1>3 DEF TypeOK
<1>5. OneAtWork /\ NoRegisterOfTop /\ NothingFoundYet /\ LoneRegister
  BY <1>2 DEF OneAtWork, NoRegisterOfTop, NothingFoundYet, LoneRegister
<1>6. RowsAreSelected /\ DeadHaveNoFiles /\ NoOrphans /\ RootsAreTidied /\ RootsAreKept
  BY <1>2 DEF RowsAreSelected, DeadHaveNoFiles, NoOrphans, RootsAreTidied, RootsAreKept
<1> QED
  BY <1>4, <1>5, <1>6 DEF IInv

LEMMA StutterKeeps ==
    ASSUME IInv, UNCHANGED vars
    PROVE  IInv'
<1>1. /\ UNCHANGED <<db, files, minted, unique, recorded, mig, faults>>
      /\ UNCHANGED <<pc, req, found, todo, dead, crossed>>
  BY DEF vars, table, schema, calls
<1>2. Live' = Live /\ Busy' = Busy
  BY <1>1 DEF Live, Exists, Busy
<1>3. TypeOK' /\ OneAtWork' /\ RowsAreSelected'
  BY <1>1, <1>2 DEF IInv, TypeOK, OneAtWork, RowsAreSelected
<1>4. DeadHaveNoFiles' /\ NoOrphans' /\ NoRegisterOfTop' /\ NothingFoundYet'
  BY <1>1, <1>2 DEF IInv, DeadHaveNoFiles, NoOrphans, NoRegisterOfTop, NothingFoundYet
<1>5. RootsAreTidied' /\ RootsAreKept'
  BY <1>1, <1>2 DEF IInv, RootsAreTidied, RootsAreKept, Tidy
<1>6. LoneRegister'
  BY <1>1 DEF IInv, LoneRegister, Here, Exists
<1> QED
  BY <1>3, <1>4, <1>5, <1>6 DEF IInv

\* The invariant holds in every state.
THEOREM SpecIInv == Spec => []IInv
<1>1. IInv /\ [Next]_vars => IInv'
  BY MigrationKeeps, MetadataKeeps, RegisterKeeps, StutterKeeps DEF Next
<1> QED
  BY <1>1, InitIInv, PTL DEF Spec

\* The tables, the migration and the registers have their types in every state.
THEOREM SpecTypeOK == Spec => []TypeOK
<1>1. IInv => TypeOK
  BY DEF IInv
<1> QED
  BY <1>1, SpecIInv, PTL

\* No file_data refers to a project that is gone, as long as no statement has
\* failed unnoticed: v005 and the reconciling delete file_data first.
THEOREM SpecNoOrphans == Spec => []NoOrphans
<1>1. IInv => NoOrphans
  BY DEF IInv
<1> QED
  BY <1>1, SpecIInv, PTL

\* Once v005 is recorded no directory has two projects and the top has none, as
\* long as no statement has failed unnoticed: the index keeps what v005 tidied.
THEOREM SpecOneProjectPerRoot == Spec => []OneProjectPerRoot
<1>1. IInv => OneProjectPerRoot
  BY DEF IInv, RootsAreTidied, Tidy, OneProjectPerRoot
<1> QED
  BY <1>1, SpecIInv, PTL

\* A register that ran alone returns the id of a project at its root.
THEOREM SpecRegisterTellsTheTruth == Spec => []RegisterTellsTheTruth
<1>1. IInv => RegisterTellsTheTruth
  BY DEF IInv, LoneRegister, Here, RegisterTellsTheTruth
<1> QED
  BY <1>1, SpecIInv, PTL

\* A step of RootsSurvive.
RootsSurviveStep ==
    \A i \in Ids :
        Exists(i) /\ db'[i] = NoRow =>
            \/ db[i].root = TopRoot
            \/ \E j \in Ids : db'[j] # NoRow /\ db'[j].root = db[i].root
            \/ \E c \in Callers : crossed[c]

LEMMA NothingDeleted ==
    ASSUME \A i \in Live : db'[i] # NoRow
    PROVE  RootsSurviveStep
BY DEF RootsSurviveStep, Live

LEMMA MigrationRootsSurvive ==
    ASSUME IInv, Migration
    PROVE  RootsSurviveStep
<1> USE DEF IInv
<1>1. CASE MigrationDeleteProjects
  <2>1. mig.at = "files" /\ (db' = db \/ db' = Without(mig.dead))
    BY <1>1 DEF MigrationDeleteProjects, MigrationStep, Unchecked
  <2>2. CASE db' = db
    BY <2>2, NothingDeleted DEF Live, Exists
  <2>3. CASE db' = Without(mig.dead)
    <3>1. /\ \A i \in Ids \ mig.dead : db'[i] = db[i]
          /\ \A i : i \in Live <=> i \in Ids /\ db[i] # NoRow
      BY <2>3 DEF Without, Live, Exists
    <3>2. \A i \in mig.dead : \/ db[i].root = TopRoot
                              \/ \E j \in Live \ mig.dead : db[j].root = db[i].root
      BY <2>1 DEF RootsAreKept
    <3> QED
      BY <3>1, <3>2 DEF RootsSurviveStep, Exists
  <2> QED
    BY <2>1, <2>2, <2>3
<1>2. CASE MigrationCanonicalize
  <2>1. PICK i \in mig.todo : db' = db \/ db' = [db EXCEPT ![i].canonical = TRUE]
    BY <1>2 DEF MigrationCanonicalize, Unchecked
  <2>2. i \in Live
    BY <1>2 DEF MigrationCanonicalize, MigrationStep, RowsAreSelected
  <2>3. db[i] \in Rows /\ i \in Ids
    BY <2>2, LiveRows
  <2>4. [db[i] EXCEPT !.canonical = TRUE] \in Rows
    BY <2>3 DEF Rows
  <2>5. \A j \in Live : db'[j] # NoRow
    BY <2>1, <2>3, <2>4, NoRowIsNone, LiveRows DEF TypeOK
  <2> QED
    BY <2>5, NothingDeleted
<1>3. CASE ~MigrationDeleteProjects /\ ~MigrationCanonicalize
  <2>1. db' = db
    BY <1>3 DEF Migration, MigrationStart, MigrationPlan, MigrationDeleteFiles,
       MigrationIndex, MigrationRecord, MigrationAborts, table
  <2> QED
    BY <2>1, NothingDeleted DEF Live, Exists
<1> QED
  BY <1>1, <1>2, <1>3

LEMMA RegisterRootsSurvive ==
    ASSUME IInv, NEW c \in Callers, Register(c)
    PROVE  RootsSurviveStep
<1> USE DEF IInv
<1>1. CASE RegisterDeleteProjects(c)
  <2>1. pc[c] = "files" /\ (db' = db \/ db' = Without(dead[c]))
    BY <1>1 DEF RegisterDeleteProjects, RegisterStep, Unchecked
  <2>2. CASE db' = db
    BY <2>2, NothingDeleted DEF Live, Exists
  <2>3. CASE db' = Without(dead[c]) /\ ~crossed[c]
    <3>1. /\ Here(c, found[c]) /\ found[c] \notin dead[c]
          /\ \A i \in dead[c] : db[i].root = req[c].root
      BY <2>1, <2>3 DEF LoneRegister
    <3>2. \A i \in Ids \ dead[c] : db'[i] = db[i]
      BY <2>3 DEF Without
    <3>3. /\ found[c] \in Ids /\ db'[found[c]] # NoRow
          /\ db'[found[c]].root = req[c].root
      BY <3>1, <3>2 DEF Here, Exists
    <3> QED
      BY <3>1, <3>2, <3>3 DEF RootsSurviveStep, Exists
  <2>4. CASE crossed[c]
    BY <2>4 DEF RootsSurviveStep
  <2> QED
    BY <2>1, <2>2, <2>3, <2>4
<1>2. ASSUME NEW i \in Ids, Writes(c, i)
      PROVE  RootsSurviveStep
  <2>1. Live' = Live \cup {i}
    BY <1>2, WriteTypes
  <2> QED
    BY <2>1, NothingDeleted DEF Live, Exists
<1>3. CASE db' = db
  BY <1>3, NothingDeleted DEF Live, Exists
<1> QED
  BY <1>1, <1>2, <1>3, RegisterWrites DEF table, RegisterDeleteFiles

LEMMA MetadataRootsSurvive ==
    ASSUME IInv, UpdateMetadata
    PROVE  RootsSurviveStep
<1>1. Live' = Live
  BY MetadataTouches DEF IInv
<1> QED
  BY <1>1, NothingDeleted DEF Live, Exists

\* No step deletes the last project of a directory, unless registers overlap; the
\* top's are deleted, and a statement that fails does not delete.
THEOREM SpecRootsSurvive == Spec => RootsSurvive
<1>1. IInv /\ [Next]_vars => [RootsSurviveStep]_vars
  BY MigrationRootsSurvive, MetadataRootsSurvive, RegisterRootsSurvive DEF Next
<1>2. RootsSurvive <=> [][RootsSurviveStep]_vars
  BY DEF RootsSurvive, RootsSurviveStep
<1> QED
  BY <1>1, <1>2, SpecIInv, PTL DEF Spec
=============================================================================
