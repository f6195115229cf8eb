---------------------------- MODULE Maintenance ----------------------------
(***************************************************************************)
(* db/reset.rs and db/export.rs beside the statements of the rest of the   *)
(* library.  Each runs its queries in one transaction of the storage       *)
(* engine, which is external: a transaction reads the state in which it    *)
(* began, its writes appear when it commits, and the commit fails if one   *)
(* of the rows it writes has been written since; it may fail otherwise.    *)
(* An export then writes one file per table, all exports to one directory. *)
(*                                                                         *)
(* The schema is in place, so every table named here exists.  Two of the   *)
(* tables stand for all: rows of one refer to rows of the other.           *)
(***************************************************************************)
EXTENDS Naturals, FiniteSets, Sequences

CONSTANTS
    Calls,               \* bound: the calls of reset and of export_tables
    Projects, Files,     \* rows of projects and of file_data
    ProjectOf, PathOf,   \* what a file_data row refers to
    Paths,
    All,                 \* no filter
    None,                \* no file, no call
    Partial,             \* what a failed write leaves of a file
    MaxFaults,           \* bound: statements that fail unnoticed
    MaxWrites            \* bound: statements of other calls

ASSUME MaintenanceAssumption ==
    /\ Projects \cap Files = {}
    /\ ProjectOf \in [Files -> Projects] /\ PathOf \in [Files -> Paths]
    /\ All \notin Projects /\ None \notin Calls
    /\ MaxFaults \in Nat /\ MaxWrites \in Nat

VARIABLES
    rows,      \* the rows that are committed
    call,      \* per call, its transaction and where it is
    answer,    \* per call, what it has returned
    file,      \* the files in the directory of the exports
    faults,    \* statements that have failed unnoticed
    writes,    \* statements of other calls so far
    seen,      \* per call, history: the committed states since it began
    alone      \* per call, history: no other export wrote since it began to write

vars == <<rows, call, answer, file, faults, writes, seen, alone>>

Tables == {"projects", "file_data"}
Rows == Projects \cup Files
Table(t) == IF t = "projects" THEN Projects ELSE Files

\* Only file_data has the field project_id: for other tables a filter is skipped.
\* table_has_field asks the connection, not the transaction; the answer is the same
\* as long as the schema is.
Selected(s, t, filter) ==
    {r \in s \cap Table(t) : t = "file_data" /\ filter # All => ProjectOf[r] = filter}

\* expected_tables() lists the tables one way, the export sorts them.
With(s, t, T) == IF t \in T THEN Append(s, t) ELSE s
Canonical(T) == With(With(<<>>, "projects", T), "file_data", T)
Sorted(T) == With(With(<<>>, "file_data", T), "projects", T)

NoCall == [at |-> "idle", tables |-> {}, filter |-> All, todo |-> <<>>,
           snapshot |-> {}, touched |-> {}, got |-> {}]

TypeOK ==
    /\ rows \subseteq Rows
    /\ call \in [Calls -> [at : {"idle", "clearing", "reading", "writing"},
                           tables : SUBSET Tables, filter : Projects \cup {All},
                           todo : {Canonical(T) : T \in SUBSET Tables}
                                      \cup {Sorted(T) : T \in SUBSET Tables},
                           snapshot : SUBSET Rows, touched : SUBSET Rows,
                           got : SUBSET Rows]]
    /\ \A c \in Calls : answer[c].kind \in {"idle", "open", "cleared", "shown", "failed"}
    /\ \A t \in Tables : file[t] \in {None, Partial} \/ file[t] \subseteq Table(t)
    /\ faults \in 0 .. MaxFaults /\ writes \in 0 .. MaxWrites
    /\ \A c \in Calls : seen[c] \subseteq SUBSET Rows
    /\ alone \in [Calls -> BOOLEAN]

Init ==
    /\ rows \in SUBSET Rows
    /\ call = [c \in Calls |-> NoCall]
    /\ answer = [c \in Calls |-> [kind |-> "idle"]]
    /\ file = [t \in Tables |-> None]
    /\ faults = 0 /\ writes = 0
    /\ seen = [c \in Calls |-> {}]
    /\ alone = [c \in Calls |-> FALSE]

At(c, label) == call[c].at = label

\* rows becomes S, and the rows in wrote have been written; the transactions
\* of the others do not see it, but cannot commit a write to one of these rows.
Commit(c, S, wrote) ==
    /\ rows' = S
    /\ call' = [d \in Calls |->
           IF d = c THEN NoCall
           ELSE IF At(d, "idle") THEN call[d]
           ELSE [call[d] EXCEPT !.touched = @ \cup wrote]]
    /\ seen' = [d \in Calls |->
           IF d = c THEN {}
           ELSE IF At(d, "idle") THEN seen[d] ELSE seen[d] \cup {S}]

BeginTransaction(c, at, T, filter, todo) ==
    /\ answer[c].kind = "idle"
    /\ call' = [call EXCEPT ![c] =
           [NoCall EXCEPT !.at = at, !.tables = T, !.filter = filter, !.todo = todo,
                          !.snapshot = rows]]
    /\ answer' = [answer EXCEPT ![c] = [kind |-> "open"]]
    /\ seen' = [seen EXCEPT ![c] = {rows}]
    /\ UNCHANGED <<rows, file, faults, writes, alone>>

Answer(c, value) == answer' = [answer EXCEPT ![c] = value]

-----------------------------------------------------------------------------
(* Single statements of other calls: a transaction each. *)

Statement(S, wrote) ==
    /\ writes < MaxWrites /\ writes' = writes + 1
    /\ Commit(None, S, wrote)
    /\ UNCHANGED <<answer, file, faults, alone>>

\* register creates a project, upsert_metadata a file_data row.
Upsert == \E r \in Rows : Statement(rows \cup {r}, {r})

\* delete_by_path: the path's rows of every project.
DeleteByPath ==
    \E p \in Paths : LET gone == {f \in rows \cap Files : PathOf[f] = p}
                    IN  Statement(rows \ gone, gone)

-----------------------------------------------------------------------------
(* reset *)

\* The canonical tables among those named; without any there is nothing to do.
BeginReset(c) ==
    \E T \in SUBSET Tables \ {{}} : BeginTransaction(c, "clearing", T, All, Canonical(T))

\* Count, then DELETE FROM the next table, whose result nobody takes.
ClearTable(c) ==
    /\ At(c, "clearing") /\ call[c].todo # <<>>
    /\ LET t == Head(call[c].todo)
       IN \/ /\ call' = [call EXCEPT ![c].todo = Tail(@),
                                     ![c].got = @ \cup (call[c].snapshot \cap Table(t))]
             /\ UNCHANGED faults
          \/ /\ faults < MaxFaults /\ faults' = faults + 1
             /\ call' = [call EXCEPT ![c].todo = Tail(@)]
    /\ UNCHANGED <<rows, answer, file, writes, seen, alone>>

\* commit: all the deletes take effect.
CommitDeletes(c) ==
    /\ At(c, "clearing") /\ call[c].todo = <<>>
    /\ call[c].got \cap call[c].touched = {}
    /\ Commit(c, rows \ call[c].got, call[c].got)
    /\ UNCHANGED <<file, faults, writes, alone>>

\* commit returns, and reset the counts.
CommitReset(c) ==
    /\ CommitDeletes(c)
    /\ Answer(c, [kind |-> "cleared",
                  counts |-> [t \in call[c].tables |->
                                 Cardinality(call[c].snapshot \cap Table(t))]])

\* The caller drops the future while commit runs, and commit goes through.
CommitUnheard(c) ==
    /\ CommitDeletes(c)
    /\ Answer(c, [kind |-> "failed"])

-----------------------------------------------------------------------------
(* export_tables *)

\* The directory, the table names and the filters are found valid.
BeginExport(c) ==
    \E T \in SUBSET Tables \ {{}}, p \in Projects \cup {All} :
        BeginTransaction(c, "reading", T, p, Sorted(T))

\* Faulty variant of ReadTable: the query goes to the connection.
ReadTableLive(c) ==
    /\ At(c, "reading") /\ call[c].todo # <<>>
    /\ call' = [call EXCEPT
           ![c].todo = Tail(@),
           ![c].got = @ \cup Selected(rows, Head(call[c].todo), call[c].filter)]
    /\ UNCHANGED <<rows, answer, file, faults, writes, seen, alone>>

\* SELECT from the next table, in the transaction.
ReadTable(c) ==
    /\ At(c, "reading") /\ call[c].todo # <<>>
    /\ call' = [call EXCEPT
           ![c].todo = Tail(@),
           ![c].got = @ \cup Selected(call[c].snapshot, Head(call[c].todo), call[c].filter)]
    /\ UNCHANGED <<rows, answer, file, faults, writes, seen, alone>>

\* The transaction, which has written nothing, ends; the files come next.
CommitExport(c) ==
    /\ At(c, "reading") /\ call[c].todo = <<>>
    /\ call' = [call EXCEPT ![c].at = "writing", ![c].todo = Sorted(call[c].tables)]
    /\ alone' = [alone EXCEPT ![c] = TRUE]
    /\ UNCHANGED <<rows, answer, file, faults, writes, seen>>

\* Faulty variant of WriteFile: a file that exists is left as it is.
WriteFileKeepsOld(c) ==
    /\ At(c, "writing") /\ call[c].todo # <<>>
    /\ LET t == Head(call[c].todo)
       IN file' = [file EXCEPT ![t] = IF @ # None THEN @ ELSE call[c].got \cap Table(t)]
    /\ alone' = [d \in Calls |-> d = c /\ alone[d]]
    /\ call' = [call EXCEPT ![c].todo = Tail(@)]
    /\ UNCHANGED <<rows, answer, faults, writes, seen>>

\* write_json: the next table's file, in place of the one there may be.
WriteFile(c) ==
    /\ At(c, "writing") /\ call[c].todo # <<>>
    /\ LET t == Head(call[c].todo)
       IN file' = [file EXCEPT ![t] = call[c].got \cap Table(t)]
    /\ alone' = [d \in Calls |-> d = c /\ alone[d]]
    /\ call' = [call EXCEPT ![c].todo = Tail(@)]
    /\ UNCHANGED <<rows, answer, faults, writes, seen>>

\* fs::write truncates the file and fails on its way, and with it the export.
WriteFileFails(c) ==
    /\ At(c, "writing") /\ call[c].todo # <<>>
    /\ file' = [file EXCEPT ![Head(call[c].todo)] = Partial]
    /\ call' = [call EXCEPT ![c] = NoCall]
    /\ Answer(c, [kind |-> "failed"])
    /\ seen' = [seen EXCEPT ![c] = {}]
    /\ alone' = [d \in Calls |-> FALSE]
    /\ UNCHANGED <<rows, faults, writes>>

\* The files and the number of their rows are reported.
FinishExport(c) ==
    /\ At(c, "writing") /\ call[c].todo = <<>>
    /\ call' = [call EXCEPT ![c] = NoCall]
    /\ Answer(c, [kind |-> "shown", filter |-> call[c].filter,
                  shown |-> [t \in call[c].tables |-> call[c].got \cap Table(t)]])
    /\ UNCHANGED <<rows, file, faults, writes, seen, alone>>

-----------------------------------------------------------------------------
\* A query, the commit or the opening of a file fails, or the caller drops the
\* future: the transaction is rolled back, and the files written so far stay.
Abort(c) ==
    /\ ~At(c, "idle")
    /\ call' = [call EXCEPT ![c] = NoCall]
    /\ Answer(c, [kind |-> "failed"])
    /\ seen' = [seen EXCEPT ![c] = {}]
    /\ alone' = [alone EXCEPT ![c] = FALSE]
    /\ UNCHANGED <<rows, file, faults, writes>>

Next ==
    \/ Upsert \/ DeleteByPath
    \/ \E c \in Calls :
        \/ BeginReset(c) \/ ClearTable(c) \/ CommitReset(c) \/ CommitUnheard(c)
        \/ BeginExport(c) \/ ReadTable(c) \/ CommitExport(c)
        \/ WriteFile(c) \/ WriteFileFails(c) \/ FinishExport(c)
        \/ Abort(c)

Spec == Init /\ [][Next]_vars
-----------------------------------------------------------------------------
Promise == INSTANCE Store WITH lapses <- faults

\* Resets and exports implement Store: whatever runs beside them, each acts on
\* one state of the database, a reset all or nothing and with true counts
\* unless a statement failed unnoticed (reset, export_tables).
StoreSpec == Promise!Spec

\* The files of an export that returned Ok hold what one state of the database
\* held while it ran, unless another export wrote to the directory since it
\* began to write (export_tables, write_json).
FilesAreOneState ==
    \A c \in Calls : answer[c].kind = "shown" /\ alone[c] =>
        \E s \in seen[c] : \A t \in DOMAIN answer[c].shown :
            file[t] = Selected(s, t, answer[c].filter)

\* reset.rs: "any failure propagates and rolls back every change made so far".
\* A reset that reports its counts has deleted the rows it counted.
ResetsDelete ==
    [][\A c \in Calls : CommitReset(c) =>
           \A t \in call[c].tables : call[c].snapshot \cap rows' \cap Table(t) = {}]_vars
=============================================================================
