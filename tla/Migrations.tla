----------------------------- MODULE Migrations -----------------------------
(***************************************************************************)
(* schema/migration: run_pending applies the migrations that _migrations   *)
(* does not record, statement by statement, and verify_schema looks at the *)
(* result; service/profile.rs writes the users table, before, during and   *)
(* after.  Nothing here is a transaction: a run may end between any two    *)
(* statements, another may be under way, and of a DEFINE or a CREATE the   *)
(* result is not taken, so it may fail without anybody noticing.           *)
(*                                                                         *)
(* A table that is written before it is defined exists from then on, as    *)
(* the storage engine makes it, and IF NOT EXISTS keeps it so.  The engine *)
(* refuses a unique index over rows that clash, and rows that clash under  *)
(* a unique index.  The DEFINE FIELDs of a table, its DEFINE INDEXes other *)
(* than unique_email, and the six tables of the graph are one statement    *)
(* here; users has another unique index, on agent_name, which is like that *)
(* on email and left out.  What v005 does to rows is in Projects.          *)
(***************************************************************************)
EXTENDS Naturals, Sequences, FiniteSets

CONSTANTS
    Runners,     \* callers of run_pending
    Profiles,    \* bound: the records there may be in users
    Emails,
    NoProfile,
    MaxFaults    \* bound: different statements that fail unnoticed

ASSUME MigrationsAssumption == NoProfile \notin Emails /\ MaxFaults \in Nat

VARIABLES
    defined,    \* the statements that are in effect
    implicit,   \* was users written before it was defined?
    recorded,   \* per version: its rows in _migrations
    versionKey, \* is _migrations_version_unique defined?
    users,      \* per profile: its email
    run,        \* per runner: where it is
    lost,       \* history: statements that have failed unnoticed
    refused     \* history: unique indexes that were refused

database == <<defined, implicit, recorded, versionKey, refused>>
vars == <<defined, implicit, recorded, versionKey, users, run, lost, refused>>

\* Faulty variant of CreateUsersTable: the email is not unique.
CreateUsersTableWithoutIndex == <<"users", "users fields">>

CreateUsersTable == <<"users", "users fields", "unique_email">>
CreateProjectsTable == <<"projects", "projects fields", "projects indexes">>
CreateFileDataTable == <<"file_data", "file_data fields", "file_data indexes">>
CreateGraphRelations == <<"graph tables">>
AddUniqueRootPath == <<"unique_root_path">>

AllMigrations == <<CreateUsersTable, CreateProjectsTable, CreateFileDataTable,
                   CreateGraphRelations, AddUniqueRootPath>>
MigrationNames == <<"create_users_table", "create_projects_table",
                    "create_file_data_table", "create_graph_relations",
                    "add_unique_root_path">>
Versions == DOMAIN AllMigrations
Statements(v) == {AllMigrations[v][k] : k \in DOMAIN AllMigrations[v]}
AllStatements == UNION {Statements(v) : v \in Versions}

ExpectedTables == {"users", "projects", "file_data", "graph tables"}

\* The tables that INFO FOR DB lists.
Tables == (defined \cap ExpectedTables) \cup {t \in {"users"} : implicit}

\* A runner that has read nothing.
Fresh(label) == [at |-> label, applied |-> {}, version |-> 1, next |-> 1]

TypeOK ==
    /\ defined \subseteq AllStatements /\ refused \subseteq AllStatements
    /\ implicit \in BOOLEAN /\ versionKey \in BOOLEAN
    /\ recorded \in [Versions -> Nat]
    /\ users \in [Profiles -> Emails \cup {NoProfile}]
    /\ run \in [Runners -> [at : {"idle", "read", "apply", "record", "verify", "verified"},
                            applied : SUBSET Versions,
                            version : Versions, next : 1 .. 3]]
    /\ Cardinality(lost) <= MaxFaults

\* A new database.
Init ==
    /\ defined = {} /\ refused = {}
    /\ implicit = FALSE /\ versionKey = FALSE
    /\ recorded = [v \in Versions |-> 0]
    /\ users = [i \in Profiles |-> NoProfile]
    /\ run = [r \in Runners |-> Fresh("idle")]
    /\ lost = {}

At(r, label) == run[r].at = label
Move(r, state) == run' = [run EXCEPT ![r] = state]

\* A statement whose result nobody takes: it works, or fails unnoticed.
Unchecked(name, Works) ==
    \/ Works /\ UNCHANGED lost
    \/ /\ Cardinality(lost \cup {name}) <= MaxFaults
       /\ lost' = lost \cup {name} /\ UNCHANGED database

Live == {i \in Profiles : users[i] # NoProfile}

\* Do two profiles have the same email?
Clash == \E i, j \in Live : i # j /\ users[i] = users[j]

-----------------------------------------------------------------------------
(* run_pending *)

\* Faulty variant of Bootstrap: _migrations has no unique index.
BootstrapWithoutIndex(r) ==
    /\ At(r, "idle") \/ At(r, "verified")
    /\ Move(r, Fresh("read"))
    /\ UNCHANGED <<database, users, lost>>

\* _migrations and its unique index, refused if a version has two rows.
Bootstrap(r) ==
    /\ At(r, "idle") \/ At(r, "verified")
    /\ Unchecked("_migrations_version_unique",
                 /\ versionKey' = (versionKey \/ \A v \in Versions : recorded[v] <= 1)
                 /\ UNCHANGED <<defined, implicit, recorded, refused>>)
    /\ Move(r, Fresh("read"))
    /\ UNCHANGED users

\* The next version after v that is not among those applied, or the end.
Proceed(r, v, applied) ==
    LET pending == {w \in Versions : w > v /\ w \notin applied}
    IN  IF pending = {}
        THEN Move(r, Fresh("verify"))
        ELSE Move(r, [at |-> "apply", applied |-> applied, next |-> 1,
                      version |-> CHOOSE w \in pending : \A x \in pending : w <= x])

\* The recorded versions are read once.
ReadApplied(r) ==
    /\ At(r, "read")
    /\ Proceed(r, 0, {v \in Versions : recorded[v] > 0})
    /\ UNCHANGED <<database, users, lost>>

\* DEFINE ... IF NOT EXISTS.
Define(s) ==
    /\ \/ /\ s = "users" /\ implicit
          /\ UNCHANGED <<defined, refused>>
       \/ /\ s = "unique_email" /\ Clash
          /\ refused' = refused \cup {s} /\ UNCHANGED defined
       \/ /\ ~(s = "users" /\ implicit) /\ ~(s = "unique_email" /\ Clash)
          /\ defined' = defined \cup {s} /\ UNCHANGED refused
    /\ UNCHANGED <<implicit, recorded, versionKey>>

\* Faulty variant of Apply: the last statement is left out.
ApplyOffByOne(r) ==
    /\ At(r, "apply")
    /\ LET todo == AllMigrations[run[r].version]
           k == run[r].next
       IN  /\ Unchecked(todo[k], Define(todo[k]))
           /\ Move(r, IF k + 1 < Len(todo) THEN [run[r] EXCEPT !.next = k + 1]
                                           ELSE [run[r] EXCEPT !.at = "record"])
    /\ UNCHANGED users

\* run_migration: the next statement of the version.
Apply(r) ==
    /\ At(r, "apply")
    /\ LET todo == AllMigrations[run[r].version]
           k == run[r].next
       IN  /\ Unchecked(todo[k], Define(todo[k]))
           /\ Move(r, IF k < Len(todo) THEN [run[r] EXCEPT !.next = k + 1]
                                       ELSE [run[r] EXCEPT !.at = "record"])
    /\ UNCHANGED users

\* CREATE _migrations, refused if the version is recorded and the index there;
\* the migration is reported either way.
Record(r) ==
    /\ At(r, "record")
    /\ LET v == run[r].version
       IN  /\ Unchecked(MigrationNames[v],
                     /\ recorded' = IF versionKey /\ recorded[v] > 0 THEN recorded
                                    ELSE [recorded EXCEPT ![v] = @ + 1]
                     /\ UNCHANGED <<defined, implicit, versionKey, refused>>)
           /\ Proceed(r, v, run[r].applied)
    /\ UNCHANGED users

\* verify_schema: every expected table exists.
Verify(r) ==
    /\ At(r, "verify")
    /\ Move(r, IF ExpectedTables \subseteq Tables THEN Fresh("verified")
                                                  ELSE Fresh("idle"))
    /\ UNCHANGED <<database, users, lost>>

\* A query fails as a whole, or the process dies.
Abort(r) ==
    /\ ~At(r, "idle") /\ ~At(r, "verified")
    /\ Move(r, Fresh("idle"))
    /\ UNCHANGED <<database, users, lost>>

-----------------------------------------------------------------------------
(* ProfileService::upsert *)

\* The email that is written, under the unique index if there is one.
Write(i, email) ==
    /\ "unique_email" \in defined => \A j \in Live \ {i} : users[j] # email
    /\ users' = [users EXCEPT ![i] = email]

\* CREATE users, which makes the table if need be.
CreateProfile == \E i \in Profiles \ Live, email \in Emails :
    /\ Write(i, email)
    /\ implicit' = (implicit \/ "users" \notin defined)
    /\ UNCHANGED <<defined, recorded, versionKey, refused, run, lost>>

\* UPDATE of an id: without such a record it is an error.
UpdateProfile == \E i \in Live, email \in Emails :
    /\ Write(i, email)
    /\ UNCHANGED <<database, run, lost>>

Next ==
    \/ \E r \in Runners : \/ Bootstrap(r) \/ ReadApplied(r) \/ Apply(r)
                          \/ Record(r) \/ Verify(r) \/ Abort(r)
    \/ CreateProfile \/ UpdateProfile

Spec == Init /\ [][Next]_vars
-----------------------------------------------------------------------------
\* A recorded version is in effect to its last statement, however often runs
\* were cut short or ran side by side; except for what failed unnoticed, an
\* index that clashing rows refused, and a users table that was there before
\* (run_pending, the five migrations).
RecordedMeansDefined ==
    \A v \in Versions : recorded[v] > 0 =>
        Statements(v) \subseteq defined \cup lost \cup refused \cup {t \in {"users"} : implicit}

\* No version is recorded twice, and none before those it builds on, except for
\* records and the unique index that failed unnoticed (run_pending).
RecordedOnceInOrder ==
    \A v \in Versions :
        /\ "_migrations_version_unique" \notin lost => recorded[v] <= 1
        /\ recorded[v] > 0 =>
               \A w \in 1 .. v : recorded[w] > 0 \/ MigrationNames[w] \in lost

\* Once version 1 is recorded, profiles differ in the email, unless those from
\* before did not, or the index failed unnoticed (v001, upsert).
EmailsAreUnique ==
    recorded[1] > 0 /\ Clash => "unique_email" \in refused \cup lost

\* runtime/core.rs, of verify_schema: "Catches interrupted-migration scenarios
\* where tables are partially defined or missing".
VerifiedMeansDefined ==
    \A r \in Runners : At(r, "verified") => defined = AllStatements
=============================================================================
