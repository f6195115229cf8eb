---------------------------- MODULE IndexEngine ----------------------------
(***************************************************************************)
(* engine/knowledge/engine.rs over engine/index: the active project, held  *)
(* twice (EngineState behind one lock, ProjectState behind another), and   *)
(* what reads it: search, the queries that keep the first lock, imports,   *)
(* and get_file_metadata over the LRU cache and the runtime index.         *)
(*                                                                         *)
(* A project's id and root are replaced together, so a project stands for  *)
(* both; a reader that takes the lock once for each may see two projects.  *)
(* Callers share one engine; every step takes a lock at most once.         *)
(***************************************************************************)
EXTENDS LruCache, FiniteSets

CONSTANTS
    Callers,
    Projects,
    NoProject,     \* no id, an empty root
    Paths,
    NoPath,        \* no path
    Capacity,      \* MAX_CACHE_ENTRIES, 1000 in the code
    MaxVersions    \* bound: metadata imported

ASSUME IndexEngineAssumption ==
    /\ NoProject \notin Projects
    /\ NoPath \notin Paths
    /\ Capacity \in Nat \ {0} /\ MaxVersions \in Nat

VARIABLES
    context,   \* EngineState: the active project
    project,   \* IndexEngine.project: the project searched and imported
    rows,      \* projects with rows in file_data
    index,     \* runtime index: from some paths to entries
    cache,     \* FileMetadataCache
    versions,  \* entries made so far
    pc,        \* per caller: where its call is
    arg,       \* per caller: the project its call works on
    path,      \* per caller: the path its call is about
    entry,     \* per caller: the entry it has found
    root,      \* per caller: the root its search has read
    answer,    \* per caller: project and root of every result
    overlap,   \* history: two calls of set_project have been at work at once
    torn       \* per caller, history: the project changed between its two reads

calls == <<pc, arg, path, entry, root, answer, torn>>
store == <<rows, index, cache, versions>>
vars == <<context, project, store, calls, overlap>>

Active == Projects \cup {NoProject}
Entries == [project : Projects, version : 1 .. MaxVersions]
NoEntry == [project |-> NoProject, version |-> 0]
Steps == {"idle", "set", "count", "counted", "import", "missed", "found",
          "admitted", "querying", "rooting", "naming", "answered"}

Setters == {c \in Callers : pc[c] = "set"}

\* Faulty variant of Holders: the project's id is cloned and the lock let go.
HoldersLetGo == {c \in Callers : pc[c] = "none"}

\* The callers that have the context's lock for reading across an await.
Holders == {c \in Callers : pc[c] \in {"count", "counted"}}

TypeOK ==
    /\ context \in Active /\ project \in Active
    /\ rows \subseteq Projects
    /\ DOMAIN index \subseteq Paths /\ \A p \in DOMAIN index : index[p] \in Entries
    /\ \A p \in DOMAIN cache.map : p \in Paths /\ cache.map[p] \in Entries
    /\ versions \in 0 .. MaxVersions
    /\ pc \in [Callers -> Steps]
    /\ arg \in [Callers -> Active]
    /\ path \in [Callers -> Paths \cup {NoPath}]
    /\ \A c \in Callers : entry[c] \in Entries \cup {NoEntry}
    /\ root \in [Callers -> Active]
    /\ \A c \in Callers : answer[c] \subseteq Projects \X Active
    /\ overlap \in BOOLEAN /\ torn \in [Callers -> BOOLEAN]

Init ==
    /\ context = NoProject /\ project = NoProject
    /\ rows \in SUBSET Projects
    /\ index = <<>>
    /\ cache = EmptyCache
    /\ versions = 0
    /\ pc = [c \in Callers |-> "idle"]
    /\ arg = [c \in Callers |-> NoProject]
    /\ path = [c \in Callers |-> NoPath]
    /\ entry = [c \in Callers |-> NoEntry]
    /\ root = [c \in Callers |-> NoProject]
    /\ answer = [c \in Callers |-> {}]
    /\ overlap = FALSE
    /\ torn = [c \in Callers |-> FALSE]

At(c, step) == pc[c] = step
Goto(c, step) == pc' = [pc EXCEPT ![c] = step]

\* The call returns: its locals are gone.
Return(c) ==
    /\ Goto(c, "idle")
    /\ arg' = [arg EXCEPT ![c] = NoProject]
    /\ path' = [path EXCEPT ![c] = NoPath]
    /\ entry' = [entry EXCEPT ![c] = NoEntry]
    /\ root' = [root EXCEPT ![c] = NoProject]
    /\ answer' = [answer EXCEPT ![c] = {}]
    /\ torn' = [torn EXCEPT ![c] = FALSE]

-----------------------------------------------------------------------------
(* set_project and clear_project. *)

SetContext(c, p) ==
    /\ At(c, "idle")
    /\ Holders = {}
    /\ context' = p
    /\ overlap' = (overlap \/ Setters # {})
    /\ arg' = [arg EXCEPT ![c] = p]
    /\ Goto(c, "set")
    /\ UNCHANGED <<project, store, path, entry, root, answer, torn>>

\* Whose two reads of the project have this change in between?
Tear == [d \in Callers |-> torn[d] \/ pc[d] = "naming"]

\* Faulty variant of SetIndexProject: the engine is only set up once.
SetIndexProjectOnce(c) ==
    /\ At(c, "set")
    /\ project' = IF project = NoProject THEN arg[c] ELSE project
    /\ Goto(c, "idle")
    /\ arg' = [arg EXCEPT ![c] = NoProject]
    /\ torn' = [Tear EXCEPT ![c] = FALSE]
    /\ UNCHANGED <<context, store, path, entry, root, answer, overlap>>

\* IndexEngine::set_project: the importer is rebuilt; the runtime index and the
\* cache stay as they are.
SetIndexProject(c) ==
    /\ At(c, "set")
    /\ project' = arg[c]
    /\ Goto(c, "idle")
    /\ arg' = [arg EXCEPT ![c] = NoProject]
    /\ torn' = [Tear EXCEPT ![c] = FALSE]
    /\ UNCHANGED <<context, store, path, entry, root, answer, overlap>>

\* The index engine keeps the project.
ClearProject(c) ==
    /\ At(c, "idle")
    /\ Holders = {}
    /\ context' = NoProject
    /\ UNCHANGED <<project, store, calls, overlap>>

-----------------------------------------------------------------------------
(* count_indexed_files and list_indexed_paths: the lock is held across the *)
(* query.  Without a project they fail at once.                            *)

CountBegin(c) ==
    /\ At(c, "idle")
    /\ context # NoProject
    /\ arg' = [arg EXCEPT ![c] = context]
    /\ Goto(c, "count")
    /\ UNCHANGED <<context, project, store, path, entry, root, answer, overlap, torn>>

\* The database counts the rows of the project it was given, or fails.
CountQuery(c) ==
    /\ At(c, "count")
    /\ \/ Goto(c, "counted") /\ UNCHANGED <<arg, path, entry, root, answer, torn>>
       \/ Return(c)
    /\ UNCHANGED <<context, project, store, overlap>>

CountReturn(c) ==
    /\ At(c, "counted")
    /\ Return(c)
    /\ UNCHANGED <<context, project, store, overlap>>

-----------------------------------------------------------------------------
(* submit_metadata: the importer is cloned, and stays with its project.    *)
(* Importer.tla has the passes in detail; here, what they leave behind.    *)

ImportBegin(c) ==
    /\ At(c, "idle")
    /\ project # NoProject
    /\ arg' = [arg EXCEPT ![c] = project]
    /\ Goto(c, "import")
    /\ UNCHANGED <<context, project, store, path, entry, root, answer, overlap, torn>>

\* A file's row is written, and its entry inserted under its relative path.
ImportFile(c, p) ==
    /\ At(c, "import")
    /\ versions < MaxVersions
    /\ versions' = versions + 1
    /\ rows' = rows \cup {arg[c]}
    /\ index' = Bind(index, p, [project |-> arg[c], version |-> versions'])
    /\ UNCHANGED <<context, project, cache, calls, overlap>>

ImportEnd(c) ==
    /\ At(c, "import")
    /\ Return(c)
    /\ UNCHANGED <<context, project, store, overlap>>

-----------------------------------------------------------------------------
(* get_file_metadata: cache, index, cache again, one lock after another.   *)

ReadCache(c, p) ==
    /\ At(c, "idle")
    /\ cache' = Get(cache, p)
    /\ IF Cached(cache, p)
       THEN UNCHANGED <<pc, path>>
       ELSE Goto(c, "missed") /\ path' = [path EXCEPT ![c] = p]
    /\ UNCHANGED <<context, project, rows, index, versions, arg, entry, root, answer,
                   overlap, torn>>

ReadIndex(c) ==
    /\ At(c, "missed")
    /\ IF path[c] \in DOMAIN index
       THEN /\ Goto(c, "found")
            /\ entry' = [entry EXCEPT ![c] = index[path[c]]]
            /\ UNCHANGED <<arg, path, root, answer, torn>>
       ELSE Return(c)
    /\ UNCHANGED <<context, project, store, overlap>>

\* Faulty variant of FillCache: nothing is evicted.
FillCacheUnbounded(c) ==
    /\ At(c, "found")
    /\ cache' = Put(cache, path[c], entry[c], Cardinality(Paths))
    /\ Return(c)
    /\ UNCHANGED <<context, project, rows, index, versions, overlap>>

FillCache(c) ==
    /\ At(c, "found")
    /\ cache' = Put(cache, path[c], entry[c], Capacity)
    /\ Return(c)
    /\ UNCHANGED <<context, project, rows, index, versions, overlap>>

-----------------------------------------------------------------------------
(* search. *)

\* Without an active project there is an empty answer at once.
SearchBegin(c) ==
    /\ At(c, "idle")
    /\ context # NoProject
    /\ Goto(c, "admitted")
    /\ UNCHANGED <<context, project, store, arg, path, entry, root, answer, overlap, torn>>

\* All projects are searched, or the engine's, or those of a language or
\* framework, by default the engine's project's own.  Except for a search of all
\* it is an error if there is no project yet: the first set_project is half done.
SearchScope(c, scope) ==
    /\ At(c, "admitted")
    /\ IF scope = Projects \/ project # NoProject
       THEN /\ Goto(c, "querying")
            /\ answer' = [answer EXCEPT ![c] = scope \X {NoProject}]
            /\ UNCHANGED <<arg, path, entry, root, torn>>
       ELSE Return(c)
    /\ UNCHANGED <<context, project, store, overlap>>

\* The records of the scope, or a database error.
SearchQuery(c) ==
    /\ At(c, "querying")
    /\ \/ /\ Goto(c, "rooting")
          /\ answer' = [answer EXCEPT ![c] = {r \in @ : r[1] \in rows}]
          /\ UNCHANGED <<arg, path, entry, root, torn>>
       \/ Return(c)
    /\ UNCHANGED <<context, project, store, overlap>>

\* Faulty variant of SearchRoot: the root is taken from the engine's context.
SearchRootOfContext(c) ==
    /\ At(c, "rooting")
    /\ root' = [root EXCEPT ![c] = context]
    /\ Goto(c, "naming")
    /\ UNCHANGED <<context, project, store, arg, path, entry, answer, overlap, torn>>

SearchRoot(c) ==
    /\ At(c, "rooting")
    /\ root' = [root EXCEPT ![c] = project]
    /\ Goto(c, "naming")
    /\ UNCHANGED <<context, project, store, arg, path, entry, answer, overlap, torn>>

\* The project that is active by now gets the root read before; the roots of
\* the others come from their rows, or stay empty when that query fails.
SearchName(c) ==
    /\ At(c, "naming")
    /\ \E others \in {Projects, {}} :
          answer' = [answer EXCEPT ![c] =
              {<<r[1], IF r[1] = project THEN root[c]
                       ELSE IF r[1] \in others THEN r[1] ELSE NoProject>> : r \in @}]
    /\ Goto(c, "answered")
    /\ UNCHANGED <<context, project, store, arg, path, entry, root, overlap, torn>>

SearchReturn(c) ==
    /\ At(c, "answered")
    /\ Return(c)
    /\ UNCHANGED <<context, project, store, overlap>>

-----------------------------------------------------------------------------
Step(c) ==
    \/ \E p \in Projects : SetContext(c, p)
    \/ SetIndexProject(c) \/ ClearProject(c)
    \/ CountBegin(c) \/ CountQuery(c) \/ CountReturn(c)
    \/ ImportBegin(c) \/ ImportEnd(c)
    \/ \E p \in Paths : ImportFile(c, p) \/ ReadCache(c, p)
    \/ ReadIndex(c) \/ FillCache(c)
    \/ SearchBegin(c) \/ SearchQuery(c) \/ SearchRoot(c) \/ SearchName(c) \/ SearchReturn(c)
    \/ \E scope \in SUBSET Projects : SearchScope(c, scope)

Next == \E c \in Callers : Step(c)

Spec == Init /\ [][Next]_vars
-----------------------------------------------------------------------------
\* When no set_project is at work, the context and the index engine have the
\* same project, or the context was cleared: unless two calls of set_project
\* have crossed, a search is about the project the engine reports.
SettledProjectsAgree ==
    ~overlap /\ Setters = {} => context \in {NoProject, project}

\* A search names a project's own root or none, unless the active project was
\* changed between the two reads of one search.
RootsAreRight ==
    \A c \in Callers : At(c, "answered") /\ ~torn[c] =>
        \A r \in answer[c] : r[2] \in {r[1], NoProject}

\* The count that a caller is about to get is of the project that is active.
CountsTheActiveProject ==
    \A c \in Callers : At(c, "counted") => arg[c] = context

\* Callers fill the cache with entries they read before others imported, used
\* or evicted some: still it has room for its capacity only, orders what it has,
\* and what it says of a path the index said before or says now.
CacheIsSound ==
    /\ Cardinality(DOMAIN cache.map) <= Capacity
    /\ ToSet(cache.order) = DOMAIN cache.map /\ IsInjective(cache.order)
    /\ \A p \in DOMAIN cache.map :
           /\ p \in DOMAIN index
           /\ \/ cache.map[p] = index[p]
              \/ cache.map[p].version < index[p].version

\* The cache becomes new by a use of path p.
IsUsed(new, p) == IsUse(cache, new, p, Capacity)

\* Whatever callers do at the same time, the cache changes by uses only: a hit or a
\* path that is filled in comes to the front, and only a full cache gives up a path,
\* the least recently used, for one that it lacks (get, put).
LeastRecentlyUsed ==
    [][/\ cache' # cache => \E p \in Paths : IsUsed(cache', p)
       /\ \A c \in Callers, p \in Paths :
              ReadCache(c, p) /\ Cached(cache, p) => IsUsed(cache', p)
       /\ \A c \in Callers : FillCache(c) => IsUsed(cache', path[c])]_vars

\* "Get metadata for a specific file from the runtime index": an entry that is
\* cached is the one in the index.  An import that replaces it leaves the cache
\* as it is, and so does another project's file of the same relative path.
CacheShowsTheIndex ==
    \A p \in DOMAIN cache.map : cache.map[p] = index[p]

\* context.rs: "components always read a consistent snapshot".
ProjectsAgree == Setters = {} => context \in {NoProject, project}
=============================================================================
