------------------------- MODULE IndexEngineProofs -------------------------
(***************************************************************************)
(* Which project the engine works on, for any callers, projects and paths: *)
(* the two copies agree while no set_project crosses another, a count is   *)
(* of the active project, a root is its project's unless a read was torn,  *)
(* and the cache repeats what the runtime index says or said.              *)
(***************************************************************************)
EXTENDS IndexEngine, AlgorithmProofs

\* The values that TypeOK only describes at their arguments are functions.
Shapes ==
    /\ entry = [c \in Callers |-> entry[c]]
    /\ answer = [c \in Callers |-> answer[c]]
    /\ cache = [map |-> cache.map, order |-> cache.order]

\* While no set_project has crossed another there is one at most, and what the
\* context says is its project.
OneSetter ==
    ~overlap =>
        /\ \A c, d \in Setters : c = d
        /\ \A c \in Setters : context \in {NoProject, arg[c]}

\* Who holds the context's lock has read the context.
HoldersHaveRead == \A c \in Holders : arg[c] = context

\* The root read for a search is still the engine's.
RootIsFresh == \A c \in Callers : At(c, "naming") /\ ~torn[c] => root[c] = project

\* What a caller has found, and what is cached, of a path is in the index, or
\* a newer entry has replaced it there.
Follows(p, e) ==
    /\ p \in DOMAIN index
    /\ e = index[p] \/ e.version < index[p].version

CacheFollowsTheIndex == \A p \in DOMAIN cache.map : Follows(p, cache.map[p])

FoundFollowsTheIndex == \A c \in Callers : At(c, "found") => Follows(path[c], entry[c])

CacheIsOrdered == IsOrdered(cache, Capacity)

VersionsAreCounted == \A p \in DOMAIN index : index[p].version <= versions

FoundIsAnEntry == \A c \in Callers : At(c, "found") => entry[c] \in Entries

\* An import is of a project.
ImportsHaveAProject == \A c \in Callers : At(c, "import") => arg[c] \in Projects

IInv ==
    /\ TypeOK /\ Shapes /\ FoundIsAnEntry /\ ImportsHaveAProject
    /\ OneSetter /\ SettledProjectsAgree
    /\ HoldersHaveRead
    /\ RootIsFresh /\ RootsAreRight
    /\ CacheFollowsTheIndex /\ FoundFollowsTheIndex /\ VersionsAreCounted
    /\ CacheIsOrdered

-----------------------------------------------------------------------------
(* One step of one caller.                                                 *)

\* What no step but those of set_project, clear_project, import and the cache do.
Locals(c) ==
    \/ CountBegin(c) \/ CountQuery(c) \/ CountReturn(c)
    \/ ImportBegin(c) \/ ImportEnd(c) \/ ReadIndex(c)
    \/ SearchBegin(c) \/ SearchQuery(c) \/ SearchRoot(c) \/ SearchName(c) \/ SearchReturn(c)
    \/ \E scope \in SUBSET Projects : SearchScope(c, scope)

Caching(c) == FillCache(c) \/ \E p \in Paths : ReadCache(c, p)

LEMMA StepCases ==
    ASSUME NEW c \in Callers, Step(c)
    PROVE  \/ \E p \in Projects : SetContext(c, p)
           \/ SetIndexProject(c) \/ ClearProject(c)
           \/ \E p \in Paths : ImportFile(c, p)
           \/ Caching(c) \/ Locals(c)
  BY DEF Step, Caching, Locals

\* A step changes the locals of its own caller only.
Frame(c) ==
    \A d \in Callers \ {c} :
        /\ pc'[d] = pc[d] /\ arg'[d] = arg[d] /\ path'[d] = path[d]
        /\ entry'[d] = entry[d] /\ root'[d] = root[d] /\ answer'[d] = answer[d]

LEMMA GotoMoves ==
    ASSUME TypeOK, NEW c \in Callers, NEW step \in Steps, Goto(c, step)
    PROVE  /\ pc' \in [Callers -> Steps] /\ pc'[c] = step
           /\ \A d \in Callers \ {c} : pc'[d] = pc[d]
  BY DEF TypeOK, Goto

LEMMA ReturnClears ==
    ASSUME TypeOK, Shapes, NEW c \in Callers, Return(c)
    PROVE  /\ Frame(c) /\ pc' \in [Callers -> Steps] /\ pc'[c] = "idle"
           /\ arg' \in [Callers -> Active] /\ root' \in [Callers -> Active]
           /\ path' \in [Callers -> Paths \cup {NoPath}] /\ torn' \in [Callers -> BOOLEAN]
           /\ entry' = [d \in Callers |-> entry'[d]] /\ entry'[c] = NoEntry
           /\ answer' = [d \in Callers |-> answer'[d]] /\ answer'[c] = {}
           /\ \A d \in Callers \ {c} : torn'[d] = torn[d]
<1>1. "idle" \in Steps
  BY DEF Steps
<1>2. /\ pc' \in [Callers -> Steps] /\ pc'[c] = "idle"
      /\ \A d \in Callers \ {c} : pc'[d] = pc[d]
  BY <1>1, GotoMoves DEF Return
<1>3. path[c] \in Paths \cup {NoPath}
  BY DEF TypeOK
<1>4. /\ arg' \in [Callers -> Active] /\ root' \in [Callers -> Active]
      /\ path' \in [Callers -> Paths \cup {NoPath}] /\ torn' \in [Callers -> BOOLEAN]
  BY <1>3 DEF TypeOK, Return, Active
<1>5. /\ entry' = [d \in Callers |-> IF d = c THEN NoEntry ELSE entry[d]]
      /\ answer' = [d \in Callers |-> IF d = c THEN {} ELSE answer[d]]
  BY DEF Shapes, Return
<1>6. \A d \in Callers \ {c} :
         arg'[d] = arg[d] /\ root'[d] = root[d] /\ path'[d] = path[d] /\ torn'[d] = torn[d]
  BY DEF TypeOK, Return
<1> QED
  BY <1>2, <1>4, <1>5, <1>6 DEF Frame

-----------------------------------------------------------------------------
(* The steps that change nothing but their caller's locals.                *)

LocalTypes ==
    /\ pc' \in [Callers -> Steps]
    /\ arg' \in [Callers -> Active] /\ root' \in [Callers -> Active]
    /\ path' \in [Callers -> Paths \cup {NoPath}] /\ torn' \in [Callers -> BOOLEAN]
    /\ entry' = [d \in Callers |-> entry'[d]]
    /\ answer' = [d \in Callers |-> answer'[d]]

\* What a search answers: pairs of a project and, for the project that is active
\* by now, the root that was read, for others their own or none.
Named(c) ==
    \A r \in answer'[c] : r[2] \in {r[1], NoProject} \/ (r[1] = project /\ r[2] = root[c])

LocalEffect(c) ==
    /\ entry'[c] \in Entries \cup {NoEntry} /\ answer'[c] \subseteq Projects \X Active
    /\ \A d \in Callers \ {c} : torn'[d] = torn[d]
    /\ pc[c] # "set" /\ pc'[c] # "set"
    /\ pc'[c] \in {"count", "counted"} =>
           arg'[c] = context \/ (pc[c] \in {"count", "counted"} /\ arg'[c] = arg[c])
    /\ pc'[c] = "import" => arg'[c] \in Projects
    /\ pc'[c] = "naming" => root'[c] = project
    /\ pc'[c] = "answered" => pc[c] = "naming" /\ torn'[c] = torn[c] /\ Named(c)
    /\ pc'[c] = "found" => path'[c] \in DOMAIN index /\ entry'[c] = index[path'[c]]

LEMMA LocalsMove ==
    ASSUME TypeOK, Shapes, NEW c \in Callers, Locals(c)
    PROVE  /\ UNCHANGED <<context, project, store, overlap>>
           /\ Frame(c) /\ LocalTypes /\ LocalEffect(c)
<1> DEFINE P == /\ UNCHANGED <<context, project, store, overlap>>
                /\ Frame(c) /\ LocalTypes /\ LocalEffect(c)
<1>1. /\ pc \in [Callers -> Steps]
      /\ arg \in [Callers -> Active] /\ root \in [Callers -> Active]
      /\ path \in [Callers -> Paths \cup {NoPath}] /\ torn \in [Callers -> BOOLEAN]
      /\ context \in Active /\ project \in Active
      /\ entry = [d \in Callers |-> entry[d]] /\ answer = [d \in Callers |-> answer[d]]
      /\ entry[c] \in Entries \cup {NoEntry} /\ answer[c] \subseteq Projects \X Active
      /\ NoProject \in Active
  BY DEF TypeOK, Shapes, Active
<1>2. ASSUME Return(c), pc[c] # "set", UNCHANGED <<context, project, store, overlap>>
      PROVE  P
  BY <1>2, ReturnClears DEF LocalTypes, LocalEffect
<1>3. ASSUME NEW step \in {"count", "import", "admitted"}, Goto(c, step), pc[c] # "set",
             arg' = arg \/ \E p \in Active : arg' = [arg EXCEPT ![c] = p],
             step = "count" => arg'[c] = context,
             step = "import" => arg'[c] \in Projects,
             UNCHANGED <<context, project, store, path, entry, root, answer, overlap, torn>>
      PROVE  P
  <2>1. step \in Steps
    BY DEF Steps
  <2>2. /\ pc' \in [Callers -> Steps] /\ pc'[c] = step
        /\ \A d \in Callers \ {c} : pc'[d] = pc[d]
    BY <1>3, <2>1, GotoMoves
  <2>3. arg' \in [Callers -> Active] /\ \A d \in Callers \ {c} : arg'[d] = arg[d]
    BY <1>1, <1>3
  <2> QED
    BY <1>1, <1>3, <2>2, <2>3 DEF Frame, LocalTypes, LocalEffect
<1>4. CASE CountBegin(c)
  BY <1>1, <1>3, <1>4 DEF CountBegin, At
<1>5. CASE CountQuery(c)
  <2>1. CASE Return(c)
    BY <1>2, <1>5, <2>1 DEF CountQuery, At
  <2>2. CASE Goto(c, "counted") /\ UNCHANGED <<arg, path, entry, root, answer, torn>>
    <3>1. "counted" \in Steps
      BY DEF Steps
    <3>2. /\ pc' \in [Callers -> Steps] /\ pc'[c] = "counted"
          /\ \A d \in Callers \ {c} : pc'[d] = pc[d]
      BY <2>2, <3>1, GotoMoves
    <3> QED
      BY <1>1, <1>5, <2>2, <3>2 DEF CountQuery, At, Frame, LocalTypes, LocalEffect
  <2> QED
    BY <1>5, <2>1, <2>2 DEF CountQuery
<1>6. CASE CountReturn(c) \/ ImportEnd(c) \/ SearchReturn(c)
  BY <1>2, <1>6 DEF CountReturn, ImportEnd, SearchReturn, At
<1>7. CASE ImportBegin(c)
  BY <1>1, <1>3, <1>7 DEF ImportBegin, At, Active
<1>8. CASE ReadIndex(c)
  <2>1. CASE path[c] \in DOMAIN index
    <3>1. "found" \in Steps
      BY DEF Steps
    <3>2. /\ pc' \in [Callers -> Steps] /\ pc'[c] = "found"
          /\ \A d \in Callers \ {c} : pc'[d] = pc[d]
      BY <1>8, <2>1, <3>1, GotoMoves DEF ReadIndex
    <3>3. /\ entry' = [d \in Callers |-> IF d = c THEN index[path[c]] ELSE entry[d]]
          /\ index[path[c]] \in Entries
      BY <1>8, <2>1, <1>1 DEF ReadIndex, TypeOK
    <3> QED
      BY <1>1, <1>8, <2>1, <3>2, <3>3 DEF ReadIndex, At, Frame, LocalTypes, LocalEffect
  <2> QED
    BY <1>2, <1>8, <2>1 DEF ReadIndex, At
<1>9. CASE SearchBegin(c)
  BY <1>1, <1>3, <1>9 DEF SearchBegin, At
<1>10. ASSUME NEW S \in SUBSET (Projects \X Active), NEW step \in {"querying", "rooting"},
              pc[c] # "set", Goto(c, step), answer' = [answer EXCEPT ![c] = S],
              UNCHANGED <<context, project, store, overlap, arg, path, entry, root, torn>>
       PROVE  P
  <2>1. step \in Steps
    BY DEF Steps
  <2>2. /\ pc' \in [Callers -> Steps] /\ pc'[c] = step
        /\ \A d \in Callers \ {c} : pc'[d] = pc[d]
    BY <1>10, <2>1, GotoMoves
  <2>3. answer' = [d \in Callers |-> IF d = c THEN S ELSE answer[d]]
    BY <1>1, <1>10
  <2> QED
    BY <1>1, <1>10, <2>2, <2>3 DEF Frame, LocalTypes, LocalEffect
<1>11. ASSUME NEW scope \in SUBSET Projects, SearchScope(c, scope)
       PROVE  P
  <2>1. scope \X {NoProject} \in SUBSET (Projects \X Active)
    BY <1>1
  <2>2. CASE scope = Projects \/ project # NoProject
    BY <1>10, <1>11, <2>1, <2>2 DEF SearchScope, At
  <2> QED
    BY <1>2, <1>11, <2>2 DEF SearchScope, At
<1>12. CASE SearchQuery(c)
  <2> DEFINE S == {r \in answer[c] : r[1] \in rows}
  <2>1. CASE Return(c)
    BY <1>2, <1>12, <2>1 DEF SearchQuery, At
  <2>2. CASE /\ Goto(c, "rooting") /\ UNCHANGED <<arg, path, entry, root, torn>>
             /\ answer' = [answer EXCEPT ![c] = S]
    <3>1. S \in SUBSET (Projects \X Active)
      BY <1>1
    <3> QED
      BY <1>10, <1>12, <2>2, <3>1 DEF SearchQuery, At
  <2> QED
    BY <1>12, <2>1, <2>2 DEF SearchQuery
<1>13. CASE SearchRoot(c)
  <2>1. "naming" \in Steps
    BY DEF Steps
  <2>2. /\ pc' \in [Callers -> Steps] /\ pc'[c] = "naming"
        /\ \A d \in Callers \ {c} : pc'[d] = pc[d]
    BY <1>13, <2>1, GotoMoves DEF SearchRoot
  <2>3. /\ root' \in [Callers -> Active] /\ root'[c] = project
        /\ \A d \in Callers \ {c} : root'[d] = root[d]
    BY <1>1, <1>13 DEF SearchRoot
  <2> QED
    BY <1>1, <1>13, <2>2, <2>3 DEF SearchRoot, At, Frame, LocalTypes, LocalEffect
<1>14. CASE SearchName(c)
  <2>1. PICK others \in {Projects, {}} :
          answer' = [answer EXCEPT ![c] =
              {<<r[1], IF r[1] = project THEN root[c]
                       ELSE IF r[1] \in others THEN r[1] ELSE NoProject>> : r \in @}]
    BY <1>14 DEF SearchName
  <2> DEFINE Name(r) == IF r[1] = project THEN root[c]
                        ELSE IF r[1] \in others THEN r[1] ELSE NoProject
             S == {<<r[1], Name(r)>> : r \in answer[c]}
  <2>2. answer' = [d \in Callers |-> IF d = c THEN S ELSE answer[d]]
    BY <1>1, <2>1
  <2>3. \A r \in answer[c] : r[1] \in Projects /\ Name(r) \in Active
    BY <1>1 DEF Active
  <2>4. S \subseteq Projects \X Active
    BY <2>3
  <2>5. \A r \in S : r[2] \in {r[1], NoProject} \/ (r[1] = project /\ r[2] = root[c])
    OBVIOUS
  <2>6. "answered" \in Steps
    BY DEF Steps
  <2>7. /\ pc' \in [Callers -> Steps] /\ pc'[c] = "answered"
        /\ \A d \in Callers \ {c} : pc'[d] = pc[d]
    BY <1>14, <2>6, GotoMoves DEF SearchName
  <2>8. answer'[c] = S /\ \A d \in Callers \ {c} : answer'[d] = answer[d]
    BY <2>2
  <2>9. Frame(c) /\ LocalTypes
    <3> HIDE DEF S
    <3> QED
      BY <1>1, <1>14, <2>2, <2>7, <2>8 DEF SearchName, Frame, LocalTypes
  <2>10. Named(c)
    BY <2>5, <2>8 DEF Named
  <2>11. LocalEffect(c)
    <3> HIDE DEF S
    <3> QED
      BY <1>1, <1>14, <2>4, <2>7, <2>8, <2>10 DEF SearchName, At, LocalEffect
  <2> QED
    BY <1>14, <2>9, <2>11 DEF SearchName
<1> QED
  BY <1>4, <1>5, <1>6, <1>7, <1>8, <1>9, <1>11, <1>12, <1>13, <1>14 DEF Locals

-----------------------------------------------------------------------------
(* The steps that change what the callers share.                           *)

LEMMA SettersMove ==
    ASSUME TypeOK, NEW c \in Callers,
           (\E p \in Projects : SetContext(c, p)) \/ SetIndexProject(c)
    PROVE  /\ pc' \in [Callers -> Steps] /\ arg' \in [Callers -> Active]
           /\ torn' \in [Callers -> BOOLEAN] /\ Frame(c)
           /\ UNCHANGED <<store, path, entry, root, answer>>
<1>1. "idle" \in Steps /\ "set" \in Steps
  BY DEF Steps
<1>2. ASSUME NEW p \in Projects, SetContext(c, p)
      PROVE  /\ pc' \in [Callers -> Steps] /\ arg' \in [Callers -> Active]
             /\ torn' \in [Callers -> BOOLEAN] /\ Frame(c)
             /\ UNCHANGED <<store, path, entry, root, answer>>
  <2>1. pc' \in [Callers -> Steps] /\ \A d \in Callers \ {c} : pc'[d] = pc[d]
    BY <1>1, <1>2, GotoMoves DEF SetContext
  <2> QED
    BY <1>2, <2>1 DEF TypeOK, SetContext, Frame, Active
<1>3. ASSUME SetIndexProject(c)
      PROVE  /\ pc' \in [Callers -> Steps] /\ arg' \in [Callers -> Active]
             /\ torn' \in [Callers -> BOOLEAN] /\ Frame(c)
             /\ UNCHANGED <<store, path, entry, root, answer>>
  <2>1. pc' \in [Callers -> Steps] /\ \A d \in Callers \ {c} : pc'[d] = pc[d]
    BY <1>1, <1>3, GotoMoves DEF SetIndexProject
  <2>2. Tear \in [Callers -> BOOLEAN]
    BY DEF TypeOK, Tear
  <2> QED
    BY <1>3, <2>1, <2>2 DEF TypeOK, SetIndexProject, Frame, Active
<1> QED
  BY <1>2, <1>3

\* A call of get_file_metadata uses the cache or fills it with what it has found.
LEMMA CachingMoves ==
    ASSUME TypeOK, Shapes, NEW c \in Callers, Caching(c)
    PROVE  /\ UNCHANGED <<context, project, rows, index, versions, overlap>>
           /\ Frame(c) /\ LocalTypes
           /\ pc[c] # "set" /\ pc'[c] \in {"idle", "missed"} /\ torn'[c] \in BOOLEAN
           /\ entry'[c] \in Entries \cup {NoEntry} /\ answer'[c] \subseteq Projects \X Active
           /\ \A d \in Callers \ {c} : torn'[d] = torn[d]
           /\ cache' = [map |-> cache'.map, order |-> cache'.order]
           /\ \A p \in DOMAIN cache'.map :
                  \/ p \in DOMAIN cache.map /\ cache'.map[p] = cache.map[p]
                  \/ p = path[c] /\ pc[c] = "found" /\ cache'.map[p] = entry[c]
<1>1. CASE FillCache(c)
  <2>1. /\ cache' = [map |-> cache'.map, order |-> cache'.order]
        /\ \A p \in DOMAIN cache'.map :
               \/ p \in DOMAIN cache.map /\ cache'.map[p] = cache.map[p]
               \/ p = path[c] /\ cache'.map[p] = entry[c]
    <3>1. cache' = Put(cache, path[c], entry[c], Capacity)
      BY <1>1 DEF FillCache
    <3> QED
      BY <3>1, PutBinds DEF Shapes, IsCache
  <2>2. Return(c)
    BY <1>1 DEF FillCache
  <2> QED
    BY <1>1, <2>1, <2>2, ReturnClears DEF FillCache, At, LocalTypes
<1>2. ASSUME NEW p \in Paths, ReadCache(c, p)
      PROVE  /\ UNCHANGED <<context, project, rows, index, versions, overlap>>
             /\ Frame(c) /\ LocalTypes
             /\ pc[c] # "set" /\ pc'[c] \in {"idle", "missed"} /\ torn'[c] \in BOOLEAN
             /\ entry'[c] \in Entries \cup {NoEntry} /\ answer'[c] \subseteq Projects \X Active
             /\ \A d \in Callers \ {c} : torn'[d] = torn[d]
             /\ cache' = [map |-> cache'.map, order |-> cache'.order]
             /\ cache'.map = cache.map
  <2>1. cache' = [map |-> cache'.map, order |-> cache'.order] /\ cache'.map = cache.map
    <3>1. cache' = Get(cache, p)
      BY <1>2 DEF ReadCache
    <3> QED
      BY <3>1, GetKeepsTheMap DEF Shapes, IsCache
  <2>2. /\ pc' \in [Callers -> Steps] /\ pc'[c] \in {"idle", "missed"}
        /\ \A d \in Callers \ {c} : pc'[d] = pc[d]
    <3>1. "missed" \in Steps
      BY DEF Steps
    <3> QED
      BY <1>2, <3>1, GotoMoves DEF ReadCache, At, TypeOK
  <2>3. path' \in [Callers -> Paths \cup {NoPath}] /\ \A d \in Callers \ {c} : path'[d] = path[d]
    BY <1>2 DEF ReadCache, TypeOK
  <2> QED
    BY <1>2, <2>1, <2>2, <2>3 DEF ReadCache, At, TypeOK, Shapes, Frame, LocalTypes
<1> QED
  BY <1>1, <1>2 DEF Caching

\* A file is imported with a version that no entry has.
LEMMA ImportMoves ==
    ASSUME TypeOK, NEW c \in Callers, NEW p \in Paths, ImportFile(c, p)
    PROVE  /\ UNCHANGED <<context, project, cache, calls, overlap>>
           /\ rows' = rows \cup {arg[c]}
           /\ versions' = versions + 1 /\ versions' \in 0 .. MaxVersions
           /\ DOMAIN index' = DOMAIN index \cup {p}
           /\ index'[p] = [project |-> arg[c], version |-> versions']
           /\ \A q \in DOMAIN index \ {p} : index'[q] = index[q]
  BY IndexEngineAssumption DEF TypeOK, ImportFile, Bind, Active

-----------------------------------------------------------------------------
(* The invariant is kept.                                                  *)

LEMMA KeepsTypes ==
    ASSUME IInv, NEW c \in Callers, Step(c)
    PROVE  TypeOK' /\ Shapes' /\ FoundIsAnEntry' /\ ImportsHaveAProject'
<1> USE DEF IInv
<1>1. CASE (\E p \in Projects : SetContext(c, p)) \/ SetIndexProject(c)
  <2>1. context' \in Active /\ project' \in Active /\ overlap' \in BOOLEAN
    BY <1>1 DEF TypeOK, SetContext, SetIndexProject, Active
  <2>2. pc'[c] \in {"set", "idle"}
    <3>1. "idle" \in Steps /\ "set" \in Steps
      BY DEF Steps
    <3> QED
      BY <1>1, <3>1, GotoMoves DEF SetContext, SetIndexProject
  <2>3. /\ pc' \in [Callers -> Steps] /\ arg' \in [Callers -> Active]
        /\ torn' \in [Callers -> BOOLEAN] /\ Frame(c)
        /\ UNCHANGED <<store, path, entry, root, answer>>
    BY <1>1, SettersMove
  <2>4. TypeOK' /\ Shapes'
    BY <2>1, <2>3 DEF TypeOK, Shapes, store
  <2> QED
    BY <2>2, <2>3, <2>4 DEF FoundIsAnEntry, ImportsHaveAProject, At, Frame, store
<1>2. CASE ClearProject(c)
  BY <1>2 DEF ClearProject, TypeOK, Shapes, FoundIsAnEntry, ImportsHaveAProject, At,
              Active, store, calls
<1>3. ASSUME NEW p \in Paths, ImportFile(c, p)
      PROVE  TypeOK' /\ Shapes' /\ FoundIsAnEntry' /\ ImportsHaveAProject'
  <2>1. arg[c] \in Projects
    BY <1>3 DEF ImportsHaveAProject, ImportFile
  <2>2. /\ UNCHANGED <<context, project, cache, calls, overlap>>
        /\ rows' \subseteq Projects
        /\ versions' \in 0 .. MaxVersions /\ versions' # 0
        /\ DOMAIN index' = DOMAIN index \cup {p}
        /\ index'[p] = [project |-> arg[c], version |-> versions']
        /\ \A q \in DOMAIN index \ {p} : index'[q] = index[q]
    <3>1. /\ UNCHANGED <<context, project, cache, calls, overlap>>
          /\ rows' = rows \cup {arg[c]} /\ versions' = versions + 1
          /\ versions' \in 0 .. MaxVersions
          /\ DOMAIN index' = DOMAIN index \cup {p}
          /\ index'[p] = [project |-> arg[c], version |-> versions']
          /\ \A q \in DOMAIN index \ {p} : index'[q] = index[q]
      BY <1>3, ImportMoves
    <3>2. rows' \subseteq Projects
      BY <2>1, <3>1 DEF TypeOK
    <3>3. versions' # 0
      BY <3>1, IndexEngineAssumption DEF TypeOK
    <3> QED
      BY <3>1, <3>2, <3>3
  <2>3. versions' \in 1 .. MaxVersions
    BY <2>2, IndexEngineAssumption
  <2>4. index'[p] \in Entries
    BY <2>1, <2>2, <2>3 DEF Entries
  <2>5. DOMAIN index' \subseteq Paths /\ \A q \in DOMAIN index' : index'[q] \in Entries
    BY <2>2, <2>4 DEF TypeOK
  <2> QED
    BY <2>2, <2>5 DEF TypeOK, Shapes, FoundIsAnEntry, ImportsHaveAProject, At, calls
<1>4. CASE Caching(c)
  <2>1. /\ UNCHANGED <<context, project, rows, index, versions, overlap>>
        /\ Frame(c) /\ LocalTypes
        /\ pc'[c] \in {"idle", "missed"}
        /\ entry'[c] \in Entries \cup {NoEntry} /\ answer'[c] \subseteq Projects \X Active
        /\ cache' = [map |-> cache'.map, order |-> cache'.order]
        /\ \A p \in DOMAIN cache'.map :
               \/ p \in DOMAIN cache.map /\ cache'.map[p] = cache.map[p]
               \/ p = path[c] /\ pc[c] = "found" /\ cache'.map[p] = entry[c]
    BY <1>4, CachingMoves
  <2>2. \A p \in DOMAIN cache'.map : p \in Paths /\ cache'.map[p] \in Entries
    <3>1. pc[c] = "found" => path[c] \in Paths /\ entry[c] \in Entries
      BY DEF TypeOK, FoundIsAnEntry, FoundFollowsTheIndex, Follows, At
    <3> QED
      BY <2>1, <3>1 DEF TypeOK
  <2>3. TypeOK'
    BY <2>1, <2>2 DEF TypeOK, Frame, LocalTypes
  <2> QED
    BY <2>1, <2>3 DEF Shapes, FoundIsAnEntry, ImportsHaveAProject, At, Frame, LocalTypes
<1>5. CASE Locals(c)
  <2>1. /\ UNCHANGED <<context, project, store, overlap>>
        /\ Frame(c) /\ LocalTypes /\ LocalEffect(c)
    BY <1>5, LocalsMove
  <2>2. TypeOK'
    BY <2>1 DEF TypeOK, Frame, LocalTypes, LocalEffect, store
  <2>3. FoundIsAnEntry'
    BY <2>1 DEF TypeOK, FoundIsAnEntry, At, Frame, LocalEffect, store
  <2> QED
    BY <2>1, <2>2, <2>3 DEF Shapes, ImportsHaveAProject, At, Frame, LocalTypes, LocalEffect,
                            store
<1> QED
  BY <1>1, <1>2, <1>3, <1>4, <1>5, StepCases

LEMMA KeepsSettled ==
    ASSUME IInv, NEW c \in Callers, Step(c)
    PROVE  OneSetter' /\ SettledProjectsAgree'
<1> USE DEF IInv
<1>1. "idle" \in Steps /\ "set" \in Steps
  BY DEF Steps
<1>2. ASSUME NEW p \in Projects, SetContext(c, p)
      PROVE  OneSetter' /\ SettledProjectsAgree'
  <2>1. /\ \A d \in Callers \ {c} : pc'[d] = pc[d] /\ arg'[d] = arg[d]
        /\ pc'[c] = "set" /\ arg'[c] = p
        /\ context' = p /\ overlap' = (overlap \/ Setters # {})
    BY <1>1, <1>2, SettersMove, GotoMoves DEF SetContext, Frame, TypeOK
  <2>2. ~overlap' => Setters' = {c}
    BY <2>1 DEF Setters, TypeOK
  <2> QED
    BY <2>1, <2>2 DEF OneSetter, SettledProjectsAgree
<1>3. CASE SetIndexProject(c)
  <2>1. /\ \A d \in Callers \ {c} : pc'[d] = pc[d] /\ arg'[d] = arg[d]
        /\ pc'[c] = "idle" /\ pc[c] = "set"
        /\ UNCHANGED <<context, overlap>> /\ project' = arg[c]
    BY <1>1, <1>3, SettersMove, GotoMoves DEF SetIndexProject, Frame, At
  <2>2. c \in Setters /\ Setters' = Setters \ {c}
    BY <2>1 DEF Setters
  <2> QED
    BY <2>1, <2>2 DEF OneSetter, SettledProjectsAgree
<1>4. CASE ClearProject(c)
  BY <1>4 DEF ClearProject, OneSetter, SettledProjectsAgree, Setters, calls
<1>5. ASSUME UNCHANGED <<context, project, overlap>>, Frame(c), pc[c] # "set", pc'[c] # "set"
      PROVE  OneSetter' /\ SettledProjectsAgree'
  <2>1. Setters' = Setters /\ \A d \in Setters : arg'[d] = arg[d]
    BY <1>5 DEF Setters, Frame
  <2> QED
    BY <1>5, <2>1 DEF OneSetter, SettledProjectsAgree
<1>6. ASSUME NEW p \in Paths, ImportFile(c, p)
      PROVE  OneSetter' /\ SettledProjectsAgree'
  BY <1>6 DEF ImportFile, OneSetter, SettledProjectsAgree, Setters, calls
<1>7. CASE Caching(c)
  <2>1. pc[c] # "set" /\ pc'[c] \in {"idle", "missed"}
    BY <1>7, CachingMoves
  <2> QED
    BY <1>5, <1>7, <2>1, CachingMoves
<1>8. CASE Locals(c)
  BY <1>5, <1>8, LocalsMove DEF LocalEffect
<1> QED
  BY <1>2, <1>3, <1>4, <1>6, <1>7, <1>8, StepCases

LEMMA KeepsReads ==
    ASSUME IInv, NEW c \in Callers, Step(c)
    PROVE  HoldersHaveRead' /\ RootIsFresh' /\ RootsAreRight'
<1> USE DEF IInv
<1>1. "idle" \in Steps /\ "set" \in Steps
  BY DEF Steps
<1>2. ASSUME NEW p \in Projects, SetContext(c, p)
      PROVE  HoldersHaveRead' /\ RootIsFresh' /\ RootsAreRight'
  <2>1. Frame(c) /\ pc'[c] = "set" /\ UNCHANGED <<project, root, answer, torn>> /\ Holders = {}
    BY <1>1, <1>2, SettersMove, GotoMoves DEF SetContext
  <2>2. Holders' = {}
    BY <2>1 DEF Holders, Frame
  <2> QED
    BY <2>1, <2>2 DEF HoldersHaveRead, RootIsFresh, RootsAreRight, At, Frame
<1>3. CASE SetIndexProject(c)
  <2>1. Frame(c) /\ pc'[c] = "idle" /\ UNCHANGED <<context, root, answer>>
    BY <1>1, <1>3, SettersMove, GotoMoves DEF SetIndexProject
  <2>2. \A d \in Callers \ {c} : torn'[d] = (torn[d] \/ pc[d] = "naming")
    BY <1>3 DEF SetIndexProject, Tear
  <2>3. HoldersHaveRead'
    BY <2>1 DEF HoldersHaveRead, Holders, Frame
  <2> QED
    BY <2>1, <2>2, <2>3 DEF RootIsFresh, RootsAreRight, At, Frame
<1>4. CASE ClearProject(c)
  BY <1>4 DEF ClearProject, HoldersHaveRead, Holders, RootIsFresh, RootsAreRight, At, calls
<1>5. ASSUME NEW p \in Paths, ImportFile(c, p)
      PROVE  HoldersHaveRead' /\ RootIsFresh' /\ RootsAreRight'
  BY <1>5 DEF ImportFile, HoldersHaveRead, Holders, RootIsFresh, RootsAreRight, At, calls
<1>6. CASE Caching(c)
  <2>1. /\ UNCHANGED <<context, project>> /\ Frame(c) /\ pc'[c] \in {"idle", "missed"}
        /\ \A d \in Callers \ {c} : torn'[d] = torn[d]
    BY <1>6, CachingMoves
  <2> QED
    BY <2>1 DEF HoldersHaveRead, Holders, RootIsFresh, RootsAreRight, At, Frame
<1>7. CASE Locals(c)
  <2>1. UNCHANGED <<context, project>> /\ Frame(c) /\ LocalEffect(c)
    BY <1>7, LocalsMove
  <2>2. HoldersHaveRead'
    BY <2>1 DEF HoldersHaveRead, Holders, Frame, LocalEffect
  <2>3. RootIsFresh'
    BY <2>1 DEF RootIsFresh, At, Frame, LocalEffect
  <2>4. RootsAreRight'
    BY <2>1 DEF RootsAreRight, RootIsFresh, Named, At, Frame, LocalEffect
  <2> QED
    BY <2>2, <2>3, <2>4
<1> QED
  BY <1>2, <1>3, <1>4, <1>5, <1>6, <1>7, StepCases

LEMMA KeepsCache ==
    ASSUME IInv, NEW c \in Callers, Step(c)
    PROVE  CacheFollowsTheIndex' /\ FoundFollowsTheIndex' /\ VersionsAreCounted'
<1> USE DEF IInv
<1>1. CASE (\E p \in Projects : SetContext(c, p)) \/ SetIndexProject(c)
  <2>1. UNCHANGED <<store, path, entry>> /\ Frame(c)
    BY <1>1, SettersMove
  <2>2. pc'[c] # "found"
    <3>1. "idle" \in Steps /\ "set" \in Steps
      BY DEF Steps
    <3>2. pc'[c] \in {"set", "idle"}
      BY <1>1, <3>1, GotoMoves DEF SetContext, SetIndexProject
    <3> QED
      BY <3>2
  <2> QED
    BY <2>1, <2>2 DEF CacheFollowsTheIndex, FoundFollowsTheIndex, VersionsAreCounted,
                      Follows, At, Frame, store
<1>2. CASE ClearProject(c)
  BY <1>2 DEF ClearProject, CacheFollowsTheIndex, FoundFollowsTheIndex, VersionsAreCounted,
              Follows, At, store, calls
<1>3. ASSUME NEW p \in Paths, ImportFile(c, p)
      PROVE  CacheFollowsTheIndex' /\ FoundFollowsTheIndex' /\ VersionsAreCounted'
  <2>1. /\ UNCHANGED <<cache, calls>>
        /\ versions' = versions + 1 /\ versions \in Nat
        /\ DOMAIN index' = DOMAIN index \cup {p} /\ index'[p].version = versions'
        /\ \A q \in DOMAIN index \ {p} : index'[q] = index[q]
    <3>1. versions \in Nat
      BY IndexEngineAssumption DEF TypeOK
    <3>2. /\ UNCHANGED <<cache, calls>> /\ versions' = versions + 1
          /\ DOMAIN index' = DOMAIN index \cup {p}
          /\ index'[p] = [project |-> arg[c], version |-> versions']
          /\ \A q \in DOMAIN index \ {p} : index'[q] = index[q]
      BY <1>3, ImportMoves
    <3> QED
      BY <3>1, <3>2
  <2>2. \A q \in DOMAIN index : index[q].version \in Nat
    BY IndexEngineAssumption DEF TypeOK, Entries
  <2>3. ASSUME NEW q, NEW e, Follows(q, e), e.version \in Nat
        PROVE  Follows(q, e)'
    <3>1. e.version <= versions /\ q \in DOMAIN index
      BY <2>1, <2>2, <2>3 DEF Follows, VersionsAreCounted
    <3>2. q = p => e.version < index'[q].version
      BY <2>1, <2>3, <3>1
    <3> QED
      BY <2>1, <2>3, <3>2 DEF Follows
  <2>4. VersionsAreCounted'
    BY <2>1, <2>2 DEF VersionsAreCounted
  <2>5. CacheFollowsTheIndex'
    <3>1. \A q \in DOMAIN cache.map : cache.map[q].version \in Nat
      BY IndexEngineAssumption DEF TypeOK, Entries
    <3> QED
      BY <2>1, <2>3, <3>1 DEF CacheFollowsTheIndex
  <2>6. FoundFollowsTheIndex'
    <3>1. \A d \in Callers : At(d, "found") => entry[d].version \in Nat
      BY IndexEngineAssumption DEF FoundIsAnEntry, Entries
    <3> QED
      BY <2>1, <2>3, <3>1 DEF FoundFollowsTheIndex, At, calls
  <2> QED
    BY <2>4, <2>5, <2>6
<1>4. CASE Caching(c)
  <2>1. /\ UNCHANGED <<index, versions>> /\ Frame(c) /\ pc'[c] \in {"idle", "missed"}
        /\ \A p \in DOMAIN cache'.map :
               \/ p \in DOMAIN cache.map /\ cache'.map[p] = cache.map[p]
               \/ p = path[c] /\ pc[c] = "found" /\ cache'.map[p] = entry[c]
    BY <1>4, CachingMoves
  <2> QED
    BY <2>1 DEF CacheFollowsTheIndex, FoundFollowsTheIndex, VersionsAreCounted,
                Follows, At, Frame
<1>5. CASE Locals(c)
  <2>1. UNCHANGED store /\ Frame(c) /\ LocalEffect(c)
    BY <1>5, LocalsMove
  <2> QED
    BY <2>1 DEF CacheFollowsTheIndex, FoundFollowsTheIndex, VersionsAreCounted,
                Follows, At, Frame, LocalEffect, store
<1> QED
  BY <1>1, <1>2, <1>3, <1>4, <1>5, StepCases

-----------------------------------------------------------------------------
(* The order of the cache.                                                 *)

\* Only get_file_metadata changes the cache.
LEMMA CacheMoves ==
    ASSUME TypeOK, Shapes, NEW c \in Callers, Step(c)
    PROVE  \/ FillCache(c) \/ (\E p \in Paths : ReadCache(c, p))
           \/ cache' = cache
<1>1. ASSUME NEW p \in Projects, SetContext(c, p)
      PROVE  cache' = cache
  BY <1>1 DEF SetContext, store
<1>2. ASSUME NEW p \in Paths, ImportFile(c, p)
      PROVE  cache' = cache
  BY <1>2 DEF ImportFile
<1>3. ASSUME SetIndexProject(c) \/ ClearProject(c)
      PROVE  cache' = cache
  BY <1>3 DEF SetIndexProject, ClearProject, store
<1>4. ASSUME Locals(c)
      PROVE  cache' = cache
  BY <1>4, LocalsMove DEF store
<1> QED
  BY <1>1, <1>2, <1>3, <1>4, StepCases DEF Caching

LEMMA KeepsOrdered ==
    ASSUME IInv, NEW c \in Callers, Step(c)
    PROVE  CacheIsOrdered'
<1> USE DEF IInv
<1> IsCache(cache) /\ Capacity \in Nat \ {0}
  BY IndexEngineAssumption DEF Shapes, IsCache
<1>1. CASE FillCache(c)
  <2>1. cache' = Put(cache, path[c], entry[c], Capacity)
    BY <1>1 DEF FillCache
  <2> QED
    BY <2>1, PutKeepsOrdered DEF CacheIsOrdered, IsOrdered
<1>2. ASSUME NEW p \in Paths, ReadCache(c, p)
      PROVE  CacheIsOrdered'
  <2>1. cache' = Get(cache, p)
    BY <1>2 DEF ReadCache
  <2> QED
    BY <2>1, GetKeepsOrdered DEF CacheIsOrdered, IsOrdered
<1>3. CASE cache' = cache
  BY <1>3 DEF CacheIsOrdered
<1> QED
  BY <1>1, <1>2, <1>3, CacheMoves

-----------------------------------------------------------------------------
LEMMA InitIInv == Init => IInv
<1> SUFFICES ASSUME Init PROVE IInv
  OBVIOUS
<1>1. DOMAIN index = {} /\ DOMAIN cache.map = {}
  BY DEF Init, EmptyCache
<1>2. \A c \in Callers : pc[c] = "idle"
  BY DEF Init
<1>3. Setters = {} /\ Holders = {}
  BY <1>2 DEF Setters, Holders
<1>4. "idle" \in Steps /\ NoProject \in Active /\ 0 \in 0 .. MaxVersions
  BY IndexEngineAssumption DEF Steps, Active
<1>5. TypeOK
  BY <1>1, <1>4 DEF Init, TypeOK
<1>6. Shapes
  BY DEF Init, Shapes, EmptyCache
<1>7. CacheIsOrdered
  <2>1. cache.order = <<>> /\ cache.map = <<>>
    BY DEF Init, EmptyCache
  <2>2. Enumerates(cache.order, {})
    BY <2>1 DEF Enumerates, ToSet, IsInjective
  <2>3. IsFiniteSet({}) /\ Cardinality({}) = 0
    BY FS_EmptySet
  <2> QED
    BY <1>1, <2>2, <2>3, IndexEngineAssumption DEF CacheIsOrdered, IsOrdered
<1> QED
  BY <1>1, <1>2, <1>3, <1>5, <1>6, <1>7
  DEF Init, IInv, FoundIsAnEntry, ImportsHaveAProject, OneSetter, SettledProjectsAgree,
      HoldersHaveRead, RootIsFresh, RootsAreRight, CacheFollowsTheIndex,
      FoundFollowsTheIndex, VersionsAreCounted, At

LEMMA StutterKeeps == IInv /\ UNCHANGED vars => IInv'
  BY DEF vars, store, calls, IInv, TypeOK, Shapes, FoundIsAnEntry, ImportsHaveAProject,
         OneSetter, SettledProjectsAgree, Setters, HoldersHaveRead, Holders, RootIsFresh,
         RootsAreRight, CacheFollowsTheIndex, FoundFollowsTheIndex, Follows,
         VersionsAreCounted, CacheIsOrdered, IsOrdered, At

LEMMA StepIInv == IInv /\ [Next]_vars => IInv'
<1>1. ASSUME IInv, NEW c \in Callers, Step(c)
      PROVE  IInv'
  <2>1. TypeOK' /\ Shapes' /\ FoundIsAnEntry' /\ ImportsHaveAProject'
    BY <1>1, KeepsTypes
  <2>2. OneSetter' /\ SettledProjectsAgree'
    BY <1>1, KeepsSettled
  <2>3. HoldersHaveRead' /\ RootIsFresh' /\ RootsAreRight'
    BY <1>1, KeepsReads
  <2>4. CacheFollowsTheIndex' /\ FoundFollowsTheIndex' /\ VersionsAreCounted'
    BY <1>1, KeepsCache
  <2>5. CacheIsOrdered'
    BY <1>1, KeepsOrdered
  <2> QED
    BY <2>1, <2>2, <2>3, <2>4, <2>5 DEF IInv
<1> QED
  BY <1>1, StutterKeeps DEF Next

LEMMA SpecIInv == Spec => []IInv
  BY InitIInv, StepIInv, PTL DEF Spec

\* In every state the variables have the types the model gives them, those of the
\* LRU cache and of each call's locals among them.
THEOREM SpecTypeOK == Spec => []TypeOK
<1>1. IInv => TypeOK
  BY DEF IInv
<1> QED
  BY <1>1, SpecIInv, PTL

\* As long as no two calls of set_project cross, the engine's context and the index
\* engine have the same project whenever none is at work, or the context is clear.
THEOREM SpecSettledProjectsAgree == Spec => []SettledProjectsAgree
<1>1. IInv => SettledProjectsAgree
  BY DEF IInv
<1> QED
  BY <1>1, SpecIInv, PTL

\* A search whose two reads of the project no set_project separated names every
\* project with its own root, or with none.
THEOREM SpecRootsAreRight == Spec => []RootsAreRight
<1>1. IInv => RootsAreRight
  BY DEF IInv
<1> QED
  BY <1>1, SpecIInv, PTL

\* count_indexed_files holds the context's lock across its query, so what it
\* returns is of the project that is active when it returns.
THEOREM SpecCountsTheActiveProject == Spec => []CountsTheActiveProject
<1>1. IInv => CountsTheActiveProject
  BY DEF IInv, HoldersHaveRead, Holders, CountsTheActiveProject, At
<1> QED
  BY <1>1, SpecIInv, PTL

\* What get_file_metadata caches of a path is what the runtime index says of it, or
\* said before a newer import, whichever entries were evicted or fetched meanwhile.
THEOREM SpecCacheFollowsTheIndex == Spec => []CacheFollowsTheIndex
<1>1. IInv => CacheFollowsTheIndex
  BY DEF IInv
<1> QED
  BY <1>1, SpecIInv, PTL

\* Whoever fills the cache, with whatever was imported, used or evicted since its
\* reads: the cache keeps to its capacity, its order has each of its paths once,
\* and what it says of a path is or was in the index.
THEOREM SpecCacheIsSound == Spec => []CacheIsSound
<1>1. IInv => CacheIsSound
  BY DEF IInv, CacheIsOrdered, IsOrdered, Enumerates, CacheFollowsTheIndex, Follows, CacheIsSound
<1> QED
  BY <1>1, SpecIInv, PTL

\* Whatever callers do at the same time, the cache changes by uses only, and keeps its
\* paths in the order of their last uses: a hit or a filled path comes to the front, and
\* only a full cache gives up a path, the least recently used, for one it lacks (get, put).
THEOREM SpecLeastRecentlyUsed == Spec => LeastRecentlyUsed
<1>1. ASSUME IInv, NEW c \in Callers
      PROVE  /\ \A p \in Paths : ReadCache(c, p) /\ Cached(cache, p) => IsUsed(cache', p)
             /\ FillCache(c) => path[c] \in Paths /\ IsUsed(cache', path[c])
  <2>1. Shapes /\ CacheIsOrdered /\ (At(c, "found") => path[c] \in Paths)
    BY <1>1 DEF IInv, TypeOK, FoundFollowsTheIndex, Follows
  <2> IsCache(cache) /\ IsOrdered(cache, Capacity) /\ Capacity \in Nat \ {0}
    BY <2>1, IndexEngineAssumption DEF Shapes, IsCache, CacheIsOrdered
  <2>2. ASSUME NEW p \in Paths, ReadCache(c, p), Cached(cache, p)
        PROVE  IsUsed(cache', p)
    <3>1. cache' = Get(cache, p)
      BY <2>2 DEF ReadCache
    <3> QED
      BY <2>2, <3>1, GetKeepsOrdered DEF IsUsed
  <2>3. ASSUME FillCache(c)
        PROVE  path[c] \in Paths /\ IsUsed(cache', path[c])
    <3>1. At(c, "found") /\ cache' = Put(cache, path[c], entry[c], Capacity)
      BY <2>3 DEF FillCache
    <3> QED
      BY <2>1, <3>1, PutKeepsOrdered DEF IsUsed
  <2> QED
    BY <2>1, <2>2, <2>3
<1>2. ASSUME IInv, NEW c \in Callers, Step(c), cache' # cache
      PROVE  FillCache(c) \/ \E p \in Paths : ReadCache(c, p) /\ Cached(cache, p)
  <2>1. ASSUME NEW p \in Paths, ReadCache(c, p)
        PROVE  Cached(cache, p)
    BY <1>2, <2>1 DEF ReadCache, Get
  <2> QED
    BY <1>2, <2>1, CacheMoves DEF IInv
<1>3. ASSUME IInv, [Next]_vars, cache' # cache
      PROVE  \E p \in Paths : IsUsed(cache', p)
  <2>1. PICK c \in Callers : Step(c)
    BY <1>3 DEF Next, vars, store
  <2> QED
    BY <1>1, <1>2, <1>3, <2>1
<1> DEFINE A == /\ cache' # cache => \E p \in Paths : IsUsed(cache', p)
                /\ \A c \in Callers, p \in Paths :
                       ReadCache(c, p) /\ Cached(cache, p) => IsUsed(cache', p)
                /\ \A c \in Callers : FillCache(c) => IsUsed(cache', path[c])
<1>4. IInv /\ [Next]_vars => [A]_vars
  BY <1>1, <1>3
<1>5. Spec => [][A]_vars
  BY <1>4, SpecIInv, PTL DEF Spec
<1> QED
  BY <1>5 DEF LeastRecentlyUsed
=============================================================================
