----------------------------- MODULE Algorithms -----------------------------
(***************************************************************************)
(* The pure algorithms, compared with reference definitions on every input *)
(* up to a bound.  A behaviour picks an algorithm and makes its input      *)
(* longer step by step; the invariants compare the results in every state. *)
(***************************************************************************)
EXTENDS TLC, McIgnore, RootPath, LruCache, SearchResults, Scaffold, FiniteSets

CONSTANTS
    MaxValue,     \* bound: characters of a value, or segments of a path
    MaxPattern,   \* bound: characters or segments of a pattern
    MaxComps,     \* bound: components of a root path
    MaxUses,      \* bound: operations on a cache
    CacheCapacity,
    MaxRows,      \* bound: rows that a search looks at
    MaxMarks,     \* bound: occurrences in a row
    MaxLines,     \* bound: lines of a text
    MaxName       \* bound: characters of a project's name

ASSUME AlgorithmsAssumption == CacheCapacity \in Nat \ {0}

VARIABLES
    subject,   \* the algorithm
    left,      \* its first input
    right      \* its second input, if it has two

inputs == <<subject, left, right>>

Chars == {"a", "b"}
Segments == {<<"a">>, <<"a", "b">>}
PatternSegments == Segments \cup {Star, DoubleStar, <<"a", "*">>}
Keys == {"k1", "k2", "k3"}
Uses == [op : {"get", "put"}, key : Keys]

\* A token, a query of two tokens, and what occurs of them: where the query does
\* (it is the text of both tokens, and cannot be a name), its tokens do too.
QueryTerm == "t u"
Marks == {{<<f, t>>} : f \in Texts \cup Lists, t \in {"t", "u"}}
         \cup {{<<f, "t", "whole">>} : f \in Lists}
         \cup {{<<f, t>> : t \in {"t", "u", QueryTerm}} : f \in Texts \cup Lists}

Defaults == <<"target", "build">>
Lines == {Plain("target"), Plain("build"), Plain("src"), Plain(""), Pointer,
          Plain(Deeper), [says |-> "target", comment |-> TRUE]}

NameChars == {"a", "A", "-", "_"}
LowerCase == [ch \in NameChars |-> IF ch \in {"a", "A"} THEN "a" ELSE Dash]

AlgorithmsInit ==
    /\ subject \in {"wildcard", "glob", "root", "cache", "search", "text", "slug"}
    /\ left = <<>> /\ right = <<>>

GrowWildcard ==
    /\ subject = "wildcard"
    /\ \/ /\ Len(left) < MaxValue /\ right = <<>>
          /\ \E ch \in Chars : left' = Append(left, ch)
          /\ UNCHANGED right
       \/ /\ Len(right) < MaxPattern
          /\ \E ch \in Chars \cup {"*", "?"} : right' = Append(right, ch)
          /\ UNCHANGED left

GrowGlob ==
    /\ subject = "glob"
    /\ \/ /\ Len(left) < MaxValue /\ right = <<>>
          /\ \E seg \in Segments : left' = Append(left, seg)
          /\ UNCHANGED right
       \/ /\ Len(right) < MaxPattern
          /\ \E seg \in PatternSegments : right' = Append(right, seg)
          /\ UNCHANGED left

GrowRoot ==
    /\ subject = "root"
    /\ Len(left) < MaxComps
    /\ \E comp \in Chars \cup {".", ".."} : left' = Append(left, comp)
    /\ UNCHANGED right

GrowCache ==
    /\ subject = "cache"
    /\ Len(left) < MaxUses
    /\ \E use \in Uses : left' = Append(left, use)
    /\ UNCHANGED right

\* Another row, or another occurrence in the last one.
GrowSearch ==
    /\ subject = "search"
    /\ \/ Len(left) < MaxRows /\ left' = Append(left, {}) /\ right' = <<>>
       \/ /\ left # <<>> /\ Len(right) < MaxMarks
          /\ \E marks \in Marks : left' = [left EXCEPT ![Len(left)] = @ \cup marks]
          /\ right' = Append(right, "mark")

\* The right input says whether the last line ends.
GrowText ==
    /\ subject = "text"
    /\ \/ /\ Len(left) < MaxLines /\ right = <<>>
          /\ \E line \in Lines : left' = Append(left, line)
          /\ UNCHANGED right
       \/ right = <<>> /\ right' = <<"ends">> /\ UNCHANGED left

GrowSlug ==
    /\ subject = "slug"
    /\ Len(left) < MaxName
    /\ \E ch \in NameChars : left' = Append(left, ch)
    /\ UNCHANGED right

AlgorithmsNext ==
    /\ UNCHANGED subject
    /\ \/ GrowWildcard \/ GrowGlob \/ GrowRoot \/ GrowCache
       \/ GrowSearch \/ GrowText \/ GrowSlug

AlgorithmsSpec == AlgorithmsInit /\ [][AlgorithmsNext]_inputs
-----------------------------------------------------------------------------
\* Does the value fall into consecutive pieces, one for each element of the
\* pattern, where Many takes any piece and any other element a piece of one?
FallsInto(value, pattern, Many, Fits(_, _)) ==
    \E cut \in [0 .. Len(pattern) -> 0 .. Len(value)] :
        /\ cut[0] = 0 /\ cut[Len(pattern)] = Len(value)
        /\ \A i \in 1 .. Len(pattern) :
              IF pattern[i] = Many THEN cut[i - 1] <= cut[i]
              ELSE cut[i] = cut[i - 1] + 1 /\ Fits(value[cut[i]], pattern[i])

FitsChar(ch, p) == p \in {"?", ch}

FitsSegment(segment, p) ==
    p = segment \/ (HasStar(p) /\ FallsInto(segment, p, "*", FitsChar))

\* The scan of a segment, with its single point to come back to, finds a match
\* of "*" and "?" whenever there is one, and only then; and a pattern with a star
\* matches a whole path, "**" taking any number of its segments and anything
\* else exactly one (wildcard_match, matches).
PatternsAreExact ==
    /\ subject = "wildcard" =>
           (WildcardMatch(left, right) <=> FallsInto(left, right, "*", FitsChar))
    /\ subject = "glob" /\ (\E i \in DOMAIN right : HasStar(right[i])) =>
           (Matches(left, right) <=> FallsInto(left, right, DoubleStar, FitsSegment))

\* The named directories of i .. j that are not left again by a "..".
Depth(comps, i, j) ==
    Cardinality({k \in i .. j : comps[k] \notin {".", ".."}}) -
    Cardinality({k \in i .. j : comps[k] = ".."})

\* The components that name a directory which no later ".." leaves.
Kept(comps) ==
    {i \in DOMAIN comps :
        comps[i] \notin {".", ".."} /\ \A j \in i .. Len(comps) : Depth(comps, i, j) > 0}

\* A root has the kept names in their order, and is "/" when there is none.
KeepsTheNames(path) ==
    LET root == Canonicalize(path)
        kept == Kept(path.comps)
    IN  /\ Len(root.comps) = Cardinality(kept)
        /\ \A i \in kept : root.comps[Cardinality({j \in kept : j <= i})] = path.comps[i]
        /\ root.absolute = (path.absolute \/ kept = {})

\* A root keeps exactly the names that no later ".." leaves, and is "/" when no
\* name is left: all spellings of a directory are one root, register's key.
RootIsExact ==
    subject = "root" =>
        \A absolute \in BOOLEAN : KeepsTheNames([absolute |-> absolute, comps |-> left])

\* The cache after each of a sequence of uses: the value put is the position of
\* its put.
CacheAfter(uses) ==
    LET used[n \in 0 .. Len(uses)] ==
            IF n = 0 THEN EmptyCache
            ELSE IF uses[n].op = "get" THEN Get(used[n - 1], uses[n].key)
            ELSE Put(used[n - 1], uses[n].key, n, CacheCapacity)
    IN  used

\* Uses of a key: every put, and every get that hits.
Touches(uses, k) ==
    {i \in DOMAIN uses : uses[i].key = k /\
        (uses[i].op = "put" \/ Cached(CacheAfter(uses)[i - 1], k))}

LastTouch(uses, k) == CHOOSE i \in Touches(uses, k) : \A j \in Touches(uses, k) : j <= i

Touched(uses) ==
    {k \in {uses[i].key : i \in DOMAIN uses} : Touches(uses, k) # {}}

Newer(uses, k) == {m \in Touched(uses) : LastTouch(uses, m) > LastTouch(uses, k)}

\* From front to back, the cache has the keys most recently used, as many as
\* fit, and for each the last value put.
HasTheMostRecent(cache, uses) ==
    /\ DOMAIN cache.map = {k \in Touched(uses) : Cardinality(Newer(uses, k)) < CacheCapacity}
    /\ Len(cache.order) = Cardinality(DOMAIN cache.map)
    /\ \A k \in DOMAIN cache.map :
          /\ cache.order[Cardinality(Newer(uses, k)) + 1] = k
          /\ LET v == cache.map[k]
             IN  /\ v \in DOMAIN uses /\ uses[v] = [op |-> "put", key |-> k]
                 /\ \A j \in v + 1 .. Len(uses) : uses[j] # uses[v]

\* After any uses the cache has exactly the keys most recently used, in that
\* order, and their last values: what get and put do to the map and to the order
\* keeps the two together.
CacheKeepsTheMostRecent ==
    subject = "cache" => HasTheMostRecent(CacheAfter(left)[Len(left)], left)

Queries ==
    {[term |-> q[1], tokens |-> q[2], path |-> NoTerm, purpose |-> p, features |-> w,
      limit |-> n] :
        q \in {<<NoTerm, <<>>>>, <<"t", <<"t">>>>, <<QueryTerm, <<"t", "u">>>>},
        p \in {NoTerm, "u"}, w \in {{}, {"t"}}, n \in 1 .. MaxRows}

\* What a query can see of a row: where its tokens are, but in the content, and
\* where the whole of it is, but in the content and the type.
Visible(row, query) ==
    {mark \in ((Texts \cup Lists) \ {"content"}) \X (ToSet(query.tokens) \cup {query.term}) :
        /\ Occurs(row, mark[1], mark[2])
        /\ mark[1] = "type" => mark[2] \in ToSet(query.tokens)}

\* The term is in one of the texts, or a whole name.
IsMatched(row, t) ==
    (\E f \in Texts : <<f, t>> \in row) \/ (\E f \in Lists : <<f, t, "whole">> \in row)

\* If the rows that match, in a text or as a whole name, are not more than the
\* limit, a search finds all of them but those that match in their content only
\* or lack the feature asked for, each once.  A row in which the query is wherever
\* it is in another row, and elsewhere too, comes before it; rows that do not
\* differ keep their order.
IsExactSearch(rows, query) ==
    LET matches == {i \in DOMAIN rows :
            /\ query.tokens = <<>> \/ \E t \in ToSet(query.tokens) : IsMatched(rows[i], t)
            /\ query.path # NoTerm => <<"path", query.path>> \in rows[i]
            /\ query.purpose # NoTerm => <<"purpose", query.purpose>> \in rows[i]}
        shown == {i \in matches :
            /\ query.tokens = <<>> \/ Visible(rows[i], query) # {}
            /\ \A t \in query.features : Occurs(rows[i], "features", t)}
        found == Search(rows, query)
        seen(n) == Visible(rows[found[n]], query)
    IN  Cardinality(matches) <= query.limit =>
            /\ Len(found) = Cardinality(shown)
            /\ ToSet(found) = shown
            /\ \A n, m \in DOMAIN found :
                   IF seen(n) = seen(m) THEN found[n] < found[m] => n < m
                   ELSE seen(m) \subseteq seen(n) => n < m

\* The results of a search are exact while the rows that match are within the
\* limit: what the SQL selects, what is retained, and the ranking of the rest agree.
SearchIsExactUnderTheLimit ==
    subject = "search" => \A query \in Queries : IsExactSearch(left, query)

\* A slug has no dash at an end or beside another.
IsTidy(slug) ==
    \A i \in DOMAIN slug : slug[i] = Dash => i > 1 /\ i < Len(slug) /\ slug[i + 1] # Dash

Letters(chars) == Without(chars, {Dash})[Len(chars)]

\* Merging keeps the lines of a text where they are, adds no line that is there
\* already but empty ones, makes every default a pattern, and done again it
\* changes nothing; nor does the pointer in AGENTS.md.
MergesOnce(text, defaults) ==
    LET ignore == UpdateMcIgnore(text, defaults)
        agents == UpdateAgentsMd(text)
        kept(new) == /\ IsPrefix(text.lines, new.lines)
                     /\ \A i \in Len(text.lines) + 1 .. Len(new.lines) :
                            \A j \in 1 .. i - 1 :
                                new.lines[i].says = "" \/ new.lines[j] # new.lines[i]
    IN  /\ kept(ignore) /\ kept(agents)
        /\ ToSet(defaults) \subseteq PatternsOf(ignore)
        /\ UpdateMcIgnore(ignore, defaults) = ignore
        /\ UpdateAgentsMd(agents) = agents

\* A slug is its own slug, is tidy, and has the name's letters in order.
SlugIsStable(name, Lower) ==
    LET slug == Slugify(name, Lower)
    IN  /\ Slugify(slug, Lower) = slug
        /\ IsTidy(slug)
        /\ Letters(slug) = Letters(Mapped(name, Lower))

\* Registering a project again changes neither the user's files nor the slug, and
\* the first time nothing of the user's is lost or doubled (scaffold.rs).
ScaffoldIsStable ==
    /\ subject = "text" => MergesOnce([lines |-> left, ends |-> right # <<>>], Defaults)
    /\ subject = "slug" => SlugIsStable(left, LowerCase)

Rule(pattern) == [pattern |-> pattern, dirOnly |-> TRUE, negated |-> FALSE]

\* mcignore.rs: "a directory pattern also ignores its contents".  The pattern
\* b/ leaves the file b/b alone.
DirectoryContentsAreIgnored ==
    subject = "glob" /\ (\A i \in DOMAIN right : ~HasStar(right[i])) /\ right # <<>> =>
        (IsStrictPrefix(right, left) => IsIgnored(<<Rule(right)>>, left, FALSE))

\* mcignore.rs: "a same-named entry at any level, or anything nested beneath it".
\* The pattern b leaves a/b/c alone.
NestedContentsAreIgnored ==
    subject = "glob" /\ (\A i \in DOMAIN right : ~HasStar(right[i])) /\ right # <<>> =>
        ((\E i \in 1 .. Len(left) : IsPrefix(right, SubSeq(left, i, Len(left))))
            => Matches(left, right))
=============================================================================
