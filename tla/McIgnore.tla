------------------------------ MODULE McIgnore ------------------------------
(***************************************************************************)
(* engine/index/mcignore.rs: which paths a list of patterns excludes.  A   *)
(* path or a pattern is a sequence of segments, a segment a sequence of    *)
(* characters; "*" and "?" are the characters with a meaning.              *)
(***************************************************************************)
EXTENDS Naturals, Sequences, SequencesExt

Star == <<"*">>
DoubleStar == <<"*", "*">>
HasStar(segment) == \E i \in DOMAIN segment : segment[i] = "*"

NoStar == <<>>

\* Where a scan can be: the characters of the value and of the pattern that are
\* matched, and those that were before the last star.
Positions(value, pattern) ==
    (0 .. Len(value)) \X (0 .. Len(pattern)) \X
        ({NoStar} \cup ((0 .. Len(value)) \X (0 .. Len(pattern) - 1)))

StarAt(pattern, pp) == pp < Len(pattern) /\ pattern[pp + 1] = "*"

FitsAt(value, pattern, vp, pp) ==
    /\ vp < Len(value) /\ pp < Len(pattern)
    /\ pattern[pp + 1] \in {"?", value[vp + 1]}

\* wildcard_match: one pass with the last star to come back to, which then takes
\* one more character of the value.
Scan(value, pattern) ==
    LET scan[at \in Positions(value, pattern)] ==
            LET vp == at[1]
                pp == at[2]
                star == at[3]
            IN  IF StarAt(pattern, pp) THEN scan[<<vp, pp + 1, <<vp, pp>>>>]
                ELSE IF FitsAt(value, pattern, vp, pp) THEN scan[<<vp + 1, pp + 1, star>>]
                ELSE IF vp = Len(value) /\ pp = Len(pattern) THEN TRUE
                ELSE IF star = NoStar \/ star[1] = Len(value) THEN FALSE
                ELSE scan[<<star[1] + 1, star[2] + 1, <<star[1] + 1, star[2]>>>>]
    IN  scan

\* Faulty variant of WildcardMatch: the star is not come back to.
WildcardMatchGreedy(value, pattern) ==
    \E n \in 0 .. Len(value) :
        /\ n <= Len(pattern)
        /\ \A i \in 1 .. n : pattern[i] \in {"?", value[i]}
        /\ IF n = Len(value) THEN pattern = SubSeq(pattern, 1, n)
                             ELSE n < Len(pattern) /\ pattern[n + 1] = "*"

WildcardMatch(value, pattern) == Scan(value, pattern)[<<0, 0, NoStar>>]

\* A segment without a star is compared literally, its "?" included.
SegmentMatches(segment, pattern) ==
    \/ pattern = Star
    \/ pattern = segment
    \/ HasStar(pattern) /\ WildcardMatch(segment, pattern)

\* match_segments, from any two positions: "**" takes any number of segments,
\* none included.
MatchSegments(path, pattern) ==
    LET match[at \in (0 .. Len(path)) \X (0 .. Len(pattern))] ==
            LET pi == at[1]
                pj == at[2]
            IN  IF pj = Len(pattern) THEN pi = Len(path)
                ELSE IF pattern[pj + 1] = DoubleStar
                THEN \E i \in pi .. Len(path) : match[<<i, pj + 1>>]
                ELSE IF pi = Len(path) \/ ~SegmentMatches(path[pi + 1], pattern[pj + 1])
                THEN FALSE
                ELSE match[<<pi + 1, pj + 1>>]
    IN  match

\* Faulty variant of Matches: "**" takes at least one segment.
MatchesOneOrMore(path, pattern) ==
    /\ MatchSegments(path, pattern)[<<0, 0>>]
    /\ Len(pattern) <= Len(path)

\* Without a star: the path itself, an entry of that name at any level, or what
\* is beneath the pattern.
Matches(path, pattern) ==
    IF \A i \in DOMAIN pattern : ~HasStar(pattern[i])
    THEN path = pattern \/ IsStrictSuffix(pattern, path) \/ IsStrictPrefix(pattern, path)
    ELSE MatchSegments(path, pattern)[<<0, 0>>]

\* A pattern for directories does not apply to a file that has its very name.
Applies(rule, path, isDir) ==
    /\ rule.dirOnly /\ ~isDir => path # rule.pattern /\ ~IsStrictSuffix(rule.pattern, path)
    /\ Matches(path, rule.pattern)

\* The last pattern that matches decides.
IsIgnored(rules, path, isDir) ==
    FoldLeft(LAMBDA ignored, rule : IF Applies(rule, path, isDir) THEN ~rule.negated ELSE ignored,
             FALSE, rules)
=============================================================================
