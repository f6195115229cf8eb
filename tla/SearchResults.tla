--------------------------- MODULE SearchResults ---------------------------
(***************************************************************************)
(* engine/index/search.rs as a function: the file_data rows that the SQL   *)
(* of a search selects, in the order the database returns them, and what   *)
(* search makes of them.                                                   *)
(*                                                                         *)
(* A row is a set of occurrences <<field, term>>: the term is part of the  *)
(* field's text, all in lower case, or of one of the names that it lists;  *)
(* of a list, <<field, term, "whole">> says that the term is a whole name. *)
(* A query is a term, its tokens and filters; prefix queries ("term*") and *)
(* blank ones are left to the database.                                    *)
(***************************************************************************)
EXTENDS Integers, Sequences, FiniteSets

Texts == {"path", "type", "purpose", "summary", "content"}
Lists == {"features", "tags", "exported_functions"}
NoTerm == "none"

Occurs(row, field, term) ==
    <<field, term>> \in row \/ <<field, term, "whole">> \in row

\* The WHERE of build_search_query, but for the projects: a list CONTAINS whole names.
SqlSelects(row, query) ==
    /\ query.path = NoTerm \/ Occurs(row, "path", query.path)
    /\ query.purpose = NoTerm \/ Occurs(row, "purpose", query.purpose)
    /\ query.tokens = <<>> \/
       \E i \in DOMAIN query.tokens :
           \/ \E f \in Texts : Occurs(row, f, query.tokens[i])
           \/ \E f \in Lists : <<f, query.tokens[i], "whole">> \in row

FullWeight == [path |-> 5, type |-> 0, purpose |-> 5, summary |-> 4,
               features |-> 5, tags |-> 4, exported_functions |-> 4]
TokenWeight == [path |-> 3, type |-> 1, purpose |-> 3, summary |-> 2,
                features |-> 4, tags |-> 3, exported_functions |-> 3]

Weighed(row, term, weight) ==
    LET at(f) == IF Occurs(row, f, term) THEN weight[f] ELSE 0
    IN  at("path") + at("type") + at("purpose") + at("summary")
        + at("features") + at("tags") + at("exported_functions")

\* score_result: the whole query and every token count once for every field.
Scores(row, query) ==
    LET sum[n \in 0 .. Len(query.tokens)] ==
            IF n = 0 THEN Weighed(row, query.term, FullWeight)
            ELSE sum[n - 1] + Weighed(row, query.tokens[n], TokenWeight)
    IN  sum

Score(row, query) == Scores(row, query)[Len(query.tokens)]

\* What is retained: a wanted feature, and a token somewhere but in the content.
Retains(row, query) ==
    /\ query.features = {} \/ \E f \in query.features : Occurs(row, "features", f)
    /\ query.tokens = <<>> \/
       \E i \in DOMAIN query.tokens, f \in DOMAIN TokenWeight :
           Occurs(row, f, query.tokens[i])

\* The order of the rows in the answer of the database.  The SQL has no ORDER BY:
\* whatever order they come in, a row's place in it is its number here.
Returned(rows) == {p \in (DOMAIN rows) \X (DOMAIN rows) : p[1] < p[2]}

\* Faulty variant of Ranked: of equals, the last is put first.
RankedUnstably(rows, query) ==
    {p \in (DOMAIN rows) \X (DOMAIN rows) :
        LET one == Score(rows[p[1]], query)
            two == Score(rows[p[2]], query)
        IN  one > two \/ (one = two /\ p[1] > p[2])}

\* A stable sort, the highest score first; without a query the order stays.
Ranked(rows, query) ==
    IF query.term = NoTerm THEN Returned(rows)
    ELSE {p \in (DOMAIN rows) \X (DOMAIN rows) :
             LET one == Score(rows[p[1]], query)
                 two == Score(rows[p[2]], query)
             IN  one > two \/ (one = two /\ p[1] < p[2])}

\* How many of a set an order has before one of them.
Place(i, S, order) == Cardinality({j \in S : <<j, i>> \in order})

UpTo(limit, S, order) == {i \in S : Place(i, S, order) < limit}

Arranged(S, order) ==
    [n \in 1 .. Cardinality(S) |-> CHOOSE i \in S : Place(i, S, order) = n - 1]

\* The rows found, by their places in the answer of the database.  The LIMIT of the
\* SQL comes before the ranking, and once more after it.
Search(rows, query) ==
    LET selected == {i \in DOMAIN rows : SqlSelects(rows[i], query)}
        returned == UpTo(query.limit, selected, Returned(rows))
        retained == {i \in returned : Retains(rows[i], query)}
        ranked == Ranked(rows, query)
    IN  Arranged(UpTo(query.limit, retained, ranked), ranked)
=============================================================================
