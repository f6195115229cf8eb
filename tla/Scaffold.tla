------------------------------ MODULE Scaffold ------------------------------
(***************************************************************************)
(* service/scaffold.rs: the files that registering a project puts into its *)
(* tree, and the slug of its name.  A text is its lines and whether the    *)
(* last one ends; an empty text has no line.  A line is what it says, once *)
(* trimmed, and whether it is a comment.                                   *)
(***************************************************************************)
EXTENDS Integers, Sequences, SequencesExt

\* No file; an empty one has no end either.
NoText == [lines |-> <<>>, ends |-> TRUE]

Plain(entry) == [says |-> entry, comment |-> FALSE]

Listed(entries) == [i \in DOMAIN entries |-> Plain(entries[i])]

\* A final newline, if there is none: an empty text gets an empty line.
Ended(text) ==
    IF text.ends THEN text.lines
    ELSE IF text.lines = <<>> THEN <<Plain("")>> ELSE text.lines

\* The patterns there are: lines are trimmed, empty ones and comments skipped.
PatternsOf(text) ==
    {text.lines[i].says : i \in {j \in DOMAIN text.lines : ~text.lines[j].comment}} \ {""}

\* The first n elements without those in S.
Without(seq, S) ==
    LET rest[n \in 0 .. Len(seq)] ==
            IF n = 0 THEN <<>>
            ELSE IF seq[n] \in S THEN rest[n - 1] ELSE Append(rest[n - 1], seq[n])
    IN  rest

\* create_or_update_mcignore: the defaults that are missing go to the end.
UpdateMcIgnore(text, defaults) ==
    LET missing == Without(defaults, PatternsOf(text))[Len(defaults)]
    IN  IF text = NoText THEN [lines |-> Listed(defaults), ends |-> TRUE]
        ELSE IF missing = <<>> THEN text
        ELSE [lines |-> Ended(text) \o Listed(missing), ends |-> TRUE]

\* The section, which stands for its first line.
Pointer == Plain("## Mercury Cortex MCP")

\* A line has the header "## Mercury Cortex" anywhere in it: the section's own
\* does, and so does a heading one level further down.
Deeper == "### Mercury Cortex notes"
HasHeader(line) == line.says \in {Pointer.says, Deeper}

\* create_or_update_agents_md: the section after an empty line, unless some line
\* has its header.
UpdateAgentsMd(text) ==
    IF text = NoText THEN [lines |-> <<Pointer>>, ends |-> TRUE]
    ELSE IF \E i \in DOMAIN text.lines : HasHeader(text.lines[i]) THEN text
    ELSE [lines |-> Ended(text) \o <<Plain(""), Pointer>>, ends |-> TRUE]

Dash == "-"

\* split: a dash begins a piece, another character is added to the last one.
Split(pieces, c) ==
    IF c = Dash THEN Append(pieces, <<>>)
    ELSE [pieces EXCEPT ![Len(pieces)] = Append(@, c)]

\* The pieces of the first n characters.
Pieces(chars) ==
    LET pieces[n \in 0 .. Len(chars)] ==
            IF n = 0 THEN << <<>> >> ELSE Split(pieces[n - 1], chars[n])
    IN  pieces

\* filter and join: a piece that is not empty goes behind what there is.
Join(slug, piece) ==
    IF piece = <<>> THEN slug ELSE IF slug = <<>> THEN piece ELSE slug \o <<Dash>> \o piece

\* The first n pieces joined.
Joined(pieces) ==
    LET joined[n \in 0 .. Len(pieces)] ==
            IF n = 0 THEN <<>> ELSE Join(joined[n - 1], pieces[n])
    IN  joined

\* Lower gives a character's lower case, or a dash if it is neither letter nor digit.
Mapped(chars, Lower) == [i \in DOMAIN chars |-> Lower[chars[i]]]

\* Faulty variant of Slugify: the empty pieces are joined as well, so that
\* splitting changes nothing.
SlugifyKeepsEmpty(chars, Lower) == Mapped(chars, Lower)

\* slugify: lower case, a dash for anything else, and the pieces between dashes
\* that are not empty joined by one.
Slugify(chars, Lower) ==
    LET pieces == Pieces(Mapped(chars, Lower))[Len(chars)]
    IN  Joined(pieces)[Len(pieces)]
=============================================================================
