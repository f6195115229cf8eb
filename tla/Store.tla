------------------------------- MODULE Store -------------------------------
(***************************************************************************)
(* What a reset and an export promise to a caller, while other statements  *)
(* run (db/reset.rs: "all-or-nothing", db/export.rs: "consistent           *)
(* snapshot").  A call answers with one state that the database was in     *)
(* while the call ran: a reset deletes what its tables held in that state, *)
(* in one step, and counts it; an export shows it.                         *)
(***************************************************************************)
EXTENDS FiniteSets, Naturals

CONSTANTS
    Calls,
    Projects, Files,     \* rows of "projects" and of "file_data"
    ProjectOf, PathOf,   \* what a file_data row refers to
    Paths,
    All                  \* no filter

VARIABLES
    rows,
    answer,   \* per call, what it has answered
    seen,     \* per call, the states of the database since it began
    lapses    \* statements that have failed unnoticed

vars == <<rows, answer, seen, lapses>>

Tables == {"projects", "file_data"}
Table(t) == IF t = "projects" THEN Projects ELSE Files

\* The rows of table t in state s that pass the filter, a project.
Selected(s, t, filter) ==
    {r \in s \cap Table(t) : t = "file_data" /\ filter # All => ProjectOf[r] = filter}

Init ==
    /\ rows \in SUBSET (Projects \cup Files)
    /\ answer = [c \in Calls |-> [kind |-> "idle"]]
    /\ seen = [c \in Calls |-> {}]
    /\ lapses = 0

Open == {c \in Calls : answer[c].kind = "open"}

\* The open calls see the state that a step leaves behind.
Seen == seen' = [c \in Calls |-> IF c \in Open THEN seen[c] \cup {rows'} ELSE seen[c]]

Put == \E r \in Projects \cup Files :
    rows' = rows \cup {r} /\ Seen /\ UNCHANGED <<answer, lapses>>

RemovePath == \E p \in Paths :
    /\ rows' = rows \ {f \in Files : PathOf[f] = p}
    /\ Seen /\ UNCHANGED <<answer, lapses>>

Lapse == lapses' = lapses + 1 /\ UNCHANGED <<rows, answer, seen>>

Begin(c) ==
    /\ answer[c].kind = "idle"
    /\ answer' = [answer EXCEPT ![c] = [kind |-> "open"]]
    /\ seen' = [seen EXCEPT ![c] = {rows}]
    /\ UNCHANGED <<rows, lapses>>

\* What the tables T held in state s is deleted; once a statement has failed
\* unnoticed, a table may keep its rows.
Delete(s, T) ==
    \E done \in SUBSET Tables :
        /\ done \subseteq T /\ (lapses = 0 => done = T)
        /\ rows' = rows \ UNION {s \cap Table(t) : t \in done}

\* The call ends; the other open calls see the state that it leaves behind.
End(c) == seen' = [d \in Calls |-> IF d = c THEN {}
                                  ELSE IF d \in Open THEN seen[d] \cup {rows'} ELSE seen[d]]

Clear(c) ==
    /\ c \in Open
    /\ \E s \in seen[c], T \in SUBSET Tables :
        /\ Delete(s, T)
        /\ answer' = [answer EXCEPT ![c] =
               [kind |-> "cleared", counts |-> [t \in T |-> Cardinality(s \cap Table(t))]]]
    /\ End(c) /\ UNCHANGED lapses

\* A reset goes through, and its caller does not come to know.
ClearUnheard(c) ==
    /\ c \in Open
    /\ \E s \in seen[c], T \in SUBSET Tables : Delete(s, T)
    /\ answer' = [answer EXCEPT ![c] = [kind |-> "failed"]]
    /\ End(c) /\ UNCHANGED lapses

Show(c) ==
    /\ c \in Open
    /\ \E s \in seen[c], T \in SUBSET Tables, p \in Projects \cup {All} :
        answer' = [answer EXCEPT ![c] =
            [kind |-> "shown", filter |-> p, shown |-> [t \in T |-> Selected(s, t, p)]]]
    /\ UNCHANGED <<rows, seen, lapses>>

Fail(c) ==
    /\ c \in Open
    /\ answer' = [answer EXCEPT ![c] = [kind |-> "failed"]]
    /\ seen' = [seen EXCEPT ![c] = {}]
    /\ UNCHANGED <<rows, lapses>>

Next ==
    \/ Put \/ RemovePath \/ Lapse
    \/ \E c \in Calls : Begin(c) \/ Clear(c) \/ ClearUnheard(c) \/ Show(c) \/ Fail(c)

Spec == Init /\ [][Next]_vars
=============================================================================
