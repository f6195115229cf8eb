--------------------------- MODULE CircuitBreaker ---------------------------
(***************************************************************************)
(* The circuit breaker of db/pool.rs: a mutex-protected record that every  *)
(* caller of the retry wrappers shares.  Each operator below is one method *)
(* body, executed under the mutex and therefore one atomic step of the     *)
(* caller that conjoins it.                                                *)
(***************************************************************************)
EXTENDS Naturals

CONSTANT MaxConsecutiveFailures   \* MAX_CONSECUTIVE_FAILURES, 3 in the code

ASSUME BreakerAssumption == MaxConsecutiveFailures \in Nat \ {0}

VARIABLES
    state,          \* BreakerState
    failure_count,  \* failures recorded since the count was last cleared
    cooled          \* opened_at.elapsed() >= COOLDOWN

breakerVars == <<state, failure_count, cooled>>

BreakerTypeOK ==
    /\ state \in {"Closed", "Open", "HalfOpen"}
    /\ failure_count \in Nat
    /\ cooled \in BOOLEAN

BreakerInit ==
    /\ state = "Closed"
    /\ failure_count = 0
    /\ cooled = FALSE

\* Faulty variant of AllowRequest: the cooled-down breaker admits the request
\* and stays open instead of moving to half-open.
AllowRequestStaysOpen(admitted) ==
    /\ admitted = (state # "Open" \/ cooled)
    /\ UNCHANGED breakerVars

\* Whether a request passes; the first one after the cooldown moves an open
\* breaker to half-open.  A half-open breaker admits everyone.
AllowRequest(admitted) ==
    /\ admitted = (state # "Open" \/ cooled)
    /\ state' = IF state = "Open" /\ cooled THEN "HalfOpen" ELSE state
    /\ UNCHANGED <<failure_count, cooled>>

\* Faulty variants of RecordSuccess: a success seen while closed does not clear
\* the count; a success seen while half-open does not close the breaker.
RecordSuccessKeepsCount ==
    /\ state' = IF state = "HalfOpen" THEN "Closed" ELSE state
    /\ failure_count' = IF state = "HalfOpen" THEN 0 ELSE failure_count
    /\ UNCHANGED cooled

RecordSuccessStaysHalfOpen ==
    /\ failure_count' = IF state = "Open" THEN failure_count ELSE 0
    /\ UNCHANGED <<state, cooled>>

\* A success closes a half-open breaker and clears the count; one that arrives
\* while the breaker is open (a request admitted earlier) is ignored.
RecordSuccess ==
    /\ state' = IF state = "HalfOpen" THEN "Closed" ELSE state
    /\ failure_count' = IF state = "Open" THEN failure_count ELSE 0
    /\ UNCHANGED cooled

\* Faulty variant of RecordFailure: the threshold test is > instead of >=.
RecordFailureOffByOne ==
    LET opens == \/ state = "Closed" /\ failure_count + 1 > MaxConsecutiveFailures
                 \/ state = "HalfOpen"
    IN  /\ failure_count' = failure_count + 1
        /\ state' = IF opens THEN "Open" ELSE state
        /\ cooled' = IF opens THEN FALSE ELSE cooled

\* A failure is always counted.  It opens a closed breaker at the threshold and
\* a half-open one at once, and restarts the cooldown when it does.
RecordFailure ==
    LET opens == \/ state = "Closed" /\ failure_count + 1 >= MaxConsecutiveFailures
                 \/ state = "HalfOpen"
    IN  /\ failure_count' = failure_count + 1
        /\ state' = IF opens THEN "Open" ELSE state
        /\ cooled' = IF opens THEN FALSE ELSE cooled

\* Manual reset; opened_at is left alone.
Reset ==
    /\ state' = "Closed"
    /\ failure_count' = 0
    /\ UNCHANGED cooled

\* The clock reaches opened_at + COOLDOWN.  It is observable only while open:
\* opening restarts it.
Elapse ==
    /\ state = "Open"
    /\ ~cooled
    /\ cooled' = TRUE
    /\ UNCHANGED <<state, failure_count>>
=============================================================================
