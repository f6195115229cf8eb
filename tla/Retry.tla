------------------------------- MODULE Retry --------------------------------
(***************************************************************************)
(* The retry wrappers of db/retry.rs: any number of callers run            *)
(* retry_with_breaker over one shared breaker (retry_shared and DB_BREAKER;*)
(* a single caller is retry with its private breaker).                     *)
(*                                                                         *)
(* One iteration of the loop is: ask the breaker, sleep if this is a       *)
(* retry, await the operation, record its outcome.  Other callers and      *)
(* reset_shared_breaker interleave between these points.  The await and    *)
(* the record that follows it are one step: nothing of the operation is    *)
(* visible to the breaker before the record.                               *)
(***************************************************************************)
EXTENDS CircuitBreaker

CONSTANTS
    Callers,      \* the tasks that use the wrapper
    MaxRetries,   \* RETRY_MAX_ATTEMPTS, 3 in the code
    MaxFailures   \* bound: how many operations the database fails in all

ASSUME RetryAssumption == MaxRetries \in Nat /\ MaxFailures \in Nat

VARIABLES
    pc,         \* where each caller is in the loop
    attempt,    \* its loop variable
    failures,   \* failed operations so far (what MaxFailures bounds)
    streak,     \* history: failures recorded since the last success or reset
    openings,   \* history: how often the breaker has opened
    admittedAt  \* history: openings when the caller was last admitted

callVars == <<pc, attempt>>
history == <<streak, openings, admittedAt>>
retryVars == <<breakerVars, callVars, failures, history>>

RetryTypeOK ==
    /\ BreakerTypeOK
    /\ pc \in [Callers -> {"idle", "check", "backoff", "calling"}]
    /\ attempt \in [Callers -> 0 .. MaxRetries]
    /\ failures \in 0 .. MaxFailures
    /\ streak \in Nat
    /\ openings \in Nat
    /\ admittedAt \in [Callers -> Nat]

RetryInit ==
    /\ BreakerInit
    /\ pc = [c \in Callers |-> "idle"]
    /\ attempt = [c \in Callers |-> 0]
    /\ failures = 0
    /\ streak = 0
    /\ openings = 0
    /\ admittedAt = [c \in Callers |-> 0]

Goto(c, label) == pc' = [pc EXCEPT ![c] = label]

\* A caller enters retry_with_breaker.
Begin(c) ==
    /\ pc[c] = "idle"
    /\ Goto(c, "check")
    /\ attempt' = [attempt EXCEPT ![c] = 0]
    /\ UNCHANGED <<breakerVars, failures, history>>

\* allow_request at the top of the loop: a rejected call returns at once, an
\* admitted one sleeps first unless this is its first attempt.
Check(c) ==
    /\ pc[c] = "check"
    /\ \E admitted \in BOOLEAN :
          /\ AllowRequest(admitted)
          /\ Goto(c, IF ~admitted THEN "idle"
                     ELSE IF attempt[c] > 0 THEN "backoff" ELSE "calling")
          /\ admittedAt' = IF admitted THEN [admittedAt EXCEPT ![c] = openings]
                           ELSE admittedAt
    /\ UNCHANGED <<attempt, failures, streak, openings>>

\* The backoff sleep ends and the operation is called: the breaker is not
\* asked again.
Wake(c) ==
    /\ pc[c] = "backoff"
    /\ Goto(c, "calling")
    /\ UNCHANGED <<breakerVars, attempt, failures, history>>

\* The operation succeeds: record_success, return Ok.
Succeed(c) ==
    /\ pc[c] = "calling"
    /\ RecordSuccess
    /\ Goto(c, "idle")
    /\ streak' = 0
    /\ UNCHANGED <<attempt, failures, openings, admittedAt>>

RetriesLeft(c) == attempt[c] < MaxRetries

\* The operation fails: record_failure, whatever the error is; the loop goes
\* round only for a transient error with attempts left.
Fail(c) ==
    /\ pc[c] = "calling"
    /\ failures < MaxFailures
    /\ failures' = failures + 1
    /\ RecordFailure
    /\ streak' = streak + 1
    /\ openings' = IF state # "Open" /\ state' = "Open" THEN openings + 1 ELSE openings
    /\ \E transient \in BOOLEAN :
          IF transient /\ RetriesLeft(c)
          THEN /\ Goto(c, "check")
               /\ attempt' = [attempt EXCEPT ![c] = @ + 1]
          ELSE /\ Goto(c, "idle")
               /\ UNCHANGED attempt
    /\ UNCHANGED admittedAt

\* reset_shared_breaker.
ResetShared ==
    /\ Reset
    /\ streak' = 0
    /\ UNCHANGED <<callVars, failures, openings, admittedAt>>

Cooldown ==
    /\ Elapse
    /\ UNCHANGED <<callVars, failures, history>>

Step(c) == Check(c) \/ Wake(c) \/ Succeed(c) \/ Fail(c)

RetryNext ==
    \/ \E c \in Callers : Begin(c) \/ Step(c)
    \/ ResetShared
    \/ Cooldown

RetrySpec == RetryInit /\ [][RetryNext]_retryVars

\* The runtime polls every ready task, timers fire and the embedded database
\* answers; callers keep making requests; the clock advances.
FairSpec ==
    /\ RetrySpec
    /\ \A c \in Callers : WF_retryVars(Begin(c)) /\ WF_retryVars(Step(c))
    /\ WF_retryVars(Cooldown)
-----------------------------------------------------------------------------
\* While the breaker is closed its count is exactly the number of failures
\* since the last success or reset, over all callers, and is below the
\* threshold: outcomes of requests admitted in an earlier phase never leave a
\* count behind that trips a closed breaker early or late.
ClosedCountsTheStreak ==
    state = "Closed" => /\ failure_count = streak
                        /\ streak < MaxConsecutiveFailures

\* A closed breaker opens only when MaxConsecutiveFailures operations in a row
\* have failed with no success and no reset in between (pool.rs: "consecutive").
TripsOnlyOnStreak ==
    [][state = "Closed" /\ state' = "Open" => streak' >= MaxConsecutiveFailures]_retryVars

\* An operation about to run or running while the breaker is open belongs to a
\* request admitted before it opened; none is admitted while it is open.
AdmittedBeforeOpening ==
    state = "Open" =>
        \A c \in Callers : pc[c] \in {"backoff", "calling"} => admittedAt[c] < openings

\* Once the database stops failing, the breaker always finds its way back to
\* closed, however late outcomes of old requests and new calls interleave.
Recovers == []<>(state = "Closed")

\* What retry.rs says of the wrapper: "If the circuit is open, the request is
\* rejected immediately without calling the operation".  The breaker may open
\* during the backoff sleep, after it was asked.
NoCallWhileOpen ==
    [][\A c \in Callers : pc[c] # "calling" /\ pc'[c] = "calling" => state # "Open"]_retryVars
=============================================================================
