\* Two callers over one breaker, the code's threshold and one retry more than
\* it takes to trip it; the database fails at most five times, so the breaker can
\* open, half-open, and open or close again.
CONSTANTS
    Callers = {c1, c2}
    MaxConsecutiveFailures = 3
    MaxRetries = 3
    MaxFailures = 5
SPECIFICATION FairSpec
INVARIANTS ClosedCountsTheStreak AdmittedBeforeOpening
PROPERTIES TripsOnlyOnStreak Recovers
