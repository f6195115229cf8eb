\* Two users and the signal task, five calls: enough for a start, a stop, a
\* query and a shutdown to meet in every order.
CONSTANTS
    Users = {u1, u2}
    Signal = sig
    MaxCalls = 5
SPECIFICATION FairSpec
INVARIANTS UptimeFollowsTheFlag StatusTellsTheTruth
PROPERTY ShutdownCompletes
CHECK_DEADLOCK FALSE
