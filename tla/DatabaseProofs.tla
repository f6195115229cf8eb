--------------------------- MODULE DatabaseProofs ---------------------------
(***************************************************************************)
(* Two parts of db/ that stand on their own: the retry wrappers over their *)
(* breaker, for any callers, threshold and retries; reset and export       *)
(* beside other statements, for any calls and rows.                        *)
(***************************************************************************)
EXTENDS Retry, Maintenance, TLAPS

-----------------------------------------------------------------------------
(* Retry.  The bound MaxFailures plays no part in any of the arguments.    *)

\* No admission is dated later than the last opening.
AdmissionsAreInThePast ==
    \A c \in Callers : admittedAt[c] \in 0 .. openings

\* The inductive invariant.  ClosedCountsTheStreak and AdmittedBeforeOpening
\* need nothing of each other; the second needs AdmissionsAreInThePast for the
\* step that opens the breaker over requests in flight.
RetryInv ==
    /\ RetryTypeOK
    /\ ClosedCountsTheStreak
    /\ AdmissionsAreInThePast
    /\ AdmittedBeforeOpening

\* RetryInit establishes the inductive invariant.
LEMMA InitRetryInv == RetryInit => RetryInv
<1> SUFFICES ASSUME RetryInit PROVE RetryInv
  OBVIOUS
<1> USE BreakerAssumption, RetryAssumption DEF RetryInit, BreakerInit
<1>1. RetryTypeOK
  <2>1. BreakerTypeOK
    BY DEF BreakerTypeOK
  <2>2. pc \in [Callers -> {"idle", "check", "backoff", "calling"}]
    OBVIOUS
  <2>3. attempt \in [Callers -> 0 .. MaxRetries]
    OBVIOUS
  <2>4. admittedAt \in [Callers -> Nat]
    OBVIOUS
  <2> QED
    BY <2>1, <2>2, <2>3, <2>4 DEF RetryTypeOK
<1>2. ClosedCountsTheStreak
  BY DEF ClosedCountsTheStreak
<1>3. AdmissionsAreInThePast
  BY DEF AdmissionsAreInThePast
<1>4. AdmittedBeforeOpening
  BY DEF AdmittedBeforeOpening
<1> QED
  BY <1>1, <1>2, <1>3, <1>4 DEF RetryInv

\* Every step of every caller, the reset and the clock preserve it.
LEMMA NextRetryInv == RetryInv /\ [RetryNext]_retryVars => RetryInv'
<1> SUFFICES ASSUME RetryInv, [RetryNext]_retryVars PROVE RetryInv'
  OBVIOUS
<1> USE BreakerAssumption, RetryAssumption
        DEF RetryInv, RetryTypeOK, BreakerTypeOK, ClosedCountsTheStreak,
            AdmissionsAreInThePast, AdmittedBeforeOpening
<1>1. ASSUME NEW c \in Callers, Begin(c) PROVE RetryInv'
  BY <1>1 DEF Begin, Goto, breakerVars, history
<1>2. ASSUME NEW c \in Callers, Check(c) PROVE RetryInv'
  <2>1. PICK admitted \in BOOLEAN :
          /\ AllowRequest(admitted)
          /\ Goto(c, IF ~admitted THEN "idle"
                     ELSE IF attempt[c] > 0 THEN "backoff" ELSE "calling")
          /\ admittedAt' = IF admitted THEN [admittedAt EXCEPT ![c] = openings]
                           ELSE admittedAt
    BY <1>2 DEF Check
  <2>2. CASE admitted
    BY <1>2, <2>1, <2>2 DEF Check, AllowRequest, Goto
  <2>3. CASE ~admitted
    BY <1>2, <2>1, <2>3 DEF Check, AllowRequest, Goto
  <2> QED
    BY <2>2, <2>3
<1>3. ASSUME NEW c \in Callers, Wake(c) PROVE RetryInv'
  BY <1>3 DEF Wake, Goto, breakerVars, history
<1>4. ASSUME NEW c \in Callers, Succeed(c) PROVE RetryInv'
  BY <1>4 DEF Succeed, RecordSuccess, Goto
<1>5. ASSUME NEW c \in Callers, Fail(c) PROVE RetryInv'
  <2>1. RetryTypeOK'
    <3>1. pc' \in [Callers -> {"idle", "check", "backoff", "calling"}]
      BY <1>5 DEF Fail, Goto
    <3>2. attempt' \in [Callers -> 0 .. MaxRetries]
      BY <1>5 DEF Fail, RetriesLeft
    <3>3. BreakerTypeOK'
      <4>1. BreakerTypeOK /\ RecordFailure
        BY <1>5 DEF Fail
      <4>2. failure_count' \in Nat
        BY <4>1 DEF RecordFailure
      <4>3. state' \in {"Closed", "Open", "HalfOpen"} /\ cooled' \in BOOLEAN
        BY <4>1, Zenon DEF RecordFailure
      <4> QED
        BY <4>2, <4>3
    <3>4. failures' \in 0 .. MaxFailures
      BY <1>5 DEF Fail
    <3>5. streak' \in Nat /\ openings' \in Nat
      BY <1>5 DEF Fail
    <3>6. admittedAt' \in [Callers -> Nat]
      BY <1>5 DEF Fail
    <3> QED
      BY <3>1, <3>2, <3>3, <3>4, <3>5, <3>6
  <2>2. ClosedCountsTheStreak'
    BY <1>5 DEF Fail, RecordFailure
  <2>3. AdmissionsAreInThePast'
    BY <1>5 DEF Fail, RecordFailure
  <2>4. AdmittedBeforeOpening'
    <3>1. \A d \in Callers : pc'[d] \in {"backoff", "calling"} => pc[d] \in {"backoff", "calling"}
      BY <1>5 DEF Fail, Goto
    <3> QED
      BY <1>5, <3>1 DEF Fail, RecordFailure
  <2> QED
    BY <2>1, <2>2, <2>3, <2>4
<1>6. CASE ResetShared
  BY <1>6 DEF ResetShared, Reset, callVars
<1>7. CASE Cooldown
  BY <1>7 DEF Cooldown, Elapse, callVars, history
<1>8. CASE UNCHANGED retryVars
  BY <1>8 DEF retryVars, breakerVars, callVars, history
<1> QED
  BY <1>1, <1>2, <1>3, <1>4, <1>5, <1>6, <1>7, <1>8 DEF RetryNext, Step

LEMMA SpecRetryInv == RetrySpec => []RetryInv
BY InitRetryInv, NextRetryInv, PTL DEF RetrySpec

\* Type correctness, for the breaker and for every caller.
THEOREM SpecRetryTypeOK == RetrySpec => []RetryTypeOK
<1>1. RetryInv => RetryTypeOK
  BY DEF RetryInv
<1> QED
  BY <1>1, SpecRetryInv, PTL

\* A closed breaker's count is the length of the current streak of failures
\* and is below the threshold, whatever phase the recorded requests began in.
THEOREM SpecClosedCountsTheStreak == RetrySpec => []ClosedCountsTheStreak
<1>1. RetryInv => ClosedCountsTheStreak
  BY DEF RetryInv
<1> QED
  BY <1>1, SpecRetryInv, PTL

\* No request is admitted while the breaker is open: what still runs then was
\* admitted before.
THEOREM SpecAdmittedBeforeOpening == RetrySpec => []AdmittedBeforeOpening
<1>1. RetryInv => AdmittedBeforeOpening
  BY DEF RetryInv
<1> QED
  BY <1>1, SpecRetryInv, PTL

\* The breaker trips only on MaxConsecutiveFailures failures in a row.
THEOREM SpecTripsOnlyOnStreak == RetrySpec => TripsOnlyOnStreak
<1>1. ASSUME RetryInv, [RetryNext]_retryVars, state = "Closed", state' = "Open"
      PROVE  streak' >= MaxConsecutiveFailures
  <2> USE BreakerAssumption, <1>1
          DEF RetryInv, RetryTypeOK, BreakerTypeOK, ClosedCountsTheStreak
  <2>1. PICK c \in Callers : Fail(c)
    BY DEF RetryNext, Step, Begin, Check, Wake, Succeed, AllowRequest, RecordSuccess,
           ResetShared, Reset, Cooldown, Elapse, retryVars, breakerVars
  <2> QED
    BY <2>1 DEF Fail, RecordFailure
<1>2. RetryInv /\ [RetryNext]_retryVars
        => [state = "Closed" /\ state' = "Open" => streak' >= MaxConsecutiveFailures]_retryVars
  BY <1>1
<1> QED
  BY <1>2, SpecRetryInv, PTL DEF RetrySpec, TripsOnlyOnStreak

-----------------------------------------------------------------------------
(* Maintenance: what is still to be done.                                  *)

ToDos == {<<>>, <<"projects">>, <<"file_data">>,
          <<"projects", "file_data">>, <<"file_data", "projects">>}

\* The tables in a list of them.
Pending(s) == {s[i] : i \in 1 .. Len(s)}

LEMMA AppendTable ==
    ASSUME NEW s \in Tables, NEW t \in Tables
    PROVE  Append(<<>>, s) = <<s>> /\ Append(<<s>>, t) = <<s, t>>
<1>1. ASSUME NEW p \in Seq(Tables), NEW q \in Seq(Tables),
             Len(p) = Len(q), \A i \in 1 .. Len(p) : p[i] = q[i]
      PROVE  p = q
  BY <1>1
<1>2. /\ <<>> \in Seq(Tables) /\ Append(<<>>, s) \in Seq(Tables) /\ <<s>> \in Seq(Tables)
      /\ Append(<<s>>, t) \in Seq(Tables) /\ <<s, t>> \in Seq(Tables)
  OBVIOUS
<1>3. /\ Len(Append(<<>>, s)) = 1 /\ Len(<<s>>) = 1
      /\ Append(<<>>, s)[1] = s /\ <<s>>[1] = s
  BY <1>2
<1>4. /\ Len(Append(<<s>>, t)) = 2 /\ Len(<<s, t>>) = 2
      /\ Append(<<s>>, t)[1] = s /\ Append(<<s>>, t)[2] = t
      /\ <<s, t>>[1] = s /\ <<s, t>>[2] = t
  BY <1>2
<1>5. Append(<<>>, s) = <<s>>
  BY <1>1, <1>2, <1>3
<1>6. Append(<<s>>, t) = <<s, t>>
  <2>1. \A i \in 1 .. 2 : i = 1 \/ i = 2
    OBVIOUS
  <2>2. \A i \in 1 .. Len(Append(<<s>>, t)) : Append(<<s>>, t)[i] = <<s, t>>[i]
    BY <1>4, <2>1, Zenon
  <2> QED
    BY <1>1, <1>2, <1>4, <2>2, Zenon
<1> QED
  BY <1>5, <1>6

LEMMA BothTables ==
    /\ Canonical(Tables) = <<"projects", "file_data">>
    /\ Sorted(Tables) = <<"file_data", "projects">>
<1>1. "projects" \in Tables /\ "file_data" \in Tables
  BY DEF Tables
<1>2. /\ Append(<<>>, "projects") = <<"projects">>
      /\ Append(<<"projects">>, "file_data") = <<"projects", "file_data">>
  BY <1>1, AppendTable
<1>3. /\ Append(<<>>, "file_data") = <<"file_data">>
      /\ Append(<<"file_data">>, "projects") = <<"file_data", "projects">>
  BY <1>1, AppendTable
<1>4. Canonical(Tables) = <<"projects", "file_data">>
  BY <1>1, <1>2, Zenon DEF Canonical, With
<1>5. Sorted(Tables) = <<"file_data", "projects">>
  BY <1>1, <1>3, Zenon DEF Sorted, With
<1> QED
  BY <1>4, <1>5

LEMMA ListsOfTables ==
    ASSUME NEW T \in SUBSET Tables
    PROVE  /\ Canonical(T) \in ToDos /\ Pending(Canonical(T)) = T
           /\ Sorted(T) \in ToDos /\ Pending(Sorted(T)) = T
<1>1. T \in {{}, {"projects"}, {"file_data"}, Tables}
  BY DEF Tables
<1>2. CASE T = {}
  <2>1. Canonical(T) = <<>> /\ Sorted(T) = <<>>
    BY <1>2 DEF Canonical, Sorted, With
  <2> QED
    BY <1>2, <2>1 DEF ToDos, Pending
<1>3. CASE T = {"projects"}
  <2>1. Canonical(T) = <<"projects">> /\ Sorted(T) = <<"projects">>
    BY <1>3 DEF Canonical, Sorted, With
  <2> QED
    BY <1>3, <2>1 DEF ToDos, Pending
<1>4. CASE T = {"file_data"}
  <2>1. Canonical(T) = <<"file_data">> /\ Sorted(T) = <<"file_data">>
    BY <1>4 DEF Canonical, Sorted, With
  <2> QED
    BY <1>4, <2>1 DEF ToDos, Pending
<1>5. CASE T = Tables
  <2>1. /\ Canonical(T) = <<"projects", "file_data">>
        /\ Sorted(T) = <<"file_data", "projects">>
    BY <1>5, BothTables
  <2> QED
    BY <1>5, <2>1 DEF ToDos, Pending, Tables
<1> QED
  BY <1>1, <1>2, <1>3, <1>4, <1>5

LEMMA ListsInTypeOK ==
    {Canonical(T) : T \in SUBSET Tables} \cup {Sorted(T) : T \in SUBSET Tables} = ToDos
<1>1. Canonical({}) = <<>>
  BY DEF Canonical, With
<1>2. Canonical({"projects"}) = <<"projects">>
  BY DEF Canonical, With
<1>3. Canonical({"file_data"}) = <<"file_data">>
  BY DEF Canonical, With
<1>6. {}  \in SUBSET Tables /\ {"projects"} \in SUBSET Tables /\ {"file_data"} \in SUBSET Tables
  BY DEF Tables
<1>7. ToDos \subseteq {Canonical(T) : T \in SUBSET Tables} \cup {Sorted(T) : T \in SUBSET Tables}
  BY <1>1, <1>2, <1>3, <1>6, BothTables DEF ToDos
<1> QED
  BY <1>7, ListsOfTables

LEMMA NextTable ==
    ASSUME NEW s \in ToDos
    PROVE  /\ s = <<>> => Pending(s) = {}
           /\ s # <<>> => /\ Head(s) \in Tables /\ Head(s) \in Pending(s)
                          /\ Tail(s) \in ToDos
                          /\ Pending(Tail(s)) = Pending(s) \ {Head(s)}
<1>1. CASE s = <<>>
  BY <1>1 DEF Pending
<1>2. CASE s = <<"projects">> \/ s = <<"file_data">>
  <2>1. Tail(s) = <<>> /\ Len(s) = 1 /\ Head(s) = s[1]
    <3>1. CASE s = <<"projects">>
      BY <3>1
    <3>2. CASE s = <<"file_data">>
      BY <3>2
    <3> QED
      BY <1>2, <3>1, <3>2
  <2>2. s[1] \in Tables
    BY <1>2 DEF Tables
  <2>3. Pending(s) = {s[1]} /\ Pending(Tail(s)) = {}
    BY <2>1 DEF Pending
  <2> QED
    BY <1>2, <2>1, <2>2, <2>3 DEF ToDos
<1>3. CASE s = <<"projects", "file_data">>
  <2>1. Head(s) = "projects" /\ Tail(s) = <<"file_data">> /\ Pending(s) = Tables
    BY <1>3 DEF Pending, Tables
  <2> QED
    BY <2>1 DEF Pending, ToDos, Tables
<1>4. CASE s = <<"file_data", "projects">>
  <2>1. Head(s) = "file_data" /\ Tail(s) = <<"projects">> /\ Pending(s) = Tables
    BY <1>4 DEF Pending, Tables
  <2> QED
    BY <2>1 DEF Pending, ToDos, Tables
<1> QED
  BY <1>1, <1>2, <1>3, <1>4 DEF ToDos

-----------------------------------------------------------------------------
(* Maintenance: the invariant.                                             *)

CallType ==
    [at : {"idle", "clearing", "reading", "writing"},
     tables : SUBSET Tables, filter : Projects \cup {All}, todo : ToDos,
     snapshot : SUBSET Rows, touched : SUBSET Rows, got : SUBSET Rows]

\* The values that TypeOK only describes at their arguments are functions.
Shapes ==
    /\ answer = [c \in Calls |-> answer[c]]
    /\ seen = [c \in Calls |-> seen[c]]
    /\ file = [t \in Tables |-> file[t]]

\* The tables that a call has dealt with.
Done(c) == call[c].tables \ Pending(call[c].todo)

In(s, D) == {r \in s : \E t \in D : r \in Table(t)}

\* The rows of the tables in D that the export shows.
Shown(c, D) == {r \in call[c].snapshot :
                    \E t \in D : r \in Selected(call[c].snapshot, t, call[c].filter)}

\* A call is open while it is at work, and its snapshot and the rows there are now
\* are among the states that it has seen.
OpenAtWork(c) ==
    /\ At(c, "idle") <=> answer[c].kind # "open"
    /\ ~At(c, "idle") => rows \in seen[c] /\ call[c].snapshot \in seen[c]

\* What a transaction has got is what its snapshot has in the tables done, but for
\* a table whose DELETE failed unnoticed.
GotFromSnapshot(c) ==
    /\ At(c, "clearing") => \E D \in SUBSET Done(c) :
           call[c].got = In(call[c].snapshot, D) /\ (faults = 0 => D = Done(c))
    /\ At(c, "reading") => call[c].got = Shown(c, Done(c))
    /\ At(c, "writing") => call[c].got = Shown(c, call[c].tables)

\* The files that an export has written so far are its own until another writes.
FilesSoFar(c) ==
    At(c, "writing") /\ alone[c] =>
        \A t \in Done(c) : file[t] = call[c].got \cap Table(t)

FilesAtTheEnd(c) ==
    answer[c].kind = "shown" /\ alone[c] =>
        \E s \in seen[c] : \A t \in DOMAIN answer[c].shown :
            file[t] = Selected(s, t, answer[c].filter)

\* What is to be done is of the tables named.
TodoIsNamed(c) == Pending(call[c].todo) \subseteq call[c].tables

CallInv(c) ==
    /\ OpenAtWork(c) /\ TodoIsNamed(c)
    /\ GotFromSnapshot(c) /\ FilesSoFar(c) /\ FilesAtTheEnd(c)

DbInv ==
    /\ TypeOK /\ Shapes
    /\ \A c \in Calls : CallInv(c)

LEMMA CallTypes ==
    /\ TypeOK => call \in [Calls -> CallType]
    /\ TypeOK' => call' \in [Calls -> CallType]
BY ListsInTypeOK DEF TypeOK, CallType

\* What the rest of TypeOK comes to.
LEMMA TypesSuffice ==
    ASSUME /\ rows' \subseteq Rows /\ call' \in [Calls -> CallType]
           /\ \A c \in Calls :
                 answer'[c].kind \in {"idle", "open", "cleared", "shown", "failed"}
           /\ \A t \in Tables : file'[t] \in {None, Partial} \/ file'[t] \subseteq Table(t)
           /\ faults' \in 0 .. MaxFaults /\ writes' \in 0 .. MaxWrites
           /\ \A c \in Calls : seen'[c] \subseteq SUBSET Rows
           /\ alone' \in [Calls -> BOOLEAN]
    PROVE  TypeOK'
BY ListsInTypeOK DEF TypeOK, CallType

\* All of a call but the rows that others have written.
SameCall(d) ==
    /\ call'[d].at = call[d].at /\ call'[d].tables = call[d].tables
    /\ call'[d].filter = call[d].filter /\ call'[d].todo = call[d].todo
    /\ call'[d].snapshot = call[d].snapshot /\ call'[d].got = call[d].got

\* What a step of another call leaves to a call.
LeavesBe(d) ==
    /\ SameCall(d) /\ answer'[d] = answer[d]
    /\ seen[d] \subseteq seen'[d]
    /\ ~At(d, "idle") => rows' \in seen'[d]
    /\ faults' = 0 => faults = 0
    /\ alone'[d] => alone[d] /\ file' = file

LEMMA OthersKeep ==
    ASSUME DbInv, NEW d \in Calls, LeavesBe(d)
    PROVE  CallInv(d)'
<1> USE DEF LeavesBe, SameCall, DbInv, CallInv
<1>1. OpenAtWork(d)' /\ TodoIsNamed(d)'
  BY DEF OpenAtWork, TodoIsNamed, At
<1>2. GotFromSnapshot(d)'
  <2>1. Done(d)' = Done(d)
    BY DEF Done
  <2>2. \A D : Shown(d, D)' = Shown(d, D)
    BY DEF Shown
  <2> QED
    BY <2>1, <2>2 DEF GotFromSnapshot, At
<1>3. FilesSoFar(d)'
  BY DEF FilesSoFar, Done, At
<1>4. FilesAtTheEnd(d)'
  BY DEF FilesAtTheEnd
<1> QED
  BY <1>1, <1>2, <1>3, <1>4

-----------------------------------------------------------------------------
(* Maintenance: the steps.                                                 *)

NoCallType == NoCall \in CallType /\ NoCall.at = "idle"

LEMMA NoCallTyped == NoCallType
<1>1. <<>> \in ToDos
  BY DEF ToDos
<1> QED
  BY <1>1 DEF NoCallType, NoCall, CallType

\* What a commit does to the calls.
LEMMA CommitMoves ==
    ASSUME DbInv, NEW c, NEW S \in SUBSET Rows, NEW wrote \in SUBSET Rows,
           Commit(c, S, wrote)
    PROVE  /\ rows' \subseteq Rows /\ call' \in [Calls -> CallType]
           /\ \A d \in Calls : seen'[d] \subseteq SUBSET Rows
           /\ seen' = [d \in Calls |-> seen'[d]]
           /\ c \in Calls => call'[c] = NoCall /\ seen'[c] = {}
           /\ \A d \in Calls \ {c} :
                 /\ SameCall(d)
                 /\ seen'[d] = IF At(d, "idle") THEN seen[d] ELSE seen[d] \cup {S}
<1> USE DEF DbInv
<1>1. call \in [Calls -> CallType] /\ \A d \in Calls : seen[d] \subseteq SUBSET Rows
  BY CallTypes DEF TypeOK
<1>2. \A d \in Calls : call'[d] = IF d = c THEN NoCall
                                  ELSE IF At(d, "idle") THEN call[d]
                                  ELSE [call[d] EXCEPT !.touched = @ \cup wrote]
  BY DEF Commit
<1>3. \A d \in Calls : seen'[d] = IF d = c THEN {}
                                  ELSE IF At(d, "idle") THEN seen[d] ELSE seen[d] \cup {S}
  BY DEF Commit
<1>4. ASSUME NEW d \in Calls
      PROVE  [call[d] EXCEPT !.touched = @ \cup wrote] \in CallType
  BY <1>1 DEF CallType
<1>5. call' \in [Calls -> CallType]
  <2>1. \A d \in Calls : call'[d] \in CallType
    BY <1>1, <1>2, <1>4, NoCallTyped DEF NoCallType
  <2>2. call' = [d \in Calls |-> call'[d]]
    BY DEF Commit
  <2> QED
    BY <2>1, <2>2
<1>6. ASSUME NEW d \in Calls \ {c} PROVE SameCall(d)
  <2>1. CASE At(d, "idle")
    BY <1>2, <2>1 DEF SameCall
  <2>2. CASE ~At(d, "idle")
    <3>1. call'[d] = [call[d] EXCEPT !.touched = @ \cup wrote] /\ call[d] \in CallType
      BY <1>1, <1>2, <2>2
    <3> QED
      BY <3>1 DEF SameCall, CallType
  <2> QED
    BY <2>1, <2>2
<1>7. seen' = [d \in Calls |-> seen'[d]]
  BY DEF Commit
<1>8. ASSUME NEW d \in Calls PROVE seen'[d] \subseteq SUBSET Rows
  <2>1. {} \subseteq SUBSET Rows /\ seen[d] \subseteq SUBSET Rows
        /\ seen[d] \cup {S} \subseteq SUBSET Rows
    BY <1>1
  <2> QED
    BY <1>3, <2>1
<1> QED
  BY <1>2, <1>3, <1>5, <1>6, <1>7, <1>8 DEF Commit

\* A step of call c that does nothing else to the calls.
OnlyMoves(c) ==
    /\ \A d \in Calls \ {c} : LeavesBe(d)
    /\ TypeOK' /\ Shapes'

LEMMA OnlyMovesKeeps ==
    ASSUME DbInv, NEW c, OnlyMoves(c), c \in Calls => CallInv(c)'
    PROVE  DbInv'
<1>1. \A d \in Calls \ {c} : CallInv(d)'
  BY OthersKeep DEF OnlyMoves
<1> QED
  BY <1>1 DEF DbInv, OnlyMoves

LEMMA StatementKeeps ==
    ASSUME DbInv, NEW S \in SUBSET Rows, NEW wrote \in SUBSET Rows, Statement(S, wrote)
    PROVE  /\ DbInv'
           /\ rows' = S /\ Promise!Seen /\ UNCHANGED <<answer, faults>>
<1> USE DEF DbInv
<1>1. /\ None \notin Calls /\ MaxWrites \in Nat
      /\ writes < MaxWrites /\ writes' = writes + 1 /\ Commit(None, S, wrote)
      /\ UNCHANGED <<answer, file, faults, alone>>
  BY MaintenanceAssumption DEF Statement
<1>2. /\ rows' \subseteq Rows /\ call' \in [Calls -> CallType] /\ rows' = S
      /\ \A d \in Calls : seen'[d] \subseteq SUBSET Rows
      /\ seen' = [d \in Calls |-> seen'[d]]
      /\ \A d \in Calls :
            /\ SameCall(d)
            /\ seen'[d] = IF At(d, "idle") THEN seen[d] ELSE seen[d] \cup {S}
  BY <1>1, CommitMoves DEF Commit
<1>3. TypeOK'
  <2>1. writes' \in 0 .. MaxWrites
    BY <1>1 DEF TypeOK
  <2> QED
    BY <1>1, <1>2, <2>1, TypesSuffice DEF TypeOK
<1>4. Shapes'
  BY <1>1, <1>2 DEF Shapes
<1>5. \A d \in Calls : LeavesBe(d)
  BY <1>1, <1>2 DEF LeavesBe
<1>6. DbInv'
  BY <1>1, <1>3, <1>4, <1>5, OnlyMovesKeeps DEF OnlyMoves
<1>7. Promise!Seen
  <2>1. \A d \in Calls : d \in Promise!Open <=> ~At(d, "idle")
    BY DEF Promise!Open, CallInv, OpenAtWork
  <2>2. \A d \in Calls : seen'[d] = IF d \in Promise!Open THEN seen[d] \cup {rows'} ELSE seen[d]
    BY <1>2, <2>1
  <2> QED
    BY <1>2, <2>2 DEF Promise!Seen
<1> QED
  BY <1>1, <1>2, <1>6, <1>7

LEMMA UpsertKeeps ==
    ASSUME DbInv, Upsert
    PROVE  DbInv' /\ Promise!Put
<1>1. PICK r \in Rows : Statement(rows \cup {r}, {r})
  BY DEF Upsert
<1>2. rows \cup {r} \in SUBSET Rows /\ {r} \in SUBSET Rows
  BY DEF DbInv, TypeOK
<1> QED
  BY <1>1, <1>2, StatementKeeps DEF Promise!Put, Rows

LEMMA DeleteByPathKeeps ==
    ASSUME DbInv, DeleteByPath
    PROVE  DbInv' /\ Promise!RemovePath
<1>1. PICK p \in Paths, gone \in SUBSET Rows :
        /\ gone = {f \in rows \cap Files : PathOf[f] = p}
        /\ Statement(rows \ gone, gone)
  BY DEF DeleteByPath, Rows
<1>2. rows \ gone \in SUBSET Rows
  BY DEF DbInv, TypeOK
<1>3. DbInv' /\ rows' = rows \ gone /\ Promise!Seen /\ UNCHANGED <<answer, faults>>
  BY <1>1, <1>2, StatementKeeps
<1>4. rows \ gone = rows \ {f \in Files : PathOf[f] = p}
  BY <1>1
<1> QED
  BY <1>3, <1>4 DEF Promise!RemovePath

\* A transaction begins: nothing is done, and its snapshot is what there is.
LEMMA BeginKeeps ==
    ASSUME DbInv, NEW c \in Calls, NEW at \in {"clearing", "reading"},
           NEW T \in SUBSET Tables, NEW filter \in Projects \cup {All},
           NEW todo \in ToDos, Pending(todo) = T,
           BeginTransaction(c, at, T, filter, todo)
    PROVE  DbInv' /\ Promise!Begin(c)
<1> USE DEF DbInv
<1>1. /\ answer[c].kind = "idle"
      /\ call' = [call EXCEPT ![c] =
           [NoCall EXCEPT !.at = at, !.tables = T, !.filter = filter, !.todo = todo,
                          !.snapshot = rows]]
      /\ answer' = [answer EXCEPT ![c] = [kind |-> "open"]]
      /\ seen' = [seen EXCEPT ![c] = {rows}]
      /\ UNCHANGED <<rows, file, faults, writes, alone>>
  BY DEF BeginTransaction
<1>2. call \in [Calls -> CallType] /\ rows \in SUBSET Rows
  BY CallTypes DEF TypeOK
<1>3. PICK new : new = [NoCall EXCEPT !.at = at, !.tables = T, !.filter = filter,
                                      !.todo = todo, !.snapshot = rows]
  OBVIOUS
<1>4. /\ new \in CallType /\ new.at = at /\ new.tables = T /\ new.filter = filter
      /\ new.todo = todo /\ new.snapshot = rows /\ new.got = {}
  BY <1>2, <1>3 DEF NoCall, CallType
<1>5. /\ call' \in [Calls -> CallType] /\ call'[c] = new
      /\ \A d \in Calls \ {c} : call'[d] = call[d]
  BY <1>1, <1>2, <1>3, <1>4
<1>6. /\ answer' = [d \in Calls |-> answer'[d]] /\ answer'[c] = [kind |-> "open"]
      /\ \A d \in Calls \ {c} : answer'[d] = answer[d]
  BY <1>1 DEF Shapes
<1>7. /\ seen' = [d \in Calls |-> seen'[d]] /\ seen'[c] = {rows}
      /\ \A d \in Calls \ {c} : seen'[d] = seen[d]
  BY <1>1 DEF Shapes
<1>8. TypeOK'
  <2>1. \A d \in Calls : seen'[d] \subseteq SUBSET Rows
    BY <1>2, <1>7 DEF TypeOK
  <2>2. \A d \in Calls : answer'[d].kind \in {"idle", "open", "cleared", "shown", "failed"}
    BY <1>6 DEF TypeOK
  <2> QED
    BY <1>1, <1>5, <2>1, <2>2, TypesSuffice DEF TypeOK
<1>9. ASSUME NEW d \in Calls \ {c} PROVE LeavesBe(d)
  <2>1. ~At(d, "idle") => rows \in seen[d]
    BY DEF CallInv, OpenAtWork
  <2> QED
    BY <1>1, <1>5, <1>6, <1>7, <2>1 DEF LeavesBe, SameCall
<1>10. CallInv(c)'
  <2>1. OpenAtWork(c)'
    BY <1>1, <1>4, <1>5, <1>6, <1>7 DEF OpenAtWork, At
  <2>2. Done(c)' = {}
    BY <1>4, <1>5 DEF Done
  <2>3. In(call'[c].snapshot, {}) = {} /\ Shown(c, {})' = {}
    BY DEF In, Shown
  <2>4. GotFromSnapshot(c)'
    BY <1>4, <1>5, <2>2, <2>3 DEF GotFromSnapshot, At
  <2>5. FilesSoFar(c)' /\ FilesAtTheEnd(c)'
    BY <1>4, <1>5, <1>6 DEF FilesSoFar, FilesAtTheEnd, At
  <2> QED
    BY <2>1, <2>4, <2>5, <1>4, <1>5 DEF CallInv, TodoIsNamed
<1>11. DbInv'
  BY <1>1, <1>6, <1>7, <1>8, <1>9, <1>10, OnlyMovesKeeps DEF OnlyMoves, Shapes
<1>12. Promise!Begin(c)
  BY <1>1 DEF Promise!Begin
<1> QED
  BY <1>11, <1>12

\* A step of call c that changes its transaction, and perhaps the faults or files.
Works(c, at, todo, got) ==
    /\ call'[c].at = at /\ call'[c].todo = todo /\ call'[c].got = got
    /\ call'[c].tables = call[c].tables /\ call'[c].filter = call[c].filter
    /\ call'[c].snapshot = call[c].snapshot
    /\ \A d \in Calls \ {c} : call'[d] = call[d]

\* Such a step is none of Store's, or a lapse.
LEMMA WorkKeeps ==
    ASSUME DbInv, NEW c \in Calls, ~At(c, "idle"),
           NEW at \in {"clearing", "reading", "writing"},
           NEW todo \in ToDos, Pending(todo) \subseteq call[c].tables,
           NEW got \in SUBSET Rows, call' \in [Calls -> CallType], Works(c, at, todo, got),
           UNCHANGED <<rows, answer, writes, seen>>,
           faults' \in 0 .. MaxFaults, faults' = 0 => faults = 0,
           alone' \in [Calls -> BOOLEAN], file' = [t \in Tables |-> file'[t]],
           \A t \in Tables : file'[t] \in {None, Partial} \/ file'[t] \subseteq Table(t),
           \A d \in Calls \ {c} : alone'[d] => alone[d] /\ file' = file,
           GotFromSnapshot(c)', FilesSoFar(c)'
    PROVE  DbInv'
<1> USE DEF DbInv
<1>1. TypeOK' /\ Shapes'
  BY TypesSuffice DEF TypeOK, Shapes
<1>2. ASSUME NEW d \in Calls \ {c} PROVE LeavesBe(d)
  <2>1. ~At(d, "idle") => rows \in seen[d]
    BY DEF CallInv, OpenAtWork
  <2> QED
    BY <2>1 DEF LeavesBe, SameCall, Works
<1>3. OpenAtWork(c)' /\ answer[c].kind = "open"
  BY DEF CallInv, OpenAtWork, At, Works
<1>4. CallInv(c)'
  BY <1>3 DEF CallInv, FilesAtTheEnd, TodoIsNamed, Works
<1> QED
  BY <1>1, <1>2, <1>4, OnlyMovesKeeps DEF OnlyMoves

LEMMA ClearTableKeeps ==
    ASSUME DbInv, NEW c \in Calls, ClearTable(c)
    PROVE  DbInv' /\ [Promise!Next]_Promise!vars
<1> USE DEF DbInv
<1>1. PICK t : t = Head(call[c].todo)
  OBVIOUS
<1>2. /\ call \in [Calls -> CallType] /\ call[c] \in CallType
      /\ At(c, "clearing") /\ call[c].todo # <<>> /\ call[c].todo \in ToDos
      /\ UNCHANGED <<rows, answer, file, writes, seen, alone>>
      /\ faults \in 0 .. MaxFaults /\ MaxFaults \in Nat
  BY CallTypes, MaintenanceAssumption DEF ClearTable, CallType, TypeOK
<1>3. /\ t \in Tables /\ t \in Pending(call[c].todo) /\ Tail(call[c].todo) \in ToDos
      /\ Pending(Tail(call[c].todo)) = Pending(call[c].todo) \ {t}
      /\ Pending(Tail(call[c].todo)) \subseteq call[c].tables
  BY <1>1, <1>2, NextTable DEF CallInv, TodoIsNamed
<1>4. PICK D \in SUBSET Done(c) : /\ call[c].got = In(call[c].snapshot, D)
                                  /\ faults = 0 => D = Done(c)
  BY <1>2 DEF CallInv, GotFromSnapshot
<1>5. t \in call[c].tables
  BY <1>3 DEF CallInv, TodoIsNamed
<1>6. ASSUME NEW got \in SUBSET Rows, NEW E \in SUBSET (Done(c) \cup {t}),
             call' = [call EXCEPT ![c].todo = Tail(@), ![c].got = got],
             got = In(call[c].snapshot, E),
             faults' \in 0 .. MaxFaults, faults' = 0 => faults = 0 /\ E = Done(c) \cup {t}
      PROVE  DbInv'
  <2>1. call' \in [Calls -> CallType] /\ Works(c, "clearing", Tail(call[c].todo), got)
    BY <1>2, <1>3, <1>6 DEF CallType, Works, At
  <2>2. Done(c)' = Done(c) \cup {t}
    BY <1>3, <1>5, <2>1 DEF Done, Works
  <2>3. GotFromSnapshot(c)' /\ FilesSoFar(c)'
    BY <1>6, <2>1, <2>2 DEF GotFromSnapshot, FilesSoFar, Works, At
  <2>4. ~At(c, "idle")
    BY <1>2 DEF At
  <2> QED
    BY <1>2, <1>3, <1>6, <2>1, <2>3, <2>4, WorkKeeps DEF TypeOK, Shapes
<1>7. CASE /\ call' = [call EXCEPT ![c].todo = Tail(@),
                                   ![c].got = @ \cup (call[c].snapshot \cap Table(t))]
           /\ UNCHANGED faults
  <2>1. PICK got : got = call[c].got \cup (call[c].snapshot \cap Table(t))
    OBVIOUS
  <2>2. got = In(call[c].snapshot, D \cup {t})
    BY <1>4, <2>1 DEF In
  <2>3. got \in SUBSET Rows
    BY <1>2, <2>1 DEF CallType
  <2>4. call' = [call EXCEPT ![c].todo = Tail(@), ![c].got = got]
    BY <1>2, <1>7, <2>1
  <2>5. faults' \in 0 .. MaxFaults
        /\ (faults' = 0 => faults = 0 /\ D \cup {t} = Done(c) \cup {t})
    BY <1>2, <1>4, <1>7
  <2>6. D \cup {t} \in SUBSET (Done(c) \cup {t})
    OBVIOUS
  <2>7. DbInv'
    BY <1>6, <2>2, <2>3, <2>4, <2>5, <2>6
  <2> QED
    BY <1>2, <1>7, <2>7 DEF Promise!vars
<1>8. CASE /\ faults < MaxFaults /\ faults' = faults + 1
           /\ call' = [call EXCEPT ![c].todo = Tail(@)]
  <2>1. call' = [call EXCEPT ![c].todo = Tail(@), ![c].got = call[c].got]
    BY <1>2, <1>8 DEF CallType
  <2>2. faults' \in 0 .. MaxFaults /\ faults' # 0
    BY <1>2, <1>8
  <2>3. call[c].got \in SUBSET Rows
    BY <1>2 DEF CallType
  <2>4. DbInv'
    BY <1>4, <1>6, <2>1, <2>2, <2>3
  <2>5. Promise!Lapse
    BY <1>2, <1>8 DEF Promise!Lapse
  <2> QED
    BY <2>4, <2>5 DEF Promise!Next
<1> QED
  BY <1>1, <1>7, <1>8 DEF ClearTable

LEMMA ReadTableKeeps ==
    ASSUME DbInv, NEW c \in Calls, ReadTable(c)
    PROVE  DbInv' /\ UNCHANGED Promise!vars
<1> USE DEF DbInv
<1>1. PICK t, got : /\ t = Head(call[c].todo)
                    /\ got = call[c].got \cup Selected(call[c].snapshot, t, call[c].filter)
  OBVIOUS
<1>2. /\ call \in [Calls -> CallType] /\ call[c] \in CallType
      /\ At(c, "reading") /\ call[c].todo # <<>> /\ call[c].todo \in ToDos
      /\ UNCHANGED <<rows, answer, file, faults, writes, seen, alone>>
  BY CallTypes DEF ReadTable, CallType
<1>3. /\ t \in Tables /\ t \in Pending(call[c].todo) /\ Tail(call[c].todo) \in ToDos
      /\ Pending(Tail(call[c].todo)) = Pending(call[c].todo) \ {t}
      /\ Pending(Tail(call[c].todo)) \subseteq call[c].tables
      /\ t \in call[c].tables
  BY <1>1, <1>2, NextTable DEF CallInv, TodoIsNamed
<1>4. call' = [call EXCEPT ![c].todo = Tail(@), ![c].got = got]
  BY <1>1, <1>2 DEF ReadTable
<1>5. got \in SUBSET Rows
  BY <1>1, <1>2 DEF CallType, Selected
<1>6. call' \in [Calls -> CallType] /\ Works(c, "reading", Tail(call[c].todo), got)
  BY <1>2, <1>3, <1>4, <1>5 DEF CallType, Works, At
<1>7. Done(c)' = Done(c) \cup {t}
  BY <1>3, <1>6 DEF Done, Works
<1>8. got = Shown(c, Done(c) \cup {t})
  <2>1. call[c].got = Shown(c, Done(c))
    BY <1>2 DEF CallInv, GotFromSnapshot
  <2> QED
    BY <1>1, <2>1 DEF Shown, Selected
<1>9. Shown(c, Done(c))' = Shown(c, Done(c) \cup {t})
  BY <1>6, <1>7 DEF Shown, Works
<1>10. GotFromSnapshot(c)' /\ FilesSoFar(c)'
  BY <1>6, <1>8, <1>9 DEF GotFromSnapshot, FilesSoFar, Works, At
<1>11. DbInv'
  <2>1. ~At(c, "idle")
    BY <1>2 DEF At
  <2> QED
    BY <1>2, <1>3, <1>5, <1>6, <1>10, <2>1, WorkKeeps DEF TypeOK, Shapes
<1> QED
  BY <1>2, <1>11 DEF Promise!vars

LEMMA CommitExportKeeps ==
    ASSUME DbInv, NEW c \in Calls, CommitExport(c)
    PROVE  DbInv' /\ UNCHANGED Promise!vars
<1> USE DEF DbInv
<1>1. PICK todo : todo = Sorted(call[c].tables)
  OBVIOUS
<1>2. /\ call \in [Calls -> CallType] /\ call[c] \in CallType
      /\ At(c, "reading") /\ call[c].todo = <<>> /\ call[c].todo \in ToDos
      /\ call[c].got \in SUBSET Rows /\ call[c].tables \in SUBSET Tables
      /\ UNCHANGED <<rows, answer, file, faults, writes, seen>>
      /\ alone' = [alone EXCEPT ![c] = TRUE]
  BY CallTypes DEF CommitExport, CallType
<1>3. todo \in ToDos /\ Pending(todo) = call[c].tables /\ Pending(call[c].todo) = {}
  BY <1>1, <1>2, ListsOfTables, NextTable
<1>4. call' = [call EXCEPT ![c].at = "writing", ![c].todo = todo]
  BY <1>1 DEF CommitExport
<1>5. call' \in [Calls -> CallType] /\ Works(c, "writing", todo, call[c].got)
  BY <1>2, <1>3, <1>4 DEF CallType, Works
<1>6. Done(c)' = {}
  BY <1>3, <1>5 DEF Done, Works
<1>7. call[c].got = Shown(c, call[c].tables)
  <2>1. Done(c) = call[c].tables
    BY <1>3 DEF Done
  <2> QED
    BY <1>2, <2>1 DEF CallInv, GotFromSnapshot
<1>8. Shown(c, call[c].tables)' = Shown(c, call[c].tables)
  BY <1>5 DEF Shown, Works
<1>9. GotFromSnapshot(c)' /\ FilesSoFar(c)'
  BY <1>5, <1>6, <1>7, <1>8 DEF GotFromSnapshot, FilesSoFar, Works, At
<1>10. /\ alone' \in [Calls -> BOOLEAN]
       /\ \A d \in Calls \ {c} : alone'[d] => alone[d] /\ file' = file
  BY <1>2 DEF TypeOK
<1>11. DbInv'
  <2>1. ~At(c, "idle")
    BY <1>2 DEF At
  <2>2. /\ faults' \in 0 .. MaxFaults /\ (faults' = 0 => faults = 0)
        /\ file' = [t \in Tables |-> file'[t]]
        /\ \A t \in Tables : file'[t] \in {None, Partial} \/ file'[t] \subseteq Table(t)
    BY <1>2 DEF TypeOK, Shapes
  <2>3. Pending(todo) \subseteq call[c].tables
    BY <1>3
  <2> QED
    BY <1>2, <1>3, <1>5, <1>9, <1>10, <2>1, <2>2, <2>3, WorkKeeps
<1> QED
  BY <1>2, <1>11 DEF Promise!vars

LEMMA WriteFileKeeps ==
    ASSUME DbInv, NEW c \in Calls, WriteFile(c)
    PROVE  DbInv' /\ UNCHANGED Promise!vars
<1> USE DEF DbInv
<1>1. PICK t : t = Head(call[c].todo)
  OBVIOUS
<1>2. /\ call \in [Calls -> CallType] /\ call[c] \in CallType
      /\ At(c, "writing") /\ call[c].todo # <<>> /\ call[c].todo \in ToDos
      /\ call[c].got \in SUBSET Rows
      /\ UNCHANGED <<rows, answer, faults, writes, seen>>
      /\ call' = [call EXCEPT ![c].todo = Tail(@)]
  BY CallTypes DEF WriteFile, CallType
<1>3. /\ t \in Tables /\ t \in Pending(call[c].todo) /\ Tail(call[c].todo) \in ToDos
      /\ Pending(Tail(call[c].todo)) = Pending(call[c].todo) \ {t}
      /\ Pending(Tail(call[c].todo)) \subseteq call[c].tables
      /\ t \in call[c].tables
  BY <1>1, <1>2, NextTable DEF CallInv, TodoIsNamed
<1>4. /\ file' = [u \in Tables |-> file'[u]] /\ file'[t] = call[c].got \cap Table(t)
      /\ \A u \in Tables \ {t} : file'[u] = file[u]
  BY <1>1, <1>3 DEF WriteFile, Shapes
<1>5. alone' = [d \in Calls |-> d = c /\ alone[d]]
  BY DEF WriteFile
<1>6. /\ alone' \in [Calls -> BOOLEAN] /\ alone'[c] = alone[c]
      /\ \A d \in Calls \ {c} : ~alone'[d]
  <2>1. alone[c] \in BOOLEAN
    BY DEF TypeOK
  <2> QED
    BY <1>5, <2>1
<1>7. call' \in [Calls -> CallType] /\ Works(c, "writing", Tail(call[c].todo), call[c].got)
  BY <1>2, <1>3 DEF CallType, Works, At
<1>8. Done(c)' = Done(c) \cup {t}
  BY <1>3, <1>7 DEF Done, Works
<1>9. GotFromSnapshot(c)'
  <2>1. Shown(c, call[c].tables)' = Shown(c, call[c].tables)
    BY <1>7 DEF Shown, Works
  <2>2. call[c].got = Shown(c, call[c].tables)
    BY <1>2 DEF CallInv, GotFromSnapshot
  <2> QED
    BY <1>7, <2>1, <2>2 DEF GotFromSnapshot, Works, At
<1>10. FilesSoFar(c)'
  <2>1. alone'[c] => \A u \in Done(c) : file[u] = call[c].got \cap Table(u)
    BY <1>2, <1>6 DEF CallInv, FilesSoFar
  <2>2. Done(c) \subseteq Tables
    BY <1>2 DEF Done, CallType
  <2> QED
    BY <1>4, <1>7, <1>8, <2>1, <2>2 DEF FilesSoFar, Works
<1>11. DbInv'
  <2>1. ~At(c, "idle")
    BY <1>2 DEF At
  <2>2. \A u \in Tables : file'[u] \in {None, Partial} \/ file'[u] \subseteq Table(u)
    BY <1>4 DEF TypeOK
  <2> QED
    BY <1>2, <1>3, <1>4, <1>6, <1>7, <1>9, <1>10, <2>1, <2>2, WorkKeeps DEF TypeOK
<1> QED
  BY <1>2, <1>11 DEF Promise!vars


\* A call has ended: of what it must keep, only what it answered remains.
LEMMA EndKeeps ==
    ASSUME NEW c, call'[c] = NoCall, answer'[c].kind # "open", FilesAtTheEnd(c)'
    PROVE  CallInv(c)'
<1>1. call'[c].at = "idle" /\ call'[c].todo = <<>>
  BY DEF NoCall
<1>2. Pending(<<>>) = {}
  BY DEF Pending
<1> QED
  BY <1>1, <1>2
  DEF CallInv, OpenAtWork, TodoIsNamed, GotFromSnapshot, FilesSoFar, At

\* A call at work is open for Store, and nothing of it is left to do.
LEMMA AtWork ==
    ASSUME DbInv, NEW c \in Calls, ~At(c, "idle")
    PROVE  /\ c \in Promise!Open /\ call[c].snapshot \in seen[c]
           /\ call[c] \in CallType
           /\ call[c].todo = <<>> => Done(c) = call[c].tables
<1>1. call[c] \in CallType
  BY CallTypes DEF DbInv, TypeOK
<1>2. c \in Promise!Open /\ call[c].snapshot \in seen[c]
  BY DEF DbInv, CallInv, OpenAtWork, Promise!Open
<1>3. call[c].todo = <<>> => Pending(call[c].todo) = {}
  BY DEF Pending
<1> QED
  BY <1>1, <1>2, <1>3 DEF Done

\* Store's own instance of the cardinality is the same operator.
LEMMA SameCount == \A S : Cardinality(S) = Promise!Cardinality(S)
BY DEF Cardinality, Promise!Cardinality

\* How the answer of a reset's commit may read.
Final(said) == said.kind \in {"cleared", "failed"}

\* What CommitReset and CommitUnheard have in common: for Store, the tables of the
\* reset are deleted as they were in one state it has seen.
LEMMA CommitDeletesKeeps ==
    ASSUME DbInv, NEW c \in Calls, NEW said, Final(said),
           CommitDeletes(c), Answer(c, said)
    PROVE  /\ DbInv'
           /\ c \in Promise!Open /\ call[c].snapshot \in seen[c]
           /\ call[c].tables \in SUBSET Promise!Tables
           /\ Promise!Delete(call[c].snapshot, call[c].tables)
           /\ Promise!End(c) /\ UNCHANGED faults
<1> USE DEF DbInv
<1>1. PICK got : got = call[c].got
  OBVIOUS
<1>2. /\ At(c, "clearing") /\ call[c].todo = <<>>
      /\ Commit(c, rows \ got, got) /\ rows' = rows \ got
      /\ answer' = [answer EXCEPT ![c] = said]
      /\ UNCHANGED <<file, faults, writes, alone>>
  BY <1>1 DEF CommitDeletes, Commit, Answer
<1>3. ~At(c, "idle")
  BY <1>2 DEF At
<1>4. /\ c \in Promise!Open /\ call[c].snapshot \in seen[c]
      /\ call[c] \in CallType /\ Done(c) = call[c].tables
  BY <1>2, <1>3, AtWork
<1>5. got \in SUBSET Rows /\ rows \ got \in SUBSET Rows /\ call[c].tables \in SUBSET Tables
  BY <1>1, <1>4 DEF CallType, TypeOK
<1>6. PICK D \in SUBSET call[c].tables :
        got = In(call[c].snapshot, D) /\ (faults = 0 => D = call[c].tables)
  BY <1>1, <1>2, <1>4 DEF CallInv, GotFromSnapshot
<1>7. /\ call' \in [Calls -> CallType] /\ call'[c] = NoCall
      /\ \A d \in Calls : seen'[d] \subseteq SUBSET Rows
      /\ seen' = [d \in Calls |-> seen'[d]] /\ seen'[c] = {}
      /\ \A d \in Calls \ {c} :
            /\ SameCall(d)
            /\ seen'[d] = IF At(d, "idle") THEN seen[d] ELSE seen[d] \cup {rows'}
  BY <1>2, <1>5, CommitMoves
<1>8. /\ answer' = [d \in Calls |-> answer'[d]] /\ answer'[c].kind \in {"cleared", "failed"}
      /\ \A d \in Calls \ {c} : answer'[d] = answer[d]
  BY <1>2 DEF Shapes, Final
<1>9. TypeOK'
  <2>1. \A d \in Calls : answer'[d].kind \in {"idle", "open", "cleared", "shown", "failed"}
    BY <1>8 DEF TypeOK
  <2> QED
    BY <1>2, <1>5, <1>7, <2>1, TypesSuffice DEF TypeOK
<1>10. \A d \in Calls \ {c} : LeavesBe(d)
  BY <1>2, <1>7, <1>8 DEF LeavesBe
<1>11. CallInv(c)'
  BY <1>7, <1>8, EndKeeps DEF FilesAtTheEnd
<1>12. DbInv'
  BY <1>2, <1>7, <1>8, <1>9, <1>10, <1>11, OnlyMovesKeeps DEF OnlyMoves, Shapes
<1>13. Promise!End(c)
  <2>1. \A d \in Calls : d \in Promise!Open <=> ~At(d, "idle")
    BY DEF Promise!Open, CallInv, OpenAtWork
  <2> QED
    BY <1>7, <2>1 DEF Promise!End
<1>14. call[c].tables \in SUBSET Promise!Tables /\ D \in SUBSET Promise!Tables
  BY <1>5, <1>6 DEF Tables, Promise!Tables
<1>15. Promise!Delete(call[c].snapshot, call[c].tables)
  <2>1. got = UNION {call[c].snapshot \cap Table(t) : t \in D}
    BY <1>6 DEF In
  <2>2. rows' = rows \ UNION {call[c].snapshot \cap Promise!Table(t) : t \in D}
    BY <1>2, <2>1 DEF Table, Promise!Table
  <2> QED
    BY <1>6, <1>14, <2>2 DEF Promise!Delete
<1> QED
  BY <1>2, <1>4, <1>12, <1>13, <1>14, <1>15

LEMMA CommitResetKeeps ==
    ASSUME DbInv, NEW c \in Calls, CommitReset(c)
    PROVE  DbInv' /\ Promise!Clear(c)
<1>1. PICK counts :
        counts = [t \in call[c].tables |-> Cardinality(call[c].snapshot \cap Table(t))]
  OBVIOUS
<1>2. PICK said : said = [kind |-> "cleared", counts |-> counts]
  OBVIOUS
<1>3. CommitDeletes(c) /\ Answer(c, said) /\ Final(said)
  BY <1>1, <1>2 DEF CommitReset, Final
<1>4. /\ DbInv'
      /\ c \in Promise!Open /\ call[c].snapshot \in seen[c]
      /\ call[c].tables \in SUBSET Promise!Tables
      /\ Promise!Delete(call[c].snapshot, call[c].tables)
      /\ Promise!End(c) /\ UNCHANGED faults
  BY <1>3, CommitDeletesKeeps
<1>5. said = [kind |-> "cleared",
              counts |-> [t \in call[c].tables |->
                  Promise!Cardinality(call[c].snapshot \cap Promise!Table(t))]]
  BY <1>1, <1>2, SameCount DEF Table, Promise!Table
<1>6. \E s \in seen[c], T \in SUBSET Promise!Tables :
        /\ Promise!Delete(s, T)
        /\ answer' = [answer EXCEPT ![c] =
               [kind |-> "cleared",
                counts |-> [t \in T |-> Promise!Cardinality(s \cap Promise!Table(t))]]]
  <2> USE <1>4
  <2> WITNESS call[c].snapshot \in seen[c], call[c].tables \in SUBSET Promise!Tables
  <2> QED
    BY <1>3, <1>5 DEF Answer
<1> QED
  BY <1>4, <1>6 DEF Promise!Clear

LEMMA CommitUnheardKeeps ==
    ASSUME DbInv, NEW c \in Calls, CommitUnheard(c)
    PROVE  DbInv' /\ Promise!ClearUnheard(c)
<1>1. PICK said : said = [kind |-> "failed"]
  OBVIOUS
<1>2. CommitDeletes(c) /\ Answer(c, said) /\ Final(said)
  BY <1>1 DEF CommitUnheard, Final
<1>3. /\ DbInv'
      /\ c \in Promise!Open /\ call[c].snapshot \in seen[c]
      /\ call[c].tables \in SUBSET Promise!Tables
      /\ Promise!Delete(call[c].snapshot, call[c].tables)
      /\ Promise!End(c) /\ UNCHANGED faults
  BY <1>2, CommitDeletesKeeps
<1> QED
  BY <1>1, <1>2, <1>3 DEF Promise!ClearUnheard, Answer

\* The rows of one table among what the export has got.
LEMMA GotOfATable ==
    ASSUME NEW c, call[c] \in CallType, NEW t \in call[c].tables,
           call[c].got = Shown(c, call[c].tables)
    PROVE  call[c].got \cap Table(t) = Selected(call[c].snapshot, t, call[c].filter)
<1>1. t \in Tables /\ call[c].tables \subseteq Tables
  BY DEF CallType
<1>2. \A u \in call[c].tables : u # t => Table(u) \cap Table(t) = {}
  BY <1>1, MaintenanceAssumption DEF Table, Tables
<1>3. ASSUME NEW r \in call[c].got \cap Table(t)
      PROVE  r \in Selected(call[c].snapshot, t, call[c].filter)
  <2>1. PICK u \in call[c].tables : r \in Selected(call[c].snapshot, u, call[c].filter)
    BY DEF Shown
  <2>2. r \in Table(u)
    BY <2>1 DEF Selected
  <2> QED
    BY <1>2, <2>1, <2>2
<1>4. ASSUME NEW r \in Selected(call[c].snapshot, t, call[c].filter)
      PROVE  r \in call[c].got \cap Table(t)
  BY DEF Shown, Selected
<1> QED
  BY <1>3, <1>4

LEMMA FinishExportKeeps ==
    ASSUME DbInv, NEW c \in Calls, FinishExport(c)
    PROVE  DbInv' /\ Promise!Show(c)
<1> USE DEF DbInv
<1>1. PICK shown : shown = [t \in call[c].tables |-> call[c].got \cap Table(t)]
  OBVIOUS
<1>2. /\ At(c, "writing") /\ call[c].todo = <<>>
      /\ call' = [call EXCEPT ![c] = NoCall]
      /\ answer' = [answer EXCEPT ![c] =
             [kind |-> "shown", filter |-> call[c].filter, shown |-> shown]]
      /\ UNCHANGED <<rows, file, faults, writes, seen, alone>>
  BY <1>1 DEF FinishExport, Answer
<1>3. ~At(c, "idle")
  BY <1>2 DEF At
<1>4. /\ c \in Promise!Open /\ call[c].snapshot \in seen[c]
      /\ call[c] \in CallType /\ Done(c) = call[c].tables
  BY <1>2, <1>3, AtWork
<1>5. \A t \in call[c].tables :
          call[c].got \cap Table(t) = Selected(call[c].snapshot, t, call[c].filter)
  <2>1. call[c].got = Shown(c, call[c].tables)
    BY <1>2 DEF CallInv, GotFromSnapshot
  <2> QED
    BY <1>4, <2>1, GotOfATable
<1>6. shown = [t \in call[c].tables |-> Selected(call[c].snapshot, t, call[c].filter)]
  BY <1>1, <1>5
<1>7. call' \in [Calls -> CallType] /\ call'[c] = NoCall
      /\ \A d \in Calls \ {c} : call'[d] = call[d]
  BY <1>2, CallTypes, NoCallTyped DEF NoCallType, TypeOK
<1>8. /\ answer' = [d \in Calls |-> answer'[d]]
      /\ answer'[c] = [kind |-> "shown", filter |-> call[c].filter, shown |-> shown]
      /\ \A d \in Calls \ {c} : answer'[d] = answer[d]
  BY <1>2 DEF Shapes
<1>9. TypeOK'
  <2>1. \A d \in Calls : answer'[d].kind \in {"idle", "open", "cleared", "shown", "failed"}
    BY <1>8 DEF TypeOK
  <2> QED
    BY <1>2, <1>7, <2>1, TypesSuffice DEF TypeOK
<1>10. ASSUME NEW d \in Calls \ {c} PROVE LeavesBe(d)
  <2>1. ~At(d, "idle") => rows \in seen[d]
    BY DEF CallInv, OpenAtWork
  <2> QED
    BY <1>2, <1>7, <1>8, <2>1 DEF LeavesBe, SameCall
<1>11. FilesAtTheEnd(c)'
  <2>1. alone[c] => \A t \in call[c].tables : file[t] = call[c].got \cap Table(t)
    BY <1>2, <1>4 DEF CallInv, FilesSoFar
  <2>2. DOMAIN answer'[c].shown = call[c].tables /\ answer'[c].filter = call[c].filter
    BY <1>6, <1>8
  <2> QED
    BY <1>2, <1>4, <1>5, <2>1, <2>2 DEF FilesAtTheEnd
<1>12. DbInv'
  <2>1. CallInv(c)'
    BY <1>7, <1>8, <1>11, EndKeeps
  <2> QED
    BY <1>2, <1>8, <1>9, <1>10, <2>1, OnlyMovesKeeps DEF OnlyMoves, Shapes
<1>13. Promise!Show(c)
  <2>1. call[c].tables \in SUBSET Promise!Tables /\ call[c].filter \in Projects \cup {All}
    BY <1>4 DEF CallType, Tables, Promise!Tables
  <2>2. shown = [t \in call[c].tables |->
                    Promise!Selected(call[c].snapshot, t, call[c].filter)]
    BY <1>6 DEF Selected, Promise!Selected, Table, Promise!Table
  <2> QED
    BY <1>2, <1>4, <2>1, <2>2 DEF Promise!Show
<1> QED
  BY <1>12, <1>13

\* A call fails: another one's files are still its own only if none was written.
LEMMA FailureKeeps ==
    ASSUME DbInv, NEW c \in Calls, ~At(c, "idle"),
           call' = [call EXCEPT ![c] = NoCall],
           answer' = [answer EXCEPT ![c] = [kind |-> "failed"]],
           seen' = [seen EXCEPT ![c] = {}],
           alone' \in [Calls -> BOOLEAN], \A d \in Calls \ {c} : alone'[d] => alone[d] /\ file' = file,
           file' = [t \in Tables |-> file'[t]],
           \A t \in Tables : file'[t] \in {None, Partial} \/ file'[t] \subseteq Table(t),
           UNCHANGED <<rows, faults, writes>>
    PROVE  DbInv' /\ Promise!Fail(c)
<1> USE DEF DbInv
<1>1. call' \in [Calls -> CallType] /\ call'[c] = NoCall
      /\ \A d \in Calls \ {c} : call'[d] = call[d]
  BY CallTypes, NoCallTyped DEF NoCallType, TypeOK
<1>2. /\ answer' = [d \in Calls |-> answer'[d]] /\ answer'[c].kind = "failed"
      /\ \A d \in Calls \ {c} : answer'[d] = answer[d]
  BY DEF Shapes
<1>3. /\ seen' = [d \in Calls |-> seen'[d]] /\ seen'[c] = {}
      /\ \A d \in Calls \ {c} : seen'[d] = seen[d]
  BY DEF Shapes
<1>4. TypeOK'
  <2>1. \A d \in Calls : answer'[d].kind \in {"idle", "open", "cleared", "shown", "failed"}
    BY <1>2 DEF TypeOK
  <2>2. \A d \in Calls : seen'[d] \subseteq SUBSET Rows
    BY <1>3 DEF TypeOK
  <2> QED
    BY <1>1, <2>1, <2>2, TypesSuffice DEF TypeOK
<1>5. ASSUME NEW d \in Calls \ {c} PROVE LeavesBe(d)
  <2>1. ~At(d, "idle") => rows \in seen[d]
    BY DEF CallInv, OpenAtWork
  <2> QED
    BY <1>1, <1>2, <1>3, <2>1 DEF LeavesBe, SameCall
<1>6. CallInv(c)'
  BY <1>1, <1>2, EndKeeps DEF FilesAtTheEnd
<1>7. DbInv'
  BY <1>2, <1>3, <1>4, <1>5, <1>6, OnlyMovesKeeps DEF OnlyMoves, Shapes
<1>8. Promise!Fail(c)
  BY AtWork DEF Promise!Fail
<1> QED
  BY <1>7, <1>8

LEMMA AbortKeeps ==
    ASSUME DbInv, NEW c \in Calls, Abort(c)
    PROVE  DbInv' /\ Promise!Fail(c)
<1>1. /\ ~At(c, "idle")
      /\ call' = [call EXCEPT ![c] = NoCall]
      /\ answer' = [answer EXCEPT ![c] = [kind |-> "failed"]]
      /\ seen' = [seen EXCEPT ![c] = {}]
      /\ alone' = [alone EXCEPT ![c] = FALSE]
      /\ UNCHANGED <<rows, file, faults, writes>>
  BY DEF Abort, Answer
<1>2. /\ alone' \in [Calls -> BOOLEAN]
      /\ \A d \in Calls \ {c} : alone'[d] => alone[d] /\ file' = file
  BY <1>1 DEF DbInv, TypeOK
<1>3. /\ file' = [t \in Tables |-> file'[t]]
      /\ \A t \in Tables : file'[t] \in {None, Partial} \/ file'[t] \subseteq Table(t)
  BY <1>1 DEF DbInv, TypeOK, Shapes
<1> QED
  BY <1>1, <1>2, <1>3, FailureKeeps

LEMMA WriteFileFailsKeeps ==
    ASSUME DbInv, NEW c \in Calls, WriteFileFails(c)
    PROVE  DbInv' /\ Promise!Fail(c)
<1>1. /\ At(c, "writing")
      /\ file' = [file EXCEPT ![Head(call[c].todo)] = Partial]
      /\ call' = [call EXCEPT ![c] = NoCall]
      /\ answer' = [answer EXCEPT ![c] = [kind |-> "failed"]]
      /\ seen' = [seen EXCEPT ![c] = {}]
      /\ alone' = [d \in Calls |-> FALSE]
      /\ UNCHANGED <<rows, faults, writes>>
  BY DEF WriteFileFails, Answer
<1>2. ~At(c, "idle")
  BY <1>1 DEF At
<1>3. /\ alone' \in [Calls -> BOOLEAN]
      /\ \A d \in Calls \ {c} : alone'[d] => alone[d] /\ file' = file
  BY <1>1
<1>4. /\ file' = [t \in Tables |-> file'[t]]
      /\ \A t \in Tables : file'[t] \in {None, Partial} \/ file'[t] \subseteq Table(t)
  BY <1>1 DEF DbInv, TypeOK, Shapes
<1> QED
  BY <1>1, <1>2, <1>3, <1>4, FailureKeeps

-----------------------------------------------------------------------------
(* Maintenance: the results.                                               *)

LEMMA InitDbInv ==
    ASSUME Init
    PROVE  DbInv /\ Promise!Init
<1>1. /\ rows \in SUBSET Rows /\ call = [c \in Calls |-> NoCall]
      /\ answer = [c \in Calls |-> [kind |-> "idle"]]
      /\ file = [t \in Tables |-> None]
      /\ faults = 0 /\ writes = 0
      /\ seen = [c \in Calls |-> {}] /\ alone = [c \in Calls |-> FALSE]
      /\ MaxFaults \in Nat /\ MaxWrites \in Nat
  BY MaintenanceAssumption DEF Init
<1>2. TypeOK
  <2>1. call \in [Calls -> CallType]
    BY <1>1, NoCallTyped DEF NoCallType
  <2> QED
    BY <1>1, <2>1, ListsInTypeOK DEF TypeOK, CallType
<1>3. ASSUME NEW c \in Calls PROVE CallInv(c)
  <2>1. /\ call[c].at = "idle" /\ call[c].todo = <<>> /\ answer[c].kind = "idle"
    BY <1>1 DEF NoCall
  <2>2. Pending(<<>>) = {}
    BY DEF Pending
  <2> QED
    BY <2>1, <2>2
    DEF CallInv, OpenAtWork, TodoIsNamed, GotFromSnapshot, FilesSoFar, FilesAtTheEnd, At
<1>4. Shapes
  BY <1>1 DEF Shapes
<1> QED
  BY <1>1, <1>2, <1>3, <1>4 DEF DbInv, Promise!Init, Rows

LEMMA StutterKeepsDb ==
    ASSUME DbInv, UNCHANGED vars
    PROVE  DbInv' /\ UNCHANGED Promise!vars
<1>1. TypeOK' /\ Shapes'
  BY DEF DbInv, TypeOK, Shapes, vars
<1>2. ASSUME NEW d \in Calls PROVE LeavesBe(d)
  BY DEF DbInv, CallInv, OpenAtWork, LeavesBe, SameCall, vars
<1>3. \A d \in Calls : CallInv(d)'
  BY <1>2, OthersKeep
<1> QED
  BY <1>1, <1>3 DEF DbInv, Promise!vars, vars

\* Every step keeps the invariant, and is a step of Store or changes nothing there.
LEMMA NextDbInv ==
    ASSUME DbInv, [Next]_vars
    PROVE  DbInv' /\ [Promise!Next]_Promise!vars
<1>1. CASE Upsert
  BY <1>1, UpsertKeeps DEF Promise!Next
<1>2. CASE DeleteByPath
  BY <1>2, DeleteByPathKeeps DEF Promise!Next
<1>3. ASSUME NEW c \in Calls, BeginReset(c)
      PROVE  DbInv' /\ Promise!Next
  <2>1. PICK T \in SUBSET Tables \ {{}} :
          BeginTransaction(c, "clearing", T, All, Canonical(T))
    BY <1>3 DEF BeginReset
  <2>2. Canonical(T) \in ToDos /\ Pending(Canonical(T)) = T
    BY ListsOfTables
  <2> QED
    BY <2>1, <2>2, BeginKeeps DEF Promise!Next
<1>4. ASSUME NEW c \in Calls, BeginExport(c)
      PROVE  DbInv' /\ Promise!Next
  <2>1. PICK T \in SUBSET Tables \ {{}}, p \in Projects \cup {All} :
          BeginTransaction(c, "reading", T, p, Sorted(T))
    BY <1>4 DEF BeginExport
  <2>2. Sorted(T) \in ToDos /\ Pending(Sorted(T)) = T
    BY ListsOfTables
  <2> QED
    BY <2>1, <2>2, BeginKeeps DEF Promise!Next
<1>5. ASSUME NEW c \in Calls, ClearTable(c)
      PROVE  DbInv' /\ [Promise!Next]_Promise!vars
  BY <1>5, ClearTableKeeps
<1>6. ASSUME NEW c \in Calls, CommitReset(c)
      PROVE  DbInv' /\ Promise!Next
  BY <1>6, CommitResetKeeps DEF Promise!Next
<1>7. ASSUME NEW c \in Calls, ReadTable(c) \/ CommitExport(c) \/ WriteFile(c)
      PROVE  DbInv' /\ UNCHANGED Promise!vars
  BY <1>7, ReadTableKeeps, CommitExportKeeps, WriteFileKeeps
<1>8. ASSUME NEW c \in Calls, FinishExport(c)
      PROVE  DbInv' /\ Promise!Next
  BY <1>8, FinishExportKeeps DEF Promise!Next
<1>9. ASSUME NEW c \in Calls, Abort(c)
      PROVE  DbInv' /\ Promise!Next
  BY <1>9, AbortKeeps DEF Promise!Next
<1>10. ASSUME NEW c \in Calls, WriteFileFails(c)
      PROVE  DbInv' /\ Promise!Next
  BY <1>10, WriteFileFailsKeeps DEF Promise!Next
<1>11. ASSUME NEW c \in Calls, CommitUnheard(c)
      PROVE  DbInv' /\ Promise!Next
  BY <1>11, CommitUnheardKeeps DEF Promise!Next
<1>12. CASE UNCHANGED vars
  BY <1>12, StutterKeepsDb
<1> QED
  BY <1>1, <1>2, <1>3, <1>4, <1>5, <1>6, <1>7, <1>8, <1>9, <1>10, <1>11, <1>12 DEF Next

LEMMA SpecDbInv == Spec => [](DbInv /\ (TypeOK /\ FilesAreOneState))
<1>1. Init => DbInv
  BY InitDbInv
<1>2. DbInv /\ [Next]_vars => DbInv'
  BY NextDbInv
<1>3. DbInv => TypeOK /\ FilesAreOneState
  BY DEF DbInv, CallInv, FilesAtTheEnd, FilesAreOneState
<1> QED
  BY <1>1, <1>2, <1>3, PTL DEF Spec

\* TypeOK of Maintenance: a transaction of reset or export_tables holds rows and
\* tables that the schema has, and lists of tables in the order the code gives them.
THEOREM SpecTypeOK == Spec => []TypeOK
BY SpecDbInv, PTL

\* The files of an export_tables that returned Ok hold what one state of the
\* database held while it ran, unless another export wrote since it began to write.
THEOREM SpecFilesAreOneState == Spec => []FilesAreOneState
BY SpecDbInv, PTL

\* reset and export_tables implement Store: a reset deletes and counts what one
\* state held while it ran, all or nothing, and an export shows one such state.
THEOREM SpecStoreSpec == Spec => StoreSpec
<1>1. Init => Promise!Init
  BY InitDbInv
<1>2. DbInv /\ [Next]_vars => [Promise!Next]_Promise!vars
  BY NextDbInv
<1> QED
  BY <1>1, <1>2, SpecDbInv, PTL DEF Spec, StoreSpec, Promise!Spec
=============================================================================
