--------------------------- MODULE RuntimeProofs ----------------------------
(***************************************************************************)
(* Proofs about Runtime, for any number of users and calls.                *)
(*                                                                         *)
(* The invariant adds to the properties what they rest on: new is alone    *)
(* until the signal task meets it (BootAlone), which handles and flags each *)
(* boot step finds (BootProgress), what a window that no other task has    *)
(* met guarantees (SoloWindow), and what a shutdown past its stop has      *)
(* achieved (StoppedOnce).                                                 *)
(***************************************************************************)
EXTENDS Runtime, TLAPS

Quiet == \A t \in Tasks : pc[t] = "idle" /\ closing[t] = "none"

BootAlone == boot # "returned" /\ "early" \notin past => Quiet /\ past = {}

BootProgress ==
    /\ boot \in {"connect", "migrate", "verify", "engine", "publish", "spawn"} =>
          /\ "early" \notin past
          /\ phase \notin {"Running", "Stopping", "Stopped"}
    /\ boot \in {"connect", "migrate", "verify", "engine"} => running = FALSE
    /\ boot \in {"publish", "spawn", "running"} /\ "early" \notin past => running = TRUE
    /\ boot \in {"connect", "migrate", "verify", "engine", "publish"} => engine = FALSE
    /\ boot \in {"spawn", "running"} => engine = TRUE
    /\ boot # "connect" /\ error = "none" => database = TRUE
    /\ boot # "returned" => error = "none"
    /\ boot = "returned" => (engine <=> error = "none")
    /\ error # "none" => phase # "Running" /\ running = FALSE
    /\ phase = "Running" => boot = "returned"

SoloWindow ==
    \A t \in InWindow \ overlapped :
       /\ InWindow = {t}
       /\ running = (pc[t] = "stamp")

StoppedOnce ==
    "start" \notin past =>
       /\ \A t \in Tasks : closing[t] = "finish" \/ pc[t] = "clear" => running = FALSE
       /\ phase = "Stopped" => running = FALSE

IInv ==
    /\ TypeOK /\ BootAlone /\ BootProgress /\ SoloWindow /\ StoppedOnce
    /\ UptimeFollowsTheFlag /\ StatusTellsTheTruth /\ OneShutdownAtATime

\* A task enters or leaves its window: the set of those in theirs follows.
LEMMA WindowGrows ==
    ASSUME TypeOK, NEW t \in Tasks, NEW l \in {"stamp", "clear"},
           pc' = [pc EXCEPT ![t] = l]
    PROVE  InWindow' = InWindow \cup {t}
BY DEF InWindow, TypeOK

LEMMA WindowShrinks ==
    ASSUME TypeOK, NEW t \in Tasks, NEW l \in {"idle", "query"},
           pc' = [pc EXCEPT ![t] = l]
    PROVE  InWindow' = InWindow \ {t}
BY DEF InWindow, TypeOK

\* Init establishes the invariant.
LEMMA InitIInv == Init => IInv
<1> SUFFICES ASSUME Init PROVE IInv
  OBVIOUS
<1> USE RuntimeAssumption DEF Init
<1>1. InWindow = {}
  BY DEF InWindow
<1>2. TypeOK
  <2>1. pc \in [Tasks -> {"idle", "stamp", "clear", "query"}]
    OBVIOUS
  <2>2. closing \in [Tasks -> {"none", "stop", "finish"}]
    OBVIOUS
  <2>3. phase \in Phases /\ boot \in Boots /\ overlapped \subseteq InWindow
    BY <1>1 DEF Phases, Boots
  <2>4. calls \in 0 .. MaxCalls /\ past \subseteq {"start", "stop", "signal", "early"}
    OBVIOUS
  <2>5. \A t \in Tasks : closing[t] = "finish" => pc[t] = "idle"
    OBVIOUS
  <2> QED
    BY <2>1, <2>2, <2>3, <2>4, <2>5 DEF TypeOK
<1>3. BootAlone /\ BootProgress
  BY DEF BootAlone, BootProgress, Quiet
<1>4. SoloWindow /\ StoppedOnce /\ UptimeFollowsTheFlag
  BY <1>1 DEF SoloWindow, StoppedOnce, UptimeFollowsTheFlag
<1>5. StatusTellsTheTruth /\ OneShutdownAtATime
  BY DEF StatusTellsTheTruth, OneShutdownAtATime
<1> QED
  BY <1>2, <1>3, <1>4, <1>5 DEF IInv

\* A step of new that fails ends it with an error and without an engine.
LEMMA FailureIInv ==
    ASSUME IInv, boot \in {"connect", "migrate", "verify"},
           NEW e \in {"database", "migration", "schema"}, BootFails(e)
    PROVE  IInv'
<1> USE RuntimeAssumption DEF IInv, BootFails, RecordError, context, tasks, windows
<1>0. InWindow' = InWindow
  BY DEF InWindow
<1>1. TypeOK'
  BY <1>0 DEF TypeOK, Phases, Boots, InWindow
<1>2. BootAlone'
  BY <1>0 DEF BootAlone, Quiet, BootProgress, TypeOK
<1>3. BootProgress'
  BY <1>0 DEF BootProgress, BootAlone, Quiet, TypeOK
<1>4. SoloWindow'
  BY <1>0 DEF SoloWindow, TypeOK, InWindow, BootAlone, Quiet, BootProgress
<1>5. StoppedOnce'
  BY <1>0 DEF StoppedOnce, TypeOK, BootAlone, Quiet, BootProgress
<1>6. UptimeFollowsTheFlag'
  BY <1>0 DEF UptimeFollowsTheFlag, SoloWindow, TypeOK, InWindow, BootAlone, Quiet
<1>7. StatusTellsTheTruth'
  BY <1>0 DEF StatusTellsTheTruth, StoppedOnce, OneShutdownAtATime, BootProgress, BootAlone, Quiet, TypeOK
<1>8. OneShutdownAtATime'
  BY <1>0 DEF OneShutdownAtATime, BootAlone, BootProgress, Quiet, TypeOK
<1> QED
  BY <1>1, <1>2, <1>3, <1>4, <1>5, <1>6, <1>7, <1>8

\* A schema check that passes moves new on and nothing else.
LEMMA AdvanceIInv ==
    ASSUME IInv, boot \in {"migrate", "verify"}, boot' \in {"verify", "engine"},
           UNCHANGED <<status, context, running, startedAt, tasks, calls, windows, past>>
    PROVE  IInv'
<1> USE RuntimeAssumption DEF IInv, status, context, tasks, windows
<1>0. InWindow' = InWindow
  BY DEF InWindow
<1>1. TypeOK'
  BY <1>0 DEF TypeOK, Phases, Boots, InWindow
<1>2. BootAlone'
  BY <1>0 DEF BootAlone, Quiet, BootProgress, TypeOK
<1>3. BootProgress'
  BY <1>0 DEF BootProgress, BootAlone, Quiet, TypeOK
<1>4. SoloWindow'
  BY <1>0 DEF SoloWindow, TypeOK, InWindow, BootAlone, Quiet, BootProgress
<1>5. StoppedOnce'
  BY <1>0 DEF StoppedOnce, TypeOK, BootAlone, Quiet, BootProgress
<1>6. UptimeFollowsTheFlag'
  BY <1>0 DEF UptimeFollowsTheFlag, SoloWindow, TypeOK, InWindow, BootAlone, Quiet
<1>7. StatusTellsTheTruth'
  BY <1>0 DEF StatusTellsTheTruth, StoppedOnce, OneShutdownAtATime, BootProgress, BootAlone, Quiet, TypeOK
<1>8. OneShutdownAtATime'
  BY <1>0 DEF OneShutdownAtATime, BootAlone, BootProgress, Quiet, TypeOK
<1> QED
  BY <1>1, <1>2, <1>3, <1>4, <1>5, <1>6, <1>7, <1>8

\* Every step preserves it.
LEMMA NextIInv == IInv /\ [Next]_vars => IInv'
<1> SUFFICES ASSUME IInv, [Next]_vars PROVE IInv'
  OBVIOUS
<1> USE RuntimeAssumption DEF IInv
<1>1. ASSUME ConnectDatabase PROVE IInv'
  <2>0. InWindow' = InWindow
    BY <1>1 DEF InWindow, ConnectDatabase, BootFails, RecordError, TransitionTo, context, tasks, windows
  <2>1. TypeOK'
    BY <1>1, <2>0 DEF TypeOK, Phases, Boots, InWindow, ConnectDatabase, BootFails, RecordError, TransitionTo, context, tasks, windows
  <2>2. BootAlone'
    BY <1>1, <2>0 DEF BootAlone, Quiet, BootProgress, TypeOK, ConnectDatabase, BootFails, RecordError, TransitionTo, context, tasks, windows
  <2>3. BootProgress'
    BY <1>1, <2>0 DEF BootProgress, BootAlone, Quiet, TypeOK, ConnectDatabase, BootFails, RecordError, TransitionTo, context, tasks, windows
  <2>4. SoloWindow'
    BY <1>1, <2>0 DEF SoloWindow, TypeOK, InWindow, BootAlone, Quiet, BootProgress, ConnectDatabase, BootFails, RecordError, TransitionTo, context, tasks, windows
  <2>5. StoppedOnce'
    BY <1>1, <2>0 DEF StoppedOnce, TypeOK, BootAlone, Quiet, BootProgress, ConnectDatabase, BootFails, RecordError, TransitionTo, context, tasks, windows
  <2>6. UptimeFollowsTheFlag'
    BY <1>1, <2>0 DEF UptimeFollowsTheFlag, SoloWindow, TypeOK, InWindow, BootAlone, Quiet, ConnectDatabase, BootFails, RecordError, TransitionTo, context, tasks, windows
  <2>7. StatusTellsTheTruth'
    BY <1>1, <2>0 DEF StatusTellsTheTruth, StoppedOnce, OneShutdownAtATime, BootProgress, BootAlone, Quiet, TypeOK, ConnectDatabase, BootFails, RecordError, TransitionTo, context, tasks, windows
  <2>8. OneShutdownAtATime'
    BY <1>1, <2>0 DEF OneShutdownAtATime, BootAlone, BootProgress, Quiet, TypeOK, ConnectDatabase, BootFails, RecordError, TransitionTo, context, tasks, windows
  <2> QED
    BY <2>1, <2>2, <2>3, <2>4, <2>5, <2>6, <2>7, <2>8
<1>2. ASSUME CheckSchema("migrate", "verify", "migration") PROVE IInv'
  <2>1. CASE BootFails("migration")
    BY <1>2, <2>1, FailureIInv DEF CheckSchema
  <2>2. CASE ~BootFails("migration")
    BY <1>2, <2>2, AdvanceIInv DEF CheckSchema
  <2> QED
    BY <2>1, <2>2
<1>3. ASSUME CheckSchema("verify", "engine", "schema") PROVE IInv'
  <2>1. CASE BootFails("schema")
    BY <1>3, <2>1, FailureIInv DEF CheckSchema
  <2>2. CASE ~BootFails("schema")
    BY <1>3, <2>2, AdvanceIInv DEF CheckSchema
  <2> QED
    BY <2>1, <2>2
<1>4. ASSUME StartNewEngine PROVE IInv'
  <2>0. InWindow' = InWindow
    BY <1>4 DEF InWindow, StartNewEngine, status, context, tasks, windows
  <2>1. TypeOK'
    BY <1>4, <2>0 DEF TypeOK, Phases, Boots, InWindow, StartNewEngine, status, context, tasks, windows
  <2>2. BootAlone'
    BY <1>4, <2>0 DEF BootAlone, Quiet, BootProgress, TypeOK, StartNewEngine, status, context, tasks, windows
  <2>3. BootProgress'
    BY <1>4, <2>0 DEF BootProgress, BootAlone, Quiet, TypeOK, StartNewEngine, status, context, tasks, windows
  <2>4. SoloWindow'
    BY <1>4, <2>0 DEF SoloWindow, TypeOK, InWindow, BootAlone, Quiet, BootProgress, StartNewEngine, status, context, tasks, windows
  <2>5. StoppedOnce'
    BY <1>4, <2>0 DEF StoppedOnce, TypeOK, BootAlone, Quiet, BootProgress, StartNewEngine, status, context, tasks, windows
  <2>6. UptimeFollowsTheFlag'
    BY <1>4, <2>0 DEF UptimeFollowsTheFlag, SoloWindow, TypeOK, InWindow, BootAlone, Quiet, StartNewEngine, status, context, tasks, windows
  <2>7. StatusTellsTheTruth'
    BY <1>4, <2>0 DEF StatusTellsTheTruth, StoppedOnce, OneShutdownAtATime, BootProgress, BootAlone, Quiet, TypeOK, StartNewEngine, status, context, tasks, windows
  <2>8. OneShutdownAtATime'
    BY <1>4, <2>0 DEF OneShutdownAtATime, BootAlone, BootProgress, Quiet, TypeOK, StartNewEngine, status, context, tasks, windows
  <2> QED
    BY <2>1, <2>2, <2>3, <2>4, <2>5, <2>6, <2>7, <2>8
<1>5. ASSUME PublishEngine PROVE IInv'
  <2>0. InWindow' = InWindow
    BY <1>5 DEF InWindow, PublishEngine, TransitionTo, tasks, windows
  <2>1. TypeOK'
    BY <1>5, <2>0 DEF TypeOK, Phases, Boots, InWindow, PublishEngine, TransitionTo, tasks, windows
  <2>2. BootAlone'
    BY <1>5, <2>0 DEF BootAlone, Quiet, BootProgress, TypeOK, PublishEngine, TransitionTo, tasks, windows
  <2>3. BootProgress'
    BY <1>5, <2>0 DEF BootProgress, BootAlone, Quiet, TypeOK, PublishEngine, TransitionTo, tasks, windows
  <2>4. SoloWindow'
    BY <1>5, <2>0 DEF SoloWindow, TypeOK, InWindow, BootAlone, Quiet, BootProgress, PublishEngine, TransitionTo, tasks, windows
  <2>5. StoppedOnce'
    BY <1>5, <2>0 DEF StoppedOnce, TypeOK, BootAlone, Quiet, BootProgress, PublishEngine, TransitionTo, tasks, windows
  <2>6. UptimeFollowsTheFlag'
    BY <1>5, <2>0 DEF UptimeFollowsTheFlag, SoloWindow, TypeOK, InWindow, BootAlone, Quiet, PublishEngine, TransitionTo, tasks, windows
  <2>7. StatusTellsTheTruth'
    BY <1>5, <2>0 DEF StatusTellsTheTruth, StoppedOnce, OneShutdownAtATime, BootProgress, BootAlone, Quiet, TypeOK, PublishEngine, TransitionTo, tasks, windows
  <2>8. OneShutdownAtATime'
    BY <1>5, <2>0 DEF OneShutdownAtATime, BootAlone, BootProgress, Quiet, TypeOK, PublishEngine, TransitionTo, tasks, windows
  <2> QED
    BY <2>1, <2>2, <2>3, <2>4, <2>5, <2>6, <2>7, <2>8
<1>6. ASSUME SpawnSignalTask PROVE IInv'
  <2>0. InWindow' = InWindow
    BY <1>6 DEF InWindow, SpawnSignalTask, status, context, tasks, windows
  <2>1. TypeOK'
    BY <1>6, <2>0 DEF TypeOK, Phases, Boots, InWindow, SpawnSignalTask, status, context, tasks, windows
  <2>2. BootAlone'
    BY <1>6, <2>0 DEF BootAlone, Quiet, BootProgress, TypeOK, SpawnSignalTask, status, context, tasks, windows
  <2>3. BootProgress'
    BY <1>6, <2>0 DEF BootProgress, BootAlone, Quiet, TypeOK, SpawnSignalTask, status, context, tasks, windows
  <2>4. SoloWindow'
    BY <1>6, <2>0 DEF SoloWindow, TypeOK, InWindow, BootAlone, Quiet, BootProgress, SpawnSignalTask, status, context, tasks, windows
  <2>5. StoppedOnce'
    BY <1>6, <2>0 DEF StoppedOnce, TypeOK, BootAlone, Quiet, BootProgress, SpawnSignalTask, status, context, tasks, windows
  <2>6. UptimeFollowsTheFlag'
    BY <1>6, <2>0 DEF UptimeFollowsTheFlag, SoloWindow, TypeOK, InWindow, BootAlone, Quiet, SpawnSignalTask, status, context, tasks, windows
  <2>7. StatusTellsTheTruth'
    BY <1>6, <2>0 DEF StatusTellsTheTruth, StoppedOnce, OneShutdownAtATime, BootProgress, BootAlone, Quiet, TypeOK, SpawnSignalTask, status, context, tasks, windows
  <2>8. OneShutdownAtATime'
    BY <1>6, <2>0 DEF OneShutdownAtATime, BootAlone, BootProgress, Quiet, TypeOK, SpawnSignalTask, status, context, tasks, windows
  <2> QED
    BY <2>1, <2>2, <2>3, <2>4, <2>5, <2>6, <2>7, <2>8
<1>7. ASSUME EnterRunning PROVE IInv'
  <2>0. InWindow' = InWindow
    BY <1>7 DEF InWindow, EnterRunning, TransitionTo, context, tasks, windows
  <2>1. TypeOK'
    BY <1>7, <2>0 DEF TypeOK, Phases, Boots, InWindow, EnterRunning, TransitionTo, context, tasks, windows
  <2>2. BootAlone'
    BY <1>7, <2>0 DEF BootAlone, Quiet, BootProgress, TypeOK, EnterRunning, TransitionTo, context, tasks, windows
  <2>3. BootProgress'
    BY <1>7, <2>0 DEF BootProgress, BootAlone, Quiet, TypeOK, EnterRunning, TransitionTo, context, tasks, windows
  <2>4. SoloWindow'
    BY <1>7, <2>0 DEF SoloWindow, TypeOK, InWindow, BootAlone, Quiet, BootProgress, EnterRunning, TransitionTo, context, tasks, windows
  <2>5. StoppedOnce'
    BY <1>7, <2>0 DEF StoppedOnce, TypeOK, BootAlone, Quiet, BootProgress, EnterRunning, TransitionTo, context, tasks, windows
  <2>6. UptimeFollowsTheFlag'
    BY <1>7, <2>0 DEF UptimeFollowsTheFlag, SoloWindow, TypeOK, InWindow, BootAlone, Quiet, EnterRunning, TransitionTo, context, tasks, windows
  <2>7. StatusTellsTheTruth'
    BY <1>7, <2>0 DEF StatusTellsTheTruth, StoppedOnce, OneShutdownAtATime, BootProgress, BootAlone, Quiet, TypeOK, EnterRunning, TransitionTo, context, tasks, windows
  <2>8. OneShutdownAtATime'
    BY <1>7, <2>0 DEF OneShutdownAtATime, BootAlone, BootProgress, Quiet, TypeOK, EnterRunning, TransitionTo, context, tasks, windows
  <2> QED
    BY <2>1, <2>2, <2>3, <2>4, <2>5, <2>6, <2>7, <2>8
<1>8. ASSUME NEW t \in Tasks, Start(t) PROVE IInv'
  <2>0. InWindow' = InWindow \cup {t}
    BY <1>8, WindowGrows DEF Start, Calls, EnterWindow
  <2>1. TypeOK'
    BY <1>8, <2>0 DEF TypeOK, Phases, Boots, InWindow, Start, Calls, EnterWindow, status, context
  <2>2. BootAlone'
    BY <1>8, <2>0 DEF BootAlone, Quiet, BootProgress, TypeOK, Start, Calls, EnterWindow, status, context
  <2>3. BootProgress'
    BY <1>8, <2>0 DEF BootProgress, BootAlone, Quiet, TypeOK, Start, Calls, EnterWindow, status, context
  <2>4. SoloWindow'
    BY <1>8, <2>0 DEF SoloWindow, TypeOK, InWindow, BootAlone, Quiet, BootProgress, Start, Calls, EnterWindow, status, context
  <2>5. StoppedOnce'
    BY <1>8, <2>0 DEF StoppedOnce, TypeOK, BootAlone, Quiet, BootProgress, Start, Calls, EnterWindow, status, context
  <2>6. UptimeFollowsTheFlag'
    BY <1>8, <2>0 DEF UptimeFollowsTheFlag, SoloWindow, TypeOK, InWindow, BootAlone, Quiet, Start, Calls, EnterWindow, status, context
  <2>7. StatusTellsTheTruth'
    BY <1>8, <2>0 DEF StatusTellsTheTruth, StoppedOnce, OneShutdownAtATime, BootProgress, BootAlone, Quiet, TypeOK, Start, Calls, EnterWindow, status, context
  <2>8. OneShutdownAtATime'
    BY <1>8, <2>0 DEF OneShutdownAtATime, BootAlone, BootProgress, Quiet, TypeOK, Start, Calls, EnterWindow, status, context
  <2> QED
    BY <2>1, <2>2, <2>3, <2>4, <2>5, <2>6, <2>7, <2>8
<1>9. ASSUME NEW t \in Tasks, SetStartedAt(t) PROVE IInv'
  <2>0. InWindow' = InWindow \ {t}
    BY <1>9, WindowShrinks DEF SetStartedAt, LeaveWindow
  <2>1. TypeOK'
    BY <1>9, <2>0 DEF TypeOK, Phases, Boots, InWindow, SetStartedAt, LeaveWindow, status, context
  <2>2. BootAlone'
    BY <1>9, <2>0 DEF BootAlone, Quiet, BootProgress, TypeOK, SetStartedAt, LeaveWindow, status, context
  <2>3. BootProgress'
    BY <1>9, <2>0 DEF BootProgress, BootAlone, Quiet, TypeOK, SetStartedAt, LeaveWindow, status, context
  <2>4. SoloWindow'
    BY <1>9, <2>0 DEF SoloWindow, TypeOK, InWindow, BootAlone, Quiet, BootProgress, SetStartedAt, LeaveWindow, status, context
  <2>5. StoppedOnce'
    BY <1>9, <2>0 DEF StoppedOnce, TypeOK, BootAlone, Quiet, BootProgress, SetStartedAt, LeaveWindow, status, context
  <2>6. UptimeFollowsTheFlag'
    BY <1>9, <2>0 DEF UptimeFollowsTheFlag, SoloWindow, TypeOK, InWindow, BootAlone, Quiet, SetStartedAt, LeaveWindow, status, context
  <2>7. StatusTellsTheTruth'
    BY <1>9, <2>0 DEF StatusTellsTheTruth, StoppedOnce, OneShutdownAtATime, BootProgress, BootAlone, Quiet, TypeOK, SetStartedAt, LeaveWindow, status, context
  <2>8. OneShutdownAtATime'
    BY <1>9, <2>0 DEF OneShutdownAtATime, BootAlone, BootProgress, Quiet, TypeOK, SetStartedAt, LeaveWindow, status, context
  <2> QED
    BY <2>1, <2>2, <2>3, <2>4, <2>5, <2>6, <2>7, <2>8
<1>10. ASSUME NEW t \in Tasks, Stop(t) PROVE IInv'
  <2>0. InWindow' = InWindow \cup {t}
    BY <1>10, WindowGrows DEF Stop, Calls, EnterWindow
  <2>1. TypeOK'
    <3>1. pc' \in [Tasks -> {"idle", "stamp", "clear", "query"}]
      BY <1>10 DEF TypeOK, Stop, Calls, EnterWindow
    <3>2. closing' \in [Tasks -> {"none", "stop", "finish"}]
      BY <1>10 DEF TypeOK, Stop, Calls, EnterWindow
    <3>3. \A u \in Tasks : closing'[u] = "finish" => pc'[u] = "idle"
      BY <1>10 DEF TypeOK, Stop, Calls, EnterWindow
    <3>4. overlapped' \subseteq InWindow'
      BY <1>10, <2>0 DEF TypeOK, Stop, Calls, EnterWindow
    <3>5. phase' \in Phases /\ boot' \in Boots /\ past' \subseteq {"start", "stop", "signal", "early"}
      BY <1>10 DEF TypeOK, Stop, Calls, EnterWindow, status
    <3>6. /\ health' \in {"Degraded", "Healthy", "Unhealthy"}
          /\ error' \in {"none", "database", "migration", "schema"}
          /\ database' \in BOOLEAN /\ engine' \in BOOLEAN
      BY <1>10 DEF TypeOK, Stop, Calls, EnterWindow, status, context
    <3>7. running' \in BOOLEAN /\ startedAt' \in BOOLEAN /\ torn' \in BOOLEAN
      BY <1>10 DEF TypeOK, Stop, Calls, EnterWindow
    <3>8. calls' \in 0 .. MaxCalls
      BY <1>10 DEF TypeOK, Stop, Calls, EnterWindow
    <3>9. closing' \in [Tasks -> {"none", "stop", "finish"}]
      BY <1>10 DEF TypeOK, Stop, Calls, EnterWindow
    <3> QED
      BY <3>1, <3>3, <3>4, <3>5, <3>6, <3>7, <3>8, <3>9 DEF TypeOK
  <2>2. BootAlone'
    BY <1>10, <2>0 DEF BootAlone, Quiet, BootProgress, TypeOK, Stop, Calls, EnterWindow, status, context
  <2>3. BootProgress'
    BY <1>10, <2>0 DEF BootProgress, BootAlone, Quiet, TypeOK, Stop, Calls, EnterWindow, status, context
  <2>4. SoloWindow'
    BY <1>10, <2>0 DEF SoloWindow, TypeOK, InWindow, BootAlone, Quiet, BootProgress, Stop, Calls, EnterWindow, status, context
  <2>5. StoppedOnce'
    BY <1>10, <2>0 DEF StoppedOnce, TypeOK, BootAlone, Quiet, BootProgress, Stop, Calls, EnterWindow, status, context
  <2>6. UptimeFollowsTheFlag'
    BY <1>10, <2>0 DEF UptimeFollowsTheFlag, SoloWindow, TypeOK, InWindow, BootAlone, Quiet, Stop, Calls, EnterWindow, status, context
  <2>7. StatusTellsTheTruth'
    BY <1>10, <2>0 DEF StatusTellsTheTruth, StoppedOnce, OneShutdownAtATime, BootProgress, BootAlone, Quiet, TypeOK, Stop, Calls, EnterWindow, status, context
  <2>8. OneShutdownAtATime'
    BY <1>10, <2>0 DEF OneShutdownAtATime, BootAlone, BootProgress, Quiet, TypeOK, Stop, Calls, EnterWindow, status, context
  <2> QED
    BY <2>1, <2>2, <2>3, <2>4, <2>5, <2>6, <2>7, <2>8
<1>11. ASSUME NEW t \in Tasks, ClearStartedAt(t) PROVE IInv'
  <2>0. InWindow' = InWindow \ {t}
    BY <1>11, WindowShrinks DEF ClearStartedAt, LeaveWindow
  <2>1. TypeOK'
    <3>1. pc' \in [Tasks -> {"idle", "stamp", "clear", "query"}]
      BY <1>11 DEF TypeOK, ClearStartedAt, LeaveWindow
    <3>2. closing' \in [Tasks -> {"none", "stop", "finish"}]
      BY <1>11 DEF TypeOK, ClearStartedAt, LeaveWindow
    <3>3. \A u \in Tasks : closing'[u] = "finish" => pc'[u] = "idle"
      BY <1>11 DEF TypeOK, ClearStartedAt, LeaveWindow
    <3>4. overlapped' \subseteq InWindow'
      BY <1>11, <2>0 DEF TypeOK, ClearStartedAt, LeaveWindow
    <3>5. phase' \in Phases /\ boot' \in Boots /\ past' \subseteq {"start", "stop", "signal", "early"}
      BY <1>11 DEF TypeOK, ClearStartedAt, LeaveWindow, status
    <3>6. /\ health' \in {"Degraded", "Healthy", "Unhealthy"}
          /\ error' \in {"none", "database", "migration", "schema"}
          /\ database' \in BOOLEAN /\ engine' \in BOOLEAN
      BY <1>11 DEF TypeOK, ClearStartedAt, LeaveWindow, status, context
    <3>7. running' \in BOOLEAN /\ startedAt' \in BOOLEAN /\ torn' \in BOOLEAN
      <4>1. torn' \in BOOLEAN
        <5>1. torn' = (t \in overlapped)
          BY <1>11 DEF ClearStartedAt, LeaveWindow
        <5>2. CASE t \in overlapped
          BY <5>1, <5>2
        <5>3. CASE t \notin overlapped
          BY <5>1, <5>3
        <5> QED
          BY <5>2, <5>3
      <4> QED
        BY <1>11, <4>1, Zenon DEF TypeOK, ClearStartedAt
    <3>8. calls' \in 0 .. MaxCalls
      BY <1>11 DEF TypeOK, ClearStartedAt, LeaveWindow
    <3>9. closing' \in [Tasks -> {"none", "stop", "finish"}]
      BY <1>11 DEF TypeOK, ClearStartedAt, LeaveWindow
    <3> QED
      BY <3>1, <3>3, <3>4, <3>5, <3>6, <3>7, <3>8, <3>9 DEF TypeOK
  <2>2. BootAlone'
    BY <1>11, <2>0 DEF BootAlone, Quiet, BootProgress, TypeOK, ClearStartedAt, LeaveWindow, status, context
  <2>3. BootProgress'
    BY <1>11, <2>0 DEF BootProgress, BootAlone, Quiet, TypeOK, ClearStartedAt, LeaveWindow, status, context
  <2>4. SoloWindow'
    BY <1>11, <2>0 DEF SoloWindow, TypeOK, InWindow, BootAlone, Quiet, BootProgress, ClearStartedAt, LeaveWindow, status, context
  <2>5. StoppedOnce'
    BY <1>11, <2>0 DEF StoppedOnce, TypeOK, BootAlone, Quiet, BootProgress, ClearStartedAt, LeaveWindow, status, context
  <2>6. UptimeFollowsTheFlag'
    BY <1>11, <2>0 DEF UptimeFollowsTheFlag, SoloWindow, TypeOK, InWindow, BootAlone, Quiet, ClearStartedAt, LeaveWindow, status, context
  <2>7. StatusTellsTheTruth'
    BY <1>11, <2>0 DEF StatusTellsTheTruth, StoppedOnce, OneShutdownAtATime, BootProgress, BootAlone, Quiet, TypeOK, ClearStartedAt, LeaveWindow, status, context
  <2>8. OneShutdownAtATime'
    BY <1>11, <2>0 DEF OneShutdownAtATime, BootAlone, BootProgress, Quiet, TypeOK, ClearStartedAt, LeaveWindow, status, context
  <2> QED
    BY <2>1, <2>2, <2>3, <2>4, <2>5, <2>6, <2>7, <2>8
<1>12. ASSUME NEW t \in Tasks, BeginQuery(t) PROVE IInv'
  <2>0. InWindow' = InWindow \ {t}
    BY <1>12, WindowShrinks DEF BeginQuery, Calls
  <2>1. TypeOK'
    BY <1>12, <2>0 DEF TypeOK, Phases, Boots, InWindow, BeginQuery, Calls, status, context, windows
  <2>2. BootAlone'
    BY <1>12, <2>0 DEF BootAlone, Quiet, BootProgress, TypeOK, BeginQuery, Calls, status, context, windows
  <2>3. BootProgress'
    BY <1>12, <2>0 DEF BootProgress, BootAlone, Quiet, TypeOK, BeginQuery, Calls, status, context, windows
  <2>4. SoloWindow'
    BY <1>12, <2>0 DEF SoloWindow, TypeOK, InWindow, BootAlone, Quiet, BootProgress, BeginQuery, Calls, status, context, windows
  <2>5. StoppedOnce'
    BY <1>12, <2>0 DEF StoppedOnce, TypeOK, BootAlone, Quiet, BootProgress, BeginQuery, Calls, status, context, windows
  <2>6. UptimeFollowsTheFlag'
    BY <1>12, <2>0 DEF UptimeFollowsTheFlag, SoloWindow, TypeOK, InWindow, BootAlone, Quiet, BeginQuery, Calls, status, context, windows
  <2>7. StatusTellsTheTruth'
    BY <1>12, <2>0 DEF StatusTellsTheTruth, StoppedOnce, OneShutdownAtATime, BootProgress, BootAlone, Quiet, TypeOK, BeginQuery, Calls, status, context, windows
  <2>8. OneShutdownAtATime'
    BY <1>12, <2>0 DEF OneShutdownAtATime, BootAlone, BootProgress, Quiet, TypeOK, BeginQuery, Calls, status, context, windows
  <2> QED
    BY <2>1, <2>2, <2>3, <2>4, <2>5, <2>6, <2>7, <2>8
<1>13. ASSUME NEW t \in Tasks, EndQuery(t) PROVE IInv'
  <2>0. InWindow' = InWindow \ {t}
    BY <1>13, WindowShrinks DEF EndQuery
  <2>1. TypeOK'
    BY <1>13, <2>0 DEF TypeOK, Phases, Boots, InWindow, EndQuery, status, context, windows
  <2>2. BootAlone'
    BY <1>13, <2>0 DEF BootAlone, Quiet, BootProgress, TypeOK, EndQuery, status, context, windows
  <2>3. BootProgress'
    BY <1>13, <2>0 DEF BootProgress, BootAlone, Quiet, TypeOK, EndQuery, status, context, windows
  <2>4. SoloWindow'
    BY <1>13, <2>0 DEF SoloWindow, TypeOK, InWindow, BootAlone, Quiet, BootProgress, EndQuery, status, context, windows
  <2>5. StoppedOnce'
    BY <1>13, <2>0 DEF StoppedOnce, TypeOK, BootAlone, Quiet, BootProgress, EndQuery, status, context, windows
  <2>6. UptimeFollowsTheFlag'
    BY <1>13, <2>0 DEF UptimeFollowsTheFlag, SoloWindow, TypeOK, InWindow, BootAlone, Quiet, EndQuery, status, context, windows
  <2>7. StatusTellsTheTruth'
    BY <1>13, <2>0 DEF StatusTellsTheTruth, StoppedOnce, OneShutdownAtATime, BootProgress, BootAlone, Quiet, TypeOK, EndQuery, status, context, windows
  <2>8. OneShutdownAtATime'
    BY <1>13, <2>0 DEF OneShutdownAtATime, BootAlone, BootProgress, Quiet, TypeOK, EndQuery, status, context, windows
  <2> QED
    BY <2>1, <2>2, <2>3, <2>4, <2>5, <2>6, <2>7, <2>8
<1>14. ASSUME NEW t \in Tasks, BeginShutdown(t) PROVE IInv'
  <2>0. InWindow' = InWindow
    BY <1>14 DEF InWindow, BeginShutdown, MayShutDown, context, windows
  <2>1. TypeOK'
    BY <1>14, <2>0 DEF TypeOK, Phases, Boots, InWindow, BeginShutdown, MayShutDown, context, windows
  <2>2. BootAlone'
    BY <1>14, <2>0 DEF BootAlone, Quiet, BootProgress, TypeOK, BeginShutdown, MayShutDown, context, windows
  <2>3. BootProgress'
    BY <1>14, <2>0 DEF BootProgress, BootAlone, Quiet, TypeOK, BeginShutdown, MayShutDown, context, windows
  <2>4. SoloWindow'
    BY <1>14, <2>0 DEF SoloWindow, TypeOK, InWindow, BootAlone, Quiet, BootProgress, BeginShutdown, MayShutDown, context, windows
  <2>5. StoppedOnce'
    BY <1>14, <2>0 DEF StoppedOnce, TypeOK, BootAlone, Quiet, BootProgress, BeginShutdown, MayShutDown, context, windows
  <2>6. UptimeFollowsTheFlag'
    BY <1>14, <2>0 DEF UptimeFollowsTheFlag, SoloWindow, TypeOK, InWindow, BootAlone, Quiet, BeginShutdown, MayShutDown, context, windows
  <2>7. StatusTellsTheTruth'
    BY <1>14, <2>0 DEF StatusTellsTheTruth, StoppedOnce, OneShutdownAtATime, BootProgress, BootAlone, Quiet, TypeOK, BeginShutdown, MayShutDown, context, windows
  <2>8. OneShutdownAtATime'
    BY <1>14, <2>0 DEF OneShutdownAtATime, BootAlone, BootProgress, Quiet, TypeOK, BeginShutdown, MayShutDown, context, windows
  <2> QED
    BY <2>1, <2>2, <2>3, <2>4, <2>5, <2>6, <2>7, <2>8
<1>15. ASSUME NEW t \in Tasks, StopEngine(t) PROVE IInv'
  <2>1. CASE engine /\ running
    <3>0. InWindow' = InWindow \cup {t}
      BY <1>15, <2>1, WindowGrows DEF StopEngine, EnterWindow
    <3>1. TypeOK'
      <4>1. pc' \in [Tasks -> {"idle", "stamp", "clear", "query"}]
        BY <1>15, <2>1 DEF TypeOK, StopEngine, EnterWindow
      <4>2. \A u \in Tasks : closing'[u] = "finish" => pc'[u] = "idle"
        BY <1>15, <2>1 DEF TypeOK, StopEngine, EnterWindow
      <4>3. overlapped' \subseteq InWindow'
        BY <1>15, <2>1, <3>0 DEF TypeOK, StopEngine, EnterWindow
      <4> QED
        BY <1>15, <2>1, <4>1, <4>2, <4>3 DEF TypeOK, StopEngine, EnterWindow, status, context, windows
    <3>2. BootAlone'
      BY <1>15, <2>1, <3>0 DEF BootAlone, Quiet, BootProgress, TypeOK, StopEngine, EnterWindow, status, context, windows
    <3>3. BootProgress'
      BY <1>15, <2>1, <3>0 DEF BootProgress, BootAlone, Quiet, TypeOK, StopEngine, EnterWindow, status, context, windows
    <3>4. SoloWindow'
      <4>1. CASE InWindow = {}
        BY <1>15, <2>1, <3>0, <4>1 DEF TypeOK, SoloWindow, StopEngine, EnterWindow
      <4>2. CASE InWindow # {}
        BY <1>15, <2>1, <3>0, <4>2 DEF SoloWindow, StopEngine, EnterWindow
      <4> QED
        BY <4>1, <4>2
    <3>5. StoppedOnce'
      BY <1>15, <2>1, <3>0 DEF StoppedOnce, TypeOK, BootAlone, Quiet, BootProgress, StopEngine, EnterWindow, status, context, windows
    <3>6. UptimeFollowsTheFlag'
      BY <1>15, <2>1, <3>0 DEF UptimeFollowsTheFlag, SoloWindow, TypeOK, InWindow, BootAlone, Quiet, StopEngine, EnterWindow, status, context, windows
    <3>7. StatusTellsTheTruth'
      BY <1>15, <2>1, <3>0 DEF StatusTellsTheTruth, StoppedOnce, OneShutdownAtATime, BootProgress, BootAlone, Quiet, TypeOK, StopEngine, EnterWindow, status, context, windows
    <3>8. OneShutdownAtATime'
      BY <1>15, <2>1, <3>0 DEF OneShutdownAtATime, BootAlone, BootProgress, Quiet, TypeOK, StopEngine, EnterWindow, status, context, windows
    <3> QED
      BY <3>1, <3>2, <3>3, <3>4, <3>5, <3>6, <3>7, <3>8
  <2>2. CASE ~(engine /\ running)
    <3>0. InWindow' = InWindow
      BY <1>15, <2>2 DEF StopEngine, InWindow, windows
    <3>1. TypeOK'
      BY <1>15, <2>2, <3>0 DEF TypeOK, Phases, Boots, InWindow, StopEngine, status, context, windows
    <3>2. BootAlone'
      BY <1>15, <2>2, <3>0 DEF BootAlone, Quiet, BootProgress, TypeOK, StopEngine, status, context, windows
    <3>3. BootProgress'
      BY <1>15, <2>2, <3>0 DEF BootProgress, BootAlone, Quiet, TypeOK, StopEngine, status, context, windows
    <3>4. SoloWindow'
      BY <1>15, <2>2, <3>0 DEF SoloWindow, TypeOK, InWindow, BootAlone, Quiet, BootProgress, StopEngine, status, context, windows
    <3>5. StoppedOnce'
      <4>1. running = FALSE
        <5>1. CASE engine = TRUE
          BY <2>2, <5>1 DEF TypeOK
        <5>2. CASE engine = FALSE
          <6>1. boot = "returned"
            BY <1>15, <5>2 DEF TypeOK, Boots, BootAlone, BootProgress, Quiet, StopEngine
          <6> QED
            BY <5>2, <6>1 DEF BootProgress
        <5> QED
          BY <5>1, <5>2 DEF TypeOK
      <4> QED
        BY <1>15, <2>2, <4>1 DEF StoppedOnce, StopEngine, status
    <3>6. UptimeFollowsTheFlag'
      BY <1>15, <2>2, <3>0 DEF UptimeFollowsTheFlag, SoloWindow, TypeOK, InWindow, BootAlone, Quiet, StopEngine, status, context, windows
    <3>7. StatusTellsTheTruth'
      BY <1>15, <2>2, <3>0 DEF StatusTellsTheTruth, StoppedOnce, OneShutdownAtATime, BootProgress, BootAlone, Quiet, TypeOK, StopEngine, status, context, windows
    <3>8. OneShutdownAtATime'
      BY <1>15, <2>2, <3>0 DEF OneShutdownAtATime, BootAlone, BootProgress, Quiet, TypeOK, StopEngine, status, context, windows
    <3> QED
      BY <3>1, <3>2, <3>3, <3>4, <3>5, <3>6, <3>7, <3>8
  <2> QED
    BY <2>1, <2>2
<1>16. ASSUME NEW t \in Tasks, StopTimesOut(t) PROVE IInv'
  <2>0. InWindow' = InWindow \ {t}
    BY <1>16, WindowShrinks DEF StopTimesOut
  <2>1. TypeOK'
    BY <1>16, <2>0 DEF TypeOK, Phases, Boots, InWindow, StopTimesOut, status, context
  <2>2. BootAlone'
    BY <1>16, <2>0 DEF BootAlone, Quiet, BootProgress, TypeOK, StopTimesOut, status, context
  <2>3. BootProgress'
    BY <1>16, <2>0 DEF BootProgress, BootAlone, Quiet, TypeOK, StopTimesOut, status, context
  <2>4. SoloWindow'
    BY <1>16, <2>0 DEF SoloWindow, TypeOK, InWindow, BootAlone, Quiet, BootProgress, StopTimesOut, status, context
  <2>5. StoppedOnce'
    BY <1>16, <2>0 DEF StoppedOnce, TypeOK, BootAlone, Quiet, BootProgress, StopTimesOut, status, context
  <2>6. UptimeFollowsTheFlag'
    BY <1>16, <2>0 DEF UptimeFollowsTheFlag, SoloWindow, TypeOK, InWindow, BootAlone, Quiet, StopTimesOut, status, context
  <2>7. StatusTellsTheTruth'
    BY <1>16, <2>0 DEF StatusTellsTheTruth, StoppedOnce, OneShutdownAtATime, BootProgress, BootAlone, Quiet, TypeOK, StopTimesOut, status, context
  <2>8. OneShutdownAtATime'
    BY <1>16, <2>0 DEF OneShutdownAtATime, BootAlone, BootProgress, Quiet, TypeOK, StopTimesOut, status, context
  <2> QED
    BY <2>1, <2>2, <2>3, <2>4, <2>5, <2>6, <2>7, <2>8
<1>17. ASSUME NEW t \in Tasks, FinishShutdown(t) PROVE IInv'
  <2>0. InWindow' = InWindow
    BY <1>17 DEF InWindow, FinishShutdown, context, windows
  <2>1. TypeOK'
    BY <1>17, <2>0 DEF TypeOK, Phases, Boots, InWindow, FinishShutdown, context, windows
  <2>2. BootAlone'
    BY <1>17, <2>0 DEF BootAlone, Quiet, BootProgress, TypeOK, FinishShutdown, context, windows
  <2>3. BootProgress'
    BY <1>17, <2>0 DEF BootProgress, BootAlone, Quiet, TypeOK, FinishShutdown, context, windows
  <2>4. SoloWindow'
    BY <1>17, <2>0 DEF SoloWindow, TypeOK, InWindow, BootAlone, Quiet, BootProgress, FinishShutdown, context, windows
  <2>5. StoppedOnce'
    BY <1>17, <2>0 DEF StoppedOnce, TypeOK, BootAlone, Quiet, BootProgress, FinishShutdown, context, windows
  <2>6. UptimeFollowsTheFlag'
    BY <1>17, <2>0 DEF UptimeFollowsTheFlag, SoloWindow, TypeOK, InWindow, BootAlone, Quiet, FinishShutdown, context, windows
  <2>7. StatusTellsTheTruth'
    BY <1>17, <2>0 DEF StatusTellsTheTruth, StoppedOnce, OneShutdownAtATime, BootProgress, BootAlone, Quiet, TypeOK, FinishShutdown, context, windows
  <2>8. OneShutdownAtATime'
    BY <1>17, <2>0 DEF OneShutdownAtATime, BootAlone, BootProgress, Quiet, TypeOK, FinishShutdown, context, windows
  <2> QED
    BY <2>1, <2>2, <2>3, <2>4, <2>5, <2>6, <2>7, <2>8
<1>18. CASE UNCHANGED vars
  <2>0. InWindow' = InWindow
    BY <1>18 DEF InWindow, vars, tasks
  <2> QED
    BY <1>18, <2>0 DEF vars, status, context, tasks, windows, TypeOK, BootAlone, Quiet, BootProgress,
       SoloWindow, StoppedOnce, UptimeFollowsTheFlag, StatusTellsTheTruth, OneShutdownAtATime
<1> QED
  BY <1>1, <1>2, <1>3, <1>4, <1>5, <1>6, <1>7, <1>8, <1>9, <1>10, <1>11, <1>12, <1>13, <1>14, <1>15, <1>16, <1>17, <1>18 DEF Next, Boot, Shutdown

----------------------------------------------------------------------------
\* The inductive invariant holds throughout.
THEOREM SpecIInv == Spec => []IInv
<1>1. Init => IInv
  BY InitIInv
<1>2. IInv /\ [Next]_vars => IInv'
  BY NextIInv
<1> QED
  BY <1>1, <1>2, PTL DEF Spec

\* Type correctness, with the agreement of the labels: the stop that a timed
\* out shutdown called is gone when the shutdown goes on.
THEOREM SpecTypeOK == Spec => []TypeOK
<1>1. IInv => TypeOK
  BY DEF IInv
<1> QED
  BY <1>1, SpecIInv, PTL

\* start and stop of KnowledgeEngine: a call whose window was its own leaves
\* uptime and flag in agreement.
THEOREM SpecUptimeFollowsTheFlag == Spec => []UptimeFollowsTheFlag
<1>1. IInv => UptimeFollowsTheFlag
  BY DEF IInv
<1> QED
  BY <1>1, SpecIInv, PTL

\* RuntimeStatus against the engine: Stopped and Running mean what they say.
THEOREM SpecStatusTellsTheTruth == Spec => []StatusTellsTheTruth
<1>1. IInv => StatusTellsTheTruth
  BY DEF IInv
<1> QED
  BY <1>1, SpecIInv, PTL

\* The gate of trigger_shutdown: one shutdown at a time, none after Stopped.
THEOREM SpecOneShutdownAtATime == Spec => []OneShutdownAtATime
<1>1. IInv => OneShutdownAtATime
  BY DEF IInv
<1> QED
  BY <1>1, SpecIInv, PTL
=============================================================================
