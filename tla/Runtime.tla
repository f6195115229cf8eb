------------------------------ MODULE Runtime -------------------------------
(***************************************************************************)
(* The life of a runtime (runtime/core.rs, context.rs, status.rs) and of   *)
(* the engine it owns (start and stop of engine/knowledge/engine.rs).      *)
(*                                                                         *)
(* Runtime::new is the process boot.  Its signal task runs from the spawn  *)
(* on, so it meets the last step of new.  The users are the tasks that     *)
(* share the runtime once new has returned: they start and stop the        *)
(* engine, shut the runtime down, and run queries (count_indexed_files,    *)
(* list_indexed_paths) that keep the engine's context locked while they    *)
(* await the database.                                                     *)
(*                                                                         *)
(* start and stop first swap the atomic flag and then take the context     *)
(* lock to write started_at: between the two a task is in its window.      *)
(* An engine call or a shutdown that is refused changes nothing and is not *)
(* a step.                                                                 *)
(***************************************************************************)
EXTENDS Naturals

CONSTANTS
    Users,    \* tasks that share the runtime
    Signal,   \* the task that new spawns to wait for a signal
    MaxCalls  \* bound: calls the users make

ASSUME RuntimeAssumption == Signal \notin Users /\ MaxCalls \in Nat

Tasks == Users \cup {Signal}
Phases == {"ConfigLoaded", "DatabaseConnected", "EngineStarting", "Running",
           "Stopping", "Stopped", "Failed"}
Boots == {"connect", "migrate", "verify", "engine", "publish", "spawn",
          "running", "returned"}

VARIABLES
    phase, health, error,  \* RuntimeStatus
    database, engine,      \* RuntimeContext: is the handle there to take?
    boot,                  \* where Runtime::new is
    running, startedAt,    \* KnowledgeEngine: the flag; is started_at set?
    pc,                    \* per task: the engine call it is in
    closing,               \* per task: where it is in trigger_shutdown
    calls,                 \* user calls so far
    overlapped,            \* history: tasks whose window met another's
    torn,                  \* history: the last window was met, or timed out
    past                   \* history: what users and signals have done

status == <<phase, health, error>>
context == <<database, engine>>
tasks == <<pc, closing>>
windows == <<overlapped, torn>>
vars == <<status, context, boot, running, startedAt, tasks, calls, windows, past>>

InWindow == {t \in Tasks : pc[t] \in {"stamp", "clear"}}
ContextHeld == \E t \in Tasks : pc[t] = "query"

TypeOK ==
    /\ phase \in Phases
    /\ health \in {"Degraded", "Healthy", "Unhealthy"}
    /\ error \in {"none", "database", "migration", "schema"}
    /\ database \in BOOLEAN /\ engine \in BOOLEAN
    /\ boot \in Boots
    /\ running \in BOOLEAN /\ startedAt \in BOOLEAN
    /\ pc \in [Tasks -> {"idle", "stamp", "clear", "query"}]
    /\ closing \in [Tasks -> {"none", "stop", "finish"}]
    /\ \A t \in Tasks : closing[t] = "finish" => pc[t] = "idle"
    /\ calls \in 0 .. MaxCalls
    /\ overlapped \subseteq InWindow
    /\ torn \in BOOLEAN
    /\ past \subseteq {"start", "stop", "signal", "early"}

Init ==
    /\ phase = "ConfigLoaded" /\ health = "Degraded" /\ error = "none"
    /\ database = FALSE /\ engine = FALSE
    /\ boot = "connect"
    /\ running = FALSE /\ startedAt = FALSE
    /\ pc = [t \in Tasks |-> "idle"]
    /\ closing = [t \in Tasks |-> "none"]
    /\ calls = 0
    /\ overlapped = {} /\ torn = FALSE
    /\ past = {}

----------------------------------------------------------------------------
(* RuntimeStatus. *)

TransitionTo(p) ==
    /\ phase' = p
    /\ health' = IF p = "Running" THEN "Healthy" ELSE health
    /\ UNCHANGED error

RecordError(e) ==
    /\ phase' = "Failed"
    /\ health' = "Unhealthy"
    /\ error' = e

----------------------------------------------------------------------------
(* Runtime::new.  Until the spawn it is alone with the context, so a handle *)
(* and the phase that set_database and set_engine write go in one step.     *)

BootFails(e) ==
    /\ RecordError(e)
    /\ boot' = "returned"
    /\ UNCHANGED <<context, running, startedAt, tasks, calls, windows, past>>

ConnectDatabase ==
    /\ boot = "connect"
    /\ \/ /\ TransitionTo("DatabaseConnected")
          /\ database' = TRUE
          /\ boot' = "migrate"
          /\ UNCHANGED <<engine, running, startedAt, tasks, calls, windows, past>>
       \/ BootFails("database")

\* run_pending, then verify_schema: neither writes the status when it succeeds.
CheckSchema(at, then, e) ==
    /\ boot = at
    /\ \/ /\ boot' = then
          /\ UNCHANGED <<status, context, running, startedAt, tasks, calls, windows, past>>
       \/ BootFails(e)

\* start on an engine nobody else has: it cannot be refused or interrupted.
StartNewEngine ==
    /\ boot = "engine"
    /\ running' = TRUE /\ startedAt' = TRUE
    /\ boot' = "publish"
    /\ UNCHANGED <<status, context, tasks, calls, windows, past>>

PublishEngine ==
    /\ boot = "publish"
    /\ TransitionTo("EngineStarting")
    /\ engine' = TRUE
    /\ boot' = "spawn"
    /\ UNCHANGED <<database, running, startedAt, tasks, calls, windows, past>>

SpawnSignalTask ==
    /\ boot = "spawn"
    /\ boot' = "running"
    /\ UNCHANGED <<status, context, running, startedAt, tasks, calls, windows, past>>

\* The last step of new does not look at the phase it overwrites.
EnterRunning ==
    /\ boot = "running"
    /\ TransitionTo("Running")
    /\ boot' = "returned"
    /\ UNCHANGED <<context, running, startedAt, tasks, calls, windows, past>>

Boot ==
    \/ ConnectDatabase
    \/ CheckSchema("migrate", "verify", "migration")
    \/ CheckSchema("verify", "engine", "schema")
    \/ StartNewEngine \/ PublishEngine \/ SpawnSignalTask \/ EnterRunning

----------------------------------------------------------------------------
(* KnowledgeEngine::start and stop. *)

\* A task enters its window; the others in theirs are met.
EnterWindow(t, label) ==
    /\ pc' = [pc EXCEPT ![t] = label]
    /\ overlapped' = IF InWindow = {} THEN overlapped ELSE InWindow \cup {t}
    /\ UNCHANGED torn

LeaveWindow(t) ==
    /\ pc' = [pc EXCEPT ![t] = "idle"]
    /\ overlapped' = overlapped \ {t}
    /\ torn' = (t \in overlapped)

\* A user with an engine handle makes a call.
Calls(t) ==
    /\ t \in Users /\ engine /\ boot = "returned"
    /\ pc[t] = "idle" /\ closing[t] = "none"
    /\ calls < MaxCalls /\ calls' = calls + 1

Start(t) ==
    /\ Calls(t)
    /\ ~running /\ running' = TRUE
    /\ EnterWindow(t, "stamp")
    /\ past' = past \cup {"start"}
    /\ UNCHANGED <<status, context, boot, startedAt, closing>>

SetStartedAt(t) ==
    /\ pc[t] = "stamp" /\ ~ContextHeld
    /\ startedAt' = TRUE
    /\ LeaveWindow(t)
    /\ UNCHANGED <<status, context, boot, running, closing, calls, past>>

Stop(t) ==
    /\ Calls(t)
    /\ running /\ running' = FALSE
    /\ EnterWindow(t, "clear")
    /\ past' = past \cup {"stop"}
    /\ UNCHANGED <<status, context, boot, startedAt, closing>>

\* Faulty variant of ClearStartedAt: stop forgets the start time.
ClearStartedAtForgotten(t) ==
    /\ pc[t] = "clear" /\ ~ContextHeld
    /\ LeaveWindow(t)
    /\ closing' = [closing EXCEPT ![t] = IF @ = "stop" THEN "finish" ELSE @]
    /\ UNCHANGED <<status, context, boot, running, startedAt, calls, past>>

\* The end of stop; the shutdown that called it goes on.
ClearStartedAt(t) ==
    /\ pc[t] = "clear" /\ ~ContextHeld
    /\ startedAt' = FALSE
    /\ LeaveWindow(t)
    /\ closing' = [closing EXCEPT ![t] = IF @ = "stop" THEN "finish" ELSE @]
    /\ UNCHANGED <<status, context, boot, running, calls, past>>

\* A query takes the context lock and keeps it while the database works.
BeginQuery(t) ==
    /\ Calls(t)
    /\ pc' = [pc EXCEPT ![t] = "query"]
    /\ UNCHANGED <<status, context, boot, running, startedAt, closing, windows, past>>

EndQuery(t) ==
    /\ pc[t] = "query"
    /\ pc' = [pc EXCEPT ![t] = "idle"]
    /\ UNCHANGED <<status, context, boot, running, startedAt, closing, calls, windows, past>>

----------------------------------------------------------------------------
(* Runtime::trigger_shutdown. *)

\* Who may call it: the signal task, once, and any user after new.
MayShutDown(t) ==
    /\ pc[t] = "idle" /\ closing[t] = "none"
    /\ IF t = Signal
       THEN /\ boot \in {"running", "returned"} /\ error = "none" /\ "signal" \notin past
            /\ UNCHANGED calls
       ELSE boot = "returned" /\ calls < MaxCalls /\ calls' = calls + 1

\* Faulty variant of BeginShutdown: it marks the runtime stopped before it stops
\* the engine.
BeginShutdownMarksStopped(t) ==
    /\ MayShutDown(t)
    /\ phase \notin {"Stopping", "Stopped"}
    /\ phase' = "Stopped"
    /\ closing' = [closing EXCEPT ![t] = "stop"]
    /\ past' = past \cup (IF t = Signal THEN {"signal"} ELSE {})
                    \cup (IF boot = "running" THEN {"early"} ELSE {})
    /\ UNCHANGED <<health, error, context, boot, running, startedAt, pc, windows>>

\* The gate and the write of Stopping are under one guard.
BeginShutdown(t) ==
    /\ MayShutDown(t)
    /\ phase \notin {"Stopping", "Stopped"}
    /\ phase' = "Stopping"
    /\ closing' = [closing EXCEPT ![t] = "stop"]
    /\ past' = past \cup (IF t = Signal THEN {"signal"} ELSE {})
                    \cup (IF boot = "running" THEN {"early"} ELSE {})
    /\ UNCHANGED <<health, error, context, boot, running, startedAt, pc, windows>>

\* The call of stop: its flag swap, or nothing to stop.
StopEngine(t) ==
    /\ closing[t] = "stop" /\ pc[t] = "idle"
    /\ IF engine /\ running
       THEN /\ running' = FALSE
            /\ EnterWindow(t, "clear")
            /\ UNCHANGED closing
       ELSE /\ closing' = [closing EXCEPT ![t] = "finish"]
            /\ UNCHANGED <<running, pc, windows>>
    /\ UNCHANGED <<status, context, boot, startedAt, calls, past>>

\* Faulty variant of StopTimesOut: stop is waited for however long the query takes.
StopTimesOutNever(t) ==
    /\ closing[t] = "stop" /\ pc[t] = "clear" /\ ContextHeld
    /\ UNCHANGED vars

\* Five seconds pass while a query holds the context: stop is dropped in its
\* window, the flag already down and the start time still there.
StopTimesOut(t) ==
    /\ closing[t] = "stop" /\ pc[t] = "clear" /\ ContextHeld
    /\ pc' = [pc EXCEPT ![t] = "idle"]
    /\ overlapped' = overlapped \ {t}
    /\ torn' = TRUE
    /\ closing' = [closing EXCEPT ![t] = "finish"]
    /\ UNCHANGED <<status, context, boot, running, startedAt, calls, past>>

FinishShutdown(t) ==
    /\ closing[t] = "finish"
    /\ phase' = "Stopped"
    /\ closing' = [closing EXCEPT ![t] = "none"]
    /\ UNCHANGED <<health, error, context, boot, running, startedAt, pc, calls, windows, past>>

Shutdown(t) == StopEngine(t) \/ ClearStartedAt(t) \/ StopTimesOut(t) \/ FinishShutdown(t)

----------------------------------------------------------------------------
Next ==
    \/ Boot
    \/ \E t \in Tasks :
          \/ Start(t) \/ SetStartedAt(t) \/ Stop(t) \/ BeginQuery(t) \/ EndQuery(t)
          \/ BeginShutdown(t) \/ Shutdown(t)

Spec == Init /\ [][Next]_vars

\* A shutdown in progress is scheduled until it ends: the lock is granted or
\* the timer fires.  No query, user or boot step is assumed to happen.
FairSpec == Spec /\ \A t \in Tasks : WF_vars(Shutdown(t))

----------------------------------------------------------------------------
(* Properties. *)

\* A start or stop that ran its window alone leaves the flag and the start
\* time in agreement, whatever interleavings or timeouts came before it: info
\* never reports an uptime for an engine that is down, or none for one that is up.
UptimeFollowsTheFlag == InWindow = {} /\ ~torn => running = startedAt

\* The published phase tells the truth about the engine.  Stopped: it is down
\* unless a user started it himself.  Running: the handles are there and it is
\* up, unless a user stopped it or a signal came before new was done.  And new
\* returns without an engine exactly when it recorded an error.
StatusTellsTheTruth ==
    /\ phase = "Stopped" /\ "start" \notin past => ~running
    /\ phase = "Running" => database /\ engine
    /\ phase = "Running" /\ past \cap {"stop", "early"} = {} => running
    /\ boot = "returned" => (engine <=> error = "none")

\* The gate of trigger_shutdown lets one shutdown through at a time, and none
\* is still at work when the phase is Stopped, unless a signal came so early
\* that new overwrote its phase.
OneShutdownAtATime ==
    "early" \notin past =>
        /\ \A t, u \in Tasks : closing[t] # "none" /\ closing[u] # "none" => t = u
        /\ phase = "Stopping" <=> \E t \in Tasks : closing[t] # "none"

\* A shutdown that began ends in Stopped, however long a query holds the
\* engine's context.
ShutdownCompletes == phase = "Stopping" ~> phase = "Stopped"

\* What is_terminal and the documentation of trigger_shutdown say of Stopped:
\* it is the end.  The last step of new breaks it.
StoppedIsFinal == [][phase = "Stopped" => phase' = "Stopped"]_vars
=============================================================================
