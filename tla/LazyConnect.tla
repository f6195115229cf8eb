---------------------------- MODULE LazyConnect ----------------------------
(***************************************************************************)
(* client/mod.rs over db/connect.rs: a client opens the database on its    *)
(* first operation and keeps the connection until it is dropped.  Clients  *)
(* of one process or of several share the data directory; the operations   *)
(* of one client may overlap, since they only borrow it.                   *)
(*                                                                         *)
(* The connecting itself is DbLock, whose actions this module takes: it    *)
(* adds who calls connect_at, and when, and what becomes of the            *)
(* connection.  The phase that set_database records is left to Runtime: no *)
(* operation of a client waits for it.  No probe is at work here.          *)
(***************************************************************************)
EXTENDS DbLock

CONSTANTS
    Clients,
    ClientOf     \* the client an operation belongs to; the operations are the Openers

ASSUME ClientAssumption == ClientOf \in [Openers -> Clients]

VARIABLES
    handle,   \* per client, the OnceLock: the operation whose connection it holds
    op,       \* per operation, what it is doing
    crowded   \* history: an operation connected beside another, or beside a client

connectVars == <<lockVars, handle, op, crowded>>

ConnectTypeOK ==
    /\ LockTypeOK
    /\ handle \in [Clients -> Openers \cup {None}]
    /\ op \in [Openers -> {"idle", "connecting", "using"}]
    /\ crowded \in BOOLEAN

\* from_config touches neither the database nor its lock.
ConnectInit ==
    /\ LockInit
    /\ handle = [c \in Clients |-> None]
    /\ op = [o \in Openers |-> "idle"]
    /\ crowded = FALSE

Become(o, what) == op' = [op EXCEPT ![o] = what]

Crowds(o) ==
    \/ \E q \in Openers : op[q] = "connecting"
    \/ \E c \in Clients \ {ClientOf[o]} : handle[c] # None

-----------------------------------------------------------------------------
\* Faulty variant of Begin: the client connects again for every operation.
BeginAlwaysConnects(o) ==
    /\ op[o] = "idle"
    /\ pc[o] = "idle"
    /\ Connect(o)
    /\ Become(o, "connecting")
    /\ crowded' = (crowded \/ Crowds(o))
    /\ UNCHANGED handle

\* An operation starts: ensure_connected finds the handle, or connects.
Begin(o) ==
    /\ op[o] = "idle"
    /\ IF handle[ClientOf[o]] # None
       THEN Become(o, "using") /\ UNCHANGED <<lockVars, crowded>>
       ELSE /\ Connect(o)
            /\ Become(o, "connecting")
            /\ crowded' = (crowded \/ Crowds(o))
    /\ UNCHANGED handle

\* One step of connect_at; its error ends the operation.
ConnectStep(o) ==
    /\ op[o] = "connecting"
    /\ OpenerStep(o)
    /\ IF pc'[o] = "idle" THEN Become(o, "idle") ELSE UNCHANGED op
    /\ UNCHANGED <<handle, crowded>>

\* Faulty variant of Install: a connection that comes second is not kept, and
\* the operation waits for a cell that is already full.
InstallWaits(o) ==
    /\ op[o] = "connecting"
    /\ pc[o] = "connected"
    /\ handle[ClientOf[o]] = None
    /\ handle' = [handle EXCEPT ![ClientOf[o]] = o]
    /\ Become(o, "using")
    /\ UNCHANGED <<lockVars, crowded>>

\* set_database: the first connection stays, a second one is dropped.
Install(o) ==
    /\ op[o] = "connecting"
    /\ pc[o] = "connected"
    /\ IF handle[ClientOf[o]] = None
       THEN handle' = [handle EXCEPT ![ClientOf[o]] = o] /\ UNCHANGED lockVars
       ELSE Leave(o) /\ UNCHANGED handle
    /\ Become(o, "using")
    /\ UNCHANGED crowded

\* The operation returns; the connection stays with the client.
Finish(o) ==
    /\ op[o] = "using"
    /\ Become(o, "idle")
    /\ UNCHANGED <<lockVars, handle, crowded>>

\* The caller drops the operation's future while it connects.
Cancel(o) ==
    /\ op[o] = "connecting"
    /\ Leave(o)
    /\ Become(o, "idle")
    /\ UNCHANGED <<handle, crowded>>

\* A client without operations is dropped, and its connection with it; another
\* may be opened in its place.
Drop(c) ==
    /\ handle[c] # None
    /\ \A o \in Openers : ClientOf[o] = c => op[o] = "idle"
    /\ Leave(handle[c])
    /\ handle' = [handle EXCEPT ![c] = None]
    /\ UNCHANGED <<op, crowded>>

ConnectNext ==
    \/ \E o \in Openers : \/ Begin(o) \/ ConnectStep(o) \/ Install(o)
                          \/ Finish(o) \/ Cancel(o)
    \/ \E c \in Clients : Drop(c)

ConnectSpec == ConnectInit /\ [][ConnectNext]_connectVars

\* connect_at is polled once its sleep or its I/O is over, and set_database
\* follows without waiting.
FairConnectSpec ==
    /\ ConnectSpec
    /\ \A o \in Openers : WF_connectVars(ConnectStep(o)) /\ WF_connectVars(Install(o))
-----------------------------------------------------------------------------
\* Every connection that is not being set up is the one its client keeps, so
\* none is left open for nobody; and as long as no operation connected beside
\* another one or beside another client, a client's connection has the lock of
\* the file named LOCK (ensure_connected, set_database).
HandleKeepsItsLock ==
    /\ \A o \in Openers :
           pc[o] = "connected" /\ op[o] # "connecting" => handle[ClientOf[o]] = o
    /\ \A c \in Clients : handle[c] # None =>
           /\ pc[handle[c]] = "connected"
           /\ ~crowded => /\ fd[handle[c]] = lockFile
                          /\ holder[lockFile] = handle[c]

\* An operation that has to connect gets its connection or an error, whatever
\* the others do (ensure_connected, connect_at).
OperationsReturn ==
    \A o \in Openers : op[o] = "connecting" ~> op[o] # "connecting"

\* client/mod.rs: "The database connection is established lazily on the first
\* domain operation", and context.rs: "set once at startup".  A single client's
\* connection always has the lock.
LoneClientKeepsTheLock ==
    \A c \in Clients : Clients = {c} /\ handle[c] # None => fd[handle[c]] = lockFile
=============================================================================
