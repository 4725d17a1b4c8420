----------------------------- MODULE Connection -----------------------------
(***************************************************************************)
(* One upstream OPC UA connection (adapters/asyncua/connection.py): the    *)
(* reconnect task, the callback by which asyncua reports a lost session,   *)
(* and stop().  All of it runs on the event loop of one worker thread, so  *)
(* an action is what happens between two awaits.                           *)
(*                                                                         *)
(* asyncua itself is external.  Of a client this module keeps the state of *)
(* its session: none yet, alive, dead without anybody knowing, reported    *)
(* dead by the monitor task of the client, or closed.                      *)
(***************************************************************************)
EXTENDS Integers, FiniteSets

CONSTANTS
    Clients,        \* asyncua.Client objects; one is made for every attempt
    Tasks,          \* asyncio tasks that run _run_reconnect_loop
    None            \* no client, no task

ASSUME NoneAssumption == None \notin Clients /\ None \notin Tasks

VARIABLES
    client,         \* AsyncuaConnection._client
    connected,      \* is _connected_event set?
    closed,         \* _closed
    reconnectTask,  \* _reconnect_task
    pc,             \* where each task is suspended; "idle" when it does not exist
    holds,          \* the local variable `client` of each task's _connect_once
    cancelled,      \* tasks with a cancellation under way
    stopping,       \* progress of stop()
    closing,        \* the local variable `client` of stop()'s _disconnect
    session,        \* the session of each client
    setupLost       \* history: did a session ever die while _connect_once ran?

local == <<client, connected, closed, reconnectTask>>
tasks == <<pc, holds, cancelled>>
stopper == <<stopping, closing>>
vars == <<local, tasks, stopper, session, setupLost>>

Running(t) == pc[t] # "idle"

\* A client nobody refers to any more stands for a newly made one.
Fresh(c) ==
    /\ session[c] \in {"none", "reported", "closed"}
    /\ c \notin {client, closing}
    /\ \A t \in Tasks : holds[t] # c

-----------------------------------------------------------------------------
Init ==
    /\ client = None
    /\ connected = FALSE
    /\ closed = FALSE
    /\ reconnectTask = None
    /\ pc = [t \in Tasks |-> "idle"]
    /\ holds = [t \in Tasks |-> None]
    /\ cancelled = {}
    /\ stopping = "no"
    /\ closing = None
    /\ session = [c \in Clients |-> "none"]
    /\ setupLost = FALSE

-----------------------------------------------------------------------------
(* Spinning a reconnect loop.                                              *)

\* Mutant: the check for a running loop is missing.
MutMaySpin == ~closed

\* Mutant: a connection being closed may spin a loop.
MutMaySpinClosed == reconnectTask = None \/ ~Running(reconnectTask)

\* The two early returns of _start_reconnect_loop.
MaySpin == ~closed /\ (reconnectTask = None \/ ~Running(reconnectTask))

\* _start_reconnect_loop: a new task, unless one of the checks forbids it.
StartReconnectLoop ==
    IF MaySpin
    THEN \E t \in Tasks :
            /\ ~Running(t)
            /\ reconnectTask' = t
            /\ pc' = [pc EXCEPT ![t] = "fresh"]
    ELSE UNCHANGED <<reconnectTask, pc>>

\* start(), called once by the binding.
Start ==
    /\ stopping = "no"
    /\ reconnectTask = None
    /\ client = None
    /\ \A c \in Clients : session[c] = "none"
    /\ StartReconnectLoop
    /\ UNCHANGED <<client, connected, closed, holds, cancelled, stopper, session, setupLost>>

-----------------------------------------------------------------------------
(* The reconnect task.  A step of a cancelled task is Cancelled below.     *)

At(t, label) == pc[t] = label /\ t \notin cancelled

\* The top of the loop: a new client is made and its connect() awaited.
Attempt(t) ==
    /\ At(t, "fresh") \/ At(t, "backoff")
    /\ ~closed
    /\ \E c \in Clients :
        /\ Fresh(c)
        /\ holds' = [holds EXCEPT ![t] = c]
        /\ session' = [session EXCEPT ![c] = "none"]
    /\ pc' = [pc EXCEPT ![t] = "connecting"]
    /\ UNCHANGED <<local, cancelled, stopper, setupLost>>

\* Mutant: a failed attempt leaves the loop in a state it does not know.
MutConnectFails(t) ==
    /\ At(t, "connecting")
    /\ pc' = [pc EXCEPT ![t] = "failed"]
    /\ holds' = [holds EXCEPT ![t] = None]
    /\ UNCHANGED <<local, cancelled, stopper, session, setupLost>>

\* on_pre_connect, the channel and identity set-up or connect() raised.
ConnectFails(t) ==
    /\ At(t, "connecting")
    /\ pc' = [pc EXCEPT ![t] = "backoff"]
    /\ holds' = [holds EXCEPT ![t] = None]
    /\ UNCHANGED <<local, cancelled, stopper, session, setupLost>>

\* connect() returned.  connection_lost_callback is wired before the next await;
\* then the types are loaded.
ConnectOk(t) ==
    /\ At(t, "connecting")
    /\ session' = [session EXCEPT ![holds[t]] = "alive"]
    /\ pc' = [pc EXCEPT ![t] = "loading"]
    /\ UNCHANGED <<local, holds, cancelled, stopper, setupLost>>

\* The types and enums are loaded, or loading them failed: a failure is only
\* logged.  The client is published and the on_connected hook awaited.
Loaded(t) ==
    /\ At(t, "loading")
    /\ client' = holds[t]
    /\ connected' = TRUE
    /\ pc' = [pc EXCEPT ![t] = "hook"]
    /\ UNCHANGED <<closed, reconnectTask, holds, cancelled, stopper, session, setupLost>>

\* Mutant: the task never ends.
MutFinish(t) ==
    /\ holds' = [holds EXCEPT ![t] = None]
    /\ UNCHANGED <<pc, reconnectTask>>

\* The finally block of the loop, and the end of the task.
Finish(t) ==
    /\ pc' = [pc EXCEPT ![t] = "idle"]
    /\ holds' = [holds EXCEPT ![t] = None]
    /\ reconnectTask' = IF reconnectTask = t THEN None ELSE reconnectTask

\* The hook returned or raised; either way _connect_once and the loop return.
HookEnds(t) ==
    /\ At(t, "hook")
    /\ Finish(t)
    /\ UNCHANGED <<client, connected, closed, cancelled, stopper, session, setupLost>>

\* Mutant: the cancellation is handled like any other error.
MutCancelled(t) ==
    /\ Running(t)
    /\ t \in cancelled
    /\ pc' = [pc EXCEPT ![t] = "backoff"]
    /\ holds' = [holds EXCEPT ![t] = None]
    /\ cancelled' = cancelled \ {t}
    /\ UNCHANGED <<local, stopper, session, setupLost>>

\* CancelledError is thrown into whatever the task awaits; nothing handles it.
Cancelled(t) ==
    /\ Running(t)
    /\ t \in cancelled
    /\ Finish(t)
    /\ cancelled' = cancelled \ {t}
    /\ UNCHANGED <<client, connected, closed, stopper, session, setupLost>>

-----------------------------------------------------------------------------
(* The session.                                                            *)

Drop(c) ==
    /\ session[c] = "alive"
    /\ session' = [session EXCEPT ![c] = "dead"]
    /\ setupLost' = (setupLost \/ \E t \in Tasks : holds[t] = c)
    /\ UNCHANGED <<local, tasks, stopper>>

\* Mutant: the local state is cleared, but no loop is spun.
MutConnectionLost ==
    /\ client' = None
    /\ connected' = FALSE
    /\ UNCHANGED <<pc, reconnectTask>>

\* connection_lost: _disconnect(exc), which closes nothing and whose hook does
\* not suspend, then _start_reconnect_loop.
ConnectionLost ==
    /\ client' = None
    /\ connected' = FALSE
    /\ StartReconnectLoop

\* The monitor task of a client notices that its session is dead.
MonitorFires(c) ==
    /\ session[c] = "dead"
    /\ session' = [session EXCEPT ![c] = "reported"]
    /\ ConnectionLost
    /\ UNCHANGED <<closed, holds, cancelled, stopper, setupLost>>

-----------------------------------------------------------------------------
(* stop().                                                                 *)

\* The task is cancelled, and awaited, unless there is none.
Stop ==
    /\ stopping = "no"
    /\ closed' = TRUE
    /\ reconnectTask' = None
    /\ IF reconnectTask # None /\ Running(reconnectTask)
       THEN /\ cancelled' = cancelled \cup {reconnectTask}
            /\ stopping' = "awaiting"
       ELSE UNCHANGED cancelled /\ stopping' = "awaited"
    /\ UNCHANGED <<client, connected, pc, holds, closing, session, setupLost>>

\* The await of the cancelled task returns.
StopTaskEnded ==
    /\ stopping = "awaiting"
    /\ \A t \in Tasks : ~Running(t)
    /\ stopping' = "awaited"
    /\ UNCHANGED <<local, tasks, closing, session, setupLost>>

\* _disconnect(None): the client is forgotten, then asked to close its session.
StopDisconnect ==
    /\ stopping = "awaited"
    /\ client' = None
    /\ connected' = FALSE
    /\ closing' = client
    /\ stopping' = IF client = None THEN "done" ELSE "closing"
    /\ UNCHANGED <<closed, reconnectTask, tasks, session, setupLost>>

\* client.disconnect() returned, or failed: errors are suppressed.
StopClosed ==
    /\ stopping = "closing"
    /\ session' = [session EXCEPT ![closing] = "closed"]
    /\ closing' = None
    /\ stopping' = "done"
    /\ UNCHANGED <<local, tasks, setupLost>>

-----------------------------------------------------------------------------
TaskStep(t) ==
    \/ Attempt(t) \/ ConnectFails(t) \/ ConnectOk(t) \/ Loaded(t)
    \/ HookEnds(t) \/ Cancelled(t)

StopStep == StopTaskEnded \/ StopDisconnect \/ StopClosed

Next ==
    \/ Start \/ Stop \/ StopStep
    \/ \E t \in Tasks : TaskStep(t)
    \/ \E c \in Clients : Drop(c) \/ MonitorFires(c)

Spec == Init /\ [][Next]_vars

\* Awaited things end: the event loop resumes a task whose await is over, every
\* request of asyncua has a timeout, and its monitor notices a dead session.
\* Nobody promises that a connection is stopped, or that a session is ever lost.
Fairness ==
    /\ WF_vars(StopStep)
    /\ \A t \in Tasks : WF_vars(TaskStep(t))
    /\ \A c \in Clients : WF_vars(MonitorFires(c))

\* Of the environment, for recovery only: a server that is asked again and again
\* answers at last.
ServerComesBack == \A t \in Tasks : SF_vars(ConnectOk(t))

FairSpec == Spec /\ Fairness /\ ServerComesBack

-----------------------------------------------------------------------------
(* Properties.                                                             *)

TypeOK ==
    /\ client \in Clients \cup {None}
    /\ connected \in BOOLEAN
    /\ closed \in BOOLEAN
    /\ reconnectTask \in Tasks \cup {None}
    /\ pc \in [Tasks -> {"idle", "fresh", "connecting", "backoff", "loading", "hook"}]
    /\ holds \in [Tasks -> Clients \cup {None}]
    /\ cancelled \in SUBSET Tasks
    /\ stopping \in {"no", "awaiting", "awaited", "closing", "done"}
    /\ closing \in Clients \cup {None}
    /\ session \in [Clients -> {"none", "alive", "dead", "reported", "closed"}]
    /\ setupLost \in BOOLEAN

\* At most one reconnect loop runs, whoever asks for one and whenever.
OneLoop == \A t, u \in Tasks : Running(t) /\ Running(u) => t = u

Open(c) == session[c] \in {"alive", "dead"}

\* At most one session is open, and when one is reported lost no other client is
\* the published one: connection_lost, which forgets the published client without
\* comparing it with the one that was lost, never forgets a good session.
OneSession ==
    /\ \A c, d \in Clients : Open(c) /\ Open(d) => c = d
    /\ \A c \in Clients : session[c] = "dead" => client \in {c, None}

\* Once stop() has returned nothing runs, nothing is published, and nothing will
\* be: no loss, however late, brings the connection back.
StopQuiesces ==
    stopping = "done" =>
        /\ \A t \in Tasks : ~Running(t)
        /\ client = None
        /\ ~connected

\* A started connection is looked after until it is stopped: either a loop is
\* running or the published session is not known to be dead.
LookedAfter ==
    \/ \E t \in Tasks : Running(t)
    \/ client # None /\ session[client] # "reported"

Started == reconnectTask # None \/ \E c \in Clients : session[c] # "none"

\* It is, as long as no session dies while _connect_once is still at work on it.
NeverUnattended == Started /\ ~closed /\ ~setupLost => LookedAfter

\* connection_lost "clears local state and spins a reconnect loop": it is, always.
LossSpinsALoop == Started /\ ~closed => LookedAfter

\* stop() comes to its end.
StopTerminates == stopping # "no" ~> stopping = "done"

\* A lost connection comes back, unless a session ever dies during set-up.
Recovers == [](~setupLost) => ((Started /\ ~connected) ~> (connected \/ closed))

=============================================================================
