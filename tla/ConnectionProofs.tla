-------------------------- MODULE ConnectionProofs --------------------------
(***************************************************************************)
(* Proofs about Connection, for any set of clients and tasks.              *)
(***************************************************************************)
EXTENDS Connection, TLAPS

\* Whose loop it is: reconnectTask names the running task, except that stop()
\* takes the name away from the task it cancels and waits for.
LoopInv ==
    /\ closed <=> stopping # "no"
    /\ closed => reconnectTask = None
    /\ reconnectTask # None => Running(reconnectTask)
    /\ \A t \in Tasks : Running(t) => t = reconnectTask \/ t \in cancelled
    /\ \A t \in cancelled : Running(t) /\ stopping = "awaiting"
    /\ \A t, u \in cancelled : t = u

\* What is published, and what stop() has in hand.
PublishInv ==
    /\ connected <=> client # None
    /\ stopping = "done" => client = None
    /\ closing # None <=> stopping = "closing"
    /\ closing # None => client = None

\* What a task has in hand, by the place where it is suspended.
TaskInv ==
    \A t \in Tasks :
        /\ pc[t] \in {"idle", "fresh", "backoff"} => holds[t] = None
        /\ pc[t] \in {"connecting", "loading", "hook"} => holds[t] \in Clients
        /\ pc[t] \in {"fresh", "backoff", "connecting", "loading"} => client = None
        /\ pc[t] = "connecting" => session[holds[t]] = "none"
        /\ pc[t] = "hook" => client \in {holds[t], None}
        /\ pc[t] = "hook" /\ Open(holds[t]) => client = holds[t]
        /\ ~setupLost /\ pc[t] \in {"loading", "hook"} => session[holds[t]] = "alive"

\* Who an open session belongs to.
SessionInv ==
    \A c \in Clients : Open(c) =>
        /\ client \in {c, None}
        /\ \A d \in Clients : Open(d) => d = c
        /\ \A t \in Tasks :
              pc[t] \in {"connecting", "loading", "hook"} => holds[t] = c
        /\ \A t \in Tasks : pc[t] \notin {"fresh", "backoff"}
        /\ ~closed /\ client = None => \E t \in Tasks : holds[t] = c

\* Without a loop, a started connection has an open session.
AttendedInv ==
    Started /\ ~closed /\ ~setupLost /\ (\A t \in Tasks : ~Running(t))
        => client # None /\ Open(client)

-----------------------------------------------------------------------------
\* A connection that was not started yet satisfies the invariant.
LEMMA InitHolds ==
    Init => TypeOK /\ LoopInv /\ PublishInv /\ TaskInv /\ SessionInv /\ AttendedInv
<1> SUFFICES ASSUME Init
             PROVE  TypeOK /\ LoopInv /\ PublishInv /\ TaskInv /\ SessionInv /\ AttendedInv
  OBVIOUS
<1> USE DEF Init
<1>1. TypeOK
  BY DEF TypeOK
<1>2. LoopInv
  BY DEF LoopInv, Running
<1>3. PublishInv
  BY DEF PublishInv
<1>4. TaskInv
  BY DEF TaskInv
<1>5. SessionInv
  BY DEF SessionInv, Open
<1>6. AttendedInv
  BY DEF AttendedInv, Started
<1>7. QED  BY <1>1, <1>2, <1>3, <1>4, <1>5, <1>6

\* At most one task runs.
LEMMA Alone == TypeOK /\ LoopInv => OneLoop
BY NoneAssumption DEF TypeOK, LoopInv, OneLoop, Running

\* Each step keeps the types.
LEMMA TypeStep ==
    TypeOK /\ [Next]_vars
        => TypeOK'
<1> USE NoneAssumption DEF TypeOK
<1> SUFFICES ASSUME TypeOK, [Next]_vars
             PROVE  TypeOK'
  OBVIOUS
<1>1. CASE Start
  BY <1>1 DEF Start, StartReconnectLoop, MaySpin, stopper
<1>2. CASE Stop
  BY <1>2 DEF Stop, tasks
<1>3. CASE StopTaskEnded
  BY <1>3 DEF StopTaskEnded, local, tasks
<1>4. CASE StopDisconnect
  BY <1>4 DEF StopDisconnect, tasks
<1>5. CASE StopClosed
  BY <1>5 DEF StopClosed, local, tasks
<1>6. ASSUME NEW t \in Tasks, Attempt(t)
      PROVE  TypeOK'
  BY <1>6 DEF Attempt, At, Fresh, local, stopper
<1>7. ASSUME NEW t \in Tasks, ConnectFails(t)
      PROVE  TypeOK'
  BY <1>7 DEF ConnectFails, At, local, stopper
<1>8. ASSUME NEW t \in Tasks, ConnectOk(t)
      PROVE  TypeOK'
  BY <1>8 DEF ConnectOk, At, local, stopper
<1>9. ASSUME NEW t \in Tasks, Loaded(t)
      PROVE  TypeOK'
  BY <1>9 DEF Loaded, At, stopper
<1>10. ASSUME NEW t \in Tasks, HookEnds(t)
      PROVE  TypeOK'
  BY <1>10 DEF HookEnds, Finish, At, stopper
<1>11. ASSUME NEW t \in Tasks, Cancelled(t)
      PROVE  TypeOK'
  BY <1>11 DEF Cancelled, Finish, stopper
<1>12. ASSUME NEW c \in Clients, Drop(c)
      PROVE  TypeOK'
  BY <1>12 DEF Drop, local, tasks, stopper
<1>13. ASSUME NEW c \in Clients, MonitorFires(c)
      PROVE  TypeOK'
  BY <1>13 DEF MonitorFires, ConnectionLost, StartReconnectLoop, MaySpin, stopper
<1>14. CASE UNCHANGED vars
  BY <1>14 DEF vars, local, tasks, stopper
<1>15. QED
  BY <1>1, <1>2, <1>3, <1>4, <1>5, <1>6, <1>7, <1>8, <1>9, <1>10, <1>11, <1>12, <1>13, <1>14
  DEF Next, TaskStep, StopStep

\* Each step keeps the name of the loop right, or hands the loop over to stop().
LEMMA LoopStep ==
    TypeOK /\ LoopInv /\ [Next]_vars
        => LoopInv'
<1> USE NoneAssumption DEF TypeOK, LoopInv, Running
<1> SUFFICES ASSUME TypeOK, LoopInv, [Next]_vars
             PROVE  LoopInv'
  OBVIOUS
<1>1. CASE Start
  BY <1>1 DEF Start, StartReconnectLoop, MaySpin, stopper
<1>2. CASE Stop
  BY <1>2 DEF Stop, tasks
<1>3. CASE StopTaskEnded
  BY <1>3 DEF StopTaskEnded, local, tasks
<1>4. CASE StopDisconnect
  BY <1>4 DEF StopDisconnect, tasks
<1>5. CASE StopClosed
  BY <1>5 DEF StopClosed, local, tasks
<1>6. ASSUME NEW t \in Tasks, Attempt(t)
      PROVE  LoopInv'
  BY <1>6 DEF Attempt, At, Fresh, local, stopper
<1>7. ASSUME NEW t \in Tasks, ConnectFails(t)
      PROVE  LoopInv'
  BY <1>7 DEF ConnectFails, At, local, stopper
<1>8. ASSUME NEW t \in Tasks, ConnectOk(t)
      PROVE  LoopInv'
  BY <1>8 DEF ConnectOk, At, local, stopper
<1>9. ASSUME NEW t \in Tasks, Loaded(t)
      PROVE  LoopInv'
  BY <1>9 DEF Loaded, At, stopper
<1>10. ASSUME NEW t \in Tasks, HookEnds(t)
      PROVE  LoopInv'
  BY <1>10 DEF HookEnds, Finish, At, stopper
<1>11. ASSUME NEW t \in Tasks, Cancelled(t)
      PROVE  LoopInv'
  BY <1>11 DEF Cancelled, Finish, stopper
<1>12. ASSUME NEW c \in Clients, Drop(c)
      PROVE  LoopInv'
  BY <1>12 DEF Drop, local, tasks, stopper
<1>13. ASSUME NEW c \in Clients, MonitorFires(c)
      PROVE  LoopInv'
  BY <1>13 DEF MonitorFires, ConnectionLost, StartReconnectLoop, MaySpin, stopper
<1>14. CASE UNCHANGED vars
  BY <1>14 DEF vars, local, tasks, stopper
<1>15. QED
  BY <1>1, <1>2, <1>3, <1>4, <1>5, <1>6, <1>7, <1>8, <1>9, <1>10, <1>11, <1>12, <1>13, <1>14
  DEF Next, TaskStep, StopStep

\* Each step keeps the event and the published client together.
LEMMA PublishStep ==
    TypeOK /\ LoopInv /\ PublishInv /\ TaskInv /\ [Next]_vars
        => PublishInv'
<1> USE NoneAssumption DEF TypeOK, LoopInv, PublishInv, TaskInv, Running
<1> SUFFICES ASSUME TypeOK, LoopInv, PublishInv, TaskInv, [Next]_vars
             PROVE  PublishInv'
  OBVIOUS
<1>1. CASE Start
  BY <1>1 DEF Start, StartReconnectLoop, MaySpin, stopper
<1>2. CASE Stop
  BY <1>2 DEF Stop, tasks
<1>3. CASE StopTaskEnded
  BY <1>3 DEF StopTaskEnded, local, tasks
<1>4. CASE StopDisconnect
  BY <1>4 DEF StopDisconnect, tasks
<1>5. CASE StopClosed
  BY <1>5 DEF StopClosed, local, tasks
<1>6. ASSUME NEW t \in Tasks, Attempt(t)
      PROVE  PublishInv'
  BY <1>6 DEF Attempt, At, Fresh, local, stopper
<1>7. ASSUME NEW t \in Tasks, ConnectFails(t)
      PROVE  PublishInv'
  BY <1>7 DEF ConnectFails, At, local, stopper
<1>8. ASSUME NEW t \in Tasks, ConnectOk(t)
      PROVE  PublishInv'
  BY <1>8 DEF ConnectOk, At, local, stopper
<1>9. ASSUME NEW t \in Tasks, Loaded(t)
      PROVE  PublishInv'
  BY <1>9 DEF Loaded, At, stopper
<1>10. ASSUME NEW t \in Tasks, HookEnds(t)
      PROVE  PublishInv'
  BY <1>10 DEF HookEnds, Finish, At, stopper
<1>11. ASSUME NEW t \in Tasks, Cancelled(t)
      PROVE  PublishInv'
  BY <1>11 DEF Cancelled, Finish, stopper
<1>12. ASSUME NEW c \in Clients, Drop(c)
      PROVE  PublishInv'
  BY <1>12 DEF Drop, local, tasks, stopper
<1>13. ASSUME NEW c \in Clients, MonitorFires(c)
      PROVE  PublishInv'
  BY <1>13 DEF MonitorFires, ConnectionLost, StartReconnectLoop, MaySpin, stopper
<1>14. CASE UNCHANGED vars
  BY <1>14 DEF vars, local, tasks, stopper
<1>15. QED
  BY <1>1, <1>2, <1>3, <1>4, <1>5, <1>6, <1>7, <1>8, <1>9, <1>10, <1>11, <1>12, <1>13, <1>14
  DEF Next, TaskStep, StopStep

\* Each step leaves a task with a client in the state its place tells.
LEMMA TaskInvStep ==
    TypeOK /\ LoopInv /\ TaskInv /\ SessionInv /\ [Next]_vars
        => TaskInv'
<1> USE NoneAssumption DEF TypeOK, LoopInv, TaskInv, SessionInv, Running, Open
<1> SUFFICES ASSUME TypeOK, LoopInv, TaskInv, SessionInv, [Next]_vars
             PROVE  TaskInv'
  OBVIOUS
<1>1. CASE Start
  BY <1>1 DEF Start, StartReconnectLoop, MaySpin, stopper
<1>2. CASE Stop
  BY <1>2 DEF Stop, tasks
<1>3. CASE StopTaskEnded
  BY <1>3 DEF StopTaskEnded, local, tasks
<1>4. CASE StopDisconnect
  BY <1>4 DEF StopDisconnect, tasks
<1>5. CASE StopClosed
  BY <1>5 DEF StopClosed, local, tasks
<1>6. ASSUME NEW t \in Tasks, Attempt(t)
      PROVE  TaskInv'
  BY <1>6 DEF Attempt, At, Fresh, local, stopper
<1>7. ASSUME NEW t \in Tasks, ConnectFails(t)
      PROVE  TaskInv'
  BY <1>7 DEF ConnectFails, At, local, stopper
<1>8. ASSUME NEW t \in Tasks, ConnectOk(t)
      PROVE  TaskInv'
  BY <1>8 DEF ConnectOk, At, local, stopper
<1>9. ASSUME NEW t \in Tasks, Loaded(t)
      PROVE  TaskInv'
  BY <1>9 DEF Loaded, At, stopper
<1>10. ASSUME NEW t \in Tasks, HookEnds(t)
      PROVE  TaskInv'
  BY <1>10 DEF HookEnds, Finish, At, stopper
<1>11. ASSUME NEW t \in Tasks, Cancelled(t)
      PROVE  TaskInv'
  BY <1>11 DEF Cancelled, Finish, stopper
<1>12. ASSUME NEW c \in Clients, Drop(c)
      PROVE  TaskInv'
  BY <1>12 DEF Drop, local, tasks, stopper
<1>13. ASSUME NEW c \in Clients, MonitorFires(c)
      PROVE  TaskInv'
  BY <1>13 DEF MonitorFires, ConnectionLost, StartReconnectLoop, MaySpin, stopper
<1>14. CASE UNCHANGED vars
  BY <1>14 DEF vars, local, tasks, stopper
<1>15. QED
  BY <1>1, <1>2, <1>3, <1>4, <1>5, <1>6, <1>7, <1>8, <1>9, <1>10, <1>11, <1>12, <1>13, <1>14
  DEF Next, TaskStep, StopStep

\* Each step leaves at most one open session, in the hands of somebody.
LEMMA SessionStep ==
    TypeOK /\ LoopInv /\ PublishInv /\ TaskInv /\ SessionInv /\ [Next]_vars
        => SessionInv'
<1> USE NoneAssumption DEF TypeOK, LoopInv, PublishInv, TaskInv, SessionInv, Running, Open
<1> SUFFICES ASSUME TypeOK, LoopInv, PublishInv, TaskInv, SessionInv, [Next]_vars
             PROVE  SessionInv'
  OBVIOUS
<1>1. CASE Start
  BY <1>1 DEF Start, StartReconnectLoop, MaySpin, stopper
<1>2. CASE Stop
  BY <1>2 DEF Stop, tasks
<1>3. CASE StopTaskEnded
  BY <1>3 DEF StopTaskEnded, local, tasks
<1>4. CASE StopDisconnect
  BY <1>4 DEF StopDisconnect, tasks
<1>5. CASE StopClosed
  BY <1>5 DEF StopClosed, local, tasks
<1>6. ASSUME NEW t \in Tasks, Attempt(t)
      PROVE  SessionInv'
  BY <1>6 DEF Attempt, At, Fresh, local, stopper
<1>7. ASSUME NEW t \in Tasks, ConnectFails(t)
      PROVE  SessionInv'
  BY <1>7 DEF ConnectFails, At, local, stopper
<1>8. ASSUME NEW t \in Tasks, ConnectOk(t)
      PROVE  SessionInv'
  BY <1>8 DEF ConnectOk, At, local, stopper
<1>9. ASSUME NEW t \in Tasks, Loaded(t)
      PROVE  SessionInv'
  BY <1>9 DEF Loaded, At, stopper
<1>10. ASSUME NEW t \in Tasks, HookEnds(t)
      PROVE  SessionInv'
  BY <1>10 DEF HookEnds, Finish, At, stopper
<1>11. ASSUME NEW t \in Tasks, Cancelled(t)
      PROVE  SessionInv'
  BY <1>11 DEF Cancelled, Finish, stopper
<1>12. ASSUME NEW c \in Clients, Drop(c)
      PROVE  SessionInv'
  BY <1>12 DEF Drop, local, tasks, stopper
<1>13. ASSUME NEW c \in Clients, MonitorFires(c)
      PROVE  SessionInv'
  BY <1>13 DEF MonitorFires, ConnectionLost, StartReconnectLoop, MaySpin, stopper
<1>14. CASE UNCHANGED vars
  BY <1>14 DEF vars, local, tasks, stopper
<1>15. QED
  BY <1>1, <1>2, <1>3, <1>4, <1>5, <1>6, <1>7, <1>8, <1>9, <1>10, <1>11, <1>12, <1>13, <1>14
  DEF Next, TaskStep, StopStep

\* Each step leaves a loop at work or an open session published.
LEMMA AttendedStep ==
    TypeOK /\ LoopInv /\ TaskInv /\ SessionInv /\ AttendedInv /\ [Next]_vars
        => AttendedInv'
<1> USE NoneAssumption DEF TypeOK, LoopInv, TaskInv, SessionInv, AttendedInv, Started, Running, Open
<1> SUFFICES ASSUME TypeOK, LoopInv, TaskInv, SessionInv, AttendedInv, [Next]_vars
             PROVE  AttendedInv'
  OBVIOUS
<1>1. CASE Start
  BY <1>1 DEF Start, StartReconnectLoop, MaySpin, stopper
<1>2. CASE Stop
  BY <1>2 DEF Stop, tasks
<1>3. CASE StopTaskEnded
  BY <1>3 DEF StopTaskEnded, local, tasks
<1>4. CASE StopDisconnect
  BY <1>4 DEF StopDisconnect, tasks
<1>5. CASE StopClosed
  BY <1>5 DEF StopClosed, local, tasks
<1>6. ASSUME NEW t \in Tasks, Attempt(t)
      PROVE  AttendedInv'
  BY <1>6 DEF Attempt, At, Fresh, local, stopper
<1>7. ASSUME NEW t \in Tasks, ConnectFails(t)
      PROVE  AttendedInv'
  BY <1>7 DEF ConnectFails, At, local, stopper
<1>8. ASSUME NEW t \in Tasks, ConnectOk(t)
      PROVE  AttendedInv'
  BY <1>8 DEF ConnectOk, At, local, stopper
<1>9. ASSUME NEW t \in Tasks, Loaded(t)
      PROVE  AttendedInv'
  BY <1>9 DEF Loaded, At, stopper
<1>10. ASSUME NEW t \in Tasks, HookEnds(t)
      PROVE  AttendedInv'
  BY <1>10 DEF HookEnds, Finish, At, stopper
<1>11. ASSUME NEW t \in Tasks, Cancelled(t)
      PROVE  AttendedInv'
  BY <1>11 DEF Cancelled, Finish, stopper
<1>12. ASSUME NEW c \in Clients, Drop(c)
      PROVE  AttendedInv'
  BY <1>12 DEF Drop, local, tasks, stopper
<1>13. ASSUME NEW c \in Clients, MonitorFires(c)
      PROVE  AttendedInv'
  BY <1>13 DEF MonitorFires, ConnectionLost, StartReconnectLoop, MaySpin, stopper
<1>14. CASE UNCHANGED vars
  BY <1>14 DEF vars, local, tasks, stopper
<1>15. QED
  BY <1>1, <1>2, <1>3, <1>4, <1>5, <1>6, <1>7, <1>8, <1>9, <1>10, <1>11, <1>12, <1>13, <1>14
  DEF Next, TaskStep, StopStep

-----------------------------------------------------------------------------
\* The inductive invariant: the properties need all of it, since who may make a
\* client depends on whose loop it is, and that on what stop() has done.
IInv == TypeOK /\ LoopInv /\ PublishInv /\ TaskInv /\ SessionInv /\ AttendedInv

\* It holds in every reachable state.
LEMMA Invariance == Spec => []IInv
<1>1. Init => IInv
  BY InitHolds DEF IInv
<1>2. IInv /\ [Next]_vars => IInv'
  BY TypeStep, LoopStep, PublishStep, TaskInvStep, SessionStep, AttendedStep DEF IInv
<1>3. QED  BY <1>1, <1>2, PTL DEF Spec

\* Every variable keeps its type.
THEOREM TypeCorrect == Spec => []TypeOK
<1>1. IInv => TypeOK
  BY DEF IInv
<1>2. QED  BY <1>1, Invariance, PTL

\* However losses, ends of loops and stop() interleave, two reconnect loops never
\* run at once.
THEOREM AtMostOneLoop == Spec => []OneLoop
<1>1. IInv => OneLoop
  BY Alone DEF IInv
<1>2. QED  BY <1>1, Invariance, PTL

\* At most one session is open at a time, and a late report of its loss never
\* takes down another one.
THEOREM AtMostOneSession == Spec => []OneSession
<1>1. IInv => OneSession
  BY DEF IInv, SessionInv, OneSession, Open
<1>2. QED  BY <1>1, Invariance, PTL

\* After stop() nothing runs and nothing is published, for good.
THEOREM StopIsFinal == Spec => []StopQuiesces
<1>1. IInv => StopQuiesces
  BY NoneAssumption DEF IInv, TypeOK, StopQuiesces, LoopInv, PublishInv
<1>2. QED  BY <1>1, Invariance, PTL

\* As long as no session dies during set-up, a started connection always has a
\* loop at work or a session not known to be dead.
THEOREM AlwaysAttended == Spec => []NeverUnattended
<1>1. IInv => NeverUnattended
  BY DEF IInv, AttendedInv, NeverUnattended, LookedAfter, Open
<1>2. QED  BY <1>1, Invariance, PTL

=============================================================================
