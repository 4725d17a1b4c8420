-------------------------- MODULE MonitoringProofs --------------------------
(***************************************************************************)
(* Proofs about Monitoring, for every set of subscriptions, nodes and      *)
(* requests, and any number of overlapping coroutines.                     *)
(***************************************************************************)
EXTENDS Monitoring, TLAPS

\* Only a session that is up is waited on for a Subscription.
CreatingIsUp == \A t \in Tasks : At(t, "creating") => up

\* There is no session while the reconnect loop tries to make one.
TryingIsDown == loop = "trying" => ~up

-----------------------------------------------------------------------------
(* The records of coroutines.                                              *)

\* A coroutine not under way.
LEMMA IdleRecord == Idle \in TaskRecord
BY DEF Idle, TaskRecord

\* What a coroutine that ends leaves behind.
LEMMA EndsTypes ==
    ASSUME TypeOK, NEW t \in Tasks, Ends(t)
    PROVE  /\ task' \in [Tasks -> TaskRecord]
           /\ loop' \in {"trying", "hook", "over"}
BY IdleRecord DEF TypeOK, Ends

\* Forgetting a bucket changes no coroutine otherwise.
LEMMA ForgottenTypes ==
    ASSUME TypeOK, NEW T \in SUBSET Tasks
    PROVE  /\ Forgotten(T) \in [Tasks -> TaskRecord]
           /\ \A t \in Tasks : /\ Forgotten(T)[t].pc = task[t].pc
                               /\ Forgotten(T)[t].sub = task[t].sub
<1>1. ASSUME NEW t \in Tasks, NEW b \in {"old", "old, empty"}
      PROVE  /\ [task[t] EXCEPT !.bucket = b] \in TaskRecord
             /\ [task[t] EXCEPT !.bucket = b].pc = task[t].pc
             /\ [task[t] EXCEPT !.bucket = b].sub = task[t].sub
  BY DEF TypeOK, TaskRecord
<1>2. QED  BY <1>1 DEF Forgotten, TypeOK

\* What a coroutine does from its check for existing entries on.
LEMMA SubscribeTypes ==
    ASSUME TypeOK, NEW t \in Tasks, NEW i \in SubIds, Subscribe(t, i)
    PROVE  /\ task' \in [Tasks -> TaskRecord]
           /\ loop' \in {"trying", "hook", "over"}
<1>1. CASE Missing(task[t].nodes) = {}
  BY <1>1, EndsTypes DEF Subscribe
<1>2. CASE Missing(task[t].nodes) # {}
  <2>1. Missing(task[t].nodes) \in SUBSET Nodes
    BY DEF TypeOK, TaskRecord, Missing
  <2>2. task' = [task EXCEPT ![t] = [task[t] EXCEPT !.pc = "subscribing", !.sub = i,
                                                   !.nodes = Missing(task[t].nodes)]]
    BY <1>2 DEF Subscribe, TypeOK, TaskRecord
  <2>3. [task[t] EXCEPT !.pc = "subscribing", !.sub = i,
                        !.nodes = Missing(task[t].nodes)] \in TaskRecord
    BY <2>1 DEF TypeOK, TaskRecord
  <2>4. QED  BY <1>2, <2>2, <2>3 DEF Subscribe, TypeOK
<1>3. QED  BY <1>1, <1>2

\* What a removal does once its items are unsubscribed.
LEMMA TearDownTypes ==
    ASSUME TypeOK, NEW t \in Tasks, TearDownIfEmpty(t)
    PROVE  /\ task' \in [Tasks -> TaskRecord]
           /\ loop' \in {"trying", "hook", "over"}
           /\ entries' \in SUBSET Handle
<1>1. CASE LeftEmpty(t)
  <2>1. Forgotten(Tasks \ {t}) \in [Tasks -> TaskRecord]
    BY ForgottenTypes
  <2>2. [Idle EXCEPT !.pc = "deleting", !.adds = FALSE, !.sub = task[t].sub] \in TaskRecord
    BY DEF Idle, TaskRecord, TypeOK
  <2>3. QED  BY <1>1, <2>1, <2>2 DEF TearDownIfEmpty, TypeOK
<1>2. CASE ~LeftEmpty(t)
  BY <1>2, EndsTypes DEF TearDownIfEmpty, TypeOK
<1>3. QED  BY <1>1, <1>2

\* A request that a route hands over.
LEMMA SubmitTypes ==
    ASSUME TypeOK, NEW t \in Requests, NEW adds \in BOOLEAN, NEW E \in SUBSET Nodes,
           Submit(t, adds, E)
    PROVE  task' \in [Tasks -> TaskRecord] /\ inbox' \in Seq(Requests)
<1>1. [Idle EXCEPT !.pc = "queued", !.adds = adds, !.nodes = E] \in TaskRecord
  BY DEF Idle, TaskRecord
<1>2. QED  BY <1>1 DEF Submit, TypeOK, Tasks

\* The worker's inbox when a coroutine begins.
LEMMA BeginsTypes ==
    ASSUME TypeOK, NEW t \in Tasks, Begins(t)
    PROVE  inbox' \in Seq(Requests)
BY DEF Begins, TypeOK

-----------------------------------------------------------------------------
(* The types.                                                              *)

\* The kinds of trouble that a step can add.
LEMMA TroubleTypes ==
    ASSUME TypeOK, NEW kinds \in SUBSET {"adds", "removal", "shared", "failure"},
           Trouble(kinds)
    PROVE  trouble' \in SUBSET {"adds", "removal", "shared", "failure"}
BY DEF TypeOK, Trouble

\* Nothing is under way at the start.
LEMMA TypeInit == Init => TypeOK
<1> SUFFICES ASSUME Init  PROVE TypeOK
  OBVIOUS
<1>1. task \in [Tasks -> TaskRecord]
  BY IdleRecord DEF Init
<1>2. inbox \in Seq(Requests)
  BY DEF Init
<1>3. want \in [Subs -> SUBSET Nodes]
  BY DEF Init
<1>4. QED  BY <1>1, <1>2, <1>3 DEF Init, TypeOK

\* The steps of the routes keep the types.
LEMMA TypeRoute ==
    ASSUME TypeOK, RouteStep
    PROVE  TypeOK'
<1>1. ASSUME NEW s \in Subs, NEW E \in SUBSET Nodes, NEW t \in Requests, Register(s, E, t)
      PROVE  TypeOK'
  <2>1. task' \in [Tasks -> TaskRecord] /\ inbox' \in Seq(Requests)
    BY <1>1, SubmitTypes DEF Register
  <2>2. trouble' \in SUBSET {"adds", "removal", "shared", "failure"}
    BY <1>1, TroubleTypes DEF Register, Overlap
  <2>3. want' \in [Subs -> SUBSET Nodes]
    BY <1>1 DEF Register, TypeOK
  <2>4. QED  BY <1>1, <2>1, <2>2, <2>3 DEF Register, TypeOK, binding, server
<1>2. ASSUME NEW s \in Subs, NEW E \in SUBSET Nodes, NEW t \in Requests, Unregister(s, E, t)
      PROVE  TypeOK'
  <2>1. task' \in [Tasks -> TaskRecord] /\ inbox' \in Seq(Requests)
    BY <1>2, SubmitTypes DEF Unregister
  <2>2. trouble' \in SUBSET {"adds", "removal", "shared", "failure"}
    <3>1. Overlap(FALSE) \in SUBSET {"adds", "removal", "shared", "failure"}
      BY DEF Overlap
    <3>2. QED  BY <1>2, <3>1 DEF Unregister, Trouble, TypeOK
  <2>3. want' \in [Subs -> SUBSET Nodes]
    BY <1>2 DEF Unregister, TypeOK
  <2>4. QED  BY <1>2, <2>1, <2>2, <2>3 DEF Unregister, TypeOK, binding, server
<1>3. QED  BY <1>1, <1>2 DEF RouteStep

\* The steps of add_monitored keep the types.
LEMMA TypeAdd ==
    ASSUME TypeOK, NEW t \in Tasks, AddStep(t)
    PROVE  TypeOK'
<1>1. CASE AddUsesSubscription(t)
  <2>1. task' \in [Tasks -> TaskRecord] /\ loop' \in {"trying", "hook", "over"}
    BY <1>1, SubscribeTypes DEF AddUsesSubscription, TypeOK
  <2>2. inbox' \in Seq(Requests)
    BY <1>1, BeginsTypes DEF AddUsesSubscription
  <2>3. QED  BY <1>1, <2>1, <2>2 DEF AddUsesSubscription, TypeOK, routes, binding, server
<1>2. CASE AddAsksForSubscription(t)
  <2>1. task' \in [Tasks -> TaskRecord] /\ loop' \in {"trying", "hook", "over"}
    <3>1. CASE up
      <4>1. [task[t] EXCEPT !.pc = "creating"] \in TaskRecord
        BY DEF TypeOK, TaskRecord
      <4>2. QED  BY <1>2, <3>1, <4>1 DEF AddAsksForSubscription, TypeOK
    <3>2. CASE ~up
      BY <1>2, <3>2, EndsTypes DEF AddAsksForSubscription
    <3>3. QED  BY <3>1, <3>2
  <2>2. inbox' \in Seq(Requests)
    BY <1>2, BeginsTypes DEF AddAsksForSubscription
  <2>3. QED  BY <1>2, <2>1, <2>2 DEF AddAsksForSubscription, TypeOK, routes, binding, server
<1>3. CASE SubscriptionCreated(t)
  <2> DEFINE i == CHOOSE j \in SubIds : FreshSub(j)
  <2>1. i \in SubIds
    BY <1>3 DEF SubscriptionCreated
  <2> HIDE DEF i
  <2>2. Subscribe(t, i) /\ subRef' = i /\ subs' = subs \cup {i}
    BY <1>3 DEF SubscriptionCreated, i
  <2>3. task' \in [Tasks -> TaskRecord] /\ loop' \in {"trying", "hook", "over"}
    BY <2>1, <2>2, SubscribeTypes
  <2>4. QED  BY <1>3, <2>1, <2>2, <2>3 DEF SubscriptionCreated, TypeOK, routes
<1>4. CASE ItemsCreated(t)
  <2>1. PICK refused \in SUBSET task[t].nodes :
            LET accepted == task[t].nodes \ refused
                made == {[node |-> n, sub |-> task[t].sub,
                          copy |-> CHOOSE k \in FreeCopy(n, task[t].sub) : TRUE] :
                            n \in accepted}
            IN  /\ \A n \in accepted : FreeCopy(n, task[t].sub) # {}
                /\ items' = items \cup made
                /\ Record(made \cup {Refused(n) : n \in refused})
                /\ Trouble(IF refused = {} THEN {} ELSE {"failure"})
    BY <1>4 DEF ItemsCreated
  <2> DEFINE made == {[node |-> n, sub |-> task[t].sub,
                       copy |-> CHOOSE k \in FreeCopy(n, task[t].sub) : TRUE] :
                            n \in task[t].nodes \ refused}
  <2>2. made \in SUBSET Item
    <3>1. task[t].nodes \in SUBSET Nodes /\ task[t].sub \in SubIds
      BY <1>4 DEF ItemsCreated, TypeOK, TaskRecord
    <3>2. \A n \in task[t].nodes \ refused :
              (CHOOSE k \in FreeCopy(n, task[t].sub) : TRUE) \in Copies
      BY <2>1 DEF FreeCopy
    <3>3. QED  BY <3>1, <3>2 DEF Item
  <2>3. items' = items \cup made
    BY <2>1
  <2>4. entries' \in SUBSET Handle
    <3>1. {Refused(n) : n \in refused} \in SUBSET Handle
      BY DEF Handle, TypeOK, TaskRecord
    <3>2. QED  BY <2>1, <2>2, <3>1 DEF Record, TypeOK, Handle
  <2>5. trouble' \in SUBSET {"adds", "removal", "shared", "failure"}
    BY <2>1 DEF Trouble, TypeOK
  <2>6. task' \in [Tasks -> TaskRecord] /\ loop' \in {"trying", "hook", "over"}
    BY <1>4, EndsTypes DEF ItemsCreated
  <2>7. QED  BY <1>4, <2>2, <2>3, <2>4, <2>5, <2>6 DEF ItemsCreated, TypeOK, routes
<1>5. CASE AddFails(t)
  <2>1. task' \in [Tasks -> TaskRecord] /\ loop' \in {"trying", "hook", "over"}
    BY <1>5, EndsTypes DEF AddFails
  <2>2. trouble' \in SUBSET {"adds", "removal", "shared", "failure"}
    BY <1>5 DEF AddFails, Trouble, TypeOK
  <2>3. QED  BY <1>5, <2>1, <2>2 DEF AddFails, TypeOK, routes, binding, server
<1>6. QED  BY <1>1, <1>2, <1>3, <1>4, <1>5 DEF AddStep

\* The steps of remove_monitored keep the types.
LEMMA TypeRemove ==
    ASSUME TypeOK, NEW t \in Tasks, RemoveStep(t)
    PROVE  TypeOK'
<1>1. CASE NothingToRemove(t)
  <2>1. task' \in [Tasks -> TaskRecord] /\ loop' \in {"trying", "hook", "over"}
    BY <1>1, EndsTypes DEF NothingToRemove
  <2>2. inbox' \in Seq(Requests)
    BY <1>1, BeginsTypes DEF NothingToRemove
  <2>3. QED  BY <1>1, <2>1, <2>2 DEF NothingToRemove, TypeOK, routes, binding, server
<1>2. CASE RemoveEntries(t)
  <2> DEFINE drop == {h \in entries : h.node \in task[t].nodes}
             rec == [Idle EXCEPT !.pc = "unsubscribing", !.adds = FALSE, !.sub = subRef,
                                 !.bucket = "current", !.drop = drop]
  <2>1. rec \in TaskRecord /\ entries \ drop \in SUBSET Handle
    BY DEF Idle, TaskRecord, TypeOK
  <2>2. task' \in [Tasks -> TaskRecord] /\ loop' \in {"trying", "hook", "over"}
    <3>1. CASE drop = {}
      BY <1>2, <3>1, EndsTypes DEF RemoveEntries
    <3>2. CASE drop # {}
      <4>1. task' = [task EXCEPT ![t] = rec] /\ loop' = loop
        BY <1>2, <3>2 DEF RemoveEntries
      <4>2. QED  BY <4>1, <2>1 DEF TypeOK
    <3>3. QED  BY <3>1, <3>2
  <2>3. inbox' \in Seq(Requests)
    BY <1>2, BeginsTypes DEF RemoveEntries
  <2>4. entries' = entries \ drop
    BY <1>2 DEF RemoveEntries
  <2>5. QED  BY <1>2, <2>1, <2>2, <2>3, <2>4 DEF RemoveEntries, TypeOK, routes, server
<1>3. CASE Unsubscribed(t)
  <2>1. /\ task' \in [Tasks -> TaskRecord]
        /\ loop' \in {"trying", "hook", "over"}
        /\ entries' \in SUBSET Handle
    BY <1>3, TearDownTypes DEF Unsubscribed
  <2>2. items' \in SUBSET Item
    BY <1>3 DEF Unsubscribed, TypeOK
  <2>3. trouble' \in SUBSET {"adds", "removal", "shared", "failure"}
    BY <1>3 DEF Unsubscribed, Trouble, TypeOK
  <2>4. QED  BY <1>3, <2>1, <2>2, <2>3 DEF Unsubscribed, TypeOK, routes
<1>4. CASE ServerDeletes(t)
  BY <1>4 DEF ServerDeletes, TypeOK, routes, binding
<1>5. CASE SubscriptionDeleted(t)
  <2>1. task' \in [Tasks -> TaskRecord] /\ loop' \in {"trying", "hook", "over"}
    BY <1>5, EndsTypes DEF SubscriptionDeleted
  <2>2. trouble' \in SUBSET {"adds", "removal", "shared", "failure"}
    BY <1>5 DEF SubscriptionDeleted, Trouble, TypeOK
  <2>3. QED  BY <1>5, <2>1, <2>2 DEF SubscriptionDeleted, TypeOK, routes, server
<1>6. QED  BY <1>1, <1>2, <1>3, <1>4, <1>5 DEF RemoveStep

\* The steps of the session keep the types.
LEMMA TypeSession ==
    ASSUME TypeOK, SessionStep
    PROVE  TypeOK'
<1>0. Hook \in Tasks
  BY DEF Tasks
<1>1. CASE Reconnect
  <2>1. [Idle EXCEPT !.pc = "browsing"] \in TaskRecord
    BY DEF Idle, TaskRecord
  <2>2. trouble' \in SUBSET {"adds", "removal", "shared", "failure"}
    BY <1>1 DEF Reconnect, Trouble, Overlap, TypeOK
  <2>3. QED  BY <1>1, <2>1, <2>2 DEF Reconnect, TypeOK, routes, binding, server
<1>2. CASE ConnectionLost
  <2>1. \A t \in Tasks : [task[t] EXCEPT !.pc = "lost"] \in TaskRecord
    BY DEF TypeOK, TaskRecord
  <2>2. task' \in [Tasks -> TaskRecord]
    BY <1>2, <2>1, ForgottenTypes DEF ConnectionLost, TypeOK
  <2>3. QED  BY <1>2, <2>2 DEF ConnectionLost, Forget, TypeOK, routes
<1>3. CASE ReadWanted
  <2>1. task' \in [Tasks -> TaskRecord] /\ loop' \in {"trying", "hook", "over"}
    <3>1. CASE Wanted = {}
      BY <1>0, <1>3, <3>1, EndsTypes DEF ReadWanted
    <3>2. CASE Wanted # {}
      <4>1. Wanted \in SUBSET Nodes
        BY DEF Wanted, TypeOK
      <4>2. task' = [task EXCEPT ![Hook] =
                        [task[Hook] EXCEPT !.pc = "queued", !.nodes = Wanted]]
        BY <1>0, <1>3, <3>2 DEF ReadWanted, TypeOK, TaskRecord
      <4>3. [task[Hook] EXCEPT !.pc = "queued", !.nodes = Wanted] \in TaskRecord
        BY <1>0, <4>1 DEF TypeOK, TaskRecord
      <4>4. QED  BY <1>3, <3>2, <4>2, <4>3 DEF ReadWanted, TypeOK
    <3>3. QED  BY <3>1, <3>2
  <2>2. QED  BY <1>3, <2>1 DEF ReadWanted, TypeOK, routes, binding, server
<1>4. CASE BrowseFails
  <2>1. task' \in [Tasks -> TaskRecord] /\ loop' \in {"trying", "hook", "over"}
    BY <1>0, <1>4, EndsTypes DEF BrowseFails
  <2>2. trouble' \in SUBSET {"adds", "removal", "shared", "failure"}
    BY <1>4 DEF BrowseFails, Trouble, TypeOK
  <2>3. QED  BY <1>4, <2>1, <2>2 DEF BrowseFails, TypeOK, routes, binding, server
<1>5. QED  BY <1>1, <1>2, <1>3, <1>4 DEF SessionStep

\* Each step keeps the types.
LEMMA TypeStep == TypeOK /\ [Next]_vars => TypeOK'
<1>1. ASSUME TypeOK, UNCHANGED vars
      PROVE  TypeOK'
  BY <1>1 DEF TypeOK, vars, routes, binding, server
<1>2. QED  BY <1>1, TypeRoute, TypeAdd, TypeRemove, TypeSession DEF Next

\* The types of the state: what is registered, under way, recorded and on the
\* server, for any number of requests and nodes.
THEOREM TypeCorrect == Spec => []TypeOK
BY TypeInit, TypeStep, PTL DEF Spec

-----------------------------------------------------------------------------
(* The Subscription recorded for the next add.                             *)

\* The parts of the inductive invariant.  A Subscription is created only for the
\* session that is up, so CreatingIsUp is what keeps the new reference good, and
\* TryingIsDown says that a new session finds no old reference.
SubscriptionInv == SubscriptionExists /\ CreatingIsUp /\ TryingIsDown

\* A coroutine that ends was not waited for by the others, and creates nothing.
LEMMA EndsKeeps ==
    ASSUME TypeOK, NEW t \in Tasks, Ends(t), NEW u \in Tasks
    PROVE  /\ u # t => task'[u] = task[u]
           /\ task'[t].pc = "idle"
           /\ loop' \in {loop, "over"}
BY DEF Ends, TypeOK, Idle

\* From the check on, an add only waits for its items.
LEMMA SubscribeKeeps ==
    ASSUME TypeOK, NEW t \in Tasks, NEW i \in SubIds, Subscribe(t, i), NEW u \in Tasks
    PROVE  /\ u # t => task'[u] = task[u]
           /\ task'[t].pc \in {"idle", "subscribing"}
           /\ loop' \in {loop, "over"}
<1>1. CASE Missing(task[t].nodes) = {}
  BY <1>1, EndsKeeps DEF Subscribe
<1>2. CASE Missing(task[t].nodes) # {}
  <2>1. task' = [task EXCEPT ![t] = [task[t] EXCEPT !.pc = "subscribing", !.sub = i,
                                                   !.nodes = Missing(task[t].nodes)]]
    BY <1>2 DEF Subscribe, TypeOK, TaskRecord
  <2>2. [task[t] EXCEPT !.pc = "subscribing", !.sub = i,
                        !.nodes = Missing(task[t].nodes)].pc = "subscribing"
    BY DEF TypeOK, TaskRecord
  <2>3. QED  BY <1>2, <2>1, <2>2 DEF Subscribe, TypeOK
<1>3. QED  BY <1>1, <1>2

\* A step that leaves the reference, the session and the server alone, and of the
\* coroutines changes only one that neither deletes nor begins to create.
LEMMA Quiet ==
    ASSUME SubscriptionInv, NEW t \in Tasks,
           UNCHANGED <<subRef, up, subs>>,
           task[t].pc # "deleting",
           task'[t].pc = "creating" => up,
           loop' \in {loop, "over"},
           \A u \in Tasks \ {t} : task'[u].pc = task[u].pc /\ task'[u].sub = task[u].sub
    PROVE  SubscriptionInv'
BY DEF SubscriptionInv, SubscriptionExists, CreatingIsUp, TryingIsDown, At

\* The reference is good at the start.
LEMMA SubscriptionInit == Init => SubscriptionInv
BY DEF Init, SubscriptionInv, SubscriptionExists, CreatingIsUp, TryingIsDown, At, Idle

\* A route hands over a coroutine that was not under way.
LEMMA SubscriptionRoute ==
    ASSUME TypeOK, SubscriptionInv, RouteStep
    PROVE  SubscriptionInv'
<1>1. PICK t \in Requests, adds \in BOOLEAN, E \in SUBSET Nodes :
          Submit(t, adds, E) /\ UNCHANGED <<subRef, up, subs, loop>>
  BY DEF RouteStep, Register, Unregister, binding, server
<1>2. t \in Tasks /\ task[t].pc = "idle"
  BY <1>1 DEF Submit, Running, Tasks
<1>3. task' = [task EXCEPT ![t] = [Idle EXCEPT !.pc = "queued", !.adds = adds, !.nodes = E]]
  BY <1>1 DEF Submit
<1>4. task'[t].pc = "queued" /\ \A u \in Tasks \ {t} : task'[u] = task[u]
  BY <1>2, <1>3 DEF TypeOK, Idle
<1>5. QED  BY <1>1, <1>2, <1>4, Quiet

\* An add records a Subscription only when the server has just made it.
LEMMA SubscriptionAdd ==
    ASSUME TypeOK, SubscriptionInv, NEW t \in Tasks, AddStep(t)
    PROVE  SubscriptionInv'
<1>1. CASE AddUsesSubscription(t)
  <2>1. task[t].pc = "queued" /\ subRef \in SubIds /\ Subscribe(t, subRef)
    BY <1>1 DEF AddUsesSubscription, Begins, At, TypeOK
  <2>2. UNCHANGED <<subRef, up, subs>>
    BY <1>1 DEF AddUsesSubscription, binding, server
  <2>3. QED  BY <2>1, <2>2, SubscribeKeeps, Quiet
<1>2. CASE AddAsksForSubscription(t)
  <2>1. task[t].pc = "queued" /\ UNCHANGED <<subRef, up, subs>>
    BY <1>2 DEF AddAsksForSubscription, Begins, At, binding, server
  <2>2. CASE up
    <3>1. loop' = loop /\ \A u \in Tasks \ {t} : task'[u] = task[u]
      BY <1>2, <2>2 DEF AddAsksForSubscription, TypeOK
    <3>2. QED  BY <2>1, <2>2, <3>1, Quiet
  <2>3. CASE ~up
    BY <1>2, <2>1, <2>3, EndsKeeps, Quiet DEF AddAsksForSubscription
  <2>4. QED  BY <2>2, <2>3
<1>3. CASE SubscriptionCreated(t)
  <2> DEFINE i == CHOOSE j \in SubIds : FreshSub(j)
  <2>1. i \in SubIds
    BY <1>3 DEF SubscriptionCreated
  <2> HIDE DEF i
  <2>2. /\ Subscribe(t, i) /\ subRef' = i /\ subs' = subs \cup {i} /\ up' = up
        /\ At(t, "creating")
    BY <1>3 DEF SubscriptionCreated, i
  <2>3. up
    BY <2>2 DEF SubscriptionInv, CreatingIsUp
  <2>4. SubscriptionExists'
    BY <2>2, <2>3 DEF SubscriptionExists
  <2>5. loop' \in {loop, "over"}
    BY <2>1, <2>2, SubscribeKeeps
  <2>6. QED  BY <2>2, <2>3, <2>4, <2>5 DEF SubscriptionInv, CreatingIsUp, TryingIsDown
<1>4. CASE ItemsCreated(t)
  BY <1>4, EndsKeeps, Quiet DEF ItemsCreated, At
<1>5. CASE AddFails(t)
  BY <1>5, EndsKeeps, Quiet DEF AddFails, binding, server
<1>6. QED  BY <1>1, <1>2, <1>3, <1>4, <1>5 DEF AddStep

\* A removal forgets the recorded Subscription when it has deleted one.
LEMMA SubscriptionRemove ==
    ASSUME TypeOK, SubscriptionInv, NEW t \in Tasks, RemoveStep(t)
    PROVE  SubscriptionInv'
<1>1. CASE NothingToRemove(t)
  BY <1>1, EndsKeeps, Quiet DEF NothingToRemove, Begins, At, binding, server
<1>2. CASE RemoveEntries(t)
  <2> DEFINE drop == {h \in entries : h.node \in task[t].nodes}
             rec == [Idle EXCEPT !.pc = "unsubscribing", !.adds = FALSE, !.sub = subRef,
                                 !.bucket = "current", !.drop = drop]
  <2>1. task[t].pc = "queued" /\ UNCHANGED <<subRef, up, subs>>
    BY <1>2 DEF RemoveEntries, Begins, At, server
  <2>2. CASE drop = {}
    BY <1>2, <2>1, <2>2, EndsKeeps, Quiet DEF RemoveEntries
  <2>3. CASE drop # {}
    <3>1. task' = [task EXCEPT ![t] = rec] /\ loop' = loop
      BY <1>2, <2>3 DEF RemoveEntries
    <3>2. task'[t].pc = "unsubscribing" /\ \A u \in Tasks \ {t} : task'[u] = task[u]
      BY <3>1 DEF TypeOK, Idle
    <3>3. QED  BY <2>1, <3>1, <3>2, Quiet
  <2>4. QED  BY <2>2, <2>3
<1>3. CASE Unsubscribed(t)
  <2>1. task[t].pc = "unsubscribing" /\ UNCHANGED <<subRef, up, subs>>
    BY <1>3 DEF Unsubscribed, At
  <2>2. CASE LeftEmpty(t)
    <3> DEFINE rec == [Idle EXCEPT !.pc = "deleting", !.adds = FALSE, !.sub = task[t].sub]
    <3>1. task' = [Forgotten(Tasks \ {t}) EXCEPT ![t] = rec] /\ loop' = loop
      BY <1>3, <2>2 DEF Unsubscribed, TearDownIfEmpty
    <3>2. rec.pc = "deleting"
      BY DEF Idle
    <3>3. /\ task'[t].pc = "deleting"
          /\ \A u \in Tasks \ {t} : task'[u].pc = task[u].pc /\ task'[u].sub = task[u].sub
      BY <3>1, <3>2, ForgottenTypes
    <3>4. QED  BY <2>1, <3>1, <3>3, Quiet
  <2>3. CASE ~LeftEmpty(t)
    BY <1>3, <2>1, <2>3, EndsKeeps, Quiet DEF Unsubscribed, TearDownIfEmpty
  <2>4. QED  BY <2>2, <2>3
<1>4. CASE ServerDeletes(t)
  <2>1. /\ At(t, "deleting") /\ subs' = subs \ {task[t].sub}
        /\ UNCHANGED <<task, subRef, up, loop>>
    BY <1>4 DEF ServerDeletes, binding
  <2>2. QED  BY <2>1 DEF SubscriptionInv, SubscriptionExists, CreatingIsUp, TryingIsDown, At
<1>5. CASE SubscriptionDeleted(t)
  <2>1. subRef' = None /\ up' = up /\ Ends(t)
    BY <1>5 DEF SubscriptionDeleted
  <2>2. QED  BY <2>1, EndsKeeps
             DEF SubscriptionInv, SubscriptionExists, CreatingIsUp, TryingIsDown, At
<1>6. QED  BY <1>1, <1>2, <1>3, <1>4, <1>5 DEF RemoveStep

\* A session that ends takes the reference along.
LEMMA SubscriptionSession ==
    ASSUME TypeOK, SubscriptionInv, SessionStep
    PROVE  SubscriptionInv'
<1>0. Hook \in Tasks
  BY DEF Tasks
<1>1. CASE Reconnect
  <2>1. subRef' = None
    BY <1>1 DEF Reconnect, SubscriptionInv, SubscriptionExists, TryingIsDown, binding
  <2>2. up' /\ loop' = "hook"
    BY <1>1 DEF Reconnect
  <2>3. QED  BY <2>1, <2>2 DEF SubscriptionInv, SubscriptionExists, CreatingIsUp, TryingIsDown
<1>2. CASE ConnectionLost
  <2>1. subRef' = None /\ ~up'
    BY <1>2 DEF ConnectionLost, Forget
  <2>2. ASSUME NEW u \in Tasks  PROVE task'[u].pc # "creating"
    <3>1. CASE At(u, "creating")
      BY <1>2, <3>1 DEF ConnectionLost, TypeOK, TaskRecord
    <3>2. CASE ~At(u, "creating")
      BY <1>2, <3>2, ForgottenTypes DEF ConnectionLost, At
    <3>3. QED  BY <3>1, <3>2
  <2>3. QED  BY <2>1, <2>2
             DEF SubscriptionInv, SubscriptionExists, CreatingIsUp, TryingIsDown, At
<1>3. CASE ReadWanted
  <2>1. At(Hook, "browsing") /\ UNCHANGED <<subRef, up, subs>>
    BY <1>3 DEF ReadWanted, binding, server
  <2>2. CASE Wanted = {}
    BY <1>0, <1>3, <2>1, <2>2, EndsKeeps, Quiet DEF ReadWanted, At
  <2>3. CASE Wanted # {}
    <3>1. /\ task'[Hook].pc = "queued" /\ loop' = loop
          /\ \A u \in Tasks \ {Hook} : task'[u] = task[u]
      BY <1>0, <1>3, <2>3 DEF ReadWanted, TypeOK, TaskRecord
    <3>2. QED  BY <1>0, <2>1, <3>1, Quiet DEF At
  <2>4. QED  BY <2>2, <2>3
<1>4. CASE BrowseFails
  BY <1>0, <1>4, EndsKeeps, Quiet DEF BrowseFails, At, binding, server
<1>5. QED  BY <1>1, <1>2, <1>3, <1>4 DEF SessionStep

\* Each step keeps the reference good.
LEMMA SubscriptionStep == TypeOK /\ SubscriptionInv /\ [Next]_vars => SubscriptionInv'
<1>1. ASSUME SubscriptionInv, UNCHANGED vars
      PROVE  SubscriptionInv'
  BY <1>1 DEF SubscriptionInv, SubscriptionExists, CreatingIsUp, TryingIsDown, At, vars,
              binding, server
<1>2. QED
  BY <1>1, SubscriptionRoute, SubscriptionAdd, SubscriptionRemove, SubscriptionSession
  DEF Next

\* The Subscription recorded for the next add exists on the server, or is the one
\* that a removal is deleting: for any number of overlapping adds, removals and
\* restorations, over any number of sessions, and whatever fails.
THEOREM RecordedSubscriptionExists == Spec => []SubscriptionExists
<1>1. Init => TypeOK /\ SubscriptionInv
  BY TypeInit, SubscriptionInit
<1>2. TypeOK /\ SubscriptionInv /\ [Next]_vars => (TypeOK /\ SubscriptionInv)'
  BY TypeStep, SubscriptionStep
<1>3. SubscriptionInv => SubscriptionExists
  BY DEF SubscriptionInv
<1>4. QED  BY <1>1, <1>2, <1>3, PTL DEF Spec

-----------------------------------------------------------------------------
(* The shape of coroutines, and of a binding without a session.            *)

\* What a coroutine of each kind can be doing; one that is to do something has
\* nodes to do it to.
Kind(t) ==
    /\ task[t].pc \in IF task[t].adds
                      THEN {"idle", "queued", "creating", "lost", "subscribing", "browsing"}
                      ELSE {"queued", "unsubscribing", "deleting"}
    /\ task[t].pc \in {"queued", "creating", "lost", "subscribing"} => task[t].nodes # {}
    /\ t # Hook => task[t].pc # "browsing"

Kinds == \A t \in Tasks : Kind(t)

\* Nothing is recorded while there is no session.
DownIsEmpty == ~up => subs = {} /\ items = {} /\ entries = {} /\ subRef = None

\* Only the coroutine t changes.
OthersKept(t) == \A u \in Tasks \ {t} : task'[u] = task[u]

\* The fields of a coroutine that has ended.
LEMMA EndsFields ==
    ASSUME TypeOK, NEW t \in Tasks, Ends(t)
    PROVE  /\ task'[t].pc = "idle" /\ task'[t].adds /\ task'[t].nodes = {}
           /\ OthersKept(t)
BY DEF Ends, TypeOK, Idle, OthersKept

\* The fields of a coroutine from its check for existing entries on.
LEMMA SubscribeFields ==
    ASSUME TypeOK, NEW t \in Tasks, NEW i, Subscribe(t, i)
    PROVE  \/ Missing(task[t].nodes) = {} /\ Ends(t)
           \/ /\ Missing(task[t].nodes) # {}
              /\ task'[t].pc = "subscribing" /\ task'[t].adds = task[t].adds
              /\ task'[t].nodes = Missing(task[t].nodes) /\ task'[t].sub = i
              /\ OthersKept(t)
<1>1. CASE Missing(task[t].nodes) = {}
  BY <1>1 DEF Subscribe
<1>2. CASE Missing(task[t].nodes) # {}
  <2> DEFINE rec == [task[t] EXCEPT !.pc = "subscribing", !.sub = i,
                                    !.nodes = Missing(task[t].nodes)]
  <2>1. task' = [task EXCEPT ![t] = rec]
    BY <1>2 DEF Subscribe, TypeOK, TaskRecord
  <2>2. /\ rec.pc = "subscribing" /\ rec.adds = task[t].adds
        /\ rec.nodes = Missing(task[t].nodes) /\ rec.sub = i
    BY DEF TypeOK, TaskRecord
  <2>3. task'[t] = rec /\ OthersKept(t)
    BY <2>1 DEF TypeOK, OthersKept
  <2>4. QED  BY <1>2, <2>2, <2>3
<1>3. QED  BY <1>1, <1>2

\* Forgetting a bucket changes nothing else.
LEMMA ForgottenFields ==
    ASSUME TypeOK, NEW T \in SUBSET Tasks, NEW t \in Tasks
    PROVE  /\ Forgotten(T)[t].pc = task[t].pc /\ Forgotten(T)[t].adds = task[t].adds
           /\ Forgotten(T)[t].nodes = task[t].nodes /\ Forgotten(T)[t].sub = task[t].sub
           /\ Forgotten(T)[t].drop = task[t].drop
<1>1. ASSUME NEW b
      PROVE  /\ [task[t] EXCEPT !.bucket = b].pc = task[t].pc
             /\ [task[t] EXCEPT !.bucket = b].adds = task[t].adds
             /\ [task[t] EXCEPT !.bucket = b].nodes = task[t].nodes
             /\ [task[t] EXCEPT !.bucket = b].sub = task[t].sub
             /\ [task[t] EXCEPT !.bucket = b].drop = task[t].drop
  BY DEF TypeOK, TaskRecord
<1>2. QED  BY <1>1 DEF Forgotten, TypeOK

\* The fields of coroutines when a removal finds its bucket empty.
LEMMA TearDownFields ==
    ASSUME TypeOK, NEW t \in Tasks, TearDownIfEmpty(t)
    PROVE  \/ ~LeftEmpty(t) /\ Ends(t) /\ entries' = entries
           \/ /\ LeftEmpty(t) /\ entries' = {}
              /\ task'[t].pc = "deleting" /\ ~task'[t].adds /\ task'[t].nodes = {}
              /\ task'[t].sub = task[t].sub
              /\ \A u \in Tasks \ {t} :
                    /\ task'[u].pc = task[u].pc /\ task'[u].adds = task[u].adds
                    /\ task'[u].nodes = task[u].nodes /\ task'[u].sub = task[u].sub
<1>1. CASE LeftEmpty(t)
  <2> DEFINE rec == [Idle EXCEPT !.pc = "deleting", !.adds = FALSE, !.sub = task[t].sub]
  <2>1. rec.pc = "deleting" /\ ~rec.adds /\ rec.nodes = {} /\ rec.sub = task[t].sub
    BY DEF Idle
  <2>2. task' = [Forgotten(Tasks \ {t}) EXCEPT ![t] = rec] /\ entries' = {}
    BY <1>1 DEF TearDownIfEmpty
  <2> HIDE DEF rec
  <2>3. Forgotten(Tasks \ {t}) \in [Tasks -> TaskRecord]
    BY ForgottenTypes
  <2>4. task'[t] = rec /\ \A u \in Tasks \ {t} : task'[u] = Forgotten(Tasks \ {t})[u]
    BY <2>2, <2>3
  <2>5. \A u \in Tasks \ {t} :
            /\ task'[u].pc = task[u].pc /\ task'[u].adds = task[u].adds
            /\ task'[u].nodes = task[u].nodes /\ task'[u].sub = task[u].sub
    BY <2>4, ForgottenFields
  <2>6. QED  BY <1>1, <2>1, <2>2, <2>4, <2>5
<1>2. CASE ~LeftEmpty(t)
  BY <1>2 DEF TearDownIfEmpty
<1>3. QED  BY <1>1, <1>2

\* The fields of a coroutine that a removal has become.
LEMMA RemoveFields ==
    ASSUME TypeOK, NEW t \in Tasks, RemoveEntries(t)
    PROVE  \E drop : /\ drop = {h \in entries : h.node \in task[t].nodes}
                     /\ entries' = entries \ drop
                     /\ \/ drop = {} /\ Ends(t)
                        \/ /\ drop # {}
                           /\ task'[t].pc = "unsubscribing" /\ ~task'[t].adds
                           /\ task'[t].nodes = {} /\ task'[t].sub = subRef
                           /\ task'[t].bucket = "current" /\ task'[t].drop = drop
                           /\ OthersKept(t)
<1> DEFINE drop == {h \in entries : h.node \in task[t].nodes}
           rec == [Idle EXCEPT !.pc = "unsubscribing", !.adds = FALSE, !.sub = subRef,
                               !.bucket = "current", !.drop = drop]
<1>1. /\ rec.pc = "unsubscribing" /\ ~rec.adds /\ rec.nodes = {} /\ rec.sub = subRef
      /\ rec.bucket = "current" /\ rec.drop = drop
  BY DEF Idle
<1>2. /\ entries' = entries \ drop /\ (drop = {} => Ends(t))
      /\ drop # {} => task' = [task EXCEPT ![t] = rec]
  BY DEF RemoveEntries
<1> HIDE DEF rec
<1>3. drop # {} => task'[t] = rec /\ OthersKept(t)
  BY <1>2 DEF TypeOK, OthersKept
<1>4. QED  BY <1>1, <1>2, <1>3

\* The fields of a coroutine that a route has handed over.
LEMMA SubmitFields ==
    ASSUME TypeOK, NEW t \in Tasks, NEW adds \in BOOLEAN, NEW E, Submit(t, adds, E)
    PROVE  /\ task[t].pc = "idle"
           /\ task'[t].pc = "queued" /\ task'[t].adds = adds /\ task'[t].nodes = E
           /\ OthersKept(t)
<1> DEFINE rec == [Idle EXCEPT !.pc = "queued", !.adds = adds, !.nodes = E]
<1>1. rec.pc = "queued" /\ rec.adds = adds /\ rec.nodes = E
  BY DEF Idle
<1>2. task' = [task EXCEPT ![t] = rec] /\ task[t].pc = "idle"
  BY DEF Submit, Running
<1> HIDE DEF rec
<1>3. task'[t] = rec /\ OthersKept(t)
  BY <1>2 DEF TypeOK, OthersKept
<1>4. QED  BY <1>1, <1>2, <1>3

\* A coroutine whose step, kind and nodes stay is of its kind.
LEMMA KindsKept ==
    ASSUME Kinds, NEW t \in Tasks, Kind(t)',
           \A u \in Tasks \ {t} : /\ task'[u].pc = task[u].pc /\ task'[u].adds = task[u].adds
                                  /\ task'[u].nodes = task[u].nodes
    PROVE  Kinds'
BY DEF Kinds, Kind

\* A coroutine that has ended is of its kind.
LEMMA KindsEnds ==
    ASSUME TypeOK, Kinds, NEW t \in Tasks, Ends(t)
    PROVE  Kinds'
<1>1. Kind(t)'
  BY EndsFields DEF Kind
<1>2. QED  BY <1>1, EndsFields, KindsKept DEF OthersKept

\* An add that goes on from its check is of its kind.
LEMMA KindsSubscribe ==
    ASSUME TypeOK, Kinds, NEW t \in Tasks, task[t].adds, NEW i, Subscribe(t, i)
    PROVE  Kinds'
<1>1. CASE Ends(t)
  BY <1>1, KindsEnds
<1>2. CASE ~Ends(t)
  <2>1. Kind(t)' /\ OthersKept(t)
    BY <1>2, SubscribeFields DEF Kind
  <2>2. QED  BY <2>1, KindsKept DEF OthersKept
<1>3. QED  BY <1>1, <1>2

\* Each step keeps the kinds.
LEMMA KindsStep == TypeOK /\ Kinds /\ [Next]_vars => Kinds'
<1> SUFFICES ASSUME TypeOK, Kinds, [Next]_vars  PROVE Kinds'
  OBVIOUS
<1>1. ASSUME NEW s \in Subs, NEW E \in (SUBSET Nodes) \ {{}}, NEW t \in Requests,
             Register(s, E, t) \/ Unregister(s, E, t)
      PROVE  Kinds'
  <2>1. PICK adds \in BOOLEAN, F \in SUBSET Nodes : Submit(t, adds, F) /\ F # {}
    BY <1>1 DEF Register, Unregister
  <2>2. t \in Tasks
    BY DEF Tasks
  <2>3. Kind(t)' /\ OthersKept(t)
    BY <2>1, <2>2, SubmitFields DEF Kind
  <2>4. QED  BY <2>2, <2>3, KindsKept DEF OthersKept
<1>2. ASSUME NEW t \in Tasks, AddStep(t)
      PROVE  Kinds'
  <2>1. CASE AddUsesSubscription(t)
    BY <2>1, KindsSubscribe DEF AddUsesSubscription
  <2>2. CASE AddAsksForSubscription(t)
    <3>1. CASE up
      <4>1. /\ task' = [task EXCEPT ![t].pc = "creating"] /\ task[t].adds /\ task[t].pc = "queued"
        BY <2>2, <3>1 DEF AddAsksForSubscription, Begins, At
      <4>2. /\ task'[t].pc = "creating" /\ task'[t].adds /\ task'[t].nodes = task[t].nodes
            /\ OthersKept(t)
        BY <4>1 DEF TypeOK, TaskRecord, OthersKept
      <4>3. Kind(t)'
        BY <4>1, <4>2 DEF Kinds, Kind
      <4>4. QED  BY <4>2, <4>3, KindsKept DEF OthersKept
    <3>2. CASE ~up
      BY <2>2, <3>2, KindsEnds DEF AddAsksForSubscription
    <3>3. QED  BY <3>1, <3>2
  <2>3. CASE SubscriptionCreated(t)
    <3>1. task[t].adds
      BY <2>3 DEF SubscriptionCreated, At, Kinds, Kind
    <3>2. QED  BY <2>3, <3>1, KindsSubscribe DEF SubscriptionCreated
  <2>4. CASE ItemsCreated(t) \/ AddFails(t)
    BY <2>4, KindsEnds DEF ItemsCreated, AddFails
  <2>5. QED  BY <1>2, <2>1, <2>2, <2>3, <2>4 DEF AddStep
<1>3. ASSUME NEW t \in Tasks, RemoveStep(t)
      PROVE  Kinds'
  <2>1. CASE NothingToRemove(t) \/ SubscriptionDeleted(t)
    BY <2>1, KindsEnds DEF NothingToRemove, SubscriptionDeleted
  <2>2. CASE RemoveEntries(t)
    <3>1. CASE Ends(t)
      BY <3>1, KindsEnds
    <3>2. CASE ~Ends(t)
      <4>1. Kind(t)' /\ OthersKept(t)
        BY <2>2, <3>2, RemoveFields DEF Kind
      <4>2. QED  BY <4>1, KindsKept DEF OthersKept
    <3>3. QED  BY <3>1, <3>2
  <2>3. CASE Unsubscribed(t)
    <3>1. CASE Ends(t)
      BY <3>1, KindsEnds
    <3>2. CASE ~Ends(t)
      <4>1. TearDownIfEmpty(t)
        BY <2>3 DEF Unsubscribed
      <4>2. Kind(t)'
        BY <3>2, <4>1, TearDownFields DEF Kind
      <4>3. QED  BY <3>2, <4>1, <4>2, TearDownFields, KindsKept
    <3>3. QED  BY <3>1, <3>2
  <2>4. CASE ServerDeletes(t)
    BY <2>4 DEF ServerDeletes, Kinds, Kind
  <2>5. QED  BY <1>3, <2>1, <2>2, <2>3, <2>4 DEF RemoveStep
<1>4. CASE SessionStep
  <2>0. Hook \in Tasks
    BY DEF Tasks
  <2>1. CASE Reconnect
    <3>1. task' = [task EXCEPT ![Hook] = [Idle EXCEPT !.pc = "browsing"]]
      BY <2>1 DEF Reconnect
    <3>2. task'[Hook].pc = "browsing" /\ task'[Hook].adds /\ OthersKept(Hook)
      BY <2>0, <3>1 DEF TypeOK, Idle, OthersKept
    <3>3. Kind(Hook)'
      BY <3>2 DEF Kind
    <3>4. QED  BY <2>0, <3>2, <3>3, KindsKept DEF OthersKept
  <2>2. CASE ConnectionLost
    <3>1. ASSUME NEW t \in Tasks, At(t, "creating")  PROVE Kind(t)'
      <4>1. task'[t].pc = "lost" /\ task'[t].adds = task[t].adds /\ task'[t].nodes = task[t].nodes
        BY <2>2, <3>1 DEF ConnectionLost, TypeOK, TaskRecord
      <4>2. QED  BY <3>1, <4>1 DEF Kinds, Kind, At
    <3>2. ASSUME NEW t \in Tasks, ~At(t, "creating")  PROVE Kind(t)'
      <4>1. task'[t] = Forgotten(Tasks)[t]
        BY <2>2, <3>2 DEF ConnectionLost
      <4>2. QED  BY <4>1, ForgottenFields DEF Kinds, Kind
    <3>3. QED  BY <3>1, <3>2 DEF Kinds
  <2>3. CASE ReadWanted
    <3>1. CASE Ends(Hook)
      BY <2>0, <3>1, KindsEnds
    <3>2. CASE ~Ends(Hook)
      <4>1. /\ Wanted # {} /\ task[Hook].pc = "browsing"
            /\ task' = [task EXCEPT ![Hook].pc = "queued", ![Hook].nodes = Wanted]
        BY <2>3, <3>2 DEF ReadWanted, At
      <4>5. task[Hook].adds
        BY <2>0, <4>1 DEF Kinds, Kind
      <4>2. /\ task'[Hook].pc = "queued" /\ task'[Hook].nodes = Wanted
            /\ task'[Hook].adds = task[Hook].adds /\ OthersKept(Hook)
        BY <2>0, <4>1 DEF TypeOK, TaskRecord, OthersKept
      <4>6. task'[Hook].adds /\ task'[Hook].nodes # {}
        BY <4>1, <4>2, <4>5
      <4>3. Kind(Hook)'
        BY <4>2, <4>6 DEF Kind
      <4>4. QED  BY <2>0, <4>2, <4>3, KindsKept DEF OthersKept
    <3>3. QED  BY <3>1, <3>2
  <2>4. CASE BrowseFails
    BY <2>0, <2>4, KindsEnds DEF BrowseFails
  <2>5. QED  BY <1>4, <2>1, <2>2, <2>3, <2>4 DEF SessionStep
<1>5. CASE UNCHANGED vars
  BY <1>5 DEF vars, Kinds, Kind
<1>6. QED  BY <1>1, <1>2, <1>3, <1>4, <1>5 DEF Next, RouteStep

\* What is recorded and what is on the server goes with the session.
LEMMA DownStep ==
    ASSUME TypeOK, CreatingIsUp, DownIsEmpty, [Next]_vars
    PROVE  DownIsEmpty'
<1>1. CASE RouteStep
  <2>1. UNCHANGED <<binding, up, server>>
    BY <1>1 DEF RouteStep, Register, Unregister
  <2>2. QED  BY <2>1 DEF DownIsEmpty, binding, server
<1>2. ASSUME NEW t \in Tasks, AddStep(t)
      PROVE  DownIsEmpty'
  <2>1. CASE AddUsesSubscription(t) \/ AddAsksForSubscription(t) \/ AddFails(t)
    BY <2>1 DEF AddUsesSubscription, AddAsksForSubscription, AddFails, DownIsEmpty, binding, server
  <2>2. CASE SubscriptionCreated(t)
    BY <2>2 DEF SubscriptionCreated, DownIsEmpty, CreatingIsUp
  <2>3. CASE ItemsCreated(t)
    BY <2>3 DEF ItemsCreated, DownIsEmpty
  <2>4. QED  BY <1>2, <2>1, <2>2, <2>3 DEF AddStep
<1>3. ASSUME NEW t \in Tasks, RemoveStep(t)
      PROVE  DownIsEmpty'
  <2>1. CASE NothingToRemove(t) \/ RemoveEntries(t) \/ ServerDeletes(t)
    BY <2>1
       DEF NothingToRemove, RemoveEntries, ServerDeletes, HasEntries, DownIsEmpty, binding, server
  <2>2. CASE Unsubscribed(t)
    <3>1. entries' = entries \/ entries' = {}
      BY <2>2 DEF Unsubscribed, TearDownIfEmpty
    <3>2. QED  BY <2>2, <3>1 DEF Unsubscribed, DownIsEmpty
  <2>3. CASE SubscriptionDeleted(t)
    BY <2>3 DEF SubscriptionDeleted, DownIsEmpty, server
  <2>4. QED  BY <1>3, <2>1, <2>2, <2>3 DEF RemoveStep
<1>4. CASE SessionStep
  BY <1>4 DEF SessionStep, Reconnect, ConnectionLost, Forget, ReadWanted, BrowseFails, DownIsEmpty,
              binding, server
<1>5. CASE UNCHANGED vars
  BY <1>5 DEF vars, DownIsEmpty, binding, server
<1>6. QED  BY <1>1, <1>2, <1>3, <1>4, <1>5 DEF Next

\* The shape of the state at the start.
LEMMA ShapeInit == Init => Kinds /\ DownIsEmpty
BY DEF Init, Kinds, Kind, DownIsEmpty, Idle

\* What holds in every state whatever overlapped or failed: the ground of the next
\* two sections.
Shape == TypeOK /\ SubscriptionInv /\ Kinds /\ DownIsEmpty

\* Each step keeps it.
LEMMA ShapeStep == Shape /\ [Next]_vars => Shape'
BY TypeStep, SubscriptionStep, KindsStep, DownStep DEF Shape, SubscriptionInv

-----------------------------------------------------------------------------
(* Every registered element is monitored.                                  *)

\* The coroutine t is a removal under way.
Removes(t) == Running(t) /\ ~task[t].adds

\* A removal has the worker to itself.
Alone == \A t, u \in Tasks : Removes(t) /\ Running(u) => u = t

\* What a removal under way has left to do, and what nobody wants any more.
Removing(t) ==
    /\ At(t, "queued") => task[t].nodes \cap Wanted = {}
    /\ At(t, "unsubscribing") => task[t].bucket = "current" /\ task[t].drop \cap entries = {}
    /\ At(t, "deleting") => entries = {} /\ Wanted = {}

\* The add t will monitor the node n, unless a call fails.
Promises(t, n) ==
    /\ task[t].adds /\ n \in task[t].nodes
    /\ \/ task[t].pc \in {"queued", "creating"}
       \/ At(t, "subscribing") /\ task[t].sub \in subs

\* The node n is monitored, will be restored, or some add will monitor it.
Covered(n) ==
    n \in NodesOf(entries) \/ At(Hook, "browsing") \/ \E t \in Tasks : Promises(t, n)

Guarded ==
    /\ Alone
    /\ \A t \in Tasks : Removes(t) => Removing(t)
    /\ entries \subseteq items
    /\ \A n \in Wanted : Covered(n)

\* The premise of Coverage, but for nothing being under way.
Calm == up /\ trouble \subseteq {"adds"}

\* Only a step that makes or loses a session can make things calm.
LEMMA CalmBefore ==
    ASSUME [Next]_vars, ~Reconnect, ~ConnectionLost, Calm'
    PROVE  Calm
<1>1. up' = up
  BY DEF Next, RouteStep, Register, Unregister, AddStep, AddUsesSubscription,
         AddAsksForSubscription, SubscriptionCreated, ItemsCreated, AddFails, RemoveStep,
         NothingToRemove, RemoveEntries, Unsubscribed, ServerDeletes, SubscriptionDeleted,
         SessionStep, ReadWanted, BrowseFails, vars
<1>2. trouble \subseteq trouble'
  BY DEF Next, RouteStep, Register, Unregister, AddStep, AddUsesSubscription,
         AddAsksForSubscription, SubscriptionCreated, ItemsCreated, AddFails, RemoveStep,
         NothingToRemove, RemoveEntries, Unsubscribed, ServerDeletes, SubscriptionDeleted,
         SessionStep, ReadWanted, BrowseFails, vars, Trouble
<1>3. QED  BY <1>1, <1>2 DEF Calm

\* What a step may still have met if things are calm after it.
LEMMA CalmTrouble ==
    ASSUME NEW kinds, Trouble(kinds), Calm'
    PROVE  kinds \subseteq {"adds"}
BY DEF Trouble, Calm

\* Beside an add under way there is no removal.
LEMMA NoRemoval ==
    ASSUME Guarded, NEW t \in Tasks, task[t].adds, Running(t), NEW u \in Tasks
    PROVE  ~Removes(u)
BY DEF Guarded, Alone, Removes

\* Beside a removal nothing is under way, and all that is wanted is monitored.
LEMMA AloneCovers ==
    ASSUME Guarded, Kinds, NEW t \in Tasks, Removes(t)
    PROVE  /\ \A u \in Tasks \ {t} : ~Running(u)
           /\ Wanted \subseteq NodesOf(entries)
<1>1. \A u \in Tasks \ {t} : ~Running(u)
  BY DEF Guarded, Alone
<1>2. ~At(Hook, "browsing")
  <2>1. Hook \in Tasks
    BY DEF Tasks
  <2>2. QED  BY <1>1, <2>1 DEF Removes, Running, At, Kinds, Kind
<1>3. ASSUME NEW u \in Tasks, NEW n  PROVE ~Promises(u, n)
  BY <1>1 DEF Promises, Running, Removes, At
<1>4. QED  BY <1>1, <1>2, <1>3 DEF Guarded, Covered

\* A step of an add keeps all covered if it breaks no promise but by keeping it.
LEMMA AddKeeps ==
    ASSUME Guarded, NEW t \in Tasks, task[t].adds, Running(t), task'[t].adds, OthersKept(t),
           entries' \subseteq items', Wanted' = Wanted, subs \subseteq subs',
           NodesOf(entries) \subseteq NodesOf(entries'),
           \A n \in Wanted : Promises(t, n) \/ (t = Hook /\ At(Hook, "browsing"))
                                => n \in NodesOf(entries') \/ Promises(t, n)'
    PROVE  Guarded'
<1>1. ASSUME NEW u \in Tasks  PROVE ~Removes(u)'
  <2>1. ~Removes(u)
    BY NoRemoval
  <2>2. QED  BY <2>1 DEF Removes, Running, OthersKept
<1>2. ASSUME NEW n \in Wanted  PROVE Covered(n)'
  <2>1. CASE n \in NodesOf(entries)
    BY <2>1 DEF Covered
  <2>2. CASE At(Hook, "browsing")
    <3>1. CASE t = Hook
      BY <2>2, <3>1 DEF Covered
    <3>2. CASE t # Hook
      <4>1. task'[Hook] = task[Hook]
        BY <3>2 DEF OthersKept, Tasks
      <4>2. QED  BY <2>2, <4>1 DEF Covered, At
    <3>3. QED  BY <3>1, <3>2
  <2>3. ASSUME NEW u \in Tasks, Promises(u, n)  PROVE Covered(n)'
    <3>1. CASE u = t
      BY <2>3, <3>1 DEF Covered
    <3>2. CASE u # t
      <4>1. task'[u] = task[u]
        BY <3>2 DEF OthersKept
      <4>2. Promises(u, n)'
        BY <2>3, <4>1 DEF Promises, At
      <4>3. QED  BY <4>2 DEF Covered
    <3>3. QED  BY <3>1, <3>2
  <2>4. QED  BY <2>1, <2>2, <2>3 DEF Guarded, Covered
<1>3. QED  BY <1>1, <1>2 DEF Guarded, Alone

\* A step of a removal keeps all covered if it spares what is wanted.
LEMMA RemovalKeeps ==
    ASSUME Guarded, Kinds, NEW t \in Tasks, Removes(t), Wanted' = Wanted,
           \A u \in Tasks \ {t} : task'[u].pc = task[u].pc,
           Wanted \subseteq NodesOf(entries'), entries' \subseteq items',
           Removes(t)' => Removing(t)'
    PROVE  Guarded'
<1>1. \A u \in Tasks \ {t} : ~Running(u)'
  BY AloneCovers DEF Running
<1>2. Alone' /\ \A u \in Tasks : Removes(u)' => Removing(u)'
  BY <1>1 DEF Alone, Removes
<1>3. QED  BY <1>2 DEF Guarded, Covered

\* From its check on, an add still monitors every node it was to monitor.
LEMMA SubscribeCovers ==
    ASSUME TypeOK, Kinds, Guarded, NEW t \in Tasks, task[t].adds,
           task[t].pc \in {"queued", "creating"}, NEW i, Subscribe(t, i), i \in subs',
           UNCHANGED <<want, entries, items>>, subs \subseteq subs'
    PROVE  Guarded'
<1>1. Running(t) /\ Wanted' = Wanted /\ entries' \subseteq items'
  BY DEF Running, Wanted, Guarded
<1>2. ~(t = Hook /\ At(Hook, "browsing"))
  BY DEF At
<1>3. task'[t].adds /\ OthersKept(t)
  BY SubscribeFields, EndsFields
<1>4. ASSUME NEW n, Promises(t, n)
      PROVE  n \in NodesOf(entries') \/ Promises(t, n)'
  <2>1. CASE n \in NodesOf(entries)
    BY <2>1
  <2>2. CASE n \notin NodesOf(entries)
    <3>1. n \in Missing(task[t].nodes)
      BY <1>4, <2>2 DEF Promises, Missing
    <3>2. task'[t].pc = "subscribing" /\ n \in task'[t].nodes /\ task'[t].sub = i
      BY <3>1, SubscribeFields
    <3>3. QED  BY <1>3, <3>2 DEF Promises, At
  <2>3. QED  BY <2>1, <2>2
<1>5. NodesOf(entries) \subseteq NodesOf(entries')
  OBVIOUS
<1>6. QED  BY <1>1, <1>2, <1>3, <1>4, <1>5, AddKeeps

\* When the items are there, so are the entries of all nodes of the add.
LEMMA ItemsCover ==
    ASSUME TypeOK, Kinds, Guarded, Calm', NEW t \in Tasks, ItemsCreated(t)
    PROVE  Guarded'
<1>0. At(t, "subscribing") /\ Ends(t) /\ UNCHANGED <<want, subs>>
  BY DEF ItemsCreated, routes
<1>1. task[t].adds /\ Running(t) /\ ~(t = Hook /\ At(Hook, "browsing"))
  BY <1>0 DEF At, Kinds, Kind, Running
<1>2. PICK refused \in SUBSET task[t].nodes :
          LET accepted == task[t].nodes \ refused
              made == {[node |-> n, sub |-> task[t].sub,
                        copy |-> CHOOSE k \in FreeCopy(n, task[t].sub) : TRUE] :
                          n \in accepted}
          IN  /\ \A n \in accepted : FreeCopy(n, task[t].sub) # {}
              /\ items' = items \cup made
              /\ Record(made \cup {Refused(n) : n \in refused})
              /\ Trouble(IF refused = {} THEN {} ELSE {"failure"})
  BY DEF ItemsCreated
<1>3. refused = {}
  BY <1>2, CalmTrouble
<1> DEFINE new(n) == [node |-> n, sub |-> task[t].sub,
                      copy |-> CHOOSE k \in FreeCopy(n, task[t].sub) : TRUE]
           made == {new(n) : n \in task[t].nodes}
<1>4. NodesOf(made) = task[t].nodes
  <2>1. \A n : new(n).node = n
    OBVIOUS
  <2> HIDE DEF new
  <2>2. QED  BY <2>1 DEF NodesOf
<1>5. made \cup {Refused(n) : n \in refused} = made /\ task[t].nodes \ refused = task[t].nodes
  BY <1>3
<1>6. items' = items \cup made /\ Record(made)
  BY <1>2, <1>5
<1> HIDE DEF made
<1>7. entries' = {h \in entries : h.node \notin NodesOf(made)} \cup made
  BY <1>6 DEF Record
<1>8. entries' \subseteq items'
  BY <1>6, <1>7 DEF Guarded
<1>9. NodesOf(entries) \cup task[t].nodes \subseteq NodesOf(entries')
  BY <1>4, <1>7 DEF NodesOf
<1>10. task'[t].adds /\ OthersKept(t)
  BY <1>0, EndsFields
<1>11. Wanted' = Wanted /\ subs \subseteq subs'
  BY <1>0 DEF Wanted
<1>12. \A n \in Wanted : Promises(t, n) => n \in NodesOf(entries')
  BY <1>9 DEF Promises
<1>13. NodesOf(entries) \subseteq NodesOf(entries')
  BY <1>9
<1>14. QED  BY <1>1, <1>8, <1>10, <1>11, <1>12, <1>13, AddKeeps

\* A step of an add leaves everything wanted covered.
LEMMA CoverAdd ==
    ASSUME Shape, Guarded, Calm, Calm', NEW t \in Tasks, AddStep(t)
    PROVE  Guarded'
<1>0. TypeOK /\ Kinds /\ SubscriptionInv /\ DownIsEmpty
  BY DEF Shape
<1>1. CASE AddUsesSubscription(t)
  <2>1. /\ task[t].adds /\ task[t].pc = "queued" /\ subRef # None /\ Subscribe(t, subRef)
        /\ UNCHANGED <<want, entries, items, subs>>
    BY <1>1 DEF AddUsesSubscription, Begins, At, routes, binding, server
  <2>2. \A u \in Tasks : ~Removes(u)
    BY <2>1, NoRemoval DEF Running
  <2>3. \A u \in Tasks : ~At(u, "deleting")
    BY <1>0, <2>2 DEF Removes, Running, At, Kinds, Kind
  <2>4. subRef \in subs
    BY <1>0, <2>1, <2>3 DEF SubscriptionInv, SubscriptionExists
  <2>5. QED  BY <1>0, <2>1, <2>4, SubscribeCovers
<1>2. CASE AddAsksForSubscription(t)
  <2>1. /\ task[t].adds /\ task[t].pc = "queued" /\ task' = [task EXCEPT ![t].pc = "creating"]
        /\ UNCHANGED <<want, entries, items, subs>>
    BY <1>2 DEF AddAsksForSubscription, Begins, At, routes, binding, server, Calm
  <2>2. /\ task'[t].pc = "creating" /\ task'[t].adds /\ task'[t].nodes = task[t].nodes
        /\ OthersKept(t)
    BY <1>0, <2>1 DEF TypeOK, TaskRecord, OthersKept
  <2>3. \A n : Promises(t, n) => Promises(t, n)'
    BY <2>2 DEF Promises, At
  <2>4. /\ Running(t) /\ Wanted' = Wanted /\ entries' \subseteq items'
        /\ ~(t = Hook /\ At(Hook, "browsing"))
    BY <2>1 DEF Running, Wanted, Guarded, At
  <2>5. NodesOf(entries) \subseteq NodesOf(entries') /\ subs \subseteq subs'
    BY <2>1
  <2>6. QED  BY <2>1, <2>2, <2>3, <2>4, <2>5, AddKeeps
<1>3. CASE SubscriptionCreated(t)
  <2>1. PICK i : /\ Subscribe(t, i) /\ subs' = subs \cup {i} /\ At(t, "creating")
                 /\ UNCHANGED <<want, entries, items>>
    BY <1>3 DEF SubscriptionCreated, routes
  <2>2. task[t].adds /\ task[t].pc = "creating"
    BY <1>0, <2>1 DEF At, Kinds, Kind
  <2>3. QED  BY <1>0, <2>1, <2>2, SubscribeCovers
<1>4. CASE ItemsCreated(t)
  BY <1>0, <1>4, ItemsCover
<1>5. CASE AddFails(t)
  <2>1. /\ task[t].adds /\ task[t].pc \in {"creating", "lost", "subscribing"} /\ Ends(t)
        /\ UNCHANGED <<want, entries, items, subs>>
        /\ Trouble(IF At(t, "creating") \/ task[t].sub \in subs THEN {"failure"} ELSE {})
    BY <1>5 DEF AddFails, routes, binding, server
  <2>2. ~At(t, "creating") /\ task[t].sub \notin subs
    BY <2>1, CalmTrouble
  <2>3. \A n : ~Promises(t, n)
    BY <2>1, <2>2 DEF Promises, At
  <2>4. /\ Running(t) /\ Wanted' = Wanted /\ entries' \subseteq items'
        /\ ~(t = Hook /\ At(Hook, "browsing"))
    BY <2>1 DEF Running, Wanted, Guarded, At
  <2>5. task'[t].adds /\ OthersKept(t)
    BY <1>0, <2>1, EndsFields
  <2>6. NodesOf(entries) \subseteq NodesOf(entries') /\ subs \subseteq subs'
    BY <2>1
  <2>7. QED  BY <2>1, <2>3, <2>4, <2>5, <2>6, AddKeeps
<1>6. QED  BY <1>1, <1>2, <1>3, <1>4, <1>5 DEF AddStep

\* A step of a removal leaves everything wanted covered.
LEMMA CoverRemove ==
    ASSUME Shape, Guarded, Calm, Calm', NEW t \in Tasks, RemoveStep(t)
    PROVE  Guarded'
<1>0. TypeOK /\ Kinds /\ SubscriptionInv /\ DownIsEmpty
  BY DEF Shape
<1>1. Removes(t)
  BY <1>0 DEF RemoveStep, NothingToRemove, RemoveEntries, Unsubscribed, ServerDeletes,
              SubscriptionDeleted, Begins, At, Removes, Running, Kinds, Kind
<1>2. /\ Removing(t) /\ Wanted \subseteq NodesOf(entries) /\ entries \subseteq items
      /\ Wanted' = Wanted
  BY <1>0, <1>1, AloneCovers
     DEF Guarded, RemoveStep, NothingToRemove, RemoveEntries, Unsubscribed, ServerDeletes,
         SubscriptionDeleted, routes, Wanted
<1>3. ASSUME Ends(t), entries' = entries, entries' \subseteq items'
      PROVE  Guarded'
  <2>1. ~Removes(t)' /\ OthersKept(t)
    BY <1>0, <1>3, EndsFields DEF Removes, Running
  <2>2. QED  BY <1>0, <1>1, <1>2, <1>3, <2>1, RemovalKeeps DEF OthersKept
<1>4. CASE NothingToRemove(t)
  BY <1>2, <1>3, <1>4 DEF NothingToRemove, binding, server
<1>5. CASE RemoveEntries(t)
  <2>1. PICK drop : /\ drop = {h \in entries : h.node \in task[t].nodes}
                    /\ entries' = entries \ drop
                    /\ \/ drop = {} /\ Ends(t)
                       \/ /\ drop # {}
                          /\ task'[t].pc = "unsubscribing" /\ ~task'[t].adds
                          /\ task'[t].nodes = {} /\ task'[t].sub = subRef
                          /\ task'[t].bucket = "current" /\ task'[t].drop = drop
                          /\ OthersKept(t)
    BY <1>0, <1>5, RemoveFields
  <2>2. items' = items /\ At(t, "queued")
    BY <1>5 DEF RemoveEntries, server, Begins
  <2>3. CASE Ends(t)
    <3>1. entries' = entries
      BY <1>0, <2>1, <2>3, EndsFields
    <3>2. QED  BY <1>2, <1>3, <2>2, <2>3, <3>1
  <2>4. CASE ~Ends(t)
    <3>1. task[t].nodes \cap Wanted = {}
      BY <1>2, <2>2 DEF Removing
    <3>2. Wanted \subseteq NodesOf(entries')
      BY <1>2, <2>1, <3>1 DEF NodesOf
    <3>3. Removing(t)'
      BY <2>1, <2>4 DEF Removing, At
    <3>4. entries' \subseteq items' /\ OthersKept(t)
      BY <1>2, <2>1, <2>2, <2>4
    <3>5. QED  BY <1>0, <1>1, <1>2, <3>2, <3>3, <3>4, RemovalKeeps DEF OthersKept
  <2>5. QED  BY <2>3, <2>4
<1>6. CASE Unsubscribed(t)
  <2>1. task[t].bucket = "current" /\ task[t].drop \cap entries = {}
    BY <1>2, <1>6 DEF Unsubscribed, Removing
  <2>2. entries \subseteq items' /\ TearDownIfEmpty(t)
    BY <1>2, <1>6, <2>1 DEF Unsubscribed
  <2>3. CASE Ends(t) /\ entries' = entries
    BY <1>3, <2>2, <2>3
  <2>4. CASE ~(Ends(t) /\ entries' = entries)
    <3>1. /\ LeftEmpty(t) /\ entries' = {} /\ task'[t].pc = "deleting"
          /\ \A u \in Tasks \ {t} : task'[u].pc = task[u].pc
      BY <1>0, <2>2, <2>4, TearDownFields
    <3>2. entries = {}
      BY <2>1, <3>1 DEF LeftEmpty
    <3>3. Wanted = {}
      BY <1>2, <3>2 DEF NodesOf
    <3>4. Removing(t)'
      BY <1>2, <3>1, <3>3 DEF Removing, At
    <3>5. Wanted \subseteq NodesOf(entries') /\ entries' \subseteq items'
      BY <3>1, <3>3
    <3>6. QED  BY <1>0, <1>1, <1>2, <3>1, <3>4, <3>5, RemovalKeeps
  <2>5. QED  BY <2>3, <2>4
<1>7. CASE ServerDeletes(t)
  <2>1. /\ entries = {} /\ Wanted = {} /\ At(t, "deleting")
    BY <1>2, <1>7 DEF ServerDeletes, Removing
  <2>2. entries' = entries /\ task' = task
    BY <1>7 DEF ServerDeletes, binding
  <2>3. Removing(t)'
    BY <1>2, <2>1, <2>2 DEF Removing, At
  <2>4. Wanted \subseteq NodesOf(entries') /\ entries' \subseteq items'
    BY <2>1, <2>2
  <2>5. QED  BY <1>0, <1>1, <1>2, <2>2, <2>3, <2>4, RemovalKeeps
<1>8. CASE SubscriptionDeleted(t)
  BY <1>2, <1>3, <1>8 DEF SubscriptionDeleted, server
<1>9. QED  BY <1>4, <1>5, <1>6, <1>7, <1>8 DEF RemoveStep

\* What a coroutine that begins with things calm has beside it.
LEMMA OverlapCalm ==
    ASSUME NEW adds, Overlap(adds) \subseteq {"adds"}
    PROVE  /\ \A u \in Tasks : Running(u) => adds /\ task[u].adds
BY DEF Overlap

\* A route leaves everything wanted covered.
LEMMA CoverRoute ==
    ASSUME Shape, Guarded, Calm, Calm', RouteStep
    PROVE  Guarded'
<1>0. TypeOK /\ Kinds
  BY DEF Shape
<1>1. ASSUME NEW s \in Subs, NEW E \in SUBSET Nodes, NEW t \in Requests, Register(s, E, t)
      PROVE  Guarded'
  <2>0. t \in Tasks /\ t # Hook /\ Hook \in Tasks
    BY NamesAssumption DEF Tasks
  <2>1. /\ Submit(t, TRUE, E \ want[s]) /\ want' = [want EXCEPT ![s] = @ \cup E]
        /\ Overlap(TRUE) \subseteq {"adds"}
        /\ UNCHANGED <<entries, items, subs>>
    BY <1>1, CalmTrouble DEF Register, binding, server
  <2>2. /\ task[t].pc = "idle" /\ task'[t].pc = "queued" /\ task'[t].adds
        /\ task'[t].nodes = E \ want[s] /\ OthersKept(t)
    BY <1>0, <2>0, <2>1, SubmitFields
  <2>3. ASSUME NEW u \in Tasks  PROVE ~Removes(u)'
    <3>1. ~Removes(u)
      BY <2>1, OverlapCalm DEF Removes
    <3>2. QED  BY <2>2, <3>1 DEF Removes, Running, OthersKept
  <2>4. ASSUME NEW n \in Wanted'  PROVE Covered(n)'
    <3>1. CASE n \in E \ want[s]
      <4>1. Promises(t, n)'
        BY <2>2, <3>1 DEF Promises
      <4>2. QED  BY <2>0, <4>1 DEF Covered
    <3>2. CASE n \notin E \ want[s]
      <4>1. n \in Wanted
        BY <1>0, <2>1, <3>2 DEF Wanted, TypeOK
      <4>2. CASE n \in NodesOf(entries)
        BY <2>1, <4>2 DEF Covered
      <4>3. CASE At(Hook, "browsing")
        BY <2>0, <2>2, <4>3 DEF Covered, At, OthersKept
      <4>4. ASSUME NEW u \in Tasks, Promises(u, n)  PROVE Covered(n)'
        <5>1. u # t
          BY <2>2, <4>4 DEF Promises, At
        <5>2. task'[u] = task[u]
          BY <2>2, <5>1 DEF OthersKept
        <5>3. Promises(u, n)'
          BY <2>1, <4>4, <5>2 DEF Promises, At
        <5>4. QED  BY <5>3 DEF Covered
      <4>5. QED  BY <4>1, <4>2, <4>3, <4>4 DEF Guarded, Covered
    <3>3. QED  BY <3>1, <3>2
  <2>5. QED  BY <2>1, <2>3, <2>4 DEF Guarded, Alone
<1>2. ASSUME NEW s \in Subs, NEW E \in SUBSET Nodes, NEW t \in Requests, Unregister(s, E, t)
      PROVE  Guarded'
  <2> DEFINE removed == E \cap want[s]
             shared == removed \cap UNION {want[r] : r \in Subs \ {s}}
  <2>0. t \in Tasks /\ Hook \in Tasks
    BY DEF Tasks
  <2>1. /\ Submit(t, FALSE, removed) /\ want' = [want EXCEPT ![s] = @ \ E]
        /\ Overlap(FALSE) \cup (IF shared # {} THEN {"shared"} ELSE {}) \subseteq {"adds"}
        /\ UNCHANGED <<entries, items, subs>>
    BY <1>2, CalmTrouble DEF Unregister, binding, server
  <2>2. /\ task[t].pc = "idle" /\ task'[t].pc = "queued" /\ ~task'[t].adds
        /\ task'[t].nodes = removed /\ OthersKept(t)
    BY <1>0, <2>0, <2>1, SubmitFields
  <2>3. shared = {} /\ \A u \in Tasks : ~Running(u)
    BY <2>1, OverlapCalm
  <2>4. removed \cap Wanted' = {} /\ Wanted' \subseteq Wanted
    BY <1>0, <2>1, <2>3 DEF Wanted, TypeOK
  <2>5. \A u \in Tasks : Running(u)' => u = t
    BY <2>2, <2>3 DEF Running, OthersKept
  <2>6. Removing(t)'
    BY <2>2, <2>4 DEF Removing, At
  <2>7. ASSUME NEW n \in Wanted  PROVE n \in NodesOf(entries)
    <3>1. ~At(Hook, "browsing") /\ \A u \in Tasks : ~Promises(u, n)
      BY <2>0, <2>3 DEF Running, At, Promises
    <3>2. QED  BY <3>1 DEF Guarded, Covered
  <2>8. \A n \in Wanted' : Covered(n)'
    BY <2>1, <2>4, <2>7 DEF Covered
  <2>9. QED  BY <2>1, <2>5, <2>6, <2>8 DEF Guarded, Alone, Removes
<1>3. QED  BY <1>1, <1>2 DEF RouteStep

\* A session leaves everything wanted covered: a new one by the hook.
LEMMA CoverSession ==
    ASSUME Shape, Calm => Guarded, Calm', SessionStep
    PROVE  Guarded'
<1>0. TypeOK /\ Kinds /\ DownIsEmpty /\ SubscriptionInv /\ Hook \in Tasks
  BY DEF Shape, Tasks
<1>1. CASE Reconnect
  <2>1. /\ ~up /\ task' = [task EXCEPT ![Hook] = [Idle EXCEPT !.pc = "browsing"]]
        /\ entries' = {} /\ Overlap(TRUE) \subseteq {"adds"}
    BY <1>0, <1>1, CalmTrouble
       DEF Reconnect, SubscriptionInv, TryingIsDown, DownIsEmpty, binding
  <2>2. task'[Hook].pc = "browsing" /\ task'[Hook].adds /\ OthersKept(Hook)
    BY <1>0, <2>1 DEF TypeOK, Idle, OthersKept
  <2>3. \A u \in Tasks : ~Removes(u)'
    BY <2>1, <2>2, OverlapCalm DEF Removes, Running, OthersKept
  <2>4. QED  BY <2>1, <2>2, <2>3 DEF Guarded, Alone, Covered, At
<1>2. CASE ConnectionLost
  BY <1>2 DEF ConnectionLost, Calm
<1>3. CASE ReadWanted
  <2>1. Calm /\ At(Hook, "browsing") /\ UNCHANGED <<want, entries, items, subs>>
    BY <1>3 DEF ReadWanted, Calm, routes, binding, server
  <2>2. Guarded /\ Running(Hook) /\ task[Hook].adds
    BY <1>0, <2>1 DEF Running, At, Kinds, Kind
  <2>3. Wanted' = Wanted /\ entries' \subseteq items'
    BY <2>1, <2>2 DEF Wanted, Guarded
  <2>4. CASE Wanted = {}
    <3>1. task'[Hook].adds /\ OthersKept(Hook)
      BY <1>0, <1>3, <2>4, EndsFields DEF ReadWanted
    <3>2. QED  BY <1>0, <2>1, <2>2, <2>3, <2>4, <3>1, AddKeeps
  <2>5. CASE Wanted # {}
    <3>1. /\ task' = [task EXCEPT ![Hook].pc = "queued", ![Hook].nodes = Wanted]
      BY <1>3, <2>5 DEF ReadWanted
    <3>2. /\ task'[Hook].pc = "queued" /\ task'[Hook].nodes = Wanted
          /\ task'[Hook].adds = task[Hook].adds /\ OthersKept(Hook)
      BY <1>0, <3>1 DEF TypeOK, TaskRecord, OthersKept
    <3>3. \A n \in Wanted : Promises(Hook, n)'
      BY <2>2, <3>2 DEF Promises
    <3>4. QED  BY <1>0, <2>1, <2>2, <2>3, <3>2, <3>3, AddKeeps
  <2>6. QED  BY <2>4, <2>5
<1>4. CASE BrowseFails
  <2>1. up /\ Trouble(IF up THEN {"failure"} ELSE {})
    BY <1>4 DEF BrowseFails, Calm
  <2>2. QED  BY <2>1, CalmTrouble
<1>5. QED  BY <1>1, <1>2, <1>3, <1>4 DEF SessionStep

\* Each step leaves everything wanted covered, if things are calm after it.
LEMMA CoverStep == Shape /\ (Calm => Guarded) /\ [Next]_vars => (Calm => Guarded)'
<1> SUFFICES ASSUME Shape, Calm => Guarded, [Next]_vars, Calm'
             PROVE  Guarded'
  OBVIOUS
<1>1. CASE SessionStep
  BY <1>1, CoverSession
<1>2. CASE ~SessionStep
  <2>1. Calm /\ Guarded
    BY <1>2, CalmBefore DEF SessionStep
  <2>2. CASE UNCHANGED vars
    BY <2>1, <2>2
       DEF vars, routes, binding, server, Guarded, Alone, Removes, Running, Removing, At, Wanted,
           NodesOf, Covered, Promises
  <2>3. QED  BY <1>2, <2>1, <2>2, CoverRoute, CoverAdd, CoverRemove DEF Next
<1>3. QED  BY <1>1, <1>2

\* Covered with nothing under way is monitored.
LEMMA GuardedCovers == (Calm => Guarded) => Coverage
<1> SUFFICES ASSUME Calm => Guarded, AtRest, trouble \subseteq {"adds"}
             PROVE  Wanted \subseteq Monitored
  BY DEF Coverage
<1>1. Guarded /\ \A t \in Tasks : task[t].pc = "idle"
  BY DEF AtRest, Calm, Running
<1>2. Wanted \subseteq NodesOf(entries)
  BY <1>1 DEF Guarded, Covered, Promises, At, Tasks
<1>3. QED  BY <1>1, <1>2 DEF Guarded, Monitored, NodesOf

\* Every registered element is monitored whenever nothing is under way, for any
\* number of requests whose adds interleave with one another and with the
\* restoration after any reconnect, unless since that reconnect a removal
\* overlapped something, a call failed, or a shared element was unregistered.
THEOREM RegisteredIsMonitored == Spec => []Coverage
<1>1. Init => Shape /\ (Calm => Guarded)
  <2>1. Init => ~up
    BY DEF Init
  <2>2. QED  BY <2>1, TypeInit, SubscriptionInit, ShapeInit DEF Shape, Calm
<1>2. Shape /\ (Calm => Guarded) /\ [Next]_vars => (Shape /\ (Calm => Guarded))'
  BY ShapeStep, CoverStep
<1>3. QED  BY <1>1, <1>2, GuardedCovers, PTL DEF Spec

-----------------------------------------------------------------------------
(* Nothing is left behind.                                                 *)

\* The coroutine t awaits an answer about the recorded Subscription.
Waits(t) == task[t].pc \in {"subscribing", "unsubscribing", "deleting"}

\* Nothing but t is under way, and what is on the server is what is recorded, but
\* for what t is about to do: items that it drops, a Subscription that it deletes.
Exact(t) ==
    /\ \A u \in Tasks \ {t} : ~Running(u)
    /\ items = entries \cup (IF At(t, "unsubscribing") THEN task[t].drop ELSE {})
    /\ \A i, j \in items : i.node = j.node => i = j
    /\ \A i \in items : i.sub = subRef
    /\ IF At(t, "deleting") THEN subs \subseteq {subRef} /\ items = {}
       ELSE subs = {subRef} \ {None}
    /\ Waits(t) => subRef # None /\ task[t].sub = subRef
    /\ subRef # None /\ entries = {} => Waits(t)
    /\ At(t, "creating") => subRef = None
    /\ At(t, "subscribing") => task[t].nodes \cap NodesOf(entries) = {}
    /\ Running(t) /\ task[t].adds => task[t].nodes \subseteq Wanted
    /\ \A n \in NodesOf(entries) :
          \/ n \in Wanted
          \/ At(t, "queued") /\ ~task[t].adds /\ n \in task[t].nodes

\* The premise of NothingLeftBehind, but for nothing being under way.
Orderly == up /\ trouble = {}

OrderInv == Orderly => \E t \in Tasks : Exact(t)

\* A step that may only have met what it allows leaves no trouble if there is none.
LEMMA OrderTrouble ==
    ASSUME NEW kinds, Trouble(kinds), Orderly'
    PROVE  kinds = {} /\ trouble = {}
BY DEF Trouble, Orderly

\* What is exact is so for the coroutine under way, and for any if there is none.
LEMMA Turn ==
    ASSUME NEW w \in Tasks, Exact(w), NEW t \in Tasks,
           Running(t) \/ \A u \in Tasks : ~Running(u)
    PROVE  Exact(t)
<1>1. CASE w = t
  BY <1>1
<1>2. CASE w # t
  <2>1. task[w].pc = "idle" /\ task[t].pc = "idle"
    BY <1>2 DEF Exact, Running
  <2>2. \A u \in Tasks : ~Running(u)
    BY <1>2, <2>1 DEF Exact, Running
  <2>3. QED  BY <2>1, <2>2 DEF Exact, Waits, At, Running
<1>3. QED  BY <1>1, <1>2

\* A MonitoredItem is one of some Subscription.
LEMMA ItemsHaveSub ==
    ASSUME TypeOK, NEW t \in Tasks, Exact(t), subRef = None
    PROVE  items = {} /\ entries = {}
<1>1. \A i \in items : i.sub \in SubIds
  BY DEF TypeOK, Item
<1>2. QED  BY <1>1, NamesAssumption DEF Exact

\* Nothing is left behind by a coroutine that ends without having waited.
LEMMA ExactEnds ==
    ASSUME TypeOK, NEW t \in Tasks, Exact(t), Ends(t), ~Waits(t),
           UNCHANGED <<want, subRef, entries, items, subs>>,
           NodesOf(entries) \subseteq Wanted
    PROVE  Exact(t)'
<1>1. task'[t].pc = "idle" /\ task'[t].adds /\ OthersKept(t)
  BY EndsFields
<1>2. /\ items = entries /\ subs = {subRef} \ {None} /\ ~(subRef # None /\ entries = {})
  BY DEF Exact, Waits, At
<1>3. Wanted' = Wanted
  BY DEF Wanted
<1>4. QED  BY <1>1, <1>2, <1>3 DEF Exact, Running, At, Waits, OthersKept

\* Nor by one that goes on to wait for its items.
LEMMA ExactSubscribes ==
    ASSUME TypeOK, Kinds, NEW t \in Tasks, ~Waits(t), Running(t), task[t].adds,
           NEW i \in SubIds, Subscribe(t, i), subRef' = i, subs' = {i},
           UNCHANGED <<want, entries, items>>, Exact(t), \A j \in items : j.sub = i,
           task[t].nodes # {}
    PROVE  Exact(t)'
<1>1. /\ items = entries /\ NodesOf(entries) \subseteq Wanted /\ task[t].nodes \subseteq Wanted
  BY DEF Exact, Waits, At
<1>2. Wanted' = Wanted /\ i # None
  BY NamesAssumption DEF Wanted
<1>3. CASE Missing(task[t].nodes) = {} /\ Ends(t)
  <2>1. entries # {}
    BY <1>3 DEF Missing, NodesOf
  <2>2. task'[t].pc = "idle" /\ task'[t].adds /\ OthersKept(t)
    BY <1>3, EndsFields
  <2>3. QED  BY <1>1, <1>2, <2>1, <2>2 DEF Exact, Running, At, Waits, OthersKept
<1>4. CASE ~(Missing(task[t].nodes) = {} /\ Ends(t))
  <2>1. /\ task'[t].pc = "subscribing" /\ task'[t].adds
        /\ task'[t].nodes = Missing(task[t].nodes) /\ task'[t].sub = i
        /\ OthersKept(t)
    BY <1>4, SubscribeFields
  <2>2. task'[t].nodes \subseteq Wanted /\ task'[t].nodes \cap NodesOf(entries) = {}
    BY <1>1, <2>1 DEF Missing
  <2>3. QED  BY <1>1, <1>2, <2>1, <2>2 DEF Exact, Running, At, Waits, OthersKept
<1>5. QED  BY <1>3, <1>4

\* Nor by one whose items have been created.
LEMMA ExactItems ==
    ASSUME TypeOK, Kinds, NEW t \in Tasks, Exact(t), Orderly', ItemsCreated(t)
    PROVE  Exact(t)'
<1>0. At(t, "subscribing") /\ Ends(t) /\ UNCHANGED <<want, subRef, subs>>
  BY DEF ItemsCreated, routes
<1>1. /\ task[t].adds /\ Running(t) /\ task[t].nodes # {}
      /\ task[t].sub = subRef /\ subRef # None
      /\ items = entries /\ subs = {subRef} \ {None} /\ NodesOf(entries) \subseteq Wanted
      /\ task[t].nodes \cap NodesOf(entries) = {} /\ task[t].nodes \subseteq Wanted
  <2>1. task[t].pc = "subscribing" /\ task[t].adds /\ task[t].nodes # {}
    BY <1>0 DEF At, Kinds, Kind
  <2>2. QED  BY <2>1 DEF At, Running, Exact, Waits
<1>2. PICK refused \in SUBSET task[t].nodes :
          LET accepted == task[t].nodes \ refused
              made == {[node |-> n, sub |-> task[t].sub,
                        copy |-> CHOOSE k \in FreeCopy(n, task[t].sub) : TRUE] :
                          n \in accepted}
          IN  /\ \A n \in accepted : FreeCopy(n, task[t].sub) # {}
              /\ items' = items \cup made
              /\ Record(made \cup {Refused(n) : n \in refused})
              /\ Trouble(IF refused = {} THEN {} ELSE {"failure"})
  BY DEF ItemsCreated
<1>3. refused = {}
  BY <1>2, OrderTrouble
<1> DEFINE new(n) == [node |-> n, sub |-> task[t].sub,
                      copy |-> CHOOSE k \in FreeCopy(n, task[t].sub) : TRUE]
           made == {new(n) : n \in task[t].nodes}
<1>4. made \cup {Refused(n) : n \in refused} = made /\ task[t].nodes \ refused = task[t].nodes
  BY <1>3
<1>5. items' = items \cup made /\ Record(made)
  BY <1>2, <1>4
<1>6. \A n : new(n).node = n /\ new(n).sub = task[t].sub
  OBVIOUS
<1> HIDE DEF new
<1>7. /\ NodesOf(made) = task[t].nodes /\ made # {}
      /\ \A i, j \in made : i.node = j.node => i = j
      /\ \A i \in made : i.sub = subRef
  <2>1. NodesOf(made) = task[t].nodes
    BY <1>6 DEF NodesOf
  <2>2. made # {}
    BY <1>1
  <2>3. \A i, j \in made : i.node = j.node => i = j
    BY <1>6
  <2>4. \A i \in made : i.sub = subRef
    BY <1>1, <1>6
  <2> HIDE DEF made
  <2>5. QED  BY <2>1, <2>2, <2>3, <2>4
<1> HIDE DEF made
<1>8. entries' = entries \cup made
  BY <1>1, <1>5, <1>7 DEF Record, NodesOf
<1>9. /\ items' = entries' /\ entries' # {} /\ NodesOf(entries') \subseteq Wanted
      /\ \A i \in items' : i.sub = subRef
  BY <1>1, <1>5, <1>7, <1>8 DEF NodesOf, Exact
<1>10. \A i, j \in items' : i.node = j.node => i = j
  BY <1>1, <1>5, <1>7 DEF NodesOf, Exact
<1>11. task'[t].pc = "idle" /\ task'[t].adds /\ OthersKept(t) /\ Wanted' = Wanted
  BY <1>0, EndsFields DEF Wanted
<1>12. QED  BY <1>0, <1>1, <1>9, <1>10, <1>11 DEF Exact, Running, At, Waits, OthersKept

\* The steps of an add leave nothing behind.
LEMMA ExactAdd ==
    ASSUME Shape, Orderly, Orderly', NEW t \in Tasks, Exact(t), Guarded, AddStep(t)
    PROVE  Exact(t)'
<1>0. TypeOK /\ Kinds /\ SubscriptionInv
  BY DEF Shape
<1>1. CASE AddUsesSubscription(t)
  <2>1. /\ task[t].adds /\ task[t].pc = "queued" /\ subRef # None /\ Subscribe(t, subRef)
        /\ UNCHANGED <<want, subRef, entries, items, subs>>
    BY <1>1 DEF AddUsesSubscription, Begins, At, routes, binding, server
  <2>2. Running(t) /\ ~Waits(t) /\ task[t].nodes # {} /\ subRef \in SubIds
    BY <1>0, <2>1 DEF Running, Waits, Kinds, Kind, TypeOK
  <2>3. subs' = {subRef} /\ \A j \in items : j.sub = subRef
    BY <2>1 DEF Exact, At
  <2>4. QED  BY <1>0, <2>1, <2>2, <2>3, ExactSubscribes
<1>2. CASE AddAsksForSubscription(t)
  <2>1. /\ task[t].adds /\ task[t].pc = "queued" /\ task' = [task EXCEPT ![t].pc = "creating"]
        /\ subRef = None /\ UNCHANGED <<want, subRef, entries, items, subs>>
    BY <1>2 DEF AddAsksForSubscription, Begins, At, routes, binding, server, Orderly
  <2>2. /\ task'[t].pc = "creating" /\ task'[t].adds /\ task'[t].nodes = task[t].nodes
        /\ OthersKept(t)
    BY <1>0, <2>1 DEF TypeOK, TaskRecord, OthersKept
  <2>3. Wanted' = Wanted
    BY <2>1 DEF Wanted
  <2>4. QED  BY <2>1, <2>2, <2>3 DEF Exact, Running, At, Waits, OthersKept
<1>3. CASE SubscriptionCreated(t)
  <2> DEFINE i == CHOOSE j \in SubIds : FreshSub(j)
  <2>1. i \in SubIds
    BY <1>3 DEF SubscriptionCreated
  <2>2. /\ At(t, "creating") /\ subs' = subs \cup {i} /\ subRef' = i /\ Subscribe(t, i)
        /\ UNCHANGED <<want, entries, items>>
    BY <1>3 DEF SubscriptionCreated, routes
  <2> HIDE DEF i
  <2>3. task[t].adds /\ task[t].nodes # {} /\ Running(t) /\ ~Waits(t)
    BY <1>0, <2>2 DEF At, Kinds, Kind, Running, Waits
  <2>4. subRef = None /\ subs = {}
    BY <2>2 DEF Exact, At
  <2>5. items = {} /\ subs' = {i}
    BY <1>0, <2>2, <2>4, ItemsHaveSub
  <2>6. QED  BY <1>0, <2>1, <2>2, <2>3, <2>5, ExactSubscribes
<1>4. CASE ItemsCreated(t)
  BY <1>0, <1>4, ExactItems
<1>5. CASE AddFails(t)
  <2>1. /\ task[t].adds /\ task[t].pc \in {"creating", "lost", "subscribing"} /\ Ends(t)
        /\ UNCHANGED <<want, subRef, entries, items, subs>>
        /\ Trouble(IF At(t, "creating") \/ task[t].sub \in subs THEN {"failure"} ELSE {})
    BY <1>5 DEF AddFails, routes, binding, server
  <2>2. ~At(t, "creating") /\ task[t].sub \notin subs
    BY <2>1, OrderTrouble
  <2>3. ~Waits(t)
    BY <2>1, <2>2 DEF Exact, Waits, At
  <2>4. NodesOf(entries) \subseteq Wanted
    BY <2>1 DEF Exact, At
  <2>5. QED  BY <1>0, <2>1, <2>3, <2>4, ExactEnds
<1>6. QED  BY <1>1, <1>2, <1>3, <1>4, <1>5 DEF AddStep

\* The steps of a removal leave nothing behind.
LEMMA ExactRemove ==
    ASSUME Shape, Orderly, Orderly', NEW t \in Tasks, Exact(t), Guarded, RemoveStep(t)
    PROVE  Exact(t)'
<1>0. TypeOK /\ Kinds
  BY DEF Shape
<1>1. CASE NothingToRemove(t)
  <2>1. /\ task[t].pc = "queued" /\ ~HasEntries /\ Ends(t)
        /\ UNCHANGED <<want, subRef, entries, items, subs>>
    BY <1>1 DEF NothingToRemove, Begins, At, routes, binding, server
  <2>2. subRef = None /\ ~Waits(t)
    BY <2>1 DEF Exact, Waits, HasEntries
  <2>3. NodesOf(entries) \subseteq Wanted
    BY <1>0, <2>2, ItemsHaveSub DEF NodesOf
  <2>4. QED  BY <1>0, <2>1, <2>2, <2>3, ExactEnds
<1>2. CASE RemoveEntries(t)
  <2>1. PICK drop : /\ drop = {h \in entries : h.node \in task[t].nodes}
                    /\ entries' = entries \ drop
                    /\ \/ drop = {} /\ Ends(t)
                       \/ /\ drop # {}
                          /\ task'[t].pc = "unsubscribing" /\ ~task'[t].adds
                          /\ task'[t].nodes = {} /\ task'[t].sub = subRef
                          /\ task'[t].bucket = "current" /\ task'[t].drop = drop
                          /\ OthersKept(t)
    BY <1>0, <1>2, RemoveFields
  <2>2. /\ task[t].pc = "queued" /\ HasEntries /\ Running(t) /\ ~Waits(t)
        /\ UNCHANGED <<want, subRef, items, subs>>
    BY <1>2 DEF RemoveEntries, Begins, At, routes, server, Running, Waits
  <2>3. NodesOf(entries') \subseteq Wanted /\ Wanted' = Wanted
    BY <2>1, <2>2 DEF Exact, NodesOf, Wanted
  <2>4. CASE Ends(t)
    <3>1. entries' = entries
      BY <1>0, <2>1, <2>4, EndsFields
    <3>2. QED  BY <1>0, <2>2, <2>3, <2>4, <3>1, ExactEnds
  <2>5. CASE ~Ends(t)
    <3>1. items' = entries' \cup task'[t].drop
      BY <2>1, <2>2, <2>5 DEF Exact, At
    <3>2. task'[t].pc = "unsubscribing" /\ ~task'[t].adds /\ task'[t].sub = subRef /\ OthersKept(t)
      BY <2>1, <2>5
    <3>3. QED
      BY <2>2, <2>3, <3>1, <3>2 DEF Exact, Running, At, Waits, OthersKept, HasEntries
  <2>6. QED  BY <2>4, <2>5
<1>3. CASE Unsubscribed(t)
  <2>1. At(t, "unsubscribing") /\ TearDownIfEmpty(t) /\ UNCHANGED <<want, subRef, subs>>
    BY <1>3 DEF Unsubscribed, routes
  <2>2. Removing(t) /\ subRef # None /\ task[t].sub = subRef /\ subs = {subRef}
    <3>1. Removes(t)
      BY <1>0, <2>1 DEF At, Removes, Running, Kinds, Kind
    <3>2. QED  BY <2>1, <3>1 DEF Guarded, Exact, Waits, At
  <2>3. task[t].bucket = "current" /\ task[t].drop \cap entries = {}
    BY <2>1, <2>2 DEF Removing
  <2>4. items' = items \ task[t].drop
    <3>1. ~Trouble({"failure"})
      BY OrderTrouble
    <3>2. QED  BY <1>3, <2>2, <3>1 DEF Unsubscribed
  <2>5. items' = entries /\ NodesOf(entries) \subseteq Wanted /\ Wanted' = Wanted
    BY <2>1, <2>3, <2>4 DEF Exact, At, Wanted
  <2>6. /\ \A i, j \in items' : i.node = j.node => i = j
        /\ \A i \in items' : i.sub = subRef
    BY <2>4 DEF Exact
  <2>7. CASE Ends(t) /\ entries' = entries /\ ~LeftEmpty(t)
    <3>1. task'[t].pc = "idle" /\ task'[t].adds /\ OthersKept(t)
      BY <1>0, <2>7, EndsFields
    <3>2. entries # {}
      BY <2>3, <2>7 DEF LeftEmpty
    <3>3. QED
      BY <2>1, <2>2, <2>5, <2>6, <2>7, <3>1, <3>2
      DEF Exact, Running, At, Waits, OthersKept
  <2>8. CASE ~(Ends(t) /\ entries' = entries /\ ~LeftEmpty(t))
    <3>1. /\ LeftEmpty(t) /\ entries' = {} /\ task'[t].pc = "deleting" /\ ~task'[t].adds
          /\ task'[t].sub = task[t].sub
          /\ \A u \in Tasks \ {t} : task'[u].pc = task[u].pc
      BY <1>0, <2>1, <2>8, TearDownFields
    <3>2. items' = {}
      BY <2>3, <2>5, <3>1 DEF LeftEmpty
    <3>3. NodesOf(entries') = {}
      BY <3>1 DEF NodesOf
    <3>4. QED
      BY <2>1, <2>2, <3>1, <3>2, <3>3 DEF Exact, Running, At, Waits
  <2>9. QED  BY <2>7, <2>8
<1>4. CASE ServerDeletes(t)
  <2>1. /\ At(t, "deleting") /\ subs' = subs \ {task[t].sub}
        /\ items' = {i \in items : i.sub # task[t].sub}
        /\ UNCHANGED <<want, task, subRef, entries>>
    BY <1>4 DEF ServerDeletes, routes, binding
  <2>2. Wanted' = Wanted
    BY <2>1 DEF Wanted
  <2>3. QED  BY <2>1, <2>2 DEF Exact, Running, At, Waits
<1>5. CASE SubscriptionDeleted(t)
  <2>1. /\ At(t, "deleting") /\ subRef' = None /\ Ends(t)
        /\ UNCHANGED <<want, entries, items, subs>>
        /\ Trouble(IF task[t].sub \in subs THEN {"failure"} ELSE {})
    BY <1>5 DEF SubscriptionDeleted, routes, server
  <2>2. task[t].sub \notin subs
    BY <2>1, OrderTrouble
  <2>3. items = {} /\ entries = {} /\ subs = {}
    BY <2>1, <2>2 DEF Exact, At, Waits
  <2>4. task'[t].pc = "idle" /\ task'[t].adds /\ OthersKept(t) /\ NodesOf(entries') = {}
    BY <1>0, <2>1, <2>3, EndsFields DEF NodesOf
  <2>5. QED  BY <2>1, <2>3, <2>4 DEF Exact, Running, At, Waits, OthersKept
<1>6. QED  BY <1>1, <1>2, <1>3, <1>4, <1>5 DEF RemoveStep

\* A request handed over with nothing under way leaves nothing behind.
LEMMA ExactRoute ==
    ASSUME Shape, OrderInv, Orderly, Orderly', RouteStep
    PROVE  \E t \in Tasks : Exact(t)'
<1>0. TypeOK /\ Kinds
  BY DEF Shape
<1>1. PICK w \in Tasks : Exact(w)
  BY DEF OrderInv
<1>2. PICK s \in Subs, E \in SUBSET Nodes, t \in Requests :
          Register(s, E, t) \/ Unregister(s, E, t)
  BY DEF RouteStep
<1>3. t \in Tasks
  BY DEF Tasks
<1>4. UNCHANGED <<subRef, entries, items, subs>>
  BY <1>2 DEF Register, Unregister, binding, server
<1>5. CASE Register(s, E, t)
  <2>1. /\ Submit(t, TRUE, E \ want[s]) /\ want' = [want EXCEPT ![s] = @ \cup E]
        /\ Overlap(TRUE) = {}
    BY <1>5, OrderTrouble DEF Register
  <2>2. \A u \in Tasks : ~Running(u)
    BY <2>1 DEF Overlap
  <2>3. Exact(t)
    BY <1>1, <1>3, <2>2, Turn
  <2>4. /\ task[t].pc = "idle" /\ task'[t].pc = "queued" /\ task'[t].adds
        /\ task'[t].nodes = E \ want[s] /\ OthersKept(t)
    BY <1>0, <1>3, <2>1, SubmitFields
  <2>5. Wanted \subseteq Wanted' /\ task'[t].nodes \subseteq Wanted'
    BY <1>0, <2>1, <2>4 DEF Wanted, TypeOK
  <2>6. Exact(t)'
    BY <1>4, <2>3, <2>4, <2>5 DEF Exact, Running, At, Waits, OthersKept
  <2>7. QED  BY <1>3, <2>6
<1>6. CASE Unregister(s, E, t)
  <2>1. /\ Submit(t, FALSE, E \cap want[s]) /\ want' = [want EXCEPT ![s] = @ \ E]
        /\ Overlap(FALSE) = {}
    <3> DEFINE shared == (E \cap want[s]) \cap UNION {want[r] : r \in Subs \ {s}}
    <3>1. /\ Submit(t, FALSE, E \cap want[s]) /\ want' = [want EXCEPT ![s] = @ \ E]
          /\ Trouble(Overlap(FALSE) \cup (IF shared # {} THEN {"shared"} ELSE {}))
      BY <1>6 DEF Unregister
    <3>2. Overlap(FALSE) \cup (IF shared # {} THEN {"shared"} ELSE {}) = {}
      BY <3>1, OrderTrouble
    <3>3. QED  BY <3>1, <3>2
  <2>2. \A u \in Tasks : ~Running(u)
    BY <2>1 DEF Overlap
  <2>3. Exact(t)
    BY <1>1, <1>3, <2>2, Turn
  <2>4. /\ task[t].pc = "idle" /\ task'[t].pc = "queued" /\ ~task'[t].adds
        /\ task'[t].nodes = E \cap want[s] /\ OthersKept(t)
    BY <1>0, <1>3, <2>1, SubmitFields
  <2>5. Wanted \subseteq Wanted' \cup task'[t].nodes
    BY <1>0, <2>1, <2>4 DEF Wanted, TypeOK
  <2>6. NodesOf(entries') \subseteq Wanted
    BY <1>4, <2>4, <2>3 DEF Exact, At
  <2>7. Exact(t)'
    BY <1>4, <2>3, <2>4, <2>5, <2>6 DEF Exact, Running, At, Waits, OthersKept
  <2>8. QED  BY <1>3, <2>7
<1>7. QED  BY <1>2, <1>5, <1>6

\* A session starts with nothing, and its hook leaves nothing behind.
LEMMA ExactSession ==
    ASSUME Shape, OrderInv, Orderly', SessionStep
    PROVE  \E t \in Tasks : Exact(t)'
<1>0. TypeOK /\ Kinds /\ DownIsEmpty /\ SubscriptionInv /\ Hook \in Tasks
  BY DEF Shape, Tasks
<1>1. CASE Reconnect
  <2>1. /\ ~up /\ task' = [task EXCEPT ![Hook] = [Idle EXCEPT !.pc = "browsing"]]
        /\ Overlap(TRUE) = {} /\ UNCHANGED <<want, subRef, entries, items, subs>>
    BY <1>0, <1>1, OrderTrouble
       DEF Reconnect, SubscriptionInv, TryingIsDown, routes, binding, server
  <2>2. entries = {} /\ items = {} /\ subs = {} /\ subRef = None
    BY <1>0, <2>1 DEF DownIsEmpty
  <2>3. /\ task'[Hook].pc = "browsing" /\ task'[Hook].adds /\ task'[Hook].nodes = {}
        /\ OthersKept(Hook)
    BY <1>0, <2>1 DEF TypeOK, Idle, OthersKept
  <2>4. \A u \in Tasks \ {Hook} : ~Running(u)'
    BY <2>1, <2>3 DEF Overlap, Running, OthersKept
  <2>5. NodesOf(entries') = {}
    BY <2>1, <2>2 DEF NodesOf
  <2>6. Exact(Hook)'
    BY <2>1, <2>2, <2>3, <2>4, <2>5 DEF Exact, At, Waits
  <2>7. QED  BY <1>0, <2>6
<1>2. CASE ConnectionLost
  BY <1>2 DEF ConnectionLost, Orderly
<1>3. CASE ReadWanted
  <2>1. /\ Orderly /\ At(Hook, "browsing") /\ UNCHANGED <<want, subRef, entries, items, subs>>
    BY <1>3 DEF ReadWanted, Orderly, routes, binding, server
  <2>2. Running(Hook) /\ ~Waits(Hook) /\ task[Hook].adds
    BY <1>0, <2>1 DEF Running, At, Waits, Kinds, Kind
  <2>3. Exact(Hook)
    BY <1>0, <2>1, <2>2, Turn DEF OrderInv
  <2>4. NodesOf(entries) \subseteq Wanted /\ Wanted' = Wanted
    BY <2>1, <2>3 DEF Exact, At, Wanted
  <2>5. CASE Wanted = {}
    <3>1. Ends(Hook)
      BY <1>3, <2>5 DEF ReadWanted
    <3>2. QED  BY <1>0, <2>1, <2>2, <2>3, <2>4, <3>1, ExactEnds
  <2>6. CASE Wanted # {}
    <3>1. task' = [task EXCEPT ![Hook].pc = "queued", ![Hook].nodes = Wanted]
      BY <1>3, <2>6 DEF ReadWanted
    <3>2. /\ task'[Hook].pc = "queued" /\ task'[Hook].nodes = Wanted
          /\ task'[Hook].adds = task[Hook].adds /\ OthersKept(Hook)
      BY <1>0, <3>1 DEF TypeOK, TaskRecord, OthersKept
    <3>3. Exact(Hook)'
      BY <2>1, <2>2, <2>3, <2>4, <3>2 DEF Exact, Running, At, Waits, OthersKept
    <3>4. QED  BY <1>0, <3>3
  <2>7. QED  BY <2>5, <2>6
<1>4. CASE BrowseFails
  <2>1. up /\ Trouble(IF up THEN {"failure"} ELSE {})
    BY <1>4 DEF BrowseFails, Orderly
  <2>2. QED  BY <2>1, OrderTrouble
<1>5. QED  BY <1>1, <1>2, <1>3, <1>4 DEF SessionStep

\* Each step keeps the server exact, if nothing has overlapped or failed after it.
LEMMA OrderStep ==
    Shape /\ (Calm => Guarded) /\ OrderInv /\ [Next]_vars => OrderInv'
<1> SUFFICES ASSUME Shape, Calm => Guarded, OrderInv, [Next]_vars, Orderly'
             PROVE  \E t \in Tasks : Exact(t)'
  BY DEF OrderInv
<1>1. CASE SessionStep
  BY <1>1, ExactSession
<1>2. CASE ~SessionStep
  <2>1. Calm'
    BY DEF Orderly, Calm
  <2>2. Calm
    BY <1>2, <2>1, CalmBefore DEF SessionStep
  <2>3. trouble \subseteq trouble'
    BY <1>2 DEF Next, RouteStep, Register, Unregister, AddStep, AddUsesSubscription,
         AddAsksForSubscription, SubscriptionCreated, ItemsCreated, AddFails, RemoveStep,
         NothingToRemove, RemoveEntries, Unsubscribed, ServerDeletes, SubscriptionDeleted,
         vars, Trouble
  <2>4. Orderly /\ Guarded
    BY <2>2, <2>3 DEF Orderly, Calm
  <2>5. PICK w \in Tasks : Exact(w)
    BY <2>4 DEF OrderInv
  <2>6. ASSUME NEW t \in Tasks, AddStep(t) \/ RemoveStep(t)
        PROVE  \E u \in Tasks : Exact(u)'
    <3>1. Running(t)
      BY <2>6 DEF AddStep, RemoveStep, AddUsesSubscription, AddAsksForSubscription,
         SubscriptionCreated, ItemsCreated, AddFails, NothingToRemove, RemoveEntries,
         Unsubscribed, ServerDeletes, SubscriptionDeleted, Begins, At, Running
    <3>2. Exact(t)
      BY <2>5, <3>1, Turn
    <3>3. QED  BY <2>4, <2>6, <3>2, ExactAdd, ExactRemove
  <2>7. CASE UNCHANGED vars
    <3>1. Exact(w)'
      BY <2>5, <2>7
         DEF vars, routes, binding, server, Exact, Running, At, Waits, Wanted, NodesOf
    <3>2. QED  BY <3>1
  <2>8. QED  BY <1>2, <2>4, <2>6, <2>7, ExactRoute DEF Next
<1>3. QED  BY <1>1, <1>2

\* Exact with nothing under way is exactly what is wanted.
LEMMA ExactLeavesNothing == TypeOK /\ OrderInv => NothingLeftBehind
<1> SUFFICES ASSUME TypeOK, OrderInv, AtRest, trouble = {}
             PROVE  /\ Monitored \subseteq Wanted
                    /\ \A i, j \in items : i.node = j.node => i = j
                    /\ subs = {i.sub : i \in items}
                    /\ subs \subseteq {subRef}
  BY DEF NothingLeftBehind
<1>1. PICK w \in Tasks : Exact(w)
  BY DEF OrderInv, Orderly, AtRest
<1>2. task[w].pc = "idle"
  BY DEF AtRest, Running
<1>3. /\ items = entries /\ subs = {subRef} \ {None} /\ NodesOf(entries) \subseteq Wanted
      /\ \A i, j \in items : i.node = j.node => i = j
      /\ \A i \in items : i.sub = subRef
      /\ ~(subRef # None /\ entries = {})
  BY <1>1, <1>2 DEF Exact, At, Waits
<1>4. subRef = None => items = {}
  BY <1>1, ItemsHaveSub
<1>5. QED  BY <1>3, <1>4 DEF Monitored

\* When nothing has overlapped and nothing failed since the session began, the
\* server holds exactly what is wanted whenever nothing is under way: one item
\* for each wanted node, all in the recorded Subscription, which is gone with the
\* last of them.
THEOREM ServerHoldsNoMore == Spec => []NothingLeftBehind
<1>1. Init => Shape /\ (Calm => Guarded) /\ OrderInv
  <2>1. Init => ~up
    BY DEF Init
  <2>2. QED
    BY <2>1, TypeInit, SubscriptionInit, ShapeInit DEF Shape, Calm, OrderInv, Orderly
<1>2. Shape /\ (Calm => Guarded) /\ OrderInv /\ [Next]_vars
        => (Shape /\ (Calm => Guarded) /\ OrderInv)'
  BY ShapeStep, CoverStep, OrderStep
<1>3. Shape /\ OrderInv => NothingLeftBehind
  BY ExactLeavesNothing DEF Shape
<1>4. QED  BY <1>1, <1>2, <1>3, PTL DEF Spec

=============================================================================
