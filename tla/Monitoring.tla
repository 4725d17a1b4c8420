----------------------------- MODULE Monitoring -----------------------------
(***************************************************************************)
(* How the elements registered by i3X clients become MonitoredItems on an  *)
(* OPC UA server, for one connection and one publishing interval: the      *)
(* subscription routes (api/routes/subscriptions.py), which run on the     *)
(* main loop, and the connection binding (adapters/asyncua/upstream.py),   *)
(* whose coroutines interleave at their awaits on the worker's loop.       *)
(*                                                                         *)
(* The OPC UA server and asyncua are external: a call on the session that  *)
(* is up succeeds or fails, one on a session that is gone only fails.      *)
(***************************************************************************)
EXTENDS Integers, Sequences, FiniteSets

CONSTANTS
    Subs,           \* i3X subscriptions
    Nodes,          \* nodes of this connection
    Requests,       \* route handlers that may be under way at the same time
    Hook,           \* the on_connected hook, which restores monitored items
    SubIds,         \* bound: asyncua Subscription objects
    Copies,         \* bound: MonitoredItems for one node in one Subscription
    MaxTroubles,    \* bound: kinds of trouble that may come together
    None

ASSUME NamesAssumption == Hook \notin Requests /\ None \notin SubIds

Tasks == Requests \cup {Hook}

VARIABLES
    want,           \* the elements of each i3X subscription, on this connection
    task,           \* the coroutines under way for the requests and for the hook
    inbox,          \* requests handed to the worker's loop and not yet begun
    subRef,         \* _subs_by_publish[publishing_ms]
    entries,        \* the bucket _monitored[publishing_ms]; none counts as empty
    up,             \* does the connection have a session?
    loop,           \* the reconnect loop: trying, in the hook, or over
    subs,           \* server: the Subscriptions of the session
    items,          \* server: their MonitoredItems
    trouble         \* history: what has happened since the session was last lost

routes == <<want>>
binding == <<subRef, entries>>
server == <<subs, items>>
vars == <<routes, task, inbox, binding, up, loop, server, trouble>>

\* A MonitoredItem, which also stands for its handle.
Item == [node : Nodes, sub : SubIds, copy : Copies]

\* The handle 0 that stands for an item the server refused.
Refused(n) == [node |-> n, sub |-> None, copy |-> 0]

Handle == Item \cup {Refused(n) : n \in Nodes}

NodesOf(handles) == {h.node : h \in handles}

Wanted == UNION {want[s] : s \in Subs}

\* `bucket` is the local variable of remove_monitored: the bucket `entries`, or
\* one that is no longer in _monitored, and whose content no longer changes.
Idle == [pc |-> "idle", adds |-> TRUE, nodes |-> {}, sub |-> None,
         bucket |-> "none", drop |-> {}]

Running(t) == task[t].pc # "idle"

At(t, label) == task[t].pc = label

\* What a coroutine that begins now has to share the worker with.
Overlap(adds) ==
    LET others == {t \in Tasks : Running(t)}
    IN  IF others = {} THEN {}
        ELSE IF adds /\ \A t \in others : task[t].adds THEN {"adds"} ELSE {"removal"}

Trouble(kinds) ==
    /\ trouble' = trouble \cup kinds
    /\ Cardinality(trouble') <= MaxTroubles

-----------------------------------------------------------------------------
Init ==
    /\ want = [s \in Subs |-> {}]
    /\ task = [t \in Tasks |-> Idle]
    /\ inbox = <<>>
    /\ subRef = None
    /\ entries = {}
    /\ up = FALSE
    /\ loop = "trying"
    /\ subs = {}
    /\ items = {}
    /\ trouble = {}

-----------------------------------------------------------------------------
(* The routes.  The manager is updated and the coroutine handed to the     *)
(* worker with no suspension in between, at the first connection of the    *)
(* request; the worker begins the coroutines it was handed in order.       *)

Submit(t, adds, nodes) ==
    /\ ~Running(t)
    /\ task' = [task EXCEPT ![t] = [Idle EXCEPT !.pc = "queued", !.adds = adds,
                                                !.nodes = nodes]]
    /\ inbox' = Append(inbox, t)

\* _register: only what is new to the subscription is passed on.
Register(s, E, t) ==
    /\ E \ want[s] # {}
    /\ want' = [want EXCEPT ![s] = @ \cup E]
    /\ Submit(t, TRUE, E \ want[s])
    /\ Trouble(Overlap(TRUE))
    /\ UNCHANGED <<binding, up, loop, server>>

\* _unregister, and delete, which passes on all elements of the subscription:
\* what was really removed from it is passed on.
Unregister(s, E, t) ==
    LET removed == E \cap want[s]
        shared == removed \cap UNION {want[r] : r \in Subs \ {s}}
    IN  /\ removed # {}
        /\ want' = [want EXCEPT ![s] = @ \ E]
        /\ Submit(t, FALSE, removed)
        /\ Trouble(Overlap(FALSE) \cup (IF shared # {} THEN {"shared"} ELSE {}))
        /\ UNCHANGED <<binding, up, loop, server>>

-----------------------------------------------------------------------------
(* add_monitored.                                                          *)

\* A coroutine begins when its turn has come; the hook goes on at once.
Begins(t) ==
    /\ At(t, "queued")
    /\ IF t = Hook THEN UNCHANGED inbox
       ELSE inbox # <<>> /\ Head(inbox) = t /\ inbox' = Tail(inbox)

\* Mutant: a coroutine that has ended is still taken for one under way.
MutEnds(t) ==
    /\ task' = [task EXCEPT ![t].pc = "ended"]
    /\ loop' = IF t = Hook THEN "over" ELSE loop

\* The coroutine t returns, or raises: the routes and the hook swallow errors.
Ends(t) ==
    /\ task' = [task EXCEPT ![t] = Idle]
    /\ loop' = IF t = Hook THEN "over" ELSE loop

\* The nodes still without an entry.
Missing(nodes) == nodes \ NodesOf(entries)

\* Mutant: nodes already monitored are subscribed again.
MutSubscribe(t, sub) ==
    /\ task' = [task EXCEPT ![t].pc = "subscribing", ![t].sub = sub]
    /\ UNCHANGED loop

\* From the check for existing entries to the await of subscribe_data_change.
Subscribe(t, sub) ==
    LET new == Missing(task[t].nodes)
    IN  IF new = {} THEN Ends(t)
        ELSE /\ task' = [task EXCEPT ![t].pc = "subscribing", ![t].sub = sub,
                                     ![t].nodes = new]
             /\ UNCHANGED loop

\* There is a Subscription already.
AddUsesSubscription(t) ==
    /\ task[t].adds
    /\ Begins(t)
    /\ subRef # None
    /\ Subscribe(t, subRef)
    /\ UNCHANGED <<routes, binding, up, server, trouble>>

\* There is none, and it is asked for, if there is a client to ask.
AddAsksForSubscription(t) ==
    /\ task[t].adds
    /\ Begins(t)
    /\ subRef = None
    /\ IF up
       THEN task' = [task EXCEPT ![t].pc = "creating"] /\ UNCHANGED loop
       ELSE Ends(t)
    /\ UNCHANGED <<routes, binding, up, server, trouble>>

\* Stands for a newly made Subscription.
FreshSub(i) ==
    /\ i \notin subs
    /\ \A t \in Tasks : task[t].sub # i
    /\ \A h \in entries : h.sub # i

\* create_subscription returned.
SubscriptionCreated(t) ==
    /\ At(t, "creating")
    /\ \E i \in SubIds : FreshSub(i)
    /\ LET i == CHOOSE j \in SubIds : FreshSub(j) IN
        /\ subs' = subs \cup {i}
        /\ subRef' = i
        /\ Subscribe(t, i)
    /\ UNCHANGED <<routes, inbox, entries, up, items, trouble>>

\* setdefault, then an entry for every handle.
Record(handles) ==
    entries' = {h \in entries : h.node \notin NodesOf(handles)} \cup handles

\* A copy number for an item that nothing refers to.
FreeCopy(n, i) ==
    {k \in Copies : [node |-> n, sub |-> i, copy |-> k] \notin items \cup entries}

\* subscribe_data_change returned.  The server may have refused some nodes.
ItemsCreated(t) ==
    LET sub == task[t].sub
    IN  /\ At(t, "subscribing")
        /\ sub \in subs
        /\ \E refused \in SUBSET task[t].nodes :
            LET accepted == task[t].nodes \ refused
                made == {[node |-> n, sub |-> sub,
                          copy |-> CHOOSE k \in FreeCopy(n, sub) : TRUE] : n \in accepted}
            IN  /\ \A n \in accepted : FreeCopy(n, sub) # {}
                /\ items' = items \cup made
                /\ Record(made \cup {Refused(n) : n \in refused})
                /\ Trouble(IF refused = {} THEN {} ELSE {"failure"})
        /\ Ends(t)
        /\ UNCHANGED <<routes, inbox, subRef, up, subs>>

\* The awaited call of an add failed.
AddFails(t) ==
    /\ task[t].adds
    /\ task[t].pc \in {"creating", "lost", "subscribing"}
    /\ Ends(t)
    /\ Trouble(IF At(t, "creating") \/ task[t].sub \in subs THEN {"failure"} ELSE {})
    /\ UNCHANGED <<routes, inbox, binding, up, server>>

-----------------------------------------------------------------------------
(* remove_monitored.                                                       *)

HasEntries == subRef # None /\ entries # {}

\* The early returns: no Subscription, or no entry at all.
NothingToRemove(t) ==
    /\ ~task[t].adds
    /\ Begins(t)
    /\ ~HasEntries
    /\ Ends(t)
    /\ UNCHANGED <<routes, binding, up, server, trouble>>

\* The entries are popped, and their items unsubscribed if there are any.
RemoveEntries(t) ==
    /\ ~task[t].adds
    /\ Begins(t)
    /\ HasEntries
    /\ LET drop == {h \in entries : h.node \in task[t].nodes}
       IN  /\ entries' = entries \ drop
           /\ IF drop = {} THEN Ends(t)
              ELSE /\ task' = [task EXCEPT ![t] =
                        [Idle EXCEPT !.pc = "unsubscribing", !.adds = FALSE, !.sub = subRef,
                                     !.bucket = "current", !.drop = drop]]
                   /\ UNCHANGED loop
    /\ UNCHANGED <<routes, subRef, up, server, trouble>>

\* The local variables `bucket` of the coroutines T when _monitored forgets its
\* bucket.
Forgotten(T) ==
    [t \in Tasks |->
        IF t \in T /\ task[t].bucket = "current"
        THEN [task[t] EXCEPT !.bucket = IF entries = {} THEN "old, empty" ELSE "old"]
        ELSE task[t]]

\* Is the bucket of remove_monitored empty?
LeftEmpty(t) == IF task[t].bucket = "current" THEN entries = {}
                ELSE task[t].bucket = "old, empty"

\* A bucket left empty: whatever bucket is there now is forgotten, and the
\* Subscription deleted.
TearDownIfEmpty(t) ==
    IF LeftEmpty(t)
    THEN /\ task' = [Forgotten(Tasks \ {t}) EXCEPT ![t] =
                    [Idle EXCEPT !.pc = "deleting", !.adds = FALSE, !.sub = task[t].sub]]
         /\ entries' = {}
         /\ UNCHANGED loop
    ELSE Ends(t) /\ UNCHANGED entries

\* unsubscribe returned or failed; errors are logged.
Unsubscribed(t) ==
    /\ At(t, "unsubscribing")
    /\ \/ items' = items \ task[t].drop /\ UNCHANGED trouble
       \/ /\ UNCHANGED items
          /\ Trouble(IF task[t].sub \in subs THEN {"failure"} ELSE {})
    /\ TearDownIfEmpty(t)
    /\ UNCHANGED <<routes, inbox, subRef, up, subs>>

\* The server carries out a delete, before the coroutine that waits for it resumes.
ServerDeletes(t) ==
    LET sub == task[t].sub
    IN  /\ At(t, "deleting")
        /\ sub \in subs
        /\ subs' = subs \ {sub}
        /\ items' = {i \in items : i.sub # sub}
        /\ UNCHANGED <<routes, task, inbox, binding, up, loop, trouble>>

\* delete returned or failed.  Whatever Subscription is there now is forgotten.
SubscriptionDeleted(t) ==
    /\ At(t, "deleting")
    /\ subRef' = None
    /\ Ends(t)
    /\ Trouble(IF task[t].sub \in subs THEN {"failure"} ELSE {})
    /\ UNCHANGED <<routes, inbox, entries, up, server>>

-----------------------------------------------------------------------------
(* The session.                                                            *)

\* The reconnect loop has a session, and awaits the hook.
Reconnect ==
    /\ loop = "trying"
    /\ loop' = "hook"
    /\ up' = TRUE
    /\ task' = [task EXCEPT ![Hook] = [Idle EXCEPT !.pc = "browsing"]]
    /\ Trouble(Overlap(TRUE))
    /\ UNCHANGED <<routes, inbox, binding, server>>

\* Mutant: the Subscription survives the session.
MutForget == entries' = {} /\ UNCHANGED subRef

\* _on_disconnected
Forget == subRef' = None /\ entries' = {}

\* connection_lost.  A new loop is spun, unless one is running: the one whose
\* hook has not returned.  A call under way on the old session will fail.
ConnectionLost ==
    /\ up
    /\ up' = FALSE
    /\ loop' = IF loop = "over" THEN "trying" ELSE loop
    /\ Forget
    /\ subs' = {}
    /\ items' = {}
    /\ task' = [t \in Tasks |-> IF At(t, "creating") THEN [task[t] EXCEPT !.pc = "lost"]
                                ELSE Forgotten(Tasks)[t]]
    /\ trouble' = {}
    /\ UNCHANGED <<routes, inbox>>

\* Mutant: only what the first subscription wants is restored.
MutReadWanted ==
    /\ At(Hook, "browsing")
    /\ \E s \in Subs : task' = [task EXCEPT ![Hook].pc = "queued", ![Hook].nodes = want[s]]
    /\ UNCHANGED <<routes, inbox, binding, up, loop, server, trouble>>

\* The browse is over and the main loop is asked what to restore.
ReadWanted ==
    /\ At(Hook, "browsing")
    /\ IF Wanted = {} THEN Ends(Hook)
       ELSE /\ task' = [task EXCEPT ![Hook].pc = "queued", ![Hook].nodes = Wanted]
            /\ UNCHANGED loop
    /\ UNCHANGED <<routes, inbox, binding, up, server, trouble>>

\* The browse failed, and the hook returns early.
BrowseFails ==
    /\ At(Hook, "browsing")
    /\ Ends(Hook)
    /\ Trouble(IF up THEN {"failure"} ELSE {})
    /\ UNCHANGED <<routes, inbox, binding, up, server>>

-----------------------------------------------------------------------------
RouteStep ==
    \E s \in Subs, E \in (SUBSET Nodes) \ {{}}, t \in Requests :
        Register(s, E, t) \/ Unregister(s, E, t)

AddStep(t) ==
    \/ AddUsesSubscription(t) \/ AddAsksForSubscription(t) \/ SubscriptionCreated(t)
    \/ ItemsCreated(t) \/ AddFails(t)

RemoveStep(t) ==
    \/ NothingToRemove(t) \/ RemoveEntries(t) \/ Unsubscribed(t)
    \/ ServerDeletes(t) \/ SubscriptionDeleted(t)

SessionStep == Reconnect \/ ConnectionLost \/ ReadWanted \/ BrowseFails

Next == RouteStep \/ SessionStep \/ \E t \in Tasks : AddStep(t) \/ RemoveStep(t)

Spec == Init /\ [][Next]_vars

-----------------------------------------------------------------------------
(* Properties.                                                             *)

TaskRecord ==
    [pc : {"idle", "queued", "creating", "lost", "subscribing", "unsubscribing",
           "deleting", "browsing"},
     adds : BOOLEAN, nodes : SUBSET Nodes, sub : SubIds \cup {None},
     bucket : {"none", "current", "old", "old, empty"}, drop : SUBSET Handle]

TypeOK ==
    /\ want \in [Subs -> SUBSET Nodes]
    /\ task \in [Tasks -> TaskRecord]
    /\ inbox \in Seq(Requests)
    /\ subRef \in SubIds \cup {None}
    /\ entries \in SUBSET Handle
    /\ up \in BOOLEAN
    /\ loop \in {"trying", "hook", "over"}
    /\ subs \in SUBSET SubIds
    /\ items \in SUBSET Item
    /\ trouble \in SUBSET {"adds", "removal", "shared", "failure"}

\* Nothing is under way, and there is a session.
AtRest == up /\ \A t \in Tasks : ~Running(t)

Monitored == NodesOf(items)

\* Every registered element is monitored whenever nothing is under way, however
\* adds interleaved with one another and with the restoration, and after any
\* reconnect whatever happened before it: provided that since then no removal
\* overlapped anything, no element was unregistered that another subscription
\* still wants, and no call failed on a living session.
Coverage ==
    AtRest /\ trouble \subseteq {"adds"} => Wanted \subseteq Monitored

\* With no overlap at all the server holds exactly what is wanted: one item per
\* wanted node, all in one Subscription, which is gone with the last of them.
NothingLeftBehind ==
    AtRest /\ trouble = {} =>
        /\ Monitored \subseteq Wanted
        /\ \A i, j \in items : i.node = j.node => i = j
        /\ subs = {i.sub : i \in items}
        /\ subs \subseteq {subRef}

\* The Subscription the binding would use for the next add exists on the server,
\* even when removals overlap adds, reconnects or one another, and whatever
\* fails: except while the removal that deletes it is waiting for the answer.
SubscriptionExists ==
    subRef # None =>
        /\ up
        /\ subRef \in subs \/ \E t \in Tasks : At(t, "deleting") /\ task[t].sub = subRef

\* "A MonitoredItem is created on first add and destroyed on last remove": an
\* element somebody still wants stays monitored.
Refcounted ==
    AtRest /\ trouble \subseteq {"shared"} => Wanted \subseteq Monitored

=============================================================================
