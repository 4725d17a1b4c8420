# A TLA+ model of the OPC UA to i3X wrapper

This directory holds TLA+ models of the server under `src/src/i3xua`, the TLC
configurations that check them on small instances, and proofs that TLAPS checks for
every value of the constants. The code is the reference: `PROJECT.json` maps every
definition to the lines it was translated from.

The program connects to one or more OPC UA servers, browses their address spaces
into in-memory registries, and serves them over the i3X HTTP API: objects, types,
values, history, and subscriptions that a client drains with `sync` or listens to
over server-sent events (SSE). Nothing is persisted: a restart forgets everything.

- [The system](#the-system): components, state, interactions, hard behaviours
- [The modules](#the-modules): what each models, and how it corresponds to the code
- [The runs](#the-runs): what is checked, with which bounds and which fairness
- [The proofs](#the-proofs)
- [What disagrees with the code's own words](#what-disagrees-with-the-codes-own-words)
- [What is not modelled](#what-is-not-modelled)
- [The plan](#the-plan)

## The system

| Component | State | Operations |
| --- | --- | --- |
| Subscription manager, `core/subscriptions.py` | per subscription: elements, a ring of samples, `next_seq`, `dropped`, the queues of its SSE listeners | `create`, `delete`, `register`, `unregister`, `push`, `push_to`, `sync`, `attach_stream`, `detach_stream` |
| SSE generator, `api/sse.py` | one queue and one generator per request | attach, take an item or a heartbeat, end at the sentinel, detach in `finally` |
| Subscription routes, `api/routes/subscriptions.py` | none | call the manager, then pass what changed to the adapter |
| i3X client, `i3x/client.py` | one number per subscription, `_sync_seq` | `create_subscription`, `delete_subscription`, `sync`, `stream`; requests without state |
| Connection, `adapters/asyncua/connection.py` | the published client and its event, the reconnect task, `_closed` | `start`, `stop`, `connection_lost`, one attempt of the loop |
| Connection binding, `adapters/asyncua/upstream.py` | `_subs_by_publish`, `_monitored`, `_wire_by_raw`, `_raw_by_wire` | `_on_connected` (browse, ship, restore), `_on_disconnected`, `add_monitored`, `remove_monitored`, `read_values`, `deliver_sample` |
| Browse, `adapters/asyncua/browse.py` and the browse source in `upstream.py` | local to one walk: queue, visited nodes, descriptors, the batch's results, counters | breadth-first walk, continuation points, retries of starved nodes, walk over types, wire ids, artificial types |
| Registries, `core/registry.py` and `_Registries` in `upstream.py` | namespaces, types by hash and by source, instances, shared by all connections | `apply_snapshot` and the reconciles it calls, `wanted_node_ids`, `fan_out` |
| History, `core/history.py` | a ring of samples per element | `append`, `latest`, `query` |
| Worker threads, `adapters/asyncua/runtime.py` | one thread and event loop per connection | `run_on`, `submit`, `stop` |
| Value, object, type, namespace and history routes | none | projections of the registries, reads through the adapter |
| Conversion and encoding, `adapters/asyncua/convert.py`, `ouajson/` | none | a value of the library to a value of the server, and that to JSON |

**How they interact.** The HTTP routes, the subscription manager, the registries and
the history run on the main event loop. Each connection has a thread with an event
loop of its own: its reconnect task, its asyncua client, its binding. Routes hand
coroutines to a worker loop with `run_on`, and the binding ships coroutines to the
main loop with `_ship_to_main` (samples, snapshots, the question what to restore).
asyncua calls back into the worker loop: `connection_lost` when its monitor finds the
session dead, `datachange_notification` for each sample.

**What is atomic.** On one loop, what happens between two awaits is atomic. The
critical sections of the manager, the registries and the history hold an
`asyncio.Lock` but await nothing inside, so the lock is never contended and the whole
method is atomic. `connection_lost` awaits only `_on_disconnected`, which awaits
nothing, so it is atomic too. What interleaves: the steps of a coroutine on a worker
loop with each other coroutine on it, the main loop with each worker loop, and the
HTTP client with everything.

**What is hard, and what correctness means there.**

- *Subscriptions.* Samples are evicted while clients sync, responses get lost, slow
  listeners fill their queues, subscriptions are deleted under their listeners. Gaps
  must be flagged, listeners must see increasing numbers and must end.
- *Connections.* `start`, `stop`, losses reported late or by old clients, and the end
  of a loop race to spin the next loop. There must be one loop and one session; a
  started connection must be looked after; `stop` must be final and must end.
- *Monitored items.* Adds, removals and the restoration after a reconnect overlap on
  the worker loop, and each keeps what it read before an await. What clients
  registered must be monitored, and nothing must be left behind on the server.
- *Registries.* Several connections rebuild parts of shared tables. None may change
  the part of another, and indexes must agree with each other.
- *Browse.* Servers have limits on continuation points; walks are retried in batches;
  element ids are derived from display names. Every node must be found once, under an
  id of its own.
- *Delivery.* Every notification becomes a task; samples must arrive once and in
  order. A read that fails falls back to what is known; it must not pass off old for
  good, nor be older than what subscriptions have already seen.
- *One client, two ways to drain.* The number a client acknowledges is advanced by its
  stream and by its poll: no sample may be acknowledged that it never got.
- *What the routes derive.* Elements are keyed by wire ids in some places and by
  NodeIds in others; what is listed must resolve, and what is read must be that node.
- *Shutdown.* Workers are stopped while coroutines are being handed to them; the
  process must end, and no request may wait for ever.

The full list, each at its line and with the properties that cover it, is under
`hazards` in `PROJECT.json`.

## The modules

| Module | Models | Checked through | Proofs |
| --- | --- | --- | --- |
| `Subscriptions` | the manager, the SSE generator, an ideal client of `sync` | `MCSubscriptions` | `SubscriptionsProofs` |
| `LossyLog` | abstract: a numbered log that flags what it forgets | refined by `Subscriptions` | |
| `I3XClient` | the repository's client on top of `Subscriptions` | itself | `I3XClientProofs` |
| `Connection` | the connection's loop, callback and `stop` | itself | `ConnectionProofs` |
| `Monitoring` | routes, binding and server: monitored items | `MCMonitoring` | `MonitoringProofs` |
| `Registry` | the shared registries and the wire/raw index | itself | `RegistryProofs` |
| `OwnedTables` | abstract: one table per owner | refined by `Registry` | |
| `InstanceWalk` | the walk over instances and the server's continuation points | `MCDiscovery` | `DiscoveryProofs` |
| `Exploration` | abstract: exploring a graph | refined by `InstanceWalk` | |
| `TypeWalk` | extends it by the walks over types and structures | `MCDiscovery` | |
| `WireIds` | extends it by the stamping of wire ids and the index | `MCDiscovery` | |
| `Discovery` | composes these into one discovery, and ships it | `MCDiscovery` | `DiscoveryProofs` |
| `ObjectModel` | what the routes make of what was shipped | `MCDiscovery` | `DiscoveryProofs` |
| `Delivery` | the two event loops: samples, reads, history, shutdown | `MCDelivery` | `DeliveryProofs` |
| `Values` | conversion, encoding and envelopes of values | `MCValues` | `ValuesProofs` |

Operators named `Mut...` are deliberate defects, used to see that a property can
fail: no specification uses them.

### Subscriptions

`phase` says whether an id is a key of `_subs`; `elements`, `ring`, `nextSeq`,
`dropped` and `streamers` are the fields of `_Subscription`, and `queue` is the
`asyncio.Queue` of each listener. Each manager method is one action. `push` and
`push_to` both use `AppendLocked`, which stamps the number, sets `dropped` when the
ring is full, appends, and offers the item to each queue. A sync is two steps: the
manager computes the response and clears the flag (`Sync`, `SyncKeyed` for v0), and
the client receives it or never does (`Receive`, `LoseReply`); a client syncs with the
highest number it has, or through v0, whose answers have none, with that or no number. A stream is admitted by the route, attached by the first step
of the generator, and detached by its `finally`; in between anything may happen, a
deletion of its subscription included. Values, timestamps and qualities are left out:
a sample is its element and its number. Heartbeats change nothing.

### Connection

`pc` is where each reconnect task is suspended: before its first step (`fresh`), in
`connect` (`connecting`), loading type definitions (`loading`), in the `on_connected`
hook (`hook`), or sleeping (`backoff`). `holds` is the client it has in hand.
`session` is what is true of each client's session: a session can die (`Drop`) long
before the monitor task of its client reports it (`MonitorFires`, which is
`connection_lost`). `stop` is split at its awaits. Channel security, identities and
the pre-connect hook keep no state of their own and are part of the attempt.

### Monitoring

`want` is what clients have registered, on the main loop. A route changes it and
hands a coroutine to the worker in one step (`Register`, `Unregister`; deleting a
subscription unregisters all it has), and the worker begins the coroutines in the
order it was handed them (`inbox`). From then on `task` is where each coroutine is
suspended and what it keeps in local variables; `entries` is the bucket in
`_monitored`, `subRef` the entry in `_subs_by_publish`. `bucket` tells whether
`remove_monitored` still has the bucket that is in `_monitored` or one that was
replaced. `subs` and `items` are what exists on the server, for the session that is
up: a loss clears them, and calls that were under way fail. The hook restores what is
wanted after each reconnect, with the same `add_monitored`.

A server may refuse any of the nodes (recorded with handle 0, as the code does), and
every call may fail. A call's effect and the resumption of its coroutine are one
step, except for `delete`, whose effect the code can observe before it resumes
(`ServerDeletes`): the effects of the others are used by nobody until then. It is
also taken that a response that arrived before a session was found dead resumes its
coroutine before `connection_lost` runs; asyncio resumes in the order of completion.

`trouble` is a history variable: the kinds of trouble since the session was last
lost. They are the conditions under which a property is claimed at all: adds that
overlap, removals that overlap anything, an element that two subscriptions share, a
call that failed on a living session.

One publishing interval is modelled: the routes never ask for another. One connection
is modelled too: `_adapter_ref_change` goes through the connections of a request one
after the other and awaits each, so only the first gets its coroutine in the step that
changes the manager, as `Submit` has it; at the others a later request can overtake.

### Registry

The keys are pairs instead of strings (`<conn>!<NodeId>`, `<uri>#connection=<name>`).
A hash is what it depends on: the NodeId and the shape of a type, not its connection,
except for the types the wrapper makes up. `Ship` is the worker's end of a browse: it
refreshes the wire/raw index and sends the snapshot off. `ApplySnapshot` is
`apply_snapshot` on the main loop. A snapshot is any set of namespaces, types and
instances with distinct wire ids and raw ids; that browsing makes the wire ids
distinct, and when not, is `WiresDistinct` below.

### InstanceWalk, TypeWalk, WireIds, Discovery

One discovery, which is what the `on_connected` hook awaits from `browse()` to the
hand-over of the snapshot. `phase` is the place in the code; `queue`, `visited` and
`out` are the local variables of `_browse_instances`, `batch`, `results`, `starved`
and `solo` those of `browse_children` and `_retry_starved`, `counters` is
`_BrowseCounters`. Every request to the server is a step; loops without an await take
a step per iteration, since nothing else looks at their variables. `results` keeps of
the references of a parent only how many have arrived: a server returns them in one
order. `world` is the server that is walked and does not change during a walk: its
graph, its names and ids, the continuation points it has (`pool`) and what it says of
them (`limits`). Which faults may happen is `Fault`: whole calls that raise, refused
parents, continuation points that are taken away, a solo retry without results, attributes, types and
names that cannot be read, and the requests that nobody guards (`WalkAborts`).

A text is a sequence of words in `WireIds`, so that concatenation can make two texts
equal, which is what the properties about ids are about. So are the names and ids of
types and the namespace URIs. The pass that takes `!` out of them comes after the
stamping and after the artificial types have been made, as in `browse()`: it reaches
the NodeIds, the types and the namespaces (`NoBang`, `WithoutBang`), but not the wire
ids and not the names that nodes have for their DataTypes.

### ObjectModel

The routes read one snapshot and change nothing, so they are operators on the state
in which the discovery has shipped: which objects are served, whose children they
are, which components a value has, which type an object claims, which types and
namespaces are listed. Every lookup is by the id the code uses at that place, NodeId
or wire id; several properties are about places where the two differ. A type is
listed under its name: that of a browsed type has been through the pass that takes out
`!`, that of a custom type, merged later, has not; `NameOf` is what the routes find
under a NodeId, and the name of an artificial type is built twice, for the list and for
the object.

### Delivery

`ready` and `posted` are what the worker loop and the main loop have to run, first
come, first served; `wire` is what the session has sent. A data change becomes a task
(`Notify`), the task ships to the main loop (`DeliverSample`), and `FanOut` appends to
the history and hands the sample to the subscriptions. A request crosses over to the
worker (`Ask`, `BeginRead`), reads its leaves one by one, any of which may fail or
time out, and is answered on the main loop, from the history where nothing was read.
`Signal`, `Drained`, `StopUpstream`, `StopPool` and `Join` are the shutdown in the
order of `cli.py`; a stopping loop cancels what is pending. A session may be lost at
any time; a new one reports the values it finds.

### Values

Each initial state is a value of a server, of one type and with one status, either
read or reported by a monitored item. Three steps take it to a response, or to an
error: `Convert` is `convert.py` (`FromUaVariant`), `MakeSample` the encoder of
`ouajson/encode.py` (`EncodeVariant`) and the sample made of its result, `Deliver` the
VQT without the Variant envelope (`StripVariant`). What raises is a result of its own,
which a list or a structure with such a part inherits; `Fails` is what a read and a
notification then leave. A read also fails when the status is not Good, which the
client library raises (`Refused`), and the whole call of the route may raise at any
time (`CallFails`). `Deliver` then puts the newest sample of the history in the place
of the empty one, as Bad and with the present time (`_read_with_fallback`): `known` is
the value it was made of, or none. An array is given by the slots that its items come
from, so that TLC can take a few small ones and the proof any.

### I3XClient

`Subscriptions` with the client of `i3x/client.py` in the place of its own: `syncSeq`
is `_sync_seq`, `transit` what a stream has sent and the client not parsed. The
response to a sync and the deletion of the number on `delete` are separate steps, as
are all events.

## The runs

| Run | Instance | Shows |
| --- | --- | --- |
| `sub_drain` | two subscriptions, one of them with lost responses and a v0 client; ring of 2, four samples | the ring holds the latest samples, gaps are flagged (`NoSilentGap`), the manager implements `LossyLog` |
| `sub_streams` | one subscription, two listeners, queue and ring of 2, three samples, lost responses | order at a listener, who is fed, which samples the client's number may pass (`NothingSkipped`), the sentinel is reached |
| `connection` | three clients, two tasks | one session, nothing after `stop`, attended until stopped; `stop` ends, the connection recovers |
| `monitoring` | two subscriptions, two nodes, two requests and the hook, one kind of trouble at a time | what is registered is monitored, nothing is left behind, the recorded Subscription exists |
| `registry` | two connections, one namespace, type, instance each, two shapes, two raw ids | types resolve to the current shape, placeholders stay, index and registry agree, tables are owned |
| `discovery` | 118 servers of six nodes, one kind of fault | nothing is missed or it is counted, honest limits suffice, wire ids are distinct, reads reach the node, the tree, the components and the types the routes serve agree; every discovery ends; the walk implements `Exploration` |
| `delivery` | two elements, one of them uncertain, one request for both, ring of 2, two changes, one loss | no sample is lost or overtaken, reads are recent, windows of the history are right, everything ends |
| `values` | thirteen types, alone, in arrays of two, matrices of 2 by 2 and 3 by 1, and structures; three values or none in the history | which values arrive without an envelope, and in which order, and what a failed read is answered with |
| `sub_full_queue`, `connection_lost_in_setup`, `monitoring_shared`, `registry_shared_type` | the smallest that show it | one violation each, see below |

**Bounds.** `MaxSeq` bounds the samples of a subscription: more than the ring and the
queue hold, so that eviction happens before, between and after syncs. Four numbers
with a ring of 2 let a ring be renewed entirely. `MaxTransit` is the number of events
of a stream on their way: one is enough for a poll to overtake it. Three clients are
one published, one
under construction and one still to report its death; a client nobody refers to is
used again as a new one, so the number of attempts is not bounded. Two tasks suffice
because one is running and one could be spun by mistake; an ended task is used again
too. `SubIds` and `Copies` are names for Subscriptions and items on the server, used
again when free: two of each let a stale and a current one exist at once. With
`MaxTroubles = 1` each kind of trouble occurs alone, any number of times; each
property of the run is claimed for at most one kind. `Symmetry` permutes
subscriptions, nodes and requests, which the module only compares, and the run has
only invariants.

In `discovery`, `PageSize = 1` makes every node with two references need a
continuation point; `DefaultParents` and `MaxParents` of 3 let a batch hold more wide
parents than the server has points (none, one or two). `MaxChildren` of 12 lets the
adaptive batch size shrink below that limit during a walk. `MaxFaults = 1` allows one kind of
fault, anywhere and any number of times. Each server differs from the others in one
respect (continuation points and limits, texts with and without separators, or
contents), as each property is about one of them; the two graphs have a cycle, several parents, a way back to the
root, and compositions within compositions. `MaxDepth = 2` is one less than the
deepest composition; depth 0, which means no bound, is among the depths.

In `delivery`, `RingSize = 2` lets a window hold two samples and the third sample of
an element evict the first; `MaxClock` and `MaxDrops` bound the changes on the server
and the sessions lost.
Two elements are needed for one to overtake the other, and for an answer with parts
from different sources.

**Deadlock.** `CHECK_DEADLOCK FALSE` is there where the system may stop: a manager
whose subscriptions are all deleted (or whose bound on samples is reached), a stopped
connection, a connection nobody reconnects, a bound on trouble that lets nothing
more happen, a discovery that has shipped, a process that has ended, and a value that
has been encoded. The registry runs check deadlock.

**Fairness.** `Subscriptions` and `I3XClient`: a listener that keeps reading has its
queue drained, since the generator is resumed whenever its queue is not empty, and
the client reads what it is sent. Nothing is assumed of producers or polls.
`Connection`: tasks and `stop` make progress, since every
request of asyncua has a timeout and its monitor notices a dead session; strong
fairness of `ConnectOk`, used only by `Recovers`, is the assumption that a server that
is asked again and again answers at last. `Discovery`: weak fairness of the next step,
as every request is answered or raises, and the walk is one coroutine. `Delivery`:
weak fairness of the worker loop and of the main loop, each of which runs what is
ready; reads end because each has a timeout. That sessions come back is not assumed
there. Stopping, losing a session, pushing and closing a stream are never assumed. `Monitoring`, `Registry` and
`Values` have no liveness properties: a removal or an add may
wait for ever for a server, and what the code promises is about rest, which `AtRest`
expresses as a condition.

## The proofs

TLAPS proves the following for every number of subscriptions, clients, nodes,
requests and connections and every ring and queue size, from the assumptions the
modules name (`SizeAssumption`, `NoneAssumption`, `NamesAssumption`,
`DeliveryAssumption`, `ValueAssumption` and those of the discovery), which TLC evaluates
on every run that uses them.

- `SubscriptionsProofs`. `TypeCorrect`. `RingCorrect`: the ring is the suffix of what
  was appended, which is inductive together with the types. `GapsFlagged`: the
  strengthening (`NothingLostUnflagged`) says that, unless the flag is up, the ring
  has lost nothing above what a reliable client has or has on its way; the flag goes
  down only when an answer takes it along. `SubscriptionsAreLogs`: each step
  of the manager is a step of `LossyLog` or stutters; `held` is an interval because
  of `RingCorrect`, so eviction forgets a prefix. `ListenersAttached` needs that
  nobody feeds a queue before its generator has attached it or after it has left
  (`Unheard`). `StreamsInOrder`: a queue is ordered because what is appended to it
  carries a number above all that were given out (`Ordered`), whatever was refused
  in between, and the sentinel comes from `delete`, after which nothing is appended.
- `ConnectionProofs`. The invariant has five parts: whose the running loop is
  (`LoopInv`), what is published (`PublishInv`), what each task has in hand
  (`TaskInv`), who an open session belongs to (`SessionInv`), and that without a loop
  there is an open session (`AttendedInv`). `OneLoop`, `OneSession`, `StopQuiesces`
  and `NeverUnattended` follow; none of them is inductive alone. That no good session
  is forgotten by `connection_lost`, which compares nothing, rests on the argument
  that an open session other than the lost one cannot exist.
- `MonitoringProofs`. `TypeCorrect`. `RecordedSubscriptionExists`: the reference is
  good because a coroutine that waits for a new Subscription waits on the session
  that is up (`CreatingIsUp`), and because there is no session and so no reference
  when a new one is made (`TryingIsDown`).
  `RegisteredIsMonitored` and `ServerHoldsNoMore` state `Coverage` and
  `NothingLeftBehind` for any number of coroutines, under the conditions the two
  properties name. For the first, each wanted node is monitored, or a restoration is
  still to ask for what is wanted, or a coroutine has yet to monitor it (`Covered`,
  `Promises`), and a removal under way, which is then alone (`Alone`), holds only what
  nobody wants (`Removing`). For the second, at most one coroutine is under way, and
  `Exact` says at each of its awaits what it will make equal when it is resumed. Both
  hold after any reconnect because nothing is recorded while there is no session
  (`DownIsEmpty`).
- `RegistryProofs`. `TypeCorrect`. `TypesResolve` and `PlaceholdersStay`, from the
  fact that every listed descriptor is in the last snapshot of its connection
  (`ListedAreCurrent`) and that a hash determines NodeId and shape. `IndexAgrees`, as
  the index is that of the snapshot on its way (`IndexFollows`). `TablesAreOwned`:
  each applied snapshot is a step of `OwnedTables`; the parts of the others are kept
  because every entry belongs to the connection in its key (`OwnsKeys`).
- `I3XClientProofs`. `OnlyExcusedAreSkipped`: whatever the client has acknowledged it
  has parsed, unless it is excused by what `NothingSkipped` names. The invariant says
  where a number is that is neither parsed nor excused: still in the ring, or in a
  response or on a stream that will bring it before a larger number can be
  acknowledged (`Drained`: `Passed`, `Answered`, `Below`, `Brings`).
  `ClientStreamsInOrder` repeats `StreamInOrder` and `ListenerAttached` for this
  client: its steps on the manager are those of `Subscriptions`.
- `DiscoveryProofs`, for every server, page size, batch limit and number of faults. The invariant has two layers. `InHand` describes the walk in
  each phase: the types, what has arrived of each result (`Arrived`), what the
  variables of a batch hold in which phase (`Phased`), and which nodes still have to
  be dealt with (`Due`). Upon it rest four arguments:
  - `LossesAreCounted`: every node the code has learned of is in the queue, in the
    batch at hand, or dealt with, and what is dealt with has all its children in
    `visited` unless a counter has moved (`Accounted`: pages are kept, continuations
    followed, the prefix up to the cursor visited, no parent forgotten).
  - `NothingIsMissed`: without faults, and with a continuation point to be had, no
    counter of losses moves, because a retry that asks for one parent alone is
    never starved (`Unhurt`).
  - `HonestLimitsDo`: a batch is never larger than the limit that was discovered,
    which is at most the number of points, so no answer in a batch is starved
    (`Sized`).
  - `WiresAreDistinct`: a wire id without `#` was not taken when it was given, and one
    with it ends in the NodeId, which is unique; the first `#` splits such a text in
    only one way (`MarkSplits`).
  - `ReadsReachTheNode` and `RelatedAreTheTree`: every node has one row, after that of
    its parent, and is stamped with the parent's wire id and one of its own that is a
    path or a NodeId, marked if it had to be (`Recorded`: `RowsInOrder`, `Traced`,
    `Written`, `AllStamped`); as wire ids are distinct, the index leads from a wire id
    back to the node of its row. The proof
    needs that no path reads like a NodeId (`PathsAreNoIds`), which the code does not
    check; the run has a server with such names.
  - `ComponentsAreComplete`: where every NodeId below a node is its wire id, one level
    of the routes' recursion is one level of the tree (`LevelFound`). Both recursions
    are over the depth; that each has a solution is shown by iterating its step
    (`Iterates`), and that they agree at every depth by looking at the least depth at
    which they would not. It ends because a component comes after its parent among
    the rows.
  - `ReferencesResolve`: the types found so far and those still to be browsed contain
    the subtypes of every type that was browsed (`TypesFollowed`), so when none is
    left every type that the walk can reach is listed; only nodes of allowed
    namespaces have rows (`RowsAllowed`); and the artificial type of a shape is made
    of the first node that has it, whose schema is that of all others because a shape
    names it (`ShapeTellsSchema`, for which no type may go by another's name). The
    name an object has for its type is the one that is listed because both have been
    through the same pass (`NamesAreListed`), or there was nothing to take out
    (`FreeOfBang`).

  Four of these properties are about what the routes answer when a browse is done;
  upon `Shipped`, which says so, `Snapshots` gives all that was recorded on the way.

  `WalkExplores`: only `BrowseRoot` and `VisitChild` change `visited`, and the child
  is one that the parent, which is in `visited`, refers to. `DiscoveryTypes` carries
  the types through the later phases, which leave the walk's variables alone.

- `DeliveryProofs`, for any number of elements, requests and leaves, any ring size and
  any number of changes and losses. `TypeCorrect`. `ReadsAreRecent`: samples stay in
  order through the wire and both loops (`InLine`), so that one on its way is no older
  than the last of the history (`Current`), and what is known of an element never
  grows old (`CurrentStep`), not even when a ring turns over or a shutdown drops
  deliveries; what a request saw when it was made is then a lower bound of anything it
  is answered with (`Asked`). The new session's first reports and the read of a leaf
  take the server's value, which is the newest there is.
  `NothingIsOvertaken` states `InTransit`: for each element the queues of the two
  loops bear consecutive pieces of what was notified, the main loop's first, and what
  was fanned out ends where they begin. A task moves from the head of one queue to
  the tail of the other, so the pieces stay adjacent. The pieces are compared by
  counting the deliveries up to a place in a queue (`DeliveriesAppend`,
  `DeliveriesTail`), not by filtering it, which would be a recursion.
  `HistoryIsRecent` states `HistoryAnswers`: slot by slot the ring holds the last
  samples of its element in order (`RingIsRecent`), so a window is a set of slots;
  where the texts of the timestamps compare as the times do, the bounds of the window
  on texts are those on times.

- `ValuesProofs`, for arrays and matrices of any size, any payloads and structures of
  any fields. `ValuesArriveNaked`: item by item the encoding raises for exactly the
  values that `Unencodable` names and carries all others (`ItemEncodes`,
  `MatrixItemEncodes`, `StructureEncodes`); a list raises when an item does
  (`AllOrRaised`), and a matrix is flattened before it is encoded, so that what
  arrives has the order of its rows (`FlatRows`, `FlatSingles`: the recursion of the
  library's `FlattenSeq`, by the least row at which it would go wrong). This is said
  of any value (`ValueMade`), and so both of the one that is read and of the one the
  history has when the read fails (`Inv` tells the two apart: `Failed`). The
  assumption on the fields is that they hold what asyncua presents, none of the
  program's own objects.

**Only model-checked.** Every safety invariant that a passing run checks is proved.
The liveness properties are not: fairness and ENABLED are out of the prover's reach.
That a run reaches the interesting cases is for TLC too, and so are the runs that end
in a violation.

## What disagrees with the code's own words

Each of these is a run whose counterexample shows what the code does:

- `sub_full_queue`: a listener with a full queue is not told that its subscription was
  deleted, drains its backlog and then waits for ever.
- `connection_lost_in_setup`: a session that dies while `_connect_once` is still at
  work, the whole browse included, is not replaced: `connection_lost` finds the old
  loop running and spins none, and then that loop ends. `NeverUnattended` and
  `Recovers` are claimed, and proved or checked, for all other losses.
- `monitoring_shared`: monitored items are not reference counted. An element that two
  subscriptions registered stops being monitored when the first unregisters it.
- `registry_shared_type`: the hash of a type does not contain the connection, so a
  type that two servers define alike is listed only for the one browsed last.

Some more became clear while modelling. They are conditions of the properties, where
the modules name them, and not runs of their own:

- *Subscriptions.* A response that is lost takes the `dropped` flag with it, so the
  next one hides the gap; `NoSilentGap` is claimed for clients that lose nothing. The
  repository's client never looks at the flag: `_request` returns the result alone.
  The comment at `core/subscriptions.py:187` has slow listeners recover "via
  /subscriptions/sync"; the client's stream events advance the number its syncs
  acknowledge, so what a full queue refused is never asked for again, and neither is
  what was in the ring before the stream was opened. `NothingSkipped` says that
  nothing else is passed over.
- *Monitored items.* Overlapping adds create two Subscriptions, and one is forgotten
  (`NothingLeftBehind` excludes it); a failed add is answered with 200.
- *Discovery.* A first Browse that raises is an empty answer that no counter shows
  (`upstream.py:540`), while a BrowseNext or a solo retry that raises ends the whole
  browse. What a solo retry brings of a parent still starved is logged as "partial
  result kept", but `browse_children` skips results that are not good; one that comes
  back refused counts as recovered.
- *Ids.* Wire ids are made before `!` is taken out of NodeIds, which makes the NodeId
  sent to the server another one and may make two equal. A display name with a `#`
  can equal a disambiguated id. Wire ids depend on the order in which the server
  returns references, and so may name another node after a reconnect. The default root
  `ns=0;i=85` is found again as `i=85` through any reference back to it, and its
  children are listed under neither elementId. A root can also be named by a path that
  reads like the NodeId of another node, which a read by that NodeId then reaches
  instead: `PathsAreNoIds` is the condition of `ReadsReachNode` that excludes it, found
  while proving it.
- *Routes.* `_leaf_variable_ids` (`values.py:175`, `:187`) and `_build_instance`
  (`objects.py:66`) use the raw NodeId where the registry has the wire id: leaves of
  nodes with numeric ids drop out of compositions, and a parent with one is not found,
  so that an artificial type is claimed that the browse did not collect. Where an
  allowlist hides the parent, `parentId` is the NodeId of an object that is not listed.
- *Types.* `_types_by_source` is keyed by NodeId across connections. A rank below -1
  gets the name of a matrix and the schema of a scalar. A DataType whose name cannot
  be read goes by one made of its NodeId, which nothing keeps from being the name of
  another: then one artificial type stands for both. Two names may also become one
  when `!` is taken out. The pass that takes it out, because `!` is the separator of
  elementIds (`browse.py:818`), reaches neither the wire ids, made of display names, nor
  the names of the nodes' DataTypes, of which `to_object_instance` makes a
  `typeElementId` again: with a DataType `My!Type` an object refers to an artificial
  type that is listed as `My-Type...`. `ObjectsResolve` is claimed for objects whose
  DataType has no `!` in its name (`NamedAlike`), and that their type has the schema of
  their values only where names stay distinct (`LabelsDistinct`).
- *Values.* Matrices of NodeIds, texts and status codes raise in `convert.py`; nested
  Variants, DataValues and DiagnosticInfo raise in `encode.py`; structures in a matrix
  pass through as they are; an unknown type becomes null. A value that raises is
  answered as Bad when read, with the newest value of the history if there is one, but
  a notification that carries it is lost. A value whose status is not Good arrives by a
  notification and never by a read. A DataValue without a value is not modelled.
- *History.* Timestamps are compared as text, and a whole second is written without a
  fraction: `...:00Z` is greater than `...:00.5Z`. `HistoryAnswers` is claimed for
  windows this does not touch.
- *Shutdown.* An open SSE response keeps uvicorn, and so the process, from ending
  until its client leaves.

## What is not modelled

The formats of JSON and of OPC UA encodings, JSON schemas of types (but whether they
are of arrays), localised texts, access levels, settings, certificates, the parsing
of requests and envelopes of responses, and the v0 form of the client: data no
property here depends on. The admin routes only read, but for a refresh that does
nothing, and a report that is a process of its own. `tools/andon_report.py` is a
report generator beside the server. `TypeRegistry.reconcile`,
`SnapshotRegistry.replace` and `replace_sync`, and `SubscriptionSession` are used by
tests only. Threads are started once, before
anything is handed to them; `ThreadPool.start` is therefore not an action of
`Delivery`. A server that changes during a browse is not considered: the code has no
means to notice.

## The plan

1. A composition of `Connection`, `Monitoring` and `Delivery`, so that the session of
   the one is the session of the others, with `Connection` implementing the small
   session machine that both now assume.
2. Proofs: the refinement of that session machine; the registry of `Registry` fed by
   what `Discovery` ships, so that `IndexAgrees` and `WiresAreDistinct` meet.
