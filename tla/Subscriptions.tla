--------------------------- MODULE Subscriptions ---------------------------
(***************************************************************************)
(* The i3X subscription manager (core/subscriptions.py), the SSE generator *)
(* that drains its stream queues (api/sse.py), and the HTTP client that    *)
(* drains a ring with `sync`.                                              *)
(*                                                                         *)
(* Everything here runs on one asyncio loop.  The critical sections of the *)
(* manager hold their asyncio.Lock without awaiting anything, so acquiring *)
(* it never suspends and each method is a single atomic action.  What can  *)
(* interleave are the methods: between the existence check of a stream     *)
(* route and the first step of its generator, between two items of a       *)
(* stream, between a sync and the arrival of its response.                 *)
(***************************************************************************)
EXTENDS Integers, Sequences

CONSTANTS
    Subs,           \* subscription ids; a random token is never issued twice
    Elements,       \* elementIds
    Streams,        \* SSE requests
    RingSize,       \* registry.subscription_ring_size
    QueueSize,      \* maxsize of a stream queue
    MaxSeq,         \* bound: samples appended to one subscription
    LossySubs,      \* subscriptions whose client may lose the response to a sync
    KeyedSubs       \* subscriptions that are also drained through the v0 API

ASSUME SizeAssumption ==
    /\ RingSize \in Nat \ {0}       \* Field(ge=1) in settings.py
    /\ QueueSize \in Nat \ {0}
    /\ MaxSeq \in Nat
    /\ LossySubs \subseteq Subs
    /\ KeyedSubs \subseteq Subs

VARIABLES
    phase,          \* "unused", then a key of _subs ("live"), then popped ("deleted")
    elements,       \* _Subscription.elements
    ring,           \* _Subscription.ring
    nextSeq,        \* _Subscription.next_seq
    dropped,        \* _Subscription.dropped
    streamers,      \* _Subscription.streamers
    queue,          \* the asyncio.Queue of each stream
    stream,         \* progress of each SSE request
    target,         \* the subscription a stream was opened for
    yielded,        \* sequence number of the last item a stream has sent
    seen,           \* number of the newest item the client has (0: nothing yet)
    reply           \* the sync response under way to the client

manager == <<phase, elements, ring, nextSeq, dropped, streamers>>
sse == <<queue, stream, target, yielded>>
client == <<seen, reply>>
vars == <<manager, sse, client>>

Seqs == 1 .. MaxSeq
Item == [elementId : Elements, sequenceNumber : Seqs]

\* _STREAM_END: the sentinel that makes a listener leave its loop.
StreamEnd == [elementId |-> "none", sequenceNumber |-> 0]

\* Mutant: numbering starts at 0.
MutFirstSeq == 0

\* The number of the first sample of a subscription.
FirstSeq == 1

NoReply == [items |-> {}, dropped |-> FALSE, pending |-> FALSE]

Live(s) == phase[s] = "live"

-----------------------------------------------------------------------------
(* Rings and queues.                                                       *)

\* Mutant: the oldest item is kept and the new one lost when the ring is full.
MutRingAppend(r, item) == IF Len(r) < RingSize THEN Append(r, item) ELSE r

\* deque(maxlen=ring_size).append
RingAppend(r, item) ==
    IF Len(r) = RingSize THEN Append(Tail(r), item) ELSE Append(r, item)

\* put_nowait with QueueFull suppressed
Offer(q, item) ==
    IF Len(q) < QueueSize THEN Append(q, item) ELSE q

\* The items of the ring after number `last`.  A missing number selects the whole
\* ring, as 0 does: numbering starts at 1.  A response lists them in the order of
\* the ring, which is that of their numbers (RingIsRecentSuffix).
After(r, last) == {r[i] : i \in {j \in DOMAIN r : r[j].sequenceNumber > last}}

-----------------------------------------------------------------------------
Init ==
    /\ phase = [s \in Subs |-> "unused"]
    /\ elements = [s \in Subs |-> {}]
    /\ ring = [s \in Subs |-> <<>>]
    /\ nextSeq = [s \in Subs |-> FirstSeq]
    /\ dropped = [s \in Subs |-> FALSE]
    /\ streamers = [s \in Subs |-> {}]
    /\ queue = [t \in Streams |-> <<>>]
    /\ stream = [t \in Streams |-> "idle"]
    /\ target \in [Streams -> Subs]
    /\ yielded = [t \in Streams |-> 0]
    /\ seen = [s \in Subs |-> 0]
    /\ reply = [s \in Subs |-> NoReply]

-----------------------------------------------------------------------------
(* The subscription manager.                                               *)

Create(s) ==
    /\ phase[s] = "unused"
    /\ phase' = [phase EXCEPT ![s] = "live"]
    /\ UNCHANGED <<elements, ring, nextSeq, dropped, streamers, sse, client>>

\* Mutant: the listeners are told, but the subscription stays until a second call.
MutDelete(s) ==
    /\ Live(s)
    /\ queue' = [t \in Streams |->
                    IF t \in streamers[s] THEN Offer(queue[t], StreamEnd) ELSE queue[t]]
    /\ UNCHANGED <<manager, stream, target, yielded, client>>

\* Pops the subscription and offers the sentinel to every attached listener.
Delete(s) ==
    /\ Live(s)
    /\ phase' = [phase EXCEPT ![s] = "deleted"]
    /\ queue' = [t \in Streams |->
                    IF t \in streamers[s] THEN Offer(queue[t], StreamEnd) ELSE queue[t]]
    /\ UNCHANGED <<elements, ring, nextSeq, dropped, streamers,
                   stream, target, yielded, client>>

Register(s, E) ==
    /\ Live(s)
    /\ elements' = [elements EXCEPT ![s] = @ \cup E]
    /\ UNCHANGED <<phase, ring, nextSeq, dropped, streamers, sse, client>>

Unregister(s, E) ==
    /\ Live(s)
    /\ elements' = [elements EXCEPT ![s] = @ \ E]
    /\ UNCHANGED <<phase, ring, nextSeq, dropped, streamers, sse, client>>

\* The item made of a sample.
Stamp(s, e) == [elementId |-> e, sequenceNumber |-> nextSeq[s]]

\* Mutant: the length is compared after the append, when it is back in bounds.
MutEvicts(s) == Len(ring[s]) > RingSize

\* Does the next append evict the oldest item?
Evicts(s) == Len(ring[s]) = RingSize

\* _append_locked for every subscription of the set `hit`, in one step.
AppendLocked(hit, e) ==
    /\ \A s \in hit : nextSeq[s] <= MaxSeq
    /\ nextSeq' = [s \in Subs |-> IF s \in hit THEN nextSeq[s] + 1 ELSE nextSeq[s]]
    /\ dropped' = [s \in Subs |-> dropped[s] \/ (s \in hit /\ Evicts(s))]
    /\ ring' = [s \in Subs |->
                    IF s \in hit THEN RingAppend(ring[s], Stamp(s, e)) ELSE ring[s]]
    /\ queue' = [t \in Streams |->
                    IF target[t] \in hit /\ t \in streamers[target[t]]
                    THEN Offer(queue[t], Stamp(target[t], e))
                    ELSE queue[t]]
    /\ UNCHANGED <<phase, elements, streamers, stream, target, yielded, client>>

\* Fan-out of a sample to every subscription registered for its element.
Push(e) == AppendLocked({s \in Subs : Live(s) /\ e \in elements[s]}, e)

\* Targeted delivery, whether or not the subscription registered the element.
PushTo(s, e) == Live(s) /\ AppendLocked({s}, e)

-----------------------------------------------------------------------------
(* Draining the ring: the route, the network and the client.               *)

\* SubscriptionManager.sync, and what the route makes of its result: the flag
\* is cleared whatever becomes of the response.
Answer(s, items, flag) ==
    /\ Live(s)
    /\ ~reply[s].pending
    /\ reply' = [reply EXCEPT ![s] = [items |-> items, dropped |-> flag, pending |-> TRUE]]
    /\ dropped' = [dropped EXCEPT ![s] = FALSE]
    /\ UNCHANGED <<phase, elements, ring, nextSeq, streamers, sse, seen>>

\* v1: the items after the client's last number, and the flag.
Sync(s) == Answer(s, After(ring[s], seen[s]), dropped[s])

\* v0: the items keyed by element, without numbers and without the flag.  The
\* request may still cite a number, one the client has from v1.
SyncKeyed(s) ==
    /\ s \in KeyedSubs
    /\ \E last \in {0, seen[s]} : Answer(s, After(ring[s], last), FALSE)

\* The numbers of a set of items.
Numbers(items) == {i.sequenceNumber : i \in items}

\* The last number of a response, or what the client had before.
Newest(items, before) ==
    CHOOSE n \in Numbers(items) \cup {before} :
        \A m \in Numbers(items) \cup {before} : m <= n

Receive(s) ==
    /\ reply[s].pending
    /\ seen' = [seen EXCEPT ![s] = Newest(reply[s].items, @)]
    /\ reply' = [reply EXCEPT ![s] = NoReply]
    /\ UNCHANGED <<manager, sse>>

LoseReply(s) ==
    /\ s \in LossySubs
    /\ reply[s].pending
    /\ reply' = [reply EXCEPT ![s] = NoReply]
    /\ UNCHANGED <<manager, sse, seen>>

-----------------------------------------------------------------------------
(* Server-sent events.                                                     *)

\* stream_v0 / stream_v1: the existence check of the route.
Admit(t) ==
    /\ stream[t] = "idle"
    /\ Live(target[t])
    /\ stream' = [stream EXCEPT ![t] = "admitted"]
    /\ UNCHANGED <<manager, queue, target, yielded, client>>

\* The generator starts later, when the response body is first polled.
Attach(t) ==
    /\ stream[t] = "admitted"
    /\ Live(target[t])
    /\ streamers' = [streamers EXCEPT ![target[t]] = @ \cup {t}]
    /\ stream' = [stream EXCEPT ![t] = "open"]
    /\ UNCHANGED <<phase, elements, ring, nextSeq, dropped, queue, target, yielded, client>>

\* The subscription went away in between: attach_stream raises KeyError.
AttachFails(t) ==
    /\ stream[t] = "admitted"
    /\ ~Live(target[t])
    /\ stream' = [stream EXCEPT ![t] = "refused"]
    /\ UNCHANGED <<manager, queue, target, yielded, client>>

\* Mutant: the generator ends without its finally block.
MutDetach(t) ==
    /\ stream' = [stream EXCEPT ![t] = "ended"]
    /\ UNCHANGED streamers

\* detach_stream in the generator's finally block: nothing to do once the
\* subscription was deleted.
Detach(t) ==
    /\ stream' = [stream EXCEPT ![t] = "ended"]
    /\ streamers' = IF Live(target[t])
                    THEN [streamers EXCEPT ![target[t]] = @ \ {t}]
                    ELSE streamers

\* One turn of the generator's loop.  A heartbeat changes nothing.
Yield(t) ==
    /\ stream[t] = "open"
    /\ queue[t] # <<>>
    /\ Head(queue[t]) # StreamEnd
    /\ queue' = [queue EXCEPT ![t] = Tail(@)]
    /\ yielded' = [yielded EXCEPT ![t] = Head(queue[t]).sequenceNumber]
    /\ UNCHANGED <<manager, stream, target, client>>

\* Mutant: the sentinel is taken for a heartbeat and the loop continues.
MutEndOfStream(t) ==
    /\ stream[t] = "open"
    /\ queue[t] # <<>>
    /\ Head(queue[t]) = StreamEnd
    /\ queue' = [queue EXCEPT ![t] = Tail(@)]
    /\ UNCHANGED <<manager, stream, target, yielded, client>>

EndOfStream(t) ==
    /\ stream[t] = "open"
    /\ queue[t] # <<>>
    /\ Head(queue[t]) = StreamEnd
    /\ queue' = [queue EXCEPT ![t] = Tail(@)]
    /\ Detach(t)
    /\ UNCHANGED <<phase, elements, ring, nextSeq, dropped, target, yielded, client>>

\* The browser went away and Starlette cancels the response.  A generator that
\* waits for its queue is cancelled there and then; one suspended in its yield
\* is only closed later, when the event loop finalises it.
Disconnect(t) ==
    /\ stream[t] = "open"
    /\ stream' = [stream EXCEPT ![t] = "leaving"]
    /\ UNCHANGED <<manager, queue, target, yielded, client>>

Leave(t) ==
    /\ stream[t] = "leaving"
    /\ Detach(t)
    /\ UNCHANGED <<phase, elements, ring, nextSeq, dropped, queue, target, yielded, client>>

-----------------------------------------------------------------------------
ManagerStep ==
    \/ \E s \in Subs : Create(s) \/ Delete(s)
    \/ \E s \in Subs, E \in (SUBSET Elements) \ {{}} : Register(s, E) \/ Unregister(s, E)
    \/ \E e \in Elements : Push(e)
    \/ \E s \in Subs, e \in Elements : PushTo(s, e)

ClientStep == \E s \in Subs : Sync(s) \/ SyncKeyed(s) \/ Receive(s) \/ LoseReply(s)

StreamStep ==
    \E t \in Streams : \/ Admit(t) \/ Attach(t) \/ AttachFails(t)
                       \/ Yield(t) \/ EndOfStream(t) \/ Disconnect(t) \/ Leave(t)

Next == ManagerStep \/ ClientStep \/ StreamStep

Spec == Init /\ [][Next]_vars

\* A listener that keeps reading gets its queue drained: the generator is woken
\* whenever its queue is not empty.  Nothing else is promised: clients need not
\* sync, and nobody has to push.
Fairness == \A t \in Streams : WF_vars(Yield(t) \/ EndOfStream(t))

FairSpec == Spec /\ Fairness

-----------------------------------------------------------------------------
(* Properties.                                                             *)

TypeOK ==
    /\ phase \in [Subs -> {"unused", "live", "deleted"}]
    /\ elements \in [Subs -> SUBSET Elements]
    /\ ring \in [Subs -> Seq(Item)]
    /\ nextSeq \in [Subs -> 1 .. MaxSeq + 1]
    /\ dropped \in [Subs -> BOOLEAN]
    /\ streamers \in [Subs -> SUBSET Streams]
    /\ queue \in [Streams -> Seq(Item \cup {StreamEnd})]
    /\ stream \in [Streams -> {"idle", "admitted", "open", "leaving", "ended", "refused"}]
    /\ target \in [Streams -> Subs]
    /\ yielded \in [Streams -> 0 .. MaxSeq]
    /\ seen \in [Subs -> 0 .. MaxSeq]
    /\ reply \in [Subs -> [items : SUBSET Item, dropped : BOOLEAN, pending : BOOLEAN]]

\* The subscriptions drained by one v1 client over a connection that loses no
\* response.
Reliable == Subs \ (LossySubs \cup KeyedSubs)

\* The ring of a subscription always holds its most recent samples, as many as
\* fit and none missing in between, oldest first: what a client finds missing at
\* the start of a response is all it has missed (the ring of _append_locked).
RingIsRecentSuffix ==
    \A s \in Subs :
        /\ Len(ring[s]) = (IF nextSeq[s] - 1 < RingSize THEN nextSeq[s] - 1 ELSE RingSize)
        /\ \A i \in DOMAIN ring[s] :
                ring[s][i].sequenceNumber = nextSeq[s] - 1 - Len(ring[s]) + i

GapsAreFlagged(s) ==
    reply[s].pending /\ ~reply[s].dropped =>
        \A n \in seen[s] + 1 .. Newest(reply[s].items, seen[s]) :
            n \in Numbers(reply[s].items)

\* A response without the dropped flag brings the client every sample between
\* the ones it had and the newest it now has, however eviction, syncs and
\* deliveries interleave ("if the ring dropped samples in the meantime,
\* dropped=True rides along on the response").  It does not hold of the other
\* subscriptions: a lost response takes the flag with it, and a v0 response
\* never carries it.
NoSilentGap == \A s \in Reliable : GapsAreFlagged(s)

\* What waits for a listener: items whose numbers increase, the first above the
\* one it was sent last, whatever its full queue made it lose; then, once the
\* subscription is deleted, the sentinel, with nothing behind it.  So a listener
\* sees no item twice or late, and never leaves while items still arrive.
StreamInOrder ==
    \A t \in Streams : \A i \in DOMAIN queue[t] :
        IF queue[t][i] = StreamEnd
        THEN i = Len(queue[t]) /\ phase[target[t]] = "deleted"
        ELSE /\ queue[t][i].sequenceNumber > yielded[t]
             /\ \A j \in 1 .. i - 1 :
                    queue[t][j].sequenceNumber < queue[t][i].sequenceNumber

\* A listener is fed by a live subscription exactly while its generator runs:
\* no queue is fed after its generator left, and none is forgotten before.
ListenerAttached ==
    \A s \in Subs :
        Live(s) => streamers[s] = {t \in Streams : /\ target[t] = s
                                                   /\ stream[t] \in {"open", "leaving"}}

\* A listener whose queue holds the sentinel leaves its loop: no backlog in
\* front of it is ever stuck.
SentinelEndsStream ==
    \A t \in Streams :
        (stream[t] = "open" /\ \E i \in DOMAIN queue[t] : queue[t][i] = StreamEnd)
            ~> stream[t] # "open"

\* "Wake any SSE listeners so they can exit their loops" (delete).
DeletedStreamsEnd ==
    \A t \in Streams :
        (stream[t] = "open" /\ phase[target[t]] = "deleted") ~> stream[t] # "open"

\* What the manager promises to the clients that drain it: each subscription is
\* a log that forgets only its oldest entries, and never without raising a flag.
Log == INSTANCE LossyLog WITH
            Logs <- Subs,
            head <- [s \in Subs |-> nextSeq[s] - 1],
            held <- [s \in Subs |-> {ring[s][i].sequenceNumber : i \in DOMAIN ring[s]}],
            flag <- dropped

LogSpec == Log!Spec

=============================================================================
