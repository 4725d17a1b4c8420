---- MODULE Delivery ----
(***************************************************************************)
(* How values travel between the two event loops: the worker loop of one   *)
(* connection (adapters/asyncua/runtime.py), which receives data changes   *)
(* and answers reads (upstream.py), and the main loop, which fans samples  *)
(* out to subscriptions and history and serves /objects/value and          *)
(* /objects/history (core/history.py, api/routes), until cli.py stops it.  *)
(*                                                                         *)
(* An event loop runs what is ready first come, first served.  What the    *)
(* server changes is counted by a clock, which is a value and the time it  *)
(* was taken in one.                                                       *)
(***************************************************************************)
EXTENDS Integers, Sequences, FiniteSets

CONSTANTS
  Elements,      \* Variables
  Restored,      \* those that are monitored, in the order in which a new session creates items
  Unstamped,     \* those whose values come without a time
  Uncertain,     \* those whose values are not quite good
  Requests,      \* requests for values
  Leaves,        \* the Variables each of them is about
  RingSize,      \* history_ring_size
  MaxClock,      \* bound: changes on the server
  MaxDrops,      \* bound: sessions lost
  None

ASSUME DeliveryAssumption ==
  /\ Restored \in Seq(Elements)
  /\ Leaves \in [Requests -> Seq(Elements)]
  /\ Unstamped \subseteq Elements /\ Uncertain \subseteq Elements
  /\ RingSize \in Nat \ {0}
  /\ {MaxClock, MaxDrops} \subseteq Nat
  /\ None \notin Nat

VARIABLES
  clock,       \* changes so far
  value,       \* the value of each element on the server
  session,     \* "down", "open" (the client is there), "up" (and the items), "stopped"
  drops,       \* sessions lost so far
  wire,        \* data changes the session has sent and asyncua not handled
  ready,       \* what the worker loop has to run
  loop,        \* "running", "stopping" its pending tasks, "closed", or "joined"
  posted,      \* what the main loop has to run
  call,        \* progress of each request
  parts,       \* what a request has of its leaves
  current,     \* whether the session a request reads from is still up
  answer,      \* the answer of each request
  history,     \* HistoryStore._rings
  server,      \* uvicorn and what _run of the CLI does after it
  streams,     \* whether an SSE response is open
  notified,    \* history: every sample handed to datachange_notification
  delivered,   \* history: every sample fanned out
  before       \* history: per request, the values and the deliveries when it was made

worker == <<ready, loop>>
requests == <<call, parts, current, answer, before>>
world == <<clock, value, session, drops, wire>>
cli == <<server, streams>>
vars == <<world, worker, posted, requests, history, cli, notified, delivered>>

Sample(e, t) == [element |-> e, at |-> t]
Samples == [element : Elements, at : 0..MaxClock]
Task(kind) == [kind |-> kind]
Deliver(s) == [kind |-> "deliver", sample |-> s]
Call(r) == [kind |-> "call", request |-> r]
Return(kind, r) == [kind |-> kind, request |-> r]

LastOr(samples, default) == IF samples = <<>> THEN default ELSE samples[Len(samples)].at

(* The sample of an element that was fanned out last.                      *)
Places(e) == {i \in DOMAIN delivered : delivered[i].element = e}
Latest(e) ==
  IF Places(e) = {} THEN None
  ELSE delivered[CHOOSE i \in Places(e) : \A j \in Places(e) : j <= i].at

Init ==
  /\ clock = 0 /\ value = [e \in Elements |-> 0]
  /\ session = "down" /\ drops = 0 /\ wire = <<>>
  /\ ready = <<>> /\ loop = "running" /\ posted = <<>>
  /\ call = [r \in Requests |-> "new"]
  /\ parts = [r \in Requests |-> <<>>]
  /\ current = [r \in Requests |-> FALSE]
  /\ answer = [r \in Requests |-> <<>>]
  /\ history = [e \in Elements |-> <<>>]
  /\ server = "serving" /\ streams = FALSE
  /\ notified = <<>> /\ delivered = <<>>
  /\ before = [r \in Requests |-> [value |-> value, delivered |-> [e \in Elements |-> None]]]

--------------------------------------------------------------------------
(* The server and the session.                                             *)

Monitored(e) == \E i \in DOMAIN Restored : Restored[i] = e

Change(e) ==
  /\ clock < MaxClock
  /\ clock' = clock + 1
  /\ value' = [value EXCEPT ![e] = clock + 1]
  /\ wire' = IF session = "up" /\ Monitored(e) THEN Append(wire, Sample(e, clock + 1)) ELSE wire
  /\ UNCHANGED <<session, drops, worker, posted, requests, history, cli, notified, delivered>>

(* The client is published, and the browse begins.                         *)
Connect ==
  /\ session = "down" /\ loop = "running"
  /\ session' = "open"
  /\ UNCHANGED <<clock, value, drops, wire, worker, posted, requests, history, cli,
                 notified, delivered>>

(* After the browse the items are made, and each sends the value it finds. *)
Restore ==
  /\ session = "open" /\ loop = "running"
  /\ session' = "up"
  /\ wire' = [i \in DOMAIN Restored |-> Sample(Restored[i], value[Restored[i]])]
  /\ UNCHANGED <<clock, value, drops, worker, posted, requests, history, cli, notified, delivered>>

Drop ==
  /\ session \in {"open", "up"} /\ drops < MaxDrops
  /\ session' = "down" /\ wire' = <<>>
  /\ drops' = drops + 1
  /\ current' = [r \in Requests |-> FALSE]
  /\ UNCHANGED <<clock, value, worker, posted, call, parts, answer, before, history, cli,
                 notified, delivered>>

--------------------------------------------------------------------------
(* The worker loop.                                                        *)

NextIs(kind) == loop = "running" /\ ready # <<>> /\ Head(ready).kind = kind

(* datachange_notification makes a task of each change.                    *)
Notify ==
  /\ loop = "running" /\ wire # <<>>
  /\ wire' = Tail(wire)
  /\ ready' = Append(ready, Deliver(Head(wire)))
  /\ notified' = Append(notified, Head(wire))
  /\ UNCHANGED <<clock, value, session, drops, loop, posted, requests, history, cli, delivered>>

(* deliver_sample, up to where it waits for the main loop.                 *)
DeliverSample ==
  /\ NextIs("deliver")
  /\ posted' = Append(posted, Head(ready))
  /\ ready' = Tail(ready)
  /\ UNCHANGED <<world, loop, requests, history, cli, notified, delivered>>

(* The read takes the client there is; without one it raises.              *)
BeginRead ==
  /\ NextIs("call")
  /\ LET r == Head(ready).request
     IN  IF session \in {"open", "up"}
         THEN /\ call' = [call EXCEPT ![r] = "reading"]
              /\ current' = [current EXCEPT ![r] = TRUE]
              /\ UNCHANGED posted
         ELSE /\ posted' = Append(posted, Return("raised", r))
              /\ call' = [call EXCEPT ![r] = "returned"]
              /\ UNCHANGED current
  /\ ready' = Tail(ready)
  /\ UNCHANGED <<world, loop, parts, answer, before, history, cli, notified, delivered>>

(* One leaf after the other: its value, or an empty Bad sample.            *)
ReadLeaf(r) ==
  /\ call[r] = "reading" /\ loop = "running"
  /\ Len(parts[r]) < Len(Leaves[r])
  /\ LET e == Leaves[r][Len(parts[r]) + 1]
     IN  \E t \in {None} \cup (IF current[r] THEN {value[e]} ELSE {}) :
           parts' = [parts EXCEPT ![r] = Append(@, t)]
  /\ UNCHANGED <<world, worker, posted, call, current, answer, before, history, cli,
                 notified, delivered>>

EndRead(r) ==
  /\ call[r] = "reading" /\ loop = "running"
  /\ Len(parts[r]) = Len(Leaves[r])
  /\ posted' = Append(posted, Return("result", r))
  /\ call' = [call EXCEPT ![r] = "returned"]
  /\ UNCHANGED <<world, worker, parts, current, answer, before, history, cli, notified, delivered>>

StopBinding ==
  /\ NextIs("unbind")
  /\ session' = "stopped" /\ wire' = <<>>
  /\ current' = [r \in Requests |-> FALSE]
  /\ ready' = Tail(ready)
  /\ posted' = Append(posted, Task("unbound"))
  /\ UNCHANGED <<clock, value, drops, loop, call, parts, answer, before, history, cli,
                 notified, delivered>>

StopLoop ==
  /\ NextIs("stop")
  /\ loop' = "stopping"
  /\ ready' = Tail(ready)
  /\ UNCHANGED <<world, posted, requests, history, cli, notified, delivered>>

(* What is pending is cancelled, what is only posted never runs.           *)
CloseLoop ==
  /\ loop = "stopping"
  /\ loop' = "closed"
  /\ ready' = <<>>
  /\ UNCHANGED <<world, posted, requests, history, cli, notified, delivered>>

--------------------------------------------------------------------------
(* The main loop.                                                          *)

PostedIs(kind) == posted # <<>> /\ Head(posted).kind = kind

\* Mutant: the newest sample stays where the oldest was.
MutRing(samples, s) == IF Len(samples) < RingSize THEN Append(samples, s) ELSE samples

\* Mutant: a deque without a bound.
MutRingUnbounded(samples, s) == Append(samples, s)

(* deque(maxlen=history_ring_size).append                                  *)
Ring(samples, s) ==
  IF Len(samples) < RingSize THEN Append(samples, s) ELSE Append(Tail(samples), s)

FanOut ==
  /\ PostedIs("deliver")
  /\ LET s == Head(posted).sample
     IN  /\ delivered' = Append(delivered, s)
         /\ history' = [history EXCEPT ![s.element] = Ring(@, s)]
  /\ posted' = Tail(posted)
  /\ UNCHANGED <<world, worker, requests, cli, notified>>

\* Mutant: a delivery is given up while the worker runs.
MutFanOutCancelled ==
  /\ PostedIs("deliver")
  /\ posted' = Tail(posted)
  /\ UNCHANGED <<world, worker, requests, history, cli, notified, delivered>>

(* A delivery whose task was cancelled takes its fan-out along, unless     *)
(* that has run.                                                           *)
FanOutCancelled ==
  /\ PostedIs("deliver") /\ loop # "running"
  /\ posted' = Tail(posted)
  /\ UNCHANGED <<world, worker, requests, history, cli, notified, delivered>>

(* A request that comes in is handed over.                                 *)
Ask(r) ==
  /\ server = "serving" /\ call[r] = "new"
  /\ loop # "closed"
  /\ call' = [call EXCEPT ![r] = "asked"]
  /\ ready' = Append(ready, Call(r))
  /\ before' = [before EXCEPT ![r] =
       [value |-> value, delivered |-> [e \in Elements |-> Latest(e)]]]
  /\ UNCHANGED <<world, loop, posted, parts, current, answer, history, cli, notified, delivered>>

Part(t, good) == [at |-> t, good |-> good]

\* Mutant: a value from the history keeps its quality.
MutStale(e) == Part(LastOr(history[e], None), TRUE)

(* The last known value, which is never good; nothing if there is none.    *)
Stale(e) == Part(LastOr(history[e], None), FALSE)

(* Of a call that raised nothing was read.                                 *)
Result(r, kind) ==
  [i \in DOMAIN Leaves[r] |->
     IF kind = "raised" \/ parts[r][i] = None THEN Stale(Leaves[r][i])
     ELSE Part(parts[r][i], TRUE)]

Answer(kind) ==
  /\ PostedIs(kind)
  /\ LET r == Head(posted).request
     IN  /\ answer' = [answer EXCEPT ![r] = Result(r, kind)]
         /\ call' = [call EXCEPT ![r] = "answered"]
  /\ posted' = Tail(posted)
  /\ UNCHANGED <<world, worker, parts, current, before, history, cli, notified, delivered>>

--------------------------------------------------------------------------
(* The end: a signal, uvicorn, the binding, the pool.                      *)

OpenStream ==
  /\ server = "serving" /\ ~streams
  /\ streams' = TRUE
  /\ UNCHANGED <<world, worker, posted, requests, history, server, notified, delivered>>

CloseStream ==
  /\ streams
  /\ streams' = FALSE
  /\ UNCHANGED <<world, worker, posted, requests, history, server, notified, delivered>>

Signal ==
  /\ server = "serving"
  /\ server' = "draining"
  /\ UNCHANGED <<world, worker, posted, requests, history, streams, notified, delivered>>

\* Mutant: the upstream is stopped without waiting for the requests.
MutDrained == server = "draining"

(* serve() returns when no response is under way.                          *)
Drained ==
  /\ server = "draining" /\ ~streams
  /\ \A r \in Requests : call[r] \in {"new", "answered"}

StopUpstream ==
  /\ Drained
  /\ server' = "stopping"
  /\ ready' = Append(ready, Task("unbind"))
  /\ UNCHANGED <<world, loop, posted, requests, history, streams, notified, delivered>>

StopPool ==
  /\ PostedIs("unbound")
  /\ posted' = Tail(posted)
  /\ ready' = Append(ready, Task("stop"))
  /\ UNCHANGED <<world, loop, requests, history, cli, notified, delivered>>

Join ==
  /\ loop = "closed"
  /\ loop' = "joined"
  /\ server' = "stopped"
  /\ UNCHANGED <<world, ready, posted, requests, history, streams, notified, delivered>>

--------------------------------------------------------------------------

ServerStep == (\E e \in Elements : Change(e)) \/ Connect \/ Restore \/ Drop
WorkerStep ==
  \/ Notify \/ DeliverSample \/ BeginRead \/ StopBinding \/ StopLoop \/ CloseLoop
  \/ \E r \in Requests : ReadLeaf(r) \/ EndRead(r)
MainStep ==
  \/ FanOut \/ FanOutCancelled \/ Answer("result") \/ Answer("raised")
  \/ StopPool \/ Join \/ StopUpstream
ClientStep == (\E r \in Requests : Ask(r)) \/ OpenStream \/ CloseStream \/ Signal

Next == ServerStep \/ WorkerStep \/ MainStep \/ ClientStep

(* Both loops run what is ready; a read is answered or times out.          *)
Spec ==
  /\ Init /\ [][Next]_vars
  /\ WF_vars(WorkerStep) /\ WF_vars(MainStep)

--------------------------------------------------------------------------
(* Reading the history.                                                    *)

(* Times are compared as text.  A whole second has no fraction, and its    *)
(* "Z" is greater than the "." of the others.                              *)
Second(t) == t \div 2
Whole(t) == t % 2 = 0
TextLess(t, u) ==
  \/ Second(t) < Second(u)
  \/ Second(t) = Second(u) /\ ~Whole(t) /\ Whole(u)

Within(s, from, to) ==
  s.element \in Unstamped \/ (~TextLess(s.at, from) /\ ~TextLess(to, s.at))

(* Which of the samples of an element are answered: their order stays.     *)
Read(e, from, to) == {k \in DOMAIN history[e] : Within(history[e][k], from, to)}

--------------------------------------------------------------------------
(* The quality of a composition.                                           *)

Quality(e, part) ==
  IF ~part.good THEN "Bad" ELSE IF e \in Uncertain THEN "GoodNoData" ELSE "Good"

BestQuality(qualities) ==
  IF "Bad" \in qualities THEN "Bad"
  ELSE IF qualities = {} \/ "GoodNoData" \in qualities THEN "GoodNoData"
  ELSE "Good"

Overall(r) == BestQuality({Quality(Leaves[r][i], answer[r][i]) : i \in DOMAIN answer[r]})

--------------------------------------------------------------------------
(* Properties.                                                             *)

Times == 0..MaxClock
Tasks ==
  [kind : {"deliver"}, sample : Samples] \cup
  [kind : {"call", "result", "raised"}, request : Requests] \cup
  [kind : {"unbind", "unbound", "stop"}]

(* Types.                                                                  *)
TypeOK ==
  /\ clock \in Times /\ value \in [Elements -> Times]
  /\ session \in {"down", "open", "up", "stopped"} /\ drops \in 0..MaxDrops
  /\ wire \in Seq(Samples)
  /\ ready \in Seq(Tasks) /\ posted \in Seq(Tasks)
  /\ loop \in {"running", "stopping", "closed", "joined"}
  /\ call \in [Requests -> {"new", "asked", "reading", "returned", "answered"}]
  /\ parts \in [Requests -> Seq(Times \cup {None})]
  /\ current \in [Requests -> BOOLEAN]
  /\ answer \in [Requests -> Seq([at : Times \cup {None}, good : BOOLEAN])]
  /\ history \in [Elements -> Seq(Samples)] /\ \A e \in Elements : Len(history[e]) <= RingSize
  /\ server \in {"serving", "draining", "stopping", "stopped"}
  /\ streams \in BOOLEAN
  /\ notified \in Seq(Samples) /\ delivered \in Seq(Samples)
  /\ before \in [Requests -> [value : [Elements -> Times],
                              delivered : [Elements -> Times \cup {None}]]]

(* How many of the first i tasks are deliveries; and whether the deliveries *)
(* carry the samples that were notified after the first k, in that order.  *)
Deliveries(tasks, i) == Cardinality({j \in 1..i : tasks[j].kind = "deliver"})
AllDeliveries(tasks) == Deliveries(tasks, Len(tasks))
Carries(tasks, k) ==
  \A i \in DOMAIN tasks : tasks[i].kind = "deliver" =>
    tasks[i].sample = notified[k + Deliveries(tasks, i)]

(* Between asyncua's callback and the fan-out no sample is lost, repeated  *)
(* or overtaken on its way through two loops, as long as the worker runs:  *)
(* what was notified is what was fanned out, then what the main loop has   *)
(* to fan out, then what the worker has to hand over.                      *)
InTransit ==
  loop = "running" =>
    /\ Len(notified) = Len(delivered) + AllDeliveries(posted) + AllDeliveries(ready)
    /\ \A i \in DOMAIN delivered : delivered[i] = notified[i]
    /\ Carries(posted, Len(delivered))
    /\ Carries(ready, Len(delivered) + AllDeliveries(posted))

(* A good part of an answer is a value the server had since the request    *)
(* was made; any other is no older than what subscriptions had seen by     *)
(* then, and is missing only if they had seen nothing.  A composition with *)
(* a part that was not read is not good.                                   *)
NotOlder(t, than) == than = None \/ (t # None /\ t >= than)

ReadIsRecent ==
  \A r \in Requests : call[r] = "answered" =>
    \A i \in DOMAIN Leaves[r] :
      LET e == Leaves[r][i]
          part == answer[r][i]
      IN  /\ part.good => part.at # None /\ part.at >= before[r].value[e]
          /\ NotOlder(part.at, before[r].delivered[e])
          /\ ~part.good => Overall(r) = "Bad"

(* The history of an element has its last samples, in the order in which   *)
(* they were fanned out, and answers for any window with those that lie in *)
(* it, unless the time of one is in the same second as a bound and only    *)
(* one of the two is a whole second.                                       *)
Later(e, i) == Cardinality({j \in Places(e) : j > i})
Recent(e) == {i \in Places(e) : Later(e, i) < RingSize}
Slot(e, i) == Len(history[e]) - Later(e, i)

Comparable(t, u) == Second(t) = Second(u) => Whole(t) = Whole(u)

HistoryAnswers ==
  \A e \in Elements :
    /\ \A i \in Recent(e) :
         Slot(e, i) \in DOMAIN history[e] /\ history[e][Slot(e, i)] = delivered[i]
    /\ e \notin Unstamped => \A from, to \in Times :
         (\A i \in Recent(e) : Comparable(delivered[i].at, from) /\ Comparable(delivered[i].at, to))
           => Read(e, from, to) =
                {Slot(e, i) : i \in {j \in Recent(e) : delivered[j].at \in from..to}}

(* Every request is answered, with a value or without, and a signal stops  *)
(* the process, as long as no stream stays open: uvicorn waits for it.     *)
EverythingEnds ==
  /\ \A r \in Requests : call[r] = "asked" ~> call[r] = "answered"
  /\ server = "draining" ~> (server = "stopped" \/ streams)
====
