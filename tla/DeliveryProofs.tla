---- MODULE DeliveryProofs ----
(***************************************************************************)
(* Proofs about Delivery, for every set of elements and requests, every    *)
(* size of the rings and any number of changes and lost sessions.          *)
(***************************************************************************)
EXTENDS Delivery, TLAPS, SequenceTheorems, FiniteSetTheorems

--------------------------------------------------------------------------
(* Tasks.                                                                  *)

\* What a task carries.
LEMMA TaskFields ==
    ASSUME NEW t \in Tasks
    PROVE  /\ t.kind = "deliver" => t.sample \in Samples
           /\ t.kind \in {"call", "result", "raised"} => t.request \in Requests
BY DEF Tasks

\* The tasks that are made.
LEMMA TasksMade ==
    /\ \A s \in Samples : /\ Deliver(s) \in Tasks
                          /\ Deliver(s).kind = "deliver" /\ Deliver(s).sample = s
    /\ \A r \in Requests : /\ Call(r) \in Tasks /\ Call(r).kind = "call"
                           /\ \A kind \in {"result", "raised"} :
                                /\ Return(kind, r) \in Tasks
                                /\ Return(kind, r).kind = kind /\ Return(kind, r).request = r
    /\ \A kind \in {"unbind", "unbound", "stop"} : Task(kind) \in Tasks /\ Task(kind).kind = kind
BY DEF Tasks, Deliver, Call, Return, Task

\* The samples that are made.
LEMMA SamplesMade ==
    \A e \in Elements, t \in Times : /\ Sample(e, t) \in Samples
                                     /\ Sample(e, t).element = e /\ Sample(e, t).at = t
BY DEF Sample, Samples, Times

\* What a sample is.
LEMMA SampleFields == \A s \in Samples : s.element \in Elements /\ s.at \in Times
BY DEF Samples, Times

\* The head of a queue, and what is left.
LEMMA TaskTaken ==
    ASSUME NEW q \in Seq(Tasks), q # <<>>
    PROVE  /\ Head(q) \in Tasks /\ Head(q) = q[1] /\ 1 \in DOMAIN q
           /\ Tail(q) \in Seq(Tasks)
           /\ \A i \in DOMAIN Tail(q) : i + 1 \in DOMAIN q /\ Tail(q)[i] = q[i + 1]
<1>1. Len(q) \in Nat \ {0} /\ DOMAIN q = 1..Len(q)
  BY EmptySeq, LenProperties
<1>2. /\ Head(q) \in Tasks /\ Tail(q) \in Seq(Tasks)
      /\ Len(Tail(q)) = Len(q) - 1
      /\ \A i \in 1..Len(Tail(q)) : Tail(q)[i] = q[i + 1]
  BY HeadTailProperties
<1>3. DOMAIN Tail(q) = 1..Len(Tail(q))
  BY <1>2, LenProperties
<1>4. Head(q) = q[1]
  OBVIOUS
<1>5. QED  BY <1>1, <1>2, <1>3, <1>4

\* The ring keeps its bound, and the newest sample at its end.
LEMMA RingKeeps ==
    ASSUME NEW q \in Seq(Samples), Len(q) <= RingSize, NEW s \in Samples
    PROVE  /\ Ring(q, s) \in Seq(Samples) /\ Len(Ring(q, s)) <= RingSize
           /\ Ring(q, s) # <<>> /\ LastOr(Ring(q, s), None) = s.at
<1>1. RingSize \in Nat \ {0} /\ Len(q) \in Nat
  BY DeliveryAssumption, LenProperties
<1>2. ASSUME NEW p \in Seq(Samples), Len(p) < RingSize
      PROVE  /\ Append(p, s) \in Seq(Samples) /\ Len(Append(p, s)) <= RingSize
             /\ Append(p, s) # <<>> /\ LastOr(Append(p, s), None) = s.at
  <2>1. /\ Append(p, s) \in Seq(Samples) /\ Len(Append(p, s)) = Len(p) + 1
        /\ Append(p, s)[Len(p) + 1] = s /\ Len(p) \in Nat
    BY <1>2, AppendProperties, LenProperties
  <2>2. Append(p, s) # <<>>
    BY <2>1, EmptySeq
  <2>3. QED  BY <1>1, <1>2, <2>1, <2>2 DEF LastOr
<1>3. CASE Len(q) < RingSize
  BY <1>2, <1>3 DEF Ring
<1>4. CASE Len(q) >= RingSize
  <2>1. q # <<>>
    BY <1>1, <1>4, EmptySeq
  <2>2. Tail(q) \in Seq(Samples) /\ Len(Tail(q)) < RingSize
    BY <1>1, <2>1, HeadTailProperties
  <2>3. QED  BY <1>1, <1>2, <1>4, <2>2 DEF Ring
<1>5. QED  BY <1>1, <1>3, <1>4

--------------------------------------------------------------------------
(* Types.                                                                  *)

\* What is known of an element: the last of its history.
Known(e) == LastOr(history[e], None)

LEMMA KnownType ==
    ASSUME TypeOK, NEW e \in Elements
    PROVE  Known(e) \in Times \cup {None}
<1>1. history[e] \in Seq(Samples)
  BY DEF TypeOK
<1>2. CASE history[e] = <<>>
  BY <1>2 DEF Known, LastOr
<1>3. CASE history[e] # <<>>
  <2>1. Len(history[e]) \in 1..Len(history[e])
    BY <1>1, <1>3, EmptySeq
  <2>2. history[e][Len(history[e])] \in Samples
    BY <1>1, <2>1, ElementOfSeq
  <2>3. QED  BY <1>3, <2>2, SampleFields DEF Known, LastOr
<1>4. QED  BY <1>2, <1>3

\* The sample at the head of the posted tasks.
LEMMA PostedSample ==
    ASSUME TypeOK, PostedIs("deliver")
    PROVE  Head(posted).sample \in Samples /\ Tail(posted) \in Seq(Tasks)
BY TaskTaken, TaskFields DEF PostedIs, TypeOK

\* The part of an answer for a leaf.
LEMMA ResultTypes ==
    ASSUME TypeOK, NEW r \in Requests, NEW kind,
           kind = "raised" \/ Len(parts[r]) = Len(Leaves[r])
    PROVE  /\ Result(r, kind) \in Seq([at : Times \cup {None}, good : BOOLEAN])
           /\ DOMAIN Result(r, kind) = DOMAIN Leaves[r]
           /\ \A i \in DOMAIN Leaves[r] :
                \/ Result(r, kind)[i] = Stale(Leaves[r][i])
                \/ kind # "raised" /\ parts[r][i] # None /\ Result(r, kind)[i] = Part(parts[r][i], TRUE)
<1>1. /\ Leaves[r] \in Seq(Elements) /\ parts[r] \in Seq(Times \cup {None})
      /\ Len(Leaves[r]) \in Nat /\ DOMAIN Leaves[r] = 1..Len(Leaves[r])
  <2>1. Leaves[r] \in Seq(Elements) /\ parts[r] \in Seq(Times \cup {None})
    BY DeliveryAssumption DEF TypeOK
  <2>2. QED  BY <2>1, LenProperties
<1> DEFINE P == [at : Times \cup {None}, good : BOOLEAN]
<1>2. \A t \in Times \cup {None}, b \in BOOLEAN : Part(t, b) \in P
  BY DEF Part
<1>3. ASSUME NEW i \in DOMAIN Leaves[r]
      PROVE  /\ Result(r, kind)[i] \in P
             /\ \/ Result(r, kind)[i] = Stale(Leaves[r][i])
                \/ kind # "raised" /\ parts[r][i] # None /\ Result(r, kind)[i] = Part(parts[r][i], TRUE)
  <2>1. Leaves[r][i] \in Elements
    BY <1>1, <1>3, ElementOfSeq
  <2>2. Stale(Leaves[r][i]) \in P
    BY <1>2, <2>1, KnownType DEF Stale, Known
  <2>3. CASE kind = "raised" \/ parts[r][i] = None
    BY <1>3, <2>2, <2>3 DEF Result
  <2>4. CASE kind # "raised" /\ parts[r][i] # None
    <3>1. i \in 1..Len(parts[r])
      BY <1>1, <1>3, <2>4
    <3>2. parts[r][i] \in Times \cup {None}
      BY <1>1, <3>1, ElementOfSeq
    <3>3. Result(r, kind)[i] = Part(parts[r][i], TRUE)
      BY <1>3, <2>4 DEF Result
    <3>4. QED  BY <1>2, <2>4, <3>2, <3>3
  <2>5. QED  BY <2>3, <2>4
<1>4. DOMAIN Result(r, kind) = DOMAIN Leaves[r]
  BY DEF Result
<1>5. Result(r, kind) \in Seq(P)
  <2> HIDE DEF P
  <2>1. Result(r, kind) = [i \in 1..Len(Leaves[r]) |-> Result(r, kind)[i]]
    BY <1>1, <1>4 DEF Result
  <2>2. Result(r, kind) \in [1..Len(Leaves[r]) -> P]
    BY <1>1, <1>3, <2>1
  <2>3. QED  BY <1>1, <2>2, SeqDef
<1>6. QED  BY <1>3, <1>4, <1>5

\* The steps of the server.
LEMMA ServerTypes ==
    ASSUME TypeOK, ServerStep
    PROVE  TypeOK'
<1>1. ASSUME NEW e \in Elements, Change(e) PROVE TypeOK'
  <2>1. clock + 1 \in Times /\ clock' = clock + 1
    BY <1>1, DeliveryAssumption DEF Change, TypeOK, Times
  <2>2. value' \in [Elements -> Times]
    BY <1>1, <2>1 DEF Change, TypeOK
  <2>3. wire' \in Seq(Samples)
    BY <1>1, <2>1, SamplesMade, AppendProperties DEF Change, TypeOK
  <2>4. QED  BY <1>1, <2>1, <2>2, <2>3 DEF Change, TypeOK, worker, requests, cli
<1>2. CASE Connect
  BY <1>2 DEF Connect, TypeOK, worker, requests, cli
<1>3. CASE Restore
  <2>1. Restored \in Seq(Elements) /\ Len(Restored) \in Nat /\ DOMAIN Restored = 1..Len(Restored)
    BY DeliveryAssumption, LenProperties
  <2>2. \A i \in DOMAIN Restored : Sample(Restored[i], value[Restored[i]]) \in Samples
    BY <2>1, ElementOfSeq, SamplesMade DEF TypeOK
  <2>3. wire' \in [1..Len(Restored) -> Samples]
    BY <1>3, <2>1, <2>2 DEF Restore
  <2>4. wire' \in Seq(Samples)
    BY <2>1, <2>3, SeqDef
  <2>5. QED  BY <1>3, <2>4 DEF Restore, TypeOK, worker, requests, cli
<1>4. CASE Drop
  <2>1. drops' \in 0..MaxDrops
    BY <1>4, DeliveryAssumption DEF Drop, TypeOK
  <2>2. current' \in [Requests -> BOOLEAN] /\ wire' \in Seq(Samples)
    BY <1>4, EmptySeq DEF Drop
  <2>3. QED  BY <1>4, <2>1, <2>2 DEF Drop, TypeOK, worker, cli
<1>5. QED  BY <1>1, <1>2, <1>3, <1>4 DEF ServerStep

\* A request whose result is on its way has all its parts.
Complete ==
  \A i \in DOMAIN posted : posted[i].kind = "result" =>
    Len(parts[posted[i].request]) = Len(Leaves[posted[i].request])

\* A task at the end of a queue.
LEMMA TaskAdded ==
    ASSUME NEW q \in Seq(Tasks), NEW t \in Tasks
    PROVE  /\ Append(q, t) \in Seq(Tasks)
           /\ \A i \in DOMAIN Append(q, t) :
                \/ i \in DOMAIN q /\ Append(q, t)[i] = q[i]
                \/ i = Len(q) + 1 /\ Append(q, t)[i] = t
<1>1. Len(q) \in Nat /\ DOMAIN q = 1..Len(q)
  BY LenProperties
<1>2. /\ Append(q, t) \in Seq(Tasks) /\ Len(Append(q, t)) = Len(q) + 1
      /\ \A i \in 1..Len(q) : Append(q, t)[i] = q[i]
      /\ Append(q, t)[Len(q) + 1] = t
  BY AppendProperties
<1>3. DOMAIN Append(q, t) = 1..(Len(q) + 1)
  BY <1>2, LenProperties
<1>4. ASSUME NEW i \in DOMAIN Append(q, t)
      PROVE  \/ i \in DOMAIN q /\ Append(q, t)[i] = q[i]
             \/ i = Len(q) + 1 /\ Append(q, t)[i] = t
  <2>1. i \in 1..Len(q) \/ i = Len(q) + 1
    BY <1>1, <1>3, <1>4
  <2>2. QED  BY <1>1, <1>2, <2>1
<1>5. QED  BY <1>2, <1>4

\* The steps of the worker loop.
LEMMA WorkerTypes ==
    ASSUME TypeOK, WorkerStep
    PROVE  TypeOK'
<1> USE DEF requests, world, worker, cli
<1>1. CASE Notify
  <2>1. Head(wire) \in Samples /\ wire' \in Seq(Samples)
    BY <1>1, HeadTailProperties DEF Notify, TypeOK
  <2>2. ready' \in Seq(Tasks) /\ notified' \in Seq(Samples)
    BY <1>1, <2>1, TasksMade, TaskAdded, AppendProperties DEF Notify, TypeOK
  <2>3. QED  BY <1>1, <2>1, <2>2 DEF Notify, TypeOK
<1>2. CASE DeliverSample
  <2>1. Head(ready) \in Tasks /\ ready' \in Seq(Tasks)
    BY <1>2, TaskTaken DEF DeliverSample, NextIs, TypeOK
  <2>2. posted' \in Seq(Tasks)
    BY <1>2, <2>1, TaskAdded DEF DeliverSample, TypeOK
  <2>3. QED  BY <1>2, <2>1, <2>2 DEF DeliverSample, TypeOK
<1>3. CASE BeginRead
  <2>1. Head(ready) \in Tasks /\ ready' \in Seq(Tasks)
    BY <1>3, TaskTaken DEF BeginRead, NextIs, TypeOK
  <2>2. Head(ready).request \in Requests
    BY <1>3, <2>1, TaskFields DEF BeginRead, NextIs
  <2>3. posted' \in Seq(Tasks)
    <3>1. Return("raised", Head(ready).request) \in Tasks
      BY <2>2, TasksMade
    <3>2. posted' \in {posted, Append(posted, Return("raised", Head(ready).request))}
      BY <1>3 DEF BeginRead
    <3>3. posted \in Seq(Tasks)
      BY DEF TypeOK
    <3>4. Append(posted, Return("raised", Head(ready).request)) \in Seq(Tasks)
      BY <3>1, <3>3, TaskAdded
    <3>5. QED  BY <3>2, <3>3, <3>4
  <2>4. /\ call' \in [Requests -> {"new", "asked", "reading", "returned", "answered"}]
        /\ current' \in [Requests -> BOOLEAN]
    BY <1>3, <2>2 DEF BeginRead, TypeOK
  <2>5. QED  BY <1>3, <2>1, <2>3, <2>4 DEF BeginRead, TypeOK
<1>4. CASE StopBinding
  <2>1. ready' \in Seq(Tasks)
    BY <1>4, TaskTaken DEF StopBinding, NextIs, TypeOK
  <2>2. posted' \in Seq(Tasks)
    BY <1>4, TasksMade, TaskAdded DEF StopBinding, TypeOK
  <2>3. current' \in [Requests -> BOOLEAN] /\ wire' \in Seq(Samples)
    BY <1>4, EmptySeq DEF StopBinding
  <2>4. QED  BY <1>4, <2>1, <2>2, <2>3 DEF StopBinding, TypeOK
<1>5. CASE StopLoop
  <2>1. ready' \in Seq(Tasks)
    BY <1>5, TaskTaken DEF StopLoop, NextIs, TypeOK
  <2>2. QED  BY <1>5, <2>1 DEF StopLoop, TypeOK
<1>6. CASE CloseLoop
  <2>1. ready' \in Seq(Tasks)
    BY <1>6, EmptySeq DEF CloseLoop
  <2>2. QED  BY <1>6, <2>1 DEF CloseLoop, TypeOK
<1>7. ASSUME NEW r \in Requests, ReadLeaf(r) PROVE TypeOK'
  <2>1. /\ Leaves[r] \in Seq(Elements) /\ parts[r] \in Seq(Times \cup {None})
        /\ Len(Leaves[r]) \in Nat /\ Len(parts[r]) \in Nat
    <3>1. Leaves[r] \in Seq(Elements) /\ parts[r] \in Seq(Times \cup {None})
      BY DeliveryAssumption DEF TypeOK
    <3>2. QED  BY <3>1, LenProperties
  <2>2. Leaves[r][Len(parts[r]) + 1] \in Elements
    BY <1>7, <2>1, ElementOfSeq DEF ReadLeaf
  <2>3. PICK t \in Times \cup {None} : parts' = [parts EXCEPT ![r] = Append(@, t)]
    BY <1>7, <2>2 DEF ReadLeaf, TypeOK
  <2>4. Append(parts[r], t) \in Seq(Times \cup {None})
    BY <2>1, AppendProperties
  <2>5. parts' \in [Requests -> Seq(Times \cup {None})]
    BY <2>3, <2>4 DEF TypeOK
  <2>6. QED  BY <1>7, <2>5 DEF ReadLeaf, TypeOK
<1>8. ASSUME NEW r \in Requests, EndRead(r) PROVE TypeOK'
  <2>1. posted' \in Seq(Tasks)
    BY <1>8, TasksMade, TaskAdded DEF EndRead, TypeOK
  <2>2. call' \in [Requests -> {"new", "asked", "reading", "returned", "answered"}]
    BY <1>8 DEF EndRead, TypeOK
  <2>3. QED  BY <1>8, <2>1, <2>2 DEF EndRead, TypeOK
<1>9. QED  BY <1>1, <1>2, <1>3, <1>4, <1>5, <1>6, <1>7, <1>8 DEF WorkerStep

\* The steps of the main loop.
LEMMA MainTypes ==
    ASSUME TypeOK, Complete, MainStep
    PROVE  TypeOK'
<1> USE DEF requests, world, worker, cli
<1>1. CASE FanOut
  <2> DEFINE s == Head(posted).sample
  <2>1. s \in Samples /\ posted' \in Seq(Tasks) /\ s.element \in Elements
    BY <1>1, PostedSample, SampleFields DEF FanOut
  <2> HIDE DEF s
  <2>2. delivered' = Append(delivered, s) /\ history' = [history EXCEPT ![s.element] = Ring(@, s)]
    BY <1>1 DEF FanOut, s
  <2>3. delivered' \in Seq(Samples)
    BY <2>1, <2>2, AppendProperties DEF TypeOK
  <2>4. history[s.element] \in Seq(Samples) /\ Len(history[s.element]) <= RingSize
    BY <2>1 DEF TypeOK
  <2>5. Ring(history[s.element], s) \in Seq(Samples) /\ Len(Ring(history[s.element], s)) <= RingSize
    BY <2>1, <2>4, RingKeeps
  <2>6. history' \in [Elements -> Seq(Samples)] /\ \A e \in Elements : Len(history'[e]) <= RingSize
    BY <2>1, <2>2, <2>5 DEF TypeOK
  <2>7. QED  BY <1>1, <2>1, <2>3, <2>6 DEF FanOut, TypeOK
<1>2. CASE FanOutCancelled
  <2>1. posted' \in Seq(Tasks)
    BY <1>2, PostedSample DEF FanOutCancelled
  <2>2. QED  BY <1>2, <2>1 DEF FanOutCancelled, TypeOK
<1>3. ASSUME NEW kind \in {"result", "raised"}, Answer(kind) PROVE TypeOK'
  <2> DEFINE r == Head(posted).request
  <2>1. /\ Head(posted) \in Tasks /\ Head(posted) = posted[1] /\ 1 \in DOMAIN posted
        /\ posted' \in Seq(Tasks) /\ Head(posted).kind = kind
    BY <1>3, TaskTaken DEF Answer, PostedIs, TypeOK
  <2>2. r \in Requests
    BY <2>1, TaskFields
  <2>3. kind = "raised" \/ Len(parts[r]) = Len(Leaves[r])
    BY <2>1 DEF Complete
  <2> HIDE DEF r
  <2>4. Result(r, kind) \in Seq([at : Times \cup {None}, good : BOOLEAN])
    BY <2>2, <2>3, ResultTypes
  <2>5. /\ answer' = [answer EXCEPT ![r] = Result(r, kind)]
        /\ call' = [call EXCEPT ![r] = "answered"]
    BY <1>3 DEF Answer, r
  <2>6. /\ answer' \in [Requests -> Seq([at : Times \cup {None}, good : BOOLEAN])]
        /\ call' \in [Requests -> {"new", "asked", "reading", "returned", "answered"}]
    BY <2>4, <2>5 DEF TypeOK
  <2>7. QED  BY <1>3, <2>1, <2>6 DEF Answer, TypeOK
<1>4. CASE StopPool
  <2>1. posted' \in Seq(Tasks)
    BY <1>4, TaskTaken DEF StopPool, PostedIs, TypeOK
  <2>2. ready' \in Seq(Tasks)
    BY <1>4, TasksMade, TaskAdded DEF StopPool, TypeOK
  <2>3. QED  BY <1>4, <2>1, <2>2 DEF StopPool, TypeOK
<1>5. CASE Join
  BY <1>5 DEF Join, TypeOK
<1>6. CASE StopUpstream
  <2>1. ready' \in Seq(Tasks)
    BY <1>6, TasksMade, TaskAdded DEF StopUpstream, TypeOK
  <2>2. QED  BY <1>6, <2>1 DEF StopUpstream, TypeOK
<1>7. QED  BY <1>1, <1>2, <1>3, <1>4, <1>5, <1>6 DEF MainStep

--------------------------------------------------------------------------
(* The history.                                                            *)

\* The samples of an element have a last one, which is the last of its history.
HasLast == \A e \in Elements : Places(e) # {} => \E k \in Places(e) : \A j \in Places(e) : j <= k
LatestIsKnown == \A e \in Elements : Latest(e) = Known(e)

\* A sample that is fanned out is what is known of its element then.
LEMMA FanOutKnows ==
    ASSUME TypeOK, HasLast, LatestIsKnown, FanOut
    PROVE  /\ HasLast' /\ LatestIsKnown'
           /\ \A e \in Elements :
                Known(e)' = IF e = Head(posted).sample.element THEN Head(posted).sample.at ELSE Known(e)
<1>1. PICK s \in Samples : s = Head(posted).sample
  BY PostedSample DEF FanOut
<1>2. delivered' = Append(delivered, s) /\ history' = [history EXCEPT ![s.element] = Ring(@, s)]
  BY <1>1 DEF FanOut
<1>3. s.element \in Elements /\ s.at \in Times
  BY SampleFields
<1>4. PICK n \in Nat : n = Len(delivered) /\ DOMAIN delivered = 1..n
  <2>1. delivered \in Seq(Samples)
    BY DEF TypeOK
  <2>2. QED  BY <2>1, LenProperties
<1>5. /\ DOMAIN delivered' = 1..(n + 1)
      /\ \A i \in 1..n : delivered'[i] = delivered[i]
      /\ delivered'[n + 1] = s
  <2>1. delivered \in Seq(Samples)
    BY DEF TypeOK
  <2>2. /\ delivered' \in Seq(Samples) /\ Len(delivered') = n + 1
        /\ \A i \in 1..n : delivered'[i] = delivered[i]
        /\ delivered'[n + 1] = s
    BY <1>2, <1>4, <2>1, AppendProperties
  <2>3. QED  BY <2>2, LenProperties
<1>6. ASSUME NEW e \in Elements, e = s.element
      PROVE  /\ \E k \in Places(e)' : \A j \in Places(e)' : j <= k
             /\ Latest(e)' = s.at /\ Known(e)' = s.at
  <2>1. n + 1 \in Places(e)' /\ \A j \in Places(e)' : j \in 1..(n + 1)
    BY <1>5, <1>6 DEF Places
  <2>2. \A k \in Places(e)' : (\A j \in Places(e)' : j <= k) => k = n + 1
    BY <2>1
  <2>3. \A j \in Places(e)' : j <= n + 1
    BY <2>1
  <2>4. (CHOOSE k \in Places(e)' : \A j \in Places(e)' : j <= k) = n + 1
    BY <2>1, <2>2, <2>3
  <2>5. Latest(e)' = s.at
    BY <1>5, <2>1, <2>4 DEF Latest
  <2>6. history[e] \in Seq(Samples) /\ Len(history[e]) <= RingSize
    BY DEF TypeOK
  <2>7. history'[e] = Ring(history[e], s)
    BY <1>2, <1>6 DEF TypeOK
  <2>8. Known(e)' = s.at
    BY <2>6, <2>7, RingKeeps DEF Known
  <2>9. QED  BY <2>1, <2>3, <2>5, <2>8
<1>7. ASSUME NEW e \in Elements, e # s.element
      PROVE  Places(e)' = Places(e) /\ Latest(e)' = Latest(e) /\ Known(e)' = Known(e)
  <2>1. Places(e)' = Places(e)
    BY <1>4, <1>5, <1>7 DEF Places
  <2>2. \A i \in Places(e) : delivered'[i] = delivered[i]
    BY <1>4, <1>5 DEF Places
  <2>3. Latest(e)' = Latest(e)
    <3>1. CASE Places(e) = {}
      BY <2>1, <3>1 DEF Latest
    <3>2. CASE Places(e) # {}
      <4>1. (CHOOSE k \in Places(e) : \A j \in Places(e) : j <= k) \in Places(e)
        BY <3>2 DEF HasLast
      <4>2. QED  BY <2>1, <2>2, <3>2, <4>1 DEF Latest
    <3>3. QED  BY <3>1, <3>2
  <2>4. history'[e] = history[e]
    BY <1>2, <1>7 DEF TypeOK
  <2>5. QED  BY <2>1, <2>3, <2>4 DEF Known
<1>8. HasLast'
  BY <1>6, <1>7 DEF HasLast
<1>9. LatestIsKnown'
  BY <1>6, <1>7 DEF LatestIsKnown
<1>10. QED  BY <1>1, <1>6, <1>7, <1>8, <1>9

\* Nothing else fans out.
LEMMA KnownStays ==
    ASSUME Next \/ UNCHANGED vars
    PROVE  FanOut \/ UNCHANGED <<delivered, history>>
BY DEF Next, ServerStep, WorkerStep, MainStep, ClientStep, Change, Connect, Restore, Drop, Notify,
       DeliverSample, BeginRead, ReadLeaf, EndRead, StopBinding, StopLoop, CloseLoop, FanOutCancelled,
       Answer, StopPool, Join, StopUpstream, Ask, OpenStream, CloseStream, Signal, vars

LEMMA KnowingStep ==
    ASSUME TypeOK, HasLast, LatestIsKnown, Next \/ UNCHANGED vars
    PROVE  HasLast' /\ LatestIsKnown'
<1>1. CASE FanOut
  BY <1>1, FanOutKnows
<1>2. CASE UNCHANGED <<delivered, history>>
  BY <1>2 DEF HasLast, LatestIsKnown, Latest, Places, Known
<1>3. QED  BY <1>1, <1>2, KnownStays

\* The steps of clients.
LEMMA ClientTypes ==
    ASSUME TypeOK, LatestIsKnown, ClientStep
    PROVE  TypeOK'
<1> USE DEF requests, world, worker, cli
<1>1. ASSUME NEW r \in Requests, Ask(r) PROVE TypeOK'
  <2>1. Call(r) \in Tasks
    BY TasksMade
  <2>2. ready \in Seq(Tasks)
    BY DEF TypeOK
  <2>3. Append(ready, Call(r)) \in Seq(Tasks)
    BY <2>1, <2>2, TaskAdded
  <2>4. [e \in Elements |-> Latest(e)] \in [Elements -> Times \cup {None}]
    BY KnownType DEF LatestIsKnown
  <2>5. before' \in [Requests -> [value : [Elements -> Times],
                                 delivered : [Elements -> Times \cup {None}]]]
    BY <1>1, <2>4 DEF Ask, TypeOK
  <2>6. call' \in [Requests -> {"new", "asked", "reading", "returned", "answered"}]
    BY <1>1 DEF Ask, TypeOK
  <2>7. QED  BY <1>1, <2>3, <2>5, <2>6 DEF Ask, TypeOK
<1>2. CASE OpenStream
  BY <1>2 DEF OpenStream, TypeOK
<1>3. CASE CloseStream
  BY <1>3 DEF CloseStream, TypeOK
<1>4. CASE Signal
  BY <1>4 DEF Signal, TypeOK
<1>5. QED  BY <1>1, <1>2, <1>3, <1>4 DEF ClientStep

--------------------------------------------------------------------------
(* What is posted.                                                         *)

\* A result is posted by the end of a read, and by nothing else.
LEMMA ResultsPosted ==
    ASSUME TypeOK, Next \/ UNCHANGED vars, NEW i \in DOMAIN posted', posted'[i].kind = "result"
    PROVE  \/ \E j \in DOMAIN posted : posted'[i] = posted[j]
           \/ \E r \in Requests : EndRead(r) /\ posted'[i] = Return("result", r)
<1>1. posted \in Seq(Tasks)
  BY DEF TypeOK
<1>2. ASSUME posted' = Tail(posted), posted # <<>> PROVE \E j \in DOMAIN posted : posted'[i] = posted[j]
  BY <1>1, <1>2, TaskTaken
<1>3. ASSUME NEW t \in Tasks, posted' = Append(posted, t)
      PROVE  (\E j \in DOMAIN posted : posted'[i] = posted[j]) \/ posted'[i] = t
  BY <1>1, <1>3, TaskAdded
<1>4. CASE DeliverSample
  <2>1. Head(ready) \in Tasks /\ Head(ready).kind = "deliver" /\ posted' = Append(posted, Head(ready))
    BY <1>4, TaskTaken DEF DeliverSample, NextIs, TypeOK
  <2>2. QED  BY <1>3, <2>1
<1>5. CASE BeginRead
  <2>1. Head(ready) \in Tasks /\ Head(ready).kind = "call"
    BY <1>5, TaskTaken DEF BeginRead, NextIs, TypeOK
  <2>2. Head(ready).request \in Requests
    BY <2>1, TaskFields
  <2>3. PICK t \in Tasks : t = Return("raised", Head(ready).request) /\ t.kind = "raised"
    BY <2>2, TasksMade
  <2>4. posted' = posted \/ posted' = Append(posted, t)
    BY <1>5, <2>3 DEF BeginRead
  <2>5. QED  BY <1>3, <2>3, <2>4
<1>6. ASSUME NEW r \in Requests, EndRead(r)
      PROVE  (\E j \in DOMAIN posted : posted'[i] = posted[j]) \/ posted'[i] = Return("result", r)
  <2>1. Return("result", r) \in Tasks
    BY TasksMade
  <2>2. posted' = Append(posted, Return("result", r))
    BY <1>6 DEF EndRead
  <2>3. QED  BY <1>3, <2>1, <2>2
<1>7. CASE StopBinding
  <2>1. PICK t \in Tasks : t = Task("unbound") /\ t.kind = "unbound"
    BY TasksMade
  <2>2. posted' = Append(posted, t)
    BY <1>7, <2>1 DEF StopBinding
  <2>3. QED  BY <1>3, <2>1, <2>2
<1>8. CASE FanOut \/ FanOutCancelled \/ Answer("result") \/ Answer("raised") \/ StopPool
  BY <1>2, <1>8 DEF FanOut, FanOutCancelled, Answer, StopPool, PostedIs
<1>9. CASE UNCHANGED posted
  BY <1>9
<1>10. \/ DeliverSample \/ BeginRead \/ (\E r \in Requests : EndRead(r)) \/ StopBinding
       \/ FanOut \/ FanOutCancelled \/ Answer("result") \/ Answer("raised") \/ StopPool
       \/ UNCHANGED posted
  BY DEF Next, ServerStep, WorkerStep, MainStep, ClientStep, Change, Connect, Restore, Drop, Notify,
         ReadLeaf, StopLoop, CloseLoop, Join, StopUpstream, Ask, OpenStream, CloseStream, Signal, vars
<1>11. QED  BY <1>4, <1>5, <1>6, <1>7, <1>8, <1>9, <1>10

\* Parts are added to a request that has not all of them.
LEMMA PartsAdded ==
    ASSUME Next \/ UNCHANGED vars
    PROVE  UNCHANGED parts \/ \E r \in Requests : ReadLeaf(r)
BY DEF Next, ServerStep, WorkerStep, MainStep, ClientStep, Change, Connect, Restore, Drop, Notify,
       DeliverSample, BeginRead, EndRead, StopBinding, StopLoop, CloseLoop, FanOut, FanOutCancelled,
       Answer, StopPool, Join, StopUpstream, Ask, OpenStream, CloseStream, Signal,
       vars, requests

LEMMA CompleteStep ==
    ASSUME TypeOK, Complete, Next \/ UNCHANGED vars
    PROVE  Complete'
<1> SUFFICES ASSUME NEW i \in DOMAIN posted', posted'[i].kind = "result"
             PROVE  Len(parts'[posted'[i].request]) = Len(Leaves[posted'[i].request])
  BY DEF Complete
<1>1. ASSUME NEW j \in DOMAIN posted, posted'[i] = posted[j]
      PROVE  Len(parts'[posted'[i].request]) = Len(Leaves[posted'[i].request])
  <2>1. Len(parts[posted[j].request]) = Len(Leaves[posted[j].request])
    BY <1>1 DEF Complete
  <2>2. posted[j] \in Tasks
    <3>1. posted \in Seq(Tasks)
      BY DEF TypeOK
    <3>2. j \in 1..Len(posted)
      BY <3>1, LenProperties
    <3>3. QED  BY <3>1, <3>2, ElementOfSeq
  <2>3. posted[j].request \in Requests
    BY <1>1, <2>2, TaskFields
  <2>4. parts'[posted[j].request] = parts[posted[j].request]
    <3>1. ASSUME NEW r \in Requests, ReadLeaf(r) PROVE parts'[posted[j].request] = parts[posted[j].request]
      <4>1. r # posted[j].request
        BY <2>1, <3>1, DeliveryAssumption, LenProperties DEF ReadLeaf
      <4>2. QED  BY <2>3, <3>1, <4>1 DEF ReadLeaf, TypeOK
    <3>2. QED  BY <3>1, PartsAdded
  <2>5. QED  BY <1>1, <2>1, <2>4
<1>2. ASSUME NEW r \in Requests, EndRead(r), posted'[i] = Return("result", r)
      PROVE  Len(parts'[posted'[i].request]) = Len(Leaves[posted'[i].request])
  BY <1>2, TasksMade DEF EndRead
<1>3. QED  BY <1>1, <1>2, ResultsPosted

\* The types, with what they rest on.
Typed == TypeOK /\ Complete /\ HasLast /\ LatestIsKnown

LEMMA TypedInit == Init => Typed
<1> SUFFICES ASSUME Init PROVE Typed
  OBVIOUS
<1>1. 0 \in Times /\ 0 \in 0..MaxDrops
  BY DeliveryAssumption DEF Times
<1>2. \A S : <<>> \in Seq(S)
  BY EmptySeq
<1>3. TypeOK
  <2>1. /\ clock \in Times /\ drops \in 0..MaxDrops
        /\ wire \in Seq(Samples) /\ ready \in Seq(Tasks) /\ posted \in Seq(Tasks)
        /\ notified \in Seq(Samples) /\ delivered \in Seq(Samples)
    BY <1>1, <1>2 DEF Init
  <2>2. /\ parts \in [Requests -> Seq(Times \cup {None})]
        /\ answer \in [Requests -> Seq([at : Times \cup {None}, good : BOOLEAN])]
    BY <1>2 DEF Init
  <2>3. history \in [Elements -> Seq(Samples)] /\ \A e \in Elements : Len(history[e]) <= RingSize
    BY <1>2, DeliveryAssumption, EmptySeq DEF Init
  <2>4. value \in [Elements -> Times]
    BY <1>1 DEF Init
  <2>5. before \in [Requests -> [value : [Elements -> Times],
                                delivered : [Elements -> Times \cup {None}]]]
    BY <2>4 DEF Init
  <2>6. QED  BY <2>1, <2>2, <2>3, <2>4, <2>5 DEF Init, TypeOK
<1>4. Complete
  BY DEF Init, Complete
<1>5. HasLast /\ LatestIsKnown
  BY DEF Init, HasLast, LatestIsKnown, Latest, Places, Known, LastOr
<1>6. QED  BY <1>3, <1>4, <1>5 DEF Typed

LEMMA TypedStep == Typed /\ [Next]_vars => Typed'
<1> SUFFICES ASSUME Typed, [Next]_vars PROVE Typed'
  OBVIOUS
<1>1. TypeOK'
  <2>1. CASE ServerStep \/ WorkerStep \/ MainStep \/ ClientStep
    BY <2>1, ServerTypes, WorkerTypes, MainTypes, ClientTypes DEF Typed
  <2>2. CASE UNCHANGED vars
    BY <2>2 DEF Typed, TypeOK, vars, worker, requests, world, cli
  <2>3. QED  BY <2>1, <2>2 DEF Next
<1>2. QED  BY <1>1, CompleteStep, KnowingStep DEF Typed

\* The type invariant of the two loops, the requests and the history: no ring
\* ever outgrows history_ring_size, and no request is answered with parts it
\* does not have.
THEOREM TypeCorrect == Spec => []TypeOK
<1>1. Typed => TypeOK
  BY DEF Typed
<1>2. QED  BY <1>1, TypedInit, TypedStep, PTL DEF Spec

--------------------------------------------------------------------------
(* The order of samples on their way.                                      *)

\* Two tasks are in order if they deliver an older before a newer sample, or
\* have no element in common.
InOrder(t, u) ==
  (t.kind = "deliver" /\ u.kind = "deliver" /\ t.sample.element = u.sample.element) =>
    t.sample.at <= u.sample.at

Rising(q) == \A i, j \in DOMAIN q : i < j => InOrder(q[i], q[j])
Precedes(q, r) == \A i \in DOMAIN q, j \in DOMAIN r : InOrder(q[i], r[j])

\* The samples on the wire as the tasks they will become.
AsTasks(samples) == [i \in 1..Len(samples) |-> Deliver(samples[i])]
Sent == AsTasks(wire)

Ordered(p, r, w) ==
  /\ Rising(p) /\ Rising(r) /\ Rising(w)
  /\ Precedes(p, r) /\ Precedes(p, w) /\ Precedes(r, w)

InLine == Ordered(posted, ready, Sent)

\* A sample on its way is not older than what is known of its element, nor
\* newer than its value on the server.
Due(t, values, known) ==
  t.kind = "deliver" =>
    /\ t.sample.at <= values[t.sample.element]
    /\ known[t.sample.element] # None => known[t.sample.element] <= t.sample.at

AllDue(q, values, known) == \A i \in DOMAIN q : Due(q[i], values, known)

Knowledge == [e \in Elements |-> Known(e)]

Current ==
  /\ AllDue(posted, value, Knowledge)
  /\ AllDue(ready, value, Knowledge)
  /\ AllDue(Sent, value, Knowledge)
  /\ \A e \in Elements : /\ value[e] <= clock
                         /\ Known(e) # None => Known(e) <= value[e]

\* The deliveries of a queue are those of another one from some place on.
Remains(p, q) ==
  \E d \in Nat : \A i \in DOMAIN p :
    p[i].kind = "deliver" => i + d \in DOMAIN q /\ p[i] = q[i + d]

\* What remains of queues in order is in order.
LEMMA RemainsInOrder ==
    ASSUME NEW p \in Seq(Tasks), NEW q \in Seq(Tasks), Remains(p, q)
    PROVE  /\ Rising(q) => Rising(p)
           /\ \A i \in DOMAIN p : p[i].kind = "deliver" => \E k \in DOMAIN q : p[i] = q[k]
<1>1. PICK d \in Nat : \A i \in DOMAIN p : p[i].kind = "deliver" => i + d \in DOMAIN q /\ p[i] = q[i + d]
  BY DEF Remains
<1>2. DOMAIN p = 1..Len(p) /\ Len(p) \in Nat
  BY LenProperties
<1>3. ASSUME Rising(q), NEW i \in DOMAIN p, NEW j \in DOMAIN p, i < j PROVE InOrder(p[i], p[j])
  <2>1. CASE p[i].kind = "deliver" /\ p[j].kind = "deliver"
    <3>1. i + d \in DOMAIN q /\ j + d \in DOMAIN q /\ i + d < j + d
      BY <1>1, <1>2, <1>3, <2>1
    <3>2. InOrder(q[i + d], q[j + d])
      BY <1>3, <3>1 DEF Rising
    <3>3. QED  BY <1>1, <2>1, <3>2
  <2>2. CASE ~(p[i].kind = "deliver" /\ p[j].kind = "deliver")
    BY <2>2 DEF InOrder
  <2>3. QED  BY <2>1, <2>2
<1>4. QED  BY <1>1, <1>3 DEF Rising

LEMMA RemainsPrecedes ==
    ASSUME NEW p \in Seq(Tasks), NEW q \in Seq(Tasks), Remains(p, q),
           NEW r \in Seq(Tasks), NEW s \in Seq(Tasks), Remains(r, s), Precedes(q, s)
    PROVE  Precedes(p, r)
<1> SUFFICES ASSUME NEW i \in DOMAIN p, NEW j \in DOMAIN r,
                    p[i].kind = "deliver", r[j].kind = "deliver"
             PROVE  InOrder(p[i], r[j])
  BY DEF Precedes, InOrder
<1>1. PICK k \in DOMAIN q : p[i] = q[k]
  BY RemainsInOrder
<1>2. PICK l \in DOMAIN s : r[j] = s[l]
  BY RemainsInOrder
<1>3. QED  BY <1>1, <1>2 DEF Precedes

LEMMA RemainsOrdered ==
    ASSUME NEW p \in Seq(Tasks), NEW p1 \in Seq(Tasks), Remains(p1, p),
           NEW r \in Seq(Tasks), NEW r1 \in Seq(Tasks), Remains(r1, r),
           NEW w \in Seq(Tasks), NEW w1 \in Seq(Tasks), Remains(w1, w),
           Ordered(p, r, w)
    PROVE  Ordered(p1, r1, w1)
BY RemainsInOrder, RemainsPrecedes DEF Ordered

\* What remains of a queue.
LEMMA WhatRemains ==
    ASSUME NEW q \in Seq(Tasks)
    PROVE  /\ Remains(q, q) /\ Remains(<<>>, q)
           /\ q # <<>> => Remains(Tail(q), q)
           /\ \A t \in Tasks : t.kind # "deliver" => Remains(Append(q, t), q)
<1>1. DOMAIN q = 1..Len(q) /\ Len(q) \in Nat
  BY LenProperties
<1>2. \A i \in DOMAIN q : i + 0 = i
  BY <1>1
<1>3. Remains(q, q)
  BY <1>2 DEF Remains
<1>4. Remains(<<>>, q)
  BY DEF Remains
<1>5. q # <<>> => Remains(Tail(q), q)
  BY TaskTaken DEF Remains
<1>6. ASSUME NEW t \in Tasks, t.kind # "deliver" PROVE Remains(Append(q, t), q)
  <2>1. \A i \in DOMAIN Append(q, t) :
          Append(q, t)[i].kind = "deliver" => i \in DOMAIN q /\ Append(q, t)[i] = q[i]
    BY <1>6, TaskAdded
  <2>2. QED  BY <1>2, <2>1 DEF Remains
<1>7. QED  BY <1>3, <1>4, <1>5, <1>6

\* A task put at the end of a queue in order.
LEMMA AppendRises ==
    ASSUME NEW q \in Seq(Tasks), NEW t \in Tasks, Rising(q), \A i \in DOMAIN q : InOrder(q[i], t)
    PROVE  Rising(Append(q, t))
<1>1. DOMAIN q = 1..Len(q) /\ Len(q) \in Nat
  BY LenProperties
<1>2. ASSUME NEW i \in DOMAIN Append(q, t), NEW j \in DOMAIN Append(q, t), i < j
      PROVE  InOrder(Append(q, t)[i], Append(q, t)[j])
  <2>1. \/ i \in DOMAIN q /\ Append(q, t)[i] = q[i]
        \/ i = Len(q) + 1 /\ Append(q, t)[i] = t
    BY TaskAdded
  <2>2. \/ j \in DOMAIN q /\ Append(q, t)[j] = q[j]
        \/ j = Len(q) + 1 /\ Append(q, t)[j] = t
    BY TaskAdded
  <2>3. i \in DOMAIN q /\ Append(q, t)[i] = q[i]
    BY <1>1, <1>2, <2>1, <2>2
  <2>4. QED  BY <1>2, <2>2, <2>3 DEF Rising
<1>3. QED  BY <1>2 DEF Rising

LEMMA AppendPrecedes ==
    ASSUME NEW q \in Seq(Tasks), NEW r \in Seq(Tasks), NEW t \in Tasks, Precedes(q, r)
    PROVE  /\ (\A j \in DOMAIN r : InOrder(t, r[j])) => Precedes(Append(q, t), r)
           /\ (\A i \in DOMAIN q : InOrder(q[i], t)) => Precedes(q, Append(r, t))
BY TaskAdded DEF Precedes

\* The samples on the wire.
LEMMA AsTasksTypes ==
    ASSUME NEW w \in Seq(Samples)
    PROVE  /\ AsTasks(w) \in Seq(Tasks) /\ Len(AsTasks(w)) = Len(w) /\ DOMAIN AsTasks(w) = 1..Len(w)
           /\ \A i \in 1..Len(w) : /\ AsTasks(w)[i] = Deliver(w[i]) /\ w[i] \in Samples
                                   /\ AsTasks(w)[i].kind = "deliver" /\ AsTasks(w)[i].sample = w[i]
<1>1. Len(w) \in Nat
  BY LenProperties
<1>2. \A i \in 1..Len(w) : w[i] \in Samples
  BY ElementOfSeq
<1>3. \A i \in 1..Len(w) : /\ AsTasks(w)[i] = Deliver(w[i]) /\ AsTasks(w)[i] \in Tasks
                           /\ AsTasks(w)[i].kind = "deliver" /\ AsTasks(w)[i].sample = w[i]
  BY <1>2, TasksMade DEF AsTasks
<1>4. AsTasks(w) \in [1..Len(w) -> Tasks]
  BY <1>3 DEF AsTasks
<1>5. AsTasks(w) \in Seq(Tasks)
  BY <1>1, <1>4, SeqDef
<1>6. DOMAIN AsTasks(w) = 1..Len(w)
  BY DEF AsTasks
<1>7. Len(AsTasks(w)) = Len(w)
  BY <1>1, <1>5, <1>6, LenProperties
<1>8. QED  BY <1>2, <1>3, <1>5, <1>6, <1>7

LEMMA SentTypes ==
    ASSUME TypeOK
    PROVE  /\ Sent \in Seq(Tasks) /\ DOMAIN Sent = 1..Len(wire) /\ Len(wire) \in Nat
           /\ \A i \in DOMAIN Sent : /\ Sent[i] = Deliver(wire[i]) /\ wire[i] \in Samples
                                     /\ Sent[i].kind = "deliver" /\ Sent[i].sample = wire[i]
<1>1. wire \in Seq(Samples)
  BY DEF TypeOK
<1>2. QED  BY <1>1, AsTasksTypes, LenProperties DEF Sent

LEMMA SentChanges ==
    ASSUME TypeOK, TypeOK'
    PROVE  /\ wire' = wire => Sent' = Sent
           /\ wire' = <<>> => Sent' = <<>>
           /\ (wire # <<>> /\ wire' = Tail(wire)) =>
                Sent # <<>> /\ Sent' = Tail(Sent) /\ Head(Sent) = Deliver(Head(wire))
           /\ \A s \in Samples : wire' = Append(wire, s) => Sent' = Append(Sent, Deliver(s))
<1>1. /\ wire \in Seq(Samples) /\ wire' \in Seq(Samples) /\ Sent \in Seq(Tasks) /\ Sent' \in Seq(Tasks)
      /\ Len(wire) \in Nat /\ Len(wire') \in Nat
      /\ Len(Sent) = Len(wire) /\ Len(Sent') = Len(wire')
      /\ \A i \in 1..Len(wire) : Sent[i] = Deliver(wire[i])
      /\ \A i \in 1..Len(wire') : Sent'[i] = Deliver(wire'[i])
  <2>1. wire \in Seq(Samples) /\ wire' \in Seq(Samples)
    BY DEF TypeOK
  <2>2. Len(wire) \in Nat /\ Len(wire') \in Nat
    BY <2>1, LenProperties
  <2>3. QED  BY <2>1, <2>2, AsTasksTypes DEF Sent
<1>2. wire' = wire => Sent' = Sent
  BY DEF Sent
<1>3. ASSUME wire' = <<>> PROVE Sent' = <<>>
  BY <1>1, <1>3, EmptySeq
<1>4. ASSUME wire # <<>>, wire' = Tail(wire)
      PROVE  Sent # <<>> /\ Sent' = Tail(Sent) /\ Head(Sent) = Deliver(Head(wire))
  <2>1. Len(wire) >= 1 /\ Sent # <<>>
    BY <1>1, <1>4, EmptySeq
  <2>2. Len(wire') = Len(wire) - 1 /\ \A i \in 1..Len(wire') : wire'[i] = wire[i + 1]
    BY <1>1, <1>4, HeadTailProperties
  <2>3. /\ Tail(Sent) \in Seq(Tasks) /\ Len(Tail(Sent)) = Len(Sent) - 1
        /\ \A i \in 1..Len(Tail(Sent)) : Tail(Sent)[i] = Sent[i + 1]
    BY <1>1, <2>1, HeadTailProperties
  <2>4. \A i \in 1..Len(Sent') : Sent'[i] = Tail(Sent)[i]
    BY <1>1, <2>2, <2>3
  <2>5. Sent' = Tail(Sent)
    BY <1>1, <2>2, <2>3, <2>4, SeqEqual
  <2>6. Head(wire) = wire[1] /\ Head(Sent) = Sent[1]
    OBVIOUS
  <2>7. QED  BY <1>1, <2>1, <2>5, <2>6
<1>5. ASSUME NEW s \in Samples, wire' = Append(wire, s) PROVE Sent' = Append(Sent, Deliver(s))
  <2>1. /\ Len(wire') = Len(wire) + 1 /\ wire'[Len(wire) + 1] = s
        /\ \A i \in 1..Len(wire) : wire'[i] = wire[i]
    BY <1>1, <1>5, AppendProperties
  <2>2. Deliver(s) \in Tasks
    BY TasksMade
  <2>3. /\ Append(Sent, Deliver(s)) \in Seq(Tasks) /\ Len(Append(Sent, Deliver(s))) = Len(Sent) + 1
        /\ \A i \in 1..Len(Sent) : Append(Sent, Deliver(s))[i] = Sent[i]
        /\ Append(Sent, Deliver(s))[Len(Sent) + 1] = Deliver(s)
    BY <1>1, <2>2, AppendProperties
  <2>4. \A i \in 1..Len(Sent') : Sent'[i] = Append(Sent, Deliver(s))[i]
    BY <1>1, <2>1, <2>3
  <2>5. QED  BY <1>1, <2>1, <2>3, <2>4, SeqEqual
<1>6. QED  BY <1>2, <1>3, <1>4, <1>5

\* Apart from four steps, the queues only lose deliveries.
Moving == (\E e \in Elements : Change(e)) \/ Restore \/ Notify \/ DeliverSample

LEMMA QuietSteps ==
    ASSUME TypeOK, TypeOK', Next \/ UNCHANGED vars, ~Moving
    PROVE  Remains(posted', posted) /\ Remains(ready', ready) /\ Remains(Sent', Sent)
<1>1. posted \in Seq(Tasks) /\ ready \in Seq(Tasks) /\ Sent \in Seq(Tasks)
  BY SentTypes DEF TypeOK
<1>2. Remains(Sent', Sent)
  <2>1. wire' = wire \/ wire' = <<>>
    BY DEF Moving, Next, ServerStep, WorkerStep, MainStep, ClientStep, Connect, Drop,
           BeginRead, ReadLeaf, EndRead, StopBinding, StopLoop, CloseLoop, FanOut, FanOutCancelled,
           Answer, StopPool, Join, StopUpstream, Ask, OpenStream, CloseStream, Signal, vars, world
  <2>2. Sent' = Sent \/ Sent' = <<>>
    BY <2>1, SentChanges
  <2>3. QED  BY <1>1, <2>2, WhatRemains
<1>3. ASSUME NEW q \in Seq(Tasks), NEW p,
             \/ p = q \/ p = <<>> \/ (q # <<>> /\ p = Tail(q))
             \/ \E t \in Tasks : t.kind # "deliver" /\ p = Append(q, t)
      PROVE  Remains(p, q)
  BY <1>3, WhatRemains
<1>4. Remains(posted', posted)
  <2>1. ASSUME BeginRead PROVE posted' = posted \/ \E t \in Tasks : t.kind # "deliver" /\ posted' = Append(posted, t)
    <3>1. Head(ready) \in Tasks /\ Head(ready).kind = "call"
      BY <2>1, TaskTaken DEF BeginRead, NextIs, TypeOK
    <3>2. Head(ready).request \in Requests
      BY <3>1, TaskFields
    <3>3. PICK t \in Tasks : t = Return("raised", Head(ready).request) /\ t.kind = "raised"
      BY <3>2, TasksMade
    <3>4. QED  BY <2>1, <3>3 DEF BeginRead
  <2>2. ASSUME NEW r \in Requests, EndRead(r)
        PROVE  \E t \in Tasks : t.kind # "deliver" /\ posted' = Append(posted, t)
    <3>1. PICK t \in Tasks : t = Return("result", r) /\ t.kind = "result"
      BY TasksMade
    <3>2. QED  BY <2>2, <3>1 DEF EndRead
  <2>3. ASSUME StopBinding PROVE \E t \in Tasks : t.kind # "deliver" /\ posted' = Append(posted, t)
    <3>1. PICK t \in Tasks : t = Task("unbound") /\ t.kind = "unbound"
      BY TasksMade
    <3>2. QED  BY <2>3, <3>1 DEF StopBinding
  <2>4. ASSUME FanOut \/ FanOutCancelled \/ Answer("result") \/ Answer("raised") \/ StopPool
        PROVE  posted # <<>> /\ posted' = Tail(posted)
    BY <2>4 DEF FanOut, FanOutCancelled, Answer, StopPool, PostedIs
  <2>5. \/ BeginRead \/ (\E r \in Requests : EndRead(r)) \/ StopBinding
        \/ FanOut \/ FanOutCancelled \/ Answer("result") \/ Answer("raised") \/ StopPool
        \/ UNCHANGED posted
    BY DEF Moving, Next, ServerStep, WorkerStep, MainStep, ClientStep, Connect, Drop,
           ReadLeaf, StopLoop, CloseLoop, Join, StopUpstream, Ask, OpenStream, CloseStream, Signal, vars
  <2>6. QED  BY <1>1, <1>3, <2>1, <2>2, <2>3, <2>4, <2>5
<1>5. Remains(ready', ready)
  <2>1. ASSUME BeginRead \/ StopBinding \/ StopLoop PROVE ready # <<>> /\ ready' = Tail(ready)
    BY <2>1 DEF BeginRead, StopBinding, StopLoop, NextIs
  <2>2. ASSUME NEW r \in Requests, Ask(r)
        PROVE  \E t \in Tasks : t.kind # "deliver" /\ ready' = Append(ready, t)
    <3>1. PICK t \in Tasks : t = Call(r) /\ t.kind = "call"
      BY TasksMade
    <3>2. QED  BY <2>2, <3>1 DEF Ask
  <2>3. ASSUME StopUpstream \/ StopPool
        PROVE  \E t \in Tasks : t.kind # "deliver" /\ ready' = Append(ready, t)
    <3>1. PICK t \in Tasks : t = Task("unbind") /\ t.kind = "unbind"
      BY TasksMade
    <3>2. PICK u \in Tasks : u = Task("stop") /\ u.kind = "stop"
      BY TasksMade
    <3>3. QED  BY <2>3, <3>1, <3>2 DEF StopUpstream, StopPool
  <2>4. CloseLoop => ready' = <<>>
    BY DEF CloseLoop
  <2>5. \/ BeginRead \/ StopBinding \/ StopLoop \/ (\E r \in Requests : Ask(r))
        \/ StopUpstream \/ StopPool \/ CloseLoop \/ UNCHANGED ready
    BY DEF Moving, Next, ServerStep, WorkerStep, MainStep, ClientStep, Connect, Drop,
           ReadLeaf, EndRead, FanOut, FanOutCancelled, Answer, Join, OpenStream, CloseStream, Signal,
           vars, worker
  <2>6. QED  BY <1>1, <1>3, <2>1, <2>2, <2>3, <2>4, <2>5
<1>6. QED  BY <1>2, <1>4, <1>5

\* The first of one queue put at the end of the one before it.
LEMMA HandedOver ==
    ASSUME NEW p \in Seq(Tasks), NEW q \in Seq(Tasks), q # <<>>,
           Rising(p), Rising(q), Precedes(p, q)
    PROVE  /\ Append(p, Head(q)) \in Seq(Tasks) /\ Tail(q) \in Seq(Tasks)
           /\ Rising(Append(p, Head(q))) /\ Rising(Tail(q))
           /\ Precedes(Append(p, Head(q)), Tail(q))
           /\ \A r \in Seq(Tasks) :
                /\ Precedes(r, p) /\ Precedes(r, q) =>
                     Precedes(r, Append(p, Head(q))) /\ Precedes(r, Tail(q))
                /\ Precedes(p, r) /\ Precedes(q, r) =>
                     Precedes(Append(p, Head(q)), r) /\ Precedes(Tail(q), r)
<1>1. /\ Head(q) \in Tasks /\ Head(q) = q[1] /\ 1 \in DOMAIN q
      /\ Tail(q) \in Seq(Tasks)
      /\ \A i \in DOMAIN Tail(q) : i + 1 \in DOMAIN q /\ Tail(q)[i] = q[i + 1]
  BY TaskTaken
<1>2. Append(p, Head(q)) \in Seq(Tasks)
  BY <1>1, TaskAdded
<1>3. Remains(Tail(q), q)
  BY WhatRemains
<1>4. Rising(Tail(q))
  BY <1>1, <1>3, RemainsInOrder
<1>5. Rising(Append(p, Head(q)))
  BY <1>1, AppendRises DEF Precedes
<1>6. \A r \in Seq(Tasks) : Precedes(r, q) => Precedes(r, Tail(q))
  BY <1>1 DEF Precedes
<1>7. \A r \in Seq(Tasks) : Precedes(q, r) => Precedes(Tail(q), r)
  BY <1>1 DEF Precedes
<1>8. \A j \in DOMAIN Tail(q) : InOrder(Head(q), Tail(q)[j])
  <2> SUFFICES ASSUME NEW j \in DOMAIN Tail(q) PROVE InOrder(q[1], q[j + 1])
    BY <1>1
  <2>1. j \in Nat \ {0}
    BY <1>1, LenProperties
  <2>2. QED  BY <1>1, <2>1 DEF Rising
<1>9. Precedes(Append(p, Head(q)), Tail(q))
  BY <1>1, <1>6, <1>8, AppendPrecedes
<1>10. ASSUME NEW r \in Seq(Tasks), Precedes(r, p), Precedes(r, q) PROVE Precedes(r, Append(p, Head(q)))
  BY <1>1, <1>10, AppendPrecedes DEF Precedes
<1>11. ASSUME NEW r \in Seq(Tasks), Precedes(p, r), Precedes(q, r) PROVE Precedes(Append(p, Head(q)), r)
  BY <1>1, <1>11, AppendPrecedes DEF Precedes
<1>12. QED  BY <1>1, <1>2, <1>4, <1>5, <1>6, <1>7, <1>9, <1>10, <1>11

\* A sample of the value of the server is behind all that are on their way.
LEMMA NewestIsLast ==
    ASSUME TypeOK, Current, NEW s \in Samples, value[s.element] <= s.at, NEW u \in Tasks,
           u = Deliver(s)
    PROVE  /\ \A i \in DOMAIN posted : InOrder(posted[i], u)
           /\ \A i \in DOMAIN ready : InOrder(ready[i], u)
           /\ \A i \in DOMAIN Sent : InOrder(Sent[i], u)
<1>1. u.kind = "deliver" /\ u.sample = s
  BY TasksMade
<1>2. ASSUME NEW q \in Seq(Tasks), AllDue(q, value, Knowledge), NEW i \in DOMAIN q
      PROVE  InOrder(q[i], u)
  <2>1. q[i] \in Tasks
    BY <1>2, LenProperties, ElementOfSeq
  <2> SUFFICES ASSUME q[i].kind = "deliver", q[i].sample.element = s.element
               PROVE  q[i].sample.at <= s.at
    BY <1>1 DEF InOrder
  <2>2. q[i].sample.at <= value[s.element]
    BY <1>2 DEF AllDue, Due
  <2>3. q[i].sample.at \in Int /\ s.at \in Int /\ value[s.element] \in Int
    BY <2>1, TaskFields, SampleFields DEF TypeOK, Times
  <2>4. QED  BY <2>2, <2>3
<1>3. QED  BY <1>2, SentTypes DEF Current, TypeOK

\* What is on its way stays in order, in every step.
LEMMA InLineStep ==
    ASSUME TypeOK, TypeOK', InLine, Current, Next \/ UNCHANGED vars
    PROVE  InLine'
<1>1. /\ posted \in Seq(Tasks) /\ ready \in Seq(Tasks) /\ Sent \in Seq(Tasks)
      /\ posted' \in Seq(Tasks) /\ ready' \in Seq(Tasks) /\ wire' \in Seq(Samples)
  BY SentTypes DEF TypeOK
<1>2. Sent' \in Seq(Tasks)
  BY <1>1, AsTasksTypes DEF Sent
<1>3. ASSUME NEW e \in Elements, Change(e) PROVE InLine'
  <2>1. clock + 1 \in Times
    BY <1>3, DeliveryAssumption DEF Change, TypeOK, Times
  <2>2. PICK s \in Samples : s = Sample(e, clock + 1) /\ s.element = e /\ s.at = clock + 1
    BY <2>1, SamplesMade
  <2>3. PICK u \in Tasks : u = Deliver(s)
    BY TasksMade
  <2>4. Sent' = Sent \/ Sent' = Append(Sent, u)
    BY <1>3, <2>2, <2>3, SentChanges DEF Change
  <2>5. value[s.element] <= s.at
    BY <2>1, <2>2 DEF Current, TypeOK, Times
  <2>6. /\ \A i \in DOMAIN posted : InOrder(posted[i], u)
        /\ \A i \in DOMAIN ready : InOrder(ready[i], u)
        /\ \A i \in DOMAIN Sent : InOrder(Sent[i], u)
    BY <2>3, <2>5, NewestIsLast
  <2>7. Rising(Append(Sent, u)) /\ Precedes(posted, Append(Sent, u)) /\ Precedes(ready, Append(Sent, u))
    BY <1>1, <2>6, AppendRises, AppendPrecedes DEF InLine, Ordered
  <2>8. QED  BY <1>3, <2>4, <2>7 DEF Change, InLine, Ordered, worker
<1>4. CASE Restore
  <2>1. wire' = [i \in DOMAIN Restored |-> Sample(Restored[i], value[Restored[i]])]
    BY <1>4 DEF Restore
  <2>2. ASSUME NEW j \in DOMAIN Sent'
        PROVE  \E s \in Samples : Sent'[j] = Deliver(s) /\ s.at = value[s.element]
    <3>1. DOMAIN Sent' = 1..Len(wire') /\ 1..Len(wire') = DOMAIN wire' /\ Sent'[j] = Deliver(wire'[j])
      BY <1>1, <2>2, AsTasksTypes, LenProperties DEF Sent
    <3>2. j \in DOMAIN Restored
      BY <2>1, <2>2, <3>1
    <3>3. Restored[j] \in Elements
      BY <3>2, DeliveryAssumption, LenProperties, ElementOfSeq
    <3>4. PICK s \in Samples : s = Sample(Restored[j], value[Restored[j]]) /\ s.element = Restored[j]
                              /\ s.at = value[Restored[j]]
      BY <3>3, SamplesMade DEF TypeOK
    <3>5. QED  BY <2>1, <3>1, <3>2, <3>4
  <2>3. ASSUME NEW j \in DOMAIN Sent'
        PROVE  /\ \A i \in DOMAIN posted : InOrder(posted[i], Sent'[j])
               /\ \A i \in DOMAIN ready : InOrder(ready[i], Sent'[j])
               /\ \A i \in DOMAIN Sent' : InOrder(Sent'[i], Sent'[j])
    <3>1. PICK s \in Samples : Sent'[j] = Deliver(s) /\ s.at = value[s.element]
      BY <2>2, <2>3
    <3>2. Deliver(s) \in Tasks /\ Deliver(s).sample = s /\ value[s.element] <= s.at /\ s.at \in Int
      BY <3>1, TasksMade, SampleFields DEF Times
    <3>3. ASSUME NEW i \in DOMAIN Sent' PROVE InOrder(Sent'[i], Sent'[j])
      <4>1. PICK r \in Samples : Sent'[i] = Deliver(r) /\ r.at = value[r.element]
        BY <2>2, <3>3
      <4>2. Deliver(r).sample = r
        BY TasksMade
      <4>3. QED  BY <3>1, <3>2, <4>1, <4>2 DEF InOrder
    <3>4. QED  BY <3>1, <3>2, <3>3, NewestIsLast
  <2>4. UNCHANGED <<posted, ready>>
    BY <1>4 DEF Restore, worker
  <2>5. Rising(Sent') /\ Precedes(posted, Sent') /\ Precedes(ready, Sent')
    BY <2>3 DEF Rising, Precedes
  <2>6. QED  BY <2>4, <2>5 DEF InLine, Ordered
<1>5. CASE Notify
  <2>1. Sent # <<>> /\ Sent' = Tail(Sent) /\ ready' = Append(ready, Head(Sent)) /\ posted' = posted
    BY <1>5, SentChanges DEF Notify
  <2>2. /\ Rising(Append(ready, Head(Sent))) /\ Rising(Tail(Sent))
        /\ Precedes(Append(ready, Head(Sent)), Tail(Sent))
        /\ Precedes(posted, Append(ready, Head(Sent))) /\ Precedes(posted, Tail(Sent))
    BY <1>1, <2>1, HandedOver DEF InLine, Ordered
  <2>3. QED  BY <2>1, <2>2 DEF InLine, Ordered
<1>6. CASE DeliverSample
  <2>1. ready # <<>> /\ ready' = Tail(ready) /\ posted' = Append(posted, Head(ready)) /\ Sent' = Sent
    BY <1>6, SentChanges DEF DeliverSample, NextIs, world
  <2>2. /\ Rising(Append(posted, Head(ready))) /\ Rising(Tail(ready))
        /\ Precedes(Append(posted, Head(ready)), Tail(ready))
        /\ Precedes(Append(posted, Head(ready)), Sent) /\ Precedes(Tail(ready), Sent)
    BY <1>1, <2>1, HandedOver DEF InLine, Ordered
  <2>3. QED  BY <2>1, <2>2 DEF InLine, Ordered
<1>7. CASE ~Moving
  BY <1>1, <1>2, <1>7, QuietSteps, RemainsOrdered DEF InLine
<1>8. QED  BY <1>3, <1>4, <1>5, <1>6, <1>7 DEF Moving

\* A sample on its way after a step was on its way before it, or is the value
\* that the server has now.
OnItsWay(t) == \E q \in {posted, ready, Sent} : \E i \in DOMAIN q : q[i] = t

LEMMA Origin ==
    ASSUME TypeOK, TypeOK', Next \/ UNCHANGED vars, NEW t, t.kind = "deliver", OnItsWay(t)'
    PROVE  OnItsWay(t) \/ \E s \in Samples : t = Deliver(s) /\ s.at = value'[s.element]
<1>1. /\ posted \in Seq(Tasks) /\ ready \in Seq(Tasks) /\ Sent \in Seq(Tasks)
      /\ posted' \in Seq(Tasks) /\ ready' \in Seq(Tasks) /\ wire' \in Seq(Samples)
  BY SentTypes DEF TypeOK
<1>2. Sent' \in Seq(Tasks)
  BY <1>1, AsTasksTypes DEF Sent
<1>3. ASSUME NEW q \in Seq(Tasks), NEW u \in Tasks, NEW i \in DOMAIN Append(q, u)
      PROVE  (\E j \in DOMAIN q : q[j] = Append(q, u)[i]) \/ Append(q, u)[i] = u
  BY TaskAdded
<1>4. ASSUME NEW e \in Elements, Change(e)
      PROVE  OnItsWay(t) \/ \E s \in Samples : t = Deliver(s) /\ s.at = value'[s.element]
  <2>1. clock + 1 \in Times
    BY <1>4, DeliveryAssumption DEF Change, TypeOK, Times
  <2>2. PICK s \in Samples : s = Sample(e, clock + 1) /\ s.element = e /\ s.at = clock + 1
    BY <2>1, SamplesMade
  <2>3. Sent' = Sent \/ Sent' = Append(Sent, Deliver(s))
    BY <1>4, <2>2, SentChanges DEF Change
  <2>4. s.at = value'[s.element]
    BY <1>4, <2>2 DEF Change, TypeOK
  <2>5. posted' = posted /\ ready' = ready
    BY <1>4 DEF Change, worker
  <2>6. PICK q \in {posted', ready', Sent'} : \E i \in DOMAIN q : q[i] = t
    BY DEF OnItsWay
  <2>7. Deliver(s) \in Tasks
    BY TasksMade
  <2>8. CASE q \in {posted, ready, Sent}
    BY <2>6, <2>8 DEF OnItsWay
  <2>9. CASE q = Append(Sent, Deliver(s))
    <3>1. (\E j \in DOMAIN Sent : Sent[j] = t) \/ t = Deliver(s)
      BY <1>1, <1>3, <2>6, <2>7, <2>9
    <3>2. QED  BY <2>4, <3>1 DEF OnItsWay
  <2>10. QED  BY <2>3, <2>5, <2>6, <2>8, <2>9
<1>5. ASSUME Restore
      PROVE  OnItsWay(t) \/ \E s \in Samples : t = Deliver(s) /\ s.at = value'[s.element]
  <2>1. /\ wire' = [i \in DOMAIN Restored |-> Sample(Restored[i], value[Restored[i]])]
        /\ posted' = posted /\ ready' = ready /\ value' = value
    BY <1>5 DEF Restore, worker
  <2>2. ASSUME NEW j \in DOMAIN Sent'
        PROVE  \E s \in Samples : Sent'[j] = Deliver(s) /\ s.at = value'[s.element]
    <3>1. DOMAIN Sent' = 1..Len(wire') /\ 1..Len(wire') = DOMAIN wire' /\ Sent'[j] = Deliver(wire'[j])
      BY <1>1, <2>2, AsTasksTypes, LenProperties DEF Sent
    <3>2. j \in DOMAIN Restored
      BY <2>1, <2>2, <3>1
    <3>3. Restored[j] \in Elements
      BY <3>2, DeliveryAssumption, LenProperties, ElementOfSeq
    <3>4. PICK s \in Samples : s = Sample(Restored[j], value[Restored[j]]) /\ s.element = Restored[j]
                              /\ s.at = value[Restored[j]]
      BY <3>3, SamplesMade DEF TypeOK
    <3>5. QED  BY <2>1, <3>1, <3>2, <3>4
  <2>3. QED  BY <2>1, <2>2 DEF OnItsWay
<1>6. ASSUME NEW p \in Seq(Tasks), NEW q \in Seq(Tasks), q # <<>>, NEW i,
             \/ i \in DOMAIN Append(p, Head(q)) /\ Append(p, Head(q))[i] = t
             \/ i \in DOMAIN Tail(q) /\ Tail(q)[i] = t
      PROVE  (\E j \in DOMAIN p : p[j] = t) \/ (\E j \in DOMAIN q : q[j] = t)
  BY <1>3, <1>6, TaskTaken
<1>7. ASSUME Notify PROVE OnItsWay(t)
  <2>1. Sent # <<>> /\ Sent' = Tail(Sent) /\ ready' = Append(ready, Head(Sent)) /\ posted' = posted
    BY <1>7, SentChanges DEF Notify
  <2>2. PICK q \in {posted, Append(ready, Head(Sent)), Tail(Sent)} : \E i \in DOMAIN q : q[i] = t
    BY <2>1 DEF OnItsWay
  <2>3. (\E j \in DOMAIN posted : posted[j] = t) \/ (\E j \in DOMAIN ready : ready[j] = t)
          \/ (\E j \in DOMAIN Sent : Sent[j] = t)
    <3>1. PICK i \in DOMAIN q : q[i] = t
      BY <2>2
    <3>2. CASE q = posted
      BY <3>1, <3>2
    <3>3. q = Append(ready, Head(Sent)) => (\E j \in DOMAIN ready : ready[j] = t) \/ (\E j \in DOMAIN Sent : Sent[j] = t)
      BY <1>1, <1>6, <2>1, <3>1
    <3>4. q = Tail(Sent) => (\E j \in DOMAIN ready : ready[j] = t) \/ (\E j \in DOMAIN Sent : Sent[j] = t)
      BY <1>1, <1>6, <2>1, <3>1
    <3>5. QED  BY <2>2, <3>2, <3>3, <3>4
  <2>4. QED  BY <2>3 DEF OnItsWay
<1>8. ASSUME DeliverSample PROVE OnItsWay(t)
  <2>1. ready # <<>> /\ ready' = Tail(ready) /\ posted' = Append(posted, Head(ready)) /\ Sent' = Sent
    BY <1>8, SentChanges DEF DeliverSample, NextIs, world
  <2>2. PICK q \in {Append(posted, Head(ready)), Tail(ready), Sent} : \E i \in DOMAIN q : q[i] = t
    BY <2>1 DEF OnItsWay
  <2>3. (\E j \in DOMAIN posted : posted[j] = t) \/ (\E j \in DOMAIN ready : ready[j] = t)
          \/ (\E j \in DOMAIN Sent : Sent[j] = t)
    <3>1. PICK i \in DOMAIN q : q[i] = t
      BY <2>2
    <3>2. CASE q = Sent
      BY <3>1, <3>2
    <3>3. q = Append(posted, Head(ready)) => (\E j \in DOMAIN posted : posted[j] = t) \/ (\E j \in DOMAIN ready : ready[j] = t)
      BY <1>1, <1>6, <2>1, <3>1
    <3>4. q = Tail(ready) => (\E j \in DOMAIN posted : posted[j] = t) \/ (\E j \in DOMAIN ready : ready[j] = t)
      BY <1>1, <1>6, <2>1, <3>1
    <3>5. QED  BY <2>2, <3>2, <3>3, <3>4
  <2>4. QED  BY <2>3 DEF OnItsWay
<1>9. ASSUME ~Moving PROVE OnItsWay(t)
  <2>1. Remains(posted', posted) /\ Remains(ready', ready) /\ Remains(Sent', Sent)
    BY <1>9, QuietSteps
  <2>2. ASSUME NEW p \in Seq(Tasks), NEW q \in Seq(Tasks), Remains(p, q), NEW i \in DOMAIN p, p[i] = t
        PROVE  \E k \in DOMAIN q : q[k] = t
    BY <2>2, RemainsInOrder
  <2>3. QED  BY <1>1, <1>2, <2>1, <2>2 DEF OnItsWay
<1>10. QED  BY <1>4, <1>5, <1>7, <1>8, <1>9 DEF Moving

\* The values of the server only grow.
LEMMA ValuesGrow ==
    ASSUME TypeOK, TypeOK', Current, Next \/ UNCHANGED vars
    PROVE  \A e \in Elements : value[e] <= value'[e] /\ value'[e] <= clock'
<1>1. /\ clock \in Nat /\ \A e \in Elements : value[e] \in Nat /\ value[e] <= clock
  BY DeliveryAssumption DEF TypeOK, Times, Current
<1>2. ASSUME NEW e \in Elements, Change(e)
      PROVE  \A d \in Elements : value[d] <= value'[d] /\ value'[d] <= clock'
  BY <1>1, <1>2 DEF Change, TypeOK
<1>3. (\E e \in Elements : Change(e)) \/ UNCHANGED <<value, clock>>
  BY DEF Next, ServerStep, WorkerStep, MainStep, ClientStep, Connect, Restore, Drop, Notify,
         DeliverSample, BeginRead, ReadLeaf, EndRead, StopBinding, StopLoop, CloseLoop, FanOut,
         FanOutCancelled, Answer, StopPool, Join, StopUpstream, Ask, OpenStream, CloseStream, Signal,
         vars, world
<1>4. QED  BY <1>1, <1>2, <1>3

\* What is known never grows old.
LEMMA CurrentStep ==
    ASSUME Typed, Typed', InLine, Current, Next \/ UNCHANGED vars
    PROVE  /\ Current'
           /\ \A e \in Elements : Known(e) # None => Known(e)' # None /\ Known(e) <= Known(e)'
<1>1. TypeOK /\ TypeOK' /\ HasLast /\ LatestIsKnown /\ Complete
  BY DEF Typed
<1>2. /\ posted \in Seq(Tasks) /\ ready \in Seq(Tasks) /\ Sent \in Seq(Tasks)
      /\ posted' \in Seq(Tasks) /\ ready' \in Seq(Tasks) /\ wire' \in Seq(Samples)
  BY <1>1, SentTypes DEF TypeOK
<1>3. Sent' \in Seq(Tasks)
  BY <1>2, AsTasksTypes DEF Sent
<1>4. \A e \in Elements : value[e] \in Int /\ value'[e] \in Int /\ value[e] <= value'[e] /\ value'[e] <= clock'
  <2>1. \A e \in Elements : value[e] \in Int /\ value'[e] \in Int
    BY <1>1 DEF TypeOK, Times
  <2>2. QED  BY <1>1, <2>1, ValuesGrow
<1>5. \A e \in Elements : /\ Known(e) \in Times \cup {None}
                          /\ Known(e) # None => Known(e) \in Int /\ Known(e) <= value[e]
  BY <1>1, KnownType DEF Current, Times
<1>6. ASSUME NEW t \in Tasks, t.kind = "deliver", OnItsWay(t)
      PROVE  Due(t, value, Knowledge)
  BY <1>6 DEF OnItsWay, Current, AllDue
<1>7. SUFFICES /\ \A t \in Tasks : (t.kind = "deliver" /\ OnItsWay(t)') => Due(t, value', Knowledge')
               /\ \A e \in Elements :
                    /\ Known(e)' # None => Known(e)' <= value'[e]
                    /\ Known(e) # None => Known(e)' # None /\ Known(e) <= Known(e)'
  <2>1. ASSUME NEW q \in {posted', ready', Sent'},
               \A t \in Tasks : (t.kind = "deliver" /\ OnItsWay(t)') => Due(t, value', Knowledge')
        PROVE  AllDue(q, value', Knowledge')
    <3> SUFFICES ASSUME NEW i \in DOMAIN q PROVE Due(q[i], value', Knowledge')
      BY DEF AllDue
    <3>1. q \in Seq(Tasks)
      BY <1>2, <1>3
    <3>2. q[i] \in Tasks
      BY <3>1, LenProperties, ElementOfSeq
    <3>3. OnItsWay(q[i])'
      BY DEF OnItsWay
    <3>4. QED  BY <2>1, <3>2, <3>3 DEF Due
  <2>2. QED  BY <1>4, <2>1 DEF Current
<1>8. CASE UNCHANGED <<delivered, history>>
  <2>1. \A e \in Elements : Known(e)' = Known(e)
    BY <1>8 DEF Known
  <2>2. \A e \in Elements : /\ Known(e)' # None => Known(e)' <= value'[e]
                            /\ Known(e) # None => Known(e)' # None /\ Known(e) <= Known(e)'
    <3> SUFFICES ASSUME NEW e \in Elements, Known(e) # None
                 PROVE  Known(e) <= value'[e] /\ Known(e) <= Known(e)
      BY <2>1
    <3>1. Known(e) \in Int /\ Known(e) <= value[e]
      BY <1>5
    <3>2. value[e] \in Int /\ value'[e] \in Int /\ value[e] <= value'[e]
      BY <1>4
    <3>3. QED  BY <3>1, <3>2
  <2>3. ASSUME NEW t \in Tasks, t.kind = "deliver", OnItsWay(t)' PROVE Due(t, value', Knowledge')
    <3>1. t.sample \in Samples /\ t.sample.element \in Elements /\ t.sample.at \in Int
      BY <2>3, TaskFields, SampleFields DEF Times
    <3>2. Knowledge'[t.sample.element] = Known(t.sample.element)
      BY <2>1, <3>1 DEF Knowledge
    <3>3. CASE OnItsWay(t)
      <4>1. Due(t, value, Knowledge)
        BY <1>6, <2>3, <3>3
      <4>2. Knowledge[t.sample.element] = Known(t.sample.element)
        BY <3>1 DEF Knowledge
      <4>3. QED  BY <1>4, <2>3, <3>1, <3>2, <4>1, <4>2 DEF Due
    <3>4. ASSUME NEW s \in Samples, t = Deliver(s), s.at = value'[s.element] PROVE Due(t, value', Knowledge')
      <4>1. t.sample = s
        BY <3>4, TasksMade
      <4>2. Known(s.element) # None =>
              Known(s.element) \in Int /\ Known(s.element) <= value[s.element]
        BY <1>5, <3>1, <4>1
      <4>3. value[s.element] \in Int /\ value'[s.element] \in Int /\ value[s.element] <= value'[s.element]
        BY <1>4, <3>1, <4>1
      <4>4. Known(s.element) # None => Known(s.element) <= s.at
        BY <3>4, <4>2, <4>3
      <4>5. s.at <= value'[s.element]
        BY <3>4, <4>3
      <4>6. QED  BY <3>2, <4>1, <4>4, <4>5 DEF Due
    <3>5. QED  BY <1>1, <2>3, <3>3, <3>4, Origin
  <2>4. QED  BY <2>2, <2>3
<1>9. CASE FanOut
  <2>1. posted # <<>> /\ Head(posted).kind = "deliver" /\ posted' = Tail(posted)
        /\ UNCHANGED <<ready, wire, value>>
    BY <1>9 DEF FanOut, PostedIs, worker, world
  <2>2. /\ Head(posted) \in Tasks /\ Head(posted) = posted[1] /\ 1 \in DOMAIN posted
        /\ \A i \in DOMAIN posted' : i + 1 \in DOMAIN posted /\ posted'[i] = posted[i + 1]
    BY <1>2, <2>1, TaskTaken
  <2>3. PICK s \in Samples : s = posted[1].sample
    BY <2>1, <2>2, TaskFields
  <2>4. s.element \in Elements /\ s.at \in Int
    BY SampleFields DEF Times
  <2>5. \A e \in Elements : Known(e)' = IF e = s.element THEN s.at ELSE Known(e)
    BY <1>1, <1>9, <2>2, <2>3, FanOutKnows
  <2>6. s.at <= value[s.element] /\ (Known(s.element) # None => Known(s.element) <= s.at)
    <3>1. Due(posted[1], value, Knowledge)
      BY <2>2 DEF Current, AllDue
    <3>2. QED  BY <2>1, <2>2, <2>3, <2>4, <3>1 DEF Due, Knowledge
  <2>7. s.at # None
    BY DeliveryAssumption, SampleFields DEF Times
  <2>8. \A e \in Elements : /\ Known(e)' # None => Known(e)' <= value'[e]
                            /\ Known(e) # None => Known(e)' # None /\ Known(e) <= Known(e)'
    <3> SUFFICES ASSUME NEW e \in Elements
                 PROVE  /\ Known(e)' # None => Known(e)' <= value[e]
                        /\ Known(e) # None => Known(e)' # None /\ Known(e) <= Known(e)'
      BY <2>1
    <3>1. CASE e = s.element
      BY <2>5, <2>6, <2>7, <3>1
    <3>2. CASE e # s.element
      <4>1. Known(e)' = Known(e) /\ (Known(e) # None => Known(e) \in Int /\ Known(e) <= value[e])
        BY <1>5, <2>5, <3>2
      <4>2. QED  BY <4>1
    <3>3. QED  BY <3>1, <3>2
  <2>9. ASSUME NEW t \in Tasks, t.kind = "deliver", OnItsWay(t)'
        PROVE  OnItsWay(t) /\ InOrder(posted[1], t)
    <3>1. Sent' = Sent
      BY <1>1, <2>1, SentChanges
    <3>2. ASSUME NEW i \in DOMAIN posted', posted'[i] = t PROVE OnItsWay(t) /\ InOrder(posted[1], t)
      <4>1. i \in Nat \ {0}
        BY <1>2, LenProperties
      <4>2. 1 < i + 1 /\ i + 1 \in DOMAIN posted /\ posted[i + 1] = t
        BY <2>2, <3>2, <4>1
      <4>3. InOrder(posted[1], posted[i + 1])
        BY <2>2, <4>2 DEF InLine, Ordered, Rising
      <4>4. QED  BY <4>2, <4>3 DEF OnItsWay
    <3>3. ASSUME NEW q \in {ready, Sent}, NEW i \in DOMAIN q, q[i] = t PROVE OnItsWay(t) /\ InOrder(posted[1], t)
      BY <2>2, <3>3 DEF OnItsWay, InLine, Ordered, Precedes
    <3>4. QED  BY <2>1, <2>9, <3>1, <3>2, <3>3 DEF OnItsWay
  <2>10. ASSUME NEW t \in Tasks, t.kind = "deliver", OnItsWay(t)' PROVE Due(t, value', Knowledge')
    <3>1. t.sample.element \in Elements /\ t.sample.at \in Int
      BY <2>10, TaskFields, SampleFields DEF Times
    <3>2. Due(t, value, Knowledge) /\ InOrder(posted[1], t)
      BY <1>6, <2>9, <2>10
    <3>3. t.sample.at <= value'[t.sample.element]
      BY <2>1, <2>10, <3>2 DEF Due
    <3>4. Knowledge'[t.sample.element] = IF t.sample.element = s.element THEN s.at ELSE Knowledge[t.sample.element]
      BY <2>5, <3>1 DEF Knowledge
    <3>5. t.sample.element = s.element => s.at <= t.sample.at
      BY <2>1, <2>2, <2>3, <2>10, <3>2 DEF InOrder
    <3>6. QED  BY <2>10, <3>2, <3>3, <3>4, <3>5 DEF Due
  <2>11. QED  BY <2>8, <2>10
<1>10. QED  BY <1>8, <1>9, KnownStays

--------------------------------------------------------------------------
(* Requests.                                                               *)

\* What a request saw when it was made is no newer than what is known now.
Behind(b, e) ==
  /\ b.value[e] <= value[e]
  /\ b.delivered[e] # None =>
       Known(e) # None /\ b.delivered[e] <= Known(e) /\ b.delivered[e] <= b.value[e]

\* What a request has read is no older than what the server had.
ReadSince(r) ==
  /\ Len(parts[r]) <= Len(Leaves[r])
  /\ \A i \in DOMAIN parts[r] : parts[r][i] # None => parts[r][i] >= before[r].value[Leaves[r][i]]

Asked ==
  \A r \in Requests :
    /\ call[r] = "new" => parts[r] = <<>>
    /\ \A e \in Elements : Behind(before[r], e)
    /\ ReadSince(r)

LEMMA BeforeTypes ==
    ASSUME TypeOK, NEW r \in Requests, NEW e \in Elements
    PROVE  /\ before[r].value[e] \in Times /\ value[e] \in Times /\ before[r].value \in [Elements -> Times]
           /\ before[r].delivered[e] \in Times \cup {None}
           /\ Times \subseteq Int /\ None \notin Times
<1>1. Times \subseteq Int /\ None \notin Times
  BY DeliveryAssumption DEF Times
<1>2. QED  BY <1>1 DEF TypeOK

\* Only Ask changes what a request saw, only reading what it has, and no
\* request becomes new again.
LEMMA RequestSteps ==
    ASSUME TypeOK, Next \/ UNCHANGED vars
    PROVE  /\ (\E r \in Requests : Ask(r)) \/ UNCHANGED before
           /\ \A q \in Requests : call'[q] = "new" => call[q] = "new"
           /\ \/ \E kind \in {"result", "raised"} : Answer(kind)
              \/ UNCHANGED answer /\ \A q \in Requests : call'[q] = "answered" => call[q] = "answered"
<1>1. ASSUME NEW r, NEW c, c \in {"asked", "reading", "returned"}, call' = [call EXCEPT ![r] = c]
      PROVE  \A q \in Requests : call'[q] \in {"new", "answered"} => call'[q] = call[q]
  BY <1>1 DEF TypeOK
<1>2. ASSUME NEW r, call' = [call EXCEPT ![r] = "answered"]
      PROVE  \A q \in Requests : call'[q] = "new" => call[q] = "new"
  BY <1>2 DEF TypeOK
<1>3. ASSUME NEW r \in Requests, Ask(r)
      PROVE  UNCHANGED answer /\ \A q \in Requests : call'[q] \in {"new", "answered"} => call'[q] = call[q]
  BY <1>1, <1>3 DEF Ask
<1>4. ASSUME BeginRead
      PROVE  UNCHANGED <<answer, before>> /\ \A q \in Requests : call'[q] \in {"new", "answered"} => call'[q] = call[q]
  <2>1. \E c \in {"reading", "returned"} : call' = [call EXCEPT ![Head(ready).request] = c]
    BY <1>4 DEF BeginRead
  <2>2. QED  BY <1>1, <1>4, <2>1 DEF BeginRead
<1>5. ASSUME NEW r \in Requests, EndRead(r)
      PROVE  UNCHANGED <<answer, before>> /\ \A q \in Requests : call'[q] \in {"new", "answered"} => call'[q] = call[q]
  BY <1>1, <1>5 DEF EndRead
<1>6. ASSUME NEW kind \in {"result", "raised"}, Answer(kind)
      PROVE  UNCHANGED before /\ \A q \in Requests : call'[q] = "new" => call[q] = "new"
  BY <1>2, <1>6 DEF Answer
<1>7. \/ \E r \in Requests : Ask(r) \/ EndRead(r)
      \/ BeginRead \/ Answer("result") \/ Answer("raised")
      \/ UNCHANGED <<call, answer, before>>
  BY DEF Next, ServerStep, WorkerStep, MainStep, ClientStep, Change, Connect, Restore, Drop, Notify,
         DeliverSample, ReadLeaf, StopBinding, StopLoop, CloseLoop, FanOut, FanOutCancelled,
         StopPool, Join, StopUpstream, OpenStream, CloseStream, Signal, vars, requests
<1>8. QED  BY <1>3, <1>4, <1>5, <1>6, <1>7

LEMMA AskedStep ==
    ASSUME Typed, Typed', InLine, Current, Asked, Next \/ UNCHANGED vars
    PROVE  Asked'
<1>1. TypeOK /\ TypeOK' /\ LatestIsKnown
  BY DEF Typed
<1>2. \A e \in Elements :
        /\ value[e] \in Int /\ value'[e] \in Int /\ value[e] <= value'[e]
        /\ Known(e) \in Int \cup {None} /\ Known(e)' \in Int \cup {None}
        /\ Known(e) # None => Known(e)' # None /\ Known(e) <= Known(e)' /\ Known(e) <= value[e]
  <2>1. Times \subseteq Int
    BY DEF Times
  <2>2. \A e \in Elements : Known(e) \in Times \cup {None} /\ Known(e)' \in Times \cup {None}
    <3>1. \A e \in Elements : Known(e) \in Times \cup {None}
      BY <1>1, KnownType
    <3>2. CASE FanOut
      <4>1. PICK s \in Samples : s = Head(posted).sample
        BY <1>1, <3>2, PostedSample DEF FanOut
      <4>2. \A e \in Elements : Known(e)' = IF e = s.element THEN s.at ELSE Known(e)
        BY <1>1, <3>2, <4>1, FanOutKnows DEF Typed
      <4>3. QED  BY <3>1, <4>2, SampleFields
    <3>3. CASE UNCHANGED <<delivered, history>>
      BY <3>1, <3>3 DEF Known
    <3>4. QED  BY <3>1, <3>2, <3>3, KnownStays
  <2>3. \A e \in Elements : value[e] \in Times /\ value'[e] \in Times
    BY <1>1 DEF TypeOK
  <2>4. QED  BY <1>1, <2>1, <2>2, <2>3, ValuesGrow, CurrentStep DEF Current
<1>3. ASSUME NEW q \in Requests, before'[q] = before[q]
      PROVE  \A e \in Elements : Behind(before[q], e)'
  <2> SUFFICES ASSUME NEW e \in Elements PROVE Behind(before[q], e)'
    OBVIOUS
  <2>1. before[q].value[e] \in Int /\ before[q].delivered[e] \in Int \cup {None}
    BY <1>1, BeforeTypes
  <2>2. Behind(before[q], e)
    BY DEF Asked
  <2>3. QED  BY <1>2, <1>3, <2>1, <2>2 DEF Behind
<1>4. ASSUME NEW r \in Requests, Ask(r), NEW q \in Requests
      PROVE  /\ parts' = parts
             /\ \A e \in Elements : Behind(before[q], e)'
             /\ ReadSince(q)'
  <2>1. parts' = parts /\ call[r] = "new" /\ value' = value /\ history' = history
    BY <1>4 DEF Ask, world
  <2>2. CASE q = r
    <3>1. before'[q] = [value |-> value, delivered |-> [e \in Elements |-> Latest(e)]]
      BY <1>1, <1>4, <2>2 DEF Ask, TypeOK
    <3>2. \A e \in Elements : Behind(before[q], e)'
      <4> SUFFICES ASSUME NEW e \in Elements PROVE Behind(before[q], e)'
        OBVIOUS
      <4>1. before'[q].value[e] = value[e] /\ before'[q].delivered[e] = Known(e)
        BY <1>1, <3>1 DEF LatestIsKnown
      <4>2. Known(e)' = Known(e)
        BY <2>1 DEF Known
      <4>3. QED  BY <1>2, <2>1, <4>1, <4>2 DEF Behind
    <3>3. parts'[q] = <<>>
      BY <2>1, <2>2 DEF Asked
    <3>4. Len(Leaves[q]) \in Nat
      BY DeliveryAssumption, LenProperties
    <3>5. QED  BY <2>1, <3>2, <3>3, <3>4 DEF ReadSince
  <2>3. CASE q # r
    <3>1. before'[q] = before[q]
      BY <1>1, <1>4, <2>3 DEF Ask, TypeOK
    <3>2. QED  BY <1>3, <2>1, <3>1 DEF Asked, ReadSince
  <2>4. QED  BY <2>2, <2>3
<1>5. ASSUME NEW r \in Requests, ReadLeaf(r), NEW q \in Requests
      PROVE  (call'[q] = "new" => parts'[q] = <<>>) /\ before' = before /\ ReadSince(q)'
  <2>1. before' = before /\ call' = call /\ call[r] = "reading"
    BY <1>5 DEF ReadLeaf
  <2>2. CASE q # r
    <3>1. parts'[q] = parts[q]
      BY <1>1, <1>5, <2>2 DEF ReadLeaf, TypeOK
    <3>2. QED  BY <2>1, <3>1 DEF Asked, ReadSince
  <2>3. CASE q = r
    <3>1. parts[r] \in Seq(Times \cup {None}) /\ Leaves[r] \in Seq(Elements)
      BY <1>1, DeliveryAssumption DEF TypeOK
    <3>2. PICK n \in Nat : n = Len(parts[r]) /\ DOMAIN parts[r] = 1..n
      BY <3>1, LenProperties
    <3>3. Len(Leaves[r]) \in Nat /\ n < Len(Leaves[r])
      BY <1>5, <3>1, <3>2, LenProperties DEF ReadLeaf
    <3>4. PICK e \in Elements : e = Leaves[r][n + 1]
      BY <3>1, <3>3, ElementOfSeq
    <3>5. PICK t \in {None} \cup (IF current[r] THEN {value[e]} ELSE {}) :
            parts' = [parts EXCEPT ![r] = Append(parts[r], t)]
      BY <1>5, <3>2, <3>4 DEF ReadLeaf
    <3>6. t = None \/ t = value[e]
      BY <3>5
    <3>7. t \in Times \cup {None}
      BY <1>1, <3>6 DEF TypeOK
    <3>8. parts'[r] = Append(parts[r], t)
      BY <1>1, <3>5 DEF TypeOK
    <3>9. /\ parts'[r] \in Seq(Times \cup {None}) /\ Len(parts'[r]) = n + 1
          /\ \A i \in 1..n : parts'[r][i] = parts[r][i]
          /\ parts'[r][n + 1] = t
      BY <3>1, <3>2, <3>7, <3>8, AppendProperties
    <3>10. DOMAIN parts'[r] = 1..(n + 1)
      BY <3>9, LenProperties
    <3>11. t # None => t >= before[r].value[e]
      BY <1>1, <3>6, BeforeTypes DEF Asked, Behind
    <3>12. \A i \in 1..n : parts[r][i] # None => parts[r][i] >= before[r].value[Leaves[r][i]]
      BY <3>2 DEF Asked, ReadSince
    <3>13. \A i \in 1..(n + 1) : i \in 1..n \/ i = n + 1
      OBVIOUS
    <3>14. \A i \in DOMAIN parts'[r] : parts'[r][i] # None => parts'[r][i] >= before[r].value[Leaves[r][i]]
      BY <3>4, <3>9, <3>10, <3>11, <3>12, <3>13
    <3>15. Len(parts'[r]) <= Len(Leaves[r])
      BY <3>3, <3>9
    <3>16. QED  BY <2>1, <2>3, <3>14, <3>15 DEF ReadSince
  <2>4. QED  BY <2>2, <2>3
<1>6. ASSUME UNCHANGED <<parts, before>>, NEW q \in Requests PROVE ReadSince(q)'
  BY <1>6 DEF Asked, ReadSince
<1>7. SUFFICES ASSUME NEW q \in Requests
      PROVE  /\ call'[q] = "new" => parts'[q] = <<>>
             /\ \A e \in Elements : Behind(before[q], e)'
             /\ ReadSince(q)'
  BY DEF Asked
<1>8. CASE \E r \in Requests : Ask(r)
  BY <1>1, <1>4, <1>8, RequestSteps DEF Asked
<1>9. CASE \E r \in Requests : ReadLeaf(r)
  BY <1>3, <1>5, <1>9
<1>10. CASE UNCHANGED <<parts, before>>
  BY <1>1, <1>3, <1>6, <1>10, RequestSteps DEF Asked
<1>11. QED  BY <1>1, <1>8, <1>9, <1>10, RequestSteps, PartsAdded

--------------------------------------------------------------------------
(* Answers.                                                                *)

\* What the last action of a request puts into its answer.
LEMMA AnswerIsRecent ==
    ASSUME Typed, Current, Asked, NEW kind \in {"result", "raised"}, Answer(kind),
           NEW r \in Requests, r = Head(posted).request, NEW i \in DOMAIN Leaves[r]
    PROVE  /\ answer'[r] = Result(r, kind) /\ i \in DOMAIN answer'[r]
           /\ answer'[r][i].good =>
                answer'[r][i].at # None /\ answer'[r][i].at >= before[r].value[Leaves[r][i]]
           /\ NotOlder(answer'[r][i].at, before[r].delivered[Leaves[r][i]])
<1>1. TypeOK /\ Complete
  BY DEF Typed
<1>2. posted # <<>> /\ Head(posted) \in Tasks /\ Head(posted) = posted[1] /\ 1 \in DOMAIN posted
      /\ Head(posted).kind = kind
  <2>1. posted # <<>> /\ Head(posted).kind = kind /\ posted \in Seq(Tasks)
    BY <1>1 DEF Answer, PostedIs, TypeOK
  <2>2. QED  BY <2>1, TaskTaken
<1>3. kind = "raised" \/ Len(parts[r]) = Len(Leaves[r])
  BY <1>1, <1>2 DEF Complete
<1>4. answer'[r] = Result(r, kind)
  BY <1>1 DEF Answer, TypeOK
<1>5. PICK e \in Elements : e = Leaves[r][i]
  <2>1. Leaves[r] \in Seq(Elements)
    BY DeliveryAssumption
  <2>2. QED  BY <2>1, LenProperties, ElementOfSeq
<1>6. DOMAIN Result(r, kind) = DOMAIN Leaves[r]
      /\ \/ Result(r, kind)[i] = Stale(Leaves[r][i])
         \/ kind # "raised" /\ parts[r][i] # None /\ Result(r, kind)[i] = Part(parts[r][i], TRUE)
  <2>1. DOMAIN Result(r, kind) = DOMAIN Leaves[r]
    BY DEF Result
  <2>2. CASE kind = "raised" \/ parts[r][i] = None
    BY <2>1, <2>2 DEF Result
  <2>3. CASE ~(kind = "raised" \/ parts[r][i] = None)
    BY <2>1, <2>3 DEF Result
  <2>4. QED  BY <2>1, <2>2, <2>3
<1>7. Behind(before[r], e)
  BY DEF Asked
<1>8. CASE Result(r, kind)[i] = Stale(Leaves[r][i])
  <2>1. answer'[r][i].at = Known(e) /\ ~answer'[r][i].good
    BY <1>4, <1>5, <1>8 DEF Stale, Part, Known
  <2>2. Known(e) \in Times \cup {None}
    BY <1>1, KnownType
  <2>3. before[r].delivered[e] \in Times \cup {None} /\ Times \subseteq Int
    BY <1>1, BeforeTypes
  <2>4. NotOlder(Known(e), before[r].delivered[e])
    BY <1>7, <2>2, <2>3 DEF NotOlder, Behind
  <2>5. QED  BY <1>4, <1>5, <1>6, <2>1, <2>4
<1>9. CASE kind # "raised" /\ parts[r][i] # None /\ Result(r, kind)[i] = Part(parts[r][i], TRUE)
  <2>1. answer'[r][i].at = parts[r][i]
    BY <1>4, <1>9 DEF Part
  <2>2. i \in DOMAIN parts[r] /\ parts[r][i] \in Times \cup {None}
    <3>1. parts[r] \in Seq(Times \cup {None}) /\ Leaves[r] \in Seq(Elements)
      BY <1>1, DeliveryAssumption DEF TypeOK
    <3>2. i \in 1..Len(parts[r]) /\ DOMAIN parts[r] = 1..Len(parts[r])
      BY <1>3, <1>9, <3>1, LenProperties
    <3>3. QED  BY <3>1, <3>2, ElementOfSeq
  <2>3. parts[r][i] >= before[r].value[e]
    BY <1>5, <1>9, <2>2 DEF Asked, ReadSince
  <2>4. /\ before[r].value[e] \in Times /\ before[r].delivered[e] \in Times \cup {None}
        /\ Times \subseteq Int
    BY <1>1, BeforeTypes
  <2>5. NotOlder(parts[r][i], before[r].delivered[e])
    <3>1. parts[r][i] \in Int /\ before[r].value[e] \in Int
      BY <1>9, <2>2, <2>4
    <3>2. ASSUME before[r].delivered[e] # None PROVE before[r].delivered[e] <= parts[r][i]
      <4>1. before[r].delivered[e] \in Int /\ before[r].delivered[e] <= before[r].value[e]
        BY <1>7, <2>4, <3>2 DEF Behind
      <4>2. QED  BY <2>3, <3>1, <4>1
    <3>3. before[r].delivered[e] # None => before[r].delivered[e] \in Int
      BY <2>4
    <3>4. QED  BY <1>9, <3>1, <3>2, <3>3 DEF NotOlder
  <2>6. QED  BY <1>4, <1>5, <1>6, <1>9, <2>1, <2>3, <2>5
<1>10. QED  BY <1>6, <1>8, <1>9

\* A part that was not read spoils the quality of the whole.
LEMMA BadPart ==
    ASSUME NEW r, NEW a, NEW i \in DOMAIN a, ~a[i].good
    PROVE  BestQuality({Quality(Leaves[r][j], a[j]) : j \in DOMAIN a}) = "Bad"
BY DEF BestQuality, Quality

LEMMA ReadIsRecentStep ==
    ASSUME Typed, Current, Asked, ReadIsRecent, Next \/ UNCHANGED vars
    PROVE  ReadIsRecent'
<1>1. TypeOK
  BY DEF Typed
<1> SUFFICES ASSUME NEW q \in Requests, call'[q] = "answered", NEW i \in DOMAIN Leaves[q]
    PROVE  /\ answer'[q][i].good =>
                answer'[q][i].at # None /\ answer'[q][i].at >= before'[q].value[Leaves[q][i]]
           /\ NotOlder(answer'[q][i].at, before'[q].delivered[Leaves[q][i]])
           /\ ~answer'[q][i].good => Overall(q)' = "Bad"
  BY DEF ReadIsRecent, NotOlder
<1>2. ASSUME answer'[q] = answer[q], before'[q] = before[q], call[q] = "answered"
      PROVE  /\ answer'[q][i].good =>
                  answer'[q][i].at # None /\ answer'[q][i].at >= before'[q].value[Leaves[q][i]]
             /\ NotOlder(answer'[q][i].at, before'[q].delivered[Leaves[q][i]])
             /\ ~answer'[q][i].good => Overall(q)' = "Bad"
  BY <1>2 DEF ReadIsRecent, Overall
<1>3. ASSUME NEW r \in Requests, Ask(r) PROVE answer'[q] = answer[q] /\ before'[q] = before[q] /\ call[q] = "answered"
  <2>1. q # r /\ call'[q] = call[q]
    BY <1>1, <1>3 DEF Ask, TypeOK
  <2>2. QED  BY <1>1, <1>3, <2>1 DEF Ask, TypeOK
<1>4. ASSUME NEW kind \in {"result", "raised"}, Answer(kind)
      PROVE  /\ answer'[q][i].good =>
                  answer'[q][i].at # None /\ answer'[q][i].at >= before'[q].value[Leaves[q][i]]
             /\ NotOlder(answer'[q][i].at, before'[q].delivered[Leaves[q][i]])
             /\ ~answer'[q][i].good => Overall(q)' = "Bad"
  <2>1. before' = before
    BY <1>4 DEF Answer
  <2>2. CASE q = Head(posted).request
    <3>1. /\ answer'[q] = Result(q, kind) /\ i \in DOMAIN answer'[q]
          /\ answer'[q][i].good =>
               answer'[q][i].at # None /\ answer'[q][i].at >= before[q].value[Leaves[q][i]]
          /\ NotOlder(answer'[q][i].at, before[q].delivered[Leaves[q][i]])
      BY <1>4, <2>2, AnswerIsRecent
    <3>2. ~answer'[q][i].good => Overall(q)' = "Bad"
      BY <3>1, BadPart DEF Overall
    <3>3. QED  BY <2>1, <3>1, <3>2
  <2>3. CASE q # Head(posted).request
    <3>1. answer'[q] = answer[q] /\ call'[q] = call[q]
      BY <1>1, <1>4, <2>3 DEF Answer, TypeOK
    <3>2. QED  BY <1>2, <2>1, <3>1
  <2>4. QED  BY <2>2, <2>3
<1>5. CASE \E r \in Requests : Ask(r)
  BY <1>2, <1>3, <1>5
<1>6. CASE UNCHANGED before /\ \E kind \in {"result", "raised"} : Answer(kind)
  BY <1>4, <1>6
<1>7. CASE UNCHANGED <<before, answer>> /\ \A p \in Requests : call'[p] = "answered" => call[p] = "answered"
  BY <1>2, <1>7
<1>8. \/ \E kind \in {"result", "raised"} : Answer(kind)
      \/ UNCHANGED answer /\ \A p \in Requests : call'[p] = "answered" => call[p] = "answered"
  BY <1>1, RequestSteps
<1>9. (\E r \in Requests : Ask(r)) \/ UNCHANGED before
  BY <1>1, RequestSteps
<1>10. QED  BY <1>5, <1>6, <1>7, <1>8, <1>9

\* In the beginning nothing is on its way and nothing is known.
LEMMA RecentInit == Init => InLine /\ Current /\ Asked /\ ReadIsRecent
<1> SUFFICES ASSUME Init PROVE InLine /\ Current /\ Asked /\ ReadIsRecent
  OBVIOUS
<1>1. posted = <<>> /\ ready = <<>> /\ wire = <<>> /\ DOMAIN posted = {}
  BY EmptySeq, LenProperties DEF Init
<1>2. DOMAIN Sent = {}
  BY <1>1 DEF Sent, AsTasks
<1>3. InLine
  BY <1>1, <1>2 DEF InLine, Ordered, Rising, Precedes
<1>4. \A e \in Elements : value[e] = 0 /\ Known(e) = None
  BY DEF Init, Known, LastOr
<1>5. Current
  BY <1>1, <1>2, <1>4 DEF Init, Current, AllDue
<1>6. Asked
  <2>1. ASSUME NEW r \in Requests PROVE parts[r] = <<>> /\ ReadSince(r)
    <3>1. parts[r] = <<>> /\ Len(Leaves[r]) \in Nat
      BY DeliveryAssumption, LenProperties DEF Init
    <3>2. QED  BY <3>1 DEF ReadSince
  <2>2. ASSUME NEW r \in Requests, NEW e \in Elements PROVE Behind(before[r], e)
    <3>1. before[r].value[e] = 0 /\ before[r].delivered[e] = None
      BY <1>4 DEF Init
    <3>2. QED  BY <1>4, <3>1 DEF Behind
  <2>3. QED  BY <2>1, <2>2 DEF Asked
<1>7. ReadIsRecent
  BY DEF Init, ReadIsRecent
<1>8. QED  BY <1>3, <1>5, <1>6, <1>7

\* What /objects/value answers: a good part is a value the server had since
\* the request was made, any other is no older than what subscriptions had
\* seen by then, and a part that was not read spoils the quality of the whole.
\* Samples stay in order across both loops, so the last of the history is the
\* newest that was ever fanned out, and a sample on its way is never older.
THEOREM ReadsAreRecent == Spec => []ReadIsRecent
<1> DEFINE Inv == Typed /\ InLine /\ Current /\ Asked /\ ReadIsRecent
<1>1. Init => Inv
  BY TypedInit, RecentInit
<1>2. Inv /\ [Next]_vars => Inv'
  <2> SUFFICES ASSUME Inv, [Next]_vars PROVE Inv'
    OBVIOUS
  <2>1. Typed'
    BY TypedStep
  <2>2. InLine'
    BY <2>1, InLineStep DEF Typed
  <2>3. Current'
    BY <2>1, CurrentStep
  <2>4. QED  BY <2>1, <2>2, <2>3, AskedStep, ReadIsRecentStep
<1>3. Inv => ReadIsRecent
  OBVIOUS
<1>4. QED  BY <1>1, <1>2, <1>3, PTL DEF Spec

--------------------------------------------------------------------------
(* Counting deliveries.                                                    *)

\* The deliveries among the first i tasks, one task after the other.
LEMMA DeliveriesCounted ==
    ASSUME NEW q, NEW i \in Nat
    PROVE  /\ Deliveries(q, i) \in Nat
           /\ Deliveries(q, 0) = 0
           /\ Deliveries(q, i + 1) = Deliveries(q, i) + (IF q[i + 1].kind = "deliver" THEN 1 ELSE 0)
<1> DEFINE S(n) == {j \in 1..n : q[j].kind = "deliver"}
<1>1. \A n \in Nat : IsFiniteSet(S(n)) /\ Cardinality(S(n)) \in Nat
  <2> SUFFICES ASSUME NEW n \in Nat PROVE IsFiniteSet(S(n)) /\ Cardinality(S(n)) \in Nat
    OBVIOUS
  <2>1. IsFiniteSet(1..n) /\ S(n) \in SUBSET (1..n)
    BY FS_Interval
  <2>2. IsFiniteSet(S(n))
    BY <2>1, FS_Subset
  <2>3. QED  BY <2>2, FS_CardinalityType
<1>2. S(0) = {}
  OBVIOUS
<1>3. IF q[i + 1].kind = "deliver" THEN S(i + 1) = S(i) \cup {i + 1} ELSE S(i + 1) = S(i)
  OBVIOUS
<1>4. i + 1 \notin S(i)
  OBVIOUS
<1>5. \A n : Deliveries(q, n) = Cardinality(S(n))
  BY DEF Deliveries
<1> HIDE DEF S
<1>6. CASE q[i + 1].kind = "deliver"
  <2>1. Cardinality(S(i + 1)) = Cardinality(S(i)) + 1
    BY <1>1, <1>3, <1>4, <1>6, FS_AddElement
  <2>2. QED  BY <1>1, <1>2, <1>5, <1>6, <2>1, FS_EmptySet
<1>7. CASE q[i + 1].kind # "deliver"
  BY <1>1, <1>2, <1>3, <1>5, <1>7, FS_EmptySet
<1>8. QED  BY <1>6, <1>7

\* The more tasks, the more deliveries; and a delivery counts itself.
LEMMA DeliveriesGrow ==
    ASSUME NEW q \in Seq(Tasks), NEW i \in DOMAIN q
    PROVE  /\ i \in Nat /\ Deliveries(q, i) \in Nat /\ AllDeliveries(q) \in Nat
           /\ Deliveries(q, i) <= AllDeliveries(q)
           /\ q[i].kind = "deliver" => Deliveries(q, i) >= 1
<1>1. PICK n \in Nat : n = Len(q) /\ DOMAIN q = 1..n
  BY LenProperties
<1>2. i \in Nat /\ i - 1 \in Nat /\ i <= n
  BY <1>1
<1>3. Deliveries(q, i) \in Nat /\ AllDeliveries(q) \in Nat
  BY <1>1, <1>2, DeliveriesCounted DEF AllDeliveries
<1>4. Deliveries(q, i) <= Deliveries(q, n)
  <2> DEFINE S(m) == {j \in 1..m : q[j].kind = "deliver"}
  <2>1. IsFiniteSet(1..n) /\ S(n) \in SUBSET (1..n)
    BY FS_Interval
  <2>2. IsFiniteSet(S(n)) /\ S(i) \in SUBSET S(n)
    BY <1>2, <2>1, FS_Subset
  <2>3. Cardinality(S(i)) <= Cardinality(S(n))
    BY <2>1, <2>2, FS_Subset
  <2>4. QED  BY <2>3 DEF Deliveries
<1>5. Deliveries(q, (i - 1) + 1) = Deliveries(q, i - 1) + (IF q[(i - 1) + 1].kind = "deliver" THEN 1 ELSE 0)
      /\ Deliveries(q, i - 1) \in Nat
  BY <1>2, DeliveriesCounted
<1>6. (i - 1) + 1 = i
  BY <1>2
<1>7. QED  BY <1>1, <1>2, <1>3, <1>4, <1>5, <1>6 DEF AllDeliveries

\* A task more at the end.
One(t) == IF t.kind = "deliver" THEN 1 ELSE 0

LEMMA DeliveriesAppend ==
    ASSUME NEW q \in Seq(Tasks), NEW t \in Tasks
    PROVE  /\ \A i \in DOMAIN q : Deliveries(Append(q, t), i) = Deliveries(q, i)
           /\ Deliveries(Append(q, t), Len(q) + 1) = AllDeliveries(q) + One(t)
           /\ AllDeliveries(Append(q, t)) = AllDeliveries(q) + One(t)
<1>1. PICK n \in Nat : n = Len(q) /\ DOMAIN q = 1..n
  BY LenProperties
<1>2. PICK p : p = Append(q, t)
  OBVIOUS
<1>3. Len(p) = n + 1 /\ (\A i \in 1..n : p[i] = q[i]) /\ p[n + 1] = t
  BY <1>1, <1>2, AppendProperties
<1>4. ASSUME NEW i \in 0..n PROVE Deliveries(p, i) = Deliveries(q, i)
  <2>1. {j \in 1..i : p[j].kind = "deliver"} = {j \in 1..i : q[j].kind = "deliver"}
    BY <1>3
  <2>2. QED  BY <2>1 DEF Deliveries
<1>5. Deliveries(p, n + 1) = Deliveries(p, n) + One(t)
  BY <1>3, DeliveriesCounted DEF One
<1>6. Deliveries(p, n) = AllDeliveries(q)
  BY <1>1, <1>4 DEF AllDeliveries
<1>7. QED  BY <1>1, <1>2, <1>3, <1>4, <1>5, <1>6 DEF AllDeliveries

\* A task less at the front.
LEMMA DeliveriesTail ==
    ASSUME NEW q \in Seq(Tasks), q # <<>>
    PROVE  /\ \A i \in 0..Len(Tail(q)) : Deliveries(q, i + 1) = Deliveries(Tail(q), i) + One(Head(q))
           /\ AllDeliveries(q) = AllDeliveries(Tail(q)) + One(Head(q))
<1>1. PICK p : p = Tail(q)
  OBVIOUS
<1>2. PICK n \in Nat : n = Len(p) /\ Len(q) = n + 1
  <2>1. Len(q) \in Nat \ {0} /\ Len(p) = Len(q) - 1
    BY <1>1, EmptySeq, LenProperties, HeadTailProperties
  <2>2. Len(p) \in Nat /\ Len(q) = Len(p) + 1
    BY <2>1
  <2>3. QED  BY <2>2
<1>3. Head(q) = q[1] /\ \A i \in 1..n : p[i] = q[i + 1]
  BY <1>1, <1>2, HeadTailProperties
<1>4. ASSUME NEW i \in 0..n PROVE Deliveries(q, i + 1) = Deliveries(p, i) + One(q[1])
  <2> DEFINE S == {j \in 1..i : p[j].kind = "deliver"}
             T == {j \in 1..(i + 1) : q[j].kind = "deliver"}
             f == [j \in S |-> j + 1]
  <2>1. IsFiniteSet(S) /\ IsFiniteSet(T) /\ Cardinality(S) \in Nat /\ Cardinality(T) \in Nat
    <3>1. IsFiniteSet(1..i) /\ IsFiniteSet(1..(i + 1)) /\ S \in SUBSET (1..i) /\ T \in SUBSET (1..(i + 1))
      BY FS_Interval
    <3>2. IsFiniteSet(S) /\ IsFiniteSet(T)
      BY <3>1, FS_Subset
    <3>3. QED  BY <3>2, FS_CardinalityType
  <2>2. f \in [S -> T \ {1}]
    BY <1>3
  <2>3. \A x, y \in S : f[x] = f[y] => x = y
    OBVIOUS
  <2>4. \A y \in T \ {1} : y - 1 \in S /\ f[y - 1] = y
    BY <1>3
  <2>5. f \in Bijection(S, T \ {1})
    BY <2>2, <2>3, <2>4 DEF Bijection, Injection, Surjection, IsInjective
  <2>6. ExistsBijection(S, T \ {1})
    BY <2>5 DEF ExistsBijection
  <2>7. 1 \in T <=> q[1].kind = "deliver"
    OBVIOUS
  <2>8. Deliveries(q, i + 1) = Cardinality(T) /\ Deliveries(p, i) = Cardinality(S)
    BY DEF Deliveries
  <2> HIDE DEF S, T, f
  <2>9. Cardinality(T \ {1}) = Cardinality(S)
    BY <2>1, <2>6, FS_Bijection
  <2>10. Cardinality(T \ {1}) = IF 1 \in T THEN Cardinality(T) - 1 ELSE Cardinality(T)
    BY <2>1, FS_RemoveElement
  <2>11. QED  BY <2>1, <2>7, <2>8, <2>9, <2>10 DEF One
<1>5. QED  BY <1>1, <1>2, <1>3, <1>4 DEF AllDeliveries

--------------------------------------------------------------------------
(* Nothing is lost or overtaken.                                           *)

\* The deliveries of a queue carry what a log has after its first k samples.
Bears(q, k, log) ==
  \A i \in DOMAIN q : q[i].kind = "deliver" => q[i].sample = log[k + Deliveries(q, i)]

\* What changes no delivery: another task comes to the end, or leaves the front.
NoDelivery(q, p) ==
  \/ p = q
  \/ \E t \in Tasks : t.kind # "deliver" /\ p = Append(q, t)
  \/ q # <<>> /\ Head(q).kind # "deliver" /\ p = Tail(q)

\* A delivery that is added carries what comes next.
LEMMA BearsAppend ==
    ASSUME NEW q \in Seq(Tasks), NEW t \in Tasks, NEW k, NEW log, Bears(q, k, log),
           t.kind = "deliver" => t.sample = log[k + (AllDeliveries(q) + 1)]
    PROVE  Bears(Append(q, t), k, log)
<1> SUFFICES ASSUME NEW i \in DOMAIN Append(q, t), Append(q, t)[i].kind = "deliver"
             PROVE  Append(q, t)[i].sample = log[k + Deliveries(Append(q, t), i)]
  BY DEF Bears
<1>1. CASE i \in DOMAIN q /\ Append(q, t)[i] = q[i]
  <2>1. Deliveries(Append(q, t), i) = Deliveries(q, i)
    BY <1>1, DeliveriesAppend
  <2>2. QED  BY <1>1, <2>1 DEF Bears
<1>2. CASE i = Len(q) + 1 /\ Append(q, t)[i] = t
  <2>1. Deliveries(Append(q, t), i) = AllDeliveries(q) + 1
    BY <1>2, DeliveriesAppend DEF One
  <2>2. QED  BY <1>2, <2>1
<1>3. QED  BY <1>1, <1>2, TaskAdded

\* Without its head a queue bears what comes after the head.
LEMMA BearsTail ==
    ASSUME NEW q \in Seq(Tasks), q # <<>>, NEW k \in Nat, NEW log, Bears(q, k, log)
    PROVE  /\ Bears(Tail(q), k + One(Head(q)), log)
           /\ Head(q).kind = "deliver" => Head(q).sample = log[k + 1]
<1>1. PICK p \in Seq(Tasks) : p = Tail(q)
  BY TaskTaken
<1>2. /\ \A i \in DOMAIN p : i + 1 \in DOMAIN q /\ p[i] = q[i + 1]
      /\ Head(q) = q[1] /\ 1 \in DOMAIN q
  BY <1>1, TaskTaken
<1>3. ASSUME NEW i \in DOMAIN p, p[i].kind = "deliver"
      PROVE  p[i].sample = log[(k + One(Head(q))) + Deliveries(p, i)]
  <2>1. i \in 0..Len(p) /\ Deliveries(p, i) \in Nat
    BY <1>3, DeliveriesGrow, LenProperties
  <2>2. Deliveries(q, i + 1) = Deliveries(p, i) + One(Head(q))
    BY <1>1, <2>1, DeliveriesTail
  <2>3. k + Deliveries(q, i + 1) = (k + One(Head(q))) + Deliveries(p, i)
    BY <2>1, <2>2 DEF One
  <2>4. q[i + 1].sample = log[k + Deliveries(q, i + 1)]
    BY <1>2, <1>3 DEF Bears
  <2>5. QED  BY <1>2, <1>3, <2>3, <2>4
<1>4. ASSUME Head(q).kind = "deliver" PROVE Head(q).sample = log[k + 1]
  <2>1. PICK n \in Nat : n = 0
    OBVIOUS
  <2>2. Deliveries(q, n) = 0
    BY <2>1, DeliveriesCounted
  <2>3. Deliveries(q, n + 1) = Deliveries(q, n) + (IF q[n + 1].kind = "deliver" THEN 1 ELSE 0)
    BY DeliveriesCounted
  <2>4. Deliveries(q, 1) = 1
    BY <1>2, <1>4, <2>1, <2>2, <2>3
  <2>5. QED  BY <1>2, <1>4, <2>4 DEF Bears
<1>5. QED  BY <1>1, <1>3, <1>4 DEF Bears

\* What changes no delivery changes neither their number nor what they bear.
LEMMA NoDeliveryKeeps ==
    ASSUME NEW q \in Seq(Tasks), NEW p, NoDelivery(q, p)
    PROVE  /\ AllDeliveries(p) = AllDeliveries(q) /\ AllDeliveries(q) \in Nat
           /\ \A k \in Nat : \A log : Bears(q, k, log) => Bears(p, k, log)
<1>1. AllDeliveries(q) \in Nat
  BY LenProperties, DeliveriesCounted DEF AllDeliveries
<1>2. ASSUME NEW t \in Tasks, t.kind # "deliver", p = Append(q, t)
      PROVE  /\ AllDeliveries(p) = AllDeliveries(q)
             /\ \A k \in Nat : \A log : Bears(q, k, log) => Bears(p, k, log)
  BY <1>1, <1>2, DeliveriesAppend, BearsAppend DEF One
<1>3. ASSUME q # <<>>, Head(q).kind # "deliver", p = Tail(q)
      PROVE  /\ AllDeliveries(p) = AllDeliveries(q)
             /\ \A k \in Nat : \A log : Bears(q, k, log) => Bears(p, k, log)
  <2>1. One(Head(q)) = 0
    BY <1>3 DEF One
  <2>2. AllDeliveries(p) = AllDeliveries(q)
    <3>1. AllDeliveries(p) \in Nat
      BY <1>3, TaskTaken, LenProperties, DeliveriesCounted DEF AllDeliveries
    <3>2. QED  BY <1>3, <2>1, <3>1, DeliveriesTail
  <2>3. ASSUME NEW k \in Nat, NEW log, Bears(q, k, log) PROVE Bears(p, k, log)
    <3>1. Bears(p, k + One(Head(q)), log)
      BY <1>3, <2>3, BearsTail
    <3>2. k + One(Head(q)) = k
      BY <2>1
    <3>3. QED  BY <3>1, <3>2
  <2>4. QED  BY <2>2, <2>3
<1>4. QED  BY <1>1, <1>2, <1>3 DEF NoDelivery

\* A log that grows is still borne.
LEMMA BearsLonger ==
    ASSUME NEW q \in Seq(Tasks), NEW k \in Nat, NEW log \in Seq(Samples), NEW s \in Samples,
           Bears(q, k, log), k + AllDeliveries(q) <= Len(log)
    PROVE  Bears(q, k, Append(log, s))
<1> SUFFICES ASSUME NEW i \in DOMAIN q, q[i].kind = "deliver"
             PROVE  q[i].sample = Append(log, s)[k + Deliveries(q, i)]
  BY DEF Bears
<1>1. k + Deliveries(q, i) \in 1..Len(log)
  BY DeliveriesGrow, LenProperties
<1>2. Append(log, s)[k + Deliveries(q, i)] = log[k + Deliveries(q, i)]
  BY <1>1, AppendProperties
<1>3. QED  BY <1>2 DEF Bears

\* The state of the way: how long each piece of it is, and what it bears.
OnTheWay ==
  /\ Len(notified) = Len(delivered) + AllDeliveries(posted) + AllDeliveries(ready)
  /\ \A i \in DOMAIN delivered : delivered[i] = notified[i]
  /\ Bears(posted, Len(delivered), notified)
  /\ Bears(ready, Len(delivered) + AllDeliveries(posted), notified)

LEMMA InTransitIs == InTransit <=> (loop = "running" => OnTheWay)
BY DEF InTransit, OnTheWay, Carries, Bears

LEMMA WayTypes ==
    ASSUME TypeOK
    PROVE  /\ posted \in Seq(Tasks) /\ ready \in Seq(Tasks)
           /\ notified \in Seq(Samples) /\ delivered \in Seq(Samples)
           /\ Len(notified) \in Nat /\ Len(delivered) \in Nat
           /\ AllDeliveries(posted) \in Nat /\ AllDeliveries(ready) \in Nat
<1>1. /\ posted \in Seq(Tasks) /\ ready \in Seq(Tasks)
      /\ notified \in Seq(Samples) /\ delivered \in Seq(Samples)
  BY DEF TypeOK
<1>2. /\ Len(notified) \in Nat /\ Len(delivered) \in Nat
      /\ Len(posted) \in Nat /\ Len(ready) \in Nat
  BY <1>1, LenProperties
<1>3. QED  BY <1>1, <1>2, DeliveriesCounted DEF AllDeliveries

\* A sample is notified: it comes last in the worker's queue.
LEMMA NotifyWay ==
    ASSUME TypeOK, OnTheWay, Notify
    PROVE  OnTheWay'
<1>1. PICK s \in Samples : s = Head(wire)
  BY HeadTailProperties DEF Notify, TypeOK
<1>2. PICK t \in Tasks : t = Deliver(s) /\ t.kind = "deliver" /\ t.sample = s
  BY TasksMade
<1>3. /\ ready' = Append(ready, t) /\ notified' = Append(notified, s)
      /\ posted' = posted /\ delivered' = delivered
  BY <1>1, <1>2 DEF Notify
<1>4. /\ AllDeliveries(ready') = AllDeliveries(ready) + 1
      /\ Len(notified') = Len(notified) + 1
      /\ \A i \in 1..Len(notified) : notified'[i] = notified[i]
      /\ notified'[Len(notified) + 1] = s
  BY <1>2, <1>3, WayTypes, DeliveriesAppend, AppendProperties DEF One
<1>5. Len(notified') = Len(delivered') + AllDeliveries(posted') + AllDeliveries(ready')
  BY <1>3, <1>4, WayTypes DEF OnTheWay
<1>6. \A i \in DOMAIN delivered' : delivered'[i] = notified'[i]
  <2>1. DOMAIN delivered = 1..Len(delivered) /\ Len(delivered) <= Len(notified)
    BY WayTypes, LenProperties DEF OnTheWay
  <2>2. QED  BY <1>3, <1>4, <2>1, WayTypes DEF OnTheWay
<1>7. Bears(posted', Len(delivered'), notified')
  BY <1>3, WayTypes, BearsLonger DEF OnTheWay
<1> DEFINE k == Len(delivered) + AllDeliveries(posted)
<1>8. /\ k \in Nat /\ AllDeliveries(ready) \in Nat /\ Len(notified) \in Nat
      /\ k + AllDeliveries(ready) = Len(notified)
  BY WayTypes DEF OnTheWay
<1>9. Bears(ready, k, notified')
  <2>1. Bears(ready, k, notified)
    BY DEF OnTheWay
  <2> HIDE DEF k
  <2>2. QED  BY <1>3, <1>8, <2>1, WayTypes, BearsLonger
<1>10. t.sample = notified'[k + (AllDeliveries(ready) + 1)]
  <2> HIDE DEF k
  <2>1. k + (AllDeliveries(ready) + 1) = Len(notified) + 1
    BY <1>8
  <2>2. QED  BY <1>2, <1>4, <2>1
<1>11. Bears(ready', k, notified')
  <2> HIDE DEF k
  <2>1. QED  BY <1>3, <1>9, <1>10, WayTypes, BearsAppend
<1>12. QED  BY <1>3, <1>5, <1>6, <1>7, <1>11 DEF OnTheWay

\* A sample is handed over: the first of the worker's queue becomes the last
\* of the main loop's.
LEMMA DeliverWay ==
    ASSUME TypeOK, OnTheWay, DeliverSample
    PROVE  OnTheWay'
<1>1. ready # <<>> /\ Head(ready).kind = "deliver"
  BY DEF DeliverSample, NextIs
<1>2. PICK t \in Tasks : t = Head(ready) /\ t.kind = "deliver"
  BY <1>1, WayTypes, TaskTaken
<1>3. /\ posted' = Append(posted, t) /\ ready' = Tail(ready)
      /\ notified' = notified /\ delivered' = delivered
  BY <1>2 DEF DeliverSample
<1>4. Tail(ready) \in Seq(Tasks) /\ Len(Tail(ready)) \in Nat /\ AllDeliveries(Tail(ready)) \in Nat
  <2>1. Tail(ready) \in Seq(Tasks)
    BY <1>1, WayTypes, TaskTaken
  <2>2. Len(Tail(ready)) \in Nat
    BY <2>1, LenProperties
  <2>3. QED  BY <2>1, <2>2, DeliveriesCounted DEF AllDeliveries
<1>5. /\ AllDeliveries(posted') = AllDeliveries(posted) + 1
      /\ AllDeliveries(ready) = AllDeliveries(ready') + 1
  BY <1>1, <1>2, <1>3, WayTypes, DeliveriesAppend, DeliveriesTail DEF One
<1>6. Len(notified') = Len(delivered') + AllDeliveries(posted') + AllDeliveries(ready')
  BY <1>3, <1>4, <1>5, WayTypes DEF OnTheWay
<1> DEFINE k == Len(delivered) + AllDeliveries(posted)
<1>7. k \in Nat
  BY WayTypes
<1>8. Bears(ready', k + 1, notified) /\ t.sample = notified[k + 1]
  <2>1. Bears(ready, k, notified)
    BY DEF OnTheWay
  <2> HIDE DEF k
  <2>2. QED  BY <1>1, <1>2, <1>3, <1>7, <2>1, WayTypes, BearsTail DEF One
<1>9. Bears(posted', Len(delivered), notified)
  <2>1. Len(delivered) + (AllDeliveries(posted) + 1) = k + 1
    BY WayTypes
  <2>2. t.sample = notified[Len(delivered) + (AllDeliveries(posted) + 1)]
    BY <1>8, <2>1
  <2>3. QED  BY <1>3, <2>2, WayTypes, BearsAppend DEF OnTheWay
<1>10. Len(delivered') + AllDeliveries(posted') = k + 1
  BY <1>3, <1>5, WayTypes
<1>11. QED  BY <1>3, <1>6, <1>8, <1>9, <1>10 DEF OnTheWay

\* A sample is fanned out: it leaves the front of the main loop's queue.
LEMMA FanOutWay ==
    ASSUME TypeOK, OnTheWay, FanOut
    PROVE  OnTheWay'
<1>1. posted # <<>> /\ Head(posted).kind = "deliver"
  BY DEF FanOut, PostedIs
<1>2. PICK s \in Samples : s = Head(posted).sample
  BY PostedSample DEF FanOut
<1>3. /\ delivered' = Append(delivered, s) /\ posted' = Tail(posted)
      /\ notified' = notified /\ ready' = ready
  BY <1>2 DEF FanOut, worker
<1>4. Tail(posted) \in Seq(Tasks) /\ AllDeliveries(Tail(posted)) \in Nat
  <2>1. Tail(posted) \in Seq(Tasks)
    BY <1>1, WayTypes, TaskTaken
  <2>2. Len(Tail(posted)) \in Nat
    BY <2>1, LenProperties
  <2>3. QED  BY <2>1, <2>2, DeliveriesCounted DEF AllDeliveries
<1>5. /\ AllDeliveries(posted) = AllDeliveries(posted') + 1
      /\ Len(delivered') = Len(delivered) + 1
      /\ delivered' \in Seq(Samples)
      /\ \A i \in 1..Len(delivered) : delivered'[i] = delivered[i]
      /\ delivered'[Len(delivered) + 1] = s
  BY <1>1, <1>3, WayTypes, DeliveriesTail, AppendProperties DEF One
<1>6. Len(notified') = Len(delivered') + AllDeliveries(posted') + AllDeliveries(ready')
  BY <1>3, <1>4, <1>5, WayTypes DEF OnTheWay
<1>7. Bears(posted', Len(delivered) + 1, notified) /\ s = notified[Len(delivered) + 1]
  BY <1>1, <1>2, <1>3, WayTypes, BearsTail DEF OnTheWay, One
<1>8. \A i \in DOMAIN delivered' : delivered'[i] = notified'[i]
  <2>1. DOMAIN delivered' = 1..(Len(delivered) + 1) /\ DOMAIN delivered = 1..Len(delivered)
    BY <1>5, WayTypes, LenProperties
  <2>2. \A i \in 1..(Len(delivered) + 1) : i \in 1..Len(delivered) \/ i = Len(delivered) + 1
    BY WayTypes
  <2>3. \A i \in 1..Len(delivered) : delivered[i] = notified[i]
    BY <2>1 DEF OnTheWay
  <2>4. QED  BY <1>3, <1>5, <1>7, <2>1, <2>2, <2>3
<1>9. Len(delivered') + AllDeliveries(posted') = Len(delivered) + AllDeliveries(posted)
  BY <1>3, <1>4, <1>5, WayTypes
<1>10. QED  BY <1>3, <1>5, <1>6, <1>7, <1>8, <1>9 DEF OnTheWay

\* A step that moves no delivery leaves the way as it is.
LEMMA OtherWay ==
    ASSUME TypeOK, OnTheWay, NoDelivery(posted, posted'), NoDelivery(ready, ready'),
           UNCHANGED <<notified, delivered>>
    PROVE  OnTheWay'
<1>1. AllDeliveries(posted') = AllDeliveries(posted) /\ AllDeliveries(ready') = AllDeliveries(ready)
  BY WayTypes, NoDeliveryKeeps
<1>2. Bears(posted', Len(delivered), notified)
  BY WayTypes, NoDeliveryKeeps DEF OnTheWay
<1>3. PICK k \in Nat : k = Len(delivered) + AllDeliveries(posted)
  BY WayTypes
<1>4. Bears(ready, k, notified)
  BY <1>3 DEF OnTheWay
<1>5. Bears(ready', k, notified)
  BY <1>3, <1>4, WayTypes, NoDeliveryKeeps
<1>6. QED  BY <1>1, <1>2, <1>3, <1>5 DEF OnTheWay

\* The steps of a running worker are of one of these kinds.
LEMMA WaySteps ==
    ASSUME TypeOK, Next \/ UNCHANGED vars, loop' = "running"
    PROVE  /\ loop = "running"
           /\ \/ Notify \/ DeliverSample \/ FanOut
              \/ /\ NoDelivery(posted, posted') /\ NoDelivery(ready, ready')
                 /\ UNCHANGED <<notified, delivered>>
<1> DEFINE Still == /\ NoDelivery(posted, posted') /\ NoDelivery(ready, ready')
                    /\ UNCHANGED <<notified, delivered>> /\ loop' = loop
<1> USE DEF NoDelivery
<1>1. CASE UNCHANGED vars
  BY <1>1 DEF vars, worker
<1>2. CASE ServerStep
  BY <1>2 DEF ServerStep, Change, Connect, Restore, Drop, worker
<1>3. CASE Notify \/ DeliverSample \/ FanOut
  BY <1>3 DEF Notify, DeliverSample, FanOut, worker, NextIs
<1>4. CASE BeginRead
  <2>1. ready # <<>> /\ Head(ready).kind = "call" /\ Head(ready) \in Tasks
    BY <1>4, WayTypes, TaskTaken DEF BeginRead, NextIs
  <2>2. PICK t \in Tasks : t = Return("raised", Head(ready).request) /\ t.kind = "raised"
    BY <2>1, TaskFields, TasksMade
  <2>3. posted' = posted \/ posted' = Append(posted, t)
    BY <1>4, <2>2 DEF BeginRead
  <2>4. ready' = Tail(ready) /\ UNCHANGED <<loop, notified, delivered>>
    BY <1>4 DEF BeginRead
  <2>5. NoDelivery(posted, posted')
    BY <2>2, <2>3
  <2>6. QED  BY <2>1, <2>4, <2>5
<1>5. ASSUME NEW r \in Requests, ReadLeaf(r) PROVE Still
  BY <1>5 DEF ReadLeaf, worker
<1>6. ASSUME NEW r \in Requests, EndRead(r) PROVE Still
  <2>1. PICK t \in Tasks : t = Return("result", r) /\ t.kind = "result"
    BY TasksMade
  <2>2. QED  BY <1>6, <2>1 DEF EndRead, worker
<1>7. CASE StopBinding
  <2>1. PICK t \in Tasks : t = Task("unbound") /\ t.kind = "unbound"
    BY TasksMade
  <2>2. QED  BY <1>7, <2>1 DEF StopBinding, NextIs
<1>8. CASE StopLoop \/ CloseLoop \/ Join
  BY <1>8 DEF StopLoop, CloseLoop, Join
<1>9. CASE FanOutCancelled
  BY <1>9 DEF FanOutCancelled, worker
<1>10. ASSUME NEW kind \in {"result", "raised"}, Answer(kind) PROVE Still
  BY <1>10 DEF Answer, PostedIs, worker
<1>11. CASE StopPool
  <2>1. PICK t \in Tasks : t = Task("stop") /\ t.kind = "stop"
    BY TasksMade
  <2>2. QED  BY <1>11, <2>1 DEF StopPool, PostedIs
<1>12. CASE StopUpstream
  <2>1. PICK t \in Tasks : t = Task("unbind") /\ t.kind = "unbind"
    BY TasksMade
  <2>2. QED  BY <1>12, <2>1 DEF StopUpstream
<1>13. ASSUME NEW r \in Requests, Ask(r) PROVE Still
  <2>1. PICK t \in Tasks : t = Call(r) /\ t.kind = "call"
    BY TasksMade
  <2>2. QED  BY <1>13, <2>1 DEF Ask
<1>14. CASE OpenStream \/ CloseStream \/ Signal
  BY <1>14 DEF OpenStream, CloseStream, Signal, worker
<1>15. QED
  <2> HIDE DEF NoDelivery
  <2>1. CASE WorkerStep
    BY <2>1, <1>3, <1>4, <1>5, <1>6, <1>7, <1>8 DEF WorkerStep
  <2>2. CASE MainStep
    BY <2>2, <1>3, <1>8, <1>9, <1>10, <1>11, <1>12 DEF MainStep
  <2>3. CASE ClientStep
    BY <2>3, <1>13, <1>14 DEF ClientStep
  <2>4. QED  BY <1>1, <1>2, <2>1, <2>2, <2>3 DEF Next

LEMMA InTransitInit == Init => InTransit
<1> SUFFICES ASSUME Init PROVE OnTheWay
  BY InTransitIs
<1>1. /\ posted = <<>> /\ ready = <<>> /\ notified = <<>> /\ delivered = <<>>
      /\ DOMAIN posted = {} /\ DOMAIN ready = {} /\ DOMAIN delivered = {}
  BY EmptySeq, LenProperties DEF Init
<1>2. Len(<<>>) = 0
  OBVIOUS
<1>3. AllDeliveries(posted) = 0 /\ AllDeliveries(ready) = 0
  BY <1>1, <1>2, DeliveriesCounted DEF AllDeliveries
<1>4. QED  BY <1>1, <1>2, <1>3 DEF OnTheWay, Bears

LEMMA InTransitStep ==
    ASSUME TypeOK, InTransit, Next \/ UNCHANGED vars
    PROVE  InTransit'
<1> SUFFICES ASSUME loop' = "running" PROVE OnTheWay'
  BY DEF InTransit, OnTheWay, Carries, Bears
<1>1. OnTheWay
  BY WaySteps, InTransitIs
<1>2. QED  BY <1>1, WaySteps, NotifyWay, DeliverWay, FanOutWay, OtherWay

\* What asyncua's callback hands over is what subscriptions and the history
\* get, in that order, each sample once, through the queues of two loops, as
\* long as the worker runs.  Every queue of the way bears a piece of what was
\* notified, and the pieces add up.
THEOREM NothingIsOvertaken == Spec => []InTransit
<1>1. TypeOK /\ InTransit /\ [Next]_vars => InTransit'
  BY InTransitStep
<1>2. QED  BY <1>1, InTransitInit, TypeCorrect, PTL DEF Spec

--------------------------------------------------------------------------
(* The history has the last samples.                                       *)

Kept(e) ==
  \A i \in Recent(e) : Slot(e, i) \in DOMAIN history[e] /\ history[e][Slot(e, i)] = delivered[i]
Filled(e) == \A k \in DOMAIN history[e] : \E i \in Recent(e) : Slot(e, i) = k
RingIsRecent == \A e \in Elements : Kept(e) /\ Filled(e)

\* A ring that takes a sample in moves the others by one place if it is full.
LEMMA RingMoves ==
    ASSUME NEW q \in Seq(Samples), Len(q) <= RingSize, NEW s \in Samples
    PROVE  \E d \in {0, 1} :
             /\ Len(q) \in Nat /\ Len(Ring(q, s)) = Len(q) + 1 - d
             /\ d = 1 => Len(q) = RingSize
             /\ Ring(q, s)[Len(q) + 1 - d] = s
             /\ \A k \in 1..(Len(q) - d) : Ring(q, s)[k] = q[k + d]
<1>1. RingSize \in Nat \ {0} /\ Len(q) \in Nat
  BY DeliveryAssumption, LenProperties
<1>2. CASE Len(q) < RingSize
  <2>1. /\ Len(Append(q, s)) = Len(q) + 1 /\ Append(q, s)[Len(q) + 1] = s
        /\ \A k \in 1..Len(q) : Append(q, s)[k] = q[k]
    BY AppendProperties
  <2>2. Ring(q, s) = Append(q, s)
    BY <1>2 DEF Ring
  <2>3. \A k \in 1..(Len(q) - 0) : k + 0 = k /\ k \in 1..Len(q)
    BY <1>1
  <2>4. \A k \in 1..(Len(q) - 0) : Ring(q, s)[k] = q[k + 0]
    BY <2>1, <2>2, <2>3
  <2>5. QED  BY <1>1, <2>1, <2>2, <2>4
<1>3. CASE Len(q) = RingSize
  <2>1. PICK p : p = Tail(q)
    OBVIOUS
  <2>2. q # <<>>
    BY <1>1, <1>3, EmptySeq
  <2>3. /\ p \in Seq(Samples) /\ Len(p) = Len(q) - 1
        /\ \A k \in 1..Len(p) : p[k] = q[k + 1]
    BY <2>1, <2>2, HeadTailProperties
  <2>4. /\ Len(Append(p, s)) = Len(p) + 1 /\ Append(p, s)[Len(p) + 1] = s
        /\ \A k \in 1..Len(p) : Append(p, s)[k] = p[k]
    BY <2>3, AppendProperties
  <2>5. Ring(q, s) = Append(p, s)
    BY <1>1, <1>3, <2>1 DEF Ring
  <2>6. Len(p) + 1 = Len(q) + 1 - 1 /\ Len(q) - 1 = Len(p)
    BY <1>1, <2>3
  <2>7. QED  BY <1>1, <1>3, <2>3, <2>4, <2>5, <2>6
<1>4. QED  BY <1>1, <1>2, <1>3

\* The later samples are as many as there are.
LEMMA LaterType ==
    ASSUME TypeOK, NEW e, NEW i
    PROVE  /\ IsFiniteSet({j \in Places(e) : j > i}) /\ Later(e, i) \in Nat
           /\ Places(e) \subseteq 1..Len(delivered)
<1>1. DOMAIN delivered = 1..Len(delivered) /\ Len(delivered) \in Nat
  BY LenProperties DEF TypeOK
<1>2. IsFiniteSet(1..Len(delivered)) /\ {j \in Places(e) : j > i} \in SUBSET (1..Len(delivered))
  BY <1>1, FS_Interval DEF Places
<1>3. IsFiniteSet({j \in Places(e) : j > i})
  BY <1>2, FS_Subset
<1>4. QED  BY <1>1, <1>3, FS_CardinalityType DEF Later, Places

\* One more is fanned out.
LEMMA OneLater ==
    ASSUME TypeOK, NEW s \in Samples, delivered' = Append(delivered, s)
    PROVE  /\ \A e : e # s.element => Places(e)' = Places(e)
           /\ \A e, i : e # s.element => Later(e, i)' = Later(e, i)
           /\ Places(s.element)' = Places(s.element) \cup {Len(delivered) + 1}
           /\ \A i \in Places(s.element) : Later(s.element, i)' = Later(s.element, i) + 1
           /\ \A n : n = Len(delivered) + 1 => Later(s.element, n)' = 0
           /\ \A i \in DOMAIN delivered : delivered'[i] = delivered[i]
           /\ delivered'[Len(delivered) + 1] = s
<1>1. PICK n \in Nat : n = Len(delivered) /\ DOMAIN delivered = 1..n
  BY LenProperties DEF TypeOK
<1>2. /\ DOMAIN delivered' = 1..(n + 1)
      /\ \A i \in 1..n : delivered'[i] = delivered[i]
      /\ delivered'[n + 1] = s
  <2>1. delivered \in Seq(Samples)
    BY DEF TypeOK
  <2>2. /\ delivered' \in Seq(Samples) /\ Len(delivered') = n + 1
        /\ \A i \in 1..n : delivered'[i] = delivered[i]
        /\ delivered'[n + 1] = s
    BY <1>1, <2>1, AppendProperties
  <2>3. QED  BY <2>2, LenProperties
<1>3. ASSUME NEW e, e # s.element PROVE Places(e)' = Places(e) /\ \A i : Later(e, i)' = Later(e, i)
  <2>1. Places(e)' = Places(e)
    BY <1>1, <1>2, <1>3 DEF Places
  <2>2. QED  BY <2>1 DEF Later
<1>4. PICK e : e = s.element
  OBVIOUS
<1>5. Places(e)' = Places(e) \cup {n + 1} /\ Places(e) \subseteq 1..n
  BY <1>1, <1>2, <1>4 DEF Places
<1>6. ASSUME NEW i \in Places(e) PROVE Later(e, i)' = Later(e, i) + 1
  <2> DEFINE S == {j \in Places(e) : j > i}
  <2>1. {j \in Places(e)' : j > i} = S \cup {n + 1} /\ n + 1 \notin S
    BY <1>5
  <2>2. IsFiniteSet(S) /\ Cardinality(S) = Later(e, i)
    BY LaterType DEF Later
  <2> HIDE DEF S
  <2>3. Cardinality(S \cup {n + 1}) = Cardinality(S) + 1
    BY <2>1, <2>2, FS_AddElement
  <2>4. QED  BY <2>1, <2>2, <2>3 DEF Later
<1>7. Later(e, n + 1)' = 0
  <2>1. {j \in Places(e)' : j > n + 1} = {}
    BY <1>5
  <2>2. QED  BY <2>1, FS_EmptySet DEF Later
<1>8. /\ Places(e)' = Places(e) \cup {Len(delivered) + 1}
      /\ \A m : m = Len(delivered) + 1 => Later(e, m)' = 0
      /\ delivered'[Len(delivered) + 1] = s
      /\ \A i \in DOMAIN delivered : delivered'[i] = delivered[i]
  BY <1>1, <1>2, <1>5, <1>7
<1>9. QED  BY <1>3, <1>4, <1>6, <1>8

\* The ring of the element whose sample is fanned out.
LEMMA RingTakes ==
    ASSUME TypeOK, NEW s \in Samples, delivered' = Append(delivered, s),
           NEW e \in Elements, e = s.element, history'[e] = Ring(history[e], s),
           Kept(e), Filled(e)
    PROVE  Kept(e)' /\ Filled(e)'
<1>1. PICK q \in Seq(Samples) : q = history[e] /\ Len(q) <= RingSize
  BY DEF TypeOK
<1>2. PICK p : p = Ring(q, s)
  OBVIOUS
<1>3. PICK m \in Nat : m = Len(q)
  BY LenProperties
<1>4. PICK d \in {0, 1} :
        /\ Len(p) = m + 1 - d /\ (d = 1 => m = RingSize)
        /\ p[m + 1 - d] = s
        /\ \A k \in 1..(m - d) : p[k] = q[k + d]
  <2>1. PICK d \in {0, 1} :
          /\ Len(Ring(q, s)) = Len(q) + 1 - d /\ (d = 1 => Len(q) = RingSize)
          /\ Ring(q, s)[Len(q) + 1 - d] = s
          /\ \A k \in 1..(Len(q) - d) : Ring(q, s)[k] = q[k + d]
    BY <1>1, RingMoves
  <2>2. QED  BY <1>2, <1>3, <2>1
<1>4a. PICK l \in Int : l = m + 1 - d
  OBVIOUS
<1>5. PICK n \in Nat : n = Len(delivered)
  BY LenProperties DEF TypeOK
<1>6. RingSize \in Nat \ {0} /\ m <= RingSize /\ p \in Seq(Samples) /\ Len(p) <= RingSize
  BY <1>1, <1>2, <1>3, DeliveryAssumption, RingKeeps
<1>7. /\ DOMAIN q = 1..m /\ DOMAIN p = 1..l
      /\ p[l] = s /\ (\A k \in 1..(l - 1) : p[k] = q[k + d])
      /\ Len(p) = l /\ l >= 1 /\ l <= RingSize
      /\ d \in Int /\ 0 <= d /\ d <= 1 /\ (d = 1 => m = RingSize)
  <2>1. DOMAIN q = 1..Len(q) /\ DOMAIN p = 1..Len(p) /\ Len(p) = l
    BY <1>4a, <1>1, <1>4, <1>6, LenProperties
  <2>2. l - 1 = m - d
    BY <1>4a
  <2>3. d \in Int /\ 0 <= d /\ d <= 1 /\ (d = 1 => m >= 1)
    BY <1>4, <1>6
  <2>4. l >= 1 /\ l <= RingSize
    BY <1>4a, <1>6, <2>1, <2>3
  <2>5. \A k \in 1..(l - 1) : p[k] = q[k + d]
    BY <1>4, <2>2
  <2>6. QED  BY <1>4a, <1>3, <1>4, <2>1, <2>3, <2>4, <2>5
<1>8. history'[e] = p /\ history[e] = q
  BY <1>1, <1>2
<1>9. /\ Places(e)' = Places(e) \cup {n + 1} /\ n + 1 \notin Places(e)
      /\ \A i \in Places(e) : Later(e, i) \in Nat /\ Later(e, i)' = Later(e, i) + 1
      /\ Later(e, n + 1)' = 0
      /\ \A i \in Places(e) : delivered'[i] = delivered[i]
      /\ delivered'[n + 1] = s
  <2>1. Places(e) \subseteq 1..n /\ \A i \in Places(e) : Later(e, i) \in Nat
    BY <1>5, LaterType
  <2>2. \A i \in Places(e) : i \in DOMAIN delivered
    BY DEF Places
  <2>3. /\ Places(e)' = Places(e) \cup {n + 1} /\ Later(e, n + 1)' = 0 /\ delivered'[n + 1] = s
        /\ \A i \in Places(e) : Later(e, i)' = Later(e, i) + 1
        /\ \A i \in DOMAIN delivered : delivered'[i] = delivered[i]
    BY <1>5, OneLater
  <2>4. n + 1 \notin Places(e)
    BY <2>1
  <2>5. QED  BY <2>1, <2>2, <2>3, <2>4
<1>10. n + 1 \in Recent(e)' /\ Slot(e, n + 1)' = l
  <2>1. n + 1 \in Recent(e)'
    BY <1>6, <1>9 DEF Recent
  <2>2. Slot(e, n + 1)' = l - 0
    BY <1>7, <1>8, <1>9 DEF Slot
  <2>3. QED  BY <2>1, <2>2
<1>11. ASSUME NEW i \in Places(e)
       PROVE  /\ i \in Recent(e) <=> Later(e, i) < RingSize
              /\ i \in Recent(e)' <=> Later(e, i) + 1 < RingSize
              /\ Slot(e, i) = m - Later(e, i) /\ Slot(e, i)' = Slot(e, i) - d
  <2>1. Slot(e, i) = m - Later(e, i)
    BY <1>3, <1>8 DEF Slot
  <2>2. Slot(e, i)' = l - (Later(e, i) + 1)
    BY <1>7, <1>8, <1>9 DEF Slot
  <2>3. (i \in Recent(e) <=> Later(e, i) < RingSize) /\ (i \in Recent(e)' <=> Later(e, i) + 1 < RingSize)
    BY <1>9 DEF Recent
  <2>4. l - (Later(e, i) + 1) = (m - Later(e, i)) - d
    BY <1>4a, <1>7, <1>9
  <2>5. QED  BY <2>1, <2>2, <2>3, <2>4
<1>12. ASSUME NEW i \in Recent(e)'
       PROVE  Slot(e, i)' \in DOMAIN p /\ p[Slot(e, i)'] = delivered'[i]
  <2>1. CASE i = n + 1
    <3>1. Slot(e, i)' = l /\ l \in DOMAIN p
      BY <1>7, <1>10, <2>1
    <3>2. QED  BY <1>7, <1>9, <2>1, <3>1
  <2>2. CASE i \in Places(e)
    <3>1. Later(e, i) \in Nat /\ Later(e, i) + 1 < RingSize /\ i \in Recent(e)
      BY <1>6, <1>9, <1>11, <2>2
    <3>2. Slot(e, i) \in 1..m /\ q[Slot(e, i)] = delivered[i]
      BY <1>7, <1>8, <3>1 DEF Kept
    <3>3. PICK k \in Int : k = Slot(e, i)' /\ Slot(e, i) = k + d /\ k = l - (Later(e, i) + 1)
      <4>1. Slot(e, i) = m - Later(e, i) /\ Slot(e, i)' = Slot(e, i) - d
        BY <1>11, <2>2
      <4>2. PICK x \in Nat : x = Later(e, i)
        BY <3>1
      <4>3. Slot(e, i)' = (m - x) - d /\ Slot(e, i) = ((m - x) - d) + d /\ (m - x) - d = l - (x + 1)
        BY <1>4a, <1>7, <4>1, <4>2
      <4>4. QED  BY <1>7, <4>2, <4>3
    <3>4. k \in 1..(l - 1)
      <4>1. PICK x \in Nat : x = Later(e, i) /\ x + 1 < RingSize /\ k = l - (x + 1)
        BY <3>1, <3>3
      <4>2. d = 1 => l = RingSize
        BY <1>4a, <1>7
      <4>3. d = 0 => k >= 1
        BY <3>2, <3>3
      <4>4. d = 1 => k >= 1
        BY <1>6, <4>1, <4>2
      <4>5. QED  BY <1>4, <4>1, <4>3, <4>4
    <3>5. p[k] = q[k + d] /\ k \in DOMAIN p
      BY <1>7, <3>4
    <3>6. QED  BY <1>9, <2>2, <3>2, <3>3, <3>5
  <2>3. QED  BY <1>9, <2>1, <2>2 DEF Recent
<1>13. ASSUME NEW k \in DOMAIN p PROVE \E i \in Recent(e)' : Slot(e, i)' = k
  <2>1. CASE k = l
    BY <1>10, <2>1
  <2>2. CASE k # l
    <3>1. k \in 1..(l - 1) /\ k + d \in DOMAIN q
      BY <1>4a, <1>7, <1>13, <2>2
    <3>2. PICK i \in Recent(e) : Slot(e, i) = k + d
      BY <1>8, <3>1 DEF Filled
    <3>3. i \in Places(e)
      BY DEF Recent
    <3>4. Later(e, i) \in Nat /\ Later(e, i) + 1 = l - k /\ Slot(e, i)' = k
      BY <1>4a, <1>7, <1>9, <1>11, <3>1, <3>2, <3>3
    <3>5. Later(e, i) + 1 < RingSize
      BY <1>6, <1>7, <3>1, <3>4
    <3>6. QED  BY <1>11, <3>3, <3>4, <3>5
  <2>3. QED  BY <2>1, <2>2
<1>14. QED  BY <1>8, <1>12, <1>13 DEF Kept, Filled

\* A ring is left alone by the samples of other elements.
LEMMA RingIsRecentStep ==
    ASSUME TypeOK, RingIsRecent, Next \/ UNCHANGED vars
    PROVE  RingIsRecent'
<1>1. CASE UNCHANGED <<delivered, history>>
  <2>1. \A e : Places(e)' = Places(e)
    BY <1>1 DEF Places
  <2>2. \A e, i : Later(e, i)' = Later(e, i)
    BY <2>1 DEF Later
  <2>3. \A e : Recent(e)' = Recent(e) /\ \A i : Slot(e, i)' = Slot(e, i)
    BY <1>1, <2>1, <2>2 DEF Recent, Slot
  <2>4. QED  BY <1>1, <2>3 DEF RingIsRecent, Kept, Filled
<1>2. CASE FanOut
  <2>1. PICK s \in Samples : s = Head(posted).sample
    BY <1>2, PostedSample DEF FanOut
  <2>2. delivered' = Append(delivered, s) /\ history' = [history EXCEPT ![s.element] = Ring(@, s)]
    BY <1>2, <2>1 DEF FanOut
  <2>3. ASSUME NEW e \in Elements, e = s.element PROVE Kept(e)' /\ Filled(e)'
    <3>1. history'[e] = Ring(history[e], s)
      BY <2>2, <2>3 DEF TypeOK
    <3>2. QED  BY <2>2, <2>3, <3>1, RingTakes DEF RingIsRecent
  <2>4. ASSUME NEW e \in Elements, e # s.element PROVE Kept(e)' /\ Filled(e)'
    <3>1. history'[e] = history[e]
      BY <2>2, <2>4 DEF TypeOK
    <3>2. /\ Places(e)' = Places(e) /\ \A i : Later(e, i)' = Later(e, i)
          /\ \A i \in DOMAIN delivered : delivered'[i] = delivered[i]
      BY <2>2, <2>4, OneLater
    <3>3. /\ Recent(e)' = Recent(e) /\ \A i : Slot(e, i)' = Slot(e, i)
          /\ \A i \in Recent(e) : delivered'[i] = delivered[i]
      BY <3>1, <3>2 DEF Recent, Slot, Places
    <3>4. QED  BY <3>1, <3>3 DEF RingIsRecent, Kept, Filled
  <2>5. QED  BY <2>3, <2>4 DEF RingIsRecent
<1>3. QED  BY <1>1, <1>2, KnownStays

LEMMA RingIsRecentInit == Init => RingIsRecent
<1> SUFFICES ASSUME Init, NEW e \in Elements PROVE Kept(e) /\ Filled(e)
  BY DEF RingIsRecent
<1>1. DOMAIN delivered = {} /\ DOMAIN history[e] = {}
  BY EmptySeq, LenProperties DEF Init
<1>2. QED  BY <1>1 DEF Kept, Filled, Recent, Places

\* Times that are comparable with a bound are compared as numbers.
LEMMA TextOrder ==
    ASSUME NEW t \in Times, NEW u \in Times, Comparable(t, u)
    PROVE  TextLess(t, u) <=> t < u
<1>1. t \in Nat /\ u \in Nat
  BY DeliveryAssumption DEF Times
<1>2. /\ \A n \in Int : n = 2 * (n \div 2) + (n % 2)
      /\ \A n \in Int : n \div 2 \in Int
      /\ \A n \in Int : n % 2 = 0 \/ n % 2 = 1
  OBVIOUS
<1>3. QED  BY <1>1, <1>2 DEF TextLess, Comparable, Second, Whole

\* What the rings are good for: any window is answered from them.
LEMMA RingAnswers == TypeOK /\ RingIsRecent => HistoryAnswers
<1> SUFFICES ASSUME TypeOK, RingIsRecent, NEW e \in Elements, e \notin Unstamped,
                    NEW from \in Times, NEW to \in Times,
                    \A i \in Recent(e) : Comparable(delivered[i].at, from) /\ Comparable(delivered[i].at, to)
             PROVE  Read(e, from, to) = {Slot(e, i) : i \in {j \in Recent(e) : delivered[j].at \in from..to}}
  BY DEF HistoryAnswers, RingIsRecent, Kept
<1>1. ASSUME NEW i \in Recent(e)
      PROVE  /\ delivered[i].at \in Times /\ delivered[i].element = e
             /\ Within(delivered[i], from, to) <=> delivered[i].at \in from..to
  <2>1. i \in DOMAIN delivered /\ delivered[i].element = e
    BY DEF Recent, Places
  <2>2. delivered[i] \in Samples
    BY <2>1, ElementOfSeq, LenProperties DEF TypeOK
  <2>3. PICK t \in Times : t = delivered[i].at
    BY <2>2, SampleFields
  <2>4. Comparable(t, from) /\ Comparable(to, t)
    BY <2>3 DEF Comparable
  <2>5. (TextLess(t, from) <=> t < from) /\ (TextLess(to, t) <=> to < t)
    BY <2>4, TextOrder
  <2>6. Within(delivered[i], from, to) <=> ~(t < from) /\ ~(to < t)
    BY <2>1, <2>3, <2>5 DEF Within
  <2>7. QED  BY <2>1, <2>3, <2>6 DEF Times
<1>2. ASSUME NEW k \in Read(e, from, to)
      PROVE  \E i \in Recent(e) : delivered[i].at \in from..to /\ k = Slot(e, i)
  <2>1. k \in DOMAIN history[e] /\ Within(history[e][k], from, to)
    BY DEF Read
  <2>2. PICK i \in Recent(e) : Slot(e, i) = k
    BY <2>1 DEF RingIsRecent, Filled
  <2>3. history[e][k] = delivered[i]
    BY <2>2 DEF RingIsRecent, Kept
  <2>4. QED  BY <1>1, <2>1, <2>2, <2>3
<1>3. ASSUME NEW i \in Recent(e), delivered[i].at \in from..to
      PROVE  Slot(e, i) \in Read(e, from, to)
  <2>1. Slot(e, i) \in DOMAIN history[e] /\ history[e][Slot(e, i)] = delivered[i]
    BY DEF RingIsRecent, Kept
  <2>2. QED  BY <1>1, <1>3, <2>1 DEF Read
<1>4. QED  BY <1>2, <1>3

\* /objects/history answers, for any window, with those of the last
\* history_ring_size samples of an element that lie in it, where the order of
\* the texts is that of the times: the ring loses none of them and keeps no
\* older one.
THEOREM HistoryIsRecent == Spec => []HistoryAnswers
<1>1. TypeOK /\ RingIsRecent /\ [Next]_vars => RingIsRecent'
  BY RingIsRecentStep
<1>2. QED  BY <1>1, RingIsRecentInit, RingAnswers, TypeCorrect, PTL DEF Spec

====
