-------------------------- MODULE I3XClientProofs --------------------------
(***************************************************************************)
(* Proofs about I3XClient: what one number for the stream and the poll may *)
(* pass, for every ring size, queue size and set of subscriptions and      *)
(* streams.  A step of the client that is not one of Subscriptions touches *)
(* of its state only the responses and the flag, so the lemmas on streams  *)
(* of SubscriptionsProofs serve here too.                                  *)
(***************************************************************************)
EXTENDS I3XClient, SubscriptionsProofs

-----------------------------------------------------------------------------
(* The steps of the manager and of the streams.                            *)

\* The types of what the client adds.
ClientTypes ==
    /\ syncSeq \in [Subs -> 0 .. MaxSeq]
    /\ transit \in [Streams -> Seq(Item)]
    /\ got \in [Subs -> SUBSET Nat]
    /\ refused \in [Subs -> SUBSET Nat]
    /\ behind \in [Subs -> SUBSET Nat]

\* A sync asked or answered by the number of this client.
Polling == UNCHANGED <<phase, elements, ring, nextSeq, streamers, sse, seen>>

\* A step of the client is one of Subscriptions, or asks or answers a sync.
LEMMA ClientCases ==
    ASSUME [ClientNext]_clientVars
    PROVE  \/ [Next]_vars
           \/ \E s \in Subs : (Poll(s) \/ Polled(s)) /\ Polling
<1>1. CASE UNCHANGED clientVars
  BY <1>1 DEF clientVars
<1>2. ASSUME NEW s \in Subs, Poll(s) \/ Polled(s)  PROVE Polling
  BY <1>2 DEF Poll, Polled, Answer, Polling, manager, sse
<1>3. ASSUME NEW s \in Subs, PollFails(s) \/ Forget(s)  PROVE [Next]_vars
  BY <1>3 DEF PollFails, Forget, Next, ClientStep
<1>4. ASSUME NEW t \in Streams, Open(t) \/ Send(t) \/ End(t) \/ Hear(t) \/ HangUp(t)
      PROVE  [Next]_vars
  BY <1>4 DEF Open, Send, End, Hear, HangUp, Next, StreamStep
<1>5. CASE Publish
  BY <1>5 DEF Publish, Next, ManagerStep
<1>6. CASE Manage
  BY <1>6 DEF Manage, Next, ManagerStep
<1>7. CASE Answering
  BY <1>7 DEF Answering, Next, StreamStep
<1>8. QED  BY <1>1, <1>2, <1>3, <1>4, <1>5, <1>6, <1>7 DEF ClientNext

\* What is known of the streams whoever drains the ring.
Served == TypeOK /\ ListenerAttached /\ Unheard /\ AllOrdered

\* Each step keeps it.
LEMMA ServedStep ==
    ASSUME Served, ClientTypes, [ClientNext]_clientVars
    PROVE  Served'
<1>1. CASE [Next]_vars
  <2>1. TypeOK'
    BY <1>1, TypeStep DEF Served
  <2>2. QED  BY <1>1, <2>1, AttachedStep, OrderedStep DEF Served
<1>2. ASSUME NEW s \in Subs, Poll(s) \/ Polled(s), Polling
      PROVE  Served'
  <2>1. TypeOK'
    <3>1. CASE Poll(s)
      <4>1. ring[s] \in Seq(Item) /\ syncSeq[s] \in Nat /\ dropped[s] \in BOOLEAN
        BY SizeAssumption DEF Served, TypeOK, ClientTypes
      <4>2. After(ring[s], syncSeq[s]) \in SUBSET Item
        BY <4>1, ItemTypes DEF Served
      <4>3. QED  BY <3>1, <4>1, <4>2, AnswerTypes DEF Poll, Served
    <3>2. CASE Polled(s)
      <4>1. NoReply \in [items : SUBSET Item, dropped : BOOLEAN, pending : BOOLEAN]
        BY DEF NoReply
      <4>2. reply' = [reply EXCEPT ![s] = NoReply] /\ UNCHANGED <<manager, sse, seen>>
        BY <3>2 DEF Polled
      <4>3. QED  BY <4>1, <4>2 DEF Served, TypeOK, manager, sse
    <3>3. QED  BY <1>2, <3>1, <3>2
  <2>2. ListenerAttached' /\ Unheard' /\ AllOrdered'
    BY <1>2 DEF Served, Polling, ListenerAttached, Unheard, AllOrdered, Live, sse
  <2>3. QED  BY <2>1, <2>2 DEF Served
<1>3. QED  BY <1>1, <1>2, ClientCases

-----------------------------------------------------------------------------
(* Numbers in sequences of items.                                          *)

\* The numbers of what a queue holds; the sentinel's is 0.
NumbersIn(q) == {q[i].sequenceNumber : i \in 1 .. Len(q)}

\* The numbers in a ring.
InRing(s) == Numbers(After(ring[s], 0))

\* What an append does to the numbers.
LEMMA NumbersAppend ==
    ASSUME NEW q \in Seq(Entry), NEW x \in Entry
    PROVE  NumbersIn(Append(q, x)) = NumbersIn(q) \cup {x.sequenceNumber}
<1> DEFINE r == Append(q, x)
<1>1. /\ Len(r) = Len(q) + 1 /\ r[Len(q) + 1] = x
      /\ \A i \in 1 .. Len(q) : r[i] = q[i]
  OBVIOUS
<1>2. Len(q) \in Nat
  OBVIOUS
<1> HIDE DEF r
<1>3. 1 .. Len(r) = (1 .. Len(q)) \cup {Len(q) + 1}
  BY <1>1, <1>2
<1>4. NumbersIn(r) = NumbersIn(q) \cup {x.sequenceNumber}
  BY <1>1, <1>3 DEF NumbersIn
<1>5. QED  BY <1>4 DEF r

\* What taking the head does to them.
LEMMA NumbersTail ==
    ASSUME NEW q \in Seq(Entry), q # <<>>
    PROVE  NumbersIn(q) = {Head(q).sequenceNumber} \cup NumbersIn(Tail(q))
<1> DEFINE r == Tail(q)
<1>1. /\ Len(q) \in Nat /\ Len(q) >= 1 /\ Len(r) = Len(q) - 1 /\ Head(q) = q[1]
      /\ \A i \in 1 .. Len(q) - 1 : r[i] = q[i + 1]
  OBVIOUS
<1> HIDE DEF r
<1>2. ASSUME NEW n \in NumbersIn(q)
      PROVE  n \in {q[1].sequenceNumber} \cup NumbersIn(r)
  <2>1. PICK i \in 1 .. Len(q) : n = q[i].sequenceNumber
    BY DEF NumbersIn
  <2>2. CASE i = 1
    BY <2>1, <2>2
  <2>3. CASE i # 1
    <3>1. i - 1 \in 1 .. Len(r) /\ r[i - 1] = q[i]
      BY <1>1, <2>3
    <3>2. QED  BY <2>1, <3>1 DEF NumbersIn
  <2>4. QED  BY <2>2, <2>3
<1>3. ASSUME NEW n \in {q[1].sequenceNumber} \cup NumbersIn(r)
      PROVE  n \in NumbersIn(q)
  <2>1. CASE n = q[1].sequenceNumber
    BY <1>1, <2>1 DEF NumbersIn
  <2>2. CASE n \in NumbersIn(r)
    <3>1. PICK i \in 1 .. Len(r) : n = r[i].sequenceNumber
      BY <2>2 DEF NumbersIn
    <3>2. i + 1 \in 1 .. Len(q) /\ r[i] = q[i + 1]
      BY <1>1, <3>1
    <3>3. QED  BY <3>1, <3>2 DEF NumbersIn
  <2>3. QED  BY <1>3, <2>1, <2>2
<1>4. NumbersIn(q) = {q[1].sequenceNumber} \cup NumbersIn(r)
  BY <1>2, <1>3
<1>5. QED  BY <1>1, <1>4 DEF r

\* The numbers of items are positive, and those of a ring are those of its items.
LEMMA RingNumbers ==
    ASSUME NEW r \in Seq(Item)
    PROVE  Numbers(After(r, 0)) = NumbersIn(r) /\ \A n \in NumbersIn(r) : n \in Nat /\ n > 0
<1>1. \A i \in 1 .. Len(r) : r[i].sequenceNumber \in Nat /\ r[i].sequenceNumber > 0
  <2>1. \A i \in 1 .. Len(r) : r[i] \in Item
    OBVIOUS
  <2>2. QED  BY <2>1, SizeAssumption DEF Item, Seqs
<1>2. After(r, 0) = {r[i] : i \in 1 .. Len(r)}
  <2>1. DOMAIN r = 1 .. Len(r)
    OBVIOUS
  <2>2. {j \in DOMAIN r : r[j].sequenceNumber > 0} = 1 .. Len(r)
    BY <1>1, <2>1
  <2>3. QED  BY <2>2 DEF After
<1>3. Numbers(After(r, 0)) = NumbersIn(r)
  BY <1>2 DEF Numbers, NumbersIn
<1>4. QED  BY <1>1, <1>3 DEF NumbersIn

\* An append adds its own number to a ring, and can evict.
LEMMA RingGains ==
    ASSUME NEW r \in Seq(Item), NEW x \in Item
    PROVE  NumbersIn(RingAppend(r, x)) \subseteq NumbersIn(r) \cup {x.sequenceNumber}
<1>0. r \in Seq(Entry) /\ x \in Entry
  BY DEF Entry
<1>1. CASE Len(r) = RingSize
  <2>1. r # <<>>
    BY <1>1, SizeAssumption
  <2>2. Tail(r) \in Seq(Entry)
    BY <1>0, <2>1
  <2>3. NumbersIn(Append(Tail(r), x)) = NumbersIn(Tail(r)) \cup {x.sequenceNumber}
    BY <1>0, <2>2, NumbersAppend
  <2>4. NumbersIn(Tail(r)) \subseteq NumbersIn(r)
    BY <1>0, <2>1, NumbersTail
  <2>5. QED  BY <1>1, <2>3, <2>4 DEF RingAppend
<1>2. CASE Len(r) # RingSize
  BY <1>0, <1>2, NumbersAppend DEF RingAppend
<1>3. QED  BY <1>1, <1>2

-----------------------------------------------------------------------------
(* What is passed, what is on its way and what is below the next number.   *)

\* The numbers that may be passed in silence.
Excused(s) == got[s] \cup refused[s] \cup behind[s]

\* What a response under way leads past is in it, or may be passed.
Answered(s) ==
    reply[s].pending =>
        \A m \in Numbers(reply[s].items), n \in InRing(s) :
            n <= m => n \in Excused(s) \cup Numbers(reply[s].items)

\* All numbers the client can meet have been given to samples.
Below(s) ==
    /\ syncSeq[s] < nextSeq[s]
    /\ \A n \in Numbers(reply[s].items) \cup InRing(s) : n < nextSeq[s]

Passed(s) == \A n \in InRing(s) : n <= syncSeq[s] => n \in Excused(s)

Drained(s) == Passed(s) /\ Answered(s) /\ Below(s)

\* The stream t still brings the client something.
Fed(t) == stream[t] = "open" \/ transit[t] # <<>>

\* What the stream t has for the client: all that is in the ring and may not be
\* passed, in order.
Brings(t) ==
    /\ Fed(t) => \A n \in InRing(target[t]) :
                    n \in Excused(target[t]) \cup NumbersIn(transit[t]) \cup NumbersIn(queue[t])
    /\ \A i \in 1 .. Len(transit[t]) :
          /\ transit[t][i].sequenceNumber <= yielded[t]
          /\ \A j \in 1 .. i - 1 :
                transit[t][j].sequenceNumber < transit[t][i].sequenceNumber
    /\ transit[t] # <<>> => stream[t] = "open" \/ phase[target[t]] = "deleted"
    /\ Len(queue[t]) <= QueueSize

\* The inductive invariant: a number the client passes is one it may pass, because
\* so is all that a response or a stream is about to lead it past.
ClientInv ==
    /\ ClientTypes
    /\ \A s \in Subs : Drained(s)
    /\ \A t \in Streams : Brings(t)

\* The numbers in a ring are positive.
LEMMA InRingTypes ==
    ASSUME TypeOK, NEW s \in Subs
    PROVE  InRing(s) = NumbersIn(ring[s]) /\ \A n \in InRing(s) : n \in Nat /\ n > 0
BY RingNumbers DEF TypeOK, InRing

\* Passing nothing but what may be passed is what NothingSkipped says.
LEMMA PassedIsExcused == (\A s \in Subs : Passed(s)) => NothingSkipped
BY DEF Passed, NothingSkipped, InRing, Excused

\* The drained part is kept by a step that gives the client nothing to pass.
LEMMA DrainedKept ==
    ASSUME TypeOK, ClientTypes, NEW s \in Subs, Drained(s), ring'[s] = ring[s],
           nextSeq'[s] = nextSeq[s], Excused(s) \subseteq Excused(s)',
           syncSeq'[s] = syncSeq[s] \/ syncSeq'[s] = 0,
           reply'[s] = reply[s] \/ reply'[s] = NoReply
    PROVE  Drained(s)'
<1>1. InRing(s)' = InRing(s) /\ \A n \in InRing(s) : n \in Nat /\ n > 0
  BY InRingTypes DEF InRing
<1>2. syncSeq[s] \in Nat /\ nextSeq[s] \in Nat /\ nextSeq[s] > 0
  BY SizeAssumption DEF ClientTypes, TypeOK
<1>3. Numbers(NoReply.items) = {} /\ ~NoReply.pending
  BY DEF Numbers, NoReply
<1>4. Passed(s)'
  BY <1>1, <1>2 DEF Drained, Passed
<1>5. Answered(s)'
  BY <1>1, <1>3 DEF Drained, Answered
<1>6. Below(s)'
  BY <1>1, <1>2, <1>3 DEF Drained, Below
<1>7. QED  BY <1>4, <1>5, <1>6 DEF Drained

\* What a stream brings is kept by a step that takes nothing from it.
LEMMA BringsKept ==
    ASSUME TypeOK, NEW t \in Streams, Brings(t), target' = target, ring' = ring,
           transit'[t] = transit[t], yielded'[t] = yielded[t],
           NumbersIn(queue[t]) \subseteq NumbersIn(queue'[t]), Len(queue'[t]) <= QueueSize,
           Excused(target[t]) \subseteq Excused(target[t])',
           stream'[t] = stream[t] \/ (stream[t] # "open" /\ stream'[t] # "open"),
           phase[target[t]] = "deleted" => phase'[target[t]] = "deleted"
    PROVE  Brings(t)'
<1>1. InRing(target[t])' = InRing(target[t])
  BY DEF InRing
<1>2. QED  BY <1>1 DEF Brings, Fed, Excused

\* Each step keeps the types of what the client adds.
LEMMA ClientTypesStep ==
    ASSUME TypeOK, ClientTypes, [ClientNext]_clientVars
    PROVE  ClientTypes'
<1> USE SizeAssumption
<1>1. ASSUME NEW s \in Subs, NEW items \in SUBSET Item, ParseStreamItems(s, items),
             UNCHANGED ghosts, transit' \in [Streams -> Seq(Item)]
      PROVE  ClientTypes'
  <2>1. Newest(items, syncSeq[s]) \in 0 .. MaxSeq
    <3>1. syncSeq[s] \in 0 .. MaxSeq
      BY DEF ClientTypes
    <3>2. Newest(items, syncSeq[s]) \in syncSeq[s] .. MaxSeq
      BY <3>1, NewestIsLargest
    <3>3. QED  BY <3>1, <3>2
  <2>2. Numbers(items) \subseteq Nat
    BY DEF Numbers, Item, Seqs
  <2>3. QED  BY <1>1, <2>1, <2>2 DEF ClientTypes, ParseStreamItems, ghosts
<1>2. ASSUME NEW s \in Subs, Poll(s) \/ Polled(s) \/ PollFails(s) \/ Forget(s)
      PROVE  ClientTypes'
  <2>1. CASE Polled(s)
    <3>1. reply[s].items \in SUBSET Item
      BY DEF TypeOK
    <3>2. QED  BY <1>1, <2>1, <3>1 DEF Polled, ClientTypes
  <2>2. CASE Poll(s) \/ PollFails(s)
    BY <2>2 DEF Poll, PollFails, extra, numbers, ghosts, ClientTypes
  <2>3. CASE Forget(s)
    BY <2>3 DEF Forget, ghosts, ClientTypes
  <2>4. QED  BY <1>2, <2>1, <2>2, <2>3
<1>3. ASSUME NEW t \in Streams, Open(t) \/ Send(t) \/ End(t) \/ Hear(t) \/ HangUp(t)
      PROVE  ClientTypes'
  <2>1. CASE Open(t)
    <3>1. target[t] \in Subs /\ nextSeq[target[t]] \in Nat /\ syncSeq[target[t]] \in Nat
      BY DEF TypeOK, ClientTypes
    <3>2. {n \in syncSeq[target[t]] + 1 .. nextSeq[target[t]] - 1 : n \notin got[target[t]]}
              \subseteq Nat
      BY <3>1
    <3>3. QED  BY <2>1, <3>1, <3>2 DEF Open, numbers, ClientTypes
  <2>2. CASE Send(t)
    <3>1. Head(queue[t]) \in Item
      BY <2>2 DEF Send, Yield, TypeOK
    <3>2. QED  BY <2>2, <3>1 DEF Send, numbers, ghosts, ClientTypes
  <2>3. CASE End(t)
    BY <2>3 DEF End, extra, numbers, ghosts, ClientTypes
  <2>4. CASE Hear(t)
    <3>1. /\ target[t] \in Subs /\ {Head(transit[t])} \in SUBSET Item
          /\ Tail(transit[t]) \in Seq(Item)
      BY <2>4 DEF Hear, TypeOK, ClientTypes
    <3>2. transit' \in [Streams -> Seq(Item)]
      BY <2>4, <3>1 DEF Hear, ClientTypes
    <3>3. QED  BY <1>1, <2>4, <3>1, <3>2 DEF Hear
  <2>5. CASE HangUp(t)
    BY <2>5 DEF HangUp, numbers, ghosts, ClientTypes
  <2>6. QED  BY <1>3, <2>1, <2>2, <2>3, <2>4, <2>5
<1>4. CASE Publish
  <2>1. \A s \in Subs : nextSeq[s] \in Nat
    BY DEF TypeOK
  <2>2. QED  BY <1>4, <2>1 DEF Publish, numbers, ClientTypes
<1>5. CASE Manage \/ Answering \/ UNCHANGED clientVars
  BY <1>5 DEF Manage, Answering, clientVars, extra, numbers, ghosts, ClientTypes
<1>6. QED  BY <1>2, <1>3, <1>4, <1>5 DEF ClientNext

-----------------------------------------------------------------------------
(* The poll.                                                               *)

\* A response holds the numbers of the ring above the one asked for.
LEMMA AfterNumbers ==
    ASSUME NEW r \in Seq(Item), NEW k \in Nat
    PROVE  \A n : n \in Numbers(After(r, k)) <=> n \in NumbersIn(r) /\ n > k
BY DEF After, Numbers, NumbersIn

\* Taking items in passes nothing if what they lead past may be passed.
LEMMA Parses ==
    ASSUME TypeOK, ClientTypes, NEW s \in Subs, Drained(s), NEW items \in SUBSET Item,
           ParseStreamItems(s, items), UNCHANGED <<ring, nextSeq, ghosts>>,
           reply'[s] = reply[s] \/ reply'[s] = NoReply,
           \A m \in Numbers(items) : m < nextSeq[s],
           \A m \in Numbers(items), n \in InRing(s) :
               n <= m => n \in Excused(s) \cup Numbers(items)
    PROVE  Drained(s)'
<1>1. /\ syncSeq'[s] = Newest(items, syncSeq[s]) /\ syncSeq[s] \in 0 .. MaxSeq
      /\ got'[s] = got[s] \cup Numbers(items)
  BY DEF ParseStreamItems, ClientTypes
<1>2. Newest(items, syncSeq[s]) \in Numbers(items) \cup {syncSeq[s]}
  BY <1>1, NewestIsLargest
<1>3. Excused(s)' = Excused(s) \cup Numbers(items)
  BY <1>1 DEF Excused, ghosts
<1>4. InRing(s)' = InRing(s) /\ \A n \in InRing(s) : n \in Nat /\ n > 0
  BY InRingTypes DEF InRing
<1>5. Numbers(NoReply.items) = {} /\ ~NoReply.pending
  BY DEF Numbers, NoReply
<1>6. Passed(s)'
  BY <1>1, <1>2, <1>3, <1>4 DEF Drained, Passed
<1>7. Answered(s)'
  BY <1>3, <1>4, <1>5 DEF Drained, Answered
<1>8. Below(s)'
  BY <1>1, <1>2, <1>4, <1>5 DEF Drained, Below
<1>9. QED  BY <1>6, <1>7, <1>8 DEF Drained

\* A response leads past nothing that is neither in it nor excused.
LEMMA PollDrained ==
    ASSUME TypeOK, ClientTypes, NEW s \in Subs, Drained(s), Poll(s)
    PROVE  Drained(s)'
<1>1. /\ reply'[s].items = After(ring[s], syncSeq[s])
      /\ UNCHANGED <<ring, nextSeq, syncSeq, got, refused, behind>>
  BY DEF Poll, Answer, extra, numbers, ghosts, TypeOK
<1>2. InRing(s)' = InRing(s) /\ Excused(s)' = Excused(s)
  BY <1>1 DEF InRing, Excused
<1>3. InRing(s) = NumbersIn(ring[s]) /\ \A n \in InRing(s) : n \in Nat
  BY InRingTypes
<1>4. \A n : n \in Numbers(reply'[s].items) <=> n \in InRing(s) /\ n > syncSeq[s]
  <2>1. ring[s] \in Seq(Item) /\ syncSeq[s] \in Nat
    BY SizeAssumption DEF TypeOK, ClientTypes
  <2>2. QED  BY <1>1, <1>3, <2>1, AfterNumbers
<1>5. syncSeq[s] \in Nat
  BY SizeAssumption DEF ClientTypes
<1>6. Answered(s)'
  BY <1>2, <1>3, <1>4, <1>5 DEF Drained, Passed, Answered
<1>7. Passed(s)' /\ Below(s)'
  BY <1>1, <1>2, <1>4 DEF Drained, Passed, Below
<1>8. QED  BY <1>6, <1>7 DEF Drained

\* What is first on its way is below all the rest of what the stream has.
LEMMA HeadIsFirst ==
    ASSUME Served, ClientTypes, NEW t \in Streams, Brings(t), transit[t] # <<>>
    PROVE  LET m == Head(transit[t]).sequenceNumber IN
           /\ m \in Nat /\ m < nextSeq[target[t]]
           /\ \A n \in NumbersIn(transit[t]) \cup NumbersIn(queue[t]) : n = 0 \/ n >= m
<1> DEFINE m == Head(transit[t]).sequenceNumber
<1>1. /\ transit[t] \in Seq(Item) /\ Len(transit[t]) >= 1 /\ Len(transit[t]) \in Nat
      /\ Head(transit[t]) = transit[t][1] /\ Head(transit[t]) \in Item
  BY DEF ClientTypes
<1>2. \A i \in 1 .. Len(transit[t]) : transit[t][i] \in Item
  BY <1>1
<1>3. \A x \in Item : x.sequenceNumber \in Nat
  BY SizeAssumption DEF Item, Seqs
<1>4. m <= yielded[t] /\ m \in Nat /\ yielded[t] \in Nat
  BY <1>1, <1>3, SizeAssumption DEF Brings, Served, TypeOK
<1>5. Ordered(queue[t], yielded[t], nextSeq[target[t]], phase[target[t]] = "deleted")
  BY DEF Served, AllOrdered
<1>6. nextSeq[target[t]] \in Nat
  BY SizeAssumption DEF Served, TypeOK
<1>7. m < nextSeq[target[t]]
  BY <1>4, <1>5, <1>6 DEF Ordered
<1>8. ASSUME NEW i \in 1 .. Len(transit[t])
      PROVE  transit[t][i].sequenceNumber >= m
  <2>1. CASE i = 1
    BY <1>1, <1>4, <2>1
  <2>2. CASE i # 1
    <3>1. 1 \in 1 .. i - 1
      BY <2>2
    <3>2. transit[t][1].sequenceNumber < transit[t][i].sequenceNumber
      BY <3>1 DEF Brings
    <3>3. QED  BY <1>1, <1>2, <1>3, <1>4, <3>2
  <2>3. QED  BY <2>1, <2>2
<1>9. ASSUME NEW i \in 1 .. Len(queue[t])
      PROVE  queue[t][i].sequenceNumber = 0 \/ queue[t][i].sequenceNumber >= m
  <2>1. CASE queue[t][i] = StreamEnd
    BY <2>1 DEF StreamEnd
  <2>2. CASE queue[t][i] # StreamEnd
    <3>1. queue[t][i].sequenceNumber > yielded[t]
      BY <1>5, <2>2 DEF Ordered
    <3>2. queue[t][i].sequenceNumber \in Nat
      <4>1. queue[t] \in Seq(Entry)
        BY DEF Served, TypeOK, Entry
      <4>2. queue[t][i] \in Entry
        BY <4>1
      <4>3. QED  BY <4>2, EntryTypes
    <3>3. QED  BY <1>4, <3>1, <3>2
  <2>3. QED  BY <2>1, <2>2
<1>10. \A n \in NumbersIn(transit[t]) \cup NumbersIn(queue[t]) : n = 0 \/ n >= m
  BY <1>8, <1>9 DEF NumbersIn
<1>11. QED  BY <1>4, <1>7, <1>10

\* An event leads past nothing that the stream has not brought or may be passed.
LEMMA HearDrained ==
    ASSUME Served, ClientTypes, NEW t \in Streams, Brings(t), Drained(target[t]), Hear(t)
    PROVE  Drained(target[t])'
<1>0. PICK s \in Subs : s = target[t]
  BY DEF Served, TypeOK
<1>10. PICK items, m : items = {Head(transit[t])} /\ m = Head(transit[t]).sequenceNumber
  OBVIOUS
<1>1. /\ transit[t] # <<>> /\ ParseStreamItems(s, items)
      /\ UNCHANGED <<ring, nextSeq, reply, ghosts, target>>
  BY <1>0, <1>10 DEF Hear, vars, manager, client, sse
<1>2. s \in Subs /\ items \in SUBSET Item /\ Numbers(items) = {m} /\ TypeOK
  BY <1>1, <1>10 DEF Served, TypeOK, ClientTypes, Numbers
<1>3. /\ m \in Nat /\ m < nextSeq[s]
      /\ \A n \in NumbersIn(transit[t]) \cup NumbersIn(queue[t]) : n = 0 \/ n >= m
  BY <1>0, <1>1, <1>10, HeadIsFirst
<1>4. \A n \in InRing(s) : n \in Nat /\ n > 0
  BY <1>2, InRingTypes
<1>5. \A n \in InRing(s) : n \in Excused(s) \cup NumbersIn(transit[t]) \cup NumbersIn(queue[t])
  BY <1>0, <1>1 DEF Brings, Fed
<1>6. \A n \in InRing(s) : n <= m => n \in Excused(s) \/ n = m
  BY <1>3, <1>4, <1>5
<1>7. Drained(s)
  BY <1>0
<1>8. Drained(s)'
  <2>1. \A k \in Numbers(items) : k < nextSeq[s]
    BY <1>2, <1>3
  <2>2. \A k \in Numbers(items), n \in InRing(s) :
            n <= k => n \in Excused(s) \cup Numbers(items)
    BY <1>2, <1>6
  <2>3. UNCHANGED <<ring, nextSeq, ghosts>> /\ reply'[s] = reply[s]
    BY <1>1
  <2>4. QED  BY <1>1, <1>2, <1>7, <2>1, <2>2, <2>3, Parses
<1>9. QED  BY <1>0, <1>1, <1>8

\* A sample has a number that the client has not passed, nor any response.
LEMMA PublishDrained ==
    ASSUME TypeOK, ClientTypes, NEW s \in Subs, Drained(s), Publish
    PROVE  Drained(s)'
<1>1. PICK r \in Subs, e \in Elements : PushTo(r, e)
  BY DEF Publish
<1>2. UNCHANGED <<syncSeq, got, behind, reply>> /\ Excused(s) \subseteq Excused(s)'
  BY <1>1 DEF Publish, PushTo, AppendLocked, numbers, client, Excused
<1>3. \A n \in InRing(s) : n \in Nat /\ n > 0
  BY InRingTypes
<1>4. syncSeq[s] \in Nat /\ nextSeq[s] \in Nat
  BY SizeAssumption DEF ClientTypes, TypeOK
<1>5. \A m \in Numbers(reply[s].items) : m \in Nat
  BY SizeAssumption DEF TypeOK, Numbers, Item, Seqs
<1>6. CASE s # r
  <2>1. ring'[s] = ring[s] /\ nextSeq'[s] = nextSeq[s]
    BY <1>1, <1>6 DEF PushTo, AppendLocked
  <2>2. QED  BY <1>2, <2>1, DrainedKept
<1>7. CASE s = r
  <2>1. /\ nextSeq'[s] = nextSeq[s] + 1 /\ nextSeq[s] <= MaxSeq
        /\ ring'[s] = RingAppend(ring[s], Stamp(s, e))
    BY <1>1, <1>7 DEF PushTo, AppendLocked
  <2>2. Stamp(s, e) \in Item /\ Stamp(s, e).sequenceNumber = nextSeq[s] /\ ring[s] \in Seq(Item)
    BY <2>1, ItemTypes DEF Stamp, TypeOK
  <2>3. NumbersIn(ring'[s]) \subseteq NumbersIn(ring[s]) \cup {nextSeq[s]}
    BY <2>1, <2>2, RingGains
  <2>4. ring'[s] \in Seq(Item)
    BY <2>1, <2>2, ItemTypes
  <2>5. InRing(s)' \subseteq InRing(s) \cup {nextSeq[s]}
    BY <2>2, <2>3, <2>4, RingNumbers DEF InRing
  <2>6. Passed(s)'
    BY <1>2, <1>4, <2>5 DEF Drained, Passed, Below
  <2>7. Answered(s)'
    BY <1>2, <1>4, <1>5, <2>5 DEF Drained, Answered, Below
  <2>8. Below(s)'
    BY <1>2, <1>3, <1>4, <1>5, <2>1, <2>5 DEF Drained, Below
  <2>9. QED  BY <2>6, <2>7, <2>8 DEF Drained
<1>8. QED  BY <1>6, <1>7

\* Each step keeps the drained part.
LEMMA DrainedStep ==
    ASSUME Served, ClientInv, [ClientNext]_clientVars, NEW s \in Subs
    PROVE  Drained(s)'
<1>0. /\ TypeOK /\ ClientTypes /\ Drained(s) /\ \A r \in Subs : Drained(r)
      /\ \A t \in Streams : Brings(t)
  BY DEF Served, ClientInv
<1>1. ASSUME NEW r \in Subs, Poll(r) \/ Polled(r) \/ PollFails(r) \/ Forget(r)
      PROVE  Drained(s)'
  <2>1. CASE Poll(r)
    <3>1. CASE r = s
      BY <1>0, <2>1, <3>1, PollDrained
    <3>2. CASE r # s
      <4>1. reply'[s] = reply[s] /\ UNCHANGED <<ring, nextSeq, syncSeq, got, refused, behind>>
        BY <1>0, <2>1, <3>2 DEF Poll, Answer, extra, numbers, ghosts, TypeOK
      <4>2. QED  BY <1>0, <4>1, DrainedKept DEF Excused
    <3>3. QED  BY <3>1, <3>2
  <2>2. CASE Polled(r)
    <3>1. /\ reply[r].pending /\ ParseStreamItems(r, reply[r].items)
          /\ reply' = [reply EXCEPT ![r] = NoReply] /\ UNCHANGED <<ring, nextSeq, ghosts>>
      BY <2>2 DEF Polled, manager
    <3>2. CASE r = s
      <4>1. reply[s].items \in SUBSET Item /\ reply'[s] = NoReply
        BY <1>0, <3>1, <3>2 DEF TypeOK
      <4>2. /\ \A m \in Numbers(reply[s].items) : m < nextSeq[s]
            /\ \A m \in Numbers(reply[s].items), n \in InRing(s) :
                  n <= m => n \in Excused(s) \cup Numbers(reply[s].items)
        BY <1>0, <3>1, <3>2 DEF Drained, Below, Answered
      <4>3. QED  BY <1>0, <3>1, <3>2, <4>1, <4>2, Parses
    <3>3. CASE r # s
      <4>1. reply'[s] = reply[s] /\ syncSeq'[s] = syncSeq[s] /\ got'[s] = got[s]
        BY <1>0, <3>1, <3>3 DEF ParseStreamItems, TypeOK, ClientTypes
      <4>2. QED  BY <1>0, <3>1, <4>1, DrainedKept DEF Excused, ghosts
    <3>4. QED  BY <3>2, <3>3
  <2>3. CASE PollFails(r)
    <3>1. /\ reply'[s] = reply[s] \/ reply'[s] = NoReply
          /\ UNCHANGED <<ring, nextSeq, syncSeq, got, refused, behind>>
      BY <1>0, <2>3 DEF PollFails, LoseReply, manager, extra, numbers, ghosts, TypeOK
    <3>2. QED  BY <1>0, <3>1, DrainedKept DEF Excused
  <2>4. CASE Forget(r)
    <3>1. /\ syncSeq'[s] = syncSeq[s] \/ syncSeq'[s] = 0
          /\ UNCHANGED <<ring, nextSeq, reply, got, refused, behind>>
      BY <1>0, <2>4 DEF Forget, vars, manager, client, ghosts, ClientTypes
    <3>2. QED  BY <1>0, <3>1, DrainedKept DEF Excused
  <2>5. QED  BY <1>1, <2>1, <2>2, <2>3, <2>4
<1>2. ASSUME NEW t \in Streams, Open(t) \/ Send(t) \/ End(t) \/ Hear(t) \/ HangUp(t)
      PROVE  Drained(s)'
  <2>1. target[t] \in Subs
    BY <1>0 DEF TypeOK
  <2>2. CASE Hear(t)
    <3>1. CASE target[t] = s
      <4>1. target' = target
        BY <2>2 DEF Hear, vars, sse
      <4>2. Drained(target[t])'
        BY <1>0, <2>1, <2>2, HearDrained
      <4>3. QED  BY <3>1, <4>1, <4>2
    <3>2. CASE target[t] # s
      <4>1. /\ syncSeq'[s] = syncSeq[s] /\ got'[s] = got[s]
            /\ UNCHANGED <<ring, nextSeq, reply, refused, behind>>
        BY <1>0, <2>1, <2>2, <3>2
           DEF Hear, ParseStreamItems, vars, manager, client, ghosts, ClientTypes
      <4>2. QED  BY <1>0, <4>1, DrainedKept DEF Excused
    <3>3. QED  BY <3>1, <3>2
  <2>3. CASE Open(t)
    <3>1. /\ UNCHANGED <<ring, nextSeq, reply, syncSeq, got, refused>>
          /\ behind[s] \subseteq behind'[s]
      BY <1>0, <2>1, <2>3 DEF Open, Attach, client, numbers, ClientTypes
    <3>2. QED  BY <1>0, <3>1, DrainedKept DEF Excused
  <2>4. CASE Send(t) \/ End(t) \/ HangUp(t)
    <3>1. UNCHANGED <<ring, nextSeq, reply, syncSeq, got, refused, behind>>
      BY <2>4 DEF Send, Yield, End, EndOfStream, HangUp, Disconnect, manager, client, extra,
                  numbers, ghosts
    <3>2. QED  BY <1>0, <3>1, DrainedKept DEF Excused
  <2>5. QED  BY <1>2, <2>2, <2>3, <2>4
<1>3. CASE Publish
  BY <1>0, <1>3, PublishDrained
<1>4. CASE Manage \/ Answering \/ UNCHANGED clientVars
  <2>1. UNCHANGED <<ring, nextSeq, reply, syncSeq, got, refused, behind>>
    BY <1>4 DEF Manage, Create, Delete, Answering, Admit, AttachFails, Leave, manager, client,
                clientVars, vars, extra, numbers, ghosts
  <2>2. QED  BY <1>0, <2>1, DrainedKept DEF Excused
<1>5. QED  BY <1>1, <1>2, <1>3, <1>4 DEF ClientNext

-----------------------------------------------------------------------------
(* The streams.                                                            *)

\* An offer takes nothing from a queue and never overfills it.
LEMMA OfferKeeps ==
    ASSUME NEW q \in Seq(Entry), NEW x \in Entry, Len(q) <= QueueSize
    PROVE  /\ NumbersIn(q) \subseteq NumbersIn(Offer(q, x))
           /\ Len(Offer(q, x)) <= QueueSize
           /\ Len(q) # QueueSize => x.sequenceNumber \in NumbersIn(Offer(q, x))
<1>1. Len(q) \in Nat /\ QueueSize \in Nat /\ Len(Append(q, x)) = Len(q) + 1
  BY SizeAssumption
<1>2. CASE Len(q) < QueueSize
  <2>1. Offer(q, x) = Append(q, x)
    BY <1>2 DEF Offer
  <2>2. QED  BY <1>1, <1>2, <2>1, NumbersAppend
<1>3. CASE ~(Len(q) < QueueSize)
  <2>1. Offer(q, x) = q /\ Len(q) = QueueSize
    BY <1>1, <1>3 DEF Offer
  <2>2. QED  BY <2>1
<1>4. QED  BY <1>2, <1>3

\* The types of what a stream has on its way and waiting.
LEMMA StreamTypes ==
    ASSUME Served, ClientTypes, NEW t \in Streams
    PROVE  /\ target[t] \in Subs /\ queue[t] \in Seq(Entry) /\ transit[t] \in Seq(Item)
           /\ transit[t] \in Seq(Entry) /\ yielded[t] \in Nat
           /\ Ordered(queue[t], yielded[t], nextSeq[target[t]], phase[target[t]] = "deleted")
           /\ \A n \in InRing(target[t]) : n \in Nat /\ n > 0
<1>1. /\ target[t] \in Subs /\ queue[t] \in Seq(Entry) /\ transit[t] \in Seq(Item)
      /\ yielded[t] \in Nat
  BY SizeAssumption DEF Served, TypeOK, ClientTypes, Entry
<1>2. transit[t] \in Seq(Entry)
  BY <1>1 DEF Entry
<1>3. Ordered(queue[t], yielded[t], nextSeq[target[t]], phase[target[t]] = "deleted")
  BY DEF Served, AllOrdered
<1>4. \A n \in InRing(target[t]) : n \in Nat /\ n > 0
  BY <1>1, InRingTypes DEF Served
<1>5. QED  BY <1>1, <1>2, <1>3, <1>4

\* A new stream owes the client nothing that came before it but what it has.
LEMMA OpenBrings ==
    ASSUME Served, ClientTypes, NEW t \in Streams, Brings(t), Drained(target[t]), Open(t)
    PROVE  Brings(t)'
<1>0. PICK s \in Subs : s = target[t]
  BY DEF Served, TypeOK
<1>1. /\ stream[t] = "admitted" /\ stream'[t] = "open" /\ phase[s] = "live"
      /\ behind'[s] = behind[s] \cup
            {n \in syncSeq[s] + 1 .. nextSeq[s] - 1 : n \notin got[s]}
      /\ UNCHANGED <<target, ring, queue, yielded, transit, got, refused, phase>>
  BY <1>0 DEF Open, Attach, Live, numbers, Served, TypeOK, ClientTypes
<1>2. transit[t] = <<>>
  BY <1>0, <1>1 DEF Brings
<1>3. ASSUME NEW n \in InRing(s)
      PROVE  n \in Excused(s)'
  <2>1. n \in Nat /\ n < nextSeq[s] /\ nextSeq[s] \in Nat /\ syncSeq[s] \in Nat
    BY <1>0, SizeAssumption, InRingTypes DEF Drained, Below, Served, TypeOK, ClientTypes
  <2>2. CASE n <= syncSeq[s]
    BY <1>0, <1>1, <2>2 DEF Drained, Passed, Excused
  <2>3. CASE ~(n <= syncSeq[s])
    <3>1. n \in syncSeq[s] + 1 .. nextSeq[s] - 1
      BY <2>1, <2>3
    <3>2. QED  BY <1>1, <3>1 DEF Excused
  <2>4. QED  BY <2>2, <2>3
<1>4. InRing(s)' = InRing(s)
  BY <1>1 DEF InRing
<1>5. \A n \in InRing(s)' : n \in Excused(s)'
  BY <1>3, <1>4
<1>6. QED  BY <1>0, <1>1, <1>2, <1>5 DEF Brings

\* An event that is sent is the last on its way.
LEMMA SendBrings ==
    ASSUME Served, ClientTypes, NEW t \in Streams, Brings(t), Send(t)
    PROVE  Brings(t)'
<1> DEFINE x == Head(queue[t])
<1>0. PICK s \in Subs : s = target[t]
  BY DEF Served, TypeOK
<1>1. /\ stream[t] = "open" /\ queue[t] # <<>> /\ x # StreamEnd
      /\ queue'[t] = Tail(queue[t]) /\ yielded'[t] = x.sequenceNumber
      /\ transit'[t] = Append(transit[t], x)
      /\ UNCHANGED <<target, ring, stream, phase, got, refused, behind>>
  BY DEF Send, Yield, manager, numbers, ghosts, Served, TypeOK, ClientTypes
<1>2. /\ x \in Entry /\ x = queue[t][1] /\ Len(queue[t]) \in Nat /\ Len(queue[t]) >= 1
      /\ Len(Tail(queue[t])) = Len(queue[t]) - 1
  BY <1>1, StreamTypes
<1>3. x.sequenceNumber \in Nat /\ yielded[t] \in Nat /\ yielded[t] < x.sequenceNumber
  BY <1>1, <1>2, StreamTypes, EntryTypes DEF Ordered
<1>4. /\ NumbersIn(queue[t]) = {x.sequenceNumber} \cup NumbersIn(queue'[t])
      /\ NumbersIn(transit'[t]) = NumbersIn(transit[t]) \cup {x.sequenceNumber}
  BY <1>1, <1>2, StreamTypes, NumbersTail, NumbersAppend
<1>5. /\ Len(transit'[t]) = Len(transit[t]) + 1 /\ Len(transit[t]) \in Nat
      /\ transit'[t][Len(transit[t]) + 1] = x
      /\ \A i \in 1 .. Len(transit[t]) : transit'[t][i] = transit[t][i]
  BY <1>1, <1>2, StreamTypes
<1>6. \A i \in 1 .. Len(transit[t]) :
          /\ transit[t][i].sequenceNumber \in Nat
          /\ transit[t][i].sequenceNumber <= yielded[t]
          /\ \A j \in 1 .. i - 1 :
                transit[t][j].sequenceNumber < transit[t][i].sequenceNumber
  <2>1. \A i \in 1 .. Len(transit[t]) : transit[t][i] \in Entry
    BY StreamTypes
  <2>2. QED  BY <2>1, EntryTypes DEF Brings
<1> HIDE DEF x
<1>7. ASSUME NEW i \in 1 .. Len(transit'[t])
      PROVE  /\ transit'[t][i].sequenceNumber <= yielded'[t]
             /\ \A j \in 1 .. i - 1 :
                   transit'[t][j].sequenceNumber < transit'[t][i].sequenceNumber
  <2>1. CASE i = Len(transit[t]) + 1
    <3>1. \A j \in 1 .. i - 1 : /\ transit'[t][j].sequenceNumber \in Nat
                                /\ transit'[t][j].sequenceNumber <= yielded[t]
      BY <1>5, <1>6, <2>1
    <3>2. QED  BY <1>1, <1>3, <1>5, <2>1, <3>1
  <2>2. CASE i # Len(transit[t]) + 1
    <3>1. i \in 1 .. Len(transit[t]) /\ \A j \in 1 .. i - 1 : j \in 1 .. Len(transit[t])
      BY <1>5, <2>2
    <3>2. transit'[t][i].sequenceNumber <= yielded'[t]
      BY <1>1, <1>3, <1>5, <1>6, <3>1
    <3>3. QED  BY <1>5, <1>6, <3>1, <3>2
  <2>3. QED  BY <2>1, <2>2
<1>8. InRing(s)' = InRing(s) /\ Excused(s)' = Excused(s)
  BY <1>1 DEF InRing, Excused
<1>9. \A n \in InRing(s) : n \in Excused(s) \cup NumbersIn(transit'[t]) \cup NumbersIn(queue'[t])
  BY <1>0, <1>1, <1>4 DEF Brings, Fed
<1>10. Len(queue'[t]) <= QueueSize
  BY <1>1, <1>2, SizeAssumption DEF Brings
<1>11. QED
  BY <1>0, <1>1, <1>7, <1>8, <1>9, <1>10 DEF Brings, Fed

\* An event that is parsed is one the client has got.
LEMMA HearBrings ==
    ASSUME Served, ClientTypes, NEW t \in Streams, Brings(t), Hear(t)
    PROVE  Brings(t)'
<1> DEFINE x == Head(transit[t])
           r == Tail(transit[t])
<1>0. PICK s \in Subs : s = target[t]
  BY DEF Served, TypeOK
<1>1. /\ transit[t] # <<>> /\ transit'[t] = r
      /\ got'[s] = got[s] \cup Numbers({x})
      /\ UNCHANGED <<target, ring, queue, yielded, stream, phase, refused, behind>>
  BY <1>0 DEF Hear, ParseStreamItems, vars, manager, sse, ghosts, Served, TypeOK, ClientTypes
<1>2. /\ Len(r) = Len(transit[t]) - 1 /\ Len(transit[t]) \in Nat
      /\ \A i \in 1 .. Len(r) : r[i] = transit[t][i + 1]
  BY <1>1, StreamTypes
<1>3. NumbersIn(transit[t]) = {x.sequenceNumber} \cup NumbersIn(r)
  BY <1>1, StreamTypes, NumbersTail
<1>4. x.sequenceNumber \in got'[s] /\ Excused(s) \subseteq Excused(s)'
  BY <1>1 DEF Numbers, Excused
<1> HIDE DEF x, r
<1>5. \A i \in 1 .. Len(r) :
          /\ r[i].sequenceNumber <= yielded[t]
          /\ \A j \in 1 .. i - 1 : r[j].sequenceNumber < r[i].sequenceNumber
  <2> SUFFICES ASSUME NEW i \in 1 .. Len(r)
               PROVE  /\ r[i].sequenceNumber <= yielded[t]
                      /\ \A j \in 1 .. i - 1 : r[j].sequenceNumber < r[i].sequenceNumber
    OBVIOUS
  <2>1. i + 1 \in 1 .. Len(transit[t]) /\ \A j \in 1 .. i - 1 : j + 1 \in 1 .. (i + 1) - 1
    BY <1>2
  <2>2. \A j \in 1 .. i - 1 : r[j] = transit[t][j + 1]
    BY <1>2
  <2>3. QED  BY <1>2, <2>1, <2>2 DEF Brings
<1>6. InRing(s)' = InRing(s)
  BY <1>1 DEF InRing
<1>7. \A n \in InRing(s) : n \in Excused(s)' \cup NumbersIn(r) \cup NumbersIn(queue[t])
  <2>1. \A n \in InRing(s) :
            n \in Excused(s) \cup NumbersIn(transit[t]) \cup NumbersIn(queue[t])
    BY <1>0, <1>1 DEF Brings, Fed
  <2>2. x.sequenceNumber \in Excused(s)'
    BY <1>4 DEF Excused
  <2>3. QED  BY <1>3, <1>4, <2>1, <2>2
<1>8. r # <<>> => stream[t] = "open" \/ phase[s] = "deleted"
  BY <1>0, <1>1 DEF Brings
<1>9. QED
  BY <1>0, <1>1, <1>5, <1>6, <1>7, <1>8 DEF Brings

\* The sentinel is the last a stream brings, and a stream that hung up brings nothing.
LEMMA EndBrings ==
    ASSUME Served, ClientTypes, NEW t \in Streams, Brings(t), End(t) \/ HangUp(t)
    PROVE  Brings(t)'
<1>0. PICK s \in Subs : s = target[t]
  BY DEF Served, TypeOK
<1>1. CASE End(t)
  <2>1. /\ stream[t] = "open" /\ queue[t] # <<>> /\ Head(queue[t]) = StreamEnd
        /\ queue'[t] = Tail(queue[t])
        /\ UNCHANGED <<target, ring, yielded, transit, phase, got, refused, behind>>
    BY <1>1 DEF End, EndOfStream, extra, numbers, ghosts, Served, TypeOK
  <2>2. /\ Len(queue[t]) \in Nat /\ Len(queue[t]) >= 1 /\ queue[t][1] = StreamEnd
        /\ Len(queue'[t]) = Len(queue[t]) - 1
    BY <2>1, StreamTypes
  <2>3. phase[s] = "deleted"
    BY <1>0, <2>2, StreamTypes DEF Ordered
  <2>4. NumbersIn(queue[t]) = {0} \cup NumbersIn(queue'[t])
    BY <2>1, StreamTypes, NumbersTail DEF StreamEnd
  <2>5. InRing(s)' = InRing(s) /\ Excused(s)' = Excused(s)
    BY <2>1 DEF InRing, Excused
  <2>6. \A n \in InRing(s) : n \in Excused(s) \cup NumbersIn(transit[t]) \cup NumbersIn(queue'[t])
    BY <1>0, <2>1, <2>4, StreamTypes DEF Brings, Fed
  <2>7. Len(queue'[t]) <= QueueSize
    BY <2>2, SizeAssumption DEF Brings
  <2>8. QED  BY <1>0, <2>1, <2>3, <2>5, <2>6, <2>7 DEF Brings
<1>2. CASE HangUp(t)
  <2>1. stream'[t] # "open" /\ transit'[t] = <<>> /\ UNCHANGED <<target, queue>>
    BY <1>2 DEF HangUp, Disconnect, Served, TypeOK, ClientTypes
  <2>2. QED  BY <2>1 DEF Brings, Fed
<1>3. QED  BY <1>1, <1>2

\* A sample is queued for every stream that is open, or refused by its full queue.
LEMMA PublishBrings ==
    ASSUME Served, ClientTypes, NEW t \in Streams, Brings(t), Publish
    PROVE  Brings(t)'
<1>0. PICK s \in Subs : s = target[t]
  BY DEF Served, TypeOK
<1>1. PICK r \in Subs, e \in Elements : PushTo(r, e)
  BY DEF Publish
<1>2. /\ UNCHANGED <<phase, stream, target, yielded, transit, got, behind>>
      /\ refused' = [q \in Subs |->
             IF nextSeq'[q] # nextSeq[q] /\ \E u \in streamers[q] : Len(queue[u]) = QueueSize
             THEN refused[q] \cup {nextSeq[q]} ELSE refused[q]]
  BY <1>1 DEF Publish, PushTo, AppendLocked, numbers
<1>3. Excused(s) \subseteq Excused(s)'
  BY <1>2 DEF Excused
<1>4. CASE r # s
  <2>1. queue'[t] = queue[t] /\ ring'[s] = ring[s]
    BY <1>0, <1>1, <1>4 DEF PushTo, AppendLocked
  <2>2. InRing(s)' = InRing(s)
    BY <2>1 DEF InRing
  <2>3. QED  BY <1>0, <1>2, <1>3, <2>1, <2>2 DEF Brings, Fed
<1>5. CASE r = s
  <2> DEFINE x == Stamp(s, e)
  <2>1. /\ phase[s] = "live" /\ nextSeq[s] <= MaxSeq /\ nextSeq'[s] = nextSeq[s] + 1
        /\ ring'[s] = RingAppend(ring[s], x)
        /\ queue'[t] = IF t \in streamers[s] THEN Offer(queue[t], x) ELSE queue[t]
    BY <1>0, <1>1, <1>5 DEF PushTo, AppendLocked, Live
  <2>2. x \in Item /\ x.sequenceNumber = nextSeq[s] /\ ring[s] \in Seq(Item) /\ nextSeq[s] \in Nat
    <3>1. ring[s] \in Seq(Item) /\ nextSeq[s] \in Nat
      BY SizeAssumption DEF Served, TypeOK
    <3>2. x \in Item
      BY <2>1, ItemTypes DEF Served
    <3>3. x.sequenceNumber = nextSeq[s]
      BY DEF Stamp
    <3>4. QED  BY <3>1, <3>2, <3>3
  <2> HIDE DEF x
  <2>3. x \in Entry
    BY <2>2 DEF Entry
  <2>4. ring'[s] \in Seq(Item)
    BY <2>1, <2>2, ItemTypes DEF Served
  <2>5. InRing(s)' \subseteq InRing(s) \cup {nextSeq[s]}
    BY <2>1, <2>2, <2>4, RingGains, RingNumbers DEF InRing
  <2>6. /\ NumbersIn(queue[t]) \subseteq NumbersIn(queue'[t])
        /\ Len(queue'[t]) <= QueueSize
    BY <2>1, <2>3, StreamTypes, OfferKeeps DEF Brings
  <2>7. Fed(t) => stream[t] = "open"
    BY <1>0, <2>1 DEF Brings, Fed
  <2>8. stream[t] = "open" => nextSeq[s] \in Excused(s)' \cup NumbersIn(queue'[t])
    <3> SUFFICES ASSUME stream[t] = "open"
                 PROVE  nextSeq[s] \in Excused(s)' \cup NumbersIn(queue'[t])
      OBVIOUS
    <3>1. t \in streamers[s]
      BY <1>0, <2>1 DEF Served, ListenerAttached, Live
    <3>2. CASE Len(queue[t]) = QueueSize
      <4>1. nextSeq'[s] # nextSeq[s]
        BY <2>1, <2>2
      <4>2. nextSeq[s] \in refused'[s]
        BY <1>2, <3>1, <3>2, <4>1
      <4>3. QED  BY <4>2 DEF Excused
    <3>3. CASE Len(queue[t]) # QueueSize
      BY <2>1, <2>2, <2>3, <3>1, <3>3, StreamTypes, OfferKeeps DEF Brings
    <3>4. QED  BY <3>2, <3>3
  <2>9. Fed(t) => \A n \in InRing(s)' :
                     n \in Excused(s)' \cup NumbersIn(transit[t]) \cup NumbersIn(queue'[t])
    <3>1. Fed(t) => \A n \in InRing(s) :
                       n \in Excused(s) \cup NumbersIn(transit[t]) \cup NumbersIn(queue[t])
      BY <1>0 DEF Brings
    <3>2. QED  BY <1>3, <2>5, <2>6, <2>7, <2>8, <3>1
  <2>10. QED  BY <1>0, <1>2, <2>6, <2>9 DEF Brings, Fed
<1>6. QED  BY <1>4, <1>5

\* Taking items in forgets none.
LEMMA GotGrows ==
    ASSUME ClientTypes, NEW s, NEW N, got' = [got EXCEPT ![s] = @ \cup N], NEW r \in Subs
    PROVE  got[r] \subseteq got'[r]
BY DEF ClientTypes

\* Each step keeps what a stream brings.
LEMMA BringsStep ==
    ASSUME Served, ClientInv, [ClientNext]_clientVars, NEW t \in Streams
    PROVE  Brings(t)'
<1>0. /\ TypeOK /\ ClientTypes /\ Brings(t) /\ target[t] \in Subs /\ Len(queue[t]) <= QueueSize
      /\ \A s \in Subs : Drained(s)
  BY DEF Served, TypeOK, ClientInv, Brings
<1>1. ASSUME NEW s \in Subs, Poll(s) \/ Polled(s) \/ PollFails(s) \/ Forget(s)
      PROVE  Brings(t)'
  <2>1. UNCHANGED <<phase, ring, queue, stream, target, yielded, transit, refused, behind>>
    BY <1>1 DEF Poll, Answer, Polled, PollFails, LoseReply, Forget, vars, manager, sse, extra,
                numbers, ghosts
  <2>2. got[target[t]] \subseteq got'[target[t]]
    <3>1. CASE Polled(s)
      <4>1. got' = [got EXCEPT ![s] = @ \cup Numbers(reply[s].items)]
        BY <3>1 DEF Polled, ParseStreamItems
      <4>2. QED  BY <1>0, <4>1, GotGrows
    <3>2. CASE ~Polled(s)
      BY <1>1, <3>2 DEF Poll, PollFails, Forget, extra, numbers
    <3>3. QED  BY <3>1, <3>2
  <2>3. QED  BY <1>0, <2>1, <2>2, BringsKept DEF Excused
<1>2. ASSUME NEW u \in Streams, Open(u) \/ Send(u) \/ End(u) \/ Hear(u) \/ HangUp(u)
      PROVE  Brings(t)'
  <2>1. CASE u = t
    BY <1>0, <1>2, <2>1, OpenBrings, SendBrings, EndBrings, HearBrings
  <2>2. CASE u # t
    <3>1. /\ UNCHANGED <<phase, ring, target>>
          /\ queue'[t] = queue[t] /\ stream'[t] = stream[t] /\ yielded'[t] = yielded[t]
          /\ transit'[t] = transit[t]
      BY <1>0, <1>2, <2>2
         DEF Open, Attach, Send, Yield, End, EndOfStream, Detach, Hear, HangUp, Disconnect, vars,
             manager, sse, extra, numbers, TypeOK, ClientTypes
    <3>2. got[target[t]] \subseteq got'[target[t]]
      <4>1. CASE Hear(u)
        <5>1. got' = [got EXCEPT ![target[u]] = @ \cup Numbers({Head(transit[u])})]
          BY <4>1 DEF Hear, ParseStreamItems
        <5>2. QED  BY <1>0, <5>1, GotGrows
      <4>2. CASE ~Hear(u)
        BY <1>2, <4>2 DEF Open, Send, End, HangUp, extra, numbers
      <4>3. QED  BY <4>1, <4>2
    <3>3. refused' = refused /\ behind[target[t]] \subseteq behind'[target[t]]
      BY <1>0, <1>2 DEF Open, Send, End, Hear, HangUp, extra, ghosts, ClientTypes
    <3>4. QED  BY <1>0, <3>1, <3>2, <3>3, BringsKept DEF Excused
  <2>3. QED  BY <2>1, <2>2
<1>3. CASE Publish
  BY <1>0, <1>3, PublishBrings
<1>4. CASE Manage
  <2>1. PICK s \in Subs : Create(s) \/ Delete(s)
    BY <1>4 DEF Manage
  <2>2. /\ UNCHANGED <<ring, stream, target, yielded, transit, got, refused, behind>>
        /\ phase[target[t]] = "deleted" => phase'[target[t]] = "deleted"
    BY <1>0, <1>4, <2>1
       DEF Manage, Create, Delete, Live, sse, extra, numbers, ghosts, TypeOK
  <2>3. queue'[t] = queue[t] \/ queue'[t] = Offer(queue[t], StreamEnd)
    BY <2>1 DEF Create, Delete, sse
  <2>4. NumbersIn(queue[t]) \subseteq NumbersIn(queue'[t]) /\ Len(queue'[t]) <= QueueSize
    <3>1. StreamEnd \in Entry /\ queue[t] \in Seq(Entry)
      BY <1>0, StreamTypes DEF Entry
    <3>2. QED  BY <1>0, <2>3, <3>1, OfferKeeps
  <2>5. QED  BY <1>0, <2>2, <2>4, BringsKept DEF Excused
<1>5. CASE Answering
  <2>1. PICK u \in Streams : Admit(u) \/ AttachFails(u) \/ Leave(u)
    BY <1>5 DEF Answering
  <2>2. UNCHANGED <<phase, ring, queue, target, yielded, transit, got, refused, behind>>
    BY <1>5, <2>1 DEF Answering, Admit, AttachFails, Leave, manager, extra, numbers, ghosts
  <2>3. stream'[t] = stream[t] \/ (stream[t] # "open" /\ stream'[t] # "open")
    BY <1>0, <2>1 DEF Admit, AttachFails, Leave, Detach, TypeOK
  <2>4. QED  BY <1>0, <2>2, <2>3, BringsKept DEF Excused
<1>6. CASE UNCHANGED clientVars
  <2>1. UNCHANGED <<phase, ring, queue, stream, target, yielded, transit, got, refused, behind>>
    BY <1>6 DEF clientVars, vars, manager, sse, extra, numbers, ghosts
  <2>2. QED  BY <1>0, <2>1, BringsKept DEF Excused
<1>7. QED  BY <1>1, <1>2, <1>3, <1>4, <1>5, <1>6 DEF ClientNext

-----------------------------------------------------------------------------
(* The theorems.                                                           *)

\* At the start there is nothing to pass.
LEMMA ClientInitHolds == ClientInit => Served /\ ClientInv
<1> SUFFICES ASSUME ClientInit  PROVE Served /\ ClientInv
  OBVIOUS
<1> USE SizeAssumption
<1>1. Served
  <2>1. TypeOK
    BY DEF ClientInit, Init, TypeOK, FirstSeq, NoReply
  <2>2. ListenerAttached /\ Unheard
    BY DEF ClientInit, Init, ListenerAttached, Unheard, Live
  <2>3. AllOrdered
    BY DEF ClientInit, Init, AllOrdered, Ordered, FirstSeq
  <2>4. QED  BY <2>1, <2>2, <2>3 DEF Served
<1>2. ClientTypes
  BY DEF ClientInit, ClientTypes
<1>3. ASSUME NEW s \in Subs  PROVE Drained(s)
  <2>1. InRing(s) = {} /\ Numbers(reply[s].items) = {} /\ ~reply[s].pending
    BY DEF ClientInit, Init, InRing, After, Numbers, NoReply
  <2>2. syncSeq[s] = 0 /\ nextSeq[s] = 1
    BY <1>3 DEF ClientInit, Init, FirstSeq
  <2>3. QED  BY <2>1, <2>2 DEF Drained, Passed, Answered, Below
<1>4. ASSUME NEW t \in Streams  PROVE Brings(t)
  BY <1>4 DEF ClientInit, Init, Brings, Fed
<1>5. QED  BY <1>1, <1>2, <1>3, <1>4 DEF ClientInv

\* Each step keeps the invariant.
LEMMA ClientStepHolds ==
    Served /\ ClientInv /\ [ClientNext]_clientVars => Served' /\ ClientInv'
<1> SUFFICES ASSUME Served, ClientInv, [ClientNext]_clientVars
             PROVE  Served' /\ ClientInv'
  OBVIOUS
<1>1. ClientTypes /\ TypeOK
  BY DEF Served, ClientInv
<1>2. Served' /\ ClientTypes'
  BY <1>1, ServedStep, ClientTypesStep
<1>3. QED  BY <1>2, DrainedStep, BringsStep DEF ClientInv

\* The invariant of a client that polls and streams at once, on top of the manager.
LEMMA ClientCorrect == ClientSpec => [](Served /\ ClientInv)
BY ClientInitHolds, ClientStepHolds, PTL DEF ClientSpec

\* The one number that a client keeps for its stream and its polls passes a sample
\* it did not get, and could still have asked for, only if a full queue refused it
\* or it was waiting when a stream was opened: for any number of streams, whatever
\* is polled, lost, late, closed, forgotten or evicted in between.
THEOREM OnlyExcusedAreSkipped == ClientSpec => []NothingSkipped
<1>1. Served /\ ClientInv => NothingSkipped
  BY PassedIsExcused DEF ClientInv, Drained
<1>2. QED  BY <1>1, ClientCorrect, PTL

\* What waits for a listener is in order, and the sentinel last, with this client
\* on the other side as well.
THEOREM ClientStreamsInOrder == ClientSpec => [](StreamInOrder /\ ListenerAttached)
<1>1. Served => StreamInOrder /\ ListenerAttached
  <2> SUFFICES ASSUME Served, NEW t \in Streams, NEW i \in DOMAIN queue[t]
               PROVE  IF queue[t][i] = StreamEnd
                      THEN i = Len(queue[t]) /\ phase[target[t]] = "deleted"
                      ELSE /\ queue[t][i].sequenceNumber > yielded[t]
                           /\ \A j \in 1 .. i - 1 :
                                queue[t][j].sequenceNumber < queue[t][i].sequenceNumber
    BY DEF StreamInOrder, Served
  <2>1. i \in 1 .. Len(queue[t])
    BY DEF Served, TypeOK
  <2>2. QED  BY <2>1 DEF Served, AllOrdered, Ordered
<1>2. QED  BY <1>1, ClientCorrect, PTL

=============================================================================
