------------------------ MODULE SubscriptionsProofs ------------------------
(***************************************************************************)
(* Proofs about Subscriptions, for every ring size, queue size and set of  *)
(* subscriptions, elements and listeners.                                  *)
(***************************************************************************)
EXTENDS Subscriptions, WellFoundedInduction, TLAPS

\* The steps of Next one by one, for the case splits below.
LEMMA NextCases ==
    ASSUME NEW ACTION P, Next,
           \A s \in Subs : Create(s) => P,
           \A s \in Subs : Delete(s) => P,
           \A s \in Subs, E \in SUBSET Elements : Register(s, E) => P,
           \A s \in Subs, E \in SUBSET Elements : Unregister(s, E) => P,
           \A hit \in SUBSET Subs, e \in Elements :
               (\A s \in hit : Live(s)) /\ AppendLocked(hit, e) => P,
           \A s \in Subs : Sync(s) => P,
           \A s \in Subs : SyncKeyed(s) => P,
           \A s \in Subs : Receive(s) => P,
           \A s \in Subs : LoseReply(s) => P,
           \A t \in Streams : Admit(t) => P,
           \A t \in Streams : Attach(t) => P,
           \A t \in Streams : AttachFails(t) => P,
           \A t \in Streams : Yield(t) => P,
           \A t \in Streams : EndOfStream(t) => P,
           \A t \in Streams : Disconnect(t) => P,
           \A t \in Streams : Leave(t) => P
    PROVE  P
<1>1. CASE ManagerStep
  <2>1. \A e \in Elements : Push(e) => P
    <3>1. \A e \in Elements :
              /\ {s \in Subs : Live(s) /\ e \in elements[s]} \in SUBSET Subs
              /\ \A q \in {s \in Subs : Live(s) /\ e \in elements[s]} : Live(q)
      OBVIOUS
    <3>2. QED  BY <3>1 DEF Push
  <2>2. \A s \in Subs, e \in Elements : PushTo(s, e) => P
    <3>1. \A s \in Subs : {s} \in SUBSET Subs
      OBVIOUS
    <3>2. QED  BY <3>1 DEF PushTo
  <2>3. QED  BY <1>1, <2>1, <2>2 DEF ManagerStep
<1>2. CASE ClientStep
  BY <1>2 DEF ClientStep
<1>3. CASE StreamStep
  BY <1>3 DEF StreamStep
<1>4. QED  BY <1>1, <1>2, <1>3 DEF Next

-----------------------------------------------------------------------------
(* Largest elements: what Newest chooses.                                  *)

\* A non-empty set of naturals has a smallest element.
LEMMA SmallestOf ==
    ASSUME NEW T \in SUBSET Nat, T # {}
    PROVE  \E x \in T : \A y \in T : x <= y
<1>1. PICK x \in T : \A y \in T : ~(<<y, x>> \in OpToRel(<, Nat))
  BY NatLessThanWellFounded, WFMin
<1>2. \A y \in T : ~(y < x)
  BY <1>1 DEF OpToRel
<1>3. QED  BY <1>2

\* A non-empty bounded set of naturals has a largest element.
LEMMA LargestOf ==
    ASSUME NEW n \in Nat, NEW T \in SUBSET (0 .. n), T # {}
    PROVE  \E x \in T : \A y \in T : y <= x
<1> DEFINE U == {n - x : x \in T}
<1>1. U \in SUBSET Nat /\ U # {}
  <2>1. \A x \in T : n - x \in Nat
    OBVIOUS
  <2>2. U # {}
    BY Zenon
  <2>3. QED  BY <2>1, <2>2
<1>2. PICK u \in U : \A v \in U : u <= v
  BY <1>1, SmallestOf
<1>3. PICK x \in T : u = n - x
  OBVIOUS
<1>4. \A y \in T : n - y \in U
  OBVIOUS
<1>5. \A y \in T : y <= x
  BY <1>2, <1>3, <1>4
<1>6. QED  BY <1>5

-----------------------------------------------------------------------------
(* Types.                                                                  *)

\* What the helpers on rings and queues return.
LEMMA ItemTypes ==
    ASSUME TypeOK
    PROVE  /\ \A s \in Subs, e \in Elements :
                  nextSeq[s] <= MaxSeq => Stamp(s, e) \in Item
           /\ \A r \in Seq(Item), i \in Item : RingAppend(r, i) \in Seq(Item)
           /\ \A q \in Seq(Item \cup {StreamEnd}), i \in Item \cup {StreamEnd} :
                  Offer(q, i) \in Seq(Item \cup {StreamEnd})
           /\ \A r \in Seq(Item), n \in Nat : After(r, n) \in SUBSET Item
<1> USE SizeAssumption
<1>1. \A s \in Subs, e \in Elements : nextSeq[s] <= MaxSeq => Stamp(s, e) \in Item
  BY DEF TypeOK, Stamp, Item, Seqs
<1>2. \A r \in Seq(Item), i \in Item : RingAppend(r, i) \in Seq(Item)
  BY DEF RingAppend
<1>3. \A q \in Seq(Item \cup {StreamEnd}), i \in Item \cup {StreamEnd} :
          Offer(q, i) \in Seq(Item \cup {StreamEnd})
  BY DEF Offer
<1>4. \A r \in Seq(Item), n \in Nat : After(r, n) \in SUBSET Item
  BY DEF After
<1>5. QED  BY <1>1, <1>2, <1>3, <1>4

\* Answering a sync keeps the types.
LEMMA AnswerTypes ==
    ASSUME TypeOK, NEW s \in Subs, NEW items \in SUBSET Item, NEW flag \in BOOLEAN,
           Answer(s, items, flag)
    PROVE  TypeOK'
<1>1. reply' \in [Subs -> [items : SUBSET Item, dropped : BOOLEAN, pending : BOOLEAN]]
  BY DEF Answer, TypeOK
<1>2. QED  BY <1>1 DEF Answer, TypeOK, sse

\* What a client has after a response is the largest of what it had and got.
LEMMA NewestIsLargest ==
    ASSUME NEW items \in SUBSET Item, NEW n \in 0 .. MaxSeq
    PROVE  /\ Newest(items, n) \in Numbers(items) \cup {n}
           /\ Newest(items, n) \in n .. MaxSeq
           /\ \A m \in Numbers(items) : m <= Newest(items, n)
<1> DEFINE T == Numbers(items) \cup {n}
<1>1. T \in SUBSET (0 .. MaxSeq) /\ T # {}
  BY SizeAssumption DEF Numbers, Item, Seqs
<1>2. \E x \in T : \A y \in T : y <= x
  BY <1>1, LargestOf, SizeAssumption
<1>3. Newest(items, n) \in T /\ \A y \in T : y <= Newest(items, n)
  BY <1>2 DEF Newest
<1>4. QED  BY <1>1, <1>3, SizeAssumption

\* What a client is about to know is a sequence number.
LEMMA NewestTypes ==
    ASSUME TypeOK
    PROVE  \A s \in Subs : Newest(reply[s].items, seen[s]) \in 0 .. MaxSeq
<1> SUFFICES ASSUME NEW s \in Subs
             PROVE  Newest(reply[s].items, seen[s]) \in 0 .. MaxSeq
  OBVIOUS
<1>1. reply[s].items \in SUBSET Item /\ seen[s] \in 0 .. MaxSeq
  BY DEF TypeOK
<1>2. QED  BY <1>1, NewestIsLargest, SizeAssumption

\* Each step keeps the types.
LEMMA TypeStep == TypeOK /\ [Next]_vars => TypeOK'
<1> USE SizeAssumption
<1> SUFFICES ASSUME TypeOK, [Next]_vars
             PROVE  TypeOK'
  OBVIOUS
<1>1. CASE UNCHANGED vars
  BY <1>1 DEF vars, manager, sse, client, TypeOK
<1>2. \A s \in Subs : Create(s) => TypeOK'
  BY DEF Create, TypeOK, sse, client
<1>3. \A s \in Subs : Delete(s) => TypeOK'
  <2> SUFFICES ASSUME NEW s \in Subs, Delete(s)
               PROVE  TypeOK'
    OBVIOUS
  <2>1. queue' \in [Streams -> Seq(Item \cup {StreamEnd})]
    BY ItemTypes DEF Delete, TypeOK
  <2>2. phase' \in [Subs -> {"unused", "live", "deleted"}]
    BY DEF Delete, TypeOK
  <2>3. QED  BY <2>1, <2>2 DEF Delete, TypeOK, client
<1>4. \A s \in Subs, E \in SUBSET Elements : Register(s, E) => TypeOK'
  BY DEF Register, TypeOK, sse, client
<1>5. \A s \in Subs, E \in SUBSET Elements : Unregister(s, E) => TypeOK'
  BY DEF Unregister, TypeOK, sse, client
<1>6. \A hit \in SUBSET Subs, e \in Elements : AppendLocked(hit, e) => TypeOK'
  <2> SUFFICES ASSUME NEW hit \in SUBSET Subs, NEW e \in Elements, AppendLocked(hit, e)
               PROVE  TypeOK'
    OBVIOUS
  <2>1. \A s \in hit : Stamp(s, e) \in Item
    BY ItemTypes DEF AppendLocked
  <2>2. ring' \in [Subs -> Seq(Item)]
    BY <2>1, ItemTypes DEF AppendLocked, TypeOK
  <2>3. queue' \in [Streams -> Seq(Item \cup {StreamEnd})]
    BY <2>1, ItemTypes DEF AppendLocked, TypeOK
  <2>4. nextSeq' \in [Subs -> 1 .. MaxSeq + 1]
    BY DEF AppendLocked, TypeOK
  <2>5. dropped' \in [Subs -> BOOLEAN]
    BY DEF AppendLocked, TypeOK, Evicts
  <2>6. QED  BY <2>2, <2>3, <2>4, <2>5 DEF AppendLocked, TypeOK, client
<1>7. \A s \in Subs : Sync(s) => TypeOK'
  <2> SUFFICES ASSUME NEW s \in Subs, Sync(s)
               PROVE  TypeOK'
    OBVIOUS
  <2>1. After(ring[s], seen[s]) \in SUBSET Item
    BY ItemTypes DEF TypeOK
  <2>2. dropped[s] \in BOOLEAN
    BY DEF TypeOK
  <2>3. QED  BY <2>1, <2>2, AnswerTypes DEF Sync
<1>8. \A s \in Subs : SyncKeyed(s) => TypeOK'
  <2> SUFFICES ASSUME NEW s \in Subs, SyncKeyed(s)
               PROVE  TypeOK'
    OBVIOUS
  <2>1. After(ring[s], 0) \in SUBSET Item /\ After(ring[s], seen[s]) \in SUBSET Item
    BY ItemTypes DEF TypeOK
  <2>2. QED  BY <2>1, AnswerTypes DEF SyncKeyed
<1>9. \A s \in Subs : Receive(s) => TypeOK'
  BY NewestTypes DEF Receive, TypeOK, manager, sse, NoReply
<1>10. \A s \in Subs : LoseReply(s) => TypeOK'
  BY DEF LoseReply, TypeOK, manager, sse, NoReply
<1>11. \A t \in Streams : Admit(t) => TypeOK'
  BY DEF Admit, TypeOK, manager, client
<1>12. \A t \in Streams : Attach(t) => TypeOK'
  BY DEF Attach, TypeOK, client
<1>13. \A t \in Streams : AttachFails(t) => TypeOK'
  BY DEF AttachFails, TypeOK, manager, client
<1>14. \A t \in Streams : Yield(t) => TypeOK'
  <2> SUFFICES ASSUME NEW t \in Streams, Yield(t)
               PROVE  TypeOK'
    OBVIOUS
  <2>1. /\ Head(queue[t]) \in Item
        /\ Tail(queue[t]) \in Seq(Item \cup {StreamEnd})
    BY DEF Yield, TypeOK
  <2>2. Head(queue[t]).sequenceNumber \in 0 .. MaxSeq
    BY <2>1 DEF Item, Seqs
  <2>3. QED  BY <2>1, <2>2 DEF Yield, TypeOK, manager, client
<1>15. \A t \in Streams : EndOfStream(t) => TypeOK'
  BY DEF EndOfStream, Detach, TypeOK, client
<1>16. \A t \in Streams : Disconnect(t) => TypeOK'
  BY DEF Disconnect, TypeOK, manager, client
<1>17. \A t \in Streams : Leave(t) => TypeOK'
  BY DEF Leave, Detach, TypeOK, client
<1>18. QED
  BY NextCases, <1>1, <1>2, <1>3, <1>4, <1>5, <1>6, <1>7, <1>8, <1>9, <1>10,
     <1>11, <1>12, <1>13, <1>14, <1>15, <1>16, <1>17

\* Every variable keeps its type, for every size of rings and queues.
THEOREM TypeCorrect == Spec => []TypeOK
<1>1. Init => TypeOK
  BY SizeAssumption DEF Init, TypeOK, FirstSeq, NoReply
<1>2. TypeOK /\ [Next]_vars => TypeOK'
  BY TypeStep
<1>3. QED  BY <1>1, <1>2, PTL DEF Spec

-----------------------------------------------------------------------------
(* The steps that matter to a client that drains a ring.  All the others   *)
(* leave the rings and the clients alone.                                  *)

DrainStep ==
    \/ \E hit \in SUBSET Subs, e \in Elements : AppendLocked(hit, e)
    \/ \E s \in Subs : Sync(s)
    \/ \E s \in Subs : SyncKeyed(s)
    \/ \E s \in Subs : Receive(s)
    \/ \E s \in Subs : LoseReply(s)

drainVars == <<ring, nextSeq, dropped, seen, reply>>

\* Every step is one of those, or leaves the rings and the clients alone.
LEMMA DrainCases == [Next]_vars => [DrainStep]_drainVars
<1> SUFFICES ASSUME [Next]_vars
             PROVE  DrainStep \/ UNCHANGED drainVars
  OBVIOUS
<1> DEFINE P == DrainStep \/ UNCHANGED drainVars
<1>1. CASE UNCHANGED vars
  BY <1>1 DEF vars, manager, client, drainVars
<1>2. CASE Next
  <2>1. /\ \A s \in Subs : Create(s) => P
        /\ \A s \in Subs : Delete(s) => P
        /\ \A s \in Subs, E \in SUBSET Elements : Register(s, E) => P
        /\ \A s \in Subs, E \in SUBSET Elements : Unregister(s, E) => P
    BY DEF Create, Delete, Register, Unregister, client, drainVars
  <2>2. /\ \A hit \in SUBSET Subs, e \in Elements : AppendLocked(hit, e) => P
        /\ \A s \in Subs : Sync(s) => P
        /\ \A s \in Subs : SyncKeyed(s) => P
        /\ \A s \in Subs : Receive(s) => P
        /\ \A s \in Subs : LoseReply(s) => P
    BY Zenon DEF DrainStep
  <2>3. /\ \A t \in Streams : Admit(t) => P
        /\ \A t \in Streams : Attach(t) => P
        /\ \A t \in Streams : AttachFails(t) => P
        /\ \A t \in Streams : Yield(t) => P
        /\ \A t \in Streams : EndOfStream(t) => P
        /\ \A t \in Streams : Disconnect(t) => P
        /\ \A t \in Streams : Leave(t) => P
    BY DEF Admit, Attach, AttachFails, Yield, EndOfStream, Disconnect, Leave, manager,
           client, drainVars
  <2> HIDE DEF P
  <2>4. P
    BY <1>2, <2>1, <2>2, <2>3, NextCases
  <2>5. QED  BY <2>4 DEF P
<1>3. QED  BY <1>1, <1>2

-----------------------------------------------------------------------------
(* The ring.                                                               *)

\* Each step leaves every ring with the most recent samples of its subscription.
LEMMA RingStep == TypeOK /\ RingIsRecentSuffix /\ [Next]_vars => RingIsRecentSuffix'
<1> USE SizeAssumption
<1> SUFFICES ASSUME TypeOK, RingIsRecentSuffix, [Next]_vars
             PROVE  RingIsRecentSuffix'
  OBVIOUS
<1>1. CASE UNCHANGED <<ring, nextSeq>>
  BY <1>1 DEF RingIsRecentSuffix
<1>2. CASE \E hit \in SUBSET Subs, e \in Elements : AppendLocked(hit, e)
  <2> PICK hit \in SUBSET Subs, e \in Elements : AppendLocked(hit, e)
    BY <1>2
  <2> SUFFICES ASSUME NEW s \in Subs
               PROVE  /\ Len(ring'[s]) = (IF nextSeq'[s] - 1 < RingSize
                                          THEN nextSeq'[s] - 1 ELSE RingSize)
                      /\ \A i \in DOMAIN ring'[s] :
                              ring'[s][i].sequenceNumber = nextSeq'[s] - 1 - Len(ring'[s]) + i
    BY DEF RingIsRecentSuffix
  <2> DEFINE r == ring[s]
             n == nextSeq[s]
             item == Stamp(s, e)
  <2>1. /\ r \in Seq(Item)
        /\ DOMAIN r = 1 .. Len(r)
        /\ n \in Nat \ {0}
        /\ Len(r) = (IF n - 1 < RingSize THEN n - 1 ELSE RingSize)
        /\ \A i \in 1 .. Len(r) : r[i].sequenceNumber = n - 1 - Len(r) + i
    BY DEF TypeOK, RingIsRecentSuffix
  <2>2. CASE s \notin hit
    <3>1. ring'[s] = r /\ nextSeq'[s] = n
      BY <2>2 DEF AppendLocked
    <3>2. QED  BY <2>1, <3>1
  <2>3. CASE s \in hit
    <3>1. ring'[s] = RingAppend(r, item) /\ nextSeq'[s] = n + 1
      BY <2>3 DEF AppendLocked
    <3>2. item \in Item /\ item.sequenceNumber = n
      BY <2>3, ItemTypes DEF AppendLocked, Stamp
    <3> HIDE DEF item, r, n
    <3>3. Len(r) \in Nat
      BY <2>1
    <3>4. CASE Len(r) = RingSize
      <4>1. ring'[s] = Append(Tail(r), item)
        BY <3>1, <3>4 DEF RingAppend
      <4>2. /\ Len(ring'[s]) = Len(r)
            /\ \A i \in 1 .. Len(r) - 1 : ring'[s][i] = r[i + 1]
            /\ ring'[s][Len(r)] = item
            /\ DOMAIN ring'[s] = 1 .. Len(r)
        BY <4>1, <2>1, <3>2, <3>4
      <4>3. ASSUME NEW i \in 1 .. Len(r)
            PROVE  ring'[s][i].sequenceNumber = n - Len(r) + i
        <5>1. CASE i = Len(r)
          BY <5>1, <4>2, <3>2, <3>3, <2>1
        <5>2. CASE i # Len(r)
          <6>1. i \in 1 .. Len(r) - 1 /\ i + 1 \in 1 .. Len(r)
            BY <5>2, <3>3
          <6>2. ring'[s][i] = r[i + 1]
            BY <6>1, <4>2
          <6>3. r[i + 1].sequenceNumber = n - 1 - Len(r) + (i + 1)
            BY <6>1, <2>1
          <6>4. n - 1 - Len(r) + (i + 1) = n - Len(r) + i
            BY <3>3, <2>1
          <6>5. QED  BY <6>2, <6>3, <6>4
        <5>3. QED  BY <5>1, <5>2
      <4>4. n - 1 >= RingSize
        BY <2>1, <3>4
      <4>5. \A i \in 1 .. Len(r) : ring'[s][i].sequenceNumber = (n + 1) - 1 - Len(r) + i
        BY <4>3, <3>3, <2>1
      <4>6. Len(r) = (IF (n + 1) - 1 < RingSize THEN (n + 1) - 1 ELSE RingSize)
        BY <4>4, <3>4, <2>1
      <4>7. QED  BY <4>2, <4>5, <4>6, <3>1
    <3>5. CASE Len(r) # RingSize
      <4>1. ring'[s] = Append(r, item)
        BY <3>1, <3>5 DEF RingAppend
      <4>2. /\ Len(ring'[s]) = Len(r) + 1
            /\ \A i \in 1 .. Len(r) : ring'[s][i] = r[i]
            /\ ring'[s][Len(r) + 1] = item
            /\ DOMAIN ring'[s] = 1 .. Len(r) + 1
        BY <4>1, <2>1, <3>2
      <4>3. QED  BY <4>2, <2>1, <3>1, <3>2, <3>5
    <3>6. QED  BY <3>4, <3>5
  <2>4. QED  BY <2>2, <2>3
<1>3. DrainStep /\ ~(\E hit \in SUBSET Subs, e \in Elements : AppendLocked(hit, e))
          => UNCHANGED <<ring, nextSeq>>
  BY DEF DrainStep, Sync, SyncKeyed, Answer, Receive, LoseReply, manager
<1>4. QED  BY <1>1, <1>2, <1>3, DrainCases DEF drainVars

\* However syncs, deliveries and evictions interleave, a ring holds exactly the
\* last samples of its subscription, in order and with none missing.
THEOREM RingCorrect == Spec => []RingIsRecentSuffix
<1>1. Init => RingIsRecentSuffix
  <2> SUFFICES ASSUME Init, NEW s \in Subs
               PROVE  /\ Len(ring[s]) = (IF nextSeq[s] - 1 < RingSize
                                         THEN nextSeq[s] - 1 ELSE RingSize)
                      /\ \A i \in DOMAIN ring[s] :
                              ring[s][i].sequenceNumber = nextSeq[s] - 1 - Len(ring[s]) + i
    BY DEF RingIsRecentSuffix
  <2>1. ring[s] = << >> /\ nextSeq[s] = 1
    BY DEF Init, FirstSeq
  <2>2. Len(ring[s]) = 0 /\ DOMAIN ring[s] = {}
    BY <2>1
  <2>3. QED  BY <2>1, <2>2, SizeAssumption
<1>2. TypeOK /\ RingIsRecentSuffix /\ [Next]_vars => RingIsRecentSuffix'
  BY RingStep
<1>3. QED  BY <1>1, <1>2, TypeCorrect, PTL DEF Spec

-----------------------------------------------------------------------------
(* Gaps.  NoSilentGap speaks of the answer under way; it is kept because   *)
(* whatever the client is not shown yet is still in the ring unless the    *)
(* flag is up, and the flag goes down only when an answer takes it along.  *)

\* The number of the last item the ring has lost.
Base(s) == nextSeq[s] - 1 - Len(ring[s])

\* What a client has, or will have once the answer under way is there.
Knows(s) == Newest(reply[s].items, seen[s])

NothingLostUnflagged ==
    \A s \in Reliable :
        /\ Knows(s) < nextSeq[s]
        /\ ~dropped[s] => Base(s) <= Knows(s)
        /\ ~reply[s].pending => reply[s].items = {}
        /\ GapsAreFlagged(s)

\* With no answer under way a client knows what it has seen.
LEMMA KnowsNothingNew ==
    ASSUME NEW n \in 0 .. MaxSeq
    PROVE  Newest({}, n) = n
<1>1. Newest({}, n) \in Numbers({}) \cup {n}
  BY NewestIsLargest
<1>2. QED  BY <1>1 DEF Numbers

\* A new subscription has lost nothing.
LEMMA GapInit == Init => NothingLostUnflagged
<1> SUFFICES ASSUME Init, NEW s \in Subs
             PROVE  /\ Knows(s) < nextSeq[s]
                    /\ ~dropped[s] => Base(s) <= Knows(s)
                    /\ ~reply[s].pending => reply[s].items = {}
                    /\ GapsAreFlagged(s)
  BY DEF NothingLostUnflagged, Reliable
<1>1. /\ ring[s] = << >>
      /\ nextSeq[s] = 1
      /\ seen[s] = 0
      /\ reply[s] = NoReply
  BY DEF Init, FirstSeq
<1>2. Knows(s) = 0
  BY <1>1, KnowsNothingNew, SizeAssumption DEF Knows, NoReply
<1>3. Base(s) = 0
  <2>1. Len(ring[s]) = 0
    BY <1>1
  <2>2. QED  BY <2>1, <1>1 DEF Base
<1>4. QED  BY <1>1, <1>2, <1>3 DEF GapsAreFlagged, NoReply

\* Each step keeps unflagged losses away from the clients.
LEMMA GapStep ==
    TypeOK /\ RingIsRecentSuffix /\ NothingLostUnflagged /\ [Next]_vars
        => NothingLostUnflagged'
<1> USE SizeAssumption
<1> SUFFICES ASSUME TypeOK, RingIsRecentSuffix, NothingLostUnflagged, [Next]_vars,
                    NEW s \in Reliable
             PROVE  (/\ Knows(s) < nextSeq[s]
                     /\ ~dropped[s] => Base(s) <= Knows(s)
                     /\ ~reply[s].pending => reply[s].items = {}
                     /\ GapsAreFlagged(s))'
  BY DEF NothingLostUnflagged
<1> DEFINE r == ring[s]
           n == nextSeq[s]
           k == Len(ring[s])
<1>1. s \in Subs /\ s \notin LossySubs /\ s \notin KeyedSubs
  BY DEF Reliable
<1>2. /\ r \in Seq(Item)
      /\ reply[s].items \in SUBSET Item
      /\ seen[s] \in 0 .. MaxSeq
  BY <1>1 DEF TypeOK
<1>3. n \in Nat /\ k \in Nat /\ k <= n - 1 /\ (k = 0 => n = 1)
  BY <1>1, <1>2 DEF TypeOK, RingIsRecentSuffix
<1>4. DOMAIN r = 1 .. k
  BY <1>2
<1>5. \A i \in 1 .. k : r[i].sequenceNumber = n - 1 - k + i
  BY <1>1, <1>4 DEF RingIsRecentSuffix
<1>6. Knows(s) \in Nat /\ seen[s] \in Nat /\ seen[s] <= Knows(s) /\ Knows(s) <= MaxSeq
  <2>1. Knows(s) \in seen[s] .. MaxSeq
    BY <1>2, NewestIsLargest DEF Knows
  <2>2. QED  BY <2>1, <1>2
<1>7. Base(s) = n - 1 - k
  BY DEF Base
<1>8. /\ Knows(s) < n
      /\ ~dropped[s] => Base(s) <= Knows(s)
      /\ ~reply[s].pending => reply[s].items = {}
      /\ GapsAreFlagged(s)
  BY DEF NothingLostUnflagged
<1>9. CASE UNCHANGED <<ring[s], nextSeq[s], dropped[s], seen[s], reply[s]>>
  BY <1>9, <1>8 DEF Knows, Base, GapsAreFlagged
<1>10. ASSUME NEW hit \in SUBSET Subs, NEW e \in Elements, AppendLocked(hit, e), s \in hit
       PROVE  (/\ Knows(s) < nextSeq[s]
               /\ ~dropped[s] => Base(s) <= Knows(s)
               /\ ~reply[s].pending => reply[s].items = {}
               /\ GapsAreFlagged(s))'
  <2>1. /\ nextSeq'[s] = n + 1
        /\ ring'[s] = RingAppend(r, Stamp(s, e))
        /\ dropped'[s] = (dropped[s] \/ k = RingSize)
        /\ UNCHANGED <<seen, reply>>
    BY <1>1, <1>10 DEF AppendLocked, Evicts, client
  <2>2. Knows(s)' = Knows(s) /\ GapsAreFlagged(s)'
    BY <2>1, <1>8 DEF Knows, GapsAreFlagged
  <2>3. Stamp(s, e) \in Item
    BY <1>1, <1>10, ItemTypes DEF AppendLocked
  <2>4. ASSUME ~dropped'[s]
        PROVE  Len(ring'[s]) = k + 1
    <3>1. ring'[s] = Append(r, Stamp(s, e))
      BY <2>1, <2>4 DEF RingAppend
    <3>2. QED  BY <3>1, <2>3, <1>2
  <2>5. ASSUME ~dropped'[s]
        PROVE  Base(s)' = Base(s)
    <3>1. Base(s)' = (n + 1) - 1 - (k + 1)
      BY <2>1, <2>4, <2>5 DEF Base
    <3>2. QED  BY <3>1, <1>3, <1>7
  <2>6. ~dropped'[s] => Base(s)' <= Knows(s)'
    BY <2>1, <2>2, <2>5, <1>8
  <2>7. Knows(s)' < nextSeq'[s]
    BY <2>1, <2>2, <1>8, <1>3, <1>6
  <2>8. QED  BY <2>1, <2>2, <2>6, <2>7, <1>8
<1>11. ASSUME Sync(s)
       PROVE  (/\ Knows(s) < nextSeq[s]
               /\ ~dropped[s] => Base(s) <= Knows(s)
               /\ ~reply[s].pending => reply[s].items = {}
               /\ GapsAreFlagged(s))'
  <2> DEFINE items == After(r, seen[s])
             hi == Newest(items, seen[s])
  <2>1. /\ ring' = ring /\ nextSeq' = nextSeq /\ seen' = seen
        /\ reply'[s] = [items |-> items, dropped |-> dropped[s], pending |-> TRUE]
        /\ ~reply[s].pending
    BY <1>1, <1>11 DEF Sync, Answer, TypeOK
  <2>2. Knows(s) = seen[s]
    BY <1>2, <1>8, <2>1, KnowsNothingNew DEF Knows
  <2>3. items \in SUBSET Item
    BY <1>2 DEF After
  <2>4. /\ hi \in Numbers(items) \cup {seen[s]}
        /\ hi \in seen[s] .. MaxSeq
        /\ \A m \in Numbers(items) : m <= hi
    BY <1>2, <2>3, NewestIsLargest
  <2>5. Knows(s)' = hi
    BY <2>1 DEF Knows
  <2>6. \A m \in Numbers(items) : \E i \in 1 .. k : m = r[i].sequenceNumber
    BY <1>4 DEF After, Numbers
  <2>7. ASSUME NEW m \in n - k .. n - 1, m > seen[s]
        PROVE  m \in Numbers(items)
    <3>1. m - (n - 1 - k) \in 1 .. k /\ n - 1 - k + (m - (n - 1 - k)) = m
      BY <1>3
    <3>2. r[m - (n - 1 - k)].sequenceNumber = m
      BY <3>1, <1>5
    <3>3. r[m - (n - 1 - k)] \in items
      BY <3>1, <3>2, <2>7, <1>4 DEF After
    <3>4. QED  BY <3>2, <3>3 DEF Numbers
  <2> HIDE DEF items, hi
  <2>8. hi < n
    <3>1. \A m \in Numbers(items) : m < n
      <4> SUFFICES ASSUME NEW m \in Numbers(items)
                   PROVE  m < n
        OBVIOUS
      <4>1. PICK i \in 1 .. k : m = r[i].sequenceNumber
        BY <2>6
      <4>2. m = n - 1 - k + i
        BY <4>1, <1>5
      <4>3. QED  BY <4>2, <1>3
    <3>2. QED  BY <3>1, <2>4, <2>2, <1>8
  <2>9. n - 1 - k <= hi
    <3>1. CASE seen[s] >= n - 1
      BY <3>1, <2>4, <1>3, <1>6
    <3>2. CASE seen[s] < n - 1 /\ k > 0
      <4>1. n - 1 \in Numbers(items)
        BY <3>2, <2>7, <1>3
      <4>2. n - 1 <= hi
        BY <4>1, <2>4
      <4>3. QED  BY <4>2, <2>4, <1>3, <1>6
    <3>3. CASE k = 0
      <4>1. n = 1
        BY <3>3, <1>3
      <4>2. n - 1 - k = 0
        BY <3>3, <4>1
      <4>3. hi \in Nat
        BY <2>4, <1>6
      <4>4. QED  BY <4>2, <4>3
    <3>4. QED  BY <3>1, <3>2, <3>3, <1>3, <1>6
  <2>10. ASSUME ~dropped[s], NEW m \in seen[s] + 1 .. hi
         PROVE  m \in Numbers(items)
    <3>1. n - 1 - k <= seen[s]
      BY <2>2, <2>10, <1>8, <1>7
    <3>2. m \in n - k .. n - 1 /\ m > seen[s]
      BY <3>1, <2>4, <2>8, <1>3, <1>6
    <3>3. QED  BY <3>2, <2>7
  <2>11. GapsAreFlagged(s)'
    BY <2>1, <2>5, <2>10 DEF GapsAreFlagged, Knows
  <2>12. Base(s)' = n - 1 - k
    BY <2>1 DEF Base
  <2>13. QED  BY <2>1, <2>5, <2>8, <2>9, <2>11, <2>12
<1>12. ASSUME Receive(s)
       PROVE  (/\ Knows(s) < nextSeq[s]
               /\ ~dropped[s] => Base(s) <= Knows(s)
               /\ ~reply[s].pending => reply[s].items = {}
               /\ GapsAreFlagged(s))'
  <2>1. /\ ring' = ring /\ nextSeq' = nextSeq /\ dropped' = dropped
        /\ seen'[s] = Knows(s)
        /\ reply'[s] = NoReply
    BY <1>1, <1>12 DEF Receive, TypeOK, Knows, manager
  <2>2. Knows(s) \in 0 .. MaxSeq
    BY <1>6
  <2>3. Knows(s)' = Newest({}, Knows(s))
    BY <2>1 DEF Knows, NoReply
  <2>4. Knows(s)' = Knows(s)
    BY <2>2, <2>3, KnowsNothingNew
  <2>5. QED  BY <2>1, <2>4, <1>8 DEF Base, GapsAreFlagged, NoReply
<1>13. \/ UNCHANGED <<ring[s], nextSeq[s], dropped[s], seen[s], reply[s]>>
       \/ \E hit \in SUBSET Subs, e \in Elements : AppendLocked(hit, e) /\ s \in hit
       \/ Sync(s)
       \/ Receive(s)
  <2>1. CASE UNCHANGED drainVars
    BY <2>1 DEF drainVars
  <2>2. ASSUME NEW hit \in SUBSET Subs, NEW e \in Elements, AppendLocked(hit, e), s \notin hit
        PROVE  UNCHANGED <<ring[s], nextSeq[s], dropped[s], seen[s], reply[s]>>
    BY <2>2, <1>1 DEF AppendLocked, client, TypeOK
  <2>3. ASSUME NEW q \in Subs, q # s, Sync(q) \/ SyncKeyed(q) \/ Receive(q) \/ LoseReply(q)
        PROVE  UNCHANGED <<ring[s], nextSeq[s], dropped[s], seen[s], reply[s]>>
    BY <2>3, <1>1 DEF Sync, SyncKeyed, Answer, Receive, LoseReply, manager, TypeOK
  <2>4. ~SyncKeyed(s) /\ ~LoseReply(s)
    BY <1>1 DEF SyncKeyed, LoseReply
  <2>5. CASE DrainStep
    <3>1. CASE \E hit \in SUBSET Subs, e \in Elements : AppendLocked(hit, e)
      BY <2>2, <3>1
    <3>2. CASE \E q \in Subs : Sync(q) \/ SyncKeyed(q) \/ Receive(q) \/ LoseReply(q)
      <4>1. PICK q \in Subs : Sync(q) \/ SyncKeyed(q) \/ Receive(q) \/ LoseReply(q)
        BY <3>2
      <4>2. CASE q = s
        BY <4>1, <4>2, <2>4
      <4>3. CASE q # s
        BY <4>1, <4>3, <2>3
      <4>4. QED  BY <4>2, <4>3
    <3>3. QED  BY <2>5, <3>1, <3>2 DEF DrainStep
  <2>6. QED  BY <2>1, <2>5, DrainCases
<1>14. QED  BY <1>9, <1>10, <1>11, <1>12, <1>13

\* A v1 client whose responses arrive is told of every sample it misses: between
\* what it has and the newest it gets there is no gap without the dropped flag.
THEOREM GapsFlagged == Spec => []NoSilentGap
<1>1. Init => NothingLostUnflagged
  BY GapInit
<1>2. TypeOK /\ RingIsRecentSuffix /\ NothingLostUnflagged /\ [Next]_vars
          => NothingLostUnflagged'
  BY GapStep
<1>3. NothingLostUnflagged => NoSilentGap
  BY DEF NothingLostUnflagged, NoSilentGap
<1>4. QED  BY <1>1, <1>2, <1>3, TypeCorrect, RingCorrect, PTL DEF Spec

-----------------------------------------------------------------------------
(* The subscriptions are lossy logs.                                       *)

\* The entries of the log are the numbers the ring holds.
Held(s) == {ring[s][i].sequenceNumber : i \in DOMAIN ring[s]}

HeldIsInterval ==
    \A s \in Subs :
        /\ nextSeq[s] \in Nat \ {0}
        /\ Len(ring[s]) \in Nat
        /\ Len(ring[s]) <= nextSeq[s] - 1
        /\ Held(s) = nextSeq[s] - Len(ring[s]) .. nextSeq[s] - 1

\* The numbers in a ring form an interval that ends with the newest.
LEMMA HeldInterval == TypeOK /\ RingIsRecentSuffix => HeldIsInterval
<1> USE SizeAssumption
<1> SUFFICES ASSUME TypeOK, RingIsRecentSuffix, NEW s \in Subs
             PROVE  /\ nextSeq[s] \in Nat \ {0}
                    /\ Len(ring[s]) \in Nat
                    /\ Len(ring[s]) <= nextSeq[s] - 1
                    /\ Held(s) = nextSeq[s] - Len(ring[s]) .. nextSeq[s] - 1
  BY DEF HeldIsInterval
<1> DEFINE r == ring[s]
           n == nextSeq[s]
           k == Len(ring[s])
<1>1. r \in Seq(Item) /\ n \in Nat \ {0}
  BY DEF TypeOK
<1>2. k \in Nat /\ DOMAIN r = 1 .. k
  BY <1>1
<1>3. k <= n - 1
  BY <1>1, <1>2 DEF RingIsRecentSuffix
<1>4. \A i \in 1 .. k : r[i].sequenceNumber = n - 1 - k + i
  BY <1>2 DEF RingIsRecentSuffix
<1>5. ASSUME NEW m \in Held(s)
      PROVE  m \in n - k .. n - 1
  <2>1. PICK i \in 1 .. k : m = r[i].sequenceNumber
    BY <1>2 DEF Held
  <2>2. m = n - 1 - k + i
    BY <2>1, <1>4
  <2>3. QED  BY <2>2, <1>1, <1>2
<1>6. ASSUME NEW m \in n - k .. n - 1
      PROVE  m \in Held(s)
  <2>1. m - (n - 1 - k) \in 1 .. k /\ n - 1 - k + (m - (n - 1 - k)) = m
    <3> HIDE DEF r, n, k
    <3>1. n \in Int /\ k \in Int /\ m \in Int /\ n - k <= m /\ m <= n - 1
      BY <1>1, <1>2
    <3>2. QED  BY <3>1, SMTT(30)
  <2>2. r[m - (n - 1 - k)].sequenceNumber = m
    BY <2>1, <1>4
  <2>3. QED  BY <2>1, <2>2, <1>2 DEF Held
<1>7. QED  BY <1>1, <1>2, <1>3, <1>5, <1>6

\* An append to some of the rings is an append to their logs, each forgetting the
\* oldest entry when its ring is full.
LEMMA AppendRefines ==
    ASSUME TypeOK, HeldIsInterval, TypeOK', HeldIsInterval',
           NEW hit \in SUBSET Subs, NEW e \in Elements, AppendLocked(hit, e)
    PROVE  Log!Next
<1> USE SizeAssumption
<1> DEFINE base == [s \in Subs |-> IF Evicts(s) THEN nextSeq[s] - RingSize ELSE 0]
           held == [s \in Subs |-> Held(s)]
<1>1. base \in Log!Bounds
  <2>1. ASSUME NEW s \in Subs
        PROVE  base[s] \in Held(s) \cup {0}
    <3>1. CASE Evicts(s)
      <4>1. Len(ring[s]) = RingSize
        BY <3>1 DEF Evicts
      <4>2. base[s] = nextSeq[s] - RingSize
        BY <3>1
      <4>3. QED  BY <4>1, <4>2 DEF HeldIsInterval
    <3>2. CASE ~Evicts(s)
      BY <3>2
    <3>3. QED  BY <3>1, <3>2
  <2>2. base \in [Subs -> UNION {Held(s) \cup {0} : s \in Subs}]
    BY <2>1
  <2>3. QED  BY <2>2 DEF Log!Bounds, Held
<1>2. ASSUME NEW s \in Subs
      PROVE  /\ nextSeq'[s] - 1 = (IF s \in hit THEN nextSeq[s] - 1 + 1 ELSE nextSeq[s] - 1)
             /\ Held(s)' = (IF s \in hit
                            THEN {m \in Held(s) : m > base[s]} \cup {nextSeq[s] - 1 + 1}
                            ELSE Held(s))
             /\ dropped'[s] = (dropped[s] \/ (s \in hit /\ \E m \in Held(s) : m <= base[s]))
  <2> DEFINE n == nextSeq[s]
             k == Len(ring[s])
  <2>1. /\ n \in Nat \ {0}
        /\ k \in Nat
        /\ k <= n - 1
        /\ Held(s) = n - k .. n - 1
    BY DEF HeldIsInterval
  <2>2. Held(s)' = nextSeq'[s] - Len(ring'[s]) .. nextSeq'[s] - 1
    BY DEF HeldIsInterval
  <2>3. CASE s \notin hit
    <3>1. ring'[s] = ring[s] /\ nextSeq'[s] = n /\ dropped'[s] = dropped[s]
      BY <2>3 DEF AppendLocked, TypeOK
    <3>2. Held(s)' = Held(s)
      BY <3>1 DEF Held
    <3>3. dropped[s] \in BOOLEAN
      BY DEF TypeOK
    <3>4. QED  BY <2>3, <3>1, <3>2, <3>3
  <2>4. CASE s \in hit
    <3>1. /\ nextSeq'[s] = n + 1
          /\ ring'[s] = RingAppend(ring[s], Stamp(s, e))
          /\ dropped'[s] = (dropped[s] \/ Evicts(s))
      BY <2>4 DEF AppendLocked
    <3>2. Stamp(s, e) \in Item /\ ring[s] \in Seq(Item)
      BY <2>4, ItemTypes DEF AppendLocked, TypeOK
    <3>3. CASE Evicts(s)
      <4>1. k = RingSize /\ base[s] = n - k
        BY <3>3 DEF Evicts
      <4>2. Len(ring'[s]) = k
        BY <4>1, <3>1, <3>2 DEF RingAppend
      <4>3. Held(s)' = n + 1 - k .. n
        BY <4>2, <3>1, <2>1, <2>2
      <4>4. {m \in Held(s) : m > base[s]} = n + 1 - k .. n - 1
        BY <4>1, <2>1
      <4>5. \E m \in Held(s) : m <= base[s]
        <5>1. base[s] \in Held(s) /\ base[s] <= base[s]
          BY <4>1, <2>1
        <5>2. QED  BY <5>1
      <4>6. n + 1 - k .. n = (n + 1 - k .. n - 1) \cup {n - 1 + 1}
        BY <4>1, <2>1
      <4>7. Held(s)' = {m \in Held(s) : m > base[s]} \cup {n - 1 + 1}
        BY <4>3, <4>4, <4>6
      <4>8. nextSeq'[s] - 1 = n - 1 + 1
        BY <3>1, <2>1
      <4>9. QED  BY <4>5, <4>7, <4>8, <3>1, <3>3, <2>4
    <3>4. CASE ~Evicts(s)
      <4>1. k # RingSize /\ base[s] = 0
        BY <3>4 DEF Evicts
      <4>2. Len(ring'[s]) = k + 1
        BY <4>1, <3>1, <3>2 DEF RingAppend
      <4>3. Held(s)' = n - k .. n
        BY <4>2, <3>1, <2>1, <2>2
      <4>4. {m \in Held(s) : m > base[s]} = Held(s)
        BY <4>1, <2>1
      <4>5. ~(\E m \in Held(s) : m <= base[s])
        BY <4>1, <2>1
      <4>6. n - k .. n = (n - k .. n - 1) \cup {n - 1 + 1}
        BY <2>1
      <4>7. Held(s)' = {m \in Held(s) : m > base[s]} \cup {n - 1 + 1}
        BY <4>3, <4>4, <4>6, <2>1
      <4>8. nextSeq'[s] - 1 = n - 1 + 1
        BY <3>1, <2>1
      <4>9. QED  BY <4>5, <4>7, <4>8, <3>1, <3>4, <2>4
    <3>5. QED  BY <3>3, <3>4
  <2>5. QED  BY <2>3, <2>4
<1>3. PICK bound \in Log!Bounds : bound = base
  BY <1>1
<1>4. Log!Append(hit, bound)
  <2> HIDE DEF base
  <2>1. [s \in Subs |-> nextSeq[s] - 1]'
            = [s \in Subs |-> IF s \in hit THEN nextSeq[s] - 1 + 1 ELSE nextSeq[s] - 1]
    BY <1>2, <1>3
  <2>2. [s \in Subs |-> Held(s)]'
            = [s \in Subs |-> IF s \in hit
                              THEN {m \in Held(s) : m > bound[s]} \cup {nextSeq[s] - 1 + 1}
                              ELSE Held(s)]
    BY <1>2, <1>3
  <2>3. dropped' = [s \in Subs |->
                        dropped[s] \/ (s \in hit /\ \E m \in Held(s) : m <= bound[s])]
    <3>1. dropped' \in [Subs -> BOOLEAN]
      BY DEF TypeOK
    <3>2. QED  BY <1>2, <1>3, <3>1
  <2>4. QED  BY <2>1, <2>2, <2>3 DEF Log!Append, Held
<1>5. QED
  <2>1. Log!Append(hit, bound)
    BY <1>4
  <2>2. QED  BY <2>1 DEF Log!Next

\* Each step of the manager is a step of the logs, or none.
LEMMA LogStep ==
    TypeOK /\ HeldIsInterval /\ TypeOK' /\ HeldIsInterval' /\ [Next]_vars
        => [Log!Next]_(Log!vars)
<1> SUFFICES ASSUME TypeOK, HeldIsInterval, TypeOK', HeldIsInterval', [Next]_vars
             PROVE  Log!Next \/ UNCHANGED Log!vars
  OBVIOUS
<1>1. CASE UNCHANGED <<ring, nextSeq, dropped>>
  BY <1>1 DEF Log!vars
<1>2. ASSUME NEW hit \in SUBSET Subs, NEW e \in Elements, AppendLocked(hit, e)
      PROVE  Log!Next
  BY <1>2, AppendRefines
<1>3. ASSUME NEW s \in Subs, Sync(s) \/ SyncKeyed(s)
      PROVE  Log!Next
  <2>1. dropped' = [dropped EXCEPT ![s] = FALSE] /\ UNCHANGED <<ring, nextSeq>>
    BY <1>3 DEF Sync, SyncKeyed, Answer
  <2>2. Log!Read(s)
    BY <2>1 DEF Log!Read
  <2>3. QED  BY <2>2 DEF Log!Next
<1>4. ASSUME NEW s \in Subs, Receive(s) \/ LoseReply(s)
      PROVE  UNCHANGED <<ring, nextSeq, dropped>>
  BY <1>4 DEF Receive, LoseReply, manager
<1>5. CASE DrainStep
  BY <1>1, <1>2, <1>3, <1>4, <1>5 DEF DrainStep
<1>6. CASE UNCHANGED drainVars
  BY <1>1, <1>6 DEF drainVars
<1>7. QED  BY <1>5, <1>6, DrainCases

\* The subscriptions implement lossy logs: samples are numbered without gaps, only
\* the oldest are forgotten, and every loss raises the flag until the next read.
THEOREM SubscriptionsAreLogs == Spec => LogSpec
<1>1. Init => Log!Init
  <2> SUFFICES ASSUME Init
               PROVE  Log!Init
    OBVIOUS
  <2>1. \A s \in Subs : nextSeq[s] - 1 = 0 /\ Held(s) = {}
    <3> SUFFICES ASSUME NEW s \in Subs
                 PROVE  nextSeq[s] - 1 = 0 /\ Held(s) = {}
      OBVIOUS
    <3>1. ring[s] = << >>
      BY DEF Init
    <3>2. nextSeq[s] = 1
      BY DEF Init, FirstSeq
    <3>3. nextSeq[s] - 1 = 0
      BY <3>2
    <3>4. Held(s) = {}
      BY <3>1 DEF Held
    <3>5. QED  BY <3>3, <3>4
  <2>2. dropped = [s \in Subs |-> FALSE]
    BY DEF Init
  <2>3. QED  BY <2>1, <2>2 DEF Log!Init, Held
<1>2. TypeOK /\ RingIsRecentSuffix => HeldIsInterval
  BY HeldInterval
<1>3. TypeOK /\ HeldIsInterval /\ TypeOK' /\ HeldIsInterval' /\ [Next]_vars
          => [Log!Next]_(Log!vars)
  BY LogStep
<1>4. QED
  BY <1>1, <1>2, <1>3, TypeCorrect, RingCorrect, PTL DEF Spec, LogSpec, Log!Spec

-----------------------------------------------------------------------------
(* The listeners.                                                          *)

\* Nothing listens to a subscription before it exists.
Unheard ==
    \A s \in Subs :
        phase[s] = "unused" =>
            streamers[s] = {} /\ \A t \in Streams : target[t] = s => stream[t] = "idle"

\* The listeners of a subscription are the streams that are open to it.
LEMMA AttachedStep ==
    TypeOK /\ ListenerAttached /\ Unheard /\ [Next]_vars => ListenerAttached' /\ Unheard'
<1> SUFFICES ASSUME TypeOK, ListenerAttached, Unheard, [Next]_vars
             PROVE  ListenerAttached' /\ Unheard'
  OBVIOUS
<1> DEFINE P == ListenerAttached' /\ Unheard'
<1>1. CASE UNCHANGED <<phase, streamers, stream, target>>
  BY <1>1 DEF ListenerAttached, Unheard, Live
<1>2. /\ \A s \in Subs, E \in SUBSET Elements : Register(s, E) => P
      /\ \A s \in Subs, E \in SUBSET Elements : Unregister(s, E) => P
      /\ \A hit \in SUBSET Subs, e \in Elements : AppendLocked(hit, e) => P
      /\ \A s \in Subs : Sync(s) => P
      /\ \A s \in Subs : SyncKeyed(s) => P
      /\ \A s \in Subs : Receive(s) => P
      /\ \A s \in Subs : LoseReply(s) => P
      /\ \A t \in Streams : Yield(t) => P
  BY <1>1 DEF Register, Unregister, AppendLocked, Sync, SyncKeyed, Answer, Receive, LoseReply, Yield,
              manager, sse
<1>3. \A s \in Subs : Create(s) => P
  BY DEF Create, ListenerAttached, Unheard, Live, sse, TypeOK
<1>4. \A s \in Subs : Delete(s) => P
  BY DEF Delete, ListenerAttached, Unheard, Live, TypeOK
<1>5. \A t \in Streams : Admit(t) => P
  BY DEF Admit, ListenerAttached, Unheard, Live, manager, TypeOK
<1>6. \A t \in Streams : AttachFails(t) => P
  BY DEF AttachFails, ListenerAttached, Unheard, Live, manager, TypeOK
<1>7. \A t \in Streams : Attach(t) => P
  BY DEF Attach, ListenerAttached, Unheard, Live, TypeOK
<1>8. \A t \in Streams : Disconnect(t) => P
  BY DEF Disconnect, ListenerAttached, Unheard, Live, manager, TypeOK
<1>9. ASSUME NEW t \in Streams, Detach(t), stream[t] \in {"open", "leaving"}, UNCHANGED <<phase, target>>
      PROVE  P
  BY <1>9 DEF Detach, ListenerAttached, Unheard, Live, TypeOK
<1>10. /\ \A t \in Streams : EndOfStream(t) => P
       /\ \A t \in Streams : Leave(t) => P
  BY <1>9 DEF EndOfStream, Leave
<1>11. UNCHANGED vars => P
  BY <1>1 DEF vars, manager, sse
<1> HIDE DEF P
<1>12. P
  <2>1. CASE Next
    BY NextCases, <1>2, <1>3, <1>4, <1>5, <1>7, <1>8, <1>10, <1>6, <2>1
  <2>2. QED  BY <1>11, <2>1
<1>13. QED  BY <1>12 DEF P

\* A subscription feeds the queues of the streams that are open to it, and no other.
THEOREM ListenersAttached == Spec => []ListenerAttached
<1>1. Init => ListenerAttached /\ Unheard
  BY DEF Init, ListenerAttached, Unheard, Live
<1>2. TypeOK /\ ListenerAttached /\ Unheard /\ [Next]_vars => ListenerAttached' /\ Unheard'
  BY AttachedStep
<1>3. QED  BY <1>1, <1>2, TypeCorrect, PTL DEF Spec

-----------------------------------------------------------------------------
(* What waits for a listener.                                              *)

\* What a step may do to one queue.
QueueStays(t) ==
    /\ queue'[t] = queue[t] /\ yielded'[t] = yielded[t]
    /\ nextSeq'[target[t]] >= nextSeq[target[t]]
    /\ phase[target[t]] = "deleted" => phase'[target[t]] = "deleted"

QueueFed(t) ==
    /\ Live(target[t]) /\ yielded'[t] = yielded[t]
    /\ \E e \in Elements :
          Stamp(target[t], e) \in Item /\ queue'[t] = Append(queue[t], Stamp(target[t], e))
    /\ nextSeq'[target[t]] = nextSeq[target[t]] + 1

QueueClosed(t) ==
    /\ Live(target[t]) /\ phase'[target[t]] = "deleted"
    /\ yielded'[t] = yielded[t]
    /\ queue'[t] = Append(queue[t], StreamEnd)
    /\ nextSeq'[target[t]] = nextSeq[target[t]]

QueueRead(t) ==
    /\ queue[t] # <<>> /\ queue'[t] = Tail(queue[t])
    /\ yielded'[t] = (IF Head(queue[t]) = StreamEnd THEN yielded[t] ELSE Head(queue[t]).sequenceNumber)
    /\ nextSeq'[target[t]] = nextSeq[target[t]]
    /\ phase[target[t]] = "deleted" => phase'[target[t]] = "deleted"

QueueMoves == \A t \in Streams : QueueStays(t) \/ QueueFed(t) \/ QueueClosed(t) \/ QueueRead(t)

LEMMA QueueCases == TypeOK /\ ListenerAttached /\ [Next]_vars => QueueMoves /\ UNCHANGED target
<1> SUFFICES ASSUME TypeOK, ListenerAttached, [Next]_vars
             PROVE  QueueMoves /\ UNCHANGED target
  OBVIOUS
<1> DEFINE P == QueueMoves /\ UNCHANGED target
<1>1. /\ \A s \in Subs : nextSeq[s] \in Nat /\ nextSeq[s] <= nextSeq[s]
      /\ \A t \in Streams : target[t] \in Subs
      /\ \A s \in Subs : Live(s) => phase[s] # "deleted"
  BY DEF TypeOK, Live
<1>2. ASSUME UNCHANGED <<queue, yielded, nextSeq, target>>,
             \A s \in Subs : phase[s] = "deleted" => phase'[s] = "deleted"
      PROVE  P
  BY <1>1, <1>2 DEF QueueMoves, QueueStays
<1>3. UNCHANGED vars => P
  BY <1>2 DEF vars, manager, sse
<1>4. \A s \in Subs : Create(s) => P
  BY <1>2 DEF Create, sse, TypeOK
<1>5. /\ \A s \in Subs, E \in SUBSET Elements : Register(s, E) => P
      /\ \A s \in Subs, E \in SUBSET Elements : Unregister(s, E) => P
      /\ \A s \in Subs : Sync(s) => P
      /\ \A s \in Subs : SyncKeyed(s) => P
      /\ \A s \in Subs : Receive(s) => P
      /\ \A s \in Subs : LoseReply(s) => P
  BY <1>2 DEF Register, Unregister, Sync, SyncKeyed, Answer, Receive, LoseReply, manager, sse
<1>6. /\ \A t \in Streams : Admit(t) => P
      /\ \A t \in Streams : Attach(t) => P
      /\ \A t \in Streams : AttachFails(t) => P
      /\ \A t \in Streams : Disconnect(t) => P
      /\ \A t \in Streams : Leave(t) => P
  BY <1>2 DEF Admit, Attach, AttachFails, Disconnect, Leave, manager
<1>7. ASSUME NEW s \in Subs, Delete(s) PROVE P
  <2>1. /\ UNCHANGED <<yielded, nextSeq, target>>
        /\ phase' = [phase EXCEPT ![s] = "deleted"] /\ Live(s)
        /\ \A t \in Streams : queue'[t] = queue[t]
                              \/ (t \in streamers[s] /\ queue'[t] = Append(queue[t], StreamEnd))
    BY <1>7 DEF Delete, Offer
  <2>2. phase'[s] = "deleted" /\ \A q \in Subs : phase[q] = "deleted" => phase'[q] = "deleted"
    BY <2>1 DEF TypeOK
  <2>3. ASSUME NEW t \in Streams PROVE QueueStays(t) \/ QueueClosed(t)
    <3>1. CASE queue'[t] = queue[t]
      BY <1>1, <2>1, <2>2, <3>1 DEF QueueStays
    <3>2. CASE t \in streamers[s] /\ queue'[t] = Append(queue[t], StreamEnd)
      <4>1. target[t] = s
        BY <2>1, <3>2 DEF ListenerAttached
      <4>2. QED  BY <2>1, <2>2, <3>2, <4>1 DEF QueueClosed
    <3>3. QED  BY <2>1, <3>1, <3>2
  <2>4. QED  BY <2>1, <2>3 DEF QueueMoves
<1>8. ASSUME NEW hit \in SUBSET Subs, NEW e \in Elements, \A s \in hit : Live(s), AppendLocked(hit, e)
      PROVE  P
  <2>1. /\ UNCHANGED <<yielded, target, phase>>
        /\ \A s \in Subs : nextSeq'[s] = IF s \in hit THEN nextSeq[s] + 1 ELSE nextSeq[s]
        /\ \A s \in hit : nextSeq[s] <= MaxSeq
    BY <1>8 DEF AppendLocked
  <2>2. ASSUME NEW t \in Streams PROVE QueueStays(t) \/ QueueFed(t)
    <3>1. \/ queue'[t] = queue[t]
          \/ target[t] \in hit /\ queue'[t] = Append(queue[t], Stamp(target[t], e))
      BY <1>8 DEF AppendLocked, Offer
    <3>2. CASE queue'[t] = queue[t]
      <4>1. nextSeq'[target[t]] >= nextSeq[target[t]]
        BY <1>1, <2>1
      <4>2. QED  BY <2>1, <3>2, <4>1 DEF QueueStays
    <3>3. CASE target[t] \in hit /\ queue'[t] = Append(queue[t], Stamp(target[t], e))
      <4>1. Stamp(target[t], e) \in Item /\ Live(target[t])
        BY <1>1, <1>8, <2>1, <3>3, ItemTypes
      <4>2. nextSeq'[target[t]] = nextSeq[target[t]] + 1
        BY <1>1, <2>1, <3>3
      <4>3. QED  BY <2>1, <3>3, <4>1, <4>2 DEF QueueFed
    <3>4. QED  BY <3>1, <3>2, <3>3
  <2>3. QED  BY <2>1, <2>2 DEF QueueMoves
<1>9. ASSUME NEW q \in Streams, queue[q] # <<>>, queue' = [queue EXCEPT ![q] = Tail(@)],
             yielded' = (IF Head(queue[q]) = StreamEnd THEN yielded
                         ELSE [yielded EXCEPT ![q] = Head(queue[q]).sequenceNumber]),
             UNCHANGED <<nextSeq, target, phase>>
      PROVE  P
  <2>1. ASSUME NEW t \in Streams PROVE QueueStays(t) \/ QueueRead(t)
    <3>1. CASE t = q
      <4>1. queue'[q] = Tail(queue[q])
        BY <1>9 DEF TypeOK
      <4>2. yielded'[q] = IF Head(queue[q]) = StreamEnd THEN yielded[q]
                          ELSE Head(queue[q]).sequenceNumber
        BY <1>9 DEF TypeOK
      <4>3. QED  BY <1>9, <3>1, <4>1, <4>2 DEF QueueRead
    <3>2. CASE t # q
      <4>1. queue'[t] = queue[t] /\ yielded'[t] = yielded[t]
        BY <1>9, <3>2 DEF TypeOK
      <4>2. QED  BY <1>1, <1>9, <4>1 DEF QueueStays
    <3>3. QED  BY <3>1, <3>2
  <2>2. QED  BY <1>9, <2>1 DEF QueueMoves
<1>10. /\ \A t \in Streams : Yield(t) => P
       /\ \A t \in Streams : EndOfStream(t) => P
  BY <1>9 DEF Yield, EndOfStream, manager
<1> HIDE DEF P
<1>11. P
  <2>1. CASE Next
    BY NextCases, <1>4, <1>5, <1>6, <1>7, <1>8, <1>10, <2>1
  <2>2. QED  BY <1>3, <2>1
<1>12. QED  BY <1>11 DEF P

\* A queue in order, of numbers above y and below n.
Ordered(q, y, n, closed) ==
    /\ y < n
    /\ \A i \in 1 .. Len(q) : q[i].sequenceNumber < n
    /\ \A i \in 1 .. Len(q) :
          IF q[i] = StreamEnd
          THEN i = Len(q) /\ closed
          ELSE /\ q[i].sequenceNumber > y
               /\ \A j \in 1 .. i - 1 : q[j].sequenceNumber < q[i].sequenceNumber

Entry == Item \cup {StreamEnd}

LEMMA EntryTypes == \A x \in Entry : x.sequenceNumber \in Nat /\ (x \in Item => x # StreamEnd)
BY SizeAssumption DEF Entry, Item, Seqs, StreamEnd

\* A later item goes to the end of an open queue.
LEMMA OrderedFed ==
    ASSUME NEW q \in Seq(Entry), NEW y \in Nat, NEW n \in Nat, Ordered(q, y, n, FALSE),
           NEW x \in Item, x.sequenceNumber = n
    PROVE  Ordered(Append(q, x), y, n + 1, FALSE)
<1> DEFINE r == Append(q, x)
<1>1. /\ Len(q) \in Nat /\ Len(r) = Len(q) + 1
      /\ \A i \in 1 .. Len(q) : r[i] = q[i] /\ q[i] \in Entry
      /\ r[Len(q) + 1] = x
  BY DEF Entry
<1> HIDE DEF r
<1>2. ASSUME NEW i \in 1 .. Len(q) PROVE q[i].sequenceNumber \in Nat /\ q[i].sequenceNumber < n
  BY <1>1, EntryTypes DEF Ordered
<1>3. ASSUME NEW i \in 1 .. Len(r)
      PROVE  /\ r[i].sequenceNumber < n + 1
             /\ r[i] # StreamEnd
             /\ r[i].sequenceNumber > y
             /\ \A j \in 1 .. i - 1 : r[j].sequenceNumber < r[i].sequenceNumber
  <2>1. CASE i = Len(q) + 1
    <3>1. r[i] = x /\ x # StreamEnd
      BY <1>1, <2>1, EntryTypes DEF Entry
    <3>2. \A j \in 1 .. i - 1 : r[j].sequenceNumber < n
      BY <1>1, <1>2, <2>1
    <3>3. QED  BY <3>1, <3>2 DEF Ordered
  <2>2. CASE i # Len(q) + 1
    <3>1. i \in 1 .. Len(q) /\ \A j \in 1 .. i - 1 : j \in 1 .. Len(q)
      BY <1>1, <2>2
    <3>2. QED  BY <1>1, <1>2, <3>1 DEF Ordered
  <2>3. QED  BY <2>1, <2>2
<1>4. y < n + 1
  BY DEF Ordered
<1>5. Ordered(r, y, n + 1, FALSE)
  BY <1>3, <1>4 DEF Ordered
<1>6. QED  BY <1>5 DEF r

\* The sentinel goes to the end of an open queue, which is closed then.
LEMMA OrderedClosed ==
    ASSUME NEW q \in Seq(Entry), NEW y \in Nat, NEW n \in Nat, Ordered(q, y, n, FALSE)
    PROVE  Ordered(Append(q, StreamEnd), y, n, TRUE)
<1> DEFINE r == Append(q, StreamEnd)
<1>1. /\ Len(q) \in Nat /\ Len(r) = Len(q) + 1
      /\ \A i \in 1 .. Len(q) : r[i] = q[i]
      /\ r[Len(q) + 1] = StreamEnd
  BY DEF Entry
<1> HIDE DEF r
<1>2. StreamEnd.sequenceNumber < n
  BY DEF Ordered, StreamEnd
<1>3. ASSUME NEW i \in 1 .. Len(r)
      PROVE  /\ r[i].sequenceNumber < n
             /\ IF r[i] = StreamEnd
                THEN i = Len(r)
                ELSE /\ r[i].sequenceNumber > y
                     /\ \A j \in 1 .. i - 1 : r[j].sequenceNumber < r[i].sequenceNumber
  <2>1. CASE i = Len(q) + 1
    BY <1>1, <1>2, <2>1
  <2>2. CASE i # Len(q) + 1
    <3>1. i \in 1 .. Len(q) /\ \A j \in 1 .. i - 1 : j \in 1 .. Len(q)
      BY <1>1, <2>2
    <3>2. QED  BY <1>1, <3>1 DEF Ordered
  <2>3. QED  BY <2>1, <2>2
<1>4. Ordered(r, y, n, TRUE)
  BY <1>3 DEF Ordered
<1>5. QED  BY <1>4 DEF r

\* The first item leaves a queue.
LEMMA OrderedRead ==
    ASSUME NEW q \in Seq(Entry), q # <<>>, NEW y \in Nat, NEW n \in Nat, NEW closed \in BOOLEAN,
           Ordered(q, y, n, closed)
    PROVE  Ordered(Tail(q), IF Head(q) = StreamEnd THEN y ELSE Head(q).sequenceNumber, n, closed)
<1> DEFINE r == Tail(q)
           z == IF Head(q) = StreamEnd THEN y ELSE Head(q).sequenceNumber
<1>1. /\ Len(q) \in Nat \ {0} /\ Len(r) = Len(q) - 1
      /\ \A i \in 1 .. Len(r) : r[i] = q[i + 1]
      /\ Head(q) = q[1] /\ 1 \in 1 .. Len(q)
  BY DEF Entry
<1> HIDE DEF r
<1>2. z < n
  BY <1>1 DEF Ordered
<1>3. Head(q) = StreamEnd => Len(r) = 0
  BY <1>1 DEF Ordered
<1>4. Head(q) # StreamEnd => z = q[1].sequenceNumber
  BY <1>1
<1> HIDE DEF z
<1>5. ASSUME NEW i \in 1 .. Len(r)
      PROVE  /\ r[i].sequenceNumber < n
             /\ IF r[i] = StreamEnd
                THEN i = Len(r) /\ closed
                ELSE /\ r[i].sequenceNumber > z
                     /\ \A j \in 1 .. i - 1 : r[j].sequenceNumber < r[i].sequenceNumber
  <2>1. i + 1 \in 1 .. Len(q) /\ r[i] = q[i + 1] /\ 1 \in 1 .. (i + 1) - 1
    BY <1>1
  <2>2. ASSUME NEW j \in 1 .. i - 1 PROVE j + 1 \in 1 .. (i + 1) - 1 /\ r[j] = q[j + 1]
    BY <1>1
  <2>3. z = q[1].sequenceNumber
    BY <1>1, <1>3, <1>4
  <2>4. r[i].sequenceNumber < n
    BY <2>1 DEF Ordered
  <2>5. CASE r[i] = StreamEnd
    BY <1>1, <2>1, <2>4, <2>5 DEF Ordered
  <2>6. CASE r[i] # StreamEnd
    <3>1. \A j \in 1 .. (i + 1) - 1 : q[j].sequenceNumber < q[i + 1].sequenceNumber
      BY <2>1, <2>6 DEF Ordered
    <3>2. q[1].sequenceNumber \in Nat /\ q[i + 1].sequenceNumber \in Nat
      BY <1>1, <2>1, EntryTypes
    <3>3. QED  BY <2>1, <2>2, <2>3, <2>4, <2>6, <3>1, <3>2
  <2>7. QED  BY <2>5, <2>6
<1>6. Ordered(r, z, n, closed)
  BY <1>2, <1>5 DEF Ordered
<1>7. QED  BY <1>6 DEF r, z

AllOrdered ==
    \A t \in Streams :
        Ordered(queue[t], yielded[t], nextSeq[target[t]], phase[target[t]] = "deleted")

LEMMA OrderedStep == TypeOK /\ TypeOK' /\ ListenerAttached /\ AllOrdered /\ [Next]_vars => AllOrdered'
<1> SUFFICES ASSUME TypeOK, TypeOK', ListenerAttached, AllOrdered, [Next]_vars, NEW t \in Streams
             PROVE  Ordered(queue'[t], yielded'[t], nextSeq'[target'[t]], phase'[target'[t]] = "deleted")
  BY DEF AllOrdered
<1> DEFINE closed == phase[target[t]] = "deleted"
           later == phase'[target[t]] = "deleted"
<1>1. /\ UNCHANGED target
      /\ QueueStays(t) \/ QueueFed(t) \/ QueueClosed(t) \/ QueueRead(t)
  BY QueueCases DEF QueueMoves
<1>2. /\ queue[t] \in Seq(Entry) /\ yielded[t] \in Nat
      /\ nextSeq[target[t]] \in Nat /\ nextSeq'[target[t]] \in Nat
      /\ \A i \in 1 .. Len(queue[t]) : queue[t][i] \in Entry
  <2>1. target[t] \in Subs /\ target'[t] \in Subs
    BY DEF TypeOK
  <2>2. queue[t] \in Seq(Entry) /\ yielded[t] \in Nat
    BY SizeAssumption DEF TypeOK, Entry
  <2>3. nextSeq[target[t]] \in Nat /\ nextSeq'[target'[t]] \in Nat
    BY <2>1, SizeAssumption DEF TypeOK
  <2>4. QED  BY <1>1, <2>2, <2>3
<1>3. Ordered(queue[t], yielded[t], nextSeq[target[t]], closed)
  BY DEF AllOrdered
<1>4. closed \in BOOLEAN /\ later \in BOOLEAN
  OBVIOUS
<1>5. SUFFICES Ordered(queue'[t], yielded'[t], nextSeq'[target[t]], later)
  BY <1>1
<1>6. CASE QueueStays(t)
  <2>1. closed => later
    BY <1>6 DEF QueueStays
  <2> HIDE DEF closed, later
  <2>2. \A i \in 1 .. Len(queue[t]) : queue[t][i].sequenceNumber \in Nat
    BY <1>2, EntryTypes
  <2>3. QED  BY <1>2, <1>3, <1>6, <2>1, <2>2 DEF QueueStays, Ordered
<1>7. CASE QueueFed(t)
  <2>1. ~closed
    BY <1>7 DEF QueueFed, Live
  <2>2. PICK e \in Elements :
          Stamp(target[t], e) \in Item /\ queue'[t] = Append(queue[t], Stamp(target[t], e))
    BY <1>7 DEF QueueFed
  <2>3. Stamp(target[t], e).sequenceNumber = nextSeq[target[t]]
    BY DEF Stamp
  <2>4. Ordered(queue[t], yielded[t], nextSeq[target[t]], FALSE)
    BY <1>3, <1>4, <2>1 DEF Ordered
  <2>5. Ordered(queue'[t], yielded[t], nextSeq[target[t]] + 1, FALSE)
    BY <1>2, <2>2, <2>3, <2>4, OrderedFed
  <2> HIDE DEF closed, later
  <2>6. Ordered(queue'[t], yielded[t], nextSeq[target[t]] + 1, later)
    BY <2>5 DEF Ordered
  <2>7. QED  BY <1>7, <2>6 DEF QueueFed
<1>8. CASE QueueClosed(t)
  <2>1. ~closed /\ later
    BY <1>8 DEF QueueClosed, Live
  <2>2. Ordered(queue[t], yielded[t], nextSeq[target[t]], FALSE)
    BY <1>3, <1>4, <2>1 DEF Ordered
  <2>3. Ordered(queue'[t], yielded[t], nextSeq[target[t]], TRUE)
    BY <1>2, <1>8, <2>2, OrderedClosed DEF QueueClosed
  <2>4. QED  BY <1>8, <2>1, <2>3 DEF QueueClosed, Ordered
<1>9. CASE QueueRead(t)
  <2>1. closed => later
    BY <1>9 DEF QueueRead
  <2>2. Ordered(Tail(queue[t]), IF Head(queue[t]) = StreamEnd THEN yielded[t]
                                ELSE Head(queue[t]).sequenceNumber,
                nextSeq[target[t]], closed)
    BY <1>2, <1>3, <1>4, <1>9, OrderedRead DEF QueueRead
  <2>3. Ordered(queue'[t], yielded'[t], nextSeq'[target[t]], closed)
    BY <1>9, <2>2 DEF QueueRead
  <2> HIDE DEF closed, later
  <2>4. QED  BY <2>1, <2>3 DEF Ordered
<1>10. QED  BY <1>1, <1>6, <1>7, <1>8, <1>9

\* A listener gets its items in order, none twice, and the sentinel last.
THEOREM StreamsInOrder == Spec => []StreamInOrder
<1>1. Init => AllOrdered
  BY DEF Init, AllOrdered, Ordered, FirstSeq
<1>2. TypeOK /\ TypeOK' /\ ListenerAttached /\ AllOrdered /\ [Next]_vars => AllOrdered'
  BY OrderedStep
<1>3. TypeOK /\ AllOrdered => StreamInOrder
  <2> SUFFICES ASSUME TypeOK, AllOrdered, NEW t \in Streams, NEW i \in DOMAIN queue[t]
               PROVE  IF queue[t][i] = StreamEnd
                      THEN i = Len(queue[t]) /\ phase[target[t]] = "deleted"
                      ELSE /\ queue[t][i].sequenceNumber > yielded[t]
                           /\ \A j \in 1 .. i - 1 :
                                queue[t][j].sequenceNumber < queue[t][i].sequenceNumber
    BY DEF StreamInOrder
  <2>1. i \in 1 .. Len(queue[t])
    BY DEF TypeOK
  <2>2. QED  BY <2>1 DEF AllOrdered, Ordered
<1>4. QED  BY <1>1, <1>2, <1>3, TypeCorrect, ListenersAttached, PTL DEF Spec

=============================================================================
