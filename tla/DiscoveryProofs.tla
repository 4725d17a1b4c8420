---- MODULE DiscoveryProofs ----
(***************************************************************************)
(* Proofs about a whole discovery: its types, that the walk over the       *)
(* instances implements Exploration and forgets nothing in silence, that   *)
(* wire ids keep nodes apart, and what the routes make of the snapshot:    *)
(* reads, relationships, types, namespaces and components.  First comes    *)
(* what one step of the walk preserves.  Each is proved for every server,  *)
(* every size of page and batch and any number of faults.                  *)
(***************************************************************************)
EXTENDS ObjectModel, TLAPS, FiniteSetTheorems, SequenceTheorems, WellFoundedInduction

--------------------------------------------------------------------------
(* Numbers and sets.                                                       *)

\* A bounded set of numbers that is not empty has a greatest.
LEMMA GreatestExists ==
    ASSUME NEW m \in Nat, NEW S \in SUBSET (1..m), S # {}
    PROVE  \E k \in S : \A j \in S : j <= k
<1> DEFINE T == {m - k : k \in S}
<1>1. T \subseteq Nat /\ T # {}
  <2>1. PICK k \in S : TRUE
    OBVIOUS
  <2>2. m - k \in T
    BY <2>1
  <2>3. \A j \in S : m - j \in Nat
    OBVIOUS
  <2>4. QED  BY <2>2, <2>3
<1>2. PICK x \in T : \A y \in T : ~ (<<y, x>> \in OpToRel(<, Nat))
  BY <1>1, NatLessThanWellFounded, WFMin
<1>3. \A y \in T : ~ (y < x)
  BY <1>1, <1>2 DEF OpToRel
<1>4. PICK k \in S : x = m - k
  OBVIOUS
<1>5. ASSUME NEW j \in S PROVE j <= k
  <2>1. m - j \in T
    OBVIOUS
  <2>2. ~ (m - j < m - k)
    BY <1>3, <1>4, <2>1
  <2>3. j \in Int /\ k \in Int
    BY <1>4, <1>5
  <2>4. QED  BY <2>2, <2>3
<1>6. QED  BY <1>4, <1>5

\* The sizes of sets of indices.
LEMMA IndicesCounted ==
    ASSUME NEW m \in Nat, NEW S \in SUBSET (1..m)
    PROVE  /\ IsFiniteSet(S)
           /\ Cardinality(S) \in Nat /\ Cardinality(S) <= m
           /\ S # {} => Cardinality(S) > 0
<1>1. IsFiniteSet(1..m) /\ Cardinality(1..m) = m
  BY FS_Interval
<1>2. IsFiniteSet(S) /\ Cardinality(S) <= Cardinality(1..m)
  BY <1>1, FS_Subset
<1>3. Cardinality(S) \in Nat
  BY <1>2, FS_CardinalityType
<1>4. Cardinality(S) = 0 <=> S = {}
  BY <1>2, FS_EmptySet
<1>5. Cardinality(S) <= m
  BY <1>1, <1>2
<1>6. ASSUME S # {} PROVE Cardinality(S) > 0
  <2>1. Cardinality(S) # 0
    BY <1>4, <1>6, Zenon
  <2>2. QED  BY <1>3, <2>1
<1>7. QED  BY <1>2, <1>3, <1>5, <1>6

\* A quotient of numbers is a number.
LEMMA Quotient == \A a \in Nat, b \in Nat \ {0} : a \div b \in Nat
  BY Z3


--------------------------------------------------------------------------
(* The invariant.  First what the walk has in hand.                        *)

InBatchOf(k) == results[k].got <= Len(Refs(batch[k]))

\* What has arrived of a parent is a prefix of its references.
Arrived ==
  /\ \A k \in DOMAIN results : InBatchOf(k)
  /\ phase = "solo" => starved # {} /\ solo.got <= Len(Refs(Asked))

\* What each phase leaves empty.
Phased ==
  /\ phase \in {"limits", "root"} => visited = {} /\ queue = <<>>
  /\ phase \in {"follow", "retry", "solo", "emit", "failed"} \/ batch = <<>>
  /\ phase \in {"retry", "solo", "failed"} \/ starved = {}
  /\ phase \in WalkPhases \cup {"failed"} \/ queue = <<>>

\* Only nodes that were found and may have children wait for their turn.
Due ==
  /\ \A i \in DOMAIN queue : queue[i] \in visited /\ Browseable(queue[i])
  /\ \A k \in DOMAIN batch : batch[k] \in visited /\ Browseable(batch[k])

InHand == WalkTypeOK /\ Arrived /\ Phased /\ Due

--------------------------------------------------------------------------
(* The operators of the walk.                                              *)

LEMMA WorldTypes ==
    ASSUME site \in DOMAIN Catalogue
    PROVE  WalkWorld(world)
BY WalkAssumption DEF Catalogue, world

\* What a node refers to.
LEMMA RefTypes ==
    ASSUME site \in DOMAIN Catalogue, NEW p \in Nodes
    PROVE  /\ Refs(p) \in Seq([to : Nodes, rel : Relations])
           /\ Len(Refs(p)) \in Nat
           /\ \A i \in 1..Len(Refs(p)) : Refs(p)[i] \in [to : Nodes, rel : Relations]
<1>1. Refs(p) \in Seq([to : Nodes, rel : Relations])
  BY WorldTypes DEF WalkWorld, Refs
<1>2. QED  BY <1>1, LenProperties, ElementOfSeq

\* A counter goes up by n, the others stay.
LEMMA BumpTypes ==
    ASSUME NEW c \in [DOMAIN NoCount -> Nat], NEW field \in DOMAIN NoCount, NEW n \in Nat
    PROVE  /\ Bump(c, field, n) \in [DOMAIN NoCount -> Nat]
           /\ \A f \in DOMAIN NoCount : Bump(c, field, n)[f] = IF f = field THEN c[f] + n ELSE c[f]
BY DEF Bump

LEMMA CounterNames ==
  DOMAIN NoCount = {"starved", "recovered", "unrecoverable", "nextStarved", "nextBad", "parentBad"}
BY DEF NoCount

\* What a step may do to the counters.
Counted == counters' = counters \/ \E field \in DOMAIN NoCount : counters' = Bump(counters, field, 1)

LEMMA CountedTypes ==
    ASSUME counters \in [DOMAIN NoCount -> Nat], Counted
    PROVE  counters' \in [DOMAIN NoCount -> Nat]
BY BumpTypes DEF Counted

\* A refused result.
Refused == [NoResult EXCEPT !.status = "Bad"]

LEMMA RefusedTypes ==
  Refused \in Result /\ Refused.status = "Bad" /\ Refused.got = 0 /\ ~Refused.more
BY DEF Refused, NoResult, Result, Statuses

\* A parent's answer is a page at most, and never more than there is.
LEMMA AnswerTypes ==
    ASSUME site \in DOMAIN Catalogue, NEW parents \in Seq(Nodes), NEW k \in 1..Len(parents)
    PROVE  /\ Answer(parents, k) \in Result
           /\ Answer(parents, k).got <= Len(Refs(parents[k]))
           /\ Answer(parents, k).status = "Good" =>
                Answer(parents, k).more \/ Answer(parents, k).got = Len(Refs(parents[k]))
           /\ Answer(parents, k).status \in {"Good", "NoCP"}
           /\ Answer(parents, k).status = "NoCP" => ~Answer(parents, k).more
<1>1. parents[k] \in Nodes
  OBVIOUS
<1>2. Len(Refs(parents[k])) \in Nat
  BY <1>1, RefTypes
<1>3. PageSize \in Nat
  BY WalkAssumption
<1>4. QED  BY <1>2, <1>3 DEF Answer, Wide, Result, Statuses

\* The next page goes on where the last one ended.
LEMMA NextPageTypes ==
    ASSUME site \in DOMAIN Catalogue, NEW p \in Nodes, NEW r \in Result, r.got <= Len(Refs(p))
    PROVE  /\ NextPage(r, p) \in Result
           /\ NextPage(r, p).got <= Len(Refs(p))
           /\ NextPage(r, p).more \/ NextPage(r, p).got = Len(Refs(p))
           /\ NextPage(r, p).status = r.status
<1>1. Len(Refs(p)) \in Nat /\ PageSize \in Nat
  BY RefTypes, WalkAssumption
<1>2. r.got \in Nat /\ r.status \in Statuses
  BY DEF Result
<1>3. LesserOf(r.got + PageSize, Len(Refs(p))) \in 0..Len(Refs(p))
  BY <1>1, <1>2 DEF LesserOf
<1> DEFINE n == LesserOf(r.got + PageSize, Len(Refs(p)))
<1>4. NextPage(r, p) = [status |-> r.status, got |-> n, more |-> n < Len(Refs(p))]
  BY DEF NextPage
<1> HIDE DEF n
<1>5. n \in 0..Len(Refs(p)) /\ n \in Nat
  BY <1>1, <1>3 DEF n
<1>6. NextPage(r, p) \in Result
  BY <1>2, <1>4, <1>5 DEF Result
<1>7. NextPage(r, p).more \/ n = Len(Refs(p))
  <2>1. NextPage(r, p).more = (n < Len(Refs(p)))
    BY <1>4
  <2>2. ASSUME n < Len(Refs(p)) PROVE NextPage(r, p).more
    BY <2>1, <2>2, Zenon
  <2>3. QED  BY <1>1, <1>5, <2>2
<1>8. QED  BY <1>1, <1>4, <1>5, <1>6, <1>7

\* The index that is popped is one of the starved.
LEMMA PoppedIsStarved ==
    ASSUME WalkTypeOK, starved # {}
    PROVE  /\ Popped \in starved
           /\ Popped \in DOMAIN results /\ Popped \in DOMAIN batch
           /\ Asked \in Nodes
<1>1. results \in Seq(Result) /\ starved \subseteq 1..Len(results) /\ Len(results) \in Nat
      /\ batch \in Seq(Nodes) /\ Len(results) = Len(batch)
  BY DEF WalkTypeOK
<1>2. \E k \in starved : \A j \in starved : j <= k
  BY <1>1, GreatestExists
<1>3. Popped \in starved
  BY <1>2 DEF Popped
<1>4. QED  BY <1>1, <1>3 DEF Asked

\* A batch is the head of the queue.
LEMMA BatchTypes ==
    ASSUME WalkTypeOK
    PROVE  /\ BatchSize \in 0..Len(queue)
           /\ Taken \in Seq(Nodes) /\ Len(Taken) = BatchSize
           /\ \A k \in 1..Len(Taken) : Taken[k] = queue[k]
           /\ Left \in Seq(Nodes) /\ Len(Left) = Len(queue) - BatchSize
           /\ \A i \in 1..Len(Left) : Left[i] = queue[i + BatchSize]
<1> DEFINE budget == IF seen <= browsed THEN MaxChildren \div 2
                     ELSE (MaxChildren * browsed) \div (2 * seen)
<1>1. /\ MaxChildren \in Nat /\ seen \in Nat /\ browsed \in Nat /\ limit \in Nat
      /\ queue \in Seq(Nodes) /\ Len(queue) \in Nat
  BY WalkAssumption DEF WalkTypeOK
<1>2. budget \in Nat
  <2>1. MaxChildren \div 2 \in Nat
    BY <1>1, Quotient
  <2>2. MaxChildren * browsed \in Nat
    BY <1>1
  <2>3. ASSUME ~ (seen <= browsed) PROVE 2 * seen \in Nat \ {0}
    BY <1>1, <2>3
  <2>4. QED  BY <2>1, <2>2, <2>3, Quotient
<1>3. BatchSize = LesserOf(LesserOf(Len(queue), limit), GreaterOf(1, budget))
  BY DEF BatchSize
<1> HIDE DEF budget
<1>4. BatchSize \in 0..Len(queue)
  BY <1>1, <1>2, <1>3 DEF LesserOf, GreaterOf
<1>5. /\ Taken \in Seq(Nodes) /\ Len(Taken) = BatchSize
      /\ \A k \in 1..Len(Taken) : Taken[k] = queue[k]
  BY <1>1, <1>4, SubSeqProperties DEF Taken
<1>6. /\ Left \in Seq(Nodes) /\ Len(Left) = Len(queue) - BatchSize
      /\ \A i \in 1..Len(Left) : Left[i] = queue[i + BatchSize]
  BY <1>1, <1>4, SubSeqProperties DEF Left
<1>7. QED  BY <1>4, <1>5, <1>6

--------------------------------------------------------------------------
(* What the walk has in hand stays in order.                               *)

\* The server is the same after a step.
LEMMA SameServer ==
    ASSUME UNCHANGED site
    PROVE  /\ \A p : Refs(p)' = Refs(p)
           /\ \A p : Browseable(p)' <=> Browseable(p)
           /\ world' = world
BY DEF Refs, Browseable, world, Catalogue

\* A step outside of solo that leaves the results alone.
LEMMA ArrivedFrame ==
    ASSUME Arrived, UNCHANGED <<site, batch, results>>, phase' # "solo"
    PROVE  Arrived'
BY SameServer DEF Arrived, InBatchOf

LEMMA SameAsked ==
    ASSUME UNCHANGED <<batch, starved>>
    PROVE  Asked' = Asked /\ Popped' = Popped
BY DEF Asked, Popped

\* A step that adds nothing to the queue or the batch.
LEMMA DueFrame ==
    ASSUME Due, UNCHANGED <<site, queue, batch>>, visited \subseteq visited'
    PROVE  Due'
BY SameServer DEF Due

\* The variables a step of each kind leaves alone.
LEMMA Unchanging ==
  /\ UNCHANGED tree => UNCHANGED <<queue, visited, out>>
  /\ UNCHANGED exchange => UNCHANGED <<batch, results, starved, solo, cursor, readOk>>
BY DEF tree, exchange

LEMMA InHandInit == WalkInit => InHand
<1> SUFFICES ASSUME WalkInit PROVE InHand
  OBVIOUS
<1>1. NoResult \in Result /\ NoCount \in [DOMAIN NoCount -> Nat]
  BY DEF NoResult, Result, Statuses, NoCount
<1>2. WalkTypeOK
  BY <1>1 DEF WalkInit, WalkTypeOK
<1>3. QED  BY <1>2 DEF WalkInit, InHand, Arrived, Phased, Due, WalkPhases

\* Faults are of the kinds that there are.
LEMMA FaultTypes ==
    ASSUME faults \subseteq Faults
    PROVE  /\ \A kind \in Faults : Fault(kind) => faults' = faults \cup {kind} /\ faults' \subseteq Faults
           /\ \A kind \in Faults : \A S :
                SomeFault(kind, S) => /\ faults' = faults \cup (IF S = {} THEN {} ELSE {kind})
                                      /\ faults' \subseteq Faults
BY DEF Fault, SomeFault, Faulty

\* Before the first batch.
LEMMA LimitTypes ==
    ASSUME site \in DOMAIN Catalogue
    PROVE  /\ DiscoveredLimit(world) \in Nat
           /\ world.limits.cps # 0 => DiscoveredLimit(world) <= world.limits.cps
<1> DEFINE candidates == {world.limits.cps, world.limits.nodes} \ {0}
           least == CHOOSE v \in candidates : \A u \in candidates : v <= u
<1>1. world.limits.cps \in Nat /\ world.limits.nodes \in Nat
  BY WorldTypes DEF WalkWorld
<1>2. DefaultParents \in Nat
  BY WalkAssumption
<1>3. CASE candidates = {}
  BY <1>1, <1>2, <1>3 DEF DiscoveredLimit
<1>4. CASE candidates # {}
  <2>1. \E v \in candidates : \A u \in candidates : v <= u
    BY <1>1, <1>4
  <2>2. least \in candidates /\ \A u \in candidates : least <= u
    BY <2>1
  <2>3. least \in Nat /\ (world.limits.cps # 0 => least <= world.limits.cps)
    BY <1>1, <2>2
  <2>4. DiscoveredLimit(world) = LesserOf(least, DefaultParents)
    BY <1>4 DEF DiscoveredLimit
  <2> HIDE DEF least
  <2>5. QED  BY <1>1, <1>2, <2>3, <2>4 DEF LesserOf
<1>5. QED  BY <1>3, <1>4

LEMMA InHandLimits == InHand /\ DiscoverMaxParents => InHand'
<1> SUFFICES ASSUME InHand, DiscoverMaxParents PROVE InHand'
  OBVIOUS
<1>1. /\ phase = "limits" /\ phase' = "root"
      /\ UNCHANGED <<site, queue, visited, out, batch, results, starved, solo, cursor, readOk,
                     seen, browsed, counters, faults>>
  BY DEF DiscoverMaxParents, tree, exchange
<1>2. limit' \in Nat
  BY LimitTypes, WalkAssumption DEF DiscoverMaxParents, LesserOf, InHand, WalkTypeOK
<1>3. WalkTypeOK'
  BY <1>1, <1>2 DEF InHand, WalkTypeOK, Catalogue
<1>4. Arrived' /\ Due'
  BY <1>1, ArrivedFrame, DueFrame DEF InHand
<1>5. Phased'
  BY <1>1 DEF InHand, Phased, WalkPhases
<1>6. QED  BY <1>3, <1>4, <1>5 DEF InHand

LEMMA InHandRoot == InHand /\ BrowseRoot => InHand'
<1> SUFFICES ASSUME InHand, BrowseRoot PROVE InHand'
  OBVIOUS
<1>1. /\ phase = "root" /\ phase' = "walk"
      /\ UNCHANGED <<site, limit, batch, results, starved, solo, cursor, readOk,
                     seen, browsed, counters>>
  BY DEF BrowseRoot, exchange
<1>2. queue = <<>> /\ batch = <<>> /\ visited = {}
  BY <1>1 DEF InHand, Phased
<1>3. Root \in Nodes
  BY WalkAssumption
<1>4. faults' \subseteq Faults
  BY FaultTypes DEF InHand, WalkTypeOK, BrowseRoot, NoNodeInfo, Faults
<1>5. CASE UNCHANGED <<queue, visited, out>>
  <2>1. WalkTypeOK'
    BY <1>1, <1>4, <1>5 DEF InHand, WalkTypeOK, Catalogue
  <2>2. Arrived' /\ Due'
    BY <1>1, <1>5, ArrivedFrame, DueFrame DEF InHand
  <2>3. Phased'
    BY <1>1, <1>5 DEF InHand, Phased, WalkPhases
  <2>4. QED  BY <2>1, <2>2, <2>3 DEF InHand
<1>6. CASE /\ visited' = {Root} /\ queue' = Enqueued(Root)
           /\ out' = IF Allowed(Root) THEN <<Descriptor(Root, NoNode, "", FALSE)>> ELSE <<>>
  <2>1. /\ queue' \in Seq(Nodes)
        /\ \A i \in DOMAIN queue' : queue'[i] = Root /\ Browseable(Root)
    <3>1. CASE Browseable(Root)
      <4>1. queue' = Append(queue, Root)
        BY <1>6, <3>1 DEF Enqueued
      <4>2. queue' = <<Root>>
        BY <1>2, <4>1
      <4>3. QED  BY <1>3, <3>1, <4>2
    <3>2. CASE ~Browseable(Root)
      <4>1. queue' = <<>>
        BY <1>2, <1>6, <3>2 DEF Enqueued
      <4>2. QED  BY <4>1
    <3>3. QED  BY <3>1, <3>2
  <2>2. Descriptor(Root, NoNode, "", FALSE) \in NodeDescriptor
    BY <1>3 DEF Descriptor, NodeDescriptor, Relations
  <2>3. WalkTypeOK'
    <3>1. out' \in Seq(NodeDescriptor)
      <4>1. CASE Allowed(Root)
        <5> DEFINE d == Descriptor(Root, NoNode, "", FALSE)
        <5>1. out' = <<d>> /\ d \in NodeDescriptor
          BY <1>6, <2>2, <4>1
        <5> HIDE DEF d
        <5>2. QED  BY <5>1
      <4>2. CASE ~Allowed(Root)
        BY <1>6, <4>2
      <4>3. QED  BY <4>1, <4>2
    <3>2. queue' \in Seq(Nodes) /\ visited' \subseteq Nodes
      BY <1>3, <1>6, <2>1
    <3>3. QED  BY <1>1, <1>4, <3>1, <3>2 DEF InHand, WalkTypeOK, Catalogue
  <2>4. Arrived'
    BY <1>1, ArrivedFrame DEF InHand
  <2>5. Due'
    <3>1. Root \in visited' /\ batch' = <<>>
      BY <1>1, <1>2, <1>6
    <3>2. Browseable(Root)' <=> Browseable(Root)
      BY <1>1, SameServer
    <3>3. QED  BY <2>1, <3>1, <3>2 DEF Due
  <2>6. Phased'
    BY <1>1 DEF InHand, Phased, WalkPhases
  <2>7. QED  BY <2>3, <2>4, <2>5, <2>6 DEF InHand
<1>7. QED  BY <1>5, <1>6 DEF BrowseRoot, NoNodeInfo, tree

\* One request: its batch, its answers, its continuation points.
LEMMA InHandBatch == InHand /\ BrowseBatch => InHand'
<1> SUFFICES ASSUME InHand, BrowseBatch PROVE InHand'
  OBVIOUS
<1>1. /\ phase = "walk" /\ phase' = "follow"
      /\ batch' = Taken /\ queue' = Left
      /\ UNCHANGED <<site, limit, visited, out, starved, solo, cursor, readOk, seen, browsed, counters>>
  BY DEF BrowseBatch
<1>2. PICK S \in SUBSET (1..Len(Taken)) :
        SomeFault("parent", S) /\ results' = Refuse(Answers(Taken), S)
  BY DEF BrowseBatch
<1>3. WalkTypeOK /\ site \in DOMAIN Catalogue /\ starved = {}
  BY <1>1 DEF InHand, WalkTypeOK, Phased
<1>4. /\ Taken \in Seq(Nodes) /\ Left \in Seq(Nodes)
      /\ Len(Taken) \in Nat /\ Len(Taken) <= Len(queue)
      /\ \A k \in 1..Len(Taken) : Taken[k] = queue[k]
      /\ \A i \in 1..Len(Left) : i + BatchSize \in DOMAIN queue /\ Left[i] = queue[i + BatchSize]
  <2>1. queue \in Seq(Nodes)
    BY <1>3 DEF WalkTypeOK
  <2>2. QED  BY <1>3, <2>1, BatchTypes
<1>5. \A k \in 1..Len(Taken) : /\ Answer(Taken, k) \in Result
                               /\ Answer(Taken, k).got <= Len(Refs(Taken[k]))
  BY <1>3, <1>4, AnswerTypes
<1>6. Refused \in Result /\ Refused.got = 0
  BY RefusedTypes
<1>7. /\ DOMAIN results' = 1..Len(Taken)
      /\ \A k \in 1..Len(Taken) :
           results'[k] = IF k \in S THEN Refused ELSE Answer(Taken, k)
  BY <1>2, <1>4 DEF Refuse, Answers, Refused
<1>8. /\ results' \in Seq(Result) /\ Len(results') = Len(Taken)
      /\ \A k \in 1..Len(Taken) : results'[k] \in Result /\ results'[k].got <= Len(Refs(Taken[k]))
  <2>1. results' = [k \in 1..Len(Taken) |->
                      IF k \in S THEN Refused ELSE Answer(Taken, k)]
    BY <1>2, <1>4 DEF Refuse, Answers, Refused
  <2>2. \A k \in 1..Len(Taken) : results'[k] \in Result
    BY <1>5, <1>6, <1>7
  <2>3. results' \in [1..Len(Taken) -> Result]
    BY <2>1, <1>5, <1>6
  <2>4. results' \in Seq(Result) /\ Len(results') = Len(Taken)
    BY <1>4, <1>7, <2>3, IsASeq, LenProperties
  <2>5. \A k \in 1..Len(Taken) : Len(Refs(Taken[k])) \in Nat
    BY <1>3, <1>4, RefTypes
  <2>6. \A k \in 1..Len(Taken) : results'[k].got <= Len(Refs(Taken[k]))
    <3>1. SUFFICES ASSUME NEW k \in 1..Len(Taken) PROVE results'[k].got <= Len(Refs(Taken[k]))
      OBVIOUS
    <3>2. CASE k \in S
      <4>1. results'[k] = Refused /\ Len(Refs(Taken[k])) \in Nat
        BY <1>7, <2>5, <3>2
      <4>2. QED  BY <1>6, <4>1
    <3>3. CASE k \notin S
      BY <1>5, <1>7, <3>3
    <3>4. QED  BY <3>2, <3>3
  <2>7. QED  BY <2>2, <2>4, <2>6
<1>9. faults' \subseteq Faults
  BY <1>2, <1>3, FaultTypes DEF WalkTypeOK, Faults
<1>10. WalkTypeOK'
  BY <1>1, <1>3, <1>4, <1>8, <1>9 DEF WalkTypeOK, Catalogue
<1>11. Arrived'
  BY <1>1, <1>7, <1>8, SameServer DEF Arrived, InBatchOf
<1>12. Phased'
  BY <1>1, <1>3 DEF Phased, WalkPhases
<1>13. Due'
  <2>1. \A i \in DOMAIN queue : queue[i] \in visited /\ Browseable(queue[i])
    BY DEF InHand, Due
  <2>2. queue \in Seq(Nodes)
    BY <1>3 DEF WalkTypeOK
  <2>3. \A k \in 1..Len(Taken) : Taken[k] \in visited /\ Browseable(Taken[k])
    BY <1>4, <2>1, <2>2
  <2>4. \A i \in 1..Len(Left) : Left[i] \in visited /\ Browseable(Left[i])
    BY <1>4, <2>1
  <2>5. QED  BY <1>1, <1>4, <2>3, <2>4, SameServer DEF Due
<1>14. QED  BY <1>10, <1>11, <1>12, <1>13 DEF InHand

LEMMA InHandFails == InHand /\ BrowseFails => InHand'
<1> SUFFICES ASSUME InHand, BrowseFails PROVE InHand'
  OBVIOUS
<1>1. /\ phase = "walk" /\ phase' = "walk"
      /\ queue' = Left /\ browsed' = browsed + Len(Taken) /\ Fault("call")
      /\ UNCHANGED <<site, limit, visited, out, batch, results, starved, solo, cursor, readOk, seen, counters>>
  BY DEF BrowseFails, exchange
<1>2. WalkTypeOK /\ site \in DOMAIN Catalogue /\ queue \in Seq(Nodes)
  BY DEF InHand, WalkTypeOK
<1>3. /\ Left \in Seq(Nodes) /\ Len(Taken) \in Nat
      /\ \A i \in 1..Len(Left) : i + BatchSize \in DOMAIN queue /\ Left[i] = queue[i + BatchSize]
  BY <1>2, BatchTypes
<1>4. faults' \subseteq Faults
  BY <1>1, <1>2, FaultTypes DEF WalkTypeOK, Faults
<1>5. WalkTypeOK'
  BY <1>1, <1>2, <1>3, <1>4 DEF WalkTypeOK, Catalogue
<1>6. Arrived'
  BY <1>1, ArrivedFrame DEF InHand
<1>7. Phased'
  BY <1>1 DEF InHand, Phased, WalkPhases
<1>8. Due'
  BY <1>1, <1>3, SameServer DEF InHand, Due
<1>9. QED  BY <1>5, <1>6, <1>7, <1>8 DEF InHand

LEMMA InHandFollow == InHand /\ FollowContinuations => InHand'
<1> SUFFICES ASSUME InHand, FollowContinuations PROVE InHand'
  OBVIOUS
<1>1. /\ phase = "follow" /\ phase' = "follow"
      /\ UNCHANGED <<site, limit, queue, visited, out, batch, starved, solo, cursor, readOk, seen, browsed>>
  BY DEF FollowContinuations, tree
<1>2. PICK S \in SUBSET Pending, field \in {"nextStarved", "nextBad"} :
        /\ SomeFault("next", S)
        /\ results' = [k \in DOMAIN results |->
             IF k \notin Pending THEN results[k]
             ELSE IF k \in S THEN [results[k] EXCEPT !.more = FALSE]
             ELSE NextPage(results[k], batch[k])]
        /\ counters' = Bump(counters, field, Cardinality(S))
  BY DEF FollowContinuations
<1>3. WalkTypeOK /\ site \in DOMAIN Catalogue
  BY DEF InHand, WalkTypeOK
<1>4. /\ results \in Seq(Result) /\ batch \in Seq(Nodes)
      /\ Len(results) \in Nat /\ Len(batch) = Len(results) /\ DOMAIN results = 1..Len(results)
      /\ counters \in [DOMAIN NoCount -> Nat]
  BY <1>3 DEF WalkTypeOK
<1>5. \A k \in DOMAIN results : /\ batch[k] \in Nodes /\ results[k] \in Result
                                /\ results[k].got <= Len(Refs(batch[k]))
  BY <1>4 DEF InHand, Arrived, InBatchOf
<1>6. \A k \in DOMAIN results : /\ [results[k] EXCEPT !.more = FALSE] \in Result
                                /\ [results[k] EXCEPT !.more = FALSE].got = results[k].got
  BY <1>5 DEF Result
<1>7. \A k \in DOMAIN results : /\ NextPage(results[k], batch[k]) \in Result
                                /\ NextPage(results[k], batch[k]).got <= Len(Refs(batch[k]))
  BY <1>3, <1>5, NextPageTypes
<1>8. /\ DOMAIN results' = DOMAIN results
      /\ \A k \in DOMAIN results : results'[k] \in Result /\ results'[k].got <= Len(Refs(batch[k]))
  BY <1>2, <1>5, <1>6, <1>7
<1>9. results' \in Seq(Result) /\ Len(results') = Len(results)
  <2>1. results' \in [1..Len(results) -> Result]
    BY <1>2, <1>4, <1>5, <1>6, <1>7
  <2>2. QED  BY <1>4, <1>8, <2>1, IsASeq, LenProperties
<1>10. counters' \in [DOMAIN NoCount -> Nat]
  <2>1. S \subseteq 1..Len(results)
    BY <1>4 DEF Pending
  <2>2. Cardinality(S) \in Nat
    BY <1>4, <2>1, IndicesCounted
  <2>3. field \in DOMAIN NoCount
    BY CounterNames
  <2>4. QED  BY <1>2, <1>4, <2>2, <2>3, BumpTypes
<1>11. faults' \subseteq Faults
  BY <1>2, <1>3, FaultTypes DEF WalkTypeOK, Faults
<1>12. WalkTypeOK'
  BY <1>1, <1>3, <1>8, <1>9, <1>10, <1>11 DEF WalkTypeOK, Catalogue
<1>13. Arrived'
  BY <1>1, <1>8, SameServer DEF Arrived, InBatchOf
<1>14. Phased'
  BY <1>1 DEF InHand, Phased, WalkPhases
<1>15. Due'
  BY <1>1, DueFrame DEF InHand
<1>16. QED  BY <1>12, <1>13, <1>14, <1>15 DEF InHand

\* The retries, one starved parent after the other.
LEMMA InHandRetries == InHand /\ BeginRetries => InHand'
<1> SUFFICES ASSUME InHand, BeginRetries PROVE InHand'
  OBVIOUS
<1>1. /\ phase = "follow" /\ phase' = "retry"
      /\ starved' = Starved /\ counters' = Bump(counters, "starved", Cardinality(Starved))
      /\ UNCHANGED <<site, limit, queue, visited, out, batch, results, solo, cursor, readOk, seen, browsed, faults>>
  BY DEF BeginRetries, tree
<1>2. WalkTypeOK
  BY DEF InHand
<1>3. Starved \subseteq DOMAIN results /\ DOMAIN results = 1..Len(results) /\ Len(results) \in Nat
  BY <1>2 DEF Starved, WalkTypeOK
<1>4. counters' \in [DOMAIN NoCount -> Nat]
  <2>1. Cardinality(Starved) \in Nat
    BY <1>3, IndicesCounted
  <2>2. QED  BY <1>1, <1>2, <2>1, BumpTypes, CounterNames DEF WalkTypeOK
<1>5. WalkTypeOK'
  BY <1>1, <1>2, <1>3, <1>4 DEF WalkTypeOK, Catalogue
<1>6. Arrived' /\ Due'
  BY <1>1, ArrivedFrame, DueFrame DEF InHand
<1>7. Phased'
  BY <1>1 DEF InHand, Phased, WalkPhases
<1>8. QED  BY <1>5, <1>6, <1>7 DEF InHand

LEMMA InHandSolo == InHand /\ RetrySolo => InHand'
<1> SUFFICES ASSUME InHand, RetrySolo PROVE InHand'
  OBVIOUS
<1>1. /\ phase = "retry" /\ phase' = "solo" /\ starved # {}
      /\ UNCHANGED <<site, limit, queue, visited, out, batch, results, starved, cursor, readOk, seen, browsed, counters>>
  BY DEF RetrySolo, tree
<1>2. WalkTypeOK /\ site \in DOMAIN Catalogue
  BY DEF InHand, WalkTypeOK
<1>3. Asked \in Nodes /\ Len(Refs(Asked)) \in Nat
  BY <1>1, <1>2, PoppedIsStarved, RefTypes
<1>4. solo' \in Result /\ solo'.got <= Len(Refs(Asked))
  <2>1. CASE solo' = Answer(<<Asked>>, 1)
    <3>1. <<Asked>> \in Seq(Nodes) /\ 1 \in 1..Len(<<Asked>>) /\ <<Asked>>[1] = Asked
      BY <1>3
    <3>2. QED  BY <1>2, <2>1, <3>1, AnswerTypes
  <2>2. CASE solo' = [NoResult EXCEPT !.status = "Bad"]
    <3>1. solo' = Refused
      BY <2>2 DEF Refused
    <3>2. QED  BY <1>3, <3>1, RefusedTypes
  <2>3. QED  BY <2>1, <2>2 DEF RetrySolo
<1>5. faults' \subseteq Faults
  BY <1>2, FaultTypes DEF RetrySolo, WalkTypeOK, Faults
<1>6. WalkTypeOK'
  BY <1>1, <1>2, <1>4, <1>5 DEF WalkTypeOK, Catalogue
<1>7. Arrived'
  BY <1>1, <1>4, SameServer, SameAsked DEF InHand, Arrived, InBatchOf
<1>8. Phased' /\ Due'
  BY <1>1, DueFrame DEF InHand, Phased, WalkPhases
<1>9. QED  BY <1>6, <1>7, <1>8 DEF InHand

LEMMA InHandEmpty == InHand /\ RetryEmpty => InHand'
<1> SUFFICES ASSUME InHand, RetryEmpty PROVE InHand'
  OBVIOUS
<1>1. /\ phase = "retry" /\ phase' = "retry"
      /\ starved' = Rest /\ counters' = Bump(counters, "unrecoverable", 1) /\ Fault("solo")
      /\ UNCHANGED <<site, limit, queue, visited, out, batch, results, solo, cursor, readOk, seen, browsed>>
  BY DEF RetryEmpty, tree
<1>2. WalkTypeOK
  BY DEF InHand
<1>3. faults' \subseteq Faults
  BY <1>1, <1>2, FaultTypes DEF WalkTypeOK, Faults
<1>4. counters' \in [DOMAIN NoCount -> Nat]
  BY <1>1, <1>2, BumpTypes, CounterNames DEF WalkTypeOK
<1>5. WalkTypeOK'
  BY <1>1, <1>2, <1>3, <1>4 DEF WalkTypeOK, Catalogue, Rest
<1>6. Arrived' /\ Due'
  BY <1>1, ArrivedFrame, DueFrame DEF InHand
<1>7. Phased'
  BY <1>1 DEF InHand, Phased, WalkPhases
<1>8. QED  BY <1>5, <1>6, <1>7 DEF InHand

LEMMA InHandFollowSolo == InHand /\ FollowSolo => InHand'
<1> SUFFICES ASSUME InHand, FollowSolo PROVE InHand'
  OBVIOUS
<1>1. /\ phase = "solo" /\ phase' = "solo"
      /\ UNCHANGED <<site, limit, queue, visited, out, batch, results, starved, cursor, readOk, seen, browsed>>
  BY DEF FollowSolo, tree
<1>2. WalkTypeOK /\ site \in DOMAIN Catalogue /\ starved # {}
  BY <1>1 DEF InHand, WalkTypeOK, Arrived
<1>3. /\ Asked \in Nodes /\ Len(Refs(Asked)) \in Nat
      /\ solo \in Result /\ solo.got <= Len(Refs(Asked))
  BY <1>1, <1>2, PoppedIsStarved, RefTypes DEF InHand, Arrived, WalkTypeOK
<1>4. solo' \in Result /\ solo'.got <= Len(Refs(Asked))
  <2>1. CASE solo' = NextPage(solo, Asked)
    BY <1>2, <1>3, <2>1, NextPageTypes
  <2>2. CASE solo' = [solo EXCEPT !.more = FALSE]
    BY <1>3, <2>2 DEF Result
  <2>3. QED  BY <2>1, <2>2 DEF FollowSolo
<1>5. faults' \subseteq Faults
  BY <1>2, FaultTypes DEF FollowSolo, WalkTypeOK, Faults
<1>6. counters' \in [DOMAIN NoCount -> Nat]
  <2>1. Counted
    BY CounterNames DEF FollowSolo, Counted
  <2>2. QED  BY <1>2, <2>1, CountedTypes DEF WalkTypeOK
<1>7. WalkTypeOK'
  BY <1>1, <1>2, <1>4, <1>5, <1>6 DEF WalkTypeOK, Catalogue
<1>8. Arrived'
  BY <1>1, <1>2, <1>4, SameServer, SameAsked DEF InHand, Arrived, InBatchOf
<1>9. Phased' /\ Due'
  BY <1>1, DueFrame DEF InHand, Phased, WalkPhases
<1>10. QED  BY <1>7, <1>8, <1>9 DEF InHand

LEMMA InHandSoloEnds == InHand /\ SoloEnds => InHand'
<1> SUFFICES ASSUME InHand, SoloEnds PROVE InHand'
  OBVIOUS
<1>1. /\ phase = "solo" /\ phase' = "retry" /\ starved' = Rest
      /\ UNCHANGED <<site, limit, queue, visited, out, batch, solo, cursor, readOk, seen, browsed, faults>>
  BY DEF SoloEnds, tree
<1>2. WalkTypeOK /\ site \in DOMAIN Catalogue /\ starved # {}
  BY <1>1 DEF InHand, WalkTypeOK, Arrived
<1>3. Popped \in DOMAIN results /\ solo \in Result /\ solo.got <= Len(Refs(Asked))
  BY <1>1, <1>2, PoppedIsStarved DEF InHand, Arrived, WalkTypeOK
<1>4. results' = results \/ results' = [results EXCEPT ![Popped] = solo]
  BY DEF SoloEnds
<1>5. results' \in Seq(Result) /\ Len(results') = Len(results) /\ DOMAIN results' = DOMAIN results
  <2>1. results \in Seq(Result) /\ Popped \in 1..Len(results)
    BY <1>2, <1>3 DEF WalkTypeOK
  <2>2. QED  BY <1>3, <1>4, <2>1, ExceptSeq
<1>6. counters' \in [DOMAIN NoCount -> Nat]
  <2>1. Counted
    BY CounterNames DEF SoloEnds, Counted
  <2>2. QED  BY <1>2, <2>1, CountedTypes DEF WalkTypeOK
<1>7. WalkTypeOK'
  BY <1>1, <1>2, <1>5, <1>6 DEF WalkTypeOK, Catalogue, Rest
<1>8. Arrived'
  <2>1. \A k \in DOMAIN results : results'[k] = results[k] \/ (k = Popped /\ results'[k] = solo)
    BY <1>4
  <2>2. \A k \in DOMAIN results : results'[k].got <= Len(Refs(batch[k]))
    BY <1>3, <2>1 DEF InHand, Arrived, InBatchOf, Asked
  <2>3. QED  BY <1>1, <1>5, <2>2, SameServer DEF Arrived, InBatchOf
<1>9. Phased' /\ Due'
  BY <1>1, DueFrame DEF InHand, Phased, WalkPhases
<1>10. QED  BY <1>7, <1>8, <1>9 DEF InHand

LEMMA InHandRead == InHand /\ ReadMetadata => InHand'
<1> SUFFICES ASSUME InHand, ReadMetadata PROVE InHand'
  OBVIOUS
<1>1. /\ phase = "retry" /\ phase' = "emit" /\ starved = {} /\ cursor' = <<1, 1>>
      /\ readOk' \in BOOLEAN
      /\ UNCHANGED <<site, limit, queue, visited, out, batch, results, starved, solo, seen, browsed, counters>>
  BY DEF ReadMetadata, tree
<1>2. WalkTypeOK
  BY DEF InHand
<1>3. faults' \subseteq Faults
  BY <1>2, FaultTypes DEF ReadMetadata, WalkTypeOK, Faults
<1>4. WalkTypeOK'
  BY <1>1, <1>2, <1>3 DEF WalkTypeOK, Catalogue
<1>5. Arrived' /\ Due'
  BY <1>1, ArrivedFrame, DueFrame DEF InHand
<1>6. Phased'
  BY <1>1 DEF InHand, Phased, WalkPhases
<1>7. QED  BY <1>4, <1>5, <1>6 DEF InHand

--------------------------------------------------------------------------
(* The loop over the children.                                             *)

\* The reference the loop is at is one that has arrived.
LEMMA ChildTypes ==
    ASSUME InHand, InBatch, cursor[2] <= Here.got
    PROVE  /\ batch[cursor[1]] \in Nodes
           /\ cursor[2] \in 1..Len(Refs(batch[cursor[1]]))
           /\ ChildRef \in [to : Nodes, rel : Relations]
<1>1. /\ results \in Seq(Result) /\ batch \in Seq(Nodes) /\ Len(results) = Len(batch)
      /\ cursor[1] \in Nat \ {0} /\ cursor[2] \in Nat \ {0} /\ site \in DOMAIN Catalogue
  BY DEF InHand, WalkTypeOK
<1>2. cursor[1] \in DOMAIN results /\ cursor[1] \in 1..Len(batch)
  BY <1>1 DEF InBatch
<1>3. batch[cursor[1]] \in Nodes
  BY <1>1, <1>2
<1>4. Here.got <= Len(Refs(batch[cursor[1]])) /\ Here.got \in Nat
  <2>1. Here \in Result
    BY <1>1, <1>2 DEF Here
  <2>2. Here.got <= Len(Refs(batch[cursor[1]]))
    BY <1>2 DEF InHand, Arrived, InBatchOf, Here
  <2>3. QED  BY <2>1, <2>2 DEF Result
<1>5. Len(Refs(batch[cursor[1]])) \in Nat
  BY <1>1, <1>3, RefTypes
<1>6. cursor[2] \in 1..Len(Refs(batch[cursor[1]]))
  BY <1>1, <1>4, <1>5
<1>7. QED  BY <1>1, <1>3, <1>6, RefTypes DEF ChildRef

LEMMA InHandSkips == InHand /\ (SkipParent \/ NextParent) => InHand'
<1> SUFFICES ASSUME InHand, SkipParent \/ NextParent PROVE InHand'
  OBVIOUS
<1>1. /\ phase = "emit" /\ phase' = "emit" /\ cursor' = <<cursor[1] + 1, 1>>
      /\ UNCHANGED <<site, limit, queue, visited, out, batch, results, starved, solo, readOk, seen, browsed, faults>>
  BY DEF SkipParent, NextParent, tree
<1>2. WalkTypeOK
  BY DEF InHand
<1>3. counters' \in [DOMAIN NoCount -> Nat]
  <2>1. Counted
    BY CounterNames DEF SkipParent, NextParent, Counted
  <2>2. QED  BY <1>2, <2>1, CountedTypes DEF WalkTypeOK
<1>4. cursor' \in (Nat \ {0}) \X (Nat \ {0})
  BY <1>1, <1>2 DEF WalkTypeOK
<1>5. WalkTypeOK'
  BY <1>1, <1>2, <1>3, <1>4 DEF WalkTypeOK, Catalogue
<1>6. Arrived' /\ Due'
  BY <1>1, ArrivedFrame, DueFrame DEF InHand
<1>7. Phased'
  BY <1>1 DEF InHand, Phased, WalkPhases
<1>8. QED  BY <1>5, <1>6, <1>7 DEF InHand

LEMMA InHandVisit == InHand /\ VisitChild => InHand'
<1> SUFFICES ASSUME InHand, VisitChild PROVE InHand'
  OBVIOUS
<1>1. /\ phase = "emit" /\ phase' = "emit" /\ cursor' = <<cursor[1], cursor[2] + 1>>
      /\ seen' = seen + 1 /\ InBatch /\ cursor[2] <= Here.got
      /\ UNCHANGED <<site, limit, batch, results, starved, solo, readOk, browsed, counters, faults>>
  BY DEF VisitChild
<1>2. WalkTypeOK /\ queue \in Seq(Nodes) /\ out \in Seq(NodeDescriptor)
  BY DEF InHand, WalkTypeOK
<1>3. batch[cursor[1]] \in Nodes /\ ChildRef \in [to : Nodes, rel : Relations]
  BY <1>1, ChildTypes
<1>4. cursor' \in (Nat \ {0}) \X (Nat \ {0})
  BY <1>1, <1>2 DEF WalkTypeOK
<1>5. Arrived'
  BY <1>1, ArrivedFrame DEF InHand
<1>6. Phased'
  BY <1>1 DEF InHand, Phased, WalkPhases
<1>7. CASE UNCHANGED <<queue, visited, out>>
  <2>1. WalkTypeOK'
    BY <1>1, <1>2, <1>4, <1>7 DEF WalkTypeOK, Catalogue
  <2>2. Due'
    BY <1>1, <1>7, DueFrame DEF InHand
  <2>3. QED  BY <1>5, <1>6, <2>1, <2>2 DEF InHand
<1>8. CASE Visit(ChildRef, batch[cursor[1]])
  <2> DEFINE n == ChildRef.to
             d == Descriptor(n, batch[cursor[1]], ChildRef.rel, readOk /\ world.class[n] = "Variable")
  <2>1. /\ n \in Nodes /\ ChildRef.rel \in Relations
        /\ visited' = visited \cup {n} /\ queue' = Enqueued(n)
        /\ out' = IF Allowed(n) THEN Append(out, d) ELSE out
    BY <1>3, <1>8 DEF Visit
  <2>2. d \in NodeDescriptor
    BY <1>2, <1>3, <2>1 DEF Descriptor, NodeDescriptor, WalkTypeOK
  <2> HIDE DEF n, d
  <2>3. out' \in Seq(NodeDescriptor)
    BY <1>2, <2>1, <2>2, AppendProperties
  <2>4. /\ queue' \in Seq(Nodes)
        /\ \A i \in DOMAIN queue' : \/ i \in DOMAIN queue /\ queue'[i] = queue[i]
                                    \/ queue'[i] = n /\ Browseable(n)
    <3>1. CASE Browseable(n)
      <4>1. queue' = Append(queue, n)
        BY <2>1, <3>1 DEF Enqueued
      <4>2. QED  BY <1>2, <2>1, <3>1, <4>1, AppendProperties
    <3>2. CASE ~Browseable(n)
      BY <1>2, <2>1, <3>2 DEF Enqueued
    <3>3. QED  BY <3>1, <3>2
  <2>5. WalkTypeOK'
    BY <1>1, <1>2, <1>4, <2>1, <2>3, <2>4 DEF WalkTypeOK, Catalogue
  <2>6. Due'
    BY <1>1, <2>1, <2>4, SameServer DEF InHand, Due
  <2>7. QED  BY <1>5, <1>6, <2>5, <2>6 DEF InHand
<1>9. QED  BY <1>7, <1>8 DEF VisitChild, tree

LEMMA InHandEndBatch == InHand /\ EndBatch => InHand'
<1> SUFFICES ASSUME InHand, EndBatch PROVE InHand'
  OBVIOUS
<1>1. /\ phase = "emit" /\ phase' = "walk" /\ cursor' = <<1, 1>> /\ browsed' = browsed + Len(batch)
      /\ batch' = <<>> /\ results' = <<>> /\ solo' = NoResult
      /\ UNCHANGED <<site, limit, queue, visited, out, starved, readOk, seen, counters, faults>>
  BY DEF EndBatch, tree
<1>2. WalkTypeOK /\ starved = {}
  BY <1>1 DEF InHand, Phased
<1>3. NoResult \in Result
  BY DEF NoResult, Result, Statuses
<1>4. WalkTypeOK'
  BY <1>1, <1>2, <1>3 DEF WalkTypeOK, Catalogue
<1>5. Arrived' /\ Phased' /\ Due'
  BY <1>1, <1>2, SameServer DEF InHand, Arrived, Phased, Due, WalkPhases
<1>6. QED  BY <1>4, <1>5 DEF InHand

\* The walk ends, one way or the other.
LEMMA InHandEnds == InHand /\ (EndWalk \/ WalkAborts) => InHand'
<1> SUFFICES ASSUME InHand, EndWalk \/ WalkAborts PROVE InHand'
  OBVIOUS
<1>1. /\ UNCHANGED <<site, limit, queue, visited, out, batch, results, starved, solo, cursor, readOk,
                     seen, browsed, counters>>
      /\ \/ phase = "walk" /\ queue = <<>> /\ phase' = "walked"
         \/ phase \in {"root", "follow", "retry", "solo"} /\ phase' = "failed"
  BY DEF EndWalk, WalkAborts, tree, exchange
<1>2. WalkTypeOK
  BY DEF InHand
<1>3. faults' \subseteq Faults
  BY <1>2, FaultTypes DEF EndWalk, WalkAborts, WalkTypeOK, Faults
<1>4. WalkTypeOK'
  BY <1>1, <1>2, <1>3 DEF WalkTypeOK, Catalogue
<1>5. Arrived' /\ Due'
  BY <1>1, ArrivedFrame, DueFrame DEF InHand
<1>6. Phased'
  BY <1>1 DEF InHand, Phased, WalkPhases
<1>7. QED  BY <1>4, <1>5, <1>6 DEF InHand

LEMMA InHandStep == InHand /\ Walk => InHand'
BY InHandLimits, InHandRoot, InHandBatch, InHandFails, InHandFollow, InHandRetries, InHandSolo,
   InHandEmpty, InHandFollowSolo, InHandSoloEnds, InHandRead, InHandSkips, InHandVisit,
   InHandEndBatch, InHandEnds DEF Walk, BrowseChildren

\* What comes after the walk, and a step that changes nothing.
Afterwards ==
  /\ UNCHANGED <<site, limit, tree, exchange, seen, browsed, counters>>
  /\ faults \subseteq faults' /\ faults' \subseteq Faults
  /\ phase \notin WalkPhases \cup {"failed"} /\ phase' \notin WalkPhases \cup {"failed"}

LEMMA InHandAfterwards == InHand /\ (Afterwards \/ UNCHANGED walkVars) => InHand'
<1> SUFFICES ASSUME InHand, Afterwards \/ UNCHANGED walkVars PROVE InHand'
  OBVIOUS
<1>1. /\ UNCHANGED <<site, limit, queue, visited, out, batch, results, starved, solo, cursor, readOk,
                     seen, browsed, counters>>
      /\ faults' \subseteq Faults
      /\ phase' = phase \/ (phase \notin WalkPhases \cup {"failed"} /\ phase' \notin WalkPhases \cup {"failed"})
  BY DEF Afterwards, walkVars, tree, exchange, InHand, WalkTypeOK
<1>2. WalkTypeOK'
  BY <1>1 DEF InHand, WalkTypeOK, Catalogue
<1>3. Arrived' /\ Due'
  BY <1>1, DueFrame, SameServer, SameAsked DEF InHand, Arrived, InBatchOf, WalkPhases
<1>4. Phased'
  BY <1>1 DEF InHand, Phased, WalkPhases
<1>5. QED  BY <1>2, <1>3, <1>4 DEF InHand

--------------------------------------------------------------------------
(* The walk implements Exploration.                                        *)

\* A reference of a node that may be browsed is an edge.
LEMMA ReferenceIsEdge ==
    ASSUME site \in DOMAIN Catalogue, NEW p \in Nodes, Browseable(p), NEW i \in 1..Len(Refs(p))
    PROVE  EdgeOf(site, p, Refs(p)[i].to)
<1>1. DOMAIN Refs(p) = 1..Len(Refs(p))
  BY RefTypes, LenProperties
<1>2. QED  BY <1>1 DEF EdgeOf, Browseable, Refs, world

\* A step of the walk that finds a node finds the root or the end of an edge.
LEMMA WalkFinds ==
    ASSUME InHand, Walk
    PROVE  Explored!Next \/ UNCHANGED <<visited, site>>
<1>1. UNCHANGED site
  BY DEF Walk, BrowseChildren, DiscoverMaxParents, BrowseRoot, BrowseBatch, BrowseFails,
         FollowContinuations, BeginRetries, RetrySolo, RetryEmpty, FollowSolo, SoloEnds, ReadMetadata,
         SkipParent, NextParent, VisitChild, EndBatch, EndWalk, WalkAborts
<1>2. CASE BrowseRoot
  <2>1. Root \in Nodes /\ visited = {}
    BY <1>2, WalkAssumption DEF InHand, Phased, BrowseRoot
  <2>2. visited' = visited \/ visited' = visited \cup {Root}
    BY <1>2, <2>1 DEF BrowseRoot, NoNodeInfo, tree
  <2>3. QED  BY <1>1, <2>1, <2>2 DEF Explored!Next, Explored!Find
<1>3. CASE VisitChild
  <2> DEFINE p == batch[cursor[1]]
             n == ChildRef.to
  <2>1. InBatch /\ cursor[2] <= Here.got
    BY <1>3 DEF VisitChild
  <2>2. /\ p \in Nodes /\ n \in Nodes
        /\ cursor[2] \in 1..Len(Refs(p)) /\ n = Refs(p)[cursor[2]].to
    BY <2>1, ChildTypes DEF ChildRef
  <2>3. p \in visited /\ Browseable(p)
    BY <2>1 DEF InHand, Due, InBatch, WalkTypeOK
  <2>4. EdgeOf(site, p, n)
    BY <2>2, <2>3, ReferenceIsEdge DEF InHand, WalkTypeOK
  <2>5. CASE n \in visited
    BY <1>1, <1>3, <2>5 DEF VisitChild, tree
  <2>6. CASE n \notin visited
    <3>1. visited' = visited \cup {n}
      BY <1>3, <2>6 DEF VisitChild, Visit
    <3>2. QED  BY <1>1, <2>2, <2>3, <2>4, <2>6, <3>1 DEF Explored!Next, Explored!Find
  <2>7. QED  BY <2>5, <2>6
<1>4. CASE ~BrowseRoot /\ ~VisitChild
  <2>1. UNCHANGED visited
    BY <1>4 DEF Walk, BrowseChildren, DiscoverMaxParents, BrowseBatch, BrowseFails,
         FollowContinuations, BeginRetries, RetrySolo, RetryEmpty, FollowSolo, SoloEnds, ReadMetadata,
         SkipParent, NextParent, EndBatch, EndWalk, WalkAborts, tree
  <2>2. QED  BY <1>1, <2>1
<1>5. QED  BY <1>2, <1>3, <1>4

--------------------------------------------------------------------------
(* Nothing is missing without a counter that says so.                      *)

Lost == counters.nextStarved + counters.nextBad + counters.parentBad > 0

\* A good result has the references that have arrived still to be followed, or all.
Whole(r, p) == r.status = "Good" => r.more \/ r.got = Len(Refs(p))

PagesKept ==
  Lost \/ /\ \A k \in DOMAIN results : Whole(results[k], batch[k])
          /\ phase = "solo" => Whole(solo, Asked)

AllFollowed == phase \in {"retry", "solo", "emit"} => \A k \in DOMAIN results : ~results[k].more

\* The children before the one the loop is at were visited.
PrefixVisited ==
  phase = "emit" /\ InBatch =>
    \A i \in 1..Len(Refs(batch[cursor[1]])) :
      i < cursor[2] => Refs(batch[cursor[1]])[i].to \in visited

Settled(p) == \A c \in Nodes : Edge(p, c) => c \in visited

Waiting(p) ==
  \/ \E i \in DOMAIN queue : queue[i] = p
  \/ \E k \in DOMAIN batch : batch[k] = p /\ (phase = "emit" => cursor[1] <= k)

NoneForgotten ==
  faults \cap {"root", "call"} = {} => Lost \/ \A p \in visited : Settled(p) \/ Waiting(p)

Accounted == PagesKept /\ AllFollowed /\ PrefixVisited /\ NoneForgotten

\* The loss counters never go down.
LEMMA LostStays ==
    ASSUME counters \in [DOMAIN NoCount -> Nat], Lost,
           \/ counters' = counters
           \/ \E field \in DOMAIN NoCount, n \in Nat : counters' = Bump(counters, field, n)
    PROVE  Lost'
<1>1. /\ counters.nextStarved \in Nat /\ counters.nextBad \in Nat /\ counters.parentBad \in Nat
      /\ counters'.nextStarved \in Nat /\ counters'.nextBad \in Nat /\ counters'.parentBad \in Nat
      /\ counters'.nextStarved >= counters.nextStarved
      /\ counters'.nextBad >= counters.nextBad
      /\ counters'.parentBad >= counters.parentBad
  <2>1. \A f \in DOMAIN NoCount :
          counters[f] \in Nat /\ counters'[f] \in Nat /\ counters'[f] >= counters[f]
    <3>1. CASE counters' = counters
      BY <3>1
    <3>2. CASE \E field \in DOMAIN NoCount, n \in Nat : counters' = Bump(counters, field, n)
      <4>1. PICK field \in DOMAIN NoCount, n \in Nat : counters' = Bump(counters, field, n)
        BY <3>2
      <4>2. /\ Bump(counters, field, n) \in [DOMAIN NoCount -> Nat]
            /\ \A f \in DOMAIN NoCount :
                 Bump(counters, field, n)[f] = IF f = field THEN counters[f] + n ELSE counters[f]
        BY <4>1, BumpTypes
      <4> SUFFICES ASSUME NEW f \in DOMAIN NoCount
                   PROVE  counters[f] \in Nat /\ counters'[f] \in Nat /\ counters'[f] >= counters[f]
        OBVIOUS
      <4>3. counters[f] \in Nat
        OBVIOUS
      <4>4. counters'[f] = counters[f] + n \/ counters'[f] = counters[f]
        BY <4>1, <4>2
      <4>5. QED  BY <4>3, <4>4
    <3>3. QED  BY <3>1, <3>2
  <2>2. {"nextStarved", "nextBad", "parentBad"} \subseteq DOMAIN NoCount
    BY CounterNames
  <2>3. QED  BY <2>1, <2>2
<1>2. QED  BY <1>1 DEF Lost

\* ... and go up when something is lost.
LEMMA LostCounted ==
    ASSUME counters \in [DOMAIN NoCount -> Nat],
           NEW field \in {"nextStarved", "nextBad", "parentBad"}, NEW n \in Nat, n > 0,
           counters' = Bump(counters, field, n)
    PROVE  Lost'
<1>1. /\ counters'.nextStarved \in Nat /\ counters'.nextBad \in Nat /\ counters'.parentBad \in Nat
      /\ counters'[field] > 0
  <2>1. {"nextStarved", "nextBad", "parentBad"} \subseteq DOMAIN NoCount
    BY CounterNames
  <2>2. field \in DOMAIN NoCount
    BY <2>1
  <2>3. /\ Bump(counters, field, n) \in [DOMAIN NoCount -> Nat]
        /\ Bump(counters, field, n)[field] = counters[field] + n
    BY <2>2, BumpTypes
  <2>4. counters' \in [DOMAIN NoCount -> Nat] /\ counters[field] \in Nat
    BY <2>2, <2>3
  <2>5. QED  BY <2>1, <2>3, <2>4
<1>2. QED  BY <1>1 DEF Lost

\* What was settled stays settled.
LEMMA SettledStays ==
    ASSUME UNCHANGED site, visited \subseteq visited', NEW p, Settled(p)
    PROVE  Settled(p)'
BY DEF Settled, Edge

\* A node whose references were all visited is settled.
LEMMA AllVisited ==
    ASSUME site \in DOMAIN Catalogue, NEW p \in Nodes,
           \A i \in 1..Len(Refs(p)) : Refs(p)[i].to \in visited
    PROVE  Settled(p)
<1>1. DOMAIN Refs(p) = 1..Len(Refs(p))
  BY RefTypes, LenProperties
<1>2. QED  BY <1>1 DEF Settled, Edge, EdgeOf, Refs, world

\* Steps that touch neither the nodes nor the results.
LEMMA AccountedFrame ==
    ASSUME Accounted, UNCHANGED <<site, queue, visited, batch, results, cursor>>,
           faults \subseteq faults', Lost => Lost',
           phase' = "solo" => phase = "solo" /\ UNCHANGED <<solo, starved>>,
           phase' \in {"retry", "solo", "emit"} => phase \in {"retry", "solo", "emit"},
           phase' = "emit" <=> phase = "emit"
    PROVE  Accounted'
<1>1. PagesKept'
  BY SameServer, SameAsked DEF Accounted, PagesKept, Whole
<1>2. AllFollowed' /\ PrefixVisited'
  BY SameServer DEF Accounted, AllFollowed, PrefixVisited, InBatch
<1>3. NoneForgotten'
  <2>1. \A p \in visited : (Settled(p) => Settled(p)') /\ (Waiting(p) => Waiting(p)')
    BY SettledStays DEF Waiting
  <2>2. QED  BY <2>1 DEF Accounted, NoneForgotten
<1>4. QED  BY <1>1, <1>2, <1>3 DEF Accounted

LEMMA AccountedInit == WalkInit => Accounted
BY DEF WalkInit, Accounted, PagesKept, AllFollowed, PrefixVisited, NoneForgotten

\* Faults are never forgotten.
LEMMA FaultsGrow ==
    /\ \A kind : Fault(kind) => faults \subseteq faults' /\ kind \in faults'
    /\ \A kind, S : SomeFault(kind, S) => faults \subseteq faults'
BY DEF Fault, SomeFault, Faulty

LEMMA AccountedRoot == InHand /\ Accounted /\ BrowseRoot => Accounted'
<1> SUFFICES ASSUME InHand, Accounted, BrowseRoot PROVE Accounted'
  OBVIOUS
<1>1. /\ phase = "root" /\ phase' = "walk"
      /\ UNCHANGED <<site, batch, results, counters>>
      /\ queue = <<>> /\ batch = <<>> /\ results = <<>>
  <2>1. phase = "root" /\ batch = <<>> /\ queue = <<>> /\ results \in Seq(Result) /\ Len(results) = Len(batch)
    BY DEF BrowseRoot, InHand, Phased, WalkTypeOK
  <2>2. results = <<>>
    BY <2>1, EmptySeq
  <2>3. QED  BY <2>1, <2>2 DEF BrowseRoot, exchange
<1>2. PagesKept' /\ AllFollowed' /\ PrefixVisited'
  BY <1>1 DEF PagesKept, AllFollowed, PrefixVisited
<1>3. NoneForgotten'
  <2>1. CASE NoNodeInfo
    BY <2>1, FaultsGrow DEF NoNodeInfo, NoneForgotten
  <2>2. CASE visited' = {Root} /\ queue' = Enqueued(Root)
    <3>1. CASE Browseable(Root)
      <4>1. queue' = Append(queue, Root)
        BY <2>2, <3>1 DEF Enqueued
      <4>2. queue' = <<Root>>
        BY <1>1, <4>1
      <4>3. 1 \in DOMAIN queue' /\ queue'[1] = Root
        BY <4>2
      <4>4. QED  BY <2>2, <4>3 DEF NoneForgotten, Waiting
    <3>2. CASE ~Browseable(Root)
      <4>1. \A c \in Nodes : ~Edge(Root, c)'
        BY <1>1, <3>2 DEF Edge, EdgeOf, Browseable, world
      <4>2. QED  BY <2>2, <4>1 DEF NoneForgotten, Settled
    <3>3. QED  BY <3>1, <3>2
  <2>3. QED  BY <2>1, <2>2 DEF BrowseRoot
<1>4. QED  BY <1>2, <1>3 DEF Accounted

\* Every answer to a batch is whole.
LEMMA BatchAnswers ==
    ASSUME InHand, BrowseBatch
    PROVE  /\ DOMAIN results' = 1..Len(Taken) /\ batch' = Taken
           /\ \A k \in 1..Len(Taken) :
                results'[k] = Refused \/ results'[k] = Answer(Taken, k)
           /\ \A k \in DOMAIN results' : Whole(results[k], batch[k])'
<1>1. PICK S \in SUBSET (1..Len(Taken)) : results' = Refuse(Answers(Taken), S)
  BY DEF BrowseBatch
<1>2. batch' = Taken /\ UNCHANGED site
  BY DEF BrowseBatch
<1>3. Taken \in Seq(Nodes) /\ Len(Taken) \in Nat /\ site \in DOMAIN Catalogue
  BY BatchTypes DEF InHand, WalkTypeOK
<1>4. /\ DOMAIN results' = 1..Len(Taken)
      /\ \A k \in 1..Len(Taken) : results'[k] = Refused \/ results'[k] = Answer(Taken, k)
  BY <1>1, <1>3 DEF Refuse, Answers, Refused
<1>5. ASSUME NEW k \in 1..Len(Taken) PROVE Whole(results[k], batch[k])'
  <2>1. CASE results'[k] = Refused
    BY <2>1, RefusedTypes DEF Whole
  <2>2. CASE results'[k] = Answer(Taken, k)
    BY <1>2, <1>3, <2>2, AnswerTypes, SameServer DEF Whole
  <2>3. QED  BY <1>4, <2>1, <2>2
<1>6. QED  BY <1>2, <1>4, <1>5

LEMMA AccountedBatch == InHand /\ Accounted /\ BrowseBatch => Accounted'
<1> SUFFICES ASSUME InHand, Accounted, BrowseBatch PROVE Accounted'
  OBVIOUS
<1>1. /\ phase = "walk" /\ phase' = "follow" /\ batch = <<>>
      /\ batch' = Taken /\ queue' = Left
      /\ faults \subseteq faults'
      /\ UNCHANGED <<site, visited, counters>>
  BY FaultsGrow DEF BrowseBatch, InHand, Phased
<1>2. PagesKept' /\ AllFollowed' /\ PrefixVisited'
  BY <1>1, BatchAnswers DEF PagesKept, AllFollowed, PrefixVisited
<1>3. ASSUME NEW p \in visited, Waiting(p) PROVE Waiting(p)'
  <2>1. PICK i \in DOMAIN queue : queue[i] = p
    BY <1>1, <1>3 DEF Waiting
  <2>2. queue \in Seq(Nodes) /\ i \in 1..Len(queue) /\ Len(queue) \in Nat
    BY DEF InHand, WalkTypeOK
  <2>3. CASE i <= BatchSize
    <3>1. i \in 1..Len(Taken) /\ Taken[i] = p
      BY <2>1, <2>2, <2>3, BatchTypes DEF InHand
    <3>2. i \in DOMAIN Taken
      BY <3>1, BatchTypes DEF InHand
    <3>3. QED  BY <1>1, <3>1, <3>2 DEF Waiting
  <2>4. CASE ~(i <= BatchSize)
    <3>1. i - BatchSize \in 1..Len(Left) /\ Left[i - BatchSize] = p
      BY <2>1, <2>2, <2>4, BatchTypes DEF InHand
    <3>2. i - BatchSize \in DOMAIN Left
      BY <3>1, BatchTypes DEF InHand
    <3>3. QED  BY <1>1, <3>1, <3>2 DEF Waiting
  <2>5. QED  BY <2>3, <2>4
<1>4. NoneForgotten'
  <2>1. \A p \in visited : Settled(p) => Settled(p)'
    BY <1>1, SettledStays
  <2>2. Lost => Lost'
    BY <1>1 DEF Lost
  <2>3. QED  BY <1>1, <1>3, <2>1, <2>2 DEF Accounted, NoneForgotten
<1>5. QED  BY <1>2, <1>4 DEF Accounted

LEMMA AccountedFails == InHand /\ Accounted /\ BrowseFails => Accounted'
<1> SUFFICES ASSUME InHand, Accounted, BrowseFails PROVE Accounted'
  OBVIOUS
<1>1. /\ phase = "walk" /\ phase' = "walk" /\ "call" \in faults'
      /\ UNCHANGED <<site, batch, results, counters>>
  BY FaultsGrow DEF BrowseFails, exchange
<1>2. PagesKept'
  BY <1>1, SameServer DEF Accounted, PagesKept, Whole, Lost
<1>3. QED  BY <1>1, <1>2 DEF Accounted, AllFollowed, PrefixVisited, NoneForgotten

LEMMA AccountedFollow == InHand /\ Accounted /\ FollowContinuations => Accounted'
<1> SUFFICES ASSUME InHand, Accounted, FollowContinuations PROVE Accounted'
  OBVIOUS
<1>1. /\ phase = "follow" /\ phase' = "follow" /\ faults \subseteq faults'
      /\ UNCHANGED <<site, queue, visited, batch>>
  BY FaultsGrow DEF FollowContinuations, tree
<1>2. PICK S \in SUBSET Pending, field \in {"nextStarved", "nextBad"} :
        /\ results' = [k \in DOMAIN results |->
             IF k \notin Pending THEN results[k]
             ELSE IF k \in S THEN [results[k] EXCEPT !.more = FALSE]
             ELSE NextPage(results[k], batch[k])]
        /\ counters' = Bump(counters, field, Cardinality(S))
  BY DEF FollowContinuations
<1>3. /\ site \in DOMAIN Catalogue /\ counters \in [DOMAIN NoCount -> Nat]
      /\ Len(results) \in Nat /\ DOMAIN results = 1..Len(results)
      /\ \A k \in DOMAIN results : batch[k] \in Nodes /\ results[k] \in Result
                                   /\ results[k].got <= Len(Refs(batch[k]))
  BY DEF InHand, WalkTypeOK, Arrived, InBatchOf
<1>4. /\ Cardinality(S) \in Nat /\ field \in DOMAIN NoCount
      /\ S # {} => Cardinality(S) > 0
  BY <1>3, IndicesCounted, CounterNames DEF Pending
<1>5. Lost => Lost'
  BY <1>2, <1>3, <1>4, LostStays
<1>6. PagesKept'
  <2>1. CASE S # {}
    BY <1>2, <1>3, <1>4, <2>1, LostCounted DEF PagesKept
  <2>2. CASE S = {} /\ ~Lost
    <3>1. ASSUME NEW k \in DOMAIN results PROVE Whole(results[k], batch[k])'
      <4>1. CASE k \notin Pending
        <5>1. results'[k] = results[k] /\ Whole(results[k], batch[k])
          BY <1>2, <2>2, <4>1 DEF Accounted, PagesKept
        <5>2. QED  BY <1>1, <5>1, SameServer DEF Whole
      <4>2. CASE k \in Pending
        <5>1. results'[k] = NextPage(results[k], batch[k])
          BY <1>2, <2>2, <4>2
        <5>2. QED  BY <1>1, <1>3, <5>1, NextPageTypes, SameServer DEF Whole
      <4>3. QED  BY <4>1, <4>2
    <3>2. DOMAIN results' = DOMAIN results
      BY <1>2
    <3>3. QED  BY <1>1, <3>1, <3>2 DEF PagesKept
  <2>3. CASE Lost
    BY <1>5, <2>3 DEF PagesKept
  <2>4. QED  BY <2>1, <2>2, <2>3
<1>7. NoneForgotten'
  <2>1. \A p \in visited : (Settled(p) => Settled(p)') /\ (Waiting(p) => Waiting(p)')
    BY <1>1, SettledStays DEF Waiting
  <2>2. QED  BY <1>1, <1>5, <2>1 DEF Accounted, NoneForgotten
<1>8. QED  BY <1>1, <1>6, <1>7 DEF Accounted, AllFollowed, PrefixVisited

LEMMA AccountedRetries == InHand /\ Accounted /\ BeginRetries => Accounted'
<1> SUFFICES ASSUME InHand, Accounted, BeginRetries PROVE Accounted'
  OBVIOUS
<1>1. /\ phase = "follow" /\ phase' = "retry" /\ Pending = {}
      /\ counters' = Bump(counters, "starved", Cardinality(Starved))
      /\ UNCHANGED <<site, queue, visited, batch, results, faults>>
  BY DEF BeginRetries, tree
<1>2. Lost => Lost'
  <2>1. /\ counters \in [DOMAIN NoCount -> Nat]
        /\ Starved \subseteq 1..Len(results) /\ Len(results) \in Nat
    BY DEF InHand, WalkTypeOK, Starved
  <2>2. Cardinality(Starved) \in Nat /\ "starved" \in DOMAIN NoCount
    BY <2>1, IndicesCounted, CounterNames
  <2>3. QED  BY <1>1, <2>1, <2>2, LostStays
<1>3. PagesKept' /\ AllFollowed' /\ PrefixVisited'
  BY <1>1, <1>2, SameServer DEF Accounted, PagesKept, AllFollowed, PrefixVisited, Whole, Pending
<1>4. NoneForgotten'
  <2>1. \A p \in visited : (Settled(p) => Settled(p)') /\ (Waiting(p) => Waiting(p)')
    BY <1>1, SettledStays DEF Waiting
  <2>2. QED  BY <1>1, <1>2, <2>1 DEF Accounted, NoneForgotten
<1>5. QED  BY <1>3, <1>4 DEF Accounted

\* A step that only counts, if that.
LEMMA CountedStays ==
    ASSUME InHand, Counted, Lost
    PROVE  Lost'
BY LostStays DEF InHand, WalkTypeOK, Counted

LEMMA AccountedSolo == InHand /\ Accounted /\ RetrySolo => Accounted'
<1> SUFFICES ASSUME InHand, Accounted, RetrySolo PROVE Accounted'
  OBVIOUS
<1>1. /\ phase = "retry" /\ phase' = "solo" /\ starved # {} /\ faults \subseteq faults'
      /\ UNCHANGED <<site, queue, visited, batch, results, starved, counters>>
  BY FaultsGrow DEF RetrySolo, tree
<1>2. Asked \in Nodes /\ site \in DOMAIN Catalogue
  BY <1>1, PoppedIsStarved DEF InHand, WalkTypeOK
<1>3. Whole(solo, Asked)'
  <2>1. CASE solo' = Answer(<<Asked>>, 1)
    <3>1. <<Asked>> \in Seq(Nodes) /\ 1 \in 1..Len(<<Asked>>) /\ <<Asked>>[1] = Asked
      BY <1>2
    <3>2. Whole(Answer(<<Asked>>, 1), Asked)
      BY <1>2, <3>1, AnswerTypes DEF Whole
    <3>3. UNCHANGED Asked /\ Len(Refs(Asked))' = Len(Refs(Asked))
      BY <1>1, SameServer, SameAsked
    <3>4. QED  BY <2>1, <3>2, <3>3 DEF Whole
  <2>2. CASE solo' = [NoResult EXCEPT !.status = "Bad"]
    <3>1. solo' = Refused
      BY <2>2 DEF Refused
    <3>2. QED  BY <3>1, RefusedTypes DEF Whole
  <2>3. QED  BY <2>1, <2>2 DEF RetrySolo
<1>4. PagesKept' /\ AllFollowed' /\ PrefixVisited'
  BY <1>1, <1>3, SameServer DEF Accounted, PagesKept, AllFollowed, PrefixVisited, Whole, Lost
<1>5. NoneForgotten'
  <2>1. \A p \in visited : (Settled(p) => Settled(p)') /\ (Waiting(p) => Waiting(p)')
    BY <1>1, SettledStays DEF Waiting
  <2>2. QED  BY <1>1, <2>1 DEF Accounted, NoneForgotten, Lost
<1>6. QED  BY <1>4, <1>5 DEF Accounted

LEMMA AccountedEmpty == InHand /\ Accounted /\ RetryEmpty => Accounted'
<1> SUFFICES ASSUME InHand, Accounted, RetryEmpty PROVE Accounted'
  OBVIOUS
<1>1. /\ phase = "retry" /\ phase' = "retry" /\ faults \subseteq faults' /\ Counted
      /\ UNCHANGED <<site, queue, visited, batch, results, cursor>>
  BY FaultsGrow, CounterNames DEF RetryEmpty, tree, Counted
<1>2. Lost => Lost'
  BY <1>1, CountedStays
<1>3. QED  BY <1>1, <1>2, AccountedFrame

LEMMA AccountedFollowSolo == InHand /\ Accounted /\ FollowSolo => Accounted'
<1> SUFFICES ASSUME InHand, Accounted, FollowSolo PROVE Accounted'
  OBVIOUS
<1>1. /\ phase = "solo" /\ phase' = "solo" /\ faults \subseteq faults' /\ Counted
      /\ UNCHANGED <<site, queue, visited, batch, results, starved, cursor>>
  BY FaultsGrow, CounterNames DEF FollowSolo, tree, Counted
<1>2. Lost => Lost'
  BY <1>1, CountedStays
<1>3. /\ site \in DOMAIN Catalogue /\ counters \in [DOMAIN NoCount -> Nat] /\ starved # {}
      /\ solo \in Result /\ solo.got <= Len(Refs(Asked)) /\ Asked \in Nodes
  BY <1>1, PoppedIsStarved DEF InHand, WalkTypeOK, Arrived
<1>4. Lost' \/ Whole(solo, Asked)'
  <2>1. CASE solo' = NextPage(solo, Asked)
    BY <1>1, <1>3, <2>1, NextPageTypes, SameServer, SameAsked DEF Whole
  <2>2. CASE \E field \in {"nextStarved", "nextBad"} : counters' = Bump(counters, field, 1)
    BY <1>3, <2>2, LostCounted
  <2>3. QED  BY <2>1, <2>2 DEF FollowSolo
<1>5. PagesKept'
  BY <1>1, <1>2, <1>4, SameServer DEF Accounted, PagesKept, Whole
<1>6. NoneForgotten'
  <2>1. \A p \in visited : (Settled(p) => Settled(p)') /\ (Waiting(p) => Waiting(p)')
    BY <1>1, SettledStays DEF Waiting
  <2>2. QED  BY <1>1, <1>2, <2>1 DEF Accounted, NoneForgotten
<1>7. QED  BY <1>1, <1>5, <1>6 DEF Accounted, AllFollowed, PrefixVisited

LEMMA AccountedSoloEnds == InHand /\ Accounted /\ SoloEnds => Accounted'
<1> SUFFICES ASSUME InHand, Accounted, SoloEnds PROVE Accounted'
  OBVIOUS
<1>1. /\ phase = "solo" /\ phase' = "retry" /\ ~solo.more /\ Counted
      /\ results' = results \/ results' = [results EXCEPT ![Popped] = solo]
      /\ UNCHANGED <<site, queue, visited, batch, faults>>
  BY CounterNames DEF SoloEnds, tree, Counted
<1>2. Lost => Lost'
  BY <1>1, CountedStays
<1>3. /\ DOMAIN results' = DOMAIN results
      /\ \A k \in DOMAIN results : results'[k] = results[k] \/ (k = Popped /\ results'[k] = solo)
  BY <1>1
<1>4. PagesKept' /\ AllFollowed'
  BY <1>1, <1>2, <1>3, SameServer DEF Accounted, PagesKept, AllFollowed, Whole, Asked
<1>5. NoneForgotten'
  <2>1. \A p \in visited : (Settled(p) => Settled(p)') /\ (Waiting(p) => Waiting(p)')
    BY <1>1, SettledStays DEF Waiting
  <2>2. QED  BY <1>1, <1>2, <2>1 DEF Accounted, NoneForgotten
<1>6. QED  BY <1>1, <1>4, <1>5 DEF Accounted, PrefixVisited

LEMMA AccountedRead == InHand /\ Accounted /\ ReadMetadata => Accounted'
<1> SUFFICES ASSUME InHand, Accounted, ReadMetadata PROVE Accounted'
  OBVIOUS
<1>1. /\ phase = "retry" /\ phase' = "emit" /\ faults \subseteq faults' /\ cursor' = <<1, 1>>
      /\ UNCHANGED <<site, queue, visited, batch, results, counters>>
  BY FaultsGrow DEF ReadMetadata, tree
<1>2. PagesKept' /\ AllFollowed'
  BY <1>1, SameServer DEF Accounted, PagesKept, AllFollowed, Whole, Lost
<1>3. PrefixVisited'
  <2>1. cursor'[2] = 1
    BY <1>1
  <2>2. \A i \in Nat \ {0} : ~(i < 1)
    OBVIOUS
  <2>3. QED  BY <2>1, <2>2 DEF PrefixVisited
<1>4. NoneForgotten'
  <2>1. batch \in Seq(Nodes)
    BY DEF InHand, WalkTypeOK
  <2>2. \A k \in DOMAIN batch : 1 <= k
    BY <2>1
  <2>3. \A p \in visited : (Settled(p) => Settled(p)') /\ (Waiting(p) => Waiting(p)')
    BY <1>1, <2>2, SettledStays DEF Waiting
  <2>4. QED  BY <1>1, <2>3 DEF Accounted, NoneForgotten, Lost
<1>5. QED  BY <1>2, <1>3, <1>4 DEF Accounted

LEMMA AccountedSkip == InHand /\ Accounted /\ SkipParent => Accounted'
<1> SUFFICES ASSUME InHand, Accounted, SkipParent PROVE Accounted'
  OBVIOUS
<1>1. /\ phase = "emit" /\ phase' = "emit" /\ cursor' = <<cursor[1] + 1, 1>>
      /\ counters' = Bump(counters, "parentBad", 1)
      /\ UNCHANGED <<batch, results>>
  BY DEF SkipParent
<1>2. Lost'
  BY <1>1, LostCounted DEF InHand, WalkTypeOK
<1>3. PrefixVisited'
  <2>1. cursor'[2] = 1
    BY <1>1
  <2>2. \A i \in Nat \ {0} : ~(i < 1)
    OBVIOUS
  <2>3. QED  BY <2>1, <2>2 DEF PrefixVisited
<1>4. QED  BY <1>1, <1>2, <1>3 DEF Accounted, PagesKept, AllFollowed, NoneForgotten

\* The parent that the loop leaves is settled.
LEMMA AccountedNext == InHand /\ Accounted /\ NextParent => Accounted'
<1> SUFFICES ASSUME InHand, Accounted, NextParent PROVE Accounted'
  OBVIOUS
<1>1. /\ phase = "emit" /\ phase' = "emit" /\ cursor' = <<cursor[1] + 1, 1>>
      /\ InBatch /\ Here.status = "Good" /\ cursor[2] > Here.got
      /\ UNCHANGED <<site, queue, visited, batch, results, counters, faults>>
  BY DEF NextParent, tree
<1>2. /\ site \in DOMAIN Catalogue /\ batch \in Seq(Nodes)
      /\ cursor[1] \in DOMAIN results /\ cursor[1] \in Nat /\ cursor[2] \in Nat
      /\ batch[cursor[1]] \in Nodes
  BY <1>1 DEF InHand, WalkTypeOK, InBatch
<1>3. PagesKept' /\ AllFollowed'
  BY <1>1, SameServer DEF Accounted, PagesKept, AllFollowed, Whole, Lost
<1>4. PrefixVisited'
  <2>1. cursor'[2] = 1
    BY <1>1
  <2>2. \A i \in Nat \ {0} : ~(i < 1)
    OBVIOUS
  <2>3. QED  BY <2>1, <2>2 DEF PrefixVisited
<1>5. Lost \/ Settled(batch[cursor[1]])
  <2>1. SUFFICES ASSUME ~Lost PROVE Settled(batch[cursor[1]])
    OBVIOUS
  <2>2. Here.got = Len(Refs(batch[cursor[1]]))
    BY <1>1, <1>2, <2>1 DEF Accounted, PagesKept, AllFollowed, Whole, Here
  <2>3. Len(Refs(batch[cursor[1]])) \in Nat
    BY <1>2, RefTypes
  <2>4. \A i \in 1..Len(Refs(batch[cursor[1]])) : i < cursor[2]
    BY <1>1, <1>2, <2>2, <2>3
  <2>5. \A i \in 1..Len(Refs(batch[cursor[1]])) : Refs(batch[cursor[1]])[i].to \in visited
    BY <1>1, <2>4 DEF Accounted, PrefixVisited
  <2>6. QED  BY <1>2, <2>5, AllVisited
<1>6. NoneForgotten'
  <2>1. ASSUME NEW p \in visited, Waiting(p) PROVE Waiting(p)' \/ p = batch[cursor[1]]
    <3>1. CASE \E i \in DOMAIN queue : queue[i] = p
      BY <1>1, <3>1 DEF Waiting
    <3>2. CASE \E k \in DOMAIN batch : batch[k] = p /\ cursor[1] <= k
      <4>1. PICK k \in DOMAIN batch : batch[k] = p /\ cursor[1] <= k
        BY <3>2
      <4>2. k \in Nat
        BY <1>2
      <4>3. k = cursor[1] \/ cursor'[1] <= k
        BY <1>1, <1>2, <4>1, <4>2
      <4>4. QED  BY <1>1, <4>1, <4>3 DEF Waiting
    <3>3. QED  BY <1>1, <2>1, <3>1, <3>2 DEF Waiting
  <2>2. \A p \in visited : Settled(p) => Settled(p)'
    BY <1>1, SettledStays
  <2>3. QED  BY <1>1, <1>5, <2>1, <2>2 DEF Accounted, NoneForgotten, Lost
<1>7. QED  BY <1>3, <1>4, <1>6 DEF Accounted

\* The child that the loop is at is visited, and waits if it may have children.
LEMMA AccountedVisit == InHand /\ Accounted /\ VisitChild => Accounted'
<1> SUFFICES ASSUME InHand, Accounted, VisitChild PROVE Accounted'
  OBVIOUS
<1>1. /\ phase = "emit" /\ phase' = "emit" /\ cursor' = <<cursor[1], cursor[2] + 1>>
      /\ InBatch /\ cursor[2] <= Here.got
      /\ UNCHANGED <<site, batch, results, counters, faults>>
  BY DEF VisitChild
<1>0. ChildRef.to \in Nodes
  BY <1>1, ChildTypes
<1> PICK n \in Nodes : n = ChildRef.to
  BY <1>0
<1>2. /\ site \in DOMAIN Catalogue
      /\ queue \in Seq(Nodes)
      /\ cursor[1] \in Nat /\ cursor[2] \in Nat
      /\ n = Refs(batch[cursor[1]])[cursor[2]].to
  BY <1>1 DEF ChildRef, InHand, WalkTypeOK
<1>3. PagesKept' /\ AllFollowed'
  BY <1>1, SameServer DEF Accounted, PagesKept, AllFollowed, Whole, Lost
<1>4. n \in visited' /\ visited \subseteq visited'
  BY DEF VisitChild, Visit, tree
<1>5. PrefixVisited'
  <2>1. ASSUME NEW i \in 1..Len(Refs(batch[cursor[1]])), i < cursor[2] + 1
        PROVE  Refs(batch[cursor[1]])[i].to \in visited'
    <3>1. CASE i = cursor[2]
      BY <1>2, <1>4, <3>1
    <3>2. CASE i # cursor[2]
      <4>1. i \in Int
        BY <1>1, ChildTypes
      <4>2. i < cursor[2]
        BY <1>2, <2>1, <3>2, <4>1
      <4>3. QED  BY <1>1, <1>4, <4>2 DEF Accounted, PrefixVisited
    <3>3. QED  BY <3>1, <3>2
  <2>2. cursor'[1] = cursor[1] /\ cursor'[2] = cursor[2] + 1
    BY <1>1
  <2>3. QED  BY <1>1, <2>1, <2>2, SameServer DEF PrefixVisited
<1>6. ASSUME NEW p \in visited, Waiting(p) PROVE Waiting(p)'
  <2>1. CASE \E k \in DOMAIN batch : batch[k] = p /\ cursor[1] <= k
    BY <1>1, <2>1 DEF Waiting
  <2>2. CASE \E i \in DOMAIN queue : queue[i] = p
    <3>1. PICK i \in DOMAIN queue : queue[i] = p
      BY <2>2
    <3>2. queue' = queue \/ queue' = Append(queue, n)
      BY DEF VisitChild, Visit, Enqueued, tree
    <3>3. i \in DOMAIN queue' /\ queue'[i] = p
      <4>1. CASE queue' = Append(queue, n)
        <5>1. Append(queue, n) \in Seq(Nodes) /\ Len(Append(queue, n)) = Len(queue) + 1
              /\ \A j \in 1..Len(queue) : Append(queue, n)[j] = queue[j]
          BY <1>2, AppendProperties
        <5>2. QED  BY <1>2, <3>1, <4>1, <5>1
      <4>2. QED  BY <3>1, <3>2, <4>1
    <3>4. QED  BY <3>3 DEF Waiting
  <2>3. QED  BY <1>1, <1>6, <2>1, <2>2 DEF Waiting
<1>7. n \in visited \/ Settled(n)' \/ Waiting(n)'
  <2>1. SUFFICES ASSUME n \notin visited PROVE Settled(n)' \/ Waiting(n)'
    OBVIOUS
  <2>2. queue' = Enqueued(n)
    BY <2>1 DEF VisitChild, Visit
  <2>3. CASE Browseable(n)
    <3>1. queue' = Append(queue, n)
      BY <2>2, <2>3 DEF Enqueued
    <3>2. Append(queue, n) \in Seq(Nodes) /\ Len(Append(queue, n)) = Len(queue) + 1
          /\ Append(queue, n)[Len(queue) + 1] = n
      BY <1>2, AppendProperties
    <3>3. Len(queue) + 1 \in DOMAIN queue' /\ queue'[Len(queue) + 1] = n
      BY <1>2, <3>1, <3>2
    <3>4. QED  BY <3>3 DEF Waiting
  <2>4. CASE ~Browseable(n)
    BY <1>1, <1>2, <2>4 DEF Settled, Edge, EdgeOf, Browseable, world
  <2>5. QED  BY <2>3, <2>4
<1>8. NoneForgotten'
  <2>1. \A p \in visited : Settled(p) => Settled(p)'
    BY <1>1, <1>4, SettledStays
  <2>2. visited' \subseteq visited \cup {n}
    BY DEF VisitChild, Visit, tree
  <2>3. QED  BY <1>1, <1>6, <1>7, <2>1, <2>2 DEF Accounted, NoneForgotten, Lost
<1>9. QED  BY <1>3, <1>5, <1>8 DEF Accounted

LEMMA AccountedEndBatch == InHand /\ Accounted /\ EndBatch => Accounted'
<1> SUFFICES ASSUME InHand, Accounted, EndBatch PROVE Accounted'
  OBVIOUS
<1>1. /\ phase = "emit" /\ phase' = "walk" /\ ~InBatch
      /\ batch' = <<>> /\ results' = <<>>
      /\ UNCHANGED <<site, queue, visited, counters, faults>>
  BY DEF EndBatch, tree
<1>2. \A k \in DOMAIN batch : ~(cursor[1] <= k)
  <2>1. /\ results \in Seq(Result) /\ batch \in Seq(Nodes) /\ Len(results) = Len(batch)
        /\ cursor[1] \in Nat \ {0}
    BY DEF InHand, WalkTypeOK
  <2>2. cursor[1] \notin 1..Len(batch)
    BY <1>1, <2>1 DEF InBatch
  <2>3. QED  BY <2>1, <2>2
<1>3. \A p \in visited : (Settled(p) => Settled(p)') /\ (Waiting(p) => Waiting(p)')
  BY <1>1, <1>2, SettledStays DEF Waiting
<1>4. QED  BY <1>1, <1>3 DEF Accounted, PagesKept, AllFollowed, PrefixVisited, NoneForgotten, Lost

LEMMA AccountedEnds == InHand /\ Accounted /\ (DiscoverMaxParents \/ EndWalk \/ WalkAborts) => Accounted'
<1> SUFFICES ASSUME InHand, Accounted, DiscoverMaxParents \/ EndWalk \/ WalkAborts PROVE Accounted'
  OBVIOUS
<1>1. /\ UNCHANGED <<site, queue, visited, batch, results, cursor, counters>>
      /\ faults \subseteq faults'
      /\ phase # "emit" /\ phase' \in {"root", "walked", "failed"}
  BY FaultsGrow DEF DiscoverMaxParents, EndWalk, WalkAborts, tree, exchange
<1>2. Lost => Lost'
  BY <1>1 DEF Lost
<1>3. QED  BY <1>1, <1>2, AccountedFrame

LEMMA AccountedStep == InHand /\ Accounted /\ Walk => Accounted'
BY AccountedRoot, AccountedBatch, AccountedFails, AccountedFollow, AccountedRetries, AccountedSolo,
   AccountedEmpty, AccountedFollowSolo, AccountedSoloEnds, AccountedRead, AccountedSkip, AccountedNext,
   AccountedVisit, AccountedEndBatch, AccountedEnds DEF Walk, BrowseChildren

LEMMA AccountedAfterwards == Accounted /\ (Afterwards \/ UNCHANGED walkVars) => Accounted'
<1> SUFFICES ASSUME Accounted, Afterwards \/ UNCHANGED walkVars PROVE Accounted'
  OBVIOUS
<1>1. /\ UNCHANGED <<site, queue, visited, batch, results, cursor, counters, solo, starved>>
      /\ faults \subseteq faults'
      /\ phase' = phase \/ (phase \notin WalkPhases /\ phase' \notin WalkPhases)
  BY DEF Afterwards, walkVars, tree, exchange
<1>2. Lost => Lost'
  BY <1>1 DEF Lost
<1>3. /\ phase' = "solo" => phase = "solo"
      /\ phase' \in {"retry", "solo", "emit"} => phase \in {"retry", "solo", "emit"}
      /\ phase' = "emit" <=> phase = "emit"
  BY <1>1 DEF WalkPhases
<1>4. QED  BY <1>1, <1>2, <1>3, AccountedFrame

\* Once nothing waits any more, what is missing was counted.
LEMMA LossFollows == InHand /\ Accounted => LossIsCounted
<1> SUFFICES ASSUME InHand, Accounted, phase \notin WalkPhases \cup {"failed"},
                    faults \cap {"root", "call"} = {}, ~Lost
             PROVE  \A p \in visited, c \in Nodes : Edge(p, c) => c \in visited
  BY DEF LossIsCounted, Lost
<1>1. queue = <<>> /\ batch = <<>>
  BY DEF InHand, Phased, WalkPhases
<1>2. \A p \in visited : ~Waiting(p)
  BY <1>1 DEF Waiting
<1>3. QED  BY <1>2 DEF Accounted, NoneForgotten, Settled

--------------------------------------------------------------------------
(* Without faults nothing is lost.                                         *)

Innocent == faults \subseteq Harmless /\ world.pool > 0

\* Every result is good in the end, if the starved ones are asked for again.
GoodOrAgain ==
  phase \in {"retry", "solo", "emit"} =>
    \A k \in DOMAIN results : k \in starved \/ results[k].status = "Good"

Unhurt ==
  Innocent =>
    /\ ~Lost
    /\ \A k \in DOMAIN results : results[k].status \in {"Good", "NoCP"}
    /\ GoodOrAgain
    /\ phase = "solo" => solo.status = "Good"
    /\ phase \in {"limits", "root"} \/ Root \in visited

\* Who is innocent after a step was so before.
LEMMA InnocentBefore ==
    ASSUME UNCHANGED site, Innocent'
    PROVE  /\ faults \subseteq faults' => Innocent
           /\ \A kind : Fault(kind) => Innocent /\ kind \in Harmless
           /\ \A kind, S : SomeFault(kind, S) => Innocent /\ (S = {} \/ kind \in Harmless)
BY SameServer DEF Innocent, Fault, SomeFault, Faulty, Harmless

\* What counts no loss.
LEMMA NotLost ==
    ASSUME counters \in [DOMAIN NoCount -> Nat], ~Lost,
           \/ counters' = counters
           \/ \E field \in {"starved", "recovered", "unrecoverable"}, n \in Nat :
                counters' = Bump(counters, field, n)
           \/ \E field \in DOMAIN NoCount : counters' = Bump(counters, field, 0)
    PROVE  ~Lost'
<1>1. \A f \in {"nextStarved", "nextBad", "parentBad"} :
        counters[f] \in Nat /\ counters'[f] = counters[f]
  <2>1. {"nextStarved", "nextBad", "parentBad"} \subseteq DOMAIN NoCount
        /\ {"starved", "recovered", "unrecoverable"} \subseteq DOMAIN NoCount
    BY CounterNames
  <2>2. CASE counters' = counters
    BY <2>1, <2>2
  <2>3. ASSUME NEW field \in {"starved", "recovered", "unrecoverable"}, NEW n \in Nat,
               counters' = Bump(counters, field, n)
        PROVE  \A f \in {"nextStarved", "nextBad", "parentBad"} :
                 counters[f] \in Nat /\ counters'[f] = counters[f]
    <3>1. /\ field \in DOMAIN NoCount /\ field \notin {"nextStarved", "nextBad", "parentBad"}
      BY <2>1
    <3>2. \A f \in DOMAIN NoCount : counters[f] \in Nat /\ counters'[f] = IF f = field THEN counters[f] + n ELSE counters[f]
      BY <2>3, <3>1, BumpTypes
    <3>3. QED  BY <2>1, <3>1, <3>2
  <2>4. ASSUME NEW field \in DOMAIN NoCount, counters' = Bump(counters, field, 0)
        PROVE  \A f \in {"nextStarved", "nextBad", "parentBad"} :
                 counters[f] \in Nat /\ counters'[f] = counters[f]
    <3>1. \A f \in DOMAIN NoCount : counters[f] \in Nat /\ counters'[f] = IF f = field THEN counters[f] + 0 ELSE counters[f]
      BY <2>4, BumpTypes
    <3>2. QED  BY <2>1, <3>1
  <2>5. QED  BY <2>2, <2>3, <2>4
<1>2. QED  BY <1>1 DEF Lost

\* Steps that touch neither the results nor the counters.
LEMMA UnhurtFrame ==
    ASSUME Unhurt, UNCHANGED <<site, results, counters>>, faults \subseteq faults',
           visited \subseteq visited',
           phase' = "solo" => phase = "solo" /\ UNCHANGED solo,
           phase' \in {"retry", "solo", "emit"} =>
             phase \in {"retry", "solo", "emit"} /\ UNCHANGED starved,
           phase' \in {"limits", "root"} \/ phase \notin {"limits", "root"}
    PROVE  Unhurt'
<1> SUFFICES ASSUME Innocent' PROVE Unhurt'
  BY DEF Unhurt
<1>1. Innocent
  BY InnocentBefore
<1>2. QED  BY <1>1 DEF Unhurt, Lost, GoodOrAgain

LEMMA UnhurtInit == WalkInit => Unhurt
BY DEF WalkInit, Unhurt, GoodOrAgain, Lost, NoCount

LEMMA UnhurtRoot == InHand /\ Unhurt /\ BrowseRoot => Unhurt'
<1> SUFFICES ASSUME InHand, Unhurt, BrowseRoot, Innocent' PROVE Unhurt'
  BY DEF Unhurt
<1>1. phase' = "walk" /\ UNCHANGED <<site, results, starved, solo, counters>>
  BY DEF BrowseRoot, exchange
<1>2. ~NoNodeInfo
  BY <1>1, InnocentBefore DEF NoNodeInfo, Harmless
<1>3. Root \in visited' /\ UNCHANGED faults
  BY <1>2 DEF BrowseRoot
<1>4. Innocent
  BY <1>1, <1>3, InnocentBefore
<1>5. QED  BY <1>1, <1>3, <1>4 DEF Unhurt, Lost, GoodOrAgain

LEMMA UnhurtBatch == InHand /\ Unhurt /\ BrowseBatch => Unhurt'
<1> SUFFICES ASSUME InHand, Unhurt, BrowseBatch, Innocent' PROVE Unhurt'
  BY DEF Unhurt
<1>1. phase = "walk" /\ phase' = "follow" /\ UNCHANGED <<site, visited, counters>>
  BY DEF BrowseBatch
<1>2. PICK S \in SUBSET (1..Len(Taken)) :
        SomeFault("parent", S) /\ results' = Refuse(Answers(Taken), S)
  BY DEF BrowseBatch
<1>3. Innocent /\ S = {}
  BY <1>1, <1>2, InnocentBefore DEF Harmless
<1>4. \A k \in DOMAIN results' : k \in 1..Len(Taken) /\ results'[k] = Answer(Taken, k)
  BY <1>2, <1>3 DEF Refuse, Answers
<1>5. \A k \in DOMAIN results' : results'[k].status \in {"Good", "NoCP"}
  BY <1>4, BatchTypes, AnswerTypes DEF InHand, WalkTypeOK
<1>6. QED  BY <1>1, <1>3, <1>5 DEF Unhurt, Lost, GoodOrAgain

LEMMA UnhurtFails == InHand /\ Unhurt /\ (BrowseFails \/ RetryEmpty \/ WalkAborts) => Unhurt'
<1> SUFFICES ASSUME InHand, BrowseFails \/ RetryEmpty \/ WalkAborts PROVE ~Innocent'
  BY DEF Unhurt
<1>1. UNCHANGED site /\ (Fault("call") \/ Fault("solo") \/ Fault("abort"))
  BY DEF BrowseFails, RetryEmpty, WalkAborts
<1>2. QED  BY <1>1, InnocentBefore DEF Harmless

LEMMA UnhurtFollow == InHand /\ Unhurt /\ FollowContinuations => Unhurt'
<1> SUFFICES ASSUME InHand, Unhurt, FollowContinuations, Innocent' PROVE Unhurt'
  BY DEF Unhurt
<1>1. phase = "follow" /\ phase' = "follow" /\ UNCHANGED <<site, visited>>
  BY DEF FollowContinuations, tree
<1>2. PICK S \in SUBSET Pending, field \in {"nextStarved", "nextBad"} :
        /\ SomeFault("next", S)
        /\ results' = [k \in DOMAIN results |->
             IF k \notin Pending THEN results[k]
             ELSE IF k \in S THEN [results[k] EXCEPT !.more = FALSE]
             ELSE NextPage(results[k], batch[k])]
        /\ counters' = Bump(counters, field, Cardinality(S))
  BY DEF FollowContinuations
<1>3. Innocent /\ S = {}
  BY <1>1, <1>2, InnocentBefore DEF Harmless
<1>4. \A k \in DOMAIN results' : k \in DOMAIN results /\ results'[k].status = results[k].status
  BY <1>2, <1>3 DEF NextPage
<1>5. ~Lost'
  <2>1. Cardinality(S) = 0 /\ counters \in [DOMAIN NoCount -> Nat] /\ field \in DOMAIN NoCount
    BY <1>3, FS_EmptySet, CounterNames DEF InHand, WalkTypeOK
  <2>2. QED  BY <1>2, <1>3, <2>1, NotLost DEF Unhurt
<1>6. QED  BY <1>1, <1>3, <1>4, <1>5 DEF Unhurt, GoodOrAgain

LEMMA UnhurtRetries == InHand /\ Unhurt /\ BeginRetries => Unhurt'
<1> SUFFICES ASSUME InHand, Unhurt, BeginRetries, Innocent' PROVE Unhurt'
  BY DEF Unhurt
<1>1. /\ phase = "follow" /\ phase' = "retry" /\ starved' = Starved
      /\ counters' = Bump(counters, "starved", Cardinality(Starved))
      /\ UNCHANGED <<site, visited, results, faults>>
  BY DEF BeginRetries, tree
<1>2. Innocent
  BY <1>1, InnocentBefore
<1>3. GoodOrAgain'
  BY <1>1, <1>2 DEF Unhurt, GoodOrAgain, Starved
<1>4. ~Lost'
  <2>1. /\ counters \in [DOMAIN NoCount -> Nat]
        /\ Starved \subseteq 1..Len(results) /\ Len(results) \in Nat
    BY DEF InHand, WalkTypeOK, Starved
  <2>2. Cardinality(Starved) \in Nat
    BY <2>1, IndicesCounted
  <2>3. QED  BY <1>1, <1>2, <2>1, <2>2, NotLost DEF Unhurt
<1>5. QED  BY <1>1, <1>2, <1>3, <1>4 DEF Unhurt

LEMMA UnhurtSolo == InHand /\ Unhurt /\ RetrySolo => Unhurt'
<1> SUFFICES ASSUME InHand, Unhurt, RetrySolo, Innocent' PROVE Unhurt'
  BY DEF Unhurt
<1>1. /\ phase = "retry" /\ phase' = "solo" /\ starved # {}
      /\ UNCHANGED <<site, visited, results, starved, counters>>
  BY DEF RetrySolo, tree
<1>2. solo' = Answer(<<Asked>>, 1) /\ UNCHANGED faults
  BY <1>1, InnocentBefore DEF RetrySolo, Harmless
<1>3. Innocent
  BY <1>1, <1>2, InnocentBefore
<1>4. solo'.status = "Good"
  <2>1. {j \in 1..(1 - 1) : Wide(<<Asked>>[j])} = {}
    OBVIOUS
  <2>2. Cardinality({j \in 1..(1 - 1) : Wide(<<Asked>>[j])}) = 0
    BY <2>1, FS_EmptySet
  <2>3. world.pool > 0
    BY <1>3 DEF Innocent
  <2>4. QED  BY <1>2, <2>2, <2>3 DEF Answer
<1>5. QED  BY <1>1, <1>3, <1>4 DEF Unhurt, Lost, GoodOrAgain

LEMMA UnhurtFollowSolo == InHand /\ Unhurt /\ FollowSolo => Unhurt'
<1> SUFFICES ASSUME InHand, Unhurt, FollowSolo, Innocent' PROVE Unhurt'
  BY DEF Unhurt
<1>1. phase = "solo" /\ UNCHANGED <<site, phase, visited, results, starved>>
  BY DEF FollowSolo, tree
<1>2. solo' = NextPage(solo, Asked) /\ UNCHANGED <<counters, faults>>
  BY <1>1, InnocentBefore DEF FollowSolo, Harmless
<1>3. Innocent
  BY <1>1, <1>2, InnocentBefore
<1>4. solo'.status = solo.status
  BY <1>2 DEF NextPage
<1>5. QED  BY <1>1, <1>2, <1>3, <1>4 DEF Unhurt, Lost, GoodOrAgain

LEMMA UnhurtSoloEnds == InHand /\ Unhurt /\ SoloEnds => Unhurt'
<1> SUFFICES ASSUME InHand, Unhurt, SoloEnds, Innocent' PROVE Unhurt'
  BY DEF Unhurt
<1>1. phase = "solo" /\ phase' = "retry" /\ starved' = Rest /\ UNCHANGED <<site, visited, faults>>
  BY DEF SoloEnds, tree
<1>2. Innocent
  BY <1>1, InnocentBefore
<1>3. /\ solo.status = "Good"
      /\ counters' = Bump(counters, "recovered", 1)
      /\ results' = [results EXCEPT ![Popped] = solo]
  BY <1>1, <1>2 DEF Unhurt, SoloEnds
<1>4. \A k \in DOMAIN results' :
        k \in DOMAIN results /\ results'[k] = IF k = Popped THEN solo ELSE results[k]
  BY <1>3
<1>5. ~Lost'
  BY <1>2, <1>3, NotLost DEF Unhurt, InHand, WalkTypeOK
<1>6. GoodOrAgain'
  BY <1>1, <1>2, <1>3, <1>4 DEF Unhurt, GoodOrAgain, Rest
<1>7. QED  BY <1>1, <1>2, <1>3, <1>4, <1>5, <1>6 DEF Unhurt

LEMMA UnhurtSkip == InHand /\ Unhurt /\ SkipParent => Unhurt'
<1> SUFFICES ASSUME InHand, Unhurt, SkipParent PROVE ~Innocent'
  BY DEF Unhurt
<1>1. /\ phase = "emit" /\ InBatch /\ Here.status # "Good" /\ UNCHANGED <<site, faults>>
      /\ starved = {}
  BY DEF SkipParent, InHand, Phased
<1>2. ~Innocent
  BY <1>1 DEF Unhurt, GoodOrAgain, InBatch, Here
<1>3. QED  BY <1>1, <1>2, InnocentBefore

LEMMA UnhurtEndBatch == InHand /\ Unhurt /\ EndBatch => Unhurt'
<1> SUFFICES ASSUME InHand, Unhurt, EndBatch, Innocent' PROVE Unhurt'
  BY DEF Unhurt
<1>1. phase = "emit" /\ phase' = "walk" /\ results' = <<>> /\ UNCHANGED <<site, visited, counters, faults>>
  BY DEF EndBatch, tree
<1>2. Innocent
  BY <1>1, InnocentBefore
<1>3. QED  BY <1>1, <1>2 DEF Unhurt, Lost, GoodOrAgain

LEMMA UnhurtOthers ==
  InHand /\ Unhurt /\ (DiscoverMaxParents \/ ReadMetadata \/ NextParent \/ VisitChild \/ EndWalk) => Unhurt'
<1> SUFFICES ASSUME InHand, Unhurt,
                    DiscoverMaxParents \/ ReadMetadata \/ NextParent \/ VisitChild \/ EndWalk
             PROVE  Unhurt'
  OBVIOUS
<1>1. /\ UNCHANGED <<site, results, starved, solo, counters>> /\ faults \subseteq faults'
      /\ phase' = phase \/ phase' \in {"root", "walked"} \/ (phase = "retry" /\ phase' = "emit")
      /\ phase' = "root" => phase = "limits"
      /\ phase' = "walked" => phase = "walk"
  BY FaultsGrow DEF DiscoverMaxParents, ReadMetadata, NextParent, VisitChild, EndWalk, exchange
<1>2. visited \subseteq visited'
  BY DEF DiscoverMaxParents, ReadMetadata, NextParent, VisitChild, EndWalk, Visit, tree
<1>3. QED  BY <1>1, <1>2, UnhurtFrame

LEMMA UnhurtStep == InHand /\ Unhurt /\ Walk => Unhurt'
BY UnhurtRoot, UnhurtBatch, UnhurtFails, UnhurtFollow, UnhurtRetries, UnhurtSolo, UnhurtFollowSolo,
   UnhurtSoloEnds, UnhurtSkip, UnhurtEndBatch, UnhurtOthers DEF Walk, BrowseChildren

LEMMA UnhurtAfterwards == Unhurt /\ (Afterwards \/ UNCHANGED walkVars) => Unhurt'
<1> SUFFICES ASSUME Unhurt, Afterwards \/ UNCHANGED walkVars PROVE Unhurt'
  OBVIOUS
<1>1. /\ UNCHANGED <<site, visited, results, counters, solo, starved>>
      /\ faults \subseteq faults'
      /\ phase' = phase \/ (phase \notin WalkPhases /\ phase' \notin WalkPhases)
  BY DEF Afterwards, walkVars, tree, exchange
<1>2. QED  BY <1>1, UnhurtFrame DEF WalkPhases

\* What is found when the walk is over.
LEMMA MissedFollows == InHand /\ Accounted /\ Unhurt => NothingMissed
<1> SUFFICES ASSUME InHand, Accounted, Unhurt,
                    phase \notin WalkPhases \cup {"failed"}, faults \subseteq Harmless, world.pool > 0
             PROVE  Root \in visited /\ \A p \in visited, c \in Nodes : Edge(p, c) => c \in visited
  BY DEF NothingMissed
<1>1. ~Lost /\ Root \in visited
  BY DEF Unhurt, Innocent, WalkPhases
<1>2. LossIsCounted
  BY LossFollows
<1>3. QED  BY <1>1, <1>2 DEF LossIsCounted, Lost, Harmless

--------------------------------------------------------------------------
(* Batches of the published size.                                          *)

Honest == world.limits.cps = world.pool /\ world.pool > 0

\* Nothing is starved, and no batch is wider than the pool.
Sized ==
  Honest =>
    /\ counters.starved = 0
    /\ limit <= world.pool
    /\ \A k \in DOMAIN results : results[k].status # "NoCP"
    /\ starved = {}

\* How often something was starved.
LEMMA StarvedCount ==
    ASSUME counters \in [DOMAIN NoCount -> Nat], NEW field \in DOMAIN NoCount, NEW n \in Nat,
           counters' = Bump(counters, field, n)
    PROVE  counters'.starved = IF field = "starved" THEN counters.starved + n ELSE counters.starved
<1>1. \A f \in DOMAIN NoCount :
        Bump(counters, field, n)[f] = IF f = field THEN counters[f] + n ELSE counters[f]
  BY BumpTypes
<1>2. "starved" \in DOMAIN NoCount
  BY CounterNames
<1>3. QED  BY <1>1, <1>2

LEMMA SizedInit == WalkInit => Sized
<1> SUFFICES ASSUME WalkInit, Honest PROVE Sized
  BY DEF Sized
<1>1. world.pool \in Nat
  BY WorldTypes DEF WalkInit, WalkWorld
<1>2. QED  BY <1>1 DEF WalkInit, Sized, NoCount, Honest

LEMMA SizedLimit == InHand /\ Sized /\ DiscoverMaxParents => Sized'
<1> SUFFICES ASSUME InHand, Sized, DiscoverMaxParents, Honest' PROVE Sized'
  BY DEF Sized
<1>1. /\ UNCHANGED <<site, results, starved, counters>>
      /\ limit' = LesserOf(DiscoveredLimit(world), MaxParents)
  BY DEF DiscoverMaxParents, exchange
<1>2. Honest /\ world' = world
  BY <1>1, SameServer DEF Honest
<1>3. DiscoveredLimit(world) \in Nat /\ DiscoveredLimit(world) <= world.pool
  <2>1. world.pool \in Nat /\ world.limits.cps # 0 /\ world.limits.cps = world.pool
    BY <1>2, WorldTypes DEF Honest, InHand, WalkTypeOK, WalkWorld
  <2>2. QED  BY <2>1, LimitTypes DEF InHand, WalkTypeOK
<1>4. limit' <= world.pool
  <2>1. MaxParents \in Nat /\ world.pool \in Nat
    BY WalkAssumption, WorldTypes DEF InHand, WalkTypeOK, WalkWorld
  <2>2. QED  BY <1>1, <1>3, <2>1 DEF LesserOf
<1>5. QED  BY <1>1, <1>2, <1>4 DEF Sized

\* A batch within the pool gets a continuation point for each of its parents.
LEMMA WithinPool ==
    ASSUME InHand, Honest, limit <= world.pool, NEW k \in 1..Len(Taken)
    PROVE  Answer(Taken, k).status = "Good"
<1> DEFINE before == {j \in 1..(k - 1) : Wide(Taken[j])}
<1>1. /\ limit \in Nat /\ Len(queue) \in Nat /\ world.pool \in Nat
      /\ Len(Taken) = BatchSize /\ BatchSize \in Nat
  BY BatchTypes, WorldTypes DEF InHand, WalkTypeOK, WalkWorld
<1>2. BatchSize <= limit
  <2>1. \A b : LesserOf(LesserOf(Len(queue), limit), b) <= limit
        \/ LesserOf(LesserOf(Len(queue), limit), b) = b
    BY <1>1 DEF LesserOf
  <2> DEFINE budget == GreaterOf(1, IF seen <= browsed THEN MaxChildren \div 2
                                    ELSE (MaxChildren * browsed) \div (2 * seen))
  <2>2. BatchSize = LesserOf(LesserOf(Len(queue), limit), budget)
    BY DEF BatchSize
  <2> HIDE DEF budget
  <2>3. CASE LesserOf(Len(queue), limit) <= budget
    BY <1>1, <2>2, <2>3 DEF LesserOf
  <2>4. CASE ~(LesserOf(Len(queue), limit) <= budget)
    <3>1. BatchSize = budget /\ budget \in Nat
      BY <1>1, <2>2, <2>4 DEF LesserOf
    <3>2. QED  BY <1>1, <2>4, <3>1 DEF LesserOf
  <2>5. QED  BY <2>3, <2>4
<1>3. k \in Int /\ k - 1 \in Nat /\ k <= world.pool
  BY <1>1, <1>2
<1>4. before \in SUBSET (1..(k - 1))
  OBVIOUS
<1>5. Cardinality(before) \in Nat /\ Cardinality(before) <= k - 1
  BY <1>3, <1>4, IndicesCounted
<1> HIDE DEF before
<1>6. Cardinality(before) < world.pool
  BY <1>1, <1>3, <1>5
<1>7. QED  BY <1>6 DEF Answer, before

LEMMA SizedBatch == InHand /\ Sized /\ BrowseBatch => Sized'
<1> SUFFICES ASSUME InHand, Sized, BrowseBatch, Honest' PROVE Sized'
  BY DEF Sized
<1>1. UNCHANGED <<site, limit, starved, counters>>
  BY DEF BrowseBatch
<1>2. Honest /\ world' = world
  BY <1>1, SameServer DEF Honest
<1>3. \A k \in DOMAIN results' :
        k \in 1..Len(Taken) /\ (results'[k] = Refused \/ results'[k] = Answer(Taken, k))
  BY BatchAnswers
<1>4. \A k \in DOMAIN results' : results'[k].status # "NoCP"
  BY <1>2, <1>3, WithinPool, RefusedTypes DEF Sized
<1>5. QED  BY <1>1, <1>2, <1>4 DEF Sized

LEMMA SizedFollow == InHand /\ Sized /\ FollowContinuations => Sized'
<1> SUFFICES ASSUME InHand, Sized, FollowContinuations, Honest' PROVE Sized'
  BY DEF Sized
<1>1. UNCHANGED <<site, limit, starved>>
  BY DEF FollowContinuations
<1>2. Honest /\ world' = world
  BY <1>1, SameServer DEF Honest
<1>3. PICK S \in SUBSET Pending, field \in {"nextStarved", "nextBad"} :
        /\ results' = [k \in DOMAIN results |->
             IF k \notin Pending THEN results[k]
             ELSE IF k \in S THEN [results[k] EXCEPT !.more = FALSE]
             ELSE NextPage(results[k], batch[k])]
        /\ counters' = Bump(counters, field, Cardinality(S))
  BY DEF FollowContinuations
<1>4. \A k \in DOMAIN results' : k \in DOMAIN results /\ results'[k].status = results[k].status
  <2>1. \A k \in DOMAIN results : results[k] \in Result
    BY DEF InHand, WalkTypeOK
  <2>2. QED  BY <1>3, <2>1 DEF NextPage, Result
<1>5. counters'.starved = counters.starved
  <2>1. Len(results) \in Nat /\ S \subseteq 1..Len(results)
    BY DEF InHand, WalkTypeOK, Pending
  <2>2. Cardinality(S) \in Nat /\ field \in DOMAIN NoCount /\ "starved" \in DOMAIN NoCount
        /\ field # "starved"
    BY <2>1, IndicesCounted, CounterNames
  <2>3. QED  BY <1>3, <2>2, StarvedCount DEF InHand, WalkTypeOK
<1>6. QED  BY <1>1, <1>2, <1>4, <1>5 DEF Sized

LEMMA SizedRetries == InHand /\ Sized /\ BeginRetries => Sized'
<1> SUFFICES ASSUME InHand, Sized, BeginRetries, Honest' PROVE Sized'
  BY DEF Sized
<1>1. /\ UNCHANGED <<site, limit, results>> /\ starved' = Starved
      /\ counters' = Bump(counters, "starved", Cardinality(Starved))
  BY DEF BeginRetries
<1>2. Honest /\ world' = world
  BY <1>1, SameServer DEF Honest
<1>3. Starved = {}
  BY <1>2 DEF Sized, Starved
<1>4. Cardinality(Starved) = 0
  BY <1>3, FS_EmptySet
<1>5. counters'.starved = 0
  <2>1. "starved" \in DOMAIN NoCount /\ counters \in [DOMAIN NoCount -> Nat] /\ counters.starved = 0
    BY <1>2, CounterNames DEF Sized, InHand, WalkTypeOK
  <2>2. QED  BY <1>1, <1>4, <2>1, StarvedCount
<1>6. QED  BY <1>1, <1>2, <1>3, <1>5 DEF Sized

\* With nothing starved these do not happen.
LEMMA SizedSolo ==
  InHand /\ Sized /\ (RetrySolo \/ RetryEmpty \/ FollowSolo \/ SoloEnds) => Sized'
<1> SUFFICES ASSUME InHand, Sized, RetrySolo \/ RetryEmpty \/ FollowSolo \/ SoloEnds, Honest'
             PROVE  FALSE
  BY DEF Sized
<1>1. starved # {} /\ UNCHANGED site
  BY DEF RetrySolo, RetryEmpty, FollowSolo, SoloEnds, InHand, Arrived
<1>2. Honest
  BY <1>1, SameServer DEF Honest
<1>3. QED  BY <1>1, <1>2 DEF Sized

\* Steps that leave alone what this is about, or count a parent that was skipped.
LEMMA SizedFrame ==
    ASSUME InHand, Sized, UNCHANGED <<site, limit, starved>>,
           results' = results \/ results' = <<>>,
           counters' = counters \/ counters' = Bump(counters, "parentBad", 1)
    PROVE  Sized'
<1> SUFFICES ASSUME Honest' PROVE Sized'
  BY DEF Sized
<1>1. Honest /\ world' = world
  BY SameServer DEF Honest
<1>2. counters'.starved = counters.starved
  <2>1. "parentBad" \in DOMAIN NoCount /\ counters \in [DOMAIN NoCount -> Nat]
    BY CounterNames DEF InHand, WalkTypeOK
  <2>2. CASE counters' = Bump(counters, "parentBad", 1)
    BY <2>1, <2>2, StarvedCount
  <2>3. QED  BY <2>2
<1>3. QED  BY <1>1, <1>2 DEF Sized

LEMMA SizedOthers ==
  InHand /\ Sized /\ (BrowseRoot \/ BrowseFails \/ ReadMetadata \/ SkipParent \/ NextParent \/ VisitChild
                      \/ EndBatch \/ EndWalk \/ WalkAborts) => Sized'
BY SizedFrame DEF BrowseRoot, BrowseFails, ReadMetadata, SkipParent, NextParent, VisitChild, EndBatch,
                  EndWalk, WalkAborts, exchange

LEMMA SizedStep == InHand /\ Sized /\ Walk => Sized'
BY SizedLimit, SizedBatch, SizedFollow, SizedRetries, SizedSolo, SizedOthers DEF Walk, BrowseChildren

LEMMA SizedAfterwards == InHand /\ Sized /\ (Afterwards \/ UNCHANGED walkVars) => Sized'
BY SizedFrame DEF Afterwards, walkVars, exchange

\* What HonestLimitsSuffice says.
LEMMA SufficeFollows == Sized => HonestLimitsSuffice
BY DEF Sized, Honest, HonestLimitsSuffice

--------------------------------------------------------------------------
(* What comes after the walk over the instances.                           *)

\* Stamps are made only when every node is known.
Unstamped == phase \in WalkPhases => stamped = 0

ShapesTypeOK == \A a \in artificial : a.schema \in [of : TypeIds \cup {NoType}, array : BOOLEAN]

Later == TypesTypeOK /\ WiresTypeOK /\ Unstamped /\ named \subseteq TypeIds /\ ShapesTypeOK

After == TypeSteps \/ StampNode \/ EndStamping \/ ResolveNames \/ CollectArtificial \/ Ship

\* Faults only add up.
LEMMA FaultyTypes ==
    ASSUME faults \subseteq Faults, NEW kinds \in SUBSET Faults, Faulty(kinds)
    PROVE  faults \subseteq faults' /\ faults' \subseteq Faults
BY DEF Faulty

\* Nothing that comes after the walk touches it.
LEMMA AfterIsAfterwards == InHand /\ After => Afterwards \/ UNCHANGED walkVars
<1> SUFFICES ASSUME InHand, After PROVE Afterwards \/ UNCHANGED walkVars
  OBVIOUS
<1>1. faults \subseteq Faults
  BY DEF InHand, WalkTypeOK
<1>2. CASE BeginTypes \/ EndTypes \/ BeginStructures \/ EndStructures \/ EndStamping
           \/ CollectArtificial \/ Ship
  BY <1>1, <1>2 DEF BeginTypes, EndTypes, BeginStructures, EndStructures, EndStamping,
     CollectArtificial, Ship, Afterwards, WalkPhases
<1>3. CASE BrowseType
  <2>1. phase = "types" /\ UNCHANGED <<site, phase, limit, tree, exchange, seen, browsed, counters>>
    BY <1>3 DEF BrowseType
  <2>2. faults' = faults \/ Fault("type")
    BY <1>3 DEF BrowseType, TypeInfo
  <2>3. faults \subseteq faults' /\ faults' \subseteq Faults
    BY <1>1, <2>2 DEF Fault, Faulty, Faults
  <2>4. QED  BY <2>1, <2>3 DEF Afterwards, WalkPhases
<1>4. CASE WalkStructure
  <2>1. phase = "structures" /\ UNCHANGED <<site, phase, limit, tree, exchange, seen, browsed, counters>>
    BY <1>4 DEF WalkStructure
  <2>2. \E failed \in SUBSET {"subtypes", "definition"} : Faulty(failed)
    BY <1>4 DEF WalkStructure
  <2>3. faults \subseteq faults' /\ faults' \subseteq Faults
    BY <1>1, <2>2 DEF Faulty, Faults
  <2>4. QED  BY <2>1, <2>3 DEF Afterwards, WalkPhases
<1>5. CASE ResolveNames
  <2>1. /\ phase = "stamped" /\ phase' = "named"
        /\ UNCHANGED <<site, limit, tree, exchange, seen, browsed, counters>>
    BY <1>5 DEF ResolveNames
  <2>2. \E S : SomeFault("name", S)
    BY <1>5 DEF ResolveNames
  <2>3. faults \subseteq faults' /\ faults' \subseteq Faults
    BY <1>1, <2>2 DEF SomeFault, Faulty, Faults
  <2>4. QED  BY <2>1, <2>3 DEF Afterwards, WalkPhases
<1>6. CASE StampNode
  BY <1>6 DEF StampNode
<1>7. QED  BY <1>2, <1>3, <1>4, <1>5, <1>6 DEF After, TypeSteps

LEMMA TypeWorldTypes ==
    ASSUME site \in DOMAIN Catalogue
    PROVE  TypeWorld(world) /\ WireWorld(world) /\ ModelWorld(world)
BY TypeAssumption, WireAssumption, ModelAssumption DEF Catalogue, world

LEMMA LaterInit == Init => Later
BY EmptySeq DEF Init, WalkInit, TypeInit, WireInit, Later, TypesTypeOK, WiresTypeOK, Unstamped, ShapesTypeOK

\* The walk comes before the stamps.
LEMMA LaterWalk == Later /\ Walk /\ UNCHANGED <<typeVars, wireVars, modelVars>> /\ InHand' => Later'
<1> SUFFICES ASSUME Later, Walk, UNCHANGED <<typeVars, wireVars, modelVars>>, InHand' PROVE Later'
  OBVIOUS
<1>1. /\ UNCHANGED <<typeQueue, typeSeen, types, structures, stamps, stamped, named, artificial>>
      /\ phase \in WalkPhases
  BY DEF typeVars, wireVars, modelVars, Walk, BrowseChildren, DiscoverMaxParents, BrowseRoot, BrowseBatch,
         BrowseFails, FollowContinuations, BeginRetries, RetrySolo, RetryEmpty, FollowSolo, SoloEnds,
         ReadMetadata, SkipParent, NextParent, VisitChild, EndBatch, EndWalk, WalkAborts, WalkPhases
<1>2. stamped = 0 /\ DOMAIN stamps = {}
  BY <1>1 DEF Later, Unstamped, WiresTypeOK
<1>3. Len(out') \in Nat
  BY DEF InHand, WalkTypeOK
<1>4. WiresTypeOK'
  BY <1>1, <1>2, <1>3 DEF WiresTypeOK
<1>5. QED  BY <1>1, <1>2, <1>4 DEF Later, TypesTypeOK, Unstamped, ShapesTypeOK

\* A step after the walk leaves what it found alone.
LEMMA UnstampedAfter == InHand /\ After => Unstamped'
<1> SUFFICES ASSUME InHand, After, phase' \in WalkPhases PROVE FALSE
  BY DEF Unstamped
<1>1. phase \notin WalkPhases \/ phase = "failed"
  BY DEF After, TypeSteps, BeginTypes, BrowseType, EndTypes, BeginStructures, WalkStructure, EndStructures,
         StampNode, EndStamping, ResolveNames, CollectArtificial, Ship, WalkPhases
<1>2. Afterwards \/ UNCHANGED walkVars
  BY AfterIsAfterwards
<1>3. QED  BY <1>1, <1>2 DEF Afterwards, walkVars, WalkPhases

LEMMA LaterTypes == InHand /\ Later /\ TypeSteps => TypesTypeOK'
<1> SUFFICES ASSUME InHand, Later, TypeSteps PROVE TypesTypeOK'
  OBVIOUS
<1>1. /\ site \in DOMAIN Catalogue
      /\ world.typeRoots \in Seq(TypeIds)
      /\ \A t \in TypeIds : world.subtypes[t] \in Seq(TypeIds)
  BY TypeWorldTypes DEF InHand, WalkTypeOK, TypeWorld
<1>2. TypesTypeOK
  BY DEF Later
<1>3. CASE BeginTypes \/ BeginStructures
  <2>1. <<StructureBase>> \in Seq(TypeIds)
    BY TypeAssumption
  <2>2. typeQueue' = world.typeRoots \/ (typeQueue' = <<StructureBase>> /\ typeSeen' = {})
    BY <1>3 DEF BeginTypes, BeginStructures
  <2>3. UNCHANGED <<types, structures>> /\ typeSeen' \subseteq typeSeen
    BY <1>3 DEF BeginTypes, BeginStructures
  <2>4. QED  BY <1>1, <1>2, <2>1, <2>2, <2>3 DEF TypesTypeOK
<1>4. CASE EndTypes \/ EndStructures
  BY <1>2, <1>4 DEF EndTypes, EndStructures, TypesTypeOK, typeVars
<1>5. ASSUME typeQueue # <<>>
      PROVE  /\ Head(typeQueue) \in TypeIds /\ Tail(typeQueue) \in Seq(TypeIds)
             /\ Tail(typeQueue) \o world.subtypes[Head(typeQueue)] \in Seq(TypeIds)
             /\ Tail(typeQueue) \o <<>> \in Seq(TypeIds)
             /\ Append(types, Head(typeQueue)) \in Seq(TypeIds)
  <2>1. Head(typeQueue) \in TypeIds /\ Tail(typeQueue) \in Seq(TypeIds)
    BY <1>2, <1>5, HeadTailProperties DEF TypesTypeOK
  <2>2. QED  BY <1>1, <1>2, <2>1, ConcatProperties, EmptySeq, AppendProperties DEF TypesTypeOK
<1>6. CASE BrowseType
  <2>1. typeQueue # <<>> /\ typeSeen' = typeSeen \cup {Head(typeQueue)} /\ UNCHANGED structures
    BY <1>6 DEF BrowseType
  <2>2. /\ typeQueue' = Tail(typeQueue) \/ typeQueue' = Tail(typeQueue) \o world.subtypes[Head(typeQueue)]
        /\ types' = types \/ types' = Append(types, Head(typeQueue))
    BY <1>6 DEF BrowseType, TypeInfo
  <2>3. QED  BY <1>2, <1>5, <2>1, <2>2 DEF TypesTypeOK
<1>7. CASE WalkStructure
  <2>1. typeQueue # <<>> /\ typeSeen' = typeSeen \cup {Head(typeQueue)} /\ UNCHANGED types
    BY <1>7 DEF WalkStructure
  <2>2. typeQueue' = Tail(typeQueue) \o <<>>
        \/ typeQueue' = Tail(typeQueue) \o world.subtypes[Head(typeQueue)]
    BY <1>7 DEF WalkStructure
  <2>3. structures' \subseteq structures \cup {Head(typeQueue)}
    BY <1>7 DEF WalkStructure, StructureDefinition
  <2>4. QED  BY <1>2, <1>5, <2>1, <2>2, <2>3 DEF TypesTypeOK
<1>8. QED  BY <1>3, <1>4, <1>6, <1>7 DEF TypeSteps

--------------------------------------------------------------------------
(* The stamps.                                                             *)

LEMMA WireWorldTypes ==
    ASSUME site \in DOMAIN Catalogue, NEW n \in Nodes
    PROVE  /\ world.id[n] \in Text /\ world.name[n] \in Text /\ world.app \in Text
           /\ NoHash => Free(world.id[n], "#") /\ Free(world.name[n], "#") /\ Free(world.app, "#")
           /\ \A m \in Nodes : world.id[m] = world.id[n] => m = n
BY TypeWorldTypes DEF WireWorld, NoHash

\* Texts without a word, put together.
LEMMA FreeTogether ==
    ASSUME NEW s \in Text, NEW t \in Text, NEW w, Free(s, w), Free(t, w)
    PROVE  s \o t \in Text /\ Free(s \o t, w)
<1>1. /\ s \o t \in Text /\ Len(s \o t) = Len(s) + Len(t)
      /\ \A i \in 1..Len(s) + Len(t) : (s \o t)[i] = IF i <= Len(s) THEN s[i] ELSE t[i - Len(s)]
  BY ConcatProperties DEF Text
<1>2. Len(s) \in Nat /\ Len(t) \in Nat /\ DOMAIN s = 1..Len(s) /\ DOMAIN t = 1..Len(t)
  BY DEF Text
<1>3. DOMAIN (s \o t) = 1..Len(s) + Len(t)
  BY <1>1 DEF Text
<1>4. ASSUME NEW i \in 1..Len(s) + Len(t) PROVE (s \o t)[i] # w
  <2>1. CASE i <= Len(s)
    BY <1>1, <1>2, <2>1 DEF Free
  <2>2. CASE ~(i <= Len(s))
    <3>1. i - Len(s) \in 1..Len(t)
      BY <1>2, <2>2
    <3>2. QED  BY <1>1, <1>2, <2>2, <3>1 DEF Free
  <2>3. QED  BY <2>1, <2>2
<1>5. QED  BY <1>1, <1>3, <1>4 DEF Free

\* A disambiguated text: what was there, "#", and a NodeId.
Marked(a, c) == a \o <<"#">> \o c

LEMMA MarkedTypes ==
    ASSUME NEW a \in Text, NEW c \in Text
    PROVE  /\ Marked(a, c) \in Text /\ Len(Marked(a, c)) = Len(a) + 1 + Len(c)
           /\ \A i \in 1..Len(a) : Marked(a, c)[i] = a[i]
           /\ Marked(a, c)[Len(a) + 1] = "#"
           /\ \A i \in 1..Len(c) : Marked(a, c)[Len(a) + 1 + i] = c[i]
<1>1. <<"#">> \in Text /\ Len(<<"#">>) = 1 /\ <<"#">>[1] = "#"
  BY WireAssumption DEF Text
<1>2. Len(a) \in Nat /\ Len(c) \in Nat
  BY DEF Text
<1> DEFINE b == a \o <<"#">>
<1>3. /\ b \in Text /\ Len(b) = Len(a) + 1
      /\ \A i \in 1..Len(a) + 1 : b[i] = IF i <= Len(a) THEN a[i] ELSE <<"#">>[i - Len(a)]
  BY <1>1, ConcatProperties DEF Text
<1>4. (\A i \in 1..Len(a) : b[i] = a[i]) /\ b[Len(a) + 1] = "#"
  <2>1. \A i \in 1..Len(a) : i \in 1..Len(a) + 1 /\ i <= Len(a)
    BY <1>2
  <2>2. Len(a) + 1 \in 1..Len(a) + 1 /\ ~(Len(a) + 1 <= Len(a)) /\ (Len(a) + 1) - Len(a) = 1
    BY <1>2
  <2>3. QED  BY <1>1, <1>3, <2>1, <2>2
<1> HIDE DEF b
<1>5. /\ b \o c \in Text /\ Len(b \o c) = Len(b) + Len(c)
      /\ \A i \in 1..Len(b) + Len(c) : (b \o c)[i] = IF i <= Len(b) THEN b[i] ELSE c[i - Len(b)]
  <2>1. b \in Seq(Words) /\ c \in Seq(Words)
    BY <1>3 DEF Text
  <2>2. QED  BY <2>1, ConcatProperties DEF Text
<1>6. /\ \A i \in 1..Len(a) : (b \o c)[i] = a[i]
      /\ (b \o c)[Len(a) + 1] = "#"
  BY <1>2, <1>3, <1>4, <1>5
<1>7. ASSUME NEW i \in 1..Len(c) PROVE (b \o c)[Len(a) + 1 + i] = c[i]
  <2>1. /\ Len(a) + 1 + i \in 1..Len(b) + Len(c) /\ ~(Len(a) + 1 + i <= Len(b))
        /\ Len(a) + 1 + i - Len(b) = i
    BY <1>2, <1>3
  <2>2. QED  BY <1>5, <2>1
<1>8. Marked(a, c) = b \o c
  BY DEF Marked, b
<1>9. QED  BY <1>2, <1>3, <1>5, <1>6, <1>7, <1>8

\* A marked text is not one without a mark, and tells what it was made from.
LEMMA MarkIsSeen ==
    ASSUME NEW a \in Text, NEW b \in Text, NEW c \in Text, Free(b, "#")
    PROVE  Marked(a, c) # b
<1>1. Len(a) + 1 \in 1..Len(Marked(a, c)) /\ Marked(a, c)[Len(a) + 1] = "#"
  <2>1. /\ Len(Marked(a, c)) = Len(a) + 1 + Len(c) /\ Marked(a, c)[Len(a) + 1] = "#"
    BY MarkedTypes
  <2>2. Len(a) \in Nat /\ Len(c) \in Nat
    BY DEF Text
  <2>3. QED  BY <2>1, <2>2
<1>2. \A i \in 1..Len(b) : b[i] # "#"
  BY DEF Free, Text
<1>3. QED  BY <1>1, <1>2

LEMMA MarkSplits ==
    ASSUME NEW a \in Text, NEW b \in Text, NEW c \in Text, NEW d \in Text,
           Free(a, "#"), Free(b, "#"), Marked(a, c) = Marked(b, d)
    PROVE  c = d
<1>1. /\ \A i \in 1..Len(a) : a[i] # "#"
      /\ \A i \in 1..Len(b) : b[i] # "#"
      /\ Len(a) \in Nat /\ Len(b) \in Nat /\ Len(c) \in Nat /\ Len(d) \in Nat
  BY DEF Free, Text
<1>2. Len(a) = Len(b)
  <2>1. CASE Len(a) < Len(b)
    <3>1. Len(a) + 1 \in 1..Len(b)
      BY <1>1, <2>1
    <3>2. Marked(b, d)[Len(a) + 1] = b[Len(a) + 1] /\ Marked(a, c)[Len(a) + 1] = "#"
      BY <3>1, MarkedTypes
    <3>3. QED  BY <1>1, <3>1, <3>2
  <2>2. CASE Len(b) < Len(a)
    <3>1. Len(b) + 1 \in 1..Len(a)
      BY <1>1, <2>2
    <3>2. Marked(a, c)[Len(b) + 1] = a[Len(b) + 1] /\ Marked(b, d)[Len(b) + 1] = "#"
      BY <3>1, MarkedTypes
    <3>3. QED  BY <1>1, <3>1, <3>2
  <2>3. QED  BY <1>1, <2>1, <2>2
<1>3. Len(c) = Len(d)
  <2>1. Len(a) + 1 + Len(c) = Len(b) + 1 + Len(d)
    <3>1. Len(Marked(a, c)) = Len(a) + 1 + Len(c)
      BY MarkedTypes
    <3>2. Len(Marked(b, d)) = Len(b) + 1 + Len(d)
      BY MarkedTypes
    <3>3. QED  BY <3>1, <3>2
  <2>2. QED  BY <1>1, <1>2, <2>1
<1>4. ASSUME NEW i \in 1..Len(c) PROVE c[i] = d[i]
  <2> DEFINE m == Marked(a, c)
  <2>1. m[Len(a) + 1 + i] = c[i]
    <3>1. \A j \in 1..Len(c) : Marked(a, c)[Len(a) + 1 + j] = c[j]
      BY MarkedTypes
    <3>2. QED  BY <3>1
  <2>2. m[Len(b) + 1 + i] = d[i]
    <3>1. \A j \in 1..Len(d) : Marked(b, d)[Len(b) + 1 + j] = d[j]
      BY MarkedTypes
    <3>2. QED  BY <1>3, <3>1
  <2> HIDE DEF m
  <2>3. QED  BY <1>2, <2>1, <2>2
<1>5. QED  BY <1>3, <1>4, SeqEqual DEF Text

--------------------------------------------------------------------------
(* A node is stamped.                                                      *)

\* What a stamp was made from: paths and NodeIds, which have no "#".
Made(n) ==
  /\ Free(stamps[n].path, "#")
  /\ \E plain \in Text :
       /\ Free(plain, "#")
       /\ stamps[n].wire = plain \/ stamps[n].wire = Marked(plain, world.id[n])

Hashless == NoHash => \A n \in DOMAIN stamps : Made(n)

\* The node that is next, the path and the wire id that it gets.
LEMMA RowTypes ==
    ASSUME InHand, stamped < Len(out), WiresTypeOK
    PROVE  /\ out[stamped + 1] \in NodeDescriptor
           /\ out[stamped + 1].node \in Nodes
           /\ stamped \in Nat /\ stamped + 1 \in 1..Len(out) /\ Len(out) \in Nat
<1>1. out \in Seq(NodeDescriptor) /\ Len(out) \in Nat
  BY DEF InHand, WalkTypeOK
<1>2. stamped \in Nat /\ stamped + 1 \in 1..Len(out)
  BY <1>1 DEF WiresTypeOK
<1>3. out[stamped + 1] \in NodeDescriptor
  BY <1>1, <1>2
<1>4. QED  BY <1>1, <1>2, <1>3 DEF NodeDescriptor

LEMMA PathTypes ==
    ASSUME InHand, WiresTypeOK, NEW row \in NodeDescriptor
    PROVE  /\ Path(row) \in Text /\ Plain(row) \in Text
           /\ Wire(row) \in Text /\ ParentWire(row) \in Text
           /\ (NoHash /\ Hashless) => Free(Path(row), "#") /\ Free(Plain(row), "#")
<1>1. row.node \in Nodes /\ site \in DOMAIN Catalogue
  BY DEF NodeDescriptor, InHand, WalkTypeOK
<1>2. /\ world.id[row.node] \in Text /\ world.name[row.node] \in Text /\ world.app \in Text
      /\ NoHash => Free(world.id[row.node], "#") /\ Free(world.name[row.node], "#") /\ Free(world.app, "#")
  BY <1>1, WireWorldTypes
<1>3. Name(row) \in Text /\ (NoHash => Free(Name(row), "#"))
  BY <1>2 DEF Name
<1>4. <<".">> \in Text /\ Free(<<".">>, "#") /\ <<>> \in Text /\ Free(<<>>, "#")
  BY WireAssumption DEF Text, Free
<1>5. ASSUME row.parent \in DOMAIN stamps
      PROVE  /\ stamps[row.parent].path \in Text /\ stamps[row.parent].wire \in Text
             /\ (NoHash /\ Hashless) => Free(stamps[row.parent].path, "#")
  BY <1>5 DEF WiresTypeOK, Hashless, Made
<1>6. Path(row) \in Text /\ ((NoHash /\ Hashless) => Free(Path(row), "#"))
  <2>1. CASE row.parent = NoNode
    BY <1>4, <2>1 DEF Path
  <2>2. CASE row.parent # NoNode /\ row.parent \in DOMAIN stamps /\ stamps[row.parent].path # <<>>
    <3> DEFINE above == stamps[row.parent].path
    <3>1. above \in Text /\ ((NoHash /\ Hashless) => Free(above, "#"))
      BY <1>5, <2>2
    <3>2. Path(row) = (above \o <<".">>) \o Name(row)
      BY <2>2 DEF Path
    <3> HIDE DEF above
    <3>3. above \o <<".">> \in Text
      BY <1>4, <3>1, ConcatProperties DEF Text
    <3>4. Path(row) \in Text
      BY <1>3, <3>2, <3>3, ConcatProperties DEF Text
    <3>5. ASSUME NoHash, Hashless PROVE Free(Path(row), "#")
      <4>1. Free(above \o <<".">>, "#")
        BY <1>4, <3>1, <3>5, FreeTogether
      <4>2. QED  BY <1>3, <3>2, <3>3, <3>5, <4>1, FreeTogether
    <3>6. QED  BY <3>4, <3>5
  <2>3. CASE row.parent # NoNode /\ ~(row.parent \in DOMAIN stamps /\ stamps[row.parent].path # <<>>)
    BY <1>3, <2>3 DEF Path
  <2>4. QED  BY <2>1, <2>2, <2>3
<1>7. Plain(row) \in Text /\ ((NoHash /\ Hashless) => Free(Plain(row), "#"))
  BY <1>2, <1>6 DEF Plain
<1>8. Wire(row) \in Text
  BY <1>2, <1>7, MarkedTypes DEF Wire, Marked
<1>9. ParentWire(row) \in Text
  BY <1>4, <1>5 DEF ParentWire
<1>10. QED  BY <1>6, <1>7, <1>8, <1>9

\* What stamping does to the stamps.
LEMMA StampTypes ==
    ASSUME InHand, Later, StampNode
    PROVE  \E row \in NodeDescriptor :
             /\ row = out[stamped + 1] /\ stamped' = stamped + 1
             /\ stamped \in Nat /\ stamped + 1 \in 1..Len(out) /\ Len(out) \in Nat
             /\ DOMAIN stamps' = DOMAIN stamps \cup {row.node}
             /\ \A n \in DOMAIN stamps : n # row.node => stamps'[n] = stamps[n]
             /\ stamps'[row.node] = [path |-> Path(row), wire |-> Wire(row), parent |-> ParentWire(row)]
             /\ UNCHANGED <<out, site>>
<1>1. stamped < Len(out) /\ WiresTypeOK /\ UNCHANGED walkVars
  BY DEF StampNode, Later
<1>2. /\ out[stamped + 1] \in NodeDescriptor /\ stamped \in Nat
      /\ stamped + 1 \in 1..Len(out) /\ Len(out) \in Nat
  BY <1>1, RowTypes
<1> DEFINE row == out[stamped + 1]
<1>3. stamps' = [n \in DOMAIN stamps \cup {row.node} |->
                   IF n = row.node
                   THEN [path |-> Path(row), wire |-> Wire(row), parent |-> ParentWire(row)]
                   ELSE stamps[n]]
      /\ stamped' = stamped + 1
  BY DEF StampNode
<1>4. UNCHANGED <<out, site>>
  BY <1>1 DEF walkVars, tree
<1> HIDE DEF row
<1>5. /\ DOMAIN stamps' = DOMAIN stamps \cup {row.node}
      /\ \A n \in DOMAIN stamps : n # row.node => stamps'[n] = stamps[n]
      /\ stamps'[row.node] = [path |-> Path(row), wire |-> Wire(row), parent |-> ParentWire(row)]
  BY <1>3
<1>6. row = out[stamped + 1] /\ row \in NodeDescriptor
  BY <1>2 DEF row
<1>7. QED  BY <1>2, <1>3, <1>4, <1>5, <1>6

LEMMA LaterStamp == InHand /\ Later /\ StampNode => WiresTypeOK'
<1> SUFFICES ASSUME InHand, Later, StampNode PROVE WiresTypeOK'
  OBVIOUS
<1>1. PICK row \in NodeDescriptor :
        /\ row = out[stamped + 1] /\ stamped' = stamped + 1
        /\ stamped \in Nat /\ stamped + 1 \in 1..Len(out) /\ Len(out) \in Nat
        /\ DOMAIN stamps' = DOMAIN stamps \cup {row.node}
        /\ \A n \in DOMAIN stamps : n # row.node => stamps'[n] = stamps[n]
        /\ stamps'[row.node] = [path |-> Path(row), wire |-> Wire(row), parent |-> ParentWire(row)]
        /\ UNCHANGED <<out, site>>
  BY StampTypes
<1>2. WiresTypeOK
  BY DEF Later
<1>3. stamps'[row.node] \in [path : Text, wire : Text, parent : Text]
  BY <1>1, <1>2, PathTypes
<1>4. DOMAIN stamps' = {out[i].node : i \in 1..stamped'}
  <2>1. DOMAIN stamps = {out[i].node : i \in 1..stamped}
    BY <1>2 DEF WiresTypeOK
  <2>2. 1..stamped' = 1..stamped \cup {stamped + 1}
    BY <1>1
  <2>3. QED  BY <1>1, <2>1, <2>2
<1>5. \A n \in DOMAIN stamps' : stamps'[n] \in [path : Text, wire : Text, parent : Text]
  BY <1>1, <1>2, <1>3 DEF WiresTypeOK
<1>6. stamped' \in 0..Len(out)'
  BY <1>1
<1>7. QED  BY <1>1, <1>4, <1>5, <1>6 DEF WiresTypeOK

\* The wire id that a node gets is nobody else's.
LEMMA StampIsNew ==
  InHand /\ Later /\ Hashless /\ WiresDistinct /\ StampNode => Hashless' /\ WiresDistinct'
<1> SUFFICES ASSUME InHand, Later, Hashless, WiresDistinct, StampNode PROVE Hashless' /\ WiresDistinct'
  OBVIOUS
<1>0. NoHash' <=> NoHash
  <2>1. UNCHANGED site
    BY DEF StampNode, walkVars
  <2>2. world' = world
    BY <2>1, SameServer
  <2>3. QED  BY <2>2 DEF NoHash, Free
<1> SUFFICES ASSUME NoHash
             PROVE  /\ \A n \in DOMAIN stamps' : Made(n)'
                    /\ \A m, n \in DOMAIN stamps' : stamps'[m].wire = stamps'[n].wire => m = n
  BY <1>0 DEF Hashless, WiresDistinct
<1>1. PICK row \in NodeDescriptor :
        /\ row = out[stamped + 1] /\ stamped' = stamped + 1
        /\ stamped \in Nat /\ stamped + 1 \in 1..Len(out) /\ Len(out) \in Nat
        /\ DOMAIN stamps' = DOMAIN stamps \cup {row.node}
        /\ \A n \in DOMAIN stamps : n # row.node => stamps'[n] = stamps[n]
        /\ stamps'[row.node] = [path |-> Path(row), wire |-> Wire(row), parent |-> ParentWire(row)]
        /\ UNCHANGED <<out, site>>
  BY StampTypes
<1>2. /\ Plain(row) \in Text /\ Free(Path(row), "#") /\ Free(Plain(row), "#")
      /\ row.node \in Nodes /\ site \in DOMAIN Catalogue /\ world.id[row.node] \in Text
  <2>1. WiresTypeOK /\ row.node \in Nodes /\ site \in DOMAIN Catalogue
    BY DEF Later, NodeDescriptor, InHand, WalkTypeOK
  <2>2. QED  BY <2>1, PathTypes, WireWorldTypes
<1>3. world' = world
  BY <1>1, SameServer
<1>4. /\ stamps'[row.node].path = Path(row) /\ stamps'[row.node].wire = Wire(row)
      /\ Wire(row) = IF IsTaken(Plain(row)) THEN Marked(Plain(row), world.id[row.node]) ELSE Plain(row)
  BY <1>1 DEF Wire, Marked
<1>5. Made(row.node)'
  BY <1>2, <1>3, <1>4 DEF Made
<1>6. ASSUME NEW n \in DOMAIN stamps' PROVE Made(n)'
  <2>1. CASE n = row.node
    BY <1>5, <2>1
  <2>2. CASE n # row.node
    BY <1>1, <1>3, <2>2 DEF Hashless, Made
  <2>3. QED  BY <2>1, <2>2
<1>7. \A n \in DOMAIN stamps : n \in Nodes
  <2>1. DOMAIN stamps = {out[i].node : i \in 1..stamped} /\ stamped \in 0..Len(out)
    BY DEF Later, WiresTypeOK
  <2>2. \A i \in 1..stamped : out[i] \in NodeDescriptor
    BY <1>1, <2>1 DEF InHand, WalkTypeOK
  <2>3. QED  BY <2>1, <2>2 DEF NodeDescriptor
<1>8. ASSUME NEW n \in DOMAIN stamps, n # row.node PROVE stamps[n].wire # Wire(row)
  <2>1. PICK plain \in Text :
          Free(plain, "#") /\ (stamps[n].wire = plain \/ stamps[n].wire = Marked(plain, world.id[n]))
    BY DEF Hashless, Made
  <2>2. CASE ~IsTaken(Plain(row))
    BY <1>4, <2>2 DEF IsTaken
  <2>3. CASE IsTaken(Plain(row))
    <3>1. Wire(row) = Marked(Plain(row), world.id[row.node])
      BY <1>4, <2>3
    <3>2. CASE stamps[n].wire = plain
      BY <1>2, <2>1, <3>1, <3>2, MarkIsSeen
    <3>3. CASE stamps[n].wire = Marked(plain, world.id[n])
      <4>1. n \in Nodes /\ world.id[n] \in Text /\ (world.id[n] = world.id[row.node] => n = row.node)
        BY <1>2, <1>7, WireWorldTypes
      <4>2. Marked(Plain(row), world.id[row.node]) # Marked(plain, world.id[n])
        BY <1>2, <1>8, <2>1, <4>1, MarkSplits
      <4>3. QED  BY <3>1, <3>3, <4>2
    <3>4. QED  BY <2>1, <3>2, <3>3
  <2>4. QED  BY <2>2, <2>3
<1>9. ASSUME NEW m \in DOMAIN stamps', NEW n \in DOMAIN stamps', stamps'[m].wire = stamps'[n].wire
      PROVE  m = n
  BY <1>1, <1>4, <1>8, <1>9 DEF WiresDistinct
<1>10. QED  BY <1>6, <1>9

--------------------------------------------------------------------------
(* Names and artificial types.                                             *)

LEMMA RowOf ==
    ASSUME InHand, NEW n \in Emitted
    PROVE  Row(n) \in NodeDescriptor /\ n \in Nodes /\ Row(n).node = n
<1>1. out \in Seq(NodeDescriptor)
  BY DEF InHand, WalkTypeOK
<1>2. \E i \in DOMAIN out : out[i].node = n
  BY DEF Emitted
<1>3. Position(n) \in DOMAIN out /\ out[Position(n)].node = n
  BY <1>2 DEF Position
<1>4. Row(n) \in NodeDescriptor
  BY <1>1, <1>3 DEF Row
<1>5. QED  BY <1>3, <1>4 DEF Row, NodeDescriptor

LEMMA LaterNames == InHand /\ Later /\ ResolveNames => Later'
<1> SUFFICES ASSUME InHand, Later, ResolveNames PROVE Later'
  OBVIOUS
<1>1. /\ UNCHANGED <<typeQueue, typeSeen, types, structures, stamps, stamped, artificial, out>>
      /\ named' \subseteq Unresolved
  BY DEF ResolveNames, typeVars, wireVars, tree
<1>2. Unresolved \subseteq TypeIds
  <2>1. ASSUME NEW n \in Emitted PROVE DataType(n) \in TypeIds \cup {NoType}
    <3>1. n \in Nodes /\ site \in DOMAIN Catalogue
      BY RowOf DEF InHand, WalkTypeOK
    <3>2. world.datatype[n] \in TypeIds \cup {NoType}
      BY <3>1, TypeWorldTypes DEF ModelWorld
    <3>3. QED  BY <3>2 DEF DataType
  <2>2. QED  BY <2>1 DEF Unresolved
<1>3. Unstamped'
  BY UnstampedAfter DEF After
<1>4. QED  BY <1>1, <1>2, <1>3 DEF Later, TypesTypeOK, WiresTypeOK, ShapesTypeOK

LEMMA LaterShapes == InHand /\ Later /\ CollectArtificial => Later'
<1> SUFFICES ASSUME InHand, Later, CollectArtificial PROVE Later'
  OBVIOUS
<1>1. /\ UNCHANGED <<typeQueue, typeSeen, types, structures, stamps, stamped, named, out>>
      /\ artificial' = Artificial
  BY DEF CollectArtificial, typeVars, wireVars, tree
<1>2. ASSUME NEW n \in Emitted
      PROVE  ValueSchema(n) \in [of : TypeIds \cup {NoType}, array : BOOLEAN]
  <2>1. n \in Nodes /\ site \in DOMAIN Catalogue
    BY RowOf DEF InHand, WalkTypeOK
  <2>2. world.rank[n] \in Int
    BY <2>1, TypeWorldTypes DEF ModelWorld, Ranks
  <2>3. (world.rank[n] >= 1) \in BOOLEAN
    BY <2>2
  <2>4. (IF DataType(n) \in Builtin THEN DataType(n) ELSE NoType) \in TypeIds \cup {NoType}
    BY ModelAssumption
  <2>5. QED  BY <2>3, <2>4, Zenon DEF ValueSchema
<1>3. ShapesTypeOK'
  <2>1. ASSUME NEW a \in Artificial PROVE a.schema \in [of : TypeIds \cup {NoType}, array : BOOLEAN]
    <3>1. PICK n \in Emitted : a = [shape |-> WithoutBang(Shape(n)), schema |-> ValueSchema(n)]
      BY DEF Artificial
    <3>2. a.schema = ValueSchema(n)
      BY <3>1
    <3>3. QED  BY <1>2, <3>2
  <2>2. QED  BY <1>1, <2>1 DEF ShapesTypeOK
<1>4. Unstamped'
  BY UnstampedAfter DEF After
<1>5. QED  BY <1>1, <1>3, <1>4 DEF Later, TypesTypeOK, WiresTypeOK

LEMMA LaterTypeSteps == InHand /\ Later /\ TypeSteps /\ UNCHANGED <<wireVars, modelVars>> => Later'
<1> SUFFICES ASSUME InHand, Later, TypeSteps, UNCHANGED <<wireVars, modelVars>> PROVE Later'
  OBVIOUS
<1>1. UNCHANGED <<stamps, stamped, named, artificial, out>>
  BY DEF wireVars, modelVars, TypeSteps, BeginTypes, BrowseType, EndTypes, BeginStructures, WalkStructure,
         EndStructures, tree
<1>2. TypesTypeOK' /\ Unstamped'
  BY LaterTypes, UnstampedAfter DEF After
<1>3. QED  BY <1>1, <1>2 DEF Later, WiresTypeOK, ShapesTypeOK

LEMMA LaterAfter ==
  InHand /\ Later /\ (StampNode \/ EndStamping \/ Ship \/ UNCHANGED vars)
    /\ (StampNode \/ EndStamping => UNCHANGED modelVars) => Later'
<1> SUFFICES ASSUME InHand, Later, StampNode \/ EndStamping \/ Ship \/ UNCHANGED vars,
                    StampNode \/ EndStamping => UNCHANGED modelVars
             PROVE  Later'
  OBVIOUS
<1>1. UNCHANGED <<typeQueue, typeSeen, types, structures, named, artificial, out>>
  BY DEF StampNode, EndStamping, Ship, vars, walkVars, tree, typeVars, modelVars
<1>2. Unstamped'
  <2>1. CASE UNCHANGED vars
    BY <2>1 DEF vars, walkVars, wireVars, Later, Unstamped
  <2>2. QED  BY <2>1, UnstampedAfter DEF After
<1>3. WiresTypeOK'
  <2>1. CASE StampNode
    BY <2>1, LaterStamp
  <2>2. CASE EndStamping \/ Ship \/ UNCHANGED vars
    BY <1>1, <2>2 DEF EndStamping, Ship, vars, wireVars, Later, WiresTypeOK
  <2>3. QED  BY <2>1, <2>2
<1>4. QED  BY <1>1, <1>2, <1>3 DEF Later, TypesTypeOK, ShapesTypeOK

--------------------------------------------------------------------------
(* The invariant of a discovery.                                           *)

Inv == InHand /\ Accounted /\ Unhurt /\ Sized /\ Later /\ Hashless /\ WiresDistinct

LEMMA InvInit == Init => Inv
<1> SUFFICES ASSUME Init PROVE Inv
  OBVIOUS
<1>1. WalkInit
  BY DEF Init
<1>2. InHand /\ Accounted /\ Unhurt /\ Sized /\ Later
  BY <1>1, InHandInit, AccountedInit, UnhurtInit, SizedInit, LaterInit
<1>3. DOMAIN stamps = {}
  BY DEF Init, WireInit
<1>4. QED  BY <1>2, <1>3 DEF Inv, Hashless, WiresDistinct

\* What the walk and what comes after it leave of its own part of the invariant.
LEMMA WalkPart ==
  Inv /\ [Next]_vars => (InHand /\ Accounted /\ Unhurt /\ Sized)'
<1> SUFFICES ASSUME Inv, [Next]_vars PROVE (InHand /\ Accounted /\ Unhurt /\ Sized)'
  OBVIOUS
<1>1. Walk \/ After \/ UNCHANGED walkVars
  BY DEF Next, After, vars
<1>2. Walk \/ Afterwards \/ UNCHANGED walkVars
  BY <1>1, AfterIsAfterwards DEF Inv
<1>3. QED  BY <1>2, InHandStep, InHandAfterwards, AccountedStep, AccountedAfterwards, UnhurtStep,
              UnhurtAfterwards, SizedStep, SizedAfterwards DEF Inv

\* Steps that stamp nothing keep the wire ids apart.
LEMMA WiresKept ==
    ASSUME Hashless, WiresDistinct, UNCHANGED <<site, stamps>>
    PROVE  Hashless' /\ WiresDistinct'
<1>1. world' = world
  BY SameServer
<1>2. NoHash' <=> NoHash
  BY <1>1 DEF NoHash, Free
<1>3. \A n \in DOMAIN stamps : Made(n)' <=> Made(n)
  BY <1>1 DEF Made
<1>4. QED  BY <1>2, <1>3 DEF Hashless, WiresDistinct

LEMMA InvStep == Inv /\ [Next]_vars => Inv'
<1> SUFFICES ASSUME Inv, [Next]_vars PROVE Inv'
  OBVIOUS
<1>1. InHand' /\ Accounted' /\ Unhurt' /\ Sized'
  BY WalkPart
<1>2. Later'
  <2>1. InHand /\ Later
    BY DEF Inv
  <2>2. CASE Walk /\ UNCHANGED <<typeVars, wireVars, modelVars>>
    BY <1>1, <2>1, <2>2, LaterWalk
  <2>3. CASE TypeSteps /\ UNCHANGED <<wireVars, modelVars>>
    BY <2>1, <2>3, LaterTypeSteps
  <2>4. CASE (StampNode \/ EndStamping) /\ UNCHANGED modelVars
    BY <2>1, <2>4, LaterAfter
  <2>5. CASE ResolveNames
    BY <2>1, <2>5, LaterNames
  <2>6. CASE CollectArtificial
    BY <2>1, <2>6, LaterShapes
  <2>7. CASE Ship \/ UNCHANGED vars
    <3>1. UNCHANGED modelVars
      BY <2>7 DEF Ship, vars
    <3>2. QED  BY <2>1, <2>7, <3>1, LaterAfter
  <2>8. QED  BY <2>2, <2>3, <2>4, <2>5, <2>6, <2>7 DEF Next
<1>3. Hashless' /\ WiresDistinct'
  <2>1. CASE StampNode
    BY <2>1, StampIsNew DEF Inv
  <2>2. CASE ~StampNode
    <3>1. UNCHANGED stamps
      BY <2>2 DEF Next, EndStamping, ResolveNames, CollectArtificial, Ship, vars, wireVars
    <3>2. UNCHANGED site
      <4>1. Walk => UNCHANGED site
        BY DEF Walk, BrowseChildren, DiscoverMaxParents, BrowseRoot, BrowseBatch, BrowseFails,
               FollowContinuations, BeginRetries, RetrySolo, RetryEmpty, FollowSolo, SoloEnds,
               ReadMetadata, SkipParent, NextParent, VisitChild, EndBatch, EndWalk, WalkAborts
      <4>2. Walk \/ Afterwards \/ UNCHANGED walkVars
        BY AfterIsAfterwards DEF Next, After, vars, Inv
      <4>3. QED  BY <4>1, <4>2 DEF Afterwards, walkVars
    <3>3. QED  BY <3>1, <3>2, WiresKept DEF Inv
  <2>3. QED  BY <2>1, <2>2
<1>4. QED  BY <1>1, <1>2, <1>3 DEF Inv

LEMMA Invariance == Spec => []Inv
<1>1. QED  BY InvInit, InvStep, PTL DEF Spec

--------------------------------------------------------------------------
(* The theorems.                                                           *)

\* Every variable of a discovery keeps its type.
THEOREM DiscoveryTypes == Spec => []TypeOK
<1>1. Inv => TypeOK
  BY DEF Inv, InHand, Later, TypeOK, ShapesTypeOK
<1>2. QED  BY <1>1, Invariance, PTL

\* A walk without faults of a server with continuation points finds all.
THEOREM NothingIsMissed == Spec => []NothingMissed
<1>1. Inv => NothingMissed
  BY MissedFollows DEF Inv
<1>2. QED  BY <1>1, Invariance, PTL

\* What a walk misses without a failing call is counted.
THEOREM LossesAreCounted == Spec => []LossIsCounted
<1>1. Inv => LossIsCounted
  BY LossFollows DEF Inv
<1>2. QED  BY <1>1, Invariance, PTL

\* Batches of the size that an honest server publishes never starve it.
THEOREM HonestLimitsDo == Spec => []HonestLimitsSuffice
<1>1. Inv => HonestLimitsSuffice
  BY SufficeFollows DEF Inv
<1>2. QED  BY <1>1, Invariance, PTL

\* No two nodes have one wire id.
THEOREM WiresAreDistinct == Spec => []WiresDistinct
<1>1. Inv => WiresDistinct
  BY DEF Inv
<1>2. QED  BY <1>1, Invariance, PTL

\* The walk implements Exploration.
THEOREM WalkExplores == Spec => ExplorationSpec
<1>1. Init => Explored!Init
  BY DEF Init, WalkInit, Explored!Init
<1>2. Inv /\ [Next]_vars => [Explored!Next]_<<visited, site>>
  <2> SUFFICES ASSUME Inv, [Next]_vars PROVE [Explored!Next]_<<visited, site>>
    OBVIOUS
  <2>1. Walk \/ Afterwards \/ UNCHANGED walkVars
    BY AfterIsAfterwards DEF Next, After, vars, Inv
  <2>2. QED  BY <2>1, WalkFinds DEF Afterwards, walkVars, tree, Inv
<1>3. QED  BY <1>1, <1>2, Invariance, PTL DEF Spec, ExplorationSpec, Explored!Spec

--------------------------------------------------------------------------
(* What the routes make of a discovery.                                    *)

\* Every node has one row, after the row of its parent.
RowsInOrder ==
  /\ \A i \in DOMAIN out : out[i].node \in visited /\ out[i].parent \in visited \cup {NoNode}
  /\ \A i, j \in DOMAIN out : out[i].node = out[j].node => i = j
  /\ \A i, j \in DOMAIN out : out[j].node = out[i].parent => j < i

\* A stamp has the parent's wire id, if the parent is listed.
Traced ==
  \A i \in 1..stamped :
    stamps[out[i].node].parent =
      IF out[i].parent \in DOMAIN stamps THEN stamps[out[i].parent].wire ELSE <<>>

\* A wire id is the path or the NodeId, marked if another node has it.
Written(n) ==
  \E plain \in {stamps[n].path, world.id[n]} \ {<<>>} :
    \/ stamps[n].wire = plain
    \/ /\ stamps[n].wire = Marked(plain, world.id[n])
       /\ \E m \in DOMAIN stamps : stamps[m].wire = plain

StampedPhases == {"stamped", "named", "browsed", "structures", "merged", "shipped"}
AllStamped == phase \in StampedPhases => stamped = Len(out)

Recorded == RowsInOrder /\ Traced /\ (\A n \in DOMAIN stamps : Written(n)) /\ AllStamped

LEMMA RecordedInit == Init => Recorded
<1> SUFFICES ASSUME Init PROVE Recorded
  OBVIOUS
<1>1. out = <<>> /\ stamped = 0 /\ DOMAIN stamps = {} /\ phase = "limits"
  BY DEF Init, WalkInit, WireInit
<1>2. QED  BY <1>1 DEF Recorded, RowsInOrder, Traced, AllStamped, StampedPhases

\* A new row is of a node nobody has seen, and of a parent somebody has.
LEMMA RowAdded ==
    ASSUME RowsInOrder, out \in Seq(NodeDescriptor), NEW row \in NodeDescriptor,
           row.node \notin visited, row.parent \in visited \cup {NoNode},
           visited' = visited \cup {row.node}, out' = Append(out, row), NoNode \notin Nodes
    PROVE  RowsInOrder'
<1>1. /\ Len(out) \in Nat /\ DOMAIN out = 1..Len(out) /\ DOMAIN out' = 1..(Len(out) + 1)
      /\ out'[Len(out) + 1] = row /\ \A i \in 1..Len(out) : out'[i] = out[i]
  BY AppendProperties, LenProperties
<1>2. row.node \in Nodes /\ row.parent # row.node
  BY DEF NodeDescriptor
<1>3. \A i \in DOMAIN out : out[i].node # row.node /\ out[i].parent # row.node
  BY <1>2 DEF RowsInOrder
<1>4. ASSUME NEW i \in DOMAIN out'
      PROVE  out'[i].node \in visited' /\ out'[i].parent \in visited' \cup {NoNode}
  BY <1>1 DEF RowsInOrder
<1>5. ASSUME NEW i \in DOMAIN out', NEW j \in DOMAIN out', out'[i].node = out'[j].node PROVE i = j
  BY <1>1, <1>3, <1>5 DEF RowsInOrder
<1>6. ASSUME NEW i \in DOMAIN out', NEW j \in DOMAIN out', out'[j].node = out'[i].parent PROVE j < i
  BY <1>1, <1>2, <1>3, <1>6 DEF RowsInOrder
<1>7. QED  BY <1>4, <1>5, <1>6 DEF RowsInOrder

LEMMA RowsStep == InHand /\ RowsInOrder /\ [Next]_vars => RowsInOrder'
<1> SUFFICES ASSUME InHand, RowsInOrder, [Next]_vars PROVE RowsInOrder'
  OBVIOUS
<1>1. out \in Seq(NodeDescriptor) /\ readOk \in BOOLEAN /\ site \in DOMAIN Catalogue
  BY DEF InHand, WalkTypeOK
<1>2. NoNode \notin Nodes /\ Root \in Nodes
  BY WalkAssumption
<1>3. CASE BrowseRoot
  <2>1. visited = {} /\ out = <<>>
    <3>1. visited = {}
      BY <1>3 DEF BrowseRoot, InHand, Phased
    <3>2. DOMAIN out = {}
      BY <3>1, <1>2 DEF RowsInOrder
    <3>3. QED  BY <1>1, <3>1, <3>2, EmptySeq, LenProperties
  <2>2. CASE NoNodeInfo
    BY <2>2 DEF NoNodeInfo, tree, RowsInOrder
  <2>3. CASE ~NoNodeInfo
    <3> DEFINE row == Descriptor(Root, NoNode, "", FALSE)
    <3>1. /\ visited' = visited \cup {Root}
          /\ out' = IF Allowed(Root) THEN <<row>> ELSE <<>>
      BY <1>3, <2>1, <2>3 DEF BrowseRoot
    <3>2. row \in NodeDescriptor /\ row.node = Root /\ row.parent = NoNode
      BY <1>2 DEF Descriptor, NodeDescriptor, Relations
    <3> HIDE DEF row
    <3>3. CASE Allowed(Root)
      <4>1. out' = Append(out, row)
        BY <2>1, <3>1, <3>3
      <4>2. QED  BY <1>1, <1>2, <2>1, <3>1, <3>2, <4>1, RowAdded
    <3>4. CASE ~Allowed(Root)
      BY <3>1, <3>4 DEF RowsInOrder
    <3>5. QED  BY <3>3, <3>4
  <2>4. QED  BY <2>2, <2>3
<1>4. CASE VisitChild
  <2>1. CASE UNCHANGED tree
    BY <2>1 DEF tree, RowsInOrder
  <2>2. CASE ~UNCHANGED tree
    <3>1. /\ ChildRef.to \notin visited /\ Visit(ChildRef, batch[cursor[1]])
          /\ InBatch /\ cursor[2] <= Here.got
      BY <1>4, <2>2 DEF VisitChild
    <3>2. batch[cursor[1]] \in Nodes /\ ChildRef \in [to : Nodes, rel : Relations]
      BY <3>1, ChildTypes
    <3>3. batch[cursor[1]] \in visited
      <4>1. Len(results) = Len(batch) /\ results \in Seq(Result) /\ batch \in Seq(Nodes)
        BY DEF InHand, WalkTypeOK
      <4>2. cursor[1] \in DOMAIN batch
        BY <3>1, <4>1 DEF InBatch
      <4>3. QED  BY <4>2 DEF InHand, Due
    <3> DEFINE n == ChildRef.to
               row == Descriptor(n, batch[cursor[1]], ChildRef.rel, readOk /\ world.class[n] = "Variable")
    <3>4. /\ visited' = visited \cup {n}
          /\ out' = IF Allowed(n) THEN Append(out, row) ELSE out
      BY <3>1 DEF Visit
    <3>5. row \in NodeDescriptor /\ row.node = n /\ row.parent = batch[cursor[1]] /\ n \notin visited
      BY <1>1, <3>1, <3>2 DEF Descriptor, NodeDescriptor
    <3> HIDE DEF row, n
    <3>6. CASE Allowed(n)
      BY <1>1, <1>2, <3>3, <3>4, <3>5, <3>6, RowAdded
    <3>7. CASE ~Allowed(n)
      BY <3>4, <3>7 DEF RowsInOrder
    <3>8. QED  BY <3>6, <3>7
  <2>3. QED  BY <2>1, <2>2
<1>5. CASE ~BrowseRoot /\ ~VisitChild
  <2>1. UNCHANGED <<out, visited>>
    <3>1. Walk => UNCHANGED <<out, visited>>
      BY <1>5 DEF Walk, BrowseChildren, DiscoverMaxParents, BrowseBatch, BrowseFails,
         FollowContinuations, BeginRetries, RetrySolo, RetryEmpty, FollowSolo, SoloEnds,
         ReadMetadata, SkipParent, NextParent, EndBatch, EndWalk, WalkAborts, tree
    <3>2. Walk \/ Afterwards \/ UNCHANGED walkVars
      BY AfterIsAfterwards DEF Next, After, vars
    <3>3. QED  BY <3>1, <3>2 DEF Afterwards, walkVars, tree
  <2>2. QED  BY <2>1 DEF RowsInOrder
<1>6. QED  BY <1>3, <1>4, <1>5

\* A node that is stamped is not stamped again, and its parent was before.
LEMMA StampRecords ==
    ASSUME InHand, Later, RowsInOrder, Traced, \A n \in DOMAIN stamps : Written(n), StampNode
    PROVE  Traced' /\ \A n \in DOMAIN stamps' : Written(n)'
<1>1. PICK row \in NodeDescriptor :
        /\ row = out[stamped + 1] /\ stamped' = stamped + 1
        /\ stamped \in Nat /\ stamped + 1 \in 1..Len(out) /\ Len(out) \in Nat
        /\ DOMAIN stamps' = DOMAIN stamps \cup {row.node}
        /\ \A n \in DOMAIN stamps : n # row.node => stamps'[n] = stamps[n]
        /\ stamps'[row.node] = [path |-> Path(row), wire |-> Wire(row), parent |-> ParentWire(row)]
        /\ UNCHANGED <<out, site>>
  BY StampTypes
<1>2. /\ WiresTypeOK /\ site \in DOMAIN Catalogue /\ row.node \in Nodes
      /\ DOMAIN stamps = {out[i].node : i \in 1..stamped} /\ DOMAIN out = 1..Len(out)
  BY DEF Later, WiresTypeOK, InHand, WalkTypeOK, NodeDescriptor
<1>3. row.node \notin DOMAIN stamps
  <2>1. SUFFICES ASSUME NEW i \in 1..stamped, out[i].node = row.node PROVE FALSE
    BY <1>2
  <2>2. i \in DOMAIN out /\ stamped + 1 \in DOMAIN out
    BY <1>1, <1>2
  <2>3. i = stamped + 1
    BY <1>1, <2>1, <2>2 DEF RowsInOrder
  <2>4. QED  BY <1>1, <2>3
<1>4. \A n \in DOMAIN stamps : stamps'[n] = stamps[n]
  BY <1>1, <1>3
<1>5. /\ stamps'[row.node].path = Path(row) /\ stamps'[row.node].wire = Wire(row)
      /\ stamps'[row.node].parent = ParentWire(row)
  BY <1>1
<1>6. ASSUME NEW i \in 1..stamped + 1 PROVE out[i].parent # row.node
  <2>1. SUFFICES ASSUME out[i].parent = row.node PROVE FALSE
    OBVIOUS
  <2>2. i \in DOMAIN out /\ stamped + 1 \in DOMAIN out
    BY <1>1, <1>2
  <2>3. stamped + 1 < i
    BY <1>1, <2>1, <2>2 DEF RowsInOrder
  <2>4. QED  BY <1>1, <2>3
<1>7. Traced'
  <2>1. SUFFICES ASSUME NEW i \in 1..stamped + 1
                 PROVE  stamps'[out[i].node].parent =
                          IF out[i].parent \in DOMAIN stamps' THEN stamps'[out[i].parent].wire ELSE <<>>
    BY <1>1 DEF Traced
  <2>2. /\ out[i].parent \in DOMAIN stamps' <=> out[i].parent \in DOMAIN stamps
        /\ out[i].parent \in DOMAIN stamps => stamps'[out[i].parent] = stamps[out[i].parent]
    BY <1>1, <1>4, <1>6
  <2>3. CASE i = stamped + 1
    BY <1>1, <1>5, <2>2, <2>3 DEF ParentWire
  <2>4. CASE i # stamped + 1
    <3>1. i \in 1..stamped
      BY <1>1, <2>4
    <3>2. stamps'[out[i].node] = stamps[out[i].node]
      BY <1>2, <1>4, <3>1
    <3>3. QED  BY <2>2, <3>1, <3>2 DEF Traced
  <2>5. QED  BY <2>3, <2>4
<1>8. world' = world
  BY <1>1, SameServer
<1>9. ASSUME NEW n \in DOMAIN stamps PROVE Written(n)'
  <2>1. \A m \in DOMAIN stamps : m \in DOMAIN stamps' /\ stamps'[m] = stamps[m]
    BY <1>1, <1>4
  <2>2. Written(n)
    OBVIOUS
  <2>3. PICK plain \in {stamps[n].path, world.id[n]} \ {<<>>} :
          \/ stamps[n].wire = plain
          \/ /\ stamps[n].wire = Marked(plain, world.id[n])
             /\ \E m \in DOMAIN stamps : stamps[m].wire = plain
    BY <2>2 DEF Written
  <2>4. plain \in {stamps'[n].path, world'.id[n]} \ {<<>>}
    BY <1>8, <2>1
  <2>5. \/ stamps'[n].wire = plain
        \/ /\ stamps'[n].wire = Marked(plain, world'.id[n])
           /\ \E m \in DOMAIN stamps' : stamps'[m].wire = plain
    BY <1>8, <2>1, <2>3
  <2>6. QED  BY <2>4, <2>5 DEF Written
<1>10. Written(row.node)'
  <2> DEFINE plain == Plain(row)
  <2>1. plain \in {Path(row), world.id[row.node]} \ {<<>>}
    <3>1. world.id[row.node] # <<>>
      BY <1>2, TypeWorldTypes DEF WireWorld
    <3>2. QED  BY <3>1 DEF Plain
  <2>2. \/ Wire(row) = plain
        \/ Wire(row) = Marked(plain, world.id[row.node]) /\ \E m \in DOMAIN stamps : stamps[m].wire = plain
    BY DEF Wire, Marked, IsTaken
  <2> HIDE DEF plain
  <2>3. plain \in {stamps'[row.node].path, world'.id[row.node]} \ {<<>>}
    BY <1>5, <1>8, <2>1
  <2>4. \/ stamps'[row.node].wire = plain
        \/ /\ stamps'[row.node].wire = Marked(plain, world'.id[row.node])
           /\ \E m \in DOMAIN stamps' : stamps'[m].wire = plain
    BY <1>1, <1>4, <1>5, <1>8, <2>2
  <2>5. QED  BY <2>3, <2>4 DEF Written
<1>11. QED  BY <1>1, <1>7, <1>9, <1>10

\* Nothing but stamping touches the stamps, and nothing goes on before all are made.
LEMMA RecordedStep == Inv /\ Recorded /\ [Next]_vars => Recorded'
<1> SUFFICES ASSUME Inv, Recorded, [Next]_vars PROVE Recorded'
  OBVIOUS
<1>1. InHand /\ Later /\ RowsInOrder
  BY DEF Inv, Recorded
<1>2. RowsInOrder'
  BY <1>1, RowsStep
<1>3. CASE StampNode
  <2>1. phase = "typed" /\ phase' = phase
    BY <1>3 DEF StampNode, walkVars
  <2>2. QED  BY <1>1, <1>2, <1>3, <2>1, StampRecords DEF Recorded, AllStamped, StampedPhases
<1>4. CASE Walk /\ UNCHANGED <<typeVars, wireVars, modelVars>>
  <2>1. UNCHANGED <<stamps, stamped>>
    BY <1>4 DEF wireVars
  <2>2. phase \in WalkPhases /\ phase' \notin StampedPhases
    <3>1. BrowseRoot => phase = "root" /\ phase' = "walk"
      BY Zenon DEF BrowseRoot
    <3>2. phase \in WalkPhases /\ (phase' = phase \/ phase' \in WalkPhases \cup {"walked", "failed"})
      BY <1>4, <3>1 DEF Walk, BrowseChildren, DiscoverMaxParents, BrowseBatch,
         BrowseFails, FollowContinuations, BeginRetries, RetrySolo, RetryEmpty, FollowSolo, SoloEnds,
         ReadMetadata, SkipParent, NextParent, VisitChild, EndBatch, EndWalk, WalkAborts, WalkPhases
    <3>3. QED  BY <3>2 DEF WalkPhases, StampedPhases
  <2>3. stamped = 0 /\ DOMAIN stamps = {}
    BY <1>1, <2>2 DEF Later, Unstamped, WiresTypeOK
  <2>4. Traced'
    BY <2>1, <2>3 DEF Traced
  <2>5. QED  BY <1>2, <2>1, <2>2, <2>3, <2>4 DEF Recorded, AllStamped
<1>5. CASE (After /\ ~StampNode) \/ UNCHANGED vars
  <2>1. UNCHANGED <<stamps, stamped, out, site>>
    <3>1. UNCHANGED <<stamps, stamped>>
      BY <1>5, <1>1 DEF After, TypeSteps, BeginTypes, BrowseType, EndTypes, BeginStructures,
         WalkStructure, EndStructures, EndStamping, ResolveNames, CollectArtificial, Ship, vars,
         wireVars, Next
    <3>2. QED  BY <1>1, <1>5, <3>1, AfterIsAfterwards DEF Afterwards, vars, walkVars, tree
  <2>2. world' = world
    BY <2>1, SameServer
  <2>3. Traced' /\ \A n \in DOMAIN stamps' : Written(n)'
    BY <2>1, <2>2 DEF Recorded, Traced, Written
  <2>4. phase' \in StampedPhases => phase \in StampedPhases \/ stamped = Len(out)
    BY <1>5 DEF After, TypeSteps, BeginTypes, BrowseType, EndTypes, BeginStructures,
       WalkStructure, EndStructures, EndStamping, ResolveNames, CollectArtificial, Ship, vars,
       walkVars, StampedPhases
  <2>5. AllStamped'
    BY <2>1, <2>4 DEF Recorded, AllStamped
  <2>6. QED  BY <1>2, <2>3, <2>5 DEF Recorded
<1>6. QED  BY <1>3, <1>4, <1>5 DEF Next, After

\* The texts that identify nodes.
LEMMA NoBangs ==
    ASSUME NEW t \in Text, Free(t, "!")
    PROVE  NoBang(t) = t
<1>1. t \in [1..Len(t) -> Words] /\ DOMAIN t = 1..Len(t)
  BY DEF Text
<1>2. \A i \in DOMAIN t : t[i] # "!"
  BY DEF Free
<1>3. NoBang(t) = [i \in DOMAIN t |-> t[i]]
  BY <1>2 DEF NoBang
<1>4. QED  BY <1>1, <1>3

LEMMA CanonicalTypes ==
    ASSUME NEW t \in Text
    PROVE  /\ Canonical(t) \in Text
           /\ Free(t, "#") => Free(Canonical(t), "#")
           /\ (\A i \in DOMAIN t : t[i] = LongForm => i = 1) => Canonical(Canonical(t)) = Canonical(t)
<1>1. CASE ~(t # <<>> /\ t[1] = LongForm)
  BY <1>1 DEF Canonical
<1>2. CASE t # <<>> /\ t[1] = LongForm
  <2> DEFINE u == Tail(t)
  <2>1. Canonical(t) = u
    BY <1>2 DEF Canonical
  <2>2. /\ u \in Text /\ Len(t) \in Nat /\ Len(u) = Len(t) - 1 /\ DOMAIN t = 1..Len(t) /\ DOMAIN u = 1..Len(u)
        /\ \A i \in 1..Len(u) : u[i] = t[i + 1]
    <3>1. t \in Seq(Words) /\ t # <<>>
      BY <1>2 DEF Text
    <3>2. QED  BY <3>1, HeadTailProperties, LenProperties DEF Text
  <2> HIDE DEF u
  <2>3. \A i \in DOMAIN u : i + 1 \in DOMAIN t /\ i + 1 # 1 /\ u[i] = t[i + 1]
    BY <2>2
  <2>4. Free(t, "#") => Free(u, "#")
    BY <2>3 DEF Free
  <2>5. (\A i \in DOMAIN t : t[i] = LongForm => i = 1) => Canonical(u) = u
    <3>1. SUFFICES ASSUME \A i \in DOMAIN t : t[i] = LongForm => i = 1, u # <<>> PROVE u[1] # LongForm
      BY DEF Canonical
    <3>2. 1 \in DOMAIN u
      BY <2>2, <3>1
    <3>3. QED  BY <2>3, <3>1, <3>2
  <2>6. QED  BY <2>1, <2>2, <2>4, <2>5
<1>3. QED  BY <1>1, <1>2

\* Marking changes nothing at the beginning.
LEMMA MarkedCanonical ==
    ASSUME NEW a \in Text \ {<<>>}, NEW c \in Text, Canonical(a) = a
    PROVE  Canonical(Marked(a, c)) = Marked(a, c)
<1>1. 1 \in 1..Len(a) /\ Len(a) \in Nat
  BY DEF Text
<1>2. Marked(a, c)[1] = a[1]
  BY <1>1, MarkedTypes
<1>3. a[1] # LongForm
  <2>1. SUFFICES ASSUME a[1] = LongForm PROVE FALSE
    OBVIOUS
  <2>2. Tail(a) = a
    BY <2>1 DEF Canonical
  <2>3. Len(Tail(a)) = Len(a) - 1
    BY <1>1, HeadTailProperties DEF Text
  <2>4. QED  BY <1>1, <2>2, <2>3
<1>4. QED  BY <1>2, <1>3 DEF Canonical

\* What the places below are about: a snapshot whose texts are kept apart.
Shown == Inv /\ Recorded /\ Shipped /\ NoHash /\ IdsFreeOf("!")
Clear == Shown /\ PathsAreNoIds

\* Everything emitted has a stamp and is served, in its own row.
LEMMA Listing ==
    ASSUME Shown
    PROVE  /\ DOMAIN stamps = Emitted /\ Objects = Emitted /\ Emitted \subseteq Nodes
           /\ \A n \in Emitted : LastOf({n}) = n /\ NodeAt(stamps[n].wire) = n
           /\ \A n \in Emitted : Row(n) \in Rows /\ Row(n).node = n /\ Parent(n) \in Nodes \cup {NoNode}
           /\ \A row \in Rows : row.node \in Emitted /\ Row(row.node) = row
<1>1. /\ out \in Seq(NodeDescriptor) /\ RowsInOrder /\ WiresDistinct /\ NoHash
      /\ stamped = Len(out) /\ DOMAIN stamps = {out[i].node : i \in 1..stamped}
  BY DEF Shown, Inv, InHand, WalkTypeOK, Recorded, AllStamped, StampedPhases, Shipped, Later, WiresTypeOK
<1>2. DOMAIN out = 1..Len(out) /\ Len(out) \in Nat /\ \A i \in DOMAIN out : out[i] \in NodeDescriptor
  BY <1>1
<1>3. DOMAIN stamps = Emitted
  BY <1>1, <1>2 DEF Emitted
<1>4. \A i \in DOMAIN out : out[i].node \in Emitted /\ Position(out[i].node) = i
  BY <1>1 DEF RowsInOrder, Position, Emitted
<1>5. ASSUME NEW n \in Emitted
      PROVE  /\ Position(n) \in DOMAIN out /\ out[Position(n)].node = n
             /\ Row(n) = out[Position(n)]
  <2>1. PICK i \in DOMAIN out : out[i].node = n
    BY DEF Emitted
  <2>2. QED  BY <1>4, <2>1 DEF Row
<1>6. ASSUME NEW n \in Emitted
      PROVE  Row(n) \in Rows /\ Row(n).node = n /\ Parent(n) \in Nodes \cup {NoNode} /\ n \in Nodes
  <2>1. Row(n) \in Rows
    BY <1>5 DEF Rows
  <2>2. Row(n) \in NodeDescriptor /\ Row(n).node = n
    BY <1>2, <1>5
  <2>3. QED  BY <2>1, <2>2 DEF NodeDescriptor, Parent
<1>7. ASSUME NEW row \in Rows PROVE row.node \in Emitted /\ Row(row.node) = row
  <2>1. PICK i \in DOMAIN out : row = out[i]
    BY DEF Rows
  <2>2. QED  BY <1>4, <2>1 DEF Row
<1>8. ASSUME NEW n \in Emitted PROVE LastOf({n}) = n
  <2>1. Position(n) <= Position(n)
    BY <1>2, <1>5
  <2>2. \A m \in {n} : Position(m) <= Position(n)
    BY <2>1
  <2>3. QED  BY <2>2 DEF LastOf
<1>9. ASSUME NEW n \in Emitted PROVE NodeAt(stamps[n].wire) = n
  <2>1. {m \in Emitted : stamps[m].wire = stamps[n].wire} = {n}
    BY <1>1, <1>3 DEF WiresDistinct
  <2>2. QED  BY <1>8, <2>1 DEF NodeAt
<1>10. Objects = Emitted
  BY <1>9 DEF Objects
<1>11. QED  BY <1>3, <1>6, <1>7, <1>8, <1>9, <1>10

\* The texts of a listed node.
LEMMA TextsOf ==
    ASSUME Shown, NEW n \in Nodes
    PROVE  /\ world.id[n] \in Text \ {<<>>} /\ Free(world.id[n], "#") /\ NodeId(n) = world.id[n]
           /\ Canonical(world.id[n]) \in Text /\ Free(Canonical(world.id[n]), "#")
           /\ Canonical(Canonical(world.id[n])) = Canonical(world.id[n])
           /\ \A m \in Nodes : world.id[m] = world.id[n] => m = n
           /\ n \in Emitted => stamps[n].path \in Text /\ stamps[n].wire \in Text
<1>1. site \in DOMAIN Catalogue /\ NoHash /\ IdsFreeOf("!") /\ WiresTypeOK
  BY DEF Shown, Inv, InHand, WalkTypeOK, Later
<1>2. WireWorld(world)
  BY <1>1, TypeWorldTypes
<1>3. /\ world.id[n] \in Text \ {<<>>}
      /\ \A i \in DOMAIN world.id[n] : world.id[n][i] = LongForm => i = 1
      /\ \A m \in Nodes : world.id[m] = world.id[n] => m = n
  BY <1>2 DEF WireWorld
<1>4. Free(world.id[n], "#") /\ Free(world.id[n], "!")
  BY <1>1 DEF NoHash, IdsFreeOf
<1>5. NodeId(n) = world.id[n]
  BY <1>3, <1>4, NoBangs DEF NodeId
<1>6. /\ Canonical(world.id[n]) \in Text /\ Free(Canonical(world.id[n]), "#")
      /\ Canonical(Canonical(world.id[n])) = Canonical(world.id[n])
  <2> DEFINE t == world.id[n]
  <2>1. t \in Text /\ Free(t, "#") /\ \A i \in DOMAIN t : t[i] = LongForm => i = 1
    BY <1>3, <1>4
  <2> HIDE DEF t
  <2>2. Canonical(t) \in Text /\ Free(Canonical(t), "#") /\ Canonical(Canonical(t)) = Canonical(t)
    BY <2>1, CanonicalTypes
  <2>3. QED  BY <2>2 DEF t
<1>7. n \in Emitted => stamps[n].path \in Text /\ stamps[n].wire \in Text
  BY <1>1, Listing DEF WiresTypeOK
<1>8. QED  BY <1>3, <1>4, <1>5, <1>6, <1>7

\* What a wire id is, and of whom it can be read as the NodeId.
LEMMA WireForms ==
    ASSUME Clear, NEW n \in Emitted
    PROVE  /\ stamps[n].wire # <<>>
           /\ Canonical(stamps[n].wire) = stamps[n].wire \/ stamps[n].wire = world.id[n]
           /\ \A p \in Nodes : stamps[n].wire = Canonical(world.id[p]) =>
                \/ world.id[n] = Canonical(world.id[p])
                \/ p \in Emitted /\ world.id[p] = Canonical(world.id[p])
<1> DEFINE id == world.id[n]
           path == stamps[n].path
           wire == stamps[n].wire
<1>1. n \in Nodes /\ Emitted \subseteq Nodes /\ Objects = Emitted /\ DOMAIN stamps = Emitted
  BY Listing DEF Clear
<1>2. id \in Text \ {<<>>} /\ Free(id, "#") /\ path \in Text /\ wire \in Text
  BY <1>1, TextsOf DEF Clear
<1>3. Canonical(path) = path /\ \A p \in Nodes : path = Canonical(world.id[p]) =>
                                                  p \in Emitted /\ world.id[p] = path
  BY <1>1 DEF Clear, Shown, PathsAreNoIds
<1>4. Hashless /\ WiresDistinct /\ NoHash /\ \A m \in DOMAIN stamps : Written(m)
  BY DEF Clear, Shown, Inv, Recorded
<1>5. \A m \in Emitted : Free(stamps[m].path, "#")
  BY <1>1, <1>4 DEF Hashless, Made
<1>6. PICK plain \in {path, id} \ {<<>>} :
        \/ wire = plain
        \/ wire = Marked(plain, id) /\ (\E m \in Emitted : stamps[m].wire = plain)
  <2>1. Written(n)
    BY <1>1, <1>4
  <2>2. PICK plain \in {path, id} \ {<<>>} :
          \/ wire = plain
          \/ /\ wire = Marked(plain, id)
             /\ \E m \in DOMAIN stamps : stamps[m].wire = plain
    BY <2>1 DEF Written
  <2>3. QED  BY <1>1, <2>2
<1>7. plain \in Text \ {<<>>} /\ Free(plain, "#")
  BY <1>2, <1>5, <1>6
<1>8. wire # <<>>
  <2> DEFINE m == Marked(plain, id)
  <2>1. Len(plain) \in Nat /\ Len(id) \in Nat /\ plain \in Text /\ id \in Text
    BY <1>2, <1>7 DEF Text
  <2>2. Len(m) = Len(plain) + 1 + Len(id)
    BY <2>1, MarkedTypes
  <2> HIDE DEF m
  <2>3. m # <<>>
    <3>1. \A j, k \in Nat : j + 1 + k # 0
      OBVIOUS
    <3>2. Len(m) # 0
      BY <2>1, <2>2, <3>1
    <3>3. QED  BY <3>2
  <2>4. QED  BY <1>6, <1>7, <2>3 DEF m
<1>9. wire # plain => Canonical(plain) = plain
  <2>1. SUFFICES ASSUME wire # plain, plain = id PROVE Canonical(id) = id
    BY <1>3, <1>6
  <2>2. PICK m \in Emitted : stamps[m].wire = id /\ wire = Marked(id, id)
    BY <1>6, <2>1
  <2>3. m # n
    BY <2>1, <2>2
  <2>4. m \in Nodes /\ world.id[m] \in Text /\ stamps[m].path \in Text /\ world.id[m] # id
    <3>1. m \in Nodes
      BY <1>1
    <3>2. world.id[m] \in Text /\ stamps[m].path \in Text
      BY <3>1, TextsOf DEF Clear
    <3>3. world.id[m] # id
      BY <1>1, <2>3, <3>1, TextsOf DEF Clear
    <3>4. QED  BY <3>1, <3>2, <3>3
  <2>5. PICK other \in {stamps[m].path, world.id[m]} \ {<<>>} :
          stamps[m].wire = other \/ stamps[m].wire = Marked(other, world.id[m])
    BY <1>1, <1>4 DEF Written
  <2>6. other \in Text
    BY <2>4, <2>5
  <2>7. Marked(other, world.id[m]) # id
    BY <1>2, <2>4, <2>6, MarkIsSeen
  <2>8. stamps[m].path = id
    BY <2>2, <2>4, <2>5, <2>7
  <2>9. Canonical(stamps[m].path) = stamps[m].path
    BY <1>1 DEF Clear, Shown, PathsAreNoIds
  <2>10. QED  BY <2>8, <2>9
<1>10. Canonical(wire) = wire \/ wire = id
  <2>1. CASE wire = plain
    BY <1>3, <1>6, <2>1
  <2>2. CASE wire # plain
    BY <1>2, <1>6, <1>7, <1>9, <2>2, MarkedCanonical
  <2>3. QED  BY <2>1, <2>2
<1>11. ASSUME NEW p \in Nodes, wire = Canonical(world.id[p])
       PROVE  \/ id = Canonical(world.id[p])
              \/ p \in Emitted /\ world.id[p] = Canonical(world.id[p])
  <2>1. Canonical(world.id[p]) \in Text /\ Free(Canonical(world.id[p]), "#")
    BY TextsOf DEF Clear
  <2>2. Marked(plain, id) # wire
    BY <1>2, <1>7, <1>11, <2>1, MarkIsSeen
  <2>3. wire = path \/ wire = id
    BY <1>6, <2>2
  <2>4. QED  BY <1>3, <1>11, <2>3
<1>12. QED  BY <1>8, <1>10, <1>11

\* The index of raw ids and wire ids, in both directions.
LEMMA IndexTells ==
    ASSUME Clear, NEW n \in Emitted
    PROVE  /\ WireByRaw(world.id[n]) = stamps[n].wire
           /\ RawByWire(stamps[n].wire) = world.id[n]
<1>1. ASSUME NEW m \in Emitted
      PROVE  m \in Nodes /\ NodeId(m) = world.id[m] /\ WireByRaw(world.id[m]) = stamps[m].wire
  <2>1. m \in Nodes /\ Emitted \subseteq Nodes /\ LastOf({m}) = m
    BY Listing DEF Clear
  <2>2. \A k \in Emitted : NodeId(k) = world.id[k] /\ (world.id[k] = world.id[m] => k = m)
    <3>1. SUFFICES ASSUME NEW k \in Emitted
                   PROVE  NodeId(k) = world.id[k] /\ (world.id[k] = world.id[m] => k = m)
      OBVIOUS
    <3>2. k \in Nodes
      BY <2>1
    <3>3. NodeId(k) = world.id[k]
      BY <3>2, TextsOf DEF Clear
    <3>4. world.id[k] = world.id[m] => k = m
      BY <2>1, <3>2, TextsOf DEF Clear
    <3>5. QED  BY <3>3, <3>4
  <2>3. {k \in Emitted : NodeId(k) = world.id[m]} = {m}
    BY <2>2
  <2>4. QED  BY <2>1, <2>2, <2>3 DEF WireByRaw
<1>2. WiresDistinct /\ NoHash /\ DOMAIN stamps = Emitted /\ LastOf({n}) = n
  BY Listing DEF Clear, Shown, Inv
<1>3. {m \in Emitted : WireByRaw(NodeId(m)) = stamps[n].wire} = {n}
  BY <1>1, <1>2 DEF WiresDistinct
<1>4. \A m \in Emitted : NodeId(m) = NodeId(n) => Position(n) <= Position(m)
  <2>1. \A m \in Emitted : NodeId(m) = NodeId(n) => m = n
    <3>1. SUFFICES ASSUME NEW m \in Emitted, NodeId(m) = NodeId(n) PROVE m = n
      OBVIOUS
    <3>2. stamps[m].wire = stamps[n].wire
      BY <1>1, <3>1
    <3>3. QED  BY <1>2, <3>2 DEF WiresDistinct
  <2>2. Position(n) <= Position(n)
    <3>1. out \in Seq(NodeDescriptor) /\ \E i \in DOMAIN out : out[i].node = n
      BY DEF Clear, Shown, Inv, InHand, WalkTypeOK, Emitted
    <3>2. Position(n) \in DOMAIN out
      BY <3>1 DEF Position
    <3>3. QED  BY <3>1, <3>2
  <2>3. QED  BY <2>1, <2>2
<1>5. RawByWire(stamps[n].wire) = NodeId(n)
  <2> DEFINE S == {m \in Emitted : WireByRaw(NodeId(m)) = stamps[n].wire}
             First(k) == \A m \in Emitted : NodeId(m) = NodeId(k) => Position(k) <= Position(m)
  <2>1. S = {n} /\ First(n)
    BY <1>3, <1>4
  <2>2. {m \in S : First(m)} = {n}
    BY <2>1
  <2>3. RawByWire(stamps[n].wire) =
          IF S = {} THEN stamps[n].wire ELSE NodeId(LastOf({m \in S : First(m)}))
    BY DEF RawByWire
  <2>4. S # {}
    BY <2>1
  <2> HIDE DEF S, First
  <2>5. QED  BY <1>2, <2>2, <2>3, <2>4
<1>6. QED  BY <1>1, <1>5

\* A client that reads an elementId reaches that node.
LEMMA ReadsReach == Clear => \A n \in Objects :
      /\ Canonical(RawByWire(Canonical(ElementId(n)))) = Canonical(world.id[n])
      /\ Canonical(world.id[n]) = world.id[n] => WireByRaw(world.id[n]) = ElementId(n)
<1> SUFFICES ASSUME Clear, NEW n \in Emitted
             PROVE  /\ Canonical(RawByWire(Canonical(stamps[n].wire))) = Canonical(world.id[n])
                    /\ WireByRaw(world.id[n]) = stamps[n].wire
  BY Listing DEF Clear, ElementId
<1> DEFINE id == world.id[n]
           wire == stamps[n].wire
<1>1. n \in Nodes /\ Emitted \subseteq Nodes
  BY Listing DEF Clear
<1>2. WireByRaw(id) = wire /\ RawByWire(wire) = id
  BY IndexTells
<1>3. CASE Canonical(wire) = wire
  BY <1>2, <1>3
<1>4. CASE Canonical(wire) # wire
  <2>1. wire = id /\ Canonical(wire) = Canonical(id) /\ Canonical(id) # id
    BY <1>4, WireForms
  <2>2. CASE \E m \in Emitted : stamps[m].wire = Canonical(id)
    <3>1. PICK m \in Emitted : stamps[m].wire = Canonical(id)
      BY <2>2
    <3>2. world.id[m] = Canonical(id)
      BY <1>1, <2>1, <3>1, WireForms
    <3>3. RawByWire(Canonical(wire)) = Canonical(id)
      <4>1. RawByWire(stamps[m].wire) = world.id[m]
        BY IndexTells
      <4>2. QED  BY <2>1, <3>1, <3>2, <4>1
    <3>4. QED  BY <1>1, <1>2, <3>3, TextsOf DEF Clear
  <2>3. CASE ~\E m \in Emitted : stamps[m].wire = Canonical(id)
    <3>1. \A m \in Emitted : WireByRaw(NodeId(m)) # Canonical(id)
      <4>1. SUFFICES ASSUME NEW m \in Emitted PROVE WireByRaw(NodeId(m)) # Canonical(id)
        OBVIOUS
      <4>2. NodeId(m) = world.id[m]
        BY <1>1, TextsOf DEF Clear
      <4>3. WireByRaw(NodeId(m)) = stamps[m].wire
        BY <4>2, IndexTells
      <4>4. QED  BY <2>3, <4>3
    <3>2. RawByWire(Canonical(id)) = Canonical(id)
      <4>1. {m \in Emitted : WireByRaw(NodeId(m)) = Canonical(id)} = {}
        BY <3>1
      <4>2. QED  BY <4>1 DEF RawByWire
    <3>3. QED  BY <1>1, <1>2, <2>1, <3>2, TextsOf DEF Clear
  <2>4. QED  BY <2>2, <2>3
<1>5. QED  BY <1>2, <1>3, <1>4

\* The objects that name another as their parent.
LEMMA ChildrenAre ==
    ASSUME Clear, NEW n \in Objects, Canonical(ElementId(n)) = ElementId(n)
    PROVE  ChildrenOf(ElementId(n)) = {m \in Objects : Parent(m) = n}
<1>1. /\ Objects = Emitted /\ DOMAIN stamps = Emitted /\ Emitted \subseteq Nodes
      /\ \A m \in Emitted : Parent(m) \in Nodes \cup {NoNode}
  BY Listing DEF Clear
<1>2. n \in Nodes /\ n \in Emitted /\ NoNode \notin Nodes /\ ElementId(n) = stamps[n].wire
  BY <1>1, WalkAssumption DEF ElementId
<1>3. WiresDistinct /\ NoHash
  BY DEF Clear, Shown, Inv
<1>4. ASSUME NEW m \in Emitted PROVE ParentId(m) = stamps[n].wire <=> Parent(m) = n
  <2>1. stamps[m].parent = IF Parent(m) \in Emitted THEN stamps[Parent(m)].wire ELSE <<>>
    <3>1. PICK i \in DOMAIN out : out[i] = Row(m)
      BY Listing DEF Clear, Rows
    <3>2. i \in 1..stamped
      BY <3>1 DEF Clear, Shown, Inv, InHand, WalkTypeOK, Recorded, AllStamped, StampedPhases, Shipped
    <3>3. out[i].node = m /\ out[i].parent = Parent(m)
      BY <3>1, Listing DEF Clear, Parent
    <3>4. Traced
      BY DEF Clear, Shown, Recorded
    <3>5. QED  BY <1>1, <3>2, <3>3, <3>4 DEF Traced
  <2>2. CASE Parent(m) \in Emitted
    <3>1. stamps[Parent(m)].wire # <<>>
      BY <2>2, WireForms
    <3>2. ParentId(m) = stamps[Parent(m)].wire
      BY <2>1, <2>2, <3>1 DEF ParentId
    <3>3. QED  BY <1>1, <1>2, <1>3, <2>2, <3>2 DEF WiresDistinct
  <2>3. CASE Parent(m) = NoNode
    <3>1. ParentId(m) = <<>>
      BY <1>1, <1>2, <2>1, <2>3 DEF ParentId
    <3>2. QED  BY <1>2, <2>3, <3>1, WireForms
  <2>4. CASE Parent(m) \notin Emitted /\ Parent(m) # NoNode
    <3>1. ParentId(m) = NodeId(Parent(m)) /\ Parent(m) \in Nodes
      BY <1>1, <2>1, <2>4 DEF ParentId
    <3>2. NodeId(Parent(m)) = world.id[Parent(m)]
      BY <3>1, TextsOf DEF Clear
    <3>3. ASSUME stamps[n].wire = world.id[Parent(m)] PROVE FALSE
      <4>1. Canonical(world.id[Parent(m)]) = world.id[Parent(m)]
        BY <1>2, <3>3
      <4>2. world.id[n] = world.id[Parent(m)]
        BY <1>2, <2>4, <3>1, <3>3, <4>1, WireForms
      <4>3. Parent(m) = n
        BY <1>2, <3>1, <4>2, TextsOf DEF Clear
      <4>4. QED  BY <1>2, <2>4, <4>3
    <3>4. QED  BY <1>2, <2>4, <3>1, <3>2, <3>3
  <2>5. QED  BY <2>2, <2>3, <2>4
<1>5. QED  BY <1>1, <1>2, <1>4 DEF ChildrenOf

LEMMA TreeFollows == Clear => \A n \in Objects : Canonical(ElementId(n)) = ElementId(n) =>
      /\ Related(n, "any") = {m \in Objects : Parent(m) = n}
      /\ Readable(n) => HasChildren(n) = Related(n, "any")
      /\ IsComposition(n) <=> Class(n) = "Object" /\ Related(n, "HasComponent") # {}
<1> SUFFICES ASSUME Clear, NEW n \in Objects, Canonical(ElementId(n)) = ElementId(n)
             PROVE  /\ Related(n, "any") = {m \in Objects : Parent(m) = n}
                    /\ Readable(n) => HasChildren(n) = Related(n, "any")
                    /\ IsComposition(n) <=> Class(n) = "Object" /\ Related(n, "HasComponent") # {}
  OBVIOUS
<1>1. ChildrenOf(ElementId(n)) = {m \in Objects : Parent(m) = n}
  BY ChildrenAre
<1>2. Related(n, "any") = ChildrenOf(ElementId(n))
  BY DEF Related
<1>3. Readable(n) => HasChildren(n) = Related(n, "any")
  BY <1>2 DEF Readable, HasChildren
<1>4. (\E row \in Rows : row.parent = n /\ row.rel = "HasComponent") <=> Related(n, "HasComponent") # {}
  <2>1. /\ Objects = Emitted
        /\ \A m \in Emitted : Row(m) \in Rows /\ Row(m).node = m
        /\ \A row \in Rows : row.node \in Emitted /\ Row(row.node) = row
    BY Listing DEF Clear
  <2>2. Related(n, "HasComponent") = {m \in Emitted : Parent(m) = n /\ Row(m).rel = "HasComponent"}
    <3>1. \A m \in Objects : "HasComponent" \in {"any", Row(m).rel} <=> Row(m).rel = "HasComponent"
      OBVIOUS
    <3>2. QED  BY <1>1, <2>1, <3>1 DEF Related
  <2>3. ASSUME NEW row \in Rows, row.parent = n, row.rel = "HasComponent"
        PROVE  row.node \in Related(n, "HasComponent")
    BY <2>1, <2>2, <2>3 DEF Parent
  <2>4. ASSUME NEW m \in Related(n, "HasComponent")
        PROVE  Row(m) \in Rows /\ Row(m).parent = n /\ Row(m).rel = "HasComponent"
    BY <2>1, <2>2 DEF Parent
  <2>5. QED  BY <2>3, <2>4
<1>5. QED  BY <1>1, <1>2, <1>3, <1>4 DEF IsComposition, Class

LEMMA Snapshots == Spec => [](Inv /\ Recorded)
<1>1. Init => Inv /\ Recorded
  BY InvInit, RecordedInit
<1>2. (Inv /\ Recorded) /\ [Next]_vars => (Inv /\ Recorded)'
  BY InvStep, RecordedStep
<1>3. QED  BY <1>1, <1>2, PTL DEF Spec

\* Reads reach the node that was named, and samples come back under its name.
THEOREM ReadsReachTheNode == Spec => []ReadsReachNode
<1>1. Inv /\ Recorded => ReadsReachNode
  BY ReadsReach DEF Clear, Shown, ReadsReachNode
<1>2. QED  BY <1>1, Snapshots, PTL

\* The related objects are the tree that was walked.
THEOREM RelatedAreTheTree == Spec => []RelatedIsTheTree
<1>1. Inv /\ Recorded => RelatedIsTheTree
  BY TreeFollows DEF Clear, Shown, RelatedIsTheTree
<1>2. QED  BY <1>1, Snapshots, PTL

--------------------------------------------------------------------------
(* What the routes make of types and namespaces.                           *)

LEMMA RangeOfAppend ==
    ASSUME NEW S, NEW q \in Seq(S), NEW e \in S
    PROVE  RangeOf(Append(q, e)) = RangeOf(q) \cup {e}
<1>1. /\ Len(q) \in Nat /\ DOMAIN q = 1..Len(q) /\ DOMAIN Append(q, e) = 1..(Len(q) + 1)
      /\ Append(q, e)[Len(q) + 1] = e /\ \A i \in 1..Len(q) : Append(q, e)[i] = q[i]
  BY AppendProperties, LenProperties
<1>2. ASSUME NEW i \in DOMAIN Append(q, e) PROVE Append(q, e)[i] \in RangeOf(q) \cup {e}
  BY <1>1 DEF RangeOf
<1>3. ASSUME NEW i \in DOMAIN q PROVE q[i] \in RangeOf(Append(q, e))
  <2>1. i \in DOMAIN Append(q, e) /\ Append(q, e)[i] = q[i]
    BY <1>1
  <2>2. QED  BY <2>1 DEF RangeOf
<1>4. e \in RangeOf(Append(q, e))
  <2>1. Len(q) + 1 \in DOMAIN Append(q, e)
    BY <1>1
  <2>2. QED  BY <1>1, <2>1 DEF RangeOf
<1>5. QED  BY <1>2, <1>3, <1>4 DEF RangeOf

LEMMA RangeOfTail ==
    ASSUME NEW S, NEW q \in Seq(S), q # <<>>
    PROVE  RangeOf(q) = {Head(q)} \cup RangeOf(Tail(q)) /\ Head(q) \in S /\ Tail(q) \in Seq(S)
<1>1. /\ Len(q) \in Nat \ {0} /\ DOMAIN q = 1..Len(q) /\ DOMAIN Tail(q) = 1..(Len(q) - 1)
      /\ Head(q) = q[1] /\ Head(q) \in S /\ Tail(q) \in Seq(S)
      /\ \A i \in 1..(Len(q) - 1) : Tail(q)[i] = q[i + 1]
  BY HeadTailProperties, LenProperties, EmptySeq
<1>2. ASSUME NEW i \in DOMAIN q PROVE q[i] \in {Head(q)} \cup RangeOf(Tail(q))
  <2>1. CASE i = 1
    BY <1>1, <2>1
  <2>2. CASE i # 1
    <3>1. i - 1 \in DOMAIN Tail(q) /\ Tail(q)[i - 1] = q[i]
      BY <1>1, <2>2
    <3>2. QED  BY <3>1 DEF RangeOf
  <2>3. QED  BY <2>1, <2>2
<1>3. ASSUME NEW i \in DOMAIN Tail(q) PROVE Tail(q)[i] \in RangeOf(q)
  <2>1. i + 1 \in DOMAIN q /\ Tail(q)[i] = q[i + 1]
    BY <1>1
  <2>2. QED  BY <2>1 DEF RangeOf
<1>4. Head(q) \in RangeOf(q)
  <2>1. 1 \in DOMAIN q
    BY <1>1
  <2>2. QED  BY <1>1, <2>1 DEF RangeOf
<1>5. QED  BY <1>1, <1>2, <1>3, <1>4 DEF RangeOf

LEMMA RangeOfConcat ==
    ASSUME NEW S, NEW p \in Seq(S), NEW q \in Seq(S)
    PROVE  RangeOf(p) \cup RangeOf(q) \subseteq RangeOf(p \o q)
<1>1. /\ Len(p) \in Nat /\ Len(q) \in Nat /\ DOMAIN p = 1..Len(p) /\ DOMAIN q = 1..Len(q)
      /\ p \o q \in Seq(S) /\ Len(p \o q) = Len(p) + Len(q)
      /\ \A i \in 1..(Len(p) + Len(q)) : (p \o q)[i] = IF i <= Len(p) THEN p[i] ELSE q[i - Len(p)]
  BY ConcatProperties, LenProperties
<1>2. DOMAIN (p \o q) = 1..(Len(p) + Len(q))
  BY <1>1, LenProperties
<1>3. ASSUME NEW i \in DOMAIN p PROVE p[i] \in RangeOf(p \o q)
  <2>1. i \in DOMAIN (p \o q) /\ (p \o q)[i] = p[i]
    BY <1>1, <1>2
  <2>2. QED  BY <2>1 DEF RangeOf
<1>4. ASSUME NEW i \in DOMAIN q PROVE q[i] \in RangeOf(p \o q)
  <2>1. Len(p) + i \in DOMAIN (p \o q) /\ (p \o q)[Len(p) + i] = q[i]
    BY <1>1, <1>2
  <2>2. QED  BY <2>1 DEF RangeOf
<1>5. QED  BY <1>3, <1>4 DEF RangeOf

\* Only what the allowlist allows is emitted.
RowsAllowed == \A i \in DOMAIN out : Allowed(out[i].node)

\* The roots and the subtypes of all types found so far are in S.
FollowedTo(S) ==
  /\ RangeOf(world.typeRoots) \subseteq S
  /\ \A t \in RangeOf(types) : RangeOf(world.subtypes[t]) \subseteq S

\* A type that is not found yet is still to be browsed, unless one could not be read.
TypesFollowed ==
  /\ phase \in WalkPhases \cup {"walked"} => types = <<>> /\ typeSeen = {}
  /\ phase = "types" /\ "type" \notin faults =>
       typeSeen \subseteq RangeOf(types) /\ FollowedTo(RangeOf(types) \cup RangeOf(typeQueue))
  /\ phase \in {"typed"} \cup StampedPhases /\ "type" \notin faults => FollowedTo(RangeOf(types))

ShapedPhases == {"browsed", "structures", "merged", "shipped"}
Shaped == phase \in ShapedPhases => artificial = Artificial

LEMMA AllowedStep == InHand /\ RowsAllowed /\ [Next]_vars => RowsAllowed'
<1> SUFFICES ASSUME InHand, RowsAllowed, [Next]_vars PROVE RowsAllowed'
  OBVIOUS
<1>1. out \in Seq(NodeDescriptor) /\ readOk \in BOOLEAN /\ site \in DOMAIN Catalogue
  BY DEF InHand, WalkTypeOK
<1>2. UNCHANGED site
  <2>1. Walk => UNCHANGED site
    BY DEF Walk, BrowseChildren, DiscoverMaxParents, BrowseRoot, BrowseBatch, BrowseFails,
           FollowContinuations, BeginRetries, RetrySolo, RetryEmpty, FollowSolo, SoloEnds,
           ReadMetadata, SkipParent, NextParent, VisitChild, EndBatch, EndWalk, WalkAborts
  <2>2. Walk \/ Afterwards \/ UNCHANGED walkVars
    BY AfterIsAfterwards DEF Next, After, vars
  <2>3. QED  BY <2>1, <2>2 DEF Afterwards, walkVars
<1>3. \A n : Allowed(n)' <=> Allowed(n)
  BY <1>2, SameServer DEF Allowed, UriOf
<1>4. CASE BrowseRoot
  <2>1. CASE UNCHANGED tree
    BY <1>3, <2>1 DEF tree, RowsAllowed
  <2>2. CASE ~UNCHANGED tree
    <3> DEFINE row == Descriptor(Root, NoNode, "", FALSE)
    <3>1. out' = IF Allowed(Root) THEN <<row>> ELSE <<>>
      BY <1>4, <2>2 DEF BrowseRoot, NoNodeInfo
    <3>2. row.node = Root
      BY DEF Descriptor
    <3> HIDE DEF row
    <3>3. \A i \in DOMAIN out' : out'[i] = row /\ Allowed(Root)
      BY <3>1
    <3>4. QED  BY <1>3, <3>2, <3>3 DEF RowsAllowed
  <2>3. QED  BY <2>1, <2>2
<1>5. CASE VisitChild
  <2>1. CASE UNCHANGED tree
    BY <1>3, <2>1 DEF tree, RowsAllowed
  <2>2. CASE ~UNCHANGED tree
    <3>1. /\ Visit(ChildRef, batch[cursor[1]])
          /\ InBatch /\ cursor[2] <= Here.got
      BY <1>5, <2>2 DEF VisitChild
    <3>2. batch[cursor[1]] \in Nodes /\ ChildRef \in [to : Nodes, rel : Relations]
      BY <3>1, ChildTypes
    <3> DEFINE n == ChildRef.to
               row == Descriptor(n, batch[cursor[1]], ChildRef.rel, readOk /\ world.class[n] = "Variable")
    <3>3. out' = IF Allowed(n) THEN Append(out, row) ELSE out
      BY <3>1 DEF Visit
    <3>4. row \in NodeDescriptor /\ row.node = n
      BY <1>1, <3>2 DEF Descriptor, NodeDescriptor
    <3> HIDE DEF row, n
    <3>5. CASE Allowed(n)
      <4>1. out' = Append(out, row)
        BY <3>3, <3>5
      <4>2. /\ Len(out) \in Nat /\ DOMAIN out = 1..Len(out) /\ DOMAIN out' = 1..(Len(out) + 1)
            /\ out'[Len(out) + 1] = row /\ \A i \in 1..Len(out) : out'[i] = out[i]
        BY <1>1, <3>4, <4>1, AppendProperties, LenProperties
      <4>3. ASSUME NEW i \in DOMAIN out' PROVE Allowed(out'[i].node)
        BY <3>4, <3>5, <4>2 DEF RowsAllowed
      <4>4. QED  BY <1>3, <4>3 DEF RowsAllowed
    <3>6. CASE ~Allowed(n)
      BY <1>3, <3>3, <3>6 DEF RowsAllowed
    <3>7. QED  BY <3>5, <3>6
  <2>3. QED  BY <2>1, <2>2
<1>6. CASE ~BrowseRoot /\ ~VisitChild
  <2>1. UNCHANGED out
    <3>1. Walk => UNCHANGED out
      BY <1>6 DEF Walk, BrowseChildren, DiscoverMaxParents, BrowseBatch, BrowseFails,
         FollowContinuations, BeginRetries, RetrySolo, RetryEmpty, FollowSolo, SoloEnds,
         ReadMetadata, SkipParent, NextParent, EndBatch, EndWalk, WalkAborts, tree
    <3>2. Walk \/ Afterwards \/ UNCHANGED walkVars
      BY AfterIsAfterwards DEF Next, After, vars
    <3>3. QED  BY <3>1, <3>2 DEF Afterwards, walkVars, tree
  <2>2. QED  BY <1>3, <2>1 DEF RowsAllowed
<1>7. QED  BY <1>4, <1>5, <1>6

\* Faults only add up, and what a type walk needs of the server stays.
LEMMA FollowKept ==
    ASSUME Inv, [Next]_vars
    PROVE  /\ faults \subseteq faults'
           /\ UNCHANGED types => \A S : FollowedTo(S)' <=> FollowedTo(S)
           /\ world' = world
<1>1. faults \subseteq Faults
  BY DEF Inv, InHand, WalkTypeOK
<1>2. Walk => faults \subseteq faults' /\ UNCHANGED site
  <2>1. Walk => UNCHANGED site
    BY DEF Walk, BrowseChildren, DiscoverMaxParents, BrowseRoot, BrowseBatch, BrowseFails,
           FollowContinuations, BeginRetries, RetrySolo, RetryEmpty, FollowSolo, SoloEnds,
           ReadMetadata, SkipParent, NextParent, VisitChild, EndBatch, EndWalk, WalkAborts
  <2>2. Walk => UNCHANGED faults \/ \E kinds : Faulty(kinds)
    BY DEF Walk, BrowseChildren, DiscoverMaxParents, BrowseRoot, NoNodeInfo, BrowseBatch, BrowseFails,
           FollowContinuations, BeginRetries, RetrySolo, RetryEmpty, FollowSolo, SoloEnds,
           ReadMetadata, SkipParent, NextParent, VisitChild, EndBatch, EndWalk, WalkAborts,
           Fault, SomeFault
  <2>3. QED  BY <2>1, <2>2 DEF Faulty
<1>3. Walk \/ Afterwards \/ UNCHANGED walkVars
  BY AfterIsAfterwards DEF Next, After, vars, Inv
<1>4. faults \subseteq faults' /\ UNCHANGED site
  BY <1>2, <1>3 DEF Afterwards, walkVars
<1>5. world' = world
  BY <1>4, SameServer
<1>6. QED  BY <1>4, <1>5 DEF FollowedTo

LEMMA BrowseTypeFollows ==
    ASSUME Inv, TypesFollowed, BrowseType, world' = world, faults \subseteq faults',
           "type" \notin faults'
    PROVE  typeSeen' \subseteq RangeOf(types') /\ FollowedTo(RangeOf(types) \cup RangeOf(typeQueue))'
<1> DEFINE t == Head(typeQueue)
<1>1. /\ phase = "types" /\ typeQueue # <<>> /\ typeSeen' = typeSeen \cup {t}
      /\ \/ t \notin typeSeen /\ TypeInfo(t)
         \/ /\ t \in typeSeen
            /\ typeQueue' = Tail(typeQueue)
            /\ UNCHANGED types
  BY DEF BrowseType
<1>2. typeQueue \in Seq(TypeIds) /\ types \in Seq(TypeIds) /\ site \in DOMAIN Catalogue
  BY DEF Inv, Later, TypesTypeOK, InHand, WalkTypeOK
<1>3. RangeOf(typeQueue) = {t} \cup RangeOf(Tail(typeQueue)) /\ t \in TypeIds /\ Tail(typeQueue) \in Seq(TypeIds)
  BY <1>1, <1>2, RangeOfTail
<1>4. "type" \notin faults
  OBVIOUS
<1>5. typeSeen \subseteq RangeOf(types) /\ FollowedTo(RangeOf(types) \cup RangeOf(typeQueue))
  BY <1>1, <1>4 DEF TypesFollowed
<1> HIDE DEF t
<1>6. CASE t \in typeSeen
  <2>1. t \in RangeOf(types) /\ types' = types /\ typeQueue' = Tail(typeQueue)
    BY <1>1, <1>5, <1>6
  <2>2. RangeOf(types') \cup RangeOf(typeQueue') = RangeOf(types) \cup RangeOf(typeQueue)
    BY <1>3, <2>1
  <2>3. FollowedTo(RangeOf(types) \cup RangeOf(typeQueue))'
    BY <1>5, <2>1, <2>2 DEF FollowedTo
  <2>4. QED  BY <1>1, <1>5, <2>1, <2>3
<1>7. CASE t \notin typeSeen
  <2>1. types' = Append(types, t) /\ typeQueue' = Tail(typeQueue) \o world.subtypes[t]
    BY <1>1, <1>7 DEF TypeInfo, Fault, Faulty
  <2>2. world.subtypes[t] \in Seq(TypeIds)
    BY <1>2, <1>3, TypeWorldTypes DEF TypeWorld
  <2>3. RangeOf(types') = RangeOf(types) \cup {t}
    BY <1>2, <1>3, <2>1, RangeOfAppend
  <2>4. RangeOf(Tail(typeQueue)) \cup RangeOf(world.subtypes[t]) \subseteq RangeOf(typeQueue')
    BY <1>3, <2>1, <2>2, RangeOfConcat
  <2> DEFINE S == RangeOf(types) \cup RangeOf(typeQueue)
             R == RangeOf(types') \cup RangeOf(typeQueue')
  <2>5. S \subseteq R /\ RangeOf(world.subtypes[t]) \subseteq R
    BY <1>3, <2>3, <2>4
  <2>6. FollowedTo(S)
    BY <1>5
  <2> HIDE DEF S
  <2>7. RangeOf(world.typeRoots) \subseteq R
    BY <2>5, <2>6 DEF FollowedTo
  <2>8. ASSUME NEW u \in RangeOf(types') PROVE RangeOf(world.subtypes[u]) \subseteq R
    <3>1. CASE u = t
      BY <2>5, <3>1
    <3>2. CASE u \in RangeOf(types)
      <4>1. RangeOf(world.subtypes[u]) \subseteq S
        BY <2>6, <3>2 DEF FollowedTo
      <4>2. QED  BY <2>5, <4>1
    <3>3. QED  BY <2>3, <3>1, <3>2
  <2>9. FollowedTo(RangeOf(types) \cup RangeOf(typeQueue))'
    BY <2>7, <2>8 DEF FollowedTo
  <2>10. QED  BY <1>1, <1>5, <2>3, <2>9
<1>8. QED  BY <1>6, <1>7

LEMMA FollowedStep == Inv /\ TypesFollowed /\ [Next]_vars => TypesFollowed'
<1> SUFFICES ASSUME Inv, TypesFollowed, [Next]_vars PROVE TypesFollowed'
  OBVIOUS
<1>1. faults \subseteq faults' /\ world' = world /\ (UNCHANGED types => \A S : FollowedTo(S)' <=> FollowedTo(S))
  BY FollowKept
<1>2. CASE Walk /\ UNCHANGED <<typeVars, wireVars, modelVars>>
  <2>1. BrowseRoot => phase = "root" /\ phase' = "walk"
    BY Zenon DEF BrowseRoot
  <2>2. phase \in WalkPhases /\ (phase' = phase \/ phase' \in WalkPhases \cup {"walked", "failed"})
    BY <1>2, <2>1 DEF Walk, BrowseChildren, DiscoverMaxParents, BrowseBatch,
       BrowseFails, FollowContinuations, BeginRetries, RetrySolo, RetryEmpty, FollowSolo, SoloEnds,
       ReadMetadata, SkipParent, NextParent, VisitChild, EndBatch, EndWalk, WalkAborts, WalkPhases
  <2>3. types = <<>> /\ typeSeen = {} /\ UNCHANGED <<types, typeSeen>>
    BY <1>2, <2>2 DEF TypesFollowed, typeVars
  <2>4. phase' \notin {"types", "typed"} \cup StampedPhases
    BY <2>2 DEF WalkPhases, StampedPhases
  <2>5. QED  BY <2>3, <2>4 DEF TypesFollowed
<1>3. CASE BeginTypes
  <2>1. /\ phase = "walked" /\ phase' = "types" /\ typeQueue' = world.typeRoots
        /\ UNCHANGED <<types, typeSeen>>
    BY <1>3 DEF BeginTypes
  <2>2. types = <<>> /\ typeSeen = {}
    BY <2>1 DEF TypesFollowed
  <2>3. RangeOf(types') = {}
    BY <2>1, <2>2 DEF RangeOf
  <2>4. FollowedTo(RangeOf(types) \cup RangeOf(typeQueue))'
    BY <1>1, <2>1, <2>3 DEF FollowedTo
  <2>5. phase' = "types" /\ phase' \notin WalkPhases \cup {"walked"} /\ phase' \notin {"typed"} \cup StampedPhases
    BY <2>1 DEF WalkPhases, StampedPhases
  <2>6. QED  BY <2>1, <2>2, <2>4, <2>5 DEF TypesFollowed
<1>4. CASE BrowseType
  <2>1. phase = "types" /\ phase' = phase
    BY <1>4 DEF BrowseType
  <2>2. phase' \notin WalkPhases \cup {"walked"} /\ phase' \notin {"typed"} \cup StampedPhases
    BY <2>1 DEF WalkPhases, StampedPhases
  <2>3. "type" \notin faults' =>
          typeSeen' \subseteq RangeOf(types') /\ FollowedTo(RangeOf(types) \cup RangeOf(typeQueue))'
    BY <1>1, <1>4, BrowseTypeFollows
  <2>4. QED  BY <2>1, <2>2, <2>3 DEF TypesFollowed
<1>5. CASE EndTypes
  <2>1. phase = "types" /\ phase' = "typed" /\ typeQueue = <<>> /\ UNCHANGED types
    BY <1>5 DEF EndTypes, typeVars
  <2>2. RangeOf(typeQueue) = {}
    BY <2>1 DEF RangeOf
  <2>3. "type" \notin faults => FollowedTo(RangeOf(types))
    <3>1. RangeOf(types) \cup RangeOf(typeQueue) = RangeOf(types)
      BY <2>2
    <3>2. QED  BY <2>1, <3>1 DEF TypesFollowed
  <2>4. "type" \notin faults' => FollowedTo(RangeOf(types))'
    BY <1>1, <2>1, <2>3 DEF FollowedTo
  <2>5. phase' \notin WalkPhases \cup {"walked", "types"}
    BY <2>1 DEF WalkPhases
  <2>6. QED  BY <2>4, <2>5 DEF TypesFollowed
<1>6. CASE After /\ ~BeginTypes /\ ~BrowseType /\ ~EndTypes
  <2>1. phase \in {"typed"} \cup StampedPhases /\ phase' \in {"typed"} \cup StampedPhases
    BY <1>6 DEF After, TypeSteps, BeginStructures, WalkStructure, EndStructures, StampNode,
       EndStamping, ResolveNames, CollectArtificial, Ship, walkVars, StampedPhases
  <2>2. UNCHANGED types
    BY <1>6 DEF After, TypeSteps, BeginStructures, WalkStructure, EndStructures, StampNode,
       EndStamping, ResolveNames, CollectArtificial, Ship, typeVars
  <2>3. "type" \notin faults' => FollowedTo(RangeOf(types))'
    <3>1. "type" \notin faults' => FollowedTo(RangeOf(types))
      BY <1>1, <2>1 DEF TypesFollowed
    <3>2. QED  BY <1>1, <2>2, <3>1 DEF FollowedTo
  <2>4. phase' \notin WalkPhases \cup {"walked", "types"}
    BY <2>1 DEF WalkPhases, StampedPhases
  <2>5. QED  BY <2>3, <2>4 DEF TypesFollowed
<1>7. CASE UNCHANGED vars
  BY <1>1, <1>7 DEF vars, walkVars, typeVars, TypesFollowed, FollowedTo
<1>8. QED  BY <1>2, <1>3, <1>4, <1>5, <1>6, <1>7 DEF Next, After, TypeSteps

\* The artificial types depend on the snapshot and on the names alone.
LEMMA ArtificialKept ==
    ASSUME UNCHANGED <<out, site, named>>
    PROVE  Artificial' = Artificial
<1>1. world' = world
  BY SameServer
<1>2. Emitted' = Emitted /\ \A n : Position(n)' = Position(n) /\ Row(n)' = Row(n)
  BY DEF Emitted, Position, Row
<1>3. \A n : DataType(n)' = DataType(n) /\ TypeSource(n)' = TypeSource(n)
  BY <1>1, <1>2 DEF DataType, TypeSource
<1>4. \A n : Shape(n)' = Shape(n) /\ ValueSchema(n)' = ValueSchema(n) /\ (Shapeable(n)' <=> Shapeable(n))
  BY <1>1, <1>3 DEF Shape, ValueSchema, Shapeable, DataTypeName, Class
<1>5. \A n : EligibleForArtificial(n)' <=> EligibleForArtificial(n)
  <2> TAKE n
  <2>1. Parent(n)' = Parent(n)
    BY <1>2 DEF Parent
  <2>2. TypeSource(Parent(n))' = TypeSource(Parent(n))
    BY <1>1 DEF TypeSource, DataType, Parent, Row, Position
  <2>3. QED  BY <1>2, <1>4, <2>1, <2>2 DEF EligibleForArtificial
<1>6. \A n : FirstOfShape(n)' <=> FirstOfShape(n)
  BY <1>2, <1>4, <1>5 DEF FirstOfShape
<1>7. QED  BY <1>2, <1>4, <1>5, <1>6 DEF Artificial

LEMMA ShapedStep == Inv /\ Shaped /\ [Next]_vars => Shaped'
<1> SUFFICES ASSUME Inv, Shaped, [Next]_vars PROVE Shaped'
  OBVIOUS
<1>1. CASE CollectArtificial
  <2>1. artificial' = Artificial /\ UNCHANGED <<out, site, named>>
    BY <1>1 DEF CollectArtificial, tree
  <2>2. QED  BY <2>1, ArtificialKept DEF Shaped
<1>2. CASE Walk /\ UNCHANGED <<typeVars, wireVars, modelVars>>
  <2>1. BrowseRoot => phase' = "walk"
    BY Zenon DEF BrowseRoot
  <2>2. phase \in WalkPhases /\ (phase' = phase \/ phase' \in WalkPhases \cup {"walked", "failed"})
    <3>1. BrowseRoot => phase = "root"
      BY DEF BrowseRoot
    <3>2. QED
      BY <1>2, <2>1, <3>1 DEF Walk, BrowseChildren, DiscoverMaxParents, BrowseBatch,
         BrowseFails, FollowContinuations, BeginRetries, RetrySolo, RetryEmpty, FollowSolo, SoloEnds,
         ReadMetadata, SkipParent, NextParent, VisitChild, EndBatch, EndWalk, WalkAborts, WalkPhases
  <2>3. phase' \notin ShapedPhases
    BY <2>2 DEF WalkPhases, ShapedPhases
  <2>4. QED  BY <2>3 DEF Shaped
<1>3. CASE (After /\ ~CollectArtificial) \/ UNCHANGED vars
  <2>1. phase' \in ShapedPhases => phase \in ShapedPhases /\ UNCHANGED <<artificial, named>>
    BY <1>3 DEF After, TypeSteps, BeginTypes, BrowseType, EndTypes, BeginStructures,
       WalkStructure, EndStructures, StampNode, EndStamping, ResolveNames, Ship, vars, walkVars,
       modelVars, ShapedPhases, Next, Walk
  <2>2. UNCHANGED <<out, site>>
    BY <1>3, AfterIsAfterwards DEF Afterwards, vars, walkVars, tree, Inv
  <2>3. QED  BY <2>1, <2>2, ArtificialKept DEF Shaped
<1>4. QED  BY <1>1, <1>2, <1>3 DEF Next, After

LEMMA LeastExists ==
    ASSUME NEW S \in SUBSET Nat, S # {}
    PROVE  \E k \in S : \A j \in S : k <= j
<1>1. PICK k \in S : \A j \in S : ~ (<<j, k>> \in OpToRel(<, Nat))
  BY NatLessThanWellFounded, WFMin
<1>2. \A j \in S : ~ (j < k)
  BY <1>1 DEF OpToRel
<1>3. \A j \in S : k <= j
  BY <1>2
<1>4. QED  BY <1>3

\* The first node of each shape is the one whose type is made.
LEMMA FirstShape ==
    ASSUME NEW n \in Emitted, EligibleForArtificial(n), out \in Seq(NodeDescriptor)
    PROVE  \E m \in Emitted : EligibleForArtificial(m) /\ FirstOfShape(m) /\ Shape(m) = Shape(n)
<1> DEFINE Alike == {m \in Emitted : EligibleForArtificial(m) /\ Shape(m) = Shape(n)}
           Places == {Position(m) : m \in Alike}
<1>1. \A m \in Emitted : Position(m) \in Nat
  <2>1. \A m \in Emitted : Position(m) \in DOMAIN out
    BY DEF Emitted, Position
  <2>2. DOMAIN out \subseteq Nat
    OBVIOUS
  <2>3. QED  BY <2>1, <2>2
<1>2. Places \in SUBSET Nat
  BY <1>1
<1>3. Position(n) \in Places
  OBVIOUS
<1>4. PICK k \in Places : \A j \in Places : k <= j
  BY <1>2, <1>3, LeastExists
<1>5. PICK m \in Alike : k = Position(m)
  OBVIOUS
<1>6. FirstOfShape(m)
  <2>1. SUFFICES ASSUME NEW l \in Emitted, EligibleForArtificial(l), Shape(l) = Shape(m)
                 PROVE  Position(m) <= Position(l)
    BY DEF FirstOfShape
  <2>2. l \in Alike
    BY <2>1
  <2>3. QED  BY <1>4, <1>5, <2>2
<1>7. QED  BY <1>5, <1>6

\* The pieces that add up to what the routes say of types and namespaces.
Derived == RowsAllowed /\ TypesFollowed /\ Shaped

LEMMA DerivedInit == Init => Derived
<1> SUFFICES ASSUME Init PROVE Derived
  OBVIOUS
<1>1. out = <<>> /\ phase = "limits" /\ types = <<>> /\ typeSeen = {}
  BY DEF Init, WalkInit, TypeInit
<1>2. RowsAllowed /\ Shaped
  BY <1>1 DEF RowsAllowed, Shaped, ShapedPhases
<1>3. TypesFollowed
  BY <1>1 DEF TypesFollowed, StampedPhases
<1>4. QED  BY <1>2, <1>3 DEF Derived

\* What can be walked has been.
LEMMA WalkedTypes ==
    ASSUME Inv, TypesFollowed, Shipped, NEW t, Walkable(t)
    PROVE  t \in RangeOf(types)
<1>1. CASE "type" \in faults
  BY <1>1 DEF Walkable
<1>2. CASE "type" \notin faults
  <2>1. phase \in {"typed"} \cup StampedPhases
    BY DEF Shipped, StampedPhases
  <2>2. FollowedTo(RangeOf(types))
    BY <1>2, <2>1 DEF TypesFollowed
  <2>3. RangeOf(types) \subseteq TypeIds
    BY DEF RangeOf, Inv, Later, TypesTypeOK
  <2>4. ClosedInWalk(world, RangeOf(types))
    BY <2>2 DEF ClosedInWalk, FollowedTo
  <2>5. <<site, t>> \in Reachable
    BY <1>2 DEF Walkable
  <2>6. \A S \in SUBSET TypeIds : ClosedInWalk(world, S) => t \in S
    BY <2>5 DEF Reachable, world
  <2>7. QED  BY <2>3, <2>4, <2>6
<1>3. QED  BY <1>1, <1>2

\* What a route shows as artificial, the browse has made a type for.
LEMMA ShownIsMade ==
    ASSUME NEW n, SameParent(n), UsesArtificial(n)
    PROVE  EligibleForArtificial(n)
BY DEF SameParent, UsesArtificial, ArtificialEnabled, EligibleForArtificial

\* The shape tells the schema, without the "!" of its name too.
LEMMA ShapeTellsSchema ==
    ASSUME Inv, PlainRanks, LabelsDistinct, NEW m \in Emitted, NEW n \in Emitted,
           Shapeable(m), Shapeable(n), WithoutBang(Shape(m)) = WithoutBang(Shape(n))
    PROVE  ValueSchema(m) = ValueSchema(n)
<1>1. /\ m \in Nodes /\ n \in Nodes /\ site \in DOMAIN Catalogue
      /\ named \subseteq TypeIds
  BY RowOf DEF Inv, InHand, WalkTypeOK, Later
<1>2. DataType(m) \in TypeIds /\ DataType(n) \in TypeIds
  <2>1. \A k \in Nodes : world.datatype[k] \in TypeIds \cup {NoType}
    BY <1>1, TypeWorldTypes DEF ModelWorld
  <2>2. \A k \in Nodes : DataType(k) \in TypeIds \cup {NoType}
    BY <2>1 DEF DataType
  <2>3. QED  BY <1>1, <2>2 DEF Shapeable
<1>3. /\ NoBang(DataTypeName(m)) = NoBang(DataTypeName(n))
      /\ RankName(world.rank[m]) = RankName(world.rank[n])
  <2>1. /\ WithoutBang(Shape(m))[1] = NoBang(DataTypeName(m))
        /\ WithoutBang(Shape(m))[2] = RankName(world.rank[m])
    BY DEF Shape, WithoutBang
  <2>2. /\ WithoutBang(Shape(n))[1] = NoBang(DataTypeName(n))
        /\ WithoutBang(Shape(n))[2] = RankName(world.rank[n])
    BY DEF Shape, WithoutBang
  <2>3. QED  BY <2>1, <2>2
<1>4. DataType(m) = DataType(n)
  <2>1. ASSUME NEW k PROVE NoBang(DataTypeName(k)) \in NamesOf(DataType(k))
    BY DEF DataTypeName, NamesOf
  <2>2. NamesOf(DataType(m)) \cap NamesOf(DataType(n)) # {}
    BY <1>3, <2>1
  <2>3. QED  BY <1>2, <2>2 DEF LabelsDistinct
<1>5. (world.rank[m] >= 1) <=> (world.rank[n] >= 1)
  <2>1. world.rank[m] \in -3..2 /\ world.rank[n] \in -3..2
    BY <1>1, TypeWorldTypes DEF ModelWorld, Ranks
  <2>2. world.rank[m] >= -1 /\ world.rank[n] >= -1
    BY <1>1 DEF PlainRanks
  <2>3. QED  BY <1>3, <2>1, <2>2 DEF RankName
<1>6. (world.rank[m] >= 1) = (world.rank[n] >= 1)
  <2> DEFINE a == world.rank[m] >= 1
             b == world.rank[n] >= 1
  <2>1. a \in BOOLEAN /\ b \in BOOLEAN /\ (a <=> b)
    BY <1>5
  <2> HIDE DEF a, b
  <2>2. a = b
    BY <2>1
  <2>3. QED  BY <2>2 DEF a, b
<1>7. QED  BY <1>4, <1>6 DEF ValueSchema

\* What a text without a "!" is without its "!".
LEMMA FreeOfBang ==
    ASSUME NEW text \in Text, Free(text, "!")
    PROVE  NoBang(text) = text
BY DEF NoBang, Free, Text

\* A browsed type is found under its NodeId, or another that is listed is.
LEMMA NamesAreListed ==
    ASSUME Inv, NEW t \in RangeOf(types)
    PROVE  <<NameOf(NoBang(world.typeid[t]))>> \in ListedTypes
<1> DEFINE source == NoBang(world.typeid[t])
<1>1. types \in Seq(TypeIds)
  BY DEF Inv, Later, TypesTypeOK
<1>2. CASE CustomAt(source) # {}
  <2> DEFINE c == CHOOSE x \in CustomAt(source) : TRUE
  <2>1. c \in CustomAt(source) /\ NameOf(source) = world.label[c]
    BY <1>2 DEF NameOf
  <2>2. \E d \in CustomTypes : d.source = c
    BY <2>1 DEF CustomAt
  <2> HIDE DEF c, source
  <2>3. <<world.label[c]>> \in ListedTypes
    BY <2>2 DEF ListedTypes
  <2>4. <<NameOf(source)>> \in ListedTypes
    BY <2>1, <2>3
  <2>5. QED  BY <2>4 DEF source
<1>3. CASE CustomAt(source) = {}
  <2> DEFINE S == BrowsedAt(source)
             Ahead == {Len(types) - i : i \in S}
  <2>1. PICK k \in DOMAIN types : types[k] = t
    BY DEF RangeOf
  <2>2. k \in S
    BY <2>1 DEF BrowsedAt
  <2>3. S \subseteq DOMAIN types /\ DOMAIN types = 1..Len(types) /\ Len(types) \in Nat
    BY <1>1 DEF BrowsedAt
  <2> HIDE DEF S, source
  <2>4. Ahead \in SUBSET Nat /\ Ahead # {}
    BY <2>2, <2>3
  <2>5. PICK l \in Ahead : \A j \in Ahead : l <= j
    BY <2>4, LeastExists
  <2>6. PICK i \in S : l = Len(types) - i
    OBVIOUS
  <2>7. \A j \in S : j <= i
    <3>1. ASSUME NEW j \in S PROVE j <= i
      <4>1. Len(types) - j \in Ahead
        OBVIOUS
      <4>2. Len(types) - i <= Len(types) - j
        BY <2>5, <2>6, <4>1
      <4>3. i \in Nat /\ j \in Nat
        BY <2>3
      <4>4. QED  BY <2>3, <4>2, <4>3
    <3>2. QED  BY <3>1
  <2> DEFINE last == CHOOSE x \in S : \A j \in S : j <= x
  <2>8. last \in S
    BY <2>7
  <2>9. NameOf(source) = NoBang(world.label[types[last]])
    BY <1>3, <2>2 DEF NameOf, S
  <2> HIDE DEF last
  <2>10. types[last] \in RangeOf(types)
    BY <2>3, <2>8 DEF RangeOf
  <2>11. <<NoBang(world.label[types[last]])>> \in ListedTypes
    BY <2>10 DEF ListedTypes
  <2>12. <<NameOf(source)>> \in ListedTypes
    BY <2>9, <2>11
  <2>13. QED  BY <2>12 DEF source
<1>4. QED  BY <1>2, <1>3

LEMMA ResolveFollows ==
    ASSUME Inv, Derived, Shipped, NEW n \in Objects
    PROVE  /\ (TypeSource(n) = NoType \/ (NamedAlike(n) /\ Walkable(TypeSource(n)))) =>
                TypeElementId(n) \in ListedTypes
           /\ (NamedAlike(n) /\ UsesArtificial(n) /\ PlainRanks /\ LabelsDistinct) =>
                {a.schema : a \in {b \in artificial : b.shape = TypeElementId(n)}} = {ValueSchema(n)}
           /\ UriOf(n) # NoUri => NamespaceUri(n) \in Exposed
<1>1. /\ n \in Emitted /\ artificial = Artificial /\ out \in Seq(NodeDescriptor)
      /\ site \in DOMAIN Catalogue
  BY DEF Objects, Derived, Shaped, Shipped, ShapedPhases, Inv, InHand, WalkTypeOK
<1>2. n \in Nodes
  BY <1>1, RowOf DEF Inv
<1>3. ASSUME NamedAlike(n), UsesArtificial(n)
      PROVE  /\ TypeElementId(n) = WithoutBang(Shape(n))
             /\ \E m \in Emitted : /\ EligibleForArtificial(m) /\ Shape(m) = Shape(n)
                                   /\ [shape |-> WithoutBang(Shape(m)), schema |-> ValueSchema(m)] \in artificial
  <2>1. EligibleForArtificial(n)
    BY <1>3, ShownIsMade DEF NamedAlike
  <2>2. PICK m \in Emitted : EligibleForArtificial(m) /\ FirstOfShape(m) /\ Shape(m) = Shape(n)
    BY <1>1, <2>1, FirstShape
  <2>3. DataTypeName(n) \in Text
    <3>1. DataType(n) \in TypeIds
      <4>1. world.datatype[n] \in TypeIds \cup {NoType}
        BY <1>1, <1>2, TypeWorldTypes DEF ModelWorld
      <4>2. QED  BY <2>1, <4>1 DEF DataType, EligibleForArtificial, Shapeable
    <3>2. world.label \in [TypeIds -> Text] /\ world.custom \in [TypeIds -> Text]
      BY <1>1, TypeWorldTypes DEF ModelWorld
    <3>3. QED  BY <3>1, <3>2 DEF DataTypeName
  <2>4. NoBang(DataTypeName(n)) = DataTypeName(n)
    BY <1>3, <2>3, FreeOfBang DEF NamedAlike
  <2>5. WithoutBang(Shape(n)) = Shape(n)
    BY <2>4 DEF WithoutBang, Shape
  <2>6. TypeElementId(n) = Shape(n)
    BY <1>3 DEF TypeElementId
  <2>7. QED  BY <1>1, <2>2, <2>5, <2>6 DEF Artificial
<1>4. ASSUME NamedAlike(n), Walkable(TypeSource(n)) PROVE TypeElementId(n) \in ListedTypes
  <2>1. CASE UsesArtificial(n)
    <3>1. PICK m \in Emitted : /\ WithoutBang(Shape(m)) = WithoutBang(Shape(n))
                               /\ [shape |-> WithoutBang(Shape(m)), schema |-> ValueSchema(m)] \in artificial
      BY <1>3, <1>4, <2>1
    <3>2. WithoutBang(Shape(n)) \in {a.shape : a \in artificial}
      BY <3>1
    <3>3. TypeElementId(n) = WithoutBang(Shape(n))
      BY <1>3, <1>4, <2>1
    <3>4. QED  BY <3>2, <3>3 DEF ListedTypes
  <2>2. CASE ~UsesArtificial(n)
    <3>1. TypeSource(n) \in RangeOf(types)
      BY <1>4, WalkedTypes DEF Derived
    <3>2. TypeSource(n) \in TypeIds
      BY <3>1 DEF RangeOf, Inv, Later, TypesTypeOK
    <3>3. TypeSource(n) # NoType
      BY <3>2, ModelAssumption
    <3>4. TypeElementId(n) = <<NameOf(NoBang(world.typeid[TypeSource(n)]))>>
      BY <2>2, <3>3 DEF TypeElementId
    <3>5. QED  BY <3>1, <3>4, NamesAreListed
  <2>3. QED  BY <2>1, <2>2
<1>5. ASSUME TypeSource(n) = NoType PROVE TypeElementId(n) \in ListedTypes
  <2>1. ~UsesArtificial(n)
    <3>1. GenericVariable # NoType
      BY ModelAssumption
    <3>2. QED  BY <1>5, <3>1 DEF UsesArtificial, Shapeable
  <2>2. TypeElementId(n) = Placeholder
    BY <1>5, <2>1 DEF TypeElementId
  <2>3. QED  BY <2>2 DEF ListedTypes
<1>6. ASSUME NamedAlike(n), UsesArtificial(n), PlainRanks, LabelsDistinct
      PROVE  {a.schema : a \in {b \in artificial : b.shape = TypeElementId(n)}} = {ValueSchema(n)}
  <2>1. ASSUME NEW a \in artificial, a.shape = TypeElementId(n) PROVE a.schema = ValueSchema(n)
    <3>1. PICK m \in Emitted : /\ EligibleForArtificial(m)
                               /\ a = [shape |-> WithoutBang(Shape(m)), schema |-> ValueSchema(m)]
      BY <1>1 DEF Artificial
    <3>2. WithoutBang(Shape(m)) = WithoutBang(Shape(n)) /\ a.schema = ValueSchema(m)
      BY <1>3, <1>6, <2>1, <3>1
    <3>3. Shapeable(m) /\ Shapeable(n)
      BY <1>6, <3>1 DEF EligibleForArtificial, UsesArtificial
    <3>4. QED  BY <1>1, <1>6, <3>2, <3>3, ShapeTellsSchema
  <2>2. PICK m \in Emitted : /\ Shape(m) = Shape(n)
                             /\ [shape |-> WithoutBang(Shape(m)), schema |-> ValueSchema(m)] \in artificial
    BY <1>3, <1>6
  <2> DEFINE made == [shape |-> WithoutBang(Shape(m)), schema |-> ValueSchema(m)]
  <2>3. made.shape = TypeElementId(n)
    BY <1>3, <1>6, <2>2
  <2> HIDE DEF made
  <2>4. \E a \in artificial : a.shape = TypeElementId(n)
    BY <2>2, <2>3 DEF made
  <2>5. QED  BY <2>1, <2>4
<1>7. ASSUME UriOf(n) # NoUri PROVE NamespaceUri(n) \in Exposed
  <2>1. world.ns[n] \in Nat /\ world.uris \in Seq(Uris)
    BY <1>1, <1>2, WalkAssumption DEF WalkWorld, world, Catalogue
  <2>2. world.ns[n] + 1 \in DOMAIN world.uris /\ UriOf(n) = world.uris[world.ns[n] + 1]
    BY <1>7, <2>1 DEF UriOf
  <2>3. UriOf(n) \in RangeOf(world.uris)
    BY <2>2 DEF RangeOf
  <2>4. Allowed(n)
    BY <1>1 DEF Derived, RowsAllowed, Emitted
  <2>5. UriOf(n) \in ExposedUris
    BY <2>3, <2>4 DEF ExposedUris, Allowed
  <2>6. QED  BY <2>5 DEF Exposed, NamespaceUri
<1>8. QED  BY <1>4, <1>5, <1>6, <1>7

LEMMA Derivation == Spec => [](Inv /\ Derived)
<1>1. Init => Inv /\ Derived
  BY InvInit, DerivedInit
<1>2. (Inv /\ Derived) /\ [Next]_vars => (Inv /\ Derived)'
  <2>1. Inv /\ Derived /\ [Next]_vars => Derived'
    BY AllowedStep, FollowedStep, ShapedStep DEF Derived, Inv
  <2>2. QED  BY <2>1, InvStep
<1>3. QED  BY <1>1, <1>2, PTL DEF Spec

\* Objects refer to types that are listed and describe them, and to namespaces.
THEOREM ReferencesResolve == Spec => []ObjectsResolve
<1>1. Inv /\ Derived => ObjectsResolve
  BY ResolveFollows DEF ObjectsResolve
<1>2. QED  BY <1>1, Derivation, PTL

--------------------------------------------------------------------------
(* What the routes make of a composition.                                  *)

--------------------------------------------------------------------------
(* The components of a composition.                                        *)

\* A step that can be taken from anywhere can be taken any number of times.
LEMMA Iterates ==
    ASSUME NEW S, NEW base \in S, NEW step \in [S -> S]
    PROVE  \E f \in [Nat -> S] : f[0] = base /\ \A k \in Nat : f[k + 1] = step[f[k]]
<1> DEFINE Begun(k) == {h \in [0..k -> S] : h[0] = base /\ \A j \in 0..(k - 1) : h[j + 1] = step[h[j]]}
<1>1. ASSUME NEW k \in Nat PROVE Begun(k) # {}
  <2> DEFINE Bad == {j \in Nat : Begun(j) = {}}
  <2>1. SUFFICES ASSUME Bad # {} PROVE FALSE
    OBVIOUS
  <2>2. PICK j \in Bad : \A i \in Bad : j <= i
    BY <2>1, LeastExists
  <2>3. CASE j = 0
    <3> DEFINE h == [i \in 0..0 |-> base]
    <3>1. h \in Begun(0)
      OBVIOUS
    <3>2. QED  BY <2>2, <2>3, <3>1
  <2>4. CASE j # 0
    <3>1. j - 1 \in Nat /\ j - 1 \notin Bad
      <4>1. j \in Nat /\ j - 1 \in Nat /\ ~ (j <= j - 1)
        BY <2>2, <2>4
      <4>2. QED  BY <2>2, <4>1
    <3>2. PICK g \in Begun(j - 1) : TRUE
      BY <3>1
    <3>3. /\ g \in [0..(j - 1) -> S] /\ g[0] = base
          /\ \A i \in 0..(j - 2) : g[i + 1] = step[g[i]]
      BY <3>1, <3>2
    <3> DEFINE h == [i \in 0..j |-> IF i = j THEN step[g[j - 1]] ELSE g[i]]
    <3>4. h \in [0..j -> S]
      <4>1. ASSUME NEW i \in 0..j, i # j PROVE g[i] \in S
        BY <3>3, <4>1
      <4>2. step[g[j - 1]] \in S
        BY <3>1, <3>3
      <4>3. QED  BY <4>1, <4>2
    <3>5. h[0] = base
      BY <2>4, <3>1, <3>3
    <3>6. ASSUME NEW i \in 0..(j - 1) PROVE h[i + 1] = step[h[i]]
      <4>1. h[i] = g[i]
        BY <3>1
      <4>2. CASE i + 1 = j
        BY <4>1, <4>2
      <4>3. CASE i + 1 # j
        BY <3>1, <3>3, <4>1, <4>3
      <4>4. QED  BY <4>2, <4>3
    <3>7. QED  BY <2>2, <3>4, <3>5, <3>6
  <2>5. QED  BY <2>3, <2>4
<1> DEFINE Value(k) == CHOOSE h \in Begun(k) : TRUE
<1>2. \A k \in Nat : Value(k) \in Begun(k)
  BY <1>1
<1>3. \A k \in Nat : /\ Value(k) \in [0..k -> S] /\ Value(k)[0] = base
                     /\ \A j \in 0..(k - 1) : Value(k)[j + 1] = step[Value(k)[j]]
  BY <1>2
<1> HIDE DEF Value
<1>4. ASSUME NEW k \in Nat, NEW j \in 0..k PROVE Value(k)[j] = Value(k + 1)[j]
  <2> DEFINE Bad == {i \in 0..k : Value(k)[i] # Value(k + 1)[i]}
  <2>1. SUFFICES ASSUME Bad # {} PROVE FALSE
    OBVIOUS
  <2>2. Bad \in SUBSET Nat
    OBVIOUS
  <2>3. PICK i \in Bad : \A l \in Bad : i <= l
    BY <2>1, <2>2, LeastExists
  <2>4. i \in 0..k /\ k + 1 \in Nat
    BY <2>3
  <2>5. CASE i = 0
    BY <1>3, <2>3, <2>4, <2>5
  <2>6. CASE i # 0
    <3>1. i - 1 \in 0..(k - 1) /\ i - 1 \in 0..k /\ (i - 1) + 1 = i /\ i - 1 \notin Bad
      BY <2>3, <2>4, <2>6
    <3>2. Value(k)[i - 1] = Value(k + 1)[i - 1]
      BY <3>1
    <3>3. Value(k)[(i - 1) + 1] = step[Value(k)[i - 1]]
      BY <1>3, <3>1
    <3>4. Value(k + 1)[(i - 1) + 1] = step[Value(k + 1)[i - 1]]
      <4>1. i - 1 \in 0..((k + 1) - 1)
        BY <2>4, <3>1
      <4>2. QED  BY <1>3, <2>4, <4>1
    <3>5. QED  BY <2>3, <3>1, <3>2, <3>3, <3>4
  <2>7. QED  BY <2>5, <2>6
<1> DEFINE f == [k \in Nat |-> Value(k)[k]]
<1>5. f \in [Nat -> S]
  <2>1. ASSUME NEW k \in Nat PROVE Value(k)[k] \in S
    <3>1. Value(k) \in [0..k -> S] /\ k \in 0..k
      BY <1>3
    <3>2. QED  BY <3>1
  <2>2. QED  BY <2>1
<1>6. f[0] = base
  BY <1>3
<1>7. ASSUME NEW k \in Nat PROVE f[k + 1] = step[f[k]]
  <2>1. k + 1 \in Nat /\ k \in 0..((k + 1) - 1) /\ k \in 0..k
    OBVIOUS
  <2>2. Value(k + 1)[k + 1] = step[Value(k + 1)[k]]
    BY <1>3, <2>1
  <2>3. Value(k)[k] = Value(k + 1)[k]
    BY <1>4, <2>1
  <2>4. QED  BY <2>1, <2>2, <2>3
<1>8. QED  BY <1>5, <1>6, <1>7

\* The nodes found as components of a node, and those that can have more.
Near(n) == {m \in Emitted : ComponentOf(m, n)}
Inner(n) == {c \in Emitted : ComponentOf(c, n) /\ Class(c) = "Object"}

\* The recursion of WithinSteps has a solution.
LEMMA WithinIs ==
    ASSUME NEW k \in Nat, NEW n \in Emitted
    PROVE  /\ WithinSteps[k][n] = IF k = 0 THEN {}
                                  ELSE Near(n) \cup UNION {WithinSteps[k - 1][m] : m \in Inner(n)}
           /\ WithinSteps[k][n] \subseteq Emitted
<1> DEFINE S == [Emitted -> SUBSET Emitted]
           base == [i \in Emitted |-> {}]
           step == [g \in S |-> [i \in Emitted |-> Near(i) \cup UNION {g[m] : m \in Inner(i)}]]
<1>1. base \in S
  OBVIOUS
<1>2. step \in [S -> S]
  <2>1. ASSUME NEW g \in S, NEW i \in Emitted
        PROVE  Near(i) \cup UNION {g[m] : m \in Inner(i)} \in SUBSET Emitted
    <3>1. Near(i) \subseteq Emitted /\ Inner(i) \subseteq Emitted
      BY DEF Near, Inner
    <3>2. \A m \in Inner(i) : g[m] \subseteq Emitted
      BY <3>1
    <3>3. QED  BY <3>1, <3>2
  <2>2. QED  BY <2>1
<1> HIDE DEF base, step, S
<1>3. PICK f \in [Nat -> S] : f[0] = base /\ \A j \in Nat : f[j + 1] = step[f[j]]
  BY <1>1, <1>2, Iterates
<1> DEFINE Body(w) ==
      [j \in Nat |-> [i \in Emitted |-> IF j = 0 THEN {}
                                        ELSE Near(i) \cup UNION {w[j - 1][m] : m \in Inner(i)}]]
<1>4. ASSUME NEW j \in Nat
      PROVE  f[j] = [i \in Emitted |-> IF j = 0 THEN {}
                                       ELSE Near(i) \cup UNION {f[j - 1][m] : m \in Inner(i)}]
  <2>1. CASE j = 0
    BY <1>3, <2>1 DEF base
  <2>2. CASE j # 0
    <3>1. j - 1 \in Nat /\ (j - 1) + 1 = j
      BY <2>2
    <3>2. f[j] = step[f[j - 1]] /\ f[j - 1] \in S
      BY <1>3, <3>1
    <3>3. step[f[j - 1]] = [i \in Emitted |-> Near(i) \cup UNION {f[j - 1][m] : m \in Inner(i)}]
      BY <3>2 DEF step
    <3>4. QED  BY <2>2, <3>2, <3>3
  <2>3. QED  BY <2>1, <2>2
<1>5. f = Body(f)
  BY <1>3, <1>4
<1>6. WithinSteps = CHOOSE w : w = Body(w)
  BY DEF WithinSteps, Near, Inner
<1> HIDE DEF Body
<1>7. WithinSteps = Body(WithinSteps)
  BY <1>5, <1>6
<1>8. \A j \in Nat : WithinSteps[j] = [i \in Emitted |-> IF j = 0 THEN {}
                                       ELSE Near(i) \cup UNION {WithinSteps[j - 1][m] : m \in Inner(i)}]
  BY <1>7 DEF Body
<1>9. ASSUME NEW j \in Nat, NEW i \in Emitted
      PROVE  WithinSteps[j][i] = IF j = 0 THEN {}
                                 ELSE Near(i) \cup UNION {WithinSteps[j - 1][m] : m \in Inner(i)}
  BY <1>8
<1>10. ASSUME NEW j \in Nat PROVE \A i \in Emitted : WithinSteps[j][i] \subseteq Emitted
  <2> DEFINE Bad == {l \in Nat : ~ \A i \in Emitted : WithinSteps[l][i] \subseteq Emitted}
  <2>1. SUFFICES ASSUME Bad # {} PROVE FALSE
    OBVIOUS
  <2>2. PICK l \in Bad : \A o \in Bad : l <= o
    BY <2>1, LeastExists
  <2>3. PICK i \in Emitted : ~ (WithinSteps[l][i] \subseteq Emitted)
    BY <2>2
  <2>4. l # 0
    BY <1>9, <2>2, <2>3
  <2>5. l - 1 \in Nat /\ l - 1 \notin Bad
    <3>1. l \in Nat /\ l - 1 \in Nat /\ ~ (l <= l - 1)
      BY <2>2, <2>4
    <3>2. QED  BY <2>2, <3>1
  <2>6. \A m \in Emitted : WithinSteps[l - 1][m] \subseteq Emitted
    BY <2>5
  <2>7. Near(i) \subseteq Emitted /\ Inner(i) \subseteq Emitted
    BY DEF Near, Inner
  <2>8. WithinSteps[l][i] = Near(i) \cup UNION {WithinSteps[l - 1][m] : m \in Inner(i)}
    BY <1>9, <2>2, <2>4
  <2>9. QED  BY <2>3, <2>6, <2>7, <2>8
<1>11. QED  BY <1>9, <1>10

\* The nodes that the elementIds of the components of a node lead to.
Found(n) == {NodeAt(NodeId(m)) : m \in {c \in Components(n) : Registered(NodeId(c))}}

\* The recursion of LeavesWithin has a solution.
LEMMA LeavesAre ==
    ASSUME Shown, NEW k \in Nat \ {0}, NEW n \in Emitted
    PROVE  LeavesWithin[k][n] =
             IF ~IsComposition(n) THEN {}
             ELSE IF k = 1 THEN {NodeId(m) : m \in Variables(Components(n))}
             ELSE {ElementId(m) : m \in Variables(Found(n))} \cup
                  UNION {LeavesWithin[k - 1][m] : m \in Found(n) \ Variables(Found(n))}
<1> DEFINE T == {NodeId(m) : m \in Emitted} \cup {ElementId(m) : m \in Emitted}
           S == [Emitted -> SUBSET T]
           Last(i) == {NodeId(m) : m \in Variables(Components(i))}
           There(i) == {ElementId(m) : m \in Variables(Found(i))}
           Deeper(i) == Found(i) \ Variables(Found(i))
           base == [i \in Emitted |-> IF ~IsComposition(i) THEN {} ELSE Last(i)]
           step == [g \in S |-> [i \in Emitted |->
                      IF ~IsComposition(i) THEN {} ELSE There(i) \cup UNION {g[m] : m \in Deeper(i)}]]
<1>1. \A i \in Emitted : Found(i) \subseteq Emitted /\ Components(i) \subseteq Emitted
  <2> SUFFICES ASSUME NEW i \in Emitted PROVE Found(i) \subseteq Emitted /\ Components(i) \subseteq Emitted
    OBVIOUS
  <2>1. Components(i) \subseteq Emitted
    BY DEF Components, Objects
  <2>2. ASSUME NEW t, Registered(t) PROVE NodeAt(t) \in Emitted
    <3>1. PICK m \in Emitted : stamps[m].wire = t
      BY <2>2 DEF Registered
    <3>2. NodeAt(stamps[m].wire) = m
      BY Listing
    <3>3. QED  BY <3>1, <3>2
  <2>3. QED  BY <2>1, <2>2 DEF Found
<1>2. \A i \in Emitted : Last(i) \subseteq T /\ There(i) \subseteq T /\ Deeper(i) \subseteq Emitted
  BY <1>1 DEF Variables
<1> HIDE DEF T, Last, There, Deeper
<1>3. base \in S
  BY <1>2
<1>4. step \in [S -> S]
  <2>1. ASSUME NEW g \in S, NEW i \in Emitted
        PROVE  (IF ~IsComposition(i) THEN {} ELSE There(i) \cup UNION {g[m] : m \in Deeper(i)}) \in SUBSET T
    <3>1. \A m \in Deeper(i) : g[m] \subseteq T
      BY <1>2
    <3>2. QED  BY <1>2, <3>1
  <2>2. QED  BY <2>1
<1> HIDE DEF base, step, S
<1>5. PICK f \in [Nat -> S] : f[0] = base /\ \A j \in Nat : f[j + 1] = step[f[j]]
  <2> SUFFICES ASSUME \A V : \A b \in V, s \in [V -> V] :
                        \E f \in [Nat -> V] : f[0] = b /\ \A j \in Nat : f[j + 1] = s[f[j]]
               PROVE  \E f \in [Nat -> S] : f[0] = base /\ \A j \in Nat : f[j + 1] = step[f[j]]
    BY Iterates
  <2> QED  BY <1>3, <1>4
<1> DEFINE h == [j \in Nat \ {0} |-> f[j - 1]]
           Body(w) ==
             [j \in Nat \ {0} |-> [i \in Emitted |->
                IF ~IsComposition(i) THEN {}
                ELSE IF j = 1 THEN Last(i)
                ELSE There(i) \cup UNION {w[j - 1][m] : m \in Deeper(i)}]]
<1>6. ASSUME NEW j \in Nat \ {0}
      PROVE  h[j] = [i \in Emitted |->
                       IF ~IsComposition(i) THEN {}
                       ELSE IF j = 1 THEN Last(i)
                       ELSE There(i) \cup UNION {h[j - 1][m] : m \in Deeper(i)}]
  <2>1. h[j] = f[j - 1]
    OBVIOUS
  <2>2. CASE j = 1
    BY <1>5, <2>1, <2>2 DEF base
  <2>3. CASE j # 1
    <3>1. j - 1 \in Nat \ {0} /\ j - 2 \in Nat /\ (j - 2) + 1 = j - 1 /\ (j - 1) - 1 = j - 2
      BY <2>3
    <3>2. h[j - 1] = f[j - 2]
      BY <3>1
    <3>3. f[j - 1] = step[f[j - 2]] /\ f[j - 2] \in S
      BY <1>5, <3>1
    <3>4. step[f[j - 2]] = [i \in Emitted |->
             IF ~IsComposition(i) THEN {} ELSE There(i) \cup UNION {f[j - 2][m] : m \in Deeper(i)}]
      BY <3>3 DEF step
    <3> HIDE DEF h
    <3>5. QED  BY <2>1, <2>3, <3>2, <3>3, <3>4
  <2>4. QED  BY <2>2, <2>3
<1>7. h = Body(h)
  <2>1. h = [j \in Nat \ {0} |-> h[j]]
    OBVIOUS
  <2> HIDE DEF h
  <2>2. QED  BY <1>6, <2>1
<1>8. LeavesWithin = CHOOSE w : w = Body(w)
  BY DEF LeavesWithin, Last, There, Deeper, Found
<1> HIDE DEF Body, h
<1>9. LeavesWithin = Body(LeavesWithin)
  BY <1>7, <1>8
<1>10. LeavesWithin[k] = [i \in Emitted |->
         IF ~IsComposition(i) THEN {}
         ELSE IF k = 1 THEN Last(i)
         ELSE There(i) \cup UNION {LeavesWithin[k - 1][m] : m \in Deeper(i)}]
  BY <1>9 DEF Body
<1>11. QED  BY <1>10 DEF Last, There, Deeper

\* Where texts are kept apart the NodeId of a parent is its own, and a node comes
\* after the node it is a component of.
LEMMA ComponentsAre ==
    ASSUME Shown, NEW n \in Emitted
    PROVE  /\ Components(n) = Near(n) /\ Near(n) \subseteq Emitted
           /\ IsComposition(n) <=> Class(n) = "Object" /\ Near(n) # {}
           /\ \A m \in Near(n) : Position(n) < Position(m)
           /\ Position(n) \in Nat
<1>1. /\ Objects = Emitted /\ Emitted \subseteq Nodes
      /\ \A m \in Emitted : Row(m) \in Rows /\ Row(m).node = m /\ Parent(m) \in Nodes \cup {NoNode}
      /\ \A row \in Rows : row.node \in Emitted /\ Row(row.node) = row
  BY Listing
<1>2. \A m \in Nodes : NodeId(m) = NodeId(n) => m = n
  BY <1>1, TextsOf
<1>3. n # NoNode
  BY <1>1, WalkAssumption
<1>4. Components(n) = Near(n)
  <2>1. ASSUME NEW m \in Emitted
        PROVE  (Parent(m) # NoNode /\ NodeId(Parent(m)) = NodeId(n)) <=> Parent(m) = n
    BY <1>1, <1>2, <1>3
  <2>2. QED  BY <1>1, <2>1 DEF Components, Near, ComponentOf
<1>5. Near(n) \subseteq Emitted
  BY DEF Near
<1>6. (\E row \in Rows : row.parent = n /\ row.rel = "HasComponent") <=> Near(n) # {}
  <2>1. ASSUME NEW row \in Rows, row.parent = n, row.rel = "HasComponent" PROVE row.node \in Near(n)
    BY <1>1, <2>1 DEF Near, ComponentOf, Parent
  <2>2. ASSUME NEW m \in Near(n)
        PROVE  Row(m) \in Rows /\ Row(m).parent = n /\ Row(m).rel = "HasComponent"
    BY <1>1 DEF Near, ComponentOf, Parent
  <2>3. QED  BY <2>1, <2>2
<1>7. \A m \in Emitted : Position(m) \in DOMAIN out /\ out[Position(m)].node = m /\ Row(m) = out[Position(m)]
  BY DEF Emitted, Position, Row
<1>8. ASSUME NEW m \in Near(n) PROVE Position(n) < Position(m)
  <2>1. m \in Emitted /\ out[Position(m)].parent = n
    BY <1>7 DEF Near, ComponentOf, Parent
  <2>2. RowsInOrder
    BY DEF Shown, Recorded
  <2>3. QED  BY <1>7, <2>1, <2>2 DEF RowsInOrder
<1>9. Position(n) \in Nat
  <2>1. out \in Seq(NodeDescriptor)
    BY DEF Shown, Inv, InHand, WalkTypeOK
  <2>2. DOMAIN out \subseteq Nat
    BY <2>1
  <2>3. QED  BY <1>7, <2>2
<1>10. (IsComposition(n)) <=> (Class(n) = "Object" /\ Near(n) # {})
  BY <1>6 DEF IsComposition, Class
<1>11. QED  BY <1>4, <1>5, <1>8, <1>9, <1>10

\* An elementId that is also the NodeId is found again.
LEMMA ReadableIsFound ==
    ASSUME Shown, NEW m \in Emitted, Readable(m)
    PROVE  Registered(NodeId(m)) /\ NodeAt(NodeId(m)) = m /\ NodeId(m) = ElementId(m)
<1>1. NodeId(m) = stamps[m].wire
  BY DEF Readable, ElementId
<1>2. NodeAt(stamps[m].wire) = m
  BY Listing
<1>3. QED  BY <1>1, <1>2 DEF Registered, ElementId

\* One level of the recursion of the routes is one level of the tree.
LEMMA LevelFound ==
    ASSUME Shown, NEW n \in Emitted, \A m \in Near(n) : Readable(m)
    PROVE  /\ Found(n) = Near(n)
           /\ {NodeId(m) : m \in Variables(Components(n))} = {ElementId(m) : m \in Variables(Near(n))}
<1>1. Components(n) = Near(n) /\ Near(n) \subseteq Emitted
  BY ComponentsAre
<1>2. \A m \in Near(n) : Registered(NodeId(m)) /\ NodeAt(NodeId(m)) = m /\ NodeId(m) = ElementId(m)
  BY <1>1, ReadableIsFound
<1>3. Found(n) = Near(n)
  <2>1. {c \in Near(n) : Registered(NodeId(c))} = Near(n)
    BY <1>2
  <2>2. Found(n) = {NodeAt(NodeId(m)) : m \in Near(n)}
    BY <1>1, <2>1 DEF Found
  <2>3. QED  BY <1>2, <2>2
<1>4. {NodeId(m) : m \in Variables(Components(n))} = {ElementId(m) : m \in Variables(Near(n))}
  BY <1>1, <1>2 DEF Variables
<1>5. QED  BY <1>3, <1>4

\* The elementIds of the Variables within k steps.
Reported(k, n) == {ElementId(m) : m \in Variables(WithinSteps[k][n])}

\* One step of the induction over the depth.
LEMMA LeavesStep ==
    ASSUME Shown, NEW k \in Nat \ {0}, NEW n \in Emitted, Class(n) = "Object",
           \A m \in Near(n) : Readable(m),
           k # 1 => \A m \in Inner(n) : LeavesWithin[k - 1][m] = Reported(k - 1, m)
    PROVE  LeavesWithin[k][n] = Reported(k, n)
<1>1. /\ Components(n) = Near(n) /\ Near(n) \subseteq Emitted
      /\ IsComposition(n) <=> Near(n) # {}
  BY ComponentsAre
<1>2. /\ Found(n) = Near(n)
      /\ {NodeId(m) : m \in Variables(Components(n))} = {ElementId(m) : m \in Variables(Near(n))}
  BY LevelFound
<1>3. WithinSteps[k][n] = Near(n) \cup UNION {WithinSteps[k - 1][m] : m \in Inner(n)}
  BY WithinIs
<1>4. Inner(n) \subseteq Near(n) /\ Inner(n) \subseteq Emitted
  BY DEF Inner, Near
<1>5. LeavesWithin[k][n] =
        IF ~IsComposition(n) THEN {}
        ELSE IF k = 1 THEN {NodeId(m) : m \in Variables(Components(n))}
        ELSE {ElementId(m) : m \in Variables(Found(n))} \cup
             UNION {LeavesWithin[k - 1][m] : m \in Found(n) \ Variables(Found(n))}
  BY LeavesAre
<1>6. CASE Near(n) = {}
  <2>1. WithinSteps[k][n] = {}
    BY <1>3, <1>4, <1>6
  <2>2. LeavesWithin[k][n] = {}
    BY <1>1, <1>5, <1>6
  <2>3. QED  BY <2>1, <2>2 DEF Reported, Variables
<1>7. CASE Near(n) # {} /\ k = 1
  <2>1. \A m \in Emitted : WithinSteps[0][m] = {}
    BY WithinIs
  <2>2. WithinSteps[k][n] = Near(n)
    BY <1>3, <1>4, <1>7, <2>1
  <2>3. LeavesWithin[k][n] = {ElementId(m) : m \in Variables(Near(n))}
    BY <1>1, <1>2, <1>5, <1>7
  <2>4. QED  BY <2>2, <2>3 DEF Reported
<1>8. CASE Near(n) # {} /\ k # 1
  <2> DEFINE Others == Near(n) \ Variables(Near(n))
  <2>1. LeavesWithin[k][n] = {ElementId(m) : m \in Variables(Near(n))} \cup
                             UNION {LeavesWithin[k - 1][m] : m \in Others}
    BY <1>1, <1>2, <1>5, <1>8
  <2>2. k - 1 \in Nat \ {0}
    BY <1>8
  <2>3. Inner(n) \subseteq Others
    BY <1>4 DEF Inner, Variables
  <2>4. \A m \in Others \ Inner(n) : LeavesWithin[k - 1][m] = {}
    <3>1. ASSUME NEW m \in Others \ Inner(n) PROVE m \in Emitted /\ ~IsComposition(m)
      <4>1. m \in Emitted /\ Class(m) # "Object"
        BY <1>1 DEF Inner, Near
      <4>2. QED  BY <4>1, ComponentsAre
    <3>2. QED  BY <2>2, <3>1, LeavesAre
  <2>5. \A m \in Inner(n) : LeavesWithin[k - 1][m] = Reported(k - 1, m)
    BY <1>8
  <2> HIDE DEF Others
  <2>6. UNION {LeavesWithin[k - 1][m] : m \in Others} = UNION {Reported(k - 1, m) : m \in Inner(n)}
    BY <2>3, <2>4, <2>5
  <2>7. UNION {Reported(k - 1, m) : m \in Inner(n)} =
          {ElementId(x) : x \in Variables(UNION {WithinSteps[k - 1][m] : m \in Inner(n)})}
    BY DEF Reported, Variables
  <2> DEFINE U == UNION {WithinSteps[k - 1][m] : m \in Inner(n)}
  <2>8. Reported(k, n) = {ElementId(m) : m \in Variables(Near(n) \cup U)}
    BY <1>3 DEF Reported
  <2>9. LeavesWithin[k][n] = {ElementId(m) : m \in Variables(Near(n))} \cup {ElementId(x) : x \in Variables(U)}
    BY <2>1, <2>6, <2>7
  <2> HIDE DEF U
  <2>10. QED  BY <2>8, <2>9 DEF Variables
<1>9. QED  BY <1>6, <1>7, <1>8

\* Below a node whose components are all readable, by induction over the depth.
LEMMA LeavesAreReported ==
    ASSUME Shown, NEW o \in Emitted, \A m \in Emitted \ {o} : Readable(m),
           NEW k \in Nat \ {0}, NEW n \in Emitted, Class(n) = "Object", Position(o) <= Position(n)
    PROVE  LeavesWithin[k][n] = Reported(k, n)
<1> DEFINE Below == {i \in Emitted : Class(i) = "Object" /\ Position(o) <= Position(i)}
           Bad == {j \in Nat \ {0} : ~ \A i \in Below : LeavesWithin[j][i] = Reported(j, i)}
<1>1. SUFFICES ASSUME Bad # {} PROVE FALSE
  OBVIOUS
<1>2. PICK j \in Bad : \A l \in Bad : j <= l
  <2>1. Bad \in SUBSET Nat
    OBVIOUS
  <2>2. QED  BY <1>1, <2>1, LeastExists
<1>3. PICK i \in Below : LeavesWithin[j][i] # Reported(j, i)
  BY <1>2
<1>4. j \in Nat \ {0} /\ i \in Emitted /\ Class(i) = "Object" /\ Position(o) <= Position(i)
  BY <1>2, <1>3
<1>5. \A m \in Near(i) : m \in Emitted /\ m # o /\ Readable(m) /\ Position(o) <= Position(m)
  <2>1. Position(o) \in Nat /\ Position(i) \in Nat
    BY <1>4, ComponentsAre
  <2>2. SUFFICES ASSUME NEW m \in Near(i)
                 PROVE  m \in Emitted /\ m # o /\ Readable(m) /\ Position(o) <= Position(m)
    OBVIOUS
  <2>3. m \in Emitted /\ Position(i) < Position(m)
    BY <1>4, ComponentsAre
  <2>4. Position(m) \in Nat
    BY <2>3, ComponentsAre
  <2>5. Position(o) < Position(m)
    BY <1>4, <2>1, <2>3, <2>4
  <2>6. m # o
    BY <2>1, <2>5
  <2>7. QED  BY <2>1, <2>3, <2>4, <2>5, <2>6
<1>6. ASSUME j # 1, NEW m \in Inner(i) PROVE LeavesWithin[j - 1][m] = Reported(j - 1, m)
  <2>1. j - 1 \in Nat \ {0} /\ ~ (j <= j - 1)
    BY <1>4, <1>6
  <2>2. j - 1 \notin Bad
    BY <1>2, <2>1
  <2>3. m \in Below
    BY <1>5 DEF Inner, Near
  <2> HIDE DEF Below
  <2>4. QED  BY <2>1, <2>2, <2>3
<1>7. LeavesWithin[j][i] = Reported(j, i)
  BY <1>4, <1>5, <1>6, LeavesStep
<1>8. QED  BY <1>3, <1>7

LEMMA ComponentsFollow == Shown =>
    \A n \in Objects, depth \in Depths :
      (IsComposition(n) /\ \A m \in Objects \ {n} : Readable(m)) =>
        ValueComponents(n, depth) =
          {ElementId(m) : m \in Variables(WithinSteps[Levels(depth)][n])}
<1> SUFFICES ASSUME Shown, NEW n \in Objects, NEW depth \in Depths,
                    IsComposition(n), \A m \in Objects \ {n} : Readable(m)
             PROVE  ValueComponents(n, depth) =
                      {ElementId(m) : m \in Variables(WithinSteps[Levels(depth)][n])}
  OBVIOUS
<1> DEFINE k == Levels(depth)
<1>1. Objects = Emitted /\ Emitted \subseteq Nodes
  BY Listing
<1>2. Class(n) = "Object" /\ Position(n) \in Nat
  BY <1>1, ComponentsAre
<1>3. k \in Nat \ {0}
  <2>1. depth \in Nat
    BY ModelAssumption DEF Depths
  <2>2. Len(out) \in Nat
    BY DEF Shown, Inv, InHand, WalkTypeOK
  <2>3. QED  BY <2>1, <2>2 DEF Levels
<1> HIDE DEF k
<1>4. LeavesWithin[k][n] = Reported(k, n)
  BY <1>1, <1>2, <1>3, LeavesAreReported
<1>5. WithinSteps[k][n] \subseteq Emitted
  BY <1>1, <1>3, WithinIs
<1>6. \A m \in Emitted : Registered(ElementId(m))
  BY DEF Registered, ElementId
<1>7. \A t \in Reported(k, n) : Registered(t)
  BY <1>5, <1>6 DEF Reported, Variables
<1>8. {t \in LeavesWithin[k][n] : Registered(t)} = Reported(k, n)
  BY <1>4, <1>7
<1>9. QED  BY <1>8 DEF k, ValueComponents, Reported

\* Where texts are kept apart, the components of a composition are the Variables
\* below it, as deep as was asked for.
THEOREM ComponentsAreComplete == Spec => []ComponentsComplete
<1>1. Inv /\ Recorded => ComponentsComplete
  BY ComponentsFollow DEF Shown, ComponentsComplete
<1>2. QED  BY <1>1, Snapshots, PTL

====
