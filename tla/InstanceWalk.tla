---- MODULE InstanceWalk ----
(***************************************************************************)
(* The walk over the instances of an OPC UA server: the limits read before *)
(* it, _browse_instances of adapters/asyncua/browse.py, and below it       *)
(* browse_children, _follow_continuations and _retry_starved of            *)
(* adapters/asyncua/upstream.py, against a server that answers in pages    *)
(* and has few continuation points.                                        *)
(*                                                                         *)
(* A node is a NodeId as it is spelled in the walk.  What the walk reads   *)
(* of the server is the record world, the same all along.  References come *)
(* in the server's order, so what has arrived for a parent is the length   *)
(* of a prefix.  Loops without an await take one step per iteration.       *)
(***************************************************************************)
EXTENDS Integers, Sequences, FiniteSets

CONSTANTS
  Nodes, Root,      \* NodeIds, and the one configured instance root
  NoNode,           \* no parent
  Uris, CoreUri, NoUri,   \* namespace URIs, that of namespace 0, and "" for none
  Worlds,           \* the servers to walk, by some name, each with a configuration
  PageSize,         \* references the server returns at once
  DefaultParents,   \* MAX_PARENTS_PER_BATCH_DEFAULT
  MaxParents,       \* cfg.max_parents_per_batch
  MaxChildren,      \* cfg.max_children_per_batch
  MaxFaults         \* kinds of fault in one behaviour

Classes == {"Object", "Variable", "Method"}
Relations == {"HasComponent", "HasProperty", "Organizes", ""}
Faults == {"abort", "root", "call", "parent", "next", "solo", "metadata",
           "type", "name", "subtypes", "definition"}

(* world.pool: the continuation points the server has.  world.limits: what *)
(* it publishes of them and of the nodes per request, 0 for nothing.       *)
(* world.partial: a page comes with a BadNoContinuationPoints.             *)
(* world.uris: the NamespaceArray.  world.ns: the index of a node in it.   *)
(* world.allow: the namespace allowlist, empty for none.                   *)
WalkWorld(w) ==
  /\ w.class[Root] = "Object"
  /\ w.refs \in [Nodes -> Seq([to : Nodes, rel : Relations])]
  /\ w.class \in [Nodes -> Classes]
  /\ w.uris \in Seq(Uris)
  /\ w.ns \in [Nodes -> Nat]
  /\ w.allow \subseteq Uris
  /\ w.pool \in Nat
  /\ w.limits \in [cps : Nat, nodes : Nat]
  /\ w.properties \in BOOLEAN
  /\ w.partial \in BOOLEAN

ASSUME WalkAssumption ==
  /\ Root \in Nodes
  /\ NoNode \notin Nodes
  /\ CoreUri \in Uris /\ NoUri \notin Uris
  /\ {PageSize, DefaultParents, MaxParents, MaxChildren} \subseteq Nat \ {0}
  /\ MaxFaults \in Nat
  /\ \A s \in DOMAIN Worlds : WalkWorld(Worlds[s])

VARIABLES
  site,      \* the server that is walked, as this connection is configured
  phase,     \* where the walk is
  limit,     \* max_parents_per_batch
  queue,     \* NodeIds still to be browsed
  visited,   \* NodeIds seen
  out,       \* the NodeDescriptors so far
  batch,     \* the parents of the request under way
  results,   \* their BrowseResults: status, references received, continuation point
  starved,   \* the indices of results to ask for again
  solo,      \* the result of the request for one of them
  cursor,    \* the result and the reference that the loop over children is at
  readOk,    \* whether the metadata Read of the batch succeeded
  seen,      \* total_children_seen
  browsed,   \* total_parents_browsed
  counters,  \* _BrowseCounters
  faults     \* history: kinds of fault so far

Catalogue == Worlds   \* a definition of its own: TLC evaluates it only once
world == Catalogue[site]

exchange == <<batch, results, starved, solo, cursor, readOk>>
tree == <<queue, visited, out>>
walkVars == <<site, phase, limit, tree, exchange, seen, browsed, counters, faults>>

NoResult == [status |-> "Good", got |-> 0, more |-> FALSE]

NoCount == [starved |-> 0, recovered |-> 0, unrecoverable |-> 0,
            nextStarved |-> 0, nextBad |-> 0, parentBad |-> 0]

Bump(c, field, n) == [c EXCEPT ![field] = @ + n]

LesserOf(a, b) == IF a <= b THEN a ELSE b
GreaterOf(a, b) == IF a >= b THEN a ELSE b

Faulty(kinds) ==
  /\ \/ kinds \subseteq faults
     \/ Cardinality(faults \cup kinds) <= MaxFaults
  /\ faults' = faults \cup kinds

Fault(kind) == Faulty({kind})

--------------------------------------------------------------------------
(* The server.                                                             *)

Refs(p) == world.refs[p]
Wide(p) == Len(Refs(p)) > PageSize

(* The answer to the k-th of the parents asked for together: a wide one    *)
(* needs one of the continuation points.                                   *)
Answer(parents, k) ==
  LET p == parents[k]
      before == {j \in 1..(k - 1) : Wide(parents[j])}
  IN  IF ~Wide(p) THEN [status |-> "Good", got |-> Len(Refs(p)), more |-> FALSE]
      ELSE IF Cardinality(before) < world.pool
           THEN [status |-> "Good", got |-> PageSize, more |-> TRUE]
           ELSE [status |-> "NoCP", got |-> IF world.partial THEN PageSize ELSE 0,
                 more |-> FALSE]

Answers(parents) == [k \in 1..Len(parents) |-> Answer(parents, k)]

(* The next page for a continuation point.                                 *)
NextPage(r, p) ==
  LET n == LesserOf(r.got + PageSize, Len(Refs(p)))
  IN  [status |-> r.status, got |-> n, more |-> n < Len(Refs(p))]

--------------------------------------------------------------------------
(* Before the walk.                                                        *)

\* Mutant: the largest of what the server publishes.
MutDiscoveredLimit(w) ==
  LET candidates == {w.limits.cps, w.limits.nodes} \ {0}
  IN  IF candidates = {} THEN DefaultParents
      ELSE LesserOf(CHOOSE v \in candidates : \A u \in candidates : v >= u, DefaultParents)

(* A limit that is not published, or zero, is no candidate.                *)
DiscoveredLimit(w) ==
  LET candidates == {w.limits.cps, w.limits.nodes} \ {0}
  IN  IF candidates = {} THEN DefaultParents
      ELSE LesserOf(CHOOSE v \in candidates : \A u \in candidates : v <= u, DefaultParents)

WalkInit ==
  /\ site \in DOMAIN Catalogue
  /\ phase = "limits"
  /\ limit = 0
  /\ queue = <<>> /\ visited = {} /\ out = <<>>
  /\ batch = <<>> /\ results = <<>> /\ starved = {} /\ solo = NoResult
  /\ cursor = <<1, 1>> /\ readOk = TRUE
  /\ seen = 0 /\ browsed = 0
  /\ counters = NoCount
  /\ faults = {}

DiscoverMaxParents ==
  /\ phase = "limits"
  /\ limit' = LesserOf(DiscoveredLimit(world), MaxParents)
  /\ phase' = "root"
  /\ UNCHANGED <<site, tree, exchange, seen, browsed, counters, faults>>

Browseable(n) == world.class[n] = "Object" \/ world.properties

Descriptor(n, parent, rel, described) ==
  [node |-> n, parent |-> parent, rel |-> rel, described |-> described]

Enqueued(n) == IF Browseable(n) THEN Append(queue, n) ELSE queue

UriOf(n) == IF world.ns[n] < Len(world.uris) THEN world.uris[world.ns[n] + 1] ELSE NoUri
Allowed(n) == world.allow = {} \/ UriOf(n) \in world.allow

(* get_node_info gives nothing when its reads fail; the root is then left  *)
(* out, and with it everything below.                                      *)
NoNodeInfo == Fault("root") /\ UNCHANGED tree

BrowseRoot ==
  /\ phase = "root"
  /\ phase' = "walk"
  /\ \/ /\ visited' = {Root}
        /\ queue' = Enqueued(Root)
        /\ out' = IF Allowed(Root) THEN <<Descriptor(Root, NoNode, "", FALSE)>> ELSE <<>>
        /\ UNCHANGED faults
     \/ NoNodeInfo
  /\ UNCHANGED <<site, limit, exchange, seen, browsed, counters>>

--------------------------------------------------------------------------
(* One batch: the request, its continuation points, its starved results.   *)

BatchSize ==
  LET budget == IF seen <= browsed THEN MaxChildren \div 2
                ELSE (MaxChildren * browsed) \div (2 * seen)
  IN  LesserOf(LesserOf(Len(queue), limit), GreaterOf(1, budget))

(* Results of a batch are refused one by one (BadNodeIdUnknown and such).  *)
Refuse(rs, S) == [k \in DOMAIN rs |-> IF k \in S THEN [NoResult EXCEPT !.status = "Bad"] ELSE rs[k]]

SomeFault(kind, S) == Faulty(IF S = {} THEN {} ELSE {kind})

Taken == SubSeq(queue, 1, BatchSize)
Left == SubSeq(queue, BatchSize + 1, Len(queue))

(* The batch leaves the queue and is asked for.                            *)
BrowseBatch ==
  /\ phase = "walk" /\ queue # <<>>
  /\ batch' = Taken
  /\ queue' = Left
  /\ \E S \in SUBSET (1..Len(Taken)) :
       /\ SomeFault("parent", S)
       /\ results' = Refuse(Answers(Taken), S)
  /\ phase' = "follow"
  /\ UNCHANGED <<site, limit, visited, out, starved, solo, cursor, readOk, seen, browsed, counters>>

(* When the request itself fails, browse_children returns no children.     *)
BrowseFails ==
  /\ phase = "walk" /\ queue # <<>>
  /\ Fault("call")
  /\ queue' = Left
  /\ browsed' = browsed + Len(Taken)
  /\ UNCHANGED <<site, phase, limit, visited, out, exchange, seen, counters>>

Pending == {k \in DOMAIN results : results[k].more}

(* Those of the results in S come back bad, the rest of their references   *)
(* is lost.                                                                *)
FollowContinuations ==
  /\ phase = "follow" /\ Pending # {}
  /\ \E S \in SUBSET Pending, field \in {"nextStarved", "nextBad"} :
       /\ SomeFault("next", S)
       /\ results' = [k \in DOMAIN results |->
            IF k \notin Pending THEN results[k]
            ELSE IF k \in S THEN [results[k] EXCEPT !.more = FALSE]
            ELSE NextPage(results[k], batch[k])]
       /\ counters' = Bump(counters, field, Cardinality(S))
  /\ UNCHANGED <<site, phase, limit, tree, batch, starved, solo, cursor, readOk, seen, browsed>>

Starved == {k \in DOMAIN results : results[k].status = "NoCP"}

BeginRetries ==
  /\ phase = "follow" /\ Pending = {}
  /\ starved' = Starved
  /\ counters' = Bump(counters, "starved", Cardinality(Starved))
  /\ phase' = "retry"
  /\ UNCHANGED <<site, limit, tree, batch, results, solo, cursor, readOk, seen, browsed, faults>>

(* The code keeps a list of ascending indices and pops the last.           *)
Popped == CHOOSE k \in starved : \A j \in starved : j <= k
Asked == batch[Popped]
Rest == starved \ {Popped}

(* The last of the starved is asked for alone.                             *)
RetrySolo ==
  /\ phase = "retry" /\ starved # {}
  /\ \/ solo' = Answer(<<Asked>>, 1) /\ UNCHANGED faults
     \/ solo' = [NoResult EXCEPT !.status = "Bad"] /\ Fault("parent")
  /\ phase' = "solo"
  /\ UNCHANGED <<site, limit, tree, batch, results, starved, cursor, readOk, seen, browsed, counters>>

RetryEmpty ==
  /\ phase = "retry" /\ starved # {}
  /\ Fault("solo")
  /\ starved' = Rest
  /\ counters' = Bump(counters, "unrecoverable", 1)
  /\ UNCHANGED <<site, phase, limit, tree, batch, results, solo, cursor, readOk, seen, browsed>>

FollowSolo ==
  /\ phase = "solo" /\ solo.more
  /\ \/ /\ solo' = NextPage(solo, Asked)
        /\ UNCHANGED <<counters, faults>>
     \/ /\ Fault("next")
        /\ solo' = [solo EXCEPT !.more = FALSE]
        /\ \E field \in {"nextStarved", "nextBad"} : counters' = Bump(counters, field, 1)
  /\ UNCHANGED <<site, phase, limit, tree, batch, results, starved, cursor, readOk, seen, browsed>>

\* Mutant: what the retry brought is counted and not put back.
MutSoloEnds ==
  /\ phase = "solo" /\ ~solo.more
  /\ counters' = Bump(counters, IF solo.status = "NoCP" THEN "unrecoverable" ELSE "recovered", 1)
  /\ starved' = Rest
  /\ phase' = "retry"
  /\ UNCHANGED <<site, limit, tree, batch, results, solo, cursor, readOk, seen, browsed, faults>>

\* Mutant: a parent is asked for until it is not starved.
MutSoloEndsAgain ==
  /\ phase = "solo" /\ ~solo.more
  /\ IF solo.status = "NoCP"
     THEN UNCHANGED <<counters, results, starved>>
     ELSE /\ counters' = Bump(counters, "recovered", 1)
          /\ results' = [results EXCEPT ![Popped] = solo]
          /\ starved' = Rest
  /\ phase' = "retry"
  /\ UNCHANGED <<site, limit, tree, batch, solo, cursor, readOk, seen, browsed, faults>>

SoloEnds ==
  /\ phase = "solo" /\ ~solo.more
  /\ IF solo.status = "NoCP"
     THEN /\ counters' = Bump(counters, "unrecoverable", 1)
          /\ UNCHANGED results
     ELSE /\ counters' = Bump(counters, "recovered", 1)
          /\ results' = [results EXCEPT ![Popped] = solo]
  /\ starved' = Rest
  /\ phase' = "retry"
  /\ UNCHANGED <<site, limit, tree, batch, solo, cursor, readOk, seen, browsed, faults>>

(* The Variables among the children get their attributes in one Read.      *)
ReadMetadata ==
  /\ phase = "retry" /\ starved = {}
  /\ \/ readOk' = TRUE /\ UNCHANGED faults
     \/ readOk' = FALSE /\ Fault("metadata")
  /\ phase' = "emit"
  /\ cursor' = <<1, 1>>
  /\ UNCHANGED <<site, limit, tree, batch, results, starved, solo, seen, browsed, counters>>

--------------------------------------------------------------------------
(* The loop over the children of a batch.                                  *)

Here == results[cursor[1]]
ChildRef == Refs(batch[cursor[1]])[cursor[2]]
InBatch == cursor[1] \in DOMAIN results

\* Mutant: a parent without children is passed over in silence.
MutSkipParent ==
  /\ phase = "emit" /\ InBatch /\ Here.status # "Good"
  /\ cursor' = <<cursor[1] + 1, 1>>
  /\ UNCHANGED <<site, phase, limit, tree, batch, results, starved, solo, readOk, seen, browsed,
                 counters, faults>>

SkipParent ==
  /\ phase = "emit" /\ InBatch /\ Here.status # "Good"
  /\ counters' = Bump(counters, "parentBad", 1)
  /\ cursor' = <<cursor[1] + 1, 1>>
  /\ UNCHANGED <<site, phase, limit, tree, batch, results, starved, solo, readOk, seen, browsed, faults>>

NextParent ==
  /\ phase = "emit" /\ InBatch /\ Here.status = "Good" /\ cursor[2] > Here.got
  /\ cursor' = <<cursor[1] + 1, 1>>
  /\ UNCHANGED <<site, phase, limit, tree, batch, results, starved, solo, readOk, seen, browsed,
                 counters, faults>>

Visit(ref, parent) ==
  /\ visited' = visited \cup {ref.to}
  /\ queue' = Enqueued(ref.to)
  /\ out' = IF Allowed(ref.to)
            THEN Append(out, Descriptor(ref.to, parent, ref.rel,
                                        readOk /\ world.class[ref.to] = "Variable"))
            ELSE out

VisitChild ==
  /\ phase = "emit" /\ InBatch /\ Here.status = "Good" /\ cursor[2] <= Here.got
  /\ IF ChildRef.to \in visited THEN UNCHANGED tree ELSE Visit(ChildRef, batch[cursor[1]])
  /\ cursor' = <<cursor[1], cursor[2] + 1>>
  /\ seen' = seen + 1
  /\ UNCHANGED <<site, phase, limit, batch, results, starved, solo, readOk, browsed, counters, faults>>

\* Mutant: the set of visited nodes is one of the batch.
MutEndBatchForgets ==
  /\ phase = "emit" /\ ~InBatch
  /\ browsed' = browsed + Len(batch)
  /\ batch' = <<>> /\ results' = <<>> /\ solo' = NoResult
  /\ visited' = {}
  /\ cursor' = <<1, 1>>
  /\ phase' = "walk"
  /\ UNCHANGED <<site, limit, queue, out, starved, readOk, seen, counters, faults>>

\* Mutant: the results of the batch stay.
MutEndBatchKeeps ==
  /\ phase = "emit" /\ ~InBatch
  /\ browsed' = browsed + Len(batch)
  /\ batch' = <<>>
  /\ cursor' = <<1, 1>>
  /\ phase' = "walk"
  /\ UNCHANGED <<site, limit, tree, results, solo, starved, readOk, seen, counters, faults>>

EndBatch ==
  /\ phase = "emit" /\ ~InBatch
  /\ browsed' = browsed + Len(batch)
  /\ batch' = <<>> /\ results' = <<>> /\ solo' = NoResult
  /\ cursor' = <<1, 1>>
  /\ phase' = "walk"
  /\ UNCHANGED <<site, limit, tree, starved, readOk, seen, counters, faults>>

EndWalk ==
  /\ phase = "walk" /\ queue = <<>>
  /\ phase' = "walked"
  /\ UNCHANGED <<site, limit, tree, exchange, seen, browsed, counters, faults>>

(* A request nobody guards raises: the namespace array before the walk and *)
(* after each browse, BrowseNext, a solo browse.  browse() ends with it.   *)
WalkAborts ==
  /\ phase \in {"root", "follow", "retry", "solo"}
  /\ Fault("abort")
  /\ phase' = "failed"
  /\ UNCHANGED <<site, limit, tree, exchange, seen, browsed, counters>>

BrowseChildren ==
  \/ BrowseBatch \/ BrowseFails \/ FollowContinuations
  \/ BeginRetries \/ RetrySolo \/ RetryEmpty \/ FollowSolo \/ SoloEnds \/ ReadMetadata

Walk ==
  \/ DiscoverMaxParents \/ BrowseRoot
  \/ BrowseChildren
  \/ SkipParent \/ NextParent \/ VisitChild \/ EndBatch
  \/ EndWalk \/ WalkAborts

WalkSpec == WalkInit /\ [][Walk]_walkVars /\ WF_walkVars(Walk)

--------------------------------------------------------------------------
(* Post-walk: a composition is an Object that a node emitted under it is a *)
(* component of.                                                           *)

Rows == {out[i] : i \in DOMAIN out}

IsComposition(n) ==
  /\ world.class[n] = "Object"
  /\ \E row \in Rows : row.parent = n /\ row.rel = "HasComponent"

--------------------------------------------------------------------------
(* Properties.                                                             *)

Statuses == {"Good", "NoCP", "Bad"}
NodeDescriptor ==
  [node : Nodes, parent : Nodes \cup {NoNode}, rel : Relations, described : BOOLEAN]
Result == [status : Statuses, got : Nat, more : BOOLEAN]
WalkPhases == {"limits", "root", "walk", "follow", "retry", "solo", "emit"}

(* Types.                                                                  *)
WalkTypeOK ==
  /\ site \in DOMAIN Catalogue
  /\ limit \in Nat
  /\ queue \in Seq(Nodes) /\ visited \subseteq Nodes
  /\ out \in Seq(NodeDescriptor)
  /\ batch \in Seq(Nodes) /\ results \in Seq(Result) /\ Len(results) = Len(batch)
  /\ starved \subseteq DOMAIN results /\ solo \in Result
  /\ cursor \in (Nat \ {0}) \X (Nat \ {0})
  /\ readOk \in BOOLEAN
  /\ seen \in Nat /\ browsed \in Nat
  /\ counters \in [DOMAIN NoCount -> Nat]
  /\ faults \subseteq Faults

EdgeOf(s, p, c) ==
  /\ Catalogue[s].class[p] = "Object" \/ Catalogue[s].properties
  /\ \E i \in DOMAIN Catalogue[s].refs[p] : Catalogue[s].refs[p][i].to = c

Edge(p, c) == EdgeOf(site, p, c)

(* Whenever nothing failed, a walk of a server that has continuation       *)
(* points at all leaves nothing out: the root is found, and what a found   *)
(* node refers to, whatever was starved and asked for again.               *)
Harmless == {"metadata"}

NothingMissed ==
  (phase \notin WalkPhases \cup {"failed"} /\ faults \subseteq Harmless /\ world.pool > 0) =>
    /\ Root \in visited
    /\ \A p \in visited, c \in Nodes : Edge(p, c) => c \in visited

(* When something is missing although no request failed as a whole, the    *)
(* counters that /admin/state shows say so.                                *)
LossIsCounted ==
  (phase \notin WalkPhases \cup {"failed"} /\ faults \cap {"root", "call"} = {}) =>
    \/ \A p \in visited, c \in Nodes : Edge(p, c) => c \in visited
    \/ counters.nextStarved + counters.nextBad + counters.parentBad > 0

(* Batches sized by what the server publishes never starve it, if what it  *)
(* publishes is true.                                                      *)
HonestLimitsSuffice == world.limits.cps = world.pool /\ world.pool > 0 => counters.starved = 0

(* The walk explores the address space: it only ever adds a node that one  *)
(* it already has refers to.                                               *)
Explored == INSTANCE Exploration WITH
  Start <- {Root}, Edge <- EdgeOf, found <- visited, graph <- site
ExplorationSpec == Explored!Spec

====
