--------------------------- MODULE RegistryProofs ---------------------------
(***************************************************************************)
(* Proofs about Registry, for any number of connections, and any           *)
(* namespaces, types and instances their servers may have.                 *)
(***************************************************************************)
EXTENDS Registry, TLAPS

-----------------------------------------------------------------------------
(* Maps.                                                                   *)

\* What it takes to be a partial function.
LEMMA PartialIs ==
    ASSUME NEW S, NEW T, NEW f
    PROVE  f \in Partial(S, T) <=> \E D \in SUBSET S : f \in [D -> T]
BY DEF Partial

\* The empty map has no keys.
LEMMA EmptyIs ==
    ASSUME NEW S, NEW T
    PROVE  /\ Empty \in [{} -> T]
           /\ Empty \in Partial(S, T)
           /\ DOMAIN Empty = {}
<1>1. Empty \in [{} -> T] /\ DOMAIN Empty = {}
  BY DEF Empty
<1>2. QED  BY <1>1, PartialIs

\* After a reconcile a registry holds what was desired and nothing else.
LEMMA ReconcileIs ==
    ASSUME NEW reg, NEW desired
    PROVE  Reconcile(reg, desired) = [k \in DOMAIN desired |-> desired[k]]
<1>1. (DOMAIN reg \ (DOMAIN reg \ DOMAIN desired)) \cup DOMAIN desired = DOMAIN desired
  OBVIOUS
<1>2. QED  BY <1>1 DEF Reconcile, Update

\* Every entry belongs to the connection in its key.
OwnsKeys(reg) == \A k \in DOMAIN reg : reg[k].conn = k[1]

\* Replacing the part of one connection gives it exactly the new part, and leaves
\* the parts of the others as they were.
LEMMA PartsKept ==
    ASSUME NEW reg, NEW c, NEW new,
           OwnsKeys(reg),
           new = [k \in DOMAIN new |-> new[k]],
           \A k \in DOMAIN new : k[1] = c /\ new[k].conn = c
    PROVE  LET kept == Reconcile(reg, Keep(reg, c, new)) IN
           /\ OwnsKeys(kept)
           /\ PartOf(kept, c) = new
           /\ \A d : d # c => PartOf(kept, d) = PartOf(reg, d)
           /\ \A k \in DOMAIN kept : k[1] = c => k \in DOMAIN new
<1> DEFINE kept == Reconcile(reg, Keep(reg, c, new))
<1>1. /\ DOMAIN kept = {k \in DOMAIN reg : reg[k].conn # c} \cup DOMAIN new
      /\ \A k \in DOMAIN kept : kept[k] = IF k \in DOMAIN new THEN new[k] ELSE reg[k]
  BY ReconcileIs DEF Keep
<1> HIDE DEF kept
<1>2. OwnsKeys(kept)
  BY <1>1 DEF OwnsKeys
<1>3. PartOf(kept, c) = new
  <2>1. {k \in DOMAIN kept : kept[k].conn = c} = DOMAIN new
    BY <1>1
  <2>2. \A k \in DOMAIN new : kept[k] = new[k]
    BY <1>1
  <2>3. QED  BY <2>1, <2>2 DEF PartOf
<1>4. ASSUME NEW d, d # c
      PROVE  PartOf(kept, d) = PartOf(reg, d)
  <2>1. {k \in DOMAIN kept : kept[k].conn = d} = {k \in DOMAIN reg : reg[k].conn = d}
    BY <1>1, <1>4 DEF OwnsKeys
  <2>2. \A k \in {k \in DOMAIN kept : kept[k].conn = d} : kept[k] = reg[k]
    BY <1>1, <1>4
  <2>3. QED  BY <2>1, <2>2 DEF PartOf
<1>5. ASSUME NEW k \in DOMAIN kept, k[1] = c
      PROVE  k \in DOMAIN new
  BY <1>1, <1>5 DEF OwnsKeys
<1>6. QED  BY <1>2, <1>3, <1>4, <1>5 DEF kept

-----------------------------------------------------------------------------
(* What a snapshot becomes.                                                *)

\* The parts of a snapshot.
LEMMA SnapshotParts ==
    ASSUME NEW snap \in Snapshot
    PROVE  /\ snap.uris \in SUBSET Uris
           /\ snap.types \in Partial(TypeNodes, Shapes)
           /\ snap.nodes \in Partial(Wires, Raws)
BY DEF Snapshot

\* No snapshot counts as one that brought nothing.
LEMMA NoSnapshotIs == NoSnapshot \in Snapshot
<1>1. Empty \in {f \in Partial(Wires, Raws) : Injective(f)}
  BY EmptyIs DEF Injective
<1>2. QED  BY <1>1, EmptyIs DEF NoSnapshot, Snapshot

\* The entries of namespaces a snapshot becomes belong to its connection.
LEMMA NamespaceInfosIs ==
    ASSUME NEW c \in Conns, NEW snap \in Snapshot
    PROVE  LET new == NamespaceInfos(c, snap) IN
           /\ new = [k \in DOMAIN new |-> new[k]]
           /\ \A k \in DOMAIN new : /\ k \in Conns \X Uris
                                    /\ k[1] = c
                                    /\ new[k] = [conn |-> c, uri |-> k[2]]
                                    /\ new[k].conn = c
BY SnapshotParts DEF NamespaceInfos, NamespaceKey

\* The instances a snapshot becomes belong to its connection, and keep their raw
\* NodeIds.
LEMMA NodeDescriptorsIs ==
    ASSUME NEW c \in Conns, NEW snap \in Snapshot
    PROVE  LET new == NodeDescriptors(c, snap) IN
           /\ new = [k \in DOMAIN new |-> new[k]]
           /\ \A k \in DOMAIN new : /\ k \in Conns \X Wires
                                    /\ k[1] = c
                                    /\ k[2] \in DOMAIN snap.nodes
                                    /\ new[k] = [conn |-> c, raw |-> snap.nodes[k[2]]]
                                    /\ new[k] \in [conn : Conns, raw : Raws]
                                    /\ new[k].conn = c
<1>1. PICK D \in SUBSET Wires : snap.nodes \in [D -> Raws]
  BY SnapshotParts, PartialIs
<1>2. QED  BY <1>1 DEF NodeDescriptors, ElementId

-----------------------------------------------------------------------------
(* The types a snapshot replaces.                                          *)

\* The types of the other connections, and the types of connection c.
Kept(c) == {d \in {byHash[h] : h \in DOMAIN byHash} : d.conn # c}
New(c, snap) == TypesOf(c, snap) \cup {Unknown(c)}

\* The types a snapshot brings.
LEMMA TypesOfIs ==
    ASSUME NEW c \in Conns, NEW snap \in Snapshot, NEW d \in TypesOf(c, snap)
    PROVE  /\ d \in Descriptors
           /\ d.conn = c
           /\ d.node \in TypeNodes
           /\ d.node \in DOMAIN snap.types
           /\ d.shape = snap.types[d.node]
<1>1. PICK D \in SUBSET TypeNodes : snap.types \in [D -> Shapes]
  BY SnapshotParts, PartialIs
<1>2. QED  BY <1>1 DEF TypesOf, Descriptors, TypeNames

\* The placeholder of a connection.
LEMMA UnknownIs ==
    ASSUME NEW c \in Conns
    PROVE  /\ Unknown(c) \in Descriptors
           /\ Unknown(c).conn = c
           /\ Unknown(c).node = "UnknownType"
           /\ Unknown(c).shape = "placeholder"
BY DEF Unknown, Descriptors, TypeNames

\* What a hash tells of the descriptor it was made of.
LEMMA HashIs ==
    ASSUME NEW d \in Descriptors
    PROVE  /\ Hash(d) \in HashValues
           /\ Hash(d).node = d.node
           /\ Hash(d).shape = d.shape
           /\ d.node = "UnknownType" => Hash(d).conn = d.conn
BY DEF Hash, HashValues, Descriptors

\* After apply_snapshot every hash finds one of the kept or new types that has it,
\* every such type's hash is there, and every source refers to the hash of a type
\* that is kept or new.
LEMMA ReplaceTypesIs ==
    ASSUME NEW c, NEW snap, ReplaceTypes(c, snap)
    PROVE  /\ \A h \in DOMAIN byHash' : /\ byHash'[h] \in Kept(c) \cup New(c, snap)
                                        /\ Hash(byHash'[h]) = h
           /\ DOMAIN byHash' = {Hash(d) : d \in Kept(c) \cup New(c, snap)}
           /\ \A k \in DOMAIN bySource' :
                  \E d \in Kept(c) \cup New(c, snap) :
                      ElementId(d.conn, d.node) = k /\ bySource'[k] = Hash(d)
<1> DEFINE all == Kept(c) \cup New(c, snap)
           wins(d) == d \in New(c, snap) \/ \A e \in New(c, snap) : Hash(e) # Hash(d)
           at(h) == CHOOSE d \in all : Hash(d) = h /\ wins(d)
           of(k) == CHOOSE d \in all : ElementId(d.conn, d.node) = k
<1>1. /\ byHash' = [h \in {Hash(d) : d \in all} |-> at(h)]
      /\ bySource' = [k \in {ElementId(d.conn, d.node) : d \in all} |-> Hash(of(k))]
  BY DEF ReplaceTypes, Kept, New
<1>2. ASSUME NEW d \in all
      PROVE  \E e \in all : Hash(e) = Hash(d) /\ wins(e)
  <2>1. CASE \E e \in New(c, snap) : Hash(e) = Hash(d)
    BY <2>1
  <2>2. CASE \A e \in New(c, snap) : Hash(e) # Hash(d)
    BY <2>2
  <2>3. QED  BY <2>1, <2>2
<1>3. \A h \in {Hash(d) : d \in all} : at(h) \in all /\ Hash(at(h)) = h
  BY <1>2
<1>4. \A k \in {ElementId(d.conn, d.node) : d \in all} :
          of(k) \in all /\ ElementId(of(k).conn, of(k).node) = k
  OBVIOUS
<1> HIDE DEF at, of, wins
<1>5. QED  BY <1>1, <1>3, <1>4

-----------------------------------------------------------------------------
(* The types.                                                              *)

\* What is on its way to the main loop is a snapshot.
LEMMA PendingIs ==
    ASSUME TypeOK, NEW c \in Conns, pending[c] # None
    PROVE  pending[c] \in Snapshot
BY DEF TypeOK

\* Empty registries have the right types.
LEMMA TypeInit == Init => TypeOK
<1> SUFFICES ASSUME Init  PROVE TypeOK
  OBVIOUS
<1>1. /\ IsPartial(namespaces, Conns \X Uris, [conn : Conns, uri : Uris])
      /\ IsPartial(instances, Conns \X Wires, [conn : Conns, raw : Raws])
      /\ IsPartial(byHash, HashValues, Descriptors)
      /\ IsPartial(bySource, Conns \X TypeNames, HashValues)
  BY EmptyIs DEF Init, IsPartial
<1>2. rawByWire \in [Conns -> Partial(Wires, Raws)]
  BY EmptyIs DEF Init
<1>3. /\ pending \in [Conns -> Snapshot \cup {None}]
      /\ applied \in [Conns -> Snapshot]
  BY NoSnapshotIs DEF Init
<1>4. QED  BY <1>1, <1>2, <1>3 DEF TypeOK

\* Shipping a snapshot keeps the types.
LEMMA TypeShip ==
    ASSUME TypeOK, NEW c \in Conns, Ship(c)
    PROVE  TypeOK'
<1>1. PICK snap \in Snapshot : /\ pending' = [pending EXCEPT ![c] = snap]
                               /\ rawByWire' = [rawByWire EXCEPT ![c] = snap.nodes]
  BY DEF Ship
<1>2. rawByWire' \in [Conns -> Partial(Wires, Raws)]
  BY <1>1, SnapshotParts DEF TypeOK
<1>3. pending' \in [Conns -> Snapshot \cup {None}]
  BY <1>1 DEF TypeOK
<1>4. QED  BY <1>2, <1>3 DEF TypeOK, Ship, registries

\* The types of the hashes and sources after a snapshot was applied.
LEMMA TypesTyped ==
    ASSUME TypeOK, NEW c \in Conns, NEW snap \in Snapshot, ReplaceTypes(c, snap)
    PROVE  /\ Kept(c) \cup New(c, snap) \in SUBSET Descriptors
           /\ IsPartial(byHash', HashValues, Descriptors)
           /\ IsPartial(bySource', Conns \X TypeNames, HashValues)
<1>1. Kept(c) \cup New(c, snap) \in SUBSET Descriptors
  <2>1. Kept(c) \in SUBSET Descriptors
    BY DEF Kept, TypeOK, IsPartial
  <2>2. New(c, snap) \in SUBSET Descriptors
    BY TypesOfIs, UnknownIs DEF New
  <2>3. QED  BY <2>1, <2>2
<1>2. IsPartial(byHash', HashValues, Descriptors)
  BY <1>1, ReplaceTypesIs, HashIs DEF IsPartial
<1>3. IsPartial(bySource', Conns \X TypeNames, HashValues)
  <2>1. ASSUME NEW k \in DOMAIN bySource'
        PROVE  k \in Conns \X TypeNames /\ bySource'[k] \in HashValues
    <3>1. PICK d \in Kept(c) \cup New(c, snap) :
              ElementId(d.conn, d.node) = k /\ bySource'[k] = Hash(d)
      BY ReplaceTypesIs
    <3>2. d \in Descriptors
      BY <1>1
    <3>3. k \in Conns \X TypeNames
      BY <3>1, <3>2 DEF ElementId, Descriptors
    <3>4. QED  BY <3>1, <3>2, <3>3, HashIs
  <2>2. QED  BY <2>1 DEF IsPartial
<1>4. QED  BY <1>1, <1>2, <1>3

\* Applying a snapshot keeps the types.
LEMMA TypeApply ==
    ASSUME TypeOK, NEW c \in Conns, ApplySnapshot(c)
    PROVE  TypeOK'
<1>1. pending[c] \in Snapshot
  BY PendingIs DEF ApplySnapshot
<1>2. IsPartial(namespaces', Conns \X Uris, [conn : Conns, uri : Uris])
  <2> DEFINE new == NamespaceInfos(c, pending[c])
  <2>1. \A k \in DOMAIN new : k \in Conns \X Uris /\ new[k] \in [conn : Conns, uri : Uris]
    BY <1>1, NamespaceInfosIs
  <2> HIDE DEF new
  <2>2. namespaces' = Reconcile(namespaces, Keep(namespaces, c, new))
    BY DEF ApplySnapshot, new
  <2>3. QED  BY <2>1, <2>2, ReconcileIs DEF Keep, TypeOK, IsPartial
<1>3. IsPartial(instances', Conns \X Wires, [conn : Conns, raw : Raws])
  <2> DEFINE new == NodeDescriptors(c, pending[c])
  <2>1. \A k \in DOMAIN new : k \in Conns \X Wires /\ new[k] \in [conn : Conns, raw : Raws]
    BY <1>1, NodeDescriptorsIs
  <2> HIDE DEF new
  <2>2. instances' = Reconcile(instances, Keep(instances, c, new))
    BY DEF ApplySnapshot, new
  <2>3. QED  BY <2>1, <2>2, ReconcileIs DEF Keep, TypeOK, IsPartial
<1>4. /\ IsPartial(byHash', HashValues, Descriptors)
      /\ IsPartial(bySource', Conns \X TypeNames, HashValues)
  BY <1>1, TypesTyped DEF ApplySnapshot
<1>5. /\ pending' \in [Conns -> Snapshot \cup {None}]
      /\ applied' \in [Conns -> Snapshot]
      /\ rawByWire' \in [Conns -> Partial(Wires, Raws)]
  BY <1>1 DEF ApplySnapshot, TypeOK
<1>6. QED  BY <1>2, <1>3, <1>4, <1>5 DEF TypeOK

\* Each step keeps the types.
LEMMA TypeStep == TypeOK /\ [Next]_vars => TypeOK'
<1>1. ASSUME TypeOK, UNCHANGED vars
      PROVE  TypeOK'
  BY <1>1 DEF TypeOK, vars, registries
<1>2. QED  BY <1>1, TypeShip, TypeApply DEF Next

\* The types of the registries, of the indexes and of the snapshots.
THEOREM TypeCorrect == Spec => []TypeOK
BY TypeInit, TypeStep, PTL DEF Spec

-----------------------------------------------------------------------------
(* The type registry.                                                      *)

\* A descriptor that the last snapshot of its connection brought.
Current(d) ==
    d.node # "UnknownType" =>
        /\ d.node \in DOMAIN applied[d.conn].types
        /\ d.shape = applied[d.conn].types[d.node]

\* The registry lists no outdated descriptor: what the inductive invariant adds.
ListedAreCurrent == \A h \in DOMAIN byHash : Current(byHash[h])

TypesInv == ListedAreCurrent /\ ResolvesToCurrent /\ PlaceholderKept

\* The types that are kept are current, and so are the new ones.
LEMMA DesiredAreCurrent ==
    ASSUME TypeOK, ListedAreCurrent, NEW c \in Conns, ApplySnapshot(c),
           NEW d \in Kept(c) \cup New(c, pending[c])
    PROVE  Current(d)'
<1>1. /\ pending[c] \in Snapshot
      /\ applied' = [applied EXCEPT ![c] = pending[c]]
  BY PendingIs DEF ApplySnapshot
<1>2. CASE d \in Kept(c)
  <2>1. PICK h \in DOMAIN byHash : d = byHash[h] /\ d.conn # c
    BY <1>2 DEF Kept
  <2>2. d.conn \in Conns /\ Current(d)
    BY <2>1 DEF TypeOK, IsPartial, Descriptors, ListedAreCurrent
  <2>3. applied'[d.conn] = applied[d.conn]
    BY <1>1, <2>1, <2>2 DEF TypeOK
  <2>4. QED  BY <2>2, <2>3 DEF Current
<1>3. CASE d \in TypesOf(c, pending[c])
  <2>1. applied'[d.conn] = pending[c]
    BY <1>1, <1>3, TypesOfIs DEF TypeOK
  <2>2. QED  BY <1>1, <1>3, <2>1, TypesOfIs DEF Current
<1>4. CASE d = Unknown(c)
  BY <1>4, UnknownIs DEF Current
<1>5. QED  BY <1>2, <1>3, <1>4 DEF New

\* Applying a snapshot keeps the type registry right.
LEMMA TypesApply ==
    ASSUME TypeOK, TypesInv, NEW c \in Conns, ApplySnapshot(c)
    PROVE  TypesInv'
<1> DEFINE all == Kept(c) \cup New(c, pending[c])
<1>1. /\ pending[c] \in Snapshot
      /\ applied' = [applied EXCEPT ![c] = pending[c]]
      /\ ReplaceTypes(c, pending[c])
  BY PendingIs DEF ApplySnapshot
<1>2. all \in SUBSET Descriptors
  BY <1>1, TypesTyped
<1>3. \A h \in DOMAIN byHash' : byHash'[h] \in all /\ Hash(byHash'[h]) = h
  BY <1>1, ReplaceTypesIs
<1>4. DOMAIN byHash' = {Hash(d) : d \in all}
  BY <1>1, ReplaceTypesIs
<1>5. \A d \in all : Current(d)'
  BY DesiredAreCurrent DEF TypesInv
<1>6. ListedAreCurrent'
  BY <1>3, <1>5 DEF ListedAreCurrent
<1>7. ResolvesToCurrent'
  <2>1. ASSUME NEW k \in DOMAIN bySource'
        PROVE  /\ bySource'[k] \in DOMAIN byHash'
               /\ byHash'[bySource'[k]].node = k[2]
               /\ k[2] # "UnknownType" =>
                        /\ k[2] \in DOMAIN applied'[k[1]].types
                        /\ byHash'[bySource'[k]].shape = applied'[k[1]].types[k[2]]
    <3>1. PICK d \in all : ElementId(d.conn, d.node) = k /\ bySource'[k] = Hash(d)
      BY <1>1, ReplaceTypesIs
    <3>2. k[1] = d.conn /\ k[2] = d.node
      BY <3>1 DEF ElementId
    <3>3. Hash(d) \in DOMAIN byHash'
      BY <1>4
    <3>4. byHash'[Hash(d)] \in Descriptors /\ Hash(byHash'[Hash(d)]) = Hash(d)
      BY <1>2, <1>3, <3>3
    <3>5. byHash'[Hash(d)].node = d.node /\ byHash'[Hash(d)].shape = d.shape
      BY <1>2, <3>4, HashIs
    <3>6. Current(d)'
      BY <1>5
    <3>7. QED  BY <3>1, <3>2, <3>3, <3>5, <3>6 DEF Current
  <2>2. QED  BY <2>1 DEF ResolvesToCurrent
<1>8. PlaceholderKept'
  <2>1. ASSUME NEW b \in Conns, applied'[b] # NoSnapshot
        PROVE  \E h \in DOMAIN byHash' : byHash'[h] = Unknown(b)
    <3>1. Unknown(b) \in all
      <4>1. CASE b = c
        BY <4>1 DEF New
      <4>2. CASE b # c
        <5>1. applied[b] # NoSnapshot
          BY <1>1, <2>1, <4>2 DEF TypeOK
        <5>2. PICK h \in DOMAIN byHash : byHash[h] = Unknown(b)
          BY <5>1 DEF TypesInv, PlaceholderKept
        <5>3. QED  BY <4>2, <5>2, UnknownIs DEF Kept
      <4>3. QED  BY <4>1, <4>2
    <3> DEFINE h == Hash(Unknown(b))
               d == byHash'[h]
    <3>2. h \in DOMAIN byHash'
      BY <1>4, <3>1
    <3>3. d \in Descriptors /\ Hash(d) = h
      BY <1>2, <1>3, <3>2
    <3>4. h.node = "UnknownType" /\ h.shape = "placeholder" /\ h.conn = b
      BY UnknownIs, HashIs
    <3> HIDE DEF h, d
    <3>5. d.node = "UnknownType" /\ d.shape = "placeholder" /\ d.conn = b
      BY <3>3, <3>4, HashIs
    <3>6. d = Unknown(b)
      BY <3>3, <3>5 DEF Descriptors, Unknown
    <3>7. QED  BY <3>2, <3>6 DEF d
  <2>2. QED  BY <2>1 DEF PlaceholderKept, Unknown
<1>9. QED  BY <1>6, <1>7, <1>8 DEF TypesInv

\* Each step keeps the type registry right.
LEMMA TypesStep == TypeOK /\ TypesInv /\ [Next]_vars => TypesInv'
<1>1. ASSUME TypesInv, UNCHANGED <<registries, applied>>
      PROVE  TypesInv'
  BY <1>1 DEF TypesInv, ListedAreCurrent, Current, ResolvesToCurrent, PlaceholderKept,
              Unknown, registries
<1>2. QED  BY <1>1, TypesApply DEF Next, Ship, vars

\* The type registry is right at the start.
LEMMA TypesInit == Init => TypesInv
BY EmptyIs DEF Init, TypesInv, ListedAreCurrent, ResolvesToCurrent, PlaceholderKept

\* The inductive invariant holds in every state.
LEMMA TypesAlways == Spec => [](TypeOK /\ TypesInv)
<1>1. Init => TypeOK /\ TypesInv
  BY TypeInit, TypesInit
<1>2. TypeOK /\ TypesInv /\ [Next]_vars => (TypeOK /\ TypesInv)'
  BY TypeStep, TypesStep
<1>3. QED  BY <1>1, <1>2, PTL DEF Spec

\* What is found under a connection's NodeId is the type that the connection's last
\* snapshot had there, for any number of connections that browse again and again.
THEOREM TypesResolve == Spec => []ResolvesToCurrent
BY TypesAlways, PTL DEF TypesInv

\* The placeholder of a connection that was browsed is never lost.
THEOREM PlaceholdersStay == Spec => []PlaceholderKept
BY TypesAlways, PTL DEF TypesInv

-----------------------------------------------------------------------------
(* The namespaces, the instances, and the index.                           *)

\* The index of a connection is always that of the snapshot on its way, which is
\* what makes the index and the registry agree when it arrives.
IndexFollows ==
    \A c \in Conns : pending[c] # None => rawByWire[c] = pending[c].nodes

TablesInv ==
    OwnsKeys(namespaces) /\ OwnsKeys(instances) /\ IndexFollows /\ IndexMatches

\* Nothing is listed at the start.
LEMMA TablesInit == Init => TablesInv
BY EmptyIs DEF Init, TablesInv, OwnsKeys, IndexFollows, IndexMatches

\* While a snapshot is on its way, nothing is said of its connection's elements.
LEMMA TablesShip ==
    ASSUME TypeOK, TablesInv, NEW c \in Conns, Ship(c)
    PROVE  TablesInv'
<1>1. PICK snap \in Snapshot : /\ pending' = [pending EXCEPT ![c] = snap]
                               /\ rawByWire' = [rawByWire EXCEPT ![c] = snap.nodes]
  BY DEF Ship
<1>2. UNCHANGED <<namespaces, instances>>
  BY DEF Ship, registries
<1>3. OwnsKeys(namespaces)' /\ OwnsKeys(instances)'
  BY <1>2 DEF TablesInv, OwnsKeys
<1>4. IndexFollows'
  BY <1>1 DEF TablesInv, IndexFollows, TypeOK
<1>5. IndexMatches'
  <2>1. snap # None
    BY NoneAssumption
  <2>2. \A k \in DOMAIN instances : k[1] \in Conns
    BY DEF TypeOK, IsPartial
  <2>3. QED  BY <1>1, <1>2, <2>1, <2>2 DEF TablesInv, IndexMatches, TypeOK
<1>6. QED  BY <1>3, <1>4, <1>5 DEF TablesInv

\* A snapshot replaces the elements of its connection, which its index knows.
LEMMA TablesApply ==
    ASSUME TypeOK, TablesInv, NEW c \in Conns, ApplySnapshot(c)
    PROVE  /\ TablesInv'
           /\ PartOf(namespaces', c) = NamespaceInfos(c, pending[c])
           /\ PartOf(instances', c) = NodeDescriptors(c, pending[c])
           /\ \A d : d # c => /\ PartOf(namespaces', d) = PartOf(namespaces, d)
                              /\ PartOf(instances', d) = PartOf(instances, d)
<1> DEFINE ns == NamespaceInfos(c, pending[c])
           nd == NodeDescriptors(c, pending[c])
<1>1. /\ pending[c] \in Snapshot
      /\ pending' = [pending EXCEPT ![c] = None]
      /\ rawByWire' = rawByWire
      /\ rawByWire[c] = pending[c].nodes
  BY PendingIs DEF ApplySnapshot, TablesInv, IndexFollows
<1>2. /\ namespaces' = Reconcile(namespaces, Keep(namespaces, c, ns))
      /\ instances' = Reconcile(instances, Keep(instances, c, nd))
  BY DEF ApplySnapshot
<1>3. /\ ns = [k \in DOMAIN ns |-> ns[k]]
      /\ \A k \in DOMAIN ns : k[1] = c /\ ns[k].conn = c
  BY <1>1, NamespaceInfosIs
<1>4. /\ nd = [k \in DOMAIN nd |-> nd[k]]
      /\ \A k \in DOMAIN nd : /\ k[1] = c
                              /\ nd[k].conn = c
                              /\ k[2] \in DOMAIN pending[c].nodes
                              /\ nd[k].raw = pending[c].nodes[k[2]]
  BY <1>1, NodeDescriptorsIs
<1> HIDE DEF ns, nd
<1>5. OwnsKeys(namespaces) /\ OwnsKeys(instances)
  BY DEF TablesInv
<1>6. /\ OwnsKeys(namespaces')
      /\ PartOf(namespaces', c) = ns
      /\ \A d : d # c => PartOf(namespaces', d) = PartOf(namespaces, d)
  BY <1>2, <1>3, <1>5, PartsKept
<1>7. /\ OwnsKeys(instances')
      /\ PartOf(instances', c) = nd
      /\ \A d : d # c => PartOf(instances', d) = PartOf(instances, d)
      /\ \A k \in DOMAIN instances' : k[1] = c => k \in DOMAIN nd
  BY <1>2, <1>4, <1>5, PartsKept
<1>8. IndexFollows'
  BY <1>1 DEF TablesInv, IndexFollows, TypeOK
<1>9. IndexMatches'
  <2>1. ASSUME NEW k \in DOMAIN instances', pending'[k[1]] = None
        PROVE  k[2] \in DOMAIN rawByWire[k[1]] /\ rawByWire[k[1]][k[2]] = instances'[k].raw
    <3>1. k \in DOMAIN instances \/ k \in DOMAIN nd
      BY <1>2, ReconcileIs DEF Keep
    <3>2. instances'[k] = IF k \in DOMAIN nd THEN nd[k] ELSE instances[k]
      BY <1>2, ReconcileIs DEF Keep
    <3>3. CASE k \in DOMAIN nd
      BY <1>1, <1>4, <3>2, <3>3
    <3>4. CASE k \notin DOMAIN nd
      <4>1. k \in DOMAIN instances /\ k[1] # c
        BY <1>7, <3>1, <3>4
      <4>2. k[1] \in Conns
        BY <4>1 DEF TypeOK, IsPartial
      <4>3. pending[k[1]] = None
        BY <1>1, <2>1, <4>1, <4>2 DEF TypeOK
      <4>4. QED  BY <3>2, <3>4, <4>1, <4>3 DEF TablesInv, IndexMatches
    <3>5. QED  BY <3>3, <3>4
  <2>2. QED  BY <1>1, <2>1 DEF IndexMatches
<1>10. QED
  BY <1>6, <1>7, <1>8, <1>9 DEF TablesInv, ns, nd, OwnsKeys

\* Each step keeps the tables right.
LEMMA TablesStep == TypeOK /\ TablesInv /\ [Next]_vars => TablesInv'
<1>1. ASSUME TablesInv, UNCHANGED vars
      PROVE  TablesInv'
  BY <1>1 DEF TablesInv, OwnsKeys, IndexFollows, IndexMatches, vars, registries
<1>2. QED  BY <1>1, TablesShip, TablesApply DEF Next

\* The inductive invariant holds in every state.
LEMMA TablesAlways == Spec => [](TypeOK /\ TablesInv)
<1>1. Init => TypeOK /\ TablesInv
  BY TypeInit, TablesInit
<1>2. TypeOK /\ TablesInv /\ [Next]_vars => (TypeOK /\ TablesInv)'
  BY TypeStep, TablesStep
<1>3. QED  BY <1>1, <1>2, PTL DEF Spec

\* Unless a snapshot of its connection is on its way, every elementId listed is
\* translated, to the NodeId that is listed with it.
THEOREM IndexAgrees == Spec => []IndexMatches
BY TablesAlways, PTL DEF TablesInv

-----------------------------------------------------------------------------
(* The refinement.                                                         *)

\* At first every connection has the tables of a snapshot that brought nothing.
LEMMA OwnedInit == Init => Owned!Init
<1> SUFFICES ASSUME Init  PROVE TableOf \in [Conns -> AllTables]
  BY DEF Owned!Init
<1>1. ASSUME NEW c \in Conns
      PROVE  <<PartOf(namespaces, c), PartOf(instances, c)>> \in AllTables
  <2>1. PartOf(Empty, c) = Empty
    BY EmptyIs DEF PartOf, Empty
  <2>2. NamespaceInfos(c, NoSnapshot) = Empty
    BY DEF NamespaceInfos, NoSnapshot, Empty
  <2>3. NodeDescriptors(c, NoSnapshot) = Empty
    BY EmptyIs DEF NodeDescriptors, NoSnapshot, Empty
  <2>4. <<NamespaceInfos(c, NoSnapshot), NodeDescriptors(c, NoSnapshot)>> \in AllTables
    BY NoSnapshotIs DEF AllTables
  <2>5. QED  BY <2>1, <2>2, <2>3, <2>4 DEF Init
<1>2. QED  BY <1>1 DEF TableOf

\* Applying a snapshot replaces the tables of its connection; nothing else does.
LEMMA OwnedStep ==
    TypeOK /\ TablesInv /\ [Next]_vars => [Owned!Next]_TableOf
<1>1. ASSUME TypeOK, TablesInv, NEW c \in Conns, ApplySnapshot(c)
      PROVE  Owned!Next
  <2> DEFINE new == <<NamespaceInfos(c, pending[c]), NodeDescriptors(c, pending[c])>>
  <2>1. new \in AllTables
    BY <1>1, PendingIs DEF AllTables, ApplySnapshot
  <2>2. TableOf' = [TableOf EXCEPT ![c] = new]
    BY <1>1, TablesApply DEF TableOf
  <2> HIDE DEF new
  <2>3. Owned!Replace(c)
    BY <2>1, <2>2 DEF Owned!Replace
  <2>4. QED  BY <2>3 DEF Owned!Next
<1>2. ASSUME UNCHANGED <<namespaces, instances>>
      PROVE  UNCHANGED TableOf
  BY <1>2 DEF TableOf, PartOf
<1>3. ASSUME NEW c \in Conns, Ship(c)
      PROVE  UNCHANGED <<namespaces, instances>>
  BY <1>3 DEF Ship, registries
<1>4. ASSUME UNCHANGED vars
      PROVE  UNCHANGED <<namespaces, instances>>
  BY <1>4 DEF vars, registries
<1>5. QED  BY <1>1, <1>2, <1>3, <1>4 DEF Next

\* Every connection has tables of its own, which only its own snapshots replace,
\* as a whole, however many connections share the registries.
THEOREM TablesAreOwned == Spec => OwnedSpec
<1>1. Init => Owned!Init
  BY OwnedInit
<1>2. TypeOK /\ TablesInv /\ [Next]_vars => [Owned!Next]_TableOf
  BY OwnedStep
<1>3. QED  BY <1>1, <1>2, TablesAlways, PTL DEF Spec, OwnedSpec, Owned!Spec

=============================================================================
