------------------------------ MODULE Registry ------------------------------
(***************************************************************************)
(* The registries every connection shares (core/registry.py), and how a    *)
(* connection replaces its part of them after each browse (_on_connected   *)
(* and apply_snapshot in adapters/asyncua/upstream.py).                    *)
(*                                                                         *)
(* Browsing and the index between wire and raw NodeIds live on the worker  *)
(* loop of the connection, the registries on the main loop.                *)
(* apply_snapshot awaits nothing but locks that are never contended, so it *)
(* is one atomic action; between a connection's index and its registries   *)
(* anything may happen.                                                    *)
(***************************************************************************)
EXTENDS Integers

CONSTANTS
    Conns,          \* connections
    Uris,           \* namespace URIs of the servers
    TypeNodes,      \* NodeIds of types, which servers assign independently
    Shapes,         \* what a structural hash tells apart: fields and version
    Wires,          \* NodeId halves of elementIds
    Raws,           \* raw NodeIds of instances
    None            \* no snapshot, no connection in a hash

\* "UnknownType" is not the text of any NodeId.
ASSUME NamesAssumption == "UnknownType" \notin TypeNodes /\ None \notin Conns

VARIABLES
    namespaces,     \* NamespaceRegistry: i3x_uri -> NamespaceInfo
    instances,      \* InstanceRegistry: elementId -> NodeDescriptor
    byHash,         \* TypeRegistry._by_hash: hash -> TypeDescriptor
    bySource,       \* TypeRegistry._by_source: <conn>!<NodeId> -> hash
    rawByWire,      \* _raw_by_wire of each binding
    pending,        \* the snapshot each connection has shipped to the main loop
    applied         \* history: the snapshot of each connection applied last

registries == <<namespaces, instances, byHash, bySource>>
vars == <<registries, rawByWire, pending, applied>>

Empty == [k \in {} |-> None]

\* All functions from a subset of S to T.
Partial(S, T) == UNION {[D -> T] : D \in SUBSET S}

\* The display paths of opaque NodeIds, and readable NodeIds, tell nodes apart.
Injective(f) == \A w, v \in DOMAIN f : f[w] = f[v] => w = v

\* What a browse brings: the namespaces, the types with their shape, and the
\* instances, as a map from wire to raw NodeIds.
Snapshot ==
    [uris : SUBSET Uris,
     types : Partial(TypeNodes, Shapes),
     nodes : {f \in Partial(Wires, Raws) : Injective(f)}]

ASSUME NoneAssumption == None \notin Snapshot

NoSnapshot == [uris |-> {}, types |-> Empty, nodes |-> Empty]

-----------------------------------------------------------------------------
(* Keys and values.                                                        *)

\* "<uri>#connection=<name>"
NamespaceKey(c, uri) == <<c, uri>>

\* "<connection>!<NodeId>": connection names hold no "!".
ElementId(c, node) == <<c, node>>

\* Mutant: every connection registers the same placeholder.
MutHash(d) == [node |-> d.node, shape |-> d.shape, conn |-> None]

\* structural_hash: of the NodeId and the shape, but not of the connection, except
\* for the types the wrapper makes up itself.
Hash(d) ==
    [node |-> d.node, shape |-> d.shape,
     conn |-> IF d.node = "UnknownType" THEN d.conn ELSE None]

\* Mutant: the placeholder belongs to no connection.
MutUnknown(c) == [conn |-> None, node |-> "UnknownType", shape |-> "placeholder"]

Unknown(c) == [conn |-> c, node |-> "UnknownType", shape |-> "placeholder"]

TypesOf(c, snap) ==
    {[conn |-> c, node |-> n, shape |-> snap.types[n]] : n \in DOMAIN snap.types}

-----------------------------------------------------------------------------
Init ==
    /\ namespaces = Empty
    /\ instances = Empty
    /\ byHash = Empty
    /\ bySource = Empty
    /\ rawByWire = [c \in Conns |-> Empty]
    /\ pending = [c \in Conns |-> None]
    /\ applied = [c \in Conns |-> NoSnapshot]

-----------------------------------------------------------------------------
\* SnapshotRegistry.update
Update(reg, added, removed) ==
    [k \in (DOMAIN reg \ removed) \cup DOMAIN added |->
        IF k \in DOMAIN added THEN added[k] ELSE reg[k]]

\* reconcile of the namespace and of the instance registry
Reconcile(reg, desired) == Update(reg, desired, DOMAIN reg \ DOMAIN desired)

\* Mutant: the entries of the other connections are not carried over.
MutKeep(reg, c, new) == new

\* The entries of the other connections, and the new ones of connection c.
Keep(reg, c, new) ==
    [k \in {k \in DOMAIN reg : reg[k].conn # c} \cup DOMAIN new |->
        IF k \in DOMAIN new THEN new[k] ELSE reg[k]]

NamespaceInfos(c, snap) ==
    [k \in {NamespaceKey(c, u) : u \in snap.uris} |-> [conn |-> c, uri |-> k[2]]]

NodeDescriptors(c, snap) ==
    [k \in {ElementId(c, w) : w \in DOMAIN snap.nodes} |->
        [conn |-> c, raw |-> snap.nodes[k[2]]]]

\* Mutant: the old hashes are dropped, but not the sources that refer to them.
MutReplaceTypes(c, snap) ==
    LET kept == {d \in {byHash[h] : h \in DOMAIN byHash} : d.conn # c}
        new == TypesOf(c, snap) \cup {Unknown(c)}
    IN  /\ byHash' = [h \in {Hash(d) : d \in kept \cup new} |->
                        CHOOSE d \in kept \cup new :
                            Hash(d) = h /\ (d.conn = c \/ \A e \in new : Hash(e) # h)]
        /\ bySource' = [k \in DOMAIN bySource \cup {ElementId(d.conn, d.node) : d \in new} |->
                        IF k \in DOMAIN bySource THEN bySource[k]
                        ELSE Hash(CHOOSE d \in new : ElementId(d.conn, d.node) = k)]

\* The types of the other connections as found in _by_hash, then those of c and
\* its placeholder, which take the place of an equal hash.
ReplaceTypes(c, snap) ==
    LET kept == {d \in {byHash[h] : h \in DOMAIN byHash} : d.conn # c}
        new == TypesOf(c, snap) \cup {Unknown(c)}
        wins(d) == d \in new \/ \A e \in new : Hash(e) # Hash(d)
    IN  /\ byHash' = [h \in {Hash(d) : d \in kept \cup new} |->
                        CHOOSE d \in kept \cup new : Hash(d) = h /\ wins(d)]
        /\ bySource' = [k \in {ElementId(d.conn, d.node) : d \in kept \cup new} |->
                        Hash(CHOOSE d \in kept \cup new : ElementId(d.conn, d.node) = k)]

-----------------------------------------------------------------------------
\* Mutant: the index keeps what it had.
MutShip(c) ==
    /\ pending[c] = None
    /\ \E snap \in Snapshot :
        /\ pending' = [pending EXCEPT ![c] = snap]
        /\ rawByWire' = [rawByWire EXCEPT ![c] =
                            IF @ = Empty THEN snap.nodes ELSE @]
    /\ UNCHANGED <<registries, applied>>

\* The worker has browsed, whatever the server now looks like: the index is
\* refreshed and the snapshot shipped.
Ship(c) ==
    /\ pending[c] = None
    /\ \E snap \in Snapshot :
        /\ pending' = [pending EXCEPT ![c] = snap]
        /\ rawByWire' = [rawByWire EXCEPT ![c] = snap.nodes]
    /\ UNCHANGED <<registries, applied>>

\* apply_snapshot, on the main loop.
ApplySnapshot(c) ==
    /\ pending[c] # None
    /\ namespaces' = Reconcile(namespaces,
                        Keep(namespaces, c, NamespaceInfos(c, pending[c])))
    /\ instances' = Reconcile(instances,
                        Keep(instances, c, NodeDescriptors(c, pending[c])))
    /\ ReplaceTypes(c, pending[c])
    /\ applied' = [applied EXCEPT ![c] = pending[c]]
    /\ pending' = [pending EXCEPT ![c] = None]
    /\ UNCHANGED rawByWire

Next == \E c \in Conns : Ship(c) \/ ApplySnapshot(c)

Spec == Init /\ [][Next]_vars

-----------------------------------------------------------------------------
(* Properties.                                                             *)

TypeNames == TypeNodes \cup {"UnknownType"}
HashValues == [node : TypeNames, shape : Shapes \cup {"placeholder"}, conn : Conns \cup {None}]
Descriptors == [conn : Conns, node : TypeNames, shape : Shapes \cup {"placeholder"}]

IsPartial(f, S, T) == DOMAIN f \subseteq S /\ \A k \in DOMAIN f : f[k] \in T

TypeOK ==
    /\ IsPartial(namespaces, Conns \X Uris, [conn : Conns, uri : Uris])
    /\ IsPartial(instances, Conns \X Wires, [conn : Conns, raw : Raws])
    /\ IsPartial(byHash, HashValues, Descriptors)
    /\ IsPartial(bySource, Conns \X TypeNames, HashValues)
    /\ rawByWire \in [Conns -> Partial(Wires, Raws)]
    /\ pending \in [Conns -> Snapshot \cup {None}]
    /\ applied \in [Conns -> Snapshot]

\* get_by_source never returns an outdated or a foreign shape, and never fails for
\* a key it has: what it finds under a connection's NodeId is the type that
\* connection's last snapshot had there, whichever connection's descriptor it is.
ResolvesToCurrent ==
    \A k \in DOMAIN bySource :
        /\ bySource[k] \in DOMAIN byHash
        /\ byHash[bySource[k]].node = k[2]
        /\ k[2] # "UnknownType" =>
                /\ k[2] \in DOMAIN applied[k[1]].types
                /\ byHash[bySource[k]].shape = applied[k[1]].types[k[2]]

\* Once a connection has been browsed its placeholder type stays listed, under its
\* own name, whatever the other connections bring: "every i3X deployment MUST
\* carry an UnknownType placeholder".
PlaceholderKept ==
    \A c \in Conns :
        applied[c] # NoSnapshot =>
            \E h \in DOMAIN byHash : byHash[h] = Unknown(c)

\* Whenever no snapshot of a connection is on its way, every elementId the registry
\* lists is one its binding translates, to the NodeId the registry has for it.
IndexMatches ==
    \A k \in DOMAIN instances :
        pending[k[1]] = None =>
            /\ k[2] \in DOMAIN rawByWire[k[1]]
            /\ rawByWire[k[1]][k[2]] = instances[k].raw

\* The part of a registry that belongs to a connection.
PartOf(reg, c) == [k \in {k \in DOMAIN reg : reg[k].conn = c} |-> reg[k]]

\* The tables of each connection, and all tables a snapshot can become.
TableOf == [c \in Conns |-> <<PartOf(namespaces, c), PartOf(instances, c)>>]

AllTables ==
    {<<NamespaceInfos(c, s), NodeDescriptors(c, s)>> : c \in Conns, s \in Snapshot}

Owned == INSTANCE OwnedTables WITH Owners <- Conns, Tables <- AllTables, table <- TableOf

\* "Only reconcile entries owned by this connection; others remain untouched":
\* every connection has its own tables of namespaces and of instances, which only
\* its own snapshots replace, as a whole.
OwnedSpec == Owned!Spec

\* "Types: rebuild entries for this connection only": every type of every
\* connection's last snapshot is listed.
TypesListed ==
    \A c \in Conns : \A d \in TypesOf(c, applied[c]) :
        \E h \in DOMAIN byHash : byHash[h] = d

=============================================================================
