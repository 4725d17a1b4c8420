---- MODULE ObjectModel ----
(***************************************************************************)
(* What the routes serve once a discovery has shipped: /namespaces,        *)
(* /objecttypes, /objects, /objects/related and the components of          *)
(* /objects/value (api/routes/*.py, core/mapping.py, core/registry.py).    *)
(* The routes read one snapshot, so they are operators on the state.       *)
(***************************************************************************)
EXTENDS Discovery

RangeOf(s) == {s[i] : i \in DOMAIN s}

(* The objects served: of two nodes with one wire id only the last.        *)
Objects == {n \in Emitted : NodeAt(stamps[n].wire) = n}
ElementId(n) == stamps[n].wire

\* Mutant: the parent's NodeId also where its wire id is another.
MutParentId(n) == IF Parent(n) = NoNode THEN <<>> ELSE NodeId(Parent(n))

ParentId(n) ==
  IF stamps[n].parent # <<>> THEN stamps[n].parent
  ELSE IF Parent(n) = NoNode THEN <<>> ELSE NodeId(Parent(n))

(* children_of parses the elementId, which makes its NodeId canonical, and *)
(* compares it with what the children carry.                               *)
ChildrenOf(text) == {n \in Objects : ParentId(n) = Canonical(text)}

Related(n, rel) == {m \in ChildrenOf(ElementId(n)) : rel \in {"any", Row(m).rel}}

(* _build_instance looks for children and parent under the NodeId.         *)
HasChildren(n) == ChildrenOf(NodeId(n))
ParentIsFound(n) == Parent(n) # NoNode /\ Registered(NodeId(Parent(n)))
ParentFound(n) == NodeAt(NodeId(Parent(n)))

--------------------------------------------------------------------------
(* Types and namespaces.                                                   *)

(* Browsed types have been through the pass that takes out "!", custom     *)
(* types are merged after it, and apply_snapshot adds the placeholder.     *)
Placeholder == <<<<"UnknownType">>>>

ListedTypes ==
  {<<NoBang(world.label[t])>> : t \in RangeOf(types)} \cup
  {<<world.label[c.source]>> : c \in CustomTypes} \cup
  {a.shape : a \in artificial} \cup {Placeholder}

(* _types_by_source: of the types under one NodeId the last is found, and  *)
(* the custom types are the last.                                          *)
CustomAt(source) == {t \in {c.source : c \in CustomTypes} : world.typeid[t] = source}
BrowsedAt(source) == {i \in DOMAIN types : NoBang(world.typeid[types[i]]) = source}

NameOf(source) ==
  IF CustomAt(source) # {} THEN world.label[CHOOSE t \in CustomAt(source) : TRUE]
  ELSE IF BrowsedAt(source) # {}
       THEN NoBang(world.label[types[CHOOSE i \in BrowsedAt(source) : \A j \in BrowsedAt(source) : j <= i]])
  ELSE source

(* ... and the routes look it up by elementId, under its NodeId.           *)
\* Mutant: the routes do not look at the parent.
MutArtificialEnabled(n) == TRUE

ArtificialEnabled(n) ==
  ParentIsFound(n) => TypeSource(ParentFound(n)) \in GenericParents \cup {NoType}

UsesArtificial(n) == ArtificialEnabled(n) /\ Shapeable(n)

(* The name of an artificial type is built again, of the DataType's name as *)
(* it came from the server.                                                *)
TypeElementId(n) ==
  IF UsesArtificial(n) THEN Shape(n)
  ELSE IF TypeSource(n) = NoType THEN Placeholder
  ELSE <<NameOf(NoBang(world.typeid[TypeSource(n)]))>>

ExposedUris ==
  {CoreUri} \cup (IF world.allow = {} THEN RangeOf(world.uris)
                  ELSE RangeOf(world.uris) \cap world.allow)
Exposed == {NoBang(world.uri[u]) : u \in ExposedUris}
NamespaceUri(n) == NoBang(world.uri[UriOf(n)])

--------------------------------------------------------------------------
(* The leaves of a composition: _leaf_variable_ids.                        *)

\* Mutant: all children, whatever they are to their parent.
MutComponents(n) == {m \in Objects : Parent(m) # NoNode /\ NodeId(Parent(m)) = NodeId(n)}

(* _direct_children, with only_has_component.                              *)
Components(n) ==
  {m \in Objects : Parent(m) # NoNode /\ NodeId(Parent(m)) = NodeId(n) /\ Row(m).rel = "HasComponent"}

Variables(S) == {m \in S : Class(m) = "Variable"}

(* Children become elementIds under their NodeId, and are looked up again. *)
LeavesWithin[k \in Nat \ {0}] ==
  [n \in Emitted |->
     IF ~IsComposition(n) THEN {}
     ELSE IF k = 1 THEN {NodeId(m) : m \in Variables(Components(n))}
     ELSE LET found == {NodeAt(NodeId(m)) : m \in {c \in Components(n) : Registered(NodeId(c))}}
          IN  {ElementId(m) : m \in Variables(found)} \cup
              UNION {LeavesWithin[k - 1][m] : m \in found \ Variables(found)}]

(* maxDepth 0 stands for no bound: no path is longer than the rows.        *)
Levels(depth) == IF depth = 0 THEN Len(out) + 1 ELSE depth

(* A leaf the snapshot does not have is left out of the answer.            *)
ValueComponents(n, depth) == {t \in LeavesWithin[Levels(depth)][n] : Registered(t)}

--------------------------------------------------------------------------
(* Properties.                                                             *)

Shipped == phase = "shipped"

(* Types.                                                                  *)
TypeOK ==
  /\ WalkTypeOK /\ TypesTypeOK /\ WiresTypeOK
  /\ named \subseteq TypeIds
  /\ \A a \in artificial : a.schema \in [of : TypeIds \cup {NoType}, array : BOOLEAN]

Readable(n) == ElementId(n) = NodeId(n)
IdsFreeOf(word) == \A n \in Nodes : Free(world.id[n], word)

(* Paths and NodeIds share the elementIds.  A path that reads like the     *)
(* NodeId of another node leads there, unless that node is listed and so   *)
(* keeps the two apart; and one that begins like the long form of a NodeId *)
(* loses its beginning.                                                    *)
PathsAreNoIds ==
  \A m \in Objects, n \in Nodes :
    LET path == stamps[m].path
    IN  /\ Canonical(path) = path
        /\ path = Canonical(world.id[n]) => n \in Objects /\ world.id[n] = path

(* A client that reads the elementId of an object reaches that node of the *)
(* server, and the samples of that node come back under that elementId but *)
(* for a root in the long form, unless a NodeId has a "!" in it: then      *)
(* another NodeId is sent.                                                 *)
ReadsReachNode ==
  (Shipped /\ NoHash /\ IdsFreeOf("!") /\ PathsAreNoIds) =>
    \A n \in Objects :
      /\ Canonical(RawByWire(Canonical(ElementId(n)))) = Canonical(world.id[n])
      /\ Canonical(world.id[n]) = world.id[n] => WireByRaw(world.id[n]) = ElementId(n)

(* The objects related to an object are those that name it as their        *)
(* parent, and so are its HasChildren as long as its NodeId is its wire    *)
(* id.  It does not hold of a root given in the long form of namespace 0.  *)
RelatedIsTheTree ==
  (Shipped /\ NoHash /\ IdsFreeOf("!") /\ PathsAreNoIds) =>
    \A n \in Objects : Canonical(ElementId(n)) = ElementId(n) =>
      /\ Related(n, "any") = {m \in Objects : Parent(m) = n}
      /\ Readable(n) => HasChildren(n) = Related(n, "any")
      /\ IsComposition(n) <=> Class(n) = "Object" /\ Related(n, "HasComponent") # {}

(* The components of a composition are all the Variables below it, down to *)
(* the depth asked for and through compositions only, as long as the       *)
(* NodeIds below it are their wire ids.                                    *)
ComponentOf(m, n) == Parent(m) = n /\ Row(m).rel = "HasComponent"

WithinSteps[k \in Nat] ==
  [n \in Emitted |->
     IF k = 0 THEN {}
     ELSE {m \in Emitted : ComponentOf(m, n)} \cup
          UNION {WithinSteps[k - 1][m] : m \in {c \in Emitted : ComponentOf(c, n) /\ Class(c) = "Object"}}]

ComponentsComplete ==
  (Shipped /\ NoHash /\ IdsFreeOf("!")) =>
    \A n \in Objects, depth \in Depths :
      (IsComposition(n) /\ \A m \in Objects \ {n} : Readable(m)) =>
        ValueComponents(n, depth) =
          {ElementId(m) : m \in Variables(WithinSteps[Levels(depth)][n])}

(* The types a walk can reach: those in every set that has the roots and   *)
(* the subtypes of all it has.                                             *)
ClosedInWalk(w, S) ==
  /\ RangeOf(w.typeRoots) \subseteq S
  /\ \A t \in S : RangeOf(w.subtypes[t]) \subseteq S

Reachable ==
  {p \in (DOMAIN Catalogue) \X TypeIds :
     \A S \in SUBSET TypeIds : ClosedInWalk(Catalogue[p[1]], S) => p[2] \in S}

Walkable(t) ==
  IF "type" \in faults THEN t \in RangeOf(types) ELSE <<site, t>> \in Reachable

(* An object without a type, or whose server type can be walked, refers to *)
(* a type that is listed, and an artificial one describes its value,       *)
(* although the discovery that collects the artificial types and the       *)
(* routes that refer to them decide separately.  They disagree under a     *)
(* parent that is not found by NodeId, and about a DataType with a "!" in  *)
(* its name; one word stands for all the ranks below -1 and above 1; and a *)
(* name, without its "!" or made of a NodeId, may be another's.            *)
SameParent(n) == Parent(n) \in Emitted => ParentIsFound(n) /\ ParentFound(n) = Parent(n)
PlainRanks == \A n \in Nodes : world.rank[n] >= -1
NamesOf(t) == {NoBang(world.label[t]), NoBang(world.custom[t])}
LabelsDistinct == \A s, t \in TypeIds : NamesOf(s) \cap NamesOf(t) # {} => s = t
NamedAlike(n) == SameParent(n) /\ (UsesArtificial(n) => Free(DataTypeName(n), "!"))

ObjectsResolve ==
  Shipped => \A n \in Objects :
    /\ (TypeSource(n) = NoType \/ (NamedAlike(n) /\ Walkable(TypeSource(n)))) =>
         TypeElementId(n) \in ListedTypes
    /\ (NamedAlike(n) /\ UsesArtificial(n) /\ PlainRanks /\ LabelsDistinct) =>
         {a.schema : a \in {b \in artificial : b.shape = TypeElementId(n)}} = {ValueSchema(n)}
    /\ UriOf(n) # NoUri => NamespaceUri(n) \in Exposed

(* Every discovery ends: with a snapshot, or with an exception.            *)
DiscoveryEnds == <>(phase \in {"shipped", "failed"})

====
