---- MODULE Discovery ----
(***************************************************************************)
(* A whole discovery, as the on_connected hook runs it: browse() of        *)
(* adapters/asyncua/browse.py, the merge of the types and the shipment to  *)
(* the registries (upstream.py); and what the routes over objects, types   *)
(* and namespaces (api/routes, core/mapping.py) then make of them.  One    *)
(* connection; elementIds are written without the "<connection>!".         *)
(***************************************************************************)
EXTENDS WireIds

CONSTANTS
  NoType,          \* no TypeDefinition, or no DataType
  GenericParents,  \* i=58 and i=61
  GenericVariable, \* i=63
  Builtin,         \* DataTypes with a name in the Part 6 table
  MaxDepth         \* bound on maxDepth in the requests considered

Ranks == -3..2
Depths == 0..MaxDepth

(* world.typedef and world.datatype: what a node refers to.  world.typeid, *)
(* world.label and world.custom: the NodeId of a type as text, its display *)
(* name, and the name made of the NodeId of a DataType without a name.     *)
(* world.uri: a namespace URI as text.  Nothing reads like i=58, i=61 or   *)
(* i=63 without its "!", so these are told apart by NodeId before and      *)
(* after the pass that takes it out.                                       *)
ModelWorld(w) ==
  /\ w.typedef \in [Nodes -> TypeIds \cup {NoType}]
  /\ w.datatype \in [Nodes -> TypeIds \cup {NoType}]
  /\ w.rank \in [Nodes -> Ranks]
  /\ w.access \in [Nodes -> 0..3]
  /\ w.typeid \in [TypeIds -> Text]
  /\ w.label \in [TypeIds -> Text]
  /\ w.custom \in [TypeIds -> Text]
  /\ w.uri \in [Uris -> Text]
  /\ \A s, t \in TypeIds :
       (\/ w.typeid[s] = w.typeid[t]
        \/ t \in GenericParents \cup {GenericVariable} /\ NoBang(w.typeid[s]) = w.typeid[t]) => s = t

ASSUME ModelAssumption ==
  /\ NoType \notin TypeIds
  /\ GenericParents \cup {GenericVariable} \cup Builtin \subseteq TypeIds
  /\ MaxDepth \in Nat
  /\ \A s \in DOMAIN Worlds : ModelWorld(Worlds[s])

VARIABLES
  named,        \* DataTypes outside the table whose name could be read
  artificial    \* the artificial types: shape and schema

modelVars == <<named, artificial>>
vars == <<walkVars, typeVars, wireVars, modelVars>>

Init == WalkInit /\ TypeInit /\ WireInit /\ named = {} /\ artificial = {}

--------------------------------------------------------------------------
(* The descriptors.                                                        *)

Row(n) == out[Position(n)]
Class(n) == world.class[n]
Parent(n) == Row(n).parent

(* A Variable without its attributes has no DataType.                      *)
DataType(n) == IF Row(n).described THEN world.datatype[n] ELSE NoType
TypeSource(n) == IF world.typedef[n] # NoType THEN world.typedef[n] ELSE DataType(n)

Unresolved == {DataType(n) : n \in Emitted} \ (Builtin \cup {NoType})

(* Two artificial types of a connection are the same if the name of their  *)
(* DataType, the rank as a word and the access are.                        *)
DataTypeName(n) ==
  IF DataType(n) \in Builtin \cup named THEN world.label[DataType(n)] ELSE world.custom[DataType(n)]

RankName(r) ==
  CASE r = -1 -> "Scalar" [] r = 0 -> "AnyDim" [] r = 1 -> "Array" [] OTHER -> "Multi"

Shape(n) == <<DataTypeName(n), RankName(world.rank[n]), world.access[n]>>

(* datatype_to_json_schema: an array from rank 1 on; what is not built in  *)
(* is any object.                                                          *)
ValueSchema(n) ==
  [of |-> IF DataType(n) \in Builtin THEN DataType(n) ELSE NoType, array |-> world.rank[n] >= 1]

(* should_replace, and the attributes a shape needs.                       *)
Shapeable(n) == Class(n) = "Variable" /\ TypeSource(n) = GenericVariable /\ DataType(n) # NoType

(* The browse looks the parent up by NodeId ...                            *)
EligibleForArtificial(n) ==
  /\ Shapeable(n)
  /\ \/ Parent(n) \notin Emitted
     \/ TypeSource(Parent(n)) \in GenericParents \cup {NoType}

FirstOfShape(n) ==
  \A m \in Emitted :
    (EligibleForArtificial(m) /\ Shape(m) = Shape(n)) => Position(n) <= Position(m)

(* The names of these types, like those of all others, then go through the *)
(* pass that takes out "!"; the DataTypes named at the nodes do not.       *)
WithoutBang(shape) == <<NoBang(shape[1]), shape[2], shape[3]>>

Artificial ==
  {[shape |-> WithoutBang(Shape(n)), schema |-> ValueSchema(n)] :
     n \in {m \in Emitted : EligibleForArtificial(m) /\ FirstOfShape(m)}}

--------------------------------------------------------------------------
(* The rest of a discovery.                                                *)

(* The names come one by one, or do not; without any, none is stamped.     *)
ResolveNames ==
  /\ phase = "stamped"
  /\ \E S \in SUBSET Unresolved :
       /\ named' = Unresolved \ S
       /\ SomeFault("name", S)
  /\ phase' = "named"
  /\ UNCHANGED <<site, limit, tree, exchange, seen, browsed, counters, typeVars, wireVars, artificial>>

CollectArtificial ==
  /\ phase = "named"
  /\ artificial' = Artificial
  /\ phase' = "browsed"
  /\ UNCHANGED <<site, limit, tree, exchange, seen, browsed, counters, faults, typeVars, wireVars, named>>

(* The index is refreshed and the snapshot applied.                        *)
Ship ==
  /\ phase = "merged"
  /\ phase' = "shipped"
  /\ UNCHANGED <<site, limit, tree, exchange, seen, browsed, counters, faults>>
  /\ UNCHANGED <<typeVars, wireVars, modelVars>>

Next ==
  \/ Walk /\ UNCHANGED <<typeVars, wireVars, modelVars>>
  \/ TypeSteps /\ UNCHANGED <<wireVars, modelVars>>
  \/ (StampNode \/ EndStamping) /\ UNCHANGED modelVars
  \/ ResolveNames \/ CollectArtificial \/ Ship

Spec == Init /\ [][Next]_vars /\ WF_vars(Next)

====
