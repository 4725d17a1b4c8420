---- MODULE TypeWalk ----
(***************************************************************************)
(* The walks over types: _browse_types of adapters/asyncua/browse.py and   *)
(* below it get_type_info, which follow the instances; and, at the end of  *)
(* a discovery, _walk_server_structure_types and the classes that asyncua  *)
(* generated, of adapters/asyncua/upstream.py.                             *)
(*                                                                         *)
(* What a type is made of is left to the server: a type is a NodeId.       *)
(***************************************************************************)
EXTENDS InstanceWalk

CONSTANTS
  TypeIds,        \* NodeIds of ObjectTypes, VariableTypes and DataTypes
  StructureBase   \* i=22

(* world.fields: the Structures whose DataTypeDefinition has fields.       *)
(* world.generated: the DataTypes of classes that load_data_type_-         *)
(* definitions has put into the ua module.                                 *)
TypeWorld(w) ==
  /\ w.typeRoots \in Seq(TypeIds)
  /\ w.subtypes \in [TypeIds -> Seq(TypeIds)]
  /\ w.fields \subseteq TypeIds
  /\ w.generated \subseteq TypeIds

ASSUME TypeAssumption ==
  /\ StructureBase \in TypeIds
  /\ \A s \in DOMAIN Worlds : TypeWorld(Worlds[s])

VARIABLES
  typeQueue,    \* types still to be browsed
  typeSeen,     \* types taken from the queue
  types,        \* the TypeDescriptors of _browse_types
  structures    \* those of _walk_server_structure_types

typeVars == <<typeQueue, typeSeen, types, structures>>

TypeInit ==
  /\ typeQueue = <<>> /\ typeSeen = {}
  /\ types = <<>> /\ structures = {}

BeginTypes ==
  /\ phase = "walked"
  /\ typeQueue' = world.typeRoots
  /\ phase' = "types"
  /\ UNCHANGED <<site, limit, tree, exchange, seen, browsed, counters, faults>>
  /\ UNCHANGED <<typeSeen, types, structures>>

(* get_type_info reads the declarations of a type and its subtypes, or     *)
(* gives nothing: then the type is left out with all its subtypes.         *)
TypeInfo(t) ==
  \/ types' = Append(types, t) /\ typeQueue' = Tail(typeQueue) \o world.subtypes[t] /\ UNCHANGED faults
  \/ Fault("type") /\ typeQueue' = Tail(typeQueue) /\ UNCHANGED types

BrowseType ==
  /\ phase = "types" /\ typeQueue # <<>>
  /\ LET t == Head(typeQueue)
     IN  /\ typeSeen' = typeSeen \cup {t}
         /\ \/ t \notin typeSeen /\ TypeInfo(t)
            \/ /\ t \in typeSeen
               /\ typeQueue' = Tail(typeQueue)
               /\ UNCHANGED <<types, faults>>
  /\ UNCHANGED <<site, phase, limit, tree, exchange, seen, browsed, counters, structures>>

EndTypes ==
  /\ phase = "types" /\ typeQueue = <<>>
  /\ phase' = "typed"
  /\ UNCHANGED <<site, limit, tree, exchange, seen, browsed, counters, faults, typeVars>>

--------------------------------------------------------------------------
(* After browse(): the Structures.                                         *)

BeginStructures ==
  /\ phase = "browsed"
  /\ typeQueue' = <<StructureBase>>
  /\ typeSeen' = {}
  /\ phase' = "structures"
  /\ UNCHANGED <<site, limit, tree, exchange, seen, browsed, counters, faults>>
  /\ UNCHANGED <<types, structures>>

(* A node is a type when its DataTypeDefinition can be read and has fields. *)
StructureDefinition(t, failed) == IF "definition" \in failed THEN {} ELSE {t} \cap world.fields

(* The subtypes of a node and its definition are read apart: one may fail  *)
(* without the other.  The base itself is not emitted.                     *)
WalkStructure ==
  /\ phase = "structures" /\ typeQueue # <<>>
  /\ LET t == Head(typeQueue)
     IN  /\ typeSeen' = typeSeen \cup {t}
         /\ \E failed \in IF t \in typeSeen THEN {{}} ELSE SUBSET {"subtypes", "definition"} :
              /\ Faulty(failed)
              /\ typeQueue' = Tail(typeQueue) \o
                   (IF t \in typeSeen \/ "subtypes" \in failed THEN <<>> ELSE world.subtypes[t])
              /\ structures' = structures \cup
                   (StructureDefinition(t, failed) \ (typeSeen \cup {StructureBase}))
  /\ UNCHANGED <<site, phase, limit, tree, exchange, seen, browsed, counters, types>>

EndStructures ==
  /\ phase = "structures" /\ typeQueue = <<>>
  /\ phase' = "merged"
  /\ UNCHANGED <<site, limit, tree, exchange, seen, browsed, counters, faults, typeVars>>

(* Every class of the ua module with the marks of the generator, whichever *)
(* connection made it.                                                     *)
GeneratedTypes == world.generated

(* Both ways to a DataType give one descriptor, and the class wins.        *)
CustomTypes ==
  {[source |-> t, from |-> "server"] : t \in structures \ GeneratedTypes} \cup
  {[source |-> t, from |-> "class"] : t \in GeneratedTypes}

TypeSteps ==
  \/ BeginTypes \/ BrowseType \/ EndTypes
  \/ BeginStructures \/ WalkStructure \/ EndStructures

TypesTypeOK ==
  /\ typeQueue \in Seq(TypeIds) /\ typeSeen \subseteq TypeIds
  /\ types \in Seq(TypeIds) /\ structures \subseteq TypeIds

====
