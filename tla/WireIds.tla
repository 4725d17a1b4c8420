---- MODULE WireIds ----
(***************************************************************************)
(* The ids that go over the wire: _stamp_wire_node_ids of                  *)
(* adapters/asyncua/browse.py, one node per step, the replacement of "!"   *)
(* that follows, and the two-way index of adapters/asyncua/upstream.py.    *)
(*                                                                         *)
(* A text is a sequence of words; ".", "#", "!" and "-" are words.         *)
(***************************************************************************)
EXTENDS TypeWalk

CONSTANT Words
Text == Seq(Words)

(* What the long form of a NodeId of namespace 0 begins with.              *)
LongForm == "ns=0;"

(* world.id: a NodeId as text.  world.opaque: the numeric NodeIds.         *)
(* world.app: the ApplicationName, empty for none.  A NodeId has the       *)
(* beginning of the long form only there.                                  *)
WireWorld(w) ==
  /\ w.id \in [Nodes -> Text \ {<<>>}]
  /\ w.name \in [Nodes -> Text]
  /\ w.opaque \subseteq Nodes
  /\ w.app \in Text
  /\ \A m, n \in Nodes : w.id[m] = w.id[n] => m = n
  /\ \A n \in Nodes : \A i \in DOMAIN w.id[n] : w.id[n][i] = LongForm => i = 1

ASSUME WireAssumption ==
  /\ {".", "#", "!", "-"} \subseteq Words
  /\ \A s \in DOMAIN Worlds : WireWorld(Worlds[s])

VARIABLES
  stamps,     \* path, wire id and parent's wire id of the nodes stamped so far
  stamped     \* how many of the descriptors are

wireVars == <<stamps, stamped>>

WireInit == stamps = [n \in {} |-> <<>>] /\ stamped = 0

Name(row) == IF row.parent = NoNode /\ world.app # <<>> THEN world.app ELSE world.name[row.node]

(* A child continues its parent's path, which is empty for the root and    *)
(* for a parent that was not emitted.                                      *)
Path(row) ==
  IF row.parent = NoNode THEN <<>>
  ELSE IF row.parent \in DOMAIN stamps /\ stamps[row.parent].path # <<>>
       THEN stamps[row.parent].path \o <<".">> \o Name(row)
       ELSE Name(row)

Plain(row) == IF row.node \in world.opaque /\ Path(row) # <<>> THEN Path(row) ELSE world.id[row.node]

IsTaken(text) == \E n \in DOMAIN stamps : stamps[n].wire = text

\* Mutant: nothing keeps two nodes of one path apart.
MutWire(row) == Plain(row)

Wire(row) == IF IsTaken(Plain(row)) THEN Plain(row) \o <<"#">> \o world.id[row.node] ELSE Plain(row)

ParentWire(row) == IF row.parent \in DOMAIN stamps THEN stamps[row.parent].wire ELSE <<>>

StampNode ==
  /\ phase = "typed" /\ stamped < Len(out)
  /\ LET row == out[stamped + 1]
         stamp == [path |-> Path(row), wire |-> Wire(row), parent |-> ParentWire(row)]
     IN  stamps' = [n \in DOMAIN stamps \cup {row.node} |-> IF n = row.node THEN stamp ELSE stamps[n]]
  /\ stamped' = stamped + 1
  /\ UNCHANGED <<walkVars, typeVars>>

EndStamping ==
  /\ phase = "typed" /\ stamped = Len(out)
  /\ phase' = "stamped"
  /\ UNCHANGED <<site, limit, tree, exchange, seen, browsed, counters, faults, typeVars, wireVars>>

--------------------------------------------------------------------------
(* "!" is the separator of elementIds, so the pass at the end of browse()  *)
(* takes it out of NodeIds, of the names of types and of namespace URIs;   *)
(* the wire ids were made before it.                                       *)

NoBang(text) == [i \in DOMAIN text |-> IF text[i] = "!" THEN "-" ELSE text[i]]

NodeId(n) == NoBang(world.id[n])

(* canonicalize_node_id: the long form of namespace 0 loses its prefix.    *)
Canonical(text) == IF text # <<>> /\ text[1] = LongForm THEN Tail(text) ELSE text

(* _wire_by_raw is a dict filled in the order of the nodes, _raw_by_wire   *)
(* its inverse: the last one wins.                                         *)
Emitted == {out[i].node : i \in DOMAIN out}
Position(n) == CHOOSE i \in DOMAIN out : out[i].node = n
LastOf(S) == CHOOSE n \in S : \A m \in S : Position(m) <= Position(n)

WireByRaw(raw) ==
  LET S == {n \in Emitted : NodeId(n) = raw}
  IN  IF S = {} THEN raw ELSE stamps[LastOf(S)].wire

\* Mutant: what a client names goes to the server as it is.
MutRawByWire(wire) == wire

RawByWire(wire) ==
  LET S == {n \in Emitted : WireByRaw(NodeId(n)) = wire}
      First(n) == \A m \in Emitted : NodeId(m) = NodeId(n) => Position(n) <= Position(m)
  IN  IF S = {} THEN wire ELSE NodeId(LastOf({n \in S : First(n)}))

(* The registry is a dict by wire id, filled in the order of the nodes.    *)
Registered(text) == \E n \in Emitted : stamps[n].wire = text
NodeAt(text) == LastOf({n \in Emitted : stamps[n].wire = text})

--------------------------------------------------------------------------
(* Properties.                                                             *)

WiresTypeOK ==
  /\ stamped \in 0..Len(out)
  /\ DOMAIN stamps = {out[i].node : i \in 1..stamped}
  /\ \A n \in DOMAIN stamps : stamps[n] \in [path : Text, wire : Text, parent : Text]

Free(text, word) == \A i \in DOMAIN text : text[i] # word

(* Nobody but the disambiguator writes a "#".                              *)
NoHash == Free(world.app, "#") /\ \A n \in Nodes : Free(world.id[n], "#") /\ Free(world.name[n], "#")

(* Two nodes never get the same wire id, whatever names repeat and however *)
(* a name with a dot reads like a path: the registry keeps every node.     *)
WiresDistinct ==
  NoHash => \A m, n \in DOMAIN stamps : stamps[m].wire = stamps[n].wire => m = n

====
