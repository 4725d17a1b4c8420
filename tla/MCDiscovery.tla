---- MODULE MCDiscovery ----
(***************************************************************************)
(* Instances of ObjectModel for TLC: small servers that have, between      *)
(* them, cycles, a node with several parents, a reference back to the      *)
(* root, folders of several pages, no, one and two continuation points,    *)
(* limits published and not, an allowlist, NodeIds that are opaque or not, *)
(* names that repeat or read like paths, generic and meaningful types.     *)
(***************************************************************************)
EXTENDS ObjectModel, TLC

N == {"root", "short", "a", "b", "c", "d"}
T == {"i=58", "i=61", "i=62", "i=63", "BoilerType", "i=22", "S1", "S2", "i=10", "i=290"}
U == {"core", "vendor", "other"}
W == {".", "#", "!", "-", "ns=0;", "i=85", "i=1", "i=2", "i=3", "i=4", "s=b", "s=c", "s=d",
      "A", "B", "C", "D", "Server", "Objects", "Custom_"} \cup T \cup U

R(to, rel) == [to |-> to, rel |-> rel]

Top == <<R("a", "Organizes"), R("b", "HasComponent"), R("c", "HasComponent")>>

(* Each of "root" and "short" is the Objects folder.                       *)
Cyclic == [n \in N |->
  CASE n \in {"root", "short"} -> Top
    [] n = "a" -> <<R("b", "HasProperty"), R("c", "HasComponent"), R("short", "Organizes")>>
    [] n = "c" -> <<R("d", "HasComponent"), R("b", ""), R("a", "Organizes")>>
    [] OTHER -> <<>>]
Nested == [n \in N |->
  CASE n \in {"root", "short"} -> <<R("a", "HasComponent"), R("d", "Organizes")>>
    [] n = "a" -> <<R("b", "HasComponent"), R("c", "HasComponent")>>
    [] n = "c" -> <<R("d", "HasComponent")>>
    [] n = "b" -> <<R("d", "HasProperty")>>
    [] OTHER -> <<>>]

Strings == ("root" :> <<"i=85">> @@ "short" :> <<"i=4">> @@ "a" :> <<"i=1">> @@ "b" :> <<"s=b">>
            @@ "c" :> <<"s=c">> @@ "d" :> <<"s=d">>)
Readables == [Strings EXCEPT !["root"] = <<"ns=0;", "i=85">>, !["short"] = <<"i=85">>]
Numbers == [Readables EXCEPT !["b"] = <<"i=2">>, !["c"] = <<"i=3">>, !["d"] = <<"i=4">>]
Bangs == [Readables EXCEPT !["b"] = <<"s=b", "!">>, !["c"] = <<"s=b", "-">>]

Plainly == ("root" :> <<"Objects">> @@ "short" :> <<"Objects">> @@ "a" :> <<"A">> @@ "b" :> <<"B">>
            @@ "c" :> <<"C">> @@ "d" :> <<"D">>)
Repeated == [Plainly EXCEPT !["c"] = <<"B">>, !["d"] = <<"B">>]
Dotted == [Plainly EXCEPT !["d"] = <<"A", ".", "B">>]
AnId == [Plainly EXCEPT !["a"] = <<"i=3">>]
Hashed == [Plainly EXCEPT !["b"] = <<"A", "#", "i=3">>, !["c"] = <<"A">>]

World(refs) == [
  refs |-> refs,
  class |-> [n \in N |-> IF n \in {"b", "d"} THEN "Variable" ELSE "Object"],
  uris |-> <<"core", "vendor", "other">>,
  ns |-> [n \in N |-> CASE n \in {"root", "short"} -> 0 [] n = "a" -> 2 [] OTHER -> 1],
  allow |-> {}, pool |-> 1, limits |-> [cps |-> 0, nodes |-> 0],
  properties |-> FALSE, partial |-> FALSE,
  typeRoots |-> <<"i=58", "i=62">>,
  subtypes |-> [t \in T |->
    CASE t = "i=58" -> <<"BoilerType", "i=61">> [] t = "i=62" -> <<"i=63">>
      [] t = "i=22" -> <<"S1">> [] t = "S1" -> <<"S2">> [] OTHER -> <<>>],
  fields |-> {"S1", "S2"}, generated |-> {"S2"},
  id |-> Readables, name |-> Plainly, opaque |-> {n \in N : Head(Readables[n]) \notin {"s=b", "s=c", "s=d"}},
  app |-> <<"Server">>,
  typedef |-> [n \in N |->
    CASE n \in {"root", "short", "c"} -> "i=61" [] n = "a" -> "BoilerType" [] OTHER -> "i=63"],
  datatype |-> [n \in N |-> IF n = "b" THEN "i=10" ELSE "i=290"],
  rank |-> [n \in N |-> IF n = "b" THEN 1 ELSE -1],
  access |-> [n \in N |-> 1],
  typeid |-> [t \in T |-> <<t>>], label |-> [t \in T |-> <<t>>],
  custom |-> [t \in T |-> <<"Custom_", t>>], uri |-> [u \in U |-> <<u>>]]

Graph(g) == IF g = "cyclic" THEN Cyclic ELSE Nested
Graphs == {"cyclic", "nested"}

(* The servers differ in what they have of continuation points and say of  *)
(* it, in the texts, or in the kinds of what is on them.                   *)
Servers == {"server"} \X Graphs \X (0..2) \X BOOLEAN \X BOOLEAN
Texts == {"texts"} \X Graphs \X {"strings", "numbers", "bangs"}
                   \X {"plain", "repeated", "dotted", "an id", "hashed"}
Contents == {"contents"} \X Graphs \X {{}, {"core", "vendor"}} \X BOOLEAN
                         \X {"BoilerType", "NoType"} \X {<<-3, FALSE>>, <<1, FALSE>>, <<1, TRUE>>, <<2, FALSE>>}

(* Types, DataTypes and namespaces with a "!" in their texts; one type's   *)
(* texts become another's without it.                                      *)
WithBangs(w) ==
  [w EXCEPT !.typeid["BoilerType"] = <<"A", "!", "B">>, !.typeid["i=62"] = <<"A", "-", "B">>,
            !.label["BoilerType"] = <<"A", "!">>, !.label["i=290"] = <<"D", "!">>,
            !.datatype["b"] = "i=290", !.custom["i=290"] = <<"Custom_", "D", "!">>,
            !.uri["vendor"] = <<"vendor", "!">>]

ServerWorld(s) ==
  [World(Graph(s[2])) EXCEPT !.pool = s[3], !.partial = s[5],
     !.limits = IF s[4] THEN [cps |-> s[3], nodes |-> 3] ELSE @]

TextWorld(s) ==
  [World(Graph(s[2])) EXCEPT
     !.app = <<>>,
     !.id = CASE s[3] = "strings" -> Strings [] s[3] = "numbers" -> Numbers [] OTHER -> Bangs,
     !.opaque = IF s[3] = "numbers" THEN N ELSE @,
     !.name = CASE s[4] = "plain" -> Plainly [] s[4] = "repeated" -> Repeated
                [] s[4] = "dotted" -> Dotted [] s[4] = "an id" -> AnId [] OTHER -> Hashed]

ContentWorld(s) ==
  LET w == [World(Graph(s[2])) EXCEPT !.allow = s[3], !.properties = s[4], !.typedef["c"] = s[5],
                                      !.rank["d"] = s[6][1], !.datatype["d"] = "i=10"]
  IN  IF s[6][2] THEN WithBangs(w) ELSE w

(* @@ makes TLC tabulate the function.                                     *)
AllWorlds ==
  [s \in Servers \cup Texts \cup Contents |->
     CASE s[1] = "server" -> ServerWorld(s) [] s[1] = "texts" -> TextWorld(s) [] OTHER -> ContentWorld(s)] @@ <<>>

====
