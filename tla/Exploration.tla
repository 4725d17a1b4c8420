---- MODULE Exploration ----
(***************************************************************************)
(* What a walk over a graph promises: it finds nodes one at a time, the    *)
(* first among those it starts from, every other one at the end of an edge *)
(* from a node it has found.  What is found stays found.                   *)
(***************************************************************************)
CONSTANTS Nodes,
          Start,           \* where a walk may begin
          Edge(_, _, _)    \* Edge(g, p, n): p leads to n in the graph g
VARIABLES found,           \* the nodes found so far
          graph            \* the same all along

Init == found = {}

Find(n) ==
  /\ n \notin found
  /\ n \in Start \/ \E p \in found : Edge(graph, p, n)
  /\ found' = found \cup {n}
  /\ graph' = graph

Next == \E n \in Nodes : Find(n)

Spec == Init /\ [][Next]_<<found, graph>>
====
