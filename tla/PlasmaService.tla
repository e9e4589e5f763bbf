--------------------------- MODULE PlasmaService ---------------------------
(***************************************************************************)
(* What an executor of a graph promises, without sockets, goroutines,      *)
(* queues or timers: a graph that only grows, whose vertices are executed  *)
(* one at a time, each at most once, each after all of its dependencies,   *)
(* until the executor goes down.  A vertex may still be added to one that  *)
(* is down; it is never executed.  The Plasma coordinator implements it    *)
(* for a graph that its clients extend, and Runner.Run for the graph of a  *)
(* pipeline file.                                                          *)
(***************************************************************************)
EXTENDS PlasmaGraph

VARIABLES nodes, completed, running, up

vars == <<nodes, completed, running, up>>

Init ==
    /\ nodes \in Seq(Node)
    /\ UniqueIds(nodes) /\ Resolved(nodes)
    /\ completed = {}
    /\ running = {}
    /\ up = TRUE

\* Vertices are added all together, and leave an acyclic graph.
Grow ==
    /\ nodes' \in Seq(Node)
    /\ Len(nodes) <= Len(nodes')
    /\ \A i \in DOMAIN nodes : nodes'[i] = nodes[i]
    /\ TopoOK(nodes')
    /\ UNCHANGED <<completed, running, up>>

Start ==
    /\ up
    /\ running = {}
    /\ \E n \in Ready(nodes, completed, running) : running' = {n.id}
    /\ UNCHANGED <<nodes, completed, up>>

Complete ==
    /\ up
    /\ running # {}
    /\ completed' = completed \cup running
    /\ running' = {}
    /\ UNCHANGED <<nodes, up>>

\* The executor stops, giving up what it is executing.
Stop ==
    /\ up
    /\ up' = FALSE
    /\ running' = {}
    /\ UNCHANGED <<nodes, completed>>

Next == Grow \/ Start \/ Complete \/ Stop

Spec == Init /\ [][Next]_vars
=============================================================================
