-------------------------------- MODULE Dag --------------------------------
(***************************************************************************)
(* Pipelines of pkg/dag: the vertices of spec.go, the checks of Validate   *)
(* and, as a closed formula, the graphs that TopoOrder accepts.  Node ids  *)
(* are naturals ordered as the Go strings are; BlankId stands for an id    *)
(* that strings.TrimSpace reduces to "".  A command is abstracted to       *)
(* whether its argv is non-empty; cpus and numa_node matter only to        *)
(* pkg/topology, whose verdict on a node is a choice of the callers.       *)
(* TopoOrder.tla carries Kahn's algorithm itself and shows that it         *)
(* succeeds on exactly the graphs TopoOK describes.                        *)
(***************************************************************************)
EXTENDS Integers, Sequences

CONSTANT NodeId

ASSUME NodeIdAssumption == NodeId \subseteq Nat

BlankId == 0

Node == [id : NodeId, cmd : BOOLEAN, dependsOn : Seq(NodeId)]

Elems(s) == { s[i] : i \in DOMAIN s }

Deps(n) == Elems(n.dependsOn)

Ids(nodes) == { nodes[i].id : i \in DOMAIN nodes }

UniqueIds(nodes) ==
    \A i, j \in DOMAIN nodes : nodes[i].id = nodes[j].id => i = j

\* Every dependency names a vertex of the same list.
Resolved(nodes) == \A i \in DOMAIN nodes : Deps(nodes[i]) \subseteq Ids(nodes)

\* Every non-empty set of vertices has a member that depends on none of it.
Acyclic(nodes) ==
    \A S \in SUBSET Ids(nodes) :
        S # {} => \E i \in DOMAIN nodes :
                      nodes[i].id \in S /\ Deps(nodes[i]) \cap S = {}

\* The lists on which TopoOrder returns an order and no error.
TopoOK(nodes) == UniqueIds(nodes) /\ Resolved(nodes) /\ Acyclic(nodes)

\* What TopoOrder promises of the list it returns: the vertices, each after
\* all of its dependencies.
IsTopoOrder(order, nodes) ==
    /\ Len(order) = Len(nodes)
    /\ Elems(order) = Elems(nodes)
    /\ \A i \in DOMAIN order :
          Deps(order[i]) \subseteq { order[j].id : j \in 1..(i - 1) }

\* Validate: cycles are not among the things it looks for.
Validate(p) ==
    /\ p.named
    /\ \A i \in DOMAIN p.nodes : p.nodes[i].id # BlankId /\ p.nodes[i].cmd
    /\ UniqueIds(p.nodes)
    /\ Resolved(p.nodes)
=============================================================================
