---------------------------- MODULE PlasmaGraph ----------------------------
(***************************************************************************)
(* The dynamic graph of pkg/plasma: graph.go, and the conversion that a    *)
(* branch message undergoes in encoding/json.                              *)
(***************************************************************************)
EXTENDS Dag

\* A vertex as a client writes it in a branch message.  "key" is the JSON
\* key under which it lists the dependencies: the YAML spelling, or one that
\* equals the Go field name up to case.
DepKey == {"depends_on", "DependsOn"}
WireNode == [id : NodeId, cmd : BOOLEAN, key : DepKey, dependsOn : Seq(NodeId)]

\* json.Unmarshal into dag.Node.  The struct has yaml tags only, so a JSON
\* key reaches a field only when it equals the field's name up to case: the
\* list under "depends_on" is dropped without an error.
DecodeNode(w) ==
    [id |-> w.id, cmd |-> w.cmd,
     dependsOn |-> IF w.key = "DependsOn" THEN w.dependsOn ELSE << >>]

DecodeNodes(ws) == [i \in DOMAIN ws |-> DecodeNode(ws[i])]

\* Mutant: the merged list is not ordered before it is accepted.
AppendUnordered(existing, add) ==
    \A i \in DOMAIN add :
        /\ add[i].id \notin Ids(existing) /\ add[i].cmd
        /\ Deps(add[i]) \subseteq Ids(existing) \cup Ids(add)

\* AppendDAG returns no error.  Two new vertices with one id pass the first
\* loops and are refused by TopoOrder.
AppendOK(existing, add) ==
    add # << >> =>
        /\ \A i \in DOMAIN add : add[i].id \notin Ids(existing)
        /\ \A i \in DOMAIN add :
              add[i].cmd /\ Deps(add[i]) \subseteq Ids(existing) \cup Ids(add)
        /\ TopoOK(existing \o add)

AppendDAG(existing, add) == existing \o add

\* Mutant: a vertex is ready before its dependencies have completed.
ReadyIgnoringDeps(nodes, completed, running) ==
    { n \in Elems(nodes) : n.id \notin completed /\ n.id \notin running }

\* The candidates that PickRunnable collects ...
Ready(nodes, completed, running) ==
    { n \in Elems(nodes) : /\ n.id \notin completed
                           /\ n.id \notin running
                           /\ Deps(n) \subseteq completed }

\* ... and the one that it returns: the smallest id comes first.
PickRunnable(nodes, completed, running) ==
    { n \in Ready(nodes, completed, running) :
          \A m \in Ready(nodes, completed, running) : n.id <= m.id }
=============================================================================
