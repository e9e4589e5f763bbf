----------------------------- MODULE TopoOrder -----------------------------
(***************************************************************************)
(* Kahn's algorithm as pkg/dag/graph.go writes it: counts and edge lists   *)
(* with one entry per dependency, ids that may repeat or be unknown, and a *)
(* first queue in the random order of a Go map iteration.  AppendDAG calls *)
(* it on lists that no Validate has seen; Runner.Run, whose module extends *)
(* this one, on the list of a pipeline file.                               *)
(***************************************************************************)
EXTENDS Dag, FiniteSets, SequencesExt

CONSTANT Inputs   \* the node lists it may be called with

ASSUME InputsAssumption == Inputs \subseteq Seq(Node)

VARIABLES nodes, inDeg, q, ordered,
          succs,    \* the entries of edges[id] that the inner loop has not reached
          verdict   \* "none" until TopoOrder returns an order or an error

topoVars == <<nodes, inDeg, q, ordered, succs, verdict>>

\* byID[id]: the last vertex with that id wins.
ByID(ns, id) ==
    ns[CHOOSE i \in DOMAIN ns :
           ns[i].id = id /\ \A j \in DOMAIN ns : ns[j].id = id => j <= i]

\* One increment for every entry of every dependsOn list of the id.
Entries(ns) == UNION { { <<i, k>> : k \in DOMAIN ns[i].dependsOn } : i \in DOMAIN ns }

\* Mutant: an id is counted once, however many dependencies it lists.
InDegreeOnce(ns) ==
    [id \in Ids(ns) |-> IF \E e \in Entries(ns) : ns[e[1]].id = id THEN 1 ELSE 0]

InDegree(ns) ==
    [id \in Ids(ns) |-> Cardinality({ e \in Entries(ns) : ns[e[1]].id = id })]

\* edges[d]: an entry for every time some vertex lists d ...
Edges(ns, d) == { e \in Entries(ns) : ns[e[1]].dependsOn[e[2]] = d }

\* ... in the order of the lists.
First(es) ==
    CHOOSE e \in es : \A o \in es : e[1] < o[1] \/ (e[1] = o[1] /\ e[2] <= o[2])

TopoInit ==
    /\ nodes \in Inputs
    /\ inDeg = InDegree(nodes)
    /\ q \in SetToSeqs({ id \in Ids(nodes) : inDeg[id] = 0 })
    /\ ordered = << >>
    /\ succs = {}
    /\ verdict = "none"

Dequeue ==
    /\ verdict = "none" /\ succs = {}
    /\ q # << >>
    /\ q' = Tail(q)
    /\ ordered' = Append(ordered, ByID(nodes, Head(q)))
    /\ succs' = Edges(nodes, Head(q))
    /\ UNCHANGED <<nodes, inDeg, verdict>>

\* The body of "for _, succ := range edges[id]".
Relax ==
    /\ succs # {}
    /\ LET succ == nodes[First(succs)[1]].id
       IN  /\ inDeg' = [inDeg EXCEPT ![succ] = @ - 1]
           /\ q' = IF inDeg'[succ] = 0 THEN Append(q, succ) ELSE q
    /\ succs' = succs \ {First(succs)}
    /\ UNCHANGED <<nodes, ordered, verdict>>

\* Mutant: the order is compared with the distinct ids.
TopoReturnDistinct ==
    /\ verdict = "none" /\ succs = {}
    /\ q = << >>
    /\ verdict' = IF Len(ordered) # Cardinality(Ids(nodes)) THEN "error" ELSE "ok"
    /\ UNCHANGED <<nodes, inDeg, q, ordered, succs>>

TopoReturn ==
    /\ verdict = "none" /\ succs = {}
    /\ q = << >>
    /\ verdict' = IF Len(ordered) # Len(nodes) THEN "error" ELSE "ok"
    /\ UNCHANGED <<nodes, inDeg, q, ordered, succs>>

-----------------------------------------------------------------------------
\* The order returned lists every vertex after its dependencies, whichever
\* way the map iteration filled the first queue (graph.go:26-45).
OrderIsTopological == verdict = "ok" => IsTopoOrder(ordered, nodes)

\* TopoOrder returns an error on exactly the lists with a repeated id, an
\* unknown dependency or a cycle: TopoOK, which AppendDAG's model relies on,
\* is what the length check of graph.go:47 decides.
ErrorMeansNotTopoOK ==
    /\ verdict = "ok" => TopoOK(nodes)
    /\ verdict = "error" => ~TopoOK(nodes)
=============================================================================
