------------------------ MODULE MCPlasmaCoordinator ------------------------
(***************************************************************************)
(* Instances of PlasmaCoordinator for TLC.                                 *)
(***************************************************************************)
EXTENDS PlasmaCoordinator, TLC

MCSymmetry == Permutations(Conn) \cup Permutations(Samples)

N(i, deps) == [id |-> i, cmd |-> TRUE, dependsOn |-> deps]
W(i, deps) == [id |-> i, cmd |-> TRUE, key |-> "DependsOn", dependsOn |-> deps]
Y(i, deps) == [id |-> i, cmd |-> TRUE, key |-> "depends_on", dependsOn |-> deps]

P(ns) == [named |-> TRUE, nodes |-> ns]

\* A chain, an empty graph, a cycle, which Validate does not see, and files
\* that LoadFile refuses (no name, a blank id).
MCPipelines == { P(<<N(2, << >>), N(3, <<2>>)>>), P(<< >>),
                 P(<<N(2, <<3>>), N(3, <<2>>)>>),
                 [named |-> FALSE, nodes |-> << >>], P(<<N(0, << >>)>>) }

MCOnePipeline == { P(<<N(2, << >>)>>) }

\* Branches that succeed, collide, dangle, repeat an id or close a cycle.
MCBranches == { << >>, <<W(1, <<2>>)>>, <<W(1, << >>), W(4, <<1>>)>>,
                <<W(4, << >>)>>, <<W(4, <<1, 4>>)>>, <<W(1, << >>), W(1, << >>)>>,
                <<[W(4, << >>) EXCEPT !.cmd = FALSE]>> }

MCFewBranches == { <<W(1, <<2>>)>>, <<W(4, << >>)>>, << >> }

\* The vertex of examples/plasma/worker_branch.py, with the key it uses.
MCYamlBranches == { <<Y(1, <<2>>)>> }
=============================================================================
