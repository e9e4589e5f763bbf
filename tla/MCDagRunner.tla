---------------------------- MODULE MCDagRunner ----------------------------
(***************************************************************************)
(* TopoOrder on every list of at most three vertices over three ids, with  *)
(* at most two entries in every dependency list; DagRunner goes on with    *)
(* pipelines that are a chain, a fork, a join, independent vertices and a  *)
(* cycle, which Validate lets pass.                                        *)
(***************************************************************************)
EXTENDS DagRunner

MaxNodes == 3
MaxDeps  == 2

SeqsUpTo(S, n) == UNION { [1..k -> S] : k \in 0..n }

MCInputs ==
    SeqsUpTo([id : NodeId, cmd : {TRUE}, dependsOn : SeqsUpTo(NodeId, MaxDeps)],
             MaxNodes)

N(i, deps) == [id |-> i, cmd |-> TRUE, dependsOn |-> deps]

MCPipelines == { << >>,
                 <<N(1, << >>), N(2, <<1>>), N(3, <<2>>)>>,
                 <<N(1, <<2, 2>>), N(2, << >>), N(3, <<2>>)>>,
                 <<N(1, << >>), N(2, <<3, 1>>), N(3, << >>)>>,
                 <<N(3, << >>), N(2, << >>), N(1, << >>)>>,
                 <<N(1, << >>), N(2, <<3>>), N(3, <<2>>)>> }
=============================================================================
