---------------------- MODULE PlasmaCoordinatorProofs ----------------------
(***************************************************************************)
(* Proofs about PlasmaCoordinator, for every set of node ids, pipelines,   *)
(* branch messages, samples and connections, every IdleExit and any number *)
(* of requests.                                                            *)
(***************************************************************************)
EXTENDS PlasmaCoordinator, TLAPS

-----------------------------------------------------------------------------
(* Sequences of vertices.                                                  *)

\* The elements of a concatenation, as AppendDAG builds it.
LEMMA ElemsConcat ==
    ASSUME NEW S, NEW s \in Seq(S), NEW t \in Seq(S)
    PROVE  Elems(s \o t) = Elems(s) \cup Elems(t)
<1>1. Elems(s \o t) \subseteq Elems(s) \cup Elems(t)
  BY DEF Elems
<1>2. ASSUME NEW i \in DOMAIN s
      PROVE  i \in DOMAIN (s \o t) /\ (s \o t)[i] = s[i]
  OBVIOUS
<1>3. ASSUME NEW i \in DOMAIN t
      PROVE  Len(s) + i \in DOMAIN (s \o t) /\ (s \o t)[Len(s) + i] = t[i]
  OBVIOUS
<1>4. Elems(s) \subseteq Elems(s \o t)
  BY <1>2 DEF Elems
<1>5. Elems(t) \subseteq Elems(s \o t)
  BY <1>3 DEF Elems
<1> QED
  BY <1>1, <1>4, <1>5

\* The elements after an append, as the sample log grows.
LEMMA ElemsAppend ==
    ASSUME NEW S, NEW s \in Seq(S), NEW x \in S
    PROVE  Elems(Append(s, x)) = Elems(s) \cup {x}
<1>1. DOMAIN Append(s, x) = DOMAIN s \cup {Len(s) + 1}
  OBVIOUS
<1>2. \A i \in DOMAIN s : Append(s, x)[i] = s[i]
  OBVIOUS
<1>3. Append(s, x)[Len(s) + 1] = x
  OBVIOUS
<1> QED
  BY <1>1, <1>2, <1>3, Zenon DEF Elems

\* The ids of a list are the ids of its elements.
LEMMA IdsOfElems ==
    ASSUME NEW s
    PROVE  Ids(s) = { n.id : n \in Elems(s) }
BY DEF Ids, Elems

\* json.Unmarshal yields well-typed vertices.
LEMMA DecodeType ==
    ASSUME NEW ws \in Seq(WireNode)
    PROVE  /\ DecodeNodes(ws) \in Seq(Node)
           /\ Ids(DecodeNodes(ws)) = Ids(ws)
<1>1. ASSUME NEW w \in WireNode PROVE DecodeNode(w) \in Node /\ DecodeNode(w).id = w.id
  <2>1. w.id \in NodeId /\ w.cmd \in BOOLEAN /\ w.dependsOn \in Seq(NodeId)
    BY DEF WireNode
  <2>2. << >> \in Seq(NodeId)
    OBVIOUS
  <2> QED
    BY <2>1, <2>2 DEF DecodeNode, Node
<1>2. DOMAIN DecodeNodes(ws) = DOMAIN ws /\ \A i \in DOMAIN ws : DecodeNodes(ws)[i] = DecodeNode(ws[i])
  BY DEF DecodeNodes
<1>3. \A i \in DOMAIN ws : ws[i] \in WireNode
  OBVIOUS
<1>4. DecodeNodes(ws) \in [1..Len(ws) -> Node]
  BY <1>1, <1>3 DEF DecodeNodes
<1>5. DecodeNodes(ws) \in Seq(Node)
  BY <1>4
<1> QED
  BY <1>1, <1>2, <1>3, <1>5 DEF Ids

\* PickRunnable's candidates: in a graph that TopoOrder accepts, some vertex is
\* ready as long as some vertex is not completed and nothing is running.
LEMMA NoStall ==
    ASSUME NEW ns \in Seq(Node), NEW done, TopoOK(ns),
           done \subseteq Ids(ns), done # Ids(ns)
    PROVE  Ready(ns, done, {}) # {}
<1> DEFINE S == Ids(ns) \ done
<1>1. PICK i \in DOMAIN ns : ns[i].id \in S /\ Deps(ns[i]) \cap S = {}
  <2>1. S \in SUBSET Ids(ns) /\ S # {}
    OBVIOUS
  <2> QED
    BY <2>1 DEF TopoOK, Acyclic
<1>2. Deps(ns[i]) \subseteq done
  BY <1>1 DEF TopoOK, Resolved
<1>3. ns[i] \in Elems(ns)
  BY DEF Elems
<1> QED
  BY <1>1, <1>2, <1>3 DEF Ready
-----------------------------------------------------------------------------
(* Types.                                                                  *)

\* A handler serves a request of the kind that its place in the code is for
\* (the cases of handleConn's switch).
HandlerReq ==
    \A c \in Conn : /\ hpc[c] = "append" => req[c].op = "sample"
                    /\ hpc[c] = "merge" => req[c].op = "branch"
                    /\ hpc[c] = "open" => req[c].op = "request_fd"

\* Past PickRunnable the loop holds a vertex.
HoldsNode == pc \in {"mark", "launch", "exec", "settle"} => next \in Node

Typed == TypeOK /\ HandlerReq /\ HoldsNode

\* PickRunnable returns one of the vertices.
LEMMA ReadyType ==
    ASSUME NEW ns \in Seq(Node), NEW done, NEW run
    PROVE  /\ Ready(ns, done, run) \subseteq Elems(ns)
           /\ PickRunnable(ns, done, run) \subseteq Ready(ns, done, run)
           /\ Elems(ns) \subseteq Node
BY DEF Ready, PickRunnable, Elems

\* What the fields of a request hold (the structs of msgs.go).
LEMMA RequestType ==
    ASSUME NEW m \in Request
    PROVE  /\ m.op = "sample" => m.sample \in Samples
           /\ m.op = "branch" => m.nodes \in Seq(WireNode)
           /\ Dispatch(m) \in HandlerPC
           /\ Dispatch(m) = "append" => m.op = "sample"
           /\ Dispatch(m) = "merge" => m.op = "branch"
           /\ Dispatch(m) = "open" => m.op = "request_fd"
           /\ Dispatch(m) \notin {"bump", "wake"}
BY BranchesAssumption DEF Request, Hello, Malformed, Empty, Dispatch, HandlerPC

\* Run builds a well-typed coordinator from any pipeline that LoadFile accepts.
LEMMA InitTyped == Init => Typed
<1> SUFFICES ASSUME Init PROVE Typed
  OBVIOUS
<1>1. nodes \in Seq(Node)
  BY PipelinesAssumption DEF Init
<1>2. req \in [Conn -> Request] /\ hpc \in [Conn -> HandlerPC]
  BY DEF Init, Request, HandlerPC
<1>3. idle \in 0..IdleExit /\ sent \in Nat
  BY IdleExitAssumption DEF Init
<1>4. HandlerReq
  BY DEF HandlerReq, Init
<1>5. samples \in Seq(Samples) /\ dumped \in Seq(Samples)
  BY DEF Init
<1>6. pc \in LoopPC /\ err \in Result /\ next \in Node \cup {NoNode}
  BY DEF Init, LoopPC, Result
<1>7. /\ idleAnnounced \in BOOLEAN /\ wake \in BOOLEAN /\ segPath \in BOOLEAN
      /\ listening \in BOOLEAN /\ cancelled \in BOOLEAN
  BY Zenon DEF Init
<1>8. /\ completed \subseteq NodeId /\ running \subseteq NodeId
      /\ asked \subseteq WireNode /\ acked \subseteq Samples
  BY DEF Init
<1> QED
  BY <1>1, <1>2, <1>3, <1>4, <1>5, <1>6, <1>7, <1>8 DEF Typed, TypeOK, HoldsNode, Init

\* Every step of the loop, of a handler and of the environment keeps the types.
LEMMA NextTyped == Typed /\ [Next]_vars => Typed'
<1> SUFFICES ASSUME Typed, [Next]_vars PROVE Typed'
  OBVIOUS
<1> USE DEF Typed, TypeOK, HandlerReq, HoldsNode, graphVars, loopVars, connVars, histVars,
            Goto, HGoto, Return, FillWake, Unmark, SettleSuccess, SettleFailure,
            RefuseBranch
<1>1. CASE CheckCtx
  BY <1>1 DEF CheckCtx, LoopPC, Teardown, Result
<1>2. CASE Pick
  BY <1>2, ReadyType DEF Pick, LoopPC, Teardown, Result
<1>3. CASE MarkRunning
  BY <1>3 DEF MarkRunning, Node, LoopPC, Teardown, Result
<1>4. CASE Launch
  BY <1>4 DEF Launch, LoopPC, Teardown, Result
<1>5. CASE Finish
  BY <1>5, IdleExitAssumption DEF Finish, LoopPC, Teardown, Result
<1>6. CASE Settle
  BY <1>6 DEF Settle, Node, LoopPC, Teardown, Result
<1>7. CASE SignalSelf
  BY <1>7 DEF SignalSelf, LoopPC, Teardown, Result
<1>8. CASE Announce
  BY <1>8 DEF Announce, LoopPC, Teardown, Result
<1>9. CASE SelectCtx
  BY <1>9 DEF SelectCtx, LoopPC, Teardown, Result
<1>10. CASE SelectWake
  BY <1>10 DEF SelectWake, LoopPC, Teardown, Result
<1>11. CASE SelectTimer
  BY <1>11 DEF SelectTimer, LoopPC, Teardown, Result
<1>12. CASE IdleTest
  BY <1>12 DEF IdleTest, LoopPC, Teardown, Result
<1>13. CASE CloseListener
  BY <1>13 DEF CloseListener, LoopPC, Teardown, Result
<1>14. CASE DumpSamples
  BY <1>14 DEF DumpSamples, LoopPC, Teardown, Result
<1>15. CASE RemoveSegment
  BY <1>15 DEF RemoveSegment, LoopPC, Teardown, Result
<1>16. ASSUME NEW c \in Conn, AppendSample(c) PROVE Typed'
  BY <1>16, RequestType DEF AppendSample, HandlerPC
<1>17. ASSUME NEW c \in Conn, MergeBranch(c) PROVE Typed'
  <2>1. req[c].nodes \in Seq(WireNode)
    BY <1>17, RequestType DEF MergeBranch
  <2>2. DecodeNodes(req[c].nodes) \in Seq(Node)
    BY <2>1, DecodeType
  <2>3. nodes' \in Seq(Node)
    <3>1. AppendDAG(nodes, DecodeNodes(req[c].nodes)) \in Seq(Node)
      BY <2>2 DEF AppendDAG
    <3> QED
      BY <1>17, <3>1 DEF MergeBranch
  <2>4. asked' \subseteq WireNode
    BY <1>17, <2>1 DEF MergeBranch, Elems
  <2>5. hpc' \in [Conn -> HandlerPC] /\ idleAnnounced' \in BOOLEAN
    BY <1>17 DEF MergeBranch, HandlerPC
  <2>6. HandlerReq'
    BY <1>17 DEF MergeBranch
  <2> QED
    BY <1>17, <2>3, <2>4, <2>5, <2>6 DEF MergeBranch
<1>18. ASSUME NEW c \in Conn, OpenFD(c) PROVE Typed'
  BY <1>18 DEF OpenFD, HandlerPC
<1>19. ASSUME NEW c \in Conn, BumpActivity(c) PROVE Typed'
  BY <1>19, IdleExitAssumption DEF BumpActivity, HandlerPC
<1>20. ASSUME NEW c \in Conn, SignalWake(c) PROVE Typed'
  BY <1>20 DEF SignalWake, HandlerPC
<1>21. ASSUME NEW c \in Conn, Reply(c) PROVE Typed'
  BY <1>21, RequestType DEF Reply, HandlerPC
<1>22. ASSUME NEW c \in Conn, Accept(c) PROVE Typed'
  BY <1>22 DEF Accept, HandlerPC
<1>23. ASSUME NEW c \in Conn, Hangup(c) PROVE Typed'
  BY <1>23 DEF Hangup, HandlerPC
<1>24. ASSUME NEW c \in Conn, NEW m \in Request, ReadRequest(c, m) PROVE Typed'
  BY <1>24, RequestType DEF ReadRequest
<1>25. CASE Tick
  BY <1>25, IdleExitAssumption DEF Tick
<1>26. CASE Cancel
  BY <1>26 DEF Cancel
<1>27. CASE UNCHANGED vars
  BY <1>27 DEF vars
<1> QED
  BY <1>1, <1>2, <1>3, <1>4, <1>5, <1>6, <1>7, <1>8, <1>9, <1>10, <1>11, <1>12, <1>13, <1>14, <1>15, <1>16, <1>17, <1>18, <1>19, <1>20, <1>21, <1>22, <1>23, <1>24, <1>25, <1>26, <1>27
     DEF Next, LoopStep, HandlerStep, ClientStep

\* The type invariant of the coordinator, for every instance.
THEOREM Typing == Spec => []TypeOK
<1>1. Spec => []Typed
  BY InitTyped, NextTyped, PTL DEF Spec
<1>2. Typed => TypeOK
  BY DEF Typed
<1> QED
  BY <1>1, <1>2, PTL

-----------------------------------------------------------------------------
(* The graph and the loop.                                                 *)

\* The vertex the loop holds has not completed.
NextFresh == pc \in {"mark", "launch", "exec", "settle"} => next.id \notin completed

\* The inductive strengthening: what PickRunnable established stays true while
\* the loop is outside its critical sections, because only the loop changes
\* completed and running, and branches only append vertices with new ids.
GraphInv == RunningOne /\ DepsRespected /\ GraphWellFormed /\ NextFresh

\* A validated pipeline is a well-formed graph with nothing completed.
LEMMA InitGraphInv == Init => GraphInv
<1> SUFFICES ASSUME Init PROVE GraphInv
  OBVIOUS
<1>1. GraphWellFormed
  BY DEF Init, GraphWellFormed, Validate
<1> QED
  BY <1>1 DEF Init, GraphInv, RunningOne, DepsRespected, NextFresh

\* An accepted branch keeps the graph well formed and every old vertex.
LEMMA MergeWellFormed ==
    ASSUME NEW ns \in Seq(Node), NEW add \in Seq(Node), AppendOK(ns, add),
           UniqueIds(ns), Resolved(ns)
    PROVE  /\ UniqueIds(AppendDAG(ns, add)) /\ Resolved(AppendDAG(ns, add))
           /\ Elems(AppendDAG(ns, add)) = Elems(ns) \cup Elems(add)
           /\ Ids(AppendDAG(ns, add)) = Ids(ns) \cup Ids(add)
           /\ \A n \in Elems(add) : n.id \notin Ids(ns)
<1>1. CASE add = << >>
  <2>1. AppendDAG(ns, add) = ns
    BY <1>1 DEF AppendDAG
  <2>2. Elems(add) = {} /\ Ids(add) = {}
    BY <1>1 DEF Elems, Ids
  <2> QED
    BY <2>1, <2>2
<1>2. CASE add # << >>
  <2>1. TopoOK(AppendDAG(ns, add)) /\ \A i \in DOMAIN add : add[i].id \notin Ids(ns)
    BY <1>2 DEF AppendOK, AppendDAG
  <2>2. Elems(AppendDAG(ns, add)) = Elems(ns) \cup Elems(add)
    BY ElemsConcat DEF AppendDAG
  <2>3. Ids(AppendDAG(ns, add)) = Ids(ns) \cup Ids(add)
    BY <2>2, IdsOfElems
  <2> QED
    BY <2>1, <2>2, <2>3 DEF TopoOK, Elems
<1> QED
  BY <1>1, <1>2

\* Picks, marks, settles and concurrent merges keep the graph invariants.
LEMMA NextGraphInv == Typed /\ GraphInv /\ [Next]_vars => GraphInv'
<1> SUFFICES ASSUME Typed, GraphInv, [Next]_vars PROVE GraphInv'
  OBVIOUS
<1> USE DEF GraphInv, RunningOne, DepsRespected, GraphWellFormed, NextFresh,
            graphVars, loopVars, connVars, histVars, Goto, HGoto, Return,
            FillWake, Unmark, SettleSuccess, SettleFailure, RefuseBranch
<1>1. CASE CheckCtx
  BY <1>1 DEF CheckCtx
<1>2. CASE Pick
  <2>1. CASE next' = next /\ pc' = "announce"
    BY <1>2, <2>1 DEF Pick
  <2>2. CASE next' \in PickRunnable(nodes, completed, running) /\ pc' = "mark"
    <3>1. next' \in Ready(nodes, completed, running)
      BY <2>2 DEF PickRunnable
    <3> QED
      BY <1>2, <2>2, <3>1 DEF Pick, Ready
  <2> QED
    BY <1>2, <2>1, <2>2 DEF Pick
<1>3. CASE MarkRunning
  BY <1>3 DEF MarkRunning
<1>4. CASE Launch
  BY <1>4 DEF Launch
<1>5. CASE Finish
  BY <1>5 DEF Finish
<1>6. CASE Settle
  <2>1. CASE err # "none"
    BY <1>6, <2>1 DEF Settle
  <2>2. CASE err = "none"
    <3>1. next \in Elems(nodes) /\ Deps(next) \subseteq completed
      BY <1>6 DEF Settle
    <3>2. \A i \in DOMAIN nodes : nodes[i].id = next.id => nodes[i] = next
      BY <3>1 DEF Elems, UniqueIds
    <3>3. next.id \in Ids(nodes)
      BY <3>1 DEF Elems, Ids
    <3> QED
      BY <1>6, <2>2, <3>1, <3>2, <3>3 DEF Settle
  <2> QED
    BY <2>1, <2>2
<1>7. CASE SignalSelf
  BY <1>7 DEF SignalSelf
<1>8. CASE Announce
  BY <1>8 DEF Announce
<1>9. CASE SelectCtx
  BY <1>9 DEF SelectCtx
<1>10. CASE SelectWake
  BY <1>10 DEF SelectWake
<1>11. CASE SelectTimer
  BY <1>11 DEF SelectTimer
<1>12. CASE IdleTest
  BY <1>12 DEF IdleTest
<1>13. CASE CloseListener
  BY <1>13 DEF CloseListener
<1>14. CASE DumpSamples
  BY <1>14 DEF DumpSamples
<1>15. CASE RemoveSegment
  BY <1>15 DEF RemoveSegment
<1>16. ASSUME NEW c \in Conn, AppendSample(c) PROVE GraphInv'
  BY <1>16 DEF AppendSample
<1>17. ASSUME NEW c \in Conn, MergeBranch(c) PROVE GraphInv'
  <2> DEFINE add == DecodeNodes(req[c].nodes)
  <2>1. CASE ~AppendOK(nodes, add)
    BY <1>17, <2>1 DEF MergeBranch
  <2>2. CASE AppendOK(nodes, add)
    <3>1. add \in Seq(Node) /\ nodes \in Seq(Node)
      BY <1>17, RequestType, DecodeType DEF MergeBranch, Typed, TypeOK, HandlerReq
    <3>2. nodes' = AppendDAG(nodes, add)
      BY <1>17, <2>2 DEF MergeBranch
    <3>3. UNCHANGED <<completed, running, pc, next>>
      BY <1>17 DEF MergeBranch
    <3>4. /\ UniqueIds(nodes') /\ Resolved(nodes')
          /\ Elems(nodes') = Elems(nodes) \cup Elems(add)
          /\ Ids(nodes') = Ids(nodes) \cup Ids(add)
          /\ \A n \in Elems(add) : n.id \notin Ids(nodes)
      BY <2>2, <3>1, <3>2, MergeWellFormed
    <3>5. ASSUME NEW i \in DOMAIN nodes', nodes'[i].id \in completed
          PROVE  Deps(nodes'[i]) \subseteq completed
      <4>1. nodes'[i] \in Elems(nodes)
        BY <3>4, <3>5 DEF Elems
      <4> QED
        BY <4>1, <3>5 DEF Elems
    <3> QED
      BY <3>3, <3>4, <3>5
  <2> QED
    BY <2>1, <2>2
<1>18. ASSUME NEW c \in Conn, OpenFD(c) PROVE GraphInv'
  BY <1>18 DEF OpenFD
<1>19. ASSUME NEW c \in Conn, BumpActivity(c) PROVE GraphInv'
  BY <1>19 DEF BumpActivity
<1>20. ASSUME NEW c \in Conn, SignalWake(c) PROVE GraphInv'
  BY <1>20 DEF SignalWake
<1>21. ASSUME NEW c \in Conn, Reply(c) PROVE GraphInv'
  BY <1>21 DEF Reply
<1>22. ASSUME NEW c \in Conn, Accept(c) PROVE GraphInv'
  BY <1>22 DEF Accept
<1>23. ASSUME NEW c \in Conn, Hangup(c) PROVE GraphInv'
  BY <1>23 DEF Hangup
<1>24. ASSUME NEW c \in Conn, NEW m \in Request, ReadRequest(c, m) PROVE GraphInv'
  BY <1>24 DEF ReadRequest
<1>25. CASE Tick
  BY <1>25 DEF Tick
<1>26. CASE Cancel
  BY <1>26 DEF Cancel
<1>27. CASE UNCHANGED vars
  BY <1>27 DEF vars
<1> QED
  BY <1>1, <1>2, <1>3, <1>4, <1>5, <1>6, <1>7, <1>8, <1>9, <1>10, <1>11, <1>12, <1>13, <1>14, <1>15, <1>16, <1>17, <1>18, <1>19, <1>20, <1>21, <1>22, <1>23, <1>24, <1>25, <1>26, <1>27
     DEF Next, LoopStep, HandlerStep, ClientStep

\* The strengthened invariant of the graph holds in every state.
LEMMA GraphInductive == Spec => []GraphInv
<1>1. Init => Typed /\ GraphInv
  BY InitTyped, InitGraphInv
<1>2. Typed /\ GraphInv /\ [Next]_vars => (Typed /\ GraphInv)'
  BY NextTyped, NextGraphInv
<1> QED
  BY <1>1, <1>2, PTL DEF Spec

\* One vertex is marked running at a time, and it is the one the loop holds,
\* however many handlers read and merge meanwhile.
THEOREM RunningSafety == Spec => []RunningOne
<1>1. GraphInv => RunningOne
  BY DEF GraphInv
<1> QED
  BY <1>1, GraphInductive, PTL

\* A vertex runs after its dependencies, those of merged branches included.
THEOREM DependencySafety == Spec => []DepsRespected
<1>1. GraphInv => DepsRespected
  BY DEF GraphInv
<1> QED
  BY <1>1, GraphInductive, PTL

\* Any number of concurrent branches leaves the ids unique and every
\* dependency resolved.
THEOREM GraphSafety == Spec => []GraphWellFormed
<1>1. GraphInv => GraphWellFormed
  BY DEF GraphInv
<1> QED
  BY <1>1, GraphInductive, PTL

-----------------------------------------------------------------------------
(* Wake-ups and idle shutdown.                                             *)

\* A vertex becomes ready behind the loop's back only through MergeBranch, and
\* the merging handler then owes a signalWake.
LEMMA NextNoLostWakeup ==
    Typed /\ GraphInv /\ NoLostWakeup /\ [Next]_vars => NoLostWakeup'
<1> SUFFICES ASSUME Typed, GraphInv, NoLostWakeup, [Next]_vars PROVE NoLostWakeup'
  OBVIOUS
<1> USE DEF NoLostWakeup, MidBranch, graphVars, loopVars, connVars, histVars,
            Goto, HGoto, Return, FillWake, Unmark, SettleSuccess, SettleFailure,
            RefuseBranch
<1>1. CASE CheckCtx
  BY <1>1 DEF CheckCtx
<1>2. CASE Pick
  BY <1>2 DEF Pick
<1>3. CASE MarkRunning
  BY <1>3 DEF MarkRunning
<1>4. CASE Launch
  BY <1>4 DEF Launch
<1>5. CASE Finish
  BY <1>5 DEF Finish
<1>6. CASE Settle
  BY <1>6 DEF Settle
<1>7. CASE SignalSelf
  BY <1>7 DEF SignalSelf
<1>8. CASE Announce
  BY <1>8 DEF Announce
<1>9. CASE SelectCtx
  BY <1>9 DEF SelectCtx
<1>10. CASE SelectWake
  BY <1>10 DEF SelectWake
<1>11. CASE SelectTimer
  BY <1>11 DEF SelectTimer
<1>12. CASE IdleTest
  BY <1>12 DEF IdleTest
<1>13. CASE CloseListener
  BY <1>13 DEF CloseListener
<1>14. CASE DumpSamples
  BY <1>14 DEF DumpSamples
<1>15. CASE RemoveSegment
  BY <1>15 DEF RemoveSegment
<1>16. ASSUME NEW c \in Conn, AppendSample(c) PROVE NoLostWakeup'
  BY <1>16 DEF AppendSample
<1>17. ASSUME NEW c \in Conn, MergeBranch(c) PROVE NoLostWakeup'
  <2>1. hpc[c] = "merge" /\ req[c].op = "branch" /\ UNCHANGED <<wake, req, completed, running, pc>>
    BY <1>17 DEF MergeBranch, Typed, HandlerReq
  <2>2. CASE hpc' = [hpc EXCEPT ![c] = "bump"]
    BY <2>1, <2>2 DEF Typed, TypeOK
  <2>3. CASE hpc' = [hpc EXCEPT ![c] = "error"] /\ UNCHANGED nodes
    BY <2>1, <2>3 DEF Typed, TypeOK
  <2> QED
    BY <1>17, <2>2, <2>3 DEF MergeBranch
<1>18. ASSUME NEW c \in Conn, OpenFD(c) PROVE NoLostWakeup'
  <2>1. UNCHANGED <<nodes, completed, running, pc, wake, req>>
    BY <1>18 DEF OpenFD
  <2>2. hpc[c] = "open" /\ \A d \in Conn \ {c} : hpc'[d] = hpc[d]
    BY <1>18 DEF OpenFD, Typed, TypeOK
  <2> QED
    BY <2>1, <2>2
<1>19. ASSUME NEW c \in Conn, BumpActivity(c) PROVE NoLostWakeup'
  BY <1>19 DEF BumpActivity
<1>20. ASSUME NEW c \in Conn, SignalWake(c) PROVE NoLostWakeup'
  BY <1>20 DEF SignalWake
<1>21. ASSUME NEW c \in Conn, Reply(c) PROVE NoLostWakeup'
  BY <1>21 DEF Reply
<1>22. ASSUME NEW c \in Conn, Accept(c) PROVE NoLostWakeup'
  BY <1>22 DEF Accept
<1>23. ASSUME NEW c \in Conn, Hangup(c) PROVE NoLostWakeup'
  BY <1>23 DEF Hangup
<1>24. ASSUME NEW c \in Conn, NEW m \in Request, ReadRequest(c, m) PROVE NoLostWakeup'
  BY <1>24 DEF ReadRequest
<1>25. CASE Tick
  BY <1>25 DEF Tick
<1>26. CASE Cancel
  BY <1>26 DEF Cancel
<1>27. CASE UNCHANGED vars
  BY <1>27 DEF vars
<1> QED
  BY <1>1, <1>2, <1>3, <1>4, <1>5, <1>6, <1>7, <1>8, <1>9, <1>10, <1>11, <1>12, <1>13, <1>14, <1>15, <1>16, <1>17, <1>18, <1>19, <1>20, <1>21, <1>22, <1>23, <1>24, <1>25, <1>26, <1>27
     DEF Next, LoopStep, HandlerStep, ClientStep

\* No wake-up is lost, with any number of connections branching at once.
THEOREM WakeupSafety == Spec => []NoLostWakeup
<1>1. Init => Typed /\ GraphInv /\ NoLostWakeup
  BY InitTyped, InitGraphInv DEF Init, NoLostWakeup
<1>2. Typed /\ GraphInv /\ NoLostWakeup /\ [Next]_vars
        => (Typed /\ GraphInv /\ NoLostWakeup)'
  BY NextTyped, NextGraphInv, NextNoLostWakeup
<1> QED
  BY <1>1, <1>2, PTL DEF Spec

\* An idle shutdown abandons a vertex only while a branch is being merged, past
\* a token that the loop has not taken, or in a graph that TopoOrder would reject.
THEOREM IdleExitSafety == Spec => IdleExitClean
<1> DEFINE Clean == IdleReturn => \/ completed = Ids(nodes)
                                  \/ \E c \in Conn : MidBranch(c)
                                  \/ wake
                                  \/ ~TopoOK(nodes)
<1>1. Init => Typed /\ GraphInv /\ NoLostWakeup
  BY InitTyped, InitGraphInv DEF Init, NoLostWakeup
<1>2. Typed /\ GraphInv /\ NoLostWakeup /\ [Next]_vars
        => (Typed /\ GraphInv /\ NoLostWakeup)'
  BY NextTyped, NextGraphInv, NextNoLostWakeup
<1>3. Typed /\ GraphInv /\ NoLostWakeup => Clean
  <2> SUFFICES ASSUME Typed, GraphInv, NoLostWakeup, IdleReturn, TopoOK(nodes),
                      completed # Ids(nodes), ~wake
               PROVE  \E c \in Conn : MidBranch(c)
    OBVIOUS
  <2>1. pc = "idletest" /\ running = {}
    BY DEF IdleReturn, GraphInv, RunningOne
  <2>2. Ready(nodes, completed, running) # {}
    BY <2>1, NoStall DEF GraphInv, GraphWellFormed, Typed, TypeOK
  <2> QED
    BY <2>1, <2>2 DEF NoLostWakeup
<1>4. Typed /\ GraphInv /\ NoLostWakeup /\ [Next]_vars => [Clean]_vars
  BY <1>3
<1> QED
  BY <1>1, <1>2, <1>4, PTL DEF Spec, IdleExitClean

-----------------------------------------------------------------------------
(* Acknowledgements.                                                       *)

\* What a handler has done before it replies, and what the reply is worth.
\* Vertices and samples are only ever appended.
AckInv ==
    /\ \A c \in Conn : hpc[c] \in {"bump", "wake", "ack"} =>
          /\ req[c].op = "branch" => Ids(req[c].nodes) \subseteq Ids(nodes)
          /\ req[c].op = "sample" => req[c].sample \in Elems(samples)
    /\ acked \subseteq Elems(samples)
    /\ pc \in {"rmseg", "returned"} => acked \subseteq Elems(dumped)

\* A handler appends or merges before it replies, and neither is undone.
LEMMA NextAckInv == Typed /\ GraphInv /\ AckInv /\ [Next]_vars => AckInv'
<1> SUFFICES ASSUME Typed, GraphInv, AckInv, [Next]_vars PROVE AckInv'
  OBVIOUS
<1> USE DEF AckInv, Typed, TypeOK, HandlerReq, graphVars, loopVars, connVars, histVars,
            Goto, HGoto, Return, FillWake, Unmark, SettleSuccess, SettleFailure,
            RefuseBranch
<1>1. CASE CheckCtx
  BY <1>1 DEF CheckCtx
<1>2. CASE Pick
  BY <1>2 DEF Pick
<1>3. CASE MarkRunning
  BY <1>3 DEF MarkRunning
<1>4. CASE Launch
  BY <1>4 DEF Launch
<1>5. CASE Finish
  BY <1>5 DEF Finish
<1>6. CASE Settle
  BY <1>6 DEF Settle
<1>7. CASE SignalSelf
  BY <1>7 DEF SignalSelf
<1>8. CASE Announce
  BY <1>8 DEF Announce
<1>9. CASE SelectCtx
  BY <1>9 DEF SelectCtx
<1>10. CASE SelectWake
  BY <1>10 DEF SelectWake
<1>11. CASE SelectTimer
  BY <1>11 DEF SelectTimer
<1>12. CASE IdleTest
  BY <1>12 DEF IdleTest
<1>13. CASE CloseListener
  BY <1>13 DEF CloseListener
<1>14. CASE DumpSamples
  BY <1>14 DEF DumpSamples
<1>15. CASE RemoveSegment
  BY <1>15 DEF RemoveSegment
<1>16. ASSUME NEW c \in Conn, AppendSample(c) PROVE AckInv'
  <2>1. req[c].op = "sample" /\ req[c].sample \in Samples
    BY <1>16, RequestType DEF AppendSample
  <2>2. Elems(samples') = Elems(samples) \cup {req[c].sample}
    BY <1>16, <2>1, ElemsAppend DEF AppendSample
  <2> QED
    BY <1>16, <2>1, <2>2 DEF AppendSample
<1>17. ASSUME NEW c \in Conn, MergeBranch(c) PROVE AckInv'
  <2> DEFINE add == DecodeNodes(req[c].nodes)
  <2>1. CASE ~AppendOK(nodes, add)
    BY <1>17, <2>1 DEF MergeBranch
  <2>2. CASE AppendOK(nodes, add)
    <3>1. req[c].op = "branch" /\ req[c].nodes \in Seq(WireNode) /\ hpc[c] = "merge"
      BY <1>17, RequestType DEF MergeBranch
    <3>2. add \in Seq(Node) /\ Ids(add) = Ids(req[c].nodes)
      BY <3>1, DecodeType
    <3>3. Ids(nodes') = Ids(nodes) \cup Ids(add)
      <4>1. nodes' = AppendDAG(nodes, add)
        BY <1>17, <2>2 DEF MergeBranch
      <4> QED
        BY <4>1, <2>2, <3>2, MergeWellFormed DEF GraphInv, GraphWellFormed
    <3>4. hpc' = [hpc EXCEPT ![c] = "bump"] /\ UNCHANGED <<req, samples, acked, pc, dumped>>
      BY <1>17, <2>2 DEF MergeBranch
    <3> QED
      BY <3>1, <3>2, <3>3, <3>4
  <2> QED
    BY <2>1, <2>2
<1>18. ASSUME NEW c \in Conn, OpenFD(c) PROVE AckInv'
  BY <1>18 DEF OpenFD
<1>19. ASSUME NEW c \in Conn, BumpActivity(c) PROVE AckInv'
  BY <1>19 DEF BumpActivity
<1>20. ASSUME NEW c \in Conn, SignalWake(c) PROVE AckInv'
  BY <1>20 DEF SignalWake
<1>21. ASSUME NEW c \in Conn, Reply(c) PROVE AckInv'
  BY <1>21 DEF Reply
<1>22. ASSUME NEW c \in Conn, Accept(c) PROVE AckInv'
  BY <1>22 DEF Accept
<1>23. ASSUME NEW c \in Conn, Hangup(c) PROVE AckInv'
  BY <1>23 DEF Hangup
<1>24. ASSUME NEW c \in Conn, NEW m \in Request, ReadRequest(c, m) PROVE AckInv'
  <2>1. Dispatch(m) \in {"bump", "wake", "ack"} => m.op = "hello"
    BY DEF Request, Hello, Malformed, Empty, Dispatch
  <2> QED
    BY <1>24, <2>1 DEF ReadRequest
<1>25. CASE Tick
  BY <1>25 DEF Tick
<1>26. CASE Cancel
  BY <1>26 DEF Cancel
<1>27. CASE UNCHANGED vars
  BY <1>27 DEF vars
<1> QED
  BY <1>1, <1>2, <1>3, <1>4, <1>5, <1>6, <1>7, <1>8, <1>9, <1>10, <1>11, <1>12, <1>13, <1>14, <1>15, <1>16, <1>17, <1>18, <1>19, <1>20, <1>21, <1>22, <1>23, <1>24, <1>25, <1>26, <1>27
     DEF Next, LoopStep, HandlerStep, ClientStep

\* What the handlers owe their clients, in every state.
LEMMA AckInductive == Spec => []AckInv
<1>1. Init => Typed /\ GraphInv /\ AckInv
  BY InitTyped, InitGraphInv DEF Init, AckInv
<1>2. Typed /\ GraphInv /\ AckInv /\ [Next]_vars => (Typed /\ GraphInv /\ AckInv)'
  BY NextTyped, NextGraphInv, NextAckInv
<1> QED
  BY <1>1, <1>2, PTL DEF Spec

\* A sample acknowledged before the dump is in it.
THEOREM SampleSafety == Spec => []AckedSamplesDumped
<1>1. AckInv => AckedSamplesDumped
  BY DEF AckInv, AckedSamplesDumped
<1> QED
  BY <1>1, AckInductive, PTL

\* An acknowledged branch is in the graph, and stays there.
THEOREM BranchSafety == Spec => []AckedBranchMerged
<1>1. AckInv => AckedBranchMerged
  BY DEF AckInv, AckedBranchMerged
<1> QED
  BY <1>1, AckInductive, PTL

-----------------------------------------------------------------------------
(* Refinement.                                                             *)

\* The operators on graphs that PlasmaService uses are those of PlasmaGraph.
LEMMA SameOperators ==
    /\ Service!Node = Node
    /\ \A ns : /\ Service!UniqueIds(ns) = UniqueIds(ns)
               /\ Service!Resolved(ns) = Resolved(ns)
               /\ Service!TopoOK(ns) = TopoOK(ns)
    /\ \A ns, done, run : Service!Ready(ns, done, run) = Ready(ns, done, run)
<1>1. Service!Node = Node
  BY DEF Service!Node, Node
<1>2. \A ns : Service!Elems(ns) = Elems(ns) /\ Service!Ids(ns) = Ids(ns)
  BY DEF Service!Elems, Elems, Service!Ids, Ids
<1>3. \A n : Service!Deps(n) = Deps(n)
  BY <1>2 DEF Service!Deps, Deps
<1>4. \A ns : Service!UniqueIds(ns) = UniqueIds(ns)
  BY DEF Service!UniqueIds, UniqueIds
<1>5. \A ns : Service!Resolved(ns) = Resolved(ns)
  BY <1>2, <1>3 DEF Service!Resolved, Resolved
<1>6. \A ns : Service!Acyclic(ns) = Acyclic(ns)
  BY <1>2, <1>3 DEF Service!Acyclic, Acyclic
<1>7. \A ns : Service!TopoOK(ns) = TopoOK(ns)
  BY <1>4, <1>5, <1>6 DEF Service!TopoOK, TopoOK
<1>8. \A ns, done, run : Service!Ready(ns, done, run) = Ready(ns, done, run)
  BY <1>2, <1>3 DEF Service!Ready, Ready
<1> QED
  BY <1>1, <1>4, <1>5, <1>7, <1>8

\* Every step of the coordinator is a step of the service or invisible to it:
\* MarkRunning starts a vertex, Settle completes or gives it up, MergeBranch
\* grows the graph and the returns of the loop stop the service.
LEMMA StepRefines ==
    Typed /\ GraphInv /\ [Next]_vars => [Service!Next]_(Service!vars)
<1> SUFFICES ASSUME Typed, GraphInv, [Next]_vars
             PROVE  Service!Next \/ UNCHANGED Service!vars
  OBVIOUS
<1> USE DEF graphVars, loopVars, Goto, HGoto, Return, FillWake, Unmark,
            SettleSuccess, SettleFailure, RefuseBranch
<1>1. CASE CheckCtx
  <2>1. running = {} /\ UNCHANGED <<nodes, completed, running>>
    BY <1>1 DEF CheckCtx, GraphInv, RunningOne
  <2>2. pc \notin Teardown
    BY <1>1 DEF CheckCtx, Teardown
  <2>3. CASE pc' \in Teardown
    BY <2>1, <2>2, <2>3 DEF Service!Next, Service!Stop
  <2>4. CASE pc' \notin Teardown
    BY <2>1, <2>2, <2>4 DEF Service!vars
  <2> QED
    BY <2>3, <2>4
<1>2. CASE Pick
  BY <1>2 DEF Pick, Teardown, Service!vars
<1>3. CASE MarkRunning
  <2>1. running = {} /\ next \in Ready(nodes, completed, running)
    BY <1>3 DEF MarkRunning, GraphInv, RunningOne, DepsRespected, NextFresh, Ready
  <2>2. running' = {next.id} /\ UNCHANGED <<nodes, completed>>
    BY <1>3, <2>1 DEF MarkRunning
  <2>3. pc \notin Teardown /\ pc' \notin Teardown
    BY <1>3 DEF MarkRunning, Teardown
  <2>4. Service!Start
    BY <2>1, <2>2, <2>3, SameOperators DEF Service!Start
  <2> QED
    BY <2>4 DEF Service!Next
<1>4. CASE Launch
  BY <1>4 DEF Launch, Teardown, Service!vars
<1>5. CASE Finish
  BY <1>5 DEF Finish, Teardown, Service!vars
<1>6. CASE Settle
  <2>1. running = {next.id} /\ running' = {} /\ pc \notin Teardown /\ UNCHANGED nodes
    BY <1>6 DEF Settle, GraphInv, RunningOne, Teardown
  <2>2. CASE err = "none"
    <3>1. completed' = completed \cup running /\ pc' \notin Teardown
      BY <1>6, <2>1, <2>2 DEF Settle, Teardown
    <3>2. Service!Complete
      BY <2>1, <3>1 DEF Service!Complete
    <3> QED
      BY <3>2 DEF Service!Next
  <2>3. CASE err # "none"
    <3>1. completed' = completed /\ pc' \in Teardown
      BY <1>6, <2>3 DEF Settle, Teardown
    <3>2. Service!Stop
      BY <2>1, <3>1 DEF Service!Stop
    <3> QED
      BY <3>2 DEF Service!Next
  <2> QED
    BY <2>2, <2>3
<1>7. CASE SignalSelf
  BY <1>7 DEF SignalSelf, Teardown, Service!vars
<1>8. CASE Announce
  BY <1>8 DEF Announce, Teardown, Service!vars
<1>9. CASE SelectCtx
  <2>1. running = {} /\ UNCHANGED <<nodes, completed, running>>
    BY <1>9 DEF SelectCtx, GraphInv, RunningOne
  <2>2. pc \notin Teardown
    BY <1>9 DEF SelectCtx, Teardown
  <2>3. CASE pc' \in Teardown
    BY <2>1, <2>2, <2>3 DEF Service!Next, Service!Stop
  <2>4. CASE pc' \notin Teardown
    BY <2>1, <2>2, <2>4 DEF Service!vars
  <2> QED
    BY <2>3, <2>4
<1>10. CASE SelectWake
  BY <1>10 DEF SelectWake, Teardown, Service!vars
<1>11. CASE SelectTimer
  BY <1>11 DEF SelectTimer, Teardown, Service!vars
<1>12. CASE IdleTest
  <2>1. running = {} /\ UNCHANGED <<nodes, completed, running>>
    BY <1>12 DEF IdleTest, GraphInv, RunningOne
  <2>2. pc \notin Teardown
    BY <1>12 DEF IdleTest, Teardown
  <2>3. CASE pc' \in Teardown
    BY <2>1, <2>2, <2>3 DEF Service!Next, Service!Stop
  <2>4. CASE pc' \notin Teardown
    BY <2>1, <2>2, <2>4 DEF Service!vars
  <2> QED
    BY <2>3, <2>4
<1>13. CASE CloseListener
  BY <1>13 DEF CloseListener, Teardown, Service!vars
<1>14. CASE DumpSamples
  BY <1>14 DEF DumpSamples, Teardown, Service!vars
<1>15. CASE RemoveSegment
  BY <1>15 DEF RemoveSegment, Teardown, Service!vars
<1>16. ASSUME NEW c \in Conn, AppendSample(c) PROVE Service!Next \/ UNCHANGED Service!vars
  BY <1>16 DEF AppendSample, Teardown, Service!vars
<1>17. ASSUME NEW c \in Conn, MergeBranch(c) PROVE Service!Next \/ UNCHANGED Service!vars
  <2> DEFINE add == DecodeNodes(req[c].nodes)
  <2>1. UNCHANGED <<completed, running, pc>>
    BY <1>17 DEF MergeBranch
  <2>2. CASE UNCHANGED nodes
    BY <2>1, <2>2 DEF Service!vars
  <2>3. CASE AppendOK(nodes, add) /\ add # << >>
    <3>1. add \in Seq(Node) /\ nodes \in Seq(Node)
      BY <1>17, RequestType, DecodeType DEF MergeBranch, Typed, TypeOK, HandlerReq
    <3>2. nodes' = nodes \o add
      BY <1>17, <2>3 DEF MergeBranch, AppendDAG
    <3>3. TopoOK(nodes')
      BY <2>3, <3>2 DEF AppendOK
    <3>4. /\ nodes' \in Seq(Node) /\ Len(nodes) <= Len(nodes')
          /\ \A i \in DOMAIN nodes : nodes'[i] = nodes[i]
      BY <3>1, <3>2
    <3>5. Service!Grow
      BY <2>1, <3>3, <3>4, SameOperators DEF Service!Grow
    <3> QED
      BY <3>5 DEF Service!Next
  <2>4. CASE add = << >>
    <3>1. nodes \o add = nodes
      BY <2>4 DEF Typed, TypeOK
    <3> QED
      BY <1>17, <3>1, <2>2 DEF MergeBranch, AppendDAG
  <2> QED
    BY <1>17, <2>2, <2>3, <2>4 DEF MergeBranch
<1>18. ASSUME NEW c \in Conn, OpenFD(c) PROVE Service!Next \/ UNCHANGED Service!vars
  BY <1>18 DEF OpenFD, Teardown, Service!vars
<1>19. ASSUME NEW c \in Conn, BumpActivity(c) PROVE Service!Next \/ UNCHANGED Service!vars
  BY <1>19 DEF BumpActivity, Teardown, Service!vars
<1>20. ASSUME NEW c \in Conn, SignalWake(c) PROVE Service!Next \/ UNCHANGED Service!vars
  BY <1>20 DEF SignalWake, Teardown, Service!vars
<1>21. ASSUME NEW c \in Conn, Reply(c) PROVE Service!Next \/ UNCHANGED Service!vars
  BY <1>21 DEF Reply, Teardown, Service!vars
<1>22. ASSUME NEW c \in Conn, Accept(c) PROVE Service!Next \/ UNCHANGED Service!vars
  BY <1>22 DEF Accept, Teardown, Service!vars
<1>23. ASSUME NEW c \in Conn, Hangup(c) PROVE Service!Next \/ UNCHANGED Service!vars
  BY <1>23 DEF Hangup, Teardown, Service!vars
<1>24. ASSUME NEW c \in Conn, NEW m \in Request, ReadRequest(c, m) PROVE Service!Next \/ UNCHANGED Service!vars
  BY <1>24 DEF ReadRequest, Teardown, Service!vars
<1>25. CASE Tick
  BY <1>25 DEF Tick, Teardown, Service!vars
<1>26. CASE Cancel
  BY <1>26 DEF Cancel, Teardown, Service!vars
<1>27. CASE UNCHANGED vars
  BY <1>27 DEF vars, Teardown, Service!vars
<1> QED
  BY <1>1, <1>2, <1>3, <1>4, <1>5, <1>6, <1>7, <1>8, <1>9, <1>10, <1>11, <1>12, <1>13, <1>14, <1>15, <1>16, <1>17, <1>18, <1>19, <1>20, <1>21, <1>22, <1>23, <1>24, <1>25, <1>26, <1>27
     DEF Next, LoopStep, HandlerStep, ClientStep

\* The coordinator implements the service that its clients rely on.
THEOREM Refinement == Spec => ImplementsService
<1>1. Init => Typed /\ GraphInv /\ Service!Init
  <2>1. Init => Service!Init
    <3> SUFFICES ASSUME Init PROVE Service!Init
      OBVIOUS
    <3>1. nodes \in Seq(Node) /\ UniqueIds(nodes) /\ Resolved(nodes)
      BY PipelinesAssumption DEF Init, Validate
    <3>2. completed = {} /\ running = {} /\ pc \notin Teardown
      BY DEF Init, Teardown
    <3> QED
      BY <3>1, <3>2, SameOperators DEF Service!Init
  <2> QED
    BY <2>1, InitTyped, InitGraphInv
<1>2. Typed /\ GraphInv /\ [Next]_vars => (Typed /\ GraphInv)'
  BY NextTyped, NextGraphInv
<1> QED
  BY <1>1, <1>2, StepRefines, PTL DEF Spec, ImplementsService, Service!Spec

-----------------------------------------------------------------------------
(* Failures.                                                               *)

\* A failure is recorded just before the loop settles and returns.
FailedAt == err = "node" => pc \in {"settle"} \cup Teardown

\* After a failure the loop is at Settle or in Run's deferred function.
LEMMA NextFailedAt ==
    FailedAt /\ [Next]_vars =>
        FailedAt' /\ (err = "node" => /\ err' = "node" /\ completed' = completed
                                      /\ pc' \notin {"pick", "mark", "launch", "exec"})
<1> SUFFICES ASSUME FailedAt, [Next]_vars
             PROVE  /\ FailedAt'
                    /\ err = "node" => /\ err' = "node" /\ completed' = completed
                                       /\ pc' \notin {"pick", "mark", "launch", "exec"}
  OBVIOUS
<1> DEFINE Goal == /\ FailedAt'
                   /\ err = "node" => /\ err' = "node" /\ completed' = completed
                                      /\ pc' \notin {"pick", "mark", "launch", "exec"}
<1> USE DEF FailedAt, Teardown, graphVars, loopVars, Goto, HGoto, Return, FillWake, Unmark,
            SettleSuccess, SettleFailure, RefuseBranch
<1>1. CASE CheckCtx
  BY <1>1 DEF CheckCtx
<1>2. CASE Pick
  BY <1>2 DEF Pick
<1>3. CASE MarkRunning
  BY <1>3 DEF MarkRunning
<1>4. CASE Launch
  BY <1>4 DEF Launch
<1>5. CASE Finish
  BY <1>5 DEF Finish
<1>6. CASE Settle
  BY <1>6 DEF Settle
<1>7. CASE SignalSelf
  BY <1>7 DEF SignalSelf
<1>8. CASE Announce
  BY <1>8 DEF Announce
<1>9. CASE SelectCtx
  BY <1>9 DEF SelectCtx
<1>10. CASE SelectWake
  BY <1>10 DEF SelectWake
<1>11. CASE SelectTimer
  BY <1>11 DEF SelectTimer
<1>12. CASE IdleTest
  BY <1>12 DEF IdleTest
<1>13. CASE CloseListener
  BY <1>13 DEF CloseListener
<1>14. CASE DumpSamples
  BY <1>14 DEF DumpSamples
<1>15. CASE RemoveSegment
  BY <1>15 DEF RemoveSegment
<1>16. ASSUME NEW c \in Conn, AppendSample(c) PROVE Goal
  BY <1>16 DEF AppendSample
<1>17. ASSUME NEW c \in Conn, MergeBranch(c) PROVE Goal
  BY <1>17 DEF MergeBranch
<1>18. ASSUME NEW c \in Conn, OpenFD(c) PROVE Goal
  BY <1>18 DEF OpenFD
<1>19. ASSUME NEW c \in Conn, BumpActivity(c) PROVE Goal
  BY <1>19 DEF BumpActivity
<1>20. ASSUME NEW c \in Conn, SignalWake(c) PROVE Goal
  BY <1>20 DEF SignalWake
<1>21. ASSUME NEW c \in Conn, Reply(c) PROVE Goal
  BY <1>21 DEF Reply
<1>22. ASSUME NEW c \in Conn, Accept(c) PROVE Goal
  BY <1>22 DEF Accept
<1>23. ASSUME NEW c \in Conn, Hangup(c) PROVE Goal
  BY <1>23 DEF Hangup
<1>24. ASSUME NEW c \in Conn, NEW m \in Request, ReadRequest(c, m) PROVE Goal
  BY <1>24 DEF ReadRequest
<1>25. CASE Tick
  BY <1>25 DEF Tick
<1>26. CASE Cancel
  BY <1>26 DEF Cancel
<1>27. CASE UNCHANGED vars
  BY <1>27 DEF vars
<1> QED
  BY <1>1, <1>2, <1>3, <1>4, <1>5, <1>6, <1>7, <1>8, <1>9, <1>10, <1>11, <1>12, <1>13, <1>14, <1>15, <1>16, <1>17, <1>18, <1>19, <1>20, <1>21, <1>22, <1>23, <1>24, <1>25, <1>26, <1>27
     DEF Next, LoopStep, HandlerStep, ClientStep

\* Nothing is executed after a node has failed, and Run returns its error.
THEOREM FailureSafety == Spec => FailureIsFinal
<1>1. Init => FailedAt
  BY DEF Init, FailedAt
<1> QED
  BY <1>1, NextFailedAt, PTL DEF Spec, FailureIsFinal

=============================================================================
