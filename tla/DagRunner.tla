----------------------------- MODULE DagRunner -----------------------------
(***************************************************************************)
(* dag.Runner.Run (pkg/dag/run.go): the list of a validated pipeline file  *)
(* is ordered by TopoOrder, its vertices are executed one after another,   *)
(* their timings kept, and the Prometheus text file written that           *)
(* node_exporter scrapes.  The file may hold the exposition of an earlier  *)
(* run when this one starts.  Lists that are in Inputs but not in          *)
(* Pipelines are ordered for AppendDAG and go no further.                  *)
(***************************************************************************)
EXTENDS TopoOrder

CONSTANTS Pipelines,    \* the lists that LoadFile may return
          PromTextFile  \* is r.PromTextFile set?

ASSUME PipelinesAssumption ==
    \A p \in Pipelines : p \in Inputs /\ Validate([named |-> TRUE, nodes |-> p])
ASSUME PromTextFileAssumption == PromTextFile \in BOOLEAN

VARIABLES at,         \* index of the vertex that the range loop is at
          timings,    \* r.Run's local: exit codes by step
          prom,       \* content of the text file, as a scraper reads it
          cancelled,  \* ctx.Done()
          pc,
          err         \* what Run returns

vars == <<topoVars, at, timings, prom, cancelled, pc, err>>

order == ordered   \* what TopoOrder returned

\* Exit codes: 0, a code of the command, or -1 when it could not be started
\* or was ended by a signal.
ExitCode == {0, 1, -1}
Timing   == [id : NodeId, exit : ExitCode]

\* The file: what an earlier run left, or the exposition of a sequence of
\* timings; the lines of one step are taken as one.
Stale       == [from |-> "earlier run", steps |-> << >>]
Exposed(ts) == [from |-> "this run", steps |-> ts]

Init ==
    /\ TopoInit
    /\ at = 1
    /\ timings = << >>
    /\ prom = Stale
    /\ cancelled = FALSE
    /\ pc = IF nodes \in Pipelines THEN "order" ELSE "append"
    /\ err = "none"

Return(e) == pc' = "returned" /\ err' = e

\* TopoOrder at work, for either caller.
Order ==
    /\ Dequeue \/ Relax \/ TopoReturn
    /\ UNCHANGED <<at, timings, prom, cancelled, pc, err>>

\* Run goes on with the order, or returns the error.
Ordered ==
    /\ pc = "order"
    /\ verdict # "none"
    /\ \/ verdict = "error" /\ Return("cycle")
       \/ verdict = "ok" /\ pc' = "ctx" /\ UNCHANGED err
    /\ UNCHANGED <<topoVars, at, timings, prom, cancelled>>

\* The range loop is over.
LoopEnds ==
    /\ pc = "ctx"
    /\ at > Len(order)
    /\ pc' = "open" /\ err' = "nil"
    /\ UNCHANGED <<topoVars, at, timings, prom, cancelled>>

\* WritePrometheusTextFile is done.  Its error becomes that of a run that has
\* succeeded and is dropped by one that has failed.
WriteReturns(failed) == Return(IF failed /\ err = "nil" THEN "prom" ELSE err)

\* os.WriteFile opens the file and truncates it, ...
OpenProm ==
    /\ pc = "open"
    /\ \/ WriteReturns(PromTextFile) /\ UNCHANGED prom
       \/ PromTextFile /\ prom' = Exposed(<< >>) /\ pc' = "write" /\ UNCHANGED err
    /\ UNCHANGED <<topoVars, at, timings, cancelled>>

\* ... writes, which may stop at any length, and closes it, which may fail.
WriteProm ==
    /\ pc = "write"
    /\ \/ /\ prom.steps # timings
          /\ prom' = Exposed(SubSeq(timings, 1, Len(prom.steps) + 1))
          /\ UNCHANGED <<pc, err>>
       \/ prom.steps = timings /\ WriteReturns(FALSE) /\ UNCHANGED prom
       \/ WriteReturns(TRUE) /\ UNCHANGED prom
    /\ UNCHANGED <<topoVars, at, timings, cancelled>>

\* Mutant: a cancelled context is polled again instead of ending Run.
CheckCtxSpins ==
    /\ pc = "ctx"
    /\ at <= Len(order)
    /\ pc' = IF cancelled THEN "ctx" ELSE "place"
    /\ UNCHANGED <<topoVars, at, timings, prom, cancelled, err>>

\* The select at the head of the body.
CheckCtx ==
    /\ pc = "ctx"
    /\ at <= Len(order)
    /\ \/ cancelled /\ Return("ctx")
       \/ ~cancelled /\ pc' = "place" /\ UNCHANGED err
    /\ UNCHANGED <<topoVars, at, timings, prom, cancelled>>

\* SelectCPUs and affinity.Command: either may refuse the vertex.
Place ==
    /\ pc = "place"
    /\ \/ Return("select")
       \/ Return("command")
       \/ pc' = "exec" /\ UNCHANGED err
    /\ UNCHANGED <<topoVars, at, timings, prom, cancelled>>

\* cmd.Run returned with this exit code.
Record(code) == timings' = Append(timings, [id |-> order[at].id, exit |-> code])

\* Mutant: the file is rewritten after every step.
NodeSucceedsExposed ==
    /\ pc = "exec"
    /\ Record(0)
    /\ prom' = Exposed(timings')
    /\ at' = at + 1
    /\ pc' = "ctx"
    /\ UNCHANGED <<topoVars, cancelled, err>>

NodeSucceeds ==
    /\ pc = "exec"
    /\ Record(0)
    /\ at' = at + 1
    /\ pc' = "ctx"
    /\ UNCHANGED <<topoVars, prom, cancelled, err>>

\* Mutant: Run goes on after a failed vertex.
NodeFailsContinues(code) ==
    /\ pc = "exec"
    /\ Record(code)
    /\ at' = at + 1
    /\ pc' = "ctx"
    /\ UNCHANGED <<topoVars, prom, cancelled, err>>

\* Mutant: a failed vertex is executed again.
NodeFailsRetried(code) ==
    /\ pc = "exec"
    /\ Record(code)
    /\ pc' = "ctx"
    /\ UNCHANGED <<topoVars, at, prom, cancelled, err>>

\* The partial series is written before the error is returned.
NodeFails(code) ==
    /\ pc = "exec"
    /\ Record(code)
    /\ pc' = "open" /\ err' = "exit"
    /\ UNCHANGED <<topoVars, at, prom, cancelled>>

Cancel ==
    /\ ~cancelled /\ pc # "append"
    /\ cancelled' = TRUE
    /\ UNCHANGED <<topoVars, at, timings, prom, pc, err>>

RunStep ==
    \/ Order \/ Ordered \/ CheckCtx \/ Place \/ NodeSucceeds
    \/ \E code \in ExitCode \ {0} : NodeFails(code)
    \/ LoopEnds \/ OpenProm \/ WriteProm

Next == RunStep \/ Cancel

Spec == Init /\ [][Next]_vars /\ WF_vars(RunStep)

-----------------------------------------------------------------------------
\* When a command starts, every dependency of its vertex has already exited
\* with code 0 (run.go:34-72).
DepsSucceeded ==
    pc = "exec" => \A d \in Deps(order[at]) :
                       \E k \in DOMAIN timings : timings[k] = [id |-> d, exit |-> 0]

\* Whenever the file is scraped, between truncation and the last write too,
\* and whichever write fails: what it shows of this run is a beginning of what
\* happened; nothing before the run has ended; a failed step only if Run
\* returns that failure; and all of the steps if Run returns nil.  A run ended
\* by a refusal, a cycle or ctx leaves the file to the earlier run, although
\* run.go:18 says "after the first failing node" (run.go:34-79).
PromTruthful ==
    /\ prom.from = "this run" =>
          /\ pc \in {"write", "returned"} /\ err \in {"nil", "prom", "exit"}
          /\ IsPrefix(prom.steps, timings)
          /\ \A k \in DOMAIN prom.steps :
                prom.steps[k].exit # 0 => err = "exit" /\ k = Len(timings)
    /\ (PromTextFile /\ pc = "returned" /\ err = "nil") =>
          /\ prom = Exposed(timings)
          /\ { timings[k].id : k \in DOMAIN timings } = Ids(nodes)

\* TopoOrder ends on every list, and Run returns when the node commands do.
Returns == <>(verdict # "none" /\ pc \in {"returned", "append"})

-----------------------------------------------------------------------------
(* Run as an executor of a graph.                                          *)

\* The graph: that of a pipeline file, or none when AppendDAG called TopoOrder.
pipeline == IF pc = "append" THEN << >> ELSE nodes

succeeded == { timings[k].id : k \in { k \in DOMAIN timings : timings[k].exit = 0 } }

executing == IF pc = "exec" THEN {order[at].id} ELSE {}

\* No vertex is executed once the loop has ended.
goesOn == pc \notin {"open", "write", "returned"}

Service == INSTANCE PlasmaService
           WITH nodes <- pipeline, completed <- succeeded, running <- executing,
                up <- goesOn

\* Run implements PlasmaService, which the coordinator implements as well: it
\* executes the vertices of its file one at a time, each at most once and after
\* its dependencies, by the order that TopoOrder chose, and after the first
\* failure, refusal or cancellation nothing more (run.go:34-79).
ImplementsService == Service!Spec
=============================================================================
