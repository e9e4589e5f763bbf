------------------------- MODULE PlasmaCoordinator -------------------------
(***************************************************************************)
(* The Plasma coordinator of pkg/plasma/coordinator_linux.go, from the     *)
(* moment Run has created the segment and the listener until it returns.   *)
(*                                                                         *)
(* Goroutines: the loop (pc), one handler per accepted connection (hpc),   *)
(* and the accept loop.  A step is one critical section (c.mu,             *)
(* c.samplesMu, c.activityMu) or one channel or system operation.  In the  *)
(* supervisor the process outlives Run, so handlers of connections that    *)
(* are open when the loop returns go on serving them.                      *)
(*                                                                         *)
(* lastBump is kept as "idle", the whole ticks passed since it was set,    *)
(* saturating at IdleExit: idleSince() is compared with nothing else.      *)
(***************************************************************************)
EXTENDS PlasmaGraph

CONSTANTS Pipelines,    \* pipeline files the coordinator may be given
          Branches,     \* the node lists clients put in branch messages
          Samples,      \* sample records clients send
          Conn,         \* connections that may be open at the same time
          IdleExit,     \* cfg.IdleExit, in ticks
          MaxRequests   \* bound: requests that clients send altogether

ASSUME IdleExitAssumption == IdleExit \in Nat \ {0}
ASSUME MaxRequestsAssumption == MaxRequests \in Nat
ASSUME BranchesAssumption == Branches \subseteq Seq(WireNode)
ASSUME PipelinesAssumption ==
    \A p \in Pipelines : p.named \in BOOLEAN /\ p.nodes \in Seq(Node)

VARIABLES nodes,          \* c.nodes
          completed,      \* c.completed
          running,        \* c.running
          idleAnnounced,  \* c.idleAnnounced
          idle,           \* time since c.lastBump
          wake,           \* c.wake: is the one-slot channel full?
          samples,        \* c.samples
          segPath,        \* is c.seg.path non-empty?
          listening,      \* is c.ln open?
          cancelled,      \* has ctx been cancelled?
          pc,             \* where the loop, and then Run's defer, stands
          next,           \* the loop's local copy of the picked vertex
          err,            \* what the loop returns
          hpc,            \* where the handler of each connection stands
          req,            \* the request that it is serving
          dumped,         \* the sample log that dumpSamples printed
          sent,           \* requests read so far (counts against MaxRequests)
          asked,          \* history: wire form of the vertices merged so far
          acked           \* history: samples acknowledged before the dump

graphVars == <<nodes, completed, running, idleAnnounced>>
loopVars  == <<pc, next, err, dumped, segPath, listening>>
connVars  == <<hpc, req, sent>>
histVars  == <<asked, acked>>
vars == <<graphVars, idle, wake, samples, cancelled, loopVars, connVars, histVars>>

-----------------------------------------------------------------------------
NoNode == [id |-> BlankId, cmd |-> FALSE, dependsOn |-> << >>]

\* What a client may send.  A "malformed" frame fails to decode or has an
\* unknown op; an "empty" one has length zero.
Hello     == [op |-> "hello"]
Malformed == [op |-> "malformed"]
Empty     == [op |-> "empty"]
FDKind    == {"shm", "perf", "unknown"}
Request ==
    {Hello, Malformed, Empty}
        \cup [op : {"sample"}, sample : Samples]
        \cup [op : {"branch"}, nodes : Branches]
        \cup [op : {"request_fd"}, kind : FDKind]

Teardown == {"close", "dump", "rmseg", "returned"}
LoopPC   == {"ctx", "pick", "mark", "launch", "exec", "settle", "signal",
             "announce", "select", "idletest"} \cup Teardown
HandlerPC == {"closed", "read", "append", "merge", "open", "bump",
              "wake", "ack", "error", "send"}
Result   == {"none", "node", "ctx", "idle"}

Init ==
    /\ \E p \in Pipelines : Validate(p) /\ nodes = p.nodes
    /\ completed = {}
    /\ running = {}
    /\ idleAnnounced = FALSE
    /\ idle = 0
    /\ wake = FALSE
    /\ samples = << >>
    /\ segPath = TRUE
    /\ listening = TRUE
    /\ cancelled = FALSE
    /\ pc = "ctx"
    /\ next = NoNode
    /\ err = "none"
    /\ hpc = [c \in Conn |-> "closed"]
    /\ req = [c \in Conn |-> Empty]
    /\ dumped = << >>
    /\ sent = 0
    /\ asked = {}
    /\ acked = {}

-----------------------------------------------------------------------------
(* The loop.                                                               *)

Goto(l) == pc' = l

\* return e: Run's deferred function runs next.
Return(e) == err' = e /\ Goto("close")

CheckCtx ==
    /\ pc = "ctx"
    /\ \/ cancelled /\ Return("ctx")
       \/ ~cancelled /\ Goto("pick") /\ UNCHANGED err
    /\ UNCHANGED <<graphVars, idle, wake, samples, cancelled, next, dumped,
                   segPath, listening, connVars, histVars>>

\* PickRunnable under c.mu.  The loop alone adds to running, so running is
\* empty here and the branch for runningCnt > 0 is unreachable (RunningOne).
Pick ==
    /\ pc = "pick"
    /\ \/ /\ Ready(nodes, completed, running) = {}
          /\ Goto("announce")
          /\ UNCHANGED next
       \/ /\ next' \in PickRunnable(nodes, completed, running)
          /\ Goto("mark")
    /\ UNCHANGED <<graphVars, idle, wake, samples, cancelled, err, dumped,
                   segPath, listening, connVars, histVars>>

MarkRunning ==
    /\ pc = "mark"
    /\ running' = running \cup {next.id}
    /\ Goto("launch")
    /\ UNCHANGED <<nodes, completed, idleAnnounced, idle, wake, samples,
                   cancelled, next, err, dumped, segPath, listening, connVars,
                   histVars>>

\* execNode up to cmd.Run: SelectCPUs and affinity.Command may refuse.
Launch ==
    /\ pc = "launch"
    /\ \/ Goto("exec") /\ UNCHANGED err
       \/ Goto("settle") /\ err' = "node"
    /\ UNCHANGED <<graphVars, idle, wake, samples, cancelled, next, dumped,
                   segPath, listening, connVars, histVars>>

\* cmd.Run returns.  Only success counts as activity.
Finish ==
    /\ pc = "exec"
    /\ Goto("settle")
    /\ \/ idle' = 0 /\ UNCHANGED err
       \/ err' = "node" /\ UNCHANGED idle
    /\ UNCHANGED <<graphVars, wake, samples, cancelled, next, dumped, segPath,
                   listening, connVars, histVars>>

\* Mutant: the vertex is taken out of running on success only.
UnmarkOnSuccess == running' = IF err = "none" THEN running \ {next.id} ELSE running

Unmark == running' = running \ {next.id}

\* Mutant: a failed vertex does not end the loop.
ContinueAfterFailure == Goto("ctx") /\ UNCHANGED <<completed, idleAnnounced>>

\* execNode returned an error, which the loop returns.
SettleFailure == Goto("close") /\ UNCHANGED <<completed, idleAnnounced>>

SettleSuccess ==
    /\ completed' = completed \cup {next.id}
    /\ idleAnnounced' = FALSE
    /\ Goto("signal")

\* The critical section after execNode.
Settle ==
    /\ pc = "settle"
    /\ Unmark
    /\ IF err = "none" THEN SettleSuccess ELSE SettleFailure
    /\ UNCHANGED <<nodes, idle, wake, samples, cancelled, next, err, dumped,
                   segPath, listening, connVars, histVars>>

\* Mutant: an unbuffered channel keeps a token only for a loop that is waiting.
FillUnbuffered == wake' = (wake \/ pc = "select")

\* signalWake: a token for the one-slot channel, dropped when it is full.
FillWake == wake' = TRUE

SignalSelf ==
    /\ pc = "signal"
    /\ FillWake
    /\ Goto("ctx")
    /\ UNCHANGED <<graphVars, idle, samples, cancelled, next, err, dumped,
                   segPath, listening, connVars, histVars>>

\* Mutant: the loop wakes itself although nothing was completed.
AnnounceAndSignal ==
    /\ pc = "announce"
    /\ wake' = TRUE
    /\ Goto("select")
    /\ UNCHANGED <<graphVars, idle, samples, cancelled, next, err, dumped,
                   segPath, listening, connVars, histVars>>

\* The "graph quiescent" line is logged once until work resumes; it compares
\* the lengths of the two collections.
Announce ==
    /\ pc = "announce"
    /\ idleAnnounced' = (idleAnnounced \/ (nodes # << >> /\ Ids(nodes) = completed))
    /\ Goto("select")
    /\ UNCHANGED <<nodes, completed, running, idle, wake, samples, cancelled,
                   next, err, dumped, segPath, listening, connVars, histVars>>

\* The final select, which takes any of its cases that is ready.
SelectCtx ==
    /\ pc = "select"
    /\ cancelled
    /\ Return("ctx")
    /\ UNCHANGED <<graphVars, idle, wake, samples, cancelled, next, dumped,
                   segPath, listening, connVars, histVars>>

SelectWake ==
    /\ pc = "select"
    /\ wake
    /\ wake' = FALSE
    /\ Goto("ctx")
    /\ UNCHANGED <<graphVars, idle, samples, cancelled, next, err, dumped,
                   segPath, listening, connVars, histVars>>

\* The timer's case has won; handlers may still merge and signal before ...
SelectTimer ==
    /\ pc = "select"
    /\ Goto("idletest")
    /\ UNCHANGED <<graphVars, idle, wake, samples, cancelled, next, err, dumped,
                   segPath, listening, connVars, histVars>>

\* ... idleSince takes c.activityMu and the time.
IdleTest ==
    /\ pc = "idletest"
    /\ \/ idle >= IdleExit /\ Return("idle")
       \/ idle < IdleExit /\ Goto("ctx") /\ UNCHANGED err
    /\ UNCHANGED <<graphVars, idle, wake, samples, cancelled, next, dumped,
                   segPath, listening, connVars, histVars>>

\* Run's deferred function: the listener and its socket file, ...
CloseListener ==
    /\ pc = "close"
    /\ listening' = FALSE
    /\ Goto("dump")
    /\ UNCHANGED <<graphVars, idle, wake, samples, cancelled, next, err,
                   dumped, segPath, connVars, histVars>>

\* Mutant: the dump misses the first record.
DumpFromSecond ==
    /\ pc = "dump"
    /\ dumped' = IF samples = << >> THEN samples ELSE Tail(samples)
    /\ Goto("rmseg")
    /\ UNCHANGED <<graphVars, idle, wake, samples, cancelled, next, err,
                   segPath, listening, connVars, histVars>>

\* ... the sample log, ...
DumpSamples ==
    /\ pc = "dump"
    /\ dumped' = samples
    /\ Goto("rmseg")
    /\ UNCHANGED <<graphVars, idle, wake, samples, cancelled, next, err,
                   segPath, listening, connVars, histVars>>

\* ... and the segment, whose path becomes "".
RemoveSegment ==
    /\ pc = "rmseg"
    /\ segPath' = FALSE
    /\ Goto("returned")
    /\ UNCHANGED <<graphVars, idle, wake, samples, cancelled, next, err,
                   dumped, listening, connVars, histVars>>

-----------------------------------------------------------------------------
(* Connections.                                                            *)

HGoto(c, l) == hpc' = [hpc EXCEPT ![c] = l]

Accept(c) ==
    /\ listening
    /\ hpc[c] = "closed"
    /\ HGoto(c, "read")
    /\ UNCHANGED <<graphVars, idle, wake, samples, cancelled, loopVars, req,
                   sent, histVars>>

\* ReadFrameBytes fails: the client has closed, or the frame is too large.
Hangup(c) ==
    /\ hpc[c] = "read"
    /\ HGoto(c, "closed")
    /\ UNCHANGED <<graphVars, idle, wake, samples, cancelled, loopVars, req,
                   sent, histVars>>

\* A frame is read and its op dispatched.
Dispatch(m) ==
    CASE m.op = "hello"      -> "ack"
      [] m.op = "sample"     -> "append"
      [] m.op = "branch"     -> "merge"
      [] m.op = "request_fd" -> "open"
      [] m.op = "malformed"  -> "error"
      [] m.op = "empty"      -> "read"

ReadRequest(c, m) ==
    /\ hpc[c] = "read"
    /\ sent < MaxRequests
    /\ sent' = sent + 1
    /\ req' = [req EXCEPT ![c] = m]
    /\ HGoto(c, Dispatch(m))
    /\ UNCHANGED <<graphVars, idle, wake, samples, cancelled, loopVars, histVars>>

AppendSample(c) ==
    /\ hpc[c] = "append"
    /\ samples' = Append(samples, req[c].sample)
    /\ HGoto(c, "bump")
    /\ UNCHANGED <<graphVars, idle, wake, cancelled, loopVars, req, sent, histVars>>

\* Mutant: a refused branch falls through to the acknowledgement.
AckRefused(c) == HGoto(c, "bump") /\ UNCHANGED <<nodes, idleAnnounced, asked>>

RefuseBranch(c) == HGoto(c, "error") /\ UNCHANGED <<nodes, idleAnnounced, asked>>

\* The critical section of a branch: all of the new vertices or none.
MergeBranch(c) ==
    LET add == DecodeNodes(req[c].nodes)
    IN  /\ hpc[c] = "merge"
        /\ IF AppendOK(nodes, add)
           THEN /\ nodes' = AppendDAG(nodes, add)
                /\ idleAnnounced' = FALSE
                /\ asked' = asked \cup Elems(req[c].nodes)
                /\ HGoto(c, "bump")
           ELSE RefuseBranch(c)
        /\ UNCHANGED <<completed, running, idle, wake, samples, cancelled,
                       loopVars, req, sent, acked>>

\* handleRequestFD up to bumpActivity: the segment or a perf event is opened
\* and duplicated, each of which may fail.
OpenFD(c) ==
    /\ hpc[c] = "open"
    /\ \/ req[c].kind = "shm" /\ segPath /\ HGoto(c, "bump")
       \/ req[c].kind = "perf" /\ HGoto(c, "bump")
       \/ HGoto(c, "error")
    /\ UNCHANGED <<graphVars, idle, wake, samples, cancelled, loopVars, req,
                   sent, histVars>>

\* Mutant: lastBump is set one tick into the future.
BumpAhead(c) ==
    /\ hpc[c] = "bump"
    /\ idle' = -1
    /\ HGoto(c, IF req[c].op = "request_fd" THEN "send" ELSE "wake")
    /\ UNCHANGED <<graphVars, wake, samples, cancelled, loopVars, req, sent, histVars>>

BumpActivity(c) ==
    /\ hpc[c] = "bump"
    /\ idle' = 0
    /\ HGoto(c, IF req[c].op = "request_fd" THEN "send" ELSE "wake")
    /\ UNCHANGED <<graphVars, wake, samples, cancelled, loopVars, req, sent, histVars>>

SignalWake(c) ==
    /\ hpc[c] = "wake"
    /\ FillWake
    /\ HGoto(c, "ack")
    /\ UNCHANGED <<graphVars, idle, samples, cancelled, loopVars, req, sent, histVars>>

\* The reply frame is written; a write error is ignored and shows at the
\* next read.
Reply(c) ==
    /\ hpc[c] \in {"ack", "error", "send"}
    /\ HGoto(c, "read")
    /\ acked' = IF hpc[c] = "ack" /\ req[c].op = "sample" /\ pc \notin {"rmseg", "returned"}
                THEN acked \cup {req[c].sample} ELSE acked
    /\ UNCHANGED <<graphVars, idle, wake, samples, cancelled, loopVars, req, sent, asked>>

-----------------------------------------------------------------------------
(* The environment.                                                        *)

Tick ==
    /\ idle < IdleExit
    /\ idle' = idle + 1
    /\ UNCHANGED <<graphVars, wake, samples, cancelled, loopVars, connVars, histVars>>

Cancel ==
    /\ ~cancelled
    /\ cancelled' = TRUE
    /\ UNCHANGED <<graphVars, idle, wake, samples, loopVars, connVars, histVars>>

LoopStep ==
    \/ CheckCtx \/ Pick \/ MarkRunning \/ Launch \/ Finish \/ Settle
    \/ SignalSelf \/ Announce \/ SelectCtx \/ SelectWake \/ SelectTimer \/ IdleTest
    \/ CloseListener \/ DumpSamples \/ RemoveSegment

\* The steps of a handler once it holds a request.
HandlerStep(c) ==
    \/ AppendSample(c) \/ MergeBranch(c) \/ OpenFD(c) \/ BumpActivity(c)
    \/ SignalWake(c) \/ Reply(c)

ClientStep(c) ==
    \/ Accept(c)
    \/ Hangup(c)
    \/ \E m \in Request : ReadRequest(c, m)

Next ==
    \/ LoopStep
    \/ \E c \in Conn : HandlerStep(c) \/ ClientStep(c)
    \/ Tick
    \/ Cancel

Spec == Init /\ [][Next]_vars

\* The Go scheduler runs every goroutine that can run, time passes, and node
\* commands end.  Clients and the canceller owe nothing.
Fairness ==
    /\ WF_vars(LoopStep)
    /\ WF_vars(Tick)
    /\ \A c \in Conn : WF_vars(HandlerStep(c))

FairSpec == Spec /\ Fairness

-----------------------------------------------------------------------------
(* Properties.                                                             *)

\* The types of the coordinator struct's fields and of the goroutines' locals.
TypeOK ==
    /\ nodes \in Seq(Node)
    /\ completed \subseteq NodeId
    /\ running \subseteq NodeId
    /\ idleAnnounced \in BOOLEAN
    /\ idle \in 0..IdleExit
    /\ wake \in BOOLEAN
    /\ samples \in Seq(Samples)
    /\ segPath \in BOOLEAN
    /\ listening \in BOOLEAN
    /\ cancelled \in BOOLEAN
    /\ pc \in LoopPC
    /\ next \in Node \cup {NoNode}
    /\ err \in Result
    /\ hpc \in [Conn -> HandlerPC]
    /\ req \in [Conn -> Request]
    /\ dumped \in Seq(Samples)
    /\ sent \in Nat
    /\ asked \subseteq WireNode
    /\ acked \subseteq Samples

\* loop's "running" set holds the one vertex whose command is being executed
\* and is empty whenever PickRunnable looks at it: the branch of the loop for
\* runningCnt > 0 (lines 365-373) is never taken.
RunningOne ==
    running = IF pc \in {"launch", "exec", "settle"} THEN {next.id} ELSE {}

\* Vertices run in an order the graph allows: whatever has completed, or is
\* past PickRunnable, had all of its dependencies completed, however branches
\* extend the graph between the pick, the mark and the launch (lines 336-346).
DepsRespected ==
    /\ \A i \in DOMAIN nodes :
          nodes[i].id \in completed => Deps(nodes[i]) \subseteq completed
    /\ pc \in {"mark", "launch", "exec", "settle"} =>
          next \in Elems(nodes) /\ Deps(next) \subseteq completed

\* The graph keeps unique ids and resolved dependencies under concurrent
\* branches, and never loses a vertex that has completed (AppendDAG under c.mu).
GraphWellFormed ==
    UniqueIds(nodes) /\ Resolved(nodes) /\ completed \subseteq Ids(nodes)

\* A handler between the merge of a branch and its signalWake.
MidBranch(c) == hpc[c] \in {"bump", "wake"} /\ req[c].op = "branch"

\* No wake-up is lost: when a vertex became runnable after the loop last
\* looked, the channel holds a token or a handler is about to put one there.
NoLostWakeup ==
    (pc \in {"announce", "select", "idletest"} /\ Ready(nodes, completed, running) # {})
        => wake \/ \E c \in Conn : MidBranch(c)

IdleReturn == pc = "idletest" /\ err' = "idle" /\ pc' = "close"

\* Idle shutdown (lines 389-395) leaves a vertex behind in three cases only: a
\* branch is still being merged; a token was put since the loop last looked,
\* and IdleExit has passed before idleSince was read all the same; or the
\* pipeline file had a cycle, which Validate lets through.
IdleExitClean ==
    [][IdleReturn => \/ completed = Ids(nodes)
                     \/ \E c \in Conn : MidBranch(c)
                     \/ wake
                     \/ ~TopoOK(nodes)]_vars

\* A sample that was acknowledged before dumpSamples took the log is in the
\* log that it prints: the handler appends before it replies (lines 185-195).
AckedSamplesDumped ==
    pc \in {"rmseg", "returned"} => acked \subseteq Elems(dumped)

\* A branch is acknowledged only once all of its vertices are in the graph,
\* and they stay there (lines 203-216).
AckedBranchMerged ==
    \A c \in Conn : (hpc[c] = "ack" /\ req[c].op = "branch") =>
        Ids(req[c].nodes) \subseteq Ids(nodes)

\* A failed node command makes Run return that error: nothing is executed
\* after it and it is never reported as an idle exit (lines 349-352).
FailureIsFinal ==
    [][err = "node" => err' = "node" /\ completed' = completed
                       /\ pc' \notin {"pick", "mark", "launch", "exec"}]_vars

\* The flag documentation of --idle-exit (cmd/nexusflow/plasma_cmd.go:19):
\* "shutdown when no runnable work and socket quiet for this long".
IdleExitMeansNoWork ==
    [][IdleReturn => Ready(nodes, completed, running) = {}]_vars

\* A vertex starts only after the dependencies that its branch message listed
\* under "depends_on", as examples/plasma/worker_branch.py:47 does.
ListedDepsHonoured ==
    \A w \in asked : w.id \in running => Elems(w.dependsOn) \subseteq completed

\* The idle timer has won against a token in the channel (lines 388-393).
TokenIgnored == pc = "close" /\ err = "idle" /\ wake

\* Every vertex of an acyclic graph whose branch has been signalled is
\* executed, unless a node fails, ctx is cancelled or the idle timer wins
\* against a token: the wake-ups that signalWake drops on a full channel
\* strand no vertex, and an idle exit only past a token in the channel.
EventuallyExecuted ==
    \A i \in NodeId :
        (/\ i \in Ids(nodes)
         /\ TopoOK(nodes)
         /\ pc \notin Teardown
         /\ \A c \in Conn : ~MidBranch(c))
            ~> (i \in completed \/ err \in {"node", "ctx"} \/ TokenIgnored)

\* Once clients stop sending, Run returns: no combination of a stale wake
\* token, a busy handler and the 250 ms timer keeps the loop alive.
EventuallyReturns == <>(pc = "returned")

-----------------------------------------------------------------------------
(* The promise of the coordinator to its clients.                          *)

Service == INSTANCE PlasmaService WITH up <- (pc \notin Teardown)

\* The coordinator implements PlasmaService: through every interleaving of the
\* loop with the handlers, vertices are executed one at a time, at most once
\* and after their dependencies (coordinator_linux.go:153-397).
ImplementsService == Service!Spec
=============================================================================
