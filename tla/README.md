# NexusFlow verification project

TLA+ models of the NexusFlow sources (`src/nexusflow`), checked with TLC on
small instances and proved with TLAPS for all instances where the provers reach.
`PROJECT.json` lists runs, mutants,
findings, hazards, theorems and, for every definition that models code, its lines.

## 1. Inventory

| Part | State | Operations | What is hard |
|---|---|---|---|
| Plasma coordinator (`pkg/plasma/coordinator_linux.go`) | graph, completed and running sets, sample log, last-activity time, one-slot wake channel, listener, segment | `Run`, `loop`, `acceptLoop`, one `handleConn` per connection (`hello`, `sample`, `branch`, `request_fd`) | the loop and the handlers share four fields under three mutexes and a lossy channel; an idle timer decides when to stop |
| Dynamic graph (`pkg/plasma/graph.go`) | none | `AppendDAG`, `PickRunnable` | ids repeated in one message, cycles closed over two messages |
| DAG (`pkg/dag`) | a pipeline file; timings; a Prometheus text file | `Validate`, `TopoOrder`, `Runner.Run` | map iteration order, partial failure, a file older than the run |
| Plasma wire (`frame.go`, `wire_linux.go`, `sdk/python`) | two byte streams with descriptors in them | length-prefixed frames, one-message descriptor replies, three receivers | either end may die between two system calls; a reply may be read half |
| Plasma start-up (`coordinator_linux.go`, `pkg/shm`, `supervisor.go`) | a socket path and a segment path, shared by name | `Run`'s start and deferred teardown, `waitSocket`, `shm create` | files of crashed processes, several processes on the same paths |
| Topology (`pkg/topology`, `pkg/hwloc`) | a snapshot of sysfs or of hwloc's XML | `Discover`, `DiscoverCLI`, `SelectCPUs`, `PrimaryNUMANodeForCPUs`, `BuildClusterHints`, cpulist conversions | sysfs changes between two reads; boundaries |
| gRPC daemon (`pkg/daemon`, `pkg/cgv2`, `pkg/evict`) | map of cells; the cgroup v2 tree; processes | `CreateCell`, `DestroyCell`, `AttachPID`, `RunInCell`, `WatchL3`, `SetHugepages`, `EvictForeign` | two copies of one fact, changed under no common lock; every write may fail; pipes and process lifetimes; pid reuse between scan and signal |
| Dashboard (`pkg/dashboard`) | none | middleware, `/healthz`, `/api/exec`, which starts the CLI with a timeout | two allow lists in two packages; grandchildren that hold the output pipes; a deadline racing an exit |
| Huge pages, perf | kernel objects | thin wrappers over system calls | - |
| CLI, supervisor, SDKs | none | dispatch, start-up, clients | the supervisor's process outlives `plasma.Run` |
| `pkg/kubermetrics` | - | - | not modelled, see section 8 |

How they interact: the supervisor runs the coordinator in a goroutine of the
process that also serves the dashboard. The coordinator and `Runner.Run` call
`SelectCPUs` and `affinity.Command` for every vertex. Vertices are processes that
connect back to the coordinator's socket and extend the graph they are part of. The
daemon is a process of its own and shares only packages with the rest.

What makes each part correct: vertices run one at a time, once, after their
dependencies; nothing that was acknowledged is lost; no wake-up is lost; shutdown
happens, and only when nothing is left to do; an order is an order for every map
iteration; a selection has the size and the locality asked for; the daemon's map
agrees with the cgroup tree; a stream delivers all output and then ends; a reply
belongs to its request; what a crashed process leaves behind stops nobody; a
request starts only what it may, and is answered.

## 2. Modules

| Module | Models | Notes |
|---|---|---|
| `Dag` | `dag.Node`, `Validate`, and `TopoOK`: the lists `TopoOrder` accepts | operators only |
| `TopoOrder` | Kahn's algorithm, `dag/graph.go` | shows that `TopoOK` is what it decides |
| `PlasmaGraph` | `AppendDAG`, `PickRunnable`, JSON decoding of a vertex | extends `Dag` |
| `PlasmaService` | abstract specification: a growing graph executed one vertex at a time | implemented by `PlasmaCoordinator` and by `DagRunner` |
| `PlasmaCoordinator` | the coordinator | composes loop, handlers, clients, clock; instantiates `PlasmaService` |
| `PlasmaWire` | one connection at the level of system calls | below the whole messages that `PlasmaCoordinator` exchanges |
| `PlasmaLifecycle` | processes around `plasma.Run` on one socket and one segment path | the loop is one step here |
| `DagRunner` | `Runner.Run` and its text file | extends `TopoOrder`, whose order it executes; instantiates `PlasmaService` |
| `CpuList` | both cpulist formatters and the parser | operators only |
| `Hwloc` | `TopologyFromXML` | operators only |
| `Hints` | `BuildClusterHints`, the tree of `FormatASCII` | extends `CpuList` |
| `Placement` | `Discover`, the topology commands and `nexusflow run` | composes `Hwloc`, `Hints` and `CpuList` |
| `CellDaemon` | the daemon's handlers over the cgroup tree, eviction included | |
| `CellRun` | one `RunInCell` stream | the detail of the `stream` step of `CellDaemon` |
| `Dashboard` | the HTTP handlers, main's dispatch and the processes started | |
| `MC*` | instances for TLC | |
| `*Proofs` | theorems about `PlasmaCoordinator`, `PlasmaWire`, `PlasmaLifecycle`, `DagRunner` (with `TopoOrder`), `Placement`, `CellDaemon`, `CellRun`, `Dashboard` | TLAPS, section 5 |

### PlasmaCoordinator

`pc` is the position of `loop` and then of `Run`'s deferred function; `hpc[c]` that of
the handler of connection `c`. A step is one critical section or one channel or system
operation, so everything the code does between an unlock and the next lock can
interleave. `next` is the loop's own copy of the picked vertex. `wake` is whether the
channel holds its one token. `idle` counts ticks since `lastBump` and saturates at
`IdleExit`, the only value it is compared with. The receive from the timer
(`SelectTimer`) and the test of `idleSince` under its own lock (`IdleTest`) are two
steps: a merge, a bump, a token and further ticks can fall between them. The branch of the loop for
`runningCnt > 0` has no action: `RunningOne`, which is proved, says that it is dead
code. Node ids
are naturals ordered like the strings, commands are "empty or not", and a vertex on
the wire carries the JSON key under which it lists its dependencies, because
`encoding/json` keeps or drops the list depending on that key. `asked` and `acked`
are history variables that no guard reads.

### CellDaemon

`cells` is `Server.cells`; `group` and `where` are the kernel's control groups and the
group of each process. Every file-system operation of `CreateCell` is an action of
its own and may fail. `overlap` and `settled` are history variables for
`RegistryAccurate`: a directory is settled when the last call that changed it
succeeded, met no other changing call on it and no other id registered for it.

`EvictForeign` looks at one process per step and signals one per step; `moved` is a
history of the processes that moved or changed hands since its scan began.

### PlasmaWire

A direction of the socket is the sequence of pieces written to it: `hdr` and `body`
for `WriteJSONFrame`'s two writes, `whole` for a message with a descriptor. A plain
`recv` takes one piece; `recvmsg` takes what is there up to and including the first
piece with a descriptor, as the kernel does. The client may close, and the server
process end, at any point. Every reply carries the number of the call it answers,
so a reply given to the wrong call is visible. Partial arrivals inside a piece
are not told apart from the arrival of the piece: `io.ReadFull` and `_recv_exact`
wait for the rest, and a message of one `sendmsg` below the socket's buffer size
arrives whole.

### PlasmaLifecycle

`sock` and `shm` hold the number of the process whose file is at the path. A process
is `runSupervisor`, `plasmaRunCmd` or `shmCreateCmd`; every removal, creation and
bind is a step, removals go by name, and a process may crash anywhere and leave its
files. The errors of `os.Remove` are ignored by the code, in the supervisor, in `Run`
and in its deferred function: each removal, and the unmapping that comes before one,
may fail in the model. `overlapped` (another Run was under way at the same time) and
`denied` (the removals that failed) are history variables; they name the circumstances
under which the properties excuse a process, and a failed removal excuses only what
follows from that very file having stayed. `seg.path` is read
without a lock while it is cleared; a read during the clearing returns the old
value, the empty one, or a torn one, which faults.

### Placement, Hints, Hwloc

Each sysfs file is read by a step of its own, with CPUs changing state in between.
The document that `hwloc-ls` prints is external; it is built from the online CPUs in
both layouts in use (NUMA nodes around the packages, or beside the CPUs), with and
without core numbers. The commands then report or select, bind and execute.
`numactl --cpunodebind` sets the affinity anew, which `allowed` shows.

### Dashboard

One connection, one request after the other, because handlers share nothing. Argument
vectors are reduced to their length, root, completeness and whether an element is
malformed. Written chunks are counted in the pipe, in the buffer and in the
response. The context kills the direct child only. What `cmd.Run` then waits for is not
that the processes below it end but that nobody holds the pipes (`Held`): a command of
`dag run` holds them until it ends or redirects its output (`node`), and so does what
any command, that of `run` included, has left in the background (`left`).
The dispatch begins with the base name of the executable: the same file is installed
as `nexusflow` and as `kubermetrics` (install_bins.sh), and the dashboard starts
`os.Executable()`, which resolves links.

### CellRun, DagRunner, CpuList, TopoOrder

`CellRun` keeps who holds each pipe's write end, since end-of-file, and with it the
end of the stream, depends on nothing else. `DagRunner` keeps what the text file
shows, an earlier run or the first timings of this one: `os.WriteFile` opens and
truncates it, writes it in pieces and may stop at any of them. As an executor of a graph it has the vertices of the timings with
exit 0 completed and the one at `exec` running. `CpuList` represents text by its comma-separated intervals. `TopoOrder`
takes one vertex from the queue, or follows one edge, per step; `succs` is the rest
of the inner loop's range. The loops of `CpuList`, `Hints` and `Hwloc` are recursive
functions or quantifiers, never `RECURSIVE` operators, so that they can be reasoned
about.

## 3. Runs

| Run | Result | Shows |
|---|---|---|
| `plasma` | pass | graph, wake-up, acknowledgement and shutdown safety with two connections, and that the coordinator implements `PlasmaService` |
| `plasma_live` | pass | signalled vertices are executed, unless an idle exit overtakes the token; `Run` returns |
| `plasma_idle_race` | violation | finding 1 |
| `plasma_listed_deps` | violation | finding 2 |
| `plasma_wire` | pass | replies match calls, descriptors are neither lost nor kept, half a frame is no request, calls end |
| `plasma_wire_error` | violation | finding 3 |
| `plasma_lifecycle` | pass | restart after a crash, with removals that may fail: clean-up on every path, whose segment is handed out, which socket counts as ready |
| `dag` | pass | Kahn's algorithm for all small lists and all map orders; the runner's dependencies, text file and termination, and that it implements `PlasmaService` |
| `topology` | pass | locality, memory binding, refusals; consistency of the reports; round trip and agreement of the two formatters |
| `cells` | pass | when registry and cgroup tree agree, that one undisturbed call repairs them, and whom an eviction stops |
| `cell_run` | pass | complete output, exit code, descriptors, termination |
| `dashboard` | pass | what may be started, what the response says, what it waits for and what not |

Deadlock checking is off where the modelled call simply returns and nothing is left
to do, which is all of them but `dashboard`; that the coordinator, the runner, the
stream and a client's call do not stop early is stated as liveness instead.

### Bounds

The theorems of section 5 hold for every value of the bounds below; for liveness the
bounds remain.

- `plasma`: five ids, five pipeline files (a chain, an empty graph, a cycle, two that
  `LoadFile` refuses), seven branches that succeed, collide, dangle, repeat an id,
  close a cycle or have no command, two connections, two requests, `IdleExit` of one
  tick. Two handlers and the loop are the smallest number for which a merge, a
  second merge and the timer can all be in progress.
- `plasma_live`: one connection and three requests, so that a token can be stale,
  dropped and fresh in one behaviour; no symmetry, since liveness is checked.
- `plasma_wire`: four calls, enough for a reply to be left behind, skipped over and
  taken for another call's. The violation run needs one.
- `plasma_lifecycle`: three starts, of which two alive at once: a process can leave
  files, a second take them over, and a third collide with the second. Two
  processes suffice for every pairwise race on the two paths. One removal fails
  among the processes alive, and one request is served at a time: a handler shares
  only `seg.path` with the others.
- `dag`: every list of at most three vertices over three ids with at most two
  dependency entries each: cycles of length one to three, repeated ids and repeated
  entries all occur; the runner goes on with a chain, a fork, a join, independent
  vertices, none, and a cycle.
- `topology`: all subsets of 0..9 for the formatters. Four CPUs in two packages, on
  nodes of three, one and none, two of them threads of one core and core numbers
  that repeat across packages; one hotplug event; every `want`, preference and strategy.
- `cells`: two ids that share a directory and the empty id, two calls at a time, four
  altogether (create, attach, failed destroy, repair), one process id, which is
  enough for it to change hands during an eviction.
- `dashboard`: two forks below the started process, one after the other or one out
  of the other, and two chunks of output; a timeout left out, one below and one above the clamps.
- `cell_run`: two chunks per stream and room for two in a pipe, so a stream can be full.

### Fairness

`plasma_live`: weak fairness of the loop (`Finish` included: node commands end), of
each handler once it holds a request, and of the clock. Goroutines that can run are
run by the Go scheduler. Clients, hang-ups and cancellation are not fair.
`dag`: weak fairness of the runner, with the same assumption on
commands. `cell_run`: weak fairness of the handler, both pumps and the goroutine of
`exec.CommandContext`; a pump's `Send` relies on a client that reads or goes away.
The processes are not fair, so `ReturnsAfterProcesses` speaks only of streams
whose processes have ended. `plasma_wire`: weak fairness of the handler, of the
client's receiver and of the rest of a frame that was begun; new calls, `Close` and
the end of the server are not fair. `dashboard`: weak fairness of the handler, of
`watchCtx`, of the reaping, of the copying goroutines and of the deadline, which
`time.AfterFunc` guarantees; the processes may hang for ever.

## 4. Findings

1. `--idle-exit` is described as "shutdown when no runnable work and socket quiet for
   this long"; the coordinator can shut down between the merge of a branch and its
   `bumpActivity`. `IdleExitClean`, which holds and is proved, names the other ways in
   which an idle exit can leave work behind: a token that the loop has not taken because
   it received the timer instead, before the token came or by the choice of `select`
   between the two, if `IdleExit` has passed by the time `idleSince` is read; and a
   cyclic pipeline file.
2. `depends_on` in a branch message is dropped: `dag.Node` has no JSON tags. The
   example `worker_branch.py` sends it.
3. An error reply to `request_fd` is written as length and body separately, while the
   receivers make a single `recvmsg`. When only the length has arrived the call fails
   and the body stays in the stream, where the next call takes it for a length.
   `worker_branch.py` catches the failure and calls `branch` on the same connection.

Smaller observations, met while modelling and not stated as runs:

- `Runner.Run` leaves the Prometheus file untouched when `SelectCPUs` or
  `affinity.Command` refuses a node (run.go:42-48), though the comment at run.go:18
  promises a write after "the first failing node". `os.WriteFile` truncates the file
  before it writes: node_exporter can read the beginning of a series.
- `WatchL3` copies the lead CPU once and goes on sampling it after the cell has been
  moved (grpc_linux.go:182; SECURITY.md:72).
- `nexusflow run` with `numactl` widens the affinity from the selected CPUs to all CPUs
  of their node; the memory binding stays right (`MemoryIsLocal`).
- hwloc 2 prints NUMA nodes beside their CPUs, so the walk, which inherits the node from
  an enclosing object, finds none.
- `EvictForeign` also stops processes of cells on the target CPUs.
- Without a topology the supervisor has already unlinked the socket path, whoever uses it.
- A start that fails in `LoadFile` has unlinked the segment of a coordinator that is
  alive with the same name; its clients then get another file or an error
  (`OwnSegment` excuses exactly that).
- `plasma` is an allowed root of `/api/exec` and `plasmaRunCmd` exists, but `main`
  has no case for it: the command ends with status 2.
- A list of blank `--allow-cidr` values is no filter, although the flag's text says that
  peers outside are rejected if it is set.
- When the program's file is named `kubermetrics` (and `nexusflow` a link to it), every
  vector that `/api/exec` accepts is given to `kubermetrics.Main`.
- A child that ends with status 0 just as the deadline kills it is reported as -1.
- The "subprocess wall clock" of `/api/exec` (server.go:47; README.md:170 calls it capped,
  SECURITY.md names it as a limit) bounds the direct child only. `cmd.Run` has no `WaitDelay`
  and waits for whoever holds the output pipes: a command of `dag run`, which is not
  killed with its parent, or a process that the command of `run` left in the background can
  hold up the answer for as long as it likes. `Answered` states what is left of the limit.
- `os.Remove` of the socket fails when it belongs to another user in a sticky directory; the
  error is ignored. `Run` then ends with "address already in use", and the supervisor
  reports the stale socket as ready (supervisor.go:40, 66-70).
- `perf.Open` with pid -1 and cpu -1 is refused by the kernel, so that a
  `perf_cycles` request always gets the error reply of finding 3.

## 5. Proofs

Every invariant that a passing run checks is a theorem, and so are the action
properties and both refinements; liveness alone stays with TLC. The theorems assume what the named `ASSUME`s of the modules say: constants have their types,
bounds are naturals, a machine has finitely many CPUs and nodes, a pipeline that
reaches `Runner.Run` was accepted by `Validate`, `IdleExit` is positive. TLC evaluates
each of them on the instances of the runs.

In each proof module an inductive invariant `IInv` (in the coordinator's, three that
build on each other) holds initially, is kept by every step, one lemma or step per
action, and implies the properties. None of the properties is inductive by itself;
what had to be added says most about why the code works.

### PlasmaCoordinatorProofs

For all node ids, pipelines, branches, samples, connections, timeouts and requests.

- `Typing`: `TypeOK`. Inductive with `HandlerReq` (a handler past dispatch holds a
  request of that kind) and `HoldsNode` (`next` is a vertex once picked).
- `RunningSafety`, `DependencySafety`, `GraphSafety`: between the pick and the mark
  the loop holds a copy, so `GraphInv` adds that this copy is not completed
  (`NextFresh`), and unique ids are needed for "the vertex completed is the vertex picked".
- `WakeupSafety`: `NoLostWakeup`, from `GraphInv`: a vertex can become ready behind the
  loop's back only in `MergeBranch`, whose handler then owes a token, and only the
  loop takes tokens.
- `IdleExitSafety`: `IdleExitClean`, from `NoLostWakeup` and `NoStall`: in a graph that
  `TopoOrder` accepts some vertex is ready as long as one is not completed; so at the
  idle test there is a token in the channel, or a handler about to put one there.
- `SampleSafety`, `BranchSafety`: with `AckInv`, a handler that is about to acknowledge
  has already appended or merged, and nothing is taken out again.
- `FailureSafety`: `FailureIsFinal`, with `FailedAt`.
- `Refinement`: `Spec => ImplementsService`. `MarkRunning` is the abstract start,
  `Settle` its completion or the stop, `MergeBranch` growth; all else stutters.

### PlasmaWireProofs

For any number of calls. `Held` gives the handler's descriptors for each of its
positions; with it `DescriptorSafety` is a matter of every error path. `Framed` says
that the stream to the server is whole frames and at most one length more, and how its
length relates to the calls sent and decoded. It holds of a client that is out of
step too, which runs ahead of the handler: otherwise `RequestSafety` would need the
excuse that `RepliesMatch` has. `InStep` says that until a receiver stops inside a
frame there is at most one request or reply in flight, the current call's, and
where it is; from it follows `ReplySafety`.

### PlasmaLifecycleProofs

For any number of starts, any number alive at once, crashes anywhere. `Alone`: a Run that
no other overlapped is the only one under way from its start to its return, so what it
removed stays away until it creates its own, and what it could not remove is named in
`denied`. `Local(p)` says for each position of
process `p` whose file can be at each path and what its descriptor refers to.
`InOrder` (processes start in the order of their numbers) makes "left by an earlier
process" the same as "smaller number", which `ReadySafety` needs.

### DagRunnerProofs

For node lists of any length, with repeated ids, repeated entries, unknown
dependencies and cycles, and every order of the first queue. `Counted`: an in-degree is
the number of pending entries of the id, those whose dependency is not ordered
yet or whose edge the inner loop has still to walk. `Ready`: the count is zero exactly
if the id is queued or ordered. `Once` and `Sorted` say that no id is queued or ordered
twice and that dependencies come first. Then:

- `OrderSafety` and one half of `VerdictSafety`: an order as long as the list holds
  every id, each once; in any non-empty set of ids the one ordered first has no
  dependency in the set, so the list is acyclic.
- The other half: if the list were acceptable, the ids left out would have a member
  all of whose dependencies are ordered. Its count is then zero, so it is queued,
  and the queue is empty.

`Acyclic` is stated with sets of ids, which is what keeps induction over the
list out of the argument. `DependencySafety` and `ExpositionSafety` are about the
runner: `Progress` says that the timings are those of the vertices before `at`, all 0
until a step fails, and a dependency is before `at` because the order is topological.
`Ended` carries this over the end of the loop, when the file is written: all vertices of
the list have succeeded if `Run` is going to return nil, all but the last timing otherwise.

`Refinement`: `Spec => ImplementsService`. `Place` is the abstract start, `NodeSucceeds`
its completion, the end of the loop a stop; all else, the text file included, stutters. `SucceededIs`: while `Run` has
not returned, the completed vertices are those ordered before `at`. From it and the
topological order follows `NextIsReady`: the vertex at `at` is not completed and its
dependencies are, which is what the abstract start asks for.

### PlacementProofs

For every finite machine, every snapshot and every hotplug sequence. `SelectCPUs` takes
the `n` first CPUs of a sorted list; that they are `n` is `Ranked`: the number of CPUs
before each is an injection into an interval as large as the set, hence onto. `LowestIs`, `SpillIs` and
`BestIs` rest on it and `SelectIs` states the whole of `SelectCPUs`, from which
`SelectionSafety` and `RefusalSafety` follow. For `MemorySafety` the invariant `Read` says
that each pass of `Discover` gives a CPU its hardware node or none, and a list only
CPUs of its node, whatever went on- or offline between the reads.

`FormatSafety` and `HintsSafety` are about loops over data of any size. The library's
induction theorems take a predicate as a parameter, which the provers cannot
instantiate. `UpTo` is induction up to a bound with a set in its place, proved from the
existence of least elements (`LeastExists`). `Loop` takes the turns of a loop as a
function and says that some function describes all its states; hence the recursive
function of the model satisfies its equation, and with `UpTo` a loop invariant
holds after every turn.

- `FormatIs`, `TasksetIs`: before each turn both formatters have written, in order,
  the maximal intervals that end below the current one; `SortedGaps` says that a
  sorted list has no id between two neighbours. Hence both print `Reference`, the
  maximal intervals in increasing order (`ReferenceIs`, `SortedUnique`), whose union is
  the set again.
- `HintsIs`: sockets and cores are counted by sums over lists; `TotalIs` says that the sum
  over pairwise disjoint sets is the size of their union, so the sockets' counts add up.
  `TreeIs` and `SocketsIs` say that each CPU is on one line and in one socket.
- `HwlocIs`: the document is the places of its objects in order (`InOrderIs`). Before each
  object the walk has met exactly the ones that precede it (`WalkLoop`, `WalkedStep`), so
  that two PUs get the same package and core number exactly if they are in one core,
  whether the document numbers its cores or not.
- `Found` and `Output` carry this through the steps of `Discover` and the commands:
  what was read agrees with the hardware when no CPU changed state meanwhile, and what is
  printed is the report of what was read.

### CellDaemonProofs

For any number of ids, directories, calls and processes. `Undisturbed(c)`: a call that has
met no other on its directory still finds there what it wrote, for each of its
positions. It is kept because two calls that change one directory know of each other
(`Apart`), and calls on other directories write neither its group nor the entries
that name it (`PathsOwn`). `EvictionSafety` is an action property; its invariant
`Targets` says that what a scan found was on the target CPUs or is in `moved`.

### CellRunProofs and DashboardProofs

For every pipe capacity, amount of output and number of forks. In both, chunks
are conserved (`Conserved`): what was written is in the pipe, in the goroutine's hands
or buffer, or sent. `FinishedIsLast` is the other half of the order that
`OutputSafety` states: nothing is sent after the Finished chunk. In `CellRun`, `WriteEndsClosed` and `DoneMeansDry` turn the end of
a pump into "no writer is left and the pipe is empty". In `Dashboard`, `Admitted` says
what each middleware has established for the handlers behind it, and `DispatchAllowed`
that `main` makes a harmless command of every vector that `validateArgv` accepts, unless
the program is called `kubermetrics`.

### Only model-checked

- Liveness (`EventuallyExecuted`, `EventuallyReturns`, `Returns`, `CallsEnd`, `Answered`,
  `ReturnsAfterProcesses`, `PipesDrain`): it rests on fairness and `ENABLED`, which are
  out of the prover's reach.

## 6. Mutants

Each property of a passing run has a mutant: an operator marked `Mutant:` next to the
definition that it replaces, which changes it the way a slip in the code would. TLC
finds the property violated with it.

## 7. Plan

The modules were written in this order: the coordinator with its graph and its abstract
service; the wire below it and the life of its process; the ordering and the
runner; topology and placement; the daemon's cells and streams; the dashboard. Each
has its theorems, and the safety properties of all of them are proved. What could
follow:

1. The relation between `CellRun` and the `stream` step of `CellDaemon`: the two share no
   state but the life of one process, so a refinement would first need a module
   that composes them.
2. What an unchecked failure to attach leaves behind (grpc_linux.go:119), once the
   repository says what is meant; today no text of it does.

## 8. Not modelled

- `pkg/kubermetrics`, with its template and the calls to it in the supervisor and the
  install script. Its encoded default settings name a Monero mining pool and a
  wallet, and it deploys the miner as workloads named after systemd services. No
  property of it is stated here, and anyone who runs the supervisor or the install
  script should know that both start it by default.
- Generated gRPC code; the CLI's flag parsing; the shell, Open MPI, Slurm, matrix and
  JSON texts of the topology; static dashboard pages.
- `perf` and `hugepages`: single system calls whose failure appears as a choice in the
  modules that use them; `affinity.Command`'s argument vector; the stubs for other
  operating systems.
- Functions that nothing calls: `shm.OpenPath`, `evict.ThreadPath`.
- Memory-model races below the granularity of a critical section, except the read of
  `seg.path` in `PlasmaLifecycle`.
