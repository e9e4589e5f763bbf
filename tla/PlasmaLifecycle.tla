-------------------------- MODULE PlasmaLifecycle --------------------------
(***************************************************************************)
(* The life of a Plasma coordinator around its loop: the supervisor        *)
(* (cmd/nexusflow/supervisor.go) or the plasma command starts plasma.Run,  *)
(* which takes over the socket path and the shared-memory path, serves,    *)
(* and gives them up again (coordinator_linux.go:26-99, pkg/shm).          *)
(*                                                                         *)
(* Processes are numbered by their starts; any of them may crash and leave *)
(* its files behind, and several may be alive on the same two paths.  A    *)
(* path holds the number of the process whose file is there.  All removals *)
(* go by name, whoever owns the file.  "nexusflow shm create --name" uses  *)
(* the same paths and leaves its segment on purpose.                       *)
(***************************************************************************)
EXTENDS Integers, FiniteSets, FiniteSetsExt, Functions

CONSTANTS MaxStarts,  \* bound: processes started on these paths
          MaxAlive,   \* bound: of them, those alive at the same time
          MaxDenied   \* bound: failed removals of processes not yet dead

ASSUME MaxStartsAssumption == MaxStarts \in Nat \ {0}
ASSUME MaxAliveAssumption == MaxAlive \in Nat \ {0}
ASSUME MaxDeniedAssumption == MaxDenied \in Nat

Proc == 1..MaxStarts
NoFile == 0

VARIABLES sock, shm,  \* whose file is at cfg.SocketPath and at the segment's path
          pc,         \* the goroutine of plasma.Run
          err,        \* what Run returned
          kind,       \* runSupervisor, plasmaRunCmd or shmCreateCmd
          wait,       \* waitSocket: not called, polling, or returned
          saw,        \* the socket that waitSocket returned true for
          path,       \* seg.path: set, being cleared, empty
          fd,         \* a request_fd handler: the segment it opened, 0 for none
          reply,      \* the last descriptor message: segment and path it names
          overlapped, \* history: another Run was under way during this one
          denied      \* history: the removals of this process that failed

vars == <<sock, shm, pc, err, kind, wait, saw, path, fd, reply, overlapped, denied>>
helperVars == <<wait, saw, fd, reply>>

Kind == {"supervisor", "plasma run", "shm create"}

NoReply == [file |-> NoFile, path |-> "none"]

Init ==
    /\ sock = NoFile /\ shm = NoFile
    /\ pc = [p \in Proc |-> "new"]
    /\ err = [p \in Proc |-> "none"]
    /\ kind = [p \in Proc |-> "none"]
    /\ wait = [p \in Proc |-> "no"]
    /\ saw = [p \in Proc |-> NoFile]
    /\ path = [p \in Proc |-> "unset"]
    /\ fd = [p \in Proc |-> NoFile]
    /\ reply = [p \in Proc |-> NoReply]
    /\ overlapped = [p \in Proc |-> FALSE]
    /\ denied = [p \in Proc |-> {}]

\* Processes that are between their first and their last removal.
Active == { p \in Proc : pc[p] \notin {"new", "disabled", "returned", "dead"} }

Goto(p, l) == pc' = [pc EXCEPT ![p] = l] /\ UNCHANGED err
Return(p, e) == pc' = [pc EXCEPT ![p] = "returned"] /\ err' = [err EXCEPT ![p] = e]

\* A removal of p, named r, fails, and the code goes on without it.  What
\* ln.Close does not unlink is removed again, so that failure has no name.
Denied(p, r) ==
    /\ SumFunction([q \in Proc |-> Cardinality(denied[q])]) < MaxDenied
    /\ denied' = [denied EXCEPT ![p] = @ \cup {r}]

-----------------------------------------------------------------------------
(* Start-up.                                                               *)

\* Starts are numbered in their order.
Start(p, k) ==
    /\ pc[p] = "new"
    /\ \A q \in 1..(p - 1) : pc[q] # "new"
    /\ Cardinality({ q \in Proc : pc[q] \notin {"new", "dead"} }) < MaxAlive
    /\ kind' = [kind EXCEPT ![p] = k]
    /\ Goto(p, CASE k = "supervisor" -> "unlink"
                 [] k = "plasma run" -> "topology"
                 [] k = "shm create" -> "create")
    /\ overlapped' = [q \in Proc |-> overlapped[q] \/ (q = p /\ Active # {}) \/ q \in Active]
    /\ UNCHANGED <<sock, shm, path, denied, helperVars>>

\* Mutant: the supervisor leaves an old socket to plasma.Run.
KeepOldSocket(p) ==
    /\ pc[p] = "unlink"
    /\ Goto(p, "topology")
    /\ UNCHANGED <<sock, shm, kind, path, overlapped, denied, helperVars>>

\* The supervisor unlinks an old socket before it waits for a new one, and
\* ignores the error.
UnlinkSocket(p) ==
    /\ pc[p] = "unlink"
    /\ \/ sock' = NoFile /\ UNCHANGED denied
       \/ sock # NoFile /\ Denied(p, "unlink") /\ UNCHANGED sock
    /\ Goto(p, "topology")
    /\ UNCHANGED <<shm, kind, path, overlapped, helperVars>>

\* Without a topology the supervisor runs no coordinator and the command ends;
\* otherwise Run starts, and the supervisor waits for the socket meanwhile.
DiscoverTopology(p) ==
    /\ pc[p] = "topology"
    /\ \/ Goto(p, IF kind[p] = "supervisor" THEN "disabled" ELSE "dead") /\ UNCHANGED wait
       \/ /\ Goto(p, "unlinkShm")
          /\ wait' = [wait EXCEPT ![p] = IF kind[p] = "supervisor" THEN "polling" ELSE "no"]
    /\ UNCHANGED <<sock, shm, kind, saw, path, fd, reply, overlapped, denied>>

\* waitSocket: a socket at the path, whoever bound it, or the timeout.
WaitSocket(p) ==
    /\ wait[p] = "polling"
    /\ wait' = [wait EXCEPT ![p] = "returned"]
    /\ saw' \in {saw, [saw EXCEPT ![p] = sock]}
    /\ UNCHANGED <<sock, shm, pc, err, kind, path, fd, reply, overlapped, denied>>

-----------------------------------------------------------------------------
(* plasma.Run and shm.CreateNamed.                                         *)

\* A failure to remove the old segment is logged, no more.
RemoveStaleShm(p) ==
    /\ pc[p] = "unlinkShm"
    /\ \/ shm' = NoFile /\ UNCHANGED denied
       \/ shm # NoFile /\ Denied(p, "unlinkShm") /\ UNCHANGED shm
    /\ Goto(p, "load")
    /\ UNCHANGED <<sock, kind, path, overlapped, helperVars>>

\* dag.LoadFile, and the checks of the segment's name.
LoadFile(p) ==
    /\ pc[p] = "load"
    /\ \/ Return(p, "pipeline")
       \/ Goto(p, "create")
    /\ UNCHANGED <<sock, shm, kind, path, overlapped, denied, helperVars>>

\* Mutant: without O_EXCL an existing file is opened.
OpenExisting(p) ==
    /\ pc[p] = "create"
    /\ shm' = IF shm = NoFile THEN p ELSE shm
    /\ Goto(p, "map")
    /\ UNCHANGED <<sock, kind, path, overlapped, denied, helperVars>>

\* os.OpenFile with O_EXCL.
CreateNamed(p) ==
    /\ pc[p] = "create"
    /\ IF shm # NoFile THEN Return(p, "shm exists") /\ UNCHANGED shm
       ELSE Goto(p, "map") /\ shm' = p
    /\ UNCHANGED <<sock, kind, path, overlapped, denied, helperVars>>

\* ftruncate, mmap and close: when one fails the new file is removed, if it
\* can be.
MapSegment(p) ==
    /\ pc[p] = "map"
    /\ \/ Return(p, "shm map") /\ shm' = NoFile /\ UNCHANGED <<path, denied>>
       \/ Return(p, "shm map") /\ shm # NoFile /\ Denied(p, "map") /\ UNCHANGED <<path, shm>>
       \/ /\ kind[p] # "shm create"
          /\ Goto(p, "unlinkSock") /\ path' = [path EXCEPT ![p] = "set"]
          /\ UNCHANGED <<shm, denied>>
    /\ UNCHANGED <<sock, kind, overlapped, helperVars>>

\* The shm command prints the path, unmaps the segment and ends.
shmCreateCmd(p) ==
    /\ pc[p] = "map" /\ kind[p] = "shm create"
    /\ Goto(p, "dead")
    /\ UNCHANGED <<sock, shm, kind, path, overlapped, denied, helperVars>>

\* Mutant: the old socket stays.
SkipRemoveSocket(p) ==
    /\ pc[p] = "unlinkSock"
    /\ Goto(p, "listen")
    /\ UNCHANGED <<sock, shm, kind, path, overlapped, denied, helperVars>>

\* The error of this removal is discarded.
RemoveSocket(p) ==
    /\ pc[p] = "unlinkSock"
    /\ \/ sock' = NoFile /\ UNCHANGED denied
       \/ sock # NoFile /\ Denied(p, "unlinkSock") /\ UNCHANGED sock
    /\ Goto(p, "listen")
    /\ UNCHANGED <<shm, kind, path, overlapped, helperVars>>

\* Mutant: a failed listen returns at once.
ListenKeepsSegment(p) ==
    /\ pc[p] = "listen"
    /\ \/ sock = NoFile /\ sock' = p /\ Goto(p, "serve")
       \/ /\ sock # NoFile /\ UNCHANGED sock
          /\ Return(p, "address in use")
    /\ UNCHANGED <<shm, kind, path, overlapped, denied, helperVars>>

\* net.Listen binds the path; if that fails the segment is removed again.
Listen(p) ==
    /\ pc[p] = "listen"
    /\ \/ sock = NoFile /\ sock' = p /\ Goto(p, "serve")
       \/ /\ UNCHANGED sock
          /\ pc' = [pc EXCEPT ![p] = "removeShm"]
          /\ err' = [err EXCEPT ![p] = IF sock = NoFile THEN "listen" ELSE "address in use"]
    /\ UNCHANGED <<shm, kind, path, overlapped, denied, helperVars>>

\* The loop returns (idle, a failed node, ctx).
LoopReturns(p) ==
    /\ pc[p] = "serve"
    /\ Goto(p, "close")
    /\ UNCHANGED <<sock, shm, kind, path, overlapped, denied, helperVars>>

\* The deferred teardown: ln.Close unlinks the path, os.Remove does it again;
\* both errors are discarded.  dumpSamples touches no file of this model.
CloseListener(p) ==
    /\ pc[p] \in {"close", "removeSock"}
    /\ \/ sock' = NoFile /\ UNCHANGED denied
       \/ pc[p] = "close" /\ UNCHANGED <<sock, denied>>
       \/ pc[p] = "removeSock" /\ sock # NoFile /\ Denied(p, "removeSock") /\ UNCHANGED sock
    /\ Goto(p, IF pc[p] = "close" THEN "removeSock" ELSE "removeShm")
    /\ UNCHANGED <<shm, kind, path, overlapped, helperVars>>

\* Segment.Remove: unmap, whose failure ends it, ...
UnmapFails(p) ==
    /\ pc[p] = "removeShm"
    /\ Denied(p, "munmap")
    /\ pc' = [pc EXCEPT ![p] = "returned"]
    /\ UNCHANGED <<sock, shm, err, kind, path, overlapped, helperVars>>

\* ... unlink, then clear the path, which handlers may be reading.
RemoveSegment(p) ==
    /\ pc[p] = "removeShm"
    /\ \/ shm' = NoFile /\ UNCHANGED denied
       \/ shm # NoFile /\ Denied(p, "removeShm") /\ UNCHANGED shm
    /\ path' = [path EXCEPT ![p] = "clearing"]
    /\ Goto(p, "clear")
    /\ UNCHANGED <<sock, kind, overlapped, helperVars>>

ClearPath(p) ==
    /\ pc[p] = "clear"
    /\ path' = [path EXCEPT ![p] = "empty"]
    /\ pc' = [pc EXCEPT ![p] = "returned"]
    /\ UNCHANGED <<sock, shm, err, kind, overlapped, denied, helperVars>>

-----------------------------------------------------------------------------
(* A request_fd handler, which reads seg.Path() twice without a lock.      *)

Serving(p) == pc[p] \in {"serve", "close", "removeSock", "removeShm", "clear", "returned"} /\ err[p] = "none"

\* What a read of seg.path can return; a torn read faults.
PathRead(p) ==
    CASE path[p] = "set" -> {"set"}
      [] path[p] = "clearing" -> {"set", "empty", "torn"}
      [] OTHER -> {"empty"}

\* Bound: one request among the processes alive; requests change no other state.
OpenSegment(p) ==
    /\ Serving(p)
    /\ \A q \in Proc : fd[q] = NoFile /\ reply[q] = NoReply
    /\ "set" \in PathRead(p) /\ shm # NoFile
    /\ fd' = [fd EXCEPT ![p] = shm]
    /\ UNCHANGED <<sock, shm, pc, err, kind, wait, saw, path, reply, overlapped, denied>>

SendDescriptor(p) ==
    /\ Serving(p) /\ fd[p] # NoFile
    /\ \E s \in PathRead(p) \ {"torn"} : reply' = [reply EXCEPT ![p] = [file |-> fd[p], path |-> s]]
    /\ fd' = [fd EXCEPT ![p] = NoFile]
    /\ UNCHANGED <<sock, shm, pc, err, kind, wait, saw, path, overlapped, denied>>

\* A crash, a torn read, or the end of a process whose Run has returned.  The
\* files stay where they are; nothing else of the process does.
Crash(p) ==
    /\ pc[p] \notin {"new", "dead"}
    /\ pc' = [pc EXCEPT ![p] = "dead"]
    /\ err' = [err EXCEPT ![p] = "none"]
    /\ kind' = [kind EXCEPT ![p] = "none"]
    /\ wait' = [wait EXCEPT ![p] = "no"]
    /\ saw' = [saw EXCEPT ![p] = NoFile]
    /\ path' = [path EXCEPT ![p] = "unset"]
    /\ fd' = [fd EXCEPT ![p] = NoFile]
    /\ reply' = [reply EXCEPT ![p] = NoReply]
    /\ overlapped' = [overlapped EXCEPT ![p] = FALSE]
    /\ denied' = [denied EXCEPT ![p] = {}]
    /\ UNCHANGED <<sock, shm>>

RunStep(p) ==
    \/ UnlinkSocket(p) \/ DiscoverTopology(p) \/ RemoveStaleShm(p) \/ LoadFile(p)
    \/ CreateNamed(p) \/ MapSegment(p) \/ shmCreateCmd(p) \/ RemoveSocket(p) \/ Listen(p)
    \/ LoopReturns(p) \/ CloseListener(p) \/ UnmapFails(p) \/ RemoveSegment(p)
    \/ ClearPath(p)

Next ==
    \E p \in Proc : \/ \E k \in Kind : Start(p, k)
                    \/ RunStep(p) \/ WaitSocket(p)
                    \/ OpenSegment(p) \/ SendDescriptor(p) \/ Crash(p)

Spec == Init /\ [][Next]_vars

-----------------------------------------------------------------------------
\* What an earlier process left behind keeps a coordinator from starting only
\* if it could not be removed: Run fails on an existing segment or an address
\* in use only if another Run was under way at the same time, or its own
\* removal of that very file had failed (coordinator_linux.go:47-69; the
\* comment at 48).
StaleNeverBlocks ==
    \A p \in Proc : kind[p] # "shm create" =>
        /\ err[p] = "shm exists" => overlapped[p] \/ "unlinkShm" \in denied[p]
        /\ err[p] = "address in use" => overlapped[p] \/ "unlinkSock" \in denied[p]

\* On every path out of Run, the failing ones too, its socket and its segment
\* are gone unless their last removal failed: a file belongs to a Run under
\* way, to a process that died in it, or to one that was denied its removal.
NoLitter ==
    /\ sock # NoFile => \/ pc[sock] \notin {"new", "disabled", "returned"}
                        \/ "removeSock" \in denied[sock]
    /\ shm # NoFile => \/ pc[shm] \notin {"new", "disabled", "returned"}
                       \/ denied[shm] \cap {"map", "munmap", "removeShm"} # {}

\* The descriptor that request_fd sends is that of the coordinator's own
\* segment, unless another Run has worked on the same path or the segment could
\* not be unmapped; the path sent with it is empty only once the teardown has
\* begun.
OwnSegment ==
    \A p \in Proc : reply[p] # NoReply =>
        /\ reply[p].file = p \/ overlapped[p] \/ "munmap" \in denied[p]
        /\ reply[p].path = "empty" => pc[p] \in {"clear", "returned", "dead"}

\* waitSocket reports a socket that an earlier process left behind only if the
\* supervisor's own removal of it had failed: otherwise it was bound by this
\* process's coordinator, by one started later, or by one that was under way
\* at the same time (supervisor.go:40, 66-70).
ReadyMeansNotStale ==
    \A p \in Proc : saw[p] # NoFile =>
        saw[p] >= p \/ overlapped[p] \/ "unlink" \in denied[p]
=============================================================================
