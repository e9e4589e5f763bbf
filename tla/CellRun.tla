------------------------------ MODULE CellRun ------------------------------
(***************************************************************************)
(* One RunInCell stream of pkg/daemon/grpc_linux.go, from its first        *)
(* os.Pipe to its return: the handler, the two goroutines that pump the    *)
(* process's output into the gRPC stream, the goroutine of                 *)
(* exec.CommandContext that kills the process when the client goes away,   *)
(* and the process, which may leave a descendant behind that shares its    *)
(* pipes.  The bytes of one Read are one chunk; a pipe holds PipeCap.      *)
(* Looking the cell up and attaching the process are CellDaemon.tla.       *)
(***************************************************************************)
EXTENDS Integers

CONSTANTS PipeCap,   \* chunks that a pipe buffers
          MaxChunks  \* bound: chunks written to each stream

ASSUME PipeCapAssumption == PipeCap \in Nat \ {0}
ASSUME MaxChunksAssumption == MaxChunks \in Nat

Stream == {"stdout", "stderr"}
Daemon == "daemon"
Proc   == "process"
Helper == "descendant"

\* How a process ends: with status 0, with another one, or by a signal.
Status == {"0", "1", "signal"}

VARIABLES writers,    \* holders of the write end of each pipe
          reader,     \* pipes whose read end the daemon holds
          buf,        \* chunks in each pipe
          written,    \* chunks written altogether
          sent,       \* chunks that the client was sent
          pump,       \* where the goroutine of each stream stands
          proc,       \* "none", "running" or its Status
          helper,     \* is a descendant alive?
          cancelled,  \* has stream.Context() been cancelled?
          hpc,        \* where the handler stands
          waited,     \* what cmd.Wait returned
          final       \* exit code of the Finished chunk; "none" before it

procVars == <<proc, helper>>
pipeVars == <<writers, reader, buf, written>>
vars == <<pipeVars, sent, pump, procVars, cancelled, hpc, waited, final>>

Init ==
    /\ writers = [s \in Stream |-> {}]
    /\ reader = {}
    /\ buf = [s \in Stream |-> 0]
    /\ written = [s \in Stream |-> 0]
    /\ sent = [s \in Stream |-> 0]
    /\ pump = [s \in Stream |-> "none"]
    /\ proc = "none"
    /\ helper = FALSE
    /\ cancelled = FALSE
    /\ hpc = "pipe1"
    /\ waited = "none"
    /\ final = "none"

-----------------------------------------------------------------------------
(* The handler.                                                            *)

Goto(l) == hpc' = l

OpenPipe(s) ==
    /\ writers' = [writers EXCEPT ![s] = {Daemon}]
    /\ reader' = reader \cup {s}

CloseAll ==
    /\ writers' = [s \in Stream |-> writers[s] \ {Daemon}]
    /\ reader' = {}

OpenStdout ==
    /\ hpc = "pipe1"
    /\ \/ OpenPipe("stdout") /\ Goto("pipe2")
       \/ Goto("returned") /\ UNCHANGED <<writers, reader>>
    /\ UNCHANGED <<buf, written, sent, pump, procVars, cancelled, waited, final>>

\* Mutant: the first pipe stays open when the second cannot be made.
OpenStderrLeaks ==
    /\ hpc = "pipe2"
    /\ \/ OpenPipe("stderr") /\ Goto("start")
       \/ Goto("returned") /\ UNCHANGED <<writers, reader>>
    /\ UNCHANGED <<buf, written, sent, pump, procVars, cancelled, waited, final>>

OpenStderr ==
    /\ hpc = "pipe2"
    /\ \/ OpenPipe("stderr") /\ Goto("start")
       \/ CloseAll /\ Goto("returned")
    /\ UNCHANGED <<buf, written, sent, pump, procVars, cancelled, waited, final>>

Start ==
    /\ hpc = "start"
    /\ \/ /\ writers' = [s \in Stream |-> writers[s] \cup {Proc}]
          /\ proc' = "running"
          /\ Goto("close")
          /\ UNCHANGED reader
       \/ /\ CloseAll
          /\ Goto("returned")
          /\ UNCHANGED proc
    /\ UNCHANGED <<buf, written, sent, pump, helper, cancelled, waited, final>>

\* Mutant: the daemon keeps its copies of the write ends.
KeepWriteEnds == UNCHANGED writers

CloseWriteEnds == writers' = [s \in Stream |-> writers[s] \ {Daemon}]

\* Mutant: the goroutine of stderr is not started.
PumpStdoutOnly == pump' = [pump EXCEPT !["stdout"] = "read"]

StartPumps == pump' = [s \in Stream |-> "read"]

\* ow.Close, ew.Close, and the two goroutines.
Launch ==
    /\ hpc = "close"
    /\ CloseWriteEnds
    /\ StartPumps
    /\ Goto("join")
    /\ UNCHANGED <<reader, buf, written, sent, procVars, cancelled, waited, final>>

Joined == \A s \in Stream : pump[s] = "done"

\* wg.Wait.
Join ==
    /\ hpc = "join"
    /\ Joined
    /\ Goto("wait")
    /\ UNCHANGED <<pipeVars, sent, pump, procVars, cancelled, waited, final>>

\* cmd.Wait: the exit status or, when the process was successful although the
\* context's goroutine had signalled it, the context's error.
Wait ==
    /\ hpc = "wait"
    /\ proc \in Status
    /\ \/ waited' = proc
       \/ proc = "0" /\ cancelled /\ waited' = "ctx"
    /\ Goto("finish")
    /\ UNCHANGED <<pipeVars, sent, pump, procVars, cancelled, final>>

\* Mutant: the code is set from positive statuses only.
ExitCodePositive(w) == IF w = "1" THEN w ELSE "0"

ExitCode(w) == IF w \in {"ctx", "signal"} THEN "-1" ELSE w

\* The Finished chunk; the error of stream.Send is dropped.
Finish ==
    /\ hpc = "finish"
    /\ final' = ExitCode(waited)
    /\ Goto("returned")
    /\ UNCHANGED <<pipeVars, sent, pump, procVars, cancelled, waited>>

-----------------------------------------------------------------------------
(* pipeToStream, one goroutine per stream.                                 *)

Read(s) ==
    /\ pump[s] = "read"
    /\ buf[s] > 0
    /\ buf' = [buf EXCEPT ![s] = @ - 1]
    /\ pump' = [pump EXCEPT ![s] = "send"]
    /\ UNCHANGED <<writers, reader, written, sent, procVars, cancelled, hpc, waited, final>>

\* stream.Send under sendMu; it fails once the context is cancelled, and the
\* error is dropped.
Send(s) ==
    /\ pump[s] = "send"
    /\ sent' = IF cancelled THEN sent ELSE [sent EXCEPT ![s] = @ + 1]
    /\ pump' = [pump EXCEPT ![s] = "read"]
    /\ UNCHANGED <<pipeVars, procVars, cancelled, hpc, waited, final>>

\* Mutant: what is still in the pipe when its writers have gone is not read.
ReadEOFEarly(s) ==
    /\ pump[s] = "read"
    /\ writers[s] = {}
    /\ pump' = [pump EXCEPT ![s] = "done"]
    /\ reader' = reader \ {s}
    /\ UNCHANGED <<writers, buf, written, sent, procVars, cancelled, hpc, waited, final>>

\* The pipe is empty and nobody can write to it any more.
ReadEOF(s) ==
    /\ pump[s] = "read"
    /\ buf[s] = 0
    /\ writers[s] = {}
    /\ pump' = [pump EXCEPT ![s] = "done"]
    /\ reader' = reader \ {s}
    /\ UNCHANGED <<writers, buf, written, sent, procVars, cancelled, hpc, waited, final>>

-----------------------------------------------------------------------------
(* The process, its descendant and the client.                             *)

Write(w, s) ==
    /\ w \in writers[s] \ {Daemon}
    /\ buf[s] < PipeCap
    /\ written[s] < MaxChunks
    /\ buf' = [buf EXCEPT ![s] = @ + 1]
    /\ written' = [written EXCEPT ![s] = @ + 1]
    /\ UNCHANGED <<writers, reader, sent, pump, procVars, cancelled, hpc, waited, final>>

Drop(w) == writers' = [s \in Stream |-> writers[s] \ {w}]

\* The process closes a stream and goes on.
CloseStream(s) ==
    /\ Proc \in writers[s]
    /\ writers' = [writers EXCEPT ![s] = @ \ {Proc}]
    /\ UNCHANGED <<reader, buf, written, sent, pump, procVars, cancelled, hpc, waited, final>>

Fork ==
    /\ proc = "running"
    /\ ~helper
    /\ helper' = TRUE
    /\ writers' = [s \in Stream |->
                      IF Proc \in writers[s] THEN writers[s] \cup {Helper} ELSE writers[s]]
    /\ UNCHANGED <<reader, buf, written, sent, pump, proc, cancelled, hpc, waited, final>>

ProcEnds(status) ==
    /\ proc = "running"
    /\ proc' = status
    /\ Drop(Proc)
    /\ UNCHANGED <<reader, buf, written, sent, pump, helper, cancelled, hpc, waited, final>>

\* Only the process itself is killed when the context is cancelled.
Kill == cancelled /\ ProcEnds("signal")

HelperEnds ==
    /\ helper
    /\ helper' = FALSE
    /\ Drop(Helper)
    /\ UNCHANGED <<reader, buf, written, sent, pump, proc, cancelled, hpc, waited, final>>

Cancel ==
    /\ ~cancelled
    /\ cancelled' = TRUE
    /\ UNCHANGED <<pipeVars, sent, pump, procVars, hpc, waited, final>>

HandlerStep ==
    OpenStdout \/ OpenStderr \/ Start \/ Launch \/ Join \/ Wait \/ Finish

PumpStep(s) == Read(s) \/ Send(s) \/ ReadEOF(s)

Next ==
    \/ HandlerStep
    \/ \E s \in Stream : PumpStep(s) \/ CloseStream(s)
    \/ \E s \in Stream, w \in {Proc, Helper} : Write(w, s)
    \/ \E status \in Status : ProcEnds(status)
    \/ Fork \/ Kill \/ HelperEnds \/ Cancel

Spec == Init /\ [][Next]_vars

\* The Go scheduler runs the daemon's goroutines, and a client that does not
\* go away reads the stream.  The processes owe nothing.
Fairness ==
    /\ WF_vars(HandlerStep)
    /\ WF_vars(Kill)
    /\ \A s \in Stream : WF_vars(PumpStep(s))

FairSpec == Spec /\ Fairness

-----------------------------------------------------------------------------
\* A client that stays receives all that was written, by the process and by
\* what it left behind, before the chunk that says Finished; nothing follows
\* that chunk (grpc_linux.go:124-151).
OutputBeforeFinished ==
    (final # "none" /\ ~cancelled) => sent = written

\* The Finished chunk reports success only for a process that was successful,
\* and for a client that stays the exact status (lines 140-150).
ExitCodeTruthful ==
    final # "none" =>
        /\ (final = "0" => proc = "0")
        /\ cancelled \/ final = ExitCode(proc)

\* No end of a pipe stays open in the daemon, however RunInCell returns
\* (lines 99-118, 129, 134).
NoDescriptorLeak ==
    hpc = "returned" => reader = {} /\ \A s \in Stream : Daemon \notin writers[s]

\* RunInCell returns once the process and its descendant have ended.  Cancelling
\* the stream does not replace the second half: only the process is killed, and
\* the handler waits for the pipes before it waits for the process.
ReturnsAfterProcesses ==
    (hpc = "join" /\ proc # "running" /\ ~helper) ~> hpc = "returned"

\* A process is not blocked for ever on a full pipe, whichever of its two
\* streams it fills first.
PipesDrain ==
    \A s \in Stream : (buf[s] = PipeCap) ~> (buf[s] < PipeCap)
=============================================================================
