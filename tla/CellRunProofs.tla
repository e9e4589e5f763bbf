--------------------------- MODULE CellRunProofs ---------------------------
(***************************************************************************)
(* What a RunInCell stream guarantees for every pipe capacity and every    *)
(* amount of output.  The inductive invariant says where the ends of the   *)
(* pipes are at each point of the handler and of its goroutines, and that  *)
(* a chunk is always in exactly one place: in the pipe, in the hands of    *)
(* the goroutine, or with the client.                                      *)
(***************************************************************************)
EXTENDS CellRun, TLAPS

-----------------------------------------------------------------------------
(* The inductive invariant.                                                *)

TypeOK ==
    /\ writers \in [Stream -> SUBSET {Daemon, Proc, Helper}]
    /\ reader \in SUBSET Stream
    /\ buf \in [Stream -> Nat]
    /\ written \in [Stream -> Nat]
    /\ sent \in [Stream -> Nat]
    /\ pump \in [Stream -> {"none", "read", "send", "done"}]
    /\ proc \in {"none", "running"} \cup Status
    /\ helper \in BOOLEAN
    /\ cancelled \in BOOLEAN
    /\ hpc \in {"pipe1", "pipe2", "start", "close", "join", "wait", "finish", "returned"}
    /\ waited \in {"none", "ctx"} \cup Status
    /\ final \in {"none", "0", "1", "-1"}

\* Before cmd.Start no process exists that could hold a pipe, and before the
\* first os.Pipe there is none.
BeforeStart ==
    /\ hpc = "pipe1" => reader = {} /\ \A s \in Stream : writers[s] = {}
    /\ hpc \in {"pipe1", "pipe2", "start"} =>
           /\ proc = "none"
           /\ \A s \in Stream : writers[s] \subseteq {Daemon}

\* The goroutines run from the moment the write ends are closed.
PumpsMatch ==
    /\ hpc \in {"pipe1", "pipe2", "start", "close"} => \A s \in Stream : pump[s] = "none"
    /\ hpc \in {"wait", "finish"} => Joined

\* The daemon's own copies of the write ends go before the goroutines start.
WriteEndsClosed ==
    hpc \in {"join", "wait", "finish", "returned"} =>
        \A s \in Stream : Daemon \notin writers[s]

\* A goroutine that has finished closed its read end, and left nothing behind.
DoneMeansDry ==
    \A s \in Stream : pump[s] = "done" =>
        /\ s \notin reader
        /\ writers[s] = {}
        /\ buf[s] = 0

InHand(s) == IF pump[s] = "send" THEN 1 ELSE 0

\* Until the client goes away, no chunk is lost or sent twice.
Conserved ==
    ~cancelled => \A s \in Stream : written[s] = sent[s] + buf[s] + InHand(s)

\* What cmd.Wait returned, and how it relates to how the process ended.
WaitTruthful ==
    /\ proc \in Status
    /\ waited = proc \/ (waited = "ctx" /\ proc = "0" /\ cancelled)

\* What the Finished chunk rests on.
FinishedFacts ==
    /\ hpc = "finish" => WaitTruthful
    /\ hpc # "returned" => final = "none"
    /\ final # "none" => WaitTruthful /\ Joined /\ final = ExitCode(waited)

Returned == hpc = "returned" => reader = {}

IInv ==
    /\ TypeOK
    /\ BeforeStart
    /\ PumpsMatch
    /\ WriteEndsClosed
    /\ DoneMeansDry
    /\ Conserved
    /\ FinishedFacts
    /\ Returned

-----------------------------------------------------------------------------
\* The invariant holds before the first os.Pipe.
LEMMA InitIInv == Init => IInv
<1> SUFFICES ASSUME Init PROVE IInv
  OBVIOUS
<1> USE DEF Init, Stream, Status, Daemon, Proc, Helper
<1>1. TypeOK
  BY DEF TypeOK
<1>2. BeforeStart
  BY DEF BeforeStart
<1>3. PumpsMatch
  BY DEF PumpsMatch, Joined
<1>4. WriteEndsClosed
  BY DEF WriteEndsClosed
<1>5. DoneMeansDry
  BY DEF DoneMeansDry
<1>6. Conserved
  BY DEF Conserved, InHand
<1>7. FinishedFacts
  BY DEF FinishedFacts
<1>8. Returned
  BY DEF Returned
<1> QED
  BY <1>1, <1>2, <1>3, <1>4, <1>5, <1>6, <1>7, <1>8 DEF IInv

\* Every step of the handler, its goroutines, the processes and the client
\* preserves the invariant.
LEMMA NextIInv == IInv /\ [Next]_vars => IInv'
<1> SUFFICES ASSUME IInv, [Next]_vars PROVE IInv'
  OBVIOUS
<1> USE DEF IInv, TypeOK, BeforeStart, PumpsMatch, WriteEndsClosed, DoneMeansDry, Conserved,
            FinishedFacts, Returned, InHand, Joined, WaitTruthful, Stream, Status,
            Daemon, Proc, Helper, procVars, pipeVars, Goto
<1>1. CASE OpenStdout
  <2>1. TypeOK'
    <3>1. writers' \in [Stream -> SUBSET {Daemon, Proc, Helper}]
      BY <1>1 DEF OpenStdout, OpenPipe
    <3> QED
      BY <1>1, <3>1 DEF OpenStdout, OpenPipe
  <2>2. BeforeStart'
    BY <1>1 DEF OpenStdout, OpenPipe
  <2>3. PumpsMatch'
    BY <1>1 DEF OpenStdout, OpenPipe
  <2>4. WriteEndsClosed'
    BY <1>1 DEF OpenStdout, OpenPipe
  <2>5. DoneMeansDry'
    BY <1>1 DEF OpenStdout, OpenPipe
  <2>6. Conserved'
    BY <1>1 DEF OpenStdout, OpenPipe
  <2>7. FinishedFacts'
    BY <1>1 DEF OpenStdout, OpenPipe
  <2>8. Returned'
    BY <1>1 DEF OpenStdout, OpenPipe
  <2> QED
    BY <2>1, <2>2, <2>3, <2>4, <2>5, <2>6, <2>7, <2>8
<1>2. CASE OpenStderr
  <2>1. TypeOK'
    <3>1. writers' \in [Stream -> SUBSET {Daemon, Proc, Helper}]
      BY <1>2 DEF OpenStderr, OpenPipe, CloseAll
    <3> QED
      BY <1>2, <3>1 DEF OpenStderr, OpenPipe, CloseAll
  <2>2. BeforeStart'
    BY <1>2 DEF OpenStderr, OpenPipe, CloseAll
  <2>3. PumpsMatch'
    BY <1>2 DEF OpenStderr, OpenPipe, CloseAll
  <2>4. WriteEndsClosed'
    BY <1>2 DEF OpenStderr, OpenPipe, CloseAll
  <2>5. DoneMeansDry'
    BY <1>2 DEF OpenStderr, OpenPipe, CloseAll
  <2>6. Conserved'
    BY <1>2 DEF OpenStderr, OpenPipe, CloseAll
  <2>7. FinishedFacts'
    BY <1>2 DEF OpenStderr, OpenPipe, CloseAll
  <2>8. Returned'
    BY <1>2 DEF OpenStderr, OpenPipe, CloseAll
  <2> QED
    BY <2>1, <2>2, <2>3, <2>4, <2>5, <2>6, <2>7, <2>8
<1>3. CASE Start
  <2>1. TypeOK'
    <3>1. writers' \in [Stream -> SUBSET {Daemon, Proc, Helper}]
      BY <1>3 DEF Start, CloseAll
    <3> QED
      BY <1>3, <3>1 DEF Start, CloseAll
  <2>2. BeforeStart'
    BY <1>3 DEF Start, CloseAll
  <2>3. PumpsMatch'
    BY <1>3 DEF Start, CloseAll
  <2>4. WriteEndsClosed'
    BY <1>3 DEF Start, CloseAll
  <2>5. DoneMeansDry'
    BY <1>3 DEF Start, CloseAll
  <2>6. Conserved'
    BY <1>3 DEF Start, CloseAll
  <2>7. FinishedFacts'
    BY <1>3 DEF Start, CloseAll
  <2>8. Returned'
    BY <1>3 DEF Start, CloseAll
  <2> QED
    BY <2>1, <2>2, <2>3, <2>4, <2>5, <2>6, <2>7, <2>8
<1>4. CASE Launch
  BY <1>4 DEF Launch, CloseWriteEnds, StartPumps
<1>5. CASE Join
  BY <1>5 DEF Join
<1>6. CASE Wait
  BY <1>6 DEF Wait
<1>7. CASE Finish
  BY <1>7 DEF Finish, ExitCode
<1>8. ASSUME NEW s \in Stream, Read(s) PROVE IInv'
  BY <1>8 DEF Read
<1>9. ASSUME NEW s \in Stream, Send(s) PROVE IInv'
  BY <1>9 DEF Send
<1>10. ASSUME NEW s \in Stream, ReadEOF(s) PROVE IInv'
  BY <1>10 DEF ReadEOF
<1>11. ASSUME NEW s \in Stream, CloseStream(s) PROVE IInv'
  BY <1>11 DEF CloseStream
<1>12. ASSUME NEW s \in Stream, NEW w \in {Proc, Helper}, Write(w, s) PROVE IInv'
  BY <1>12 DEF Write
<1>13. ASSUME NEW status \in Status, ProcEnds(status) PROVE IInv'
  BY <1>13 DEF ProcEnds, Drop
<1>14. CASE Fork
  BY <1>14 DEF Fork
<1>15. CASE Kill
  BY <1>15 DEF Kill, ProcEnds, Drop
<1>16. CASE HelperEnds
  <2>1. TypeOK'
    BY <1>16 DEF HelperEnds, Drop
  <2>2. BeforeStart'
    BY <1>16 DEF HelperEnds, Drop
  <2>3. PumpsMatch'
    BY <1>16 DEF HelperEnds, Drop
  <2>4. WriteEndsClosed'
    BY <1>16 DEF HelperEnds, Drop
  <2>5. DoneMeansDry'
    BY <1>16 DEF HelperEnds, Drop
  <2>6. Conserved'
    BY <1>16 DEF HelperEnds, Drop
  <2>7. FinishedFacts'
    BY <1>16 DEF HelperEnds, Drop
  <2>8. Returned'
    BY <1>16 DEF HelperEnds, Drop
  <2> QED
    BY <2>1, <2>2, <2>3, <2>4, <2>5, <2>6, <2>7, <2>8
<1>17. CASE Cancel
  BY <1>17 DEF Cancel
<1>18. CASE UNCHANGED vars
  BY <1>18 DEF vars
<1> QED
  BY <1>1, <1>2, <1>3, <1>4, <1>5, <1>6, <1>7, <1>8, <1>9, <1>10, <1>11, <1>12, <1>13, <1>14, <1>15, <1>16, <1>17, <1>18
     DEF Next, HandlerStep, PumpStep

-----------------------------------------------------------------------------
\* The invariant is one of every stream that RunInCell serves.
LEMMA Inductive == Spec => []IInv
BY InitIInv, NextIInv, PTL DEF Spec

\* A client that stays has been sent every chunk that was written, by the
\* process and by the descendant it left, when RunInCell reports Finished.
THEOREM OutputSafety == Spec => []OutputBeforeFinished
<1>1. IInv => OutputBeforeFinished
  <2> SUFFICES ASSUME IInv, final # "none", ~cancelled PROVE sent = written
    BY DEF OutputBeforeFinished
  <2>1. \A s \in Stream : pump[s] = "done" /\ buf[s] = 0
    BY DEF IInv, FinishedFacts, Joined, DoneMeansDry
  <2>2. \A s \in Stream : sent[s] = written[s]
    BY <2>1 DEF IInv, TypeOK, Conserved, InHand
  <2> QED
    BY <2>2 DEF IInv, TypeOK
<1> QED
  BY <1>1, Inductive, PTL

\* Nothing follows the Finished chunk on the stream: both goroutines have ended
\* before it is sent, and RunInCell sends it once (grpc_linux.go:139-151).
THEOREM FinishedIsLast == Spec => [][final # "none" => UNCHANGED <<sent, final>>]_vars
<1>1. IInv /\ [Next]_vars => [final # "none" => UNCHANGED <<sent, final>>]_vars
  <2> SUFFICES ASSUME IInv, Next, final # "none" PROVE UNCHANGED <<sent, final>>
    OBVIOUS
  <2>1. hpc = "returned" /\ \A s \in Stream : pump[s] = "done"
    BY DEF IInv, TypeOK, FinishedFacts, Joined
  <2>2. ~HandlerStep
    BY <2>1 DEF HandlerStep, OpenStdout, OpenStderr, Start, Launch, Join, Wait, Finish
  <2>3. ASSUME NEW s \in Stream, PumpStep(s) PROVE UNCHANGED <<sent, final>>
    BY <2>1, <2>3 DEF PumpStep, Read, Send, ReadEOF, CloseStream
  <2> QED
    BY <2>2, <2>3 DEF Next, CloseStream, Write, ProcEnds, Fork, Kill, HelperEnds, Cancel
<1> QED
  BY <1>1, Inductive, PTL DEF Spec

\* The exit code of the Finished chunk is the process's own status for a
\* client that stays, and never says success of a process that had none.
THEOREM ExitCodeSafety == Spec => []ExitCodeTruthful
<1>1. IInv => ExitCodeTruthful
  BY DEF IInv, TypeOK, FinishedFacts, WaitTruthful, ExitCodeTruthful, ExitCode, Status
<1> QED
  BY <1>1, Inductive, PTL

\* However RunInCell returns, the daemon holds no end of the two pipes.
THEOREM DescriptorSafety == Spec => []NoDescriptorLeak
<1>1. IInv => NoDescriptorLeak
  BY DEF IInv, Returned, WriteEndsClosed, NoDescriptorLeak
<1> QED
  BY <1>1, Inductive, PTL

=============================================================================
