----------------------------- MODULE PlasmaWire -----------------------------
(***************************************************************************)
(* One Plasma connection at the level of its system calls: the length-     *)
(* prefixed frames of pkg/plasma/frame.go, the descriptor messages of      *)
(* wire_linux.go, the handler's replies (coordinator_linux.go) and the     *)
(* clients' receivers: _recv_frame_json and recv_json_with_fds of the      *)
(* Python SDK (sdk/python/nexusflow_sdk/plasma.py), and the Go reader      *)
(* ReadJSONFrameWithOptionalFD.                                            *)
(*                                                                         *)
(* A direction of the socket is the sequence of the pieces written to it.  *)
(* The n-th call of the client is answered by frames marked n, so that a   *)
(* reply given to the wrong call can be seen.  What a JSON body says is    *)
(* reduced to its op.                                                      *)
(***************************************************************************)
EXTENDS Integers, Sequences, FiniteSets, SequencesExt

CONSTANT MaxCalls   \* bound: calls on the connection

ASSUME MaxCallsAssumption == MaxCalls \in Nat

\* hello, sample and branch are "call"; request_fd is received by the Python
\* SDK or by the Go reader.
Op == {"call", "request_fd", "request_fd_go"}

VARIABLES cl,         \* client: where its thread is, and in which call
          c2s,        \* pieces on the way to the server
          s2c,        \* pieces on the way to the client
          results,    \* how each finished call ended
          owned,      \* calls whose descriptor the client's caller was given
          leaked,     \* calls whose descriptor nobody in the client knows
          srv,        \* handler: program counter, current call, reply to write
          fds,        \* descriptors that the handler holds
          sent,       \* history: calls whose frame was written whole
          dispatched, \* history: calls whose frame the handler has decoded
          clUp, srvUp, reset

vars == <<cl, c2s, s2c, results, owned, leaked, srv, fds, sent, dispatched,
          clUp, srvUp, reset>>
clientVars == <<cl, results, owned, leaked, sent, clUp>>
serverVars == <<srv, fds, dispatched, srvUp>>

Piece(part, n, op) == [part |-> part, of |-> n, op |-> op]
HasFD(p) == p.part = "whole"

Serving(pc, n, op) == [pc |-> pc, n |-> n, op |-> op]

Init ==
    /\ cl = [at |-> "idle", op |-> "none"] /\ results = << >> /\ owned = {} /\ leaked = {}
    /\ c2s = << >> /\ s2c = << >>
    /\ srv = Serving("hdr", 0, "none") /\ fds = {}
    /\ sent = << >> /\ dispatched = << >>
    /\ clUp = TRUE /\ srvUp = TRUE /\ reset = FALSE

-----------------------------------------------------------------------------
(* The client.                                                             *)

Call == Len(results) + 1

Ended(how, n) ==
    /\ results' = Append(results, [how |-> how, of |-> n])
    /\ cl' = [at |-> "idle", op |-> "none"]

\* The pieces that one recvmsg returns: the stream up to and including the
\* first piece with a descriptor.
Received ==
    LET stops == { i \in DOMAIN s2c : HasFD(s2c[i]) }
    IN  IF stops = {} THEN s2c
        ELSE SubSeq(s2c, 1, CHOOSE i \in stops : \A j \in stops : i <= j)

\* _send_frame: a payload above the limit is refused, a dead peer is an error;
\* sendall may be cut short by the end of the client.
SendRefused ==
    /\ clUp /\ cl.at = "idle" /\ Call <= MaxCalls
    /\ Ended("raise", 0)
    /\ UNCHANGED <<c2s, s2c, owned, leaked, sent, clUp, reset, serverVars>>

SendHead(op) ==
    /\ clUp /\ srvUp /\ cl.at = "idle" /\ Call <= MaxCalls
    /\ c2s' = Append(c2s, Piece("hdr", Call, op))
    /\ cl' = [at |-> "sending", op |-> op]
    /\ UNCHANGED <<s2c, results, owned, leaked, sent, clUp, reset, serverVars>>

SendBody ==
    /\ clUp /\ srvUp /\ cl.at = "sending"
    /\ c2s' = Append(c2s, Piece("body", Call, cl.op))
    /\ sent' = Append(sent, Call)
    /\ cl' = [cl EXCEPT !.at = IF cl.op = "call" THEN "json" ELSE "recvmsg"]
    /\ UNCHANGED <<s2c, results, owned, leaked, clUp, reset, serverVars>>

\* _recv_frame_json, the length: four bytes at the head of the stream.  A
\* descriptor that plain recv meets is dropped by the kernel.
RecvHdr ==
    /\ clUp /\ cl.at = "json" /\ s2c # << >>
    /\ Head(s2c).part # "body"
    /\ s2c' = IF HasFD(Head(s2c))
              THEN <<[Head(s2c) EXCEPT !.part = "body"]>> \o Tail(s2c) ELSE Tail(s2c)
    /\ cl' = [cl EXCEPT !.at = "jsonbody"]
    /\ UNCHANGED <<c2s, results, owned, leaked, sent, clUp, reset, serverVars>>

\* The same four bytes when they belong to a body: JSON text read as a length
\* is far above the limit, and the call raises with the rest of the body still
\* to come, or just used up; read across the next length it can pass for one,
\* and the call waits for bytes that nobody sends.
RecvGarbage ==
    /\ clUp /\ cl.at = "json" /\ s2c # << >>
    /\ Head(s2c).part = "body"
    /\ \/ Ended("raise", 0) /\ s2c' \in {s2c, Tail(s2c)}
       \/ cl' = [cl EXCEPT !.at = "hung"] /\ s2c' = << >> /\ UNCHANGED results
    /\ UNCHANGED <<c2s, owned, leaked, sent, clUp, reset, serverVars>>

RecvBody ==
    /\ clUp /\ cl.at = "jsonbody" /\ s2c # << >>
    /\ Ended("return", Head(s2c).of)
    /\ s2c' = Tail(s2c)
    /\ UNCHANGED <<c2s, owned, leaked, sent, clUp, reset, serverVars>>

\* recv_json_with_fds and ReadJSONFrameWithOptionalFD: one recvmsg, whose
\* first frame has to be complete; anything after it is dropped.
FrameComplete(got) == got[1].part = "whole" \/ (got[1].part = "hdr" /\ Len(got) > 1)

GotFDs(got) == { got[i].of : i \in { i \in DOMAIN got : HasFD(got[i]) } }

RecvTruncated ==
    /\ clUp /\ cl.at = "recvmsg" /\ s2c # << >>
    /\ ~FrameComplete(Received)
    /\ s2c' = SubSeq(s2c, Len(Received) + 1, Len(s2c))
    /\ leaked' = leaked \cup GotFDs(Received)
    /\ Ended("truncated", 0)
    /\ UNCHANGED <<c2s, owned, sent, clUp, reset, serverVars>>

\* The Python SDK raises on an error reply and on a reply without descriptor.
RecvMsg ==
    /\ clUp /\ cl.at = "recvmsg" /\ s2c # << >>
    /\ FrameComplete(Received)
    /\ s2c' = SubSeq(s2c, Len(Received) + 1, Len(s2c))
    /\ IF cl.op = "request_fd" /\ (Received[1].op = "error" \/ GotFDs(Received) = {})
       THEN Ended("raise", Received[1].of) /\ UNCHANGED owned
       ELSE Ended("return", Received[1].of) /\ owned' = owned \cup GotFDs(Received)
    /\ UNCHANGED <<c2s, leaked, sent, clUp, reset, serverVars>>

\* The server is gone: sendall fails, and the receivers do once the stream is
\* used up.
PeerGone ==
    /\ clUp /\ ~srvUp /\ cl.at # "idle"
    /\ s2c = << >> \/ cl.at \in {"sending", "hung"}
    /\ Ended("raise", 0)
    /\ UNCHANGED <<c2s, s2c, owned, leaked, sent, clUp, reset, serverVars>>

\* close, or the end of the process: descriptors on their way are released.
Close ==
    /\ clUp
    /\ clUp' = FALSE
    /\ cl' = [cl EXCEPT !.at = "closed"]
    /\ s2c' = << >>
    /\ reset' = (s2c # << >>)
    /\ UNCHANGED <<c2s, results, owned, leaked, sent, serverVars>>

ClientRecv == RecvHdr \/ RecvGarbage \/ RecvBody \/ RecvTruncated \/ RecvMsg \/ PeerGone

-----------------------------------------------------------------------------
(* The handler of the connection.                                          *)

\* ReadFrameBytes: io.ReadFull for the length and again for the body.
ReadPiece(part) ==
    /\ srvUp /\ srv.pc = part
    /\ c2s # << >>
    /\ c2s' = Tail(c2s)
    /\ IF part = "hdr"
       THEN srv' = Serving("body", Head(c2s).of, Head(c2s).op) /\ UNCHANGED dispatched
       ELSE /\ srv' = [srv EXCEPT !.pc = "dispatch"]
            /\ dispatched' = Append(dispatched, srv.n)
    /\ UNCHANGED <<s2c, fds, srvUp, reset, clientVars>>

\* Mutant: a short read at the end of the stream is taken for the body.
ReadEndsShort ==
    /\ srvUp /\ srv.pc \in {"hdr", "body"}
    /\ ~clUp /\ (c2s = << >> \/ reset)
    /\ srv' = [srv EXCEPT !.pc = IF srv.pc = "body" THEN "dispatch" ELSE "gone"]
    /\ dispatched' = IF srv.pc = "body" THEN Append(dispatched, srv.n) ELSE dispatched
    /\ UNCHANGED <<c2s, s2c, fds, srvUp, reset, clientVars>>

\* EOF, an unexpected EOF inside a frame or a reset ends the handler.
ReadEnds ==
    /\ srvUp /\ srv.pc \in {"hdr", "body"}
    /\ ~clUp /\ (c2s = << >> \/ reset)
    /\ srv' = [srv EXCEPT !.pc = "gone"]
    /\ UNCHANGED <<c2s, s2c, fds, dispatched, srvUp, reset, clientVars>>

Writing(op) == [srv EXCEPT !.pc = "writeHdr", !.op = op]

\* hello, sample and branch: an acknowledgement, or an error for a branch that
\* AppendDAG refuses and for a body that does not decode.
Answer ==
    /\ srvUp /\ srv.pc = "dispatch" /\ srv.op = "call"
    /\ \E op \in {"ack", "error"} : srv' = Writing(op)
    /\ UNCHANGED <<c2s, s2c, fds, dispatched, srvUp, reset, clientVars>>

\* handleRequestFD: the file or counter is opened, unless that fails or the
\* kind is unknown.
OpenFD ==
    /\ srvUp /\ srv.pc = "dispatch" /\ srv.op # "call"
    /\ \/ srv' = [srv EXCEPT !.pc = "dup"] /\ fds' = fds \cup {"file"}
       \/ srv' = Writing("error") /\ UNCHANGED fds
    /\ UNCHANGED <<c2s, s2c, dispatched, srvUp, reset, clientVars>>

\* Mutant: the error of Dup is returned before the file is closed.
DupKeepsFile ==
    /\ srvUp /\ srv.pc = "dup"
    /\ \/ srv' = [srv EXCEPT !.pc = "sendFD"] /\ fds' = (fds \ {"file"}) \cup {"dup"}
       \/ srv' = Writing("error") /\ UNCHANGED fds
    /\ UNCHANGED <<c2s, s2c, dispatched, srvUp, reset, clientVars>>

Dup ==
    /\ srvUp /\ srv.pc = "dup"
    /\ \/ srv' = [srv EXCEPT !.pc = "sendFD"] /\ fds' = (fds \ {"file"}) \cup {"dup"}
       \/ srv' = Writing("error") /\ fds' = fds \ {"file"}
    /\ UNCHANGED <<c2s, s2c, dispatched, srvUp, reset, clientVars>>

\* Mutant: the caller writes its own reply after the descriptor message.
WriteWithFDAndAck ==
    /\ srvUp /\ srv.pc = "sendFD"
    /\ fds' = fds \ {"dup"}
    /\ \/ clUp /\ s2c' = Append(s2c, Piece("whole", srv.n, "fd_reply")) /\ srv' = Writing("ack")
       \/ UNCHANGED s2c /\ srv' = Writing("error")
    /\ UNCHANGED <<c2s, dispatched, srvUp, reset, clientVars>>

\* WriteJSONFrameWithFD: header, body and descriptor in one message; dup is
\* closed whether or not it could be sent.  An error is answered by a second,
\* plain reply.
WriteJSONFrameWithFD ==
    /\ srvUp /\ srv.pc = "sendFD"
    /\ fds' = fds \ {"dup"}
    /\ \/ /\ clUp /\ s2c' = Append(s2c, Piece("whole", srv.n, "fd_reply"))
          /\ srv' = Serving("hdr", 0, "none")
       \/ UNCHANGED s2c /\ srv' = Writing("error")
    /\ UNCHANGED <<c2s, dispatched, srvUp, reset, clientVars>>

\* Mutant: the frame ends with its length.
WriteHdrOnly ==
    /\ srvUp /\ srv.pc = "writeHdr"
    /\ s2c' = IF clUp THEN Append(s2c, Piece("hdr", srv.n, srv.op)) ELSE s2c
    /\ srv' = Serving("hdr", 0, "none")
    /\ UNCHANGED <<c2s, fds, dispatched, srvUp, reset, clientVars>>

\* WriteJSONFrame: the length first.  Errors, those of a closed peer, are
\* ignored by the handler.
WriteHdr ==
    /\ srvUp /\ srv.pc = "writeHdr"
    /\ IF clUp
       THEN s2c' = Append(s2c, Piece("hdr", srv.n, srv.op)) /\ srv' = [srv EXCEPT !.pc = "writeBody"]
       ELSE srv' = Serving("hdr", 0, "none") /\ UNCHANGED s2c
    /\ UNCHANGED <<c2s, fds, dispatched, srvUp, reset, clientVars>>

\* ... and the body with a write of its own.
WriteBody ==
    /\ srvUp /\ srv.pc = "writeBody"
    /\ s2c' = IF clUp THEN Append(s2c, Piece("body", srv.n, srv.op)) ELSE s2c
    /\ srv' = Serving("hdr", 0, "none")
    /\ UNCHANGED <<c2s, fds, dispatched, srvUp, reset, clientVars>>

\* The coordinator's process ends.
ServerEnds ==
    /\ srvUp
    /\ srvUp' = FALSE
    /\ srv' = [srv EXCEPT !.pc = "gone"]
    /\ fds' = {}
    /\ c2s' = << >>
    /\ UNCHANGED <<s2c, dispatched, reset, clientVars>>

ServerStep ==
    \/ ReadPiece("hdr") \/ ReadPiece("body") \/ ReadEnds \/ Answer
    \/ OpenFD \/ Dup \/ WriteJSONFrameWithFD \/ WriteHdr \/ WriteBody

Next ==
    \/ SendRefused \/ (\E op \in Op : SendHead(op)) \/ SendBody \/ ClientRecv \/ Close
    \/ ServerStep \/ ServerEnds

Fairness == WF_vars(ServerStep) /\ WF_vars(ClientRecv) /\ WF_vars(SendBody)

Spec == Init /\ [][Next]_vars /\ Fairness

-----------------------------------------------------------------------------
\* A request_fd call has met a reply of which only the length had arrived: the
\* stream of this client is no longer read at frame boundaries.
OutOfStep == \E i \in DOMAIN results : results[i].how = "truncated"

\* A call returns the reply to itself, never one that an earlier call left
\* behind, as long as no receiver has stopped inside a frame: one reply is
\* written per request on every path of handleConn, the failed descriptor
\* messages included (coordinator_linux.go:153-231, plasma.py:39-132).
RepliesMatch ==
    ~OutOfStep => \A i \in DOMAIN results :
                      results[i].how = "return" => results[i].of = i

\* Between two requests the handler holds no descriptor, whichever of open,
\* dup and send failed; every descriptor that reached an in-step client was
\* handed to the caller that asked for it (coordinator_linux.go:233-298).
NoDescriptorLeak ==
    /\ srv.pc \in {"hdr", "gone"} => fds = {}
    /\ ~OutOfStep =>
         /\ leaked = {}
         /\ \A i \in owned : i <= Len(results) /\ results[i].how = "return"

\* What the handler decodes are the requests that were written whole, once and
\* in order: a client that dies inside a frame causes no request
\* (frame.go:12-30).
DispatchedWasSent == IsPrefix(dispatched, sent)

\* Every call ends, unless the client is out of step: some reply is written to
\* each request and the receivers wait for nothing else.
CallsEnd == cl.at # "idle" ~> cl.at \in {"idle", "closed"} \/ OutOfStep

\* plasma.py:95: recv_json_with_fds is to "Read one framed JSON message and
\* return (obj, first_scm_rights_fd)": whenever no call is being made, what
\* comes next on the stream is not the rest of a message already read from.
ReadsOneFrame == (cl.at = "idle" /\ s2c # << >>) => Head(s2c).part # "body"
=============================================================================
