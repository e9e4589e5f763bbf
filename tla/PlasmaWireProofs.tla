-------------------------- MODULE PlasmaWireProofs --------------------------
(***************************************************************************)
(* What one Plasma connection guarantees for any number of calls.  The     *)
(* invariant has three parts.  The stream to the server is a sequence of   *)
(* whole frames, and at most the length of one more: that is kept even by  *)
(* a client that has lost step with its replies and runs ahead of the      *)
(* handler.  While the client is in step at most one request or reply is   *)
(* in flight, and it is the current call's.  And the handler's descriptors *)
(* are known from where it stands.                                         *)
(***************************************************************************)
EXTENDS PlasmaWire, WellFoundedInduction, TLAPS

-----------------------------------------------------------------------------
(* The inductive invariant.                                                *)

AnyOp == Op \cup {"none", "ack", "error", "fd_reply"}
Pieces == [part : {"hdr", "body", "whole"}, of : Nat, op : AnyOp]
Result == [how : {"return", "raise", "truncated"}, of : Nat]

ClientAt == {"idle", "sending", "json", "jsonbody", "recvmsg", "hung", "closed"}
ServerAt == {"hdr", "body", "dispatch", "dup", "sendFD", "writeHdr", "writeBody", "gone"}
Client == [at : ClientAt, op : AnyOp]
Server == [pc : ServerAt, n : Nat, op : AnyOp]

TypeOK ==
    /\ cl \in Client
    /\ c2s \in Seq(Pieces)
    /\ s2c \in Seq(Pieces)
    /\ results \in Seq(Result)
    /\ srv \in Server
    /\ sent \in Seq(Nat)
    /\ dispatched \in Seq(Nat)
    /\ clUp \in BOOLEAN /\ srvUp \in BOOLEAN

\* The descriptors of handleRequestFD, from where it stands.
Held ==
    fds = IF srv.pc = "dup" THEN {"file"} ELSE IF srv.pc = "sendFD" THEN {"dup"} ELSE {}

Half == IF srv.pc = "body" THEN 1 ELSE 0      \* the handler has read a length
Behind == Len(sent) - Len(dispatched)         \* requests still to be decoded
Ahead == Len(c2s) + Half - 2 * Behind         \* lengths written without a body

Decoded ==
    /\ Len(dispatched) <= Len(sent)
    /\ \A i \in 1..Len(dispatched) : dispatched[i] = sent[i]

\* The stream to the server: two pieces for every request that was written
\* whole and has not been decoded, and the length of the one being written.
Framed ==
    (srvUp /\ srv.pc # "gone") =>
        /\ Ahead \in {0, 1}
        /\ clUp => (Ahead = 1 <=> cl.at = "sending")
        /\ (clUp /\ Ahead = 1) => IF c2s = << >> THEN srv.n = Call ELSE c2s[Len(c2s)].of = Call
        /\ (Half = 1 /\ Behind > 0) => srv.n = sent[Len(dispatched) + 1]
        /\ \A k \in 1..Behind :
               2 * k - 1 - Half > 0 => c2s[2 * k - 1 - Half].of = sent[Len(dispatched) + k]

\* What finished calls returned, and the descriptors they brought.
Matched ==
    /\ \A i \in DOMAIN results : results[i].how = "return" => results[i].of = i
    /\ leaked = {}
    /\ \A i \in owned : i \in DOMAIN results /\ results[i].how = "return"

\* The stream to a client in step: nothing, or the reply to its current call.
Replies ==
    /\ cl.at \in {"idle", "sending", "json", "jsonbody", "recvmsg"}
    /\ cl.at \in {"idle", "sending"} => s2c = << >>
    /\ cl.at \in {"json", "jsonbody"} => cl.op = "call"
    /\ cl.at = "recvmsg" => cl.op # "call"
    /\ Len(s2c) <= 2
    /\ \A i \in DOMAIN s2c : s2c[i].of = Call
    /\ (cl.at \in {"json", "recvmsg"} /\ s2c # << >>) =>
           \/ s2c[1].part = "hdr" /\ (Len(s2c) = 2 => s2c[2].part = "body")
           \/ s2c[1].part = "whole" /\ Len(s2c) = 1 /\ cl.at = "recvmsg"
    /\ (cl.at = "jsonbody" /\ s2c # << >>) => s2c[1].part = "body" /\ Len(s2c) = 1

OfThisCall == srv.n = Call /\ srv.op = cl.op
HeadOfThisCall == c2s[1].of = Call /\ c2s[1].op = cl.op

\* Where the handler stands while a client in step sends or waits.
Requests ==
    /\ cl.at = "idle" => c2s = << >> /\ srv.pc = "hdr"
    /\ cl.at = "sending" =>
           \/ srv.pc = "hdr" /\ Len(c2s) = 1 /\ HeadOfThisCall
           \/ srv.pc = "body" /\ c2s = << >> /\ OfThisCall
    /\ cl.at \in {"json", "jsonbody", "recvmsg"} =>
           \/ /\ cl.at # "jsonbody" /\ s2c = << >>
              /\ \/ srv.pc = "hdr" /\ Len(c2s) = 2 /\ HeadOfThisCall
                 \/ srv.pc = "body" /\ Len(c2s) = 1 /\ OfThisCall
                 \/ srv.pc = "dispatch" /\ c2s = << >> /\ OfThisCall
                 \/ srv.pc \in {"dup", "sendFD"} /\ c2s = << >> /\ srv.n = Call /\ cl.at = "recvmsg"
                 \/ srv.pc = "writeHdr" /\ c2s = << >> /\ srv.n = Call
           \/ /\ srv.pc = "writeBody" /\ c2s = << >> /\ srv.n = Call
              /\ IF cl.at = "jsonbody" THEN s2c = << >> ELSE Len(s2c) = 1 /\ s2c[1].part = "hdr"
           \/ /\ srv.pc = "hdr" /\ c2s = << >> /\ s2c # << >>
              /\ (cl.at # "jsonbody" /\ s2c[1].part = "hdr") => Len(s2c) = 2

InStep ==
    ~OutOfStep =>
        /\ Matched
        /\ clUp => Replies
        /\ (clUp /\ srvUp) => Requests

IInv == TypeOK /\ Held /\ Decoded /\ Framed /\ InStep

-----------------------------------------------------------------------------
(* Lemmas about the stream to the client.                                  *)

\* A set of natural numbers that is not empty has a least element.
LEMMA LeastExists ==
    ASSUME NEW S \in SUBSET Nat, S # {}
    PROVE  \E i \in S : \A j \in S : i <= j
<1>1. PICK i \in S : \A j \in S : ~(<<j, i>> \in OpToRel(<, Nat))
  BY NatLessThanWellFounded, WFMin
<1>2. \A j \in S : ~(j < i)
  BY <1>1 DEF OpToRel
<1> QED
  BY <1>2

\* A second piece follows the first.
LEMMA AppendSecond ==
    ASSUME NEW s \in Seq(Pieces), Len(s) = 1, NEW p \in Pieces
    PROVE  /\ Len(Append(s, p)) = 2 /\ Append(s, p)[1] = s[1] /\ Append(s, p)[2] = p
           /\ DOMAIN Append(s, p) = 1..2
OBVIOUS

\* What one recvmsg returns is a part of the stream that is not empty, and all
\* of it when there is but one piece, or no descriptor.
LEMMA ReceivedPart ==
    ASSUME TypeOK, s2c # << >>
    PROVE  /\ Received \in Seq(Pieces) /\ Received # << >>
           /\ Len(Received) \in 1..Len(s2c)
           /\ (Len(s2c) = 1 \/ \A i \in DOMAIN s2c : s2c[i].part # "whole") => Received = s2c
<1> DEFINE stops == { i \in DOMAIN s2c : HasFD(s2c[i]) }
           first == CHOOSE i \in stops : \A j \in stops : i <= j
<1>0. s2c \in Seq(Pieces) /\ Len(s2c) \in Nat /\ Len(s2c) > 0 /\ DOMAIN s2c = 1..Len(s2c)
  BY DEF TypeOK
<1>1. CASE stops = {}
  <2>1. Received = s2c
    BY <1>1 DEF Received
  <2> QED
    BY <1>0, <2>1
<1>2. CASE stops # {}
  <2>1. stops \in SUBSET Nat
    BY <1>0
  <2>2. \E i \in stops : \A j \in stops : i <= j
    BY <1>2, <2>1, LeastExists
  <2>3. first \in stops
    BY <2>2
  <2>4. Received = SubSeq(s2c, 1, first)
    BY <1>2 DEF Received
  <2>5. first \in 1..Len(s2c) /\ s2c[first].part = "whole"
    BY <1>0, <2>3 DEF HasFD
  <2> HIDE DEF first
  <2>6. Received \in Seq(Pieces) /\ Len(Received) = first
    BY <1>0, <2>4, <2>5
  <2>7. Len(s2c) = 1 => Received = s2c
    BY <1>0, <2>4, <2>5
  <2> QED
    BY <1>0, <2>5, <2>6, <2>7
<1> QED
  BY <1>1, <1>2

-----------------------------------------------------------------------------
(* Types.                                                                  *)

\* The state before the first call is typed.
LEMMA InitTypeOK == Init => TypeOK
BY DEF Init, Serving, TypeOK, Op, AnyOp, Client, ClientAt, Server, ServerAt

\* Every step keeps the types.
LEMMA NextTypeOK == TypeOK /\ [Next]_vars => TypeOK'
<1> SUFFICES ASSUME TypeOK, [Next]_vars PROVE TypeOK'
  OBVIOUS
<1> USE DEF TypeOK, clientVars, serverVars
<1>0. /\ results \in Seq(Result) /\ Call \in Nat \ {0}
      /\ cl.at \in ClientAt /\ cl.op \in AnyOp
      /\ srv.pc \in ServerAt /\ srv.n \in Nat /\ srv.op \in AnyOp
      /\ Op \subseteq AnyOp /\ {"none", "ack", "error", "fd_reply"} \subseteq AnyOp
  BY DEF Call, Client, Server, AnyOp
<1>1. ASSUME NEW how \in {"return", "raise", "truncated"}, NEW n \in Nat, Ended(how, n)
      PROVE  results' \in Seq(Result) /\ cl' \in Client
  BY <1>1 DEF Ended, Result, Client, ClientAt, AnyOp
<1>2. ASSUME s2c # << >>
      PROVE  Head(s2c) \in Pieces /\ Tail(s2c) \in Seq(Pieces) /\ Head(s2c).of \in Nat
  <2>1. Head(s2c) \in Pieces /\ Tail(s2c) \in Seq(Pieces)
    BY <1>2
  <2> QED
    BY <2>1 DEF Pieces
<1>3. ASSUME c2s # << >>
      PROVE  /\ Head(c2s) \in Pieces /\ Tail(c2s) \in Seq(Pieces)
             /\ Head(c2s).of \in Nat /\ Head(c2s).op \in AnyOp
  <2>1. Head(c2s) \in Pieces /\ Tail(c2s) \in Seq(Pieces)
    BY <1>3
  <2> QED
    BY <2>1 DEF Pieces
<1>4. ASSUME NEW part \in {"hdr", "body", "whole"}, NEW n \in Nat, NEW op \in AnyOp
      PROVE  Piece(part, n, op) \in Pieces
  BY DEF Piece, Pieces
<1>a. ASSUME NEW l \in ClientAt, NEW op \in AnyOp
      PROVE  [cl EXCEPT !.at = l] \in Client /\ [at |-> l, op |-> op] \in Client
  BY DEF Client
<1>s. ASSUME NEW l \in ServerAt, NEW n \in Nat, NEW op \in AnyOp
      PROVE  [srv EXCEPT !.pc = l] \in Server /\ Serving(l, n, op) \in Server /\ Writing(op) \in Server
  BY DEF Server, ServerAt, Serving, Writing
<1>l. {"idle", "sending", "json", "jsonbody", "recvmsg", "hung", "closed"} \subseteq ClientAt
  BY DEF ClientAt
<1>m. {"hdr", "body", "dispatch", "dup", "sendFD", "writeHdr", "writeBody", "gone"} \subseteq ServerAt
  BY DEF ServerAt
<1>5. CASE SendRefused
  BY <1>1, <1>5 DEF SendRefused
<1>6. ASSUME NEW op \in Op, SendHead(op) PROVE TypeOK'
  <2>1. Piece("hdr", Call, op) \in Pieces /\ cl' \in Client
    BY <1>0, <1>4, <1>6, <1>a, <1>l DEF SendHead
  <2> QED
    BY <1>6, <2>1 DEF SendHead
<1>7. CASE SendBody
  <2>1. Piece("body", Call, cl.op) \in Pieces
    BY <1>0, <1>4
  <2>2. cl' \in Client
    BY <1>0, <1>7, <1>a, <1>l DEF SendBody
  <2> QED
    BY <1>0, <1>7, <2>1, <2>2 DEF SendBody
<1>8. CASE RecvHdr
  <2>1. [Head(s2c) EXCEPT !.part = "body"] \in Pieces
    BY <1>2, <1>8 DEF RecvHdr, Pieces
  <2>2. s2c' \in Seq(Pieces)
    BY <1>2, <1>8, <2>1 DEF RecvHdr
  <2>3. cl' \in Client
    BY <1>0, <1>8, <1>a, <1>l DEF RecvHdr
  <2> QED
    BY <1>8, <2>2, <2>3 DEF RecvHdr
<1>9. CASE RecvGarbage
  <2>1. CASE Ended("raise", 0) /\ s2c' \in {s2c, Tail(s2c)}
    BY <1>1, <1>2, <1>9, <2>1 DEF RecvGarbage
  <2>2. CASE cl' = [cl EXCEPT !.at = "hung"] /\ s2c' = << >> /\ UNCHANGED results
    <3>1. cl' \in Client
      BY <1>0, <2>2, <1>a, <1>l
    <3> QED
      BY <1>9, <2>2, <3>1 DEF RecvGarbage
  <2> QED
    BY <1>9, <2>1, <2>2 DEF RecvGarbage
<1>10. CASE RecvBody
  BY <1>1, <1>2, <1>10 DEF RecvBody
<1>11. ASSUME cl.at = "recvmsg", s2c # << >>, s2c' = SubSeq(s2c, Len(Received) + 1, Len(s2c))
       PROVE  s2c' \in Seq(Pieces) /\ Received[1].of \in Nat
  <2>1. Received \in Seq(Pieces) /\ Received # << >> /\ Len(Received) \in 1..Len(s2c)
    BY <1>11, ReceivedPart
  <2>2. Received[1] \in Pieces
    BY <2>1
  <2> HIDE DEF TypeOK
  <2>3. s2c \in Seq(Pieces)
    BY DEF TypeOK
  <2>4. Len(Received) + 1 \in Nat /\ Len(Received) + 1 >= 1
    BY <2>1
  <2>5. s2c' \in Seq(Pieces)
    BY <1>11, <2>3, <2>4
  <2> QED
    BY <2>2, <2>5 DEF Pieces
<1>12. CASE RecvTruncated
  BY <1>1, <1>11, <1>12 DEF RecvTruncated
<1>13. CASE RecvMsg
  BY <1>1, <1>11, <1>13 DEF RecvMsg
<1>14. CASE PeerGone
  BY <1>1, <1>14 DEF PeerGone
<1>15. CASE Close
  <2>1. cl' \in Client
    BY <1>0, <1>15, <1>a, <1>l DEF Close
  <2>2. s2c' \in Seq(Pieces)
    BY <1>15 DEF Close
  <2>3. clUp' \in BOOLEAN
    BY <1>15 DEF Close
  <2>4. UNCHANGED <<c2s, results, srv, sent, dispatched, srvUp>>
    BY <1>15 DEF Close
  <2> QED
    BY <2>1, <2>2, <2>3, <2>4
<1>16. CASE ReadPiece("hdr")
  <2>1. srv' \in Server
    <3>1. srv' = Serving("body", Head(c2s).of, Head(c2s).op)
      BY <1>16 DEF ReadPiece
    <3>2. Head(c2s).of \in Nat /\ Head(c2s).op \in AnyOp
      BY <1>3, <1>16 DEF ReadPiece
    <3> QED
      BY <3>1, <3>2, <1>s, <1>m
  <2> QED
    BY <1>0, <1>3, <1>16, <2>1 DEF ReadPiece
<1>17. CASE ReadPiece("body")
  <2>1. srv' \in Server
    BY <1>0, <1>3, <1>17, <1>s, <1>m DEF ReadPiece
  <2>2. dispatched' \in Seq(Nat)
    <3>1. dispatched' = Append(dispatched, srv.n)
      BY <1>17 DEF ReadPiece
    <3> QED
      BY <1>0, <3>1
  <2>3. c2s' \in Seq(Pieces)
    BY <1>3, <1>17 DEF ReadPiece
  <2>4. UNCHANGED <<cl, s2c, results, sent, clUp, srvUp>>
    BY <1>17 DEF ReadPiece
  <2> QED
    BY <2>1, <2>2, <2>3, <2>4
<1>18. CASE ReadEnds
  <2>1. srv' \in Server
    BY <1>0, <1>18, <1>s, <1>m DEF ReadEnds
  <2> QED
    BY <1>0, <1>18, <2>1 DEF ReadEnds
<1>19. CASE Answer
  <2>1. srv' \in Server
    BY <1>0, <1>19, <1>s, <1>m DEF Answer
  <2> QED
    BY <1>0, <1>19, <2>1 DEF Answer
<1>20. CASE OpenFD
  <2>1. srv' \in Server
    BY <1>0, <1>20, <1>s, <1>m DEF OpenFD
  <2> QED
    BY <1>0, <1>20, <2>1 DEF OpenFD
<1>21. CASE Dup
  <2>1. srv' \in Server
    BY <1>0, <1>21, <1>s, <1>m DEF Dup
  <2> QED
    BY <1>0, <1>21, <2>1 DEF Dup
<1>22. CASE WriteJSONFrameWithFD
  <2>1. Piece("whole", srv.n, "fd_reply") \in Pieces
    BY <1>0, <1>4
  <2>2. CASE s2c' = Append(s2c, Piece("whole", srv.n, "fd_reply")) /\ srv' = Serving("hdr", 0, "none")
    <3>1. srv' \in Server
      BY <1>0, <1>s, <1>m, <2>2
    <3> QED
      BY <1>22, <2>1, <2>2, <3>1 DEF WriteJSONFrameWithFD
  <2>3. CASE UNCHANGED s2c /\ srv' = Writing("error")
    <3>1. srv' \in Server
      BY <1>0, <1>s, <1>m, <2>3
    <3> QED
      BY <1>22, <2>3, <3>1 DEF WriteJSONFrameWithFD
  <2> QED
    BY <1>22, <2>2, <2>3 DEF WriteJSONFrameWithFD
<1>23. CASE WriteHdr
  <2>1. Piece("hdr", srv.n, srv.op) \in Pieces
    BY <1>0, <1>4
  <2>2. CASE s2c' = Append(s2c, Piece("hdr", srv.n, srv.op)) /\ srv' = [srv EXCEPT !.pc = "writeBody"]
    <3>1. srv' \in Server
      BY <1>0, <1>s, <1>m, <2>2
    <3> QED
      BY <1>23, <2>1, <2>2, <3>1 DEF WriteHdr
  <2>3. CASE UNCHANGED s2c /\ srv' = Serving("hdr", 0, "none")
    <3>1. srv' \in Server
      BY <1>0, <1>s, <1>m, <2>3
    <3> QED
      BY <1>23, <2>3, <3>1 DEF WriteHdr
  <2> QED
    BY <1>23, <2>2, <2>3 DEF WriteHdr
<1>24. CASE WriteBody
  <2>1. srv' \in Server
    BY <1>0, <1>24, <1>s, <1>m DEF WriteBody
  <2>2. Piece("body", srv.n, srv.op) \in Pieces
    BY <1>0, <1>4
  <2>3. s2c' \in Seq(Pieces)
    BY <1>24, <2>2 DEF WriteBody
  <2> QED
    BY <1>24, <2>1, <2>3 DEF WriteBody
<1>25. CASE ServerEnds
  <2>1. srv' \in Server
    BY <1>0, <1>25, <1>s, <1>m DEF ServerEnds
  <2>2. c2s' \in Seq(Pieces)
    BY <1>25 DEF ServerEnds
  <2>3. srvUp' \in BOOLEAN
    BY <1>25 DEF ServerEnds
  <2>4. UNCHANGED <<cl, s2c, results, sent, dispatched, clUp>>
    BY <1>25 DEF ServerEnds
  <2> QED
    BY <2>1, <2>2, <2>3, <2>4
<1>26. CASE UNCHANGED vars
  BY <1>26 DEF vars
<1> QED
  BY <1>5, <1>6, <1>7, <1>8, <1>9, <1>10, <1>12, <1>13, <1>14, <1>15, <1>16, <1>17, <1>18,
     <1>19, <1>20, <1>21, <1>22, <1>23, <1>24, <1>25, <1>26 DEF Next, ClientRecv, ServerStep

-----------------------------------------------------------------------------
(* The handler's descriptors.                                              *)

\* The steps of the client are none of the handler's.
LEMMA ClientStepServer ==
    ASSUME \/ SendRefused \/ (\E op \in Op : SendHead(op)) \/ SendBody \/ ClientRecv \/ Close
           \/ UNCHANGED vars
    PROVE  UNCHANGED serverVars
BY DEF SendRefused, SendHead, SendBody, ClientRecv, RecvHdr, RecvGarbage, RecvBody,
       RecvTruncated, RecvMsg, PeerGone, Close, vars, serverVars

\* The steps of the handler are none of the client's.
LEMMA ServerStepClient ==
    ASSUME ServerStep \/ ServerEnds
    PROVE  UNCHANGED <<clientVars, reset>>
BY DEF ServerStep, ServerEnds, ReadPiece, ReadEnds, Answer, OpenFD, Dup, WriteJSONFrameWithFD,
       WriteHdr, WriteBody, clientVars

\* Where each step of the handler leads, field by field.
LEMMA HandlerMoves ==
    ASSUME TypeOK
    PROVE  /\ ReadPiece("hdr") => /\ srv.pc = "hdr" /\ srv'.pc = "body"
                                  /\ srv'.n = Head(c2s).of /\ srv'.op = Head(c2s).op
           /\ ReadPiece("body") => /\ srv.pc = "body" /\ srv'.pc = "dispatch"
                                   /\ srv'.n = srv.n /\ srv'.op = srv.op
           /\ ReadEnds => srv.pc \in {"hdr", "body"} /\ srv'.pc = "gone"
           /\ Answer => srv.pc = "dispatch" /\ srv'.pc = "writeHdr" /\ srv'.n = srv.n
           /\ OpenFD => /\ srv.pc = "dispatch" /\ srv.op # "call" /\ srv'.n = srv.n
                        /\ \/ srv'.pc = "dup" /\ fds' = fds \cup {"file"}
                           \/ srv'.pc = "writeHdr" /\ fds' = fds
           /\ Dup => /\ srv.pc = "dup" /\ srv'.n = srv.n
                     /\ \/ srv'.pc = "sendFD" /\ fds' = (fds \ {"file"}) \cup {"dup"}
                        \/ srv'.pc = "writeHdr" /\ fds' = fds \ {"file"}
           /\ WriteJSONFrameWithFD =>
                  /\ srv.pc = "sendFD" /\ fds' = fds \ {"dup"}
                  /\ \/ /\ srv'.pc = "hdr" /\ clUp
                        /\ s2c' = Append(s2c, Piece("whole", srv.n, "fd_reply"))
                     \/ srv'.pc = "writeHdr" /\ srv'.n = srv.n /\ s2c' = s2c
           /\ WriteHdr =>
                  /\ srv.pc = "writeHdr"
                  /\ \/ /\ srv'.pc = "writeBody" /\ srv'.n = srv.n /\ clUp
                        /\ s2c' = Append(s2c, Piece("hdr", srv.n, srv.op))
                     \/ srv'.pc = "hdr" /\ ~clUp /\ s2c' = s2c
           /\ WriteBody => srv.pc = "writeBody" /\ srv'.pc = "hdr"
           /\ ServerEnds => srv'.pc = "gone" /\ fds' = {}
<1>0. srv = [pc |-> srv.pc, n |-> srv.n, op |-> srv.op]
  BY DEF TypeOK, Server
<1>1. ASSUME NEW l, srv' = [srv EXCEPT !.pc = l]
      PROVE  srv'.pc = l /\ srv'.n = srv.n /\ srv'.op = srv.op
  BY <1>0, <1>1
<1>2. ASSUME NEW op, srv' = Writing(op)
      PROVE  srv'.pc = "writeHdr" /\ srv'.n = srv.n
  BY <1>0, <1>2 DEF Writing
<1>3. ASSUME NEW l, NEW n, NEW op, srv' = Serving(l, n, op)
      PROVE  srv'.pc = l /\ srv'.n = n /\ srv'.op = op
  BY <1>3 DEF Serving
<1>4. ASSUME ReadPiece("hdr")
      PROVE  srv.pc = "hdr" /\ srv'.pc = "body" /\ srv'.n = Head(c2s).of /\ srv'.op = Head(c2s).op
  BY <1>3, <1>4 DEF ReadPiece
<1>5. ASSUME ReadPiece("body")
      PROVE  srv.pc = "body" /\ srv'.pc = "dispatch" /\ srv'.n = srv.n /\ srv'.op = srv.op
  BY <1>1, <1>5 DEF ReadPiece
<1>6. ReadEnds => srv.pc \in {"hdr", "body"} /\ srv'.pc = "gone"
  BY <1>1 DEF ReadEnds
<1>7. Answer => srv.pc = "dispatch" /\ srv'.pc = "writeHdr" /\ srv'.n = srv.n
  BY <1>2 DEF Answer
<1>8. ASSUME OpenFD
      PROVE  /\ srv.pc = "dispatch" /\ srv.op # "call" /\ srv'.n = srv.n
             /\ \/ srv'.pc = "dup" /\ fds' = fds \cup {"file"}
                \/ srv'.pc = "writeHdr" /\ fds' = fds
  <2>1. CASE srv' = [srv EXCEPT !.pc = "dup"] /\ fds' = fds \cup {"file"}
    BY <1>1, <1>8, <2>1 DEF OpenFD
  <2>2. CASE srv' = Writing("error") /\ UNCHANGED fds
    BY <1>2, <1>8, <2>2 DEF OpenFD
  <2> QED
    BY <1>8, <2>1, <2>2 DEF OpenFD
<1>9. ASSUME Dup
      PROVE  /\ srv.pc = "dup" /\ srv'.n = srv.n
             /\ \/ srv'.pc = "sendFD" /\ fds' = (fds \ {"file"}) \cup {"dup"}
                \/ srv'.pc = "writeHdr" /\ fds' = fds \ {"file"}
  <2>1. CASE srv' = [srv EXCEPT !.pc = "sendFD"] /\ fds' = (fds \ {"file"}) \cup {"dup"}
    BY <1>1, <1>9, <2>1 DEF Dup
  <2>2. CASE srv' = Writing("error") /\ fds' = fds \ {"file"}
    BY <1>2, <1>9, <2>2 DEF Dup
  <2> QED
    BY <1>9, <2>1, <2>2 DEF Dup
<1>10. ASSUME WriteJSONFrameWithFD
       PROVE  /\ srv.pc = "sendFD" /\ fds' = fds \ {"dup"}
              /\ \/ /\ srv'.pc = "hdr" /\ clUp
                    /\ s2c' = Append(s2c, Piece("whole", srv.n, "fd_reply"))
                 \/ srv'.pc = "writeHdr" /\ srv'.n = srv.n /\ s2c' = s2c
  <2>1. CASE /\ clUp /\ s2c' = Append(s2c, Piece("whole", srv.n, "fd_reply"))
             /\ srv' = Serving("hdr", 0, "none")
    BY <1>3, <1>10, <2>1 DEF WriteJSONFrameWithFD
  <2>2. CASE UNCHANGED s2c /\ srv' = Writing("error")
    BY <1>2, <1>10, <2>2 DEF WriteJSONFrameWithFD
  <2> QED
    BY <1>10, <2>1, <2>2 DEF WriteJSONFrameWithFD
<1>11. ASSUME WriteHdr
       PROVE  /\ srv.pc = "writeHdr"
              /\ \/ /\ srv'.pc = "writeBody" /\ srv'.n = srv.n /\ clUp
                    /\ s2c' = Append(s2c, Piece("hdr", srv.n, srv.op))
                 \/ srv'.pc = "hdr" /\ ~clUp /\ s2c' = s2c
  <2>1. CASE clUp
    BY <1>1, <1>11, <2>1 DEF WriteHdr
  <2>2. CASE ~clUp
    BY <1>3, <1>11, <2>2 DEF WriteHdr
  <2> QED
    BY <2>1, <2>2
<1>12. WriteBody => srv.pc = "writeBody" /\ srv'.pc = "hdr"
  BY <1>3 DEF WriteBody
<1>13. ServerEnds => srv'.pc = "gone" /\ fds' = {}
  BY <1>1 DEF ServerEnds
<1> QED
  BY <1>4, <1>5, <1>6, <1>7, <1>8, <1>9, <1>10, <1>11, <1>12, <1>13

\* The handler closes what it opened on every way through handleRequestFD.
LEMMA NextHeld == TypeOK /\ Held /\ [Next]_vars => Held'
<1> SUFFICES ASSUME TypeOK, Held, [Next]_vars PROVE Held'
  OBVIOUS
<1>1. CASE UNCHANGED serverVars
  BY <1>1 DEF Held, serverVars
<1>2. CASE ReadPiece("hdr") \/ ReadPiece("body") \/ ReadEnds \/ Answer \/ WriteHdr \/ WriteBody
  <2>1. fds' = fds
    BY <1>2 DEF ReadPiece, ReadEnds, Answer, WriteHdr, WriteBody
  <2>2. srv.pc \notin {"dup", "sendFD"} /\ srv'.pc \notin {"dup", "sendFD"}
    BY <1>2, HandlerMoves
  <2> QED
    BY <2>1, <2>2 DEF Held
<1>3. CASE OpenFD
  <2>1. CASE srv'.pc = "dup" /\ fds' = fds \cup {"file"}
    BY <1>3, <2>1, HandlerMoves DEF Held
  <2>2. CASE srv'.pc = "writeHdr" /\ fds' = fds
    BY <1>3, <2>2, HandlerMoves DEF Held
  <2> QED
    BY <1>3, <2>1, <2>2, HandlerMoves
<1>4. CASE Dup
  <2>1. CASE srv'.pc = "sendFD" /\ fds' = (fds \ {"file"}) \cup {"dup"}
    BY <1>4, <2>1, HandlerMoves DEF Held
  <2>2. CASE srv'.pc = "writeHdr" /\ fds' = fds \ {"file"}
    BY <1>4, <2>2, HandlerMoves DEF Held
  <2> QED
    BY <1>4, <2>1, <2>2, HandlerMoves
<1>5. CASE WriteJSONFrameWithFD
  <2>1. srv.pc = "sendFD" /\ srv'.pc \in {"hdr", "writeHdr"} /\ fds' = fds \ {"dup"}
    BY <1>5, HandlerMoves
  <2> QED
    BY <2>1 DEF Held
<1>6. CASE ServerEnds
  BY <1>6, HandlerMoves DEF Held
<1> QED
  BY <1>1, <1>2, <1>3, <1>4, <1>5, <1>6, ClientStepServer DEF Next, ServerStep

-----------------------------------------------------------------------------
(* The stream to the server.                                               *)

\* A step that writes and reads nothing of that stream keeps it framed, when
\* the client neither begins nor ends a request with it.
LEMMA StreamUntouched ==
    ASSUME TypeOK, Decoded, Framed, UNCHANGED <<c2s, sent, dispatched>>,
           (srvUp' /\ srv'.pc # "gone") =>
               /\ srvUp /\ srv.pc # "gone" /\ Half' = Half /\ (Half = 1 => srv'.n = srv.n)
               /\ clUp' => /\ clUp /\ (cl'.at = "sending" <=> cl.at = "sending")
                           /\ cl.at = "sending" => Call' = Call /\ srv'.n = srv.n
    PROVE  Decoded' /\ Framed'
<1>1. Decoded'
  BY DEF Decoded
<1>2. CASE ~(srvUp' /\ srv'.pc # "gone")
  BY <1>1, <1>2 DEF Framed
<1>3. CASE srvUp' /\ srv'.pc # "gone"
  <2>1. Ahead' = Ahead /\ Behind' = Behind /\ Half' = Half
    BY <1>3 DEF Ahead, Behind
  <2>2. /\ Ahead \in {0, 1}
        /\ clUp => (Ahead = 1 <=> cl.at = "sending")
        /\ (clUp /\ Ahead = 1) => IF c2s = << >> THEN srv.n = Call ELSE c2s[Len(c2s)].of = Call
        /\ (Half = 1 /\ Behind > 0) => srv.n = sent[Len(dispatched) + 1]
        /\ \A k \in 1..Behind :
               2 * k - 1 - Half > 0 => c2s[2 * k - 1 - Half].of = sent[Len(dispatched) + k]
    BY <1>3 DEF Framed
  <2>3. /\ Ahead' \in {0, 1}
        /\ clUp' => (Ahead' = 1 <=> cl'.at = "sending")
        /\ (clUp' /\ Ahead' = 1) => IF c2s' = << >> THEN srv'.n = Call' ELSE c2s'[Len(c2s')].of = Call'
    BY <1>3, <2>1, <2>2
  <2>4. (Half' = 1 /\ Behind' > 0) => srv'.n = sent'[Len(dispatched') + 1]
    BY <1>3, <2>1, <2>2
  <2>5. \A k \in 1..Behind' :
            2 * k - 1 - Half' > 0 => c2s'[2 * k - 1 - Half'].of = sent'[Len(dispatched') + k]
    BY <1>3, <2>1, <2>2
  <2> QED
    BY <1>1, <2>3, <2>4, <2>5 DEF Framed
<1> QED
  BY <1>2, <1>3

\* Every step keeps the stream framed, and what the handler decodes is what
\* was written whole.
LEMMA NextFramed == TypeOK /\ Decoded /\ Framed /\ [Next]_vars => Decoded' /\ Framed'
<1> SUFFICES ASSUME TypeOK, Decoded, Framed, [Next]_vars PROVE Decoded' /\ Framed'
  OBVIOUS
<1>0. /\ c2s \in Seq(Pieces) /\ sent \in Seq(Nat) /\ dispatched \in Seq(Nat)
      /\ Len(c2s) \in Nat /\ Len(sent) \in Nat /\ Len(dispatched) \in Nat
      /\ results \in Seq(Result) /\ Call \in Nat
      /\ Half \in {0, 1} /\ Behind \in Int /\ Behind >= 0 /\ Ahead = Len(c2s) + Half - 2 * Behind
  BY DEF TypeOK, Decoded, Half, Behind, Ahead, Call
<1>1. cl.at \in ClientAt /\ cl = [at |-> cl.at, op |-> cl.op]
  BY DEF TypeOK, Client
<1>2. ASSUME NEW how, NEW n, Ended(how, n) PROVE cl'.at = "idle"
  BY <1>2 DEF Ended
<1>3. CASE SendRefused
  <2>1. UNCHANGED <<c2s, sent, dispatched, srv, srvUp, clUp>> /\ cl.at = "idle" /\ cl'.at = "idle"
    BY <1>2, <1>3 DEF SendRefused, serverVars
  <2> QED
    BY <2>1, StreamUntouched DEF Half
<1>4. CASE ClientRecv
  <2>1. UNCHANGED <<c2s, sent, dispatched, srv, srvUp, clUp>>
    BY <1>4 DEF ClientRecv, RecvHdr, RecvGarbage, RecvBody, RecvTruncated, RecvMsg, PeerGone, serverVars
  <2>2. srvUp => cl.at # "sending" /\ cl'.at # "sending"
    <3>1. CASE RecvHdr
      BY <1>1, <3>1 DEF RecvHdr
    <3>2. CASE RecvGarbage
      <4>1. CASE Ended("raise", 0)
        BY <1>2, <3>2, <4>1 DEF RecvGarbage
      <4>2. CASE cl' = [cl EXCEPT !.at = "hung"]
        BY <1>1, <3>2, <4>2 DEF RecvGarbage
      <4> QED
        BY <3>2, <4>1, <4>2 DEF RecvGarbage
    <3>3. CASE RecvBody \/ RecvTruncated \/ RecvMsg
      BY <1>2, <3>3 DEF RecvBody, RecvTruncated, RecvMsg
    <3>4. CASE PeerGone
      BY <3>4 DEF PeerGone
    <3> QED
      BY <1>4, <3>1, <3>2, <3>3, <3>4 DEF ClientRecv
  <2> QED
    BY <2>1, <2>2, StreamUntouched DEF Half
<1>5. CASE Close
  <2>1. UNCHANGED <<c2s, sent, dispatched, srv, srvUp>> /\ ~clUp'
    BY <1>5 DEF Close, serverVars
  <2> QED
    BY <2>1, StreamUntouched DEF Half
<1>6. CASE ReadEnds \/ ServerEnds
  <2>1. UNCHANGED <<sent, dispatched>> /\ srv'.pc = "gone"
    BY <1>6, HandlerMoves DEF ReadEnds, ServerEnds, clientVars
  <2> QED
    BY <2>1 DEF Framed, Decoded
<1>7. CASE Answer \/ OpenFD \/ Dup \/ WriteJSONFrameWithFD \/ WriteHdr \/ WriteBody
  <2>1. UNCHANGED <<c2s, sent, dispatched, cl, results, clUp, srvUp>>
    BY <1>7 DEF Answer, OpenFD, Dup, WriteJSONFrameWithFD, WriteHdr, WriteBody, clientVars
  <2>2. srv.pc \notin {"body", "gone"} /\ srv'.pc \notin {"body", "gone"} /\ srvUp
    BY <1>7, HandlerMoves DEF Answer, OpenFD, Dup, WriteJSONFrameWithFD, WriteHdr, WriteBody
  <2>3. Half = 0 /\ Half' = 0 /\ Call' = Call
    BY <2>1, <2>2 DEF Half, Call
  <2>4. ASSUME clUp, cl.at = "sending" PROVE c2s # << >>
    BY <1>0, <2>2, <2>3, <2>4 DEF Framed
  <2>5. /\ Ahead \in {0, 1}
        /\ clUp => (Ahead = 1 <=> cl.at = "sending")
        /\ (clUp /\ Ahead = 1) => c2s # << >> /\ c2s[Len(c2s)].of = Call
        /\ \A k \in 1..Behind :
               2 * k - 1 > 0 => c2s[2 * k - 1].of = sent[Len(dispatched) + k]
    BY <1>0, <2>2, <2>3, <2>4 DEF Framed
  <2>6. Ahead' = Ahead /\ Behind' = Behind
    BY <2>1, <2>3 DEF Ahead, Behind
  <2> QED
    BY <2>1, <2>3, <2>5, <2>6 DEF Framed, Decoded
<1>8. ASSUME NEW op \in Op, SendHead(op) PROVE Decoded' /\ Framed'
  <2>1. /\ clUp /\ srvUp /\ cl.at = "idle" /\ cl'.at = "sending"
        /\ c2s' = Append(c2s, Piece("hdr", Call, op))
        /\ UNCHANGED <<sent, dispatched, results, srv, srvUp, clUp>>
    BY <1>8 DEF SendHead, serverVars
  <2>2. Call' = Call /\ Half' = Half /\ Behind' = Behind /\ Piece("hdr", Call, op).of = Call
    BY <2>1 DEF Call, Half, Behind, Piece
  <2>3. Piece("hdr", Call, op) \in Pieces
    BY <1>0 DEF Piece, Pieces, AnyOp
  <2>4. /\ Len(c2s') = Len(c2s) + 1 /\ c2s'[Len(c2s')].of = Call' /\ c2s' # << >>
        /\ \A k \in 1..Len(c2s) : c2s'[k] = c2s[k]
    <3>1. /\ Len(c2s') = Len(c2s) + 1 /\ c2s'[Len(c2s) + 1] = Piece("hdr", Call, op)
          /\ \A k \in 1..Len(c2s) : c2s'[k] = c2s[k]
      BY <1>0, <2>1, <2>3
    <3>2. c2s' # << >>
      BY <1>0, <3>1
    <3> QED
      BY <2>2, <3>1, <3>2
  <2>5. Ahead' = Ahead + 1
    BY <1>0, <2>2, <2>4 DEF Ahead
  <2>6. CASE srv.pc # "gone"
    <3>1. /\ Ahead = 0
          /\ (Half = 1 /\ Behind > 0) => srv.n = sent[Len(dispatched) + 1]
          /\ \A k \in 1..Behind :
                2 * k - 1 - Half > 0 => c2s[2 * k - 1 - Half].of = sent[Len(dispatched) + k]
      BY <2>1, <2>6 DEF Framed
    <3>2. \A k \in 1..Behind' :
             2 * k - 1 - Half' > 0 => c2s'[2 * k - 1 - Half'].of = sent'[Len(dispatched') + k]
      <4> SUFFICES ASSUME NEW k \in 1..Behind, 2 * k - 1 - Half > 0
                   PROVE  c2s'[2 * k - 1 - Half].of = sent[Len(dispatched) + k]
        BY <2>1, <2>2
      <4>1. 2 * k - 1 - Half \in 1..Len(c2s)
        BY <1>0, <3>1
      <4> QED
        BY <2>4, <3>1, <4>1
    <3>3. Decoded'
      BY <2>1 DEF Decoded
    <3>4. /\ Ahead' \in {0, 1}
          /\ clUp' => (Ahead' = 1 <=> cl'.at = "sending")
          /\ (clUp' /\ Ahead' = 1) => IF c2s' = << >> THEN srv'.n = Call' ELSE c2s'[Len(c2s')].of = Call'
      BY <2>1, <2>4, <2>5, <3>1
    <3>5. (Half' = 1 /\ Behind' > 0) => srv'.n = sent'[Len(dispatched') + 1]
      BY <2>1, <2>2, <3>1
    <3> QED
      BY <3>2, <3>3, <3>4, <3>5 DEF Framed
  <2>7. CASE srv.pc = "gone"
    BY <2>1, <2>7 DEF Framed, Decoded
  <2> QED
    BY <2>6, <2>7
<1>9. CASE SendBody
  <2>1. /\ clUp /\ srvUp /\ cl.at = "sending"
        /\ c2s' = Append(c2s, Piece("body", Call, cl.op)) /\ sent' = Append(sent, Call)
        /\ UNCHANGED <<dispatched, results, srv, srvUp, clUp>>
    BY <1>9 DEF SendBody, serverVars
  <2>2. cl'.at # "sending"
    BY <1>1, <1>9 DEF SendBody
  <2>3. Piece("body", Call, cl.op) \in Pieces
    BY <1>0 DEF Piece, Pieces, TypeOK, Client
  <2>4. /\ Len(c2s') = Len(c2s) + 1 /\ Len(sent') = Len(sent) + 1 /\ sent'[Len(sent')] = Call
        /\ \A k \in 1..Len(c2s) : c2s'[k] = c2s[k]
        /\ \A k \in 1..Len(sent) : sent'[k] = sent[k]
    BY <1>0, <2>1, <2>3
  <2>5. Half' = Half /\ Behind' = Behind + 1
    BY <1>0, <2>1, <2>4 DEF Half, Behind
  <2>6. Ahead' = Ahead - 1
    BY <1>0, <2>4, <2>5 DEF Ahead
  <2>7. Decoded'
    BY <1>0, <2>1, <2>4 DEF Decoded
  <2>8. CASE srv.pc # "gone"
    <3>1. /\ Ahead = 1
          /\ IF c2s = << >> THEN srv.n = Call ELSE c2s[Len(c2s)].of = Call
          /\ (Half = 1 /\ Behind > 0) => srv.n = sent[Len(dispatched) + 1]
          /\ \A k \in 1..Behind :
                2 * k - 1 - Half > 0 => c2s[2 * k - 1 - Half].of = sent[Len(dispatched) + k]
      BY <2>1, <2>8 DEF Framed
    <3>2. Len(sent) = Len(dispatched) + Behind /\ Len(c2s) = 2 * Behind + 1 - Half
      BY <1>0, <3>1 DEF Behind
    <3>3. (Half' = 1 /\ Behind' > 0) => srv'.n = sent'[Len(dispatched') + 1]
      <4>1. CASE Behind > 0
        BY <1>0, <2>1, <2>4, <2>5, <3>1, <3>2, <4>1
      <4>2. CASE Behind = 0
        BY <1>0, <2>1, <2>4, <2>5, <3>1, <3>2, <4>2
      <4> QED
        BY <1>0, <4>1, <4>2
    <3>4. \A k \in 1..Behind' :
             2 * k - 1 - Half' > 0 => c2s'[2 * k - 1 - Half'].of = sent'[Len(dispatched') + k]
      <4> SUFFICES ASSUME NEW k \in 1..(Behind + 1), 2 * k - 1 - Half > 0
                   PROVE  c2s'[2 * k - 1 - Half].of = sent'[Len(dispatched) + k]
        BY <2>1, <2>5
      <4>1. 2 * k - 1 - Half \in 1..Len(c2s)
        BY <1>0, <3>2
      <4>2. CASE k <= Behind
        <5>1. Len(dispatched) + k \in 1..Len(sent)
          BY <1>0, <3>2, <4>2
        <5>2. sent'[Len(dispatched) + k] = sent[Len(dispatched) + k]
          BY <2>4, <5>1
        <5>3. c2s'[2 * k - 1 - Half] = c2s[2 * k - 1 - Half]
          BY <2>4, <4>1
        <5>4. k \in 1..Behind
          BY <1>0, <4>2
        <5> QED
          BY <3>1, <5>2, <5>3, <5>4
      <4>3. CASE k = Behind + 1
        <5>1. 2 * k - 1 - Half = Len(c2s) /\ Len(dispatched) + k = Len(sent')
          BY <1>0, <2>4, <3>2, <4>3
        <5>2. c2s # << >>
          BY <1>0, <4>1
        <5> QED
          BY <2>4, <3>1, <4>1, <5>1, <5>2
      <4> QED
        BY <1>0, <4>2, <4>3
    <3>5. /\ Ahead' \in {0, 1}
          /\ clUp' => (Ahead' = 1 <=> cl'.at = "sending")
          /\ ~(clUp' /\ Ahead' = 1)
      BY <2>1, <2>2, <2>6, <3>1
    <3> QED
      BY <2>7, <3>3, <3>4, <3>5 DEF Framed
  <2>9. CASE srv.pc = "gone"
    BY <2>1, <2>7, <2>9 DEF Framed
  <2> QED
    BY <2>8, <2>9
<1>10. CASE ReadPiece("hdr")
  <2>1. /\ srvUp /\ srv.pc = "hdr" /\ srv'.pc = "body" /\ srv'.n = Head(c2s).of
        /\ c2s # << >> /\ c2s' = Tail(c2s)
        /\ UNCHANGED <<sent, dispatched, results, cl, clUp, srvUp>>
    BY <1>10, HandlerMoves DEF ReadPiece, clientVars
  <2>2. Half = 0 /\ Half' = 1 /\ Call' = Call /\ Behind' = Behind
    BY <2>1 DEF Half, Call, Behind
  <2>3. /\ Len(c2s') = Len(c2s) - 1 /\ srv'.n = c2s[1].of /\ Len(c2s) > 0
        /\ \A k \in 1..Len(c2s') : c2s'[k] = c2s[k + 1]
    BY <1>0, <2>1
  <2>4. Ahead' = Ahead
    BY <1>0, <2>2, <2>3 DEF Ahead
  <2>5. /\ Ahead \in {0, 1}
        /\ clUp => (Ahead = 1 <=> cl.at = "sending")
        /\ (clUp /\ Ahead = 1) => c2s[Len(c2s)].of = Call
        /\ \A k \in 1..Behind : 2 * k - 1 > 0 => c2s[2 * k - 1].of = sent[Len(dispatched) + k]
    BY <1>0, <2>1, <2>2 DEF Framed
  <2>6. (clUp' /\ Ahead' = 1) => IF c2s' = << >> THEN srv'.n = Call' ELSE c2s'[Len(c2s')].of = Call'
    <3>1. CASE c2s' = << >>
      <4>1. Len(c2s) = 1
        BY <1>0, <2>3, <3>1
      <4> QED
        BY <2>1, <2>2, <2>3, <2>4, <2>5, <3>1, <4>1
    <3>2. CASE c2s' # << >>
      <4>1. Len(c2s') \in 1..Len(c2s') /\ Len(c2s') + 1 = Len(c2s)
        BY <1>0, <2>1, <2>3, <3>2
      <4> QED
        BY <2>1, <2>2, <2>3, <2>4, <2>5, <3>2, <4>1
    <3> QED
      BY <3>1, <3>2
  <2>7. (Half' = 1 /\ Behind' > 0) => srv'.n = sent'[Len(dispatched') + 1]
    BY <1>0, <2>1, <2>2, <2>3, <2>5
  <2>8. \A k \in 1..Behind' :
            2 * k - 1 - Half' > 0 => c2s'[2 * k - 1 - Half'].of = sent'[Len(dispatched') + k]
    <3> SUFFICES ASSUME NEW k \in 1..Behind, 2 * k - 1 - Half' > 0
                 PROVE  c2s'[2 * k - 1 - Half'].of = sent[Len(dispatched) + k]
      BY <2>1, <2>2
    <3>1. 2 * k - 1 - Half' \in 1..Len(c2s') /\ (2 * k - 1 - Half') + 1 = 2 * k - 1 /\ 2 * k - 1 > 0
      BY <1>0, <2>2, <2>3, <2>5
    <3>2. c2s'[2 * k - 1 - Half'] = c2s[2 * k - 1]
      BY <2>3, <3>1
    <3> QED
      BY <2>5, <3>1, <3>2
  <2> QED
    BY <2>1, <2>4, <2>5, <2>6, <2>7, <2>8 DEF Framed, Decoded
<1>11. CASE ReadPiece("body")
  <2>1. /\ srvUp /\ srv.pc = "body" /\ srv'.pc = "dispatch" /\ srv'.n = srv.n
        /\ c2s # << >> /\ c2s' = Tail(c2s)
        /\ UNCHANGED <<sent, results, cl, clUp, srvUp>>
    BY <1>11, HandlerMoves DEF ReadPiece, clientVars
  <2>2. dispatched' = Append(dispatched, srv.n) /\ srv.n \in Nat
    BY <1>11 DEF ReadPiece, TypeOK, Server
  <2>3. /\ Len(dispatched') = Len(dispatched) + 1 /\ dispatched'[Len(dispatched')] = srv.n
        /\ \A k \in 1..Len(dispatched) : dispatched'[k] = dispatched[k]
    BY <1>0, <2>2
  <2>4. Half = 1 /\ Half' = 0 /\ Call' = Call /\ Behind' = Behind - 1
    BY <1>0, <2>1, <2>3 DEF Half, Call, Behind
  <2>5. /\ Len(c2s') = Len(c2s) - 1 /\ Len(c2s) > 0
        /\ \A k \in 1..Len(c2s') : c2s'[k] = c2s[k + 1]
    BY <1>0, <2>1
  <2>6. Ahead' = Ahead
    BY <1>0, <2>4, <2>5 DEF Ahead
  <2>7. /\ Ahead \in {0, 1}
        /\ clUp => (Ahead = 1 <=> cl.at = "sending")
        /\ (clUp /\ Ahead = 1) => c2s[Len(c2s)].of = Call
        /\ Behind > 0 => srv.n = sent[Len(dispatched) + 1]
        /\ \A k \in 1..Behind : 2 * k - 2 > 0 => c2s[2 * k - 2].of = sent[Len(dispatched) + k]
    BY <1>0, <2>1, <2>4 DEF Framed
  <2>8. Behind > 0
    BY <1>0, <2>4, <2>5, <2>7
  <2>9. Decoded'
    <3>1. Len(dispatched') <= Len(sent') /\ \A i \in 1..Len(dispatched) : dispatched[i] = sent[i]
      BY <1>0, <2>1, <2>3, <2>8 DEF Decoded, Behind
    <3>2. ASSUME NEW i \in 1..Len(dispatched') PROVE dispatched'[i] = sent'[i]
      <4>1. CASE i \in 1..Len(dispatched)
        BY <2>1, <2>3, <3>1, <4>1
      <4>2. CASE i = Len(dispatched')
        BY <2>1, <2>3, <2>7, <2>8, <4>2
      <4> QED
        BY <1>0, <2>3, <4>1, <4>2
    <3> QED
      BY <3>1, <3>2 DEF Decoded
  <2>10. (clUp' /\ Ahead' = 1) => IF c2s' = << >> THEN srv'.n = Call' ELSE c2s'[Len(c2s')].of = Call'
    <3> SUFFICES ASSUME clUp', Ahead' = 1
                 PROVE  c2s' # << >> /\ c2s'[Len(c2s')].of = Call'
      OBVIOUS
    <3>1. Len(c2s') > 0
      BY <1>0, <2>4, <2>5, <2>6, <2>7, <2>8
    <3>2. Len(c2s') \in 1..Len(c2s') /\ Len(c2s') + 1 = Len(c2s)
      BY <1>0, <2>5, <3>1
    <3>3. c2s'[Len(c2s')] = c2s[Len(c2s)]
      BY <2>5, <3>2
    <3>4. c2s[Len(c2s)].of = Call
      BY <2>1, <2>6, <2>7
    <3>5. c2s' # << >>
      BY <3>1
    <3> QED
      BY <2>4, <3>3, <3>4, <3>5
  <2>11. \A k \in 1..Behind' :
            2 * k - 1 - Half' > 0 => c2s'[2 * k - 1 - Half'].of = sent'[Len(dispatched') + k]
    <3> SUFFICES ASSUME NEW k \in 1..(Behind - 1)
                 PROVE  c2s'[2 * k - 1 - Half'].of = sent[Len(dispatched') + k]
      BY <2>1, <2>4
    <3>1. /\ 2 * k - 1 - Half' \in 1..Len(c2s') /\ 2 * (k + 1) - 2 > 0
          /\ (2 * k - 1 - Half') + 1 = 2 * (k + 1) - 2
      BY <1>0, <2>4, <2>5, <2>7
    <3>2. k + 1 \in 1..Behind /\ Len(dispatched') + k = Len(dispatched) + (k + 1)
      BY <1>0, <2>3
    <3>3. c2s'[2 * k - 1 - Half'] = c2s[2 * (k + 1) - 2]
      BY <2>5, <3>1
    <3>4. c2s[2 * (k + 1) - 2].of = sent[Len(dispatched) + (k + 1)]
      BY <2>7, <3>1, <3>2
    <3> QED
      BY <3>2, <3>3, <3>4
  <2> QED
    <3>1. Ahead' \in {0, 1} /\ (clUp' => (Ahead' = 1 <=> cl'.at = "sending")) /\ Half' # 1
      BY <2>1, <2>4, <2>6, <2>7
    <3> QED
      BY <2>9, <2>10, <2>11, <3>1 DEF Framed
<1>12. CASE UNCHANGED vars
  <2>1. UNCHANGED <<c2s, sent, dispatched, srv, srvUp, clUp, cl, results>>
    BY <1>12 DEF vars
  <2> QED
    BY <2>1, StreamUntouched DEF Half, Call
<1> QED
  BY <1>3, <1>4, <1>5, <1>6, <1>7, <1>8, <1>9, <1>10, <1>11, <1>12 DEF Next, ServerStep

-----------------------------------------------------------------------------
(* A client in step.                                                       *)

\* The end of a call adds one result, and the client is idle.
LEMMA EndedAdds ==
    ASSUME TypeOK, NEW how \in {"return", "raise", "truncated"}, NEW n \in Nat, Ended(how, n)
    PROVE  /\ cl'.at = "idle" /\ Len(results') = Call
           /\ results'[Call].how = how /\ results'[Call].of = n
           /\ \A i \in 1..Len(results) : results'[i] = results[i]
           /\ DOMAIN results = 1..Len(results) /\ DOMAIN results' = 1..Call
           /\ Len(results) \in Nat /\ Call = Len(results) + 1
<1>1. results \in Seq(Result) /\ [how |-> how, of |-> n] \in Result
  BY DEF TypeOK, Result
<1>2. results' = Append(results, [how |-> how, of |-> n]) /\ cl'.at = "idle"
  BY DEF Ended
<1> QED
  BY <1>1, <1>2 DEF Call

\* A client that has lost step stays out of step.
LEMMA StaysOutOfStep ==
    ASSUME TypeOK, OutOfStep,
           \/ UNCHANGED results
           \/ \E how \in {"return", "raise", "truncated"}, n \in Nat : Ended(how, n)
    PROVE  OutOfStep'
<1>1. CASE UNCHANGED results
  BY <1>1 DEF OutOfStep
<1>2. ASSUME NEW how \in {"return", "raise", "truncated"}, NEW n \in Nat, Ended(how, n)
      PROVE  OutOfStep'
  <2>1. PICK i \in 1..Len(results) : results[i].how = "truncated"
    BY <1>2, EndedAdds DEF OutOfStep
  <2>2. results'[i].how = "truncated" /\ i \in DOMAIN results'
    BY <1>2, <2>1, EndedAdds
  <2> QED
    BY <2>2 DEF OutOfStep
<1> QED
  BY <1>1, <1>2

\* A call that ends with its own reply or with none, and gives its caller no
\* descriptor but its own, leaves the results matched.
LEMMA EndedMatched ==
    ASSUME TypeOK, Matched, NEW how \in {"return", "raise", "truncated"}, NEW n \in Nat,
           Ended(how, n), how = "return" => n = Call,
           leaked' = leaked, owned' = owned \/ (how = "return" /\ owned' \subseteq owned \cup {Call})
    PROVE  Matched'
<1>1. \A i \in DOMAIN results' : results'[i].how = "return" => results'[i].of = i
  <2> SUFFICES ASSUME NEW i \in 1..Call, results'[i].how = "return" PROVE results'[i].of = i
    BY EndedAdds
  <2>1. CASE i = Call
    BY <2>1, EndedAdds
  <2>2. CASE i \in 1..Len(results)
    BY <2>2, EndedAdds DEF Matched
  <2> QED
    BY <2>1, <2>2, EndedAdds
<1>2. \A i \in owned' : i \in DOMAIN results' /\ results'[i].how = "return"
  <2> SUFFICES ASSUME NEW i \in owned' PROVE i \in DOMAIN results' /\ results'[i].how = "return"
    OBVIOUS
  <2>1. CASE i \in owned
    <3>1. i \in 1..Len(results) /\ results[i].how = "return"
      BY <2>1, EndedAdds DEF Matched
    <3> QED
      BY <3>1, EndedAdds
  <2>2. CASE i \notin owned
    <3>1. i = Call /\ how = "return"
      BY <2>2
    <3> QED
      BY <3>1, EndedAdds
  <2> QED
    BY <2>1, <2>2
<1> QED
  BY <1>1, <1>2 DEF Matched

\* The client is idle, and nothing is on its way in either direction.
LEMMA IdleInStep ==
    ASSUME cl'.at = "idle", s2c' = << >>, Call' \in Nat, Matched',
           (clUp' /\ srvUp') => c2s' = << >> /\ srv'.pc = "hdr"
    PROVE  InStep'
BY DEF InStep, Replies, Requests

\* The steps of the client.
LEMMA ClientInStep ==
    ASSUME TypeOK, TypeOK', InStep,
           SendRefused \/ (\E op \in Op : SendHead(op)) \/ SendBody \/ ClientRecv \/ Close
    PROVE  InStep'
<1> SUFFICES ASSUME ~OutOfStep' PROVE InStep'
  BY DEF InStep
<1>0. /\ s2c \in Seq(Pieces) /\ c2s \in Seq(Pieces) /\ Len(s2c) \in Nat /\ Len(c2s) \in Nat
      /\ DOMAIN s2c = 1..Len(s2c) /\ Call \in Nat \ {0} /\ Call' \in Nat \ {0}
      /\ cl = [at |-> cl.at, op |-> cl.op]
  BY DEF TypeOK, Call, Client
<1>1. UNCHANGED <<srv, srvUp>>
  BY ClientStepServer DEF serverVars
<1>2. CASE SendRefused
  <2>1. /\ Ended("raise", 0) /\ clUp /\ cl.at = "idle"
        /\ UNCHANGED <<c2s, s2c, owned, leaked, clUp>>
    BY <1>2 DEF SendRefused
  <2>2. ~OutOfStep
    BY <2>1, StaysOutOfStep
  <2>3. Matched /\ s2c = << >> /\ (srvUp => c2s = << >> /\ srv.pc = "hdr")
    BY <2>1, <2>2 DEF InStep, Replies, Requests
  <2>4. Matched' /\ cl'.at = "idle"
    BY <2>1, <2>3, EndedMatched, EndedAdds
  <2> QED
    BY <1>0, <1>1, <2>1, <2>3, <2>4, IdleInStep
<1>3. ASSUME NEW op \in Op, SendHead(op) PROVE InStep'
  <2>1. /\ clUp /\ srvUp /\ cl.at = "idle" /\ cl' = [at |-> "sending", op |-> op]
        /\ c2s' = Append(c2s, Piece("hdr", Call, op))
        /\ UNCHANGED <<s2c, results, owned, leaked, clUp>>
    BY <1>3 DEF SendHead
  <2>2. ~OutOfStep /\ Call' = Call
    BY <2>1 DEF OutOfStep, Call
  <2>3. Matched /\ s2c = << >> /\ c2s = << >> /\ srv.pc = "hdr"
    BY <2>1, <2>2 DEF InStep, Replies, Requests
  <2>4. Piece("hdr", Call, op) \in Pieces /\ Piece("hdr", Call, op).of = Call /\ Piece("hdr", Call, op).op = op
    BY <1>0 DEF Piece, Pieces, AnyOp
  <2>5. Len(c2s') = 1 /\ c2s'[1] = Piece("hdr", Call, op)
    BY <2>1, <2>3, <2>4
  <2>6. Matched'
    BY <2>1, <2>3 DEF Matched
  <2>7. cl'.at = "sending" /\ cl'.op = op
    BY <2>1
  <2>8. Replies'
    BY <2>1, <2>3, <2>7 DEF Replies
  <2>9. Requests'
    BY <1>1, <2>2, <2>3, <2>4, <2>5, <2>7 DEF Requests, HeadOfThisCall
  <2> QED
    BY <2>6, <2>8, <2>9 DEF InStep
<1>4. CASE SendBody
  <2>1. /\ clUp /\ srvUp /\ cl.at = "sending"
        /\ cl' = [cl EXCEPT !.at = IF cl.op = "call" THEN "json" ELSE "recvmsg"]
        /\ c2s' = Append(c2s, Piece("body", Call, cl.op))
        /\ UNCHANGED <<s2c, results, owned, leaked, clUp>>
    BY <1>4 DEF SendBody
  <2>2. ~OutOfStep /\ Call' = Call
    BY <2>1 DEF OutOfStep, Call
  <2>3. /\ Matched /\ s2c = << >>
        /\ \/ srv.pc = "hdr" /\ Len(c2s) = 1 /\ HeadOfThisCall
           \/ srv.pc = "body" /\ c2s = << >> /\ OfThisCall
    BY <2>1, <2>2 DEF InStep, Replies, Requests
  <2>4. Piece("body", Call, cl.op) \in Pieces
    BY <1>0 DEF Piece, Pieces, TypeOK, Client
  <2>5. Len(c2s') = Len(c2s) + 1 /\ (Len(c2s) = 1 => c2s'[1] = c2s[1])
    BY <1>0, <2>1, <2>4
  <2>6. cl'.op = cl.op /\ cl'.at = IF cl.op = "call" THEN "json" ELSE "recvmsg"
    BY <1>0, <2>1
  <2>7. Matched'
    BY <2>1, <2>3 DEF Matched
  <2>8. Replies'
    BY <2>1, <2>3, <2>6 DEF Replies
  <2>9. Requests'
    <3>1. CASE srv.pc = "hdr" /\ Len(c2s) = 1 /\ HeadOfThisCall
      <4>1. srv'.pc = "hdr" /\ Len(c2s') = 2 /\ HeadOfThisCall' /\ s2c' = << >>
        BY <1>1, <2>1, <2>2, <2>3, <2>5, <2>6, <3>1 DEF HeadOfThisCall
      <4> QED
        BY <2>6, <4>1 DEF Requests
    <3>2. CASE srv.pc = "body" /\ c2s = << >> /\ OfThisCall
      <4>1. srv'.pc = "body" /\ Len(c2s') = 1 /\ OfThisCall' /\ s2c' = << >>
        BY <1>1, <2>1, <2>2, <2>3, <2>5, <2>6, <3>2 DEF OfThisCall
      <4> QED
        BY <2>6, <4>1 DEF Requests
    <3> QED
      BY <2>3, <3>1, <3>2
  <2> QED
    BY <2>7, <2>8, <2>9 DEF InStep
<1>5. CASE RecvHdr
  <2>1. /\ clUp /\ cl.at = "json" /\ s2c # << >> /\ Head(s2c).part # "body"
        /\ s2c' = IF HasFD(Head(s2c))
                  THEN <<[Head(s2c) EXCEPT !.part = "body"]>> \o Tail(s2c) ELSE Tail(s2c)
        /\ cl' = [cl EXCEPT !.at = "jsonbody"]
        /\ UNCHANGED <<c2s, results, owned, leaked, clUp>>
    BY <1>5 DEF RecvHdr
  <2>2. ~OutOfStep /\ Call' = Call
    BY <2>1 DEF OutOfStep, Call
  <2>3. /\ Matched /\ cl.op = "call" /\ s2c[1].part = "hdr" /\ Len(s2c) \in {1, 2}
        /\ \A i \in 1..Len(s2c) : s2c[i].of = Call
        /\ Len(s2c) = 2 => s2c[2].part = "body"
    <3>1. Matched /\ Replies
      BY <2>1, <2>2 DEF InStep
    <3> QED
      BY <1>0, <2>1, <3>1 DEF Replies
  <2>4. s2c' = Tail(s2c)
    <3>1. Head(s2c) = s2c[1]
      BY <1>0, <2>3
    <3>2. ~HasFD(Head(s2c))
      BY <2>3, <3>1 DEF HasFD
    <3> QED
      BY <2>1, <3>2
  <2>5. Len(s2c') = Len(s2c) - 1 /\ (Len(s2c) = 2 => s2c'[1] = s2c[2]) /\ DOMAIN s2c' = 1..Len(s2c')
    <3>1. s2c # << >> /\ s2c' \in Seq(Pieces)
      BY <2>1 DEF TypeOK
    <3> QED
      BY <1>0, <2>4, <3>1
  <2>6. cl'.at = "jsonbody" /\ cl'.op = "call"
    BY <1>0, <2>1, <2>3
  <2>7. Matched'
    BY <2>1, <2>3 DEF Matched
  <2>8. CASE Len(s2c) = 1
    <3>1. s2c' = << >>
      BY <1>0, <2>4, <2>8
    <3>2. Replies'
      BY <2>6, <3>1 DEF Replies
    <3>3. (clUp /\ srvUp) => srv.pc = "writeBody" /\ c2s = << >> /\ srv.n = Call
      BY <2>1, <2>2, <2>3, <2>8 DEF InStep, Requests
    <3>4. (clUp' /\ srvUp') => Requests'
      BY <1>1, <2>1, <2>2, <2>6, <3>1, <3>3 DEF Requests
    <3> QED
      BY <2>7, <3>2, <3>4 DEF InStep
  <2>9. CASE Len(s2c) = 2
    <3>1. Len(s2c') = 1 /\ s2c'[1].part = "body" /\ s2c'[1].of = Call /\ s2c' # << >> /\ DOMAIN s2c' = {1}
      <4>1. Len(s2c') = 1 /\ s2c'[1] = s2c[2] /\ 2 \in 1..Len(s2c)
        BY <1>0, <2>5, <2>9
      <4>2. DOMAIN s2c' = {1}
        <5>1. 1..1 = {1}
          OBVIOUS
        <5> QED
          BY <2>5, <4>1, <5>1
      <4>3. s2c' # << >>
        BY <4>1
      <4> QED
        BY <2>3, <2>9, <4>1, <4>2, <4>3
    <3>2. Replies'
      BY <2>2, <2>6, <3>1 DEF Replies
    <3>3. (clUp /\ srvUp) => srv.pc = "hdr" /\ c2s = << >>
      BY <2>1, <2>2, <2>3, <2>9 DEF InStep, Requests
    <3>4. (clUp' /\ srvUp') => Requests'
      BY <1>1, <2>1, <2>6, <3>1, <3>3 DEF Requests
    <3> QED
      BY <2>7, <3>2, <3>4 DEF InStep
  <2> QED
    BY <2>3, <2>8, <2>9
<1>6. CASE RecvGarbage
  <2>1. clUp /\ cl.at = "json" /\ s2c # << >> /\ Head(s2c).part = "body" /\ UNCHANGED clUp
    BY <1>6 DEF RecvGarbage
  <2>2. ~OutOfStep
    <3>1. UNCHANGED results \/ Ended("raise", 0)
      BY <1>6 DEF RecvGarbage
    <3> QED
      BY <3>1, StaysOutOfStep
  <2>3. s2c[1].part # "body"
    BY <2>1, <2>2 DEF InStep, Replies
  <2> QED
    BY <1>0, <2>1, <2>3
<1>7. CASE RecvBody
  <2>1. /\ clUp /\ cl.at = "jsonbody" /\ s2c # << >> /\ Ended("return", Head(s2c).of)
        /\ s2c' = Tail(s2c) /\ UNCHANGED <<c2s, owned, leaked, clUp>>
    BY <1>7 DEF RecvBody
  <2>2. Head(s2c) = s2c[1] /\ s2c[1] \in Pieces
    BY <1>0, <2>1
  <2>3. Head(s2c).of \in Nat
    BY <2>2 DEF Pieces
  <2>4. ~OutOfStep
    BY <2>1, <2>3, StaysOutOfStep
  <2>5. /\ Matched /\ Len(s2c) = 1 /\ s2c[1].of = Call
        /\ srvUp => c2s = << >> /\ srv.pc = "hdr"
    <3>1. Matched /\ Replies /\ (srvUp => Requests)
      BY <2>1, <2>4 DEF InStep
    <3>2. Len(s2c) = 1
      BY <2>1, <3>1 DEF Replies
    <3>3. s2c[1].of = Call
      BY <1>0, <3>1, <3>2 DEF Replies
    <3>4. srvUp => c2s = << >> /\ srv.pc = "hdr"
      BY <2>1, <3>1 DEF Requests
    <3> QED
      BY <3>1, <3>2, <3>3, <3>4
  <2>6. Matched' /\ cl'.at = "idle"
    BY <2>1, <2>2, <2>3, <2>5, EndedMatched, EndedAdds
  <2>7. s2c' = << >>
    BY <1>0, <2>1, <2>5
  <2> QED
    BY <1>0, <1>1, <2>1, <2>5, <2>6, <2>7, IdleInStep
<1>8. CASE RecvTruncated
  <2>1. Ended("truncated", 0)
    BY <1>8 DEF RecvTruncated
  <2>2. results'[Call].how = "truncated" /\ Call \in DOMAIN results'
    BY <1>0, <2>1, EndedAdds
  <2> QED
    BY <2>2 DEF OutOfStep
<1>9. CASE RecvMsg
  <2>1. /\ clUp /\ cl.at = "recvmsg" /\ s2c # << >> /\ FrameComplete(Received)
        /\ s2c' = SubSeq(s2c, Len(Received) + 1, Len(s2c))
        /\ UNCHANGED <<c2s, leaked, clUp>>
    BY <1>9 DEF RecvMsg
  <2>2. \/ Ended("raise", Received[1].of) /\ UNCHANGED owned
        \/ Ended("return", Received[1].of) /\ owned' = owned \cup GotFDs(Received)
    BY <1>9 DEF RecvMsg
  <2>3. Received \in Seq(Pieces) /\ Received # << >>
    BY <2>1, ReceivedPart
  <2>4. Received[1].of \in Nat
    <3>1. Received[1] \in Pieces
      BY <2>3
    <3> QED
      BY <3>1 DEF Pieces
  <2>5. ~OutOfStep
    BY <2>2, <2>4, StaysOutOfStep
  <2>6. Matched /\ Replies /\ (srvUp => Requests)
    BY <2>1, <2>5 DEF InStep
  <2>7. /\ Len(s2c) \in {1, 2} /\ \A i \in 1..Len(s2c) : s2c[i].of = Call
        /\ \/ s2c[1].part = "hdr" /\ (Len(s2c) = 2 => s2c[2].part = "body")
           \/ s2c[1].part = "whole" /\ Len(s2c) = 1
    BY <1>0, <2>1, <2>6 DEF Replies
  <2>8. Received = s2c
    <3>1. Len(s2c) = 1 \/ \A i \in DOMAIN s2c : s2c[i].part # "whole"
      BY <1>0, <2>7
    <3> QED
      BY <2>1, <3>1, ReceivedPart
  <2>9. s2c' = << >>
    BY <1>0, <2>1, <2>8
  <2>10. s2c[1].part = "whole" \/ Len(s2c) = 2
    BY <2>1, <2>7, <2>8 DEF FrameComplete
  <2>11. srvUp => c2s = << >> /\ srv.pc = "hdr"
    BY <2>1, <2>6, <2>7, <2>10 DEF Requests
  <2>12. GotFDs(Received) \subseteq {Call} /\ Received[1].of = Call
    BY <1>0, <2>7, <2>8 DEF GotFDs
  <2>13. Matched' /\ cl'.at = "idle"
    <3>1. CASE Ended("raise", Received[1].of) /\ UNCHANGED owned
      BY <2>1, <2>4, <2>6, <3>1, EndedMatched, EndedAdds
    <3>2. CASE Ended("return", Received[1].of) /\ owned' = owned \cup GotFDs(Received)
      <4>1. owned' \subseteq owned \cup {Call}
        BY <2>12, <3>2
      <4> QED
        BY <2>1, <2>4, <2>6, <2>12, <3>2, <4>1, EndedMatched, EndedAdds
    <3> QED
      BY <2>2, <3>1, <3>2
  <2> QED
    BY <1>0, <1>1, <2>1, <2>9, <2>11, <2>13, IdleInStep
<1>10. CASE PeerGone
  <2>1. /\ clUp /\ ~srvUp /\ (s2c = << >> \/ cl.at \in {"sending", "hung"}) /\ Ended("raise", 0)
        /\ UNCHANGED <<c2s, s2c, owned, leaked, clUp>>
    BY <1>10 DEF PeerGone
  <2>2. ~OutOfStep
    BY <2>1, StaysOutOfStep
  <2>3. Matched /\ s2c = << >>
    BY <2>1, <2>2 DEF InStep, Replies
  <2>4. Matched' /\ cl'.at = "idle"
    BY <2>1, <2>3, EndedMatched, EndedAdds
  <2> QED
    BY <1>0, <1>1, <2>1, <2>3, <2>4, IdleInStep
<1>11. CASE Close
  <2>1. ~clUp' /\ UNCHANGED <<results, owned, leaked>>
    BY <1>11 DEF Close
  <2>2. Matched
    BY <2>1 DEF InStep, OutOfStep
  <2> QED
    BY <2>1, <2>2 DEF InStep, Matched
<1> QED
  BY <1>2, <1>3, <1>4, <1>5, <1>6, <1>7, <1>8, <1>9, <1>10, <1>11 DEF ClientRecv

\* The steps of the handler.
LEMMA ServerInStep ==
    ASSUME TypeOK, TypeOK', InStep, ServerStep \/ ServerEnds
    PROVE  InStep'
<1>0. /\ s2c \in Seq(Pieces) /\ c2s \in Seq(Pieces) /\ Len(s2c) \in Nat /\ Len(c2s) \in Nat
      /\ DOMAIN s2c = 1..Len(s2c) /\ Call \in Nat \ {0}
      /\ srv.n \in Nat /\ srv.op \in AnyOp
  BY DEF TypeOK, Call, Server
<1>1. UNCHANGED <<cl, results, owned, leaked, clUp>>
  BY ServerStepClient DEF clientVars
<1>2. Call' = Call /\ (OutOfStep' <=> OutOfStep) /\ (Matched' <=> Matched)
  BY <1>1 DEF Call, OutOfStep, Matched
<1>3. CASE OutOfStep \/ ~clUp
  BY <1>1, <1>2, <1>3 DEF InStep
<1>4. CASE ~OutOfStep /\ clUp
  <2>1. Matched /\ Replies /\ (srvUp => Requests)
    BY <1>4 DEF InStep
  <2>2. SUFFICES Replies' /\ (srvUp' => Requests')
    BY <1>2, <2>1 DEF InStep
  <2>3. ASSUME UNCHANGED s2c PROVE Replies'
    BY <1>1, <1>2, <2>1, <2>3 DEF Replies
  <2>4. CASE ServerEnds
    BY <2>3, <2>4 DEF ServerEnds
  <2>5. CASE ReadEnds
    BY <1>4, <2>5 DEF ReadEnds
  <2>6. CASE ServerStep
    <3>1. srvUp /\ Requests
      BY <2>1, <2>6
      DEF ServerStep, ReadPiece, ReadEnds, Answer, OpenFD, Dup, WriteJSONFrameWithFD, WriteHdr, WriteBody
    <3>2. cl.at \in {"idle", "sending", "json", "jsonbody", "recvmsg"}
      BY <2>1 DEF Replies
    <3>3. CASE ReadPiece("hdr")
      <4>1. /\ srv.pc = "hdr" /\ srv'.pc = "body" /\ c2s # << >> /\ c2s' = Tail(c2s) /\ UNCHANGED s2c
            /\ srv'.n = Head(c2s).of /\ srv'.op = Head(c2s).op
        BY <3>3, HandlerMoves DEF ReadPiece
      <4>2. Head(c2s) = c2s[1] /\ Len(c2s') = Len(c2s) - 1
        BY <1>0, <4>1
      <4>3. HeadOfThisCall => OfThisCall'
        BY <1>1, <1>2, <4>1, <4>2 DEF HeadOfThisCall, OfThisCall
      <4>4. CASE cl.at = "sending"
        <5>1. Len(c2s) = 1 /\ HeadOfThisCall
          BY <3>1, <4>1, <4>4 DEF Requests
        <5>2. c2s' = << >>
          BY <1>0, <4>1, <5>1
        <5> QED
          BY <1>1, <2>3, <4>1, <4>3, <4>4, <5>1, <5>2 DEF Requests
      <4>5. CASE cl.at # "sending"
        <5>1. Len(c2s) = 2 /\ HeadOfThisCall /\ s2c = << >> /\ cl.at \in {"json", "recvmsg"}
          BY <3>1, <3>2, <4>1, <4>5 DEF Requests
        <5>2. Len(c2s') = 1
          BY <4>2, <5>1
        <5> QED
          BY <1>1, <2>3, <4>1, <4>3, <4>5, <5>1, <5>2 DEF Requests
      <4> QED
        BY <4>4, <4>5
    <3>4. CASE ReadPiece("body")
      <4>1. /\ srv.pc = "body" /\ srv'.pc = "dispatch" /\ c2s # << >> /\ c2s' = Tail(c2s) /\ UNCHANGED s2c
            /\ srv'.n = srv.n /\ srv'.op = srv.op
        BY <3>4, HandlerMoves DEF ReadPiece
      <4>2. Len(c2s) = 1 /\ OfThisCall /\ s2c = << >> /\ cl.at \in {"json", "recvmsg"}
        BY <3>1, <3>2, <4>1 DEF Requests
      <4>3. c2s' = << >> /\ OfThisCall'
        BY <1>0, <1>1, <1>2, <4>1, <4>2 DEF OfThisCall
      <4> QED
        BY <1>1, <2>3, <4>1, <4>2, <4>3 DEF Requests
    <3>5. CASE Answer
      <4>1. srv.pc = "dispatch" /\ srv'.pc = "writeHdr" /\ srv'.n = srv.n /\ UNCHANGED <<c2s, s2c>>
        BY <3>5, HandlerMoves DEF Answer
      <4>2. c2s = << >> /\ OfThisCall /\ s2c = << >> /\ cl.at \in {"json", "recvmsg"}
        BY <3>1, <3>2, <4>1 DEF Requests
      <4> QED
        BY <1>1, <1>2, <2>3, <4>1, <4>2 DEF Requests, OfThisCall
    <3>6. CASE OpenFD
      <4>1. /\ srv.pc = "dispatch" /\ srv'.pc \in {"dup", "writeHdr"} /\ srv'.n = srv.n
            /\ srv.op # "call" /\ UNCHANGED <<c2s, s2c>>
        BY <3>6, HandlerMoves DEF OpenFD
      <4>2. c2s = << >> /\ OfThisCall /\ s2c = << >> /\ cl.at \in {"json", "recvmsg"}
        BY <3>1, <3>2, <4>1 DEF Requests
      <4>3. cl.at = "recvmsg"
        BY <2>1, <4>1, <4>2 DEF Replies, OfThisCall
      <4> QED
        BY <1>1, <1>2, <2>3, <4>1, <4>2, <4>3 DEF Requests, OfThisCall
    <3>7. CASE Dup
      <4>1. /\ srv.pc = "dup" /\ srv'.pc \in {"sendFD", "writeHdr"} /\ srv'.n = srv.n
            /\ UNCHANGED <<c2s, s2c>>
        BY <3>7, HandlerMoves DEF Dup
      <4>2. c2s = << >> /\ srv.n = Call /\ s2c = << >> /\ cl.at = "recvmsg"
        BY <3>1, <3>2, <4>1 DEF Requests
      <4> QED
        BY <1>1, <1>2, <2>3, <4>1, <4>2 DEF Requests
    <3>8. CASE WriteJSONFrameWithFD
      <4>1. srv.pc = "sendFD" /\ UNCHANGED c2s
        BY <3>8 DEF WriteJSONFrameWithFD
      <4>2. c2s = << >> /\ srv.n = Call /\ s2c = << >> /\ cl.at = "recvmsg"
        BY <3>1, <3>2, <4>1 DEF Requests
      <4>3. CASE srv'.pc = "hdr" /\ s2c' = Append(s2c, Piece("whole", srv.n, "fd_reply"))
        <5> DEFINE p == Piece("whole", srv.n, "fd_reply")
        <5>1. p \in Pieces /\ p.part = "whole" /\ p.of = Call
          BY <1>0, <4>2 DEF Piece, Pieces, AnyOp
        <5> HIDE DEF p
        <5>2. s2c' = Append(s2c, p)
          BY <4>3 DEF p
        <5>3. Len(s2c') = 1 /\ s2c'[1] = p /\ DOMAIN s2c' = {1}
          BY <4>2, <5>1, <5>2
        <5>4. s2c' # << >>
          BY <5>3
        <5>5. Replies'
          BY <1>1, <1>2, <2>1, <4>2, <5>1, <5>3, <5>4 DEF Replies
        <5> QED
          BY <1>1, <4>1, <4>2, <4>3, <5>1, <5>3, <5>4, <5>5 DEF Requests
      <4>4. CASE srv'.pc = "writeHdr" /\ srv'.n = srv.n /\ s2c' = s2c
        BY <1>1, <1>2, <2>3, <4>1, <4>2, <4>4 DEF Requests
      <4> QED
        BY <3>8, <4>3, <4>4, HandlerMoves
    <3>9. CASE WriteHdr
      <4>1. /\ srv.pc = "writeHdr" /\ UNCHANGED c2s /\ srv'.pc = "writeBody" /\ srv'.n = srv.n
            /\ s2c' = Append(s2c, Piece("hdr", srv.n, srv.op))
        BY <1>4, <3>9, HandlerMoves DEF WriteHdr
      <4>2. c2s = << >> /\ srv.n = Call /\ s2c = << >> /\ cl.at \in {"json", "recvmsg"}
        BY <3>1, <3>2, <4>1 DEF Requests
      <4> DEFINE p == Piece("hdr", srv.n, srv.op)
      <4>3. p \in Pieces /\ p.part = "hdr" /\ p.of = Call
        BY <1>0, <4>2 DEF Piece, Pieces
      <4> HIDE DEF p
      <4>4. s2c' = Append(s2c, p)
        BY <4>1 DEF p
      <4>5. Len(s2c') = 1 /\ s2c'[1] = p /\ DOMAIN s2c' = {1}
        BY <4>2, <4>3, <4>4
      <4>6. s2c' # << >>
        BY <4>5
      <4>7. Replies'
        BY <1>1, <1>2, <2>1, <4>2, <4>3, <4>5, <4>6 DEF Replies
      <4> QED
        BY <1>1, <1>2, <4>1, <4>2, <4>3, <4>5, <4>6, <4>7 DEF Requests
    <3>10. CASE WriteBody
      <4>1. srv.pc = "writeBody" /\ UNCHANGED c2s /\ srv'.pc = "hdr"
        BY <3>10, HandlerMoves DEF WriteBody
      <4>2. s2c' = Append(s2c, Piece("body", srv.n, srv.op))
        BY <1>4, <3>10 DEF WriteBody
      <4>3. /\ c2s = << >> /\ srv.n = Call /\ cl.at \in {"json", "jsonbody", "recvmsg"}
            /\ IF cl.at = "jsonbody" THEN s2c = << >> ELSE Len(s2c) = 1 /\ s2c[1].part = "hdr"
        BY <3>1, <3>2, <4>1 DEF Requests
      <4> DEFINE p == Piece("body", srv.n, srv.op)
      <4>4. p \in Pieces /\ p.part = "body" /\ p.of = Call
        BY <1>0, <4>3 DEF Piece, Pieces
      <4> HIDE DEF p
      <4>5. s2c' = Append(s2c, p)
        BY <4>2 DEF p
      <4>6. CASE cl.at = "jsonbody"
        <5>1. Len(s2c') = 1 /\ s2c'[1] = p /\ DOMAIN s2c' = {1}
          BY <4>3, <4>4, <4>5, <4>6
        <5>2. s2c' # << >>
          BY <5>1
        <5>3. Replies'
          BY <1>1, <1>2, <2>1, <4>4, <4>6, <5>1, <5>2 DEF Replies
        <5> QED
          BY <1>1, <4>1, <4>3, <4>6, <5>2, <5>3 DEF Requests
      <4>7. CASE cl.at # "jsonbody"
        <5>1. Len(s2c) = 1 /\ s2c[1].part = "hdr" /\ s2c[1].of = Call
          <6>1. Len(s2c) = 1 /\ s2c[1].part = "hdr" /\ \A i \in DOMAIN s2c : s2c[i].of = Call
            BY <2>1, <4>3, <4>7 DEF Replies
          <6> QED
            BY <1>0, <6>1
        <5>2. Len(s2c') = 2 /\ s2c'[1] = s2c[1] /\ s2c'[2] = p /\ DOMAIN s2c' = {1, 2}
          <6>1. Len(s2c') = 2 /\ s2c'[1] = s2c[1] /\ s2c'[2] = p /\ DOMAIN s2c' = 1..2
            <7>1. s2c \in Seq(Pieces) /\ s2c' \in Seq(Pieces)
              BY DEF TypeOK
            <7>2. Len(s2c) = 1 /\ p \in Pieces
              BY <4>4, <5>1
            <7> QED
              BY <4>5, <7>1, <7>2, AppendSecond
          <6>2. 1..2 = {1, 2}
            OBVIOUS
          <6> QED
            BY <6>1, <6>2
        <5>3. s2c' # << >>
          BY <5>2
        <5>4. Replies'
          BY <1>1, <1>2, <2>1, <4>3, <4>4, <4>7, <5>1, <5>2, <5>3 DEF Replies
        <5> QED
          BY <1>1, <4>1, <4>3, <4>7, <5>2, <5>3, <5>4 DEF Requests
      <4> QED
        BY <4>6, <4>7
    <3> QED
      BY <2>5, <2>6, <3>3, <3>4, <3>5, <3>6, <3>7, <3>8, <3>9, <3>10 DEF ServerStep
  <2> QED
    BY <2>4, <2>6
<1> QED
  BY <1>3, <1>4

-----------------------------------------------------------------------------
(* The theorems.                                                           *)

\* The connection before its first call.
LEMMA InitIInv == Init => IInv
<1> SUFFICES ASSUME Init PROVE IInv
  OBVIOUS
<1>1. TypeOK
  BY InitTypeOK
<1>2. /\ srv.pc = "hdr" /\ cl.at = "idle" /\ fds = {} /\ leaked = {} /\ owned = {}
      /\ c2s = << >> /\ s2c = << >> /\ results = << >> /\ sent = << >> /\ dispatched = << >>
  BY DEF Init, Serving
<1>3. Held
  BY <1>2 DEF Held
<1>4. Half = 0 /\ Behind = 0 /\ Ahead = 0
  BY <1>2 DEF Half, Behind, Ahead
<1>5. Decoded /\ Framed
  BY <1>2, <1>4 DEF Decoded, Framed
<1>6. Matched
  BY <1>2 DEF Matched
<1>7. Replies /\ Requests
  BY <1>2 DEF Replies, Requests
<1> QED
  BY <1>1, <1>3, <1>5, <1>6, <1>7 DEF IInv, InStep

\* Every step keeps the invariant.
LEMMA NextIInv == IInv /\ [Next]_vars => IInv'
<1> SUFFICES ASSUME IInv, [Next]_vars PROVE IInv'
  OBVIOUS
<1>1. TypeOK' /\ Held' /\ Decoded' /\ Framed'
  BY NextTypeOK, NextHeld, NextFramed DEF IInv
<1>2. CASE UNCHANGED vars
  BY <1>2 DEF IInv, vars, InStep, OutOfStep, Matched, Replies, Requests, Call, OfThisCall,
              HeadOfThisCall, TypeOK, Held, Decoded, Framed, Half, Behind, Ahead
<1>3. CASE Next
  BY <1>1, <1>3, ClientInStep, ServerInStep DEF IInv, Next
<1> QED
  BY <1>2, <1>3

\* The invariant holds in every state of a connection.
LEMMA Inductive == Spec => []IInv
<1>1. Spec => Init /\ [][Next]_vars
  BY DEF Spec
<1> QED
  BY <1>1, InitIInv, NextIInv, PTL

\* A client in step is never given the reply to another call, however many
\* calls are made and wherever either side ends.
THEOREM ReplySafety == Spec => []RepliesMatch
<1>1. IInv => RepliesMatch
  BY DEF IInv, InStep, Matched, RepliesMatch
<1> QED
  BY <1>1, Inductive, PTL

\* Between two requests the handler holds no descriptor, and every descriptor
\* that reached a client in step was given to a caller that returned.
THEOREM DescriptorSafety == Spec => []NoDescriptorLeak
<1>1. ASSUME IInv PROVE NoDescriptorLeak
  <2>1. srv.pc \in {"hdr", "gone"} => fds = {}
    BY <1>1 DEF IInv, Held
  <2>2. ~OutOfStep => Matched /\ DOMAIN results = 1..Len(results) /\ Len(results) \in Nat
    BY <1>1 DEF IInv, InStep, TypeOK
  <2> QED
    BY <2>1, <2>2 DEF NoDescriptorLeak, Matched
<1> QED
  BY <1>1, Inductive, PTL

\* What the handler decodes is a prefix of the requests that were written
\* whole, whether or not the client has lost step with its replies.
THEOREM RequestSafety == Spec => []DispatchedWasSent
<1>1. ASSUME IInv PROVE DispatchedWasSent
  <2>1. /\ sent \in Seq(Nat) /\ dispatched \in Seq(Nat) /\ Len(dispatched) <= Len(sent)
        /\ \A i \in 1..Len(dispatched) : dispatched[i] = sent[i]
    BY <1>1 DEF IInv, TypeOK, Decoded
  <2>2. SubSeq(dispatched, 1, Len(dispatched)) = SubSeq(sent, 1, Len(dispatched))
    BY <2>1
  <2> QED
    BY <2>1, <2>2 DEF DispatchedWasSent, IsPrefix
<1> QED
  BY <1>1, Inductive, PTL

=============================================================================
