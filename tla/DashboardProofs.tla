-------------------------- MODULE DashboardProofs --------------------------
(***************************************************************************)
(* What the dashboard guarantees of POST /api/exec, however many processes *)
(* the started one forks and however much they write.  A request           *)
(* passes the middlewares one after the other, so the invariant says what  *)
(* has been established by the time the handler stands at each of them,    *)
(* and where the output of the started processes is meanwhile.             *)
(***************************************************************************)
EXTENDS Dashboard, TLAPS

-----------------------------------------------------------------------------
(* The inductive invariant.                                                *)

Kinds == {"none", "usage", "help", "topology", "dag"} \cup {"run", "shm", "perf", "hugepages"}
         \cup {"kubermetrics"}

Code == {-1, 0, 1, 2}
Child == [state : {"none", "running", "exited", "reaped"}, code : Code, kind : Kinds]
Resp == [status : Nat, exit : Code, error : BOOLEAN, out : Nat]

TypeOK ==
    /\ cfg \in [token : BOOLEAN, cidrs : {"none", "blank", "good", "bad"},
              base : {"nexusflow", "kubermetrics"}]
    /\ pc \in {"boot", "exit", "idle", "ipAllow", "bearer", "mux", "decode", "start", "wait",
               "drain", "sent"}
    /\ limit \in Nat
    /\ ctx \in {"live", "deadline", "gone"}
    /\ child \in Child
    /\ watch \in BOOLEAN
    /\ node \in {"none", "attached", "detached"} /\ left \in Nat
    /\ written \in Nat /\ pipe \in Nat /\ buf \in Nat
    /\ resp \in Resp

\* Nothing runs unless the handler is in cmd.Run, or has come out of it.
Stages ==
    /\ pc \in {"ipAllow", "bearer", "mux"} => req.path \in {"/", "/healthz", "/api/exec"}
    /\ pc \notin {"wait", "drain", "sent"} => child.state = "none"
    /\ pc = "wait" => child.state \in {"running", "exited"}
    /\ pc = "drain" => child.state = "reaped"
    /\ pc = "sent" => child.state \in {"none", "reaped"}
    /\ pc \notin {"wait", "drain"} => ~Held /\ pipe = 0

\* The handler is past a stage, or a process runs because it was.
Past(stages) == pc \in stages \/ child.state # "none"

\* What each middleware has established once the request is past it.
Admitted ==
    /\ Past({"bearer", "mux", "decode", "start"}) => (cfg.cidrs = "good" => req.peer = "inside")
    /\ Past({"mux", "decode", "start"}) =>
           ((cfg.token /\ req.path = "/api/exec" /\ req.method = "POST") => req.auth = "right")
    /\ Past({"decode", "start"}) => req.method = "POST" /\ req.path = "/api/exec"
    /\ Past({"start"}) =>
           /\ limit \in execTimeoutMinSec..execTimeoutMaxSec
           /\ child.kind = "kubermetrics" <=> cfg.base = "kubermetrics"

\* What was written is in the pipe or in the buffer.
Conserved == written = pipe + buf

\* What cmd.Run makes of the child's end, and of a context that ended first.
Reported ==
    /\ watch => ctx # "live"
    /\ child.state = "reaped" => resp.exit = ExitOf /\ resp.error = (ExitOf = -1)
    /\ (child.state = "reaped" /\ pc = "sent") => resp.out = buf

IInv == TypeOK /\ Stages /\ Admitted /\ Conserved /\ Reported

-----------------------------------------------------------------------------
\* main makes a command of every argv that validateArgv accepts, unless it is
\* called kubermetrics.
LEMMA DispatchAllowed ==
    ASSUME NEW argv, validateArgv(argv), NEW base
    PROVE  /\ Dispatch(base, argv) \in Kinds
           /\ Dispatch(base, argv) = "kubermetrics" <=> base = "kubermetrics"
<1>1. argv.root \in allowedRoots /\ ~looksLikeKubermetricsArgv(argv)
  BY DEF validateArgv, allowedRoots, looksLikeKubermetricsArgv
<1>2. CASE base = "kubermetrics"
  BY <1>2 DEF Dispatch, Kinds
<1>3. CASE base # "kubermetrics"
  <2>1. Dispatch(base, argv) \in Kinds \ {"kubermetrics"}
    BY <1>1, <1>3 DEF Dispatch, allowedRoots, Kinds
  <2> QED
    BY <1>3, <2>1
<1> QED
  BY <1>2, <1>3

\* The limit of a request is between the two bounds, whatever it asks for.
LEMMA DurationBounded ==
    ASSUME NEW t \in Int
    PROVE  execDuration(t) \in Nat /\ execDuration(t) \in execTimeoutMinSec..execTimeoutMaxSec
BY DEF execDuration, execTimeoutMinSec, execTimeoutMaxSec, Minutes3

\* An answer without a process is a response, and its status is the one given.
LEMMA ReplyType ==
    ASSUME NEW status \in Nat, Reply(status)
    PROVE  resp' \in Resp /\ pc' = "sent"
<1>1. NoResp \in Resp
  BY DEF NoResp, Resp, Code
<1>2. [NoResp EXCEPT !.status = status] \in Resp
  BY <1>1 DEF Resp
<1> QED
  BY <1>2 DEF Reply

\* The invariant holds before the server listens.
LEMMA InitIInv == Init => IInv
<1> SUFFICES ASSUME Init PROVE IInv
  OBVIOUS
<1> USE DEF Init
<1>1. TypeOK
  BY DEF TypeOK, NoChild, NoResp, Child, Resp, Code, Kinds
<1>2. Stages /\ Conserved
  BY DEF Stages, Held, Conserved, NoChild
<1>3. Admitted
  BY DEF Admitted, Past, NoChild
<1>4. Reported
  BY DEF Reported, NoChild
<1> QED
  BY <1>1, <1>2, <1>3, <1>4 DEF IInv

\* Every step of the server, the client and the processes preserves it.
LEMMA NextIInv == IInv /\ [Next]_vars => IInv'
<1> SUFFICES ASSUME IInv, [Next]_vars PROVE IInv'
  OBVIOUS
<1> USE DEF IInv, process
<1>1. ASSUME NEW token \in BOOLEAN, NEW cert \in BOOLEAN, NEW key \in BOOLEAN,
            NEW cidrs \in {"none", "blank", "good", "bad"}, NEW base \in {"nexusflow", "kubermetrics"},
            Boot(token, cidrs, base, cert, key)
      PROVE IInv'
  <2>1. TypeOK'
    BY <1>1 DEF Boot, TypeOK
  <2>2. Stages'
    BY <1>1 DEF Boot, TypeOK, Stages, Held
  <2>3. Admitted'
    BY <1>1 DEF Boot, TypeOK, Stages, Admitted, Past
  <2>4. Conserved'
    BY <1>1 DEF Boot, TypeOK, Stages, Conserved
  <2>5. Reported'
    BY <1>1 DEF Boot, TypeOK, Stages, Reported, ExitOf
  <2> QED
    BY <2>1, <2>2, <2>3, <2>4, <2>5
<1>2. ASSUME NEW method, NEW path \in {"/", "/healthz", "/api/exec"}, NEW peer, NEW auth, Arrive(method, path, peer, auth) PROVE IInv'
  <2>1. TypeOK'
    BY <1>2 DEF Arrive, TypeOK
  <2>2. Stages'
    BY <1>2 DEF Arrive, TypeOK, Stages, Held
  <2>3. Admitted'
    BY <1>2 DEF Arrive, TypeOK, Stages, Admitted, Past
  <2>4. Conserved'
    BY <1>2 DEF Arrive, TypeOK, Stages, Conserved
  <2>5. Reported'
    BY <1>2 DEF Arrive, TypeOK, Stages, Reported, ExitOf
  <2> QED
    BY <2>1, <2>2, <2>3, <2>4, <2>5
<1>3. CASE ipAllow
  <2>1. TypeOK'
    <3>1. CASE Reply(403)
      <4>1. resp' \in Resp /\ pc' = "sent"
        BY <3>1, ReplyType
      <4> QED
        BY <1>3, <4>1 DEF ipAllow, TypeOK
    <3>2. CASE pc' = "bearer" /\ UNCHANGED resp
      BY <1>3, <3>2 DEF ipAllow, TypeOK
    <3> QED
      BY <1>3, <3>1, <3>2 DEF ipAllow
  <2>2. Stages'
    BY <1>3 DEF ipAllow, Reply, parseAllowedNetworks, Unfiltered, TypeOK, Stages, Held
  <2>3. Admitted'
    BY <1>3 DEF ipAllow, Reply, parseAllowedNetworks, Unfiltered, TypeOK, Stages, Admitted, Past
  <2>4. Conserved'
    BY <1>3 DEF ipAllow, Reply, parseAllowedNetworks, Unfiltered, TypeOK, Stages, Conserved
  <2>5. Reported'
    BY <1>3 DEF ipAllow, Reply, parseAllowedNetworks, Unfiltered, TypeOK, Stages, Reported, ExitOf
  <2> QED
    BY <2>1, <2>2, <2>3, <2>4, <2>5
<1>4. CASE bearerAuth
  <2>1. TypeOK'
    <3>1. CASE Reply(401)
      <4>1. resp' \in Resp /\ pc' = "sent"
        BY <3>1, ReplyType
      <4> QED
        BY <1>4, <4>1 DEF bearerAuth, TypeOK
    <3>2. CASE pc' = "mux" /\ UNCHANGED resp
      BY <1>4, <3>2 DEF bearerAuth, TypeOK
    <3> QED
      BY <1>4, <3>1, <3>2 DEF bearerAuth
  <2>2. Stages'
    BY <1>4 DEF bearerAuth, Reply, TypeOK, Stages, Held
  <2>3. Admitted'
    BY <1>4 DEF bearerAuth, Reply, TypeOK, Stages, Admitted, Past
  <2>4. Conserved'
    BY <1>4 DEF bearerAuth, Reply, TypeOK, Stages, Conserved
  <2>5. Reported'
    BY <1>4 DEF bearerAuth, Reply, TypeOK, Stages, Reported, ExitOf
  <2> QED
    BY <2>1, <2>2, <2>3, <2>4, <2>5
<1>5. CASE mux
  <2>1. TypeOK'
    <3>1. CASE \E n \in {200, 405} : Reply(n)
      <4>1. resp' \in Resp /\ pc' = "sent"
        BY <3>1, ReplyType
      <4> QED
        BY <1>5, <4>1 DEF mux, TypeOK
    <3>2. CASE pc' = "decode" /\ UNCHANGED resp
      BY <1>5, <3>2 DEF mux, TypeOK
    <3>3. req.path \in {"/", "/healthz", "/api/exec"} /\ healthHandler(req.method) \in {200, 405}
      BY <1>5 DEF mux, Stages, healthHandler
    <3>4. CASE req.path = "/healthz"
      BY <1>5, <3>1, <3>3, <3>4 DEF mux
    <3>5. CASE req.path = "/"
      BY <1>5, <3>1, <3>5 DEF mux
    <3>6. CASE req.path = "/api/exec"
      BY <1>5, <3>1, <3>2, <3>6 DEF mux
    <3> QED
      BY <3>3, <3>4, <3>5, <3>6
  <2>2. Stages'
    BY <1>5 DEF mux, Reply, healthHandler, TypeOK, Stages, Held
  <2>3. Admitted'
    BY <1>5 DEF mux, Reply, healthHandler, TypeOK, Stages, Admitted, Past
  <2>4. Conserved'
    BY <1>5 DEF mux, Reply, healthHandler, TypeOK, Stages, Conserved
  <2>5. Reported'
    BY <1>5 DEF mux, Reply, healthHandler, TypeOK, Stages, Reported, ExitOf
  <2> QED
    BY <2>1, <2>2, <2>3, <2>4, <2>5
<1>6. CASE BadJSON
  <2>1. TypeOK'
    <3>1. CASE Reply(400)
      <4>1. resp' \in Resp /\ pc' = "sent"
        BY <3>1, ReplyType
      <4> QED
        BY <1>6, <4>1 DEF BadJSON, TypeOK
    <3> QED
      BY <1>6, <3>1 DEF BadJSON
  <2>2. Stages'
    BY <1>6 DEF BadJSON, Reply, TypeOK, Stages, Held
  <2>3. Admitted'
    BY <1>6 DEF BadJSON, Reply, TypeOK, Stages, Admitted, Past
  <2>4. Conserved'
    BY <1>6 DEF BadJSON, Reply, TypeOK, Stages, Conserved
  <2>5. Reported'
    BY <1>6 DEF BadJSON, Reply, TypeOK, Stages, Reported, ExitOf
  <2> QED
    BY <2>1, <2>2, <2>3, <2>4, <2>5
<1>7. ASSUME NEW argv \in Argv, NEW timeoutSec \in {0, 9, 7201}, Decode(argv, timeoutSec) PROVE IInv'
  <2>0. /\ validateArgv(argv) =>
              /\ Dispatch(cfg.base, argv) \in Kinds
              /\ Dispatch(cfg.base, argv) = "kubermetrics" <=> cfg.base = "kubermetrics"
        /\ execDuration(timeoutSec) \in Nat /\ execDuration(timeoutSec) \in execTimeoutMinSec..execTimeoutMaxSec
    BY DispatchAllowed, DurationBounded
  <2>1. TypeOK'
    <3>1. CASE validateArgv(argv)
      <4>1. child' = [state |-> "none", code |-> 0, kind |-> Dispatch(cfg.base, argv)]
        BY <1>7, <3>1 DEF Decode, NoChild
      <4>2. child' \in Child
        BY <2>0, <3>1, <4>1 DEF Child, Code
      <4>3. limit' \in Nat
        BY <1>7, <2>0, <3>1 DEF Decode
      <4> QED
        BY <1>7, <3>1, <4>2, <4>3 DEF Decode, TypeOK
    <3>2. CASE ~validateArgv(argv)
      <4>1. resp' = [status |-> 400, exit |-> -1, error |-> TRUE, out |-> 0]
        BY <1>7, <3>2 DEF Decode
      <4>2. resp' \in Resp
        BY <4>1 DEF Resp, Code
      <4> QED
        BY <1>7, <3>2, <4>2 DEF Decode, TypeOK
    <3> QED
      BY <3>1, <3>2
  <2>2. Stages'
    BY <1>7, <2>0 DEF Decode, TypeOK, Stages, NoChild, Held
  <2>3. Admitted'
    BY <1>7, <2>0 DEF Decode, TypeOK, Stages, Admitted, Past, NoChild
  <2>4. Conserved'
    BY <1>7, <2>0 DEF Decode, TypeOK, Stages, Conserved, NoChild
  <2>5. Reported'
    BY <1>7, <2>0 DEF Decode, TypeOK, Stages, Reported, ExitOf, NoChild, Child
  <2> QED
    BY <2>1, <2>2, <2>3, <2>4, <2>5
<1>8. CASE StartFails
  <2>1. TypeOK'
    <3>2. resp' \in Resp
      BY <1>8 DEF StartFails, TypeOK, Resp, Code
    <3> QED
      BY <1>8, <3>2 DEF StartFails, TypeOK
  <2>2. Stages'
    BY <1>8 DEF StartFails, TypeOK, Stages, Held
  <2>3. Admitted'
    BY <1>8 DEF StartFails, TypeOK, Stages, Admitted, Past
  <2>4. Conserved'
    BY <1>8 DEF StartFails, TypeOK, Stages, Conserved
  <2>5. Reported'
    BY <1>8 DEF StartFails, TypeOK, Stages, Reported, ExitOf
  <2> QED
    BY <2>1, <2>2, <2>3, <2>4, <2>5
<1>9. CASE Start
  <2>1. TypeOK'
    <3>1. child' \in Child
      BY <1>9 DEF Start, TypeOK, Child, Code
    <3> QED
      BY <1>9, <3>1 DEF Start, TypeOK
  <2>2. Stages'
    BY <1>9 DEF Start, TypeOK, Stages, Child, Held
  <2>3. Admitted'
    BY <1>9 DEF Start, TypeOK, Stages, Admitted, Past, Child
  <2>4. Conserved'
    BY <1>9 DEF Start, TypeOK, Stages, Conserved, Child
  <2>5. Reported'
    BY <1>9 DEF Start, TypeOK, Stages, Reported, ExitOf, Child
  <2> QED
    BY <2>1, <2>2, <2>3, <2>4, <2>5
<1>10. CASE Cancel
  <2>1. TypeOK'
    <3>1. child' \in Child
      BY <1>10 DEF Cancel, Killed, TypeOK, Child, Code
    <3> QED
      BY <1>10, <3>1 DEF Cancel, TypeOK
  <2>2. Stages'
    BY <1>10 DEF Cancel, Killed, TypeOK, Stages, Child, Held
  <2>3. Admitted'
    BY <1>10 DEF Cancel, Killed, TypeOK, Stages, Admitted, Past, Child
  <2>4. Conserved'
    BY <1>10 DEF Cancel, Killed, TypeOK, Stages, Conserved, Child
  <2>5. Reported'
    BY <1>10 DEF Cancel, Killed, TypeOK, Stages, Reported, ExitOf, Child
  <2> QED
    BY <2>1, <2>2, <2>3, <2>4, <2>5
<1>11. CASE Reap
  <2>1. TypeOK'
    <3>1. child' \in Child
      BY <1>11 DEF Reap, ExitOf, TypeOK, Child, Code
    <3>2. resp' \in Resp
      BY <1>11 DEF Reap, ExitOf, TypeOK, Resp, Code, Child
    <3> QED
      BY <1>11, <3>1, <3>2 DEF Reap, TypeOK
  <2>2. Stages'
    BY <1>11 DEF Reap, ExitOf, TypeOK, Stages, Child, Held
  <2>3. Admitted'
    BY <1>11 DEF Reap, ExitOf, TypeOK, Stages, Admitted, Past, Child
  <2>4. Conserved'
    BY <1>11 DEF Reap, ExitOf, TypeOK, Stages, Conserved, Child
  <2>5. Reported'
    BY <1>11 DEF Reap, ExitOf, TypeOK, Stages, Reported, Child, Resp
  <2> QED
    BY <2>1, <2>2, <2>3, <2>4, <2>5
<1>12. CASE Copy
  <2>1. TypeOK'
    BY <1>12 DEF Copy, Handling, TypeOK
  <2>2. Stages'
    BY <1>12 DEF Copy, Handling, TypeOK, Stages, Held
  <2>3. Admitted'
    BY <1>12 DEF Copy, Handling, TypeOK, Stages, Admitted, Past
  <2>4. Conserved'
    BY <1>12 DEF Copy, Handling, TypeOK, Stages, Conserved
  <2>5. Reported'
    BY <1>12 DEF Copy, Handling, TypeOK, Stages, Reported, ExitOf
  <2> QED
    BY <2>1, <2>2, <2>3, <2>4, <2>5
<1>13. CASE Respond
  <2>1. TypeOK'
    <3>2. resp' \in Resp
      BY <1>13 DEF Respond, Held, TypeOK, Resp, Code
    <3> QED
      BY <1>13, <3>2 DEF Respond, Held, TypeOK
  <2>2. Stages'
    BY <1>13 DEF Respond, Held, TypeOK, Stages
  <2>3. Admitted'
    BY <1>13 DEF Respond, Held, TypeOK, Stages, Admitted, Past
  <2>4. Conserved'
    BY <1>13 DEF Respond, Held, TypeOK, Stages, Conserved
  <2>5. Reported'
    BY <1>13 DEF Respond, Held, TypeOK, Stages, Reported, ExitOf, Resp
  <2> QED
    BY <2>1, <2>2, <2>3, <2>4, <2>5
<1>14. CASE NextRequest
  <2>1. TypeOK'
    <3>1. child' \in Child
      BY <1>14 DEF NextRequest, TypeOK, Child, Code, NoChild, Kinds
    <3>2. resp' \in Resp
      BY <1>14 DEF NextRequest, TypeOK, Resp, Code, NoResp
    <3> QED
      BY <1>14, <3>1, <3>2 DEF NextRequest, TypeOK
  <2>2. Stages'
    BY <1>14 DEF NextRequest, TypeOK, Stages, Held, NoChild
  <2>3. Admitted'
    BY <1>14 DEF NextRequest, TypeOK, Stages, Admitted, Past, NoChild
  <2>4. Conserved'
    BY <1>14 DEF NextRequest, TypeOK, Stages, Conserved, NoChild
  <2>5. Reported'
    BY <1>14 DEF NextRequest, TypeOK, Stages, Reported, ExitOf, NoChild
  <2> QED
    BY <2>1, <2>2, <2>3, <2>4, <2>5
<1>15. CASE Deadline
  <2>1. TypeOK'
    BY <1>15 DEF Deadline, Handling, TypeOK
  <2>2. Stages'
    BY <1>15 DEF Deadline, Handling, TypeOK, Stages, Held
  <2>3. Admitted'
    BY <1>15 DEF Deadline, Handling, TypeOK, Stages, Admitted, Past
  <2>4. Conserved'
    BY <1>15 DEF Deadline, Handling, TypeOK, Stages, Conserved
  <2>5. Reported'
    BY <1>15 DEF Deadline, Handling, TypeOK, Stages, Reported, ExitOf
  <2> QED
    BY <2>1, <2>2, <2>3, <2>4, <2>5
<1>16. CASE ClientGone
  <2>1. TypeOK'
    BY <1>16 DEF ClientGone, Handling, TypeOK
  <2>2. Stages'
    BY <1>16 DEF ClientGone, Handling, TypeOK, Stages, Held
  <2>3. Admitted'
    BY <1>16 DEF ClientGone, Handling, TypeOK, Stages, Admitted, Past
  <2>4. Conserved'
    BY <1>16 DEF ClientGone, Handling, TypeOK, Stages, Conserved
  <2>5. Reported'
    BY <1>16 DEF ClientGone, Handling, TypeOK, Stages, Reported, ExitOf
  <2> QED
    BY <2>1, <2>2, <2>3, <2>4, <2>5
<1>17. CASE ChildWrites
  <2>1. TypeOK'
    BY <1>17 DEF ChildWrites, TypeOK
  <2>2. Stages'
    BY <1>17 DEF ChildWrites, TypeOK, Stages, Held
  <2>3. Admitted'
    BY <1>17 DEF ChildWrites, TypeOK, Stages, Admitted, Past
  <2>4. Conserved'
    BY <1>17 DEF ChildWrites, TypeOK, Stages, Conserved
  <2>5. Reported'
    BY <1>17 DEF ChildWrites, TypeOK, Stages, Reported, ExitOf
  <2> QED
    BY <2>1, <2>2, <2>3, <2>4, <2>5
<1>18. CASE ForkNode
  <2>1. TypeOK'
    BY <1>18 DEF ForkNode, TypeOK
  <2>2. Stages'
    BY <1>18 DEF ForkNode, TypeOK, Stages, Held
  <2>3. Admitted'
    BY <1>18 DEF ForkNode, TypeOK, Stages, Admitted, Past
  <2>4. Conserved'
    BY <1>18 DEF ForkNode, TypeOK, Stages, Conserved
  <2>5. Reported'
    BY <1>18 DEF ForkNode, TypeOK, Stages, Reported, ExitOf
  <2> QED
    BY <2>1, <2>2, <2>3, <2>4, <2>5
<1>19. CASE HolderWrites
  <2>1. TypeOK'
    BY <1>19 DEF HolderWrites, TypeOK
  <2>2. Stages'
    BY <1>19 DEF HolderWrites, TypeOK, Stages, Held
  <2>3. Admitted'
    BY <1>19 DEF HolderWrites, TypeOK, Stages, Admitted, Past
  <2>4. Conserved'
    BY <1>19 DEF HolderWrites, TypeOK, Stages, Conserved
  <2>5. Reported'
    BY <1>19 DEF HolderWrites, TypeOK, Stages, Reported, ExitOf
  <2> QED
    BY <2>1, <2>2, <2>3, <2>4, <2>5
<1>20. CASE NodeEnds
  <2>1. TypeOK'
    BY <1>20 DEF NodeEnds, TypeOK
  <2>2. Stages'
    BY <1>20 DEF NodeEnds, TypeOK, Stages, Held
  <2>3. Admitted'
    BY <1>20 DEF NodeEnds, TypeOK, Stages, Admitted, Past
  <2>4. Conserved'
    BY <1>20 DEF NodeEnds, TypeOK, Stages, Conserved
  <2>5. Reported'
    BY <1>20 DEF NodeEnds, TypeOK, Stages, Reported, ExitOf
  <2> QED
    BY <2>1, <2>2, <2>3, <2>4, <2>5
<1>21. CASE ChildExits
  <2>1. TypeOK'
    <3>1. PICK code \in ExitCodes(child.kind) : child' = [child EXCEPT !.state = "exited", !.code = code]
      BY <1>21 DEF ChildExits
    <3>2. code \in Code
      BY DEF ExitCodes, Killed, Code
    <3>3. child' \in Child
      BY <3>1, <3>2 DEF TypeOK, Child
    <3> QED
      BY <1>21, <3>3 DEF ChildExits, TypeOK
  <2>2. Stages'
    BY <1>21 DEF ChildExits, ExitCodes, Killed, TypeOK, Stages, Child, Held
  <2>3. Admitted'
    BY <1>21 DEF ChildExits, ExitCodes, Killed, TypeOK, Stages, Admitted, Past, Child
  <2>4. Conserved'
    BY <1>21 DEF ChildExits, ExitCodes, Killed, TypeOK, Stages, Conserved, Child
  <2>5. Reported'
    BY <1>21 DEF ChildExits, ExitCodes, Killed, TypeOK, Stages, Reported, ExitOf, Child
  <2> QED
    BY <2>1, <2>2, <2>3, <2>4, <2>5
<1>22. CASE NodeDetaches
  <2>1. TypeOK'
    BY <1>22 DEF NodeDetaches, TypeOK
  <2>2. Stages'
    BY <1>22 DEF NodeDetaches, TypeOK, Stages, Held
  <2>3. Admitted'
    BY <1>22 DEF NodeDetaches, TypeOK, Stages, Admitted, Past
  <2>4. Conserved'
    BY <1>22 DEF NodeDetaches, TypeOK, Stages, Conserved
  <2>5. Reported'
    BY <1>22 DEF NodeDetaches, TypeOK, Stages, Reported, ExitOf
  <2> QED
    BY <2>1, <2>2, <2>3, <2>4, <2>5
<1>23. CASE Leave
  <2>1. TypeOK'
    BY <1>23 DEF Leave, TypeOK
  <2>2. Stages'
    BY <1>23 DEF Leave, TypeOK, Stages, Held
  <2>3. Admitted'
    BY <1>23 DEF Leave, TypeOK, Stages, Admitted, Past
  <2>4. Conserved'
    BY <1>23 DEF Leave, TypeOK, Stages, Conserved
  <2>5. Reported'
    BY <1>23 DEF Leave, TypeOK, Stages, Reported, ExitOf
  <2> QED
    BY <2>1, <2>2, <2>3, <2>4, <2>5
<1>24. CASE LeftEnds
  <2>1. TypeOK'
    BY <1>24 DEF LeftEnds, TypeOK
  <2>2. Stages'
    BY <1>24 DEF LeftEnds, TypeOK, Stages, Held
  <2>3. Admitted'
    BY <1>24 DEF LeftEnds, TypeOK, Stages, Admitted, Past
  <2>4. Conserved'
    BY <1>24 DEF LeftEnds, TypeOK, Stages, Conserved
  <2>5. Reported'
    BY <1>24 DEF LeftEnds, TypeOK, Stages, Reported, ExitOf
  <2> QED
    BY <2>1, <2>2, <2>3, <2>4, <2>5
<1>25. CASE UNCHANGED vars
  BY <1>25 DEF vars, TypeOK, Stages, Held, Admitted, Past, Conserved, Reported, ExitOf
<1> QED
  BY <1>1, <1>2, <1>3, <1>4, <1>5, <1>6, <1>7, <1>8, <1>9, <1>10, <1>11, <1>12, <1>13, <1>14, <1>15, <1>16, <1>17, <1>18, <1>19, <1>20, <1>21, <1>22, <1>23, <1>24, <1>25
     DEF Next, Handler

-----------------------------------------------------------------------------
\* The invariant holds for every request that the server handles.
LEMMA Inductive == Spec => []IInv
<1>1. Spec => Init /\ [][Next]_vars
  BY DEF Spec
<1> QED
  BY <1>1, InitIInv, NextIInv, PTL

\* The dashboard starts a process only for a POST to /api/exec that passed the
\* address filter and the token, and it is never the daemon or another
\* dashboard, and the deployment only under the name kubermetrics; its time
\* limit is within the bounds.
THEOREM ExecSafety == Spec => []ExecIsAuthorised
<1>1. IInv => ExecIsAuthorised
  BY DEF IInv, TypeOK, Child, Kinds, Admitted, Past, ExecIsAuthorised
<1> QED
  BY <1>1, Inductive, PTL

\* The response of a process that ran holds all that it and the processes below
\* it wrote to the pipes, and its exit code is the process's own or -1 with an
\* error.
THEOREM ResponseSafety == Spec => []ResponseTruthful
<1>1. IInv => ResponseTruthful
  <2> SUFFICES ASSUME IInv, pc = "sent", child.state = "reaped"
               PROVE  /\ resp.out = written
                      /\ IF resp.exit = -1 THEN resp.error /\ (child.code = Killed \/ ctx # "live")
                         ELSE resp.exit = child.code /\ ~resp.error
    BY DEF ResponseTruthful
  <2>1. resp.out = written
    BY DEF IInv, TypeOK, Stages, Conserved, Reported
  <2>2. resp.exit = ExitOf /\ resp.error = (ExitOf = -1) /\ (watch => ctx # "live")
    BY DEF IInv, Reported
  <2> QED
    BY <2>1, <2>2 DEF ExitOf, Killed
<1> QED
  BY <1>1, Inductive, PTL

=============================================================================
