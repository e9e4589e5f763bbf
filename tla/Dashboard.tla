----------------------------- MODULE Dashboard -----------------------------
(***************************************************************************)
(* The dashboard server (pkg/dashboard/server.go, health.go), its command  *)
(* (cmd/nexusflow/dashboard_cmd.go), and the nexusflow process it starts   *)
(* for POST /api/exec, as far as main's dispatch goes (main.go).           *)
(*                                                                         *)
(* Handlers share nothing, so the model follows one connection, which      *)
(* carries one request after the other.  A started process writes to pipes *)
(* that os/exec copies into buffers.  The commands of "dag run" inherit    *)
(* them, as does whatever a command leaves behind in the background; a     *)
(* command may also redirect its output and outlive the pipes.  At the     *)
(* deadline, or when the client has gone, the context kills the direct     *)
(* child only, and cmd.Run still waits for every holder of the pipes.      *)
(* Output is counted in chunks, stdout and stderr together.  The part of a *)
(* request that a step does not look at is chosen by the step that does.   *)
(***************************************************************************)
EXTENDS Integers, FiniteSets

CONSTANTS MaxForks,  \* bound: processes forked below the child of one request
          MaxOut     \* bound: chunks written for one request

ASSUME BoundAssumption == MaxForks \in Nat /\ MaxOut \in Nat

maxArgs == 48
Minutes3 == 180
execTimeoutMinSec == 10
execTimeoutMaxSec == 7200

allowedRoots == {"topology", "topo", "run", "dag", "shm", "perf", "plasma", "hugepages",
                 "help", "-h", "--help"}

Killed == -1
Unfiltered == {"none", "blank"}

VARIABLES cfg,    \* --auth-token, --allow-cidr and the base name of os.Executable
          pc,     \* the handler
          req,    \* the request, as far as it has been looked at
          limit,  \* execDuration, in seconds
          ctx,    \* the request's context: "live", "deadline" or "gone"
          child,  \* the started process: its state and its exit code
          watch,  \* watchCtx has killed the child
          node,   \* the command "dag run" waits for, and whether it holds the pipes
          left,   \* holders of the pipes that no one waits for
          forked, \* counts against MaxForks
          written, pipe, buf, \* chunks written, in the pipe and in the buffer
          resp    \* status, exit_code, error and stdout of the response

process == <<child, watch, node, left, forked, written, pipe, buf>>
vars == <<cfg, pc, req, limit, ctx, process, resp>>

NoReq == [method |-> "none"]
NoChild == [state |-> "none", code |-> 0, kind |-> "none"]
NoResp == [status |-> 0, exit |-> 0, error |-> FALSE, out |-> 0]

-----------------------------------------------------------------------------
execDuration(timeoutSec) ==
    IF timeoutSec <= 0 THEN Minutes3
    ELSE IF timeoutSec < execTimeoutMinSec THEN execTimeoutMinSec
    ELSE IF timeoutSec > execTimeoutMaxSec THEN execTimeoutMaxSec
    ELSE timeoutSec

\* flaw: an argument that is too long or holds a NUL.
validateArgv(argv) ==
    /\ argv.n > 0
    /\ argv.n <= maxArgs
    /\ argv.root \in allowedRoots
    /\ argv.flaw = "none"

looksLikeKubermetricsArgv(argv) ==
    argv.root \in {"-dry-run", "--dry-run", "-print-id", "--print-id", "-cpu-id", "--cpu-id",
                   "-kubeconfig"}

\* What main makes of its own name and the arguments: "usage" stands for exit
\* status 2, "run" becomes a command, "dag" starts commands, the others end by
\* themselves.  complete: the arguments after the subcommand are those it needs.
Dispatch(base, argv) ==
    IF base = "kubermetrics" \/ looksLikeKubermetricsArgv(argv) THEN "kubermetrics"
    ELSE CASE argv.root \in {"topology", "topo"} -> "topology"
           [] argv.root \in {"run", "dag", "shm", "perf", "hugepages"} /\ argv.complete -> argv.root
           [] argv.root \in {"daemon", "dashboard"} -> argv.root
           [] argv.root \in {"-h", "--help", "help"} -> "help"
           [] OTHER -> "usage"

Argv == { a \in [n : {0, 1, 48, 49}, flaw : {"none", "bad"}, complete : BOOLEAN,
                 root : {"topology", "run", "dag", "plasma", "--help", "daemon", "--dry-run"}] :
              a.complete => a.n > 1 }

-----------------------------------------------------------------------------
Init ==
    /\ cfg = [token |-> FALSE, cidrs |-> "none", base |-> "nexusflow"]
    /\ pc = "boot"
    /\ req = NoReq
    /\ limit = 0
    /\ ctx = "live"
    /\ child = NoChild /\ watch = FALSE
    /\ node = "none" /\ left = 0 /\ forked = 0
    /\ written = 0 /\ pipe = 0 /\ buf = 0
    /\ resp = NoResp

\* Blank entries are dropped, a malformed one is an error.
parseAllowedNetworks(cidrs) == [ok |-> cidrs # "bad", filters |-> cidrs \notin Unfiltered]

\* dashboardCmd and ListenAndServe: one half of a TLS pair and a malformed CIDR
\* are refused; listening may fail.  The program may be installed, under one of
\* its two names, behind a link with the other.
Boot(token, cidrs, base, cert, key) ==
    /\ pc = "boot"
    /\ cfg' = [token |-> token, cidrs |-> cidrs, base |-> base]
    /\ pc' \in IF cert # key \/ ~parseAllowedNetworks(cidrs).ok THEN {"exit"} ELSE {"idle", "exit"}
    /\ UNCHANGED <<req, limit, ctx, process, resp>>

Arrive(method, path, peer, auth) ==
    /\ pc = "idle"
    /\ req' = [method |-> method, path |-> path, peer |-> peer, auth |-> auth]
    /\ pc' = "ipAllow"
    /\ UNCHANGED <<cfg, limit, ctx, process, resp>>

Reply(status) == resp' = [NoResp EXCEPT !.status = status] /\ pc' = "sent"

\* ipAllowMiddleware: the address of the peer must parse and be in a network.
ipAllow ==
    /\ pc = "ipAllow"
    /\ IF ~parseAllowedNetworks(cfg.cidrs).filters \/ req.peer = "inside"
       THEN pc' = "bearer" /\ UNCHANGED resp
       ELSE Reply(403)
    /\ UNCHANGED <<cfg, req, limit, ctx, process>>

\* Mutant: a request without an Authorization header passes.
bearerIfPresent ==
    /\ pc = "bearer"
    /\ IF cfg.token /\ req.path = "/api/exec" /\ req.method = "POST" /\ req.auth = "wrong"
       THEN Reply(401)
       ELSE pc' = "mux" /\ UNCHANGED resp
    /\ UNCHANGED <<cfg, req, limit, ctx, process>>

bearerAuth ==
    /\ pc = "bearer"
    /\ IF cfg.token /\ req.path = "/api/exec" /\ req.method = "POST" /\ req.auth # "right"
       THEN Reply(401)
       ELSE pc' = "mux" /\ UNCHANGED resp
    /\ UNCHANGED <<cfg, req, limit, ctx, process>>

healthHandler(method) == IF method \in {"GET", "HEAD"} THEN 200 ELSE 405

\* The mux, the file server, and execHandler's first test.
mux ==
    /\ pc = "mux"
    /\ CASE req.path = "/healthz"  -> Reply(healthHandler(req.method))
         [] req.path = "/"         -> Reply(200)
         [] req.path = "/api/exec" -> IF req.method = "POST"
                                      THEN pc' = "decode" /\ UNCHANGED resp
                                      ELSE Reply(405)
    /\ UNCHANGED <<cfg, req, limit, ctx, process>>

BadJSON ==
    /\ pc = "decode"
    /\ Reply(400)
    /\ UNCHANGED <<cfg, req, limit, ctx, process>>

\* The body is decoded and its argv examined.
Decode(argv, timeoutSec) ==
    /\ pc = "decode"
    /\ IF validateArgv(argv)
       THEN /\ limit' = execDuration(timeoutSec)
            /\ child' = [NoChild EXCEPT !.kind = Dispatch(cfg.base, argv)]
            /\ pc' = "start"
            /\ UNCHANGED resp
       ELSE /\ resp' = [status |-> 400, exit |-> -1, error |-> TRUE, out |-> 0]
            /\ pc' = "sent"
            /\ UNCHANGED <<limit, child>>
    /\ UNCHANGED <<cfg, req, ctx, watch, node, left, forked, written, pipe, buf>>

-----------------------------------------------------------------------------
(* cmd.Run.                                                                *)

\* Start refuses when the context has ended, and may fail.
StartFails ==
    /\ pc = "start"
    /\ resp' = [status |-> 200, exit |-> -1, error |-> TRUE, out |-> 0]
    /\ pc' = "sent"
    /\ UNCHANGED <<cfg, req, limit, ctx, process>>

Start ==
    /\ pc = "start"
    /\ ctx = "live"
    /\ child' = [child EXCEPT !.state = "running"]
    /\ pc' = "wait"
    /\ UNCHANGED <<cfg, req, limit, ctx, watch, node, left, forked, written, pipe, buf, resp>>

Handling == pc \in {"start", "wait", "drain"}

\* context.WithTimeout, and the server's discovery that the client has gone.
Deadline ==
    /\ Handling /\ ctx = "live"
    /\ ctx' = "deadline"
    /\ UNCHANGED <<cfg, pc, req, limit, process, resp>>

ClientGone ==
    /\ Handling /\ ctx = "live"
    /\ ctx' = "gone"
    /\ UNCHANGED <<cfg, pc, req, limit, process, resp>>

\* Mutant: only a client that has gone ends the child.
CancelWithoutDeadline ==
    /\ pc = "wait" /\ ctx = "gone" /\ ~watch
    /\ watch' = TRUE
    /\ child' = IF child.state = "running"
                THEN [child EXCEPT !.state = "exited", !.code = Killed] ELSE child
    /\ UNCHANGED <<cfg, pc, req, limit, ctx, node, left, forked, written, pipe, buf, resp>>

\* watchCtx: the child is killed, unless it has been reaped.  An exited child
\* that has not been reaped takes the signal without effect.
Cancel ==
    /\ pc = "wait" /\ ctx # "live" /\ ~watch
    /\ watch' = TRUE
    /\ child' = IF child.state = "running"
                THEN [child EXCEPT !.state = "exited", !.code = Killed] ELSE child
    /\ UNCHANGED <<cfg, pc, req, limit, ctx, node, left, forked, written, pipe, buf, resp>>

\* The child's own exit status, or -1 and a message: for a killed child, and
\* for one that ended well after it was cancelled.
ExitOf == IF child.code = 0 /\ watch THEN -1 ELSE child.code

Reap ==
    /\ pc = "wait" /\ child.state = "exited"
    /\ child' = [child EXCEPT !.state = "reaped"]
    /\ resp' = [status |-> 200, exit |-> ExitOf, error |-> ExitOf = -1, out |-> 0]
    /\ pc' = "drain"
    /\ UNCHANGED <<cfg, req, limit, ctx, watch, node, left, forked, written, pipe, buf>>

\* A goroutine of os/exec.
Copy ==
    /\ Handling /\ pipe > 0
    /\ buf' = buf + pipe
    /\ pipe' = 0
    /\ UNCHANGED <<cfg, pc, req, limit, ctx, child, watch, node, left, forked, written, resp>>

\* Mutant: the response is made as soon as the child has been reaped.
RespondAtOnce ==
    /\ pc = "drain"
    /\ resp' = [resp EXCEPT !.out = buf]
    /\ pc' = "sent"
    /\ UNCHANGED <<cfg, req, limit, ctx, process>>

\* Some process below the child holds the pipes.
Held == node = "attached" \/ left > 0

\* Run returns when the copying goroutines have met the end of the pipes, that
\* is when no process holds them, whichever are alive.
Respond ==
    /\ pc = "drain" /\ ~Held /\ pipe = 0
    /\ resp' = [resp EXCEPT !.out = buf]
    /\ pc' = "sent"
    /\ UNCHANGED <<cfg, req, limit, ctx, process>>

\* The response goes out (or nowhere), and the connection, or the next one,
\* carries another request.  A command without the pipes may still be alive;
\* nothing of the server depends on it any more.
NextRequest ==
    /\ pc = "sent"
    /\ pc' = "idle"
    /\ req' = NoReq /\ limit' = 0 /\ ctx' = "live"
    /\ child' = NoChild /\ watch' = FALSE
    /\ node' = "none" /\ left' = 0 /\ forked' = 0
    /\ written' = 0 /\ pipe' = 0 /\ buf' = 0
    /\ resp' = NoResp
    /\ UNCHANGED cfg

-----------------------------------------------------------------------------
(* The processes.                                                          *)

ChildWrites ==
    /\ child.state = "running" /\ written < MaxOut
    /\ written' = written + 1 /\ pipe' = pipe + 1
    /\ UNCHANGED <<cfg, pc, req, limit, ctx, child, watch, node, left, forked, buf, resp>>

\* "dag run" executes its commands one at a time and waits for each.
ForkNode ==
    /\ child.state = "running" /\ child.kind = "dag" /\ node = "none" /\ forked < MaxForks
    /\ forked' = forked + 1
    /\ node' = "attached"
    /\ UNCHANGED <<cfg, pc, req, limit, ctx, child, watch, left, written, pipe, buf, resp>>

\* A command redirects its output, as a daemon does.
NodeDetaches ==
    /\ node = "attached"
    /\ node' = "detached"
    /\ UNCHANGED <<cfg, pc, req, limit, ctx, child, watch, left, forked, written, pipe, buf, resp>>

\* A command, or what it has left, forks a process that nobody waits for.  The
\* command of "run" is the child itself: affinity.Run replaces the program.
Leave ==
    /\ Held \/ (child.state = "running" /\ child.kind = "run")
    /\ forked < MaxForks
    /\ forked' = forked + 1
    /\ left' = left + 1
    /\ UNCHANGED <<cfg, pc, req, limit, ctx, child, watch, node, written, pipe, buf, resp>>

HolderWrites ==
    /\ Held /\ written < MaxOut
    /\ written' = written + 1 /\ pipe' = pipe + 1
    /\ UNCHANGED <<cfg, pc, req, limit, ctx, child, watch, node, left, forked, buf, resp>>

NodeEnds ==
    /\ node # "none"
    /\ node' = "none"
    /\ UNCHANGED <<cfg, pc, req, limit, ctx, child, watch, left, forked, written, pipe, buf, resp>>

\* It ends, or gives up the pipes.
LeftEnds ==
    /\ left > 0
    /\ left' = left - 1
    /\ UNCHANGED <<cfg, pc, req, limit, ctx, child, watch, node, forked, written, pipe, buf, resp>>

\* What "run" executes may also die of a signal.
ExitCodes(kind) ==
    CASE kind = "usage" -> {2}
      [] kind = "help"  -> {0}
      [] kind = "run"   -> {0, 1, Killed}
      [] OTHER          -> 0..2

ChildExits ==
    /\ child.state = "running" /\ node = "none"
    /\ \E code \in ExitCodes(child.kind) :
           child' = [child EXCEPT !.state = "exited", !.code = code]
    /\ UNCHANGED <<cfg, pc, req, limit, ctx, watch, node, left, forked, written, pipe, buf, resp>>

Handler ==
    \/ ipAllow \/ bearerAuth \/ mux \/ BadJSON \/ StartFails \/ Start
    \/ Cancel \/ Reap \/ Copy \/ Respond \/ NextRequest
    \/ \E argv \in Argv, timeoutSec \in {0, 9, 7201} : Decode(argv, timeoutSec)

Next ==
    \/ \E token, cert, key \in BOOLEAN, cidrs \in {"none", "blank", "good", "bad"},
          base \in {"nexusflow", "kubermetrics"} : Boot(token, cidrs, base, cert, key)
    \/ \E method \in {"GET", "POST"}, path \in {"/", "/healthz", "/api/exec"},
          peer \in {"inside", "outside", "unparsable"}, auth \in {"right", "wrong", "none"} :
           Arrive(method, path, peer, auth)
    \/ Handler
    \/ Deadline \/ ClientGone
    \/ ChildWrites \/ ChildExits
    \/ ForkNode \/ NodeDetaches \/ NodeEnds
    \/ Leave \/ HolderWrites \/ LeftEnds
    \/ pc = "exit" /\ UNCHANGED vars

\* The handler and the copying goroutines run, and a deadline comes.  Nothing
\* is assumed of the processes: they may hang for ever.
Fairness == WF_vars(Handler) /\ WF_vars(Cancel) /\ WF_vars(Reap) /\ WF_vars(Copy)
            /\ WF_vars(Deadline)

Spec == Init /\ [][Next]_vars /\ Fairness

-----------------------------------------------------------------------------
\* A process is started only for a POST to /api/exec, with the token, from a
\* peer inside the networks if --allow-cidr names one (a list of blanks filters
\* nothing), and what main makes of its arguments is one of the commands of the
\* command line: never the daemon or another dashboard, and the deployment only
\* if the program's file is named kubermetrics, when it is nothing else
\* (server.go:21-23, 79-99, 166-229; main.go:51-110).
ExecIsAuthorised ==
    child.state # "none" =>
        /\ req.method = "POST" /\ req.path = "/api/exec"
        /\ cfg.token => req.auth = "right"
        /\ cfg.cidrs = "good" => req.peer = "inside"
        /\ child.kind \notin {"daemon", "dashboard"}
        /\ child.kind = "kubermetrics" <=> cfg.base = "kubermetrics"
        /\ limit \in execTimeoutMinSec..execTimeoutMaxSec

\* The response of a process that ran holds everything that it and the
\* processes below it have written to the pipes; its exit code is that of the
\* process, or -1 with an error when a signal ended it or it was cancelled
\* (server.go:136-158).
ResponseTruthful ==
    (pc = "sent" /\ child.state = "reaped") =>
        /\ resp.out = written
        /\ IF resp.exit = -1 THEN resp.error /\ (child.code = Killed \/ ctx # "live")
           ELSE resp.exit = child.code /\ ~resp.error

\* Whatever the started process does, the deadline ends it, and from then on
\* the answer waits only for processes below it that hold the pipes; once these
\* end or give up the pipes, the request is answered (server.go:127-136).  The
\* limit is not one on the answer, although server.go:47 calls it that of the
\* subprocess: a command of "dag run" is not killed with its parent, nor is a
\* process left in the background by the command of "run" or "dag run".
Answered ==
    /\ Handling ~> (pc = "sent" \/ (child.state = "reaped" /\ Held))
    /\ []<>(~Held) => (Handling ~> (pc = "sent"))
=============================================================================
