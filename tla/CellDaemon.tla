----------------------------- MODULE CellDaemon -----------------------------
(***************************************************************************)
(* The cells of "nexusflow daemon": the gRPC handlers of                   *)
(* pkg/daemon/grpc_linux.go over the cgroup v2 manager of                  *)
(* pkg/cgv2/manager_linux.go.  Handlers run concurrently; Server.mu guards *)
(* the map of cells and not the cgroup file system, which is a second copy *)
(* of the same facts.  A step is one critical section or one operation on  *)
(* the file system.                                                        *)
(*                                                                         *)
(* A cell id is a sequence of runes.  cpuset.mems is written but decides   *)
(* nothing here, so only the failure of its write is kept.  What RunInCell *)
(* does with the output of its process is CellRun.tla.  EvictForeign       *)
(* (pkg/evict) looks at the processes one by one and signals them          *)
(* afterwards, while other calls move them and their ids change hands.     *)
(***************************************************************************)
EXTENDS Integers, Sequences

CONSTANTS Rune, SafeRune,  \* SafeRune: letters, digits, "-" and "_"
          CellId,          \* ids that clients use
          CpuLists,        \* CPU lists that clients ask for
          Pid, NoPid,      \* process ids
          Call,            \* calls that may be served at the same time
          MaxCalls         \* bound: calls altogether

ASSUME RuneAssumption == SafeRune \subseteq Rune /\ "-" \in SafeRune
ASSUME CellIdAssumption == CellId \subseteq Seq(Rune)
ASSUME CpuListsAssumption == CpuLists \subseteq Seq(Nat)
ASSUME NoPidAssumption == NoPid \notin Pid
ASSUME MaxCallsAssumption == MaxCalls \in Nat

VARIABLES cells,    \* Server.cells
          group,    \* the file system: the control group of each directory
          where,    \* the kernel: the directory of each process
          calls,    \* counts against MaxCalls
          cpc,      \* where the handler of each call stands
          req,      \* its request
          meta,     \* its copy of the cell's metadata
          pid,      \* the process it attaches or has started
          scan,     \* EvictForeign: entries of /proc still to be looked at
          found,    \* ... and processes found on the target CPUs
          overlap,  \* history: calls that met another one on their directory
          settled,  \* history: directories last changed by an undisturbed call
          moved     \* history: processes that moved, ended or began during a call

kernelVars == <<group, where>>
evictVars  == <<scan, found>>
histVars   == <<overlap, settled>>
vars == <<cells, kernelVars, calls, cpc, req, meta, pid, evictVars, histVars, moved>>

-----------------------------------------------------------------------------
\* sanitizeID; <<"default">> is the word written for an empty id.
sanitizeID(s) ==
    IF s = << >> THEN <<"default">>
    ELSE [i \in DOMAIN s |-> IF s[i] \in SafeRune THEN s[i] ELSE "-"]

CellPath(id) == <<"cell-">> \o sanitizeID(id)

Dir == { CellPath(id) : id \in CellId }

NoMeta  == [path |-> << >>, cpus |-> << >>]
NoGroup == [exists |-> FALSE, cpus |-> << >>]
Outside == <<"outside">>  \* in no cell
Gone    == <<"gone">>     \* no such process

Elems(s) == { s[i] : i \in DOMAIN s }

Request ==
    [op : {"create"}, id : CellId, cpus : CpuLists, exclusive : BOOLEAN]
        \cup [op : {"destroy", "run", "watch"}, id : CellId]
        \cup [op : {"attach"}, id : CellId, pid : Pid]
        \cup [op : {"evict"}, id : {<< >>}, cpus : CpuLists, dryRun : BOOLEAN]

NoRequest == [op |-> "none", id |-> << >>]

Creating == {"mkdir", "cpus", "mems", "partition", "register"}
Changing == Creating \cup {"unregister", "remove"}
Evicting == {"readdir", "check", "signal"}

\* The calls that are changing directory d.
Changers(d) == { c \in Call : cpc[c] \in Changing /\ CellPath(req[c].id) = d }

Init ==
    /\ cells = [id \in CellId |-> NoMeta]
    /\ group = [d \in Dir |-> NoGroup]
    /\ where \in [Pid -> {Outside, Gone}]
    /\ calls = 0
    /\ cpc = [c \in Call |-> "idle"]
    /\ req = [c \in Call |-> NoRequest]
    /\ meta = [c \in Call |-> NoMeta]
    /\ pid = [c \in Call |-> NoPid]
    /\ scan = [c \in Call |-> {}]
    /\ found = [c \in Call |-> {}]
    /\ overlap = {}
    /\ settled = Dir
    /\ moved = [c \in Call |-> {}]

Goto(c, l) == cpc' = [cpc EXCEPT ![c] = l] /\ UNCHANGED req

\* The handler returns; its locals are gone.
Return(c) ==
    /\ cpc' = [cpc EXCEPT ![c] = "idle"]
    /\ req' = [req EXCEPT ![c] = NoRequest]
    /\ meta' = [meta EXCEPT ![c] = NoMeta]
    /\ pid' = [pid EXCEPT ![c] = NoPid]

-----------------------------------------------------------------------------
\* A call arrives.  CreateCell refuses an empty id and an empty list,
\* EvictForeign an empty list; the other handlers take any id.
FirstStep(m) ==
    CASE m.op = "create"  -> IF m.id = << >> \/ m.cpus = << >> THEN "idle" ELSE "mkdir"
      [] m.op = "evict"   -> IF m.cpus = << >> THEN "idle" ELSE "readdir"
      [] m.op = "destroy" -> "unregister"
      [] OTHER            -> "lookup"

Arrive(c, m) ==
    LET met == IF FirstStep(m) \in Changing THEN Changers(CellPath(m.id)) ELSE {}
    IN  /\ cpc[c] = "idle"
        /\ calls < MaxCalls
        /\ calls' = calls + 1
        /\ cpc' = [cpc EXCEPT ![c] = FirstStep(m)]
        /\ req' = [req EXCEPT ![c] = IF FirstStep(m) = "idle" THEN NoRequest ELSE m]
        /\ overlap' = (overlap \ {c}) \cup met \cup (IF met = {} THEN {} ELSE {c})
        /\ UNCHANGED <<cells, kernelVars, meta, pid, evictVars, settled>>

\* The handler returns an error, having changed some of the state.
Fail(c) ==
    /\ Return(c)
    /\ settled' = settled \ {CellPath(req[c].id)}

\* The handler returns success.
Succeed(c) ==
    LET d == CellPath(req[c].id)
        alone == /\ c \notin overlap
                 /\ \A id \in CellId \ {req[c].id} : cells[id].path # d
    IN  /\ Return(c)
        /\ settled' = IF alone THEN settled \cup {d} ELSE settled \ {d}

-----------------------------------------------------------------------------
(* CreateCell.                                                             *)

MakeDir(c) ==
    LET d == CellPath(req[c].id)
    IN  /\ cpc[c] = "mkdir"
        /\ \/ /\ group' = [group EXCEPT ![d].exists = TRUE]
              /\ Goto(c, "cpus")
              /\ UNCHANGED <<meta, pid, settled>>
           \/ Fail(c) /\ UNCHANGED group
        /\ UNCHANGED <<cells, where, calls, evictVars, overlap>>

\* A write fails when the directory has gone, and may be refused otherwise.
WriteCpus(c) ==
    LET d == CellPath(req[c].id)
    IN  /\ cpc[c] = "cpus"
        /\ \/ /\ group[d].exists
              /\ group' = [group EXCEPT ![d].cpus = req[c].cpus]
              /\ Goto(c, "mems")
              /\ UNCHANGED <<meta, pid, settled>>
           \/ Fail(c) /\ UNCHANGED group
        /\ UNCHANGED <<cells, where, calls, evictVars, overlap>>

WriteMems(c) ==
    /\ cpc[c] = "mems"
    /\ \/ /\ group[CellPath(req[c].id)].exists
          /\ Goto(c, IF req[c].exclusive THEN "partition" ELSE "register")
          /\ UNCHANGED <<meta, pid, settled>>
       \/ Fail(c)
    /\ UNCHANGED <<cells, kernelVars, calls, evictVars, overlap>>

\* Best effort: the error is dropped.  Nothing depends on the partition.
WritePartition(c) ==
    /\ cpc[c] = "partition"
    /\ Goto(c, "register")
    /\ UNCHANGED <<cells, kernelVars, calls, evictVars, meta, pid, histVars>>

\* Mutant: the entry of a cell that exists is not replaced.
RegisterOnce(c) ==
    cells' = [cells EXCEPT ![req[c].id] =
                 IF @ = NoMeta THEN [path |-> CellPath(req[c].id), cpus |-> req[c].cpus] ELSE @]

StoreMeta(c) ==
    cells' = [cells EXCEPT ![req[c].id] =
                 [path |-> CellPath(req[c].id), cpus |-> req[c].cpus]]

Register(c) ==
    /\ cpc[c] = "register"
    /\ StoreMeta(c)
    /\ Succeed(c)
    /\ UNCHANGED <<kernelVars, calls, evictVars, overlap>>

-----------------------------------------------------------------------------
(* DestroyCell.  The entry goes first, whatever becomes of the directory.  *)

Unregister(c) ==
    /\ cpc[c] = "unregister"
    /\ cells' = [cells EXCEPT ![req[c].id] = NoMeta]
    /\ Goto(c, "remove")
    /\ UNCHANGED <<kernelVars, calls, evictVars, meta, pid, histVars>>

\* os.RemoveAll: a group with processes cannot be removed, one that does not
\* exist need not be.
RemoveGroup(c) ==
    LET d == CellPath(req[c].id)
    IN  /\ cpc[c] = "remove"
        /\ \/ /\ \A p \in Pid : where[p] # d
              /\ group' = [group EXCEPT ![d] = NoGroup]
              /\ Succeed(c)
           \/ /\ group[d].exists
              /\ Fail(c)
              /\ UNCHANGED group
        /\ UNCHANGED <<cells, where, calls, evictVars, overlap>>

-----------------------------------------------------------------------------
(* AttachPID, RunInCell and WatchL3 work on a copy of the metadata.  A     *)
(* registered cell has CPUs, so WatchL3's own check of that never fails.   *)

Lookup(c) ==
    /\ cpc[c] = "lookup"
    /\ \/ cells[req[c].id] = NoMeta /\ Return(c)
       \/ /\ cells[req[c].id] # NoMeta
          /\ meta' = [meta EXCEPT ![c] = cells[req[c].id]]
          /\ pid' = [pid EXCEPT ![c] = IF req[c].op = "attach" THEN req[c].pid ELSE NoPid]
          /\ Goto(c, CASE req[c].op = "attach" -> "attach"
                       [] req[c].op = "run"    -> "start"
                       [] req[c].op = "watch"  -> "sample")
    /\ UNCHANGED <<cells, kernelVars, calls, evictVars, histVars>>

\* A write to cgroup.procs: it moves a process that exists into a directory
\* that exists, or fails.
WriteProcs(c) ==
    \/ /\ group[meta[c].path].exists
       /\ where[pid[c]] # Gone
       /\ where' = [where EXCEPT ![pid[c]] = meta[c].path]
    \/ UNCHANGED where

Attach(c) ==
    /\ cpc[c] = "attach"
    /\ WriteProcs(c)
    /\ Return(c)
    /\ UNCHANGED <<cells, group, calls, evictVars, histVars>>

\* The process of RunInCell is started in the daemon's own group; the id of
\* one that has not been waited for is not given out again ...
StartChild(c) ==
    /\ cpc[c] = "start"
    /\ \/ \E p \in Pid :
              /\ where[p] = Gone
              /\ \A o \in Call : cpc[o] \in {"attachChild", "stream"} => pid[o] # p
              /\ where' = [where EXCEPT ![p] = Outside]
              /\ pid' = [pid EXCEPT ![c] = p]
              /\ Goto(c, "attachChild")
              /\ UNCHANGED meta
       \/ Return(c) /\ UNCHANGED where
    /\ UNCHANGED <<cells, group, calls, evictVars, histVars>>

\* ... and attached after that; the error is dropped.
AttachChild(c) ==
    /\ cpc[c] = "attachChild"
    /\ WriteProcs(c)
    /\ Goto(c, "stream")
    /\ UNCHANGED <<cells, group, calls, evictVars, meta, pid, histVars>>

\* cmd.Wait has returned and the last chunk is sent.
StreamEnds(c) ==
    /\ cpc[c] = "stream"
    /\ where[pid[c]] = Gone
    /\ Return(c)
    /\ UNCHANGED <<cells, kernelVars, calls, evictVars, histVars>>

\* One round of WatchL3 on the first CPU of the copy: a sample is sent, or the
\* stream ends.
Sample(c) ==
    /\ cpc[c] = "sample"
    /\ \/ Goto(c, "sample") /\ UNCHANGED <<meta, pid>>
       \/ Return(c)
    /\ UNCHANGED <<cells, kernelVars, calls, evictVars, histVars>>

Exit(p) ==
    /\ where[p] # Gone
    /\ where' = [where EXCEPT ![p] = Gone]
    /\ UNCHANGED <<cells, group, calls, evictVars, cpc, req, meta, pid, histVars>>

\* An id that is free goes to a new process of somebody else.
Spawn(p) ==
    /\ where[p] = Gone
    /\ \A o \in Call : cpc[o] \in {"attachChild", "stream"} => pid[o] # p
    /\ where' = [where EXCEPT ![p] = Outside]
    /\ UNCHANGED <<cells, group, calls, evictVars, cpc, req, meta, pid, histVars>>

-----------------------------------------------------------------------------
(* EvictForeign.                                                           *)

\* The CPUs that the kernel lets a process run on: those of its cell.
Affinity(p) ==
    CASE where[p] = Gone -> {}
      [] where[p] = Outside \/ group[where[p]].cpus = << >> -> UNION { Elems(l) : l \in CpuLists }
      [] OTHER -> Elems(group[where[p]].cpus)

OnTarget(c, p) == Affinity(p) \cap Elems(req[c].cpus) # {}

\* os.ReadDir("/proc"); the daemon itself is not among the processes here.
ReadProc(c) ==
    /\ cpc[c] = "readdir"
    /\ \/ /\ scan' = [scan EXCEPT ![c] = { p \in Pid : where[p] # Gone }]
          /\ Goto(c, "check")
          /\ UNCHANGED <<meta, pid>>
       \/ Return(c) /\ UNCHANGED scan
    /\ UNCHANGED <<cells, kernelVars, calls, found, histVars>>

\* Mutant: every process is taken for one on the target CPUs.
CheckPidAny(c, p) ==
    /\ cpc[c] = "check"
    /\ p \in scan[c]
    /\ scan' = [scan EXCEPT ![c] = @ \ {p}]
    /\ found' = [found EXCEPT ![c] = @ \cup {p}]
    /\ UNCHANGED <<cells, kernelVars, calls, cpc, req, meta, pid, histVars>>

\* sched_getaffinity: a process that has ended since is passed over.
CheckPid(c, p) ==
    /\ cpc[c] = "check"
    /\ p \in scan[c]
    /\ scan' = [scan EXCEPT ![c] = @ \ {p}]
    /\ found' = [found EXCEPT ![c] = IF OnTarget(c, p) THEN @ \cup {p} ELSE @]
    /\ UNCHANGED <<cells, kernelVars, calls, cpc, req, meta, pid, histVars>>

CheckDone(c) ==
    /\ cpc[c] = "check"
    /\ scan[c] = {}
    /\ Goto(c, "signal")
    /\ UNCHANGED <<cells, kernelVars, calls, evictVars, meta, pid, histVars>>

\* kill: SIGSTOP leaves the process where it is, another signal may end it; it
\* is refused, or finds nobody, without consequence.
Signal(c, p) ==
    /\ cpc[c] = "signal" /\ ~req[c].dryRun
    /\ p \in found[c]
    /\ found' = [found EXCEPT ![c] = @ \ {p}]
    /\ where' \in {where, [where EXCEPT ![p] = Gone]}
    /\ UNCHANGED <<cells, group, calls, scan, cpc, req, meta, pid, histVars>>

\* A dry run only counts.
EvictDone(c) ==
    /\ cpc[c] = "signal"
    /\ found[c] = {} \/ req[c].dryRun
    /\ found' = [found EXCEPT ![c] = {}]
    /\ Return(c)
    /\ UNCHANGED <<cells, kernelVars, calls, scan, histVars>>

EvictStep(c) ==
    \/ ReadProc(c) \/ CheckDone(c) \/ EvictDone(c)
    \/ \E p \in Pid : CheckPid(c, p) \/ Signal(c, p)

\* History: what happened to the processes while a call was scanning.
NoteMoves ==
    moved' = [c \in Call |->
        IF cpc'[c] \in Evicting
        THEN moved[c] \cup { p \in Pid : where'[p] # where[p] \/ Affinity(p)' # Affinity(p) }
        ELSE {}]

-----------------------------------------------------------------------------
CallStep(c) ==
    \/ MakeDir(c) \/ WriteCpus(c) \/ WriteMems(c) \/ WritePartition(c) \/ Register(c)
    \/ Unregister(c) \/ RemoveGroup(c)
    \/ Lookup(c) \/ Attach(c) \/ StartChild(c) \/ AttachChild(c) \/ StreamEnds(c) \/ Sample(c)
    \/ EvictStep(c)

Next ==
    /\ \/ \E c \in Call : CallStep(c) \/ \E m \in Request : Arrive(c, m)
       \/ \E p \in Pid : Exit(p) \/ Spawn(p)
    /\ NoteMoves

Spec == Init /\ [][Next]_vars

-----------------------------------------------------------------------------
\* The two copies agree.  A directory that no handler is changing, and that was
\* last changed by a successful CreateCell or DestroyCell which met no other
\* call and no other id on it, exists exactly if a cell is registered for it,
\* and its cpuset is the one registered.  In particular one undisturbed call
\* repairs what races and failed calls left behind (grpc_linux.go:49-71).
RegistryAccurate ==
    \A d \in settled : Changers(d) = {} =>
        LET on == { id \in CellId : cells[id].path = d }
        IN  /\ group[d].exists <=> on # {}
            /\ \A id \in on : cells[id].cpus = group[d].cpus

\* EvictForeign signals a process that is not on the target CPUs only if that
\* process moved, or its id changed hands, after the scan began: the window
\* between sched_getaffinity and kill is the only way to a wrong victim
\* (evict_linux.go:54-80).
EvictsOnlyTargets ==
    [][\A c \in Call, p \in Pid :
           (cpc[c] = "signal" /\ p \in found[c] /\ p \notin found'[c] /\ ~req[c].dryRun) =>
               OnTarget(c, p) \/ p \in moved[c]]_vars
=============================================================================
