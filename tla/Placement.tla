----------------------------- MODULE Placement -----------------------------
(***************************************************************************)
(* The topology commands and CPU placement: topology.Discover              *)
(* (pkg/topology/discover_linux.go), the choice of its source and its      *)
(* fallback (cmd/nexusflow/subcommands.go), SelectCPUs and                 *)
(* PrimaryNUMANodeForCPUs (placement.go), and "nexusflow run", which pins  *)
(* itself and executes a command (main.go, pkg/affinity/run_linux.go).     *)
(*                                                                         *)
(* Discover reads the cpulist of every NUMA node twice, first for the node *)
(* of each CPU and again for the CPUs of each node, and the topology files *)
(* of each CPU in between, while CPUs may go on- and off-line: a cpulist   *)
(* names the online CPUs of its node, an offline CPU has no topology files *)
(* and the present list names all CPUs.  Sorted lists of ids are sets.     *)
(***************************************************************************)
EXTENDS Hwloc, Hints

CONSTANTS Cpu,        \* logical CPUs that sysfs lists as present
          NumaId,     \* NUMA nodes with a directory in sysfs
          Home,       \* the node of each CPU (-1: a machine without nodes)
          Pkg,        \* the package of each CPU
          Core,       \* the number of its core, unique in its package
          MaxHotplug, \* bound: CPUs that change state
          MaxCpu      \* bound: the ids given to the list formatters

ASSUME CpuAssumption == /\ Cpu \subseteq Nat /\ Cpu # {} /\ IsFiniteSet(Cpu)
                        /\ NumaId \subseteq Nat /\ IsFiniteSet(NumaId)
ASSUME MachineAssumption == /\ Home \in [Cpu -> NumaId \cup {-1}]
                            /\ Pkg \in [Cpu -> Nat] /\ Core \in [Cpu -> Nat]
ASSUME BoundAssumption == MaxHotplug \in Nat /\ MaxCpu \in Nat

NoPrefer == -1
NotRead == -1

VARIABLES online,   \* the kernel: CPUs that are online
          hotplugs, \* counts against MaxHotplug
          cmd,      \* "run", "topology", "hints", or a library call "format"
          source,   \* --source
          used,     \* where the topology came from
          todo,     \* nodes or CPUs that the current pass has still to read
          nodeOf,   \* cpuNUMAMap: -1 when unknown
          pkgRead,  \* physical_package_id of the CPU being read
          topo,     \* the Topology under construction
          want, prefer, strategy,  \* --cpus, --numa, --strategy
          sel,      \* what SelectCPUs returned
          bind,     \* the node numactl binds memory to; -1 for none
          allowed,  \* the CPUs that the executed command may run on
          out,      \* what the command prints
          pc

kernel == <<online, hotplugs>>
command == <<cmd, source, used>>
discovery == <<todo, nodeOf, pkgRead, topo>>
flags == <<want, prefer, strategy>>
placement == <<flags, sel, bind, allowed>>
vars == <<kernel, command, discovery, placement, out, pc>>

-----------------------------------------------------------------------------
(* SelectCPUs.                                                             *)

\* The first n ids of a sorted list.
Lowest(S, n) == { x \in S : Cardinality({ y \in S : y < x }) < n }

\* CPUsOnNode: nil for a node that is not known.
CPUsOnNode(lists, node) == IF node \in DOMAIN lists THEN lists[node] ELSE {}

Fitting(lists, n) == { m \in DOMAIN lists : Cardinality(lists[m]) >= n }

\* The order of the candidates: larger first, then the lower id.
Better(lists, a, b) ==
    \/ Cardinality(lists[a]) > Cardinality(lists[b])
    \/ Cardinality(lists[a]) = Cardinality(lists[b]) /\ a < b

Best(lists, n) ==
    CHOOSE m \in Fitting(lists, n) :
        \A o \in Fitting(lists, n) \ {m} : Better(lists, m, o)

\* The CPUs that the walk meets before x, which is in the list of node m.
Before(lists, m, x) ==
    (UNION { lists[o] : o \in { o \in DOMAIN lists : o < m } })
        \cup { y \in lists[m] : y < x }

\* Mutant: the walk stops one CPU early.
SpillShort(lists, n) ==
    UNION { { x \in lists[m] : Cardinality(Before(lists, m, x)) < n - 1 } : m \in DOMAIN lists }

\* The walk over the nodes in id order, until n CPUs have been collected.
Spill(lists, n) ==
    UNION { { x \in lists[m] : Cardinality(Before(lists, m, x)) < n } : m \in DOMAIN lists }

Chosen(set) == [ok |-> TRUE, cpus |-> set]
Refused == [ok |-> FALSE, cpus |-> {}]

\* Mutant: a NUMA preference falls back to any node.
PreferredOrAny(lists, node, n) ==
    IF Cardinality(CPUsOnNode(lists, node)) < n
    THEN Chosen(Lowest(UNION { lists[m] : m \in DOMAIN lists }, n))
    ELSE Chosen(Lowest(CPUsOnNode(lists, node), n))

Preferred(lists, node, n) ==
    IF Cardinality(CPUsOnNode(lists, node)) < n
    THEN Refused ELSE Chosen(Lowest(CPUsOnNode(lists, node), n))

SelectCPUs(ids, lists, n, node, strat) ==
    CASE n <= 0 \/ n >= Cardinality(ids) -> Chosen(ids)
      [] OTHER ->
         CASE strat \notin {"", "same-numa"} -> Refused
           [] strat \in {"", "same-numa"} /\ DOMAIN lists = {} -> Chosen(Lowest(ids, n))
           [] OTHER ->
              IF node # NoPrefer THEN Preferred(lists, node, n)
              ELSE IF Fitting(lists, n) # {} THEN Chosen(Lowest(lists[Best(lists, n)], n))
              ELSE IF Cardinality(Spill(lists, n)) < n THEN Refused
              ELSE Chosen(Spill(lists, n))

-----------------------------------------------------------------------------
\* Mutant: CPUs whose node is unknown are passed over.
PrimarySkipsUnknown(t, cpus) ==
    LET known == { t.cpus[c].numa : c \in cpus } \ {-1}
    IN  IF Cardinality(known) = 1 THEN CHOOSE n \in known : TRUE ELSE -1

\* PrimaryNUMANodeForCPUs: the node that all of the CPUs are known to be on.
PrimaryNUMANodeForCPUs(t, cpus) ==
    LET on == { t.cpus[c].numa : c \in cpus }
    IN  IF Cardinality(on) = 1 /\ -1 \notin on THEN CHOOSE n \in on : TRUE ELSE -1

-----------------------------------------------------------------------------
(* Discover, and the commands that use it.                                 *)

Init ==
    /\ online \in (SUBSET Cpu) \ {{}}
    /\ hotplugs = 0
    /\ cmd = "none" /\ source = "none" /\ used = "none"
    /\ todo = {}
    /\ nodeOf = << >> /\ pkgRead = NotRead
    /\ topo = [cpus |-> << >>, nodes |-> << >>]
    /\ want = 0 /\ prefer = NoPrefer /\ strategy = ""
    /\ sel = Refused
    /\ bind = -1
    /\ allowed = {}
    /\ out = {}
    /\ pc = "start"

\* FormatCPUList is called on any list of ids.
Format(S) ==
    /\ pc = "start"
    /\ cmd' = "format"
    /\ out' = [ids |-> S, text |-> FormatCPUList(S), spec |-> CPUsToTasksetSpec(S)]
    /\ pc' = "done"
    /\ UNCHANGED <<kernel, source, used, discovery, placement>>

\* runCmd always asks sysfs; the topology commands take --source.
Command(c, s) ==
    /\ pc = "start"
    /\ c = "run" => s = "sysfs"
    /\ cmd' = c
    /\ source' = s
    /\ pc' = IF s = "hwloc" THEN "hwloc" ELSE "present"
    /\ UNCHANGED <<kernel, used, discovery, placement, out>>

\* The present list cannot be read, or is empty: any --source that is neither
\* sysfs nor hwloc falls back to hwloc.
PresentFails ==
    /\ pc = "present"
    /\ pc' = IF source = "sysfs" THEN "no topology" ELSE "hwloc"
    /\ UNCHANGED <<kernel, command, discovery, placement, out>>

ReadPresent ==
    /\ pc = "present"
    /\ todo' = NumaId
    /\ nodeOf' = [c \in Cpu |-> -1]
    /\ used' = "sysfs"
    /\ pc' = "map"
    /\ UNCHANGED <<kernel, cmd, source, pkgRead, topo, placement, out>>

Listed(n) == { c \in online : Home[c] = n }

\* The first pass over the node directories; a list that cannot be read or
\* parsed is passed over.
ReadForMap(n) ==
    /\ pc = "map"
    /\ n \in Lowest(todo, 1)
    /\ todo' = todo \ {n}
    /\ \/ nodeOf' = [c \in Cpu |-> IF c \in Listed(n) THEN n ELSE nodeOf[c]]
       \/ UNCHANGED nodeOf
    /\ UNCHANGED <<kernel, command, pkgRead, topo, placement, out, pc>>

MapDone ==
    /\ pc = "map"
    /\ todo = {}
    /\ todo' = Cpu
    /\ pc' = "cpus"
    /\ UNCHANGED <<kernel, command, nodeOf, pkgRead, topo, placement, out>>

\* The topology so far with one more CPU or node.
Entered(f, x, v) == [y \in DOMAIN f \cup {x} |-> IF y = x THEN v ELSE f[y]]

\* readIntFile: the default stands for a file that is not there.
readIntFile(c, value, default) == IF c \in online THEN value ELSE default

ReadPackage(c) ==
    /\ pc = "cpus"
    /\ c \in Lowest(todo, 1)
    /\ pkgRead = NotRead
    /\ pkgRead' = readIntFile(c, Pkg[c], 0)
    /\ UNCHANGED <<kernel, command, todo, nodeOf, topo, placement, out, pc>>

ReadCore(c) ==
    /\ pc = "cpus"
    /\ c \in Lowest(todo, 1)
    /\ pkgRead # NotRead
    /\ topo' = [topo EXCEPT !.cpus = Entered(@, c,
                   [pkg |-> pkgRead, numa |-> nodeOf[c], core |-> readIntFile(c, Core[c], c)])]
    /\ pkgRead' = NotRead
    /\ todo' = todo \ {c}
    /\ UNCHANGED <<kernel, command, nodeOf, placement, out, pc>>

CpusDone ==
    /\ pc = "cpus"
    /\ todo = {}
    /\ todo' = NumaId
    /\ nodeOf' = << >>
    /\ pc' = "lists"
    /\ UNCHANGED <<kernel, command, pkgRead, topo, placement, out>>

\* The second pass over the node directories.
ReadForList(n) ==
    /\ pc = "lists"
    /\ n \in Lowest(todo, 1)
    /\ todo' = todo \ {n}
    /\ \/ topo' = [topo EXCEPT !.nodes = Entered(@, n, Listed(n))]
       \/ UNCHANGED topo
    /\ UNCHANGED <<kernel, command, nodeOf, pkgRead, placement, out, pc>>

Discovered ==
    /\ pc = "lists"
    /\ todo = {}
    /\ pc' = "topology"
    /\ UNCHANGED <<kernel, command, discovery, placement, out>>

-----------------------------------------------------------------------------
(* hwloc.DiscoverCLI.  The exporters are external: they show the online    *)
(* CPUs, with the NUMA nodes around the packages (hwloc 1) or beside their *)
(* CPUs (hwloc 2), and the cores with or without an os_index.              *)

\* The places of the objects, <<package, core, PU>>, in document order.  The
\* machine comes first; a package and its NUMA node take the slots -2 and -1.
Places ==
    {<<-1, -3, -1>>}
        \cup { <<Pkg[c], k, -1>> : c \in online, k \in {-2, -1} }
        \cup { <<Pkg[c], Core[c], -1>> : c \in online }
        \cup { <<Pkg[c], Core[c], c>> : c \in online }

Precedes(x, y) ==
    \/ x[1] < y[1]
    \/ x[1] = y[1] /\ x[2] < y[2]
    \/ x[1] = y[1] /\ x[2] = y[2] /\ x[3] < y[3]

InOrder(xs) ==
    [i \in 1..Cardinality(xs) |->
        CHOOSE x \in xs : Cardinality({ y \in xs : Precedes(y, x) }) = i - 1]

ObjectAt(x, layout, numbered) ==
    LET package == Object("Package", x[1], IF layout = "around" THEN 3 ELSE 2)
        node    == Object("NUMANode", Home[CHOOSE c \in online : Pkg[c] = x[1]],
                          IF layout = "around" THEN 2 ELSE 3)
        depth   == IF layout = "around" THEN 4 ELSE 3
    IN  CASE x[2] = -3 -> Object("Machine", None, 1)
          [] x[2] = -2 -> IF layout = "around" THEN node ELSE package
          [] x[2] = -1 -> IF layout = "around" THEN package ELSE node
          [] x[2] >= 0 /\ x[3] = -1 -> Object("Core", IF numbered THEN x[2] ELSE None, depth)
          [] x[2] >= 0 /\ x[3] # -1 -> Object("PU", x[3], depth + 1)

HwlocDoc(layout, numbered) ==
    LET places == InOrder(Places)
    IN  [i \in DOMAIN places |-> ObjectAt(places[i], layout, numbered)]

\* No exporter is installed, each of them fails, or the output is not XML or
\* holds no PU.
HwlocFails ==
    /\ pc = "hwloc"
    /\ pc' = "no topology"
    /\ UNCHANGED <<kernel, command, discovery, placement, out>>

DiscoverCLI ==
    /\ pc = "hwloc"
    /\ \E layout \in {"around", "beside"}, numbered \in BOOLEAN :
           /\ ~NoPUs(HwlocDoc(layout, numbered))
           /\ topo' = TopologyFromXML(HwlocDoc(layout, numbered))
    /\ used' = "hwloc"
    /\ pc' = "topology"
    /\ UNCHANGED <<kernel, cmd, source, todo, nodeOf, pkgRead, placement, out>>

-----------------------------------------------------------------------------
topologyCmd ==
    /\ pc = "topology" /\ cmd = "topology"
    /\ out' = FormatASCII(topo)
    /\ pc' = "done"
    /\ UNCHANGED <<kernel, command, discovery, placement>>

\* topologyMatrixCmd prints the same hints.
topologyHintsCmd ==
    /\ pc = "topology" /\ cmd = "hints"
    /\ out' = BuildClusterHints(topo)
    /\ pc' = "done"
    /\ UNCHANGED <<kernel, command, discovery, placement>>

Select(n, node, strat) ==
    /\ pc = "topology"
    /\ cmd = "run"
    /\ want' = n /\ prefer' = node /\ strategy' = strat
    /\ sel' = SelectCPUs(Cpu, topo.nodes, n, node, strat)
    /\ pc' = IF sel'.ok THEN "selected" ELSE "select cpus"
    /\ UNCHANGED <<kernel, command, discovery, bind, allowed, out>>

\* An unknown --priority.
BadPriority ==
    /\ pc = "selected"
    /\ pc' = "bad priority"
    /\ UNCHANGED <<kernel, command, discovery, placement, out>>

\* --membind: numactl is used when it is installed.
Bind ==
    /\ pc = "selected"
    /\ bind' \in {PrimaryNUMANodeForCPUs(topo, sel.cpus), -1}
    /\ pc' = "bound"
    /\ UNCHANGED <<kernel, command, discovery, flags, sel, allowed, out>>

\* affinity.Run: the command is not found, setpriority is refused or
\* sched_setaffinity is given no CPU that is online.
RunFails ==
    /\ pc = "bound"
    /\ pc' = "run failed"
    /\ UNCHANGED <<kernel, command, discovery, placement, out>>

\* sched_setaffinity and exec.  numactl --cpunodebind then sets the affinity
\* anew, to all CPUs of the node.
Run ==
    /\ pc = "bound"
    /\ sel.cpus \cap online # {}
    /\ allowed' = IF bind = -1 THEN sel.cpus \cap online ELSE Listed(bind)
    /\ pc' = "exec"
    /\ UNCHANGED <<kernel, command, discovery, flags, sel, bind, out>>

Hotplug(c) ==
    /\ hotplugs < MaxHotplug
    /\ pc \in {"map", "cpus", "lists", "bound"}
    /\ online' = IF c \in online THEN online \ {c} ELSE online \cup {c}
    /\ online' # {}
    /\ hotplugs' = hotplugs + 1
    /\ UNCHANGED <<command, discovery, placement, out, pc>>

Discovery ==
    \/ PresentFails \/ ReadPresent \/ MapDone \/ CpusDone \/ Discovered
    \/ \E n \in NumaId : ReadForMap(n) \/ ReadForList(n)
    \/ \E c \in Cpu : ReadPackage(c) \/ ReadCore(c)
    \/ HwlocFails \/ DiscoverCLI

Next ==
    \/ \E S \in SUBSET (0..MaxCpu) : Format(S)
    \/ \E c \in {"run", "topology", "hints"}, s \in {"sysfs", "hwloc", "auto"} : Command(c, s)
    \/ Discovery
    \/ topologyCmd \/ topologyHintsCmd
    \/ \E n \in 0..(Cardinality(Cpu) + 1), node \in NumaId \cup {NoPrefer, 99},
          strat \in {"same-numa", "other"} : Select(n, node, strat)
    \/ BadPriority \/ Bind \/ RunFails \/ Run
    \/ \E c \in Cpu : Hotplug(c)

Spec == Init /\ [][Next]_vars

-----------------------------------------------------------------------------
Constrained == want > 0 /\ want < Cardinality(Cpu)

\* same-numa keeps its word: the selection has the size asked for, with a
\* preference it stays on that node, and without one it stays on one node
\* whenever some node could hold it, and then on a node than which none is
\* larger (ARCHITECTURE.md section 3.1).
SelectionLocal ==
    (pc \in {"selected", "bound", "exec"} /\ Constrained /\ DOMAIN topo.nodes # {}) =>
        /\ Cardinality(sel.cpus) = want
        /\ IF prefer # NoPrefer THEN sel.cpus \subseteq CPUsOnNode(topo.nodes, prefer)
           ELSE (\E m \in DOMAIN topo.nodes : Cardinality(topo.nodes[m]) >= want) =>
                \E m \in DOMAIN topo.nodes :
                    /\ sel.cpus \subseteq topo.nodes[m]
                    /\ \A o \in DOMAIN topo.nodes :
                           Cardinality(topo.nodes[o]) <= Cardinality(topo.nodes[m])

\* Memory is bound to a node only if every CPU that was selected, and every CPU
\* that the command may run on, is on it in hardware, although the two halves
\* of the topology were read at different moments.
MemoryIsLocal ==
    (pc = "exec" /\ bind # -1) =>
        \A c \in sel.cpus \cup allowed : Home[c] = bind

\* SelectCPUs refuses only what cannot be satisfied from the lists that it has.
RefusedForAReason ==
    pc = "select cpus" =>
        \/ strategy = "other"
        \/ prefer # NoPrefer /\ Cardinality(CPUsOnNode(topo.nodes, prefer)) < want
        \/ Cardinality(UNION { topo.nodes[m] : m \in DOMAIN topo.nodes }) < want

\* A formatted list parses back to the ids it was made from, both formatters
\* agree, and the text is the list of maximal intervals (cpulist.go:47,
\* cpuset.go:11).
FormatRoundTrips ==
    cmd = "format" =>
        /\ ParseOK(out.text) /\ ParseCPUList(out.text) = out.ids
        /\ out.text = Reference(out.ids)
        /\ out.spec = out.text

Total(counts) ==
    LET upTo[i \in 0..Len(counts)] == IF i = 0 THEN 0 ELSE upTo[i - 1] + counts[i]
    IN  upTo[Len(counts)]

\* The tree that "topology" prints shows every CPU exactly once, and the hints
\* cut the CPUs into sockets whose lists and counts add up to the whole,
\* whatever went on- or offline meanwhile.  The number of cores is that of the
\* hardware whenever it can be: hwloc shows one moment, sysfs needs every CPU
\* online (hints.go:56-141, format.go:10-84).
HintsConsistent ==
    pc = "done" =>
        /\ cmd = "topology" =>
               \A c \in DOMAIN topo.cpus : Cardinality({ l \in out : c \in l.threads }) = 1
        /\ cmd = "hints" =>
               LET list(i) == ParseCPUList(out.sockets[i].list)
               IN  /\ UNION { list(i) : i \in DOMAIN out.sockets } = DOMAIN topo.cpus
                   /\ Total([i \in DOMAIN out.sockets |-> out.sockets[i].logical]) = out.logicalCPUs
                   /\ Total([i \in DOMAIN out.sockets |-> out.sockets[i].physical]) = out.physicalCores
                   /\ \A i \in DOMAIN out.numaNodes :
                          LET n == out.numaNodes[i]
                          IN  /\ ParseCPUList(n.list) = topo.nodes[n.node]
                              /\ out.minPerNode <= n.logical /\ n.logical <= out.maxPerNode
                   /\ (used = "hwloc" \/ (online = Cpu /\ hotplugs = 0)) =>
                          out.physicalCores =
                              Cardinality({ <<Pkg[c], Core[c]>> : c \in DOMAIN topo.cpus })
=============================================================================
