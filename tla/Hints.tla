------------------------------- MODULE Hints -------------------------------
(***************************************************************************)
(* topology.BuildClusterHints (pkg/topology/hints.go): what "topology      *)
(* hints" and "topology matrix" print, before it is formatted, and the     *)
(* lines of FormatASCII's tree (format.go), which "topology" prints.       *)
(***************************************************************************)
EXTENDS CpuList

PackageIDs(t) == Sorted({ t.cpus[c].pkg : c \in DOMAIN t.cpus })

CPUsOfPackage(t, pkg) == { c \in DOMAIN t.cpus : t.cpus[c].pkg = pkg }

\* Mutant: cores are told apart by their number alone.
CoresByNumber(t, pkg) ==
    { t.cpus[c].core : c \in CPUsOfPackage(t, pkg) }
        \ { t.cpus[c].core : c \in UNION { CPUsOfPackage(t, p) : p \in 0..(pkg - 1) } }

\* coreSeen: physical cores are told apart by package and core number.
Cores(t, pkg) == { t.cpus[c].core : c \in CPUsOfPackage(t, pkg) }

SocketSummary(t, pkg) ==
    [package  |-> pkg,
     logical  |-> Cardinality(CPUsOfPackage(t, pkg)),
     physical |-> Cardinality(Cores(t, pkg)),
     list     |-> FormatCPUList(CPUsOfPackage(t, pkg))]

NUMASummary(t, node) ==
    [node    |-> node,
     logical |-> Cardinality(t.nodes[node]),
     list    |-> FormatCPUList(t.nodes[node])]

\* The largest and the smallest of the counts, or the number of CPUs on a
\* machine without nodes.
LogicalPerNode(t) ==
    IF DOMAIN t.nodes = {} THEN {Cardinality(DOMAIN t.cpus)}
    ELSE { Cardinality(t.nodes[n]) : n \in DOMAIN t.nodes }

\* One line for each core of each node of each package, with its threads.
FormatASCII(t) ==
    { [package |-> t.cpus[c].pkg, node |-> t.cpus[c].numa, core |-> t.cpus[c].core,
       threads |-> { d \in CPUsOfPackage(t, t.cpus[c].pkg) :
                       t.cpus[d].numa = t.cpus[c].numa /\ t.cpus[d].core = t.cpus[c].core }]
      : c \in DOMAIN t.cpus }

BuildClusterHints(t) ==
    LET pkgs    == PackageIDs(t)
        nodes   == Sorted(DOMAIN t.nodes)
        sockets == [i \in DOMAIN pkgs |-> SocketSummary(t, pkgs[i])]
    IN  [logicalCPUs   |-> Cardinality(DOMAIN t.cpus),
         physicalCores |-> Cardinality({ <<t.cpus[c].pkg, t.cpus[c].core>> : c \in DOMAIN t.cpus }),
         sockets       |-> sockets,
         numaNodes     |-> [i \in DOMAIN nodes |-> NUMASummary(t, nodes[i])],
         maxPerSocket  |-> Max({ sockets[i].logical : i \in DOMAIN sockets }),
         maxPerNode    |-> Max(LogicalPerNode(t)),
         minPerNode    |-> Min(LogicalPerNode(t)),
         suggested     |-> Max({ sockets[i].logical : i \in DOMAIN sockets }),
         firstSocket   |-> sockets[1].list]
=============================================================================
