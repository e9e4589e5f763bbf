------------------------------- MODULE Hwloc -------------------------------
(***************************************************************************)
(* The import of an hwloc XML document (pkg/hwloc/parse.go).  A document   *)
(* is the sequence of its objects in document order, each with its type,   *)
(* its os_index (None when the attribute is missing) and its depth: the    *)
(* children of an object follow it one level deeper.                       *)
(*                                                                         *)
(* A topology is a record: cpus gives package, core and NUMA node (-1 when *)
(* unknown) of each logical CPU, nodes the CPUs of each NUMA node.         *)
(***************************************************************************)
EXTENDS CpuList

None == -1

Object(type, os, depth) == [type |-> type, os |-> os, depth |-> depth]

deref(os, default) == IF os = None THEN default ELSE os

NoContext == [pkg |-> -1, numa |-> -1, core |-> -1]

\* What an object hands down to its children.
Context(up, o, nextCore) ==
    CASE o.type = "Package"  -> [up EXCEPT !.pkg = deref(o.os, @)]
      [] o.type = "NUMANode" -> [up EXCEPT !.numa = deref(o.os, @)]
      [] o.type = "Core"     -> [up EXCEPT !.core = deref(o.os, nextCore)]
      [] OTHER               -> up

\* Documents are at most five levels deep.
Depths == 1..6

\* walk: up[d] is what an object at depth d is handed by the one above it.
walk(acc, o) ==
    LET here == Context(acc.up[o.depth], o, acc.nextCore)
    IN  [up       |-> [acc.up EXCEPT ![o.depth + 1] = here],
         nextCore |-> IF o.type = "Core" THEN here.core + 1 ELSE acc.nextCore,
         recs     |-> IF o.type = "PU" /\ o.os >= 0
                      THEN acc.recs \cup {[pu |-> o.os, pkg |-> here.pkg,
                                           numa |-> here.numa, core |-> here.core]}
                      ELSE acc.recs]

Walks(doc) ==
    LET acc[i \in 0..Len(doc)] ==
            IF i = 0 THEN [up |-> [d \in Depths |-> NoContext], nextCore |-> 0, recs |-> {}]
            ELSE walk(acc[i - 1], doc[i])
    IN  acc

Records(doc) == Walks(doc)[Len(doc)].recs

NoPUs(doc) == Records(doc) = {}

max0(v) == IF v < 0 THEN 0 ELSE v

\* A CPU outside of any Core is its own core; one outside of any Package is in
\* package 0; nodes are those that hold a CPU.
TopologyFromXML(doc) ==
    LET recs == Records(doc)
        of(p) == CHOOSE r \in recs : r.pu = p
    IN  [cpus  |-> [p \in { r.pu : r \in recs } |->
                       [pkg |-> max0(of(p).pkg), numa |-> of(p).numa,
                        core |-> IF of(p).core < 0 THEN p ELSE of(p).core]],
         nodes |-> [n \in { r.numa : r \in recs } \ {-1} |->
                       { r.pu : r \in { r \in recs : r.numa = n } }]]
=============================================================================
