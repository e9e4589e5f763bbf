------------------------------ MODULE CpuList ------------------------------
(***************************************************************************)
(* The cpulist conversions: topology.FormatCPUList and ParseCPUList        *)
(* (pkg/topology/cpulist.go) and affinity.CPUsToTasksetSpec                *)
(* (pkg/affinity/cpuset.go).  Both formatters first drop repeated ids and  *)
(* sort, so their input is a set; the text is the sequence of its          *)
(* comma-separated parts, each an interval <<lo, hi>> ("lo" when lo = hi). *)
(***************************************************************************)
EXTENDS Integers, Sequences, FiniteSets, SequencesExt

\* sort.Ints of the distinct ids.
Sorted(S) ==
    [n \in 1..Cardinality(S) |->
        CHOOSE x \in S : Cardinality({ y \in S : y < x }) = n - 1]

\* The body of FormatCPUList's loop, i from 1 to len(uniq) inclusive.
FormatTurn(uniq, acc, i) ==
    CASE i < Len(uniq) /\ uniq[i + 1] = acc.prev + 1 ->
            [acc EXCEPT !.prev = uniq[i + 1]]
      [] i < Len(uniq) /\ uniq[i + 1] # acc.prev + 1 ->
            [start |-> uniq[i + 1], prev |-> uniq[i + 1],
             parts |-> Append(acc.parts, <<acc.start, acc.prev>>)]
      [] OTHER -> [acc EXCEPT !.parts = Append(@, <<acc.start, acc.prev>>)]

\* start, prev and the text after each turn of the loop.
FormatTurns(uniq) ==
    LET acc[i \in 0..Len(uniq)] ==
            IF i = 0 THEN [start |-> uniq[1], prev |-> uniq[1], parts |-> << >>]
            ELSE FormatTurn(uniq, acc[i - 1], i)
    IN  acc

\* Mutant: the loop ends with the last id, before its interval is written.
FormatDropsLast(S) ==
    IF S = {} THEN << >> ELSE FormatTurns(Sorted(S))[Cardinality(S) - 1].parts

FormatCPUList(S) ==
    IF S = {} THEN << >> ELSE FormatTurns(Sorted(S))[Cardinality(S)].parts

\* The index after the run of consecutive ids that begins at index n.
RunEnd(xs, n) ==
    CHOOSE m \in (n + 1)..(Len(xs) + 1) :
        /\ \A h \in (n + 1)..(m - 1) : xs[h] = xs[h - 1] + 1
        /\ m <= Len(xs) => xs[m] # xs[m - 1] + 1

\* The outer loop starts a part wherever the previous run has ended.
TasksetTurn(xs, acc, i) ==
    IF i < acc.next THEN acc
    ELSE [next  |-> RunEnd(xs, i),
          parts |-> Append(acc.parts, <<xs[i], xs[RunEnd(xs, i) - 1]>>)]

TasksetTurns(xs) ==
    LET acc[i \in 0..Len(xs)] ==
            IF i = 0 THEN [next |-> 1, parts |-> << >>] ELSE TasksetTurn(xs, acc[i - 1], i)
    IN  acc

CPUsToTasksetSpec(S) == TasksetTurns(Sorted(S))[Cardinality(S)].parts

\* ParseCPUList: a part is refused when its bounds are in the wrong order.
ParseOK(parts) == \A n \in DOMAIN parts : parts[n][1] <= parts[n][2]
ParseCPUList(parts) == UNION { parts[n][1]..parts[n][2] : n \in DOMAIN parts }

-----------------------------------------------------------------------------
\* The maximal intervals of a set, in increasing order: what both formatters
\* are meant to print.
Intervals(S) == { p \in S \X S : /\ p[1] <= p[2] /\ p[1]..p[2] \subseteq S
                                 /\ (p[1] - 1) \notin S /\ (p[2] + 1) \notin S }
Reference(S) ==
    LET lows == Sorted({ p[1] : p \in Intervals(S) })
    IN  [n \in DOMAIN lows |-> CHOOSE p \in Intervals(S) : p[1] = lows[n]]
=============================================================================
