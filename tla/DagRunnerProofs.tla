-------------------------- MODULE DagRunnerProofs ---------------------------
(***************************************************************************)
(* Kahn's algorithm as TopoOrder writes it is right on every list of       *)
(* vertices, whatever their number and with repeated ids, repeated         *)
(* entries, unknown dependencies and cycles; and Runner.Run, which walks   *)
(* the order, starts no command before its dependencies have succeeded.    *)
(* The invariant counts: an in-degree is the number of the entries of      *)
(* dependsOn lists that are still pending, that is whose dependency is not *)
(* in the order yet or whose edge the inner loop has not reached.          *)
(***************************************************************************)
EXTENDS DagRunner, FiniteSetTheorems, WellFoundedInduction, TLAPS

-----------------------------------------------------------------------------
(* The inductive invariant of TopoOrder.                                   *)

\* The ids of the order so far.
Done == { ordered[j].id : j \in DOMAIN ordered }

\* The vertex that lists an entry, and the dependency that it lists.
Of(e)  == nodes[e[1]].id
Dep(e) == nodes[e[1]].dependsOn[e[2]]

Pending == { e \in Entries(nodes) : Dep(e) \notin Done } \cup succs
PendingOf(id) == { e \in Pending : Of(e) = id }

TopoTypeOK ==
    /\ nodes \in Inputs
    /\ inDeg \in [Ids(nodes) -> Int]
    /\ q \in Seq(Ids(nodes))
    /\ ordered \in Seq(Node)
    /\ succs \in SUBSET Entries(nodes)
    /\ verdict \in {"none", "ok", "error"}

Counted == \A id \in Ids(nodes) : inDeg[id] = Cardinality(PendingOf(id))

\* No id is queued or ordered twice, nor both.
Once ==
    /\ \A i, j \in DOMAIN q : q[i] = q[j] => i = j
    /\ \A i, j \in DOMAIN ordered : ordered[i].id = ordered[j].id => i = j
    /\ \A i \in DOMAIN q : q[i] \notin Done

\* The ids that are queued or ordered are those whose count is zero.
Ready == \A id \in Ids(nodes) : inDeg[id] = 0 <=> id \in Elems(q) \cup Done

Walked == \A e \in succs : Dep(e) \in Done

\* The order so far is of vertices of the list, each after its dependencies.
Sorted ==
    \A j \in DOMAIN ordered :
        /\ ordered[j] \in Elems(nodes)
        /\ Deps(ordered[j]) \subseteq { ordered[k].id : k \in 1..(j - 1) }

Decided ==
    verdict # "none" =>
        /\ q = << >> /\ succs = {}
        /\ verdict = "ok" <=> Len(ordered) = Len(nodes)

TopoInv == TopoTypeOK /\ Counted /\ Once /\ Ready /\ Walked /\ Sorted /\ Decided

-----------------------------------------------------------------------------
(* The inductive invariant of Runner.Run.                                  *)

RunAt == {"order", "append", "ctx", "place", "exec", "open", "write", "returned"}

RunTypeOK ==
    /\ at \in Nat \ {0}
    /\ timings \in Seq(Timing)
    /\ prom \in [from : {"earlier run", "this run"}, steps : Seq(Timing)]
    /\ cancelled \in BOOLEAN
    /\ pc \in RunAt
    /\ err \in {"none", "cycle", "nil", "prom", "ctx", "select", "command", "exit"}

\* The first n vertices of the order have succeeded, and nothing else has run.
Succeeded(n) ==
    /\ Len(timings) = n
    /\ \A k \in DOMAIN timings : timings[k] = [id |-> ordered[k].id, exit |-> 0]

\* The timings are of the vertices before the one that the loop is at, all of
\* them successes, and the loop does not start before TopoOrder has returned.
Progress ==
    /\ pc \in {"order", "append"} => at = 1 /\ timings = << >>
    /\ pc \in {"ctx", "place", "exec"} =>
          /\ verdict = "ok"
          /\ at <= Len(ordered) + 1
          /\ pc # "ctx" => at <= Len(ordered)
          /\ Succeeded(at - 1)
    /\ pc \in {"open", "write", "returned"} => verdict # "none"

\* What the loop has ended with: every vertex has succeeded, or all but the
\* last one that was executed.
Ended ==
    /\ pc \in {"open", "write"} => err \in {"nil", "exit"}
    /\ pc \in {"order", "append", "ctx", "place", "exec"} => err = "none"
    /\ err \in {"nil", "prom"} => verdict = "ok" /\ Succeeded(Len(ordered))
    /\ err = "exit" => \A k \in DOMAIN timings : k < Len(timings) => timings[k].exit = 0

\* The file is of this run only when the loop has ended, and holds the first
\* of its timings; all of them when Run has returned nil.
Exposition ==
    /\ pc = "write" => prom.from = "this run"
    /\ prom.from = "this run" =>
          /\ pc \in {"write", "returned"} /\ err \in {"nil", "prom", "exit"}
          /\ Len(prom.steps) <= Len(timings)
          /\ \A k \in DOMAIN prom.steps : prom.steps[k] = timings[k]
    /\ (PromTextFile /\ pc = "returned" /\ err = "nil") => prom = Exposed(timings)

IInv == TopoInv /\ RunTypeOK /\ Progress /\ Ended /\ Exposition

-----------------------------------------------------------------------------
(* Lemmas about lists of vertices and the entries of their dependsOn lists. *)

\* A set of natural numbers that is not empty has a least element.
LEMMA LeastExists ==
    ASSUME NEW S \in SUBSET Nat, S # {}
    PROVE  \E i \in S : \A j \in S : i <= j
<1>1. PICK i \in S : \A j \in S : ~(<<j, i>> \in OpToRel(<, Nat))
  BY NatLessThanWellFounded, WFMin
<1>2. \A j \in S : ~(j < i)
  BY <1>1 DEF OpToRel
<1> QED
  BY <1>2

\* A list of vertices has typed ids and dependency lists.
LEMMA Vertices ==
    ASSUME NEW ns \in Seq(Node)
    PROVE  /\ Len(ns) \in Nat /\ DOMAIN ns = 1..Len(ns)
           /\ \A i \in DOMAIN ns :
                 /\ ns[i] \in Node /\ ns[i].id \in NodeId
                 /\ ns[i].dependsOn \in Seq(NodeId)
                 /\ DOMAIN ns[i].dependsOn = 1..Len(ns[i].dependsOn)
                 /\ Len(ns[i].dependsOn) \in Nat
                 /\ ns[i].id \in Ids(ns) /\ ns[i] \in Elems(ns)
<1>1. Len(ns) \in Nat /\ DOMAIN ns = 1..Len(ns)
  OBVIOUS
<1>2. \A i \in DOMAIN ns : ns[i].id \in Ids(ns) /\ ns[i] \in Elems(ns)
  BY DEF Ids, Elems
<1>3. ASSUME NEW i \in DOMAIN ns
      PROVE  /\ ns[i] \in Node /\ ns[i].id \in NodeId
             /\ ns[i].dependsOn \in Seq(NodeId)
  <2>1. ns[i] \in Node
    BY <1>1
  <2> QED
    BY <2>1 DEF Node
<1>4. ASSUME NEW s \in Seq(NodeId) PROVE DOMAIN s = 1..Len(s) /\ Len(s) \in Nat
  OBVIOUS
<1> QED
  BY <1>1, <1>2, <1>3, <1>4

\* An entry is a position in the list and one in a dependency list.
LEMMA EntryIs ==
    ASSUME NEW ns
    PROVE  /\ \A i \in DOMAIN ns : \A k \in DOMAIN ns[i].dependsOn : <<i, k>> \in Entries(ns)
           /\ \A e \in Entries(ns) : /\ e[1] \in DOMAIN ns /\ e[2] \in DOMAIN ns[e[1]].dependsOn
                                     /\ e = <<e[1], e[2]>>
<1>1. ASSUME NEW i \in DOMAIN ns, NEW k \in DOMAIN ns[i].dependsOn
      PROVE  <<i, k>> \in Entries(ns)
  BY DEF Entries
<1>2. ASSUME NEW e \in Entries(ns)
      PROVE  e[1] \in DOMAIN ns /\ e[2] \in DOMAIN ns[e[1]].dependsOn /\ e = <<e[1], e[2]>>
  <2>1. PICK i \in DOMAIN ns : e \in { <<i, k>> : k \in DOMAIN ns[i].dependsOn }
    BY DEF Entries
  <2>2. PICK k \in DOMAIN ns[i].dependsOn : e = <<i, k>>
    BY <2>1
  <2> QED
    BY <2>2
<1> QED
  BY <1>1, <1>2

\* A list has finitely many entries.
LEMMA EntriesFinite ==
    ASSUME NEW ns \in Seq(Node)
    PROVE  IsFiniteSet(Entries(ns))
<1> DEFINE row(i) == { <<i, k>> : k \in DOMAIN ns[i].dependsOn }
           rows == { row(i) : i \in DOMAIN ns }
<1>1. IsFiniteSet(rows)
  <2> DEFINE f == [i \in 1..Len(ns) |-> row(i)]
  <2>1. Len(ns) \in Nat /\ DOMAIN ns = 1..Len(ns)
    BY Vertices
  <2>2. IsFiniteSet(1..Len(ns))
    BY <2>1, FS_Interval
  <2> HIDE DEF row
  <2>3. f \in Surjection(1..Len(ns), rows)
    BY <2>1 DEF Surjection
  <2> HIDE DEF f, rows
  <2> QED
    BY <2>2, <2>3, FS_Surjection
<1>2. ASSUME NEW i \in DOMAIN ns PROVE IsFiniteSet(row(i))
  <2> DEFINE n == Len(ns[i].dependsOn)
             f == [k \in 1..n |-> <<i, k>>]
  <2>1. n \in Nat /\ DOMAIN ns[i].dependsOn = 1..n
    BY Vertices
  <2>2. IsFiniteSet(1..n)
    BY <2>1, FS_Interval
  <2>3. f \in Surjection(1..n, row(i))
    BY <2>1 DEF Surjection
  <2> HIDE DEF f, row
  <2> QED
    BY <2>2, <2>3, FS_Surjection
<1>3. \A r \in rows : IsFiniteSet(r)
  BY <1>2
<1> HIDE DEF rows
<1>4. IsFiniteSet(UNION rows)
  BY <1>1, <1>3, FS_UNION
<1> QED
  BY <1>4 DEF rows, Entries

\* The inner loop takes one of the entries it has not reached.
LEMMA FirstIn ==
    ASSUME NEW ns \in Seq(Node), NEW es \in SUBSET Entries(ns), es # {}
    PROVE  First(es) \in es
<1>0. \A e \in es : e[1] \in Nat /\ e[2] \in Nat /\ e = <<e[1], e[2]>>
  BY EntryIs, Vertices
<1> DEFINE rows == { e[1] : e \in es }
<1>1. PICK i \in rows : \A j \in rows : i <= j
  <2>1. rows \in SUBSET Nat /\ rows # {}
    BY <1>0
  <2> HIDE DEF rows
  <2> QED
    BY <2>1, LeastExists
<1> DEFINE row == { e[2] : e \in { o \in es : o[1] = i } }
<1>2. row \in SUBSET Nat /\ row # {}
  BY <1>0, <1>1
<1>3. PICK k \in row : \A l \in row : k <= l
  <2> HIDE DEF row
  <2> QED
    BY <1>2, LeastExists
<1>4. PICK e \in es : e[1] = i /\ e[2] = k
  BY <1>3
<1>5. ASSUME NEW o \in es PROVE e[1] < o[1] \/ (e[1] = o[1] /\ e[2] <= o[2])
  <2>1. o[1] \in rows /\ (o[1] = i => o[2] \in row)
    OBVIOUS
  <2>2. i <= o[1] /\ (o[1] = i => k <= o[2])
    BY <1>1, <1>3, <2>1
  <2> HIDE DEF rows, row
  <2> QED
    BY <1>0, <1>4, <2>2
<1> QED
  BY <1>5 DEF First

\* byID holds a vertex of the list with the id asked for.
LEMMA ByIDIs ==
    ASSUME NEW ns \in Seq(Node), NEW id \in Ids(ns)
    PROVE  \E i \in DOMAIN ns : ByID(ns, id) = ns[i] /\ ns[i].id = id
<1> DEFINE S == { i \in DOMAIN ns : ns[i].id = id }
           T == { Len(ns) - i : i \in S }
<1>0. Len(ns) \in Nat /\ DOMAIN ns = 1..Len(ns)
  BY Vertices
<1>1. S # {}
  BY DEF Ids
<1>2. T \in SUBSET Nat /\ T # {}
  BY <1>0, <1>1
<1>3. PICK t \in T : \A u \in T : t <= u
  BY <1>2, LeastExists
<1>4. PICK i \in S : t = Len(ns) - i
  OBVIOUS
<1>5. ASSUME NEW j \in S PROVE j <= i
  <2>1. Len(ns) - j \in T
    OBVIOUS
  <2>2. Len(ns) - i <= Len(ns) - j
    BY <1>3, <1>4, <2>1
  <2> HIDE DEF T
  <2> QED
    BY <1>0, <2>2
<1>6. i \in DOMAIN ns /\ ns[i].id = id /\ \A j \in DOMAIN ns : ns[j].id = id => j <= i
  BY <1>5
<1> QED
  BY <1>6 DEF ByID

\* A list has at most as many ids as vertices, and as many when no id repeats.
LEMMA IdsFinite ==
    ASSUME NEW ns \in Seq(Node)
    PROVE  /\ IsFiniteSet(Ids(ns)) /\ Cardinality(Ids(ns)) \in Nat
           /\ Cardinality(Ids(ns)) <= Len(ns)
           /\ Cardinality(Ids(ns)) = Len(ns) <=> UniqueIds(ns)
<1> DEFINE f == [i \in 1..Len(ns) |-> ns[i].id]
<1>1. Len(ns) \in Nat /\ DOMAIN ns = 1..Len(ns)
  BY Vertices
<1>2. IsFiniteSet(1..Len(ns)) /\ Cardinality(1..Len(ns)) = Len(ns)
  <2>1. ASSUME NEW n \in Nat PROVE IsFiniteSet(1..n) /\ Cardinality(1..n) = n
    BY FS_Interval
  <2> QED
    BY <1>1, <2>1
<1>3. f \in Surjection(1..Len(ns), Ids(ns))
  BY <1>1 DEF Surjection, Ids
<1>4. f \in Injection(1..Len(ns), Ids(ns)) <=> UniqueIds(ns)
  <2>1. f \in [1..Len(ns) -> Ids(ns)]
    BY <1>1 DEF Ids
  <2>2. f \in Injection(1..Len(ns), Ids(ns)) <=> IsInjective(f)
    BY <2>1 DEF Injection
  <2>3. IsInjective(f) <=> UniqueIds(ns)
    BY <1>1 DEF IsInjective, UniqueIds
  <2> QED
    BY <2>2, <2>3
<1> HIDE DEF f
<1>5. /\ IsFiniteSet(Ids(ns))
      /\ Cardinality(Ids(ns)) <= Cardinality(1..Len(ns))
      /\ Cardinality(Ids(ns)) = Cardinality(1..Len(ns)) <=> f \in Injection(1..Len(ns), Ids(ns))
  BY <1>2, <1>3, FS_Surjection
<1>6. Cardinality(Ids(ns)) \in Nat
  BY <1>5, FS_CardinalityType
<1> QED
  BY <1>2, <1>4, <1>5, <1>6

\* The first queue holds each of the ids with no dependency once.
LEMMA FirstQueue ==
    ASSUME NEW S, IsFiniteSet(S), NEW s \in SetToSeqs(S)
    PROVE  s \in Seq(S) /\ Elems(s) = S /\ \A i, j \in DOMAIN s : s[i] = s[j] => i = j
<1> DEFINE n == Cardinality(S)
<1>1. n \in Nat
  BY FS_CardinalityType
<1>2. s \in [1..n -> S] /\ \A i, j \in 1..n : i # j => s[i] # s[j]
  BY DEF SetToSeqs
<1>3. s \in Injection(1..n, S)
  BY <1>2 DEF Injection, IsInjective
<1>4. Cardinality(1..n) = n
  BY <1>1, FS_Interval
<1> HIDE DEF n
<1>5. s \in Surjection(1..n, S)
  BY <1>3, <1>4, FS_Injection DEF n
<1>6. Elems(s) = S
  BY <1>2, <1>5 DEF Surjection, Elems
<1> QED
  BY <1>1, <1>2, <1>6

-----------------------------------------------------------------------------
(* TopoOrder keeps its invariant.                                          *)

\* What the invariant says of the list that TopoOrder is called with.
LEMMA ListTyped ==
    ASSUME nodes \in Inputs
    PROVE  /\ nodes \in Seq(Node)
           /\ \A e \in Entries(nodes) : Of(e) \in Ids(nodes) /\ Dep(e) \in NodeId
<1>1. nodes \in Seq(Node)
  BY InputsAssumption
<1>2. ASSUME NEW e \in Entries(nodes) PROVE Of(e) \in Ids(nodes) /\ Dep(e) \in NodeId
  <2>1. e[1] \in DOMAIN nodes /\ e[2] \in DOMAIN nodes[e[1]].dependsOn
    BY EntryIs
  <2>2. nodes[e[1]].id \in Ids(nodes) /\ nodes[e[1]].dependsOn \in Seq(NodeId)
    BY <1>1, <2>1, Vertices
  <2>3. nodes[e[1]].dependsOn[e[2]] \in NodeId
    BY <2>1, <2>2
  <2> QED
    BY <2>2, <2>3 DEF Of, Dep
<1> QED
  BY <1>1, <1>2

\* The counts that the first loop makes are of entries that are all pending.
LEMMA TopoInitInv == TopoInit => TopoInv
<1> SUFFICES ASSUME TopoInit PROVE TopoInv
  OBVIOUS
<1>0. nodes \in Inputs /\ nodes \in Seq(Node)
  BY ListTyped DEF TopoInit
<1>1. ordered = << >> /\ succs = {} /\ verdict = "none" /\ DOMAIN ordered = {}
  BY DEF TopoInit
<1>2. Done = {}
  BY <1>1 DEF Done
<1>3. Pending = Entries(nodes)
  BY <1>1, <1>2 DEF Pending
<1>4. \A id \in Ids(nodes) :
          /\ inDeg[id] = Cardinality(PendingOf(id))
          /\ Cardinality(PendingOf(id)) \in Nat
  <2> SUFFICES ASSUME NEW id \in Ids(nodes)
               PROVE  /\ inDeg[id] = Cardinality(PendingOf(id))
                      /\ Cardinality(PendingOf(id)) \in Nat
    OBVIOUS
  <2>1. PendingOf(id) = { e \in Entries(nodes) : nodes[e[1]].id = id }
    BY <1>3 DEF PendingOf, Of
  <2>2. inDeg[id] = Cardinality(PendingOf(id))
    BY <2>1 DEF TopoInit, InDegree
  <2>3. PendingOf(id) \in SUBSET Entries(nodes)
    BY <2>1
  <2>4. IsFiniteSet(PendingOf(id))
    BY <1>0, <2>3, EntriesFinite, FS_Subset
  <2> QED
    BY <2>2, <2>4, FS_CardinalityType
<1>5. inDeg \in [Ids(nodes) -> Int]
  <2>1. inDeg = [id \in Ids(nodes) |-> inDeg[id]]
    BY DEF TopoInit, InDegree
  <2>2. \A id \in Ids(nodes) : inDeg[id] \in Int
    BY <1>4
  <2> QED
    BY <2>1, <2>2
<1> DEFINE zeros == { id \in Ids(nodes) : inDeg[id] = 0 }
<1>6. IsFiniteSet(zeros)
  BY <1>0, IdsFinite, FS_Subset
<1>7. q \in Seq(zeros) /\ Elems(q) = zeros /\ \A i, j \in DOMAIN q : q[i] = q[j] => i = j
  <2>1. q \in SetToSeqs(zeros)
    BY DEF TopoInit
  <2> HIDE DEF zeros
  <2> QED
    BY <1>6, <2>1, FirstQueue
<1>8. q \in Seq(Ids(nodes))
  BY <1>7
<1>9. TopoTypeOK
  BY <1>0, <1>1, <1>5, <1>8 DEF TopoTypeOK
<1>10. Counted
  BY <1>4 DEF Counted
<1>11. Once
  BY <1>1, <1>2, <1>7 DEF Once
<1>12. Ready
  BY <1>2, <1>7 DEF Ready
<1> QED
  BY <1>1, <1>9, <1>10, <1>11, <1>12 DEF TopoInv, Walked, Sorted, Decided

\* One more element at the end of a sequence.
LEMMA AppendIs ==
    ASSUME NEW S, NEW s \in Seq(S), NEW x \in S
    PROVE  /\ Append(s, x) \in Seq(S)
           /\ DOMAIN s = 1..Len(s) /\ Len(s) \in Nat
           /\ DOMAIN Append(s, x) = 1..(Len(s) + 1) /\ Len(Append(s, x)) = Len(s) + 1
           /\ \A i \in 1..Len(s) : Append(s, x)[i] = s[i]
           /\ Append(s, x)[Len(s) + 1] = x
OBVIOUS

\* One element less at the head of a sequence.
LEMMA TailIs ==
    ASSUME NEW S, NEW s \in Seq(S), s # << >>
    PROVE  /\ Tail(s) \in Seq(S) /\ Head(s) = s[1] /\ Head(s) \in S
           /\ DOMAIN s = 1..Len(s) /\ Len(s) \in Nat /\ 1 \in DOMAIN s
           /\ DOMAIN Tail(s) = 1..(Len(s) - 1)
           /\ \A i \in 1..(Len(s) - 1) : Tail(s)[i] = s[i + 1]
OBVIOUS

\* Dequeue: a count of zero means that every dependency is in the order, and
\* the entries that name the new id stay pending, as edges to be walked.
LEMMA DequeueInv == TopoInv /\ Dequeue => TopoInv'
<1> SUFFICES ASSUME TopoInv, Dequeue PROVE TopoInv'
  OBVIOUS
<1> USE DEF TopoInv
<1>0. nodes \in Inputs /\ nodes \in Seq(Node)
  BY ListTyped DEF TopoTypeOK
<1>1. /\ verdict = "none" /\ succs = {} /\ q # << >>
      /\ nodes' = nodes /\ inDeg' = inDeg /\ verdict' = verdict
      /\ q' = Tail(q)
  BY DEF Dequeue
<1>t. q \in Seq(Ids(nodes)) /\ ordered \in Seq(Node)
  BY DEF TopoTypeOK
<1>2. PICK id : id = Head(q)
  OBVIOUS
<1>3. id \in Ids(nodes) /\ id = q[1] /\ 1 \in DOMAIN q
  BY <1>1, <1>2, <1>t, TailIs
<1>4. id \notin Done /\ inDeg[id] = 0
  BY <1>3 DEF Once, Ready, Elems
<1>5. PICK v \in DOMAIN nodes : ByID(nodes, id) = nodes[v] /\ nodes[v].id = id
  BY <1>0, <1>3, ByIDIs
<1>6. nodes[v] \in Node /\ nodes[v] \in Elems(nodes)
  BY <1>0, Vertices
<1>7. ordered' = Append(ordered, nodes[v]) /\ succs' = Edges(nodes, id)
  BY <1>2, <1>5 DEF Dequeue
<1> DEFINE n == Len(ordered)
<1>8. /\ ordered' \in Seq(Node) /\ n \in Nat
      /\ DOMAIN ordered = 1..n /\ DOMAIN ordered' = 1..(n + 1) /\ Len(ordered') = n + 1
      /\ \A i \in 1..n : ordered'[i] = ordered[i]
      /\ ordered'[n + 1] = nodes[v]
  BY <1>6, <1>7, <1>t, AppendIs
<1> HIDE DEF n
<1>9. Done' = Done \cup {id}
  <2>1. ASSUME NEW x \in Done' PROVE x \in Done \cup {id}
    <3>1. PICK j \in DOMAIN ordered' : x = ordered'[j].id
      BY <2>1 DEF Done
    <3> QED
      BY <1>5, <1>8, <3>1 DEF Done
  <2>2. ASSUME NEW x \in Done PROVE x \in Done'
    <3>1. PICK j \in DOMAIN ordered : x = ordered[j].id
      BY <2>2 DEF Done
    <3>2. j \in DOMAIN ordered' /\ x = ordered'[j].id
      BY <1>8, <3>1
    <3> QED
      BY <3>2 DEF Done
  <2>3. id \in Done'
    <3>1. n + 1 \in DOMAIN ordered' /\ ordered'[n + 1].id = id
      BY <1>5, <1>8
    <3> QED
      BY <3>1 DEF Done
  <2> QED
    BY <2>1, <2>2, <2>3
<1>10. \A e : Of(e)' = Of(e) /\ Dep(e)' = Dep(e)
  BY <1>1 DEF Of, Dep
<1>11. succs' = { e \in Entries(nodes) : Dep(e) = id }
  BY <1>7 DEF Edges, Dep
<1>12. Entries(nodes)' = Entries(nodes) /\ Ids(nodes)' = Ids(nodes) /\ Elems(nodes)' = Elems(nodes)
  BY <1>1
<1>13. Pending' = Pending
  <2>1. Pending' = { e \in Entries(nodes) : Dep(e) \notin Done' } \cup succs'
    BY <1>10, <1>12 DEF Pending
  <2>2. Pending = { e \in Entries(nodes) : Dep(e) \notin Done }
    BY <1>1 DEF Pending
  <2> QED
    BY <1>4, <1>9, <1>11, <2>1, <2>2
<1>14. \A x : PendingOf(x)' = PendingOf(x)
  BY <1>10, <1>13 DEF PendingOf
<1>15. Deps(nodes[v]) \subseteq Done
  <2>1. IsFiniteSet(PendingOf(id))
    <3>1. PendingOf(id) \in SUBSET Entries(nodes)
      BY <1>1 DEF PendingOf, Pending
    <3> QED
      BY <1>0, <3>1, EntriesFinite, FS_Subset
  <2>2. PendingOf(id) = {}
    BY <1>3, <1>4, <2>1, FS_EmptySet DEF Counted
  <2>3. ASSUME NEW k \in DOMAIN nodes[v].dependsOn PROVE nodes[v].dependsOn[k] \in Done
    <3>1. <<v, k>> \in Entries(nodes)
      BY EntryIs
    <3>2. <<v, k>> \notin Pending
      BY <1>5, <2>2 DEF PendingOf, Of
    <3> QED
      BY <3>1, <3>2 DEF Pending, Dep
  <2> QED
    BY <2>3 DEF Deps, Elems
<1>16. /\ q' \in Seq(Ids(nodes)) /\ Len(q) \in Nat
       /\ DOMAIN q = 1..Len(q) /\ DOMAIN q' = 1..(Len(q) - 1)
       /\ \A i \in DOMAIN q' : i + 1 \in DOMAIN q /\ q'[i] = q[i + 1]
  <2>1. /\ q' \in Seq(Ids(nodes)) /\ Len(q) \in Nat
        /\ DOMAIN q = 1..Len(q) /\ DOMAIN q' = 1..(Len(q) - 1)
        /\ \A i \in 1..(Len(q) - 1) : q'[i] = q[i + 1]
    BY <1>1, <1>t, TailIs
  <2> QED
    BY <2>1
<1>17. TopoTypeOK'
  <2>1. succs' \in SUBSET Entries(nodes)
    BY <1>11
  <2>2. inDeg \in [Ids(nodes) -> Int] /\ verdict \in {"none", "ok", "error"}
    BY DEF TopoTypeOK
  <2> QED
    BY <1>0, <1>1, <1>8, <1>12, <1>16, <2>1, <2>2 DEF TopoTypeOK
<1>18. Counted'
  BY <1>1, <1>12, <1>14 DEF Counted
<1>19. Once'
  <2>1. \A i, j \in DOMAIN q' : q'[i] = q'[j] => i = j
    BY <1>16 DEF Once
  <2>2. ASSUME NEW i \in DOMAIN ordered', NEW j \in DOMAIN ordered',
               ordered'[i].id = ordered'[j].id
        PROVE  i = j
    <3>1. \A k \in 1..n : ordered'[k].id \in Done
      BY <1>8 DEF Done
    <3>2. ordered'[n + 1].id \notin Done
      BY <1>4, <1>5, <1>8
    <3>3. \A k, l \in 1..n : ordered'[k].id = ordered'[l].id => k = l
      BY <1>8 DEF Once
    <3> QED
      BY <1>8, <2>2, <3>1, <3>2, <3>3
  <2>3. ASSUME NEW i \in DOMAIN q' PROVE q'[i] \notin Done'
    <3>1. q[i + 1] \notin Done
      BY <1>16 DEF Once
    <3>2. q[i + 1] # q[1]
      BY <1>3, <1>16 DEF Once
    <3> QED
      BY <1>3, <1>9, <1>16, <3>1, <3>2
  <2> QED
    BY <2>1, <2>2, <2>3 DEF Once
<1>20. Ready'
  <2>1. Elems(q)' \cup Done' = Elems(q) \cup Done
    <3>1. ASSUME NEW x \in Elems(q) PROVE x \in Elems(q)' \cup {id}
      <4>1. PICK i \in DOMAIN q : x = q[i]
        BY DEF Elems
      <4>2. CASE i = 1
        BY <1>3, <4>1, <4>2
      <4>3. CASE i # 1
        <5>1. i - 1 \in DOMAIN q' /\ q'[i - 1] = x
          BY <1>16, <4>1, <4>3
        <5> QED
          BY <5>1 DEF Elems
      <4> QED
        BY <4>2, <4>3
    <3>2. ASSUME NEW x \in Elems(q)' PROVE x \in Elems(q)
      BY <1>16, <3>2 DEF Elems
    <3>3. id \in Elems(q)
      BY <1>3 DEF Elems
    <3> QED
      BY <1>9, <3>1, <3>2, <3>3
  <2> QED
    BY <1>1, <1>12, <2>1 DEF Ready
<1>21. Walked'
  BY <1>9, <1>10, <1>11 DEF Walked
<1>22. Sorted'
  <2> SUFFICES ASSUME NEW j \in DOMAIN ordered'
               PROVE  /\ ordered'[j] \in Elems(nodes)
                      /\ Deps(ordered'[j]) \subseteq { ordered'[k].id : k \in 1..(j - 1) }
    BY <1>12 DEF Sorted, Deps, Elems
  <2>1. CASE j = n + 1
    <3>1. \A k \in 1..n : k \in 1..(j - 1)
      BY <1>8, <2>1
    <3>2. Done \subseteq { ordered'[k].id : k \in 1..(j - 1) }
      BY <1>8, <3>1 DEF Done
    <3> QED
      BY <1>6, <1>8, <1>15, <2>1, <3>2
  <2>2. CASE j \in 1..n
    <3>1. \A k \in 1..(j - 1) : k \in 1..n
      BY <1>8, <2>2
    <3>2. { ordered'[k].id : k \in 1..(j - 1) } = { ordered[k].id : k \in 1..(j - 1) }
      BY <1>8, <3>1
    <3> QED
      BY <1>8, <2>2, <3>2 DEF Sorted
  <2> QED
    BY <1>8, <2>1, <2>2
<1>23. Decided'
  BY <1>1 DEF Decided
<1> QED
  BY <1>17, <1>18, <1>19, <1>20, <1>21, <1>22, <1>23

\* Relax: the edge walked is no longer pending, so its vertex, which was
\* neither queued nor ordered, has one pending entry less.
LEMMA RelaxInv == TopoInv /\ Relax => TopoInv'
<1> SUFFICES ASSUME TopoInv, Relax PROVE TopoInv'
  OBVIOUS
<1> USE DEF TopoInv
<1>0. nodes \in Inputs /\ nodes \in Seq(Node)
  BY ListTyped DEF TopoTypeOK
<1>t. /\ q \in Seq(Ids(nodes)) /\ ordered \in Seq(Node) /\ succs \in SUBSET Entries(nodes)
      /\ inDeg \in [Ids(nodes) -> Int] /\ verdict \in {"none", "ok", "error"}
  BY DEF TopoTypeOK
<1>1. /\ succs # {} /\ nodes' = nodes /\ ordered' = ordered /\ verdict' = verdict
      /\ succs' = succs \ {First(succs)}
  BY DEF Relax
<1>2. PICK f : f = First(succs)
  OBVIOUS
<1>3. f \in succs
  BY <1>0, <1>1, <1>2, <1>t, FirstIn
<1>4. PICK succ : succ = Of(f)
  OBVIOUS
<1>5. succ \in Ids(nodes)
  BY <1>0, <1>3, <1>4, <1>t, ListTyped
<1>6. /\ inDeg' = [inDeg EXCEPT ![succ] = @ - 1]
      /\ q' = IF inDeg'[succ] = 0 THEN Append(q, succ) ELSE q
  BY <1>2, <1>4 DEF Relax, Of
<1>7. /\ inDeg' \in [Ids(nodes) -> Int] /\ inDeg'[succ] = inDeg[succ] - 1
      /\ \A id \in Ids(nodes) \ {succ} : inDeg'[id] = inDeg[id]
  BY <1>5, <1>6, <1>t
<1>8. /\ Done' = Done /\ Entries(nodes)' = Entries(nodes) /\ Ids(nodes)' = Ids(nodes)
      /\ Elems(nodes)' = Elems(nodes)
      /\ \A e : Of(e)' = Of(e) /\ Dep(e)' = Dep(e)
  BY <1>1 DEF Done, Of, Dep
<1>9. Pending' = Pending \ {f}
  <2>1. Pending' = { e \in Entries(nodes) : Dep(e) \notin Done } \cup succs'
    BY <1>8 DEF Pending
  <2>2. Dep(f) \in Done
    BY <1>3 DEF Walked
  <2> QED
    BY <1>1, <1>2, <2>1, <2>2 DEF Pending
<1>10. PendingOf(succ)' = PendingOf(succ) \ {f}
  BY <1>8, <1>9 DEF PendingOf
<1>11. \A id \in Ids(nodes) \ {succ} : PendingOf(id)' = PendingOf(id)
  BY <1>4, <1>8, <1>9 DEF PendingOf
<1>12. f \in PendingOf(succ)
  BY <1>3, <1>4 DEF PendingOf, Pending
<1>13. IsFiniteSet(PendingOf(succ)) /\ Cardinality(PendingOf(succ)) \in Nat
  <2>1. PendingOf(succ) \in SUBSET Entries(nodes)
    BY <1>t DEF PendingOf, Pending
  <2>2. IsFiniteSet(PendingOf(succ))
    BY <1>0, <2>1, EntriesFinite, FS_Subset
  <2> QED
    BY <2>2, FS_CardinalityType
<1>14. Cardinality(PendingOf(succ) \ {f}) = Cardinality(PendingOf(succ)) - 1
  BY <1>12, <1>13, FS_RemoveElement
<1>15. inDeg[succ] # 0
  <2>1. PendingOf(succ) # {}
    BY <1>12
  <2>2. Cardinality(PendingOf(succ)) # 0
    BY <1>13, <2>1, FS_EmptySet
  <2> QED
    BY <1>5, <2>2 DEF Counted
<1>16. succ \notin Elems(q) /\ succ \notin Done
  BY <1>5, <1>15 DEF Ready
<1>17. Counted'
  <2>1. inDeg'[succ] = Cardinality(PendingOf(succ)')
    BY <1>5, <1>7, <1>10, <1>14 DEF Counted
  <2>2. \A id \in Ids(nodes) \ {succ} : inDeg'[id] = Cardinality(PendingOf(id)')
    BY <1>7, <1>11 DEF Counted
  <2> QED
    BY <1>8, <2>1, <2>2 DEF Counted
<1>18. Walked' /\ Sorted' /\ Decided'
  <2>1. Walked'
    BY <1>1, <1>8 DEF Walked
  <2>2. Sorted'
    BY <1>1, <1>8 DEF Sorted
  <2>3. verdict' = "none"
    BY <1>1 DEF Decided
  <2> QED
    BY <2>1, <2>2, <2>3 DEF Decided
<1>19. succs' \in SUBSET Entries(nodes)
  BY <1>1, <1>t
<1>20. CASE inDeg'[succ] = 0
  <2>1. q' = Append(q, succ)
    BY <1>6, <1>20
  <2>2. /\ q' \in Seq(Ids(nodes)) /\ Len(q) \in Nat
        /\ DOMAIN q = 1..Len(q) /\ DOMAIN q' = 1..(Len(q) + 1)
        /\ \A i \in 1..Len(q) : q'[i] = q[i]
        /\ q'[Len(q) + 1] = succ
    BY <1>5, <1>t, <2>1, AppendIs
  <2>3. TopoTypeOK'
    BY <1>0, <1>1, <1>7, <1>8, <1>19, <1>t, <2>2 DEF TopoTypeOK
  <2>4. Once'
    <3>1. \A i \in 1..Len(q) : q'[i] # succ
      BY <1>16, <2>2 DEF Elems
    <3>2. \A i, j \in 1..Len(q) : q'[i] = q'[j] => i = j
      BY <2>2 DEF Once
    <3>3. \A i, j \in DOMAIN q' : q'[i] = q'[j] => i = j
      BY <2>2, <3>1, <3>2
    <3>4. \A i \in DOMAIN q' : q'[i] \notin Done
      BY <1>16, <2>2 DEF Once
    <3> QED
      BY <1>1, <1>8, <3>3, <3>4 DEF Once
  <2>5. Elems(q)' = Elems(q) \cup {succ}
    <3>1. ASSUME NEW x \in Elems(q)' PROVE x \in Elems(q) \cup {succ}
      <4>1. PICK i \in DOMAIN q' : x = q'[i]
        BY <3>1 DEF Elems
      <4> QED
        BY <2>2, <4>1 DEF Elems
    <3>2. ASSUME NEW x \in Elems(q) PROVE x \in Elems(q)'
      <4>1. PICK i \in DOMAIN q : x = q[i]
        BY <3>2 DEF Elems
      <4>2. i \in DOMAIN q' /\ x = q'[i]
        BY <2>2, <4>1
      <4> QED
        BY <4>2 DEF Elems
    <3>3. succ \in Elems(q)'
      <4>1. Len(q) + 1 \in DOMAIN q' /\ q'[Len(q) + 1] = succ
        BY <2>2
      <4> QED
        BY <4>1 DEF Elems
    <3> QED
      BY <3>1, <3>2, <3>3
  <2>6. Ready'
    BY <1>7, <1>8, <1>20, <2>5 DEF Ready
  <2> QED
    BY <1>17, <1>18, <2>3, <2>4, <2>6
<1>21. CASE inDeg'[succ] # 0
  <2>1. q' = q
    BY <1>6, <1>21
  <2>2. TopoTypeOK'
    BY <1>0, <1>1, <1>7, <1>8, <1>19, <1>t, <2>1 DEF TopoTypeOK
  <2>3. Once'
    BY <1>1, <1>8, <2>1 DEF Once
  <2>4. Elems(q)' = Elems(q)
    BY <2>1
  <2>5. Ready'
    BY <1>7, <1>8, <1>16, <1>21, <2>4 DEF Ready
  <2> QED
    BY <1>17, <1>18, <2>2, <2>3, <2>5
<1> QED
  BY <1>20, <1>21

\* The length check only decides what the order is called.
LEMMA TopoReturnInv == TopoInv /\ TopoReturn => TopoInv'
<1> SUFFICES ASSUME TopoInv, TopoReturn PROVE TopoInv'
  OBVIOUS
<1>1. /\ q = << >> /\ succs = {}
      /\ nodes' = nodes /\ inDeg' = inDeg /\ q' = q /\ ordered' = ordered /\ succs' = succs
      /\ verdict' = IF Len(ordered) # Len(nodes) THEN "error" ELSE "ok"
  BY DEF TopoReturn
<1>2. Done' = Done
  BY <1>1 DEF Done
<1>3. \A e : Of(e)' = Of(e) /\ Dep(e)' = Dep(e)
  BY <1>1 DEF Of, Dep
<1>4. Pending' = Pending
  BY <1>1, <1>2, <1>3 DEF Pending
<1>5. \A id : PendingOf(id)' = PendingOf(id)
  BY <1>3, <1>4 DEF PendingOf
<1>6. TopoTypeOK' /\ Decided'
  BY <1>1 DEF TopoInv, TopoTypeOK, Decided
<1>7. Counted' /\ Walked'
  BY <1>1, <1>2, <1>3, <1>5 DEF TopoInv, Counted, Walked
<1>8. Once' /\ Ready' /\ Sorted'
  BY <1>1, <1>2 DEF TopoInv, Once, Ready, Sorted
<1> QED
  BY <1>6, <1>7, <1>8 DEF TopoInv

\* Steps of Run that are not TopoOrder's.
LEMMA TopoStutterInv == TopoInv /\ UNCHANGED topoVars => TopoInv'
BY DEF TopoInv, TopoTypeOK, Counted, Once, Ready, Walked, Sorted, Decided, Done, Of, Dep,
       Pending, PendingOf, topoVars

-----------------------------------------------------------------------------
(* What the invariant says of the verdict.                                 *)

\* The ordered ids are ids of the list, as many as the order is long.
LEMMA DoneIds ==
    ASSUME TopoInv
    PROVE  /\ Done \in SUBSET Ids(nodes) /\ Cardinality(Done) = Len(ordered)
           /\ Len(ordered) \in Nat /\ DOMAIN ordered = 1..Len(ordered)
<1> DEFINE f == [j \in 1..Len(ordered) |-> ordered[j].id]
<1>1. ordered \in Seq(Node) /\ Len(ordered) \in Nat /\ DOMAIN ordered = 1..Len(ordered)
  BY Vertices DEF TopoInv, TopoTypeOK
<1>2. Done \in SUBSET Ids(nodes)
  <2> SUFFICES ASSUME NEW j \in DOMAIN ordered PROVE ordered[j].id \in Ids(nodes)
    BY DEF Done
  <2>1. ordered[j] \in Elems(nodes)
    BY DEF TopoInv, Sorted
  <2> QED
    BY <2>1 DEF Elems, Ids
<1>3. f \in [1..Len(ordered) -> Done] /\ \A d \in Done : \E j \in 1..Len(ordered) : f[j] = d
  BY <1>1 DEF Done
<1>4. \A i, j \in 1..Len(ordered) : f[i] = f[j] => i = j
  BY <1>1 DEF TopoInv, Once
<1>5. f \in Bijection(1..Len(ordered), Done)
  BY <1>3, <1>4 DEF Bijection, Injection, Surjection, IsInjective
<1> HIDE DEF f
<1>6. ExistsBijection(1..Len(ordered), Done)
  BY <1>5 DEF ExistsBijection
<1> QED
  BY <1>1, <1>2, <1>6, FS_CountingElements

\* An order as long as the list holds every vertex, so no id repeats, and the
\* first of the ordered members of a set depends on none of the others.
LEMMA OkMeans ==
    ASSUME TopoInv, verdict = "ok"
    PROVE  IsTopoOrder(ordered, nodes) /\ TopoOK(nodes)
<1>0. nodes \in Seq(Node) /\ Len(ordered) = Len(nodes)
  BY ListTyped DEF TopoInv, TopoTypeOK, Decided
<1>1. /\ Done \in SUBSET Ids(nodes) /\ Cardinality(Done) = Len(nodes)
      /\ Len(ordered) \in Nat /\ DOMAIN ordered = 1..Len(ordered)
  BY <1>0, DoneIds
<1>2. /\ IsFiniteSet(Ids(nodes)) /\ Cardinality(Ids(nodes)) \in Nat
      /\ Cardinality(Ids(nodes)) <= Len(nodes)
      /\ Cardinality(Ids(nodes)) = Len(nodes) <=> UniqueIds(nodes)
  BY <1>0, IdsFinite
<1>3. /\ Cardinality(Done) <= Cardinality(Ids(nodes))
      /\ Cardinality(Ids(nodes)) = Cardinality(Done) => Ids(nodes) = Done
  BY <1>1, <1>2, FS_Subset
<1>4. Ids(nodes) = Done /\ UniqueIds(nodes)
  BY <1>0, <1>1, <1>2, <1>3
<1>5. \A j \in DOMAIN ordered :
          /\ \E i \in DOMAIN nodes : ordered[j] = nodes[i]
          /\ Deps(ordered[j]) \subseteq { ordered[k].id : k \in 1..(j - 1) }
  BY DEF TopoInv, Sorted, Elems
<1>6. ASSUME NEW i \in DOMAIN nodes PROVE \E j \in DOMAIN ordered : ordered[j] = nodes[i]
  <2>1. nodes[i].id \in Done
    BY <1>4 DEF Ids
  <2>2. PICK j \in DOMAIN ordered : ordered[j].id = nodes[i].id
    BY <2>1 DEF Done
  <2>3. PICK k \in DOMAIN nodes : ordered[j] = nodes[k]
    BY <1>5
  <2>4. k = i
    BY <1>4, <2>2, <2>3 DEF UniqueIds
  <2> QED
    BY <2>3, <2>4
<1>7. Elems(ordered) = Elems(nodes)
  BY <1>5, <1>6 DEF Elems
<1>8. IsTopoOrder(ordered, nodes)
  BY <1>0, <1>5, <1>7 DEF IsTopoOrder
<1>9. Resolved(nodes)
  <2> SUFFICES ASSUME NEW i \in DOMAIN nodes PROVE Deps(nodes[i]) \subseteq Done
    BY <1>4 DEF Resolved
  <2>1. PICK j \in DOMAIN ordered : ordered[j] = nodes[i]
    BY <1>6
  <2>2. \A k \in 1..(j - 1) : k \in DOMAIN ordered
    BY <1>1
  <2>3. { ordered[k].id : k \in 1..(j - 1) } \subseteq Done
    BY <2>2 DEF Done
  <2> QED
    BY <1>5, <2>1, <2>3
<1>10. Acyclic(nodes)
  <2> SUFFICES ASSUME NEW S \in SUBSET Ids(nodes), S # {}
               PROVE  \E i \in DOMAIN nodes : nodes[i].id \in S /\ Deps(nodes[i]) \cap S = {}
    BY DEF Acyclic
  <2> DEFINE J == { j \in DOMAIN ordered : ordered[j].id \in S }
  <2>1. J \in SUBSET Nat
    BY <1>1
  <2>2. J # {}
    BY <1>4 DEF Done
  <2>3. PICK j \in J : \A k \in J : j <= k
    BY <2>1, <2>2, LeastExists
  <2>4. \A k \in 1..(j - 1) : k \in DOMAIN ordered /\ ~(j <= k)
    BY <1>1, <2>1
  <2>5. \A k \in 1..(j - 1) : ordered[k].id \notin S
    BY <2>3, <2>4
  <2>6. Deps(ordered[j]) \cap S = {} /\ ordered[j].id \in S
    BY <1>5, <2>5
  <2>7. PICK i \in DOMAIN nodes : ordered[j] = nodes[i]
    BY <1>5
  <2> QED
    BY <2>6, <2>7
<1> QED
  BY <1>4, <1>8, <1>9, <1>10 DEF TopoOK

\* When the queue runs dry before the order is complete, the ids left out, if
\* they are distinct and resolved, all depend on one another.
LEMMA ErrorMeans ==
    ASSUME TopoInv, verdict = "error"
    PROVE  ~TopoOK(nodes)
<1> SUFFICES ASSUME TopoOK(nodes) PROVE FALSE
  OBVIOUS
<1>0. nodes \in Seq(Node) /\ Len(ordered) # Len(nodes) /\ q = << >> /\ succs = {}
  BY ListTyped DEF TopoInv, TopoTypeOK, Decided
<1>1. Done \in SUBSET Ids(nodes) /\ Cardinality(Done) = Len(ordered)
  BY DoneIds
<1>2. Cardinality(Ids(nodes)) = Len(nodes)
  BY <1>0, IdsFinite DEF TopoOK
<1> DEFINE S == Ids(nodes) \ Done
<1>3. S # {}
  <2> SUFFICES ASSUME S = {} PROVE FALSE
    OBVIOUS
  <2>1. Done = Ids(nodes)
    BY <1>1
  <2> QED
    BY <1>0, <1>1, <1>2, <2>1
<1>4. PICK i \in DOMAIN nodes : nodes[i].id \in S /\ Deps(nodes[i]) \cap S = {}
  BY <1>3 DEF TopoOK, Acyclic
<1>5. Deps(nodes[i]) \subseteq Done
  BY <1>4 DEF TopoOK, Resolved
<1>6. PendingOf(nodes[i].id) = {}
  <2> SUFFICES ASSUME NEW e \in Pending, Of(e) = nodes[i].id PROVE FALSE
    BY DEF PendingOf
  <2>1. e \in Entries(nodes) /\ Dep(e) \notin Done
    BY <1>0 DEF Pending
  <2>2. e[1] \in DOMAIN nodes /\ e[2] \in DOMAIN nodes[e[1]].dependsOn
    BY <2>1, EntryIs
  <2>3. e[1] = i
    BY <2>2 DEF TopoOK, UniqueIds, Of
  <2>4. Dep(e) \in Deps(nodes[i])
    BY <2>2, <2>3 DEF Dep, Deps, Elems
  <2> QED
    BY <1>5, <2>1, <2>4
<1>7. inDeg[nodes[i].id] = 0
  BY <1>4, <1>6, FS_EmptySet DEF TopoInv, Counted
<1>8. Elems(q) = {}
  BY <1>0 DEF Elems
<1> QED
  BY <1>4, <1>7, <1>8 DEF TopoInv, Ready

-----------------------------------------------------------------------------
(* Runner.Run keeps its invariant.                                         *)

\* The initial states.
LEMMA InitInv == Init => IInv
<1> SUFFICES ASSUME Init PROVE IInv
  OBVIOUS
<1>1. TopoInv
  BY TopoInitInv DEF Init
<1>2. /\ at = 1 /\ timings = << >> /\ prom = Stale /\ cancelled = FALSE /\ err = "none"
      /\ pc \in {"order", "append"}
  BY DEF Init
<1>3. << >> \in Seq(Timing)
  OBVIOUS
<1>4. prom \in [from : {"earlier run", "this run"}, steps : Seq(Timing)]
  BY <1>2, <1>3 DEF Stale
<1>5. RunTypeOK
  <2>1. at \in Nat \ {0}
    BY <1>2
  <2>2. timings \in Seq(Timing)
    BY <1>2, <1>3
  <2>3. cancelled \in BOOLEAN
    BY <1>2
  <2>4. pc \in RunAt
    BY <1>2 DEF RunAt
  <2> QED
    BY <1>2, <1>4, <2>1, <2>2, <2>3, <2>4 DEF RunTypeOK
<1>6. Progress /\ Ended /\ Exposition
  BY <1>2 DEF Progress, Ended, Exposition, Stale
<1> QED
  BY <1>1, <1>5, <1>6 DEF IInv

\* TopoOrder works before Run's loop starts.
LEMMA OrderStepInv == IInv /\ Order => IInv'
<1> SUFFICES ASSUME IInv, Order PROVE IInv'
  OBVIOUS
<1>1. TopoInv'
  BY DequeueInv, RelaxInv, TopoReturnInv DEF IInv, Order
<1>2. UNCHANGED <<at, timings, prom, cancelled, pc, err>>
  BY DEF Order
<1>3. verdict = "none"
  BY DEF IInv, TopoInv, Decided, Order, Dequeue, Relax, TopoReturn
<1>4. pc \in {"order", "append"}
  BY <1>3 DEF IInv, RunTypeOK, RunAt, Progress
<1>5. RunTypeOK'
  BY <1>2 DEF IInv, RunTypeOK
<1>6. Progress' /\ Exposition'
  BY <1>2, <1>4 DEF IInv, Progress, Exposition
<1>7. err = "none"
  BY <1>4 DEF IInv, Ended
<1>8. Ended'
  BY <1>2, <1>4, <1>7 DEF Ended
<1> QED
  BY <1>1, <1>5, <1>6, <1>8 DEF IInv

\* A sequence and its length.
LEMMA LenIs ==
    ASSUME NEW S, NEW s \in Seq(S)
    PROVE  Len(s) \in Nat /\ DOMAIN s = 1..Len(s)
OBVIOUS

\* The empty sequence.
LEMMA EmptyIs ==
    ASSUME NEW S
    PROVE  << >> \in Seq(S) /\ Len(<< >>) = 0 /\ DOMAIN << >> = {}
OBVIOUS

\* The first n elements of a sequence.
LEMMA SubSeqIs ==
    ASSUME NEW S, NEW s \in Seq(S), NEW n \in 0..Len(s)
    PROVE  /\ SubSeq(s, 1, n) \in Seq(S) /\ Len(SubSeq(s, 1, n)) = n
           /\ DOMAIN SubSeq(s, 1, n) = 1..n
           /\ \A k \in 1..n : SubSeq(s, 1, n)[k] = s[k]
OBVIOUS

\* Two sequences of one length with the same elements are one.
LEMMA SameSeq ==
    ASSUME NEW S, NEW s \in Seq(S), NEW t \in Seq(S),
           Len(s) = Len(t), \A k \in DOMAIN s : s[k] = t[k]
    PROVE  s = t
OBVIOUS

\* While the loop is running nothing has been returned, and the file is not of
\* this run.
LEMMA LoopStep ==
    ASSUME IInv, UNCHANGED topoVars, pc \in {"order", "ctx", "place", "exec"}
    PROVE  /\ TopoInv' /\ ordered' = ordered /\ verdict' = verdict
           /\ prom.from # "this run" /\ err = "none"
<1>1. TopoInv'
  BY TopoStutterInv DEF IInv
<1> QED
  BY <1>1 DEF IInv, Exposition, Ended, topoVars

\* TopoOrder has returned to Run.
LEMMA OrderedInv == IInv /\ Ordered => IInv'
<1> SUFFICES ASSUME IInv, Ordered PROVE IInv'
  OBVIOUS
<1>1. UNCHANGED topoVars /\ UNCHANGED <<at, timings, prom, cancelled>> /\ pc = "order"
  BY DEF Ordered
<1>2. /\ TopoInv' /\ ordered' = ordered /\ verdict' = verdict
      /\ prom.from # "this run" /\ err = "none"
  BY <1>1, LoopStep
<1>3. \/ verdict = "error" /\ pc' = "returned" /\ err' = "cycle"
      \/ verdict = "ok" /\ pc' = "ctx" /\ err' = err
  BY DEF Ordered, Return
<1>4. RunTypeOK'
  BY <1>1, <1>3 DEF IInv, RunTypeOK, RunAt
<1>5. at = 1 /\ timings = << >> /\ Len(ordered) \in Nat
  BY <1>1, DoneIds DEF IInv, Progress
<1>6. Progress'
  <2>0. Len(<< >>) = 0 /\ DOMAIN << >> = {}
    OBVIOUS
  <2>1. at' = 1 /\ Len(timings') = 0 /\ DOMAIN timings' = {} /\ Len(ordered') \in Nat
    BY <1>1, <1>2, <1>5, <2>0
  <2>2. Succeeded(at - 1)'
    BY <2>1 DEF Succeeded
  <2>3. at' <= Len(ordered') + 1
    BY <2>1
  <2>4. CASE pc' = "returned" /\ verdict = "error"
    BY <1>2, <2>4 DEF Progress
  <2>5. CASE pc' = "ctx" /\ verdict = "ok"
    BY <1>2, <2>2, <2>3, <2>5 DEF Progress
  <2> QED
    BY <1>3, <2>4, <2>5
<1>7. Ended' /\ Exposition'
  BY <1>1, <1>2, <1>3 DEF Ended, Exposition
<1> QED
  BY <1>2, <1>4, <1>6, <1>7 DEF IInv

\* The loop goes on to a vertex, or is left by a return.
LEMMA LoopInv == IInv /\ (CheckCtx \/ Place) => IInv'
<1> SUFFICES ASSUME IInv, CheckCtx \/ Place PROVE IInv'
  OBVIOUS
<1>1. /\ UNCHANGED topoVars /\ UNCHANGED <<at, timings, prom, cancelled>>
      /\ pc \in {"ctx", "place"}
      /\ \/ pc' \in {"place", "exec"} /\ err' = err
         \/ pc' = "returned" /\ err' \in {"ctx", "select", "command"}
  BY DEF CheckCtx, Place, Return
<1>2. /\ TopoInv' /\ ordered' = ordered /\ verdict' = verdict
      /\ prom.from # "this run" /\ err = "none"
  BY <1>1, LoopStep
<1>3. at <= Len(ordered)
  BY DEF CheckCtx, Place, order, IInv, Progress
<1>4. RunTypeOK'
  BY <1>1 DEF IInv, RunTypeOK, RunAt
<1>5. Progress'
  BY <1>1, <1>2, <1>3 DEF IInv, Progress, Succeeded
<1>6. Ended' /\ Exposition'
  BY <1>1, <1>2 DEF Ended, Exposition
<1> QED
  BY <1>2, <1>4, <1>5, <1>6 DEF IInv

\* A command that has been executed adds its timing to those of the vertices
\* before it.
LEMMA RecordIs ==
    ASSUME IInv, pc = "exec", NEW code \in ExitCode, Record(code)
    PROVE  /\ at \in Nat \ {0} /\ at <= Len(ordered) /\ Len(ordered) \in Nat /\ verdict = "ok"
           /\ timings' \in Seq(Timing)
           /\ DOMAIN timings = 1..(at - 1) /\ DOMAIN timings' = 1..at /\ Len(timings') = at
           /\ \A k \in DOMAIN timings :
                 timings'[k] = timings[k] /\ timings[k] = [id |-> ordered[k].id, exit |-> 0]
           /\ timings'[at] = [id |-> ordered[at].id, exit |-> code]
<1> DEFINE step == [id |-> ordered[at].id, exit |-> code]
<1>1. /\ verdict = "ok" /\ Len(timings) = at - 1 /\ at <= Len(ordered)
      /\ Len(ordered) \in Nat /\ at \in Nat \ {0}
      /\ \A k \in DOMAIN timings : timings[k] = [id |-> ordered[k].id, exit |-> 0]
  BY DoneIds DEF IInv, Progress, Succeeded, RunTypeOK
<1>2. at \in DOMAIN ordered /\ ordered \in Seq(Node)
  BY <1>1, DoneIds DEF IInv, TopoInv, TopoTypeOK
<1>3. ordered[at].id \in NodeId
  BY <1>2, Vertices
<1>4. step \in Timing
  BY <1>3 DEF Timing
<1>5. timings \in Seq(Timing) /\ timings' = Append(timings, step)
  BY DEF IInv, RunTypeOK, Record, order
<1> HIDE DEF step
<1>6. /\ timings' \in Seq(Timing) /\ DOMAIN timings = 1..(at - 1)
      /\ DOMAIN timings' = 1..at /\ Len(timings') = at
      /\ \A k \in DOMAIN timings : timings'[k] = timings[k]
      /\ timings'[at] = step
  BY <1>1, <1>4, <1>5, AppendIs
<1> QED
  BY <1>1, <1>6 DEF step

\* A vertex has succeeded.
LEMMA SucceedsInv == IInv /\ NodeSucceeds => IInv'
<1> SUFFICES ASSUME IInv, NodeSucceeds PROVE IInv'
  OBVIOUS
<1>1. /\ UNCHANGED topoVars /\ UNCHANGED <<prom, cancelled, err>>
      /\ pc = "exec" /\ pc' = "ctx" /\ at' = at + 1 /\ Record(0)
  BY DEF NodeSucceeds
<1>2. /\ TopoInv' /\ ordered' = ordered /\ verdict' = verdict
      /\ prom.from # "this run" /\ err = "none"
  BY <1>1, LoopStep
<1>3. /\ at \in Nat \ {0} /\ at <= Len(ordered) /\ Len(ordered) \in Nat /\ verdict = "ok"
      /\ timings' \in Seq(Timing)
      /\ DOMAIN timings = 1..(at - 1) /\ DOMAIN timings' = 1..at /\ Len(timings') = at
      /\ \A k \in DOMAIN timings :
            timings'[k] = timings[k] /\ timings[k] = [id |-> ordered[k].id, exit |-> 0]
      /\ timings'[at] = [id |-> ordered[at].id, exit |-> 0]
  BY <1>1, RecordIs DEF ExitCode
<1>4. RunTypeOK'
  <2>1. at' \in Nat \ {0}
    BY <1>1, <1>3
  <2> QED
    BY <1>1, <1>3, <2>1 DEF IInv, RunTypeOK, RunAt
<1>5. ASSUME NEW k \in DOMAIN timings'
      PROVE  timings'[k] = [id |-> ordered'[k].id, exit |-> 0]
  <2>1. CASE k = at
    BY <1>2, <1>3, <2>1
  <2>2. CASE k # at
    <3>1. k \in DOMAIN timings
      BY <1>3, <2>2
    <3> QED
      BY <1>2, <1>3, <3>1
  <2> QED
    BY <2>1, <2>2
<1>6. at' - 1 = at /\ Len(timings') = at /\ at' <= Len(ordered') + 1
  <2>1. at' = at + 1 /\ Len(ordered') = Len(ordered)
    BY <1>1, <1>2
  <2>2. at' - 1 = at
    BY <1>3, <2>1
  <2>3. at' <= Len(ordered') + 1
    BY <1>3, <2>1
  <2> QED
    BY <1>3, <2>2, <2>3
<1>7. Progress'
  BY <1>1, <1>2, <1>3, <1>5, <1>6 DEF Progress, Succeeded
<1>8. Ended' /\ Exposition'
  BY <1>1, <1>2 DEF Ended, Exposition
<1> QED
  BY <1>2, <1>4, <1>7, <1>8 DEF IInv

\* A vertex has failed.
LEMMA FailsInv ==
    ASSUME IInv, NEW code \in ExitCode \ {0}, NodeFails(code)
    PROVE  IInv'
<1>1. /\ UNCHANGED topoVars /\ UNCHANGED <<at, prom, cancelled>>
      /\ pc = "exec" /\ pc' = "open" /\ err' = "exit" /\ Record(code)
  BY DEF NodeFails
<1>2. /\ TopoInv' /\ ordered' = ordered /\ verdict' = verdict
      /\ prom.from # "this run" /\ err = "none"
  BY <1>1, LoopStep
<1>3. /\ at \in Nat \ {0} /\ at <= Len(ordered) /\ Len(ordered) \in Nat /\ verdict = "ok"
      /\ timings' \in Seq(Timing)
      /\ DOMAIN timings = 1..(at - 1) /\ DOMAIN timings' = 1..at /\ Len(timings') = at
      /\ \A k \in DOMAIN timings :
            timings'[k] = timings[k] /\ timings[k] = [id |-> ordered[k].id, exit |-> 0]
      /\ timings'[at] = [id |-> ordered[at].id, exit |-> code]
  BY <1>1, RecordIs
<1>4. RunTypeOK'
  BY <1>1, <1>3 DEF IInv, RunTypeOK, RunAt
<1>5. Progress' /\ Exposition'
  BY <1>1, <1>2, <1>3 DEF Progress, Exposition
<1>6. ASSUME NEW k \in DOMAIN timings', k < Len(timings')
      PROVE  timings'[k].exit = 0
  <2>1. k \in DOMAIN timings
    BY <1>3, <1>6
  <2>2. timings'[k] = [id |-> ordered[k].id, exit |-> 0]
    BY <1>3, <2>1
  <2> QED
    BY <2>2
<1>7. Ended'
  BY <1>1, <1>6 DEF Ended
<1> QED
  BY <1>2, <1>4, <1>5, <1>7 DEF IInv

\* Every vertex has been executed.
LEMMA LoopEndsInv == IInv /\ LoopEnds => IInv'
<1> SUFFICES ASSUME IInv, LoopEnds PROVE IInv'
  OBVIOUS
<1>1. /\ UNCHANGED topoVars /\ UNCHANGED <<at, timings, prom, cancelled>>
      /\ pc = "ctx" /\ pc' = "open" /\ err' = "nil" /\ at > Len(ordered)
  BY DEF LoopEnds, order
<1>2. /\ TopoInv' /\ ordered' = ordered /\ verdict' = verdict
      /\ prom.from # "this run" /\ err = "none"
  BY <1>1, LoopStep
<1>3. RunTypeOK'
  BY <1>1 DEF IInv, RunTypeOK, RunAt
<1>4. /\ verdict = "ok" /\ Succeeded(at - 1)
      /\ at <= Len(ordered) + 1 /\ at \in Nat /\ Len(ordered) \in Nat
  BY <1>1, DoneIds DEF IInv, Progress, RunTypeOK
<1>5. at - 1 = Len(ordered)
  BY <1>1, <1>4
<1>6. Succeeded(Len(ordered))'
  BY <1>1, <1>2, <1>4, <1>5 DEF Succeeded
<1>7. Progress' /\ Ended' /\ Exposition'
  BY <1>1, <1>2, <1>4, <1>6 DEF Progress, Ended, Exposition
<1> QED
  BY <1>2, <1>3, <1>7 DEF IInv

\* The text file is truncated, written in pieces, and given up or closed.
LEMMA PromInv == IInv /\ (OpenProm \/ WriteProm) => IInv'
<1> SUFFICES ASSUME IInv, OpenProm \/ WriteProm PROVE IInv'
  OBVIOUS
<1>1. UNCHANGED topoVars /\ UNCHANGED <<at, timings, cancelled>> /\ pc \in {"open", "write"}
  BY DEF OpenProm, WriteProm
<1>2. TopoInv' /\ ordered' = ordered /\ verdict' = verdict
  BY <1>1, TopoStutterInv DEF IInv, topoVars
<1>3. /\ timings \in Seq(Timing) /\ prom.steps \in Seq(Timing)
      /\ prom \in [from : {"earlier run", "this run"}, steps : Seq(Timing)]
      /\ err \in {"nil", "exit"} /\ verdict # "none"
  BY <1>1 DEF IInv, RunTypeOK, Ended, Progress
<1>4. Progress' /\ (err' \in {err, "prom"} /\ (err' = "prom" => err = "nil") => Ended')
  <2>1. pc' \in {"open", "write", "returned"}
    BY DEF OpenProm, WriteProm, WriteReturns, Return
  <2>2. pc' \in {"open", "write"} => err' = err
    BY DEF OpenProm, WriteProm, WriteReturns, Return
  <2>3. Succeeded(Len(ordered))' <=> Succeeded(Len(ordered))
    BY <1>1, <1>2 DEF Succeeded
  <2> QED
    BY <1>1, <1>2, <1>3, <2>1, <2>2, <2>3 DEF IInv, Progress, Ended
<1>5. CASE OpenProm
  <2>1. CASE WriteReturns(PromTextFile) /\ UNCHANGED prom
    <3>1. pc' = "returned" /\ prom' = prom /\ err' = IF PromTextFile /\ err = "nil" THEN "prom" ELSE err
      BY <2>1 DEF WriteReturns, Return
    <3>2. prom.from # "this run"
      BY <1>5 DEF OpenProm, IInv, Exposition
    <3>3. RunTypeOK' /\ Ended'
      BY <1>1, <1>3, <1>4, <3>1 DEF IInv, RunTypeOK, RunAt
    <3>4. Exposition'
      BY <3>1, <3>2 DEF Exposition
    <3> QED
      BY <1>2, <1>4, <3>3, <3>4 DEF IInv
  <2>2. CASE prom' = Exposed(<< >>) /\ pc' = "write" /\ UNCHANGED err
    <3>1. << >> \in Seq(Timing) /\ Len(<< >>) = 0 /\ DOMAIN << >> = {} /\ Len(timings) \in Nat
      BY <1>3, LenIs, EmptyIs
    <3>2. /\ prom'.from = "this run" /\ prom'.steps = << >>
          /\ prom' \in [from : {"earlier run", "this run"}, steps : Seq(Timing)]
      BY <2>2, <3>1 DEF Exposed
    <3>3. RunTypeOK' /\ Ended'
      BY <1>1, <1>3, <1>4, <2>2, <3>2 DEF IInv, RunTypeOK, RunAt
    <3>4. Len(prom'.steps) <= Len(timings') /\ DOMAIN prom'.steps = {}
      <4>1. Len(prom'.steps) = 0 /\ DOMAIN prom'.steps = {}
        BY <3>1, <3>2
      <4>2. Len(timings') \in Nat
        BY <1>1, <3>1
      <4> QED
        BY <4>1, <4>2
    <3>5. pc' = "write" /\ err' = err /\ prom'.from = "this run"
      BY <2>2, <3>2
    <3>6. Exposition'
      BY <1>3, <3>4, <3>5 DEF Exposition
    <3> QED
      BY <1>2, <1>4, <3>3, <3>6 DEF IInv
  <2> QED
    BY <1>5, <2>1, <2>2 DEF OpenProm
<1>6. CASE WriteProm
  <2>0. /\ pc = "write" /\ prom.from = "this run" /\ Len(prom.steps) <= Len(timings)
        /\ \A k \in DOMAIN prom.steps : prom.steps[k] = timings[k]
    BY <1>6 DEF WriteProm, IInv, Exposition
  <2>1. CASE /\ prom.steps # timings /\ UNCHANGED <<pc, err>>
             /\ prom' = Exposed(SubSeq(timings, 1, Len(prom.steps) + 1))
    <3>1. Len(prom.steps) # Len(timings)
      BY <1>3, <2>0, <2>1, SameSeq
    <3> DEFINE had == Len(prom.steps)
               all == Len(timings)
    <3>2. PICK n \in Nat : /\ n = Len(prom.steps) + 1
                             /\ n \in 0..Len(timings) /\ n <= Len(timings)
      <4>1. had \in Nat /\ all \in Nat
        BY <1>3, LenIs
      <4>2. had <= all /\ had # all
        BY <2>0, <3>1
      <4> HIDE DEF had, all
      <4>3. had + 1 \in Nat /\ had + 1 \in 0..all /\ had + 1 <= all
        BY <4>1, <4>2
      <4> QED
        BY <4>3 DEF had, all
    <3>3. PICK steps : steps = SubSeq(timings, 1, n)
      OBVIOUS
    <3>4. /\ steps \in Seq(Timing) /\ Len(steps) = n /\ DOMAIN steps = 1..n
          /\ \A k \in 1..n : steps[k] = timings[k]
      <4>1. timings \in Seq(Timing)
        BY <1>3
      <4> HIDE DEF had, all
      <4> QED
        BY <3>2, <3>3, <4>1, SubSeqIs
    <3>5. prom' = Exposed(steps) /\ pc' = "write" /\ err' = err
      BY <1>6, <2>1, <3>2, <3>3 DEF WriteProm
    <3>6. /\ prom'.from = "this run" /\ prom'.steps = steps
          /\ prom' \in [from : {"earlier run", "this run"}, steps : Seq(Timing)]
      BY <3>4, <3>5 DEF Exposed
    <3>7. RunTypeOK' /\ Ended'
      BY <1>1, <1>3, <1>4, <3>5, <3>6 DEF IInv, RunTypeOK, RunAt
    <3>8. Exposition'
      <4>1. Len(prom'.steps) <= Len(timings')
        <5>1. Len(prom'.steps) = n
          BY <3>4, <3>6
        <5>2. timings' = timings
          BY <1>1
        <5> QED
          BY <3>2, <5>1, <5>2
      <4>2. \A k \in DOMAIN prom'.steps : prom'.steps[k] = timings'[k]
        BY <1>1, <3>4, <3>6
      <4> QED
        BY <1>3, <3>5, <3>6, <4>1, <4>2 DEF Exposition
    <3> QED
      BY <1>2, <1>4, <3>7, <3>8 DEF IInv
  <2>2. ASSUME NEW failed \in BOOLEAN, failed \/ prom.steps = timings,
               WriteReturns(failed), UNCHANGED prom
        PROVE  IInv'
    <3>1. pc' = "returned" /\ prom' = prom /\ err' = IF failed /\ err = "nil" THEN "prom" ELSE err
      BY <2>2 DEF WriteReturns, Return
    <3>2. RunTypeOK' /\ Ended'
      BY <1>1, <1>3, <1>4, <3>1 DEF IInv, RunTypeOK, RunAt
    <3>3. err' = "nil" => prom' = Exposed(timings')
      <4>1. prom = [from |-> prom.from, steps |-> prom.steps]
        BY <1>3
      <4> QED
        BY <1>1, <1>3, <2>0, <2>2, <3>1, <4>1 DEF Exposed
    <3>4. Exposition'
      BY <1>1, <1>3, <2>0, <3>1, <3>3 DEF Exposition
    <3> QED
      BY <1>2, <1>4, <3>2, <3>4 DEF IInv
  <2> QED
    BY <1>6, <2>1, <2>2 DEF WriteProm
<1> QED
  BY <1>5, <1>6

\* Every step keeps the invariant.
LEMMA NextInv == IInv /\ [Next]_vars => IInv'
<1> SUFFICES ASSUME IInv, [Next]_vars PROVE IInv'
  OBVIOUS
<1>1. CASE Cancel \/ UNCHANGED vars
  <2>1. UNCHANGED topoVars /\ UNCHANGED <<at, timings, prom, pc, err>> /\ cancelled' \in BOOLEAN
    BY <1>1 DEF Cancel, vars, IInv, RunTypeOK
  <2>2. TopoInv'
    BY <2>1, TopoStutterInv DEF IInv
  <2>3. RunTypeOK'
    BY <2>1 DEF IInv, RunTypeOK
  <2>4. Progress' /\ Ended' /\ Exposition'
    BY <2>1 DEF IInv, Progress, Ended, Exposition, Succeeded, topoVars
  <2> QED
    BY <2>2, <2>3, <2>4 DEF IInv
<1> QED
  BY <1>1, OrderStepInv, OrderedInv, LoopInv, SucceedsInv, FailsInv, LoopEndsInv, PromInv
     DEF Next, RunStep

-----------------------------------------------------------------------------
(* The results.                                                            *)

\* The invariant holds of every behaviour; the weak fairness of Run is not
\* needed for it.
LEMMA Inductive == Spec => []IInv
BY InitInv, NextInv, PTL DEF Spec

\* What TopoOrder returns without an error is every vertex of the list, each
\* after all of its dependencies, for every list (graph.go:26-48).
THEOREM OrderSafety == Spec => []OrderIsTopological
<1>1. IInv => OrderIsTopological
  BY OkMeans DEF IInv, OrderIsTopological
<1> QED
  BY <1>1, Inductive, PTL

\* The length check at the end of TopoOrder reports an error on exactly the
\* lists with a repeated id, an unknown dependency or a cycle (graph.go:47).
THEOREM VerdictSafety == Spec => []ErrorMeansNotTopoOK
<1>1. IInv => ErrorMeansNotTopoOK
  BY OkMeans, ErrorMeans DEF IInv, ErrorMeansNotTopoOK
<1> QED
  BY <1>1, Inductive, PTL

\* No command of a pipeline of any size starts before all of its vertex's
\* dependencies have exited with code 0 (run.go:34-72).
THEOREM DependencySafety == Spec => []DepsSucceeded
<1>1. ASSUME IInv, pc = "exec", NEW d \in Deps(ordered[at])
      PROVE  \E k \in DOMAIN timings : timings[k] = [id |-> d, exit |-> 0]
  <2>1. /\ Len(timings) = at - 1 /\ at <= Len(ordered) /\ at \in Nat \ {0}
        /\ \A k \in DOMAIN timings : timings[k] = [id |-> ordered[k].id, exit |-> 0]
        /\ timings \in Seq(Timing)
    BY <1>1 DEF IInv, Progress, Succeeded, RunTypeOK
  <2>2. at \in DOMAIN ordered
    BY <1>1, <2>1, DoneIds DEF IInv
  <2>3. PICK k \in 1..(at - 1) : d = ordered[k].id
    BY <1>1, <2>2 DEF IInv, TopoInv, Sorted
  <2>4. k \in DOMAIN timings
    BY <2>1
  <2> QED
    BY <2>1, <2>3, <2>4
<1>2. IInv => DepsSucceeded
  BY <1>1 DEF DepsSucceeded, order
<1> QED
  BY <1>2, Inductive, PTL

\* What node_exporter scrapes of this run, at any moment and whichever write
\* fails, is a beginning of what happened, shows a failure only if Run returns
\* it, and is all of the steps if Run returns nil (run.go:34-79).
THEOREM ExpositionSafety == Spec => []PromTruthful
<1>1. ASSUME IInv, prom.from = "this run"
      PROVE  /\ pc \in {"write", "returned"} /\ err \in {"nil", "prom", "exit"}
             /\ IsPrefix(prom.steps, timings)
             /\ \A k \in DOMAIN prom.steps :
                   prom.steps[k].exit # 0 => err = "exit" /\ k = Len(timings)
  <2>1. /\ pc \in {"write", "returned"} /\ err \in {"nil", "prom", "exit"}
        /\ Len(prom.steps) <= Len(timings)
        /\ \A k \in DOMAIN prom.steps : prom.steps[k] = timings[k]
        /\ prom.steps \in Seq(Timing) /\ timings \in Seq(Timing)
    BY <1>1 DEF IInv, Exposition, RunTypeOK
  <2>2. SubSeq(prom.steps, 1, Len(prom.steps)) = SubSeq(timings, 1, Len(prom.steps))
    <3>1. Len(prom.steps) \in 0..Len(prom.steps) /\ Len(prom.steps) \in 0..Len(timings)
      BY <2>1
    <3> QED
      BY <2>1, <3>1, SubSeqIs, SameSeq
  <2>3. ASSUME NEW k \in DOMAIN prom.steps, prom.steps[k].exit # 0
        PROVE  err = "exit" /\ k = Len(timings)
    <3>1. k \in DOMAIN timings /\ timings[k].exit # 0 /\ k <= Len(timings) /\ k \in Nat
      BY <2>1, <2>3
    <3>2. err = "exit"
      <4>1. CASE err \in {"nil", "prom"}
        <5>1. timings[k] = [id |-> ordered[k].id, exit |-> 0]
          BY <1>1, <3>1, <4>1 DEF IInv, Ended, Succeeded
        <5> QED
          BY <3>1, <5>1
      <4> QED
        BY <2>1, <4>1
    <3>3. ~(k < Len(timings))
      BY <1>1, <3>1, <3>2 DEF IInv, Ended
    <3> QED
      BY <2>1, <3>1, <3>2, <3>3
  <2> QED
    BY <2>1, <2>2, <2>3 DEF IsPrefix
<1>2. ASSUME IInv, PromTextFile, pc = "returned", err = "nil"
      PROVE  /\ prom = Exposed(timings)
             /\ { timings[k].id : k \in DOMAIN timings } = Ids(nodes)
  <2>1. prom = Exposed(timings) /\ verdict = "ok" /\ Succeeded(Len(ordered))
    BY <1>2 DEF IInv, Exposition, Ended
  <2>2. /\ timings \in Seq(Timing) /\ DOMAIN ordered = 1..Len(ordered)
        /\ Done \in SUBSET Ids(nodes)
    BY <1>2, DoneIds DEF IInv, RunTypeOK
  <2>3. DOMAIN timings = DOMAIN ordered /\ \A k \in DOMAIN timings : timings[k].id = ordered[k].id
    BY <2>1, <2>2 DEF Succeeded
  <2>4. { timings[k].id : k \in DOMAIN timings } = Done
    BY <2>3 DEF Done
  <2>5. Elems(ordered) = Elems(nodes)
    BY <1>2, <2>1, OkMeans DEF IInv, IsTopoOrder
  <2>6. Ids(nodes) \subseteq Done
    BY <2>5 DEF Ids, Elems, Done
  <2> QED
    BY <2>1, <2>2, <2>4, <2>6
<1>3. IInv => PromTruthful
  BY <1>1, <1>2 DEF PromTruthful
<1> QED
  BY <1>3, Inductive, PTL

-----------------------------------------------------------------------------
(* Runner.Run implements the abstract service.                             *)

\* The runner was given a list that Validate accepted.
FromFile == pc # "append" => nodes \in Pipelines

\* The operators of the service are those of this module.
LEMMA SameOperators ==
    /\ Service!Node = Node
    /\ \A ns : /\ Service!UniqueIds(ns) = UniqueIds(ns)
               /\ Service!Resolved(ns) = Resolved(ns)
    /\ \A ns, done, run : Service!Ready(ns, done, run) =
           { n \in Elems(ns) : n.id \notin done /\ n.id \notin run /\ Deps(n) \subseteq done }
<1>1. Service!Node = Node
  BY DEF Service!Node, Node
<1>2. \A ns : Service!Elems(ns) = Elems(ns) /\ Service!Ids(ns) = Ids(ns)
  BY DEF Service!Elems, Elems, Service!Ids, Ids
<1>3. \A n : Service!Deps(n) = Deps(n)
  BY <1>2 DEF Service!Deps, Deps
<1>4. \A ns : Service!UniqueIds(ns) = UniqueIds(ns)
  BY DEF Service!UniqueIds, UniqueIds
<1>5. \A ns : Service!Resolved(ns) = Resolved(ns)
  BY <1>2, <1>3 DEF Service!Resolved, Resolved
<1>6. \A ns, done, run : Service!Ready(ns, done, run) =
          { n \in Elems(ns) : n.id \notin done /\ n.id \notin run /\ Deps(n) \subseteq done }
  BY <1>2, <1>3 DEF Service!Ready
<1> QED
  BY <1>1, <1>4, <1>5, <1>6

\* While the loop is running, the vertices before the one that it is at have
\* succeeded, and no others.
LEMMA SucceededIs ==
    ASSUME IInv, pc \in {"ctx", "place", "exec"}
    PROVE  succeeded = { ordered[k].id : k \in 1..(at - 1) }
<1>1. /\ timings \in Seq(Timing) /\ at \in Nat \ {0} /\ Len(timings) = at - 1
      /\ \A k \in DOMAIN timings : timings[k] = [id |-> ordered[k].id, exit |-> 0]
  BY DEF IInv, Progress, Succeeded, RunTypeOK
<1>2. DOMAIN timings = 1..(at - 1)
  BY <1>1
<1>3. \A k \in 1..(at - 1) : timings[k].id = ordered[k].id /\ timings[k].exit = 0
  BY <1>1, <1>2
<1> QED
  BY <1>2, <1>3 DEF succeeded

\* The vertex that the loop is at may be executed.
LEMMA NextIsReady ==
    ASSUME IInv, pc \in {"place", "exec"}
    PROVE  /\ order[at] \in Elems(nodes)
           /\ order[at].id \notin succeeded
           /\ Deps(order[at]) \subseteq succeeded
<1>1. at \in Nat \ {0} /\ at <= Len(ordered)
  BY DEF IInv, Progress, RunTypeOK
<1>2. ordered \in Seq(Node) /\ at \in DOMAIN ordered
  BY <1>1, DoneIds DEF IInv, TopoInv, TopoTypeOK
<1>3. succeeded = { ordered[k].id : k \in 1..(at - 1) }
  BY SucceededIs
<1>4. ordered[at] \in Elems(nodes) /\ Deps(ordered[at]) \subseteq { ordered[k].id : k \in 1..(at - 1) }
  BY <1>2 DEF IInv, TopoInv, Sorted
<1>5. ASSUME NEW k \in 1..(at - 1) PROVE ordered[k].id # ordered[at].id
  <2>1. k \in DOMAIN ordered /\ k # at
    BY <1>1, <1>2
  <2> QED
    BY <1>2, <2>1 DEF IInv, TopoInv, Once
<1> QED
  BY <1>3, <1>4, <1>5 DEF order

\* Every step of the runner is a step of the service or invisible to it: Place
\* starts a vertex, NodeSucceeds completes it, and what ends the loop stops.
LEMMA StepRefines ==
    ASSUME IInv, FromFile, [Next]_vars
    PROVE  FromFile' /\ [Service!Next]_(Service!vars)
<1>0. IInv'
  BY NextInv
<1>1. ASSUME UNCHANGED <<nodes, pc, timings, at, ordered>>
      PROVE  FromFile' /\ UNCHANGED <<pipeline, succeeded, executing, goesOn>>
  BY <1>1 DEF FromFile, pipeline, succeeded, executing, goesOn, order
<1>2. ASSUME UNCHANGED <<nodes, timings, at, ordered>>,
             pc \in {"order", "ctx", "place"}, pc' \in {"ctx", "place"}
      PROVE  FromFile' /\ UNCHANGED <<pipeline, succeeded, executing, goesOn>>
  BY <1>2 DEF FromFile, pipeline, succeeded, executing, goesOn
<1>3. ASSUME UNCHANGED <<nodes, timings>>, pc \in {"order", "ctx", "place"},
             pc' \in {"open", "returned"}
      PROVE  FromFile' /\ Service!Stop
  <2>1. UNCHANGED <<pipeline, succeeded>> /\ executing' = {}
    BY <1>3 DEF pipeline, succeeded, executing
  <2>2. goesOn /\ ~goesOn'
    BY <1>3 DEF goesOn
  <2> QED
    BY <1>3, <2>1, <2>2 DEF FromFile, Service!Stop
<1>4. CASE Order
  <2>1. UNCHANGED <<nodes, pc, timings, at>> /\ verdict = "none"
    BY <1>4 DEF Order, Dequeue, Relax, TopoReturn, IInv, TopoInv, Decided
  <2>2. pc \in {"order", "append"}
    BY <2>1 DEF IInv, RunTypeOK, RunAt, Progress
  <2>3. FromFile' /\ UNCHANGED <<pipeline, succeeded, executing, goesOn>>
    BY <2>1, <2>2 DEF FromFile, pipeline, succeeded, executing, goesOn
  <2> QED
    BY <2>3 DEF Service!vars
<1>5. CASE Ordered \/ CheckCtx \/ LoopEnds
  <2>1. /\ UNCHANGED <<nodes, timings, at, ordered>>
        /\ pc \in {"order", "ctx"} /\ pc' \in {"ctx", "place", "open", "returned"}
    BY <1>5 DEF Ordered, CheckCtx, LoopEnds, Return, topoVars
  <2> QED
    BY <1>2, <1>3, <2>1 DEF Service!vars, Service!Next
<1>6. CASE Place
  <2>1. /\ UNCHANGED <<nodes, timings, at, ordered>>
        /\ pc = "place" /\ pc' \in {"exec", "returned"}
    BY <1>6 DEF Place, Return, topoVars
  <2>2. CASE pc' = "exec"
    <3>1. FromFile' /\ UNCHANGED <<pipeline, succeeded, goesOn>>
      BY <2>1, <2>2 DEF FromFile, pipeline, succeeded, goesOn
    <3>2. goesOn /\ pipeline = nodes /\ executing = {} /\ executing' = {order[at].id}
      BY <2>1, <2>2 DEF pipeline, executing, goesOn, order
    <3>3. order[at] \in Service!Ready(pipeline, succeeded, executing)
      BY <2>1, <3>2, NextIsReady, SameOperators
    <3>4. Service!Start
      BY <3>1, <3>2, <3>3 DEF Service!Start
    <3> QED
      BY <3>1, <3>4 DEF Service!Next
  <2>3. CASE pc' = "returned"
    BY <1>3, <2>1, <2>3 DEF Service!Next
  <2> QED
    BY <2>1, <2>2, <2>3
<1>7. CASE NodeSucceeds
  <2>1. /\ UNCHANGED <<nodes, ordered>> /\ pc = "exec" /\ pc' = "ctx" /\ at' = at + 1
        /\ at \in Nat \ {0}
    BY <1>7 DEF NodeSucceeds, topoVars, IInv, RunTypeOK
  <2>2. FromFile' /\ UNCHANGED <<pipeline, goesOn>>
    BY <2>1 DEF FromFile, pipeline, goesOn
  <2>3. goesOn /\ executing = {ordered[at].id} /\ executing' = {}
    BY <2>1 DEF executing, goesOn, order
  <2>4. succeeded = { ordered[k].id : k \in 1..(at - 1) }
    BY <2>1, SucceededIs
  <2>5. succeeded' = { ordered'[k].id : k \in 1..(at' - 1) }
    <3>1. /\ timings' \in Seq(Timing) /\ Len(timings') = at' - 1
          /\ \A k \in DOMAIN timings' : timings'[k] = [id |-> ordered'[k].id, exit |-> 0]
      BY <1>0, <2>1 DEF IInv, Progress, Succeeded, RunTypeOK
    <3>2. DOMAIN timings' = 1..(at' - 1)
      BY <2>1, <3>1
    <3>3. ASSUME NEW k \in 1..(at' - 1) PROVE timings'[k].id = ordered'[k].id /\ timings'[k].exit = 0
      <4>1. timings'[k] = [id |-> ordered'[k].id, exit |-> 0]
        BY <3>1, <3>2
      <4> QED
        BY <4>1
    <3> QED
      BY <3>2, <3>3 DEF succeeded
  <2>6. succeeded' = succeeded \cup {ordered[at].id}
    <3>1. 1..(at' - 1) = 1..(at - 1) \cup {at}
      BY <2>1
    <3> QED
      BY <2>1, <2>4, <2>5, <3>1
  <2>7. Service!Complete
    BY <2>2, <2>3, <2>6 DEF Service!Complete
  <2> QED
    BY <2>2, <2>7 DEF Service!Next
<1>8. ASSUME NEW code \in ExitCode \ {0}, NodeFails(code)
      PROVE  FromFile' /\ Service!Stop
  <2>1. /\ UNCHANGED nodes /\ pc = "exec" /\ pc' = "open"
        /\ timings' = Append(timings, [id |-> ordered[at].id, exit |-> code])
        /\ timings \in Seq(Timing)
    BY <1>8 DEF NodeFails, Record, topoVars, order, IInv, RunTypeOK
  <2>2. /\ DOMAIN timings' = DOMAIN timings \cup {Len(timings) + 1}
        /\ \A k \in DOMAIN timings : timings'[k] = timings[k]
        /\ timings'[Len(timings) + 1].exit = code
        /\ code # 0
    BY <2>1
  <2>3. succeeded' = succeeded
    BY <2>2 DEF succeeded
  <2>4. UNCHANGED pipeline /\ executing' = {} /\ FromFile'
    BY <2>1 DEF pipeline, executing, FromFile
  <2>5. goesOn /\ ~goesOn'
    BY <2>1 DEF goesOn
  <2> QED
    BY <2>3, <2>4, <2>5 DEF Service!Stop
<1>9. CASE Cancel \/ UNCHANGED vars
  BY <1>1, <1>9 DEF Cancel, vars, topoVars, Service!vars
<1>10. CASE OpenProm \/ WriteProm
  <2>1. /\ UNCHANGED <<nodes, timings, at, ordered>>
        /\ pc \in {"open", "write"} /\ pc' \in {"open", "write", "returned"}
    BY <1>10 DEF OpenProm, WriteProm, WriteReturns, Return, topoVars
  <2>2. FromFile' /\ UNCHANGED <<pipeline, succeeded, executing, goesOn>>
    BY <2>1 DEF FromFile, pipeline, succeeded, executing, goesOn
  <2> QED
    BY <2>2 DEF Service!vars
<1> QED
  BY <1>4, <1>5, <1>6, <1>7, <1>8, <1>9, <1>10 DEF Next, RunStep, Service!Next

\* Runner.Run implements the service that the coordinator implements, for
\* pipelines of any size and every order that TopoOrder may choose
\* (run.go:34-79).
THEOREM Refinement == Spec => ImplementsService
<1>1. Init => FromFile /\ Service!Init
  <2> SUFFICES ASSUME Init PROVE FromFile /\ Service!Init
    OBVIOUS
  <2>1. /\ pc = IF nodes \in Pipelines THEN "order" ELSE "append"
        /\ timings = << >>
    BY DEF Init
  <2>2. FromFile
    BY <2>1 DEF FromFile
  <2>3. pipeline \in Seq(Node) /\ UniqueIds(pipeline) /\ Resolved(pipeline)
    <3>1. CASE nodes \in Pipelines
      BY <2>1, <3>1, PipelinesAssumption, InputsAssumption DEF pipeline, Validate
    <3>2. CASE nodes \notin Pipelines
      BY <2>1, <3>2 DEF pipeline, UniqueIds, Resolved
    <3> QED
      BY <3>1, <3>2
  <2>4. succeeded = {} /\ executing = {} /\ goesOn = TRUE
    BY <2>1 DEF succeeded, executing, goesOn
  <2> QED
    BY <2>2, <2>3, <2>4, SameOperators DEF Service!Init
<1>2. FromFile /\ IInv /\ [Next]_vars => FromFile' /\ [Service!Next]_(Service!vars)
  BY StepRefines
<1> QED
  BY <1>1, <1>2, Inductive, PTL DEF Spec, ImplementsService, Service!Spec
=============================================================================
