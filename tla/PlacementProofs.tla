--------------------------- MODULE PlacementProofs ---------------------------
(***************************************************************************)
(* What the topology commands and "nexusflow run" guarantee on every       *)
(* machine.  The n lowest CPUs of a list, and the first n of the walk over *)
(* the nodes, are n CPUs because the number of CPUs before each is an      *)
(* injection into an interval as large as the set.  Because Discover gives *)
(* a CPU its hardware node or none, whatever goes on- or offline           *)
(* meanwhile, memory bound to the one node of a selection is local to all  *)
(* of it.                                                                  *)
(*                                                                         *)
(* Both formatters have, before each turn, written the maximal intervals   *)
(* below the current one.  The walk over an hwloc document has, before     *)
(* each object, met exactly those that precede it, so it hands each PU its *)
(* own package and a core number of its own core.  The sockets of the      *)
(* hints are disjoint sets whose sizes add up.                             *)
(***************************************************************************)
EXTENDS Placement, FiniteSetTheorems, WellFoundedInduction, TLAPS

-----------------------------------------------------------------------------
(* The inductive invariant.                                                *)

\* The lists that the second pass reads are of the nodes' own CPUs.
PerNode(lists) ==
    \A n \in DOMAIN lists :
        n \in NumaId /\ lists[n] \in SUBSET Cpu /\ \A c \in lists[n] : Home[c] = n

\* What Discover has read of sysfs for "run".
Read ==
    /\ topo = [cpus |-> topo.cpus, nodes |-> topo.nodes]
    /\ pc \in {"map", "cpus"} => \A c \in Cpu : nodeOf[c] \in {-1, Home[c]}
    /\ \A c \in DOMAIN topo.cpus : topo.cpus[c].numa \in {-1, Home[c]}
    /\ pc = "cpus" => Cpu \ todo \subseteq DOMAIN topo.cpus
    /\ pc \in {"lists", "topology", "selected", "bound", "exec"} => Cpu \subseteq DOMAIN topo.cpus
    /\ PerNode(topo.nodes)

\* "run" reads sysfs, and what it has read is true of the hardware.
Source ==
    /\ online \in SUBSET Cpu
    /\ pc = "start" => topo = [cpus |-> << >>, nodes |-> << >>]
    /\ cmd = "run" => source = "sysfs" /\ pc # "hwloc" /\ Read

\* Where the selection stands.
Selected == {"selected", "bound", "exec"}

\* What SelectCPUs was asked and what it answered, and what was made of it.
Selection ==
    pc \in Selected \cup {"select cpus"} =>
        /\ cmd = "run"
        /\ want \in Nat /\ strategy \in {"same-numa", "other"}
        /\ sel = SelectCPUs(Cpu, topo.nodes, want, prefer, strategy)
        /\ sel.ok <=> pc # "select cpus"
        /\ pc \in {"bound", "exec"} => bind \in {PrimaryNUMANodeForCPUs(topo, sel.cpus), -1}
        /\ pc = "exec" => (bind # -1 => \A c \in allowed : Home[c] = bind)

IInv == Source /\ Selection

-----------------------------------------------------------------------------
(* Least elements, induction and loops.                                    *)

\* A set of natural numbers that is not empty has a least element.
LEMMA LeastExists ==
    ASSUME NEW S \in SUBSET Nat, S # {}
    PROVE  \E i \in S : \A j \in S : i <= j
<1>1. PICK i \in S : \A j \in S : ~(<<j, i>> \in OpToRel(<, Nat))
  BY NatLessThanWellFounded, WFMin
<1>2. \A j \in S : ~(j < i)
  BY <1>1 DEF OpToRel
<1> QED
  BY <1>2

\* Induction up to N; a set takes the place of the predicate.
LEMMA UpTo ==
    ASSUME NEW N \in Nat, NEW S, 0 \in S, \A i \in 0..(N - 1) : i \in S => i + 1 \in S
    PROVE  \A i \in 0..N : i \in S
<1> DEFINE T == { i \in 0..N : i \notin S }
<1>1. SUFFICES ASSUME T # {} PROVE FALSE
  OBVIOUS
<1>2. T \in SUBSET Nat
  OBVIOUS
<1> HIDE DEF T
<1>3. PICK i \in T : \A j \in T : i <= j
  BY <1>1, <1>2, LeastExists
<1>4. i \in 0..N /\ i \notin S /\ i # 0
  BY <1>3 DEF T
<1>5. i - 1 \in 0..(N - 1) /\ ~(i <= i - 1)
  BY <1>4
<1>6. i - 1 \in S
  BY <1>3, <1>5 DEF T
<1> QED
  BY <1>4, <1>5, <1>6

\* The runs of a loop of N turns over the states A: a state before the first
\* turn and after each turn.
TurnsOf(N, A) == [(1..N) \X A -> A]
RunsOf(N, A, base, turn) ==
    { f \in [0..N -> A] : f[0] = base /\ \A i \in 1..N : f[i] = turn[<<i, f[i - 1]>>] }

\* A loop of N turns has a run.
LEMMA Loop ==
    ASSUME NEW N \in Nat, NEW A, NEW base \in A, NEW turn \in TurnsOf(N, A)
    PROVE  RunsOf(N, A, base, turn) # {}
<1>0. turn \in [(1..N) \X A -> A]
  BY DEF TurnsOf
<1> DEFINE Runs(f, n) == f[0] = base /\ \A i \in 1..n : f[i] = turn[<<i, f[i - 1]>>]
           S == { n \in 0..N : \E f \in [0..n -> A] : Runs(f, n) }
<1>1. 0 \in S
  <2> DEFINE f == [i \in 0..0 |-> base]
  <2>1. f \in [0..0 -> A] /\ Runs(f, 0)
    OBVIOUS
  <2> HIDE DEF f, Runs
  <2>2. (\E h \in [0..0 -> A] : Runs(h, 0)) /\ 0 \in 0..N
    BY <2>1
  <2> QED
    BY <2>2
<1>2. ASSUME NEW n \in 0..(N - 1), n \in S PROVE n + 1 \in S
  <2>1. PICK f \in [0..n -> A] : Runs(f, n)
    BY <1>2
  <2> DEFINE g == [i \in 0..(n + 1) |-> IF i = n + 1 THEN turn[<<n + 1, f[n]>>] ELSE f[i]]
  <2>2. turn[<<n + 1, f[n]>>] \in A
    <3>1. f[n] \in A /\ n + 1 \in 1..N
      OBVIOUS
    <3>2. <<n + 1, f[n]>> \in (1..N) \X A
      BY <3>1
    <3> QED
      BY <1>0, <3>2
  <2>3. g \in [0..(n + 1) -> A]
    <3>1. ASSUME NEW i \in 0..(n + 1), i # n + 1 PROVE i \in 0..n
      BY <3>1
    <3> QED
      BY <2>2, <3>1
  <2>4. g[0] = base /\ g[n + 1] = turn[<<n + 1, f[n]>>] /\ \A i \in 0..n : g[i] = f[i]
    BY <2>1
  <2>5. ASSUME NEW i \in 1..(n + 1) PROVE g[i] = turn[<<i, g[i - 1]>>]
    <3> HIDE DEF g
    <3>1. CASE i = n + 1
      <4>1. g[i - 1] = f[n]
        BY <2>4, <3>1
      <4> QED
        BY <2>4, <3>1, <4>1
    <3>2. CASE i # n + 1
      <4>1. i \in 1..n /\ i \in 0..n /\ i - 1 \in 0..n
        BY <3>2
      <4>2. g[i] = f[i] /\ g[i - 1] = f[i - 1]
        BY <2>4, <4>1
      <4>3. f[i] = turn[<<i, f[i - 1]>>]
        BY <2>1, <4>1
      <4> QED
        BY <4>2, <4>3
    <3> QED
      BY <3>1, <3>2
  <2> HIDE DEF g
  <2>6. Runs(g, n + 1)
    BY <2>4, <2>5
  <2> HIDE DEF Runs
  <2>7. \E h \in [0..(n + 1) -> A] : Runs(h, n + 1)
    BY <2>3, <2>6
  <2> QED
    BY <2>7
<1> HIDE DEF S
<1>3. N \in S
  BY <1>1, <1>2, UpTo
<1>4. \E f \in [0..N -> A] : Runs(f, N)
  BY <1>3 DEF S
<1> QED
  BY <1>4 DEF RunsOf

-----------------------------------------------------------------------------
(* Ranks.                                                                  *)

\* In a finite set whose members come one after another, P[x] being those
\* before x, the number of members before each is its rank.
LEMMA Ranks ==
    ASSUME NEW U, IsFiniteSet(U), NEW P \in [U -> SUBSET U],
           \A x \in U : x \notin P[x],
           \A x, y \in U : x # y => \/ x \in P[y] /\ P[x] \subseteq P[y]
                                    \/ y \in P[x] /\ P[y] \subseteq P[x]
    PROVE  /\ Cardinality(U) \in Nat
           /\ \A x \in U : Cardinality(P[x]) \in 0..(Cardinality(U) - 1)
           /\ \A x, y \in U : x \in P[y] => Cardinality(P[x]) < Cardinality(P[y])
           /\ \A x, y \in U : Cardinality(P[x]) = Cardinality(P[y]) => x = y
           /\ \A i \in 0..(Cardinality(U) - 1) : \E x \in U : Cardinality(P[x]) = i
<1> DEFINE r == [x \in U |-> Cardinality(P[x])]
           k == Cardinality(U)
<1>0. k \in Nat
  BY FS_CardinalityType
<1>1. \A x \in U : IsFiniteSet(P[x]) /\ Cardinality(P[x]) \in Nat
  <2> SUFFICES ASSUME NEW x \in U PROVE IsFiniteSet(P[x]) /\ Cardinality(P[x]) \in Nat
    OBVIOUS
  <2>1. P[x] \in SUBSET U
    OBVIOUS
  <2>2. IsFiniteSet(P[x])
    BY <2>1, FS_Subset
  <2> QED
    BY <2>2, FS_CardinalityType
<1>2. ASSUME NEW x \in U, NEW y \in U, x \in P[y], P[x] \subseteq P[y]
      PROVE  Cardinality(P[x]) < Cardinality(P[y])
  <2>1. IsFiniteSet(P[x] \cup {x}) /\ Cardinality(P[x] \cup {x}) = Cardinality(P[x]) + 1
    <3>1. x \notin P[x]
      OBVIOUS
    <3> QED
      BY <1>1, <3>1, FS_AddElement
  <2>2. P[x] \cup {x} \in SUBSET P[y]
    BY <1>2
  <2>3. Cardinality(P[x] \cup {x}) <= Cardinality(P[y])
    BY <1>1, <2>2, FS_Subset
  <2> QED
    BY <1>1, <2>1, <2>3
<1>3. \A x \in U : Cardinality(P[x]) \in 0..(k - 1)
  <2> SUFFICES ASSUME NEW x \in U PROVE Cardinality(P[x]) \in 0..(k - 1)
    OBVIOUS
  <2>1. IsFiniteSet(P[x] \cup {x}) /\ Cardinality(P[x] \cup {x}) = Cardinality(P[x]) + 1
    <3>1. x \notin P[x]
      OBVIOUS
    <3> QED
      BY <1>1, <3>1, FS_AddElement
  <2>2. P[x] \cup {x} \in SUBSET U
    OBVIOUS
  <2>3. Cardinality(P[x] \cup {x}) <= k
    BY <2>2, FS_Subset
  <2> QED
    BY <1>0, <1>1, <2>1, <2>3
<1>4. \A x, y \in U : Cardinality(P[x]) = Cardinality(P[y]) => x = y
  <2> SUFFICES ASSUME NEW x \in U, NEW y \in U, x # y
               PROVE  Cardinality(P[x]) # Cardinality(P[y])
    OBVIOUS
  <2>1. CASE x \in P[y] /\ P[x] \subseteq P[y]
    BY <1>1, <1>2, <2>1
  <2>2. CASE y \in P[x] /\ P[y] \subseteq P[x]
    BY <1>1, <1>2, <2>2
  <2> QED
    BY <2>1, <2>2
<1>5. r \in Injection(U, 0..(k - 1))
  BY <1>3, <1>4 DEF Injection, IsInjective
<1>6. IsFiniteSet(0..(k - 1)) /\ Cardinality(0..(k - 1)) = k
  <2> HIDE DEF k
  <2>1. 0 \in Int /\ k - 1 \in Int /\ (0 > k - 1 <=> k = 0) /\ k - 1 - 0 + 1 = k
    BY <1>0
  <2> QED
    BY <2>1, FS_Interval
<1>7. r \in Surjection(U, 0..(k - 1))
  <2> HIDE DEF r, k
  <2>1. Cardinality(U) = Cardinality(0..(k - 1))
    BY <1>6 DEF k
  <2> QED
    BY <1>5, <1>6, <2>1, FS_Injection
<1>8. ASSUME NEW i \in 0..(k - 1) PROVE \E x \in U : Cardinality(P[x]) = i
  <2>1. PICK x \in U : r[x] = i
    BY <1>7 DEF Surjection
  <2> QED
    BY <2>1
<1>9. ASSUME NEW x \in U, NEW y \in U, x \in P[y] PROVE Cardinality(P[x]) < Cardinality(P[y])
  <2>1. P[x] \subseteq P[y]
    BY <1>9
  <2> QED
    BY <1>2, <1>9, <2>1
<1> QED
  BY <1>0, <1>3, <1>4, <1>8, <1>9

\* Every rank below the size of the set is taken.
LEMMA RankTaken ==
    ASSUME NEW U, IsFiniteSet(U), NEW P \in [U -> SUBSET U],
           \A x \in U : x \notin P[x],
           \A x, y \in U : x # y => \/ x \in P[y] /\ P[x] \subseteq P[y]
                                    \/ y \in P[x] /\ P[y] \subseteq P[x]
    PROVE  [x \in U |-> Cardinality(P[x])] \in Surjection(U, 0..(Cardinality(U) - 1))
  BY Ranks DEF Surjection

\* There are n members with rank below n, or all of them when the set has
\* fewer than n.
LEMMA Ranked ==
    ASSUME NEW U, IsFiniteSet(U), NEW P \in [U -> SUBSET U], NEW n \in Nat,
           \A x \in U : x \notin P[x],
           \A x, y \in U : x # y => \/ x \in P[y] /\ P[x] \subseteq P[y]
                                    \/ y \in P[x] /\ P[y] \subseteq P[x]
    PROVE  LET F == { x \in U : Cardinality(P[x]) < n }
           IN  /\ IsFiniteSet(F)
               /\ n <= Cardinality(U) => Cardinality(F) = n
               /\ n > Cardinality(U) => F = U
<1> DEFINE k == Cardinality(U)
           F == { x \in U : Cardinality(P[x]) < n }
<1>0. k \in Nat
  BY FS_CardinalityType
<1>1. /\ \A x \in U : Cardinality(P[x]) \in 0..(k - 1)
      /\ \A x, y \in U : Cardinality(P[x]) = Cardinality(P[y]) => x = y
      /\ \A i \in 0..(k - 1) : \E x \in U : Cardinality(P[x]) = i
  BY Ranks
<1>8. IsFiniteSet(F)
  <2>1. F \in SUBSET U
    OBVIOUS
  <2> HIDE DEF F
  <2> QED
    BY <2>1, FS_Subset
<1>9. ASSUME n > k PROVE F = U
  BY <1>0, <1>1, <1>9
<1>10. ASSUME n <= k PROVE Cardinality(F) = n
  <2> DEFINE g == [x \in F |-> Cardinality(P[x])]
  <2>1. g \in [F -> 0..(n - 1)]
    BY <1>1
  <2>2. \A x, y \in F : g[x] = g[y] => x = y
    BY <1>1
  <2>3. ASSUME NEW i \in 0..(n - 1) PROVE \E x \in F : g[x] = i
    <3>1. i \in 0..(k - 1)
      BY <1>0, <1>10
    <3>2. PICK x \in U : Cardinality(P[x]) = i
      BY <1>1, <3>1
    <3>3. x \in F
      BY <3>2
    <3> QED
      BY <3>2, <3>3
  <2>4. g \in Bijection(F, 0..(n - 1))
    BY <2>1, <2>2, <2>3 DEF Bijection, Injection, Surjection, IsInjective
  <2> HIDE DEF g, F
  <2>5. ExistsBijection(F, 0..(n - 1))
    BY <2>4 DEF ExistsBijection
  <2>6. Cardinality(0..(n - 1)) = n
    BY FS_Interval
  <2> QED
    BY <1>8, <2>5, <2>6, FS_Bijection
<1> HIDE DEF F
<1>11. /\ IsFiniteSet(F)
       /\ n <= Cardinality(U) => Cardinality(F) = n
       /\ n > Cardinality(U) => F = U
  BY <1>8, <1>9, <1>10
<1> QED
  BY <1>11 DEF F

-----------------------------------------------------------------------------
(* What SelectCPUs returns.                                                *)

\* The first n ids of a sorted list are n ids of it.
LEMMA LowestIs ==
    ASSUME NEW S \in SUBSET Nat, IsFiniteSet(S), NEW n \in Nat
    PROVE  Lowest(S, n) \subseteq S /\ (n <= Cardinality(S) => Cardinality(Lowest(S, n)) = n)
<1> DEFINE P == [x \in S |-> { y \in S : y < x }]
           F == { x \in S : Cardinality(P[x]) < n }
<1>0. \A x \in S : \A y : y \in P[x] <=> y \in S /\ y < x
  OBVIOUS
<1>1. P \in [S -> SUBSET S] /\ \A x \in S : x \notin P[x]
  OBVIOUS
<1>2. ASSUME NEW x \in S, NEW y \in S, x # y
      PROVE  \/ x \in P[y] /\ P[x] \subseteq P[y]
             \/ y \in P[x] /\ P[y] \subseteq P[x]
  <2> HIDE DEF P
  <2>1. x \in Nat /\ y \in Nat
    OBVIOUS
  <2>2. ASSUME NEW u \in S, NEW v \in S, u < v PROVE u \in P[v] /\ P[u] \subseteq P[v]
    <3>1. ASSUME NEW z \in P[u] PROVE z \in P[v]
      <4>1. z \in S /\ z < u
        BY <1>0
      <4>2. z \in Nat /\ u \in Nat /\ v \in Nat
        BY <4>1
      <4>3. z < v
        BY <2>2, <4>1, <4>2
      <4> QED
        BY <1>0, <4>1, <4>3
    <3> QED
      BY <1>0, <2>2, <3>1
  <2>3. x < y \/ y < x
    BY <1>2, <2>1
  <2> QED
    BY <2>2, <2>3
<1>3. F = Lowest(S, n)
  BY DEF Lowest
<1>4. n <= Cardinality(S) => Cardinality(F) = n
  <2> HIDE DEF P
  <2> QED
    BY <1>1, <1>2, Ranked
<1> QED
  BY <1>3, <1>4 DEF Lowest

\* The walk over the nodes collects n CPUs, or all that are listed.
LEMMA SpillIs ==
    ASSUME NEW lists, PerNode(lists), NEW n \in Nat
    PROVE  LET U == UNION { lists[m] : m \in DOMAIN lists }
           IN  /\ IsFiniteSet(U) /\ Spill(lists, n) \subseteq U
               /\ n <= Cardinality(U) => Cardinality(Spill(lists, n)) = n
               /\ n > Cardinality(U) => Spill(lists, n) = U
<1> DEFINE U == UNION { lists[m] : m \in DOMAIN lists }
           P == [x \in U |-> Before(lists, Home[x], x)]
           F == { x \in U : Cardinality(P[x]) < n }
<1>1. U \in SUBSET Cpu
  BY DEF PerNode
<1>2. IsFiniteSet(U)
  BY <1>1, CpuAssumption, FS_Subset
<1>3. \A x \in U : x \in Nat /\ Home[x] \in DOMAIN lists /\ x \in lists[Home[x]] /\ Home[x] \in Nat
  BY CpuAssumption DEF PerNode
<1>4. \A x \in U : \A y : y \in P[x] <=>
          \/ y \in U /\ Home[y] < Home[x]
          \/ y \in U /\ Home[y] = Home[x] /\ y < x
  <2> SUFFICES ASSUME NEW x \in U, NEW y
               PROVE  y \in P[x] <=> \/ y \in U /\ Home[y] < Home[x]
                                     \/ y \in U /\ Home[y] = Home[x] /\ y < x
    OBVIOUS
  <2>0. P[x] = (UNION { lists[o] : o \in { o \in DOMAIN lists : o < Home[x] } })
                   \cup { z \in lists[Home[x]] : z < x }
    BY DEF Before
  <2>1. y \in P[x] <=> \/ \E o \in DOMAIN lists : o < Home[x] /\ y \in lists[o]
                       \/ y \in lists[Home[x]] /\ y < x
    <3> DEFINE A == UNION { lists[o] : o \in { o \in DOMAIN lists : o < Home[x] } }
               B == { z \in lists[Home[x]] : z < x }
    <3>1. y \in A <=> \E o \in DOMAIN lists : o < Home[x] /\ y \in lists[o]
      OBVIOUS
    <3>2. y \in B <=> y \in lists[Home[x]] /\ y < x
      OBVIOUS
    <3>3. P[x] = A \cup B
      BY <2>0
    <3> HIDE DEF A, B, P
    <3> QED
      BY <3>1, <3>2, <3>3
  <2> HIDE DEF P
  <2>2. ASSUME y \in U, Home[y] < Home[x] PROVE y \in P[x]
    BY <1>3, <2>1, <2>2
  <2>3. ASSUME y \in U, Home[y] = Home[x], y < x PROVE y \in P[x]
    BY <1>3, <2>1, <2>3
  <2>4. ASSUME y \in P[x]
        PROVE  y \in U /\ (Home[y] < Home[x] \/ (Home[y] = Home[x] /\ y < x))
    <3>1. CASE y \in lists[Home[x]] /\ y < x
      BY <1>3, <3>1 DEF PerNode
    <3>2. CASE \E o \in DOMAIN lists : o < Home[x] /\ y \in lists[o]
      BY <3>2 DEF PerNode
    <3> QED
      BY <2>1, <2>4, <3>1, <3>2
  <2> QED
    BY <2>2, <2>3, <2>4
<1>5. P \in [U -> SUBSET U] /\ \A x \in U : x \notin P[x]
  <2>1. \A x \in U : P[x] \in SUBSET U
    BY <1>4
  <2>2. \A x \in U : x \notin P[x]
    <3> HIDE DEF P, U
    <3> QED
      BY <1>3, <1>4
  <2> QED
    BY <2>1, <2>2
<1>6. ASSUME NEW x \in U, NEW y \in U, x # y
      PROVE  \/ x \in P[y] /\ P[x] \subseteq P[y]
             \/ y \in P[x] /\ P[y] \subseteq P[x]
  <2> HIDE DEF P, U
  <2>1. CASE Home[x] < Home[y] \/ (Home[x] = Home[y] /\ x < y)
    BY <1>3, <1>4, <2>1
  <2>2. CASE Home[y] < Home[x] \/ (Home[y] = Home[x] /\ y < x)
    BY <1>3, <1>4, <2>2
  <2> QED
    BY <1>3, <1>6, <2>1, <2>2
<1>7. F = Spill(lists, n)
  <2>1. \A m \in DOMAIN lists : \A x \in lists[m] : x \in U /\ Home[x] = m
    BY DEF PerNode
  <2>2. \A x \in U : P[x] = Before(lists, Home[x], x)
    OBVIOUS
  <2>3. ASSUME NEW x \in F PROVE x \in Spill(lists, n)
    <3>1. x \in lists[Home[x]] /\ Home[x] \in DOMAIN lists
      BY <1>3
    <3>2. Cardinality(Before(lists, Home[x], x)) < n
      BY <2>2
    <3> QED
      BY <3>1, <3>2 DEF Spill
  <2>4. ASSUME NEW x \in Spill(lists, n) PROVE x \in F
    <3>1. PICK m \in DOMAIN lists : x \in lists[m] /\ Cardinality(Before(lists, m, x)) < n
      BY DEF Spill
    <3> QED
      BY <2>1, <2>2, <3>1
  <2> HIDE DEF F
  <2> QED
    BY <2>3, <2>4
<1>8. /\ n <= Cardinality(U) => Cardinality(F) = n
      /\ n > Cardinality(U) => F = U
  <2> HIDE DEF P, U
  <2> QED
    BY <1>2, <1>5, <1>6, Ranked
<1>9. F \subseteq U
  OBVIOUS
<1> HIDE DEF F
<1> QED
  BY <1>2, <1>7, <1>8, <1>9

\* The best candidate exists, and no node that was listed is larger.
LEMMA BestIs ==
    ASSUME NEW lists, PerNode(lists), NEW n \in Nat, Fitting(lists, n) # {}
    PROVE  /\ Best(lists, n) \in DOMAIN lists
           /\ Cardinality(lists[Best(lists, n)]) >= n
           /\ \A o \in DOMAIN lists : Cardinality(lists[o]) <= Cardinality(lists[Best(lists, n)])
<1> DEFINE N == Cardinality(Cpu)
           size(m) == Cardinality(lists[m])
           fit == Fitting(lists, n)
           gaps == { N - size(m) : m \in fit }
<1>1. N \in Nat
  BY CpuAssumption, FS_CardinalityType
<1>2. \A m \in DOMAIN lists : m \in Nat /\ size(m) \in Nat /\ size(m) <= N
  <2> SUFFICES ASSUME NEW m \in DOMAIN lists PROVE m \in Nat /\ size(m) \in Nat /\ size(m) <= N
    OBVIOUS
  <2>1. m \in Nat /\ lists[m] \in SUBSET Cpu
    BY CpuAssumption DEF PerNode
  <2>2. IsFiniteSet(lists[m]) /\ size(m) <= N
    BY <2>1, CpuAssumption, FS_Subset
  <2> QED
    BY <2>1, <2>2, FS_CardinalityType
<1> HIDE DEF N, size
<1>3. fit \subseteq DOMAIN lists /\ fit # {} /\ \A m \in DOMAIN lists : m \in fit <=> size(m) >= n
  BY DEF Fitting, size
<1> HIDE DEF fit
<1>4. gaps \in SUBSET Nat /\ gaps # {}
  BY <1>1, <1>2, <1>3
<1>5. PICK g \in gaps : \A h \in gaps : g <= h
  BY <1>4, LeastExists
<1> DEFINE top == { m \in fit : N - size(m) = g }
<1>6. top \in SUBSET Nat /\ top # {}
  BY <1>2, <1>3, <1>5
<1>7. PICK b \in top : \A o \in top : b <= o
  BY <1>6, LeastExists
<1>8. \A o \in fit : N - size(b) <= N - size(o)
  BY <1>5, <1>7
<1>9. \A o \in fit : size(o) <= size(b)
  BY <1>1, <1>2, <1>3, <1>7, <1>8
<1>10. \A o \in fit : size(o) = size(b) => o \in top
  BY <1>7
<1>11. ASSUME NEW o \in fit \ {b} PROVE size(b) > size(o) \/ (size(b) = size(o) /\ b < o)
  <2> HIDE DEF top
  <2>1. b \in fit
    BY <1>7 DEF top
  <2> QED
    BY <1>2, <1>3, <1>7, <1>9, <1>10, <2>1
<1>12. b \in fit /\ \A o \in fit \ {b} : Better(lists, b, o)
  BY <1>7, <1>11 DEF Better, size
<1>13. PICK m : m = Best(lists, n)
  OBVIOUS
<1>14. m \in fit /\ \A o \in fit \ {m} : Better(lists, m, o)
  BY <1>12, <1>13 DEF Best, fit
<1>15. ASSUME NEW o \in DOMAIN lists PROVE size(o) <= size(m)
  <2>1. CASE o \notin fit
    BY <1>2, <1>3, <1>14, <2>1
  <2>2. CASE o \in fit \ {m}
    <3>1. size(m) > size(o) \/ size(m) = size(o)
      BY <1>14, <2>2 DEF Better, size
    <3> QED
      BY <1>2, <1>3, <1>14, <3>1
  <2>3. CASE o = m
    BY <1>2, <1>3, <1>14, <2>3
  <2> QED
    BY <2>1, <2>2, <2>3
<1> QED
  BY <1>3, <1>13, <1>14, <1>15 DEF size

\* What SelectCPUs promises of the CPUs it returns.
Promised(lists, n, node, cpus) ==
    /\ Cardinality(cpus) = n
    /\ IF node # NoPrefer THEN cpus \subseteq CPUsOnNode(lists, node)
       ELSE (\E m \in DOMAIN lists : Cardinality(lists[m]) >= n) =>
            \E m \in DOMAIN lists :
                /\ cpus \subseteq lists[m]
                /\ \A o \in DOMAIN lists : Cardinality(lists[o]) <= Cardinality(lists[m])

\* Every way that SelectCPUs returns.
LEMMA SelectIs ==
    ASSUME NEW lists, PerNode(lists), NEW n \in Nat, NEW node,
           NEW strat \in {"same-numa", "other"}
    PROVE  LET s == SelectCPUs(Cpu, lists, n, node, strat)
           IN  /\ s.ok \in BOOLEAN
               /\ s.cpus \in SUBSET Cpu
               /\ (s.ok /\ n > 0 /\ n < Cardinality(Cpu) /\ DOMAIN lists # {}) =>
                      Promised(lists, n, node, s.cpus)
               /\ ~s.ok => \/ strat = "other"
                           \/ node # NoPrefer /\ Cardinality(CPUsOnNode(lists, node)) < n
                           \/ Cardinality(UNION { lists[m] : m \in DOMAIN lists }) < n
<1> DEFINE s == SelectCPUs(Cpu, lists, n, node, strat)
           U == UNION { lists[m] : m \in DOMAIN lists }
           Goal == /\ s.ok \in BOOLEAN
                   /\ s.cpus \in SUBSET Cpu
                   /\ (s.ok /\ n > 0 /\ n < Cardinality(Cpu) /\ DOMAIN lists # {}) =>
                          Promised(lists, n, node, s.cpus)
                   /\ ~s.ok => \/ strat = "other"
                               \/ node # NoPrefer /\ Cardinality(CPUsOnNode(lists, node)) < n
                               \/ Cardinality(U) < n
<1> SUFFICES Goal
  OBVIOUS
<1>0. Cardinality(Cpu) \in Nat
  BY CpuAssumption, FS_CardinalityType
<1>1. \A x : Chosen(x).ok = TRUE /\ Chosen(x).cpus = x
  BY DEF Chosen
<1>2. Refused.ok = FALSE /\ Refused.cpus = {}
  BY DEF Refused
<1>3. CASE n <= 0 \/ n >= Cardinality(Cpu)
  <2>1. s = Chosen(Cpu)
    BY <1>3 DEF SelectCPUs
  <2> HIDE DEF s
  <2>2. s.ok = TRUE /\ s.cpus = Cpu
    BY <1>1, <2>1
  <2>3. ~(n > 0 /\ n < Cardinality(Cpu))
    BY <1>0, <1>3
  <2> QED
    BY <2>2, <2>3
<1>4. CASE ~(n <= 0 \/ n >= Cardinality(Cpu)) /\ strat = "other"
  <2>1. s = Refused
    BY <1>4 DEF SelectCPUs
  <2> HIDE DEF s
  <2> QED
    BY <1>2, <1>4, <2>1
<1>5. CASE ~(n <= 0 \/ n >= Cardinality(Cpu)) /\ strat = "same-numa" /\ DOMAIN lists = {}
  <2>1. s = Chosen(Lowest(Cpu, n))
    BY <1>5 DEF SelectCPUs
  <2>2. Lowest(Cpu, n) \subseteq Cpu
    BY DEF Lowest
  <2> HIDE DEF s
  <2>3. s.ok = TRUE /\ s.cpus = Lowest(Cpu, n)
    BY <1>1, <2>1
  <2> QED
    BY <1>5, <2>2, <2>3
<1>6. CASE ~(n <= 0 \/ n >= Cardinality(Cpu)) /\ strat = "same-numa" /\ DOMAIN lists # {}
  <2>1. s = IF node # NoPrefer THEN Preferred(lists, node, n)
            ELSE IF Fitting(lists, n) # {} THEN Chosen(Lowest(lists[Best(lists, n)], n))
            ELSE IF Cardinality(Spill(lists, n)) < n THEN Refused
            ELSE Chosen(Spill(lists, n))
    BY <1>6 DEF SelectCPUs
  <2> HIDE DEF s
  <2>2. ASSUME NEW S \in SUBSET Cpu
        PROVE  /\ Cardinality(S) \in Nat /\ Lowest(S, n) \in SUBSET S
               /\ n <= Cardinality(S) => Cardinality(Lowest(S, n)) = n
    <3>1. IsFiniteSet(S) /\ S \in SUBSET Nat
      BY CpuAssumption, FS_Subset
    <3>2. Cardinality(S) \in Nat
      BY <3>1, FS_CardinalityType
    <3> QED
      BY <3>1, <3>2, LowestIs
  <2>3. CASE node # NoPrefer
    <3> DEFINE S == CPUsOnNode(lists, node)
    <3>1. S \in SUBSET Cpu
      BY DEF CPUsOnNode, PerNode
    <3>2. s = IF Cardinality(S) < n THEN Refused ELSE Chosen(Lowest(S, n))
      BY <2>1, <2>3 DEF Preferred
    <3> HIDE DEF S
    <3>3. CASE Cardinality(S) < n
      BY <1>2, <2>3, <3>2, <3>3 DEF S
    <3>4. CASE ~(Cardinality(S) < n)
      <4>1. s.ok = TRUE /\ s.cpus = Lowest(S, n)
        BY <1>1, <3>2, <3>4
      <4>2. Cardinality(s.cpus) = n /\ s.cpus \subseteq S /\ s.cpus \in SUBSET Cpu
        BY <2>2, <3>1, <3>4, <4>1
      <4>3. Promised(lists, n, node, s.cpus)
        BY <2>3, <4>2 DEF Promised, S
      <4> QED
        BY <4>1, <4>2, <4>3
    <3> QED
      BY <3>3, <3>4
  <2>4. CASE node = NoPrefer /\ Fitting(lists, n) # {}
    <3>1. PICK b : b = Best(lists, n)
      OBVIOUS
    <3>2. /\ b \in DOMAIN lists /\ Cardinality(lists[b]) >= n
          /\ \A o \in DOMAIN lists : Cardinality(lists[o]) <= Cardinality(lists[b])
      BY <2>4, <3>1, BestIs
    <3>3. s.ok = TRUE /\ s.cpus = Lowest(lists[b], n)
      BY <1>1, <2>1, <2>4, <3>1
    <3>4. lists[b] \in SUBSET Cpu
      BY <3>2 DEF PerNode
    <3>5. Cardinality(s.cpus) = n /\ s.cpus \subseteq lists[b] /\ s.cpus \in SUBSET Cpu
      BY <2>2, <3>2, <3>3, <3>4
    <3>6. Promised(lists, n, node, s.cpus)
      BY <2>4, <3>2, <3>5 DEF Promised
    <3> QED
      BY <3>3, <3>5, <3>6
  <2>5. CASE node = NoPrefer /\ Fitting(lists, n) = {}
    <3>1. /\ IsFiniteSet(U) /\ Spill(lists, n) \subseteq U
          /\ n <= Cardinality(U) => Cardinality(Spill(lists, n)) = n
          /\ n > Cardinality(U) => Spill(lists, n) = U
      BY SpillIs
    <3>2. U \in SUBSET Cpu
      BY DEF PerNode
    <3>3. Cardinality(U) \in Nat
      BY <3>1, FS_CardinalityType
    <3>4. ~ \E m \in DOMAIN lists : Cardinality(lists[m]) >= n
      BY <2>5 DEF Fitting
    <3> HIDE DEF U
    <3>5. CASE Cardinality(Spill(lists, n)) < n
      <4>1. s = Refused
        BY <2>1, <2>5, <3>5
      <4>2. Cardinality(U) < n
        BY <3>1, <3>3, <3>5
      <4> QED
        BY <1>2, <4>1, <4>2
    <3>6. CASE ~(Cardinality(Spill(lists, n)) < n)
      <4>1. s.ok = TRUE /\ s.cpus = Spill(lists, n)
        BY <1>1, <2>1, <2>5, <3>6
      <4>2. Cardinality(s.cpus) = n /\ s.cpus \in SUBSET Cpu
        BY <3>1, <3>2, <3>3, <3>6, <4>1
      <4>3. Promised(lists, n, node, s.cpus)
        BY <2>5, <3>4, <4>2 DEF Promised
      <4> QED
        BY <4>1, <4>2, <4>3
    <3> QED
      BY <3>5, <3>6
  <2> QED
    BY <2>3, <2>4, <2>5
<1> QED
  BY <1>3, <1>4, <1>5, <1>6

\* When PrimaryNUMANodeForCPUs names a node, every CPU is known to be on it.
LEMMA PrimaryIs ==
    ASSUME NEW t, NEW cpus \in SUBSET Cpu, PrimaryNUMANodeForCPUs(t, cpus) # -1
    PROVE  \A c \in cpus : t.cpus[c].numa = PrimaryNUMANodeForCPUs(t, cpus)
<1> DEFINE on == { t.cpus[c].numa : c \in cpus }
           f == [c \in cpus |-> t.cpus[c].numa]
<1>1. IsFiniteSet(cpus)
  BY CpuAssumption, FS_Subset
<1>2. f \in Surjection(cpus, on)
  BY DEF Surjection
<1>3. Cardinality(on) = 1 /\ PrimaryNUMANodeForCPUs(t, cpus) = CHOOSE n \in on : TRUE
  BY DEF PrimaryNUMANodeForCPUs
<1>4. \A c \in cpus : t.cpus[c].numa \in on
  OBVIOUS
<1> HIDE DEF on, f
<1>5. IsFiniteSet(on)
  BY <1>1, <1>2, FS_Surjection
<1>6. PICK x : on = {x}
  BY <1>3, <1>5, FS_Singleton
<1> QED
  BY <1>3, <1>4, <1>6

-----------------------------------------------------------------------------
(* Every step keeps the invariant.                                         *)

\* An empty topology says nothing false.
LEMMA EmptyRead ==
    ASSUME topo = [cpus |-> << >>, nodes |-> << >>]
    PROVE  /\ topo = [cpus |-> topo.cpus, nodes |-> topo.nodes]
           /\ DOMAIN topo.cpus = {} /\ DOMAIN topo.nodes = {}
<1>1. DOMAIN << >> = {}
  OBVIOUS
<1> QED
  BY <1>1

\* Nothing is known before the command is.
LEMMA InitInv == Init => IInv
<1> SUFFICES ASSUME Init PROVE IInv
  OBVIOUS
<1>1. /\ online \in SUBSET Cpu /\ cmd = "none" /\ pc = "start"
      /\ topo = [cpus |-> << >>, nodes |-> << >>]
  BY DEF Init
<1>2. Source
  BY <1>1 DEF Source
<1>3. Selection
  BY <1>1 DEF Selection, Selected
<1> QED
  BY <1>2, <1>3 DEF IInv

\* Steps that read nothing and do not touch what was read: the kernel's, and
\* those that only move on.
LEMMA QuietSource ==
    ASSUME Source, UNCHANGED <<cmd, source, nodeOf, topo>>, online' \in SUBSET Cpu,
           \/ pc' = pc /\ todo' = todo
           \/ /\ pc' \notin {"start", "map", "cpus", "lists", "topology", "hwloc"}
              /\ pc' \in Selected => pc \in Selected \cup {"topology"}
    PROVE  Source'
<1>1. pc' = "start" => topo' = [cpus |-> << >>, nodes |-> << >>]
  BY DEF Source
<1>2. ASSUME cmd' = "run" PROVE source' = "sysfs" /\ pc' # "hwloc" /\ Read'
  <2>1. source = "sysfs" /\ pc # "hwloc" /\ Read
    BY <1>2 DEF Source
  <2>2. PerNode(topo.nodes)'
    BY <2>1 DEF Read, PerNode
  <2> QED
    BY <2>1, <2>2 DEF Read, Selected
<1> QED
  BY <1>1, <1>2 DEF Source

\* Discover's steps, and those that start a command.
LEMMA DiscoverSource ==
    ASSUME Source,
           \/ \E S \in SUBSET (0..MaxCpu) : Format(S)
           \/ \E c \in {"run", "topology", "hints"}, s \in {"sysfs", "hwloc", "auto"} : Command(c, s)
           \/ Discovery
    PROVE  Source'
<1>0. online \in SUBSET Cpu
  BY DEF Source
<1>1. ASSUME NEW S, Format(S) PROVE Source'
  BY <1>0, <1>1 DEF Format, Source, kernel
<1>2. ASSUME NEW c, NEW s \in {"sysfs", "hwloc", "auto"}, Command(c, s) PROVE Source'
  <2>1. /\ pc = "start" /\ UNCHANGED <<online, nodeOf, topo>>
        /\ cmd' = c /\ source' = s /\ (c = "run" => s = "sysfs")
        /\ pc' = IF s = "hwloc" THEN "hwloc" ELSE "present"
    BY <1>2 DEF Command, kernel, discovery
  <2>2. topo = [cpus |-> << >>, nodes |-> << >>]
    BY <2>1 DEF Source
  <2>3. /\ topo = [cpus |-> topo.cpus, nodes |-> topo.nodes]
        /\ DOMAIN topo.cpus = {} /\ DOMAIN topo.nodes = {}
    BY <2>2, EmptyRead
  <2>4. PerNode(topo.nodes)'
    BY <2>1, <2>3 DEF PerNode
  <2>5. cmd' = "run" => pc' = "present"
    BY <2>1
  <2>6. cmd' = "run" => Read'
    BY <2>1, <2>3, <2>4, <2>5 DEF Read
  <2> QED
    BY <1>0, <2>1, <2>5, <2>6 DEF Source
<1>3. CASE PresentFails
  <2>1. /\ pc = "present" /\ UNCHANGED <<online, cmd, source, nodeOf, topo>>
        /\ pc' = IF source = "sysfs" THEN "no topology" ELSE "hwloc"
    BY <1>3 DEF PresentFails, kernel, command, discovery
  <2>2. CASE pc' = "no topology"
    BY <1>0, <2>1, <2>2, QuietSource DEF Selected
  <2>3. CASE pc' = "hwloc"
    <3>1. cmd # "run"
      BY <2>1, <2>3 DEF Source
    <3> QED
      BY <1>0, <2>1, <2>3, <3>1 DEF Source
  <2> QED
    BY <2>1, <2>2, <2>3
<1>4. CASE ReadPresent
  <2>1. /\ pc = "present" /\ pc' = "map" /\ UNCHANGED <<online, cmd, source, topo>>
        /\ nodeOf' = [c \in Cpu |-> -1]
    BY <1>4 DEF ReadPresent, kernel
  <2>2. ASSUME cmd' = "run" PROVE source' = "sysfs" /\ Read'
    <3>1. source = "sysfs" /\ Read
      BY <2>1, <2>2 DEF Source
    <3>2. PerNode(topo.nodes)'
      BY <2>1, <3>1 DEF Read, PerNode
    <3> QED
      BY <2>1, <3>1, <3>2 DEF Read
  <2> QED
    BY <1>0, <2>1, <2>2 DEF Source
<1>5. ASSUME NEW n \in NumaId, ReadForMap(n) PROVE Source'
  <2>1. /\ pc = "map" /\ pc' = pc /\ UNCHANGED <<online, cmd, source, topo>>
        /\ \/ nodeOf' = [c \in Cpu |-> IF c \in Listed(n) THEN n ELSE nodeOf[c]]
           \/ nodeOf' = nodeOf
    BY <1>5 DEF ReadForMap, kernel, command
  <2>2. ASSUME cmd' = "run" PROVE source' = "sysfs" /\ Read'
    <3>1. source = "sysfs" /\ Read
      BY <2>1, <2>2 DEF Source
    <3>2. PerNode(topo.nodes)'
      BY <2>1, <3>1 DEF Read, PerNode
    <3>3. ASSUME NEW c \in Cpu PROVE nodeOf'[c] \in {-1, Home[c]}
      <4>1. nodeOf[c] \in {-1, Home[c]}
        BY <2>1, <3>1 DEF Read
      <4>2. nodeOf'[c] = nodeOf[c] \/ (c \in Listed(n) /\ nodeOf'[c] = n)
        BY <2>1
      <4> QED
        BY <4>1, <4>2 DEF Listed
    <3> QED
      BY <2>1, <3>1, <3>2, <3>3 DEF Read
  <2> QED
    BY <1>0, <2>1, <2>2 DEF Source
<1>6. CASE MapDone \/ CpusDone \/ Discovered
  <2>1. /\ UNCHANGED <<online, cmd, source, topo>>
        /\ \/ pc = "map" /\ pc' = "cpus" /\ todo' = Cpu /\ nodeOf' = nodeOf
           \/ pc = "cpus" /\ todo = {} /\ pc' = "lists"
           \/ pc = "lists" /\ pc' = "topology"
    BY <1>6 DEF MapDone, CpusDone, Discovered, kernel, command, discovery
  <2>2. ASSUME cmd' = "run" PROVE source' = "sysfs" /\ Read'
    <3>1. source = "sysfs" /\ Read
      BY <2>1, <2>2 DEF Source
    <3>2. PerNode(topo.nodes)'
      BY <2>1, <3>1 DEF Read, PerNode
    <3>3. CASE pc = "map" /\ pc' = "cpus" /\ todo' = Cpu /\ nodeOf' = nodeOf
      BY <2>1, <3>1, <3>2, <3>3 DEF Read
    <3>4. CASE pc = "cpus" /\ todo = {} /\ pc' = "lists"
      BY <2>1, <3>1, <3>2, <3>4 DEF Read
    <3>5. CASE pc = "lists" /\ pc' = "topology"
      BY <2>1, <3>1, <3>2, <3>5 DEF Read
    <3> QED
      BY <2>1, <3>1, <3>3, <3>4, <3>5
  <2>3. pc' \notin {"start", "hwloc"}
    BY <2>1
  <2> QED
    BY <1>0, <2>1, <2>2, <2>3 DEF Source
<1>7. ASSUME NEW c \in Cpu, ReadPackage(c) PROVE Source'
  <2>1. UNCHANGED <<online, cmd, source, nodeOf, topo, pc, todo>>
    BY <1>7 DEF ReadPackage, kernel, command
  <2> QED
    BY <1>0, <2>1, QuietSource
<1>8. ASSUME NEW c \in Cpu, ReadCore(c) PROVE Source'
  <2> DEFINE rec == [pkg |-> pkgRead, numa |-> nodeOf[c], core |-> readIntFile(c, Core[c], c)]
  <2>1. /\ pc = "cpus" /\ pc' = pc /\ UNCHANGED <<online, cmd, source, nodeOf>>
        /\ todo' = todo \ {c}
        /\ topo' = [topo EXCEPT !.cpus = Entered(@, c, rec)]
    BY <1>8 DEF ReadCore, kernel, command
  <2>2. ASSUME cmd' = "run" PROVE source' = "sysfs" /\ Read'
    <3>1. source = "sysfs" /\ Read
      BY <2>1, <2>2 DEF Source
    <3>2. topo = [cpus |-> topo.cpus, nodes |-> topo.nodes]
      BY <3>1 DEF Read
    <3>3. rec.numa \in {-1, Home[c]}
      BY <2>1, <3>1 DEF Read
    <3> HIDE DEF rec
    <3>4. /\ topo'.cpus = Entered(topo.cpus, c, rec) /\ topo'.nodes = topo.nodes
          /\ topo' = [cpus |-> topo'.cpus, nodes |-> topo'.nodes]
      BY <2>1, <3>2
    <3>5. DOMAIN topo'.cpus = DOMAIN topo.cpus \cup {c}
      BY <3>4 DEF Entered
    <3>6. \A d \in DOMAIN topo'.cpus :
              topo'.cpus[d] = IF d = c THEN rec ELSE topo.cpus[d]
      BY <3>4, <3>5 DEF Entered
    <3>7. \A d \in DOMAIN topo'.cpus : topo'.cpus[d].numa \in {-1, Home[d]}
      BY <3>1, <3>3, <3>5, <3>6 DEF Read
    <3>8. PerNode(topo.nodes)'
      BY <3>1, <3>4 DEF Read, PerNode
    <3>9. Cpu \ todo' \subseteq DOMAIN topo'.cpus
      BY <2>1, <3>1, <3>5 DEF Read
    <3>10. \A d \in Cpu : nodeOf'[d] \in {-1, Home[d]}
      BY <2>1, <3>1 DEF Read
    <3> QED
      BY <2>1, <3>1, <3>4, <3>7, <3>8, <3>9, <3>10 DEF Read
  <2> QED
    BY <1>0, <2>1, <2>2 DEF Source
<1>9. ASSUME NEW n \in NumaId, ReadForList(n) PROVE Source'
  <2>1. /\ pc = "lists" /\ pc' = pc /\ UNCHANGED <<online, cmd, source, nodeOf>>
        /\ \/ topo' = [topo EXCEPT !.nodes = Entered(@, n, Listed(n))]
           \/ topo' = topo
    BY <1>9 DEF ReadForList, kernel, command
  <2>2. ASSUME cmd' = "run" PROVE source' = "sysfs" /\ Read'
    <3>1. source = "sysfs" /\ Read
      BY <2>1, <2>2 DEF Source
    <3>2. topo = [cpus |-> topo.cpus, nodes |-> topo.nodes] /\ PerNode(topo.nodes)
      BY <3>1 DEF Read
    <3>3. CASE topo' = topo
      <4>1. PerNode(topo.nodes)'
        BY <3>2, <3>3 DEF PerNode
      <4> QED
        BY <2>1, <3>1, <3>3, <4>1 DEF Read
    <3>4. CASE topo' = [topo EXCEPT !.nodes = Entered(@, n, Listed(n))]
      <4>1. /\ topo'.nodes = Entered(topo.nodes, n, Listed(n)) /\ topo'.cpus = topo.cpus
            /\ topo' = [cpus |-> topo'.cpus, nodes |-> topo'.nodes]
        BY <3>2, <3>4
      <4>2. DOMAIN topo'.nodes = DOMAIN topo.nodes \cup {n}
        BY <4>1 DEF Entered
      <4>3. \A m \in DOMAIN topo'.nodes :
                topo'.nodes[m] = IF m = n THEN Listed(n) ELSE topo.nodes[m]
        BY <4>1, <4>2 DEF Entered
      <4>4. Listed(n) \in SUBSET Cpu /\ \A c \in Listed(n) : Home[c] = n
        BY <1>0 DEF Listed
      <4>5. ASSUME NEW m \in DOMAIN topo'.nodes
            PROVE  /\ m \in NumaId /\ topo'.nodes[m] \in SUBSET Cpu
                   /\ \A c \in topo'.nodes[m] : Home[c] = m
        <5>1. CASE m # n
          BY <3>2, <4>2, <4>3, <5>1 DEF PerNode
        <5>2. CASE m = n
          BY <4>3, <4>4, <5>2
        <5> QED
          BY <5>1, <5>2
      <4>6. PerNode(topo.nodes)'
        BY <4>5 DEF PerNode
      <4> QED
        BY <2>1, <3>1, <4>1, <4>6 DEF Read
    <3> QED
      BY <2>1, <3>1, <3>3, <3>4
  <2> QED
    BY <1>0, <2>1, <2>2 DEF Source
<1>10. CASE HwlocFails \/ DiscoverCLI
  <2>1. /\ pc = "hwloc" /\ pc' \in {"no topology", "topology"} /\ UNCHANGED <<online, cmd, source>>
    BY <1>10 DEF HwlocFails, DiscoverCLI, kernel, command
  <2>2. cmd # "run"
    BY <2>1 DEF Source
  <2> QED
    BY <1>0, <2>1, <2>2 DEF Source
<1> QED
  BY <1>1, <1>2, <1>3, <1>4, <1>5, <1>6, <1>7, <1>8, <1>9, <1>10 DEF Discovery

\* The remaining steps do not touch the topology.
LEMMA NextSource == Source /\ [Next]_vars => Source'
<1> SUFFICES ASSUME Source, [Next]_vars PROVE Source'
  OBVIOUS
<1>0. online \in SUBSET Cpu
  BY DEF Source
<1>1. CASE \/ \E S \in SUBSET (0..MaxCpu) : Format(S)
           \/ \E c \in {"run", "topology", "hints"}, s \in {"sysfs", "hwloc", "auto"} : Command(c, s)
           \/ Discovery
  BY <1>1, DiscoverSource
<1>2. CASE topologyCmd \/ topologyHintsCmd
  <2>1. UNCHANGED <<online, cmd, source, nodeOf, topo>> /\ pc' = "done"
    BY <1>2 DEF topologyCmd, topologyHintsCmd, kernel, command, discovery
  <2> QED
    BY <1>0, <2>1, QuietSource DEF Selected
<1>3. ASSUME NEW n, NEW node, NEW strat, Select(n, node, strat) PROVE Source'
  <2>1. /\ UNCHANGED <<online, cmd, source, nodeOf, topo>>
        /\ pc = "topology" /\ pc' \in {"selected", "select cpus"}
    BY <1>3 DEF Select, kernel, command, discovery
  <2> QED
    BY <1>0, <2>1, QuietSource DEF Selected
<1>4. CASE BadPriority \/ Bind \/ RunFails \/ Run
  <2>1. /\ UNCHANGED <<online, cmd, source, nodeOf, topo>>
        /\ pc \in Selected /\ pc' \in {"bad priority", "bound", "run failed", "exec"}
    BY <1>4 DEF BadPriority, Bind, RunFails, Run, kernel, command, discovery, Selected
  <2> QED
    BY <1>0, <2>1, QuietSource DEF Selected
<1>5. ASSUME NEW c \in Cpu, Hotplug(c) PROVE Source'
  <2>1. UNCHANGED <<cmd, source, nodeOf, topo, pc, todo>> /\ online' \in SUBSET Cpu
    BY <1>0, <1>5 DEF Hotplug, command, discovery
  <2> QED
    BY <2>1, QuietSource
<1>6. CASE UNCHANGED vars
  <2>1. UNCHANGED <<online, cmd, source, nodeOf, topo, pc, todo>>
    BY <1>6 DEF vars, kernel, command, discovery
  <2> QED
    BY <1>0, <2>1, QuietSource
<1> QED
  BY <1>1, <1>2, <1>3, <1>4, <1>5, <1>6 DEF Next

\* SelectCPUs works on the lists that Discover has read for "run".
LEMMA NextSelection == IInv /\ [Next]_vars => Selection'
<1> SUFFICES ASSUME IInv, [Next]_vars PROVE Selection'
  OBVIOUS
<1> DEFINE Asked == Selected \cup {"select cpus"}
<1>0. Source /\ Selection
  BY DEF IInv
<1>1. CASE \/ \E S \in SUBSET (0..MaxCpu) : Format(S)
           \/ \E c \in {"run", "topology", "hints"}, s \in {"sysfs", "hwloc", "auto"} : Command(c, s)
           \/ Discovery \/ topologyCmd \/ topologyHintsCmd \/ BadPriority \/ RunFails
  <2>1. ASSUME NEW S, Format(S) PROVE pc' \notin Asked
    BY <2>1 DEF Format, Selected
  <2>2. ASSUME NEW c, NEW s, Command(c, s) PROVE pc' \notin Asked
    BY <2>2 DEF Command, Selected
  <2>3. ASSUME PresentFails \/ ReadPresent \/ MapDone \/ CpusDone \/ Discovered PROVE pc' \notin Asked
    BY <2>3 DEF PresentFails, ReadPresent, MapDone, CpusDone, Discovered, Selected
  <2>4. ASSUME NEW n, ReadForMap(n) \/ ReadForList(n) PROVE pc' \notin Asked
    BY <2>4 DEF ReadForMap, ReadForList, Selected
  <2>5. ASSUME NEW c, ReadPackage(c) \/ ReadCore(c) PROVE pc' \notin Asked
    BY <2>5 DEF ReadPackage, ReadCore, Selected
  <2>6. ASSUME HwlocFails \/ DiscoverCLI PROVE pc' \notin Asked
    BY <2>6 DEF HwlocFails, DiscoverCLI, Selected
  <2>7. ASSUME topologyCmd \/ topologyHintsCmd \/ BadPriority \/ RunFails PROVE pc' \notin Asked
    BY <2>7 DEF topologyCmd, topologyHintsCmd, BadPriority, RunFails, Selected
  <2>8. pc' \notin Asked
    BY <1>1, <2>1, <2>2, <2>3, <2>4, <2>5, <2>6, <2>7 DEF Discovery
  <2> QED
    BY <2>8 DEF Selection
<1>2. ASSUME NEW n \in 0..(Cardinality(Cpu) + 1), NEW node, NEW strat \in {"same-numa", "other"},
             Select(n, node, strat)
      PROVE  Selection'
  <2>1. /\ cmd = "run" /\ cmd' = cmd /\ topo' = topo
        /\ want' = n /\ prefer' = node /\ strategy' = strat
        /\ sel' = SelectCPUs(Cpu, topo.nodes, n, node, strat)
        /\ pc' = IF sel'.ok THEN "selected" ELSE "select cpus"
    BY <1>2 DEF Select, command, discovery
  <2>2. n \in Nat
    BY CpuAssumption, FS_CardinalityType
  <2>3. PerNode(topo.nodes)
    BY <1>0, <2>1 DEF Source, Read
  <2>4. SelectCPUs(Cpu, topo.nodes, n, node, strat).ok \in BOOLEAN
    BY <2>2, <2>3, SelectIs
  <2>5. sel'.ok \in BOOLEAN
    BY <2>1, <2>4
  <2>6. pc' \in {"selected", "select cpus"} /\ (sel'.ok <=> pc' # "select cpus")
    BY <2>1, <2>5
  <2>7. sel' = SelectCPUs(Cpu, topo.nodes, want, prefer, strategy)'
    BY <2>1
  <2> QED
    BY <2>1, <2>2, <2>6, <2>7 DEF Selection
<1>3. CASE Bind
  <2>1. /\ pc = "selected" /\ pc' = "bound" /\ UNCHANGED <<cmd, topo, want, prefer, strategy, sel>>
        /\ bind' \in {PrimaryNUMANodeForCPUs(topo, sel.cpus), -1}
    BY <1>3 DEF Bind, command, discovery, flags
  <2>2. SelectCPUs(Cpu, topo.nodes, want, prefer, strategy)'
            = SelectCPUs(Cpu, topo.nodes, want, prefer, strategy)
    BY <2>1
  <2>3. PrimaryNUMANodeForCPUs(topo, sel.cpus)' = PrimaryNUMANodeForCPUs(topo, sel.cpus)
    BY <2>1
  <2>4. pc \in Asked
    BY <2>1 DEF Selected
  <2> QED
    BY <1>0, <2>1, <2>2, <2>3, <2>4 DEF Selection
<1>4. CASE Run
  <2>1. /\ pc = "bound" /\ pc' = "exec"
        /\ UNCHANGED <<cmd, topo, want, prefer, strategy, sel, bind>>
        /\ bind # -1 => allowed' = Listed(bind)
    BY <1>4 DEF Run, command, discovery, flags
  <2>2. SelectCPUs(Cpu, topo.nodes, want, prefer, strategy)'
            = SelectCPUs(Cpu, topo.nodes, want, prefer, strategy)
    BY <2>1
  <2>3. PrimaryNUMANodeForCPUs(topo, sel.cpus)' = PrimaryNUMANodeForCPUs(topo, sel.cpus)
    BY <2>1
  <2>4. pc \in Asked
    BY <2>1 DEF Selected
  <2>5. bind' # -1 => \A c \in allowed' : Home[c] = bind'
    BY <2>1 DEF Listed
  <2> QED
    BY <1>0, <2>1, <2>2, <2>3, <2>4, <2>5 DEF Selection
<1>5. CASE UNCHANGED vars \/ \E c \in Cpu : Hotplug(c)
  <2>1. UNCHANGED <<cmd, topo, want, prefer, strategy, sel, bind, allowed, pc>>
    BY <1>5 DEF Hotplug, vars, command, discovery, placement, flags
  <2>2. SelectCPUs(Cpu, topo.nodes, want, prefer, strategy)'
            = SelectCPUs(Cpu, topo.nodes, want, prefer, strategy)
    BY <2>1
  <2>3. PrimaryNUMANodeForCPUs(topo, sel.cpus)' = PrimaryNUMANodeForCPUs(topo, sel.cpus)
    BY <2>1
  <2> QED
    BY <1>0, <2>1, <2>2, <2>3 DEF Selection
<1> QED
  BY <1>1, <1>2, <1>3, <1>4, <1>5 DEF Next

-----------------------------------------------------------------------------
(* Sorted lists and the maximal intervals of a set.                        *)

\* The ids before an id are a rank for it.
LEMMA SortedRanks ==
    ASSUME NEW S \in SUBSET Nat, IsFiniteSet(S)
    PROVE  /\ Cardinality(S) \in Nat
           /\ \A x \in S : Cardinality({ y \in S : y < x }) \in 0..(Cardinality(S) - 1)
           /\ \A x, z \in S : x < z =>
                  Cardinality({ y \in S : y < x }) < Cardinality({ y \in S : y < z })
           /\ \A x, z \in S : Cardinality({ y \in S : y < x }) = Cardinality({ y \in S : y < z })
                  => x = z
           /\ \A i \in 0..(Cardinality(S) - 1) :
                  \E x \in S : Cardinality({ y \in S : y < x }) = i
<1> DEFINE P == [x \in S |-> { y \in S : y < x }]
<1>0. /\ \A x \in S : P[x] = { y \in S : y < x }
      /\ \A x \in S : \A y : y \in P[x] <=> y \in S /\ y < x
  OBVIOUS
<1>1. P \in [S -> SUBSET S] /\ \A x \in S : x \notin P[x]
  OBVIOUS
<1> HIDE DEF P
<1>2. ASSUME NEW x \in S, NEW y \in S, x # y
      PROVE  \/ x \in P[y] /\ P[x] \subseteq P[y]
             \/ y \in P[x] /\ P[y] \subseteq P[x]
  <2>1. x \in Nat /\ y \in Nat
    OBVIOUS
  <2>2. ASSUME NEW u \in S, NEW v \in S, u < v PROVE u \in P[v] /\ P[u] \subseteq P[v]
    <3>1. ASSUME NEW z \in P[u] PROVE z \in P[v]
      <4>1. z \in S /\ z < u
        BY <1>0
      <4>2. z \in Nat /\ u \in Nat /\ v \in Nat
        BY <4>1
      <4>3. z < v
        BY <2>2, <4>1, <4>2
      <4> QED
        BY <1>0, <4>1, <4>3
    <3> QED
      BY <1>0, <2>2, <3>1
  <2>3. x < y \/ y < x
    BY <1>2, <2>1
  <2> QED
    BY <2>2, <2>3
<1>3. Cardinality(S) \in Nat /\ \A x \in S : Cardinality(P[x]) \in 0..(Cardinality(S) - 1)
  BY <1>1, <1>2, Ranks
<1>5. \A x, y \in S : x \in P[y] => Cardinality(P[x]) < Cardinality(P[y])
  BY <1>1, <1>2, Ranks
<1>4. \A x, y \in S : Cardinality(P[x]) = Cardinality(P[y]) => x = y
  BY <1>1, <1>2, Ranks
<1>6. ASSUME NEW i \in 0..(Cardinality(S) - 1) PROVE \E x \in S : Cardinality(P[x]) = i
  <2>1. [x \in S |-> Cardinality(P[x])] \in Surjection(S, 0..(Cardinality(S) - 1))
    BY <1>1, <1>2, RankTaken
  <2> QED
    BY <2>1 DEF Surjection
<1>7. \A x \in S : Cardinality({ y \in S : y < x }) = Cardinality(P[x])
  BY <1>0
<1>8. \A x, z \in S : x < z => Cardinality(P[x]) < Cardinality(P[z])
  BY <1>0, <1>5
<1> QED
  BY <1>3, <1>4, <1>6, <1>7, <1>8

\* sort.Ints: the ids in increasing order, all of them.
LEMMA SortedIs ==
    ASSUME NEW S \in SUBSET Nat, IsFiniteSet(S)
    PROVE  /\ Cardinality(S) \in Nat
           /\ Sorted(S) \in [1..Cardinality(S) -> S]
           /\ Sorted(S) \in Seq(S) /\ Len(Sorted(S)) = Cardinality(S)
           /\ \A i, j \in 1..Cardinality(S) : i < j => Sorted(S)[i] < Sorted(S)[j]
           /\ \A x \in S : \E i \in 1..Cardinality(S) : Sorted(S)[i] = x
<1> DEFINE k == Cardinality(S)
           R(x) == Cardinality({ y \in S : y < x })
           xs == Sorted(S)
<1>1. /\ k \in Nat
      /\ \A x \in S : R(x) \in 0..(k - 1)
      /\ \A x, z \in S : x < z => R(x) < R(z)
      /\ \A x, z \in S : R(x) = R(z) => x = z
      /\ \A i \in 0..(k - 1) : \E x \in S : R(x) = i
  BY SortedRanks
<1>2. xs = [n \in 1..k |-> CHOOSE x \in S : R(x) = n - 1]
  BY DEF Sorted
<1> HIDE DEF R, k, xs
<1>3. ASSUME NEW i \in 1..k PROVE xs[i] \in S /\ R(xs[i]) = i - 1
  <2>1. i - 1 \in 0..(k - 1)
    BY <1>1
  <2>2. \E x \in S : R(x) = i - 1
    BY <1>1, <2>1
  <2>3. xs[i] = CHOOSE x \in S : R(x) = i - 1
    BY <1>2
  <2> QED
    BY <2>2, <2>3
<1>4. xs \in [1..k -> S]
  BY <1>2, <1>3
<1>5. xs \in Seq(S) /\ Len(xs) = k
  BY <1>1, <1>4
<1>6. ASSUME NEW i \in 1..k, NEW j \in 1..k, i < j PROVE xs[i] < xs[j]
  <2>1. xs[i] \in Nat /\ xs[j] \in Nat /\ R(xs[i]) = i - 1 /\ R(xs[j]) = j - 1
    BY <1>3
  <2>2. ASSUME xs[j] < xs[i] PROVE FALSE
    <3>1. R(xs[j]) < R(xs[i])
      BY <1>1, <1>3, <2>2
    <3> QED
      BY <1>6, <2>1, <3>1
  <2>3. xs[i] # xs[j]
    BY <1>6, <2>1
  <2> QED
    BY <2>1, <2>2, <2>3
<1>7. ASSUME NEW x \in S PROVE \E i \in 1..k : xs[i] = x
  <2>1. R(x) \in 0..(k - 1)
    BY <1>1
  <2>2. R(x) + 1 \in 1..k
    BY <1>1, <2>1
  <2>3. xs[R(x) + 1] \in S /\ R(xs[R(x) + 1]) = R(x)
    BY <1>3, <2>1, <2>2
  <2>4. xs[R(x) + 1] = x
    BY <1>1, <2>3
  <2> QED
    BY <2>2, <2>4
<1> QED
  BY <1>1, <1>4, <1>5, <1>6, <1>7 DEF k, xs

\* There is only one such list.
LEMMA SortedUnique ==
    ASSUME NEW S \in SUBSET Nat, IsFiniteSet(S), NEW m \in Nat, NEW ys \in [1..m -> S],
           \A i, j \in 1..m : i < j => ys[i] < ys[j],
           \A x \in S : \E i \in 1..m : ys[i] = x
    PROVE  m = Cardinality(S) /\ ys = Sorted(S)
<1>1. \A i, j \in 1..m : ys[i] < ys[j] => i < j
  <2> SUFFICES ASSUME NEW i \in 1..m, NEW j \in 1..m, ys[i] < ys[j], ~(i < j) PROVE FALSE
    OBVIOUS
  <2>1. ys[i] \in Nat /\ ys[j] \in Nat
    OBVIOUS
  <2>2. CASE i = j
    BY <2>1, <2>2
  <2>3. CASE j < i
    <3>1. ys[j] < ys[i]
      BY <2>3
    <3> QED
      BY <2>1, <3>1
  <2> QED
    BY <2>2, <2>3
<1>2. \A i, j \in 1..m : ys[i] = ys[j] => i = j
  <2> SUFFICES ASSUME NEW i \in 1..m, NEW j \in 1..m, ys[i] = ys[j], i # j PROVE FALSE
    OBVIOUS
  <2>1. ys[i] \in Nat /\ ys[j] \in Nat
    OBVIOUS
  <2>2. i < j \/ j < i
    OBVIOUS
  <2>3. ys[i] < ys[j] \/ ys[j] < ys[i]
    BY <2>2
  <2> QED
    BY <2>1, <2>3
<1>3. ASSUME NEW n \in 0..m, NEW T \in SUBSET S, \A i \in 1..m : ys[i] \in T <=> i <= n
      PROVE  Cardinality(T) = n
  <2> DEFINE g == [i \in 1..n |-> ys[i]]
  <2>1. \A i \in 1..n : i \in 1..m /\ g[i] = ys[i]
    OBVIOUS
  <2>2. g \in [1..n -> T]
    BY <1>3, <2>1
  <2>3. ASSUME NEW x \in T PROVE \E i \in 1..n : g[i] = x
    <3>1. PICK i \in 1..m : ys[i] = x
      OBVIOUS
    <3>2. i \in 1..n
      BY <1>3, <3>1
    <3> QED
      BY <3>1, <3>2
  <2>4. \A i, j \in 1..n : g[i] = g[j] => i = j
    BY <1>2, <2>1
  <2> HIDE DEF g
  <2>5. g \in Bijection(1..n, T)
    BY <2>2, <2>3, <2>4 DEF Bijection, Injection, Surjection, IsInjective
  <2>6. ExistsBijection(1..n, T)
    BY <2>5 DEF ExistsBijection
  <2>7. IsFiniteSet(T)
    BY FS_Subset
  <2>8. IsFiniteSet(1..n) /\ Cardinality(1..n) = n
    BY FS_Interval
  <2> QED
    BY <2>6, <2>7, <2>8, FS_Bijection
<1>4. m = Cardinality(S)
  BY <1>3
<1>5. ASSUME NEW n \in 1..m PROVE ys[n] = CHOOSE x \in S : Cardinality({ y \in S : y < x }) = n - 1
  <2> DEFINE T == { y \in S : y < ys[n] }
  <2>1. ASSUME NEW i \in 1..m PROVE ys[i] \in T <=> i <= n - 1
    <3>1. ys[i] < ys[n] <=> i < n
      BY <1>1
    <3> QED
      BY <3>1
  <2>2. Cardinality(T) = n - 1
    <3>1. n - 1 \in 0..m /\ T \in SUBSET S
      OBVIOUS
    <3> HIDE DEF T
    <3> QED
      BY <1>3, <2>1, <3>1
  <2>3. \A x \in S : Cardinality({ y \in S : y < x }) = Cardinality(T) => x = ys[n]
    <3>1. ys[n] \in S
      OBVIOUS
    <3>2. \A x, z \in S : Cardinality({ y \in S : y < x }) = Cardinality({ y \in S : y < z })
              => x = z
      BY SortedRanks
    <3> QED
      BY <3>1, <3>2
  <2> QED
    BY <2>2, <2>3
<1>6. Sorted(S) = [n \in 1..m |-> CHOOSE x \in S : Cardinality({ y \in S : y < x }) = n - 1]
  BY <1>4 DEF Sorted
<1>7. DOMAIN ys = 1..m /\ ys = [n \in 1..m |-> ys[n]]
  OBVIOUS
<1> QED
  BY <1>4, <1>5, <1>6, <1>7

\* Two maximal intervals that share an id are the same.
LEMMA IntervalsApart ==
    ASSUME NEW S \in SUBSET Nat, NEW p \in Intervals(S), NEW q \in Intervals(S), NEW x \in S,
           p[1] <= x, x <= p[2], q[1] <= x, x <= q[2]
    PROVE  p = q
<1>1. /\ p \in S \X S /\ p[1] - 1 \notin S /\ p[2] + 1 \notin S
      /\ q \in S \X S /\ q[1] - 1 \notin S /\ q[2] + 1 \notin S
  BY DEF Intervals
<1>2. \A i \in p[1]..p[2] : i \in S
  BY DEF Intervals
<1>3. \A i \in q[1]..q[2] : i \in S
  BY DEF Intervals
<1>4. p[1] \in Nat /\ p[2] \in Nat /\ q[1] \in Nat /\ q[2] \in Nat /\ x \in Nat
  BY <1>1
<1>5. ~(p[1] < q[1])
  <2> SUFFICES ASSUME p[1] < q[1] PROVE FALSE
    OBVIOUS
  <2>1. q[1] - 1 \in p[1]..p[2]
    BY <1>4
  <2> QED
    BY <1>1, <1>2, <2>1
<1>6. ~(q[1] < p[1])
  <2> SUFFICES ASSUME q[1] < p[1] PROVE FALSE
    OBVIOUS
  <2>1. p[1] - 1 \in q[1]..q[2]
    BY <1>4
  <2> QED
    BY <1>1, <1>3, <2>1
<1>7. ~(p[2] < q[2])
  <2> SUFFICES ASSUME p[2] < q[2] PROVE FALSE
    OBVIOUS
  <2>1. p[2] + 1 \in q[1]..q[2]
    BY <1>4
  <2> QED
    BY <1>1, <1>3, <2>1
<1>8. ~(q[2] < p[2])
  <2> SUFFICES ASSUME q[2] < p[2] PROVE FALSE
    OBVIOUS
  <2>1. q[2] + 1 \in p[1]..p[2]
    BY <1>4
  <2> QED
    BY <1>1, <1>2, <2>1
<1>9. p[1] = q[1] /\ p[2] = q[2]
  BY <1>4, <1>5, <1>6, <1>7, <1>8
<1> QED
  BY <1>1, <1>9

\* Maximal intervals in increasing order that hold every id are the reference,
\* and parse back to the ids.
LEMMA ReferenceIs ==
    ASSUME NEW S \in SUBSET Nat, IsFiniteSet(S), NEW m \in Nat,
           NEW parts \in [1..m -> Intervals(S)],
           \A i, j \in 1..m : i < j => parts[i][1] < parts[j][1],
           \A x \in S : \E i \in 1..m : parts[i][1] <= x /\ x <= parts[i][2]
    PROVE  parts = Reference(S) /\ ParseOK(parts) /\ ParseCPUList(parts) = S
<1> DEFINE L == { p[1] : p \in Intervals(S) }
           ys == [i \in 1..m |-> parts[i][1]]
<1>1. \A p \in Intervals(S) : /\ p \in S \X S /\ p[1] \in S /\ p[2] \in S /\ p[1] <= p[2]
                              /\ p[1] \in Nat /\ p[2] \in Nat
  BY DEF Intervals
<1>2. L \in SUBSET S /\ L \in SUBSET Nat
  BY <1>1
<1>3. IsFiniteSet(L)
  <2> HIDE DEF L
  <2> QED
    BY <1>2, FS_Subset
<1>4. ys \in [1..m -> L] /\ \A i \in 1..m : ys[i] = parts[i][1]
  OBVIOUS
<1>5. ASSUME NEW x \in L PROVE \E i \in 1..m : ys[i] = x
  <2>1. PICK p \in Intervals(S) : p[1] = x
    OBVIOUS
  <2>2. x \in S /\ p[1] <= x /\ x <= p[2]
    BY <1>1, <2>1
  <2>3. PICK i \in 1..m : parts[i][1] <= x /\ x <= parts[i][2]
    BY <2>2
  <2>4. parts[i] \in Intervals(S)
    OBVIOUS
  <2>5. parts[i] = p
    BY <2>2, <2>3, <2>4, IntervalsApart
  <2> QED
    BY <2>1, <2>5
<1>6. \A i, j \in 1..m : i < j => ys[i] < ys[j]
  BY <1>4
<1>7. Sorted(L) = ys
  <2> HIDE DEF L, ys
  <2> QED
    BY <1>2, <1>3, <1>4, <1>5, <1>6, SortedUnique
<1>8. ASSUME NEW i \in 1..m PROVE (CHOOSE p \in Intervals(S) : p[1] = ys[i]) = parts[i]
  <2>1. parts[i] \in Intervals(S) /\ parts[i][1] = ys[i]
    OBVIOUS
  <2>2. ASSUME NEW p \in Intervals(S), p[1] = ys[i] PROVE p = parts[i]
    <3>1. p[1] \in S /\ p[1] <= p[1] /\ p[1] <= p[2] /\ parts[i][1] <= p[1] /\ p[1] <= parts[i][2]
      BY <1>1, <2>1, <2>2
    <3> QED
      BY <2>1, <3>1, IntervalsApart
  <2> HIDE DEF ys
  <2> QED
    BY <2>1, <2>2
<1>9. Reference(S) = [i \in 1..m |-> CHOOSE p \in Intervals(S) : p[1] = ys[i]]
  <2>1. Reference(S) = [i \in DOMAIN Sorted(L) |-> CHOOSE p \in Intervals(S) : p[1] = Sorted(L)[i]]
    BY DEF Reference
  <2>2. DOMAIN ys = 1..m
    OBVIOUS
  <2> HIDE DEF L, ys
  <2> QED
    BY <1>7, <2>1, <2>2
<1>10. parts = Reference(S)
  <2> HIDE DEF ys
  <2> QED
    BY <1>8, <1>9
<1>11. ParseOK(parts)
  BY <1>1 DEF ParseOK
<1>12. ASSUME NEW i \in 1..m PROVE parts[i][1]..parts[i][2] \subseteq S
  BY DEF Intervals
<1>13. ASSUME NEW x \in S PROVE x \in ParseCPUList(parts)
  <2>1. PICK i \in 1..m : parts[i][1] <= x /\ x <= parts[i][2]
    OBVIOUS
  <2>2. parts[i][1] \in Nat /\ parts[i][2] \in Nat /\ x \in Nat
    BY <1>1
  <2>3. x \in parts[i][1]..parts[i][2]
    BY <2>1, <2>2
  <2> QED
    BY <2>3 DEF ParseCPUList
<1>14. ParseCPUList(parts) \subseteq S
  BY <1>12 DEF ParseCPUList
<1> QED
  BY <1>10, <1>11, <1>13, <1>14

-----------------------------------------------------------------------------
(* The formatters.                                                         *)

\* The parts written for the ids below b.
Written(S, parts, b) ==
    /\ parts \in Seq(Intervals(S))
    /\ \A i, j \in 1..Len(parts) : i < j => parts[i][1] < parts[j][1]
    /\ \A i \in 1..Len(parts) : parts[i][1] < b
    /\ \A x \in S : x < b => \E i \in 1..Len(parts) : parts[i][1] <= x /\ x <= parts[i][2]

\* One more part.
LEMMA WriteOne ==
    ASSUME NEW S \in SUBSET Nat, NEW parts, NEW lo \in Nat, NEW hi \in Nat, NEW b \in Nat,
           Written(S, parts, lo), <<lo, hi>> \in Intervals(S), hi < b,
           \A x \in S : x < b => x <= hi
    PROVE  Written(S, Append(parts, <<lo, hi>>), b)
<1> DEFINE n == Len(parts)
           q == Append(parts, <<lo, hi>>)
<1>1. lo <= hi
  BY DEF Intervals
<1>2. parts \in Seq(Intervals(S)) /\ n \in Nat
  BY DEF Written
<1>3. /\ q \in Seq(Intervals(S)) /\ Len(q) = n + 1
      /\ \A i \in 1..n : q[i] = parts[i]
      /\ q[n + 1] = <<lo, hi>>
  BY <1>2
<1> HIDE DEF q
<1>4. \A i \in 1..(n + 1) : q[i][1] \in Nat /\ q[i][2] \in Nat
  <2>1. ASSUME NEW p \in Intervals(S) PROVE p[1] \in Nat /\ p[2] \in Nat
    BY DEF Intervals
  <2>2. \A i \in 1..(n + 1) : q[i] \in Intervals(S)
    BY <1>2, <1>3
  <2> QED
    BY <2>1, <2>2
<1>5. \A i \in 1..n : q[i][1] < lo
  BY <1>3 DEF Written
<1>6. \A i \in 1..(n + 1) : i \in 1..n \/ i = n + 1
  BY <1>2
<1>7. ASSUME NEW i \in 1..(n + 1) PROVE q[i][1] < b
  <2>1. CASE i = n + 1
    BY <1>1, <1>3, <2>1
  <2>2. CASE i \in 1..n
    BY <1>1, <1>4, <1>5, <2>2
  <2> QED
    BY <1>6, <2>1, <2>2
<1>8. ASSUME NEW i \in 1..(n + 1), NEW j \in 1..(n + 1), i < j PROVE q[i][1] < q[j][1]
  <2>1. i \in 1..n
    BY <1>2, <1>8
  <2>2. CASE j = n + 1
    BY <1>3, <1>5, <2>1, <2>2
  <2>3. CASE j \in 1..n
    <3>1. parts[i][1] < parts[j][1]
      BY <1>8, <2>1, <2>3 DEF Written
    <3> QED
      BY <1>3, <2>1, <2>3, <3>1
  <2> QED
    BY <1>6, <2>2, <2>3
<1>9. ASSUME NEW x \in S, x < b PROVE \E i \in 1..(n + 1) : q[i][1] <= x /\ x <= q[i][2]
  <2>1. x \in Nat /\ x <= hi
    BY <1>9
  <2>2. CASE lo <= x
    BY <1>2, <1>3, <2>1, <2>2
  <2>3. CASE x < lo
    <3>1. PICK i \in 1..n : parts[i][1] <= x /\ x <= parts[i][2]
      BY <2>3 DEF Written
    <3>2. i \in 1..(n + 1) /\ q[i] = parts[i]
      BY <1>2, <1>3
    <3> QED
      BY <3>1, <3>2
  <2> QED
    BY <2>1, <2>2, <2>3
<1>10. Written(S, q, b)
  BY <1>3, <1>7, <1>8, <1>9 DEF Written
<1> QED
  BY <1>10 DEF q

\* When all parts are written, the text is the reference.
LEMMA WrittenAll ==
    ASSUME NEW S \in SUBSET Nat, IsFiniteSet(S), NEW parts, NEW b \in Nat,
           Written(S, parts, b), \A x \in S : x < b
    PROVE  parts = Reference(S) /\ ParseOK(parts) /\ ParseCPUList(parts) = S
<1>1. Len(parts) \in Nat /\ parts \in [1..Len(parts) -> Intervals(S)]
  BY DEF Written
<1>2. /\ \A i, j \in 1..Len(parts) : i < j => parts[i][1] < parts[j][1]
      /\ \A x \in S : \E i \in 1..Len(parts) : parts[i][1] <= x /\ x <= parts[i][2]
  BY DEF Written
<1> QED
  BY <1>1, <1>2, ReferenceIs

\* Between two neighbours of a sorted list there is no other id.
LEMMA SortedGaps ==
    ASSUME NEW S \in SUBSET Nat, IsFiniteSet(S), NEW y \in S
    PROVE  /\ 1 <= Cardinality(S) /\ Sorted(S)[1] <= y
           /\ \A i \in 1..Cardinality(S) :
                  y <= Sorted(S)[i] \/ (i + 1 <= Cardinality(S) /\ Sorted(S)[i + 1] <= y)
<1> DEFINE k == Cardinality(S)
           xs == Sorted(S)
<1>1. /\ k \in Nat /\ xs \in [1..k -> S]
      /\ \A i, j \in 1..k : i < j => xs[i] < xs[j]
  BY SortedIs
<1>2. PICK j \in 1..k : xs[j] = y
  BY SortedIs
<1> HIDE DEF k, xs
<1>3. ASSUME NEW i \in 1..k, NEW h \in 1..k, i <= h PROVE xs[i] <= xs[h]
  <2>1. xs[i] \in Nat /\ xs[h] \in Nat
    BY <1>1
  <2>2. CASE i = h
    BY <2>1, <2>2
  <2>3. CASE i < h
    BY <1>1, <2>1, <2>3
  <2> QED
    BY <1>3, <2>2, <2>3
<1>4. 1 <= k /\ xs[1] <= y
  BY <1>1, <1>2, <1>3
<1>5. ASSUME NEW i \in 1..k PROVE y <= xs[i] \/ (i + 1 <= k /\ xs[i + 1] <= y)
  <2>1. CASE j <= i
    BY <1>2, <1>3, <2>1
  <2>2. CASE i + 1 <= j
    <3>1. i + 1 \in 1..k
      BY <1>1, <2>2
    <3> QED
      BY <1>2, <1>3, <2>2, <3>1
  <2> QED
    BY <1>1, <2>1, <2>2
<1> QED
  BY <1>4, <1>5 DEF k, xs

\* The states of FormatCPUList's loop.
FormatStates == [start : Nat, prev : Nat, parts : Seq(Nat \X Nat)]

\* The loop passes through a state at each turn.
LEMMA FormatLoop ==
    ASSUME NEW u \in Seq(Nat), Len(u) >= 1
    PROVE  /\ FormatTurns(u) \in [0..Len(u) -> FormatStates]
           /\ FormatTurns(u)[0] = [start |-> u[1], prev |-> u[1], parts |-> << >>]
           /\ \A i \in 1..Len(u) : FormatTurns(u)[i] = FormatTurn(u, FormatTurns(u)[i - 1], i)
<1> DEFINE n == Len(u)
           base == [start |-> u[1], prev |-> u[1], parts |-> << >>]
           t == [z \in (1..n) \X FormatStates |-> FormatTurn(u, z[2], z[1])]
           P(g) == g = [i \in 0..n |-> IF i = 0 THEN base ELSE FormatTurn(u, g[i - 1], i)]
           g0 == FormatTurns(u)
<1>0. n \in Nat /\ \A i \in 1..n : u[i] \in Nat
  OBVIOUS
<1>1. base \in FormatStates
  BY <1>0 DEF FormatStates
<1>2. ASSUME NEW a \in FormatStates, NEW i \in 1..n PROVE FormatTurn(u, a, i) \in FormatStates
  <2>1. a.start \in Nat /\ a.prev \in Nat /\ a.parts \in Seq(Nat \X Nat)
        /\ a = [start |-> a.start, prev |-> a.prev, parts |-> a.parts]
    BY DEF FormatStates
  <2>2. Append(a.parts, <<a.start, a.prev>>) \in Seq(Nat \X Nat)
    BY <2>1
  <2>3. i < n => u[i + 1] \in Nat
    BY <1>0
  <2>4. CASE i < n /\ u[i + 1] = a.prev + 1
    <3>1. FormatTurn(u, a, i) = [start |-> a.start, prev |-> u[i + 1], parts |-> a.parts]
      BY <2>1, <2>4 DEF FormatTurn
    <3> QED
      BY <2>1, <2>3, <2>4, <3>1 DEF FormatStates
  <2>5. CASE i < n /\ u[i + 1] # a.prev + 1
    <3>1. FormatTurn(u, a, i) = [start |-> u[i + 1], prev |-> u[i + 1],
                                 parts |-> Append(a.parts, <<a.start, a.prev>>)]
      BY <2>5 DEF FormatTurn
    <3> QED
      BY <2>2, <2>3, <2>5, <3>1 DEF FormatStates
  <2>6. CASE ~(i < n)
    <3>1. FormatTurn(u, a, i) = [start |-> a.start, prev |-> a.prev,
                                 parts |-> Append(a.parts, <<a.start, a.prev>>)]
      BY <2>1, <2>6 DEF FormatTurn
    <3> QED
      BY <2>1, <2>2, <3>1 DEF FormatStates
  <2> QED
    BY <2>4, <2>5, <2>6
<1>3. t \in TurnsOf(n, FormatStates)
  BY <1>2 DEF TurnsOf
<1>4. PICK f \in [0..n -> FormatStates] :
          f[0] = base /\ \A i \in 1..n : f[i] = t[<<i, f[i - 1]>>]
  <2> HIDE DEF t, base, n
  <2>1. RunsOf(n, FormatStates, base, t) # {}
    BY <1>0, <1>1, <1>3, Loop
  <2> QED
    BY <2>1 DEF RunsOf
<1>5. P(f)
  <2>1. ASSUME NEW i \in 1..n PROVE f[i] = FormatTurn(u, f[i - 1], i)
    <3>1. i - 1 \in 0..n
      BY <1>0
    <3>2. <<i, f[i - 1]>> \in (1..n) \X FormatStates
      BY <3>1
    <3>3. t[<<i, f[i - 1]>>] = FormatTurn(u, f[i - 1], i)
      BY <3>2
    <3> QED
      BY <1>4, <3>3
  <2> HIDE DEF base, t, n
  <2>2. \A i \in 0..n : f[i] = IF i = 0 THEN base ELSE FormatTurn(u, f[i - 1], i)
    BY <1>0, <1>4, <2>1
  <2> QED
    BY <2>2
<1>6. g0 = CHOOSE g : P(g)
  BY DEF FormatTurns
<1> HIDE DEF P, g0, base
<1>7. P(g0)
  BY <1>5, <1>6
<1>8. /\ DOMAIN g0 = 0..n /\ g0[0] = base
      /\ \A i \in 1..n : g0[i] = FormatTurn(u, g0[i - 1], i)
  <2> HIDE DEF n
  <2>1. g0 = [i \in 0..n |-> IF i = 0 THEN base ELSE FormatTurn(u, g0[i - 1], i)]
    BY <1>7 DEF P
  <2> QED
    BY <1>0, <2>1
<1> DEFINE T == { i \in 0..n : g0[i] \in FormatStates }
<1>9. \A i \in 0..n : i \in T
  <2>1. 0 \in T
    BY <1>0, <1>1, <1>8
  <2>2. ASSUME NEW i \in 0..(n - 1), i \in T PROVE i + 1 \in T
    <3>1. i + 1 \in 1..n /\ i + 1 - 1 = i /\ i + 1 \in 0..n
      BY <1>0
    <3>2. g0[i + 1] = FormatTurn(u, g0[i], i + 1)
      BY <1>8, <3>1
    <3>3. g0[i] \in FormatStates
      BY <2>2
    <3>4. g0[i + 1] \in FormatStates
      BY <1>2, <3>1, <3>2, <3>3
    <3> QED
      BY <3>1, <3>4
  <2> HIDE DEF T
  <2> QED
    BY <1>0, <2>1, <2>2, UpTo
<1>10. g0 \in [0..n -> FormatStates]
  <2>1. g0 = [i \in 0..n |-> g0[i]]
    BY <1>7 DEF P
  <2> QED
    BY <1>9, <2>1
<1> QED
  BY <1>8, <1>10 DEF g0, base

\* FormatCPUList writes the maximal intervals in order.
LEMMA FormatIs ==
    ASSUME NEW S \in SUBSET Nat, IsFiniteSet(S)
    PROVE  /\ FormatCPUList(S) = Reference(S)
           /\ ParseOK(FormatCPUList(S)) /\ ParseCPUList(FormatCPUList(S)) = S
<1> DEFINE k == Cardinality(S)
           xs == Sorted(S)
           f == FormatTurns(xs)
           Good(i) == /\ f[i].prev = xs[i + 1] /\ f[i].start \in S /\ f[i].start <= f[i].prev
                      /\ \A x \in f[i].start..f[i].prev : x \in S
                      /\ f[i].start - 1 \notin S
                      /\ Written(S, f[i].parts, f[i].start)
<1>1. CASE S = {}
  <2>1. FormatCPUList(S) = << >>
    BY <1>1 DEF FormatCPUList
  <2>2. << >> \in Seq(Intervals(S)) /\ Len(<< >>) = 0
    OBVIOUS
  <2>3. Written(S, << >>, 0)
    BY <1>1, <2>2 DEF Written
  <2> QED
    BY <1>1, <2>1, <2>3, WrittenAll
<1>2. CASE S # {}
  <2>0. FormatCPUList(S) = f[k].parts
    BY <1>2 DEF FormatCPUList
  <2>1. /\ k \in Nat /\ xs \in [1..k -> S] /\ xs \in Seq(S) /\ Len(xs) = k
        /\ \A i, j \in 1..k : i < j => xs[i] < xs[j]
    BY SortedIs
  <2>2. /\ 1 <= k /\ \A y \in S : xs[1] <= y
        /\ \A y \in S : \A i \in 1..k : y <= xs[i] \/ (i + 1 <= k /\ xs[i + 1] <= y)
    BY <1>2, SortedGaps
  <2> HIDE DEF k, xs
  <2>3. xs \in Seq(Nat)
    <3>1. xs \in [1..k -> Nat]
      BY <2>1
    <3> QED
      BY <2>1, <3>1
  <2>4. /\ f \in [0..k -> FormatStates]
        /\ f[0] = [start |-> xs[1], prev |-> xs[1], parts |-> << >>]
        /\ \A i \in 1..k : f[i] = FormatTurn(xs, f[i - 1], i)
    BY <2>1, <2>2, <2>3, FormatLoop
  <2> HIDE DEF f
  <2>5. \A i \in 1..k : xs[i] \in S /\ xs[i] \in Nat
    BY <2>1
  <2>6. Good(0)
    <3>1. f[0].start = xs[1] /\ f[0].prev = xs[1] /\ f[0].parts = << >>
      BY <2>4
    <3>2. xs[1] \in S /\ xs[1] \in Nat
      BY <2>2, <2>5
    <3>3. \A y \in S : y \in Nat /\ xs[1] <= y
      BY <2>2
    <3>4. Written(S, << >>, xs[1])
      <4>1. << >> \in Seq(Intervals(S)) /\ Len(<< >>) = 0
        OBVIOUS
      <4>2. \A y \in S : ~(y < xs[1])
        BY <3>2, <3>3
      <4> QED
        BY <4>1, <4>2 DEF Written
    <3>5. xs[1] - 1 \notin S
      BY <3>2, <3>3
    <3> QED
      BY <3>1, <3>2, <3>4, <3>5
  <2>7. ASSUME NEW i \in 1..k, Good(i - 1)
        PROVE  /\ f[i - 1].start \in Nat /\ f[i - 1].prev = xs[i]
               /\ (i < k => xs[i + 1] # xs[i] + 1) =>
                    /\ <<f[i - 1].start, xs[i]>> \in Intervals(S)
                    /\ xs[i] + 1 \notin S
    <3>1. f[i - 1].prev = xs[i] /\ f[i - 1].start \in S /\ f[i - 1].start <= xs[i]
      BY <2>7
    <3>2. f[i - 1].start \in Nat
      BY <3>1
    <3>3. ASSUME i < k => xs[i + 1] # xs[i] + 1, xs[i] + 1 \in S PROVE FALSE
      <4>1. xs[i] \in Nat
        BY <2>5
      <4>2. i + 1 <= k /\ xs[i + 1] <= xs[i] + 1
        BY <2>2, <3>3, <4>1
      <4>3. i + 1 \in 1..k /\ i < k
        BY <2>1, <4>2
      <4>4. xs[i] < xs[i + 1] /\ xs[i + 1] \in Nat
        BY <2>1, <2>5, <4>3
      <4> QED
        BY <3>3, <4>1, <4>2, <4>3, <4>4
    <3>4. ASSUME xs[i] + 1 \notin S PROVE <<f[i - 1].start, xs[i]>> \in Intervals(S)
      <4>1. \A x \in f[i - 1].start..xs[i] : x \in S
        BY <2>7, <3>1
      <4>2. f[i - 1].start - 1 \notin S /\ xs[i] \in S
        BY <2>5, <2>7
      <4> QED
        BY <3>1, <3>4, <4>1, <4>2 DEF Intervals
    <3> QED
      BY <3>1, <3>2, <3>3, <3>4
  <2>8. ASSUME NEW i \in 1..(k - 1), Good(i - 1) PROVE Good(i)
    <3>1. i \in 1..k /\ i + 1 \in 1..k /\ i < k /\ i - 1 \in 0..k
      BY <2>1
    <3>2. f[i - 1] \in FormatStates /\ f[i] = FormatTurn(xs, f[i - 1], i) /\ Len(xs) = k
      BY <2>1, <2>4, <3>1
    <3> DEFINE a == f[i - 1]
    <3>3. /\ a.start \in Nat /\ a.prev = xs[i]
          /\ xs[i + 1] # xs[i] + 1 => <<a.start, xs[i]>> \in Intervals(S) /\ xs[i] + 1 \notin S
      BY <2>7, <2>8, <3>1
    <3>4. /\ a.start \in S /\ a.start <= xs[i] /\ (\A x \in a.start..xs[i] : x \in S)
          /\ a.start - 1 \notin S /\ Written(S, a.parts, a.start)
      BY <2>8, <3>3
    <3>5. xs[i] \in Nat /\ xs[i + 1] \in Nat /\ xs[i + 1] \in S /\ xs[i] < xs[i + 1]
      BY <2>1, <2>5, <3>1
    <3>6. a = [start |-> a.start, prev |-> a.prev, parts |-> a.parts]
      BY <3>2 DEF FormatStates
    <3> HIDE DEF a
    <3>7. CASE xs[i + 1] = xs[i] + 1
      <4>1. f[i] = [start |-> a.start, prev |-> xs[i + 1], parts |-> a.parts]
        BY <3>1, <3>2, <3>3, <3>6, <3>7 DEF FormatTurn, a
      <4>2. f[i].start = a.start /\ f[i].prev = xs[i + 1] /\ f[i].parts = a.parts
        BY <4>1
      <4>3. ASSUME NEW x \in a.start..xs[i + 1] PROVE x \in S
        <5>1. x \in a.start..xs[i] \/ x = xs[i + 1]
          BY <3>3, <3>5, <3>7
        <5> QED
          BY <3>4, <3>5, <5>1
      <4>4. a.start <= xs[i + 1]
        BY <3>3, <3>4, <3>5
      <4> QED
        BY <3>4, <4>2, <4>3, <4>4
    <3>8. CASE xs[i + 1] # xs[i] + 1
      <4>1. f[i] = [start |-> xs[i + 1], prev |-> xs[i + 1],
                    parts |-> Append(a.parts, <<a.start, a.prev>>)]
        BY <3>1, <3>2, <3>3, <3>8 DEF FormatTurn, a
      <4>2. /\ f[i].start = xs[i + 1] /\ f[i].prev = xs[i + 1]
            /\ f[i].parts = Append(a.parts, <<a.start, xs[i]>>)
        BY <3>3, <4>1
      <4>3. ASSUME NEW x \in S, x < xs[i + 1] PROVE x <= xs[i]
        BY <2>2, <3>1, <3>5, <4>3
      <4>4. Written(S, Append(a.parts, <<a.start, xs[i]>>), xs[i + 1])
        BY <3>3, <3>4, <3>5, <3>8, <4>3, WriteOne
      <4>5. xs[i + 1] - 1 \notin S
        <5> SUFFICES ASSUME xs[i + 1] - 1 \in S PROVE FALSE
          OBVIOUS
        <5>1. xs[i + 1] - 1 <= xs[i]
          BY <3>5, <4>3
        <5> QED
          BY <3>5, <3>8, <5>1
      <4>6. \A x \in xs[i + 1]..xs[i + 1] : x \in S
        BY <3>5
      <4> QED
        BY <3>5, <4>2, <4>4, <4>5, <4>6
    <3> QED
      BY <3>7, <3>8
  <2> DEFINE G == { i \in 0..(k - 1) : Good(i) }
  <2>9. \A i \in 0..(k - 1) : i \in G
    <3>1. 0 \in G
      BY <2>1, <2>2, <2>6
    <3>2. ASSUME NEW i \in 0..(k - 2), i \in G PROVE i + 1 \in G
      <4>1. i + 1 \in 1..(k - 1) /\ i + 1 - 1 = i /\ i + 1 \in 0..(k - 1)
        BY <2>1
      <4>2. Good(i + 1 - 1)
        BY <3>2, <4>1
      <4> HIDE DEF Good
      <4>3. Good(i + 1)
        BY <2>8, <4>1, <4>2
      <4> QED
        BY <4>1, <4>3
    <3>3. k - 1 \in Nat /\ k - 1 - 1 = k - 2
      BY <2>1, <2>2
    <3> HIDE DEF G
    <3> QED
      BY <3>1, <3>2, <3>3, UpTo
  <2>10. Good(k - 1)
    <3>1. k - 1 \in 0..(k - 1)
      BY <2>1, <2>2
    <3> HIDE DEF Good
    <3> QED
      BY <2>9, <3>1
  <2>11. k \in 1..k /\ ~(k < k) /\ k - 1 \in 0..k
    BY <2>1, <2>2
  <2> DEFINE a == f[k - 1]
  <2>12. /\ a.start \in Nat /\ a.prev = xs[k]
         /\ <<a.start, xs[k]>> \in Intervals(S)
    BY <2>7, <2>10, <2>11
  <2>13. Written(S, a.parts, a.start)
    BY <2>10
  <2>14. f[k].parts = Append(a.parts, <<a.start, xs[k]>>)
    <3>1. f[k] = FormatTurn(xs, a, k) /\ Len(xs) = k /\ a \in FormatStates
      BY <2>1, <2>4, <2>11
    <3>2. a = [start |-> a.start, prev |-> a.prev, parts |-> a.parts]
      BY <3>1 DEF FormatStates
    <3> HIDE DEF a
    <3>3. f[k] = [start |-> a.start, prev |-> a.prev, parts |-> Append(a.parts, <<a.start, a.prev>>)]
      BY <2>11, <3>1, <3>2 DEF FormatTurn
    <3> QED
      BY <2>12, <3>3
  <2>15. \A x \in S : x \in Nat /\ x <= xs[k]
    BY <2>1, <2>2, <2>11
  <2>16. xs[k] \in Nat
    BY <2>5, <2>11
  <2> HIDE DEF a
  <2>17. Written(S, f[k].parts, xs[k] + 1)
    <3>1. xs[k] + 1 \in Nat /\ xs[k] < xs[k] + 1 /\ \A x \in S : x < xs[k] + 1 => x <= xs[k]
      BY <2>15, <2>16
    <3> QED
      BY <2>12, <2>13, <2>14, <2>16, <3>1, WriteOne
  <2>18. xs[k] + 1 \in Nat /\ \A x \in S : x < xs[k] + 1
    BY <2>15, <2>16
  <2> QED
    BY <2>0, <2>17, <2>18, WrittenAll
<1> QED
  BY <1>1, <1>2

\* The run that begins at an index has an end.
LEMMA RunEndIs ==
    ASSUME NEW u \in Seq(Nat), NEW n \in 1..Len(u)
    PROVE  /\ RunEnd(u, n) \in (n + 1)..(Len(u) + 1)
           /\ \A h \in (n + 1)..(RunEnd(u, n) - 1) : u[h] = u[h - 1] + 1
           /\ RunEnd(u, n) <= Len(u) => u[RunEnd(u, n)] # u[RunEnd(u, n) - 1] + 1
<1> DEFINE k == Len(u)
           D == { m \in (n + 1)..(k + 1) : m <= k => u[m] # u[m - 1] + 1 }
           E(m) == /\ \A h \in (n + 1)..(m - 1) : u[h] = u[h - 1] + 1
                   /\ m <= k => u[m] # u[m - 1] + 1
<1>0. k \in Nat /\ n \in 1..k
  OBVIOUS
<1> HIDE DEF k
<1>1. D \in SUBSET Nat
  BY <1>0
<1>2. k + 1 \in D
  BY <1>0
<1>3. PICK m \in D : \A h \in D : m <= h
  <2> HIDE DEF D
  <2> QED
    BY <1>1, <1>2, LeastExists
<1>4. m \in (n + 1)..(k + 1) /\ (m <= k => u[m] # u[m - 1] + 1)
  BY <1>3
<1>5. ASSUME NEW h \in (n + 1)..(m - 1) PROVE u[h] = u[h - 1] + 1
  <2>1. h \in (n + 1)..(k + 1) /\ h <= k /\ ~(m <= h)
    BY <1>0, <1>4
  <2>2. h \notin D
    BY <1>3, <2>1
  <2> QED
    BY <2>1, <2>2
<1>6. \E v \in (n + 1)..(k + 1) : E(v)
  BY <1>4, <1>5
<1>7. RunEnd(u, n) = CHOOSE v \in (n + 1)..(k + 1) : E(v)
  BY DEF RunEnd, k
<1> HIDE DEF E
<1>8. RunEnd(u, n) \in (n + 1)..(k + 1) /\ E(RunEnd(u, n))
  BY <1>6, <1>7
<1> QED
  BY <1>8 DEF E, k

\* The states of CPUsToTasksetSpec's loop.
TasksetStates == [next : Nat, parts : Seq(Nat \X Nat)]

\* The states of CPUsToTasksetSpec's loop.
LEMMA TasksetLoop ==
    ASSUME NEW u \in Seq(Nat)
    PROVE  /\ TasksetTurns(u) \in [0..Len(u) -> TasksetStates]
           /\ TasksetTurns(u)[0] = [next |-> 1, parts |-> << >>]
           /\ \A i \in 1..Len(u) : TasksetTurns(u)[i] = TasksetTurn(u, TasksetTurns(u)[i - 1], i)
<1> DEFINE n == Len(u)
           base == [next |-> 1, parts |-> << >>]
           t == [z \in (1..n) \X TasksetStates |-> TasksetTurn(u, z[2], z[1])]
           P(g) == g = [i \in 0..n |-> IF i = 0 THEN base ELSE TasksetTurn(u, g[i - 1], i)]
           g0 == TasksetTurns(u)
<1>0. n \in Nat /\ \A i \in 1..n : u[i] \in Nat
  OBVIOUS
<1>1. base \in TasksetStates
  BY DEF TasksetStates
<1>2. ASSUME NEW a \in TasksetStates, NEW i \in 1..n PROVE TasksetTurn(u, a, i) \in TasksetStates
  <2>1. a.next \in Nat /\ a.parts \in Seq(Nat \X Nat)
    BY DEF TasksetStates
  <2>2. RunEnd(u, i) \in (i + 1)..(n + 1)
    BY RunEndIs
  <2>3. RunEnd(u, i) \in Nat /\ RunEnd(u, i) - 1 \in 1..n
    BY <1>0, <2>2
  <2>4. <<u[i], u[RunEnd(u, i) - 1]>> \in Nat \X Nat
    BY <1>0, <2>3
  <2>5. Append(a.parts, <<u[i], u[RunEnd(u, i) - 1]>>) \in Seq(Nat \X Nat)
    BY <2>1, <2>4
  <2> QED
    BY <2>3, <2>5 DEF TasksetTurn, TasksetStates
<1>3. t \in TurnsOf(n, TasksetStates)
  BY <1>2 DEF TurnsOf
<1>4. PICK f \in [0..n -> TasksetStates] :
          f[0] = base /\ \A i \in 1..n : f[i] = t[<<i, f[i - 1]>>]
  <2> HIDE DEF t, base, n
  <2>1. RunsOf(n, TasksetStates, base, t) # {}
    BY <1>0, <1>1, <1>3, Loop
  <2> QED
    BY <2>1 DEF RunsOf
<1>5. P(f)
  <2>1. ASSUME NEW i \in 1..n PROVE f[i] = TasksetTurn(u, f[i - 1], i)
    <3>1. i - 1 \in 0..n
      BY <1>0
    <3>2. <<i, f[i - 1]>> \in (1..n) \X TasksetStates
      BY <3>1
    <3>3. t[<<i, f[i - 1]>>] = TasksetTurn(u, f[i - 1], i)
      BY <3>2
    <3> QED
      BY <1>4, <3>3
  <2> HIDE DEF base, t, n
  <2>2. \A i \in 0..n : f[i] = IF i = 0 THEN base ELSE TasksetTurn(u, f[i - 1], i)
    BY <1>0, <1>4, <2>1
  <2> QED
    BY <2>2
<1>6. g0 = CHOOSE g : P(g)
  BY DEF TasksetTurns
<1> HIDE DEF P, g0, base
<1>7. P(g0)
  BY <1>5, <1>6
<1>8. /\ DOMAIN g0 = 0..n /\ g0[0] = base
      /\ \A i \in 1..n : g0[i] = TasksetTurn(u, g0[i - 1], i)
  <2> HIDE DEF n
  <2>1. g0 = [i \in 0..n |-> IF i = 0 THEN base ELSE TasksetTurn(u, g0[i - 1], i)]
    BY <1>7 DEF P
  <2> QED
    BY <1>0, <2>1
<1> DEFINE T == { i \in 0..n : g0[i] \in TasksetStates }
<1>9. \A i \in 0..n : i \in T
  <2>1. 0 \in T
    BY <1>0, <1>1, <1>8
  <2>2. ASSUME NEW i \in 0..(n - 1), i \in T PROVE i + 1 \in T
    <3>1. i + 1 \in 1..n /\ i + 1 - 1 = i /\ i + 1 \in 0..n
      BY <1>0
    <3>2. g0[i + 1] = TasksetTurn(u, g0[i], i + 1)
      BY <1>8, <3>1
    <3>3. g0[i] \in TasksetStates
      BY <2>2
    <3>4. g0[i + 1] \in TasksetStates
      BY <1>2, <3>1, <3>2, <3>3
    <3> QED
      BY <3>1, <3>4
  <2> HIDE DEF T
  <2> QED
    BY <1>0, <2>1, <2>2, UpTo
<1>10. g0 \in [0..n -> TasksetStates]
  <2>1. g0 = [i \in 0..n |-> g0[i]]
    BY <1>7 DEF P
  <2> QED
    BY <1>9, <2>1
<1> QED
  BY <1>8, <1>10 DEF g0, base

\* The first run that begins at index i of a sorted list is a maximal interval
\* when the id before it is not in the set.
LEMMA RunIsInterval ==
    ASSUME NEW S \in SUBSET Nat, IsFiniteSet(S), NEW i \in 1..Cardinality(S),
           Sorted(S)[i] - 1 \notin S
    PROVE  LET m == RunEnd(Sorted(S), i)
           IN  /\ m \in (i + 1)..(Cardinality(S) + 1)
               /\ <<Sorted(S)[i], Sorted(S)[m - 1]>> \in Intervals(S)
               /\ m <= Cardinality(S) => Sorted(S)[m] - 1 \notin S
<1> DEFINE k == Cardinality(S)
           xs == Sorted(S)
           m == RunEnd(xs, i)
<1>1. /\ k \in Nat /\ xs \in [1..k -> S] /\ Len(xs) = k
      /\ \A h, j \in 1..k : h < j => xs[h] < xs[j]
  BY SortedIs
<1>2. \A y \in S : \A j \in 1..k : y <= xs[j] \/ (j + 1 <= k /\ xs[j + 1] <= y)
  BY SortedGaps
<1> HIDE DEF k, xs
<1>3. xs \in Seq(Nat) /\ \A j \in 1..k : xs[j] \in S /\ xs[j] \in Nat
  <2>1. xs \in [1..k -> Nat]
    BY <1>1
  <2> QED
    BY <1>1, <2>1
<1>4. /\ m \in (i + 1)..(k + 1)
      /\ \A h \in (i + 1)..(m - 1) : xs[h] = xs[h - 1] + 1
      /\ m <= k => xs[m] # xs[m - 1] + 1
  <2>1. i \in 1..Len(xs)
    BY <1>1 DEF k
  <2> QED
    BY <1>1, <1>3, <2>1, RunEndIs
<1> HIDE DEF m
<1>5. i \in 1..k /\ m - 1 \in 1..k /\ m - 1 >= i /\ m \in Nat
  BY <1>1, <1>4 DEF k
<1> DEFINE N == m - 1 - i
           T == { d \in 0..N : xs[i + d] = xs[i] + d }
<1>6. N \in Nat
  BY <1>5
<1>7. \A d \in 0..N : d \in T
  <2>1. 0 \in T
    BY <1>3, <1>5, <1>6
  <2>2. ASSUME NEW d \in 0..(N - 1), d \in T PROVE d + 1 \in T
    <3>1. i + d + 1 \in (i + 1)..(m - 1) /\ i + d + 1 - 1 = i + d /\ d + 1 \in 0..N
      BY <1>5, <1>6
    <3>2. xs[i + d + 1] = xs[i + d] + 1
      BY <1>4, <3>1
    <3>3. xs[i + d] = xs[i] + d
      BY <2>2
    <3>4. i + (d + 1) = i + d + 1 /\ xs[i] + (d + 1) = xs[i] + d + 1
      <4>1. xs[i] \in Nat /\ d \in Nat
        BY <1>3, <1>5, <1>6
      <4> QED
        BY <4>1
    <3> QED
      BY <3>1, <3>2, <3>3, <3>4
  <2> HIDE DEF T, N
  <2> QED
    BY <1>6, <2>1, <2>2, UpTo
<1>8. xs[m - 1] = xs[i] + N
  <2>1. N \in T /\ i + N = m - 1
    BY <1>5, <1>6, <1>7
  <2> QED
    BY <2>1
<1>9. ASSUME NEW x \in xs[i]..xs[m - 1] PROVE x \in S
  <2> DEFINE d == x - xs[i]
  <2>1. xs[i] \in Nat
    BY <1>3, <1>5
  <2>2. d \in 0..N /\ x = xs[i] + d
    BY <1>6, <1>8, <2>1
  <2> HIDE DEF d
  <2>3. xs[i + d] = x
    BY <1>7, <2>2
  <2>4. i + d \in 1..k
    BY <1>1, <1>5, <2>2
  <2> QED
    BY <1>3, <2>3, <2>4
<1>10. m <= k => /\ m \in 1..k /\ xs[m] \in Nat /\ xs[m - 1] < xs[m] /\ xs[m] # xs[m - 1] + 1
                 /\ xs[m - 1] \in Nat
  BY <1>1, <1>3, <1>4, <1>5
<1>11. xs[m - 1] + 1 \notin S
  <2> SUFFICES ASSUME xs[m - 1] + 1 \in S PROVE FALSE
    OBVIOUS
  <2>1. xs[m - 1] \in Nat /\ m - 1 + 1 = m
    BY <1>3, <1>5
  <2>2. m <= k /\ xs[m] <= xs[m - 1] + 1
    BY <1>2, <1>5, <2>1
  <2> QED
    BY <1>10, <2>1, <2>2
<1>12. ASSUME m <= k PROVE xs[m] - 1 \notin S
  <2> SUFFICES ASSUME xs[m] - 1 \in S PROVE FALSE
    OBVIOUS
  <2>0. m - 1 + 1 = m
    BY <1>5
  <2>1. xs[m] - 1 <= xs[m - 1] \/ xs[m] <= xs[m] - 1
    BY <1>2, <1>5, <2>0
  <2> QED
    BY <1>10, <1>12, <2>1
<1>13. <<xs[i], xs[m - 1]>> \in Intervals(S)
  <2>1. xs[i] \in S /\ xs[m - 1] \in S /\ xs[i] <= xs[m - 1] /\ xs[i] - 1 \notin S
    BY <1>3, <1>5, <1>6, <1>8 DEF xs
  <2> QED
    BY <1>9, <1>11, <2>1 DEF Intervals
<1> QED
  BY <1>4, <1>12, <1>13 DEF k, xs, m

\* CPUsToTasksetSpec writes the maximal intervals in order.
LEMMA TasksetIs ==
    ASSUME NEW S \in SUBSET Nat, IsFiniteSet(S)
    PROVE  CPUsToTasksetSpec(S) = Reference(S)
<1> DEFINE k == Cardinality(S)
           xs == Sorted(S)
           f == TasksetTurns(xs)
           bound(m) == IF m <= k THEN xs[m] ELSE IF k = 0 THEN 0 ELSE xs[k] + 1
           Good(i) == /\ f[i].next \in (i + 1)..(k + 1)
                      /\ f[i].next <= k => xs[f[i].next] - 1 \notin S
                      /\ Written(S, f[i].parts, bound(f[i].next))
<1>0. CPUsToTasksetSpec(S) = f[k].parts
  BY DEF CPUsToTasksetSpec
<1>1. /\ k \in Nat /\ xs \in [1..k -> S] /\ Len(xs) = k
      /\ \A h, j \in 1..k : h < j => xs[h] < xs[j]
  BY SortedIs
<1>2. /\ \A y \in S : 1 <= k /\ xs[1] <= y
      /\ \A y \in S : \A j \in 1..k : y <= xs[j] \/ (j + 1 <= k /\ xs[j + 1] <= y)
  BY SortedGaps
<1>3. ASSUME NEW i \in 1..k, xs[i] - 1 \notin S
      PROVE  /\ RunEnd(xs, i) \in (i + 1)..(k + 1)
             /\ <<xs[i], xs[RunEnd(xs, i) - 1]>> \in Intervals(S)
             /\ RunEnd(xs, i) <= k => xs[RunEnd(xs, i)] - 1 \notin S
  BY <1>3, RunIsInterval
<1> HIDE DEF k, xs
<1>4. xs \in Seq(Nat) /\ \A j \in 1..k : xs[j] \in S /\ xs[j] \in Nat
  <2>1. xs \in [1..k -> Nat]
    BY <1>1
  <2> QED
    BY <1>1, <2>1
<1>5. /\ f \in [0..k -> TasksetStates]
      /\ f[0] = [next |-> 1, parts |-> << >>]
      /\ \A i \in 1..k : f[i] = TasksetTurn(xs, f[i - 1], i)
  BY <1>1, <1>4, TasksetLoop
<1> HIDE DEF f
<1>6. \A m \in 1..(k + 1) : bound(m) \in Nat
  BY <1>1, <1>4
<1>7. Good(0)
  <2>1. f[0].next = 1 /\ f[0].parts = << >>
    BY <1>5
  <2>2. 1 \in (0 + 1)..(k + 1)
    BY <1>1
  <2>3. 1 <= k => xs[1] - 1 \notin S
    BY <1>2, <1>4
  <2>4. Written(S, << >>, bound(1))
    <3>1. << >> \in Seq(Intervals(S)) /\ Len(<< >>) = 0
      OBVIOUS
    <3>2. ASSUME NEW y \in S PROVE ~(y < bound(1))
      <4>1. 1 <= k /\ xs[1] <= y /\ xs[1] \in Nat /\ y \in Nat
        BY <1>1, <1>2, <1>4
      <4> QED
        BY <4>1
    <3> HIDE DEF bound
    <3> QED
      BY <3>1, <3>2 DEF Written
  <2> HIDE DEF bound
  <2> QED
    BY <2>1, <2>2, <2>3, <2>4
<1>8. ASSUME NEW i \in 1..k, Good(i - 1) PROVE Good(i)
  <2> DEFINE a == f[i - 1]
             m == RunEnd(xs, i)
  <2>1. /\ a.next \in i..(k + 1) /\ (a.next <= k => xs[a.next] - 1 \notin S)
        /\ Written(S, a.parts, bound(a.next))
    <3>1. i - 1 + 1 = i
      OBVIOUS
    <3> HIDE DEF bound
    <3> QED
      BY <1>8, <3>1
  <2>2. f[i] = TasksetTurn(xs, a, i)
    BY <1>5
  <2> HIDE DEF a
  <2>3. CASE i < a.next
    <3>1. f[i] = a
      BY <2>2, <2>3 DEF TasksetTurn
    <3>2. a.next \in (i + 1)..(k + 1)
      BY <1>1, <2>1, <2>3
    <3> HIDE DEF bound
    <3> QED
      BY <2>1, <3>1, <3>2
  <2>4. CASE ~(i < a.next)
    <3>1. a.next = i /\ i <= k
      BY <1>1, <2>1, <2>4
    <3>2. f[i] = [next |-> m, parts |-> Append(a.parts, <<xs[i], xs[m - 1]>>)]
      BY <2>2, <2>4 DEF TasksetTurn
    <3>3. /\ m \in (i + 1)..(k + 1)
          /\ <<xs[i], xs[m - 1]>> \in Intervals(S)
          /\ m <= k => xs[m] - 1 \notin S
      BY <1>3, <2>1, <3>1
    <3> HIDE DEF m
    <3>4. Written(S, a.parts, xs[i])
      BY <2>1, <3>1
    <3>5. m - 1 \in 1..k /\ xs[m - 1] \in Nat /\ m - 1 + 1 = m /\ m \in 1..(k + 1)
      BY <1>1, <1>4, <3>3
    <3>6. xs[m - 1] < bound(m)
      <4>1. CASE m <= k
        <5>1. m \in 1..k /\ m - 1 < m
          BY <1>1, <3>5, <4>1
        <5>2. xs[m - 1] < xs[m]
          BY <1>1, <3>5, <5>1
        <5> QED
          BY <4>1, <5>2
      <4>2. CASE ~(m <= k)
        <5>1. m - 1 = k /\ k # 0
          BY <1>1, <3>5, <4>2
        <5> QED
          BY <3>5, <4>2, <5>1
      <4> QED
        BY <4>1, <4>2
    <3>7. ASSUME NEW x \in S, x < bound(m) PROVE x <= xs[m - 1]
      <4>1. x <= xs[m - 1] \/ (m <= k /\ xs[m] <= x)
        BY <1>2, <3>5
      <4>2. ASSUME m <= k, xs[m] <= x PROVE FALSE
        <5>1. m \in 1..k /\ xs[m] \in Nat /\ x \in Nat
          BY <1>1, <1>4, <3>5, <4>2
        <5> QED
          BY <3>7, <4>2, <5>1
      <4> QED
        BY <4>1, <4>2
    <3>8. bound(m) \in Nat /\ xs[i] \in Nat
      BY <1>4, <1>6, <3>5
    <3> HIDE DEF bound
    <3>9. Written(S, Append(a.parts, <<xs[i], xs[m - 1]>>), bound(m))
      BY <3>3, <3>4, <3>5, <3>6, <3>7, <3>8, WriteOne
    <3>10. f[i].next = m /\ f[i].parts = Append(a.parts, <<xs[i], xs[m - 1]>>)
      BY <3>2
    <3> QED
      BY <3>3, <3>9, <3>10
  <2> QED
    BY <2>3, <2>4
<1> DEFINE G == { i \in 0..k : Good(i) }
<1>9. \A i \in 0..k : i \in G
  <2> HIDE DEF Good
  <2>1. 0 \in G
    BY <1>1, <1>7
  <2>2. ASSUME NEW i \in 0..(k - 1), i \in G PROVE i + 1 \in G
    <3>1. i + 1 \in 1..k /\ i + 1 - 1 = i /\ i + 1 \in 0..k
      BY <1>1
    <3>2. Good(i + 1 - 1)
      BY <2>2, <3>1
    <3>3. Good(i + 1)
      BY <1>8, <3>1, <3>2
    <3> QED
      BY <3>1, <3>3
  <2> HIDE DEF G
  <2> QED
    BY <1>1, <2>1, <2>2, UpTo
<1>10. Good(k)
  <2> HIDE DEF Good
  <2> QED
    BY <1>1, <1>9
<1>11. f[k].next = k + 1 /\ Written(S, f[k].parts, bound(k + 1))
  <2>1. f[k].next \in (k + 1)..(k + 1)
    BY <1>10
  <2>2. f[k].next = k + 1
    BY <1>1, <2>1
  <2> HIDE DEF bound
  <2> QED
    BY <1>10, <2>2
<1>12. bound(k + 1) \in Nat
  BY <1>1, <1>6
<1>13. ASSUME NEW x \in S PROVE x < bound(k + 1)
  <2>1. 1 <= k /\ x \in Nat
    BY <1>2
  <2>2. k \in 1..k /\ k # 0
    BY <1>1, <2>1
  <2>3. x <= xs[k] /\ xs[k] \in Nat
    BY <1>1, <1>2, <1>4, <2>2
  <2> QED
    BY <1>1, <2>1, <2>2, <2>3
<1> HIDE DEF bound
<1>14. f[k].parts = Reference(S)
  BY <1>11, <1>12, <1>13, WrittenAll
<1> QED
  BY <1>0, <1>14

-----------------------------------------------------------------------------
(* Counting.                                                               *)

\* The values of a function on a finite set.
LEMMA ImageFinite ==
    ASSUME NEW D, IsFiniteSet(D), NEW f, DOMAIN f = D
    PROVE  IsFiniteSet({ f[x] : x \in D })
<1> DEFINE T == { f[x] : x \in D }
           g == [x \in D |-> f[x]]
<1>1. g \in Surjection(D, T)
  BY DEF Surjection
<1> HIDE DEF g, T
<1>2. IsFiniteSet(T)
  BY <1>1, FS_Surjection
<1> QED
  BY <1>2 DEF T

\* Two functions that tell the same arguments apart have as many values.
LEMMA SameKernel ==
    ASSUME NEW D, IsFiniteSet(D), NEW f, NEW g, DOMAIN f = D, DOMAIN g = D,
           \A c, d \in D : f[c] = f[d] <=> g[c] = g[d]
    PROVE  Cardinality({ f[x] : x \in D }) = Cardinality({ g[x] : x \in D })
<1> DEFINE F == { f[x] : x \in D }
           G == { g[x] : x \in D }
           pick(y) == CHOOSE x \in D : f[x] = y
           h == [y \in F |-> g[pick(y)]]
<1>1. ASSUME NEW y \in F PROVE pick(y) \in D /\ f[pick(y)] = y
  OBVIOUS
<1>2. ASSUME NEW c \in D PROVE f[c] \in F /\ h[f[c]] = g[c]
  <2>1. f[c] \in F
    OBVIOUS
  <2>2. pick(f[c]) \in D /\ f[pick(f[c])] = f[c]
    BY <1>1, <2>1
  <2> HIDE DEF pick
  <2>3. g[pick(f[c])] = g[c]
    BY <2>2
  <2> QED
    BY <2>1, <2>3
<1>3. h \in [F -> G]
  <2> HIDE DEF pick
  <2> QED
    BY <1>1
<1>4. ASSUME NEW y \in F, NEW z \in F, h[y] = h[z] PROVE y = z
  <2>1. /\ pick(y) \in D /\ f[pick(y)] = y
        /\ pick(z) \in D /\ f[pick(z)] = z
    BY <1>1
  <2> HIDE DEF pick
  <2>2. g[pick(y)] = g[pick(z)]
    BY <1>4
  <2> QED
    BY <2>1, <2>2
<1>5. ASSUME NEW w \in G PROVE \E y \in F : h[y] = w
  <2>1. PICK c \in D : w = g[c]
    OBVIOUS
  <2> HIDE DEF h, F
  <2> QED
    BY <1>2, <2>1
<1> HIDE DEF h
<1>6. h \in Bijection(F, G)
  BY <1>3, <1>4, <1>5 DEF Bijection, Injection, Surjection, IsInjective
<1>7. ExistsBijection(F, G)
  BY <1>6 DEF ExistsBijection
<1>8. IsFiniteSet(F)
  BY ImageFinite
<1> HIDE DEF F, G
<1>9. Cardinality(G) = Cardinality(F)
  BY <1>7, <1>8, FS_Bijection
<1> QED
  BY <1>9 DEF F, G

\* The sum of the sizes of disjoint sets is the size of their union.
LEMMA TotalIs ==
    ASSUME NEW n \in Nat, NEW U, IsFiniteSet(U), NEW parts \in [1..n -> SUBSET U],
           \A i, j \in 1..n : i # j => parts[i] \cap parts[j] = {},
           NEW counts \in [1..n -> Nat], \A i \in 1..n : counts[i] = Cardinality(parts[i])
    PROVE  Total(counts) = Cardinality(UNION { parts[i] : i \in 1..n })
<1> DEFINE t == [z \in (1..n) \X Nat |-> z[2] + counts[z[1]]]
           P(g) == g = [i \in 0..n |-> IF i = 0 THEN 0 ELSE g[i - 1] + counts[i]]
           g0 == CHOOSE g : P(g)
           upto(i) == UNION { parts[j] : j \in 1..i }
<1>1. Len(counts) = n
  OBVIOUS
<1>2. Total(counts) = g0[n]
  BY <1>1 DEF Total
<1>3. t \in TurnsOf(n, Nat)
  BY DEF TurnsOf
<1>4. PICK f \in [0..n -> Nat] : f[0] = 0 /\ \A i \in 1..n : f[i] = t[<<i, f[i - 1]>>]
  <2> HIDE DEF t
  <2>1. RunsOf(n, Nat, 0, t) # {}
    BY <1>3, Loop
  <2> QED
    BY <2>1 DEF RunsOf
<1>5. P(f)
  <2>1. ASSUME NEW i \in 1..n PROVE f[i] = f[i - 1] + counts[i]
    <3>1. i - 1 \in 0..n
      OBVIOUS
    <3>2. <<i, f[i - 1]>> \in (1..n) \X Nat
      BY <3>1
    <3>3. t[<<i, f[i - 1]>>] = f[i - 1] + counts[i]
      BY <3>2
    <3> QED
      BY <1>4, <3>3
  <2> HIDE DEF t
  <2>2. \A i \in 0..n : f[i] = IF i = 0 THEN 0 ELSE f[i - 1] + counts[i]
    BY <1>4, <2>1
  <2> QED
    BY <2>2
<1> HIDE DEF P
<1>6. P(g0)
  BY <1>5
<1> HIDE DEF g0
<1>7. g0[0] = 0 /\ \A i \in 1..n : g0[i] = g0[i - 1] + counts[i]
  <2>1. g0 = [i \in 0..n |-> IF i = 0 THEN 0 ELSE g0[i - 1] + counts[i]]
    BY <1>6 DEF P
  <2> QED
    BY <2>1
<1>8. \A i \in 0..n : IsFiniteSet(upto(i)) /\ upto(i) \in SUBSET U
  <2> SUFFICES ASSUME NEW i \in 0..n PROVE IsFiniteSet(upto(i)) /\ upto(i) \in SUBSET U
    OBVIOUS
  <2>1. upto(i) \in SUBSET U
    OBVIOUS
  <2> HIDE DEF upto
  <2> QED
    BY <2>1, FS_Subset
<1>9. \A i \in 1..n : IsFiniteSet(parts[i]) /\ parts[i] \in SUBSET U
  <2> SUFFICES ASSUME NEW i \in 1..n PROVE IsFiniteSet(parts[i]) /\ parts[i] \in SUBSET U
    OBVIOUS
  <2>1. parts[i] \in SUBSET U
    OBVIOUS
  <2> QED
    BY <2>1, FS_Subset
<1> DEFINE T == { i \in 0..n : g0[i] = Cardinality(upto(i)) }
<1>10. \A i \in 0..n : i \in T
  <2>1. 0 \in T
    <3>1. upto(0) = {}
      OBVIOUS
    <3>2. Cardinality(upto(0)) = 0
      <4> HIDE DEF upto
      <4> QED
        BY <3>1, FS_EmptySet
    <3>3. 0 \in 0..n
      OBVIOUS
    <3> HIDE DEF upto
    <3> QED
      BY <1>7, <3>2, <3>3
  <2>2. ASSUME NEW i \in 0..(n - 1), i \in T PROVE i + 1 \in T
    <3>1. i + 1 \in 1..n /\ i + 1 - 1 = i /\ i + 1 \in 0..n /\ i \in 0..n
      OBVIOUS
    <3>2. upto(i + 1) = upto(i) \cup parts[i + 1]
      <4>1. \A j \in 1..(i + 1) : j \in 1..i \/ j = i + 1
        OBVIOUS
      <4>2. \A j \in 1..i : j \in 1..(i + 1)
        OBVIOUS
      <4>3. i + 1 \in 1..(i + 1)
        OBVIOUS
      <4> QED
        BY <4>1, <4>2, <4>3
    <3>3. upto(i) \cap parts[i + 1] = {}
      <4>1. \A j \in 1..i : j \in 1..n /\ j # i + 1
        OBVIOUS
      <4> QED
        BY <3>1, <4>1
    <3>4. g0[i + 1] = g0[i] + Cardinality(parts[i + 1])
      BY <1>7, <3>1
    <3>5. IsFiniteSet(upto(i)) /\ IsFiniteSet(parts[i + 1])
      BY <1>8, <1>9, <3>1
    <3> HIDE DEF upto
    <3>6. Cardinality(upto(i + 1)) = Cardinality(upto(i)) + Cardinality(parts[i + 1])
      <4>1. Cardinality(upto(i)) \in Nat /\ Cardinality(parts[i + 1]) \in Nat
        BY <3>5, FS_CardinalityType
      <4>2. Cardinality(upto(i) \cap parts[i + 1]) = 0
        BY <3>3, FS_EmptySet
      <4>3. Cardinality(upto(i) \cup parts[i + 1])
                = Cardinality(upto(i)) + Cardinality(parts[i + 1]) - Cardinality(upto(i) \cap parts[i + 1])
        BY <3>5, FS_Union
      <4>4. Cardinality(upto(i + 1)) = Cardinality(upto(i) \cup parts[i + 1])
        BY <3>2
      <4> QED
        BY <4>1, <4>2, <4>3, <4>4
    <3> QED
      BY <2>2, <3>1, <3>4, <3>6
  <2> HIDE DEF T
  <2> QED
    BY <2>1, <2>2, UpTo
<1>11. g0[n] = Cardinality(upto(n))
  BY <1>10
<1> QED
  BY <1>2, <1>11

\* The smallest and the largest of finitely many numbers.
LEMMA MinMaxIs ==
    ASSUME NEW S \in SUBSET Nat, IsFiniteSet(S), NEW y \in S
    PROVE  Min(S) <= y /\ y <= Max(S)
<1>1. PICK a \in S : \A x \in S : a <= x
  BY LeastExists
<1>2. Min(S) <= y
  <2>1. \E x \in S : \A z \in S : x =< z
    BY <1>1
  <2> QED
    BY <2>1 DEF Min
<1>3. PICK b \in S : \A x \in S : x <= b
  <2> DEFINE k == Cardinality(S)
  <2>1. k \in Nat /\ 1 <= k /\ Sorted(S) \in [1..k -> S]
    BY SortedIs, SortedGaps
  <2>2. k \in 1..k
    BY <2>1
  <2>3. \A x \in S : x <= Sorted(S)[k] \/ k + 1 <= k
    BY <2>2, SortedGaps
  <2> HIDE DEF k
  <2>4. Sorted(S)[k] \in S
    BY <2>1, <2>2
  <2>5. ~(k + 1 <= k)
    BY <2>1
  <2>6. \A x \in S : x <= Sorted(S)[k]
    BY <2>3, <2>5
  <2> QED
    BY <2>4, <2>6
<1>4. y <= Max(S)
  <2>1. \E x \in S : \A z \in S : x >= z
    <3>1. \A z \in S : b >= z
      BY <1>3
    <3> QED
      BY <3>1
  <2>2. Max(S) \in S /\ Max(S) >= y
    BY <2>1 DEF Max
  <2> QED
    BY <2>2
<1> QED
  BY <1>2, <1>4

-----------------------------------------------------------------------------
(* The tree and the hints of any topology.                                 *)

\* A topology of finitely many CPUs and nodes.
WellFormed(t) ==
    /\ DOMAIN t.cpus \in SUBSET Nat /\ IsFiniteSet(DOMAIN t.cpus)
    /\ \A c \in DOMAIN t.cpus : t.cpus[c].pkg \in Nat
    /\ DOMAIN t.nodes \in SUBSET Nat /\ IsFiniteSet(DOMAIN t.nodes)
    /\ \A n \in DOMAIN t.nodes : t.nodes[n] \in SUBSET Nat /\ IsFiniteSet(t.nodes[n])

\* The tree shows every CPU on one line.
LEMMA TreeIs ==
    ASSUME NEW t, NEW c \in DOMAIN t.cpus
    PROVE  Cardinality({ l \in FormatASCII(t) : c \in l.threads }) = 1
<1> DEFINE beside(a) == { d \in CPUsOfPackage(t, t.cpus[a].pkg) :
                            t.cpus[d].numa = t.cpus[a].numa /\ t.cpus[d].core = t.cpus[a].core }
           line(a) == [package |-> t.cpus[a].pkg, node |-> t.cpus[a].numa,
                       core |-> t.cpus[a].core, threads |-> beside(a)]
           L == { l \in FormatASCII(t) : c \in l.threads }
<1>1. FormatASCII(t) = { line(a) : a \in DOMAIN t.cpus }
  BY DEF FormatASCII
<1>2. \A a : \A d : d \in beside(a) <=>
          /\ d \in DOMAIN t.cpus /\ t.cpus[d].pkg = t.cpus[a].pkg
          /\ t.cpus[d].numa = t.cpus[a].numa /\ t.cpus[d].core = t.cpus[a].core
  BY DEF CPUsOfPackage
<1> HIDE DEF beside
<1>3. \A a : line(a).threads = beside(a)
  OBVIOUS
<1>4. ASSUME NEW a \in DOMAIN t.cpus, c \in beside(a) PROVE line(a) = line(c)
  <2>1. /\ t.cpus[a].pkg = t.cpus[c].pkg
        /\ t.cpus[a].numa = t.cpus[c].numa /\ t.cpus[a].core = t.cpus[c].core
    BY <1>2, <1>4
  <2>2. beside(a) = beside(c)
    <3>1. \A d : d \in beside(a) <=> d \in beside(c)
      BY <1>2, <2>1
    <3>2. beside(a) \subseteq beside(c) /\ beside(c) \subseteq beside(a)
      BY <3>1
    <3> QED
      BY <3>2
  <2> QED
    BY <2>1, <2>2
<1>5. c \in beside(c)
  BY <1>2
<1> HIDE DEF line
<1>6. L = {line(c)}
  <2>1. line(c) \in L
    BY <1>1, <1>3, <1>5
  <2>2. ASSUME NEW l \in L PROVE l = line(c)
    <3>1. PICK a \in DOMAIN t.cpus : l = line(a)
      BY <1>1
    <3>2. c \in beside(a)
      BY <1>3, <3>1
    <3> QED
      BY <1>4, <3>1, <3>2
  <2> QED
    BY <2>1, <2>2
<1> HIDE DEF L
<1>7. Cardinality(L) = 1
  BY <1>6, FS_Singleton
<1> QED
  BY <1>7 DEF L

\* The packages cut the CPUs, and the cores, into disjoint parts.
LEMMA SocketsIs ==
    ASSUME NEW t, WellFormed(t)
    PROVE  LET pkgs  == PackageIDs(t)
               pairs == { <<t.cpus[c].pkg, t.cpus[c].core>> : c \in DOMAIN t.cpus }
           IN  /\ Len(pkgs) \in Nat /\ DOMAIN pkgs = 1..Len(pkgs)
               /\ UNION { CPUsOfPackage(t, pkgs[i]) : i \in DOMAIN pkgs } = DOMAIN t.cpus
               /\ Total([i \in DOMAIN pkgs |-> Cardinality(CPUsOfPackage(t, pkgs[i]))])
                      = Cardinality(DOMAIN t.cpus)
               /\ Total([i \in DOMAIN pkgs |-> Cardinality(Cores(t, pkgs[i]))]) = Cardinality(pairs)
<1> DEFINE pkgs  == PackageIDs(t)
           D     == DOMAIN t.cpus
           pkg   == [c \in D |-> t.cpus[c].pkg]
           pair  == [c \in D |-> <<t.cpus[c].pkg, t.cpus[c].core>>]
           core  == [c \in D |-> t.cpus[c].core]
           S     == { pkg[c] : c \in D }
           pairs == { pair[c] : c \in D }
           n     == Cardinality(S)
           of    == [i \in 1..n |-> CPUsOfPackage(t, pkgs[i])]
           part  == [i \in 1..n |-> { pair[c] : c \in CPUsOfPackage(t, pkgs[i]) }]
<1>1. IsFiniteSet(D) /\ D \in SUBSET Nat /\ \A c \in D : pkg[c] \in Nat
  BY DEF WellFormed
<1>2. IsFiniteSet(S) /\ IsFiniteSet(pairs)
  <2>1. DOMAIN pkg = D /\ DOMAIN pair = D
    OBVIOUS
  <2> HIDE DEF D, pkg, pair
  <2> QED
    BY <1>1, <2>1, ImageFinite
<1>3. S \in SUBSET Nat /\ pkgs = Sorted(S)
  BY <1>1 DEF PackageIDs
<1>4. /\ n \in Nat /\ pkgs \in [1..n -> S] /\ Len(pkgs) = n
      /\ \A i, j \in 1..n : i < j => pkgs[i] < pkgs[j]
      /\ \A x \in S : \E i \in 1..n : pkgs[i] = x
  <2> HIDE DEF S, pkgs
  <2> QED
    BY <1>2, <1>3, SortedIs
<1>5. \A i, j \in 1..n : i # j => pkgs[i] # pkgs[j]
  <2> SUFFICES ASSUME NEW i \in 1..n, NEW j \in 1..n, i # j PROVE pkgs[i] # pkgs[j]
    OBVIOUS
  <2> HIDE DEF S, pkgs, n
  <2>1. pkgs[i] \in Nat /\ pkgs[j] \in Nat
    BY <1>3, <1>4
  <2>2. i < j \/ j < i
    BY <1>4
  <2> QED
    BY <1>4, <2>1, <2>2
<1>6. \A p : \A c : c \in CPUsOfPackage(t, p) <=> c \in D /\ pkg[c] = p
  BY DEF CPUsOfPackage
<1>7. \A p : Cores(t, p) = { core[c] : c \in CPUsOfPackage(t, p) }
  BY DEF Cores, CPUsOfPackage
<1>8. \A c \in D : pair[c] = <<pkg[c], core[c]>>
  OBVIOUS
<1>9. DOMAIN pkgs = 1..n
  BY <1>4
<1>10. pairs = { <<t.cpus[c].pkg, t.cpus[c].core>> : c \in DOMAIN t.cpus }
  OBVIOUS
<1>11. \A c \in D : pkg[c] \in S /\ pair[c] \in pairs
  OBVIOUS
<1>12. /\ \A i \in 1..n : of[i] = CPUsOfPackage(t, pkgs[i]) /\ of[i] \in SUBSET D
       /\ of \in [1..n -> SUBSET D]
  BY <1>6
<1>13. /\ \A i \in 1..n : part[i] = { pair[c] : c \in CPUsOfPackage(t, pkgs[i]) } /\ part[i] \in SUBSET pairs
       /\ part \in [1..n -> SUBSET pairs]
  <2>1. ASSUME NEW i \in 1..n PROVE { pair[c] : c \in CPUsOfPackage(t, pkgs[i]) } \in SUBSET pairs
    <3>1. CPUsOfPackage(t, pkgs[i]) \subseteq D
      BY <1>6
    <3> HIDE DEF pair
    <3> QED
      BY <3>1
  <2> HIDE DEF pairs, pair, n, pkgs
  <2> QED
    BY <2>1
<1> HIDE DEF pkgs, D, pkg, pair, core, S, pairs, n, of, part
<1>14. UNION { of[i] : i \in 1..n } = D
  <2>1. ASSUME NEW c \in D PROVE \E i \in 1..n : c \in of[i]
    <3>1. PICK i \in 1..n : pkgs[i] = pkg[c]
      BY <1>4, <1>11
    <3> QED
      BY <1>6, <1>12, <3>1
  <2> QED
    BY <1>12, <2>1
<1>15. UNION { part[i] : i \in 1..n } = pairs
  <2>1. ASSUME NEW x \in pairs PROVE \E i \in 1..n : x \in part[i]
    <3>1. PICK c \in D : x = pair[c]
      BY DEF pairs
    <3>2. PICK i \in 1..n : pkgs[i] = pkg[c]
      BY <1>4, <1>11
    <3> QED
      BY <1>6, <1>13, <3>1, <3>2
  <2> QED
    BY <1>13, <2>1
<1>16. ASSUME NEW i \in 1..n, NEW j \in 1..n, i # j
       PROVE  of[i] \cap of[j] = {} /\ part[i] \cap part[j] = {}
  <2>1. pkgs[i] # pkgs[j]
    BY <1>5, <1>16
  <2>2. \A c \in of[i] : c \in D /\ pkg[c] = pkgs[i]
    BY <1>6, <1>12
  <2>3. \A c \in of[j] : c \in D /\ pkg[c] = pkgs[j]
    BY <1>6, <1>12
  <2>4. \A x \in part[i] : x[1] = pkgs[i]
    BY <1>6, <1>8, <1>13
  <2>5. \A x \in part[j] : x[1] = pkgs[j]
    BY <1>6, <1>8, <1>13
  <2> QED
    BY <2>1, <2>2, <2>3, <2>4, <2>5
<1>17. ASSUME NEW i \in 1..n PROVE IsFiniteSet(of[i]) /\ IsFiniteSet(part[i])
  BY <1>1, <1>2, <1>12, <1>13, FS_Subset
<1>18. ASSUME NEW i \in 1..n PROVE Cardinality(part[i]) = Cardinality(Cores(t, pkgs[i]))
  <2> DEFINE E == CPUsOfPackage(t, pkgs[i])
             f == [c \in E |-> pair[c]]
             g == [c \in E |-> core[c]]
  <2>1. IsFiniteSet(E)
    BY <1>12, <1>17
  <2>2. \A c \in E : f[c] = <<pkgs[i], core[c]>> /\ g[c] = core[c]
    BY <1>6, <1>8
  <2>3. DOMAIN f = E /\ DOMAIN g = E /\ part[i] = { f[c] : c \in E }
        /\ Cores(t, pkgs[i]) = { g[c] : c \in E }
    BY <1>7, <1>13
  <2> HIDE DEF E, f, g
  <2>4. \A c, d \in E : f[c] = f[d] <=> g[c] = g[d]
    BY <2>2
  <2>5. Cardinality({ f[c] : c \in E }) = Cardinality({ g[c] : c \in E })
    BY <2>1, <2>3, <2>4, SameKernel
  <2> QED
    BY <2>3, <2>5
<1> DEFINE logical  == [i \in 1..n |-> Cardinality(CPUsOfPackage(t, pkgs[i]))]
           physical == [i \in 1..n |-> Cardinality(Cores(t, pkgs[i]))]
<1>19. logical \in [1..n -> Nat] /\ \A i \in 1..n : logical[i] = Cardinality(of[i])
  <2>1. \A i \in 1..n : Cardinality(of[i]) \in Nat
    BY <1>17, FS_CardinalityType
  <2> QED
    BY <1>12, <2>1
<1>20. physical \in [1..n -> Nat] /\ \A i \in 1..n : physical[i] = Cardinality(part[i])
  <2>1. \A i \in 1..n : Cardinality(part[i]) \in Nat
    BY <1>17, FS_CardinalityType
  <2> QED
    BY <1>18, <2>1
<1> HIDE DEF logical, physical
<1>21. Total(logical) = Cardinality(UNION { of[i] : i \in 1..n })
  <2>1. \A i, j \in 1..n : i # j => of[i] \cap of[j] = {}
    BY <1>16
  <2>2. of \in [1..n -> SUBSET D] /\ n \in Nat /\ IsFiniteSet(D)
    BY <1>1, <1>4, <1>12
  <2>3. \A i \in 1..n : logical[i] = Cardinality(of[i])
    BY <1>19
  <2>4. logical \in [1..n -> Nat]
    BY <1>19
  <2> QED
    BY <2>1, <2>2, <2>3, <2>4, TotalIs
<1>22. Total(physical) = Cardinality(UNION { part[i] : i \in 1..n })
  <2>1. \A i, j \in 1..n : i # j => part[i] \cap part[j] = {}
    BY <1>16
  <2>2. part \in [1..n -> SUBSET pairs] /\ n \in Nat /\ IsFiniteSet(pairs)
    BY <1>2, <1>4, <1>13
  <2>3. \A i \in 1..n : physical[i] = Cardinality(part[i])
    BY <1>20
  <2>4. physical \in [1..n -> Nat]
    BY <1>20
  <2> QED
    BY <2>1, <2>2, <2>3, <2>4, TotalIs
<1>23. { of[i] : i \in 1..n } = { CPUsOfPackage(t, pkgs[i]) : i \in 1..n }
  BY <1>12
<1>24. /\ Len(pkgs) \in Nat /\ DOMAIN pkgs = 1..Len(pkgs)
       /\ UNION { CPUsOfPackage(t, pkgs[i]) : i \in DOMAIN pkgs } = D
       /\ Total([i \in DOMAIN pkgs |-> Cardinality(CPUsOfPackage(t, pkgs[i]))]) = Cardinality(D)
       /\ Total([i \in DOMAIN pkgs |-> Cardinality(Cores(t, pkgs[i]))]) = Cardinality(pairs)
  BY <1>4, <1>9, <1>14, <1>15, <1>21, <1>22, <1>23 DEF logical, physical
<1> QED
  BY <1>10, <1>24 DEF pkgs, D

\* What the hints say of a topology.
LEMMA HintsIs ==
    ASSUME NEW t, WellFormed(t)
    PROVE  LET h == BuildClusterHints(t)
           IN  /\ UNION { ParseCPUList(h.sockets[i].list) : i \in DOMAIN h.sockets } = DOMAIN t.cpus
               /\ Total([i \in DOMAIN h.sockets |-> h.sockets[i].logical]) = h.logicalCPUs
               /\ Total([i \in DOMAIN h.sockets |-> h.sockets[i].physical]) = h.physicalCores
               /\ \A i \in DOMAIN h.numaNodes :
                      LET n == h.numaNodes[i]
                      IN  /\ ParseCPUList(n.list) = t.nodes[n.node]
                          /\ h.minPerNode <= n.logical /\ n.logical <= h.maxPerNode
               /\ h.physicalCores
                      = Cardinality({ <<t.cpus[c].pkg, t.cpus[c].core>> : c \in DOMAIN t.cpus })
<1> DEFINE h     == BuildClusterHints(t)
           pkgs  == PackageIDs(t)
           nodes == Sorted(DOMAIN t.nodes)
           pairs == { <<t.cpus[c].pkg, t.cpus[c].core>> : c \in DOMAIN t.cpus }
           X     == LogicalPerNode(t)
<1>1. /\ h.logicalCPUs = Cardinality(DOMAIN t.cpus)
      /\ h.physicalCores = Cardinality(pairs)
      /\ h.sockets = [i \in DOMAIN pkgs |-> SocketSummary(t, pkgs[i])]
      /\ h.numaNodes = [i \in DOMAIN nodes |-> NUMASummary(t, nodes[i])]
      /\ h.maxPerNode = Max(X) /\ h.minPerNode = Min(X)
  BY DEF BuildClusterHints
<1>2. /\ UNION { CPUsOfPackage(t, pkgs[i]) : i \in DOMAIN pkgs } = DOMAIN t.cpus
      /\ Total([i \in DOMAIN pkgs |-> Cardinality(CPUsOfPackage(t, pkgs[i]))])
             = Cardinality(DOMAIN t.cpus)
      /\ Total([i \in DOMAIN pkgs |-> Cardinality(Cores(t, pkgs[i]))]) = Cardinality(pairs)
  BY SocketsIs
<1> HIDE DEF h, pkgs, nodes, pairs, X
<1>3. ASSUME NEW p PROVE ParseCPUList(FormatCPUList(CPUsOfPackage(t, p))) = CPUsOfPackage(t, p)
  <2>1. CPUsOfPackage(t, p) \in SUBSET (DOMAIN t.cpus)
    BY DEF CPUsOfPackage
  <2>2. DOMAIN t.cpus \in SUBSET Nat /\ IsFiniteSet(DOMAIN t.cpus)
    BY DEF WellFormed
  <2>3. CPUsOfPackage(t, p) \in SUBSET Nat /\ IsFiniteSet(CPUsOfPackage(t, p))
    BY <2>1, <2>2, FS_Subset
  <2> QED
    BY <2>3, FormatIs
<1>4. \A i \in DOMAIN pkgs :
          /\ h.sockets[i].logical = Cardinality(CPUsOfPackage(t, pkgs[i]))
          /\ h.sockets[i].physical = Cardinality(Cores(t, pkgs[i]))
          /\ ParseCPUList(h.sockets[i].list) = CPUsOfPackage(t, pkgs[i])
  BY <1>1, <1>3 DEF SocketSummary
<1>5. DOMAIN h.sockets = DOMAIN pkgs
  BY <1>1
<1>6. UNION { ParseCPUList(h.sockets[i].list) : i \in DOMAIN h.sockets } = DOMAIN t.cpus
  <2>1. { ParseCPUList(h.sockets[i].list) : i \in DOMAIN h.sockets }
            = { CPUsOfPackage(t, pkgs[i]) : i \in DOMAIN pkgs }
    BY <1>4, <1>5
  <2> QED
    BY <1>2, <2>1
<1>7. /\ [i \in DOMAIN h.sockets |-> h.sockets[i].logical]
             = [i \in DOMAIN pkgs |-> Cardinality(CPUsOfPackage(t, pkgs[i]))]
      /\ [i \in DOMAIN h.sockets |-> h.sockets[i].physical]
             = [i \in DOMAIN pkgs |-> Cardinality(Cores(t, pkgs[i]))]
  BY <1>4, <1>5
<1>8. ASSUME NEW i \in DOMAIN h.numaNodes
      PROVE  /\ ParseCPUList(h.numaNodes[i].list) = t.nodes[h.numaNodes[i].node]
             /\ h.minPerNode <= h.numaNodes[i].logical /\ h.numaNodes[i].logical <= h.maxPerNode
  <2>1. DOMAIN t.nodes \in SUBSET Nat /\ IsFiniteSet(DOMAIN t.nodes)
    BY DEF WellFormed
  <2>2. nodes \in [1..Cardinality(DOMAIN t.nodes) -> DOMAIN t.nodes]
    BY <2>1, SortedIs DEF nodes
  <2>3. nodes[i] \in DOMAIN t.nodes /\ h.numaNodes[i] = NUMASummary(t, nodes[i])
    BY <1>1, <2>2
  <2> DEFINE m == nodes[i]
  <2>4. m \in DOMAIN t.nodes /\ t.nodes[m] \in SUBSET Nat /\ IsFiniteSet(t.nodes[m])
    BY <2>3 DEF WellFormed
  <2> HIDE DEF m
  <2>5. /\ h.numaNodes[i].node = m /\ h.numaNodes[i].logical = Cardinality(t.nodes[m])
        /\ h.numaNodes[i].list = FormatCPUList(t.nodes[m])
    BY <2>3 DEF NUMASummary, m
  <2>6. ParseCPUList(FormatCPUList(t.nodes[m])) = t.nodes[m]
    BY <2>4, FormatIs
  <2> DEFINE size == [n \in DOMAIN t.nodes |-> Cardinality(t.nodes[n])]
             sizes == { size[n] : n \in DOMAIN t.nodes }
  <2>7. \A n \in DOMAIN t.nodes : size[n] = Cardinality(t.nodes[n])
    OBVIOUS
  <2>8. DOMAIN size = DOMAIN t.nodes
    OBVIOUS
  <2> HIDE DEF size
  <2>9. X = sizes
    BY <2>4, <2>7 DEF X, LogicalPerNode
  <2>10. \A n \in DOMAIN t.nodes : size[n] \in Nat
    BY <2>7, FS_CardinalityType DEF WellFormed
  <2>11. sizes \in SUBSET Nat /\ size[m] \in sizes
    BY <2>4, <2>10
  <2>12. IsFiniteSet(sizes)
    BY <2>1, <2>8, ImageFinite
  <2> HIDE DEF sizes
  <2>13. Min(X) <= size[m] /\ size[m] <= Max(X)
    BY <2>9, <2>11, <2>12, MinMaxIs
  <2> QED
    BY <1>1, <2>4, <2>5, <2>6, <2>7, <2>13
<1>9. /\ UNION { ParseCPUList(h.sockets[i].list) : i \in DOMAIN h.sockets } = DOMAIN t.cpus
      /\ Total([i \in DOMAIN h.sockets |-> h.sockets[i].logical]) = h.logicalCPUs
      /\ Total([i \in DOMAIN h.sockets |-> h.sockets[i].physical]) = h.physicalCores
      /\ h.physicalCores = Cardinality(pairs)
  BY <1>1, <1>2, <1>6, <1>7
<1> QED
  BY <1>8, <1>9 DEF h, pairs

-----------------------------------------------------------------------------
(* The places of the objects of an hwloc document.                         *)

\* What a place is, and what else is a place because of it.
LEMMA PlaceIs ==
    ASSUME online \in SUBSET Cpu, NEW x \in Places
    PROVE  /\ x \in Int \X Int \X Int
           /\ \/ x[2] = -3 /\ x[3] = -1
              \/ x[2] \in {-2, -1} /\ x[3] = -1 /\ x[1] \in Nat
              \/ x[2] \in Nat /\ x[3] = -1 /\ x[1] \in Nat
              \/ /\ x[2] \in Nat /\ x[3] \in online /\ x[3] \in Nat /\ x[1] \in Nat
                 /\ x[1] = Pkg[x[3]] /\ x[2] = Core[x[3]]
           /\ x[2] \in Nat => <<x[1], x[2], -1>> \in Places
           /\ x[2] # -3 => /\ <<x[1], -2, -1>> \in Places /\ <<x[1], -1, -1>> \in Places
                           /\ \E c \in online : Pkg[c] = x[1]
<1>1. \A c \in online : c \in Nat /\ Pkg[c] \in Nat /\ Core[c] \in Nat
  BY CpuAssumption, MachineAssumption
<1>2. /\ \A c \in online : <<Pkg[c], -2, -1>> \in Places
      /\ \A c \in online : <<Pkg[c], -1, -1>> \in Places
      /\ \A c \in online : <<Pkg[c], Core[c], -1>> \in Places
  BY DEF Places
<1>3. CASE x = <<-1, -3, -1>>
  BY <1>3
<1>4. ASSUME NEW c \in online, NEW k \in {-2, -1}, x = <<Pkg[c], k, -1>>
      PROVE  /\ x[1] = Pkg[c] /\ x[1] \in Nat /\ x[2] \in {-2, -1} /\ x[3] = -1
             /\ x \in Int \X Int \X Int
  BY <1>1, <1>4
<1>5. ASSUME NEW c \in online, x = <<Pkg[c], Core[c], -1>>
      PROVE  /\ x[1] = Pkg[c] /\ x[1] \in Nat /\ x[2] = Core[c] /\ x[2] \in Nat /\ x[3] = -1
             /\ x \in Int \X Int \X Int
  BY <1>1, <1>5
<1>6. ASSUME NEW c \in online, x = <<Pkg[c], Core[c], c>>
      PROVE  /\ x[1] = Pkg[c] /\ x[1] \in Nat /\ x[2] = Core[c] /\ x[2] \in Nat
             /\ x[3] = c /\ x[3] \in Nat /\ x \in Int \X Int \X Int
  BY <1>1, <1>6
<1>7. \/ x = <<-1, -3, -1>>
      \/ \E c \in online, k \in {-2, -1} : x = <<Pkg[c], k, -1>>
      \/ \E c \in online : x = <<Pkg[c], Core[c], -1>>
      \/ \E c \in online : x = <<Pkg[c], Core[c], c>>
  BY DEF Places
<1>8. CASE \E c \in online, k \in {-2, -1} : x = <<Pkg[c], k, -1>>
  BY <1>2, <1>4, <1>8
<1>9. CASE \E c \in online : x = <<Pkg[c], Core[c], -1>>
  BY <1>2, <1>5, <1>9
<1>10. CASE \E c \in online : x = <<Pkg[c], Core[c], c>>
  BY <1>2, <1>6, <1>10
<1> QED
  BY <1>3, <1>7, <1>8, <1>9, <1>10

\* There are finitely many.
LEMMA PlacesFinite ==
    ASSUME online \in SUBSET Cpu
    PROVE  IsFiniteSet(Places)
<1> DEFINE a == [c \in online |-> <<Pkg[c], -2, -1>>]
           b == [c \in online |-> <<Pkg[c], -1, -1>>]
           d == [c \in online |-> <<Pkg[c], Core[c], -1>>]
           e == [c \in online |-> <<Pkg[c], Core[c], c>>]
           image(f) == { f[c] : c \in online }
<1>1. IsFiniteSet(online)
  BY CpuAssumption, FS_Subset
<1>2. Places = {<<-1, -3, -1>>} \cup (image(a) \cup (image(b) \cup (image(d) \cup image(e))))
  BY DEF Places
<1>3. DOMAIN a = online /\ DOMAIN b = online /\ DOMAIN d = online /\ DOMAIN e = online
  OBVIOUS
<1> HIDE DEF a, b, d, e
<1>4. IsFiniteSet(image(a)) /\ IsFiniteSet(image(b)) /\ IsFiniteSet(image(d)) /\ IsFiniteSet(image(e))
  BY <1>1, <1>3, ImageFinite
<1> HIDE DEF image
<1>5. IsFiniteSet(image(d) \cup image(e))
  BY <1>4, FS_Union
<1>6. IsFiniteSet(image(b) \cup (image(d) \cup image(e)))
  BY <1>4, <1>5, FS_Union
<1>7. IsFiniteSet(image(a) \cup (image(b) \cup (image(d) \cup image(e))))
  BY <1>4, <1>6, FS_Union
<1>8. IsFiniteSet({<<-1, -3, -1>>})
  BY FS_Singleton
<1> QED
  BY <1>2, <1>7, <1>8, FS_Union

\* The order of the places is total.
LEMMA PrecedesIs ==
    ASSUME NEW x \in Int \X Int \X Int, NEW y \in Int \X Int \X Int, NEW z \in Int \X Int \X Int
    PROVE  /\ ~Precedes(x, x)
           /\ Precedes(x, y) /\ Precedes(y, z) => Precedes(x, z)
           /\ x # y => Precedes(x, y) \/ Precedes(y, x)
  BY DEF Precedes

\* Document order.
LEMMA InOrderIs ==
    ASSUME online \in SUBSET Cpu
    PROVE  /\ Cardinality(Places) \in Nat
           /\ InOrder(Places) \in [1..Cardinality(Places) -> Places]
           /\ \A i, j \in 1..Cardinality(Places) :
                  i < j => Precedes(InOrder(Places)[i], InOrder(Places)[j])
           /\ \A x \in Places : \E i \in 1..Cardinality(Places) : InOrder(Places)[i] = x
<1> DEFINE k == Cardinality(Places)
           R(x) == Cardinality({ y \in Places : Precedes(y, x) })
           P == [x \in Places |-> { y \in Places : Precedes(y, x) }]
           ps == InOrder(Places)
<1>1. ps = [n \in 1..k |-> CHOOSE x \in Places : R(x) = n - 1]
  BY DEF InOrder
<1>2. \A x \in Places : P[x] = { y \in Places : Precedes(y, x) }
                        /\ \A y : y \in P[x] <=> y \in Places /\ Precedes(y, x)
  OBVIOUS
<1>3. P \in [Places -> SUBSET Places]
  OBVIOUS
<1> HIDE DEF P
<1>4. \A x \in Places : x \in Int \X Int \X Int
  BY PlaceIs
<1>5. \A x \in Places : x \notin P[x]
  BY <1>2, <1>4, PrecedesIs
<1>6. ASSUME NEW x \in Places, NEW y \in Places, Precedes(x, y) PROVE x \in P[y] /\ P[x] \subseteq P[y]
  <2>1. x \in P[y]
    BY <1>2, <1>6
  <2>2. ASSUME NEW z \in P[x] PROVE z \in P[y]
    <3>1. z \in Places /\ Precedes(z, x)
      BY <1>2
    <3>2. x \in Int \X Int \X Int /\ y \in Int \X Int \X Int /\ z \in Int \X Int \X Int
      BY <1>4, <3>1
    <3>3. Precedes(z, y)
      BY <1>6, <3>1, <3>2, PrecedesIs
    <3> QED
      BY <1>2, <3>1, <3>3
  <2> QED
    BY <2>1, <2>2
<1>7. ASSUME NEW x \in Places, NEW y \in Places, x # y
      PROVE  \/ x \in P[y] /\ P[x] \subseteq P[y]
             \/ y \in P[x] /\ P[y] \subseteq P[x]
  <2>1. x \in Int \X Int \X Int /\ y \in Int \X Int \X Int
    BY <1>4
  <2>2. Precedes(x, y) \/ Precedes(y, x)
    BY <1>7, <2>1, PrecedesIs
  <2> QED
    BY <1>6, <2>2
<1>8. IsFiniteSet(Places)
  BY PlacesFinite
<1>9. k \in Nat /\ \A x \in Places : Cardinality(P[x]) \in 0..(k - 1)
  BY <1>3, <1>5, <1>7, <1>8, Ranks
<1>10. \A x, y \in Places : x \in P[y] => Cardinality(P[x]) < Cardinality(P[y])
  BY <1>3, <1>5, <1>7, <1>8, Ranks
<1>11. \A x, y \in Places : Cardinality(P[x]) = Cardinality(P[y]) => x = y
  BY <1>3, <1>5, <1>7, <1>8, Ranks
<1>12. [x \in Places |-> Cardinality(P[x])] \in Surjection(Places, 0..(k - 1))
  BY <1>3, <1>5, <1>7, <1>8, RankTaken
<1>13. \A x \in Places : R(x) = Cardinality(P[x])
  BY <1>2
<1> HIDE DEF R, k, ps
<1>14. ASSUME NEW i \in 1..k PROVE ps[i] \in Places /\ R(ps[i]) = i - 1
  <2>1. i - 1 \in 0..(k - 1)
    BY <1>9
  <2>2. \E x \in Places : Cardinality(P[x]) = i - 1
    BY <1>12, <2>1 DEF Surjection
  <2>3. \E x \in Places : R(x) = i - 1
    BY <1>13, <2>2
  <2>4. ps[i] = CHOOSE x \in Places : R(x) = i - 1
    BY <1>1
  <2> QED
    BY <2>3, <2>4
<1>15. ps \in [1..k -> Places]
  BY <1>1, <1>14
<1>16. ASSUME NEW i \in 1..k, NEW j \in 1..k, i < j PROVE Precedes(ps[i], ps[j])
  <2>1. /\ ps[i] \in Places /\ ps[j] \in Places /\ R(ps[i]) = i - 1 /\ R(ps[j]) = j - 1
        /\ ps[i] \in Int \X Int \X Int /\ ps[j] \in Int \X Int \X Int
    BY <1>4, <1>14
  <2>2. ps[i] # ps[j]
    BY <1>16, <2>1
  <2>3. ASSUME Precedes(ps[j], ps[i]) PROVE FALSE
    <3>1. Cardinality(P[ps[j]]) < Cardinality(P[ps[i]])
      BY <1>2, <1>10, <2>1, <2>3
    <3>2. j - 1 < i - 1
      BY <1>13, <2>1, <3>1
    <3> QED
      BY <1>16, <3>2
  <2> QED
    BY <2>1, <2>2, <2>3, PrecedesIs
<1>17. ASSUME NEW x \in Places PROVE \E i \in 1..k : ps[i] = x
  <2>1. R(x) \in 0..(k - 1)
    BY <1>9, <1>13
  <2>2. R(x) + 1 \in 1..k
    BY <1>9, <2>1
  <2>3. ps[R(x) + 1] \in Places /\ R(ps[R(x) + 1]) = R(x)
    BY <1>14, <2>1, <2>2
  <2>4. ps[R(x) + 1] = x
    BY <1>11, <1>13, <2>3
  <2> QED
    BY <2>2, <2>4
<1> QED
  BY <1>9, <1>15, <1>16, <1>17 DEF k, ps

\* What comes before a place comes before, or is, the place just before it.
LEMMA PlaceBefore ==
    ASSUME online \in SUBSET Cpu, NEW i \in 1..Cardinality(Places), NEW y \in Places,
           Precedes(y, InOrder(Places)[i])
    PROVE  /\ i - 1 \in 1..Cardinality(Places)
           /\ y = InOrder(Places)[i - 1] \/ Precedes(y, InOrder(Places)[i - 1])
           /\ Precedes(InOrder(Places)[i - 1], InOrder(Places)[i])
<1> DEFINE k == Cardinality(Places)
           ps == InOrder(Places)
<1>1. /\ k \in Nat /\ ps \in [1..k -> Places]
      /\ \A h, j \in 1..k : h < j => Precedes(ps[h], ps[j])
  BY InOrderIs
<1>2. PICK j \in 1..k : ps[j] = y
  BY InOrderIs
<1> HIDE DEF k, ps
<1>3. \A h \in 1..k : ps[h] \in Int \X Int \X Int
  BY <1>1, PlaceIs
<1>4. i \in 1..k /\ Precedes(ps[j], ps[i])
  BY <1>2 DEF k, ps
<1>5. ~(i <= j)
  <2>1. ASSUME i = j PROVE FALSE
    BY <1>3, <1>4, <2>1, PrecedesIs
  <2>2. ASSUME i < j PROVE FALSE
    <3>1. Precedes(ps[i], ps[j])
      BY <1>1, <1>4, <2>2
    <3>2. Precedes(ps[i], ps[i])
      BY <1>3, <1>4, <3>1, PrecedesIs
    <3> QED
      BY <1>3, <1>4, <3>2, PrecedesIs
  <2> QED
    BY <1>4, <2>1, <2>2
<1>6. i - 1 \in 1..k /\ j <= i - 1 /\ i - 1 < i
  BY <1>1, <1>4, <1>5
<1>7. y = ps[i - 1] \/ Precedes(y, ps[i - 1])
  <2>1. CASE j = i - 1
    BY <1>2, <2>1
  <2>2. CASE j < i - 1
    BY <1>1, <1>2, <1>6, <2>2
  <2> QED
    BY <1>6, <2>1, <2>2
<1> QED
  BY <1>1, <1>4, <1>6, <1>7 DEF k, ps

-----------------------------------------------------------------------------
(* The walk over an hwloc document.                                        *)

\* What an index in the document can be, its objects, what is handed down and
\* what the walk carries along.
MaybeNat == Nat \cup {-1}
Objects == [type : {"Machine", "Package", "NUMANode", "Core", "PU"}, os : MaybeNat, depth : 1..5]
Contexts == [pkg : MaybeNat, numa : MaybeNat, core : MaybeNat]
WalkStates == [up : [Depths -> Contexts], nextCore : Nat,
               recs : SUBSET [pu : Nat, pkg : MaybeNat, numa : MaybeNat, core : MaybeNat]]

\* What an object hands down.
LEMMA ContextIs ==
    ASSUME NEW c \in Contexts, NEW o \in Objects, NEW k \in Nat
    PROVE  /\ Context(c, o, k) \in Contexts
           /\ Context(c, o, k).pkg = IF o.type = "Package" /\ o.os # -1 THEN o.os ELSE c.pkg
           /\ Context(c, o, k).numa = IF o.type = "NUMANode" /\ o.os # -1 THEN o.os ELSE c.numa
           /\ Context(c, o, k).core = IF o.type = "Core" THEN IF o.os # -1 THEN o.os ELSE k
                                      ELSE c.core
<1>1. /\ c.pkg \in MaybeNat /\ c.numa \in MaybeNat /\ c.core \in MaybeNat
      /\ c = [pkg |-> c.pkg, numa |-> c.numa, core |-> c.core]
      /\ o.os \in MaybeNat
  BY DEF Contexts, Objects
<1>2. CASE o.type = "Package"
  <2>1. Context(c, o, k) = [pkg |-> deref(o.os, c.pkg), numa |-> c.numa, core |-> c.core]
    BY <1>1, <1>2 DEF Context
  <2> QED
    BY <1>1, <1>2, <2>1 DEF Contexts, deref, None
<1>3. CASE o.type = "NUMANode"
  <2>1. Context(c, o, k) = [pkg |-> c.pkg, numa |-> deref(o.os, c.numa), core |-> c.core]
    BY <1>1, <1>3 DEF Context
  <2> QED
    BY <1>1, <1>3, <2>1 DEF Contexts, deref, None
<1>4. CASE o.type = "Core"
  <2>1. Context(c, o, k) = [pkg |-> c.pkg, numa |-> c.numa, core |-> deref(o.os, k)]
    BY <1>1, <1>4 DEF Context
  <2> QED
    BY <1>1, <1>4, <2>1 DEF Contexts, deref, None, MaybeNat
<1>5. CASE o.type \notin {"Package", "NUMANode", "Core"}
  <2>1. Context(c, o, k) = c
    BY <1>5 DEF Context
  <2> QED
    BY <1>5, <2>1
<1> QED
  BY <1>2, <1>3, <1>4, <1>5

\* One object.
LEMMA WalkIs ==
    ASSUME NEW a \in WalkStates, NEW o \in Objects
    PROVE  LET here == Context(a.up[o.depth], o, a.nextCore)
               b    == walk(a, o)
           IN  /\ b \in WalkStates /\ here \in Contexts
               /\ \A d \in Depths : b.up[d] = IF d = o.depth + 1 THEN here ELSE a.up[d]
               /\ b.nextCore = IF o.type = "Core" THEN here.core + 1 ELSE a.nextCore
               /\ b.recs = IF o.type = "PU" /\ o.os >= 0
                           THEN a.recs \cup {[pu |-> o.os, pkg |-> here.pkg,
                                              numa |-> here.numa, core |-> here.core]}
                           ELSE a.recs
<1> DEFINE here == Context(a.up[o.depth], o, a.nextCore)
           b    == walk(a, o)
<1>1. /\ a.up \in [Depths -> Contexts] /\ a.nextCore \in Nat
      /\ a.recs \in SUBSET [pu : Nat, pkg : MaybeNat, numa : MaybeNat, core : MaybeNat]
  BY DEF WalkStates
<1>2. o.depth \in Depths /\ o.depth + 1 \in Depths /\ o.os \in MaybeNat
  BY DEF Objects, Depths
<1>3. a.up[o.depth] \in Contexts
  BY <1>1, <1>2
<1>4. here \in Contexts /\ (o.type = "Core" => here.core \in Nat)
  BY <1>1, <1>2, <1>3, ContextIs DEF MaybeNat
<1>5. b = [up       |-> [a.up EXCEPT ![o.depth + 1] = here],
           nextCore |-> IF o.type = "Core" THEN here.core + 1 ELSE a.nextCore,
           recs     |-> IF o.type = "PU" /\ o.os >= 0
                        THEN a.recs \cup {[pu |-> o.os, pkg |-> here.pkg,
                                           numa |-> here.numa, core |-> here.core]}
                        ELSE a.recs]
  BY DEF walk
<1> HIDE DEF here, b
<1>6. /\ b.up = [a.up EXCEPT ![o.depth + 1] = here]
      /\ b.nextCore = IF o.type = "Core" THEN here.core + 1 ELSE a.nextCore
      /\ b.recs = IF o.type = "PU" /\ o.os >= 0
                  THEN a.recs \cup {[pu |-> o.os, pkg |-> here.pkg,
                                     numa |-> here.numa, core |-> here.core]}
                  ELSE a.recs
  BY <1>5
<1>7. /\ b.up \in [Depths -> Contexts]
      /\ \A d \in Depths : b.up[d] = IF d = o.depth + 1 THEN here ELSE a.up[d]
  BY <1>1, <1>2, <1>4, <1>6
<1>8. b.nextCore \in Nat
  BY <1>1, <1>4, <1>6
<1>9. b.recs \in SUBSET [pu : Nat, pkg : MaybeNat, numa : MaybeNat, core : MaybeNat]
  <2>1. here.pkg \in MaybeNat /\ here.numa \in MaybeNat /\ here.core \in MaybeNat
    BY <1>4 DEF Contexts
  <2>2. o.os >= 0 => o.os \in Nat
    BY <1>2 DEF MaybeNat
  <2> QED
    BY <1>1, <1>6, <2>1, <2>2
<1>10. b \in WalkStates
  <2>1. b = [up |-> b.up, nextCore |-> b.nextCore, recs |-> b.recs]
    BY <1>5
  <2> QED
    BY <1>7, <1>8, <1>9, <2>1 DEF WalkStates
<1> QED
  BY <1>4, <1>6, <1>7, <1>10 DEF here, b

\* The states of the walk.
LEMMA WalkLoop ==
    ASSUME NEW doc, NEW n \in Nat, Len(doc) = n, \A i \in 1..n : doc[i] \in Objects
    PROVE  /\ Walks(doc) \in [0..n -> WalkStates]
           /\ Walks(doc)[0] = [up |-> [d \in Depths |-> NoContext], nextCore |-> 0, recs |-> {}]
           /\ \A i \in 1..n : Walks(doc)[i] = walk(Walks(doc)[i - 1], doc[i])
<1> DEFINE base == [up |-> [d \in Depths |-> NoContext], nextCore |-> 0, recs |-> {}]
           t == [z \in (1..n) \X WalkStates |-> walk(z[2], doc[z[1]])]
           P(g) == g = [i \in 0..n |-> IF i = 0 THEN base ELSE walk(g[i - 1], doc[i])]
           g0 == Walks(doc)
<1>1. base \in WalkStates
  BY DEF WalkStates, NoContext, Contexts, MaybeNat
<1>2. ASSUME NEW a \in WalkStates, NEW i \in 1..n PROVE walk(a, doc[i]) \in WalkStates
  BY WalkIs
<1>3. t \in TurnsOf(n, WalkStates)
  BY <1>2 DEF TurnsOf
<1>4. PICK f \in [0..n -> WalkStates] :
          f[0] = base /\ \A i \in 1..n : f[i] = t[<<i, f[i - 1]>>]
  <2> HIDE DEF t, base
  <2>1. RunsOf(n, WalkStates, base, t) # {}
    BY <1>1, <1>3, Loop
  <2> QED
    BY <2>1 DEF RunsOf
<1>5. P(f)
  <2>1. ASSUME NEW i \in 1..n PROVE f[i] = walk(f[i - 1], doc[i])
    <3>1. i - 1 \in 0..n
      OBVIOUS
    <3>2. <<i, f[i - 1]>> \in (1..n) \X WalkStates
      BY <3>1
    <3>3. t[<<i, f[i - 1]>>] = walk(f[i - 1], doc[i])
      BY <3>2
    <3> QED
      BY <1>4, <3>3
  <2> HIDE DEF base, t
  <2>2. \A i \in 0..n : f[i] = IF i = 0 THEN base ELSE walk(f[i - 1], doc[i])
    BY <1>4, <2>1
  <2> QED
    BY <2>2
<1>6. g0 = CHOOSE g : P(g)
  BY DEF Walks
<1> HIDE DEF P, g0, base
<1>7. P(g0)
  BY <1>5, <1>6
<1>8. /\ DOMAIN g0 = 0..n /\ g0[0] = base
      /\ \A i \in 1..n : g0[i] = walk(g0[i - 1], doc[i])
  <2>1. g0 = [i \in 0..n |-> IF i = 0 THEN base ELSE walk(g0[i - 1], doc[i])]
    BY <1>7 DEF P
  <2> QED
    BY <2>1
<1> DEFINE T == { i \in 0..n : g0[i] \in WalkStates }
<1>9. \A i \in 0..n : i \in T
  <2>1. 0 \in T
    BY <1>1, <1>8
  <2>2. ASSUME NEW i \in 0..(n - 1), i \in T PROVE i + 1 \in T
    <3>1. i + 1 \in 1..n /\ i + 1 - 1 = i /\ i + 1 \in 0..n
      OBVIOUS
    <3>2. g0[i + 1] = walk(g0[i], doc[i + 1])
      BY <1>8, <3>1
    <3>3. g0[i] \in WalkStates
      BY <2>2
    <3>4. g0[i + 1] \in WalkStates
      BY <1>2, <3>1, <3>2, <3>3
    <3> QED
      BY <3>1, <3>4
  <2> HIDE DEF T
  <2> QED
    BY <2>1, <2>2, UpTo
<1>10. g0 \in [0..n -> WalkStates]
  <2>1. g0 = [i \in 0..n |-> g0[i]]
    BY <1>7 DEF P
  <2> QED
    BY <1>9, <2>1
<1> QED
  BY <1>8, <1>10 DEF g0, base

\* Where the objects of a layout are: cores are at this depth, and a package
\* takes this slot.
CoreDepth(layout) == IF layout = "around" THEN 4 ELSE 3
PackageSlot(layout) == IF layout = "around" THEN -1 ELSE -2

\* The object at a place.
LEMMA ObjectIs ==
    ASSUME online \in SUBSET Cpu, NEW layout \in {"around", "beside"}, NEW numbered \in BOOLEAN,
           NEW x \in Places
    PROVE  LET o == ObjectAt(x, layout, numbered)
           IN  /\ o \in Objects
               /\ x[2] = -3 => o.type = "Machine" /\ o.depth = 1
               /\ x[2] = PackageSlot(layout) =>
                      o.type = "Package" /\ o.os = x[1] /\ o.depth = CoreDepth(layout) - 1
               /\ x[2] \in {-2, -1} \ {PackageSlot(layout)} =>
                      /\ o.type = "NUMANode" /\ o.os \in NumaId \cup {-1}
                      /\ o.depth = IF layout = "around" THEN 2 ELSE 3
               /\ x[2] \in Nat /\ x[3] = -1 =>
                      /\ o.type = "Core" /\ o.os = (IF numbered THEN x[2] ELSE -1)
                      /\ o.depth = CoreDepth(layout)
               /\ x[2] \in Nat /\ x[3] # -1 =>
                      o.type = "PU" /\ o.os = x[3] /\ o.depth = CoreDepth(layout) + 1
<1> DEFINE o == ObjectAt(x, layout, numbered)
           home == Home[CHOOSE c \in online : Pkg[c] = x[1]]
<1>1. /\ \/ x[2] = -3 /\ x[3] = -1
         \/ x[2] \in {-2, -1} /\ x[3] = -1 /\ x[1] \in Nat
         \/ x[2] \in Nat /\ x[3] = -1 /\ x[1] \in Nat
         \/ x[2] \in Nat /\ x[3] \in online /\ x[3] \in Nat /\ x[1] \in Nat
      /\ x[2] # -3 => \E c \in online : Pkg[c] = x[1]
  BY PlaceIs
<1>2. x[2] # -3 => home \in NumaId \cup {-1}
  BY <1>1, MachineAssumption
<1>3. NumaId \cup {-1} \subseteq MaybeNat
  BY CpuAssumption DEF MaybeNat
<1> HIDE DEF home, o
<1> SUFFICES
               /\ o \in Objects
               /\ x[2] = -3 => o.type = "Machine" /\ o.depth = 1
               /\ x[2] = PackageSlot(layout) =>
                      o.type = "Package" /\ o.os = x[1] /\ o.depth = CoreDepth(layout) - 1
               /\ x[2] \in {-2, -1} \ {PackageSlot(layout)} =>
                      /\ o.type = "NUMANode" /\ o.os \in NumaId \cup {-1}
                      /\ o.depth = IF layout = "around" THEN 2 ELSE 3
               /\ x[2] \in Nat /\ x[3] = -1 =>
                      /\ o.type = "Core" /\ o.os = (IF numbered THEN x[2] ELSE -1)
                      /\ o.depth = CoreDepth(layout)
               /\ x[2] \in Nat /\ x[3] # -1 =>
                      o.type = "PU" /\ o.os = x[3] /\ o.depth = CoreDepth(layout) + 1
  BY DEF o
<1>4. CASE x[2] = -3
  <2>1. o = [type |-> "Machine", os |-> -1, depth |-> 1]
    BY <1>4 DEF o, ObjectAt, Object, None
  <2>2. o \in Objects
    BY <2>1 DEF Objects, MaybeNat
  <2>3. o.type = "Machine" /\ o.depth = 1
    BY <2>1
  <2>4. x[2] # PackageSlot(layout) /\ x[2] \notin {-2, -1} /\ x[2] \notin Nat
    BY <1>4 DEF PackageSlot
  <2> QED
    BY <2>2, <2>3, <2>4
<1>5. CASE x[2] = -2 /\ layout = "around"
  <2>1. o = [type |-> "NUMANode", os |-> home, depth |-> 2]
    BY <1>5 DEF o, ObjectAt, Object, home
  <2> QED
    BY <1>2, <1>3, <1>5, <2>1 DEF Objects, PackageSlot
<1>6. CASE x[2] = -2 /\ layout = "beside"
  <2>1. o = [type |-> "Package", os |-> x[1], depth |-> 2]
    BY <1>6 DEF o, ObjectAt, Object
  <2> QED
    BY <1>1, <1>6, <2>1 DEF Objects, MaybeNat, PackageSlot, CoreDepth
<1>7. CASE x[2] = -1 /\ layout = "around"
  <2>1. o = [type |-> "Package", os |-> x[1], depth |-> 3]
    BY <1>7 DEF o, ObjectAt, Object
  <2> QED
    BY <1>1, <1>7, <2>1 DEF Objects, MaybeNat, PackageSlot, CoreDepth
<1>8. CASE x[2] = -1 /\ layout = "beside"
  <2>1. o = [type |-> "NUMANode", os |-> home, depth |-> 3]
    BY <1>8 DEF o, ObjectAt, Object, home
  <2> QED
    BY <1>2, <1>3, <1>8, <2>1 DEF Objects, PackageSlot
<1>9. CASE x[2] \in Nat /\ x[3] = -1
  <2>1. o = [type |-> "Core", os |-> IF numbered THEN x[2] ELSE -1, depth |-> CoreDepth(layout)]
    BY <1>9 DEF o, ObjectAt, Object, None, CoreDepth
  <2> QED
    BY <1>9, <2>1 DEF Objects, MaybeNat, PackageSlot, CoreDepth
<1>10. CASE x[2] \in Nat /\ x[3] # -1
  <2>1. o = [type |-> "PU", os |-> x[3], depth |-> CoreDepth(layout) + 1]
    BY <1>10 DEF o, ObjectAt, Object, CoreDepth
  <2> QED
    BY <1>1, <1>10, <2>1 DEF Objects, MaybeNat, PackageSlot, CoreDepth
<1> QED
  BY <1>1, <1>4, <1>5, <1>6, <1>7, <1>8, <1>9, <1>10

\* After i objects a record has the package of its PU, which has been met.
RightPlace(r, i) ==
    /\ r.pu \in online /\ r.pkg = Pkg[r.pu] /\ r.numa \in NumaId \cup {-1} /\ r.core \in Nat
    /\ \E j \in 1..i : InOrder(Places)[j] = <<Pkg[r.pu], Core[r.pu], r.pu>>

\* Records of one package agree on the core if their PUs are of one core.
Apart(recs) ==
    \A r, s \in recs : Pkg[r.pu] = Pkg[s.pu] => (Core[r.pu] = Core[s.pu] <=> r.core = s.core)

\* Inside a package its number has been handed down.
InPackage(a, i, layout) ==
    (i >= 1 /\ InOrder(Places)[i][2] >= PackageSlot(layout)) =>
        a.up[CoreDepth(layout)].pkg = InOrder(Places)[i][1]

\* Inside a core its number has been handed down, and the records that have it
\* are those of the same core of the hardware.
InCore(a, i, layout, numbered) ==
    (i >= 1 /\ InOrder(Places)[i][2] >= 0) =>
        LET x == InOrder(Places)[i]
            c == a.up[CoreDepth(layout) + 1]
        IN  /\ c.pkg = x[1] /\ c.core \in Nat
            /\ IF numbered THEN c.core = x[2] ELSE c.core < a.nextCore
            /\ \A r \in a.recs : Pkg[r.pu] = x[1] => (Core[r.pu] = x[2] <=> r.core = c.core)

\* What the walk knows after i objects.
Walked(a, i, layout, numbered) ==
    /\ a \in WalkStates
    /\ \A d \in Depths : a.up[d].numa \in NumaId \cup {-1}
    /\ \A r \in a.recs : /\ RightPlace(r, i)
                         /\ IF numbered THEN r.core = Core[r.pu] ELSE r.core < a.nextCore
    /\ Apart(a.recs)
    /\ InPackage(a, i, layout)
    /\ InCore(a, i, layout, numbered)

\* A CPU that has been met keeps its place.
LEMMA StaysRight ==
    ASSUME NEW r, NEW i \in Nat, NEW j \in Nat, i <= j, RightPlace(r, i)
    PROVE  RightPlace(r, j)
  BY DEF RightPlace

\* The package and core of the place before.
LEMMA Before2 ==
    ASSUME online \in SUBSET Cpu, NEW i \in 1..Cardinality(Places)
    PROVE  LET x == InOrder(Places)[i]
               y == InOrder(Places)[i - 1]
           IN  /\ x \in Places
               /\ x[2] = -1 => i >= 2 /\ y[1] = x[1] /\ y[2] = -2
               /\ x[2] \in Nat => i >= 2 /\ y[1] = x[1] /\ y[2] >= -1
               /\ x[2] \in Nat /\ x[3] # -1 => i >= 2 /\ y[1] = x[1] /\ y[2] = x[2]
<1> DEFINE x == InOrder(Places)[i]
           y == InOrder(Places)[i - 1]
<1>1. Cardinality(Places) \in Nat /\ InOrder(Places) \in [1..Cardinality(Places) -> Places]
  BY InOrderIs
<1>2. x \in Places /\ (i - 1 \in 1..Cardinality(Places) => y \in Places)
  BY <1>1
<1>3. ASSUME NEW z \in Places, Precedes(z, x)
      PROVE  i >= 2 /\ y \in Places /\ (y = z \/ Precedes(z, y)) /\ Precedes(y, x)
  <2>1. i - 1 \in 1..Cardinality(Places) /\ (z = y \/ Precedes(z, y)) /\ Precedes(y, x)
    BY <1>3, PlaceBefore
  <2> QED
    BY <1>1, <1>2, <2>1
<1> HIDE DEF x, y
<1>4. \A p \in Places : p \in Int \X Int \X Int
  BY PlaceIs
<1>5. /\ \/ x[2] = -3 /\ x[3] = -1
         \/ x[2] \in {-2, -1} /\ x[3] = -1 /\ x[1] \in Nat
         \/ x[2] \in Nat /\ x[3] = -1 /\ x[1] \in Nat
         \/ x[2] \in Nat /\ x[3] \in Nat /\ x[1] \in Nat
      /\ x[2] \in Nat => <<x[1], x[2], -1>> \in Places
      /\ x[2] # -3 => <<x[1], -2, -1>> \in Places /\ <<x[1], -1, -1>> \in Places
  BY <1>2, PlaceIs
<1>6. \A p \in Places : p[2] \in Nat \/ p[3] = -1
  BY PlaceIs
<1>7. ASSUME x[2] = -1 PROVE i >= 2 /\ y[1] = x[1] /\ y[2] = -2
  <2> DEFINE z == <<x[1], -2, -1>>
  <2>1. z \in Places /\ Precedes(z, x) /\ x[3] = -1
    BY <1>4, <1>5, <1>7 DEF Precedes
  <2>2. i >= 2 /\ y \in Places /\ (y = z \/ Precedes(z, y)) /\ Precedes(y, x)
    BY <1>3, <2>1
  <2>3. y \in Int \X Int \X Int /\ x \in Int \X Int \X Int /\ (y[2] \in Nat \/ y[3] = -1)
    BY <1>2, <1>4, <1>6, <2>2
  <2> QED
    BY <1>7, <2>1, <2>2, <2>3 DEF Precedes
<1>8. ASSUME x[2] \in Nat PROVE i >= 2 /\ y[1] = x[1] /\ y[2] >= -1
  <2> DEFINE z == <<x[1], -1, -1>>
  <2>1. z \in Places /\ Precedes(z, x)
    BY <1>4, <1>5, <1>8 DEF Precedes
  <2>2. i >= 2 /\ y \in Places /\ (y = z \/ Precedes(z, y)) /\ Precedes(y, x)
    BY <1>3, <2>1
  <2>3. y \in Int \X Int \X Int /\ x \in Int \X Int \X Int
    BY <1>2, <1>4, <2>2
  <2> QED
    BY <1>8, <2>2, <2>3 DEF Precedes
<1>9. ASSUME x[2] \in Nat, x[3] # -1 PROVE i >= 2 /\ y[1] = x[1] /\ y[2] = x[2]
  <2> DEFINE z == <<x[1], x[2], -1>>
  <2>1. z \in Places /\ Precedes(z, x)
    BY <1>4, <1>5, <1>9 DEF Precedes
  <2>2. i >= 2 /\ y \in Places /\ (y = z \/ Precedes(z, y)) /\ Precedes(y, x)
    BY <1>3, <2>1
  <2>3. y \in Int \X Int \X Int /\ x \in Int \X Int \X Int
    BY <1>2, <1>4, <2>2
  <2> QED
    BY <1>9, <2>2, <2>3 DEF Precedes
<1> QED
  BY <1>2, <1>7, <1>8, <1>9 DEF x, y

\* A CPU that was met before a core or its CPUs is on a lower core, or on the
\* same.
LEMMA MetBefore ==
    ASSUME online \in SUBSET Cpu, NEW i \in 1..Cardinality(Places), NEW r, RightPlace(r, i - 1),
           InOrder(Places)[i][2] \in Nat, InOrder(Places)[i][3] = -1,
           Pkg[r.pu] = InOrder(Places)[i][1]
    PROVE  Core[r.pu] < InOrder(Places)[i][2]
<1> DEFINE ps == InOrder(Places)
           x == ps[i]
<1>1. /\ Cardinality(Places) \in Nat /\ ps \in [1..Cardinality(Places) -> Places]
      /\ \A h, j \in 1..Cardinality(Places) : h < j => Precedes(ps[h], ps[j])
  BY InOrderIs
<1>2. r.pu \in online /\ r.pu \in Nat /\ Core[r.pu] \in Nat /\ Pkg[r.pu] \in Nat
  BY CpuAssumption, MachineAssumption DEF RightPlace
<1>3. PICK j \in 1..(i - 1) : ps[j] = <<Pkg[r.pu], Core[r.pu], r.pu>>
  BY DEF RightPlace
<1>4. j \in 1..Cardinality(Places) /\ j < i
  BY <1>1
<1>5. Precedes(ps[j], x)
  BY <1>1, <1>4
<1>6. x \in Int \X Int \X Int
  BY <1>1, PlaceIs
<1> HIDE DEF x, ps
<1>7. Precedes(<<Pkg[r.pu], Core[r.pu], r.pu>>, x)
  BY <1>3, <1>5
<1>8. x[2] \in Nat /\ x[3] = -1 /\ Pkg[r.pu] = x[1]
  BY DEF x, ps
<1>9. Core[r.pu] < x[2]
  BY <1>2, <1>6, <1>7, <1>8 DEF Precedes
<1> QED
  BY <1>9 DEF x, ps

\* One more object.
LEMMA WalkedStep ==
    ASSUME online \in SUBSET Cpu, NEW layout \in {"around", "beside"}, NEW numbered \in BOOLEAN,
           NEW i \in 1..Cardinality(Places), NEW a, Walked(a, i - 1, layout, numbered)
    PROVE  Walked(walk(a, ObjectAt(InOrder(Places)[i], layout, numbered)), i, layout, numbered)
<1> DEFINE x == InOrder(Places)[i]
           y == InOrder(Places)[i - 1]
           o == ObjectAt(x, layout, numbered)
           b == walk(a, o)
           here == Context(a.up[o.depth], o, a.nextCore)
           D == CoreDepth(layout)
           slot == PackageSlot(layout)
<1>1. /\ x \in Places
      /\ x[2] = -1 => i >= 2 /\ y[1] = x[1] /\ y[2] = -2
      /\ x[2] \in Nat => i >= 2 /\ y[1] = x[1] /\ y[2] >= -1
      /\ x[2] \in Nat /\ x[3] # -1 => i >= 2 /\ y[1] = x[1] /\ y[2] = x[2]
  BY Before2
<1>2. /\ \/ x[2] = -3 /\ x[3] = -1
         \/ x[2] \in {-2, -1} /\ x[3] = -1 /\ x[1] \in Nat
         \/ x[2] \in Nat /\ x[3] = -1 /\ x[1] \in Nat
         \/ x[2] \in Nat /\ x[3] \in online /\ x[3] \in Nat /\ x[1] = Pkg[x[3]] /\ x[2] = Core[x[3]]
      /\ x \in Int \X Int \X Int
  BY <1>1, PlaceIs
<1>3. /\ o \in Objects
      /\ x[2] = -3 => o.type = "Machine" /\ o.depth = 1
      /\ x[2] = slot => o.type = "Package" /\ o.os = x[1] /\ o.depth = D - 1
      /\ x[2] \in {-2, -1} \ {slot} =>
             /\ o.type = "NUMANode" /\ o.os \in NumaId \cup {-1}
             /\ o.depth = IF layout = "around" THEN 2 ELSE 3
      /\ x[2] \in Nat /\ x[3] = -1 =>
             o.type = "Core" /\ o.os = (IF numbered THEN x[2] ELSE -1) /\ o.depth = D
      /\ x[2] \in Nat /\ x[3] # -1 =>
             o.type = "PU" /\ o.os = x[3] /\ o.depth = D + 1
  BY <1>1, ObjectIs
<1>4. /\ a \in WalkStates
      /\ \A d \in Depths : a.up[d].numa \in NumaId \cup {-1}
      /\ \A r \in a.recs : /\ RightPlace(r, i - 1)
                           /\ IF numbered THEN r.core = Core[r.pu] ELSE r.core < a.nextCore
      /\ Apart(a.recs)
      /\ InPackage(a, i - 1, layout)
      /\ InCore(a, i - 1, layout, numbered)
  BY DEF Walked
<1>5. Cardinality(Places) \in Nat /\ i \in Nat /\ i - 1 \in Nat /\ i - 1 <= i
  BY InOrderIs
<1>6. (layout = "around" /\ D = 4 /\ slot = -1) \/ (layout = "beside" /\ D = 3 /\ slot = -2)
  BY DEF CoreDepth, PackageSlot
<1>7. D \in Depths /\ D + 1 \in Depths /\ D \in Int
  BY <1>6 DEF Depths
<1>8. ASSUME i >= 2, y[2] >= slot PROVE a.up[D].pkg = y[1]
  <2>1. i - 1 >= 1
    BY <1>5, <1>8
  <2> QED
    BY <1>4, <1>8, <2>1 DEF InPackage
<1>9. ASSUME i >= 2, y[2] >= 0
      PROVE  LET c == a.up[D + 1]
             IN  /\ c.pkg = y[1] /\ c.core \in Nat
                 /\ IF numbered THEN c.core = y[2] ELSE c.core < a.nextCore
                 /\ \A r \in a.recs : Pkg[r.pu] = y[1] => (Core[r.pu] = y[2] <=> r.core = c.core)
  <2>1. i - 1 >= 1
    BY <1>5, <1>9
  <2> QED
    BY <1>4, <1>9, <2>1 DEF InCore
<1>10. ASSUME x[2] \in Nat, x[3] = -1, NEW r \in a.recs, Pkg[r.pu] = x[1] PROVE Core[r.pu] < x[2]
  BY <1>4, <1>10, MetBefore
<1> HIDE DEF x, y, o, D, slot
<1>11. /\ b \in WalkStates /\ here \in Contexts
       /\ \A d \in Depths : b.up[d] = IF d = o.depth + 1 THEN here ELSE a.up[d]
       /\ b.nextCore = IF o.type = "Core" THEN here.core + 1 ELSE a.nextCore
       /\ b.recs = IF o.type = "PU" /\ o.os >= 0
                   THEN a.recs \cup {[pu |-> o.os, pkg |-> here.pkg,
                                      numa |-> here.numa, core |-> here.core]}
                   ELSE a.recs
  BY <1>3, <1>4, WalkIs
<1>12. /\ o.depth \in Depths /\ a.up[o.depth] \in Contexts /\ a.nextCore \in Nat
       /\ a.up \in [Depths -> Contexts]
  BY <1>3, <1>4 DEF Objects, Depths, WalkStates
<1>13. /\ here.pkg = IF o.type = "Package" /\ o.os # -1 THEN o.os ELSE a.up[o.depth].pkg
       /\ here.numa = IF o.type = "NUMANode" /\ o.os # -1 THEN o.os ELSE a.up[o.depth].numa
       /\ here.core = IF o.type = "Core" THEN IF o.os # -1 THEN o.os ELSE a.nextCore
                      ELSE a.up[o.depth].core
  BY <1>3, <1>12, ContextIs
<1> HIDE DEF b, here
<1>14. here.numa \in NumaId \cup {-1}
  <2>1. a.up[o.depth].numa \in NumaId \cup {-1}
    BY <1>4, <1>12
  <2>2. o.type = "NUMANode" => o.os \in NumaId \cup {-1}
    BY <1>2, <1>3, <1>6
  <2> QED
    BY <1>13, <2>1, <2>2
<1>15. \A d \in Depths : b.up[d].numa \in NumaId \cup {-1}
  BY <1>4, <1>11, <1>14
<1>16. \A r \in a.recs : RightPlace(r, i)
  BY <1>4, <1>5, StaysRight
<1>17. x[2] = InOrder(Places)[i][2] /\ x[1] = InOrder(Places)[i][1]
  BY DEF x
<1>18. ASSUME x[2] \notin Nat PROVE Walked(b, i, layout, numbered)
  <2>1. o.type \notin {"Core", "PU"}
    BY <1>2, <1>3, <1>6, <1>18
  <2>2. b.recs = a.recs /\ b.nextCore = a.nextCore
    BY <1>11, <2>1
  <2>3. ~(x[2] >= 0)
    BY <1>2, <1>18
  <2>4. InCore(b, i, layout, numbered)
    BY <1>17, <2>3 DEF InCore
  <2>5. ASSUME x[2] >= slot PROVE b.up[D].pkg = x[1]
    <3>1. CASE x[2] = slot
      <4>1. x[1] \in Nat /\ o.type = "Package" /\ o.os = x[1] /\ o.depth + 1 = D
        BY <1>2, <1>3, <1>6, <3>1
      <4>2. here.pkg = x[1]
        BY <1>13, <4>1
      <4> QED
        BY <1>7, <1>11, <4>1, <4>2
    <3>2. CASE x[2] # slot
      <4>1. x[2] = -1 /\ slot = -2 /\ layout = "beside" /\ D = 3
        BY <1>2, <1>6, <2>3, <2>5, <3>2
      <4>2. o.depth = 3
        BY <1>3, <4>1
      <4>3. b.up[D] = a.up[D]
        BY <1>7, <1>11, <4>1, <4>2
      <4>4. i >= 2 /\ y[1] = x[1] /\ y[2] = -2
        BY <1>1, <4>1
      <4> QED
        BY <1>8, <4>1, <4>3, <4>4
    <3> QED
      BY <3>1, <3>2
  <2>6. InPackage(b, i, layout)
    BY <1>17, <2>5 DEF InPackage, D, slot
  <2> QED
    BY <1>4, <1>11, <1>15, <1>16, <2>2, <2>4, <2>6 DEF Walked
<1>19. ASSUME x[2] \in Nat PROVE i >= 2 /\ y[1] = x[1] /\ a.up[D].pkg = x[1]
  <2>1. i >= 2 /\ y[1] = x[1] /\ y[2] >= -1
    BY <1>1, <1>19
  <2>2. y[2] >= slot
    <3>1. y \in Places
      BY <1>5, <2>1, InOrderIs DEF y
    <3>2. y[2] \in Int
      BY <3>1, PlaceIs
    <3> QED
      BY <1>6, <2>1, <3>2
  <2> QED
    BY <1>8, <2>1, <2>2
<1>20. ASSUME x[2] \in Nat /\ x[3] = -1 PROVE Walked(b, i, layout, numbered)
  <2>1. o.type = "Core" /\ o.os = (IF numbered THEN x[2] ELSE -1) /\ o.depth = D
    BY <1>3, <1>20
  <2>2. b.recs = a.recs /\ b.nextCore = here.core + 1
    BY <1>11, <2>1
  <2>3. here.core = (IF numbered THEN x[2] ELSE a.nextCore) /\ here.core \in Nat
    <3>1. x[2] # -1
      BY <1>20
    <3> QED
      BY <1>12, <1>13, <1>20, <2>1, <3>1
  <2>4. b.up[D] = a.up[D] /\ b.up[D + 1] = here
    BY <1>7, <1>11, <2>1
  <2>5. here.pkg = x[1]
    BY <1>13, <1>19, <1>20, <2>1
  <2>6. ASSUME NEW r \in a.recs PROVE IF numbered THEN r.core = Core[r.pu] ELSE r.core < b.nextCore
    <3>1. r.core \in Nat
      BY <1>4 DEF RightPlace
    <3> QED
      BY <1>4, <1>12, <2>2, <2>3, <3>1
  <2>7. ASSUME NEW r \in a.recs, Pkg[r.pu] = x[1] PROVE Core[r.pu] = x[2] <=> r.core = here.core
    <3>1. r.core \in Nat /\ r.pu \in online /\ Core[r.pu] \in Nat
      BY <1>4, MachineAssumption DEF RightPlace
    <3>2. Core[r.pu] < x[2]
      BY <1>10, <1>20, <2>7
    <3>3. Core[r.pu] # x[2]
      BY <1>20, <3>1, <3>2
    <3>4. CASE numbered
      BY <1>4, <2>3, <3>3, <3>4
    <3>5. CASE ~numbered
      <4>1. r.core < a.nextCore /\ here.core = a.nextCore
        BY <1>4, <2>3, <3>5
      <4> QED
        BY <1>12, <3>1, <3>3, <4>1
    <3> QED
      BY <3>4, <3>5
  <2>8. InPackage(b, i, layout)
    BY <1>17, <1>19, <1>20, <2>4 DEF InPackage, D
  <2>9. InCore(b, i, layout, numbered)
    <3>1. b.up[D + 1].pkg = x[1] /\ b.up[D + 1].core \in Nat
      BY <2>3, <2>4, <2>5
    <3>2. IF numbered THEN b.up[D + 1].core = x[2] ELSE b.up[D + 1].core < b.nextCore
      BY <2>2, <2>3, <2>4
    <3>3. \A r \in b.recs : Pkg[r.pu] = x[1] => (Core[r.pu] = x[2] <=> r.core = b.up[D + 1].core)
      BY <2>2, <2>4, <2>7
    <3> QED
      BY <3>1, <3>2, <3>3 DEF InCore, D, x
  <2> QED
    BY <1>4, <1>11, <1>15, <1>16, <2>2, <2>6, <2>8, <2>9 DEF Walked
<1>21. ASSUME x[2] \in Nat /\ x[3] # -1 PROVE Walked(b, i, layout, numbered)
  <2> DEFINE c == a.up[D + 1]
             new == [pu |-> x[3], pkg |-> here.pkg, numa |-> here.numa, core |-> here.core]
  <2>1. o.type = "PU" /\ o.os = x[3] /\ o.depth = D + 1
    BY <1>3, <1>21
  <2>2. /\ x[3] \in online /\ x[3] \in Nat /\ x[1] = Pkg[x[3]] /\ x[2] = Core[x[3]]
        /\ i >= 2 /\ y[1] = x[1] /\ y[2] = x[2]
    BY <1>1, <1>2, <1>21
  <2>3. b.recs = a.recs \cup {new} /\ b.nextCore = a.nextCore
    BY <1>11, <2>1, <2>2
  <2>4. b.up[D] = a.up[D] /\ b.up[D + 1] = c
    BY <1>7, <1>11, <2>1
  <2>5. here.pkg = c.pkg /\ here.core = c.core
    BY <1>13, <2>1
  <2>6. y[2] >= 0
    BY <1>21, <2>2
  <2>7. /\ c.pkg = x[1] /\ c.core \in Nat
        /\ IF numbered THEN c.core = x[2] ELSE c.core < a.nextCore
        /\ \A r \in a.recs : Pkg[r.pu] = x[1] => (Core[r.pu] = x[2] <=> r.core = c.core)
    BY <1>9, <2>2, <2>6
  <2> HIDE DEF c
  <2>8. new.pu = x[3] /\ new.pkg = x[1] /\ new.core = c.core /\ new.numa = here.numa
    BY <2>5, <2>7
  <2> HIDE DEF new
  <2>9. RightPlace(new, i)
    <3>1. x = <<Pkg[new.pu], Core[new.pu], new.pu>>
      BY <1>2, <2>2, <2>8
    <3>2. i \in 1..i
      BY <1>5
    <3>3. \E j \in 1..i : InOrder(Places)[j] = <<Pkg[new.pu], Core[new.pu], new.pu>>
      BY <3>1, <3>2 DEF x
    <3> QED
      BY <1>14, <2>2, <2>7, <2>8, <3>3 DEF RightPlace
  <2>10. \A r \in b.recs : /\ RightPlace(r, i)
                           /\ IF numbered THEN r.core = Core[r.pu] ELSE r.core < b.nextCore
    BY <1>4, <1>16, <2>2, <2>3, <2>7, <2>8, <2>9
  <2>11. Apart(b.recs)
    <3>1. ASSUME NEW r \in a.recs, Pkg[r.pu] = Pkg[new.pu]
          PROVE  Core[r.pu] = Core[new.pu] <=> r.core = new.core
      BY <2>2, <2>7, <2>8, <3>1
    <3>2. ASSUME NEW r \in a.recs, NEW s \in a.recs, Pkg[r.pu] = Pkg[s.pu]
          PROVE  Core[r.pu] = Core[s.pu] <=> r.core = s.core
      BY <1>4, <3>2 DEF Apart
    <3> QED
      BY <2>3, <3>1, <3>2 DEF Apart
  <2>12. InPackage(b, i, layout)
    BY <1>17, <1>19, <1>21, <2>4 DEF InPackage, D
  <2>13. InCore(b, i, layout, numbered)
    <3>1. ASSUME NEW r \in b.recs, Pkg[r.pu] = x[1] PROVE Core[r.pu] = x[2] <=> r.core = c.core
      BY <2>2, <2>3, <2>7, <2>8, <3>1
    <3>2. /\ b.up[D + 1].pkg = x[1] /\ b.up[D + 1].core \in Nat
          /\ IF numbered THEN b.up[D + 1].core = x[2] ELSE b.up[D + 1].core < b.nextCore
          /\ \A r \in b.recs : Pkg[r.pu] = x[1] => (Core[r.pu] = x[2] <=> r.core = b.up[D + 1].core)
      BY <2>3, <2>4, <2>7, <3>1
    <3> QED
      BY <3>2 DEF InCore, D, x
  <2> QED
    BY <1>11, <1>15, <2>10, <2>11, <2>12, <2>13 DEF Walked
<1>22. Walked(b, i, layout, numbered)
  BY <1>18, <1>20, <1>21
<1> QED
  BY <1>22 DEF b, o, x

-----------------------------------------------------------------------------
(* The invariant of the topology commands.                                 *)

\* A topology has CPUs and nodes of the machine.
Shaped(t) ==
    /\ DOMAIN t.cpus \in SUBSET Cpu
    /\ \A c \in DOMAIN t.cpus : t.cpus[c].pkg \in Nat
    /\ DOMAIN t.nodes \in SUBSET NumaId
    /\ \A n \in DOMAIN t.nodes : t.nodes[n] \in SUBSET Cpu

\* It tells cores apart as the hardware does.
SameCores(t) ==
    \A c, d \in DOMAIN t.cpus :
        <<t.cpus[c].pkg, t.cpus[c].core>> = <<t.cpus[d].pkg, t.cpus[d].core>>
            <=> <<Pkg[c], Core[c]>> = <<Pkg[d], Core[d]>>

\* What has been found of the machine, from either source.
Found ==
    /\ hotplugs \in Nat /\ pkgRead \in Nat \cup {-1}
    /\ topo = [cpus |-> topo.cpus, nodes |-> topo.nodes] /\ Shaped(topo)
    /\ pc \in {"start", "present", "hwloc"} => DOMAIN topo.cpus = {} /\ used = "none"
    /\ pc \in {"start", "present", "map"} => pkgRead = -1
    /\ pc \in {"map", "cpus", "lists"} => used = "sysfs"
    /\ pc = "cpus" => todo \in SUBSET Cpu
    /\ used = "hwloc" => SameCores(topo)
    /\ (used # "hwloc" /\ online = Cpu /\ hotplugs = 0) =>
           /\ \A c \in DOMAIN topo.cpus : topo.cpus[c].pkg = Pkg[c] /\ topo.cpus[c].core = Core[c]
           /\ (pc = "cpus" /\ pkgRead # -1) => \A c \in Lowest(todo, 1) : pkgRead = Pkg[c]

\* What has been printed.
Output ==
    /\ (cmd = "topology" /\ pc = "done") => out = FormatASCII(topo)
    /\ (cmd = "hints" /\ pc = "done") => out = BuildClusterHints(topo)
    /\ cmd = "format" =>
           /\ pc = "done" /\ out.ids \in SUBSET (0..MaxCpu)
           /\ out.text = FormatCPUList(out.ids) /\ out.spec = CPUsToTasksetSpec(out.ids)

\* The topology that the walk makes.
LEMMA HwlocIs ==
    ASSUME online \in SUBSET Cpu, NEW layout \in {"around", "beside"}, NEW numbered \in BOOLEAN
    PROVE  LET t == TopologyFromXML(HwlocDoc(layout, numbered))
           IN  t = [cpus |-> t.cpus, nodes |-> t.nodes] /\ Shaped(t) /\ SameCores(t)
<1> DEFINE n    == Cardinality(Places)
           doc  == HwlocDoc(layout, numbered)
           f    == Walks(doc)
           recs == Records(doc)
           t    == TopologyFromXML(doc)
           of(p) == CHOOSE r \in recs : r.pu = p
           T    == { i \in 0..n : Walked(f[i], i, layout, numbered) }
<1>1. n \in Nat /\ InOrder(Places) \in [1..n -> Places]
  BY InOrderIs
<1>2. doc = [i \in 1..n |-> ObjectAt(InOrder(Places)[i], layout, numbered)]
  BY <1>1 DEF HwlocDoc
<1>3. Len(doc) = n /\ \A i \in 1..n : doc[i] = ObjectAt(InOrder(Places)[i], layout, numbered)
  <2> HIDE DEF doc, n
  <2> QED
    BY <1>1, <1>2
<1> HIDE DEF n, doc
<1>4. \A i \in 1..n : doc[i] \in Objects
  BY <1>1, <1>3, ObjectIs
<1>5. /\ f \in [0..n -> WalkStates]
      /\ f[0] = [up |-> [d \in Depths |-> NoContext], nextCore |-> 0, recs |-> {}]
      /\ \A i \in 1..n : f[i] = walk(f[i - 1], doc[i])
  BY <1>1, <1>3, <1>4, WalkLoop
<1>6. recs = f[n].recs
  BY <1>3 DEF Records
<1> HIDE DEF f
<1>7. Walked(f[0], 0, layout, numbered)
  <2>4. n \in Nat /\ f \in [0..n -> WalkStates]
    BY <1>1, <1>5
  <2>5. 0 \in 0..n
    BY <2>4
  <2>0. f[0] \in WalkStates
    BY <2>4, <2>5
  <2>1. f[0].recs = {} /\ f[0].up = [d \in Depths |-> NoContext]
    BY <1>5
  <2>3. ASSUME NEW d \in Depths PROVE f[0].up[d].numa \in NumaId \cup {-1}
    <3>1. f[0].up[d] = NoContext
      BY <2>1
    <3> QED
      BY <3>1 DEF NoContext
  <2>2. InPackage(f[0], 0, layout) /\ InCore(f[0], 0, layout, numbered)
    BY DEF InPackage, InCore
  <2> QED
    BY <2>0, <2>1, <2>2, <2>3 DEF Walked, Apart
<1>8. \A i \in 0..n : i \in T
  <2>1. 0 \in T
    BY <1>1, <1>7
  <2>2. ASSUME NEW i \in 0..(n - 1), i \in T PROVE i + 1 \in T
    <3>1. i + 1 \in 1..n /\ i + 1 - 1 = i /\ i + 1 \in 0..n
      BY <1>1
    <3>2. f[i + 1] = walk(f[i], ObjectAt(InOrder(Places)[i + 1], layout, numbered))
      BY <1>3, <1>5, <3>1
    <3>3. Walked(f[i], i + 1 - 1, layout, numbered)
      BY <2>2, <3>1
    <3>4. Walked(f[i + 1], i + 1, layout, numbered)
      BY <3>1, <3>2, <3>3, WalkedStep DEF n
    <3> QED
      BY <3>1, <3>4
  <2> HIDE DEF T
  <2> QED
    BY <1>1, <2>1, <2>2, UpTo
<1>9. Walked(f[n], n, layout, numbered)
  BY <1>1, <1>8
<1> HIDE DEF recs
<1>10. \A r \in recs : /\ r.pu \in Cpu /\ r.pkg = Pkg[r.pu] /\ Pkg[r.pu] \in Nat
                       /\ r.numa \in NumaId \cup {-1} /\ r.core \in Nat
  BY <1>6, <1>9, MachineAssumption DEF Walked, RightPlace
<1>11. \A r, s \in recs : Pkg[r.pu] = Pkg[s.pu] => (Core[r.pu] = Core[s.pu] <=> r.core = s.core)
  BY <1>6, <1>9 DEF Walked, Apart
<1>12. /\ t = [cpus |-> t.cpus, nodes |-> t.nodes]
       /\ t.cpus = [p \in { r.pu : r \in recs } |->
                        [pkg |-> max0(of(p).pkg), numa |-> of(p).numa,
                         core |-> IF of(p).core < 0 THEN p ELSE of(p).core]]
       /\ t.nodes = [m \in { r.numa : r \in recs } \ {-1} |->
                         { r.pu : r \in { r \in recs : r.numa = m } }]
  BY DEF TopologyFromXML, recs
<1> HIDE DEF t
<1>13. ASSUME NEW p \in DOMAIN t.cpus PROVE of(p) \in recs /\ of(p).pu = p
  <2>1. \E r \in recs : r.pu = p
    BY <1>12
  <2> QED
    BY <2>1
<1>14. ASSUME NEW p \in DOMAIN t.cpus
       PROVE  /\ p \in Cpu /\ t.cpus[p].pkg = Pkg[p] /\ t.cpus[p].core = of(p).core
              /\ Pkg[p] \in Nat
  <2>1. /\ of(p) \in recs /\ of(p).pu = p /\ of(p).core \in Nat
        /\ of(p).pkg = Pkg[p] /\ Pkg[p] \in Nat /\ p \in Cpu
    BY <1>10, <1>13
  <2>2. t.cpus[p] = [pkg |-> max0(of(p).pkg), numa |-> of(p).numa,
                     core |-> IF of(p).core < 0 THEN p ELSE of(p).core]
    BY <1>12
  <2> HIDE DEF of
  <2>3. max0(of(p).pkg) = Pkg[p] /\ ~(of(p).core < 0)
    BY <2>1 DEF max0
  <2> QED
    BY <2>1, <2>2, <2>3
<1>15. ASSUME NEW c \in DOMAIN t.cpus, NEW d \in DOMAIN t.cpus
       PROVE  <<t.cpus[c].pkg, t.cpus[c].core>> = <<t.cpus[d].pkg, t.cpus[d].core>>
                  <=> <<Pkg[c], Core[c]>> = <<Pkg[d], Core[d]>>
  <2>1. of(c) \in recs /\ of(c).pu = c /\ of(d) \in recs /\ of(d).pu = d
    BY <1>13
  <2>2. /\ t.cpus[c].pkg = Pkg[c] /\ t.cpus[c].core = of(c).core
        /\ t.cpus[d].pkg = Pkg[d] /\ t.cpus[d].core = of(d).core
    BY <1>14
  <2> HIDE DEF of
  <2>3. Pkg[c] = Pkg[d] => (Core[c] = Core[d] <=> of(c).core = of(d).core)
    BY <1>11, <2>1
  <2> QED
    BY <2>2, <2>3
<1>16. ASSUME NEW m \in DOMAIN t.nodes PROVE m \in NumaId /\ t.nodes[m] \in SUBSET Cpu
  BY <1>10, <1>12
<1>17. t = [cpus |-> t.cpus, nodes |-> t.nodes] /\ Shaped(t) /\ SameCores(t)
  BY <1>12, <1>14, <1>15, <1>16 DEF Shaped, SameCores
<1> QED
  BY <1>17 DEF t, doc

\* A list has one lowest id.
LEMMA LowestOne ==
    ASSUME NEW T \in SUBSET Cpu, NEW c \in Lowest(T, 1), NEW d \in Lowest(T, 1)
    PROVE  c = d
<1>1. T \in SUBSET Nat /\ IsFiniteSet(T)
  BY CpuAssumption, FS_Subset
<1>2. /\ c \in T /\ Cardinality({ y \in T : y < c }) < 1
      /\ d \in T /\ Cardinality({ y \in T : y < d }) < 1
  BY DEF Lowest
<1>3. /\ Cardinality(T) \in Nat
      /\ Cardinality({ y \in T : y < c }) \in 0..(Cardinality(T) - 1)
      /\ Cardinality({ y \in T : y < d }) \in 0..(Cardinality(T) - 1)
  BY <1>1, <1>2, SortedRanks
<1>4. Cardinality({ y \in T : y < c }) = Cardinality({ y \in T : y < d })
  BY <1>2, <1>3
<1>5. \A x, z \in T : Cardinality({ y \in T : y < x }) = Cardinality({ y \in T : y < z }) => x = z
  BY <1>1, SortedRanks
<1> QED
  BY <1>2, <1>4, <1>5

\* A step that leaves the topology and the kernel alone.
LEMMA QuietFound ==
    ASSUME Found, UNCHANGED <<online, hotplugs, used, topo, pkgRead>>,
           pc' \in {"start", "present", "hwloc"} => pc \in {"start", "present", "hwloc"},
           pc' \in {"start", "present", "map"} => pkgRead = -1,
           pc' \in {"map", "cpus", "lists"} => used = "sysfs",
           pc' = "cpus" => todo' \in SUBSET Cpu /\ (pkgRead = -1 \/ (pc = "cpus" /\ todo' = todo))
    PROVE  Found'
<1>1. Shaped(topo)' /\ (used' = "hwloc" => SameCores(topo)')
  BY DEF Found, Shaped, SameCores
<1>2. ASSUME used' # "hwloc", online' = Cpu, hotplugs' = 0
      PROVE  /\ \A c \in DOMAIN topo'.cpus : topo'.cpus[c].pkg = Pkg[c] /\ topo'.cpus[c].core = Core[c]
             /\ (pc' = "cpus" /\ pkgRead' # -1) => \A c \in Lowest(todo', 1) : pkgRead' = Pkg[c]
  BY <1>2 DEF Found
<1> QED
  BY <1>1, <1>2 DEF Found

\* Before the command nothing has been found or printed.
LEMMA InitFound == Init => Found /\ Output
<1> SUFFICES ASSUME Init PROVE Found /\ Output
  OBVIOUS
<1>1. /\ topo = [cpus |-> << >>, nodes |-> << >>] /\ pc = "start" /\ used = "none"
      /\ hotplugs = 0 /\ pkgRead = -1 /\ cmd = "none"
  BY DEF Init, NotRead
<1>2. topo.cpus = << >> /\ topo.nodes = << >>
  BY <1>1
<1>3. DOMAIN topo.cpus = {} /\ DOMAIN topo.nodes = {}
  BY <1>2
<1>4. Shaped(topo)
  BY <1>3 DEF Shaped
<1> QED
  BY <1>1, <1>3, <1>4 DEF Found, Output

\* Reading sysfs.
LEMMA SysfsFound ==
    ASSUME Source, Found,
           ReadPresent \/ (\E c \in Cpu : ReadPackage(c) \/ ReadCore(c)) \/ \E n \in NumaId : ReadForList(n)
    PROVE  Found'
<1>0. online \in SUBSET Cpu
  BY DEF Source
<1>1. CASE ReadPresent
  <2>1. /\ UNCHANGED <<online, hotplugs, topo, pkgRead>> /\ pc = "present" /\ pc' = "map"
        /\ used' = "sysfs"
    BY <1>1 DEF ReadPresent, kernel
  <2>2. DOMAIN topo'.cpus = {} /\ pkgRead' = -1
    BY <2>1 DEF Found
  <2>3. Shaped(topo)'
    BY <2>1 DEF Found, Shaped
  <2> QED
    BY <2>1, <2>2, <2>3 DEF Found
<1>2. ASSUME NEW c \in Cpu, ReadPackage(c) PROVE Found'
  <2>1. /\ UNCHANGED <<online, hotplugs, used, topo, pc, todo>> /\ pc = "cpus"
        /\ c \in Lowest(todo, 1) /\ pkgRead' = readIntFile(c, Pkg[c], 0)
    BY <1>2 DEF ReadPackage, kernel, command
  <2>2. pkgRead' \in Nat
    BY <2>1, MachineAssumption DEF readIntFile
  <2>3. used = "sysfs" /\ todo \in SUBSET Cpu
    BY <2>1 DEF Found
  <2>4. ASSUME online = Cpu, NEW d \in Lowest(todo, 1) PROVE pkgRead' = Pkg[d]
    <3>1. d = c
      BY <2>1, <2>3, LowestOne
    <3> QED
      BY <2>1, <2>4, <3>1 DEF readIntFile
  <2>5. Shaped(topo)'
    BY <2>1 DEF Found, Shaped
  <2>6. Lowest(todo, 1)' = Lowest(todo, 1)
    BY <2>1
  <2> QED
    BY <2>1, <2>2, <2>3, <2>4, <2>5, <2>6 DEF Found
<1>3. ASSUME NEW c \in Cpu, ReadCore(c) PROVE Found'
  <2> DEFINE rec == [pkg |-> pkgRead, numa |-> nodeOf[c], core |-> readIntFile(c, Core[c], c)]
  <2>1. /\ UNCHANGED <<online, hotplugs, used, pc>> /\ pc = "cpus"
        /\ c \in Lowest(todo, 1) /\ todo' = todo \ {c}
        /\ pkgRead # -1 /\ pkgRead' = -1
        /\ topo' = [topo EXCEPT !.cpus = Entered(@, c, rec)]
    BY <1>3 DEF ReadCore, kernel, command, NotRead
  <2>2. used = "sysfs" /\ todo \in SUBSET Cpu /\ pkgRead \in Nat
    BY <2>1 DEF Found
  <2>3. topo = [cpus |-> topo.cpus, nodes |-> topo.nodes] /\ Shaped(topo)
    BY DEF Found
  <2>4. rec.pkg = pkgRead /\ rec.core = readIntFile(c, Core[c], c)
    OBVIOUS
  <2> HIDE DEF rec
  <2>5. /\ topo'.cpus = Entered(topo.cpus, c, rec) /\ topo'.nodes = topo.nodes
        /\ topo' = [cpus |-> topo'.cpus, nodes |-> topo'.nodes]
    BY <2>1, <2>3
  <2>6. /\ DOMAIN topo'.cpus = DOMAIN topo.cpus \cup {c}
        /\ \A d \in DOMAIN topo'.cpus : topo'.cpus[d] = IF d = c THEN rec ELSE topo.cpus[d]
    BY <2>5 DEF Entered
  <2>7. Shaped(topo)'
    <3>1. \A d \in DOMAIN topo'.cpus : topo'.cpus[d].pkg \in Nat
      BY <2>2, <2>3, <2>4, <2>6 DEF Shaped
    <3> QED
      BY <2>3, <2>5, <2>6, <3>1 DEF Shaped
  <2>8. ASSUME online = Cpu, hotplugs = 0, NEW d \in DOMAIN topo'.cpus
        PROVE  topo'.cpus[d].pkg = Pkg[d] /\ topo'.cpus[d].core = Core[d]
    <3>1. CASE d = c
      <4>1. pkgRead = Pkg[c]
        BY <2>1, <2>2, <2>8 DEF Found
      <4>2. rec.core = Core[c]
        BY <2>4, <2>8 DEF readIntFile
      <4> QED
        BY <2>4, <2>6, <3>1, <4>1, <4>2
    <3>2. CASE d # c
      <4>1. d \in DOMAIN topo.cpus /\ topo'.cpus[d] = topo.cpus[d]
        BY <2>6, <3>2
      <4> QED
        BY <2>2, <2>8, <4>1 DEF Found
    <3> QED
      BY <3>1, <3>2
  <2>9. todo' \in SUBSET Cpu
    BY <2>1, <2>2
  <2>10. hotplugs' \in Nat
    BY <2>1 DEF Found
  <2> QED
    BY <2>1, <2>2, <2>5, <2>7, <2>8, <2>9, <2>10 DEF Found
<1>4. ASSUME NEW n \in NumaId, ReadForList(n) PROVE Found'
  <2>1. /\ UNCHANGED <<online, hotplugs, used, pkgRead, pc>> /\ pc = "lists"
        /\ \/ topo' = [topo EXCEPT !.nodes = Entered(@, n, Listed(n))]
           \/ topo' = topo
    BY <1>4 DEF ReadForList, kernel, command
  <2>2. used = "sysfs" /\ topo = [cpus |-> topo.cpus, nodes |-> topo.nodes] /\ Shaped(topo)
    BY <2>1 DEF Found
  <2>3. topo'.cpus = topo.cpus /\ topo' = [cpus |-> topo'.cpus, nodes |-> topo'.nodes] /\ Shaped(topo)'
    <3>1. CASE topo' = topo
      BY <2>2, <3>1 DEF Shaped
    <3>2. CASE topo' = [topo EXCEPT !.nodes = Entered(@, n, Listed(n))]
      <4>1. /\ topo'.nodes = Entered(topo.nodes, n, Listed(n)) /\ topo'.cpus = topo.cpus
            /\ topo' = [cpus |-> topo'.cpus, nodes |-> topo'.nodes]
        BY <2>2, <3>2
      <4>2. /\ DOMAIN topo'.nodes = DOMAIN topo.nodes \cup {n}
            /\ \A m \in DOMAIN topo'.nodes :
                   topo'.nodes[m] = IF m = n THEN Listed(n) ELSE topo.nodes[m]
        BY <4>1 DEF Entered
      <4>3. Listed(n) \in SUBSET Cpu
        BY <1>0 DEF Listed
      <4>4. \A m \in DOMAIN topo'.nodes : topo'.nodes[m] \in SUBSET Cpu
        BY <2>2, <4>2, <4>3 DEF Shaped
      <4>5. DOMAIN topo'.nodes \in SUBSET NumaId
        BY <2>2, <4>2 DEF Shaped
      <4> QED
        BY <2>2, <4>1, <4>4, <4>5 DEF Shaped
    <3> QED
      BY <2>1, <3>1, <3>2
  <2>4. pkgRead' \in Nat \cup {-1} /\ hotplugs' \in Nat
    BY <2>1 DEF Found
  <2>5. ASSUME online' = Cpu, hotplugs' = 0, NEW c \in DOMAIN topo'.cpus
        PROVE  topo'.cpus[c].pkg = Pkg[c] /\ topo'.cpus[c].core = Core[c]
    BY <2>1, <2>2, <2>3, <2>5 DEF Found
  <2> QED
    BY <2>1, <2>2, <2>3, <2>4, <2>5 DEF Found
<1> QED
  BY <1>1, <1>2, <1>3, <1>4

\* The other steps: hwloc makes a whole topology, the rest leave it alone.
LEMMA NextFound == Source /\ Found /\ [Next]_vars => Found'
<1> SUFFICES ASSUME Source, Found, [Next]_vars PROVE Found'
  OBVIOUS
<1>0. online \in SUBSET Cpu /\ (pc \in {"start", "present", "map"} => pkgRead = -1)
      /\ (pc \in {"map", "cpus", "lists"} => used = "sysfs")
  BY DEF Source, Found
<1>1. ASSUME NEW S, Format(S) PROVE Found'
  <2>1. UNCHANGED <<online, hotplugs, used, topo, pkgRead>> /\ pc' = "done"
    BY <1>1 DEF Format, kernel, discovery
  <2> QED
    BY <2>1, QuietFound
<1>2. ASSUME NEW c, NEW s, Command(c, s) PROVE Found'
  <2>1. /\ UNCHANGED <<online, hotplugs, used, topo, pkgRead>>
        /\ pc = "start" /\ pc' \in {"present", "hwloc"}
    BY <1>2 DEF Command, kernel, discovery
  <2> QED
    BY <1>0, <2>1, QuietFound
<1>3. CASE PresentFails
  <2>1. /\ UNCHANGED <<online, hotplugs, used, topo, pkgRead>>
        /\ pc = "present" /\ pc' \in {"no topology", "hwloc"}
    BY <1>3 DEF PresentFails, kernel, command, discovery
  <2> QED
    BY <1>0, <2>1, QuietFound
<1>4. CASE MapDone \/ CpusDone \/ Discovered \/ \E n \in NumaId : ReadForMap(n)
  <2>1. /\ UNCHANGED <<online, hotplugs, used, topo, pkgRead>>
        /\ \/ pc = "map" /\ pc' = "cpus" /\ todo' = Cpu
           \/ pc = "cpus" /\ pc' = "lists"
           \/ pc = "lists" /\ pc' = "topology"
           \/ pc = "map" /\ pc' = "map"
    BY <1>4 DEF MapDone, CpusDone, Discovered, ReadForMap, kernel, command, discovery
  <2> QED
    BY <1>0, <2>1, QuietFound
<1>5. CASE HwlocFails
  <2>1. /\ UNCHANGED <<online, hotplugs, used, topo, pkgRead>>
        /\ pc = "hwloc" /\ pc' = "no topology"
    BY <1>5 DEF HwlocFails, kernel, command, discovery
  <2> QED
    BY <2>1, QuietFound
<1>6. CASE DiscoverCLI
  <2>1. /\ UNCHANGED <<online, hotplugs, pkgRead>> /\ pc' = "topology" /\ used' = "hwloc"
        /\ \E layout \in {"around", "beside"}, numbered \in BOOLEAN :
               topo' = TopologyFromXML(HwlocDoc(layout, numbered))
    BY <1>6 DEF DiscoverCLI, kernel
  <2>2. PICK layout \in {"around", "beside"}, numbered \in BOOLEAN :
            topo' = TopologyFromXML(HwlocDoc(layout, numbered))
    BY <2>1
  <2> DEFINE t == TopologyFromXML(HwlocDoc(layout, numbered))
  <2>3. t = [cpus |-> t.cpus, nodes |-> t.nodes] /\ Shaped(t) /\ SameCores(t)
    BY <1>0, HwlocIs
  <2>4. topo' = t
    BY <2>2
  <2> HIDE DEF t
  <2>5. topo' = [cpus |-> topo'.cpus, nodes |-> topo'.nodes] /\ Shaped(topo)' /\ SameCores(topo)'
    BY <2>3, <2>4 DEF Shaped, SameCores
  <2>6. pkgRead' \in Nat \cup {-1} /\ hotplugs' \in Nat
    BY <2>1 DEF Found
  <2> QED
    BY <2>1, <2>5, <2>6 DEF Found
<1>7. CASE topologyCmd \/ topologyHintsCmd
  <2>1. UNCHANGED <<online, hotplugs, used, topo, pkgRead>> /\ pc' = "done"
    BY <1>7 DEF topologyCmd, topologyHintsCmd, kernel, command, discovery
  <2> QED
    BY <2>1, QuietFound
<1>8. ASSUME NEW n, NEW node, NEW strat, Select(n, node, strat) PROVE Found'
  <2>1. /\ UNCHANGED <<online, hotplugs, used, topo, pkgRead>>
        /\ pc' \in {"selected", "select cpus"}
    BY <1>8 DEF Select, kernel, command, discovery
  <2> QED
    BY <2>1, QuietFound
<1>9. CASE BadPriority \/ Bind \/ RunFails \/ Run
  <2>1. /\ UNCHANGED <<online, hotplugs, used, topo, pkgRead>>
        /\ pc' \in {"bad priority", "bound", "run failed", "exec"}
    BY <1>9 DEF BadPriority, Bind, RunFails, Run, kernel, command, discovery
  <2> QED
    BY <2>1, QuietFound
<1>10. ASSUME NEW c \in Cpu, Hotplug(c) PROVE Found'
  <2>1. UNCHANGED <<used, topo, pkgRead, todo, pc>> /\ hotplugs' = hotplugs + 1
    BY <1>10 DEF Hotplug, command, discovery
  <2>2. hotplugs' \in Nat /\ hotplugs' # 0
    BY <2>1 DEF Found
  <2>3. Shaped(topo)' /\ (used' = "hwloc" => SameCores(topo)')
    BY <2>1 DEF Found, Shaped, SameCores
  <2> QED
    BY <2>1, <2>2, <2>3 DEF Found
<1>11. CASE UNCHANGED vars
  <2>1. UNCHANGED <<online, hotplugs, used, topo, pkgRead, pc, todo>>
    BY <1>11 DEF vars, kernel, command, discovery
  <2>2. pc = "cpus" => todo \in SUBSET Cpu
    BY DEF Found
  <2> QED
    BY <1>0, <2>1, <2>2, QuietFound
<1> QED
  BY <1>1, <1>2, <1>3, <1>4, <1>5, <1>6, <1>7, <1>8, <1>9, <1>10, <1>11, SysfsFound DEF Next, Discovery

\* Every command ends by printing what its step made, and nothing follows.
LEMMA NextOutput == Output /\ [Next]_vars => Output'
<1> SUFFICES ASSUME Output, [Next]_vars PROVE Output'
  OBVIOUS
<1>0. cmd = "format" => pc = "done"
  BY DEF Output
<1>1. ASSUME NEW S \in SUBSET (0..MaxCpu), Format(S) PROVE Output'
  <2>1. /\ cmd' = "format" /\ pc' = "done"
        /\ out' = [ids |-> S, text |-> FormatCPUList(S), spec |-> CPUsToTasksetSpec(S)]
    BY <1>1 DEF Format
  <2>2. out'.ids = S /\ out'.text = FormatCPUList(S) /\ out'.spec = CPUsToTasksetSpec(S)
    BY <2>1
  <2> QED
    BY <2>1, <2>2 DEF Output
<1>2. ASSUME NEW c \in {"run", "topology", "hints"}, NEW s, Command(c, s) PROVE Output'
  <2>1. cmd' # "format" /\ pc' # "done"
    BY <1>2 DEF Command
  <2> QED
    BY <2>1 DEF Output
<1>3. CASE topologyCmd
  <2>1. cmd' = "topology" /\ out' = FormatASCII(topo) /\ topo' = topo
    BY <1>3 DEF topologyCmd, command, discovery
  <2> QED
    BY <2>1 DEF Output
<1>4. CASE topologyHintsCmd
  <2>1. cmd' = "hints" /\ out' = BuildClusterHints(topo) /\ topo' = topo
    BY <1>4 DEF topologyHintsCmd, command, discovery
  <2> QED
    BY <2>1 DEF Output
<1>5. ASSUME cmd' = cmd, pc # "done", pc' # "done" PROVE Output'
  BY <1>0, <1>5 DEF Output
<1>6. CASE Discovery
  <2>1. CASE PresentFails \/ ReadPresent \/ MapDone \/ CpusDone \/ Discovered
    BY <1>5, <2>1
       DEF PresentFails, ReadPresent, MapDone, CpusDone, Discovered, command
  <2>2. ASSUME NEW n, ReadForMap(n) \/ ReadForList(n) PROVE Output'
    BY <1>5, <2>2 DEF ReadForMap, ReadForList, command
  <2>3. ASSUME NEW c, ReadPackage(c) \/ ReadCore(c) PROVE Output'
    BY <1>5, <2>3 DEF ReadPackage, ReadCore, command
  <2>4. CASE HwlocFails \/ DiscoverCLI
    <3>1. cmd' = cmd /\ pc # "done" /\ pc' # "done"
      BY <2>4 DEF HwlocFails, DiscoverCLI, command
    <3> QED
      BY <1>5, <3>1
  <2> QED
    BY <1>6, <2>1, <2>2, <2>3, <2>4 DEF Discovery
<1>7. ASSUME NEW n, NEW node, NEW strat, Select(n, node, strat) PROVE Output'
  <2>1. cmd' = cmd /\ pc # "done" /\ pc' # "done"
    BY <1>7 DEF Select, command
  <2> QED
    BY <1>5, <2>1
<1>8. CASE BadPriority \/ Bind \/ RunFails \/ Run
  BY <1>5, <1>8 DEF BadPriority, Bind, RunFails, Run, command
<1>9. ASSUME NEW c, Hotplug(c) PROVE Output'
  <2>1. cmd' = cmd /\ pc # "done" /\ pc' # "done"
    BY <1>9 DEF Hotplug, command
  <2> QED
    BY <1>5, <2>1
<1>10. CASE UNCHANGED vars
  <2>1. UNCHANGED <<cmd, pc, out, topo>>
    BY <1>10 DEF vars, command, discovery
  <2> QED
    BY <2>1 DEF Output
<1> QED
  BY <1>1, <1>2, <1>3, <1>4, <1>6, <1>7, <1>8, <1>9, <1>10 DEF Next

-----------------------------------------------------------------------------
(* The results.                                                            *)

\* The invariant holds of every behaviour.
LEMMA Inductive == Spec => []IInv
<1>1. IInv /\ [Next]_vars => IInv'
  BY NextSource, NextSelection DEF IInv
<1> QED
  BY <1>1, InitInv, PTL DEF Spec

\* The invariant of the topology commands holds of every behaviour.
LEMMA Printed == Spec => [](Found /\ Output)
<1>1. Init => Source /\ Found /\ Output
  BY InitInv, InitFound DEF IInv
<1>2. Source /\ Found /\ Output /\ [Next]_vars => (Source /\ Found /\ Output)'
  BY NextSource, NextFound, NextOutput
<1> QED
  BY <1>1, <1>2, PTL DEF Spec

\* What SelectCPUs has answered, in any state after it.
LEMMA Answer ==
    ASSUME IInv, pc \in Selected \cup {"select cpus"}
    PROVE  /\ want \in Nat /\ sel.cpus \in SUBSET Cpu
           /\ Read
           /\ (sel.ok /\ want > 0 /\ want < Cardinality(Cpu) /\ DOMAIN topo.nodes # {}) =>
                  Promised(topo.nodes, want, prefer, sel.cpus)
           /\ ~sel.ok => \/ strategy = "other"
                         \/ prefer # NoPrefer /\ Cardinality(CPUsOnNode(topo.nodes, prefer)) < want
                         \/ Cardinality(UNION { topo.nodes[m] : m \in DOMAIN topo.nodes }) < want
<1>1. /\ cmd = "run" /\ want \in Nat /\ strategy \in {"same-numa", "other"}
      /\ sel = SelectCPUs(Cpu, topo.nodes, want, prefer, strategy)
  BY DEF IInv, Selection
<1>2. Read /\ PerNode(topo.nodes)
  BY <1>1 DEF IInv, Source, Read
<1> QED
  BY <1>1, <1>2, SelectIs

\* SelectCPUs returns exactly the number of CPUs asked for, on the preferred
\* node, or on a largest node whenever one can hold them, on every machine and
\* whatever CPUs went on- or offline while it was read (placement.go).
THEOREM SelectionSafety == Spec => []SelectionLocal
<1>1. ASSUME IInv, pc \in Selected, Constrained, DOMAIN topo.nodes # {}
      PROVE  Promised(topo.nodes, want, prefer, sel.cpus)
  <2>1. sel.ok
    BY <1>1 DEF IInv, Selection, Selected
  <2> QED
    BY <1>1, <2>1, Answer DEF Constrained
<1>2. IInv => SelectionLocal
  BY <1>1 DEF SelectionLocal, Selected, Promised
<1> QED
  BY <1>2, Inductive, PTL

\* SelectCPUs refuses a request only for an unknown strategy, a preferred node
\* that is too small or a machine that is (placement.go).
THEOREM RefusalSafety == Spec => []RefusedForAReason
<1>1. ASSUME IInv, pc = "select cpus" PROVE ~sel.ok
  BY <1>1 DEF IInv, Selection
<1>2. IInv => RefusedForAReason
  BY <1>1, Answer DEF RefusedForAReason
<1> QED
  BY <1>2, Inductive, PTL

\* The node that numactl binds memory to is the hardware node of every CPU
\* selected and of every CPU the command may run on, although CPUs changed
\* state between the reads of the node lists (main.go, run_linux.go).
THEOREM MemorySafety == Spec => []MemoryIsLocal
<1>1. ASSUME IInv, pc = "exec", bind # -1, NEW c \in sel.cpus PROVE Home[c] = bind
  <2>1. sel.cpus \in SUBSET Cpu /\ Read
    BY <1>1, Answer DEF Selected
  <2>2. bind = PrimaryNUMANodeForCPUs(topo, sel.cpus)
    BY <1>1 DEF IInv, Selection, Selected
  <2>3. topo.cpus[c].numa = bind
    BY <1>1, <2>1, <2>2, PrimaryIs
  <2>4. c \in DOMAIN topo.cpus
    BY <1>1, <2>1 DEF Read
  <2> QED
    BY <1>1, <2>1, <2>3, <2>4 DEF Read
<1>2. ASSUME IInv, pc = "exec", bind # -1, NEW c \in allowed PROVE Home[c] = bind
  BY <1>2 DEF IInv, Selection, Selected
<1>3. IInv => MemoryIsLocal
  BY <1>1, <1>2 DEF MemoryIsLocal
<1> QED
  BY <1>3, Inductive, PTL

\* For every finite list of ids, both formatters print the maximal intervals
\* in increasing order, and the text parses back to the ids (cpulist.go,
\* cpuset.go).
THEOREM FormatSafety == Spec => []FormatRoundTrips
<1>1. ASSUME Found, Output PROVE FormatRoundTrips
  <2> SUFFICES ASSUME cmd = "format"
               PROVE  /\ ParseOK(out.text) /\ ParseCPUList(out.text) = out.ids
                      /\ out.text = Reference(out.ids) /\ out.spec = out.text
    BY DEF FormatRoundTrips
  <2>1. /\ out.ids \in SUBSET (0..MaxCpu)
        /\ out.text = FormatCPUList(out.ids) /\ out.spec = CPUsToTasksetSpec(out.ids)
    BY <1>1 DEF Output
  <2>2. IsFiniteSet(0..MaxCpu) /\ 0..MaxCpu \in SUBSET Nat
    BY BoundAssumption, FS_Interval
  <2>3. out.ids \in SUBSET Nat /\ IsFiniteSet(out.ids)
    BY <2>1, <2>2, FS_Subset
  <2> QED
    BY <2>1, <2>3, FormatIs, TasksetIs
<1> QED
  BY <1>1, Printed, PTL

\* The tree shows each CPU on one line, and the sockets of the hints partition
\* the CPUs and cores that were found, of which there are as many as in the
\* hardware, on every machine and for every document that hwloc exports
\* (hints.go, format.go, parse.go).
THEOREM HintsSafety == Spec => []HintsConsistent
<1> DEFINE pair(c) == <<topo.cpus[c].pkg, topo.cpus[c].core>>
           hard(c) == <<Pkg[c], Core[c]>>
<1>1. ASSUME Found PROVE WellFormed(topo)
  <2>1. Shaped(topo)
    BY <1>1 DEF Found
  <2>2. \A T \in SUBSET Cpu : T \in SUBSET Nat /\ IsFiniteSet(T)
    BY CpuAssumption, FS_Subset
  <2>3. DOMAIN topo.nodes \in SUBSET Nat /\ IsFiniteSet(DOMAIN topo.nodes)
    BY <2>1, CpuAssumption, FS_Subset DEF Shaped
  <2> QED
    BY <2>1, <2>2, <2>3 DEF Shaped, WellFormed
<1>2. ASSUME Found, used = "hwloc" \/ (online = Cpu /\ hotplugs = 0)
      PROVE  Cardinality({ pair(c) : c \in DOMAIN topo.cpus })
                 = Cardinality({ hard(c) : c \in DOMAIN topo.cpus })
  <2> DEFINE D == DOMAIN topo.cpus
             f == [c \in D |-> pair(c)]
             g == [c \in D |-> hard(c)]
  <2>1. CASE used = "hwloc"
    <3>1. IsFiniteSet(D)
      BY <1>1, <1>2 DEF WellFormed
    <3>2. \A c, d \in D : f[c] = f[d] <=> g[c] = g[d]
      BY <1>2, <2>1 DEF Found, SameCores
    <3>3. DOMAIN f = D /\ DOMAIN g = D
      OBVIOUS
    <3>4. /\ { f[c] : c \in D } = { pair(c) : c \in DOMAIN topo.cpus }
          /\ { g[c] : c \in D } = { hard(c) : c \in DOMAIN topo.cpus }
      OBVIOUS
    <3> HIDE DEF f, g, D, pair, hard
    <3>5. Cardinality({ f[c] : c \in D }) = Cardinality({ g[c] : c \in D })
      BY <3>1, <3>2, <3>3, SameKernel
    <3> QED
      BY <3>4, <3>5
  <2>2. CASE used # "hwloc"
    <3>1. \A c \in D : topo.cpus[c].pkg = Pkg[c] /\ topo.cpus[c].core = Core[c]
      BY <1>2, <2>2 DEF Found
    <3>2. \A c \in D : pair(c) = hard(c)
      BY <3>1
    <3> HIDE DEF pair, hard
    <3>3. { pair(c) : c \in D } = { hard(c) : c \in D }
      BY <3>2
    <3> QED
      BY <3>3
  <2> QED
    BY <2>1, <2>2
<1>3. ASSUME Found, Output, pc = "done", cmd = "topology", NEW c \in DOMAIN topo.cpus
      PROVE  Cardinality({ l \in out : c \in l.threads }) = 1
  <2>1. out = FormatASCII(topo)
    BY <1>3 DEF Output
  <2> QED
    BY <1>3, <2>1, TreeIs
<1>4. ASSUME Found, Output, pc = "done", cmd = "hints"
      PROVE  LET list(i) == ParseCPUList(out.sockets[i].list)
             IN  /\ UNION { list(i) : i \in DOMAIN out.sockets } = DOMAIN topo.cpus
                 /\ Total([i \in DOMAIN out.sockets |-> out.sockets[i].logical]) = out.logicalCPUs
                 /\ Total([i \in DOMAIN out.sockets |-> out.sockets[i].physical]) = out.physicalCores
                 /\ \A i \in DOMAIN out.numaNodes :
                        LET n == out.numaNodes[i]
                        IN  /\ ParseCPUList(n.list) = topo.nodes[n.node]
                            /\ out.minPerNode <= n.logical /\ n.logical <= out.maxPerNode
                 /\ (used = "hwloc" \/ (online = Cpu /\ hotplugs = 0)) =>
                        out.physicalCores = Cardinality({ hard(c) : c \in DOMAIN topo.cpus })
  <2>1. out = BuildClusterHints(topo)
    BY <1>4 DEF Output
  <2>2. WellFormed(topo)
    BY <1>1, <1>4
  <2> HIDE DEF hard
  <2> QED
    BY <1>2, <1>4, <2>1, <2>2, HintsIs
<1>5. ASSUME Found, Output PROVE HintsConsistent
  BY <1>3, <1>4, <1>5 DEF HintsConsistent
<1> QED
  BY <1>5, Printed, PTL
=============================================================================
