-------------------------- MODULE CellDaemonProofs --------------------------
(***************************************************************************)
(* The daemon's registry and its eviction, for any number of concurrent    *)
(* calls, cells, CPU lists and processes.  A call that met no other one on *)
(* its directory has had the directory to itself since it arrived, so what *)
(* it wrote is still there when it registers or forgets the cell; a call   *)
(* on another directory touches neither the group nor the entries that     *)
(* count for this one.                                                     *)
(***************************************************************************)
EXTENDS CellDaemon, TLAPS

-----------------------------------------------------------------------------
(* The inductive invariant.                                                *)

Label ==
    Changing \cup Evicting
        \cup {"idle", "lookup", "attach", "start", "attachChild", "stream", "sample"}

Group == [exists : BOOLEAN, cpus : CpuLists \cup {<< >>}]
Meta  == [path : Dir \cup {<< >>}, cpus : CpuLists \cup {<< >>}]

TypeOK ==
    /\ cells \in [CellId -> Meta]
    /\ group \in [Dir -> Group]
    /\ cpc \in [Call -> Label]
    /\ req \in [Call -> Request \cup {NoRequest}]
    /\ scan \in [Call -> SUBSET Pid]
    /\ found \in [Call -> SUBSET Pid]
    /\ settled \subseteq Dir

\* The request fits the handler that is working on it.
Fits(c) ==
    /\ cpc[c] \in Changing => req[c].id \in CellId
    /\ cpc[c] \in Creating => req[c].cpus \in CpuLists
    /\ cpc[c] = "lookup" => req[c].op \in {"attach", "run", "watch"}

\* An entry names the directory of its own id.
PathsOwn == \A id \in CellId : cells[id].path \in {<< >>, CellPath(id)}

At(c) == CellPath(req[c].id)

\* Two calls that change one directory have met.
Apart ==
    \A c, o \in Call :
        (c # o /\ cpc[c] \in Changing /\ cpc[o] \in Changing /\ At(c) = At(o)) => c \in overlap

\* What a call that met nobody has written is still there.
Undisturbed(c) ==
    (cpc[c] \in Changing /\ c \notin overlap) =>
        /\ cpc[c] \in {"cpus", "mems", "partition", "register"} => group[At(c)].exists
        /\ cpc[c] \in {"mems", "partition", "register"} => group[At(c)].cpus = req[c].cpus
        /\ cpc[c] = "remove" => cells[req[c].id].path = << >>

\* Registry and file system agree on a directory.
Accurate(d) ==
    /\ group[d].exists <=> \E id \in CellId : cells[id].path = d
    /\ \A id \in CellId : cells[id].path = d => cells[id].cpus = group[d].cpus

Registry ==
    /\ PathsOwn
    /\ Apart
    /\ \A c \in Call : Fits(c) /\ Undisturbed(c)
    /\ \A d \in settled : Changers(d) = {} => Accurate(d)

\* A process on an eviction's list was on its CPUs, or has moved since.
Targets ==
    \A c \in Call :
        /\ cpc[c] \notin {"check", "signal"} => found[c] = {}
        /\ \A p \in found[c] : OnTarget(c, p) \/ p \in moved[c]

IInv == TypeOK /\ Registry /\ Targets

-----------------------------------------------------------------------------
(* Steps of one call.                                                      *)

\* Call c goes to l and leaves the other calls alone.
Moves(c, l) ==
    /\ \A o \in Call : cpc'[o] = IF o = c THEN l ELSE cpc[o]
    /\ \A o \in Call \ {c} : req'[o] = req[o]

\* Where Goto and Return lead.
LEMMA CallMoves ==
    ASSUME TypeOK, NEW c \in Call
    PROVE  /\ \A l \in Label : Goto(c, l) => /\ Moves(c, l) /\ req'[c] = req[c]
                                             /\ cpc' \in [Call -> Label]
                                             /\ req' \in [Call -> Request \cup {NoRequest}]
           /\ Return(c) => /\ Moves(c, "idle") /\ cpc' \in [Call -> Label]
                           /\ req' \in [Call -> Request \cup {NoRequest}]
<1>0. cpc \in [Call -> Label] /\ req \in [Call -> Request \cup {NoRequest}]
  BY DEF TypeOK
<1>1. ASSUME NEW l \in Label, Goto(c, l)
      PROVE  /\ Moves(c, l) /\ req'[c] = req[c] /\ cpc' \in [Call -> Label]
             /\ req' \in [Call -> Request \cup {NoRequest}]
  BY <1>0, <1>1 DEF Goto, Moves
<1>2. ASSUME Return(c)
      PROVE  /\ Moves(c, "idle") /\ cpc' \in [Call -> Label]
             /\ req' \in [Call -> Request \cup {NoRequest}]
  <2>1. "idle" \in Label
    BY DEF Label
  <2> QED
    BY <1>0, <1>2, <2>1 DEF Return, Moves
<1> QED
  BY <1>1, <1>2

\* The directory of a cell is a name, and never the empty path.
LEMMA CellPathNames ==
    ASSUME NEW id \in CellId PROVE CellPath(id) \in Dir /\ CellPath(id) # << >>
<1>1. id \in Seq(Rune)
  BY CellIdAssumption
<1>2. sanitizeID(id) \in Seq(Rune \cup {"-", "default"})
  <2>1. CASE id = << >>
    BY <2>1 DEF sanitizeID
  <2>2. CASE id # << >>
    <3> DEFINE clean == [i \in 1..Len(id) |-> IF id[i] \in SafeRune THEN id[i] ELSE "-"]
    <3>1. sanitizeID(id) = clean
      BY <1>1, <2>2 DEF sanitizeID
    <3>2. Len(id) \in Nat /\ \A i \in 1..Len(id) : clean[i] \in Rune \cup {"-", "default"}
      BY <1>1
    <3>3. clean \in [1..Len(id) -> Rune \cup {"-", "default"}]
      BY <3>2
    <3> QED
      BY <3>1, <3>2, <3>3
  <2> QED
    BY <2>1, <2>2
<1>3. CellPath(id) # << >>
  BY <1>2 DEF CellPath
<1> QED
  BY <1>3 DEF Dir

-----------------------------------------------------------------------------
(* Types.                                                                  *)

\* The types hold before the first call.
LEMMA InitTypeOK == Init => TypeOK
BY DEF Init, TypeOK, NoMeta, Meta, NoGroup, Group, Label

\* Every step keeps the types, given that the requests fit.
LEMMA NextTypeOK ==
    ASSUME TypeOK, \A c \in Call : Fits(c), Next PROVE TypeOK'
<1>0. /\ Creating \subseteq Changing /\ Changing \subseteq Label /\ Evicting \subseteq Label
      /\ {"idle", "lookup", "attach", "start", "attachChild", "stream", "sample"} \subseteq Label
      /\ Creating = {"mkdir", "cpus", "mems", "partition", "register"}
      /\ {"unregister", "remove"} \subseteq Label /\ {"readdir", "check", "signal"} \subseteq Label
      /\ Creating \subseteq Label
  BY DEF Label, Changing, Creating, Evicting
<1>1. ASSUME NEW c \in Call, cpc[c] \in Changing PROVE req[c].id \in CellId /\ CellPath(req[c].id) \in Dir
  BY <1>1, CellPathNames DEF Fits
<1>2. ASSUME NEW c \in Call, Return(c) \/ \E l \in Label : Goto(c, l)
      PROVE  cpc' \in [Call -> Label] /\ req' \in [Call -> Request \cup {NoRequest}]
  BY <1>2, CallMoves
<1>3. ASSUME NEW c \in Call, cpc[c] \in Changing, Fail(c) \/ Succeed(c)
      PROVE  settled' \subseteq Dir /\ Return(c)
  <2>1. settled \subseteq Dir
    BY DEF TypeOK
  <2> QED
    BY <1>1, <1>3, <2>1 DEF Fail, Succeed
<1>4. ASSUME NEW c \in Call, NEW m \in Request, Arrive(c, m) PROVE TypeOK'
  <2>1. FirstStep(m) \in Label
    BY <1>0 DEF FirstStep
  <2>2. cpc' \in [Call -> Label]
    BY <1>4, <2>1 DEF Arrive, TypeOK
  <2>3. req' \in [Call -> Request \cup {NoRequest}]
    BY <1>4 DEF Arrive, TypeOK
  <2> QED
    BY <1>4, <2>2, <2>3 DEF Arrive, TypeOK, kernelVars, evictVars
<1>5. ASSUME NEW c \in Call, MakeDir(c) PROVE TypeOK'
  <2>1. cpc[c] \in Changing /\ UNCHANGED <<cells, scan, found>>
    BY <1>0, <1>5 DEF MakeDir, evictVars
  <2>2. CASE Fail(c) /\ UNCHANGED group
    BY <1>2, <1>3, <2>1, <2>2 DEF TypeOK
  <2>3. CASE group' = [group EXCEPT ![CellPath(req[c].id)].exists = TRUE] /\ Goto(c, "cpus") /\ UNCHANGED settled
    <3>1. group' \in [Dir -> Group]
      BY <1>1, <2>1, <2>3 DEF TypeOK, Group
    <3> QED
      BY <1>0, <1>2, <2>1, <2>3, <3>1 DEF TypeOK
  <2> QED
    BY <1>5, <2>2, <2>3 DEF MakeDir
<1>6. ASSUME NEW c \in Call, WriteCpus(c) PROVE TypeOK'
  <2>1. cpc[c] \in Changing /\ req[c].cpus \in CpuLists /\ UNCHANGED <<cells, scan, found>>
    BY <1>0, <1>6 DEF WriteCpus, evictVars, Fits
  <2>2. CASE Fail(c) /\ UNCHANGED group
    BY <1>2, <1>3, <2>1, <2>2 DEF TypeOK
  <2>3. CASE group' = [group EXCEPT ![CellPath(req[c].id)].cpus = req[c].cpus] /\ Goto(c, "mems") /\ UNCHANGED settled
    <3>1. group' \in [Dir -> Group]
      BY <1>1, <2>1, <2>3 DEF TypeOK, Group
    <3> QED
      BY <1>0, <1>2, <2>1, <2>3, <3>1 DEF TypeOK
  <2> QED
    BY <1>6, <2>2, <2>3 DEF WriteCpus
<1>7. ASSUME NEW c \in Call, WriteMems(c) PROVE TypeOK'
  <2>1. cpc[c] \in Changing /\ UNCHANGED <<cells, group, scan, found>>
    BY <1>0, <1>7 DEF WriteMems, evictVars, kernelVars
  <2>2. CASE Fail(c)
    BY <1>2, <1>3, <2>1, <2>2 DEF TypeOK
  <2>3. CASE Goto(c, IF req[c].exclusive THEN "partition" ELSE "register") /\ UNCHANGED settled
    BY <1>0, <1>2, <2>1, <2>3 DEF TypeOK
  <2> QED
    BY <1>7, <2>2, <2>3 DEF WriteMems
<1>8. ASSUME NEW c \in Call, WritePartition(c) PROVE TypeOK'
  <2>1. cpc[c] \in Changing /\ UNCHANGED <<cells, scan, found, settled>> /\ Goto(c, "register")
    BY <1>0, <1>8 DEF WritePartition, evictVars, histVars
  <2>2. group' \in [Dir -> Group]
    BY <1>8 DEF WritePartition, kernelVars, TypeOK
  <2> QED
    BY <1>0, <1>2, <2>1, <2>2 DEF TypeOK
<1>9. ASSUME NEW c \in Call, Register(c) PROVE TypeOK'
  <2>1. /\ cpc[c] \in Changing /\ req[c].cpus \in CpuLists
        /\ UNCHANGED <<group, scan, found>> /\ Succeed(c) /\ StoreMeta(c)
    BY <1>0, <1>9 DEF Register, evictVars, kernelVars, Fits
  <2>2. cells' \in [CellId -> Meta]
    BY <1>1, <2>1 DEF StoreMeta, TypeOK, Meta
  <2> QED
    BY <1>2, <1>3, <2>1, <2>2 DEF TypeOK
<1>10. ASSUME NEW c \in Call, Unregister(c) PROVE TypeOK'
  <2>1. UNCHANGED <<group, scan, found, settled>> /\ Goto(c, "remove")
    BY <1>10 DEF Unregister, evictVars, kernelVars, histVars
  <2>2. cells' \in [CellId -> Meta]
    BY <1>10 DEF Unregister, TypeOK, Meta, NoMeta
  <2> QED
    BY <1>0, <1>2, <2>1, <2>2 DEF TypeOK
<1>11. ASSUME NEW c \in Call, RemoveGroup(c) PROVE TypeOK'
  <2>1. cpc[c] \in Changing /\ UNCHANGED <<cells, scan, found>> /\ (Fail(c) \/ Succeed(c))
    BY <1>11 DEF RemoveGroup, evictVars, Changing
  <2>2. group' \in [Dir -> Group]
    <3>1. NoGroup \in Group /\ group \in [Dir -> Group]
      BY DEF NoGroup, Group, TypeOK
    <3> QED
      BY <1>11, <3>1 DEF RemoveGroup
  <2> QED
    BY <1>2, <1>3, <2>1, <2>2 DEF TypeOK
<1>12. ASSUME NEW c \in Call, Lookup(c) PROVE TypeOK'
  <2>1. UNCHANGED <<cells, group, scan, found, settled>>
    BY <1>12 DEF Lookup, evictVars, kernelVars, histVars
  <2>2. Return(c) \/ \E l \in Label : Goto(c, l)
    BY <1>0, <1>12 DEF Lookup, Fits
  <2> QED
    BY <1>2, <2>1, <2>2 DEF TypeOK
<1>13. ASSUME NEW c \in Call,
              Attach(c) \/ StartChild(c) \/ AttachChild(c) \/ StreamEnds(c) \/ Sample(c)
       PROVE  TypeOK'
  <2>1. UNCHANGED <<cells, group, scan, found, settled>>
    BY <1>13 DEF Attach, StartChild, AttachChild, StreamEnds, Sample, evictVars, kernelVars, histVars
  <2>2. Return(c) \/ \E l \in Label : Goto(c, l)
    BY <1>0, <1>13 DEF Attach, StartChild, AttachChild, StreamEnds, Sample
  <2> QED
    BY <1>2, <2>1, <2>2 DEF TypeOK
<1>14. ASSUME NEW c \in Call, ReadProc(c) \/ CheckDone(c) \/ EvictDone(c) PROVE TypeOK'
  <2>1. UNCHANGED <<cells, group, settled>>
    BY <1>14 DEF ReadProc, CheckDone, EvictDone, kernelVars, histVars
  <2>2. Return(c) \/ \E l \in Label : Goto(c, l)
    BY <1>0, <1>14 DEF ReadProc, CheckDone, EvictDone
  <2>3. scan' \in [Call -> SUBSET Pid] /\ found' \in [Call -> SUBSET Pid]
    BY <1>14 DEF ReadProc, CheckDone, EvictDone, TypeOK, evictVars
  <2> QED
    BY <1>2, <2>1, <2>2, <2>3 DEF TypeOK
<1>15. ASSUME NEW c \in Call, NEW p \in Pid, CheckPid(c, p) \/ Signal(c, p) PROVE TypeOK'
  <2>1. UNCHANGED <<cells, group, settled, cpc, req>>
    BY <1>15 DEF CheckPid, Signal, kernelVars, histVars
  <2>2. scan' \in [Call -> SUBSET Pid] /\ found' \in [Call -> SUBSET Pid]
    BY <1>15 DEF CheckPid, Signal, TypeOK
  <2> QED
    BY <2>1, <2>2 DEF TypeOK
<1>16. ASSUME NEW p \in Pid, Exit(p) \/ Spawn(p) PROVE TypeOK'
  BY <1>16 DEF Exit, Spawn, TypeOK, evictVars, histVars
<1> QED
  BY <1>4, <1>5, <1>6, <1>7, <1>8, <1>9, <1>10, <1>11, <1>12, <1>13, <1>14, <1>15, <1>16
  DEF Next, CallStep, EvictStep

-----------------------------------------------------------------------------
(* The registry.                                                           *)

\* A call that changes a directory keeps the registry, when it touches only
\* that directory and the entry of its own id, and either goes on or leaves
\* the directory unsettled or accurate.
LEMMA ChangeRegistry ==
    ASSUME TypeOK, TypeOK', Registry, NEW c \in Call, NEW l \in Label, Moves(c, l),
           NEW here, here = At(c),
           cpc[c] \in Changing, overlap' = overlap,
           \A d \in Dir \ {At(c)} : group'[d] = group[d],
           \A id \in CellId \ {req[c].id} : cells'[id] = cells[id],
           cells'[req[c].id].path \in {<< >>, At(c)},
           \/ /\ l \in Changing /\ (l \in Creating => cpc[c] \in Creating)
              /\ req'[c] = req[c] /\ settled' = settled /\ Undisturbed(c)'
           \/ /\ l = "idle"
              /\ \/ settled' = settled \ {At(c)}
                 \/ settled' = settled \cup {At(c)} /\ Accurate(here)'
    PROVE  Registry'
<1>0. "idle" \notin Changing /\ "lookup" \notin Changing
  BY DEF Changing, Creating
<1>1. req[c].id \in CellId /\ At(c) \in Dir /\ At(c) # << >> /\ At(c) = CellPath(req[c].id)
  BY CellPathNames DEF Registry, Fits, At
<1>2. ASSUME NEW o \in Call, cpc[o] \in Changing PROVE At(o) \in Dir /\ req[o].id \in CellId
  BY <1>2, CellPathNames DEF Registry, Fits, At
<1>3. PathsOwn'
  BY <1>1 DEF PathsOwn, Registry
<1>4. ASSUME NEW o \in Call, o # c
      PROVE  cpc'[o] = cpc[o] /\ req'[o] = req[o] /\ At(o)' = At(o)
  BY <1>4 DEF Moves, At
<1>5. cpc'[c] = l /\ (l \in Changing => At(c)' = At(c) /\ req'[c] = req[c])
  BY <1>0 DEF Moves, At
<1>6. Apart'
  <2> SUFFICES ASSUME NEW x \in Call, NEW y \in Call, x # y, cpc'[x] \in Changing,
                      cpc'[y] \in Changing, At(x)' = At(y)'
               PROVE  x \in overlap
    BY DEF Apart
  <2>1. cpc[x] \in Changing /\ At(x)' = At(x) /\ cpc[y] \in Changing /\ At(y)' = At(y)
    BY <1>4, <1>5
  <2> QED
    BY <2>1 DEF Registry, Apart
<1>7. ASSUME NEW o \in Call PROVE Fits(o)' /\ Undisturbed(o)'
  <2>1. CASE o = c
    <3>1. CASE l = "idle"
      BY <1>0, <1>5, <2>1, <3>1 DEF Fits, Undisturbed, Creating, Changing
    <3>2. CASE l \in Changing
      <4>1. Undisturbed(c)' /\ req'[c] = req[c] /\ (l \in Creating => cpc[c] \in Creating)
        BY <1>0, <3>2
      <4>2. Fits(c)'
        BY <1>0, <1>1, <1>5, <3>2, <4>1 DEF Fits, Registry
      <4> QED
        BY <2>1, <4>1, <4>2
    <3> QED
      BY <3>1, <3>2
  <2>2. CASE o # c
    <3>1. Fits(o)'
      BY <1>4, <2>2 DEF Fits, Registry
    <3>2. CASE cpc[o] \in Changing /\ o \notin overlap
      <4>1. At(o) # At(c)
        BY <2>2, <3>2 DEF Registry, Apart
      <4>2. group'[At(o)] = group[At(o)] /\ cells'[req[o].id] = cells[req[o].id]
        BY <1>2, <3>2, <4>1 DEF At
      <4>3. Undisturbed(o)
        BY DEF Registry
      <4> QED
        BY <1>4, <2>2, <3>1, <3>2, <4>2, <4>3 DEF Undisturbed
    <3>3. CASE ~(cpc[o] \in Changing /\ o \notin overlap)
      BY <1>4, <2>2, <3>1, <3>3 DEF Undisturbed
    <3> QED
      BY <3>2, <3>3
  <2> QED
    BY <2>1, <2>2
<1>8. ASSUME NEW d \in settled', Changers(d)' = {} PROVE Accurate(d)'
  <2>1. CASE d = At(c)
    <3>1. CASE l = "idle"
      BY <1>0, <1>8, <2>1, <3>1
    <3>2. CASE l \in Changing
      <4>1. c \in Changers(d)'
        BY <1>5, <2>1, <3>2 DEF Changers, At
      <4> QED
        BY <1>8, <4>1
    <3> QED
      BY <3>1, <3>2
  <2>2. CASE d # At(c)
    <3>1. d \in settled /\ d \in Dir
      BY <1>8, <2>2 DEF TypeOK
    <3>2. Changers(d) = {}
      <4> SUFFICES ASSUME NEW o \in Call, cpc[o] \in Changing, At(o) = d PROVE FALSE
        BY DEF Changers, At
      <4>1. o # c
        BY <2>2
      <4>2. o \in Changers(d)'
        BY <1>4, <4>1 DEF Changers, At
      <4> QED
        BY <1>8, <4>2
    <3>3. Accurate(d)
      BY <3>1, <3>2 DEF Registry
    <3>4. d # << >>
      BY <3>1, CellPathNames DEF Dir
    <3>5. cells[req[c].id].path # d /\ cells'[req[c].id].path # d
      BY <1>1, <2>2, <3>4 DEF Registry, PathsOwn
    <3>6. \A id \in CellId : cells[id].path = d \/ cells'[id].path = d => cells'[id] = cells[id]
      BY <3>5
    <3>7. group'[d] = group[d]
      BY <2>2, <3>1
    <3> QED
      BY <3>3, <3>6, <3>7 DEF Accurate
  <2> QED
    BY <2>1, <2>2
<1> QED
  BY <1>3, <1>6, <1>7, <1>8 DEF Registry

\* A step of a call that changes no directory keeps the registry.
LEMMA OtherRegistry ==
    ASSUME TypeOK, Registry, UNCHANGED <<cells, group, settled, overlap>>,
           NEW c \in Call, NEW l \in Label \ Changing, Moves(c, l), cpc[c] \notin Changing,
           l # "lookup"
    PROVE  Registry'
<1>1. ASSUME NEW o \in Call, cpc'[o] \in Changing \/ cpc[o] \in Changing
      PROVE  cpc'[o] = cpc[o] /\ req'[o] = req[o] /\ At(o)' = At(o)
  BY <1>1 DEF Moves, At
<1>2. PathsOwn'
  BY DEF PathsOwn, Registry
<1>3. Apart'
  BY <1>1 DEF Apart, Registry
<1>4. ASSUME NEW o \in Call PROVE Fits(o)' /\ Undisturbed(o)'
  <2>1. Fits(o) /\ Undisturbed(o)
    BY DEF Registry
  <2>2. CASE cpc'[o] \in Changing
    BY <1>1, <2>1, <2>2 DEF Fits, Undisturbed
  <2>3. CASE cpc'[o] \notin Changing
    <3>1. cpc'[o] = "lookup" => cpc[o] = "lookup" /\ req'[o] = req[o]
      BY DEF Moves
    <3> QED
      BY <2>1, <2>3, <3>1 DEF Fits, Undisturbed, Changing
  <2> QED
    BY <2>2, <2>3
<1>5. ASSUME NEW d PROVE Changers(d)' = Changers(d) /\ (Accurate(d)' <=> Accurate(d))
  <2>1. Changers(d)' = Changers(d)
    BY <1>1 DEF Changers, At
  <2> QED
    BY <2>1 DEF Accurate
<1> QED
  BY <1>2, <1>3, <1>4, <1>5 DEF Registry

\* The cells before the first call.
LEMMA InitRegistry == Init => Registry
<1> SUFFICES ASSUME Init PROVE Registry
  OBVIOUS
<1>1. \A id \in CellId : cells[id].path = << >>
  BY DEF Init, NoMeta
<1>2. \A c \in Call : cpc[c] = "idle"
  BY DEF Init
<1>3. \A d \in Dir : ~group[d].exists /\ d # << >>
  BY CellPathNames DEF Init, NoGroup, Dir
<1>4. settled = Dir
  BY DEF Init
<1>5. PathsOwn
  BY <1>1 DEF PathsOwn
<1>6. Apart /\ \A c \in Call : Fits(c) /\ Undisturbed(c)
  BY <1>2 DEF Apart, Fits, Undisturbed, Changing, Creating
<1>7. \A d \in settled : Accurate(d)
  BY <1>1, <1>3, <1>4 DEF Accurate
<1> QED
  BY <1>5, <1>6, <1>7 DEF Registry

\* A call arrives: it has met every call that is changing its directory, and
\* they have met it.
LEMMA ArriveRegistry ==
    ASSUME TypeOK, Registry, NEW c \in Call, NEW m \in Request, Arrive(c, m)
    PROVE  Registry'
<1> DEFINE l == FirstStep(m)
           met == IF l \in Changing THEN Changers(CellPath(m.id)) ELSE {}
<1>1. /\ cpc[c] = "idle" /\ cpc' = [cpc EXCEPT ![c] = l]
      /\ req' = [req EXCEPT ![c] = IF l = "idle" THEN NoRequest ELSE m]
      /\ overlap' = (overlap \ {c}) \cup met \cup (IF met = {} THEN {} ELSE {c})
      /\ UNCHANGED <<cells, group, settled>>
  BY DEF Arrive, kernelVars
<1>2. /\ l \in {"idle", "mkdir", "readdir", "unregister", "lookup"}
      /\ l \in Changing => m.id \in CellId
      /\ l = "mkdir" => m.cpus \in CpuLists
      /\ l = "lookup" => m.op \in {"attach", "run", "watch"}
  <2>1. CASE m \in [op : {"create"}, id : CellId, cpus : CpuLists, exclusive : BOOLEAN]
    BY <2>1 DEF FirstStep
  <2>2. CASE m \in [op : {"destroy", "run", "watch"}, id : CellId]
    BY <2>2 DEF FirstStep
  <2>3. CASE m \in [op : {"attach"}, id : CellId, pid : Pid]
    BY <2>3 DEF FirstStep
  <2>4. CASE m \in [op : {"evict"}, id : {<< >>}, cpus : CpuLists, dryRun : BOOLEAN]
    <3>1. l \in {"idle", "readdir"}
      BY <2>4 DEF FirstStep
    <3> QED
      BY <3>1 DEF Changing, Creating
  <2> QED
    BY <2>1, <2>2, <2>3, <2>4 DEF Request
<1> HIDE DEF l
<1>3. ASSUME NEW o \in Call, o # c
      PROVE  cpc'[o] = cpc[o] /\ req'[o] = req[o] /\ At(o)' = At(o)
  BY <1>1, <1>3 DEF TypeOK, At
<1>4. cpc'[c] = l /\ (l # "idle" => req'[c] = m /\ At(c)' = CellPath(m.id))
  BY <1>1 DEF TypeOK, At
<1>5. cpc[c] \notin Changing /\ "idle" \notin Changing /\ "lookup" \notin Changing /\ "readdir" \notin Changing
      /\ Creating \subseteq Changing
  BY <1>1 DEF Changing, Creating
<1>6. PathsOwn'
  BY <1>1 DEF PathsOwn, Registry
<1>7. Apart'
  <2> SUFFICES ASSUME NEW x \in Call, NEW y \in Call, x # y, cpc'[x] \in Changing,
                      cpc'[y] \in Changing, At(x)' = At(y)'
               PROVE  x \in overlap'
    BY DEF Apart
  <2>1. CASE x = c
    <3>1. y \in met
      BY <1>3, <1>4, <1>5, <2>1 DEF Changers, At
    <3> QED
      BY <1>1, <2>1, <3>1
  <2>2. CASE y = c
    <3>1. x \in met
      BY <1>3, <1>4, <1>5, <2>2 DEF Changers, At
    <3> QED
      BY <1>1, <3>1
  <2>3. CASE x # c /\ y # c
    <3>1. x \in overlap
      BY <1>3, <2>3 DEF Registry, Apart
    <3> QED
      BY <1>1, <2>3, <3>1
  <2> QED
    BY <2>1, <2>2, <2>3
<1>8. ASSUME NEW o \in Call PROVE Fits(o)' /\ Undisturbed(o)'
  <2>1. CASE o = c
    <3>1. Fits(c)'
      BY <1>2, <1>4, <1>5 DEF Fits, Creating
    <3>2. Undisturbed(c)'
      BY <1>2, <1>4 DEF Undisturbed
    <3> QED
      BY <2>1, <3>1, <3>2
  <2>2. CASE o # c
    <3>1. Fits(o) /\ Undisturbed(o)
      BY DEF Registry
    <3>2. o \notin overlap' => o \notin overlap
      BY <1>1, <2>2
    <3> QED
      BY <1>1, <1>3, <2>2, <3>1, <3>2 DEF Fits, Undisturbed
  <2> QED
    BY <2>1, <2>2
<1>9. ASSUME NEW d \in settled', Changers(d)' = {} PROVE Accurate(d)'
  <2>1. Changers(d) = {}
    <3> SUFFICES ASSUME NEW o \in Call, cpc[o] \in Changing, At(o) = d PROVE FALSE
      BY DEF Changers, At
    <3>1. o \in Changers(d)'
      BY <1>3, <1>5 DEF Changers, At
    <3> QED
      BY <1>9, <3>1
  <2>2. Accurate(d)
    BY <1>1, <1>9, <2>1 DEF Registry
  <2> QED
    BY <1>1, <2>2 DEF Accurate
<1> QED
  BY <1>6, <1>7, <1>8, <1>9 DEF Registry

\* How a call that changes a directory ends.
LEMMA Endings ==
    ASSUME TypeOK, Registry, NEW c \in Call, cpc[c] \in Changing
    PROVE  /\ Fail(c) => Moves(c, "idle") /\ settled' = settled \ {At(c)}
           /\ Succeed(c) =>
                  /\ Moves(c, "idle")
                  /\ \/ settled' = settled \ {At(c)}
                     \/ /\ settled' = settled \cup {At(c)} /\ c \notin overlap
                        /\ \A id \in CellId \ {req[c].id} : cells[id].path # At(c)
BY CallMoves DEF Fail, Succeed, At

\* Every step keeps the registry.
LEMMA NextRegistry ==
    ASSUME TypeOK, TypeOK', Registry, Next PROVE Registry'
<1>0. /\ Creating = {"mkdir", "cpus", "mems", "partition", "register"}
      /\ Changing = {"mkdir", "cpus", "mems", "partition", "register", "unregister", "remove"}
      /\ Changing \subseteq Label
      /\ {"idle", "attach", "start", "attachChild", "stream", "sample", "check", "signal"}
            \subseteq Label \ Changing
  BY DEF Creating, Changing, Label, Evicting
<1>1. ASSUME NEW c \in Call, cpc[c] \in Changing
      PROVE  /\ req[c].id \in CellId /\ At(c) \in Dir /\ At(c) # << >> /\ At(c) = CellPath(req[c].id)
             /\ cells[req[c].id].path \in {<< >>, At(c)} /\ Undisturbed(c)
             /\ group[At(c)] \in Group /\ cells[req[c].id] \in Meta
  <2>1. Fits(c) /\ Undisturbed(c) /\ PathsOwn
    BY DEF Registry
  <2>2. req[c].id \in CellId
    BY <1>1, <2>1 DEF Fits
  <2> QED
    BY <2>1, <2>2, CellPathNames DEF At, PathsOwn, TypeOK
\* A call that fails having changed nothing but its own directory.
<1>2. ASSUME NEW c \in Call, cpc[c] \in Changing, Fail(c), UNCHANGED <<cells, group, overlap>>
      PROVE  Registry'
  BY <1>0, <1>1, <1>2, ChangeRegistry, Endings
\* A call that goes on from l1 to l2.
<1>3. ASSUME NEW c \in Call, cpc[c] \in Changing, NEW l \in Changing, Goto(c, l),
             UNCHANGED <<settled, overlap>>, l \in Creating => cpc[c] \in Creating,
             \A d \in Dir \ {At(c)} : group'[d] = group[d],
             \A id \in CellId \ {req[c].id} : cells'[id] = cells[id],
             cells'[req[c].id].path \in {<< >>, At(c)},
             c \notin overlap =>
                 /\ l \in {"cpus", "mems", "partition", "register"} => group'[At(c)].exists
                 /\ l \in {"mems", "partition", "register"} => group'[At(c)].cpus = req[c].cpus
                 /\ l = "remove" => cells'[req[c].id].path = << >>
      PROVE  Registry'
  <2>1. Moves(c, l) /\ req'[c] = req[c] /\ l \in Label
    BY <1>0, <1>3, CallMoves
  <2>2. cpc'[c] = l /\ At(c)' = At(c)
    BY <2>1 DEF Moves, At
  <2>3. Undisturbed(c)'
    BY <1>3, <2>1, <2>2 DEF Undisturbed
  <2> QED
    BY <1>3, <2>1, <2>3, ChangeRegistry
<1>4. ASSUME NEW c \in Call, MakeDir(c) PROVE Registry'
  <2>1. cpc[c] = "mkdir" /\ UNCHANGED <<cells, overlap>>
    BY <1>4 DEF MakeDir
  <2>2. CASE Fail(c) /\ UNCHANGED group
    BY <1>0, <1>2, <2>1, <2>2
  <2>3. CASE group' = [group EXCEPT ![CellPath(req[c].id)].exists = TRUE] /\ Goto(c, "cpus") /\ UNCHANGED settled
    <3>1. cpc[c] \in Changing
      BY <1>0, <2>1
    <3>2. group' = [group EXCEPT ![At(c)] = [group[At(c)] EXCEPT !.exists = TRUE]]
      BY <2>3 DEF At
    <3>3. group'[At(c)].exists /\ \A d \in Dir \ {At(c)} : group'[d] = group[d]
      BY <1>1, <3>1, <3>2 DEF TypeOK, Group
    <3> QED
      BY <1>0, <1>1, <1>3, <2>1, <2>3, <3>1, <3>3
  <2> QED
    BY <1>4, <2>2, <2>3 DEF MakeDir
<1>5. ASSUME NEW c \in Call, WriteCpus(c) PROVE Registry'
  <2>1. cpc[c] = "cpus" /\ UNCHANGED <<cells, overlap>>
    BY <1>5 DEF WriteCpus
  <2>2. CASE Fail(c) /\ UNCHANGED group
    BY <1>0, <1>2, <2>1, <2>2
  <2>3. CASE /\ group[CellPath(req[c].id)].exists /\ Goto(c, "mems") /\ UNCHANGED settled
             /\ group' = [group EXCEPT ![CellPath(req[c].id)].cpus = req[c].cpus]
    <3>1. cpc[c] \in Changing
      BY <1>0, <2>1
    <3>2. group' = [group EXCEPT ![At(c)] = [group[At(c)] EXCEPT !.cpus = req[c].cpus]] /\ group[At(c)].exists
      BY <2>3 DEF At
    <3>3. /\ group'[At(c)].exists /\ group'[At(c)].cpus = req[c].cpus
          /\ \A d \in Dir \ {At(c)} : group'[d] = group[d]
      BY <1>1, <3>1, <3>2 DEF TypeOK, Group
    <3> QED
      BY <1>0, <1>1, <1>3, <2>1, <2>3, <3>1, <3>3
  <2> QED
    BY <1>5, <2>2, <2>3 DEF WriteCpus
<1>6. ASSUME NEW c \in Call, WriteMems(c) PROVE Registry'
  <2>1. cpc[c] = "mems" /\ UNCHANGED <<cells, group, overlap>>
    BY <1>6 DEF WriteMems, kernelVars
  <2>2. CASE Fail(c)
    BY <1>0, <1>2, <2>1, <2>2
  <2>3. CASE Goto(c, IF req[c].exclusive THEN "partition" ELSE "register") /\ UNCHANGED settled
    <3>1. cpc[c] \in Changing
      BY <1>0, <2>1
    <3>2. c \notin overlap => group[At(c)].exists /\ group[At(c)].cpus = req[c].cpus
      BY <1>1, <2>1, <3>1 DEF Undisturbed
    <3>3. PICK l \in {"partition", "register"} : Goto(c, l)
      BY <2>3
    <3> QED
      BY <1>0, <1>1, <1>3, <2>1, <2>3, <3>1, <3>2, <3>3
  <2> QED
    BY <1>6, <2>2, <2>3 DEF WriteMems
<1>7. ASSUME NEW c \in Call, WritePartition(c) PROVE Registry'
  <2>1. cpc[c] = "partition" /\ UNCHANGED <<cells, overlap, settled>> /\ Goto(c, "register")
    BY <1>7 DEF WritePartition, histVars
  <2>2. cpc[c] \in Changing
    BY <1>0, <2>1
  <2>3. c \notin overlap => group[At(c)].exists /\ group[At(c)].cpus = req[c].cpus
    BY <1>1, <2>1, <2>2 DEF Undisturbed
  <2>4. /\ group'[At(c)].exists = group[At(c)].exists /\ group'[At(c)].cpus = group[At(c)].cpus
        /\ \A d \in Dir \ {At(c)} : group'[d] = group[d]
    BY <1>7 DEF WritePartition, kernelVars
  <2> QED
    BY <1>0, <1>1, <1>3, <2>1, <2>2, <2>3, <2>4
<1>8. ASSUME NEW c \in Call, Register(c) PROVE Registry'
  <2>1. cpc[c] = "register" /\ cpc[c] \in Changing /\ UNCHANGED <<group, overlap>> /\ Succeed(c)
    BY <1>0, <1>8 DEF Register, kernelVars
  <2>2. cells' = [cells EXCEPT ![req[c].id] = [path |-> At(c), cpus |-> req[c].cpus]]
    BY <1>8 DEF Register, StoreMeta, At
  <2>3. /\ cells'[req[c].id].path = At(c) /\ cells'[req[c].id].cpus = req[c].cpus
        /\ \A id \in CellId \ {req[c].id} : cells'[id] = cells[id]
    BY <1>1, <2>1, <2>2 DEF TypeOK
  <2>4. PICK here : here = At(c)
    OBVIOUS
  <2>5. CASE settled' = settled \ {At(c)}
    BY <1>0, <1>1, <2>1, <2>3, <2>5, ChangeRegistry, Endings
  <2>6. CASE /\ settled' = settled \cup {At(c)} /\ c \notin overlap
             /\ \A id \in CellId \ {req[c].id} : cells[id].path # At(c)
    <3>1. group[here].exists /\ group[here].cpus = req[c].cpus
      BY <1>1, <2>1, <2>4, <2>6 DEF Undisturbed
    <3>2. \A id \in CellId : cells'[id].path = here <=> id = req[c].id
      BY <2>3, <2>4, <2>6
    <3>3. Accurate(here)'
      BY <1>1, <2>1, <2>3, <3>1, <3>2 DEF Accurate
    <3> QED
      BY <1>0, <1>1, <2>1, <2>3, <2>4, <2>6, <3>3, ChangeRegistry, Endings
  <2> QED
    BY <2>1, <2>5, <2>6, Endings
<1>9. ASSUME NEW c \in Call, Unregister(c) PROVE Registry'
  <2>1. /\ cpc[c] = "unregister" /\ cpc[c] \in Changing /\ UNCHANGED <<group, overlap, settled>>
        /\ Goto(c, "remove") /\ cells' = [cells EXCEPT ![req[c].id] = NoMeta]
    BY <1>0, <1>9 DEF Unregister, kernelVars, histVars
  <2>2. cells'[req[c].id].path = << >> /\ \A id \in CellId \ {req[c].id} : cells'[id] = cells[id]
    BY <1>1, <2>1 DEF TypeOK, NoMeta
  <2> QED
    BY <1>0, <1>1, <1>3, <2>1, <2>2
<1>10. ASSUME NEW c \in Call, RemoveGroup(c) PROVE Registry'
  <2>1. cpc[c] = "remove" /\ cpc[c] \in Changing /\ UNCHANGED <<cells, overlap>>
    BY <1>0, <1>10 DEF RemoveGroup
  <2>2. CASE Fail(c) /\ UNCHANGED group
    BY <1>2, <2>1, <2>2
  <2>3. CASE Succeed(c) /\ group' = [group EXCEPT ![CellPath(req[c].id)] = NoGroup]
    <3>1. ~group'[At(c)].exists /\ \A d \in Dir \ {At(c)} : group'[d] = group[d]
      BY <1>1, <2>1, <2>3 DEF TypeOK, NoGroup
    <3>2. PICK here : here = At(c)
      OBVIOUS
    <3>3. CASE settled' = settled \ {At(c)}
      BY <1>0, <1>1, <2>1, <2>3, <3>1, <3>3, ChangeRegistry, Endings
    <3>4. CASE /\ settled' = settled \cup {At(c)} /\ c \notin overlap
               /\ \A id \in CellId \ {req[c].id} : cells[id].path # At(c)
      <4>1. cells[req[c].id].path = << >>
        BY <1>1, <2>1, <3>4 DEF Undisturbed
      <4>2. \A id \in CellId : cells'[id].path # here
        BY <1>1, <2>1, <3>2, <3>4, <4>1
      <4>3. Accurate(here)'
        BY <3>1, <3>2, <4>2 DEF Accurate
      <4> QED
        BY <1>0, <1>1, <2>1, <2>3, <3>1, <3>2, <3>4, <4>3, ChangeRegistry, Endings
    <3> QED
      BY <2>1, <2>3, <3>3, <3>4, Endings
  <2> QED
    BY <1>10, <2>2, <2>3 DEF RemoveGroup
<1>11. ASSUME NEW c \in Call, UNCHANGED <<cells, group, settled, overlap>>, cpc[c] \notin Changing,
              \/ Return(c)
              \/ \E l \in {"attach", "start", "attachChild", "stream", "sample", "check", "signal"} : Goto(c, l)
       PROVE  Registry'
  <2>1. PICK l \in Label \ Changing : Moves(c, l) /\ l # "lookup"
    BY <1>0, <1>11, CallMoves
  <2> QED
    BY <1>11, <2>1, OtherRegistry
<1>12. ASSUME NEW c \in Call,
              \/ Lookup(c) \/ Attach(c) \/ StartChild(c) \/ AttachChild(c) \/ StreamEnds(c) \/ Sample(c)
              \/ ReadProc(c) \/ CheckDone(c) \/ EvictDone(c)
       PROVE  Registry'
  <2>1. UNCHANGED <<cells, group, settled, overlap>>
    BY <1>12 DEF Lookup, Attach, StartChild, AttachChild, StreamEnds, Sample, ReadProc, CheckDone,
                 EvictDone, kernelVars, histVars
  <2>2. cpc[c] \notin Changing
    BY <1>0, <1>12 DEF Lookup, Attach, StartChild, AttachChild, StreamEnds, Sample, ReadProc, CheckDone,
                       EvictDone
  <2>3. \/ Return(c)
        \/ \E l \in {"attach", "start", "attachChild", "stream", "sample", "check", "signal"} : Goto(c, l)
    <3>1. CASE Lookup(c)
      <4>1. req[c].op \in {"attach", "run", "watch"}
        BY <3>1 DEF Lookup, Registry, Fits
      <4> QED
        BY <3>1, <4>1 DEF Lookup
    <3>2. CASE ~Lookup(c)
      BY <1>12, <3>2 DEF Attach, StartChild, AttachChild, StreamEnds, Sample, ReadProc, CheckDone, EvictDone
    <3> QED
      BY <3>1, <3>2
  <2> QED
    BY <1>11, <2>1, <2>2, <2>3
<1>13. ASSUME UNCHANGED <<cells, group, settled, overlap, cpc, req>> PROVE Registry'
  BY <1>13 DEF Registry, PathsOwn, Apart, Fits, Undisturbed, Accurate, Changers, At
<1>14. ASSUME NEW c \in Call, NEW p \in Pid, CheckPid(c, p) \/ Signal(c, p) PROVE Registry'
  BY <1>13, <1>14 DEF CheckPid, Signal, kernelVars, histVars
<1>15. ASSUME NEW p \in Pid, Exit(p) \/ Spawn(p) PROVE Registry'
  BY <1>13, <1>15 DEF Exit, Spawn, histVars
<1> QED
  BY <1>4, <1>5, <1>6, <1>7, <1>8, <1>9, <1>10, <1>12, <1>14, <1>15, ArriveRegistry
  DEF Next, CallStep, EvictStep

-----------------------------------------------------------------------------
(* Eviction.                                                               *)

\* Whatever the other calls and the processes do, a process stays on target or
\* is noted as moved.
LEMMA TargetKept ==
    ASSUME TypeOK, NoteMoves, NEW c \in Call, NEW p \in Pid, cpc'[c] \in Evicting,
           req'[c] = req[c], OnTarget(c, p) \/ p \in moved[c]
    PROVE  OnTarget(c, p)' \/ p \in moved'[c]
<1>1. moved'[c] = moved[c] \cup { q \in Pid : where'[q] # where[q] \/ Affinity(q)' # Affinity(q) }
  BY DEF NoteMoves
<1>2. CASE p \in moved[c]
  BY <1>1, <1>2
<1>3. CASE Affinity(p)' # Affinity(p)
  BY <1>1, <1>3
<1>4. CASE OnTarget(c, p) /\ Affinity(p)' = Affinity(p)
  BY <1>4 DEF OnTarget
<1> QED
  BY <1>2, <1>3, <1>4

\* Every step keeps the lists of processes to signal.
LEMMA NextTargets ==
    ASSUME TypeOK, TypeOK', \A c \in Call : Fits(c), Targets, Next PROVE Targets'
<1>0. NoteMoves
  BY DEF Next
<1>l. /\ {"idle", "attach", "start", "attachChild", "stream", "sample", "check", "signal"} \subseteq Label
      /\ Changing \subseteq Label /\ "check" \in Evicting /\ "signal" \in Evicting
      /\ {"cpus", "mems", "partition", "register", "remove"} \subseteq Label
  BY DEF Label, Changing, Creating, Evicting
<1>1. ASSUME NEW c \in Call, cpc'[c] = cpc[c], req'[c] = req[c], found'[c] \subseteq found[c]
      PROVE  /\ cpc'[c] \notin {"check", "signal"} => found'[c] = {}
             /\ \A p \in found'[c] : OnTarget(c, p)' \/ p \in moved'[c]
  <2>1. cpc'[c] \notin {"check", "signal"} => found'[c] = {}
    BY <1>1 DEF Targets
  <2>2. ASSUME NEW p \in found'[c] PROVE OnTarget(c, p)' \/ p \in moved'[c]
    <3>1. p \in Pid /\ (OnTarget(c, p) \/ p \in moved[c]) /\ cpc'[c] \in Evicting
      BY <1>1, <1>l, <2>1, <2>2 DEF Targets, TypeOK
    <3> QED
      BY <1>0, <1>1, <3>1, TargetKept
  <2> QED
    BY <2>1, <2>2
<1>2. ASSUME NEW c \in Call, NEW l, Moves(c, l), \A o \in Call \ {c} : found'[o] = found[o],
             found'[c] = {}
      PROVE  Targets'
  <2> SUFFICES ASSUME NEW o \in Call
               PROVE  /\ cpc'[o] \notin {"check", "signal"} => found'[o] = {}
                      /\ \A p \in found'[o] : OnTarget(o, p)' \/ p \in moved'[o]
    BY DEF Targets
  <2>1. CASE o = c
    BY <1>2, <2>1
  <2>2. CASE o # c
    BY <1>1, <1>2, <2>2 DEF Moves
  <2> QED
    BY <2>1, <2>2
<1>3. ASSUME NEW c \in Call, UNCHANGED found, cpc[c] \notin {"check", "signal"}, NEW l, Moves(c, l)
      PROVE  Targets'
  <2>1. found'[c] = {}
    BY <1>3 DEF Targets
  <2> QED
    BY <1>2, <1>3, <2>1
<1>4. ASSUME NEW c \in Call, NEW m \in Request, Arrive(c, m) PROVE Targets'
  <2>1. Moves(c, FirstStep(m)) /\ UNCHANGED found /\ cpc[c] = "idle"
    BY <1>4 DEF Arrive, Moves, TypeOK, evictVars
  <2> QED
    BY <1>3, <2>1
<1>5. ASSUME NEW c \in Call,
             \/ MakeDir(c) \/ WriteCpus(c) \/ WriteMems(c) \/ WritePartition(c) \/ Register(c)
             \/ Unregister(c) \/ RemoveGroup(c) \/ Lookup(c) \/ Attach(c) \/ StartChild(c)
             \/ AttachChild(c) \/ StreamEnds(c) \/ Sample(c) \/ ReadProc(c)
      PROVE  Targets'
  <2>1. UNCHANGED found
    BY <1>5 DEF MakeDir, WriteCpus, WriteMems, WritePartition, Register, Unregister, RemoveGroup,
                Lookup, Attach, StartChild, AttachChild, StreamEnds, Sample, ReadProc, evictVars
  <2>2. cpc[c] \notin {"check", "signal"}
    BY <1>5 DEF MakeDir, WriteCpus, WriteMems, WritePartition, Register, Unregister, RemoveGroup,
                Lookup, Attach, StartChild, AttachChild, StreamEnds, Sample, ReadProc
  <2>3. Return(c) \/ \E l \in Label : Goto(c, l)
    <3>1. CASE Lookup(c)
      BY <1>l, <3>1 DEF Lookup, Fits
    <3>2. CASE ~Lookup(c)
      BY <1>5, <1>l, <3>2 DEF MakeDir, WriteCpus, WriteMems, WritePartition, Register, Unregister,
             RemoveGroup, Attach, StartChild, AttachChild, StreamEnds, Sample, ReadProc, Fail, Succeed
    <3> QED
      BY <3>1, <3>2
  <2>4. \E l : Moves(c, l)
    BY <2>3, CallMoves
  <2> QED
    BY <1>3, <2>1, <2>2, <2>4
<1>6. ASSUME NEW c \in Call, CheckDone(c) PROVE Targets'
  <2>1. cpc[c] = "check" /\ Moves(c, "signal") /\ req'[c] = req[c] /\ UNCHANGED found
    BY <1>6, <1>l, CallMoves DEF CheckDone, evictVars
  <2> SUFFICES ASSUME NEW o \in Call
               PROVE  /\ cpc'[o] \notin {"check", "signal"} => found'[o] = {}
                      /\ \A p \in found'[o] : OnTarget(o, p)' \/ p \in moved'[o]
    BY DEF Targets
  <2>2. CASE o # c
    BY <1>1, <2>1, <2>2 DEF Moves
  <2>3. CASE o = c
    <3>1. cpc'[c] = "signal"
      BY <2>1 DEF Moves
    <3>2. ASSUME NEW p \in found'[c] PROVE OnTarget(c, p)' \/ p \in moved'[c]
      <4>1. p \in Pid /\ (OnTarget(c, p) \/ p \in moved[c])
        BY <2>1, <3>2 DEF Targets, TypeOK
      <4> QED
        BY <1>0, <1>l, <2>1, <3>1, <4>1, TargetKept
    <3> QED
      BY <2>3, <3>1, <3>2
  <2> QED
    BY <2>2, <2>3
<1>7. ASSUME NEW c \in Call, EvictDone(c) PROVE Targets'
  <2>1. Moves(c, "idle") /\ found' = [found EXCEPT ![c] = {}]
    BY <1>7, CallMoves DEF EvictDone
  <2> QED
    BY <1>2, <2>1 DEF TypeOK
<1>8. ASSUME NEW c \in Call, NEW p \in Pid, CheckPid(c, p) PROVE Targets'
  <2>1. /\ cpc[c] = "check" /\ UNCHANGED <<cpc, req>>
        /\ found' = [found EXCEPT ![c] = IF OnTarget(c, p) THEN @ \cup {p} ELSE @]
    BY <1>8 DEF CheckPid
  <2> SUFFICES ASSUME NEW o \in Call
               PROVE  /\ cpc'[o] \notin {"check", "signal"} => found'[o] = {}
                      /\ \A q \in found'[o] : OnTarget(o, q)' \/ q \in moved'[o]
    BY DEF Targets
  <2>2. CASE o # c
    <3>1. found'[o] = found[o]
      BY <2>1, <2>2 DEF TypeOK
    <3> QED
      BY <1>1, <2>1, <3>1
  <2>3. CASE o = c
    <3>1. ASSUME NEW q \in found'[c] PROVE q \in Pid /\ (OnTarget(c, q) \/ q \in moved[c])
      <4>1. q \in found[c] \/ (q = p /\ OnTarget(c, p))
        BY <2>1, <3>1 DEF TypeOK
      <4> QED
        BY <4>1 DEF Targets, TypeOK
    <3>2. cpc'[c] \in Evicting /\ cpc'[c] = "check"
      BY <1>l, <2>1
    <3> QED
      BY <1>0, <2>1, <2>3, <3>1, <3>2, TargetKept
  <2> QED
    BY <2>2, <2>3
<1>9. ASSUME NEW c \in Call, NEW p \in Pid, Signal(c, p) PROVE Targets'
  <2>1. UNCHANGED <<cpc, req>> /\ found' = [found EXCEPT ![c] = @ \ {p}]
    BY <1>9 DEF Signal
  <2>2. \A o \in Call : found'[o] \subseteq found[o]
    BY <2>1 DEF TypeOK
  <2> QED
    BY <1>1, <2>1, <2>2 DEF Targets
<1>10. ASSUME NEW p \in Pid, Exit(p) \/ Spawn(p) PROVE Targets'
  <2>1. UNCHANGED <<cpc, req, found>>
    BY <1>10 DEF Exit, Spawn, evictVars
  <2> QED
    BY <1>1, <2>1 DEF Targets
<1> QED
  BY <1>4, <1>5, <1>6, <1>7, <1>8, <1>9, <1>10 DEF Next, CallStep, EvictStep

-----------------------------------------------------------------------------
(* The theorems.                                                           *)

\* The invariant holds in every state of the daemon.
LEMMA Inductive == Spec => []IInv
<1>1. Init => IInv
  <2>1. Init => Targets
    BY DEF Init, Targets
  <2> QED
    BY <2>1, InitTypeOK, InitRegistry DEF IInv
<1>2. ASSUME IInv, [Next]_vars PROVE IInv'
  <2>1. CASE Next
    <3>1. TypeOK'
      BY <1>2, <2>1, NextTypeOK DEF IInv, Registry
    <3> QED
      BY <1>2, <2>1, <3>1, NextRegistry, NextTargets DEF IInv, Registry
  <2>2. CASE UNCHANGED vars
    <3>1. TypeOK'
      BY <1>2, <2>2 DEF IInv, TypeOK, vars, kernelVars, evictVars, histVars
    <3>2. Registry'
      BY <1>2, <2>2 DEF IInv, Registry, PathsOwn, Apart, Fits, Undisturbed, Accurate, Changers, At,
                        vars, kernelVars, evictVars, histVars
    <3>3. Targets'
      BY <1>2, <2>2 DEF IInv, Targets, OnTarget, Affinity, vars, kernelVars, evictVars, histVars
    <3> QED
      BY <3>1, <3>2, <3>3 DEF IInv
  <2> QED
    BY <1>2, <2>1, <2>2
<1> QED
  BY <1>1, <1>2, PTL DEF Spec

\* One undisturbed call leaves the registry and the cgroup file system in
\* agreement on its directory, whatever races and failures came before and
\* whatever calls on other directories do meanwhile.
THEOREM RegistrySafety == Spec => []RegistryAccurate
<1>1. ASSUME IInv PROVE RegistryAccurate
  <2> SUFFICES ASSUME NEW d \in settled, Changers(d) = {}
               PROVE  LET on == { id \in CellId : cells[id].path = d }
                      IN  /\ group[d].exists <=> on # {}
                          /\ \A id \in on : cells[id].cpus = group[d].cpus
    BY DEF RegistryAccurate
  <2>1. Accurate(d)
    BY <1>1 DEF IInv, Registry
  <2> QED
    BY <2>1 DEF Accurate
<1> QED
  BY <1>1, Inductive, PTL

\* No call signals a process that was not on its CPUs, but for the one window:
\* the process moved, or its id changed hands, after the scan began.
THEOREM EvictionSafety == Spec => EvictsOnlyTargets
<1>1. ASSUME IInv
      PROVE  \A c \in Call, p \in Pid :
                 (cpc[c] = "signal" /\ p \in found[c] /\ p \notin found'[c] /\ ~req[c].dryRun) =>
                     OnTarget(c, p) \/ p \in moved[c]
  BY <1>1 DEF IInv, Targets
<1> QED
  BY <1>1, Inductive, PTL DEF EvictsOnlyTargets

=============================================================================
