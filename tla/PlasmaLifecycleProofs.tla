----------------------- MODULE PlasmaLifecycleProofs -----------------------
(***************************************************************************)
(* What the start-up and the teardown of Plasma coordinators guarantee for *)
(* any number of processes on the same two paths, any number of them alive *)
(* at a time, and crashes anywhere.  All removals go by name, so the       *)
(* argument is about who else can have been under way: a Run that no other *)
(* Run overlapped is the only one that touches the paths until it returns. *)
(***************************************************************************)
EXTENDS PlasmaLifecycle, TLAPS

-----------------------------------------------------------------------------
(* The inductive invariant.                                                *)

File == Proc \cup {NoFile}

Label == {"new", "disabled", "returned", "dead", "unlink", "topology", "unlinkShm", "load",
          "create", "map", "unlinkSock", "listen", "serve", "close", "removeSock",
          "removeShm", "clear"}

Removal == {"unlink", "unlinkShm", "map", "unlinkSock", "removeSock", "munmap", "removeShm"}

TypeOK ==
    /\ sock \in File /\ shm \in File
    /\ pc \in [Proc -> Label]
    /\ err \in [Proc -> {"none", "pipeline", "shm exists", "shm map", "listen", "address in use"}]
    /\ kind \in [Proc -> Kind \cup {"none"}]
    /\ wait \in [Proc -> {"no", "polling", "returned"}]
    /\ saw \in [Proc -> File]
    /\ path \in [Proc -> {"unset", "set", "clearing", "empty"}]
    /\ fd \in [Proc -> File]
    /\ reply \in [Proc -> [file : File, path : {"none", "set", "empty"}]]
    /\ overlapped \in [Proc -> BOOLEAN]
    /\ denied \in [Proc -> SUBSET Removal]

\* Processes start in the order of their numbers.
InOrder == \A p, q \in Proc : (q < p /\ pc[p] # "new") => pc[q] # "new"

\* A Run that no other one overlapped found no earlier one under way, and is
\* the only one under way until it returns.
Alone ==
    \A p, q \in Proc : (~overlapped[p] /\ pc[p] \notin {"new", "dead"} /\ q \in Active) =>
        /\ q >= p
        /\ p \in Active => q = p

(* What is known of one process; the names follow the code it is about.    *)

\* A file at a path is of a process between making and removing it, of one
\* that died there, or of one whose removal failed.
Owner(p) ==
    /\ sock = p => \/ pc[p] \in {"serve", "close", "removeSock", "dead"}
                   \/ "removeSock" \in denied[p] /\ pc[p] # "new"
    /\ shm = p => \/ pc[p] \in {"map", "unlinkSock", "listen", "serve", "close", "removeSock",
                                 "removeShm", "dead"}
                  \/ denied[p] \cap {"map", "munmap", "removeShm"} # {} /\ pc[p] # "new"

\* Once the supervisor has unlinked the old socket, any new one is of its own
\* coordinator or of one started later; so is the one that waitSocket saw.
NoOldSocket(p) ==
    /\ kind[p] = "supervisor" => pc[p] \notin {"new", "dead"}
    /\ wait[p] # "no" => kind[p] = "supervisor" /\ pc[p] # "unlink"
    /\ (kind[p] = "supervisor" /\ pc[p] # "unlink" /\ ~overlapped[p] /\ "unlink" \notin denied[p])
           => sock = NoFile \/ sock >= p
    /\ saw[p] # NoFile => saw[p] >= p \/ overlapped[p] \/ "unlink" \in denied[p]

\* What Run has removed is still gone when it creates its own; so an error
\* that says otherwise has one of the two excuses.
Cleared(p) ==
    /\ (/\ ~overlapped[p] /\ "unlinkShm" \notin denied[p]
        /\ pc[p] \in {"load", "create"} /\ kind[p] # "shm create")
           => shm = NoFile
    /\ (~overlapped[p] /\ "unlinkSock" \notin denied[p] /\ pc[p] = "listen") => sock = NoFile
    /\ pc[p] = "new" => err[p] = "none"
    /\ kind[p] # "shm create" =>
           /\ err[p] = "shm exists" => overlapped[p] \/ "unlinkShm" \in denied[p]
           /\ err[p] = "address in use" => overlapped[p] \/ "unlinkSock" \in denied[p]

\* Where the goroutine of Run stands and what seg.path holds.
PathMatches(p) ==
    /\ pc[p] \in {"unlinkSock", "listen", "serve", "close", "removeSock", "removeShm"}
           => path[p] = "set"
    /\ path[p] = "set" => \/ pc[p] \in {"unlinkSock", "listen", "serve", "close", "removeSock",
                                         "removeShm"}
                          \/ pc[p] = "returned" /\ "munmap" \in denied[p]
    /\ path[p] = "clearing" <=> pc[p] = "clear"
    /\ "munmap" \in denied[p] => pc[p] \in {"returned", "dead"}

\* The segment at the path is the one that Run made until Run removes it, and
\* so is the one that a handler has opened or sent.
OwnAtPath(p) ==
    /\ (~overlapped[p] /\ "munmap" \notin denied[p] /\ (pc[p] = "map" \/ path[p] = "set"))
           => shm = p
    /\ (~overlapped[p] /\ path[p] = "clearing") => shm \in {NoFile, p}
    /\ (~overlapped[p] /\ "munmap" \notin denied[p] /\ fd[p] # NoFile) => fd[p] = p
    /\ reply[p] # NoReply =>
           /\ reply[p].file = p \/ overlapped[p] \/ "munmap" \in denied[p]
           /\ reply[p].path = "empty" => pc[p] \in {"clear", "returned", "dead"}

Local(p) == Owner(p) /\ NoOldSocket(p) /\ Cleared(p) /\ PathMatches(p) /\ OwnAtPath(p)

IInv == TypeOK /\ InOrder /\ Alone /\ \A p \in Proc : Local(p)

-----------------------------------------------------------------------------
\* Before any process has started there is nothing at either path.
LEMMA InitIInv == Init => IInv
<1> SUFFICES ASSUME Init PROVE IInv
  OBVIOUS
<1> USE MaxStartsAssumption DEF Init, Proc, NoFile
<1>1. TypeOK
  BY DEF TypeOK, File, Label, Kind, NoReply
<1>2. InOrder
  BY DEF InOrder
<1>3. Alone
  BY DEF Alone, Active
<1>4. ASSUME NEW p \in Proc PROVE Local(p)
  BY DEF Local, Owner, NoOldSocket, Cleared, PathMatches, OwnAtPath, NoReply
<1> QED
  BY <1>1, <1>2, <1>3, <1>4 DEF IInv

-----------------------------------------------------------------------------
(* A step of one process, seen by the others.                              *)

\* The state of every process but p is as before; only the history variable
\* may have learnt of an overlap.
Frame(p) ==
    \A q \in Proc \ {p} :
        /\ pc'[q] = pc[q] /\ err'[q] = err[q] /\ kind'[q] = kind[q]
        /\ wait'[q] = wait[q] /\ saw'[q] = saw[q] /\ path'[q] = path[q]
        /\ fd'[q] = fd[q] /\ reply'[q] = reply[q] /\ denied'[q] = denied[q]
        /\ overlapped[q] => overlapped'[q]

\* A process that is under way may unlink either path, or put its own file
\* there; the others touch neither.
Files(p) ==
    \/ sock' = sock /\ shm' = shm
    \/ /\ p \in Active
       /\ sock' \in {sock, NoFile, p}
       /\ shm' \in {shm, NoFile, p}

\* p goes on, or ends; it does not come back.
GoesOn(p) ==
    /\ pc[p] # "new" /\ pc'[p] # "new"
    /\ p \in Active' => p \in Active
    /\ pc[p] = "dead" => pc'[p] = "dead"
    /\ pc'[p] # "dead" => overlapped'[p] = overlapped[p]

\* What most steps of p leave of its own state.
Rest(p) ==
    /\ kind'[p] = kind[p] /\ wait'[p] = wait[p] /\ saw'[p] = saw[p]
    /\ fd'[p] = fd[p] /\ reply'[p] = reply[p] /\ overlapped'[p] = overlapped[p]

\* A removal that failed is remembered.
LEMMA DeniedAdds ==
    ASSUME TypeOK, NEW p \in Proc, NEW w \in Removal, Denied(p, w)
    PROVE  /\ denied' = [denied EXCEPT ![p] = @ \cup {w}]
           /\ denied' \in [Proc -> SUBSET Removal]
BY DEF Denied, TypeOK

\* A step of p leaves what is known of every other process as it was.
LEMMA OthersLocal ==
    ASSUME IInv, TypeOK', NEW p \in Proc, Frame(p), Files(p)
    PROVE  \A q \in Proc \ {p} : Local(q)'
<1> SUFFICES ASSUME NEW q \in Proc \ {p} PROVE Local(q)'
  OBVIOUS
<1> USE DEF Proc, NoFile
<1>0. Local(q) /\ p # q /\ q \in Proc /\ TypeOK
  BY DEF IInv
<1>1. CASE sock' = sock /\ shm' = shm
  <2>1. Owner(q)' /\ PathMatches(q)'
    BY <1>0, <1>1 DEF Frame, Local, Owner, PathMatches
  <2>2. NoOldSocket(q)'
    BY <1>0, <1>1 DEF TypeOK, Frame, Local, NoOldSocket
  <2>3. Cleared(q)'
    BY <1>0, <1>1 DEF Frame, Local, Cleared
  <2>4. OwnAtPath(q)'
    BY <1>0, <1>1 DEF Frame, Local, OwnAtPath
  <2> QED
    BY <2>1, <2>2, <2>3, <2>4 DEF Local
<1>2. CASE p \in Active /\ sock' \in {sock, NoFile, p} /\ shm' \in {shm, NoFile, p}
  <2>1. (~overlapped[q] /\ pc[q] \notin {"new", "dead"}) => p >= q /\ q \notin Active
    BY <1>0, <1>2 DEF IInv, Alone
  <2>2. Owner(q)'
    BY <1>0, <1>2 DEF Frame, Local, Owner
  <2>3. NoOldSocket(q)'
    <3>1. /\ pc'[q] = pc[q] /\ kind'[q] = kind[q] /\ wait'[q] = wait[q] /\ saw'[q] = saw[q]
          /\ denied'[q] = denied[q]
          /\ overlapped[q] => overlapped'[q]
      BY <1>0 DEF Frame
    <3>2. NoOldSocket(q)
      BY <1>0 DEF Local
    <3>3. ASSUME kind[q] = "supervisor", pc[q] # "unlink", ~overlapped[q],
                 "unlink" \notin denied[q]
          PROVE  sock' = NoFile \/ sock' >= q
      BY <1>2, <2>1, <3>2, <3>3 DEF NoOldSocket
    <3> QED
      BY <3>1, <3>2, <3>3 DEF NoOldSocket
  <2>4. Cleared(q)'
    BY <1>0, <1>2, <2>1 DEF Frame, Local, Cleared, Active
  <2>5. PathMatches(q)'
    BY <1>0 DEF Frame, Local, PathMatches
  <2>6. OwnAtPath(q)'
    BY <1>0, <1>2, <2>1 DEF Frame, Local, OwnAtPath, PathMatches, Active
  <2> QED
    BY <2>2, <2>3, <2>4, <2>5, <2>6 DEF Local
<1> QED
  BY <1>1, <1>2 DEF Files

\* A process that goes on does not disturb who is alone.
LEMMA OthersAlone ==
    ASSUME IInv, TypeOK', NEW p \in Proc, Frame(p), GoesOn(p)
    PROVE  InOrder' /\ Alone'
<1> USE DEF Proc
<1>1. InOrder'
  BY DEF IInv, InOrder, Frame, GoesOn
<1>2. \A q \in Proc : q \in Active' => q \in Active
  BY DEF Frame, GoesOn, Active
<1>3. \A q \in Proc : (~overlapped'[q] /\ pc'[q] \notin {"new", "dead"})
                          => ~overlapped[q] /\ pc[q] \notin {"new", "dead"}
  BY DEF Frame, GoesOn
<1>4. Alone'
  <2> SUFFICES ASSUME NEW q \in Proc, NEW r \in Proc, ~overlapped'[q],
                      pc'[q] \notin {"new", "dead"}, r \in Active'
               PROVE  r >= q /\ (q \in Active' => r = q)
    BY DEF Alone
  <2> QED
    BY <1>2, <1>3 DEF IInv, Alone
<1> QED
  BY <1>1, <1>4

\* So the invariant is preserved if it is for the process that steps.
LEMMA StepIInv ==
    ASSUME IInv, TypeOK', NEW p \in Proc, Frame(p), Files(p), GoesOn(p), Local(p)'
    PROVE  IInv'
BY OthersLocal, OthersAlone DEF IInv

-----------------------------------------------------------------------------
\* Every step of every process preserves the invariant.
LEMMA NextIInv == IInv /\ [Next]_vars => IInv'
<1> SUFFICES ASSUME IInv, [Next]_vars PROVE IInv'
  OBVIOUS
<1> USE MaxStartsAssumption DEF helperVars, Goto, Return
<1>0. /\ TypeOK
      /\ \A p \in Proc : Local(p) /\ p # NoFile /\ p \in Nat /\ p \in File
  BY DEF IInv, Proc, NoFile, File
<1>1. ASSUME NEW p \in Proc, NEW k \in Kind, Start(p, k) PROVE IInv'
  <2>1. TypeOK'
    BY <1>0, <1>1 DEF Start, TypeOK, Label, Kind
  <2>2. /\ pc[p] = "new" /\ pc'[p] \in {"unlink", "topology", "create"}
        /\ kind'[p] = k /\ (k = "supervisor" => pc'[p] = "unlink")
        /\ k # "shm create" => pc'[p] # "create"
        /\ UNCHANGED <<sock, shm>>
        /\ err'[p] = err[p] /\ wait'[p] = wait[p] /\ saw'[p] = saw[p] /\ path'[p] = path[p]
        /\ fd'[p] = fd[p] /\ reply'[p] = reply[p] /\ denied'[p] = denied[p]
    BY <1>0, <1>1 DEF Start, TypeOK, Kind
  <2>3. \A q \in Proc : overlapped'[q] <=> overlapped[q] \/ (q = p /\ Active # {}) \/ q \in Active
    BY <1>0, <1>1 DEF Start, TypeOK
  <2>4. Frame(p) /\ Files(p)
    BY <1>0, <1>1, <2>3 DEF Start, TypeOK, Frame, Files
  <2>5. \A q \in Proc : q < p => pc[q] # "new"
    <3>1. \A q \in 1..(p - 1) : pc[q] # "new"
      BY <1>1 DEF Start
    <3> QED
      BY <3>1 DEF Proc
  <2>6. InOrder'
    BY <2>2, <2>4, <2>5 DEF IInv, InOrder, Frame, Proc
  <2>7. Alone'
    <3> SUFFICES ASSUME NEW q \in Proc, NEW r \in Proc, ~overlapped'[q],
                        pc'[q] \notin {"new", "dead"}, r \in Active'
                 PROVE  r >= q /\ (q \in Active' => r = q)
      BY DEF Alone
    <3>0. r = p \/ r \in Active
      BY <2>4 DEF Active, Frame
    <3>1. CASE q = p
      BY <2>3, <3>0, <3>1 DEF Proc
    <3>2. CASE q # p
      <4>1. ~overlapped[q] /\ q \notin Active /\ pc[q] \notin {"new", "dead"} /\ q \notin Active'
        BY <2>3, <2>4, <3>2 DEF Frame, Active
      <4>2. q < p
        <5>1. ~(p < q)
          BY <2>2, <4>1 DEF IInv, InOrder
        <5> QED
          BY <3>2, <5>1 DEF Proc
      <4>3. r \in Active => r >= q
        BY <4>1 DEF IInv, Alone
      <4> QED
        BY <3>0, <4>1, <4>2, <4>3 DEF Proc
    <3> QED
      BY <3>1, <3>2
  <2>8. Local(p)'
    <3>1. Owner(p)' /\ PathMatches(p)'
      BY <1>0, <2>2 DEF Local, Owner, PathMatches
    <3>2. NoOldSocket(p)'
      BY <1>0, <2>2, <2>3 DEF Local, NoOldSocket
    <3>3. Cleared(p)'
      BY <1>0, <2>2, <2>3 DEF Local, NoOldSocket, Cleared
    <3>4. OwnAtPath(p)'
      BY <1>0, <2>2, <2>3 DEF Local, PathMatches, OwnAtPath
    <3> QED
      BY <3>1, <3>2, <3>3, <3>4 DEF Local
  <2> QED
    BY <2>1, <2>4, <2>6, <2>7, <2>8, OthersLocal DEF IInv
<1>2. ASSUME NEW p \in Proc, UnlinkSocket(p) PROVE IInv'
  <2>0. \/ sock' = NoFile /\ UNCHANGED denied
        \/ sock' = sock /\ denied' = [denied EXCEPT ![p] = @ \cup {"unlink"}]
    BY <1>0, <1>2, DeniedAdds DEF UnlinkSocket, Removal
  <2>9. sock' \in File /\ denied' \in [Proc -> SUBSET Removal]
    BY <1>0, <1>2, DeniedAdds DEF UnlinkSocket, Removal, TypeOK, File
  <2>1. TypeOK'
    BY <1>0, <1>2, <2>9 DEF UnlinkSocket, TypeOK, Label
  <2>2. /\ pc[p] = "unlink" /\ pc'[p] = "topology" /\ shm' = shm
        /\ Rest(p) /\ err'[p] = err[p] /\ path'[p] = path[p]
        /\ \/ sock' = NoFile /\ denied'[p] = denied[p]
           \/ sock' = sock /\ denied'[p] = denied[p] \cup {"unlink"}
    BY <1>0, <1>2, <2>0 DEF UnlinkSocket, TypeOK, Rest
  <2>3. Frame(p) /\ Files(p) /\ GoesOn(p)
    BY <1>0, <1>2, <2>0, <2>2 DEF UnlinkSocket, Goto, Return, TypeOK, Frame, Files, GoesOn, Active, Rest
  <2>4. Owner(p)'
    BY <1>0, <2>2 DEF Local, Owner
  <2>5. NoOldSocket(p)'
    BY <1>0, <2>2 DEF Local, NoOldSocket, Rest
  <2>6. Cleared(p)'
    BY <1>0, <2>2 DEF Local, Cleared, Rest
  <2>7. PathMatches(p)'
    BY <1>0, <2>2 DEF Local, PathMatches
  <2>8. OwnAtPath(p)'
    BY <1>0, <2>2 DEF Local, PathMatches, OwnAtPath, Rest
  <2> QED
    BY <2>1, <2>3, <2>4, <2>5, <2>6, <2>7, <2>8, StepIInv DEF Local
<1>3. ASSUME NEW p \in Proc, DiscoverTopology(p) PROVE IInv'
  <2>1. TypeOK'
    <3>1. CASE Goto(p, IF kind[p] = "supervisor" THEN "disabled" ELSE "dead") /\ UNCHANGED wait
      BY <1>0, <1>3, <3>1 DEF DiscoverTopology, TypeOK, File, Label
    <3>2. CASE /\ Goto(p, "unlinkShm")
               /\ wait' = [wait EXCEPT ![p] = IF kind[p] = "supervisor" THEN "polling" ELSE "no"]
      BY <1>0, <1>3, <3>2 DEF DiscoverTopology, TypeOK, File, Label
    <3> QED
      BY <1>3, <3>1, <3>2 DEF DiscoverTopology
  <2>2. /\ pc[p] = "topology" /\ UNCHANGED <<sock, shm>>
        /\ kind'[p] = kind[p] /\ saw'[p] = saw[p] /\ fd'[p] = fd[p] /\ reply'[p] = reply[p]
        /\ overlapped'[p] = overlapped[p] /\ err'[p] = err[p] /\ path'[p] = path[p] /\ denied'[p] = denied[p]
        /\ \/ pc'[p] = (IF kind[p] = "supervisor" THEN "disabled" ELSE "dead") /\ wait'[p] = wait[p]
           \/ pc'[p] = "unlinkShm" /\ wait'[p] = (IF kind[p] = "supervisor" THEN "polling" ELSE "no")
    <3>1. CASE Goto(p, IF kind[p] = "supervisor" THEN "disabled" ELSE "dead") /\ UNCHANGED wait
      BY <1>0, <1>3, <3>1 DEF DiscoverTopology, TypeOK, Rest
    <3>2. CASE /\ Goto(p, "unlinkShm")
               /\ wait' = [wait EXCEPT ![p] = IF kind[p] = "supervisor" THEN "polling" ELSE "no"]
      BY <1>0, <1>3, <3>2 DEF DiscoverTopology, TypeOK, Rest
    <3> QED
      BY <1>3, <3>1, <3>2 DEF DiscoverTopology
  <2>3. Frame(p) /\ Files(p) /\ GoesOn(p)
    BY <1>0, <1>3, <2>2 DEF DiscoverTopology, TypeOK, Frame, Files, GoesOn, Active, Rest
  <2>4. Owner(p)'
    BY <1>0, <2>2 DEF Local, Owner
  <2>5. NoOldSocket(p)'
    BY <1>0, <2>2 DEF Local, NoOldSocket, Rest
  <2>6. Cleared(p)'
    BY <1>0, <2>2 DEF Local, Cleared, Rest
  <2>7. PathMatches(p)'
    BY <1>0, <2>2 DEF Local, PathMatches
  <2>8. OwnAtPath(p)'
    BY <1>0, <2>2 DEF Local, PathMatches, OwnAtPath, Rest
  <2> QED
    BY <2>1, <2>3, <2>4, <2>5, <2>6, <2>7, <2>8, StepIInv DEF Local
<1>4. ASSUME NEW p \in Proc, RemoveStaleShm(p) PROVE IInv'
  <2>0. \/ shm' = NoFile /\ UNCHANGED denied
        \/ shm' = shm /\ denied' = [denied EXCEPT ![p] = @ \cup {"unlinkShm"}]
    BY <1>0, <1>4, DeniedAdds DEF RemoveStaleShm, Removal
  <2>9. shm' \in File /\ denied' \in [Proc -> SUBSET Removal]
    BY <1>0, <1>4, DeniedAdds DEF RemoveStaleShm, Removal, TypeOK, File
  <2>1. TypeOK'
    BY <1>0, <1>4, <2>9 DEF RemoveStaleShm, TypeOK, Label
  <2>2. /\ pc[p] = "unlinkShm" /\ pc'[p] = "load" /\ sock' = sock
        /\ Rest(p) /\ err'[p] = err[p] /\ path'[p] = path[p]
        /\ \/ shm' = NoFile /\ denied'[p] = denied[p]
           \/ shm' = shm /\ denied'[p] = denied[p] \cup {"unlinkShm"}
    BY <1>0, <1>4, <2>0 DEF RemoveStaleShm, TypeOK, Rest
  <2>3. Frame(p) /\ Files(p) /\ GoesOn(p)
    BY <1>0, <1>4, <2>0, <2>2 DEF RemoveStaleShm, Goto, Return, TypeOK, Frame, Files, GoesOn, Active, Rest
  <2>4. Owner(p)'
    BY <1>0, <2>2 DEF Local, Owner
  <2>5. NoOldSocket(p)'
    BY <1>0, <2>2 DEF Local, NoOldSocket, Rest
  <2>6. Cleared(p)'
    BY <1>0, <2>2 DEF Local, Cleared, Rest
  <2>7. PathMatches(p)'
    BY <1>0, <2>2 DEF Local, PathMatches
  <2>8. OwnAtPath(p)'
    BY <1>0, <2>2 DEF Local, PathMatches, OwnAtPath, Rest
  <2> QED
    BY <2>1, <2>3, <2>4, <2>5, <2>6, <2>7, <2>8, StepIInv DEF Local
<1>5. ASSUME NEW p \in Proc, LoadFile(p) PROVE IInv'
  <2>1. TypeOK'
    <3>1. CASE Return(p, "pipeline")
      BY <1>0, <1>5, <3>1 DEF LoadFile, TypeOK, File, Label
    <3>2. CASE Goto(p, "create")
      BY <1>0, <1>5, <3>2 DEF LoadFile, TypeOK, File, Label
    <3> QED
      BY <1>5, <3>1, <3>2 DEF LoadFile
  <2>2. /\ pc[p] = "load" /\ UNCHANGED <<sock, shm>>
        /\ Rest(p) /\ path'[p] = path[p] /\ denied'[p] = denied[p]
        /\ \/ pc'[p] = "returned" /\ err'[p] = "pipeline"
           \/ pc'[p] = "create" /\ err'[p] = err[p]
    <3>1. CASE Return(p, "pipeline")
      BY <1>0, <1>5, <3>1 DEF LoadFile, TypeOK, Rest
    <3>2. CASE Goto(p, "create")
      BY <1>0, <1>5, <3>2 DEF LoadFile, TypeOK, Rest
    <3> QED
      BY <1>5, <3>1, <3>2 DEF LoadFile
  <2>3. Frame(p) /\ Files(p) /\ GoesOn(p)
    BY <1>0, <1>5, <2>2 DEF LoadFile, TypeOK, Frame, Files, GoesOn, Active, Rest
  <2>4. Owner(p)'
    BY <1>0, <2>2 DEF Local, Owner
  <2>5. NoOldSocket(p)'
    BY <1>0, <2>2 DEF Local, NoOldSocket, Rest
  <2>6. Cleared(p)'
    BY <1>0, <2>2 DEF Local, Cleared, Rest
  <2>7. PathMatches(p)'
    BY <1>0, <2>2 DEF Local, PathMatches
  <2>8. OwnAtPath(p)'
    BY <1>0, <2>2 DEF Local, PathMatches, OwnAtPath, Rest
  <2> QED
    BY <2>1, <2>3, <2>4, <2>5, <2>6, <2>7, <2>8, StepIInv DEF Local
<1>6. ASSUME NEW p \in Proc, CreateNamed(p) PROVE IInv'
  <2>1. TypeOK'
    <3>1. CASE shm # NoFile
      BY <1>0, <1>6, <3>1 DEF CreateNamed, TypeOK, File, Label
    <3>2. CASE shm = NoFile
      BY <1>0, <1>6, <3>2 DEF CreateNamed, TypeOK, File, Label
    <3> QED
      BY <1>6, <3>1, <3>2 DEF CreateNamed
  <2>2. /\ pc[p] = "create" /\ sock' = sock
        /\ Rest(p) /\ path'[p] = path[p] /\ denied'[p] = denied[p]
        /\ \/ shm # NoFile /\ shm' = shm /\ pc'[p] = "returned" /\ err'[p] = "shm exists"
           \/ shm' = p /\ pc'[p] = "map" /\ err'[p] = err[p]
    <3>1. CASE shm # NoFile
      BY <1>0, <1>6, <3>1 DEF CreateNamed, TypeOK, Rest
    <3>2. CASE shm = NoFile
      BY <1>0, <1>6, <3>2 DEF CreateNamed, TypeOK, Rest
    <3> QED
      BY <1>6, <3>1, <3>2 DEF CreateNamed
  <2>3. Frame(p) /\ Files(p) /\ GoesOn(p)
    BY <1>0, <1>6, <2>2 DEF CreateNamed, TypeOK, Frame, Files, GoesOn, Active, Rest
  <2>4. Owner(p)'
    BY <1>0, <2>2 DEF Local, Owner
  <2>5. NoOldSocket(p)'
    BY <1>0, <2>2 DEF Local, NoOldSocket, Rest
  <2>6. Cleared(p)'
    BY <1>0, <2>2 DEF Local, Cleared, Rest
  <2>7. PathMatches(p)'
    BY <1>0, <2>2 DEF Local, PathMatches
  <2>8. OwnAtPath(p)'
    BY <1>0, <2>2 DEF Local, PathMatches, OwnAtPath, Rest
  <2> QED
    BY <2>1, <2>3, <2>4, <2>5, <2>6, <2>7, <2>8, StepIInv DEF Local
<1>7. ASSUME NEW p \in Proc, MapSegment(p) PROVE IInv'
  <2>0. \/ /\ Return(p, "shm map") /\ UNCHANGED path
           /\ \/ shm' = NoFile /\ UNCHANGED denied
              \/ shm' = shm /\ denied' = [denied EXCEPT ![p] = @ \cup {"map"}]
        \/ /\ Goto(p, "unlinkSock") /\ path' = [path EXCEPT ![p] = "set"]
           /\ UNCHANGED <<shm, denied>>
    BY <1>0, <1>7, DeniedAdds DEF MapSegment, Removal
  <2>9. shm' \in File /\ denied' \in [Proc -> SUBSET Removal]
    BY <1>0, <1>7, DeniedAdds DEF MapSegment, Removal, TypeOK, File
  <2>1. TypeOK'
    <3>1. CASE Return(p, "shm map")
      BY <1>0, <1>7, <2>0, <2>9, <3>1 DEF MapSegment, TypeOK, Label
    <3>2. CASE Goto(p, "unlinkSock")
      BY <1>0, <1>7, <2>0, <2>9, <3>2 DEF MapSegment, TypeOK, Label
    <3> QED
      BY <2>0, <3>1, <3>2
  <2>2. /\ pc[p] = "map" /\ sock' = sock /\ Rest(p)
        /\ \/ /\ pc'[p] = "returned" /\ err'[p] = "shm map" /\ path'[p] = path[p]
              /\ \/ shm' = NoFile /\ denied'[p] = denied[p]
                 \/ shm' = shm /\ denied'[p] = denied[p] \cup {"map"}
           \/ /\ shm' = shm /\ pc'[p] = "unlinkSock" /\ err'[p] = err[p] /\ path'[p] = "set"
              /\ denied'[p] = denied[p]
    <3>1. CASE Return(p, "shm map")
      BY <1>0, <1>7, <2>0, <3>1 DEF MapSegment, TypeOK, Rest
    <3>2. CASE Goto(p, "unlinkSock")
      BY <1>0, <1>7, <2>0, <3>2 DEF MapSegment, TypeOK, Rest
    <3> QED
      BY <2>0, <3>1, <3>2
  <2>3. Frame(p) /\ Files(p) /\ GoesOn(p)
    BY <1>0, <1>7, <2>0, <2>2 DEF MapSegment, Goto, Return, TypeOK, Frame, Files, GoesOn, Active, Rest
  <2>4. Owner(p)'
    BY <1>0, <2>2 DEF Local, Owner
  <2>5. NoOldSocket(p)'
    BY <1>0, <2>2 DEF Local, NoOldSocket, Rest
  <2>6. Cleared(p)'
    BY <1>0, <2>2 DEF Local, Cleared, Rest
  <2>7. PathMatches(p)'
    BY <1>0, <2>2 DEF Local, PathMatches
  <2>8. OwnAtPath(p)'
    BY <1>0, <2>2 DEF Local, PathMatches, OwnAtPath, Rest
  <2> QED
    BY <2>1, <2>3, <2>4, <2>5, <2>6, <2>7, <2>8, StepIInv DEF Local
<1>8. ASSUME NEW p \in Proc, shmCreateCmd(p) PROVE IInv'
  <2>1. TypeOK'
    BY <1>0, <1>8 DEF shmCreateCmd, TypeOK, File, Label
  <2>2. /\ pc[p] = "map" /\ kind[p] = "shm create" /\ pc'[p] = "dead" /\ UNCHANGED <<sock, shm>>
        /\ Rest(p) /\ err'[p] = err[p] /\ path'[p] = path[p] /\ denied'[p] = denied[p]
    BY <1>0, <1>8 DEF shmCreateCmd, TypeOK, Rest
  <2>3. Frame(p) /\ Files(p) /\ GoesOn(p)
    BY <1>0, <1>8, <2>2 DEF shmCreateCmd, TypeOK, Frame, Files, GoesOn, Active, Rest
  <2>4. Owner(p)'
    BY <1>0, <2>2 DEF Local, Owner
  <2>5. NoOldSocket(p)'
    BY <1>0, <2>2 DEF Local, NoOldSocket, Rest
  <2>6. Cleared(p)'
    BY <1>0, <2>2 DEF Local, Cleared, Rest
  <2>7. PathMatches(p)'
    BY <1>0, <2>2 DEF Local, PathMatches
  <2>8. OwnAtPath(p)'
    BY <1>0, <2>2 DEF Local, PathMatches, OwnAtPath, Rest
  <2> QED
    BY <2>1, <2>3, <2>4, <2>5, <2>6, <2>7, <2>8, StepIInv DEF Local
<1>9. ASSUME NEW p \in Proc, RemoveSocket(p) PROVE IInv'
  <2>0. \/ sock' = NoFile /\ UNCHANGED denied
        \/ sock' = sock /\ denied' = [denied EXCEPT ![p] = @ \cup {"unlinkSock"}]
    BY <1>0, <1>9, DeniedAdds DEF RemoveSocket, Removal
  <2>9. sock' \in File /\ denied' \in [Proc -> SUBSET Removal]
    BY <1>0, <1>9, DeniedAdds DEF RemoveSocket, Removal, TypeOK, File
  <2>1. TypeOK'
    BY <1>0, <1>9, <2>9 DEF RemoveSocket, TypeOK, Label
  <2>2. /\ pc[p] = "unlinkSock" /\ pc'[p] = "listen" /\ shm' = shm
        /\ Rest(p) /\ err'[p] = err[p] /\ path'[p] = path[p]
        /\ \/ sock' = NoFile /\ denied'[p] = denied[p]
           \/ sock' = sock /\ denied'[p] = denied[p] \cup {"unlinkSock"}
    BY <1>0, <1>9, <2>0 DEF RemoveSocket, TypeOK, Rest
  <2>3. Frame(p) /\ Files(p) /\ GoesOn(p)
    BY <1>0, <1>9, <2>0, <2>2 DEF RemoveSocket, Goto, Return, TypeOK, Frame, Files, GoesOn, Active, Rest
  <2>4. Owner(p)'
    BY <1>0, <2>2 DEF Local, Owner
  <2>5. NoOldSocket(p)'
    BY <1>0, <2>2 DEF Local, NoOldSocket, Rest
  <2>6. Cleared(p)'
    BY <1>0, <2>2 DEF Local, Cleared, Rest
  <2>7. PathMatches(p)'
    BY <1>0, <2>2 DEF Local, PathMatches
  <2>8. OwnAtPath(p)'
    BY <1>0, <2>2 DEF Local, PathMatches, OwnAtPath, Rest
  <2> QED
    BY <2>1, <2>3, <2>4, <2>5, <2>6, <2>7, <2>8, StepIInv DEF Local
<1>10. ASSUME NEW p \in Proc, Listen(p) PROVE IInv'
  <2>1. TypeOK'
    <3>1. CASE sock' = p /\ Goto(p, "serve")
      BY <1>0, <1>10, <3>1 DEF Listen, TypeOK, File, Label
    <3>2. CASE sock' = sock /\ pc' = [pc EXCEPT ![p] = "removeShm"]
      BY <1>0, <1>10, <3>2 DEF Listen, TypeOK, File, Label
    <3> QED
      BY <1>10, <3>1, <3>2 DEF Listen
  <2>2. /\ pc[p] = "listen" /\ shm' = shm
        /\ Rest(p) /\ path'[p] = path[p] /\ denied'[p] = denied[p]
        /\ \/ sock' = p /\ pc'[p] = "serve" /\ err'[p] = err[p]
           \/ sock' = sock /\ pc'[p] = "removeShm" /\ err'[p] = (IF sock = NoFile THEN "listen" ELSE "address in use")
    <3>1. CASE sock' = p /\ Goto(p, "serve")
      BY <1>0, <1>10, <3>1 DEF Listen, TypeOK, Rest
    <3>2. CASE sock' = sock /\ pc' = [pc EXCEPT ![p] = "removeShm"]
      BY <1>0, <1>10, <3>2 DEF Listen, TypeOK, Rest
    <3> QED
      BY <1>10, <3>1, <3>2 DEF Listen
  <2>3. Frame(p) /\ Files(p) /\ GoesOn(p)
    BY <1>0, <1>10, <2>2 DEF Listen, TypeOK, Frame, Files, GoesOn, Active, Rest
  <2>4. Owner(p)'
    BY <1>0, <2>2 DEF Local, Owner
  <2>5. NoOldSocket(p)'
    <3>1. p >= p
      BY DEF Proc
    <3> QED
      BY <1>0, <2>2, <3>1 DEF Local, NoOldSocket, Rest
  <2>6. Cleared(p)'
    BY <1>0, <2>2 DEF Local, Cleared, Rest
  <2>7. PathMatches(p)'
    BY <1>0, <2>2 DEF Local, PathMatches
  <2>8. OwnAtPath(p)'
    BY <1>0, <2>2 DEF Local, PathMatches, OwnAtPath, Rest
  <2> QED
    BY <2>1, <2>3, <2>4, <2>5, <2>6, <2>7, <2>8, StepIInv DEF Local
<1>11. ASSUME NEW p \in Proc, LoopReturns(p) PROVE IInv'
  <2>1. TypeOK'
    BY <1>0, <1>11 DEF LoopReturns, TypeOK, File, Label
  <2>2. /\ pc[p] = "serve" /\ pc'[p] = "close" /\ UNCHANGED <<sock, shm>>
        /\ Rest(p) /\ err'[p] = err[p] /\ path'[p] = path[p] /\ denied'[p] = denied[p]
    BY <1>0, <1>11 DEF LoopReturns, TypeOK, Rest
  <2>3. Frame(p) /\ Files(p) /\ GoesOn(p)
    BY <1>0, <1>11, <2>2 DEF LoopReturns, TypeOK, Frame, Files, GoesOn, Active, Rest
  <2>4. Owner(p)'
    BY <1>0, <2>2 DEF Local, Owner
  <2>5. NoOldSocket(p)'
    BY <1>0, <2>2 DEF Local, NoOldSocket, Rest
  <2>6. Cleared(p)'
    BY <1>0, <2>2 DEF Local, Cleared, Rest
  <2>7. PathMatches(p)'
    BY <1>0, <2>2 DEF Local, PathMatches
  <2>8. OwnAtPath(p)'
    BY <1>0, <2>2 DEF Local, PathMatches, OwnAtPath, Rest
  <2> QED
    BY <2>1, <2>3, <2>4, <2>5, <2>6, <2>7, <2>8, StepIInv DEF Local
<1>12. ASSUME NEW p \in Proc, CloseListener(p) PROVE IInv'
  <2>0. \/ sock' = NoFile /\ UNCHANGED denied
        \/ pc[p] = "close" /\ UNCHANGED <<sock, denied>>
        \/ /\ pc[p] = "removeSock" /\ sock' = sock
           /\ denied' = [denied EXCEPT ![p] = @ \cup {"removeSock"}]
    BY <1>0, <1>12, DeniedAdds DEF CloseListener, Removal
  <2>9. sock' \in File /\ denied' \in [Proc -> SUBSET Removal]
    BY <1>0, <1>12, DeniedAdds DEF CloseListener, Removal, TypeOK, File
  <2>1. TypeOK'
    <3>1. CASE pc[p] = "close"
      BY <1>0, <1>12, <2>9, <3>1 DEF CloseListener, TypeOK, Label
    <3>2. CASE pc[p] = "removeSock"
      BY <1>0, <1>12, <2>9, <3>2 DEF CloseListener, TypeOK, Label
    <3> QED
      BY <1>12, <3>1, <3>2 DEF CloseListener
  <2>2. /\ shm' = shm /\ Rest(p) /\ err'[p] = err[p] /\ path'[p] = path[p]
        /\ \/ /\ pc[p] = "close" /\ pc'[p] = "removeSock"
              /\ sock' \in {sock, NoFile} /\ denied'[p] = denied[p]
           \/ /\ pc[p] = "removeSock" /\ pc'[p] = "removeShm"
              /\ \/ sock' = NoFile /\ denied'[p] = denied[p]
                 \/ sock' = sock /\ denied'[p] = denied[p] \cup {"removeSock"}
    <3>1. CASE pc[p] = "close"
      BY <1>0, <1>12, <2>0, <3>1 DEF CloseListener, TypeOK, Rest
    <3>2. CASE pc[p] = "removeSock"
      BY <1>0, <1>12, <2>0, <3>2 DEF CloseListener, TypeOK, Rest
    <3> QED
      BY <1>12, <3>1, <3>2 DEF CloseListener
  <2>3. Frame(p) /\ Files(p) /\ GoesOn(p)
    BY <1>0, <1>12, <2>0, <2>2 DEF CloseListener, Goto, Return, TypeOK, Frame, Files, GoesOn, Active, Rest
  <2>4. Owner(p)'
    BY <1>0, <2>2 DEF Local, Owner
  <2>5. NoOldSocket(p)'
    BY <1>0, <2>2 DEF Local, NoOldSocket, Rest
  <2>6. Cleared(p)'
    BY <1>0, <2>2 DEF Local, Cleared, Rest
  <2>7. PathMatches(p)'
    BY <1>0, <2>2 DEF Local, PathMatches
  <2>8. OwnAtPath(p)'
    BY <1>0, <2>2 DEF Local, PathMatches, OwnAtPath, Rest
  <2> QED
    BY <2>1, <2>3, <2>4, <2>5, <2>6, <2>7, <2>8, StepIInv DEF Local
<1>13. ASSUME NEW p \in Proc, RemoveSegment(p) PROVE IInv'
  <2>0. \/ shm' = NoFile /\ UNCHANGED denied
        \/ shm' = shm /\ denied' = [denied EXCEPT ![p] = @ \cup {"removeShm"}]
    BY <1>0, <1>13, DeniedAdds DEF RemoveSegment, Removal
  <2>9. shm' \in File /\ denied' \in [Proc -> SUBSET Removal]
    BY <1>0, <1>13, DeniedAdds DEF RemoveSegment, Removal, TypeOK, File
  <2>1. TypeOK'
    BY <1>0, <1>13, <2>9 DEF RemoveSegment, TypeOK, Label
  <2>2. /\ pc[p] = "removeShm" /\ pc'[p] = "clear" /\ sock' = sock
        /\ Rest(p) /\ err'[p] = err[p] /\ path'[p] = "clearing"
        /\ \/ shm' = NoFile /\ denied'[p] = denied[p]
           \/ shm' = shm /\ denied'[p] = denied[p] \cup {"removeShm"}
    BY <1>0, <1>13, <2>0 DEF RemoveSegment, TypeOK, Rest
  <2>3. Frame(p) /\ Files(p) /\ GoesOn(p)
    BY <1>0, <1>13, <2>0, <2>2 DEF RemoveSegment, Goto, Return, TypeOK, Frame, Files, GoesOn, Active, Rest
  <2>4. Owner(p)'
    BY <1>0, <2>2 DEF Local, Owner
  <2>5. NoOldSocket(p)'
    BY <1>0, <2>2 DEF Local, NoOldSocket, Rest
  <2>6. Cleared(p)'
    BY <1>0, <2>2 DEF Local, Cleared, Rest
  <2>7. PathMatches(p)'
    BY <1>0, <2>2 DEF Local, PathMatches
  <2>8. OwnAtPath(p)'
    BY <1>0, <2>2 DEF Local, PathMatches, OwnAtPath, Rest
  <2> QED
    BY <2>1, <2>3, <2>4, <2>5, <2>6, <2>7, <2>8, StepIInv DEF Local
<1>14. ASSUME NEW p \in Proc, ClearPath(p) PROVE IInv'
  <2>1. TypeOK'
    BY <1>0, <1>14 DEF ClearPath, TypeOK, File, Label
  <2>2. /\ pc[p] = "clear" /\ pc'[p] = "returned" /\ UNCHANGED <<sock, shm>>
        /\ Rest(p) /\ err'[p] = err[p] /\ path'[p] = "empty" /\ denied'[p] = denied[p]
    BY <1>0, <1>14 DEF ClearPath, TypeOK, Rest
  <2>3. Frame(p) /\ Files(p) /\ GoesOn(p)
    BY <1>0, <1>14, <2>2 DEF ClearPath, TypeOK, Frame, Files, GoesOn, Active, Rest
  <2>4. Owner(p)'
    BY <1>0, <2>2 DEF Local, Owner
  <2>5. NoOldSocket(p)'
    BY <1>0, <2>2 DEF Local, NoOldSocket, Rest
  <2>6. Cleared(p)'
    BY <1>0, <2>2 DEF Local, Cleared, Rest
  <2>7. PathMatches(p)'
    BY <1>0, <2>2 DEF Local, PathMatches
  <2>8. OwnAtPath(p)'
    BY <1>0, <2>2 DEF Local, PathMatches, OwnAtPath, Rest
  <2> QED
    BY <2>1, <2>3, <2>4, <2>5, <2>6, <2>7, <2>8, StepIInv DEF Local
<1>15. ASSUME NEW p \in Proc, WaitSocket(p) PROVE IInv'
  <2>1. TypeOK'
    BY <1>0, <1>15 DEF WaitSocket, TypeOK, File, Label
  <2>2. /\ wait[p] = "polling" /\ wait'[p] = "returned" /\ saw'[p] \in {saw[p], sock}
        /\ UNCHANGED <<sock, shm, pc, err, kind, path, fd, reply, overlapped, denied>>
    BY <1>0, <1>15 DEF WaitSocket, TypeOK, Rest
  <2>3. Frame(p) /\ Files(p) /\ GoesOn(p)
    <3>1. pc[p] \notin {"new", "dead"}
      BY <1>0, <2>2 DEF Local, NoOldSocket
    <3> QED
      BY <1>0, <1>15, <2>2, <3>1 DEF WaitSocket, TypeOK, Frame, Files, GoesOn, Active
  <2>4. Owner(p)'
    BY <1>0, <2>2 DEF Local, Owner
  <2>5. NoOldSocket(p)'
    BY <1>0, <2>2 DEF Local, NoOldSocket, Rest
  <2>6. Cleared(p)'
    BY <1>0, <2>2 DEF Local, Cleared, Rest
  <2>7. PathMatches(p)'
    BY <1>0, <2>2 DEF Local, PathMatches
  <2>8. OwnAtPath(p)'
    BY <1>0, <2>2 DEF Local, PathMatches, OwnAtPath, Rest
  <2> QED
    BY <2>1, <2>3, <2>4, <2>5, <2>6, <2>7, <2>8, StepIInv DEF Local
<1>16. ASSUME NEW p \in Proc, OpenSegment(p) PROVE IInv'
  <2>1. TypeOK'
    BY <1>0, <1>16 DEF OpenSegment, Serving, PathRead, TypeOK, File, Label
  <2>2. /\ path[p] \in {"set", "clearing"} /\ shm # NoFile /\ fd'[p] = shm
        /\ UNCHANGED <<sock, shm, pc, err, kind, wait, saw, path, reply, overlapped, denied>>
    BY <1>0, <1>16 DEF OpenSegment, Serving, PathRead, TypeOK, Rest
  <2>3. Frame(p) /\ Files(p) /\ GoesOn(p)
    <3>1. pc[p] \notin {"new", "dead"}
      BY <1>0, <2>2 DEF Local, PathMatches
    <3> QED
      BY <1>0, <1>16, <2>2, <3>1 DEF OpenSegment, TypeOK, Frame, Files, GoesOn, Active
  <2>4. Owner(p)'
    BY <1>0, <2>2 DEF Local, Owner
  <2>5. NoOldSocket(p)'
    BY <1>0, <2>2 DEF Local, NoOldSocket, Rest
  <2>6. Cleared(p)'
    BY <1>0, <2>2 DEF Local, Cleared, Rest
  <2>7. PathMatches(p)'
    BY <1>0, <2>2 DEF Local, PathMatches
  <2>8. OwnAtPath(p)'
    BY <1>0, <2>2 DEF Local, PathMatches, OwnAtPath, Rest
  <2> QED
    BY <2>1, <2>3, <2>4, <2>5, <2>6, <2>7, <2>8, StepIInv DEF Local
<1>17. ASSUME NEW p \in Proc, SendDescriptor(p) PROVE IInv'
  <2>1. TypeOK'
    <3>1. PICK s \in PathRead(p) \ {"torn"} : reply' = [reply EXCEPT ![p] = [file |-> fd[p], path |-> s]]
      BY <1>17 DEF SendDescriptor
    <3>2. s \in {"set", "empty"} /\ (path[p] = "set" => s = "set")
      BY DEF PathRead
    <3> QED
      BY <1>0, <1>17, <3>1, <3>2 DEF SendDescriptor, Serving, TypeOK, File, Label, NoReply
  <2>2. /\ fd[p] # NoFile /\ fd'[p] = NoFile
        /\ reply'[p].file = fd[p] /\ (path[p] = "set" => reply'[p].path = "set")
        /\ pc[p] \in {"serve", "close", "removeSock", "removeShm", "clear", "returned"}
        /\ UNCHANGED <<sock, shm, pc, err, kind, wait, saw, path, overlapped, denied>>
    <3>1. PICK s \in PathRead(p) \ {"torn"} : reply' = [reply EXCEPT ![p] = [file |-> fd[p], path |-> s]]
      BY <1>17 DEF SendDescriptor
    <3>2. s \in {"set", "empty"} /\ (path[p] = "set" => s = "set")
      BY DEF PathRead
    <3> QED
      BY <1>0, <1>17, <3>1, <3>2 DEF SendDescriptor, Serving, TypeOK, Rest
  <2>3. Frame(p) /\ Files(p) /\ GoesOn(p)
    BY <1>0, <1>17, <2>2 DEF SendDescriptor, TypeOK, Frame, Files, GoesOn, Active, Rest
  <2>4. Owner(p)'
    BY <1>0, <2>2 DEF Local, Owner
  <2>5. NoOldSocket(p)'
    BY <1>0, <2>2 DEF Local, NoOldSocket, Rest
  <2>6. Cleared(p)'
    BY <1>0, <2>2 DEF Local, Cleared, Rest
  <2>7. PathMatches(p)'
    BY <1>0, <2>2 DEF Local, PathMatches
  <2>8. OwnAtPath(p)'
    BY <1>0, <2>2 DEF Local, PathMatches, OwnAtPath, Rest
  <2> QED
    BY <2>1, <2>3, <2>4, <2>5, <2>6, <2>7, <2>8, StepIInv DEF Local
<1>18. ASSUME NEW p \in Proc, Crash(p) PROVE IInv'
  <2>1. TypeOK'
    BY <1>0, <1>18 DEF Crash, TypeOK, File, Label, NoReply
  <2>2. /\ pc[p] \notin {"new", "dead"} /\ pc'[p] = "dead" /\ UNCHANGED <<sock, shm>>
        /\ err'[p] = "none" /\ kind'[p] = "none" /\ wait'[p] = "no" /\ saw'[p] = NoFile
        /\ path'[p] = "unset" /\ fd'[p] = NoFile /\ reply'[p] = NoReply
    BY <1>0, <1>18 DEF Crash, TypeOK, Rest
  <2>3. Frame(p) /\ Files(p) /\ GoesOn(p)
    <3>1. Frame(p)
      BY <1>0, <1>18, <2>2 DEF Crash, TypeOK, Frame, Rest
    <3>2. Files(p)
      BY <1>0, <1>18, <2>2 DEF Crash, TypeOK, Files, Rest
    <3>3. GoesOn(p)
      BY <1>0, <1>18, <2>2 DEF Crash, TypeOK, GoesOn, Active, Rest
    <3> QED
      BY <3>1, <3>2, <3>3
  <2>4. Owner(p)'
    BY <1>0, <2>2 DEF Local, Owner
  <2>5. NoOldSocket(p)'
    BY <1>0, <2>2 DEF Local, NoOldSocket, Rest
  <2>6. Cleared(p)'
    BY <1>0, <2>2 DEF Local, Cleared, Rest
  <2>7. PathMatches(p)'
    BY <1>0, <2>2 DEF Local, PathMatches
  <2>8. OwnAtPath(p)'
    BY <1>0, <2>2 DEF Local, PathMatches, OwnAtPath, Rest
  <2> QED
    BY <2>1, <2>3, <2>4, <2>5, <2>6, <2>7, <2>8, StepIInv DEF Local
<1>19. ASSUME NEW p \in Proc, UnmapFails(p) PROVE IInv'
  <2>0. denied' = [denied EXCEPT ![p] = @ \cup {"munmap"}]
    BY <1>0, <1>19, DeniedAdds DEF UnmapFails, Removal
  <2>1. TypeOK'
    <3>1. denied' \in [Proc -> SUBSET Removal]
      BY <1>0, <1>19, DeniedAdds DEF UnmapFails, Removal
    <3> QED
      BY <1>0, <1>19, <3>1 DEF UnmapFails, TypeOK, File, Label
  <2>2. /\ pc[p] = "removeShm" /\ pc'[p] = "returned" /\ UNCHANGED <<sock, shm>>
        /\ Rest(p) /\ err'[p] = err[p] /\ path'[p] = path[p]
        /\ denied'[p] = denied[p] \cup {"munmap"}
    BY <1>0, <1>19, <2>0 DEF UnmapFails, TypeOK, Rest
  <2>3. Frame(p) /\ Files(p) /\ GoesOn(p)
    BY <1>0, <1>19, <2>0, <2>2 DEF UnmapFails, TypeOK, Frame, Files, GoesOn, Active, Rest
  <2>4. Owner(p)'
    BY <1>0, <2>2 DEF Local, Owner
  <2>5. NoOldSocket(p)'
    BY <1>0, <2>2 DEF Local, NoOldSocket, Rest
  <2>6. Cleared(p)'
    BY <1>0, <2>2 DEF Local, Cleared, Rest
  <2>7. PathMatches(p)'
    BY <1>0, <2>2 DEF Local, PathMatches
  <2>8. OwnAtPath(p)'
    BY <1>0, <2>2 DEF Local, PathMatches, OwnAtPath, Rest
  <2> QED
    BY <2>1, <2>3, <2>4, <2>5, <2>6, <2>7, <2>8, StepIInv DEF Local
<1>20. CASE UNCHANGED vars
  <2>1. TypeOK' /\ InOrder' /\ Alone'
    BY <1>20 DEF vars, IInv, TypeOK, InOrder, Alone, Active
  <2>2. ASSUME NEW p \in Proc PROVE Local(p)'
    BY <1>20 DEF vars, IInv, Local, Owner, NoOldSocket, Cleared, PathMatches, OwnAtPath
  <2> QED
    BY <2>1, <2>2 DEF IInv
<1> QED
  BY <1>1, <1>2, <1>3, <1>4, <1>5, <1>6, <1>7, <1>8, <1>9, <1>10, <1>11, <1>12, <1>13, <1>14, <1>15, <1>16, <1>17, <1>18, <1>19, <1>20 DEF Next, RunStep

-----------------------------------------------------------------------------
\* The invariant holds whatever processes are started, and wherever they die.
LEMMA Inductive == Spec => []IInv
BY InitIInv, NextIInv, PTL DEF Spec

\* What an earlier process left behind never keeps a coordinator from
\* starting: plasma.Run fails on an existing segment or an address in use only
\* if another Run was under way, or its own removal of that file had failed.
THEOREM StartSafety == Spec => []StaleNeverBlocks
<1>1. IInv => StaleNeverBlocks
  BY DEF IInv, Local, Cleared, StaleNeverBlocks
<1> QED
  BY <1>1, Inductive, PTL

\* Every way out of plasma.Run leaves neither its socket nor its segment, save
\* one that it was denied to remove.
THEOREM LitterSafety == Spec => []NoLitter
<1>1. IInv => NoLitter
  <2> SUFFICES ASSUME IInv PROVE NoLitter
    OBVIOUS
  <2>1. sock # NoFile => sock \in Proc /\ Owner(sock)
    BY DEF IInv, TypeOK, File, Local
  <2>2. shm # NoFile => shm \in Proc /\ Owner(shm)
    BY DEF IInv, TypeOK, File, Local
  <2> QED
    BY <2>1, <2>2 DEF Owner, NoLitter
<1> QED
  BY <1>1, Inductive, PTL

\* A client of request_fd gets the segment of the coordinator it asked unless
\* another Run has worked on the path or its unmapping had failed, and an empty
\* path only in its teardown.
THEOREM SegmentSafety == Spec => []OwnSegment
<1>1. IInv => OwnSegment
  BY DEF IInv, Local, OwnAtPath, OwnSegment
<1> QED
  BY <1>1, Inductive, PTL

\* waitSocket takes a socket that an earlier process left behind for the one of
\* its own coordinator only if the supervisor was denied its removal.
THEOREM ReadySafety == Spec => []ReadyMeansNotStale
<1>1. IInv => ReadyMeansNotStale
  BY DEF IInv, Local, NoOldSocket, ReadyMeansNotStale
<1> QED
  BY <1>1, Inductive, PTL

=============================================================================
