------------------------- MODULE KVReplicationProofs -------------------------
(***************************************************************************)
(* Proofs about KVReplication, for any number of nodes, requests, columns, *)
(* values and faults.                                                      *)
(***************************************************************************)
EXTENDS KVReplication, KVMasterProofs

\* A request has reached a node, and the node of a running handler is up.
Home ==
  /\ \A r \in Thread : pc[r] # "idle" => at[r] \in Node
  /\ \A r \in Thread : pc[r] \notin {"idle", "enter", "done"} => proc[at[r]] = "up"

NodeInv == TypeOK /\ TypeInv /\ Home

\* KVReplication adds nothing to what KVMaster lets the membership do: every step of the nodes is a
\* membership step or leaves the membership alone.
LEMMA MemberStep == NodeInv /\ [Next]_vars => [MemberNext]_memberVars
<1> SUFFICES ASSUME NodeInv, [Next]_vars
             PROVE  [MemberNext]_memberVars
  OBVIOUS
<1>1. ASSUME NEW r \in Thread, Handler(r)
      PROVE  [MemberNext]_memberVars
  <2>1. CASE RecoverAsk(r)
    <3>1. at[r] \in Node
      BY <2>1 DEF RecoverAsk, NodeInv, Home
    <3>. QED
      BY <2>1, <3>1 DEF RecoverAsk, MemberNext
  <2>2. CASE RecoverAnswer(r)
    <3>1. at[r] \in Node
      BY <2>2 DEF RecoverAnswer, NodeInv, Home
    <3>. QED
      BY <2>2, <3>1 DEF RecoverAnswer, MemberNext
  <2>3. CASE WildForward(r)
    <3>1. at[r] \in Node /\ proc[at[r]] = "up"
      BY <2>3 DEF WildForward, NodeInv, Home
    <3>2. Crash(at[r])
      BY <2>3, <3>1 DEF WildForward, Kill, Crash
    <3>. QED
      BY <3>1, <3>2 DEF MemberNext
  <2>4. CASE \/ Refuse(r) \/ RefuseKey(r) \/ Enter(r) \/ Get(r) \/ RecoverKnown(r)
             \/ Recheck(r) \/ Route(r) \/ Forward(r) \/ CPutRefuse(r) \/ Multicast(r)
             \/ Commit(r)
    BY <2>4 DEF Refuse, RefuseKey, Enter, Get, RecoverKnown, Recheck, Route, Forward, CPutRefuse,
       Multicast, Commit
  <2>. QED
    BY <1>1, <2>1, <2>2, <2>3, <2>4 DEF Handler
<1>2. ASSUME NEW r \in Thread, RecoverFails(r)
      PROVE  [MemberNext]_memberVars
  <2>1. at[r] \in Node
    BY <1>2 DEF RecoverFails, NodeInv, Home
  <2>. QED
    BY <1>2, <2>1 DEF RecoverFails, MemberNext
<1>3. ASSUME NEW r \in Thread, NEW m \in Node, Issue(r, m) \/ Peer(r, m) \/ PeerCancel(r, m)
      PROVE  [MemberNext]_memberVars
  BY <1>3 DEF Issue, Peer, PeerAdmit, PeerApply, PeerCancel
<1>4. ASSUME NEW n \in Node, NodeCrash(n) \/ NodeBoot(n) \/ Sync(n) \/ NodeStart(n)
      PROVE  [MemberNext]_memberVars
  BY <1>4 DEF NodeCrash, Kill, Crash, NodeBoot, Sync, NodeStart, MemberNext
<1>5. CASE UNCHANGED vars
  BY <1>5 DEF vars
<1>. QED
  BY <1>1, <1>2, <1>3, <1>4, <1>5 DEF Next, MemberNext

-----------------------------------------------------------------------------
\* Conduct, the code's conduct_p and conduct_d, gives a row.
LEMMA ConductType ==
  ASSUME NEW o \in Operation, NEW w \in [Key -> Value \union {Absent}]
  PROVE  Conduct(o, w) \in [Key -> Value \union {Absent}]
BY DEF Conduct, Operation

\* Every step keeps the types, and running handlers on running nodes.
LEMMA NodeInvStep == NodeInv /\ [Next]_vars => NodeInv'
<1> SUFFICES ASSUME NodeInv, [Next]_vars
             PROVE  NodeInv'
  OBVIOUS
<1>0. TypeInv'
  BY MemberStep, TypeInvStep DEF NodeInv
<1>. USE <1>0 DEF NodeInv, TypeOK, TypeInv, Home, PcLabel, StatusCode, Goto, reqVars
<1>1. ASSUME NEW r \in Thread, NEW n \in Node,
             Issue(r, n)
      PROVE  NodeInv'
  BY <1>1 DEF Issue, memberVars
<1>2. ASSUME NEW r \in Thread,
             Refuse(r) \/ RefuseKey(r) \/ Enter(r) \/ Get(r)
      PROVE  NodeInv'
  BY <1>2 DEF Refuse, RefuseKey, Enter, Get, GetStatus, Return, Serving, memberVars
<1>3. ASSUME NEW r \in Thread,
             RecoverKnown(r) \/ Recheck(r) \/ Route(r)
      PROVE  NodeInv'
  BY <1>3 DEF RecoverKnown, Recheck, Route, Return, memberVars
<1>4. ASSUME NEW r \in Thread,
             RecoverAsk(r)
      PROVE  NodeInv'
  BY <1>4 DEF RecoverAsk, AskMaster, memberVars
<1>5. ASSUME NEW r \in Thread,
             RecoverAnswer(r)
      PROVE  NodeInv'
  BY <1>5 DEF RecoverAnswer, RenewPrimary, memberVars
<1>6. ASSUME NEW r \in Thread,
             RecoverFails(r)
      PROVE  NodeInv'
  BY <1>6 DEF RecoverFails, AskFails, Return, memberVars
<1>7. ASSUME NEW r \in Thread,
             Forward(r)
      PROVE  NodeInv'
  <2>1. at[r] \in Node /\ primary_idx[at[r]] \in Node
    BY <1>7 DEF Forward, MemberTypeOK
  <2>2. path' \in [Thread -> SUBSET Node] /\ at' \in [Thread -> Node \union {NoNode}]
    BY <1>7, <2>1 DEF Forward
  <2>3. TypeOK'
    BY <1>7, <2>2 DEF Forward, memberVars
  <2>4. Home'
    BY <1>7, <2>1 DEF Forward, memberVars
  <2>. QED
    BY <2>3, <2>4
<1>8. ASSUME NEW r \in Thread,
             CPutRefuse(r)
      PROVE  NodeInv'
  BY <1>8 DEF CPutRefuse, CPutStatus, Return, memberVars
<1>9. ASSUME NEW r \in Thread,
             Multicast(r)
      PROVE  NodeInv'
  BY <1>9 DEF Multicast, Peers, memberVars
<1>10. ASSUME NEW r \in Thread,
              Commit(r)
       PROVE  NodeInv'
  BY <1>10, ConductType DEF Commit, Return, memberVars
<1>11. ASSUME NEW r \in Thread, NEW m \in Node,
              PeerAdmit(r, m) \/ PeerCancel(r, m)
       PROVE  NodeInv'
  <2>1. mc' \in [Thread -> [Node -> {"none", "self", "sent", "wait", "done"}]]
    <3>1. PICK s \in {"wait", "done"} : mc' = [mc EXCEPT ![r][m] = s]
      BY <1>11 DEF PeerAdmit, PeerCancel
    <3>. QED
      BY <3>1
  <2>. QED
    BY <1>11, <2>1 DEF PeerAdmit, PeerCancel, memberVars
<1>12. ASSUME NEW r \in Thread, NEW m \in Node,
              PeerApply(r, m)
       PROVE  NodeInv'
  BY <1>12, ConductType DEF PeerApply, memberVars
<1>13. ASSUME NEW n \in Node,
              Kill(n)
       PROVE  NodeInv'
  <2>1. TypeOK'
    <3>1. mc' \in [Thread -> [Node -> {"none", "self", "sent", "wait", "done"}]]
      BY <1>13 DEF Kill
    <3>2. row' \in [Node -> [Key -> Value \union {Absent}]]
      BY <1>13 DEF Kill, EmptyRow
    <3>3. pc' \in [Thread -> PcLabel] /\ reply' \in [Thread -> StatusCode]
      BY <1>13 DEF Kill
    <3>. QED
      BY <1>13, <3>1, <3>2, <3>3 DEF Kill
  <2>2. Home'
    BY <1>13 DEF Kill, Killed, Die
  <2>. QED
    BY <2>1, <2>2
<1>14. ASSUME NEW n \in Node,
              NodeBoot(n)
       PROVE  NodeInv'
  <2>1. src' \in [Node -> Node \union {NoNode}]
    <3> DEFINE peers == {m \in Peers(n) : alive[m]}
    <3>1. peers \in SUBSET Node
      BY DEF Peers
    <3> HIDE DEF peers
    <3>3. peers # {} => FirstOf(peers) \in Node
      BY <3>1, FirstOfType
    <3>2. src' = [src EXCEPT ![n] =
            IF primary_idx'[n] # NoNode /\ peers # {} THEN FirstOf(peers) ELSE NoNode]
      BY <1>14 DEF NodeBoot, peers
    <3>. QED
      BY <3>2, <3>3
  <2>2. Home'
    BY <1>14 DEF NodeBoot, Boot
  <2>. QED
    BY <1>14, <2>1, <2>2 DEF NodeBoot
<1>15. ASSUME NEW n \in Node,
              Sync(n)
       PROVE  NodeInv'
  BY <1>15 DEF Sync, memberVars
<1>16. ASSUME NEW n \in Node,
              NodeStart(n)
       PROVE  NodeInv'
  BY <1>16 DEF NodeStart, StartServer, memberVars
<1>17. CASE (Coordinator \/ Environment) /\ UNCHANGED reqVars
  BY <1>17 DEF Coordinator, Environment, CheckNode, CheckTimeout, KeepPrimary, ElectPrimary,
     NoPrimary, UpdateNode, UpdateTimeout, LateUpdate, FinishRound, AdminShutdown, AdminStartup
<1>18. CASE UNCHANGED vars
  BY <1>18 DEF vars, memberVars
<1>19. ASSUME NEW r \in Thread, Handler(r)
       PROVE  NodeInv'
  <2>1. CASE WildForward(r)
    BY <1>13, <2>1 DEF WildForward
  <2>. QED
    BY <1>2, <1>3, <1>4, <1>5, <1>7, <1>8, <1>9, <1>10, <1>19, <2>1 DEF Handler
<1>. QED
  BY <1>1, <1>6, <1>11, <1>12, <1>13, <1>14, <1>15, <1>16, <1>17, <1>18, <1>19
  DEF Next, Peer, NodeCrash

LEMMA InitNodeInv == Init => NodeInv
<1> SUFFICES ASSUME Init
             PROVE  NodeInv
  OBVIOUS
<1>1. TypeInv
  BY DEF Init, TypeInv, MemberInit, MemberTypeOK
<1>2. op \in [Thread -> Operation]
  BY WorkloadAssumption DEF Init
<1>3. mc \in [Thread -> [Node -> {"none", "self", "sent", "wait", "done"}]]
  BY DEF Init, Untouched
<1>4. row \in [Node -> [Key -> Value \union {Absent}]]
  BY DEF Init, EmptyRow
<1>5. TypeOK
  BY <1>1, <1>2, <1>3, <1>4 DEF TypeInv, TypeOK, Init, PcLabel, StatusCode
<1>. QED
  BY <1>1, <1>5 DEF NodeInv, Home, Init

\* Type correctness of the nodes together with the coordinator.
THEOREM TypeCorrect == Spec => [](TypeOK /\ NodeInv)
<1>1. NodeInv => TypeOK
  BY DEF NodeInv
<1>. QED
  BY <1>1, InitNodeInv, NodeInvStep, PTL DEF Spec

\* The composition implements the membership specification: whatever the handlers do, coordinator
\* and nodes change their views of the primary only as KVMaster says.
THEOREM ImplementsMember == Spec => MemberSpec
<1>1. Init => MemberInit
  BY DEF Init
<1>. QED
  BY <1>1, InitNodeInv, NodeInvStep, MemberStep, PTL DEF Spec, MemberSpec

-----------------------------------------------------------------------------
\* Every step but these three leaves the row locks and the multicasting requests alone.
LEMMA LockFrame ==
  ASSUME NodeInv, [Next]_vars,
         \A r \in Thread : ~Multicast(r) /\ ~Commit(r),
         \A n \in Node : ~Kill(n)
  PROVE  /\ lock' = lock
         /\ \A r \in Thread : pc'[r] = "multicast" <=> pc[r] = "multicast"
         /\ \A r \in Thread : pc[r] = "multicast" => at'[r] = at[r]
<1>. USE DEF NodeInv, TypeOK, Home, PcLabel, Goto, Return, reqVars
<1>1. ASSUME NEW r \in Thread,
             \/ Refuse(r) \/ RefuseKey(r) \/ Enter(r) \/ Get(r) \/ RecoverKnown(r)
             \/ RecoverAsk(r) \/ RecoverAnswer(r) \/ RecoverFails(r) \/ Recheck(r) \/ Route(r)
             \/ Forward(r) \/ CPutRefuse(r)
      PROVE  /\ lock' = lock
             /\ \A q \in Thread : pc'[q] = "multicast" <=> pc[q] = "multicast"
             /\ \A q \in Thread : pc[q] = "multicast" => at'[q] = at[q]
  BY <1>1 DEF Refuse, RefuseKey, Enter, Get, RecoverKnown, RecoverAsk, RecoverAnswer,
     RecoverFails, Recheck, Route, Forward, CPutRefuse
<1>2. ASSUME NEW r \in Thread, NEW n \in Node, Issue(r, n) \/ Peer(r, n) \/ PeerCancel(r, n)
      PROVE  /\ lock' = lock
             /\ \A q \in Thread : pc'[q] = "multicast" <=> pc[q] = "multicast"
             /\ \A q \in Thread : pc[q] = "multicast" => at'[q] = at[q]
  BY <1>2 DEF Issue, Peer, PeerAdmit, PeerApply, PeerCancel
<1>3. ASSUME NEW n \in Node, NodeBoot(n) \/ Sync(n) \/ NodeStart(n)
      PROVE  /\ lock' = lock
             /\ \A q \in Thread : pc'[q] = "multicast" <=> pc[q] = "multicast"
             /\ \A q \in Thread : pc[q] = "multicast" => at'[q] = at[q]
  BY <1>3 DEF NodeBoot, Sync, NodeStart
<1>4. \A r \in Thread : ~WildForward(r)
  BY DEF WildForward
<1>5. \A n \in Node : ~NodeCrash(n)
  BY DEF NodeCrash
<1>6. ASSUME UNCHANGED reqVars
      PROVE  /\ lock' = lock
             /\ \A q \in Thread : pc'[q] = "multicast" <=> pc[q] = "multicast"
             /\ \A q \in Thread : pc[q] = "multicast" => at'[q] = at[q]
  BY <1>6
<1>7. UNCHANGED vars => UNCHANGED reqVars
  BY DEF vars
<1>. QED
  BY <1>1, <1>2, <1>3, <1>4, <1>5, <1>6, <1>7 DEF Next, Handler

LEMMA RowLockStep == NodeInv /\ RowLockHeld /\ [Next]_vars => RowLockHeld'
<1> SUFFICES ASSUME NodeInv, RowLockHeld, [Next]_vars
             PROVE  RowLockHeld'
  OBVIOUS
<1>. USE ReqAssumption DEF NodeInv, TypeOK, Home, PcLabel, Goto, Return
<1>1. ASSUME NEW r \in Thread, Multicast(r)
      PROVE  RowLockHeld'
  BY <1>1 DEF Multicast, Peers, RowLockHeld
<1>2. ASSUME NEW r \in Thread, Commit(r)
      PROVE  RowLockHeld'
  BY <1>2 DEF Commit, RowLockHeld
<1>3. ASSUME NEW n \in Node, Kill(n)
      PROVE  RowLockHeld'
  BY <1>3 DEF Kill, Killed, RowLockHeld
<1>4. CASE /\ \A r \in Thread : ~Multicast(r) /\ ~Commit(r)
           /\ \A n \in Node : ~Kill(n)
  <2>1. /\ lock' = lock
        /\ \A r \in Thread : pc'[r] = "multicast" <=> pc[r] = "multicast"
        /\ \A r \in Thread : pc[r] = "multicast" => at'[r] = at[r]
    BY <1>4, LockFrame
  <2>. QED
    BY <2>1 DEF RowLockHeld
<1>. QED
  BY <1>1, <1>2, <1>3, <1>4

\* A node's row lock is exactly the request that multicasts there, whatever crashes.
THEOREM RowLockCorrect == Spec => []RowLockHeld
<1>1. Init => RowLockHeld
  BY ReqAssumption DEF Init, RowLockHeld
<1>. QED
  BY <1>1, InitNodeInv, NodeInvStep, RowLockStep, PTL DEF Spec

-----------------------------------------------------------------------------
\* Under crash-stop failures a request past cond3 runs at the coordinator's primary.
AtPrimary ==
  faults = 0 => \A r \in Thread : pc[r] \in {"lock", "multicast"} => primary = at[r]

LEMMA AtPrimaryStep ==
  NodeInv /\ CrashStopInv /\ AtPrimary /\ [Next]_vars => AtPrimary'
<1> SUFFICES ASSUME NodeInv, CrashStopInv, AtPrimary, [Next]_vars, faults' = 0
             PROVE  \A r \in Thread : pc'[r] \in {"lock", "multicast"} => primary' = at'[r]
  BY DEF AtPrimary
<1>1. faults = 0
  <2>1. [MemberNext]_memberVars
    BY MemberStep
  <2>. QED
    BY <2>1, FaultsGrow DEF NodeInv
<1>2. CrashStop /\ Known /\ Beliefs /\ AtPrimary
  BY <1>1 DEF CrashStopInv
<1>3. \A r \in Thread : pc[r] \in {"lock", "multicast"} => primary = at[r] /\ proc[at[r]] = "up"
  BY <1>1, <1>2 DEF AtPrimary, NodeInv, Home
<1>. USE DEF NodeInv, TypeOK, TypeInv, MemberTypeOK, PcLabel, Home, Goto, Return
<1>4. CASE Coordinator /\ UNCHANGED reqVars
  <2>1. ASSUME primary' # primary
        PROVE  \A r \in Thread : pc[r] \notin {"lock", "multicast"}
    <3>1. Checked /\ ~PrimaryAlive
      BY <1>4, <2>1 DEF Coordinator, CheckNode, CheckTimeout, KeepPrimary, ElectPrimary, NoPrimary,
         UpdateNode, UpdateTimeout, LateUpdate, FinishRound
    <3>2. primary = NoNode \/ proc[primary] # "up"
      BY <1>2, <3>1 DEF Checked, PrimaryAlive, Known
    <3>. QED
      BY <1>3, <3>2 DEF NoNode, Node
  <2>. QED
    BY <1>3, <1>4, <2>1 DEF reqVars
<1>5. CASE Environment /\ UNCHANGED reqVars
  BY <1>3, <1>5 DEF Environment, AdminShutdown, AdminStartup, reqVars
<1>6. ASSUME NEW r \in Thread, Route(r)
      PROVE  \A q \in Thread : pc'[q] \in {"lock", "multicast"} => primary' = at'[q]
  <2>1. primary_idx[at[r]] = at[r] => primary = at[r]
    BY <1>2, <1>6 DEF Route, Beliefs, Harmless, NoNode, Node
  <2>. QED
    BY <1>3, <1>6, <2>1 DEF Route, memberVars
<1>7. ASSUME NEW r \in Thread, Multicast(r) \/ Commit(r)
      PROVE  \A q \in Thread : pc'[q] \in {"lock", "multicast"} => primary' = at'[q]
  BY <1>3, <1>7 DEF Multicast, Peers, Commit, memberVars
<1>8. ASSUME NEW n \in Node, Kill(n)
      PROVE  \A q \in Thread : pc'[q] \in {"lock", "multicast"} => primary' = at'[q]
  BY <1>3, <1>8 DEF Kill, Die
<1>9. ASSUME NEW r \in Thread,
             \/ Refuse(r) \/ RefuseKey(r) \/ Enter(r) \/ Get(r) \/ RecoverKnown(r)
             \/ RecoverAsk(r) \/ RecoverAnswer(r) \/ RecoverFails(r) \/ Recheck(r)
             \/ Forward(r) \/ CPutRefuse(r)
      PROVE  \A q \in Thread : pc'[q] \in {"lock", "multicast"} => primary' = at'[q]
  <2>1. primary' = primary
    BY <1>9 DEF Refuse, RefuseKey, Enter, Get, RecoverKnown, RecoverAsk, RecoverAnswer,
       RecoverFails, Recheck, Forward, CPutRefuse, AskMaster, AskFails, RenewPrimary, memberVars
  <2>2. CASE Refuse(r) \/ RefuseKey(r) \/ Enter(r) \/ Get(r) \/ RecoverKnown(r) \/ RecoverAsk(r)
    BY <1>3, <2>1, <2>2 DEF Refuse, RefuseKey, Enter, Get, RecoverKnown, RecoverAsk
  <2>3. CASE \/ RecoverAnswer(r) \/ RecoverFails(r) \/ Recheck(r)
             \/ Forward(r) \/ CPutRefuse(r)
    BY <1>3, <2>1, <2>3 DEF RecoverAnswer, RecoverFails, Recheck, Forward, CPutRefuse
  <2>. QED
    BY <1>9, <2>2, <2>3
<1>10. ASSUME NEW r \in Thread, NEW n \in Node,
              Issue(r, n) \/ Peer(r, n) \/ PeerCancel(r, n)
       PROVE  \A q \in Thread : pc'[q] \in {"lock", "multicast"} => primary' = at'[q]
  BY <1>3, <1>10 DEF Issue, Peer, PeerAdmit, PeerApply, PeerCancel, memberVars
<1>11. ASSUME NEW n \in Node, NodeBoot(n) \/ Sync(n) \/ NodeStart(n)
       PROVE  \A q \in Thread : pc'[q] \in {"lock", "multicast"} => primary' = at'[q]
  BY <1>3, <1>11 DEF NodeBoot, Boot, Sync, NodeStart, StartServer, reqVars, memberVars
<1>12. CASE UNCHANGED vars
  BY <1>3, <1>12 DEF vars, reqVars, memberVars
<1>. QED
  BY <1>4, <1>5, <1>6, <1>7, <1>8, <1>9, <1>10, <1>11, <1>12
  DEF Next, Handler, WildForward, NodeCrash

\* What holds of every reachable state so far, for the theorems below.
LEMMA Invariants ==
  Spec => [](NodeInv /\ CrashStopInv /\ RowLockHeld /\ AtPrimary)
<1>1. Init => AtPrimary
  BY DEF Init, AtPrimary
<1>2. Spec => []CrashStopInv
  BY ImplementsMember, MembershipInvariant, PTL
<1>3. Spec => []NodeInv
  BY TypeCorrect, PTL
<1>. QED
  BY <1>1, <1>2, <1>3, AtPrimaryStep, RowLockCorrect, PTL DEF Spec

\* One write at a time in the whole partition, as long as nodes only crash and stay down: two
\* handlers past cond3 run at the same node, and there the row lock separates them.
THEOREM WriteMutexCorrect == Spec => []WriteMutex
<1>1. NodeInv /\ RowLockHeld /\ AtPrimary => WriteMutex
  BY DEF NodeInv, Home, RowLockHeld, AtPrimary, WriteMutex
<1>. QED
  BY <1>1, Invariants, PTL

-----------------------------------------------------------------------------
Refusal == {"INVALID_ARGUMENT", "NOT_FOUND", "FAILED_PRECONDITION", "UNKNOWN"}
Writes(r) == op[r].kind # "Get" /\ ~BadKey(op[r])
Holds(n, c) ==
  row[n][c] # Absent =>
    /\ c # EmptyKey
    /\ \E r \in Thread : /\ Started(r) /\ op[r].kind \in {"Put", "CPut"}
                          /\ op[r].col = c /\ op[r].v2 = row[n][c]

\* A multicast begins only after the checks, and only then are there writes to find at a replica.
Checks ==
  \A r \in Thread :
    /\ pc[r] \notin {"multicast", "done"} => ~Started(r)
    /\ pc[r] \notin {"idle", "enter", "get", "done"} \/ Started(r) => Writes(r)
    /\ pc[r] = "multicast" => Started(r)
    /\ reply[r] \in Refusal => pc[r] = "done" /\ ~Started(r)

AcceptInv == Checks /\ \A n \in Node, c \in Key : Holds(n, c)

\* A step that starts no request, or only one that may write, and takes no request back.
LEMMA HoldsKept ==
  ASSUME TypeOK, NEW n \in Node, NEW c \in Key, Holds(n, c), op' = op,
         \A r \in Thread : Started(r) => Started(r)', row'[n] = row[n]
  PROVE  Holds(n, c)'
BY DEF Holds

LEMMA AcceptStep == NodeInv /\ NodeInv' /\ AcceptInv /\ [Next]_vars => AcceptInv'
<1> SUFFICES ASSUME NodeInv, NodeInv', AcceptInv, [Next]_vars
             PROVE  AcceptInv'
  OBVIOUS
<1>. USE DEF NodeInv, TypeOK, Home, PcLabel, StatusCode, Goto, Return, AcceptInv, Refusal
<1>1. ASSUME NEW r \in Thread,
             \/ Refuse(r) \/ RefuseKey(r) \/ Enter(r) \/ Get(r) \/ RecoverKnown(r)
             \/ RecoverAsk(r) \/ RecoverAnswer(r) \/ RecoverFails(r) \/ Recheck(r) \/ Route(r)
             \/ Forward(r) \/ CPutRefuse(r)
      PROVE  AcceptInv'
  <2>1. op' = op /\ mc' = mc /\ row' = row
    BY <1>1 DEF Refuse, RefuseKey, Enter, Get, RecoverKnown, RecoverAsk, RecoverAnswer,
       RecoverFails, Recheck, Route, Forward, CPutRefuse
  <2>2. \A q \in Thread : (Started(q)' <=> Started(q)) /\ (Writes(q)' <=> Writes(q))
    BY <2>1 DEF Started, Writes
  <2>3. Checks'
    BY <1>1, <2>2 DEF Checks, Refuse, RefuseKey, Enter, Get, RecoverKnown, RecoverAsk,
       RecoverAnswer, RecoverFails, Recheck, Route, Forward, CPutRefuse, Writes, GetStatus
  <2>. QED
    BY <2>1, <2>2, <2>3, HoldsKept
<1>2. ASSUME NEW r \in Thread, Multicast(r)
      PROVE  AcceptInv'
  <2>1. op' = op /\ row' = row /\ at[r] \in Node
    BY <1>2 DEF Multicast, Peers
  <2>2. \A q \in Thread : Started(q)' <=> Started(q) \/ q = r
    BY <1>2, <2>1 DEF Multicast, Peers, Started
  <2>3. Checks'
    BY <1>2, <2>1, <2>2 DEF Checks, Multicast, Writes
  <2>. QED
    BY <2>1, <2>2, <2>3, HoldsKept
<1>3. ASSUME NEW r \in Thread, NEW m \in Node, PeerAdmit(r, m) \/ PeerCancel(r, m)
      PROVE  AcceptInv'
  <2>1. op' = op /\ row' = row /\ pc' = pc /\ reply' = reply
    BY <1>3 DEF PeerAdmit, PeerCancel
  <2>2. \A q \in Thread : Started(q)' <=> Started(q)
    <3>1. \A q \in Thread, k \in Node : mc'[q][k] # "none" <=> mc[q][k] # "none"
      <4>1. PICK s \in {"wait", "done"} : mc' = [mc EXCEPT ![r][m] = s]
        BY <1>3 DEF PeerAdmit, PeerCancel
      <4>. QED
        BY <1>3, <4>1 DEF PeerAdmit, PeerCancel
    <3>. QED
      BY <3>1 DEF Started
  <2>3. Checks'
    BY <2>1, <2>2 DEF Checks, Writes
  <2>. QED
    BY <2>1, <2>2, <2>3, HoldsKept
<1>4. ASSUME NEW r \in Thread, NEW m \in Node, op' = op, Started(r), Writes(r),
             row' = [row EXCEPT ![m] = Conduct(op[r], @)],
             \A q \in Thread : Started(q)' <=> Started(q)
      PROVE  \A n \in Node, c \in Key : Holds(n, c)'
  <2> SUFFICES ASSUME NEW n \in Node, NEW c \in Key
               PROVE  Holds(n, c)'
    OBVIOUS
  <2>1. CASE n # m \/ c # op[r].col
    <3>1. row'[n][c] = row[n][c]
      BY <1>4, <2>1 DEF Conduct, Operation
    <3>. QED
      BY <1>4, <3>1 DEF Holds
  <2>2. CASE n = m /\ c = op[r].col
    <3>1. row'[n][c] = IF op[r].kind = "Delete" THEN Absent ELSE op[r].v2
      BY <1>4, <2>2 DEF Conduct, Operation
    <3>2. op[r].kind \in {"Get", "Put", "Delete", "CPut"}
      BY DEF Operation
    <3>. QED
      BY <1>4, <2>2, <3>1, <3>2 DEF Holds, Writes, BadKey
  <2>. QED
    BY <2>1, <2>2
<1>5. ASSUME NEW r \in Thread, NEW m \in Node, PeerApply(r, m)
      PROVE  AcceptInv'
  <2>1. Started(r)
    BY <1>5 DEF PeerApply, Started
  <2>2. \A q \in Thread : Started(q)' <=> Started(q)
    <3>1. \A q \in Thread, k \in Node : mc'[q][k] # "none" <=> mc[q][k] # "none"
      BY <1>5 DEF PeerApply
    <3>. QED
      BY <3>1 DEF Started
  <2>3. Checks'
    BY <1>5, <2>2 DEF Checks, Writes, PeerApply
  <2>. QED
    BY <1>4, <1>5, <2>1, <2>2, <2>3 DEF Checks, PeerApply
<1>6. ASSUME NEW r \in Thread, Commit(r)
      PROVE  AcceptInv'
  <2>1. Started(r) /\ Writes(r) /\ at[r] \in Node
    BY <1>6 DEF Commit, Checks
  <2>2. \A q \in Thread : Started(q)' <=> Started(q)
    BY <1>6 DEF Started, Commit
  <2>3. Checks'
    BY <1>6, <2>2 DEF Checks, Writes, Commit
  <2>. QED
    BY <1>4, <1>6, <2>1, <2>2, <2>3 DEF Commit
<1>7. ASSUME NEW n \in Node, Kill(n)
      PROVE  AcceptInv'
  <2>1. op' = op
    BY <1>7 DEF Kill
  <2>2. \A q \in Thread : Started(q)' <=> Started(q)
    <3>1. \A q \in Thread, k \in Node : mc'[q][k] # "none" <=> mc[q][k] # "none"
      BY <1>7 DEF Kill
    <3>. QED
      BY <3>1 DEF Started
  <2>3. Checks'
    BY <1>7, <2>1, <2>2 DEF Checks, Writes, Kill, Killed
  <2>4. ASSUME NEW k \in Node, NEW c \in Key
        PROVE  Holds(k, c)'
    <3>1. row'[k] = row[k] \/ row'[k][c] = Absent
      BY <1>7 DEF Kill, EmptyRow
    <3>. QED
      BY <2>1, <2>2, <3>1 DEF Holds
  <2>. QED
    BY <2>3, <2>4
<1>8. ASSUME NEW n \in Node, Sync(n)
      PROVE  AcceptInv'
  <2>1. op' = op /\ mc' = mc /\ pc' = pc /\ reply' = reply
    BY <1>8 DEF Sync
  <2>2. \A q \in Thread : Started(q)' <=> Started(q)
    BY <2>1 DEF Started
  <2>3. Checks'
    BY <2>1, <2>2 DEF Checks, Writes
  <2>4. ASSUME NEW k \in Node, NEW c \in Key
        PROVE  Holds(k, c)'
    <3>1. PICK j \in Node : row'[k] = row[j]
      BY <1>8 DEF Sync, NoNode
    <3>. QED
      BY <2>1, <2>2, <3>1 DEF Holds
  <2>. QED
    BY <2>3, <2>4
<1>9. ASSUME pc' = pc \/ (\E r \in Thread, n \in Node : Issue(r, n)),
             op' = op, mc' = mc, row' = row, reply' = reply
      PROVE  AcceptInv'
  <2>1. \A q \in Thread : Started(q)' <=> Started(q)
    BY <1>9 DEF Started
  <2>2. Checks'
    BY <1>9, <2>1 DEF Checks, Writes, Issue
  <2>. QED
    BY <1>9, <2>1, <2>2, HoldsKept
<1>10. ASSUME NEW r \in Thread, NEW n \in Node, Issue(r, n)
       PROVE  AcceptInv'
  BY <1>9, <1>10 DEF Issue
<1>11. ASSUME NEW n \in Node, NodeBoot(n) \/ NodeStart(n)
       PROVE  AcceptInv'
  BY <1>9, <1>11 DEF NodeBoot, NodeStart, reqVars
<1>12. CASE UNCHANGED reqVars
  BY <1>9, <1>12 DEF reqVars
<1>13. UNCHANGED vars => UNCHANGED reqVars
  BY DEF vars
<1>. QED
  BY <1>1, <1>2, <1>3, <1>5, <1>6, <1>7, <1>8, <1>10, <1>11, <1>12, <1>13
  DEF Next, Handler, Peer, WildForward, NodeCrash

LEMMA AcceptInvariant == Spec => []AcceptInv
<1>1. Init => AcceptInv
  BY DEF Init, AcceptInv, Checks, Holds, Started, Untouched, EmptyRow, Refusal
<1>2. NodeInv /\ [Next]_vars => NodeInv'
  BY NodeInvStep
<1>. QED
  BY <1>1, <1>2, InitNodeInv, AcceptStep, PTL DEF Spec

\* Replicas hold only what an accepted Put or CPut wrote, and a refused request writes nowhere,
\* through every crash, restart, shutdown and stale primary.
THEOREM OnlyAcceptedCorrect == Spec => []OnlyAccepted
<1>1. AcceptInv => OnlyAccepted
  BY DEF AcceptInv, Checks, Holds, OnlyAccepted, Refusal
<1>. QED
  BY <1>1, AcceptInvariant, PTL

-----------------------------------------------------------------------------
\* Nothing has failed yet.
Quiet == faults = 0 /\ \A n \in Node : proc[n] = "up"

\* A multicast runs at every peer and skips the multicasting node itself.
SelfInv == \A r \in Thread, m \in Node :
             pc[r] = "multicast" => (mc[r][m] = "self" <=> m = at[r]) /\ mc[r][m] # "none"

\* PPuts and PDeletes belong to a request that is still multicasting; where they are done, the
\* peer is one write ahead of the primary, and everywhere else it is where the primary is.
InStep ==
  /\ \A r \in Thread, m \in Node : mc[r][m] \in {"sent", "wait"} => pc[r] = "multicast"
  /\ \A r \in Thread, m \in Node :
       pc[r] = "multicast" =>
         row[m] = IF mc[r][m] = "done" THEN Conduct(op[r], row[at[r]]) ELSE row[at[r]]
  /\ (\A r \in Thread : pc[r] # "multicast") => \A m, n \in Node : row[m] = row[n]

LEMMA QuietBefore ==
  ASSUME NodeInv, CrashStopInv, [Next]_vars, Quiet'
  PROVE  Quiet /\ \A n \in Node : ~Kill(n)
<1>1. [MemberNext]_memberVars
  BY MemberStep
<1>2. faults = 0 /\ ~Fault
  BY <1>1, FaultsGrow DEF Quiet, NodeInv
<1>3. \A n \in Node : proc[n] # "boot"
  BY <1>2 DEF CrashStopInv, CrashStop
<1>4. \A n \in Node : ~Boot(n) /\ ~Crash(n) /\ ~StartServer(n)
  BY <1>2, <1>3 DEF Boot, Crash, Die, StartServer, Quiet, NodeInv, TypeInv, MemberTypeOK
<1>5. proc' = proc
  BY <1>1, <1>4 DEF MemberNext, Coordinator, Environment, CheckNode, CheckTimeout, KeepPrimary,
    ElectPrimary, NoPrimary, UpdateNode, UpdateTimeout, LateUpdate, FinishRound, AdminShutdown,
    AdminStartup, AskMaster, AskFails, RenewPrimary, memberVars
<1>6. \A n \in Node : ~Kill(n)
  BY <1>5 DEF Kill, Die, Quiet, NodeInv, TypeInv, MemberTypeOK
<1>. QED
  BY <1>2, <1>5, <1>6 DEF Quiet

LEMMA SelfStep == NodeInv /\ SelfInv /\ [Next]_vars => SelfInv'
<1> SUFFICES ASSUME NodeInv, SelfInv, [Next]_vars
             PROVE  SelfInv'
  OBVIOUS
<1>. USE DEF NodeInv, TypeOK, Home, PcLabel, Goto, Return
<1>1. ASSUME NEW r \in Thread, Multicast(r)
      PROVE  SelfInv'
  BY <1>1 DEF Multicast, Peers, SelfInv
<1>2. ASSUME NEW r \in Thread, Commit(r)
      PROVE  SelfInv'
  BY <1>2 DEF Commit, SelfInv
<1>3. ASSUME NEW n \in Node, Kill(n)
      PROVE  SelfInv'
  BY <1>3 DEF Kill, Killed, SelfInv
<1>4. ASSUME NEW r \in Thread, NEW m \in Node,
             PeerAdmit(r, m) \/ PeerApply(r, m) \/ PeerCancel(r, m)
      PROVE  SelfInv'
  <2>1. PICK s \in {"wait", "done"} : mc' = [mc EXCEPT ![r][m] = s]
    BY <1>4 DEF PeerAdmit, PeerApply, PeerCancel
  <2>2. mc[r][m] \in {"sent", "wait"} /\ pc' = pc /\ at' = at
    BY <1>4 DEF PeerAdmit, PeerApply, PeerCancel
  <2>. QED
    BY <2>1, <2>2 DEF SelfInv
<1>5. CASE /\ \A r \in Thread : ~Multicast(r) /\ ~Commit(r)
           /\ \A n \in Node : ~Kill(n)
           /\ \A r \in Thread, m \in Node : ~Peer(r, m) /\ ~PeerCancel(r, m)
  <2>1. /\ \A r \in Thread : pc'[r] = "multicast" <=> pc[r] = "multicast"
        /\ \A r \in Thread : pc[r] = "multicast" => at'[r] = at[r]
    BY <1>5, LockFrame
  <2>2. mc' = mc
    BY <1>5 DEF Next, Handler, Refuse, RefuseKey, Enter, Get, RecoverKnown, RecoverAsk,
       RecoverAnswer, RecoverFails, Recheck, Route, Forward, CPutRefuse, Issue, NodeBoot, Sync,
       NodeStart, WildForward, NodeCrash, reqVars, vars
  <2>. QED
    BY <2>1, <2>2 DEF SelfInv
<1>. QED
  BY <1>1, <1>2, <1>3, <1>4, <1>5 DEF Peer

LEMMA InStepStep ==
  ASSUME NodeInv, CrashStopInv, RowLockHeld, AtPrimary, AtPrimary', RowLockHeld', SelfInv,
         InStep, [Next]_vars, Quiet, Quiet', \A n \in Node : ~Kill(n)
  PROVE  InStep'
<1>. USE DEF NodeInv, TypeOK, Home, PcLabel, Goto, Return
<1>0. \A r, s \in Thread : pc[r] = "multicast" /\ pc[s] = "multicast" => r = s
  BY DEF RowLockHeld, AtPrimary, Quiet
<1>1. ASSUME NEW r \in Thread, Multicast(r)
      PROVE  InStep'
  <2>1. \A q \in Thread : pc[q] # "multicast"
    BY <1>1 DEF Multicast, Peers, RowLockHeld, AtPrimary, Quiet
  <2>2. \A m, n \in Node : row[m] = row[n]
    BY <2>1 DEF InStep
  <2>3. \A q \in Thread : pc'[q] = "multicast" <=> q = r
    BY <1>1, <2>1 DEF Multicast, Peers
  <2>. QED
    BY <1>1, <2>1, <2>2, <2>3 DEF Multicast, Peers, InStep
<1>2. ASSUME NEW r \in Thread, NEW m \in Node, PeerAdmit(r, m) \/ PeerCancel(r, m)
      PROVE  InStep'
  <2>1. pc[r] = "multicast" /\ Serving(m)
    BY <1>2 DEF PeerAdmit, PeerCancel, InStep, Serving, Quiet, CrashStopInv, CrashStop
  <2>2. mc' = [mc EXCEPT ![r][m] = "wait"]
    BY <1>2, <2>1 DEF PeerAdmit, PeerCancel
  <2>3. mc[r][m] = "sent" /\ UNCHANGED <<op, at, pc, row>>
    BY <1>2 DEF PeerAdmit, PeerCancel
  <2>4. \A q \in Thread, k \in Node :
          /\ mc'[q][k] = "done" <=> mc[q][k] = "done"
          /\ mc'[q][k] \in {"sent", "wait"} <=> mc[q][k] \in {"sent", "wait"}
    BY <2>2, <2>3
  <2>. QED
    BY <2>3, <2>4 DEF InStep
<1>3. ASSUME NEW r \in Thread, NEW m \in Node, PeerApply(r, m)
      PROVE  InStep'
  <2>1. pc[r] = "multicast" /\ m # at[r] /\ row[m] = row[at[r]]
    BY <1>3 DEF PeerApply, InStep, SelfInv
  <2>2. /\ mc' = [mc EXCEPT ![r][m] = "done"]
        /\ row' = [row EXCEPT ![m] = Conduct(op[r], row[at[r]])]
        /\ UNCHANGED <<op, at, pc>>
    BY <1>3, <2>1 DEF PeerApply
  <2>3. ASSUME NEW q \in Thread, NEW k \in Node
        PROVE  /\ mc'[q][k] = IF q = r /\ k = m THEN "done" ELSE mc[q][k]
               /\ row'[k] = IF k = m THEN Conduct(op[r], row[at[r]]) ELSE row[k]
    BY <2>2
  <2>. QED
    BY <1>0, <2>1, <2>2, <2>3 DEF InStep
<1>4. ASSUME NEW r \in Thread, Commit(r)
      PROVE  InStep'
  <2>1. \A m \in Node : m # at[r] => row[m] = Conduct(op[r], row[at[r]])
    BY <1>4 DEF Commit, InStep, SelfInv
  <2>2. \A m \in Node : row'[m] = Conduct(op[r], row[at[r]])
    BY <1>4, <2>1 DEF Commit
  <2>3. \A q \in Thread : pc'[q] # "multicast"
    BY <1>0, <1>4 DEF Commit
  <2>. QED
    BY <1>4, <2>2, <2>3 DEF Commit, InStep
<1>5. CASE /\ \A r \in Thread : ~Multicast(r) /\ ~Commit(r)
           /\ \A r \in Thread, m \in Node : ~Peer(r, m) /\ ~PeerCancel(r, m)
  <2>1. /\ \A r \in Thread : pc'[r] = "multicast" <=> pc[r] = "multicast"
        /\ \A r \in Thread : pc[r] = "multicast" => at'[r] = at[r]
    BY <1>5, LockFrame
  <2>2. \A n \in Node : ~Sync(n)
    BY DEF Sync, Quiet
  <2>3. \A r \in Thread : ~WildForward(r)
    BY DEF WildForward
  <2>4. \A n \in Node : ~NodeCrash(n)
    BY DEF NodeCrash
  <2>5. ASSUME NEW r \in Thread, Handler(r) \/ RecoverFails(r)
        PROVE  UNCHANGED <<mc, row, op>>
    BY <1>5, <2>3, <2>5 DEF Handler, Refuse, RefuseKey, Enter, Get, RecoverKnown, RecoverAsk,
       RecoverAnswer, RecoverFails, Recheck, Route, Forward, CPutRefuse
  <2>6. UNCHANGED vars => UNCHANGED reqVars
    BY DEF vars
  <2>7. UNCHANGED <<mc, row, op>>
    BY <1>5, <2>2, <2>4, <2>5, <2>6 DEF Next, Issue, NodeBoot, NodeStart, reqVars
  <2>8. ASSUME NEW r \in Thread, NEW m \in Node, pc'[r] = "multicast"
        PROVE  row'[m] = IF mc'[r][m] = "done"
                           THEN Conduct(op'[r], row'[at'[r]]) ELSE row'[at'[r]]
    <3>1. pc[r] = "multicast" /\ at'[r] = at[r]
      BY <2>1, <2>8
    <3>2. row[m] = IF mc[r][m] = "done" THEN Conduct(op[r], row[at[r]]) ELSE row[at[r]]
      BY <3>1 DEF InStep
    <3>. QED
      BY <2>7, <3>1, <3>2
  <2>. QED
    BY <2>1, <2>7, <2>8 DEF InStep
<1>. QED
  BY <1>1, <1>2, <1>3, <1>4, <1>5 DEF Peer

LEMMA InStepInvariant == Spec => [](SelfInv /\ (Quiet => InStep))
<1> DEFINE Inv == SelfInv /\ (Quiet => InStep)
           Before == NodeInv /\ CrashStopInv /\ RowLockHeld /\ AtPrimary
<1>1. Init => Inv
  BY DEF Init, SelfInv, InStep, Untouched
<1>2. Before /\ Before' /\ Inv /\ [Next]_vars => Inv'
  BY SelfStep, QuietBefore, InStepStep
<1>3. Spec => []Before
  BY Invariants
<1>. QED
  BY <1>1, <1>2, <1>3, PTL DEF Spec

\* Until the first failure, all replicas of the row agree whenever no write is under way, whatever
\* the interleaving of handlers, multicasts and the coordinator's first election.
THEOREM ReplicasAgreeCorrect == Spec => []ReplicasAgree
<1>1. NodeInv /\ RowLockHeld /\ (Quiet => InStep) => ReplicasAgree
  <2> SUFFICES ASSUME NodeInv, RowLockHeld, InStep, Quiet, \A n \in Node : lock[n] = NoReq
               PROVE  \A m, n \in Node : row[m] = row[n]
    BY DEF ReplicasAgree, Quiet
  <2>1. \A r \in Thread : pc[r] # "multicast"
    BY ReqAssumption DEF NodeInv, Home, RowLockHeld
  <2>. QED
    BY <2>1 DEF InStep
<1>. QED
  BY <1>1, Invariants, InStepInvariant, PTL
====
