--------------------------- MODULE KVMasterProofs ---------------------------
(***************************************************************************)
(* Proofs about KVMaster, for any number of nodes, threads and faults.     *)
(***************************************************************************)
EXTENDS KVMaster, WellFoundedInduction, TLAPS

\* The election's scan of the nodes in configuration order (do_healthcheck) finds a member of every
\* non-empty set of nodes.
LEMMA FirstOfType ==
  ASSUME NEW S \in SUBSET Node, S # {}
  PROVE  FirstOf(S) \in S
<1> DEFINE R == {p \in Nat \X Nat : p[1] < p[2]}
<1>1. IsWellFoundedOn(R, Nat)
  <2>1. OpToRel(<, Nat) = R
    BY DEF OpToRel
  <2>. QED
    BY <2>1, NatLessThanWellFounded
<1>2. S \subseteq Nat
  BY NAssumption DEF Node
<1> HIDE DEF R
<1>3. PICK n \in S : \A m \in S : <<m, n>> \notin R
  BY <1>1, <1>2, WFMin, Zenon
<1>4. ASSUME NEW m \in S
      PROVE  n <= m
  <2>1. m \in Nat /\ n \in Nat
    BY <1>2
  <2>2. ~(m < n)
    BY <1>3, <2>1 DEF R
  <2>. QED
    BY <2>1, <2>2
<1>. QED
  BY <1>4 DEF FirstOf

-----------------------------------------------------------------------------
\* The types, and that an update round announces a primary.
TypeInv == MemberTypeOK /\ (phase = "update" => primary \in Node)

\* Every step keeps the types.
LEMMA TypeInvStep == TypeInv /\ [MemberNext]_memberVars => TypeInv'
<1> SUFFICES ASSUME TypeInv, [MemberNext]_memberVars
             PROVE  TypeInv'
  OBVIOUS
<1>. USE DEF TypeInv, MemberTypeOK
<1>1. ASSUME NEW n \in Node, CheckNode(n)
      PROVE  TypeInv'
  BY <1>1 DEF CheckNode, Serving
<1>2. ASSUME NEW n \in Node, CheckTimeout(n)
      PROVE  TypeInv'
  BY <1>2 DEF CheckTimeout, Fault
<1>3. CASE KeepPrimary
  BY <1>3 DEF KeepPrimary, Checked
<1>4. CASE ElectPrimary
  <2>1. primary' \in Node
    BY <1>4, FirstOfType DEF ElectPrimary
  <2>. QED
    BY <1>4, <2>1 DEF ElectPrimary
<1>5. CASE NoPrimary
  BY <1>5 DEF NoPrimary, Checked
<1>6. ASSUME NEW n \in Node, UpdateNode(n)
      PROVE  TypeInv'
  BY <1>6 DEF UpdateNode, PrimaryUpdate
<1>7. ASSUME NEW n \in Node, UpdateTimeout(n)
      PROVE  TypeInv'
  BY <1>7 DEF UpdateTimeout, Fault
<1>8. ASSUME NEW n \in Node, NEW p \in Node, LateUpdate(n, p)
      PROVE  TypeInv'
  BY <1>8 DEF LateUpdate, PrimaryUpdate
<1>9. CASE FinishRound
  BY <1>9 DEF FinishRound
<1>10. ASSUME NEW n \in Node, AdminShutdown(n)
       PROVE  TypeInv'
  BY <1>10 DEF AdminShutdown, Fault
<1>11. ASSUME NEW n \in Node, AdminStartup(n)
       PROVE  TypeInv'
  BY <1>11 DEF AdminStartup
<1>12. ASSUME NEW n \in Node, Crash(n)
       PROVE  TypeInv'
  BY <1>12 DEF Crash, Die
<1>13. ASSUME NEW n \in Node, Boot(n)
       PROVE  TypeInv'
  BY <1>13 DEF Boot, Fault
<1>14. ASSUME NEW n \in Node, StartServer(n)
       PROVE  TypeInv'
  BY <1>14 DEF StartServer
<1>15. ASSUME NEW t \in Thread, NEW n \in Node, AskMaster(t, n)
       PROVE  TypeInv'
  BY <1>15 DEF AskMaster
<1>16. ASSUME NEW t \in Thread, NEW n \in Node, NEW p \in Node \union {NoNode},
              RenewPrimary(t, n, p)
       PROVE  TypeInv'
  BY <1>16 DEF RenewPrimary
<1>17. ASSUME NEW n \in Node, AskFails(n)
       PROVE  TypeInv'
  BY <1>17 DEF AskFails, Fault
<1>18. CASE UNCHANGED memberVars
  BY <1>18 DEF memberVars
<1>. QED
  BY <1>1, <1>2, <1>3, <1>4, <1>5, <1>6, <1>7, <1>8, <1>9, <1>10, <1>11, <1>12, <1>13,
     <1>14, <1>15, <1>16, <1>17, <1>18
  DEF MemberNext, Coordinator, Environment

\* Every value MemberTypeOK names stays of its type, for any number of nodes: the coordinator's
\* index of the primary is always that of a configured node (do_healthcheck).
THEOREM MemberTypeCorrect == MemberSpec => []MemberTypeOK
<1>1. MemberInit => TypeInv
  BY DEF MemberInit, TypeInv, MemberTypeOK
<1>2. TypeInv /\ [MemberNext]_memberVars => TypeInv'
  BY TypeInvStep
<1>3. TypeInv => MemberTypeOK
  BY DEF TypeInv
<1>. QED
  BY <1>1, <1>2, <1>3, PTL DEF MemberSpec

-----------------------------------------------------------------------------
\* Crash-stop: no process restarts, none is shut down, no update is late.
CrashStop == late = {} /\ \A n \in Node : status_serv[n] /\ proc[n] # "boot"

\* What the coordinator has checked of a running node this round, it knows to be alive.
Known ==
  \A n \in Node : proc[n] = "up" /\ (phase = "update" \/ n \notin todo) => alive[n]

\* p is not a node that could still answer, unless the coordinator elected it.
Harmless(p) == p = NoNode \/ p = primary \/ proc[p] = "down"

\* Nodes believe, and answers under way say, nothing worse than that a dead node is the primary.
Beliefs ==
  /\ \A n \in Node : proc[n] = "up" => Harmless(primary_idx[n])
  /\ \A t \in Thread, n \in Node, p \in Node \union {NoNode} :
       <<t, n, p>> \in answers => Harmless(p)

CrashStopInv == faults = 0 => CrashStop /\ Known /\ Beliefs

\* A step after which no fault has happened is not a fault, and none had happened before it.
LEMMA FaultsGrow ==
  ASSUME TypeInv, [MemberNext]_memberVars, faults' = 0
  PROVE  faults = 0 /\ ~Fault
<1>1. faults \in Nat
  BY DEF TypeInv, MemberTypeOK
<1>2. ~Fault
  BY <1>1 DEF Fault
<1>. QED
  BY <1>2 DEF MemberNext, Coordinator, Environment, CheckNode, CheckTimeout, KeepPrimary,
    ElectPrimary, NoPrimary, UpdateNode, UpdateTimeout, LateUpdate, FinishRound, AdminShutdown,
    AdminStartup, Crash, Die, Boot, StartServer, AskMaster, AskFails, RenewPrimary, memberVars

\* Membership under crash-stop failures: the coordinator gives up a primary only when it has
\* crashed, so everything learnt earlier about the primary is about a crashed node.
THEOREM MembershipInvariant == MemberSpec => [](TypeInv /\ CrashStopInv)
<1>1. MemberInit => TypeInv /\ CrashStopInv
  BY DEF MemberInit, TypeInv, MemberTypeOK, CrashStopInv, CrashStop, Known, Beliefs, Harmless
<1>2. TypeInv /\ TypeInv' /\ CrashStopInv /\ [MemberNext]_memberVars => CrashStopInv'
  <2> SUFFICES ASSUME TypeInv, TypeInv', CrashStopInv, [MemberNext]_memberVars, faults' = 0
               PROVE  (CrashStop /\ Known /\ Beliefs)'
    BY DEF CrashStopInv
  <2>0. /\ faults = 0
        /\ CrashStop /\ Known /\ Beliefs
        /\ ~Fault
    BY FaultsGrow DEF CrashStopInv
  <2>. USE DEF CrashStop, Known, Beliefs, Harmless, TypeInv, MemberTypeOK, NoNode
  <2>1. ASSUME NEW n \in Node, CheckNode(n)
        PROVE  (CrashStop /\ Known /\ Beliefs)'
    BY <2>0, <2>1 DEF CheckNode, Serving
  <2>2. ASSUME KeepPrimary \/ FinishRound
        PROVE  (CrashStop /\ Known /\ Beliefs)'
    BY <2>0, <2>2 DEF KeepPrimary, FinishRound, Checked
  <2>3. ASSUME ElectPrimary \/ NoPrimary
        PROVE  (CrashStop /\ Known /\ Beliefs)'
    <3>1. primary = NoNode \/ proc[primary] = "down"
      BY <2>0, <2>3 DEF ElectPrimary, NoPrimary, Checked, PrimaryAlive
    <3>. QED
      BY <2>0, <2>3, <3>1 DEF ElectPrimary, NoPrimary, Checked
  <2>4. ASSUME NEW n \in Node, UpdateNode(n)
        PROVE  (CrashStop /\ Known /\ Beliefs)'
    BY <2>0, <2>4 DEF UpdateNode, PrimaryUpdate
  <2>5. ASSUME NEW n \in Node, NEW p \in Node, LateUpdate(n, p)
        PROVE  (CrashStop /\ Known /\ Beliefs)'
    BY <2>0, <2>5 DEF LateUpdate
  <2>6. ASSUME NEW n \in Node, Crash(n)
        PROVE  (CrashStop /\ Known /\ Beliefs)'
    <3>1. CrashStop' /\ Known'
      BY <2>0, <2>6 DEF Crash, Die
    <3>2. ASSUME NEW p \in Node \union {NoNode}, Harmless(p)
          PROVE  Harmless(p)'
      BY <2>6, <3>2 DEF Crash, Die
    <3>. QED
      BY <2>0, <2>6, <3>1, <3>2 DEF Crash, Die
  <2>7. ASSUME NEW n \in Node, AdminStartup(n) \/ StartServer(n)
        PROVE  (CrashStop /\ Known /\ Beliefs)'
    BY <2>0, <2>7 DEF AdminStartup, StartServer
  <2>8. ASSUME NEW t \in Thread, NEW n \in Node, AskMaster(t, n)
        PROVE  (CrashStop /\ Known /\ Beliefs)'
    BY <2>0, <2>8 DEF AskMaster
  <2>9. ASSUME NEW t \in Thread, NEW n \in Node, NEW p \in Node \union {NoNode},
               RenewPrimary(t, n, p)
        PROVE  (CrashStop /\ Known /\ Beliefs)'
    BY <2>0, <2>9 DEF RenewPrimary
  <2>10. CASE UNCHANGED memberVars
    BY <2>0, <2>10 DEF memberVars
  <2>. QED
    BY <2>0, <2>1, <2>2, <2>3, <2>4, <2>5, <2>6, <2>7, <2>8, <2>9, <2>10
    DEF MemberNext, Coordinator, Environment, CheckTimeout, UpdateTimeout, AdminShutdown, Boot,
       AskFails
<1>3. TypeInv /\ [MemberNext]_memberVars => TypeInv'
  BY TypeInvStep
<1>. QED
  BY <1>1, <1>2, <1>3, PTL DEF MemberSpec

\* At most one running node takes itself for the primary, and it is the coordinator's.
THEOREM SinglePrimaryCorrect == MemberSpec => []SinglePrimary
<1>1. TypeInv /\ CrashStopInv => SinglePrimary
  BY DEF TypeInv, MemberTypeOK, CrashStopInv, Beliefs, Harmless, SinglePrimary, NoNode, Node
<1>. QED
  BY <1>1, MembershipInvariant, PTL

\* A write is forwarded to the coordinator's primary or to a dead node, never to another live one.
THEOREM NoStrayForwardCorrect == MemberSpec => []NoStrayForward
<1>1. TypeInv /\ CrashStopInv => NoStrayForward
  BY DEF TypeInv, MemberTypeOK, CrashStopInv, Beliefs, Harmless, NoStrayForward
<1>. QED
  BY <1>1, MembershipInvariant, PTL
====
