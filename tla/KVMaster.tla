------------------------------ MODULE KVMaster ------------------------------
(***************************************************************************)
(* Membership of one partition of the key-value store: the coordinator's   *)
(* health-check loop (kv_coordinator.h, storage_client_coordinator.h) and  *)
(* the part of a storage node (kv/KVClass.h) that decides which node it    *)
(* takes for the primary.  Nodes are numbered in the order of the          *)
(* coordinator's configuration, which is the order the election scans.     *)
(*                                                                         *)
(* Nodes may crash and stay down.  Anything else the environment does is   *)
(* counted in `faults': an RPC that misses its 100 ms deadline, the        *)
(* restart of a crashed process, a coordinator that cannot be reached, an  *)
(* admin shutdown of a node.                                               *)
(***************************************************************************)
EXTENDS Naturals

CONSTANTS N,            \* number of storage nodes of the partition
          Thread,       \* handler threads that may ask the coordinator
          MaxFaults     \* bound on `faults'

ASSUME NAssumption == N \in Nat \ {0}
ASSUME BoundsAssumption == MaxFaults \in Nat

Node == 1..N
\* The code's -1 (coordinator), "" (RPC) and UK_STATUS (node): no primary.
NoNode == 0

VARIABLES
  alive,        \* MasterNodeView::alive
  primary,      \* MasterPartitionView::primary_idx
  phase,        \* where the coordinator's loop is: "check" or "update"
  todo,         \* nodes whose RPC of this phase the coordinator has not joined
  proc,         \* state of each node's process: "down", "boot" or "up"
  status_serv,  \* KVClass::status_serv
  primary_idx,  \* KVClass::primary_idx; the node itself stands for M_STATUS
  late,         \* PrimaryUpdates whose deadline passed before the node ran them
  answers,      \* GetPartitionPrimary answers a thread has not yet applied
  faults        \* history: how often the environment broke the crash-stop assumption

masterVars == <<alive, primary, phase, todo, late>>
memberVars == <<alive, primary, phase, todo, proc, status_serv, primary_idx,
                late, answers, faults>>

\* A node that answers RPCs and has not been shut down by the admin.
Serving(n) == proc[n] = "up" /\ status_serv[n]

FirstOf(S) == CHOOSE n \in S : \A m \in S : n <= m

Fault == faults < MaxFaults /\ faults' = faults + 1

\* Every process was started before the coordinator elected anybody: start_initialize found no
\* primary, so primary_idx is UK_STATUS.
MemberInit ==
  /\ alive = [n \in Node |-> FALSE]
  /\ primary = NoNode
  /\ phase = "check"
  /\ todo = Node
  /\ proc = [n \in Node |-> "up"]
  /\ status_serv = [n \in Node |-> TRUE]
  /\ primary_idx = [n \in Node |-> NoNode]
  /\ late = {}
  /\ answers = {}
  /\ faults = 0

-----------------------------------------------------------------------------
\* The coordinator's loop.

\* A health check that always reports success.
CheckNodeBlind(n) ==
  /\ phase = "check" /\ n \in todo
  /\ alive' = [alive EXCEPT ![n] = TRUE]
  /\ todo' = todo \ {n}
  /\ UNCHANGED <<primary, phase, proc, status_serv, primary_idx, late, answers,
                 faults>>

\* _checknodehealth, with the node's HealthCheck handler behind it.
CheckNode(n) ==
  /\ phase = "check" /\ n \in todo
  /\ alive' = [alive EXCEPT ![n] = Serving(n)]
  /\ todo' = todo \ {n}
  /\ UNCHANGED <<primary, phase, proc, status_serv, primary_idx, late, answers,
                 faults>>

\* The node would have answered, but not within the deadline.
CheckTimeout(n) ==
  /\ phase = "check" /\ n \in todo /\ Serving(n)
  /\ Fault
  /\ alive' = [alive EXCEPT ![n] = FALSE]
  /\ todo' = todo \ {n}
  /\ UNCHANGED <<primary, phase, proc, status_serv, primary_idx, late, answers>>

Checked == phase = "check" /\ todo = {}

\* do_healthcheck's condd; nodes[-1].alive is read but does not matter when there is no primary.
PrimaryAlive == primary # NoNode /\ alive[primary]

\* do_healthcheck finds the primary alive and goes to sleep until the next round.
KeepPrimary ==
  /\ Checked
  /\ PrimaryAlive
  /\ todo' = Node
  /\ UNCHANGED <<alive, primary, phase, proc, status_serv, primary_idx, late,
                 answers, faults>>

\* An election that does not first look at the primary it has.
ElectAnyway ==
  /\ Checked
  /\ \E n \in Node : alive[n] /\ primary' = n
  /\ phase' = "update"
  /\ todo' = Node
  /\ UNCHANGED <<alive, proc, status_serv, primary_idx, late, answers, faults>>

\* An election that stores the number of the next node.
ElectNext ==
  /\ Checked
  /\ ~PrimaryAlive
  /\ \E n \in Node : alive[n]
  /\ primary' = FirstOf({n \in Node : alive[n]}) + 1
  /\ phase' = "update"
  /\ todo' = Node
  /\ UNCHANGED <<alive, proc, status_serv, primary_idx, late, answers, faults>>

\* The first live node of the configuration becomes the primary and everybody is told.
ElectPrimary ==
  /\ Checked
  /\ ~PrimaryAlive
  /\ \E n \in Node : alive[n]
  /\ primary' = FirstOf({n \in Node : alive[n]})
  /\ phase' = "update"
  /\ todo' = Node
  /\ UNCHANGED <<alive, proc, status_serv, primary_idx, late, answers, faults>>

\* Nobody is alive: no primary, and nobody is told.
NoPrimary ==
  /\ Checked
  /\ ~PrimaryAlive
  /\ \A n \in Node : ~alive[n]
  /\ primary' = NoNode
  /\ todo' = Node
  /\ UNCHANGED <<alive, phase, proc, status_serv, primary_idx, late, answers,
                 faults>>

\* The PrimaryUpdate handler (renew_idx_for_pm): refused by a node that is shut down.
PrimaryUpdate(n, p) ==
  primary_idx' = [primary_idx EXCEPT ![n] = IF Serving(n) THEN p ELSE @]

\* _pm_renewal of one node; its outcome is only logged.
UpdateNode(n) ==
  /\ phase = "update" /\ n \in todo
  /\ PrimaryUpdate(n, primary)
  /\ todo' = todo \ {n}
  /\ UNCHANGED <<alive, primary, phase, proc, status_serv, late, answers, faults>>

\* _pm_renewal gives up after 100 ms: the call was lost, or the handler still runs later.
UpdateTimeout(n) ==
  /\ phase = "update" /\ n \in todo
  /\ Fault
  /\ late' \in {late, late \union {<<n, primary>>}}
  /\ todo' = todo \ {n}
  /\ UNCHANGED <<alive, primary, phase, proc, status_serv, primary_idx, answers>>

LateUpdate(n, p) ==
  /\ <<n, p>> \in late
  /\ PrimaryUpdate(n, p)
  /\ late' = late \ {<<n, p>>}
  /\ UNCHANGED <<alive, primary, phase, todo, proc, status_serv, answers, faults>>

\* All update threads are joined; sleep until the next round.
FinishRound ==
  /\ phase = "update" /\ todo = {}
  /\ phase' = "check"
  /\ todo' = Node
  /\ UNCHANGED <<alive, primary, proc, status_serv, primary_idx, late, answers,
                 faults>>

-----------------------------------------------------------------------------
\* What a storage node does about its primary.

\* recover_partition -> pm_renewal: a handler that finds primary_idx unknown calls
\* GetPartitionPrimary, which reads primary_idx without a lock, and waits for the answer.
AskMaster(t, n) ==
  /\ proc[n] = "up" /\ primary_idx[n] = NoNode
  /\ \A a \in answers : a[1] # t
  /\ answers' = answers \union {<<t, n, primary>>}
  /\ UNCHANGED <<alive, primary, phase, todo, proc, status_serv, primary_idx, late,
                 faults>>

\* The coordinator cannot be reached: pm_renewal throws and the handler fails.
AskFails(n) ==
  /\ proc[n] = "up" /\ primary_idx[n] = NoNode
  /\ Fault
  /\ UNCHANGED <<alive, primary, phase, todo, proc, status_serv, primary_idx, late,
                 answers>>

\* The answer arrives: renew_idx_for_pm, whatever was learnt in between.
RenewPrimary(t, n, p) ==
  /\ <<t, n, p>> \in answers
  /\ primary_idx' = [primary_idx EXCEPT ![n] = p]
  /\ answers' = answers \ {<<t, n, p>>}
  /\ UNCHANGED <<alive, primary, phase, todo, proc, status_serv, late, faults>>

\* AdminShutdown and AdminStartup flip status_serv and do nothing else.
AdminShutdown(n) ==
  /\ Serving(n)
  /\ Fault
  /\ status_serv' = [status_serv EXCEPT ![n] = FALSE]
  /\ UNCHANGED <<alive, primary, phase, todo, proc, primary_idx, late, answers>>

AdminStartup(n) ==
  /\ proc[n] = "up" /\ ~status_serv[n]
  /\ status_serv' = [status_serv EXCEPT ![n] = TRUE]
  /\ UNCHANGED <<alive, primary, phase, todo, proc, primary_idx, late, answers,
                 faults>>

\* The process dies, and with it its threads and what they were about to do.
Die(n) ==
  /\ proc' = [proc EXCEPT ![n] = "down"]
  /\ late' = {u \in late : u[1] # n}
  /\ answers' = {a \in answers : a[2] # n}
  /\ UNCHANGED <<alive, primary, phase, todo, status_serv, primary_idx, faults>>

Crash(n) ==
  /\ proc[n] # "down"
  /\ Die(n)

\* A crashed process starts again: start_initialize asks the coordinator for the primary, and
\* goes on without one if the coordinator does not answer ...
Boot(n) ==
  /\ proc[n] = "down"
  /\ Fault
  /\ proc' = [proc EXCEPT ![n] = "boot"]
  /\ status_serv' = [status_serv EXCEPT ![n] = TRUE]
  /\ \E p \in {primary, NoNode} : primary_idx' = [primary_idx EXCEPT ![n] = p]
  /\ UNCHANGED <<alive, primary, phase, todo, late, answers>>

\* ... and only later does main start the RPC server.
StartServer(n) ==
  /\ proc[n] = "boot"
  /\ proc' = [proc EXCEPT ![n] = "up"]
  /\ UNCHANGED <<alive, primary, phase, todo, status_serv, primary_idx, late,
                 answers, faults>>

-----------------------------------------------------------------------------
Coordinator ==
  \/ \E n \in Node : CheckNode(n) \/ CheckTimeout(n)
  \/ KeepPrimary \/ ElectPrimary \/ NoPrimary
  \/ \E n \in Node : UpdateNode(n) \/ UpdateTimeout(n)
  \/ \E n \in Node, p \in Node : LateUpdate(n, p)
  \/ FinishRound

Environment == \E n \in Node : AdminShutdown(n) \/ AdminStartup(n)

MemberNext ==
  \/ Coordinator
  \/ Environment
  \/ \E n \in Node : Crash(n) \/ Boot(n) \/ StartServer(n) \/ AskFails(n)
  \/ \E t \in Thread, n \in Node : AskMaster(t, n)
  \/ \E t \in Thread, n \in Node, p \in Node \union {NoNode} : RenewPrimary(t, n, p)

MemberSpec == MemberInit /\ [][MemberNext]_memberVars

\* The coordinator's thread runs for ever (healthcheck_each_second), and every RPC it waits for
\* ends within its deadline.  Nothing is assumed of the nodes or of the environment.
CoordinatorLoop ==
  \/ \E n \in Node : CheckNode(n) \/ UpdateNode(n)
  \/ KeepPrimary \/ ElectPrimary \/ NoPrimary \/ FinishRound

FairMemberSpec == MemberSpec /\ WF_memberVars(CoordinatorLoop)

-----------------------------------------------------------------------------
\* The types of the state; an elected primary is a node of the partition, so that indexing nodes
\* with primary_idx (do_healthcheck, GetPartitionPrimary) stays in bounds.
MemberTypeOK ==
  /\ alive \in [Node -> BOOLEAN]
  /\ primary \in Node \union {NoNode}
  /\ phase \in {"check", "update"}
  /\ todo \in SUBSET Node
  /\ proc \in [Node -> {"down", "boot", "up"}]
  /\ status_serv \in [Node -> BOOLEAN]
  /\ primary_idx \in [Node -> Node \union {NoNode}]
  /\ late \in SUBSET (Node \X Node)
  /\ answers \in SUBSET (Thread \X Node \X (Node \union {NoNode}))
  /\ faults \in Nat

\* While nodes only crash, and stay down, a running node whose primary_idx says it is the primary
\* is the one the coordinator elected: stale PrimaryUpdates and GetPartitionPrimary answers never
\* leave a second primary behind (renew_idx_for_pm, do_healthcheck).
SinglePrimary ==
  faults = 0 =>
    \A n \in Node : proc[n] = "up" /\ primary_idx[n] = n => primary = n

\* While nodes only crash, and stay down, a running node knows no primary, or the coordinator's, or
\* one that is dead: a Put is never forwarded to a live node that is not the primary, so
\* forwarding (KVClass::Put, Delete, CPut) cannot go round in a circle.
NoStrayForward ==
  faults = 0 =>
    \A n \in Node :
      proc[n] = "up" =>
        \/ primary_idx[n] \in {NoNode, primary}
        \/ proc[primary_idx[n]] = "down"

\* Whatever has failed, the coordinator ends up with a serving primary if any node goes on serving:
\* its loop replaces a primary that is dead or shut down (do_healthcheck).
FailoverCompletes ==
  <>[]((\E n \in Node : Serving(n)) => primary # NoNode /\ Serving(primary))
====
