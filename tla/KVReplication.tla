---------------------------- MODULE KVReplication ----------------------------
(***************************************************************************)
(* The storage nodes of one partition (kv/KVClass.h) serving the requests  *)
(* that concern one row, on top of the membership of KVMaster.  A request  *)
(* is a client RPC; the node that gets it forwards a write to the node it  *)
(* takes for the primary, which holds its row lock while it multicasts the *)
(* write to every peer (PPut, PDelete), applies it and answers.            *)
(*                                                                         *)
(* The row itself is that of RowOps.  The log written before each change   *)
(* is the subject of KVPersist; what a client may rely on is stated by     *)
(* KVRow, which this specification implements (KVRefinement).              *)
(***************************************************************************)
EXTENDS KVMaster, RowOps, FiniteSets

CONSTANTS NoReq,                \* a free row lock
          Workload              \* what the clients may ask for: one operation a request

\* The rest of the line of the configuration that names the nodes of the partition.
Peers(n) == Node \ {n}

ASSUME ReqAssumption == NoReq \notin Thread
ASSUME WorkloadAssumption == Workload \subseteq [Thread -> Operation]

VARIABLES
  op,     \* what each request asks for
  at,     \* the node whose handler is running the request
  path,   \* the nodes whose handlers wait for the answer of a forwarded request
  pc,     \* how far the handler is
  mc,     \* progress of the write's multicast at each node
  reply,  \* status the client got, "none" before that
  lock,   \* lk_r: the request holding each node's row lock
  row,    \* tablet: the row as each node holds it
  src     \* the peer a booting node is going to copy the tablet from

reqVars == <<op, at, path, pc, mc, reply, lock, row, src>>
vars == <<memberVars, reqVars>>

Untouched == [n \in Node |-> "none"]

Init ==
  /\ MemberInit
  /\ op \in Workload
  /\ at = [r \in Thread |-> NoNode]
  /\ path = [r \in Thread |-> {}]
  /\ pc = [r \in Thread |-> "idle"]
  /\ mc = [r \in Thread |-> Untouched]
  /\ reply = [r \in Thread |-> "none"]
  /\ lock = [n \in Node |-> NoReq]
  /\ row = [n \in Node |-> EmptyRow]
  /\ src = [n \in Node |-> NoNode]

Goto(r, label) == pc' = [pc EXCEPT ![r] = label]

\* The handler returns; a client that has lost the node it called has its answer already.
Return(r, status) ==
  /\ Goto(r, "done")
  /\ reply' = [reply EXCEPT ![r] = IF @ = "none" THEN status ELSE @]

-----------------------------------------------------------------------------
\* A client sends a request to some node.
Issue(r, n) ==
  /\ pc[r] = "idle"
  /\ at' = [at EXCEPT ![r] = n]
  /\ Goto(r, "enter")
  /\ UNCHANGED <<memberVars, op, path, mc, reply, lock, row, src>>

\* Nobody listens there, or the handler finds status_serv false.
Refuse(r) ==
  /\ pc[r] = "enter" /\ ~Serving(at[r])
  /\ Return(r, "UNAVAILABLE")
  /\ UNCHANGED <<memberVars, op, at, path, mc, lock, row, src>>

\* INVALID_ARGUMENT.
RefuseKey(r) ==
  /\ pc[r] = "enter" /\ Serving(at[r])
  /\ BadKey(op[r])
  /\ Return(r, "INVALID_ARGUMENT")
  /\ UNCHANGED <<memberVars, op, at, path, mc, lock, row, src>>

\* Admitting a write with an empty column.
EnterAnyKey(r) ==
  /\ pc[r] = "enter" /\ Serving(at[r])
  /\ Goto(r, IF op[r].kind = "Get" THEN "get" ELSE "recover")
  /\ UNCHANGED <<memberVars, op, at, path, mc, reply, lock, row, src>>

Enter(r) ==
  /\ pc[r] = "enter" /\ Serving(at[r])
  /\ ~BadKey(op[r])
  /\ Goto(r, IF op[r].kind = "Get" THEN "get" ELSE "recover")
  /\ UNCHANGED <<memberVars, op, at, path, mc, reply, lock, row, src>>

\* Get reads under the row lock, at whatever node it was sent to.
Get(r) ==
  /\ pc[r] = "get" /\ lock[at[r]] = NoReq
  /\ Return(r, GetStatus(op[r], row[at[r]]))
  /\ UNCHANGED <<memberVars, op, at, path, mc, lock, row, src>>

\* recover_partition: the first of four unsynchronised reads of primary_idx in one write handler.
RecoverKnown(r) ==
  /\ pc[r] = "recover" /\ primary_idx[at[r]] # NoNode
  /\ Goto(r, "recheck")
  /\ UNCHANGED <<memberVars, op, at, path, mc, reply, lock, row, src>>

RecoverAsk(r) ==
  /\ pc[r] = "recover" /\ AskMaster(r, at[r])
  /\ Goto(r, "asked")
  /\ UNCHANGED <<op, at, path, mc, reply, lock, row, src>>

RecoverAnswer(r) ==
  /\ pc[r] = "asked"
  /\ \E p \in Node \union {NoNode} : RenewPrimary(r, at[r], p)
  /\ Goto(r, "recheck")
  /\ UNCHANGED <<op, at, path, mc, reply, lock, row, src>>

\* The coordinator cannot be reached: gRPC turns the exception into UNKNOWN.
RecoverFails(r) ==
  /\ pc[r] = "recover" /\ AskFails(at[r])
  /\ Return(r, "UNKNOWN")
  /\ UNCHANGED <<op, at, path, mc, lock, row, src>>

Recheck(r) ==
  /\ pc[r] = "recheck"
  /\ IF primary_idx[at[r]] = NoNode
       THEN Return(r, "UNAVAILABLE")
       ELSE Goto(r, "route") /\ UNCHANGED reply
  /\ UNCHANGED <<memberVars, op, at, path, mc, lock, row, src>>

\* A node that multicasts whoever the primary is.
RouteHere(r) ==
  /\ pc[r] = "route"
  /\ Goto(r, "lock")
  /\ UNCHANGED <<memberVars, op, at, path, mc, reply, lock, row, src>>

\* cond3: is this node the primary?
Route(r) ==
  /\ pc[r] = "route"
  /\ Goto(r, IF primary_idx[at[r]] = at[r] THEN "lock" ELSE "forward")
  /\ UNCHANGED <<memberVars, op, at, path, mc, reply, lock, row, src>>

\* peers[primary_idx]->Put, Delete or CPut: a node called again on the way gets a handler of its own.
Forward(r) ==
  /\ pc[r] = "forward" /\ primary_idx[at[r]] \notin {NoNode, at[r]}
  /\ path' = [path EXCEPT ![r] = @ \union {at[r]}]
  /\ at' = [at EXCEPT ![r] = primary_idx[at[r]]]
  /\ Goto(r, "enter")
  /\ UNCHANGED <<memberVars, op, mc, reply, lock, row, src>>

-----------------------------------------------------------------------------
\* The primary's critical section.

\* CPut's checks under the row lock fail.
CPutRefuse(r) ==
  LET n == at[r] IN
  /\ pc[r] = "lock" /\ lock[n] = NoReq
  /\ op[r].kind = "CPut" /\ CPutStatus(op[r], row[n]) # "OK"
  /\ Return(r, CPutStatus(op[r], row[n]))
  /\ UNCHANGED <<memberVars, op, at, path, mc, lock, row, src>>

\* A multicast that does not wait for the row lock.
MulticastUnlocked(r) ==
  LET n == at[r] IN
  /\ pc[r] = "lock"
  /\ op[r].kind = "CPut" => CPutStatus(op[r], row[n]) = "OK"
  /\ lock' = [lock EXCEPT ![n] = r]
  /\ mc' = [mc EXCEPT ![r] = [m \in Node |-> IF m \in Peers(n) THEN "sent" ELSE "self"]]
  /\ Goto(r, "multicast")
  /\ UNCHANGED <<memberVars, op, at, path, reply, row, src>>

\* A CPut that goes ahead whatever the column holds.
MulticastUnchecked(r) ==
  LET n == at[r] IN
  /\ pc[r] = "lock" /\ lock[n] = NoReq
  /\ lock' = [lock EXCEPT ![n] = r]
  /\ mc' = [mc EXCEPT ![r] = [m \in Node |-> IF m \in Peers(n) THEN "sent" ELSE "self"]]
  /\ Goto(r, "multicast")
  /\ UNCHANGED <<memberVars, op, at, path, reply, row, src>>

\* multic_p, multic_d: one thread per peer, with the row lock held.
Multicast(r) ==
  LET n == at[r] IN
  /\ pc[r] = "lock" /\ lock[n] = NoReq
  /\ op[r].kind = "CPut" => CPutStatus(op[r], row[n]) = "OK"
  /\ lock' = [lock EXCEPT ![n] = r]
  /\ mc' = [mc EXCEPT ![r] = [m \in Node |-> IF m \in Peers(n) THEN "sent" ELSE "self"]]
  /\ Goto(r, "multicast")
  /\ UNCHANGED <<memberVars, op, at, path, reply, row, src>>

\* PPut and PDelete at a peer: refused, or admitted and then waiting for the peer's row lock.
PeerAdmit(r, m) ==
  /\ mc[r][m] = "sent"
  /\ mc' = [mc EXCEPT ![r][m] = IF Serving(m) THEN "wait" ELSE "done"]
  /\ UNCHANGED <<memberVars, op, at, path, pc, reply, lock, row, src>>

PeerApply(r, m) ==
  /\ mc[r][m] = "wait" /\ lock[m] = NoReq
  /\ row' = [row EXCEPT ![m] = Conduct(op[r], @)]
  /\ mc' = [mc EXCEPT ![r][m] = "done"]
  /\ UNCHANGED <<memberVars, op, at, path, pc, reply, lock, src>>

\* The call of a primary that has died never reaches the peer.
PeerCancel(r, m) ==
  /\ mc[r][m] = "sent" /\ pc[r] = "done"
  /\ mc' = [mc EXCEPT ![r][m] = "done"]
  /\ UNCHANGED <<memberVars, op, at, path, pc, reply, lock, row, src>>

\* A primary that does not join its multicast threads.
CommitUnjoined(r) ==
  LET n == at[r] IN
  /\ pc[r] = "multicast"
  /\ row' = [row EXCEPT ![n] = Conduct(op[r], @)]
  /\ lock' = [lock EXCEPT ![n] = NoReq]
  /\ Return(r, "OK")
  /\ UNCHANGED <<memberVars, op, at, path, mc, src>>

\* A primary that keeps the row lock.
CommitLocked(r) ==
  LET n == at[r] IN
  /\ pc[r] = "multicast"
  /\ \A m \in Node : mc[r][m] \in {"self", "done"}
  /\ row' = [row EXCEPT ![n] = Conduct(op[r], @)]
  /\ Return(r, "OK")
  /\ UNCHANGED <<memberVars, op, at, path, mc, lock, src>>

\* Every thread is joined and no failure noticed (stat_vec is never written): the primary applies
\* the write itself, frees the row and answers OK.
Commit(r) ==
  LET n == at[r] IN
  /\ pc[r] = "multicast"
  /\ \A m \in Node : mc[r][m] \in {"self", "done"}
  /\ row' = [row EXCEPT ![n] = Conduct(op[r], @)]
  /\ lock' = [lock EXCEPT ![n] = NoReq]
  /\ Return(r, "OK")
  /\ UNCHANGED <<memberVars, op, at, path, mc, src>>

-----------------------------------------------------------------------------
\* Crash and restart.

\* A dying process takes its tablet, its locks and its handlers along; whoever waits for one of
\* them, client or multicast thread, gets UNAVAILABLE.
Killed(n) == {r \in Thread : at[r] = n /\ pc[r] \notin {"idle", "done"}}
Cut(n) == Killed(n) \union {r \in Thread : n \in path[r] /\ pc[r] # "done"}

Kill(n) ==
  /\ Die(n)
  /\ pc' = [r \in Thread |-> IF r \in Killed(n) THEN "done" ELSE pc[r]]
  /\ reply' = [r \in Thread |->
                 IF r \in Cut(n) /\ reply[r] = "none" THEN "UNAVAILABLE" ELSE reply[r]]
  /\ mc' = [r \in Thread |-> [mc[r] EXCEPT ![n] = IF @ \in {"sent", "wait"} THEN "done" ELSE @]]
  /\ lock' = [lock EXCEPT ![n] = NoReq]
  /\ row' = [row EXCEPT ![n] = EmptyRow]
  /\ src' = [src EXCEPT ![n] = NoNode]
  /\ UNCHANGED <<op, at, path>>

NodeCrash(n) == proc[n] # "down" /\ Kill(n)

\* primary_idx became -1 or -5 since Route read it: peers[primary_idx] is out of bounds, which
\* we take to kill the process.
WildForward(r) ==
  /\ pc[r] = "forward" /\ primary_idx[at[r]] \in {NoNode, at[r]}
  /\ Kill(at[r])

\* start_initialize: the checkpoint and the log give nothing back (see KVPersist), the first live
\* peer in the coordinator's answer is to be copied.
NodeBoot(n) ==
  LET peers == {m \in Peers(n) : alive[m]} IN
  /\ Boot(n)
  /\ src' = [src EXCEPT ![n] =
       IF primary_idx'[n] # NoNode /\ peers # {} THEN FirstOf(peers) ELSE NoNode]
  /\ UNCHANGED <<op, at, path, pc, mc, reply, lock, row>>

\* peer_to_syn_tab with the peer's TabletSync; a failure is only logged.
Sync(n) ==
  /\ proc[n] = "boot" /\ src[n] # NoNode
  /\ row' = [row EXCEPT ![n] = IF Serving(src[n]) THEN row[src[n]] ELSE @]
  /\ src' = [src EXCEPT ![n] = NoNode]
  /\ UNCHANGED <<memberVars, op, at, path, pc, mc, reply, lock>>

NodeStart(n) == src[n] = NoNode /\ StartServer(n) /\ UNCHANGED reqVars

-----------------------------------------------------------------------------
Handler(r) ==
  \/ Refuse(r) \/ RefuseKey(r) \/ Enter(r) \/ Get(r)
  \/ RecoverKnown(r) \/ RecoverAsk(r) \/ RecoverAnswer(r) \/ Recheck(r)
  \/ Route(r) \/ Forward(r) \/ WildForward(r)
  \/ CPutRefuse(r) \/ Multicast(r) \/ Commit(r)

Peer(r, m) == PeerAdmit(r, m) \/ PeerApply(r, m)

Next ==
  \/ Coordinator /\ UNCHANGED reqVars
  \/ Environment /\ UNCHANGED reqVars
  \/ \E r \in Thread, n \in Node : Issue(r, n)
  \/ \E r \in Thread : Handler(r) \/ RecoverFails(r)
  \/ \E r \in Thread, m \in Node : Peer(r, m) \/ PeerCancel(r, m)
  \/ \E n \in Node : NodeCrash(n) \/ NodeBoot(n) \/ Sync(n) \/ NodeStart(n)

Spec == Init /\ [][Next]_vars

\* Every gRPC handler has a thread of its own that keeps running, and the coordinator's loop too.
FairSpec ==
  /\ Spec
  /\ \A r \in Thread : WF_vars(Handler(r))
  /\ \A r \in Thread, m \in Node : WF_vars(Peer(r, m))
  /\ WF_vars(CoordinatorLoop /\ UNCHANGED reqVars)

-----------------------------------------------------------------------------
PcLabel == {"idle", "enter", "get", "recover", "asked", "recheck", "route", "forward",
            "lock", "multicast", "done"}
StatusCode == {"none", "OK", "UNAVAILABLE", "INVALID_ARGUMENT", "NOT_FOUND",
               "FAILED_PRECONDITION", "UNKNOWN"}

TypeOK ==
  /\ MemberTypeOK
  /\ op \in [Thread -> Operation]
  /\ at \in [Thread -> Node \union {NoNode}]
  /\ path \in [Thread -> SUBSET Node]
  /\ pc \in [Thread -> PcLabel]
  /\ mc \in [Thread -> [Node -> {"none", "self", "sent", "wait", "done"}]]
  /\ reply \in [Thread -> StatusCode]
  /\ lock \in [Node -> Thread \union {NoReq}]
  /\ row \in [Node -> [Key -> Value \union {Absent}]]
  /\ src \in [Node -> Node \union {NoNode}]

\* A request has started to write once its multicast has begun.
Started(r) == \E m \in Node : mc[r][m] # "none"

\* Whatever fails, a value a replica holds under a non-empty column was written by a Put or CPut
\* that passed its checks, and a request that was refused (bad argument, CPut mismatch, unknown
\* primary) has left no trace at any replica.
OnlyAccepted ==
  /\ \A n \in Node, c \in Key :
       row[n][c] # Absent =>
         /\ c # EmptyKey
         /\ \E r \in Thread :
              /\ Started(r) /\ op[r].kind \in {"Put", "CPut"}
              /\ op[r].col = c /\ op[r].v2 = row[n][c]
  /\ \A r \in Thread :
       reply[r] \in {"INVALID_ARGUMENT", "NOT_FOUND", "FAILED_PRECONDITION", "UNKNOWN"} =>
         ~Started(r)

\* Each node's row lock is held by the one request that is multicasting there: two handlers of a
\* node never multicast the row at the same time, and no lock outlives its request.
RowLockHeld ==
  \A n \in Node, r \in Thread : lock[n] = r <=> pc[r] = "multicast" /\ at[r] = n

\* While nodes only crash, and stay down, one write of the row is multicast at a time in the
\* whole partition: two primaries never wait for each other's row lock.
WriteMutex ==
  faults = 0 =>
    \A r, s \in Thread : pc[r] = "multicast" /\ pc[s] = "multicast" => r = s

\* As long as nothing has failed, all replicas hold the same row whenever no write is under way: a
\* write is answered only when every peer has it (multic_p, multic_d).
ReplicasAgree ==
  (faults = 0 /\ \A n \in Node : proc[n] = "up" /\ lock[n] = NoReq) =>
    \A m, n \in Node : row[m] = row[n]

\* CPut loses no update while nothing has failed: as many writes have put a value into a column as
\* CPuts have succeeded in replacing it by another, so of two clients that replace the same value
\* one is refused.
NoLostUpdate ==
  (faults = 0 /\ \A n \in Node : proc[n] = "up") =>
    \A c \in Key, v \in Value :
      Cardinality({r \in Thread : reply[r] = "OK" /\ Replaces(op[r], c, v)})
        <= Cardinality({r \in Thread : Started(r) /\ Puts(op[r], c, v)})

\* While nodes only crash, and stay down, every request is answered: no handler waits for ever for
\* a row lock, a peer or the coordinator, or is forwarded round and round.
AllAnswered == \A r \in Thread : pc[r] = "enter" ~> reply[r] # "none"
====
