-------------------------- MODULE KVRefinementProofs --------------------------
(***************************************************************************)
(* KVReplication implements KVRow, for any number of nodes, requests,      *)
(* columns and values, when processes only crash and stay down.            *)
(***************************************************************************)
EXTENDS KVRefinement, KVReplicationProofs

OpenLabel == {"enter", "get", "recover", "asked", "recheck", "route", "forward", "lock"}

\* A request that has not been sent has come through no node; only a Get reads.
Entered ==
  \A r \in Thread : (pc[r] = "idle" => path[r] = {}) /\ (pc[r] = "get" => op[r].kind = "Get")

\* What holds of every state as long as processes only crash and stay down.
Sound ==
  /\ NodeInv /\ RowLockHeld /\ AtPrimary /\ AcceptInv /\ SelfInv /\ Entered
  /\ faults = 0 /\ CrashStopInv
  /\ Quiet => InStep

\* How a handler's progress appears to the client.
LEMMA PhaseFacts ==
  ASSUME NodeInv, Checks
  PROVE  /\ \A r \in Thread : PhaseOf(r) = "idle" <=> pc[r] = "idle"
         /\ \A r \in Thread : PhaseOf(r) = "open" <=> pc[r] \in OpenLabel
         /\ \A r \in Thread : PhaseOf(r) = "writing" <=> pc[r] = "multicast"
         /\ \A r \in Thread : PhaseOf(r) = "late" <=>
              pc[r] = "done" /\ \E m \in Node : mc[r][m] \in {"sent", "wait"}
         /\ \A r \in Thread : PhaseOf(r) = "done" <=>
              pc[r] = "done" /\ \A m \in Node : mc[r][m] \notin {"sent", "wait"}
BY DEF NodeInv, TypeOK, PcLabel, PhaseOf, OpenLabel

\* A step that changes nothing a client could tell.
LEMMA Silent ==
  ASSUME UNCHANGED <<op, mc, row, reply, proc>>,
         \A r \in Thread : PhaseOf(r)' = PhaseOf(r)
  PROVE  UNCHANGED Row!rowVars
<1>1. Running' = Running
  BY DEF Running
<1>2. Versions' = Versions /\ Whole' = Whole /\ Begun' = Begun
  BY <1>1 DEF Versions, Whole, Begun, Started
<1>3. Phases' = Phases
  BY DEF Phases
<1>. QED
  BY <1>2, <1>3 DEF Row!rowVars

\* A handler goes on, with nothing to show for it.
LEMMA GoOn ==
  ASSUME NEW r \in Thread, NodeInv,
         UNCHANGED <<op, mc, row, reply, proc>>,
         NEW label \in OpenLabel, pc[r] \in OpenLabel, pc' = [pc EXCEPT ![r] = label]
  PROVE  UNCHANGED Row!rowVars
<1>1. \A q \in Thread : PhaseOf(q)' = PhaseOf(q)
  <2> SUFFICES ASSUME NEW q \in Thread
               PROVE  PhaseOf(q)' = PhaseOf(q)
    OBVIOUS
  <2>1. CASE q = r
    BY <2>1 DEF PhaseOf, OpenLabel, NodeInv, TypeOK
  <2>2. CASE q # r
    BY <2>2 DEF PhaseOf, NodeInv, TypeOK
  <2>. QED
    BY <2>1, <2>2
<1>. QED
  BY <1>1, Silent

\* A handler that has not begun to write returns.
LEMMA EndOpen ==
  ASSUME NEW r \in Thread, NodeInv, Checks, NEW status,
         UNCHANGED <<op, mc, row, proc>>,
         pc[r] \in OpenLabel, Return(r, status)
  PROVE  /\ Phases[r] = "open"
         /\ Row!Answer(r, status)
         /\ UNCHANGED <<op, Versions, Begun, Whole>>
<1>1. UNCHANGED <<Versions, Begun, Whole>>
  BY DEF Running, Versions, Whole, Begun, Started
<1>2. Phases[r] = "open"
  BY PhaseFacts DEF Phases
<1>3. \A m \in Node : mc[r][m] = "none"
  BY DEF Checks, Started, OpenLabel
<1>4. \A q \in Thread : PhaseOf(q)' = IF q = r THEN "done" ELSE PhaseOf(q)
  <2> SUFFICES ASSUME NEW q \in Thread
               PROVE  PhaseOf(q)' = IF q = r THEN "done" ELSE PhaseOf(q)
    OBVIOUS
  <2>1. CASE q = r
    BY <1>3, <2>1 DEF PhaseOf, NodeInv, TypeOK, Return, Goto
  <2>2. CASE q # r
    BY <2>2 DEF PhaseOf, NodeInv, TypeOK, Return, Goto
  <2>. QED
    BY <2>1, <2>2
<1>5. Phases' = [Phases EXCEPT ![r] = "done"]
  BY <1>4 DEF Phases
<1>. QED
  BY <1>1, <1>2, <1>5 DEF Row!Answer, Return

\* The primary with its row free: nobody writes.
LEMMA NoWriter ==
  ASSUME Sound, NEW r \in Thread, pc[r] = "lock", lock[at[r]] = NoReq
  PROVE  \A q \in Thread : Phases[q] # "writing"
<1>1. at[r] \in Node
  BY DEF Sound, NodeInv, Home
<1>2. \A q \in Thread : pc[q] # "multicast"
  BY <1>1, ReqAssumption DEF Sound, RowLockHeld, AtPrimary
<1>. QED
  BY <1>2, PhaseFacts DEF Sound, AcceptInv, Phases

-----------------------------------------------------------------------------
\* Requests that are refused, answered from a replica, or going on.
LEMMA HandlerStep ==
  ASSUME Sound, NEW r \in Thread,
         \/ Refuse(r) \/ RefuseKey(r) \/ Enter(r) \/ Get(r) \/ RecoverKnown(r)
         \/ RecoverAsk(r) \/ RecoverAnswer(r) \/ Recheck(r) \/ Route(r)
         \/ Forward(r) \/ CPutRefuse(r)
  PROVE  [Row!RowNext]_(Row!rowVars)
<1>. USE DEF Sound, AcceptInv
<1>1. ASSUME pc[r] \in OpenLabel, Return(r, "UNAVAILABLE"),
             UNCHANGED <<op, mc, row, proc>>
      PROVE  Row!Fail(r)
  BY <1>1, EndOpen DEF Row!Fail
<1>2. CASE Refuse(r)
  <2>1. Row!Fail(r)
    BY <1>1, <1>2 DEF Refuse, memberVars, OpenLabel
  <2>. QED
    BY <2>1 DEF Row!RowNext, Row!Serve
<1>3. CASE RefuseKey(r)
  <2>1. /\ Phases[r] = "open" /\ Row!Answer(r, "INVALID_ARGUMENT")
        /\ UNCHANGED <<op, Versions, Begun, Whole>>
    BY <1>3, EndOpen DEF RefuseKey, memberVars, OpenLabel
  <2>2. Row!BadKey(op[r])
    BY <1>3 DEF RefuseKey, BadKey, Row!BadKey
  <2>3. Row!Fail(r)
    BY <2>1, <2>2 DEF Row!Fail
  <2>. QED
    BY <2>3 DEF Row!RowNext, Row!Serve
<1>4. CASE Get(r)
  <2>1. /\ Phases[r] = "open" /\ Row!Answer(r, GetStatus(op[r], row[at[r]]))
        /\ UNCHANGED <<op, Versions, Begun, Whole>>
    BY <1>4, EndOpen DEF Get, memberVars, OpenLabel
  <2>2. op[r].kind = "Get" /\ row[at[r]] \in Versions
    BY <1>4 DEF Get, Versions, Running, NodeInv, Home, Entered
  <2>3. Row!Read(r)
    BY <2>1, <2>2 DEF Row!Read, Row!GetStatus, GetStatus
  <2>. QED
    BY <2>3 DEF Row!RowNext, Row!Serve
<1>5. CASE CPutRefuse(r)
  <2>1. /\ Phases[r] = "open" /\ Row!Answer(r, CPutStatus(op[r], row[at[r]]))
        /\ UNCHANGED <<op, Versions, Begun, Whole>>
    BY <1>5, EndOpen DEF CPutRefuse, memberVars, OpenLabel
  <2>2. op[r].kind = "CPut" /\ CPutStatus(op[r], row[at[r]]) # "OK" /\ ~BadKey(op[r])
    BY <1>5 DEF CPutRefuse, Checks, Writes
  <2>3. row[at[r]] \in Versions
    BY <1>5 DEF CPutRefuse, Versions, Running, NodeInv, Home
  <2>4. \A q \in Thread : Phases[q] # "writing"
    BY <1>5, NoWriter DEF CPutRefuse
  <2>5. Row!Mismatch(r)
    BY <2>1, <2>2, <2>3, <2>4 DEF Row!Mismatch, Row!CPutStatus, CPutStatus, Row!BadKey, BadKey
  <2>. QED
    BY <2>5 DEF Row!RowNext, Row!Serve
<1>6. CASE Recheck(r)
  <2>1. CASE primary_idx[at[r]] = NoNode
    <3>1. Row!Fail(r)
      BY <1>1, <1>6, <2>1 DEF Recheck, memberVars, OpenLabel
    <3>. QED
      BY <3>1 DEF Row!RowNext, Row!Serve
  <2>2. CASE primary_idx[at[r]] # NoNode
    <3>1. UNCHANGED Row!rowVars
      BY <1>6, <2>2, GoOn DEF Recheck, Goto, memberVars, OpenLabel
    <3>. QED
      BY <3>1
  <2>. QED
    BY <2>1, <2>2
<1>7. CASE Enter(r) \/ Route(r)
  <2>1. PICK label \in OpenLabel : pc' = [pc EXCEPT ![r] = label]
    BY <1>7 DEF Enter, Route, Goto, OpenLabel
  <2>2. UNCHANGED Row!rowVars
    BY <1>7, <2>1, GoOn DEF Enter, Route, memberVars, OpenLabel
  <2>. QED
    BY <2>2
<1>8. CASE RecoverKnown(r) \/ RecoverAsk(r) \/ RecoverAnswer(r) \/ Forward(r)
  <2>1. PICK label \in OpenLabel : pc' = [pc EXCEPT ![r] = label]
    BY <1>8 DEF RecoverKnown, RecoverAsk, RecoverAnswer, Forward, Goto, OpenLabel
  <2>2. pc[r] \in OpenLabel /\ UNCHANGED <<op, mc, row, reply, proc>>
    BY <1>8 DEF RecoverKnown, RecoverAsk, RecoverAnswer, Forward, AskMaster, RenewPrimary,
       memberVars, OpenLabel
  <2>3. UNCHANGED Row!rowVars
    BY <2>1, <2>2, GoOn
  <2>. QED
    BY <2>3
<1>. QED
  BY <1>2, <1>3, <1>4, <1>5, <1>6, <1>7, <1>8

LEMMA IssueStep ==
  ASSUME Sound, NEW r \in Thread, NEW n \in Node, Issue(r, n)
  PROVE  [Row!RowNext]_(Row!rowVars)
<1>. USE DEF Sound, AcceptInv
<1>1. UNCHANGED <<Versions, Begun, Whole>>
  BY DEF Issue, memberVars, Running, Versions, Whole, Begun, Started
<1>2. \A q \in Thread : PhaseOf(q)' = IF q = r THEN "open" ELSE PhaseOf(q)
  BY DEF Issue, Goto, PhaseOf, NodeInv, TypeOK
<1>3. Phases' = [Phases EXCEPT ![r] = "open"] /\ Phases[r] = "idle"
  BY <1>2 DEF Phases, PhaseOf, Issue
<1>4. Row!Ask(r)
  BY <1>1, <1>3 DEF Issue, Row!Ask
<1>. QED
  BY <1>4 DEF Row!RowNext

-----------------------------------------------------------------------------
\* The critical section of the primary.

LEMMA MulticastStep ==
  ASSUME Sound, NEW r \in Thread, Multicast(r)
  PROVE  [Row!RowNext]_(Row!rowVars)
<1>. USE DEF Sound, AcceptInv
<1>1. at[r] \in Node /\ proc[at[r]] = "up"
  BY DEF Multicast, NodeInv, Home
<1>3. \A q \in Thread : Phases[q] # "writing"
  BY NoWriter DEF Multicast
<1>4. Phases[r] = "open"
  BY PhaseFacts DEF Phases, Multicast, OpenLabel
<1>5. UNCHANGED <<Versions, Whole>>
  BY DEF Multicast, memberVars, Running, Versions, Whole
<1>6. \A q \in Thread : PhaseOf(q)' = IF q = r THEN "writing" ELSE PhaseOf(q)
  BY DEF Multicast, Goto, PhaseOf, NodeInv, TypeOK
<1>7. Phases' = [Phases EXCEPT ![r] = "writing"]
  BY <1>6 DEF Phases
<1>8. \A q \in Thread : Started(q)' <=> Started(q) \/ q = r
  BY <1>1 DEF Multicast, Peers, Started, NodeInv, TypeOK
<1>9. Begun' = Begun \union {r}
  BY <1>8 DEF Begun
<1>10. op[r].kind # "Get" /\ ~BadKey(op[r])
  BY DEF Multicast, Checks, Writes
<1>11. row[at[r]] \in Versions /\ (op[r].kind = "CPut" => CPutStatus(op[r], row[at[r]]) = "OK")
  BY <1>1 DEF Multicast, Versions, Running
<1>12. Row!Begin(r)
  BY <1>3, <1>4, <1>5, <1>7, <1>9, <1>10, <1>11
  DEF Multicast, Row!Begin, Row!BadKey, BadKey, Row!CPutStatus, CPutStatus
<1>. QED
  BY <1>12 DEF Row!RowNext, Row!Serve

\* A peer's part of a write.
LEMMA PeerStep ==
  ASSUME Sound, NEW r \in Thread, NEW m \in Node, Peer(r, m) \/ PeerCancel(r, m)
  PROVE  [Row!RowNext]_(Row!rowVars)
<1>. USE DEF Sound, AcceptInv
<1>1. mc[r][m] \in {"sent", "wait"}
  BY DEF Peer, PeerAdmit, PeerApply, PeerCancel
<1>2. pc[r] \in {"multicast", "done"}
  BY <1>1 DEF Checks, Started
<1>3. Phases[r] \in {"writing", "late"}
  BY <1>1, <1>2, PhaseFacts DEF Phases
<1>4. UNCHANGED <<op, reply, pc, proc>>
  BY DEF Peer, PeerAdmit, PeerApply, PeerCancel, memberVars
<1>5. PICK s \in {"wait", "done"} : mc' = [mc EXCEPT ![r][m] = s]
  BY DEF Peer, PeerAdmit, PeerApply, PeerCancel
<1>6. UNCHANGED <<Begun, Whole>>
  <2>1. \A q \in Thread, k \in Node : mc'[q][k] # "none" <=> mc[q][k] # "none"
    BY <1>1, <1>5 DEF NodeInv, TypeOK
  <2>. QED
    BY <1>4, <2>1 DEF Begun, Started, Whole, Running
<1>7. Versions' \in SUBSET (Versions \union Row!Written(r))
  <2>1. CASE row' = row
    BY <1>4, <2>1 DEF Versions, Running
  <2>2. CASE row' # row
    <3>1. row' = [row EXCEPT ![m] = Conduct(op[r], @)]
      BY <2>2 DEF Peer, PeerAdmit, PeerApply, PeerCancel
    <3>2. ASSUME NEW k \in Running
          PROVE  row'[k] \in Versions \union Row!Written(r)
      BY <3>1, <3>2 DEF Versions, Running, Row!Written, Row!Conduct, Conduct, NodeInv, TypeOK
    <3>. QED
      BY <1>4, <3>2 DEF Versions, Running
  <2>. QED
    BY <2>1, <2>2
<1>8. Phases' \in {Phases} \union
        (IF Phases[r] = "late" THEN {[Phases EXCEPT ![r] = "done"]} ELSE {})
  <2>1. \A q \in Thread : q # r => PhaseOf(q)' = PhaseOf(q)
    BY <1>4, <1>5 DEF PhaseOf, NodeInv, TypeOK
  <2>2. CASE pc[r] = "multicast"
    <3>1. PhaseOf(r)' = PhaseOf(r)
      BY <1>4, <2>2 DEF PhaseOf
    <3>. QED
      BY <2>1, <3>1 DEF Phases
  <2>3. CASE pc[r] = "done"
    <3>1. PhaseOf(r) = "late" /\ PhaseOf(r)' \in {"late", "done"}
      BY <1>1, <1>4, <2>3 DEF PhaseOf
    <3>. QED
      BY <2>1, <3>1 DEF Phases
  <2>. QED
    BY <1>2, <2>2, <2>3
<1>9. Whole => Versions \subseteq Versions'
  <2> SUFFICES ASSUME Whole, row' # row
               PROVE  Versions \subseteq Versions'
    BY <1>4 DEF Versions, Running
  <2>1. Running = Node /\ InStep
    BY DEF Whole, Running, Quiet
  <2>2. mc[r][m] = "wait" /\ row' = [row EXCEPT ![m] = Conduct(op[r], @)]
    BY DEF Peer, PeerAdmit, PeerApply, PeerCancel
  <2>3. pc[r] = "multicast" /\ at[r] \in Node /\ m # at[r] /\ row[m] = row[at[r]]
    BY <2>1, <2>2 DEF InStep, SelfInv, NodeInv, Home
  <2>4. \A k \in Node : k # m => row'[k] = row[k]
    BY <2>2 DEF NodeInv, TypeOK
  <2>. QED
    BY <1>4, <2>1, <2>3, <2>4 DEF Versions, Running
<1>10. Row!Spread(r)
  BY <1>3, <1>4, <1>6, <1>7, <1>8, <1>9 DEF Row!Spread
<1>. QED
  BY <1>10 DEF Row!RowNext

\* Doing a write twice is doing it once.
LEMMA ConductIdempotent ==
  ASSUME NEW o \in Operation, NEW w \in [Key -> Value \union {Absent}]
  PROVE  Conduct(o, Conduct(o, w)) = Conduct(o, w)
BY DEF Conduct, Operation

LEMMA CommitStep ==
  ASSUME Sound, NEW r \in Thread, Commit(r)
  PROVE  [Row!RowNext]_(Row!rowVars)
<1>. USE DEF Sound, AcceptInv
<1>1. at[r] \in Running /\ pc[r] = "multicast"
  BY DEF Commit, NodeInv, Home, Running
<1>2. Phases[r] = "writing"
  BY <1>1, PhaseFacts DEF Phases
<1>3. UNCHANGED <<op, Begun, Whole>> /\ Running' = Running
  BY DEF Commit, memberVars, Running, Whole, Begun, Started
<1>4. \A q \in Thread : PhaseOf(q)' = IF q = r THEN "done" ELSE PhaseOf(q)
  <2> SUFFICES ASSUME NEW q \in Thread
               PROVE  PhaseOf(q)' = IF q = r THEN "done" ELSE PhaseOf(q)
    OBVIOUS
  <2>1. CASE q = r
    BY <2>1 DEF Commit, Return, Goto, PhaseOf, NodeInv, TypeOK
  <2>2. CASE q # r
    BY <2>2 DEF Commit, Return, Goto, PhaseOf, NodeInv, TypeOK
  <2>. QED
    BY <2>1, <2>2
<1>5. Row!Answer(r, "OK")
  <2>1. Phases' = [Phases EXCEPT ![r] = "done"]
    BY <1>4 DEF Phases
  <2>. QED
    BY <2>1 DEF Commit, Return, Row!Answer
<1>6. \A k \in Running : row'[k] = IF k = at[r] THEN Conduct(op[r], row[k]) ELSE row[k]
  BY <1>1 DEF Commit, Running, NodeInv, TypeOK
<1>7. \A w : Row!Conduct(op[r], w) = Conduct(op[r], w)
  BY DEF Row!Conduct, Conduct
<1>8. Versions' \in SUBSET (Versions \union Row!Written(r))
  BY <1>1, <1>3, <1>6, <1>7 DEF Versions, Row!Written
<1>9. Whole => Versions' = Row!Written(r)
  <2> SUFFICES ASSUME Whole
               PROVE  Versions' = Row!Written(r)
    OBVIOUS
  <2> DEFINE new == Conduct(op[r], row[at[r]])
  <2>1. Running = Node /\ InStep
    BY DEF Whole, Running, Quiet
  <2>2. \A k \in Node : k # at[r] => row[k] = new
    BY <1>1, <2>1 DEF Commit, InStep, SelfInv
  <2>3. Versions' = {new}
    BY <1>1, <1>3, <1>6, <2>1, <2>2 DEF Versions
  <2>4. row[at[r]] \in [Key -> Value \union {Absent}] /\ op[r] \in Operation
    BY <1>1 DEF NodeInv, TypeOK, Running
  <2>5. Conduct(op[r], new) = new
    BY <2>4, ConductIdempotent
  <2>6. \A k \in Running : Conduct(op[r], row[k]) = new
    BY <2>1, <2>2, <2>5
  <2>7. Row!Written(r) = {new}
    BY <1>1, <1>7, <2>6 DEF Row!Written, Versions
  <2>. QED
    BY <2>3, <2>7
<1>10. Row!Finish(r)
  BY <1>2, <1>3, <1>5, <1>8, <1>9 DEF Row!Finish
<1>. QED
  BY <1>10 DEF Row!RowNext, Row!Serve

-----------------------------------------------------------------------------
\* A process dies.
LEMMA KillStep ==
  ASSUME Sound, NEW n \in Node, Kill(n), proc[n] = "up"
  PROVE  [Row!RowNext]_(Row!rowVars)
<1>. USE DEF Sound, AcceptInv
<1> DEFINE hit == {r \in Thread : Phases'[r] # Phases[r]}
           left == {r \in hit : Phases'[r] = "late"}
<1>1. Running' = Running \ {n} /\ n \in Running
  BY DEF Kill, Die, Running, NodeInv, TypeInv, MemberTypeOK
<1>2. Whole' = FALSE
  BY <1>1 DEF Whole
<1>3. Versions' \in SUBSET Versions
  <2>1. \A k \in Running' : row'[k] = row[k] /\ k \in Running
    BY <1>1 DEF Kill, Running, NodeInv, TypeOK
  <2>. QED
    BY <2>1 DEF Versions
<1>4. UNCHANGED <<op, Begun>>
  <2>1. \A q \in Thread, k \in Node : mc'[q][k] # "none" <=> mc[q][k] # "none"
    BY DEF Kill, NodeInv, TypeOK
  <2>. QED
    BY <2>1 DEF Kill, Begun, Started
<1>5. ASSUME NEW r \in Thread
      PROVE  /\ pc'[r] = IF r \in Killed(n) THEN "done" ELSE pc[r]
             /\ \A m \in Node : mc'[r][m] =
                  IF m = n /\ mc[r][m] \in {"sent", "wait"} THEN "done" ELSE mc[r][m]
  BY DEF Kill, NodeInv, TypeOK
<1>6. ASSUME NEW r \in Thread, Phases'[r] # Phases[r]
      PROVE  /\ Phases[r] \in {"open", "writing", "late"}
             /\ Phases'[r] \in {"late", "done"}
             /\ Phases[r] = "open" => Phases'[r] = "done"
             /\ Phases[r] # "late" => r \in Cut(n)
  <2>1. PhaseOf(r)' # PhaseOf(r)
    BY <1>6 DEF Phases
  <2>2. Phases[r] = PhaseOf(r) /\ Phases'[r] = PhaseOf(r)'
    BY DEF Phases
  <2>3. CASE r \in Killed(n)
    <3>1. pc'[r] = "done" /\ pc[r] \notin {"idle", "done"}
      BY <1>5, <2>3 DEF Killed
    <3>2. CASE pc[r] = "multicast"
      BY <2>2, <2>3, <3>1, <3>2 DEF PhaseOf, Cut
    <3>3. CASE pc[r] # "multicast"
      <4>1. \A m \in Node : mc[r][m] = "none"
        BY <3>1, <3>3 DEF Checks, Started
      <4>2. \A m \in Node : mc'[r][m] = "none"
        BY <1>5, <4>1
      <4>. QED
        BY <2>2, <2>3, <3>1, <3>3, <4>2 DEF PhaseOf, Cut
    <3>. QED
      BY <3>2, <3>3
  <2>4. CASE r \notin Killed(n)
    <3>1. pc'[r] = pc[r]
      BY <1>5, <2>4
    <3>2. pc[r] = "done"
      BY <2>1, <3>1 DEF PhaseOf
    <3>3. (\E m \in Node : mc'[r][m] \in {"sent", "wait"}) => \E m \in Node : mc[r][m] \in {"sent", "wait"}
      BY <1>5
    <3>. QED
      BY <2>1, <2>2, <3>1, <3>2, <3>3 DEF PhaseOf
  <2>. QED
    BY <2>3, <2>4
<1>7. Cut(n) \in SUBSET Row!Served
  <2>1. ASSUME NEW r \in Cut(n)
        PROVE  Phases[r] \in {"open", "writing", "late"}
    <3>1. pc[r] \notin {"idle", "done"} /\ r \in Thread
      BY <2>1 DEF Cut, Killed, Entered
    <3>. QED
      BY <3>1 DEF Phases, PhaseOf
  <2>. QED
    BY <2>1 DEF Row!Served, Cut, Killed
<1>8. hit \in SUBSET Row!Served
  BY <1>6 DEF Row!Served
<1>9. left \in SUBSET {r \in hit : Phases[r] # "open"}
  BY <1>6
<1>10. Phases' = [r \in Thread |->
         IF r \in left THEN "late" ELSE IF r \in hit THEN "done" ELSE Phases[r]]
  <2>1. \A r \in Thread : Phases'[r] =
          IF r \in left THEN "late" ELSE IF r \in hit THEN "done" ELSE Phases[r]
    BY <1>6
  <2>2. Phases' = [r \in Thread |-> Phases'[r]]
    BY DEF Phases
  <2>. QED
    BY <2>1, <2>2
<1>11. \A r \in hit : Phases[r] # "late" => r \in Cut(n)
  BY <1>6
<1>12. reply' = [r \in Thread |->
         IF r \in Cut(n) /\ reply[r] = "none" THEN "UNAVAILABLE" ELSE reply[r]]
  BY DEF Kill
<1> HIDE DEF hit, left
<1>13. Row!Break
  <2>1. \E cut \in SUBSET Row!Served :
          /\ \A r \in hit : Phases[r] # "late" => r \in cut
          /\ reply' = [r \in Thread |->
                        IF r \in cut /\ reply[r] = "none" THEN "UNAVAILABLE" ELSE reply[r]]
    BY <1>7, <1>11, <1>12
  <2>2. \E lasting \in SUBSET {r \in hit : Phases[r] # "open"} :
          /\ Phases' = [r \in Thread |-> IF r \in lasting THEN "late"
                                         ELSE IF r \in hit THEN "done" ELSE Phases[r]]
          /\ \E cut \in SUBSET Row!Served :
               /\ \A r \in hit : Phases[r] # "late" => r \in cut
               /\ reply' = [r \in Thread |->
                             IF r \in cut /\ reply[r] = "none" THEN "UNAVAILABLE" ELSE reply[r]]
    BY <1>9, <1>10, <2>1
  <2>. QED
    BY <1>2, <1>3, <1>4, <1>8, <2>2, Zenon DEF Row!Break
<1>. QED
  BY <1>13 DEF Row!RowNext

\* What the coordinator and the admin do is invisible to clients.
LEMMA MemberSilent ==
  ASSUME NodeInv, UNCHANGED reqVars, proc' = proc
  PROVE  UNCHANGED Row!rowVars
<1>1. \A r \in Thread : PhaseOf(r)' = PhaseOf(r)
  BY DEF reqVars, PhaseOf
<1>. QED
  BY <1>1, Silent DEF reqVars

LEMMA RowStep ==
  ASSUME Sound, [Next]_vars, faults' = 0
  PROVE  [Row!RowNext]_(Row!rowVars)
<1>1. ~Fault
  BY DEF Fault, Sound
<1>2. \A n \in Node : proc[n] # "boot"
  BY DEF Sound, CrashStopInv, CrashStop
<1>3. ASSUME NEW r \in Thread, Handler(r)
      PROVE  [Row!RowNext]_(Row!rowVars)
  <2>1. CASE WildForward(r)
    <3>1. at[r] \in Node /\ proc[at[r]] = "up"
      BY <2>1 DEF WildForward, Sound, NodeInv, Home
    <3>. QED
      BY <2>1, <3>1, KillStep DEF WildForward
  <2>. QED
    BY <1>3, <2>1, HandlerStep, MulticastStep, CommitStep DEF Handler
<1>4. ASSUME NEW r \in Thread
      PROVE  ~RecoverFails(r)
  BY <1>1 DEF RecoverFails, AskFails
<1>5. ASSUME NEW n \in Node, NodeCrash(n)
      PROVE  [Row!RowNext]_(Row!rowVars)
  <2>1. proc[n] = "up"
    BY <1>2, <1>5 DEF NodeCrash, Sound, NodeInv, TypeInv, MemberTypeOK
  <2>. QED
    BY <1>5, <2>1, KillStep DEF NodeCrash
<1>6. \A n \in Node : ~NodeBoot(n) /\ ~Sync(n) /\ ~NodeStart(n)
  BY <1>1, <1>2 DEF NodeBoot, Boot, Sync, NodeStart, StartServer
<1>7. CASE (Coordinator \/ Environment) /\ UNCHANGED reqVars
  <2>1. proc' = proc
    BY <1>7 DEF Coordinator, Environment, CheckNode, CheckTimeout, KeepPrimary, ElectPrimary,
       NoPrimary, UpdateNode, UpdateTimeout, LateUpdate, FinishRound, AdminShutdown, AdminStartup
  <2>. QED
    BY <1>7, <2>1, MemberSilent DEF Sound
<1>8. CASE UNCHANGED vars
  <2>1. UNCHANGED reqVars /\ proc' = proc
    BY <1>8 DEF vars, memberVars
  <2>. QED
    BY <2>1, MemberSilent DEF Sound
<1>. QED
  BY <1>3, <1>4, <1>5, <1>6, <1>7, <1>8, IssueStep, PeerStep DEF Next

LEMMA EnteredStep == NodeInv /\ Entered /\ [Next]_vars => Entered'
<1> SUFFICES ASSUME NodeInv, Entered, [Next]_vars
             PROVE  Entered'
  OBVIOUS
<1>. USE DEF NodeInv, TypeOK, Entered, Goto, Return
<1>1. ASSUME NEW r \in Thread,
             Enter(r) \/ Route(r) \/ Forward(r) \/ Multicast(r) \/ Commit(r)
      PROVE  Entered'
  BY <1>1 DEF Enter, Route, Forward, Multicast, Commit
<1>2. ASSUME NEW r \in Thread,
             \/ Refuse(r) \/ RefuseKey(r) \/ Get(r) \/ RecoverKnown(r) \/ RecoverAsk(r)
             \/ RecoverAnswer(r) \/ RecoverFails(r) \/ Recheck(r) \/ CPutRefuse(r)
      PROVE  Entered'
  BY <1>2 DEF Refuse, RefuseKey, Get, RecoverKnown, RecoverAsk, RecoverAnswer, RecoverFails,
     Recheck, CPutRefuse
<1>3. ASSUME NEW r \in Thread, NEW n \in Node, Issue(r, n) \/ Peer(r, n) \/ PeerCancel(r, n)
      PROVE  Entered'
  BY <1>3 DEF Issue, Peer, PeerAdmit, PeerApply, PeerCancel
<1>4. ASSUME NEW n \in Node, Kill(n)
      PROVE  Entered'
  BY <1>4 DEF Kill
<1>5. ASSUME NEW n \in Node, NodeBoot(n) \/ Sync(n) \/ NodeStart(n)
      PROVE  Entered'
  BY <1>5 DEF NodeBoot, Sync, NodeStart, reqVars
<1>6. CASE UNCHANGED reqVars
  BY <1>6 DEF reqVars
<1>7. ASSUME NEW r \in Thread, WildForward(r)
      PROVE  Entered'
  BY <1>4, <1>7 DEF WildForward, Home
<1>. QED
  BY <1>1, <1>2, <1>3, <1>4, <1>5, <1>6, <1>7 DEF Next, Handler, NodeCrash, vars

LEMMA RowStart == Init => Row!RowInit
<1> SUFFICES ASSUME Init
             PROVE  Row!RowInit
  OBVIOUS
<1>1. Running = Node /\ 1 \in Node
  BY NAssumption DEF Init, MemberInit, Running, Node
<1>2. Versions = {EmptyRow}
  BY <1>1 DEF Init, Versions
<1>3. Phases = [r \in Thread |-> "idle"]
  BY DEF Init, Phases, PhaseOf
<1>4. Begun = {}
  BY DEF Init, Begun, Started, Untouched
<1>. QED
  BY <1>1, <1>2, <1>3, <1>4 DEF Init, Whole, Row!RowInit, Row!EmptyRow, EmptyRow, Row!Key, Key

\* All that is known of every state, faults or not.
StateInv ==
  /\ NodeInv /\ CrashStopInv /\ RowLockHeld /\ AtPrimary /\ AcceptInv /\ SelfInv /\ Entered
  /\ Quiet => InStep

LEMMA StateInvariant == Spec => []StateInv
<1>1. Init => Entered
  BY DEF Init, Entered
<1>2. Spec => []Entered
  BY <1>1, TypeCorrect, EnteredStep, PTL DEF Spec
<1>. QED
  BY <1>2, Invariants, AcceptInvariant, InStepInvariant, PTL DEF StateInv

\* However many faults may happen, the storage nodes implement the row that clients see up to the
\* first that is not a crash.
THEOREM RowUntilFault ==
  Spec => Row!RowInit /\ [][faults' = 0 => [Row!RowNext]_(Row!rowVars)]_vars
<1>1. StateInv /\ [Next]_vars => (faults' = 0 => [Row!RowNext]_(Row!rowVars))
  <2> SUFFICES ASSUME StateInv, [Next]_vars, faults' = 0
               PROVE  [Row!RowNext]_(Row!rowVars)
    OBVIOUS
  <2>1. faults = 0
    BY MemberStep, FaultsGrow DEF StateInv, NodeInv
  <2>2. Sound
    BY <2>1 DEF StateInv, Sound
  <2>. QED
    BY <2>2, RowStep
<1>. QED
  BY <1>1, RowStart, StateInvariant, PTL DEF Spec

\* While processes only crash and stay down, the storage nodes implement the row that clients see.
THEOREM RowRefinement == MaxFaults = 0 /\ Spec => ImplementsRow
<1>1. ASSUME MaxFaults = 0
      PROVE  Spec => Row!RowSpec
  <2>1. StateInv /\ faults = 0 /\ [Next]_vars => (faults = 0)' /\ [Row!RowNext]_(Row!rowVars)
    <3> SUFFICES ASSUME StateInv, faults = 0, [Next]_vars
                 PROVE  faults' = 0 /\ [Row!RowNext]_(Row!rowVars)
      OBVIOUS
    <3>1. NodeInv /\ Sound
      BY DEF StateInv, Sound
    <3>2. [MemberNext]_memberVars
      BY <3>1, MemberStep
    <3>3. ~Fault
      BY <1>1 DEF Fault
    <3>4. faults' = 0
      BY <3>2, <3>3 DEF MemberNext, Coordinator, Environment, CheckNode, CheckTimeout,
         KeepPrimary, ElectPrimary, NoPrimary, UpdateNode, UpdateTimeout, LateUpdate, FinishRound,
         AdminShutdown, AdminStartup, Crash, Die, Boot, StartServer, AskMaster, AskFails,
         RenewPrimary, memberVars
    <3>. QED
      BY <3>1, <3>4, RowStep
  <2>2. Init => faults = 0
    BY DEF Init, MemberInit
  <2>. QED
    BY <2>1, <2>2, RowStart, StateInvariant, PTL DEF Spec, Row!RowSpec
<1>. QED
  BY <1>1 DEF ImplementsRow

-----------------------------------------------------------------------------
\* What is known of the row of KVRow holds of the replicated row until something fails that is not a
\* crash, however many faults follow.

RowP == INSTANCE KVRowProofs WITH
  versions <- Versions, phase <- Phases, begun <- Begun, whole <- Whole

LEMMA SameRow ==
  /\ Row!RowInit => RowP!RowInit
  /\ [Row!RowNext]_(Row!rowVars) => [RowP!RowNext]_(RowP!rowVars)
<1>1. Row!RowInit => RowP!RowInit
  BY DEF Row!RowInit, RowP!RowInit, Row!EmptyRow, RowP!EmptyRow, Row!Key, RowP!Key
<1>2. Row!Break => RowP!Break
  BY DEF Row!Break, RowP!Break, Row!Served, RowP!Served
<1>3. ASSUME NEW r \in Thread
      PROVE  /\ Row!Ask(r) => RowP!Ask(r)
             /\ Row!Fail(r) => RowP!Fail(r)
             /\ Row!Read(r) => RowP!Read(r)
             /\ Row!Mismatch(r) => RowP!Mismatch(r)
             /\ Row!Begin(r) => RowP!Begin(r)
             /\ Row!Finish(r) => RowP!Finish(r)
             /\ Row!Spread(r) => RowP!Spread(r)
  <2>. USE DEF Row!Answer, RowP!Answer, Row!BadKey, RowP!BadKey
  <2>1. Row!Written(r) = RowP!Written(r)
    BY DEF Row!Written, RowP!Written, Row!Conduct, RowP!Conduct
  <2>2. (Row!Ask(r) => RowP!Ask(r)) /\ (Row!Fail(r) => RowP!Fail(r))
    BY DEF Row!Ask, RowP!Ask, Row!Fail, RowP!Fail
  <2>3. Row!Read(r) => RowP!Read(r)
    BY DEF Row!Read, RowP!Read, Row!GetStatus, RowP!GetStatus
  <2>4. Row!Mismatch(r) => RowP!Mismatch(r)
    BY DEF Row!Mismatch, RowP!Mismatch, Row!CPutStatus, RowP!CPutStatus
  <2>5. Row!Begin(r) => RowP!Begin(r)
    BY DEF Row!Begin, RowP!Begin, Row!CPutStatus, RowP!CPutStatus
  <2>6. (Row!Finish(r) => RowP!Finish(r)) /\ (Row!Spread(r) => RowP!Spread(r))
    BY <2>1 DEF Row!Finish, RowP!Finish, Row!Spread, RowP!Spread
  <2>. QED
    BY <2>2, <2>3, <2>4, <2>5, <2>6
<1>4. Row!RowNext => RowP!RowNext
  BY <1>2, <1>3 DEF Row!RowNext, RowP!RowNext, Row!Serve, RowP!Serve
<1>5. Row!rowVars = RowP!rowVars
  BY DEF Row!rowVars, RowP!rowVars
<1>. QED
  BY <1>1, <1>4, <1>5 DEF Row!rowVars, RowP!rowVars

LEMMA SameOperation == Workload \subseteq [Thread -> RowP!Operation]
BY WorkloadAssumption DEF RowP!Operation, Operation, RowP!Key, Key

LEMMA SameSize ==
  \A S : /\ RowP!Cardinality(S) = Cardinality(S)
         /\ RowP!IsFiniteSet(S) <=> IsFiniteSet(S)
BY DEF RowP!Cardinality, Cardinality, RowP!IsFiniteSet, IsFiniteSet

LEMMA RowHolds == Spec => [](faults = 0 => RowP!RowInv)
<1>. USE SameOperation, KeyAssumption, ValueAssumption, WorkloadAssumption
<1>1. Init => RowP!RowInv
  BY RowStart, SameRow, RowP!InitRowInv
<1>2. StateInv /\ (faults = 0 => RowP!RowInv) /\ [Next]_vars => (faults = 0 => RowP!RowInv)'
  <2> SUFFICES ASSUME StateInv, faults = 0 => RowP!RowInv, [Next]_vars, faults' = 0
               PROVE  RowP!RowInv'
    OBVIOUS
  <2>1. NodeInv /\ faults = 0
    BY MemberStep, FaultsGrow DEF StateInv, NodeInv
  <2>2. Sound
    BY <2>1 DEF StateInv, Sound
  <2>3. [RowP!RowNext]_(RowP!rowVars)
    BY <2>2, RowStep, SameRow
  <2>. QED
    BY <2>1, <2>3, RowP!RowInvStep
<1>. QED
  BY <1>1, <1>2, StateInvariant, PTL DEF Spec

\* CPut loses no update at any number of nodes, with any number of requests for the row, until
\* something fails.
THEOREM NoLostUpdateCorrect == Spec => []NoLostUpdate
<1>1. StateInv /\ (faults = 0 => RowP!RowInv) => NoLostUpdate
  <2>. USE SameOperation, KeyAssumption, ValueAssumption, WorkloadAssumption
  <2> SUFFICES ASSUME StateInv, RowP!RowInv, \A n \in Node : proc[n] = "up",
                      NEW c \in Key, NEW v \in Value
               PROVE  Cardinality({r \in Thread : reply[r] = "OK" /\ Replaces(op[r], c, v)})
                        <= Cardinality({r \in Thread : Started(r) /\ Puts(op[r], c, v)})
    BY DEF NoLostUpdate
  <2> DEFINE taking == {r \in Thread : reply[r] = "OK" /\ Replaces(op[r], c, v)}
             giving == {r \in Thread : Started(r) /\ Puts(op[r], c, v)}
  <2>1. Whole /\ c \in RowP!Key
    BY DEF Whole, Running, RowP!Key, Key
  <2>2. giving = RowP!Givers(c, v)
    BY DEF RowP!Givers, Begun, RowP!Puts, Puts
  <2>3. taking = {r \in Thread : reply[r] = "OK" /\ RowP!Replaces(op[r], c, v)}
    BY DEF RowP!Replaces, Replaces
  <2>4. /\ IsFiniteSet(RowP!Takers(c, v)) /\ IsFiniteSet(giving)
        /\ Cardinality(RowP!Takers(c, v)) <= Cardinality(giving)
        /\ taking \subseteq RowP!Takers(c, v)
    BY <2>1, <2>2, <2>3, RowP!RowBalance, SameSize
  <2> HIDE DEF taking, giving
  <2>5. IsFiniteSet(taking) /\ Cardinality(taking) <= Cardinality(RowP!Takers(c, v))
    BY <2>4, RowP!FS_Subset, SameSize
  <2>6. Cardinality(taking) <= Cardinality(giving)
    BY <2>4, <2>5, RowP!FS_CardinalityType, SameSize
  <2>. QED
    BY <2>6 DEF taking, giving
<1>. QED
  BY <1>1, StateInvariant, RowHolds, PTL

-----------------------------------------------------------------------------
\* Up to the first crash or other failure, the replicated row could be one row that every write
\* changes in one step between its request and its answer, and that a CPut compares in that step:
\* forwarding, multicasts and row locks do not show to those who write, at any number of nodes.
THEOREM AtomicUntilFault ==
  Spec => /\ RowP!Atomic!AtomicInit
          /\ [][faults' = 0 /\ Whole'
                  => [RowP!Atomic!AtomicNext]_(RowP!Atomic!atomicVars)]_vars
<1>. USE SameOperation, KeyAssumption, ValueAssumption, WorkloadAssumption
<1>1. Init => RowP!Atomic!AtomicInit
  BY RowStart, SameRow, RowP!AtomicStart
<1>2. StateInv /\ (faults = 0 => RowP!RowInv) /\ [Next]_vars =>
        (faults' = 0 /\ Whole' => [RowP!Atomic!AtomicNext]_(RowP!Atomic!atomicVars))
  <2> SUFFICES ASSUME StateInv, faults = 0 => RowP!RowInv, [Next]_vars, faults' = 0, Whole'
               PROVE  [RowP!Atomic!AtomicNext]_(RowP!Atomic!atomicVars)
    OBVIOUS
  <2>1. NodeInv /\ faults = 0
    BY MemberStep, FaultsGrow DEF StateInv, NodeInv
  <2>2. Sound
    BY <2>1 DEF StateInv, Sound
  <2>3. [RowP!RowNext]_(RowP!rowVars)
    BY <2>2, RowStep, SameRow
  <2>. QED
    BY <2>1, <2>3, RowP!AtomicStep
<1>. QED
  BY <1>1, <1>2, StateInvariant, RowHolds, PTL DEF Spec
====
