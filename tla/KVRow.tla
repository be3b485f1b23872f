-------------------------------- MODULE KVRow --------------------------------
(***************************************************************************)
(* What the storage nodes of a partition promise their clients about one   *)
(* row while processes may only crash and stay down: KVReplication without *)
(* its nodes, locks, forwarding and multicasts.                            *)
(*                                                                         *)
(* The row may exist in several versions, one or more at the live nodes.   *)
(* Writes go through one at a time; a read is answered from any version.   *)
(* Until the first crash there is one version when no write is under way,  *)
(* and two while one is: the row before it and the row after it.           *)
(***************************************************************************)
EXTENDS RowOps

CONSTANTS Thread,       \* the requests
          Workload      \* what they may ask for

ASSUME RowWorkloadAssumption == Workload \subseteq [Thread -> Operation]

VARIABLES
  op,         \* what each request asks for
  versions,   \* the row as the live nodes hold it
  phase,      \* a request is "idle", "open", "writing", "late" or "done"
  begun,      \* history: requests whose write has begun
  reply,      \* status the client got, "none" before that
  whole       \* no process has died

rowVars == <<op, versions, phase, begun, reply, whole>>

RowInit ==
  /\ op \in Workload
  /\ versions = {EmptyRow}
  /\ phase = [r \in Thread |-> "idle"]
  /\ begun = {}
  /\ reply = [r \in Thread |-> "none"]
  /\ whole = TRUE

Written(r) == {Conduct(op[r], w) : w \in versions}

\* The request ends; a client that has lost its connection has had its answer.
Answer(r, status) ==
  /\ phase' = [phase EXCEPT ![r] = "done"]
  /\ reply' = [reply EXCEPT ![r] = IF @ = "none" THEN status ELSE @]

-----------------------------------------------------------------------------
\* The client asks; the request may still be refused without a trace, at any time before it begins
\* to write.
Ask(r) ==
  /\ phase[r] = "idle"
  /\ phase' = [phase EXCEPT ![r] = "open"]
  /\ UNCHANGED <<op, versions, begun, reply, whole>>

Fail(r) ==
  /\ phase[r] = "open"
  /\ \E s \in {"UNAVAILABLE"} \union (IF BadKey(op[r]) THEN {"INVALID_ARGUMENT"} ELSE {}) :
       Answer(r, s)
  /\ UNCHANGED <<op, versions, begun, whole>>

Read(r) ==
  /\ phase[r] = "open" /\ op[r].kind = "Get"
  /\ \E w \in versions : Answer(r, GetStatus(op[r], w))
  /\ UNCHANGED <<op, versions, begun, whole>>

\* A CPut compares, and is refused, when no write is under way.
Mismatch(r) ==
  /\ phase[r] = "open" /\ op[r].kind = "CPut" /\ ~BadKey(op[r])
  /\ \A q \in Thread : phase[q] # "writing"
  /\ \E w \in versions : CPutStatus(op[r], w) # "OK" /\ Answer(r, CPutStatus(op[r], w))
  /\ UNCHANGED <<op, versions, begun, whole>>

\* A write that begins next to another one: a CPut that compares outside the row lock.
BeginBeside(r) ==
  /\ phase[r] = "open" /\ op[r].kind # "Get" /\ ~BadKey(op[r])
  /\ \E w \in versions : op[r].kind = "CPut" => CPutStatus(op[r], w) = "OK"
  /\ phase' = [phase EXCEPT ![r] = "writing"]
  /\ begun' = begun \union {r}
  /\ UNCHANGED <<op, versions, reply, whole>>

\* A write begins when no other is under way; a CPut only where its comparison succeeds.
Begin(r) ==
  /\ phase[r] = "open" /\ op[r].kind # "Get" /\ ~BadKey(op[r])
  /\ \A q \in Thread : phase[q] # "writing"
  /\ \E w \in versions : op[r].kind = "CPut" => CPutStatus(op[r], w) = "OK"
  /\ phase' = [phase EXCEPT ![r] = "writing"]
  /\ begun' = begun \union {r}
  /\ UNCHANGED <<op, versions, reply, whole>>

\* The write reaches some of the nodes, also after its client and its primary are gone; the primary
\* comes last.
Spread(r) ==
  /\ phase[r] \in {"writing", "late"}
  /\ versions' \in SUBSET (versions \union Written(r))
  /\ whole => versions \subseteq versions'
  /\ phase' \in {phase} \union (IF phase[r] = "late" THEN {[phase EXCEPT ![r] = "done"]} ELSE {})
  /\ UNCHANGED <<op, begun, reply, whole>>

\* A write that is answered although it has not reached every node.
FinishEarly(r) ==
  /\ phase[r] = "writing"
  /\ versions' \in SUBSET (versions \union Written(r))
  /\ Answer(r, "OK")
  /\ UNCHANGED <<op, begun, whole>>

\* A write whose client is told that it failed.
FinishUnanswered(r) ==
  /\ phase[r] = "writing"
  /\ versions' \in IF whole THEN {Written(r)} ELSE SUBSET (versions \union Written(r))
  /\ Answer(r, "UNKNOWN")
  /\ UNCHANGED <<op, begun, whole>>

\* The write is answered; until the first crash it has replaced every version.
Finish(r) ==
  /\ phase[r] = "writing"
  /\ versions' \in IF whole THEN {Written(r)} ELSE SUBSET (versions \union Written(r))
  /\ Answer(r, "OK")
  /\ UNCHANGED <<op, begun, whole>>

Served == {r \in Thread : phase[r] \in {"open", "writing", "late"}}

\* A process dies: its version may be the last of its kind; the requests it was running (hit) are
\* over, but a write may have calls on their way to other nodes (left); the clients of these and of
\* requests that had come through it (cut) see UNAVAILABLE.
Break ==
  /\ whole' = FALSE
  /\ versions' \in SUBSET versions
  /\ UNCHANGED <<op, begun>>
  /\ \E hit \in SUBSET Served : \E left \in SUBSET {r \in hit : phase[r] # "open"} :
       /\ phase' = [r \in Thread |->
                      IF r \in left THEN "late" ELSE IF r \in hit THEN "done" ELSE phase[r]]
       /\ \E cut \in SUBSET Served :
            /\ \A r \in hit : phase[r] # "late" => r \in cut
            /\ reply' = [r \in Thread |->
                          IF r \in cut /\ reply[r] = "none" THEN "UNAVAILABLE" ELSE reply[r]]

-----------------------------------------------------------------------------
Serve(r) == Fail(r) \/ Read(r) \/ Mismatch(r) \/ Begin(r) \/ Finish(r)

RowNext == Break \/ \E r \in Thread : Ask(r) \/ Serve(r) \/ Spread(r)

RowSpec == RowInit /\ [][RowNext]_rowVars

-----------------------------------------------------------------------------
Phase == {"idle", "open", "writing", "late", "done"}
Answers == {"none", "OK", "UNAVAILABLE", "INVALID_ARGUMENT", "NOT_FOUND", "FAILED_PRECONDITION",
            "UNKNOWN"}

RowTypeOK ==
  /\ op \in Workload
  /\ versions \in SUBSET [Key -> Value \union {Absent}]
  /\ phase \in [Thread -> Phase]
  /\ begun \in SUBSET Thread
  /\ reply \in [Thread -> Answers]
  /\ whole \in BOOLEAN

\* w is the row as it is once the write under way, if there is one, has reached every node.
Settles(w) ==
  /\ versions # {}
  /\ \A r \in Thread : phase[r] = "writing" => \A v \in versions : Conduct(op[r], v) = w
  /\ (\A r \in Thread : phase[r] # "writing") => versions = {w}

Settled == CHOOSE w \in [Key -> Value \union {Absent}] : Settles(w)

Atomic == INSTANCE KVAtomic WITH
  asked <- {r \in Thread : op[r].kind # "Get" /\ phase[r] # "idle"},
  cur <- Settled,
  performed <- begun,
  answer <- [r \in Thread |-> IF op[r].kind = "Get" THEN "none" ELSE reply[r]]

\* Until the first crash every write changes the row in one step between its request and its
\* answer, and a CPut is answered by what the row then holds, although the nodes get the write one
\* after the other (Put, Delete, CPut under the row lock, PPut, PDelete).
AtomicWrites ==
  /\ Atomic!AtomicInit
  /\ [][whole' => [Atomic!AtomicNext]_(Atomic!atomicVars)]_rowVars

\* Until the first crash, once a call has returned its write is at every node that answers, unless
\* another write came after it: reads do not travel back in time between calls.
OneVersion ==
  whole /\ (\A r \in Thread : phase[r] # "writing") => \E w \in versions : versions = {w}
====
