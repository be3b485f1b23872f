------------------------------- MODULE KVAtomic -------------------------------
(***************************************************************************)
(* A row that every write changes in one step, at some time between the    *)
(* request and its answer.  This is what KVRow comes to for those who      *)
(* write, until the first process dies; a Get that is answered in the      *)
(* middle of a write may still see the row before it.                      *)
(***************************************************************************)
EXTENDS RowOps

CONSTANTS Thread, Workload

VARIABLES
  op,         \* what each request asks for
  asked,      \* the writes that have been sent
  cur,        \* the row
  performed,  \* the writes that have taken effect
  answer      \* status the client of a write got, "none" before that

atomicVars == <<op, asked, cur, performed, answer>>

AtomicInit ==
  /\ op \in Workload
  /\ asked = {}
  /\ cur = EmptyRow
  /\ performed = {}
  /\ answer = [r \in Thread |-> "none"]

Submit(r) ==
  /\ op[r].kind # "Get" /\ r \notin asked
  /\ asked' = asked \union {r}
  /\ UNCHANGED <<op, cur, performed, answer>>

Open(r) == r \in asked \ performed /\ answer[r] = "none"

\* The write takes effect: a CPut only where it finds the value it expects.
Perform(r) ==
  /\ Open(r) /\ ~BadKey(op[r])
  /\ op[r].kind = "CPut" => CPutStatus(op[r], cur) = "OK"
  /\ cur' = Conduct(op[r], cur)
  /\ performed' = performed \union {r}
  /\ UNCHANGED <<op, asked, answer>>

Confirm(r) ==
  /\ r \in performed /\ answer[r] = "none"
  /\ answer' = [answer EXCEPT ![r] = "OK"]
  /\ UNCHANGED <<op, asked, cur, performed>>

\* A write that is refused never takes effect; what a CPut is told is true of the row.
Reasons(r) ==
  {"UNAVAILABLE"}
    \union (IF BadKey(op[r]) THEN {"INVALID_ARGUMENT"} ELSE {})
    \union (IF op[r].kind = "CPut" THEN {CPutStatus(op[r], cur)} \ {"OK"} ELSE {})

Refuse(r) ==
  /\ Open(r)
  /\ \E s \in Reasons(r) : answer' = [answer EXCEPT ![r] = s]
  /\ UNCHANGED <<op, asked, cur, performed>>

AtomicNext == \E r \in Thread : Submit(r) \/ Perform(r) \/ Confirm(r) \/ Refuse(r)

AtomicSpec == AtomicInit /\ [][AtomicNext]_atomicVars
====
