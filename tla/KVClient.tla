------------------------------- MODULE KVClient -------------------------------
(***************************************************************************)
(* The storage client (kv/storage_client.h) on top of what the storage     *)
(* nodes promise (KVRow): get, getdefault, put, cput and del send their    *)
(* request up to five times to the partition of the row, whatever became   *)
(* of the earlier tries.  Request <<c, i>> of KVRow is try i of client c's *)
(* call.  A try whose answer was lost in a crash may still be at work when *)
(* the next one is sent.                                                   *)
(***************************************************************************)
EXTENDS KVRow, Naturals, FiniteSets

CONSTANTS Client,       \* the calls, each made by a thread of its own
          Tries,        \* end_int + 1
          Defaulting,   \* the calls of getdefault among those that get
          Bound         \* for each workload, how many calls are made and how many processes die

ASSUME TriesAssumption == Tries \in Nat \ {0}
ASSUME BoundAssumption == Bound \in [Workload -> [calls : Nat, crashes : Nat]]
ASSUME RequestAssumption == Thread = Client \X (1..Tries)
\* A call sends the same request over and over.
ASSUME CallAssumption ==
  \A w \in Workload, c \in Client, i, j \in 1..Tries : w[<<c, i>>] = w[<<c, j>>]

VARIABLES
  starter,    \* how many tries each call has sent
  outcome,    \* what the call came to: "none", "ok", or the exception it threw
  crashes     \* history: how many processes have died

clientVars == <<starter, outcome>>
vars == <<rowVars, clientVars, crashes>>

Init ==
  /\ RowInit
  /\ starter = [c \in Client |-> 0]
  /\ outcome = [c \in Client |-> "none"]
  /\ crashes = 0

Asked(c) == op[<<c, 1>>]
Stt(c) == reply[<<c, starter[c]>>]
Refused(c) == starter[c] > 0 /\ Stt(c) \notin {"none", "OK"}

\* Only get tells a missing column from other failures.
Missing(c) == Asked(c).kind = "Get" /\ Stt(c) = "NOT_FOUND"

-----------------------------------------------------------------------------
Send(c) ==
  /\ Ask(<<c, starter[c] + 1>>)
  /\ starter' = [starter EXCEPT ![c] = @ + 1]
  /\ UNCHANGED outcome

FirstTry(c) ==
  /\ starter[c] = 0
  /\ Cardinality({d \in Client : starter[d] > 0}) < Bound[op].calls
  /\ Send(c)

\* A client that does not look at the answer before it tries again.
RetryAnyway(c) ==
  /\ outcome[c] = "none" /\ starter[c] > 0 /\ Stt(c) # "none"
  /\ starter[c] < Tries
  /\ Send(c)

\* The loop goes round after any failure.
Retry(c) ==
  /\ outcome[c] = "none" /\ Refused(c) /\ ~Missing(c)
  /\ starter[c] < Tries
  /\ Send(c)

Conclude(c, result) ==
  /\ outcome' = [outcome EXCEPT ![c] = result]
  /\ UNCHANGED <<rowVars, starter>>

Succeed(c) ==
  /\ outcome[c] = "none" /\ starter[c] > 0 /\ Stt(c) = "OK"
  /\ Conclude(c, "ok")

\* get throws KVNotFound; getdefault catches it and returns the default.
NotFound(c) ==
  /\ outcome[c] = "none" /\ Refused(c) /\ Missing(c)
  /\ Conclude(c, IF c \in Defaulting THEN "ok" ELSE "KVNotFound")

\* A loop that waits for one try more than it makes.
GiveUpLate(c) ==
  /\ outcome[c] = "none" /\ Refused(c) /\ ~Missing(c)
  /\ starter[c] > Tries
  /\ Conclude(c, "KVError")

\* All tries failed.  cput looks for FAILED_PRECONDITION and NOT_FOUND in a Status it never assigned
\* (storage_client.h:219), so a mismatch ends here too.
GiveUp(c) ==
  /\ outcome[c] = "none" /\ Refused(c) /\ ~Missing(c)
  /\ starter[c] = Tries
  /\ Conclude(c, "KVError")

\* A storage node dies.
NodeCrash ==
  /\ crashes < Bound[op].crashes
  /\ crashes' = crashes + 1
  /\ Break
  /\ UNCHANGED clientVars

Caller(c) == FirstTry(c) \/ Retry(c) \/ Succeed(c) \/ NotFound(c) \/ GiveUp(c)

Next ==
  \/ \E c \in Client : Caller(c) /\ UNCHANGED crashes
  \/ \E r \in Thread : (Serve(r) \/ Spread(r)) /\ UNCHANGED <<clientVars, crashes>>
  \/ NodeCrash

Spec == Init /\ [][Next]_vars

\* The nodes answer (KVReplication's AllAnswered), and a thread in a loop goes on.
FairSpec ==
  /\ Spec
  /\ \A r \in Thread : WF_vars(Serve(r) /\ UNCHANGED <<clientVars, crashes>>)
  /\ \A c \in Client :
       WF_vars((Retry(c) \/ Succeed(c) \/ NotFound(c) \/ GiveUp(c)) /\ UNCHANGED crashes)

-----------------------------------------------------------------------------
Outcome == {"none", "ok", "KVNotFound", "KVError", "KVNoMatch"}

TypeOK ==
  /\ RowTypeOK
  /\ starter \in [Client -> 0..Tries]
  /\ outcome \in [Client -> Outcome]
  /\ crashes \in 0..Bound[op].crashes

\* How often the call has begun to write.
BegunTries(c) == {i \in 1..Tries : <<c, i>> \in begun}
Mutating(c) == Asked(c).kind # "Get"

\* A call that returns has written, and however often it tried, exactly once until the first crash;
\* then a call that throws has not written at all: retrying (put, cput, del) neither repeats nor
\* forgets a write as long as no process dies.
ExactlyOnce ==
  \A c \in Client : Mutating(c) =>
    /\ outcome[c] = "ok" => BegunTries(c) # {}
    /\ whole => \A i, j \in BegunTries(c) : i = j
    /\ whole /\ outcome[c] \notin {"none", "ok"} => BegunTries(c) = {}

\* No cput call is lost to another: until the first crash, as many calls have written a value into
\* a column as cput calls have returned after replacing it by another value, retries included.
NoLostCPut ==
  whole => \A k \in Key, v \in Value :
    Cardinality({c \in Client : outcome[c] = "ok" /\ Replaces(Asked(c), k, v)})
      <= Cardinality({c \in Client : BegunTries(c) # {} /\ Puts(Asked(c), k, v)})

\* Every call returns or throws: no try is waited for in vain, and the tries run out.
CallsEnd == \A c \in Client : starter[c] > 0 ~> outcome[c] # "none"

\* What req_handling.cc:650 counts on: a cput whose every try was refused because of the value it
\* found throws KVNoMatch (storage_client.h:251).
MismatchReported ==
  \A c \in Client :
    ( /\ Asked(c).kind = "CPut" /\ outcome[c] \notin {"none", "ok"}
      /\ \A i \in 1..starter[c] : reply[<<c, i>>] = "FAILED_PRECONDITION" ) =>
        outcome[c] = "KVNoMatch"
====
