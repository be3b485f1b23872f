---------------------------- MODULE KVClientProofs ----------------------------
(***************************************************************************)
(* Proofs about KVClient, for any number of calls, tries, columns, values  *)
(* and crashes.                                                            *)
(***************************************************************************)
EXTENDS KVClient, KVRowProofs

LEMMA RequestIn ==
  ASSUME NEW c \in Client, NEW i \in 1..Tries
  PROVE  <<c, i>> \in Thread
BY RequestAssumption

LEMMA RowOfClient == TypeOK /\ [Next]_vars => [RowNext]_rowVars
<1> SUFFICES ASSUME TypeOK, [Next]_vars
             PROVE  [RowNext]_rowVars
  OBVIOUS
<1>1. ASSUME NEW c \in Client, FirstTry(c) \/ Retry(c)
      PROVE  RowNext
  <2>1. starter[c] + 1 \in 1..Tries /\ Ask(<<c, starter[c] + 1>>)
    BY <1>1, TriesAssumption DEF FirstTry, Retry, Send, TypeOK
  <2>. QED
    BY <2>1, RequestIn DEF RowNext
<1>2. ASSUME NEW c \in Client, Succeed(c) \/ NotFound(c) \/ GiveUp(c)
      PROVE  UNCHANGED rowVars
  BY <1>2 DEF Succeed, NotFound, GiveUp, Conclude
<1>. QED
  BY <1>1, <1>2 DEF Next, Caller, NodeCrash, RowNext, vars

LEMMA TypeStep == TypeOK /\ [Next]_vars => TypeOK'
<1> SUFFICES ASSUME TypeOK, [Next]_vars
             PROVE  TypeOK'
  OBVIOUS
<1>. USE TriesAssumption, BoundAssumption
<1>1. RowTypeOK'
  BY RowOfClient, RowTypeStep DEF TypeOK
<1>0. op' = op /\ op \in Workload /\ Bound[op].crashes \in Nat
  <2>1. [RowNext]_rowVars
    BY RowOfClient
  <2>2. op' = op
    BY <2>1 DEF RowNext, Ask, Serve, Fail, Read, Mismatch, Begin, Finish, Spread, Break, rowVars
  <2>. QED
    BY <2>2 DEF TypeOK, RowTypeOK
<1>2. ASSUME NEW c \in Client, FirstTry(c) \/ Retry(c), UNCHANGED crashes
      PROVE  TypeOK'
  BY <1>0, <1>1, <1>2 DEF FirstTry, Retry, Send, TypeOK
<1>3. ASSUME NEW c \in Client, Succeed(c) \/ NotFound(c) \/ GiveUp(c), UNCHANGED crashes
      PROVE  TypeOK'
  BY <1>0, <1>1, <1>3 DEF Succeed, NotFound, GiveUp, Conclude, TypeOK, Outcome
<1>4. CASE UNCHANGED clientVars /\ (UNCHANGED crashes \/ NodeCrash)
  BY <1>0, <1>1, <1>4 DEF TypeOK, clientVars, NodeCrash
<1>. QED
  BY <1>2, <1>3, <1>4 DEF Next, Caller, NodeCrash, vars

\* Type correctness of the client together with the row.
THEOREM ClientTypeCorrect == Spec => []TypeOK
<1>1. Init => TypeOK
  BY TriesAssumption, BoundAssumption
  DEF Init, RowInit, TypeOK, RowTypeOK, Phase, Answers, Outcome, EmptyRow
<1>. QED
  BY <1>1, TypeStep, PTL DEF Spec

\* The storage client adds nothing to what the nodes do: the row behaves as KVRow says, with one
\* request for each try.
THEOREM ImplementsRowSpec == Spec => RowSpec
<1>1. Init => RowInit
  BY DEF Init
<1>. QED
  BY <1>1, RowOfClient, ClientTypeCorrect, PTL DEF Spec, RowSpec

\* Calls made one after the other do not see the row go back in time: there is one version of it
\* whenever no write is under way, for any number of clients and tries.
THEOREM OneVersionCorrect == Spec => []OneVersion
BY ImplementsRowSpec, RowInvariant, RowOneVersion, PTL

\* Until the first crash every writer of the row could be served by one that is changed in one step,
\* for any number of clients and tries.
THEOREM AtomicWritesCorrect == Spec => AtomicWrites
BY ImplementsRowSpec, RowAtomic, PTL

-----------------------------------------------------------------------------
\* A call sends one try after the other, the next when the last was refused.
CallInv ==
  \A c \in Client :
    /\ \A i \in 1..Tries : phase[<<c, i>>] = "idle" <=> i > starter[c]
    /\ \A i \in 1..Tries : i < starter[c] => reply[<<c, i>>] \notin {"none", "OK"}
    /\ outcome[c] # "none" => starter[c] > 0
    /\ outcome[c] = "ok" /\ Mutating(c) => Stt(c) = "OK"
    /\ outcome[c] \notin {"none", "ok"} => Stt(c) \notin {"none", "OK"}

LEMMA CallStep == TypeOK /\ RequestInv /\ CallInv /\ [Next]_vars => (RequestInv /\ CallInv)'
<1> SUFFICES ASSUME TypeOK, RequestInv, CallInv, [Next]_vars
             PROVE  (RequestInv /\ CallInv)'
  OBVIOUS
<1>. USE TriesAssumption, RequestIn
<1>1. ASSUME UNCHANGED <<starter, outcome, op>>,
             \A q \in Thread : phase'[q] = "idle" <=> phase[q] = "idle",
             \A q \in Thread : reply[q] # "none" => reply'[q] = reply[q]
      PROVE  CallInv'
  <2>1. \A c \in Client : starter[c] \in 0..Tries
    BY DEF TypeOK
  <2>2. \A c \in Client, i \in 1..Tries : phase'[<<c, i>>] = "idle" <=> i > starter'[c]
    BY <1>1 DEF CallInv
  <2>3. \A c \in Client, i \in 1..Tries : i < starter'[c] => reply'[<<c, i>>] \notin {"none", "OK"}
    BY <1>1 DEF CallInv
  <2>4. ASSUME NEW c \in Client
        PROVE  /\ outcome'[c] # "none" => starter'[c] > 0
               /\ outcome'[c] = "ok" /\ Mutating(c)' => Stt(c)' = "OK"
               /\ outcome'[c] \notin {"none", "ok"} => Stt(c)' \notin {"none", "OK"}
    <3>1. outcome[c] # "none" => starter[c] \in 1..Tries
      BY <2>1 DEF CallInv
    <3>2. Stt(c) # "none" /\ starter[c] \in 1..Tries => Stt(c)' = Stt(c)
      BY <1>1 DEF Stt
    <3>3. Mutating(c)' <=> Mutating(c)
      BY <1>1 DEF Mutating, Asked
    <3>. QED
      BY <1>1, <3>1, <3>2, <3>3 DEF CallInv
  <2>. QED
    BY <2>2, <2>3, <2>4 DEF CallInv
<1>2. ASSUME NEW c \in Client, FirstTry(c) \/ Retry(c)
      PROVE  (RequestInv /\ CallInv)'
  <2> DEFINE next == starter[c] + 1
  <2>1. next \in 1..Tries /\ starter[c] \in 0..Tries /\ Send(c)
    BY <1>2 DEF FirstTry, Retry, TypeOK
  <2>2. starter[c] > 0 => Stt(c) \notin {"none", "OK"}
    BY <1>2 DEF FirstTry, Retry, Refused
  <2>3. outcome[c] = "none"
    BY <1>2 DEF FirstTry, Retry, CallInv
  <2>4. /\ phase[<<c, next>>] = "idle" /\ phase' = [phase EXCEPT ![<<c, next>>] = "open"]
        /\ starter' = [starter EXCEPT ![c] = next]
        /\ UNCHANGED <<op, begun, reply, whole, outcome>>
    BY <2>1 DEF Send, Ask
  <2> HIDE DEF next
  <2>5. RequestInv'
    BY <2>1, <2>4 DEF RequestInv, Writing, TypeOK
  <2>6. ASSUME NEW d \in Client, NEW i \in 1..Tries
        PROVE  /\ phase'[<<d, i>>] = "idle" <=> i > starter'[d]
               /\ i < starter'[d] => reply'[<<d, i>>] \notin {"none", "OK"}
    <3>1. CASE d # c
      BY <2>4, <3>1 DEF CallInv, TypeOK
    <3>2. CASE d = c
      <4>1. phase'[<<c, i>>] = "idle" <=> i # next /\ phase[<<c, i>>] = "idle"
        BY <2>1, <2>4 DEF TypeOK, RowTypeOK
      <4>2. i > next <=> i # next /\ i > starter[c]
        BY <2>1 DEF next
      <4>3. i < next => i < starter[c] \/ i = starter[c]
        BY <2>1 DEF next
      <4>4. starter'[c] = next
        BY <2>4 DEF TypeOK
      <4>5. i < next => reply[<<c, i>>] \notin {"none", "OK"}
        BY <2>2, <4>3 DEF CallInv, Stt
      <4>. QED
        BY <2>4, <3>2, <4>1, <4>2, <4>4, <4>5 DEF CallInv
    <3>. QED
      BY <3>1, <3>2
  <2>7. ASSUME NEW d \in Client
        PROVE  /\ outcome'[d] # "none" => starter'[d] > 0
               /\ outcome'[d] = "ok" /\ Mutating(d)' => Stt(d)' = "OK"
               /\ outcome'[d] \notin {"none", "ok"} => Stt(d)' \notin {"none", "OK"}
    <3>1. CASE d # c
      BY <2>4, <3>1 DEF CallInv, TypeOK, Mutating, Asked, Stt
    <3>2. CASE d = c
      BY <2>3, <2>4, <3>2
    <3>. QED
      BY <3>1, <3>2
  <2>. QED
    BY <2>5, <2>6, <2>7 DEF CallInv
<1>3. ASSUME NEW c \in Client, Succeed(c) \/ NotFound(c) \/ GiveUp(c)
      PROVE  (RequestInv /\ CallInv)'
  <2>1. UNCHANGED rowVars /\ starter' = starter /\ starter[c] > 0
    BY <1>3 DEF Succeed, NotFound, GiveUp, Conclude, Refused
  <2>2. PICK result \in {"ok", "KVNotFound", "KVError"} : outcome' = [outcome EXCEPT ![c] = result]
    BY <1>3 DEF Succeed, NotFound, GiveUp, Conclude
  <2>3. result = "ok" /\ Mutating(c) => Stt(c) = "OK"
    BY <1>3, <2>2 DEF Succeed, NotFound, GiveUp, Conclude, Missing, Mutating, TypeOK
  <2>4. result # "ok" => Stt(c) \notin {"none", "OK"}
    BY <1>3, <2>2 DEF Succeed, NotFound, GiveUp, Conclude, Refused, TypeOK
  <2>5. RequestInv'
    BY <2>1 DEF RequestInv, Writing, rowVars
  <2>6. ASSUME NEW d \in Client
        PROVE  /\ outcome'[d] # "none" => starter'[d] > 0
               /\ outcome'[d] = "ok" /\ Mutating(d)' => Stt(d)' = "OK"
               /\ outcome'[d] \notin {"none", "ok"} => Stt(d)' \notin {"none", "OK"}
    <3>1. outcome'[d] = IF d = c THEN result ELSE outcome[d]
      BY <2>2 DEF TypeOK
    <3>. QED
      BY <2>1, <2>3, <2>4, <3>1 DEF CallInv, Mutating, Asked, Stt, rowVars
  <2>. QED
    BY <2>1, <2>5, <2>6 DEF CallInv, rowVars
<1>4. ASSUME NEW r \in Thread, Serve(r) \/ Spread(r), UNCHANGED clientVars
      PROVE  (RequestInv /\ CallInv)'
  BY <1>1, <1>4, ServeKeeps DEF clientVars, TypeOK
<1>5. CASE NodeCrash
  BY <1>1, <1>5, CrashKeeps DEF NodeCrash, clientVars, TypeOK
<1>6. CASE UNCHANGED vars
  <2>1. RequestInv'
    BY <1>6 DEF vars, rowVars, RequestInv, Writing
  <2>. QED
    BY <1>1, <1>6, <2>1 DEF vars, rowVars, clientVars
<1>. QED
  BY <1>2, <1>3, <1>4, <1>5, <1>6 DEF Next, Caller

LEMMA CallInvariant == Spec => [](TypeOK /\ RowInv /\ CallInv)
<1>1. Init => CallInv
  BY TriesAssumption, RequestIn DEF Init, RowInit, CallInv
<1>2. RowInv => RequestInv
  BY DEF RowInv
<1>. QED
  BY <1>1, <1>2, ClientTypeCorrect, ImplementsRowSpec, RowInvariant, CallStep, PTL DEF Spec

LEMMA OnceInv == TypeOK /\ RequestInv /\ CallInv => ExactlyOnce
<1> SUFFICES ASSUME TypeOK, RequestInv, CallInv, NEW c \in Client, Mutating(c)
             PROVE  /\ outcome[c] = "ok" => BegunTries(c) # {}
                    /\ whole => \A i, j \in BegunTries(c) : i = j
                    /\ whole /\ outcome[c] \notin {"none", "ok"} => BegunTries(c) = {}
  BY DEF ExactlyOnce
<1>. USE TriesAssumption, RequestIn
<1>1. ASSUME NEW i \in 1..Tries
      PROVE  Writing(<<c, i>>)
  BY CallAssumption DEF TypeOK, RowTypeOK, Writing, Mutating, Asked
<1>2. starter[c] \in 0..Tries
  BY DEF TypeOK
<1>3. outcome[c] = "ok" => starter[c] \in BegunTries(c)
  BY <1>1, <1>2 DEF CallInv, RequestInv, Stt, BegunTries
<1>4. \A i \in BegunTries(c) : whole => i = starter[c] /\ Stt(c) \in {"none", "OK"}
  BY <1>2 DEF CallInv, RequestInv, BegunTries, Stt
<1>. QED
  BY <1>3, <1>4 DEF CallInv

\* A call that returns has written; until the first crash it has written once, and a call that
\* throws has not: for any number of clients, tries and requests of other clients.
THEOREM ExactlyOnceCorrect == Spec => []ExactlyOnce
BY CallInvariant, OnceInv, PTL DEF RowInv

-----------------------------------------------------------------------------
\* From calls to tries and back: a cput that has returned has a try that took the value out, and a
\* try that has put it in belongs to a call of its own.
LEMMA CPutTries ==
  ASSUME TypeOK, RowInv, CallInv, whole, NEW k \in Key, NEW v \in Value
  PROVE  Cardinality({c \in Client : outcome[c] = "ok" /\ Replaces(Asked(c), k, v)})
           <= Cardinality({c \in Client : BegunTries(c) # {} /\ Puts(Asked(c), k, v)})
<1>. USE TriesAssumption, RequestAssumption
<1> DEFINE taking == {c \in Client : outcome[c] = "ok" /\ Replaces(Asked(c), k, v)}
           giving == {c \in Client : BegunTries(c) # {} /\ Puts(Asked(c), k, v)}
           last == [c \in taking |-> <<c, starter[c]>>]
           caller == [r \in Givers(k, v) |-> r[1]]
<1>1. ExactlyOnce
  BY OnceInv DEF RowInv
<1>2. \A c \in Client, i \in 1..Tries : op[<<c, i>>] = Asked(c)
  BY CallAssumption DEF TypeOK, RowTypeOK, Asked
<1>3. \A c \in taking : <<c, starter[c]>> \in Takers(k, v)
  <2> SUFFICES ASSUME NEW c \in taking
               PROVE  <<c, starter[c]>> \in Takers(k, v)
    OBVIOUS
  <2>1. Mutating(c) /\ starter[c] \in 1..Tries /\ Stt(c) = "OK"
    BY DEF CallInv, TypeOK, Mutating, Replaces
  <2>2. op[<<c, starter[c]>>] = Asked(c)
    BY <1>2, <2>1
  <2>3. <<c, starter[c]>> \in begun
    BY <2>1, <2>2 DEF RowInv, RequestInv, Writing, Stt, Mutating
  <2>. QED
    BY <2>2, <2>3 DEF Takers
<1>4. last \in Injection(taking, Takers(k, v))
  BY <1>3 DEF Injection, IsInjective
<1>5. \A r \in Givers(k, v) : r[1] \in giving /\ r[2] \in BegunTries(r[1]) /\ r = <<r[1], r[2]>>
  <2> SUFFICES ASSUME NEW r \in Givers(k, v)
               PROVE  r[1] \in giving /\ r[2] \in BegunTries(r[1]) /\ r = <<r[1], r[2]>>
    OBVIOUS
  <2>1. r \in begun /\ Puts(op[r], k, v) /\ r \in Client \X (1..Tries)
    BY DEF Givers, TypeOK, RowTypeOK
  <2>2. r = <<r[1], r[2]>> /\ r[1] \in Client /\ r[2] \in 1..Tries
    BY <2>1
  <2>3. op[r] = Asked(r[1])
    BY <1>2, <2>2
  <2>. QED
    BY <2>1, <2>2, <2>3 DEF BegunTries
<1>6. \A q, r \in Givers(k, v) : q[1] = r[1] => q = r
  <2> SUFFICES ASSUME NEW q \in Givers(k, v), NEW r \in Givers(k, v), q[1] = r[1]
               PROVE  q = r
    OBVIOUS
  <2>1. q[1] \in Client /\ Mutating(q[1])
    BY <1>5 DEF Mutating, Puts
  <2>2. q[2] = r[2]
    BY <1>1, <1>5, <2>1 DEF ExactlyOnce
  <2>. QED
    BY <1>5, <2>2
<1>7. \A c \in giving : \E r \in Givers(k, v) : r[1] = c
  <2> SUFFICES ASSUME NEW c \in giving
               PROVE  \E r \in Givers(k, v) : r[1] = c
    OBVIOUS
  <2>1. PICK i \in 1..Tries : <<c, i>> \in begun
    BY DEF BegunTries
  <2>2. <<c, i>> \in Givers(k, v)
    BY <1>2, <2>1 DEF Givers
  <2>. QED
    BY <2>2
<1>8. caller \in Surjection(Givers(k, v), giving) /\ caller \in Injection(Givers(k, v), giving)
  BY <1>5, <1>6, <1>7 DEF Surjection, Injection, IsInjective
<1>9. /\ IsFiniteSet(Takers(k, v)) /\ IsFiniteSet(Givers(k, v))
      /\ Cardinality(Takers(k, v)) <= Cardinality(Givers(k, v))
  BY RowBalance
<1> HIDE DEF taking, giving, last, caller
<1>10. IsFiniteSet(taking) /\ Cardinality(taking) <= Cardinality(Takers(k, v))
  BY <1>4, <1>9, FS_Injection
<1>11. Cardinality(giving) = Cardinality(Givers(k, v))
  BY <1>8, <1>9, FS_Surjection
<1>12. Cardinality(taking) <= Cardinality(giving)
  BY <1>9, <1>10, <1>11, FS_CardinalityType
<1>. QED
  BY <1>12 DEF taking, giving

\* No cput call is lost to another until the first crash, whatever is retried: for any number of
\* clients, tries, columns and values.
THEOREM NoLostCPutCorrect == Spec => []NoLostCPut
<1>1. TypeOK /\ RowInv /\ CallInv => NoLostCPut
  BY CPutTries DEF NoLostCPut
<1>. QED
  BY <1>1, CallInvariant, PTL
====
