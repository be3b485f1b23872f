----------------------------- MODULE KVRowProofs -----------------------------
(***************************************************************************)
(* Proofs about KVRow, for any set of requests, columns and values.        *)
(*                                                                         *)
(* Until the first crash the row has, at any time, one settled state: the  *)
(* row as it is when the write under way, if there is one, has reached     *)
(* every node (Settles).  The writes that have begun, counted against it,  *)
(* are as many as the CPuts that have taken their values out (Balance).    *)
(***************************************************************************)
EXTENDS KVRow, FiniteSetTheorems, TLAPS

AnyRow == [Key -> Value \union {Absent}]

Writing(r) == op[r].kind # "Get"

\* What a request's state tells about its write.
RequestInv ==
  \A r \in Thread :
    /\ phase[r] = "idle" => reply[r] = "none"
    /\ r \in begun => phase[r] \notin {"idle", "open"}
    /\ phase[r] = "writing" => r \in begun
    /\ r \in begun => Writing(r)
    /\ reply[r] = "OK" /\ Writing(r) => r \in begun
    /\ whole /\ reply[r] \notin {"none", "OK"} => r \notin begun
    /\ whole => phase[r] # "late"
    /\ whole /\ phase[r] # "done" => reply[r] = "none"

\* The requests that have begun to put v into column c, or to take it out.
Givers(c, v) == {r \in begun : Puts(op[r], c, v)}
Takers(c, v) == {r \in begun : Replaces(op[r], c, v)}
Held(w, c, v) == IF w[c] = v THEN 1 ELSE 0

Balance(w) ==
  \A c \in Key, v \in Value :
    Cardinality(Takers(c, v)) + Held(w, c, v) <= Cardinality(Givers(c, v))

OneWrite == \A r, q \in Thread : phase[r] = "writing" /\ phase[q] = "writing" => r = q

RowInv ==
  /\ RowTypeOK
  /\ RequestInv
  /\ IsFiniteSet(begun)
  /\ whole => OneWrite /\ \E w \in AnyRow : Settles(w) /\ Balance(w)

-----------------------------------------------------------------------------
LEMMA ConductRow ==
  ASSUME NEW o \in Operation, NEW w \in AnyRow
  PROVE  /\ Conduct(o, w) \in AnyRow
         /\ \A c \in Key : Conduct(o, w)[c] =
              IF c = o.col THEN IF o.kind = "Delete" THEN Absent ELSE o.v2 ELSE w[c]
BY DEF Conduct, Operation, AnyRow

\* Doing a write twice is doing it once.
LEMMA ConductTwice ==
  ASSUME NEW o \in Operation, NEW w \in AnyRow
  PROVE  Conduct(o, Conduct(o, w)) = Conduct(o, w)
BY DEF Conduct, Operation, AnyRow

LEMMA OpType ==
  ASSUME RowTypeOK, NEW r \in Thread
  PROVE  op[r] \in Operation
BY RowWorkloadAssumption DEF RowTypeOK

LEMMA WriteType ==
  ASSUME RowTypeOK, NEW r \in Thread
  PROVE  Written(r) \in SUBSET AnyRow
BY OpType, ConductRow DEF Written, RowTypeOK, AnyRow

\* How a request may go on, whoever it belongs to.
LEMMA ServeTypes ==
  ASSUME RowTypeOK, NEW r \in Thread, Ask(r) \/ Serve(r) \/ Spread(r)
  PROVE  RowTypeOK'
<1>. USE DEF RowTypeOK, Phase, Answers
<1>1. CASE Spread(r)
  BY <1>1, WriteType DEF Spread, AnyRow
<1>2. CASE Finish(r)
  <2>1. versions' \in SUBSET AnyRow
    BY <1>2, WriteType DEF Finish, AnyRow
  <2>. QED
    BY <1>2, <2>1 DEF Finish, Answer, AnyRow
<1>3. CASE Fail(r) \/ Read(r) \/ Mismatch(r)
  BY <1>3 DEF Fail, Read, Mismatch, Answer, GetStatus, CPutStatus
<1>4. CASE Ask(r) \/ Begin(r)
  BY <1>4 DEF Ask, Begin
<1>. QED
  BY <1>1, <1>2, <1>3, <1>4 DEF Serve

LEMMA BreakTypes == RowTypeOK /\ Break => RowTypeOK'
<1> SUFFICES ASSUME RowTypeOK, Break
             PROVE  RowTypeOK'
  OBVIOUS
<1>1. phase' \in [Thread -> Phase] /\ reply' \in [Thread -> Answers] /\ whole' = FALSE
  BY DEF Break, RowTypeOK, Phase, Answers
<1>2. UNCHANGED <<op, begun>> /\ versions' \in SUBSET versions
  BY DEF Break
<1>. QED
  BY <1>1, <1>2 DEF RowTypeOK

LEMMA RowTypeStep == RowTypeOK /\ [RowNext]_rowVars => RowTypeOK'
<1>1. RowTypeOK /\ UNCHANGED rowVars => RowTypeOK'
  BY DEF RowTypeOK, rowVars
<1>. QED
  BY <1>1, ServeTypes, BreakTypes DEF RowNext

-----------------------------------------------------------------------------
\* A request that has been answered keeps its answer, and no request goes back to where it has not
\* been sent.
LEMMA ServeKeeps ==
  ASSUME RowTypeOK, RequestInv, NEW r \in Thread, Serve(r) \/ Spread(r)
  PROVE  /\ op' = op
         /\ \A q \in Thread : phase'[q] = "idle" <=> phase[q] = "idle"
         /\ \A q \in Thread : reply[q] # "none" => reply'[q] = reply[q]
         /\ RequestInv'
<1>. USE DEF RowTypeOK, Phase, Answers, RequestInv, Writing
<1>1. CASE Spread(r)
  BY <1>1 DEF Spread
<1>2. CASE Finish(r)
  BY <1>2 DEF Finish, Answer
<1>3. CASE Fail(r)
  BY <1>3 DEF Fail, Answer
<1>4. CASE Read(r)
  BY <1>4 DEF Read, Answer, GetStatus
<1>5. CASE Mismatch(r)
  BY <1>5 DEF Mismatch, Answer, CPutStatus
<1>6. CASE Begin(r)
  BY <1>6 DEF Begin
<1>. QED
  BY <1>1, <1>2, <1>3, <1>4, <1>5, <1>6 DEF Serve

LEMMA AskKeeps ==
  ASSUME RowTypeOK, RequestInv, NEW r \in Thread, Ask(r)
  PROVE  RequestInv'
BY DEF Ask, RowTypeOK, Phase, Answers, RequestInv, Writing

LEMMA CrashKeeps ==
  ASSUME RowTypeOK, RequestInv, Break
  PROVE  /\ op' = op
         /\ \A q \in Thread : phase'[q] = "idle" <=> phase[q] = "idle"
         /\ \A q \in Thread : reply[q] # "none" => reply'[q] = reply[q]
         /\ RequestInv'
<1>1. PICK hit \in SUBSET Served : \E left \in SUBSET {r \in hit : phase[r] # "open"} :
        /\ phase' = [r \in Thread |->
                       IF r \in left THEN "late" ELSE IF r \in hit THEN "done" ELSE phase[r]]
        /\ \E cut \in SUBSET Served :
             reply' = [r \in Thread |->
                         IF r \in cut /\ reply[r] = "none" THEN "UNAVAILABLE" ELSE reply[r]]
  BY DEF Break
<1>2. PICK left \in SUBSET {r \in hit : phase[r] # "open"} :
        /\ phase' = [r \in Thread |->
                       IF r \in left THEN "late" ELSE IF r \in hit THEN "done" ELSE phase[r]]
        /\ \E cut \in SUBSET Served :
             reply' = [r \in Thread |->
                         IF r \in cut /\ reply[r] = "none" THEN "UNAVAILABLE" ELSE reply[r]]
  BY <1>1
<1>3. PICK cut \in SUBSET Served :
             reply' = [r \in Thread |->
                         IF r \in cut /\ reply[r] = "none" THEN "UNAVAILABLE" ELSE reply[r]]
  BY <1>2
<1>4. UNCHANGED <<op, begun>> /\ whole' = FALSE
  BY DEF Break
<1>5. ASSUME NEW q \in Thread
      PROVE  /\ phase'[q] = IF q \in left THEN "late" ELSE IF q \in hit THEN "done" ELSE phase[q]
             /\ reply'[q] = IF q \in cut /\ reply[q] = "none" THEN "UNAVAILABLE" ELSE reply[q]
             /\ q \in hit \union cut => phase[q] \in {"open", "writing", "late"}
             /\ q \in left => q \in hit /\ phase[q] # "open"
  BY <1>2, <1>3 DEF Served
<1>6. ASSUME NEW q \in Thread
      PROVE  /\ phase'[q] = "idle" <=> phase[q] = "idle"
             /\ reply[q] # "none" => reply'[q] = reply[q]
  BY <1>5
<1>7. RequestInv'
  <2> SUFFICES ASSUME NEW q \in Thread
               PROVE  /\ phase'[q] = "idle" => reply'[q] = "none"
                      /\ q \in begun => phase'[q] \notin {"idle", "open"}
                      /\ phase'[q] = "writing" => q \in begun
                      /\ q \in begun => Writing(q)
                      /\ reply'[q] = "OK" /\ Writing(q) => q \in begun
    BY <1>4 DEF RequestInv, Writing
  <2>. QED
    BY <1>5 DEF RequestInv
<1>. QED
  BY <1>4, <1>6, <1>7

-----------------------------------------------------------------------------
\* A write that begins moves the settled row on and keeps the books balanced: what it takes out was
\* held, and what it puts in is counted.
LEMMA BeginBalance ==
  ASSUME RowTypeOK, IsFiniteSet(begun), NEW w \in AnyRow, Balance(w),
         NEW r \in Thread, r \notin begun, op[r].kind # "Get",
         op[r].kind = "CPut" => w[op[r].col] = op[r].v1,
         begun' = begun \union {r}, op' = op,
         NEW after, after = Conduct(op[r], w)
  PROVE  Balance(after)'
<1>1. op[r] \in Operation
  BY OpType
<1>2. \A c \in Key : after[c] =
        IF c = op[r].col THEN IF op[r].kind = "Delete" THEN Absent ELSE op[r].v2 ELSE w[c]
  BY <1>1, ConductRow
<1> SUFFICES ASSUME NEW c \in Key, NEW v \in Value
             PROVE  Cardinality(Takers(c, v)') + Held(after, c, v) <= Cardinality(Givers(c, v)')
  BY DEF Balance, Held
<1>3. /\ IsFiniteSet(Takers(c, v)) /\ r \notin Takers(c, v)
      /\ IsFiniteSet(Givers(c, v)) /\ r \notin Givers(c, v)
  BY FS_Subset DEF Takers, Givers
<1>4. /\ Takers(c, v)' = IF Replaces(op[r], c, v) THEN Takers(c, v) \union {r} ELSE Takers(c, v)
      /\ Givers(c, v)' = IF Puts(op[r], c, v) THEN Givers(c, v) \union {r} ELSE Givers(c, v)
  BY DEF Takers, Givers
<1>5. /\ Cardinality(Takers(c, v)) \in Nat /\ Cardinality(Givers(c, v)) \in Nat
      /\ Cardinality(Takers(c, v) \union {r}) = Cardinality(Takers(c, v)) + 1
      /\ Cardinality(Givers(c, v) \union {r}) = Cardinality(Givers(c, v)) + 1
  BY <1>3, FS_AddElement, FS_CardinalityType
<1>6. Cardinality(Takers(c, v)) + Held(w, c, v) <= Cardinality(Givers(c, v))
  BY DEF Balance
<1>7. v # Absent
  BY ValueAssumption
<1>8. CASE Replaces(op[r], c, v)
  <2>1. Held(w, c, v) = 1 /\ Held(after, c, v) = 0 /\ ~Puts(op[r], c, v)
    BY <1>2, <1>8 DEF Replaces, Puts, Held
  <2>. QED
    BY <1>4, <1>5, <1>6, <1>8, <2>1
<1>9. CASE ~Replaces(op[r], c, v) /\ Puts(op[r], c, v)
  <2>1. Held(w, c, v) \in {0, 1} /\ Held(after, c, v) \in {0, 1}
    BY DEF Held
  <2>. QED
    BY <1>4, <1>5, <1>6, <1>9, <2>1
<1>10. CASE ~Replaces(op[r], c, v) /\ ~Puts(op[r], c, v)
  <2>1. Held(w, c, v) \in {0, 1} /\ Held(after, c, v) \in {0, 1}
    BY DEF Held
  <2>2. Held(after, c, v) = 1 => Held(w, c, v) = 1
    BY <1>1, <1>2, <1>7, <1>10 DEF Puts, Held, Operation
  <2>. QED
    BY <1>4, <1>5, <1>6, <1>10, <2>1, <2>2
<1>. QED
  BY <1>8, <1>9, <1>10

LEMMA BeginSettles ==
  ASSUME RowInv, whole, NEW r \in Thread, Begin(r),
         NEW w \in AnyRow, Settles(w), Balance(w),
         NEW after, after = Conduct(op[r], w)
  PROVE  OneWrite' /\ after \in AnyRow /\ Settles(after)' /\ Balance(after)'
<1>. USE DEF RowInv
<1>1. versions = {w} /\ \A q \in Thread : phase[q] # "writing"
  BY DEF Begin, Settles
<1>2. \A q \in Thread : phase'[q] = "writing" <=> q = r
  BY <1>1 DEF Begin, RowTypeOK
<1>3. op[r] \in Operation /\ op' = op /\ versions' = versions
  BY OpType DEF Begin
<1>4. op[r].kind = "CPut" => w[op[r].col] = op[r].v1
  BY <1>1 DEF Begin, CPutStatus
<1>5. r \notin begun /\ op[r].kind # "Get" /\ begun' = begun \union {r}
  BY DEF Begin, RequestInv
<1>6. after \in AnyRow
  BY <1>3, ConductRow
<1>7. Settles(after)'
  BY <1>1, <1>2, <1>3 DEF Settles
<1>8. Balance(after)'
  BY <1>3, <1>4, <1>5, BeginBalance
<1>9. OneWrite'
  BY <1>2 DEF OneWrite
<1>. QED
  BY <1>6, <1>7, <1>8, <1>9

\* A write on its way to the nodes leaves the settled row as it is.
LEMMA SpreadSettles ==
  ASSUME RowInv, whole, NEW r \in Thread, Spread(r) \/ Finish(r),
         NEW w \in AnyRow, Settles(w), Balance(w)
  PROVE  OneWrite' /\ Settles(w)' /\ Balance(w)'
<1>. USE DEF RowInv
<1>1. phase[r] = "writing" /\ \A q \in Thread : phase[q] = "writing" => q = r
  BY DEF Spread, Finish, RequestInv, OneWrite
<1>2. op[r] \in Operation /\ UNCHANGED <<op, begun>>
  BY OpType DEF Spread, Finish
<1>3. versions # {} /\ versions \subseteq AnyRow /\ \A v \in versions : Conduct(op[r], v) = w
  BY <1>1 DEF Settles, RowTypeOK, AnyRow
<1>4. Written(r) = {w} /\ Conduct(op[r], w) = w
  BY <1>2, <1>3, ConductTwice DEF Written
<1>5. Balance(w)'
  BY <1>2 DEF Balance, Takers, Givers, Held
<1>6. CASE Spread(r)
  <2>1. phase' = phase
    BY <1>1, <1>6 DEF Spread
  <2>2. versions' # {} /\ \A v \in versions' : Conduct(op[r], v) = w
    BY <1>3, <1>4, <1>6 DEF Spread
  <2>3. Settles(w)'
    BY <1>1, <1>2, <2>1, <2>2 DEF Settles, Conduct
  <2>. QED
    BY <1>5, <2>1, <2>3 DEF OneWrite
<1>7. CASE Finish(r)
  <2>1. \A q \in Thread : phase'[q] # "writing"
    BY <1>1, <1>7 DEF Finish, Answer, RowTypeOK
  <2>2. versions' = {w}
    BY <1>4, <1>7 DEF Finish
  <2>3. Settles(w)'
    BY <2>1, <2>2 DEF Settles
  <2>. QED
    BY <1>5, <2>1, <2>3 DEF OneWrite
<1>. QED
  BY <1>6, <1>7

\* So do requests that do not write.
LEMMA OtherSettles ==
  ASSUME RowInv, whole, NEW r \in Thread, Ask(r) \/ Fail(r) \/ Read(r) \/ Mismatch(r),
         NEW w \in AnyRow, Settles(w), Balance(w)
  PROVE  OneWrite' /\ Settles(w)' /\ Balance(w)'
<1>1. UNCHANGED <<op, versions, begun, whole>>
  BY DEF Ask, Fail, Read, Mismatch
<1>2. \A q \in Thread : phase'[q] = "writing" <=> phase[q] = "writing"
  BY DEF Ask, Fail, Read, Mismatch, Answer, RowTypeOK, RowInv
<1>3. OneWrite'
  BY <1>2 DEF OneWrite, RowInv
<1>. QED
  BY <1>1, <1>2, <1>3 DEF Settles, Balance, Takers, Givers, Held

LEMMA RowInvStep == RowInv /\ [RowNext]_rowVars => RowInv'
<1> SUFFICES ASSUME RowInv, [RowNext]_rowVars
             PROVE  RowInv'
  OBVIOUS
<1>. USE DEF RowInv
<1>1. ASSUME NEW r \in Thread, Ask(r) \/ Serve(r) \/ Spread(r)
      PROVE  RowInv'
  <2>1. RowTypeOK' /\ RequestInv'
    BY <1>1, ServeTypes, ServeKeeps, AskKeeps
  <2>2. whole' = whole /\ IsFiniteSet(begun')
    BY <1>1, FS_AddElement
    DEF Ask, Serve, Fail, Read, Mismatch, Begin, Finish, Spread
  <2>3. whole => OneWrite' /\ \E w \in AnyRow : Settles(w)' /\ Balance(w)'
    <3> SUFFICES ASSUME whole
                 PROVE  OneWrite' /\ \E w \in AnyRow : Settles(w)' /\ Balance(w)'
      OBVIOUS
    <3>1. PICK w \in AnyRow : Settles(w) /\ Balance(w)
      OBVIOUS
    <3>2. PICK after : after = Conduct(op[r], w)
      OBVIOUS
    <3>. QED
      BY <1>1, <3>1, <3>2, BeginSettles, SpreadSettles, OtherSettles DEF Serve
  <2>. QED
    BY <2>1, <2>2, <2>3
<1>2. CASE Break
  <2>1. whole' = FALSE /\ begun' = begun
    BY <1>2 DEF Break
  <2>. QED
    BY <1>2, <2>1, BreakTypes, CrashKeeps
<1>3. CASE UNCHANGED rowVars
  <2>1. \A w : (Settles(w) <=> Settles(w)') /\ (Balance(w) <=> Balance(w)')
    BY <1>3 DEF rowVars, Settles, Balance, Takers, Givers, Held
  <2>2. RowTypeOK' /\ RequestInv' /\ (OneWrite <=> OneWrite')
    BY <1>3 DEF rowVars, RowTypeOK, RequestInv, Writing, OneWrite
  <2>. QED
    BY <1>3, <2>1, <2>2 DEF rowVars
<1>. QED
  BY <1>1, <1>2, <1>3 DEF RowNext

LEMMA InitRowInv == RowInit => RowInv
<1> SUFFICES ASSUME RowInit
             PROVE  RowInv
  OBVIOUS
<1>1. RowTypeOK /\ RequestInv /\ OneWrite
  BY DEF RowInit, RowTypeOK, Phase, Answers, EmptyRow, RequestInv, OneWrite
<1>2. IsFiniteSet(begun)
  BY FS_EmptySet DEF RowInit
<1>3. EmptyRow \in AnyRow /\ Settles(EmptyRow)
  BY DEF RowInit, EmptyRow, AnyRow, Settles
<1>4. Balance(EmptyRow)
  <2> SUFFICES ASSUME NEW c \in Key, NEW v \in Value
               PROVE  Cardinality(Takers(c, v)) + Held(EmptyRow, c, v) <= Cardinality(Givers(c, v))
    BY DEF Balance
  <2>1. Takers(c, v) = {} /\ Givers(c, v) = {}
    BY DEF RowInit, Takers, Givers
  <2>2. Held(EmptyRow, c, v) = 0
    BY ValueAssumption DEF Held, EmptyRow
  <2>. QED
    BY <2>1, <2>2, FS_EmptySet
<1>. QED
  BY <1>1, <1>2, <1>3, <1>4 DEF RowInv

LEMMA RowInvariant == RowSpec => []RowInv
BY InitRowInv, RowInvStep, PTL DEF RowSpec

\* The row has one version whenever no write is under way, until the first crash.
LEMMA RowOneVersion == RowInv => OneVersion
BY DEF RowInv, Settles, OneVersion

\* As many writes of a value have begun as CPuts that replace it by another, and those that have
\* been answered OK are among them.
LEMMA RowBalance ==
  ASSUME RowInv, whole, NEW c \in Key, NEW v \in Value
  PROVE  /\ IsFiniteSet(Takers(c, v)) /\ IsFiniteSet(Givers(c, v))
         /\ Cardinality(Takers(c, v)) <= Cardinality(Givers(c, v))
         /\ {r \in Thread : reply[r] = "OK" /\ Replaces(op[r], c, v)} \subseteq Takers(c, v)
<1>1. PICK w : Balance(w)
  BY DEF RowInv
<1>2. IsFiniteSet(Takers(c, v)) /\ IsFiniteSet(Givers(c, v))
  BY FS_Subset DEF Takers, Givers, RowInv
<1>3. Cardinality(Takers(c, v)) <= Cardinality(Givers(c, v))
  BY <1>1, <1>2, FS_CardinalityType DEF Balance, Held
<1>4. {r \in Thread : reply[r] = "OK" /\ Replaces(op[r], c, v)} \subseteq Takers(c, v)
  BY DEF RowInv, RequestInv, Writing, Takers, Replaces
<1>. QED
  BY <1>2, <1>3, <1>4

-----------------------------------------------------------------------------
\* The settled row is one row.
LEMMA SettledUnique == \A w \in AnyRow : Settles(w) => Settled = w
<1> SUFFICES ASSUME NEW w \in AnyRow, Settles(w)
             PROVE  Settled = w
  OBVIOUS
<1>1. \A u : Settles(u) => u = w
  BY DEF Settles
<1>. QED
  BY <1>1 DEF Settled, AnyRow

LEMMA SettledUniqueNext == \A w \in AnyRow : Settles(w)' => Settled' = w
<1> SUFFICES ASSUME NEW w \in AnyRow, Settles(w)'
             PROVE  Settled' = w
  OBVIOUS
<1>1. \A u : Settles(u)' => u = w
  BY DEF Settles
<1>. QED
  BY <1>1 DEF Settled, AnyRow

\* Every step of the row that leaves all processes alive is a step of the atomic row, or none.
LEMMA AtomicStep ==
  ASSUME RowInv, whole', [RowNext]_rowVars
  PROVE  [Atomic!AtomicNext]_(Atomic!atomicVars)
<1> DEFINE asked == {r \in Thread : op[r].kind # "Get" /\ phase[r] # "idle"}
           answer == [r \in Thread |-> IF op[r].kind = "Get" THEN "none" ELSE reply[r]]
<1>. USE DEF RowInv
<1>1. CASE UNCHANGED rowVars
  BY <1>1 DEF rowVars, Atomic!atomicVars, Settled, Settles
<1>2. ASSUME NEW r \in Thread, Ask(r) \/ Serve(r) \/ Spread(r)
      PROVE  [Atomic!AtomicNext]_(Atomic!atomicVars)
  <2>1. whole /\ op' = op
    BY <1>2 DEF Ask, Serve, Fail, Read, Mismatch, Begin, Finish, Spread
  <2>2. PICK w \in AnyRow : Settles(w) /\ Balance(w)
    BY <2>1
  <2>3. Settled = w /\ (\A u \in AnyRow : Settles(u)' => Settled' = u)
    BY <2>2, SettledUnique, SettledUniqueNext
  <2>4. ~Begin(r) => Settled' = Settled
    BY <1>2, <2>1, <2>2, <2>3, SpreadSettles, OtherSettles DEF Serve
  <2>5. \A q \in Thread : phase[q] = "idle" => reply[q] = "none"
    BY DEF RequestInv
  <2>6. CASE Ask(r)
    <3>1. begun' = begun /\ answer' = answer
      BY <2>6 DEF Ask
    <3>2. asked' = IF op[r].kind = "Get" THEN asked ELSE asked \union {r}
      BY <2>6 DEF Ask, RowTypeOK
    <3>3. CASE op[r].kind = "Get"
      BY <2>1, <2>4, <2>6, <3>1, <3>2, <3>3 DEF Ask, Begin, Atomic!atomicVars
    <3>4. CASE op[r].kind # "Get"
      <4>1. Atomic!Submit(r)
        BY <2>1, <2>4, <2>6, <3>1, <3>2, <3>4 DEF Ask, Begin, Atomic!Submit
      <4>. QED
        BY <4>1 DEF Atomic!AtomicNext
    <3>. QED
      BY <3>3, <3>4
  <2>7. asked' = asked \/ Ask(r)
    BY <1>2, <2>1, ServeKeeps
  <2>8. CASE Fail(r) \/ Read(r) \/ Mismatch(r)
    <3>1. PICK s : /\ Answer(r, s)
                   /\ op[r].kind # "Get" => s \in Atomic!Reasons(r)
      <4>1. CASE Fail(r)
        BY <4>1 DEF Fail, Atomic!Reasons, Atomic!BadKey, BadKey
      <4>2. CASE Read(r)
        BY <4>2 DEF Read
      <4>3. CASE Mismatch(r)
        <5>1. versions = {Settled}
          BY <2>2, <2>3, <4>3 DEF Mismatch, Settles
        <5>. QED
          BY <4>3, <5>1 DEF Mismatch, Atomic!Reasons, Atomic!CPutStatus, CPutStatus
      <4>. QED
        BY <2>8, <4>1, <4>2, <4>3
    <3>2. phase[r] = "open" /\ reply[r] = "none" /\ r \notin begun
      BY <2>1, <2>8 DEF Fail, Read, Mismatch, RequestInv
    <3>3. begun' = begun /\ Settled' = Settled /\ asked' = asked
      BY <2>4, <2>7, <2>8, <3>2 DEF Fail, Read, Mismatch, Begin, Ask
    <3>4. answer' = IF op[r].kind = "Get" THEN answer ELSE [answer EXCEPT ![r] = s]
      BY <2>1, <3>1, <3>2 DEF Answer, RowTypeOK
    <3>5. CASE op[r].kind = "Get"
      BY <2>1, <3>3, <3>4, <3>5 DEF Atomic!atomicVars
    <3>6. CASE op[r].kind # "Get"
      <4>1. Atomic!Refuse(r)
        BY <2>1, <3>1, <3>2, <3>3, <3>4, <3>6 DEF Atomic!Refuse, Atomic!Open
      <4>. QED
        BY <4>1 DEF Atomic!AtomicNext
    <3>. QED
      BY <3>5, <3>6
  <2>9. CASE Begin(r)
    <3>1. PICK after : after = Conduct(op[r], w)
      OBVIOUS
    <3>2. Settled' = after
      BY <2>1, <2>2, <2>3, <2>9, <3>1, BeginSettles
    <3>3. Settled' = Atomic!Conduct(op[r], Settled)
      BY <2>3, <3>1, <3>2 DEF Atomic!Conduct, Conduct
    <3>4. /\ r \in asked /\ answer[r] = "none" /\ r \notin begun
          /\ begun' = begun \union {r} /\ answer' = answer /\ asked' = asked
      BY <2>1, <2>7, <2>9 DEF Begin, RequestInv, Ask
    <3>5. ~Atomic!BadKey(op[r]) /\ (op[r].kind = "CPut" => Atomic!CPutStatus(op[r], Settled) = "OK")
      <4>1. versions = {Settled}
        BY <2>2, <2>3, <2>9 DEF Begin, Settles
      <4>. QED
        BY <2>9, <4>1 DEF Begin, Atomic!BadKey, BadKey, Atomic!CPutStatus, CPutStatus
    <3>6. Atomic!Perform(r)
      BY <2>1, <3>3, <3>4, <3>5 DEF Atomic!Perform, Atomic!Open
    <3>. QED
      BY <3>6 DEF Atomic!AtomicNext
  <2>10. CASE Finish(r)
    <3>1. phase[r] = "writing" /\ r \in begun /\ reply[r] = "none" /\ Answer(r, "OK")
      BY <2>1, <2>10 DEF Finish, RequestInv
    <3>2. op[r].kind # "Get"
      BY <3>1 DEF RequestInv, Writing
    <3>3. begun' = begun /\ Settled' = Settled /\ asked' = asked
      BY <2>4, <2>7, <2>10, <3>1 DEF Finish, Begin, Ask
    <3>4. answer' = [answer EXCEPT ![r] = "OK"] /\ answer[r] = "none"
      BY <2>1, <3>1, <3>2 DEF Answer, RowTypeOK
    <3>5. Atomic!Confirm(r)
      BY <2>1, <3>1, <3>3, <3>4 DEF Atomic!Confirm
    <3>. QED
      BY <3>5 DEF Atomic!AtomicNext
  <2>11. CASE Spread(r)
    <3>1. phase[r] = "writing" /\ phase' = phase
      BY <2>1, <2>11 DEF Spread, RequestInv
    <3>2. begun' = begun /\ Settled' = Settled /\ asked' = asked /\ answer' = answer
      BY <2>1, <2>4, <2>11, <3>1 DEF Spread, Begin
    <3>. QED
      BY <2>1, <3>2 DEF Atomic!atomicVars
  <2>. QED
    BY <1>2, <2>6, <2>8, <2>9, <2>10, <2>11 DEF Serve
<1>3. ~Break
  BY DEF Break
<1>. QED
  BY <1>1, <1>2, <1>3 DEF RowNext

\* The row changes under its writers one write at a time.
LEMMA AtomicStart == RowInit => Atomic!AtomicInit
<1> SUFFICES ASSUME RowInit
             PROVE  Atomic!AtomicInit
  OBVIOUS
<1>1. EmptyRow \in AnyRow /\ Settles(EmptyRow)
  BY DEF RowInit, EmptyRow, AnyRow, Settles
<1>2. Settled = EmptyRow
  BY <1>1, SettledUnique
<1>. QED
  BY <1>2 DEF RowInit, Atomic!AtomicInit, Atomic!EmptyRow, EmptyRow, Atomic!Key, Key

LEMMA RowAtomic == RowSpec => AtomicWrites
<1>1. RowInv /\ [RowNext]_rowVars =>
        [whole' => [Atomic!AtomicNext]_(Atomic!atomicVars)]_rowVars
  BY AtomicStep
<1>. QED
  BY <1>1, AtomicStart, RowInvariant, PTL DEF RowSpec, AtomicWrites
====
