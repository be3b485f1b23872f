--------------------------- MODULE MailServerProofs ---------------------------
(***************************************************************************)
(* The mail server's table has a slot for each descriptor that is not      *)
(* given back, mailboxes have one writer, and mails go to named recipients *)
(* only, for any number of connections, users and slots; with the mail     *)
(* helper among its clients (WebMail) all of it still holds, because       *)
(* WebMail implements MailServer.                                          *)
(*                                                                         *)
(* The inductive invariant has a part for each group of variables (Table,  *)
(* Session, File), which together are more than TypeOK, the count of the   *)
(* taken slots (TableInv), and what holds while a worker is in a mailbox   *)
(* (DeliveryInv, LockInv).                                                 *)
(***************************************************************************)
EXTENDS WebMail, TLAPS, FiniteSetTheorems, SequenceTheorems

Label == {"none", "new", "ready", "released", "quit", "spin", "end", "lost", "deliver",
          "flock", "mutex", "write", "unlock", "unflock"}

Letter == [by : Worker, mail : Nat, rcpt : Nat, from : Sender \union {NoSender}]

TableTypes ==
  /\ active_connections \in [Slot -> Fd \union {NoFd}]
  /\ conn_cnt \in 0..MAX_CONNECTIONS
  /\ up \in BOOLEAN
  /\ pc \in [Worker -> Label]
  /\ comm_fd \in [Worker -> Fd \union {NoFd}]

SessionTypes ==
  /\ helo \in [Worker -> BOOLEAN]
  /\ initial_state \in [Worker -> BOOLEAN]
  /\ mail_from \in [Worker -> Sender \union {NoSender}]
  /\ rcpt_to \in [Worker -> Seq(Address)]
  /\ data_mode \in [Worker -> BOOLEAN]
  /\ mails \in [Worker -> 0..MaxMail]
  /\ named \in [Worker -> SUBSET Address]

\* Every recipient was named since the last RSET, and a local one is a user.
Envelope ==
  \A w \in Worker :
    /\ Len(rcpt_to[w]) <= MaxRcpt
    /\ \A i \in 1..Len(rcpt_to[w]) :
         /\ rcpt_to[w][i] \in named[w]
         /\ rcpt_to[w][i].local => rcpt_to[w][i].name \in User

FileTypes ==
  /\ next \in [Worker -> 1..(MaxRcpt + 1)]
  /\ fd \in [Worker -> Fd \union {NoFd}]
  /\ flocked \in [User -> Worker \union {NoWorker}]
  /\ user_locks \in [User -> Worker \union {NoWorker}]
  /\ mbox \in [User -> SUBSET Letter]

SlotsOf(f) == {i \in Slot : active_connections[i] = f}
Owners(f) == {w \in Worker : Registered(w) /\ comm_fd[w] = f}
Taken == {i \in Slot : active_connections[i] # NoFd}
Counted == {w \in Worker : Registered(w)}
Phantom == {w \in Worker : Registered(w) /\ comm_fd[w] = NoFd}

Served(w) == pc[w] \notin {"none", "new", "spin", "end"}

\* The slots that are taken are counted, and the workers on a failed accept as well; a connection
\* that is served has a descriptor.
TableInv ==
  /\ \A f \in Fd : Cardinality(SlotsOf(f)) = Cardinality(Owners(f))
  /\ conn_cnt = Cardinality(Counted)
  /\ conn_cnt = Cardinality(Taken) + Cardinality(Phantom)
  /\ \A w \in Worker : Served(w) => comm_fd[w] \in Fd

InMbox(w) == pc[w] \in {"flock", "mutex", "write", "unlock", "unflock"}

\* A worker in a mailbox is at one of its recipients, a local one, and holds the user's mutex from
\* the lock to the unlock.
DeliveryInv == \A w \in Worker : InMbox(w) => next[w] \in 1..Len(rcpt_to[w]) /\ Rcpt(w).local
LockInv == \A w \in Worker : pc[w] \in {"write", "unlock"} => user_locks[Rcpt(w).name] = w

IInv ==
  TableTypes /\ SessionTypes /\ Envelope /\ FileTypes /\ TableInv /\ DeliveryInv /\ LockInv

-----------------------------------------------------------------------------
\* Finite sets and descriptors.

LEMMA Bounds ==
  /\ MAX_CONNECTIONS \in Nat \ {0} /\ MaxRcpt \in Nat /\ MaxMail \in Nat
  /\ IsFiniteSet(Worker) /\ Cardinality(Worker) \in Nat
BY BoundsAssumption, WorkerAssumption, FS_CardinalityType

\* The sets that TableInv counts are finite.
LEMMA FiniteParts ==
  /\ IsFiniteSet(Slot) /\ Cardinality(Slot) = MAX_CONNECTIONS
  /\ \A f : IsFiniteSet(SlotsOf(f)) /\ IsFiniteSet(Owners(f))
  /\ IsFiniteSet(Taken) /\ IsFiniteSet(Counted) /\ IsFiniteSet(Phantom)
<1>1. IsFiniteSet(Slot) /\ Cardinality(Slot) = MAX_CONNECTIONS
  BY Bounds, FS_Interval DEF Slot
<1>2. ASSUME NEW f PROVE IsFiniteSet(SlotsOf(f)) /\ IsFiniteSet(Owners(f))
  <2>1. SlotsOf(f) \in SUBSET Slot /\ Owners(f) \in SUBSET Worker
    BY DEF SlotsOf, Owners
  <2> QED
    BY <1>1, <2>1, Bounds, FS_Subset
<1>3. IsFiniteSet(Taken) /\ IsFiniteSet(Counted) /\ IsFiniteSet(Phantom)
  <2>1. Taken \in SUBSET Slot /\ Counted \in SUBSET Worker /\ Phantom \in SUBSET Worker
    BY DEF Taken, Counted, Phantom
  <2> QED
    BY <1>1, <2>1, Bounds, FS_Subset
<1> QED
  BY <1>1, <1>2, <1>3

Below == {ss \in Nat \X Nat : ss[1] < ss[2]}

\* FirstOf returns a member of the set: of the free descriptors, of the slots.
LEMMA FirstOfMember ==
  ASSUME NEW S, S \subseteq Nat, S # {}
  PROVE  FirstOf(S) \in S
<1>1. IsWellFoundedOn(Below, Nat)
  BY NatLessThanWellFounded, Zenon DEF OpToRel, Below
<1>2. PICK x \in S : \A y \in S : ~ (<<y, x>> \in Below)
  BY <1>1, WFMin, Zenon
<1>3. ASSUME NEW y \in S PROVE x <= y
  <2>1. y \in Nat /\ x \in Nat
    OBVIOUS
  <2>2. ~(y < x)
    <3>1. SUFFICES ASSUME y < x PROVE <<y, x>> \in Below
      BY <1>2
    <3> QED
      BY <2>1, <3>1 DEF Below
  <2> QED
    BY <2>1, <2>2
<1> QED
  BY <1>3 DEF FirstOf

\* A worker that has no mailbox open can open one: each worker has two descriptors at most.
LEMMA FreeFdExists ==
  ASSUME NEW w \in Worker, ~FileOpen(w)
  PROVE  FreeFd \in Fd
<1> DEFINE Sockets == {x \in Worker : SocketOpen(x)}
           Files == {x \in Worker : FileOpen(x)}
           A == {comm_fd[x] : x \in Sockets}
           B == {fd[x] : x \in Files}
           n == Cardinality(Worker)
<1>1. IsFiniteSet(Sockets) /\ Cardinality(Sockets) <= n
  <2>1. Sockets \in SUBSET Worker
    OBVIOUS
  <2> QED
    BY <2>1, Bounds, FS_Subset
<1>2. IsFiniteSet(Files) /\ Cardinality(Files) <= n - 1
  <2>1. Files \in SUBSET (Worker \ {w})
    OBVIOUS
  <2>2. IsFiniteSet(Worker \ {w}) /\ Cardinality(Worker \ {w}) = n - 1
    BY Bounds, FS_RemoveElement
  <2> QED
    BY <2>1, <2>2, FS_Subset
<1>3. IsFiniteSet(A) /\ Cardinality(A) <= Cardinality(Sockets)
  <2> DEFINE g == [x \in Sockets |-> comm_fd[x]]
  <2>1. g \in Surjection(Sockets, A)
    BY DEF Surjection
  <2> QED
    BY <1>1, <2>1, FS_Surjection
<1>4. IsFiniteSet(B) /\ Cardinality(B) <= Cardinality(Files)
  <2> DEFINE g == [x \in Files |-> fd[x]]
  <2>1. g \in Surjection(Files, B)
    BY DEF Surjection
  <2> QED
    BY <1>2, <2>1, FS_Surjection
<1>5. IsFiniteSet(A \union B) /\ Cardinality(A \union B) < 2 * n
  <2>1. /\ IsFiniteSet(A \union B)
        /\ Cardinality(A \union B) = Cardinality(A) + Cardinality(B) - Cardinality(A \intersect B)
    BY <1>3, <1>4, FS_Union
  <2>2. Cardinality(A \intersect B) \in Nat
    BY <1>3, FS_Intersection, FS_CardinalityType
  <2>3. /\ Cardinality(A) \in Nat /\ Cardinality(B) \in Nat
        /\ Cardinality(Sockets) \in Nat /\ Cardinality(Files) \in Nat
    BY <1>1, <1>2, <1>3, <1>4, FS_CardinalityType
  <2> HIDE DEF A, B, Sockets, Files
  <2> QED
    BY <1>1, <1>2, <1>3, <1>4, <2>1, <2>2, <2>3, Bounds
<1>6. IsFiniteSet(Fd) /\ Cardinality(Fd) = 2 * n
  <2>1. n \in Nat /\ 1 \in Int /\ 2 * n \in Int
    BY Bounds
  <2> QED
    BY <2>1, FS_Interval DEF Fd
<1>7. Fd \ Used # {}
  <2>1. SUFFICES ASSUME Fd \in SUBSET (A \union B) PROVE FALSE
    BY DEF Used
  <2>2. Cardinality(Fd) <= Cardinality(A \union B)
    BY <2>1, <1>5, FS_Subset
  <2>3. Cardinality(A \union B) \in Nat
    BY <1>5, FS_CardinalityType
  <2> HIDE DEF A, B
  <2> QED
    BY <1>5, <1>6, <2>2, <2>3, Bounds
<1>8. Fd \ Used \subseteq Nat
  BY Bounds DEF Fd
<1>9. FirstOf(Fd \ Used) \in Fd \ Used
  BY <1>7, <1>8, FirstOfMember
<1> QED
  BY <1>9 DEF FreeFd

-----------------------------------------------------------------------------
\* The initial states satisfy the invariant.
LEMMA InitIInv == Init => IInv
<1> SUFFICES ASSUME Init PROVE IInv
  OBVIOUS
<1> USE DEF Init
<1>1. TableTypes
  BY Bounds DEF TableTypes, Label
<1>2. SessionTypes
  BY Bounds DEF SessionTypes
<1>3. Envelope
  BY Bounds DEF Envelope
<1>4. FileTypes
  BY Bounds DEF FileTypes
<1>5. TableInv
  <2>1. \A f \in Fd : SlotsOf(f) = {} /\ Owners(f) = {}
    BY DEF SlotsOf, Owners, Registered, Fd, NoFd
  <2>2. Taken = {} /\ Counted = {} /\ Phantom = {}
    BY DEF Taken, Counted, Phantom, Registered
  <2>3. Cardinality({}) = 0
    BY FS_EmptySet
  <2>4. \A w \in Worker : Served(w) => comm_fd[w] \in Fd
    BY DEF Served
  <2>5. \A f \in Fd : Cardinality(SlotsOf(f)) = Cardinality(Owners(f))
    BY <2>1
  <2>6. conn_cnt = Cardinality(Counted) /\ conn_cnt = Cardinality(Taken) + Cardinality(Phantom)
    <3>1. conn_cnt = 0
      OBVIOUS
    <3>2. Cardinality(Counted) = 0 /\ Cardinality(Taken) = 0 /\ Cardinality(Phantom) = 0
      BY <2>2, <2>3
    <3> QED
      BY <3>1, <3>2
  <2> QED
    BY <2>4, <2>5, <2>6 DEF TableInv
<1>6. DeliveryInv /\ LockInv
  BY DEF DeliveryInv, LockInv, InMbox
<1> QED
  BY <1>1, <1>2, <1>3, <1>4, <1>5, <1>6 DEF IInv

-----------------------------------------------------------------------------
\* The table of connections.

\* A step that neither registers nor releases a connection, nor gives a registered one another
\* descriptor, leaves the table exact.
LEMMA TableQuiet ==
  ASSUME TableInv, UNCHANGED <<active_connections, conn_cnt>>,
         \A w \in Worker : Registered(w)' = Registered(w),
         \A w \in Worker : Registered(w) => comm_fd'[w] = comm_fd[w],
         \A w \in Worker : Served(w)' => comm_fd'[w] \in Fd
  PROVE  TableInv'
<1>1. /\ \A f : SlotsOf(f)' = SlotsOf(f) /\ Owners(f)' = Owners(f)
      /\ Taken' = Taken /\ Counted' = Counted /\ Phantom' = Phantom
  BY DEF SlotsOf, Owners, Taken, Counted, Phantom
<1> QED
  BY <1>1 DEF TableInv

\* A worker's step from one place to another, both inside or both outside the table.
LEMMA TableStays ==
  ASSUME IInv, NEW w \in Worker, NEW l \in Label, Goto(w, l), UNCHANGED tableVars,
         (l \in {"none", "new", "released", "end", "lost"}) = ~Registered(w),
         Served(w) \/ l \in {"end", "spin"}
  PROVE  TableInv'
<1>1. pc' = [pc EXCEPT ![w] = l] /\ pc \in [Worker -> Label]
  BY DEF Goto, IInv, TableTypes
<1>2. \A x \in Worker : Registered(x)' = Registered(x)
  BY <1>1 DEF Registered
<1>3. \A x \in Worker : Served(x)' => comm_fd'[x] \in Fd
  BY <1>1 DEF IInv, TableInv, Served, tableVars
<1> QED
  BY <1>2, <1>3, TableQuiet DEF IInv, tableVars

\* Register finds a free slot and takes it, unless accept has failed, and counts its worker.
LEMMA TableRegister ==
  ASSUME IInv, NEW w \in Worker, Register(w), conn_cnt < MAX_CONNECTIONS
  PROVE  TableTypes' /\ TableInv'
<1> DEFINE f == comm_fd[w]
           i == FirstOf({j \in Slot : active_connections[j] = NoFd})
           l == IF f = NoFd THEN "spin" ELSE "ready"
<1>1. f \in Fd \union {NoFd} /\ ~Registered(w) /\ NoFd \notin Fd
  BY DEF IInv, TableTypes, Register, Registered, NoFd, Fd
<1>2. i \in Slot /\ active_connections[i] = NoFd
  <2>1. Taken # Slot
    <3>1. Cardinality(Phantom) \in Nat /\ Cardinality(Taken) \in Nat
      BY FiniteParts, FS_CardinalityType
    <3> QED
      BY <3>1, FiniteParts, Bounds DEF IInv, TableInv, TableTypes
  <2>2. {j \in Slot : active_connections[j] = NoFd} # {}
    BY <2>1 DEF Taken
  <2>3. {j \in Slot : active_connections[j] = NoFd} \subseteq Nat
    BY DEF Slot
  <2> QED
    BY <2>2, <2>3, FirstOfMember
<1>3. /\ active_connections' = [active_connections EXCEPT ![i] = f]
      /\ conn_cnt' = conn_cnt + 1 /\ conn_cnt < MAX_CONNECTIONS
      /\ pc' = [pc EXCEPT ![w] = l]
      /\ UNCHANGED <<up, comm_fd>>
  BY DEF Register, Goto
<1> HIDE DEF i
<1>4. l \in {"spin", "ready"} /\ (l = "ready" => f \in Fd)
  BY <1>1
<1> HIDE DEF l
<1>5. TableTypes'
  BY <1>1, <1>2, <1>3, <1>4, Bounds DEF IInv, TableTypes, Label
<1>6. \A x \in Worker : Registered(x)' <=> Registered(x) \/ x = w
  BY <1>3, <1>4 DEF Registered, IInv, TableTypes
<1>7. Counted' = Counted \union {w} /\ w \notin Counted
  BY <1>1, <1>6 DEF Counted
<1>8. ASSUME NEW g \in Fd PROVE Cardinality(SlotsOf(g)') = Cardinality(Owners(g)')
  <2>1. CASE g = f
    <3>1. SlotsOf(g)' = SlotsOf(g) \union {i} /\ i \notin SlotsOf(g)
      BY <1>1, <1>2, <1>3, <2>1 DEF SlotsOf, IInv, TableTypes
    <3>2. Owners(g)' = Owners(g) \union {w} /\ w \notin Owners(g)
      BY <1>1, <1>3, <1>6, <2>1 DEF Owners
    <3>3. Cardinality(SlotsOf(g)') = Cardinality(SlotsOf(g)) + 1
      BY <3>1, FiniteParts, FS_AddElement
    <3>4. Cardinality(Owners(g)') = Cardinality(Owners(g)) + 1
      BY <3>2, FiniteParts, FS_AddElement
    <3> QED
      BY <3>3, <3>4 DEF IInv, TableInv
  <2>2. CASE g # f
    <3>1. SlotsOf(g)' = SlotsOf(g)
      BY <1>1, <1>2, <1>3, <2>2 DEF SlotsOf, IInv, TableTypes
    <3>2. Owners(g)' = Owners(g)
      BY <1>3, <1>6, <2>2 DEF Owners
    <3> QED
      BY <3>1, <3>2 DEF IInv, TableInv
  <2> QED
    BY <2>1, <2>2
<1>9. Cardinality(Counted') = conn_cnt + 1
  <2>1. Cardinality(Counted') = Cardinality(Counted) + 1
    BY <1>7, FiniteParts, FS_AddElement
  <2> QED
    BY <2>1 DEF IInv, TableInv
<1>10. Cardinality(Taken') + Cardinality(Phantom') = conn_cnt + 1
  <2>1. Cardinality(Phantom) \in Nat /\ Cardinality(Taken) \in Nat
    BY FiniteParts, FS_CardinalityType
  <2>2. CASE f = NoFd
    <3>1. Taken' = Taken
      BY <1>2, <1>3, <2>2 DEF Taken, IInv, TableTypes
    <3>2. Phantom' = Phantom \union {w} /\ w \notin Phantom
      BY <1>1, <1>3, <1>6, <2>2 DEF Phantom
    <3>3. Cardinality(Phantom') = Cardinality(Phantom) + 1
      BY <3>2, FiniteParts, FS_AddElement
    <3> QED
      BY <2>1, <3>1, <3>3 DEF IInv, TableInv
  <2>3. CASE f # NoFd
    <3>1. Taken' = Taken \union {i} /\ i \notin Taken
      BY <1>2, <1>3, <2>3 DEF Taken, IInv, TableTypes
    <3>2. Phantom' = Phantom
      BY <1>3, <1>6, <2>3 DEF Phantom
    <3>3. Cardinality(Taken') = Cardinality(Taken) + 1
      BY <3>1, FiniteParts, FS_AddElement
    <3> QED
      BY <2>1, <3>2, <3>3 DEF IInv, TableInv
  <2> QED
    BY <2>2, <2>3
<1>11. \A x \in Worker : Served(x)' => comm_fd'[x] \in Fd
  BY <1>3, <1>4 DEF IInv, TableInv, TableTypes, Served
<1> QED
  BY <1>3, <1>5, <1>8, <1>9, <1>10, <1>11 DEF TableInv

\* A connection that gives its slot back, in TooLong and after QUIT: some slot has its descriptor,
\* whichever connection took it, and one slot is given back.
LEMMA TableRelease ==
  ASSUME IInv, NEW w \in Worker, Registered(w), Served(w), Release(w),
         NEW l \in {"released", "end"}, Goto(w, l)
  PROVE  TableTypes' /\ TableInv'
<1> DEFINE f == comm_fd[w]
           i == FirstOf({j \in Slot : active_connections[j] = f})
<1>1. f \in Fd /\ w \in Owners(f) /\ w \in Counted
  BY DEF IInv, TableInv, Registered, Owners, Counted
<1>2. i \in Slot /\ active_connections[i] = f
  <2>1. SlotsOf(f) # {}
    <3>1. Cardinality(Owners(f)) # 0
      BY <1>1, FiniteParts, FS_EmptySet
    <3> QED
      BY <1>1, <3>1, FS_EmptySet DEF IInv, TableInv
  <2>2. SlotsOf(f) \subseteq Nat
    BY DEF SlotsOf, Slot
  <2>3. FirstOf(SlotsOf(f)) \in SlotsOf(f)
    BY <2>1, <2>2, FirstOfMember
  <2> QED
    BY <2>3 DEF SlotsOf
<1>3. /\ active_connections' = [active_connections EXCEPT ![i] = NoFd]
      /\ conn_cnt' = conn_cnt - 1
      /\ pc' = [pc EXCEPT ![w] = l]
      /\ UNCHANGED <<up, comm_fd>>
  BY DEF Release, Goto
<1> HIDE DEF i
<1>4. NoFd \notin Fd
  BY DEF NoFd, Fd
<1>5. conn_cnt - 1 \in 0..MAX_CONNECTIONS
  <2>1. Cardinality(Counted) # 0
    BY <1>1, FiniteParts, FS_EmptySet
  <2> QED
    BY <2>1, Bounds DEF IInv, TableInv, TableTypes
<1>6. TableTypes'
  BY <1>2, <1>3, <1>5 DEF IInv, TableTypes, Label
<1>7. \A x \in Worker : Registered(x)' <=> Registered(x) /\ x # w
  BY <1>3 DEF Registered, IInv, TableTypes
<1>8. Counted' = Counted \ {w}
  BY <1>7 DEF Counted
<1>9. /\ Taken' = Taken \ {i} /\ i \in Taken
      /\ Phantom' = Phantom
  BY <1>1, <1>2, <1>3, <1>4, <1>7 DEF Taken, Phantom, IInv, TableTypes
<1>10. ASSUME NEW g \in Fd PROVE Cardinality(SlotsOf(g)') = Cardinality(Owners(g)')
  <2>1. CASE g = f
    <3>1. SlotsOf(g)' = SlotsOf(g) \ {i} /\ i \in SlotsOf(g)
      BY <1>2, <1>3, <1>4, <2>1 DEF SlotsOf, IInv, TableTypes
    <3>2. Owners(g)' = Owners(g) \ {w} /\ w \in Owners(g)
      BY <1>1, <1>3, <1>7, <2>1 DEF Owners
    <3>3. Cardinality(SlotsOf(g)') = Cardinality(SlotsOf(g)) - 1
      BY <3>1, FiniteParts, FS_RemoveElement
    <3>4. Cardinality(Owners(g)') = Cardinality(Owners(g)) - 1
      BY <3>2, FiniteParts, FS_RemoveElement
    <3> QED
      BY <3>3, <3>4 DEF IInv, TableInv
  <2>2. CASE g # f
    <3>1. SlotsOf(g)' = SlotsOf(g)
      BY <1>2, <1>3, <1>4, <2>2 DEF SlotsOf, IInv, TableTypes
    <3>2. Owners(g)' = Owners(g)
      BY <1>3, <1>7, <2>2 DEF Owners
    <3> QED
      BY <3>1, <3>2 DEF IInv, TableInv
  <2> QED
    BY <2>1, <2>2
<1>11. Cardinality(Counted') = conn_cnt - 1
  BY <1>1, <1>8, FiniteParts, FS_RemoveElement DEF IInv, TableInv
<1>12. Cardinality(Taken') + Cardinality(Phantom') = conn_cnt - 1
  <2>1. Cardinality(Taken') = Cardinality(Taken) - 1
    BY <1>9, FiniteParts, FS_RemoveElement
  <2>2. Cardinality(Phantom) \in Nat /\ Cardinality(Taken) \in Nat
    BY FiniteParts, FS_CardinalityType
  <2> QED
    BY <1>9, <2>1, <2>2 DEF IInv, TableInv
<1>13. \A x \in Worker : Served(x)' => comm_fd'[x] \in Fd
  BY <1>1, <1>3 DEF IInv, TableInv, TableTypes, Served
<1> QED
  BY <1>3, <1>6, <1>10, <1>11, <1>12, <1>13 DEF TableInv

-----------------------------------------------------------------------------
\* Sessions and mailboxes.

\* A worker that is not in a mailbox after the step, and one that the step does not move, keep what
\* they hold.
LEMMA MboxQuiet ==
  ASSUME IInv, NEW w \in Worker, UNCHANGED user_locks,
         \A x \in Worker \ {w} : pc'[x] = pc[x] /\ rcpt_to'[x] = rcpt_to[x] /\ next'[x] = next[x],
         ~InMbox(w)'
  PROVE  DeliveryInv' /\ LockInv'
BY DEF IInv, DeliveryInv, LockInv, InMbox, Rcpt

\* A step of a worker within a mailbox that keeps its place in the list of recipients.
LEMMA MboxMoves ==
  ASSUME IInv, NEW w \in Worker, InMbox(w), UNCHANGED <<rcpt_to, next>>,
         \A x \in Worker \ {w} : pc'[x] = pc[x],
         pc'[w] \in {"write", "unlock"} => user_locks'[Rcpt(w).name] = w,
         \A x \in Worker \ {w}, u \in User : user_locks[u] = x => user_locks'[u] = x
  PROVE  DeliveryInv' /\ LockInv'
<1>1. DeliveryInv'
  BY DEF IInv, DeliveryInv, InMbox, Rcpt
<1>2. ASSUME NEW x \in Worker, pc'[x] \in {"write", "unlock"}
      PROVE  user_locks'[Rcpt(x).name] = x
  <2>1. CASE x = w
    BY <1>2, <2>1
  <2>2. CASE x # w
    <3>1. pc[x] \in {"write", "unlock"}
      BY <1>2, <2>2
    <3>2. user_locks[Rcpt(x).name] = x /\ Rcpt(x).name \in User
      BY <3>1 DEF IInv, DeliveryInv, LockInv, InMbox, Envelope, Rcpt
    <3> QED
      BY <2>2, <3>2
  <2> QED
    BY <2>1, <2>2
<1> QED
  BY <1>1, <1>2 DEF LockInv, Rcpt

\* The recipient a worker in a mailbox has reached is a local user that was named.
LEMMA RcptNamed ==
  ASSUME IInv, NEW w \in Worker, InMbox(w)
  PROVE  /\ Rcpt(w).name \in User
         /\ [name |-> Rcpt(w).name, local |-> TRUE] \in named[w]
<1>1. next[w] \in 1..Len(rcpt_to[w]) /\ Rcpt(w).local
  BY DEF IInv, DeliveryInv
<1>2. Rcpt(w) \in named[w] /\ Rcpt(w).name \in User
  BY <1>1 DEF IInv, Envelope, Rcpt
<1>3. Rcpt(w) \in [name : User \union {Stranger}, local : BOOLEAN]
  BY <1>2, AddressAssumption DEF IInv, SessionTypes
<1>4. Rcpt(w) = [name |-> Rcpt(w).name, local |-> TRUE]
  BY <1>1, <1>3
<1> QED
  BY <1>2, <1>4

\* Sessions: the commands.
LEMMA SessionStep ==
  ASSUME IInv, NEW w \in Worker, Session(w)
  PROVE  IInv'
<1> USE DEF IInv
<1>1. UNCHANGED fileVars /\ UNCHANGED tableVars /\ UNCHANGED next
  BY DEF Session, Helo, HeloEmpty, Data, Rset, Quit, EndData, MailFrom, RcptTo
<1>2. pc[w] = "ready" /\ ~InMbox(w)'
  BY DEF Session, Helo, HeloEmpty, Data, Rset, Quit, EndData, MailFrom, RcptTo, Command, Goto,
         InMbox, TableTypes
<1>3. pc' = pc \/ \E l \in {"quit", "deliver"} : Goto(w, l)
  BY DEF Session, Helo, HeloEmpty, Data, Rset, Quit, EndData, MailFrom, RcptTo
<1>4. TableTypes'
  BY <1>1, <1>3 DEF TableTypes, tableVars, Goto, Label
<1>5. TableInv'
  <2>1. CASE pc' = pc
    BY <1>1, <2>1, TableQuiet DEF tableVars, TableInv, Registered, Served
  <2>2. ASSUME NEW l \in {"quit", "deliver"}, Goto(w, l) PROVE TableInv'
    BY <1>1, <1>2, <2>2, TableStays DEF Label, Registered, Served
  <2> QED
    BY <1>3, <2>1, <2>2
<1>6. FileTypes'
  BY <1>1 DEF FileTypes, fileVars
<1>7. \A x \in Worker \ {w} : pc'[x] = pc[x] /\ rcpt_to'[x] = rcpt_to[x] /\ next'[x] = next[x]
  <2>1. pc' = pc \/ \E l : pc' = [pc EXCEPT ![w] = l]
    BY <1>3 DEF Goto
  <2>2. \A x \in Worker \ {w} : rcpt_to'[x] = rcpt_to[x]
    <3>1. CASE Rset(w)
      BY <3>1 DEF Rset, SessionTypes
    <3>2. ASSUME NEW a \in Address, RcptTo(w, a) PROVE \A x \in Worker \ {w} : rcpt_to'[x] = rcpt_to[x]
      BY <3>2 DEF RcptTo, SessionTypes
    <3>3. rcpt_to' = rcpt_to \/ Rset(w) \/ \E a \in Address : RcptTo(w, a)
      BY DEF Session, Helo, HeloEmpty, Data, Quit, EndData, MailFrom, sessionVars
    <3> QED
      BY <3>1, <3>2, <3>3
  <2> QED
    BY <1>1, <2>1, <2>2 DEF TableTypes
<1>8. DeliveryInv' /\ LockInv'
  BY <1>1, <1>2, <1>7, MboxQuiet DEF fileVars
<1>9. SessionTypes' /\ Envelope'
  <2>1. CASE Helo(w)
    BY <2>1 DEF Helo, SessionTypes, Envelope
  <2>2. CASE HeloEmpty(w)
    BY <2>2 DEF HeloEmpty, SessionTypes, Envelope
  <2>3. CASE Data(w)
    BY <2>3 DEF Data, SessionTypes, Envelope
  <2>4. CASE Rset(w)
    <3>1. SessionTypes'
      BY <2>4 DEF Rset, SessionTypes
    <3>2. Envelope'
      BY <2>4, Bounds DEF Rset, SessionTypes, Envelope
    <3> QED
      BY <3>1, <3>2
  <2>5. CASE Quit(w)
    BY <2>5 DEF Quit, SessionTypes, Envelope, sessionVars
  <2>6. CASE EndData(w)
    <3>1. mails' \in [Worker -> 0..MaxMail]
      BY <2>6, Bounds DEF EndData, SessionTypes
    <3> QED
      BY <2>6, <3>1 DEF EndData, SessionTypes, Envelope
  <2>7. ASSUME NEW s \in Sender, MailFrom(w, s) PROVE SessionTypes' /\ Envelope'
    BY <2>7 DEF MailFrom, SessionTypes, Envelope
  <2>8. ASSUME NEW a \in Address, RcptTo(w, a) PROVE SessionTypes' /\ Envelope'
    <3>1. /\ Len(rcpt_to[w]) < MaxRcpt /\ (a.local => a.name \in User)
          /\ rcpt_to' = [rcpt_to EXCEPT ![w] = Append(rcpt_to[w], a)]
          /\ named' = [named EXCEPT ![w] = named[w] \union {a}]
          /\ UNCHANGED <<helo, initial_state, mail_from, data_mode, mails>>
      BY <2>8 DEF RcptTo
    <3>2. rcpt_to[w] \in Seq(Address)
      BY DEF SessionTypes
    <3>3. /\ Append(rcpt_to[w], a) \in Seq(Address)
          /\ Len(Append(rcpt_to[w], a)) = Len(rcpt_to[w]) + 1
          /\ \A i \in 1..Len(rcpt_to[w]) : Append(rcpt_to[w], a)[i] = rcpt_to[w][i]
          /\ Append(rcpt_to[w], a)[Len(rcpt_to[w]) + 1] = a
          /\ Len(rcpt_to[w]) \in Nat
      BY <3>2, AppendProperties, LenProperties
    <3>4. SessionTypes'
      BY <3>1, <3>3 DEF SessionTypes
    <3>5. \A x \in Worker \ {w} : rcpt_to'[x] = rcpt_to[x] /\ named'[x] = named[x]
      BY <3>1 DEF SessionTypes
    <3>6. rcpt_to'[w] = Append(rcpt_to[w], a) /\ named'[w] = named[w] \union {a}
      BY <3>1 DEF SessionTypes
    <3>7. ASSUME NEW i \in 1..Len(rcpt_to'[w])
          PROVE  /\ rcpt_to'[w][i] \in named'[w]
                 /\ rcpt_to'[w][i].local => rcpt_to'[w][i].name \in User
      <4>1. i \in 1..Len(rcpt_to[w]) \/ i = Len(rcpt_to[w]) + 1
        BY <3>3, <3>6
      <4>2. CASE i \in 1..Len(rcpt_to[w])
        BY <3>3, <3>6, <4>2 DEF Envelope
      <4>3. CASE i = Len(rcpt_to[w]) + 1
        BY <3>1, <3>3, <3>6, <4>3
      <4> QED
        BY <4>1, <4>2, <4>3
    <3>8. Len(rcpt_to'[w]) <= MaxRcpt
      BY <3>1, <3>3, <3>6, Bounds
    <3>9. Envelope'
      BY <3>5, <3>7, <3>8 DEF Envelope
    <3> QED
      BY <3>4, <3>9
  <2> QED
    BY <2>1, <2>2, <2>3, <2>4, <2>5, <2>6, <2>7, <2>8 DEF Session
<1> QED
  BY <1>4, <1>5, <1>6, <1>8, <1>9

\* Connections: they come, are registered or turned away, and go.
LEMMA ConnectionStep ==
  ASSUME IInv, NEW w \in Worker, Connection(w)
  PROVE  IInv'
<1> USE DEF IInv
<1>1. UNCHANGED <<sessionVars, fileVars, next, mails>>
  BY DEF Connection, Accept, AcceptFails, NoThread, Admit, TurnAway, Register, TooLong, CloseReleased, ClientGone,
     QuitRelease
<1>2. \E l \in {"new", "lost", "ready", "released", "end", "spin"} : Goto(w, l)
  BY DEF Connection, Accept, AcceptFails, NoThread, Admit, TurnAway, Register, TooLong, CloseReleased, ClientGone,
     QuitRelease
<1>3. SessionTypes' /\ Envelope' /\ FileTypes'
  BY <1>1 DEF SessionTypes, Envelope, FileTypes, sessionVars, fileVars
<1>4. DeliveryInv' /\ LockInv'
  <2>1. ~InMbox(w)'
    BY <1>2 DEF Goto, InMbox, TableTypes
  <2>2. \A x \in Worker \ {w} : pc'[x] = pc[x] /\ rcpt_to'[x] = rcpt_to[x] /\ next'[x] = next[x]
    BY <1>1, <1>2 DEF Goto, TableTypes, sessionVars
  <2> QED
    BY <1>1, <2>1, <2>2, MboxQuiet DEF fileVars
<1>5. TableTypes' /\ TableInv'
  <2>1. CASE Accept(w) \/ AcceptFails(w) \/ NoThread(w)
    <3>1. pc[w] = "none" /\ FreeFd \in Fd
      BY <2>1, FreeFdExists DEF Accept, AcceptFails, NoThread, FileOpen
    <3>2. /\ \/ pc' = [pc EXCEPT ![w] = "new"]
             \/ pc' = [pc EXCEPT ![w] = "lost"] /\ comm_fd'[w] \in Fd
          /\ comm_fd' = comm_fd \/ comm_fd' = [comm_fd EXCEPT ![w] = FreeFd]
          /\ UNCHANGED <<active_connections, conn_cnt>>
      <4>1. CASE Accept(w)
        BY <4>1 DEF Accept, Goto, TableTypes
      <4>2. CASE AcceptFails(w)
        BY <4>2 DEF AcceptFails, Goto, TableTypes, tableVars
      <4>3. CASE NoThread(w)
        BY <3>1, <4>3 DEF NoThread, Goto, TableTypes
      <4> QED
        BY <2>1, <4>1, <4>2, <4>3
    <3>7. up' = up \/ up' \in BOOLEAN
      BY <2>1 DEF Accept, AcceptFails, NoThread, tableVars
    <3>3. TableTypes'
      BY <3>1, <3>2, <3>7 DEF TableTypes, Label
    <3>4. /\ \A x \in Worker : Registered(x)' = Registered(x)
          /\ \A x \in Worker : Registered(x) => comm_fd'[x] = comm_fd[x]
      BY <3>1, <3>2 DEF Registered, TableTypes
    <3>5. \A x \in Worker : Served(x)' => comm_fd'[x] \in Fd
      BY <3>1, <3>2 DEF TableTypes, TableInv, Served
    <3>6. TableInv'
      BY <3>2, <3>4, <3>5, TableQuiet
    <3> QED
      BY <3>3, <3>6
  <2>2. CASE conn_cnt < MAX_CONNECTIONS /\ Register(w)
    BY <2>2, TableRegister
  <2>3. CASE TooLong(w)
    BY <2>3, TableRelease DEF TooLong, Registered, Served
  <2>4. CASE QuitRelease(w)
    BY <2>4, TableRelease DEF QuitRelease, Registered, Served
  <2>5. CASE TurnAway(w) \/ CloseReleased(w) \/ ClientGone(w)
    <3>1. /\ UNCHANGED tableVars
          /\ \E l \in {"end", "spin"} : /\ Goto(w, l)
                                        /\ (l = "end") = ~Registered(w)
      BY <2>5 DEF TurnAway, CloseReleased, ClientGone, Registered
    <3>2. TableInv'
      BY <3>1, TableStays DEF Label
    <3>3. TableTypes'
      BY <3>1 DEF TableTypes, Label, Goto, tableVars
    <3> QED
      BY <3>2, <3>3
  <2> QED
    BY <2>1, <2>2, <2>3, <2>4, <2>5 DEF Connection, Admit
<1> QED
  BY <1>3, <1>4, <1>5

\* Delivery: a worker goes through its recipients.
LEMMA DeliveryStep ==
  ASSUME IInv, NEW w \in Worker, Delivery(w)
  PROVE  IInv'
<1> USE DEF IInv
<1>1. UNCHANGED <<tableVars, sessionVars, mails>>
  BY DEF Delivery, Skip, OpenMbox, Flock, LockUser, WriteMbox, UnlockUser, Unflock, Delivered
<1>2. pc[w] = "deliver" \/ InMbox(w)
  BY DEF Delivery, Skip, OpenMbox, Flock, LockUser, WriteMbox, UnlockUser, Unflock, Delivered,
         Delivering, InMbox
<1>3. pc' = pc \/ \E l \in {"flock", "mutex", "write", "unlock", "unflock", "deliver", "ready"} : Goto(w, l)
  BY DEF Delivery, Skip, OpenMbox, Flock, LockUser, WriteMbox, UnlockUser, Unflock, Delivered
<1>4. TableTypes'
  BY <1>1, <1>3 DEF TableTypes, tableVars, Goto, Label
<1>5. TableInv'
  <2>1. CASE pc' = pc
    BY <1>1, <2>1, TableQuiet DEF tableVars, TableInv, Registered, Served
  <2>2. ASSUME NEW l \in {"flock", "mutex", "write", "unlock", "unflock", "deliver", "ready"}, Goto(w, l)
        PROVE  TableInv'
    BY <1>1, <1>2, <2>2, TableStays DEF Label, Registered, Served, InMbox
  <2> QED
    BY <1>3, <2>1, <2>2
<1>6. SessionTypes' /\ Envelope'
  BY <1>1 DEF SessionTypes, Envelope, sessionVars
<1>7. InMbox(w) => Rcpt(w).name \in User
  BY RcptNamed
<1>8. \A x \in Worker \ {w} : pc'[x] = pc[x]
  BY <1>3 DEF Goto, TableTypes
<1>9. FileTypes' /\ DeliveryInv' /\ LockInv'
  <2>1. CASE Skip(w)
    <3>1. /\ pc[w] = "deliver" /\ pc' = pc /\ next[w] <= Len(rcpt_to[w])
          /\ next' = [next EXCEPT ![w] = @ + 1]
          /\ UNCHANGED <<fd, flocked, user_locks, mbox>>
      BY <2>1 DEF Skip, Delivering, fileVars
    <3>2. next[w] + 1 \in 1..(MaxRcpt + 1)
      <4>1. rcpt_to[w] \in Seq(Address) /\ next[w] \in 1..(MaxRcpt + 1) /\ Len(rcpt_to[w]) <= MaxRcpt
        BY DEF SessionTypes, FileTypes, Envelope
      <4>2. Len(rcpt_to[w]) \in Nat
        BY <4>1, LenProperties
      <4> QED
        BY <3>1, <4>1, <4>2, Bounds
    <3>3. FileTypes'
      BY <3>1, <3>2 DEF FileTypes
    <3>4. ~InMbox(w)' /\ \A x \in Worker \ {w} : next'[x] = next[x]
      BY <3>1 DEF InMbox, FileTypes
    <3> QED
      BY <1>1, <3>1, <3>3, <3>4, MboxQuiet DEF sessionVars
  <2>2. CASE OpenMbox(w)
    <3>1. /\ Delivering(w) /\ Rcpt(w).local /\ pc' = [pc EXCEPT ![w] = "flock"]
          /\ fd' = [fd EXCEPT ![w] = FreeFd]
          /\ UNCHANGED <<flocked, user_locks, mbox, next, rcpt_to>>
      BY <1>1, <2>2 DEF OpenMbox, Goto, sessionVars
    <3>2. FreeFd \in Fd
      BY <3>1, FreeFdExists DEF Delivering, FileOpen
    <3>3. FileTypes'
      BY <3>1, <3>2 DEF FileTypes
    <3>4. next[w] \in 1..Len(rcpt_to[w])
      <4>1. rcpt_to[w] \in Seq(Address) /\ next[w] \in 1..(MaxRcpt + 1)
        BY DEF SessionTypes, FileTypes
      <4>2. Len(rcpt_to[w]) \in Nat
        BY <4>1, LenProperties
      <4> QED
        BY <3>1, <4>1, <4>2, Bounds DEF Delivering
    <3>5. DeliveryInv'
      BY <1>8, <3>1, <3>4 DEF DeliveryInv, InMbox, Rcpt
    <3>6. LockInv'
      BY <1>8, <3>1 DEF LockInv, Rcpt, TableTypes
    <3> QED
      BY <3>3, <3>5, <3>6
  <2>3. CASE Flock(w)
    <3>1. /\ pc[w] = "flock" /\ pc' = [pc EXCEPT ![w] = "mutex"]
          /\ flocked' = [flocked EXCEPT ![Rcpt(w).name] = w]
          /\ UNCHANGED <<fd, user_locks, mbox, next, rcpt_to>>
      BY <1>1, <2>3 DEF Flock, Goto, sessionVars
    <3>2. FileTypes'
      BY <3>1 DEF FileTypes
    <3>3. InMbox(w) /\ pc'[w] = "mutex"
      BY <3>1 DEF InMbox, TableTypes
    <3> QED
      BY <1>8, <3>1, <3>2, <3>3, MboxMoves
  <2>4. CASE LockUser(w)
    <3>1. /\ pc[w] = "mutex" /\ user_locks[Rcpt(w).name] = NoWorker
          /\ user_locks' = [user_locks EXCEPT ![Rcpt(w).name] = w]
          /\ UNCHANGED <<fd, flocked, mbox, next, rcpt_to>>
      BY <1>1, <2>4 DEF LockUser, sessionVars
    <3>2. FileTypes'
      BY <3>1 DEF FileTypes
    <3>3. InMbox(w)
      BY <3>1 DEF InMbox
    <3>4. user_locks'[Rcpt(w).name] = w
      BY <1>7, <3>1, <3>3 DEF FileTypes
    <3>5. \A x \in Worker \ {w}, u \in User : user_locks[u] = x => user_locks'[u] = x
      BY <3>1, WorkerAssumption DEF FileTypes
    <3> QED
      BY <1>8, <3>1, <3>2, <3>3, <3>4, <3>5, MboxMoves
  <2>5. CASE WriteMbox(w)
    <3> DEFINE letter == [by |-> w, mail |-> mails[w], rcpt |-> next[w], from |-> mail_from[w]]
    <3>1. /\ pc[w] = "write" /\ pc' = [pc EXCEPT ![w] = "unlock"]
          /\ mbox' = [mbox EXCEPT ![Rcpt(w).name] = @ \union {letter}]
          /\ flocked' = [flocked EXCEPT ![Rcpt(w).name] = IF @ = w THEN NoWorker ELSE @]
          /\ UNCHANGED <<fd, user_locks, next, rcpt_to>>
      BY <1>1, <2>5 DEF WriteMbox, Goto, sessionVars
    <3>2. letter \in Letter
      <4>1. mails[w] \in Nat /\ next[w] \in Nat /\ mail_from[w] \in Sender \union {NoSender}
        BY Bounds DEF SessionTypes, FileTypes
      <4> QED
        BY <4>1 DEF Letter
    <3> HIDE DEF letter
    <3>3. mbox' \in [User -> SUBSET Letter] /\ flocked' \in [User -> Worker \union {NoWorker}]
      BY <3>1, <3>2 DEF FileTypes
    <3>4. FileTypes'
      BY <3>1, <3>3 DEF FileTypes
    <3>5. InMbox(w) /\ user_locks[Rcpt(w).name] = w
      BY <3>1 DEF InMbox, LockInv
    <3> QED
      BY <1>8, <3>1, <3>4, <3>5, MboxMoves
  <2>6. CASE UnlockUser(w)
    <3>1. /\ pc[w] = "unlock" /\ pc' = [pc EXCEPT ![w] = "unflock"]
          /\ user_locks' = [user_locks EXCEPT ![Rcpt(w).name] = NoWorker]
          /\ UNCHANGED <<fd, flocked, mbox, next, rcpt_to>>
      BY <1>1, <2>6 DEF UnlockUser, Goto, sessionVars
    <3>2. FileTypes'
      BY <3>1 DEF FileTypes
    <3>3. InMbox(w) /\ pc'[w] = "unflock" /\ user_locks[Rcpt(w).name] = w
      BY <3>1 DEF InMbox, TableTypes, LockInv
    <3>4. \A x \in Worker \ {w}, u \in User : user_locks[u] = x => user_locks'[u] = x
      BY <3>1, <3>3 DEF FileTypes
    <3> QED
      BY <1>8, <3>1, <3>2, <3>3, <3>4, MboxMoves
  <2>7. CASE Unflock(w)
    <3>1. /\ pc[w] = "unflock" /\ pc' = [pc EXCEPT ![w] = "deliver"]
          /\ fd' = [fd EXCEPT ![w] = NoFd]
          /\ next' = [next EXCEPT ![w] = @ + 1]
          /\ UNCHANGED <<user_locks, mbox, rcpt_to>>
      BY <1>1, <2>7 DEF Unflock, Goto, sessionVars
    <3>2. flocked' \in [User -> Worker \union {NoWorker}]
      BY <2>7 DEF Unflock, FileTypes
    <3>3. next[w] + 1 \in 1..(MaxRcpt + 1)
      <4>1. next[w] \in 1..Len(rcpt_to[w]) /\ Len(rcpt_to[w]) <= MaxRcpt /\ rcpt_to[w] \in Seq(Address)
        BY <3>1 DEF DeliveryInv, InMbox, Envelope, SessionTypes
      <4>2. Len(rcpt_to[w]) \in Nat
        BY <4>1, LenProperties
      <4> QED
        BY <4>1, <4>2, Bounds
    <3>4. FileTypes'
      BY <3>1, <3>2, <3>3 DEF FileTypes
    <3>5. ~InMbox(w)' /\ \A x \in Worker \ {w} : next'[x] = next[x]
      BY <3>1 DEF InMbox, FileTypes, TableTypes
    <3> QED
      BY <1>8, <3>1, <3>4, <3>5, MboxQuiet
  <2>8. CASE Delivered(w)
    <3>1. /\ pc' = [pc EXCEPT ![w] = "ready"] /\ next' = [next EXCEPT ![w] = 1]
          /\ UNCHANGED <<fd, flocked, user_locks, mbox, rcpt_to>>
      BY <1>1, <2>8 DEF Delivered, Goto, sessionVars, fileVars
    <3>2. FileTypes'
      BY <3>1, Bounds DEF FileTypes
    <3>3. ~InMbox(w)' /\ \A x \in Worker \ {w} : next'[x] = next[x]
      BY <3>1 DEF InMbox, FileTypes, TableTypes
    <3> QED
      BY <1>8, <3>1, <3>2, <3>3, MboxQuiet
  <2> QED
    BY <2>1, <2>2, <2>3, <2>4, <2>5, <2>6, <2>7, <2>8 DEF Delivery
<1> QED
  BY <1>4, <1>5, <1>6, <1>9

\* The invariant is kept by every step of the server.
LEMMA StepIInv == IInv /\ [Next]_vars => IInv'
<1> SUFFICES ASSUME IInv, [Next]_vars PROVE IInv'
  OBVIOUS
<1>1. ASSUME UNCHANGED <<active_connections, conn_cnt, comm_fd, sessionVars, fileVars, pc, next, mails>>,
             up' \in BOOLEAN
      PROVE  IInv'
  <2> USE <1>1 DEF IInv
  <2>1. TableTypes' /\ SessionTypes' /\ Envelope' /\ FileTypes'
    BY DEF TableTypes, SessionTypes, Envelope, FileTypes, sessionVars, fileVars
  <2>2. TableInv'
    BY TableQuiet DEF TableInv, Registered, Served
  <2>3. DeliveryInv' /\ LockInv'
    BY DEF DeliveryInv, LockInv, InMbox, Rcpt, sessionVars, fileVars
  <2> QED
    BY <2>1, <2>2, <2>3
<1>2. CASE Shutdown
  BY <1>1, <1>2 DEF Shutdown
<1>3. CASE UNCHANGED vars
  BY <1>1, <1>3 DEF vars, tableVars, IInv, TableTypes
<1>4. ASSUME NEW w \in Worker, Connection(w) PROVE IInv'
  BY <1>4, ConnectionStep
<1>5. ASSUME NEW w \in Worker, Session(w) PROVE IInv'
  BY <1>5, SessionStep
<1>6. ASSUME NEW w \in Worker, Delivery(w) PROVE IInv'
  BY <1>6, DeliveryStep
<1> QED
  BY <1>2, <1>3, <1>4, <1>5, <1>6 DEF Next

\* The invariant holds in every behaviour of the server.
LEMMA IInvCorrect == Spec => []IInv
BY InitIInv, StepIInv, PTL DEF Spec

-----------------------------------------------------------------------------
\* The state of the server keeps its types: conn_cnt stays within MAX_CONNECTIONS, local recipients
\* are users.
THEOREM TypeCorrect == Spec => []TypeOK
<1>1. IInv => TypeOK
  <2> SUFFICES ASSUME IInv PROVE TypeOK
    OBVIOUS
  <2> USE DEF IInv
  <2>1. \A w \in Worker : \A i \in 1..Len(rcpt_to[w]) : rcpt_to[w][i] \in Address
    BY ElementOfSeq DEF SessionTypes
  <2>2. \A u \in User : \A m \in mbox[u] : m.by \in Worker /\ m.from \in Sender \union {NoSender}
    BY DEF FileTypes, Letter
  <2> QED
    BY <2>1, <2>2 DEF TypeOK, TableTypes, SessionTypes, Envelope, FileTypes, Label
<1> QED
  BY <1>1, IInvCorrect, PTL

\* The table has a slot for each descriptor that has not been given back, and conn_cnt is ahead of
\* the slots by the workers of failed accepts, however many connections, slots and reused descriptors
\* there are.
THEOREM SlotsMatchCorrect == Spec => []SlotsMatch
<1>1. IInv => SlotsMatch
  BY DEF IInv, TableInv, SlotsMatch, SlotsOf, Owners, Taken, Phantom
<1> QED
  BY <1>1, IInvCorrect, PTL

\* A worker that is admitted finds an empty slot, also when failed accepts have put conn_cnt ahead of
\* the slots: no connection is served that signal_handler would not find.
THEOREM AdmittedFindsSlot ==
  Spec => [](conn_cnt < MAX_CONNECTIONS => \E i \in Slot : active_connections[i] = NoFd)
<1>1. ASSUME IInv, conn_cnt < MAX_CONNECTIONS PROVE \E i \in Slot : active_connections[i] = NoFd
  <2>1. Cardinality(Phantom) \in Nat /\ Cardinality(Taken) \in Nat
    BY FiniteParts, FS_CardinalityType
  <2>2. Taken # Slot
    BY <1>1, <2>1, FiniteParts, Bounds DEF IInv, TableInv, TableTypes
  <2> QED
    BY <2>2 DEF Taken
<1> QED
  BY <1>1, IInvCorrect, PTL

\* A mailbox has one writer at a time.
THEOREM OneWriterCorrect == Spec => []OneWriter
<1>1. IInv => OneWriter
  BY DEF IInv, LockInv, OneWriter
<1> QED
  BY <1>1, IInvCorrect, PTL

\* Steps of a worker that holds neither lock change nothing about who waits for whom.
LEMMA HoldersStay ==
  ASSUME IInv, LocksInOrder, NEW w \in Worker, UNCHANGED <<flocked, user_locks>>,
         pc[w] \notin {"mutex", "write", "unlock"},
         \A x \in Worker \ {w} : pc'[x] = pc[x] /\ rcpt_to'[x] = rcpt_to[x] /\ next'[x] = next[x]
  PROVE  LocksInOrder'
BY DEF LocksInOrder, Rcpt

LEMMA ChainDelivery ==
  ASSUME IInv, LocksInOrder, NEW w \in Worker, Delivery(w)
  PROVE  LocksInOrder'
<1>. USE WorkerAssumption DEF IInv, TableTypes, FileTypes, SessionTypes
<1> DEFINE u == Rcpt(w).name
<1>1. rcpt_to' = rcpt_to
  BY DEF Delivery, Skip, OpenMbox, Flock, LockUser, WriteMbox, UnlockUser, Unflock, Delivered,
     sessionVars
<1>2. CASE Skip(w) \/ OpenMbox(w) \/ Delivered(w)
  <2>1. UNCHANGED <<flocked, user_locks>> /\ pc[w] \notin {"mutex", "write", "unlock"}
    BY <1>2 DEF Skip, OpenMbox, Delivered, Delivering, fileVars
  <2>2. \A x \in Worker \ {w} : pc'[x] = pc[x] /\ next'[x] = next[x]
    BY <1>2 DEF Skip, OpenMbox, Delivered, Goto
  <2>. QED
    BY <1>1, <2>1, <2>2, HoldersStay
<1>3. CASE Flock(w)
  BY <1>1, <1>3 DEF Flock, Goto, LocksInOrder, Rcpt
<1>4. CASE LockUser(w)
  BY <1>1, <1>4 DEF LockUser, Goto, LocksInOrder, Rcpt
<1>5. CASE WriteMbox(w)
  <2>1. /\ pc[w] = "write" /\ pc' = [pc EXCEPT ![w] = "unlock"]
        /\ flocked' = [flocked EXCEPT ![u] = IF @ = w THEN NoWorker ELSE @]
        /\ UNCHANGED <<user_locks, next>>
    BY <1>5 DEF WriteMbox, Goto
  <2>. QED
    BY <1>1, <2>1 DEF LocksInOrder, Rcpt
<1>6. CASE UnlockUser(w)
  <2>1. user_locks[u] = w
    BY <1>6 DEF UnlockUser, LockInv
  <2>2. \A v \in User : user_locks'[v] # w
    BY <1>6, <2>1 DEF UnlockUser, LocksInOrder
  <2>. QED
    BY <1>1, <1>6, <2>2 DEF UnlockUser, Goto, LocksInOrder, Rcpt
<1>7. CASE Unflock(w)
  <2>1. \A v \in User : flocked'[v] \in {flocked[v], NoWorker}
    BY <1>7 DEF Unflock
  <2>2. /\ pc[w] = "unflock" /\ pc' = [pc EXCEPT ![w] = "deliver"]
        /\ next' = [next EXCEPT ![w] = @ + 1] /\ user_locks' = user_locks
    BY <1>7 DEF Unflock, Goto
  <2>. QED
    BY <1>1, <2>1, <2>2 DEF LocksInOrder, Rcpt
<1>. QED
  BY <1>2, <1>3, <1>4, <1>5, <1>6, <1>7 DEF Delivery

LEMMA ChainStep == IInv /\ LocksInOrder /\ [Next]_vars => LocksInOrder'
<1> SUFFICES ASSUME IInv, LocksInOrder, [Next]_vars
             PROVE  LocksInOrder'
  OBVIOUS
<1>. USE DEF IInv, TableTypes, SessionTypes
<1>1. ASSUME NEW w \in Worker, Connection(w)
      PROVE  LocksInOrder'
  <2>1. /\ UNCHANGED <<flocked, user_locks, rcpt_to, next>>
        /\ pc[w] \in {"none", "new", "ready", "released", "quit"}
    BY <1>1 DEF Connection, Accept, AcceptFails, NoThread, Admit, TurnAway, Register, TooLong, CloseReleased, ClientGone,
       QuitRelease, fileVars, sessionVars
  <2>2. \A x \in Worker \ {w} : pc'[x] = pc[x]
    BY <1>1 DEF Connection, Accept, AcceptFails, NoThread, Admit, TurnAway, Register, TooLong, CloseReleased, ClientGone,
       QuitRelease, Goto
  <2>. QED
    BY <2>1, <2>2, HoldersStay
<1>2. ASSUME NEW w \in Worker, Session(w)
      PROVE  LocksInOrder'
  <2>1. UNCHANGED <<flocked, user_locks, next>> /\ pc[w] = "ready"
    BY <1>2 DEF Session, Command, Helo, HeloEmpty, Data, Rset, Quit, EndData, MailFrom, RcptTo,
       fileVars
  <2>2. \A x \in Worker \ {w} : pc'[x] = pc[x] /\ rcpt_to'[x] = rcpt_to[x]
    BY <1>2 DEF Session, Helo, HeloEmpty, Data, Rset, Quit, EndData, MailFrom, RcptTo, Goto,
       sessionVars
  <2>. QED
    BY <2>1, <2>2, HoldersStay
<1>3. CASE Shutdown \/ UNCHANGED vars
  BY <1>3 DEF Shutdown, vars, fileVars, sessionVars, LocksInOrder, Rcpt
<1>. QED
  BY <1>1, <1>2, <1>3, ChainDelivery DEF Next

\* A worker that waits for a mailbox waits for one that goes on: flock and the user's mutex close no
\* circle, for any number of workers, users and recipients.
THEOREM LocksInOrderCorrect == Spec => []LocksInOrder
<1>1. Init => LocksInOrder
  BY WorkerAssumption DEF Init, LocksInOrder
<1>. QED
  BY <1>1, IInvCorrect, ChainStep, PTL DEF Spec

\* A mail goes to recipients named since the last RSET.
THEOREM DeliveredAsNamedCorrect == Spec => DeliveredAsNamed
<1> DEFINE AsNamed ==
      \A u \in User : \A m \in mbox'[u] \ mbox[u] : [name |-> u, local |-> TRUE] \in named[m.by]
<1>1. ASSUME IInv, [Next]_vars PROVE [AsNamed]_vars
  <2>1. ASSUME NEW w \in Worker, WriteMbox(w) PROVE AsNamed
    <3> DEFINE letter == [by |-> w, mail |-> mails[w], rcpt |-> next[w], from |-> mail_from[w]]
    <3>1. pc[w] = "write" /\ mbox' = [mbox EXCEPT ![Rcpt(w).name] = @ \union {letter}]
      BY <2>1 DEF WriteMbox
    <3>2. [name |-> Rcpt(w).name, local |-> TRUE] \in named[w]
      BY <1>1, <3>1, RcptNamed DEF InMbox
    <3>3. letter.by = w
      OBVIOUS
    <3> HIDE DEF letter
    <3>4. ASSUME NEW u \in User, NEW m \in mbox'[u] \ mbox[u] PROVE u = Rcpt(w).name /\ m = letter
      BY <1>1, <3>1 DEF IInv, FileTypes
    <3> QED
      BY <3>2, <3>3, <3>4
  <2>2. ASSUME UNCHANGED mbox PROVE AsNamed
    BY <2>2
  <2>3. CASE UNCHANGED vars
    BY <2>3
  <2>4. CASE Shutdown
    BY <2>2, <2>4 DEF Shutdown, fileVars
  <2>5. ASSUME NEW w \in Worker, Connection(w) PROVE AsNamed
    BY <2>2, <2>5 DEF Connection, Accept, AcceptFails, NoThread, Admit, TurnAway, Register, TooLong, CloseReleased, ClientGone,
       QuitRelease, fileVars
  <2>6. ASSUME NEW w \in Worker, Session(w) PROVE AsNamed
    BY <2>2, <2>6 DEF Session, Helo, HeloEmpty, Data, Rset, Quit, EndData, MailFrom, RcptTo, fileVars
  <2>7. ASSUME NEW w \in Worker, Delivery(w) PROVE AsNamed
    BY <2>1, <2>2, <2>7 DEF Delivery, Skip, OpenMbox, Flock, LockUser, UnlockUser, Unflock, Delivered,
       fileVars
  <2> QED
    BY <1>1, <2>3, <2>4, <2>5, <2>6, <2>7 DEF Next
<1> QED
  BY <1>1, IInvCorrect, PTL DEF Spec, DeliveredAsNamed

-----------------------------------------------------------------------------
\* The server with the mail helper among its clients does nothing the server alone does not do.
THEOREM ImplementsMailServer == WebSpec => Spec
<1>1. WebInit => Init
  BY DEF WebInit
<1>2. [WebNext]_webVars => [Next]_vars
  <2> SUFFICES ASSUME [WebNext]_webVars PROVE [Next]_vars
    OBVIOUS
  <2>1. ASSUME NEW h \in Helper, Call(h) PROVE UNCHANGED vars
    BY <2>1 DEF Call, ConnectHelper, SendCommand, Receive, HelperFails
  <2>2. ASSUME NEW h \in Helper, Attend(h) PROVE [Next]_vars
    <3>1. h \in Worker
      BY HelperAssumption
    <3>2. Connection(h) \/ Session(h) \/ Shutdown \/ UNCHANGED vars
      BY <2>2 DEF Attend, AcceptHelper, Greet, Obey, Take, BrokenPipe, HelperGone, Connection, Session
    <3> QED
      BY <3>1, <3>2 DEF Next
  <2>3. CASE UNCHANGED webVars
    BY <2>3 DEF webVars
  <2>4. ASSUME NEW w \in Worker \ Helper, Connection(w) \/ Session(w) \/ Delivery(w) PROVE Next
    BY <2>4 DEF Next
  <2> QED
    BY <2>1, <2>2, <2>3, <2>4 DEF WebNext, Next
<1> QED
  BY <1>1, <1>2, PTL DEF WebSpec, Spec

\* Helpers that close without QUIT leave their slots taken, but the table still has a slot for each
\* descriptor that was not given back.
THEOREM HelpersKeepSlots == WebSpec => []SlotsMatch
BY ImplementsMailServer, SlotsMatchCorrect, PTL
====
