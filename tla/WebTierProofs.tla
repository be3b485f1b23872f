---------------------------- MODULE WebTierProofs ----------------------------
(***************************************************************************)
(* Proofs about the load balancer and about the frontends around it, for   *)
(* any number of frontends, clients, browsers and operations.              *)
(*                                                                         *)
(* The balancer's counts stay balanced and its choices are made from       *)
(* complete rounds of probes: the invariant is inductive with what the     *)
(* prober leaves behind whenever it gives up mtx (RoundInv).  With the     *)
(* frontends, browsers and the admin console around it the balancer        *)
(* behaves as LoadBalancer says, threads are served one at a time, and     *)
(* main accepts one connection at most after a shutdown.                   *)
(***************************************************************************)
EXTENDS WebTier, WellFoundedInduction, SequenceTheorems, TLAPS

-----------------------------------------------------------------------------
\* The load balancer.

Below == {ss \in Nat \X Nat : ss[1] < ss[2]}

\* A set of natural numbers that is not empty has a least element, however large it is.
LEMMA LeastElement ==
  ASSUME NEW S, S \subseteq Nat, S # {}
  PROVE  \E p \in S : \A q \in S : p <= q
<1>1. IsWellFoundedOn(Below, Nat)
  BY NatLessThanWellFounded, Zenon DEF OpToRel, Below
<1>2. PICK p \in S : \A q \in S : ~ (<<q, p>> \in Below)
  BY <1>1, WFMin, Zenon
<1>3. ASSUME NEW q \in S PROVE p <= q
  <2>1. q \in Nat /\ p \in Nat
    OBVIOUS
  <2>2. ~(q < p)
    <3>1. SUFFICES ASSUME q < p PROVE <<q, p>> \in Below
      BY <1>2
    <3> QED
      BY <2>1, <3>1 DEF Below
  <2> QED
    BY <2>1, <2>2
<1> QED
  BY <1>3

\* FirstOf returns a member of the set (the maps of the code are ordered by port).
LEMMA FirstOfMember ==
  ASSUME NEW S, S \subseteq Nat, S # {}
  PROVE  FirstOf(S) \in S
BY LeastElement DEF FirstOf

\* SelectLeast returns one of the live ports, and none of them has a smaller count.
LEMMA SelectLeastChoice ==
  ASSUME NEW alive \in SUBSET Port, alive # {}, frontend_ports \in [Port -> Nat]
  PROVE  /\ SelectLeast(alive) \in alive
         /\ \A q \in alive : frontend_ports[SelectLeast(alive)] <= frontend_ports[q]
<1> DEFINE Counts == {frontend_ports[p] : p \in alive}
           Least == {p \in alive : \A q \in alive : frontend_ports[p] <= frontend_ports[q]}
<1>1. Counts \subseteq Nat /\ Counts # {}
  OBVIOUS
<1>2. PICK n \in Counts : \A k \in Counts : n <= k
  BY <1>1, LeastElement
<1>3. Least # {}
  BY <1>2
<1>4. Least \subseteq Nat
  BY PortAssumption
<1>5. FirstOf(Least) \in Least
  BY <1>3, <1>4, FirstOfMember
<1> QED
  BY <1>5 DEF SelectLeast

\* What the prober leaves behind: until a probe fails all frontends count as alive, and while mtx is
\* free frontend_status is what the last complete round has found.
RoundInv ==
  /\ ~failed => \A p \in Port : frontend_status[p]
  /\ ~mtx => answered = {p \in Port : frontend_status[p]}

IInv == TypeOK /\ RoundInv /\ Balanced

\* What PickPort chooses: a live port with the least count if there is one, else the first port.
LEMMA Choice ==
  ASSUME TypeOK, NEW alive, alive = {p \in Port : frontend_status[p]},
         NEW port, port = IF alive = {} THEN FirstOf(Port) ELSE SelectLeast(alive)
  PROVE  /\ port \in Port
         /\ alive # {} => /\ port \in alive
                          /\ \A q \in alive : frontend_ports[port] <= frontend_ports[q]
<1>1. IF alive = {} THEN port \in Port ELSE TRUE
  BY FirstOfMember, PortAssumption
<1>2. ASSUME alive # {}
      PROVE  port \in alive /\ \A q \in alive : frontend_ports[port] <= frontend_ports[q]
  BY <1>2, SelectLeastChoice DEF TypeOK
<1> QED
  BY <1>1, <1>2

\* The initial states satisfy the invariant (the constructor of LoadBalancer).
LEMMA InitIInv == Init => IInv
<1> SUFFICES ASSUME Init PROVE IInv
  OBVIOUS
<1>1. TypeOK
  BY DEF Init, TypeOK
<1>2. RoundInv
  BY DEF Init, RoundInv
<1>3. Balanced
  BY DEF Init, Balanced
<1> QED
  BY <1>1, <1>2, <1>3 DEF IInv

\* A choice keeps the invariant: it is the only step that counts a client.
LEMMA PickIInv ==
  ASSUME IInv, NEW c \in Client, PickPort(c)
  PROVE  IInv'
<1> DEFINE alive == {p \in Port : frontend_status[p]}
           port == IF alive = {} THEN FirstOf(Port) ELSE SelectLeast(alive)
<1>1. /\ port \in Port
      /\ alive # {} => port \in alive /\ \A q \in alive : frontend_ports[port] <= frontend_ports[q]
  BY Choice DEF IInv
<1>2. /\ frontend_ports' = [frontend_ports EXCEPT ![port] = @ + 1]
      /\ picked' = [picked EXCEPT ![c] = port]
      /\ pc' = [pc EXCEPT ![c] = "recv"]
      /\ UNCHANGED <<frontend_status, up, mtx, todo, answered, failed>>
  BY DEF PickPort
<1> HIDE DEF port
<1>3. TypeOK'
  BY <1>1, <1>2 DEF IInv, TypeOK
<1>4. RoundInv'
  BY <1>2 DEF IInv, RoundInv
<1>5. Balanced'
  <2> SUFFICES ASSUME ~failed, NEW p \in Port, NEW q \in Port
               PROVE  frontend_ports'[p] <= frontend_ports'[q] + 1
    BY <1>2 DEF Balanced
  <2>1. alive = Port
    BY DEF IInv, RoundInv
  <2>2. \A r \in Port : frontend_ports[port] <= frontend_ports[r]
    BY <1>1, <2>1
  <2>3. frontend_ports[p] <= frontend_ports[q] + 1
    BY DEF IInv, Balanced
  <2>4. frontend_ports \in [Port -> Nat]
    BY DEF IInv, TypeOK
  <2> QED
    BY <1>1, <1>2, <2>2, <2>3, <2>4
<1> QED
  BY <1>3, <1>4, <1>5 DEF IInv

\* The invariant is kept by every step of the prober, the connections and the frontends.
LEMMA StepIInv == IInv /\ [Next]_vars => IInv'
<1> SUFFICES ASSUME IInv, [Next]_vars PROVE IInv'
  OBVIOUS
<1> USE DEF IInv, TypeOK, RoundInv, Balanced
<1>1. CASE StartRound
  BY <1>1 DEF StartRound
<1>2. CASE EndRound
  BY <1>2 DEF EndRound
<1>3. ASSUME NEW p \in Port, Probe(p) PROVE IInv'
  BY <1>3 DEF Probe
<1>4. ASSUME NEW p \in Port, Toggle(p) PROVE IInv'
  BY <1>4 DEF Toggle
<1>5. ASSUME NEW c \in Client, Connect(c) PROVE IInv'
  BY <1>5 DEF Connect
<1>6. ASSUME NEW c \in Client, PickPort(c) PROVE IInv'
  BY <1>6, PickIInv
<1>7. ASSUME NEW c \in Client, Redirect(c) PROVE IInv'
  BY <1>7 DEF Redirect
<1>8. ASSUME NEW c \in Client, Drop(c) PROVE IInv'
  BY <1>8 DEF Drop
<1>9. CASE UNCHANGED vars
  BY <1>9 DEF vars
<1> QED
  BY <1>1, <1>2, <1>3, <1>4, <1>5, <1>6, <1>7, <1>8, <1>9 DEF Next

\* The invariant holds in every behaviour.
LEMMA IInvCorrect == Spec => []IInv
BY InitIInv, StepIInv, PTL DEF Spec

\* The state of the load balancer keeps its types; a thread that redirects has a port.
THEOREM TypeCorrect == Spec => []TypeOK
<1>1. IInv => TypeOK
  BY DEF IInv
<1> QED
  BY <1>1, IInvCorrect, PTL

\* While no probe fails the counts of two frontends differ by one at most.
THEOREM BalancedCorrect == Spec => []Balanced
<1>1. IInv => Balanced
  BY DEF IInv
<1> QED
  BY <1>1, IInvCorrect, PTL

\* No client is sent to a port that a half-finished round has found.
THEOREM PicksFromOneRoundCorrect == Spec => PicksFromOneRound
<1> DEFINE FromRound ==
      \A c \in Client : picked'[c] # picked[c] => picked'[c] \in answered \/ answered = {}
<1>1. ASSUME IInv, [Next]_vars PROVE [FromRound]_vars
  <2>1. ASSUME NEW c \in Client, PickPort(c) PROVE FromRound
    <3> DEFINE alive == {p \in Port : frontend_status[p]}
               port == IF alive = {} THEN FirstOf(Port) ELSE SelectLeast(alive)
    <3>1. answered = {} \/ port \in answered
      <4>1. answered = alive
        BY <1>1, <2>1 DEF IInv, RoundInv, PickPort
      <4>2. alive # {} => port \in alive
        BY <1>1, Choice DEF IInv
      <4> QED
        BY <4>1, <4>2
    <3>2. picked' = [picked EXCEPT ![c] = port]
      BY <2>1 DEF PickPort
    <3> HIDE DEF port
    <3>3. \A d \in Client : picked'[d] # picked[d] => picked'[d] = port
      BY <1>1, <3>2 DEF IInv, TypeOK
    <3> QED
      BY <3>1, <3>3
  <2>2. ASSUME UNCHANGED picked PROVE FromRound
    BY <2>2
  <2>3. IF UNCHANGED vars THEN TRUE ELSE UNCHANGED picked \/ \E c \in Client : PickPort(c)
    BY <1>1 DEF Next, StartRound, EndRound, Probe, Toggle, Connect, Redirect, Drop
  <2> QED
    BY <2>1, <2>2, <2>3
<1> QED
  BY <1>1, IInvCorrect, PTL DEF Spec, PicksFromOneRound

-----------------------------------------------------------------------------
\* The frontends.


Place == {"none", "queued", "thread", "recv", "handle", "send", "done", "failed"}

TierTypes ==
  /\ serving \in [Port -> BOOLEAN]
  /\ main \in [Port -> {"check", "accept", "exit", "down"}]
  /\ backlog \in [Port -> Seq(Conn \union {Knock})]
  /\ conn \in [Conn -> Place]
  /\ to \in [Conn -> Port \union {NoPort}]
  /\ asked \in [Conn -> Request]
  /\ late \in [Port -> Nat]

\* A frontend has a main thread and a queue of connections while its process runs.
Alive == \A p \in Port : /\ up[p] <=> main[p] # "down"
                         /\ backlog[p] # <<>> => up[p]

\* client_mutex has one owner.
Alone == \A x, y \in Conn : Holds(x) /\ Holds(y) /\ to[x] = to[y] => x = y

\* Until main has looked at the flag again it has accepted nobody too late, and it looks after each
\* connection.
LateInv ==
  \A p \in Port : /\ (serving[p] \/ main[p] = "accept") => late[p] = 0
                  /\ late[p] <= 1

TierInv == TierTypes /\ Alive /\ Alone /\ LateInv

-----------------------------------------------------------------------------
\* With the frontends, browsers and the console around it, the load balancer does nothing it does not
\* do alone: to it a frontend is a port that comes and goes.
THEOREM ImplementsBalancer == WebSpec => Spec
<1>1. WebInit => Init
  BY DEF WebInit
<1>2. IInv /\ [WebNext]_webVars => [Next]_vars
  <2> SUFFICES ASSUME IInv, [WebNext]_webVars PROVE [Next]_vars
    OBVIOUS
  <2>1. CASE Balancer
    BY <2>1 DEF Balancer, Next
  <2>2. ASSUME NEW p \in Port, ProbePort(p) PROVE Next
    BY <2>2 DEF ProbePort, Next
  <2>3. ASSUME NEW p, Gone(p) PROVE [Next]_vars
    <3>1. /\ up' = [up EXCEPT ![p] = FALSE]
          /\ UNCHANGED <<frontend_ports, frontend_status, mtx, todo, pc, picked, answered, failed>>
      BY <2>3 DEF Gone
    <3>2. up \in [Port -> BOOLEAN]
      BY DEF IInv, TypeOK
    <3>3. CASE p \in Port /\ up[p]
      <4>1. up' = [up EXCEPT ![p] = ~@]
        BY <3>1, <3>3
      <4>2. Toggle(p)
        BY <3>1, <4>1 DEF Toggle
      <4> QED
        BY <3>3, <4>2 DEF Next
    <3>4. CASE ~(p \in Port /\ up[p])
      <4>1. up' = up
        BY <3>1, <3>2, <3>4
      <4> QED
        BY <3>1, <4>1 DEF vars
    <3> QED
      BY <3>3, <3>4
  <2>4. ASSUME NEW p \in Port, Boot(p) PROVE [Next]_vars
    <3>1. /\ up' = [up EXCEPT ![p] = TRUE]
          /\ UNCHANGED <<frontend_ports, frontend_status, mtx, todo, pc, picked, answered, failed>>
      BY <2>4 DEF Boot
    <3>2. up \in [Port -> BOOLEAN]
      BY DEF IInv, TypeOK
    <3>3. CASE ~up[p]
      <4>1. up' = [up EXCEPT ![p] = ~@]
        BY <3>1, <3>3
      <4>2. Toggle(p)
        BY <3>1, <4>1 DEF Toggle
      <4> QED
        BY <4>2 DEF Next
    <3>4. CASE up[p]
      <4>1. up' = up
        BY <3>1, <3>2, <3>4
      <4> QED
        BY <3>1, <4>1 DEF vars
    <3> QED
      BY <3>3, <3>4
  <2>5. ASSUME NEW p \in Port, Main(p) PROVE [Next]_vars
    BY <2>3, <2>5 DEF Main, MainCheck, MainAccept, AcceptFails, Exit
  <2>6. ASSUME NEW p \in Port, Crash(p) PROVE [Next]_vars
    BY <2>3, <2>6 DEF Crash
  <2>7. ASSUME NEW x \in Conn, Lock(x) \/ Recv(x) \/ Serve(x) PROVE [Next]_vars
    BY <2>3, <2>7 DEF Lock, Recv, Serve, Handle, HandleStopped, FallOff, Respond, Reply
  <2>8. ASSUME NEW c \in Client, Browse(c) \/ HangUp(c) PROVE UNCHANGED vars
    BY <2>8 DEF Browse, Open, HangUp
  <2>9. ASSUME NEW a \in Admin, Manage(a) PROVE UNCHANGED vars
    BY <2>9 DEF Manage, Open
  <2>10. CASE UNCHANGED webVars
    BY <2>10 DEF webVars
  <2> QED
    BY <2>1, <2>2, <2>4, <2>5, <2>6, <2>7, <2>8, <2>9, <2>10 DEF WebNext
<1>3. IInv /\ [WebNext]_webVars => IInv'
  BY <1>2, StepIInv
<1> QED
  BY <1>1, <1>2, <1>3, InitIInv, PTL DEF WebSpec, Spec

\* What holds of the load balancer alone holds here.
LEMMA BalancerInv == WebSpec => []IInv
BY ImplementsBalancer, IInvCorrect, PTL

-----------------------------------------------------------------------------
\* The initial states satisfy the invariant.
LEMMA InitTierInv == WebInit => TierInv
<1> SUFFICES ASSUME WebInit PROVE TierInv
  OBVIOUS
<1> USE DEF WebInit
<1>1. up \in [Port -> BOOLEAN]
  BY DEF Init
<1>2. TierTypes
  BY <1>1 DEF TierTypes, Place, Request
<1>3. Alive
  BY <1>1 DEF Alive
<1>4. Alone /\ LateInv
  BY DEF Alone, Holds, LateInv
<1> QED
  BY <1>2, <1>3, <1>4 DEF TierInv

\* No connection gets the mutex in a step in which no connection begins to hold it or moves to
\* another frontend while it does.
LEMMA AloneQuiet ==
  ASSUME Alone, \A x \in Conn : Holds(x)' => Holds(x) /\ to'[x] = to[x]
  PROVE  Alone'
BY DEF Alone

\* A thread's step that changes neither its frontend nor the queue.
LEMMA ThreadStays ==
  ASSUME IInv, TierInv, NEW x \in Conn, NEW l \in Place, Step(x, l),
         l \in {"recv", "handle", "send"} => Holds(x),
         UNCHANGED <<up, main, backlog, to, asked>>
  PROVE  /\ conn' \in [Conn -> Place]
         /\ Alive' /\ Alone'
<1>1. conn' = [conn EXCEPT ![x] = l] /\ conn \in [Conn -> Place]
  BY DEF Step, TierInv, TierTypes
<1>2. \A y \in Conn : Holds(y)' => Holds(y) /\ to'[y] = to[y]
  BY <1>1 DEF Holds
<1>3. Alone'
  BY <1>2, AloneQuiet DEF TierInv
<1>4. Alive'
  BY DEF TierInv, Alive
<1> QED
  BY <1>1, <1>3, <1>4

\* The end of a process, whatever ends it.
LEMMA GoneStep ==
  ASSUME IInv, TierInv, NEW p, Gone(p)
  PROVE  TierInv'
<1> USE DEF TierInv
<1>1. /\ up' = [up EXCEPT ![p] = FALSE]
      /\ main' = [main EXCEPT ![p] = "down"]
      /\ backlog' = [backlog EXCEPT ![p] = <<>>]
      /\ conn' = [x \in Conn |->
           IF to[x] = p /\ conn[x] \notin {"none", "done"} THEN "failed" ELSE conn[x]]
      /\ serving' = [serving EXCEPT ![p] = TRUE]
      /\ late' = [late EXCEPT ![p] = 0]
      /\ UNCHANGED <<to, asked>>
  BY DEF Gone
<1>2. up \in [Port -> BOOLEAN]
  BY DEF IInv, TypeOK
<1>3. TierTypes'
  <2>1. conn' \in [Conn -> Place]
    BY <1>1 DEF TierTypes, Place
  <2>2. backlog' \in [Port -> Seq(Conn \union {Knock})]
    BY <1>1, EmptySeq DEF TierTypes
  <2> QED
    BY <1>1, <2>1, <2>2 DEF TierTypes
<1>4. Alive'
  BY <1>1, <1>2 DEF Alive, TierTypes
<1>5. Alone'
  <2>1. \A x \in Conn : Holds(x)' => Holds(x) /\ to'[x] = to[x]
    BY <1>1 DEF Holds
  <2> QED
    BY <2>1, AloneQuiet
<1>6. LateInv'
  BY <1>1 DEF LateInv, TierTypes
<1> QED
  BY <1>3, <1>4, <1>5, <1>6

\* Connections that are opened by browsers and by the console.
LEMMA OpenStep ==
  ASSUME IInv, TierInv, NEW x \in Conn, NEW p \in Port, NEW r \in Request, Open(x, p, r)
  PROVE  TierInv'
<1> USE DEF TierInv
<1>1. /\ conn[x] = "none"
      /\ to' = [to EXCEPT ![x] = p]
      /\ asked' = [asked EXCEPT ![x] = r]
      /\ conn' = [conn EXCEPT ![x] = IF up[p] THEN "queued" ELSE "failed"]
      /\ backlog' = IF up[p] THEN [backlog EXCEPT ![p] = Append(backlog[p], x)] ELSE backlog
      /\ UNCHANGED <<up, serving, main, late>>
  BY DEF Open, vars
<1>2. Append(backlog[p], x) \in Seq(Conn \union {Knock})
  BY AppendProperties DEF TierTypes
<1>3. TierTypes'
  <2>1. backlog' \in [Port -> Seq(Conn \union {Knock})]
    BY <1>1, <1>2 DEF TierTypes
  <2> QED
    BY <1>1, <2>1 DEF TierTypes, Place
<1>4. Alive'
  BY <1>1 DEF Alive, TierTypes
<1>5. Alone'
  <2>1. \A y \in Conn : Holds(y)' => Holds(y) /\ to'[y] = to[y]
    BY <1>1 DEF Holds, TierTypes
  <2> QED
    BY <2>1, AloneQuiet
<1>6. LateInv'
  BY <1>1 DEF LateInv
<1> QED
  BY <1>3, <1>4, <1>5, <1>6

\* The prober's connection.
LEMMA ProbeStep ==
  ASSUME IInv, TierInv, NEW p \in Port, ProbePort(p)
  PROVE  TierInv'
<1> USE DEF TierInv
<1>1. /\ \/ backlog' = backlog
         \/ up[p] /\ backlog' = [backlog EXCEPT ![p] = Append(backlog[p], Knock)]
      /\ UNCHANGED <<up, serving, main, late, conn, to, asked>>
  BY DEF ProbePort, Probe, connVars
<1>2. Append(backlog[p], Knock) \in Seq(Conn \union {Knock})
  BY AppendProperties DEF TierTypes
<1>3. TierTypes'
  BY <1>1, <1>2 DEF TierTypes
<1>4. Alive'
  BY <1>1 DEF Alive, TierTypes
<1>5. Alone' /\ LateInv'
  BY <1>1 DEF Alone, Holds, LateInv
<1> QED
  BY <1>3, <1>4, <1>5

\* The main thread.
LEMMA MainStep ==
  ASSUME IInv, TierInv, NEW p \in Port, Main(p)
  PROVE  TierInv'
<1> USE DEF TierInv
<1>1. CASE MainCheck(p)
  <2>1. /\ main[p] = "check"
        /\ main' = [main EXCEPT ![p] = IF serving[p] THEN "accept" ELSE "exit"]
        /\ UNCHANGED <<up, serving, backlog, late, conn, to, asked>>
    BY <1>1 DEF MainCheck, vars, connVars
  <2>2. TierTypes' /\ Alive'
    BY <2>1 DEF TierTypes, Alive
  <2>3. Alone'
    BY <2>1 DEF Alone, Holds
  <2>4. LateInv'
    BY <2>1 DEF LateInv, TierTypes
  <2> QED
    BY <2>2, <2>3, <2>4
<1>2. CASE MainAccept(p)
  <2> DEFINE x == Head(backlog[p])
  <2>1. /\ main[p] = "accept" /\ backlog[p] # <<>>
        /\ backlog' = [backlog EXCEPT ![p] = Tail(backlog[p])]
        /\ conn' = IF x = Knock THEN conn ELSE [conn EXCEPT ![x] = "thread"]
        /\ late' = [late EXCEPT ![p] = IF serving[p] THEN late[p] ELSE late[p] + 1]
        /\ main' = [main EXCEPT ![p] = "check"]
        /\ UNCHANGED <<up, serving, to, asked>>
    BY <1>2 DEF MainAccept, vars
  <2>2. Tail(backlog[p]) \in Seq(Conn \union {Knock})
    BY <2>1, HeadTailProperties DEF TierTypes
  <2> HIDE DEF x
  <2>3. TierTypes'
    <3>1. conn' \in [Conn -> Place]
      BY <2>1 DEF TierTypes, Place
    <3>2. late' \in [Port -> Nat]
      BY <2>1 DEF TierTypes
    <3> QED
      BY <2>1, <2>2, <3>1, <3>2 DEF TierTypes
  <2>4. Alive'
    BY <2>1 DEF Alive, TierTypes
  <2>5. Alone'
    <3>1. \A y \in Conn : Holds(y)' => Holds(y) /\ to'[y] = to[y]
      BY <2>1 DEF Holds, TierTypes
    <3> QED
      BY <3>1, AloneQuiet
  <2>6. LateInv'
    <3>1. late[p] = 0
      BY <2>1 DEF LateInv
    <3>2. \A q \in Port \ {p} : late'[q] = late[q] /\ main'[q] = main[q]
      BY <2>1 DEF TierTypes
    <3>3. late'[p] = (IF serving[p] THEN 0 ELSE 1) /\ main'[p] = "check"
      BY <2>1, <3>1 DEF TierTypes
    <3> QED
      BY <2>1, <3>2, <3>3 DEF LateInv
  <2> QED
    BY <2>3, <2>4, <2>5, <2>6
<1>3. CASE AcceptFails(p)
  <2>1. /\ main[p] = "accept" /\ main' = [main EXCEPT ![p] = "check"]
        /\ UNCHANGED <<up, serving, backlog, late, conn, to, asked>>
    BY <1>3 DEF AcceptFails, vars, connVars
  <2>2. TierTypes' /\ Alive'
    BY <2>1 DEF TierTypes, Alive
  <2>3. Alone' /\ LateInv'
    BY <2>1 DEF Alone, Holds, LateInv, TierTypes
  <2> QED
    BY <2>2, <2>3
<1>4. CASE Exit(p)
  BY <1>4, GoneStep DEF Exit
<1> QED
  BY <1>1, <1>2, <1>3, <1>4 DEF Main

\* A frontend that is started.
LEMMA BootStep ==
  ASSUME IInv, TierInv, NEW p \in Port, Boot(p)
  PROVE  TierInv'
<1> USE DEF TierInv
<1>1. /\ main[p] = "down"
      /\ up' = [up EXCEPT ![p] = TRUE]
      /\ main' = [main EXCEPT ![p] = "check"]
      /\ UNCHANGED <<serving, backlog, late, conn, to, asked>>
  BY DEF Boot, connVars
<1>2. up \in [Port -> BOOLEAN]
  BY DEF IInv, TypeOK
<1>3. TierTypes' /\ Alive'
  BY <1>1, <1>2 DEF TierTypes, Alive
<1>4. Alone' /\ LateInv'
  BY <1>1 DEF Alone, Holds, LateInv, TierTypes
<1> QED
  BY <1>3, <1>4

\* The threads of handle_client.
LEMMA ThreadStep ==
  ASSUME IInv, TierInv, NEW x \in Conn, Lock(x) \/ Recv(x) \/ Serve(x) \/ HangUp(x)
  PROVE  TierInv'
<1> USE DEF TierInv
<1>1. CASE Lock(x)
  <2>1. /\ conn[x] = "thread" /\ ~Locked(to[x])
        /\ conn' = [conn EXCEPT ![x] = "recv"]
        /\ UNCHANGED <<up, serving, main, backlog, late, to, asked>>
    BY <1>1 DEF Lock, Step, vars, feVars
  <2>2. TierTypes' /\ Alive' /\ LateInv'
    BY <2>1 DEF TierTypes, Alive, LateInv, Place
  <2>3. \A y \in Conn : Holds(y)' => y = x \/ Holds(y)
    BY <2>1 DEF Holds, TierTypes
  <2>4. \A y \in Conn : Holds(y) => to[y] # to[x]
    BY <2>1 DEF Locked
  <2>5. Alone'
    BY <2>1, <2>3, <2>4 DEF Alone
  <2> QED
    BY <2>2, <2>5
<1>2. CASE Recv(x) \/ HangUp(x) \/ Respond(x)
  <2>1. \E l \in {"handle", "failed", "done"} :
          /\ Step(x, l) /\ (l = "handle" => Holds(x))
          /\ UNCHANGED <<up, serving, main, backlog, late, to, asked>>
    BY <1>2 DEF Recv, HangUp, Respond, Holds, vars, feVars
  <2>2. conn' \in [Conn -> Place] /\ Alive' /\ Alone'
    BY <2>1, ThreadStays DEF Place
  <2> QED
    BY <2>1, <2>2 DEF TierTypes, LateInv
<1>3. CASE Handle(x) \/ HandleStopped(x)
  <2>1. /\ Step(x, "send") /\ Holds(x)
        /\ UNCHANGED <<up, main, backlog, to, asked>>
        /\ \/ UNCHANGED <<serving, late>>
           \/ \E flag \in BOOLEAN : SetServing(x, flag)
    BY <1>3 DEF Handle, HandleStopped, Reply, Holds, vars
  <2>2. conn' \in [Conn -> Place] /\ Alive' /\ Alone'
    BY <2>1, ThreadStays DEF Place
  <2>3. serving' \in [Port -> BOOLEAN] /\ late' \in [Port -> Nat] /\ LateInv'
    <3>1. CASE UNCHANGED <<serving, late>>
      BY <2>1, <3>1 DEF TierTypes, LateInv
    <3>2. ASSUME NEW flag \in BOOLEAN, SetServing(x, flag)
          PROVE  serving' \in [Port -> BOOLEAN] /\ late' \in [Port -> Nat] /\ LateInv'
      <4>1. /\ serving' = [serving EXCEPT ![to[x]] = flag]
            /\ late' = [late EXCEPT ![to[x]] = 0]
        BY <3>2 DEF SetServing
      <4>2. \A q \in Port : late'[q] = 0 \/ (late'[q] = late[q] /\ serving'[q] = serving[q])
        BY <4>1 DEF TierTypes
      <4>3. LateInv'
        BY <2>1, <4>2 DEF LateInv
      <4> QED
        BY <4>1, <4>3 DEF TierTypes
    <3> QED
      BY <2>1, <3>1, <3>2
  <2> QED
    BY <2>1, <2>2, <2>3 DEF TierTypes
<1>4. CASE FallOff(x)
  <2>1. CASE Gone(to[x])
    BY <2>1, GoneStep
  <2>2. CASE Step(x, "failed") /\ UNCHANGED <<vars, feVars, to, asked>>
    <3>1. UNCHANGED <<up, serving, main, backlog, late, to, asked>>
      BY <2>2 DEF vars, feVars
    <3>2. conn' \in [Conn -> Place] /\ Alive' /\ Alone'
      BY <2>2, <3>1, ThreadStays DEF Place
    <3> QED
      BY <3>1, <3>2 DEF TierTypes, LateInv
  <2> QED
    BY <1>4, <2>1, <2>2 DEF FallOff
<1> QED
  BY <1>1, <1>2, <1>3, <1>4 DEF Serve

\* The invariant is kept by every step.
LEMMA StepTierInv == IInv /\ TierInv /\ [WebNext]_webVars => TierInv'
<1> SUFFICES ASSUME IInv, TierInv, [WebNext]_webVars PROVE TierInv'
  OBVIOUS
<1>1. ASSUME UNCHANGED <<up, feVars, connVars>> PROVE TierInv'
  BY <1>1 DEF TierInv, TierTypes, Alive, Alone, LateInv, Holds, feVars, connVars
<1>2. CASE Balancer
  BY <1>1, <1>2 DEF Balancer, StartRound, EndRound, Connect, PickPort, Redirect, Drop
<1>3. CASE UNCHANGED webVars
  BY <1>1, <1>3 DEF webVars, vars
<1>4. ASSUME NEW p \in Port, ProbePort(p) \/ Main(p) \/ Crash(p) \/ Boot(p) PROVE TierInv'
  BY <1>4, ProbeStep, MainStep, GoneStep, BootStep DEF Crash
<1>5. ASSUME NEW c \in Client, Browse(c) PROVE TierInv'
  <2>1. picked[c] \in Port /\ Open(c, picked[c], "page")
    BY <1>5 DEF Browse, IInv, TypeOK
  <2> QED
    BY <2>1, OpenStep DEF Conn, Request
<1>6. ASSUME NEW c \in Client, HangUp(c) PROVE TierInv'
  BY <1>6, ThreadStep DEF Conn
<1>7. ASSUME NEW a \in Admin, Manage(a) PROVE TierInv'
  <2>1. PICK p \in Port, r \in {"status", "shutdown", "restart"} : Open(a, p, r)
    BY <1>7 DEF Manage
  <2> QED
    BY <2>1, OpenStep DEF Conn, Request
<1>8. ASSUME NEW x \in Conn, Lock(x) \/ Recv(x) \/ Serve(x) PROVE TierInv'
  BY <1>8, ThreadStep
<1> QED
  BY <1>2, <1>3, <1>4, <1>5, <1>6, <1>7, <1>8 DEF WebNext

\* The invariant holds in every behaviour.
LEMMA TierInvCorrect == WebSpec => []TierInv
BY InitTierInv, StepTierInv, BalancerInv, PTL DEF WebSpec

-----------------------------------------------------------------------------
\* The state keeps its types, and client_mutex has one owner at each frontend.
THEOREM WebTypeCorrect == WebSpec => []WebTypeOK
<1>1. IInv /\ TierInv => WebTypeOK
  BY DEF IInv, TierInv, TierTypes, Alive, Alone, WebTypeOK, Place
<1> QED
  BY <1>1, BalancerInv, TierInvCorrect, PTL

\* After a shutdown main accepts one connection more at most.
THEOREM OneMoreClientCorrect == WebSpec => []OneMoreClient
<1>1. TierInv => OneMoreClient
  BY DEF TierInv, LateInv, OneMoreClient
<1> QED
  BY <1>1, TierInvCorrect, PTL
====
