----------------------------- MODULE LoadBalancer -----------------------------
(***************************************************************************)
(* The load balancer (loadbalancer/load_balancer.cc): a thread that probes *)
(* the frontend servers in rounds, and one thread per client connection    *)
(* that picks the frontend the client is redirected to.  Both use the      *)
(* mutex mtx; the prober keeps it while it sleeps between two rounds.      *)
(***************************************************************************)
EXTENDS Naturals

CONSTANTS Port,         \* the ports of the frontends, numbers as in the map
          Client        \* connections accepted by start_server

ASSUME PortAssumption == Port \subseteq Nat \ {0} /\ Port # {}

\* selected_port before a choice.
NoPort == 0

VARIABLES
  frontend_ports,   \* clients counted for each port
  frontend_status,  \* what the last probe of each port found
  up,               \* external: the frontend accepts connections
  mtx,              \* mtx is held by the prober
  todo,             \* ports the prober has not visited in this round
  pc,               \* how far each connection's thread is
  picked,           \* the frontend_port of each connection
  answered,         \* history: ports that answered in the last complete round
  failed            \* history: some probe has ever failed

vars == <<frontend_ports, frontend_status, up, mtx, todo, pc, picked, answered, failed>>

FirstOf(S) == CHOOSE p \in S : \A q \in S : p <= q

Init ==
  /\ frontend_ports = [p \in Port |-> 0]
  /\ frontend_status = [p \in Port |-> TRUE]
  /\ up \in [Port -> BOOLEAN]
  /\ mtx = FALSE
  /\ todo = {}
  /\ pc = [c \in Client |-> "idle"]
  /\ picked = [c \in Client |-> NoPort]
  /\ answered = Port
  /\ failed = FALSE

-----------------------------------------------------------------------------
\* update_frontend_servers.

StartRound ==
  /\ ~mtx
  /\ mtx' = TRUE
  /\ todo' = Port
  /\ UNCHANGED <<frontend_ports, frontend_status, up, pc, picked, answered, failed>>

\* is_frontend_alive: a connection attempt.
Probe(p) ==
  /\ mtx /\ p \in todo
  /\ frontend_status' = [frontend_status EXCEPT ![p] = up[p]]
  /\ todo' = todo \ {p}
  /\ failed' = (failed \/ ~up[p])
  /\ UNCHANGED <<frontend_ports, up, mtx, pc, picked, answered>>

\* A round that gives up the mutex before every port is probed.
ReleaseEarly ==
  /\ mtx
  /\ mtx' = FALSE
  /\ answered' = IF todo = {} THEN {p \in Port : frontend_status[p]} ELSE answered
  /\ UNCHANGED <<frontend_ports, frontend_status, up, todo, pc, picked, failed>>

\* After five seconds of sleep the lock_guard's scope ends.
EndRound ==
  /\ mtx /\ todo = {}
  /\ mtx' = FALSE
  /\ answered' = {p \in Port : frontend_status[p]}
  /\ UNCHANGED <<frontend_ports, frontend_status, up, todo, pc, picked, failed>>

-----------------------------------------------------------------------------
\* handle_client.

Connect(c) ==
  /\ pc[c] = "idle"
  /\ pc' = [pc EXCEPT ![c] = "pick"]
  /\ UNCHANGED <<frontend_ports, frontend_status, up, mtx, todo, picked, answered, failed>>

\* A choice of the port with the most clients.
SelectMost(alive) == CHOOSE p \in alive : \A q \in alive : frontend_ports[q] <= frontend_ports[p]

\* The first live port with the least count.
SelectLeast(alive) ==
  FirstOf({p \in alive : \A q \in alive : frontend_ports[p] <= frontend_ports[q]})

\* A choice without the branch for no live port.
PickAlive(c) ==
  LET alive == {p \in Port : frontend_status[p]}
      port == IF alive = {} THEN NoPort ELSE SelectLeast(alive)
  IN /\ pc[c] = "pick" /\ ~mtx
     /\ frontend_ports' = [frontend_ports EXCEPT ![port] = @ + 1]
     /\ picked' = [picked EXCEPT ![c] = port]
     /\ pc' = [pc EXCEPT ![c] = "recv"]
     /\ UNCHANGED <<frontend_status, up, mtx, todo, answered, failed>>

\* get_next_frontend_port; nobody ever takes the client off the count again.
PickPort(c) ==
  LET alive == {p \in Port : frontend_status[p]}
      port == IF alive = {} THEN FirstOf(Port) ELSE SelectLeast(alive)
  IN /\ pc[c] = "pick" /\ ~mtx
     /\ frontend_ports' = [frontend_ports EXCEPT ![port] = @ + 1]
     /\ picked' = [picked EXCEPT ![c] = port]
     /\ pc' = [pc EXCEPT ![c] = "recv"]
     /\ UNCHANGED <<frontend_status, up, mtx, todo, answered, failed>>

\* The request arrives and is answered with the redirection ...
Redirect(c) ==
  /\ pc[c] = "recv"
  /\ pc' = [pc EXCEPT ![c] = "sent"]
  /\ UNCHANGED <<frontend_ports, frontend_status, up, mtx, todo, picked, answered, failed>>

\* ... or recv fails, or the answer cannot be sent; the client stays counted.
Drop(c) ==
  /\ pc[c] = "recv"
  /\ pc' = [pc EXCEPT ![c] = "dropped"]
  /\ UNCHANGED <<frontend_ports, frontend_status, up, mtx, todo, picked, answered, failed>>

\* External: a frontend stops or starts.
Toggle(p) ==
  /\ up' = [up EXCEPT ![p] = ~@]
  /\ UNCHANGED <<frontend_ports, frontend_status, mtx, todo, pc, picked, answered, failed>>

-----------------------------------------------------------------------------
Next ==
  \/ StartRound \/ EndRound
  \/ \E p \in Port : Probe(p) \/ Toggle(p)
  \/ \E c \in Client : Connect(c) \/ PickPort(c) \/ Redirect(c) \/ Drop(c)

Spec == Init /\ [][Next]_vars

-----------------------------------------------------------------------------
\* The types of the state; a connection's thread that has left get_next_frontend_port has a port.
TypeOK ==
  /\ frontend_ports \in [Port -> Nat]
  /\ frontend_status \in [Port -> BOOLEAN]
  /\ up \in [Port -> BOOLEAN]
  /\ mtx \in BOOLEAN
  /\ todo \in SUBSET Port
  /\ pc \in [Client -> {"idle", "pick", "recv", "sent", "dropped"}]
  /\ picked \in [Client -> Port \union {NoPort}]
  /\ \A c \in Client : pc[c] \in {"recv", "sent", "dropped"} => picked[c] \in Port
  /\ answered \in SUBSET Port
  /\ failed \in BOOLEAN

\* As long as every probe has succeeded, no frontend is two clients ahead of another, however the
\* connections and the prober interleave (get_next_frontend_port).
Balanced ==
  ~failed => \A p, q \in Port : frontend_ports[p] <= frontend_ports[q] + 1

\* A client is redirected to a frontend that answered in the last complete round of probes if any
\* did: nobody picks from a round that is half done (update_frontend_servers keeps mtx).
PicksFromOneRound ==
  [][\A c \in Client :
       picked'[c] # picked[c] => picked'[c] \in answered \/ answered = {}]_vars
====
