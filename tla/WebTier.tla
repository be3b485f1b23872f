-------------------------------- MODULE WebTier --------------------------------
(***************************************************************************)
(* The frontend servers (frontend_servers/frontend_server.cc, the dispatch *)
(* in req_handling.cc) together with those who connect to them: the load   *)
(* balancer's prober, the browsers it has redirected, and the operations   *)
(* of the admin console (admin_console_server.cc, util.cc).                *)
(*                                                                         *)
(* A frontend is a process with a main thread that accepts and a thread    *)
(* per connection; the threads hold client_mutex from before recv to the   *)
(* end.  A connection is named after the client or the console operation   *)
(* that made it.                                                           *)
(***************************************************************************)
EXTENDS LoadBalancer, Sequences, SequencesExt

CONSTANTS Admin,        \* operations of the console, a thread each
          Knock         \* a connection of the prober, closed at once

ASSUME AdminAssumption == Admin \intersect Client = {} /\ Knock \notin Admin \union Client

Conn == Client \union Admin

\* "page" is all a browser asks for: handlePostRequests answers 503 to every POST whose URL does not
\* begin with /shutdown, so there are no sessions and no other request changes anything.
Request == {"page", "status", "shutdown", "restart"}

VARIABLES
  serving,  \* the flag of each frontend
  main,     \* its main thread: "check", "accept", "exit", or "down" without a process
  backlog,  \* connections main has not accepted, in order
  conn,     \* "none", "queued", "thread", "recv", "handle", "send", "done" or "failed"
  to,       \* the frontend of the connection
  asked,    \* its request
  late      \* history: connections accepted since serving was cleared

feVars == <<serving, main, backlog, late>>
connVars == <<conn, to, asked>>
webVars == <<vars, feVars, connVars>>

WebInit ==
  /\ Init
  /\ serving = [p \in Port |-> TRUE]
  /\ main = [p \in Port |-> IF up[p] THEN "check" ELSE "down"]
  /\ backlog = [p \in Port |-> <<>>]
  /\ late = [p \in Port |-> 0]
  /\ conn = [x \in Conn |-> "none"]
  /\ to = [x \in Conn |-> NoPort]
  /\ asked = [x \in Conn |-> "page"]

-----------------------------------------------------------------------------
\* Those who connect.

\* A probe that does not connect.
ProbeQuietly(p) == Probe(p) /\ UNCHANGED <<feVars, connVars>>

\* The prober's connection stays in the queue when it is closed; several in a row are one here.
ProbePort(p) ==
  /\ Probe(p)
  /\ backlog' = IF up[p] /\ ~Contains(backlog[p], Knock)
                  THEN [backlog EXCEPT ![p] = Append(@, Knock)] ELSE backlog
  /\ UNCHANGED <<serving, main, late, connVars>>

\* connect, then send the request; the client learns at once when nobody listens.
Open(x, p, request) ==
  /\ conn[x] = "none"
  /\ to' = [to EXCEPT ![x] = p]
  /\ asked' = [asked EXCEPT ![x] = request]
  /\ conn' = [conn EXCEPT ![x] = IF up[p] THEN "queued" ELSE "failed"]
  /\ backlog' = IF up[p] THEN [backlog EXCEPT ![p] = Append(@, x)] ELSE backlog
  /\ UNCHANGED <<vars, serving, main, late>>

\* A browser goes where the load balancer sent it.
Browse(c) == pc[c] = "sent" /\ Open(c, picked[c], "page")

\* disable_frontend, restart_frontend, check_frontend_status.
Manage(a) ==
  \E p \in Port, request \in {"status", "shutdown", "restart"} : Open(a, p, request)

Balancer ==
  /\ \/ StartRound \/ EndRound
     \/ \E c \in Client : Connect(c) \/ PickPort(c) \/ Redirect(c) \/ Drop(c)
  /\ UNCHANGED <<feVars, connVars>>

-----------------------------------------------------------------------------
\* run_server.

\* A loop that goes on whatever the flag says.
MainCheckNothing(p) ==
  /\ main[p] = "check"
  /\ main' = [main EXCEPT ![p] = "accept"]
  /\ UNCHANGED <<vars, serving, backlog, late, connVars>>

MainCheck(p) ==
  /\ main[p] = "check"
  /\ main' = [main EXCEPT ![p] = IF serving[p] THEN "accept" ELSE "exit"]
  /\ UNCHANGED <<vars, serving, backlog, late, connVars>>

\* The thread of a probe finds the connection closed and changes nothing.
MainAccept(p) ==
  LET x == Head(backlog[p]) IN
  /\ main[p] = "accept" /\ backlog[p] # <<>>
  /\ backlog' = [backlog EXCEPT ![p] = Tail(@)]
  /\ conn' = IF x = Knock THEN conn ELSE [conn EXCEPT ![x] = "thread"]
  /\ late' = [late EXCEPT ![p] = IF serving[p] THEN @ ELSE @ + 1]
  /\ main' = [main EXCEPT ![p] = "check"]
  /\ UNCHANGED <<vars, serving, to, asked>>

AcceptFails(p) ==
  /\ main[p] = "accept"
  /\ main' = [main EXCEPT ![p] = "check"]
  /\ UNCHANGED <<vars, serving, backlog, late, connVars>>

\* The process ends, its threads and connections with it.
Gone(p) ==
  /\ up' = [up EXCEPT ![p] = FALSE]
  /\ main' = [main EXCEPT ![p] = "down"]
  /\ backlog' = [backlog EXCEPT ![p] = <<>>]
  /\ conn' = [x \in Conn |->
       IF to[x] = p /\ conn[x] \notin {"none", "done"} THEN "failed" ELSE conn[x]]
  /\ serving' = [serving EXCEPT ![p] = TRUE]
  /\ late' = [late EXCEPT ![p] = 0]
  /\ UNCHANGED <<frontend_ports, frontend_status, mtx, todo, pc, picked, answered, failed,
                 to, asked>>

\* main returns.
Exit(p) == main[p] = "exit" /\ Gone(p)

\* External: the process is killed.
Crash(p) == up[p] /\ Gone(p)

\* External: somebody starts the frontend.
Boot(p) ==
  /\ main[p] = "down"
  /\ up' = [up EXCEPT ![p] = TRUE]
  /\ main' = [main EXCEPT ![p] = "check"]
  /\ UNCHANGED <<frontend_ports, frontend_status, mtx, todo, pc, picked, answered, failed,
                 serving, backlog, late, connVars>>

-----------------------------------------------------------------------------
\* handle_client.

Holds(x) == conn[x] \in {"recv", "handle", "send"}
Locked(p) == \E x \in Conn : to[x] = p /\ Holds(x)

Step(x, next) == conn' = [conn EXCEPT ![x] = next]

\* Threads that back off when they meet at the mutex.
LockAlone(x) ==
  /\ conn[x] = "thread" /\ \A y \in Conn \ {x} : to[y] = to[x] => conn[y] # "thread" /\ ~Holds(y)
  /\ Step(x, "recv")
  /\ UNCHANGED <<vars, feVars, to, asked>>

\* No client_mutex.
LockAnyway(x) ==
  /\ conn[x] = "thread"
  /\ Step(x, "recv")
  /\ UNCHANGED <<vars, feVars, to, asked>>

Lock(x) ==
  /\ conn[x] = "thread" /\ ~Locked(to[x])
  /\ Step(x, "recv")
  /\ UNCHANGED <<vars, feVars, to, asked>>

\* The request arrives; a browser may keep it waiting for as long as it likes ...
Recv(x) ==
  /\ conn[x] = "recv"
  /\ Step(x, "handle")
  /\ UNCHANGED <<vars, feVars, to, asked>>

\* ... or hang up.
HangUp(c) ==
  /\ conn[c] = "recv"
  /\ Step(c, "failed")
  /\ UNCHANGED <<vars, feVars, to, asked>>

Reply(x) ==
  /\ conn[x] = "handle"
  /\ Step(x, "send")
  /\ UNCHANGED <<vars, main, backlog, to, asked>>

SetServing(x, flag) ==
  /\ serving' = [serving EXCEPT ![to[x]] = flag]
  /\ late' = [late EXCEPT ![to[x]] = 0]

\* handleGetRequests, handlePostRequests: only a shutdown changes anything; a restart is not known
\* there and is told 401.
Handle(x) ==
  /\ conn[x] = "handle" /\ serving[to[x]]
  /\ Reply(x)
  /\ IF asked[x] = "shutdown" THEN SetServing(x, FALSE) ELSE UNCHANGED <<serving, late>>

\* handle_shutdown_requests.
HandleStopped(x) ==
  /\ conn[x] = "handle" /\ ~serving[to[x]] /\ asked[x] \in {"status", "restart"}
  /\ Reply(x)
  /\ IF asked[x] = "restart" THEN SetServing(x, TRUE) ELSE UNCHANGED <<serving, late>>

\* Any other request leaves handle_shutdown_requests without a return statement: undefined, taken
\* to send something that is no answer or to kill the process.
FallOff(x) ==
  /\ conn[x] = "handle" /\ ~serving[to[x]] /\ asked[x] \notin {"status", "restart"}
  /\ \/ Gone(to[x])
     \/ Step(x, "failed") /\ UNCHANGED <<vars, feVars, to, asked>>

\* send and close; the lock_guard ends.
Respond(x) ==
  /\ conn[x] = "send"
  /\ Step(x, "done")
  /\ UNCHANGED <<vars, feVars, to, asked>>

-----------------------------------------------------------------------------
Main(p) == MainCheck(p) \/ MainAccept(p) \/ AcceptFails(p) \/ Exit(p)
Serve(x) == Handle(x) \/ HandleStopped(x) \/ FallOff(x) \/ Respond(x)

WebNext ==
  \/ Balancer
  \/ \E p \in Port : ProbePort(p) \/ Main(p) \/ Crash(p) \/ Boot(p)
  \/ \E c \in Client : Browse(c) \/ HangUp(c)
  \/ \E a \in Admin : Manage(a)
  \/ \E x \in Conn : Lock(x) \/ Recv(x) \/ Serve(x)

WebSpec == WebInit /\ [][WebNext]_webVars

\* The prober runs for ever; main threads and handlers run while their process does, and accept
\* does not fail every time; the console sends its request as soon as it has connected.  Browsers
\* need not do anything.
FairWebSpec ==
  /\ WebSpec
  /\ WF_webVars((StartRound \/ EndRound) /\ UNCHANGED <<feVars, connVars>>)
  /\ \A p \in Port :
       /\ WF_webVars(ProbePort(p)) /\ WF_webVars(MainCheck(p)) /\ WF_webVars(Exit(p))
       /\ SF_webVars(MainAccept(p))
  /\ \A x \in Conn : WF_webVars(Lock(x)) /\ WF_webVars(Serve(x))
  /\ \A a \in Admin : WF_webVars(Recv(a))

-----------------------------------------------------------------------------
\* The types of the state; only the frontends that run have connections, and one at a time is
\* served.
WebTypeOK ==
  /\ TypeOK
  /\ serving \in [Port -> BOOLEAN]
  /\ main \in [Port -> {"check", "accept", "exit", "down"}]
  /\ \A p \in Port : up[p] <=> main[p] # "down"
  /\ \A p \in Port : backlog[p] # <<>> => up[p]
  /\ conn \in [Conn -> {"none", "queued", "thread", "recv", "handle", "send", "done", "failed"}]
  /\ to \in [Conn -> Port \union {NoPort}]
  /\ asked \in [Conn -> Request]
  /\ late \in [Port -> Nat]
  /\ \A x, y \in Conn : Holds(x) /\ Holds(y) /\ to[x] = to[y] => x = y

\* After a shutdown main accepts one connection more at most, though it was waiting for one or about
\* to when serving was cleared by another thread (run_server).
OneMoreClient == \A p \in Port : late[p] <= 1

\* A frontend that has been shut down ends, or is restarted before it does: main sits in accept, and
\* it is the load balancer's next probe that wakes it (run_server, update_frontend_servers).
ShutdownTakesEffect == \A p \in Port : ~serving[p] ~> serving[p] \/ ~up[p]

Pending(x) == conn[x] \notin {"none", "done", "failed"}

\* An operation of the console ends, however browsers, probes, shutdowns and crashes interleave,
\* unless a browser that sends nothing keeps client_mutex for ever (handle_client).
ConsoleEnds ==
  \A a \in Admin :
    Pending(a) ~> (~Pending(a) \/ [](\E c \in Client : conn[c] = "recv" /\ to[c] = to[a]))
====
