------------------------------ MODULE MailServer ------------------------------
(***************************************************************************)
(* The mail server (webmail/mailserver.cc): main accepts connections, a    *)
(* worker thread per connection speaks SMTP and appends the mail to the    *)
(* mailbox files of the local recipients.  Workers share the table of      *)
(* active connections, the process's file descriptors and the mailboxes.   *)
(*                                                                         *)
(* A worker serves one connection.  Commands that are refused for their    *)
(* syntax change nothing and are left out, as is NOOP.                     *)
(***************************************************************************)
EXTENDS Naturals, Sequences, FiniteSets

CONSTANTS Worker,
          User,             \* localhost_users
          Stranger,         \* a name that has no mailbox
          Address,          \* what RCPT TO may name: a name, and whether the domain is localhost
          Sender, NoSender, \* addresses of MAIL FROM; the empty strings
          NoWorker,         \* a free lock
          MAX_CONNECTIONS,
          MaxRcpt,          \* bound on rcpt_to
          MaxMail           \* bound on the mails of one connection

\* File descriptors; a worker never has more than its connection and one mailbox open.
Fd == 1..(2 * Cardinality(Worker))
NoFd == 0
Slot == 1..MAX_CONNECTIONS

ASSUME WorkerAssumption == IsFiniteSet(Worker) /\ NoWorker \notin Worker
ASSUME NameAssumption == Stranger \notin User /\ NoSender \notin Sender
ASSUME AddressAssumption == Address \subseteq [name : User \union {Stranger}, local : BOOLEAN]
ASSUME BoundsAssumption == MAX_CONNECTIONS \in Nat \ {0} /\ MaxRcpt \in Nat /\ MaxMail \in Nat

VARIABLES
  active_connections,   \* the descriptor in each slot, NoFd (the code's -1) when it is empty
  conn_cnt,
  up,                   \* the process runs
  pc,                   \* how far each worker is
  comm_fd,              \* the connection's descriptor; NoFd also if accept has failed
  helo,                 \* client_domain is not empty
  initial_state,
  mail_from,            \* mail_from_user and mail_from_domain
  rcpt_to,
  data_mode,
  next,                 \* the recipient the delivery has reached
  fd,                   \* descriptor of the mailbox, in the variable until flock(fd, LOCK_UN)
  flocked,              \* the worker whose descriptor holds flock on each mailbox
  user_locks,           \* the worker that holds each user's mutex
  mbox,                 \* the mails in each mailbox
  mails,                \* history: how many mails each worker has started to deliver
  named                 \* history: recipients accepted since the connection or RSET

tableVars == <<active_connections, conn_cnt, up, comm_fd>>
sessionVars == <<helo, initial_state, mail_from, rcpt_to, data_mode, named>>
fileVars == <<fd, flocked, user_locks, mbox>>
vars == <<tableVars, sessionVars, fileVars, pc, next, mails>>

Init ==
  /\ active_connections = [i \in Slot |-> NoFd]
  /\ conn_cnt = 0
  /\ up = TRUE
  /\ pc = [w \in Worker |-> "none"]
  /\ comm_fd = [w \in Worker |-> NoFd]
  /\ helo = [w \in Worker |-> FALSE]
  /\ initial_state = [w \in Worker |-> TRUE]
  /\ mail_from = [w \in Worker |-> NoSender]
  /\ rcpt_to = [w \in Worker |-> <<>>]
  /\ data_mode = [w \in Worker |-> FALSE]
  /\ next = [w \in Worker |-> 1]
  /\ fd = [w \in Worker |-> NoFd]
  /\ flocked = [u \in User |-> NoWorker]
  /\ user_locks = [u \in User |-> NoWorker]
  /\ mbox = [u \in User |-> {}]
  /\ mails = [w \in Worker |-> 0]
  /\ named = [w \in Worker |-> {}]

FirstOf(S) == CHOOSE x \in S : \A y \in S : x <= y

\* Descriptors in use: the connections that are not closed and the mailboxes between fopen and
\* fclose.  The kernel hands out the lowest free one.
FileOpen(w) == pc[w] \in {"flock", "mutex", "write"}
SocketOpen(w) == pc[w] \notin {"none", "quit", "end"}
Used == {comm_fd[w] : w \in {w \in Worker : SocketOpen(w)}}
          \union {fd[w] : w \in {w \in Worker : FileOpen(w)}}
FreeFd == FirstOf(Fd \ Used)

Goto(w, label) == pc' = [pc EXCEPT ![w] = label]

-----------------------------------------------------------------------------
\* Connections.

\* main: accept, and a thread for the connection.
Accept(w) ==
  /\ up /\ pc[w] = "none"
  /\ comm_fd' = [comm_fd EXCEPT ![w] = FreeFd]
  /\ Goto(w, "new")
  /\ UNCHANGED <<active_connections, conn_cnt, up, sessionVars, fileVars, next, mails>>

\* accept has failed and nobody looks: a thread starts for the descriptor -1.
AcceptFails(w) ==
  /\ up /\ pc[w] = "none"
  /\ Goto(w, "new")
  /\ UNCHANGED <<tableVars, sessionVars, fileVars, next, mails>>

\* pthread_create fails with a positive number, which is not < 0: the connection stays open with no
\* thread to serve it, and an indeterminate handle is detached, which may end the process.
NoThread(w) ==
  /\ up /\ pc[w] = "none"
  /\ comm_fd' = [comm_fd EXCEPT ![w] = FreeFd]
  /\ up' \in BOOLEAN
  /\ Goto(w, "lost")
  /\ UNCHANGED <<active_connections, conn_cnt, sessionVars, fileVars, next, mails>>

\* 421: no slot is left.
TurnAway(w) ==
  /\ up /\ pc[w] = "new"
  /\ Goto(w, "end")
  /\ UNCHANGED <<tableVars, sessionVars, fileVars, next, mails>>

\* The connection takes the first free slot and is greeted.  For the descriptor -1 this leaves the
\* slot empty, and recv fails for ever.
Register(w) ==
  /\ up /\ pc[w] = "new"
  /\ active_connections' =
       [active_connections EXCEPT ![FirstOf({i \in Slot : active_connections[i] = NoFd})] = comm_fd[w]]
  /\ conn_cnt' = conn_cnt + 1
  /\ Goto(w, IF comm_fd[w] = NoFd THEN "spin" ELSE "ready")
  /\ UNCHANGED <<up, comm_fd, sessionVars, fileVars, next, mails>>

\* The worker's first critical section.
Admit(w) == IF conn_cnt < MAX_CONNECTIONS THEN Register(w) ELSE TurnAway(w)

\* Clearing every slot with this descriptor instead of the first one.
ReleaseAll(w) ==
  /\ active_connections' =
       [i \in Slot |-> IF active_connections[i] = comm_fd[w] THEN NoFd ELSE active_connections[i]]
  /\ conn_cnt' = conn_cnt - 1
  /\ UNCHANGED <<up, comm_fd>>

\* The critical section that gives the slot back: the first slot with this descriptor.
Release(w) ==
  /\ active_connections' =
       [active_connections EXCEPT ![FirstOf({i \in Slot : active_connections[i] = comm_fd[w]})] = NoFd]
  /\ conn_cnt' = conn_cnt - 1
  /\ UNCHANGED <<up, comm_fd>>

\* A command that does not end within MAX_LEN bytes: the slot is given back, then the socket closed.
TooLong(w) ==
  /\ up /\ pc[w] = "ready"
  /\ Release(w)
  /\ Goto(w, "released")
  /\ UNCHANGED <<sessionVars, fileVars, next, mails>>

CloseReleased(w) ==
  /\ up /\ pc[w] = "released"
  /\ Goto(w, "end")
  /\ UNCHANGED <<tableVars, sessionVars, fileVars, next, mails>>

\* The client is gone: recv returns 0 for ever, and nothing is given back.
ClientGone(w) ==
  /\ up /\ pc[w] = "ready"
  /\ Goto(w, "spin")
  /\ UNCHANGED <<tableVars, sessionVars, fileVars, next, mails>>

\* signal_handler: with conn_lock held, every active connection is told and closed; exit.
Shutdown ==
  /\ up
  /\ up' = FALSE
  /\ UNCHANGED <<active_connections, conn_cnt, comm_fd, sessionVars, fileVars, pc, next, mails>>

-----------------------------------------------------------------------------
\* SMTP commands.

Command(w) == up /\ pc[w] = "ready" /\ ~data_mode[w]

Helo(w) ==
  /\ Command(w) /\ initial_state[w]
  /\ helo' = [helo EXCEPT ![w] = TRUE]
  /\ UNCHANGED <<tableVars, initial_state, mail_from, rcpt_to, data_mode, named, fileVars, pc,
                 next, mails>>

\* HELO with an empty argument: 501, but client_domain has been overwritten.
HeloEmpty(w) ==
  /\ Command(w) /\ initial_state[w]
  /\ helo' = [helo EXCEPT ![w] = FALSE]
  /\ UNCHANGED <<tableVars, initial_state, mail_from, rcpt_to, data_mode, named, fileVars, pc,
                 next, mails>>

MailFrom(w, s) ==
  /\ Command(w) /\ helo[w] /\ rcpt_to[w] = <<>>
  /\ mail_from' = [mail_from EXCEPT ![w] = s]
  /\ initial_state' = [initial_state EXCEPT ![w] = FALSE]
  /\ UNCHANGED <<tableVars, helo, rcpt_to, data_mode, named, fileVars, pc, next, mails>>

\* RCPT TO without the look-up.
RcptToAny(w, a) ==
  /\ Command(w) /\ mail_from[w] # NoSender
  /\ Len(rcpt_to[w]) < MaxRcpt
  /\ rcpt_to' = [rcpt_to EXCEPT ![w] = Append(@, a)]
  /\ named' = [named EXCEPT ![w] = @ \union {a}]
  /\ UNCHANGED <<tableVars, helo, initial_state, mail_from, data_mode, fileVars, pc, next, mails>>

\* RCPT TO, 250: only the user of a localhost address is looked up.
RcptTo(w, a) ==
  /\ Command(w) /\ mail_from[w] # NoSender
  /\ a.local => a.name \in User
  /\ Len(rcpt_to[w]) < MaxRcpt
  /\ rcpt_to' = [rcpt_to EXCEPT ![w] = Append(@, a)]
  /\ named' = [named EXCEPT ![w] = @ \union {a}]
  /\ UNCHANGED <<tableVars, helo, initial_state, mail_from, data_mode, fileVars, pc, next, mails>>

Data(w) ==
  /\ Command(w) /\ rcpt_to[w] # <<>>
  /\ data_mode' = [data_mode EXCEPT ![w] = TRUE]
  /\ UNCHANGED <<tableVars, helo, initial_state, mail_from, rcpt_to, named, fileVars, pc, next,
                 mails>>

\* RSET that forgets the sender only.
RsetSender(w) ==
  /\ Command(w) /\ helo[w]
  /\ helo' = [helo EXCEPT ![w] = FALSE]
  /\ initial_state' = [initial_state EXCEPT ![w] = TRUE]
  /\ mail_from' = [mail_from EXCEPT ![w] = NoSender]
  /\ named' = [named EXCEPT ![w] = {}]
  /\ UNCHANGED <<tableVars, rcpt_to, data_mode, fileVars, pc, next, mails>>

\* RSET forgets the HELO as well.
Rset(w) ==
  /\ Command(w) /\ helo[w]
  /\ helo' = [helo EXCEPT ![w] = FALSE]
  /\ initial_state' = [initial_state EXCEPT ![w] = TRUE]
  /\ mail_from' = [mail_from EXCEPT ![w] = NoSender]
  /\ rcpt_to' = [rcpt_to EXCEPT ![w] = <<>>]
  /\ named' = [named EXCEPT ![w] = {}]
  /\ UNCHANGED <<tableVars, data_mode, fileVars, pc, next, mails>>

\* QUIT: the socket is closed first ...
Quit(w) ==
  /\ Command(w)
  /\ Goto(w, "quit")
  /\ UNCHANGED <<tableVars, sessionVars, fileVars, next, mails>>

\* ... and its slot given back after that.
QuitRelease(w) ==
  /\ up /\ pc[w] = "quit"
  /\ Release(w)
  /\ Goto(w, "end")
  /\ UNCHANGED <<sessionVars, fileVars, next, mails>>

\* A line that begins with a dot ends the data; sender and recipients are kept.
EndData(w) ==
  /\ up /\ pc[w] = "ready" /\ data_mode[w]
  /\ mails[w] < MaxMail /\ mails' = [mails EXCEPT ![w] = @ + 1]
  /\ data_mode' = [data_mode EXCEPT ![w] = FALSE]
  /\ initial_state' = [initial_state EXCEPT ![w] = TRUE]
  /\ Goto(w, "deliver")
  /\ UNCHANGED <<tableVars, helo, mail_from, rcpt_to, named, fileVars, next>>

-----------------------------------------------------------------------------
\* Delivery, one recipient after the other.

Delivering(w) == up /\ pc[w] = "deliver" /\ next[w] <= Len(rcpt_to[w])
Rcpt(w) == rcpt_to[w][next[w]]

\* An unknown name (550, whatever its domain), a remote address (dropped), or fopen fails (451).
Skip(w) ==
  /\ Delivering(w)
  /\ next' = [next EXCEPT ![w] = @ + 1]
  /\ UNCHANGED <<tableVars, sessionVars, fileVars, pc, mails>>

OpenMbox(w) ==
  /\ Delivering(w) /\ Rcpt(w).local /\ Rcpt(w).name \in User
  /\ fd' = [fd EXCEPT ![w] = FreeFd]
  /\ Goto(w, "flock")
  /\ UNCHANGED <<tableVars, sessionVars, flocked, user_locks, mbox, next, mails>>

Flock(w) ==
  /\ up /\ pc[w] = "flock" /\ flocked[Rcpt(w).name] = NoWorker
  /\ flocked' = [flocked EXCEPT ![Rcpt(w).name] = w]
  /\ Goto(w, "mutex")
  /\ UNCHANGED <<tableVars, sessionVars, fd, user_locks, mbox, next, mails>>

\* Relying on flock alone.
NoMutex(w) ==
  /\ up /\ pc[w] = "mutex"
  /\ user_locks' = [user_locks EXCEPT ![Rcpt(w).name] = w]
  /\ Goto(w, "write")
  /\ UNCHANGED <<tableVars, sessionVars, fd, flocked, mbox, next, mails>>

LockUser(w) ==
  /\ up /\ pc[w] = "mutex" /\ user_locks[Rcpt(w).name] = NoWorker
  /\ user_locks' = [user_locks EXCEPT ![Rcpt(w).name] = w]
  /\ Goto(w, "write")
  /\ UNCHANGED <<tableVars, sessionVars, fd, flocked, mbox, next, mails>>

\* fprintf and fclose; closing the descriptor releases its flock.
WriteMbox(w) ==
  LET u == Rcpt(w).name IN
  /\ up /\ pc[w] = "write"
  /\ mbox' = [mbox EXCEPT ![u] =
       @ \union {[by |-> w, mail |-> mails[w], rcpt |-> next[w], from |-> mail_from[w]]}]
  /\ flocked' = [flocked EXCEPT ![u] = IF @ = w THEN NoWorker ELSE @]
  /\ Goto(w, "unlock")
  /\ UNCHANGED <<tableVars, sessionVars, fd, user_locks, next, mails>>

\* A worker that goes on with the user's mutex.
UnlockNobody(w) ==
  /\ up /\ pc[w] = "unlock"
  /\ Goto(w, "unflock")
  /\ UNCHANGED <<tableVars, sessionVars, fileVars, next, mails>>

UnlockUser(w) ==
  /\ up /\ pc[w] = "unlock"
  /\ user_locks' = [user_locks EXCEPT ![Rcpt(w).name] = NoWorker]
  /\ Goto(w, "unflock")
  /\ UNCHANGED <<tableVars, sessionVars, fd, flocked, mbox, next, mails>>

\* flock(fd, LOCK_UN) after fclose: the descriptor may be another worker's mailbox by now.
Unflock(w) ==
  /\ up /\ pc[w] = "unflock"
  /\ flocked' = [u \in User |->
       IF \E x \in Worker : FileOpen(x) /\ fd[x] = fd[w] /\ flocked[u] = x
         THEN NoWorker ELSE flocked[u]]
  /\ fd' = [fd EXCEPT ![w] = NoFd]
  /\ next' = [next EXCEPT ![w] = @ + 1]
  /\ Goto(w, "deliver")
  /\ UNCHANGED <<tableVars, sessionVars, user_locks, mbox, mails>>

\* 250 OK, whatever became of the recipients.
Delivered(w) ==
  /\ up /\ pc[w] = "deliver" /\ next[w] > Len(rcpt_to[w])
  /\ next' = [next EXCEPT ![w] = 1]
  /\ Goto(w, "ready")
  /\ UNCHANGED <<tableVars, sessionVars, fileVars, mails>>

-----------------------------------------------------------------------------
Delivery(w) ==
  \/ Skip(w) \/ OpenMbox(w) \/ Flock(w) \/ LockUser(w) \/ WriteMbox(w) \/ UnlockUser(w)
  \/ Unflock(w) \/ Delivered(w)

Session(w) ==
  \/ Helo(w) \/ HeloEmpty(w) \/ Data(w) \/ Rset(w) \/ Quit(w) \/ EndData(w)
  \/ \E s \in Sender : MailFrom(w, s)
  \/ \E a \in Address : RcptTo(w, a)

Connection(w) ==
  \/ Accept(w) \/ AcceptFails(w) \/ NoThread(w) \/ Admit(w) \/ TooLong(w)
  \/ CloseReleased(w) \/ ClientGone(w) \/ QuitRelease(w)

Next == Shutdown \/ \E w \in Worker : Connection(w) \/ Session(w) \/ Delivery(w)

Spec == Init /\ [][Next]_vars

\* A worker's thread keeps running while the process does; nothing is assumed of the clients.
FairSpec == Spec /\ \A w \in Worker : WF_vars(Delivery(w))

-----------------------------------------------------------------------------
\* The types of the state; a local recipient is a user of this server.
TypeOK ==
  /\ active_connections \in [Slot -> Fd \union {NoFd}]
  /\ conn_cnt \in 0..MAX_CONNECTIONS
  /\ up \in BOOLEAN
  /\ pc \in [Worker -> {"none", "new", "ready", "released", "quit", "spin", "end", "lost",
                        "deliver", "flock", "mutex", "write", "unlock", "unflock"}]
  /\ comm_fd \in [Worker -> Fd \union {NoFd}]
  /\ helo \in [Worker -> BOOLEAN]
  /\ initial_state \in [Worker -> BOOLEAN]
  /\ mail_from \in [Worker -> Sender \union {NoSender}]
  /\ \A w \in Worker :
       /\ Len(rcpt_to[w]) <= MaxRcpt
       /\ \A i \in 1..Len(rcpt_to[w]) :
            rcpt_to[w][i] \in Address /\ (rcpt_to[w][i].local => rcpt_to[w][i].name \in User)
  /\ data_mode \in [Worker -> BOOLEAN]
  /\ next \in [Worker -> 1..(MaxRcpt + 1)]
  /\ fd \in [Worker -> Fd \union {NoFd}]
  /\ flocked \in [User -> Worker \union {NoWorker}]
  /\ user_locks \in [User -> Worker \union {NoWorker}]
  /\ \A u \in User : \A m \in mbox[u] : m.by \in Worker /\ m.from \in Sender \union {NoSender}
  /\ mails \in [Worker -> 0..MaxMail]
  /\ named \in [Worker -> SUBSET Address]

Registered(w) == pc[w] \notin {"none", "new", "released", "end", "lost"}

\* The table of active connections has exactly one slot for each open descriptor of a worker that
\* has not given its slot back, though QUIT closes the socket first and its descriptor may already
\* be another connection's: signal_handler misses no connection that is served.  conn_cnt does not
\* count the slots: it is ahead of them by the workers that were started on a failed accept and
\* registered the descriptor -1.
SlotsMatch ==
  /\ \A f \in Fd :
       Cardinality({i \in Slot : active_connections[i] = f})
         = Cardinality({w \in Worker : Registered(w) /\ comm_fd[w] = f})
  /\ conn_cnt = Cardinality({i \in Slot : active_connections[i] # NoFd})
                  + Cardinality({w \in Worker : Registered(w) /\ comm_fd[w] = NoFd})

\* No two workers write one mailbox at a time, even when a late flock(fd, LOCK_UN) has released the
\* flock of another worker: "Each user has a mutex to lock the file".
OneWriter ==
  \A w, x \in Worker :
    pc[w] = "write" /\ pc[x] = "write" /\ Rcpt(w).name = Rcpt(x).name => w = x

\* Whoever waits for a mailbox waits for a worker that goes on: flock is held only by a worker that
\* waits at most for the same user's mutex, and the mutex only by one that waits for nothing, so the
\* two locks, taken by several workers and given back in the order they were taken, close no circle.
LocksInOrder ==
  \A u \in User, w \in Worker :
    /\ flocked[u] = w => pc[w] \in {"mutex", "write"} /\ Rcpt(w).name = u
    /\ user_locks[u] = w => pc[w] \in {"write", "unlock"} /\ Rcpt(w).name = u

\* A mail goes only to recipients that its connection has named since its last RSET, in whatever
\* order the commands came.
DeliveredAsNamed ==
  [][\A u \in User : \A m \in mbox'[u] \ mbox[u] : [name |-> u, local |-> TRUE] \in named[m.by]]_vars

\* Every mail whose data has ended is answered, however the workers contend for mailboxes, unless
\* the process exits.
DeliveryEnds == \A w \in Worker : pc[w] = "deliver" ~> (pc[w] = "ready" \/ ~up)
====
