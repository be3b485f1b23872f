-------------------------------- MODULE WebMail --------------------------------
(***************************************************************************)
(* The mail server with the frontend's mail helper among its clients:      *)
(* send_to_webmail (webmail/mailhelper.cc) connects, sends its commands,   *)
(* waits for something after each, and closes without QUIT.                *)
(*                                                                         *)
(* The helper takes the greeting for the answer to HELO and stays one      *)
(* answer behind from then on.  It writes "MAIL FROM: <...>" and           *)
(* "RCPT TO: <...>"; the server's patterns allow no blank after the colon, *)
(* so both are refused, the message is taken for commands, and nothing is  *)
(* ever delivered.                                                         *)
(***************************************************************************)
EXTENDS MailServer

CONSTANT Helper     \* the connections that calls of send_to_webmail make

ASSUME HelperAssumption == Helper \subseteq Worker

\* What a call sends; "text" stands for the lines of the message, which are not waited for and are
\* no commands.
Dialogue == <<"HELO", "MAIL", "RCPT", "DATA", "text", ".">>

VARIABLES
  hpc,      \* a call is "idle", about to "send", in "recv", or "closed"
  sent,     \* commands sent
  seen,     \* commands the worker has taken
  reply,    \* answers are waiting in the helper's socket
  reset     \* the worker has answered a helper that had closed its socket

helperVars == <<hpc, sent, seen, reply, reset>>
webVars == <<vars, helperVars>>

WebInit ==
  /\ Init
  /\ hpc = [h \in Helper |-> "idle"]
  /\ sent = [h \in Helper |-> 0]
  /\ seen = [h \in Helper |-> 0]
  /\ reply = [h \in Helper |-> FALSE]
  /\ reset = [h \in Helper |-> FALSE]

-----------------------------------------------------------------------------
\* send_to_webmail.

ConnectHelper(h) ==
  /\ hpc[h] = "idle"
  /\ hpc' = [hpc EXCEPT ![h] = IF up THEN "send" ELSE "closed"]
  /\ UNCHANGED <<vars, sent, seen, reply, reset>>

\* The server has closed the connection or is gone.
Hung(h) == ~up \/ pc[h] = "end"

SendCommand(h) ==
  /\ hpc[h] = "send"
  /\ sent' = [sent EXCEPT ![h] = @ + 1]
  /\ hpc' = [hpc EXCEPT ![h] = IF Dialogue[sent'[h]] = "text" THEN "send" ELSE "recv"]
  /\ UNCHANGED <<vars, seen, reply, reset>>

\* recv takes all the answers that have come, or returns 0 when the server has closed.
Receive(h) ==
  /\ hpc[h] = "recv"
  /\ reply[h] \/ Hung(h)
  /\ reply' = [reply EXCEPT ![h] = FALSE]
  /\ hpc' = [hpc EXCEPT ![h] = IF sent[h] = Len(Dialogue) THEN "closed" ELSE "send"]
  /\ UNCHANGED <<vars, sent, seen, reset>>

\* send or recv fails, or send kills the frontend with SIGPIPE.
HelperFails(h) ==
  /\ hpc[h] \in {"send", "recv"} /\ Hung(h)
  /\ hpc' = [hpc EXCEPT ![h] = "closed"]
  /\ UNCHANGED <<vars, sent, seen, reply, reset>>

-----------------------------------------------------------------------------
\* The worker of a helper's connection.

\* A failing accept leaves the helper's connection in the backlog.
AcceptHelper(h) == hpc[h] # "idle" /\ (Accept(h) \/ NoThread(h)) /\ UNCHANGED helperVars

\* The greeting, or 421.
Greet(h) ==
  /\ Admit(h)
  /\ reply' = [reply EXCEPT ![h] = hpc[h] # "closed"]
  /\ UNCHANGED <<hpc, sent, seen, reset>>

\* The helper has sent a command the worker has not taken; only HELO is accepted.
Take(h) ==
  /\ Command(h) /\ seen[h] < sent[h]
  /\ seen' = [seen EXCEPT ![h] = @ + 1]
  /\ IF Dialogue[seen'[h]] = "HELO" THEN Helo(h) ELSE UNCHANGED vars
  /\ UNCHANGED <<hpc, sent>>

\* Refusing without an answer.
ObeySilently(h) ==
  /\ Take(h)
  /\ reply' = [reply EXCEPT ![h] = Dialogue[seen'[h]] = "HELO"]
  /\ UNCHANGED reset

Obey(h) ==
  /\ Take(h)
  /\ \/ hpc[h] # "closed" /\ reply' = [reply EXCEPT ![h] = TRUE] /\ UNCHANGED reset
     \/ hpc[h] = "closed" /\ reset' = [reset EXCEPT ![h] = TRUE] /\ UNCHANGED reply

\* A second answer to a closed socket raises SIGPIPE, which nobody handles.
BrokenPipe(h) ==
  /\ Command(h) /\ seen[h] < sent[h] /\ reset[h]
  /\ Shutdown
  /\ UNCHANGED helperVars

HelperGone(h) ==
  /\ hpc[h] = "closed" /\ seen[h] = sent[h]
  /\ ClientGone(h)
  /\ UNCHANGED helperVars

-----------------------------------------------------------------------------
Call(h) == ConnectHelper(h) \/ SendCommand(h) \/ Receive(h) \/ HelperFails(h)
Attend(h) == AcceptHelper(h) \/ Greet(h) \/ Obey(h) \/ BrokenPipe(h) \/ HelperGone(h)

WebNext ==
  \/ \E h \in Helper : Call(h) \/ Attend(h)
  \/ /\ \/ Shutdown
        \/ \E w \in Worker \ Helper : Connection(w) \/ Session(w) \/ Delivery(w)
     /\ UNCHANGED helperVars

WebSpec == WebInit /\ [][WebNext]_webVars

\* The threads of the server and of the calls keep running; nothing is assumed of other clients.
FairWebSpec ==
  /\ WebSpec
  /\ \A h \in Helper :
       /\ WF_webVars(SendCommand(h) \/ Receive(h) \/ HelperFails(h))
       /\ WF_webVars(AcceptHelper(h) \/ Greet(h) \/ Obey(h))

-----------------------------------------------------------------------------
\* A call of send_to_webmail ends although it is one answer behind, whether it is served, turned
\* away, or the server exits: it never waits while the worker waits for it.  Only a connection that
\* was accepted without a thread can keep it waiting.
HelperReturns ==
  \A h \in Helper : hpc[h] = "send" ~> hpc[h] = "closed" \/ pc[h] = "lost"
====
