----------------------------- MODULE MCMailServer -----------------------------
\* Connections, users and senders of MailServer for TLC.
EXTENDS MailServer

CONSTANTS w1, w2, u1, s1

\* A local user, and a local name without a mailbox.
LocalAddresses == {[name |-> n, local |-> TRUE] : n \in {u1, Stranger}}
====
