------------------------------- MODULE MCWebMail -------------------------------
\* Connections and users of WebMail for TLC.
EXTENDS WebMail

CONSTANTS w1, w2, h1, u1

\* A local user, and a local name without a mailbox.
LocalAddresses == {[name |-> n, local |-> TRUE] : n \in {u1, Stranger}}
====
