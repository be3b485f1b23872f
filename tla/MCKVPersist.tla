----------------------------- MODULE MCKVPersist -----------------------------
\* Writes and peers of KVPersist for TLC.
EXTENDS KVPersist

CONSTANTS k1, k2, a, b, t1, t2, t3

\* Two writes of one key; a removal or a write of the other key.
Writes == {[t \in Thread |-> CASE t = t1 -> [key |-> k1, val |-> a]
                               [] t = t2 -> [key |-> k1, val |-> b]
                               [] OTHER -> [key |-> k2, val |-> v]] : v \in {Absent, a}}

\* A peer that holds the second key.
Peers == {[k \in Key |-> IF k = k2 THEN b ELSE Absent]}
====
